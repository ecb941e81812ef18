SPECIFICATION FairSpec
CONSTANTS
  dev = dev
  prod = prod
  job = job
  old = old
  v1 = v1
  v2 = v2
  Absent = Absent
  Services = {dev, prod}
  Jobs = {job}
  Specs = {old, v1, v2}
  Desired <- TwoBuilds
  Initial = {old}
  Dry = {prod}
  MaxEdits = 1
  MaxFaults = 2
INVARIANTS
  TypeOK
  StaleSchemaIsGone
PROPERTIES
  NoBlindOverwrite
  EveryoneStarts
CHECK_DEADLOCK FALSE
