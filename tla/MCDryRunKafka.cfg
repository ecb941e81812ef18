SPECIFICATION Spec
CONSTANTS
  dev = dev
  prod = prod
  job = job
  old = old
  v1 = v1
  v2 = v2
  Absent = Absent
  Services = {}
  Jobs = {job}
  Specs = {v2}
  Desired <- OneBuild
  Initial = {}
  Dry = {job}
  MaxEdits = 0
  MaxFaults = 0
INVARIANT DryRunAvoidsKafka
CHECK_DEADLOCK FALSE
