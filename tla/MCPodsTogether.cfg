SPECIFICATION Spec
CONSTANTS
  dev = dev
  prod = prod
  job = job
  old = old
  v1 = v1
  v2 = v2
  Absent = Absent
  Services = {dev, prod}
  Jobs = {}
  Specs = {v2}
  Desired <- OneBuild
  Initial = {}
  Dry = {}
  MaxEdits = 0
  MaxFaults = 0
PROPERTY PodsStartTogether
CHECK_DEADLOCK FALSE
