CONSTANTS
  Artifacts = {rest, root}
  Root = root
  Versions = {v1, v2}
  None = none
  Partial = partial
  DropDbs = {"yes", "no", ""}
  MaxJobs = 3
  MaxFaults = 2
CHECK_DEADLOCK FALSE
SPECIFICATION Spec
INVARIANT SurvivesOneFault
INVARIANT DeploysUndisturbed
PROPERTY NoSwapUnderTraffic
PROPERTY DropsIdleDatabase
