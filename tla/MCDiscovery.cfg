SPECIFICATION FairSpec
CONSTANTS
  s1 = s1
  s2 = s2
  SeederList <- MCSeederList
  Types = {"optimized", "continuous"}
  Callers = {c1, c2}
  None = none
PROPERTIES SeederFound DeniedLeaves BootstrapReturns GoroutinesEnd
CHECK_DEADLOCK FALSE
