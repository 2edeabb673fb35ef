SPECIFICATION FairPolicySpec
CONSTANTS
  Addrs = {a1, a2}
  Conns = {c1, c2}
  MaxTries = 1
  MaxAdds = 1
  AddTypes = {"inner", "outer", "innerProxy"}
  FromMetadata = TRUE
  None = none
CHECK_DEADLOCK FALSE
INVARIANTS
  
  ConnectedIsManaged
PROPERTIES
  FailedIsRetried
  ClosedIsDropped
