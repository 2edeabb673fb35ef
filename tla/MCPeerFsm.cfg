SPECIFICATION FairFsmSpec
CONSTANTS
  Pieces = {1}
  Unlucky = {"active"}
  MayFail = {"active"}
  Foreign = {"passive"}
  MaxForeign = 1
CHECK_DEADLOCK FALSE
INVARIANTS
  FsmConsistent
  FollowsPeer
PROPERTIES
  ExchangeBegins
