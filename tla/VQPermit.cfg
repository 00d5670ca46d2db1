SPECIFICATION FairSpec
CONSTANTS
  o1 = o1
  o2 = o2
  o3 = o3
  NoOp = NoOp
  ListHead = ListHead
  Ops <- TwoOps
  AppAnswers <- ShippedAnswers
  MaxExits = 0
INVARIANT PermittedIsAllowed
CHECK_DEADLOCK FALSE
