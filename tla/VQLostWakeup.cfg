SPECIFICATION FairSpec
CONSTANTS
  o1 = o1
  o2 = o2
  o3 = o3
  NoOp = NoOp
  ListHead = ListHead
  Ops <- TwoOps
  AppAnswers <- MCAnswers
  MaxExits = 0
PROPERTY EveryOperationFetched
CHECK_DEADLOCK FALSE
