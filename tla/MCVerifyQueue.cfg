SPECIFICATION FairSpec
CONSTANTS
  o1 = o1
  o2 = o2
  o3 = o3
  NoOp = NoOp
  ListHead = ListHead
  Ops <- MCOps
  AppAnswers <- MCAnswers
  MaxExits = 1
INVARIANTS TypeOK ReleasedWithAnswer VerdictTracksAnswer CopiedNodeIsLive FirstUseIsReachable
PROPERTIES OldestFirst AnsweredOnce PollDrainsQueue FilledReleases ImplementsGate
CHECK_DEADLOCK FALSE
CONSTRAINT InOrder
