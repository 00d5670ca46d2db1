SPECIFICATION Spec
CONSTANTS
  c1 = c1
  c2 = c2
  b1 = b1
  b2 = b2
  b3 = b3
  Callers = {c1, c2}
  PIDs = {1, 2, 3}
  Processes <- MCProcesses
  MaxLength = 2
  Word = 8
  Names = {"a", "ab"}
  NoName = NoName
  Starts <- MCStarts
  Images <- MCImages
  Blocks = {b1, b2, b3}
  ListHead = ListHead
  MaxCalls <- MCCalls
  Mixed = FALSE
INVARIANTS TypeOK ListedWasAdded SteadyIsFound HidesEveryOther NewestIsRefused RefusedWasListed DeletedIsGone ListIntact WalksGetOn
SYMMETRY Symmetric
CHECK_DEADLOCK FALSE
