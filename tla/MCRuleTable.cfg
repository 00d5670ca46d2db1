SPECIFICATION Spec
CONSTANTS
  d1 = d1
  d2 = d2
  h1 = h1
  h2 = h2
  h3 = h3
  Desktops = {d1, d2}
  Users = {"boss", "staff"}
  Nobody = "nobody"
  Admins = {}
  Senior <- MCSenior
  Justice <- MCJustice
  Programs <- MCPrograms
  Starts <- MCStarts
  Heads = {h1, h2, h3}
  Alike <- MCAlike
  Same <- MCSame
  Faults = {"ssdt", "wfp", "ndis", "db"}
  MaxEvents = 6
INVARIANTS TypeOK DatabaseIsTable BansAreEnforced OnlyShownIsEnforced
SYMMETRY Symmetric
CHECK_DEADLOCK FALSE
