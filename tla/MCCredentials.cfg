SPECIFICATION Spec
CONSTANTS
  d1 = d1
  d2 = d2
  CP = CP
  Desktops = {d1, d2}
  Users = {"root", "user"}
  NoUser = "nobody"
  Owners = {"root"}
  Local = TRUE
  MaxEvents = 4
INVARIANTS TypeOK RunsAsWhoLoggedOn HostComesWithName
SYMMETRY Symmetric
CHECK_DEADLOCK FALSE
