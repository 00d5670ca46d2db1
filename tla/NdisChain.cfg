SPECIFICATION Spec
CONSTANTS
  c1 = c1
  c2 = c2
  q1 = q1
  bad = bad
  worse = worse
  m = m
  NoOid = NoOid
  Sends = {c1}
  Rcvs = {c2}
  Oids = {q1}
  Ips <- MCIps
  Ports <- MCPorts
  Contents <- MCContents
  Rules <- MCRules
  MaxRules = 2
  DBG = FALSE
  MaxDIY = 1
  MaxReturns = 2
PROPERTY EveryNodeScanned
CHECK_DEADLOCK FALSE
