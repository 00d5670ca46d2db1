---------------------------- MODULE MCNdisFilter ----------------------------
(* One chain sent and one received, over and over, each of two lists.  The *)
(* first frame of one chain has ports the driver can read, that of the     *)
(* other has not; the two rules name an address each, and a port or a URL  *)
(* that is in no frame or in one.                                          *)
EXTENDS NdisFilter, TLC

CONSTANTS c1, c2, q1, bad, worse, m

MCIps == {bad, worse}
MCPorts == {0, 53}
Frame(kind, ip, url) ==
  [kind |-> kind, Mac |-> {m}, Ip |-> {ip}, DestinationProt |-> 53,
   SourceProt |-> 1024, URL |-> url]
Rule(ip, port, url) ==
  [Mac |-> "none", Ip |-> ip, ProtoType |-> 0, DestinationProt |-> port,
   SourceProt |-> port, URL |-> url]

MCContents == {<<Frame("udp", bad, <<>>), Frame("udp", worse, <<>>)>>,
               <<Frame("tcp", worse, <<"x", "a">>), Frame("icmp", bad, <<>>)>>}
MCRules == {Rule(bad, 0, <<"a">>), Rule(worse, 80, <<"a", "b">>)}
=============================================================================
