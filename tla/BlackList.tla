------------------------------ MODULE BlackList ------------------------------
(***************************************************************************)
(* The black list of the NDIS filter driver (AbrtBlack.c) and the way a    *)
(* frame is read for it (AbrtNBL.c).                                       *)
(*                                                                         *)
(* A rule is a BLACK_DATA: [Mac, Ip, ProtoType, DestinationProt,           *)
(* SourceProt, URL].  A frame is what is on the wire: [kind, Mac, Ip,      *)
(* DestinationProt, SourceProt, URL], its Mac and Ip being the sets of its *)
(* two addresses.  A DATA is what the driver believes it has read: a frame *)
(* with ProtoType in the place of kind.  A URL is a sequence.              *)
(***************************************************************************)
EXTENDS Integers, Sequences, SequencesExt

CONSTANTS
  Ips, Ports      (* the values an uninitialized Ip or port may hold *)

PROTO_ICMP == 1
PROTO_IGMP == 2
PROTO_TCP == 6
PROTO_ARP == 8
PROTO_UDP == 17
Protos == {0, PROTO_ICMP, PROTO_IGMP, PROTO_TCP, PROTO_ARP, PROTO_UDP}

(* filterFilterNetBufferList: what may be read from a frame.  The block is *)
(* not zeroed beyond its first bytes, so every field that is not assigned  *)
(* holds anything: all but the addresses of a frame that is not IP (ARP is *)
(* among them, its EtherType is compared in the wrong byte order), and the *)
(* ports of an IP protocol without ports.  The TCP ports are the addresses *)
(* of the header's fields, not their contents.  The UCHAR ProtoType holds  *)
(* the low byte 0 of ETHERTYPE_IP for an IP protocol it does not know.     *)
Read(frame, proto, ips, ports) ==
  {[Mac |-> frame.Mac, Ip |-> ip, ProtoType |-> proto, DestinationProt |-> d,
    SourceProt |-> s, URL |-> frame.URL] : ip \in ips, d \in ports, s \in ports}

filterFilterNetBufferList(frame) ==
  CASE frame.kind = "udp" ->
         {[Mac |-> frame.Mac, Ip |-> frame.Ip, ProtoType |-> PROTO_UDP,
           DestinationProt |-> frame.DestinationProt,
           SourceProt |-> frame.SourceProt, URL |-> frame.URL]}
    [] frame.kind = "tcp" -> Read(frame, PROTO_TCP, {frame.Ip}, Ports)
    [] frame.kind = "icmp" -> Read(frame, PROTO_ICMP, {frame.Ip}, Ports)
    [] frame.kind = "igmp" -> Read(frame, PROTO_IGMP, {frame.Ip}, Ports)
    [] frame.kind = "ip" -> Read(frame, 0, {frame.Ip}, Ports)
    [] OTHER -> UNION {Read(frame, proto, {{i, j} : i, j \in Ips}, Ports) :
                         proto \in Protos}

(* The comparisons that precede the ports.                                 *)
AddressMatches(rule, data) ==
  \/ rule.Mac \in data.Mac
  \/ rule.Ip \in data.Ip
  \/ data.ProtoType # 0 /\ data.ProtoType = rule.ProtoType

(* "No port, nothing more to compare": the search leaves the whole loop,   *)
(* so only the newest rule was compared at all.                            *)
EndsSearch(data) ==
  \/ data.ProtoType \in {PROTO_ARP, PROTO_ICMP, PROTO_IGMP}
  \/ data.DestinationProt = 0
  \/ data.SourceProt = 0

PortMatches(rule, data) ==
  \/ data.DestinationProt = rule.DestinationProt
  \/ data.SourceProt = rule.SourceProt

(* KMPmatched searches the payload and, as it goes on for the length of    *)
(* the whole frame, unset bytes behind it.  A URL that is in the payload   *)
(* is found; any other may be found, the empty URL of a rule without one   *)
(* first of all.                                                           *)
Occurs(url, text) ==
  \E i \in 1 .. Len(text) : IsPrefix(url, SubSeq(text, i, Len(text)))
KMPmatched(rule, data) ==
  IF data.ProtoType # PROTO_TCP \/ data.URL = <<>> THEN {FALSE}
  ELSE IF rule.URL # <<>> /\ Occurs(rule.URL, data.URL) THEN {TRUE}
       ELSE BOOLEAN

(* One rule against one frame: the possible outcomes.                      *)
RuleMatches(rule, data) ==
  IF AddressMatches(rule, data) THEN {TRUE}
  ELSE IF EndsSearch(data) THEN {FALSE}
  ELSE IF PortMatches(rule, data) THEN {TRUE}
  ELSE KMPmatched(rule, data)

(* Filtering, from the newest rule to the oldest: may it say that a rule   *)
(* matches, may it say that none does?                                     *)
Compared_Newest(list, data) == {i \in DOMAIN list : i = 1}
Compared(list, data) ==
  {i \in DOMAIN list : i = 1 \/ ~EndsSearch(data)}
Filtering(list, data) ==
  {found \in BOOLEAN :
     IF found THEN \E i \in Compared(list, data) : TRUE \in RuleMatches(list[i], data)
     ELSE \A i \in Compared(list, data) : FALSE \in RuleMatches(list[i], data)}

InsertBlackList_Tail(list, rule) == Append(list, rule)
InsertBlackList(list, rule) == Cons(rule, list)

(* The listed URL is compared over its own length only.                    *)
SameRule(listed, rule) ==
  /\ [listed EXCEPT !.URL = <<>>] = [rule EXCEPT !.URL = <<>>]
  /\ IsPrefix(listed.URL, rule.URL)

(* RemoveBlackList unlinks the newest entry it takes for the given rule.   *)
RemoveBlackList(list, rule) ==
  RemoveFirstMatch(list, LAMBDA listed : SameRule(listed, rule))
=============================================================================
