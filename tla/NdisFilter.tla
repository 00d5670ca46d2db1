----------------------------- MODULE NdisFilter -----------------------------
(***************************************************************************)
(* One filter module of the NDIS filter driver NdisFilterTEST: its         *)
(* lifecycle (attach, restart, pause, detach), the net buffer lists it     *)
(* scans, forwards, drops and counts in both directions, the black list    *)
(* ioctls and the OID requests it clones.                                  *)
(*                                                                         *)
(* NDIS itself is external: it calls the handlers of an attached module,   *)
(* serializes OID requests, and detaches a paused module when everything   *)
(* it handed in has come back.  Handlers run concurrently; one action is   *)
(* one stretch of a handler, up to the next lock or NDIS call after which  *)
(* another thread can see a difference.                                    *)
(***************************************************************************)
EXTENDS BlackList, FiniteSets

CONSTANTS
  Sends, Rcvs, (* the chains of net buffer lists in play, sent or received *)
  Contents,    (* the sequences of frames a chain may carry, one a list    *)
  Rules,       (* the BLACK_DATA the desktop may send                      *)
  Oids,        (* OID requests                                             *)
  NoOid,       (* a NULL PendingOidRequest                                 *)
  DBG,         (* is this a checked build; a free one does strictly more   *)
  MaxRules,    (* bound: length of the black list                          *)
  MaxDIY,      (* bound: packets of its own the driver has in flight       *)
  MaxReturns   (* bound: overlapping calls of FilterReturnNetBufferLists   *)

ASSUME NdisAssumption ==
  /\ NoOid \notin Oids
  /\ DBG \in BOOLEAN
  /\ Sends \intersect Rcvs = {}
  /\ \A frames \in Contents : Len(frames) \in Nat \ {0}
  /\ MaxRules \in Nat /\ MaxDIY \in Nat /\ MaxReturns \in Nat

Chains == Sends \union Rcvs
Returns == 1 .. MaxReturns

VARIABLES
  State,             \* State of the MS_FILTER; "detached" when there is none
  BlackDataList,
  chain,             \* where each chain is, and what the driver knows of it
  OutstandingSends, OutstandingRcvs,
  returning,         \* of each call of FilterReturn, what it has yet to uncount
  diy,               \* SendDIYNBL packets below the filter
  PendingOidRequest,
  clone,             \* the stage of each OID request's clone
  down               \* the machine has stopped

nblVars == <<chain, OutstandingSends, OutstandingRcvs, returning, diy>>
oidVars == <<PendingOidRequest, clone>>
vars == <<State, BlackDataList, nblVars, oidVars, down>>

(* A chain outside the filter, with the protocol or miniport it belongs to. *)
Home == [stage |-> "home", length |-> 0, frames |-> <<>>, cannotPend |-> FALSE,
         verdict |-> "none"]

Init ==
  /\ State = "detached"
  /\ BlackDataList = <<>>
  /\ chain = [c \in Chains |-> Home]
  /\ OutstandingSends = 0 /\ OutstandingRcvs = 0
  /\ returning = [k \in Returns |-> 0]
  /\ diy = 0
  /\ PendingOidRequest = NoOid
  /\ clone = [r \in Oids |-> "none"]
  /\ down = FALSE

-----------------------------------------------------------------------------
(* Lifecycle.  The MS_FILTER is zeroed when it is allocated.               *)

FilterAttach ==
  /\ ~down /\ State = "detached"
  /\ State' = "paused"
  /\ OutstandingSends' = 0 /\ OutstandingRcvs' = 0
  /\ PendingOidRequest' = NoOid
  /\ UNCHANGED <<down, BlackDataList, chain, returning, diy, clone>>

FilterRestart ==
  /\ ~down /\ State = "paused"
  /\ State' = "running"
  /\ UNCHANGED <<down, BlackDataList, nblVars, oidVars>>

(* The module is paused at once, whatever is outstanding.                  *)
FilterPause ==
  /\ ~down /\ State = "running"
  /\ State' = "paused"
  /\ UNCHANGED <<down, BlackDataList, nblVars, oidVars>>

(* External: when NDIS detaches a module.                                  *)
Drained ==
  /\ \A c \in Chains : chain[c].stage = "home"
  /\ \A k \in Returns : returning[k] = 0
  /\ diy = 0
  /\ \A r \in Oids : clone[r] = "none"

FilterDetach ==
  /\ ~down /\ State = "paused"
  /\ Drained
  /\ State' = "detached"
  /\ UNCHANGED <<down, BlackDataList, nblVars, oidVars>>

-----------------------------------------------------------------------------
(* Net buffer lists.                                                       *)

(* FilterSend- and FilterReceiveNetBufferLists: a checked build refuses    *)
(* what comes in while the module is not running (the chain is home        *)
(* again); a free build takes it.  `frames' is what there is to scan.      *)
Enter(c) ==
  /\ ~down /\ State # "detached"
  /\ chain[c].stage = "home"
  /\ DBG => State = "running"
  /\ \E frames \in Contents, cannotPend \in BOOLEAN :
       chain' = [chain EXCEPT ![c] =
                   [stage |-> "entered", length |-> Len(frames), frames |-> frames,
                    cannotPend |-> cannotPend, verdict |-> "none"]]
  /\ UNCHANGED <<down, State, BlackDataList, OutstandingSends, OutstandingRcvs,
                 returning, diy, oidVars>>

FilterSendNetBufferLists(c) == c \in Sends /\ Enter(c)
FilterReceiveNetBufferLists(c) == c \in Rcvs /\ Enter(c)

(* filterScanSingleNBL copies the first net buffer list of the chain, and  *)
(* only that, twice: into a new net buffer list and into Data.  Without    *)
(* memory for Data or for the record of what is parsed the frame is not    *)
(* compared and its chain goes on.                                         *)
Verdicts(frames) ==
  {verdict \in {"unread", "allow", "deny"} :
     verdict # "unread" =>
       \E data \in filterFilterNetBufferList(frames[1]) :
         (verdict = "deny") \in Filtering(BlackDataList, data)}

(* A denied chain is dropped and never given back, unless the caller's     *)
(* flags say "cannot pend": then it is returned and goes on nevertheless.  *)
StageAfterScan_FailClosed(c, verdict) ==
  IF verdict = "unread" \/ (verdict = "deny" /\ ~chain[c].cannotPend)
  THEN "dropped" ELSE "passed"
StageAfterScan(c, verdict) ==
  IF verdict = "deny" /\ ~chain[c].cannotPend THEN "dropped" ELSE "passed"

Scan(c) ==
  /\ ~down /\ chain[c].stage = "entered"
  /\ \E verdict \in Verdicts(chain[c].frames) :
       chain' = [chain EXCEPT ![c].verdict = verdict,
                              ![c].frames = <<>>,
                              ![c].stage = StageAfterScan(c, verdict)]
  /\ UNCHANGED <<down, State, BlackDataList, OutstandingSends, OutstandingRcvs,
                 returning, diy, oidVars>>

(* Without memory for the new net buffer list, its data, or Header, a NULL *)
(* pointer is dereferenced before anything asks for it.                    *)
ScanCrashes(c) ==
  /\ ~down /\ chain[c].stage = "entered"
  /\ down' = TRUE
  /\ UNCHANGED <<State, BlackDataList, nblVars, oidVars>>

(* The chain is counted, then handed on: NdisFSendNetBufferLists or        *)
(* NdisFIndicateReceiveNetBufferLists.                                     *)
Length(c) == chain[c].length
SendCount_One(c) == 1
SendCount(c) == Length(c)
RcvCount_One(c) == 1
RcvCount(c) == Length(c)

HandOn(c) ==
  /\ ~down /\ chain[c].stage = "passed"
  /\ IF c \in Sends
     THEN /\ OutstandingSends' = OutstandingSends + SendCount(c)
          /\ UNCHANGED OutstandingRcvs
     ELSE /\ OutstandingRcvs' = OutstandingRcvs + RcvCount(c)
          /\ UNCHANGED OutstandingSends
  /\ chain' = [chain EXCEPT ![c].stage = "away"]
  /\ UNCHANGED <<down, State, BlackDataList, returning, diy, oidVars>>

(* The miniport has sent a chain: it is uncounted, then completed.         *)
FilterSendNetBufferListsComplete(c) ==
  /\ ~down /\ chain[c].stage = "away" /\ c \in Sends
  /\ OutstandingSends' = OutstandingSends - Length(c)
  /\ chain' = [chain EXCEPT ![c] = Home]
  /\ UNCHANGED <<down, State, BlackDataList, OutstandingRcvs, returning, diy, oidVars>>

(* Indicating a chain that cannot pend returns when the upper drivers are  *)
(* done with it; FilterReceiveNetBufferLists uncounts it itself.           *)
IndicateReturn(c) ==
  /\ ~down /\ chain[c].stage = "away" /\ c \in Rcvs /\ chain[c].cannotPend
  /\ OutstandingRcvs' = OutstandingRcvs - Length(c)
  /\ chain' = [chain EXCEPT ![c] = Home]
  /\ UNCHANGED <<down, State, BlackDataList, OutstandingSends, returning, diy, oidVars>>

(* FilterReturnNetBufferLists gives the chain back before it uncounts it.  *)
FilterReturnNetBufferLists(c) ==
  /\ ~down /\ chain[c].stage = "away" /\ c \in Rcvs /\ ~chain[c].cannotPend
  /\ \E k \in Returns : /\ returning[k] = 0
                        /\ returning' = [returning EXCEPT ![k] = Length(c)]
  /\ chain' = [chain EXCEPT ![c] = Home]
  /\ UNCHANGED <<down, State, BlackDataList, OutstandingSends, OutstandingRcvs,
                 diy, oidVars>>

UncountReturned ==
  /\ ~down /\ \E k \in Returns :
       /\ returning[k] # 0
       /\ OutstandingRcvs' = OutstandingRcvs - returning[k]
       /\ returning' = [returning EXCEPT ![k] = 0]
  /\ UNCHANGED <<down, State, BlackDataList, chain, OutstandingSends, diy, oidVars>>

(* A packet made up by the driver is not counted; it takes the first       *)
(* module without asking for its state, and its completion is recognized   *)
(* by its SourceHandle.                                                    *)
SendDIYNBL ==
  /\ ~down /\ State # "detached"
  /\ diy < MaxDIY
  /\ diy' = diy + 1
  /\ UNCHANGED <<down, State, BlackDataList, chain, OutstandingSends,
                 OutstandingRcvs, returning, oidVars>>

UncountDIY_Tracked == OutstandingSends - 1
UncountDIY == OutstandingSends

CompleteDIYNBL ==
  /\ ~down /\ diy > 0
  /\ diy' = diy - 1
  /\ OutstandingSends' = UncountDIY
  /\ UNCHANGED <<down, State, BlackDataList, chain, OutstandingRcvs, returning,
                 oidVars>>

-----------------------------------------------------------------------------
(* The black list ioctls, open while the driver is loaded.                 *)

SetBlackList(rule) ==
  /\ ~down /\ Len(BlackDataList) < MaxRules
  /\ BlackDataList' = InsertBlackList(BlackDataList, rule)
  /\ UNCHANGED <<down, State, nblVars, oidVars>>

RemoveBlack(rule) ==
  /\ ~down /\ BlackDataList' = RemoveBlackList(BlackDataList, rule)
  /\ UNCHANGED <<down, State, nblVars, oidVars>>

UnInitBlackDataList ==
  /\ ~down /\ BlackDataList' = <<>>
  /\ UNCHANGED <<down, State, nblVars, oidVars>>

-----------------------------------------------------------------------------
(* OID requests.  A request whose clone cannot be allocated fails at once. *)

RecordedOid_Forgotten(r) == PendingOidRequest
RecordedOid(r) == r

FilterOidRequest(r) ==
  /\ ~down /\ State # "detached"
  /\ \A q \in Oids : clone[q] = "none"        \* NDIS serializes them
  /\ clone' = [clone EXCEPT ![r] = "cloned"]
  /\ PendingOidRequest' = RecordedOid(r)      \* without the lock
  /\ UNCHANGED <<down, State, BlackDataList, nblVars>>

NdisFOidRequest(r) ==
  /\ ~down /\ clone[r] = "cloned"
  /\ clone' = [clone EXCEPT ![r] = "below"]
  /\ UNCHANGED <<down, State, BlackDataList, nblVars, PendingOidRequest>>

(* Under the lock; called by NDIS, or by FilterOidRequest when the driver  *)
(* below did not pend.                                                     *)
ClearedOid_Kept == PendingOidRequest
ClearedOid == NoOid

FilterOidRequestComplete(r) ==
  /\ ~down /\ clone[r] \in {"below", "cancelled"}
  /\ PendingOidRequest' = ClearedOid
  /\ clone' = [clone EXCEPT ![r] = "unlinked"]
  /\ UNCHANGED <<down, State, BlackDataList, nblVars>>

(* The clone is freed, then the original request is completed.             *)
FreeClone(r) ==
  /\ ~down /\ clone[r] = "unlinked"
  /\ clone' = [clone EXCEPT ![r] = "none"]
  /\ UNCHANGED <<down, State, BlackDataList, nblVars, PendingOidRequest>>

(* Under the lock the clone is followed to the original request; the       *)
(* request below is cancelled when the IDs agree.                          *)
FilterCancelOidRequest(r) ==
  /\ ~down /\ PendingOidRequest = r
  /\ clone[r] = "below"
  /\ clone' = [clone EXCEPT ![r] = "cancelled"]
  /\ UNCHANGED <<down, State, BlackDataList, nblVars, PendingOidRequest>>

-----------------------------------------------------------------------------
Continue(c) ==
  \/ Scan(c)
  \/ HandOn(c)
  \/ FilterSendNetBufferListsComplete(c)
  \/ IndicateReturn(c)
  \/ FilterReturnNetBufferLists(c)

Nbl(c) ==
  \/ FilterSendNetBufferLists(c)
  \/ FilterReceiveNetBufferLists(c)
  \/ ScanCrashes(c)
  \/ Continue(c)

Oid(r) ==
  \/ FilterOidRequest(r)
  \/ NdisFOidRequest(r)
  \/ FilterOidRequestComplete(r)
  \/ FreeClone(r)
  \/ FilterCancelOidRequest(r)

Next ==
  \/ FilterAttach \/ FilterRestart \/ FilterPause \/ FilterDetach
  \/ \E c \in Chains : Nbl(c)
  \/ UncountReturned
  \/ SendDIYNBL \/ CompleteDIYNBL
  \/ \E rule \in Rules : SetBlackList(rule) \/ RemoveBlack(rule)
  \/ UnInitBlackDataList
  \/ \E r \in Oids : Oid(r)

Spec == Init /\ [][Next]_vars

(* A handler that has been entered runs on, the miniport completes what it *)
(* is given and upper drivers return what they are shown.                  *)
Fairness == WF_vars(UncountReturned) /\ \A c \in Chains : WF_vars(Continue(c))

FairSpec == Spec /\ Fairness
-----------------------------------------------------------------------------
(* Properties.                                                             *)

TypeOK ==
  /\ State \in {"detached", "paused", "running"}
  /\ BlackDataList \in Seq(Rules) /\ Len(BlackDataList) <= MaxRules
  /\ chain \in [Chains ->
       [stage : {"home", "entered", "dropped", "passed", "away"},
        length : Nat, frames : Contents \union {<<>>}, cannotPend : BOOLEAN,
        verdict : {"none", "allow", "deny", "unread"}]]
  /\ OutstandingSends \in Nat /\ OutstandingRcvs \in Nat
  /\ returning \in [Returns -> Nat]
  /\ diy \in 0 .. MaxDIY
  /\ PendingOidRequest \in Oids \union {NoOid}
  /\ clone \in [Oids -> {"none", "cloned", "below", "cancelled", "unlinked"}]
  /\ down \in BOOLEAN

(* The net buffer lists of the chains that are handed on, and of those     *)
(* that are given back and not uncounted, one by one.                      *)
Away(chains) ==
  UNION {{c} \X (1 .. Length(c)) : c \in {d \in chains : chain[d].stage = "away"}}
GivenBack == UNION {{k} \X (1 .. returning[k]) : k \in Returns}

(* OutstandingSends counts exactly the net buffer lists that are being     *)
(* handed down or have been and are not completed, whatever overlaps: not  *)
(* the dropped ones and not the driver's own packets.                      *)
SendsCounted == State # "detached" => OutstandingSends = Cardinality(Away(Sends))

(* OutstandingRcvs counts exactly the net buffer lists shown to the upper  *)
(* drivers, and those given back whose return is not counted yet.          *)
RcvsCounted ==
  State # "detached" =>
    OutstandingRcvs = Cardinality(Away(Rcvs)) + Cardinality(GivenBack)

(* A rule applies from the moment its ioctl is done: a chain whose first   *)
(* frame is compared while a listed rule names its IP or MAC address is    *)
(* denied, provided it is the newest rule or the frame has ports.          *)
ListedRuleDenies ==
  [][\A c \in Chains, i \in DOMAIN BlackDataList :
       LET frame == chain[c].frames[1]  rule == BlackDataList[i]
       IN /\ chain[c].stage = "entered" /\ chain'[c].verdict = "allow"
          /\ frame.kind \in {"udp", "tcp", "icmp", "igmp", "ip"}
          /\ i = 1 \/ (frame.kind = "udp" /\ frame.SourceProt # 0
                       /\ frame.DestinationProt # 0)
          => rule.Mac \notin frame.Mac /\ rule.Ip \notin frame.Ip]_vars

(* A rule takes effect with the ioctl that adds it: whatever older rules   *)
(* are listed and whatever an uninitialized port looks like, the next      *)
(* frame that has an address or the protocol the rule names is denied.     *)
ListedAt(list, rule) == {i \in DOMAIN list : list[i] = rule}
Listed(list, rule) == Cardinality(ListedAt(list, rule))
NewestFirst ==
  [][\A rule \in Rules, frames \in Contents :
       Listed(BlackDataList', rule) > Listed(BlackDataList, rule) =>
         \A data \in filterFilterNetBufferList(frames[1]) :
           AddressMatches(rule, data) => Filtering(BlackDataList', data) = {TRUE}]_vars

(* While the lock shows FilterCancelOidRequest a pending clone, the clone  *)
(* is allocated and still points to its original request.                  *)
CancelReadsLiveClone ==
  PendingOidRequest # NoOid =>
    clone[PendingOidRequest] \in {"cloned", "below", "cancelled"}

(* The request that completes is the pending one, as FilterOidRequest-     *)
(* Complete asserts.                                                       *)
PendingIsCompleted ==
  \A r \in Oids : clone[r] \in {"below", "cancelled"} => PendingOidRequest = r

(* A chain the filter has taken comes back to its owner, whatever happens  *)
(* to the module meanwhile and although there is no memory to parse it,    *)
(* unless the scan denied it or has stopped the machine.                   *)
OnlyDeniedIsLost ==
  \A c \in Chains :
    chain[c].stage = "entered" ~>
      \/ chain[c].stage = "home"
      \/ chain[c].stage = "dropped" /\ chain[c].verdict = "deny"
      \/ down

-----------------------------------------------------------------------------
(* What the comments of the code say and the code does not do.             *)

(* "Poll each node of the NBLs, parse it and match the rules": a chain is  *)
(* only allowed when each of its net buffer lists is.                      *)
EveryNodeScanned ==
  [][\A c \in Chains :
       chain[c].stage = "entered" /\ chain'[c].verdict = "allow" =>
         \A i \in DOMAIN chain[c].frames :
           \E data \in filterFilterNetBufferList(chain[c].frames[i]) :
             FALSE \in Filtering(BlackDataList, data)]_vars

(* "STATUS_UNSUCCESSFUL: block": what the scan denies is not handed on.    *)
DeniedIsNotHandedOn ==
  \A c \in Chains : chain[c].stage = "away" => chain[c].verdict # "deny"
=============================================================================
