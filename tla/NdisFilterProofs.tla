--------------------------- MODULE NdisFilterProofs ---------------------------
(* Machine-checked: OID requests and their clones, for any number of       *)
(* requests, what a listed rule does to a frame, for any rules, frames and *)
(* chains, and what the two counters count, for any chains and returns.    *)
EXTENDS NdisFilter, FiniteSetTheorems, SequenceTheorems, WellFoundedInduction, TLAPS

-----------------------------------------------------------------------------
(* The invariant of the OID requests.                                      *)

OidType ==
  /\ PendingOidRequest \in Oids \union {NoOid}
  /\ clone \in [Oids -> {"none", "cloned", "below", "cancelled", "unlinked"}]

(* One request is in progress, of an attached module.                      *)
OneAtATime ==
  /\ \A q, r \in Oids : (clone[q] # "none" /\ clone[r] # "none") => q = r
  /\ State = "detached" => \A r \in Oids : clone[r] = "none"

(* The pending request is the one whose clone is out.                      *)
PendingIsOut == \A r \in Oids :
  PendingOidRequest = r <=> clone[r] \in {"cloned", "below", "cancelled"}

OidInv == OidType /\ OneAtATime /\ PendingIsOut

(* One step per operation on requests; the others leave them alone, but    *)
(* that an attached module begins without one.                             *)
LEMMA OidInvHolds == Spec => []OidInv
  <1>1. Init => OidInv
    BY NdisAssumption DEF Init, OidInv, OidType, OneAtATime, PendingIsOut
  <1>2. OidInv /\ [Next]_vars => OidInv'
    <2> SUFFICES ASSUME OidInv, [Next]_vars PROVE OidInv'
      OBVIOUS
    <2> USE NdisAssumption DEF OidInv, OidType, OneAtATime, PendingIsOut
    <2>1. CASE FilterAttach
      BY <2>1 DEF FilterAttach
    <2>2. CASE FilterDetach
      BY <2>2 DEF FilterDetach, Drained, oidVars
    <2>3. ASSUME NEW r \in Oids, FilterOidRequest(r) PROVE OidInv'
      BY <2>3 DEF FilterOidRequest, RecordedOid
    <2>4. ASSUME NEW r \in Oids, NdisFOidRequest(r) PROVE OidInv'
      BY <2>4 DEF NdisFOidRequest
    <2>5. ASSUME NEW r \in Oids, FilterOidRequestComplete(r) PROVE OidInv'
      BY <2>5 DEF FilterOidRequestComplete, ClearedOid
    <2>6. ASSUME NEW r \in Oids, FreeClone(r) PROVE OidInv'
      BY <2>6 DEF FreeClone
    <2>7. ASSUME NEW r \in Oids, FilterCancelOidRequest(r) PROVE OidInv'
      BY <2>7 DEF FilterCancelOidRequest
    <2>8. CASE UNCHANGED oidVars /\ (State' = "detached" => State = "detached")
      BY <2>8 DEF oidVars
    <2>9. ASSUME NEW c \in Chains, Nbl(c) PROVE UNCHANGED <<State, oidVars>>
      BY <2>9 DEF Nbl, ScanCrashes, Continue, FilterSendNetBufferLists, FilterReceiveNetBufferLists, Enter,
         Scan, HandOn, FilterSendNetBufferListsComplete, IndicateReturn,
         FilterReturnNetBufferLists
    <2>10. CASE \/ UncountReturned \/ SendDIYNBL \/ CompleteDIYNBL
                \/ \E rule \in Rules : SetBlackList(rule) \/ RemoveBlack(rule)
                \/ UnInitBlackDataList \/ FilterRestart \/ FilterPause \/ UNCHANGED vars
      BY <2>8, <2>10 DEF UncountReturned, SendDIYNBL, CompleteDIYNBL, SetBlackList,
         RemoveBlack, UnInitBlackDataList, FilterRestart, FilterPause, vars
    <2> QED BY <2>1, <2>2, <2>3, <2>4, <2>5, <2>6, <2>7, <2>8, <2>9, <2>10 DEF Next, Oid
  <1> QED BY <1>1, <1>2, PTL DEF Spec

-----------------------------------------------------------------------------
(* The theorems.                                                           *)

(* A cancellation that finds a pending request under the lock finds its    *)
(* clone allocated and not yet completed.                                  *)
THEOREM CloneIsLive == Spec => []CancelReadsLiveClone
  <1>1. OidInv => CancelReadsLiveClone
    BY DEF OidInv, OidType, PendingIsOut, CancelReadsLiveClone
  <1> QED BY <1>1, OidInvHolds, PTL

(* The request that completes is the one that is pending, whatever the     *)
(* order of its recording, its completion and its cancellation.            *)
THEOREM PendingCompletes == Spec => []PendingIsCompleted
  <1>1. OidInv => PendingIsCompleted
    BY DEF OidInv, PendingIsOut, PendingIsCompleted
  <1> QED BY <1>1, OidInvHolds, PTL

(* What the driver reads of an IP frame has its addresses, and of a UDP    *)
(* frame its ports as well.                                                *)
LEMMA FrameRead ==
  ASSUME NEW frame, frame.kind \in {"udp", "tcp", "icmp", "igmp", "ip"},
         NEW data \in filterFilterNetBufferList(frame)
  PROVE  /\ data.Mac = frame.Mac /\ data.Ip = frame.Ip
         /\ frame.kind = "udp" => /\ data.ProtoType = PROTO_UDP
                                  /\ data.DestinationProt = frame.DestinationProt
                                  /\ data.SourceProt = frame.SourceProt
  BY DEF filterFilterNetBufferList, Read

(* A rule that is compared, and names an address of the frame, is found.   *)
LEMMA FoundIfCompared ==
  ASSUME NEW list, NEW data, NEW i \in Compared(list, data),
         AddressMatches(list[i], data)
  PROVE  FALSE \notin Filtering(list, data)
  BY DEF Filtering, RuleMatches

(* A chain the filter has taken and not scanned yet has no verdict.         *)
ChainForm ==
  /\ DOMAIN chain = Chains
  /\ \A c \in Chains : {"stage", "frames", "verdict"} \subseteq DOMAIN chain[c]

Unjudged == \A c \in Chains : chain[c].stage = "entered" => chain[c].verdict = "none"

(* Only scanning a chain gives it a verdict, and it leaves the others.     *)
LEMMA OnlyScanJudges ==
  ASSUME ChainForm, Unjudged, [Next]_vars
  PROVE  /\ ChainForm' /\ Unjudged'
         /\ \A c \in Chains :
              (chain[c].stage = "entered" /\ chain'[c].verdict = "allow") =>
                "allow" \in Verdicts(chain[c].frames)
  <1> USE DEF ChainForm, Unjudged
  <1> DEFINE Goal ==
        /\ ChainForm' /\ Unjudged'
        /\ \A c \in Chains :
             (chain[c].stage = "entered" /\ chain'[c].verdict = "allow") =>
               "allow" \in Verdicts(chain[c].frames)
  <1>1. ASSUME NEW c \in Chains, Enter(c) PROVE Goal
    <2>1. PICK frames \in Contents, cannotPend \in BOOLEAN :
            chain' = [chain EXCEPT ![c] =
              [stage |-> "entered", length |-> Len(frames), frames |-> frames,
               cannotPend |-> cannotPend, verdict |-> "none"]]
      BY <1>1 DEF Enter
    <2> QED BY <1>1, <2>1 DEF Enter
  <1>2. ASSUME NEW c \in Chains, Scan(c) PROVE Goal
    <2>1. PICK verdict \in Verdicts(chain[c].frames) :
            chain' = [chain EXCEPT ![c].verdict = verdict, ![c].frames = <<>>,
                                   ![c].stage = StageAfterScan(c, verdict)]
      BY <1>2 DEF Scan
    <2>2. /\ chain'[c].stage = StageAfterScan(c, verdict)
          /\ chain'[c].verdict = verdict
          /\ DOMAIN chain'[c] = DOMAIN chain[c]
          /\ DOMAIN chain' = Chains
          /\ \A d \in Chains : d # c => chain'[d] = chain[d]
      BY <2>1
    <2>3. StageAfterScan(c, verdict) # "entered"
      BY DEF StageAfterScan
    <2> QED BY <2>2, <2>3
  <1>3. ASSUME NEW c \in Chains, HandOn(c) PROVE Goal
    <2>1. /\ chain'[c].stage = "away"
          /\ DOMAIN chain'[c] = DOMAIN chain[c]
          /\ DOMAIN chain' = Chains
          /\ \A d \in Chains : d # c => chain'[d] = chain[d]
      BY <1>3 DEF HandOn
    <2> QED BY <1>3, <2>1 DEF HandOn
  <1>4. ASSUME NEW c \in Chains,
               \/ FilterSendNetBufferListsComplete(c) \/ IndicateReturn(c)
               \/ FilterReturnNetBufferLists(c)
        PROVE  Goal
    BY <1>4 DEF FilterSendNetBufferListsComplete, IndicateReturn,
       FilterReturnNetBufferLists, Home
  <1>5. CASE UNCHANGED chain
    BY <1>5
  <1>6. ASSUME NEW r \in Oids, Oid(r) PROVE UNCHANGED chain
    BY <1>6 DEF Oid, FilterOidRequest, NdisFOidRequest, FilterOidRequestComplete, FreeClone,
       FilterCancelOidRequest, nblVars
  <1>7. CASE \/ FilterAttach \/ FilterRestart \/ FilterPause \/ FilterDetach
             \/ UncountReturned \/ SendDIYNBL \/ CompleteDIYNBL
             \/ \E rule \in Rules : SetBlackList(rule) \/ RemoveBlack(rule)
             \/ UnInitBlackDataList \/ (\E c \in Chains : ScanCrashes(c)) \/ UNCHANGED vars
    BY <1>5, <1>7 DEF ScanCrashes, FilterAttach, FilterRestart, FilterPause, FilterDetach, UncountReturned,
       SendDIYNBL, CompleteDIYNBL, SetBlackList, RemoveBlack, UnInitBlackDataList, nblVars, vars
  <1> QED BY <1>1, <1>2, <1>3, <1>4, <1>5, <1>6, <1>7 DEF Next, Nbl, Continue,
     FilterSendNetBufferLists, FilterReceiveNetBufferLists

(* A chain whose first frame has an address that a listed rule names is    *)
(* denied, if the rule is the newest or the frame has ports.               *)
THEOREM RuleDenies == Spec => ListedRuleDenies
  <1> DEFINE Named(c, i) == \/ BlackDataList[i].Mac \in chain[c].frames[1].Mac
                            \/ BlackDataList[i].Ip \in chain[c].frames[1].Ip
             Applies(c, i) ==
               /\ chain[c].stage = "entered"
               /\ chain[c].frames[1].kind \in {"udp", "tcp", "icmp", "igmp", "ip"}
               /\ \/ i = 1
                  \/ /\ chain[c].frames[1].kind = "udp"
                     /\ chain[c].frames[1].SourceProt # 0
                     /\ chain[c].frames[1].DestinationProt # 0
  <1>1. ASSUME NEW c \in Chains, NEW i \in DOMAIN BlackDataList,
               Applies(c, i), Named(c, i)
        PROVE  "allow" \notin Verdicts(chain[c].frames)
    <2>1. SUFFICES ASSUME NEW data \in filterFilterNetBufferList(chain[c].frames[1]),
                          FALSE \in Filtering(BlackDataList, data)
                   PROVE  FALSE
      <3>1. \A data : Filtering(BlackDataList, data) \subseteq BOOLEAN
        BY DEF Filtering
      <3> QED BY <1>1, <3>1 DEF Verdicts
    <2>2. i \in Compared(BlackDataList, data)
      BY <1>1, FrameRead DEF Compared, EndsSearch, PROTO_UDP, PROTO_ARP, PROTO_ICMP, PROTO_IGMP
    <2>3. AddressMatches(BlackDataList[i], data)
      BY <1>1, FrameRead DEF AddressMatches
    <2> QED BY <2>1, <2>2, <2>3, FoundIfCompared
  <1>2. Init => ChainForm /\ Unjudged
    BY DEF Init, Home, ChainForm, Unjudged
  <1>3. (ChainForm /\ Unjudged) /\ [Next]_vars => (ChainForm /\ Unjudged)'
    BY OnlyScanJudges
  <1>4. ASSUME ChainForm, Unjudged, [Next]_vars,
               NEW c \in Chains, NEW i \in DOMAIN BlackDataList, Applies(c, i),
               chain'[c].verdict = "allow"
        PROVE  ~Named(c, i)
    <2>1. "allow" \in Verdicts(chain[c].frames)
      BY <1>4, OnlyScanJudges
    <2> QED BY <1>1, <1>4, <2>1
  <1>5. (ChainForm /\ Unjudged) /\ [Next]_vars =>
          [\A c \in Chains, i \in DOMAIN BlackDataList :
             LET frame == chain[c].frames[1]  rule == BlackDataList[i]
             IN /\ chain[c].stage = "entered" /\ chain'[c].verdict = "allow"
                /\ frame.kind \in {"udp", "tcp", "icmp", "igmp", "ip"}
                /\ i = 1 \/ (frame.kind = "udp" /\ frame.SourceProt # 0
                             /\ frame.DestinationProt # 0)
                => rule.Mac \notin frame.Mac /\ rule.Ip \notin frame.Ip]_vars
    BY <1>4
  <1> QED BY <1>2, <1>3, <1>5, PTL DEF Spec, ListedRuleDenies
-----------------------------------------------------------------------------
(* Counting: a chain of n net buffer lists is n pairs.                     *)

LEMMA Pairs ==
  ASSUME NEW x, NEW n \in Nat
  PROVE  IsFiniteSet({x} \X (1 .. n)) /\ Cardinality({x} \X (1 .. n)) = n
  <1>1. IsFiniteSet({x}) /\ Cardinality({x}) = 1
    BY FS_Singleton
  <1>2. IsFiniteSet(1 .. n) /\ Cardinality(1 .. n) = n
    BY FS_Interval
  <1>3. /\ IsFiniteSet({x} \X (1 .. n))
        /\ Cardinality({x} \X (1 .. n)) = Cardinality({x}) * Cardinality(1 .. n)
    BY <1>1, <1>2, FS_Product
  <1> QED BY <1>1, <1>2, <1>3

LEMMA PairsCounted ==
  ASSUME NEW S, IsFiniteSet(S), NEW x, NEW n \in Nat, \A i \in 1 .. n : <<x, i>> \notin S
  PROVE  /\ IsFiniteSet(S \union ({x} \X (1 .. n)))
         /\ Cardinality(S \union ({x} \X (1 .. n))) = Cardinality(S) + n
  <1> DEFINE T == {x} \X (1 .. n)
  <1>1. S \intersect T = {}
    OBVIOUS
  <1>2. IsFiniteSet(T) /\ Cardinality(T) = n
    BY Pairs
  <1>3. Cardinality(S) \in Nat /\ Cardinality({}) = 0
    BY FS_CardinalityType, FS_EmptySet
  <1> HIDE DEF T
  <1>4. IsFiniteSet(S \union T) /\ Cardinality(S \union T) = Cardinality(S) + n
    BY <1>1, <1>2, <1>3, FS_Union
  <1> QED BY <1>4 DEF T

LEMMA PairsUncounted ==
  ASSUME NEW S, IsFiniteSet(S), NEW x, NEW n \in Nat, \A i \in 1 .. n : <<x, i>> \in S
  PROVE  /\ IsFiniteSet(S \ ({x} \X (1 .. n)))
         /\ Cardinality(S \ ({x} \X (1 .. n))) = Cardinality(S) - n
  <1> DEFINE T == {x} \X (1 .. n)
  <1>1. S \intersect T = T
    OBVIOUS
  <1>2. IsFiniteSet(T) /\ Cardinality(T) = n
    BY Pairs
  <1> HIDE DEF T
  <1>3. IsFiniteSet(S \ T) /\ Cardinality(S \ T) = Cardinality(S) - n
    BY <1>1, <1>2, FS_Difference
  <1> QED BY <1>3 DEF T

(* What the module has handed on, chain by chain.                          *)
LEMMA AwayMember ==
  ASSUME NEW S
  PROVE  \A x : x \in Away(S) <=>
           \E c \in S : /\ chain[c].stage = "away"
                        /\ \E i \in 1 .. chain[c].length : x = <<c, i>>
  BY DEF Away, Length

LEMMA AwayPair ==
  ASSUME NEW S, NEW c \in S, NEW i
  PROVE  <<c, i>> \in Away(S) <=> chain[c].stage = "away" /\ i \in 1 .. chain[c].length
  BY AwayMember

(* Nothing is handed on or comes back.                                     *)
LEMMA AwayKept ==
  ASSUME NEW S,
         \A d \in S : \/ chain'[d] = chain[d]
                      \/ /\ chain'[d].stage # "away" /\ chain[d].stage # "away"
  PROVE  Away(S)' = Away(S)
  BY DEF Away, Length

(* A chain is handed on.                                                   *)
LEMMA AwayGrows ==
  ASSUME NEW S, NEW c \in S, chain[c].stage # "away", IsFiniteSet(Away(S)),
         chain'[c].stage = "away", chain'[c].length = chain[c].length, chain[c].length \in Nat,
         \A d \in S : d # c => chain'[d] = chain[d]
  PROVE  /\ IsFiniteSet(Away(S)')
         /\ Cardinality(Away(S)') = Cardinality(Away(S)) + chain[c].length
  <1>1. Away(S)' = Away(S) \union ({c} \X (1 .. chain[c].length))
    BY DEF Away, Length
  <1>2. \A i \in 1 .. chain[c].length : <<c, i>> \notin Away(S)
    BY AwayPair
  <1>3. /\ IsFiniteSet(Away(S) \union ({c} \X (1 .. chain[c].length)))
        /\ Cardinality(Away(S) \union ({c} \X (1 .. chain[c].length))) =
             Cardinality(Away(S)) + chain[c].length
    BY <1>2, PairsCounted
  <1> QED BY <1>1, <1>3

(* It comes back.                                                          *)
LEMMA AwayShrinks ==
  ASSUME NEW S, NEW c \in S, chain[c].stage = "away", IsFiniteSet(Away(S)),
         chain'[c].stage # "away", chain[c].length \in Nat,
         \A d \in S : d # c => chain'[d] = chain[d]
  PROVE  /\ IsFiniteSet(Away(S)')
         /\ Cardinality(Away(S)') = Cardinality(Away(S)) - chain[c].length
  <1>1. Away(S)' = Away(S) \ ({c} \X (1 .. chain[c].length))
    BY DEF Away, Length
  <1>2. \A i \in 1 .. chain[c].length : <<c, i>> \in Away(S)
    BY AwayPair
  <1>3. /\ IsFiniteSet(Away(S) \ ({c} \X (1 .. chain[c].length)))
        /\ Cardinality(Away(S) \ ({c} \X (1 .. chain[c].length))) =
             Cardinality(Away(S)) - chain[c].length
    BY <1>2, PairsUncounted
  <1> QED BY <1>1, <1>3

(* The same of the calls of FilterReturnNetBufferLists.                    *)
LEMMA GivenBackGrows ==
  ASSUME NEW k \in Returns, returning \in [Returns -> Nat], NEW n \in Nat,
         returning[k] = 0, returning' = [returning EXCEPT ![k] = n], IsFiniteSet(GivenBack)
  PROVE  /\ IsFiniteSet(GivenBack')
         /\ Cardinality(GivenBack') = Cardinality(GivenBack) + n
  <1>1. GivenBack' = GivenBack \union ({k} \X (1 .. n))
    BY DEF GivenBack
  <1>2. \A i \in 1 .. n : <<k, i>> \notin GivenBack
    BY DEF GivenBack
  <1> QED BY <1>1, <1>2, PairsCounted

LEMMA GivenBackShrinks ==
  ASSUME NEW k \in Returns, returning \in [Returns -> Nat],
         returning' = [returning EXCEPT ![k] = 0], IsFiniteSet(GivenBack)
  PROVE  /\ IsFiniteSet(GivenBack')
         /\ Cardinality(GivenBack') = Cardinality(GivenBack) - returning[k]
  <1>1. GivenBack' = GivenBack \ ({k} \X (1 .. returning[k]))
    BY DEF GivenBack
  <1>2. \A i \in 1 .. returning[k] : <<k, i>> \in GivenBack
    BY DEF GivenBack
  <1> QED BY <1>1, <1>2, PairsUncounted

-----------------------------------------------------------------------------
(* The invariant of the net buffer lists: the counters are what the chains *)
(* and the returning calls say, finitely many; a detached module has none. *)

ChainState ==
  [stage : {"home", "entered", "dropped", "passed", "away"},
   length : Nat, frames : Contents \union {<<>>}, cannotPend : BOOLEAN,
   verdict : {"none", "allow", "deny", "unread"}]

NblType ==
  /\ State \in {"detached", "paused", "running"}
  /\ chain \in [Chains -> ChainState]
  /\ returning \in [Returns -> Nat]
  /\ diy \in 0 .. MaxDIY

NblCount ==
  /\ IsFiniteSet(Away(Sends)) /\ IsFiniteSet(Away(Rcvs)) /\ IsFiniteSet(GivenBack)
  /\ OutstandingSends = Cardinality(Away(Sends))
  /\ OutstandingRcvs = Cardinality(Away(Rcvs)) + Cardinality(GivenBack)

DetachedIsDrained ==
  State = "detached" => /\ \A c \in Chains : chain[c].stage = "home"
                        /\ \A k \in Returns : returning[k] = 0
                        /\ diy = 0

NblInv == NblType /\ NblCount /\ DetachedIsDrained

(* A module with nothing in it has nothing to count.                       *)
LEMMA NothingAway ==
  ASSUME \A c \in Chains : chain[c].stage = "home", \A k \in Returns : returning[k] = 0
  PROVE  Away(Sends) = {} /\ Away(Rcvs) = {} /\ GivenBack = {}
  <1>1. \A x : x \notin Away(Sends) /\ x \notin Away(Rcvs)
    BY AwayMember DEF Chains
  <1>2. \A k \in Returns : {k} \X (1 .. returning[k]) = {}
    OBVIOUS
  <1> QED BY <1>1, <1>2 DEF GivenBack

(* A step that leaves what is counted alone.                               *)
LEMMA CountKept ==
  ASSUME NblCount, UNCHANGED <<OutstandingSends, OutstandingRcvs, returning>>,
         \A d \in Chains : \/ chain'[d] = chain[d]
                           \/ chain'[d].stage # "away" /\ chain[d].stage # "away"
  PROVE  NblCount'
  <1>1. Away(Sends)' = Away(Sends) /\ Away(Rcvs)' = Away(Rcvs)
    BY AwayKept DEF Chains
  <1>2. GivenBack' = GivenBack
    BY DEF GivenBack
  <1> QED BY <1>1, <1>2 DEF NblCount

LEMMA EnterNbl ==
  ASSUME NblInv, NEW c \in Chains, Enter(c)
  PROVE  NblInv'
  <1> USE DEF NblInv, NblType
  <1>1. PICK frames \in Contents, cannotPend \in BOOLEAN :
          chain' = [chain EXCEPT ![c] =
            [stage |-> "entered", length |-> Len(frames), frames |-> frames,
             cannotPend |-> cannotPend, verdict |-> "none"]]
    BY DEF Enter
  <1>2. chain' \in [Chains -> ChainState]
    BY <1>1, NdisAssumption DEF ChainState
  <1>3. chain'[c].stage # "away" /\ \A d \in Chains : d # c => chain'[d] = chain[d]
    BY <1>1
  <1>4. NblCount'
    BY <1>3, CountKept DEF Enter
  <1> QED BY <1>2, <1>4 DEF Enter, DetachedIsDrained

LEMMA ScanNbl ==
  ASSUME NblInv, NEW c \in Chains, Scan(c)
  PROVE  NblInv'
  <1> USE DEF NblInv, NblType
  <1>1. PICK verdict \in Verdicts(chain[c].frames) :
          chain' = [chain EXCEPT ![c].verdict = verdict, ![c].frames = <<>>,
                                 ![c].stage = StageAfterScan(c, verdict)]
    BY DEF Scan
  <1>2. verdict \in {"allow", "deny", "unread"}
    BY DEF Verdicts
  <1>3. StageAfterScan(c, verdict) \in {"dropped", "passed"}
    BY DEF StageAfterScan
  <1>4. chain' \in [Chains -> ChainState]
    <2>1. chain[c] \in ChainState
      OBVIOUS
    <2>2. [chain[c] EXCEPT !.verdict = verdict, !.frames = <<>>,
                           !.stage = StageAfterScan(c, verdict)] \in ChainState
      BY <1>2, <1>3, <2>1 DEF ChainState
    <2>3. chain' = [chain EXCEPT ![c] =
            [chain[c] EXCEPT !.verdict = verdict, !.frames = <<>>,
                             !.stage = StageAfterScan(c, verdict)]]
      BY <1>1
    <2> QED BY <2>2, <2>3
  <1>5. chain'[c].stage # "away" /\ \A d \in Chains : d # c => chain'[d] = chain[d]
    BY <1>1, <1>3
  <1>6. NblCount'
    BY <1>5, CountKept DEF Scan
  <1> QED BY <1>4, <1>6 DEF Scan, DetachedIsDrained

LEMMA HandOnNbl ==
  ASSUME NblInv, NEW c \in Chains, HandOn(c)
  PROVE  NblInv'
  <1> USE DEF NblInv, NblType
  <1>1. chain[c] \in ChainState
    OBVIOUS
  <1>2. /\ chain' \in [Chains -> ChainState]
        /\ chain'[c].stage = "away" /\ chain'[c].length = chain[c].length
        /\ \A d \in Chains : d # c => chain'[d] = chain[d]
    BY <1>1 DEF HandOn, ChainState
  <1>3. chain[c].length \in Nat
    BY <1>1 DEF ChainState
  <1>4. GivenBack' = GivenBack
    BY DEF HandOn, GivenBack
  <1>5. CASE c \in Sends
    <2>1. /\ IsFiniteSet(Away(Sends)')
          /\ Cardinality(Away(Sends)') = Cardinality(Away(Sends)) + chain[c].length
      BY <1>2, <1>3, <1>5, AwayGrows DEF HandOn, NblCount, Chains
    <2>2. Away(Rcvs)' = Away(Rcvs)
      BY <1>2, <1>5, AwayKept, NdisAssumption DEF Chains
    <2>3. NblCount'
      BY <1>4, <1>5, <2>1, <2>2 DEF NblCount, HandOn, SendCount, Length
    <2> QED BY <1>2, <2>3 DEF HandOn, DetachedIsDrained
  <1>6. CASE c \in Rcvs
    <2>1. /\ IsFiniteSet(Away(Rcvs)')
          /\ Cardinality(Away(Rcvs)') = Cardinality(Away(Rcvs)) + chain[c].length
      BY <1>2, <1>3, <1>6, AwayGrows DEF HandOn, NblCount, Chains
    <2>2. Away(Sends)' = Away(Sends)
      BY <1>2, <1>6, AwayKept, NdisAssumption DEF Chains
    <2>3. Cardinality(Away(Rcvs)) \in Nat /\ Cardinality(GivenBack) \in Nat
      BY FS_CardinalityType DEF NblCount
    <2>4. c \notin Sends
      BY <1>6, NdisAssumption
    <2>5. NblCount'
      BY <1>3, <1>4, <2>1, <2>2, <2>3, <2>4 DEF NblCount, HandOn, RcvCount, Length
    <2> QED BY <1>2, <2>5 DEF HandOn, DetachedIsDrained
  <1> QED BY <1>5, <1>6 DEF Chains

(* A chain that was handed on is at home again.                            *)
LEMMA ComesHome ==
  ASSUME NblInv, NEW c \in Chains, chain[c].stage = "away", chain' = [chain EXCEPT ![c] = Home]
  PROVE  /\ chain' \in [Chains -> ChainState] /\ chain[c].length \in Nat
         /\ chain'[c].stage = "home" /\ \A d \in Chains : d # c => chain'[d] = chain[d]
         /\ State # "detached"
  <1>1. Home \in ChainState /\ Home.stage = "home"
    BY DEF Home, ChainState
  <1>2. chain[c].length \in Nat
    BY DEF NblInv, NblType, ChainState
  <1> QED BY <1>1, <1>2 DEF NblInv, NblType, DetachedIsDrained

LEMMA SendCompleteNbl ==
  ASSUME NblInv, NEW c \in Chains, FilterSendNetBufferListsComplete(c)
  PROVE  NblInv'
  <1> USE DEF FilterSendNetBufferListsComplete
  <1>1. /\ chain' \in [Chains -> ChainState] /\ chain[c].length \in Nat
        /\ chain'[c].stage = "home" /\ \A d \in Chains : d # c => chain'[d] = chain[d]
        /\ State # "detached"
    BY ComesHome
  <1>2. /\ IsFiniteSet(Away(Sends)')
        /\ Cardinality(Away(Sends)') = Cardinality(Away(Sends)) - chain[c].length
    BY <1>1, AwayShrinks DEF Chains, NblInv, NblCount
  <1>3. Away(Rcvs)' = Away(Rcvs)
    BY <1>1, AwayKept, NdisAssumption DEF Chains
  <1>4. GivenBack' = GivenBack
    BY DEF GivenBack
  <1>5. NblCount'
    BY <1>2, <1>3, <1>4 DEF NblInv, NblCount, Length
  <1> QED BY <1>1, <1>5 DEF NblInv, NblType, DetachedIsDrained

LEMMA IndicateReturnNbl ==
  ASSUME NblInv, NEW c \in Chains, IndicateReturn(c)
  PROVE  NblInv'
  <1> USE DEF IndicateReturn
  <1>1. /\ chain' \in [Chains -> ChainState] /\ chain[c].length \in Nat
        /\ chain'[c].stage = "home" /\ \A d \in Chains : d # c => chain'[d] = chain[d]
        /\ State # "detached"
    BY ComesHome
  <1>2. /\ IsFiniteSet(Away(Rcvs)')
        /\ Cardinality(Away(Rcvs)') = Cardinality(Away(Rcvs)) - chain[c].length
    BY <1>1, AwayShrinks DEF Chains, NblInv, NblCount
  <1>3. Away(Sends)' = Away(Sends)
    BY <1>1, AwayKept, NdisAssumption DEF Chains
  <1>4. GivenBack' = GivenBack
    BY DEF GivenBack
  <1>5. Cardinality(Away(Rcvs)) \in Nat /\ Cardinality(GivenBack) \in Nat
    BY FS_CardinalityType DEF NblInv, NblCount
  <1>6. NblCount'
    BY <1>1, <1>2, <1>3, <1>4, <1>5 DEF NblInv, NblCount, Length
  <1> QED BY <1>1, <1>6 DEF NblInv, NblType, DetachedIsDrained

(* What is given back stays counted, in the account of the call.           *)
LEMMA ReturnNbl ==
  ASSUME NblInv, NEW c \in Chains, FilterReturnNetBufferLists(c)
  PROVE  NblInv'
  <1> USE DEF FilterReturnNetBufferLists
  <1>1. /\ chain' \in [Chains -> ChainState] /\ chain[c].length \in Nat
        /\ chain'[c].stage = "home" /\ \A d \in Chains : d # c => chain'[d] = chain[d]
        /\ State # "detached"
    BY ComesHome
  <1>2. /\ IsFiniteSet(Away(Rcvs)')
        /\ Cardinality(Away(Rcvs)') = Cardinality(Away(Rcvs)) - chain[c].length
    BY <1>1, AwayShrinks DEF Chains, NblInv, NblCount
  <1>3. Away(Sends)' = Away(Sends)
    BY <1>1, AwayKept, NdisAssumption DEF Chains
  <1>4. PICK k \in Returns : /\ returning[k] = 0
                             /\ returning' = [returning EXCEPT ![k] = chain[c].length]
    BY DEF Length
  <1>5. /\ IsFiniteSet(GivenBack')
        /\ Cardinality(GivenBack') = Cardinality(GivenBack) + chain[c].length
    BY <1>1, <1>4, GivenBackGrows DEF NblInv, NblCount, NblType
  <1>6. Cardinality(Away(Rcvs)) \in Nat /\ Cardinality(GivenBack) \in Nat
    BY FS_CardinalityType DEF NblInv, NblCount
  <1>7. NblCount'
    BY <1>1, <1>2, <1>3, <1>5, <1>6 DEF NblInv, NblCount
  <1>8. returning' \in [Returns -> Nat]
    BY <1>1, <1>4 DEF NblInv, NblType
  <1> QED BY <1>1, <1>7, <1>8 DEF NblInv, NblType, DetachedIsDrained

LEMMA UncountReturnedNbl ==
  ASSUME NblInv, UncountReturned
  PROVE  NblInv'
  <1> USE DEF UncountReturned
  <1>1. PICK k \in Returns : /\ returning[k] # 0
                             /\ OutstandingRcvs' = OutstandingRcvs - returning[k]
                             /\ returning' = [returning EXCEPT ![k] = 0]
    OBVIOUS
  <1>2. /\ IsFiniteSet(GivenBack')
        /\ Cardinality(GivenBack') = Cardinality(GivenBack) - returning[k]
    BY <1>1, GivenBackShrinks DEF NblInv, NblCount, NblType
  <1>3. Away(Sends)' = Away(Sends) /\ Away(Rcvs)' = Away(Rcvs)
    BY AwayKept
  <1>4. /\ Cardinality(Away(Rcvs)) \in Nat /\ Cardinality(GivenBack) \in Nat
        /\ returning[k] \in Nat
    BY FS_CardinalityType DEF NblInv, NblCount, NblType
  <1>5. NblCount'
    BY <1>1, <1>2, <1>3, <1>4 DEF NblInv, NblCount
  <1>6. returning' \in [Returns -> Nat] /\ State # "detached"
    BY <1>1 DEF NblInv, NblType, DetachedIsDrained
  <1> QED BY <1>5, <1>6 DEF NblInv, NblType, DetachedIsDrained

LEMMA NblInvHolds == Spec => []NblInv
  <1>1. Init => NblInv
    <2> SUFFICES ASSUME Init PROVE NblInv
      OBVIOUS
    <2>1. Home \in ChainState
      BY DEF Home, ChainState
    <2>2. /\ \A c \in Chains : chain[c] = Home
          /\ \A k \in Returns : returning[k] = 0
      BY DEF Init
    <2>3. Away(Sends) = {} /\ Away(Rcvs) = {} /\ GivenBack = {}
      BY <2>2, NothingAway DEF Home
    <2>4. NblCount
      BY <2>3, FS_EmptySet DEF Init, NblCount
    <2> QED BY <2>1, <2>2, <2>4, NdisAssumption DEF Init, NblInv, NblType, DetachedIsDrained, Home
  <1>2. NblInv /\ [Next]_vars => NblInv'
    <2> SUFFICES ASSUME NblInv, [Next]_vars PROVE NblInv'
      OBVIOUS
    <2>1. CASE FilterAttach
      <3>1. Away(Sends) = {} /\ Away(Rcvs) = {} /\ GivenBack = {}
        BY <2>1, NothingAway DEF NblInv, DetachedIsDrained, FilterAttach
      <3>2. Away(Sends)' = {} /\ Away(Rcvs)' = {} /\ GivenBack' = {}
        BY <2>1, <3>1 DEF FilterAttach, Away, Length, GivenBack
      <3>3. NblCount'
        BY <2>1, <3>2, FS_EmptySet DEF FilterAttach, NblCount
      <3> QED BY <2>1, <3>3 DEF FilterAttach, NblInv, NblType, DetachedIsDrained
    <2>2. CASE FilterDetach
      BY <2>2, CountKept DEF FilterDetach, Drained, nblVars, NblInv, NblType, DetachedIsDrained
    <2>3. ASSUME NEW c \in Chains, ~ScanCrashes(c), Nbl(c) PROVE NblInv'
      BY <2>3, EnterNbl, ScanNbl, HandOnNbl, SendCompleteNbl, IndicateReturnNbl, ReturnNbl
         DEF Nbl, Continue, FilterSendNetBufferLists, FilterReceiveNetBufferLists
    <2>4. CASE UncountReturned
      BY <2>4, UncountReturnedNbl
    <2>5. CASE SendDIYNBL
      BY <2>5, CountKept, NdisAssumption DEF SendDIYNBL, NblInv, NblType, DetachedIsDrained
    <2>6. CASE CompleteDIYNBL
      BY <2>6, CountKept, NdisAssumption DEF CompleteDIYNBL, UncountDIY, NblInv, NblType, DetachedIsDrained
    <2>7. CASE /\ UNCHANGED nblVars
               /\ \/ UNCHANGED State
                  \/ State' \in {"paused", "running"} /\ State # "detached"
      BY <2>7, CountKept DEF nblVars, NblInv, NblType, DetachedIsDrained
    <2>8. CASE \/ FilterRestart \/ FilterPause \/ UNCHANGED vars \/ UnInitBlackDataList
               \/ \E c \in Chains : ScanCrashes(c)
               \/ \E rule \in Rules : SetBlackList(rule) \/ RemoveBlack(rule)
      BY <2>7, <2>8 DEF ScanCrashes, FilterRestart, FilterPause, UnInitBlackDataList, SetBlackList,
         RemoveBlack, vars
    <2>9. ASSUME NEW r \in Oids, Oid(r) PROVE UNCHANGED nblVars /\ UNCHANGED State
      BY <2>9 DEF Oid, FilterOidRequest, NdisFOidRequest, FilterOidRequestComplete, FreeClone,
         FilterCancelOidRequest
    <2> QED BY <2>1, <2>2, <2>3, <2>4, <2>5, <2>6, <2>7, <2>8, <2>9 DEF Next
  <1> QED BY <1>1, <1>2, PTL DEF Spec

-----------------------------------------------------------------------------
(* The black list.                                                         *)

LEMMA LeastExists ==
  ASSUME NEW T, T \subseteq Nat, T # {}
  PROVE  \E i \in T : \A j \in T : i <= j
  <1>1. PICK i \in T : \A j \in T : ~(<<j, i>> \in OpToRel(<, Nat))
    BY NatLessThanWellFounded, WFMin
  <1>2. ASSUME NEW j \in T, ~(i <= j) PROVE FALSE
    <2>1. <<j, i>> \in Nat \X Nat /\ <<j, i>>[1] < <<j, i>>[2]
      BY <1>2
    <2> QED BY <1>1, <2>1 DEF OpToRel
  <1> QED BY <1>2

LEMMA RemovedAt ==
  ASSUME NEW S, NEW s \in Seq(S), NEW i \in 1 .. Len(s)
  PROVE  /\ RemoveAt(s, i) \in Seq(S) /\ Len(RemoveAt(s, i)) = Len(s) - 1
         /\ \A j \in 1 .. Len(s) - 1 :
              RemoveAt(s, i)[j] = IF j < i THEN s[j] ELSE s[j + 1]
  <1> DEFINE t == SubSeq(s, 1, i - 1)  u == SubSeq(s, i + 1, Len(s))
  <1>1. t \in Seq(S) /\ Len(t) = i - 1 /\ \A j \in 1 .. i - 1 : t[j] = s[j]
    BY SubSeqProperties
  <1>2. /\ u \in Seq(S) /\ Len(u) = Len(s) - i
        /\ \A j \in 1 .. Len(s) - i : u[j] = s[i + j]
    BY SubSeqProperties
  <1> HIDE DEF t, u
  <1>3. /\ t \o u \in Seq(S) /\ Len(t \o u) = Len(t) + Len(u)
        /\ \A j \in 1 .. Len(t) + Len(u) :
             (t \o u)[j] = IF j <= Len(t) THEN t[j] ELSE u[j - Len(t)]
    BY <1>1, <1>2, ConcatProperties
  <1>4. \A j \in 1 .. Len(s) - 1 : (t \o u)[j] = IF j < i THEN s[j] ELSE s[j + 1]
    <2> SUFFICES ASSUME NEW j \in 1 .. Len(s) - 1
                 PROVE  (t \o u)[j] = IF j < i THEN s[j] ELSE s[j + 1]
      OBVIOUS
    <2>1. CASE j < i
      BY <1>1, <1>3, <2>1
    <2>2. CASE ~(j < i)
      <3>1. j - (i - 1) \in 1 .. Len(s) - i /\ i + (j - (i - 1)) = j + 1
        BY <2>2
      <3>2. (t \o u)[j] = u[j - (i - 1)]
        BY <1>1, <1>2, <1>3, <2>2
      <3>3. u[j - (i - 1)] = s[i + (j - (i - 1))]
        BY <1>2, <3>1
      <3> QED BY <2>2, <3>1, <3>2, <3>3
    <2> QED BY <2>1, <2>2
  <1>5. Len(t \o u) = Len(s) - 1
    BY <1>1, <1>2, <1>3
  <1>6. RemoveAt(s, i) = t \o u
    BY DEF RemoveAt, t, u
  <1> QED BY <1>3, <1>4, <1>5, <1>6

(* An entry is inserted in front of the others, or one is removed.         *)
LEMMA Inserted ==
  ASSUME NEW S, NEW s \in Seq(S), NEW x \in S
  PROVE  /\ InsertBlackList(s, x) \in Seq(S) /\ Len(InsertBlackList(s, x)) = Len(s) + 1
         /\ \A j \in 1 .. Len(s) + 1 : InsertBlackList(s, x)[j] = IF j = 1 THEN x ELSE s[j - 1]
  <1>1. <<x>> \in Seq(S) /\ Len(<<x>>) = 1 /\ <<x>>[1] = x
    OBVIOUS
  <1>2. /\ <<x>> \o s \in Seq(S) /\ Len(<<x>> \o s) = 1 + Len(s)
        /\ \A j \in 1 .. 1 + Len(s) : (<<x>> \o s)[j] = IF j <= 1 THEN <<x>>[j] ELSE s[j - 1]
    BY <1>1, ConcatProperties
  <1> QED BY <1>1, <1>2 DEF InsertBlackList, Cons

LEMMA Removed ==
  ASSUME NEW S, NEW s \in Seq(S), NEW x
  PROVE  \/ RemoveBlackList(s, x) = s
         \/ \E i \in 1 .. Len(s) : RemoveBlackList(s, x) = RemoveAt(s, i)
  <1> DEFINE I == {i \in 1 .. Len(s) : SameRule(s[i], x)}
  <1>1. CASE I = {}
    BY <1>1 DEF RemoveBlackList, RemoveFirstMatch
  <1>2. CASE I # {}
    <2>1. PICK i \in I : \A j \in I : i <= j
      <3>1. I \subseteq Nat
        OBVIOUS
      <3> HIDE DEF I
      <3> QED BY <1>2, <3>1, LeastExists
    <2>2. Min(I) \in I
      BY <2>1 DEF Min
    <2>3. RemoveBlackList(s, x) = RemoveAt(s, Min(I))
      BY <1>2 DEF RemoveBlackList, RemoveFirstMatch, SelectInSeq
    <2> QED BY <2>2, <2>3
  <1> QED BY <1>1, <1>2

ListInv == BlackDataList \in Seq(Rules) /\ Len(BlackDataList) <= MaxRules

LEMMA OnlyIoctlsWriteList ==
  ASSUME [Next]_vars
  PROVE  \/ UNCHANGED BlackDataList
         \/ \E rule \in Rules : SetBlackList(rule) \/ RemoveBlack(rule)
         \/ UnInitBlackDataList
  <1>1. ASSUME NEW c \in Chains, Nbl(c) PROVE UNCHANGED BlackDataList
    BY <1>1 DEF Nbl, ScanCrashes, Continue, FilterSendNetBufferLists, FilterReceiveNetBufferLists, Enter,
       Scan, HandOn, FilterSendNetBufferListsComplete, IndicateReturn, FilterReturnNetBufferLists
  <1>2. ASSUME NEW r \in Oids, Oid(r) PROVE UNCHANGED BlackDataList
    BY <1>2 DEF Oid, FilterOidRequest, NdisFOidRequest, FilterOidRequestComplete, FreeClone,
       FilterCancelOidRequest
  <1> QED BY <1>1, <1>2 DEF Next, FilterAttach, FilterRestart, FilterPause, FilterDetach,
      UncountReturned, SendDIYNBL, CompleteDIYNBL, vars

LEMMA ListInvHolds == Spec => []ListInv
  <1>1. Init => ListInv
    BY NdisAssumption, EmptySeq DEF Init, ListInv
  <1>2. ListInv /\ [Next]_vars => ListInv'
    <2> SUFFICES ASSUME ListInv, [Next]_vars PROVE ListInv'
      OBVIOUS
    <2>1. ASSUME NEW rule \in Rules, SetBlackList(rule) PROVE ListInv'
      BY <2>1, Inserted, NdisAssumption DEF SetBlackList, ListInv
    <2>2. ASSUME NEW rule \in Rules, RemoveBlack(rule) PROVE ListInv'
      <3>1. \/ BlackDataList' = BlackDataList
            \/ \E i \in 1 .. Len(BlackDataList) : BlackDataList' = RemoveAt(BlackDataList, i)
        BY <2>2, Removed DEF RemoveBlack, ListInv
      <3>2. ASSUME NEW i \in 1 .. Len(BlackDataList), BlackDataList' = RemoveAt(BlackDataList, i)
            PROVE  ListInv'
        BY <3>2, RemovedAt, NdisAssumption DEF ListInv
      <3> QED BY <3>1, <3>2 DEF ListInv
    <2>3. CASE UnInitBlackDataList
      BY <2>3, EmptySeq, NdisAssumption DEF UnInitBlackDataList, ListInv
    <2>4. CASE UNCHANGED BlackDataList
      BY <2>4 DEF ListInv
    <2> QED BY <2>1, <2>2, <2>3, <2>4, OnlyIoctlsWriteList
  <1> QED BY <1>1, <1>2, PTL DEF Spec

(* How often a rule is listed.                                             *)
LEMMA ListedFinite ==
  ASSUME NEW s \in Seq(Rules), NEW rule
  PROVE  IsFiniteSet(ListedAt(s, rule)) /\ Listed(s, rule) \in Nat
  <1>1. IsFiniteSet(1 .. Len(s)) /\ DOMAIN s = 1 .. Len(s)
    BY FS_Interval, LenProperties
  <1>2. ListedAt(s, rule) \in SUBSET (1 .. Len(s))
    BY <1>1 DEF ListedAt
  <1> QED BY <1>1, <1>2, FS_Subset, FS_CardinalityType DEF Listed

(* A list that has each of its entries from another list, one for one,     *)
(* lists no rule more often.                                               *)
LEMMA ListedLess ==
  ASSUME NEW s \in Seq(Rules), NEW t \in Seq(Rules), NEW rule, NEW f,
         \A i \in 1 .. Len(t) : t[i] = rule => f[i] \in 1 .. Len(s) /\ s[f[i]] = rule,
         \A i, j \in 1 .. Len(t) : f[i] = f[j] => i = j
  PROVE  Listed(t, rule) <= Listed(s, rule)
  <1> DEFINE A == ListedAt(t, rule)
             B == ListedAt(s, rule)
             g == [i \in A |-> f[i]]
  <1>1. DOMAIN s = 1 .. Len(s) /\ DOMAIN t = 1 .. Len(t)
    BY LenProperties
  <1>2. g \in [A -> B]
    BY <1>1 DEF ListedAt
  <1>3. g \in Injection(A, B)
    BY <1>1, <1>2 DEF Injection, IsInjective, ListedAt
  <1>4. IsFiniteSet(B)
    BY ListedFinite
  <1> HIDE DEF A, B, g
  <1>5. Cardinality(A) <= Cardinality(B)
    BY <1>3, <1>4, FS_Injection
  <1> QED BY <1>5 DEF Listed, A, B

(* Only the ioctl that adds a rule makes it be listed more often.          *)
LEMMA OnlyAddedIsMore ==
  ASSUME ListInv, [Next]_vars, NEW rule \in Rules,
         Listed(BlackDataList', rule) > Listed(BlackDataList, rule)
  PROVE  /\ BlackDataList' \in Seq(Rules)
         /\ 1 \in DOMAIN BlackDataList' /\ BlackDataList'[1] = rule
  <1> USE DEF ListInv
  <1> DEFINE n == Len(BlackDataList)
  <1>1. n \in Nat
    BY LenProperties
  <1>2. Listed(BlackDataList, rule) \in Nat
    BY ListedFinite
  <1>3. ASSUME NEW r \in Rules, SetBlackList(r)
        PROVE  /\ BlackDataList' \in Seq(Rules)
               /\ 1 \in DOMAIN BlackDataList' /\ BlackDataList'[1] = rule
    <2>1. /\ BlackDataList' \in Seq(Rules) /\ Len(BlackDataList') = n + 1
          /\ \A j \in 1 .. n + 1 :
               BlackDataList'[j] = IF j = 1 THEN r ELSE BlackDataList[j - 1]
      <3>1. BlackDataList' = InsertBlackList(BlackDataList, r)
        BY <1>3 DEF SetBlackList
      <3>2. /\ InsertBlackList(BlackDataList, r) \in Seq(Rules)
            /\ Len(InsertBlackList(BlackDataList, r)) = n + 1
            /\ \A j \in 1 .. n + 1 : InsertBlackList(BlackDataList, r)[j] =
                                       IF j = 1 THEN r ELSE BlackDataList[j - 1]
        BY Inserted
      <3> QED BY <3>1, <3>2
    <2>2. DOMAIN BlackDataList' = 1 .. n + 1
      BY <2>1, LenProperties
    <2>3. CASE r # rule
      <3> DEFINE f == [i \in 1 .. n + 1 |-> i - 1]
      <3>1. \A i \in 1 .. Len(BlackDataList') :
              BlackDataList'[i] = rule => f[i] \in 1 .. n /\ BlackDataList[f[i]] = rule
        BY <1>1, <2>1, <2>3
      <3>2. \A i, j \in 1 .. Len(BlackDataList') : f[i] = f[j] => i = j
        BY <1>1, <2>1
      <3>3. PICK t : t = BlackDataList'
        OBVIOUS
      <3>4. Listed(t, rule) <= Listed(BlackDataList, rule)
        <4> HIDE DEF f
        <4> QED BY <2>1, <3>1, <3>2, <3>3, ListedLess
      <3>5. Listed(t, rule) \in Nat
        BY <2>1, <3>3, ListedFinite
      <3> QED BY <1>2, <3>3, <3>4, <3>5
    <2> QED BY <1>1, <2>1, <2>2, <2>3
  <1>4. ASSUME NEW k \in 1 .. n, BlackDataList' = RemoveAt(BlackDataList, k) PROVE FALSE
    <2> DEFINE f == [i \in 1 .. n |-> IF i < k THEN i ELSE i + 1]
    <2>1. PICK t : t = BlackDataList'
      OBVIOUS
    <2>2. /\ t \in Seq(Rules) /\ Len(t) = n - 1
          /\ \A j \in 1 .. n - 1 :
               t[j] = IF j < k THEN BlackDataList[j] ELSE BlackDataList[j + 1]
      BY <1>4, <2>1, RemovedAt
    <2>3. \A i \in 1 .. Len(t) : f[i] \in 1 .. n /\ t[i] = BlackDataList[f[i]]
      BY <1>1, <2>2
    <2>4. \A i, j \in 1 .. Len(t) : f[i] = f[j] => i = j
      BY <1>1, <2>2
    <2>5. Listed(t, rule) <= Listed(BlackDataList, rule)
      <3>1. \A i \in 1 .. Len(t) :
              t[i] = rule => f[i] \in 1 .. n /\ BlackDataList[f[i]] = rule
        BY <2>3
      <3> HIDE DEF f
      <3> QED BY <2>2, <2>4, <3>1, ListedLess
    <2>6. Listed(t, rule) \in Nat
      BY <2>2, ListedFinite
    <2> QED BY <1>2, <2>1, <2>5, <2>6
  <1>5. ASSUME NEW r \in Rules, RemoveBlack(r) PROVE FALSE
    <2>1. \/ BlackDataList' = BlackDataList
          \/ \E i \in 1 .. n : BlackDataList' = RemoveAt(BlackDataList, i)
      BY <1>5, Removed DEF RemoveBlack
    <2> QED BY <1>2, <1>4, <2>1
  <1>6. CASE UnInitBlackDataList
    <2>1. ListedAt(BlackDataList', rule) = {}
      BY <1>6 DEF UnInitBlackDataList, ListedAt
    <2>2. Listed(BlackDataList', rule) = 0
      BY <2>1, FS_EmptySet DEF Listed
    <2> QED BY <1>2, <2>2
  <1>7. CASE UNCHANGED BlackDataList
    BY <1>2, <1>7
  <1> QED BY <1>3, <1>5, <1>6, <1>7, OnlyIoctlsWriteList

(* A rule in front of the list is compared whatever was read.              *)
LEMMA FirstIsFound ==
  ASSUME NEW list, 1 \in DOMAIN list, NEW data, AddressMatches(list[1], data)
  PROVE  Filtering(list, data) = {TRUE}
  <1>1. 1 \in Compared(list, data)
    BY DEF Compared
  <1>2. TRUE \in RuleMatches(list[1], data)
    BY DEF RuleMatches
  <1>3. TRUE \in Filtering(list, data)
    BY <1>1, <1>2 DEF Filtering
  <1>4. FALSE \notin Filtering(list, data)
    BY <1>1, FoundIfCompared
  <1>5. Filtering(list, data) \subseteq BOOLEAN
    BY DEF Filtering
  <1> QED BY <1>3, <1>4, <1>5

(* The newest rule denies whatever it names, whatever else is listed.      *)
THEOREM NewestDenies == Spec => NewestFirst
  <1>1. ListInv /\ [Next]_vars =>
          [\A rule \in Rules, frames \in Contents :
             Listed(BlackDataList', rule) > Listed(BlackDataList, rule) =>
               \A data \in filterFilterNetBufferList(frames[1]) :
                 AddressMatches(rule, data) => Filtering(BlackDataList', data) = {TRUE}]_vars
    BY OnlyAddedIsMore, FirstIsFound
  <1> QED BY <1>1, ListInvHolds, PTL DEF Spec, NewestFirst

(* Both counters are right at any moment, for any chains of any lengths,   *)
(* any overlap of their handlers and any number of calls that return them. *)
THEOREM SendsAreCounted == Spec => []SendsCounted
  <1>1. NblInv => SendsCounted
    BY DEF NblInv, NblCount, SendsCounted
  <1> QED BY <1>1, NblInvHolds, PTL

(* The counter of receives, to which also those belong that are given back *)
(* and not uncounted yet.                                                  *)
THEOREM RcvsAreCounted == Spec => []RcvsCounted
  <1>1. NblInv => RcvsCounted
    BY DEF NblInv, NblCount, RcvsCounted
  <1> QED BY <1>1, NblInvHolds, PTL

(* Only a scan stops the machine.                                          *)
LEMMA OnlyScansStop ==
  ASSUME [Next]_vars
  PROVE  UNCHANGED down \/ down' = TRUE
  <1>1. ASSUME NEW c \in Chains, Nbl(c) PROVE UNCHANGED down \/ down' = TRUE
    BY <1>1 DEF Nbl, ScanCrashes, Continue, FilterSendNetBufferLists,
       FilterReceiveNetBufferLists, Enter, Scan, HandOn, FilterSendNetBufferListsComplete,
       IndicateReturn, FilterReturnNetBufferLists
  <1>2. ASSUME NEW r \in Oids, Oid(r) PROVE UNCHANGED down
    BY <1>2 DEF Oid, FilterOidRequest, NdisFOidRequest, FilterOidRequestComplete, FreeClone,
       FilterCancelOidRequest
  <1> QED BY <1>1, <1>2 DEF Next, FilterAttach, FilterRestart, FilterPause, FilterDetach,
      UncountReturned, SendDIYNBL, CompleteDIYNBL, SetBlackList, RemoveBlack,
      UnInitBlackDataList, vars

(* Every variable keeps its type; the counters are never negative.         *)
THEOREM NdisTypeCorrect == Spec => []TypeOK
  <1>1. NblInv /\ ListInv /\ OidInv /\ down \in BOOLEAN => TypeOK
    <2> SUFFICES ASSUME NblInv, ListInv, OidInv, down \in BOOLEAN PROVE TypeOK
      OBVIOUS
    <2>1. Cardinality(Away(Sends)) \in Nat /\ Cardinality(Away(Rcvs)) \in Nat
          /\ Cardinality(GivenBack) \in Nat
      BY FS_CardinalityType DEF NblInv, NblCount
    <2>2. OutstandingSends \in Nat /\ OutstandingRcvs \in Nat
      BY <2>1 DEF NblInv, NblCount
    <2> QED BY <2>2 DEF NblInv, NblType, ChainState, ListInv, OidInv, OidType, TypeOK
  <1>2. Init => down \in BOOLEAN
    BY DEF Init
  <1>3. down \in BOOLEAN /\ [Next]_vars => (down \in BOOLEAN)'
    BY OnlyScansStop
  <1> QED BY <1>1, <1>2, <1>3, NblInvHolds, ListInvHolds, OidInvHolds, PTL DEF Spec
=============================================================================
