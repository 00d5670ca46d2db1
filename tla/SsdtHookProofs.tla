--------------------------- MODULE SsdtHookProofs ---------------------------
(***************************************************************************)
(* Proofs about the SSDT driver, for every number of callers, processes,   *)
(* slots, names and blocks, and without a bound on the ioctls other than   *)
(* the one that is a constant.                                             *)
(*                                                                         *)
(* The arrays need one invariant each for what they hold (ArraysFromAdded) *)
(* and for what a scan has still to meet (SteadyAhead), and a query one    *)
(* for where its offsets lead (QueryRelinks).  For the list, all rests on  *)
(* ListSound, the list while it is not broken; that nothing breaks it      *)
(* while deletions have it to themselves rests on LoneWalks.  The walks    *)
(* need sets and orders of blocks that the model has no variable for, so   *)
(* their invariants say that there are some: the blocks a callback can     *)
(* come to (WalksSeen), those a deletion can come to and which of them are *)
(* newer (WalksOn), and which blocks come before which on every walk       *)
(* (WalksLead).                                                            *)
(***************************************************************************)
EXTENDS SsdtHook, SequenceTheorems, WellFoundedInduction, TLAPS

--------------------------------------------------------------------------
(* Types. *)

LEMMA CallType ==
  ASSUME TypeOK, NEW c \in Callers, NEW new \in CallState,
         call' = [call EXCEPT ![c] = new]
  PROVE  call' \in [Callers -> CallState]
BY DEF TypeOK

LEMMA NoCallType == NoCall \in CallState
<1>1. 0 \in Words
  BY SsdtAssumption DEF Words
<1> QED
  BY <1>1 DEF NoCall, CallState, Kinds, Entries

LEMMA NoHookType == NoHook \in HookState
<1>1. 0 \in 0 .. MaxLength /\ 0 \in 0 .. Len(Processes)
  BY SsdtAssumption
<1> QED
  BY <1>1 DEF NoHook, HookState, Kinds, Entries, Positions

LEMMA WordType ==
  ASSUME NEW n \in Words
  PROVE  (n + 1) % Word \in Words /\ (n + Word - 1) % Word \in Words
<1>1. Word \in Nat \ {0} /\ n \in Nat
  BY SsdtAssumption DEF Words
<1>2. \A a \in Nat, b \in Nat \ {0} : a % b \in 0 .. b - 1
  OBVIOUS
<1>3. n + 1 \in Nat /\ n + Word - 1 \in Nat
  BY <1>1
<1> QED
  BY <1>1, <1>2, <1>3 DEF Words

LEMMA AfterArrayType ==
  ASSUME NEW at \in {"insert", "remove"}, NEW k \in Kinds, NEW p \in PIDs \union {0}
  PROVE  AfterArray(at, k, p) \in CallState
BY NoCallType DEF AfterArray, CallState, Kinds

LEMMA InsertIntoType ==
  ASSUME NEW k \in Kinds, NEW p \in PIDs \union {0}
  PROVE  InsertInto(k, p) \in CallState
<1>1. [NoCall EXCEPT !.at = "grow", !.pid = p, !.kind = k] \in CallState
  BY NoCallType DEF CallState
<1> QED
  BY <1>1, AfterArrayType DEF InsertInto

LEMMA SmallestExists ==
  ASSUME NEW T, T \subseteq Nat, T # {}
  PROVE  \E i \in T : \A j \in T : i <= j
<1>1. PICK i \in T : \A j \in T : ~(<<j, i>> \in OpToRel(<, Nat))
  BY NatLessThanWellFounded, WFMin
<1>2. ASSUME NEW j \in T, ~(i <= j)
      PROVE  FALSE
  <2>1. <<j, i>> \in Nat \X Nat /\ <<j, i>>[1] < <<j, i>>[2]
    BY <1>2
  <2>2. <<j, i>> \in OpToRel(<, Nat)
    BY <2>1 DEF OpToRel
  <2> QED
    BY <1>1, <2>2
<1> QED
  BY <1>2

LEMMA FirstSlotType ==
  ASSUME TypeOK, NEW k \in Kinds, NEW p \in PIDs \union {0}, Validated(k, p) # {}
  PROVE  FirstSlot(k, p) \in Words
<1>1. Validated(k, p) \subseteq Nat
  BY DEF Validated, Used, Slots
<1>2. \E i \in Validated(k, p) : \A j \in Validated(k, p) : i <= j
  BY <1>1, SmallestExists
<1>3. FirstSlot(k, p) \in Slots
  BY <1>2 DEF FirstSlot, Validated, Used
<1> QED
  BY <1>3, SsdtAssumption DEF Slots, Words

LEMMA RemoveFromType ==
  ASSUME TypeOK, NEW k \in Kinds, NEW p \in PIDs \union {0}
  PROVE  RemoveFrom(k, p) \in CallState
<1>1. ASSUME Validated(k, p) # {}
      PROVE  [NoCall EXCEPT !.at = "shrink", !.pid = p, !.kind = k, !.slot = FirstSlot(k, p)] \in CallState
  BY <1>1, NoCallType, FirstSlotType DEF CallState
<1> QED
  BY <1>1, AfterArrayType DEF RemoveFrom

LEMMA MaySendType ==
  ASSUME TypeOK, NEW c \in Callers, NEW about \in Subjects, MaySend(c, about)
  PROVE  calls' \in [Subjects -> Nat]
BY DEF MaySend, TypeOK

LEMMA ArrayType ==
  ASSUME TypeOK, NEW c \in Callers,
         IOCTL_SSDT_ADD(c) \/ IOCTL_SSDT_DELETE(c) \/ InsertHideProcess(c)
         \/ RemoveHideProcess(c) \/ Grow(c) \/ Shrink(c) \/ StoreElement(c) \/ StoreLen(c)
  PROVE  TypeOK'
<1>0. call[c] \in CallState /\ "protect" \in Kinds /\ "hide" \in Kinds
  BY DEF TypeOK, Kinds
<1>1. CASE IOCTL_SSDT_ADD(c)
  <2>1. PICK p \in PIDs : call' = [call EXCEPT ![c] = InsertInto("protect", p)] /\ added' = added \union {p}
    BY <1>1 DEF IOCTL_SSDT_ADD, Send
  <2>2. call' \in [Callers -> CallState]
    BY <1>0, <2>1, InsertIntoType, CallType
  <2>3. calls' \in [Subjects -> Nat]
    BY <1>1, MaySendType DEF IOCTL_SSDT_ADD, Send, Subjects
  <2> QED
    BY <1>1, <2>1, <2>2, <2>3 DEF IOCTL_SSDT_ADD, TypeOK, arrayVars, listVars
<1>2. CASE IOCTL_SSDT_DELETE(c)
  <2>1. PICK p \in PIDs : call' = [call EXCEPT ![c] = RemoveFrom("protect", p)]
    BY <1>2 DEF IOCTL_SSDT_DELETE, Send
  <2>2. call' \in [Callers -> CallState]
    BY <1>0, <2>1, RemoveFromType, CallType
  <2>3. calls' \in [Subjects -> Nat]
    BY <1>2, MaySendType DEF IOCTL_SSDT_DELETE, Send, Subjects
  <2> QED
    BY <1>2, <2>2, <2>3 DEF IOCTL_SSDT_DELETE, TypeOK, arrayVars, listVars
<1>3. CASE InsertHideProcess(c)
  <2>1. InsertInto("hide", call[c].pid) \in CallState
    BY <1>0, InsertIntoType DEF CallState
  <2>2. call' \in [Callers -> CallState]
    BY <1>3, <2>1, CallType DEF InsertHideProcess
  <2> QED
    BY <1>3, <2>2 DEF InsertHideProcess, TypeOK, arrayVars, listVars
<1>4. CASE RemoveHideProcess(c)
  <2>1. RemoveFrom("hide", call[c].pid) \in CallState
    BY <1>0, RemoveFromType DEF CallState
  <2>2. call' \in [Callers -> CallState]
    BY <1>4, <2>1, CallType DEF RemoveHideProcess
  <2> QED
    BY <1>4, <2>2 DEF RemoveHideProcess, TypeOK, arrayVars, listVars
<1>5. CASE Grow(c)
  <2> DEFINE n == len[call[c].kind]
             new == [call[c] EXCEPT !.at = "insertStores", !.slot = n, !.word = call[c].pid,
                       !.newLen = (n + 1) % Word, !.todo = {"len", "element"}]
  <2>1. n \in Words /\ (n + 1) % Word \in Words
    BY <1>0, WordType DEF TypeOK, CallState
  <2>2. new \in CallState
    BY <1>0, <2>1 DEF CallState
  <2>3. call' = [call EXCEPT ![c] = new]
    BY <1>5 DEF Grow
  <2>4. call' \in [Callers -> CallState]
    BY <2>2, <2>3, CallType
  <2> QED
    BY <1>5, <2>4 DEF Grow, TypeOK, arrayVars, listVars
<1>6. CASE Shrink(c)
  <2> DEFINE n == len[call[c].kind]
             new(w) == [call[c] EXCEPT !.at = "removeStores", !.word = w,
                          !.newLen = (n + Word - 1) % Word, !.todo = {"len", "element"}]
  <2>1. n \in Words /\ (n + Word - 1) % Word \in Words
    BY <1>0, WordType DEF TypeOK, CallState
  <2>2. WordAt(call[c].kind, n) \subseteq PIDs \union {0}
    BY <1>0 DEF TypeOK, CallState, WordAt
  <2>3. PICK w \in WordAt(call[c].kind, n) : call' = [call EXCEPT ![c] = new(w)]
    BY <1>6 DEF Shrink
  <2>4. new(w) \in CallState
    BY <1>0, <2>1, <2>2 DEF CallState
  <2>5. call' \in [Callers -> CallState]
    BY <2>3, <2>4, CallType
  <2>6. overrun' \in BOOLEAN
    BY <1>6 DEF Shrink, TypeOK
  <2> QED
    BY <1>6, <2>5, <2>6 DEF Shrink, TypeOK, listVars
<1>7. ASSUME NEW s \in {"len", "element"}, call[c].at \in {"insertStores", "removeStores"}
      PROVE  AfterStore(c, s) \in CallState
  <2>1. [call[c] EXCEPT !.todo = @ \ {s}] \in CallState
    BY <1>0 DEF CallState
  <2>2. call[c].kind \in Kinds /\ call[c].pid \in PIDs \union {0}
    BY <1>0 DEF CallState
  <2> QED
    BY <1>7, <2>1, <2>2, AfterArrayType DEF AfterStore
<1>8. CASE StoreElement(c)
  <2>1. call' \in [Callers -> CallState]
    BY <1>7, <1>8, CallType DEF StoreElement
  <2>2. call[c].kind \in Kinds /\ call[c].word \in PIDs \union {0}
    BY <1>0 DEF CallState
  <2>3. arr' \in [Kinds -> [Slots -> PIDs \union {0}]] /\ overrun' \in BOOLEAN
    BY <1>8, <2>2 DEF StoreElement, TypeOK
  <2> QED
    BY <1>8, <2>1, <2>3 DEF StoreElement, TypeOK, listVars
<1>9. CASE StoreLen(c)
  <2>1. call' \in [Callers -> CallState]
    BY <1>7, <1>9, CallType DEF StoreLen
  <2>2. call[c].kind \in Kinds /\ call[c].newLen \in Words
    BY <1>0 DEF CallState
  <2>3. len' \in [Kinds -> Words]
    BY <1>9, <2>2 DEF StoreLen, TypeOK
  <2> QED
    BY <1>9, <2>1, <2>3 DEF StoreLen, TypeOK, listVars
<1> QED
  BY <1>1, <1>2, <1>3, <1>4, <1>5, <1>6, <1>8, <1>9

--------------------------------------------------------------------------
(* Types: the list. *)

(* What a list without one of its entries is. *)
LEMMA RemoveAtLemma ==
  ASSUME NEW s \in Seq(Blocks), NEW i \in DOMAIN s
  PROVE  /\ RemoveAt(s, i) \in Seq(Blocks)
         /\ DOMAIN RemoveAt(s, i) = 1 .. Len(s) - 1 /\ Len(RemoveAt(s, i)) = Len(s) - 1
         /\ \A j \in 1 .. Len(s) - 1 : RemoveAt(s, i)[j] = IF j < i THEN s[j] ELSE s[j + 1]
<1> DEFINE a == SubSeq(s, 1, i - 1)
           b == SubSeq(s, i + 1, Len(s))
<1>0. Len(s) \in Nat /\ i \in 1 .. Len(s)
  OBVIOUS
<1>1. a \in Seq(Blocks) /\ Len(a) = i - 1 /\ \A j \in 1 .. i - 1 : a[j] = s[j]
  BY <1>0
<1>2. b \in Seq(Blocks) /\ Len(b) = Len(s) - i /\ \A j \in 1 .. Len(s) - i : b[j] = s[i + j]
  BY <1>0
<1>3. /\ a \o b \in Seq(Blocks)
      /\ Len(a \o b) = Len(s) - 1
      /\ \A j \in 1 .. Len(s) - 1 : (a \o b)[j] = IF j < i THEN a[j] ELSE b[j - (i - 1)]
  <2> HIDE DEF a, b
  <2>1. a \in Seq(Blocks) /\ b \in Seq(Blocks) /\ Len(a) = i - 1 /\ Len(b) = Len(s) - i
    BY <1>1, <1>2
  <2>2. /\ a \o b \in Seq(Blocks) /\ Len(a \o b) = Len(a) + Len(b)
        /\ \A j \in 1 .. Len(a) + Len(b) : (a \o b)[j] = IF j <= Len(a) THEN a[j] ELSE b[j - Len(a)]
    BY <2>1, ConcatProperties
  <2>3. Len(a) + Len(b) = Len(s) - 1 /\ \A j \in 1 .. Len(s) - 1 : j <= Len(a) <=> j < i
    BY SMTT(20), <1>0, <2>1
  <2> QED
    BY <2>1, <2>2, <2>3
<1>4. ASSUME NEW j \in 1 .. Len(s) - 1
      PROVE  (a \o b)[j] = IF j < i THEN s[j] ELSE s[j + 1]
  <2> HIDE DEF a, b
  <2>1. CASE j < i
    BY <1>0, <1>1, <1>3, <2>1
  <2>2. CASE ~(j < i)
    <3>1. j - (i - 1) \in 1 .. Len(s) - i /\ i + (j - (i - 1)) = j + 1
      BY <1>0, <2>2
    <3> QED
      BY <1>2, <1>3, <2>2, <3>1
  <2> QED
    BY <2>1, <2>2
<1>5. a \o b = RemoveAt(s, i)
  BY DEF RemoveAt
<1>6. DOMAIN (a \o b) = 1 .. Len(s) - 1
  <2> HIDE DEF a, b
  <2> QED
    BY <1>3
<1> HIDE DEF a, b
<1> QED
  BY <1>3, <1>4, <1>5, <1>6, Zenon

LEMMA PositionLemma ==
  ASSUME TypeOK, NEW e \in Range(listed)
  PROVE  PositionOf(e) \in DOMAIN listed /\ listed[PositionOf(e)] = e
BY DEF PositionOf, Range

LEMMA ListedType ==
  ASSUME TypeOK
  PROVE  Range(listed) \subseteq Blocks /\ ListHead \notin Range(listed)
BY SsdtAssumption DEF TypeOK, Range

LEMMA ExcusedType ==
  ASSUME TypeOK, NEW gone
  PROVE  Excused(gone) \in [Callers -> CallState]
<1>1. ASSUME NEW c \in Callers
      PROVE  [call[c] EXCEPT !.due = @ \ gone] \in CallState
  <2>1. call[c] \in CallState
    BY DEF TypeOK
  <2>2. call[c].due \ gone \in SUBSET Blocks
    BY <2>1 DEF CallState
  <2> QED
    BY <2>1, <2>2 DEF CallState
<1> QED
  BY <1>1 DEF Excused

(* What a clear of a broken list may do, whatever it comes to. *)
LEMMA ClearsSome ==
  ASSUME TypeOK, NEW c \in Callers, ClearBroken(c)
  PROVE  \E tail \in SUBSET Blocks :
           \/ UNCHANGED <<call, flink, blink, listed, freed, undefined>>
           \/ /\ call' = [d \in Callers |-> [Excused(Range(listed))[d] EXCEPT !.passed = @ \ tail]]
              /\ flink' = [e \in Entries |->
                   IF e \in (tail \ {blink[ListHead]}) \union {ListHead} THEN ListHead ELSE flink[e]]
              /\ blink' = [blink EXCEPT ![ListHead] = ListHead]
              /\ listed' = <<>> /\ freed' = freed \union tail /\ undefined' \in BOOLEAN
BY DEF ClearBroken

LEMMA ListType ==
  ASSUME TypeOK, NEW c \in Callers,
         IOCTL_SSDT_FORBIDPROCESS_ADD(c) \/ IOCTL_SSDT_FORBIDPROCESS_DELETE(c)
         \/ IOCTL_SSDT_CLAER_BLACK_ILST(c) \/ ClearBroken(c)
         \/ Compare(c) \/ Unlink(c) \/ Advance(c) \/ Deleted(c)
  PROVE  TypeOK'
<1>0. call[c] \in CallState /\ call[c].entry \in Entries
  BY DEF TypeOK, CallState
<1>1. CASE IOCTL_SSDT_FORBIDPROCESS_ADD(c)
  <2>1. PICK n \in Names, b \in Allocatable :
          /\ name' = [name EXCEPT ![b] = n]
          /\ flink' = [flink EXCEPT ![b] = flink[ListHead], ![ListHead] = b]
          /\ blink' = [blink EXCEPT ![flink[ListHead]] = b, ![b] = ListHead]
          /\ listed' = <<b>> \o listed
          /\ freed' = freed \ {b}
    BY <1>1 DEF IOCTL_SSDT_FORBIDPROCESS_ADD
  <2>2. b \in Blocks
    BY DEF Allocatable, TypeOK
  <2>3. call' \in [Callers -> CallState] /\ calls' \in [Subjects -> Nat]
    BY <1>1, NoCallType, CallType, MaySendType DEF IOCTL_SSDT_FORBIDPROCESS_ADD, Send, Subjects
  <2>4. flink' \in [Entries -> Entries] /\ blink' \in [Entries -> Entries]
    BY <2>1, <2>2 DEF TypeOK, Entries
  <2>5. listed' \in Seq(Blocks) /\ name' \in [Blocks -> Names \union {NoName}] /\ freed' \subseteq Blocks
    BY <2>1, <2>2 DEF TypeOK
  <2>6. UNCHANGED <<arr, len, overrun, hook, added, broken>> /\ undefined' \in BOOLEAN
    BY <1>1 DEF IOCTL_SSDT_FORBIDPROCESS_ADD, MayStop, TypeOK, arrayVars
  <2> QED
    BY <2>3, <2>4, <2>5, <2>6 DEF TypeOK
<1>2. CASE IOCTL_SSDT_FORBIDPROCESS_DELETE(c)
  <2>1. PICK n \in Names : call' = [call EXCEPT ![c] =
          IF flink[ListHead] = ListHead THEN NoCall
          ELSE [NoCall EXCEPT !.at = "compare", !.name = n, !.entry = flink[ListHead],
                  !.due = {b \in Range(listed) : <<n, name[b]>> \in Starts}]]
    BY <1>2 DEF IOCTL_SSDT_FORBIDPROCESS_DELETE, Send
  <2>2. flink[ListHead] \in Entries
    BY DEF TypeOK, Entries
  <2>3. [NoCall EXCEPT !.at = "compare", !.name = n, !.entry = flink[ListHead],
           !.due = {b \in Range(listed) : <<n, name[b]>> \in Starts}] \in CallState
    BY NoCallType, ListedType, <2>2 DEF CallState
  <2>4. call' \in [Callers -> CallState]
    BY <2>1, <2>3, NoCallType, CallType
  <2>5. calls' \in [Subjects -> Nat]
    BY <1>2, MaySendType DEF IOCTL_SSDT_FORBIDPROCESS_DELETE, Send, Subjects
  <2> QED
    BY <1>2, <2>4, <2>5 DEF IOCTL_SSDT_FORBIDPROCESS_DELETE, TypeOK, arrayVars, listVars
<1>3. CASE IOCTL_SSDT_CLAER_BLACK_ILST(c)
  <2>1. call' \in [Callers -> CallState]
    <3>1. \A d \in Callers : [Excused(Range(listed))[d] EXCEPT !.passed = @ \ Range(listed)] \in CallState
      BY ExcusedType DEF CallState
    <3> QED
      BY <1>3, <3>1 DEF IOCTL_SSDT_CLAER_BLACK_ILST
  <2>2. calls' \in [Subjects -> Nat]
    BY <1>3, MaySendType DEF IOCTL_SSDT_CLAER_BLACK_ILST, Subjects
  <2>3. flink' \in [Entries -> Entries] /\ blink' \in [Entries -> Entries]
    BY <1>3 DEF IOCTL_SSDT_CLAER_BLACK_ILST, TypeOK, Entries
  <2>4. listed' \in Seq(Blocks) /\ freed' \subseteq Blocks
    BY <1>3, ListedType DEF IOCTL_SSDT_CLAER_BLACK_ILST, TypeOK
  <2> QED
    BY <1>3, <2>1, <2>2, <2>3, <2>4 DEF IOCTL_SSDT_CLAER_BLACK_ILST, TypeOK, arrayVars
<1>8. CASE ClearBroken(c)
  <2>1. PICK tail \in SUBSET Blocks :
          \/ UNCHANGED <<call, flink, blink, listed, freed, undefined>>
          \/ /\ call' = [d \in Callers |-> [Excused(Range(listed))[d] EXCEPT !.passed = @ \ tail]]
             /\ flink' = [e \in Entries |->
                  IF e \in (tail \ {blink[ListHead]}) \union {ListHead} THEN ListHead ELSE flink[e]]
             /\ blink' = [blink EXCEPT ![ListHead] = ListHead]
             /\ listed' = <<>> /\ freed' = freed \union tail /\ undefined' \in BOOLEAN
    BY <1>8, ClearsSome
  <2>2. call' \in [Callers -> CallState]
    <3>1. \A d \in Callers : [Excused(Range(listed))[d] EXCEPT !.passed = @ \ tail] \in CallState
      BY ExcusedType DEF CallState
    <3> QED
      BY <2>1, <3>1 DEF TypeOK
  <2>3. calls' \in [Subjects -> Nat]
    BY <1>8, MaySendType DEF ClearBroken, Subjects
  <2>4. /\ flink' \in [Entries -> Entries] /\ blink' \in [Entries -> Entries]
        /\ listed' \in Seq(Blocks) /\ freed' \subseteq Blocks /\ undefined' \in BOOLEAN
    <3>1. ListHead \in Entries
      BY DEF Entries
    <3>2. CASE UNCHANGED <<flink, blink, listed, freed, undefined>>
      BY <3>2 DEF TypeOK
    <3>3. CASE ~UNCHANGED <<flink, blink, listed, freed, undefined>>
      <4>1. flink' \in [Entries -> Entries]
        BY <2>1, <3>1, <3>3 DEF TypeOK
      <4>2. blink' \in [Entries -> Entries]
        BY <2>1, <3>1, <3>3 DEF TypeOK
      <4>3. listed' \in Seq(Blocks) /\ freed' \subseteq Blocks /\ undefined' \in BOOLEAN
        <5>1. listed' = <<>> /\ freed' = freed \union tail /\ undefined' \in BOOLEAN
          BY <2>1, <3>3
        <5>2. freed \subseteq Blocks /\ tail \subseteq Blocks
          BY DEF TypeOK
        <5>3. listed' \in Seq(Blocks)
          BY <5>1, EmptySeq
        <5> QED
          BY <5>1, <5>2, <5>3
      <4> QED
        BY <4>1, <4>2, <4>3
    <3> QED
      BY <3>2, <3>3
  <2>5. UNCHANGED <<arr, len, overrun, name, hook, added, broken>>
    BY <1>8 DEF ClearBroken, arrayVars
  <2> QED
    BY <2>2, <2>3, <2>4, <2>5 DEF TypeOK
<1>4. CASE Compare(c)
  <2>1. PICK at \in {"unlink", "advance"} : call' = [call EXCEPT ![c] = [call[c] EXCEPT !.at = at]]
    BY <1>4 DEF Compare
  <2>2. [call[c] EXCEPT !.at = at] \in CallState
    BY <1>0 DEF CallState
  <2>3. call' \in [Callers -> CallState]
    BY <2>1, <2>2, CallType
  <2> QED
    BY <1>4, <2>3 DEF Compare, Reads, TypeOK, arrayVars, listVars
<1>5. CASE Unlink(c)
  <2>1. call' \in [Callers -> CallState]
    <3>1. Excused({call[c].entry}) \in [Callers -> CallState]
      BY ExcusedType
    <3>2. [Excused({call[c].entry})[c] EXCEPT !.at = "advance"] \in CallState
      BY ZenonT(40), <3>1 DEF CallState
    <3>3. call' = [Excused({call[c].entry}) EXCEPT ![c] = [Excused({call[c].entry})[c] EXCEPT !.at = "advance"]]
      BY <1>5 DEF Unlink
    <3> QED
      BY <3>1, <3>2, <3>3
  <2>2. flink' \in [Entries -> Entries] /\ blink' \in [Entries -> Entries]
    BY <1>0, <1>5 DEF Unlink, TypeOK
  <2>4. undefined' \in BOOLEAN /\ broken' \in BOOLEAN
    BY <1>5 DEF Unlink, MayStop, TypeOK
  <2>3. listed' \in Seq(Blocks)
    <3>1. CASE call[c].entry \notin Range(listed)
      BY <1>5, <3>1 DEF Unlink, TypeOK
    <3>2. CASE call[c].entry \in Range(listed)
      <4>1. call[c].entry \in Range(listed) /\ listed' = RemoveAt(listed, PositionOf(call[c].entry))
        BY <1>5, <3>2 DEF Unlink
      <4>2. PositionOf(call[c].entry) \in DOMAIN listed
        BY <4>1, PositionLemma
      <4> QED
        BY <4>1, <4>2, RemoveAtLemma DEF TypeOK
    <3> QED
      BY <3>1, <3>2
  <2> QED
    BY <1>5, <2>1, <2>2, <2>3, <2>4 DEF Unlink, TypeOK, arrayVars
<1>6. CASE Advance(c)
  <2>1. flink[call[c].entry] \in Entries
    BY <1>0 DEF TypeOK
  <2>2. [NoCall EXCEPT !.at = "deleted", !.due = call[c].due] \in CallState
    BY <1>0, NoCallType DEF CallState
  <2>3. [call[c] EXCEPT !.at = "compare", !.entry = flink[call[c].entry],
           !.passed = @ \union {call[c].entry}] \in CallState
    BY <1>0, <2>1 DEF CallState
  <2>4. call' = [call EXCEPT ![c] = IF flink[call[c].entry] = ListHead
          THEN [NoCall EXCEPT !.at = "deleted", !.due = call[c].due]
          ELSE [call[c] EXCEPT !.at = "compare", !.entry = flink[call[c].entry],
                  !.passed = @ \union {call[c].entry}]]
    BY <1>6 DEF Advance
  <2>5. call' \in [Callers -> CallState]
    BY <2>2, <2>3, <2>4, CallType
  <2> QED
    BY <1>6, <2>5 DEF Advance, Reads, TypeOK, arrayVars, listVars
<1>7. CASE Deleted(c)
  <2>1. call' \in [Callers -> CallState]
    BY <1>7, NoCallType, CallType DEF Deleted
  <2> QED
    BY <1>7, <2>1 DEF Deleted, TypeOK, arrayVars, listVars
<1> QED
  BY <1>1, <1>2, <1>3, <1>4, <1>5, <1>6, <1>7, <1>8

--------------------------------------------------------------------------
(* Types: the readers. *)

(* The readers change nothing but hook. *)
HookAction == HookStarts \/ HookStep

(* While a query runs, it stands at one of its positions. *)
QueryStands == (hook.at = "scan" /\ hook.kind = "hide") =>
  hook.curr \in Positions /\ hook.next \in [Positions -> 0 .. Len(Processes)]

LEMMA PositionsType ==
  /\ Positions = 1 .. Len(Processes) /\ Len(Processes) \in Nat \ {0} /\ 1 \in Positions
  /\ \A i \in Positions : Processes[i] \in PIDs \union {0}
BY SsdtAssumption DEF Positions

LEMMA StartScanType ==
  ASSUME NEW h \in HookState, NEW k \in Kinds, NEW p \in PIDs \union {0}
  PROVE  /\ StartScan(h, k, p) \in HookState
         /\ StartScan(h, k, p).at = "scan" /\ StartScan(h, k, p).kind = k /\ StartScan(h, k, p).i = 0
         /\ StartScan(h, k, p).curr = h.curr /\ StartScan(h, k, p).next = h.next
         /\ StartScan(h, k, p).pid = p
<1>1. 0 \in 0 .. MaxLength
  BY SsdtAssumption
<1> QED
  BY <1>1 DEF StartScan, HookState

LEMMA NextProcessType ==
  ASSUME NEW h \in HookState, h.curr \in Positions, h.next \in [Positions -> 0 .. Len(Processes)]
  PROVE  /\ NextProcess(h) \in HookState
         /\ \/ NextProcess(h).at = "returned"
            \/ /\ NextProcess(h).at = "scan" /\ NextProcess(h).kind = "hide" /\ NextProcess(h).i = 0
               /\ NextProcess(h).curr \in Positions /\ NextProcess(h).next = h.next
<1>1. CASE h.next[h.curr] = 0
  BY <1>1 DEF NextProcess, HookState
<1>2. CASE h.next[h.curr] # 0
  <2> DEFINE n == h.next[h.curr]
             g == StartScan(h, "hide", Processes[n])
  <2>1. n \in Positions /\ h.curr \in 0 .. Len(Processes) /\ n \in 0 .. Len(Processes)
    BY <1>2, PositionsType
  <2>2. /\ g \in HookState /\ g.at = "scan" /\ g.kind = "hide" /\ g.i = 0 /\ g.next = h.next
    BY <2>1, PositionsType, StartScanType DEF Kinds
  <2>3. NextProcess(h) = [g EXCEPT !.prev = h.curr, !.curr = n]
    BY <1>2 DEF NextProcess
  <2> HIDE DEF g, n
  <2>4. [g EXCEPT !.prev = h.curr, !.curr = n] \in HookState
    BY <2>1, <2>2 DEF HookState
  <2> QED
    BY <2>1, <2>2, <2>3, <2>4 DEF HookState
<1> QED
  BY <1>1, <1>2

LEMMA HookType ==
  ASSUME TypeOK, QueryStands, HookAction
  PROVE  TypeOK' /\ QueryStands'
<1>0. hook \in HookState
  BY DEF TypeOK
<1>1. undefined' \in BOOLEAN
  BY DEF HookAction, HookStarts, HookStep, ScanNext, MyNtTerminateProcess, TerminateDecided,
     MyNtQuerySystemInformation, ProcessKept, ProcessHidden, CreateProcessNotifyEx, Match, Back,
     HookReturns, Reads, TypeOK
<1>2. ASSUME hook' \in HookState
      PROVE  TypeOK'
  BY <1>1, <1>2 DEF HookAction, HookStarts, HookStep, ScanNext, MyNtTerminateProcess, TerminateDecided,
     MyNtQuerySystemInformation, ProcessKept, ProcessHidden, CreateProcessNotifyEx, Match, Back,
     HookReturns, TypeOK, arrayVars, listVars
<1> SUFFICES hook' \in HookState /\ QueryStands'
  BY <1>2
<1>3. CASE ScanNext
  <2>1. hook.i + 1 \in 0 .. MaxLength
    BY <1>0, <1>3, SsdtAssumption DEF ScanNext, ScanFails, Used, Slots, HookState
  <2>2. hook' = [hook EXCEPT !.i = @ + 1]
    BY <1>3 DEF ScanNext
  <2> QED
    BY <1>0, <2>1, <2>2 DEF HookState, QueryStands
<1>4. CASE MyNtTerminateProcess
  <2>1. PICK p \in PIDs : hook' = StartScan(NoHook, "protect", p)
    BY <1>4 DEF MyNtTerminateProcess
  <2> QED
    BY <2>1, NoHookType, StartScanType DEF Kinds, QueryStands
<1>5. CASE TerminateDecided
  <2>1. PICK at \in {"denied", "terminated"} : hook' = [hook EXCEPT !.at = at]
    BY <1>5 DEF TerminateDecided
  <2> QED
    BY <1>0, <2>1 DEF HookState, QueryStands
<1>6. CASE MyNtQuerySystemInformation
  <2> DEFINE g == StartScan(NoHook, "hide", Processes[1])
             nx == [i \in Positions |-> IF i = Len(Processes) THEN 0 ELSE i + 1]
  <2>1. g \in HookState /\ g.at = "scan" /\ g.kind = "hide"
    BY NoHookType, PositionsType, StartScanType DEF Kinds
  <2>2. nx \in [Positions -> 0 .. Len(Processes)]
    BY PositionsType
  <2>3. hook' = [g EXCEPT !.curr = 1, !.next = nx]
    BY <1>6 DEF MyNtQuerySystemInformation
  <2> HIDE DEF g, nx
  <2>4. 1 \in 0 .. Len(Processes)
    BY PositionsType
  <2>5. hook' \in HookState /\ hook'.curr = 1 /\ hook'.next = nx
    BY <2>1, <2>2, <2>3, <2>4 DEF HookState
  <2> QED
    BY <2>2, <2>5, PositionsType DEF QueryStands
<1>7. CASE ProcessKept
  <2>1. hook.curr \in Positions /\ hook.next \in [Positions -> 0 .. Len(Processes)]
    BY <1>7 DEF ProcessKept, QueryStands
  <2>2. hook' = NextProcess(hook)
    BY <1>7 DEF ProcessKept
  <2> QED
    BY <1>0, <2>1, <2>2, NextProcessType DEF QueryStands
<1>8. CASE ProcessHidden
  <2>1. hook.curr \in Positions /\ hook.next \in [Positions -> 0 .. Len(Processes)]
    BY <1>8 DEF ProcessHidden, QueryStands
  <2> DEFINE nx == IF hook.prev = 0 THEN hook.next ELSE [hook.next EXCEPT ![hook.prev] = hook.next[hook.curr]]
             g == [hook EXCEPT !.found = @ \union {hook.curr}, !.next = nx]
  <2>2. nx \in [Positions -> 0 .. Len(Processes)]
    BY <2>1
  <2>3. hook' = NextProcess(g)
    BY <1>8 DEF ProcessHidden
  <2> HIDE DEF nx
  <2>4. g \in HookState /\ g.curr = hook.curr /\ g.next = nx
    BY <1>0, <2>1, <2>2 DEF HookState
  <2> HIDE DEF g
  <2> QED
    BY <2>1, <2>2, <2>3, <2>4, NextProcessType DEF QueryStands
<1>9. CASE CreateProcessNotifyEx
  <2>1. PICK image \in Images, at \in {"created", "match"} :
          hook' = [NoHook EXCEPT !.image = image, !.entry = flink[ListHead], !.at = at]
    BY <1>9 DEF CreateProcessNotifyEx
  <2>2. flink[ListHead] \in Entries /\ image \in SUBSET Names
    BY SsdtAssumption DEF TypeOK, Entries
  <2> QED
    BY <2>1, <2>2, NoHookType DEF HookState, QueryStands
<1>10. CASE Match
  <2>1. PICK at \in {"refused", "back"} : hook' = [hook EXCEPT !.at = at]
    BY <1>10 DEF Match
  <2> QED
    BY <1>0, <2>1 DEF HookState, QueryStands
<1>11. CASE Back
  <2>1. PICK at \in {"created", "match"} : hook' = [hook EXCEPT !.at = at, !.entry = blink[@]]
    BY <1>11 DEF Back
  <2>2. blink[hook.entry] \in Entries
    BY <1>0 DEF TypeOK, HookState
  <2> QED
    BY <1>0, <2>1, <2>2 DEF HookState, QueryStands
<1>12. CASE HookReturns
  BY <1>12, NoHookType DEF HookReturns, QueryStands, NoHook
<1> QED
  BY <1>3, <1>4, <1>5, <1>6, <1>7, <1>8, <1>9, <1>10, <1>11, <1>12 DEF HookAction, HookStarts, HookStep

--------------------------------------------------------------------------
(* The arrays hold what was added. *)

ArrayAction(c) ==
  IOCTL_SSDT_ADD(c) \/ IOCTL_SSDT_DELETE(c) \/ InsertHideProcess(c)
  \/ RemoveHideProcess(c) \/ Grow(c) \/ Shrink(c) \/ StoreElement(c) \/ StoreLen(c)
ListAction(c) ==
  IOCTL_SSDT_FORBIDPROCESS_ADD(c) \/ IOCTL_SSDT_FORBIDPROCESS_DELETE(c)
  \/ IOCTL_SSDT_CLAER_BLACK_ILST(c) \/ ClearBroken(c)
  \/ Compare(c) \/ Unlink(c) \/ Advance(c) \/ Deleted(c)

(* A caller moves, and the others stay as they were. *)
LEMMA CallAlone ==
  ASSUME TypeOK, NEW c \in Callers, NEW new, call' = [call EXCEPT ![c] = new]
  PROVE  call'[c] = new /\ \A o \in Callers \ {c} : call'[o] = call[o]
BY DEF TypeOK

(* Where the first look at an array leads. *)
LEMMA LookLeads ==
  ASSUME NEW k \in Kinds, NEW p \in PIDs \union {0}
  PROVE  /\ InsertInto(k, p).at \in {"idle", "insert", "grow"}
         /\ InsertInto(k, p).at # "idle" => InsertInto(k, p).pid = p
         /\ RemoveFrom(k, p).at \in {"idle", "remove", "shrink"}
         /\ AfterArray("insert", k, p).at \in {"idle", "insert"}
         /\ AfterArray("insert", k, p).at # "idle" => AfterArray("insert", k, p).pid = p
         /\ AfterArray("remove", k, p).at \in {"idle", "remove"}
<1>1. NoCall \in CallState /\ NoCall.at = "idle"
  BY NoCallType DEF NoCall
<1>2. /\ AfterArray("insert", k, p).at \in {"idle", "insert"}
      /\ AfterArray("insert", k, p).at # "idle" => AfterArray("insert", k, p).pid = p
      /\ AfterArray("remove", k, p).at \in {"idle", "remove"}
  BY <1>1 DEF AfterArray, CallState
<1>3. /\ InsertInto(k, p).at \in {"idle", "insert", "grow"}
      /\ InsertInto(k, p).at # "idle" => InsertInto(k, p).pid = p
  BY <1>1, <1>2 DEF InsertInto, CallState
<1>4. RemoveFrom(k, p).at \in {"idle", "remove", "shrink"}
  BY <1>1, <1>2 DEF RemoveFrom, CallState
<1> QED
  BY <1>2, <1>3, <1>4

(* What the arrays hold, and what is about to be stored there, was added.  *)
SlotsFromAdded == \A k \in Kinds, i \in Slots : arr[k][i] \in added \union {0}
CallFromAdded(c) ==
  /\ call[c].at \in {"insert", "grow", "insertStores"} => call[c].pid \in added
  /\ call[c].at \in {"insertStores", "removeStores"} => call[c].word \in added \union {0}
ArraysFromAdded == overrun \/ (SlotsFromAdded /\ \A c \in Callers : CallFromAdded(c))

LEMMA ArrayStep ==
  ASSUME TypeOK, ArraysFromAdded, NEW c \in Callers, ArrayAction(c)
  PROVE  ArraysFromAdded'
<1>0. call[c] \in CallState /\ call[c].kind \in Kinds /\ call[c].pid \in PIDs \union {0}
      /\ "protect" \in Kinds /\ "hide" \in Kinds
  BY DEF TypeOK, CallState, Kinds
<1>1. CASE IOCTL_SSDT_ADD(c)
  <2>1. PICK p \in PIDs : call' = [call EXCEPT ![c] = InsertInto("protect", p)] /\ added' = added \union {p}
    BY <1>1 DEF IOCTL_SSDT_ADD, Send
  <2>2. UNCHANGED <<arr, overrun>>
    BY <1>1 DEF IOCTL_SSDT_ADD, arrayVars
  <2> QED
    BY <1>0, <2>1, <2>2, CallAlone, LookLeads DEF ArraysFromAdded, SlotsFromAdded, CallFromAdded
<1>2. CASE IOCTL_SSDT_DELETE(c)
  <2>1. PICK p \in PIDs : call' = [call EXCEPT ![c] = RemoveFrom("protect", p)]
    BY <1>2 DEF IOCTL_SSDT_DELETE, Send
  <2>2. UNCHANGED <<arr, overrun, added>>
    BY <1>2 DEF IOCTL_SSDT_DELETE, arrayVars
  <2> QED
    BY <1>0, <2>1, <2>2, CallAlone, LookLeads DEF ArraysFromAdded, SlotsFromAdded, CallFromAdded
<1>3. CASE InsertHideProcess(c)
  <2>1. call' = [call EXCEPT ![c] = InsertInto("hide", call[c].pid)] /\ call[c].at = "insert"
    BY <1>3 DEF InsertHideProcess
  <2>2. UNCHANGED <<arr, overrun, added>>
    BY <1>3 DEF InsertHideProcess, arrayVars
  <2> QED
    BY <1>0, <2>1, <2>2, CallAlone, LookLeads DEF ArraysFromAdded, SlotsFromAdded, CallFromAdded
<1>4. CASE RemoveHideProcess(c)
  <2>1. call' = [call EXCEPT ![c] = RemoveFrom("hide", call[c].pid)]
    BY <1>4 DEF RemoveHideProcess
  <2>2. UNCHANGED <<arr, overrun, added>>
    BY <1>4 DEF RemoveHideProcess, arrayVars
  <2> QED
    BY <1>0, <2>1, <2>2, CallAlone, LookLeads DEF ArraysFromAdded, SlotsFromAdded, CallFromAdded
<1>5. CASE Grow(c)
  <2> DEFINE n == len[call[c].kind]
             new == [call[c] EXCEPT !.at = "insertStores", !.slot = n, !.word = call[c].pid,
                       !.newLen = (n + 1) % Word, !.todo = {"len", "element"}]
  <2>1. call' = [call EXCEPT ![c] = new] /\ call[c].at = "grow"
    BY <1>5 DEF Grow
  <2>2. new.at = "insertStores" /\ new.pid = call[c].pid /\ new.word = call[c].pid
    BY <1>0 DEF CallState
  <2>3. UNCHANGED <<arr, overrun, added>>
    BY <1>5 DEF Grow, arrayVars
  <2> HIDE DEF new
  <2> QED
    BY <2>1, <2>2, <2>3, CallAlone DEF ArraysFromAdded, SlotsFromAdded, CallFromAdded
<1>6. CASE Shrink(c)
  <2> DEFINE n == len[call[c].kind]
             new(w) == [call[c] EXCEPT !.at = "removeStores", !.word = w,
                          !.newLen = (n + Word - 1) % Word, !.todo = {"len", "element"}]
  <2>1. PICK w \in WordAt(call[c].kind, n) : call' = [call EXCEPT ![c] = new(w)]
    BY <1>6 DEF Shrink
  <2>2. new(w).at = "removeStores" /\ new(w).word = w
    BY <1>0 DEF CallState
  <2>3. UNCHANGED <<arr, added>> /\ overrun' = (overrun \/ n \notin Slots)
    BY <1>6 DEF Shrink
  <2>4. n \in Slots => w = arr[call[c].kind][n]
    BY <2>1 DEF WordAt
  <2> HIDE DEF new, n
  <2>5. CASE n \in Slots /\ ~overrun
    <3>1. w \in added \union {0} /\ SlotsFromAdded'
      BY <1>0, <2>3, <2>4, <2>5 DEF ArraysFromAdded, SlotsFromAdded
    <3>2. CallFromAdded(c)'
      BY <2>1, <2>2, <2>3, <3>1, CallAlone DEF CallFromAdded
    <3>3. ASSUME NEW d \in Callers \ {c}
          PROVE  CallFromAdded(d)'
      <4>1. call'[d] = call[d] /\ CallFromAdded(d)
        BY <2>1, <2>5, CallAlone DEF ArraysFromAdded
      <4> QED
        BY <2>3, <4>1 DEF CallFromAdded
    <3> QED
      BY <3>1, <3>2, <3>3 DEF ArraysFromAdded
  <2> QED
    BY <2>3, <2>5 DEF ArraysFromAdded
<1>7. ASSUME NEW s, call' = [call EXCEPT ![c] = AfterStore(c, s)],
             call[c].at \in {"insertStores", "removeStores"}
      PROVE  \A d \in Callers :
               \/ call'[d].at = call[d].at /\ call'[d].pid = call[d].pid /\ call'[d].word = call[d].word
               \/ /\ d = c /\ call'[d].at \in {"idle", "insert", "remove"}
                  /\ call'[d].at = "insert" => call[c].at = "insertStores" /\ call'[d].pid = call[c].pid
  <2>1. CASE call[c].todo # {s}
    <3> DEFINE new == [call[c] EXCEPT !.todo = @ \ {s}]
    <3>1. call' = [call EXCEPT ![c] = new]
      BY <1>7, <2>1 DEF AfterStore
    <3>2. new.at = call[c].at /\ new.pid = call[c].pid /\ new.word = call[c].word
      BY <1>0 DEF CallState
    <3> HIDE DEF new
    <3> QED
      BY <3>1, <3>2, CallAlone
  <2>2. CASE call[c].todo = {s}
    <3>1. call' = [call EXCEPT ![c] = AfterArray(IF call[c].at = "insertStores" THEN "insert" ELSE "remove",
                     call[c].kind, call[c].pid)]
      BY <1>7, <2>2 DEF AfterStore
    <3> QED
      BY <1>0, <1>7, <3>1, CallAlone, LookLeads
  <2> QED
    BY <2>1, <2>2
<1>8. ASSUME call[c].at \in {"insertStores", "removeStores"}, UNCHANGED added,
             \E t \in {"element", "len"} : call' = [call EXCEPT ![c] = AfterStore(c, t)],
             \A e \in Callers : CallFromAdded(e), NEW d \in Callers
      PROVE  CallFromAdded(d)'
  <2>1. CallFromAdded(c) /\ CallFromAdded(d)
    BY <1>8
  <2>2. \/ call'[d].at = call[d].at /\ call'[d].pid = call[d].pid /\ call'[d].word = call[d].word
        \/ /\ d = c /\ call'[d].at \in {"idle", "insert", "remove"}
           /\ call'[d].at = "insert" => call[c].at = "insertStores" /\ call'[d].pid = call[c].pid
    BY <1>7, <1>8
  <2> QED
    BY <1>8, <2>1, <2>2 DEF CallFromAdded
<1>9. CASE StoreElement(c)
  <2>1. call' = [call EXCEPT ![c] = AfterStore(c, "element")]
        /\ call[c].at \in {"insertStores", "removeStores"}
    BY <1>9 DEF StoreElement
  <2>2. /\ UNCHANGED added /\ overrun' = (overrun \/ call[c].slot \notin Slots)
        /\ arr' = IF call[c].slot \in Slots
                  THEN [arr EXCEPT ![call[c].kind][call[c].slot] = call[c].word] ELSE arr
    BY <1>9 DEF StoreElement
  <2>3. CASE overrun
    BY <2>2, <2>3 DEF ArraysFromAdded
  <2>4. CASE ~overrun
    <3>1. SlotsFromAdded /\ CallFromAdded(c) /\ \A e \in Callers : CallFromAdded(e)
      BY <2>4 DEF ArraysFromAdded
    <3>2. call[c].word \in added \union {0}
      BY <2>1, <3>1 DEF CallFromAdded
    <3>3. SlotsFromAdded'
      BY <1>0, <2>2, <3>1, <3>2 DEF SlotsFromAdded, TypeOK
    <3>4. \A d \in Callers : CallFromAdded(d)'
      BY <1>8, <2>1, <2>2, <3>1
    <3> QED
      BY <3>3, <3>4 DEF ArraysFromAdded
  <2> QED
    BY <2>3, <2>4
<1>10. CASE StoreLen(c)
  <2>1. call' = [call EXCEPT ![c] = AfterStore(c, "len")]
        /\ call[c].at \in {"insertStores", "removeStores"}
    BY <1>10 DEF StoreLen
  <2>2. UNCHANGED <<arr, overrun, added>>
    BY <1>10 DEF StoreLen
  <2>3. CASE overrun
    BY <2>2, <2>3 DEF ArraysFromAdded
  <2>4. CASE ~overrun
    <3>1. SlotsFromAdded /\ \A e \in Callers : CallFromAdded(e)
      BY <2>4 DEF ArraysFromAdded
    <3>2. SlotsFromAdded'
      BY <2>2, <3>1 DEF SlotsFromAdded
    <3>3. \A d \in Callers : CallFromAdded(d)'
      BY <1>8, <2>1, <2>2, <3>1
    <3> QED
      BY <3>2, <3>3 DEF ArraysFromAdded
  <2> QED
    BY <2>3, <2>4
<1> QED
  BY <1>1, <1>2, <1>3, <1>4, <1>5, <1>6, <1>9, <1>10 DEF ArrayAction

(* The ioctls for the list leave the arrays, and who is at them, alone. *)
LEMMA ListLeavesArrays ==
  ASSUME TypeOK, NEW c \in Callers, ListAction(c)
  PROVE  /\ UNCHANGED <<arr, len, overrun, added, hook>>
         /\ \A d \in Callers :
              \/ call'[d].at \in {"idle", "compare", "unlink", "advance", "deleted"}
              \/ call'[d].at = call[d].at /\ call'[d].pid = call[d].pid /\ call'[d].word = call[d].word
<1>0. call[c] \in CallState /\ NoCall \in CallState /\ NoCall.at = "idle"
  BY NoCallType DEF TypeOK, NoCall
<1>1. UNCHANGED <<arr, len, overrun, added, hook>>
  BY DEF ListAction, IOCTL_SSDT_FORBIDPROCESS_ADD, IOCTL_SSDT_FORBIDPROCESS_DELETE,
     IOCTL_SSDT_CLAER_BLACK_ILST, ClearBroken, Compare, Unlink, Advance, Deleted, arrayVars
<1>2. ASSUME NEW gone, NEW d \in Callers
      PROVE  Excused(gone)[d].at = call[d].at /\ Excused(gone)[d].pid = call[d].pid
             /\ Excused(gone)[d].word = call[d].word /\ Excused(gone)[d] \in CallState
  <2>1. Excused(gone)[d] = [call[d] EXCEPT !.due = @ \ gone] /\ call[d] \in CallState
    BY DEF Excused, TypeOK
  <2> QED
    BY <2>1, ExcusedType DEF CallState
<1>3. CASE IOCTL_SSDT_FORBIDPROCESS_ADD(c) \/ Deleted(c)
  <2>1. call' = [call EXCEPT ![c] = NoCall]
    BY <1>3 DEF IOCTL_SSDT_FORBIDPROCESS_ADD, Send, Deleted
  <2> QED
    BY <1>0, <1>1, <2>1, CallAlone
<1>4. CASE IOCTL_SSDT_FORBIDPROCESS_DELETE(c)
  <2>1. PICK n \in Names : call' = [call EXCEPT ![c] =
          IF flink[ListHead] = ListHead THEN NoCall
          ELSE [NoCall EXCEPT !.at = "compare", !.name = n, !.entry = flink[ListHead],
                  !.due = {b \in Range(listed) : <<n, name[b]>> \in Starts}]]
    BY <1>4 DEF IOCTL_SSDT_FORBIDPROCESS_DELETE, Send
  <2> DEFINE new == [NoCall EXCEPT !.at = "compare", !.name = n, !.entry = flink[ListHead],
                  !.due = {b \in Range(listed) : <<n, name[b]>> \in Starts}]
  <2>2. new.at = "compare"
    BY <1>0 DEF CallState
  <2>3. call' = [call EXCEPT ![c] = NoCall] \/ call' = [call EXCEPT ![c] = new]
    BY <2>1
  <2> HIDE DEF new
  <2> QED
    BY <1>0, <1>1, <2>2, <2>3, CallAlone
<1>5. CASE IOCTL_SSDT_CLAER_BLACK_ILST(c)
  <2>1. ASSUME NEW d \in Callers
        PROVE  call'[d].at = call[d].at /\ call'[d].pid = call[d].pid /\ call'[d].word = call[d].word
    <3>1. call'[d] = [Excused(Range(listed))[d] EXCEPT !.passed = @ \ Range(listed)]
      BY <1>5 DEF IOCTL_SSDT_CLAER_BLACK_ILST
    <3> QED
      BY <1>2, <3>1 DEF CallState
  <2> QED
    BY <1>1, <2>1
<1>9. CASE ClearBroken(c)
  <2>1. PICK tail \in SUBSET Blocks :
          \/ call' = call
          \/ call' = [d \in Callers |-> [Excused(Range(listed))[d] EXCEPT !.passed = @ \ tail]]
    BY <1>9, ClearsSome
  <2>2. ASSUME NEW d \in Callers
        PROVE  call'[d].at = call[d].at /\ call'[d].pid = call[d].pid /\ call'[d].word = call[d].word
    <3> DEFINE x == [Excused(Range(listed))[d] EXCEPT !.passed = @ \ tail]
    <3>1. x.at = call[d].at /\ x.pid = call[d].pid /\ x.word = call[d].word
      BY <1>2 DEF CallState
    <3>2. call'[d] = call[d] \/ call'[d] = x
      BY <2>1
    <3> HIDE DEF x
    <3> QED
      BY <3>1, <3>2
  <2> QED
    BY <1>1, <2>2
<1>6. CASE Compare(c)
  <2>1. PICK at \in {"unlink", "advance"} : call' = [call EXCEPT ![c] = [call[c] EXCEPT !.at = at]]
    BY <1>6 DEF Compare
  <2>2. [call[c] EXCEPT !.at = at].at = at
    BY <1>0 DEF CallState
  <2> QED
    BY <1>1, <2>1, <2>2, CallAlone
<1>7. CASE Unlink(c)
  <2> DEFINE E == Excused({call[c].entry})
  <2>1. call' = [E EXCEPT ![c] = [E[c] EXCEPT !.at = "advance"]] /\ E \in [Callers -> CallState]
    BY <1>7, ExcusedType DEF Unlink
  <2>2. [E[c] EXCEPT !.at = "advance"].at = "advance"
    BY <1>2 DEF CallState
  <2>3. \A d \in Callers : E[d].at = call[d].at /\ E[d].pid = call[d].pid /\ E[d].word = call[d].word
    BY <1>2
  <2> HIDE DEF E
  <2> QED
    BY <1>1, <2>1, <2>2, <2>3
<1>8. CASE Advance(c)
  <2> DEFINE done == [NoCall EXCEPT !.at = "deleted", !.due = call[c].due]
             next == [call[c] EXCEPT !.at = "compare", !.entry = flink[call[c].entry],
                        !.passed = @ \union {call[c].entry}]
  <2>1. call' = [call EXCEPT ![c] = done] \/ call' = [call EXCEPT ![c] = next]
    BY <1>8 DEF Advance
  <2>2. done.at = "deleted" /\ next.at = "compare"
    BY <1>0 DEF CallState
  <2> HIDE DEF done, next
  <2> QED
    BY <1>1, <2>1, <2>2, CallAlone
<1> QED
  BY <1>3, <1>4, <1>5, <1>6, <1>7, <1>8, <1>9 DEF ListAction

LEMMA AddedStep ==
  ASSUME TypeOK, ArraysFromAdded, ~undefined,
         HookAction \/ \E c \in Callers : ArrayAction(c) \/ ListAction(c)
  PROVE  ArraysFromAdded'
<1>1. ASSUME NEW c \in Callers, ListAction(c)
      PROVE  ArraysFromAdded'
  <2>1. CASE overrun
    BY <1>1, <2>1, ListLeavesArrays DEF ArraysFromAdded
  <2>2. CASE ~overrun
    <3>1. SlotsFromAdded'
      BY <1>1, <2>2, ListLeavesArrays DEF ArraysFromAdded, SlotsFromAdded
    <3>2. ASSUME NEW d \in Callers
          PROVE  CallFromAdded(d)'
      BY <1>1, <2>2, ListLeavesArrays DEF ArraysFromAdded, CallFromAdded
    <3> QED
      BY <3>1, <3>2 DEF ArraysFromAdded
  <2> QED
    BY <2>1, <2>2
<1>2. CASE HookAction
  <2>1. UNCHANGED <<arr, overrun, added, call>>
    BY <1>2 DEF HookAction, HookStarts, HookStep, ScanNext, MyNtTerminateProcess, TerminateDecided,
     MyNtQuerySystemInformation, ProcessKept, ProcessHidden, CreateProcessNotifyEx, Match, Back,
     HookReturns, arrayVars
  <2> QED
    BY <2>1 DEF ArraysFromAdded, SlotsFromAdded, CallFromAdded
<1> QED
  BY <1>1, <1>2, ArrayStep

--------------------------------------------------------------------------
(* From steps to behaviours. *)

LEMMA ArrayLeavesHook ==
  ASSUME NEW c \in Callers, ArrayAction(c) \/ ListAction(c)
  PROVE  hook' = hook
BY DEF ArrayAction, IOCTL_SSDT_ADD, IOCTL_SSDT_DELETE, InsertHideProcess, RemoveHideProcess, Grow,
   Shrink, StoreElement, StoreLen, ListAction, IOCTL_SSDT_FORBIDPROCESS_ADD,
   IOCTL_SSDT_FORBIDPROCESS_DELETE, IOCTL_SSDT_CLAER_BLACK_ILST, ClearBroken, Compare, Unlink,
   Advance, Deleted

LEMMA StepKinds ==
  ASSUME Next
  PROVE  /\ ~undefined /\ Observe
         /\ HookAction \/ \E c \in Callers : ArrayAction(c) \/ ListAction(c)
BY DEF Next, HookAction, ArrayAction, ListAction, SSDTDeviceIoControlDispatcher, IoctlStep

(* Every variable keeps its type, and a query that scans stands at one of  *)
(* the positions of what the system service returned.                      *)
THEOREM TypeCorrect == Spec => [](TypeOK /\ QueryStands)
<1>1. Init => TypeOK /\ QueryStands
  <2> SUFFICES ASSUME Init
               PROVE  TypeOK /\ QueryStands
    OBVIOUS
  <2>1. 0 \in Words
    BY SsdtAssumption DEF Words
  <2>2. call \in [Callers -> CallState] /\ hook \in HookState
    BY NoCallType, NoHookType DEF Init
  <2>3. arr \in [Kinds -> [Slots -> PIDs \union {0}]] /\ len \in [Kinds -> Words] /\ calls \in [Subjects -> Nat]
    BY <2>1 DEF Init
  <2>4. flink \in [Entries -> Entries] /\ blink \in [Entries -> Entries] /\ name \in [Blocks -> Names \union {NoName}]
    BY DEF Init, Entries
  <2>5. listed \in Seq(Blocks) /\ freed \subseteq Blocks /\ added \subseteq PIDs
        /\ broken \in BOOLEAN /\ overrun \in BOOLEAN /\ undefined \in BOOLEAN
    BY EmptySeq DEF Init
  <2>6. QueryStands
    BY DEF Init, NoHook, QueryStands
  <2> QED
    BY <2>2, <2>3, <2>4, <2>5, <2>6 DEF TypeOK
<1>2. TypeOK /\ QueryStands /\ [Next]_vars => TypeOK' /\ QueryStands'
  <2> SUFFICES ASSUME TypeOK, QueryStands, [Next]_vars
               PROVE  TypeOK' /\ QueryStands'
    OBVIOUS
  <2>1. ASSUME NEW c \in Callers, ArrayAction(c) \/ ListAction(c)
        PROVE  TypeOK' /\ QueryStands'
    <3>1. TypeOK'
      BY <2>1, ArrayType, ListType DEF ArrayAction, ListAction
    <3>2. QueryStands'
      BY <2>1, ArrayLeavesHook DEF QueryStands
    <3> QED
      BY <3>1, <3>2
  <2>2. CASE UNCHANGED vars
    BY <2>2 DEF vars, arrayVars, listVars, TypeOK, QueryStands
  <2> QED
    BY <2>1, <2>2, StepKinds, HookType
<1> QED
  BY <1>1, <1>2, PTL DEF Spec

(* As long as no ULONG behind an array was touched, however the unlocked   *)
(* insertions and removals interleave, what an array holds was added.      *)
THEOREM OnlyAdded == Spec => []ListedWasAdded
<1>1. Init => ArraysFromAdded
  BY DEF Init, ArraysFromAdded, SlotsFromAdded, CallFromAdded, NoCall
<1>2. TypeOK /\ ArraysFromAdded /\ [Next]_vars => ArraysFromAdded'
  <2> SUFFICES ASSUME TypeOK, ArraysFromAdded, [Next]_vars
               PROVE  ArraysFromAdded'
    OBVIOUS
  <2>1. CASE UNCHANGED vars
    BY <2>1 DEF vars, arrayVars, ArraysFromAdded, SlotsFromAdded, CallFromAdded
  <2> QED
    BY <2>1, StepKinds, AddedStep
<1>3. ArraysFromAdded => ListedWasAdded
  BY DEF ArraysFromAdded, SlotsFromAdded, ListedWasAdded, Used
<1> QED
  BY <1>1, <1>2, <1>3, TypeCorrect, PTL DEF Spec

--------------------------------------------------------------------------
(* Scans. *)

(* The slots that have held the ID are ahead of a scan, and hold it.       *)
SteadyAhead ==
  IF hook.at = "scan"
  THEN \A i \in steady : /\ i \in Slots /\ hook.i <= i
                         /\ i < len[hook.kind] /\ arr[hook.kind][i] = hook.pid
  ELSE steady = {}

(* A scan that is running was begun, or has gone on by one slot. *)
LEMMA ScanStep ==
  ASSUME TypeOK, QueryStands, HookAction, hook'.at = "scan"
  PROVE  hook'.i = 0 \/ (ScanNext /\ hook' = [hook EXCEPT !.i = @ + 1])
<1>1. hook \in HookState
  BY DEF TypeOK
<1>2. CASE ScanNext
  BY <1>2 DEF ScanNext
<1>3. CASE MyNtTerminateProcess
  BY <1>3, NoHookType, StartScanType DEF MyNtTerminateProcess, Kinds
<1>4. CASE MyNtQuerySystemInformation
  <2> DEFINE g == StartScan(NoHook, "hide", Processes[1])
             nx == [i \in Positions |-> IF i = Len(Processes) THEN 0 ELSE i + 1]
  <2>1. g \in HookState /\ g.i = 0
    BY NoHookType, PositionsType, StartScanType DEF Kinds
  <2>2. hook' = [g EXCEPT !.curr = 1, !.next = nx]
    BY <1>4 DEF MyNtQuerySystemInformation
  <2> HIDE DEF g, nx
  <2> QED
    BY <2>1, <2>2 DEF HookState
<1>5. CASE ProcessKept
  <2>1. hook.curr \in Positions /\ hook.next \in [Positions -> 0 .. Len(Processes)]
    BY <1>5 DEF ProcessKept, QueryStands
  <2>2. hook' = NextProcess(hook)
    BY <1>5 DEF ProcessKept
  <2> QED
    BY <1>1, <2>1, <2>2, NextProcessType
<1>6. CASE ProcessHidden
  <2>1. hook.curr \in Positions /\ hook.next \in [Positions -> 0 .. Len(Processes)]
    BY <1>6 DEF ProcessHidden, QueryStands
  <2> DEFINE nx == IF hook.prev = 0 THEN hook.next ELSE [hook.next EXCEPT ![hook.prev] = hook.next[hook.curr]]
             g == [hook EXCEPT !.found = @ \union {hook.curr}, !.next = nx]
  <2>2. nx \in [Positions -> 0 .. Len(Processes)]
    BY <2>1
  <2>3. hook' = NextProcess(g)
    BY <1>6 DEF ProcessHidden
  <2> HIDE DEF nx
  <2>4. g \in HookState /\ g.curr = hook.curr /\ g.next = nx
    BY <1>1, <2>1, <2>2 DEF HookState
  <2> HIDE DEF g
  <2> QED
    BY <2>1, <2>2, <2>3, <2>4, NextProcessType
<1>7. ASSUME TerminateDecided \/ CreateProcessNotifyEx \/ Match \/ Back \/ HookReturns
      PROVE  FALSE
  <2>1. CASE TerminateDecided
    BY <1>1, <2>1 DEF TerminateDecided, HookState
  <2>2. CASE CreateProcessNotifyEx
    BY <2>2, NoHookType DEF CreateProcessNotifyEx, HookState
  <2>3. CASE Match
    BY <1>1, <2>3 DEF Match, HookState
  <2>4. CASE Back
    <3>1. PICK at \in {"created", "match"} : hook' = [hook EXCEPT !.at = at, !.entry = blink[hook.entry]]
      BY <2>4 DEF Back
    <3> QED
      BY <1>1, <3>1 DEF HookState
  <2>5. CASE HookReturns
    BY <2>5 DEF HookReturns, NoHook
  <2> QED
    BY <1>7, <2>1, <2>2, <2>3, <2>4, <2>5
<1> QED
  BY <1>2, <1>3, <1>4, <1>5, <1>6, <1>7 DEF HookAction, HookStarts, HookStep

LEMMA SteadyStep ==
  ASSUME TypeOK, QueryStands, SteadyAhead, TypeOK', Next
  PROVE  SteadyAhead'
<1>0. Observe
  BY StepKinds
<1>1. CASE hook'.at # "scan"
  BY <1>0, <1>1 DEF Observe, SteadyAhead
<1>2. CASE hook'.at = "scan"
  <2> SUFFICES ASSUME NEW i \in steady'
               PROVE  /\ i \in Slots /\ hook'.i <= i
                      /\ i < len'[hook'.kind] /\ arr'[hook'.kind][i] = hook'.pid
    BY <1>2 DEF SteadyAhead
  <2>1. /\ i \in IF hook'.i = 0 /\ hook' # hook THEN Slots ELSE steady
        /\ i < len'[hook'.kind] /\ arr'[hook'.kind][i] = hook'.pid
    BY <1>0, <1>2 DEF Observe
  <2>2. i \in Slots /\ hook'.i <= i
    <3>1. CASE hook'.i = 0 /\ hook' # hook
      BY <2>1, <3>1 DEF Slots
    <3>2. CASE hook' = hook
      BY <1>2, <2>1, <3>2 DEF SteadyAhead
    <3>3. CASE hook'.i # 0 /\ hook' # hook
      <4>1. HookAction
        BY <3>3, StepKinds, ArrayLeavesHook
      <4>2. ScanNext /\ hook' = [hook EXCEPT !.i = @ + 1]
        BY <1>2, <3>3, <4>1, ScanStep
      <4>3. i \in steady /\ hook.at = "scan" /\ ~ScanFinds
        BY <2>1, <3>3, <4>2 DEF ScanNext
      <4>4. i \in Slots /\ hook.i <= i /\ i < len[hook.kind] /\ arr[hook.kind][i] = hook.pid
        BY <4>3 DEF SteadyAhead
      <4>5. hook.i # i
        BY <4>3, <4>4 DEF ScanFinds, Used
      <4>6. hook.i \in Nat /\ i \in Nat /\ hook'.i = hook.i + 1
        BY <4>2, <4>4 DEF TypeOK, HookState, Slots
      <4> QED
        BY <4>4, <4>5, <4>6
    <3> QED
      BY <3>1, <3>2, <3>3
  <2> QED
    BY <2>1, <2>2
<1> QED
  BY <1>1, <1>2

(* A scan that finds nothing had nothing to find: no slot held the ID from *)
(* its beginning to its end, whoever changed the array meanwhile.          *)
THEOREM NoneOverlooked == Spec => []SteadyIsFound
<1>1. Init => SteadyAhead
  BY DEF Init, SteadyAhead, NoHook
<1>2. TypeOK /\ QueryStands /\ SteadyAhead /\ TypeOK' /\ [Next]_vars => SteadyAhead'
  <2>1. ASSUME SteadyAhead, UNCHANGED vars
        PROVE  SteadyAhead'
    BY <2>1 DEF vars, arrayVars, SteadyAhead
  <2> QED
    BY <2>1, SteadyStep
<1>3. TypeOK /\ SteadyAhead => SteadyIsFound
  <2> SUFFICES ASSUME TypeOK, SteadyAhead, hook.at = "scan", hook.pid # 0, ScanFails, NEW i \in steady
               PROVE  FALSE
    BY DEF SteadyIsFound
  <2>1. i \in Slots /\ hook.i <= i /\ i < len[hook.kind]
    BY DEF SteadyAhead
  <2>2. hook.i \in Nat /\ i \in Nat /\ len[hook.kind] \in Nat /\ MaxLength \in Nat
    BY <2>1, SsdtAssumption DEF TypeOK, HookState, Slots, Words
  <2>3. hook.i \in Slots /\ hook.i < len[hook.kind]
    BY <2>1, <2>2 DEF Slots
  <2> QED
    BY <2>3 DEF ScanFails, Used
<1> QED
  BY <1>1, <1>2, <1>3, TypeCorrect, PTL DEF Spec

--------------------------------------------------------------------------
(* What a query shows. *)

(* The position after i in what the system service returned, 0 for none.   *)
After(i) == IF i = Len(Processes) THEN 0 ELSE i + 1

(* Every entry leads to the one behind it, or past it if the scan found    *)
(* that one, whether or not the entry itself can still be come to.         *)
Relinked(h) == \A i \in Positions :
  h.next[i] = IF i + 1 \in h.found THEN After(i + 1) ELSE After(i)

QueryRelinks ==
  /\ (hook.at = "scan" /\ hook.kind = "hide") =>
       hook.prev = hook.curr - 1 /\ hook.found \subseteq 1 .. hook.curr - 1 /\ Relinked(hook)
  /\ hook.at = "returned" => hook.found \subseteq Positions /\ Relinked(hook)

(* The next entry of a query, after what the current one was found to be.  *)
LEMMA NextRelinks ==
  ASSUME NEW h \in HookState, h.curr \in Positions, h.at = "scan", h.kind = "hide",
         h.next \in [Positions -> 0 .. Len(Processes)],
         h.found \subseteq 1 .. h.curr, Relinked(h), NEW g, g = NextProcess(h)
  PROVE  /\ (g.at = "scan" /\ g.kind = "hide") =>
              g.prev = g.curr - 1 /\ g.found \subseteq 1 .. g.curr - 1 /\ Relinked(g)
         /\ g.at = "returned" => g.found \subseteq Positions /\ Relinked(g)
<1>1. h.next[h.curr] = After(h.curr)
  <2>1. h.next[h.curr] = IF h.curr + 1 \in h.found THEN After(h.curr + 1) ELSE After(h.curr)
    BY DEF Relinked
  <2>2. h.curr \in Nat /\ h.curr + 1 \notin 1 .. h.curr
    BY PositionsType
  <2> QED BY <2>1, <2>2
<1>2. CASE h.next[h.curr] = 0
  <2>1. g.found = h.found /\ g.next = h.next /\ g.at = "returned"
    BY <1>2 DEF NextProcess, HookState
  <2>2. g.found \subseteq Positions
    BY <2>1, PositionsType
  <2> QED
    BY <2>1, <2>2 DEF Relinked
<1>3. CASE h.next[h.curr] # 0
  <2> DEFINE n == h.next[h.curr]
             s == StartScan(h, "hide", Processes[n])
  <2>1. n = h.curr + 1 /\ n \in Positions
    BY <1>1, <1>3, PositionsType DEF After
  <2>2. s \in HookState /\ s.next = h.next /\ s.found = h.found /\ s.at = "scan"
    <3>1. s \in HookState /\ s.next = h.next /\ s.at = "scan"
      BY <2>1, PositionsType, StartScanType DEF Kinds
    <3>2. s.found = h.found
      BY DEF StartScan, HookState
    <3> QED
      BY <3>1, <3>2
  <2>3. g = [s EXCEPT !.prev = h.curr, !.curr = n]
    BY <1>3 DEF NextProcess
  <2> HIDE DEF s, n
  <2>4. g.prev = h.curr /\ g.curr = n /\ g.next = h.next /\ g.found = h.found /\ g.at = "scan"
    BY <2>2, <2>3 DEF HookState
  <2>5. g.prev = g.curr - 1 /\ g.found \subseteq 1 .. g.curr - 1
    BY <2>1, <2>4, PositionsType
  <2> QED
    BY <2>4, <2>5 DEF Relinked
<1> QED
  BY <1>2, <1>3

LEMMA RelinksStep ==
  ASSUME TypeOK, QueryStands, QueryRelinks, [Next]_vars
  PROVE  QueryRelinks'
<1>0. hook \in HookState
  BY DEF TypeOK
<1>1. CASE UNCHANGED hook
  BY <1>1 DEF QueryRelinks, Relinked
<1>2. CASE MyNtQuerySystemInformation
  <2> DEFINE s == StartScan(NoHook, "hide", Processes[1])
             t == [i \in Positions |-> IF i = Len(Processes) THEN 0 ELSE i + 1]
  <2>1. s \in HookState /\ s.at = "scan" /\ s.prev = 0 /\ s.found = {}
    BY NoHookType, PositionsType, StartScanType DEF StartScan, NoHook, Kinds
  <2>2. hook' = [s EXCEPT !.curr = 1, !.next = t]
    BY <1>2 DEF MyNtQuerySystemInformation
  <2> HIDE DEF s
  <2>3. /\ hook'.at = "scan" /\ hook'.prev = 0 /\ hook'.found = {} /\ hook'.curr = 1
        /\ hook'.next = t
    BY <2>1, <2>2 DEF HookState
  <2>4. hook'.found \subseteq 1 .. hook'.curr - 1 /\ hook'.prev = hook'.curr - 1
    BY <2>3
  <2>5. Relinked(hook')
    BY <2>3 DEF Relinked, After
  <2> QED
    BY <2>3, <2>4, <2>5 DEF QueryRelinks, Relinked
<1>3. CASE ScanNext
  <2>1. /\ hook'.at = hook.at /\ hook'.kind = hook.kind /\ hook'.prev = hook.prev
        /\ hook'.curr = hook.curr /\ hook'.found = hook.found /\ hook'.next = hook.next
    BY <1>0, <1>3 DEF ScanNext, HookState
  <2> QED
    BY <2>1 DEF QueryRelinks, Relinked
<1>4. CASE ProcessKept
  <2>1. hook.at = "scan" /\ hook.kind = "hide" /\ hook' = NextProcess(hook)
    BY <1>4 DEF ProcessKept
  <2>2. hook.curr \in Positions /\ hook.next \in [Positions -> 0 .. Len(Processes)]
    BY <2>1 DEF QueryStands
  <2>3. hook.found \subseteq 1 .. hook.curr /\ Relinked(hook)
    BY <2>1, <2>2, PositionsType DEF QueryRelinks
  <2> QED
    BY <1>0, <2>1, <2>2, <2>3, NextRelinks DEF QueryRelinks, Relinked
<1>5. CASE ProcessHidden
  <2> DEFINE t == IF hook.prev = 0 THEN hook.next
                  ELSE [hook.next EXCEPT ![hook.prev] = hook.next[hook.curr]]
             h == [hook EXCEPT !.found = @ \union {hook.curr},
                     !.next = IF hook.prev = 0 THEN @
                              ELSE [@ EXCEPT ![hook.prev] = hook.next[hook.curr]]]
  <2>1. hook.at = "scan" /\ hook.kind = "hide" /\ hook' = NextProcess(h)
    BY <1>5 DEF ProcessHidden
  <2>2. hook.curr \in Positions /\ hook.next \in [Positions -> 0 .. Len(Processes)]
    BY <2>1 DEF QueryStands
  <2>3. /\ hook.prev = hook.curr - 1 /\ hook.found \subseteq 1 .. hook.curr - 1
        /\ Relinked(hook) /\ hook.found \subseteq Positions
    BY <2>1, <2>2, PositionsType DEF QueryRelinks
  <2>4. hook.next[hook.curr] = After(hook.curr)
    <3>1. hook.next[hook.curr] = IF hook.curr + 1 \in hook.found
                                 THEN After(hook.curr + 1) ELSE After(hook.curr)
      BY <2>2, <2>3 DEF Relinked
    <3>2. hook.curr \in Nat /\ hook.curr + 1 \notin 1 .. hook.curr - 1
      BY <2>2, PositionsType
    <3> QED BY <2>3, <3>1, <3>2
  <2>5. t \in [Positions -> 0 .. Len(Processes)]
    BY <2>2
  <2>6. /\ h.at = "scan" /\ h.kind = "hide" /\ h.curr = hook.curr /\ h.next = t
        /\ h.found = hook.found \union {hook.curr}
    BY <1>0, <2>1 DEF HookState
  <2>7. h \in HookState
    BY <1>0, <2>2, <2>3, <2>5, <2>6 DEF HookState
  <2>8. Relinked(h)
    <3> SUFFICES ASSUME NEW i \in Positions
                 PROVE  t[i] = IF i + 1 \in hook.found \union {hook.curr} THEN After(i + 1) ELSE After(i)
      BY <2>6 DEF Relinked
    <3>1. hook.next[i] = IF i + 1 \in hook.found THEN After(i + 1) ELSE After(i)
      BY <2>3 DEF Relinked
    <3>2. i \in Nat \ {0} /\ hook.curr \in Nat \ {0}
      BY <2>2, PositionsType
    <3>3. CASE i + 1 = hook.curr
      <4>1. i = hook.prev /\ hook.prev # 0
        BY <2>3, <3>2, <3>3
      <4> QED
        BY <2>2, <2>4, <3>3, <4>1
    <3>4. CASE i + 1 # hook.curr
      <4>1. i # hook.prev
        BY <2>3, <3>2, <3>4
      <4>2. t[i] = hook.next[i]
        BY <2>2, <4>1
      <4> QED
        BY <3>1, <3>4, <4>2
    <3> QED
      BY <3>3, <3>4
  <2>9. h.found \subseteq 1 .. h.curr
    BY <2>2, <2>3, <2>6, PositionsType
  <2>10. h.curr \in Positions /\ h.next \in [Positions -> 0 .. Len(Processes)]
    BY <2>2, <2>5, <2>6
  <2> HIDE DEF h, t
  <2> QED
    BY <2>1, <2>6, <2>7, <2>8, <2>9, <2>10, NextRelinks DEF QueryRelinks, Relinked
<1>6. CASE \/ MyNtTerminateProcess \/ TerminateDecided \/ CreateProcessNotifyEx \/ Match \/ Back
           \/ HookReturns
  <2>1. ~(hook'.at = "scan" /\ hook'.kind = "hide") /\ hook'.at # "returned"
    <3>1. CASE MyNtTerminateProcess
      BY <1>0, <3>1, NoHookType DEF MyNtTerminateProcess, StartScan, HookState
    <3>2. CASE CreateProcessNotifyEx
      BY <1>0, <3>2, NoHookType DEF CreateProcessNotifyEx, HookState
    <3>3. CASE TerminateDecided \/ Match \/ Back
      BY <1>0, <3>3 DEF TerminateDecided, Match, Back, HookState
    <3>4. CASE HookReturns
      BY <3>4 DEF HookReturns, NoHook
    <3> QED BY <1>6, <3>1, <3>2, <3>3, <3>4
  <2> QED BY <2>1 DEF QueryRelinks
<1>7. ASSUME NEW c \in Callers, ArrayAction(c) \/ ListAction(c)
      PROVE  UNCHANGED hook
  BY <1>7, ArrayLeavesHook
<1> QED
  BY <1>1, <1>2, <1>3, <1>4, <1>5, <1>6, <1>7, StepKinds DEF HookAction, HookStarts, HookStep, vars

(* Disappears is defined: there is the function its recursion describes.   *)
Gone(g) == g = [i \in Positions |-> i > 1 /\ i \in hook.found /\ ~g[i - 1]]

LEMMA GoneExists == \E g : Gone(g)
<1> DEFINE Upto(n) == \E g : g = [i \in 1 .. n |-> i > 1 /\ i \in hook.found /\ ~g[i - 1]]
           Bad == {n \in Nat : ~Upto(n)}
<1>1. Bad = {}
  <2> SUFFICES ASSUME Bad # {}
               PROVE  FALSE
    OBVIOUS
  <2>1. PICK n \in Bad : \A m \in Bad : n <= m
    <3>1. Bad \subseteq Nat
      OBVIOUS
    <3> HIDE DEF Bad
    <3> QED
      BY <3>1, SmallestExists
  <2>2. CASE n = 0
    <3>1. 1 .. n = {}
      BY <2>2
    <3> DEFINE g == [i \in {} |-> FALSE]
    <3>2. g = [i \in 1 .. n |-> i > 1 /\ i \in hook.found /\ ~g[i - 1]]
      BY <3>1
    <3> QED
      BY <3>2
  <2>3. CASE n # 0
    <3>1. n - 1 \in Nat /\ n - 1 \notin Bad
      BY <2>1, <2>3
    <3>2. PICK g : g = [i \in 1 .. n - 1 |-> i > 1 /\ i \in hook.found /\ ~g[i - 1]]
      BY <3>1
    <3> DEFINE f == [i \in 1 .. n |-> i > 1 /\ i \in hook.found /\ ~g[i - 1]]
    <3>3. f = [i \in 1 .. n |-> i > 1 /\ i \in hook.found /\ ~f[i - 1]]
      <4>1. \A i \in 1 .. n : i > 1 => i - 1 \in 1 .. n - 1 /\ i - 1 \in 1 .. n
        BY <3>1
      <4>2. \A i \in 1 .. n - 1 : g[i] = (i > 1 /\ i \in hook.found /\ ~g[i - 1])
        BY <3>2
      <4>3. \A i \in 1 .. n - 1 : f[i] = g[i]
        BY <3>1, <4>2
      <4> HIDE DEF f
      <4>4. \A i \in 1 .. n : (i > 1 /\ i \in hook.found /\ ~g[i - 1]) = (i > 1 /\ i \in hook.found /\ ~f[i - 1])
        BY <4>1, <4>3
      <4> QED
        BY <4>4 DEF f
    <3> QED
      BY <2>1, <3>3
  <2> QED
    BY <2>2, <2>3
<1> QED
  BY <1>1, PositionsType DEF Gone

(* And so is Shown, whatever leads where.                                  *)
Reached(f) == f = [i \in Positions |-> i = 1 \/ \E j \in 1 .. i - 1 : f[j] /\ hook.next[j] = i]

(* Followed from the first entry, the offsets lead to what has not         *)
(* disappeared and to nothing else.                                        *)
LEMMA NotGoneIsReached ==
  ASSUME Relinked(hook), NEW g, Gone(g), NEW i \in Positions, NEW f,
         \A j \in 1 .. i - 1 : f[j] <=> ~g[j]
  PROVE  ~g[i] <=> (i = 1 \/ \E j \in 1 .. i - 1 : f[j] /\ hook.next[j] = i)
<1>1. \A j \in Positions : g[j] <=> (j > 1 /\ j \in hook.found /\ ~g[j - 1])
  BY DEF Gone
<1>2. i \in Nat \ {0} /\ i <= Len(Processes) /\ \A j \in 1 .. i - 1 : j \in Positions /\ j \in Nat \ {0}
  BY PositionsType
<1>3. CASE i = 1
  BY <1>1, <1>3
<1>4. CASE i > 1 /\ g[i]
  <2>1. i \in hook.found /\ ~g[i - 1]
    BY <1>1, <1>4
  <2> SUFFICES ASSUME NEW j \in 1 .. i - 1, f[j], hook.next[j] = i
               PROVE  FALSE
    BY <1>4
  <2>2. j \in Positions /\ j \in Nat \ {0} /\ j < i /\ j # Len(Processes)
    BY <1>2
  <2>3. hook.next[j] = IF j + 1 \in hook.found THEN After(j + 1) ELSE After(j)
    BY <2>2 DEF Relinked
  <2>4. CASE j + 1 = i
    <3>1. hook.next[j] = After(i)
      BY <2>1, <2>3, <2>4
    <3> QED
      BY <1>2, <3>1 DEF After
  <2>5. CASE j + 1 # i
    <3>1. j + 1 \in hook.found /\ After(j + 1) = i
      BY <1>2, <2>2, <2>3, <2>5 DEF After
    <3>2. j + 2 = i
      BY <1>2, <2>2, <3>1 DEF After
    <3>3. ~g[j] /\ j + 1 = i - 1 /\ i - 1 \in 1 .. i - 1
      BY <1>2, <2>2, <3>2
    <3>4. g[i - 1]
      BY <1>1, <1>2, <2>2, <3>1, <3>2, <3>3
    <3> QED
      BY <2>1, <3>4
  <2> QED
    BY <2>4, <2>5
<1>5. CASE i > 1 /\ ~g[i]
  <2>1. i - 1 \in Positions /\ i - 1 \in 1 .. i - 1 /\ i - 1 # Len(Processes) /\ (i - 1) + 1 = i
    BY <1>2, <1>5
  <2>2. CASE ~g[i - 1]
    <3>1. i \notin hook.found
      BY <1>1, <1>5, <2>2
    <3>2. hook.next[i - 1] = i
      BY <2>1, <3>1 DEF Relinked, After
    <3>3. f[i - 1]
      BY <2>1, <2>2
    <3> QED
      BY <1>5, <2>1, <3>2, <3>3
  <2>3. CASE g[i - 1]
    <3>1. i - 1 > 1 /\ i - 1 \in hook.found /\ ~g[i - 1 - 1]
      BY <1>1, <2>1, <2>3
    <3>2. /\ i - 2 \in Positions /\ i - 2 \in 1 .. i - 1 /\ (i - 2) + 1 = i - 1
          /\ i - 1 - 1 = i - 2
      BY <1>2, <3>1, PositionsType
    <3>3. hook.next[i - 2] = After(i - 1)
      BY <3>1, <3>2 DEF Relinked
    <3>4. hook.next[i - 2] = i
      BY <2>1, <3>3 DEF After
    <3>5. f[i - 2]
      BY <3>1, <3>2
    <3> QED
      BY <1>5, <3>2, <3>4, <3>5
  <2> QED
    BY <2>2, <2>3
<1> QED
  BY <1>2, <1>3, <1>4, <1>5

LEMMA ReachedIsNotGone ==
  ASSUME Relinked(hook), NEW g, Gone(g)
  PROVE  /\ \E f : Reached(f)
         /\ \A f : Reached(f) => \A i \in Positions : f[i] <=> ~g[i]
<1>1. \E f : Reached(f)
  <2> DEFINE f == [i \in Positions |-> ~g[i]]
  <2>1. ASSUME NEW i \in Positions
        PROVE  f[i] = (i = 1 \/ \E j \in 1 .. i - 1 : f[j] /\ hook.next[j] = i)
    <3>0. \A j \in 1 .. i - 1 : j \in Positions
      BY PositionsType
    <3>1. \A j \in 1 .. i - 1 : f[j] <=> ~g[j]
      BY <3>0
    <3>2. f[i] = ~g[i]
      OBVIOUS
    <3> HIDE DEF f
    <3>3. ~g[i] <=> (i = 1 \/ \E j \in 1 .. i - 1 : f[j] /\ hook.next[j] = i)
      BY <3>1, NotGoneIsReached
    <3> QED
      BY <3>2, <3>3
  <2>2. f = [i \in Positions |-> f[i]]
    OBVIOUS
  <2> HIDE DEF f
  <2>3. Reached(f)
    BY <2>1, <2>2 DEF Reached
  <2> QED
    BY <2>3
<1>2. ASSUME NEW f, Reached(f)
      PROVE  \A i \in Positions : f[i] <=> ~g[i]
  <2> DEFINE Bad == {i \in Positions : ~(f[i] <=> ~g[i])}
  <2> SUFFICES ASSUME Bad # {}
               PROVE  FALSE
    OBVIOUS
  <2>1. PICK i \in Bad : \A j \in Bad : i <= j
    <3>1. Bad \subseteq Nat
      BY PositionsType
    <3> HIDE DEF Bad
    <3> QED
      BY <3>1, SmallestExists
  <2>2. i \in Positions /\ \A j \in 1 .. i - 1 : j \in Positions /\ j \notin Bad
    BY <2>1, PositionsType
  <2>3. \A j \in 1 .. i - 1 : f[j] <=> ~g[j]
    BY <2>2
  <2>4. f[i] <=> (i = 1 \/ \E j \in 1 .. i - 1 : f[j] /\ hook.next[j] = i)
    BY <2>2, <1>2 DEF Reached
  <2>5. ~g[i] <=> (i = 1 \/ \E j \in 1 .. i - 1 : f[j] /\ hook.next[j] = i)
    BY <2>2, <2>3, NotGoneIsReached
  <2> QED
    BY <2>1, <2>4, <2>5
<1> QED
  BY <1>1, <1>2

(* Nobody disappears from a query unasked, and of a run of processes to be *)
(* hidden every other one does.                                            *)
THEOREM EveryOtherHidden == Spec => []HidesEveryOther
<1>1. Init => QueryRelinks
  BY DEF Init, NoHook, QueryRelinks
<1>2. TypeOK /\ QueryStands /\ QueryRelinks /\ [Next]_vars => QueryRelinks'
  BY RelinksStep
<1>3. QueryRelinks => HidesEveryOther
  <2> SUFFICES ASSUME Relinked(hook)
               PROVE  Shown = Positions \ Disappears
    BY DEF QueryRelinks, HidesEveryOther
  <2> DEFINE g == CHOOSE g : g = [i \in Positions |-> i > 1 /\ i \in hook.found /\ ~g[i - 1]]
             f == CHOOSE f : f = [i \in Positions |->
                               i = 1 \/ \E j \in 1 .. i - 1 : f[j] /\ hook.next[j] = i]
  <2>1. Disappears = {i \in Positions : g[i]} /\ Shown = {i \in Positions : f[i]}
    BY DEF Disappears, Shown
  <2>2. Gone(g)
    BY GoneExists DEF Gone
  <2> HIDE DEF g
  <2>3. Reached(f)
    BY <2>2, ReachedIsNotGone DEF Reached
  <2> HIDE DEF f
  <2> QED
    BY <2>1, <2>2, <2>3, ReachedIsNotGone
<1> QED
  BY <1>1, <1>2, <1>3, TypeCorrect, PTL DEF Spec

--------------------------------------------------------------------------
(* The list and its links. *)

(* Between two uses of memory that is gone: no block is in the list twice, *)
(* none of those in it is free, and the links are those of the list.       *)
ListSound ==
  /\ ~broken
  /\ \A i, j \in DOMAIN listed : listed[i] = listed[j] => i = j
  /\ \A i \in DOMAIN listed : listed[i] \notin freed /\ name[listed[i]] # NoName
  /\ \A i \in 0 .. Len(listed) : flink[Link(i)] = Link(i + 1) /\ blink[Link(i + 1)] = Link(i)

LEMMA LinkType ==
  ASSUME TypeOK
  PROVE  /\ Len(listed) \in Nat /\ DOMAIN listed = 1 .. Len(listed)
         /\ \A i \in 1 .. Len(listed) : Link(i) = listed[i] /\ Link(i) \in Blocks /\ Link(i) # ListHead
         /\ Link(0) = ListHead /\ Link(Len(listed) + 1) = ListHead
         /\ \A i \in Nat : Link(i) \in Entries
<1>1. listed \in Seq(Blocks)
  BY DEF TypeOK
<1>2. Len(listed) \in Nat /\ DOMAIN listed = 1 .. Len(listed) /\ \A i \in 1 .. Len(listed) : listed[i] \in Blocks
  BY <1>1
<1>3. 0 \notin 1 .. Len(listed) /\ Len(listed) + 1 \notin 1 .. Len(listed)
  BY <1>2
<1> QED
  BY <1>2, <1>3, SsdtAssumption DEF Link, Entries

LEMMA LinksDiffer ==
  ASSUME TypeOK, ListSound
  PROVE  /\ \A i, j \in 0 .. Len(listed) : Link(i) = Link(j) => i = j
         /\ \A i, j \in 1 .. Len(listed) + 1 : Link(i) = Link(j) => i = j
<1>1. \A i, j \in 1 .. Len(listed) : Link(i) = Link(j) => i = j
  BY LinkType DEF ListSound
<1>2. \A i \in 0 .. Len(listed) : i = 0 \/ i \in 1 .. Len(listed)
  BY LinkType
<1>3. \A i \in 1 .. Len(listed) + 1 : i = Len(listed) + 1 \/ i \in 1 .. Len(listed)
  BY LinkType
<1>4. /\ Link(0) = ListHead /\ Link(Len(listed) + 1) = ListHead
      /\ \A i \in 1 .. Len(listed) : Link(i) # ListHead
  BY LinkType
<1> QED
  BY <1>1, <1>2, <1>3, <1>4

LEMMA NewBlock ==
  ASSUME TypeOK, ListSound, NEW b \in Allocatable
  PROVE  b \in Blocks /\ b # ListHead /\ b \notin Range(listed)
<1>1. b \in freed \/ (b \in Blocks /\ name[b] = NoName)
  BY DEF Allocatable
<1> QED
  BY <1>1, SsdtAssumption DEF TypeOK, ListSound, Range

LEMMA AddSound ==
  ASSUME TypeOK, TypeOK', ListSound, NEW c \in Callers, IOCTL_SSDT_FORBIDPROCESS_ADD(c)
  PROVE  ListSound'
<1> DEFINE n == Len(listed)
<1>1. PICK m \in Names, b \in Allocatable :
        /\ name' = [name EXCEPT ![b] = m]
        /\ flink' = [flink EXCEPT ![b] = flink[ListHead], ![ListHead] = b]
        /\ blink' = [blink EXCEPT ![flink[ListHead]] = b, ![b] = ListHead]
        /\ listed' = <<b>> \o listed
        /\ freed' = freed \ {b}
  BY DEF IOCTL_SSDT_FORBIDPROCESS_ADD
<1>2. b \in Blocks /\ b # ListHead /\ b \notin Range(listed)
  BY NewBlock
<1>3. n \in Nat /\ DOMAIN listed = 1 .. n /\ \A i \in 1 .. n : listed[i] # b /\ Link(i) # b
  BY <1>2, LinkType DEF Range
<1>4. /\ Len(listed') = n + 1 /\ DOMAIN listed' = 1 .. n + 1 /\ listed'[1] = b
      /\ \A i \in 1 .. n : listed'[i + 1] = listed[i]
  <2>1. <<b>> \in Seq(Blocks) /\ Len(<<b>>) = 1 /\ <<b>>[1] = b /\ listed \in Seq(Blocks)
    BY <1>2 DEF TypeOK
  <2>2. /\ listed' \in Seq(Blocks) /\ Len(listed') = Len(<<b>>) + Len(listed)
        /\ \A i \in 1 .. Len(<<b>>) + Len(listed) :
             listed'[i] = IF i <= Len(<<b>>) THEN <<b>>[i] ELSE listed[i - Len(<<b>>)]
    BY <1>1, <2>1, ConcatProperties
  <2>3. Len(listed') = n + 1 /\ \A i \in 1 .. n + 1 : listed'[i] = IF i <= 1 THEN b ELSE listed[i - 1]
    BY <1>3, <2>1, <2>2
  <2>4. listed'[1] = b /\ \A i \in 1 .. n : listed'[i + 1] = listed[i]
    BY <1>3, <2>3
  <2> QED
    BY <2>2, <2>3, <2>4
<1> DEFINE New(i) == IF i \in DOMAIN listed' THEN listed'[i] ELSE ListHead
<1>5. New(0) = ListHead /\ New(1) = b /\ \A i \in 1 .. n + 1 : New(i + 1) = Link(i)
  <2>1. ASSUME NEW i \in 1 .. n + 1
        PROVE  New(i + 1) = Link(i)
    <3>1. CASE i \in 1 .. n
      BY <1>3, <1>4, <3>1 DEF Link
    <3>2. CASE i = n + 1
      <4>1. i + 1 \notin 1 .. n + 1
        BY <1>3, <3>2
      <4> QED
        BY <1>4, <3>2, <4>1, LinkType
    <3> QED
      BY <1>3, <3>1, <3>2
  <2>2. 0 \notin 1 .. n + 1 /\ 1 \in 1 .. n + 1
    BY <1>3
  <2> QED
    BY <1>4, <2>1, <2>2
<1>6. /\ \A i, j \in DOMAIN listed' : listed'[i] = listed'[j] => i = j
      /\ \A i \in DOMAIN listed' : listed'[i] \notin freed' /\ name'[listed'[i]] # NoName
  <2>1. \A i \in DOMAIN listed' : i = 1 \/ (i - 1 \in 1 .. n /\ i = (i - 1) + 1)
    BY <1>3, <1>4
  <2>2. \A i \in DOMAIN listed' : i = 1 \/ (i - 1 \in 1 .. n /\ listed'[i] = listed[i - 1])
    BY <1>4, <2>1
  <2>3. ASSUME NEW i \in DOMAIN listed', NEW j \in DOMAIN listed', listed'[i] = listed'[j]
        PROVE  i = j
    <3>1. CASE i # 1 /\ j # 1
      <4>1. i - 1 = j - 1
        BY <1>3, <2>2, <2>3, <3>1 DEF ListSound
      <4> QED
        BY <1>4, <4>1
    <3>2. CASE i = 1 \/ j = 1
      BY <1>3, <1>4, <2>2, <2>3, <3>2
    <3> QED
      BY <3>1, <3>2
  <2>4. ASSUME NEW i \in DOMAIN listed'
        PROVE  listed'[i] \notin freed' /\ name'[listed'[i]] # NoName
    <3>1. CASE i = 1
      BY <1>1, <1>2, <1>4, <3>1, SsdtAssumption DEF TypeOK
    <3>2. CASE i # 1
      <4>1. i - 1 \in 1 .. n /\ listed'[i] = listed[i - 1] /\ listed'[i] # b
        BY <1>3, <2>2, <3>2
      <4>2. listed[i - 1] \notin freed /\ name[listed[i - 1]] # NoName /\ listed[i - 1] \in Blocks
        BY <1>3, <4>1 DEF ListSound, TypeOK
      <4> QED
        BY <1>1, <4>1, <4>2 DEF TypeOK
    <3> QED
      BY <3>1, <3>2
  <2> QED
    BY <2>3, <2>4
<1>7. ASSUME NEW i \in 0 .. n + 1
      PROVE  flink'[New(i)] = New(i + 1) /\ blink'[New(i + 1)] = New(i)
  <2> HIDE DEF New
  <2>0. b \in Entries /\ ListHead \in Entries /\ flink[ListHead] = Link(1) /\ Link(1) \in Entries
        /\ Link(1) # b /\ \A j \in 1 .. n + 1 : Link(j) # b /\ Link(j) \in Entries
    <3>1. b \in Entries /\ ListHead \in Entries
      BY <1>2 DEF Entries
    <3>2. flink[ListHead] = Link(0 + 1) /\ 0 + 1 = 1
      BY <1>3, LinkType DEF ListSound
    <3>3. \A j \in 1 .. n + 1 : Link(j) # b /\ Link(j) \in Entries
      <4>1. \A j \in 1 .. n + 1 : j \in Nat /\ (j \in 1 .. n \/ j = n + 1)
        BY <1>3
      <4> QED
        BY <1>2, <1>3, <4>1, LinkType
    <3>4. 1 \in 1 .. n + 1
      BY <1>3
    <3> QED
      BY <3>1, <3>2, <3>3, <3>4
  <2>1. CASE i = 0
    <3>1. flink'[ListHead] = b /\ blink'[b] = ListHead
      BY <1>1, <1>2, <2>0 DEF TypeOK
    <3> QED
      BY <1>5, <2>1, <3>1
  <2>2. CASE i = 1
    <3>1. flink'[b] = Link(1) /\ blink'[Link(1)] = b
      BY <1>1, <1>2, <2>0 DEF TypeOK
    <3>2. New(1 + 1) = Link(1)
      BY <1>3, <1>5
    <3> QED
      BY <1>5, <2>2, <3>1, <3>2
  <2>3. CASE i \in 2 .. n + 1
    <3> DEFINE j == i - 1
    <3>1. j \in 1 .. n /\ i = j + 1 /\ i \in 1 .. n + 1 /\ j \in 1 .. n + 1 /\ j \in 0 .. n /\ i # 1 /\ 1 \in 1 .. n + 1
      BY <1>3, <2>3
    <3>2. New(i) = Link(j) /\ New(i + 1) = Link(i)
      BY <1>5, <3>1
    <3>3. flink[Link(j)] = Link(i) /\ blink[Link(i)] = Link(j)
      BY <3>1 DEF ListSound
    <3>4. Link(j) # ListHead /\ Link(j) # b /\ Link(i) # b /\ Link(i) # Link(1)
      BY <2>0, <3>1, LinkType, LinksDiffer
    <3>5. Link(j) \in Entries /\ Link(i) \in Entries
      BY <2>0, <3>1
    <3> HIDE DEF j
    <3>6. flink'[Link(j)] = flink[Link(j)] /\ blink'[Link(i)] = blink[Link(i)]
      BY <1>1, <2>0, <3>4, <3>5 DEF TypeOK
    <3> QED
      BY <3>2, <3>3, <3>6
  <2> QED
    BY <1>3, <2>1, <2>2, <2>3
<1>8. \A i : Link(i)' = New(i)
  BY DEF Link
<1>9. ~broken'
  BY DEF IOCTL_SSDT_FORBIDPROCESS_ADD, ListSound
<1> HIDE DEF New
<1> QED
  BY <1>4, <1>6, <1>7, <1>8, <1>9 DEF ListSound

LEMMA UnlinkSound ==
  ASSUME TypeOK, TypeOK', ListSound, NEW c \in Callers, Unlink(c), ~broken',
         call[c].entry \in Range(listed)
  PROVE  ListSound'
<1> DEFINE n == Len(listed)
           e == call[c].entry
           p == PositionOf(e)
<1>1. /\ e \in Range(listed) /\ listed' = RemoveAt(listed, p)
      /\ flink' = [flink EXCEPT ![blink[e]] = flink[e]]
      /\ blink' = [blink EXCEPT ![flink[e]] = blink[e]]
      /\ UNCHANGED <<name, freed>>
  BY DEF Unlink
<1>2. n \in Nat /\ DOMAIN listed = 1 .. n /\ p \in 1 .. n /\ listed[p] = e
  BY <1>1, LinkType, PositionLemma
<1>3. /\ Len(listed') = n - 1 /\ DOMAIN listed' = 1 .. n - 1
      /\ \A i \in 1 .. n - 1 : listed'[i] = IF i < p THEN listed[i] ELSE listed[i + 1]
  <2>1. listed \in Seq(Blocks) /\ p \in DOMAIN listed
    BY <1>2 DEF TypeOK
  <2> HIDE DEF p, n
  <2>2. /\ Len(RemoveAt(listed, p)) = Len(listed) - 1 /\ DOMAIN RemoveAt(listed, p) = 1 .. Len(listed) - 1
        /\ \A i \in 1 .. Len(listed) - 1 : RemoveAt(listed, p)[i] = IF i < p THEN listed[i] ELSE listed[i + 1]
    BY <2>1, RemoveAtLemma
  <2> QED
    BY <1>1, <2>2 DEF n
<1> DEFINE New(i) == IF i \in DOMAIN listed' THEN listed'[i] ELSE ListHead
<1>4. \A i \in 0 .. n : New(i) = IF i < p THEN Link(i) ELSE Link(i + 1)
  <2> SUFFICES ASSUME NEW i \in 0 .. n
               PROVE  New(i) = IF i < p THEN Link(i) ELSE Link(i + 1)
    OBVIOUS
  <2>1. CASE i = 0
    BY <1>2, <1>3, <2>1, LinkType
  <2>2. CASE i = n
    BY <1>2, <1>3, <2>2, LinkType
  <2>3. CASE i \in 1 .. n - 1
    <3>1. i \in 1 .. n /\ i + 1 \in 1 .. n
      BY <1>2, <2>3
    <3> QED
      BY <1>3, <2>3, <3>1, LinkType
  <2>4. i = 0 \/ i = n \/ i \in 1 .. n - 1
    <3>1. n \in Nat
      BY <1>2
    <3> HIDE DEF n
    <3> QED
      BY <3>1
  <2> QED
    BY <2>1, <2>2, <2>3, <2>4
<1> HIDE DEF p
<1>5. /\ p - 1 \in 0 .. n /\ p + 1 \in 1 .. n + 1 /\ p \in 0 .. n
      /\ blink[e] = Link(p - 1) /\ flink[e] = Link(p + 1)
      /\ blink[e] \in Entries /\ flink[e] \in Entries
  <2>1. p - 1 \in 0 .. n /\ p + 1 \in 1 .. n + 1 /\ p \in 0 .. n /\ (p - 1) + 1 = p
    BY <1>2
  <2>2. Link(p) = e
    BY <1>2, LinkType
  <2>3. blink[e] = Link(p - 1) /\ flink[e] = Link(p + 1)
    BY <2>1, <2>2 DEF ListSound
  <2>4. p - 1 \in Nat /\ p + 1 \in Nat
    BY <2>1
  <2> QED
    BY <2>1, <2>3, <2>4, LinkType
<1>6. /\ \A i, j \in DOMAIN listed' : listed'[i] = listed'[j] => i = j
      /\ \A i \in DOMAIN listed' : listed'[i] \notin freed' /\ name'[listed'[i]] # NoName
  <2>1. \A i \in 1 .. n - 1 : i \in 1 .. n /\ i + 1 \in 1 .. n
    BY <1>2
  <2>2. ASSUME NEW i \in 1 .. n - 1, NEW j \in 1 .. n - 1, listed'[i] = listed'[j]
        PROVE  i = j
    <3>1. (IF i < p THEN i ELSE i + 1) = (IF j < p THEN j ELSE j + 1)
      <4> DEFINE k == IF i < p THEN i ELSE i + 1
                 l == IF j < p THEN j ELSE j + 1
      <4>1. k \in 1 .. n /\ l \in 1 .. n /\ listed'[i] = listed[k] /\ listed'[j] = listed[l]
        BY <1>3, <2>1
      <4> HIDE DEF k, l
      <4>2. k = l
        BY <1>2, <2>2, <4>1 DEF ListSound
      <4> QED
        BY <4>2 DEF k, l
    <3> QED
      BY <1>2, <3>1
  <2>3. ASSUME NEW i \in 1 .. n - 1
        PROVE  listed'[i] \notin freed' /\ name'[listed'[i]] # NoName
    BY <1>1, <1>2, <1>3, <2>1 DEF ListSound
  <2> QED
    BY <1>3, <2>2, <2>3
<1>7. ASSUME NEW i \in 0 .. n - 1
      PROVE  flink'[New(i)] = New(i + 1) /\ blink'[New(i + 1)] = New(i)
  <2>0. i \in 0 .. n /\ i + 1 \in 0 .. n /\ i + 1 \in 1 .. n + 1 /\ i + 2 \in 1 .. n + 1 /\ i \in Nat /\ i + 1 \in Nat /\ i + 2 \in Nat
        /\ (i + 1) + 1 = i + 2
    BY <1>2
  <2> HIDE DEF New, e
  <2>1. CASE i = p - 1
    <3>1. New(i) = Link(p - 1) /\ New(i + 1) = Link(p + 1)
      BY <1>2, <1>4, <2>0, <2>1
    <3> QED
      BY <1>1, <1>5, <3>1 DEF TypeOK
  <2>2. CASE i < p - 1
    <3>1. New(i) = Link(i) /\ New(i + 1) = Link(i + 1)
      BY <1>2, <1>4, <2>0, <2>2
    <3>2. Link(i) # Link(p - 1) /\ Link(i + 1) # Link(p + 1)
      BY <1>2, <1>5, <2>0, <2>2, LinksDiffer
    <3>3. Link(i) \in Entries /\ Link(i + 1) \in Entries
      BY <2>0, LinkType
    <3>4. flink'[Link(i)] = flink[Link(i)] /\ blink'[Link(i + 1)] = blink[Link(i + 1)]
      BY <1>1, <1>5, <3>2, <3>3 DEF TypeOK
    <3>5. flink[Link(i)] = Link(i + 1) /\ blink[Link(i + 1)] = Link(i)
      BY <2>0 DEF ListSound
    <3> QED
      BY <3>1, <3>4, <3>5
  <2>3. CASE i > p - 1
    <3>1. New(i) = Link(i + 1) /\ New(i + 1) = Link(i + 2)
      BY <1>2, <1>4, <2>0, <2>3
    <3>2. Link(i + 1) # Link(p - 1) /\ Link(i + 2) # Link(p + 1)
      BY <1>2, <1>5, <2>0, <2>3, LinksDiffer
    <3>3. Link(i + 1) \in Entries /\ Link(i + 2) \in Entries
      BY <2>0, LinkType
    <3>4. flink'[Link(i + 1)] = flink[Link(i + 1)] /\ blink'[Link(i + 2)] = blink[Link(i + 2)]
      BY <1>1, <1>5, <3>2, <3>3 DEF TypeOK
    <3>5. flink[Link(i + 1)] = Link(i + 2) /\ blink[Link(i + 2)] = Link(i + 1)
      BY <2>0 DEF ListSound
    <3> QED
      BY <3>1, <3>4, <3>5
  <2> QED
    BY <1>2, <2>1, <2>2, <2>3
<1>8. \A i : Link(i)' = New(i)
  BY DEF Link
<1> HIDE DEF New
<1> QED
  BY <1>3, <1>6, <1>7, <1>8 DEF ListSound

LEMMA ClearSound ==
  ASSUME TypeOK, NEW c \in Callers, IOCTL_SSDT_CLAER_BLACK_ILST(c)
  PROVE  ListSound'
<1>1. listed' = <<>> /\ ListHead \in Entries
  BY DEF IOCTL_SSDT_CLAER_BLACK_ILST, Entries
<1>2. flink'[ListHead] = ListHead /\ blink'[ListHead] = ListHead
  BY <1>1 DEF IOCTL_SSDT_CLAER_BLACK_ILST, TypeOK
<1>3. DOMAIN listed' = {} /\ Len(listed') = 0
  BY <1>1
<1>4. \A i : Link(i)' = ListHead
  BY <1>3 DEF Link
<1>5. ~broken'
  BY DEF IOCTL_SSDT_CLAER_BLACK_ILST
<1> QED
  BY <1>2, <1>3, <1>4, <1>5 DEF ListSound

(* All other steps leave a list that is not broken alone. *)
LEMMA LeavesList ==
  ASSUME ~broken,
         HookAction \/ \E c \in Callers :
           \/ ArrayAction(c)
           \/ ListAction(c) /\ ~IOCTL_SSDT_FORBIDPROCESS_ADD(c) /\ ~Unlink(c)
                            /\ ~IOCTL_SSDT_CLAER_BLACK_ILST(c)
  PROVE  UNCHANGED listVars
<1>1. CASE HookAction
  BY <1>1 DEF HookAction, HookStarts, HookStep, ScanNext, MyNtTerminateProcess, TerminateDecided,
     MyNtQuerySystemInformation, ProcessKept, ProcessHidden, CreateProcessNotifyEx, Match, Back,
     HookReturns
<1>2. ASSUME NEW c \in Callers, ArrayAction(c)
      PROVE  UNCHANGED listVars
  BY <1>2 DEF ArrayAction, IOCTL_SSDT_ADD, IOCTL_SSDT_DELETE, InsertHideProcess, RemoveHideProcess,
     Grow, Shrink, StoreElement, StoreLen
<1>3. ASSUME NEW c \in Callers, ListAction(c), ~IOCTL_SSDT_FORBIDPROCESS_ADD(c), ~Unlink(c),
             ~IOCTL_SSDT_CLAER_BLACK_ILST(c)
      PROVE  UNCHANGED listVars
  BY <1>3 DEF ListAction, ClearBroken, IOCTL_SSDT_FORBIDPROCESS_DELETE, Compare, Advance, Deleted
<1> QED
  BY <1>1, <1>2, <1>3

(* A list that is broken stays so. *)
LEMMA StaysBroken ==
  ASSUME Next, ~broken'
  PROVE  ~broken
<1> SUFFICES ASSUME broken
             PROVE  FALSE
  OBVIOUS
<1>1. ASSUME NEW c \in Callers, ListAction(c)
      PROVE  broken'
  BY <1>1 DEF ListAction, IOCTL_SSDT_FORBIDPROCESS_ADD, IOCTL_SSDT_FORBIDPROCESS_DELETE,
     IOCTL_SSDT_CLAER_BLACK_ILST, ClearBroken, Compare, Unlink, Advance, Deleted, listVars
<1>2. CASE HookAction
  BY <1>2 DEF HookAction, HookStarts, HookStep, ScanNext, MyNtTerminateProcess, TerminateDecided,
     MyNtQuerySystemInformation, ProcessKept, ProcessHidden, CreateProcessNotifyEx, Match, Back,
     HookReturns, listVars
<1>3. ASSUME NEW c \in Callers, ArrayAction(c)
      PROVE  broken'
  BY <1>3 DEF ArrayAction, IOCTL_SSDT_ADD, IOCTL_SSDT_DELETE, InsertHideProcess, RemoveHideProcess,
     Grow, Shrink, StoreElement, StoreLen, listVars
<1> QED
  BY <1>1, <1>2, <1>3, StepKinds

(* While the list is not broken, a removal takes out an entry of the list, *)
(* or changes nothing.                                                     *)
LEMMA UnlinkKinds ==
  ASSUME TypeOK, TypeOK', ListSound, NEW c \in Callers, Unlink(c), ~broken'
  PROVE  \/ call[c].entry \in Range(listed)
         \/ UNCHANGED listVars /\ call[c].entry \notin Range(listed)
<1> SUFFICES ASSUME call[c].entry \notin Range(listed)
             PROVE  UNCHANGED listVars
  OBVIOUS
<1>1. listed' = listed /\ UNCHANGED <<name, freed>>
  BY DEF Unlink
<1>2. broken' = (broken \/ <<flink, blink>>' # <<flink, blink>>)
  BY DEF Unlink
<1>3. flink' = flink /\ blink' = blink
  BY <1>2
<1>4. broken' = broken
  BY DEF TypeOK, ListSound
<1> QED
  BY <1>1, <1>3, <1>4 DEF listVars

LEMMA SoundStep ==
  ASSUME TypeOK, TypeOK', broken \/ ListSound, Next, ~broken'
  PROVE  ListSound'
<1>1. ListSound /\ (HookAction \/ \E c \in Callers : ArrayAction(c) \/ ListAction(c))
  BY StepKinds, StaysBroken
<1>2. ASSUME NEW c \in Callers, IOCTL_SSDT_FORBIDPROCESS_ADD(c)
      PROVE  ListSound'
  BY <1>1, <1>2, AddSound
<1>5. ASSUME UNCHANGED listVars
      PROVE  ListSound'
  BY <1>1, <1>5 DEF ListSound, Link, listVars
<1>3. ASSUME NEW c \in Callers, Unlink(c)
      PROVE  ListSound'
  BY <1>1, <1>3, <1>5, UnlinkKinds, UnlinkSound
<1>4. ASSUME NEW c \in Callers, IOCTL_SSDT_CLAER_BLACK_ILST(c)
      PROVE  ListSound'
  BY <1>4, ClearSound
<1> QED
  BY <1>1, <1>2, <1>3, <1>4, <1>5, LeavesList DEF ListSound

LEMMA SoundAlways == Spec => [](broken \/ ListSound)
<1>1. Init => ListSound
  <2> SUFFICES ASSUME Init
               PROVE  ListSound
    OBVIOUS
  <2>1. listed = <<>> /\ DOMAIN listed = {} /\ Len(listed) = 0
    BY DEF Init
  <2>2. flink[ListHead] = ListHead /\ blink[ListHead] = ListHead
    BY DEF Init, Entries
  <2>3. ~broken
    BY DEF Init
  <2> QED
    BY <2>1, <2>2, <2>3 DEF ListSound, Link
<1>2. /\ TypeOK /\ TypeOK' /\ (broken \/ ListSound) /\ [Next]_vars
      => broken' \/ ListSound'
  <2>1. ASSUME broken \/ ListSound, UNCHANGED vars
        PROVE  broken' \/ ListSound'
    BY <2>1 DEF vars, listVars, ListSound, Link
  <2> QED
    BY <2>1, SoundStep
<1> QED
  BY <1>1, <1>2, TypeCorrect, PTL DEF Spec

--------------------------------------------------------------------------
(* Callbacks: the newest name. *)

(* While a callback is under way, the name that was the newest is still    *)
(* ahead of it, or is not in the path.                                     *)
NewestAhead == newest # ListHead =>
  /\ InCallback(hook) /\ newest \in Range(listed)
  /\ hook.at \in {"back", "created"} \/ (hook.at = "match" /\ hook.entry # newest)
       => name[newest] \notin hook.image

(* A name that is listed stays what it is. *)
LEMMA NameStays ==
  ASSUME TypeOK, ListSound, NEW b \in Range(listed),
         HookAction \/ \E c \in Callers : ArrayAction(c) \/ ListAction(c)
  PROVE  name'[b] = name[b]
<1>1. ASSUME NEW c \in Callers, IOCTL_SSDT_FORBIDPROCESS_ADD(c)
      PROVE  name'[b] = name[b]
  <2>1. PICK a \in Allocatable, n \in Names : name' = [name EXCEPT ![a] = n]
    BY <1>1 DEF IOCTL_SSDT_FORBIDPROCESS_ADD
  <2>2. a # b /\ b \in Blocks
    BY NewBlock, ListedType
  <2> QED
    BY <2>1, <2>2 DEF TypeOK
<1>2. ASSUME NEW c \in Callers, Unlink(c) \/ IOCTL_SSDT_CLAER_BLACK_ILST(c)
      PROVE  name'[b] = name[b]
  BY <1>2 DEF Unlink, IOCTL_SSDT_CLAER_BLACK_ILST
<1> QED
  BY <1>1, <1>2, LeavesList DEF listVars, ListSound

(* A callback starts at the list, a scan does not. *)
LEMMA CallbackAlone ==
  ASSUME TypeOK, HookAction, hook = NoHook, InCallback(hook')
  PROVE  CreateProcessNotifyEx
<1>1. hook \in HookState /\ hook.at = "idle"
  BY NoHookType DEF NoHook
<1>2. ASSUME NEW k \in Kinds, NEW p \in PIDs \union {0}
      PROVE  StartScan(NoHook, k, p) \in HookState /\ StartScan(NoHook, k, p).at = "scan"
  BY NoHookType, StartScanType
<1>3. ~MyNtTerminateProcess
  BY <1>2 DEF MyNtTerminateProcess, InCallback, Kinds
<1>4. ~MyNtQuerySystemInformation
  <2> SUFFICES ASSUME MyNtQuerySystemInformation
               PROVE  FALSE
    OBVIOUS
  <2> DEFINE g == StartScan(NoHook, "hide", Processes[1])
             nx == [i \in Positions |-> IF i = Len(Processes) THEN 0 ELSE i + 1]
  <2>1. g \in HookState /\ g.at = "scan"
    BY <1>2, PositionsType DEF Kinds
  <2>2. hook' = [g EXCEPT !.curr = 1, !.next = nx]
    BY DEF MyNtQuerySystemInformation
  <2> HIDE DEF g, nx
  <2> QED
    BY <2>1, <2>2 DEF HookState, InCallback
<1> QED
  BY <1>1, <1>3, <1>4 DEF HookAction, HookStarts, HookStep, ScanNext, TerminateDecided, ProcessKept,
     ProcessHidden, Match, Back, HookReturns

(* A callback that starts stands on the newest name. *)
LEMMA CallbackStarts ==
  ASSUME TypeOK, ListSound, HookAction, hook = NoHook, InCallback(hook'), listed # <<>>
  PROVE  hook'.at = "match" /\ hook'.entry = listed[1]
<1>1. flink[ListHead] = listed[1] /\ listed[1] # ListHead
  <2>1. Len(listed) \in Nat /\ Len(listed) # 0
    BY EmptySeq DEF TypeOK
  <2>2. 1 \in 1 .. Len(listed) /\ 0 \in 0 .. Len(listed) /\ 0 + 1 = 1
    BY <2>1
  <2>3. flink[Link(0)] = Link(0 + 1)
    BY <2>2 DEF ListSound
  <2> QED
    BY <2>2, <2>3, LinkType
<1>2. PICK image \in Images : hook' = [NoHook EXCEPT !.image = image, !.entry = listed[1], !.at = "match"]
  BY <1>1, CallbackAlone DEF CreateProcessNotifyEx
<1> QED
  BY <1>2, NoHookType DEF HookState

LEMMA NewestStep ==
  ASSUME TypeOK, broken \/ ListSound, broken \/ NewestAhead, Next, ~broken'
  PROVE  NewestAhead'
<1>1. /\ ListSound /\ NewestAhead /\ Observe
      /\ HookAction \/ \E c \in Callers : ArrayAction(c) \/ ListAction(c)
  BY StepKinds, StaysBroken
<1> SUFFICES ASSUME newest' # ListHead
             PROVE  /\ InCallback(hook') /\ newest' \in Range(listed')
                    /\ hook'.at \in {"back", "created"} \/ (hook'.at = "match" /\ hook'.entry # newest')
                         => name'[newest'] \notin hook'.image
  BY DEF NewestAhead, InCallback, Range
<1> DEFINE b == IF hook # NoHook THEN newest
                ELSE IF listed = <<>> THEN ListHead ELSE listed[1]
<1>2. newest' = IF InCallback(hook') /\ b \in Range(listed') THEN b ELSE ListHead
  BY <1>1 DEF Observe
<1>3. InCallback(hook') /\ newest' = b /\ b \in Range(listed')
  BY <1>2
<1>4. hook \in HookState /\ NoHook \in HookState /\ NoHook.at = "idle"
  BY NoHookType DEF TypeOK, NoHook
<1>5. CASE hook = NoHook
  <2>1. listed # <<>> /\ newest' = listed[1]
    BY <1>3, <1>5
  <2>2. HookAction
    BY <1>1, <1>3, <1>4, <1>5, ArrayLeavesHook DEF InCallback
  <2>3. hook'.at = "match" /\ hook'.entry = newest'
    BY <1>1, <1>3, <1>5, <2>1, <2>2, CallbackStarts
  <2> QED
    BY <1>3, <2>3
<1>6. CASE hook # NoHook
  <2>1. newest' = newest /\ newest # ListHead
    BY <1>3, <1>6
  <2>2. /\ InCallback(hook) /\ newest \in Range(listed)
        /\ hook.at \in {"back", "created"} \/ (hook.at = "match" /\ hook.entry # newest)
             => name[newest] \notin hook.image
    BY <1>1, <2>1 DEF NewestAhead
  <2>3. name'[newest] = name[newest]
    BY <1>1, <2>2, NameStays
  <2>4. CASE hook' = hook
    BY <1>3, <2>1, <2>2, <2>3, <2>4
  <2>5. CASE Match
    <3>1. PICK at \in {"refused", "back"} :
            /\ hook' = [hook EXCEPT !.at = at]
            /\ at = IF name[hook.entry] \in hook.image THEN "refused" ELSE "back"
      BY <2>5 DEF Match
    <3>2. hook'.at = at /\ hook'.image = hook.image
      BY <1>4, <3>1 DEF HookState
    <3>3. hook.at = "match"
      BY <2>5 DEF Match
    <3>4. at = "back" => name[newest] \notin hook.image
      BY <2>2, <3>1, <3>3
    <3> QED
      BY <1>3, <2>1, <2>3, <3>1, <3>2, <3>4
  <2>6. CASE Back
    <3>1. PICK at \in {"created", "match"} : hook' = [hook EXCEPT !.at = at, !.entry = blink[hook.entry]]
      BY <2>6 DEF Back
    <3>2. hook'.image = hook.image
      BY <1>4, <3>1 DEF HookState
    <3>3. hook.at = "back"
      BY <2>6 DEF Back
    <3> QED
      BY <1>3, <2>1, <2>2, <2>3, <3>2, <3>3
  <2>7. ASSUME HookAction, ~Match, ~Back
        PROVE  FALSE
    <3>1. HookReturns
      BY <1>6, <2>2, <2>7 DEF InCallback, HookAction, HookStarts, HookStep, ScanNext, TerminateDecided,
         ProcessKept, ProcessHidden, MyNtTerminateProcess, MyNtQuerySystemInformation, CreateProcessNotifyEx
    <3> QED
      BY <1>3, <1>4, <3>1 DEF HookReturns, InCallback
  <2> QED
    BY <1>1, <2>4, <2>5, <2>6, <2>7, ArrayLeavesHook
<1> QED
  BY <1>5, <1>6

(* The program whose name is the newest, and stays listed, is not started, *)
(* whatever else enters or leaves the list during the callback.            *)
THEOREM NewestRefused == Spec => []NewestIsRefused
<1>1. Init => NewestAhead
  BY DEF Init, NewestAhead
<1>2. /\ TypeOK /\ (broken \/ ListSound) /\ (broken \/ NewestAhead) /\ [Next]_vars
      => broken' \/ NewestAhead'
  <2>1. ASSUME broken \/ NewestAhead, UNCHANGED vars
        PROVE  broken' \/ NewestAhead'
    BY <2>1 DEF vars, listVars, NewestAhead, InCallback, Range
  <2> QED
    BY <2>1, NewestStep
<1>3. broken \/ NewestAhead => NewestIsRefused
  BY DEF NewestAhead, NewestIsRefused
<1> QED
  BY <1>1, <1>2, <1>3, TypeCorrect, SoundAlways, PTL DEF Spec

--------------------------------------------------------------------------
(* Callbacks: refusals. *)

(* The blocks that were in the list since a callback began: their names    *)
(* were seen, and their back links do not lead out of them.                *)
SeenBlocks(S) ==
  /\ Range(listed) \subseteq S
  /\ \A x \in S : x \in Blocks /\ name[x] \in seen /\ blink[x] \in S \union {ListHead}
WalksSeen == InCallback(hook) =>
  /\ \E S \in SUBSET Blocks : SeenBlocks(S) /\ (hook.at \in {"match", "back"} => hook.entry \in S)
  /\ hook.at = "refused" => hook.image \intersect seen # {}

LEMMA ObservedNames ==
  ASSUME Observe, InCallback(hook'), NEW b \in Range(listed')
  PROVE  name'[b] \in seen' /\ seen \subseteq seen'
BY DEF Observe

LEMMA AddRange ==
  ASSUME TypeOK, NEW b \in Blocks, listed' = <<b>> \o listed
  PROVE  Range(listed') = {b} \union Range(listed)
<1>1. <<b>> \in Seq(Blocks) /\ listed \in Seq(Blocks) /\ Len(<<b>>) = 1 /\ <<b>>[1] = b
  BY DEF TypeOK
<1>2. /\ listed' \in Seq(Blocks) /\ Len(listed') = Len(<<b>>) + Len(listed)
      /\ \A i \in 1 .. Len(<<b>>) + Len(listed) :
           listed'[i] = IF i <= Len(<<b>>) THEN <<b>>[i] ELSE listed[i - Len(<<b>>)]
  BY <1>1, ConcatProperties
<1>3. Len(listed) \in Nat /\ DOMAIN listed = 1 .. Len(listed)
  BY LinkType
<1>4. /\ DOMAIN listed' = 1 .. Len(listed) + 1
      /\ \A i \in 1 .. Len(listed) + 1 : listed'[i] = IF i <= 1 THEN b ELSE listed[i - 1]
  BY <1>1, <1>2, <1>3
<1>5. listed'[1] = b /\ \A i \in 1 .. Len(listed) : i + 1 \in 1 .. Len(listed) + 1 /\ listed'[i + 1] = listed[i]
  BY <1>3, <1>4
<1>6. \A i \in 1 .. Len(listed) + 1 : i = 1 \/ i - 1 \in 1 .. Len(listed)
  BY <1>3
<1>7. 1 \in 1 .. Len(listed) + 1
  BY <1>3
<1>8. ASSUME NEW i \in DOMAIN listed'
      PROVE  listed'[i] \in {b} \union Range(listed)
  BY <1>3, <1>4, <1>6, <1>8 DEF Range
<1>9. ASSUME NEW i \in DOMAIN listed
      PROVE  listed[i] \in Range(listed')
  <2>1. i + 1 \in DOMAIN listed' /\ listed'[i + 1] = listed[i]
    BY <1>3, <1>4, <1>5
  <2> QED
    BY <2>1 DEF Range
<1>10. b \in Range(listed')
  <2>1. 1 \in DOMAIN listed' /\ listed'[1] = b
    BY <1>4, <1>5, <1>7
  <2> QED
    BY <2>1 DEF Range
<1>11. Range(listed') \subseteq {b} \union Range(listed)
  BY <1>8 DEF Range
<1>12. Range(listed) \subseteq Range(listed')
  BY <1>9 DEF Range
<1> QED
  BY <1>10, <1>11, <1>12

LEMMA RemoveRange ==
  ASSUME TypeOK, ListSound, NEW e \in Range(listed), listed' = RemoveAt(listed, PositionOf(e))
  PROVE  Range(listed') = Range(listed) \ {e}
<1>1. listed \in Seq(Blocks) /\ PositionOf(e) \in DOMAIN listed /\ listed[PositionOf(e)] = e
  BY PositionLemma DEF TypeOK
<1> DEFINE p == PositionOf(e)
           n == Len(listed)
<1> HIDE DEF p
<1>2. /\ DOMAIN listed' = 1 .. n - 1
      /\ \A j \in 1 .. n - 1 : listed'[j] = IF j < p THEN listed[j] ELSE listed[j + 1]
  BY <1>1, RemoveAtLemma DEF p
<1>3. n \in Nat /\ DOMAIN listed = 1 .. n /\ p \in 1 .. n /\ listed[p] = e
  BY <1>1, LinkType DEF p
<1>4. ASSUME NEW j \in DOMAIN listed'
      PROVE  listed'[j] \in Range(listed) \ {e}
  <2>1. j \in 1 .. n /\ j + 1 \in 1 .. n
    BY <1>2, <1>3
  <2>2. CASE j < p
    <3>1. listed'[j] = listed[j] /\ j # p
      BY <1>2, <1>3, <2>2
    <3> QED
      BY <1>3, <2>1, <3>1 DEF ListSound, Range
  <2>3. CASE ~(j < p)
    <3>1. listed'[j] = listed[j + 1] /\ j + 1 # p
      BY <1>2, <1>3, <2>3
    <3> QED
      BY <1>3, <2>1, <3>1 DEF ListSound, Range
  <2> QED
    BY <2>2, <2>3
<1>5. ASSUME NEW j \in DOMAIN listed, listed[j] # e
      PROVE  listed[j] \in Range(listed')
  <2>1. CASE j < p
    <3>1. j \in DOMAIN listed' /\ listed'[j] = listed[j]
      BY <1>2, <1>3, <2>1
    <3> QED
      BY <3>1 DEF Range
  <2>2. CASE ~(j < p)
    <3>1. j # p
      BY <1>3, <1>5
    <3>2. j - 1 \in 1 .. n - 1 /\ ~(j - 1 < p) /\ (j - 1) + 1 = j
      BY <1>3, <2>2, <3>1
    <3>3. j - 1 \in DOMAIN listed' /\ listed'[j - 1] = listed[j]
      BY <1>2, <3>2
    <3> QED
      BY <3>3 DEF Range
  <2> QED
    BY <2>1, <2>2
<1> QED
  BY <1>4, <1>5 DEF Range

(* Whatever an ioctl does to the list, it does to these blocks. *)
LEMMA SeenStep ==
  ASSUME TypeOK, TypeOK', ListSound, Observe, InCallback(hook'), NEW S \in SUBSET Blocks, SeenBlocks(S),
         ~broken', HookAction \/ \E c \in Callers : ArrayAction(c) \/ ListAction(c)
  PROVE  \E T \in SUBSET Blocks : S \subseteq T /\ SeenBlocks(T)'
<1>1. ASSUME NEW c \in Callers, IOCTL_SSDT_FORBIDPROCESS_ADD(c)
      PROVE  \E T \in SUBSET Blocks : S \subseteq T /\ SeenBlocks(T)'
  <2>1. PICK m \in Names, b \in Allocatable :
          /\ name' = [name EXCEPT ![b] = m]
          /\ blink' = [blink EXCEPT ![flink[ListHead]] = b, ![b] = ListHead]
          /\ listed' = <<b>> \o listed
    BY <1>1 DEF IOCTL_SSDT_FORBIDPROCESS_ADD
  <2>2. b \in Blocks /\ b # ListHead
    BY NewBlock
  <2>3. Range(listed') = {b} \union Range(listed)
    BY <2>1, <2>2, AddRange
  <2> DEFINE T == S \union {b}
  <2>4. ASSUME NEW x \in T
        PROVE  x \in Blocks /\ name'[x] \in seen' /\ blink'[x] \in T \union {ListHead}
    <3>1. CASE x = b
      <4>1. name'[b] \in seen'
        BY <2>3, ObservedNames
      <4>2. blink'[b] = ListHead
        BY <2>1, <2>2 DEF TypeOK, Entries
      <4> QED
        BY <2>2, <3>1, <4>1, <4>2
    <3>2. CASE x # b
      <4>1. x \in S /\ x \in Blocks /\ name[x] \in seen /\ blink[x] \in S \union {ListHead}
        BY <3>2 DEF SeenBlocks
      <4>2. name'[x] = name[x] /\ seen \subseteq seen'
        <5>1. DOMAIN name = Blocks
          BY DEF TypeOK
        <5>2. name'[x] = name[x]
          BY <2>1, <3>2, <4>1, <5>1
        <5>3. b \in Range(listed')
          BY <2>3
        <5> QED BY <5>2, <5>3, ObservedNames
      <4>3. blink'[x] = IF x = flink[ListHead] THEN b ELSE blink[x]
        BY <2>1, <2>2, <3>2, <4>1 DEF TypeOK, Entries
      <4> QED
        BY <4>1, <4>2, <4>3
    <3> QED
      BY <3>1, <3>2
  <2>5. Range(listed') \subseteq T /\ T \in SUBSET Blocks /\ S \subseteq T
    BY <2>2, <2>3 DEF SeenBlocks
  <2> HIDE DEF T
  <2>6. SeenBlocks(T)'
    BY <2>4, <2>5 DEF SeenBlocks
  <2> QED
    BY <2>5, <2>6
<1>2. ASSUME name' = name, seen \subseteq seen', Range(listed') \subseteq Range(listed),
             \A x \in S : blink'[x] \in S \union {ListHead}
      PROVE  SeenBlocks(S)'
  BY <1>2 DEF SeenBlocks
<1>3. seen \subseteq seen'
  BY DEF Observe
<1>4. ASSUME NEW c \in Callers, Unlink(c)
      PROVE  SeenBlocks(S)'
  <2> DEFINE e == call[c].entry
  <2>1. /\ name' = name
        /\ \/ blink' = blink /\ listed' = listed
           \/ /\ e \in Range(listed) /\ listed' = RemoveAt(listed, PositionOf(e))
              /\ blink' = [blink EXCEPT ![flink[e]] = blink[e]]
    BY <1>4, UnlinkKinds DEF Unlink, listVars
  <2>2. CASE blink' = blink /\ listed' = listed
    BY <1>2, <1>3, <2>1, <2>2 DEF SeenBlocks
  <2>3. CASE /\ e \in Range(listed) /\ listed' = RemoveAt(listed, PositionOf(e))
             /\ blink' = [blink EXCEPT ![flink[e]] = blink[e]]
    <3> HIDE DEF e
    <3>1. Range(listed') \subseteq Range(listed)
      BY <2>3, RemoveRange
    <3>2. \A x \in S : blink'[x] = blink[x] \/ blink'[x] = blink[e]
      BY <2>3 DEF TypeOK, SeenBlocks, Entries
    <3>3. \A x \in S : blink'[x] \in S \union {ListHead}
      BY <2>3, <3>2 DEF SeenBlocks
    <3> QED
      BY <1>2, <1>3, <2>1, <3>1, <3>3
  <2> QED
    BY <2>1, <2>2, <2>3
<1>5. ASSUME NEW c \in Callers, IOCTL_SSDT_CLAER_BLACK_ILST(c)
      PROVE  SeenBlocks(S)'
  <2>1. name' = name /\ listed' = <<>> /\ blink' = [blink EXCEPT ![ListHead] = ListHead]
    BY <1>5 DEF IOCTL_SSDT_CLAER_BLACK_ILST
  <2>2. Range(listed') = {}
    BY <2>1 DEF Range
  <2>3. \A x \in S : blink'[x] = blink[x]
    BY <2>1, SsdtAssumption DEF TypeOK, SeenBlocks
  <2> QED
    BY <1>2, <1>3, <2>1, <2>2, <2>3 DEF SeenBlocks
<1>6. ASSUME UNCHANGED listVars
      PROVE  SeenBlocks(S)'
  BY <1>2, <1>3, <1>6 DEF SeenBlocks, listVars
<1> QED
  BY <1>1, <1>4, <1>5, <1>6, LeavesList DEF ListSound

LEMMA WalkStep ==
  ASSUME TypeOK, TypeOK', broken \/ ListSound, broken \/ WalksSeen, Next, ~broken'
  PROVE  WalksSeen'
<1>1. /\ ListSound /\ WalksSeen /\ Observe
      /\ HookAction \/ \E c \in Callers : ArrayAction(c) \/ ListAction(c)
  BY StepKinds, StaysBroken
<1>2. hook \in HookState /\ NoHook \in HookState /\ NoHook.at = "idle"
  BY NoHookType DEF TypeOK, NoHook
<1> SUFFICES ASSUME InCallback(hook')
             PROVE  /\ \E S \in SUBSET Blocks : SeenBlocks(S)' /\ (hook'.at \in {"match", "back"} => hook'.entry \in S)
                    /\ hook'.at = "refused" => hook'.image \intersect seen' # {}
  BY DEF WalksSeen, InCallback
<1>3. CASE ~InCallback(hook)
  <2>1. HookAction /\ hook = NoHook
    <3>1. HookAction
      BY <1>1, <1>3, ArrayLeavesHook
    <3>2. ASSUME hook # NoHook
          PROVE  hook'.at \in {"idle", "scan", "denied", "terminated", "returned"}
      <4>1. CASE ScanNext
        BY <1>2, <4>1 DEF ScanNext, HookState
      <4>2. CASE TerminateDecided
        <5>1. PICK at \in {"denied", "terminated"} : hook' = [hook EXCEPT !.at = at]
          BY <4>2 DEF TerminateDecided
        <5> QED
          BY <1>2, <5>1 DEF HookState
      <4>3. CASE ProcessKept \/ ProcessHidden
        <5>1. \E h : hook' = NextProcess(h)
          BY <4>3 DEF ProcessKept, ProcessHidden
        <5>2. ASSUME NEW h, NextProcess(h).at \in {"match", "back", "refused", "created"}, hook' = NextProcess(h)
              PROVE  FALSE
          <6>1. CASE h.next[h.curr] = 0
            <7>1. hook' = [h EXCEPT !.at = "returned"]
              BY <5>2, <6>1 DEF NextProcess
            <7> QED
              BY <5>2, <7>1 DEF HookState, TypeOK
          <6>2. CASE h.next[h.curr] # 0
            <7>1. hook' = [[h EXCEPT !.at = "scan", !.kind = "hide", !.pid = Processes[h.next[h.curr]], !.i = 0]
                            EXCEPT !.prev = h.curr, !.curr = h.next[h.curr]]
              BY <5>2, <6>2 DEF NextProcess, StartScan
            <7> QED
              BY <5>2, <7>1 DEF HookState, TypeOK
          <6> QED
            BY <6>1, <6>2
        <5>3. hook'.at \in {"idle", "scan", "denied", "terminated", "returned", "match", "back", "refused", "created"}
          BY DEF TypeOK, HookState
        <5> QED
          BY <5>1, <5>2, <5>3
      <4>4. CASE HookReturns
        BY <1>2, <4>4 DEF HookReturns
      <4> QED
        BY <1>3, <3>1, <3>2, <4>1, <4>2, <4>3, <4>4 DEF InCallback, HookAction, HookStarts, HookStep, Match, Back,
           MyNtTerminateProcess, MyNtQuerySystemInformation, CreateProcessNotifyEx
    <3> QED
      BY <3>1, <3>2 DEF InCallback
  <2>2. CASE listed = <<>>
    <3>1. UNCHANGED listVars
      BY <1>1, <2>1, LeavesList DEF ListSound
    <3>2. SeenBlocks({})'
      BY <2>2, <3>1 DEF SeenBlocks, listVars, Range
    <3>3. hook'.at = "created"
      <4>1. flink[ListHead] = ListHead
        <5>1. Len(listed) = 0 /\ 0 \in 0 .. Len(listed)
          BY <2>2
        <5>2. flink[Link(0)] = Link(0 + 1)
          BY <1>1, <5>1 DEF ListSound
        <5> QED
          BY <5>1, <5>2, LinkType
      <4> QED
        BY <1>2, <2>1, <4>1, CallbackAlone DEF CreateProcessNotifyEx, HookState
    <3> QED
      BY <3>2, <3>3
  <2>3. CASE listed # <<>>
    <3>1. UNCHANGED listVars /\ hook'.at = "match" /\ hook'.entry = listed[1]
      BY <1>1, <2>1, <2>3, LeavesList, CallbackStarts DEF ListSound
    <3>2. PICK S \in SUBSET Blocks : S = Range(listed) /\ listed[1] \in S
      <4>1. Len(listed) \in Nat /\ Len(listed) # 0
        BY <2>3, EmptySeq DEF TypeOK
      <4>2. 1 \in DOMAIN listed
        BY <4>1, LinkType
      <4> QED
        BY <4>2, ListedType DEF Range
    <3>3. ASSUME NEW x \in S
          PROVE  blink[x] \in S \union {ListHead}
      <4>1. PICK i \in 1 .. Len(listed) : x = listed[i]
        BY <3>2, LinkType DEF Range
      <4>2. i - 1 \in 0 .. Len(listed) /\ (i - 1) + 1 = i /\ (i - 1 = 0 \/ i - 1 \in 1 .. Len(listed))
        BY <4>1, LinkType
      <4>3. blink[Link(i)] = Link(i - 1) /\ Link(i) = x
        BY <1>1, <4>1, <4>2, LinkType DEF ListSound
      <4>4. Link(i - 1) \in S \union {ListHead}
        BY <3>2, <4>2, LinkType DEF Range
      <4> QED
        BY <4>3, <4>4
    <3>4. \A x \in S : name'[x] \in seen'
      BY <1>1, <3>1, <3>2, ObservedNames DEF listVars
    <3>5. SeenBlocks(S)'
      BY <3>1, <3>2, <3>3, <3>4 DEF SeenBlocks, listVars
    <3> QED
      BY <3>1, <3>2, <3>5
  <2> QED
    BY <2>2, <2>3
<1>4. CASE InCallback(hook)
  <2>1. PICK S \in SUBSET Blocks : SeenBlocks(S) /\ (hook.at \in {"match", "back"} => hook.entry \in S)
    BY <1>1, <1>4 DEF WalksSeen
  <2>2. PICK T \in SUBSET Blocks : S \subseteq T /\ SeenBlocks(T)'
    BY <1>1, <2>1, SeenStep
  <2>3. hook.at = "refused" => hook.image \intersect seen # {}
    BY <1>1, <1>4 DEF WalksSeen
  <2>4. seen \subseteq seen'
    BY <1>1 DEF Observe
  <2>5. CASE hook' = hook
    BY <2>1, <2>2, <2>3, <2>4, <2>5
  <2>6. CASE Match
    <3>1. PICK at \in {"refused", "back"} :
            /\ hook' = [hook EXCEPT !.at = at]
            /\ at = IF name[hook.entry] \in hook.image THEN "refused" ELSE "back"
      BY <2>6 DEF Match
    <3>2. hook'.at = at /\ hook'.image = hook.image /\ hook'.entry = hook.entry
      BY <1>2, <3>1 DEF HookState
    <3>3. hook.entry \in S /\ name[hook.entry] \in seen
      BY <2>1, <2>6 DEF Match, SeenBlocks
    <3> QED
      BY <2>2, <2>4, <3>1, <3>2, <3>3
  <2>7. CASE Back
    <3>1. hook.entry \in S /\ blink[hook.entry] \in S \union {ListHead}
      BY <2>1, <2>7 DEF Back, SeenBlocks
    <3>2. PICK at \in {"created", "match"} :
            /\ hook' = [hook EXCEPT !.at = at, !.entry = blink[hook.entry]]
            /\ at = IF blink[hook.entry] = ListHead THEN "created" ELSE "match"
      BY <2>7 DEF Back
    <3>3. hook'.at = at /\ hook'.entry = blink[hook.entry]
      BY <1>2, <3>2 DEF HookState
    <3> QED
      BY <2>2, <3>1, <3>2, <3>3
  <2>8. ASSUME HookAction, ~Match, ~Back
        PROVE  FALSE
    <3>1. HookReturns
      BY <1>2, <1>4, <2>8 DEF InCallback, HookAction, HookStarts, HookStep, ScanNext, TerminateDecided,
         ProcessKept, ProcessHidden, MyNtTerminateProcess, MyNtQuerySystemInformation, CreateProcessNotifyEx
    <3> QED
      BY <1>2, <3>1 DEF HookReturns, InCallback
  <2> QED
    BY <1>1, <2>5, <2>6, <2>7, <2>8, ArrayLeavesHook
<1> QED
  BY <1>3, <1>4

(* A callback that walks without the lock, also over entries that left the *)
(* list or were freed, refuses only for a name that was listed meanwhile.  *)
THEOREM RefusalsJustified == Spec => []RefusedWasListed
<1>1. Init => WalksSeen
  BY DEF Init, WalksSeen, InCallback, NoHook
<1>2. /\ TypeOK /\ TypeOK' /\ (broken \/ ListSound) /\ (broken \/ WalksSeen) /\ [Next]_vars
      => broken' \/ WalksSeen'
  <2>1. ASSUME broken \/ WalksSeen, UNCHANGED vars
        PROVE  broken' \/ WalksSeen'
    BY <2>1 DEF vars, listVars, WalksSeen, SeenBlocks, InCallback, Range
  <2> QED
    BY <2>1, WalkStep
<1>3. broken \/ WalksSeen => RefusedWasListed
  BY DEF WalksSeen, RefusedWasListed, InCallback
<1> QED
  BY <1>1, <1>2, <1>3, TypeCorrect, SoundAlways, PTL DEF Spec

--------------------------------------------------------------------------
(* Deletions: none is left behind. *)

(* A deletion's walk, whatever is taken out under it: among the blocks     *)
(* that were listed since the last clear (G), each is newer than those     *)
(* that follow it (R), the links do not skip any that is listed, and what  *)
(* a deletion still has to take out is where it stands or ahead of it.     *)
Ordered(G, R) ==
  /\ Range(listed) \subseteq G /\ R \subseteq G \X G
  /\ \A x \in G : x \in Blocks /\ x \notin freed /\ name[x] # NoName
  /\ \A x, y \in G : <<x, y>> \in R => <<y, x>> \notin R
  /\ \A i, j \in DOMAIN listed : i < j => <<listed[i], listed[j]>> \in R
NoneSkipped(G, R) ==
  \A x \in G, y \in Range(listed) : <<x, y>> \in R =>
     flink[x] \in G /\ (flink[x] = y \/ <<flink[x], y>> \in R)
DueAhead(c, G, R) == call[c].due # {} =>
  /\ call[c].at \in {"compare", "unlink", "advance"}
  /\ call[c].entry \in G /\ call[c].due \subseteq Range(listed)
  /\ \A d \in call[c].due :
       /\ <<call[c].name, name[d]>> \in Starts
       /\ \/ <<call[c].entry, d>> \in R
          \/ d = call[c].entry /\ call[c].at # "advance"
Walk(G, R) ==
  Ordered(G, R) /\ NoneSkipped(G, R) /\ \A c \in Callers : DueAhead(c, G, R)
WalksOn == \E G \in SUBSET Blocks, R \in SUBSET (Blocks \X Blocks) : Walk(G, R)

(* Links and blocks that stay, and a caller that gets on. *)
LEMMA WalkKept ==
  ASSUME NEW G, NEW R, Ordered(G, R), NoneSkipped(G, R), UNCHANGED listVars
  PROVE  Ordered(G, R)' /\ NoneSkipped(G, R)'
BY DEF Ordered, NoneSkipped, listVars, Range

(* The newest block is the first, and the head leads to it. *)
LEMMA HeadLeads ==
  ASSUME TypeOK, ListSound
  PROVE  /\ listed = <<>> => flink[ListHead] = ListHead
         /\ listed # <<>> => 1 \in DOMAIN listed /\ flink[ListHead] = listed[1] /\ listed[1] \in Range(listed)
<1>1. Len(listed) \in Nat /\ 0 \in 0 .. Len(listed) /\ 0 + 1 = 1
  BY LinkType
<1>2. flink[Link(0)] = Link(1)
  BY <1>1 DEF ListSound
<1>3. CASE listed = <<>>
  <2>1. Len(listed) = 0
    BY <1>3
  <2> QED
    BY <1>2, <1>3, <2>1, LinkType
<1>4. CASE listed # <<>>
  <2>1. Len(listed) # 0
    BY <1>4, EmptySeq DEF TypeOK
  <2>2. 1 \in 1 .. Len(listed)
    BY <1>1, <2>1
  <2> QED
    BY <1>2, <1>4, <2>2, LinkType DEF Range
<1> QED
  BY <1>3, <1>4

LEMMA AddWalk ==
  ASSUME TypeOK, TypeOK', ListSound, NEW c \in Callers, IOCTL_SSDT_FORBIDPROCESS_ADD(c),
         NEW G \in SUBSET Blocks, NEW R \in SUBSET (Blocks \X Blocks), Walk(G, R)
  PROVE  WalksOn'
<1>1. PICK m \in Names, b \in Allocatable :
        /\ name' = [name EXCEPT ![b] = m]
        /\ flink' = [flink EXCEPT ![b] = flink[ListHead], ![ListHead] = b]
        /\ listed' = <<b>> \o listed
        /\ freed' = freed \ {b}
  BY DEF IOCTL_SSDT_FORBIDPROCESS_ADD
<1>2. b \in Blocks /\ b # ListHead /\ b \notin Range(listed)
  BY NewBlock
<1>3. b \notin G /\ G \subseteq Blocks /\ R \subseteq G \X G
  BY DEF Walk, Ordered, Allocatable
<1>4. Range(listed') = {b} \union Range(listed)
  BY <1>1, <1>2, AddRange
<1>5. \A x \in G : flink'[x] = flink[x] /\ name'[x] = name[x]
  BY <1>1, <1>2, <1>3, SsdtAssumption DEF TypeOK, Entries
<1> DEFINE H == G \union {b}
           Q == R \union ({b} \X G)
<1>6. Ordered(H, Q)'
  <2>1. Range(listed') \subseteq H /\ Q \subseteq H \X H
    BY <1>3, <1>4 DEF Walk, Ordered
  <2>2. ASSUME NEW x \in H
        PROVE  x \in Blocks /\ x \notin freed' /\ name'[x] # NoName
    BY <1>1, <1>2, <1>3, <1>5, SsdtAssumption DEF Walk, Ordered, TypeOK
  <2>3. ASSUME NEW x \in H, NEW y \in H, <<x, y>> \in Q
        PROVE  <<y, x>> \notin Q
    <3>1. CASE x = b
      BY <1>3, <2>3, <3>1
    <3>2. CASE x # b
      <4>1. <<x, y>> \in R
        BY <2>3, <3>2
      <4>2. y \in G /\ x \in G
        BY <1>3, <4>1
      <4> QED
        BY <1>3, <4>1, <4>2 DEF Walk, Ordered
    <3> QED
      BY <3>1, <3>2
  <2>4. ASSUME NEW i \in DOMAIN listed', NEW j \in DOMAIN listed', i < j
        PROVE  <<listed'[i], listed'[j]>> \in Q
    <3>1. /\ Len(listed) \in Nat /\ DOMAIN listed = 1 .. Len(listed)
          /\ DOMAIN listed' = 1 .. Len(listed) + 1
          /\ \A k \in 1 .. Len(listed) + 1 : listed'[k] = IF k <= 1 THEN b ELSE listed[k - 1]
      <4>1. <<b>> \in Seq(Blocks) /\ listed \in Seq(Blocks) /\ Len(<<b>>) = 1 /\ <<b>>[1] = b
        BY <1>2 DEF TypeOK
      <4>2. /\ listed' \in Seq(Blocks) /\ Len(listed') = Len(<<b>>) + Len(listed)
            /\ \A k \in 1 .. Len(<<b>>) + Len(listed) :
                 listed'[k] = IF k <= Len(<<b>>) THEN <<b>>[k] ELSE listed[k - Len(<<b>>)]
        BY <1>1, <4>1, ConcatProperties
      <4>3. Len(listed) \in Nat /\ DOMAIN listed = 1 .. Len(listed)
        BY LinkType
      <4> QED
        BY <4>1, <4>2, <4>3
    <3>2. j - 1 \in DOMAIN listed /\ listed'[j] = listed[j - 1] /\ listed'[j] \in G
      <4>1. j - 1 \in 1 .. Len(listed) /\ ~(j <= 1)
        BY <2>4, <3>1
      <4>2. listed[j - 1] \in Range(listed)
        BY <3>1, <4>1 DEF Range
      <4> QED
        BY <3>1, <4>1, <4>2 DEF Walk, Ordered
    <3>3. CASE i = 1
      BY <3>1, <3>2, <3>3
    <3>4. CASE i # 1
      <4>1. i - 1 \in DOMAIN listed /\ listed'[i] = listed[i - 1] /\ i - 1 < j - 1
        BY <2>4, <3>1, <3>4
      <4> QED
        BY <3>2, <4>1 DEF Walk, Ordered
    <3> QED
      BY <3>3, <3>4
  <2> HIDE DEF H, Q
  <2> QED
    BY <2>1, <2>2, <2>3, <2>4 DEF Ordered
<1>7. NoneSkipped(H, Q)'
  <2> SUFFICES ASSUME NEW x \in H, NEW y \in Range(listed'), <<x, y>> \in Q
               PROVE  flink'[x] \in H /\ (flink'[x] = y \/ <<flink'[x], y>> \in Q)
    <3> HIDE DEF H, Q
    <3> QED
      BY DEF NoneSkipped
  <2>1. CASE x = b
    <3>1. y \in G /\ y \in Range(listed)
      BY <1>3, <1>4, <2>1
    <3>2. listed # <<>>
      BY <3>1 DEF Range
    <3>3. flink'[b] = listed[1] /\ listed[1] \in Range(listed) /\ 1 \in DOMAIN listed
      BY <1>1, <1>2, <3>2, HeadLeads DEF TypeOK, Entries
    <3>4. PICK j \in DOMAIN listed : y = listed[j]
      BY <3>1 DEF Range
    <3>5. j = 1 \/ 1 < j
      BY <3>4, LinkType
    <3> QED
      BY <2>1, <3>3, <3>4, <3>5 DEF Walk, Ordered
  <2>2. CASE x # b
    <3>1. <<x, y>> \in R /\ x \in G /\ y \in G /\ y \in Range(listed)
      BY <1>3, <1>4, <2>2
    <3> QED
      BY <1>5, <3>1 DEF Walk, NoneSkipped
  <2> QED
    BY <2>1, <2>2
<1>8. call' = call
  BY DEF IOCTL_SSDT_FORBIDPROCESS_ADD, Send, MaySend, TypeOK
<1>9. ASSUME NEW d \in Callers
      PROVE  DueAhead(d, H, Q)'
  <2>1. DueAhead(d, G, R) /\ call'[d] = call[d]
    BY <1>8 DEF Walk
  <2>2. Range(listed) \subseteq G
    BY DEF Walk, Ordered
  <2>3. ASSUME call[d].due # {}
        PROVE  \A e \in call[d].due : name'[e] = name[e]
    BY <1>5, <2>1, <2>2, <2>3 DEF DueAhead
  <2> QED
    BY <1>4, <2>1, <2>3 DEF DueAhead
<1>10. H \in SUBSET Blocks /\ Q \in SUBSET (Blocks \X Blocks)
  BY <1>2, <1>3
<1> HIDE DEF H, Q
<1> QED
  BY <1>6, <1>7, <1>9, <1>10 DEF WalksOn, Walk

LEMMA UnlinkWalk ==
  ASSUME TypeOK, TypeOK', ListSound, NEW c \in Callers, Unlink(c), ~broken',
         NEW G \in SUBSET Blocks, NEW R \in SUBSET (Blocks \X Blocks), Walk(G, R)
  PROVE  Walk(G, R)'
<1> DEFINE e == call[c].entry
           E == Excused({e})
<1>0. /\ UNCHANGED <<name, freed>>
      /\ call' = [E EXCEPT ![c] = [E[c] EXCEPT !.at = "advance"]] /\ call[c].at = "unlink"
      /\ flink' = [flink EXCEPT ![blink[e]] = flink[e]]
      /\ listed' = IF e \in Range(listed) THEN RemoveAt(listed, PositionOf(e)) ELSE listed
  BY DEF Unlink
<1>1. ASSUME NEW d \in Callers
      PROVE  /\ call'[d].due = call[d].due \ {e} /\ call'[d].entry = call[d].entry
             /\ call'[d].name = call[d].name
             /\ call'[d].at = IF d = c THEN "advance" ELSE call[d].at
  <2>1. E \in [Callers -> CallState] /\ E[d] = [call[d] EXCEPT !.due = @ \ {e}] /\ call[d] \in CallState
    BY ExcusedType DEF Excused, TypeOK
  <2>2. E[d].due = call[d].due \ {e} /\ E[d].entry = call[d].entry /\ E[d].name = call[d].name
        /\ E[d].at = call[d].at /\ E[d] \in CallState
    BY <2>1 DEF CallState
  <2> HIDE DEF E, e
  <2>3. CASE d = c
    <3>1. call'[d] = [E[d] EXCEPT !.at = "advance"]
      BY <1>0, <2>1, <2>3
    <3> QED
      BY <2>2, <2>3, <3>1 DEF CallState
  <2>4. CASE d # c
    BY <1>0, <2>1, <2>2, <2>4
  <2> QED
    BY <2>3, <2>4
<1>2. Range(listed') = Range(listed) \ {e}
  <2> HIDE DEF e, E
  <2>1. CASE e \in Range(listed)
    BY <1>0, <2>1, RemoveRange
  <2>2. CASE e \notin Range(listed)
    BY <1>0, <2>2
  <2> QED
    BY <2>1, <2>2
<1> HIDE DEF E
<1>3. DueAhead(c, G, R) /\ \A d \in Callers : DueAhead(d, G, R)
  BY DEF Walk
<1>4. ASSUME NEW d \in Callers
      PROVE  DueAhead(d, G, R)'
  <2> SUFFICES ASSUME call[d].due \ {e} # {}
               PROVE  DueAhead(d, G, R)'
    BY <1>1 DEF DueAhead
  <2>1. call[d].due # {} /\ DueAhead(d, G, R)
    BY <1>3
  <2>2. /\ call'[d].at \in {"compare", "unlink", "advance"} /\ call'[d].entry \in G
        /\ call'[d].due \subseteq Range(listed')
    BY <1>1, <1>2, <2>1 DEF DueAhead
  <2>3. ASSUME NEW x \in call'[d].due
        PROVE  /\ <<call'[d].name, name'[x]>> \in Starts
               /\ <<call'[d].entry, x>> \in R \/ (x = call'[d].entry /\ call'[d].at # "advance")
    <3>1. x \in call[d].due /\ x # e
      BY <1>1
    <3>2. <<call[d].name, name[x]>> \in Starts /\ (<<call[d].entry, x>> \in R \/ (x = call[d].entry /\ call[d].at # "advance"))
      BY <2>1, <3>1 DEF DueAhead
    <3> QED
      BY <1>0, <1>1, <3>1, <3>2
  <2> QED
    BY <2>2, <2>3 DEF DueAhead
<1>5. CASE e \notin Range(listed)
  <2>1. UNCHANGED <<flink, listed, name, freed>>
    BY <1>5, UnlinkKinds DEF listVars
  <2>2. Ordered(G, R)' /\ NoneSkipped(G, R)'
    BY <2>1 DEF Walk, Ordered, NoneSkipped, Range
  <2> QED
    BY <1>4, <2>2 DEF Walk
<1>6. CASE e \in Range(listed)
  <2> DEFINE n == Len(listed)
             p == PositionOf(e)
  <2> HIDE DEF p
  <2>1. /\ n \in Nat /\ DOMAIN listed = 1 .. n /\ p \in 1 .. n /\ listed[p] = e /\ e \in Range(listed)
        /\ listed \in Seq(Blocks) /\ listed' = RemoveAt(listed, p)
        /\ flink' = [flink EXCEPT ![blink[e]] = flink[e]]
    BY <1>0, <1>6, LinkType, PositionLemma DEF p, TypeOK
  <2>2. /\ DOMAIN listed' = 1 .. n - 1
        /\ \A i \in 1 .. n - 1 : listed'[i] = IF i < p THEN listed[i] ELSE listed[i + 1]
    BY <2>1, RemoveAtLemma
  <2>3. ASSUME NEW i \in DOMAIN listed', NEW j \in DOMAIN listed', i < j
        PROVE  <<listed'[i], listed'[j]>> \in R
    <3> DEFINE k == IF i < p THEN i ELSE i + 1
               l == IF j < p THEN j ELSE j + 1
    <3>1. k \in 1 .. n /\ l \in 1 .. n /\ k < l
      BY <2>1, <2>2, <2>3
    <3>2. listed'[i] = listed[k] /\ listed'[j] = listed[l]
      BY <2>2
    <3> HIDE DEF k, l
    <3> QED
      BY <2>1, <3>1, <3>2 DEF Walk, Ordered
  <2>4. Ordered(G, R)'
    <3>1. Range(listed') \subseteq G
      BY <1>2 DEF Walk, Ordered
    <3> QED
      BY <1>0, <2>3, <3>1 DEF Walk, Ordered
  <2>5. ASSUME NEW x \in G, NEW y \in Range(listed'), <<x, y>> \in R
        PROVE  flink'[x] \in G /\ (flink'[x] = y \/ <<flink'[x], y>> \in R)
    <3>1. y \in Range(listed) /\ y # e /\ x \in Entries /\ x # ListHead
      BY <1>2, SsdtAssumption DEF Entries
    <3>2. CASE x # blink[e]
      <4>1. flink'[x] = flink[x]
        BY <2>1, <3>1, <3>2 DEF TypeOK
      <4> QED
        BY <2>5, <3>1, <4>1 DEF Walk, NoneSkipped
    <3>3. CASE x = blink[e]
      <4>1. flink'[x] = flink[e]
        BY <2>1, <3>1, <3>3 DEF TypeOK
      <4>2. blink[e] = Link(p - 1) /\ flink[e] = Link(p + 1)
        <5>1. p - 1 \in 0 .. n /\ p \in 0 .. n /\ (p - 1) + 1 = p /\ Link(p) = e
          BY <2>1, LinkType
        <5> QED
          BY <5>1 DEF ListSound
      <4>3. p - 1 \in 1 .. n /\ listed[p - 1] = x
        <5>1. p - 1 = 0 \/ p - 1 \in 1 .. n
          BY <2>1
        <5> QED
          BY <3>1, <3>3, <4>2, <5>1, LinkType
      <4>4. PICK j \in 1 .. n : y = listed[j]
        BY <2>1, <3>1 DEF Range
      <4>5. j # p /\ j # p - 1 /\ ~(j < p - 1)
        <5>1. j # p
          BY <2>1, <3>1, <4>4
        <5>2. <<x, y>> \in R => <<y, x>> \notin R
          <6>1. y \in G
            BY <3>1 DEF Walk, Ordered
          <6> QED
            BY <6>1 DEF Walk, Ordered
        <5>3. ~(j < p - 1)
          BY <2>1, <2>5, <4>3, <4>4, <5>2 DEF Walk, Ordered
        <5>4. j # p - 1
          BY <2>5, <4>3, <4>4, <5>2
        <5> QED
          BY <5>1, <5>3, <5>4
      <4>6. p + 1 \in 1 .. n /\ (j = p + 1 \/ p + 1 < j)
        BY <2>1, <4>4, <4>5
      <4>7. flink'[x] = listed[p + 1] /\ listed[p + 1] \in Range(listed)
        BY <2>1, <4>1, <4>2, <4>6, LinkType DEF Range
      <4> QED
        BY <2>1, <4>4, <4>6, <4>7 DEF Walk, Ordered
    <3> QED
      BY <3>2, <3>3
  <2>6. NoneSkipped(G, R)'
    BY <2>5 DEF NoneSkipped
  <2> QED
    BY <1>4, <2>4, <2>6 DEF Walk
<1> QED
  BY <1>5, <1>6

LEMMA ClearWalk ==
  ASSUME TypeOK, ListSound, NEW c \in Callers, IOCTL_SSDT_CLAER_BLACK_ILST(c), WalksOn
  PROVE  WalksOn'
<1>1. listed' = <<>> /\ Range(listed') = {} /\ DOMAIN listed' = {}
  BY DEF IOCTL_SSDT_CLAER_BLACK_ILST, Range
<1>2. ASSUME NEW d \in Callers
      PROVE  call'[d].due = {}
  <2>1. PICK G \in SUBSET Blocks, R \in SUBSET (Blocks \X Blocks) : DueAhead(d, G, R)
    BY DEF WalksOn, Walk
  <2>2. call[d].due \subseteq Range(listed)
    BY <2>1 DEF DueAhead
  <2>3. Excused(Range(listed))[d] = [call[d] EXCEPT !.due = @ \ Range(listed)] /\ call[d] \in CallState
    BY DEF Excused, TypeOK
  <2>4. Excused(Range(listed))[d] \in CallState /\ Excused(Range(listed))[d].due = {}
    BY <2>2, <2>3, ExcusedType DEF CallState
  <2>5. call'[d] = [Excused(Range(listed))[d] EXCEPT !.passed = @ \ Range(listed)]
    BY DEF IOCTL_SSDT_CLAER_BLACK_ILST
  <2> QED
    BY <2>4, <2>5 DEF CallState
<1>3. Walk({}, {})'
  BY <1>1, <1>2 DEF Walk, Ordered, NoneSkipped, DueAhead
<1> QED
  BY <1>3 DEF WalksOn

(* What a step of a walk, without the links changing, does to what is due. *)
LEMMA DeleteWalk ==
  ASSUME TypeOK, ListSound, NEW c \in Callers,
         Compare(c) \/ Advance(c) \/ Deleted(c) \/ IOCTL_SSDT_FORBIDPROCESS_DELETE(c),
         NEW G \in SUBSET Blocks, NEW R \in SUBSET (Blocks \X Blocks), Walk(G, R)
  PROVE  Walk(G, R)'
<1>1. UNCHANGED listVars
  BY DEF Compare, Advance, Deleted, IOCTL_SSDT_FORBIDPROCESS_DELETE
<1>2. Ordered(G, R)' /\ NoneSkipped(G, R)'
  BY <1>1, WalkKept DEF Walk
<1>3. call[c] \in CallState /\ NoCall \in CallState /\ NoCall.due = {}
  BY NoCallType DEF TypeOK, NoCall
<1>4. ASSUME NEW new, call' = [call EXCEPT ![c] = new],
             DueAhead(c, G, R)'
      PROVE  Walk(G, R)'
  <2>1. ASSUME NEW d \in Callers \ {c}
        PROVE  DueAhead(d, G, R)'
    <3>1. call'[d] = call[d] /\ DueAhead(d, G, R)
      BY <1>4, CallAlone DEF Walk
    <3> QED
      BY <1>1, <3>1 DEF DueAhead, listVars
  <2> QED
    BY <1>2, <1>4, <2>1 DEF Walk
<1>5. DueAhead(c, G, R)
  BY DEF Walk
<1>6. CASE Compare(c)
  <2>1. PICK at \in {"unlink", "advance"} :
          /\ call' = [call EXCEPT ![c] = [call[c] EXCEPT !.at = at]]
          /\ at = "advance" => <<call[c].name, name[call[c].entry]>> \notin Starts
    BY <1>6 DEF Compare
  <2> DEFINE new == [call[c] EXCEPT !.at = at]
  <2>2. new.at = at /\ new.due = call[c].due /\ new.entry = call[c].entry /\ new.name = call[c].name
    BY <1>3 DEF CallState
  <2> HIDE DEF new
  <2>3. call'[c] = new
    BY <2>1, CallAlone DEF new
  <2>4. DueAhead(c, G, R)'
    BY <1>1, <1>5, <2>1, <2>2, <2>3 DEF DueAhead, listVars
  <2> QED
    BY <1>4, <2>1, <2>4
<1>7. CASE Advance(c)
  <2> DEFINE done == [NoCall EXCEPT !.at = "deleted", !.due = call[c].due]
             next == [call[c] EXCEPT !.at = "compare", !.entry = flink[call[c].entry],
                        !.passed = @ \union {call[c].entry}]
  <2>1. call[c].at = "advance" /\ call' = [call EXCEPT ![c] = IF flink[call[c].entry] = ListHead THEN done ELSE next]
    BY <1>7 DEF Advance
  <2>2. /\ done.due = call[c].due
        /\ next.at = "compare" /\ next.due = call[c].due /\ next.entry = flink[call[c].entry] /\ next.name = call[c].name
    BY <1>3 DEF CallState
  <2>3. ASSUME NEW d \in call[c].due
        PROVE  flink[call[c].entry] \in G /\ (flink[call[c].entry] = d \/ <<flink[call[c].entry], d>> \in R)
    <3>1. <<call[c].entry, d>> \in R /\ call[c].entry \in G /\ d \in Range(listed)
      BY <1>5, <2>1 DEF DueAhead
    <3> QED
      BY <3>1 DEF Walk, NoneSkipped
  <2> HIDE DEF done, next
  <2>4. CASE flink[call[c].entry] = ListHead
    <3>1. call[c].due = {}
      BY <2>3, <2>4, SsdtAssumption
    <3>2. call'[c] = done
      BY <2>1, <2>4, CallAlone
    <3>3. DueAhead(c, G, R)'
      BY <2>2, <3>1, <3>2 DEF DueAhead
    <3> QED
      BY <1>4, <2>1, <3>3
  <2>5. CASE flink[call[c].entry] # ListHead
    <3>1. call' = [call EXCEPT ![c] = next]
      BY <2>1, <2>5
    <3>2. call'[c] = next
      BY <3>1, CallAlone
    <3>3. DueAhead(c, G, R)'
      BY <1>1, <1>5, <2>2, <2>3, <3>2 DEF DueAhead, listVars
    <3> QED
      BY <1>4, <3>1, <3>3
  <2> QED
    BY <2>4, <2>5
<1>8. CASE Deleted(c)
  <2>1. call' = [call EXCEPT ![c] = NoCall]
    BY <1>8 DEF Deleted
  <2>2. call'[c] = NoCall
    BY <2>1, CallAlone
  <2>3. DueAhead(c, G, R)'
    BY <1>3, <2>2 DEF DueAhead
  <2> QED
    BY <1>4, <2>1, <2>3
<1>9. CASE IOCTL_SSDT_FORBIDPROCESS_DELETE(c)
  <2>1. PICK n \in Names : call' = [call EXCEPT ![c] =
          IF flink[ListHead] = ListHead THEN NoCall
          ELSE [NoCall EXCEPT !.at = "compare", !.name = n, !.entry = flink[ListHead],
                  !.due = {b \in Range(listed) : <<n, name[b]>> \in Starts}]]
    BY <1>9 DEF IOCTL_SSDT_FORBIDPROCESS_DELETE, Send
  <2> DEFINE D == {b \in Range(listed) : <<n, name[b]>> \in Starts}
             new == [NoCall EXCEPT !.at = "compare", !.name = n, !.entry = flink[ListHead], !.due = D]
  <2>2. new.at = "compare" /\ new.name = n /\ new.entry = flink[ListHead] /\ new.due = D
    BY <1>3 DEF CallState
  <2>3. CASE listed = <<>>
    <3>1. call' = [call EXCEPT ![c] = NoCall]
      BY <2>1, <2>3, HeadLeads
    <3>2. call'[c] = NoCall
      BY <3>1, CallAlone
    <3>3. DueAhead(c, G, R)'
      BY <1>3, <3>2 DEF DueAhead
    <3> QED
      BY <1>4, <3>1, <3>3
  <2>4. CASE listed # <<>>
    <3>1. 1 \in DOMAIN listed /\ flink[ListHead] = listed[1] /\ listed[1] \in Range(listed) /\ listed[1] # ListHead
      BY <2>4, HeadLeads, ListedType
    <3>2. call' = [call EXCEPT ![c] = new]
      BY <2>1, <3>1
    <3> HIDE DEF new, D
    <3>3. call'[c] = new
      BY <3>2, CallAlone
    <3>4. ASSUME NEW d \in D
          PROVE  /\ d \in Range(listed) /\ <<n, name[d]>> \in Starts
                 /\ d = listed[1] \/ <<listed[1], d>> \in R
      <4>1. d \in Range(listed) /\ <<n, name[d]>> \in Starts
        BY DEF D
      <4>2. PICK j \in DOMAIN listed : d = listed[j]
        BY <4>1 DEF Range
      <4>3. j = 1 \/ 1 < j
        BY <4>2, LinkType
      <4> QED
        BY <3>1, <4>1, <4>2, <4>3 DEF Walk, Ordered
    <3>5. listed[1] \in G
      BY <3>1 DEF Walk, Ordered
    <3>6. DueAhead(c, G, R)'
      BY <1>1, <2>2, <3>1, <3>3, <3>4, <3>5 DEF DueAhead, listVars
    <3> QED
      BY <1>4, <3>2, <3>6
  <2> QED
    BY <2>3, <2>4
<1> QED
  BY <1>6, <1>7, <1>8, <1>9

(* Nothing is due for a caller that is at the arrays. *)
LEMMA ArrayDue ==
  ASSUME TypeOK, NEW c \in Callers, ArrayAction(c), call[c].due = {}
  PROVE  call'[c].due = {} /\ \A d \in Callers \ {c} : call'[d] = call[d]
<1>1. call[c] \in CallState /\ NoCall \in CallState /\ NoCall.due = {}
  BY NoCallType DEF TypeOK, NoCall
<1>2. ASSUME NEW k, NEW p
      PROVE  InsertInto(k, p).due = {} /\ RemoveFrom(k, p).due = {}
             /\ AfterArray("insert", k, p).due = {} /\ AfterArray("remove", k, p).due = {}
  <2>1. ASSUME NEW at
        PROVE  AfterArray(at, k, p).due = {}
    BY <1>1 DEF AfterArray, CallState
  <2> QED
    BY <1>1, <2>1 DEF InsertInto, RemoveFrom, CallState
<1>3. PICK new : call' = [call EXCEPT ![c] = new] /\ new.due = {}
  <2>1. CASE IOCTL_SSDT_ADD(c)
    <3>1. PICK p \in PIDs : call' = [call EXCEPT ![c] = InsertInto("protect", p)]
      BY <2>1 DEF IOCTL_SSDT_ADD, Send
    <3> QED
      BY <1>2, <3>1
  <2>2. CASE IOCTL_SSDT_DELETE(c)
    <3>1. PICK p \in PIDs : call' = [call EXCEPT ![c] = RemoveFrom("protect", p)]
      BY <2>2 DEF IOCTL_SSDT_DELETE, Send
    <3> QED
      BY <1>2, <3>1
  <2>3. CASE InsertHideProcess(c)
    BY <1>2, <2>3 DEF InsertHideProcess
  <2>4. CASE RemoveHideProcess(c)
    BY <1>2, <2>4 DEF RemoveHideProcess
  <2>5. CASE Grow(c)
    <3> DEFINE n == len[call[c].kind]
               new == [call[c] EXCEPT !.at = "insertStores", !.slot = n, !.word = call[c].pid,
                         !.newLen = (n + 1) % Word, !.todo = {"len", "element"}]
    <3>1. call' = [call EXCEPT ![c] = new]
      BY <2>5 DEF Grow
    <3>2. new.due = {}
      BY <1>1 DEF CallState
    <3> QED
      BY <3>1, <3>2
  <2>6. CASE Shrink(c)
    <3> DEFINE n == len[call[c].kind]
               new(w) == [call[c] EXCEPT !.at = "removeStores", !.word = w,
                            !.newLen = (n + Word - 1) % Word, !.todo = {"len", "element"}]
    <3>1. PICK w \in WordAt(call[c].kind, n) : call' = [call EXCEPT ![c] = new(w)]
      BY <2>6 DEF Shrink
    <3>2. new(w).due = {}
      BY <1>1 DEF CallState
    <3> QED
      BY <3>1, <3>2
  <2>7. ASSUME NEW s
        PROVE  AfterStore(c, s).due = {}
    <3>1. [call[c] EXCEPT !.todo = @ \ {s}].due = {}
      BY <1>1 DEF CallState
    <3>2. AfterArray(IF call[c].at = "insertStores" THEN "insert" ELSE "remove",
                     call[c].kind, call[c].pid).due = {}
      BY <1>2
    <3> QED
      BY <3>1, <3>2 DEF AfterStore
  <2>8. CASE StoreElement(c) \/ StoreLen(c)
    BY <2>7, <2>8 DEF StoreElement, StoreLen
  <2> QED
    BY <2>1, <2>2, <2>3, <2>4, <2>5, <2>6, <2>8 DEF ArrayAction
<1> QED
  BY <1>3, CallAlone

LEMMA OtherWalk ==
  ASSUME TypeOK, ~broken, HookAction \/ \E c \in Callers : ArrayAction(c),
         NEW G, NEW R, Walk(G, R)
  PROVE  Walk(G, R)'
<1>1. UNCHANGED listVars /\ Ordered(G, R)' /\ NoneSkipped(G, R)'
  BY LeavesList, WalkKept DEF Walk
<1>2. CASE HookAction
  <2>1. call' = call
    BY <1>2 DEF HookAction, HookStarts, HookStep, ScanNext, MyNtTerminateProcess, TerminateDecided,
       MyNtQuerySystemInformation, ProcessKept, ProcessHidden, CreateProcessNotifyEx, Match, Back,
       HookReturns
  <2> QED
    BY <1>1, <2>1 DEF Walk, DueAhead, listVars
<1>3. ASSUME NEW c \in Callers, ArrayAction(c)
      PROVE  Walk(G, R)'
  <2>1. call[c].at \notin {"compare", "unlink", "advance"}
    <3>1. NoCall.at = "idle"
      BY DEF NoCall
    <3>2. CASE IOCTL_SSDT_ADD(c) \/ IOCTL_SSDT_DELETE(c)
      BY <3>1, <3>2 DEF IOCTL_SSDT_ADD, IOCTL_SSDT_DELETE, Send, MaySend
    <3>3. CASE InsertHideProcess(c) \/ RemoveHideProcess(c) \/ Grow(c) \/ Shrink(c)
      BY <3>3 DEF InsertHideProcess, RemoveHideProcess, Grow, Shrink
    <3>4. CASE StoreElement(c) \/ StoreLen(c)
      BY <3>4 DEF StoreElement, StoreLen
    <3> QED
      BY <1>3, <3>2, <3>3, <3>4 DEF ArrayAction
  <2>2. call[c].due = {}
    BY <2>1 DEF Walk, DueAhead
  <2>3. call'[c].due = {} /\ \A d \in Callers \ {c} : call'[d] = call[d]
    BY <1>3, <2>2, ArrayDue
  <2>4. ASSUME NEW d \in Callers
        PROVE  DueAhead(d, G, R)'
    <3>1. CASE d = c
      BY <2>3, <3>1 DEF DueAhead
    <3>2. CASE d # c
      <4>1. call'[d] = call[d] /\ DueAhead(d, G, R)
        BY <2>3, <3>2 DEF Walk
      <4> QED
        BY <1>1, <4>1 DEF DueAhead, listVars
    <3> QED
      BY <3>1, <3>2
  <2> QED
    BY <1>1, <2>4 DEF Walk
<1> QED
  BY <1>2, <1>3

LEMMA WalksStep ==
  ASSUME TypeOK, TypeOK', broken \/ ListSound, broken \/ WalksOn, Next, ~broken'
  PROVE  WalksOn'
<1>1. ListSound /\ WalksOn /\ ~broken /\ (HookAction \/ \E c \in Callers : ArrayAction(c) \/ ListAction(c))
  BY StepKinds, StaysBroken DEF ListSound
<1>2. PICK G \in SUBSET Blocks, R \in SUBSET (Blocks \X Blocks) : Walk(G, R)
  BY <1>1 DEF WalksOn
<1>3. ASSUME NEW c \in Callers, IOCTL_SSDT_FORBIDPROCESS_ADD(c)
      PROVE  WalksOn'
  BY <1>1, <1>2, <1>3, AddWalk
<1>4. ASSUME NEW c \in Callers, IOCTL_SSDT_CLAER_BLACK_ILST(c)
      PROVE  WalksOn'
  BY <1>1, <1>4, ClearWalk
<1>5. ASSUME NEW c \in Callers,
             Unlink(c) \/ Compare(c) \/ Advance(c) \/ Deleted(c) \/ IOCTL_SSDT_FORBIDPROCESS_DELETE(c)
      PROVE  Walk(G, R)'
  BY <1>1, <1>2, <1>5, UnlinkWalk, DeleteWalk
<1>6. ASSUME HookAction \/ \E c \in Callers : ArrayAction(c)
      PROVE  Walk(G, R)'
  BY <1>1, <1>2, <1>6, OtherWalk
<1>7. ASSUME Walk(G, R)'
      PROVE  WalksOn'
  BY <1>7 DEF WalksOn
<1> QED
  BY <1>1, <1>3, <1>4, <1>5, <1>6, <1>7 DEF ListAction, ClearBroken

(* A deletion that walks without the lock takes out every entry it was     *)
(* sent for that others have not taken out before it comes there.          *)
THEOREM NoneLeftBehind == Spec => []DeletedIsGone
<1>1. Init => WalksOn
  <2>1. Init => Walk({}, {})
    BY DEF Init, Walk, Ordered, NoneSkipped, DueAhead, NoCall, Range
  <2> QED
    BY <2>1 DEF WalksOn
<1>2. /\ TypeOK /\ TypeOK' /\ (broken \/ ListSound) /\ (broken \/ WalksOn) /\ [Next]_vars
      => broken' \/ WalksOn'
  <2>1. ASSUME broken \/ WalksOn, UNCHANGED vars
        PROVE  broken' \/ WalksOn'
    <3>0. broken \/ WalksOn
      BY <2>1
    <3> SUFFICES ASSUME ~broken
                 PROVE  WalksOn'
      BY <2>1 DEF vars, listVars
    <3>1. PICK G \in SUBSET Blocks, R \in SUBSET (Blocks \X Blocks) : Walk(G, R)
      BY <3>0 DEF WalksOn
    <3>2. UNCHANGED listVars /\ call' = call
      BY <2>1 DEF vars
    <3>3. Ordered(G, R)' /\ NoneSkipped(G, R)'
      BY <3>1, <3>2, WalkKept DEF Walk
    <3>4. Walk(G, R)'
      BY <3>1, <3>2, <3>3 DEF Walk, DueAhead, listVars
    <3> QED
      BY <3>4 DEF WalksOn
  <2> QED
    BY <2>1, WalksStep
<1>3. broken \/ WalksOn => DeletedIsGone
  BY DEF WalksOn, Walk, DueAhead, DeletedIsGone
<1> QED
  BY <1>1, <1>2, <1>3, TypeCorrect, SoundAlways, PTL DEF Spec

--------------------------------------------------------------------------
(* Deletions: no way back. *)

(* A walk gets on: of the blocks in use, those listed before the last      *)
(* clear come before the others, and among the others newer ones before    *)
(* older ones (W); a link leads on, or to a block that was freed, and from *)
(* there nowhere, until the block is in the list again.  So what a walk    *)
(* has left is before what it is at.                                       *)
InUse == {x \in Blocks : name[x] # NoName /\ x \notin freed}
Before(G, W) ==
  /\ Range(listed) \subseteq G /\ G \subseteq InUse /\ W \subseteq InUse \X InUse
  /\ \A x, y \in InUse : <<x, y>> \in W => <<y, x>> \notin W
  /\ \A x, y, z \in InUse : <<x, y>> \in W /\ <<y, z>> \in W => <<x, z>> \in W
  /\ \A x \in InUse \ G, y \in G : <<x, y>> \in W
LinksLead(G, W) ==
  /\ \A x \in InUse : /\ flink[x] \in InUse \union freed \union {ListHead}
                      /\ flink[x] \in InUse => <<x, flink[x]>> \in W
                      /\ x \in G => flink[x] \in G \union {ListHead}
  /\ \A x \in freed : flink[x] = ListHead /\ name[x] # NoName
LeftBefore(c, G, W) == call[c].at \in {"compare", "unlink", "advance"} =>
  /\ call[c].entry \in InUse \union freed /\ call[c].passed \subseteq InUse
  /\ call[c].entry \in InUse => \A p \in call[c].passed : <<p, call[c].entry>> \in W
  /\ call[c].entry \in freed => call[c].passed \intersect G = {}
Lead(G, W) ==
  Before(G, W) /\ LinksLead(G, W) /\ \A c \in Callers : LeftBefore(c, G, W)
WalksLead == \E G \in SUBSET Blocks, W \in SUBSET (Blocks \X Blocks) : Lead(G, W)

LEMMA LeadKept ==
  ASSUME NEW G, NEW W, Before(G, W), LinksLead(G, W), UNCHANGED listVars
  PROVE  Before(G, W)' /\ LinksLead(G, W)' /\ InUse' = InUse /\ freed' = freed
BY DEF Before, LinksLead, InUse, listVars, Range

LEMMA AddLead ==
  ASSUME TypeOK, TypeOK', ListSound, NEW c \in Callers, IOCTL_SSDT_FORBIDPROCESS_ADD(c),
         NEW G \in SUBSET Blocks, NEW W \in SUBSET (Blocks \X Blocks), Lead(G, W)
  PROVE  WalksLead'
<1>1. PICK m \in Names, b \in Allocatable :
        /\ name' = [name EXCEPT ![b] = m]
        /\ flink' = [flink EXCEPT ![b] = flink[ListHead], ![ListHead] = b]
        /\ listed' = <<b>> \o listed
        /\ freed' = freed \ {b}
  BY DEF IOCTL_SSDT_FORBIDPROCESS_ADD
<1>2. b \in Blocks /\ b # ListHead /\ b \notin Range(listed)
  BY NewBlock
<1>3. b \notin InUse /\ G \subseteq InUse /\ W \subseteq InUse \X InUse /\ b \notin G
  BY DEF Lead, Before, InUse, Allocatable
<1>4. Range(listed') = {b} \union Range(listed)
  BY <1>1, <1>2, AddRange
<1>5. InUse' = InUse \union {b} /\ freed' = freed \ {b} /\ freed \subseteq Blocks
  <2>1. m # NoName
    BY SsdtAssumption
  <2> QED
    BY <1>1, <1>2, <2>1 DEF InUse, TypeOK
<1>6. \A x \in Blocks \ {b} : flink'[x] = flink[x] /\ name'[x] = name[x]
  BY <1>1, <1>2, SsdtAssumption DEF TypeOK, Entries
<1> DEFINE H == G \union {b}
           V == W \union ({b} \X G) \union ((InUse \ G) \X {b})
<1>7. /\ \A x, y \in InUse : <<x, y>> \in W => <<y, x>> \notin W
      /\ \A x, y, z \in InUse : <<x, y>> \in W /\ <<y, z>> \in W => <<x, z>> \in W
      /\ \A x \in InUse \ G, y \in G : <<x, y>> \in W
  BY DEF Lead, Before
<1>8. \A x, y \in InUse : <<x, y>> \in W /\ x \in G => y \in G
  BY <1>7
<1>9. PICK U \in SUBSET Blocks, K \in SUBSET Blocks, Q \in SUBSET (Blocks \X Blocks) :
        U = InUse /\ K = H /\ Q = V
  BY <1>2, <1>3 DEF InUse
<1> HIDE DEF H, V
<1>10. \A x, y : <<x, y>> \in Q <=>
          <<x, y>> \in W \/ (x = b /\ y \in G) \/ (x \in U \ G /\ y = b)
  BY <1>9 DEF V
<1>11. K = G \union {b} /\ b \notin U /\ G \subseteq U /\ W \subseteq U \X U /\ InUse' = U \union {b}
  BY <1>3, <1>5, <1>9 DEF H
<1>12. Before(K, Q)'
  <2>1. Range(listed') \subseteq K /\ K \subseteq InUse'
    BY <1>4, <1>11 DEF Lead, Before
  <2>2. Q \subseteq InUse' \X InUse'
    <3>1. ASSUME NEW q \in Q
          PROVE  q \in InUse' \X InUse'
      <4>1. PICK x \in Blocks, y \in Blocks : q = <<x, y>>
        OBVIOUS
      <4> QED
        BY <1>10, <1>11, <4>1
    <3> QED
      BY <3>1
  <2>3. ASSUME NEW x \in U \union {b}, NEW y \in U \union {b}, <<x, y>> \in Q
        PROVE  <<y, x>> \notin Q
    <3>1. CASE x = b
      BY <1>10, <1>11, <2>3, <3>1
    <3>2. CASE y = b
      BY <1>10, <1>11, <2>3, <3>2
    <3>3. CASE x # b /\ y # b
      BY <1>7, <1>9, <1>10, <2>3, <3>3
    <3> QED
      BY <3>1, <3>2, <3>3
  <2>4. ASSUME NEW x \in U \union {b}, NEW y \in U \union {b}, NEW z \in U \union {b},
               <<x, y>> \in Q, <<y, z>> \in Q
        PROVE  <<x, z>> \in Q
    <3>1. CASE x = b
      <4>1. y \in G /\ y # b
        BY <1>10, <1>11, <2>4, <3>1
      <4>2. <<y, z>> \in W /\ z \in U
        BY <1>10, <1>11, <2>4, <4>1
      <4> QED
        BY <1>8, <1>9, <1>10, <1>11, <3>1, <4>1, <4>2
    <3>2. CASE y = b
      <4>1. x \in U \ G /\ z \in G
        BY <1>10, <1>11, <2>4, <3>2
      <4> QED
        BY <1>7, <1>9, <1>10, <4>1
    <3>3. CASE z = b /\ x # b /\ y # b
      <4>1. <<x, y>> \in W /\ y \in U \ G /\ x \in U
        BY <1>10, <1>11, <2>4, <3>3
      <4>2. x \notin G
        BY <1>8, <1>9, <4>1
      <4> QED
        BY <1>10, <3>3, <4>1, <4>2
    <3>4. CASE x # b /\ y # b /\ z # b
      <4>1. <<x, y>> \in W /\ <<y, z>> \in W /\ x \in U /\ y \in U /\ z \in U
        BY <1>10, <2>4, <3>4
      <4> QED
        BY <1>7, <1>9, <1>10, <4>1
    <3> QED
      BY <3>1, <3>2, <3>3, <3>4
  <2>5. ASSUME NEW x \in (U \union {b}) \ K, NEW y \in K
        PROVE  <<x, y>> \in Q
    BY <1>7, <1>9, <1>10, <1>11
  <2> QED
    BY <1>11, <2>1, <2>2, <2>3, <2>4, <2>5 DEF Before
<1>13. flink[ListHead] \in G \union {ListHead}
  <2>1. Range(listed) \subseteq G
    BY DEF Lead, Before
  <2> QED
    BY <2>1, HeadLeads
<1>14. LinksLead(K, Q)'
  <2>1. flink'[b] = flink[ListHead]
    BY <1>1, <1>2 DEF TypeOK, Entries
  <2>2. ASSUME NEW x \in U \union {b}
        PROVE  /\ flink'[x] \in U \union {b} \union freed' \union {ListHead}
               /\ flink'[x] \in U \union {b} => <<x, flink'[x]>> \in Q
               /\ x \in K => flink'[x] \in K \union {ListHead}
    <3>1. CASE x = b
      <4>1. ListHead \notin U \union {b}
        BY <1>2, SsdtAssumption
      <4> QED
        BY <1>10, <1>11, <1>13, <2>1, <3>1, <4>1
    <3>2. CASE x # b
      <4>1. x \in U /\ x \in Blocks \ {b}
        BY <3>2
      <4>2. /\ flink[x] \in U \union freed \union {ListHead}
            /\ flink[x] \in U => <<x, flink[x]>> \in W
            /\ x \in G => flink[x] \in G \union {ListHead}
        BY <1>9, <4>1 DEF Lead, LinksLead
      <4>3. flink'[x] = flink[x]
        BY <1>6, <4>1
      <4>4. flink[x] = b => x \notin G
        BY <1>2, <1>11, <4>2
      <4> QED
        BY <1>5, <1>10, <1>11, <3>2, <4>1, <4>2, <4>3, <4>4
    <3> QED
      BY <3>1, <3>2
  <2>3. ASSUME NEW x \in freed'
        PROVE  flink'[x] = ListHead /\ name'[x] # NoName
    <3>1. x \in freed /\ x \in Blocks \ {b}
      BY <1>5
    <3>2. flink[x] = ListHead /\ name[x] # NoName
      BY <3>1 DEF Lead, LinksLead
    <3> QED
      BY <1>6, <3>1, <3>2
  <2> QED
    BY <1>11, <2>2, <2>3 DEF LinksLead
<1>15. call' = call
  BY DEF IOCTL_SSDT_FORBIDPROCESS_ADD, Send, MaySend, TypeOK
<1>16. ASSUME NEW d \in Callers
       PROVE  LeftBefore(d, K, Q)'
  <2> SUFFICES ASSUME call[d].at \in {"compare", "unlink", "advance"}
               PROVE  /\ call[d].entry \in InUse' \union freed' /\ call[d].passed \subseteq InUse'
                      /\ call[d].entry \in InUse' => \A p \in call[d].passed : <<p, call[d].entry>> \in Q
                      /\ call[d].entry \in freed' => call[d].passed \intersect K = {}
    BY <1>15 DEF LeftBefore
  <2>1. /\ call[d].entry \in U \union freed /\ call[d].passed \subseteq U
        /\ call[d].entry \in U => \A p \in call[d].passed : <<p, call[d].entry>> \in W
        /\ call[d].entry \in freed => call[d].passed \intersect G = {}
    BY <1>9 DEF Lead, LeftBefore
  <2>2. CASE call[d].entry = b
    <3>1. call[d].entry \in freed
      BY <1>11, <2>1, <2>2
    <3> QED
      BY <1>5, <1>10, <1>11, <2>1, <2>2, <3>1
  <2>3. CASE call[d].entry # b
    BY <1>5, <1>10, <1>11, <2>1, <2>3
  <2> QED
    BY <2>2, <2>3
<1> QED
  BY <1>12, <1>14, <1>16 DEF WalksLead, Lead

LEMMA UnlinkLead ==
  ASSUME TypeOK, TypeOK', ListSound, NEW c \in Callers, Unlink(c), ~broken',
         NEW G \in SUBSET Blocks, NEW W \in SUBSET (Blocks \X Blocks), Lead(G, W)
  PROVE  Lead(G, W)'
<1> DEFINE e == call[c].entry
           E == Excused({e})
<1>0. /\ UNCHANGED <<name, freed>>
      /\ call' = [E EXCEPT ![c] = [E[c] EXCEPT !.at = "advance"]] /\ call[c].at = "unlink"
      /\ flink' = [flink EXCEPT ![blink[e]] = flink[e]]
      /\ listed' = IF e \in Range(listed) THEN RemoveAt(listed, PositionOf(e)) ELSE listed
  BY DEF Unlink
<1>1. InUse' = InUse /\ freed' = freed
  BY <1>0 DEF InUse
<1>2. ASSUME NEW d \in Callers
      PROVE  LeftBefore(d, G, W)'
  <2>1. E \in [Callers -> CallState] /\ E[d] = [call[d] EXCEPT !.due = @ \ {e}] /\ call[d] \in CallState
    BY ExcusedType DEF Excused, TypeOK
  <2>2. E[d].entry = call[d].entry /\ E[d].passed = call[d].passed /\ E[d].at = call[d].at /\ E[d] \in CallState
    BY <2>1 DEF CallState
  <2> HIDE DEF E, e
  <2>3. /\ call'[d].entry = call[d].entry /\ call'[d].passed = call[d].passed
        /\ call'[d].at \in {"compare", "unlink", "advance"} => call[d].at \in {"compare", "unlink", "advance"}
    <3>1. CASE d = c
      <4>1. call'[d] = [E[d] EXCEPT !.at = "advance"]
        BY <1>0, <2>1, <3>1
      <4>2. call'[d].entry = call[d].entry /\ call'[d].passed = call[d].passed
        BY <2>2, <4>1 DEF CallState
      <4> QED
        BY <1>0, <3>1, <4>2
    <3>2. CASE d # c
      BY <1>0, <2>1, <2>2, <3>2
    <3> QED
      BY <3>1, <3>2
  <2>4. LeftBefore(d, G, W)
    BY DEF Lead
  <2> QED
    BY <1>1, <2>3, <2>4 DEF LeftBefore
<1> HIDE DEF E
<1>3. CASE e \notin Range(listed)
  <2>1. UNCHANGED <<flink, listed, name, freed>>
    BY <1>3, UnlinkKinds DEF listVars
  <2>2. Before(G, W)' /\ LinksLead(G, W)'
    BY <2>1 DEF Lead, Before, LinksLead, InUse, Range
  <2> QED
    BY <1>2, <2>2 DEF Lead
<1>4. CASE e \in Range(listed)
  <2> DEFINE p == PositionOf(e)
  <2> HIDE DEF p
  <2>1. /\ Len(listed) \in Nat /\ p \in 1 .. Len(listed) /\ listed[p] = e /\ e \in Range(listed)
        /\ listed' = RemoveAt(listed, p)
        /\ flink' = [flink EXCEPT ![blink[e]] = flink[e]]
    BY <1>0, <1>4, LinkType, PositionLemma DEF p
  <2>2. Range(listed') \subseteq Range(listed) /\ Range(listed) \subseteq G /\ G \subseteq InUse
    BY <1>0, <1>4, <2>1, RemoveRange DEF Lead, Before
  <2>3. Before(G, W)'
    BY <1>1, <2>2 DEF Lead, Before
  <2>4. /\ blink[e] = ListHead \/ (blink[e] \in G /\ flink[blink[e]] = e)
        /\ flink[e] \in G \union {ListHead}
        /\ blink[e] \in Entries
    <3>1. p - 1 \in 0 .. Len(listed) /\ (p - 1) + 1 = p /\ p \in 0 .. Len(listed)
          /\ (p - 1 = 0 \/ p - 1 \in 1 .. Len(listed)) /\ Link(p) = e
      BY <2>1, LinkType
    <3>2. blink[e] = Link(p - 1) /\ flink[Link(p - 1)] = e
      BY <3>1 DEF ListSound
    <3>3. blink[e] = ListHead \/ blink[e] \in G
      BY <2>2, <3>1, <3>2, LinkType DEF Range
    <3>4. flink[e] \in G \union {ListHead}
      BY <2>1, <2>2 DEF Lead, LinksLead
    <3>5. blink[e] \in Entries
      BY <2>2, <3>3 DEF Entries
    <3> QED
      BY <3>2, <3>3, <3>4, <3>5
  <2>5. \A x \in Entries : flink'[x] = IF x = blink[e] THEN flink[e] ELSE flink[x]
    BY <2>1, <2>4 DEF TypeOK
  <2>6. ASSUME NEW x \in InUse
        PROVE  /\ flink'[x] \in InUse \union freed \union {ListHead}
               /\ flink'[x] \in InUse => <<x, flink'[x]>> \in W
               /\ x \in G => flink'[x] \in G \union {ListHead}
    <3>1. x \in Entries /\ x # ListHead
      BY SsdtAssumption DEF InUse, Entries
    <3>2. /\ flink[x] \in InUse \union freed \union {ListHead}
          /\ flink[x] \in InUse => <<x, flink[x]>> \in W
          /\ x \in G => flink[x] \in G \union {ListHead}
      BY DEF Lead, LinksLead
    <3>3. CASE x # blink[e]
      BY <2>5, <3>1, <3>2, <3>3
    <3>4. CASE x = blink[e]
      <4>1. flink'[x] = flink[e] /\ flink[x] = e /\ e \in InUse /\ e \in G
        BY <2>1, <2>2, <2>4, <2>5, <3>1, <3>4
      <4>2. flink[e] \in InUse => <<e, flink[e]>> \in W
        BY <4>1 DEF Lead, LinksLead
      <4>3. flink[e] \in InUse => <<x, flink[e]>> \in W
        BY <3>2, <4>1, <4>2 DEF Lead, Before
      <4> QED
        BY <2>2, <2>4, <4>1, <4>3
    <3> QED
      BY <3>3, <3>4
  <2>7. ASSUME NEW x \in freed
        PROVE  flink'[x] = ListHead /\ name[x] # NoName
    <3>1. x \in Entries /\ x # blink[e]
      BY <2>2, <2>4, SsdtAssumption DEF TypeOK, Entries, InUse
    <3> QED
      BY <2>5, <3>1 DEF Lead, LinksLead
  <2>8. LinksLead(G, W)'
    BY <1>0, <1>1, <2>6, <2>7 DEF LinksLead
  <2> QED
    BY <1>2, <2>3, <2>8 DEF Lead
<1> QED
  BY <1>3, <1>4

LEMMA ClearLead ==
  ASSUME TypeOK, TypeOK', NEW c \in Callers, IOCTL_SSDT_CLAER_BLACK_ILST(c),
         NEW G \in SUBSET Blocks, NEW W \in SUBSET (Blocks \X Blocks), Lead(G, W)
  PROVE  WalksLead'
<1>1. /\ listed' = <<>> /\ Range(listed') = {} /\ name' = name
      /\ freed' = freed \union Range(listed)
      /\ flink' = [x \in Entries |-> IF x \in Range(listed) \union {ListHead} THEN ListHead ELSE flink[x]]
  BY DEF IOCTL_SSDT_CLAER_BLACK_ILST, Range
<1>2. PICK V \in SUBSET (Blocks \X Blocks) : V = W \intersect (InUse' \X InUse')
  OBVIOUS
<1>3. InUse' = InUse \ Range(listed) /\ Range(listed) \subseteq InUse /\ freed \subseteq Blocks
  BY <1>1 DEF InUse, Lead, Before, TypeOK
<1>4. Before({}, V)'
  <2>1. ASSUME NEW x \in InUse', NEW y \in InUse', <<x, y>> \in V
        PROVE  <<y, x>> \notin V
    BY <1>2, <1>3, <2>1 DEF Lead, Before
  <2>2. ASSUME NEW x \in InUse', NEW y \in InUse', NEW z \in InUse', <<x, y>> \in V, <<y, z>> \in V
        PROVE  <<x, z>> \in V
    BY <1>2, <1>3, <2>2 DEF Lead, Before
  <2> QED
    BY <1>1, <1>2, <2>1, <2>2 DEF Before
<1>5. LinksLead({}, V)'
  <2>1. ASSUME NEW x \in InUse'
        PROVE  /\ flink'[x] \in InUse' \union freed' \union {ListHead}
               /\ flink'[x] \in InUse' => <<x, flink'[x]>> \in V
    <3>1. x \in InUse /\ x \in Entries /\ x \notin Range(listed) /\ x # ListHead
      BY <1>3, SsdtAssumption DEF InUse, Entries
    <3>2. flink'[x] = flink[x]
      BY <1>1, <3>1
    <3>3. /\ flink[x] \in InUse \union freed \union {ListHead}
          /\ flink[x] \in InUse => <<x, flink[x]>> \in W
      BY <3>1 DEF Lead, LinksLead
    <3> QED
      BY <1>1, <1>2, <1>3, <3>2, <3>3
  <2>2. ASSUME NEW x \in freed'
        PROVE  flink'[x] = ListHead /\ name'[x] # NoName
    <3>1. x \in Entries
      BY DEF TypeOK, Entries
    <3>2. x \in Range(listed) \/ (x \in freed /\ flink[x] = ListHead /\ name[x] # NoName)
      BY <1>1 DEF Lead, LinksLead
    <3>3. x \in Range(listed) => name[x] # NoName
      BY <1>3 DEF InUse
    <3> QED
      BY <1>1, <3>1, <3>2, <3>3
  <2> QED
    BY <2>1, <2>2 DEF LinksLead
<1>6. ASSUME NEW d \in Callers
      PROVE  LeftBefore(d, {}, V)'
  <2>1. /\ call'[d].at = call[d].at /\ call'[d].entry = call[d].entry
        /\ call'[d].passed = call[d].passed \ Range(listed)
    <3>1. Excused(Range(listed))[d] = [call[d] EXCEPT !.due = @ \ Range(listed)] /\ call[d] \in CallState
      BY DEF Excused, TypeOK
    <3>2. call'[d] = [Excused(Range(listed))[d] EXCEPT !.passed = @ \ Range(listed)]
      BY DEF IOCTL_SSDT_CLAER_BLACK_ILST
    <3> QED
      BY <3>1, <3>2, ExcusedType DEF CallState
  <2>2. LeftBefore(d, G, W)
    BY DEF Lead
  <2> SUFFICES ASSUME call'[d].at \in {"compare", "unlink", "advance"}
               PROVE  LeftBefore(d, {}, V)'
    BY DEF LeftBefore
  <2>3. /\ call[d].entry \in InUse \union freed /\ call[d].passed \subseteq InUse
        /\ call[d].entry \in InUse => \A p \in call[d].passed : <<p, call[d].entry>> \in W
    BY <2>1, <2>2 DEF LeftBefore
  <2>4. /\ call'[d].entry \in InUse' \union freed' /\ call'[d].passed \subseteq InUse'
        /\ call'[d].entry \in InUse' => \A p \in call'[d].passed : <<p, call'[d].entry>> \in V
    BY <1>1, <1>2, <1>3, <2>1, <2>3
  <2> QED
    BY <2>4 DEF LeftBefore
<1> QED
  BY <1>4, <1>5, <1>6 DEF WalksLead, Lead

LEMMA DeleteLead ==
  ASSUME TypeOK, ListSound, NEW c \in Callers,
         Compare(c) \/ Advance(c) \/ Deleted(c) \/ IOCTL_SSDT_FORBIDPROCESS_DELETE(c),
         NEW G \in SUBSET Blocks, NEW W \in SUBSET (Blocks \X Blocks), Lead(G, W)
  PROVE  Lead(G, W)'
<1>1. UNCHANGED listVars
  BY DEF Compare, Advance, Deleted, IOCTL_SSDT_FORBIDPROCESS_DELETE
<1>2. Before(G, W)' /\ LinksLead(G, W)' /\ InUse' = InUse /\ freed' = freed
  BY <1>1, LeadKept DEF Lead
<1>3. call[c] \in CallState /\ NoCall \in CallState /\ NoCall.at = "idle" /\ NoCall.passed = {}
  BY NoCallType DEF TypeOK, NoCall
<1>4. ASSUME NEW new, call' = [call EXCEPT ![c] = new],
             new.at \in {"compare", "unlink", "advance"} =>
               /\ new.entry \in InUse \union freed /\ new.passed \subseteq InUse
               /\ new.entry \in InUse => \A p \in new.passed : <<p, new.entry>> \in W
               /\ new.entry \in freed => new.passed \intersect G = {}
      PROVE  Lead(G, W)'
  <2>1. ASSUME NEW d \in Callers \ {c}
        PROVE  LeftBefore(d, G, W)'
    <3>1. call'[d] = call[d] /\ LeftBefore(d, G, W)
      BY <1>4, CallAlone DEF Lead
    <3> QED
      BY <1>2, <3>1 DEF LeftBefore
  <2>2. call'[c] = new
    BY <1>4, CallAlone
  <2>3. LeftBefore(c, G, W)'
    BY <1>2, <1>4, <2>2 DEF LeftBefore
  <2> QED
    BY <1>2, <2>1, <2>3 DEF Lead
<1>5. LeftBefore(c, G, W)
  BY DEF Lead
<1>6. CASE Compare(c)
  <2>1. PICK at \in {"unlink", "advance"} : call' = [call EXCEPT ![c] = [call[c] EXCEPT !.at = at]]
    BY <1>6 DEF Compare
  <2> DEFINE new == [call[c] EXCEPT !.at = at]
  <2>2. new.entry = call[c].entry /\ new.passed = call[c].passed
    BY <1>3 DEF CallState
  <2>3. call[c].at = "compare" /\ call' = [call EXCEPT ![c] = new]
    BY <1>6, <2>1 DEF Compare
  <2> HIDE DEF new
  <2> QED
    BY <1>4, <1>5, <2>2, <2>3 DEF LeftBefore
<1>7. CASE Advance(c)
  <2> DEFINE e == call[c].entry
             done == [NoCall EXCEPT !.at = "deleted", !.due = call[c].due]
             next == [call[c] EXCEPT !.at = "compare", !.entry = flink[e], !.passed = @ \union {e}]
  <2>1. call[c].at = "advance" /\ call' = [call EXCEPT ![c] = IF flink[e] = ListHead THEN done ELSE next]
    BY <1>7 DEF Advance
  <2>2. done.at = "deleted" /\ next.entry = flink[e] /\ next.passed = call[c].passed \union {e}
    BY <1>3 DEF CallState
  <2> HIDE DEF done, next
  <2>3. CASE flink[e] = ListHead
    <3>1. call' = [call EXCEPT ![c] = done]
      BY <2>1, <2>3
    <3> QED
      BY <1>4, <2>2, <3>1
  <2>4. CASE flink[e] # ListHead
    <3>1. e \in InUse /\ call[c].passed \subseteq InUse /\ \A p \in call[c].passed : <<p, e>> \in W
      <4>1. e \notin freed
        BY <2>4 DEF Lead, LinksLead
      <4> QED
        BY <1>5, <2>1, <4>1 DEF LeftBefore
    <3>2. /\ flink[e] \in InUse \union freed
          /\ flink[e] \in InUse => <<e, flink[e]>> \in W
          /\ e \in G => flink[e] \in G
      BY <2>4, <3>1 DEF Lead, LinksLead
    <3>3. /\ \A x, y \in InUse : <<x, y>> \in W => <<y, x>> \notin W
          /\ \A x, y, z \in InUse : <<x, y>> \in W /\ <<y, z>> \in W => <<x, z>> \in W
          /\ \A x \in InUse \ G, y \in G : <<x, y>> \in W
          /\ G \subseteq InUse
      BY DEF Lead, Before
    <3>4. ASSUME flink[e] \in InUse, NEW p \in call[c].passed \union {e}
          PROVE  <<p, flink[e]>> \in W
      <4>1. <<e, flink[e]>> \in W
        BY <3>2, <3>4
      <4>2. CASE p = e
        BY <4>1, <4>2
      <4>3. CASE p \in call[c].passed
        <5>1. p \in InUse /\ <<p, e>> \in W
          BY <3>1, <4>3
        <5> HIDE DEF e
        <5> QED
          BY <3>1, <3>3, <3>4, <4>1, <5>1
      <4> QED
        BY <4>2, <4>3
    <3>5. ASSUME flink[e] \in freed
          PROVE  (call[c].passed \union {e}) \intersect G = {}
      <4>1. flink[e] \notin InUse
        BY <3>5 DEF InUse
      <4>2. e \notin G
        BY <3>2, <3>3, <4>1
      <4>3. \A p \in call[c].passed : p \notin G
        BY <3>1, <3>3, <4>2
      <4> QED
        BY <4>2, <4>3
    <3>6. call' = [call EXCEPT ![c] = next]
      BY <2>1, <2>4
    <3> QED
      BY <1>4, <2>2, <3>1, <3>2, <3>4, <3>5, <3>6
  <2> QED
    BY <2>3, <2>4
<1>8. CASE Deleted(c)
  <2>1. call' = [call EXCEPT ![c] = NoCall]
    BY <1>8 DEF Deleted
  <2> QED
    BY <1>3, <1>4, <2>1
<1>9. CASE IOCTL_SSDT_FORBIDPROCESS_DELETE(c)
  <2>1. PICK n \in Names : call' = [call EXCEPT ![c] =
          IF flink[ListHead] = ListHead THEN NoCall
          ELSE [NoCall EXCEPT !.at = "compare", !.name = n, !.entry = flink[ListHead],
                  !.due = {b \in Range(listed) : <<n, name[b]>> \in Starts}]]
    BY <1>9 DEF IOCTL_SSDT_FORBIDPROCESS_DELETE, Send
  <2> DEFINE D == {b \in Range(listed) : <<n, name[b]>> \in Starts}
             new == [NoCall EXCEPT !.at = "compare", !.name = n, !.entry = flink[ListHead], !.due = D]
  <2>2. new.entry = flink[ListHead] /\ new.passed = {}
    BY <1>3 DEF CallState
  <2>3. CASE listed = <<>>
    <3>1. call' = [call EXCEPT ![c] = NoCall]
      BY <2>1, <2>3, HeadLeads
    <3> QED
      BY <1>3, <1>4, <3>1
  <2>4. CASE listed # <<>>
    <3>1. flink[ListHead] \in InUse /\ flink[ListHead] # ListHead
      BY <2>4, HeadLeads, ListedType DEF Lead, Before
    <3>2. call' = [call EXCEPT ![c] = new]
      BY <2>1, <3>1
    <3> HIDE DEF new, D
    <3> QED
      BY <1>4, <2>2, <3>1, <3>2
  <2> QED
    BY <2>3, <2>4
<1> QED
  BY <1>6, <1>7, <1>8, <1>9

LEMMA ArrayStays ==
  ASSUME TypeOK, NEW c \in Callers, ArrayAction(c)
  PROVE  /\ call'[c].at \notin {"compare", "unlink", "advance"}
         /\ \A d \in Callers \ {c} : call'[d] = call[d]
<1>1. call[c] \in CallState /\ call[c].kind \in Kinds /\ call[c].pid \in PIDs \union {0}
      /\ "protect" \in Kinds /\ "hide" \in Kinds
  BY DEF TypeOK, CallState, Kinds
<1>2. PICK new : call' = [call EXCEPT ![c] = new] /\ new.at \notin {"compare", "unlink", "advance"}
  <2>1. CASE IOCTL_SSDT_ADD(c)
    <3>1. PICK p \in PIDs : call' = [call EXCEPT ![c] = InsertInto("protect", p)]
      BY <2>1 DEF IOCTL_SSDT_ADD, Send
    <3> QED
      BY <1>1, <3>1, LookLeads
  <2>2. CASE IOCTL_SSDT_DELETE(c)
    <3>1. PICK p \in PIDs : call' = [call EXCEPT ![c] = RemoveFrom("protect", p)]
      BY <2>2 DEF IOCTL_SSDT_DELETE, Send
    <3> QED
      BY <1>1, <3>1, LookLeads
  <2>3. CASE InsertHideProcess(c)
    BY <1>1, <2>3, LookLeads DEF InsertHideProcess
  <2>4. CASE RemoveHideProcess(c)
    BY <1>1, <2>4, LookLeads DEF RemoveHideProcess
  <2>5. CASE Grow(c)
    <3> DEFINE n == len[call[c].kind]
               new == [call[c] EXCEPT !.at = "insertStores", !.slot = n, !.word = call[c].pid,
                         !.newLen = (n + 1) % Word, !.todo = {"len", "element"}]
    <3>1. call' = [call EXCEPT ![c] = new]
      BY <2>5 DEF Grow
    <3>2. new.at = "insertStores"
      BY <1>1 DEF CallState
    <3> QED
      BY <3>1, <3>2
  <2>6. CASE Shrink(c)
    <3> DEFINE n == len[call[c].kind]
               new(w) == [call[c] EXCEPT !.at = "removeStores", !.word = w,
                            !.newLen = (n + Word - 1) % Word, !.todo = {"len", "element"}]
    <3>1. PICK w \in WordAt(call[c].kind, n) : call' = [call EXCEPT ![c] = new(w)]
      BY <2>6 DEF Shrink
    <3>2. new(w).at = "removeStores"
      BY <1>1 DEF CallState
    <3> QED
      BY <3>1, <3>2
  <2>7. ASSUME NEW s, call[c].at \in {"insertStores", "removeStores"}
        PROVE  AfterStore(c, s).at \notin {"compare", "unlink", "advance"}
    <3>1. [call[c] EXCEPT !.todo = @ \ {s}].at = call[c].at
      BY <1>1 DEF CallState
    <3>2. AfterArray(IF call[c].at = "insertStores" THEN "insert" ELSE "remove",
                     call[c].kind, call[c].pid).at \in {"idle", "insert", "remove"}
      BY <1>1, LookLeads
    <3> QED
      BY <2>7, <3>1, <3>2 DEF AfterStore
  <2>8. CASE StoreElement(c) \/ StoreLen(c)
    BY <2>7, <2>8 DEF StoreElement, StoreLen
  <2> QED
    BY <2>1, <2>2, <2>3, <2>4, <2>5, <2>6, <2>8 DEF ArrayAction
<1> QED
  BY <1>2, CallAlone

LEMMA LeadsStep ==
  ASSUME TypeOK, TypeOK', broken \/ ListSound, broken \/ WalksLead, Next, ~broken'
  PROVE  WalksLead'
<1>1. ListSound /\ WalksLead /\ ~broken /\ (HookAction \/ \E c \in Callers : ArrayAction(c) \/ ListAction(c))
  BY StepKinds, StaysBroken DEF ListSound
<1>2. PICK G \in SUBSET Blocks, W \in SUBSET (Blocks \X Blocks) : Lead(G, W)
  BY <1>1 DEF WalksLead
<1>3. ASSUME NEW c \in Callers, IOCTL_SSDT_FORBIDPROCESS_ADD(c)
      PROVE  WalksLead'
  BY <1>1, <1>2, <1>3, AddLead
<1>4. ASSUME NEW c \in Callers, IOCTL_SSDT_CLAER_BLACK_ILST(c)
      PROVE  WalksLead'
  BY <1>2, <1>4, ClearLead
<1>5. ASSUME NEW c \in Callers,
             Unlink(c) \/ Compare(c) \/ Advance(c) \/ Deleted(c) \/ IOCTL_SSDT_FORBIDPROCESS_DELETE(c)
      PROVE  Lead(G, W)'
  BY <1>1, <1>2, <1>5, UnlinkLead, DeleteLead
<1>6. ASSUME HookAction \/ \E c \in Callers : ArrayAction(c)
      PROVE  Lead(G, W)'
  <2>1. Before(G, W)' /\ LinksLead(G, W)' /\ InUse' = InUse /\ freed' = freed
    BY <1>1, <1>2, <1>6, LeavesList, LeadKept DEF Lead
  <2>2. \A d \in Callers : call'[d] = call[d] \/ call'[d].at \notin {"compare", "unlink", "advance"}
    <3>1. CASE HookAction
      BY <3>1 DEF HookAction, HookStarts, HookStep, ScanNext, MyNtTerminateProcess, TerminateDecided,
         MyNtQuerySystemInformation, ProcessKept, ProcessHidden, CreateProcessNotifyEx, Match, Back,
         HookReturns
    <3>2. ASSUME NEW c \in Callers, ArrayAction(c)
          PROVE  \A d \in Callers : call'[d] = call[d] \/ call'[d].at \notin {"compare", "unlink", "advance"}
      BY <3>2, ArrayStays
    <3> QED
      BY <1>6, <3>1, <3>2
  <2>3. ASSUME NEW d \in Callers
        PROVE  LeftBefore(d, G, W)'
    <3>1. LeftBefore(d, G, W)
      BY <1>2 DEF Lead
    <3> QED
      BY <2>1, <2>2, <3>1 DEF LeftBefore
  <2> QED
    BY <2>1, <2>3 DEF Lead
<1>7. ASSUME Lead(G, W)'
      PROVE  WalksLead'
  BY <1>7 DEF WalksLead
<1> QED
  BY <1>1, <1>3, <1>4, <1>5, <1>6, <1>7 DEF ListAction, ClearBroken

(* A deletion never compares an entry a second time, so that one by itself *)
(* ends: the links of entries that left the list lead on, and a block that *)
(* is reused is ahead of everything the walk has left.                     *)
THEOREM NoWayBack == Spec => []WalksGetOn
<1>1. Init => WalksLead
  <2>1. Init => Lead({}, {})
    BY DEF Init, Lead, Before, LinksLead, LeftBefore, InUse, NoCall, Range
  <2> QED
    BY <2>1 DEF WalksLead
<1>2. /\ TypeOK /\ TypeOK' /\ (broken \/ ListSound) /\ (broken \/ WalksLead) /\ [Next]_vars
      => broken' \/ WalksLead'
  <2>1. ASSUME broken \/ WalksLead, UNCHANGED vars
        PROVE  broken' \/ WalksLead'
    <3>0. broken \/ WalksLead
      BY <2>1
    <3> SUFFICES ASSUME ~broken
                 PROVE  WalksLead'
      BY <2>1 DEF vars, listVars
    <3>1. PICK G \in SUBSET Blocks, W \in SUBSET (Blocks \X Blocks) : Lead(G, W)
      BY <3>0 DEF WalksLead
    <3>2. UNCHANGED listVars /\ call' = call
      BY <2>1 DEF vars
    <3>3. Before(G, W)' /\ LinksLead(G, W)' /\ InUse' = InUse /\ freed' = freed
      BY <3>1, <3>2, LeadKept DEF Lead
    <3>4. Lead(G, W)'
      BY <3>1, <3>2, <3>3 DEF Lead, LeftBefore
    <3> QED
      BY <3>4 DEF WalksLead
  <2> QED
    BY <2>1, LeadsStep
<1>3. broken \/ WalksLead => WalksGetOn
  <2> SUFFICES ASSUME ~broken, WalksLead, NEW c \in Callers, call[c].at = "compare"
               PROVE  call[c].entry \notin call[c].passed
    BY DEF WalksGetOn
  <2>1. PICK G \in SUBSET Blocks, W \in SUBSET (Blocks \X Blocks) : Before(G, W) /\ LeftBefore(c, G, W)
    BY DEF WalksLead, Lead
  <2>2. /\ call[c].passed \subseteq InUse
        /\ call[c].entry \in InUse => \A p \in call[c].passed : <<p, call[c].entry>> \in W
    BY <2>1 DEF LeftBefore
  <2>3. \A x, y \in InUse : <<x, y>> \in W => <<y, x>> \notin W
    BY <2>1 DEF Before
  <2>4. ASSUME call[c].entry \in call[c].passed
        PROVE  FALSE
    <3> DEFINE e == call[c].entry
    <3>1. e \in call[c].passed /\ call[c].passed \subseteq InUse
          /\ (e \in InUse => \A p \in call[c].passed : <<p, e>> \in W)
      BY <2>2, <2>4
    <3> HIDE DEF e
    <3>2. e \in InUse
      BY <3>1
    <3>3. <<e, e>> \in W
      BY <3>1, <3>2
    <3> QED
      BY <2>3, <3>2, <3>3
  <2> QED
    BY <2>4
<1> QED
  BY <1>1, <1>2, <1>3, TypeCorrect, SoundAlways, PTL DEF Spec

--------------------------------------------------------------------------
(* What it takes to break the list. *)

(* A deletion that nothing was taken out under stands on an entry of the   *)
(* list, or on one that it took out itself and that leads on to the list.  *)
Lone(c) ==
  /\ call[c].at \in {"compare", "unlink"} => call[c].entry \in Range(listed)
  /\ call[c].at = "advance" =>
       /\ call[c].entry \in Blocks \ freed /\ name[call[c].entry] # NoName
       /\ flink[call[c].entry] \in Range(listed) \union {ListHead}
LoneWalks == ~broken /\ \A c \in Callers : Lone(c)

LEMMA LoneAdd ==
  ASSUME TypeOK, ListSound, NEW c \in Callers, IOCTL_SSDT_FORBIDPROCESS_ADD(c),
         NEW d \in Callers, Lone(d)
  PROVE  Lone(d)'
<1>1. PICK m \in Names, b \in Allocatable :
        /\ name' = [name EXCEPT ![b] = m]
        /\ flink' = [flink EXCEPT ![b] = flink[ListHead], ![ListHead] = b]
        /\ listed' = <<b>> \o listed
        /\ freed' = freed \ {b}
  BY DEF IOCTL_SSDT_FORBIDPROCESS_ADD
<1>2. b \in Blocks /\ Range(listed) \subseteq Range(listed')
  BY <1>1, NewBlock, AddRange
<1>3. call' = call
  BY DEF IOCTL_SSDT_FORBIDPROCESS_ADD, Send, MaySend, TypeOK
<1>4. ASSUME call[d].at = "advance"
      PROVE  /\ call[d].entry \in Blocks \ freed' /\ name'[call[d].entry] # NoName
             /\ flink'[call[d].entry] \in Range(listed') \union {ListHead}
  <2> DEFINE e == call[d].entry
  <2>1. /\ e \in Blocks \ freed /\ name[e] # NoName
        /\ flink[e] \in Range(listed) \union {ListHead}
    BY <1>4 DEF Lone
  <2> HIDE DEF e
  <2>2. e # b /\ e # ListHead /\ e \in Entries
    BY <2>1, SsdtAssumption DEF Allocatable, Entries
  <2>3. name'[e] = name[e] /\ flink'[e] = flink[e]
    BY <1>1, <2>1, <2>2 DEF TypeOK
  <2>4. /\ e \in Blocks \ freed' /\ name'[e] # NoName
        /\ flink'[e] \in Range(listed') \union {ListHead}
    BY <1>1, <1>2, <2>1, <2>3
  <2> QED
    BY <2>4 DEF e
<1> QED
  BY <1>2, <1>3, <1>4 DEF Lone

(* What an entry of the list leads to. *)
LEMMA ListedLeads ==
  ASSUME TypeOK, ListSound, NEW e \in Range(listed)
  PROVE  /\ e \in Blocks \ freed /\ name[e] # NoName /\ e # ListHead
         /\ flink[e] \in (Range(listed) \ {e}) \union {ListHead} /\ blink[e] # e /\ blink[e] \in Entries
<1>1. PICK p \in 1 .. Len(listed) : e = listed[p]
  BY LinkType DEF Range
<1>2. /\ p \in 0 .. Len(listed) /\ p - 1 \in 0 .. Len(listed) /\ (p - 1) + 1 = p /\ p # p - 1
      /\ p + 1 = Len(listed) + 1 \/ (p + 1 \in 1 .. Len(listed) /\ p + 1 # p)
      /\ p \in DOMAIN listed
  BY LinkType
<1>3. Link(p) = e /\ e \in Blocks /\ e # ListHead
  BY <1>1, LinkType
<1>4. flink[e] = Link(p + 1) /\ blink[e] = Link(p - 1)
  BY <1>2, <1>3 DEF ListSound
<1>5. flink[e] \in (Range(listed) \ {e}) \union {ListHead}
  <2>1. CASE p + 1 = Len(listed) + 1
    BY <1>4, <2>1, LinkType
  <2>2. CASE p + 1 \in 1 .. Len(listed) /\ p + 1 # p
    <3>1. Link(p + 1) = listed[p + 1] /\ p + 1 \in DOMAIN listed /\ p \in DOMAIN listed
      BY <2>2, LinkType
    <3>2. listed[p + 1] # listed[p]
      BY <2>2, <3>1 DEF ListSound
    <3> QED
      BY <1>1, <1>4, <3>1, <3>2 DEF Range
  <2> QED
    BY <1>2, <2>1, <2>2
<1>6. blink[e] # e
  BY <1>2, <1>3, <1>4, LinksDiffer
<1>7. e \notin freed /\ name[e] # NoName
  BY <1>1, LinkType DEF ListSound
<1>8. blink[e] \in Entries
  BY <1>3 DEF TypeOK, Entries
<1> QED
  BY <1>3, <1>5, <1>6, <1>7, <1>8

(* The steps of the deletion itself. *)
LEMMA LoneDelete ==
  ASSUME TypeOK, ListSound, NEW c \in Callers, Lone(c),
         IOCTL_SSDT_FORBIDPROCESS_DELETE(c) \/ Compare(c) \/ Advance(c) \/ Deleted(c)
  PROVE  /\ UNCHANGED listVars /\ \A d \in Callers \ {c} : call'[d] = call[d]
         /\ Lone(c)'
<1>0. call[c] \in CallState /\ NoCall \in CallState /\ NoCall.at = "idle"
  BY NoCallType DEF TypeOK, NoCall
<1>1. UNCHANGED listVars
  BY DEF IOCTL_SSDT_FORBIDPROCESS_DELETE, Compare, Advance, Deleted
<1>2. ASSUME NEW new, call' = [call EXCEPT ![c] = new],
             \/ new.at \notin {"compare", "unlink", "advance"}
             \/ new.at \in {"compare", "unlink", "advance"} /\ new.entry \in Range(listed)
      PROVE  Lone(c)' /\ \A d \in Callers \ {c} : call'[d] = call[d]
  <2>1. call'[c] = new /\ \A d \in Callers \ {c} : call'[d] = call[d]
    BY <1>2, CallAlone
  <2>2. UNCHANGED <<listed, flink, freed, name>>
    BY <1>1 DEF listVars
  <2>3. CASE new.at \notin {"compare", "unlink", "advance"}
    BY <2>1, <2>3 DEF Lone
  <2>4. CASE new.entry \in Range(listed)
    <3>1. /\ new.entry \in Blocks \ freed /\ name[new.entry] # NoName
          /\ flink[new.entry] \in Range(listed) \union {ListHead}
      BY <2>4, ListedLeads
    <3> QED
      BY <2>1, <2>2, <2>4, <3>1 DEF Lone, Range
  <2> QED
    BY <1>2, <2>1, <2>3, <2>4
<1>3. CASE IOCTL_SSDT_FORBIDPROCESS_DELETE(c)
  <2>1. PICK n \in Names : call' = [call EXCEPT ![c] =
          IF flink[ListHead] = ListHead THEN NoCall
          ELSE [NoCall EXCEPT !.at = "compare", !.name = n, !.entry = flink[ListHead],
                  !.due = {b \in Range(listed) : <<n, name[b]>> \in Starts}]]
    BY <1>3 DEF IOCTL_SSDT_FORBIDPROCESS_DELETE, Send
  <2> DEFINE new == [NoCall EXCEPT !.at = "compare", !.name = n, !.entry = flink[ListHead],
                       !.due = {b \in Range(listed) : <<n, name[b]>> \in Starts}]
  <2>2. new.at = "compare" /\ new.entry = flink[ListHead]
    BY <1>0 DEF CallState
  <2>3. call' = [call EXCEPT ![c] = NoCall] \/ (call' = [call EXCEPT ![c] = new] /\ flink[ListHead] # ListHead)
    BY <2>1
  <2> HIDE DEF new
  <2>4. flink[ListHead] # ListHead => flink[ListHead] \in Range(listed)
    BY HeadLeads
  <2> QED
    BY <1>0, <1>1, <1>2, <2>2, <2>3, <2>4
<1>4. CASE Compare(c)
  <2>1. PICK at \in {"unlink", "advance"} : call' = [call EXCEPT ![c] = [call[c] EXCEPT !.at = at]]
    BY <1>4 DEF Compare
  <2> DEFINE new == [call[c] EXCEPT !.at = at]
  <2>2. new.at = at /\ new.entry = call[c].entry
    BY <1>0 DEF CallState
  <2>3. call[c].entry \in Range(listed)
    BY <1>4 DEF Compare, Lone
  <2>4. call' = [call EXCEPT ![c] = new]
    BY <2>1
  <2> HIDE DEF new
  <2> QED
    BY <1>1, <1>2, <2>2, <2>3, <2>4
<1>5. CASE Advance(c)
  <2> DEFINE done == [NoCall EXCEPT !.at = "deleted", !.due = call[c].due]
             next == [call[c] EXCEPT !.at = "compare", !.entry = flink[call[c].entry],
                        !.passed = @ \union {call[c].entry}]
  <2>1. \/ call' = [call EXCEPT ![c] = done]
        \/ call' = [call EXCEPT ![c] = next] /\ flink[call[c].entry] # ListHead
    BY <1>5 DEF Advance
  <2>2. done.at = "deleted" /\ next.at = "compare" /\ next.entry = flink[call[c].entry]
    BY <1>0 DEF CallState
  <2>3. flink[call[c].entry] \in Range(listed) \union {ListHead}
    BY <1>5 DEF Advance, Lone
  <2> HIDE DEF done, next
  <2> QED
    BY <1>1, <1>2, <2>1, <2>2, <2>3
<1>6. CASE Deleted(c)
  <2>1. call' = [call EXCEPT ![c] = NoCall]
    BY <1>6 DEF Deleted
  <2> QED
    BY <1>0, <1>1, <1>2, <2>1
<1> QED
  BY <1>3, <1>4, <1>5, <1>6

(* A removal that overlaps no other deletion takes out an entry of the     *)
(* list.                                                                   *)
LEMMA LoneUnlink ==
  ASSUME TypeOK, TypeOK', ListSound, LoneWalks, NEW c \in Callers, Unlink(c),
         \A d \in Callers \ {c} : call[d].at \notin {"compare", "unlink", "advance"}
  PROVE  LoneWalks'
<1> DEFINE e == call[c].entry
           E == Excused({e})
<1>1. e \in Range(listed) /\ call[c].at = "unlink"
  BY DEF LoneWalks, Lone, Unlink
<1>2. /\ UNCHANGED <<name, freed>> /\ broken' = broken
      /\ call' = [E EXCEPT ![c] = [E[c] EXCEPT !.at = "advance"]]
      /\ flink' = [flink EXCEPT ![blink[e]] = flink[e]]
      /\ listed' = RemoveAt(listed, PositionOf(e))
  <2>1. broken' = (broken \/ (e \notin Range(listed) /\ <<flink, blink>>' # <<flink, blink>>))
    BY DEF Unlink
  <2>2. broken' = broken
    BY <1>1, <2>1 DEF TypeOK
  <2> QED
    BY <1>1, <2>2 DEF Unlink
<1>3. ASSUME NEW d \in Callers
      PROVE  /\ call'[d].entry = call[d].entry
             /\ call'[d].at = IF d = c THEN "advance" ELSE call[d].at
  <2>1. E \in [Callers -> CallState] /\ E[d] = [call[d] EXCEPT !.due = @ \ {e}] /\ call[d] \in CallState
    BY ExcusedType DEF Excused, TypeOK
  <2>2. E[d].entry = call[d].entry /\ E[d].at = call[d].at /\ E[d] \in CallState
    BY <2>1 DEF CallState
  <2> HIDE DEF E, e
  <2>3. CASE d = c
    <3>1. call'[d] = [E[d] EXCEPT !.at = "advance"]
      BY <1>2, <2>1, <2>3
    <3> QED
      BY <2>2, <2>3, <3>1 DEF CallState
  <2>4. CASE d # c
    BY <1>2, <2>1, <2>2, <2>4
  <2> QED
    BY <2>3, <2>4
<1> HIDE DEF E
<1>4. /\ e \in Blocks \ freed /\ name[e] # NoName /\ e \in Entries
      /\ flink[e] \in (Range(listed) \ {e}) \union {ListHead} /\ blink[e] # e
  BY <1>1, ListedLeads DEF Entries
<1>5. Range(listed') = Range(listed) \ {e}
  <2> HIDE DEF e
  <2> QED
    BY <1>1, <1>2, RemoveRange
<1> HIDE DEF e
<1>6. flink'[e] = flink[e]
  BY <1>2, <1>4 DEF TypeOK
<1>7. call[c].entry = e
  BY DEF e
<1>8. ASSUME NEW d \in Callers
      PROVE  Lone(d)'
  <2>1. CASE d = c
    <3>1. call'[d].at = "advance" /\ call'[d].entry = e
      BY <1>3, <1>7, <2>1
    <3>2. /\ e \in Blocks \ freed' /\ name'[e] # NoName
          /\ flink'[e] \in Range(listed') \union {ListHead}
      BY <1>2, <1>4, <1>5, <1>6
    <3> QED
      BY <3>1, <3>2 DEF Lone
  <2>2. CASE d # c
    BY <1>3, <2>2 DEF Lone
  <2> QED
    BY <2>1, <2>2
<1> QED
  BY <1>2, <1>8 DEF LoneWalks

(* A clear that overlaps no deletion, or finds the list empty. *)
LEMMA LoneClear ==
  ASSUME TypeOK, TypeOK', ListSound, LoneWalks, NEW c \in Callers, IOCTL_SSDT_CLAER_BLACK_ILST(c),
         freed' \ freed # {} => \A d \in Callers : call[d].at \notin {"compare", "unlink", "advance"}
  PROVE  LoneWalks'
<1>1. /\ freed' = freed \union Range(listed) /\ name' = name /\ listed' = <<>> /\ broken' = broken
      /\ flink' = [x \in Entries |-> IF x \in Range(listed) \union {ListHead} THEN ListHead ELSE flink[x]]
  BY DEF IOCTL_SSDT_CLAER_BLACK_ILST
<1>2. ASSUME NEW d \in Callers
      PROVE  call'[d].at = call[d].at /\ call'[d].entry = call[d].entry
  <2>1. Excused(Range(listed))[d] = [call[d] EXCEPT !.due = @ \ Range(listed)] /\ call[d] \in CallState
    BY DEF Excused, TypeOK
  <2> DEFINE x == Excused(Range(listed))[d]
  <2>2. x.at = call[d].at /\ x.entry = call[d].entry /\ x \in CallState
    BY <2>1, ExcusedType DEF CallState
  <2>3. call'[d] = [x EXCEPT !.passed = @ \ Range(listed)]
    BY DEF IOCTL_SSDT_CLAER_BLACK_ILST
  <2> HIDE DEF x
  <2> QED
    BY <2>2, <2>3 DEF CallState
<1>3. CASE Range(listed) = {}
  <2>1. ASSUME NEW d \in Callers
        PROVE  Lone(d)'
    <3>1. Lone(d) /\ Range(listed') = {}
      BY <1>1 DEF LoneWalks, Range
    <3>2. call[d].at \notin {"compare", "unlink"}
      BY <1>3, <3>1 DEF Lone
    <3>3. ASSUME call[d].at = "advance"
          PROVE  /\ call[d].entry \in Blocks \ freed' /\ name'[call[d].entry] # NoName
                 /\ flink'[call[d].entry] \in Range(listed') \union {ListHead}
      <4> DEFINE e == call[d].entry
      <4>1. e \in Blocks \ freed /\ name[e] # NoName /\ flink[e] = ListHead
        BY <1>3, <3>1, <3>3 DEF Lone
      <4>2. e \in Entries
        BY <4>1 DEF Entries
      <4> HIDE DEF e
      <4>3. e \in Blocks \ freed' /\ name'[e] # NoName /\ flink'[e] = ListHead
        BY <1>1, <1>3, <4>1, <4>2
      <4> QED
        BY <4>3 DEF e
    <3> QED
      BY <1>2, <3>2, <3>3 DEF Lone
  <2> QED
    BY <1>1, <2>1 DEF LoneWalks
<1>4. CASE Range(listed) # {}
  <2>1. freed' \ freed # {}
    <3>1. PICK b \in Range(listed) : TRUE
      BY <1>4
    <3>2. b \notin freed
      BY ListedLeads
    <3> QED
      BY <1>1, <3>2
  <2>2. \A d \in Callers : call'[d].at \notin {"compare", "unlink", "advance"}
    BY <1>2, <2>1
  <2> QED
    BY <1>1, <2>2 DEF LoneWalks, Lone
<1> QED
  BY <1>3, <1>4

LEMMA LoneStep ==
  ASSUME TypeOK, TypeOK', ListSound, LoneWalks, Next, ~overlapped'
  PROVE  LoneWalks'
<1>1. /\ Observe /\ ~broken
      /\ HookAction \/ \E c \in Callers : ArrayAction(c) \/ ListAction(c)
  BY StepKinds DEF ListSound
<1>2. ASSUME NEW d \in Callers, Walking(d)
      PROVE  /\ freed' \ freed = {}
             /\ \A c \in Callers \ {d} : ~(call[c].at = "unlink" /\ call'[c].at = "advance")
  BY <1>1, <1>2 DEF Observe
<1>3. ASSUME UNCHANGED listVars,
             \A d \in Callers : \/ call'[d] = call[d] \/ Lone(d)'
                                \/ call'[d].at \notin {"compare", "unlink", "advance"}
      PROVE  LoneWalks'
  <2>1. ASSUME NEW d \in Callers
        PROVE  Lone(d)'
    <3>1. Lone(d) /\ UNCHANGED <<flink, name, listed, freed>>
      BY <1>3 DEF LoneWalks, listVars
    <3>2. CASE call'[d] = call[d]
      BY <3>1, <3>2 DEF Lone, Range
    <3>3. CASE call'[d].at \notin {"compare", "unlink", "advance"}
      BY <3>3 DEF Lone
    <3> QED
      BY <1>3, <3>2, <3>3
  <2> QED
    BY <1>1, <1>3, <2>1 DEF LoneWalks, listVars
<1>4. CASE HookAction
  <2>1. UNCHANGED listVars
    BY <1>1, <1>4, LeavesList
  <2>2. call' = call
    BY <1>4 DEF HookAction, HookStarts, HookStep, ScanNext, MyNtTerminateProcess, TerminateDecided,
       MyNtQuerySystemInformation, ProcessKept, ProcessHidden, CreateProcessNotifyEx, Match, Back,
       HookReturns
  <2> QED
    BY <1>3, <2>1, <2>2
<1>5. ASSUME NEW c \in Callers, ArrayAction(c)
      PROVE  LoneWalks'
  <2>1. UNCHANGED listVars
    BY <1>1, <1>5, LeavesList
  <2> QED
    BY <1>3, <1>5, <2>1, ArrayStays
<1>6. ASSUME NEW c \in Callers, IOCTL_SSDT_FORBIDPROCESS_ADD(c)
      PROVE  LoneWalks'
  <2>1. broken' = broken
    BY <1>6 DEF IOCTL_SSDT_FORBIDPROCESS_ADD
  <2> QED
    BY <1>1, <1>6, <2>1, LoneAdd DEF LoneWalks
<1>7. ASSUME NEW c \in Callers,
             IOCTL_SSDT_FORBIDPROCESS_DELETE(c) \/ Compare(c) \/ Advance(c) \/ Deleted(c)
      PROVE  LoneWalks'
  <2>1. Lone(c)
    BY DEF LoneWalks
  <2>2. UNCHANGED listVars /\ Lone(c)' /\ \A d \in Callers \ {c} : call'[d] = call[d]
    BY <1>7, <2>1, LoneDelete
  <2> QED
    BY <1>3, <2>2
<1>8. ASSUME NEW c \in Callers, Unlink(c)
      PROVE  LoneWalks'
  <2>1. call[c].at = "unlink" /\ call'[c].at = "advance"
    <3> DEFINE E == Excused({call[c].entry})
    <3>1. E \in [Callers -> CallState] /\ E[c] \in CallState
      BY ExcusedType
    <3>2. call' = [E EXCEPT ![c] = [E[c] EXCEPT !.at = "advance"]] /\ call[c].at = "unlink"
      BY <1>8 DEF Unlink
    <3> HIDE DEF E
    <3> QED
      BY <3>1, <3>2 DEF CallState
  <2>2. \A d \in Callers \ {c} : call[d].at \notin {"compare", "unlink", "advance"}
    BY <1>2, <2>1 DEF Walking
  <2> QED
    BY <1>8, <2>2, LoneUnlink
<1>9. ASSUME NEW c \in Callers, IOCTL_SSDT_CLAER_BLACK_ILST(c)
      PROVE  LoneWalks'
  <2>1. freed' \ freed # {} => \A d \in Callers : call[d].at \notin {"compare", "unlink", "advance"}
    BY <1>2 DEF Walking
  <2> QED
    BY <1>9, <2>1, LoneClear
<1> QED
  BY <1>1, <1>4, <1>5, <1>6, <1>7, <1>8, <1>9 DEF ListAction, ClearBroken

(* Insertion, removal and clearing leave a list whose links, forward and   *)
(* backward, are those of its entries in order, until an entry is taken    *)
(* out twice with a change; and no deletion does that which nothing is     *)
(* taken out under, however much is added meanwhile.                       *)
THEOREM ListStaysIntact == Spec => []ListIntact
<1>1. Init => LoneWalks
  BY DEF Init, LoneWalks, Lone, NoCall
<1>2. /\ TypeOK /\ TypeOK' /\ (broken \/ ListSound) /\ (overlapped \/ LoneWalks) /\ [Next]_vars
      => overlapped' \/ LoneWalks'
  <2>1. ASSUME overlapped \/ LoneWalks, UNCHANGED vars
        PROVE  overlapped' \/ LoneWalks'
    BY <2>1 DEF vars, listVars, LoneWalks, Lone, Range
  <2>2. ASSUME TypeOK, TypeOK', broken \/ ListSound, overlapped \/ LoneWalks, Next, ~overlapped'
        PROVE  LoneWalks'
    <3>1. ~overlapped
      BY <2>2, StepKinds DEF Observe
    <3>2. LoneWalks /\ ListSound
      BY <2>2, <3>1 DEF LoneWalks
    <3> QED
      BY <2>2, <3>2, LoneStep
  <2> QED
    BY <2>1, <2>2
<1>3. (broken \/ ListSound) /\ (overlapped \/ LoneWalks) => ListIntact
  BY DEF ListSound, ListIntact, LoneWalks
<1> QED
  BY <1>1, <1>2, <1>3, TypeCorrect, SoundAlways, PTL DEF Spec
=============================================================================
