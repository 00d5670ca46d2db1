-------------------------- MODULE VerifyQueueProofs --------------------------
(* Machine-checked safety of the verification handshake, for any number of *)
(* operations, any answers and any number of application restarts, through *)
(* every reuse of result blocks.                                           *)
EXTENDS VerifyQueue, SequenceTheorems, TLAPS

-----------------------------------------------------------------------------
(* The inductive invariant.                                                *)

(* An operation is entered once it is linked and numbered.                 *)
Entered(o) == pc[o] \notin {"idle", "allocated"}
Numbered(o) == pc[o] \in {"numbered", "cleared", "waiting"}
HoldsOperation == app \in {"answer", "endless"} \/ (app = "wait" /\ ~record.exception)

(* An operation that has not reached VerifyControl has left no trace.      *)
Untouched ==
  \A o \in Ops : ~Entered(o) =>
    /\ ~wasdealwith[o] /\ ~finished[o] /\ o \notin filled
    /\ answers[o] = "none"
    /\ ~Linked(opList, o)

(* Operation IDs grow with totalnumbers and identify operations.           *)
IDsIdentify ==
  /\ \A o \in Ops : Entered(o) =>
       /\ OperationID[o] # 0
       /\ OperationID[o] <= IRP_MJ_SET_INFORMATION + totalnumbers
  /\ \A o, p \in Ops : Entered(o) /\ Entered(p) /\ OperationID[o] = OperationID[p]
       => o = p

(* hashtable holds each operation once, from its insertion to its release, *)
(* and an operation is released when it is answered or spoilt.             *)
ListExact ==
  /\ \A i, j \in DOMAIN opList : opList[i] = opList[j] => i = j
  /\ \A o \in Ops : Entered(o) /\ ~finished[o] => Linked(opList, o)
  /\ \A o \in Ops : finished[o] => ~Linked(opList, o) /\ o \in filled \union spoilt
  /\ \A o \in Ops : pc[o] = "returned" => finished[o]

(* Operations that are not spoilt share their blocks with nobody.          *)
OwnBlock ==
  /\ \A o \in Ops : Active(o) => block[o] \in Ops
  /\ \A o, p \in Ops : Active(o) /\ o \notin spoilt /\ Active(p) /\ block[p] = block[o]
       => o = p

(* The ID in a block is 0 or that of an operation that holds it or held    *)
(* it, and of the one that holds it if that is not spoilt.                 *)
ResultIDs ==
  /\ \A b \in Ops : resultID[b] # 0 =>
       \E o \in Ops : /\ Numbered(o) \/ pc[o] = "returned"
                      /\ block[o] = b /\ OperationID[o] = resultID[b]
  /\ \A o \in Ops : Active(o) /\ o \notin spoilt =>
       resultID[block[o]] = IF Numbered(o) THEN OperationID[o] ELSE 0

(* A filled result holds the answer given to its operation, and the status *)
(* follows from it.                                                        *)
FilledIsAnswer ==
  /\ \A o \in Ops : answers[o] # "none" => wasdealwith[o]
  /\ \A o \in filled : answers[o] # "none"
  /\ \A o \in filled \ spoilt :
       /\ pc[o] \in {"cleared", "waiting", "returned"}
       /\ Active(o) => /\ wasFill[block[o]]
                       /\ operation_permit[block[o]] <=> answers[o] = "permit"
  /\ \A o \in Ops \ spoilt :
       /\ verdict[o] = "ACCESS_DENIED" => o \in filled /\ answers[o] = "permit"
       /\ verdict[o] = "SUCCESS" => o \in filled /\ answers[o] = "refuse"

(* What the application thread has in its hands.                           *)
AppHolds ==
  /\ app = "copy" => /\ pnode \in Ops /\ Linked(opList, pnode)
                     /\ ~wasdealwith[pnode]
  /\ app = "answer" => ~record.exception
  /\ HoldsOperation =>
       /\ handed \in Ops /\ Entered(handed)
       /\ wasdealwith[handed] /\ answers[handed] = "none"
       /\ record.OperationID = OperationID[handed]
  /\ app \in {"relink", "finish"} =>
       /\ newresult \in Ops
       /\ \A o \in Ops : Active(o) /\ o \notin spoilt /\ block[o] = newresult => o \in filled

(* The bucket of the results is counted down at most to the one result the *)
(* application thread is about to link again.                              *)
ResultsCounted == resType # NoType => resNumber # 0 \/ app = "relink"

IInv ==
  /\ TypeOK
  /\ Untouched /\ IDsIdentify /\ ListExact /\ OwnBlock /\ ResultIDs /\ FilledIsAnswer
  /\ AppHolds
  /\ ResultsCounted
-----------------------------------------------------------------------------
(* Lists.                                                                  *)

(* Linking at the head adds the new element and keeps every other.         *)
LEMMA ConsLemma ==
  ASSUME NEW s \in Seq(Ops), NEW e \in Ops
  PROVE  /\ Cons(e, s) \in Seq(Ops)
         /\ Len(Cons(e, s)) = Len(s) + 1
         /\ DOMAIN Cons(e, s) = 1 .. (Len(s) + 1)
         /\ Cons(e, s)[1] = e
         /\ \A i \in DOMAIN s : Cons(e, s)[i + 1] = s[i]
  BY DEF Cons

(* Unlinking closes the gap and keeps every other element.                 *)
LEMMA RemoveAtLemma ==
  ASSUME NEW s \in Seq(Ops), NEW i \in DOMAIN s
  PROVE  /\ RemoveAt(s, i) \in Seq(Ops)
         /\ Len(RemoveAt(s, i)) = Len(s) - 1
         /\ DOMAIN RemoveAt(s, i) = 1 .. (Len(s) - 1)
         /\ \A j \in 1 .. (Len(s) - 1) :
              RemoveAt(s, i)[j] = IF j < i THEN s[j] ELSE s[j + 1]
  <1> DEFINE a == SubSeq(s, 1, i - 1)
             b == SubSeq(s, i + 1, Len(s))
  <1>0. Len(s) \in Nat /\ i \in 1 .. Len(s)
    OBVIOUS
  <1>1. /\ a \in Seq(Ops) /\ Len(a) = i - 1
        /\ \A j \in 1 .. (i - 1) : a[j] = s[j]
    BY <1>0
  <1>2. /\ b \in Seq(Ops) /\ Len(b) = Len(s) - i
        /\ \A j \in 1 .. (Len(s) - i) : b[j] = s[i + j]
    BY <1>0
  <1>3. /\ a \o b \in Seq(Ops)
        /\ Len(a \o b) = Len(s) - 1
        /\ \A j \in 1 .. (Len(s) - 1) :
             (a \o b)[j] = IF j < i THEN a[j] ELSE b[j - (i - 1)]
    <2> HIDE DEF a, b
    <2> QED BY SMTT(20), <1>0, <1>1, <1>2
  <1>4. ASSUME NEW j \in 1 .. (Len(s) - 1)
        PROVE  (a \o b)[j] = IF j < i THEN s[j] ELSE s[j + 1]
    <2> HIDE DEF a, b
    <2>1. CASE j < i
      <3>1. j \in 1 .. (i - 1)
        BY <1>0, <2>1
      <3> QED BY <1>1, <1>3, <2>1, <3>1
    <2>2. CASE ~(j < i)
      <3>1. j - (i - 1) \in 1 .. (Len(s) - i) /\ i + (j - (i - 1)) = j + 1
        BY <1>0, <2>2
      <3> QED BY <1>2, <1>3, <2>2, <3>1
    <2> QED BY <2>1, <2>2
  <1>5. a \o b = RemoveAt(s, i)
    BY DEF RemoveAt
  <1> HIDE DEF a, b
  <1> QED BY <1>0, <1>3, <1>4, <1>5

(* Linking e makes e, and nothing else, a new element.                     *)
LEMMA LinkedCons ==
  ASSUME NEW s \in Seq(Ops), NEW e \in Ops, NEW o
  PROVE  Linked(Cons(e, s), o) <=> o = e \/ Linked(s, o)
  <1>0. /\ DOMAIN Cons(e, s) = 1 .. (Len(s) + 1) /\ DOMAIN s = 1 .. Len(s)
        /\ Len(s) \in Nat /\ Cons(e, s)[1] = e
        /\ \A i \in DOMAIN s : Cons(e, s)[i + 1] = s[i]
    <2>1. DOMAIN s = 1 .. Len(s) /\ Len(s) \in Nat
      OBVIOUS
    <2>2. /\ DOMAIN Cons(e, s) = 1 .. (Len(s) + 1) /\ Cons(e, s)[1] = e
          /\ \A i \in DOMAIN s : Cons(e, s)[i + 1] = s[i]
      BY ConsLemma, Zenon
    <2> QED BY <2>1, <2>2
  <1>1. ASSUME Linked(Cons(e, s), o) PROVE o = e \/ Linked(s, o)
    <2>1. PICK i \in 1 .. (Len(s) + 1) : Cons(e, s)[i] = o
      BY <1>0, <1>1 DEF Linked
    <2>2. CASE i = 1
      BY <1>0, <2>1, <2>2
    <2>3. CASE i # 1
      <3>1. i - 1 \in DOMAIN s /\ Cons(e, s)[(i - 1) + 1] = s[i - 1]
        BY <1>0, <2>3
      <3>2. s[i - 1] = o
        BY <2>1, <3>1
      <3> QED BY <3>1, <3>2 DEF Linked
    <2> QED BY <2>2, <2>3
  <1>2. ASSUME o = e PROVE Linked(Cons(e, s), o)
    BY <1>0, <1>2 DEF Linked
  <1>3. ASSUME Linked(s, o) PROVE Linked(Cons(e, s), o)
    <2>1. PICK i \in DOMAIN s : s[i] = o
      BY <1>3 DEF Linked
    <2>2. i + 1 \in DOMAIN Cons(e, s) /\ Cons(e, s)[i + 1] = o
      BY <1>0, <2>1
    <2> QED BY <2>2 DEF Linked
  <1> QED BY <1>1, <1>2, <1>3

(* Unlinking one node leaves at most the nodes there were, and all but the *)
(* unlinked one.                                                           *)
LEMMA LinkedRemoveAt ==
  ASSUME NEW s \in Seq(Ops), NEW i \in DOMAIN s, NEW o
  PROVE  /\ Linked(RemoveAt(s, i), o) => Linked(s, o)
         /\ Linked(s, o) /\ o # s[i] => Linked(RemoveAt(s, i), o)
         /\ (\A j, k \in DOMAIN s : s[j] = s[k] => j = k)
              => ~Linked(RemoveAt(s, i), s[i])
  <1> DEFINE r == RemoveAt(s, i)
  <1>0. /\ DOMAIN r = 1 .. (Len(s) - 1) /\ DOMAIN s = 1 .. Len(s)
        /\ Len(s) \in Nat /\ i \in 1 .. Len(s)
        /\ \A j \in 1 .. (Len(s) - 1) : r[j] = IF j < i THEN s[j] ELSE s[j + 1]
    <2>1. DOMAIN s = 1 .. Len(s) /\ Len(s) \in Nat /\ i \in 1 .. Len(s)
      OBVIOUS
    <2>2. /\ DOMAIN r = 1 .. (Len(s) - 1)
          /\ \A j \in 1 .. (Len(s) - 1) : r[j] = IF j < i THEN s[j] ELSE s[j + 1]
      BY RemoveAtLemma, Zenon
    <2> QED BY <2>1, <2>2
  <1> HIDE DEF r
  <1>1. ASSUME NEW j \in DOMAIN r
        PROVE  \E k \in DOMAIN s : k # i /\ s[k] = r[j]
    <2>1. CASE j < i
      BY <1>0, <2>1
    <2>2. CASE ~(j < i)
      <3>1. j + 1 \in DOMAIN s /\ j + 1 # i /\ s[j + 1] = r[j]
        BY <1>0, <2>2
      <3> QED BY <3>1
    <2> QED BY <2>1, <2>2
  <1>2. Linked(r, o) => Linked(s, o)
    BY <1>1 DEF Linked
  <1>3. ASSUME Linked(s, o), o # s[i] PROVE Linked(r, o)
    <2>1. PICK k \in DOMAIN s : s[k] = o
      BY <1>3 DEF Linked
    <2>2. CASE k < i
      <3>1. k \in DOMAIN r /\ r[k] = o
        BY <1>0, <2>1, <2>2
      <3> QED BY <3>1 DEF Linked
    <2>3. CASE ~(k < i)
      <3>1. k > i
        BY <1>0, <1>3, <2>1, <2>3
      <3>2. k - 1 \in DOMAIN r /\ ~(k - 1 < i) /\ (k - 1) + 1 = k
        BY <1>0, <3>1
      <3>3. r[k - 1] = o
        BY <1>0, <2>1, <3>2
      <3> QED BY <3>2, <3>3 DEF Linked
    <2> QED BY <2>2, <2>3
  <1>4. ASSUME \A j, k \in DOMAIN s : s[j] = s[k] => j = k
        PROVE  ~Linked(r, s[i])
    BY <1>1, <1>4 DEF Linked
  <1> QED BY <1>2, <1>3, <1>4 DEF r

(* Neither operation makes a list that holds each element once hold one    *)
(* twice.                                                                  *)
LEMMA DistinctCons ==
  ASSUME NEW s \in Seq(Ops), NEW e \in Ops, ~Linked(s, e),
         \A i, j \in DOMAIN s : s[i] = s[j] => i = j
  PROVE  \A i, j \in DOMAIN Cons(e, s) : Cons(e, s)[i] = Cons(e, s)[j] => i = j
  <1>0. /\ DOMAIN Cons(e, s) = 1 .. (Len(s) + 1) /\ Cons(e, s)[1] = e
        /\ \A i \in DOMAIN s : Cons(e, s)[i + 1] = s[i]
    BY ConsLemma, Zenon
  <1>1. DOMAIN s = 1 .. Len(s) /\ Len(s) \in Nat
    OBVIOUS
  <1>2. ASSUME NEW k \in DOMAIN Cons(e, s), k # 1
        PROVE  /\ k - 1 \in DOMAIN s /\ k \in Nat
               /\ Cons(e, s)[k] = s[k - 1] /\ s[k - 1] # e
    <2>1. k - 1 \in DOMAIN s /\ k \in Nat /\ k = (k - 1) + 1
      BY <1>0, <1>1, <1>2
    <2>2. Cons(e, s)[k] = s[k - 1]
      BY <1>0, <2>1
    <2> QED BY <2>1, <2>2 DEF Linked
  <1>3. SUFFICES ASSUME NEW i \in DOMAIN Cons(e, s), NEW j \in DOMAIN Cons(e, s),
                        Cons(e, s)[i] = Cons(e, s)[j]
                 PROVE  i = j
    OBVIOUS
  <1>4. CASE i # 1 /\ j # 1
    <2>1. i - 1 = j - 1
      BY <1>2, <1>3, <1>4
    <2> QED BY <1>2, <1>4, <2>1
  <1>5. CASE i = 1 \/ j = 1
    BY <1>0, <1>2, <1>3, <1>5
  <1> QED BY <1>4, <1>5

LEMMA DistinctRemoveAt ==
  ASSUME NEW s \in Seq(Ops), NEW n \in DOMAIN s,
         \A i, j \in DOMAIN s : s[i] = s[j] => i = j
  PROVE  \A i, j \in DOMAIN RemoveAt(s, n) :
           RemoveAt(s, n)[i] = RemoveAt(s, n)[j] => i = j
  <1> DEFINE r == RemoveAt(s, n)
  <1>0. /\ DOMAIN r = 1 .. (Len(s) - 1)
        /\ \A j \in 1 .. (Len(s) - 1) : r[j] = IF j < n THEN s[j] ELSE s[j + 1]
    BY RemoveAtLemma, Zenon
  <1>1. DOMAIN s = 1 .. Len(s) /\ Len(s) \in Nat /\ n \in 1 .. Len(s)
    OBVIOUS
  <1> HIDE DEF r
  <1>2. \A i, j \in DOMAIN r : r[i] = r[j] => i = j
    BY <1>0, <1>1
  <1> QED BY <1>2 DEF r

-----------------------------------------------------------------------------
(* Each step preserves the invariant.                                      *)

Handshake == Untouched /\ IDsIdentify /\ ListExact /\ OwnBlock /\ ResultIDs /\ FilledIsAnswer

(* A step that changes neither the operations nor their results keeps what *)
(* the invariant says of them.                                             *)
LEMMA QuietStep ==
  ASSUME IInv,
         UNCHANGED <<requesterVars, infoVars, resultVars, opList, totalnumbers,
                     answers, filled, spoilt>>
  PROVE  Handshake'
  <1>1. Untouched' /\ IDsIdentify'
    BY DEF IInv, Untouched, IDsIdentify, Entered, Linked, requesterVars, infoVars
  <1>2. ListExact' /\ OwnBlock'
    BY DEF IInv, ListExact, OwnBlock, Entered, Active, Linked, requesterVars, infoVars
  <1>3. ResultIDs'
    BY DEF IInv, ResultIDs, Numbered, Active, requesterVars, infoVars, resultVars
  <1>4. FilledIsAnswer'
    BY DEF IInv, FilledIsAnswer, Active, requesterVars, infoVars, resultVars
  <1> QED BY <1>1, <1>2, <1>3, <1>4 DEF Handshake

(* The block a thread gets is nobody else's, or all who use it are spoilt. *)
LEMMA AllocateStep ==
  ASSUME NEW o \in Ops, IInv, AllocatePool(o) PROVE IInv'
  <1> DEFINE b == NextBlock(o)
  <1>0. /\ b \in Ops /\ pc[o] = "idle" /\ ~Active(o) /\ ~Entered(o)
        /\ pc' = [pc EXCEPT ![o] = "allocated"]
        /\ block' = [block EXCEPT ![o] = b]
        /\ resultID' = [resultID EXCEPT ![b] = 0]
        /\ wasFill' = [wasFill EXCEPT ![b] = FALSE]
        /\ operation_permit' = [operation_permit EXCEPT ![b] = FALSE]
        /\ spoilt' = IF InUse(b) THEN spoilt \union Owners(b) \union {o} ELSE spoilt
        /\ UNCHANGED <<verdict, infoVars, opTable, resTable, myevent, appVars,
                       handed, answers, filled>>
    BY DEF AllocatePool, NextBlock, Active, Entered
  <1> HIDE DEF b
  <1>a. spoilt \subseteq spoilt' /\ spoilt' \subseteq Ops
    BY <1>0 DEF IInv, TypeOK, Owners
  <1>b. \A q \in Ops : Active(q) /\ block[q] = b => q \in spoilt'
    BY <1>0 DEF Owners, InUse
  <1>c. newresult = b => o \in spoilt'
    BY <1>0 DEF InUse
  <1>d. \A q \in Ops : /\ q # o => pc'[q] = pc[q] /\ block'[q] = block[q]
                       /\ q = o => pc'[q] = "allocated" /\ block'[q] = b
    BY <1>0 DEF IInv, TypeOK
  <1>e. \A c \in Ops : /\ c # b => /\ resultID'[c] = resultID[c] /\ wasFill'[c] = wasFill[c]
                                   /\ operation_permit'[c] = operation_permit[c]
                       /\ c = b => resultID'[c] = 0
    BY <1>0 DEF IInv, TypeOK
  <1>1. TypeOK'
    <2>1. top' \in Nodes \union {NoOp} /\ down' \in BOOLEAN
      BY DEF IInv, TypeOK, AllocatePool
    <2>2. /\ pc' \in [Ops -> {"idle", "allocated", "linked", "numbered", "cleared",
                              "waiting", "returned"}]
          /\ block' \in [Ops -> Ops \union {NoOp}] /\ resultID' \in [Ops -> Nat]
          /\ wasFill' \in [Ops -> BOOLEAN] /\ operation_permit' \in [Ops -> BOOLEAN]
      BY <1>0 DEF IInv, TypeOK
    <2> QED BY SMTT(40), <1>0, <1>a, <2>1, <2>2 DEF IInv, TypeOK, infoVars, opTable, resTable,
               appVars
  <1>2. Untouched' /\ IDsIdentify'
    BY <1>0, <1>d DEF IInv, Untouched, IDsIdentify, Entered, Linked, infoVars, opTable
  <1>3. ListExact'
    BY <1>0, <1>a, <1>d DEF IInv, ListExact, Entered, Linked, infoVars, opTable
  <1>4. OwnBlock'
    <2>1. ASSUME NEW q \in Ops, Active(q)' PROVE block'[q] \in Ops
      BY <1>0, <1>d, <2>1 DEF IInv, OwnBlock, Active
    <2>2. ASSUME NEW p \in Ops, NEW q \in Ops, Active(p)', p \notin spoilt', Active(q)',
                 block'[q] = block'[p]
          PROVE  p = q
      <3>1. CASE p = o /\ q # o
        BY <1>0, <1>b, <1>d, <2>2, <3>1 DEF Active, InUse, Owners
      <3>2. CASE p # o /\ q = o
        BY <1>b, <1>d, <2>2, <3>2 DEF Active
      <3>3. CASE p # o /\ q # o
        BY <1>a, <1>d, <2>2, <3>3 DEF IInv, OwnBlock, Active
      <3> QED BY <3>1, <3>2, <3>3
    <2> QED BY <2>1, <2>2 DEF OwnBlock
  <1>5. ResultIDs'
    <2>1. ASSUME NEW c \in Ops, resultID'[c] # 0
          PROVE  \E q \in Ops : /\ Numbered(q)' \/ pc'[q] = "returned"
                                /\ block'[q] = c /\ OperationID'[q] = resultID'[c]
      <3>1. c # b /\ resultID'[c] = resultID[c]
        BY <1>e, <2>1
      <3>2. PICK q \in Ops : /\ Numbered(q) \/ pc[q] = "returned"
                             /\ block[q] = c /\ OperationID[q] = resultID[c]
        BY <2>1, <3>1 DEF IInv, ResultIDs
      <3>3. q # o
        BY <1>0, <3>2 DEF Numbered
      <3> QED BY <1>0, <1>d, <3>1, <3>2, <3>3 DEF Numbered, infoVars
    <2>2. ASSUME NEW p \in Ops, Active(p)', p \notin spoilt'
          PROVE  resultID'[block'[p]] = IF Numbered(p)' THEN OperationID'[p] ELSE 0
      <3>1. CASE p = o
        BY <1>0, <1>d, <1>e, <3>1 DEF Numbered
      <3>2. CASE p # o
        <4>1. Active(p) /\ p \notin spoilt /\ block'[p] = block[p] /\ block[p] \in Ops
          BY <1>a, <1>d, <2>2, <3>2 DEF Active, IInv, OwnBlock
        <4>2. block[p] # b
          BY <1>b, <2>2, <4>1
        <4> QED BY <1>0, <1>d, <1>e, <3>2, <4>1, <4>2 DEF IInv, ResultIDs, Numbered, infoVars
      <3> QED BY <3>1, <3>2
    <2> QED BY <2>1, <2>2 DEF ResultIDs
  <1>6. FilledIsAnswer'
    <2>1. ASSUME NEW p \in filled', p \notin spoilt'
          PROVE  /\ pc'[p] \in {"cleared", "waiting", "returned"}
                 /\ Active(p)' => /\ wasFill'[block'[p]]
                                  /\ operation_permit'[block'[p]] <=> answers'[p] = "permit"
      <3>1. p \in filled /\ p \in Ops /\ p # o /\ p \notin spoilt
        BY <1>0, <1>a, <2>1 DEF IInv, TypeOK, Untouched
      <3>2. Active(p)' => Active(p) /\ block[p] \in Ops /\ block[p] # b
        BY <1>b, <1>d, <2>1, <3>1 DEF Active, IInv, OwnBlock
      <3> QED BY <1>0, <1>d, <1>e, <3>1, <3>2 DEF IInv, FilledIsAnswer
    <2> QED BY <1>0, <1>a, <2>1 DEF IInv, FilledIsAnswer, infoVars
  <1>7. AppHolds'
    BY <1>0, <1>a, <1>c, <1>d DEF IInv, AppHolds, HoldsOperation, Entered, Active, Linked,
       infoVars, opTable, appVars
  <1>8. ResultsCounted'
    BY <1>0 DEF IInv, ResultsCounted, resTable, appVars
  <1> QED BY <1>1, <1>2, <1>3, <1>4, <1>5, <1>6, <1>7, <1>8 DEF IInv

(* A new operation gets an ID that no operation has had.                   *)
LEMMA LinkStep ==
  ASSUME NEW o \in Ops, IInv, MyOperationInformationAddToHashTable(o) PROVE IInv'
  <1>0. /\ pc[o] = "allocated" /\ ~Entered(o) /\ ~Linked(opList, o) /\ ~finished[o]
        /\ o \notin filled /\ ~wasdealwith[o] /\ answers[o] = "none"
        /\ pc' = [pc EXCEPT ![o] = "linked"]
        /\ UNCHANGED <<verdict, block, wasdealwith, finished, resultVars, resTable,
                       top, app, pnode, newresult, record, exits, down, history>>
    BY DEF IInv, Untouched, Entered, MyOperationInformationAddToHashTable
  <1>a. /\ opList' \in Seq(Ops)
        /\ \A q \in Ops : Linked(opList', q) <=> q = o \/ Linked(opList, q)
    BY ConsLemma, LinkedCons DEF IInv, TypeOK,
       MyOperationInformationAddToHashTable
  <1>b. \A i, j \in DOMAIN opList' : opList'[i] = opList'[j] => i = j
    BY <1>0, DistinctCons DEF IInv, TypeOK, ListExact,
       MyOperationInformationAddToHashTable
  <1>c. /\ signalled' \in BOOLEAN
        /\ myevent' \in [event : {"null", "live", "dead"}, waitstatue : BOOLEAN,
                          OperationType : {NoType, IRP_MJ_SET_INFORMATION}]
    BY ZenonT(40) DEF IInv, TypeOK, MyOperationInformationAddToHashTable, NotifyApp
  <1>d. /\ totalnumbers \in Nat /\ totalnumbers' = totalnumbers + 1
        /\ OperationID \in [Ops -> Nat]
        /\ OperationID' = [OperationID EXCEPT ![o] = 6 + totalnumbers + 1]
    BY DEF IInv, TypeOK, MyOperationInformationAddToHashTable, NextOperationID,
       IRP_MJ_SET_INFORMATION
  <1>e. \A q \in Ops : /\ q # o => pc'[q] = pc[q] /\ OperationID'[q] = OperationID[q]
                       /\ q = o => pc'[q] = "linked"
    BY <1>0, <1>d DEF IInv, TypeOK
  <1>1. TypeOK'
    <2>1. /\ opNumber' \in Nat /\ totalnumbers' \in Nat /\ OperationID' \in [Ops -> Nat]
          /\ opType' \in {NoType, IRP_MJ_SET_INFORMATION}
      BY <1>d DEF IInv, TypeOK, MyOperationInformationAddToHashTable
    <2> QED BY <1>0, <1>a, <1>c, <2>1 DEF IInv, TypeOK, resultVars, resTable, history
  <1>2. Untouched'
    BY <1>0, <1>a, <1>e DEF IInv, Untouched, Entered, history
  <1>3. IDsIdentify'
    BY <1>0, <1>d DEF IInv, TypeOK, IDsIdentify, Entered, IRP_MJ_SET_INFORMATION
  <1>4. ListExact'
    BY <1>0, <1>a, <1>b, <1>e DEF IInv, ListExact, Entered, history
  <1>5. OwnBlock'
    BY <1>0, <1>e DEF IInv, OwnBlock, Active, history
  <1>6. ResultIDs'
    <2>1. ASSUME NEW c \in Ops, resultID'[c] # 0
          PROVE  \E q \in Ops : /\ Numbered(q)' \/ pc'[q] = "returned"
                                /\ block'[q] = c /\ OperationID'[q] = resultID'[c]
      <3>1. PICK q \in Ops : /\ Numbered(q) \/ pc[q] = "returned"
                             /\ block[q] = c /\ OperationID[q] = resultID[c]
        BY <1>0, <2>1 DEF IInv, ResultIDs, resultVars
      <3>2. q # o
        BY <1>0, <3>1 DEF Numbered
      <3> QED BY <1>0, <1>e, <3>1, <3>2 DEF Numbered, resultVars
    <2>2. ASSUME NEW p \in Ops, Active(p)', p \notin spoilt'
          PROVE  resultID'[block'[p]] = IF Numbered(p)' THEN OperationID'[p] ELSE 0
      BY <1>0, <1>e, <2>2 DEF IInv, ResultIDs, Numbered, Active, resultVars, history
    <2> QED BY <2>1, <2>2 DEF ResultIDs
  <1>7. FilledIsAnswer'
    BY <1>0, <1>e DEF IInv, TypeOK, FilledIsAnswer, Active, resultVars, history
  <1>8. AppHolds'
    BY <1>0, <1>a, <1>e DEF IInv, TypeOK, AppHolds, HoldsOperation, Entered, Active,
       history
  <1>9. ResultsCounted'
    BY <1>0 DEF IInv, ResultsCounted, resTable
  <1> QED BY <1>1, <1>2, <1>3, <1>4, <1>5, <1>6, <1>7, <1>8, <1>9 DEF IInv

(* The ID goes into a block that nobody else uses, or the thread is spoilt.*)
LEMMA StoreIDStep ==
  ASSUME NEW o \in Ops, IInv, StoreResultID(o) PROVE IInv'
  <1>0. /\ pc[o] = "linked" /\ Active(o) /\ Entered(o) /\ block[o] \in Ops
        /\ resultID' = [resultID EXCEPT ![block[o]] = OperationID[o]]
        /\ pc' = [pc EXCEPT ![o] = "numbered"]
        /\ UNCHANGED <<verdict, block, infoVars, wasFill, operation_permit, opTable,
                       resTable, top, myevent, appVars, down, history>>
    BY DEF IInv, OwnBlock, Active, Entered, StoreResultID
  <1>a. \A q \in Ops : /\ q # o => pc'[q] = pc[q]
                       /\ q = o => pc'[q] = "numbered"
    BY <1>0 DEF IInv, TypeOK
  <1>1. TypeOK'
    <2>1. /\ pc' \in [Ops -> {"idle", "allocated", "linked", "numbered", "cleared",
                              "waiting", "returned"}]
          /\ resultID' \in [Ops -> Nat]
      BY <1>0 DEF IInv, TypeOK
    <2> QED BY <1>0, <2>1 DEF IInv, TypeOK, infoVars, opTable, resTable, appVars, history
  <1>2. Untouched' /\ IDsIdentify' /\ ListExact'
    BY <1>0, <1>a DEF IInv, Untouched, IDsIdentify, ListExact, Entered, Linked, infoVars,
       opTable, history
  <1>3. OwnBlock'
    BY <1>0, <1>a DEF IInv, OwnBlock, Active, history
  <1>4. ResultIDs'
    <2>1. ASSUME NEW c \in Ops, resultID'[c] # 0
          PROVE  \E q \in Ops : /\ Numbered(q)' \/ pc'[q] = "returned"
                                /\ block'[q] = c /\ OperationID'[q] = resultID'[c]
      <3>1. CASE c = block[o]
        BY <1>0, <1>a, <3>1 DEF IInv, TypeOK, Numbered, infoVars
      <3>2. CASE c # block[o]
        <4>1. resultID'[c] = resultID[c]
          BY <1>0, <3>2 DEF IInv, TypeOK
        <4>2. PICK q \in Ops : /\ Numbered(q) \/ pc[q] = "returned"
                               /\ block[q] = c /\ OperationID[q] = resultID[c]
          BY <2>1, <4>1 DEF IInv, ResultIDs
        <4> QED BY <1>0, <1>a, <4>1, <4>2 DEF Numbered, infoVars
      <3> QED BY <3>1, <3>2
    <2>2. ASSUME NEW p \in Ops, Active(p)', p \notin spoilt'
          PROVE  resultID'[block'[p]] = IF Numbered(p)' THEN OperationID'[p] ELSE 0
      <3>1. Active(p) /\ p \notin spoilt /\ block[p] \in Ops
        BY <1>0, <1>a, <2>2 DEF IInv, OwnBlock, Active, history
      <3>2. CASE p = o
        BY <1>0, <1>a, <3>2 DEF IInv, TypeOK, Numbered, infoVars
      <3>3. CASE p # o
        <4>1. block[p] # block[o]
          BY <1>0, <3>1, <3>3 DEF IInv, OwnBlock
        <4> QED BY <1>0, <1>a, <3>1, <3>3, <4>1 DEF IInv, TypeOK, ResultIDs, Numbered, infoVars
      <3> QED BY <3>2, <3>3
    <2> QED BY <2>1, <2>2 DEF ResultIDs
  <1>5. FilledIsAnswer'
    BY <1>0, <1>a DEF IInv, FilledIsAnswer, Active, infoVars, history
  <1>6. AppHolds'
    BY <1>0, <1>a DEF IInv, AppHolds, HoldsOperation, Entered, Active, Linked, infoVars,
       opTable, appVars, history
  <1>7. ResultsCounted'
    BY <1>0 DEF IInv, ResultsCounted, resTable, appVars
  <1> QED BY <1>1, <1>2, <1>3, <1>4, <1>5, <1>6, <1>7 DEF IInv

(* The flag is cleared in a block that holds no answer, or the answer's    *)
(* operation is spoilt.                                                    *)
LEMMA ClearStep ==
  ASSUME NEW o \in Ops, IInv, ClearWasFill(o) PROVE IInv'
  <1>0. /\ pc[o] = "numbered" /\ Active(o) /\ Entered(o) /\ block[o] \in Ops
        /\ o \in filled => o \in spoilt
        /\ wasFill' = [wasFill EXCEPT ![block[o]] = FALSE]
        /\ pc' = [pc EXCEPT ![o] = "cleared"]
        /\ UNCHANGED <<verdict, block, infoVars, resultID, operation_permit, opTable,
                       resTable, top, myevent, appVars, down, history>>
    BY DEF IInv, OwnBlock, FilledIsAnswer, Active, Entered, ClearWasFill
  <1>a. \A q \in Ops : /\ q # o => pc'[q] = pc[q]
                       /\ q = o => pc'[q] = "cleared"
    BY <1>0 DEF IInv, TypeOK
  <1>1. TypeOK'
    <2>1. /\ pc' \in [Ops -> {"idle", "allocated", "linked", "numbered", "cleared",
                              "waiting", "returned"}]
          /\ wasFill' \in [Ops -> BOOLEAN]
      BY <1>0 DEF IInv, TypeOK
    <2> QED BY <1>0, <2>1 DEF IInv, TypeOK, infoVars, opTable, resTable, appVars, history
  <1>2. Untouched' /\ IDsIdentify' /\ ListExact'
    BY <1>0, <1>a DEF IInv, Untouched, IDsIdentify, ListExact, Entered, Linked, infoVars,
       opTable, history
  <1>3. OwnBlock'
    BY <1>0, <1>a DEF IInv, OwnBlock, Active, history
  <1>4. ResultIDs'
    BY <1>0, <1>a DEF IInv, ResultIDs, Numbered, Active, infoVars, history
  <1>5. FilledIsAnswer'
    <2>1. ASSUME NEW p \in filled', p \notin spoilt'
          PROVE  /\ pc'[p] \in {"cleared", "waiting", "returned"}
                 /\ Active(p)' => /\ wasFill'[block'[p]]
                                  /\ operation_permit'[block'[p]] <=> answers'[p] = "permit"
      <3>1. p \in filled /\ p \notin spoilt /\ p \in Ops /\ p # o
        BY <1>0, <2>1 DEF IInv, TypeOK, history
      <3>2. Active(p) => block[p] # block[o] /\ block[p] \in Ops
        BY <1>0, <3>1 DEF IInv, OwnBlock
      <3> QED BY <1>0, <1>a, <3>1, <3>2 DEF IInv, TypeOK, FilledIsAnswer, Active, history
    <2> QED BY <1>0, <2>1 DEF IInv, FilledIsAnswer, infoVars, history
  <1>6. AppHolds'
    BY <1>0, <1>a DEF IInv, AppHolds, HoldsOperation, Entered, Active, Linked, infoVars,
       opTable, appVars, history
  <1>7. ResultsCounted'
    BY <1>0 DEF IInv, ResultsCounted, resTable, appVars
  <1> QED BY <1>1, <1>2, <1>3, <1>4, <1>5, <1>6, <1>7 DEF IInv

(* Linking a result changes links and counters only.                       *)
LEMMA InsertLemma ==
  ASSUME TypeOK, NEW e \in Ops, MyOperationResultAddToHashTable2(e)
  PROVE  /\ Flink' \in [Nodes -> Nodes \union {NoOp}]
         /\ Blink' \in [Nodes -> Nodes \union {NoOp}]
         /\ resNumber' \in Nat /\ resNumber' # 0
         /\ resType' \in {NoType, IRP_MJ_SET_INFORMATION}
  <1>1. resNumber' \in Nat /\ resNumber' # 0 /\ resType' \in {NoType, IRP_MJ_SET_INFORMATION}
    BY DEF TypeOK, MyOperationResultAddToHashTable2
  <1>2. e \in Nodes /\ ListHead \in Nodes /\ Flink[ListHead] \in Nodes \union {NoOp}
    BY DEF TypeOK, Nodes
  <1>3. /\ Flink' = [Flink EXCEPT ![e] = Flink[ListHead], ![ListHead] = e]
        /\ Blink' = [Blink EXCEPT ![e] = ListHead, ![Flink[ListHead]] = e]
    BY DEF MyOperationResultAddToHashTable2, InsertHeadList
  <1>4. Flink' \in [Nodes -> Nodes \union {NoOp}]
    BY <1>2, <1>3 DEF TypeOK
  <1>5. Blink' \in [Nodes -> Nodes \union {NoOp}]
    BY <1>2, <1>3 DEF TypeOK
  <1> QED BY <1>1, <1>4, <1>5

LEMMA PlaceholderStep ==
  ASSUME NEW o \in Ops, IInv, FillOperationResultAddToHashTable_Result(o) PROVE IInv'
  <1>0. /\ pc[o] = "cleared" /\ Active(o) /\ Entered(o) /\ Numbered(o) /\ block[o] \in Ops
        /\ MyOperationResultAddToHashTable2(block[o])
        /\ pc' = [pc EXCEPT ![o] = "waiting"]
        /\ UNCHANGED <<verdict, block, infoVars, resultVars, opTable, top, myevent,
                       appVars, down, history>>
    BY DEF IInv, OwnBlock, Active, Entered, Numbered,
       FillOperationResultAddToHashTable_Result
  <1>a. \A q \in Ops : /\ q # o => pc'[q] = pc[q]
                       /\ q = o => pc'[q] = "waiting"
    BY <1>0 DEF IInv, TypeOK
  <1>b. /\ Flink' \in [Nodes -> Nodes \union {NoOp}]
        /\ Blink' \in [Nodes -> Nodes \union {NoOp}]
        /\ resNumber' \in Nat /\ resNumber' # 0
        /\ resType' \in {NoType, IRP_MJ_SET_INFORMATION}
    BY <1>0, InsertLemma DEF IInv
  <1>1. TypeOK'
    <2>1. pc' \in [Ops -> {"idle", "allocated", "linked", "numbered", "cleared",
                           "waiting", "returned"}]
      BY <1>0 DEF IInv, TypeOK
    <2> QED BY SMTT(40), <1>0, <1>b, <2>1 DEF IInv, TypeOK, infoVars, resultVars, opTable,
               appVars, history
  <1>2. Untouched' /\ IDsIdentify' /\ ListExact'
    BY <1>0, <1>a DEF IInv, Untouched, IDsIdentify, ListExact, Entered, Linked, infoVars,
       opTable, history
  <1>3. OwnBlock'
    BY <1>0, <1>a DEF IInv, OwnBlock, Active, history
  <1>4. ResultIDs'
    BY <1>0, <1>a DEF IInv, ResultIDs, Numbered, Active, infoVars, resultVars, history
  <1>5. FilledIsAnswer'
    BY <1>0, <1>a DEF IInv, FilledIsAnswer, Active, infoVars, resultVars, history
  <1>6. AppHolds'
    BY <1>0, <1>a DEF IInv, AppHolds, HoldsOperation, Entered, Active, Linked, infoVars,
       opTable, appVars, history
  <1>7. ResultsCounted'
    BY <1>b DEF ResultsCounted
  <1> QED BY <1>1, <1>2, <1>3, <1>4, <1>5, <1>6, <1>7 DEF IInv

(* A released thread has a filled result, so its status is the answer.     *)
LEMMA ReturnStep ==
  ASSUME NEW o \in Ops, IInv, VerifyControlReturn(o) PROVE IInv'
  <1>0. /\ pc[o] = "waiting" /\ Active(o) /\ Entered(o) /\ Numbered(o) /\ block[o] \in Ops
        /\ finished[o] /\ o \in filled \union spoilt
        /\ verdict' = [verdict EXCEPT ![o] =
                         IF wasFill[block[o]] /\ operation_permit[block[o]]
                         THEN "ACCESS_DENIED" ELSE "SUCCESS"]
        /\ pc' = [pc EXCEPT ![o] = "returned"]
        /\ UNCHANGED <<block, infoVars, resultVars, opTable, Blink, resNumber,
                       resType, myevent, appVars, down, history>>
    BY DEF IInv, OwnBlock, ListExact, Active, Entered, Numbered, VerifyControlReturn,
       WaitSatisfied
  <1>a. \A q \in Ops : /\ q # o => pc'[q] = pc[q] /\ verdict'[q] = verdict[q]
                       /\ q = o => pc'[q] = "returned"
    BY <1>0 DEF IInv, TypeOK
  <1>1. TypeOK'
    <2>1. pc' \in [Ops -> {"idle", "allocated", "linked", "numbered", "cleared",
                           "waiting", "returned"}]
      BY <1>0 DEF IInv, TypeOK
    <2>2. verdict' \in [Ops -> {"none", "ACCESS_DENIED", "SUCCESS"}]
      BY <1>0 DEF IInv, TypeOK
    <2>3. top' \in Nodes \union {NoOp} /\ Flink' \in [Nodes -> Nodes \union {NoOp}]
      <3>1. CASE wasFill[block[o]]
        <4>1. top' = block[o] /\ Flink' = [Flink EXCEPT ![block[o]] = top]
          BY <3>1 DEF VerifyControlReturn
        <4>2. block[o] \in Nodes /\ top \in Nodes \union {NoOp}
          BY <1>0 DEF IInv, TypeOK, Nodes
        <4> QED BY <4>1, <4>2 DEF IInv, TypeOK
      <3>2. CASE ~wasFill[block[o]]
        BY <3>2 DEF IInv, TypeOK, VerifyControlReturn
      <3> QED BY <3>1, <3>2
    <2> QED BY SMTT(40), <1>0, <2>1, <2>2, <2>3 DEF IInv, TypeOK, infoVars, resultVars, opTable,
               appVars, history
  <1>2. Untouched' /\ IDsIdentify' /\ ListExact'
    BY <1>0, <1>a DEF IInv, Untouched, IDsIdentify, ListExact, Entered, Linked, infoVars,
       opTable, history
  <1>3. OwnBlock'
    BY <1>0, <1>a DEF IInv, OwnBlock, Active, history
  <1>4. ResultIDs'
    BY <1>0, <1>a DEF IInv, ResultIDs, Numbered, Active, infoVars, resultVars, history
  <1>5. FilledIsAnswer'
    <2>1. ASSUME o \notin spoilt
          PROVE  /\ verdict'[o] = "ACCESS_DENIED" => o \in filled /\ answers[o] = "permit"
                 /\ verdict'[o] = "SUCCESS" => o \in filled /\ answers[o] = "refuse"
      <3>1. o \in filled /\ answers[o] \in {"permit", "refuse"} /\ wasFill[block[o]]
            /\ (operation_permit[block[o]] <=> answers[o] = "permit")
        BY <1>0, <2>1 DEF IInv, TypeOK, FilledIsAnswer
      <3>2. CASE operation_permit[block[o]]
        BY <1>0, <3>1, <3>2 DEF IInv, TypeOK
      <3>3. CASE ~operation_permit[block[o]]
        BY <1>0, <3>1, <3>3 DEF IInv, TypeOK
      <3> QED BY <3>2, <3>3
    <2> QED BY <1>0, <1>a, <2>1 DEF IInv, FilledIsAnswer, Active, infoVars, resultVars, history
  <1>6. AppHolds'
    BY <1>0, <1>a DEF IInv, AppHolds, HoldsOperation, Entered, Active, Linked, infoVars,
       opTable, appVars, history
  <1>7. ResultsCounted'
    BY <1>0 DEF IInv, ResultsCounted, appVars
  <1> QED BY <1>1, <1>2, <1>3, <1>4, <1>5, <1>6, <1>7 DEF IInv

-----------------------------------------------------------------------------
(* The steps of the application thread.                                    *)

(* The fetched node is linked and was not handed out before.               *)
LEMMA FetchOperationStep ==
  ASSUME IInv, FetchOperation PROVE IInv'
  <1>0. PICK i \in DOMAIN opList : IsListTailNode(i) /\ pnode' = opList[i]
    BY DEF FetchOperation
  <1>a. Len(opList) \in Nat /\ Len(opList) >= 1 /\ opList[i] \in Ops
    BY SMTT(20) DEF IInv, TypeOK
  <1>1. TypeOK'
    <2>1. opNumber' \in Nat
      BY <1>a DEF IInv, TypeOK, FetchOperation, CorrectedNumber
    <2> QED BY ZenonT(40), <1>0, <1>a, <2>1 DEF IInv, TypeOK, FetchOperation,
               requesterVars, infoVars, resultVars, resTable, history
  <1>2. Handshake'
    BY QuietStep DEF FetchOperation, history
  <1>3. AppHolds'
    <2>1. ~wasdealwith[pnode'] /\ Linked(opList, pnode') /\ pnode' \in Ops
      BY <1>0, <1>a DEF IsListTailNode, Undealt, Linked
    <2> QED BY <2>1 DEF IInv, AppHolds, HoldsOperation, FetchOperation, infoVars
  <1>4. ResultsCounted'
    BY DEF IInv, ResultsCounted, FetchOperation, resTable
  <1> QED BY <1>1, <1>2, <1>3, <1>4 DEF IInv, Handshake

(* An empty-handed search at most corrects the counter.                    *)
LEMMA FetchNothingStep ==
  ASSUME IInv, FetchNothing PROVE IInv'
  <1>1. TypeOK'
    <2>1. opNumber' \in Nat
      BY DEF IInv, TypeOK, FetchNothing, CorrectedNumber
    <2> QED BY SMTT(40), <2>1 DEF IInv, TypeOK, FetchNothing, requesterVars, infoVars,
               resultVars, resTable, history
  <1>2. Handshake'
    BY QuietStep DEF FetchNothing, history
  <1>3. AppHolds'
    BY DEF IInv, AppHolds, HoldsOperation, FetchNothing
  <1>4. ResultsCounted'
    BY DEF IInv, ResultsCounted, FetchNothing, resTable
  <1> QED BY <1>1, <1>2, <1>3, <1>4 DEF IInv, Handshake

LEMMA RecordStep ==
  ASSUME IInv, RecordEvent PROVE IInv'
  <1>1. TypeOK'
    <2>1. /\ myevent' \in [event : {"null", "live", "dead"}, waitstatue : BOOLEAN,
                           OperationType : {NoType, IRP_MJ_SET_INFORMATION}]
          /\ record' \in [OperationID : Nat, exception : BOOLEAN]
      BY DEF IInv, TypeOK, RecordEvent
    <2> QED BY SMTT(40), <2>1 DEF IInv, TypeOK, RecordEvent, requesterVars, infoVars,
               resultVars, opTable, resTable, history
  <1>2. Handshake'
    BY QuietStep DEF RecordEvent, opTable, history
  <1>3. AppHolds'
    BY DEF IInv, TypeOK, AppHolds, HoldsOperation, RecordEvent
  <1>4. ResultsCounted'
    BY DEF IInv, ResultsCounted, RecordEvent, resTable
  <1> QED BY <1>1, <1>2, <1>3, <1>4 DEF IInv, Handshake

(* The copied node becomes the handed operation, still unanswered.         *)
LEMMA CopyStep ==
  ASSUME IInv, CopyOperation PROVE IInv'
  <1>0. /\ pnode \in Ops /\ Linked(opList, pnode) /\ Entered(pnode) /\ ~wasdealwith[pnode]
        /\ answers[pnode] = "none"
    BY DEF IInv, AppHolds, Untouched, FilledIsAnswer, CopyOperation
  <1>a. \A q \in Ops : wasdealwith'[q] <=> wasdealwith[q] \/ q = pnode
    BY <1>0 DEF IInv, TypeOK, CopyOperation
  <1>1. TypeOK'
    BY SMTT(40), <1>0 DEF IInv, TypeOK, CopyOperation, requesterVars, resultVars,
       opTable, resTable
  <1>2. Untouched'
    BY <1>0, <1>a DEF IInv, Untouched, Entered, Linked, CopyOperation, requesterVars, opTable
  <1>3. IDsIdentify' /\ ListExact'
    BY DEF IInv, IDsIdentify, ListExact, Entered, Linked, CopyOperation, requesterVars, opTable
  <1>4. OwnBlock' /\ ResultIDs'
    BY DEF IInv, OwnBlock, ResultIDs, Active, Numbered, CopyOperation, requesterVars, resultVars
  <1>5. FilledIsAnswer'
    BY <1>a DEF IInv, TypeOK, FilledIsAnswer, Active, CopyOperation, requesterVars, resultVars
  <1>6. AppHolds'
    BY <1>0, <1>a DEF IInv, AppHolds, HoldsOperation, Entered, CopyOperation, requesterVars
  <1>7. ResultsCounted'
    BY DEF IInv, ResultsCounted, CopyOperation, resTable
  <1> QED BY <1>1, <1>2, <1>3, <1>4, <1>5, <1>6, <1>7 DEF IInv

LEMMA WaitStep ==
  ASSUME IInv, WaitReturn PROVE IInv'
  <1>1. TypeOK'
    BY ZenonT(40) DEF IInv, TypeOK, WaitReturn, requesterVars, infoVars, resultVars,
       opTable, resTable, history
  <1>2. Handshake'
    BY QuietStep DEF WaitReturn, opTable, history
  <1>3. AppHolds'
    BY DEF IInv, AppHolds, HoldsOperation, Entered, WaitReturn, requesterVars, infoVars,
       history
  <1>4. ResultsCounted'
    BY DEF IInv, ResultsCounted, WaitReturn, resTable
  <1> QED BY <1>1, <1>2, <1>3, <1>4 DEF IInv, Handshake

(* The thread of an endless search keeps its operation for ever.           *)
LEMMA SearchStep ==
  ASSUME IInv, SearchForever \/ FillCrashes PROVE IInv'
  <1>1. TypeOK'
    <2>1. CASE SearchForever
      BY SMTT(40), <2>1 DEF IInv, TypeOK, SearchForever, requesterVars, infoVars, resultVars,
         opTable, resTable, history
    <2>2. CASE FillCrashes
      BY SMTT(40), <2>2 DEF IInv, TypeOK, FillCrashes, requesterVars, infoVars, resultVars,
         opTable, resTable, appVars, history
    <2> QED BY <2>1, <2>2
  <1>2. Handshake'
    BY QuietStep DEF SearchForever, FillCrashes, opTable, history
  <1>3. AppHolds'
    BY DEF IInv, AppHolds, HoldsOperation, Entered, SearchForever, FillCrashes,
       requesterVars, infoVars, appVars, history
  <1>4. ResultsCounted'
    BY DEF IInv, ResultsCounted, SearchForever, FillCrashes, resTable, appVars
  <1> QED BY <1>1, <1>2, <1>3, <1>4 DEF IInv, Handshake

(* A dropped answer leaves its operation dealt with and unfilled.          *)
LEMMA DropStep ==
  ASSUME IInv, DropAnswer PROVE IInv'
  <1>0. /\ handed \in Ops /\ Entered(handed) /\ wasdealwith[handed]
        /\ handed \notin filled
    BY DEF IInv, AppHolds, HoldsOperation, FilledIsAnswer, DropAnswer
  <1>a. PICK permit \in BOOLEAN :
          answers' = [answers EXCEPT ![handed] = Answer(permit)]
    BY ConstantsAssumption DEF DropAnswer
  <1>b. /\ answers' \in [Ops -> {"none", "permit", "refuse"}]
        /\ \A q \in Ops : q # handed => answers'[q] = answers[q]
    BY <1>0, <1>a DEF IInv, TypeOK, Answer
  <1>1. TypeOK'
    BY SMTT(40), <1>b DEF IInv, TypeOK, DropAnswer, requesterVars, infoVars, resultVars,
       opTable, resTable
  <1>2. Untouched'
    BY <1>0, <1>b DEF IInv, Untouched, Entered, Linked, DropAnswer, requesterVars, infoVars,
       opTable
  <1>3. IDsIdentify' /\ ListExact'
    BY DEF IInv, IDsIdentify, ListExact, Entered, Linked, DropAnswer, requesterVars, infoVars,
       opTable
  <1>4. OwnBlock' /\ ResultIDs'
    BY DEF IInv, OwnBlock, ResultIDs, Active, Numbered, DropAnswer, requesterVars, infoVars,
       resultVars
  <1>5. FilledIsAnswer'
    BY <1>0, <1>b DEF IInv, TypeOK, FilledIsAnswer, Active, DropAnswer, requesterVars,
       infoVars, resultVars
  <1>6. AppHolds'
    BY DEF IInv, AppHolds, HoldsOperation, DropAnswer
  <1>7. ResultsCounted'
    BY DEF IInv, ResultsCounted, DropAnswer, resTable
  <1> QED BY <1>1, <1>2, <1>3, <1>4, <1>5, <1>6, <1>7 DEF IInv

(* A filled result goes back to the table.                                 *)
LEMMA RelinkStep ==
  ASSUME IInv, RelinkResult PROVE IInv'
  <1>0. newresult \in Ops
    BY DEF IInv, AppHolds, RelinkResult
  <1>a. /\ Flink' \in [Nodes -> Nodes \union {NoOp}]
        /\ Blink' \in [Nodes -> Nodes \union {NoOp}]
        /\ resNumber' \in Nat /\ resNumber' # 0
        /\ resType' \in {NoType, IRP_MJ_SET_INFORMATION}
    BY <1>0, InsertLemma DEF IInv, RelinkResult
  <1>1. TypeOK'
    <2>1. /\ app' = "finish"
          /\ UNCHANGED <<requesterVars, infoVars, resultVars, opTable, top, myevent,
                         pnode, newresult, record, signalled, exits, down, history>>
      BY DEF RelinkResult
    <2> QED BY SMTT(40), <1>a, <2>1 DEF IInv, TypeOK, requesterVars, infoVars,
               resultVars, opTable, history
  <1>2. Handshake'
    BY QuietStep DEF RelinkResult, opTable, history
  <1>3. AppHolds'
    BY DEF IInv, AppHolds, HoldsOperation, Active, RelinkResult, requesterVars, history
  <1>4. ResultsCounted'
    BY <1>a DEF ResultsCounted
  <1> QED BY <1>1, <1>2, <1>3, <1>4 DEF IInv, Handshake

LEMMA StartStep ==
  ASSUME IInv, AppStart PROVE IInv'
  <1>1. TypeOK'
    BY SMTT(40) DEF IInv, TypeOK, AppStart, requesterVars, infoVars, resultVars,
       opTable, resTable, history
  <1>2. Handshake'
    BY QuietStep DEF AppStart, opTable, history
  <1>3. AppHolds'
    BY DEF IInv, AppHolds, HoldsOperation, AppStart
  <1>4. ResultsCounted'
    BY DEF IInv, ResultsCounted, AppStart, resTable
  <1> QED BY <1>1, <1>2, <1>3, <1>4 DEF IInv, Handshake

(* An exit forgets what the thread held.                                   *)
LEMMA ExitStep ==
  ASSUME IInv, AppExit PROVE IInv'
  <1>1. TypeOK'
    <2>1. exits' \in 0 .. MaxExits
      BY SMTT(20), ConstantsAssumption DEF IInv, TypeOK, AppExit
    <2>2. myevent' \in [event : {"null", "live", "dead"}, waitstatue : BOOLEAN,
                        OperationType : {NoType, IRP_MJ_SET_INFORMATION}]
      BY DEF IInv, TypeOK, AppExit
    <2>3. record' \in [OperationID : Nat, exception : BOOLEAN]
      BY DEF AppExit
    <2> QED BY <2>1, <2>2, <2>3 DEF IInv, TypeOK, AppExit, requesterVars,
               infoVars, resultVars, opTable, resTable
  <1>2. Handshake'
    BY QuietStep DEF AppExit, opTable
  <1>3. AppHolds'
    BY DEF IInv, AppHolds, HoldsOperation, AppExit
  <1>4. ResultsCounted'
    BY DEF IInv, ResultsCounted, AppExit, resTable
  <1> QED BY <1>1, <1>2, <1>3, <1>4 DEF IInv, Handshake

(* The block that carries the answered ID is the one of the handed         *)
(* operation, and belongs to no other operation that is not spoilt.        *)
LEMMA AnsweredBlock ==
  ASSUME IInv, app = "answer", NEW e \in Ops, IsResultNode(e)
  PROVE  /\ handed \in Ops /\ Entered(handed) /\ wasdealwith[handed]
         /\ answers[handed] = "none" /\ handed \notin filled
         /\ block[handed] = e
         /\ handed \notin spoilt => Active(handed) /\ Numbered(handed)
         /\ \A p \in Ops : Active(p) /\ p \notin spoilt /\ block[p] = e => p = handed
  <1>1. /\ handed \in Ops /\ Entered(handed) /\ wasdealwith[handed]
        /\ answers[handed] = "none" /\ record.OperationID = OperationID[handed]
        /\ handed \notin filled
    BY DEF IInv, AppHolds, HoldsOperation, FilledIsAnswer
  <1>2. resultID[e] = OperationID[handed] /\ resultID[e] # 0
    BY <1>1 DEF IInv, IsResultNode, Carries, IDsIdentify
  <1>3. PICK q \in Ops : /\ Numbered(q) \/ pc[q] = "returned"
                         /\ block[q] = e /\ OperationID[q] = resultID[e]
    BY <1>2 DEF IInv, ResultIDs
  <1>4. q = handed
    BY <1>1, <1>2, <1>3 DEF IInv, IDsIdentify, Entered, Numbered
  <1>5. ASSUME handed \notin spoilt PROVE Numbered(handed) /\ Active(handed)
    <2>1. pc[handed] # "returned"
      BY <1>1, <1>5 DEF IInv, ListExact
    <2> QED BY <1>3, <1>4, <2>1 DEF Numbered, Active
  <1>6. ASSUME NEW p \in Ops, Active(p), p \notin spoilt, block[p] = e PROVE p = handed
    <2>1. Numbered(p) /\ OperationID[p] = OperationID[handed]
      BY <1>2, <1>6 DEF IInv, ResultIDs
    <2> QED BY <1>1, <1>6, <2>1 DEF IInv, IDsIdentify, Entered, Numbered
  <1> QED BY <1>1, <1>3, <1>4, <1>5, <1>6

(* The answer is written into the result of the operation it judges.       *)
LEMMA FillStep ==
  ASSUME IInv, FillResult PROVE IInv'
  <1>a. PICK permit \in BOOLEAN, e \in Ops :
          /\ IsResultNode(e)
          /\ wasFill' = [wasFill EXCEPT ![e] = TRUE]
          /\ operation_permit' = [operation_permit EXCEPT ![e] = permit]
          /\ newresult' = e
          /\ CutOffListNode(e)
          /\ answers' = [answers EXCEPT ![handed] = Answer(permit)]
    BY ConstantsAssumption DEF FillResult
  <1>0. /\ handed \in Ops /\ Entered(handed) /\ wasdealwith[handed]
        /\ answers[handed] = "none" /\ handed \notin filled /\ block[handed] = e
        /\ handed \notin spoilt => Active(handed) /\ Numbered(handed)
        /\ \A p \in Ops : Active(p) /\ p \notin spoilt /\ block[p] = e => p = handed
    BY <1>a, AnsweredBlock DEF FillResult
  <1>b. /\ filled' = filled \union {handed}
        /\ spoilt' = IF pc[handed] = "numbered" THEN spoilt \union {handed} ELSE spoilt
        /\ UNCHANGED <<requesterVars, infoVars, resultID, opTable, resType, top,
                       myevent, pnode, record, signalled, exits, down, handed>>
        /\ app = "answer" /\ app' = "relink" /\ resNumber' = resNumber - 1
        /\ resType = IRP_MJ_SET_INFORMATION
    BY DEF FillResult
  <1>c. /\ wasFill' \in [Ops -> BOOLEAN] /\ operation_permit' \in [Ops -> BOOLEAN]
        /\ answers' \in [Ops -> {"none", "permit", "refuse"}]
        /\ wasFill'[e] /\ operation_permit'[e] = permit
        /\ answers'[handed] = (IF permit THEN "permit" ELSE "refuse")
        /\ \A c \in Ops : c # e => /\ wasFill'[c] = wasFill[c]
                                   /\ operation_permit'[c] = operation_permit[c]
        /\ \A q \in Ops : q # handed => answers'[q] = answers[q]
    BY <1>0, <1>a DEF IInv, TypeOK, Answer
  <1>d. /\ spoilt \subseteq spoilt' /\ spoilt' \subseteq Ops
        /\ handed \notin spoilt' => pc[handed] \in {"cleared", "waiting"}
    BY <1>0, <1>b DEF IInv, TypeOK, Numbered
  <1>1. TypeOK'
    <2>1. resNumber' \in Nat
      BY <1>b DEF IInv, TypeOK, ResultsCounted, NoType, IRP_MJ_SET_INFORMATION
    <2>2. Flink' \in [Nodes -> Nodes \union {NoOp}] /\ Blink' \in [Nodes -> Nodes \union {NoOp}]
      <3>1. Flink[e] \in Nodes \union {NoOp} /\ Blink[e] \in Nodes \union {NoOp}
        BY DEF IInv, TypeOK, Nodes
      <3> QED BY <1>a, <3>1 DEF IInv, TypeOK, CutOffListNode
    <2> QED BY SMTT(40), <1>0, <1>a, <1>b, <1>c, <1>d, <2>1, <2>2 DEF IInv, TypeOK,
               requesterVars, infoVars, opTable
  <1>2. Untouched'
    BY <1>0, <1>b, <1>c DEF IInv, Untouched, Entered, Linked, requesterVars, infoVars, opTable
  <1>3. IDsIdentify' /\ ListExact'
    BY <1>b, <1>d DEF IInv, IDsIdentify, ListExact, Entered, Linked, requesterVars, infoVars,
       opTable
  <1>4. OwnBlock' /\ ResultIDs'
    BY <1>b, <1>d DEF IInv, OwnBlock, ResultIDs, Active, Numbered, requesterVars, infoVars
  <1>5. FilledIsAnswer'
    <2>1. ASSUME NEW p \in filled', p \notin spoilt'
          PROVE  /\ pc'[p] \in {"cleared", "waiting", "returned"}
                 /\ Active(p)' => /\ wasFill'[block'[p]]
                                  /\ operation_permit'[block'[p]] <=> answers'[p] = "permit"
      <3>1. CASE p = handed
        BY <1>0, <1>b, <1>c, <1>d, <2>1, <3>1 DEF requesterVars
      <3>2. CASE p # handed
        <4>1. p \in filled /\ p \in Ops /\ p \notin spoilt
          BY <1>b, <1>d, <2>1, <3>2 DEF IInv, TypeOK
        <4>2. Active(p) => block[p] \in Ops /\ block[p] # e
          BY <1>0, <3>2, <4>1 DEF IInv, OwnBlock
        <4> QED BY <1>b, <1>c, <3>2, <4>1, <4>2 DEF IInv, FilledIsAnswer, Active, requesterVars
      <3> QED BY <3>1, <3>2
    <2>2. \A o \in Ops : answers'[o] # "none" => wasdealwith'[o]
      BY <1>0, <1>b, <1>c DEF IInv, FilledIsAnswer, infoVars
    <2>3. \A o \in filled' : answers'[o] # "none"
      BY <1>0, <1>b, <1>c DEF IInv, TypeOK, FilledIsAnswer
    <2>4. ASSUME NEW o \in Ops \ spoilt'
          PROVE  /\ verdict'[o] = "ACCESS_DENIED" => o \in filled' /\ answers'[o] = "permit"
                 /\ verdict'[o] = "SUCCESS" => o \in filled' /\ answers'[o] = "refuse"
      BY <1>0, <1>b, <1>c, <1>d, <2>4 DEF IInv, FilledIsAnswer, requesterVars
    <2> QED BY <2>1, <2>2, <2>3, <2>4 DEF FilledIsAnswer
  <1>6. AppHolds'
    BY <1>0, <1>a, <1>b, <1>d DEF IInv, AppHolds, HoldsOperation, Active, requesterVars
  <1>7. ResultsCounted'
    BY <1>b DEF ResultsCounted
  <1> QED BY <1>1, <1>2, <1>3, <1>4, <1>5, <1>6, <1>7 DEF IInv

(* The operation that is released has been answered, or it is spoilt.      *)
LEMMA AnsweredNode ==
  ASSUME IInv, app = "finish", NEW i \in DOMAIN opList, IsAnsweredNode(i)
  PROVE  opList[i] \in Ops /\ opList[i] \in filled \union spoilt
  <1>1. opList[i] \in Ops /\ Linked(opList, opList[i]) /\ newresult \in Ops
    BY DEF IInv, TypeOK, AppHolds, Linked
  <1>2. Entered(opList[i]) /\ ~finished[opList[i]]
    BY <1>1 DEF IInv, Untouched, ListExact
  <1>3. resultID[newresult] = OperationID[opList[i]] /\ resultID[newresult] # 0
    BY <1>1, <1>2 DEF IInv, IDsIdentify, IsAnsweredNode, HasResultID
  <1>4. PICK q \in Ops : /\ Numbered(q) \/ pc[q] = "returned"
                         /\ block[q] = newresult /\ OperationID[q] = resultID[newresult]
    BY <1>1, <1>3 DEF IInv, ResultIDs
  <1>5. q = opList[i]
    BY <1>1, <1>2, <1>3, <1>4 DEF IInv, IDsIdentify, Entered, Numbered
  <1>6. Active(q)
    BY <1>1, <1>2, <1>4, <1>5 DEF IInv, ListExact, Active, Numbered
  <1> QED BY <1>1, <1>4, <1>5, <1>6 DEF IInv, AppHolds

(* Finishing an answer releases at most that operation.                    *)
LEMMA FinishStep ==
  ASSUME IInv, FinishOperation PROVE IInv'
  <1>a. ASSUME NEW i \in DOMAIN opList, IsAnsweredNode(i)
        PROVE  opList[i] \in Ops /\ opList[i] \in filled \union spoilt
    BY <1>a, AnsweredNode DEF FinishOperation
  (* Either one answered operation is unlinked and released, or nothing    *)
  (* happens to the list.                                                  *)
  <1>b. \/ \E t \in Ops :
             /\ t \in filled \union spoilt
             /\ \A q \in Ops : finished'[q] <=> finished[q] \/ q = t
             /\ opList' \in Seq(Ops)
             /\ Linked(opList, t) /\ ~Linked(opList', t)
             /\ \A q \in Ops : /\ Linked(opList', q) => Linked(opList, q)
                               /\ Linked(opList, q) /\ q # t => Linked(opList', q)
             /\ \A j, k \in DOMAIN opList' : opList'[j] = opList'[k] => j = k
        \/ /\ \A q \in Ops : finished'[q] <=> finished[q]
           /\ opList' = opList
    <2>1. CASE \E i \in DOMAIN opList : IsAnsweredNode(i)
      <3> DEFINE n == CHOOSE i \in DOMAIN opList : IsAnsweredNode(i)
      <3>1. n \in DOMAIN opList /\ IsAnsweredNode(n)
        BY <2>1
      <3>2. opList' = RemoveAt(opList, n)
        BY <2>1 DEF FinishOperation
      <3> HIDE DEF n
      <3>3. PICK t : t = opList[n]
        OBVIOUS
      <3>4. opList \in Seq(Ops) /\ \A j, k \in DOMAIN opList : opList[j] = opList[k] => j = k
        BY DEF IInv, TypeOK, ListExact
      <3>5. opList' \in Seq(Ops)
        BY <3>1, <3>2, <3>4, RemoveAtLemma
      <3>6. /\ ~Linked(opList', t)
            /\ \A q \in Ops : /\ Linked(opList', q) => Linked(opList, q)
                              /\ Linked(opList, q) /\ q # t => Linked(opList', q)
        BY <3>1, <3>2, <3>3, <3>4, LinkedRemoveAt
      <3>7. \A j, k \in DOMAIN opList' : opList'[j] = opList'[k] => j = k
        BY <3>1, <3>2, <3>4, DistinctRemoveAt
      <3>8. t \in Ops /\ t \in filled \union spoilt /\ Linked(opList, t)
        BY <1>a, <3>1, <3>3 DEF Linked
      <3>9. \A q \in Ops : finished'[q] <=> finished[q] \/ q = t
        <4>1. ASSUME NEW i \in DOMAIN opList, IsAnsweredNode(i) PROVE i = n
          BY <3>1, <3>4, <4>1 DEF IsAnsweredNode
        <4> QED BY <3>1, <3>3, <4>1 DEF IInv, TypeOK, FinishOperation
      <3> QED BY <3>5, <3>6, <3>7, <3>8, <3>9
    <2>2. CASE ~\E i \in DOMAIN opList : IsAnsweredNode(i)
      BY <2>2 DEF IInv, TypeOK, FinishOperation
    <2> QED BY <2>1, <2>2
  <1>c. UNCHANGED <<requesterVars, OperationID, wasdealwith, resultVars,
                    opNumber, totalnumbers, opType, resTable, top, myevent, pnode,
                    record, signalled, exits, down, history>>
        /\ newresult' = NoOp /\ app' = "verify" /\ app = "finish"
    BY DEF FinishOperation
  <1>1. TypeOK'
    <2>1. opList' \in Seq(Ops)
      BY <1>b DEF IInv, TypeOK
    <2>2. finished' \in [Ops -> BOOLEAN]
      BY DEF IInv, TypeOK, FinishOperation
    <2> QED BY SMTT(40), <1>c, <2>1, <2>2 DEF IInv, TypeOK, requesterVars,
               resultVars, resTable, history
  <1>2. Untouched'
    BY <1>b, <1>c DEF IInv, Untouched, Entered, requesterVars, history
  <1>3. IDsIdentify'
    BY <1>c DEF IInv, IDsIdentify, Entered, requesterVars
  <1>4. ListExact'
    BY <1>b, <1>c DEF IInv, ListExact, Entered, requesterVars, history
  <1>5. OwnBlock' /\ ResultIDs'
    BY <1>c DEF IInv, OwnBlock, ResultIDs, Active, Numbered, requesterVars, resultVars, history
  <1>6. FilledIsAnswer'
    BY <1>c DEF IInv, FilledIsAnswer, Active, requesterVars, resultVars, history
  <1>7. AppHolds'
    BY <1>c DEF AppHolds, HoldsOperation
  <1>8. ResultsCounted'
    BY <1>c DEF IInv, ResultsCounted, resTable
  <1> QED BY <1>1, <1>2, <1>3, <1>4, <1>5, <1>6, <1>7, <1>8 DEF IInv

-----------------------------------------------------------------------------
(* The theorems.                                                           *)

LEMMA InitIInv == Init => IInv
  <1> SUFFICES ASSUME Init PROVE IInv
    OBVIOUS
  <1>1. TypeOK
    <2>1. MaxExits \in Nat /\ ListHead \in Nodes
      BY ConstantsAssumption DEF Nodes
    <2>2. opList \in Seq(Ops)
      BY DEF Init
    <2>3. myevent \in [event : {"null", "live", "dead"}, waitstatue : BOOLEAN,
                       OperationType : {NoType, IRP_MJ_SET_INFORMATION}]
      BY DEF Init, NoEvent
    <2>4. record \in [OperationID : Nat, exception : BOOLEAN]
      BY DEF Init
    <2>5. /\ pc \in [Ops -> {"idle", "allocated", "linked", "numbered", "cleared",
                             "waiting", "returned"}]
          /\ verdict \in [Ops -> {"none", "ACCESS_DENIED", "SUCCESS"}]
          /\ answers \in [Ops -> {"none", "permit", "refuse"}]
          /\ OperationID \in [Ops -> Nat] /\ resultID \in [Ops -> Nat]
          /\ block \in [Ops -> Ops \union {NoOp}]
      BY DEF Init
    <2>6. /\ wasdealwith \in [Ops -> BOOLEAN] /\ finished \in [Ops -> BOOLEAN]
          /\ wasFill \in [Ops -> BOOLEAN] /\ operation_permit \in [Ops -> BOOLEAN]
      BY DEF Init
    <2>7. /\ Flink \in [Nodes -> Nodes \union {NoOp}]
          /\ Blink \in [Nodes -> Nodes \union {NoOp}]
          /\ top \in Nodes \union {NoOp}
      BY <2>1 DEF Init
    <2>8. /\ opNumber \in Nat /\ totalnumbers \in Nat /\ resNumber \in Nat
          /\ opType \in {NoType, IRP_MJ_SET_INFORMATION}
          /\ resType \in {NoType, IRP_MJ_SET_INFORMATION}
          /\ app \in {"off", "verify", "copy", "record", "wait", "answer", "endless",
                      "relink", "finish"}
          /\ pnode \in Ops \union {NoOp} /\ newresult \in Ops \union {NoOp}
          /\ handed \in Ops \union {NoOp}
      BY DEF Init
    <2>9. signalled \in BOOLEAN /\ down \in BOOLEAN /\ filled \subseteq Ops /\ spoilt \subseteq Ops
      BY DEF Init
    <2>10. exits \in 0 .. MaxExits
      BY <2>1 DEF Init
    <2> QED BY <2>2, <2>3, <2>4, <2>5, <2>6, <2>7, <2>8, <2>9, <2>10 DEF TypeOK
  <1>2. \A o \in Ops : ~Linked(opList, o)
    BY DEF Init, Linked
  <1>3. Untouched /\ IDsIdentify /\ ListExact /\ OwnBlock /\ ResultIDs
    BY <1>2 DEF Init, Untouched, IDsIdentify, Entered, ListExact, OwnBlock, Active,
       ResultIDs, Numbered
  <1>4. FilledIsAnswer /\ AppHolds /\ ResultsCounted
    BY DEF Init, FilledIsAnswer, AppHolds, HoldsOperation, ResultsCounted
  <1> QED BY <1>1, <1>3, <1>4 DEF IInv

LEMMA StutterStep ==
  ASSUME IInv, UNCHANGED vars PROVE IInv'
  <1>1. TypeOK'
    BY DEF IInv, TypeOK, vars, requesterVars, infoVars, resultVars, opTable, resTable,
       appVars, history
  <1>2. Handshake'
    BY QuietStep DEF vars, opTable, history
  <1>3. AppHolds' /\ ResultsCounted'
    BY DEF IInv, AppHolds, HoldsOperation, Entered, Active, Linked, ResultsCounted, vars,
       requesterVars, infoVars, opTable, resTable, appVars, history
  <1> QED BY <1>1, <1>2, <1>3 DEF IInv, Handshake

(* The strengthened invariant holds in every reachable state.              *)
THEOREM Inductive == Spec => []IInv
  <1>1. Init => IInv
    BY InitIInv
  <1>2. IInv /\ [Next]_vars => IInv'
    <2> SUFFICES ASSUME IInv, [Next]_vars PROVE IInv'
      OBVIOUS
    <2>1. ASSUME NEW o \in Ops, Requester(o) PROVE IInv'
      BY <2>1, AllocateStep, LinkStep, StoreIDStep, ClearStep, PlaceholderStep, ReturnStep
         DEF Requester, Inside
    <2>2. CASE App
      BY <2>2, FetchOperationStep, FetchNothingStep, RecordStep, CopyStep,
         WaitStep, FillStep, SearchStep, DropStep, RelinkStep, FinishStep DEF App
    <2>3. CASE AppStart
      BY <2>3, StartStep
    <2>4. CASE AppExit
      BY <2>4, ExitStep
    <2>5. CASE UNCHANGED vars
      BY <2>5, StutterStep
    <2> QED BY <2>1, <2>2, <2>3, <2>4, <2>5 DEF Next
  <1> QED BY <1>1, <1>2, PTL DEF Spec

(* Every variable keeps its type: the counters never fall below zero, no   *)
(* list ever holds anything but operations, and an operation's thread      *)
(* writes to no address but that of a result block.                        *)
THEOREM TypeCorrect == Spec => []TypeOK
  <1>1. IInv => TypeOK
    BY DEF IInv
  <1> QED BY <1>1, Inductive, PTL

(* No thread leaves its wait in VerifyControl without an answer, unless    *)
(* its operation is spoilt, and the block it then frees is in no list.     *)
THEOREM ReleasedSafe == Spec => []ReleasedWithAnswer
  <1>1. IInv => ReleasedWithAnswer
    BY DEF IInv, TypeOK, ListExact, FilledIsAnswer, ReleasedWithAnswer
  <1> QED BY <1>1, Inductive, PTL

(* Every status is the one that the answer to that very operation fixes.   *)
THEOREM VerdictSafe == Spec => []VerdictTracksAnswer
  <1>1. IInv => VerdictTracksAnswer
    BY DEF IInv, FilledIsAnswer, VerdictTracksAnswer
  <1> QED BY <1>1, Inductive, PTL

(* The node copied outside the lock cannot be freed meanwhile.             *)
THEOREM CopiedSafe == Spec => []CopiedNodeIsLive
  <1>1. IInv => CopiedNodeIsLive
    BY DEF IInv, Untouched, ListExact, AppHolds, Entered, Active, CopiedNodeIsLive
  <1> QED BY <1>1, Inductive, PTL

(* After an operation's result is filled nothing about it changes.         *)
THEOREM AnsweredOnceSafe == Spec => AnsweredOnce
  <1> DEFINE Kept(o) == /\ answers'[o] = answers[o] /\ wasdealwith'[o] = wasdealwith[o]
                        /\ Active(o) => /\ wasFill'[block[o]]
                                        /\ operation_permit'[block[o]]
                                             = operation_permit[block[o]]
  <1>1. ASSUME IInv, [Next]_vars, NEW q \in filled, q \notin spoilt' PROVE Kept(q)
    <2>0. spoilt \subseteq spoilt'
      BY <1>1 DEF Next, Requester, Inside, App, AllocatePool,
         MyOperationInformationAddToHashTable, StoreResultID, ClearWasFill,
         FillOperationResultAddToHashTable_Result, VerifyControlReturn, FetchOperation,
         FetchNothing, RecordEvent, CopyOperation, WaitReturn, FillResult, FillCrashes,
         SearchForever, DropAnswer, RelinkResult, FinishOperation, AppStart, AppExit,
         vars, history
    <2>1. /\ q \in Ops /\ q \notin spoilt /\ wasdealwith[q] /\ answers[q] # "none"
          /\ pc[q] \in {"cleared", "waiting", "returned"}
          /\ Active(q) => wasFill[block[q]] /\ block[q] \in Ops
      BY <1>1, <2>0 DEF IInv, TypeOK, FilledIsAnswer, OwnBlock
    <2>a. wasFill \in [Ops -> BOOLEAN] /\ operation_permit \in [Ops -> BOOLEAN]
      BY <1>1 DEF IInv, TypeOK
    <2>2. ASSUME NEW o \in Ops, Requester(o) PROVE Kept(q)
      <3>1. CASE AllocatePool(o)
        <4>1. Active(q) => block[q] # NextBlock(o)
          BY <1>1, <2>1, <3>1 DEF AllocatePool, InUse, Owners
        <4> QED BY <2>1, <2>a, <3>1, <4>1 DEF AllocatePool, infoVars
      <3>2. CASE ClearWasFill(o)
        <4>1. Active(q) => block[q] # block[o]
          BY <1>1, <2>1, <3>2 DEF IInv, OwnBlock, Active, ClearWasFill
        <4> QED BY <2>1, <2>a, <3>2, <4>1 DEF ClearWasFill, infoVars, history
      <3>3. CASE \/ MyOperationInformationAddToHashTable(o) \/ StoreResultID(o)
                 \/ FillOperationResultAddToHashTable_Result(o) \/ VerifyControlReturn(o)
        BY <2>1, <3>3 DEF MyOperationInformationAddToHashTable, StoreResultID,
           FillOperationResultAddToHashTable_Result, VerifyControlReturn, infoVars,
           resultVars, history
      <3> QED BY <2>2, <3>1, <3>2, <3>3 DEF Requester, Inside
    <2>3. CASE CopyOperation
      BY <1>1, <2>1, <2>3 DEF IInv, TypeOK, AppHolds, CopyOperation, resultVars
    <2>4. CASE FillResult
      <3>1. PICK permit \in BOOLEAN, e \in Ops :
              /\ IsResultNode(e)
              /\ wasFill' = [wasFill EXCEPT ![e] = TRUE]
              /\ operation_permit' = [operation_permit EXCEPT ![e] = permit]
              /\ answers' = [answers EXCEPT ![handed] = Answer(permit)]
        BY <2>4, ConstantsAssumption DEF FillResult
      <3>2. /\ handed \in Ops /\ handed \notin filled
            /\ \A p \in Ops : Active(p) /\ p \notin spoilt /\ block[p] = e => p = handed
        BY <1>1, <2>4, <3>1, AnsweredBlock DEF FillResult
      <3>3. q # handed /\ (Active(q) => block[q] # e)
        BY <1>1, <2>1, <3>2
      <3> QED BY <1>1, <2>1, <2>4, <3>1, <3>3 DEF IInv, TypeOK, FillResult, infoVars
    <2>5. CASE DropAnswer
      <3>1. q # handed
        BY <2>1, <2>5, <1>1 DEF IInv, AppHolds, HoldsOperation, DropAnswer
      <3> QED BY <2>1, <2>5, <3>1, <1>1 DEF IInv, TypeOK, DropAnswer, infoVars, resultVars
    <2>6. CASE \/ FetchOperation \/ FetchNothing \/ RecordEvent \/ WaitReturn
               \/ FillCrashes \/ SearchForever \/ RelinkResult \/ FinishOperation \/ AppStart
               \/ AppExit \/ UNCHANGED vars
      BY <2>1, <2>6 DEF FetchOperation, FetchNothing, RecordEvent, WaitReturn, FillCrashes,
         SearchForever, RelinkResult, FinishOperation, AppStart, AppExit, vars, infoVars,
         resultVars, history
    <2> QED BY <1>1, <2>2, <2>3, <2>4, <2>5, <2>6 DEF Next, App
  <1>2. IInv /\ [Next]_vars => [\A o \in filled \ spoilt' : Kept(o)]_vars
    BY <1>1
  <1> QED BY <1>2, Inductive, PTL DEF Spec, AnsweredOnce
=============================================================================
