--------------------------- MODULE VerifyGateProofs ---------------------------
(* Machine-checked: the handshake keeps the order of the operations and    *)
(* implements the abstract gate.                                           *)
EXTENDS VerifyQueueProofs

-----------------------------------------------------------------------------
(* The invariant.                                                          *)

(* From the newest to the oldest, IDs decrease.                            *)
NewestFirst == \A i, j \in DOMAIN opList :
  i < j => OperationID[opList[i]] > OperationID[opList[j]]

(* The n newest of a list have not been dealt with, and all others have.   *)
Split(list, dealt, n) ==
  n \in 0 .. Len(list) /\ \A i \in DOMAIN list : dealt[list[i]] <=> i > n
ShownAreOldest == \E n \in 0 .. Len(opList) : Split(opList, wasdealwith, n)

(* What is being copied is the oldest that has not been dealt with.        *)
CopiedIsNext == app = "copy" =>
  \E n \in 1 .. Len(opList) : Split(opList, wasdealwith, n) /\ opList[n] = pnode

(* A status is written when the thread goes on, once.                      *)
StatusOnce == \A o \in Ops : verdict[o] = "none" <=> pc[o] # "returned"

GInv ==
  /\ NewestFirst
  /\ ShownAreOldest
  /\ CopiedIsNext
  /\ StatusOnce

-----------------------------------------------------------------------------
(* Lists.                                                                  *)

(* Linking a new operation, or unlinking an old one, moves the split along. *)
LEMMA SplitCons ==
  ASSUME NEW s \in Seq(Ops), NEW e \in Ops, NEW dealt, NEW n,
         Split(s, dealt, n), ~dealt[e]
  PROVE  Split(Cons(e, s), dealt, n + 1)
  <1>0. /\ DOMAIN Cons(e, s) = 1 .. (Len(s) + 1) /\ Cons(e, s)[1] = e
        /\ Len(Cons(e, s)) = Len(s) + 1
        /\ \A i \in DOMAIN s : Cons(e, s)[i + 1] = s[i]
    BY ConsLemma, Zenon
  <1>1. DOMAIN s = 1 .. Len(s) /\ Len(s) \in Nat /\ n \in 0 .. Len(s)
    BY DEF Split
  <1>2. ASSUME NEW i \in DOMAIN Cons(e, s)
        PROVE  dealt[Cons(e, s)[i]] <=> i > n + 1
    <2>1. CASE i = 1
      BY <1>0, <1>1, <2>1
    <2>2. CASE i # 1
      <3>1. i - 1 \in DOMAIN s /\ i = (i - 1) + 1 /\ (i > n + 1 <=> i - 1 > n)
        BY <1>0, <1>1, <2>2
      <3>2. Cons(e, s)[i] = s[i - 1]
        BY <1>0, <3>1
      <3> QED BY <3>1, <3>2 DEF Split
    <2> QED BY <2>1, <2>2
  <1>3. n + 1 \in 0 .. Len(Cons(e, s))
    BY <1>0, <1>1
  <1> QED BY <1>2, <1>3 DEF Split

LEMMA SplitRemoveOld ==
  ASSUME NEW s \in Seq(Ops), NEW k \in DOMAIN s, NEW dealt, NEW n,
         Split(s, dealt, n), k > n
  PROVE  /\ Split(RemoveAt(s, k), dealt, n)
         /\ \A i \in 1 .. n : RemoveAt(s, k)[i] = s[i]
  <1> DEFINE r == RemoveAt(s, k)
  <1>0. /\ DOMAIN r = 1 .. (Len(s) - 1) /\ Len(r) = Len(s) - 1
        /\ \A j \in 1 .. (Len(s) - 1) : r[j] = IF j < k THEN s[j] ELSE s[j + 1]
    BY RemoveAtLemma, Zenon
  <1>1. /\ DOMAIN s = 1 .. Len(s) /\ Len(s) \in Nat /\ k \in 1 .. Len(s)
        /\ n \in 0 .. Len(s)
    BY DEF Split
  <1> HIDE DEF r
  <1>2. \A i \in 1 .. n : r[i] = s[i]
    BY <1>0, <1>1
  <1>3. ASSUME NEW i \in DOMAIN r PROVE dealt[r[i]] <=> i > n
    <2>1. CASE i < k
      BY <1>0, <1>1, <2>1 DEF Split
    <2>2. CASE ~(i < k)
      <3>1. i + 1 \in DOMAIN s /\ i > n /\ i + 1 > n /\ r[i] = s[i + 1]
        BY <1>0, <1>1, <2>2
      <3> QED BY <3>1 DEF Split
    <2> QED BY <2>1, <2>2
  <1>4. n \in 0 .. Len(r)
    BY <1>0, <1>1
  <1> QED BY <1>2, <1>3, <1>4 DEF Split, r

LEMMA SplitRemoveNew ==
  ASSUME NEW s \in Seq(Ops), NEW k \in DOMAIN s, NEW dealt, NEW n,
         Split(s, dealt, n), k <= n
  PROVE  Split(RemoveAt(s, k), dealt, n - 1)
  <1> DEFINE r == RemoveAt(s, k)
  <1>0. /\ DOMAIN r = 1 .. (Len(s) - 1) /\ Len(r) = Len(s) - 1
        /\ \A j \in 1 .. (Len(s) - 1) : r[j] = IF j < k THEN s[j] ELSE s[j + 1]
    BY RemoveAtLemma, Zenon
  <1>1. /\ DOMAIN s = 1 .. Len(s) /\ Len(s) \in Nat /\ k \in 1 .. Len(s)
        /\ n \in 0 .. Len(s)
    BY DEF Split
  <1> HIDE DEF r
  <1>2. ASSUME NEW i \in DOMAIN r PROVE dealt[r[i]] <=> i > n - 1
    <2>1. CASE i < k
      <3>1. i \in DOMAIN s /\ ~(i > n) /\ ~(i > n - 1) /\ r[i] = s[i]
        BY <1>0, <1>1, <2>1
      <3> QED BY <3>1 DEF Split
    <2>2. CASE ~(i < k)
      <3>1. i + 1 \in DOMAIN s /\ (i + 1 > n <=> i > n - 1) /\ r[i] = s[i + 1]
        BY <1>0, <1>1, <2>2
      <3> QED BY <3>1 DEF Split
    <2> QED BY <2>1, <2>2
  <1>3. n - 1 \in 0 .. Len(r)
    BY <1>0, <1>1
  <1> QED BY <1>2, <1>3 DEF Split, r

(* What waits to be shown, element by element.                             *)
LEMMA UnshownIs ==
  ASSUME NEW s \in Seq(Ops), NEW dealt, NEW n, Split(s, dealt, n)
  PROVE  /\ Unshown(s, dealt) \in Seq(Ops)
         /\ Len(Unshown(s, dealt)) = n
         /\ \A i \in 1 .. n : Unshown(s, dealt)[i] = s[n + 1 - i]
  <1> DEFINE P(m) == /\ \A i \in 1 .. m : ~dealt[s[i]]
                     /\ m < Len(s) => dealt[s[m + 1]]
             c == CHOOSE m \in 0 .. Len(s) : P(m)
  <1>0. DOMAIN s = 1 .. Len(s) /\ Len(s) \in Nat /\ n \in 0 .. Len(s)
    BY DEF Split
  <1>1. P(n)
    BY <1>0 DEF Split
  <1>2. c \in 0 .. Len(s) /\ P(c)
    <2> HIDE DEF P
    <2> QED BY <1>0, <1>1
  <1>3. c = n
    <2> HIDE DEF c
    <2>1. ~(c < n)
      <3> SUFFICES ASSUME c < n PROVE FALSE
        OBVIOUS
      <3>1. c + 1 \in DOMAIN s /\ ~(c + 1 > n) /\ c < Len(s)
        BY <1>0, <1>2
      <3>2. dealt[s[c + 1]]
        BY <1>2, <3>1
      <3> QED BY <3>1, <3>2 DEF Split
    <2>2. ~(n < c)
      <3> SUFFICES ASSUME n < c PROVE FALSE
        OBVIOUS
      <3>1. n + 1 \in DOMAIN s /\ n + 1 > n /\ n + 1 \in 1 .. c
        BY <1>0, <1>2
      <3>2. ~dealt[s[n + 1]]
        BY <1>2, <3>1
      <3> QED BY <3>1, <3>2 DEF Split
    <2> QED BY <1>0, <1>2, <2>1, <2>2
  <1>4. Unshown(s, dealt) = Reverse(SubSeq(s, 1, c))
    BY DEF Unshown
  <1> HIDE DEF c, P
  <1>5. /\ SubSeq(s, 1, n) \in Seq(Ops) /\ Len(SubSeq(s, 1, n)) = n
        /\ \A i \in 1 .. n : SubSeq(s, 1, n)[i] = s[i]
    BY <1>0
  <1> DEFINE h == SubSeq(s, 1, n)
  <1> HIDE DEF h
  <1>6. Reverse(h) = [i \in 1 .. n |-> h[(n - i) + 1]]
    BY <1>5 DEF Reverse, h
  <1>7. \A i \in 1 .. n : (n - i) + 1 \in 1 .. n /\ (n - i) + 1 = n + 1 - i
    BY <1>0
  <1>8. \A i \in 1 .. n : h[(n - i) + 1] = s[n + 1 - i] /\ s[n + 1 - i] \in Ops
    BY <1>0, <1>5, <1>7 DEF h
  <1>9. Reverse(h) \in [1 .. n -> Ops]
    BY <1>6, <1>8
  <1>10. Reverse(h) \in Seq(Ops) /\ Len(Reverse(h)) = n
    BY <1>0, <1>9
  <1>11. Unshown(s, dealt) = Reverse(h)
    BY <1>3, <1>4 DEF h
  <1> QED BY <1>6, <1>8, <1>10, <1>11

-----------------------------------------------------------------------------
(* Each step preserves the invariant.                                      *)

(* A new operation has the highest ID and is the first to wait.            *)
LEMMA GLink ==
  ASSUME NEW o \in Ops, IInv, GInv, MyOperationInformationAddToHashTable(o)
  PROVE  GInv'
  <1> DEFINE s == opList
             t == Cons(o, opList)
  <1>0. /\ pc[o] = "allocated" /\ ~Linked(s, o) /\ ~wasdealwith[o]
        /\ s \in Seq(Ops) /\ opList' = t /\ verdict' = verdict
        /\ wasdealwith' = wasdealwith /\ app' = app /\ pnode' = pnode
        /\ pc' = [pc EXCEPT ![o] = "linked"]
    BY DEF IInv, TypeOK, Untouched, Entered, MyOperationInformationAddToHashTable
  <1>a. pc \in [Ops -> {"idle", "allocated", "linked", "numbered", "cleared",
                        "waiting", "returned"}]
    BY DEF IInv, TypeOK
  <1>1. /\ totalnumbers \in Nat /\ OperationID \in [Ops -> Nat]
        /\ OperationID' = [OperationID EXCEPT ![o] = 6 + totalnumbers + 1]
    BY DEF IInv, TypeOK, MyOperationInformationAddToHashTable, NextOperationID,
       IRP_MJ_SET_INFORMATION
  <1>2. /\ DOMAIN t = 1 .. (Len(s) + 1) /\ Len(t) = Len(s) + 1 /\ t[1] = o
        /\ \A i \in DOMAIN s : t[i + 1] = s[i]
    BY <1>0, ConsLemma, Zenon
  <1>3. DOMAIN s = 1 .. Len(s) /\ Len(s) \in Nat
    BY <1>0
  <1>4. ASSUME NEW i \in DOMAIN s
        PROVE  /\ s[i] \in Ops /\ s[i] # o
               /\ OperationID'[s[i]] = OperationID[s[i]]
               /\ OperationID[s[i]] \in Nat
               /\ OperationID[s[i]] <= 6 + totalnumbers
    <2>1. s[i] \in Ops /\ s[i] # o /\ Linked(s, s[i])
      BY <1>0 DEF Linked
    <2>2. OperationID[s[i]] <= 6 + totalnumbers
      BY <2>1 DEF IInv, Untouched, IDsIdentify, Entered, IRP_MJ_SET_INFORMATION
    <2> QED BY <1>1, <2>1, <2>2
  <1> HIDE DEF s, t
  <1>5. NewestFirst'
    <2>1. ASSUME NEW i \in DOMAIN t, NEW j \in DOMAIN t, i < j
          PROVE  OperationID'[t[i]] > OperationID'[t[j]]
      <3>1. j - 1 \in DOMAIN s /\ t[j] = s[j - 1]
        <4>1. j - 1 \in DOMAIN s /\ (j - 1) + 1 = j
          BY <1>2, <1>3, <2>1
        <4> QED BY <1>2, <4>1
      <3>2. CASE i = 1
        BY <1>0, <1>1, <1>2, <1>4, <3>1, <3>2
      <3>3. CASE i # 1
        <4>1. i - 1 \in DOMAIN s /\ (i - 1) + 1 = i /\ i - 1 < j - 1
          BY <1>2, <1>3, <2>1, <3>1, <3>3
        <4>2. t[i] = s[i - 1]
          BY <1>2, <4>1
        <4>3. OperationID[s[i - 1]] > OperationID[s[j - 1]]
          BY <3>1, <4>1 DEF GInv, NewestFirst, s
        <4> QED BY <1>4, <3>1, <4>1, <4>2, <4>3
      <3> QED BY <3>2, <3>3
    <2> QED BY <1>0, <2>1 DEF NewestFirst
  <1>6. ASSUME NEW n, Split(s, wasdealwith, n)
        PROVE  n + 1 \in 1 .. Len(t) /\ Split(t, wasdealwith, n + 1)
    <2>1. Split(t, wasdealwith, n + 1)
      BY <1>0, <1>6, SplitCons DEF t, s
    <2> QED BY <1>2, <1>3, <1>6, <2>1 DEF Split
  <1>7. ShownAreOldest'
    <2>1. PICK n \in 0 .. Len(s) : Split(s, wasdealwith, n)
      BY DEF GInv, ShownAreOldest, s
    <2>2. n + 1 \in 0 .. Len(t) /\ Split(t, wasdealwith, n + 1)
      BY <1>2, <1>3, <1>6, <2>1
    <2> QED BY <1>0, <2>2 DEF ShownAreOldest
  <1>8. CopiedIsNext'
    <2>1. SUFFICES ASSUME app = "copy"
                   PROVE  \E n \in 1 .. Len(t) : Split(t, wasdealwith, n) /\ t[n] = pnode
      BY <1>0 DEF CopiedIsNext
    <2>2. PICK n \in 1 .. Len(s) : Split(s, wasdealwith, n) /\ s[n] = pnode
      BY <2>1 DEF GInv, CopiedIsNext, s
    <2>3. t[n + 1] = pnode
      BY <1>2, <1>3, <2>2
    <2> QED BY <1>6, <2>2, <2>3
  <1>9. StatusOnce'
    BY <1>0, <1>a DEF GInv, StatusOnce
  <1> QED BY <1>5, <1>7, <1>8, <1>9 DEF GInv

(* The steps of a thread before it waits leave its status and the list.    *)
LEMMA GPrepare ==
  ASSUME NEW o \in Ops, IInv, GInv,
         \/ AllocatePool(o) \/ StoreResultID(o) \/ ClearWasFill(o)
         \/ FillOperationResultAddToHashTable_Result(o)
  PROVE  GInv'
  <1>0. /\ UNCHANGED <<verdict, wasdealwith, OperationID, opList, app, pnode>>
        /\ pc[o] # "returned"
        /\ \E p : p # "returned" /\ pc' = [pc EXCEPT ![o] = p]
    BY DEF AllocatePool, StoreResultID, ClearWasFill,
       FillOperationResultAddToHashTable_Result, infoVars, opTable, appVars
  <1>1. DOMAIN pc = Ops
    BY DEF IInv, TypeOK
  <1>2. StatusOnce'
    BY <1>0, <1>1 DEF GInv, StatusOnce
  <1> QED BY <1>0, <1>2 DEF GInv, NewestFirst, ShownAreOldest, CopiedIsNext

LEMMA GReturn ==
  ASSUME NEW o \in Ops, IInv, GInv, VerifyControlReturn(o) PROVE GInv'
  <1>0. /\ pc[o] = "waiting" /\ pc' = [pc EXCEPT ![o] = "returned"]
        /\ verdict'[o] # "none"
        /\ \A q \in Ops \ {o} : verdict'[q] = verdict[q]
        /\ UNCHANGED <<wasdealwith, OperationID, opList, app, pnode>>
        /\ DOMAIN pc = Ops
    BY DEF IInv, TypeOK, VerifyControlReturn, infoVars, opTable, appVars
  <1>1. NewestFirst' /\ ShownAreOldest' /\ CopiedIsNext'
    BY <1>0 DEF GInv, NewestFirst, ShownAreOldest, CopiedIsNext
  <1>2. StatusOnce'
    BY <1>0 DEF GInv, StatusOnce
  <1> QED BY <1>1, <1>2 DEF GInv

(* The search from the tail ends at the oldest that waits to be shown.     *)
LEMMA GFetch ==
  ASSUME IInv, GInv, FetchOperation PROVE GInv'
  <1>0. /\ opList \in Seq(Ops) /\ app' = "copy"
        /\ UNCHANGED <<pc, verdict, wasdealwith, OperationID, opList>>
    BY DEF IInv, TypeOK, FetchOperation, requesterVars, infoVars
  <1>1. PICK i \in DOMAIN opList : IsListTailNode(i) /\ pnode' = opList[i]
    BY DEF FetchOperation
  <1>2. PICK n \in 0 .. Len(opList) : Split(opList, wasdealwith, n)
    BY DEF GInv, ShownAreOldest
  <1>3. DOMAIN opList = 1 .. Len(opList) /\ Len(opList) \in Nat
    BY <1>0
  <1>4. ~wasdealwith[opList[i]] /\ \A j \in DOMAIN opList : ~wasdealwith[opList[j]] => j <= i
    BY <1>1 DEF IsListTailNode, Undealt
  <1>5. i <= n
    BY <1>3, <1>4, <1>2 DEF Split
  <1>6. n \in DOMAIN opList /\ ~wasdealwith[opList[n]]
    BY <1>2, <1>3, <1>5 DEF Split
  <1>7. i = n
    BY <1>3, <1>4, <1>5, <1>6
  <1>8. CopiedIsNext'
    BY <1>0, <1>1, <1>2, <1>3, <1>6, <1>7 DEF CopiedIsNext
  <1>9. NewestFirst' /\ ShownAreOldest' /\ StatusOnce'
    BY <1>0 DEF GInv, NewestFirst, ShownAreOldest, StatusOnce
  <1> QED BY <1>8, <1>9 DEF GInv

(* Once it is copied, the next newer one is the oldest that waits.         *)
LEMMA CopySplit ==
  ASSUME IInv, CopyOperation, NEW n \in 1 .. Len(opList),
         Split(opList, wasdealwith, n), opList[n] = pnode
  PROVE  Split(opList, wasdealwith', n - 1)
  <1>0. /\ opList \in Seq(Ops) /\ wasdealwith \in [Ops -> BOOLEAN]
        /\ wasdealwith' = [wasdealwith EXCEPT ![pnode] = TRUE]
        /\ \A i, j \in DOMAIN opList : opList[i] = opList[j] => i = j
    BY DEF IInv, TypeOK, ListExact, CopyOperation
  <1>1. DOMAIN opList = 1 .. Len(opList) /\ Len(opList) \in Nat
    BY <1>0
  <1>2. ASSUME NEW i \in DOMAIN opList
        PROVE  wasdealwith'[opList[i]] <=> i > n - 1
    <2>1. opList[i] \in Ops
      BY <1>0
    <2>2. CASE i = n
      BY <1>0, <1>1, <2>1, <2>2
    <2>3. CASE i # n
      <3>1. opList[i] # pnode
        BY <1>0, <1>1, <2>3
      <3>2. wasdealwith'[opList[i]] = wasdealwith[opList[i]]
        BY <1>0, <2>1, <3>1
      <3>3. i > n <=> i > n - 1
        BY <1>1, <2>3
      <3> QED BY <3>2, <3>3 DEF Split
    <2> QED BY <2>2, <2>3
  <1>3. n - 1 \in 0 .. Len(opList)
    BY <1>1
  <1> QED BY <1>2, <1>3 DEF Split

LEMMA GCopy ==
  ASSUME IInv, GInv, CopyOperation PROVE GInv'
  <1>0. /\ app = "copy" /\ app' = "wait"
        /\ UNCHANGED <<pc, verdict, OperationID, opList>>
        /\ Len(opList) \in Nat
    BY DEF IInv, TypeOK, CopyOperation, requesterVars, opTable
  <1>1. PICK n \in 1 .. Len(opList) : Split(opList, wasdealwith, n) /\ opList[n] = pnode
    BY <1>0 DEF GInv, CopiedIsNext
  <1>2. Split(opList, wasdealwith', n - 1)
    BY <1>1, CopySplit
  <1>3. n - 1 \in 0 .. Len(opList)
    BY <1>0
  <1>4. ShownAreOldest'
    BY <1>0, <1>2, <1>3 DEF ShownAreOldest
  <1>5. NewestFirst' /\ StatusOnce'
    BY <1>0 DEF GInv, NewestFirst, StatusOnce
  <1>6. CopiedIsNext'
    BY <1>0 DEF CopiedIsNext
  <1> QED BY <1>4, <1>5, <1>6 DEF GInv

(* What the last section of an answer unlinks is answered or spoilt.       *)
LEMMA FinishUnlinks ==
  ASSUME IInv, FinishOperation
  PROVE  \/ opList' = opList
         \/ \E k \in DOMAIN opList : /\ opList' = RemoveAt(opList, k)
                                     /\ opList[k] \in Ops
                                     /\ opList[k] \in filled \union spoilt
  <1>1. CASE \E i \in DOMAIN opList : IsAnsweredNode(i)
    <2> DEFINE k == CHOOSE i \in DOMAIN opList : IsAnsweredNode(i)
    <2>1. k \in DOMAIN opList /\ IsAnsweredNode(k) /\ opList' = RemoveAt(opList, k)
      BY <1>1 DEF FinishOperation
    <2> HIDE DEF k
    <2> QED BY <2>1, AnsweredNode DEF FinishOperation
  <1>2. CASE ~\E i \in DOMAIN opList : IsAnsweredNode(i)
    BY <1>2 DEF FinishOperation
  <1> QED BY <1>1, <1>2

(* Unlinking a node keeps the order of the others and the split.           *)
LEMMA GFinish ==
  ASSUME IInv, GInv, FinishOperation PROVE GInv'
  <1>0. /\ app' = "verify" /\ opList \in Seq(Ops)
        /\ UNCHANGED <<pc, verdict, wasdealwith, OperationID>>
    BY DEF IInv, TypeOK, FinishOperation, requesterVars
  <1>1. CASE opList' = opList
    BY <1>0, <1>1 DEF GInv, NewestFirst, ShownAreOldest, CopiedIsNext, StatusOnce
  <1>2. ASSUME NEW k \in DOMAIN opList, opList' = RemoveAt(opList, k)
        PROVE  GInv'
    <2>1. PICK n \in 0 .. Len(opList) : Split(opList, wasdealwith, n)
      BY DEF GInv, ShownAreOldest
    <2>2. k \in Nat /\ n \in Nat
      BY <1>0, <1>2
    <2>3. ASSUME k > n PROVE ShownAreOldest'
      <3>1. Split(opList', wasdealwith', n)
        BY <1>0, <1>2, <2>1, <2>3, SplitRemoveOld
      <3> QED BY <3>1 DEF ShownAreOldest, Split
    <2>4. ASSUME k <= n PROVE ShownAreOldest'
      <3>1. Split(opList', wasdealwith', n - 1)
        BY <1>0, <1>2, <2>1, <2>4, SplitRemoveNew
      <3> QED BY <3>1 DEF ShownAreOldest, Split
    <2>a. ShownAreOldest'
      BY <2>2, <2>3, <2>4
    <2> DEFINE s == opList
               r == opList'
    <2>5. /\ DOMAIN r = 1 .. (Len(s) - 1)
          /\ \A j \in 1 .. (Len(s) - 1) : r[j] = IF j < k THEN s[j] ELSE s[j + 1]
      BY <1>0, <1>2, RemoveAtLemma, Zenon
    <2>6. DOMAIN s = 1 .. Len(s) /\ Len(s) \in Nat /\ k \in 1 .. Len(s)
      BY <1>0, <1>2
    <2>7. \A i, j \in DOMAIN s : i < j => OperationID[s[i]] > OperationID[s[j]]
      BY DEF GInv, NewestFirst
    <2> HIDE DEF s, r
    <2>8. ASSUME NEW i \in DOMAIN r, NEW j \in DOMAIN r, i < j
          PROVE  OperationID[r[i]] > OperationID[r[j]]
      <3> DEFINE up(m) == IF m < k THEN m ELSE m + 1
      <3>1. up(i) \in DOMAIN s /\ up(j) \in DOMAIN s /\ up(i) < up(j)
        BY <2>5, <2>6, <2>8
      <3>2. r[i] = s[up(i)] /\ r[j] = s[up(j)]
        BY <2>5, <2>6, <2>8
      <3> QED BY <2>7, <3>1, <3>2
    <2>9. NewestFirst'
      BY <1>0, <2>8 DEF NewestFirst, r
    <2>10. CopiedIsNext' /\ StatusOnce'
      BY <1>0 DEF GInv, CopiedIsNext, StatusOnce
    <2> QED BY <2>a, <2>9, <2>10 DEF GInv
  <1> QED BY <1>1, <1>2, FinishUnlinks

(* The other steps change nothing that the invariant speaks of.            *)
LEMMA GOther ==
  ASSUME GInv, \/ FetchNothing \/ RecordEvent \/ WaitReturn \/ FillResult \/ FillCrashes
               \/ SearchForever \/ DropAnswer \/ RelinkResult
               \/ AppStart \/ AppExit \/ UNCHANGED vars
  PROVE  GInv'
  <1>1. /\ UNCHANGED <<pc, verdict, wasdealwith, OperationID, opList, pnode>>
        /\ app' = "copy" => app' = app
    BY DEF FetchNothing, RecordEvent, WaitReturn, FillResult, FillCrashes, SearchForever,
       DropAnswer, RelinkResult, AppStart, AppExit, vars, requesterVars, infoVars,
       opTable, appVars
  <1> QED BY <1>1 DEF GInv, NewestFirst, ShownAreOldest, CopiedIsNext, StatusOnce

LEMMA InitGInv == Init => GInv
  <1> SUFFICES ASSUME Init PROVE GInv
    OBVIOUS
  <1>1. opList = <<>> /\ Len(opList) = 0
    BY EmptySeq DEF Init
  <1>2. Split(opList, wasdealwith, 0)
    BY <1>1 DEF Split
  <1> QED BY <1>1, <1>2 DEF Init, GInv, NewestFirst, ShownAreOldest, CopiedIsNext, StatusOnce

LEMMA GInvHolds == Spec => []GInv
  <1>1. IInv /\ GInv /\ [Next]_vars => GInv'
    <2> SUFFICES ASSUME IInv, GInv, [Next]_vars PROVE GInv'
      OBVIOUS
    <2>1. ASSUME NEW o \in Ops, Requester(o) PROVE GInv'
      BY <2>1, GLink, GPrepare, GReturn DEF Requester, Inside
    <2>2. CASE App
      BY <2>2, GFetch, GCopy, GFinish, GOther DEF App
    <2>3. CASE AppStart \/ AppExit \/ UNCHANGED vars
      BY <2>3, GOther
    <2> QED BY <2>1, <2>2, <2>3 DEF Next
  <1> QED BY <1>1, InitGInv, Inductive, PTL DEF Spec

-----------------------------------------------------------------------------
(* The theorems.                                                           *)

(* The application is shown the oldest operation first.                    *)
THEOREM OldestIsFirst == Spec => OldestFirst
  <1> DEFINE Older(o) == \A i \in DOMAIN opList :
               wasdealwith[opList[i]] \/ OperationID[o] <= OperationID[opList[i]]
             A == \A o \in Ops : (~wasdealwith[o] /\ wasdealwith'[o]) => Older(o)
  <1>1. ASSUME IInv, GInv, [Next]_vars PROVE A
    <2>1. CASE CopyOperation
      <3>1. PICK n \in 1 .. Len(opList) : Split(opList, wasdealwith, n) /\ opList[n] = pnode
        BY <1>1, <2>1 DEF GInv, CopiedIsNext, CopyOperation
      <3>2. DOMAIN opList = 1 .. Len(opList) /\ Len(opList) \in Nat
        BY <1>1 DEF IInv, TypeOK
      <3>3. ASSUME NEW i \in DOMAIN opList, ~wasdealwith[opList[i]]
            PROVE  OperationID[pnode] <= OperationID[opList[i]]
        <4>1. i <= n
          BY <3>1, <3>2, <3>3 DEF Split
        <4>2. OperationID[opList[i]] \in Nat /\ OperationID[opList[n]] \in Nat
          BY <1>1, <3>2 DEF IInv, TypeOK
        <4>3. i # n => OperationID[opList[i]] > OperationID[opList[n]]
          BY <1>1, <3>2, <4>1 DEF GInv, NewestFirst
        <4> QED BY <3>1, <4>2, <4>3
      <3>4. Older(pnode)
        BY <3>3
      <3>5. ASSUME NEW o \in Ops, ~wasdealwith[o], wasdealwith'[o] PROVE o = pnode
        BY <1>1, <2>1, <3>5 DEF IInv, TypeOK, CopyOperation
      <3> HIDE DEF Older
      <3> QED BY <3>4, <3>5
    <2>2. CASE wasdealwith' = wasdealwith
      BY <2>2
    <2>3. CopyOperation \/ wasdealwith' = wasdealwith
      BY <1>1 DEF Next, App, Requester, Inside, AllocatePool, StoreResultID,
         ClearWasFill, MyOperationInformationAddToHashTable,
         FillOperationResultAddToHashTable_Result, VerifyControlReturn,
         FetchOperation, FetchNothing, RecordEvent, WaitReturn, FillResult,
         FillCrashes, SearchForever, DropAnswer, RelinkResult, FinishOperation, AppStart, AppExit, vars, infoVars
    <2> QED BY <2>1, <2>2, <2>3
  <1>2. IInv /\ GInv /\ [Next]_vars => [A]_vars
    BY <1>1
  <1> QED BY <1>2, Inductive, GInvHolds, PTL DEF Spec, OldestFirst

-----------------------------------------------------------------------------
(* The refinement: what the gate's variables are here, and one lemma for   *)
(* each of its steps.                                                      *)

Asked == {o \in Ops : pc[o] \notin {"idle", "allocated"}}
Queue == Unshown(opList, wasdealwith)
Looked == IF app \in {"answer", "endless"} \/ (app = "wait" /\ ~record.exception)
          THEN {handed} ELSE {}
Judged == [o \in Ops |-> IF o \in filled THEN answers[o] ELSE "none"]
GateUnchanged == /\ Asked' = Asked /\ Queue' = Queue /\ Looked' = Looked
                 /\ Judged' = Judged /\ verdict' = verdict

LEMMA LinkAsks ==
  ASSUME NEW o \in Ops, IInv, GInv, MyOperationInformationAddToHashTable(o)
  PROVE  Gate!Ask(o)
  <1>0. /\ pc[o] = "allocated" /\ ~wasdealwith[o] /\ opList \in Seq(Ops)
        /\ opList' = Cons(o, opList) /\ pc' = [pc EXCEPT ![o] = "linked"]
        /\ UNCHANGED <<verdict, wasdealwith, filled, answers, app, record, handed>>
        /\ DOMAIN pc = Ops
    BY DEF IInv, TypeOK, Untouched, Entered, MyOperationInformationAddToHashTable, history
  <1>1. o \notin Asked /\ Asked' = Asked \union {o}
    BY <1>0 DEF Asked
  <1>2. Looked' = Looked /\ Judged' = Judged
    BY <1>0 DEF Looked, Judged
  <1>3. Queue' = Append(Queue, o)
    <2> DEFINE s == opList
               t == Cons(o, opList)
               q == Unshown(s, wasdealwith)
               r == Unshown(t, wasdealwith)
    <2>1. PICK n \in 0 .. Len(s) : Split(s, wasdealwith, n)
      BY DEF GInv, ShownAreOldest
    <2>2. Split(t, wasdealwith, n + 1)
      BY <1>0, <2>1, SplitCons
    <2>3. /\ t \in Seq(Ops) /\ t[1] = o
          /\ \A i \in DOMAIN s : t[i + 1] = s[i]
      BY <1>0, ConsLemma, Zenon
    <2>4. DOMAIN s = 1 .. Len(s) /\ Len(s) \in Nat
      BY <1>0
    <2>5. /\ q \in Seq(Ops) /\ Len(q) = n
          /\ \A i \in 1 .. n : q[i] = s[n + 1 - i]
      BY <1>0, <2>1, UnshownIs
    <2>6. /\ r \in Seq(Ops) /\ Len(r) = n + 1
          /\ \A i \in 1 .. n + 1 : r[i] = t[n + 1 + 1 - i]
      <3>1. ASSUME NEW m, Split(t, wasdealwith, m)
            PROVE  /\ r \in Seq(Ops) /\ Len(r) = m
                   /\ \A i \in 1 .. m : r[i] = t[m + 1 - i]
        <4> HIDE DEF t
        <4> QED BY <2>3, <3>1, UnshownIs
      <3> HIDE DEF t, r
      <3> QED BY <2>2, <3>1
    <2> HIDE DEF s, t, q, r
    <2>7. /\ Append(q, o) \in Seq(Ops) /\ Len(Append(q, o)) = n + 1
          /\ \A i \in 1 .. n : Append(q, o)[i] = q[i]
          /\ Append(q, o)[n + 1] = o
      BY <2>5
    <2>8. ASSUME NEW i \in 1 .. n + 1 PROVE r[i] = Append(q, o)[i]
      <3>1. CASE i = n + 1
        BY <2>1, <2>3, <2>4, <2>6, <2>7, <3>1
      <3>2. CASE i # n + 1
        <4>1. i \in 1 .. n /\ n + 1 - i \in DOMAIN s /\ n + 1 + 1 - i = (n + 1 - i) + 1
          BY <2>1, <2>4, <3>2
        <4>2. t[(n + 1 - i) + 1] = s[n + 1 - i]
          BY <2>3, <4>1
        <4> QED BY <2>5, <2>6, <2>7, <4>1, <4>2
      <3> QED BY <3>1, <3>2
    <2>9. r = Append(q, o)
      BY <2>6, <2>7, <2>8, SeqEqual
    <2> QED BY <1>0, <2>9 DEF Queue, q, r, s, t
  <1> QED BY <1>0, <1>1, <1>2, <1>3 DEF Gate!Ask, Asked, Looked, Judged, Queue

LEMMA CopyShows ==
  ASSUME IInv, GInv, CopyOperation PROVE Gate!Show
  <1>0. /\ app = "copy" /\ app' = "wait" /\ handed' = pnode /\ ~record'.exception
        /\ opList \in Seq(Ops)
        /\ UNCHANGED <<pc, verdict, opList, filled, answers>>
    BY DEF IInv, TypeOK, CopyOperation, requesterVars, opTable
  <1>1. Asked' = Asked /\ Judged' = Judged
    BY <1>0 DEF Asked, Judged
  <1>2. Looked = {} /\ Looked' = {pnode}
    BY <1>0 DEF Looked
  <1>3. Queue # <<>> /\ Head(Queue) = pnode /\ Queue' = Tail(Queue)
    <2> DEFINE s == opList
               q == Unshown(s, wasdealwith)
               r == Unshown(s, wasdealwith')
    <2>1. PICK n \in 1 .. Len(s) : Split(s, wasdealwith, n) /\ s[n] = pnode
      BY <1>0 DEF GInv, CopiedIsNext
    <2>2. Split(s, wasdealwith', n - 1)
      BY <2>1, CopySplit
    <2>3. /\ q \in Seq(Ops) /\ Len(q) = n
          /\ \A i \in 1 .. n : q[i] = s[n + 1 - i]
      BY <1>0, <2>1, UnshownIs
    <2>4. /\ r \in Seq(Ops) /\ Len(r) = n - 1
          /\ \A i \in 1 .. n - 1 : r[i] = s[n - 1 + 1 - i]
      BY <1>0, <2>2, UnshownIs
    <2>5. Len(s) \in Nat
      BY <1>0
    <2> HIDE DEF s, q, r
    <2>6. /\ q # <<>> /\ Head(q) = q[1] /\ Tail(q) \in Seq(Ops)
          /\ Len(Tail(q)) = n - 1
          /\ \A i \in 1 .. n - 1 : Tail(q)[i] = q[i + 1]
      BY <2>1, <2>3, <2>5
    <2>7. Head(q) = pnode
      BY <2>1, <2>3, <2>5, <2>6
    <2>8. ASSUME NEW i \in 1 .. n - 1 PROVE r[i] = Tail(q)[i]
      <3>1. i + 1 \in 1 .. n /\ n + 1 - (i + 1) = n - 1 + 1 - i
        BY <2>1, <2>5
      <3>2. q[i + 1] = s[n + 1 - (i + 1)] /\ r[i] = s[n - 1 + 1 - i]
        BY <2>3, <2>4, <3>1
      <3>3. Tail(q)[i] = q[i + 1]
        BY <2>6
      <3> QED BY <3>1, <3>2, <3>3
    <2>9. r = Tail(q)
      BY <2>4, <2>6, <2>8, SeqEqual
    <2> QED BY <1>0, <2>6, <2>7, <2>9 DEF Queue, q, r, s
  <1> QED BY <1>0, <1>1, <1>2, <1>3 DEF Gate!Show, Asked, Looked, Judged, Queue

LEMMA FillJudges ==
  ASSUME IInv, GInv, FillResult
  PROVE  \E j \in {"permit", "refuse"} : \E o \in Ops : Gate!Judge(o, j)
  <1>0. /\ app = "answer" /\ app' = "relink"
        /\ UNCHANGED <<pc, verdict, opList, wasdealwith>>
        /\ filled' = filled \union {handed}
        /\ answers \in [Ops -> {"none", "permit", "refuse"}]
    BY DEF IInv, TypeOK, FillResult, requesterVars, infoVars, opTable
  <1>1. PICK permit \in BOOLEAN, e \in Ops :
          IsResultNode(e) /\ answers' = [answers EXCEPT ![handed] = Answer(permit)]
    BY ConstantsAssumption DEF FillResult
  <1>2. handed \in Ops /\ answers[handed] = "none" /\ handed \notin filled
    BY <1>0, <1>1, AnsweredBlock
  <1>3. Answer(permit) \in {"permit", "refuse"}
    BY DEF Answer
  <1>4. Looked = {handed} /\ Looked' = {} /\ Asked' = Asked /\ Queue' = Queue
    BY <1>0 DEF Looked, Asked, Queue
  <1>5. Judged[handed] = "none" /\ Judged' = [Judged EXCEPT ![handed] = Answer(permit)]
    BY <1>0, <1>1, <1>2 DEF Judged
  <1>6. Gate!Judge(handed, Answer(permit))
    BY <1>0, <1>4, <1>5 DEF Gate!Judge, Asked, Looked, Judged, Queue
  <1> QED BY <1>2, <1>3, <1>6

(* An answer without a placeholder is lost with the operation.             *)
LEMMA DropForgets ==
  ASSUME IInv, DropAnswer PROVE Gate!Forget
  <1>0. /\ app = "answer" /\ app' = "verify"
        /\ UNCHANGED <<pc, verdict, opList, wasdealwith, filled>>
        /\ handed \in Ops /\ handed \notin filled
        /\ \E x : answers' = [answers EXCEPT ![handed] = x]
        /\ answers \in [Ops -> {"none", "permit", "refuse"}]
    BY DEF IInv, TypeOK, AppHolds, HoldsOperation, FilledIsAnswer, DropAnswer,
       requesterVars, infoVars, opTable
  <1>1. Looked # {} /\ Looked' = {} /\ Asked' = Asked /\ Queue' = Queue
    BY <1>0 DEF Looked, Asked, Queue
  <1>2. Judged' = Judged
    BY <1>0 DEF Judged
  <1> QED BY <1>0, <1>1, <1>2 DEF Gate!Forget, Asked, Looked, Judged, Queue

(* So is an operation that the application has in hand when it exits.      *)
LEMMA ExitForgets ==
  ASSUME AppExit PROVE Gate!Forget \/ GateUnchanged
  <1>0. /\ app' = "off"
        /\ UNCHANGED <<pc, verdict, opList, wasdealwith, filled, answers>>
    BY DEF AppExit, requesterVars, infoVars, opTable
  <1>1. Looked' = {} /\ Asked' = Asked /\ Queue' = Queue /\ Judged' = Judged
    BY <1>0 DEF Looked, Asked, Queue, Judged
  <1>2. CASE Looked = {}
    BY <1>0, <1>1, <1>2 DEF GateUnchanged
  <1>3. CASE Looked # {}
    BY <1>0, <1>1, <1>3 DEF Gate!Forget, Asked, Looked, Judged, Queue
  <1> QED BY <1>2, <1>3

LEMMA ReturnGoesOn ==
  ASSUME NEW o \in Ops, IInv, GInv, VerifyControlReturn(o), o \notin spoilt
  PROVE  Gate!GoOn(o)
  <1>0. /\ pc[o] = "waiting" /\ pc' = [pc EXCEPT ![o] = "returned"] /\ finished[o]
        /\ verdict' = [verdict EXCEPT ![o] =
             IF wasFill[block[o]] /\ operation_permit[block[o]]
             THEN "ACCESS_DENIED" ELSE "SUCCESS"]
        /\ UNCHANGED <<opList, wasdealwith, filled, answers, app, record, handed>>
        /\ DOMAIN pc = Ops
    BY DEF IInv, TypeOK, VerifyControlReturn, WaitSatisfied, infoVars, opTable, appVars,
       history
  <1>1. o \in filled /\ answers[o] # "none" /\ Active(o) /\ verdict[o] = "none"
    BY <1>0 DEF IInv, ListExact, FilledIsAnswer, Active, GInv, StatusOnce
  <1>2. wasFill[block[o]] /\ (operation_permit[block[o]] <=> answers[o] = "permit")
    BY <1>1 DEF IInv, FilledIsAnswer
  <1>3. Asked' = Asked
    BY <1>0 DEF Asked
  <1>4. Looked' = Looked /\ Queue' = Queue /\ Judged' = Judged
    BY <1>0 DEF Looked, Queue, Judged
  <1>5. Judged[o] = answers[o]
    BY <1>1 DEF Judged
  <1>6. verdict' = [verdict EXCEPT ![o] =
          IF Judged[o] = "permit" THEN "ACCESS_DENIED" ELSE "SUCCESS"]
    BY <1>0, <1>2, <1>5
  <1> QED BY <1>1, <1>3, <1>4, <1>5, <1>6 DEF Gate!GoOn, Asked, Looked, Judged, Queue

LEMMA FinishKeepsQueue ==
  ASSUME IInv, GInv, FinishOperation, spoilt = {} PROVE Queue' = Queue
  <1>0. opList \in Seq(Ops) /\ wasdealwith' = wasdealwith
    BY DEF IInv, TypeOK, FinishOperation
  <1>1. CASE opList' = opList
    BY <1>0, <1>1 DEF Queue
  <1>2. ASSUME NEW k \in DOMAIN opList, opList' = RemoveAt(opList, k),
               wasdealwith[opList[k]]
        PROVE  Queue' = Queue
    <2> DEFINE s == opList
               r == RemoveAt(opList, k)
               q == Unshown(s, wasdealwith)
               p == Unshown(r, wasdealwith)
    <2>1. PICK n \in 0 .. Len(s) : Split(s, wasdealwith, n)
      BY DEF GInv, ShownAreOldest
    <2>2. k > n
      BY <1>2, <2>1 DEF Split
    <2>3. Split(r, wasdealwith, n) /\ \A i \in 1 .. n : r[i] = s[i]
      BY <1>0, <1>2, <2>1, <2>2, SplitRemoveOld
    <2>4. r \in Seq(Ops)
      BY <1>0, <1>2, RemoveAtLemma
    <2>5. /\ q \in Seq(Ops) /\ Len(q) = n
          /\ \A i \in 1 .. n : q[i] = s[n + 1 - i]
      BY <1>0, <2>1, UnshownIs
    <2>6. /\ p \in Seq(Ops) /\ Len(p) = n
          /\ \A i \in 1 .. n : p[i] = r[n + 1 - i]
      BY <2>3, <2>4, UnshownIs
    <2>7. n \in Nat
      BY <1>0, <2>1
    <2> HIDE DEF s, r, q, p
    <2>8. \A i \in 1 .. n : n + 1 - i \in 1 .. n
      BY <2>7
    <2>9. \A i \in 1 .. n : p[i] = q[i]
      BY <2>3, <2>5, <2>6, <2>8
    <2>10. p = q
      BY <2>5, <2>6, <2>9, SeqEqual
    <2> QED BY <1>0, <1>2, <2>10 DEF Queue, p, q, r, s
  <1>3. ASSUME NEW k \in DOMAIN opList, opList[k] \in filled
        PROVE  wasdealwith[opList[k]]
    BY <1>0, <1>3 DEF IInv, FilledIsAnswer
  <1> QED BY <1>1, <1>2, <1>3, FinishUnlinks

(* The other steps are none of the gate's.                                 *)
LEMMA OtherStutters ==
  ASSUME IInv, GInv, spoilt = {},
         \/ \E o \in Ops : \/ AllocatePool(o) \/ StoreResultID(o) \/ ClearWasFill(o)
                          \/ FillOperationResultAddToHashTable_Result(o)
         \/ FetchOperation \/ FetchNothing \/ RecordEvent \/ WaitReturn
         \/ FillCrashes \/ SearchForever
         \/ RelinkResult \/ FinishOperation \/ AppStart \/ UNCHANGED vars
  PROVE  GateUnchanged
  <1>1. ASSUME NEW o \in Ops,
               \/ AllocatePool(o) \/ StoreResultID(o) \/ ClearWasFill(o)
               \/ FillOperationResultAddToHashTable_Result(o)
        PROVE  GateUnchanged
    <2>0. UNCHANGED <<verdict, opList, wasdealwith, filled, answers, app, record, handed>>
      BY <1>1 DEF AllocatePool, StoreResultID, ClearWasFill,
         FillOperationResultAddToHashTable_Result, infoVars, opTable, appVars, history
    <2>1. \E p, q \in {"idle", "allocated", "linked", "numbered", "cleared", "waiting"} :
            /\ pc[o] = p /\ pc' = [pc EXCEPT ![o] = q]
            /\ p \in {"idle", "allocated"} <=> q \in {"idle", "allocated"}
      BY <1>1 DEF AllocatePool, StoreResultID, ClearWasFill,
         FillOperationResultAddToHashTable_Result
    <2>2. DOMAIN pc = Ops
      BY DEF IInv, TypeOK
    <2>3. Asked' = Asked
      BY <2>1, <2>2 DEF Asked
    <2> QED BY <2>0, <2>3 DEF GateUnchanged, Queue, Looked, Judged
  <1>2. CASE FinishOperation
    <2>1. Queue' = Queue
      BY <1>2, FinishKeepsQueue
    <2>2. /\ app = "finish" /\ app' = "verify"
          /\ UNCHANGED <<pc, verdict, filled, answers>>
      BY <1>2 DEF FinishOperation, requesterVars, history
    <2> QED BY <2>1, <2>2 DEF GateUnchanged, Asked, Looked, Judged
  <1>3. CASE \/ FetchOperation \/ FetchNothing \/ RecordEvent \/ WaitReturn
             \/ FillCrashes \/ SearchForever
             \/ RelinkResult \/ AppStart \/ UNCHANGED vars
    <2>1. UNCHANGED <<pc, verdict, opList, wasdealwith, filled, answers, handed>>
      BY <1>3 DEF FetchOperation, FetchNothing, RecordEvent, WaitReturn, FillCrashes,
         SearchForever, RelinkResult, AppStart, vars, requesterVars, infoVars, opTable,
         history
    <2>2. Looked' = Looked
      <3>1. record \in [OperationID : Nat, exception : BOOLEAN]
        BY DEF IInv, TypeOK
      <3> QED BY <1>3, <2>1, <3>1 DEF Looked, FetchOperation, FetchNothing, RecordEvent,
              WaitReturn, FillCrashes, SearchForever, RelinkResult, AppStart, vars, appVars
    <2> QED BY <2>1, <2>2 DEF GateUnchanged, Asked, Queue, Judged
  <1> QED BY <1>1, <1>2, <1>3

LEMMA GateInitial == Init => Gate!GateInit
  <1> SUFFICES ASSUME Init PROVE Gate!GateInit
    OBVIOUS
  <1>1. Queue = <<>>
    <2>1. opList = <<>> /\ opList \in Seq(Ops) /\ Len(opList) = 0
      BY EmptySeq DEF Init
    <2>2. Split(opList, wasdealwith, 0)
      BY <2>1 DEF Split
    <2>3. Queue \in Seq(Ops) /\ Len(Queue) = 0
      BY <2>1, <2>2, UnshownIs DEF Queue
    <2> QED BY <2>3, EmptySeq
  <1>2. Asked = {} /\ Looked = {} /\ Judged = [o \in Ops |-> "none"]
    BY DEF Init, Asked, Looked, Judged
  <1> QED BY <1>1, <1>2 DEF Init, Gate!GateInit, Asked, Looked, Judged, Queue

(* The handshake implements the gate: operations are shown one at a time   *)
(* and in their order, judged once, and go on with the status that their   *)
(* own judgement fixes, whatever threads and the application do, until the *)
(* driver spoils a result.                                                 *)
THEOREM GateImplemented == Spec => ImplementsGate
  <1> DEFINE Broken == spoilt # {}
  <1>1. ASSUME IInv, GInv, [Next]_vars
        PROVE  Broken' \/ (Gate!GateNext /\ ~Broken')
                 \/ (GateUnchanged /\ Broken' = Broken)
    <2>1. spoilt \subseteq spoilt'
      BY <1>1 DEF Next, Requester, Inside, App, AllocatePool,
         MyOperationInformationAddToHashTable, StoreResultID, ClearWasFill,
         FillOperationResultAddToHashTable_Result, VerifyControlReturn, FetchOperation,
         FetchNothing, RecordEvent, CopyOperation, WaitReturn, FillResult, FillCrashes,
         SearchForever, DropAnswer, RelinkResult, FinishOperation, AppStart, AppExit,
         vars, history
    <2>2. SUFFICES ASSUME spoilt' = {} PROVE Gate!GateNext \/ GateUnchanged
      BY <2>1
    <2>3. spoilt = {}
      BY <2>1, <2>2
    <2>4. ASSUME NEW o \in Ops, Requester(o) PROVE Gate!GateNext \/ GateUnchanged
      <3>1. CASE MyOperationInformationAddToHashTable(o)
        BY <1>1, <3>1, LinkAsks DEF Gate!GateNext
      <3>2. CASE VerifyControlReturn(o)
        BY <1>1, <2>3, <3>2, ReturnGoesOn DEF Gate!GateNext
      <3>3. CASE \/ AllocatePool(o) \/ StoreResultID(o) \/ ClearWasFill(o)
                 \/ FillOperationResultAddToHashTable_Result(o)
        BY <1>1, <2>3, <3>3, OtherStutters
      <3> QED BY <2>4, <3>1, <3>2, <3>3 DEF Requester, Inside
    <2>5. CASE CopyOperation
      BY <1>1, <2>5, CopyShows DEF Gate!GateNext
    <2>6. CASE FillResult
      BY <1>1, <2>6, FillJudges DEF Gate!GateNext
    <2>7. CASE DropAnswer \/ AppExit
      BY <1>1, <2>7, DropForgets, ExitForgets DEF Gate!GateNext
    <2>8. CASE \/ FetchOperation \/ FetchNothing \/ RecordEvent \/ WaitReturn
               \/ FillCrashes \/ SearchForever
               \/ RelinkResult \/ FinishOperation \/ AppStart \/ UNCHANGED vars
      BY <1>1, <2>3, <2>8, OtherStutters
    <2> QED BY <1>1, <2>4, <2>5, <2>6, <2>7, <2>8 DEF Next, App
  <1>2. IInv /\ GInv /\ [Next]_vars
          => [Broken' \/ (Gate!GateNext /\ ~Broken')]_(Gate!gateVars)
    BY <1>1 DEF GateUnchanged, Gate!gateVars, Asked, Looked, Judged, Queue
  <1> QED BY <1>2, GateInitial, Inductive, GInvHolds, PTL
          DEF Spec, ImplementsGate, Gate!GateSpec
=============================================================================
