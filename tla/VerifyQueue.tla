----------------------------- MODULE VerifyQueue -----------------------------
(***************************************************************************)
(* The verification handshake between the SFilter file-system filter       *)
(* driver and the sfilterApp verification thread.                          *)
(*                                                                         *)
(* An IRP that touches a care file runs VerifyControl: it links an         *)
(* OperationInformation into hashtable, links a result placeholder into    *)
(* hashtable_result and waits on its `finished' event.  The application    *)
(* thread (threadfun) loops over two ioctls: VERIFY_OPERATION_INFORMATION  *)
(* fetches the oldest operation, or leaves an event in myevents when there *)
(* is none; SEND_VERIFY_RESULT fills the placeholder and signals           *)
(* `finished'.                                                             *)
(*                                                                         *)
(* One action is one critical section (node lock, myevents lock) or one    *)
(* stretch of code outside every lock.  Every IRP that asks for a verdict  *)
(* has OperationType IRP_MJ_SET_INFORMATION, so one bucket of each table   *)
(* is in use.  A list is a sequence from Flink (newest) to Blink (oldest). *)
(*                                                                         *)
(* Result blocks come from the lookaside list looksidelist_result, a stack *)
(* that keeps its links in the first word of the freed blocks, which is    *)
(* the Flink of their list entry.  SetOperationResult links every filled   *)
(* result again before its thread frees it, so freed blocks stay linked    *)
(* and are handed out and linked once more: hashtable_result is therefore  *)
(* modelled by its links, Flink and Blink, and a search may be cut short,  *)
(* never end, or follow a NULL link.  OperationInformation blocks are      *)
(* unlinked when they are freed and are named after their operation.       *)
(***************************************************************************)
EXTENDS Integers, Sequences, FiniteSets, SequencesExt

CONSTANTS
  Ops,         (* the IRPs that reach VerifyControl, one operation each     *)
  AppAnswers,  (* the values of operation_permit the application may send   *)
  MaxExits,    (* bound: how often the application process may exit         *)
  NoOp,        (* "no operation" (a NULL pointer)                           *)
  ListHead     (* &hashtable_result.link[6].entry                           *)

ASSUME ConstantsAssumption ==
  /\ IsFiniteSet(Ops)
  /\ NoOp \notin Ops /\ ListHead \notin Ops /\ ListHead # NoOp
  /\ AppAnswers \subseteq BOOLEAN
  /\ MaxExits \in Nat

IRP_MJ_SET_INFORMATION == 6
NoType == -1               \* the OperationType of an unused bucket

VARIABLES
  \* VerifyControl, per operation
  pc,               \* where the requesting thread is
  verdict,          \* the NTSTATUS VerifyControl returned
  \* OperationInformation, per operation
  OperationID, wasdealwith, finished,
  block,            \* the result block AllocatePool gave an operation
  \* OperationResult, per block: a block has the name of the operation that
  \* it was first allocated for
  resultID, wasFill, operation_permit,
  \* hashtable.link[6]
  opList, opNumber, totalnumbers, opType,
  \* hashtable_result.link[6]: its entry and those of the blocks
  Flink, Blink, resNumber, resType,
  top,              \* the block on top of looksidelist_result
  \* myevents[6]
  myevent,
  \* the application thread
  app,              \* where threadfun, or its ioctl, is
  pnode,            \* the node its ioctl holds a pointer to
  newresult,        \* the result its SEND_VERIFY_RESULT has filled
  record,           \* the OperationRecord it shares with the driver
  signalled,        \* the state of its myevent
  exits,            \* how often the process has exited
  down,             \* the machine has stopped
  \* history
  handed,           \* the operation behind record.OperationID
  answers,          \* what the application answered to an operation
  filled,           \* the operations whose answer has reached a result
  spoilt            \* those whose result the driver spoils, see below

requesterVars == <<pc, verdict, block>>
infoVars == <<OperationID, wasdealwith, finished>>
resultVars == <<resultID, wasFill, operation_permit>>
opTable == <<opList, opNumber, totalnumbers, opType>>
resTable == <<Flink, Blink, resNumber, resType>>
appVars == <<app, pnode, newresult, record, signalled, exits>>
history == <<handed, answers, filled, spoilt>>
vars == <<requesterVars, infoVars, resultVars, opTable, resTable, top, myevent,
          appVars, down, history>>

NoEvent == [event |-> "null", waitstatue |-> FALSE, OperationType |-> NoType]
Nodes == Ops \union {ListHead}

Init ==
  /\ pc = [o \in Ops |-> "idle"]
  /\ verdict = [o \in Ops |-> "none"]
  /\ block = [o \in Ops |-> NoOp]
  /\ OperationID = [o \in Ops |-> 0]
  /\ wasdealwith = [o \in Ops |-> FALSE]
  /\ finished = [o \in Ops |-> FALSE]
  /\ resultID = [o \in Ops |-> 0]
  /\ wasFill = [o \in Ops |-> FALSE]
  /\ operation_permit = [o \in Ops |-> FALSE]
  /\ opList = <<>> /\ opNumber = 0 /\ totalnumbers = 0 /\ opType = NoType
  /\ Flink = [n \in Nodes |-> IF n = ListHead THEN ListHead ELSE NoOp]
  /\ Blink = Flink
  /\ resNumber = 0 /\ resType = NoType
  /\ top = NoOp
  /\ myevent = NoEvent
  /\ app = "off" /\ pnode = NoOp /\ newresult = NoOp
  /\ record = [OperationID |-> 0, exception |-> FALSE]
  /\ signalled = FALSE /\ exits = 0
  /\ down = FALSE
  /\ handed = NoOp
  /\ answers = [o \in Ops |-> "none"]
  /\ filled = {} /\ spoilt = {}

-----------------------------------------------------------------------------
(* The requesting thread: AllocatePool and VerifyControl.                  *)

(* The operations that hold a result block, or have held and not freed it. *)
Active(o) == pc[o] \notin {"idle", "returned"}
Owners(b) == {o \in Ops : Active(o) /\ block[o] = b}

(* The block on top of the lookaside list or, if that is empty, a new one; *)
(* the stack goes on with what stands in its first word.  (NULL from the   *)
(* pool is dereferenced by the caller and stops the machine.)              *)
NextBlock(o) == IF top \in Ops THEN top ELSE o

(* A write into a freed, linked block can put a block that is in use on    *)
(* the lookaside list.  Its owners, the application thread's operation and *)
(* the new one then write the same block: they are spoilt.  It can also    *)
(* put the bucket itself there, which is then filled in as if it were a    *)
(* result: its links and its lock are lost and the machine stops.          *)
InUse(b) == Owners(b) # {} \/ newresult = b

AllocatePool(o) ==
  /\ ~down /\ pc[o] = "idle"
  /\ block' = [block EXCEPT ![o] = NextBlock(o)]
  /\ top' = IF top = NoOp THEN NoOp ELSE Flink[top]
  /\ resultID' = [resultID EXCEPT ![NextBlock(o)] = 0]
  /\ wasFill' = [wasFill EXCEPT ![NextBlock(o)] = FALSE]
  /\ operation_permit' = [operation_permit EXCEPT ![NextBlock(o)] = FALSE]
  /\ spoilt' = IF InUse(NextBlock(o))
               THEN spoilt \union Owners(NextBlock(o)) \union {o} ELSE spoilt
  /\ down' = (top = ListHead)
  /\ pc' = [pc EXCEPT ![o] = "allocated"]
  /\ UNCHANGED <<verdict, infoVars, opTable, resTable, myevent, appVars, handed,
                 answers, filled>>

(* The registered event is signalled, dereferenced and forgotten.  It is   *)
(* never in the signalled state before: the application makes a new event  *)
(* for each request.  "dead" is the event of a process that has exited.    *)
NotifyApp ==
  IF /\ myevent.OperationType = IRP_MJ_SET_INFORMATION
     /\ myevent.waitstatue
     /\ myevent.event # "null"
  THEN /\ signalled' = (signalled \/ myevent.event = "live")
       /\ myevent' = [myevent EXCEPT !.event = "null", !.waitstatue = FALSE]
  ELSE UNCHANGED <<signalled, myevent>>

(* The bucket's type is set by the first operation it ever holds; an       *)
(* operation's ID is its type plus the number of operations ever linked.   *)
FirstOperation_AfterCount == totalnumbers = 1
FirstOperation == opNumber = 0 /\ totalnumbers = 0
NextOperationID_FromNumber == IRP_MJ_SET_INFORMATION + opNumber + 1
NextOperationID == IRP_MJ_SET_INFORMATION + totalnumbers + 1

(* FillOperationInformationAndAddToList: under the node lock the operation *)
(* is linked at the head and numbered, and a waiting application is told.  *)
MyOperationInformationAddToHashTable(o) ==
  /\ ~down /\ pc[o] = "allocated"
  /\ opList' = Cons(o, opList)
  /\ opType' = IF FirstOperation THEN IRP_MJ_SET_INFORMATION ELSE opType
  /\ opNumber' = opNumber + 1
  /\ totalnumbers' = totalnumbers + 1
  /\ OperationID' = [OperationID EXCEPT ![o] = NextOperationID]
  /\ NotifyApp
  /\ pc' = [pc EXCEPT ![o] = "linked"]
  /\ UNCHANGED <<verdict, block, wasdealwith, finished, resultVars, resTable,
                 top, app, pnode, newresult, record, exits, down, history>>

(* The ID and the flag of the result are stored outside every lock, in a   *)
(* block that may be linked already.                                       *)
StoreResultID(o) ==
  /\ ~down /\ pc[o] = "linked"
  /\ resultID' = [resultID EXCEPT ![block[o]] = OperationID[o]]
  /\ pc' = [pc EXCEPT ![o] = "numbered"]
  /\ UNCHANGED <<verdict, block, infoVars, wasFill, operation_permit, opTable,
                 resTable, top, myevent, appVars, down, history>>

ClearWasFill(o) ==
  /\ ~down /\ pc[o] = "numbered"
  /\ wasFill' = [wasFill EXCEPT ![block[o]] = FALSE]
  /\ pc' = [pc EXCEPT ![o] = "cleared"]
  /\ UNCHANGED <<verdict, block, infoVars, resultID, operation_permit, opTable,
                 resTable, top, myevent, appVars, down, history>>

(* InsertHeadList, in the order of its four stores.                        *)
InsertHeadList(e) ==
  LET first == Flink[ListHead]
  IN  /\ Flink' = [Flink EXCEPT ![e] = first, ![ListHead] = e]
      /\ Blink' = [Blink EXCEPT ![e] = ListHead, ![first] = e]

(* A result is linked at the head of hashtable_result, under its lock.     *)
MyOperationResultAddToHashTable2(e) ==
  /\ InsertHeadList(e)
  /\ resType' = IF resNumber = 0 THEN IRP_MJ_SET_INFORMATION ELSE resType
  /\ resNumber' = resNumber + 1

(* The placeholder for the answer is linked, unless the lock is held by a  *)
(* search that does not end.                                               *)
FillOperationResultAddToHashTable_Result(o) ==
  /\ ~down /\ pc[o] = "cleared"
  /\ app # "endless"
  /\ MyOperationResultAddToHashTable2(block[o])
  /\ pc' = [pc EXCEPT ![o] = "waiting"]
  /\ UNCHANGED <<verdict, block, infoVars, resultVars, opTable, top, myevent,
                 appVars, down, history>>

(* KeWaitForSingleObject has no timeout.                                   *)
WaitSatisfied_TimedOut(o) == TRUE
WaitSatisfied(o) == finished[o]

(* KeWaitForSingleObject returns; the permit flag decides, an unfilled     *)
(* result counts as "not permit", and permit means STATUS_ACCESS_DENIED.   *)
(* A filled result is pushed on its lookaside list, whose link takes the   *)
(* place of its Flink; an unfilled one is lost.                            *)
VerifyControlReturn(o) ==
  /\ ~down /\ pc[o] = "waiting"
  /\ WaitSatisfied(o)
  /\ LET permit == wasFill[block[o]] /\ operation_permit[block[o]]
     IN verdict' = [verdict EXCEPT ![o] =
                      IF permit THEN "ACCESS_DENIED" ELSE "SUCCESS"]
  /\ IF wasFill[block[o]]
     THEN top' = block[o] /\ Flink' = [Flink EXCEPT ![block[o]] = top]
     ELSE UNCHANGED <<top, Flink>>
  /\ pc' = [pc EXCEPT ![o] = "returned"]
  /\ UNCHANGED <<block, infoVars, resultVars, opTable, Blink, resNumber,
                 resType, myevent, appVars, down, history>>

-----------------------------------------------------------------------------
(* The application thread's VERIFY_OPERATION_INFORMATION.                  *)

(* The nodes GetListTailNode accepts, and the one it returns.              *)
Undealt_AnyNode == DOMAIN opList
Undealt == {i \in DOMAIN opList : ~wasdealwith[opList[i]]}
IsListTailNode_Newest(i) == i \in Undealt /\ \A j \in Undealt : i <= j
IsListTailNode(i) == i \in Undealt /\ \A j \in Undealt : j <= i

(* A zero count over a non-empty list is corrected by counting.            *)
CorrectedNumber_PreDecremented == IF opNumber = 0 THEN 0 ELSE opNumber - 1
CorrectedNumber == IF opNumber = 0 THEN Len(opList) ELSE opNumber

FetchOperation ==
  /\ ~down /\ app = "verify"
  /\ opType = IRP_MJ_SET_INFORMATION
  /\ \E i \in DOMAIN opList : IsListTailNode(i) /\ pnode' = opList[i]
  /\ opNumber' = CorrectedNumber - 1
  /\ app' = "copy"
  /\ UNCHANGED <<requesterVars, infoVars, resultVars, opList, totalnumbers,
                 opType, resTable, top, myevent, newresult, record, signalled,
                 exits, down, history>>

FetchNothing ==
  /\ ~down /\ app = "verify"
  /\ \/ opType # IRP_MJ_SET_INFORMATION /\ UNCHANGED opNumber
     \/ /\ opType = IRP_MJ_SET_INFORMATION
        /\ Undealt = {}
        /\ opNumber' = CorrectedNumber
  /\ app' = "record"
  /\ UNCHANGED <<requesterVars, infoVars, resultVars, opList, totalnumbers,
                 opType, resTable, top, myevent, pnode, newresult, record,
                 signalled, exits, down, history>>

(* Nothing was found: outside the node lock, under the myevents lock, the  *)
(* event is recorded.  An older registration is overwritten.               *)
RecordEvent ==
  /\ ~down /\ app = "record"
  /\ myevent' = [event |-> "live", waitstatue |-> TRUE,
                 OperationType |-> IRP_MJ_SET_INFORMATION]
  /\ record' = [record EXCEPT !.exception = TRUE]
  /\ app' = "wait"
  /\ UNCHANGED <<requesterVars, infoVars, resultVars, opTable, resTable, top,
                 pnode, newresult, signalled, exits, down, history>>

(* Something was found: the fields are copied and wasdealwith is set       *)
(* outside every lock, and the application's own event is signalled.       *)
CopyOperation ==
  /\ ~down /\ app = "copy"
  /\ wasdealwith' = [wasdealwith EXCEPT ![pnode] = TRUE]
  /\ record' = [OperationID |-> OperationID[pnode], exception |-> FALSE]
  /\ handed' = pnode
  /\ pnode' = NoOp
  /\ signalled' = TRUE
  /\ app' = "wait"
  /\ UNCHANGED <<requesterVars, OperationID, finished, resultVars, opTable,
                 resTable, top, myevent, newresult, exits, down, answers,
                 filled, spoilt>>

(* WaitForSingleObject on the auto-reset event: an empty-handed request is *)
(* repeated, a fetched operation is answered.                              *)
WaitReturn ==
  /\ ~down /\ app = "wait"
  /\ signalled
  /\ signalled' = FALSE
  /\ app' = IF record.exception THEN "verify" ELSE "answer"
  /\ UNCHANGED <<requesterVars, infoVars, resultVars, opTable, resTable, top,
                 myevent, pnode, newresult, record, exits, down, history>>

-----------------------------------------------------------------------------
(* The application thread's SEND_VERIFY_RESULT.                            *)

Answer(permit) == IF permit THEN "permit" ELSE "refuse"

(* The nodes that a search from the tail visits, in its order; there are   *)
(* not more blocks than operations, so a longer search goes in a circle.   *)
Visited ==
  LET node[n \in Nat] == IF n = 0 THEN Blink[ListHead] ELSE Blink[node[n - 1]]
  IN  [n \in 0 .. Cardinality(Ops) |-> node[n]]
Carries(n) == n \in Ops /\ resultID[n] = record.OperationID
PassedOver(n) == n \in Ops /\ resultID[n] # record.OperationID

(* GetTheResultNode: the first block that carries the answered ID, none    *)
(* when the search comes back to the head first, or neither.               *)
IsResultNode(e) ==
  \E n \in DOMAIN Visited :
    /\ Visited[n] = e /\ Carries(e)
    /\ \A m \in 0 .. (n - 1) : PassedOver(Visited[m])
IsNotListed ==
  \E n \in DOMAIN Visited :
    Visited[n] = ListHead /\ \A m \in 0 .. (n - 1) : PassedOver(Visited[m])
SearchIsEndless == \A n \in DOMAIN Visited : PassedOver(Visited[n])

(* CutOffListNode: the node's neighbours are linked to each other.         *)
CutOffListNode_BlinkKept(e) ==
  /\ Flink' = [Flink EXCEPT ![Blink[e]] = Flink[e]]
  /\ Blink' = Blink
CutOffListNode(e) ==
  /\ Flink' = [Flink EXCEPT ![Blink[e]] = Flink[e]]
  /\ Blink' = [Blink EXCEPT ![Flink[e]] = Blink[e]]

(* SetOperationResultFromHashTable_Result: under the result lock the       *)
(* result is filled and cut off.  The number is zero only before anything  *)
(* is ever linked, when the type does not match either: QueryListNodeCount *)
(* is never asked.  A result that is filled between the two stores of its  *)
(* thread is cleared again: the operation is spoilt.                       *)
FillResult ==
  /\ ~down /\ app = "answer"
  /\ resType = IRP_MJ_SET_INFORMATION
  /\ \E permit \in AppAnswers, e \in Ops :
       /\ IsResultNode(e)
       /\ Flink[e] # NoOp
       /\ wasFill' = [wasFill EXCEPT ![e] = TRUE]
       /\ operation_permit' = [operation_permit EXCEPT ![e] = permit]
       /\ newresult' = e
       /\ CutOffListNode(e)
       /\ answers' = [answers EXCEPT ![handed] = Answer(permit)]
  /\ resNumber' = resNumber - 1
  /\ filled' = filled \union {handed}
  /\ spoilt' = IF pc[handed] = "numbered" THEN spoilt \union {handed} ELSE spoilt
  /\ app' = "relink"
  /\ UNCHANGED <<requesterVars, infoVars, resultID, opTable, resType, top,
                 myevent, pnode, record, signalled, exits, down, handed>>

(* A block that is listed from its earlier use and not linked again yet    *)
(* can have a NULL Flink from the lookaside list, which is dereferenced.   *)
FillCrashes ==
  /\ ~down /\ app = "answer"
  /\ resType = IRP_MJ_SET_INFORMATION
  /\ \E e \in Ops : IsResultNode(e) /\ Flink[e] = NoOp
  /\ down' = TRUE
  /\ UNCHANGED <<requesterVars, infoVars, resultVars, opTable, resTable, top,
                 myevent, appVars, history>>

(* The search goes round in a circle, at DISPATCH_LEVEL and with the lock. *)
SearchForever ==
  /\ ~down /\ app = "answer"
  /\ resType = IRP_MJ_SET_INFORMATION
  /\ SearchIsEndless
  /\ app' = "endless"
  /\ UNCHANGED <<requesterVars, infoVars, resultVars, opTable, resTable, top,
                 myevent, pnode, newresult, record, signalled, exits, down,
                 history>>

(* No placeholder carries the ID: the answer is dropped, the ioctl still   *)
(* completes with STATUS_SUCCESS.                                          *)
DropAnswer ==
  /\ ~down /\ app = "answer"
  /\ resType # IRP_MJ_SET_INFORMATION \/ IsNotListed
  /\ \E permit \in AppAnswers : answers' = [answers EXCEPT ![handed] = Answer(permit)]
  /\ app' = "verify"
  /\ UNCHANGED <<requesterVars, infoVars, resultVars, opTable, resTable, top,
                 myevent, pnode, newresult, record, signalled, exits, down,
                 handed, filled, spoilt>>

(* SetOperationResult links the filled result into hashtable_result again. *)
RelinkResult ==
  /\ ~down /\ app = "relink"
  /\ MyOperationResultAddToHashTable2(newresult)
  /\ app' = "finish"
  /\ UNCHANGED <<requesterVars, infoVars, resultVars, opTable, top, myevent,
                 pnode, newresult, record, signalled, exits, down, history>>

(* The operation with the filled result's ID, searched from the head.      *)
HasResultID(i) == OperationID[opList[i]] = resultID[newresult]
IsAnsweredNode_Newest(i) == i = 1
IsAnsweredNode_Oldest(i) == i = Len(opList)
IsAnsweredNode(i) == HasResultID(i) /\ \A j \in 1 .. (i - 1) : ~HasResultID(j)

(* SetOperationResult's last section, under the node lock: that operation, *)
(* if it is found, is unlinked and its thread is released.                 *)
FinishOperation ==
  /\ ~down /\ app = "finish"
  /\ finished' = [o \in Ops |-> \/ finished[o]
                               \/ \E i \in DOMAIN opList :
                                    IsAnsweredNode(i) /\ opList[i] = o]
  /\ opList' = IF \E i \in DOMAIN opList : IsAnsweredNode(i)
               THEN RemoveAt(opList, CHOOSE i \in DOMAIN opList : IsAnsweredNode(i))
               ELSE opList
  /\ newresult' = NoOp
  /\ app' = "verify"
  /\ UNCHANGED <<requesterVars, OperationID, wasdealwith, resultVars,
                 opNumber, totalnumbers, opType, resTable, top, myevent, pnode,
                 record, signalled, exits, down, history>>

-----------------------------------------------------------------------------
(* The application process: main() opens the device and starts threadfun;  *)
(* "exit" at its prompt ends the process between two ioctls.  The driver   *)
(* keeps the registered event and every table as they are.                 *)

AppStart ==
  /\ ~down /\ app = "off"
  /\ app' = "verify"
  /\ UNCHANGED <<requesterVars, infoVars, resultVars, opTable, resTable, top,
                 myevent, pnode, newresult, record, signalled, exits, down,
                 history>>

AppExit ==
  /\ ~down /\ app \in {"verify", "wait", "answer"}
  /\ exits < MaxExits
  /\ exits' = exits + 1
  /\ app' = "off"
  /\ signalled' = FALSE
  /\ record' = [OperationID |-> 0, exception |-> FALSE]
  /\ handed' = NoOp
  /\ myevent' = [myevent EXCEPT !.event = IF @ = "live" THEN "dead" ELSE @]
  /\ UNCHANGED <<requesterVars, infoVars, resultVars, opTable, resTable, top,
                 pnode, newresult, down, answers, filled, spoilt>>

-----------------------------------------------------------------------------
(* A thread inside VerifyControl.                                          *)
Inside(o) ==
  \/ StoreResultID(o)
  \/ ClearWasFill(o)
  \/ FillOperationResultAddToHashTable_Result(o)
  \/ VerifyControlReturn(o)

Requester(o) ==
  \/ AllocatePool(o)
  \/ MyOperationInformationAddToHashTable(o)
  \/ Inside(o)

App ==
  \/ FetchOperation
  \/ FetchNothing
  \/ RecordEvent
  \/ CopyOperation
  \/ WaitReturn
  \/ FillResult
  \/ FillCrashes
  \/ SearchForever
  \/ DropAnswer
  \/ RelinkResult
  \/ FinishOperation

Next ==
  \/ \E o \in Ops : Requester(o)
  \/ App
  \/ AppStart
  \/ AppExit

Spec == Init /\ [][Next]_vars

(* Threads that can run do run, while the machine does: a requester inside *)
(* VerifyControl, and the application thread while its process lives.      *)
(* Nothing makes an IRP arrive, or a user start or stop the application.   *)
Fairness ==
  /\ \A o \in Ops : WF_vars(Inside(o))
  /\ WF_vars(App)

FairSpec == Spec /\ Fairness
-----------------------------------------------------------------------------
(* Properties.                                                             *)

TypeOK ==
  /\ pc \in [Ops -> {"idle", "allocated", "linked", "numbered", "cleared",
                     "waiting", "returned"}]
  /\ verdict \in [Ops -> {"none", "ACCESS_DENIED", "SUCCESS"}]
  /\ block \in [Ops -> Ops \union {NoOp}]
  /\ OperationID \in [Ops -> Nat] /\ resultID \in [Ops -> Nat]
  /\ wasdealwith \in [Ops -> BOOLEAN] /\ finished \in [Ops -> BOOLEAN]
  /\ wasFill \in [Ops -> BOOLEAN] /\ operation_permit \in [Ops -> BOOLEAN]
  /\ opList \in Seq(Ops)
  /\ Flink \in [Nodes -> Nodes \union {NoOp}]
  /\ Blink \in [Nodes -> Nodes \union {NoOp}]
  /\ top \in Nodes \union {NoOp}
  /\ opNumber \in Nat /\ totalnumbers \in Nat /\ resNumber \in Nat
  /\ opType \in {NoType, IRP_MJ_SET_INFORMATION}
  /\ resType \in {NoType, IRP_MJ_SET_INFORMATION}
  /\ myevent \in [event : {"null", "live", "dead"}, waitstatue : BOOLEAN,
                  OperationType : {NoType, IRP_MJ_SET_INFORMATION}]
  /\ app \in {"off", "verify", "copy", "record", "wait", "answer", "endless",
              "relink", "finish"}
  /\ pnode \in Ops \union {NoOp} /\ newresult \in Ops \union {NoOp}
  /\ record \in [OperationID : Nat, exception : BOOLEAN]
  /\ signalled \in BOOLEAN /\ exits \in 0 .. MaxExits /\ down \in BOOLEAN
  /\ handed \in Ops \union {NoOp}
  /\ answers \in [Ops -> {"none", "permit", "refuse"}]
  /\ filled \subseteq Ops /\ spoilt \subseteq Ops

Linked(s, o) == \E i \in DOMAIN s : s[i] = o

(* A thread is only released from its wait when it is unlinked, so that    *)
(* the OperationInformation it frees is reachable from nowhere, and when   *)
(* its result has been filled: the branch of VerifyControl that lets an    *)
(* unanswered operation pass is left to the spoilt operations.             *)
ReleasedWithAnswer ==
  \A o \in Ops : finished[o] =>
    /\ ~Linked(opList, o)
    /\ o \in filled \union spoilt
    /\ Active(o) /\ o \notin spoilt => wasFill[block[o]]

(* The status an operation goes on with is fixed by what the application   *)
(* answered to that very operation, whatever else is in flight and however *)
(* often its result block has been used before, unless it is spoilt.       *)
VerdictTracksAnswer ==
  \A o \in Ops \ spoilt :
    /\ verdict[o] = "ACCESS_DENIED" => answers[o] = "permit"
    /\ verdict[o] = "SUCCESS" => answers[o] = "refuse"

(* While GetOperationInformation copies a node outside the node lock, the  *)
(* node is still linked and the thread that owns it still waits.           *)
CopiedNodeIsLive ==
  app = "copy" => Linked(opList, pnode) /\ Active(pnode)

(* Whether the search for the answer of an operation can come to a block.  *)
Reaches(b) ==
  \E n \in DOMAIN Visited :
    Visited[n] = b /\ \A m \in 0 .. (n - 1) : Visited[m] \in Ops
Reused == \E o \in Ops : block[o] \in Ops \ {o}

(* What ends the driver's service: the machine has stopped, or a search    *)
(* holds the lock for ever.                                                *)
Hung == down \/ app = "endless"

(* Until a result block is handed out for the second time, the answer of   *)
(* every waiting operation finds its result, and no search hangs or stops  *)
(* the machine: the filled results that are cut off, linked again and      *)
(* freed around it never take it out of the list, and never close the      *)
(* list to a circle.                                                       *)
FirstUseIsReachable ==
  ~Reused => /\ ~Hung
             /\ \A o \in Ops : pc[o] = "waiting" /\ o \notin filled => Reaches(block[o])

(* Operations are handed to the application in the order in which they     *)
(* were linked (the list is "a queue"), across application restarts.       *)
OldestFirst ==
  [][\A o \in Ops : ~wasdealwith[o] /\ wasdealwith'[o] =>
       \A i \in DOMAIN opList :
         wasdealwith[opList[i]] \/ OperationID[o] <= OperationID[opList[i]]]_vars

(* An operation is answered once: after its result is filled the answer    *)
(* stays, the flags stay in the result until its thread has read them, and *)
(* the operation is never handed out again.                                *)
AnsweredOnce ==
  [][\A o \in filled \ spoilt' :
       /\ answers'[o] = answers[o] /\ wasdealwith'[o] = wasdealwith[o]
       /\ Active(o) => /\ wasFill'[block[o]]
                       /\ operation_permit'[block[o]] = operation_permit[block[o]]]_vars

(* When the application polls while an operation is linked and not         *)
(* fetched, it goes on until it has fetched every such operation, unless   *)
(* the process exits: a poll drains the queue whatever the counters say.   *)
PollDrainsQueue ==
  app = "verify" /\ Undealt # {} ~> Undealt = {} \/ app = "off" \/ Hung

(* Every operation whose result has been filled eventually goes on.        *)
FilledReleases == []<>(Hung \/ \A o \in filled : pc[o] = "returned")

(* The operations of a list that wait to be shown, oldest first: those at  *)
(* its head that have not been dealt with.                                 *)
Unshown(list, dealt) ==
  LET n == CHOOSE n \in 0 .. Len(list) :
             /\ \A i \in 1 .. n : ~dealt[list[i]]
             /\ n < Len(list) => dealt[list[n + 1]]
  IN  Reverse(SubSeq(list, 1, n))

(* The abstract gate, and the mapping that shows this driver to be one.    *)
Gate == INSTANCE VerdictGate WITH
  asked <- {o \in Ops : pc[o] \notin {"idle", "allocated"}},
  queue <- Unshown(opList, wasdealwith),
  shown <- IF app \in {"answer", "endless"} \/ (app = "wait" /\ ~record.exception)
           THEN {handed} ELSE {},
  judged <- [o \in Ops |-> IF o \in filled THEN answers[o] ELSE "none"],
  status <- verdict,
  broken <- spoilt # {}

(* VerifyControl and the two ioctls implement the abstract gate, until an  *)
(* operation is spoilt.                                                    *)
ImplementsGate == Gate!GateSpec

-----------------------------------------------------------------------------
(* What the comments of the code say and the code does not do.             *)

(* "If there is one, take it; otherwise record the event and wait until    *)
(* there is": an operation that is linked while the application runs is    *)
(* eventually fetched.                                                     *)
EveryOperationFetched ==
  \A o \in Ops : Linked(opList, o) /\ app # "off"
                   ~> wasdealwith[o] \/ app = "off" \/ Hung

(* "Wait for the application's return, then act on its result": an         *)
(* operation that has been answered eventually goes on.                    *)
EveryAnswerReleases ==
  \A o \in Ops : answers[o] # "none" ~> pc[o] = "returned" \/ Hung

(* Detaching a structure from its table is what makes it safe to free: a   *)
(* result that VerifyControl has freed is not linked any more.             *)
FreedResultIsUnlinked ==
  \A o \in Ops : pc[o] = "returned" /\ Owners(block[o]) = {} => ~Reaches(block[o])

(* "permit the operation?": an operation the application permits is not    *)
(* refused.                                                                *)
PermittedIsAllowed ==
  \A o \in Ops : verdict[o] = "ACCESS_DENIED" => answers[o] # "permit"
=============================================================================
