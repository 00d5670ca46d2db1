------------------------------ MODULE SsdtHook ------------------------------
(***************************************************************************)
(* The SSDT driver: two arrays of process IDs, one for the processes that  *)
(* are hidden and one for those that are protected, and the list of the    *)
(* names of programs that may not start.                                   *)
(*                                                                         *)
(* Its ioctls run on the threads of their callers, several at once, and    *)
(* take no lock for the arrays; the list has a spin lock, which insertion, *)
(* removal and clearing take and no walk does.  Meanwhile a system call or *)
(* the creation of a process reads them: as none of these readers changes  *)
(* what another reads, one at a time is enough.                            *)
(***************************************************************************)
EXTENDS Naturals, FiniteSets, Sequences, SequencesExt

CONSTANTS
  Callers,    (* threads that send ioctls                                  *)
  PIDs,       (* process IDs; 0 is none                                    *)
  Processes,  (* the IDs in the order in which a query returns them        *)
  MaxLength,  (* MAX_PROCESS_ARRARY_LENGTH                                 *)
  Word,       (* ULONGs are below it                                       *)
  Names, NoName, (* names of programs                                      *)
  Starts,     (* <<n, m>>: the name m starts with the name n               *)
  Images,     (* what the paths of the programs contain: a set of names    *)
              (* for each                                                  *)
  Blocks, ListHead, (* memory for entries, and the head of the list        *)
  MaxCalls,   (* bound: ioctls for the arrays, and ioctls for the list     *)
  Mixed       (* bound: FALSE if all ioctls of a behaviour are for the     *)
              (* arrays, or for the list: they have no variable in common  *)

(* What an ioctl is for. *)
Subjects == {"arrays", "list"}

ASSUME SsdtAssumption ==
  /\ PIDs \subseteq Nat \ {0}
  /\ Processes \in Seq(PIDs \union {0}) /\ Processes # <<>>
  /\ MaxLength \in Nat \ {0} /\ Word \in Nat /\ MaxLength < Word
  /\ MaxCalls \in [Subjects -> Nat] /\ Mixed \in BOOLEAN
  /\ Starts \subseteq Names \X Names /\ NoName \notin Names
  /\ Images \subseteq SUBSET Names
  /\ ListHead \notin Blocks

VARIABLES
  arr,       \* g_PIDProtectArray and g_PIDHideArray
  len,       \* g_currProtectArrayLen and g_currHideArrayLen
  call,      \* what each caller is doing
  calls,     \* ioctls sent so far
  flink, blink, \* the links of ForbidProcessList
  name,      \* ProcessName of each block
  hook,      \* the system call or callback that is running
  added,     \* history: IDs some ADD was sent for
  listed,    \* history: the blocks in the list, newest first
  freed,     \* blocks that were freed and not given out again
  broken,    \* history: a block that had left the list was taken out once
             \* more, between neighbours that were no longer its own
  overrun,   \* history: a ULONG behind an array was read or written
  undefined, \* memory was used after it was gone, or a check of the list
             \* routines has stopped the system: the model stops
  steady,    \* history: slots that held the ID all through a scan
  newest,    \* history: the first block of a callback, while it is listed
  seen,      \* history: names that were listed in the course of a callback
  overlapped \* history: something was taken out by others during a deletion

arrayVars == <<arr, len, overrun>>
listVars == <<flink, blink, name, listed, freed, broken>>
vars == <<arrayVars, call, calls, listVars, hook, added, undefined,
          steady, newest, seen, overlapped>>

Words == 0 .. Word - 1
Kinds == {"protect", "hide"}
Slots == 0 .. MaxLength - 1
Used(k) == {i \in Slots : i < len[k]}
Entries == Blocks \union {ListHead}

(* A caller between two ioctls, and nobody in a hook. *)
NoCall == [at |-> "idle", kind |-> "protect", pid |-> 0, slot |-> 0,
           word |-> 0, newLen |-> 0, todo |-> {},
           name |-> NoName, entry |-> ListHead, due |-> {}, passed |-> {}]
NoHook == [at |-> "idle", kind |-> "protect", pid |-> 0, i |-> 0,
           prev |-> 0, curr |-> 0, next |-> <<>>, found |-> {},
           image |-> {}, entry |-> ListHead]

Init ==
  /\ arr = [k \in Kinds |-> [i \in Slots |-> 0]]
  /\ len = [k \in Kinds |-> 0]
  /\ call = [c \in Callers |-> NoCall]
  /\ calls = [s \in Subjects |-> 0]
  /\ flink = [e \in Entries |-> ListHead] /\ blink = [e \in Entries |-> ListHead]
  /\ name = [b \in Blocks |-> NoName]
  /\ hook = NoHook
  /\ added = {} /\ listed = <<>> /\ freed = {} /\ broken = FALSE
  /\ overrun = FALSE /\ undefined = FALSE
  /\ steady = {} /\ newest = ListHead /\ seen = {} /\ overlapped = FALSE

--------------------------------------------------------------------------
(* The arrays. *)

(* ValidateProcessNeedProtect and -Hide, from an ioctl. *)
Validated(k, p) == {i \in Used(k) : arr[k][i] = p}
FirstSlot(k, p) == CHOOSE i \in Validated(k, p) :
                     \A j \in Validated(k, p) : i <= j

(* What a ULONG of the array or behind it may hold. *)
WordAt(k, i) == IF i \in Slots THEN {arr[k][i]} ELSE PIDs \union {0}

(* An ioctl comes in. *)
MaySend(c, about) ==
  /\ call[c] = NoCall
  /\ calls[about] < MaxCalls[about]
  /\ Mixed \/ \A other \in Subjects \ {about} : calls[other] = 0
  /\ calls' = [calls EXCEPT ![about] = @ + 1]
Send(c, about, ioctl) ==
  /\ MaySend(c, about)
  /\ call' = [call EXCEPT ![c] = ioctl]

(* Insert- and RemoveProtectProcess come first, then Insert- and           *)
(* RemoveHideProcess; each begins with a look at its array.                *)
AfterArray(at, k, p) ==
  IF k = "protect" THEN [NoCall EXCEPT !.at = at, !.pid = p, !.kind = "hide"]
  ELSE NoCall

InsertInto(k, p) ==
  IF Validated(k, p) = {} /\ len[k] < MaxLength
  THEN [NoCall EXCEPT !.at = "grow", !.pid = p, !.kind = k]
  ELSE AfterArray("insert", k, p)

RemoveFrom(k, p) ==
  IF Validated(k, p) # {}
  THEN [NoCall EXCEPT !.at = "shrink", !.pid = p, !.kind = k, !.slot = FirstSlot(k, p)]
  ELSE AfterArray("remove", k, p)

IOCTL_SSDT_ADD(c) == \E p \in PIDs :
  /\ Send(c, "arrays", InsertInto("protect", p))
  /\ added' = added \union {p}
  /\ UNCHANGED <<arrayVars, listVars, hook, undefined>>

IOCTL_SSDT_DELETE(c) == \E p \in PIDs :
  /\ Send(c, "arrays", RemoveFrom("protect", p))
  /\ UNCHANGED <<arrayVars, listVars, hook, added, undefined>>

InsertHideProcess(c) ==
  /\ call[c].at = "insert"
  /\ call' = [call EXCEPT ![c] = InsertInto("hide", @.pid)]
  /\ UNCHANGED <<arrayVars, calls, listVars, hook, added, undefined>>

(* Mutant: DELETE calls InsertHideProcess. *)
RemoveHideProcess_Inserts(c) ==
  /\ call[c].at = "remove"
  /\ call' = [call EXCEPT ![c] = InsertInto("hide", @.pid)]
  /\ UNCHANGED <<arrayVars, calls, listVars, hook, added, undefined>>
RemoveHideProcess(c) ==
  /\ call[c].at = "remove"
  /\ call' = [call EXCEPT ![c] = RemoveFrom("hide", @.pid)]
  /\ UNCHANGED <<arrayVars, calls, listVars, hook, added, undefined>>

(* The element access reads the length, and writes it back changed; the    *)
(* compiler may store the length and the element in either order.          *)
Grow(c) ==
  /\ call[c].at = "grow"
  /\ LET n == len[call[c].kind] IN
       call' = [call EXCEPT ![c] = [@ EXCEPT !.at = "insertStores",
                  !.slot = n, !.word = call[c].pid,
                  !.newLen = (n + 1) % Word, !.todo = {"len", "element"}]]
  /\ UNCHANGED <<arrayVars, calls, listVars, hook, added, undefined>>

(* Mutant: the length is a signed number. *)
Shrink_Signed(c) ==
  /\ call[c].at = "shrink"
  /\ LET n == len[call[c].kind] IN
     /\ \E w \in WordAt(call[c].kind, n) :
          call' = [call EXCEPT ![c] = [@ EXCEPT !.at = "removeStores",
                     !.word = w, !.newLen = n - 1, !.todo = {"len", "element"}]]
     /\ overrun' = (overrun \/ n \notin Slots)
  /\ UNCHANGED <<arr, len, calls, listVars, hook, added, undefined>>
Shrink(c) ==
  /\ call[c].at = "shrink"
  /\ LET n == len[call[c].kind] IN
     /\ \E w \in WordAt(call[c].kind, n) :
          call' = [call EXCEPT ![c] = [@ EXCEPT !.at = "removeStores",
                     !.word = w, !.newLen = (n + Word - 1) % Word,
                     !.todo = {"len", "element"}]]
     /\ overrun' = (overrun \/ n \notin Slots)
  /\ UNCHANGED <<arr, len, calls, listVars, hook, added, undefined>>

AfterStore(c, s) ==
  IF call[c].todo # {s} THEN [call[c] EXCEPT !.todo = @ \ {s}]
  ELSE AfterArray(IF call[c].at = "insertStores" THEN "insert" ELSE "remove",
                  call[c].kind, call[c].pid)

StoreElement(c) ==
  /\ call[c].at \in {"insertStores", "removeStores"}
  /\ "element" \in call[c].todo
  /\ arr' = IF call[c].slot \in Slots
            THEN [arr EXCEPT ![call[c].kind][call[c].slot] = call[c].word]
            ELSE arr
  /\ overrun' = (overrun \/ call[c].slot \notin Slots)
  /\ call' = [call EXCEPT ![c] = AfterStore(c, "element")]
  /\ UNCHANGED <<len, calls, listVars, hook, added, undefined>>

StoreLen(c) ==
  /\ call[c].at \in {"insertStores", "removeStores"}
  /\ "len" \in call[c].todo
  /\ len' = [len EXCEPT ![call[c].kind] = call[c].newLen]
  /\ call' = [call EXCEPT ![c] = AfterStore(c, "len")]
  /\ UNCHANGED <<arr, overrun, calls, listVars, hook, added, undefined>>

--------------------------------------------------------------------------
(* The list of forbidden names. *)

(* A block is read by a walk.  If it was freed it still holds what it held, *)
(* unless its memory has gone to somebody else.                             *)
Reads(e) == undefined' = FALSE \/ (e \in freed /\ undefined' = TRUE)

(* A list routine is about to write the links of d and e, neighbours.  If   *)
(* they are so no more, the check of the routine, where the headers have    *)
(* one, may stop the system, and a write may hit memory that is gone.       *)
MayStop(inDoubt, d, e) ==
  undefined' \in {FALSE, inDoubt /\ ({d, e} \intersect freed # {}
                                   \/ flink[d] # e \/ blink[e] # d)}

(* The blocks in gone leave the list: nobody need look for them any more.  *)
(* due and passed are history: the entries a deletion has to take out, and *)
(* those it has left behind and that are still what they were.             *)
Excused(gone) == [c \in Callers |-> [call[c] EXCEPT !.due = @ \ gone]]

(* Memory for an entry: a block that was freed, or one never used.         *)
Allocatable == LET fresh == {b \in Blocks : name[b] = NoName} IN
  freed \union IF fresh = {} THEN {} ELSE {CHOOSE b \in fresh : TRUE}

(* Mutant: the entry that was the first is not linked back to the new one. *)
IOCTL_SSDT_FORBIDPROCESS_ADD_OneWay(c) == \E n \in Names, b \in Allocatable :
  /\ Send(c, "list", NoCall)
  /\ name' = [name EXCEPT ![b] = n]
  /\ flink' = [flink EXCEPT ![b] = flink[ListHead], ![ListHead] = b]
  /\ blink' = [blink EXCEPT ![b] = ListHead]
  /\ listed' = <<b>> \o listed
  /\ freed' = freed \ {b}
  /\ UNCHANGED <<arrayVars, hook, added, broken, undefined>>
IOCTL_SSDT_FORBIDPROCESS_ADD(c) == \E n \in Names, b \in Allocatable :
  /\ Send(c, "list", NoCall)
  /\ name' = [name EXCEPT ![b] = n]
  /\ flink' = [flink EXCEPT ![b] = flink[ListHead], ![ListHead] = b]
  /\ blink' = [blink EXCEPT ![flink[ListHead]] = b, ![b] = ListHead]
  /\ listed' = <<b>> \o listed
  /\ freed' = freed \ {b}
  /\ MayStop(broken, ListHead, flink[ListHead])
  /\ UNCHANGED <<arrayVars, hook, added, broken>>

IOCTL_SSDT_FORBIDPROCESS_DELETE(c) == \E n \in Names :
  /\ Send(c, "list", IF flink[ListHead] = ListHead THEN NoCall
             ELSE [NoCall EXCEPT !.at = "compare", !.name = n,
                     !.entry = flink[ListHead],
                     !.due = {b \in Range(listed) : <<n, name[b]>> \in Starts}])
  /\ UNCHANGED <<arrayVars, listVars, hook, added, undefined>>

Compare(c) ==
  /\ call[c].at = "compare"
  /\ Reads(call[c].entry)
  /\ call' = [call EXCEPT ![c].at =
       IF <<call[c].name, name[call[c].entry]>> \in Starts THEN "unlink" ELSE "advance"]
  /\ UNCHANGED <<arrayVars, calls, listVars, hook, added>>

PositionOf(e) == CHOOSE i \in DOMAIN listed : listed[i] = e

(* Mutant: the entry that leaves is linked to itself. *)
Unlink_Reset(c) ==
  /\ call[c].at = "unlink"
  /\ LET e == call[c].entry IN
     /\ flink' = [flink EXCEPT ![blink[e]] = flink[e], ![e] = e]
     /\ blink' = [blink EXCEPT ![flink[e]] = blink[e], ![e] = e]
     /\ listed' = IF e \in Range(listed) THEN RemoveAt(listed, PositionOf(e)) ELSE listed
     /\ broken' = (broken \/ (e \notin Range(listed) /\ <<flink, blink>>' # <<flink, blink>>))
     /\ undefined' = FALSE
     /\ call' = [Excused({e}) EXCEPT ![c].at = "advance"]
  /\ UNCHANGED <<arrayVars, calls, name, freed, hook, added>>
(* RemoveForbidProcessList, under the lock: the neighbours the entry knows  *)
(* become each other's.  An entry that has left the list already still      *)
(* knows those it had; where they have other neighbours by now, what was    *)
(* between the two is cut off, and what was deleted may be back.            *)
Unlink(c) ==
  /\ call[c].at = "unlink"
  /\ LET e == call[c].entry  inList == e \in Range(listed) IN
     /\ flink' = [flink EXCEPT ![blink[e]] = flink[e]]
     /\ blink' = [blink EXCEPT ![flink[e]] = blink[e]]
     /\ listed' = IF inList THEN RemoveAt(listed, PositionOf(e)) ELSE listed
     /\ broken' = (broken \/ (~inList /\ <<flink, blink>>' # <<flink, blink>>))
     /\ \/ MayStop(broken \/ ~inList, blink[e], e)
        \/ MayStop(broken \/ ~inList, e, flink[e])
     /\ call' = [Excused({e}) EXCEPT ![c].at = "advance"]
  /\ UNCHANGED <<arrayVars, calls, name, freed, hook, added>>

(* Mutant: it goes backward, as CreateProcessNotifyEx does. *)
Advance_Backward(c) ==
  /\ call[c].at = "advance"
  /\ Reads(call[c].entry)
  /\ call' = [call EXCEPT ![c] =
       IF blink[@.entry] = ListHead THEN [NoCall EXCEPT !.at = "deleted", !.due = call[c].due]
       ELSE [@ EXCEPT !.at = "compare", !.entry = blink[@]]]
  /\ UNCHANGED <<arrayVars, calls, listVars, hook, added>>
Advance(c) ==
  /\ call[c].at = "advance"
  /\ Reads(call[c].entry)
  /\ LET e == call[c].entry IN call' = [call EXCEPT ![c] =
       IF flink[e] = ListHead THEN [NoCall EXCEPT !.at = "deleted", !.due = call[c].due]
       ELSE [call[c] EXCEPT !.at = "compare", !.entry = flink[e], !.passed = @ \union {e}]]
  /\ UNCHANGED <<arrayVars, calls, listVars, hook, added>>

Deleted(c) ==
  /\ call[c].at = "deleted"
  /\ call' = [call EXCEPT ![c] = NoCall]
  /\ UNCHANGED <<arrayVars, calls, listVars, hook, added, undefined>>

(* Mutant: the entries are freed and stay linked. *)
IOCTL_SSDT_CLAER_BLACK_ILST_Linked(c) ==
  /\ ~broken
  /\ MaySend(c, "list")
  /\ call' = [d \in Callers |-> [Excused(Range(listed))[d] EXCEPT !.passed = @ \ Range(listed)]]
  /\ listed' = <<>>
  /\ freed' = freed \union Range(listed)
  /\ UNCHANGED <<arrayVars, flink, blink, name, hook, added, broken, undefined>>
(* clear: entries leave from the tail, and each leaves the head in its     *)
(* predecessor's Flink.                                                    *)
IOCTL_SSDT_CLAER_BLACK_ILST(c) ==
  /\ ~broken
  /\ MaySend(c, "list")
  /\ call' = [d \in Callers |-> [Excused(Range(listed))[d] EXCEPT !.passed = @ \ Range(listed)]]
  /\ flink' = [e \in Entries |-> IF e \in Range(listed) \union {ListHead} THEN ListHead ELSE flink[e]]
  /\ blink' = [blink EXCEPT ![ListHead] = ListHead]
  /\ listed' = <<>>
  /\ freed' = freed \union Range(listed)
  /\ UNCHANGED <<arrayVars, name, hook, added, broken, undefined>>

(* The same in a broken list: what is freed is what Blink leads to, until  *)
(* it leads to the head.  If it never does, or through memory that is gone *)
(* already, something is freed twice.                                      *)
Backward == LET entry[i \in Nat] == IF i = 0 THEN blink[ListHead] ELSE blink[entry[i - 1]]
            IN  entry
ClearBroken(c) ==
  /\ broken
  /\ MaySend(c, "list")
  /\ LET steps == {n \in 0 .. Cardinality(Blocks) : \A i \in 0 .. n : Backward[i] # ListHead}
         tail == {b \in Blocks : \E n \in steps : b = Backward[n]}
         twice == tail = {} \/ tail \intersect freed # {} \/ Cardinality(Blocks) \in steps IN
     IF flink[ListHead] = ListHead THEN
       /\ UNCHANGED <<call, flink, blink, listed, freed, undefined>>
     ELSE
       /\ call' = [d \in Callers |-> [Excused(Range(listed))[d] EXCEPT !.passed = @ \ tail]]
       /\ flink' = [e \in Entries |->
                      IF e \in (tail \ {blink[ListHead]}) \union {ListHead} THEN ListHead ELSE flink[e]]
       /\ blink' = [blink EXCEPT ![ListHead] = ListHead]
       /\ listed' = <<>>
       /\ freed' = freed \union tail
       /\ undefined' \in {twice, twice \/ \E b \in tail \union {ListHead} : flink[blink[b]] # b}
  /\ UNCHANGED <<arrayVars, name, hook, added, broken>>

--------------------------------------------------------------------------
(* The readers. *)

(* A scan of one of the arrays, a slot at a time. *)
StartScan(h, k, p) == [h EXCEPT !.at = "scan", !.kind = k, !.pid = p, !.i = 0]
ScanFinds == hook.i \in Used(hook.kind) /\ arr[hook.kind][hook.i] = hook.pid
(* Mutant: the last slot is left out. *)
ScanFails_Early == hook.pid = 0 \/ hook.i + 1 \notin Used(hook.kind)
ScanFails == hook.pid = 0 \/ hook.i \notin Used(hook.kind)

ScanNext ==
  /\ hook.at = "scan" /\ ~ScanFinds /\ ~ScanFails
  /\ hook' = [hook EXCEPT !.i = @ + 1]
  /\ UNCHANGED <<arrayVars, call, calls, listVars, added, undefined>>

(* MyNtTerminateProcess, of a process by itself or by another one. *)
MyNtTerminateProcess == \E p \in PIDs :
  /\ hook = NoHook
  /\ hook' = StartScan(NoHook, "protect", p)
  /\ UNCHANGED <<arrayVars, call, calls, listVars, added, undefined>>

TerminateDecided ==
  /\ hook.at = "scan" /\ hook.kind = "protect" /\ (ScanFinds \/ ScanFails)
  /\ \E self \in BOOLEAN :
       hook' = [hook EXCEPT !.at = IF ScanFinds /\ ~self THEN "denied" ELSE "terminated"]
  /\ UNCHANGED <<arrayVars, call, calls, listVars, added, undefined>>

(* MyNtQuerySystemInformation, over what the system service has returned:  *)
(* next is NextEntryOffset as the position it leads to, 0 for none.        *)
Positions == DOMAIN Processes

MyNtQuerySystemInformation ==
  /\ hook = NoHook
  /\ hook' = [StartScan(NoHook, "hide", Processes[1]) EXCEPT !.curr = 1,
                !.next = [i \in Positions |-> IF i = Len(Processes) THEN 0 ELSE i + 1]]
  /\ UNCHANGED <<arrayVars, call, calls, listVars, added, undefined>>

(* The current entry is taken off its predecessor, if that is what to do,  *)
(* and becomes the predecessor itself.                                     *)
NextProcess(h) ==
  IF h.next[h.curr] = 0 THEN [h EXCEPT !.at = "returned"]
  ELSE [StartScan(h, "hide", Processes[h.next[h.curr]])
          EXCEPT !.prev = h.curr, !.curr = h.next[h.curr]]

ProcessKept ==
  /\ hook.at = "scan" /\ hook.kind = "hide" /\ ScanFails
  /\ hook' = NextProcess(hook)
  /\ UNCHANGED <<arrayVars, call, calls, listVars, added, undefined>>

(* Mutant: the predecessor becomes the last. *)
ProcessHidden_EndsChain ==
  /\ hook.at = "scan" /\ hook.kind = "hide" /\ ScanFinds /\ ~ScanFails
  /\ hook' = NextProcess([hook EXCEPT !.found = @ \union {hook.curr},
                !.next = IF hook.prev = 0 THEN @ ELSE [@ EXCEPT ![hook.prev] = 0]])
  /\ UNCHANGED <<arrayVars, call, calls, listVars, added, undefined>>
ProcessHidden ==
  /\ hook.at = "scan" /\ hook.kind = "hide" /\ ScanFinds /\ ~ScanFails
  /\ hook' = NextProcess([hook EXCEPT !.found = @ \union {hook.curr},
                !.next = IF hook.prev = 0 THEN @
                         ELSE [@ EXCEPT ![hook.prev] = hook.next[hook.curr]]])
  /\ UNCHANGED <<arrayVars, call, calls, listVars, added, undefined>>

(* Mutant: the step to the next entry comes before the comparison. *)
CreateProcessNotifyEx_StepsFirst == \E image \in Images :
  /\ hook = NoHook
  /\ hook' = [NoHook EXCEPT !.image = image, !.entry = flink[ListHead],
                 !.at = IF flink[ListHead] = ListHead THEN "created" ELSE "back"]
  /\ UNCHANGED <<arrayVars, call, calls, listVars, added, undefined>>

(* CreateProcessNotifyEx, for a process that is being created: forward to  *)
(* the newest name, and from there backward.                               *)
CreateProcessNotifyEx == \E image \in Images :
  /\ hook = NoHook
  /\ hook' = [NoHook EXCEPT !.image = image, !.entry = flink[ListHead],
                 !.at = IF flink[ListHead] = ListHead THEN "created" ELSE "match"]
  /\ UNCHANGED <<arrayVars, call, calls, listVars, added, undefined>>

Match ==
  /\ hook.at = "match"
  /\ Reads(hook.entry)
  /\ hook' = [hook EXCEPT !.at = IF name[hook.entry] \in hook.image THEN "refused" ELSE "back"]
  /\ UNCHANGED <<arrayVars, call, calls, listVars, added>>

Back ==
  /\ hook.at = "back"
  /\ Reads(hook.entry)
  /\ hook' = [hook EXCEPT !.at = IF blink[hook.entry] = ListHead THEN "created" ELSE "match",
                           !.entry = blink[@]]
  /\ UNCHANGED <<arrayVars, call, calls, listVars, added>>

HookReturns ==
  /\ hook.at \in {"denied", "terminated", "returned", "refused", "created"}
  /\ hook' = NoHook
  /\ UNCHANGED <<arrayVars, call, calls, listVars, added, undefined>>

--------------------------------------------------------------------------
Walking(c) == call[c].at \in {"compare", "unlink", "advance"}
InCallback(h) == h.at \in {"match", "back", "refused", "created"}

(* What is remembered for the properties. *)
Observe ==
  /\ steady' = IF hook'.at # "scan" THEN {}
       ELSE {i \in IF hook'.i = 0 /\ hook' # hook THEN Slots ELSE steady :
               i < len'[hook'.kind] /\ arr'[hook'.kind][i] = hook'.pid}
  /\ newest' = LET b == IF hook # NoHook THEN newest
                        ELSE IF listed = <<>> THEN ListHead ELSE listed[1] IN
               IF InCallback(hook') /\ b \in Range(listed') THEN b ELSE ListHead
  /\ seen' = IF ~InCallback(hook') THEN {}
             ELSE seen \union {name'[b] : b \in Range(listed')}
  /\ overlapped' = (overlapped \/ \E d \in Callers :
       /\ Walking(d)
       /\ \/ freed' \ freed # {}
          \/ \E c \in Callers \ {d} : call[c].at = "unlink" /\ call'[c].at = "advance")

IoctlStep(c) ==
  \/ InsertHideProcess(c) \/ RemoveHideProcess(c) \/ Grow(c) \/ Shrink(c)
  \/ StoreElement(c) \/ StoreLen(c)
  \/ Compare(c) \/ Unlink(c) \/ Advance(c) \/ Deleted(c)

SSDTDeviceIoControlDispatcher(c) ==
  \/ IOCTL_SSDT_ADD(c) \/ IOCTL_SSDT_DELETE(c)
  \/ IOCTL_SSDT_FORBIDPROCESS_ADD(c) \/ IOCTL_SSDT_FORBIDPROCESS_DELETE(c)
  \/ IOCTL_SSDT_CLAER_BLACK_ILST(c) \/ ClearBroken(c)

HookStep ==
  \/ ScanNext \/ TerminateDecided \/ ProcessKept \/ ProcessHidden
  \/ Match \/ Back \/ HookReturns

HookStarts ==
  MyNtTerminateProcess \/ MyNtQuerySystemInformation \/ CreateProcessNotifyEx

Next ==
  /\ ~undefined
  /\ \/ \E c \in Callers : SSDTDeviceIoControlDispatcher(c) \/ IoctlStep(c)
     \/ HookStarts \/ HookStep
  /\ Observe

Spec == Init /\ [][Next]_vars

--------------------------------------------------------------------------
(* Properties. *)

CallState == [
  at : {"idle", "insert", "remove", "grow", "shrink", "insertStores",
        "removeStores", "compare", "unlink", "advance", "deleted"},
  kind : Kinds, pid : PIDs \union {0}, slot : Words, word : PIDs \union {0},
  newLen : Words, todo : SUBSET {"len", "element"},
  name : Names \union {NoName}, entry : Entries, due : SUBSET Blocks,
  passed : SUBSET Entries]
HookState == [
  at : {"idle", "scan", "denied", "terminated", "returned", "match", "back",
        "refused", "created"},
  kind : Kinds, pid : PIDs \union {0}, i : 0 .. MaxLength,
  prev : 0 .. Len(Processes), curr : 0 .. Len(Processes),
  next : {<<>>} \union [Positions -> 0 .. Len(Processes)], found : SUBSET Positions,
  image : SUBSET Names, entry : Entries]

(* Every variable keeps its type; no length leaves the words of the        *)
(* machine.                                                                *)
TypeOK ==
  /\ arr \in [Kinds -> [Slots -> PIDs \union {0}]]
  /\ len \in [Kinds -> Words]
  /\ call \in [Callers -> CallState]
  /\ calls \in [Subjects -> Nat]
  /\ flink \in [Entries -> Entries] /\ blink \in [Entries -> Entries]
  /\ name \in [Blocks -> Names \union {NoName}]
  /\ listed \in Seq(Blocks) /\ freed \subseteq Blocks
  /\ hook \in HookState
  /\ added \subseteq PIDs /\ broken \in BOOLEAN
  /\ overrun \in BOOLEAN /\ undefined \in BOOLEAN

(* Only a process somebody asked to protect is hidden or protected,        *)
(* however the unlocked insertions and removals of several callers         *)
(* interleave: the slot a removal brings forward, and a slot an insertion  *)
(* has counted and not yet filled, hold an old ID or none.  (When the      *)
(* array is full, a removal reads what lies behind it.)                    *)
ListedWasAdded ==
  overrun \/ \A k \in Kinds : \A i \in Used(k) : arr[k][i] \in added \union {0}

(* A scan without a lock does not miss an ID that kept a slot while it ran *)
(* (MyNtTerminateProcess and MyNtQuerySystemInformation decide by it).     *)
SteadyIsFound ==
  (hook.at = "scan" /\ hook.pid # 0 /\ ScanFails) => steady = {}

(* What a query shows: an entry disappears exactly if the scan found it,   *)
(* it is not the first, and its predecessor did not disappear, because the *)
(* predecessor's offset is what the caller still sees.  So nobody          *)
(* disappears unasked, and of a run of hidden processes every other one.   *)
Shown == LET shown[i \in Positions] ==
               i = 1 \/ \E j \in 1 .. i - 1 : shown[j] /\ hook.next[j] = i
         IN  {i \in Positions : shown[i]}
Disappears == LET gone[i \in Positions] ==
                    i > 1 /\ i \in hook.found /\ ~gone[i - 1]
              IN  {i \in Positions : gone[i]}
HidesEveryOther == hook.at = "returned" => Shown = Positions \ Disappears

(* What follows excepts a list that is broken, because two removals met at *)
(* one entry: then a name that was deleted may be back, and others gone.   *)

(* A process is not created if its path contains the name that was the     *)
(* newest when the callback began and stayed in the list.                  *)
NewestIsRefused ==
  (~broken /\ hook.at = "created" /\ newest # ListHead) => name[newest] \notin hook.image

(* A process is only refused for a name that was in the list at some time  *)
(* during the callback, although the callback may stand on entries that    *)
(* are taken out or freed under it.                                        *)
RefusedWasListed ==
  (~broken /\ hook.at = "refused") => hook.image \intersect seen # {}

(* When the deletion of a name returns, every entry that was listed when   *)
(* it began, starts with the name, and was not taken out by others, is out *)
(* of the list, although its walk takes no lock.                           *)
DeletedIsGone ==
  ~broken => \A c \in Callers : call[c].at = "deleted" => call[c].due = {}

(* The links are those of the list, in both directions: from the head to   *)
(* the newest entry, and from the oldest back to the head.  They stop to   *)
(* be so only when an entry is taken out twice and its neighbours have     *)
(* other neighbours by then, and that takes two removals that overlap: a   *)
(* deletion by itself, whatever is added during it, never takes out an     *)
(* entry that has left the list.                                           *)
Link(i) == IF i \in DOMAIN listed THEN listed[i] ELSE ListHead
ListIntact == IF broken THEN overlapped ELSE \A i \in 0 .. Len(listed) :
  flink[Link(i)] = Link(i + 1) /\ blink[Link(i + 1)] = Link(i)

(* A deletion gets on: it never comes back to an entry it has left, as an  *)
(* entry that is taken out under it keeps its links.                       *)
WalksGetOn == ~broken => \A c \in Callers :
  call[c].at = "compare" => call[c].entry \notin call[c].passed
=============================================================================
