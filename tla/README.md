# A verification project for SkyEye

SkyEye is a Windows 7 network and file security system: four kernel drivers, a
credential provider, a Qt desktop application and a small verification
application. This directory holds TLA+ models of its concurrent parts, the TLC
runs that check them on small instances, and proofs, checked by TLAPS, of what
matters most. Sources are quoted relative to `src/source/`.

## The system

| Part | Where | State it keeps | Operations | Talks to |
|---|---|---|---|---|
| SFilter handshake | `sfilter_file_driver/Sfilter` (`Integration_`, `OperationInformation_`, `OperationResult_Function.cpp`) | two hash tables of linked lists with a lock per bucket, registered events | `VerifyControl` per IRP; ioctls `VERIFY_OPERATION_INFORMATION`, `SEND_VERIFY_RESULT` | sfilterApp (ioctls, events), IRP threads (kernel events) |
| sfilterApp | `sfilter_file_driver/sfilterApp` | one event, one record, one result | `threadfun`: fetch, wait, answer, repeat; `init_carefile` | SFilter |
| SFilter device stack | `Sfilter.cpp` | filter device objects attached to file systems and volumes | mount completion, attach with retries, file system notification, detach, unload | I/O manager |
| Care files and access decision | `CareFileHashTable_Function.cpp`, `DBAC_ControlLogic.cpp` | 27 buckets of care files, one spin lock, an "initialised" flag | initialisation protocol, `CR_CheckIfCare`, `DBAC_ControlLogic` | SFilter's IRP path, sfilterApp |
| NDIS filter | `net_filter_driver/ndis_net_driver/NdisFilterTEST` | per module: state, two counters, a pending OID request; one black list | attach, restart, pause, detach; send, receive and their completions; OIDs; black list ioctls | NDIS, desktop |
| WFP callout driver | `net_filter_driver/wfp_net_driver/WFP_Filter` | flow, rule and data lists, a monitor event | classify functions, monitor, rule and event ioctls | filter engine, desktop |
| SSDT hook driver | `ssdt_hook_driver/SSDT_HOOK` | hidden and protected PID arrays, forbidden names, current credentials, registry copy | hooks of two system services, process creation callback, ten ioctls | desktop, credential provider, registry |
| Desktop | `sky_eye_qt/SkyEye` | session (user, rights, database connection), tables, monitor thread, pipe to a child process | login, rules to the drivers and the database, monitor | all drivers but SFilter, MySQL, child process |
| Credential provider and filter | `cp` | the tile's fields | logon: read administrator data, verify the user, hand the credentials over, clear the drivers | SSDT, NDIS, WFP drivers, MySQL |
| Installer, schema | `load_drivers_wfp_ssdt_sfilter`, `released/uconsql` | none | one pass | service manager |

### What is hard, and what makes each part correct

* **Handshake.** Many threads of the file system meet one application thread
  over two lists, two locks and two kinds of events, and half of the work
  happens outside every lock. Correct means: an answer reaches the operation it
  was given for and no other; nobody leaves a wait early; no operation is freed
  while anyone can reach it; operations are shown in order, once; nothing that
  could go on waits for ever. The application may exit at any ioctl boundary.
  Results are freed while they are linked, so a second use of their memory
  entangles the list they are in.
* **NDIS filter.** Handlers of one module run on several processors; a pause
  and a detach may come at any moment; chains come back in any order. Correct
  means: counters agree with what is out, a cancellation never follows a freed clone, a listed rule denies, and
  only what was denied gets lost.
* **SSDT driver.** Arrays, a flag and a list without locks, read by system
  calls on every processor. Correct means: who was added, and only who was
  added, is hidden and protected; a forbidden name does not start; credentials
  read were written together.
* **Device stack.** One filter device per volume however mounts, remounts and
  the enumeration interleave; no device leaked or left on a stack that is gone.
* **Care files.** A spin lock that must be free after each ioctl, a lookup that
  must find what the insertion stored.
* **Credentials.** The logon screen and any number of desktops talk to the SSDT
  driver at once, which answers through buffers and a flag they all share.
  Correct means: nobody runs with the name of one user and the password of
  another, and who gets the host of the database gets its name.
* **Rules.** A ban is set in a driver, a table and the database one after the
  other, and each may fail; drivers know a program by the beginning of its name;
  logons empty the drivers under running desktops. Correct means: the database
  keeps what the table shows, what it shows is enforced, and nothing else is.
* **WFP.** Flow contexts and data blocks pass between classify functions and
  ioctls. As written the driver cannot start (see *Not modelled*).

`PROJECT.json` lists the hazards at their lines, with the properties that would
catch each or the reason why none does.

## Modules

| Module | Role |
|---|---|
| `VerdictGate` | what SFilter promises an operation: shown in order, once; judged once; goes on with the status its own judgement fixes |
| `VerifyQueue` | the handshake as the code does it; implements `VerdictGate` |
| `VerifyQueueProofs` | the inductive invariant and the theorems |
| `VerifyGateProofs` | that the oldest is shown first, and the refinement of `VerdictGate` |
| `MCVerifyQueue` | constants for TLC |
| `BlackList` | how a frame is read, compared with rules, how rules come and go |
| `NdisFilter` | one filter module: lifecycle, both data paths, own packets, black list ioctls, OIDs |
| `NdisFilterProofs` | its invariants and theorems: OID requests, rules, the two counters |
| `MCNdisFilter` | constants for TLC |
| `FilterStack` | SFilter's devices over a file system and its volumes, the threads that attach them and the attach lock |
| `FilterStackProofs` | its inductive invariant and theorems |
| `FilterDevicesProofs` | that no mounted volume is left out, and no filter device leaks or is in two places |
| `MCFilterStack` | constants for TLC |
| `SsdtHook` | the SSDT driver's arrays and its list of forbidden names: concurrent ioctls without a lock, the two hooks and the process callback |
| `SsdtHookProofs` | its invariants and theorems |
| `MCSsdtHook` | constants for TLC |
| `Credentials` | from the logon screen over the SSDT driver to the desktop: credential provider, driver, registry, database check and desktop composed |
| `CredentialsProofs` | its invariants and theorems |
| `MCCredentials` | constants for TLC |
| `RuleTable` | the rules of the desktops: tables, database and three drivers composed |
| `RuleTableProofs` | its invariants and theorems |
| `MCRuleTable` | constants for TLC |

### VerifyQueue and the code

One action is one critical section, or one stretch of code between two. Every
caller of `VerifyControl` passes `IRP_MJ_SET_INFORMATION`, so one bucket of
each table is in use and the module models that bucket.

| Action | Code |
|---|---|
| `AllocatePool` | the two blocks of an operation; its result is what lies on top of `looksidelist_result`, or new |
| `MyOperationInformationAddToHashTable` | link and number the operation under the node lock, signal and forget a registered event under the `myevents` lock taken inside it |
| `StoreResultID`, `ClearWasFill` | two stores into the result, outside every lock |
| `FillOperationResultAddToHashTable_Result` | link the result under the other table's lock |
| `VerifyControlReturn` | the wait ends, the flags are read, the result is pushed on its lookaside list |
| `FetchOperation` / `FetchNothing` | the lookup under the node lock, with the counter's correction |
| `RecordEvent` / `CopyOperation` | what `GetOperationInformation` does after it, outside that lock |
| `WaitReturn` | `WaitForSingleObject` in `threadfun` |
| `FillResult` / `DropAnswer` | the search under the result lock: fill and cut off, or give up |
| `FillCrashes` / `SearchForever` | the same search, where the links lead to a NULL link, or round in a circle |
| `RelinkResult`, `FinishOperation` | the second insertion; unlink the operation and set its event |
| `AppStart`, `AppExit` | `main`, its "exit" prompt |

`hashtable` is a sequence from `Flink` to `Blink` (`opList`): its nodes are
unlinked before they are freed. `hashtable_result` is not. `SetOperationResult`
links every filled result a second time, and its thread frees it so; the
lookaside list is a stack that keeps its own link in the first word of a free
block, which is that block's `Flink`; and the next operation gets this block and
links it once more. So `hashtable_result` is modelled by its links, `Flink` and
`Blink` of each block, `block` says which block an operation has, and `top` is the
top of the stack. With the second use of a block its neighbours no longer agree:
the walk from the tail (`Visited`) can leave out a waiting result, so that the
answer is dropped, or never end, at `DISPATCH_LEVEL` and with the lock in its
hands (`app = "endless"`), or meet the NULL of the lookaside list, which stops the
machine (`down`). A store into a free block's `Flink` also changes what the stack
hands out next: a block that is in use, or the bucket itself.

`answers`, `handed`, `filled` and `spoilt` are history: what was answered to an
operation, which one the record in the application's hands stands for, and whose
answer has reached a result. An operation is `spoilt` when the driver itself
destroys its result: it shares the block with another, or was filled by way of the
block's old links before its thread cleared `wasFill`.

### NdisFilter and the code

A chain of net buffer lists goes home → entered → (dropped | passed) → away →
home. `Enter` is the top of `FilterSend-` and `FilterReceiveNetBufferLists`
(with the checked build's test of `State` under the constant `DBG`), `Scan` the
call of `filterScanSingleNBL`, `HandOn` the counting section and the call that
passes the chain on; completion, return and the uncounting that follows a
return are actions of their own, because the code gives the chain back first.
Memory that runs out in the scan has two outcomes. Without a copy of the net
buffer list, its data or `Header`, a NULL pointer is dereferenced
(`AbrtNBL.c:236`, `:436`, `:519`) before `filter.c:469` asks for it: the machine
stops (`ScanCrashes`). Without `Data` (`AbrtNBL.c:480`) or the record of what is
parsed (`:42`) the frame is not compared and its chain goes on (`Verdicts`).
NDIS is external: `Drained` says when it detaches a paused module, and
`FilterOidRequest` is only entered when no other request is in progress. That a
detached module has nothing outstanding is NDIS's promise and no result here.
Uninitialised fields of `DATA`, and the bytes KMP reads past the payload, are
nondeterministic.

### FilterStack and the code

Two kinds of threads attach a device to a volume: that of a mount IRP, after
the file system has answered (`SfFsControlMountVolumeComplete`), and that of a
file system notification, for every volume in its list
(`SfEnumerateFileSystemVolumes`). Both take `gSfilterAttachLock`, look again and
call `SfAttachToMountedDevice`; the model gives them the same actions, with
`Target` for the volume and `AfterAttach` for where each goes on. A check
without the lock (`SkipVolume`, `TakeVolume`) is an action before. A stack is
the sequence of the devices over a file system's or a volume's device object,
lowest first; `IoDetachDevice` cuts off everything above, as
`SfDetachFromFileSystemDevice` does it (`TakeDownFrom`).

External: the file system makes, mounts, remounts and refuses (`Fs...`), media
are removed, volumes dismounted, another driver stacks its device. Nothing in
the code keeps mounts and notifications apart (`DriverEntry` calls
`SfFsNotification` itself, `Sfilter.cpp:434` and `:442`), so the model does not
either. `SfIsShadowCopyVolume` asks the disk whether it can be written, each
time anew; storage devices in `Virtual` may answer either way. `excused` is
history: it names the volumes for which nothing in the code is responsible, and
why each is in it shows at the actions that add it.

### SsdtHook and the code

An ioctl for the arrays is four calls, each a look at the array
(`InsertInto`, `RemoveFrom`), the read of the length (`Grow`, `Shrink`) and two
stores, which the compiler may order either way (`StoreElement`, `StoreLen`).
Lengths are ULONGs: they wrap at `Word`. A removal from a full array copies the
word behind it; whatever that holds is a choice (`WordAt`), and `overrun`
remembers that it was made. `MyNtTerminateProcess` and
`MyNtQuerySystemInformation` scan a slot at a time (`ScanNext`);
`NextProcess` and `ProcessHidden` are the unlinking of the loop at
`SSDT_HOOK.c:886`.

The list is modelled by its links. `Unlink` is `RemoveForbidProcessList` under
its lock; `Compare` and `Advance` are the deletion's walk, `Match` and `Back`
the callback's, a read of the shared links each. Two deletions can take out one
entry one after the other, since neither holds the lock while it compares: the
second writes the links of the neighbours the entry still remembers, and goes on.
If these have other neighbours by then, what is between them is cut off and what
was deleted may be listed again: `broken`. `listed` is history from then on, and a
clear takes what the links lead to (`ClearBroken`).

`undefined` stops the model in two cases, each beside a branch in which the code
goes on. A block that is read after it was freed still holds what it held, or
is gone (`Reads`); and where two entries are no longer neighbours, the list
routines of newer headers refuse to write and stop the system, those of older
ones write, perhaps into memory that is gone (`MayStop`).

`listed`, `broken`, `overlapped`, `due`, `passed`, `steady`, `newest` and `seen`
are history for the properties.

### Credentials and the code

| Action | Code |
|---|---|
| `Logon` … `CheckLogon` | `KerbInteractiveUnlockLogonInit`: GET_REG, the answer, the question to the database |
| `FreePc2r`, `AllocatePc2r`, `ClearPc2r`, `FillUser`, `FillPassword` | SEND_UP: `pc2r` is freed, allocated and zeroed, set to `#`, and filled, without a lock |
| `ReadHost` … `StoreName` | `QueryDBKey` for GET_REG and GET_UP, which stores where `SkyEyeGetReg` says at the moment of each store |
| `CopyRegHost`, `CopyRegName` | the answer of GET_REG, a loop over `pRTC` each |
| `Start`, `CopyUser`, `CopyPassword`, `CopyHost`, `CopyName`, `LowerFlag` | `getUserPassword` and GET_UP: four loops over `pc2r`, and the flag |
| `VerifyIt`, `SetReg` | the dialog of the first session and SET_REG, value by value |
| `Login`, `Quits`, `Close`, `Restart` | the end of `MainWindow`'s constructor, `closeEvent`, a reboot |

A password is named by its user, and a string of the registry is right, wrong
or none; in a buffer that has been zeroed it is empty, and whoever copies it then
keeps what the memory of the answer held before (`Copied`). One action is one
loop, so a logon may free and refill the buffer between any two of them; what a
loop copies of a string that is being written is as good as none. Reading the
buffer between its being freed and allocated anew sets `undefined` and stops the
model. There is one logon screen. The account of the administrator is only the answer of SET_REG; the
record of users in the driver is read by nobody and left out. A logon at the
logon screen does not end the desktop of the user before, because all users
log on to Windows as one account.

### RuleTable and the code

Every handler shows a modal message box, so that each is one step:
`comboboxChanged`, `forbidProcess` (`forbidProcessOpen` and `-Net`),
`allowProcess`, `forbidNethead`, `allowNethead`, the start of a session (which
loads the drivers from the database and leaves the table empty), its end, and
`clearAll`, the clearing by the credential provider. Within a step the code's
order shows in what a failure (`Fault`) leaves undone: a driver that refuses
leaves the table as it is, and the database is written all the same.

What the code relies on is in the constants: `Starts` is the prefix relation by
which the SSDT and the WFP driver delete, `Same` what the NDIS driver takes for
one head, `Alike` what `forbidNethead` takes for a repetition. A row's box knows
the number its row had when it was made (`key`). A deletion in the NDIS driver may
refuse, as its URL is copied from a buffer that was given back (`Refused`).
Rows are selected one at a time. Of the WFP driver, which the installed system
has from `released/`, only the list of rules is modelled.

`clean`, `alone`, `kept` and `lifted` are history: they name what the code does
nothing about (a second desktop of the same user, a failed call, a box that
changes another row, a clearing), so that the properties claim what is left.

`Own`, `Seniors` and the deletions in the database are selections (`WHERE` in the
statements), written with `Picked`: what stands at some positions of a list, in
order.

## Runs

| Run | Result | What it shows |
|---|---|---|
| `verify_queue` (`MCVerifyQueue.cfg`) | pass, 342,146 states | five invariants, two action properties, two liveness properties and the refinement of `VerdictGate`: three operations over result blocks that are used again, both answers, one exit and restart of the application |
| `vq_lost_wakeup` | violation | an operation linked between the empty lookup and the registration of the event is not announced |
| `vq_lost_answer` | violation | an answer faster than the linking of its result is dropped and its operation waits for ever |
| `vq_permit` | violation | permit is turned into `STATUS_ACCESS_DENIED` |
| `vq_freed_result` | violation | a freed result is linked, and the next operation may be handed it |
| `ndis_filter` (`MCNdisFilter.cfg`) | pass, 206,087 states | counters, OID cancellation, rules, and that only denied chains get lost while the machine runs |
| `filter_stack` (`MCFilterStack.cfg`) | pass, 69,009 states | one filter device per mounted volume, which stays; no leaked or dangling device; every thread returns |
| `ssdt_hook` (`MCSsdtHook.cfg`) | pass, 2,216,135 states | only who was added is hidden or protected; scans miss nobody who stays; which entries a query loses; forbidden names and deletions while the list is not broken, and what breaks it |
| `credentials` (`MCCredentials.cfg`) | pass, 4,955,557 states | no desktop runs as a mixture of users; who gets the host gets the name, but for questions that overlap and logons between the two copies |
| `rules` (`MCRuleTable.cfg`) | pass, 317,400 states | the database is the table; shown bans are enforced; nothing else is |
| `ndis_chain` | violation | only the first list of a chain is scanned |
| `ndis_denied` | violation | a denied chain is handed on |

Each violation is a disagreement of the code with a comment or a prompt of the
repository, quoted in `PROJECT.json`.

### Bounds, and why they are enough

* *Operations = 3.* One being answered, one being linked, one between: every
  pair of critical sections meets with a third thread's effect in between, and
  the oldest, a middle and the newest position of a list differ. Three are also
  enough for a block to be used twice, for a waiting result that the search does
  not find, for a search that never ends, one that meets NULL, a spoilt
  operation and the bucket on the lookaside list. Two operations in one block
  need five; the safety properties and the inductive invariant do not depend on it. The
  operations are alike and nothing makes them arrive, so `InOrder` (a CONSTRAINT)
  leaves out the behaviours that link them in another order: every behaviour is
  one of the rest with the operations renamed, which none of the properties
  tells apart. The theorems hold for any number and any order.
* *MaxExits = 1.* A second exit meets the state the first one left: a dead or
  no registered event, an operation that was shown or not.
* *One chain per direction, reused for ever; contents of two net buffer
  lists; MaxReturns = 2; MaxDIY = 1.* A counter that is wrong by a chain, or by
  a list of one, shows; a chain comes again while its predecessor's return is
  uncounted.
* *MaxRules = 2 with two rules.* Newest and oldest rule differ, duplicates occur.
* *One OID request, reused.* NDIS serialises them; completion, freeing and the
  next request still interleave with cancellations.
* *Two storage devices with a volume each, MaxDevices = 3, MaxTries = 2.* Two
  mounts and an enumeration compete for the lock, a mount and the enumeration
  for one volume; a volume is dismounted and remounted; the last try differs
  from the first; memory for devices runs out. The safety properties also hold
  with a third volume that shares a storage device (619,283 states), where one
  medium is remounted while the other's device is there; the liveness property
  is too slow to check then. The theorems hold for any number.
* *SsdtHook: two callers, PIDs 1 to 3, MaxLength = 2, Word = 8, three blocks,
  two names of which one begins the other.* The full array, the slot behind it,
  an empty array whose length wraps and two callers in one array all occur; an
  entry is taken out under a walk with a neighbour on either side, and its
  memory goes to another name. `MaxCalls` is 3 for the arrays and 5 for the
  list: with four a deleted name comes to be listed again, with five a clear
  meets such a list and may free a block twice (`Mixed = FALSE`: a behaviour has
  calls for one of the two, since they share no variable). The theorems hold for any values.
* *Credentials: two desktops, an owner and a user, MaxEvents = 4.* Two questions
  and a logon overlap in the driver, a logon replaces the buffer in the middle
  of a question and between the copies of the host and the name (without either
  of the two cases that `FreePc2r` and `CopyHost` add to `crowded`,
  `HostComesWithName` is violated), a reboot leaves half of SET_REG. The theorems
  hold for any number of each.
* *RuleTable: two desktops and users, three programs and heads, MaxEvents = 6,
  where a failure counts for two.* Enough for three rows, a deletion that moves
  the rows below it and a box turned afterwards, or for a ban, a failure and the
  start of the other desktop. With `MaxEvents = 7` the same properties hold
  of 3,120,342 states.
* `MaxRules`, `MaxDIY` and `MaxReturns` bound counters in guards and stand for
  memory and for the number of processors.

Deadlock is checked in the `FilterStack` run. In the `VerifyQueue` runs the system
rightly stops when every IRP is through, and the application has exited as often
as it may, or waits for an event nobody will set; there and in the `NdisFilter`
runs it also stops when the machine does. In `ssdt_hook`, `credentials` and `rules`
it stops when the bounded events are used up, or at `undefined`: no step of these
handlers waits for another, so there is nothing to lock up.

### Fairness

* A requester inside `VerifyControl` runs on, and returns when its event is set
  (`WF` per operation): kernel threads are scheduled. It does not get the lock
  of a search that never ends.
* The application's thread runs on while its process lives (`WF` of `App`):
  nothing in the loop can refuse it the processor. There is no fairness on the
  arrival of IRPs, on `AppStart` or on `AppExit`. What the liveness properties
  promise they promise until the machine stops or such a search begins (`Hung`).
* A handler NDIS has entered runs on, the miniport completes what it was given
  and upper drivers return what they were shown (`WF` of `Continue` and of
  `UncountReturned`): NDIS requires it of them. Nothing makes a chain arrive or
  a module pause.
* In `FilterStack` the file system answers every mount IRP (`WF` of
  `FsAnswers`), threads run on, and a thread that waits for the attach lock gets
  it in the end although others take it in between (`SF` of `Lock`): a fast
  mutex wakes its waiters in the order they came. Nothing makes a volume mount
  or a file system register.
* `SsdtHook`, `Credentials` and `RuleTable` have no fairness and no liveness
  property: their handlers are loops over finite data that wait for nobody.
  That the one walk which could run in a circle does not is a safety property
  (`WalksGetOn`).

## Proofs

`VerifyQueueProofs` proves, for every set of operations, every set of answers
and every `MaxExits` (assumption `ConstantsAssumption`, nothing else), through
every reuse of result blocks:

* `TypeCorrect`, `ReleasedSafe`, `VerdictSafe`, `CopiedSafe`: the invariants
  `TypeOK`, `ReleasedWithAnswer`, `VerdictTracksAnswer`, `CopiedNodeIsLive`;
* `AnsweredOnceSafe`: the action property `AnsweredOnce`.

None of these is inductive. `IInv` adds what the code relies on silently:

1. operation IDs of operations that have entered are distinct and at most the
   number assigned last (`IDsIdentify`), because `totalnumbers` never goes back;
2. an operation that is not spoilt shares its block with nobody (`OwnBlock`);
3. the ID in a block is 0 or that of an operation that has or had the block,
   and of the one that has it if it is not spoilt (`ResultIDs`). So whatever
   the search comes across by way of stale links, a block that carries the answered
   ID is that operation's own, or one it has given back;
4. the operation in the application's hands has been shown and not answered
   (`AppHolds`), and a filled result holds its operation's answer
   (`FilledIsAnswer`): so the block it finds is still in use, and no answer is
   given twice;
5. `opList` holds each operation once from insertion to release (`ListExact`),
   so unlinking the answered one leaves no second link when the thread is let go;
6. an operation that has not entered has left no trace (`Untouched`), and the
   bucket of results is never counted down to 0 before a search (`ResultsCounted`).

None of it speaks of `Flink` and `Blink`, about which next to nothing is true for
ever: an answer that arrives, arrives at its own operation. That it does arrive
while no block has been used twice is `FirstUseIsReachable`, which the run checks and no
theorem states. (Used again by one operation at a time, a block is linked to itself
and still found from the tail; it takes two at a time to lose one.)

Each action has one lemma, with one step per conjunct of `IInv`; lemmas on
`Cons` and `RemoveAt` say what linking and unlinking do to the elements of a
list and to their distinctness. `Inductive` assembles them.

`VerifyGateProofs` proves, from the same assumption, `OldestIsFirst` and
`GateImplemented`, for `OldestFirst` and `ImplementsGate`. On top of `IInv` it keeps
(`GInv`) that `opList` is ordered by operation ID, the newest first, and is a part not
shown followed by a part shown (`NewestFirst`, `ShownAreOldest`), so the search from
the tail, past what was shown, ends at the oldest unshown (`CopiedIsNext`); and that a
status is written once (`StatusOnce`). The gate promises nothing once an operation is
spoilt (`broken` in `VerdictGate`), which the driver gives it no way to prevent. Under the
mapping each step of `VerifyQueue` is then `Ask`, `Show`, `Judge`, `Forget` or
`GoOn` of the gate, or stutters.

`NdisFilterProofs` proves, for any OID requests, chains of any lengths, frames and
rules (`NdisAssumption`), all properties of the run but the liveness one:

* `CloneIsLive` and `PendingCompletes` for `CancelReadsLiveClone` and
  `PendingIsCompleted`. One request is in progress, and is pending exactly while
  its clone is out (`PendingIsOut`), which rests on NDIS serialising them: the
  recording without the lock races with nothing.
* `RuleDenies` for `ListedRuleDenies`. A chain that was taken and not scanned has
  no verdict (`Unjudged`), so an "allow" comes from the scan of this step, and the
  search cannot have ended before the rule.
* `NewestDenies` for `NewestFirst`. Only an addition puts a rule into the list more
  often than before (`OnlyAddedIsMore`: a removal takes one link out, and the
  positions that are left map one to one to old ones), and it puts it first, where
  the search begins whatever the ports hold.
* `SendsAreCounted`, `RcvsAreCounted` and `NdisTypeCorrect` for
  `SendsCounted`, `RcvsCounted` and `TypeOK`. The properties say
  what the counters count as sets, a pair for each net buffer list of a chain that
  is handed on (`Away`) or given back (`GivenBack`), so that their sizes take the
  place of sums. `NblInv` adds that these sets are finite and that a detached
  module has none; each step adds or takes the pairs of one chain
  (`PairsCounted`, `PairsUncounted`). That a counter is never negative is part
  of the result: it is the size of a set.

`FilterStackProofs` proves, for any storage devices, volumes, `MaxDevices` and
`MaxTries` (`StackAssumption`), `StackTypeCorrect`, `OneFilter` and
`FilterStays` for `TypeOK`, `OneFilterPerVolume` and `StaysFiltered`. One device
per volume follows from what the holder of the lock has found free and stays
free (`HolderMeetsNone`): only the holder attaches, and neither the parameter
block nor the entry of the list changes under it. `Equipped` says that the
volume it is after exists, `VpbOfDisk` that a dismount resets the parameter
block of one storage device only.

`FilterDevicesProofs` adds to that invariant, for `MountedIsFiltered`
(`MountedCovered`), where a volume is that is not mounted yet: the mount in progress is the
one its parameter block names, and if the filter does not see that mount, somebody
else has found the volume or it is excused (`InitializingIsMounting`); a thread
that leaves a volume leaves it filtered or excused (`LeaveCovers`). For
`DevicesAccountedFor` (`DevicesKept`) it sorts the actions by what becomes of a device: made in a thread's hands, dropped from them, attached,
pushed, cut off, or left where it is. It needs that a thread holds a device only on
its way to attach it (`HeldOnTheWay`), so that none is overwritten, and that the file
system has at most one (`OneOverFs`), so that `IoDetachDevice` cuts off no other
device of the filter with it.

`CredentialsProofs` proves, for any users, owners, desktops and `MaxEvents`
(`CredentialsAssumption`), `TypeCorrect`, `NoMixing` and `HostWithName` for
`TypeOK`, `RunsAsWhoLoggedOn` and `HostComesWithName`. Why the buffer that
everybody shares mixes no two users (`HandedInv`):

1. it holds nothing, or what was handed over last: the name and the password of
   `latest` or none (`BufferOfLatest`), as every hand-over begins with a new block;
2. who is asking has been offered `latest` (`Offered`), so whatever it copies,
   now or later, is a name and a password it was offered (`Got`), and only a name
   and a password of one user open the database.

For the host (`HostInv`): SET_REG stores the name before the host
(`RegistryInOrder`), so who has read the host, in that order, finds the name
afterwards (`FoundInRegistry`); the flag says where a question alone in the driver
wants its answer (`FlagOfAsker`), so both strings are in its buffer before the host is
copied, and the name still is after that (`PairInBuffer`); and a logon frees or zeroes
the buffer between the two copies only under somebody who is in `crowded`
(`Replaced`). The property thus claims nothing where two questions
overlap, where the registry has refused a value, where a logon frees the buffer
between the two copies, where the host is copied from a buffer that is zeroed and
not yet set to `#`, and where a freed buffer is read (`undefined`). A logon at any
other moment of a question it covers.

`SsdtHookProofs` proves, for any callers, processes, names, blocks, `MaxLength`,
`Word` and `MaxCalls` (`SsdtAssumption`), the run's properties. The
arrays need one invariant each: all that an ioctl carries was added
(`ArraysFromAdded`), and a slot that has kept its ID lies ahead of the scan
(`SteadyAhead`). The list rests on `ListSound`: while nothing that is gone is
used, the links are those of `listed`, entries that were taken out or freed are
elsewhere, and every caller stands on a block that was listed. It holds until the
list is broken, and so do the properties about forbidden names, deletions and walks
(`~broken` is the first thing they ask). What breaks it `ListStaysIntact` bounds: only an entry taken
out by somebody else, or freed, while a deletion walks (`ListIntact`). A deletion by itself,
whatever is added under it, never unlinks an entry twice, because it stands on an
entry of the list, or on one it took out itself and that leads on to the list
(`LoneWalks`). Removed entries keep
their links, so a walk may wander through what is gone. The walks therefore need sets
and orders the model has no variable for, and their invariants say that some
exist: the blocks a callback can come to, each listed in its time (`WalksSeen`);
the order in which a deletion can come to blocks, with all it still owes ahead
of it (`WalksOn`); a strict order on all blocks along which every link forward
leads (`WalksLead`), so that no walk comes back.

`EveryOtherHidden` (for `HidesEveryOther`) is about a definition by recursion along
the entries, of which no induction is at hand. `QueryRelinks` says of a scan what
each entry leads to: past the next one if that was found, whether or not the entry
itself can still be come to. The set of entries shown is then the one the property
names, because a smallest entry about which the two disagreed would have a
predecessor about which they do.

`RuleTableProofs` proves, for any desktops, users, programs, heads, failures and
`MaxEvents` (`RuleTableAssumption`), `RulesTyped`, `ShownIsBanned`, `ShownIsStored`
and `EnforcedIsShown`, for `TypeOK`, `BansAreEnforced`, `DatabaseIsTable` and
`OnlyShownIsEnforced`, with an invariant each:

1. `RuleInv`: the types; a table shows no program and no head twice, since the
   handlers look before they insert; a desktop that does not run shows nothing;
   the number of a box is that of its row or of one below.
2. `BanInv`: what is shown and not counted as lifted is in the lists, of which
   every deletion takes only what starts with the name, or passes for the head,
   it is given (`AllowEffect`, `FoundEffect`).
3. `CleanInv`: a desktop with a clean history is the only one of its user
   (`SoleUser`), so nobody else writes its rows (`UpdateStoresOthers`,
   `OwnWithoutOther`), and what it shows is stored row by row (`Stored`). As a
   table shows nothing twice, the deletion of equal rows deletes one
   (`OwnWithout`).
4. `AloneInv`: who is alone is the only desktop running, and, while its history
   is clean and nothing is lifted, the lists hold what its tables say as often as
   these say it (`Exact`). A clean history means that no box went astray, and a
   deletion that took nothing else with it meant its own row only (`OnlyRow`).

The rows of a user are picked from the database by their positions (`Picked`). A
list is what is picked exactly if some increasing enumeration of the positions
leads to its entries (`PickedSelects`, `SelectsIsPicked`), and a set of numbers has
only one such enumeration (`OneEnumeration`, by a smallest place where two differ):
this takes the place of an induction over the list. That many rows ban a name is a
cardinality (`Count`), with a lemma for each thing that is done to a list.

Every invariant and every safety property over steps that a passing run checks is
thus proved, but for one. Only model-checked:

* `FirstUseIsReachable`, see above;* liveness, out of the prover's reach: `PollDrainsQueue`, `FilledReleases`,
  `EveryThreadReturns` and `OnlyDeniedIsLost`;
* the six runs that show where comments and code differ, each by one behaviour.

## Not modelled, and why

* *Handshake:* a failing allocation, whose NULL the caller dereferences; that the
  system returns blocks from a lookaside list that is long or idle (its least depth
  is four; the model keeps what is pushed); the two single stores by which two
  threads without a lock could cross each other on the lookaside list, which is
  interlocked; what a spoilt operation does to its partner beyond being spoilt;
  the wrap of the ULONG `OperationID`; the drain of the tables in
  `DriverUnload`; the fast-I/O variants that no IRP path calls.
* *Device stack:* `DriverUnload`, which only a checked build registers; loading
  a file system over a recogniser that is not one of `Fs_Rec`; the Windows 2000
  branches; requests in flight while their device is deleted.
* *NDIS:* that a chain which is denied and cannot pend is returned to NDIS
  before it goes on (`filter.c:727`, `:845`), which changes no state of the driver's;
  callbacks before `InitBlackDataList`; the status and PnP
  pass-through; the leak of the scan's copies; the overflow of KMP's table for
  long URLs; the transient Pausing state, which no other thread can tell from
  Paused; `SendDIYNBL` on an empty module list. A dropped chain never comes
  home, so a module that dropped one is never detached: the model shows this.
* *WFP:* `DriverEntry` calls `InitWfp` (`Initial.c:100`) before it creates the
  device (`:106`); the callout registration refuses a NULL device
  (`EstablishedLayer.c:94`), so the driver as committed fails to start and its
  handlers are unreachable. Sessions use the driver under `released/`, so its
  list of rules, which the rest of the system talks to, is part of `RuleTable`.
* *Care files:* the application sends only the first of the three ioctls. Its
  own INIT flag stays TRUE (`Thread_Function.cpp:127-147`), because the driver
  assigns a local variable (`CareFileHashTable_Function.cpp:407-409`). So the
  table is filled once, before the driver filters anything, and never changes;
  what is left is a lookup and a decision without state or interleaving. The
  leaked spin lock of the error path (`:400`) and the two bucket functions that
  differ are listed as hazards: one call, or one comparison of two functions,
  shows each.
* *SSDT driver:* the installation of the hooks, one pass of `DriverEntry`; its
  unload; the record of users and the account of the administrator, which are
  copied and never looked at; `MyNtQuerySystemInformation` and the callback
  running several times at once (none writes what another reads); which word it
  is that the removal of `SSDT_HOOK.c:807` and `:834` copies from behind a full
  array (any, `WordAt`).
* *Desktop:* the administration of users and roles, single statements to the
  database; the monitor thread and the pipe, which show and forget;
  `deleteSSDTProcessID`, `deleteWFPDriverMess` and `stopMonitor`
  (`mainwindow.cpp:1176-1258`), which nobody calls; `MainWindow`'s destructor,
  which never runs, so that its clearing of the drivers does not either; the
  file settings, an empty window; several rows deleted at once.
* *Credential provider:* a second logon screen, as one console has; the COM plumbing, from a vendor sample; Windows' own
  decision about the account.
* *The installer:* one pass over the service manager.
* Most of the repository's lines are headers of MySQL and Qt, generated
  resources, a second copy of the desktop in its build directory, and code of
  driver samples that keeps no state; no model stands for these.

## Plan

Done: the handshake, the NDIS filter, the device stack, the SSDT driver, the
session and its rules, and proofs for all of these modules. The care files, an
earlier plan, are not worth a module, as *Not modelled* says. What is left:

1. A proof of `FirstUseIsReachable`: before a block is used twice
   `hashtable_result` is a chain from the tail whose unfilled blocks are all in it,
   and what a freed block keeps linked lies beside it.
2. `BlackList` on its own: what `Filtering` returns for a frame against a reference
   that knows no order of the rules.
3. The status and PnP pass-through of the NDIS filter, and `DriverUnload` of
   SFilter, both checked against the handlers already modelled.
