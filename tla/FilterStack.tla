---------------------------- MODULE FilterStack ----------------------------
(***************************************************************************)
(* The device stack of SFilter: one filter device over the control device  *)
(* of a file system, one over every volume that file system has mounted.   *)
(*                                                                         *)
(* A volume gets its filter device from the thread of its mount IRP, or    *)
(* from the notification thread that finds it when it enumerates what was  *)
(* mounted before the filter came.  The two meet on gSfilterAttachLock.    *)
(* The I/O manager, the file system and another filter are external: they  *)
(* mount, remount, dismount and stack devices as they like.                *)
(***************************************************************************)
EXTENDS Naturals, Sequences, FiniteSets, SequencesExt

CONSTANTS
  Storages,   (* storage devices; each has at most one mount IRP at a time *)
  Virtual,    (* those SfIsShadowCopyVolume may take for a shadow copy: it *)
              (* asks the disk each time whether it can be written         *)
  Vdos,       (* device objects the file system has for volumes            *)
  Disk,       (* the storage device each Vdo is for                        *)
  Fs,         (* the control device of the file system                     *)
  Notifier,   (* the thread that calls SfFsNotification                    *)
  Other,      (* the one device of another filter driver                   *)
  NoVdo, NoDevice, NoThread,
  MaxDevices, (* bound: filter devices there is memory for                 *)
  MaxTries    (* attempts of SfAttachToMountedDevice, 8 in the code        *)

ASSUME StackAssumption ==
  /\ Virtual \subseteq Storages /\ Disk \in [Vdos -> Storages]
  /\ Notifier \notin Storages /\ NoThread \notin Storages \union {Notifier}
  /\ Fs \notin Vdos /\ NoVdo \notin Vdos
  /\ MaxDevices \in Nat /\ MaxTries \in Nat \ {0}
  /\ {Other, NoDevice} \intersect 1 .. MaxDevices = {}

Threads == Storages \union {Notifier}
Own == 1 .. MaxDevices

VARIABLES
  fsActive, \* the last notification was of an activation
  stack,    \* the devices attached over Fs and over each Vdo, lowest first
  live,     \* the filter devices created and not deleted
  vdo,      \* what has become of each Vdo
  vpb,      \* the Vdo the volume parameter block of a storage device names
  pc,       \* where each thread is
  new,      \* newDeviceObject of each thread
  todo,     \* devices the enumeration has not come to
  current,  \* the device it is at
  lock,     \* the holder of gSfilterAttachLock
  tries,    \* failed attempts of the holder
  excused   \* history: volumes no thread of the filter has to attach to

volVars == <<vdo, vpb>>
threadVars == <<pc, new, todo, current>>
lockVars == <<lock, tries>>
vars == <<fsActive, stack, live, volVars, threadVars, lockVars, excused>>

Init ==
  /\ fsActive = FALSE
  /\ stack = [d \in Vdos \union {Fs} |-> <<>>]
  /\ live = {}
  /\ vdo = [x \in Vdos |-> "none"]
  /\ vpb = [s \in Storages |-> NoVdo]
  /\ pc = [t \in Threads |-> "idle"]
  /\ new = [t \in Threads |-> NoDevice]
  /\ todo = {} /\ current = NoVdo
  /\ lock = NoThread /\ tries = 0
  /\ excused = {}

(* IS_MY_DEVICE_OBJECT *)
Mine(d) == d \in Own

(* SfIsAttachedToDeviceWXPAndLater: from the top of the stack down. *)
SfIsAttachedToDevice(d) == \E i \in DOMAIN stack[d] : Mine(stack[d][i])

(* IoCreateDevice has a device to give, and which. *)
CanCreate == Own \ live # {}
Created == CHOOSE n \in Own : n \notin live

(* The volume a thread attaches its new device to. *)
Target(t) == IF t = Notifier THEN current ELSE vpb[t]

(* Where a thread goes on after an attachment, failed or not. *)
AfterAttach(t) == IF t = Notifier THEN "enumerating" ELSE "idle"

(* The filter device over d is detached and deleted.  IoDetachDevice cuts  *)
(* whatever lies over the device below it off the stack.                   *)
PositionOf(d) == CHOOSE i \in DOMAIN stack[d] : Mine(stack[d][i])
TakeDownFrom(d) ==
  /\ live' = live \ {stack[d][PositionOf(d)]}
  /\ stack' = [stack EXCEPT ![d] = SubSeq(@, 1, PositionOf(d) - 1)]

--------------------------------------------------------------------------
(* Attaching to a volume, by either thread. *)

Leave(t) ==
  /\ pc' = [pc EXCEPT ![t] = AfterAttach(t)]
  /\ new' = [new EXCEPT ![t] = NoDevice]
  /\ current' = IF t = Notifier THEN NoVdo ELSE current
  /\ UNCHANGED todo

(* The lock is taken and the volume has a filter device already: the new   *)
(* one is deleted and the lock released.                                   *)
AlreadyAttached_Replaces(t) ==
  /\ pc[t] = "waiting" /\ lock = NoThread
  /\ SfIsAttachedToDevice(Target(t))
  /\ TakeDownFrom(Target(t))
  /\ Leave(t)
  /\ UNCHANGED <<fsActive, volVars, lockVars, excused>>
AlreadyAttached(t) ==
  /\ pc[t] = "waiting" /\ lock = NoThread
  /\ SfIsAttachedToDevice(Target(t))
  /\ live' = live \ {new[t]}
  /\ Leave(t)
  /\ UNCHANGED <<fsActive, stack, volVars, lockVars, excused>>

(* The lock is taken and the volume is free: the attempts begin. *)
StillFree_Unchecked(t) == TRUE
StillFree(t) == ~SfIsAttachedToDevice(Target(t))

AcquireAttachLock(t) ==
  /\ pc[t] = "waiting" /\ lock = NoThread
  /\ StillFree(t)
  /\ lock' = t /\ tries' = 0
  /\ pc' = [pc EXCEPT ![t] = "attaching"]
  /\ UNCHANGED <<fsActive, stack, live, volVars, new, todo, current, excused>>

(* IoAttachDeviceToDeviceStackSafe refuses a device that is being made or  *)
(* has been deleted.                                                       *)
Attachable(x) == vdo[x] = "mounted"

SfAttachToMountedDevice(t) ==
  /\ pc[t] = "attaching" /\ Attachable(Target(t))
  /\ stack' = [stack EXCEPT ![Target(t)] = Append(@, new[t])]
  /\ lock' = NoThread /\ tries' = 0
  /\ Leave(t)
  /\ UNCHANGED <<fsActive, live, volVars, excused>>

NextTry_Reset == 0
NextTry == tries + 1

(* Half a second passes and the next attempt follows, the lock being held. *)
RetryAttach(t) ==
  /\ pc[t] = "attaching" /\ ~Attachable(Target(t))
  /\ tries < MaxTries - 1
  /\ tries' = NextTry
  /\ UNCHANGED <<fsActive, stack, live, volVars, threadVars, lock, excused>>

ReleaseAfterFailure_Missing == tries' = 0 /\ UNCHANGED lock
ReleaseAfterFailure == tries' = 0 /\ lock' = NoThread

GiveUpAttach(t) ==
  /\ pc[t] = "attaching" /\ ~Attachable(Target(t))
  /\ tries = MaxTries - 1
  /\ live' = live \ {new[t]}
  /\ excused' = excused \union {Target(t)}
  /\ ReleaseAfterFailure
  /\ Leave(t)
  /\ UNCHANGED <<fsActive, stack, volVars>>

Lock(t) == AlreadyAttached(t) \/ AcquireAttachLock(t)
Attach(t) == SfAttachToMountedDevice(t) \/ RetryAttach(t) \/ GiveUpAttach(t)

--------------------------------------------------------------------------
(* The thread of a mount IRP. *)

(* SfFsControlMountVolume, called if the filter is on the file system:     *)
(* what is no shadow copy gets a new device before the IRP goes down.  If  *)
(* there is none the IRP is completed with the error, which changes        *)
(* nothing.                                                                *)
SfFsControlMountVolume(s) ==
  /\ pc[s] = "idle" /\ vpb[s] = NoVdo
  /\ SfIsAttachedToDevice(Fs) /\ CanCreate
  /\ live' = live \union {Created}
  /\ new' = [new EXCEPT ![s] = Created]
  /\ pc' = [pc EXCEPT ![s] = "sent"]
  /\ UNCHANGED <<fsActive, stack, volVars, todo, current, lockVars, excused>>

(* A mount IRP the filter does not see, or lets pass. *)
MountUnseen(s) ==
  /\ pc[s] = "idle" /\ vpb[s] = NoVdo
  /\ SfIsAttachedToDevice(Fs) => s \in Virtual
  /\ pc' = [pc EXCEPT ![s] = "unseen"]
  /\ UNCHANGED <<fsActive, stack, live, volVars, new, todo, current, lockVars,
                 excused>>

(* The IRP comes back, to SfFsControlMountVolume if that had sent it. *)
Returned(s, how) == [pc EXCEPT ![s] = IF @ = "sent" THEN how ELSE "idle"]

(* The file system makes a device object, an initialising one at first,    *)
(* and completes the IRP when that is mounted.                             *)
FsCreates(s, x) ==
  /\ pc[s] \in {"sent", "unseen"} /\ vpb[s] = NoVdo
  /\ vdo[x] = "none" /\ Disk[x] = s /\ x \notin todo \union {current}
  /\ vdo' = [vdo EXCEPT ![x] = "initializing"]
  /\ vpb' = [vpb EXCEPT ![s] = x]
  /\ excused' = IF pc[s] = "unseen" THEN excused \union {x} ELSE excused \ {x}
  /\ UNCHANGED <<fsActive, stack, live, threadVars, lockVars>>

FsMounts(s) ==
  /\ pc[s] \in {"sent", "unseen"} /\ vpb[s] # NoVdo
  /\ vdo' = [vdo EXCEPT ![vpb[s]] = "mounted"]
  /\ pc' = Returned(s, "mounted")
  /\ UNCHANGED <<fsActive, stack, live, vpb, new, todo, current, lockVars,
                 excused>>

(* The medium is one the file system knows: the old device object is used  *)
(* again, and the parameter block of the storage device changes to its own. *)
FsRemounts(s, x) ==
  /\ pc[s] \in {"sent", "unseen"} /\ vpb[s] = NoVdo
  /\ vdo[x] = "mounted" /\ Disk[x] = s
  /\ vpb' = [vpb EXCEPT ![s] = x]
  /\ pc' = Returned(s, "mounted")
  /\ UNCHANGED <<fsActive, stack, live, vdo, new, todo, current, lockVars,
                 excused>>

FsFails(s) ==
  /\ pc[s] \in {"sent", "unseen"} /\ vpb[s] = NoVdo
  /\ pc' = Returned(s, "failed")
  /\ UNCHANGED <<fsActive, stack, live, volVars, new, todo, current, lockVars,
                 excused>>

(* SfFsControlMountVolumeComplete, up to the lock or, for a failed mount,  *)
(* up to the end.                                                          *)
SfFsControlMountVolumeComplete(s) ==
  \/ /\ pc[s] = "mounted"
     /\ pc' = [pc EXCEPT ![s] = "waiting"]
     /\ UNCHANGED <<fsActive, stack, live, volVars, new, todo, current, lockVars,
                    excused>>
  \/ /\ pc[s] = "failed"
     /\ live' = live \ {new[s]}
     /\ Leave(s)
     /\ UNCHANGED <<fsActive, stack, volVars, lockVars, excused>>

--------------------------------------------------------------------------
(* The notification thread. *)

(* SfAttachToFileSystemDevice up to the enumeration.  Without a device, or *)
(* if it cannot be attached, the function ends and has changed nothing.    *)
SfAttachToFileSystemDevice ==
  /\ ~fsActive /\ pc[Notifier] = "idle"
  /\ fsActive' = TRUE
  /\ \/ /\ CanCreate
        /\ live' = live \union {Created}
        /\ stack' = [stack EXCEPT ![Fs] = Append(@, Created)]
        /\ pc' = [pc EXCEPT ![Notifier] = "listing"]
     \/ UNCHANGED <<stack, live, pc>>
  /\ UNCHANGED <<volVars, new, todo, current, lockVars, excused>>

(* The list of SfEnumerateFileSystemVolumes: every device there is. *)
ListVolumes ==
  /\ pc[Notifier] = "listing"
  /\ todo' = {x \in Vdos : vdo[x] # "none"}
  /\ excused' = excused \ todo'
  /\ pc' = [pc EXCEPT ![Notifier] = "enumerating"]
  /\ UNCHANGED <<fsActive, stack, live, volVars, new, current, lockVars>>

(* No memory for the list: the device goes from the file system again. *)
ListingFails ==
  /\ pc[Notifier] = "listing"
  /\ TakeDownFrom(Fs)
  /\ pc' = [pc EXCEPT ![Notifier] = "idle"]
  /\ UNCHANGED <<fsActive, volVars, new, todo, current, lockVars, excused>>

Remaining_LoopLeft(x) == {}
Remaining(x) == todo \ {x}

(* A volume the loop leaves out without a device made for it: attached     *)
(* already, a shadow copy, or one without a disk device, which happens     *)
(* unless it is mounted and current.                                       *)
SkipVolume(x) ==
  /\ pc[Notifier] = "enumerating" /\ x \in todo
  /\ \/ /\ SfIsAttachedToDevice(x)
        /\ UNCHANGED excused
     \/ /\ ~SfIsAttachedToDevice(x)
        /\ \/ Disk[x] \in Virtual
           \/ vdo[x] # "mounted" \/ vpb[Disk[x]] # x
           \/ ~CanCreate
        /\ excused' = excused \union {x}
  /\ todo' = Remaining(x)
  /\ UNCHANGED <<fsActive, stack, live, volVars, pc, new, current, lockVars>>

(* The check without the lock says no: a device is made. *)
TakeVolume(x) ==
  /\ pc[Notifier] = "enumerating" /\ x \in todo
  /\ ~SfIsAttachedToDevice(x) /\ CanCreate
  /\ live' = live \union {Created}
  /\ new' = [new EXCEPT ![Notifier] = Created]
  /\ pc' = [pc EXCEPT ![Notifier] = "waiting"]
  /\ current' = x
  /\ todo' = todo \ {x}
  /\ UNCHANGED <<fsActive, stack, volVars, lockVars, excused>>

EnumerationEnds ==
  /\ pc[Notifier] = "enumerating" /\ todo = {}
  /\ pc' = [pc EXCEPT ![Notifier] = "idle"]
  /\ UNCHANGED <<fsActive, stack, live, volVars, new, todo, current, lockVars,
                 excused>>

SfDetachFromFileSystemDevice ==
  /\ fsActive /\ pc[Notifier] = "idle"
  /\ fsActive' = FALSE
  /\ IF SfIsAttachedToDevice(Fs) THEN TakeDownFrom(Fs)
     ELSE UNCHANGED <<stack, live>>
  /\ UNCHANGED <<volVars, threadVars, lockVars, excused>>

--------------------------------------------------------------------------
(* The world around. *)

(* The medium goes, the device object stays: somebody has it open. *)
MediumRemoved(s) ==
  /\ pc[s] = "idle" /\ vpb[s] # NoVdo
  /\ vpb' = [vpb EXCEPT ![s] = NoVdo]
  /\ UNCHANGED <<fsActive, stack, live, vdo, threadVars, lockVars, excused>>

(* SfFastIoDetachDevice, which the I/O manager calls when the device object *)
(* below goes; the other filter's device goes in the same way.              *)
SfFastIoDetachDevice_Kept(x) ==
  /\ UNCHANGED live
  /\ stack' = [stack EXCEPT ![x] = <<>>]
SfFastIoDetachDevice(x) ==
  /\ live' = live \ ToSet(stack[x])
  /\ stack' = [stack EXCEPT ![x] = <<>>]

(* A volume is dismounted unless it is being mounted. *)
Dismount(x) ==
  /\ vdo[x] = "mounted"
  /\ vpb[Disk[x]] = x => pc[Disk[x]] = "idle"
  /\ vdo' = [vdo EXCEPT ![x] = "none"]
  /\ vpb' = [vpb EXCEPT ![Disk[x]] = IF @ = x THEN NoVdo ELSE @]
  /\ excused' = excused \ {x}
  /\ SfFastIoDetachDevice(x)
  /\ UNCHANGED <<fsActive, threadVars, lockVars>>

OtherAttaches(d) ==
  /\ \A e \in Vdos \union {Fs} : Other \notin ToSet(stack[e])
  /\ d \in Vdos => Attachable(d)
  /\ stack' = [stack EXCEPT ![d] = Append(@, Other)]
  /\ UNCHANGED <<fsActive, live, volVars, threadVars, lockVars, excused>>

--------------------------------------------------------------------------
(* The file system answers a mount IRP. *)
FsAnswers(s) ==
  \/ \E x \in Vdos : FsCreates(s, x) \/ FsRemounts(s, x)
  \/ FsMounts(s) \/ FsFails(s)

MountThread(s) == SfFsControlMountVolumeComplete(s) \/ Attach(s)

Notification ==
  \/ ListVolumes \/ ListingFails \/ EnumerationEnds
  \/ \E x \in Vdos : SkipVolume(x) \/ TakeVolume(x)
  \/ Attach(Notifier)

Next ==
  \/ \E s \in Storages :
       \/ SfFsControlMountVolume(s) \/ MountUnseen(s)
       \/ FsAnswers(s) \/ MountThread(s) \/ MediumRemoved(s)
  \/ \E t \in Threads : Lock(t)
  \/ Notification
  \/ SfAttachToFileSystemDevice \/ SfDetachFromFileSystemDevice
  \/ \E x \in Vdos : Dismount(x)
  \/ \E d \in Vdos \union {Fs} : OtherAttaches(d)

Spec == Init /\ [][Next]_vars

(* The file system answers every mount IRP, threads run on, and a fast     *)
(* mutex wakes its waiters in turn.                                        *)
FairSpec ==
  /\ Spec
  /\ \A s \in Storages : WF_vars(FsAnswers(s)) /\ WF_vars(MountThread(s))
  /\ WF_vars(Notification)
  /\ \A t \in Threads : SF_vars(Lock(t))

--------------------------------------------------------------------------
(* Types, and the lock is held by a thread that is attaching. *)
TypeOK ==
  /\ fsActive \in BOOLEAN
  /\ stack \in [Vdos \union {Fs} -> Seq(Own \union {Other})]
  /\ live \subseteq Own
  /\ vdo \in [Vdos -> {"none", "initializing", "mounted"}]
  /\ vpb \in [Storages -> Vdos \union {NoVdo}]
  /\ pc \in [Threads -> {"idle", "sent", "unseen", "mounted", "failed",
                         "waiting", "attaching", "listing", "enumerating"}]
  /\ new \in [Threads -> Own \union {NoDevice}]
  /\ todo \subseteq Vdos /\ current \in Vdos \union {NoVdo}
  /\ \A t \in Threads : pc[t] = "attaching" <=> lock = t
  /\ tries \in 0 .. MaxTries - 1
  /\ excused \subseteq Vdos

(* However a mount completion, a remount and an enumeration interleave, a  *)
(* volume has at most one filter device: with two, every request would be  *)
(* filtered and judged twice.                                              *)
OneFilterPerVolume ==
  \A x \in Vdos : \A i, j \in DOMAIN stack[x] :
    Mine(stack[x][i]) /\ Mine(stack[x][j]) => i = j

(* Where a device is: a position of a stack, or a thread.                  *)
Positions(d, n) == {<<d, i>> : i \in {j \in DOMAIN stack[d] : stack[d][j] = n}}
Hands(n) == {<<t>> : t \in {u \in Threads : new[u] = n}}
Places(n) == Hands(n) \union UNION {Positions(d, n) : d \in Vdos \union {Fs}}

(* Each device created is in exactly one place until it is deleted: in one *)
(* stack, or in the hands of one thread.  None leaks on an error path and  *)
(* none is deleted while requests still reach it.                          *)
DevicesAccountedFor ==
  \A n \in Own :
    IF n \in live THEN \E p \in Places(n) : Places(n) = {p} ELSE Places(n) = {}

(* A mounted volume is filtered, or a thread is on its way to it; excused  *)
(* are only volumes mounted unseen since the last enumeration, shadow      *)
(* copies, and those an attempt failed for.                                *)
OnItsWay(x) ==
  \/ x \in todo \/ x = current
  \/ vpb[Disk[x]] = x /\ pc[Disk[x]] \in {"mounted", "waiting", "attaching"}
MountedIsFiltered ==
  \A x \in Vdos :
    vdo[x] = "mounted" => SfIsAttachedToDevice(x) \/ OnItsWay(x) \/ x \in excused

(* No step but its dismounting takes the filter from a volume, the losing  *)
(* side of a race and a file system that goes away included.               *)
StaysFiltered ==
  [][\A x \in Vdos : SfIsAttachedToDevice(x) /\ vdo'[x] # "none"
       => \E i \in DOMAIN stack'[x] : Mine(stack'[x][i])]_vars

(* Every mount IRP is completed and every notification returns, whatever   *)
(* happens to the volume while the lock is held.                           *)
EveryThreadReturns ==
  \A t \in Threads : pc[t] # "idle" ~> pc[t] = "idle"
=============================================================================
