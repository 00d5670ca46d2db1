------------------------- MODULE FilterDevicesProofs -------------------------
(* Machine-checked: every mounted volume is filtered, on its way to it, or *)
(* excused, for any number of storage devices, volumes and attempts; and   *)
(* every filter device created is in one place until it is deleted, for    *)
(* any number of threads, volumes and devices.                             *)
EXTENDS FilterStackProofs

-----------------------------------------------------------------------------
(* Mounted volumes.                                                        *)

(* The notification thread is at no volume unless it attaches to one.      *)
CurrentInUse ==
  pc[Notifier] \notin {"waiting", "attaching"} => current = NoVdo

(* A parameter block names no device object that is gone.                  *)
VpbNamesDevice == \A s \in Storages : vpb[s] \in Vdos => vdo[vpb[s]] # "none"

Found(x) == SfIsAttachedToDevice(x) \/ x \in todo \/ x = current \/ x \in excused

(* An initialising device object is that of the mount in progress, and is  *)
(* found by somebody else if the filter does not see that mount.           *)
InitializingIsMounting ==
  \A x \in Vdos : vdo[x] = "initializing" =>
    /\ vpb[Disk[x]] = x /\ pc[Disk[x]] \in {"sent", "unseen"}
    /\ pc[Disk[x]] = "unseen" => Found(x)

(* MountedIsFiltered, for one volume. *)
Covered(x) ==
  vdo[x] = "mounted" => SfIsAttachedToDevice(x) \/ OnItsWay(x) \/ x \in excused

CInv ==
  /\ CurrentInUse /\ VpbNamesDevice /\ InitializingIsMounting
  /\ \A x \in Vdos : Covered(x)

(* A filtered volume stays so while its device object is there.            *)
LEMMA Kept ==
  ASSUME IInv, [Next]_vars, NEW x \in Vdos, SfIsAttachedToDevice(x), vdo'[x] # "none"
  PROVE  SfIsAttachedToDevice(x)'
<1>1. PICK i \in DOMAIN stack[x] : Mine(stack[x][i])
  BY DEF SfIsAttachedToDevice
<1>2. stack[x] \in Seq(Own \union {Other})
  BY DEF IInv, TypeOK
<1>3. i \in DOMAIN stack'[x] /\ stack'[x][i] = stack[x][i]
  BY <1>1, <1>2, VolumeStackStep
<1> QED
  BY <1>1, <1>3 DEF SfIsAttachedToDevice, Mine

(* What every step keeps of the volumes that are filtered already. *)
KeptAll == \A x \in Vdos :
  SfIsAttachedToDevice(x) /\ vdo'[x] # "none" => SfIsAttachedToDevice(x)'

-----------------------------------------------------------------------------
(* One lemma per action.                                                   *)

(* The volume a thread leaves is filtered or excused. *)
LEMMA LeaveCovers ==
  ASSUME IInv, CInv, KeptAll, NEW t \in Threads, pc[t] \in {"waiting", "attaching"},
         NEW v \in Vdos, v = Target(t),
         Leave(t), UNCHANGED volVars, excused \subseteq excused',
         SfIsAttachedToDevice(v)' \/ v \in excused'
  PROVE  CInv'
<1> USE StackAssumption DEF IInv, CInv, TypeOK, Threads, Leave, AfterAttach, volVars
<1>1. CurrentInUse' /\ VpbNamesDevice'
  BY DEF CurrentInUse, VpbNamesDevice
<1>2. CASE t = Notifier
  <2>1. \A x \in Vdos : (vdo[x] # "none" /\ Found(x)) => Found(x)'
    BY <1>2 DEF Found, Target, KeptAll
  <2>2. InitializingIsMounting'
    BY <1>2, <2>1 DEF InitializingIsMounting
  <2>3. ASSUME NEW x \in Vdos PROVE Covered(x)'
    BY <1>2, <2>1 DEF Covered, Found, OnItsWay, KeptAll, Target
  <2> QED BY <1>1, <2>2, <2>3
<1>3. CASE t # Notifier
  <2>1. t \in Storages /\ v = vpb[t] /\ Disk[v] = t
    BY <1>3 DEF Target, VpbOfDisk
  <2>2. \A x \in Vdos : (vdo[x] # "none" /\ Found(x)) => Found(x)'
    BY <1>3 DEF Found, KeptAll
  <2>3. InitializingIsMounting'
    BY <1>3, <2>1, <2>2 DEF InitializingIsMounting
  <2>4. ASSUME NEW x \in Vdos PROVE Covered(x)'
    BY <1>3, <2>1 DEF Covered, OnItsWay, KeptAll
  <2> QED BY <1>1, <2>3, <2>4
<1> QED BY <1>2, <1>3

(* A thread takes the lock or attaches: it stays at its volume or leaves   *)
(* it filtered or excused.                                                 *)
LEMMA CoverAttach ==
  ASSUME IInv, CInv, KeptAll, NEW t \in Threads, Lock(t) \/ Attach(t)
  PROVE  CInv'
<1>1. Target(t) \in Vdos
  BY StackAssumption
     DEF IInv, Equipped, Target, Lock, Attach, AlreadyAttached, AcquireAttachLock,
     SfAttachToMountedDevice, RetryAttach, GiveUpAttach, Threads
<1> DEFINE v == Target(t)
<1>2. CASE AlreadyAttached(t)
  <2>1. SfIsAttachedToDevice(v) /\ UNCHANGED <<volVars, excused>> /\ Leave(t)
        /\ pc[t] = "waiting" /\ UNCHANGED stack
    BY <1>2 DEF AlreadyAttached
  <2>2. PICK i \in DOMAIN stack[v] : Mine(stack[v][i])
    BY <2>1 DEF SfIsAttachedToDevice
  <2>3. PICK w \in Vdos : w = v
    BY <1>1
  <2>4. SfIsAttachedToDevice(w)'
    BY <2>1, <2>2, <2>3 DEF SfIsAttachedToDevice, Mine
  <2> HIDE DEF v
  <2> QED BY <2>1, <2>3, <2>4, LeaveCovers DEF v
<1>3. CASE SfAttachToMountedDevice(t)
  <2>1. PICK w \in Vdos : w = v
    BY <1>1
  <2>2. new[t] \in Own /\ stack[w] \in Seq(Own \union {Other})
    BY <2>1, <1>3 DEF IInv, TypeOK, Equipped, SfAttachToMountedDevice, Threads
  <2>3. stack'[w] = Append(stack[w], new[t])
    BY <2>1, <1>3 DEF IInv, TypeOK, SfAttachToMountedDevice
  <2>4. Len(stack[w]) + 1 \in DOMAIN stack'[w] /\ stack'[w][Len(stack[w]) + 1] = new[t]
    BY <2>2, <2>3
  <2>5. UNCHANGED <<volVars, excused>> /\ Leave(t) /\ pc[t] = "attaching"
    BY <1>3 DEF SfAttachToMountedDevice
  <2>6. SfIsAttachedToDevice(w)'
    BY <2>2, <2>4 DEF SfIsAttachedToDevice, Mine
  <2> QED BY <2>1, <2>5, <2>6, LeaveCovers
<1>4. CASE GiveUpAttach(t)
  <2>1. PICK w \in Vdos : w = v
    BY <1>1
  <2>2. /\ UNCHANGED volVars /\ Leave(t) /\ pc[t] = "attaching"
        /\ excused' = excused \union {w}
    BY <1>4, <2>1 DEF GiveUpAttach
  <2> QED BY <2>1, <2>2, LeaveCovers
<1>5. CASE RetryAttach(t) \/ AcquireAttachLock(t)
  <2>1. /\ UNCHANGED <<stack, vdo, vpb, todo, current, excused>>
        /\ \/ UNCHANGED pc
           \/ pc[t] = "waiting" /\ pc' = [pc EXCEPT ![t] = "attaching"]
    BY <1>5 DEF RetryAttach, AcquireAttachLock, volVars, threadVars
  <2>2. /\ pc'[Notifier] \notin {"waiting", "attaching"}
              => pc[Notifier] \notin {"waiting", "attaching"}
        /\ \A s \in Storages :
             \/ pc'[s] = pc[s]
             \/ pc[s] = "waiting" /\ pc'[s] = "attaching"
    BY <2>1 DEF IInv, TypeOK, Threads
  <2>3. \A x \in Vdos : Found(x)' <=> Found(x)
    BY <2>1 DEF Found, SfIsAttachedToDevice
  <2>4. CurrentInUse' /\ VpbNamesDevice'
    BY <2>1, <2>2 DEF CInv, CurrentInUse, VpbNamesDevice
  <2>5. InitializingIsMounting'
    BY <2>1, <2>2, <2>3, StackAssumption DEF CInv, InitializingIsMounting
  <2>6. ASSUME NEW x \in Vdos PROVE Covered(x)'
    BY <2>1, <2>2, StackAssumption DEF CInv, Covered, OnItsWay, SfIsAttachedToDevice
  <2> QED BY <2>4, <2>5, <2>6 DEF CInv
<1> QED BY <1>2, <1>3, <1>4, <1>5 DEF Lock, Attach

(* Mount IRPs, as the filter, the file system and the disk see them.       *)
LEMMA CoverMount ==
  ASSUME IInv, CInv, KeptAll, NEW s \in Storages,
         \/ SfFsControlMountVolume(s) \/ MountUnseen(s) \/ FsAnswers(s)
         \/ SfFsControlMountVolumeComplete(s) \/ MediumRemoved(s)
  PROVE  CInv'
<1> USE StackAssumption DEF IInv, CInv, TypeOK, Threads, lockVars, volVars, threadVars
<1>1. Notifier # s
  OBVIOUS
<1>2. CASE \/ SfFsControlMountVolume(s) \/ MountUnseen(s)
           \/ SfFsControlMountVolumeComplete(s) \/ FsFails(s)
  <2>1. /\ UNCHANGED <<stack, vdo, vpb, todo, current, excused>>
        /\ \A r \in Threads : r # s => pc'[r] = pc[r]
        /\ \/ vpb[s] = NoVdo
           \/ pc[s] = "mounted" /\ pc'[s] = "waiting"
           \/ pc[s] = "failed"
    BY <1>2 DEF SfFsControlMountVolume, MountUnseen, SfFsControlMountVolumeComplete, FsFails,
       Leave, Returned
  <2>2. CurrentInUse' /\ VpbNamesDevice'
    BY <1>1, <2>1 DEF CurrentInUse, VpbNamesDevice
  <2>3. \A x \in Vdos : Found(x)' <=> Found(x)
    BY <2>1 DEF Found, SfIsAttachedToDevice
  <2>4. InitializingIsMounting'
    <3> SUFFICES ASSUME NEW x \in Vdos, vdo[x] = "initializing"
                 PROVE  /\ vpb[Disk[x]] = x /\ pc'[Disk[x]] \in {"sent", "unseen"}
                        /\ pc'[Disk[x]] = "unseen" => Found(x)'
      BY <2>1 DEF InitializingIsMounting
    <3>1. vpb[Disk[x]] = x /\ pc[Disk[x]] \in {"sent", "unseen"}
      BY DEF InitializingIsMounting
    <3>2. Disk[x] # s
      BY <2>1, <3>1
    <3> QED BY <2>1, <2>3, <3>1, <3>2 DEF InitializingIsMounting
  <2>5. ASSUME NEW x \in Vdos PROVE Covered(x)'
    BY <2>1 DEF Covered, OnItsWay, SfIsAttachedToDevice
  <2> QED BY <2>2, <2>4, <2>5
<1>3. ASSUME NEW x \in Vdos, FsCreates(s, x) PROVE CInv'
  <2>1. CurrentInUse' /\ VpbNamesDevice'
    BY <1>1, <1>3 DEF CurrentInUse, VpbNamesDevice, FsCreates
  <2>2. \A y \in Vdos : (y # x /\ Found(y)) => Found(y)'
    BY <1>3 DEF Found, SfIsAttachedToDevice, FsCreates
  <2>3. InitializingIsMounting'
    BY <1>3, <2>2 DEF InitializingIsMounting, FsCreates, Found
  <2>4. ASSUME NEW y \in Vdos PROVE Covered(y)'
    BY <1>3 DEF Covered, OnItsWay, SfIsAttachedToDevice, FsCreates
  <2> QED BY <2>1, <2>3, <2>4
<1>4. CASE FsMounts(s)
  <2> PICK x \in Vdos : x = vpb[s]
    BY <1>4 DEF FsMounts
  <2>1. Disk[x] = s /\ vdo[x] \in {"initializing", "mounted"}
    BY DEF VpbOfDisk, VpbNamesDevice
  <2>2. CurrentInUse' /\ VpbNamesDevice'
    BY <1>1, <1>4 DEF CurrentInUse, VpbNamesDevice, FsMounts, Returned
  <2>3. \A y \in Vdos : Found(y)' <=> Found(y)
    BY <1>4 DEF Found, SfIsAttachedToDevice, FsMounts
  <2>4. InitializingIsMounting'
    BY <1>4, <2>1, <2>3 DEF InitializingIsMounting, FsMounts, Returned
  <2>5. ASSUME NEW y \in Vdos, y # x PROVE Covered(y)'
    BY <1>4, <2>1, <2>5 DEF Covered, OnItsWay, SfIsAttachedToDevice, FsMounts, Returned
  <2>6. Covered(x)'
    <3>1. CASE pc[s] = "sent"
      BY <1>4, <2>1, <3>1 DEF Covered, OnItsWay, SfIsAttachedToDevice, FsMounts, Returned
    <3>2. CASE pc[s] = "unseen"
      <4>1. Found(x)
        <5>1. CASE vdo[x] = "initializing"
          BY <2>1, <3>2, <5>1 DEF InitializingIsMounting
        <5>2. CASE vdo[x] = "mounted"
          BY <2>1, <3>2, <5>2 DEF Covered, OnItsWay, Found
        <5> QED BY <2>1, <5>1, <5>2
      <4> QED
        BY <1>4, <2>1, <4>1 DEF Covered, OnItsWay, SfIsAttachedToDevice, FsMounts, Found
    <3> QED BY <1>4, <3>1, <3>2 DEF FsMounts
  <2> QED BY <2>2, <2>4, <2>5, <2>6
<1>5. ASSUME NEW x \in Vdos, FsRemounts(s, x) PROVE CInv'
  <2>1. CurrentInUse' /\ VpbNamesDevice'
    BY <1>1, <1>5 DEF CurrentInUse, VpbNamesDevice, FsRemounts, Returned
  <2>2. \A y \in Vdos : Found(y)' <=> Found(y)
    BY <1>5 DEF Found, SfIsAttachedToDevice, FsRemounts
  <2>3. InitializingIsMounting'
    BY <1>5, <2>2 DEF InitializingIsMounting, FsRemounts, Returned
  <2>4. ASSUME NEW y \in Vdos PROVE Covered(y)'
    BY <1>5 DEF Covered, OnItsWay, SfIsAttachedToDevice, FsRemounts, Returned
  <2> QED BY <2>1, <2>3, <2>4
<1>6. CASE MediumRemoved(s)
  <2>1. CurrentInUse' /\ VpbNamesDevice'
    BY <1>6 DEF CurrentInUse, VpbNamesDevice, MediumRemoved
  <2>2. \A y \in Vdos : Found(y)' <=> Found(y)
    BY <1>6 DEF Found, SfIsAttachedToDevice, MediumRemoved
  <2>3. InitializingIsMounting'
    BY <1>6, <2>2 DEF InitializingIsMounting, MediumRemoved
  <2>4. ASSUME NEW y \in Vdos PROVE Covered(y)'
    BY <1>6 DEF Covered, OnItsWay, SfIsAttachedToDevice, MediumRemoved
  <2> QED BY <2>1, <2>3, <2>4
<1> QED BY <1>2, <1>3, <1>4, <1>5, <1>6 DEF FsAnswers

(* The enumeration. *)
LEMMA CoverNotification ==
  ASSUME IInv, CInv, KeptAll,
         \/ ListVolumes \/ ListingFails \/ EnumerationEnds
         \/ SfAttachToFileSystemDevice \/ SfDetachFromFileSystemDevice
         \/ \E x \in Vdos : SkipVolume(x) \/ TakeVolume(x)
  PROVE  CInv'
<1> USE StackAssumption DEF IInv, CInv, TypeOK, Threads, lockVars, volVars, threadVars
<1>1. /\ UNCHANGED volVars
      /\ \A s \in Storages : pc'[s] = pc[s]
      /\ VpbNamesDevice'
  BY DEF ListVolumes, ListingFails, EnumerationEnds, SfAttachToFileSystemDevice,
     SfDetachFromFileSystemDevice, SkipVolume, TakeVolume, VpbNamesDevice
<1>2. CurrentInUse'
  BY DEF ListVolumes, ListingFails, EnumerationEnds, SfAttachToFileSystemDevice,
     SfDetachFromFileSystemDevice, SkipVolume, TakeVolume, CurrentInUse
<1>3. \A x \in Vdos : (vdo[x] # "none" /\ Found(x)) => Found(x)'
  <2> SUFFICES ASSUME NEW x \in Vdos, vdo[x] # "none", Found(x) PROVE Found(x)'
    OBVIOUS
  <2>1. SfIsAttachedToDevice(x) => SfIsAttachedToDevice(x)'
    BY <1>1 DEF KeptAll
  <2> QED
    BY <2>1 DEF Found, ListVolumes, ListingFails, EnumerationEnds, SfAttachToFileSystemDevice,
       SfDetachFromFileSystemDevice, SkipVolume, TakeVolume, Remaining, CurrentInUse
<1>4. InitializingIsMounting'
  BY <1>1, <1>3 DEF InitializingIsMounting
<1>5. ASSUME NEW x \in Vdos PROVE Covered(x)'
  BY <1>1, <1>3 DEF Covered, OnItsWay, Found
<1> QED BY <1>1, <1>2, <1>4, <1>5

(* A device object goes, or another driver comes. *)
LEMMA CoverDismount ==
  ASSUME IInv, CInv, KeptAll,
         \/ \E x \in Vdos : Dismount(x)
         \/ \E d \in Vdos \union {Fs} : OtherAttaches(d)
         \/ UNCHANGED vars
  PROVE  CInv'
<1> USE StackAssumption DEF IInv, CInv, TypeOK, Threads, lockVars, volVars, threadVars
<1>1. ASSUME NEW x \in Vdos, Dismount(x) PROVE CInv'
  <2>1. CurrentInUse' /\ VpbNamesDevice'
    BY <1>1 DEF CurrentInUse, VpbNamesDevice, Dismount, VpbOfDisk
  <2>2. \A y \in Vdos : y # x => vdo'[y] = vdo[y] /\ (vpb[Disk[y]] = y => vpb'[Disk[y]] = y)
    BY <1>1 DEF Dismount
  <2>3. \A y \in Vdos : (y # x /\ vdo[y] # "none" /\ Found(y)) => Found(y)'
    BY <1>1, <2>2 DEF Found, Dismount, KeptAll
  <2>4. InitializingIsMounting'
    BY <1>1, <2>2, <2>3 DEF InitializingIsMounting, Dismount
  <2>5. ASSUME NEW y \in Vdos PROVE Covered(y)'
    BY <1>1, <2>2 DEF Covered, OnItsWay, KeptAll, Dismount
  <2> QED BY <2>1, <2>4, <2>5
<1>2. CASE (\E d \in Vdos \union {Fs} : OtherAttaches(d)) \/ UNCHANGED vars
  <2>1. UNCHANGED <<volVars, threadVars, excused>>
    BY <1>2 DEF OtherAttaches, vars
  <2>2. CurrentInUse' /\ VpbNamesDevice'
    BY <2>1 DEF CurrentInUse, VpbNamesDevice
  <2>3. \A y \in Vdos : (vdo[y] # "none" /\ Found(y)) => Found(y)'
    BY <2>1 DEF Found, KeptAll
  <2>4. InitializingIsMounting'
    BY <2>1, <2>3 DEF InitializingIsMounting
  <2>5. ASSUME NEW y \in Vdos PROVE Covered(y)'
    BY <2>1 DEF Covered, OnItsWay, KeptAll
  <2> QED BY <2>2, <2>4, <2>5
<1> QED BY <1>1, <1>2

(* Whatever mounts, enumerations, dismounts and other filters do, no       *)
(* mounted volume is left out: it is filtered, a thread is on its way to   *)
(* it, or it is one of those excused.                                      *)
THEOREM MountedCovered == Spec => []MountedIsFiltered
<1>1. Init => CInv
  BY StackAssumption DEF Init, CInv, CurrentInUse, VpbNamesDevice, InitializingIsMounting, Covered, Threads
<1>2. (IInv /\ CInv) /\ [Next]_vars => CInv'
  <2> SUFFICES ASSUME IInv, CInv, [Next]_vars PROVE CInv'
    OBVIOUS
  <2>1. KeptAll
    BY Kept DEF KeptAll
  <2> QED
    BY <2>1, CoverAttach, CoverMount, CoverNotification, CoverDismount
       DEF Next, MountThread, Notification, Threads
<1>3. CInv => MountedIsFiltered
  BY DEF CInv, Covered, MountedIsFiltered
<1> QED BY <1>1, <1>2, <1>3, StackInductive, PTL DEF Spec

-----------------------------------------------------------------------------
(* Filter devices.                                                         *)

Bases == Vdos \union {Fs}

Stacked(n) == \E d \in Bases : \E i \in DOMAIN stack[d] : stack[d][i] = n
Held(n) == \E t \in Threads : new[t] = n

LiveIsPlaced == \A n \in Own : n \in live <=> Stacked(n) \/ Held(n)

StackedOnce ==
  \A d, e \in Bases : \A i \in DOMAIN stack[d], j \in DOMAIN stack[e] :
    Mine(stack[d][i]) /\ stack[d][i] = stack[e][j] => d = e /\ i = j

HeldOnce == \A t, u \in Threads : new[t] \in Own /\ new[t] = new[u] => t = u

NotBoth == \A n \in Own : ~(Stacked(n) /\ Held(n))

Placed == LiveIsPlaced /\ StackedOnce /\ HeldOnce /\ NotBoth

(* The file system has one filter device, while its last notification was  *)
(* of an activation.                                                       *)
OneOverFs ==
  /\ SfIsAttachedToDevice(Fs) => fsActive
  /\ \A i, j \in DOMAIN stack[Fs] : Mine(stack[Fs][i]) /\ Mine(stack[Fs][j]) => i = j

(* A thread holds a device only on its way to attach it.                   *)
HeldOnTheWay == \A t \in Threads :
  pc[t] \notin {"sent", "mounted", "failed", "waiting", "attaching"} => new[t] = NoDevice

DInv == Placed /\ OneOverFs /\ HeldOnTheWay

-----------------------------------------------------------------------------
(* What can become of a device.                                            *)

(* It is created and held by a thread that held none. *)
LEMMA TakenInHand ==
  ASSUME TypeOK, Placed, NEW t \in Threads, new[t] = NoDevice,
         NEW n \in Own, n \notin live,
         live' = live \union {n}, new' = [new EXCEPT ![t] = n], UNCHANGED stack
  PROVE  Placed'
<1> USE StackAssumption DEF TypeOK, Placed
<1>1. ~Stacked(n) /\ ~Held(n)
  BY DEF LiveIsPlaced
<1>2. \A m : Stacked(m)' <=> Stacked(m)
  BY DEF Stacked
<1>3. \A m \in Own : Held(m)' <=> Held(m) \/ m = n
  BY DEF Held, Own
<1>4. LiveIsPlaced' /\ NotBoth'
  BY <1>1, <1>2, <1>3 DEF LiveIsPlaced, NotBoth
<1>5. StackedOnce'
  BY DEF StackedOnce, Mine
<1>6. HeldOnce'
  BY <1>1 DEF HeldOnce, Held
<1> QED BY <1>4, <1>5, <1>6

(* The thread that holds it deletes it. *)
LEMMA DeletedInHand ==
  ASSUME TypeOK, Placed, NEW t \in Threads, new[t] \in Own,
         live' = live \ {new[t]}, new' = [new EXCEPT ![t] = NoDevice], UNCHANGED stack
  PROVE  Placed'
<1> USE StackAssumption DEF TypeOK, Placed
<1>1. Held(new[t]) /\ ~Stacked(new[t])
  BY DEF Held, NotBoth
<1>2. \A m : Stacked(m)' <=> Stacked(m)
  BY DEF Stacked
<1>3. \A m \in Own : Held(m)' <=> Held(m) /\ m # new[t]
  BY DEF Held, HeldOnce, Own
<1>4. LiveIsPlaced' /\ NotBoth'
  BY <1>1, <1>2, <1>3 DEF LiveIsPlaced, NotBoth
<1>5. StackedOnce'
  BY DEF StackedOnce, Mine
<1>6. HeldOnce'
  BY DEF HeldOnce, Own
<1> QED BY <1>4, <1>5, <1>6

(* The positions of a stack on which a device is put. *)
LEMMA Pushed ==
  ASSUME TypeOK, NEW d \in Bases, NEW n \in Own \union {Other},
         stack' = [stack EXCEPT ![d] = Append(@, n)]
  PROVE  /\ DOMAIN stack'[d] = DOMAIN stack[d] \union {Len(stack[d]) + 1}
         /\ Len(stack[d]) + 1 \notin DOMAIN stack[d]
         /\ stack'[d][Len(stack[d]) + 1] = n
         /\ \A i \in DOMAIN stack[d] : stack'[d][i] = stack[d][i]
         /\ \A e \in Bases : e # d => stack'[e] = stack[e]
<1>1. stack[d] \in Seq(Own \union {Other}) /\ stack'[d] = Append(stack[d], n)
  BY DEF TypeOK, Bases
<1> QED BY <1>1 DEF TypeOK, Bases

(* A device that is nowhere is put on a stack. *)
LEMMA PushedOnce ==
  ASSUME TypeOK, NEW d \in Bases, NEW n \in Own \union {Other},
         n \in Own => ~Stacked(n), StackedOnce,
         stack' = [stack EXCEPT ![d] = Append(@, n)]
  PROVE  /\ StackedOnce'
         /\ \A m \in Own : Stacked(m)' <=> Stacked(m) \/ m = n
<1>1. \A e \in Bases : \A i \in DOMAIN stack'[e] :
        \/ i \in DOMAIN stack[e] /\ stack'[e][i] = stack[e][i]
        \/ e = d /\ i = Len(stack[d]) + 1 /\ stack'[e][i] = n
  BY Pushed
<1>2. StackedOnce'
  BY <1>1 DEF StackedOnce, Mine, Stacked
<1>3. \A m : Stacked(m) => Stacked(m)'
  BY Pushed DEF Stacked
<1>4. Stacked(n)'
  <2> DEFINE k == Len(stack[d]) + 1
  <2>1. k \in DOMAIN stack'[d] /\ stack'[d][k] = n
    BY Pushed
  <2> HIDE DEF k
  <2> QED BY <2>1 DEF Stacked
<1>5. \A m : Stacked(m)' => Stacked(m) \/ m = n
  BY <1>1 DEF Stacked
<1> QED BY <1>2, <1>3, <1>4, <1>5

(* A stack is cut off or goes: only the devices left in it stay.           *)
LEMMA CutOff ==
  ASSUME TypeOK, Placed, NEW d \in Bases, UNCHANGED new,
         \A e \in Bases : e # d => stack'[e] = stack[e],
         \A i \in DOMAIN stack'[d] : i \in DOMAIN stack[d] /\ stack'[d][i] = stack[d][i],
         \A n \in Own : n \in live' <=>
           n \in live /\ ((\E i \in DOMAIN stack[d] : stack[d][i] = n) =>
                            \E i \in DOMAIN stack'[d] : stack'[d][i] = n)
  PROVE  Placed'
<1> USE DEF Placed
<1>1. \A m : Held(m)' <=> Held(m)
  BY DEF Held
<1>2. \A m : Stacked(m)' => Stacked(m)
  BY DEF Stacked
<1>3. \A m \in Own : Stacked(m)' <=>
        Stacked(m) /\ ((\E i \in DOMAIN stack[d] : stack[d][i] = m) =>
                         \E i \in DOMAIN stack'[d] : stack'[d][i] = m)
  BY DEF Stacked, StackedOnce, Mine
<1>4. \A m \in Own : Held(m) => ~\E i \in DOMAIN stack[d] : stack[d][i] = m
  BY DEF NotBoth, Stacked
<1>5. LiveIsPlaced' /\ NotBoth'
  BY <1>1, <1>2, <1>3, <1>4 DEF LiveIsPlaced, NotBoth
<1>6. StackedOnce' /\ HeldOnce'
  BY DEF StackedOnce, HeldOnce, Mine
<1> QED BY <1>5, <1>6

LEMMA Untouched ==
  ASSUME Placed, UNCHANGED <<stack, live, new>>
  PROVE  Placed'
BY DEF Placed, LiveIsPlaced, Stacked, Held, StackedOnce, HeldOnce, NotBoth, Mine

-----------------------------------------------------------------------------
(* One lemma per group of actions.                                         *)

(* IoCreateDevice gives a device that is not live. *)
LEMMA CreatedNew == CanCreate => Created \in Own /\ Created \notin live
BY DEF CanCreate, Created

(* Actions that leave every device where it is. *)
LEMMA DevicesStay ==
  ASSUME IInv, DInv,
         \/ \E t \in Threads : AcquireAttachLock(t) \/ RetryAttach(t)
         \/ \E s \in Storages : MountUnseen(s) \/ FsAnswers(s) \/ MediumRemoved(s)
         \/ \E s \in Storages : SfFsControlMountVolumeComplete(s) /\ pc[s] = "mounted"
         \/ ListVolumes \/ EnumerationEnds \/ \E x \in Vdos : SkipVolume(x)
         \/ UNCHANGED vars
  PROVE  DInv'
<1> USE StackAssumption DEF IInv, TypeOK, Threads, volVars, threadVars, lockVars
<1>1. UNCHANGED <<stack, live, new, fsActive>>
  BY DEF AcquireAttachLock, RetryAttach, MountUnseen, FsAnswers, FsCreates, FsMounts, FsRemounts,
     FsFails, MediumRemoved, SfFsControlMountVolumeComplete, ListVolumes, EnumerationEnds,
     SkipVolume, vars
<1>2. Placed' /\ OneOverFs'
  BY <1>1, Untouched DEF DInv, OneOverFs, SfIsAttachedToDevice, Mine
<1>3. ASSUME NEW t \in Threads
      PROVE  pc'[t] \notin {"sent", "mounted", "failed", "waiting", "attaching"}
               => pc[t] \notin {"sent", "mounted", "failed", "waiting", "attaching"}
  BY DEF AcquireAttachLock, RetryAttach, MountUnseen, FsAnswers, FsCreates, FsMounts, FsRemounts,
     FsFails, Returned, MediumRemoved, SfFsControlMountVolumeComplete, ListVolumes,
     EnumerationEnds, SkipVolume, vars
<1>4. HeldOnTheWay'
  BY <1>1, <1>3 DEF DInv, HeldOnTheWay
<1> QED BY <1>2, <1>4 DEF DInv

(* A thread makes a device for a volume. *)
LEMMA DeviceMade ==
  ASSUME IInv, DInv,
         \/ \E s \in Storages : SfFsControlMountVolume(s)
         \/ \E x \in Vdos : TakeVolume(x)
  PROVE  DInv'
<1> USE StackAssumption DEF IInv, TypeOK, Threads, volVars, threadVars, lockVars
<1>1. PICK t \in Threads :
        /\ pc[t] \in {"idle", "enumerating"} /\ CanCreate
        /\ live' = live \union {Created} /\ new' = [new EXCEPT ![t] = Created]
        /\ pc' = [pc EXCEPT ![t] = pc'[t]] /\ pc'[t] \in {"sent", "waiting"}
        /\ UNCHANGED <<stack, fsActive>>
  <2>1. ASSUME NEW s \in Storages, SfFsControlMountVolume(s)
        PROVE  /\ pc[s] = "idle" /\ CanCreate
               /\ live' = live \union {Created} /\ new' = [new EXCEPT ![s] = Created]
               /\ pc' = [pc EXCEPT ![s] = pc'[s]] /\ pc'[s] = "sent"
               /\ UNCHANGED <<stack, fsActive>>
    BY <2>1 DEF SfFsControlMountVolume
  <2>2. ASSUME NEW x \in Vdos, TakeVolume(x)
        PROVE  /\ pc[Notifier] = "enumerating" /\ CanCreate
               /\ live' = live \union {Created} /\ new' = [new EXCEPT ![Notifier] = Created]
               /\ pc' = [pc EXCEPT ![Notifier] = pc'[Notifier]] /\ pc'[Notifier] = "waiting"
               /\ UNCHANGED <<stack, fsActive>>
    BY <2>2 DEF TakeVolume
  <2> QED BY <2>1, <2>2
<1>2. new[t] = NoDevice
  BY <1>1 DEF DInv, HeldOnTheWay
<1>3. Placed'
  BY <1>1, <1>2, CreatedNew, TakenInHand DEF DInv
<1>4. OneOverFs' /\ HeldOnTheWay'
  BY <1>1 DEF DInv, OneOverFs, HeldOnTheWay, SfIsAttachedToDevice, Mine
<1> QED BY <1>3, <1>4 DEF DInv

(* A thread deletes its device: the volume had one, would not take it, or  *)
(* was not mounted.                                                        *)
LEMMA DeviceDropped ==
  ASSUME IInv, DInv,
         \/ \E t \in Threads : AlreadyAttached(t) \/ GiveUpAttach(t)
         \/ \E s \in Storages : SfFsControlMountVolumeComplete(s) /\ pc[s] # "mounted"
  PROVE  DInv'
<1>1. PICK t \in Threads :
        /\ \/ pc[t] \in {"waiting", "attaching"}
           \/ t \in Storages /\ pc[t] = "failed"
        /\ live' = live \ {new[t]} /\ Leave(t) /\ UNCHANGED <<stack, fsActive>>
  <2>1. ASSUME NEW t \in Threads, AlreadyAttached(t) \/ GiveUpAttach(t)
        PROVE  /\ pc[t] \in {"waiting", "attaching"}
               /\ live' = live \ {new[t]} /\ Leave(t) /\ UNCHANGED <<stack, fsActive>>
    BY <2>1 DEF AlreadyAttached, GiveUpAttach
  <2>2. ASSUME NEW s \in Storages, SfFsControlMountVolumeComplete(s), pc[s] # "mounted"
        PROVE  /\ pc[s] = "failed"
               /\ live' = live \ {new[s]} /\ Leave(s) /\ UNCHANGED <<stack, fsActive>>
    BY <2>2 DEF SfFsControlMountVolumeComplete
  <2>3. CASE \E t \in Threads : AlreadyAttached(t) \/ GiveUpAttach(t)
    <3>1. PICK t \in Threads : AlreadyAttached(t) \/ GiveUpAttach(t)
      BY <2>3
    <3> QED BY <2>1, <3>1
  <2>4. CASE \E s \in Storages : SfFsControlMountVolumeComplete(s) /\ pc[s] # "mounted"
    <3>1. PICK s \in Storages : SfFsControlMountVolumeComplete(s) /\ pc[s] # "mounted"
      BY <2>4
    <3>2. s \in Threads /\ pc[s] = "failed" /\ live' = live \ {new[s]}
          /\ Leave(s) /\ UNCHANGED <<stack, fsActive>>
      BY <2>2, <3>1 DEF Threads
    <3> QED BY <3>1, <3>2
  <2> QED BY <2>3, <2>4
<1> USE StackAssumption DEF IInv, TypeOK, Threads, volVars, threadVars, lockVars
<1>2. new[t] \in Own
  BY <1>1 DEF Equipped
<1>3. Placed'
  BY <1>1, <1>2, DeletedInHand DEF DInv, Leave
<1>4. OneOverFs' /\ HeldOnTheWay'
  BY <1>1 DEF DInv, OneOverFs, HeldOnTheWay, SfIsAttachedToDevice, Mine, Leave
<1> QED BY <1>3, <1>4 DEF DInv

(* A thread attaches its device. *)
LEMMA DeviceAttached ==
  ASSUME IInv, DInv, NEW t \in Threads, SfAttachToMountedDevice(t)
  PROVE  DInv'
<1> USE StackAssumption DEF IInv, TypeOK, Threads, volVars, threadVars, lockVars
<1>1. new[t] \in Own /\ Target(t) \in Vdos
  BY DEF SfAttachToMountedDevice, Equipped, Target
<1>2. Held(new[t]) /\ ~Stacked(new[t])
  BY <1>1 DEF DInv, Placed, NotBoth, Held
<1>3. PICK d \in Bases : d = Target(t) /\ d # Fs
  BY <1>1 DEF Bases
<1>4. PICK n \in Own : n = new[t]
  BY <1>1
<1>5. /\ stack' = [stack EXCEPT ![d] = Append(@, n)]
      /\ new' = [new EXCEPT ![t] = NoDevice] /\ Leave(t) /\ UNCHANGED <<live, fsActive>>
  BY <1>3, <1>4 DEF SfAttachToMountedDevice, Leave
<1>6. StackedOnce' /\ \A m \in Own : Stacked(m)' <=> Stacked(m) \/ m = n
  BY <1>2, <1>4, <1>5, PushedOnce DEF DInv, Placed
<1>7. \A m \in Own : Held(m)' <=> Held(m) /\ m # n
  BY <1>4, <1>5 DEF Held, HeldOnce, Own, DInv, Placed
<1>8. LiveIsPlaced' /\ NotBoth'
  BY <1>2, <1>4, <1>5, <1>6, <1>7 DEF LiveIsPlaced, NotBoth, DInv, Placed
<1>9. HeldOnce'
  BY <1>5 DEF HeldOnce, Own, DInv, Placed
<1>10. stack'[Fs] = stack[Fs]
  BY <1>3, <1>5
<1>11. OneOverFs' /\ HeldOnTheWay'
  BY <1>5, <1>10 DEF DInv, OneOverFs, HeldOnTheWay, SfIsAttachedToDevice, Mine, Leave
<1> QED BY <1>6, <1>8, <1>9, <1>11 DEF DInv, Placed

(* The file system gets its device, or the other driver puts its own on a  *)
(* stack.                                                                  *)
LEMMA DevicePushed ==
  ASSUME IInv, DInv,
         SfAttachToFileSystemDevice \/ \E d \in Bases : OtherAttaches(d)
  PROVE  DInv'
<1> USE StackAssumption DEF IInv, TypeOK, Threads, volVars, threadVars, lockVars
<1>1. CASE /\ SfAttachToFileSystemDevice
           /\ live' = live \union {Created}
           /\ stack' = [stack EXCEPT ![Fs] = Append(@, Created)]
           /\ CanCreate
  <2>1. PICK n \in Own : n = Created /\ n \notin live
    BY <1>1, CreatedNew
  <2>2. ~Stacked(n) /\ ~Held(n) /\ Fs \in Bases
    BY <2>1 DEF DInv, Placed, LiveIsPlaced, Bases
  <2>3. StackedOnce' /\ \A m \in Own : Stacked(m)' <=> Stacked(m) \/ m = n
    BY <1>1, <2>1, <2>2, PushedOnce DEF DInv, Placed
  <2>4. UNCHANGED new /\ fsActive' = TRUE /\ ~fsActive
    BY <1>1 DEF SfAttachToFileSystemDevice
  <2>5. \A m : Held(m)' <=> Held(m)
    BY <2>4 DEF Held
  <2>6. Placed'
    BY <1>1, <2>1, <2>2, <2>3, <2>4, <2>5
       DEF DInv, Placed, LiveIsPlaced, NotBoth, HeldOnce
  <2>7. \A i \in DOMAIN stack[Fs] : ~Mine(stack[Fs][i])
    BY <2>4 DEF DInv, OneOverFs, SfIsAttachedToDevice
  <2>8. \A i \in DOMAIN stack'[Fs] :
          Mine(stack'[Fs][i]) => i = Len(stack[Fs]) + 1
    BY <1>1, <2>1, <2>2, <2>7, Pushed DEF Mine
  <2>9. OneOverFs'
    BY <2>4, <2>8 DEF OneOverFs, Mine
  <2>10. HeldOnTheWay'
    BY <1>1, <2>4 DEF SfAttachToFileSystemDevice, HeldOnTheWay, DInv
  <2> QED BY <2>6, <2>9, <2>10 DEF DInv
<1>2. CASE SfAttachToFileSystemDevice /\ UNCHANGED <<stack, live, pc>>
  <2>1. UNCHANGED <<stack, live, pc, new>> /\ fsActive' = TRUE
    BY <1>2 DEF SfAttachToFileSystemDevice
  <2> QED
    BY <2>1, Untouched DEF DInv, OneOverFs, HeldOnTheWay, Mine, SfIsAttachedToDevice
<1>3. ASSUME NEW d \in Bases, OtherAttaches(d) PROVE DInv'
  <2>1. Other \notin Own /\ ~Mine(Other)
    BY DEF Own, Mine
  <2>2. /\ stack' = [stack EXCEPT ![d] = Append(@, Other)]
        /\ UNCHANGED <<live, new, pc, fsActive>>
    BY <1>3 DEF OtherAttaches
  <2>3. StackedOnce' /\ \A m \in Own : Stacked(m)' <=> Stacked(m)
    BY <2>1, <2>2, PushedOnce DEF DInv, Placed
  <2>4. \A m : Held(m)' <=> Held(m)
    BY <2>2 DEF Held
  <2>5. Placed'
    BY <2>2, <2>3, <2>4 DEF DInv, Placed, LiveIsPlaced, NotBoth, HeldOnce
  <2>6. \A i \in DOMAIN stack'[Fs] :
          Mine(stack'[Fs][i]) => i \in DOMAIN stack[Fs] /\ stack'[Fs][i] = stack[Fs][i]
    <3>1. CASE d = Fs
      BY <2>1, <2>2, <3>1, Pushed DEF Mine
    <3>2. CASE d # Fs
      BY <2>2, <3>2, Pushed DEF Bases
    <3> QED BY <3>1, <3>2
  <2>7. OneOverFs' /\ HeldOnTheWay'
    BY <2>2, <2>6 DEF DInv, OneOverFs, HeldOnTheWay, SfIsAttachedToDevice, Mine
  <2> QED BY <2>5, <2>7 DEF DInv
<1> QED BY <1>1, <1>2, <1>3 DEF SfAttachToFileSystemDevice

(* The file system loses its device, and all that lies over it. *)
LEMMA FsCutOff ==
  ASSUME IInv, DInv, SfIsAttachedToDevice(Fs), TakeDownFrom(Fs), UNCHANGED new
  PROVE  Placed' /\ \A i \in DOMAIN stack'[Fs] : ~Mine(stack'[Fs][i])
<1> USE StackAssumption DEF IInv, TypeOK
<1>1. PICK p \in DOMAIN stack[Fs] : p = PositionOf(Fs) /\ Mine(stack[Fs][p])
  BY DEF SfIsAttachedToDevice, PositionOf
<1>2. stack[Fs] \in Seq(Own \union {Other}) /\ p \in 1 .. Len(stack[Fs])
  BY <1>1
<1>3. stack'[Fs] = SubSeq(stack[Fs], 1, p - 1) /\ live' = live \ {stack[Fs][p]}
  BY <1>1 DEF TakeDownFrom
<1>4. /\ \A i \in DOMAIN stack'[Fs] : i \in 1 .. (p - 1) /\ stack'[Fs][i] = stack[Fs][i]
      /\ \A i \in DOMAIN stack'[Fs] : i \in DOMAIN stack[Fs] /\ i # p
  BY <1>2, <1>3
<1>5. \A i \in DOMAIN stack[Fs] : Mine(stack[Fs][i]) => i = p
  BY <1>1 DEF DInv, OneOverFs
<1>6. \A i \in DOMAIN stack'[Fs] : ~Mine(stack'[Fs][i])
  BY <1>4, <1>5 DEF Mine
<1>7. Fs \in Bases /\ \A e \in Bases : e # Fs => stack'[e] = stack[e]
  BY DEF TakeDownFrom, Bases
<1>8. \A n \in Own : n \in live' <=>
        n \in live /\ ((\E i \in DOMAIN stack[Fs] : stack[Fs][i] = n) =>
                         \E i \in DOMAIN stack'[Fs] : stack'[Fs][i] = n)
  <2> SUFFICES ASSUME NEW n \in Own
               PROVE  n = stack[Fs][p] <=>
                        /\ \E i \in DOMAIN stack[Fs] : stack[Fs][i] = n
                        /\ ~\E i \in DOMAIN stack'[Fs] : stack'[Fs][i] = n
    BY <1>3
  <2> QED BY <1>1, <1>5, <1>6 DEF Mine
<1> QED BY ZenonT(40), <1>4, <1>6, <1>7, <1>8, CutOff DEF DInv

(* Stacks go with the device objects below them.                           *)
LEMMA DevicesGone ==
  ASSUME IInv, DInv,
         ListingFails \/ SfDetachFromFileSystemDevice \/ \E x \in Vdos : Dismount(x)
  PROVE  DInv'
<1> USE StackAssumption DEF IInv, TypeOK, Threads, volVars, threadVars, lockVars
<1>1. CASE ListingFails
  <2>1. SfIsAttachedToDevice(Fs) /\ TakeDownFrom(Fs) /\ UNCHANGED <<new, fsActive>>
        /\ pc[Notifier] = "listing" /\ pc' = [pc EXCEPT ![Notifier] = "idle"]
    BY <1>1 DEF ListingFails, ListingIsAttached
  <2>2. Placed' /\ \A i \in DOMAIN stack'[Fs] : ~Mine(stack'[Fs][i])
    BY <2>1, FsCutOff
  <2>3. OneOverFs' /\ HeldOnTheWay'
    BY <2>1, <2>2 DEF DInv, OneOverFs, HeldOnTheWay, SfIsAttachedToDevice, Mine
  <2> QED BY <2>2, <2>3 DEF DInv
<1>2. CASE SfDetachFromFileSystemDevice
  <2>1. UNCHANGED <<new, pc>>
    BY <1>2 DEF SfDetachFromFileSystemDevice
  <2>2. Placed' /\ \A i \in DOMAIN stack'[Fs] : ~Mine(stack'[Fs][i])
    <3>1. CASE SfIsAttachedToDevice(Fs)
      <4>1. TakeDownFrom(Fs)
        BY <1>2, <3>1 DEF SfDetachFromFileSystemDevice
      <4> QED BY <2>1, <3>1, <4>1, FsCutOff
    <3>2. CASE ~SfIsAttachedToDevice(Fs)
      <4>1. UNCHANGED <<stack, live>>
        BY <1>2, <3>2 DEF SfDetachFromFileSystemDevice
      <4> QED BY <2>1, <3>2, <4>1, Untouched DEF DInv, SfIsAttachedToDevice, Mine
    <3> QED BY <3>1, <3>2
  <2>3. OneOverFs' /\ HeldOnTheWay'
    BY <2>1, <2>2 DEF DInv, OneOverFs, HeldOnTheWay, SfIsAttachedToDevice, Mine
  <2> QED BY <2>2, <2>3 DEF DInv
<1>3. ASSUME NEW x \in Vdos, Dismount(x) PROVE DInv'
  <2>1. /\ live' = live \ ToSet(stack[x]) /\ stack' = [stack EXCEPT ![x] = <<>>]
        /\ UNCHANGED <<new, pc, fsActive>>
    BY <1>3 DEF Dismount, SfFastIoDetachDevice
  <2>2. stack'[x] = <<>> /\ \A e \in Bases : e # x => stack'[e] = stack[e]
    BY <2>1 DEF Bases
  <2>3. DOMAIN stack'[x] = {} /\ x \in Bases
    BY <2>2 DEF Bases
  <2>4. \A n : n \in ToSet(stack[x]) <=> \E i \in DOMAIN stack[x] : stack[x][i] = n
    BY DEF ToSet
  <2>5. Placed'
    <3>1. \A n \in Own : n \in live' <=>
            n \in live /\ ((\E i \in DOMAIN stack[x] : stack[x][i] = n) =>
                             \E i \in DOMAIN stack'[x] : stack'[x][i] = n)
      BY <2>1, <2>3, <2>4
    <3> QED BY <2>1, <2>2, <2>3, <3>1, CutOff DEF DInv
  <2>6. stack'[Fs] = stack[Fs]
    BY <2>2 DEF Bases
  <2>7. OneOverFs' /\ HeldOnTheWay'
    BY <2>1, <2>6 DEF DInv, OneOverFs, HeldOnTheWay, SfIsAttachedToDevice, Mine
  <2> QED BY <2>5, <2>7 DEF DInv
<1> QED BY <1>1, <1>2, <1>3

-----------------------------------------------------------------------------
(* No device leaks on an error path, none is deleted while it lies in a    *)
(* stack, and none is in two places.                                       *)
THEOREM DevicesKept == Spec => []DevicesAccountedFor
<1>1. Init => DInv
  <2> SUFFICES ASSUME Init PROVE DInv
    OBVIOUS
  <2>1. \A d \in Bases : stack[d] = <<>>
    BY DEF Init, Bases
  <2>2. \A d \in Bases : DOMAIN stack[d] = {}
    BY <2>1
  <2>3. \A t \in Threads : new[t] = NoDevice /\ NoDevice \notin Own
    BY StackAssumption DEF Init, Own
  <2> QED
    BY <2>2, <2>3 DEF Init, DInv, Placed, LiveIsPlaced, StackedOnce, HeldOnce, NotBoth, Stacked,
       Held, OneOverFs, HeldOnTheWay, SfIsAttachedToDevice, Bases
<1>2. (IInv /\ DInv) /\ [Next]_vars => DInv'
  <2> SUFFICES ASSUME IInv, DInv, [Next]_vars PROVE DInv'
    OBVIOUS
  <2> QED
    BY DevicesStay, DeviceMade, DeviceDropped, DeviceAttached, DevicePushed, DevicesGone
       DEF Next, Lock, Attach, MountThread, Notification, Threads, Bases
<1>3. DInv => DevicesAccountedFor
  <2> SUFFICES ASSUME DInv, NEW n \in Own
               PROVE  IF n \in live THEN \E p \in Places(n) : Places(n) = {p}
                                   ELSE Places(n) = {}
    BY DEF DevicesAccountedFor
  <2>1. \A d \in Bases : \A p : p \in Positions(d, n) <=>
          \E i \in DOMAIN stack[d] : stack[d][i] = n /\ p = <<d, i>>
    BY DEF Positions
  <2>2. \A p : p \in Hands(n) <=> \E t \in Threads : new[t] = n /\ p = <<t>>
    BY DEF Hands
  <2>3. \A p : p \in Places(n) <=> p \in Hands(n) \/ \E d \in Bases : p \in Positions(d, n)
    BY DEF Places, Bases
  <2>4. \A p \in Places(n) :
          \/ \E d \in Bases : \E i \in DOMAIN stack[d] : stack[d][i] = n /\ p = <<d, i>>
          \/ \E t \in Threads : new[t] = n /\ p = <<t>>
    BY <2>1, <2>2, <2>3
  <2>5. \A d \in Bases : \A i \in DOMAIN stack[d] : stack[d][i] = n => <<d, i>> \in Places(n)
    BY <2>1, <2>3
  <2>6. \A t \in Threads : new[t] = n => <<t>> \in Places(n)
    BY <2>2, <2>3
  <2>7. n \in live <=> Places(n) # {}
    BY <2>4, <2>5, <2>6 DEF DInv, Placed, LiveIsPlaced, Stacked, Held
  <2>8. \A p, q \in Places(n) : p = q
    <3> SUFFICES ASSUME NEW p \in Places(n), NEW q \in Places(n) PROVE p = q
      OBVIOUS
    <3>1. CASE Stacked(n)
      <4>1. ~Held(n)
        BY <3>1 DEF DInv, Placed, NotBoth
      <4> QED BY <2>4, <4>1 DEF Held, DInv, Placed, StackedOnce, Mine
    <3>2. CASE ~Stacked(n)
      BY <2>4, <3>2 DEF Stacked, DInv, Placed, HeldOnce
    <3> QED BY <3>1, <3>2
  <2> QED BY <2>7, <2>8
<1> QED BY <1>1, <1>2, <1>3, StackInductive, PTL DEF Spec
==============================================================================
