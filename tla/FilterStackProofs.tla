-------------------------- MODULE FilterStackProofs --------------------------
(* Machine-checked: a volume never has two filter devices, for any number  *)
(* of storage devices, volumes, filter devices and attempts.               *)
EXTENDS FilterStack, SequenceTheorems, TLAPS

-----------------------------------------------------------------------------
(* The inductive invariant. *)

(* A thread that has come as far as to attach has a device to attach and a *)
(* volume to attach it to.                                                 *)
Equipped ==
  /\ \A s \in Storages :
       /\ pc[s] \in {"sent", "mounted", "failed", "waiting", "attaching"}
            => new[s] \in Own
       /\ pc[s] \in {"mounted", "waiting", "attaching"} => vpb[s] \in Vdos
  /\ pc[Notifier] \in {"waiting", "attaching"}
       => new[Notifier] \in Own /\ current \in Vdos

(* A parameter block names a volume of its own storage device. *)
VpbOfDisk == \A s \in Storages : vpb[s] \in Vdos => Disk[vpb[s]] = s

(* What the holder of the lock has found free stays free. *)
HolderMeetsNone ==
  \A t \in Threads : pc[t] = "attaching" => ~SfIsAttachedToDevice(Target(t))

(* The notification thread lists volumes from under a filter device. *)
ListingIsAttached == pc[Notifier] = "listing" => SfIsAttachedToDevice(Fs)

IInv ==
  /\ TypeOK /\ OneFilterPerVolume
  /\ Equipped /\ VpbOfDisk /\ HolderMeetsNone /\ ListingIsAttached

-----------------------------------------------------------------------------
(* Facts about stacks. *)

(* A stack cut off at a position is still a stack. *)
LEMMA CutType ==
  ASSUME NEW S, NEW q \in Seq(S), NEW i \in 1 .. Len(q)
  PROVE  SubSeq(q, 1, i - 1) \in Seq(S)
<1>1. i - 1 \in 0 .. Len(q)
  OBVIOUS
<1>2. \A j \in 1 .. (i - 1) : q[j] \in S
  OBVIOUS
<1> QED
  BY <1>1, <1>2, SubSeqProperties

(* IoCreateDevice gives a device of the driver. *)
LEMMA CreatedType == CanCreate => Created \in Own
BY DEF CanCreate, Created

(* Taking the filter device from over d leaves the other stacks alone. *)
LEMMA TakeDownType ==
  ASSUME TypeOK, NEW d \in Vdos \union {Fs}, SfIsAttachedToDevice(d),
         TakeDownFrom(d)
  PROVE  /\ stack' \in [Vdos \union {Fs} -> Seq(Own \union {Other})]
         /\ live' \subseteq Own
         /\ \A e \in Vdos \union {Fs} : e # d => stack'[e] = stack[e]
<1> DEFINE S == Own \union {Other}
<1>1. stack[d] \in Seq(S)
  BY DEF TypeOK
<1>2. PositionOf(d) \in 1 .. Len(stack[d])
  BY <1>1 DEF SfIsAttachedToDevice, PositionOf
<1>3. SubSeq(stack[d], 1, PositionOf(d) - 1) \in Seq(S)
  BY <1>1, <1>2, CutType
<1> QED
  BY <1>3 DEF TypeOK, TakeDownFrom

-----------------------------------------------------------------------------
(* IInv holds initially. *)
LEMMA InitIInv == ASSUME Init PROVE IInv
<1> USE StackAssumption DEF Init
<1>0. <<>> \in Seq(Own \union {Other}) /\ tries \in 0 .. MaxTries - 1
  OBVIOUS
<1>1. TypeOK
  BY <1>0 DEF TypeOK, Threads
<1>2. OneFilterPerVolume
  BY DEF OneFilterPerVolume
<1>3. Equipped /\ VpbOfDisk /\ HolderMeetsNone /\ ListingIsAttached
  BY DEF Equipped, VpbOfDisk, HolderMeetsNone, ListingIsAttached, Threads
<1> QED
  BY <1>1, <1>2, <1>3 DEF IInv
-----------------------------------------------------------------------------
(* Every action keeps it. *)

LEMMA AlreadyAttachedStep ==
  ASSUME IInv, NEW t \in Threads, AlreadyAttached(t)
  PROVE  IInv'
<1> USE StackAssumption DEF IInv, Threads
<1>1. TypeOK'
  BY DEF AlreadyAttached, Leave, Target, volVars, lockVars, AfterAttach, TypeOK
<1>2. OneFilterPerVolume'
  BY DEF AlreadyAttached, Leave, Target, volVars, lockVars, AfterAttach, OneFilterPerVolume, TypeOK
<1>3. Equipped'
  BY DEF AlreadyAttached, Leave, Target, volVars, lockVars, AfterAttach, Equipped, TypeOK
<1>4. VpbOfDisk'
  BY DEF AlreadyAttached, Leave, Target, volVars, lockVars, AfterAttach, VpbOfDisk, TypeOK
<1>5. HolderMeetsNone'
  BY DEF AlreadyAttached, Leave, Target, volVars, lockVars, AfterAttach, HolderMeetsNone, TypeOK, SfIsAttachedToDevice, Equipped
<1>6. ListingIsAttached'
  BY DEF AlreadyAttached, Leave, Target, volVars, lockVars, AfterAttach, ListingIsAttached, TypeOK, SfIsAttachedToDevice
<1> QED
  BY <1>1, <1>2, <1>3, <1>4, <1>5, <1>6

LEMMA AcquireAttachLockStep ==
  ASSUME IInv, NEW t \in Threads, AcquireAttachLock(t)
  PROVE  IInv'
<1> USE StackAssumption DEF IInv, Threads
<1>1. TypeOK'
  BY DEF AcquireAttachLock, StillFree, volVars, Target, TypeOK
<1>2. OneFilterPerVolume'
  BY DEF AcquireAttachLock, StillFree, volVars, Target, OneFilterPerVolume, TypeOK
<1>3. Equipped'
  BY DEF AcquireAttachLock, StillFree, volVars, Target, Equipped, TypeOK
<1>4. VpbOfDisk'
  BY DEF AcquireAttachLock, StillFree, volVars, Target, VpbOfDisk, TypeOK
<1>5. HolderMeetsNone'
  BY DEF AcquireAttachLock, StillFree, volVars, Target, HolderMeetsNone, TypeOK, SfIsAttachedToDevice, Equipped
<1>6. ListingIsAttached'
  BY DEF AcquireAttachLock, StillFree, volVars, Target, ListingIsAttached, TypeOK, SfIsAttachedToDevice
<1> QED
  BY <1>1, <1>2, <1>3, <1>4, <1>5, <1>6

LEMMA RetryAttachStep ==
  ASSUME IInv, NEW t \in Threads, RetryAttach(t)
  PROVE  IInv'
<1> USE StackAssumption DEF IInv, Threads
<1>1. TypeOK'
  BY DEF RetryAttach, Target, Attachable, NextTry, volVars, threadVars, TypeOK
<1>2. OneFilterPerVolume'
  BY DEF RetryAttach, Target, Attachable, NextTry, volVars, threadVars, OneFilterPerVolume, TypeOK
<1>3. Equipped'
  BY DEF RetryAttach, Target, Attachable, NextTry, volVars, threadVars, Equipped, TypeOK
<1>4. VpbOfDisk'
  BY DEF RetryAttach, Target, Attachable, NextTry, volVars, threadVars, VpbOfDisk, TypeOK
<1>5. HolderMeetsNone'
  BY DEF RetryAttach, Target, Attachable, NextTry, volVars, threadVars, HolderMeetsNone, TypeOK, SfIsAttachedToDevice, Equipped
<1>6. ListingIsAttached'
  BY DEF RetryAttach, Target, Attachable, NextTry, volVars, threadVars, ListingIsAttached, TypeOK, SfIsAttachedToDevice
<1> QED
  BY <1>1, <1>2, <1>3, <1>4, <1>5, <1>6

LEMMA GiveUpAttachStep ==
  ASSUME IInv, NEW t \in Threads, GiveUpAttach(t)
  PROVE  IInv'
<1> USE StackAssumption DEF IInv, Threads
<1>1. TypeOK'
  BY DEF GiveUpAttach, Leave, Target, Attachable, ReleaseAfterFailure, volVars, AfterAttach, TypeOK,
         Equipped
<1>2. OneFilterPerVolume'
  BY DEF GiveUpAttach, Leave, Target, Attachable, ReleaseAfterFailure, volVars, AfterAttach, OneFilterPerVolume, TypeOK
<1>3. Equipped'
  BY DEF GiveUpAttach, Leave, Target, Attachable, ReleaseAfterFailure, volVars, AfterAttach, Equipped, TypeOK
<1>4. VpbOfDisk'
  BY DEF GiveUpAttach, Leave, Target, Attachable, ReleaseAfterFailure, volVars, AfterAttach, VpbOfDisk, TypeOK
<1>5. HolderMeetsNone'
  BY DEF GiveUpAttach, Leave, Target, Attachable, ReleaseAfterFailure, volVars, AfterAttach, HolderMeetsNone, TypeOK, SfIsAttachedToDevice, Equipped
<1>6. ListingIsAttached'
  BY DEF GiveUpAttach, Leave, Target, Attachable, ReleaseAfterFailure, volVars, AfterAttach, ListingIsAttached, TypeOK, SfIsAttachedToDevice
<1> QED
  BY <1>1, <1>2, <1>3, <1>4, <1>5, <1>6

LEMMA SfFsControlMountVolumeStep ==
  ASSUME IInv, NEW s \in Storages, SfFsControlMountVolume(s)
  PROVE  IInv'
<1> USE StackAssumption DEF IInv, Threads
<1>1. TypeOK'
  BY CreatedType DEF SfFsControlMountVolume, volVars, lockVars, TypeOK
<1>2. OneFilterPerVolume'
  BY CreatedType DEF SfFsControlMountVolume, volVars, lockVars,
     OneFilterPerVolume, TypeOK
<1>3. Equipped'
  BY CreatedType DEF SfFsControlMountVolume, volVars, lockVars, Equipped,
     TypeOK, Target
<1>4. VpbOfDisk'
  BY CreatedType DEF SfFsControlMountVolume, volVars, lockVars, VpbOfDisk,
     TypeOK
<1>5. HolderMeetsNone'
  BY CreatedType DEF SfFsControlMountVolume, volVars, lockVars,
     HolderMeetsNone, TypeOK, SfIsAttachedToDevice, Equipped, Target
<1>6. ListingIsAttached'
  BY CreatedType DEF SfFsControlMountVolume, volVars, lockVars,
     ListingIsAttached, TypeOK, SfIsAttachedToDevice
<1> QED
  BY <1>1, <1>2, <1>3, <1>4, <1>5, <1>6

LEMMA MountUnseenStep ==
  ASSUME IInv, NEW s \in Storages, MountUnseen(s)
  PROVE  IInv'
<1> USE StackAssumption DEF IInv, Threads
<1>1. TypeOK'
  BY DEF MountUnseen, volVars, lockVars, TypeOK
<1>2. OneFilterPerVolume'
  BY DEF MountUnseen, volVars, lockVars, OneFilterPerVolume, TypeOK
<1>3. Equipped'
  BY DEF MountUnseen, volVars, lockVars, Equipped, TypeOK, Target
<1>4. VpbOfDisk'
  BY DEF MountUnseen, volVars, lockVars, VpbOfDisk, TypeOK
<1>5. HolderMeetsNone'
  BY DEF MountUnseen, volVars, lockVars, HolderMeetsNone, TypeOK, SfIsAttachedToDevice, Equipped, Target
<1>6. ListingIsAttached'
  BY DEF MountUnseen, volVars, lockVars, ListingIsAttached, TypeOK, SfIsAttachedToDevice
<1> QED
  BY <1>1, <1>2, <1>3, <1>4, <1>5, <1>6

LEMMA FsCreatesStep ==
  ASSUME IInv, NEW s \in Storages, NEW x \in Vdos, FsCreates(s, x)
  PROVE  IInv'
<1> USE StackAssumption DEF IInv, Threads
<1>1. TypeOK'
  BY DEF FsCreates, threadVars, lockVars, TypeOK
<1>2. OneFilterPerVolume'
  BY DEF FsCreates, threadVars, lockVars, OneFilterPerVolume, TypeOK
<1>3. Equipped'
  BY DEF FsCreates, threadVars, lockVars, Equipped, TypeOK, Target
<1>4. VpbOfDisk'
  BY DEF FsCreates, threadVars, lockVars, VpbOfDisk, TypeOK
<1>5. HolderMeetsNone'
  BY DEF FsCreates, threadVars, lockVars, HolderMeetsNone, TypeOK, SfIsAttachedToDevice, Equipped, Target
<1>6. ListingIsAttached'
  BY DEF FsCreates, threadVars, lockVars, ListingIsAttached, TypeOK, SfIsAttachedToDevice
<1> QED
  BY <1>1, <1>2, <1>3, <1>4, <1>5, <1>6

LEMMA FsMountsStep ==
  ASSUME IInv, NEW s \in Storages, FsMounts(s)
  PROVE  IInv'
<1> USE StackAssumption DEF IInv, Threads
<1>1. TypeOK'
  BY DEF FsMounts, Returned, lockVars, TypeOK
<1>2. OneFilterPerVolume'
  BY DEF FsMounts, Returned, lockVars, OneFilterPerVolume, TypeOK
<1>3. Equipped'
  BY DEF FsMounts, Returned, lockVars, Equipped, TypeOK, Target
<1>4. VpbOfDisk'
  BY DEF FsMounts, Returned, lockVars, VpbOfDisk, TypeOK
<1>5. HolderMeetsNone'
  BY DEF FsMounts, Returned, lockVars, HolderMeetsNone, TypeOK, SfIsAttachedToDevice, Equipped, Target
<1>6. ListingIsAttached'
  BY DEF FsMounts, Returned, lockVars, ListingIsAttached, TypeOK, SfIsAttachedToDevice
<1> QED
  BY <1>1, <1>2, <1>3, <1>4, <1>5, <1>6

LEMMA FsRemountsStep ==
  ASSUME IInv, NEW s \in Storages, NEW x \in Vdos, FsRemounts(s, x)
  PROVE  IInv'
<1> USE StackAssumption DEF IInv, Threads
<1>1. TypeOK'
  BY DEF FsRemounts, Returned, lockVars, TypeOK
<1>2. OneFilterPerVolume'
  BY DEF FsRemounts, Returned, lockVars, OneFilterPerVolume, TypeOK
<1>3. Equipped'
  BY DEF FsRemounts, Returned, lockVars, Equipped, TypeOK, Target
<1>4. VpbOfDisk'
  BY DEF FsRemounts, Returned, lockVars, VpbOfDisk, TypeOK
<1>5. HolderMeetsNone'
  BY DEF FsRemounts, Returned, lockVars, HolderMeetsNone, TypeOK, SfIsAttachedToDevice, Equipped, Target
<1>6. ListingIsAttached'
  BY DEF FsRemounts, Returned, lockVars, ListingIsAttached, TypeOK, SfIsAttachedToDevice
<1> QED
  BY <1>1, <1>2, <1>3, <1>4, <1>5, <1>6

LEMMA FsFailsStep ==
  ASSUME IInv, NEW s \in Storages, FsFails(s)
  PROVE  IInv'
<1> USE StackAssumption DEF IInv, Threads
<1>1. TypeOK'
  BY DEF FsFails, Returned, volVars, lockVars, TypeOK
<1>2. OneFilterPerVolume'
  BY DEF FsFails, Returned, volVars, lockVars, OneFilterPerVolume, TypeOK
<1>3. Equipped'
  BY DEF FsFails, Returned, volVars, lockVars, Equipped, TypeOK, Target
<1>4. VpbOfDisk'
  BY DEF FsFails, Returned, volVars, lockVars, VpbOfDisk, TypeOK
<1>5. HolderMeetsNone'
  BY DEF FsFails, Returned, volVars, lockVars, HolderMeetsNone, TypeOK, SfIsAttachedToDevice, Equipped, Target
<1>6. ListingIsAttached'
  BY DEF FsFails, Returned, volVars, lockVars, ListingIsAttached, TypeOK, SfIsAttachedToDevice
<1> QED
  BY <1>1, <1>2, <1>3, <1>4, <1>5, <1>6

LEMMA SfFsControlMountVolumeCompleteStep ==
  ASSUME IInv, NEW s \in Storages, SfFsControlMountVolumeComplete(s)
  PROVE  IInv'
<1> USE StackAssumption DEF IInv, Threads
<1>1. TypeOK'
  BY DEF SfFsControlMountVolumeComplete, Leave, volVars, lockVars, AfterAttach, TypeOK
<1>2. OneFilterPerVolume'
  BY DEF SfFsControlMountVolumeComplete, Leave, volVars, lockVars, AfterAttach, OneFilterPerVolume, TypeOK
<1>3. Equipped'
  BY DEF SfFsControlMountVolumeComplete, Leave, volVars, lockVars, AfterAttach, Equipped, TypeOK, Target
<1>4. VpbOfDisk'
  BY DEF SfFsControlMountVolumeComplete, Leave, volVars, lockVars, AfterAttach, VpbOfDisk, TypeOK
<1>5. HolderMeetsNone'
  BY DEF SfFsControlMountVolumeComplete, Leave, volVars, lockVars, AfterAttach, HolderMeetsNone, TypeOK, SfIsAttachedToDevice, Equipped, Target
<1>6. ListingIsAttached'
  BY DEF SfFsControlMountVolumeComplete, Leave, volVars, lockVars, AfterAttach, ListingIsAttached, TypeOK, SfIsAttachedToDevice
<1> QED
  BY <1>1, <1>2, <1>3, <1>4, <1>5, <1>6

LEMMA ListVolumesStep ==
  ASSUME IInv, ListVolumes
  PROVE  IInv'
<1> USE StackAssumption DEF IInv, Threads
<1>1. TypeOK'
  BY DEF ListVolumes, volVars, lockVars, TypeOK
<1>2. OneFilterPerVolume'
  BY DEF ListVolumes, volVars, lockVars, OneFilterPerVolume, TypeOK
<1>3. Equipped'
  BY DEF ListVolumes, volVars, lockVars, Equipped, TypeOK, Target
<1>4. VpbOfDisk'
  BY DEF ListVolumes, volVars, lockVars, VpbOfDisk, TypeOK
<1>5. HolderMeetsNone'
  BY DEF ListVolumes, volVars, lockVars, HolderMeetsNone, TypeOK, SfIsAttachedToDevice, Equipped, Target
<1>6. ListingIsAttached'
  BY DEF ListVolumes, volVars, lockVars, ListingIsAttached, TypeOK, SfIsAttachedToDevice
<1> QED
  BY <1>1, <1>2, <1>3, <1>4, <1>5, <1>6

LEMMA SkipVolumeStep ==
  ASSUME IInv, NEW x \in Vdos, SkipVolume(x)
  PROVE  IInv'
<1> USE StackAssumption DEF IInv, Threads
<1>1. TypeOK'
  BY DEF SkipVolume, Remaining, volVars, lockVars, TypeOK
<1>2. OneFilterPerVolume'
  BY DEF SkipVolume, Remaining, volVars, lockVars, OneFilterPerVolume, TypeOK
<1>3. Equipped'
  BY DEF SkipVolume, Remaining, volVars, lockVars, Equipped, TypeOK, Target
<1>4. VpbOfDisk'
  BY DEF SkipVolume, Remaining, volVars, lockVars, VpbOfDisk, TypeOK
<1>5. HolderMeetsNone'
  BY DEF SkipVolume, Remaining, volVars, lockVars, HolderMeetsNone, TypeOK, SfIsAttachedToDevice, Equipped, Target
<1>6. ListingIsAttached'
  BY DEF SkipVolume, Remaining, volVars, lockVars, ListingIsAttached, TypeOK, SfIsAttachedToDevice
<1> QED
  BY <1>1, <1>2, <1>3, <1>4, <1>5, <1>6

LEMMA TakeVolumeStep ==
  ASSUME IInv, NEW x \in Vdos, TakeVolume(x)
  PROVE  IInv'
<1> USE StackAssumption DEF IInv, Threads
<1>1. TypeOK'
  BY CreatedType DEF TakeVolume, volVars, lockVars, TypeOK
<1>2. OneFilterPerVolume'
  BY CreatedType DEF TakeVolume, volVars, lockVars, OneFilterPerVolume,
     TypeOK
<1>3. Equipped'
  BY CreatedType DEF TakeVolume, volVars, lockVars, Equipped, TypeOK,
     Target
<1>4. VpbOfDisk'
  BY CreatedType DEF TakeVolume, volVars, lockVars, VpbOfDisk, TypeOK
<1>5. HolderMeetsNone'
  BY CreatedType DEF TakeVolume, volVars, lockVars, HolderMeetsNone,
     TypeOK, SfIsAttachedToDevice, Equipped, Target
<1>6. ListingIsAttached'
  BY CreatedType DEF TakeVolume, volVars, lockVars, ListingIsAttached,
     TypeOK, SfIsAttachedToDevice
<1> QED
  BY <1>1, <1>2, <1>3, <1>4, <1>5, <1>6

LEMMA EnumerationEndsStep ==
  ASSUME IInv, EnumerationEnds
  PROVE  IInv'
<1> USE StackAssumption DEF IInv, Threads
<1>1. TypeOK'
  BY DEF EnumerationEnds, volVars, lockVars, TypeOK
<1>2. OneFilterPerVolume'
  BY DEF EnumerationEnds, volVars, lockVars, OneFilterPerVolume, TypeOK
<1>3. Equipped'
  BY DEF EnumerationEnds, volVars, lockVars, Equipped, TypeOK, Target
<1>4. VpbOfDisk'
  BY DEF EnumerationEnds, volVars, lockVars, VpbOfDisk, TypeOK
<1>5. HolderMeetsNone'
  BY DEF EnumerationEnds, volVars, lockVars, HolderMeetsNone, TypeOK, SfIsAttachedToDevice, Equipped, Target
<1>6. ListingIsAttached'
  BY DEF EnumerationEnds, volVars, lockVars, ListingIsAttached, TypeOK, SfIsAttachedToDevice
<1> QED
  BY <1>1, <1>2, <1>3, <1>4, <1>5, <1>6

LEMMA MediumRemovedStep ==
  ASSUME IInv, NEW s \in Storages, MediumRemoved(s)
  PROVE  IInv'
<1> USE StackAssumption DEF IInv, Threads
<1>1. TypeOK'
  BY DEF MediumRemoved, threadVars, lockVars, TypeOK
<1>2. OneFilterPerVolume'
  BY DEF MediumRemoved, threadVars, lockVars, OneFilterPerVolume, TypeOK
<1>3. Equipped'
  BY DEF MediumRemoved, threadVars, lockVars, Equipped, TypeOK, Target
<1>4. VpbOfDisk'
  BY DEF MediumRemoved, threadVars, lockVars, VpbOfDisk, TypeOK
<1>5. HolderMeetsNone'
  BY DEF MediumRemoved, threadVars, lockVars, HolderMeetsNone, TypeOK, SfIsAttachedToDevice, Equipped, Target
<1>6. ListingIsAttached'
  BY DEF MediumRemoved, threadVars, lockVars, ListingIsAttached, TypeOK, SfIsAttachedToDevice
<1> QED
  BY <1>1, <1>2, <1>3, <1>4, <1>5, <1>6

(* The volume that was found free gets its first filter device. *)
LEMMA SfAttachToMountedDeviceStep ==
  ASSUME IInv, NEW t \in Threads, SfAttachToMountedDevice(t)
  PROVE  IInv'
<1> USE StackAssumption DEF IInv, Threads
<1> DEFINE v == Target(t)
           q == stack[v]
<1>1. v \in Vdos /\ new[t] \in Own /\ lock = t
  BY DEF SfAttachToMountedDevice, Equipped, Target, TypeOK
<1>2. q \in Seq(Own \union {Other}) /\ \A i \in DOMAIN q : ~Mine(q[i])
  BY <1>1 DEF SfAttachToMountedDevice, HolderMeetsNone, SfIsAttachedToDevice,
              TypeOK
<1>3. stack' = [stack EXCEPT ![v] = Append(q, new[t])]
  BY DEF SfAttachToMountedDevice
<1>4. Append(q, new[t]) \in Seq(Own \union {Other})
  BY <1>1, <1>2
<1>5. TypeOK'
  BY <1>1, <1>3, <1>4
     DEF SfAttachToMountedDevice, TypeOK, Leave, AfterAttach, volVars
<1>6. OneFilterPerVolume'
  <2> SUFFICES ASSUME NEW x \in Vdos, NEW i \in DOMAIN stack'[x],
                      NEW j \in DOMAIN stack'[x],
                      Mine(stack'[x][i]), Mine(stack'[x][j])
               PROVE  i = j
    BY DEF OneFilterPerVolume, Mine
  <2>1. CASE x = v
    BY <1>1, <1>2, <1>3, <2>1 DEF TypeOK, Mine
  <2>2. CASE x # v
    BY <1>1, <1>3, <2>2 DEF OneFilterPerVolume, TypeOK
  <2> QED
    BY <2>1, <2>2
<1>7. Equipped' /\ VpbOfDisk'
  BY DEF SfAttachToMountedDevice, TypeOK, Equipped, VpbOfDisk, Leave,
         AfterAttach, volVars
<1>8. HolderMeetsNone'
  BY <1>1 DEF SfAttachToMountedDevice, TypeOK, HolderMeetsNone, Leave,
              AfterAttach
<1>9. ListingIsAttached'
  BY <1>1, <1>3 DEF SfAttachToMountedDevice, TypeOK, ListingIsAttached, Leave,
              AfterAttach, SfIsAttachedToDevice
<1> QED
  BY <1>5, <1>6, <1>7, <1>8, <1>9

(* A new device over the control device: volumes are not touched. *)
LEMMA SfAttachToFileSystemDeviceStep ==
  ASSUME IInv, SfAttachToFileSystemDevice
  PROVE  IInv'
<1> USE StackAssumption DEF IInv, Threads
<1>1. CASE UNCHANGED <<stack, live, pc>>
  BY <1>1 DEF SfAttachToFileSystemDevice, TypeOK, OneFilterPerVolume, Equipped,
              VpbOfDisk, HolderMeetsNone, ListingIsAttached, Target,
              SfIsAttachedToDevice, volVars, lockVars
<1>2. CASE /\ CanCreate
           /\ live' = live \union {Created}
           /\ stack' = [stack EXCEPT ![Fs] = Append(@, Created)]
           /\ pc' = [pc EXCEPT ![Notifier] = "listing"]
  <2>1. Created \in Own
    BY <1>2, CreatedType
  <2>2. stack[Fs] \in Seq(Own \union {Other})
    BY DEF TypeOK
  <2>3. Append(stack[Fs], Created) \in Seq(Own \union {Other})
    BY <2>1, <2>2
  <2>4. TypeOK'
    BY <1>2, <2>1, <2>3
       DEF SfAttachToFileSystemDevice, TypeOK, volVars, lockVars
  <2>5. \A x \in Vdos : stack'[x] = stack[x]
    BY <1>2 DEF TypeOK
  <2>6. OneFilterPerVolume'
    BY <2>5 DEF OneFilterPerVolume
  <2>7. Equipped' /\ VpbOfDisk'
    BY <1>2 DEF SfAttachToFileSystemDevice, TypeOK, Equipped, VpbOfDisk,
                volVars
  <2>8. HolderMeetsNone'
    BY <1>2, <2>5 DEF SfAttachToFileSystemDevice, TypeOK, HolderMeetsNone,
                Target, Equipped, SfIsAttachedToDevice, volVars
  <2>9. ListingIsAttached'
    <3>1. Mine(stack'[Fs][Len(stack[Fs]) + 1])
      BY <1>2, <2>1, <2>2 DEF TypeOK, Mine
    <3>2. Len(stack[Fs]) + 1 \in DOMAIN stack'[Fs]
      BY <1>2, <2>1, <2>2 DEF TypeOK
    <3> QED
      BY <3>1, <3>2 DEF ListingIsAttached, SfIsAttachedToDevice
  <2> QED
    BY <2>4, <2>6, <2>7, <2>8, <2>9
<1> QED
  BY <1>1, <1>2 DEF SfAttachToFileSystemDevice

(* The filter leaves the control device: volumes are not touched. *)
LEMMA ListingFailsStep ==
  ASSUME IInv, ListingFails
  PROVE  IInv'
<1> USE StackAssumption DEF IInv, Threads
<1>1. SfIsAttachedToDevice(Fs) /\ TakeDownFrom(Fs)
  BY DEF ListingFails, ListingIsAttached
<1>2. /\ stack' \in [Vdos \union {Fs} -> Seq(Own \union {Other})]
      /\ live' \subseteq Own
      /\ \A x \in Vdos : stack'[x] = stack[x]
  BY <1>1, TakeDownType
<1>3. TypeOK'
  BY <1>2 DEF ListingFails, TypeOK, volVars, lockVars
<1>4. OneFilterPerVolume'
  BY <1>2 DEF OneFilterPerVolume
<1>5. Equipped' /\ VpbOfDisk' /\ ListingIsAttached'
  BY DEF ListingFails, TypeOK, Equipped, VpbOfDisk, ListingIsAttached, volVars
<1>6. HolderMeetsNone'
  BY <1>2 DEF ListingFails, TypeOK, HolderMeetsNone, Target, Equipped,
              SfIsAttachedToDevice, volVars
<1> QED
  BY <1>3, <1>4, <1>5, <1>6

LEMMA SfDetachFromFileSystemDeviceStep ==
  ASSUME IInv, SfDetachFromFileSystemDevice
  PROVE  IInv'
<1> USE StackAssumption DEF IInv, Threads
<1>1. /\ stack' \in [Vdos \union {Fs} -> Seq(Own \union {Other})]
      /\ live' \subseteq Own
      /\ \A x \in Vdos : stack'[x] = stack[x]
  <2>1. CASE SfIsAttachedToDevice(Fs)
    <3>1. TakeDownFrom(Fs)
      BY <2>1 DEF SfDetachFromFileSystemDevice
    <3> QED
      BY <2>1, <3>1, TakeDownType
  <2>2. CASE ~SfIsAttachedToDevice(Fs)
    BY <2>2 DEF SfDetachFromFileSystemDevice, TypeOK
  <2> QED
    BY <2>1, <2>2
<1>2. TypeOK'
  BY <1>1 DEF SfDetachFromFileSystemDevice, TypeOK, volVars, threadVars,
              lockVars
<1>3. OneFilterPerVolume'
  BY <1>1 DEF OneFilterPerVolume
<1>4. Equipped' /\ VpbOfDisk' /\ ListingIsAttached'
  BY DEF SfDetachFromFileSystemDevice, TypeOK, Equipped, VpbOfDisk,
         ListingIsAttached, volVars, threadVars
<1>5. HolderMeetsNone'
  BY <1>1 DEF SfDetachFromFileSystemDevice, TypeOK, HolderMeetsNone, Target,
              Equipped, SfIsAttachedToDevice, volVars, threadVars
<1> QED
  BY <1>2, <1>3, <1>4, <1>5

(* With the volume its stack goes; nobody who is mounting it is there. *)
LEMMA DismountStep ==
  ASSUME IInv, NEW x \in Vdos, Dismount(x)
  PROVE  IInv'
<1> USE StackAssumption DEF IInv, Threads
<1>1. stack' = [stack EXCEPT ![x] = <<>>] /\ live' \subseteq live
  BY DEF Dismount, SfFastIoDetachDevice
<1>2. <<>> \in Seq(Own \union {Other})
  OBVIOUS
<1>3. TypeOK'
  BY <1>1, <1>2 DEF Dismount, TypeOK, threadVars, lockVars
<1>4. OneFilterPerVolume'
  BY <1>1 DEF OneFilterPerVolume, TypeOK
<1>5. Equipped' /\ VpbOfDisk'
  BY DEF Dismount, TypeOK, Equipped, VpbOfDisk, threadVars
<1>6. HolderMeetsNone'
  <2> SUFFICES ASSUME NEW t \in Threads, pc[t] = "attaching"
               PROVE  ~SfIsAttachedToDevice(Target(t))'
    BY DEF HolderMeetsNone, Dismount, threadVars
  <2>1. Target(t)' = Target(t) /\ Target(t) \in Vdos
    BY DEF Dismount, TypeOK, Equipped, Target, threadVars
  <2>2. ~SfIsAttachedToDevice(Target(t))
    BY DEF HolderMeetsNone
  <2> QED
    BY <1>1, <2>1, <2>2 DEF SfIsAttachedToDevice, TypeOK
<1>7. ListingIsAttached'
  BY <1>1 DEF Dismount, TypeOK, ListingIsAttached, SfIsAttachedToDevice,
              threadVars
<1> QED
  BY <1>3, <1>4, <1>5, <1>6, <1>7

(* The other driver's device is none of the filter's. *)
LEMMA OtherAttachesStep ==
  ASSUME IInv, NEW d \in Vdos \union {Fs}, OtherAttaches(d)
  PROVE  IInv'
<1> USE StackAssumption DEF IInv, Threads
<1>1. stack' = [stack EXCEPT ![d] = Append(@, Other)] /\ ~Mine(Other)
  BY DEF OtherAttaches, Mine, Own
<1>2. \A e \in Vdos \union {Fs} : stack[e] \in Seq(Own \union {Other})
  BY DEF TypeOK
<1>3. Append(stack[d], Other) \in Seq(Own \union {Other})
  BY <1>2
<1>4. TypeOK'
  BY <1>1, <1>3 DEF OtherAttaches, TypeOK, volVars, threadVars, lockVars
<1>5. \A e \in Vdos \union {Fs} :
        /\ \A i \in DOMAIN stack[e] :
             i \in DOMAIN stack'[e] /\ stack'[e][i] = stack[e][i]
        /\ \A i \in DOMAIN stack'[e] :
             Mine(stack'[e][i]) => i \in DOMAIN stack[e]
  BY <1>1, <1>2 DEF TypeOK
<1>6. OneFilterPerVolume'
  BY <1>5 DEF OneFilterPerVolume, Mine
<1>7. Equipped' /\ VpbOfDisk'
  BY DEF OtherAttaches, TypeOK, Equipped, VpbOfDisk, volVars, threadVars
<1>8. \A e \in Vdos \union {Fs} :
        SfIsAttachedToDevice(e)' <=> SfIsAttachedToDevice(e)
  BY <1>5 DEF SfIsAttachedToDevice, Mine
<1>9. HolderMeetsNone'
  <2> SUFFICES ASSUME NEW t \in Threads, pc[t] = "attaching"
               PROVE  ~SfIsAttachedToDevice(Target(t))'
    BY DEF HolderMeetsNone, OtherAttaches, threadVars
  <2>1. Target(t)' = Target(t) /\ Target(t) \in Vdos
    BY DEF OtherAttaches, Equipped, Target, volVars, threadVars
  <2>2. ~SfIsAttachedToDevice(Target(t))
    BY DEF HolderMeetsNone
  <2> QED
    BY <1>8, <2>1, <2>2 DEF SfIsAttachedToDevice
<1>10. ListingIsAttached'
  BY <1>8 DEF OtherAttaches, ListingIsAttached, threadVars
<1> QED
  BY <1>4, <1>6, <1>7, <1>9, <1>10

LEMMA StutterStep ==
  ASSUME IInv, UNCHANGED vars
  PROVE  IInv'
BY DEF IInv, TypeOK, OneFilterPerVolume, Equipped, VpbOfDisk, HolderMeetsNone,
       ListingIsAttached, SfIsAttachedToDevice, Target, Mine, vars, volVars,
       threadVars, lockVars

-----------------------------------------------------------------------------
LEMMA NextStep == ASSUME IInv, [Next]_vars PROVE IInv'
<1>1. ASSUME NEW t \in Threads, Lock(t) \/ Attach(t)
      PROVE  IInv'
  BY <1>1, AlreadyAttachedStep, AcquireAttachLockStep,
     SfAttachToMountedDeviceStep, RetryAttachStep, GiveUpAttachStep
     DEF Lock, Attach
<1>2. ASSUME NEW s \in Storages, FsAnswers(s)
      PROVE  IInv'
  BY <1>2, FsCreatesStep, FsMountsStep, FsRemountsStep, FsFailsStep
     DEF FsAnswers
<1>3. ASSUME NEW s \in Storages, MountThread(s)
      PROVE  IInv'
  BY <1>1, <1>3, SfFsControlMountVolumeCompleteStep DEF MountThread, Threads
<1>4. ASSUME Notification
      PROVE  IInv'
  BY <1>1, <1>4, ListVolumesStep, ListingFailsStep, EnumerationEndsStep,
     SkipVolumeStep, TakeVolumeStep DEF Notification, Threads
<1>5. CASE UNCHANGED vars
  BY <1>5, StutterStep
<1> QED
  BY <1>1, <1>2, <1>3, <1>4, <1>5, SfFsControlMountVolumeStep,
     MountUnseenStep, MediumRemovedStep, SfAttachToFileSystemDeviceStep,
     SfDetachFromFileSystemDeviceStep, DismountStep, OtherAttachesStep
     DEF Next

(* The inductive invariant holds in every reachable state, however mounts, *)
(* enumerations, dismounts and other filters interleave.                   *)
THEOREM StackInductive == Spec => []IInv
<1>1. Init => IInv
  BY InitIInv
<1>2. IInv /\ [Next]_vars => IInv'
  BY NextStep
<1> QED
  BY <1>1, <1>2, PTL DEF Spec

(* Every variable keeps its type, and gSfilterAttachLock is held exactly   *)
(* by the thread that is attaching.                                        *)
THEOREM StackTypeCorrect == Spec => []TypeOK
<1>1. IInv => TypeOK
  BY DEF IInv
<1> QED
  BY <1>1, StackInductive, PTL

(* No volume ever has two filter devices: the second check, under the      *)
(* lock, is enough for SfFsControlMountVolumeComplete and                  *)
(* SfEnumerateFileSystemVolumes.                                           *)
THEOREM OneFilter == Spec => []OneFilterPerVolume
<1>1. IInv => OneFilterPerVolume
  BY DEF IInv
<1> QED
  BY <1>1, StackInductive, PTL

(* What a step may do to the stack over a volume that stays mounted. *)
LEMMA VolumeStackStep ==
  ASSUME IInv, [Next]_vars, NEW x \in Vdos, vdo'[x] # "none"
  PROVE  \/ stack'[x] = stack[x]
         \/ \E d \in Own \union {Other} : stack'[x] = Append(stack[x], d)
<1> USE StackAssumption DEF IInv, TypeOK, Threads
<1>1. ASSUME NEW t \in Threads, Attach(t)
      PROVE  \/ stack'[x] = stack[x]
             \/ \E d \in Own \union {Other} : stack'[x] = Append(stack[x], d)
  <2>1. CASE SfAttachToMountedDevice(t)
    <3>1. new[t] \in Own /\ Target(t) \in Vdos
      BY <2>1 DEF SfAttachToMountedDevice, Equipped, Target
    <3> QED
      BY <2>1, <3>1 DEF SfAttachToMountedDevice
  <2>2. CASE RetryAttach(t) \/ GiveUpAttach(t)
    BY <2>2 DEF RetryAttach, GiveUpAttach
  <2> QED
    BY <1>1, <2>1, <2>2 DEF Attach
<1>2. ASSUME NEW t \in Threads, Lock(t)
      PROVE  stack' = stack
  BY <1>2 DEF Lock, AlreadyAttached, AcquireAttachLock
<1>3. ASSUME NEW s \in Storages,
             \/ SfFsControlMountVolume(s) \/ MountUnseen(s) \/ FsAnswers(s)
             \/ SfFsControlMountVolumeComplete(s) \/ MediumRemoved(s)
      PROVE  stack' = stack
  BY <1>3 DEF SfFsControlMountVolume, MountUnseen, FsAnswers, FsCreates,
              FsMounts, FsRemounts, FsFails, SfFsControlMountVolumeComplete,
              MediumRemoved
<1>4. ASSUME \/ ListVolumes \/ EnumerationEnds
             \/ \E y \in Vdos : SkipVolume(y) \/ TakeVolume(y)
      PROVE  stack' = stack
  BY <1>4 DEF ListVolumes, EnumerationEnds, SkipVolume, TakeVolume
<1>5. ASSUME \/ ListingFails \/ SfAttachToFileSystemDevice
             \/ SfDetachFromFileSystemDevice
      PROVE  stack'[x] = stack[x]
  BY <1>5 DEF ListingFails, SfAttachToFileSystemDevice,
              SfDetachFromFileSystemDevice, TakeDownFrom
<1>6. ASSUME NEW y \in Vdos, Dismount(y)
      PROVE  stack'[x] = stack[x]
  BY <1>6 DEF Dismount, SfFastIoDetachDevice
<1>7. ASSUME NEW d \in Vdos \union {Fs}, OtherAttaches(d)
      PROVE  \/ stack'[x] = stack[x]
             \/ stack'[x] = Append(stack[x], Other)
  BY <1>7 DEF OtherAttaches
<1>8. CASE UNCHANGED vars
  BY <1>8 DEF vars
<1> QED
  BY <1>1, <1>2, <1>3, <1>4, <1>5, <1>6, <1>7, <1>8
     DEF Next, MountThread, Notification

(* Once a volume is filtered it stays so until it is dismounted: neither   *)
(* the loser of a race in SfFsControlMountVolumeComplete nor               *)
(* SfDetachFromFileSystemDevice takes its device away.                     *)
THEOREM FilterStays == Spec => StaysFiltered
<1> DEFINE Stays ==
      \A x \in Vdos : SfIsAttachedToDevice(x) /\ vdo'[x] # "none"
        => \E i \in DOMAIN stack'[x] : Mine(stack'[x][i])
<1>1. IInv /\ [Next]_vars => Stays
  <2> SUFFICES ASSUME IInv, [Next]_vars, NEW x \in Vdos,
                      SfIsAttachedToDevice(x), vdo'[x] # "none"
               PROVE  \E i \in DOMAIN stack'[x] : Mine(stack'[x][i])
    OBVIOUS
  <2>1. PICK i \in DOMAIN stack[x] : Mine(stack[x][i])
    BY DEF SfIsAttachedToDevice
  <2>2. stack[x] \in Seq(Own \union {Other})
    BY DEF IInv, TypeOK
  <2>3. i \in DOMAIN stack'[x] /\ stack'[x][i] = stack[x][i]
    BY <2>1, <2>2, VolumeStackStep
  <2> QED
    BY <2>1, <2>3
<1> QED
  BY <1>1, StackInductive, PTL DEF Spec, StaysFiltered
=============================================================================
