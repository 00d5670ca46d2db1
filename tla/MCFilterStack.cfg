SPECIFICATION FairSpec
CONSTANTS
  s1 = s1
  s2 = s2
  x1 = x1
  x2 = x2
  Storages = {s1, s2}
  Virtual = {s2}
  Vdos = {x1, x2}
  Disk <- MCDisk
  Fs = Fs
  Notifier = Notifier
  Other = Other
  NoVdo = NoVdo
  NoDevice = NoDevice
  NoThread = NoThread
  MaxDevices = 3
  MaxTries = 2
INVARIANTS TypeOK OneFilterPerVolume DevicesAccountedFor MountedIsFiltered
PROPERTIES StaysFiltered EveryThreadReturns
