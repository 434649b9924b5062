SPECIFICATION Spec
CONSTANTS
  Procs = {p1}
  Snapshots = {s1}
  Commands <- AllCommands
  GuestStates <- AnyGuest
  Strategy = "copy"
  UriInManifest = TRUE
  MaxFaults = 3
INVARIANT MachineInv
PROPERTY NeverUndefineLive
PROPERTY FilesStay
PROPERTY DestroyHonest
PROPERTY GuestDataKept
PROPERTY ImplementsContract
