SPECIFICATION Spec
CONSTANTS
  Procs = {p1, p2}
  Snapshots = {s1}
  Commands <- WithoutUp
  GuestStates <- AnyGuest
  Strategy = "copy"
  UriInManifest = TRUE
  MaxFaults = 2
INVARIANT CalmInv
PROPERTY NeverUndefineLive
PROPERTY FilesStay
