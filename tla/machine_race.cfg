SPECIFICATION Spec
CONSTANTS
  Procs = {p1, p2}
  Snapshots = {s1}
  Commands <- UpAndDestroy
  GuestStates <- AnyGuest
  Strategy = "copy"
  UriInManifest = TRUE
  MaxFaults = 0
PROPERTY NeverUndefineLive
