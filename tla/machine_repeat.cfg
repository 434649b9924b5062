SPECIFICATION FairSpec
CONSTANTS
  Procs = {p1}
  Snapshots = {s1}
  Commands <- UpAndDestroy
  GuestStates <- AwakeGuest
  Strategy = "backing"
  UriInManifest = TRUE
  MaxFaults = 3
PROPERTY DestroyWorks
PROPERTY UpBoots
