SPECIFICATION Spec
CONSTANTS
  Procs = {p1, p2}
  SnapshotsRace = FALSE
  MaxFaults = 3
SYMMETRY Alike
INVARIANT OneoffInv
PROPERTY BootsWhole
PROPERTY StorageKept
PROPERTY ConsentKept
