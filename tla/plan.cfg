SPECIFICATION Spec
CONSTANTS
  Vms = {a, b}
  Networks <- MCNetworks
  Default = "default"
  Libvirt <- MCLibvirt
  Places = 4
  Files <- MCFiles
  Options <- MCOptions
  Keys = {k}
  None = None
  Null = Null
INVARIANT PlanInv
INVARIANT LayersRank
INVARIANT NoSharedAddress
INVARIANT LoginKept
SYMMETRY Interchangeable
