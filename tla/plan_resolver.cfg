SPECIFICATION Spec
CONSTANTS
  Vms = {a}
  Networks <- MCNetworks
  Default = "default"
  Libvirt <- MCLibvirt
  Places = 1
  Files <- MCFiles
  Options <- MCOptions
  Keys = {k}
  None = None
  Null = Null
INVARIANT StaticResolves
