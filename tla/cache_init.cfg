SPECIFICATION FairSpec
CONSTANTS
  a = a
  b = b
  k = k
  Images = {a, b}
  Checked = {b}
  Keyrings = {k}
  KeyringOf <- SharedKeyring
  NoKeyring = NoKeyring
  Manifests <- Environments
  Jobs = 2
  LastVersion = 2
  MaxFaults = 1
INVARIANT CacheInv
INVARIANT QuietMeansVerified
PROPERTY InUseStays
PROPERTY Converges
