SPECIFICATION FairSpec
CONSTANTS
  Procs = {p1}
  Files = {f1, f2, f3}
  NoFile = NoFile
  LastVersion = 2
  Length <- TwoLengths
  EncodedLength <- TwoEncodedLengths
  Framings <- AnyFraming
  Encodings <- Either
  Cleaning = TRUE
  MaxFaults = 3
INVARIANT DownloadInv
PROPERTY Fetched
PROPERTY KeepsPromise
CHECK_DEADLOCK FALSE
