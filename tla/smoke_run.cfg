SPECIFICATION FairSpec
CONSTANTS
  CaseCount = 3
  Costs = {1, 3}
  Total <- MCTotal
  Available = {4}
  Caps = {NoCap}
  NoCap = NoCap
  Sizes = {0, 2}
  Reserve = 2
  Leftovers = {"off"}
  MaxInterrupts = 1
  MaxFaults = 1
INVARIANT SmokeInv
INVARIANT MemoryFits
INVARIANT BootsFresh
INVARIANT EndsClean
PROPERTY Terminates
