SPECIFICATION FairSpec
CONSTANTS
  Guests = {a, b, huge}
  Checks = {check}
  Huge = huge
  Width = 1
  Cost <- MCCost
  Available = 6
  Reserve = 2
  Load <- MCLoad
  MaxInterrupts = 2
  MaxFaults = 1
INVARIANT HarnessInv
INVARIANT MemoryBooked
INVARIANT AdmittedAlone
INVARIANT DomainIsLeased
INVARIANT AllSwept
PROPERTY HarnessEnds
CHECK_DEADLOCK FALSE
