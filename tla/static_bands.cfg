SPECIFICATION FairSpec
CONSTANTS
  Top = 7
  Machines = {m1, m2}
  Addresses <- Space
  Networks <- Subnets
  Ranges <- Pairs
  NoNetwork = NoNetwork
  NoAddress = NoAddress
INVARIANT BandsInv
INVARIANT AdviceExact
PROPERTY AdviceWorks
