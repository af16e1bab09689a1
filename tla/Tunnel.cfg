CONSTANTS
  Hops = 1
  SendsUp = 1
  SendsDown = 0
  Window = 1
  MaxBreaks = 1
SPECIFICATION FairSpec
INVARIANTS TypeOK PayloadInOrder EofMeansComplete
PROPERTIES ImplementsPipe TunnelTornDown
CHECK_DEADLOCK FALSE
