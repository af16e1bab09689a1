CONSTANTS
  Conns = {c1, c2, c3}
  Peers = {self, a}
  Self = self
  NoPeer = NoPeer
  MaxConnections = 1
SPECIFICATION Spec
INVARIANT ClosedHoldsNothing
CHECK_DEADLOCK FALSE
