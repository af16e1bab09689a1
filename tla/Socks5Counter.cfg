CONSTANTS
  Conns = {c1, c2, c3}
  Peers = {self, a}
  Self = self
  NoPeer = NoPeer
  MaxConnections = 1
SPECIFICATION Spec
INVARIANT CounterExact
CHECK_DEADLOCK FALSE
