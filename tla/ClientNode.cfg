CONSTANTS
  Conns = {c1, c2}
  Peers = {self, a}
  Self = self
  NoPeer = NoPeer
  MaxServers = 1
  Strategies = {"load_balance"}
  PreferredExitNodes = {}
  MaxConnections = 1
SPECIFICATION NodeSpec
INVARIANT NodeLoads
PROPERTY ImplementsHandler
CHECK_DEADLOCK FALSE
