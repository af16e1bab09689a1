CONSTANTS
  Conns = {c1, c2}
  Peers = {self, a, b}
  Self = self
  NoPeer = NoPeer
  MaxServers = 2
  Strategies = {"first", "load_balance", "preferred"}
  PreferredExitNodes = {b}
SPECIFICATION DiscoverySpec
INVARIANTS DiscoveryTypeOK LoadAccounting
PROPERTY ImplementsSelection
SYMMETRY ConnSymmetry
