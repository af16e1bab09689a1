CONSTANTS
  Conns = {c1, c2}
  Peers = {self, a}
  Self = self
  NoPeer = NoPeer
  MaxServers = 1
  Strategies = {"load_balance"}
  PreferredExitNodes = {}
SPECIFICATION DiscoverySpec
INVARIANT RangeStaysInArray
