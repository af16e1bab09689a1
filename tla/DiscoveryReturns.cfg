CONSTANTS
  Conns = {c1, c2}
  Peers = {self, a, b}
  Self = self
  NoPeer = NoPeer
  MaxServers = 1
  Strategies = {"random"}
  PreferredExitNodes = {}
SPECIFICATION FairDiscoverySpec
INVARIANT CacheSound
PROPERTY CallsReturn
