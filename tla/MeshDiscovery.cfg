CONSTANTS
  Peers = {self, a, b}
  Self = self
  NoPeer = NoPeer
  MaxServers = 1
  MaxFailures = 2
  BlacklistTime = 1
SPECIFICATION FairSpec
INVARIANTS TypeOK DialRate MeshSound
PROPERTIES GoroutineExits GoodServerJoins
