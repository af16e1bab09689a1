CONSTANTS
  Conns = {c1, c2, c3}
  Peers = {self, a}
  Self = self
  NoPeer = NoPeer
  MaxConnections = 1
SPECIFICATION Spec
INVARIANTS TypeOK CounterAccounting LoadAccounting ReplyTellsOutcome
PROPERTIES NoFalseRejection HandlerEnds AcceptLoopExits
CHECK_DEADLOCK FALSE
