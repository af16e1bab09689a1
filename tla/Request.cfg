CONSTANTS
  a = a
  b = b
  c = c
  Radix = 8
  Peers = {a, b, c}
  Routes <- MCRoutes
  Clients <- MCClients
SPECIFICATION FairSpec
INVARIANTS TypeOK RightTarget OnlyData RouteFollowed AnswersFit
PROPERTY FrameComplete
CHECK_DEADLOCK FALSE
