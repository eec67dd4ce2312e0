\* Two request threads and two controllers; replays of three rows with a fourth
\* committed meanwhile; a bridge with two numbered frames a side and queues of two;
\* three WebSocket clients and two events.
CONSTANTS
  Callers = {c1, c2}
  Controllers = {1, 2}
  MaxRequests = 3
  Nobody = Nobody
  Options <- MCOptions
  Sessions <- MCSessions
  LateRows <- MCLateRows
  MaxRows = 4
  PageSize = 2
  ProgressEvery = 2
  DefaultMaxGap = 6
  MaxStarts = 2
  None = None
  Tracked = 2
  QueueSize = 2
  Clients = {w1, w2, w3}
  MaxEvents = 2
SPECIFICATION Spec
INVARIANTS
  ControlTypes
  ReplayAsAsked
  BridgeAccounts
  AnswersAreTrue
  LiveFeedHolds
PROPERTIES
  StopIsPrompt
  BridgeStopEnds
  StopIsNotLost
\* Threads end, requests run out, a replay stopped for good has nothing left to do.
CHECK_DEADLOCK FALSE
