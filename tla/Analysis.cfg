CONSTANTS
  Openers = {o1, o2}
  OldFiles <- MCOldFiles
  NoRef = NoRef
  MaxKills = 1
  MaxRefused = 1
  Workers = {t1, t2}
  ScenarioIds = {s1}
  RunIds = {r1, r2}
  Selections <- MCSelections
  Rows <- MCRows
  MaxRequests = 3
  MaxPackets = 1
  None = None
  Traffics <- MCTraffics
  MaxArrivals = 5
  SeqSpace = 16
  ReorderLimit = 64
  Nothing = Nothing
  Written <- MCWritten
  HeadLen = 2
  MaxUnit = 3
  MaxMessage = 6
  Handshakes = {"full12", "resumed12", "full13", "client13"}
  KeyLogs <- MCKeyLogs
  Contents = {"text", "zeros", "padded", "framed", "alert"}
  MaxWrites = 2
  MaxFaults = 1
  Chunks <- MCChunks
  FilterRows <- MCFilterRows
  Numbers <- MCNumbers
  MaxChunks = 5
  Absent = "absent"
  NoNode = NoNode
  Workspace <- MCWorkspace
  Observed <- MCObserved
  Ticks = {0, 1}
  MaxObserved = 3
  MaxSpoiled = 1
  Pages = {1, 2}
  Expectations <- MCExpectations
  NoTell = "none"
SYMMETRY Alike
SPECIFICATION Spec
INVARIANTS
  AnalysisTypes
  FileSurvives
  ResultPinned
  SerialUpdatesStick
  StreamFaithful
  StateWasEarned
  SplitIrrelevant
  DecryptionTruthful
  AnalysisAgrees
\* Requests, faults and arrivals run out.
CHECK_DEADLOCK FALSE
