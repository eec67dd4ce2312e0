\* A quiet link under --flush-time.
CONSTANTS
  FlowKeys = {f1}
  Stoppers = {s1}
  Issues = {"STREAM_GAP"}
  MaxFrames = 2
  MaxDrops = 0
  FlushModes = {"time"}
  FlushPackets = 2
SPECIFICATION FairSpec
PROPERTY FlushedInTime
