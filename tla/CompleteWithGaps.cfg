\* A gap in a stream, no drop and no malformed frame.
CONSTANTS
  FlowKeys = {f1, f2}
  Stoppers = {s1}
  Issues = {"STREAM_GAP"}
  MaxFrames = 2
  MaxDrops = 0
  FlushModes = {"packets"}
  FlushPackets = 2
SPECIFICATION Spec
SYMMETRY FlowSymmetry
INVARIANT CompleteMeansNoGaps
