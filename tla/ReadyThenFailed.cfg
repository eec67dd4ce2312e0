\* One frame is enough: the race is between stop() and the end of _run.
CONSTANTS
  FlowKeys = {f1, f2}
  Stoppers = {s1}
  Issues = {"STREAM_GAP"}
  MaxFrames = 2
  MaxDrops = 0
  FlushModes = {"packets"}
  FlushPackets = 2
SPECIFICATION Spec
SYMMETRY FlowSymmetry
PROPERTY ReadyIsFinal
