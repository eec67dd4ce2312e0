\* Three frames of two flows, a flush every second packet, one drop, one stop().
CONSTANTS
  FlowKeys = {f1, f2}
  Stoppers = {s1}
  Issues = {"STREAM_GAP"}
  MaxFrames = 3
  MaxDrops = 1
  FlushModes = {"packets", "time"}
  FlushPackets = 2
SPECIFICATION FairSpec
INVARIANTS
  TypeOK
  CommittedConsistent
  StoredPrefix
  ReadyIsWhole
  CompleteIsHonest
  AtRiskBounded
  PushedCoversStored
  CountersAgree
  FailureSurfaces
PROPERTIES
  ImplementsLifecycle
  StopTakesEffect
