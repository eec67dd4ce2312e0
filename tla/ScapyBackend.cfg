\* Four frames, one of them after stop(), a queue of two, two calls of stop().
CONSTANTS
  Capacity = 2
  Stoppers = {s1, s2}
  MaxArrivals = 3
SPECIFICATION BusySpec
INVARIANTS
  TypeOK
  EveryFrameAccounted
  InOrder
  EndMeansDrained
  ErrorRaised
PROPERTIES
  ImplementsSource
  StopReleasesReader
\* Every thread may be waiting: for a frame, for room in the queue, for a call.
CHECK_DEADLOCK FALSE
