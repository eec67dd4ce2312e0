\* The same threads on a link on which no frame need arrive.
CONSTANTS
  Capacity = 1
  Stoppers = {s1}
  MaxArrivals = 1
SPECIFICATION FairSpec
PROPERTY StopReleasesReader
CHECK_DEADLOCK FALSE
