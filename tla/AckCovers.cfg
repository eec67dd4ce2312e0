\* Data of both sides and two acknowledgements, in any order.
CONSTANTS
  Traffics <- MCTraffics
  MaxArrivals = 5
  SeqSpace = 16
  ReorderLimit = 64
  Nothing = Nothing
SPECIFICATION StreamSpec
INVARIANT AckSettles
CHECK_DEADLOCK FALSE
