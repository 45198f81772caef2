SPECIFICATION Spec
CONSTANTS
  Ids = {d1, d2, d3}
  DatagramLen = 4
  FragPbufs = {1}
  NumReassData = 3
  MaxPbufs = 4
  MaxAge = 1
INVARIANTS FreedLeaves
