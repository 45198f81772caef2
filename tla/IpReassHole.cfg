SPECIFICATION Spec
CONSTANTS
  Ids = {d1}
  DatagramLen = 4
  FragPbufs = {1}
  NumReassData = 3
  MaxPbufs = 5
  MaxAge = 1
INVARIANTS PassedWhole
