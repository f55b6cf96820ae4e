CONSTANTS
  Nodes = {n1, n2}
  Foreign = {}
  CoordEnabled = {n1, n2}
  Tasks = {t1}
  CoordLen = 1
  MaxGen = 1
SPECIFICATION Spec
INVARIANT CoordinatesExchanged
