CONSTANTS
  Nodes = {n1}
  Foreign = {f}
  CoordEnabled = {n1}
  Tasks = {t1}
  CoordLen = 1
  MaxGen = 1
SPECIFICATION Spec
INVARIANT UpdateUsesPeerCoordinate
