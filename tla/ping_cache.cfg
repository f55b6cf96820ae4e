CONSTANTS
  Nodes = {n1, n2}
  Foreign = {f}
  CoordEnabled = {n1}
  Tasks = {t1, t2}
  CoordLen = 1
  MaxGen = 3
SPECIFICATION Spec
INVARIANT CacheSelfCurrent
