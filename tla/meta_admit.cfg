CONSTANTS
  Nodes = {n1, n2}
  Foreign = {f}
  WithDelegate = {n1}
  Limits = {1}
  MetaMaxSize = 1
  META_MAX_SIZE = 1
  MaxTagLen = 2
SPECIFICATION Spec
INVARIANT AdmittedConvertible
INVARIANT MetaNeverPanics
