CONSTANTS
  m1 = m1
  m2 = m2
  m3 = m3
  m4 = m4
  Ids <- MC_Ids
  Size <- MC_Size
  Overhead = 1
  EncOverhead = 1
  Limits <- MC_Limits
  RetransmitLimit = 2
SPECIFICATION Spec
INVARIANT WithinLimit
INVARIANT NoBudgetUnderflow
