CONSTANTS
  Procs = {p1, p2}
  TimeWidth = 3
  Times <- MC_PeerMax
  IncBudget = 2
  OverflowChecks = FALSE
SPECIFICATION Spec
PROPERTY ClockMonotone
