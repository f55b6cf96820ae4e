CONSTANTS
  Procs = {p1, p2}
  TimeWidth = 3
  Times <- MC_TimesWithMax
  IncBudget = 3
  OverflowChecks = TRUE
SPECIFICATION Spec
\* Every task may panic on the peer's u64::MAX; a panicked task never runs again.
CHECK_DEADLOCK FALSE
PROPERTIES WrapPanics WitnessTerminates AtomicClockSpec
