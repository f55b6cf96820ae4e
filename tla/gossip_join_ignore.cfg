CONSTANTS
  Nodes = {n1, n2}
  Subject = s
  EventNames = {a}
  EventTimes <- MC_EventTimes
  EventBufferSize = 2
  EventJoinIgnore = TRUE
  MaxIntents = 0
  MaxEvents = 2
  MaxPushPulls = 1
  GarbageTags = {}
SPECIFICATION Spec
CHECK_DEADLOCK FALSE
PROPERTY JoinIgnoreReplaysNothing
