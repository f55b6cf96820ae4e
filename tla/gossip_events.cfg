CONSTANTS
  Nodes = {n1, n2}
  Subject = s
  EventNames = {a}
  EventTimes <- MC_EventTimes
  EventBufferSize = 2
  EventJoinIgnore = FALSE
  MaxIntents = 0
  MaxEvents = 3
  MaxPushPulls = 1
  GarbageTags = {0, 9}
SPECIFICATION Spec
\* Once the events, the push/pulls and the gossip are spent the nodes are
\* idle: nothing in the code runs without a message or a timer.
CHECK_DEADLOCK FALSE
PROPERTIES EventDeliveredOnce
