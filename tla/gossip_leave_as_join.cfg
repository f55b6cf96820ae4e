CONSTANTS
  Nodes = {n1, n2}
  Subject = s
  EventNames = {a}
  EventTimes = {0}
  EventBufferSize = 2
  EventJoinIgnore = FALSE
  MaxIntents = 2
  MaxEvents = 0
  MaxPushPulls = 2
  GarbageTags = {}
SPECIFICATION Spec
\* Once the subject's intents, the push/pulls and the gossip are spent the
\* nodes are idle: nothing in the code runs without a message or a timer.
CHECK_DEADLOCK FALSE
INVARIANT LeaveHeardNotFailed
