SPECIFICATION RecordingSpec
CONSTANTS
  MediaCalls = {m1, m2}
  Hooks = {k1}
  Egresses = {e1, e2}
  StopMayFail = FALSE
CHECK_DEADLOCK FALSE
INVARIANTS WithdrawnIsStopped
