SPECIFICATION FairSpec
CONSTANTS
  Options <- MCOptions
  NetCap = 2
  N = 3
  Infos <- MCInfos
  Script <- MCScript
INVARIANTS TypeOK MediaInOrder InfoIsOwn AlarmConfirmed KeepAliveIsOwn
PROPERTIES KeepAliveDespiteMedia ClosedSessionEnds SilentSessionEnds
CHECK_DEADLOCK FALSE
