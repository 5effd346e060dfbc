\* Two overlapping lifecycle calls; in half of the behaviours everything may fail.
SPECIFICATION WeatherSpec
CONSTANTS
  Kinds <- UpThenAny
  MaxWatchers = 2
  MaxChanges = 1
  Faults <- EveryFault
INVARIANTS
  NodeTypeOK
  AnswersMatch
  CacheIsCurrent
  SettleNotMissed
  NobodyForgotten
  LogoutHolds
PROPERTIES
  OpsFinishFaulty
\* Once every call has returned nothing is left to do.
CHECK_DEADLOCK FALSE
