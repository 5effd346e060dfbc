\* A second up, with a key, while the node of the first is up.
SPECIFICATION WeatherSpec
CONSTANTS
  Kinds <- KeyThenKey
  MaxWatchers = 2
  MaxChanges = 1
  Faults = {}
INVARIANTS
  SettledByItsEngine
CHECK_DEADLOCK FALSE
