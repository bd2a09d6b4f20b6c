SPECIFICATION Spec
CONSTANTS
  x1 = x1
  a = a
  b = b
  Nobody = Nobody
  Sessions = {x1}
  Students = {a, b}
  Weekday <- MCWeekday
  WeekLength = 2
  LastDay = 3
  Setups <- MCSetups
  MoveTargets = {2, 3}
  MaxRows = 3
  MaxForeign = 1
INVARIANTS
  ServerAgrees
  PlacesFollowLessons
PROPERTIES
  DueAsForecast
  EarnedAsForecast
CHECK_DEADLOCK FALSE
