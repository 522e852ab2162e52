\* An idle scheduler: iterations that take no time, sixty seconds.
CONSTANTS
  Second = 20
  Overshoot = 1
  MaxWork = 0
  Horizon = 60
SPECIFICATION Spec
PROPERTY EverySecondExamined
CHECK_DEADLOCK FALSE
