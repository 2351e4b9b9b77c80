CONSTANTS
  Producers = {"osc"}
  TimeTask = "gui"
  Size = 3
  MaxPush = 8
  MaxStops = 0
  AvoidWrap = FALSE
SPECIFICATION Spec
INVARIANTS NoOverrun
