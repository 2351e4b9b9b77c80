CONSTANTS
  Producers = {"osc","gui"}
  TimeTask = "gui"
  Size = 3
  MaxPush = 8
  MaxStops = 0
  AvoidWrap = TRUE
SPECIFICATION Spec
INVARIANTS NoStaleFetch
