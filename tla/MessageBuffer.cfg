CONSTANTS
  Producers = {"osc"}
  TimeTask = "gui"
  Size = 3
  MaxPush = 8
  MaxStops = 2
  AvoidWrap = TRUE
SPECIFICATION Spec
INVARIANTS TypeOK NoStaleFetch NoOverrun
PROPERTIES FifoSpec
