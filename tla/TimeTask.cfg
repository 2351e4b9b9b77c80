CONSTANTS
  Objects = {"a", "b", "c"}
  Scene <- MCScene
  Watches <- MCWatches
  Inputs <- MCInputs
  MaxArrivals = 3
  Amounts = {0, 1}
  LastDate = 2
SPECIFICATION Spec
INVARIANTS TypeOK OneMove DatesAnnounced DurationsAnnounced
PROPERTIES EventsDelayed NothingLeft TickEnds
