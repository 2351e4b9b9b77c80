CONSTANTS
  Objects = {"a"}
  Scene <- MCScene
  Watches <- MCBounce
  Inputs <- MCBounceInputs
  MaxArrivals = 1
  Amounts = {0}
  LastDate = 1
SPECIFICATION Spec
PROPERTIES TickEnds
