CONSTANTS
  Clients = {"c1"}
  Scripts <- MCSingles
  Traffic = FALSE
  Recurring = FALSE
  Nobody = "nobody"
SPECIFICATION Spec
PROPERTIES Answered
