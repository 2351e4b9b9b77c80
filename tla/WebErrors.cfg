CONSTANTS
  Clients = {"c1", "c2"}
  Scripts <- MCSingles
  Traffic = FALSE
  Recurring = FALSE
  Nobody = "nobody"
SPECIFICATION Spec
INVARIANTS ErrorReported
