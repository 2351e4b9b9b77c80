CONSTANTS
  Clients = {"c1", "c2"}
  Scripts <- MCPairs
  Traffic = TRUE
  Recurring = TRUE
  Nobody = "nobody"
SPECIFICATION Spec
INVARIANTS TypeOK ScriptsWhole
PROPERTIES Answered AllApplied
