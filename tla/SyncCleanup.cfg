CONSTANTS
  a1 = a1
  a2 = a2
  b = b
  c = c
  Obj = {a1, b, c}
  Name = {a1, b, c}
  NameOf <- MCNameOf
  Map = {"none"}
  MaxRank = 4
  MaxSize = 3
  MaxDead = 2
  Lockable = {}
SPECIFICATION Spec
PROPERTIES CleanupComplete
