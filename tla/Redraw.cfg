CONSTANTS
  a1 = a1
  a2 = a2
  b = b
  c = c
  Obj = {a1, a2, b, c}
  Name = {a1, b, c}
  NameOf <- MCNameOf
  Map = {"none"}
  MaxRank = 2
  MaxSize = 3
  MaxDead = 2
  Lockable = {a2}
  Addresses <- MCAddresses
  Sessions <- MCSessions
SPECIFICATION RedrawSpec
INVARIANTS RedrawTypeOK Acyclic SortProgress CheckLoopAgrees NothingStale
PROPERTIES RelationsKept FrameEnds
