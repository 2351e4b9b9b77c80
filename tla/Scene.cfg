CONSTANTS
  a1 = a1
  a2 = a2
  b = b
  c = c
  s1 = s1
  t = t
  mx = mx
  u = u
  Obj = {a1, a2, b, u}
  Name = {a1, b}
  NameOf <- MCSceneNameOf
  Map = {"none", "page"}
  MaxRank = 4
  MaxSize = 4
  MaxDead = 2
  Lockable = {a1, u}
  Sig = {s1, t}
  SigName = {s1, t}
  SigNameOf <- MCSigNameOf
  Method = {mx}
  Methods <- MCMethods
  Pattern = {"*"}
  Event = {"mouseDown"}
  MouseEvent = {"mouseDown"}
  Msg = {"m"}
  MaxList = 2
  MaxMsgs = 2
  MaxPush = 1
  NoList = NoList
  Url = {u}
  Path = {"p", "q"}
  NoPath = NoPath
  Asked = {"file", "graphic", "unknown"}
  MaxPosted = 2
  Alias = {"al"}
  NoName = NoName
  Sessions <- MCSessions
SPECIFICATION SceneSpec
INVARIANTS SceneTypeOK MapsAgree NoTwin CleanupAgrees TargetsAlive MouseReached SavedOnlyGrow AliasesAlive DataOfFile 
PROPERTIES ConnectionsKept SafeSpec
