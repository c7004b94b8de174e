SPECIFICATION Spec
CONSTANTS
  p1 = p1
  p2 = p2
  o1 = o1
  o2 = o2
  o3 = o3
  a = a
  b = b
  mine = mine
  oops = oops
  them = them
  typed = typed
  NoObj = NoObj
  NoId = NoId
  Procs <- TwoProcs
  Peers <- TwoPeers
  Short <- Typed
  Objs <- ThreeObjs
  Ids <- AllIds
  Own <- Ours
  With <- WithBoth
  MaxMessages = 2
  MaxCalls = 4
  MaxSaves = 1
  MaxCrashes = 1
SYMMETRY Symmetric
CHECK_DEADLOCK FALSE
INVARIANTS
  TypeOK
  DMsOnce
PROPERTIES
  UnreadFits
