SPECIFICATION FairSpec
CONSTANTS
  p1 = p1
  p2 = p2
  r1 = r1
  r2 = r2
  a = a
  b = b
  mine = mine
  me = me
  them = them
  none = none
  NoOne = none
  NoRoom = none
  NoId = none
  Mgr = Mgr
  Procs <- TwoProcs
  Rooms <- TwoRooms
  Ids <- AllIds
  Own <- Mine
  Sender <- SenderOf
  Local = me
  Stamp <- StampOf
  MaxMessages = 2
  Loaded <- FullRoom
  MaxCalls = 4
CHECK_DEADLOCK FALSE
INVARIANTS
  NoDuplicates
  NothingLost
  OnlineAreKnown
  CircleHasLister
PROPERTIES
  CallsReturn
