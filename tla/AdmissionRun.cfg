SPECIFICATION FairSpec
CONSTANTS
  p = p
  none = none
  Peers <- OnePeer
  Burst = 2
  Rate = 1
  Window = 1
  Bans <- ShortBans
  Validity = 1
  None = none
  MaxNet = 2
  MaxOdd = 1
INVARIANTS
  RateBound
PROPERTIES
  BanLapses
  VerifiedAgain
