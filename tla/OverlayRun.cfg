SPECIFICATION Spec
CONSTANTS
  b = b
  peer = peer
  w1 = w1
  w2 = w2
  self = self
  NoPeer = NoPeer
  Self <- self
  Peers <- TwoPeers
  Bootstrap <- Boot
  Mortal <- OneMortal
  Workers <- TwoWorkers
  PingAfter = 0
  DropAfter = 1
  BucketOf <- Buckets
  K = 1
  MinHops = 2
  MaxHops = 3
  MaxHeard = 1
CHECK_DEADLOCK FALSE
INVARIANTS
  TablesAgree
  OnionHasRelays
PROPERTIES
  PingedBeforeForgotten
  SilentForgotten
