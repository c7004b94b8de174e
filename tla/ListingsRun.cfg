SPECIFICATION ListingsSpec
CONSTANTS
  boot = boot
  peer = peer
  l1 = l1
  l2 = l2
  NoCopy = NoCopy
  Nodes <- TwoNodes
  Bootstrap = boot
  ListingIds <- TwoListings
  Seller <- Sellers
  WebTTL = 1
  CmdTTL = 0
  MaxTime = 1
  MaxListingSaves = 1
  MaxRestarts = 1
CHECK_DEADLOCK FALSE
INVARIANTS
  ListingsTypeOK
  MineAreMine
PROPERTIES
  SignedStays
  PageArrives
