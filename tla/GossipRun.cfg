SPECIFICATION FairSpec
CONSTANTS
  a = a
  b = b
  c = c
  m1 = m1
  m2 = m2
  noAddress = noAddress
  g1 = g1
  g2 = g2
  Nodes <- Three
  Messages <- TwoMessages
  Sender <- SenderEnds
  Topologies <- OnePath
  NoAddress <- noAddress
  Goroutines <- TwoGoroutines
  TTL = 1
  Window = 1
  MaxNonces = 1
  MaxTime = 2
  Ahead <- AheadC
  Prompt = TRUE
CHECK_DEADLOCK FALSE
INVARIANTS
  DeliverOnce
  OnceByNonce
  RoutesInTree
PROPERTIES
  ReachesTree
