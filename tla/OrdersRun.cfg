SPECIFICATION Spec
CONSTANTS
  me = me
  other = other
  mine = mine
  theirs = theirs
  none = none
  Local = me
  Parties <- TwoParties
  Listings <- OneListing
  SellerOf <- Sellers
  Stock <- Stocks
  None = none
  MaxIds = 4
  MaxSaves = 1
  MaxCrashes = 1
CHECK_DEADLOCK FALSE
INVARIANTS
  OrdersIndexed
  OneOpenDispute
  ReviewsFiled
PROPERTIES
  PaidNotCancelled
