SPECIFICATION Spec
CONSTANTS
  a = a
  b = b
  d = d
  noReg = noReg
  Nodes <- TwoNodes
  Claimants <- Rivals
  Domains <- OneDomain
  Bootstrap <- NodeA
  NoReg <- noReg
  TTL = 1
  MaxTime = 4
  MaxListed = 2
  Importing = TRUE
  Transferring = TRUE
CHECK_DEADLOCK FALSE
INVARIANTS
  Agreement
  OwnedIsListed
PROPERTIES
  NeverOlder
  RegistrationLasts
