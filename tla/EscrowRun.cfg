SPECIFICATION OneRun
CONSTANTS
  o1 = o1
  o2 = o2
  p1 = p1
  p2 = p2
  p3 = p3
  noPayment = noPayment
  noOrder = noOrder
  Orders <- TwoOrders
  PaymentIds <- ThreePayments
  NoPayment <- noPayment
  NoOrder <- noOrder
  RequiredXMR = 2
  RequiredZEC = 2
  ConfirmedXMR = 2
  ReportedZEC = 2
  MaxConf = 2
  PayWindow = 1
  ReleaseWindow = 1
  MaxCrashes = 0
  Arbiter = TRUE
SYMMETRY Symmetry
INVARIANTS
  ArmedWhileHeld
PROPERTIES
  EscrowRefinement
