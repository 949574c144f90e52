\* No crash and no store failure; GitHub may stay silent, resets may happen.
SPECIFICATION FairSpec
CONSTANTS
  c1 = c1  c2 = c2  c3 = c3
  k1 = k1  k2 = k2
  p1 = p1  p2 = p2  p3 = p3
  n1 = n1  n2 = n2
  preview = preview  preprod = preprod
  Calls = {c1, c2}
  Keys = {k1, k2}
  Permits = {p1, p3}
  Nonces = {n1, n2}
  NonceOf <- TwoNonces
  AnchorOf <- LocalAnchors
  Deployments = {}
  LocalSimulator = LocalSimulator
  NoDeployment = NoDeployment
  NoCall = NoCall
  LocalMode = TRUE
  Deployable = {p1}
  StoreMayThrow = FALSE
  AckMayBeLost = FALSE
  MayCrash = FALSE
  MaxResets = 1
PROPERTIES
  ReservationsSettle
  CallsAreAnswered
CHECK_DEADLOCK FALSE
