\* One call and nothing but the network between the backend and GitHub at fault.
SPECIFICATION Spec
CONSTANTS
  c1 = c1  c2 = c2  c3 = c3
  k1 = k1  k2 = k2
  p1 = p1  p2 = p2  p3 = p3
  n1 = n1  n2 = n2
  preview = preview  preprod = preprod
  Calls = {c1}
  Keys = {k1, k2}
  Permits = {p1, p2}
  Nonces = {n1}
  NonceOf <- OneNonce
  AnchorOf <- LocalAnchor
  Deployments = {}
  LocalSimulator = LocalSimulator
  NoDeployment = NoDeployment
  NoCall = NoCall
  LocalMode = TRUE
  Deployable = {p1, p2}
  StoreMayThrow = FALSE
  AckMayBeLost = FALSE
  MayCrash = FALSE
  MaxResets = 0
INVARIANT FailedMeansNoEffect
CHECK_DEADLOCK FALSE
