\* Two calls on the JSON store (an update commits or throws), with crashes, a
\* reset and a network that is switched between the read and the reservation.
SPECIFICATION Spec
CONSTANTS
  c1 = c1  c2 = c2  c3 = c3
  k1 = k1  k2 = k2
  p1 = p1  p2 = p2  p3 = p3
  n1 = n1  n2 = n2
  preview = preview  preprod = preprod
  Calls = {c1, c2}
  Keys = {k1, k2}
  Permits = {p1, p2}
  Nonces = {n1}
  NonceOf <- OneNonce
  AnchorOf <- MixedAnchor
  Deployments = {preview}
  LocalSimulator = LocalSimulator
  NoDeployment = NoDeployment
  NoCall = NoCall
  LocalMode = TRUE
  Deployable = {p1, p2}
  StoreMayThrow = TRUE
  AckMayBeLost = FALSE
  MayCrash = TRUE
  MaxResets = 1
SYMMETRY SameCallsAndKeys
PROPERTIES
  RecordsProgress
  ImplementsOneTimePermit
CHECK_DEADLOCK FALSE
