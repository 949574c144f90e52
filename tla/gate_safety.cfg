\* Three calls compete for two permits of one action; crashes, a reset, failing
\* updates and lost COMMIT replies may happen anywhere.
SPECIFICATION Spec
CONSTANTS
  c1 = c1  c2 = c2  c3 = c3
  k1 = k1  k2 = k2
  p1 = p1  p2 = p2  p3 = p3
  n1 = n1  n2 = n2
  preview = preview  preprod = preprod
  Calls = {c1, c2, c3}
  Keys = {k1, k2}
  Permits = {p1, p2}
  Nonces = {n1}
  NonceOf <- OneNonce
  AnchorOf <- LocalAnchor
  Deployments = {}
  LocalSimulator = LocalSimulator
  NoDeployment = NoDeployment
  NoCall = NoCall
  LocalMode = TRUE
  Deployable = {p1, p2}
  StoreMayThrow = TRUE
  AckMayBeLost = TRUE
  MayCrash = TRUE
  MaxResets = 1
SYMMETRY Interchangeable
INVARIANTS
  TypeOK
  OneEffectPerPermit
  OneEffectPerNonce
  ReservationsDisjoint
  PendingHasNoEffect
  AnswersAreTruthful
  ReplayIsSameRecord
CHECK_DEADLOCK FALSE
