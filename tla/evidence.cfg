\* Eight settings: origins and approvals, declarations beyond all limits, simulations,
\* and the GitHub App with and without webhooks.
SPECIFICATION Spec
CONSTANTS
  plain = plain  risky = risky  huge = huge
  v1 = v1  v2 = v2  w = w
  Actions = {plain, risky, huge}
  ReviewActions = {risky}
  ExcessiveActions = {huge}
  Sources = {"identity", "ci", "approval", "user"}
  ClassOf <- MCClassOf
  ClaimOf <- MCClaimOf
  RequiredSources = {"identity", "ci"}
  ReviewSources = {"approval"}
  MaxAge = 1
  DefaultAction = plain
  RequestOf <- MCRequestOf
  UserSource = "user"
  ApprovalSource = "approval"
  CiSource = "ci"
  Callers = {v1, v2}
  DeliveryIds = {"d1", "d2", "d3"}
  Runs = {w}
  Builds <- MCBuilds
  NoRun = NoRun
  Skew = 1
  DeliveriesKept = 2
  Validity = 2
  MaxTime = 2
  MaxGenerations = 2
  MaxChanges = 2
  Settings <- MCSettings
SYMMETRY Interchangeable
INVARIANTS
  EvidenceTypeOK
  AllowIsJustified
  AllowPassesContract
  RootsIdentifyEvidence
  CiReceiptsAreObserved
  OneCiReceiptPerAction
  SimulationErasesEvidence
CHECK_DEADLOCK FALSE
