\* Two evaluations and two approvals of one action that needs review, a reset
\* and transactions that land before, at or after the timeout, or never.
SPECIFICATION MCFlowSpec
CONSTANTS
  e1 = e1  e2 = e2
  r1 = r1  r2 = r2
  yes = yes  sure = sure
  risky = risky  plain = plain
  s1 = s1
  here = here  there = there
  Secrets = {s1}
  Commitments = {"h1"}
  CommitmentOf <- Hash
  RegistrarSecret = s1
  Actions = {risky, plain}
  ReviewActions = {risky}
  Drafts = {}
  Evaluations = {e1, e2}
  Approvals = {r1, r2}
  Contents = {yes, sure}
  NoEvaluation = NoEvaluation
  Contracts = {here, there}
  Watched = here
  NoContract = NoContract
  Validity = 1
  MaxTime = 1
  MaxAnchors = 2
  MaxEpoch = 1
  MaxGenerations = 2
SYMMETRY Interchangeable
INVARIANTS
  FlowTypeOK
  OnePermitPerAction
  DecisionsAreAnchored
  UsableMeansReviewed
  ApprovalsAreBound
CHECK_DEADLOCK FALSE
