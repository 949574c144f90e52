\* Three registrations by up to two further registrars, over three block times.
SPECIFICATION LedgerSpec
CONSTANTS
  s1 = s1  s2 = s2  s3 = s3
  a1 = a1  a2 = a2
  Secrets = {s1, s2, s3}
  Commitments = {"h1", "h2", "h3"}
  CommitmentOf <- Hash
  Actions = {a1, a2}
  Drafts <- SomeDrafts
  MaxTime = 2
  MaxAnchors = 3
  MaxEpoch = 3
INVARIANTS
  LedgerTypeOK
  OneAllowPerAction
  UsedActionsAreAnchored
  AllowsAreBacked
PROPERTIES
  AnchorsAppendOnly
  RevocationFreezes
CHECK_DEADLOCK FALSE
