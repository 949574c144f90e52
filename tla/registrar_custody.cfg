\* Four commands in four situations: the security check beside a rotation without
\* faults; a revocation beside a rotation with killed commands, lost replies, racing
\* file updates and a secret the environment provides; a first deployment before and
\* after whatever else runs; and two deployments killed and with lost replies.
SPECIFICATION FairCustodySpec
CONSTANTS
  c1 = c1  c2 = c2  c3 = c3  c4 = c4
  s1 = s1  s2 = s2  s3 = s3  s4 = s4  s5 = s5
  a1 = a1
  Secrets = {s1, s2, s3, s4, s5}
  Commitments = {"h1", "h2", "h3", "h4", "h5"}
  CommitmentOf <- Hash
  Actions = {a1}
  Home = Home
  Away = Away
  FirstSecret = s1
  AwaySecret = s2
  NoSecret = NoSecret
  RandomSecrets <- Draws
  Situations <- FaultlessOrFaulty
  Commands = {c1, c2, c3, c4}
  Drafts <- OneDraft
  MaxTime = 1
  MaxAnchors = 1
  MaxEpoch = 4
INVARIANTS CustodyTypeOK RegistrarStaysKnown
PROPERTIES RotationCutsOff RotationsAreStored
CHECK_DEADLOCK FALSE
