\* Two initialisations, and four ways to edit the configuration.
SPECIFICATION Spec
CONSTANTS
  Ids = {"orchestrator", "approver", "executor", "operator", "second", "shared", "approver-key-local"}
  None = None
  Unread = Unread
  Rejected = Rejected
  MaxInits = 2
  Edits <- MCEdits
INVARIANTS
  OneDutyPerToken
  WorkerIsServed
CHECK_DEADLOCK FALSE
