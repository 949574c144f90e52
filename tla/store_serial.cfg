\* Two updates and a reset over every local store, row and environment, the reset apart
\* from the updates of store.json, and once beside them.
SPECIFICATION FairSpec
CONSTANTS
  Clients = {c1, c2}
  Resets = {r1}
  Boot = Boot
  MaxAttempts = 2
  Situations <- EverySituation
  MaxCrashes = 1
  MaxGenerations = 4
  MaxInodes = 5
INVARIANTS StoreTypeOK KeysFollowDatabase
PROPERTIES ImplementsSerialStore RestartSucceeds UpdatesAreAnswered
CHECK_DEADLOCK FALSE
