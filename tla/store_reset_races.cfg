\* A reset beside one update of store.json.
SPECIFICATION Spec
CONSTANTS
  Clients = {c1}
  Resets = {r1}
  Boot = Boot
  MaxAttempts = 1
  Situations <- OnlyRacing
  MaxCrashes = 0
  MaxGenerations = 2
  MaxInodes = 5
INVARIANT StoreIsWhole
CHECK_DEADLOCK FALSE
