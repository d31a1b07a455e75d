CONSTANTS
  Locals = {1, 2}
  Acts = {3}
  Kinds = {"plain", "relay", "host_only"}
  None = None
  MaxSessions = 2
  MaxFaults = 1
SPECIFICATION FairSpec
CHECK_DEADLOCK FALSE
INVARIANTS BearerHeld OneCustodian RelinquishedGone AbortedNeverAccepted
 
