SPECIFICATION FairSpec
CONSTANTS
  Task = {1, 2}
  Executor = {e1}
  NoExecutor = none
  Key = {"gpu"}
  Capability = {"local", "remote"}
  Offer <- AllOffers
  Slots <- TwoSlots
  Requests <- LeaseRequests
  ChildRequests = {}
  MaxChildren = 1
  MaxActive = 1
  Reboots = {1}
  MaxFence = 2
  MaxEpoch = 2
INVARIANTS
  ReservationExclusive
  QueuedClaimable
  ExternalFenced
PROPERTIES
  OverdueObserved
  SettleStep
