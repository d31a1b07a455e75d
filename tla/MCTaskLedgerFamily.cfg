SPECIFICATION Spec
CONSTANTS
  Task = {1, 2, 3}
  Executor = {e1}
  NoExecutor = none
  Key = {}
  Capability = {"parent", "child", "work", "join"}
  Offer <- AllOffers
  Slots <- TwoSlots
  Requests <- FamilyRequests
  ChildRequests <- FamilyChildren
  MaxChildren = 2
  MaxActive = 1
  Reboots = {}
  MaxFence = 2
  MaxEpoch = 2
INVARIANTS
  ChildrenContained
  ParentSucceedsLast
  AdmissionHonest
