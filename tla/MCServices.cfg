SPECIFICATION FairSpec
CONSTANTS
  chat = chat  batch = batch
  Service = {chat, batch}
  Restart <- Restarts  HasReady <- Readiness
  FastLimit = 2  MaxDelay = 1
INVARIANT StopComplete
INVARIANT ReadyIsCurrent
PROPERTY LaunchesAlone
PROPERTY SupervisionProgresses
CHECK_DEADLOCK FALSE
