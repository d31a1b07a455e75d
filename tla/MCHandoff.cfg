SPECIFICATION Spec
CONSTANT MaxHandoffs = 2
INVARIANTS WriterFollows JournalsAgree
PROPERTIES TransferRefined PauseEnds
CHECK_DEADLOCK FALSE
