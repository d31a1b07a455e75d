SPECIFICATION Spec
CONSTANT MaxHandoffs = 2
PROPERTIES RolledBackStaysOpen
CHECK_DEADLOCK FALSE
