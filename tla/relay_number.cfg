SPECIFICATION Spec
CONSTANTS
  MSG_TEXT_LIMIT = 140
  Senders <- MCSenders
  Destinations <- MCDestinations
  Refs = {0, 77}
  Originals <- MCOriginals
INVARIANT NumberReached
CHECK_DEADLOCK FALSE
