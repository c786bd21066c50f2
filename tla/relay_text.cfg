SPECIFICATION Spec
CONSTANTS
  MSG_TEXT_LIMIT = 140
  Senders <- MCSenders
  Destinations <- MCDestinations
  Refs = {0, 77}
  Originals <- MCOriginals
INVARIANTS
  TypeOK
  PartsCoverText
  LengthWithinData
  DecodedBegins
  SinglePduBegins
  ForwardedWhole
  CommandNumberKnown
CHECK_DEADLOCK FALSE
