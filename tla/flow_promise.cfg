SPECIFICATION Spec
CONSTANTS
  Sms <- SmsPromise
  Defaults <- Verbose
  PhoneBook <- Book2
  EXPIRE = 100
  SAVED_MESSAGES = 3
  SimSize = 3
  ContactsSearched = 2
  ContactsListed = 3
  DaOverride = 0
  Faults = {"refuse", "netfail", "silent", "unregistered", "write", "crash"}
  MaxFaults = 2
INVARIANTS
  TypeOK
  NoDuplicateEntry
  DeletesWhatItRead
  ForwardedIsHandled
PROPERTIES
  KeepsPromise
