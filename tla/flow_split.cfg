SPECIFICATION Spec
CONSTANTS
  Sms <- SmsSplit
  Defaults <- Quiet
  PhoneBook <- Book2
  EXPIRE = 100
  SAVED_MESSAGES = 5
  SimSize = 3
  ContactsSearched = 2
  ContactsListed = 3
  DaOverride = 1
  Faults = {"refuse", "netfail", "write"}
  MaxFaults = 1
INVARIANTS
  ForwardedOnce
  ObeyedOnce
  AssembledWhole
