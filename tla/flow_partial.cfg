SPECIFICATION Spec
CONSTANTS
  Sms <- SmsLive
  Defaults <- Quiet
  PhoneBook <- Book2
  EXPIRE = 100
  SAVED_MESSAGES = 3
  SimSize = 2
  ContactsSearched = 2
  ContactsListed = 3
  DaOverride = 0
  Faults = {"netfail"}
  MaxFaults = 1
INVARIANTS
  ForwardedIsHandled
