SPECIFICATION Spec
CONSTANTS
  Sms <- SmsCommands
  Defaults <- Quiet
  PhoneBook <- Book2
  EXPIRE = 100
  SAVED_MESSAGES = 2
  SimSize = 2
  ContactsSearched = 2
  ContactsListed = 2
  DaOverride = 1
  Faults = {"refuse", "netfail", "read", "late"}
  MaxFaults = 1
INVARIANTS
  CommandsStay
