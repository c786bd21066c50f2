SPECIFICATION FairSpec
CONSTANTS
  Sms <- SmsPair
  Defaults <- Quiet
  PhoneBook <- Book2
  EXPIRE = 100
  SAVED_MESSAGES = 3
  SimSize = 3
  ContactsSearched = 2
  ContactsListed = 3
  DaOverride = 1
  Faults = {}
  MaxFaults = 0
PROPERTIES
  AllForwarded
