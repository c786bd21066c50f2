SPECIFICATION FairSpec
CONSTANTS
  Sms <- SmsLive
  Defaults <- Quiet
  PhoneBook <- Book2
  EXPIRE = 100
  SAVED_MESSAGES = 3
  SimSize = 2
  ContactsSearched = 2
  ContactsListed = 3
  DaOverride = 0
  Faults = {"refuse", "netfail", "silent", "unregistered", "noprompt", "late"}
  MaxFaults = 2
PROPERTIES
  NeverStuck
