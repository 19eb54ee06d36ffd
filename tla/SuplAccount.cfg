SPECIFICATION Spec
CONSTANTS
  none = none
  a = a
  torn = torn
  unset = unset
  Values = {none, a}
  Empty = none
  Torn = torn
  Unset = unset
  Accounts = {0, 1}
  Refused = {"apn", "login", "server", "account", "clock", "ni"}
  MaxSets = 3
INVARIANTS
  NoSettingLost
  NoAccountLeaks
  DoneIsComplete
