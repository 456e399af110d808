CONSTANTS
  NameUpper = NameUpper
  NameLower = NameLower
  u1 = u1
  u2 = u2
  NoURL = NoURL
  Keys <- MCKeys
  Lower <- MCLower
  URLs <- MCURLs
  Address <- MCAddress
  Envs <- MCEnvs

SPECIFICATION Spec

INVARIANTS
  TypeOK
  AllUsableInOrder
  SettingsAreUsed

\* The call ends when it returns.
CHECK_DEADLOCK FALSE
