SPECIFICATION Spec
CONSTANTS
  key = key
  pw = pw
  NoProfile = NoProfile
  FailureNotice = FailureNotice
  Profiles <- MCProfiles
  PasswordProfiles <- MCSecrets
  SecretProfiles <- MCSecrets
  MaxRequests = 3
  MaxNested = 1
INVARIANTS TypeOK Sequential AsAccepted
PROPERTIES UploadsGoWhereShown EveryRequestEnds ImplementsSerial
