CONSTANTS
  Null = Null
  ARows <- MCARows
  BRows <- MCBRows
  Names <- MCNames
  Keyless <- MCKeyless
  MaxChanges = 2
SPECIFICATION Spec
INVARIANTS
  OutputExact
  SubscriberExact
  CacheExact
PROPERTIES
  Answered
CHECK_DEADLOCK FALSE
