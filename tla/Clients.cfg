SPECIFICATION FairSpec
CONSTANTS
  Readers = {r1}
  MaxVersion = 2
  MaxGen = 2
  MaxUid = 2
  MaxFaults = 1
INVARIANTS
  TypeOK
  TokenNotOlderThanTag
PROPERTIES
  NeverAnOlderToken
  NoTokenComesBack
  ClientOfItsSpec
  RotationIsPickedUp
