CONSTANTS
  Slots = 5
  Damages <- MCDenied
  MaxStamp = 1
  MaxDamage = 1
SPECIFICATION Spec
PROPERTIES
  LastCopyIsKept
