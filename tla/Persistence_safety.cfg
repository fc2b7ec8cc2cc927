CONSTANTS
  Slots = 3
  Damages <- MCAny
  MaxStamp = 3
  MaxDamage = 2
SPECIFICATION Spec
INVARIANTS
  NewestFirst
  HashTellsMain
PROPERTIES
  StartsFindTheLastSave
  NewerDataIsLeftAlone
