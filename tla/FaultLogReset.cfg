SPECIFICATION Spec
CONSTANTS
  Depth = 3
  Modulus = 21
  Known = {"fault"}
  Later = {}
  MaxBoots = 2
  MaxDamages = 1
CHECK_DEADLOCK FALSE
PROPERTIES
  ResetKeepsRecords
