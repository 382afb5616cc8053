SPECIFICATION Spec
CONSTANTS
  Depth = 4
  Modulus = 19
  Known = {"fault"}
  Later = {"adbms"}
  MaxBoots = 1
  MaxDamages = 1
CHECK_DEADLOCK FALSE
INVARIANTS
  TypeOK
  HeaderIsTheJournal
PROPERTIES
  KeepsJournal
