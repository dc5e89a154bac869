SPECIFICATION LabelsSpec
CONSTANTS
  Alphanumeric = {"a", "A", "b"}
  ToLower <- MCToLower
  Texts <- MCTexts
  GenesisNames <- MCGenesisNames
  MaxLen = 2
  MaxHeld = 2
  MaxBanned = 2
  TextLen = 3
INVARIANTS
  HeldNamesResolve
PROPERTIES
  ReservedInEverySpelling
