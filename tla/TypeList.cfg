SPECIFICATION Spec
CONSTANTS
  Codes <- TwoCodes
  Quantities <- OneQuantity
  MaxNodes = 4
  MaxRows = 2
  UMOD = 8
INVARIANT TypeOK
INVARIANT NextGrows
PROPERTY WalkEnds
PROPERTY ImplementsCarStore
CHECK_DEADLOCK TRUE
