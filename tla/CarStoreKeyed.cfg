SPECIFICATION KeyedSpec
CONSTANTS
  Codes <- TwoCodes
  Quantities <- OneQuantity
  Cids <- TwoCids
  Oids <- TwoOids
  MaxNodes = 4
  MaxRows = 2
  UMOD = 8
INVARIANT CountsCover
INVARIANT TypeCountExact
CHECK_DEADLOCK TRUE
