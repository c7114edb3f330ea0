SPECIFICATION Spec
CONSTANTS
  Codes <- TwoCodes
  Quantities <- OneQuantity
  Cids <- OneCid
  Oids <- OneOid
  MaxNodes = 5
  MaxRows = 2
  UMOD = 2
PROPERTY InsertedRowsAreThere
CHECK_DEADLOCK TRUE
