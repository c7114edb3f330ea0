SPECIFICATION PSpec
CONSTANTS
  Codes <- ZeroOne
  Quantities <- Zero
  Cids <- Zero
  Oids <- Zero
  MaxNodes = 3
  MaxRows = 1
  UMOD = 2
INVARIANT PTypeOK
INVARIANT ParentsFirst
INVARIANT OneWrite
PROPERTY RoundTrip
PROPERTY RestartRepairs
CHECK_DEADLOCK TRUE
