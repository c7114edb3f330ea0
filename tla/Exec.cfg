SPECIFICATION Spec
CONSTANTS
  BufferLength = 6
  Behind = 2
INVARIANT TypeOK
INVARIANT WritesInside
INVARIANT TextInv
INVARIANT FirstExact
CHECK_DEADLOCK TRUE
