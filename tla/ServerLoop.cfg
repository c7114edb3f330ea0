SPECIFICATION Spec
CONSTANTS
  c1 = c1
  c2 = c2
  c3 = c3
  Clients <- ThreeClients
  Polite <- OnePolite
  MaxClient = 2
  Backlog = 1
  Window = 1
  MaxSent <- Requests
INVARIANT TypeOK
INVARIANT NeverBlocks
INVARIANT SlotInv
INVARIANT OwnAnswer
PROPERTY Served
PROPERTY Answered
CHECK_DEADLOCK FALSE
