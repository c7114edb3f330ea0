SPECIFICATION Spec
CONSTANTS
  Mantissa = 4
  MonthDays = 2
  Databases <- Contents
  Queries <- Statements
  Exprs <- AllExprs
  Parts <- ExprParts
  RECORD_COLUMNS = 8
  RECS_INITIAL_LENGTH = 6
  INT_MAX = 100
  REPLY_CELLS = 6
INVARIANT PointersInside
INVARIANT RowsExact
INVARIANT GroupsExact
INVARIANT OrderedAs
INVARIANT Survives
PROPERTY VisitsNext
PROPERTY QueryEnds
CHECK_DEADLOCK TRUE
