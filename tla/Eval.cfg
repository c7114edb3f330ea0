SPECIFICATION EvalSpec
CONSTANTS
  Mantissa = 4
  MonthDays = 2
  Patterns <- SomePatterns
  Texts <- SomeTexts
  Families <- SomeFamilies
INVARIANT LikeExact
INVARIANT CompareSound
CHECK_DEADLOCK TRUE
