SPECIFICATION Spec
CONSTANTS
  Pages = {p1, p2}
  FirstPage = p1
  Types = {"1"}
  Codes = {"1", "2"}
  Numbers = {1, 2, 3}
  FirstCars <- TwoCars
  MaxClicks = 3
  MaxUnderWay = 1
INVARIANT ShownAfterDelete
CHECK_DEADLOCK FALSE
