SPECIFICATION Spec
CONSTANTS
  Procs = {p1, p2}
  small = small
  big = big
  Refs = {small, big}
  Price <- SmallAndBig
  Keys = {k1}
  PayAmount = 2
  Weekly = 2
  Monthly = FALSE
  MaxLots = 3
  MaxTime = 2
  MaxCharges = 1
CHECK_DEADLOCK FALSE
INVARIANTS SlipsNeedACrossing
PROPERTIES RowsMoveCredits SoonestSpentFirst NoCarryOver
