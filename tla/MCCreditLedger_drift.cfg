SPECIFICATION Spec
CONSTANTS
  Procs = {p1, p2}
  small = small
  big = big
  Refs = {small, big}
  Price <- SmallAndBig
  Keys = {}
  PayAmount = 2
  Weekly = 2
  Monthly = FALSE
  MaxLots = 2
  MaxTime = 3
  MaxCharges = 1
CHECK_DEADLOCK FALSE
INVARIANT GrantedIsLots
