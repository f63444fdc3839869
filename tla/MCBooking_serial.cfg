SPECIFICATION LiveSpec
CONSTANTS
  Students = {s1}
  t1 = t1
  t2 = t2
  Teachers = {t1, t2}
  Rooms = {rm1}
  Bookings = {b1, b2}
  Requests = {r1}
  Windows <- SpreadWindows
  Modes = {"chat"}
  FullTime = {t2}
  ReverseListed = {}
  Fee <- FeeOne
  InitialCredit = 2
  Buffer = 1
  ZoomLimit = 1
  ReverseFree = TRUE
  LastDay = 1
  MaxCalls = 3
  Ops <- SerialOps
  NoRoom = NoRoom
  NoTeacher = NoTeacher
CHECK_DEADLOCK FALSE
INVARIANTS NoStraySlots
PROPERTIES ImplementsLifecycle UnackedIsSwept
