SPECIFICATION Spec
CONSTANTS
  Students = {s1}
  t1 = t1
  t2 = t2
  Teachers = {t1, t2}
  Rooms = {rm1}
  Bookings = {b1, b2, b3}
  Requests = {r1, r2}
  Windows <- AdjacentWindows
  Modes = {"chat"}
  FullTime = {t2}
  ReverseListed = {}
  Fee <- FeeOne
  InitialCredit = 2
  Buffer = 1
  ZoomLimit = 1
  ReverseFree = FALSE
  LastDay = 0
  MaxCalls = 4
  Ops <- ReassignOps
  NoRoom = NoRoom
  NoTeacher = NoTeacher
CHECK_DEADLOCK FALSE
INVARIANT RestBuffer
