SPECIFICATION Spec
CONSTANTS
  Students = {s1}
  t1 = t1
  t2 = t2
  Teachers = {t1, t2}
  Rooms = {rm1}
  Bookings = {b1, b2, b3}
  Requests = {r1, r2}
  Windows <- AdjacentWindows
  Modes = {"offline"}
  FullTime = {t2}
  ReverseListed = {}
  Fee <- FeeOne
  InitialCredit = 2
  Buffer = 1
  ZoomLimit = 1
  ReverseFree = FALSE
  LastDay = 0
  MaxCalls = 4
  Ops <- Everything
  NoRoom = NoRoom
  NoTeacher = NoTeacher
SYMMETRY Symmetry
CHECK_DEADLOCK FALSE
INVARIANTS Placement TypeOK NoDoubleBooking RestBufferUnderLock RoomExclusive
