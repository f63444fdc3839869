SPECIFICATION PaymentsSpec
CONSTANTS
  Handlers = {handler1, handler2}
  Answers = {}
  Requests = {}
  key1 = key1
  key2 = key2
  Keys = {key1, key2}
  paid2 = paid2
  lacking2 = lacking2
  refund1 = refund1
  refund2 = refund2
  failed2 = failed2
  Events = {paid1, refund1, refund2}
  EventType <- TypeOfEvent
  EventKey <- KeyOfEvent
  EventAmount <- AmountOfEvent
  NoAmount = NoAmount
  Needed <- NeedOne
CHECK_DEADLOCK FALSE
PROPERTIES TakenBackOnce
