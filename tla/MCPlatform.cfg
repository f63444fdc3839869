SPECIFICATION Spec
CONSTANTS
  handler1 = handler1
  Handlers = {handler1, handler2}
  Answers = {a1, a2}
  key1 = key1
  key2 = key2
  Keys = {key1, key2}
  Requests = {q1}
  paid1 = paid1
  paid2 = paid2
  refund1 = refund1
  refund2 = refund2
  lacking2 = lacking2
  failed2 = failed2
  Events = {paid1, paid2, refund1, refund2, lacking2, failed2}
  EventType <- TypeOfEvent
  EventKey <- KeyOfEvent
  EventAmount <- AmountOfEvent
  NoAmount = NoAmount
  Needed <- NeedOne
  Subs = {s1, s2}
  Pending = {s1}
  runner1 = runner1
  Runners = {runner1, runner2}
  Subscribers = {c1, c2}
  MaxPeriod = 2
  MaxCaptures = 2
  Accounts = {u1, u2}
  code1 = code1
  Codes = {code1, code2}
  CodeProduct <- OneOfEach
  Products <- Placements
  Redeemers = {d1, d2}
  ExpiryJobs = {j1}
  ValidUntil <- ValidToday
  GrantDays <- ForTwoDays
  WithinDays = 1
  MaxDay = 2
  question1 = question1
  question2 = question2
  question3 = question3
  teacher1 = teacher1
  Questions = {question1, question2, question3}
  Community = {question3}
  Designated <- DesignatedOne
  Teachers = {teacher1, teacher2}
  Unfit = {}
  SoftBlocked = {}
  QnaCalls = {n1, n2}
  FreeQuota = 1
  QuestionFee = 2
  BundleSize = 1
  BundlePrice = 1
  StartCredits = 2
  ReanswerLimit = 2
  Posters = {p1, p2}
  DailyLimit = 2
  MaxSlips = 2
  Replies = {w1, w2}
  Authors = {x1, x2}
  Reporters = {g1, g2}
  HideAt = 2
  MediaCalls = {m1, m2}
  Hooks = {k1}
  Egresses = {e1, e2}
  StopMayFail = TRUE
  reviewer2 = reviewer2
  Reviewers = {reviewer1, reviewer2}
  Pipelines = {l1}
  Reminders = {o1, o5}
  GuardianSees = TRUE
  MaxSendings = 2
  MaxStray = 1
  AutoRequests = {z1}
  Blocks = {b1}
  Escalations = {y1, y2}
  Newcomers = {i1, i2}
  window1 = window1
  Windows = {window1, f2}
  Passes = {t1, t2}
  client2 = client2
  Clients = {client1, client2}
  FillPeriod = 2
  FillTTL = 1
  MaxTime = 2
  MaxNotices = 1
  Channels = {app, sms}
  MaxAttempts = 3
  RetryBatch = 1
  Retriers = {r3, r4}
  MaxDeaths = 2
  Askers = {a5, a6}
  Purposes = {ocr, consulting}
  ReservedPurposes = {consulting}
  TotalLimit = 3
  DiscretionaryTotal = 2
  PurposeLimit <- TwoEach
  AbuseLimit = 1
  Entitled = 1
  MaxEntitled = 3
  MaxOther = 2
  link1 = link1
  LinkCalls = {link1, link2}
  PlanCalls = {c3, c4, c6}
  Plans = {plan1}
  RelinkMax = 2
  MaxUnlocks = 1
  Officers = {o2, o3, o4}
  MaxCharges = 2
  Done = {d3, d4, d7}
  Raters = {r5, r6, r7}
  Announcements = {n3}
  Audience = {u3, u4}
  TickRuns = {t3, t4}
  Cancellers = {c5, c7}
  claim3 = claim3
  Claims = {m3, m4, claim3}
  Desks = {d5, d6}
  device2 = device2
  device3 = device3
  Devices = {device1, device2, device3}
  OwnerOf <- OneTeacherDevice
  message2 = message2
  Messages = {message1, message2}
  FreeLimit = 1
  HistoryLimit = 1
  MaxJoins = 3
  MaxCalls = 3
  Admins = {s5, s6}
  MaxMonth = 2
  MaxSessions = 1
  MaxRows = 2
  MaxSettled = 2
  edit1 = edit1
  Edits = {edit1, edit2}
  MaxDate = 2
  DayLength = 8
  SlotMin = 2
  BufferMin = 2
  HalfDay = 4
  Templates <- WorkOrRest
  WeekPlans <- SecondShorter
  StayTime <- HomeEarly
  BlockedTime <- OnceBlocked
  MaxPlaced = 3
CHECK_DEADLOCK FALSE
INVARIANTS EventsTellTheLedger NoPeriodSkipped  EntitlementsConsistent
  QuestionsSettled OneAcceptedAnswer BoardIsFair RecordedOnlyWithBoth OneNoticePerSending
  BookedOnce DeliveredOnce SpentWithinLimits AnsweredOncePerProposal RatingIsCurrent
  HeardOnce OneOwner ChatConsistent SettlementIsFair CalendarIsKept
PROPERTIES ImplementsPaymentLife ChargedTwiceOnlyInArrears KeptUntilReleased
  RelinkedOnlyWhenEnded PaidBeforeReview
