SPECIFICATION FairOutboxSpec
CONSTANTS
  MaxNotices = 2
  Channels = {app, sms}
  MaxAttempts = 3
  RetryBatch = 1
  Retriers = {r1}
  MaxDeaths = 0
CHECK_DEADLOCK FALSE
PROPERTIES RetriedUntilGivenUp
