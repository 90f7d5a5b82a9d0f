SPECIFICATION PartsSpec
CONSTANTS
  NumButtons = 1
  CountModulus = 3
  Axes = {x}
  Registers = {0, 2, 3, 31, 32, 61, 63, 64}
  CreateMayFail = TRUE
  Wrap = 8
  Epoch = 5
  Stamps = {0, 4, 5, 7}
  Requests = {0, 2, 11}
  BUFSIZE = 6
  Letters = {a, b}
  MaxTransfers = 4
  SSP_BUF_LEN = 3
  Draws <- MCDraws
  Reachable = TRUE
  SysFailures = 1
  PollFailures = 2
  NotUpdated = 1
  MaxInFlight = 1
  MAX_CUSTOM_HOOKS = 2
  Registrars = {r1, r2}
  Hooks = {f, g}
  NULL = NULL
  Users = {u1, u2}
  QueueLength = 3
  t1 = t1
  t2 = t2
  TopicNames = {t1, t2}
  NumHandlers = 2
  NoTopic = NoTopic
  MaxCalls = 5
  MaxWire = 3
  Radix = 4
  Word = 256
INVARIANTS
  ReportIsRecorded
  ShadowIsCurrent
  OnlyTheRaceStrands
  NoSilentDrift
  ExchangeLeavesNothing
  LineIsEchoed
  FollowsATransfer
  SameSequence
  PinsKept
  OneScanTimer
  OnlyOverlapHooksTwice
  SetUpIsHooked
  NoCommandAfterDelete
  StopIsCarriedOut
  SessionIsExact
  LengthSurvives
PROPERTIES
  PressIsReported
  OneCloudThread
  ReturnIsActedOn
  ClockIsServerTime
  PutIsFollowed
  EntryStays
  PostIsSettled
  DeleteEnds
CHECK_DEADLOCK FALSE
