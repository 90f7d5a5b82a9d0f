SPECIFICATION FairSpec
CONSTANTS
  update = update
  get = get
  Actions = {update, get}
  MaxRequests = 3
  MaxAcks = 2
  MaxTopics = 4
  MaxHandlers = 4
  Failing = {"publish"}
  CallbackRequests = FALSE
  Reconnects = FALSE
  MaxDepth = 3
INVARIANTS
  AnsweredOnce
  NothingLost
  WaitingIsSubscribed
  HandlersNameLiveEntries
PROPERTIES
  EveryRequestAnswered
