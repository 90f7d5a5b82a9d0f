SPECIFICATION Spec
CONSTANTS
  update = update
  get = get
  Actions = {update, get}
  MaxRequests = 4
  MaxAcks = 2
  MaxTopics = 4
  MaxHandlers = 3
  Failing = {}
  CallbackRequests = FALSE
  Reconnects = FALSE
  MaxDepth = 3
INVARIANTS
  WaitingIsSubscribed
