SPECIFICATION Spec
CONSTANTS
  update = update
  get = get
  Actions = {update, get}
  MaxRequests = 3
  MaxAcks = 2
  MaxTopics = 4
  MaxHandlers = 4
  Failing = {}
  CallbackRequests = TRUE
  Reconnects = FALSE
  MaxDepth = 3
INVARIANTS
  NothingLost
