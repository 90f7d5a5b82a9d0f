SPECIFICATION Spec
CONSTANTS
  update = update
  get = get
  Actions = {update, get}
  MaxRequests = 3
  MaxAcks = 2
  MaxTopics = 4
  MaxHandlers = 3
  Failing <- AllFailing
  CallbackRequests = TRUE
  Reconnects = TRUE
  MaxDepth = 3
INVARIANTS
  TypeOK
  OnlyAcceptedAnswered
