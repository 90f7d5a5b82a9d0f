SPECIFICATION Spec
CONSTANTS
  app = app
  other = other
  third = third
  Threads <- DemoThreads
  MayCall <- DemoCalls
  CallbackCalls = {}
  HandlerCalls = {}
  AutoReconnect = TRUE
  BlockOnLock = TRUE
  SslReadErrors = FALSE
  MaxDepth = 4
INVARIANTS
  BusyHasOperation
