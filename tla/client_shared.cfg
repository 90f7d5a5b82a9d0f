SPECIFICATION Spec
CONSTANTS
  app = app
  other = other
  third = third
  Threads <- SharedThreads
  MayCall <- SharedCalls
  CallbackCalls = {}
  HandlerCalls = {"publish", "subscribe", "disconnect", "yield"}
  AutoReconnect = FALSE
  BlockOnLock = FALSE
  SslReadErrors = TRUE
  MaxDepth = 3
INVARIANTS
  Exclusive
