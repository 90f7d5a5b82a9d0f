SPECIFICATION Spec
CONSTANTS
  app = app
  other = other
  third = third
  Threads <- AloneThreads
  MayCall <- AloneCalls
  CallbackCalls = {"publish", "subscribe", "unsubscribe", "yield", "connect",
    "reconnect", "resubscribe"}
  HandlerCalls = {"publish", "connect", "disconnect", "reconnect", "yield"}
  AutoReconnect = TRUE
  BlockOnLock = FALSE
  SslReadErrors = TRUE
  MaxDepth = 7
INVARIANTS
  StateMatchesStack
