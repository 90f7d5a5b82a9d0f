SPECIFICATION Spec
CONSTANTS
  app = app
  other = other
  third = third
  Threads <- AloneThreads
  MayCall <- AloneCalls
  CallbackCalls = {"publish", "subscribe", "unsubscribe", "yield"}
  HandlerCalls = {}
  AutoReconnect = TRUE
  BlockOnLock = TRUE
  SslReadErrors = TRUE
  MaxDepth = 7
INVARIANTS
  TypeOK
  ManualDisconnectHolds
  OfflineIsClosed
PROPERTIES
  NoYieldDuringCallback
  LifecycleSpec
