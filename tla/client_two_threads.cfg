SPECIFICATION Spec
CONSTANTS
  app = app
  other = other
  third = third
  Threads <- DemoThreads
  MayCall <- TwoThreadCalls
  CallbackCalls = {}
  HandlerCalls = {}
  AutoReconnect = TRUE
  BlockOnLock = TRUE
  SslReadErrors = FALSE
  MaxDepth = 3
INVARIANTS
  TransientHasOwner
  BusyHasOperation
