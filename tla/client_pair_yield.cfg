SPECIFICATION Spec
CONSTANTS
  app = app
  other = other
  third = third
  Threads <- DemoThreads
  MayCall <- PairCalls
  CallbackCalls = {}
  HandlerCalls = {}
  AutoReconnect = TRUE
  BlockOnLock = TRUE
  SslReadErrors = FALSE
  MaxDepth = 3
PROPERTIES
  NoYieldDuringCallback
