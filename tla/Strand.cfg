SPECIFICATION FairSpec
CONSTANTS
  Workers = {w1, w2}
  Clients = {c1, c2}
  Handlers = {h1, h2, h3}
  NoHandler = NoHandler
PROPERTIES ImplementsSerialExecutor PostedHandlersRun
CHECK_DEADLOCK FALSE
