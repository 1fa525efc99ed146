SPECIFICATION Spec
CONSTANTS
  Requests = {1, 2, 3}
  BodyLen <- MCBodyLen
  Setups <- MCSetups
  Framings = {"length", "chunked"}
  Scripts <- MCScripts
  MaxFaults = 2
  MaxConns = 3
  Reads = {1, 20}
  ShortLen = 2
  KeyLen = 2
INVARIANTS AnswerIsOwn  PoolIsIdle NoSendStranded 
CHECK_DEADLOCK FALSE
