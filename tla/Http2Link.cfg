SPECIFICATION Spec
CONSTANTS
  DefaultWindow = 4
  MaxWindow = 60
  DefaultMaxFrame = 2
  LongHeaders = {"request"}
  Services = {"grpc", "grpc_tls", "frpc", "frpc_tls", "http"}
  CopyCalls = 1
  Methods <- MCMethods
  QuietCalls = 1
  MaxMessages = 1
  Settings <- MCSettings
  Troubles = {"FAILURE", "PING", "GOAWAY"}
INVARIANTS
  
  
  CreditConserved
  
CHECK_DEADLOCK FALSE
