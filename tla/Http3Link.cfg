SPECIFICATION Spec
CONSTANTS
  Quarter = 4
  StaticTable <- MCStaticTable
  MaxUni = 3
  MaxBidi = 2
  Handler <- MCHandler
  Pushes <- MCPushes
  Requests = {1, 2, 3, 4}
  RequestOf <- MCRequestOf
  Setups <- MCSetups
  PacketSize = 34
  MaxRounds = 12
  MaxIdle = 1
  MaxReorder = 1
  MaxConns = 2
INVARIANTS  H3RequestWhole 
CHECK_DEADLOCK FALSE
