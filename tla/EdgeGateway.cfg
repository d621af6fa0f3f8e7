SPECIFICATION FairGatewaySpec
CONSTANTS
  Protocols = {"mqtt", "modbus_tcp", "http_json"}
  QueueMax = 2
  MaxIterations = 3
  Registers = 2
  Keys = {"noon"}
  MaxMessages = 4
  MaxFaults = 2
INVARIANTS
  GatewayTypeOK
  Accounted
PROPERTIES
  EndsClean
CHECK_DEADLOCK FALSE
