SPECIFICATION InventorySpec
CONSTANTS
  a1 = a1
  a2 = a2
  b = b
  hostA = hostA
  hostB = hostB
  m1 = m1
  m2 = m2
  Unknown = Unknown
  NoEndpoint = NoEndpoint
  NoPayload = NoPayload
  Endpoint <- MCEndpoint
  IP <- MCIP
  IpOf <- MCIpOf
  Mac <- MCMac
  OuiFiles <- MCOuiFiles
  PrefixOf <- MCPrefixOf
  NoTable = NoTable
  UnitIdOf <- MCUnitIdOf
  Frames <- MCFrames
  Payload <- MCPayload
  Shape <- MCShape
  Unparsable <- MCUnparsable
  WriteCodes = {"unit2"}
  Orders <- MCOrders
  MaxPackets = 1
INVARIANT RoleRestsOnModbus
CHECK_DEADLOCK FALSE
