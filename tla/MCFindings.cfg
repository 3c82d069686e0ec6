SPECIFICATION FindingsSpec
CONSTANTS
  a = a
  b = b
  c = c
  NoEndpoint = NoEndpoint
  NoPayload = NoPayload
  Endpoint <- MCEndpoint
  Frames <- MCFrames
  Payload <- MCPayload
  Shape <- MCShape
  Unparsable <- MCUnparsable
  WriteCodes = {"write"}
  Orders <- MCOrders
  MaxPackets = 3
  CheckFiles <- MCCheckFiles
  CatalogueFiles <- MCCatalogueFiles
INVARIANTS
  EndpointsAreThePackets
  WritesAreTheClients
  CleartextFoundOnce
  WriteImpliesUse
  ModbusRecognitionsExclusive
  OneClientPerSessionAndProtocol
  ReportedOnce
  CitedOrNothing
CHECK_DEADLOCK FALSE
