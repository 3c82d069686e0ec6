SPECIFICATION MatrixSpec
CONSTANTS
  a = a
  b = b
  c = c
  NoEndpoint = NoEndpoint
  NoPayload = NoPayload
  Endpoint <- MCEndpoint
  Frames <- MCFrames
  Payload <- MCPayload
  Shape <- MCShape
  Unparsable <- MCUnparsable
  WriteCodes = {"write"}
  Orders <- MCOrders
  MaxPackets = 4
INVARIANTS
  SessionTypeOK
  SameSessionIffSameEndpoints
  NumberedInFileOrder
  NumberingNeverDrifts
  InitiatorIsFirstOpener
  EveryTcpPacketAccounted
  MatrixAgreesWithConversations
  LabelKeepsConfidence
PROPERTY ImplementsTable
CHECK_DEADLOCK FALSE
