SPECIFICATION DissectSpec
CONSTANTS
  a = a
  b = b
  NoEndpoint = NoEndpoint
  NoPayload = NoPayload
  Endpoint <- MCEndpoint
  Frames <- MCFrames
  Payload <- MCPayload
  Shape <- MCShape
  Unparsable <- MCUnparsable
  WriteCodes = {"write"}
  Orders <- MCOrders
  MaxPackets = 1
INVARIANT NoneRecognisedIsTrue
CHECK_DEADLOCK FALSE
