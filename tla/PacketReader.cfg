SPECIFICATION FairSpec
CONSTANTS
  NumPackets = 3
  MaxPayload = 3
  InitialSize = 5
  MaxTimeouts = 1
  Streams <- MCStreams
INVARIANT Framed
PROPERTY AllDelivered
