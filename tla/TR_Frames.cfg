SPECIFICATION Spec
CONSTANTS
  StrMax = 1
  BlobMax = 1
  Malformed = Malformed
  Messages <- MCMessages
  Payloads <- MCPayloads
  MaxFramePayload = 10
  FrameMagic = 77
  FrameVersion = 1
  NoiseWords = {0, 2, 11}
  BufferSize = 4
  MaxFrames = 2
INVARIANT CleanNeverRejected
PROPERTIES ImplementsChannel EveryFrameArrives
CHECK_DEADLOCK FALSE
