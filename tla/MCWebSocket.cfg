SPECIFICATION FairSpec
CONSTANTS
  PeerFrames <- SomeFrames
  MaxFrames = 2
  MaxOut = 2
INVARIANTS
  WireInOrder
  MessagesReassembled
  ForgottenUnlessDropped
PROPERTIES
  WriterAndEnd
