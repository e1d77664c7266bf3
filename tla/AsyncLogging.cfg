\* Buffers of three units and messages of one or two: two short messages, or
\* one long one, fill a buffer, and five messages fill more buffers than exist.
CONSTANTS
  Messages <- MCMessages
  Size <- MCSize
  BufferSize = 3
  DropLimit = 25
  DropNotice = DropNotice
  Null = Null
SPECIFICATION Spec
INVARIANTS
  ConsumerAssertions
  FourBuffers
  MessagesConserved
  CrashOnlyWhenBothFull
PROPERTIES
  MessagesFlushed
  StopReturns
