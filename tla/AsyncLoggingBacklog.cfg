\* Two long and one short message before the consumer runs: the third buffer
\* is missing.
CONSTANTS
  Messages <- MCMessages
  Size <- MCSize
  BufferSize = 3
  DropLimit = 25
  DropNotice = DropNotice
  Null = Null
SPECIFICATION Spec
INVARIANT AppendSurvivesBacklog
