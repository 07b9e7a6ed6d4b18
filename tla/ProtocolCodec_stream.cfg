\* All streams of up to 16 bits in pieces of up to 7: body_length 3 to 5 is valid,
\* 0 to 2 too short, 6 to 15 too long, and two messages fit in a stream.
CONSTANTS
  Base = 2
  HeaderSize = 4
  IdSize = 1
  MAX_PAYLOAD_SIZE = 2
  MaxStream = 16
  MaxPiece = 7
SPECIFICATION Spec
INVARIANTS
  Lossless
  PiecesDoNotMatter
  Prompt
\* The stream ends, or is closed.
CHECK_DEADLOCK FALSE
