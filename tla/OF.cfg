\* A text of two and a half buffers; four letters written by each stream over
\* an empty file or a longer one.
SPECIFICATION FilesSpec
CONSTANTS
  TextLength = 5
  BufferSize = 2
  Letters = 4
  OldLengths = {0, 6}
INVARIANTS
  ReadsEachLetter
  LastWriterWins
