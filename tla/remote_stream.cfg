\* One stream after another, over every layout of MCFiles.
CONSTANTS
  Streams = {s1}
  Files <- MCFiles
  PieceSize = 3
  ReadSize = 2
SPECIFICATION FairSpec
INVARIANTS StreamInv Orderly BytesInOrder EofIsWhole PageIsOnePart OneLateRead GaugeCounts
PROPERTIES WindsDown FeederEnds ReaderEnds DrainEnds
