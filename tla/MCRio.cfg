SPECIFICATION FairSpec
CONSTANTS
  Total = 4
  BUFSIZE = 2
  Texts <- MCTexts
  MAXLINE = 4
  Sizes = {1, 3}
INVARIANTS StreamKept EchoAccounted
PROPERTIES LineFits ImplementsStream CallsReturn
CHECK_DEADLOCK FALSE
