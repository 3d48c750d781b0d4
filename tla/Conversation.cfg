SPECIFICATION FairSpec
CONSTANTS
  half1 = half1  half2 = half2
  Pieces = {half1, half2}  Secret <- MCSecret
  Raw <- MCRaw  Refusal = Refusal  None = None
  MaxAsks = 2  MaxPieces = 2
CHECK_DEADLOCK FALSE
INVARIANTS
  TypeOK OneQuestionOnThePage TurnsAreOfTheirQuestion ApprovalsNameTheirTrace
  WaitsForItsStream RestIsComplete NoPromptIsWritten
PROPERTIES WaitingEnds
