SPECIFICATION HttpSpec
CONSTANTS
  Numbers <- MCNumbers
  Requests <- MCRequests
  Answer <- Answered
  MaxRequests = 2
  CutsCRLF = FALSE
INVARIANTS PiecesDoNotMatter HeadIsSent AnswersHaveRequests ResponseIsSent
PROPERTY FirstIsAnswered
CHECK_DEADLOCK FALSE
