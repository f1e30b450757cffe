\* The device answers in time or not at all.
CONSTANTS
  t1 = t1  t2 = t2  None = None
  Task = {t1, t2}  Stamp <- Stamps  Expires = FALSE  MaxTokens = 2
SPECIFICATION FairIrq
INVARIANTS
  FinishedIsTrue
  FinishIsSeen
  NoTokenLeft
  InterruptsStayOn
PROPERTIES
  SubmissionEnds
