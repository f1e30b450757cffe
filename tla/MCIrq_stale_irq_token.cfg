\* Both waits may expire while the device is about to answer.
CONSTANTS
  t1 = t1  t2 = t2  None = None
  Task = {t1, t2}  Stamp <- Stamps  Expires = TRUE  MaxTokens = 2
SPECIFICATION IrqSpec
INVARIANT FinishedIsTrue
