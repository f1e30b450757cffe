\* The device answers in time, and the buffer of the profiler may overrun.
CONSTANTS
  t1 = t1  t2 = t2  None = None
  Task = {t1, t2}  Stamp <- Stamps  Expires = FALSE  MaxTokens = 2
SPECIFICATION IrqSpec
INVARIANT InterruptsOn
