SPECIFICATION Spec
CONSTANTS
  n1 = n1
  n2 = n2
  t1 = t1
  t2 = t2
  None = None
  Net = {n1}
  Task = {t1}
  Owner <- OneModel
  TeeNet = {}
  ShareSwap = FALSE
  InvokeLinked = FALSE
  InvokeCanceled = FALSE
  ForeignIndex = FALSE
  CloseSignals = TRUE
  Suspends = FALSE
  MaxTokens = 1
  MaxPendingNum = 2
  IdleLimit = 1
INVARIANTS
  ContextOutlivesTasks
