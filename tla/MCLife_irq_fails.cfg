SPECIFICATION Spec
CONSTANTS
  MayFail = {"irq"}
  MaxMinors = 2
  MaxContexts = 1
  Allow = {}
PROPERTY ProbeEnds
CHECK_DEADLOCK FALSE
