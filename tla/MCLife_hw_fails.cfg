SPECIFICATION Spec
CONSTANTS
  MayFail = {"hw"}
  MaxMinors = 2
  MaxContexts = 1
  Allow = {}
INVARIANT UsesHeld
