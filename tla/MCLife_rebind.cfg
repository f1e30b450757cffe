SPECIFICATION Spec
CONSTANTS
  MayFail = {}
  MaxMinors = 2
  MaxContexts = 1
  Allow = {"Rebind"}
INVARIANT UsesHeld
