\* One device.  Every step may fail whose failure the code survives.
SPECIFICATION Spec
CONSTANTS
  MayFail = {"major", "class", "alloc", "resource", "region", "ids", "pm", "mem", "dpm", "minor", "cdev", "node", "sysfs"}
  MaxMinors = 2
  MaxContexts = 1
  Allow = {}
INVARIANTS
  UsesHeld
  AllOrNothing
  PowerAgrees
PROPERTIES
  ProbeEnds
