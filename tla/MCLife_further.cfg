\* Further properties of the instance of MCLife_life.cfg.
SPECIFICATION Spec
CONSTANTS
  MayFail = {"major", "class", "alloc", "resource", "region", "ids", "pm", "mem", "dpm", "minor", "cdev", "node", "sysfs"}
  MaxMinors = 2
  MaxContexts = 1
  Allow = {}
INVARIANTS
  LifeTypeOK
  LifeInv
