\* A task starts with the largest layer that adlak_invoke_pre_check accepts.
CONSTANTS
  Size = 4  LayerMax = 4  LayersMax = 1  SlowDevice = FALSE
SPECIFICATION RingSpec
INVARIANT AcceptedFits
