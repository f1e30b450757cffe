SPECIFICATION Spec
SYMMETRY Handles
CONSTANTS
  n1 = n1
  n2 = n2
  h1 = h1
  h2 = h2
  h3 = h3
  Net = {n1, n2}
  Handle = {h1, h2, h3}
  NoHandle = NoHandle
  PublicQueue = PublicQueue
  NoBuf = NoBuf
  Public = Public
  NoNet = NoNet
  Bits = 5
  Excluded = {0}
  MaxPages = 2
  Allow = {"FreeAfter"}
INVARIANT
  TablesAtHand
