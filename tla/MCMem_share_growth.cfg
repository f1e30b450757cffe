SPECIFICATION Spec
SYMMETRY Handles
ACTION_CONSTRAINT MemClients
CONSTANTS
  n1 = n1
  n2 = n2
  h1 = h1
  h2 = h2
  h3 = h3
  Net = {n1, n2}
  Handle = {h1, h2, h3}
  NoHandle = NoHandle
  NoBuf = NoBuf
  Reserved = 5
  Failed = {0}
  PublicPages = 1
  MaxPages = 2
  SharePages = 2
  ShareSwap = TRUE
  Allow = {"ShareRefused"}
INVARIANT
  PlacedDisjoint
