SPECIFICATION Spec
CONSTANTS
  Caller = {c1, c2}
  Namespace = {n1}
  k1 = k1
  k2 = k2
  Key = {k1, k2}
  Modulus = 3
  Programs <- MCPrograms
  Overlays <- MCOverlays
  KeyLists <- MCKeyLists
  MaxEvents = 4
  Interleaved = FALSE
INVARIANT EventsTellTheStore
PROPERTY PersistsAsIfDirect
