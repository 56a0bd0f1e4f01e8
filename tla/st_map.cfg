SPECIFICATION Spec
CONSTANTS
  t1 = t1
  t2 = t2
  u = u
  v = v
  w = w
  Keys = {t1, t2, u, v, w}
  Texts = {"t", "u", "v", "w"}
  Spell <- SmallSpell
  Hash <- SmallHash
  Records = {1, 2}
  Primes <- SmallPrimes
  MinSize = 2
  Density = 0
  NONE = NONE
INVARIANTS TypeOK BinsSound CountRight DensityKept
PROPERTIES ImplementsMap
CHECK_DEADLOCK FALSE
