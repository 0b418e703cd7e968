SPECIFICATION CacheSpec
CONSTANTS
  r1 = r1  r2 = r2  r3 = r3  s1 = s1  s2 = s2
  k1 = k1  k2 = k2  k3 = k3
  Run = {r1, r2, r3}
  Source = {s1, s2}
  Keys = {k1, k2, k3}
  KeyOf <- MCKeyOf
  MaxBinaries = 2
  MaxCompiles = 1
  RebuildsRace = FALSE
SYMMETRY MCRuns
INVARIANTS HitsAreOwn
PROPERTIES NothingDropped
CHECK_DEADLOCK FALSE
