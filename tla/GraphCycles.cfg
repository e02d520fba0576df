SPECIFICATION Spec
CONSTANTS
  t1 = t1  t2 = t2  a = a  b = b  g = g  n1 = n1  n2 = n2  n3 = n3  n4 = n4
  NoThread = NoThread
  Threads = {t1, t2}
  Concepts = {a, b, g}
  Sensitive = {g}
  Inputs <- SomeTexts
  Ids = {n1, n2, n3, n4}
  MinNodes = 2
  MaxCommits = 5
  MaxTime = 1
SYMMETRY GraphSymmetry
INVARIANTS PpmiIsDefined NavigateFindsNeighbourhood CacheIsCurrent CachedIdsStayTrue
