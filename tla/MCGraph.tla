-------------------------------- MODULE MCGraph --------------------------------
\* Instances of Graph for TLC.
EXTENDS Graph, TLC

CONSTANTS t1, t2, a, b, g, n1, n2, n3, n4

Text(s, sensitive) == [concepts |-> s, sensitive |-> sensitive, crisis |-> FALSE]

\* Two orders of one pair, a sensitive concept, a single concept, and a crisis.
SomeTexts ==
  {Text(<<a, b>>, FALSE), Text(<<b, a>>, FALSE), Text(<<b, g>>, TRUE), Text(<<a>>, FALSE),
   [Text(<<a, b>>, FALSE) EXCEPT !.crisis = TRUE]}

GraphSymmetry == Permutations(Threads) \cup Permutations(Ids)
===============================================================================
