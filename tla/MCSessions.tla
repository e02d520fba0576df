------------------------------ MODULE MCSessions ------------------------------
\* Instances of Sessions for TLC.
EXTENDS Sessions, TLC

CONSTANTS a, b

ClientSymmetry == Permutations(Callers)
===============================================================================
