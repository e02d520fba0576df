-------------------------------- MODULE MCLogin --------------------------------
\* Instances of Login for TLC.
EXTENDS Login, TLC

CONSTANTS a, b, right, wrong

BothTiers  == [global |-> 3, client |-> 2]
LoginSymmetry == Permutations(Clients) \cup Permutations(Passphrases)
===============================================================================
