---------------------------- MODULE MCFedExchange ----------------------------
\* Instances of FedExchange for TLC.
EXTENDS FedExchange, TLC

CONSTANTS o1, o2, p1, p2

NodeSymmetry == Permutations(Operators) \cup Permutations(Peers)
===============================================================================
