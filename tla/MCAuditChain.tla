----------------------------- MODULE MCAuditChain -----------------------------
(* Instances of AuditChain for TLC. *)
EXTENDS AuditChain, TLC

CONSTANTS w1, w2

OneWriter  == {w1}
TwoWriters == {w1, w2}
WriterSymmetry == Permutations(TwoWriters)
===============================================================================
