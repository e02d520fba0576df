------------------------------- MODULE MCFedNode -------------------------------
(***************************************************************************)
(* Instances of FedNode and of Crdt for TLC.  The two share no variable,   *)
(* so a behaviour of the whole node is one of each, interleaved, and a     *)
(* property of one of them needs only that one to move.                    *)
(***************************************************************************)
EXTENDS FedNode, Crdt, TLC

CONSTANTS o1, o2, p1, a1, a2, c1, r1, r2

VARIABLE part    \* the part of the node that moves

MCInit == NodeInit /\ CrdtInit /\ part \in {"node", "data"}

MCNext ==
  /\ \/ part = "node" /\ NodeNext /\ UNCHANGED crdtVars
     \/ part = "data" /\ CrdtNext /\ UNCHANGED nodeVars
  /\ UNCHANGED part

MCSpec == MCInit /\ [][MCNext]_<<nodeVars, crdtVars, part>>

NodeSymmetry ==
  Permutations(Operators) \cup Permutations(Addresses) \cup Permutations(Replicas)

BothLives == {Forever, 0}

\* A CONSTRAINT for long histories of one edge: see NoEdgeVanishes in the README.
EdgesOnly == part = "data" /\ \A n \in DOMAIN updates : updates[n].kind = "edge"
===============================================================================
