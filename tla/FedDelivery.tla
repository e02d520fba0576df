----------------------------- MODULE FedDelivery -----------------------------
(***************************************************************************)
(* What the exchange of federation messages promises, without its tables,  *)
(* its threads or its network: a peer takes the messages it was offered in *)
(* the order of their numbers, none skipped, and a message is offered only *)
(* when the consent it goes under was in force when the operator asked.    *)
(***************************************************************************)
EXTENDS Integers, FiniteSets

CONSTANTS Peers, Operators, Consents, Numbers

VARIABLES
  inForce,   \* the consents in force, with the peer each one is for
  cleared,   \* what each operator may offer, asked under a consent in force
  offered,   \* messages offered: their peer and number
  taken      \* per peer, the numbers taken

vars == <<inForce, cleared, offered, taken>>

TypeOK ==
  /\ inForce \subseteq Consents \X Peers
  /\ cleared \in [Operators -> SUBSET Peers]
  /\ offered \subseteq Peers \X Numbers
  /\ taken \in [Peers -> SUBSET Numbers]

Init ==
  /\ inForce = {}
  /\ cleared = [o \in Operators |-> {}]
  /\ offered = {}
  /\ taken = [p \in Peers |-> {}]

\* Consents come and go: granted, expired, revoked.
Decide ==
  /\ inForce' \in SUBSET (Consents \X Peers)
  /\ UNCHANGED <<cleared, offered, taken>>

Clear(o) ==
  /\ \E grant \in inForce : cleared' = [cleared EXCEPT ![o] = {grant[2]}]
  /\ UNCHANGED <<inForce, offered, taken>>

Offer(o) ==
  /\ \E p \in cleared[o], n \in Numbers : offered' = offered \cup {<<p, n>>}
  /\ cleared' = [cleared EXCEPT ![o] = {}]
  /\ UNCHANGED <<inForce, taken>>

Take(p) ==
  /\ taken' = [taken EXCEPT ![p] = @ \cup {Cardinality(@) + 1}]
  /\ <<p, Cardinality(taken[p]) + 1>> \in offered
  /\ UNCHANGED <<inForce, cleared, offered>>

\* The operator's node dies: what was cleared and not offered is forgotten.
Forget ==
  /\ cleared' = [o \in Operators |-> {}]
  /\ UNCHANGED <<inForce, offered, taken>>

Next ==
  \/ Decide \/ Forget
  \/ \E o \in Operators : Clear(o) \/ Offer(o)
  \/ \E p \in Peers : Take(p)

Spec == Init /\ [][Next]_vars
===============================================================================
