---------------------------- MODULE MCConsentLedger ----------------------------
\* Instances of ConsentLedger for TLC.
EXTENDS ConsentLedger, TLC

CONSTANTS c1, c2, p1, p2, alice, self

Grantable(k, class, until) ==
  [key |-> k, class |-> class, ops |-> {"navigate"}, until |-> until,
   basis |-> "consent", parent |-> 0]

Asked(k, class, crisis) ==
  [key |-> k, class |-> class, op |-> "navigate", crisis |-> crisis]

OneProcess   == [w \in Callers |-> p1]
TwoProcesses == (c1 :> p1) @@ (c2 :> p2)

\* A standing consent, granted directly or delegated from the first or second
\* row of the ledger or from an id that is not there.
Delegable == {[Grantable(alice, 2, 0) EXCEPT !.parent = p] : p \in {0, 1, 2, 9}}

\* A standing consent, a narrower one that expires, and an opt-out.
GateOffers == {Grantable(alice, 2, 0), Grantable(alice, 1, 1),
               [Grantable(alice, 2, 1) EXCEPT !.basis = "opt_out"]}

GateRequests ==
  {Asked(alice, 2, FALSE), Asked(alice, 4, FALSE), Asked(self, 0, TRUE),
   [Asked(alice, 0, FALSE) EXCEPT !.op = "share"]}

Profile(days, optOut, until) ==
  [reconfirmDays |-> days, optOutModel |-> optOut, untilRequired |-> until]

Standard    == {Profile(2, FALSE, FALSE)}
AllProfiles == {Profile(1, FALSE, FALSE), Profile(1, TRUE, FALSE),
                Profile(1, FALSE, TRUE)}

(***************************************************************************)
(* Two scenarios in one run, told apart by the profile: delegated consents *)
(* granted and revoked (Delegation), and the gate asked in each of its     *)
(* modes while consents come, expire and go.                               *)
(***************************************************************************)
Delegation == Standard
Scenarios  == Delegation \cup AllProfiles
AllOffers  == Delegable \cup GateOffers

InScenario ==
  LET gate    == profile \notin Delegation
      offers  == {rows[r].offer : r \in DOMAIN rows} \cup
                 {frame[w].offer : w \in {v \in Callers : pc[v] \in {"allocate", "bump", "insert"}}}
  IN /\ offers \subseteq IF gate THEN GateOffers ELSE Delegable
     /\ gate => Len(rows) <= 2 /\ nextIdx <= 2
     /\ ~gate => /\ mode = "enforced" /\ clock = 0
                 /\ \A w \in Callers : pc[w] \notin {"find", "judge", "decided"}

CallerSymmetry == Permutations(Callers)
===============================================================================
