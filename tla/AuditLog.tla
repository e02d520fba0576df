------------------------------- MODULE AuditLog -------------------------------
(***************************************************************************)
(* What the audit trail of modules/memory.py promises, stated without its  *)
(* hash chain: an append-only sequence of records ("Memory is permanent"). *)
(* The spine of a record never changes, and its payload can only be        *)
(* nullified, never replaced (the prevent_update trigger).                 *)
(***************************************************************************)
EXTENDS Integers, Sequences

CONSTANT Spine      \* what a record fixes for ever: kind, classification, ...

VARIABLE log        \* sequence of [spine, erased]

Init == log = <<>>

\* One more record, with its payload, at the end.
AppendOne ==
  /\ Len(log') = Len(log) + 1
  /\ SubSeq(log', 1, Len(log)) = log
  /\ log'[Len(log')] \in [spine : Spine, erased : {FALSE}]

\* The payloads of some records are nullified, everything else stays.
Erase ==
  \E S \in SUBSET DOMAIN log :
    log' = [i \in DOMAIN log |->
              IF i \in S THEN [log[i] EXCEPT !.erased = TRUE] ELSE log[i]]

Next == AppendOne \/ Erase

Spec == Init /\ [][Next]_log
===============================================================================
