----------------------------- MODULE ConsentLedger -----------------------------
(***************************************************************************)
(* The consent ledger and its gate: api/consent/ledger.py, status_list.py  *)
(* and enforcement.py.  Threads of several processes grant, revoke and     *)
(* check consents kept in one SQLite file; each call is a series of        *)
(* transactions (or of reads in autocommit) between which other calls run. *)
(*                                                                         *)
(* The audit records of these calls are left to AuditChain: their failure  *)
(* is swallowed and nothing here reads them.                               *)
(*                                                                         *)
(* A key stands for the (subject, requester, purpose) a consent is about.  *)
(* Row r of the ledger is the r-th one inserted; its number stands for the *)
(* consent_id.                                                             *)
(***************************************************************************)
EXTENDS Integers, Sequences, FiniteSets

CONSTANTS
  Callers,         \* threads
  Processes,       \* the processes they belong to: status_list._lock is one per process
  ProcessOf,       \* [Callers -> Processes]
  NoCaller,        \* the lock is free
  Keys,            \* (subject, requester, purpose)
  SelfKeys,        \* the keys whose subject is the requester
  Operations,      \* operations a consent may allow
  Offers,          \* the consent records callers grant
  Requests,        \* the requests the gate is asked about
  Modes,           \* settings of the gate's three switches
  Profiles,        \* regulatory profiles the deployment may select
  MaxRows,         \* bound: rows of the ledger
  MaxIndexes,      \* bound: status list indexes allocated
  MaxTime          \* bound: clock, in days

GateModes == {"disabled", "audit_only", "not_enforced", "enforced"}

OfferType ==
  [key : Keys, class : Nat, ops : SUBSET Operations, until : Nat,
   basis : {"consent", "opt_out"},   \* until = 0: valid_until is NULL
   parent : Nat]                     \* delegated_from, 0 when NULL

\* reconfirm_days, glba_opt_out_model, and whether valid_until is required.
ProfileType == [reconfirmDays : Nat, optOutModel : BOOLEAN, untilRequired : BOOLEAN]

RequestType == [key : Keys, class : Nat, op : Operations, crisis : BOOLEAN]

ASSUME LedgerConstants ==
  /\ ProcessOf \in [Callers -> Processes]
  /\ NoCaller \notin Callers
  /\ SelfKeys \subseteq Keys
  /\ Offers \subseteq OfferType
  /\ Requests \subseteq RequestType
  /\ Modes \subseteq GateModes
  /\ Profiles \subseteq ProfileType
  /\ MaxRows \in Nat /\ MaxIndexes \in Nat /\ MaxTime \in Nat

VARIABLES
  rows,      \* table consent_ledger, in the order of insertion
  nextIdx,   \* table consent_status_list_counter
  lock,      \* holder of status_list._lock in each process
  receipts,  \* calls of revoke() that returned True, per row
  mode,      \* the gate's switches, read once from the environment
  profile,   \* the regulatory profile, likewise
  clock,     \* time.time(), in days
  pc, frame  \* where each caller is, and its local variables

vars == <<rows, nextIdx, lock, receipts, mode, profile, clock, pc, frame>>
ledger == <<rows, nextIdx, lock, receipts>>
config == <<mode, profile>>

-------------------------------------------------------------------------------
(* Rows and calls *)

Rows == [offer : OfferType, granted : Nat, idx : Nat,
         status : {"active", "revoked"}, how : {"", "direct", "cascade"},
         known : Nat]     \* known: rows in the ledger when this one was revoked

PCs == {"idle", "allocate", "bump", "insert",
        "revoke", "revoked", "find", "judge", "decided"}

Reasons == {"", "barrier", "disabled", "not_enforced", "self-access",
            "opt-out-active", "opt-in-default", "no-consent-record",
            "reconfirm", "operation", "ceiling", "active-consent-found"}

\* One caller's call: the record being granted, or the row being revoked, or
\* the request being decided with the answer so far.
Call == [offer : Offers, granted : Nat, idx : Nat]
Kill == [row : Nat]
Ask  == [request : Requests, since : Nat, dead : SUBSET Nat, optedOut : SUBSET Nat,
         found : Nat, allowed : BOOLEAN, reason : Reasons]

NoFrame == [row |-> 0]

TypeOK ==
  /\ rows \in Seq(Rows) /\ Len(rows) <= MaxRows
  /\ nextIdx \in Nat
  /\ lock \in [Processes -> Callers \cup {NoCaller}]
  /\ receipts \in [1 .. MaxRows -> Nat]
  /\ mode \in Modes /\ profile \in Profiles
  /\ clock \in 0 .. MaxTime
  /\ pc \in [Callers -> PCs]
  /\ \A w \in Callers :
       /\ pc[w] = "idle" => frame[w] = NoFrame
       /\ pc[w] \in {"allocate", "bump", "insert"} => frame[w] \in Call
       /\ pc[w] \in {"revoke", "revoked"} =>
            frame[w] \in Kill /\ frame[w].row \in DOMAIN rows
       /\ pc[w] \in {"find", "judge", "decided"} => frame[w] \in Ask

Active(r) == rows[r].status = "active"

Init ==
  /\ rows = <<>>
  /\ nextIdx = 0
  /\ lock = [p \in Processes |-> NoCaller]
  /\ receipts = [r \in 1 .. MaxRows |-> 0]
  /\ mode \in Modes /\ profile \in Profiles
  /\ clock = 0
  /\ pc = [w \in Callers |-> "idle"]
  /\ frame = [w \in Callers |-> NoFrame]

Goto(w, label, f) ==
  /\ pc' = [pc EXCEPT ![w] = label]
  /\ frame' = [frame EXCEPT ![w] = f]

Return(w) == Goto(w, "idle", NoFrame)

-------------------------------------------------------------------------------
(* grant() *)

\* profile.validate_record: a record the profile refuses raises ValueError and
\* changes nothing.
Valid(o) ==
  /\ o.basis = "opt_out" => profile.optOutModel
  /\ profile.untilRequired => o.until # 0

\* The record carries granted_at from its construction.
Grant(w, o) ==
  /\ pc[w] = "idle"
  /\ Valid(o)
  /\ Goto(w, "allocate", [offer |-> o, granted |-> clock, idx |-> 0])
  /\ UNCHANGED <<ledger, config, clock>>

\* Mutant: the counter is read without status_list._lock.
AllocateRead_NoLock(w) ==
  /\ pc[w] = "allocate"
  /\ nextIdx < MaxIndexes
  /\ Goto(w, "bump", [frame[w] EXCEPT !.idx = nextIdx])
  /\ UNCHANGED <<ledger, config, clock>>

\* allocate_index: under the process's lock, the SELECT in autocommit ...
AllocateRead(w) ==
  /\ pc[w] = "allocate"
  /\ lock[ProcessOf[w]] = NoCaller
  /\ nextIdx < MaxIndexes
  /\ lock' = [lock EXCEPT ![ProcessOf[w]] = w]
  /\ Goto(w, "bump", [frame[w] EXCEPT !.idx = nextIdx])
  /\ UNCHANGED <<rows, nextIdx, receipts, config, clock>>

\* ... and the UPDATE in a transaction of its own.
AllocateWrite(w) ==
  /\ pc[w] = "bump"
  /\ nextIdx' = frame[w].idx + 1
  /\ lock' = [lock EXCEPT ![ProcessOf[w]] = NoCaller]
  /\ Goto(w, "insert", frame[w])
  /\ UNCHANGED <<rows, receipts, config, clock>>

NewRow(f) ==
  [offer |-> f.offer, granted |-> f.granted, idx |-> f.idx,
   status |-> "active", how |-> "", known |-> 0]

\* The INSERT, and the consent_id goes back to the caller.  The foreign key on
\* delegated_from is enforced, nothing else is asked of the parent.
InsertRow(w) ==
  /\ pc[w] = "insert"
  /\ frame[w].offer.parent <= Len(rows)
  /\ Len(rows) < MaxRows
  /\ rows' = Append(rows, NewRow(frame[w]))
  /\ Return(w)
  /\ UNCHANGED <<nextIdx, lock, receipts, config, clock>>

\* IntegrityError: the index is lost.
InsertFails(w) ==
  /\ pc[w] = "insert"
  /\ frame[w].offer.parent > Len(rows)
  /\ Return(w)
  /\ UNCHANGED <<ledger, config, clock>>

-------------------------------------------------------------------------------
(* revoke() *)

\* The status is read in autocommit; a row already revoked ends the call.
Revoke(w, r) ==
  /\ pc[w] = "idle"
  /\ Active(r)
  /\ Goto(w, "revoke", [row |-> r])
  /\ UNCHANGED <<ledger, config, clock>>

\* Mutant: there is no cascade.
Cascaded_None(r) == {}

\* The children the cascade reaches: one level, active rows.
Cascaded(r) == {c \in DOMAIN rows : rows[c].offer.parent = r /\ Active(c)}

\* The transaction BEGIN IMMEDIATE ... COMMIT.
RevokeWrite(w) ==
  LET gone(c, how) == [rows[c] EXCEPT !.status = "revoked", !.how = how,
                                      !.known = Len(rows)]
  IN /\ pc[w] = "revoke"
     /\ rows' = [c \in DOMAIN rows |->
                   IF c = frame[w].row THEN gone(c, "direct")
                   ELSE IF c \in Cascaded(frame[w].row) THEN gone(c, "cascade")
                   ELSE rows[c]]
     /\ Goto(w, "revoked", frame[w])
     /\ UNCHANGED <<nextIdx, lock, receipts, config, clock>>

\* The answer True.
Revoked(w) ==
  /\ pc[w] = "revoked"
  /\ receipts' = [receipts EXCEPT ![frame[w].row] = @ + 1]
  /\ Return(w)
  /\ UNCHANGED <<rows, nextIdx, lock, config, clock>>

-------------------------------------------------------------------------------
(* ConsentGate.decide() and ConsentLedger.check() *)

\* Mutant: an opt-out expires.
OptOuts_Expire(k) == {r \in DOMAIN rows : /\ rows[r].offer.key = k
                                          /\ rows[r].offer.basis = "opt_out"
                                          /\ rows[r].offer.until > clock
                                          /\ Active(r)}

\* The opt-outs in force for a key, whatever their valid_until.
OptOuts(k) == {r \in DOMAIN rows : /\ rows[r].offer.key = k
                                   /\ rows[r].offer.basis = "opt_out"
                                   /\ Active(r)}

\* Mutant: the status is not looked at.
InForce_AnyStatus(k) ==
  {r \in DOMAIN rows : /\ rows[r].offer.key = k
                       /\ rows[r].offer.until = 0 \/ rows[r].offer.until > clock}

\* The WHERE clause of _find_active; valid_from is not asked about.
InForce(k) ==
  {r \in DOMAIN rows : /\ rows[r].offer.key = k
                       /\ Active(r)
                       /\ rows[r].offer.until = 0 \/ rows[r].offer.until > clock}

Barrier(q) == q.crisis \/ q.class >= 4

\* The decision of the ledger goes back through the gate: in audit-only mode
\* the answer is yes whatever the ledger says.
Answer(w, f, allowed, reason) ==
  Goto(w, "decided", [f EXCEPT !.allowed = allowed \/ mode = "audit_only",
                               !.reason = reason])

\* The gate up to the ledger: barriers first, then the switches.
Decide(w, q) ==
  LET f == [request |-> q, since |-> clock, found |-> 0, allowed |-> FALSE,
            reason |-> "", optedOut |-> OptOuts(q.key),
            dead |-> {r \in DOMAIN rows : ~Active(r)}]
      gate(allowed, reason) ==
        Goto(w, "decided", [f EXCEPT !.allowed = allowed, !.reason = reason])
  IN /\ pc[w] = "idle"
     /\ \/ Barrier(q) /\ gate(FALSE, "barrier")
        \/ ~Barrier(q) /\ mode = "disabled" /\ gate(TRUE, "disabled")
        \/ ~Barrier(q) /\ mode = "not_enforced" /\ gate(TRUE, "not_enforced")
        \/ ~Barrier(q) /\ mode \in {"audit_only", "enforced"} /\ Goto(w, "find", f)
     /\ UNCHANGED <<ledger, config, clock>>

\* _check_inner up to the row of _find_active: the newest one in force, any of
\* them when several were granted at the same time.
Find(w) ==
  LET f == frame[w]
      k == f.request.key
  IN /\ pc[w] = "find"
     /\ \/ /\ k \in SelfKeys
           /\ Answer(w, f, TRUE, "self-access")
        \/ /\ k \notin SelfKeys /\ profile.optOutModel
           /\ \/ OptOuts(k) # {} /\ Answer(w, f, FALSE, "opt-out-active")
              \/ OptOuts(k) = {} /\ Answer(w, f, TRUE, "opt-in-default")
        \/ /\ k \notin SelfKeys /\ ~profile.optOutModel
           /\ \/ InForce(k) = {} /\ Answer(w, f, FALSE, "no-consent-record")
              \/ \E r \in InForce(k) :
                   /\ \A s \in InForce(k) : rows[s].granted <= rows[r].granted
                   /\ Goto(w, "judge", [f EXCEPT !.found = r])
     /\ UNCHANGED <<ledger, config, clock>>

\* needs_reconfirmation: nothing ever sets last_reconfirmed after the grant.
NeedsReconfirmation(row) ==
  row.offer.until = 0 /\ clock - row.granted >= profile.reconfirmDays

\* The rest of _check_inner, on the record in memory.
Judge(w) ==
  LET f   == frame[w]
      row == rows[f.found]
      ok  == f.request.op \in row.offer.ops
  IN /\ pc[w] = "judge"
     /\ \/ NeedsReconfirmation(row) /\ Answer(w, f, FALSE, "reconfirm")
        \/ ~NeedsReconfirmation(row) /\ ~ok /\ Answer(w, f, FALSE, "operation")
        \/ /\ ~NeedsReconfirmation(row) /\ ok
           /\ f.request.class > row.offer.class
           /\ Answer(w, f, FALSE, "ceiling")
        \/ /\ ~NeedsReconfirmation(row) /\ ok
           /\ f.request.class <= row.offer.class
           /\ Answer(w, f, TRUE, "active-consent-found")
     /\ UNCHANGED <<ledger, config, clock>>

\* The caller acts on the decision.
Decided(w) ==
  /\ pc[w] = "decided"
  /\ Return(w)
  /\ UNCHANGED <<ledger, config, clock>>

-------------------------------------------------------------------------------
(* The environment *)

\* A process dies: its calls are lost, its transactions rolled back.
Crash(p) ==
  LET mine == {w \in Callers : ProcessOf[w] = p}
  IN /\ \E w \in mine : pc[w] # "idle"
     /\ pc' = [w \in Callers |-> IF w \in mine THEN "idle" ELSE pc[w]]
     /\ frame' = [w \in Callers |-> IF w \in mine THEN NoFrame ELSE frame[w]]
     /\ lock' = [lock EXCEPT ![p] = NoCaller]
     /\ UNCHANGED <<rows, nextIdx, receipts, config, clock>>

Tick ==
  /\ clock < MaxTime
  /\ clock' = clock + 1
  /\ UNCHANGED <<ledger, config, pc, frame>>

Next ==
  \/ \E w \in Callers :
       \/ \E o \in Offers : Grant(w, o)
       \/ AllocateRead(w) \/ AllocateWrite(w)
       \/ InsertRow(w) \/ InsertFails(w)
       \/ \E r \in DOMAIN rows : Revoke(w, r)
       \/ RevokeWrite(w) \/ Revoked(w)
       \/ \E q \in Requests : Decide(w, q)
       \/ Find(w) \/ Judge(w) \/ Decided(w)
  \/ \E p \in Processes : Crash(p)
  \/ Tick

Spec == Init /\ [][Next]_vars

-------------------------------------------------------------------------------
(* Properties *)

\* When the gate enforces, a yes rests on one consent that covers the request
\* and was in force when the call began or later: it had not been revoked
\* before the call, had not expired, and was confirmed recently enough.  What
\* changes between the read of the row and the answer cannot make an older
\* revocation or expiry count for less.
AllowedByConsentInForce ==
  \A w \in Callers :
    LET f == frame[w]
        c == rows[f.found]
    IN ( /\ pc[w] = "decided" /\ f.allowed /\ mode = "enforced"
         /\ f.request.key \notin SelfKeys /\ ~profile.optOutModel )
       => /\ f.found \in DOMAIN rows \ f.dead
          /\ c.offer.key = f.request.key
          /\ f.request.op \in c.offer.ops
          /\ f.request.class <= c.offer.class
          /\ c.offer.until # 0 => c.offer.until > f.since
          /\ c.offer.until = 0 => f.since - c.granted < profile.reconfirmDays

\* Under the opt-out model, a yes to a call that began while an opt-out was in
\* force means that opt-out has been revoked since.
OptOutHonoured ==
  \A w \in Callers :
    ( /\ profile.optOutModel /\ mode = "enforced" /\ pc[w] = "decided" /\ frame[w].allowed
      /\ frame[w].request.key \notin SelfKeys )
    => \A r \in frame[w].optedOut : ~Active(r)

\* No two rows of the ledger share an index of the status list, when all
\* callers are threads of one process.
IndexNeverShared ==
  \A r, s \in DOMAIN rows : r # s => rows[r].idx # rows[s].idx

\* A delegated consent outlives its parent only in two ways: the parent was
\* itself revoked by a cascade, or the child was inserted after the parent was
\* revoked.
CascadeReachesChildren ==
  \A c \in DOMAIN rows :
    LET p == rows[c].offer.parent
    IN (Active(c) /\ p # 0 /\ ~Active(p)) =>
         rows[p].how = "cascade" \/ c > rows[p].known

-------------------------------------------------------------------------------
(* Claims of the documentation that the code does not meet *)

\* ConsentAdapter.revoke: "Returns True if revoked, False if not found or
\* already revoked".
RevokedOnce == \A r \in 1 .. MaxRows : receipts[r] <= 1

\* docs/CONSENT-LEDGER.md: "Revoking a parent consent automatically revokes all
\* delegated children", for the rows that were in the ledger by then.
DelegatedConsentsDie ==
  \A c \in DOMAIN rows :
    LET p == rows[c].offer.parent
    IN (Active(c) /\ p # 0) => Active(p) \/ c > rows[p].known

Depth[r \in Nat] == IF rows[r].offer.parent = 0 THEN 0 ELSE 1 + Depth[rows[r].offer.parent]

\* docs/CONSENT-LEDGER.md: "Delegation depth: 1" of the regulated profiles.
DelegationDepthBounded == \A r \in DOMAIN rows : Depth[r] <= 1
===============================================================================
