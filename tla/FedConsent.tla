------------------------------ MODULE FedConsent ------------------------------
(***************************************************************************)
(* The consents a node grants to its peers: api/federation/consent.py.     *)
(* Threads of the node grant, revoke and re-confirm rows of one SQLite     *)
(* table.  Every call opens a connection in autocommit: what it reads and  *)
(* what it writes are separate steps, and other calls run between them.    *)
(*                                                                         *)
(* The hash of a row is modelled as the list of what was hashed into it,   *)
(* so two hashes are equal exactly when everything under them is.  Row c   *)
(* is the c-th one inserted; its number stands for the consent_id.  The    *)
(* audit records are left out: their failure is swallowed, nothing reads   *)
(* them.                                                                   *)
(***************************************************************************)
EXTENDS Integers, Sequences, FiniteSets

CONSTANTS
  Operators,       \* threads of the granting node
  Peers,           \* the nodes consents are granted to
  Lifetimes,       \* lifetimes of consents; Forever: standing
  ReconfirmAfter,  \* STANDING_CONSENT_RECONFIRM_DAYS
  MaxConsents,     \* bound: rows of the table
  MaxTime          \* bound: clock, in days

ASSUME ConsentConstants ==
  /\ Lifetimes \subseteq Nat \cup {-1}
  /\ ReconfirmAfter \in Nat \ {0}
  /\ MaxConsents \in Nat /\ MaxTime \in Nat

VARIABLES
  consents,   \* table federation_consent, in the order of insertion
  clock,      \* time.time(); no two grants read the same time
  overlapped, \* whether two grants were ever under way at once (history)
  pc, frame   \* where each operator is, and its local variables

consentVars == <<consents, clock, overlapped, pc, frame>>

Hashes == Seq(Nat)      \* the granted_at of the row and of those under it
NoHash == <<>>
Forever == -1           \* expires_at is NULL

Consents == [peer : Peers, granted : Nat, expires : Nat \cup {Forever}, confirmed : Nat,
             revoked : BOOLEAN, hash : Hashes]

NoFrame == [id |-> 0]

ConsentPCs == {"latest", "insert", "revoke", "reconfirm"}

ConsentTypeOK ==
  /\ consents \in Seq(Consents) /\ Len(consents) <= MaxConsents
  /\ clock \in 0 .. MaxTime
  /\ overlapped \in BOOLEAN

ConsentInit ==
  /\ consents = <<>>
  /\ clock = 0
  /\ overlapped = FALSE
  /\ pc = [o \in Operators |-> "idle"]
  /\ frame = [o \in Operators |-> NoFrame]

Goto(o, label, f) ==
  /\ pc' = [pc EXCEPT ![o] = label]
  /\ frame' = [frame EXCEPT ![o] = f]

Tick ==
  /\ clock < MaxTime
  /\ clock' = clock + 1
  /\ UNCHANGED <<consents, overlapped, pc, frame>>

-------------------------------------------------------------------------------
(* What a row says *)

ChainHash(prev, granted) == Append(prev, granted)

\* ORDER BY granted_at
ByTime == CHOOSE order \in [1 .. Len(consents) -> 1 .. Len(consents)] :
            \A i, j \in DOMAIN order :
              i < j => consents[order[i]].granted < consents[order[j]].granted

\* Mutant: revoked rows are passed over.
LatestHash_InForce ==
  LET live == {i \in DOMAIN consents : ~consents[ByTime[i]].revoked}
  IN IF live = {} THEN NoHash
     ELSE consents[ByTime[CHOOSE i \in live : \A j \in live : j <= i]].hash

LatestHash ==
  IF consents = <<>> THEN NoHash ELSE consents[ByTime[Len(consents)]].hash

Revoked(c) == consents[c].revoked

Expired(c) == consents[c].expires # Forever /\ consents[c].expires < clock

\* is_valid(consent_id, recipient_node)
IsValid(c, p) == /\ c \in DOMAIN consents
                 /\ consents[c].peer = p
                 /\ ~Revoked(c)
                 /\ ~Expired(c)

\* needs_reconfirmation(consent_id)
NeedsReconfirmation(c) ==
  /\ ~Revoked(c)
  /\ consents[c].expires = Forever
  /\ clock - consents[c].confirmed >= ReconfirmAfter

\* verify_chain_integrity(): each hash is that of its predecessor in time.
ChainIntact ==
  \A i \in DOMAIN consents :
    consents[ByTime[i]].hash =
      ChainHash(IF i = 1 THEN NoHash ELSE consents[ByTime[i - 1]].hash,
                consents[ByTime[i]].granted)

-------------------------------------------------------------------------------
(* grant() takes the time, then reads the latest hash, then inserts. *)

Granting == {o \in Operators : pc[o] \in {"latest", "insert"}}

Grant(o, p, life) ==
  /\ pc[o] = "idle"
  /\ Len(consents) + Cardinality(Granting) < MaxConsents
  /\ clock < MaxTime
  /\ clock' = clock + 1
  /\ overlapped' = (overlapped \/ Granting # {})
  /\ Goto(o, "latest",
          [id |-> 0, row |-> [peer |-> p, granted |-> clock',
                              expires |-> IF life = Forever THEN Forever ELSE clock' + life,
                              confirmed |-> clock', revoked |-> FALSE, hash |-> NoHash]])
  /\ UNCHANGED consents

ReadLatest(o) ==
  /\ pc[o] = "latest"
  /\ Goto(o, "insert", [frame[o] EXCEPT !.row.hash = ChainHash(LatestHash, frame[o].row.granted)])
  /\ UNCHANGED <<consents, clock, overlapped>>

InsertConsent(o) ==
  /\ pc[o] = "insert"
  /\ consents' = Append(consents, frame[o].row)
  /\ Goto(o, "idle", NoFrame)
  /\ UNCHANGED <<clock, overlapped>>

-------------------------------------------------------------------------------
(* revoke() and reconfirm() read revoked_at and write by a later statement. *)

SelectForRevoke(o, c, next) ==
  /\ pc[o] = "idle"
  /\ ~Revoked(c)
  /\ Goto(o, "revoke", [id |-> c, next |-> next])
  /\ UNCHANGED <<consents, clock, overlapped>>

SetRevoked(c) == consents' = [consents EXCEPT ![c].revoked = TRUE]

UpdateRevoked(o) ==
  /\ pc[o] = "revoke"
  /\ SetRevoked(frame[o].id)
  /\ IF frame[o].next = "idle"
       THEN Goto(o, "idle", NoFrame)
       ELSE Goto(o, frame[o].next, [id |-> frame[o].id])
  /\ UNCHANGED <<clock, overlapped>>

Reconfirm(o, c) ==
  /\ pc[o] = "idle"
  /\ ~Revoked(c)
  /\ Goto(o, "reconfirm", [id |-> c])
  /\ UNCHANGED <<consents, clock, overlapped>>

\* Mutant: a re-confirmation clears revoked_at.
SetConfirmed_Revives(c) ==
  consents' = [consents EXCEPT ![c].confirmed = clock, ![c].revoked = FALSE]

SetConfirmed(c) == consents' = [consents EXCEPT ![c].confirmed = clock]

UpdateConfirmed(o) ==
  /\ pc[o] = "reconfirm"
  /\ SetConfirmed(frame[o].id)
  /\ Goto(o, "idle", NoFrame)
  /\ UNCHANGED <<clock, overlapped>>

ConsentNext ==
  \/ Tick
  \/ \E o \in Operators :
       \/ \E p \in Peers, life \in Lifetimes : Grant(o, p, life)
       \/ ReadLatest(o) \/ InsertConsent(o)
       \/ \E c \in DOMAIN consents : SelectForRevoke(o, c, "idle") \/ Reconfirm(o, c)
       \/ UpdateRevoked(o) \/ UpdateConfirmed(o)

-------------------------------------------------------------------------------
(* Properties *)

\* The check of the consents' chain finds it intact as long as no two grants
\* were under way at once: revocations, re-confirmations and the order of the
\* rows in the table never make it report a break
\* (verify_chain_integrity, _get_latest_chain_hash).
ChainBreaksOnlyByOverlap == ~overlapped => ChainIntact

\* A consent that does not authorise a peer never does again: a revocation and
\* an expiry are final, whatever re-confirmation lands after them
\* (revoke: "Terminal -- cannot be undone").
InvalidStaysInvalid ==
  [][\A c \in DOMAIN consents, p \in Peers : ~IsValid(c, p) => ~IsValid(c, p)']_consentVars

===============================================================================
