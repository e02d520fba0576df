------------------------------ MODULE FedExchange ------------------------------
(***************************************************************************)
(* The exchange of graph deltas between federated nodes:                   *)
(* api/federation/local.py, with audit.py (outbox and inbox) and safety.py *)
(* under it and FedConsent beside it.  Operators of one node share with    *)
(* its peers; the network loses requests and answers, the sender times out *)
(* and (over the internet) posts again; a peer handles each request in a   *)
(* thread of its own, over connections in autocommit; both sides die.      *)
(*                                                                         *)
(* The number of a message on the wire is the row of the outbox.           *)
(***************************************************************************)
EXTENDS FedConsent

CONSTANTS
  Items,          \* what may be shared; see ItemKinds
  Resident,       \* peers whose data_residency is permitted
  SensitiveAfter, \* exchanges until a peer's trust lets sensitive items go
  MaxAttempts,    \* posts of one message: 1 for LocalAdapter
  MaxShares       \* bound: rows of the outbox

\* "barred": crisis text, or a classification above the ceiling; "hidden": crisis
\* text in a part of the data that the sender's check of `text` does not see.
ItemKinds == {"ordinary", "sensitive", "barred", "hidden"}

ASSUME ExchangeConstants ==
  /\ Items \subseteq ItemKinds
  /\ Resident \subseteq Peers
  /\ SensitiveAfter \in Nat
  /\ MaxAttempts \in Nat \ {0} /\ MaxShares \in Nat

VARIABLES
  outbox,    \* table federation_outbox of the sharing node
  trust,     \* exchanges that raised a peer's trust, in the adapter's memory
  requests,  \* the posts under way, by message and attempt
  inbox,     \* table federation_inbox of each peer
  ingested,  \* per peer, the messages fed to its graph, in order
  raced      \* messages of which two posts were handled at once (history)

exchangeVars == <<outbox, trust, requests, inbox, ingested, raced>>
vars == <<consents, clock, overlapped, pc, frame,
          outbox, trust, requests, inbox, ingested, raced>>

Outgoing == [to : Peers, item : Items, consent : Nat,
             status : {"pending", "sent", "failed"},
             remoteId : BOOLEAN]    \* share() returned the peer's audit id

Incoming == [number : Nat, rejected : BOOLEAN]

\* A request is under way, being handled, or answered to a sender who waits.
\* One that is lost, or refused with 429, is one that stays "sent".
Handled == {"valid", "recorded"}
Answers == {"ok", "error", "gap", "rejected"}
RequestStages == {"sent"} \cup Handled \cup Answers

Posts == (1 .. MaxShares) \X (1 .. MaxAttempts)

SharePCs == {"cleared", "post", "await", "notify"}

TypeOK ==
  /\ ConsentTypeOK
  /\ pc \in [Operators -> {"idle"} \cup ConsentPCs \cup SharePCs]
  /\ outbox \in Seq(Outgoing) /\ Len(outbox) <= MaxShares
  /\ trust \in [Peers -> 0 .. SensitiveAfter]
  /\ DOMAIN requests \subseteq Posts
  /\ \A r \in DOMAIN requests : requests[r] \in RequestStages
  /\ inbox \in [Peers -> Seq(Incoming)]
  /\ ingested \in [Peers -> Seq(1 .. MaxShares)]
  /\ raced \subseteq 1 .. MaxShares

Init ==
  /\ ConsentInit
  /\ outbox = <<>>
  /\ trust = [p \in Peers |-> 0]
  /\ requests = <<>>
  /\ inbox = [p \in Peers |-> <<>>]
  /\ ingested = [p \in Peers |-> <<>>]
  /\ raced = {}

-------------------------------------------------------------------------------
(* The sharing node *)

\* check_outbound(): barriers, consent, trust, residency.
CheckOutbound(c, p, item) ==
  /\ item # "barred"
  /\ IsValid(c, p)
  /\ item = "sensitive" => trust[p] >= SensitiveAfter
  /\ p \in Resident

\* The operator asks can_share() and is told yes.
Ask(o, c, p, item) ==
  /\ pc[o] = "idle"
  /\ CheckOutbound(c, p, item)
  /\ Goto(o, "cleared", [id |-> c, to |-> p, item |-> item])
  /\ UNCHANGED <<consents, clock, overlapped, exchangeVars>>

\* share(): the outbox row first,
RecordOutbound(o) ==
  /\ pc[o] = "cleared"
  /\ Len(outbox) < MaxShares
  /\ outbox' = Append(outbox, [to |-> frame[o].to, item |-> frame[o].item,
                               consent |-> frame[o].id, status |-> "pending",
                               remoteId |-> FALSE])
  /\ Goto(o, "post", [id |-> Len(outbox'), attempt |-> 1])
  /\ UNCHANGED <<consents, clock, overlapped, trust, requests, inbox, ingested, raced>>

CurrentPost(o) == <<frame[o].id, frame[o].attempt>>

WithRequest(r, stage) == [x \in DOMAIN requests \cup {r} |-> IF x = r THEN stage ELSE requests[x]]

Without(posts) == [x \in DOMAIN requests \ posts |-> requests[x]]

\* then the request,
Post(o) ==
  /\ pc[o] = "post"
  /\ requests' = WithRequest(CurrentPost(o), "sent")
  /\ Goto(o, "await", frame[o])
  /\ UNCHANGED <<consents, clock, overlapped, outbox, trust, inbox, ingested, raced>>

Promoted(n) == IF n < SensitiveAfter THEN n + 1 ELSE n

\* then, on any answer with status 200, sent_at and a promotion of the peer,
MarkSent(o) ==
  LET post == CurrentPost(o) IN
  /\ pc[o] = "await"
  /\ post \in DOMAIN requests /\ requests[post] \in Answers
  /\ outbox' = [outbox EXCEPT ![frame[o].id].status = "sent",
                              ![frame[o].id].remoteId = (requests[post] = "ok")]
  /\ trust' = [trust EXCEPT ![outbox[frame[o].id].to] = Promoted(@)]
  /\ requests' = Without({post})
  /\ Goto(o, "idle", NoFrame)
  /\ UNCHANGED <<consents, clock, overlapped, inbox, ingested, raced>>

Unread(posts) == {r \in DOMAIN requests \cap posts : requests[r] \in Answers}

\* or, on a timeout or a broken connection, another post or failed_at.
GiveUp(o) ==
  /\ pc[o] = "await"
  /\ requests' = Without(Unread({CurrentPost(o)}))
  /\ UNCHANGED <<consents, clock, overlapped, trust, inbox, ingested, raced>>
  /\ IF frame[o].attempt < MaxAttempts
       THEN /\ Goto(o, "post", [frame[o] EXCEPT !.attempt = @ + 1])
            /\ UNCHANGED outbox
       ELSE /\ Goto(o, "idle", NoFrame)
            /\ outbox' = [outbox EXCEPT ![frame[o].id].status = "failed"]

\* recall(): revoke() on this node, whose answer is not looked at, then one
\* RETRACT.  The peer looks the id up in its own table and finds nothing.
Recall(o, c) ==
  /\ \/ SelectForRevoke(o, c, "notify")
     \/ /\ pc[o] = "idle" /\ Revoked(c)
        /\ Goto(o, "notify", [id |-> c])
        /\ UNCHANGED <<consents, clock, overlapped>>
  /\ UNCHANGED exchangeVars

Notify(o) ==
  /\ pc[o] = "notify"
  /\ Goto(o, "idle", NoFrame)
  /\ UNCHANGED <<consents, clock, overlapped, exchangeVars>>

\* The process dies; its tables stay.
NodeCrash ==
  /\ pc' = [o \in Operators |-> "idle"]
  /\ frame' = [o \in Operators |-> NoFrame]
  /\ trust' = [p \in Peers |-> 0]
  /\ requests' = Without(Unread(Posts))
  /\ UNCHANGED <<consents, clock, overlapped, outbox, inbox, ingested, raced>>

-------------------------------------------------------------------------------
(* The peer: one thread handles one request *)

PeerOf(r) == outbox[r[1]].to

\* validate_inbound_sequence(): rejected rows do not count.
LastSeen(p) ==
  LET seen == {inbox[p][i].number : i \in {j \in DOMAIN inbox[p] : ~inbox[p][j].rejected}}
  IN  IF seen = {} THEN 0 ELSE CHOOSE n \in seen : \A m \in seen : m <= n

\* Mutant: every number above the last one is taken.
Validated_NoGap(p, n) == IF n > LastSeen(p) THEN "valid" ELSE "error"

\* Mutant: >= in place of >.
Validated_LastAgain(p, n) ==
  CASE n \in {LastSeen(p), LastSeen(p) + 1} -> "valid"
    [] n < LastSeen(p) -> "error"
    [] OTHER -> "gap"

Validated(p, n) ==
  CASE n = LastSeen(p) + 1 -> "valid"
    [] n <= LastSeen(p)    -> "error"    \* a duplicate: receive() answers None
    [] OTHER               -> "gap"

Answered(r, answer) ==
  IF \E o \in Operators : pc[o] = "await" /\ CurrentPost(o) = r
    THEN WithRequest(r, answer)
    ELSE Without({r})

Twins(r) == {x \in DOMAIN requests : x # r /\ x[1] = r[1] /\ requests[x] = "valid"}

Validate(r) ==
  LET verdict == Validated(PeerOf(r), r[1]) IN
  /\ requests[r] = "sent"
  /\ requests' = IF verdict = "valid" THEN WithRequest(r, "valid") ELSE Answered(r, verdict)
  /\ raced' = IF verdict = "valid" /\ Twins(r) # {} THEN raced \cup {r[1]} ELSE raced
  /\ UNCHANGED <<consentVars, outbox, trust, inbox, ingested>>

\* What can_receive() refuses.
Refused(r) == outbox[r[1]].item \in {"barred", "hidden"}

AppendInbound(r) ==
  inbox' = [inbox EXCEPT ![PeerOf(r)] = Append(@, [number |-> r[1], rejected |-> Refused(r)])]

\* Mutant: a refused message is recorded as such, and taken.
RecordInbound_NoReturn(r) ==
  /\ requests[r] = "valid"
  /\ AppendInbound(r)
  /\ requests' = WithRequest(r, "recorded")
  /\ UNCHANGED <<consentVars, outbox, trust, ingested, raced>>

\* can_receive() and record_inbound()
RecordInbound(r) ==
  /\ requests[r] = "valid"
  /\ AppendInbound(r)
  /\ requests' = IF Refused(r) THEN Answered(r, "rejected") ELSE WithRequest(r, "recorded")
  /\ UNCHANGED <<consentVars, outbox, trust, ingested, raced>>

\* The graph takes the concepts -- or none, and nobody is told: relate() rolls back
\* and swallows its failure, and what is no string is passed over.  Concepts are
\* related one by one; the message counts as ingested when one of them was.
\* mark_processed() and the audit record follow, which nothing reads; when one of
\* them fails there is no answer.
Ingest(r) ==
  /\ requests[r] = "recorded"
  /\ ingested' \in {ingested, [ingested EXCEPT ![PeerOf(r)] = Append(@, r[1])]}
  /\ requests' \in {Answered(r, "ok"), Without({r})}
  /\ UNCHANGED <<consentVars, outbox, trust, inbox, raced>>

\* The peer dies; its tables stay.
PeerCrash(p) ==
  /\ requests' = Without({r \in DOMAIN requests :
                             PeerOf(r) = p /\ requests[r] \in Handled})
  /\ UNCHANGED <<consentVars, outbox, trust, inbox, ingested, raced>>

-------------------------------------------------------------------------------

OperatorStep(o) ==
  \/ \E c \in DOMAIN consents, p \in Peers, item \in Items : Ask(o, c, p, item)
  \/ RecordOutbound(o) \/ Post(o) \/ MarkSent(o) \/ GiveUp(o)
  \/ \E c \in DOMAIN consents : Recall(o, c)
  \/ Notify(o)

RequestStep(r) ==
  Validate(r) \/ RecordInbound(r) \/ Ingest(r)

Next ==
  \/ ConsentNext /\ UNCHANGED exchangeVars
  \/ \E o \in Operators : OperatorStep(o)
  \/ \E r \in DOMAIN requests : RequestStep(r)
  \/ NodeCrash
  \/ \E p \in Peers : PeerCrash(p)

Spec == Init /\ [][Next]_vars

-------------------------------------------------------------------------------
(* Properties *)

\* The exchange implements the abstract delivery: a peer takes messages in the
\* order of their numbers, none skipped, each offered by an operator who had
\* asked while a consent for that peer was in force -- through lost and repeated
\* posts, threads that overtake each other, recalls and crashes (share, receive,
\* validate_inbound_sequence).
Delivery == INSTANCE FedDelivery WITH
  Consents <- 1 .. MaxConsents,
  Numbers  <- 1 .. MaxShares,
  inForce  <- {g \in (1 .. MaxConsents) \X Peers : IsValid(g[1], g[2])},
  cleared  <- [o \in Operators |-> IF pc[o] = "cleared" THEN {frame[o].to} ELSE {}],
  offered  <- {<<outbox[n].to, n>> : n \in DOMAIN outbox},
  taken    <- [p \in Peers |-> {inbox[p][i].number :
                 i \in {j \in DOMAIN inbox[p] : ~inbox[p][j].rejected}}]
ImplementsDelivery == Delivery!Spec

\* A peer feeds a message to its graph at most once, unless two posts of it were
\* handled at the same moment: what was posted again after a lost answer, or
\* after the peer died, is told apart from what is new.
IngestedOnce ==
  \A p \in Peers : \A i, j \in DOMAIN ingested[p] :
    i # j /\ ingested[p][i] = ingested[p][j] => ingested[p][i] \in raced

AcceptedAt(p, n) ==
  \E i \in DOMAIN inbox[p] : inbox[p][i].number = n /\ ~inbox[p][i].rejected

\* When share() returns the peer's audit id, the item was one that may leave this
\* node and enter that one, and the peer has accepted the message and every message
\* before it -- whatever was lost or posted again, refused for a gap or a repetition,
\* or died (share, receive, validate_inbound_sequence).
ReturnedIdMeansAccepted ==
  \A n \in DOMAIN outbox : outbox[n].remoteId =>
    /\ outbox[n].item \notin {"barred", "hidden"}
    /\ \A m \in 1 .. n : AcceptedAt(outbox[n].to, m)

-------------------------------------------------------------------------------
(* A claim of the documentation that the code does not meet *)

\* adapter.py, share(): "Send data to a peer", "Returns the remote audit record ID on
\* success, None on failure": with an id the peer's graph has the data.  In fact relate()
\* swallows its failures, and receive() answers with an id all the same.
ReturnedIdMeansHeld ==
  \A n \in DOMAIN outbox : outbox[n].remoteId =>
    \E i \in DOMAIN ingested[outbox[n].to] : ingested[outbox[n].to][i] = n

===============================================================================
