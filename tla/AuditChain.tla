------------------------------ MODULE AuditChain ------------------------------
(***************************************************************************)
(* The permanent audit trail, modules/memory.py.  Several writers (the     *)
(* threads and processes that share one SQLite file) append records whose  *)
(* chain_hash is the SHA-256 of the record before them.  record() reads    *)
(* the last row and inserts the new one in two separate SQLite             *)
(* transactions, so the two steps of different writers interleave.         *)
(*                                                                         *)
(* A record's content is abstracted to its id and the state of its         *)
(* payload: the hash covers both, SHA-256 is taken as injective, and every *)
(* record the code writes carries a payload (input, context, output or     *)
(* notes) until prune_payload_by_age nullifies it.                         *)
(***************************************************************************)
EXTENDS Integers, Sequences, FiniteSets

CONSTANTS
  Writers,            \* threads and processes with a connection
  Levels,             \* classification levels written by callers
  QueryLevels,        \* values of classification_min callers pass
  ReadLogThreshold,   \* READ_LOG_THRESHOLD
  PageLimit,          \* page_limit of export_personal_data (500 in the code)
  MaxRecords,         \* bound: records in the trail
  MaxTime,            \* bound: clock
  MaxAlterations      \* bound: out-of-band changes to the file

ASSUME ChainConstants ==
  /\ Levels \subseteq Nat
  /\ QueryLevels \subseteq Nat
  /\ ReadLogThreshold \in Nat \ {0}
  /\ PageLimit \in Nat \ {0}
  /\ MaxRecords \in Nat
  /\ MaxTime \in Nat
  /\ MaxAlterations \in Nat

VARIABLES
  events,       \* the rows of table events, in id order
  clock,        \* datetime.now(), in days
  pc,           \* where each writer is in the call it is making
  frame,        \* the local variables of that call
  alterations   \* out-of-band changes so far

vars == <<events, clock, pc, frame, alterations>>

-------------------------------------------------------------------------------
(* Records and their hashes *)

Kinds  == {"EVENT", "READ_ACCESS", "RETENTION_PRUNED"}
Bodies == {"written", "erased", "altered"}

Hashes == [id : Nat, body : Bodies]
NoHash == [id |-> 0, body |-> "written"]    \* NULL, the genesis chain_hash

Records == [kind : Kinds, class : Nat, stamp : Nat, body : Bodies, link : Hashes]

\* Mutant: the payload fields are left out of the hash.
HashOf_SpineOnly(i) == [id |-> i, body |-> "written"]

\* _hash_record_content: id and content, the chain_hash column left out.
HashOf(i) == [id |-> i, body |-> events[i].body]

\* Mutant: ORDER BY id ASC LIMIT 1.
TailHash_First == IF events = <<>> THEN NoHash ELSE HashOf(1)

\* _compute_chain_hash: the hash of the last row, NULL on an empty table.
TailHash == IF events = <<>> THEN NoHash ELSE HashOf(Len(events))

\* The test of verify_chain for a pruned record: every payload field is NULL.
PayloadNull(i) == events[i].body = "erased"

\* verify_chain on record i, given prev_hash: the verdict on i, and the value
\* of prev_hash for record i+1.
Verify(i, prev) ==
  IF events[i].link = prev
  THEN [prev |-> HashOf(i), verdict |-> "ok"]
  ELSE IF events[i].link # NoHash /\ PayloadNull(i)
  THEN [prev |-> events[i].link, verdict |-> "pruned"]
  ELSE [prev |-> HashOf(i), verdict |-> "gap"]

\* The walk over all records; the genesis record is accepted as it is.
Walk ==
  LET step[i \in DOMAIN events] ==
        IF i = 1 THEN [prev |-> HashOf(1), verdict |-> "ok"]
                 ELSE Verify(i, step[i-1].prev)
  IN step

Gaps   == LET walk == Walk IN {i \in DOMAIN events : walk[i].verdict = "gap"}
Intact == Gaps = {}

\* verify_chain_tail: neighbours among the last n records, recomputed.
TailGaps(n) ==
  {i \in 2 .. Len(events) :
     /\ i > Len(events) - n + 1
     /\ events[i].link # HashOf(i-1)
     /\ ~(events[i].link # NoHash /\ PayloadNull(i))}

-------------------------------------------------------------------------------
(* Calls in progress *)

\* Where a call goes on after it has written a record.
ReturnPCs == {"idle", "turn", "answered", "exported"}

PCs == ReturnPCs \cup {"read_tail", "insert", "page"}

Frames == [kind : Kinds, class : Nat, stamp : Nat, link : Hashes, ret : ReturnPCs,
           cmin : Nat, offset : Nat, got : Seq(SUBSET Nat), goal : SUBSET Nat,
           top : Nat, total : Nat, since : Nat]

EmptyFrame == [kind |-> "EVENT", class |-> 0, stamp |-> 0, link |-> NoHash,
               ret |-> "idle", cmin |-> 0, offset |-> 0, got |-> <<>>,
               goal |-> {}, top |-> 0, total |-> 0, since |-> 0]

TypeOK ==
  /\ events \in Seq(Records)
  /\ clock \in 0 .. MaxTime
  /\ pc \in [Writers -> PCs]
  /\ frame \in [Writers -> Frames]
  /\ alterations \in 0 .. MaxAlterations

Init ==
  /\ events = <<>>
  /\ clock = 0
  /\ pc = [w \in Writers |-> "idle"]
  /\ frame = [w \in Writers |-> EmptyFrame]
  /\ alterations = 0

\* The call of record() by w with its frame f: the timestamp is taken first.
CallRecord(w, f, kind, class, ret) ==
  /\ pc' = [pc EXCEPT ![w] = "read_tail"]
  /\ frame' = [frame EXCEPT ![w] =
                 [f EXCEPT !.kind = kind, !.class = class, !.stamp = clock,
                           !.ret = ret]]

Record(w, class) ==
  /\ pc[w] = "idle"
  /\ CallRecord(w, EmptyFrame, "EVENT", class, "idle")
  /\ UNCHANGED <<events, clock, alterations>>

\* _compute_chain_hash: a SELECT in autocommit, no lock is kept.
ReadTail(w) ==
  /\ pc[w] = "read_tail"
  /\ frame' = [frame EXCEPT ![w].link = TailHash]
  /\ pc' = [pc EXCEPT ![w] = "insert"]
  /\ UNCHANGED <<events, clock, alterations>>

NewRow(f) == [kind |-> f.kind, class |-> f.class, stamp |-> f.stamp,
              body |-> "written", link |-> f.link]

\* The INSERT and its commit.
Insert(w) ==
  /\ pc[w] = "insert"
  /\ Len(events) < MaxRecords
  /\ events' = Append(events, NewRow(frame[w]))
  /\ pc' = [pc EXCEPT ![w] = frame[w].ret]
  /\ frame' = IF frame[w].ret = "idle"
              THEN [frame EXCEPT ![w] = EmptyFrame] ELSE frame
  /\ UNCHANGED <<clock, alterations>>

\* Mutant: old rows are deleted.
Prune_Deletes(w, days) ==
  /\ pc[w] = "idle"
  /\ \E i \in DOMAIN events : events[i].stamp < clock - days
  /\ events' = SelectSeq(events, LAMBDA r : r.stamp >= clock - days)
  /\ CallRecord(w, EmptyFrame, "RETENTION_PRUNED", 0, "idle")
  /\ UNCHANGED <<clock, alterations>>

\* prune_payload_by_age: one UPDATE, then the RETENTION_PRUNED record, which
\* is written only when some row was pruned.
Prune(w, days) ==
  LET due == {i \in DOMAIN events : /\ events[i].stamp < clock - days
                                    /\ ~PayloadNull(i)}
  IN /\ pc[w] = "idle"
     /\ due # {}
     /\ events' = [i \in DOMAIN events |->
                     IF i \in due THEN [events[i] EXCEPT !.body = "erased"]
                                  ELSE events[i]]
     /\ CallRecord(w, EmptyFrame, "RETENTION_PRUNED", 0, "idle")
     /\ UNCHANGED <<clock, alterations>>

-------------------------------------------------------------------------------
(* Reads that are logged *)

\* The ids of the rows a query with this classification_min selects.
Matching(cmin) == {i \in DOMAIN events : events[i].class >= cmin}

\* Mutant: ORDER BY id DESC, the default order of query().
Position_Descending(i, ids) == Cardinality({j \in ids : j >= i})

\* The place of row i in the result, ORDER BY id ASC.
Position(i, ids) == Cardinality({j \in ids : j <= i})

\* LIMIT PageLimit OFFSET offset.
PageFrom(ids, offset) ==
  {i \in ids : Position(i, ids) \in offset + 1 .. offset + PageLimit}

Highest(ids) ==
  IF ids = {} THEN 0
  ELSE CHOOSE c \in {events[i].class : i \in ids} :
         \A i \in ids : events[i].class <= c

\* Mutant: only the filter is looked at, not the rows an unfiltered query gives.
Logged_ByFilter(cmin, top) == cmin >= ReadLogThreshold /\ top >= ReadLogThreshold

\* query(): the condition under which it calls log_read_access, and
\* log_read_access's own threshold on the highest level returned.
Logged(cmin, top) ==
  /\ cmin >= ReadLogThreshold \/ (cmin = 0 /\ top >= ReadLogThreshold)
  /\ top >= ReadLogThreshold

\* The end of a query whose rows have top as highest level: the READ_ACCESS
\* record, when one is due, is written before the rows go back to the caller.
ReturnRows(w, f, top, ret) ==
  IF Logged(f.cmin, top)
  THEN CallRecord(w, f, "READ_ACCESS", top, ret)
  ELSE /\ pc' = [pc EXCEPT ![w] = ret]
       /\ frame' = [frame EXCEPT ![w] = f]

Query(w, cmin) ==
  LET ids == Matching(cmin)
      f   == [EmptyFrame EXCEPT !.cmin = cmin, !.got = <<ids>>,
                                !.top = Highest(ids), !.since = Len(events)]
  IN /\ pc[w] = "idle"
     /\ ids # {}
     /\ ReturnRows(w, f, f.top, "answered")
     /\ UNCHANGED <<events, clock, alterations>>

\* export_personal_data: pages of query(order="asc") by OFFSET.
Export(w, cmin) ==
  /\ pc[w] = "idle"
  /\ pc' = [pc EXCEPT ![w] = "page"]
  /\ frame' = [frame EXCEPT ![w] =
                 [EmptyFrame EXCEPT !.cmin = cmin, !.since = Len(events),
                                    !.goal = Matching(cmin)]]
  /\ UNCHANGED <<events, clock, alterations>>

Page(w) ==
  LET f    == frame[w]
      ids  == Matching(f.cmin)
      rows == PageFrom(ids, f.offset)
      g    == [f EXCEPT !.got = Append(@, rows),
                        !.total = Cardinality(ids),
                        !.top = IF Highest(rows) > @ THEN Highest(rows) ELSE @]
  IN /\ pc[w] = "page"
     /\ ReturnRows(w, g, Highest(rows), "turn")
     /\ UNCHANGED <<events, clock, alterations>>

\* The end of the loop body: next page, or the record of the bulk read.
Turn(w) ==
  LET f    == frame[w]
      last == f.offset + PageLimit >= f.total
      bulk == IF f.top > f.cmin THEN f.top ELSE f.cmin
  IN /\ pc[w] = "turn"
     /\ \/ /\ ~last
           /\ pc' = [pc EXCEPT ![w] = "page"]
           /\ frame' = [frame EXCEPT ![w].offset = @ + PageLimit]
        \/ /\ last
           /\ bulk >= ReadLogThreshold
           /\ CallRecord(w, f, "READ_ACCESS", bulk, "exported")
        \/ /\ last
           /\ bulk < ReadLogThreshold
           /\ pc' = [pc EXCEPT ![w] = "exported"]
           /\ UNCHANGED frame
     /\ UNCHANGED <<events, clock, alterations>>

\* The caller has the rows and goes on.
Done(w) ==
  /\ pc[w] \in {"answered", "exported"}
  /\ pc' = [pc EXCEPT ![w] = "idle"]
  /\ frame' = [frame EXCEPT ![w] = EmptyFrame]
  /\ UNCHANGED <<events, clock, alterations>>

-------------------------------------------------------------------------------
(* The environment *)

\* The process or thread dies between two statements of a call.
Crash(w) ==
  /\ pc[w] \notin {"idle", "answered", "exported"}
  /\ pc' = [pc EXCEPT ![w] = "idle"]
  /\ frame' = [frame EXCEPT ![w] = EmptyFrame]
  /\ UNCHANGED <<events, clock, alterations>>

Tick ==
  /\ clock < MaxTime
  /\ clock' = clock + 1
  /\ UNCHANGED <<events, pc, frame, alterations>>

\* The file is changed behind SQLite's back (disk damage, a restored backup):
\* what verify_chain exists to notice.
Alter(i) ==
  /\ alterations < MaxAlterations
  /\ events[i].body = "written"
  /\ events' = [events EXCEPT ![i].body = "altered"]
  /\ alterations' = alterations + 1
  /\ UNCHANGED <<clock, pc, frame>>

Next ==
  \/ \E w \in Writers :
       \/ \E c \in Levels : Record(w, c)
       \/ \E c \in QueryLevels : Query(w, c) \/ Export(w, c)
       \/ \E days \in 0 .. MaxTime : Prune(w, days)
       \/ ReadTail(w) \/ Insert(w) \/ Page(w) \/ Turn(w) \/ Done(w) \/ Crash(w)
  \/ Tick
  \/ \E i \in DOMAIN events : Alter(i)

Spec == Init /\ [][Next]_vars

-------------------------------------------------------------------------------
(* Properties *)

\* A record's chain_hash names an earlier record: whatever the interleaving,
\* record() never links to itself or to a record inserted after it.
LinksPointBack ==
  \A i \in DOMAIN events :
    /\ events[i].link.id < i
    /\ events[i].link.id = 0 => events[i].link = NoHash

\* When calls of record() do not overlap (one writer), every record is linked
\* to its immediate predecessor: the chain has no fork.
EachLinkedToPredecessor ==
  \A i \in DOMAIN events : events[i].link.id = i - 1

\* verify_chain reports every record that was changed after its successor was
\* linked to it, unless that successor's own payload has been pruned.
AlterationDetected ==
  \A i \in DOMAIN events \ {1} :
    ( /\ events[i].link = [id |-> i - 1, body |-> "written"]
      /\ events[i-1].body = "altered"
      /\ ~PayloadNull(i) ) => i \in Gaps

\* GET /health (verify_chain_tail) never raises an alarm that the full walk of
\* GET /audit/chain (verify_chain) would not raise too.
TailAlarmIsAChainAlarm ==
  Intact => \A n \in 1 .. Len(events) : TailGaps(n) = {}

\* Both checks of the chain tell the truth as far as their hashes can: what was
\* altered is reported, and the cheap one does not alarm on its own.
VerificationIsSound == AlterationDetected /\ TailAlarmIsAChainAlarm

\* export_personal_data returns every matching record that existed when it
\* began, each once, although the READ_ACCESS records it writes itself, and
\* those of other writers, join the result while it pages with OFFSET.
ExportComplete ==
  \A w \in Writers : pc[w] = "exported" =>
    LET got == frame[w].got
    IN /\ frame[w].goal \subseteq UNION {got[k] : k \in DOMAIN got}
       /\ \A j, k \in DOMAIN got : j # k => got[j] \cap got[k] = {}

\* The rows of a query whose filter is absent or at the logging threshold, and
\* the rows of an export, reach the caller only after a READ_ACCESS record of
\* at least their highest level is in the trail: no crash can lose it.
ReadLoggedBeforeReturn ==
  \A w \in Writers :
    LET f == frame[w]
    IN ( /\ \/ pc[w] = "exported"
            \/ pc[w] = "answered" /\ (f.cmin = 0 \/ f.cmin >= ReadLogThreshold)
         /\ f.top >= ReadLogThreshold )
       => \E i \in DOMAIN events : /\ i > f.since
                                   /\ events[i].kind = "READ_ACCESS"
                                   /\ events[i].class >= f.top

\* The trail is an append-only log with erasable payloads.
AppendOnlyLog ==
  INSTANCE AuditLog WITH
    Spine <- [kind : Kinds, class : Nat, stamp : Nat, link : Hashes],
    log   <- [i \in DOMAIN events |->
                [spine  |-> [kind  |-> events[i].kind,
                             class |-> events[i].class,
                             stamp |-> events[i].stamp,
                             link  |-> events[i].link],
                 erased |-> events[i].body = "erased"]]

ImplementsAppendOnlyLog == AppendOnlyLog!Spec

-------------------------------------------------------------------------------
(* Claims of the documentation that the code does not meet *)

\* api/main.py: "A gap in the chain means records were tampered with or
\* removed": without any change behind the code's back and without pruning,
\* the chain is intact.
GapMeansTampering ==
  (\A i \in DOMAIN events : events[i].body = "written") => Intact

\* prune_payload_by_age: "After pruning, verify_chain() marks affected records
\* as pruned=True rather than reporting a chain gap".
PruningIsNotAGap == alterations = 0 => Intact

\* docs/CROSSOVER_CONTRACT_v1.0.md: "Every read of a sensitive record ...
\* generates a READ_ACCESS event in the audit trail".
EverySensitiveReadLogged ==
  \A w \in Writers :
    (pc[w] = "answered" /\ frame[w].top >= ReadLogThreshold) =>
      \E i \in DOMAIN events :
        i > frame[w].since /\ events[i].kind = "READ_ACCESS"

\* export_personal_data: "A single READ_ACCESS audit event is written to record
\* this bulk read" (one writer, so that all later records are its own).
ExportLoggedOnce ==
  \A w \in Writers : pc[w] = "exported" =>
    Cardinality({i \in DOMAIN events : /\ i > frame[w].since
                                      /\ events[i].kind = "READ_ACCESS"}) <= 1
===============================================================================
