--------------------------------- MODULE Crdt ---------------------------------
(***************************************************************************)
(* The replicated data types of api/federation/crdt.py, and the merges of  *)
(* concepts and edges LocalAdapter.merge() makes with them.  Replicas      *)
(* update their own state and merge snapshots of other replicas, which may *)
(* be old and may come more than once.                                     *)
(*                                                                         *)
(* One element, one counter, one register, one concept and one edge stand  *)
(* for all: nothing relates two of them.  Updates are numbered as they     *)
(* happen; the number stands for the tag or the value written.             *)
(*                                                                         *)
(* Nothing in the source calls increment() or LocalAdapter.merge().  A     *)
(* write increments the clock its row has, which is where VectorClock says *)
(* clocks are kept; the clock merge() returns beside the data is stored in *)
(* no row and left out.                                                    *)
(***************************************************************************)
EXTENDS Integers, Sequences, FiniteSets

CONSTANTS
  Replicas,
  Stamps,       \* readings of the replicas' wall clocks
  MaxUpdates    \* bound: updates

ASSUME CrdtConstants ==
  IsFiniteSet(Replicas) /\ Stamps \subseteq Nat \ {0} /\ MaxUpdates \in Nat

VARIABLES
  updates,   \* history: what every update was, where, and what it had seen
  state,     \* the data of each replica
  sent,      \* the latest snapshot of each replica that others may merge
  seen,      \* history: the updates that reached each replica
  reported   \* history: the writes a merge reported as in conflict

crdtVars == <<updates, state, sent, seen, reported>>

Updates == 1 .. MaxUpdates
Kinds   == {"add", "remove", "increment", "decrement", "set", "concept", "edge"}

Clocks == [Replicas -> Nat]
Unset  == [r \in Replicas |-> 0]

\* A value with its vector clock and, for edges, last_reinforced; write 0: none yet.
Versions == [write : {0} \cup Updates, clock : Clocks, at : {0} \cup Stamps]
NoVersion == [write |-> 0, clock |-> Unset, at |-> 0]

States == [added : SUBSET Updates, removed : SUBSET Updates,          \* ORSet
           positive : Clocks, negative : Clocks,                       \* PNCounter
           value : {0} \cup Updates, stamp : {0} \cup Stamps,          \* LWWRegister
           concept : Versions, edge : Versions]                        \* rows with clocks

Empty == [added |-> {}, removed |-> {}, positive |-> Unset, negative |-> Unset,
          value |-> 0, stamp |-> 0,
          concept |-> NoVersion, edge |-> NoVersion]

CrdtTypeOK ==
  /\ updates \in Seq([kind : Kinds, by : Replicas, at : {0} \cup Stamps, saw : SUBSET Updates])
  /\ state \in [Replicas -> States] /\ sent \in [Replicas -> States \X SUBSET Updates]
  /\ seen \in [Replicas -> SUBSET Updates]
  /\ reported \subseteq Updates

CrdtInit ==
  /\ updates = <<>>
  /\ state = [r \in Replicas |-> Empty]
  /\ sent = [r \in Replicas |-> <<Empty, {}>>]
  /\ seen = [r \in Replicas |-> {}]
  /\ reported = {}

-------------------------------------------------------------------------------
(* Vector clocks *)

Larger(m, n) == IF m >= n THEN m ELSE n

\* increment()
Ticked(c, r) == [c EXCEPT ![r] = @ + 1]

Dominates(c, d) == c # d /\ \A r \in Replicas : c[r] >= d[r]

Concurrent(c, d) == c # d /\ ~Dominates(c, d) /\ ~Dominates(d, c)

-------------------------------------------------------------------------------
(* Updates of one replica *)

\* contains()
Contains(s) == s.added \ s.removed # {}

Sums(f) == LET Sum[R \in SUBSET Replicas] ==
                 IF R = {} THEN 0
                 ELSE LET r == CHOOSE x \in R : TRUE IN f[r] + Sum[R \ {r}]
           IN Sum

Total(f) == Sums(f)[Replicas]

\* value()
Count(s) == Total(s.positive) - Total(s.negative)

\* set(): a stamp that is not older wins.
Set(s, n, t) == IF t >= s.stamp THEN [s EXCEPT !.value = n, !.stamp = t] ELSE s

\* The n-th update writes a row of r at time t.
Written(v, n, r, t) == [write |-> n, clock |-> Ticked(v.clock, r), at |-> t]

\* The state of r after its n-th update, by the wall clock at t.
Updated(s, kind, n, r, t) ==
  CASE kind = "add"       -> [s EXCEPT !.added = @ \cup {n}]
    [] kind = "remove"    -> [s EXCEPT !.removed = @ \cup s.added]
    [] kind = "increment" -> [s EXCEPT !.positive = Ticked(@, r)]
    [] kind = "decrement" -> [s EXCEPT !.negative = Ticked(@, r)]
    [] kind = "set"       -> Set(s, n, t)
    [] kind = "concept"   -> [s EXCEPT !.concept = Written(@, n, r, t)]
    [] kind = "edge"      -> [s EXCEPT !.edge = Written(@, n, r, t)]

\* What the update reads of the wall clock.
Times(kind) == IF kind \in {"set", "edge"} THEN Stamps ELSE {0}

Update(r, kind, t) ==
  LET n == Len(updates) + 1 IN
  /\ n <= MaxUpdates
  /\ updates' = Append(updates, [kind |-> kind, by |-> r, at |-> t, saw |-> seen[r]])
  /\ state' = [state EXCEPT ![r] = Updated(@, kind, n, r, t)]
  /\ seen' = [seen EXCEPT ![r] = @ \cup {n}]
  /\ UNCHANGED <<sent, reported>>

-------------------------------------------------------------------------------
(* Merges *)

\* LWWRegister.merge(): only a younger value replaces one's own.
Younger(s, o) == IF o.stamp > s.stamp THEN o ELSE s

\* Mutant: the other's totals are added.
MergedCount_Sum(f, g) == [r \in Replicas |-> f[r] + g[r]]

\* The larger of what either knows of each replica.
MergedCount(f, g) == [r \in Replicas |-> Larger(f[r], g[r])]

\* merge_node_sets()
MergedConcept(v, w) ==
  IF v.write = 0 \/ Dominates(w.clock, v.clock) THEN w ELSE v

\* merge_edge_weights(): of two concurrent versions the younger, one's own on a tie.
MergedEdge(v, w) ==
  IF v.write = 0 \/ Dominates(w.clock, v.clock)
     \/ (Concurrent(v.clock, w.clock) /\ w.at > v.at)
  THEN w ELSE v

Merged(s, o) ==
  [added    |-> s.added \cup o.added,
   removed  |-> s.removed \cup o.removed,
   positive |-> MergedCount(s.positive, o.positive),
   negative |-> MergedCount(s.negative, o.negative),
   value    |-> Younger(s, o).value,
   stamp    |-> Younger(s, o).stamp,
   concept  |-> MergedConcept(s.concept, o.concept),
   edge     |-> MergedEdge(s.edge, o.edge)]

Conflict(v, w) == v.write # 0 /\ w.write # 0 /\ Concurrent(v.clock, w.clock)

Conflicts(s, o) ==
  UNION {IF Conflict(p[1], p[2]) THEN {p[1].write, p[2].write} ELSE {} :
         p \in {<<s.concept, o.concept>>, <<s.edge, o.edge>>}}

Snapshot(r) ==
  /\ sent' = [sent EXCEPT ![r] = <<state[r], seen[r]>>]
  /\ UNCHANGED <<updates, state, seen, reported>>

\* merge() of a snapshot of q
Merge(r, q) ==
  /\ state' = [state EXCEPT ![r] = Merged(@, sent[q][1])]
  /\ seen' = [seen EXCEPT ![r] = @ \cup sent[q][2]]
  /\ reported' = reported \cup Conflicts(state[r], sent[q][1])
  /\ UNCHANGED <<updates, sent>>

CrdtNext ==
  \E r \in Replicas :
    \/ \E kind \in Kinds : \E t \in Times(kind) : Update(r, kind, t)
    \/ Snapshot(r)
    \/ \E q \in Replicas \ {r} : Merge(r, q)

CrdtSpec == CrdtInit /\ [][CrdtNext]_crdtVars

-------------------------------------------------------------------------------
(* Properties *)

Seen(r, kind) == {n \in seen[r] : updates[n].kind = kind}

\* Add wins: at every replica the element is there exactly when an addition that
\* reached it was not known to any removal that did, in whatever order and however
\* often snapshots were merged (ORSet).
AddsWin ==
  \A r \in Replicas :
    Contains(state[r]) <=>
      \E a \in Seen(r, "add") : \A d \in Seen(r, "remove") : a \notin updates[d].saw

\* Every increment and decrement that reached a replica counts there once (PNCounter).
EachCountsOnce ==
  \A r \in Replicas :
    Count(state[r]) = Cardinality(Seen(r, "increment")) - Cardinality(Seen(r, "decrement"))

\* Of writes with stamps of their own the youngest wins at every replica it reached
\* (LWWRegister).
YoungestWins ==
  \A r \in Replicas : \A n \in Seen(r, "set") :
    (\A m \in Seen(r, "set") \ {n} : updates[m].at < updates[n].at)
      => state[r].value = n

\* The m-th update is the n-th, or one of the same row by a replica it had reached.
Includes(m, n) ==
  m = n \/ (m > n /\ updates[m].kind = updates[n].kind /\ n \in updates[m].saw)

\* No write of a concept is dropped in silence: every replica it reached holds it, or
\* one made in its knowledge, or a merge reported one of these as in conflict
\* (merge_node_sets, vclock_compare).
NoConceptVanishes ==
  \A r \in Replicas : \A n \in Seen(r, "concept") :
    \E m \in reported \cup {state[r].concept.write} : Includes(m, n)

\* Whatever snapshots are merged, in whatever order and however often, a replica shows
\* what reached it, and no write of a concept is dropped in silence (crdt.py,
\* LocalAdapter.merge).
NoUpdateIsLost == AddsWin /\ EachCountsOnce /\ YoungestWins /\ NoConceptVanishes

-------------------------------------------------------------------------------
(* Claims of the documentation that the code does not meet *)

\* crdt.py: "Conflict-free Replicated Data Types": two replicas that every write
\* has reached hold the same value, also when two wall clocks read the same.
RegistersAgree ==
  \A r, q \in Replicas : seen[r] = seen[q] => state[r].value = state[q].value

\* is_concurrent_with(): "A concurrent write is a true conflict -- escalate to
\* onto_checkpoint", and so no write of an edge is dropped in silence either.  In fact
\* the younger of two concurrent versions is taken with its own clock alone: the next
\* write on top of it dominates, or is dominated by, writes it is concurrent with.
NoEdgeVanishes ==
  \A r \in Replicas : \A n \in Seen(r, "edge") :
    \E m \in reported \cup {state[r].edge.write} : Includes(m, n)

EdgesAgree ==
  \A r, q \in Replicas : seen[r] = seen[q] => state[r].edge.write = state[q].edge.write
===============================================================================
