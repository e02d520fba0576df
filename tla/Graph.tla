--------------------------------- MODULE Graph ---------------------------------
(***************************************************************************)
(* The relationship graph of modules/graph.py: nodes for concepts and      *)
(* edges for pairs that occurred together, kept in SQLite, and the matrix  *)
(* that compute_ppr caches in memory.                                      *)
(*                                                                         *)
(* Every operation runs under the module's lock and commits once, decay()  *)
(* twice; the cache is marked stale only after the lock has been released, *)
(* so readers run between a commit and its invalidation.                   *)
(*                                                                         *)
(* Weights are abstracted to what decides the fate of an edge: whether it  *)
(* is sensitive, when it was last reinforced, and whether it ever was.     *)
(* PPMI values and the values of its counters are left out: prune() may    *)
(* take any live edge, and only which nodes have a counter is kept.        *)
(***************************************************************************)
EXTENDS Integers, Sequences, FiniteSets

CONSTANTS
  Threads,
  NoThread,      \* the lock is free
  Concepts,
  Sensitive,     \* _SENSITIVE_CONCEPTS
  Inputs,        \* what the extractor makes of the texts given to relate()
  Ids,           \* bound: rowids of graph_nodes
  MinNodes,      \* _PPR_MIN_GRAPH_SIZE
  MaxCommits,    \* bound: commits that change the graph
  MaxTime        \* bound: clock, in days

\* sensitive: the text has a sensitive word, as it does when a concept of it is one.
InputType == [concepts : Seq(Concepts), sensitive : BOOLEAN, crisis : BOOLEAN]

ASSUME GraphConstants ==
  /\ NoThread \notin Threads
  /\ Sensitive \subseteq Concepts
  /\ Inputs \subseteq InputType
  /\ MinNodes \in Nat /\ MaxCommits \in Nat /\ MaxTime \in Nat

VARIABLES
  nodes,      \* graph_nodes: id -> concept and inputs_seen
  edges,      \* graph_edges: <<source id, target id>> -> row
  counted,    \* ids with a row in ppmi_counters
  total,      \* graph_metadata.total_inputs_processed
  used,       \* ids given out so far: AUTOINCREMENT gives none twice
  matrix,     \* _ppr_matrix and _ppr_node_ids
  valid,      \* _ppr_cache_valid
  lock,       \* holder of _lock
  pc, dirty,  \* each thread: where it is, and whether its decay() changed rows
  mine,       \* each thread: the commit it made
  clock,      \* days
  commits,    \* commits that changed the graph so far
  finished    \* history: the latest commit whose call has returned

database == <<nodes, edges, counted, total, used>>
cache    == <<matrix, valid>>
calls    == <<lock, pc, dirty, mine>>
vars     == <<database, cache, calls, clock, commits, finished>>

Node == [concept : Concepts, seen : Nat]
Edge == [sensitive : BOOLEAN, last : Nat, again : BOOLEAN, deleted : BOOLEAN]

\* A matrix knows its nodes by id; at and names record what they were then.
Matrices == [at : Nat, names : UNION {[I -> Concepts] : I \in SUBSET Ids}]
NoMatrix == [at |-> 0, names |-> <<>>]

\* Foreign keys: edges and counters refer to nodes that are there.
TypeOK ==
  /\ DOMAIN nodes \subseteq used /\ nodes \in [DOMAIN nodes -> Node]
  /\ DOMAIN edges \subseteq (DOMAIN nodes) \X (DOMAIN nodes)
  /\ edges \in [DOMAIN edges -> Edge]
  /\ counted \subseteq DOMAIN nodes
  /\ total \in Nat /\ used \subseteq Ids
  /\ matrix \in Matrices /\ valid \in BOOLEAN
  /\ lock \in Threads \cup {NoThread}
  /\ pc \in [Threads -> {"idle", "counters", "failed", "invalidate"}]
  /\ dirty \in [Threads -> BOOLEAN]
  /\ mine \in [Threads -> Nat]
  /\ clock \in Nat /\ commits \in Nat /\ finished \in Nat

Nothing == [i \in {} |-> 0]

Init ==
  /\ nodes = Nothing /\ edges = Nothing /\ counted = {} /\ total = 0 /\ used = {}
  /\ matrix = NoMatrix /\ valid = FALSE
  /\ lock = NoThread
  /\ pc = [t \in Threads |-> "idle"]
  /\ dirty = [t \in Threads |-> FALSE]
  /\ mine = [t \in Threads |-> 0]
  /\ clock = 0 /\ commits = 0 /\ finished = 0

-------------------------------------------------------------------------------
(* Reading the graph *)

Live == {e \in DOMAIN edges : ~edges[e].deleted}

\* Neighbours over live edges, in either direction.
Near(i) == {j \in DOMAIN nodes : <<i, j>> \in Live \/ <<j, i>> \in Live}

Visible(i, all) == all \/ nodes[i].concept \notin Sensitive

\* _effective_weight is positive: the idf factor log((total+1) / inputs_seen) is.
Weighs(i) == total + 1 > nodes[i].seen

MaxDepth == 2

\* _navigate_bfs: the nodes found from the seeds.
Bfs(seeds, all) ==
  LET layer[d \in 0 .. MaxDepth] ==
        IF d = 0 THEN [visited |-> seeds, frontier |-> seeds]
        ELSE LET before == layer[d-1]
                 next   == {j \in UNION {Near(i) : i \in before.frontier} :
                              j \notin before.visited /\ Visible(j, all) /\ Weighs(j)}
             IN [visited |-> before.visited \cup next, frontier |-> next]
  IN layer[MaxDepth].visited \ seeds

\* _build_ppr_matrix; every edge is of type co-occurs-with, so that a filter on
\* any other type leaves none.
Build(filtered) ==
  IF Cardinality(DOMAIN nodes) < MinNodes \/ filtered \/ Live = {}
  THEN NoMatrix
  ELSE [at |-> commits, names |-> [i \in DOMAIN nodes |-> nodes[i].concept]]

\* compute_ppr, from navigate or from get_ppr_subgraph: the cache is used as it is
\* whatever the filter, and filled under the lock.
ComputePpr(filtered) ==
  /\ lock = NoThread
  /\ IF valid /\ matrix # NoMatrix THEN UNCHANGED cache
     ELSE matrix' = Build(filtered) /\ valid' = TRUE
  /\ UNCHANGED <<database, calls, clock, commits, finished>>

-------------------------------------------------------------------------------
(* What follows a commit *)

\* The call of t has committed a change and released the lock; its invalidation of
\* the cache is still to come.
Committed(t) ==
  /\ commits' = commits + 1
  /\ mine' = [mine EXCEPT ![t] = commits + 1]
  /\ pc' = [pc EXCEPT ![t] = "invalidate"]
  /\ UNCHANGED <<cache, lock, dirty, clock, finished>>

\* invalidate_ppr_cache, and the call returns.
Invalidate(t) ==
  /\ pc[t] = "invalidate"
  /\ valid' = FALSE
  /\ pc' = [pc EXCEPT ![t] = "idle"]
  /\ finished' = IF mine[t] > finished THEN mine[t] ELSE finished
  /\ mine' = [mine EXCEPT ![t] = 0]
  /\ UNCHANGED <<database, matrix, lock, dirty, clock, commits>>

Ready(t) == pc[t] = "idle" /\ lock = NoThread /\ commits < MaxCommits

-------------------------------------------------------------------------------
(* relate() *)

In(s) == {s[k] : k \in DOMAIN s}

Known(c) == \E i \in DOMAIN nodes : nodes[i].concept = c

\* Mutant: the id of a deleted node is given out again (no AUTOINCREMENT).
FreshIds_Reused == Ids \ DOMAIN nodes

FreshIds == Ids \ used

\* The ids new nodes may get: a different fresh one for each unknown concept.
NewIds(s) ==
  {f \in [{c \in In(s) : ~Known(c)} -> FreshIds] :
     \A c, d \in DOMAIN f : f[c] = f[d] => c = d}

\* The id of a concept of the input.
IdOf(c, f) ==
  IF c \in DOMAIN f THEN f[c] ELSE CHOOSE i \in DOMAIN nodes : nodes[i].concept = c

\* _concept_pairs, in the order of the extractor: the reverse pair is another edge.
Pairs(s, f) ==
  {<<IdOf(s[p[1]], f), IdOf(s[p[2]], f)>> :
     p \in {q \in (DOMAIN s) \X (DOMAIN s) : q[1] < q[2]}}

\* _upsert_node for every concept.
NodesAfter(s, f) ==
  [i \in DOMAIN nodes \cup {f[c] : c \in DOMAIN f} |->
     IF i \notin DOMAIN nodes
     THEN [concept |-> CHOOSE c \in DOMAIN f : f[c] = i, seen |-> 1]
     ELSE IF nodes[i].concept \in In(s) THEN [nodes[i] EXCEPT !.seen = @ + 1]
     ELSE nodes[i]]

NewEdge(in) ==
  [sensitive |-> in.sensitive, last |-> clock, again |-> FALSE, deleted |-> FALSE]

\* _upsert_edge for every pair: a row that is there is reinforced and otherwise left
\* as it is, marked as deleted or not.
EdgesAfter(in, pairs) ==
  [e \in DOMAIN edges \cup pairs |->
     IF e \notin DOMAIN edges THEN NewEdge(in)
     ELSE IF e \in pairs THEN [edges[e] EXCEPT !.last = clock, !.again = TRUE]
     ELSE edges[e]]

\* Mutant: only the source of an edge is counted.
CountedBy_Source(pairs) == {e[1] : e \in pairs}

\* _update_ppmi_counters.
CountedBy(pairs) == {e[1] : e \in pairs} \cup {e[2] : e \in pairs}

\* Mutant: an input of a single concept is not counted.
TotalAfter_Edges(pairs) == IF pairs = {} THEN total ELSE total + 1

TotalAfter(pairs) == total + 1

Relate(t, in) ==
  /\ Ready(t)
  /\ ~in.crisis /\ in.concepts # <<>>
  /\ \E f \in NewIds(in.concepts) :
       LET pairs == Pairs(in.concepts, f)
       IN /\ nodes' = NodesAfter(in.concepts, f)
          /\ edges' = EdgesAfter(in, pairs)
          /\ counted' = counted \cup CountedBy(pairs)
          /\ total' = TotalAfter(pairs)
          /\ used' = used \cup {f[c] : c \in DOMAIN f}
  /\ Committed(t)

\* A crisis, or a text without concepts, is answered without touching the graph.
RelateNothing(in) ==
  /\ in.crisis \/ in.concepts = <<>>
  /\ UNCHANGED vars

-------------------------------------------------------------------------------
(* prune(), decay(), wipe() *)

\* The edges below the threshold are marked; when there are none, nothing follows.
Prune(t) ==
  /\ Ready(t)
  /\ \E low \in SUBSET Live :
       /\ low # {}
       /\ edges' = [e \in DOMAIN edges |->
                      IF e \in low THEN [edges[e] EXCEPT !.deleted = TRUE] ELSE edges[e]]
  /\ UNCHANGED <<nodes, counted, total, used>>
  /\ Committed(t)

\* The rows decay() weighs.
Scanned == Live

\* A sensitive edge starts below PRUNE_THRESHOLD; any other starts above it and stays
\* there on the day it was reinforced.
Faded   == {e \in Scanned : edges[e].sensitive /\ ~edges[e].again}
MayFade == {e \in Scanned : edges[e].sensitive \/ edges[e].last < clock}

Touches(e, i) == e[1] = i \/ e[2] = i

\* The nodes without a live edge among those in rows.
Orphans(rows) ==
  {i \in DOMAIN nodes : \A e \in rows : Touches(e, i) => edges[e].deleted}

\* The foreign key of a row marked as deleted holds its node.
Held(rows) == \E i \in Orphans(rows), e \in rows : Touches(e, i)

CountersWithout(orphans) == counted \ orphans

\* decay(), first transaction.
Decay(t) ==
  /\ Ready(t)
  /\ \E gone \in SUBSET MayFade :
       LET left    == DOMAIN edges \ gone
           orphans == Orphans(left)
       IN /\ Faded \subseteq gone
          /\ lock' = t
          /\ \/ /\ ~Held(left)
                /\ edges' = [e \in left |-> edges[e]]
                /\ nodes' = [i \in DOMAIN nodes \ orphans |-> nodes[i]]
                /\ counted' = CountersWithout(orphans)
                /\ pc' = [pc EXCEPT ![t] = "counters"]
                /\ dirty' = [dirty EXCEPT ![t] = gone # {} \/ orphans # {}]
             \/ /\ Held(left)
                /\ UNCHANGED <<edges, nodes, counted>>
                /\ pc' = [pc EXCEPT ![t] = "failed"]
                /\ UNCHANGED dirty
          /\ commits' = IF dirty'[t] THEN commits + 1 ELSE commits
          /\ mine' = [mine EXCEPT ![t] = IF dirty'[t] THEN commits' ELSE 0]
  /\ UNCHANGED <<total, used, cache, clock, finished>>

\* decay(), second transaction: only the values of the counters change.
DecayCounters(t) ==
  /\ pc[t] = "counters"
  /\ lock' = NoThread
  /\ dirty' = [dirty EXCEPT ![t] = FALSE]
  /\ pc' = [pc EXCEPT ![t] = IF dirty[t] THEN "invalidate" ELSE "idle"]
  /\ UNCHANGED <<database, cache, mine, clock, commits, finished>>

\* IntegrityError: the first transaction is rolled back and the second does not run.
\* The rows counted as pruned so far are reported, and make it invalidate the cache.
DecayFails(t) ==
  /\ pc[t] = "failed"
  /\ lock' = NoThread
  /\ \E after \in {"invalidate", "idle"} : pc' = [pc EXCEPT ![t] = after]
  /\ UNCHANGED <<database, cache, dirty, mine, clock, commits, finished>>

\* Mutant: the cache outlives the graph.
Wipe_KeepsCache(t) ==
  /\ Ready(t)
  /\ nodes' = Nothing /\ edges' = Nothing /\ counted' = {} /\ total' = 0
  /\ commits' = commits + 1 /\ finished' = commits + 1
  /\ UNCHANGED <<used, cache, calls, clock>>

\* wipe(): GDPR erasure.
Wipe(t) ==
  /\ Ready(t)
  /\ nodes' = Nothing /\ edges' = Nothing /\ counted' = {} /\ total' = 0
  /\ UNCHANGED used
  /\ Committed(t)

-------------------------------------------------------------------------------
(* The environment *)

\* The process dies and starts again: initialize() gives counters to the nodes of
\* existing edges when there are none.
Restart ==
  /\ counted' = IF counted = {} THEN CountedBy(DOMAIN edges) ELSE counted
  /\ matrix' = NoMatrix /\ valid' = FALSE
  /\ lock' = NoThread
  /\ pc' = [t \in Threads |-> "idle"]
  /\ dirty' = [t \in Threads |-> FALSE]
  /\ mine' = [t \in Threads |-> 0]
  /\ UNCHANGED <<nodes, edges, total, used, clock, commits, finished>>

Tick ==
  /\ clock < MaxTime
  /\ clock' = clock + 1
  /\ UNCHANGED <<database, cache, calls, commits, finished>>

Next ==
  \/ \E t \in Threads :
       \/ \E in \in Inputs : Relate(t, in)
       \/ Prune(t) \/ Decay(t) \/ DecayCounters(t) \/ DecayFails(t) \/ Wipe(t)
       \/ Invalidate(t)
  \/ \E in \in Inputs : RelateNothing(in)
  \/ \E filtered \in BOOLEAN : ComputePpr(filtered)
  \/ Restart
  \/ Tick

Spec == Init /\ [][Next]_vars

-------------------------------------------------------------------------------
(* Properties *)

\* Both ends of every edge have a PPMI counter: prune() never takes an edge for
\* uncorrelated because a counter is missing, whatever decay() removed before.
PpmiIsDefined == \A e \in DOMAIN edges : e[1] \in counted /\ e[2] \in counted

Joined(i, j) == \E e \in Live : e \in {<<i, j>>, <<j, i>>}

\* navigate() finds exactly the visible concepts at most two live edges away, over
\* visible ones: none is lost because its inputs_seen got ahead of the total, after
\* any sequence of relate, prune, decay and wipe.
NavigateFindsNeighbourhood ==
  \A s \in DOMAIN nodes, all \in BOOLEAN :
    Bfs({s}, all) =
      {j \in DOMAIN nodes \ {s} :
         /\ Visible(j, all)
         /\ \/ Joined(s, j)
            \/ \E k \in DOMAIN nodes : Joined(s, k) /\ Visible(k, all) /\ Joined(k, j)}

\* compute_ppr sees every change whose call has returned: no interleaving of commits,
\* late invalidations and rebuilds leaves an older matrix in use.
CacheIsCurrent == (valid /\ matrix # NoMatrix) => matrix.at >= finished

\* An id in the cached matrix never denotes another concept, even if the graph was
\* wiped and grown again since: navigate() looks the ids up in the present rows.
CachedIdsStayTrue ==
  \A i \in DOMAIN matrix.names \cap DOMAIN nodes : matrix.names[i] = nodes[i].concept

\* prune(): "Physical removal requires graph.wipe()": a row marked as deleted stays,
\* so marked, until the whole graph is wiped.
PrunedRowsStay ==
  [][ \A e \in DOMAIN edges : edges[e].deleted =>
        \/ e \in DOMAIN edges' /\ edges'[e].deleted
        \/ DOMAIN nodes' = {} ]_vars

-------------------------------------------------------------------------------
(* Claims of the documentation that the code does not meet *)

\* decay(): "Remove orphaned nodes": when its first transaction is over, no node is
\* without a live edge.
OrphansRemoved ==
  \A t \in Threads : pc[t] \in {"counters", "failed"} => Orphans(DOMAIN edges) = {}

\* relate(): "co-occurrence strengthens associative links": the edges it has just
\* written are live.
RelatedIsLive ==
  [][ total' > total =>
        \A e \in DOMAIN edges' :
          (e \notin DOMAIN edges \/ edges'[e] # edges[e]) => ~edges'[e].deleted ]_vars
===============================================================================
