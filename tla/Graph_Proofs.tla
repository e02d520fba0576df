------------------------------ MODULE Graph_Proofs ------------------------------
(***************************************************************************)
(* Proofs about Graph, for any number of threads, concepts and ids and     *)
(* any set of inputs.                                                      *)
(*                                                                         *)
(* CacheIsCurrent needs the commits to be ordered: a thread's own commit,  *)
(* the latest finished one and the one a matrix was built at are all among *)
(* those made so far (CommitsOrdered).  CachedIdsStayTrue needs the ids of *)
(* a matrix to have been given out (CachedIdsUsed), since a new node only  *)
(* gets an id that was not.                                                *)
(***************************************************************************)
EXTENDS Graph, TLAPS

CommitsOrdered ==
  /\ finished <= commits /\ matrix.at <= commits
  /\ \A t \in Threads : mine[t] <= commits

CachedIdsUsed == DOMAIN matrix.names \subseteq used

\* The inductive invariant.
IInv ==
  /\ TypeOK /\ PpmiIsDefined
  /\ CommitsOrdered /\ CacheIsCurrent
  /\ CachedIdsUsed /\ CachedIdsStayTrue

-------------------------------------------------------------------------------
(* What relate() computes *)

\* An input of relate() has concepts of the model.
LEMMA InputFacts ==
  ASSUME NEW in \in Inputs
  PROVE  /\ in.concepts \in Seq(Concepts) /\ in.sensitive \in BOOLEAN
         /\ In(in.concepts) \subseteq Concepts
  BY GraphConstants DEF InputType, In

\* New nodes get ids never used before, and every concept of the input has an id.
LEMMA IdFacts ==
  ASSUME TypeOK, NEW s, NEW f \in NewIds(s)
  PROVE  /\ DOMAIN f = {c \in In(s) : ~Known(c)}
         /\ \A c \in DOMAIN f : f[c] \in Ids /\ f[c] \notin used
         /\ \A c \in In(s) : IdOf(c, f) \in (DOMAIN nodes) \cup {f[d] : d \in DOMAIN f}
<1>1. f \in [{c \in In(s) : ~Known(c)} -> FreshIds]
  BY DEF NewIds
<1>2. \A c \in DOMAIN f : f[c] \in Ids /\ f[c] \notin used
  BY <1>1 DEF FreshIds
<1>3. ASSUME NEW c \in In(s)
      PROVE  IdOf(c, f) \in (DOMAIN nodes) \cup {f[d] : d \in DOMAIN f}
  <2>1. CASE c \in DOMAIN f
    BY <2>1 DEF IdOf
  <2>2. CASE c \notin DOMAIN f
    <3>1. Known(c)
      BY <1>1, <2>2
    <3>2. PICK i \in DOMAIN nodes : nodes[i].concept = c
      BY <3>1 DEF Known
    <3> QED
      BY <2>2, <3>2 DEF IdOf
  <2> QED
    BY <2>1, <2>2
<1> QED
  BY <1>1, <1>2, <1>3

\* The rows of graph_nodes after relate(): the old ones keep their concept.
LEMMA NodesAfterFacts ==
  ASSUME TypeOK, NEW in \in Inputs, NEW f \in NewIds(in.concepts)
  PROVE  LET after == NodesAfter(in.concepts, f)
             ids   == (DOMAIN nodes) \cup {f[c] : c \in DOMAIN f}
         IN /\ after \in [ids -> Node]
            /\ \A i \in DOMAIN nodes : after[i].concept = nodes[i].concept
<1> DEFINE after == NodesAfter(in.concepts, f)
           ids   == (DOMAIN nodes) \cup {f[c] : c \in DOMAIN f}
<1>1. DOMAIN f \subseteq Concepts
  BY InputFacts, IdFacts
<1>2. ASSUME NEW i \in ids PROVE after[i] \in Node
  <2>1. CASE i \in DOMAIN nodes
    <3>1. nodes[i] \in Node
      BY <2>1 DEF TypeOK
    <3> QED
      BY <2>1, <3>1 DEF NodesAfter, Node
  <2>2. CASE i \notin DOMAIN nodes
    <3>1. PICK c \in DOMAIN f : f[c] = i
      BY <2>2
    <3>2. (CHOOSE d \in DOMAIN f : f[d] = i) \in DOMAIN f
      BY <3>1
    <3> QED
      BY <1>1, <2>2, <3>2 DEF NodesAfter, Node
  <2> QED
    BY <2>1, <2>2
<1>3. after = [i \in ids |-> after[i]]
  BY DEF NodesAfter
<1>4. ASSUME NEW i \in DOMAIN nodes PROVE after[i].concept = nodes[i].concept
  <2>1. nodes[i] \in Node
    BY DEF TypeOK
  <2> QED
    BY <2>1 DEF NodesAfter, Node
<1> QED
  BY <1>2, <1>3, <1>4

\* The edges relate() writes join nodes that are there, and are counted.
LEMMA PairsFacts ==
  ASSUME TypeOK, NEW in \in Inputs, NEW f \in NewIds(in.concepts)
  PROVE  LET pairs == Pairs(in.concepts, f)
             ids   == (DOMAIN nodes) \cup {f[c] : c \in DOMAIN f}
         IN /\ pairs \subseteq ids \X ids
            /\ CountedBy(pairs) \subseteq ids
            /\ \A e \in pairs : e[1] \in CountedBy(pairs) /\ e[2] \in CountedBy(pairs)
<1> DEFINE s     == in.concepts
           pairs == Pairs(s, f)
           ids   == (DOMAIN nodes) \cup {f[c] : c \in DOMAIN f}
<1>1. ASSUME NEW k \in DOMAIN s PROVE IdOf(s[k], f) \in ids
  <2>1. s[k] \in In(s)
    BY DEF In
  <2>2. \A c \in In(s) : IdOf(c, f) \in ids
    BY IdFacts
  <2> QED
    BY <2>1, <2>2
<1>2. pairs \subseteq ids \X ids
  BY <1>1 DEF Pairs
<1> HIDE DEF pairs, ids
<1>3. CountedBy(pairs) \subseteq ids
  BY <1>2 DEF CountedBy
<1>4. \A e \in pairs : e[1] \in CountedBy(pairs) /\ e[2] \in CountedBy(pairs)
  BY DEF CountedBy
<1> QED
  BY <1>2, <1>3, <1>4 DEF pairs, ids

\* The rows of graph_edges after relate(): a row that was there keeps its mark.
LEMMA EdgesAfterFacts ==
  ASSUME TypeOK, NEW in \in Inputs, NEW pairs
  PROVE  /\ EdgesAfter(in, pairs) \in [(DOMAIN edges) \cup pairs -> Edge]
         /\ \A e \in DOMAIN edges : EdgesAfter(in, pairs)[e].deleted = edges[e].deleted
<1>1. clock \in Nat /\ edges \in [DOMAIN edges -> Edge] /\ in.sensitive \in BOOLEAN
  BY InputFacts DEF TypeOK
<1>2. NewEdge(in) \in Edge
  BY <1>1 DEF NewEdge, Edge
<1>3. \A e \in DOMAIN edges : edges[e] \in Edge
  BY <1>1
<1>4. ASSUME NEW e \in (DOMAIN edges) \cup pairs
      PROVE  EdgesAfter(in, pairs)[e] \in Edge
  BY <1>1, <1>2, <1>3 DEF EdgesAfter, Edge
<1>5. ASSUME NEW e \in DOMAIN edges
      PROVE  EdgesAfter(in, pairs)[e].deleted = edges[e].deleted
  BY <1>3 DEF EdgesAfter, Edge
<1> QED
  BY <1>4, <1>5 DEF EdgesAfter

-------------------------------------------------------------------------------
(* Every step preserves the invariant *)

\* The empty graph and the empty matrix are of their types.
LEMMA EmptyFacts ==
  /\ DOMAIN Nothing = {}
  /\ \A S : Nothing \in [{} -> S]
  /\ NoMatrix \in Matrices /\ NoMatrix.at = 0 /\ DOMAIN NoMatrix.names = {}
<1>1. DOMAIN Nothing = {} /\ \A S : Nothing \in [{} -> S]
  BY DEF Nothing
<1>2. NoMatrix.at = 0 /\ NoMatrix.names = <<>>
  BY DEF NoMatrix
<1>3. <<>> \in [{} -> Concepts] /\ DOMAIN <<>> = {}
  OBVIOUS
<1>4. <<>> \in UNION {[I -> Concepts] : I \in SUBSET Ids}
  <2>1. {} \in SUBSET Ids
    OBVIOUS
  <2> QED
    BY <1>3, <2>1
<1>5. NoMatrix \in Matrices
  BY <1>4 DEF NoMatrix, Matrices
<1> QED
  BY <1>1, <1>2, <1>3, <1>5

LEMMA InitIInv == Init => IInv
<1> SUFFICES ASSUME Init PROVE IInv
  OBVIOUS
<1>1. nodes = Nothing /\ edges = Nothing /\ matrix = NoMatrix
  BY DEF Init
<1>2. /\ DOMAIN nodes = {} /\ nodes \in [{} -> Node]
      /\ DOMAIN edges = {} /\ edges \in [{} -> Edge]
      /\ matrix \in Matrices /\ matrix.at = 0 /\ DOMAIN matrix.names = {}
  BY <1>1, EmptyFacts
<1>3. TypeOK
  BY <1>2 DEF Init, TypeOK
<1>4. PpmiIsDefined /\ CachedIdsUsed /\ CachedIdsStayTrue
  BY <1>2 DEF PpmiIsDefined, CachedIdsUsed, CachedIdsStayTrue
<1>5. CommitsOrdered /\ CacheIsCurrent
  BY <1>2 DEF Init, CommitsOrdered, CacheIsCurrent
<1> QED
  BY <1>3, <1>4, <1>5 DEF IInv

\* The parts of the invariant that a commit of one call does not disturb.
LEMMA CommittedStep ==
  ASSUME IInv, NEW t \in Threads, Committed(t)
  PROVE  /\ matrix' \in Matrices /\ valid' \in BOOLEAN
         /\ lock' \in Threads \cup {NoThread}
         /\ pc' \in [Threads -> {"idle", "counters", "failed", "invalidate"}]
         /\ dirty' \in [Threads -> BOOLEAN]
         /\ mine' \in [Threads -> Nat]
         /\ clock' \in Nat /\ commits' \in Nat /\ finished' \in Nat
         /\ CommitsOrdered' /\ CacheIsCurrent'
<1>1. UNCHANGED <<matrix, valid, lock, dirty, clock, finished>>
  BY DEF Committed, cache
<1>2. commits \in Nat /\ commits' = commits + 1
  BY DEF Committed, IInv, TypeOK
<1>3. /\ pc' \in [Threads -> {"idle", "counters", "failed", "invalidate"}]
      /\ mine' \in [Threads -> Nat]
  BY <1>2 DEF Committed, IInv, TypeOK
<1>4. CommitsOrdered'
  <2>1. finished' <= commits' /\ matrix.at' <= commits'
    BY <1>1, <1>2 DEF IInv, TypeOK, CommitsOrdered, Matrices
  <2>2. ASSUME NEW u \in Threads PROVE mine'[u] <= commits'
    BY <1>2 DEF Committed, IInv, TypeOK, CommitsOrdered
  <2> QED
    BY <1>1, <2>1, <2>2 DEF CommitsOrdered
<1>5. CacheIsCurrent'
  BY <1>1 DEF IInv, CacheIsCurrent
<1> QED
  BY <1>1, <1>2, <1>3, <1>4, <1>5 DEF IInv, TypeOK

LEMMA RelateStep ==
  ASSUME IInv, NEW t \in Threads, NEW in \in Inputs, Relate(t, in)
  PROVE  IInv'
<1>1. PICK f \in NewIds(in.concepts) :
        LET pairs == Pairs(in.concepts, f)
        IN /\ nodes' = NodesAfter(in.concepts, f)
           /\ edges' = EdgesAfter(in, pairs)
           /\ counted' = counted \cup CountedBy(pairs)
           /\ total' = TotalAfter(pairs)
           /\ used' = used \cup {f[c] : c \in DOMAIN f}
  BY DEF Relate
<1> DEFINE pairs == Pairs(in.concepts, f)
           ids   == (DOMAIN nodes) \cup {f[c] : c \in DOMAIN f}
<1>2. TypeOK /\ Committed(t)
  BY DEF IInv, Relate
<1>3. /\ nodes' \in [ids -> Node] /\ DOMAIN nodes' = ids
      /\ \A i \in DOMAIN nodes : nodes'[i].concept = nodes[i].concept
  BY <1>1, <1>2, NodesAfterFacts
<1>4. \A c \in DOMAIN f : f[c] \in Ids /\ f[c] \notin used
  BY <1>2, IdFacts
<1>5. /\ pairs \subseteq ids \X ids /\ CountedBy(pairs) \subseteq ids
      /\ \A e \in pairs : e[1] \in CountedBy(pairs) /\ e[2] \in CountedBy(pairs)
  BY <1>2, PairsFacts
<1>6. edges' \in [(DOMAIN edges) \cup pairs -> Edge]
  BY <1>1, <1>2, EdgesAfterFacts
<1>7. counted' = counted \cup CountedBy(pairs)
  BY <1>1
<1>8. used' = used \cup {f[c] : c \in DOMAIN f} /\ total' = total + 1
  BY <1>1 DEF TotalAfter
<1>9. UNCHANGED matrix
  BY <1>2 DEF Committed, cache
<1> HIDE DEF pairs, ids
<1>10. TypeOK'
  <2>1. /\ DOMAIN nodes' \subseteq used' /\ nodes' \in [DOMAIN nodes' -> Node]
        /\ used' \subseteq Ids
    BY <1>2, <1>3, <1>4, <1>8 DEF TypeOK, ids
  <2>2. DOMAIN nodes \subseteq ids
    BY DEF ids
  <2>3. /\ DOMAIN edges' \subseteq (DOMAIN nodes') \X (DOMAIN nodes')
        /\ edges' \in [DOMAIN edges' -> Edge]
        /\ counted' \subseteq DOMAIN nodes'
    BY <1>2, <1>3, <1>5, <1>6, <1>7, <2>2 DEF TypeOK
  <2>4. total' \in Nat
    BY <1>2, <1>8 DEF TypeOK
  <2> QED
    BY <1>2, <2>1, <2>3, <2>4, CommittedStep DEF TypeOK
<1>11. PpmiIsDefined'
  BY <1>5, <1>6, <1>7 DEF IInv, PpmiIsDefined
<1>12. CachedIdsUsed'
  BY <1>8, <1>9 DEF IInv, CachedIdsUsed
<1>13. CachedIdsStayTrue'
  <2>1. ASSUME NEW i \in DOMAIN matrix.names \cap ids PROVE i \in DOMAIN nodes
    BY <1>4 DEF IInv, CachedIdsUsed, ids
  <2> QED
    BY <1>3, <1>9, <2>1 DEF IInv, CachedIdsStayTrue
<1> QED
  BY <1>2, <1>10, <1>11, <1>12, <1>13, CommittedStep DEF IInv

LEMMA PruneStep ==
  ASSUME IInv, NEW t \in Threads, Prune(t)
  PROVE  IInv'
<1>1. PICK low \in SUBSET Live :
        edges' = [e \in DOMAIN edges |->
                    IF e \in low THEN [edges[e] EXCEPT !.deleted = TRUE] ELSE edges[e]]
  BY DEF Prune
<1>2. UNCHANGED <<nodes, counted, total, used, matrix>> /\ Committed(t)
  BY DEF Prune, Committed, cache
<1>3. DOMAIN edges' = DOMAIN edges
  BY <1>1
<1>4. \A e \in DOMAIN edges : edges'[e] \in Edge
  BY <1>1 DEF IInv, TypeOK, Edge
<1>5. TypeOK'
  <2>1. edges' \in [DOMAIN edges' -> Edge]
    BY <1>1, <1>3, <1>4
  <2> QED
    BY <1>2, <1>3, <2>1, CommittedStep DEF IInv, TypeOK
<1>6. PpmiIsDefined' /\ CachedIdsUsed' /\ CachedIdsStayTrue'
  BY <1>2, <1>3 DEF IInv, PpmiIsDefined, CachedIdsUsed, CachedIdsStayTrue
<1> QED
  BY <1>2, <1>5, <1>6, CommittedStep DEF IInv

LEMMA DecayStep ==
  ASSUME IInv, NEW t \in Threads, Decay(t)
  PROVE  IInv'
<1>1. PICK gone \in SUBSET MayFade :
        LET left    == DOMAIN edges \ gone
            orphans == Orphans(left)
        IN /\ lock' = t
           /\ \/ /\ ~Held(left)
                 /\ edges' = [e \in left |-> edges[e]]
                 /\ nodes' = [i \in DOMAIN nodes \ orphans |-> nodes[i]]
                 /\ counted' = CountersWithout(orphans)
                 /\ pc' = [pc EXCEPT ![t] = "counters"]
                 /\ dirty' = [dirty EXCEPT ![t] = gone # {} \/ orphans # {}]
              \/ /\ UNCHANGED <<edges, nodes, counted>>
                 /\ pc' = [pc EXCEPT ![t] = "failed"]
                 /\ UNCHANGED dirty
           /\ commits' = IF dirty'[t] THEN commits + 1 ELSE commits
           /\ mine' = [mine EXCEPT ![t] = IF dirty'[t] THEN commits' ELSE 0]
  BY DEF Decay
<1> DEFINE left    == DOMAIN edges \ gone
           orphans == Orphans(left)
<1>2. UNCHANGED <<total, used, matrix, valid, clock, finished>>
  BY DEF Decay, cache
<1>3. TypeOK
  BY DEF IInv
<1>4. commits' \in Nat /\ commits <= commits' /\ mine' \in [Threads -> Nat]
      /\ \A u \in Threads : mine'[u] <= commits'
  <2>1. commits \in Nat /\ mine \in [Threads -> Nat] /\ \A u \in Threads : mine[u] <= commits
    BY <1>3 DEF IInv, TypeOK, CommitsOrdered
  <2>2. commits' = commits + 1 \/ commits' = commits
    BY <1>1
  <2>3. commits' \in Nat /\ commits <= commits'
    BY <2>1, <2>2
  <2>4. \/ mine' = [mine EXCEPT ![t] = commits'] \/ mine' = [mine EXCEPT ![t] = 0]
    BY <1>1
  <2> QED
    BY <2>1, <2>3, <2>4
<1>5. CommitsOrdered' /\ CacheIsCurrent'
  <2>1. finished \in Nat /\ matrix.at \in Nat /\ commits \in Nat
    BY <1>3 DEF TypeOK, Matrices
  <2> QED
    BY <1>2, <1>4, <2>1 DEF IInv, CommitsOrdered, CacheIsCurrent
<1>6. /\ lock' \in Threads \cup {NoThread}
      /\ pc' \in [Threads -> {"idle", "counters", "failed", "invalidate"}]
  BY <1>1, <1>3 DEF TypeOK
<1>7. dirty' \in [Threads -> BOOLEAN]
  <2>1. dirty \in [Threads -> BOOLEAN]
    BY <1>3 DEF TypeOK
  <2>2. \/ dirty' = [dirty EXCEPT ![t] = gone # {} \/ orphans # {}]
        \/ dirty' = dirty
    BY <1>1
  <2>3. (gone # {} \/ orphans # {}) \in BOOLEAN
    BY Zenon
  <2> HIDE DEF orphans
  <2> QED
    BY <2>1, <2>2, <2>3
<1>8. CASE UNCHANGED <<edges, nodes, counted>>
  <2>1. TypeOK'
    BY <1>2, <1>3, <1>4, <1>6, <1>7, <1>8 DEF TypeOK
  <2> QED
    BY <1>2, <1>5, <1>8, <2>1
    DEF IInv, PpmiIsDefined, CachedIdsUsed, CachedIdsStayTrue
<1>9. CASE /\ ~Held(left)
           /\ edges' = [e \in left |-> edges[e]]
           /\ nodes' = [i \in DOMAIN nodes \ orphans |-> nodes[i]]
           /\ counted' = CountersWithout(orphans)
  <2>1. left \subseteq DOMAIN edges /\ orphans \subseteq DOMAIN nodes
    BY DEF Orphans
  <2>2. \A e \in left : e[1] \notin orphans /\ e[2] \notin orphans
    BY <1>9 DEF Held, Touches
  <2>3. counted' = counted \ orphans
    BY <1>9 DEF CountersWithout
  <2> HIDE DEF left, orphans
  <2>4. /\ DOMAIN nodes' = DOMAIN nodes \ orphans
        /\ nodes' \in [DOMAIN nodes' -> Node]
        /\ \A i \in DOMAIN nodes' : nodes'[i] = nodes[i]
    BY <1>3, <1>9 DEF TypeOK
  <2>5. DOMAIN edges' = left /\ edges' \in [DOMAIN edges' -> Edge]
    BY <1>3, <1>9, <2>1 DEF TypeOK
  <2>6. DOMAIN edges' \subseteq (DOMAIN nodes') \X (DOMAIN nodes')
    BY <1>3, <2>1, <2>2, <2>4, <2>5 DEF TypeOK
  <2>7. TypeOK'
    <3>1. DOMAIN nodes' \subseteq used' /\ counted' \subseteq DOMAIN nodes'
      BY <1>2, <1>3, <2>3, <2>4 DEF TypeOK
    <3> QED
      BY <1>2, <1>3, <1>4, <1>6, <1>7, <2>4, <2>5, <2>6, <3>1 DEF TypeOK
  <2>8. PpmiIsDefined'
    BY <2>1, <2>2, <2>3, <2>5 DEF IInv, PpmiIsDefined
  <2>9. CachedIdsUsed' /\ CachedIdsStayTrue'
    BY <1>2, <2>4 DEF IInv, CachedIdsUsed, CachedIdsStayTrue
  <2> QED
    BY <1>5, <2>7, <2>8, <2>9 DEF IInv
<1> QED
  BY <1>1, <1>8, <1>9

LEMMA DecayCountersStep ==
  ASSUME IInv, NEW t \in Threads, DecayCounters(t)
  PROVE  IInv'
<1>1. /\ UNCHANGED <<nodes, edges, counted, total, used, matrix, valid>>
      /\ UNCHANGED <<mine, clock, commits, finished>>
  BY DEF DecayCounters, database, cache
<1>2. lock' = NoThread /\ dirty' \in [Threads -> BOOLEAN]
      /\ pc' \in [Threads -> {"idle", "counters", "failed", "invalidate"}]
  BY DEF DecayCounters, IInv, TypeOK
<1>3. TypeOK'
  BY <1>1, <1>2 DEF IInv, TypeOK
<1> QED
  BY <1>1, <1>3 DEF IInv, PpmiIsDefined, CommitsOrdered, CacheIsCurrent, CachedIdsUsed,
                    CachedIdsStayTrue

LEMMA DecayFailsStep ==
  ASSUME IInv, NEW t \in Threads, DecayFails(t)
  PROVE  IInv'
<1>1. /\ UNCHANGED <<nodes, edges, counted, total, used, matrix, valid>>
      /\ UNCHANGED <<dirty, mine, clock, commits, finished>>
  BY DEF DecayFails, database, cache
<1>2. lock' = NoThread
      /\ pc' \in [Threads -> {"idle", "counters", "failed", "invalidate"}]
  BY DEF DecayFails, IInv, TypeOK
<1>3. TypeOK'
  BY <1>1, <1>2 DEF IInv, TypeOK
<1> QED
  BY <1>1, <1>3 DEF IInv, PpmiIsDefined, CommitsOrdered, CacheIsCurrent, CachedIdsUsed,
                    CachedIdsStayTrue

\* The only step that makes a commit a finished one leaves no cache in use.
LEMMA InvalidateStep ==
  ASSUME IInv, NEW t \in Threads, Invalidate(t)
  PROVE  IInv'
<1>1. UNCHANGED <<nodes, edges, counted, total, used, matrix, lock, dirty, clock, commits>>
  BY DEF Invalidate, database
<1>2. valid' = FALSE
      /\ pc' \in [Threads -> {"idle", "counters", "failed", "invalidate"}]
  BY DEF Invalidate, IInv, TypeOK
<1>3. /\ finished' \in Nat /\ finished' <= commits
      /\ mine' \in [Threads -> Nat] /\ \A u \in Threads : mine'[u] <= commits
  <2>1. /\ finished \in Nat /\ mine \in [Threads -> Nat] /\ commits \in Nat
        /\ finished <= commits /\ \A u \in Threads : mine[u] <= commits
    BY DEF IInv, TypeOK, CommitsOrdered
  <2>2. (finished' = mine[t] \/ finished' = finished) /\ mine' = [mine EXCEPT ![t] = 0]
    BY DEF Invalidate
  <2> QED
    BY <2>1, <2>2
<1>4. TypeOK'
  BY <1>1, <1>2, <1>3 DEF IInv, TypeOK
<1>5. CommitsOrdered' /\ CacheIsCurrent'
  BY <1>1, <1>2, <1>3 DEF IInv, CommitsOrdered, CacheIsCurrent
<1> QED
  BY <1>1, <1>4, <1>5 DEF IInv, PpmiIsDefined, CachedIdsUsed, CachedIdsStayTrue

LEMMA WipeStep ==
  ASSUME IInv, NEW t \in Threads, Wipe(t)
  PROVE  IInv'
<1>1. /\ nodes' = Nothing /\ edges' = Nothing /\ counted' = {} /\ total' = 0
      /\ used' = used /\ matrix' = matrix /\ Committed(t)
  BY DEF Wipe, Committed, cache
<1>2. /\ DOMAIN nodes' = {} /\ nodes' \in [{} -> Node]
      /\ DOMAIN edges' = {} /\ edges' \in [{} -> Edge]
  BY <1>1, EmptyFacts
<1>3. used' \subseteq Ids
  BY <1>1 DEF IInv, TypeOK
<1>4. TypeOK'
  BY <1>1, <1>2, <1>3, CommittedStep DEF TypeOK
<1>5. PpmiIsDefined' /\ CachedIdsUsed' /\ CachedIdsStayTrue'
  BY <1>1, <1>2 DEF IInv, PpmiIsDefined, CachedIdsUsed, CachedIdsStayTrue
<1> QED
  BY <1>1, <1>4, <1>5, CommittedStep DEF IInv

\* A matrix is built under the lock from the rows of the latest commit.
LEMMA ComputePprStep ==
  ASSUME IInv, NEW filtered \in BOOLEAN, ComputePpr(filtered)
  PROVE  IInv'
<1>1. /\ UNCHANGED <<nodes, edges, counted, total, used, lock, pc, dirty, mine>>
      /\ UNCHANGED <<clock, commits, finished>>
  BY DEF ComputePpr, database, calls
<1>2. CASE UNCHANGED cache
  BY <1>1, <1>2 DEF IInv, TypeOK, PpmiIsDefined, CommitsOrdered, CacheIsCurrent,
                    CachedIdsUsed, CachedIdsStayTrue, cache
<1>3. CASE matrix' = Build(filtered) /\ valid' = TRUE
  <2>1. \/ matrix' = NoMatrix
        \/ matrix' = [at |-> commits, names |-> [i \in DOMAIN nodes |-> nodes[i].concept]]
    BY <1>3 DEF Build
  <2>2. CASE matrix' = NoMatrix
    <3>1. matrix' \in Matrices /\ matrix'.at = 0 /\ DOMAIN matrix'.names = {}
      BY <2>2, EmptyFacts
    <3>2. TypeOK'
      BY <1>1, <1>3, <3>1 DEF IInv, TypeOK
    <3>3. CommitsOrdered' /\ CacheIsCurrent'
      BY <1>1, <2>2, <3>1 DEF IInv, TypeOK, CommitsOrdered, CacheIsCurrent, NoMatrix
    <3>4. CachedIdsUsed' /\ CachedIdsStayTrue' /\ PpmiIsDefined'
      BY <1>1, <3>1 DEF IInv, CachedIdsUsed, CachedIdsStayTrue, PpmiIsDefined
    <3> QED
      BY <3>2, <3>3, <3>4 DEF IInv
  <2>3. CASE matrix' = [at |-> commits, names |-> [i \in DOMAIN nodes |-> nodes[i].concept]]
    <3> DEFINE names == [i \in DOMAIN nodes |-> nodes[i].concept]
    <3>1. names \in [DOMAIN nodes -> Concepts]
      BY DEF IInv, TypeOK, Node
    <3>2. DOMAIN nodes \in SUBSET Ids /\ commits \in Nat
      BY DEF IInv, TypeOK
    <3>3. names \in UNION {[I -> Concepts] : I \in SUBSET Ids}
      BY <3>1, <3>2
    <3>4. /\ matrix'.at = commits /\ DOMAIN matrix'.names = DOMAIN nodes
          /\ \A i \in DOMAIN nodes : matrix'.names[i] = nodes[i].concept
      BY <2>3
    <3>5. matrix' \in Matrices
      BY <2>3, <3>2, <3>3 DEF Matrices
    <3>6. TypeOK'
      BY <1>1, <1>3, <3>5 DEF IInv, TypeOK
    <3>7. CommitsOrdered' /\ CacheIsCurrent'
      BY <1>1, <3>2, <3>4 DEF IInv, CommitsOrdered, CacheIsCurrent
    <3>8. CachedIdsUsed' /\ CachedIdsStayTrue' /\ PpmiIsDefined'
      BY <1>1, <3>4 DEF IInv, TypeOK, CachedIdsUsed, CachedIdsStayTrue, PpmiIsDefined
    <3> QED
      BY <3>6, <3>7, <3>8 DEF IInv
  <2> QED
    BY <2>1, <2>2, <2>3
<1> QED
  BY <1>2, <1>3 DEF ComputePpr

LEMMA RestartStep ==
  ASSUME IInv, Restart
  PROVE  IInv'
<1>1. /\ UNCHANGED <<nodes, edges, total, used, clock, commits, finished>>
      /\ matrix' = NoMatrix /\ valid' = FALSE
  BY DEF Restart
<1>2. /\ lock' = NoThread /\ dirty' \in [Threads -> BOOLEAN] /\ mine' \in [Threads -> Nat]
      /\ pc' \in [Threads -> {"idle", "counters", "failed", "invalidate"}]
      /\ \A t \in Threads : mine'[t] = 0
  BY DEF Restart
<1>3. counted' = counted \/ counted' = CountedBy(DOMAIN edges)
  BY DEF Restart
<1>4. matrix' \in Matrices /\ matrix'.at = 0 /\ DOMAIN matrix'.names = {}
  BY <1>1, EmptyFacts
<1>5. counted' \subseteq DOMAIN nodes
  BY <1>3 DEF IInv, TypeOK, CountedBy
<1>6. TypeOK'
  BY <1>1, <1>2, <1>4, <1>5 DEF IInv, TypeOK
<1>7. CommitsOrdered' /\ CacheIsCurrent'
  BY <1>1, <1>2, <1>4 DEF IInv, TypeOK, CommitsOrdered, CacheIsCurrent
<1>8. PpmiIsDefined'
  BY <1>1, <1>3 DEF IInv, PpmiIsDefined, CountedBy
<1>9. CachedIdsUsed' /\ CachedIdsStayTrue'
  BY <1>1, <1>4 DEF IInv, CachedIdsUsed, CachedIdsStayTrue
<1> QED
  BY <1>6, <1>7, <1>8, <1>9 DEF IInv

LEMMA StutterStep ==
  ASSUME IInv, UNCHANGED vars \/ Tick
  PROVE  IInv'
<1>1. /\ UNCHANGED <<nodes, edges, counted, total, used, matrix, valid>>
      /\ UNCHANGED <<lock, pc, dirty, mine, commits, finished>>
      /\ clock' \in Nat
  BY DEF vars, Tick, database, cache, calls, IInv, TypeOK
<1> QED
  BY <1>1 DEF IInv, TypeOK, PpmiIsDefined, CommitsOrdered, CacheIsCurrent, CachedIdsUsed,
              CachedIdsStayTrue

LEMMA NextIInv == IInv /\ [Next]_vars => IInv'
<1> SUFFICES ASSUME IInv, [Next]_vars PROVE IInv'
  OBVIOUS
<1>1. ASSUME NEW t \in Threads, NEW in \in Inputs, Relate(t, in) PROVE IInv'
  BY <1>1, RelateStep
<1>2. ASSUME NEW t \in Threads,
             Prune(t) \/ Decay(t) \/ DecayCounters(t) \/ DecayFails(t) \/ Wipe(t) \/ Invalidate(t)
      PROVE  IInv'
  BY <1>2, PruneStep, DecayStep, DecayCountersStep, DecayFailsStep, WipeStep, InvalidateStep
<1>3. ASSUME NEW in \in Inputs, RelateNothing(in) PROVE IInv'
  BY <1>3, StutterStep DEF RelateNothing
<1>4. ASSUME NEW filtered \in BOOLEAN, ComputePpr(filtered) PROVE IInv'
  BY <1>4, ComputePprStep
<1>5. CASE Restart
  BY <1>5, RestartStep
<1>6. CASE Tick \/ UNCHANGED vars
  BY <1>6, StutterStep
<1> QED
  BY <1>1, <1>2, <1>3, <1>4, <1>5, <1>6 DEF Next

-------------------------------------------------------------------------------
(* Theorems *)

\* The inductive invariant holds throughout, whatever the interleaving of calls,
\* late invalidations, restarts and matrix rebuilds.
THEOREM Invariance == Spec => []IInv
  BY InitIInv, NextIInv, PTL DEF Spec

\* Type correctness, foreign keys included: edges and counters refer to nodes that
\* are there after any sequence of relate, prune, decay and wipe.
THEOREM TypeCorrect == Spec => []TypeOK
<1>1. IInv => TypeOK
  BY DEF IInv
<1> QED
  BY <1>1, Invariance, PTL

\* Both ends of every edge always have a PPMI counter, also after decay() removed
\* nodes and their counters.
THEOREM PpmiAlwaysDefined == Spec => []PpmiIsDefined
<1>1. IInv => PpmiIsDefined
  BY DEF IInv
<1> QED
  BY <1>1, Invariance, PTL

\* compute_ppr() never uses a matrix older than a change whose call has returned,
\* although the cache is invalidated outside the lock.
THEOREM CacheAlwaysCurrent == Spec => []CacheIsCurrent
<1>1. IInv => CacheIsCurrent
  BY DEF IInv
<1> QED
  BY <1>1, Invariance, PTL

\* An id in the cached matrix never denotes another concept than the one it stood
\* for when the matrix was built, even across wipe().
THEOREM CachedIdsAlwaysTrue == Spec => []CachedIdsStayTrue
<1>1. IInv => CachedIdsStayTrue
  BY DEF IInv
<1> QED
  BY <1>1, Invariance, PTL

DeletedStays ==
  \A e \in DOMAIN edges : edges[e].deleted =>
    \/ e \in DOMAIN edges' /\ edges'[e].deleted
    \/ DOMAIN nodes' = {}

LEMMA DeletedStaysStep == TypeOK /\ [Next]_vars => [DeletedStays]_vars
<1> SUFFICES ASSUME TypeOK, [Next]_vars, edges' # edges PROVE DeletedStays
  BY DEF DeletedStays
<1>1. ASSUME NEW t \in Threads, NEW in \in Inputs, Relate(t, in) PROVE DeletedStays
  <2>1. PICK f \in NewIds(in.concepts) : edges' = EdgesAfter(in, Pairs(in.concepts, f))
    BY <1>1 DEF Relate
  <2> DEFINE pairs == Pairs(in.concepts, f)
  <2>2. /\ edges' \in [(DOMAIN edges) \cup pairs -> Edge]
        /\ \A e \in DOMAIN edges : edges'[e].deleted = edges[e].deleted
    BY <2>1, EdgesAfterFacts
  <2> HIDE DEF pairs
  <2> QED
    BY <2>2 DEF DeletedStays
<1>2. ASSUME NEW t \in Threads, Prune(t) PROVE DeletedStays
  <2>1. PICK low \in SUBSET Live :
          edges' = [e \in DOMAIN edges |->
                      IF e \in low THEN [edges[e] EXCEPT !.deleted = TRUE] ELSE edges[e]]
    BY <1>2 DEF Prune
  <2>2. \A e \in DOMAIN edges : edges[e] \in Edge
    BY DEF TypeOK
  <2>3. \A e \in DOMAIN edges : edges[e].deleted => edges'[e].deleted
    BY <2>1, <2>2 DEF Edge
  <2> QED
    BY <2>1, <2>3 DEF DeletedStays
<1>3. ASSUME NEW t \in Threads, Decay(t) PROVE DeletedStays
  <2>1. PICK gone \in SUBSET MayFade : edges' = [e \in DOMAIN edges \ gone |-> edges[e]]
    BY <1>3 DEF Decay
  <2>2. \A e \in gone : ~edges[e].deleted
    BY DEF MayFade, Scanned, Live
  <2> QED
    BY <2>1, <2>2 DEF DeletedStays
<1>4. ASSUME NEW t \in Threads, Wipe(t) PROVE DeletedStays
  BY <1>4, EmptyFacts DEF Wipe, DeletedStays
<1>5. \/ \E t \in Threads :
           (\E in \in Inputs : Relate(t, in)) \/ Prune(t) \/ Decay(t) \/ Wipe(t)
      \/ UNCHANGED edges
  BY DEF Next, vars, DecayCounters, DecayFails, Invalidate, RelateNothing, ComputePpr, Restart,
         Tick, database
<1> QED
  BY <1>1, <1>2, <1>3, <1>4, <1>5

\* A row that prune() marked as deleted stays, so marked, until wipe() empties the
\* graph: neither relate() nor decay() removes it or brings it back.
THEOREM PrunedRowsAlwaysStay == Spec => PrunedRowsStay
<1>1. TypeOK /\ [Next]_vars => [DeletedStays]_vars
  BY DeletedStaysStep
<1>2. Spec => [][DeletedStays]_vars
  BY <1>1, TypeCorrect, PTL DEF Spec
<1> QED
  BY <1>2 DEF PrunedRowsStay, DeletedStays

-------------------------------------------------------------------------------
(* navigate() *)

\* No node was seen in more inputs than there were: the idf factor of
\* _effective_weight is positive for every node.
SeenInTotal == \A i \in DOMAIN nodes : nodes[i].seen <= total

LEMMA SeenStep == TypeOK /\ SeenInTotal /\ [Next]_vars => SeenInTotal'
<1> SUFFICES ASSUME TypeOK, SeenInTotal, [Next]_vars PROVE SeenInTotal'
  OBVIOUS
<1>a. total \in Nat /\ \A i \in DOMAIN nodes : nodes[i] \in Node
  BY DEF TypeOK
<1>1. ASSUME NEW t \in Threads, NEW in \in Inputs, Relate(t, in) PROVE SeenInTotal'
  <2>1. PICK f \in NewIds(in.concepts) :
          nodes' = NodesAfter(in.concepts, f) /\ total' = total + 1
    BY <1>1 DEF Relate, TotalAfter
  <2>2. ASSUME NEW i \in DOMAIN nodes' PROVE nodes'[i].seen <= total'
    <3>1. CASE i \in DOMAIN nodes
      <4>1. /\ nodes[i] \in Node /\ nodes[i].seen \in Nat
            /\ nodes[i].seen <= total
        BY <1>a, <3>1 DEF Node, SeenInTotal
      <4>2. \/ nodes'[i] = [nodes[i] EXCEPT !.seen = @ + 1]
            \/ nodes'[i] = nodes[i]
        BY <2>1, <2>2, <3>1 DEF NodesAfter
      <4>3. nodes'[i].seen \in {nodes[i].seen, nodes[i].seen + 1}
        BY <4>1, <4>2 DEF Node
      <4> QED BY <1>a, <2>1, <4>1, <4>3
    <3>2. CASE i \notin DOMAIN nodes
      <4>1. nodes'[i].seen = 1
        BY <2>1, <2>2, <3>2 DEF NodesAfter
      <4> QED BY <1>a, <2>1, <4>1
    <3> QED BY <3>1, <3>2
  <2> QED BY <2>2 DEF SeenInTotal
<1>2. ASSUME NEW t \in Threads, Decay(t) PROVE SeenInTotal'
  <2>1. /\ \/ \E orphans : nodes' = [i \in DOMAIN nodes \ orphans |-> nodes[i]]
           \/ nodes' = nodes
        /\ total' = total
    BY <1>2 DEF Decay
  <2> QED BY <2>1 DEF SeenInTotal
<1>3. ASSUME NEW t \in Threads, Wipe(t) PROVE SeenInTotal'
  BY <1>3, EmptyFacts DEF Wipe, SeenInTotal
<1>4. \/ \E t \in Threads : (\E in \in Inputs : Relate(t, in)) \/ Decay(t) \/ Wipe(t)
      \/ UNCHANGED <<nodes, total>>
  BY DEF Next, vars, Prune, DecayCounters, DecayFails, Invalidate, RelateNothing,
         ComputePpr, Restart, Tick, database
<1> QED
  BY <1>1, <1>2, <1>3, <1>4 DEF SeenInTotal

\* One round of _navigate_bfs.
Found(visited, frontier, all) ==
  {j \in UNION {Near(i) : i \in frontier} :
     j \notin visited /\ Visible(j, all) /\ Weighs(j)}

\* The state of the search after another round.
Round(r, all) ==
  [visited  |-> r.visited \cup Found(r.visited, r.frontier, all),
   frontier |-> Found(r.visited, r.frontier, all)]

\* f records the search round by round.
IsSearch(f, seeds, all) ==
  f = [d \in 0 .. MaxDepth |->
         IF d = 0 THEN [visited |-> seeds, frontier |-> seeds] ELSE Round(f[d-1], all)]

\* The recursion of _navigate_bfs defines the search, and takes two rounds.
LEMMA BfsRounds ==
  ASSUME NEW seeds, NEW all
  PROVE  LET one == Found(seeds, seeds, all)
             two == Found(seeds \cup one, one, all)
         IN Bfs(seeds, all) = ((seeds \cup one) \cup two) \ seeds
<1> DEFINE one == Found(seeds, seeds, all)
           two == Found(seeds \cup one, one, all)
           r0 == [visited |-> seeds, frontier |-> seeds]
           r1 == Round(r0, all)
           r2 == Round(r1, all)
           g  == [d \in 0 .. MaxDepth |-> IF d = 0 THEN r0 ELSE IF d = 1 THEN r1 ELSE r2]
           search == CHOOSE f : IsSearch(f, seeds, all)
<1>1. 0 .. MaxDepth = {0, 1, 2}
  BY DEF MaxDepth
<1>2. IsSearch(g, seeds, all)
  <2> DEFINE h == [d \in 0 .. MaxDepth |-> IF d = 0 THEN r0 ELSE Round(g[d-1], all)]
  <2>1. g[0] = r0 /\ g[1] = r1 /\ g[2] = r2
    <3> HIDE DEF r0, r1, r2
    <3> QED BY <1>1
  <2>2. h[0] = r0 /\ h[1] = Round(g[0], all) /\ h[2] = Round(g[1], all)
    <3> HIDE DEF g, r0
    <3> QED BY <1>1
  <2>3. \A d \in 0 .. MaxDepth : h[d] = g[d]
    <3> HIDE DEF g, h, r0
    <3> QED BY <1>1, <2>1, <2>2
  <2>4. h = g
    <3> HIDE DEF r0, r1, r2
    <3> QED BY <2>3
  <2> HIDE DEF g
  <2> QED BY <2>4 DEF IsSearch
<1>3. IsSearch(search, seeds, all)
  <2> HIDE DEF g
  <2> QED BY <1>2
<1>4. Bfs(seeds, all) = search[MaxDepth].visited \ seeds
  BY DEF Bfs, Found, IsSearch, Round
<1>5. search[0] = r0 /\ search[1] = Round(search[0], all)
      /\ search[2] = Round(search[1], all)
  <2> HIDE DEF search
  <2>1. \A d \in {0, 1, 2} : search[d] = IF d = 0 THEN r0 ELSE Round(search[d-1], all)
    BY <1>1, <1>3 DEF IsSearch
  <2> HIDE DEF r0
  <2> QED BY <2>1
<1>6. r1 = [visited |-> seeds \cup one, frontier |-> one]
  BY DEF Round
<1>7. r2.visited = (seeds \cup one) \cup two
  <2> HIDE DEF one, r1
  <2> QED BY <1>6 DEF Round
<1> HIDE DEF search, r0, one, two
<1>8. search[MaxDepth].visited = r2.visited
  BY <1>5 DEF MaxDepth
<1> HIDE DEF r1, r2
<1>9. Bfs(seeds, all) = ((seeds \cup one) \cup two) \ seeds
  BY <1>4, <1>7, <1>8
<1> QED BY <1>9 DEF one, two

\* What a breadth-first search of two rounds finds is what is visible and at most
\* two live edges away.
LEMMA BfsFindsNeighbourhood ==
  ASSUME TypeOK, SeenInTotal
  PROVE  NavigateFindsNeighbourhood
<1>1. ASSUME NEW i \in DOMAIN nodes PROVE Weighs(i)
  <2>1. nodes[i].seen \in Nat /\ nodes[i].seen <= total /\ total \in Nat
    BY DEF TypeOK, Node, SeenInTotal
  <2> QED BY <2>1 DEF Weighs
<1>2. \A i, j : j \in Near(i) <=> j \in DOMAIN nodes /\ Joined(i, j)
  BY DEF Near, Joined
<1>3. \A i, j : Joined(i, j) => i \in DOMAIN nodes /\ j \in DOMAIN nodes
  BY DEF Joined, Live, TypeOK
<1> SUFFICES ASSUME NEW s \in DOMAIN nodes, NEW all \in BOOLEAN
             PROVE  Bfs({s}, all) =
                      {j \in DOMAIN nodes \ {s} :
                         /\ Visible(j, all)
                         /\ \/ Joined(s, j)
                            \/ \E k \in DOMAIN nodes :
                                 Joined(s, k) /\ Visible(k, all) /\ Joined(k, j)}
  BY DEF NavigateFindsNeighbourhood
<1> DEFINE one == Found({s}, {s}, all)
           two == Found({s} \cup one, one, all)
<1>4. Bfs({s}, all) = (({s} \cup one) \cup two) \ {s}
  BY BfsRounds
<1>5. \A j : j \in one <=> j \in DOMAIN nodes /\ j # s /\ Joined(s, j) /\ Visible(j, all)
  BY <1>1, <1>2 DEF Found
<1> HIDE DEF one
<1>6. \A j : j \in two <=> /\ j \in DOMAIN nodes /\ j # s /\ j \notin one
                           /\ Visible(j, all)
                           /\ \E k \in one : Joined(k, j)
  BY <1>1, <1>2 DEF Found
<1> HIDE DEF two
<1>7. ASSUME NEW j \in Bfs({s}, all)
      PROVE  /\ j \in DOMAIN nodes \ {s} /\ Visible(j, all)
             /\ \/ Joined(s, j)
                \/ \E k \in DOMAIN nodes :
                     Joined(s, k) /\ Visible(k, all) /\ Joined(k, j)
  BY <1>4, <1>5, <1>6
<1>8. ASSUME NEW j \in DOMAIN nodes \ {s}, Visible(j, all),
             \/ Joined(s, j)
             \/ \E k \in DOMAIN nodes : Joined(s, k) /\ Visible(k, all) /\ Joined(k, j)
      PROVE  j \in Bfs({s}, all)
  <2>1. CASE Joined(s, j)
    BY <1>4, <1>5, <1>8, <2>1
  <2>2. CASE ~Joined(s, j)
    <3>1. PICK k \in DOMAIN nodes : Joined(s, k) /\ Visible(k, all) /\ Joined(k, j)
      BY <1>8, <2>2
    <3>2. k # s
      BY <2>2, <3>1
    <3> QED BY <1>4, <1>5, <1>6, <1>8, <2>2, <3>1, <3>2
  <2> QED BY <2>1, <2>2
<1> QED BY <1>7, <1>8

\* navigate() finds exactly the visible concepts at most two live edges away from
\* a seed, over visible ones, after any sequence of relate, prune, decay, wipe and
\* restarts: no count of inputs ever takes a node out of its reach.
THEOREM NavigateAlwaysFindsNeighbourhood == Spec => []NavigateFindsNeighbourhood
<1>1. Init => SeenInTotal
  BY EmptyFacts DEF Init, SeenInTotal
<1>2. TypeOK /\ SeenInTotal /\ [Next]_vars => SeenInTotal'
  BY SeenStep
<1>3. TypeOK /\ SeenInTotal => NavigateFindsNeighbourhood
  BY BfsFindsNeighbourhood
<1> QED
  BY <1>1, <1>2, <1>3, TypeCorrect, PTL DEF Spec

===============================================================================
