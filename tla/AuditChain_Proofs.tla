-------------------------- MODULE AuditChain_Proofs --------------------------
(***************************************************************************)
(* Proofs about AuditChain, for any number of writers, any classification  *)
(* levels, any page size and any length of the trail.                      *)
(***************************************************************************)
EXTENDS AuditChain, SequenceTheorems, FiniteSetTheorems, WellFoundedInduction, TLAPS

-------------------------------------------------------------------------------
(* Facts about numbers and rows *)

\* Every nonempty set of natural numbers has a least element: the form in which
\* induction is used in this module.
LEMMA LeastNat ==
  ASSUME NEW T \in SUBSET Nat, T # {}
  PROVE  \E x \in T : \A y \in T : x <= y
<1> DEFINE R == OpToRel(<, Nat)
<1>1. IsWellFoundedOn(R, Nat)
  BY NatLessThanWellFounded
<1>2. ASSUME NEW x \in Nat, NEW y \in Nat, <<y, x>> \notin R
      PROVE  x <= y
  BY <1>2 DEF OpToRel
<1> HIDE DEF R
<1>3. PICK x \in T : \A y \in T : <<y, x>> \notin R
  BY <1>1, WFMin
<1>4. \A y \in T : x <= y
  BY <1>2, <1>3
<1> QED BY <1>4

\* What TypeOK says of one row.
LEMMA RowType ==
  ASSUME events \in Seq(Records)
  PROVE  /\ Len(events) \in Nat
         /\ DOMAIN events = 1 .. Len(events)
         /\ \A i \in 1 .. Len(events) : /\ events[i] \in Records
                                       /\ events[i].class \in Nat
<1>1. Len(events) \in Nat /\ DOMAIN events = 1 .. Len(events)
  BY LenProperties
<1>2. \A i \in 1 .. Len(events) : events[i] \in Records
  BY ElementOfSeq
<1>3. \A r \in Records : r.class \in Nat
  BY DEF Records
<1> QED BY <1>1, <1>2, <1>3

\* Rows selected from a trail have a highest classification level.
LEMMA HighestExists ==
  ASSUME events \in Seq(Records), NEW ids \in SUBSET DOMAIN events, ids # {}
  PROVE  \E i \in ids : \A j \in ids : events[j].class <= events[i].class
<1> DEFINE IsTop(i, k) == /\ i \in ids
                          /\ i <= k
                          /\ \A j \in ids : j <= k =>
                               events[j].class <= events[i].class
           Bad == {k \in 0 .. Len(events) : /\ \E i \in ids : i <= k
                                            /\ ~ \E i \in ids : IsTop(i, k)}
<1>1. \A i \in ids : i \in 1 .. Len(events) /\ events[i].class \in Nat
  BY RowType
<1>2. Len(events) \in Nat
  BY RowType
<1>3. Bad = {}
  <2> SUFFICES ASSUME Bad # {} PROVE FALSE
    OBVIOUS
  <2>1. PICK k \in Bad : \A m \in Bad : k <= m
    <3>1. Bad \in SUBSET Nat
      BY <1>2
    <3> HIDE DEF Bad
    <3> QED BY <3>1, LeastNat
  <2>2. /\ k \in 0 .. Len(events)
        /\ \E i \in ids : i <= k
        /\ ~ \E i \in ids : IsTop(i, k)
    BY <2>1
  <2> HIDE DEF Bad
  <2>3. k \in 1 .. Len(events)
    BY <2>2, <1>1, <1>2
  <2>4. k - 1 \notin Bad
    BY <2>1, <2>3
  <2>5. CASE \E i \in ids : i <= k - 1
    <3>1. \E i \in ids : IsTop(i, k - 1)
      <4>1. k - 1 \in 0 .. Len(events)
        BY <2>3, <1>2
      <4> HIDE DEF IsTop
      <4> QED BY <4>1, <2>4, <2>5 DEF Bad
    <3>2. PICK i \in ids : IsTop(i, k - 1)
      BY <3>1
    <3>3. CASE k \in ids /\ events[k].class > events[i].class
      <4>1. \A j \in ids : j <= k => j <= k - 1 \/ j = k
        BY <1>1, <2>3
      <4>2. ASSUME NEW j \in ids, j <= k - 1
            PROVE  events[j].class <= events[k].class
        <5>1. events[j].class <= events[i].class
          BY <3>2, <4>2
        <5> QED BY <5>1, <3>3, <1>1
      <4>3. events[k].class <= events[k].class /\ k <= k
        BY <3>3, <2>3, <1>1
      <4>4. IsTop(k, k)
        BY <3>3, <4>1, <4>2, <4>3
      <4> QED BY <4>4, <3>3, <2>2
    <3>4. CASE ~(k \in ids /\ events[k].class > events[i].class)
      <4>1. \A j \in ids : j <= k => j <= k - 1 \/ j = k
        BY <1>1, <2>3
      <4>2. i <= k
        BY <3>2, <2>3, <1>1
      <4>3. k \in ids => events[k].class <= events[i].class
        BY <3>4, <1>1
      <4>4. IsTop(i, k)
        BY <3>2, <4>1, <4>2, <4>3
      <4> QED BY <4>4, <2>2
    <3> QED BY <3>3, <3>4
  <2>6. CASE ~(\E i \in ids : i <= k - 1)
    <3>1. PICK i \in ids : i <= k
      BY <2>2
    <3>2. \A j \in ids : j <= k => j = k
      BY <2>3, <2>6, <1>1
    <3>3. IsTop(i, k)
      BY <3>1, <3>2, <1>1
    <3> QED BY <3>3, <2>2
  <2> QED BY <2>5, <2>6
<1>4. Len(events) \in 0 .. Len(events) /\ \E i \in ids : i <= Len(events)
  BY <1>1, <1>2
<1>5. PICK i \in ids : IsTop(i, Len(events))
  BY <1>3, <1>4
<1>6. \A j \in ids : events[j].class <= events[i].class
  BY <1>5, <1>1
<1> QED BY <1>6

LEMMA HighestType ==
  ASSUME events \in Seq(Records), NEW ids \in SUBSET DOMAIN events
  PROVE  Highest(ids) \in Nat
<1>1. CASE ids = {}
  BY <1>1 DEF Highest
<1>2. CASE ids # {}
  <2> DEFINE Classes == {events[i].class : i \in ids}
             IsTop(c) == \A i \in ids : events[i].class <= c
  <2>1. Classes \subseteq Nat
    BY RowType
  <2>2. \E c \in Classes : IsTop(c)
    BY <1>2, HighestExists
  <2>3. (CHOOSE c \in Classes : IsTop(c)) \in Classes
    BY <2>2
  <2> QED BY <1>2, <2>1, <2>3 DEF Highest
<1> QED BY <1>1, <1>2

LEMMA MatchingType ==
  ASSUME events \in Seq(Records), NEW cmin \in Nat
  PROVE  /\ Matching(cmin) \in SUBSET DOMAIN events
         /\ Matching(cmin) \in SUBSET Nat
         /\ Cardinality(Matching(cmin)) \in Nat
<1>1. Matching(cmin) \in SUBSET (1 .. Len(events))
  BY DEF Matching
<1>2. IsFiniteSet(1 .. Len(events))
  BY FS_Interval
<1>3. IsFiniteSet(Matching(cmin))
  BY <1>1, <1>2, FS_Subset
<1> QED BY <1>1, <1>3, FS_CardinalityType

-------------------------------------------------------------------------------
(* Type correctness *)

LEMMA HashTypes ==
  ASSUME events \in Seq(Records)
  PROVE  /\ NoHash \in Hashes
         /\ TailHash \in Hashes
         /\ \A i \in 1 .. Len(events) : HashOf(i) \in Hashes
<1>1. NoHash \in Hashes
  BY DEF NoHash, Hashes, Bodies
<1>2. ASSUME NEW i \in 1 .. Len(events) PROVE HashOf(i) \in Hashes
  <2>1. events[i].body \in Bodies
    BY RowType DEF Records
  <2> QED BY <2>1, RowType DEF HashOf, Hashes
<1>3. TailHash \in Hashes
  <2>1. CASE events = <<>>
    BY <2>1, <1>1 DEF TailHash
  <2>2. CASE events # <<>>
    <3>1. Len(events) \in 1 .. Len(events)
      BY <2>2, EmptySeq
    <3> QED BY <2>2, <3>1, <1>2 DEF TailHash
  <2> QED BY <2>1, <2>2
<1> QED BY <1>1, <1>2, <1>3

LEMMA EmptyFrameType == EmptyFrame \in Frames
<1>1. NoHash \in Hashes
  BY DEF NoHash, Hashes, Bodies
<1>2. <<>> \in Seq(SUBSET Nat)
  BY EmptySeq
<1> QED BY <1>1, <1>2 DEF EmptyFrame, Frames, Kinds, PCs, ReturnPCs

\* A call of record() leaves pc and frame well typed.
LEMMA CallRecordType ==
  ASSUME TypeOK, NEW w \in Writers, NEW f \in Frames, NEW kind \in Kinds,
         NEW class \in Nat, NEW ret \in ReturnPCs, CallRecord(w, f, kind, class, ret)
  PROVE  pc' \in [Writers -> PCs] /\ frame' \in [Writers -> Frames]
<1>1. clock \in Nat
  BY ChainConstants DEF TypeOK
<1>2. [f EXCEPT !.kind = kind, !.class = class, !.stamp = clock, !.ret = ret]
        \in Frames
  BY <1>1 DEF Frames
<1>3. frame' \in [Writers -> Frames]
  BY <1>2 DEF CallRecord, TypeOK
<1>4. pc' \in [Writers -> PCs]
  BY DEF CallRecord, TypeOK, PCs, ReturnPCs
<1> QED BY <1>3, <1>4

LEMMA ReturnRowsType ==
  ASSUME TypeOK, NEW w \in Writers, NEW f \in Frames, NEW top \in Nat,
         NEW ret \in ReturnPCs, ReturnRows(w, f, top, ret)
  PROVE  pc' \in [Writers -> PCs] /\ frame' \in [Writers -> Frames]
<1>1. CASE Logged(f.cmin, top)
  BY <1>1, CallRecordType DEF ReturnRows, Kinds
<1>2. CASE ~Logged(f.cmin, top)
  BY <1>2 DEF ReturnRows, TypeOK, PCs
<1> QED BY <1>1, <1>2

\* The state of the audit trail stays well typed: modules/memory.py never
\* stores a malformed row and never loses track of a call.
THEOREM TypeCorrect == Spec => []TypeOK
<1>1. Init => TypeOK
  <2> SUFFICES ASSUME Init PROVE TypeOK
    OBVIOUS
  <2>1. events \in Seq(Records)
    BY EmptySeq DEF Init
  <2>2. frame \in [Writers -> Frames]
    BY EmptyFrameType DEF Init
  <2> QED BY <2>1, <2>2, ChainConstants DEF Init, TypeOK, PCs, ReturnPCs
<1>2. TypeOK /\ [Next]_vars => TypeOK'
  <2> SUFFICES ASSUME TypeOK, [Next]_vars PROVE TypeOK'
    OBVIOUS
  <2>a. /\ events \in Seq(Records)
        /\ clock \in 0 .. MaxTime /\ clock \in Nat
        /\ pc \in [Writers -> PCs]
        /\ frame \in [Writers -> Frames]
        /\ alterations \in 0 .. MaxAlterations
    BY ChainConstants DEF TypeOK
  <2>1. ASSUME NEW w \in Writers, NEW c \in Levels, Record(w, c) PROVE TypeOK'
    <3>1. c \in Nat /\ "EVENT" \in Kinds /\ "idle" \in ReturnPCs
      BY ChainConstants DEF Kinds, PCs, ReturnPCs
    <3>2. pc' \in [Writers -> PCs] /\ frame' \in [Writers -> Frames]
      BY <2>1, <3>1, EmptyFrameType, CallRecordType DEF Record
    <3> QED BY <2>1, <2>a, <3>2 DEF Record, TypeOK
  <2>2. ASSUME NEW w \in Writers, ReadTail(w) PROVE TypeOK'
    <3>1. [frame[w] EXCEPT !.link = TailHash] \in Frames
      BY <2>a, HashTypes DEF Frames
    <3>2. frame' \in [Writers -> Frames]
      BY <2>2, <2>a, <3>1 DEF ReadTail
    <3>3. pc' \in [Writers -> PCs]
      BY <2>2, <2>a DEF ReadTail, PCs, ReturnPCs
    <3> QED BY <2>2, <2>a, <3>2, <3>3 DEF ReadTail, TypeOK
  <2>3. ASSUME NEW w \in Writers, Insert(w) PROVE TypeOK'
    <3>1. NewRow(frame[w]) \in Records
      BY <2>a DEF NewRow, Frames, Records, Bodies
    <3>2. events' \in Seq(Records)
      BY <2>3, <2>a, <3>1, AppendProperties DEF Insert
    <3>3. frame[w].ret \in ReturnPCs
      BY <2>a DEF Frames
    <3>4. pc' \in [Writers -> PCs]
      BY <2>3, <2>a, <3>3 DEF Insert, PCs
    <3>5. frame' \in [Writers -> Frames]
      BY <2>3, <2>a, EmptyFrameType DEF Insert
    <3> QED BY <2>3, <2>a, <3>2, <3>4, <3>5 DEF Insert, TypeOK
  <2>4. ASSUME NEW w \in Writers, NEW days \in 0 .. MaxTime, Prune(w, days)
        PROVE  TypeOK'
    <3>1. "RETENTION_PRUNED" \in Kinds /\ "idle" \in ReturnPCs /\ 0 \in Nat
      BY DEF Kinds, PCs, ReturnPCs
    <3>2. pc' \in [Writers -> PCs] /\ frame' \in [Writers -> Frames]
      BY <2>4, <3>1, EmptyFrameType, CallRecordType DEF Prune
    <3>3. PICK due : events' = [i \in DOMAIN events |->
                        IF i \in due THEN [events[i] EXCEPT !.body = "erased"]
                                     ELSE events[i]]
      BY <2>4 DEF Prune
    <3>4. \A i \in 1 .. Len(events) :
            [events[i] EXCEPT !.body = "erased"] \in Records
      BY <2>a, RowType DEF Records, Bodies
    <3>5. events' \in [1 .. Len(events) -> Records]
      BY <2>a, <3>3, <3>4, RowType
    <3>6. events' \in Seq(Records)
      BY <2>a, <3>5, RowType
    <3> QED BY <2>4, <2>a, <3>2, <3>6 DEF Prune, TypeOK
  <2>5. ASSUME NEW w \in Writers, NEW c \in QueryLevels, Query(w, c)
        PROVE  TypeOK'
    <3> DEFINE ids == Matching(c)
               f == [EmptyFrame EXCEPT !.cmin = c, !.got = <<ids>>,
                       !.top = Highest(ids), !.since = Len(events)]
    <3>1. /\ c \in Nat /\ Len(events) \in Nat
          /\ ids \in SUBSET Nat /\ Highest(ids) \in Nat
      BY <2>a, ChainConstants, MatchingType, HighestType, RowType
    <3>2. <<ids>> \in Seq(SUBSET Nat)
      BY <3>1
    <3>3. f \in Frames /\ f.top \in Nat
      <4> HIDE DEF ids
      <4> QED BY <3>1, <3>2, EmptyFrameType DEF Frames, EmptyFrame
    <3>4. ReturnRows(w, f, f.top, "answered") /\ "answered" \in ReturnPCs
      BY <2>5 DEF Query, PCs, ReturnPCs
    <3>5. pc' \in [Writers -> PCs] /\ frame' \in [Writers -> Frames]
      <4> HIDE DEF f
      <4> QED BY <3>3, <3>4, ReturnRowsType
    <3> QED BY <2>5, <2>a, <3>5 DEF Query, TypeOK
  <2>6. ASSUME NEW w \in Writers, NEW c \in QueryLevels, Export(w, c)
        PROVE  TypeOK'
    <3> DEFINE f == [EmptyFrame EXCEPT !.cmin = c, !.since = Len(events),
                                       !.goal = Matching(c)]
    <3>1. c \in Nat /\ Len(events) \in Nat /\ Matching(c) \in SUBSET Nat
      BY <2>a, ChainConstants, MatchingType, RowType
    <3>2. f \in Frames
      BY <3>1, EmptyFrameType DEF Frames
    <3>3. frame' \in [Writers -> Frames]
      <4>1. frame' = [frame EXCEPT ![w] = f]
        BY <2>6 DEF Export
      <4> HIDE DEF f
      <4> QED BY <4>1, <2>a, <3>2
    <3>4. pc' \in [Writers -> PCs]
      BY <2>6, <2>a DEF Export, PCs, ReturnPCs
    <3> QED BY <2>6, <2>a, <3>3, <3>4 DEF Export, TypeOK
  <2>7. ASSUME NEW w \in Writers, Page(w) PROVE TypeOK'
    <3> DEFINE f == frame[w]
               ids == Matching(f.cmin)
               rows == PageFrom(ids, f.offset)
               g == [f EXCEPT !.got = Append(@, rows),
                              !.total = Cardinality(ids),
                              !.top = IF Highest(rows) > @ THEN Highest(rows)
                                                           ELSE @]
    <3>1. f \in Frames /\ f.cmin \in Nat /\ f.got \in Seq(SUBSET Nat) /\ f.top \in Nat
      BY <2>a DEF Frames
    <3>2. /\ ids \in SUBSET DOMAIN events /\ ids \in SUBSET Nat
          /\ Cardinality(ids) \in Nat
      <4> HIDE DEF f
      <4> QED BY <2>a, <3>1, MatchingType
    <3>3. rows \in SUBSET DOMAIN events /\ rows \in SUBSET Nat
      <4> HIDE DEF ids
      <4> QED BY <3>2 DEF PageFrom
    <3>4. Highest(rows) \in Nat
      <4> HIDE DEF rows
      <4> QED BY <2>a, <3>3, HighestType
    <3>5. Append(f.got, rows) \in Seq(SUBSET Nat)
      <4> HIDE DEF rows, f
      <4> QED BY <3>1, <3>3, AppendProperties
    <3>6. g \in Frames
      <4> HIDE DEF rows, ids, f
      <4> QED BY <3>1, <3>2, <3>4, <3>5 DEF Frames
    <3>7. ReturnRows(w, g, Highest(rows), "turn") /\ "turn" \in ReturnPCs
      BY <2>7 DEF Page, PCs, ReturnPCs
    <3>8. pc' \in [Writers -> PCs] /\ frame' \in [Writers -> Frames]
      <4> HIDE DEF g, rows
      <4> QED BY <3>4, <3>6, <3>7, ReturnRowsType
    <3> QED BY <2>7, <2>a, <3>8 DEF Page, TypeOK
  <2>8. ASSUME NEW w \in Writers, Turn(w) PROVE TypeOK'
    <3>1. /\ frame[w] \in Frames /\ frame[w].offset \in Nat
          /\ frame[w].top \in Nat /\ frame[w].cmin \in Nat
      BY <2>a DEF Frames
    <3>2. CASE pc' = [pc EXCEPT ![w] = "page"]
               /\ frame' = [frame EXCEPT ![w].offset = @ + PageLimit]
      <4>1. [frame[w] EXCEPT !.offset = @ + PageLimit] \in Frames
        <5>1. frame[w].offset + PageLimit \in Nat
          BY <3>1, ChainConstants
        <5> QED BY <3>1, <5>1 DEF Frames
      <4>2. frame' \in [Writers -> Frames]
        BY <3>2, <4>1, <2>a
      <4>3. pc' \in [Writers -> PCs]
        BY <3>2, <2>a DEF PCs, ReturnPCs
      <4> QED BY <2>8, <2>a, <4>2, <4>3 DEF Turn, TypeOK
    <3>3. ASSUME NEW bulk \in Nat,
                 CallRecord(w, frame[w], "READ_ACCESS", bulk, "exported")
          PROVE  TypeOK'
      <4>1. "READ_ACCESS" \in Kinds /\ "exported" \in ReturnPCs
        BY DEF Kinds, PCs, ReturnPCs
      <4>2. pc' \in [Writers -> PCs] /\ frame' \in [Writers -> Frames]
        BY <3>1, <3>3, <4>1, CallRecordType
      <4> QED BY <2>8, <2>a, <4>2 DEF Turn, TypeOK
    <3>4. CASE pc' = [pc EXCEPT ![w] = "exported"] /\ UNCHANGED frame
      <4>1. pc' \in [Writers -> PCs]
        BY <3>4, <2>a DEF PCs, ReturnPCs
      <4> QED BY <2>8, <2>a, <3>4, <4>1 DEF Turn, TypeOK
    <3>5. (IF frame[w].top > frame[w].cmin THEN frame[w].top
                                           ELSE frame[w].cmin) \in Nat
      BY <3>1
    <3> QED BY <2>8, <3>2, <3>3, <3>4, <3>5 DEF Turn
  <2>9. ASSUME NEW w \in Writers, Done(w) \/ Crash(w) PROVE TypeOK'
    <3>1. pc' \in [Writers -> PCs] /\ frame' \in [Writers -> Frames]
      BY <2>9, <2>a, EmptyFrameType DEF Done, Crash, PCs, ReturnPCs
    <3> QED BY <2>9, <2>a, <3>1 DEF Done, Crash, TypeOK
  <2>10. CASE Tick
    BY <2>10, <2>a, ChainConstants DEF Tick, TypeOK
  <2>11. ASSUME NEW i \in DOMAIN events, Alter(i) PROVE TypeOK'
    <3>1. i \in 1 .. Len(events)
      BY <2>a, RowType
    <3>2. [events[i] EXCEPT !.body = "altered"] \in Records
      BY <2>a, <3>1, RowType DEF Records, Bodies
    <3>3. events' = [events EXCEPT ![i] = [events[i] EXCEPT !.body = "altered"]]
      BY <2>11 DEF Alter
    <3>4. events' \in Seq(Records)
      BY <2>a, <3>1, <3>2, <3>3, ExceptSeq
    <3>5. alterations' \in 0 .. MaxAlterations
      BY <2>11, <2>a, ChainConstants DEF Alter
    <3> QED BY <2>11, <2>a, <3>4, <3>5 DEF Alter, TypeOK
  <2>12. CASE UNCHANGED vars
    BY <2>12 DEF vars, TypeOK
  <2> QED
    BY <2>1, <2>2, <2>3, <2>4, <2>5, <2>6, <2>7, <2>8, <2>9, <2>10, <2>11, <2>12
       DEF Next
<1> QED BY <1>1, <1>2, PTL DEF Spec

-------------------------------------------------------------------------------
(* Links *)

\* What a step may do to the rows: nothing, one row appended, or payloads
\* changed with every other column kept.
RowsKept ==
  /\ DOMAIN events' = DOMAIN events
  /\ Len(events') = Len(events)
  /\ \A i \in DOMAIN events :
       /\ events'[i].kind = events[i].kind
       /\ events'[i].class = events[i].class
       /\ events'[i].stamp = events[i].stamp
       /\ events'[i].link = events[i].link

LEMMA PruneKeepsRows ==
  ASSUME TypeOK, NEW w \in Writers, NEW days \in 0 .. MaxTime, Prune(w, days)
  PROVE  RowsKept
<1>1. PICK due : events' = [i \in DOMAIN events |->
                    IF i \in due THEN [events[i] EXCEPT !.body = "erased"]
                                 ELSE events[i]]
  BY DEF Prune
<1>2. events \in Seq(Records)
  BY DEF TypeOK
<1>3. DOMAIN events = 1 .. Len(events) /\ Len(events) \in Nat
  BY <1>2, RowType
<1>4. Len(events') = Len(events)
  BY <1>1, <1>3
<1>5. ASSUME NEW i \in DOMAIN events
      PROVE  /\ events'[i].kind = events[i].kind
             /\ events'[i].class = events[i].class
             /\ events'[i].stamp = events[i].stamp
             /\ events'[i].link = events[i].link
  <2>1. events[i] \in Records
    BY <1>2, <1>3, RowType
  <2> QED BY <1>1, <2>1 DEF Records
<1> QED BY <1>1, <1>4, <1>5 DEF RowsKept

LEMMA AlterKeepsRows ==
  ASSUME TypeOK, NEW i \in DOMAIN events, Alter(i)
  PROVE  RowsKept
<1>1. events \in Seq(Records) /\ events' = [events EXCEPT ![i].body = "altered"]
  BY DEF TypeOK, Alter
<1>2. DOMAIN events = 1 .. Len(events) /\ Len(events) \in Nat
  BY <1>1, RowType
<1>3. Len(events') = Len(events)
  BY <1>1, <1>2
<1>4. \A j \in DOMAIN events : events[j] \in Records
  BY <1>1, <1>2, RowType
<1> QED BY <1>1, <1>3, <1>4 DEF RowsKept, Records

\* How frame and pc relate in a step that is not a step of record() itself:
\* the link of a writer that has read the tail is left alone.
LinksHeld ==
  \A v \in Writers : pc'[v] = "insert" =>
    pc[v] = "insert" /\ frame'[v].link = frame[v].link

\* The strengthening of LinksPointBack that is inductive: the tail a writer has
\* read and not yet linked to is a row of the trail, or the trail was empty.
LinkInv ==
  /\ LinksPointBack
  /\ \A w \in Writers : pc[w] = "insert" =>
       /\ frame[w].link.id <= Len(events)
       /\ frame[w].link.id = 0 => frame[w].link = NoHash

\* Every action but ReadTail and Insert holds the links of the others.
LEMMA OtherStepsHoldLinks ==
  ASSUME TypeOK, NEW w \in Writers,
         \/ \E c \in Levels : Record(w, c)
         \/ \E c \in QueryLevels : Query(w, c) \/ Export(w, c)
         \/ \E days \in 0 .. MaxTime : Prune(w, days)
         \/ Page(w) \/ Turn(w) \/ Done(w) \/ Crash(w)
  PROVE  LinksHeld
<1> USE DEF TypeOK
<1>1. ASSUME NEW f, NEW kind, NEW class, NEW ret, CallRecord(w, f, kind, class, ret)
      PROVE  LinksHeld
  BY <1>1 DEF CallRecord, LinksHeld
<1>2. ASSUME NEW f, NEW top, NEW ret, ret # "insert", ReturnRows(w, f, top, ret)
      PROVE  LinksHeld
  BY <1>1, <1>2 DEF ReturnRows, LinksHeld
<1>3. CASE \E c \in Levels : Record(w, c)
  BY <1>1, <1>3 DEF Record
<1>4. CASE \E c \in QueryLevels : Query(w, c)
  BY <1>2, <1>4 DEF Query
<1>5. CASE \E c \in QueryLevels : Export(w, c)
  BY <1>5 DEF Export, LinksHeld
<1>6. CASE \E days \in 0 .. MaxTime : Prune(w, days)
  BY <1>1, <1>6 DEF Prune
<1>7. CASE Page(w)
  BY <1>2, <1>7 DEF Page
<1>8. CASE Turn(w)
  BY <1>1, <1>8 DEF Turn, LinksHeld
<1>9. CASE Done(w) \/ Crash(w)
  BY <1>9 DEF Done, Crash, LinksHeld
<1> QED BY <1>3, <1>4, <1>5, <1>6, <1>7, <1>8, <1>9

\* The same steps, and Tick, Alter and stuttering, keep the rows.
LEMMA OtherStepsKeepRows ==
  ASSUME TypeOK, Next \/ UNCHANGED vars,
         \A w \in Writers : ~ReadTail(w) /\ ~Insert(w)
  PROVE  RowsKept /\ LinksHeld
<1>1. ASSUME UNCHANGED events PROVE RowsKept
  BY <1>1 DEF RowsKept
<1>2. ASSUME NEW w \in Writers,
             \/ \E c \in Levels : Record(w, c)
             \/ \E c \in QueryLevels : Query(w, c) \/ Export(w, c)
             \/ \E days \in 0 .. MaxTime : Prune(w, days)
             \/ Page(w) \/ Turn(w) \/ Done(w) \/ Crash(w)
      PROVE  RowsKept /\ LinksHeld
  <2>1. LinksHeld
    BY <1>2, OtherStepsHoldLinks
  <2>2. CASE \E days \in 0 .. MaxTime : Prune(w, days)
    BY <2>1, <2>2, PruneKeepsRows
  <2>3. CASE ~ \E days \in 0 .. MaxTime : Prune(w, days)
    <3>1. UNCHANGED events
      BY <1>2, <2>3 DEF Record, Query, Export, Page, Turn, Done, Crash
    <3> QED BY <2>1, <3>1, <1>1
  <2> QED BY <2>2, <2>3
<1>3. CASE Tick \/ UNCHANGED vars
  BY <1>1, <1>3 DEF Tick, vars, LinksHeld
<1>4. ASSUME NEW i \in DOMAIN events, Alter(i) PROVE RowsKept /\ LinksHeld
  BY <1>4, AlterKeepsRows DEF Alter, LinksHeld
<1> QED BY <1>2, <1>3, <1>4 DEF Next

\* The rows after an Insert.
LEMMA InsertRows ==
  ASSUME TypeOK, NEW w \in Writers, Insert(w)
  PROVE  /\ Len(events') = Len(events) + 1
         /\ DOMAIN events' = 1 .. Len(events) + 1
         /\ \A i \in 1 .. Len(events) : events'[i] = events[i]
         /\ events'[Len(events) + 1] = NewRow(frame[w])
<1>1. events \in Seq(Records) /\ NewRow(frame[w]) \in Records
  BY DEF TypeOK, NewRow, Frames, Records, Bodies
<1>2. events' = Append(events, NewRow(frame[w])) /\ events' \in Seq(Records)
  BY <1>1, AppendProperties DEF Insert
<1> QED BY <1>1, <1>2, AppendProperties, LenProperties

\* chain_hash always names an earlier record, whatever the interleaving of the
\* SELECT and the INSERT of record() with other writers, prunings and crashes.
THEOREM LinksPointBackAlways == Spec => []LinksPointBack
<1>1. Init => LinkInv
  BY DEF Init, LinkInv, LinksPointBack
<1>2. TypeOK /\ LinkInv /\ [Next]_vars => LinkInv'
  <2> SUFFICES ASSUME TypeOK, LinkInv, [Next]_vars PROVE LinkInv'
    OBVIOUS
  <2>a. /\ events \in Seq(Records) /\ Len(events) \in Nat
        /\ DOMAIN events = 1 .. Len(events)
        /\ \A v \in Writers : frame[v].link.id \in Nat
    BY RowType DEF TypeOK, Frames, Hashes
  <2>1. ASSUME NEW w \in Writers, ReadTail(w) PROVE LinkInv'
    <3>1. TailHash.id <= Len(events) /\ (TailHash.id = 0 => TailHash = NoHash)
      BY <2>a, EmptySeq DEF TailHash, HashOf, NoHash
    <3>2. /\ events' = events
          /\ frame' = [frame EXCEPT ![w].link = TailHash]
          /\ pc' = [pc EXCEPT ![w] = "insert"]
      BY <2>1 DEF ReadTail
    <3>3. LinksPointBack'
      BY <3>2 DEF LinkInv, LinksPointBack, NoHash
    <3>4. ASSUME NEW v \in Writers, pc'[v] = "insert"
          PROVE  /\ frame'[v].link.id <= Len(events)
                 /\ frame'[v].link.id = 0 => frame'[v].link = NoHash
      <4>1. CASE v = w
        BY <4>1, <3>1, <3>2 DEF TypeOK, Frames
      <4>2. CASE v # w
        BY <4>2, <3>2, <3>4 DEF LinkInv, TypeOK
      <4> QED BY <4>1, <4>2
    <3> QED BY <3>2, <3>3, <3>4 DEF LinkInv, NoHash
  <2>2. ASSUME NEW w \in Writers, Insert(w) PROVE LinkInv'
    <3>1. LinksPointBack'
      <4>1. /\ frame[w].link.id < Len(events) + 1
            /\ frame[w].link.id = 0 => frame[w].link = NoHash
        BY <2>2, <2>a DEF Insert, LinkInv
      <4>2. events'[Len(events) + 1].link = frame[w].link
        <5>1. NewRow(frame[w]).link = frame[w].link
          BY DEF NewRow
        <5> QED BY <2>2, <5>1, InsertRows
      <4>3. \A i \in 1 .. Len(events) :
               /\ events'[i].link.id < i
               /\ events'[i].link.id = 0 => events'[i].link = NoHash
        BY <2>2, <2>a, InsertRows DEF LinkInv, LinksPointBack
      <4> QED BY <2>2, <2>a, <4>1, <4>2, <4>3, InsertRows
              DEF LinksPointBack, NoHash
    <3>2. \A v \in Writers : pc'[v] = "insert" =>
             frame'[v].link = frame[v].link /\ pc[v] = "insert"
      BY <2>2 DEF Insert, TypeOK, Frames
    <3> QED BY <2>2, <2>a, <3>1, <3>2, InsertRows DEF LinkInv, NoHash
  <2>3. CASE \A w \in Writers : ~ReadTail(w) /\ ~Insert(w)
    <3>1. RowsKept /\ LinksHeld
      BY <2>3, OtherStepsKeepRows
    <3> QED BY <3>1, <2>a DEF RowsKept, LinksHeld, LinkInv, LinksPointBack, NoHash
  <2> QED BY <2>1, <2>2, <2>3
<1>3. LinkInv => LinksPointBack
  BY DEF LinkInv
<1> QED BY <1>1, <1>2, <1>3, TypeCorrect, PTL DEF Spec

\* The strengthening for one writer: the tail it has read is still the tail.
SerialInv ==
  /\ EachLinkedToPredecessor
  /\ \A w \in Writers : pc[w] = "insert" => frame[w].link.id = Len(events)

\* With a single writer (calls of record() never overlap) the chain never
\* forks, whatever is pruned, altered or cut short by a crash: each record is
\* linked to its immediate predecessor.
THEOREM SerialChainNeverForks ==
  ASSUME \A v, w \in Writers : v = w
  PROVE  Spec => []EachLinkedToPredecessor
<1>1. Init => SerialInv
  BY DEF Init, SerialInv, EachLinkedToPredecessor
<1>2. TypeOK /\ SerialInv /\ [Next]_vars => SerialInv'
  <2> SUFFICES ASSUME TypeOK, SerialInv, [Next]_vars PROVE SerialInv'
    OBVIOUS
  <2>a. /\ events \in Seq(Records) /\ Len(events) \in Nat
        /\ DOMAIN events = 1 .. Len(events)
    BY RowType DEF TypeOK
  <2>1. ASSUME NEW w \in Writers, ReadTail(w) PROVE SerialInv'
    <3>1. TailHash.id = Len(events)
      BY <2>a, EmptySeq DEF TailHash, HashOf, NoHash
    <3>2. /\ events' = events
          /\ frame' = [frame EXCEPT ![w].link = TailHash]
      BY <2>1 DEF ReadTail
    <3>3. \A v \in Writers : v = w /\ frame'[v].link.id = Len(events)
      BY <3>1, <3>2 DEF TypeOK, Frames
    <3> QED BY <3>2, <3>3 DEF SerialInv, EachLinkedToPredecessor
  <2>2. ASSUME NEW w \in Writers, Insert(w) PROVE SerialInv'
    <3>1. EachLinkedToPredecessor'
      <4>1. frame[w].link.id = Len(events)
        BY <2>2 DEF Insert, SerialInv
      <4>2. NewRow(frame[w]).link = frame[w].link
        BY DEF NewRow
      <4>3. \A i \in 1 .. Len(events) : events'[i].link.id = i - 1
        BY <2>2, <2>a, InsertRows DEF SerialInv, EachLinkedToPredecessor
      <4> QED BY <2>2, <2>a, <4>1, <4>2, <4>3, InsertRows
              DEF EachLinkedToPredecessor
    <3>2. \A v \in Writers : pc'[v] # "insert"
      BY <2>2 DEF Insert, TypeOK, Frames, ReturnPCs, PCs
    <3> QED BY <3>1, <3>2 DEF SerialInv
  <2>3. CASE \A w \in Writers : ~ReadTail(w) /\ ~Insert(w)
    <3>1. RowsKept /\ LinksHeld
      BY <2>3, OtherStepsKeepRows
    <3> QED BY <3>1, <2>a
            DEF RowsKept, LinksHeld, SerialInv, EachLinkedToPredecessor
  <2> QED BY <2>1, <2>2, <2>3
<1>3. SerialInv => EachLinkedToPredecessor
  BY DEF SerialInv
<1> QED BY <1>1, <1>2, <1>3, TypeCorrect, PTL DEF Spec

-------------------------------------------------------------------------------
(* Verification *)

\* What a pass over the first n rows returns.
IsWalk(f, n) ==
  f = [i \in 1 .. n |-> IF i = 1 THEN [prev |-> HashOf(1), verdict |-> "ok"]
                                 ELSE Verify(i, f[i-1].prev)]

\* The pass over the rows is defined: every row's verdict follows from the one
\* before it, so a shortest prefix without a pass cannot exist.
LEMMA WalkExists ==
  ASSUME NEW n \in Nat
  PROVE  \E f : IsWalk(f, n)
<1> DEFINE Bad == {k \in Nat : ~ \E f : IsWalk(f, k)}
<1> SUFFICES ASSUME Bad # {} PROVE FALSE
  OBVIOUS
<1>1. PICK k \in Bad : \A m \in Bad : k <= m
  <2>1. Bad \in SUBSET Nat
    OBVIOUS
  <2> HIDE DEF Bad
  <2> QED BY <2>1, LeastNat
<1>2. k \in Nat /\ ~ \E f : IsWalk(f, k)
  BY <1>1
<1>3. k # 0
  <2>1. IsWalk([i \in 1 .. 0 |-> 0], 0)
    BY DEF IsWalk
  <2> QED BY <1>2, <2>1
<1>4. k - 1 \in Nat /\ k - 1 \notin Bad
  BY <1>1, <1>2, <1>3
<1>5. PICK f : IsWalk(f, k - 1)
  BY <1>4
<1> DEFINE g == [i \in 1 .. k |->
                   IF i = 1 THEN [prev |-> HashOf(1), verdict |-> "ok"]
                            ELSE Verify(i, f[i-1].prev)]
<1> HIDE DEF Bad
<1>6. \A i \in 1 .. k - 1 : g[i] = f[i]
  BY <1>2, <1>5 DEF IsWalk
<1>7. \A i \in 1 .. k : i # 1 => g[i-1] = f[i-1]
  BY <1>2, <1>6
<1>8. IsWalk(g, k)
  BY <1>2, <1>7 DEF IsWalk
<1> QED BY <1>2, <1>8

\* verify_chain row by row: the first row is accepted as it is, and each later
\* one is judged against what the row before it left in prev_hash.
LEMMA WalkStep ==
  ASSUME events \in Seq(Records), NEW i \in 1 .. Len(events)
  PROVE  Walk[i] = IF i = 1 THEN [prev |-> HashOf(1), verdict |-> "ok"]
                            ELSE Verify(i, Walk[i-1].prev)
<1>1. Len(events) \in Nat /\ DOMAIN events = 1 .. Len(events)
  BY RowType
<1>2. Walk = CHOOSE f : IsWalk(f, Len(events))
  BY <1>1 DEF Walk, IsWalk
<1>3. IsWalk(Walk, Len(events))
  BY <1>1, <1>2, WalkExists
<1>4. Walk = [j \in 1 .. Len(events) |->
                IF j = 1 THEN [prev |-> HashOf(1), verdict |-> "ok"]
                         ELSE Verify(j, Walk[j-1].prev)]
  BY <1>3 DEF IsWalk
<1> HIDE DEF Walk
<1> QED BY <1>4

\* What the pass leaves in prev_hash after row i: the hash of the row, or, when
\* it has taken the row for a pruned one, the link that row carries.
LEMMA WalkLeaves ==
  ASSUME events \in Seq(Records), NEW i \in 1 .. Len(events)
  PROVE  \/ Walk[i].prev = HashOf(i)
         \/ /\ i # 1
            /\ PayloadNull(i)
            /\ Walk[i].prev = events[i].link
<1>1. i = 1 => Walk[i].prev = HashOf(i)
  BY WalkStep
<1>2. CASE i # 1
  <2>1. Walk[i] = Verify(i, Walk[i-1].prev)
    BY <1>2, WalkStep
  <2> DEFINE p == Walk[i-1].prev
  <2> HIDE DEF p
  <2>2. Walk[i] = Verify(i, p)
    BY <2>1 DEF p
  <2> QED BY <1>2, <2>2 DEF Verify
<1> QED BY <1>1, <1>2

\* The rows the pass reports.
LEMMA GapRows ==
  ASSUME events \in Seq(Records), NEW i \in 2 .. Len(events)
  PROVE  i \in Gaps <=> /\ events[i].link # Walk[i-1].prev
                        /\ ~(events[i].link # NoHash /\ PayloadNull(i))
<1>1. i \in 1 .. Len(events) /\ i # 1 /\ DOMAIN events = 1 .. Len(events)
  BY RowType
<1>2. Walk[i] = Verify(i, Walk[i-1].prev)
  BY <1>1, WalkStep
<1> DEFINE p == Walk[i-1].prev
<1>3. Walk[i].verdict = "gap" <=> /\ events[i].link # p
                                  /\ ~(events[i].link # NoHash /\ PayloadNull(i))
  <2> HIDE DEF p
  <2>1. Walk[i] = Verify(i, p)
    BY <1>2 DEF p
  <2> QED BY <2>1 DEF Verify
<1>4. i \in Gaps <=> Walk[i].verdict = "gap"
  BY <1>1 DEF Gaps
<1> QED BY <1>3, <1>4

\* The full walk reports every altered row whose successor still carries the
\* hash it had, whoever wrote the trail and in whatever order.
LEMMA AlterationsAreReported ==
  ASSUME events \in Seq(Records)
  PROVE  AlterationDetected
<1> SUFFICES ASSUME NEW i \in DOMAIN events \ {1},
                    events[i].link = [id |-> i - 1, body |-> "written"],
                    events[i-1].body = "altered",
                    ~PayloadNull(i)
             PROVE  i \in Gaps
  BY DEF AlterationDetected
<1>1. i \in 2 .. Len(events) /\ i - 1 \in 1 .. Len(events)
  BY RowType
<1>2. Walk[i-1].prev = HashOf(i-1)
  BY <1>1, WalkLeaves DEF PayloadNull
<1>3. HashOf(i-1) # events[i].link
  BY DEF HashOf
<1> QED BY <1>1, <1>2, <1>3, GapRows

\* Where no two rows share a predecessor, what the tail check complains about
\* the full walk complains about too: had the walk gone past the row before
\* with that row's own link in hand, both rows would name the same one.
LEMMA TailAlarmsAreShared ==
  ASSUME events \in Seq(Records), EachLinkedToPredecessor
  PROVE  TailAlarmIsAChainAlarm
<1> SUFFICES ASSUME Intact, NEW n \in 1 .. Len(events), NEW i \in TailGaps(n)
             PROVE  FALSE
  BY DEF TailAlarmIsAChainAlarm
<1>1. /\ i \in 2 .. Len(events)
      /\ events[i].link # HashOf(i-1)
      /\ ~(events[i].link # NoHash /\ PayloadNull(i))
  BY DEF TailGaps
<1>2. /\ i \in 1 .. Len(events) /\ i - 1 \in 1 .. Len(events)
      /\ DOMAIN events = 1 .. Len(events)
  BY <1>1, RowType
<1>3. i \notin Gaps
  BY DEF Intact
<1>4. events[i].link = Walk[i-1].prev
  BY <1>1, <1>3, GapRows
<1>5. events[i].link = events[i-1].link
  BY <1>1, <1>2, <1>4, WalkLeaves
<1>6. events[i].link.id = i - 1 /\ events[i-1].link.id = (i - 1) - 1
  BY <1>2 DEF EachLinkedToPredecessor
<1>7. i \in Int
  BY <1>1
<1> QED BY <1>5, <1>6, <1>7

\* verify_chain reports every record changed after its successor was linked to
\* it, for any number of writers: forks and prunings elsewhere do not hide it.
THEOREM AlterationsAlwaysDetected == Spec => []AlterationDetected
<1>1. TypeOK => AlterationDetected
  BY AlterationsAreReported DEF TypeOK
<1> QED BY <1>1, TypeCorrect, PTL

\* With a single writer both checks are sound: what was altered is reported,
\* and the tail check of GET /health never alarms on a chain the full walk of
\* GET /audit/chain accepts.
THEOREM VerificationAlwaysSound ==
  ASSUME \A v, w \in Writers : v = w
  PROVE  Spec => []VerificationIsSound
<1>1. TypeOK /\ EachLinkedToPredecessor => VerificationIsSound
  BY AlterationsAreReported, TailAlarmsAreShared DEF TypeOK, VerificationIsSound
<1>2. Spec => []EachLinkedToPredecessor
  BY SerialChainNeverForks
<1> QED BY <1>1, <1>2, TypeCorrect, PTL

-------------------------------------------------------------------------------
(* Logged reads *)

\* A trail that has become another one: rows were added at the end, and kind
\* and level of the rows there were are what they were.
Grown(old, new) ==
  /\ old \in Seq(Records)
  /\ new \in Seq(Records)
  /\ Len(old) <= Len(new)
  /\ \A i \in 1 .. Len(old) : /\ new[i].kind = old[i].kind
                              /\ new[i].class = old[i].class

\* A read's own READ_ACCESS record is in the trail.
ReadIsLogged(trail, f) ==
  \E i \in DOMAIN trail : /\ i > f.since
                          /\ trail[i].kind = "READ_ACCESS"
                          /\ trail[i].class >= f.top

\* A call on its way to record() that will then hand rows to its caller.
Writing(p) == p \in {"read_tail", "insert"}

\* The strengthening of ReadLoggedBeforeReturn that is inductive: a call that
\* is about to write its record carries the kind and the level that record
\* needs, and the trail has not lost the rows there were when it began.
ReadCovered(trail, p, f) ==
  /\ f.since <= Len(trail)
  /\ Writing(p) /\ f.ret \in {"answered", "exported"} =>
       f.kind = "READ_ACCESS" /\ f.top <= f.class
  /\ /\ \/ p = "exported"
        \/ p = "answered" /\ (f.cmin = 0 \/ f.cmin >= ReadLogThreshold)
     /\ f.top >= ReadLogThreshold
     => ReadIsLogged(trail, f)

ReadInv == \A w \in Writers : ReadCovered(events, pc[w], frame[w])

\* Every step grows the trail.
LEMMA TrailGrows ==
  ASSUME TypeOK, TypeOK', [Next]_vars
  PROVE  Grown(events, events')
<1>1. events \in Seq(Records) /\ events' \in Seq(Records) /\ Len(events) \in Nat
  BY RowType DEF TypeOK
<1>2. ASSUME NEW w \in Writers, Insert(w) PROVE Grown(events, events')
  BY <1>1, <1>2, InsertRows DEF Grown
<1>3. ASSUME NEW w \in Writers, ReadTail(w) PROVE Grown(events, events')
  BY <1>1, <1>3 DEF ReadTail, Grown
<1>4. CASE \A w \in Writers : ~ReadTail(w) /\ ~Insert(w)
  <2>1. RowsKept
    BY <1>4, OtherStepsKeepRows
  <2>2. DOMAIN events = 1 .. Len(events)
    BY <1>1, RowType
  <2> QED BY <1>1, <2>1, <2>2 DEF RowsKept, Grown
<1> QED BY <1>2, <1>3, <1>4

\* What w does in a step.
Acts(w) ==
  \/ \E c \in Levels : Record(w, c)
  \/ \E c \in QueryLevels : Query(w, c) \/ Export(w, c)
  \/ \E days \in 0 .. MaxTime : Prune(w, days)
  \/ ReadTail(w) \/ Insert(w) \/ Page(w) \/ Turn(w) \/ Done(w) \/ Crash(w)

\* A writer's step leaves every other call where it is.
LEMMA OthersWait ==
  ASSUME TypeOK, NEW w \in Writers, Acts(w), NEW v \in Writers, v # w
  PROVE  pc'[v] = pc[v] /\ frame'[v] = frame[v]
<1>1. pc \in [Writers -> PCs] /\ frame \in [Writers -> Frames]
  BY DEF TypeOK
<1>2. ASSUME NEW f, NEW kind, NEW class, NEW ret, CallRecord(w, f, kind, class, ret)
      PROVE  pc'[v] = pc[v] /\ frame'[v] = frame[v]
  BY <1>1, <1>2 DEF CallRecord
<1>3. ASSUME NEW f, NEW top, NEW ret, ReturnRows(w, f, top, ret)
      PROVE  pc'[v] = pc[v] /\ frame'[v] = frame[v]
  BY <1>1, <1>2, <1>3 DEF ReturnRows
<1>4. CASE \E c \in Levels : Record(w, c)
  BY <1>2, <1>4 DEF Record
<1>5. CASE \E c \in QueryLevels : Query(w, c)
  BY <1>3, <1>5 DEF Query
<1>6. CASE \E c \in QueryLevels : Export(w, c)
  BY <1>1, <1>6 DEF Export
<1>7. CASE \E days \in 0 .. MaxTime : Prune(w, days)
  BY <1>2, <1>7 DEF Prune
<1>8. CASE Page(w)
  BY <1>3, <1>8 DEF Page
<1>9. CASE Turn(w)
  BY <1>1, <1>2, <1>9 DEF Turn
<1>10. CASE Done(w) \/ Crash(w)
  BY <1>1, <1>10 DEF Done, Crash
<1>11. CASE ReadTail(w)
  BY <1>1, <1>11 DEF ReadTail
<1>12. CASE Insert(w)
  BY <1>1, <1>12 DEF Insert
<1> QED BY <1>4, <1>5, <1>6, <1>7, <1>8, <1>9, <1>10, <1>11, <1>12 DEF Acts

\* Only writers touch the calls in progress.
LEMMA NobodyActs ==
  ASSUME TypeOK, [Next]_vars, \A w \in Writers : ~Acts(w)
  PROVE  pc' = pc /\ frame' = frame
<1>1. CASE Tick \/ UNCHANGED vars
  BY <1>1 DEF Tick, vars
<1>2. CASE \E i \in DOMAIN events : Alter(i)
  BY <1>2 DEF Alter
<1> QED BY <1>1, <1>2 DEF Next, Acts

\* What a call of record() changes in its caller's frame.
LEMMA CallRecordFrame ==
  ASSUME TypeOK, NEW w \in Writers, NEW f \in Frames, NEW kind, NEW class, NEW ret,
         CallRecord(w, f, kind, class, ret)
  PROVE  /\ pc'[w] = "read_tail"
         /\ frame'[w].kind = kind /\ frame'[w].class = class /\ frame'[w].ret = ret
         /\ frame'[w].cmin = f.cmin /\ frame'[w].offset = f.offset
         /\ frame'[w].got = f.got /\ frame'[w].goal = f.goal
         /\ frame'[w].top = f.top /\ frame'[w].total = f.total
         /\ frame'[w].since = f.since
<1>1. frame'[w] = [f EXCEPT !.kind = kind, !.class = class, !.stamp = clock,
                            !.ret = ret]
  BY DEF CallRecord, TypeOK
<1>2. pc'[w] = "read_tail"
  BY DEF CallRecord, TypeOK
<1> QED BY <1>1, <1>2 DEF Frames

\* A frame that has read the tail is the frame it was but for the link.
LEMMA ReadTailFrame ==
  ASSUME TypeOK, NEW w \in Writers, ReadTail(w)
  PROVE  /\ pc[w] = "read_tail" /\ pc'[w] = "insert"
         /\ frame'[w].kind = frame[w].kind /\ frame'[w].class = frame[w].class
         /\ frame'[w].ret = frame[w].ret
         /\ frame'[w].cmin = frame[w].cmin /\ frame'[w].offset = frame[w].offset
         /\ frame'[w].got = frame[w].got /\ frame'[w].goal = frame[w].goal
         /\ frame'[w].top = frame[w].top /\ frame'[w].total = frame[w].total
         /\ frame'[w].since = frame[w].since
<1>1. frame'[w] = [frame[w] EXCEPT !.link = TailHash] /\ frame[w] \in Frames
  BY DEF ReadTail, TypeOK
<1>2. pc[w] = "read_tail" /\ pc'[w] = "insert"
  BY DEF ReadTail, TypeOK
<1> QED BY <1>1, <1>2 DEF Frames

\* A query's own frame.
QueryFrame(c, ids) ==
  [EmptyFrame EXCEPT !.cmin = c, !.got = <<ids>>, !.top = Highest(ids),
                     !.since = Len(events)]

LEMMA QueryFrameFields ==
  ASSUME TypeOK, NEW c \in QueryLevels
  PROVE  /\ QueryFrame(c, Matching(c)) \in Frames
         /\ QueryFrame(c, Matching(c)).cmin = c
         /\ QueryFrame(c, Matching(c)).top = Highest(Matching(c))
         /\ QueryFrame(c, Matching(c)).since = Len(events)
         /\ Highest(Matching(c)) \in Nat
<1> DEFINE ids == Matching(c)
<1>1. /\ c \in Nat /\ Len(events) \in Nat /\ ids \in SUBSET Nat
      /\ Highest(ids) \in Nat
  BY ChainConstants, MatchingType, HighestType, RowType DEF TypeOK
<1>2. <<ids>> \in Seq(SUBSET Nat)
  BY <1>1
<1> HIDE DEF ids
<1>3. /\ QueryFrame(c, ids) \in Frames
      /\ QueryFrame(c, ids).cmin = c
      /\ QueryFrame(c, ids).top = Highest(ids)
      /\ QueryFrame(c, ids).since = Len(events)
  BY <1>1, <1>2, EmptyFrameType DEF QueryFrame, Frames, EmptyFrame
<1> QED BY <1>1, <1>3 DEF ids

\* The frame of an export after a page.
PageFrame(f, ids, rows) ==
  [f EXCEPT !.got = Append(@, rows), !.total = Cardinality(ids),
            !.top = IF Highest(rows) > @ THEN Highest(rows) ELSE @]

LEMMA PageFrameFields ==
  ASSUME TypeOK, NEW f \in Frames, NEW ids, ids = Matching(f.cmin),
         NEW rows, rows = PageFrom(ids, f.offset)
  PROVE  /\ PageFrame(f, ids, rows) \in Frames
         /\ PageFrame(f, ids, rows).cmin = f.cmin
         /\ PageFrame(f, ids, rows).offset = f.offset
         /\ PageFrame(f, ids, rows).goal = f.goal
         /\ PageFrame(f, ids, rows).since = f.since
         /\ PageFrame(f, ids, rows).got = Append(f.got, rows)
         /\ PageFrame(f, ids, rows).total = Cardinality(ids)
         /\ Highest(rows) \in Nat
<1>1. /\ f.cmin \in Nat /\ f.got \in Seq(SUBSET Nat) /\ f.top \in Nat
      /\ events \in Seq(Records)
  BY DEF Frames, TypeOK
<1>2. /\ ids \in SUBSET DOMAIN events /\ ids \in SUBSET Nat
      /\ Cardinality(ids) \in Nat
  BY <1>1, MatchingType
<1>3. rows \in SUBSET DOMAIN events /\ rows \in SUBSET Nat
  BY <1>2 DEF PageFrom
<1>4. Highest(rows) \in Nat
  BY <1>1, <1>3, HighestType
<1>5. Append(f.got, rows) \in Seq(SUBSET Nat)
  BY <1>1, <1>3, AppendProperties
<1>6. (IF Highest(rows) > f.top THEN Highest(rows) ELSE f.top) \in Nat
  BY <1>1, <1>4
<1> QED BY <1>1, <1>2, <1>4, <1>5, <1>6 DEF PageFrame, Frames

\* A call in progress stays covered while the trail grows.
LEMMA CoverKept ==
  ASSUME NEW old, NEW new, Grown(old, new), NEW p, NEW f \in Frames,
         ReadCovered(old, p, f)
  PROVE  ReadCovered(new, p, f)
<1>1. /\ Len(old) \in Nat /\ DOMAIN old = 1 .. Len(old)
      /\ Len(new) \in Nat /\ DOMAIN new = 1 .. Len(new) /\ f.since \in Nat
  BY LenProperties DEF Grown, Frames
<1>2. f.since <= Len(new)
  BY <1>1 DEF ReadCovered, Grown
<1>3. ASSUME ReadIsLogged(old, f) PROVE ReadIsLogged(new, f)
  <2>1. PICK i \in DOMAIN old : /\ i > f.since
                                /\ old[i].kind = "READ_ACCESS"
                                /\ old[i].class >= f.top
    BY <1>3 DEF ReadIsLogged
  <2>2. i \in DOMAIN new /\ new[i].kind = old[i].kind /\ new[i].class = old[i].class
    BY <1>1 DEF Grown
  <2> QED BY <2>1, <2>2 DEF ReadIsLogged
<1> HIDE DEF ReadIsLogged
<1> QED BY <1>2, <1>3 DEF ReadCovered

\* An empty frame owes nothing.
LEMMA IdleCovered ==
  ASSUME NEW trail, trail \in Seq(Records)
  PROVE  ReadCovered(trail, "idle", EmptyFrame)
<1>1. Len(trail) \in Nat
  BY LenProperties
<1>2. EmptyFrame.since = 0
  BY DEF EmptyFrame
<1> QED BY <1>1, <1>2 DEF ReadCovered, Writing

\* A call on its way to record() is covered when its record is the one it needs.
LEMMA WritingCovered ==
  ASSUME NEW trail, NEW p, Writing(p), NEW f, f.since <= Len(trail),
         f.ret \in {"answered", "exported"} =>
           f.kind = "READ_ACCESS" /\ f.top <= f.class
  PROVE  ReadCovered(trail, p, f)
BY DEF ReadCovered, Writing

\* A step of w leaves its own call covered.
LEMMA ActingCovered ==
  ASSUME TypeOK, TypeOK', NEW w \in Writers, Acts(w),
         ReadCovered(events, pc[w], frame[w]), Grown(events, events')
  PROVE  ReadCovered(events', pc'[w], frame'[w])
<1>a. /\ events \in Seq(Records) /\ events' \in Seq(Records)
      /\ Len(events) \in Nat /\ Len(events') \in Nat
      /\ Len(events) <= Len(events')
      /\ pc \in [Writers -> PCs] /\ frame \in [Writers -> Frames]
      /\ frame[w] \in Frames /\ frame'[w] \in Frames
  BY RowType, LenProperties DEF TypeOK, Grown
<1>b. /\ frame[w].since \in Nat /\ frame[w].top \in Nat /\ frame[w].cmin \in Nat
      /\ frame[w].class \in Nat
  BY <1>a DEF Frames
<1>c. EmptyFrame \in Frames /\ EmptyFrame.since = 0
  BY EmptyFrameType DEF EmptyFrame
<1>d. frame[w].since <= Len(events')
  BY <1>a, <1>b DEF ReadCovered
<1>1. ASSUME NEW f \in Frames, f.since <= Len(events'), NEW kind, NEW class, NEW ret,
             CallRecord(w, f, kind, class, ret),
             ret \in {"answered", "exported"} =>
               kind = "READ_ACCESS" /\ f.top <= class
      PROVE  ReadCovered(events', pc'[w], frame'[w])
  <2>1. /\ pc'[w] = "read_tail" /\ frame'[w].since = f.since
        /\ frame'[w].top = f.top /\ frame'[w].kind = kind
        /\ frame'[w].class = class /\ frame'[w].ret = ret
    BY <1>1, CallRecordFrame
  <2> QED BY <1>1, <2>1, WritingCovered DEF Writing
<1>2. CASE \E c \in Levels : Record(w, c)
  <2>1. PICK c \in Levels : CallRecord(w, EmptyFrame, "EVENT", c, "idle")
    BY <1>2 DEF Record
  <2> QED BY <2>1, <1>1, <1>a, <1>c
<1>3. CASE \E days \in 0 .. MaxTime : Prune(w, days)
  <2>1. CallRecord(w, EmptyFrame, "RETENTION_PRUNED", 0, "idle")
    BY <1>3 DEF Prune
  <2> QED BY <2>1, <1>1, <1>a, <1>c
<1>4. CASE Done(w) \/ Crash(w)
  <2>1. pc'[w] = "idle" /\ frame'[w] = EmptyFrame
    BY <1>4, <1>a DEF Done, Crash
  <2> QED BY <2>1, <1>a, IdleCovered
<1>5. CASE ReadTail(w)
  <2>1. /\ pc[w] = "read_tail" /\ pc'[w] = "insert"
        /\ frame'[w].kind = frame[w].kind /\ frame'[w].class = frame[w].class
        /\ frame'[w].ret = frame[w].ret /\ frame'[w].top = frame[w].top
        /\ frame'[w].since = frame[w].since
    BY <1>5, ReadTailFrame
  <2>2. frame[w].ret \in {"answered", "exported"} =>
          frame[w].kind = "READ_ACCESS" /\ frame[w].top <= frame[w].class
    BY <2>1 DEF ReadCovered, Writing
  <2>3. Writing(pc'[w])
    BY <2>1 DEF Writing
  <2> QED BY <2>1, <2>2, <2>3, <1>d, WritingCovered
<1>6. CASE Insert(w)
  <2>1. /\ pc[w] = "insert" /\ pc'[w] = frame[w].ret
        /\ frame'[w] = IF frame[w].ret = "idle" THEN EmptyFrame ELSE frame[w]
    BY <1>6, <1>a DEF Insert
  <2>2. frame[w].ret \in ReturnPCs
    BY <1>a DEF Frames
  <2>3. CASE frame[w].ret = "idle"
    BY <2>1, <2>3, <1>a, IdleCovered
  <2>4. CASE frame[w].ret = "turn"
    BY <2>1, <2>4, <1>d DEF ReadCovered, Writing
  <2>5. CASE frame[w].ret \in {"answered", "exported"}
    <3>1. frame[w].kind = "READ_ACCESS" /\ frame[w].top <= frame[w].class
      BY <2>1, <2>5 DEF ReadCovered, Writing
    <3>2. /\ Len(events) + 1 \in DOMAIN events'
          /\ events'[Len(events) + 1] = NewRow(frame[w])
      BY <1>6, <1>a, InsertRows
    <3>3. /\ NewRow(frame[w]).kind = frame[w].kind
          /\ NewRow(frame[w]).class = frame[w].class
      BY DEF NewRow
    <3>4. frame[w].since < Len(events) + 1
      BY <1>a, <1>b DEF ReadCovered
    <3>5. ReadIsLogged(events', frame[w])
      BY <3>1, <3>2, <3>3, <3>4, <1>a, <1>b DEF ReadIsLogged
    <3> HIDE DEF ReadIsLogged
    <3>6. frame'[w] = frame[w] /\ ~Writing(pc'[w])
      BY <2>1, <2>5 DEF Writing
    <3> QED BY <3>5, <3>6, <1>d DEF ReadCovered
  <2> QED BY <2>2, <2>3, <2>4, <2>5 DEF ReturnPCs
<1>7. CASE \E c \in QueryLevels : Query(w, c)
  <2>1. PICK c \in QueryLevels : Query(w, c)
    BY <1>7
  <2> DEFINE q == QueryFrame(c, Matching(c))
             top == Highest(Matching(c))
  <2>2. /\ q \in Frames /\ q.cmin = c /\ q.top = top /\ q.since = Len(events)
        /\ top \in Nat
    BY QueryFrameFields
  <2>3. ReturnRows(w, q, q.top, "answered") /\ events' = events
    BY <2>1 DEF Query, QueryFrame
  <2> HIDE DEF q, top
  <2>4. c \in Nat
    BY ChainConstants
  <2>5. CASE Logged(c, top)
    <3>1. CallRecord(w, q, "READ_ACCESS", top, "answered")
      BY <2>2, <2>3, <2>5 DEF ReturnRows
    <3>2. q.since <= Len(events') /\ q.top <= top
      BY <2>2, <1>a
    <3> QED BY <2>2, <3>1, <3>2, <1>1
  <2>6. CASE ~Logged(c, top)
    <3>1. pc'[w] = "answered" /\ frame'[w] = q
      BY <2>2, <2>3, <2>6, <1>a DEF ReturnRows
    <3>2. q.since <= Len(events')
      BY <2>2, <1>a
    <3>3. ~((c = 0 \/ c >= ReadLogThreshold) /\ top >= ReadLogThreshold)
      BY <2>6 DEF Logged
    <3> QED BY <2>2, <3>1, <3>2, <3>3 DEF ReadCovered, Writing
  <2> QED BY <2>5, <2>6
<1>8. CASE \E c \in QueryLevels : Export(w, c)
  <2>1. PICK c \in QueryLevels : Export(w, c)
    BY <1>8
  <2>2. /\ pc'[w] = "page" /\ events' = events
        /\ frame'[w] = [EmptyFrame EXCEPT !.cmin = c, !.since = Len(events),
                                          !.goal = Matching(c)]
    BY <2>1, <1>a DEF Export
  <2>3. frame'[w].since = Len(events)
    BY <2>2 DEF EmptyFrame
  <2> QED BY <2>2, <2>3, <1>a DEF ReadCovered, Writing
<1>9. CASE Page(w)
  <2> DEFINE ids  == Matching(frame[w].cmin)
             rows == PageFrom(ids, frame[w].offset)
             g    == PageFrame(frame[w], ids, rows)
  <2>1. g \in Frames /\ g.since = frame[w].since
    BY <1>a, PageFrameFields
  <2>2. ReturnRows(w, g, Highest(rows), "turn")
    BY <1>9 DEF Page, PageFrame
  <2> HIDE DEF g, rows
  <2>3. CASE CallRecord(w, g, "READ_ACCESS", Highest(rows), "turn")
    BY <2>1, <2>3, <1>1, <1>d
  <2>4. CASE pc'[w] = "turn" /\ frame'[w] = g
    BY <2>1, <2>4, <1>d DEF ReadCovered, Writing
  <2> QED BY <2>2, <2>3, <2>4, <1>a DEF ReturnRows
<1>10. CASE Turn(w)
  <2> DEFINE bulk == IF frame[w].top > frame[w].cmin THEN frame[w].top
                                                     ELSE frame[w].cmin
  <2>1. bulk \in Nat /\ frame[w].top <= bulk
    BY <1>b
  <2>2. \/ /\ pc' = [pc EXCEPT ![w] = "page"]
           /\ frame' = [frame EXCEPT ![w].offset = @ + PageLimit]
        \/ CallRecord(w, frame[w], "READ_ACCESS", bulk, "exported")
        \/ /\ bulk < ReadLogThreshold
           /\ pc' = [pc EXCEPT ![w] = "exported"]
           /\ frame' = frame
    BY <1>10 DEF Turn
  <2> HIDE DEF bulk
  <2>3. CASE /\ pc' = [pc EXCEPT ![w] = "page"]
             /\ frame' = [frame EXCEPT ![w].offset = @ + PageLimit]
    <3>1. frame'[w].since = frame[w].since /\ pc'[w] = "page"
      BY <2>3, <1>a DEF Frames
    <3> QED BY <3>1, <1>d DEF ReadCovered, Writing
  <2>4. CASE CallRecord(w, frame[w], "READ_ACCESS", bulk, "exported")
    BY <2>1, <2>4, <1>1, <1>a, <1>d
  <2>5. CASE /\ bulk < ReadLogThreshold
             /\ pc' = [pc EXCEPT ![w] = "exported"]
             /\ frame' = frame
    <3>1. pc'[w] = "exported" /\ frame'[w] = frame[w]
      BY <2>5, <1>a
    <3>2. ~(frame[w].top >= ReadLogThreshold)
      BY <2>1, <2>5, <1>b, ChainConstants
    <3> QED BY <3>1, <3>2, <1>d DEF ReadCovered, Writing
  <2> QED BY <2>2, <2>3, <2>4, <2>5
<1> QED BY <1>2, <1>3, <1>4, <1>5, <1>6, <1>7, <1>8, <1>9, <1>10 DEF Acts

\* No row at or above the logging threshold reaches the caller of an unfiltered
\* query, of one filtered at the threshold, or of an export, before its
\* READ_ACCESS record is in the trail: the crash of the reader, or the steps of
\* any other writer, cannot separate the two.
THEOREM ReadsAlwaysLogged == Spec => []ReadLoggedBeforeReturn
<1>1. Init => ReadInv
  <2> SUFFICES ASSUME Init PROVE ReadInv
    OBVIOUS
  <2>1. events \in Seq(Records)
    BY EmptySeq DEF Init
  <2> QED BY <2>1, IdleCovered DEF Init, ReadInv
<1>2. TypeOK /\ TypeOK' /\ ReadInv /\ [Next]_vars => ReadInv'
  <2> SUFFICES ASSUME TypeOK, TypeOK', ReadInv, [Next]_vars,
                      NEW v \in Writers
               PROVE  ReadCovered(events', pc'[v], frame'[v])
    BY DEF ReadInv
  <2>1. Grown(events, events')
    BY TrailGrows
  <2>2. ReadCovered(events, pc[v], frame[v]) /\ frame[v] \in Frames
    BY DEF ReadInv, TypeOK
  <2>3. CASE Acts(v)
    BY <2>1, <2>2, <2>3, ActingCovered
  <2>4. CASE ~Acts(v)
    <3>1. pc'[v] = pc[v] /\ frame'[v] = frame[v]
      BY <2>4, OthersWait, NobodyActs
    <3> QED BY <3>1, <2>1, <2>2, CoverKept
  <2> QED BY <2>3, <2>4
<1>3. ReadInv => ReadLoggedBeforeReturn
  BY DEF ReadInv, ReadCovered, ReadIsLogged, ReadLoggedBeforeReturn
<1> QED BY <1>1, <1>2, <1>3, TypeCorrect, PTL DEF Spec

-------------------------------------------------------------------------------
(* Exports *)

\* The ids a query with this classification_min selects from a trail.
Selected(trail, cmin) == {i \in DOMAIN trail : trail[i].class >= cmin}

\* The first n rows of the result are in the pages of an export: what is in a
\* page is among them, what the export is to return and is among them is in a
\* page, and no row is in two pages.
PagesReach(trail, f, n) ==
  LET ids == Selected(trail, f.cmin)
  IN /\ f.goal \subseteq ids
     /\ \A k \in DOMAIN f.got : \A i \in f.got[k] :
          i \in ids /\ Position(i, ids) <= n
     /\ \A i \in f.goal : Position(i, ids) <= n =>
          \E k \in DOMAIN f.got : i \in f.got[k]
     /\ \A j, k \in DOMAIN f.got : j # k => f.got[j] \cap f.got[k] = {}

\* The count that came with a page covers what the export is to return.
GoalCounted(trail, f) ==
  \A i \in f.goal : Position(i, Selected(trail, f.cmin)) <= f.total

\* Everything is in a page, and once.
Delivered(f) ==
  /\ \A i \in f.goal : \E k \in DOMAIN f.got : i \in f.got[k]
  /\ \A j, k \in DOMAIN f.got : j # k => f.got[j] \cap f.got[k] = {}

\* The strengthening of ExportComplete that is inductive: where the pages of an
\* export have got to, at each point of its loop.
ExportReached(trail, p, f) ==
  /\ p = "page" => PagesReach(trail, f, f.offset)
  /\ p = "turn" \/ (Writing(p) /\ f.ret = "turn") =>
       PagesReach(trail, f, f.offset + PageLimit) /\ GoalCounted(trail, f)
  /\ p = "exported" \/ (Writing(p) /\ f.ret = "exported") => Delivered(f)

ExportInv == \A w \in Writers : ExportReached(events, pc[w], frame[w])

\* The place of a row in a selection is a count of rows.
LEMMA PositionType ==
  ASSUME NEW ids, IsFiniteSet(ids), NEW i
  PROVE  Position(i, ids) \in Nat /\ Position(i, ids) <= Cardinality(ids)
<1>1. {j \in ids : j <= i} \in SUBSET ids
  OBVIOUS
<1>2. IsFiniteSet({j \in ids : j <= i})
  BY <1>1, FS_Subset
<1>3. Cardinality({j \in ids : j <= i}) <= Cardinality(ids)
  BY <1>1, FS_Subset
<1> QED BY <1>2, <1>3, FS_CardinalityType DEF Position

LEMMA SelectedType ==
  ASSUME NEW trail, trail \in Seq(Records), NEW cmin
  PROVE  /\ Selected(trail, cmin) \in SUBSET (1 .. Len(trail))
         /\ IsFiniteSet(Selected(trail, cmin))
         /\ Cardinality(Selected(trail, cmin)) \in Nat
<1>1. DOMAIN trail = 1 .. Len(trail) /\ Len(trail) \in Nat
  BY LenProperties
<1>2. Selected(trail, cmin) \in SUBSET (1 .. Len(trail))
  BY <1>1 DEF Selected
<1>3. IsFiniteSet(1 .. Len(trail))
  BY <1>1, FS_Interval
<1> QED BY <1>2, <1>3, FS_Subset, FS_CardinalityType

\* A row that was selected stays selected and keeps its place while the trail
\* grows: the rows a read logs, and those of other writers, come after it.
LEMMA PlaceKept ==
  ASSUME NEW old, NEW new, Grown(old, new), NEW cmin,
         NEW i \in Selected(old, cmin)
  PROVE  /\ i \in Selected(new, cmin)
         /\ Position(i, Selected(new, cmin)) = Position(i, Selected(old, cmin))
<1>1. /\ Len(old) \in Nat /\ DOMAIN old = 1 .. Len(old)
      /\ Len(new) \in Nat /\ DOMAIN new = 1 .. Len(new)
      /\ Len(old) <= Len(new)
  BY LenProperties DEF Grown
<1>2. \A j \in 1 .. Len(old) : j \in Selected(new, cmin) <=> j \in Selected(old, cmin)
  BY <1>1 DEF Selected, Grown
<1>3. i \in 1 .. Len(old)
  BY <1>1 DEF Selected
<1>4. \A j \in Selected(new, cmin) : j \in Nat /\ j \in 1 .. Len(new)
  BY <1>1 DEF Selected
<1>5. \A j \in Selected(old, cmin) : j \in 1 .. Len(old)
  BY <1>1 DEF Selected
<1>6. ASSUME NEW j PROVE j \in Selected(new, cmin) /\ j <= i <=>
                         j \in Selected(old, cmin) /\ j <= i
  <2>1. j \in Selected(new, cmin) /\ j <= i => j \in 1 .. Len(old)
    BY <1>1, <1>3, <1>4
  <2> QED BY <2>1, <1>2, <1>5
<1>7. {j \in Selected(new, cmin) : j <= i} = {j \in Selected(old, cmin) : j <= i}
  BY <1>6
<1> QED BY <1>2, <1>3, <1>7 DEF Position

\* What an export has reached is not undone by the trail growing.
LEMMA ReachKept ==
  ASSUME NEW old, NEW new, Grown(old, new), NEW p, NEW f,
         ExportReached(old, p, f)
  PROVE  ExportReached(new, p, f)
<1> DEFINE was == Selected(old, f.cmin)
           is  == Selected(new, f.cmin)
<1>1. \A i \in was : i \in is /\ Position(i, is) = Position(i, was)
  BY PlaceKept
<1>2. ASSUME NEW n, PagesReach(old, f, n) PROVE PagesReach(new, f, n)
  <2> HIDE DEF was, is
  <2>1. /\ f.goal \subseteq was
        /\ \A k \in DOMAIN f.got : \A i \in f.got[k] :
             i \in was /\ Position(i, was) <= n
        /\ \A i \in f.goal : Position(i, was) <= n =>
             \E k \in DOMAIN f.got : i \in f.got[k]
        /\ \A j, k \in DOMAIN f.got : j # k => f.got[j] \cap f.got[k] = {}
    BY <1>2 DEF PagesReach, was
  <2>2. /\ f.goal \subseteq is
        /\ \A k \in DOMAIN f.got : \A i \in f.got[k] :
             i \in is /\ Position(i, is) <= n
        /\ \A i \in f.goal : Position(i, is) <= n =>
             \E k \in DOMAIN f.got : i \in f.got[k]
    BY <2>1, <1>1
  <2> QED BY <2>1, <2>2 DEF PagesReach, is
<1>3. ASSUME NEW n, PagesReach(old, f, n), GoalCounted(old, f)
      PROVE  GoalCounted(new, f)
  <2>1. f.goal \subseteq was
    BY <1>3 DEF PagesReach
  <2>2. \A i \in f.goal : Position(i, was) <= f.total
    BY <1>3 DEF GoalCounted
  <2> HIDE DEF was, is
  <2>3. \A i \in f.goal : Position(i, is) <= f.total
    BY <2>1, <2>2, <1>1
  <2> QED BY <2>3 DEF GoalCounted, is
<1> QED BY <1>2, <1>3 DEF ExportReached

\* A call that is no export has reached nothing it would have to.
LEMMA NoExport ==
  ASSUME NEW trail, NEW p, NEW f, p \notin {"page", "turn", "exported"},
         Writing(p) => f.ret \notin {"turn", "exported"}
  PROVE  ExportReached(trail, p, f)
BY DEF ExportReached, Writing

\* What an export has reached depends on these fields of its frame only.
SameExport(f, g) ==
  /\ f.cmin = g.cmin /\ f.offset = g.offset /\ f.got = g.got
  /\ f.goal = g.goal /\ f.total = g.total

LEMMA ReachSame ==
  ASSUME NEW trail, NEW f, NEW g, SameExport(f, g)
  PROVE  /\ \A n : PagesReach(trail, f, n) <=> PagesReach(trail, g, n)
         /\ GoalCounted(trail, f) <=> GoalCounted(trail, g)
         /\ Delivered(f) <=> Delivered(g)
BY DEF SameExport, PagesReach, GoalCounted, Delivered

\* A page carries the pages so far on to its own end, and counts the result.
LEMMA PageReaches ==
  ASSUME NEW trail, trail \in Seq(Records), NEW f \in Frames,
         PagesReach(trail, f, f.offset),
         NEW ids, ids = Selected(trail, f.cmin),
         NEW rows, rows = PageFrom(ids, f.offset),
         NEW g, g.got = Append(f.got, rows), g.goal = f.goal, g.cmin = f.cmin,
         g.offset = f.offset, g.total = Cardinality(ids)
  PROVE  PagesReach(trail, g, g.offset + PageLimit) /\ GoalCounted(trail, g)
<1> DEFINE n == f.offset
           m == f.offset + PageLimit
<1>1. /\ f.got \in Seq(SUBSET Nat) /\ n \in Nat /\ m \in Nat /\ n < m
      /\ f.offset \in Nat /\ PageLimit \in Nat
  BY ChainConstants DEF Frames
<1>2. /\ IsFiniteSet(ids) /\ ids \in SUBSET (1 .. Len(trail))
      /\ Cardinality(ids) \in Nat /\ Len(trail) \in Nat
  BY SelectedType, LenProperties
<1>3. /\ Len(f.got) \in Nat /\ DOMAIN f.got = 1 .. Len(f.got)
  BY <1>1, LenProperties
<1>4. \A i \in ids : Position(i, ids) \in Nat /\ Position(i, ids) <= Cardinality(ids)
  BY <1>2, PositionType
<1>5. rows \in SUBSET Nat /\ rows \in SUBSET ids
  BY <1>2 DEF PageFrom
<1>6. \A i \in ids : i \in rows <=> n < Position(i, ids) /\ Position(i, ids) <= m
  BY <1>1, <1>4 DEF PageFrom
<1>7. /\ Len(g.got) = Len(f.got) + 1
      /\ g.got[Len(f.got) + 1] = rows
      /\ \A k \in 1 .. Len(f.got) : g.got[k] = f.got[k]
      /\ g.got \in Seq(SUBSET Nat)
  BY <1>1, <1>5, AppendProperties
<1>8. DOMAIN g.got = 1 .. Len(f.got) + 1
  BY <1>7, LenProperties
<1>9. /\ f.goal \subseteq ids
      /\ \A k \in 1 .. Len(f.got) : \A i \in f.got[k] :
           i \in ids /\ Position(i, ids) <= n
      /\ \A i \in f.goal : Position(i, ids) <= n =>
           \E k \in 1 .. Len(f.got) : i \in f.got[k]
      /\ \A j, k \in 1 .. Len(f.got) : j # k => f.got[j] \cap f.got[k] = {}
  BY <1>3 DEF PagesReach
<1> HIDE DEF m, n
<1>10. \A k \in 1 .. Len(f.got) + 1 : k \in 1 .. Len(f.got) \/ k = Len(f.got) + 1
  BY <1>3
<1>11. 1 .. Len(f.got) \subseteq 1 .. Len(f.got) + 1
       /\ Len(f.got) + 1 \in 1 .. Len(f.got) + 1
  BY <1>3
<1>12. ASSUME NEW k \in 1 .. Len(f.got) + 1, NEW i \in g.got[k]
       PROVE  i \in ids /\ Position(i, ids) <= m
  <2>1. CASE k \in 1 .. Len(f.got)
    <3>1. i \in ids /\ Position(i, ids) <= n
      BY <2>1, <1>7, <1>9
    <3> QED BY <3>1, <1>1, <1>4
  <2>2. CASE k = Len(f.got) + 1
    BY <2>2, <1>5, <1>6, <1>7
  <2> QED BY <2>1, <2>2, <1>10
<1>13. ASSUME NEW i \in f.goal, Position(i, ids) <= m
       PROVE  \E k \in 1 .. Len(f.got) + 1 : i \in g.got[k]
  <2>1. i \in ids
    BY <1>9
  <2>2. CASE Position(i, ids) <= n
    <3>1. PICK k \in 1 .. Len(f.got) : i \in f.got[k]
      BY <2>2, <1>9
    <3> QED BY <3>1, <1>7, <1>11
  <2>3. CASE ~(Position(i, ids) <= n)
    <3>1. n < Position(i, ids)
      BY <2>1, <2>3, <1>1, <1>4
    <3>2. i \in rows
      BY <2>1, <3>1, <1>6, <1>13
    <3> QED BY <3>2, <1>7, <1>11
  <2> QED BY <2>2, <2>3
<1>14. \A k \in 1 .. Len(f.got) : f.got[k] \cap rows = {}
  <2> SUFFICES ASSUME NEW k \in 1 .. Len(f.got), NEW i \in f.got[k], i \in rows
               PROVE  FALSE
    OBVIOUS
  <2>1. i \in ids /\ Position(i, ids) <= n
    BY <1>9
  <2>2. n < Position(i, ids)
    BY <2>1, <1>6
  <2> QED BY <2>1, <2>2, <1>1, <1>4
<1>15. ASSUME NEW j \in 1 .. Len(f.got) + 1, NEW k \in 1 .. Len(f.got) + 1, j # k
       PROVE  g.got[j] \cap g.got[k] = {}
  <2>1. CASE j \in 1 .. Len(f.got) /\ k \in 1 .. Len(f.got)
    BY <2>1, <1>15, <1>7, <1>9
  <2>2. CASE j = Len(f.got) + 1 /\ k \in 1 .. Len(f.got)
    BY <2>2, <1>7, <1>14
  <2>3. CASE j \in 1 .. Len(f.got) /\ k = Len(f.got) + 1
    BY <2>3, <1>7, <1>14
  <2> QED BY <1>10, <1>15, <2>1, <2>2, <2>3
<1>16. PagesReach(trail, g, m)
  BY <1>8, <1>9, <1>12, <1>13, <1>15 DEF PagesReach
<1>17. GoalCounted(trail, g)
  BY <1>4, <1>9 DEF GoalCounted
<1> QED BY <1>16, <1>17 DEF m

\* An export whose pages have reached the count has everything.
LEMMA LastPageDelivers ==
  ASSUME NEW trail, trail \in Seq(Records), NEW f \in Frames, NEW n \in Nat,
         PagesReach(trail, f, n), GoalCounted(trail, f), n >= f.total
  PROVE  Delivered(f)
<1> DEFINE ids == Selected(trail, f.cmin)
<1>1. IsFiniteSet(ids) /\ f.total \in Nat
  BY SelectedType DEF Frames
<1>2. /\ f.goal \subseteq ids
      /\ \A i \in f.goal : Position(i, ids) <= n =>
           \E k \in DOMAIN f.got : i \in f.got[k]
      /\ \A j, k \in DOMAIN f.got : j # k => f.got[j] \cap f.got[k] = {}
      /\ \A i \in f.goal : Position(i, ids) <= f.total
  BY DEF PagesReach, GoalCounted
<1> HIDE DEF ids
<1>3. \A i \in f.goal : Position(i, ids) \in Nat
  BY <1>1, PositionType
<1>4. \A i \in f.goal : Position(i, ids) <= n
  BY <1>1, <1>2, <1>3
<1> QED BY <1>2, <1>4 DEF Delivered

\* A step of w carries its own export on.
LEMMA ActingReaches ==
  ASSUME TypeOK, TypeOK', NEW w \in Writers, Acts(w),
         ExportReached(events, pc[w], frame[w]), Grown(events, events')
  PROVE  ExportReached(events', pc'[w], frame'[w])
<1>a. /\ events \in Seq(Records) /\ events' \in Seq(Records)
      /\ pc \in [Writers -> PCs] /\ frame \in [Writers -> Frames]
      /\ frame[w] \in Frames /\ frame'[w] \in Frames
  BY DEF TypeOK
<1>b. EmptyFrame \in Frames /\ EmptyFrame.ret = "idle"
  BY EmptyFrameType DEF EmptyFrame
<1>1. ASSUME NEW f \in Frames, NEW kind, NEW class, NEW ret,
             CallRecord(w, f, kind, class, ret), ret \notin {"turn", "exported"}
      PROVE  ExportReached(events', pc'[w], frame'[w])
  <2>1. pc'[w] = "read_tail" /\ frame'[w].ret = ret
    BY <1>1, CallRecordFrame
  <2> QED BY <1>1, <2>1, NoExport
<1>2. CASE \E c \in Levels : Record(w, c)
  <2>1. PICK c \in Levels : CallRecord(w, EmptyFrame, "EVENT", c, "idle")
    BY <1>2 DEF Record
  <2> QED BY <2>1, <1>1, <1>b
<1>3. CASE \E days \in 0 .. MaxTime : Prune(w, days)
  <2>1. CallRecord(w, EmptyFrame, "RETENTION_PRUNED", 0, "idle")
    BY <1>3 DEF Prune
  <2> QED BY <2>1, <1>1, <1>b
<1>4. CASE Done(w) \/ Crash(w)
  <2>1. pc'[w] = "idle" /\ frame'[w] = EmptyFrame
    BY <1>4, <1>a DEF Done, Crash
  <2> QED BY <2>1, NoExport DEF Writing
<1>5. CASE ReadTail(w)
  <2>1. /\ pc[w] = "read_tail" /\ pc'[w] = "insert"
        /\ frame'[w].ret = frame[w].ret /\ SameExport(frame'[w], frame[w])
    BY <1>5, ReadTailFrame DEF SameExport
  <2>2. events' = events
    BY <1>5 DEF ReadTail
  <2>3. frame'[w].offset = frame[w].offset
    BY <2>1 DEF SameExport
  <2>4. /\ \A n : PagesReach(events, frame'[w], n) <=> PagesReach(events, frame[w], n)
        /\ GoalCounted(events, frame'[w]) <=> GoalCounted(events, frame[w])
        /\ Delivered(frame'[w]) <=> Delivered(frame[w])
    BY <2>1, ReachSame
  <2>5. /\ frame[w].ret = "turn" => PagesReach(events, frame[w], frame[w].offset + PageLimit)
                                    /\ GoalCounted(events, frame[w])
        /\ frame[w].ret = "exported" => Delivered(frame[w])
    BY <2>1 DEF ExportReached, Writing
  <2> QED BY <2>1, <2>2, <2>3, <2>4, <2>5 DEF ExportReached, Writing
<1>6. CASE Insert(w)
  <2>1. /\ pc[w] = "insert" /\ pc'[w] = frame[w].ret
        /\ frame'[w] = IF frame[w].ret = "idle" THEN EmptyFrame ELSE frame[w]
    BY <1>6, <1>a DEF Insert
  <2>2. frame[w].ret \in ReturnPCs
    BY <1>a DEF Frames
  <2>3. ExportReached(events', pc[w], frame[w])
    BY ReachKept
  <2>4. CASE frame[w].ret \in {"idle", "answered"}
    BY <2>1, <2>4, NoExport DEF Writing
  <2>5. CASE frame[w].ret \in {"turn", "exported"}
    BY <2>1, <2>3, <2>5 DEF ExportReached, Writing
  <2> QED BY <2>2, <2>4, <2>5 DEF ReturnPCs
<1>7. CASE \E c \in QueryLevels : Query(w, c)
  <2>1. PICK c \in QueryLevels : Query(w, c)
    BY <1>7
  <2> DEFINE q == QueryFrame(c, Matching(c))
  <2>2. q \in Frames
    BY QueryFrameFields
  <2>3. ReturnRows(w, q, q.top, "answered")
    BY <2>1 DEF Query, QueryFrame
  <2> HIDE DEF q
  <2>4. CASE CallRecord(w, q, "READ_ACCESS", q.top, "answered")
    BY <2>2, <2>4, <1>1
  <2>5. CASE pc' = [pc EXCEPT ![w] = "answered"]
    <3>1. pc'[w] = "answered"
      BY <2>5, <1>a
    <3> QED BY <3>1, NoExport DEF Writing
  <2> QED BY <2>3, <2>4, <2>5 DEF ReturnRows
<1>8. CASE \E c \in QueryLevels : Export(w, c)
  <2>1. PICK c \in QueryLevels : Export(w, c)
    BY <1>8
  <2> DEFINE ids == Matching(c)
  <2>2. /\ pc'[w] = "page" /\ events' = events
        /\ frame'[w] = [EmptyFrame EXCEPT !.cmin = c, !.since = Len(events),
                                          !.goal = ids]
    BY <2>1, <1>a DEF Export
  <2>3. ids = Selected(events, c)
    BY DEF Matching, Selected
  <2> HIDE DEF ids
  <2>4. /\ frame'[w].cmin = c /\ frame'[w].goal = ids /\ frame'[w].got = <<>>
        /\ frame'[w].offset = 0
    BY <2>2 DEF EmptyFrame
  <2>5. DOMAIN frame'[w].got = {}
    BY <2>4, EmptySeq
  <2>6. \A i \in ids : Position(i, ids) # 0
    <3> SUFFICES ASSUME NEW i \in ids PROVE Position(i, ids) # 0
      OBVIOUS
    <3>1. IsFiniteSet(ids) /\ i \in Nat
      BY <2>3, <1>a, SelectedType
    <3>2. i \in {j \in ids : j <= i} /\ {j \in ids : j <= i} \in SUBSET ids
      BY <3>1
    <3>3. IsFiniteSet({j \in ids : j <= i})
      BY <3>1, <3>2, FS_Subset
    <3> QED BY <3>2, <3>3, FS_EmptySet DEF Position
  <2>7. \A i \in ids : Position(i, ids) \in Nat
    BY <2>3, <1>a, SelectedType, PositionType
  <2>8. \A i \in ids : ~(Position(i, ids) <= 0)
    BY <2>6, <2>7
  <2>9. PagesReach(events', frame'[w], frame'[w].offset)
    BY <2>2, <2>3, <2>4, <2>5, <2>8 DEF PagesReach
  <2> QED BY <2>2, <2>9 DEF ExportReached, Writing
<1>9. CASE Page(w)
  <2> DEFINE ids  == Matching(frame[w].cmin)
             rows == PageFrom(ids, frame[w].offset)
             g    == PageFrame(frame[w], ids, rows)
  <2>1. /\ g \in Frames /\ g.cmin = frame[w].cmin /\ g.offset = frame[w].offset
        /\ g.goal = frame[w].goal /\ g.got = Append(frame[w].got, rows)
        /\ g.total = Cardinality(ids)
    BY <1>a, PageFrameFields
  <2>2. /\ ReturnRows(w, g, Highest(rows), "turn") /\ pc[w] = "page"
        /\ events' = events
    BY <1>9 DEF Page, PageFrame
  <2>3. ids = Selected(events, frame[w].cmin) /\ rows = PageFrom(ids, frame[w].offset)
    BY DEF Matching, Selected
  <2>4. PagesReach(events, frame[w], frame[w].offset)
    BY <2>2 DEF ExportReached
  <2> HIDE DEF g, rows, ids
  <2>5. PagesReach(events, g, g.offset + PageLimit) /\ GoalCounted(events, g)
    BY <1>a, <2>1, <2>3, <2>4, PageReaches
  <2>6. CASE CallRecord(w, g, "READ_ACCESS", Highest(rows), "turn")
    <3>1. /\ pc'[w] = "read_tail" /\ frame'[w].ret = "turn"
          /\ frame'[w].cmin = g.cmin /\ frame'[w].offset = g.offset
          /\ frame'[w].got = g.got /\ frame'[w].goal = g.goal
          /\ frame'[w].total = g.total
      BY <2>1, <2>6, CallRecordFrame
    <3>2. SameExport(g, frame'[w])
      BY <3>1 DEF SameExport
    <3>3. PagesReach(events', frame'[w], frame'[w].offset + PageLimit)
          /\ GoalCounted(events', frame'[w])
      BY <2>2, <2>5, <3>1, <3>2, ReachSame
    <3> QED BY <3>1, <3>3 DEF ExportReached, Writing
  <2>7. CASE pc'[w] = "turn" /\ frame'[w] = g
    BY <2>2, <2>5, <2>7 DEF ExportReached, Writing
  <2> QED BY <2>2, <2>6, <2>7, <1>a DEF ReturnRows
<1>10. CASE Turn(w)
  <2> DEFINE n == frame[w].offset + PageLimit
             bulk == IF frame[w].top > frame[w].cmin THEN frame[w].top
                                                     ELSE frame[w].cmin
  <2>1. n \in Nat /\ frame[w].offset \in Nat /\ frame[w].total \in Nat
    <3>1. frame[w].offset \in Nat /\ frame[w].total \in Nat
      BY <1>a DEF Frames
    <3> QED BY <3>1, ChainConstants
  <2>2. /\ pc[w] = "turn" /\ events' = events
        /\ \/ /\ pc' = [pc EXCEPT ![w] = "page"]
              /\ frame' = [frame EXCEPT ![w].offset = @ + PageLimit]
           \/ /\ n >= frame[w].total
              /\ CallRecord(w, frame[w], "READ_ACCESS", bulk, "exported")
           \/ /\ n >= frame[w].total
              /\ pc' = [pc EXCEPT ![w] = "exported"]
              /\ frame' = frame
    BY <1>10 DEF Turn
  <2>3. PagesReach(events, frame[w], n) /\ GoalCounted(events, frame[w])
    BY <2>2 DEF ExportReached
  <2>4. n >= frame[w].total => Delivered(frame[w])
    <3> HIDE DEF n
    <3> QED BY <1>a, <2>1, <2>3, LastPageDelivers
  <2> HIDE DEF bulk
  <2>5. CASE /\ pc' = [pc EXCEPT ![w] = "page"]
             /\ frame' = [frame EXCEPT ![w].offset = @ + PageLimit]
    <3>1. pc'[w] = "page" /\ frame'[w] = [frame[w] EXCEPT !.offset = @ + PageLimit]
      BY <2>5, <1>a
    <3>2. /\ frame'[w].offset = n /\ frame'[w].cmin = frame[w].cmin
          /\ frame'[w].goal = frame[w].goal /\ frame'[w].got = frame[w].got
      BY <3>1, <1>a DEF Frames
    <3>3. PagesReach(events', frame'[w], frame'[w].offset)
      <4> HIDE DEF n
      <4> QED BY <2>2, <2>3, <3>2 DEF PagesReach
    <3> QED BY <3>1, <3>3 DEF ExportReached, Writing
  <2>6. CASE /\ n >= frame[w].total
             /\ CallRecord(w, frame[w], "READ_ACCESS", bulk, "exported")
    <3>1. /\ pc'[w] = "read_tail" /\ frame'[w].ret = "exported"
          /\ SameExport(frame[w], frame'[w])
      BY <2>6, <1>a, CallRecordFrame DEF SameExport
    <3>2. Delivered(frame'[w])
      BY <2>4, <2>6, <3>1, ReachSame
    <3> QED BY <3>1, <3>2 DEF ExportReached, Writing
  <2>7. CASE /\ n >= frame[w].total
             /\ pc' = [pc EXCEPT ![w] = "exported"]
             /\ frame' = frame
    <3>1. pc'[w] = "exported" /\ frame'[w] = frame[w]
      BY <2>7, <1>a
    <3> QED BY <2>4, <2>7, <3>1 DEF ExportReached, Writing
  <2> QED BY <2>2, <2>5, <2>6, <2>7
<1> QED BY <1>2, <1>3, <1>4, <1>5, <1>6, <1>7, <1>8, <1>9, <1>10 DEF Acts

\* Every matching row that was there when an export began is in exactly one of
\* its pages, whatever page size, however many writers append matching rows in
\* between, and although the export appends such rows itself.
THEOREM ExportsAlwaysComplete == Spec => []ExportComplete
<1>1. Init => ExportInv
  <2> SUFFICES ASSUME Init, NEW w \in Writers
               PROVE  ExportReached(events, pc[w], frame[w])
    BY DEF ExportInv
  <2>1. pc[w] = "idle"
    BY DEF Init
  <2> QED BY <2>1, NoExport DEF Writing
<1>2. TypeOK /\ TypeOK' /\ ExportInv /\ [Next]_vars => ExportInv'
  <2> SUFFICES ASSUME TypeOK, TypeOK', ExportInv, [Next]_vars, NEW v \in Writers
               PROVE  ExportReached(events', pc'[v], frame'[v])
    BY DEF ExportInv
  <2>1. Grown(events, events')
    BY TrailGrows
  <2>2. ExportReached(events, pc[v], frame[v])
    BY DEF ExportInv
  <2>3. CASE Acts(v)
    BY <2>1, <2>2, <2>3, ActingReaches
  <2>4. CASE ~Acts(v)
    <3>1. pc'[v] = pc[v] /\ frame'[v] = frame[v]
      BY <2>4, OthersWait, NobodyActs
    <3> QED BY <3>1, <2>1, <2>2, ReachKept
  <2> QED BY <2>3, <2>4
<1>3. ExportInv => ExportComplete
  <2> SUFFICES ASSUME ExportInv, NEW w \in Writers, pc[w] = "exported"
               PROVE  /\ frame[w].goal \subseteq
                           UNION {frame[w].got[k] : k \in DOMAIN frame[w].got}
                      /\ \A j, k \in DOMAIN frame[w].got :
                           j # k => frame[w].got[j] \cap frame[w].got[k] = {}
    BY DEF ExportComplete
  <2>1. Delivered(frame[w])
    BY DEF ExportInv, ExportReached
  <2> QED BY <2>1 DEF Delivered
<1> QED BY <1>1, <1>2, <1>3, TypeCorrect, PTL DEF Spec

-------------------------------------------------------------------------------
(* The trail implements the append-only log *)

\* A row as the append-only log shows it.
Shown(r) ==
  [spine  |-> [kind |-> r.kind, class |-> r.class, stamp |-> r.stamp, link |-> r.link],
   erased |-> r.body = "erased"]

\* The refinement mapping, as a definition the steps below can name.
ShownLog == [i \in DOMAIN events |-> Shown(events[i])]

\* The actions of the append-only log, over its shown state.
ShownSpine == [kind : Kinds, class : Nat, stamp : Nat, link : Hashes]

ShownAppend ==
  /\ Len(ShownLog') = Len(ShownLog) + 1
  /\ SubSeq(ShownLog', 1, Len(ShownLog)) = ShownLog
  /\ ShownLog'[Len(ShownLog')] \in [spine : ShownSpine, erased : {FALSE}]

ShownErase ==
  \E S \in SUBSET DOMAIN ShownLog :
    ShownLog' = [i \in DOMAIN ShownLog |->
                   IF i \in S THEN [ShownLog[i] EXCEPT !.erased = TRUE]
                              ELSE ShownLog[i]]

LEMMA InsertAppends ==
  ASSUME TypeOK, NEW w \in Writers, Insert(w)
  PROVE  ShownAppend
<1>a. /\ events \in Seq(Records) /\ Len(events) \in Nat
      /\ DOMAIN events = 1 .. Len(events)
      /\ frame[w] \in Frames
  BY RowType DEF TypeOK
<1> DEFINE n == Len(events)
<1>1. /\ Len(events') = n + 1
      /\ DOMAIN events' = 1 .. n + 1
      /\ \A i \in 1 .. n : events'[i] = events[i]
      /\ events'[n + 1] = NewRow(frame[w])
  BY <1>a, InsertRows
<1>2. Len(ShownLog) = n /\ DOMAIN ShownLog = 1 .. n
  BY <1>a DEF ShownLog
<1>3. /\ Len(ShownLog') = n + 1 /\ DOMAIN ShownLog' = 1 .. n + 1
      /\ \A i \in 1 .. n + 1 : ShownLog'[i] = Shown(events'[i])
  BY <1>a, <1>1 DEF ShownLog
<1>4. SubSeq(ShownLog', 1, n) = ShownLog
  <2>1. SubSeq(ShownLog', 1, n) = [i \in 1 .. n |-> ShownLog'[i]]
    BY <1>a, <1>3
  <2>2. \A i \in 1 .. n : ShownLog'[i] = ShownLog[i]
    BY <1>a, <1>1, <1>3 DEF ShownLog
  <2> QED BY <2>1, <2>2, <1>a DEF ShownLog
<1>5. ShownLog'[n + 1] \in [spine : ShownSpine, erased : {FALSE}]
  <2>1. /\ NewRow(frame[w]).body = "written"
        /\ NewRow(frame[w]) \in Records
    BY <1>a DEF NewRow, Frames, Records, Bodies
  <2>2. Shown(NewRow(frame[w])) \in [spine : ShownSpine, erased : {FALSE}]
    BY <2>1 DEF Shown, ShownSpine, Records
  <2>3. ShownLog'[n + 1] = Shown(NewRow(frame[w]))
    BY <1>a, <1>1, <1>3
  <2> QED BY <2>2, <2>3
<1> QED BY <1>2, <1>3, <1>4, <1>5 DEF ShownAppend

\* Nullifying a payload, on the shown row.
LEMMA SetErased ==
  ASSUME NEW a, NEW b, NEW c
  PROVE  [[spine |-> a, erased |-> b] EXCEPT !.erased = c]
           = [spine |-> a, erased |-> c]
<1> DEFINE f == [spine |-> a, erased |-> b]
           g == [f EXCEPT !.erased = c]
<1>1. DOMAIN g = {"spine", "erased"} /\ g["spine"] = a /\ g["erased"] = c
  OBVIOUS
<1>2. g = [x \in {"spine", "erased"} |-> g[x]]
  OBVIOUS
<1> QED BY <1>1, <1>2

LEMMA PruneErases ==
  ASSUME TypeOK, NEW w \in Writers, NEW days \in 0 .. MaxTime, Prune(w, days)
  PROVE  ShownErase
<1>1. PICK due \in SUBSET DOMAIN events :
        events' = [i \in DOMAIN events |->
                    IF i \in due THEN [events[i] EXCEPT !.body = "erased"]
                                 ELSE events[i]]
  BY DEF Prune
<1>2. \A i \in DOMAIN events : events[i] \in Records
  BY RowType DEF TypeOK
<1>3. DOMAIN ShownLog = DOMAIN events
  BY DEF ShownLog
<1>4. DOMAIN ShownLog' = DOMAIN events
  BY <1>1 DEF ShownLog
<1>5. ASSUME NEW i \in DOMAIN events
      PROVE  ShownLog'[i] = IF i \in due THEN [ShownLog[i] EXCEPT !.erased = TRUE]
                                         ELSE ShownLog[i]
  <2>1. ShownLog[i] = Shown(events[i]) /\ ShownLog'[i] = Shown(events'[i])
    BY <1>1 DEF ShownLog
  <2>2. CASE i \in due
    <3>1. events'[i] = [events[i] EXCEPT !.body = "erased"]
      BY <1>1, <2>2
    <3>2. Shown(events'[i]) = [Shown(events[i]) EXCEPT !.erased = TRUE]
      <4> DEFINE r == events[i]
                 spine == [kind |-> r.kind, class |-> r.class, stamp |-> r.stamp,
                           link |-> r.link]
      <4>1. /\ events'[i].kind = r.kind /\ events'[i].class = r.class
            /\ events'[i].stamp = r.stamp /\ events'[i].link = r.link
            /\ events'[i].body = "erased"
        BY <1>2, <3>1 DEF Records
      <4>2. Shown(events'[i]) = [spine |-> spine, erased |-> TRUE]
        BY <4>1 DEF Shown
      <4>3. [Shown(r) EXCEPT !.erased = TRUE] = [spine |-> spine, erased |-> TRUE]
        <5>1. PICK b : Shown(r) = [spine |-> spine, erased |-> b]
          BY DEF Shown
        <5> HIDE DEF spine
        <5>2. [[spine |-> spine, erased |-> b] EXCEPT !.erased = TRUE]
                = [spine |-> spine, erased |-> TRUE]
          BY SetErased
        <5> QED BY <5>1, <5>2
      <4> QED BY <4>2, <4>3
    <3> QED BY <2>1, <2>2, <3>2
  <2>3. CASE i \notin due
    BY <1>1, <2>1, <2>3
  <2> QED BY <2>2, <2>3
<1>6. ShownLog' = [i \in DOMAIN ShownLog |->
                     IF i \in due THEN [ShownLog[i] EXCEPT !.erased = TRUE]
                                  ELSE ShownLog[i]]
  BY <1>3, <1>4, <1>5 DEF ShownLog
<1> QED BY <1>3, <1>6 DEF ShownErase

LEMMA AlterHidden ==
  ASSUME TypeOK, NEW i \in DOMAIN events, Alter(i)
  PROVE  ShownLog' = ShownLog
<1>1. /\ events \in Seq(Records) /\ events[i].body = "written"
      /\ events' = [events EXCEPT ![i].body = "altered"]
  BY DEF TypeOK, Alter
<1>2. \A j \in DOMAIN events : events[j] \in Records
  BY <1>1, RowType
<1>3. DOMAIN events' = DOMAIN events
  BY <1>1
<1>4. ASSUME NEW j \in DOMAIN events PROVE Shown(events'[j]) = Shown(events[j])
  <2>1. CASE j = i
    <3>1. events'[j] = [events[j] EXCEPT !.body = "altered"]
      BY <1>1, <2>1
    <3> QED BY <1>1, <1>2, <2>1, <3>1 DEF Shown, Records
  <2>2. CASE j # i
    BY <1>1, <2>2
  <2> QED BY <2>1, <2>2
<1> QED BY <1>3, <1>4 DEF ShownLog

\* modules/memory.py is an append-only log: whatever the writers do, and
\* whatever is damaged behind their back, rows are only added at the end, their
\* spine never changes and a payload is only ever nullified.
THEOREM TrailIsAppendOnly == Spec => ImplementsAppendOnlyLog
<1>1. Init => AppendOnlyLog!Init
  <2> SUFFICES ASSUME Init PROVE AppendOnlyLog!Init
    OBVIOUS
  <2>1. DOMAIN events = {}
    BY EmptySeq DEF Init
  <2> QED BY <2>1 DEF AppendOnlyLog!Init
<1>2. TypeOK /\ [Next]_vars =>
        ShownAppend \/ ShownErase \/ ShownLog' = ShownLog
  <2> SUFFICES ASSUME TypeOK, [Next]_vars
               PROVE  ShownAppend \/ ShownErase \/ ShownLog' = ShownLog
    OBVIOUS
  <2>1. ASSUME NEW w \in Writers, Insert(w) PROVE ShownAppend
    BY <2>1, InsertAppends
  <2>2. ASSUME NEW w \in Writers, NEW days \in 0 .. MaxTime, Prune(w, days)
        PROVE  ShownErase
    BY <2>2, PruneErases
  <2>3. ASSUME NEW i \in DOMAIN events, Alter(i) PROVE ShownLog' = ShownLog
    BY <2>3, AlterHidden
  <2>4. events' = events => ShownLog' = ShownLog
    BY DEF ShownLog
  <2>5. ASSUME NEW w \in Writers,
               \/ \E c \in Levels : Record(w, c)
               \/ \E c \in QueryLevels : Query(w, c) \/ Export(w, c)
               \/ ReadTail(w) \/ Page(w) \/ Turn(w) \/ Done(w) \/ Crash(w)
        PROVE  events' = events
    BY <2>5 DEF Record, Query, Export, ReadTail, Page, Turn, Done, Crash
  <2>6. Tick \/ UNCHANGED vars => events' = events
    BY DEF Tick, vars
  <2> QED BY <2>1, <2>2, <2>3, <2>4, <2>5, <2>6 DEF Next
<1>3. ShownAppend <=> AppendOnlyLog!AppendOne
  BY DEF ShownAppend, ShownLog, Shown, ShownSpine, AppendOnlyLog!AppendOne
<1>4. ShownErase <=> AppendOnlyLog!Erase
  BY DEF ShownErase, ShownLog, Shown, AppendOnlyLog!Erase
<1>5. TypeOK /\ [Next]_vars =>
        [AppendOnlyLog!Next]_([i \in DOMAIN events |->
                [spine  |-> [kind  |-> events[i].kind,
                             class |-> events[i].class,
                             stamp |-> events[i].stamp,
                             link  |-> events[i].link],
                 erased |-> events[i].body = "erased"]])
  BY <1>2, <1>3, <1>4 DEF ShownLog, Shown, AppendOnlyLog!Next
<1> QED BY <1>1, <1>5, TypeCorrect, PTL
       DEF Spec, ImplementsAppendOnlyLog, AppendOnlyLog!Spec

===============================================================================
