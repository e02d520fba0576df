--------------------------- MODULE Federation_Proofs ---------------------------
(***************************************************************************)
(* Proofs about FedConsent, FedExchange, FedNode and Crdt, for any         *)
(* operators, peers, items, replicas and bounds.                           *)
(*                                                                         *)
(* FedExchange and FedNode both contain the steps of FedConsent.  What     *)
(* those steps keep (ConsentInv) is proved once, of every kind of step     *)
(* they can be part of: a step that grants nothing is Quiet, whatever else *)
(* the node does in it.                                                    *)
(***************************************************************************)
EXTENDS FedExchange, FedNode, Crdt, SequenceTheorems, FiniteSetTheorems,
        WellFoundedInduction, TLAPS

-------------------------------------------------------------------------------
(* Least elements *)

\* A set of numbers has a least one: the proper subsets of a finite set are
\* well-founded, and a number stands for the interval below it.
LEMMA LeastNat ==
  ASSUME NEW S \in SUBSET Nat, S # {}
  PROVE  \E n \in S : \A m \in S : n <= m
<1> DEFINE Below == {1 .. n : n \in S}
<1>1. \A n \in S : 1 .. n \in FiniteSubsetsOf(Nat)
  BY FS_Interval DEF FiniteSubsetsOf
<1>2. Below \subseteq FiniteSubsetsOf(Nat) /\ Below # {}
  BY <1>1
<1>3. PICK x \in Below : \A y \in Below : ~(<<y, x>> \in StrictSubsetOrdering(Nat))
  <2> HIDE DEF Below
  <2> QED
    BY <1>2, WFMin, FS_StrictSubsetOrderingWellFounded
<1>4. PICK n \in S : x = 1 .. n
  BY <1>3
<1>5. ASSUME NEW m \in S, m < n PROVE FALSE
  <2>1. 1 .. m \in Below
    OBVIOUS
  <2>2. <<1 .. m, x>> \in (SUBSET Nat) \X (SUBSET Nat)
    BY <1>4
  <2>3. 1 .. m \subseteq x /\ n \in x /\ n \notin 1 .. m
    BY <1>4, <1>5
  <2>4. <<1 .. m, x>> \in StrictSubsetOrdering(Nat)
    BY <2>2, <2>3 DEF StrictSubsetOrdering
  <2> QED
    BY <2>1, <2>4, <1>3
<1> QED
  BY <1>5

\* A strictly increasing map of 1 .. n to itself moves nothing.
LEMMA IncreasingIsIdentity ==
  ASSUME NEW n \in Nat, NEW f \in [1 .. n -> 1 .. n],
         \A i, j \in 1 .. n : i < j => f[i] < f[j]
  PROVE  \A i \in 1 .. n : f[i] = i
<1> DEFINE Down == {i \in 1 .. n : f[i] < i}
           Up   == {n - i : i \in {j \in 1 .. n : f[j] > j}}
<1>1. ASSUME Down # {} PROVE FALSE
  <2>1. PICK i \in Down : \A j \in Down : i <= j
    BY <1>1, LeastNat, Down \in SUBSET Nat
  <2>2. f[i] \in 1 .. n /\ f[i] < i /\ f[f[i]] < f[i]
    BY <2>1
  <2> QED
    BY <2>1, <2>2
<1>2. ASSUME Up # {} PROVE FALSE
  <2>1. Up \in SUBSET Nat
    OBVIOUS
  <2>2. PICK k \in Up : \A j \in Up : k <= j
    <3> HIDE DEF Up
    <3> QED
      BY <1>2, <2>1, LeastNat
  <2>3. PICK i \in 1 .. n : f[i] > i /\ k = n - i
    BY <2>2
  <2>4. f[i] \in 1 .. n /\ f[f[i]] > f[i]
    BY <2>3
  <2>5. n - f[i] \in Up
    BY <2>4
  <2>6. k <= n - f[i]
    BY <2>2, <2>5
  <2> HIDE DEF Up
  <2> QED
    BY <2>3, <2>4, <2>6
<1>3. \A i \in 1 .. n : f[i] \in 1 .. n /\ ~(f[i] < i) /\ ~(f[i] > i)
  BY <1>1, <1>2
<1> QED
  BY <1>3

-------------------------------------------------------------------------------
(* The inductive invariant of the consents *)

ConsentTyped ==
  /\ consents \in Seq(Consents) /\ clock \in 0 .. MaxTime /\ overlapped \in BOOLEAN
  /\ DOMAIN pc = Operators /\ DOMAIN frame = Operators

\* What an operator inside a call knows: the row it is about to insert, or a row
\* that is in the table and stays there.
ConsentKnows(o) ==
  /\ pc[o] \in {"latest", "insert"} =>
       frame[o] \in [id : {0}, row : Consents] /\ frame[o].row.granted <= clock
  /\ pc[o] \in {"revoke", "reconfirm"} => frame[o].id \in DOMAIN consents
  /\ pc[o] = "revoke" => frame[o].next \in {"idle", "notify"}

Granted(i) == consents[i].granted

\* No two grants read the same time.
TimesDiffer ==
  /\ \A i \in DOMAIN consents : Granted(i) <= clock
  /\ \A i, j \in DOMAIN consents : i # j => Granted(i) # Granted(j)
  /\ \A o \in Granting : \A i \in DOMAIN consents : Granted(i) # frame[o].row.granted
  /\ \A o, q \in Granting : o # q => frame[o].row.granted # frame[q].row.granted

\* So the rows have an order by time, which ByTime chooses.
Sorts(order) ==
  /\ order \in [DOMAIN consents -> DOMAIN consents]
  /\ \A i, j \in DOMAIN consents : i < j => Granted(order[i]) < Granted(order[j])

HasOrder == \E order \in [DOMAIN consents -> DOMAIN consents] : Sorts(order)

RoomForGrants ==
  IsFiniteSet(Granting) /\ Len(consents) + Cardinality(Granting) <= MaxConsents

HashBefore(i) == IF i = 1 THEN NoHash ELSE consents[i - 1].hash

\* What grants that never overlapped leave: rows in the order of time, each with
\* the hash of the one before it, and at most one more on its way.
InTurn ==
  /\ \A o, q \in Granting : o = q
  /\ \A i, j \in DOMAIN consents : i < j => Granted(i) < Granted(j)
  /\ \A o \in Granting : \A i \in DOMAIN consents : Granted(i) < frame[o].row.granted
  /\ \A i \in DOMAIN consents : consents[i].hash = ChainHash(HashBefore(i), Granted(i))
  /\ \A o \in Operators : pc[o] = "insert" =>
       frame[o].row.hash = ChainHash(HashBefore(Len(consents) + 1), frame[o].row.granted)

ConsentInv ==
  /\ ConsentTyped
  /\ \A o \in Operators : ConsentKnows(o)
  /\ TimesDiffer /\ HasOrder /\ RoomForGrants
  /\ ~overlapped => InTurn

-------------------------------------------------------------------------------
(* What the rows say, by time *)

LEMMA RowFacts ==
  ASSUME ConsentTyped
  PROVE  /\ Len(consents) \in Nat /\ DOMAIN consents = 1 .. Len(consents)
         /\ \A i \in DOMAIN consents :
              consents[i] \in Consents /\ Granted(i) \in Nat /\ consents[i].hash \in Hashes
<1>1. Len(consents) \in Nat /\ DOMAIN consents = 1 .. Len(consents)
  BY LenProperties DEF ConsentTyped
<1>2. \A i \in DOMAIN consents : consents[i] \in Consents
  BY <1>1, ElementOfSeq DEF ConsentTyped
<1>3. \A i \in DOMAIN consents : consents[i].granted \in Nat /\ consents[i].hash \in Hashes
  BY <1>2 DEF Consents
<1> QED
  BY <1>1, <1>2, <1>3 DEF Granted

LEMMA ByTimeSorts ==
  ASSUME ConsentTyped, HasOrder
  PROVE  Sorts(ByTime)
<1>1. DOMAIN consents = 1 .. Len(consents)
  BY RowFacts
<1>2. PICK order \in [1 .. Len(consents) -> 1 .. Len(consents)] :
        \A i, j \in 1 .. Len(consents) :
          i < j => consents[order[i]].granted < consents[order[j]].granted
  BY <1>1 DEF HasOrder, Sorts, Granted
<1>3. \A i, j \in DOMAIN order :
        i < j => consents[order[i]].granted < consents[order[j]].granted
  BY <1>2
<1>4. /\ ByTime \in [1 .. Len(consents) -> 1 .. Len(consents)]
      /\ \A i, j \in DOMAIN ByTime :
           i < j => consents[ByTime[i]].granted < consents[ByTime[j]].granted
  BY <1>3 DEF ByTime
<1> QED
  BY <1>1, <1>4 DEF Sorts, Granted

LEMMA LatestHashTyped ==
  ASSUME ConsentTyped, HasOrder
  PROVE  LatestHash \in Hashes
<1>1. CASE consents = <<>>
  BY <1>1 DEF LatestHash, NoHash, Hashes
<1>2. CASE consents # <<>>
  <2>1. Len(consents) \in DOMAIN consents
    BY <1>2, RowFacts, EmptySeq DEF ConsentTyped
  <2>2. ByTime[Len(consents)] \in DOMAIN consents
    BY <2>1, ByTimeSorts DEF Sorts
  <2> QED
    BY <1>2, <2>2, RowFacts DEF LatestHash
<1> QED
  BY <1>1, <1>2

\* Rows inserted in the order of time are where ByTime puts them.
LEMMA InTurnByTime ==
  ASSUME ConsentTyped, HasOrder,
         \A i, j \in DOMAIN consents : i < j => Granted(i) < Granted(j)
  PROVE  \A i \in DOMAIN consents : ByTime[i] = i
<1>1. /\ Len(consents) \in Nat /\ DOMAIN consents = 1 .. Len(consents)
      /\ \A i \in DOMAIN consents : Granted(i) \in Nat
  BY RowFacts
<1>2. ByTime \in [1 .. Len(consents) -> 1 .. Len(consents)]
  BY <1>1, ByTimeSorts DEF Sorts
<1>3. ASSUME NEW i \in 1 .. Len(consents), NEW j \in 1 .. Len(consents), i < j
      PROVE  ByTime[i] < ByTime[j]
  <2>1. ByTime[i] \in 1 .. Len(consents) /\ ByTime[j] \in 1 .. Len(consents)
    BY <1>2
  <2>2. Granted(ByTime[i]) < Granted(ByTime[j])
    BY <1>1, <1>3, ByTimeSorts DEF Sorts
  <2>3. ByTime[j] < ByTime[i] => Granted(ByTime[j]) < Granted(ByTime[i])
    BY <1>1, <2>1
  <2> QED
    BY <1>1, <2>1, <2>2, <2>3
<1> HIDE DEF ConsentTyped
<1> QED
  BY <1>1, <1>2, <1>3, IncreasingIsIdentity

LEMMA LatestHashInTurn ==
  ASSUME ConsentTyped, HasOrder,
         \A i, j \in DOMAIN consents : i < j => Granted(i) < Granted(j)
  PROVE  LatestHash = HashBefore(Len(consents) + 1)
<1>1. Len(consents) \in Nat /\ DOMAIN consents = 1 .. Len(consents)
  BY RowFacts
<1>2. CASE consents = <<>>
  BY <1>2 DEF LatestHash, HashBefore
<1>3. CASE consents # <<>>
  <2>1. Len(consents) # 0
    BY <1>3, EmptySeq DEF ConsentTyped
  <2>2. ByTime[Len(consents)] = Len(consents)
    BY <1>1, <2>1, InTurnByTime
  <2> QED
    BY <1>1, <1>3, <2>1, <2>2 DEF LatestHash, HashBefore
<1> QED
  BY <1>2, <1>3

LEMMA InTurnIsIntact ==
  ASSUME ConsentTyped, HasOrder, InTurn
  PROVE  ChainIntact
<1>1. \A i \in DOMAIN consents : ByTime[i] = i
  BY InTurnByTime DEF InTurn
<1>2. DOMAIN consents = 1 .. Len(consents) /\ Len(consents) \in Nat
  BY RowFacts
<1>3. SUFFICES ASSUME NEW i \in DOMAIN consents
      PROVE consents[ByTime[i]].hash =
              ChainHash(IF i = 1 THEN NoHash ELSE consents[ByTime[i - 1]].hash,
                        consents[ByTime[i]].granted)
  BY DEF ChainIntact
<1>4. i # 1 => i - 1 \in DOMAIN consents
  BY <1>2
<1>5. consents[i].hash = ChainHash(HashBefore(i), Granted(i))
  BY DEF InTurn
<1> QED
  BY <1>1, <1>4, <1>5 DEF HashBefore, Granted

-------------------------------------------------------------------------------
(* Steps that grant nothing *)

\* Operator o goes on where it was, leaves the consents, or is about to update a row.
Idles(o) ==
  \/ pc'[o] = pc[o] /\ frame'[o] = frame[o]
  \/ pc'[o] \notin ConsentPCs
  \/ pc'[o] = "reconfirm" /\ frame'[o].id \in DOMAIN consents
  \/ pc'[o] = "revoke" /\ frame'[o].id \in DOMAIN consents /\ frame'[o].next \in {"idle", "notify"}

\* Rows keep their time and their hash.
RowsAmended ==
  /\ consents' \in Seq(Consents) /\ Len(consents') = Len(consents)
  /\ \A i \in DOMAIN consents :
       consents'[i].granted = consents[i].granted /\ consents'[i].hash = consents[i].hash

Quiet ==
  /\ DOMAIN pc' = Operators /\ DOMAIN frame' = Operators
  /\ \A o \in Operators : Idles(o)
  /\ RowsAmended
  /\ clock' \in 0 .. MaxTime /\ clock <= clock' /\ overlapped' = overlapped

\* Who is granting after a quiet step was granting before, with the same row.
LEMMA QuietGranting ==
  ASSUME Quiet
  PROVE  /\ Granting' \subseteq Granting
         /\ \A o \in Granting' : pc'[o] = pc[o] /\ frame'[o] = frame[o]
  BY DEF Quiet, Idles, ConsentPCs, Granting

LEMMA QuietRows ==
  ASSUME ConsentTyped, Quiet
  PROVE  /\ DOMAIN consents' = DOMAIN consents
         /\ \A i \in DOMAIN consents : Granted(i)' = Granted(i)
<1>1. DOMAIN consents = 1 .. Len(consents) /\ DOMAIN consents' = 1 .. Len(consents')
  BY LenProperties DEF ConsentTyped, Quiet, RowsAmended
<1> QED
  BY <1>1 DEF Quiet, RowsAmended, Granted

LEMMA QuietKnows ==
  ASSUME ConsentTyped, Quiet, NEW o \in Operators, ConsentKnows(o)
  PROVE  ConsentKnows(o)'
<1>1. DOMAIN consents' = DOMAIN consents /\ clock <= clock' /\ clock' \in Nat /\ clock \in Nat
  BY QuietRows DEF Quiet, ConsentTyped
<1>2. CASE pc'[o] = pc[o] /\ frame'[o] = frame[o]
  <2>1. frame[o] \in [id : {0}, row : Consents] => frame[o].row.granted \in Nat
    BY DEF Consents
  <2> QED
    BY <1>1, <1>2, <2>1 DEF ConsentKnows
<1>3. CASE ~(pc'[o] = pc[o] /\ frame'[o] = frame[o])
  BY <1>1, <1>3 DEF ConsentKnows, Quiet, Idles, ConsentPCs
<1> QED
  BY <1>2, <1>3

LEMMA QuietTimes ==
  ASSUME ConsentTyped, Quiet, TimesDiffer
  PROVE  TimesDiffer'
<1>1. /\ DOMAIN consents' = DOMAIN consents
      /\ \A i \in DOMAIN consents : Granted(i)' = Granted(i) /\ Granted(i) \in Nat
  BY QuietRows, RowFacts
<1>2. clock <= clock' /\ clock \in Nat /\ clock' \in Nat
  BY DEF Quiet, ConsentTyped
<1>3. \A i \in DOMAIN consents' : Granted(i)' <= clock'
  BY <1>1, <1>2 DEF TimesDiffer
<1>4. \A i, j \in DOMAIN consents' : i # j => Granted(i)' # Granted(j)'
  BY <1>1 DEF TimesDiffer
<1>5. \A o \in Granting' : \A i \in DOMAIN consents' : Granted(i)' # frame'[o].row.granted
  BY <1>1, QuietGranting DEF TimesDiffer
<1>6. \A o, q \in Granting' : o # q => frame'[o].row.granted # frame'[q].row.granted
  BY QuietGranting DEF TimesDiffer
<1> QED
  BY <1>3, <1>4, <1>5, <1>6 DEF TimesDiffer

LEMMA QuietOrder ==
  ASSUME ConsentTyped, Quiet, HasOrder
  PROVE  HasOrder'
<1>1. /\ DOMAIN consents' = DOMAIN consents
      /\ \A i \in DOMAIN consents : Granted(i)' = Granted(i)
  BY QuietRows
<1>2. PICK order \in [DOMAIN consents -> DOMAIN consents] : Sorts(order)
  BY DEF HasOrder
<1>3. Sorts(order)'
  <2>1. \A i \in DOMAIN consents : order[i] \in DOMAIN consents
    OBVIOUS
  <2>2. \A i, j \in DOMAIN consents : i < j => Granted(order[i])' < Granted(order[j])'
    BY <1>1, <1>2, <2>1 DEF Sorts
  <2> QED
    BY <1>1, <1>2, <2>2 DEF Sorts
<1> QED
  BY <1>1, <1>3 DEF HasOrder

LEMMA QuietRoom ==
  ASSUME ConsentTyped, Quiet, RoomForGrants
  PROVE  RoomForGrants'
<1>1. IsFiniteSet(Granting') /\ Cardinality(Granting') <= Cardinality(Granting)
  BY QuietGranting, FS_Subset DEF RoomForGrants
<1>2. Cardinality(Granting') \in Nat /\ Cardinality(Granting) \in Nat
  BY <1>1, FS_CardinalityType DEF RoomForGrants
<1>3. Len(consents') = Len(consents) /\ Len(consents) \in Nat
  BY RowFacts DEF Quiet, RowsAmended
<1> QED
  BY <1>1, <1>2, <1>3, ConsentConstants DEF RoomForGrants

LEMMA QuietInTurn ==
  ASSUME ConsentTyped, Quiet, InTurn
  PROVE  InTurn'
<1>1. /\ DOMAIN consents' = DOMAIN consents /\ DOMAIN consents = 1 .. Len(consents)
      /\ Len(consents') = Len(consents) /\ Len(consents) \in Nat
      /\ \A i \in DOMAIN consents : Granted(i)' = Granted(i) /\ consents'[i].hash = consents[i].hash
  BY QuietRows, RowFacts DEF Quiet, RowsAmended
<1>2. \A i \in 1 .. Len(consents) + 1 : HashBefore(i)' = HashBefore(i)
  BY <1>1 DEF HashBefore
<1>3. \A o, q \in Granting' : o = q
  BY QuietGranting DEF InTurn
<1>4. \A i, j \in DOMAIN consents' : i < j => Granted(i)' < Granted(j)'
  BY <1>1 DEF InTurn
<1>5. \A o \in Granting' : \A i \in DOMAIN consents' : Granted(i)' < frame'[o].row.granted
  BY <1>1, QuietGranting DEF InTurn
<1>6. \A i \in DOMAIN consents' : consents'[i].hash = ChainHash(HashBefore(i)', Granted(i)')
  BY <1>1, <1>2 DEF InTurn
<1>7. ASSUME NEW o \in Operators, pc'[o] = "insert"
      PROVE  frame'[o].row.hash =
               ChainHash(HashBefore(Len(consents) + 1)', frame'[o].row.granted)
  <2>1. pc'[o] = pc[o] /\ frame'[o] = frame[o]
    BY <1>7, QuietGranting DEF Granting
  <2>2. HashBefore(Len(consents) + 1)' = HashBefore(Len(consents) + 1)
    BY <1>1 DEF HashBefore
  <2> QED
    BY <1>7, <2>1, <2>2 DEF InTurn
<1> QED
  BY <1>3, <1>4, <1>5, <1>6, <1>7 DEF InTurn

LEMMA QuietKeeps ==
  ASSUME ConsentInv, Quiet
  PROVE  ConsentInv'
<1>1. ConsentTyped'
  BY DEF ConsentInv, ConsentTyped, Quiet, RowsAmended
<1>2. \A o \in Operators : ConsentKnows(o)'
  BY QuietKnows DEF ConsentInv
<1>3. TimesDiffer' /\ HasOrder' /\ RoomForGrants'
  BY QuietTimes, QuietOrder, QuietRoom DEF ConsentInv
<1>4. ~overlapped' => InTurn'
  BY QuietInTurn DEF ConsentInv, Quiet
<1> QED
  BY <1>1, <1>2, <1>3, <1>4 DEF ConsentInv

-------------------------------------------------------------------------------
(* grant() *)

LEMMA GotoFacts ==
  ASSUME DOMAIN pc = Operators, DOMAIN frame = Operators,
         NEW o \in Operators, NEW label, NEW f, Goto(o, label, f)
  PROVE  /\ DOMAIN pc' = Operators /\ DOMAIN frame' = Operators
         /\ pc'[o] = label /\ frame'[o] = f
         /\ \A q \in Operators \ {o} : pc'[q] = pc[q] /\ frame'[q] = frame[q]
  BY DEF Goto

LEMMA GrantedRow ==
  ASSUME ConsentTyped, NEW p \in Peers, NEW life \in Lifetimes, clock < MaxTime, NEW row,
         row = [peer |-> p, granted |-> clock + 1,
                expires |-> IF life = Forever THEN Forever ELSE clock + 1 + life,
                confirmed |-> clock + 1, revoked |-> FALSE, hash |-> NoHash]
  PROVE  row \in Consents /\ row.granted = clock + 1
<1>1. clock + 1 \in Nat
  BY ConsentConstants DEF ConsentTyped
<1>2. (IF life = Forever THEN Forever ELSE clock + 1 + life) \in Nat \cup {Forever}
  BY <1>1, ConsentConstants DEF Forever
<1>3. NoHash \in Hashes
  BY DEF NoHash, Hashes
<1> QED
  BY <1>1, <1>2, <1>3 DEF Consents

LEMMA GrantKeeps ==
  ASSUME ConsentInv, NEW o \in Operators, NEW p \in Peers, NEW life \in Lifetimes,
         Grant(o, p, life)
  PROVE  ConsentInv'
<1> DEFINE row == [peer |-> p, granted |-> clock + 1,
                   expires |-> IF life = Forever THEN Forever ELSE clock + 1 + life,
                   confirmed |-> clock + 1, revoked |-> FALSE, hash |-> NoHash]
<1>1. /\ pc[o] = "idle" /\ clock < MaxTime /\ clock' = clock + 1 /\ consents' = consents
      /\ overlapped' = (overlapped \/ Granting # {})
      /\ Len(consents) + Cardinality(Granting) < MaxConsents
      /\ Goto(o, "latest", [id |-> 0, row |-> row])
  BY DEF Grant
<1>2. row \in Consents /\ row.granted = clock + 1
  BY <1>1, GrantedRow DEF ConsentInv
<1> HIDE DEF row
<1>3. /\ DOMAIN pc' = Operators /\ DOMAIN frame' = Operators
      /\ pc'[o] = "latest" /\ frame'[o] = [id |-> 0, row |-> row] /\ frame'[o].row = row
      /\ \A q \in Operators \ {o} : pc'[q] = pc[q] /\ frame'[q] = frame[q]
  BY <1>1, GotoFacts DEF ConsentInv, ConsentTyped
<1>4. clock \in 0 .. MaxTime /\ clock \in Nat /\ clock' \in 0 .. MaxTime /\ clock' \in Nat
  BY <1>1, ConsentConstants DEF ConsentInv, ConsentTyped
<1>5. Granting' = Granting \cup {o} /\ o \notin Granting
  BY <1>1, <1>3 DEF Granting
<1>6. ConsentTyped'
  BY <1>1, <1>3, <1>4 DEF ConsentInv, ConsentTyped
<1>7. ASSUME NEW q \in Operators PROVE ConsentKnows(q)'
  <2>1. CASE q = o
    <3>1. frame'[o] \in [id : {0}, row : Consents]
      BY <1>2, <1>3
    <3> QED
      BY <1>1, <1>2, <1>3, <1>4, <2>1, <3>1 DEF ConsentKnows
  <2>2. CASE q # o
    <3>1. pc'[q] = pc[q] /\ frame'[q] = frame[q] /\ ConsentKnows(q)
      BY <1>3, <2>2 DEF ConsentInv
    <3>2. frame[q] \in [id : {0}, row : Consents] => frame[q].row.granted \in Nat
      BY DEF Consents
    <3> QED
      BY <1>1, <1>4, <3>1, <3>2 DEF ConsentKnows
  <2> QED
    BY <2>1, <2>2
<1>8. \A q \in Granting : /\ q \in Operators \ {o} /\ frame[q].row.granted \in Nat
                          /\ frame[q].row.granted <= clock
  <2> SUFFICES ASSUME NEW q \in Granting
      PROVE  /\ q \in Operators \ {o} /\ frame[q].row.granted \in Nat
             /\ frame[q].row.granted <= clock
    OBVIOUS
  <2>1. q \in Operators \ {o} /\ frame[q].row \in Consents /\ frame[q].row.granted <= clock
    BY <1>5 DEF Granting, ConsentInv, ConsentKnows
  <2> QED
    BY <2>1 DEF Consents
<1>9. \A i \in DOMAIN consents : Granted(i)' = Granted(i) /\ Granted(i) \in Nat /\ Granted(i) <= clock
  BY <1>1, RowFacts DEF ConsentInv, TimesDiffer, Granted
<1>10. TimesDiffer'
  <2>1. \A i \in DOMAIN consents' : Granted(i)' <= clock'
    BY <1>1, <1>4, <1>9
  <2>2. \A i, j \in DOMAIN consents' : i # j => Granted(i)' # Granted(j)'
    BY <1>1, <1>9 DEF ConsentInv, TimesDiffer
  <2>3. \A q \in Granting' : \A i \in DOMAIN consents' : Granted(i)' # frame'[q].row.granted
    <3>1. \A i \in DOMAIN consents : Granted(i)' # clock + 1
      BY <1>4, <1>9
    <3>2. \A q \in Granting : \A i \in DOMAIN consents : Granted(i)' # frame'[q].row.granted
      BY <1>3, <1>8, <1>9 DEF ConsentInv, TimesDiffer
    <3> QED
      BY <1>1, <1>2, <1>3, <1>5, <3>1, <3>2
  <2>4. \A q, r \in Granting' : q # r => frame'[q].row.granted # frame'[r].row.granted
    <3>1. \A q \in Granting : frame'[q].row.granted # frame'[o].row.granted
      BY <1>2, <1>3, <1>4, <1>8
    <3>2. \A q, r \in Granting : q # r => frame'[q].row.granted # frame'[r].row.granted
      BY <1>3, <1>8 DEF ConsentInv, TimesDiffer
    <3> QED
      BY <1>5, <3>1, <3>2
  <2> QED
    BY <2>1, <2>2, <2>3, <2>4 DEF TimesDiffer
<1>11. HasOrder'
  BY <1>1 DEF ConsentInv, HasOrder, Sorts, Granted
<1>12. RoomForGrants'
  <2>1. IsFiniteSet(Granting) /\ Cardinality(Granting) \in Nat /\ Len(consents) \in Nat
    BY FS_CardinalityType, RowFacts DEF ConsentInv, RoomForGrants
  <2>2. IsFiniteSet(Granting') /\ Cardinality(Granting') = Cardinality(Granting) + 1
    BY <1>5, <2>1, FS_AddElement
  <2> QED
    BY <1>1, <2>1, <2>2, ConsentConstants DEF RoomForGrants
<1>13. ASSUME ~overlapped' PROVE InTurn'
  <2>1. ~overlapped /\ Granting = {} /\ Granting' = {o} /\ InTurn
    BY <1>1, <1>5, <1>13 DEF ConsentInv, ConsentTyped
  <2>2. \A q, r \in Granting' : q = r
    BY <2>1
  <2>3. \A i, j \in DOMAIN consents' : i < j => Granted(i)' < Granted(j)'
    BY <1>1, <1>9, <2>1 DEF InTurn
  <2>4. \A q \in Granting' : \A i \in DOMAIN consents' : Granted(i)' < frame'[q].row.granted
    BY <1>1, <1>2, <1>3, <1>4, <1>9, <2>1
  <2>5. \A i \in DOMAIN consents' : consents'[i].hash = ChainHash(HashBefore(i)', Granted(i)')
    BY <1>1, <2>1 DEF InTurn, HashBefore, Granted
  <2>6. \A q \in Operators : pc'[q] # "insert"
    BY <1>3, <2>1 DEF Granting
  <2> QED
    BY <2>2, <2>3, <2>4, <2>5, <2>6 DEF InTurn
<1> QED
  BY <1>6, <1>7, <1>10, <1>11, <1>12, <1>13 DEF ConsentInv

LEMMA ReadLatestKeeps ==
  ASSUME ConsentInv, NEW o \in Operators, ReadLatest(o)
  PROVE  ConsentInv'
<1> DEFINE hash == ChainHash(LatestHash, frame[o].row.granted)
<1>1. /\ pc[o] = "latest" /\ Goto(o, "insert", [frame[o] EXCEPT !.row.hash = hash])
      /\ consents' = consents /\ clock' = clock /\ overlapped' = overlapped
  BY DEF ReadLatest
<1>2. frame[o] \in [id : {0}, row : Consents] /\ frame[o].row.granted <= clock
  BY <1>1 DEF ConsentInv, ConsentKnows
<1>3. frame[o].row.granted \in Nat
  BY <1>2 DEF Consents
<1>4. hash \in Hashes
  BY <1>3, LatestHashTyped, AppendProperties DEF ConsentInv, ChainHash, Hashes
<1> HIDE DEF hash
<1>5. /\ [frame[o] EXCEPT !.row.hash = hash] \in [id : {0}, row : Consents]
      /\ [frame[o] EXCEPT !.row.hash = hash].row.granted = frame[o].row.granted
      /\ [frame[o] EXCEPT !.row.hash = hash].row.hash = hash
  BY <1>2, <1>4 DEF Consents
<1>6. /\ DOMAIN pc' = Operators /\ DOMAIN frame' = Operators
      /\ pc'[o] = "insert" /\ frame'[o] \in [id : {0}, row : Consents]
      /\ frame'[o].row.granted = frame[o].row.granted /\ frame'[o].row.hash = hash
      /\ \A q \in Operators \ {o} : pc'[q] = pc[q] /\ frame'[q] = frame[q]
  <2>1. DOMAIN pc = Operators /\ DOMAIN frame = Operators
    BY DEF ConsentInv, ConsentTyped
  <2>2. /\ DOMAIN pc' = Operators /\ DOMAIN frame' = Operators
        /\ pc'[o] = "insert" /\ frame'[o] = [frame[o] EXCEPT !.row.hash = hash]
        /\ \A q \in Operators \ {o} : pc'[q] = pc[q] /\ frame'[q] = frame[q]
    BY <1>1, <2>1, GotoFacts
  <2> QED
    BY <1>5, <2>2
<1>7. /\ Granting' = Granting /\ o \in Granting
      /\ \A q \in Granting : frame'[q].row.granted = frame[q].row.granted
  BY <1>1, <1>6 DEF Granting
<1>8. ConsentTyped'
  BY <1>1, <1>6 DEF ConsentInv, ConsentTyped
<1>9. ASSUME NEW q \in Operators PROVE ConsentKnows(q)'
  <2>1. CASE q = o
    BY <1>1, <1>2, <1>6, <2>1 DEF ConsentKnows
  <2>2. CASE q # o
    BY <1>1, <1>6, <2>2 DEF ConsentInv, ConsentKnows
  <2> QED
    BY <2>1, <2>2
<1>10. TimesDiffer'
  BY <1>1, <1>7 DEF ConsentInv, TimesDiffer, Granted
<1>11. HasOrder' /\ RoomForGrants'
  BY <1>1, <1>7 DEF ConsentInv, HasOrder, Sorts, Granted, RoomForGrants
<1>12. ASSUME ~overlapped' PROVE InTurn'
  <2>1. InTurn
    BY <1>1, <1>12 DEF ConsentInv
  <2>2. hash = ChainHash(HashBefore(Len(consents) + 1), frame[o].row.granted)
    BY <2>1, LatestHashInTurn DEF ConsentInv, InTurn, hash
  <2>3. \A q \in Operators : pc'[q] = "insert" => q = o
    BY <1>7, <2>1 DEF InTurn, Granting
  <2>4. \A q \in Operators : pc'[q] = "insert" =>
          frame'[q].row.hash = ChainHash(HashBefore(Len(consents) + 1), frame'[q].row.granted)
    BY <1>6, <2>2, <2>3
  <2>5. \A q, r \in Granting' : q = r
    BY <1>7, <2>1 DEF InTurn
  <2>6. \A q \in Granting' : \A i \in DOMAIN consents : Granted(i)' < frame'[q].row.granted
    BY <1>1, <1>7, <2>1 DEF InTurn, Granted
  <2>7. /\ \A i, j \in DOMAIN consents : i < j => Granted(i)' < Granted(j)'
        /\ \A i \in DOMAIN consents : consents'[i].hash = ChainHash(HashBefore(i)', Granted(i)')
        /\ HashBefore(Len(consents) + 1)' = HashBefore(Len(consents) + 1)
    BY <1>1, <2>1 DEF InTurn, Granted, HashBefore
  <2> QED
    BY <1>1, <2>4, <2>5, <2>6, <2>7 DEF InTurn
<1> QED
  BY <1>8, <1>9, <1>10, <1>11, <1>12 DEF ConsentInv

\* A row whose time no other row has goes to its place in the order.
LEMMA InsertOrder ==
  ASSUME ConsentTyped, HasOrder, NEW row \in Consents,
         consents' = Append(consents, row),
         \A i \in DOMAIN consents : Granted(i) # row.granted
  PROVE  HasOrder'
<1> DEFINE g == row.granted
<1>0. PICK n \in Nat : n = Len(consents)
  BY RowFacts
<1>1. /\ n \in Nat /\ DOMAIN consents = 1 .. n
      /\ \A i \in DOMAIN consents : Granted(i) \in Nat
  BY <1>0, RowFacts
<1>2. g \in Nat
  BY DEF Consents
<1>3. /\ Len(consents') = n + 1 /\ DOMAIN consents' = 1 .. n + 1
      /\ \A i \in 1 .. n : consents'[i] = consents[i]
      /\ consents'[n + 1] = row
  BY <1>0, AppendProperties DEF ConsentTyped
<1>4. \A i \in 1 .. n : Granted(i)' = Granted(i)
  BY <1>3 DEF Granted
<1>5. Granted(n + 1)' = g
  BY <1>3 DEF Granted
<1>6. PICK order \in [1 .. n -> 1 .. n] :
        \A i, j \in 1 .. n : i < j => Granted(order[i]) < Granted(order[j])
  BY <1>1 DEF HasOrder, Sorts
<1> HIDE DEF g
<1> DEFINE After == {k \in 0 .. n : \A i \in 1 .. n : i > k => Granted(order[i]) > g}
<1>7. After \in SUBSET Nat /\ n \in After
  BY <1>1
<1>8. PICK k \in After : \A m \in After : k <= m
  BY <1>7, LeastNat
<1>9. /\ k \in 0 .. n /\ k \in Nat
      /\ \A i \in 1 .. n : i > k => Granted(order[i]) > g
  BY <1>8
<1>10. \A i \in 1 .. n : order[i] \in 1 .. n /\ Granted(order[i]) \in Nat /\ Granted(order[i]) # g
  BY <1>1, <1>6 DEF g
<1>11. ASSUME NEW i \in 1 .. n, i <= k PROVE Granted(order[i]) < g
  <2>1. k - 1 \in 0 .. n /\ k - 1 < k
    BY <1>1, <1>9, <1>11
  <2>2. k - 1 \notin After
    <3> HIDE DEF After
    <3> QED
      BY <1>8, <1>9, <2>1
  <2>3. PICK j \in 1 .. n : j > k - 1 /\ ~(Granted(order[j]) > g)
    BY <2>1, <2>2
  <2> HIDE DEF After
  <2>4. j = k
    BY <1>1, <1>9, <2>3
  <2>5. Granted(order[k]) < g
    BY <1>2, <1>10, <2>3, <2>4
  <2>6. i < k => Granted(order[i]) < Granted(order[k])
    BY <1>6, <2>3, <2>4
  <2>7. Granted(order[i]) \in Nat /\ Granted(order[k]) \in Nat
    BY <1>10, <2>3, <2>4
  <2>8. i < k \/ i = k
    BY <1>9, <1>11
  <2> QED
    BY <1>2, <2>5, <2>6, <2>7, <2>8
<1> HIDE DEF After
<1> DEFINE place == [i \in 1 .. n + 1 |-> IF i <= k THEN order[i]
                                           ELSE IF i = k + 1 THEN n + 1 ELSE order[i - 1]]
<1>12. \A i \in 1 .. n + 1 : /\ i <= k => i \in 1 .. n
                             /\ i > k + 1 => i - 1 \in 1 .. n /\ i - 1 > k
  BY <1>1, <1>9
<1>13. place \in [1 .. n + 1 -> 1 .. n + 1]
  <2>1. \A i \in 1 .. n + 1 : place[i] \in 1 .. n + 1
    BY <1>1, <1>9, <1>10, <1>12
  <2> QED
    BY <2>1
<1>14. ASSUME NEW i \in 1 .. n + 1
       PROVE  /\ i <= k => Granted(place[i])' = Granted(order[i])
              /\ i = k + 1 => Granted(place[i])' = g
              /\ i > k + 1 => Granted(place[i])' = Granted(order[i - 1])
  <2>1. i <= k => place[i] = order[i] /\ i \in 1 .. n
    BY <1>12
  <2>2. i = k + 1 => place[i] = n + 1
    BY <1>9
  <2>3. i > k + 1 => place[i] = order[i - 1] /\ i - 1 \in 1 .. n
    BY <1>9, <1>12
  <2> HIDE DEF place
  <2> QED
    BY <1>3, <1>10, <2>1, <2>2, <2>3 DEF Granted, g
<1>15. ASSUME NEW i \in 1 .. n + 1, NEW j \in 1 .. n + 1, i < j
       PROVE  Granted(place[i])' < Granted(place[j])'
  <2> HIDE DEF place
  <2>1. CASE j <= k
    BY <1>6, <1>9, <1>12, <1>14, <1>15, <2>1
  <2>2. CASE i <= k /\ j = k + 1
    BY <1>9, <1>11, <1>12, <1>14, <1>15, <2>2
  <2>3. CASE i <= k /\ j > k + 1
    <3>1. Granted(order[i]) < Granted(order[j - 1])
      BY <1>6, <1>9, <1>12, <1>15, <2>3
    <3> QED
      BY <1>9, <1>14, <2>3, <3>1
  <2>4. CASE i = k + 1 /\ j > k + 1
    <3>1. j - 1 \in 1 .. n /\ j - 1 > k
      BY <1>12, <2>4
    <3>2. Granted(order[j - 1]) > g /\ Granted(order[j - 1]) \in Nat
      BY <1>9, <1>10, <3>1
    <3>3. Granted(place[i])' = g /\ Granted(place[j])' = Granted(order[j - 1])
      BY <1>14, <2>4
    <3> QED
      BY <1>2, <3>2, <3>3
  <2>5. CASE i > k + 1
    <3>1. j > k + 1 /\ i - 1 < j - 1
      BY <1>9, <1>15, <2>5
    <3>2. Granted(order[i - 1]) < Granted(order[j - 1])
      BY <1>6, <1>12, <2>5, <3>1
    <3> QED
      BY <1>14, <2>5, <3>1, <3>2
  <2> QED
    BY <1>9, <1>15, <2>1, <2>2, <2>3, <2>4, <2>5
<1> HIDE DEF place
<1>16. place \in [DOMAIN consents' -> DOMAIN consents']
  BY <1>3, <1>13
<1>17. \A i, j \in DOMAIN consents' : i < j => Granted(place[i])' < Granted(place[j])'
  BY <1>3, <1>15
<1>18. Sorts(place)'
  BY <1>16, <1>17 DEF Sorts
<1> QED
  BY <1>16, <1>18 DEF HasOrder

LEMMA InsertKeeps ==
  ASSUME ConsentInv, NEW o \in Operators, InsertConsent(o)
  PROVE  ConsentInv'
<1>1. PICK row \in Consents : row = frame[o].row /\ row.granted <= clock
  BY DEF ConsentInv, ConsentKnows, InsertConsent
<1>2. /\ pc[o] = "insert" /\ Goto(o, "idle", NoFrame) /\ consents' = Append(consents, row)
      /\ clock' = clock /\ overlapped' = overlapped
  BY <1>1 DEF InsertConsent
<1>3. PICK n \in Nat : n = Len(consents)
  BY RowFacts DEF ConsentInv
<1>4. /\ DOMAIN consents = 1 .. n /\ n + 1 \in Nat
      /\ \A i \in 1 .. n : Granted(i) \in Nat /\ Granted(i) <= clock
  BY <1>3, RowFacts DEF ConsentInv, TimesDiffer
<1>5. /\ consents' \in Seq(Consents) /\ Len(consents') = n + 1 /\ DOMAIN consents' = 1 .. n + 1
      /\ \A i \in 1 .. n : consents'[i] = consents[i]
      /\ consents'[n + 1] = row
  BY <1>2, <1>3, AppendProperties DEF ConsentInv, ConsentTyped
<1>6. \A i \in 1 .. n : Granted(i)' = Granted(i)
  BY <1>5 DEF Granted
<1>7. Granted(n + 1)' = row.granted /\ row.granted \in Nat
  BY <1>5 DEF Granted, Consents
<1>8. /\ DOMAIN pc' = Operators /\ DOMAIN frame' = Operators /\ pc'[o] = "idle"
      /\ \A q \in Operators \ {o} : pc'[q] = pc[q] /\ frame'[q] = frame[q]
  BY <1>2, GotoFacts DEF ConsentInv, ConsentTyped
<1>9. /\ Granting' = Granting \ {o} /\ o \in Granting
      /\ \A q \in Granting' : q \in Operators \ {o} /\ frame'[q] = frame[q]
  BY <1>2, <1>8 DEF Granting
<1>10. ConsentTyped'
  BY <1>2, <1>5, <1>8 DEF ConsentInv, ConsentTyped
<1>11. ASSUME NEW q \in Operators PROVE ConsentKnows(q)'
  <2>1. CASE q = o
    BY <1>8, <2>1 DEF ConsentKnows
  <2>2. CASE q # o
    <3>1. pc'[q] = pc[q] /\ frame'[q] = frame[q] /\ ConsentKnows(q)
      BY <1>8, <2>2 DEF ConsentInv
    <3> QED
      BY <1>2, <1>4, <1>5, <3>1 DEF ConsentKnows
  <2> QED
    BY <2>1, <2>2
<1>12. \A i \in 1 .. n : Granted(i) # row.granted
  BY <1>1, <1>4, <1>9 DEF ConsentInv, TimesDiffer
<1>13. TimesDiffer'
  <2>1. \A i \in DOMAIN consents' : Granted(i)' <= clock'
    <3>1. \A i \in 1 .. n : Granted(i)' <= clock'
      BY <1>2, <1>4, <1>6
    <3>2. Granted(n + 1)' <= clock'
      BY <1>1, <1>2, <1>7
    <3> QED
      BY <1>5, <3>1, <3>2
  <2>2. \A i, j \in 1 .. n : i # j => Granted(i)' # Granted(j)'
    BY <1>4, <1>6 DEF ConsentInv, TimesDiffer
  <2>3. \A i \in 1 .. n : Granted(i)' # Granted(n + 1)'
    BY <1>6, <1>7, <1>12
  <2>4. \A i, j \in DOMAIN consents' : i # j => Granted(i)' # Granted(j)'
    BY <1>5, <2>2, <2>3
  <2>5. \A q \in Granting' : \A i \in DOMAIN consents' : Granted(i)' # frame'[q].row.granted
    <3>1. \A q \in Granting' : \A i \in 1 .. n : Granted(i)' # frame'[q].row.granted
      BY <1>4, <1>6, <1>9 DEF ConsentInv, TimesDiffer
    <3>2. \A q \in Granting' : Granted(n + 1)' # frame'[q].row.granted
      BY <1>1, <1>7, <1>9 DEF ConsentInv, TimesDiffer
    <3> QED
      BY <1>5, <3>1, <3>2
  <2>6. \A q, r \in Granting' : q # r => frame'[q].row.granted # frame'[r].row.granted
    BY <1>9 DEF ConsentInv, TimesDiffer
  <2> QED
    BY <2>1, <2>4, <2>5, <2>6 DEF TimesDiffer
<1>14. HasOrder'
  BY <1>2, <1>4, <1>12, InsertOrder DEF ConsentInv
<1>15. RoomForGrants'
  <2>1. /\ IsFiniteSet(Granting) /\ Cardinality(Granting) \in Nat
        /\ n + Cardinality(Granting) <= MaxConsents
    BY <1>3, FS_CardinalityType DEF ConsentInv, RoomForGrants
  <2>2. IsFiniteSet(Granting') /\ Cardinality(Granting') = Cardinality(Granting) - 1
    BY <1>9, <2>1, FS_RemoveElement
  <2> QED
    BY <1>5, <2>1, <2>2, ConsentConstants DEF RoomForGrants
<1>16. ASSUME ~overlapped' PROVE InTurn'
  <2>1. InTurn
    BY <1>2, <1>16 DEF ConsentInv
  <2>2. Granting' = {}
    BY <1>9, <2>1 DEF InTurn
  <2>3. \A i \in 1 .. n : Granted(i) < row.granted
    BY <1>1, <1>4, <1>9, <2>1 DEF InTurn
  <2>4. ASSUME NEW i \in DOMAIN consents', NEW j \in DOMAIN consents', i < j
        PROVE  Granted(i)' < Granted(j)'
    <3>1. i \in 1 .. n /\ (j \in 1 .. n \/ j = n + 1)
      BY <1>5, <2>4
    <3>2. j \in 1 .. n => Granted(i) < Granted(j)
      BY <1>4, <2>1, <2>4, <3>1 DEF InTurn
    <3> QED
      BY <1>6, <1>7, <2>3, <3>1, <3>2
  <2>5. \A i \in 1 .. n + 1 : HashBefore(i)' = HashBefore(i)
    BY <1>5 DEF HashBefore
  <2>6. row.hash = ChainHash(HashBefore(n + 1), row.granted)
    BY <1>1, <1>2, <1>3, <2>1 DEF InTurn
  <2>7. ASSUME NEW i \in DOMAIN consents'
        PROVE  consents'[i].hash = ChainHash(HashBefore(i)', Granted(i)')
    <3>1. CASE i \in 1 .. n
      BY <1>4, <1>5, <1>6, <2>1, <2>5, <3>1 DEF InTurn
    <3>2. CASE i = n + 1
      BY <1>5, <1>7, <2>5, <2>6, <3>2
    <3> QED
      BY <1>5, <3>1, <3>2
  <2>8. \A q \in Operators : pc'[q] # "insert"
    BY <2>2 DEF Granting
  <2> QED
    BY <2>2, <2>4, <2>7, <2>8 DEF InTurn
<1> QED
  BY <1>10, <1>11, <1>13, <1>14, <1>15, <1>16 DEF ConsentInv

-------------------------------------------------------------------------------
(* The steps of FedConsent *)

LEMMA ConsentInitHolds ==
  ASSUME ConsentInit
  PROVE  ConsentInv
<1>1. consents = <<>> /\ DOMAIN consents = {} /\ Len(consents) = 0
  BY DEF ConsentInit
<1>2. Granting = {} /\ \A o \in Operators : pc[o] = "idle"
  BY DEF ConsentInit, Granting
<1>3. ConsentTyped
  <2>1. consents \in Seq(Consents)
    BY <1>1, EmptySeq
  <2>2. clock \in 0 .. MaxTime
    BY ConsentConstants DEF ConsentInit
  <2>3. overlapped \in BOOLEAN /\ DOMAIN pc = Operators /\ DOMAIN frame = Operators
    BY DEF ConsentInit
  <2> QED
    BY <2>1, <2>2, <2>3 DEF ConsentTyped
<1>4. \A o \in Operators : ConsentKnows(o)
  BY <1>2 DEF ConsentKnows
<1>5. TimesDiffer /\ InTurn
  BY <1>1, <1>2 DEF TimesDiffer, InTurn
<1>6. HasOrder
  <2>1. consents \in [DOMAIN consents -> DOMAIN consents]
    BY <1>1
  <2>2. Sorts(consents)
    BY <1>1, <2>1 DEF Sorts
  <2> QED
    BY <2>1, <2>2 DEF HasOrder
<1>7. RoomForGrants
  BY <1>1, <1>2, FS_EmptySet, ConsentConstants DEF RoomForGrants
<1> QED
  BY <1>3, <1>4, <1>5, <1>6, <1>7 DEF ConsentInv

\* A step that leaves the table and the clock alone.
LEMMA BesideIsQuiet ==
  ASSUME ConsentTyped, UNCHANGED <<consents, clock, overlapped>>,
         DOMAIN pc' = Operators, DOMAIN frame' = Operators,
         \A o \in Operators : Idles(o)
  PROVE  Quiet
  BY DEF Quiet, RowsAmended, ConsentTyped

LEMMA ConsentUnchanged ==
  ASSUME ConsentInv, UNCHANGED <<consents, clock, overlapped, pc, frame>>
  PROVE  ConsentInv'
<1>1. ConsentTyped
  BY DEF ConsentInv
<1>2. DOMAIN pc' = Operators /\ DOMAIN frame' = Operators
  BY <1>1 DEF ConsentTyped
<1>3. \A o \in Operators : Idles(o)
  BY DEF Idles
<1>4. Quiet
  BY <1>1, <1>2, <1>3, BesideIsQuiet
<1> QED
  BY <1>4, QuietKeeps

LEMMA GotoBeside ==
  ASSUME ConsentTyped, UNCHANGED <<consents, clock, overlapped>>,
         NEW o \in Operators, NEW label, NEW f, Goto(o, label, f),
         \/ label \notin ConsentPCs
         \/ label = "reconfirm" /\ f.id \in DOMAIN consents
         \/ label = "revoke" /\ f.id \in DOMAIN consents /\ f.next \in {"idle", "notify"}
  PROVE  Quiet
<1>1. DOMAIN pc = Operators /\ DOMAIN frame = Operators
  BY DEF ConsentTyped
<1>2. /\ DOMAIN pc' = Operators /\ DOMAIN frame' = Operators
      /\ pc'[o] = label /\ frame'[o] = f
      /\ \A q \in Operators \ {o} : pc'[q] = pc[q] /\ frame'[q] = frame[q]
  BY <1>1, GotoFacts
<1>3. ASSUME NEW q \in Operators PROVE Idles(q)
  <2>1. CASE q = o
    BY <1>2, <2>1 DEF Idles
  <2>2. CASE q # o
    BY <1>2, <2>2 DEF Idles
  <2> QED
    BY <2>1, <2>2
<1> QED
  BY <1>2, <1>3, BesideIsQuiet

LEMMA TickIsQuiet ==
  ASSUME ConsentTyped, Tick
  PROVE  Quiet
<1>1. clock' \in 0 .. MaxTime /\ clock <= clock'
  BY ConsentConstants DEF ConsentTyped, Tick
<1> QED
  BY <1>1 DEF ConsentTyped, Tick, Quiet, RowsAmended, Idles

LEMMA SelectForRevokeIsQuiet ==
  ASSUME ConsentTyped, NEW o \in Operators, NEW c \in DOMAIN consents,
         NEW next \in {"idle", "notify"}, SelectForRevoke(o, c, next)
  PROVE  Quiet
  BY GotoBeside DEF SelectForRevoke

LEMMA ReconfirmIsQuiet ==
  ASSUME ConsentTyped, NEW o \in Operators, NEW c \in DOMAIN consents, Reconfirm(o, c)
  PROVE  Quiet
  BY GotoBeside DEF Reconfirm

\* An UPDATE of one column of a row.
LEMMA RevokedRows ==
  ASSUME ConsentTyped, NEW c \in DOMAIN consents, SetRevoked(c)
  PROVE  /\ RowsAmended
         /\ \A i \in DOMAIN consents :
              /\ consents'[i].peer = consents[i].peer /\ consents'[i].expires = consents[i].expires
              /\ consents[i].revoked => consents'[i].revoked
<1>1. /\ Len(consents) \in Nat /\ DOMAIN consents = 1 .. Len(consents)
      /\ \A i \in DOMAIN consents : consents[i] \in Consents
  BY RowFacts, ElementOfSeq DEF ConsentTyped
<1>2. consents' = [consents EXCEPT ![c] = [consents[c] EXCEPT !.revoked = TRUE]]
  BY DEF SetRevoked
<1>3. [consents[c] EXCEPT !.revoked = TRUE] \in Consents
  BY <1>1 DEF Consents
<1>4. consents' \in Seq(Consents) /\ Len(consents') = Len(consents)
  BY <1>2, <1>3, ExceptSeq DEF ConsentTyped
<1>5. \A i \in DOMAIN consents :
        consents'[i] = IF i = c THEN [consents[c] EXCEPT !.revoked = TRUE] ELSE consents[i]
  BY <1>2
<1>6. ASSUME NEW i \in DOMAIN consents
      PROVE  /\ consents'[i].granted = consents[i].granted /\ consents'[i].hash = consents[i].hash
             /\ consents'[i].peer = consents[i].peer /\ consents'[i].expires = consents[i].expires
             /\ consents[i].revoked => consents'[i].revoked
  BY <1>1, <1>5 DEF Consents
<1> QED
  BY <1>4, <1>6 DEF RowsAmended

LEMMA ConfirmedRows ==
  ASSUME ConsentTyped, NEW c \in DOMAIN consents, SetConfirmed(c)
  PROVE  /\ RowsAmended
         /\ \A i \in DOMAIN consents :
              /\ consents'[i].peer = consents[i].peer /\ consents'[i].expires = consents[i].expires
              /\ consents[i].revoked => consents'[i].revoked
<1>1. /\ Len(consents) \in Nat /\ DOMAIN consents = 1 .. Len(consents)
      /\ \A i \in DOMAIN consents : consents[i] \in Consents
  BY RowFacts, ElementOfSeq DEF ConsentTyped
<1>2. consents' = [consents EXCEPT ![c] = [consents[c] EXCEPT !.confirmed = clock]]
  BY DEF SetConfirmed
<1>3. [consents[c] EXCEPT !.confirmed = clock] \in Consents
  <2>1. clock \in Nat
    BY DEF ConsentTyped
  <2> QED
    BY <1>1, <2>1 DEF Consents
<1>4. consents' \in Seq(Consents) /\ Len(consents') = Len(consents)
  BY <1>2, <1>3, ExceptSeq DEF ConsentTyped
<1>5. \A i \in DOMAIN consents :
        consents'[i] = IF i = c THEN [consents[c] EXCEPT !.confirmed = clock] ELSE consents[i]
  BY <1>2
<1>6. ASSUME NEW i \in DOMAIN consents
      PROVE  /\ consents'[i].granted = consents[i].granted /\ consents'[i].hash = consents[i].hash
             /\ consents'[i].peer = consents[i].peer /\ consents'[i].expires = consents[i].expires
             /\ consents[i].revoked => consents'[i].revoked
  BY <1>1, <1>5 DEF Consents
<1> QED
  BY <1>4, <1>6 DEF RowsAmended

LEMMA AmendIsQuiet ==
  ASSUME ConsentTyped, RowsAmended, clock' = clock, overlapped' = overlapped,
         NEW o \in Operators, NEW label, NEW f, Goto(o, label, f), label \notin ConsentPCs
  PROVE  Quiet
<1>1. DOMAIN pc = Operators /\ DOMAIN frame = Operators
  BY DEF ConsentTyped
<1>2. /\ DOMAIN pc' = Operators /\ DOMAIN frame' = Operators
      /\ pc'[o] = label /\ frame'[o] = f
      /\ \A q \in Operators \ {o} : pc'[q] = pc[q] /\ frame'[q] = frame[q]
  BY <1>1, GotoFacts
<1>3. ASSUME NEW q \in Operators PROVE Idles(q)
  <2>1. CASE q = o
    BY <1>2, <2>1 DEF Idles
  <2>2. CASE q # o
    BY <1>2, <2>2 DEF Idles
  <2> QED
    BY <2>1, <2>2
<1> QED
  BY <1>2, <1>3 DEF Quiet, ConsentTyped

LEMMA UpdateRevokedIsQuiet ==
  ASSUME ConsentTyped, NEW o \in Operators, ConsentKnows(o), UpdateRevoked(o)
  PROVE  Quiet
<1>1. frame[o].id \in DOMAIN consents /\ frame[o].next \in {"idle", "notify"}
  BY DEF ConsentKnows, UpdateRevoked
<1>2. SetRevoked(frame[o].id) /\ clock' = clock /\ overlapped' = overlapped
  BY DEF UpdateRevoked
<1>3. RowsAmended
  BY <1>1, <1>2, RevokedRows
<1>4. PICK label, f : Goto(o, label, f) /\ label \in {"idle", "notify"}
  BY <1>1 DEF UpdateRevoked
<1> QED
  BY <1>2, <1>3, <1>4, AmendIsQuiet DEF ConsentPCs

LEMMA UpdateConfirmedIsQuiet ==
  ASSUME ConsentTyped, NEW o \in Operators, ConsentKnows(o), UpdateConfirmed(o)
  PROVE  Quiet
<1>1. SetConfirmed(frame[o].id) /\ clock' = clock /\ overlapped' = overlapped
  BY DEF UpdateConfirmed
<1>2. RowsAmended
  BY <1>1, ConfirmedRows DEF ConsentKnows, UpdateConfirmed
<1>3. Goto(o, "idle", NoFrame)
  BY DEF UpdateConfirmed
<1> QED
  BY <1>1, <1>2, <1>3, AmendIsQuiet DEF ConsentPCs

LEMMA ConsentNextKeeps ==
  ASSUME ConsentInv, ConsentNext
  PROVE  ConsentInv'
<1>1. ConsentTyped /\ \A o \in Operators : ConsentKnows(o)
  BY DEF ConsentInv
<1>2. CASE Tick
  BY <1>1, <1>2, TickIsQuiet, QuietKeeps
<1>3. ASSUME NEW o \in Operators, NEW p \in Peers, NEW life \in Lifetimes, Grant(o, p, life)
      PROVE  ConsentInv'
  BY <1>3, GrantKeeps
<1>4. ASSUME NEW o \in Operators, ReadLatest(o) PROVE ConsentInv'
  BY <1>4, ReadLatestKeeps
<1>5. ASSUME NEW o \in Operators, InsertConsent(o) PROVE ConsentInv'
  BY <1>5, InsertKeeps
<1>6. ASSUME NEW o \in Operators, NEW c \in DOMAIN consents, SelectForRevoke(o, c, "idle")
      PROVE  ConsentInv'
  BY <1>1, <1>6, SelectForRevokeIsQuiet, QuietKeeps
<1>7. ASSUME NEW o \in Operators, NEW c \in DOMAIN consents, Reconfirm(o, c)
      PROVE  ConsentInv'
  BY <1>1, <1>7, ReconfirmIsQuiet, QuietKeeps
<1>8. ASSUME NEW o \in Operators, UpdateRevoked(o) PROVE ConsentInv'
  BY <1>1, <1>8, UpdateRevokedIsQuiet, QuietKeeps
<1>9. ASSUME NEW o \in Operators, UpdateConfirmed(o) PROVE ConsentInv'
  BY <1>1, <1>9, UpdateConfirmedIsQuiet, QuietKeeps
<1> QED
  BY <1>2, <1>3, <1>4, <1>5, <1>6, <1>7, <1>8, <1>9 DEF ConsentNext

-------------------------------------------------------------------------------
(* A consent that is no longer valid stays so *)

NoRevival ==
  /\ clock' \in Nat /\ clock <= clock'
  /\ \A c \in DOMAIN consents :
       /\ c \in DOMAIN consents'
       /\ consents'[c].peer = consents[c].peer /\ consents'[c].expires = consents[c].expires
       /\ consents[c].revoked => consents'[c].revoked

LEMMA BesideRevivesNothing ==
  ASSUME ConsentTyped, UNCHANGED <<consents, clock>>
  PROVE  NoRevival
  BY DEF ConsentTyped, NoRevival

LEMMA ConsentNextRevivesNothing ==
  ASSUME ConsentInv, ConsentNext
  PROVE  NoRevival
<1>1. /\ ConsentTyped /\ \A o \in Operators : ConsentKnows(o)
      /\ consents \in Seq(Consents) /\ clock \in Nat
  BY DEF ConsentInv, ConsentTyped
<1>2. CASE Tick
  BY <1>1, <1>2 DEF Tick, NoRevival
<1>3. ASSUME NEW o \in Operators, NEW p \in Peers, NEW life \in Lifetimes, Grant(o, p, life)
      PROVE  NoRevival
  BY <1>1, <1>3 DEF Grant, NoRevival
<1>4. ASSUME NEW o \in Operators, ReadLatest(o) PROVE NoRevival
  BY <1>1, <1>4, BesideRevivesNothing DEF ReadLatest
<1>5. ASSUME NEW o \in Operators, InsertConsent(o) PROVE NoRevival
  <2>1. PICK row \in Consents : row = frame[o].row /\ consents' = Append(consents, row)
    BY <1>1, <1>5 DEF InsertConsent, ConsentKnows
  <2>2. /\ DOMAIN consents = 1 .. Len(consents) /\ Len(consents) \in Nat
        /\ DOMAIN consents' = 1 .. Len(consents) + 1
        /\ \A c \in 1 .. Len(consents) : consents'[c] = consents[c]
    BY <1>1, <2>1, AppendProperties, LenProperties
  <2> QED
    BY <1>1, <1>5, <2>2 DEF InsertConsent, NoRevival
<1>6. ASSUME NEW o \in Operators, NEW c \in DOMAIN consents, SelectForRevoke(o, c, "idle")
      PROVE  NoRevival
  BY <1>1, <1>6, BesideRevivesNothing DEF SelectForRevoke
<1>7. ASSUME NEW o \in Operators, NEW c \in DOMAIN consents, Reconfirm(o, c)
      PROVE  NoRevival
  BY <1>1, <1>7, BesideRevivesNothing DEF Reconfirm
<1>8. ASSUME NEW o \in Operators, UpdateRevoked(o) PROVE NoRevival
  <2>1. frame[o].id \in DOMAIN consents /\ SetRevoked(frame[o].id) /\ clock' = clock
    BY <1>1, <1>8 DEF ConsentKnows, UpdateRevoked
  <2>2. DOMAIN consents' = DOMAIN consents
    BY <2>1 DEF SetRevoked
  <2> QED
    BY <1>1, <2>1, <2>2, RevokedRows DEF NoRevival
<1>9. ASSUME NEW o \in Operators, UpdateConfirmed(o) PROVE NoRevival
  <2>1. frame[o].id \in DOMAIN consents /\ SetConfirmed(frame[o].id) /\ clock' = clock
    BY <1>1, <1>9 DEF ConsentKnows, UpdateConfirmed
  <2>2. DOMAIN consents' = DOMAIN consents
    BY <2>1 DEF SetConfirmed
  <2> QED
    BY <1>1, <2>1, <2>2, ConfirmedRows DEF NoRevival
<1> QED
  BY <1>2, <1>3, <1>4, <1>5, <1>6, <1>7, <1>8, <1>9 DEF ConsentNext

LEMMA InvalidIsFinal ==
  ASSUME ConsentTyped, NoRevival, NEW c \in DOMAIN consents, NEW p \in Peers, ~IsValid(c, p)
  PROVE  ~IsValid(c, p)'
<1>1. clock \in Nat /\ consents[c] \in Consents
  BY RowFacts DEF ConsentTyped
<1>2. consents[c].expires \in Nat \cup {Forever}
  BY <1>1 DEF Consents
<1>3. /\ clock' \in Nat /\ clock <= clock' /\ c \in DOMAIN consents'
      /\ consents'[c].peer = consents[c].peer /\ consents'[c].expires = consents[c].expires
      /\ consents[c].revoked => consents'[c].revoked
  BY DEF NoRevival
<1>4. Expired(c) => Expired(c)'
  BY <1>1, <1>2, <1>3 DEF Expired, Forever
<1> QED
  BY <1>3, <1>4 DEF IsValid, Revoked

-------------------------------------------------------------------------------
(* The inductive invariant of the exchange *)

ShareLabels == {"idle"} \cup ConsentPCs \cup SharePCs

ShareKnows(o) ==
  /\ pc[o] = "cleared" => /\ frame[o].id \in DOMAIN consents
                          /\ frame[o].to \in Peers /\ frame[o].item \in Items
                          /\ frame[o].item # "barred"
  /\ pc[o] \in {"post", "await"} => frame[o] \in [id : DOMAIN outbox, attempt : 1 .. MaxAttempts]

SharersInv ==
  /\ pc \in [Operators -> ShareLabels]
  /\ trust \in [Peers -> 0 .. SensitiveAfter]
  /\ \A o \in Operators : ShareKnows(o)

TablesTyped ==
  /\ outbox \in Seq(Outgoing) /\ Len(outbox) <= MaxShares
  /\ DOMAIN requests \subseteq Posts
  /\ \A r \in DOMAIN requests : requests[r] \in RequestStages
  /\ inbox \in [Peers -> Seq(Incoming)]
  /\ ingested \in [Peers -> Seq(1 .. MaxShares)]
  /\ raced \subseteq 1 .. MaxShares

\* The numbers in an inbox that were not rejected.
Accepted(rows) == {rows[i].number : i \in {j \in DOMAIN rows : ~rows[j].rejected}}

Latest(taken) == IF taken = {} THEN 0 ELSE CHOOSE n \in taken : \A m \in taken : m <= n

Taken(p) == Accepted(inbox[p])

Passes(n) == outbox[n].item \notin {"barred", "hidden"}

Fed(n) == \E i \in DOMAIN ingested[outbox[n].to] : ingested[outbox[n].to][i] = n

\* The peer has accepted the message, and it may leave this node and enter that one.
Took(n) == n \in Taken(outbox[n].to) /\ Passes(n)

\* What the stage of a request says of the peer's tables.
RequestKnows(r) ==
  /\ r[1] \in DOMAIN outbox
  /\ requests[r] = "valid" => r[1] <= LastSeen(PeerOf(r)) + 1
  /\ requests[r] = "recorded" => r[1] \in Taken(PeerOf(r)) /\ Passes(r[1])
  /\ requests[r] = "ok" => Took(r[1])

\* A peer has taken the numbers up to the last one it saw, and all of them are rows
\* of the outbox.
TakenInOrder(p) == LastSeen(p) \in 0 .. Len(outbox) /\ Taken(p) = 1 .. LastSeen(p)

FedIsTaken(p) ==
  \A i \in DOMAIN ingested[p] :
    /\ ingested[p][i] \in Taken(p) /\ ingested[p][i] \in DOMAIN outbox
    /\ Passes(ingested[p][i])

\* Unless two posts of a message are handled at once, what was checked still holds:
\* no other post of it was taken or fed in between.
HandledAlone(r) ==
  requests[r] \in Handled /\ r[1] \notin raced =>
    /\ requests[r] = "valid" => r[1] \notin Taken(PeerOf(r))
    /\ requests[r] = "recorded" => ~Fed(r[1])
    /\ \A q \in DOMAIN requests : q[1] = r[1] /\ requests[q] \in Handled => q = r

TablesInv ==
  /\ TablesTyped
  /\ \A r \in DOMAIN requests : RequestKnows(r) /\ HandledAlone(r)
  /\ \A p \in Peers : TakenInOrder(p) /\ FedIsTaken(p)
  /\ IngestedOnce
  /\ \A n \in DOMAIN outbox : outbox[n].remoteId => Took(n)

ExchangeInv == ConsentInv /\ SharersInv /\ TablesInv

-------------------------------------------------------------------------------
(* Numbers seen *)

LEMMA LatestOfInterval ==
  ASSUME NEW k \in Nat
  PROVE  Latest(1 .. k) = k
<1>1. CASE k = 0
  BY <1>1 DEF Latest
<1>2. CASE k > 0
  <2>1. k \in 1 .. k /\ \A m \in 1 .. k : m <= k
    BY <1>2
  <2>2. \A n \in 1 .. k : (\A m \in 1 .. k : m <= n) => n = k
    BY <2>1
  <2>3. (CHOOSE n \in 1 .. k : \A m \in 1 .. k : m <= n) = k
    BY <2>1, <2>2
  <2> QED
    BY <2>1, <2>3 DEF Latest
<1> QED
  BY <1>1, <1>2

LEMMA LastSeenIsLatest ==
  ASSUME NEW p \in Peers
  PROVE  LastSeen(p) = Latest(Taken(p)) /\ LastSeen(p)' = Latest(Taken(p)')
  BY DEF LastSeen, Latest, Taken, Accepted

LEMMA AcceptedAppend ==
  ASSUME NEW rows \in Seq(Incoming), NEW row \in Incoming
  PROVE  Accepted(Append(rows, row)) =
           Accepted(rows) \cup (IF row.rejected THEN {} ELSE {row.number})
<1>1. /\ DOMAIN Append(rows, row) = DOMAIN rows \cup {Len(rows) + 1}
      /\ \A i \in DOMAIN rows : Append(rows, row)[i] = rows[i] /\ i # Len(rows) + 1
      /\ Append(rows, row)[Len(rows) + 1] = row
  <2>1. DOMAIN rows = 1 .. Len(rows) /\ Len(rows) \in Nat
    BY LenProperties
  <2>2. Len(Append(rows, row)) = Len(rows) + 1 /\ Append(rows, row) \in Seq(Incoming)
    BY AppendProperties
  <2>3. DOMAIN Append(rows, row) = 1 .. Len(rows) + 1
    BY <2>2, LenProperties
  <2> QED
    BY <2>1, <2>3, AppendProperties
<1> QED
  BY <1>1 DEF Accepted

-------------------------------------------------------------------------------
(* Steps after which the peers have taken and fed what they had *)

\* Rows of the outbox keep their peer and item; one says remoteId only of what was taken.
OutboxKept ==
  /\ outbox' \in Seq(Outgoing) /\ Len(outbox') <= MaxShares /\ Len(outbox) <= Len(outbox')
  /\ \A n \in DOMAIN outbox : outbox'[n].to = outbox[n].to /\ outbox'[n].item = outbox[n].item
  /\ \A n \in DOMAIN outbox' : outbox'[n].remoteId => n \in DOMAIN outbox /\ Took(n)

\* A request stays as it is, or is at a stage that says nothing of the peer's tables.
Settled(r) ==
  \/ r \in DOMAIN requests /\ requests'[r] = requests[r]
  \/ r \in Posts /\ r[1] \in DOMAIN outbox' /\ requests'[r] \in {"sent", "error", "gap", "rejected"}

Ordinary ==
  /\ OutboxKept
  /\ \A r \in DOMAIN requests' : Settled(r)
  /\ inbox' \in [Peers -> Seq(Incoming)] /\ \A p \in Peers : Taken(p)' = Taken(p)
  /\ UNCHANGED <<ingested, raced>>

LEMMA OutboxFacts ==
  ASSUME TablesTyped
  PROVE  /\ DOMAIN outbox = 1 .. Len(outbox) /\ Len(outbox) \in Nat
         /\ \A n \in DOMAIN outbox : outbox[n] \in Outgoing /\ outbox[n].to \in Peers
<1>1. DOMAIN outbox = 1 .. Len(outbox) /\ Len(outbox) \in Nat
  BY LenProperties DEF TablesTyped
<1>2. \A n \in DOMAIN outbox : outbox[n] \in Outgoing
  BY <1>1, ElementOfSeq DEF TablesTyped
<1> QED
  BY <1>1, <1>2 DEF Outgoing

LEMMA OutboxKeptFacts ==
  ASSUME TablesTyped, OutboxKept
  PROVE  /\ DOMAIN outbox \subseteq DOMAIN outbox'
         /\ \A r : r[1] \in DOMAIN outbox => PeerOf(r)' = PeerOf(r)
         /\ \A n \in DOMAIN outbox : Passes(n)' = Passes(n)
<1>1. DOMAIN outbox = 1 .. Len(outbox) /\ DOMAIN outbox' = 1 .. Len(outbox')
  BY LenProperties DEF TablesTyped, OutboxKept
<1>2. Len(outbox) \in Nat /\ Len(outbox') \in Nat
  BY LenProperties DEF TablesTyped, OutboxKept
<1> QED
  BY <1>1, <1>2 DEF OutboxKept, PeerOf, Passes

LEMMA OrdinaryFacts ==
  ASSUME TablesTyped, Ordinary
  PROVE  /\ \A p \in Peers : Taken(p)' = Taken(p) /\ LastSeen(p)' = LastSeen(p)
         /\ \A n \in DOMAIN outbox : Fed(n)' = Fed(n) /\ Took(n)' = Took(n)
<1>1. OutboxKept /\ ingested' = ingested
  BY DEF Ordinary
<1>2. \A p \in Peers : Taken(p)' = Taken(p)
  BY DEF Ordinary
<1>3. \A p \in Peers : LastSeen(p)' = LastSeen(p)
  BY <1>2, LastSeenIsLatest
<1>4. \A n \in DOMAIN outbox : outbox'[n].to = outbox[n].to
  BY <1>1 DEF OutboxKept
<1>5. \A n \in DOMAIN outbox : Fed(n)' = Fed(n)
  BY <1>1, <1>4 DEF Fed
<1>6. \A n \in DOMAIN outbox : Took(n)' = Took(n)
  BY <1>1, <1>2, <1>4, OutboxFacts, OutboxKeptFacts DEF Took
<1> QED
  BY <1>2, <1>3, <1>5, <1>6

LEMMA OrdinaryTyped ==
  ASSUME TablesTyped, Ordinary
  PROVE  TablesTyped'
<1>1. ASSUME NEW r \in DOMAIN requests' PROVE r \in Posts /\ requests'[r] \in RequestStages
  <2>1. Settled(r)
    BY DEF Ordinary
  <2> QED
    BY <2>1 DEF Settled, TablesTyped, RequestStages, Answers
<1> QED
  BY <1>1 DEF Ordinary, OutboxKept, TablesTyped

LEMMA OrdinaryKeeps ==
  ASSUME TablesInv, Ordinary
  PROVE  TablesInv'
<1>1. TablesTyped /\ TablesTyped' /\ OutboxKept
  BY OrdinaryTyped DEF TablesInv, Ordinary
<1>2. /\ \A p \in Peers : Taken(p)' = Taken(p) /\ LastSeen(p)' = LastSeen(p)
      /\ \A n \in DOMAIN outbox : Fed(n)' = Fed(n) /\ Took(n)' = Took(n)
  BY <1>1, OrdinaryFacts
<1>3. /\ DOMAIN outbox \subseteq DOMAIN outbox'
      /\ \A r : r[1] \in DOMAIN outbox => PeerOf(r)' = PeerOf(r)
      /\ \A n \in DOMAIN outbox : Passes(n)' = Passes(n)
  BY <1>1, OutboxKeptFacts
<1>4. \A r : r[1] \in DOMAIN outbox => PeerOf(r) \in Peers
  BY <1>1, OutboxFacts DEF PeerOf
<1>5. \A r \in DOMAIN requests' : requests'[r] \in Handled \cup {"ok"} =>
        r \in DOMAIN requests /\ requests'[r] = requests[r]
  BY DEF Ordinary, Settled, Handled
<1>6. ASSUME NEW r \in DOMAIN requests' PROVE RequestKnows(r)' /\ HandledAlone(r)'
  <2>1. r[1] \in DOMAIN outbox'
    BY <1>3 DEF Ordinary, Settled, TablesInv, RequestKnows
  <2>2. CASE requests'[r] \in Handled \cup {"ok"}
    <3>1. r \in DOMAIN requests /\ requests'[r] = requests[r] /\ RequestKnows(r) /\ HandledAlone(r)
      BY <1>5, <2>2 DEF TablesInv
    <3>2. r[1] \in DOMAIN outbox
      BY <3>1 DEF RequestKnows
    <3>3. RequestKnows(r)'
      BY <1>2, <1>3, <1>4, <2>1, <3>1, <3>2 DEF RequestKnows
    <3>4. HandledAlone(r)'
      BY <1>2, <1>3, <1>4, <1>5, <3>1, <3>2 DEF HandledAlone, Ordinary
    <3> QED
      BY <3>3, <3>4
  <2>3. CASE requests'[r] \notin Handled \cup {"ok"}
    BY <2>1, <2>3 DEF RequestKnows, HandledAlone, Handled
  <2> QED
    BY <2>2, <2>3
<1>7. Len(outbox) \in Nat /\ Len(outbox') \in Nat /\ Len(outbox) <= Len(outbox')
  BY <1>1, LenProperties DEF TablesTyped, OutboxKept
<1>8. ASSUME NEW p \in Peers PROVE TakenInOrder(p)' /\ FedIsTaken(p)'
  <2>1. TakenInOrder(p) /\ FedIsTaken(p)
    BY DEF TablesInv
  <2>2. TakenInOrder(p)'
    BY <1>2, <1>7, <2>1 DEF TakenInOrder
  <2>3. FedIsTaken(p)'
    BY <1>2, <1>3, <2>1 DEF FedIsTaken, Ordinary
  <2> QED
    BY <2>2, <2>3
<1>9. IngestedOnce'
  BY DEF TablesInv, Ordinary, IngestedOnce
<1>10. \A n \in DOMAIN outbox' : outbox'[n].remoteId => Took(n)'
  BY <1>1, <1>2 DEF OutboxKept
<1> QED
  BY <1>1, <1>6, <1>8, <1>9, <1>10 DEF TablesInv

-------------------------------------------------------------------------------
(* The peer's steps *)

LEMMA AnsweredFacts ==
  ASSUME NEW r \in DOMAIN requests, NEW answer, NEW x \in DOMAIN Answered(r, answer)
  PROVE  /\ x \in DOMAIN requests
         /\ Answered(r, answer)[x] = IF x = r THEN answer ELSE requests[x]
  BY DEF Answered, WithRequest, Without

LEMMA WithRequestFacts ==
  ASSUME NEW r, NEW stg
  PROVE  /\ DOMAIN WithRequest(r, stg) = DOMAIN requests \cup {r}
         /\ \A x \in DOMAIN requests \cup {r} :
              WithRequest(r, stg)[x] = IF x = r THEN stg ELSE requests[x]
  BY DEF WithRequest

LEMMA WithoutFacts ==
  ASSUME NEW posts
  PROVE  /\ DOMAIN Without(posts) = DOMAIN requests \ posts
         /\ \A x \in DOMAIN requests \ posts : Without(posts)[x] = requests[x]
  BY DEF Without

LEMMA SameOutbox ==
  ASSUME TablesInv, outbox' = outbox
  PROVE  OutboxKept
  BY LenProperties DEF TablesInv, TablesTyped, OutboxKept

LEMMA ValidateKeeps ==
  ASSUME TablesInv, NEW r \in DOMAIN requests, Validate(r)
  PROVE  TablesInv'
<1> DEFINE p == PeerOf(r)
           verdict == Validated(p, r[1])
<1>1. TablesTyped /\ OutboxKept
  BY SameOutbox DEF TablesInv, Validate
<1>2. /\ r \in Posts /\ r[1] \in DOMAIN outbox /\ p \in Peers /\ r[1] \in Nat
  BY <1>1, OutboxFacts DEF TablesInv, TablesTyped, RequestKnows, PeerOf, Posts
<1>3. TakenInOrder(p) /\ LastSeen(p) \in Nat
  BY <1>2 DEF TablesInv, TakenInOrder
<1>4. verdict \in {"valid", "error", "gap"} /\ (verdict = "valid" => r[1] = LastSeen(p) + 1)
  BY <1>2, <1>3 DEF Validated
<1>5. CASE verdict # "valid"
  <2>1. requests' = Answered(r, verdict) /\ UNCHANGED <<outbox, inbox, ingested, raced>>
    BY <1>5 DEF Validate
  <2>2. verdict \in {"error", "gap"}
    BY <1>4, <1>5
  <2> HIDE DEF verdict
  <2>3. \A x \in DOMAIN requests' : Settled(x)
    BY <1>2, <2>1, <2>2, AnsweredFacts DEF Settled
  <2>4. Ordinary
    BY <1>1, <2>1, <2>3 DEF Ordinary, TablesTyped, Taken
  <2> QED
    BY <2>4, OrdinaryKeeps
<1>6. CASE verdict = "valid"
  <2>1. /\ requests' = WithRequest(r, "valid") /\ UNCHANGED <<outbox, inbox, ingested>>
        /\ raced' = IF Twins(r) # {} THEN raced \cup {r[1]} ELSE raced
    BY <1>6 DEF Validate
  <2>2. /\ DOMAIN requests' = DOMAIN requests /\ requests'[r] = "valid"
        /\ \A x \in DOMAIN requests \ {r} : requests'[x] = requests[x]
    BY <2>1, WithRequestFacts
  <2>3. r[1] = LastSeen(p) + 1
    BY <1>4, <1>6
  <2> HIDE DEF p, verdict
  <2>4. /\ \A q \in Peers : Taken(q)' = Taken(q) /\ LastSeen(q)' = LastSeen(q)
        /\ \A n : Fed(n)' = Fed(n) /\ Passes(n)' = Passes(n) /\ Took(n)' = Took(n)
        /\ \A x : PeerOf(x)' = PeerOf(x)
    BY <2>1 DEF Taken, LastSeen, Fed, Passes, Took, PeerOf
  <2>5. TablesTyped'
    <3>1. \A x \in DOMAIN requests' : requests'[x] \in RequestStages
      BY <1>1, <2>2 DEF TablesTyped, RequestStages, Handled
    <3>2. raced' \subseteq 1 .. MaxShares
      BY <1>1, <1>2, <2>1 DEF TablesTyped, Posts
    <3> QED
      BY <1>1, <2>1, <2>2, <3>1, <3>2 DEF TablesTyped
  <2>6. ASSUME NEW x \in DOMAIN requests' PROVE RequestKnows(x)'
    <3>1. CASE x = r
      BY <1>2, <1>3, <2>1, <2>2, <2>3, <2>4, <3>1 DEF RequestKnows, p
    <3>2. CASE x # r
      <4>1. x \in DOMAIN requests /\ requests'[x] = requests[x] /\ RequestKnows(x)
        BY <2>2, <3>2 DEF TablesInv
      <4>2. PeerOf(x) \in Peers
        BY <1>1, <4>1, OutboxFacts DEF RequestKnows, PeerOf
      <4> QED
        BY <2>1, <2>4, <4>1, <4>2 DEF RequestKnows
    <3> QED
      BY <3>1, <3>2
  <2>7. r[1] \notin Taken(p)
    BY <1>2, <1>3, <2>3 DEF TakenInOrder
  <2>8. ASSUME NEW x \in DOMAIN requests', x # r, x[1] = r[1], requests'[x] \in Handled
        PROVE  r[1] \in raced'
    <3>1. x \in DOMAIN requests /\ requests[x] \in Handled /\ RequestKnows(x)
      BY <2>2, <2>8 DEF TablesInv
    <3>2. PeerOf(x) = p
      BY <2>8 DEF PeerOf, p
    <3>3. requests[x] = "valid"
      BY <2>7, <2>8, <3>1, <3>2 DEF RequestKnows, Handled
    <3>4. x \in Twins(r)
      BY <2>8, <3>1, <3>3 DEF Twins
    <3> QED
      BY <2>1, <3>4
  <2>9. ASSUME NEW x \in DOMAIN requests' PROVE HandledAlone(x)'
    <3>1. CASE x[1] = r[1]
      <4>1. ASSUME requests'[x] \in Handled, x[1] \notin raced' PROVE x = r
        BY <2>8, <3>1, <4>1
      <4>2. r[1] \notin raced' => \A q \in DOMAIN requests' :
              q[1] = r[1] /\ requests'[q] \in Handled => q = r
        BY <2>8
      <4> QED
        BY <1>2, <2>2, <2>4, <2>7, <3>1, <4>1, <4>2 DEF HandledAlone, p
    <3>2. CASE x[1] # r[1]
      <4>1. x \in DOMAIN requests /\ requests'[x] = requests[x] /\ RequestKnows(x) /\ HandledAlone(x)
        BY <2>2, <3>2 DEF TablesInv
      <4>2. PeerOf(x) \in Peers
        BY <1>1, <4>1, OutboxFacts DEF RequestKnows, PeerOf
      <4>3. x[1] \notin raced' => x[1] \notin raced
        BY <2>1
      <4>4. \A q \in DOMAIN requests' : q[1] = x[1] => requests'[q] = requests[q]
        BY <2>2, <3>2
      <4> QED
        BY <2>2, <2>4, <4>1, <4>2, <4>3, <4>4 DEF HandledAlone
    <3> QED
      BY <3>1, <3>2
  <2>10. ASSUME NEW q \in Peers PROVE TakenInOrder(q)' /\ FedIsTaken(q)'
    BY <2>1, <2>4 DEF TablesInv, TakenInOrder, FedIsTaken
  <2>11. IngestedOnce'
    BY <2>1 DEF TablesInv, IngestedOnce
  <2>12. \A n \in DOMAIN outbox' : outbox'[n].remoteId => Took(n)'
    BY <2>1, <2>4 DEF TablesInv
  <2> QED
    BY <2>5, <2>6, <2>9, <2>10, <2>11, <2>12 DEF TablesInv
<1> QED
  BY <1>5, <1>6

LEMMA InboxAppended ==
  ASSUME TablesTyped, NEW p \in Peers, NEW row \in Incoming,
         inbox' = [inbox EXCEPT ![p] = Append(@, row)]
  PROVE  /\ inbox' \in [Peers -> Seq(Incoming)]
         /\ Taken(p)' = Taken(p) \cup (IF row.rejected THEN {} ELSE {row.number})
         /\ \A q \in Peers \ {p} : Taken(q)' = Taken(q)
<1>1. inbox[p] \in Seq(Incoming) /\ inbox'[p] = Append(inbox[p], row)
  BY DEF TablesTyped
<1>2. inbox'[p] \in Seq(Incoming)
  BY <1>1, AppendProperties
<1> QED
  BY <1>1, <1>2, AcceptedAppend DEF TablesTyped, Taken

LEMMA RecordInboundKeeps ==
  ASSUME TablesInv, NEW r \in DOMAIN requests, RecordInbound(r)
  PROVE  TablesInv'
<1>1. TablesTyped /\ OutboxKept
  BY SameOutbox DEF TablesInv, RecordInbound
<1>2. PICK p \in Peers : p = PeerOf(r)
  BY <1>1, OutboxFacts DEF TablesInv, RequestKnows, PeerOf
<1>3. /\ r \in Posts /\ r[1] \in DOMAIN outbox /\ r[1] \in Nat \ {0}
      /\ requests[r] = "valid" /\ r[1] <= LastSeen(p) + 1
  BY <1>1, <1>2 DEF TablesInv, TablesTyped, RequestKnows, Posts, RecordInbound
<1>4. TakenInOrder(p) /\ LastSeen(p) \in Nat
  BY DEF TablesInv, TakenInOrder
<1>5. PICK row \in Incoming : row = [number |-> r[1], rejected |-> ~Passes(r[1])]
  <2>1. (~Passes(r[1])) \in BOOLEAN
    BY DEF Passes
  <2> HIDE DEF Passes
  <2> QED
    BY <1>3, <2>1 DEF Incoming
<1>6. /\ inbox' = [inbox EXCEPT ![p] = Append(@, row)]
      /\ requests' = IF Passes(r[1]) THEN WithRequest(r, "recorded") ELSE Answered(r, "rejected")
      /\ UNCHANGED <<outbox, ingested, raced>>
  BY <1>2, <1>5 DEF RecordInbound, AppendInbound, Refused, Passes
<1>7. /\ inbox' \in [Peers -> Seq(Incoming)]
      /\ Taken(p)' = Taken(p) \cup (IF Passes(r[1]) THEN {r[1]} ELSE {})
      /\ \A q \in Peers \ {p} : Taken(q)' = Taken(q)
  <2>1. row.number = r[1] /\ (row.rejected <=> ~Passes(r[1]))
    BY <1>5 DEF Passes
  <2>2. /\ inbox' \in [Peers -> Seq(Incoming)]
        /\ Taken(p)' = Taken(p) \cup (IF row.rejected THEN {} ELSE {row.number})
        /\ \A q \in Peers \ {p} : Taken(q)' = Taken(q)
    BY <1>1, <1>6, InboxAppended
  <2> QED
    BY <2>1, <2>2
<1>8. CASE ~Passes(r[1])
  <2>1. \A x \in DOMAIN requests' : Settled(x)
    BY <1>2, <1>3, <1>6, <1>8, AnsweredFacts DEF Settled
  <2>2. \A q \in Peers : Taken(q)' = Taken(q)
    BY <1>7, <1>8
  <2>3. Ordinary
    BY <1>1, <1>6, <1>7, <2>1, <2>2 DEF Ordinary
  <2> QED
    BY <2>3, OrdinaryKeeps
<1>9. CASE Passes(r[1])
  <2>0. requests' = WithRequest(r, "recorded")
    BY <1>6, <1>9
  <2>1. /\ DOMAIN requests' = DOMAIN requests /\ requests'[r] = "recorded"
        /\ \A x \in DOMAIN requests \ {r} : requests'[x] = requests[x]
    <3>1. /\ DOMAIN WithRequest(r, "recorded") = DOMAIN requests \cup {r}
          /\ \A x \in DOMAIN requests \cup {r} :
               WithRequest(r, "recorded")[x] = IF x = r THEN "recorded" ELSE requests[x]
      BY WithRequestFacts
    <3> QED
      BY <2>0, <3>1
  <2>2. /\ \A q \in Peers \ {p} : Taken(q)' = Taken(q) /\ LastSeen(q)' = LastSeen(q)
        /\ Taken(p)' = Taken(p) \cup {r[1]}
        /\ \A n : Fed(n)' = Fed(n) /\ Passes(n)' = Passes(n)
        /\ \A x : PeerOf(x)' = PeerOf(x)
    <3>1. \A n : Fed(n)' = Fed(n) /\ Passes(n)' = Passes(n)
      BY <1>6 DEF Fed, Passes
    <3>2. \A x : PeerOf(x)' = PeerOf(x)
      BY <1>6 DEF PeerOf
    <3>3. \A q \in Peers \ {p} : LastSeen(q)' = LastSeen(q)
      BY <1>7, LastSeenIsLatest
    <3> QED
      BY <1>7, <1>9, <3>1, <3>2, <3>3
  <2>3. PICK k \in Nat : k = LastSeen(p)
    BY <1>4
  <2>4. PICK m \in Nat : m = IF r[1] = k + 1 THEN k + 1 ELSE k
    OBVIOUS
  <2>5. 1 .. k \cup {r[1]} = 1 .. m /\ m <= Len(outbox)
    <3>1. DOMAIN outbox = 1 .. Len(outbox) /\ Len(outbox) \in Nat /\ k <= Len(outbox)
      BY <1>1, <1>4, <2>3, OutboxFacts DEF TakenInOrder
    <3> QED
      BY <1>2, <1>3, <2>3, <2>4, <3>1
  <2>6. Taken(p)' = 1 .. m
    BY <1>4, <2>2, <2>3, <2>5 DEF TakenInOrder
  <2>7. LastSeen(p)' = m /\ k <= m
    BY <1>2, <1>3, <2>3, <2>4, <2>6, LastSeenIsLatest, LatestOfInterval
  <2>8. \A q \in Peers : Taken(q) \subseteq Taken(q)' /\ LastSeen(q) \in Nat
          /\ LastSeen(q)' \in Nat /\ LastSeen(q) <= LastSeen(q)'
    BY <2>2, <2>3, <2>7 DEF TablesInv, TakenInOrder
  <2>9. TablesTyped'
    <3>1. \A x \in DOMAIN requests' : requests'[x] \in RequestStages
      BY <1>1, <2>1 DEF TablesTyped, RequestStages, Handled
    <3> QED
      BY <1>1, <1>6, <1>7, <2>1, <3>1 DEF TablesTyped
  <2>8a. \A n \in DOMAIN outbox : Took(n) => Took(n)'
    BY <1>1, <1>6, <2>2, <2>8, OutboxFacts DEF Took
  <2>10. ASSUME NEW x \in DOMAIN requests' PROVE RequestKnows(x)'
    <3>1. CASE x = r
      BY <1>2, <1>3, <1>6, <1>9, <2>1, <2>2, <3>1 DEF RequestKnows
    <3>2. CASE x # r
      <4>1. x \in DOMAIN requests /\ requests'[x] = requests[x] /\ RequestKnows(x)
        BY <2>1, <3>2 DEF TablesInv
      <4>2. x \in Posts /\ PeerOf(x) \in Peers
        BY <1>1, <4>1, OutboxFacts DEF RequestKnows, PeerOf, TablesTyped
      <4>3. x[1] \in Nat
        BY <4>2 DEF Posts
      <4>4. PeerOf(x)' = PeerOf(x) /\ Taken(PeerOf(x)) \subseteq Taken(PeerOf(x))'
            /\ LastSeen(PeerOf(x)) \in Nat /\ LastSeen(PeerOf(x))' \in Nat
            /\ LastSeen(PeerOf(x)) <= LastSeen(PeerOf(x))'
        BY <2>2, <2>8, <4>2
      <4>5. x[1] <= LastSeen(PeerOf(x)) + 1 => x[1] <= LastSeen(PeerOf(x))' + 1
        BY <4>3, <4>4
      <4> QED
        BY <1>6, <2>2, <2>8a, <4>1, <4>4, <4>5 DEF RequestKnows
    <3> QED
      BY <3>1, <3>2
  <2>11. ASSUME NEW x \in DOMAIN requests'
         PROVE  (requests'[x] \in Handled) <=> (requests[x] \in Handled)
    BY <1>2, <1>3, <2>1 DEF Handled
  <2>12. HandledAlone(r) /\ (r[1] \notin raced => r[1] \notin Taken(p))
    BY <1>2, <1>3 DEF TablesInv, HandledAlone, Handled
  <2>13. r[1] \notin raced => ~Fed(r[1])
    <3>1. Fed(r[1]) => r[1] \in Taken(p)
      BY <1>2, <1>3 DEF Fed, TablesInv, FedIsTaken, PeerOf
    <3> QED
      BY <2>12, <3>1
  <2>14. ASSUME NEW x \in DOMAIN requests' PROVE HandledAlone(x)'
    <3>1. CASE x[1] = r[1]
      <4>1. requests'[x] \in Handled /\ r[1] \notin raced => x = r
        BY <1>2, <1>3, <2>1, <2>11, <2>12, <3>1 DEF HandledAlone, Handled
      <4>2. r[1] \notin raced => \A q \in DOMAIN requests' :
              q[1] = r[1] /\ requests'[q] \in Handled => q = r
        BY <1>2, <1>3, <2>1, <2>11, <2>12 DEF HandledAlone, Handled
      <4> QED
        BY <1>6, <2>1, <2>2, <2>13, <3>1, <4>1, <4>2 DEF HandledAlone
    <3>2. CASE x[1] # r[1]
      <4>1. x \in DOMAIN requests /\ requests'[x] = requests[x] /\ RequestKnows(x) /\ HandledAlone(x)
        BY <2>1, <3>2 DEF TablesInv
      <4>2. PeerOf(x) \in Peers
        BY <1>1, <4>1, OutboxFacts DEF RequestKnows, PeerOf
      <4>3. x[1] \in Taken(PeerOf(x))' => x[1] \in Taken(PeerOf(x))
        BY <2>2, <3>2, <4>2
      <4>4. \A q \in DOMAIN requests' : q[1] = x[1] => requests'[q] = requests[q]
        BY <2>1, <3>2
      <4> QED
        BY <1>6, <2>1, <2>2, <4>1, <4>2, <4>3, <4>4 DEF HandledAlone
    <3> QED
      BY <3>1, <3>2
  <2>15. ASSUME NEW q \in Peers PROVE TakenInOrder(q)' /\ FedIsTaken(q)'
    <3>1. TakenInOrder(q) /\ FedIsTaken(q)
      BY DEF TablesInv
    <3>2. TakenInOrder(q)'
      <4>1. CASE q = p
        BY <1>1, <1>6, <2>5, <2>6, <2>7, <4>1, OutboxFacts DEF TakenInOrder
      <4>2. CASE q # p
        BY <1>6, <2>2, <3>1, <4>2 DEF TakenInOrder
      <4> QED
        BY <4>1, <4>2
    <3>3. FedIsTaken(q)'
      BY <1>6, <2>2, <2>8, <3>1 DEF FedIsTaken
    <3> QED
      BY <3>2, <3>3
  <2>16. IngestedOnce'
    BY <1>6 DEF TablesInv, IngestedOnce
  <2>17. \A n \in DOMAIN outbox' : outbox'[n].remoteId => Took(n)'
    BY <1>6, <2>8a DEF TablesInv
  <2> QED
    BY <2>9, <2>10, <2>14, <2>15, <2>16, <2>17 DEF TablesInv
<1> QED
  BY <1>8, <1>9

LEMMA IngestKeeps ==
  ASSUME TablesInv, NEW r \in DOMAIN requests, Ingest(r)
  PROVE  TablesInv'
<1>1. TablesTyped
  BY DEF TablesInv
<1>2. PICK p \in Peers : p = PeerOf(r)
  BY <1>1, OutboxFacts DEF TablesInv, RequestKnows, PeerOf
<1>3. /\ r[1] \in DOMAIN outbox /\ outbox[r[1]].to = p /\ r[1] \in 1 .. MaxShares
      /\ requests[r] = "recorded" /\ r[1] \in Taken(p) /\ Passes(r[1])
  BY <1>1, <1>2 DEF TablesInv, TablesTyped, RequestKnows, PeerOf, Posts, Ingest
<1>4. PICK fed \in Seq(1 .. MaxShares) : fed = ingested[p]
  BY <1>1 DEF TablesTyped
<1>5. /\ ingested' = ingested \/ ingested' = [ingested EXCEPT ![p] = Append(fed, r[1])]
      /\ requests' \in {Answered(r, "ok"), Without({r})}
      /\ UNCHANGED <<outbox, inbox, raced>>
  BY <1>2, <1>4 DEF Ingest
<1>6. ASSUME NEW x \in DOMAIN requests'
      PROVE  /\ x \in DOMAIN requests
             /\ x = r => requests'[x] = "ok"
             /\ x # r => requests'[x] = requests[x]
  <2>1. CASE requests' = Answered(r, "ok")
    BY <2>1, AnsweredFacts
  <2>2. CASE requests' = Without({r})
    <3>1. /\ DOMAIN Without({r}) = DOMAIN requests \ {r}
          /\ \A q \in DOMAIN requests \ {r} : Without({r})[q] = requests[q]
      BY WithoutFacts
    <3> QED
      BY <2>2, <3>1
  <2> QED
    BY <1>5, <2>1, <2>2
<1>7. /\ Append(fed, r[1]) \in Seq(1 .. MaxShares)
      /\ DOMAIN Append(fed, r[1]) = DOMAIN fed \cup {Len(fed) + 1}
      /\ \A i \in DOMAIN fed : Append(fed, r[1])[i] = fed[i]
      /\ Append(fed, r[1])[Len(fed) + 1] = r[1]
  <2>1. DOMAIN fed = 1 .. Len(fed) /\ Len(fed) \in Nat
    BY LenProperties
  <2>2. Append(fed, r[1]) \in Seq(1 .. MaxShares) /\ Len(Append(fed, r[1])) = Len(fed) + 1
    BY <1>3, AppendProperties
  <2>3. DOMAIN Append(fed, r[1]) = 1 .. Len(fed) + 1
    BY <2>2, LenProperties
  <2> QED
    BY <1>3, <2>1, <2>2, <2>3, AppendProperties
<1>8. /\ ingested' \in [Peers -> Seq(1 .. MaxShares)]
      /\ ingested'[p] = fed \/ ingested'[p] = Append(fed, r[1])
      /\ \A q \in Peers \ {p} : ingested'[q] = ingested[q]
  BY <1>1, <1>4, <1>5, <1>7 DEF TablesTyped
<1>9. /\ \A q \in Peers : Taken(q)' = Taken(q) /\ LastSeen(q)' = LastSeen(q)
      /\ \A n : Passes(n)' = Passes(n) /\ Took(n)' = Took(n)
      /\ \A x : PeerOf(x)' = PeerOf(x)
  BY <1>5 DEF Taken, LastSeen, Passes, Took, PeerOf
<1>10. \A n \in DOMAIN outbox : outbox[n].to \in Peers
  BY <1>1, OutboxFacts
<1>11. ASSUME NEW n \in DOMAIN outbox
       PROVE  n # r[1] => (Fed(n)' <=> Fed(n))
  <2>1. CASE outbox[n].to = p
    BY <1>3, <1>4, <1>5, <1>7, <1>8, <2>1 DEF Fed
  <2>2. CASE outbox[n].to # p
    BY <1>3, <1>5, <1>8, <1>10, <2>2 DEF Fed
  <2> QED
    BY <2>1, <2>2
<1>12. HandledAlone(r) /\ (r[1] \notin raced => ~Fed(r[1]))
  BY <1>3 DEF TablesInv, HandledAlone, Handled
<1>13. TablesTyped'
  <2>1. \A x \in DOMAIN requests' : x \in Posts /\ requests'[x] \in RequestStages
    BY <1>1, <1>6 DEF TablesTyped, RequestStages, Answers
  <2> QED
    BY <1>1, <1>5, <1>8, <2>1 DEF TablesTyped
<1>14. ASSUME NEW x \in DOMAIN requests' PROVE RequestKnows(x)' /\ HandledAlone(x)'
  <2>1. x \in DOMAIN requests /\ RequestKnows(x) /\ HandledAlone(x)
    BY <1>6 DEF TablesInv
  <2>2. x[1] \in DOMAIN outbox /\ PeerOf(x) \in Peers
    BY <1>10, <2>1 DEF RequestKnows, PeerOf
  <2>3. CASE x = r
    BY <1>3, <1>5, <1>6, <1>9, <2>3 DEF RequestKnows, HandledAlone, Handled, Took, PeerOf
  <2>4. CASE x # r
    <3>1. requests'[x] = requests[x]
      BY <1>6, <2>4
    <3>2. RequestKnows(x)'
      BY <1>5, <1>9, <2>1, <2>2, <3>1 DEF RequestKnows
    <3>3. ASSUME requests[x] \in Handled, x[1] \notin raced PROVE x[1] # r[1]
      BY <1>3, <1>12, <2>1, <2>4, <3>3 DEF HandledAlone, Handled
    <3>4. \A q \in DOMAIN requests' : requests'[q] \in Handled =>
            q \in DOMAIN requests /\ requests[q] \in Handled
      BY <1>6 DEF Handled
    <3>5. HandledAlone(x)'
      BY <1>5, <1>9, <1>11, <2>1, <2>2, <3>1, <3>3, <3>4 DEF HandledAlone
    <3> QED
      BY <3>2, <3>5
  <2> QED
    BY <2>3, <2>4
<1>15. ASSUME NEW q \in Peers PROVE TakenInOrder(q)' /\ FedIsTaken(q)'
  <2>1. TakenInOrder(q) /\ FedIsTaken(q)
    BY DEF TablesInv
  <2>2. TakenInOrder(q)'
    BY <1>5, <1>9, <2>1 DEF TakenInOrder
  <2>3. ASSUME NEW i \in DOMAIN ingested'[q]
        PROVE  /\ ingested'[q][i] \in Taken(q) /\ ingested'[q][i] \in DOMAIN outbox
               /\ Passes(ingested'[q][i])
    <3>1. CASE q = p
      BY <1>3, <1>4, <1>7, <1>8, <2>1, <2>3, <3>1 DEF FedIsTaken
    <3>2. CASE q # p
      BY <1>8, <2>1, <2>3, <3>2 DEF FedIsTaken
    <3> QED
      BY <3>1, <3>2
  <2>4. FedIsTaken(q)'
    BY <1>5, <1>9, <2>3 DEF FedIsTaken, Passes
  <2> QED
    BY <2>2, <2>4
<1>16. IngestedOnce'
  <2>1. ASSUME NEW i \in DOMAIN fed, fed[i] = r[1] PROVE r[1] \in raced
    BY <1>3, <1>4, <1>12, <2>1 DEF Fed
  <2>2. ASSUME NEW i \in DOMAIN ingested'[p], NEW j \in DOMAIN ingested'[p], i # j,
               ingested'[p][i] = ingested'[p][j]
        PROVE  ingested'[p][i] \in raced
    <3>1. CASE i \in DOMAIN fed /\ j \in DOMAIN fed
      BY <1>4, <1>7, <1>8, <2>2, <3>1 DEF TablesInv, IngestedOnce
    <3>2. CASE ~(i \in DOMAIN fed /\ j \in DOMAIN fed)
      BY <1>7, <1>8, <2>1, <2>2, <3>2
    <3> QED
      BY <3>1, <3>2
  <2>3. ASSUME NEW q \in Peers \ {p}, NEW i \in DOMAIN ingested'[q], NEW j \in DOMAIN ingested'[q],
               i # j, ingested'[q][i] = ingested'[q][j]
        PROVE  ingested'[q][i] \in raced
    BY <1>8, <2>3 DEF TablesInv, IngestedOnce
  <2> QED
    BY <1>5, <2>2, <2>3 DEF IngestedOnce
<1>17. \A n \in DOMAIN outbox' : outbox'[n].remoteId => Took(n)'
  BY <1>5, <1>9 DEF TablesInv
<1> QED
  BY <1>13, <1>14, <1>15, <1>16, <1>17 DEF TablesInv

LEMMA PeerCrashKeeps ==
  ASSUME TablesInv, NEW p \in Peers, PeerCrash(p)
  PROVE  TablesInv'
<1> DEFINE dropped == {r \in DOMAIN requests : PeerOf(r) = p /\ requests[r] \in Handled}
<1>1. OutboxKept /\ TablesTyped
  BY SameOutbox DEF PeerCrash, TablesInv
<1>2. requests' = Without(dropped) /\ UNCHANGED <<outbox, inbox, ingested, raced>>
  BY DEF PeerCrash
<1> HIDE DEF dropped
<1>3. \A r \in DOMAIN requests' : Settled(r)
  BY <1>2, WithoutFacts DEF Settled
<1>4. Ordinary
  BY <1>1, <1>2, <1>3 DEF Ordinary, TablesTyped, Taken
<1> QED
  BY <1>4, OrdinaryKeeps

-------------------------------------------------------------------------------
(* The steps of the sharing node *)

\* What a step does to the operators: one of them moves, the tables grow.
LEMMA GotoShares ==
  ASSUME DOMAIN frame = Operators, SharersInv, trust' \in [Peers -> 0 .. SensitiveAfter],
         DOMAIN consents \subseteq DOMAIN consents', DOMAIN outbox \subseteq DOMAIN outbox',
         NEW o \in Operators, NEW label \in ShareLabels, NEW f, Goto(o, label, f),
         label = "cleared" => /\ f.id \in DOMAIN consents' /\ f.to \in Peers
                              /\ f.item \in Items /\ f.item # "barred",
         label \in {"post", "await"} => f \in [id : DOMAIN outbox', attempt : 1 .. MaxAttempts]
  PROVE  SharersInv'
<1>1. /\ pc \in [Operators -> ShareLabels] /\ DOMAIN pc = Operators
      /\ \A q \in Operators : ShareKnows(q)
  BY DEF SharersInv
<1>2. /\ pc'[o] = label /\ frame'[o] = f
      /\ \A q \in Operators \ {o} : pc'[q] = pc[q] /\ frame'[q] = frame[q]
  BY <1>1, GotoFacts
<1>3. pc' \in [Operators -> ShareLabels]
  BY <1>1 DEF Goto
<1>4. ASSUME NEW q \in Operators PROVE ShareKnows(q)'
  <2>1. CASE q = o
    BY <1>2, <2>1 DEF ShareKnows
  <2>2. CASE q # o
    <3>1. ShareKnows(q) /\ pc'[q] = pc[q] /\ frame'[q] = frame[q]
      BY <1>1, <1>2, <2>2
    <3> QED
      BY <3>1 DEF ShareKnows
  <2> QED
    BY <2>1, <2>2
<1> QED
  BY <1>3, <1>4 DEF SharersInv

LEMMA OutboxRowUpdated ==
  ASSUME TablesInv, NEW n \in DOMAIN outbox, NEW row \in Outgoing,
         row.to = outbox[n].to, row.item = outbox[n].item, row.remoteId => Took(n),
         outbox' = [outbox EXCEPT ![n] = row]
  PROVE  OutboxKept /\ DOMAIN outbox' = DOMAIN outbox
<1>1. /\ outbox \in Seq(Outgoing) /\ Len(outbox) <= MaxShares /\ Len(outbox) \in Nat
      /\ DOMAIN outbox = 1 .. Len(outbox)
  BY LenProperties DEF TablesInv, TablesTyped
<1>2. outbox' \in Seq(Outgoing) /\ Len(outbox') = Len(outbox) /\ DOMAIN outbox' = DOMAIN outbox
  BY <1>1, ExceptSeq
<1>3. \A m \in DOMAIN outbox : outbox'[m] = IF m = n THEN row ELSE outbox[m]
  OBVIOUS
<1> QED
  BY <1>1, <1>2, <1>3 DEF OutboxKept, TablesInv

LEMMA RequestsDropped ==
  ASSUME TablesInv, OutboxKept, NEW posts, requests' = Without(posts),
         UNCHANGED <<inbox, ingested, raced>>
  PROVE  TablesInv'
<1>1. \A r \in DOMAIN requests' : Settled(r)
  BY WithoutFacts DEF Settled
<1>2. Ordinary
  BY <1>1 DEF Ordinary, TablesInv, TablesTyped, Taken
<1> QED
  BY <1>2, OrdinaryKeeps

LEMMA TablesUntouched ==
  ASSUME TablesInv, UNCHANGED <<outbox, requests, inbox, ingested, raced>>
  PROVE  TablesInv'
<1>1. OutboxKept
  BY SameOutbox
<1>2. \A r \in DOMAIN requests' : Settled(r)
  BY DEF Settled
<1>3. Ordinary
  BY <1>1, <1>2 DEF Ordinary, TablesInv, TablesTyped, Taken
<1> QED
  BY <1>3, OrdinaryKeeps

LEMMA AskKeeps ==
  ASSUME ExchangeInv, NEW o \in Operators, NEW c \in DOMAIN consents, NEW p \in Peers,
         NEW item \in Items, Ask(o, c, p, item)
  PROVE  ExchangeInv'
<1> DEFINE f == [id |-> c, to |-> p, item |-> item]
<1>1. /\ Goto(o, "cleared", f) /\ item # "barred"
      /\ UNCHANGED <<consents, clock, overlapped, outbox, trust, requests, inbox, ingested, raced>>
  BY DEF Ask, CheckOutbound, exchangeVars
<1>2. f.id = c /\ f.to = p /\ f.item = item
  OBVIOUS
<1> HIDE DEF f
<1>3. ConsentTyped /\ SharersInv /\ TablesInv
  BY DEF ExchangeInv, ConsentInv
<1>4. ConsentInv'
  BY <1>1, <1>3, GotoBeside, QuietKeeps DEF ExchangeInv, ConsentPCs
<1>5. SharersInv'
  BY <1>1, <1>2, <1>3, GotoShares DEF ConsentTyped, SharersInv, ShareLabels, SharePCs
<1> QED
  BY <1>1, <1>3, <1>4, <1>5, TablesUntouched DEF ExchangeInv

LEMMA RecordOutboundKeeps ==
  ASSUME ExchangeInv, NEW o \in Operators, RecordOutbound(o)
  PROVE  ExchangeInv'
<1>1. ConsentTyped /\ SharersInv /\ TablesInv
  BY DEF ExchangeInv, ConsentInv
<1>2. /\ frame[o].id \in DOMAIN consents /\ frame[o].to \in Peers /\ frame[o].item \in Items
      /\ Len(outbox) < MaxShares
  BY <1>1 DEF RecordOutbound, SharersInv, ShareKnows
<1>3. PICK row \in Outgoing :
        row = [to |-> frame[o].to, item |-> frame[o].item, consent |-> frame[o].id,
               status |-> "pending", remoteId |-> FALSE]
  <2>1. frame[o].id \in Nat
    BY <1>1, <1>2, RowFacts
  <2> QED
    BY <1>2, <2>1 DEF Outgoing
<1>4. PICK n \in Nat : n = Len(outbox)
  BY <1>1, OutboxFacts DEF TablesInv
<1>5. /\ outbox' = Append(outbox, row)
      /\ UNCHANGED <<consents, clock, overlapped, trust, requests, inbox, ingested, raced>>
  BY <1>3 DEF RecordOutbound
<1>6. /\ outbox' \in Seq(Outgoing) /\ Len(outbox') = n + 1 /\ DOMAIN outbox' = 1 .. n + 1
      /\ DOMAIN outbox = 1 .. n
      /\ \A m \in 1 .. n : outbox'[m] = outbox[m]
      /\ outbox'[n + 1] = row
  BY <1>1, <1>4, <1>5, AppendProperties, LenProperties DEF TablesInv, TablesTyped
<1>7. Goto(o, "post", [id |-> n + 1, attempt |-> 1])
  BY <1>6 DEF RecordOutbound
<1>8. OutboxKept
  <2>1. n + 1 <= MaxShares
    BY <1>2, <1>4, ExchangeConstants
  <2>2. ~row.remoteId
    BY <1>3
  <2>3. \A m \in DOMAIN outbox' : outbox'[m].remoteId => m \in DOMAIN outbox /\ Took(m)
    BY <1>1, <1>6, <2>2 DEF TablesInv
  <2> QED
    BY <1>4, <1>6, <2>1, <2>3 DEF OutboxKept
<1>9. ConsentInv'
  BY <1>1, <1>5, <1>7, GotoBeside, QuietKeeps DEF ExchangeInv, ConsentPCs
<1>10. SharersInv'
  <2>1. n + 1 \in DOMAIN outbox' /\ 1 \in 1 .. MaxAttempts /\ DOMAIN outbox \subseteq DOMAIN outbox'
    BY <1>6, ExchangeConstants
  <2> QED
    BY <1>1, <1>5, <1>7, <2>1, GotoShares DEF ConsentTyped, SharersInv, ShareLabels, SharePCs
<1>11. TablesInv'
  <2>1. \A r \in DOMAIN requests' : Settled(r)
    BY <1>5 DEF Settled
  <2>2. Ordinary
    BY <1>1, <1>5, <1>8, <2>1 DEF Ordinary, TablesInv, TablesTyped, Taken
  <2> QED
    BY <1>1, <2>2, OrdinaryKeeps
<1> QED
  BY <1>9, <1>10, <1>11 DEF ExchangeInv

LEMMA PostKeeps ==
  ASSUME ExchangeInv, NEW o \in Operators, Post(o)
  PROVE  ExchangeInv'
<1>1. ConsentTyped /\ SharersInv /\ TablesInv
  BY DEF ExchangeInv, ConsentInv
<1>2. /\ frame[o] \in [id : DOMAIN outbox, attempt : 1 .. MaxAttempts]
      /\ Goto(o, "await", frame[o]) /\ requests' = WithRequest(CurrentPost(o), "sent")
      /\ UNCHANGED <<consents, clock, overlapped, outbox, trust, inbox, ingested, raced>>
  BY <1>1 DEF Post, SharersInv, ShareKnows
<1>3. PICK r \in Posts : r = CurrentPost(o) /\ r[1] \in DOMAIN outbox
  <2>1. DOMAIN outbox \subseteq 1 .. MaxShares
    BY <1>1, OutboxFacts, ExchangeConstants DEF TablesInv, TablesTyped
  <2> QED
    BY <1>2, <2>1 DEF CurrentPost, Posts
<1>4. ConsentInv'
  BY <1>1, <1>2, GotoBeside, QuietKeeps DEF ExchangeInv, ConsentPCs
<1>5. SharersInv'
  BY <1>1, <1>2, GotoShares DEF ConsentTyped, SharersInv, ShareLabels, SharePCs
<1>6. TablesInv'
  <2>1. ASSUME NEW x \in DOMAIN requests' PROVE Settled(x)
    <3>1. /\ DOMAIN WithRequest(r, "sent") = DOMAIN requests \cup {r}
          /\ \A q \in DOMAIN requests \cup {r} :
               WithRequest(r, "sent")[q] = IF q = r THEN "sent" ELSE requests[q]
      BY WithRequestFacts
    <3> QED
      BY <1>2, <1>3, <3>1 DEF Settled
  <2>2. OutboxKept
    BY <1>1, <1>2, SameOutbox
  <2>3. Ordinary
    BY <1>1, <1>2, <2>1, <2>2 DEF Ordinary, TablesInv, TablesTyped, Taken
  <2> QED
    BY <1>1, <2>3, OrdinaryKeeps
<1> QED
  BY <1>4, <1>5, <1>6 DEF ExchangeInv

LEMMA MarkSentKeeps ==
  ASSUME ExchangeInv, NEW o \in Operators, MarkSent(o)
  PROVE  ExchangeInv'
<1>1. ConsentTyped /\ SharersInv /\ TablesInv /\ TablesTyped
  BY DEF ExchangeInv, ConsentInv, TablesInv
<1>2. PICK n \in DOMAIN outbox : n = frame[o].id
  BY <1>1 DEF MarkSent, SharersInv, ShareKnows
<1>3. PICK r \in DOMAIN requests : r = CurrentPost(o) /\ r[1] = n
  BY <1>2 DEF MarkSent, CurrentPost
<1>4. /\ outbox' = [outbox EXCEPT ![n].status = "sent", ![n].remoteId = (requests[r] = "ok")]
      /\ trust' = [trust EXCEPT ![outbox[n].to] = Promoted(@)]
      /\ requests' = Without({r}) /\ Goto(o, "idle", NoFrame)
      /\ UNCHANGED <<consents, clock, overlapped, inbox, ingested, raced>>
  BY <1>2, <1>3 DEF MarkSent
<1>5. outbox[n] \in Outgoing /\ outbox[n].to \in Peers
  BY <1>1, OutboxFacts
<1>6. PICK row \in Outgoing :
        /\ row = [outbox[n] EXCEPT !.status = "sent", !.remoteId = (requests[r] = "ok")]
        /\ row.to = outbox[n].to /\ row.item = outbox[n].item
        /\ row.remoteId <=> (requests[r] = "ok")
  <2>1. [outbox[n] EXCEPT !.status = "sent", !.remoteId = (requests[r] = "ok")] \in Outgoing
    <3>1. (requests[r] = "ok") \in BOOLEAN
      OBVIOUS
    <3> QED
      BY <1>5, <3>1 DEF Outgoing
  <2>2. PICK row \in Outgoing :
          row = [outbox[n] EXCEPT !.status = "sent", !.remoteId = (requests[r] = "ok")]
    BY <2>1
  <2>3. /\ row.to = outbox[n].to /\ row.item = outbox[n].item
        /\ row.remoteId <=> (requests[r] = "ok")
    BY <1>5, <2>2 DEF Outgoing
  <2> QED
    BY <2>2, <2>3
<1>7. outbox' = [outbox EXCEPT ![n] = row]
  BY <1>4, <1>6
<1>8. requests[r] = "ok" => Took(n)
  BY <1>3, <1>1 DEF TablesInv, RequestKnows
<1>9. OutboxKept /\ DOMAIN outbox' = DOMAIN outbox
  BY <1>1, <1>6, <1>7, <1>8, OutboxRowUpdated
<1>10. ConsentInv'
  BY <1>1, <1>4, GotoBeside, QuietKeeps DEF ExchangeInv, ConsentPCs
<1>11. trust' \in [Peers -> 0 .. SensitiveAfter]
  <2>1. \A k \in 0 .. SensitiveAfter : Promoted(k) \in 0 .. SensitiveAfter
    BY ExchangeConstants DEF Promoted
  <2> QED
    BY <1>1, <1>4, <1>5, <2>1 DEF SharersInv
<1>12. SharersInv'
  BY <1>1, <1>4, <1>9, <1>11, GotoShares DEF ConsentTyped, ShareLabels
<1>13. TablesInv'
  BY <1>1, <1>4, <1>9, RequestsDropped
<1> QED
  BY <1>10, <1>12, <1>13 DEF ExchangeInv

LEMMA GiveUpKeeps ==
  ASSUME ExchangeInv, NEW o \in Operators, GiveUp(o)
  PROVE  ExchangeInv'
<1>1. ConsentTyped /\ SharersInv /\ TablesInv /\ TablesTyped
  BY DEF ExchangeInv, ConsentInv, TablesInv
<1>2. PICK n \in DOMAIN outbox : n = frame[o].id
  BY <1>1 DEF GiveUp, SharersInv, ShareKnows
<1>3. PICK k \in 1 .. MaxAttempts : k = frame[o].attempt
  BY <1>1 DEF GiveUp, SharersInv, ShareKnows
<1>4. /\ requests' = Without(Unread({CurrentPost(o)}))
      /\ UNCHANGED <<consents, clock, overlapped, trust, inbox, ingested, raced>>
  BY DEF GiveUp
<1>5. CASE k < MaxAttempts
  <2>1. PICK f : f = [frame[o] EXCEPT !.attempt = @ + 1]
    OBVIOUS
  <2>2. Goto(o, "post", f) /\ outbox' = outbox
    BY <1>3, <1>5, <2>1 DEF GiveUp
  <2>3. f \in [id : DOMAIN outbox, attempt : 1 .. MaxAttempts]
    <3>1. frame[o] \in [id : DOMAIN outbox, attempt : 1 .. MaxAttempts]
      BY <1>1 DEF GiveUp, SharersInv, ShareKnows
    <3>2. k + 1 \in 1 .. MaxAttempts
      BY <1>5, ExchangeConstants
    <3> QED
      BY <1>3, <2>1, <3>1, <3>2
  <2>4. ConsentInv'
    BY <1>1, <1>4, <2>2, GotoBeside, QuietKeeps DEF ExchangeInv, ConsentPCs
  <2>5. SharersInv'
    BY <1>1, <1>4, <2>2, <2>3, GotoShares DEF ConsentTyped, SharersInv, ShareLabels, SharePCs
  <2>6. TablesInv'
    BY <1>1, <1>4, <2>2, SameOutbox, RequestsDropped
  <2> QED
    BY <2>4, <2>5, <2>6 DEF ExchangeInv
<1>6. CASE ~(k < MaxAttempts)
  <2>1. Goto(o, "idle", NoFrame) /\ outbox' = [outbox EXCEPT ![n].status = "failed"]
    BY <1>2, <1>3, <1>6 DEF GiveUp
  <2>2. outbox[n] \in Outgoing
    BY <1>1, OutboxFacts
  <2>3. PICK row \in Outgoing :
          /\ row = [outbox[n] EXCEPT !.status = "failed"]
          /\ row.to = outbox[n].to /\ row.item = outbox[n].item
          /\ row.remoteId = outbox[n].remoteId
    <3>1. [outbox[n] EXCEPT !.status = "failed"] \in Outgoing
      BY <2>2 DEF Outgoing
    <3>2. PICK row \in Outgoing : row = [outbox[n] EXCEPT !.status = "failed"]
      BY <3>1
    <3>3. /\ row.to = outbox[n].to /\ row.item = outbox[n].item
          /\ row.remoteId = outbox[n].remoteId
      BY <2>2, <3>2 DEF Outgoing
    <3> QED
      BY <3>2, <3>3
  <2>4. outbox' = [outbox EXCEPT ![n] = row]
    BY <2>1, <2>3
  <2>5. OutboxKept /\ DOMAIN outbox' = DOMAIN outbox
    <3>1. row.remoteId => Took(n)
      BY <1>1, <2>3 DEF TablesInv
    <3> QED
      BY <1>1, <2>3, <2>4, <3>1, OutboxRowUpdated
  <2>6. ConsentInv'
    BY <1>1, <1>4, <2>1, GotoBeside, QuietKeeps DEF ExchangeInv, ConsentPCs
  <2>7. SharersInv'
    BY <1>1, <1>4, <2>1, <2>5, GotoShares DEF ConsentTyped, SharersInv, ShareLabels
  <2>8. TablesInv'
    BY <1>1, <1>4, <2>5, RequestsDropped
  <2> QED
    BY <2>6, <2>7, <2>8 DEF ExchangeInv
<1> QED
  BY <1>5, <1>6

LEMMA RecallKeeps ==
  ASSUME ExchangeInv, NEW o \in Operators, NEW c \in DOMAIN consents, Recall(o, c)
  PROVE  ExchangeInv'
<1>1. ConsentTyped /\ SharersInv /\ TablesInv
  BY DEF ExchangeInv, ConsentInv
<1>2. UNCHANGED <<consents, clock, overlapped, outbox, trust, requests, inbox, ingested, raced>>
  BY DEF Recall, SelectForRevoke, exchangeVars
<1>3. CASE Goto(o, "revoke", [id |-> c, next |-> "notify"])
  <2> DEFINE f == [id |-> c, next |-> "notify"]
  <2>1. f.id = c /\ f.next = "notify"
    OBVIOUS
  <2>2. Goto(o, "revoke", f)
    BY <1>3
  <2> HIDE DEF f
  <2>3. ConsentInv'
    BY <1>1, <1>2, <2>1, <2>2, GotoBeside, QuietKeeps DEF ExchangeInv
  <2>4. SharersInv'
    BY <1>1, <1>2, <2>2, GotoShares DEF ConsentTyped, SharersInv, ShareLabels, ConsentPCs
  <2> QED
    BY <1>1, <1>2, <2>3, <2>4, TablesUntouched DEF ExchangeInv
<1>4. CASE Goto(o, "notify", [id |-> c])
  <2>1. ConsentInv'
    BY <1>1, <1>2, <1>4, GotoBeside, QuietKeeps DEF ExchangeInv, ConsentPCs
  <2>2. SharersInv'
    BY <1>1, <1>2, <1>4, GotoShares DEF ConsentTyped, SharersInv, ShareLabels, SharePCs
  <2> QED
    BY <1>1, <1>2, <2>1, <2>2, TablesUntouched DEF ExchangeInv
<1> QED
  BY <1>3, <1>4 DEF Recall, SelectForRevoke

LEMMA NotifyKeeps ==
  ASSUME ExchangeInv, NEW o \in Operators, Notify(o)
  PROVE  ExchangeInv'
<1>1. /\ ConsentTyped /\ SharersInv /\ TablesInv /\ Goto(o, "idle", NoFrame)
      /\ UNCHANGED <<consents, clock, overlapped, outbox, trust, requests, inbox, ingested, raced>>
  BY DEF ExchangeInv, ConsentInv, Notify, exchangeVars
<1>2. ConsentInv'
  BY <1>1, GotoBeside, QuietKeeps DEF ExchangeInv, ConsentPCs
<1>3. SharersInv'
  BY <1>1, GotoShares DEF ConsentTyped, SharersInv, ShareLabels
<1> QED
  BY <1>1, <1>2, <1>3, TablesUntouched DEF ExchangeInv

LEMMA NodeCrashKeeps ==
  ASSUME ExchangeInv, NodeCrash
  PROVE  ExchangeInv'
<1>1. ConsentTyped /\ SharersInv /\ TablesInv
  BY DEF ExchangeInv, ConsentInv
<1>2. /\ pc' = [o \in Operators |-> "idle"] /\ frame' = [o \in Operators |-> NoFrame]
      /\ trust' = [p \in Peers |-> 0] /\ requests' = Without(Unread(Posts))
      /\ UNCHANGED <<consents, clock, overlapped, outbox, inbox, ingested, raced>>
  BY DEF NodeCrash
<1>3. Quiet
  BY <1>1, <1>2, BesideIsQuiet DEF Idles, ConsentPCs
<1>4. SharersInv'
  BY <1>2, ExchangeConstants DEF SharersInv, ShareKnows, ShareLabels
<1>5. TablesInv'
  BY <1>1, <1>2, SameOutbox, RequestsDropped
<1> QED
  BY <1>3, <1>4, <1>5, QuietKeeps DEF ExchangeInv

\* A step of the consents takes an operator from one of their labels to another, and
\* forgets no row.
ConsentLabels == {"idle", "notify"} \cup ConsentPCs

ConsentMove(o) ==
  \/ pc'[o] = pc[o] /\ frame'[o] = frame[o]
  \/ pc[o] \in ConsentLabels /\ pc'[o] \in ConsentLabels

LEMMA GotoMoves ==
  ASSUME ConsentTyped, NEW o \in Operators, NEW label \in ConsentLabels, NEW f,
         Goto(o, label, f), pc[o] \in ConsentLabels
  PROVE  /\ \A q \in Operators : ConsentMove(q)
         /\ pc' = [pc EXCEPT ![o] = label]
<1>1. /\ pc'[o] = label
      /\ \A q \in Operators \ {o} : pc'[q] = pc[q] /\ frame'[q] = frame[q]
  BY GotoFacts DEF ConsentTyped
<1>2. ASSUME NEW q \in Operators PROVE ConsentMove(q)
  BY <1>1 DEF ConsentMove
<1> QED
  BY <1>2 DEF Goto

LEMMA ConsentNextMoves ==
  ASSUME ConsentInv, pc \in [Operators -> ShareLabels], ConsentNext
  PROVE  /\ pc' \in [Operators -> ShareLabels]
         /\ \A q \in Operators : ConsentMove(q)
<1>1. ConsentTyped /\ \A o \in Operators : ConsentKnows(o)
  BY DEF ConsentInv
<1>2. CASE Tick
  BY <1>2 DEF Tick, ConsentMove
<1>3. ASSUME NEW o \in Operators, pc[o] \in ConsentLabels,
             \E label \in ConsentLabels : \E f : Goto(o, label, f)
      PROVE  /\ pc' \in [Operators -> ShareLabels]
             /\ \A q \in Operators : ConsentMove(q)
  <2>1. PICK label \in ConsentLabels : \E f : Goto(o, label, f)
    BY <1>3
  <2>2. PICK f : Goto(o, label, f)
    BY <2>1
  <2>3. pc' = [pc EXCEPT ![o] = label] /\ \A q \in Operators : ConsentMove(q)
    BY <1>1, <1>3, <2>2, GotoMoves
  <2>4. label \in ShareLabels
    BY DEF ConsentLabels, ShareLabels, SharePCs
  <2> QED
    BY <2>3, <2>4
<1>4. ASSUME NEW o \in Operators, NEW p \in Peers, NEW life \in Lifetimes, Grant(o, p, life)
      PROVE  pc[o] \in ConsentLabels /\ \E label \in ConsentLabels : \E f : Goto(o, label, f)
  <2>1. pc[o] = "idle" /\ \E f : Goto(o, "latest", f)
    BY <1>4 DEF Grant
  <2> QED
    BY <2>1 DEF ConsentLabels, ConsentPCs
<1>5. ASSUME NEW o \in Operators, ReadLatest(o)
      PROVE  pc[o] \in ConsentLabels /\ \E label \in ConsentLabels : \E f : Goto(o, label, f)
  <2>1. pc[o] = "latest" /\ \E f : Goto(o, "insert", f)
    BY <1>5 DEF ReadLatest
  <2> QED
    BY <2>1 DEF ConsentLabels, ConsentPCs
<1>6. ASSUME NEW o \in Operators, InsertConsent(o)
      PROVE  pc[o] \in ConsentLabels /\ \E label \in ConsentLabels : \E f : Goto(o, label, f)
  <2>1. pc[o] = "insert" /\ \E f : Goto(o, "idle", f)
    BY <1>6 DEF InsertConsent
  <2> QED
    BY <2>1 DEF ConsentLabels, ConsentPCs
<1>7. ASSUME NEW o \in Operators, NEW c \in DOMAIN consents, SelectForRevoke(o, c, "idle")
      PROVE  pc[o] \in ConsentLabels /\ \E label \in ConsentLabels : \E f : Goto(o, label, f)
  <2>1. pc[o] = "idle" /\ \E f : Goto(o, "revoke", f)
    BY <1>7 DEF SelectForRevoke
  <2> QED
    BY <2>1 DEF ConsentLabels, ConsentPCs
<1>8. ASSUME NEW o \in Operators, NEW c \in DOMAIN consents, Reconfirm(o, c)
      PROVE  pc[o] \in ConsentLabels /\ \E label \in ConsentLabels : \E f : Goto(o, label, f)
  <2>1. pc[o] = "idle" /\ \E f : Goto(o, "reconfirm", f)
    BY <1>8 DEF Reconfirm
  <2> QED
    BY <2>1 DEF ConsentLabels, ConsentPCs
<1>9. ASSUME NEW o \in Operators, UpdateRevoked(o)
      PROVE  pc[o] \in ConsentLabels /\ \E label \in ConsentLabels : \E f : Goto(o, label, f)
  <2>1. pc[o] = "revoke" /\ frame[o].next \in {"idle", "notify"}
    BY <1>1, <1>9 DEF UpdateRevoked, ConsentKnows
  <2>2. \E label \in {"idle", "notify"} : \E f : Goto(o, label, f)
    BY <1>9, <2>1 DEF UpdateRevoked
  <2> QED
    BY <2>1, <2>2 DEF ConsentLabels, ConsentPCs
<1>10. ASSUME NEW o \in Operators, UpdateConfirmed(o)
      PROVE  pc[o] \in ConsentLabels /\ \E label \in ConsentLabels : \E f : Goto(o, label, f)
  <2>1. pc[o] = "reconfirm" /\ \E f : Goto(o, "idle", f)
    BY <1>10 DEF UpdateConfirmed
  <2> QED
    BY <2>1 DEF ConsentLabels, ConsentPCs
<1> QED
  BY <1>2, <1>3, <1>4, <1>5, <1>6, <1>7, <1>8, <1>9, <1>10 DEF ConsentNext

LEMMA ConsentStepKeeps ==
  ASSUME ExchangeInv, ConsentNext, UNCHANGED exchangeVars
  PROVE  ExchangeInv'
<1>1. ConsentInv /\ SharersInv /\ TablesInv /\ pc \in [Operators -> ShareLabels]
  BY DEF ExchangeInv, SharersInv
<1>2. ConsentInv' /\ NoRevival
  BY <1>1, ConsentNextKeeps, ConsentNextRevivesNothing
<1>3. UNCHANGED <<outbox, trust, requests, inbox, ingested, raced>>
  BY DEF exchangeVars
<1>4. pc' \in [Operators -> ShareLabels] /\ \A o \in Operators : ConsentMove(o)
  BY <1>1, ConsentNextMoves
<1>5. ASSUME NEW o \in Operators PROVE ShareKnows(o)'
  <2>1. ShareKnows(o) /\ DOMAIN consents \subseteq DOMAIN consents' /\ outbox' = outbox
    BY <1>1, <1>2, <1>3 DEF SharersInv, NoRevival
  <2>2. CASE pc'[o] = pc[o] /\ frame'[o] = frame[o]
    BY <2>1, <2>2 DEF ShareKnows
  <2>3. CASE pc'[o] \in ConsentLabels
    BY <2>3 DEF ShareKnows, ConsentLabels, ConsentPCs
  <2> QED
    BY <1>4, <2>2, <2>3 DEF ConsentMove
<1>6. SharersInv'
  BY <1>1, <1>3, <1>4, <1>5 DEF SharersInv
<1> QED
  BY <1>1, <1>2, <1>3, <1>6, TablesUntouched DEF ExchangeInv

-------------------------------------------------------------------------------
(* The exchange *)

LEMMA ExchangeInitHolds ==
  ASSUME Init
  PROVE  ExchangeInv
<1>1. ConsentInv
  BY ConsentInitHolds DEF Init
<1>2. SharersInv
  BY ExchangeConstants DEF Init, ConsentInit, SharersInv, ShareKnows, ShareLabels
<1>3. /\ outbox = <<>> /\ DOMAIN outbox = {} /\ Len(outbox) = 0
      /\ requests = <<>> /\ DOMAIN requests = {} /\ raced = {}
      /\ inbox = [p \in Peers |-> <<>>] /\ ingested = [p \in Peers |-> <<>>]
  BY DEF Init
<1>4. TablesTyped
  BY <1>3, EmptySeq, ExchangeConstants DEF TablesTyped
<1>5. ASSUME NEW p \in Peers PROVE TakenInOrder(p) /\ FedIsTaken(p)
  <2>1. Taken(p) = 1 .. 0
    BY <1>3 DEF Taken, Accepted
  <2>2. LastSeen(p) = 0
    BY <2>1, LastSeenIsLatest, LatestOfInterval
  <2> QED
    BY <1>3, <2>1, <2>2 DEF TakenInOrder, FedIsTaken
<1>6. IngestedOnce
  BY <1>3 DEF IngestedOnce
<1> QED
  BY <1>1, <1>2, <1>3, <1>4, <1>5, <1>6 DEF ExchangeInv, TablesInv

\* The consents and the operators do not see what the peers do.
LEMMA PeerSide ==
  ASSUME ExchangeInv, UNCHANGED <<consentVars, outbox, trust>>
  PROVE  ConsentInv' /\ SharersInv'
<1>1. UNCHANGED <<consents, clock, overlapped, pc, frame, outbox, trust>>
  BY DEF consentVars
<1>2. Quiet
  BY <1>1, BesideIsQuiet DEF ExchangeInv, ConsentInv, ConsentTyped, Idles
<1>3. SharersInv'
  BY <1>1 DEF ExchangeInv, SharersInv, ShareKnows
<1> QED
  BY <1>2, <1>3, QuietKeeps DEF ExchangeInv

LEMMA ExchangeNextKeeps ==
  ASSUME ExchangeInv, [Next]_vars
  PROVE  ExchangeInv'
<1>1. CASE ConsentNext /\ UNCHANGED exchangeVars
  BY <1>1, ConsentStepKeeps
<1>2. ASSUME NEW o \in Operators, OperatorStep(o) PROVE ExchangeInv'
  <2>1. ASSUME NEW c \in DOMAIN consents, NEW p \in Peers, NEW item \in Items, Ask(o, c, p, item)
        PROVE  ExchangeInv'
    BY <2>1, AskKeeps
  <2>2. ASSUME NEW c \in DOMAIN consents, Recall(o, c) PROVE ExchangeInv'
    BY <2>2, RecallKeeps
  <2> QED
    BY <1>2, <2>1, <2>2, RecordOutboundKeeps, PostKeeps, MarkSentKeeps, GiveUpKeeps, NotifyKeeps
       DEF OperatorStep
<1>3. ASSUME NEW r \in DOMAIN requests, RequestStep(r) PROVE ExchangeInv'
  <2>1. TablesInv'
    BY <1>3, ValidateKeeps, RecordInboundKeeps, IngestKeeps DEF RequestStep, ExchangeInv
  <2>2. UNCHANGED <<consentVars, outbox, trust>>
    BY <1>3 DEF RequestStep, Validate, RecordInbound, Ingest
  <2> QED
    BY <2>1, <2>2, PeerSide DEF ExchangeInv
<1>4. CASE NodeCrash
  BY <1>4, NodeCrashKeeps
<1>5. ASSUME NEW p \in Peers, PeerCrash(p) PROVE ExchangeInv'
  <2>1. TablesInv' /\ UNCHANGED <<consentVars, outbox, trust>>
    BY <1>5, PeerCrashKeeps DEF ExchangeInv, PeerCrash
  <2> QED
    BY <2>1, PeerSide DEF ExchangeInv
<1>6. CASE UNCHANGED vars
  <2>1. UNCHANGED <<consentVars, outbox, trust, requests, inbox, ingested, raced>>
    BY <1>6 DEF vars, consentVars
  <2> QED
    BY <2>1, PeerSide, TablesUntouched DEF ExchangeInv
<1> QED
  BY <1>1, <1>2, <1>3, <1>4, <1>5, <1>6 DEF Next

\* What every state of the exchange satisfies, whatever is lost, repeated or dies.
THEOREM ExchangeInvariance == Spec => []ExchangeInv
<1>1. Init => ExchangeInv
  BY ExchangeInitHolds
<1>2. ExchangeInv /\ [Next]_vars => ExchangeInv'
  BY ExchangeNextKeeps
<1> QED
  BY <1>1, <1>2, PTL DEF Spec

\* Type correctness of the exchange: every table, and every place of every thread,
\* keeps its type (api/federation/local.py, audit.py, consent.py).
THEOREM ExchangeTypeCorrect == Spec => []TypeOK
<1>1. ExchangeInv => TypeOK
  <2> SUFFICES ASSUME ExchangeInv PROVE TypeOK
    OBVIOUS
  <2>1. ConsentTypeOK
    <3>1. IsFiniteSet(Granting) /\ Len(consents) + Cardinality(Granting) <= MaxConsents
      BY DEF ExchangeInv, ConsentInv, RoomForGrants
    <3>2. Cardinality(Granting) \in Nat /\ Len(consents) \in Nat
      BY <3>1, FS_CardinalityType, RowFacts DEF ExchangeInv, ConsentInv
    <3>3. Len(consents) <= MaxConsents
      BY <3>1, <3>2, ConsentConstants
    <3> QED
      BY <3>3 DEF ExchangeInv, ConsentInv, ConsentTyped, ConsentTypeOK
  <2> QED
    BY <2>1 DEF ExchangeInv, SharersInv, TablesInv, TablesTyped, TypeOK, ShareLabels
<1> QED
  BY <1>1, ExchangeInvariance, PTL

\* A peer feeds a message to its graph at most once unless two posts of it are handled
\* at the same moment, however often it is posted and whoever dies (receive,
\* validate_inbound_sequence, record_inbound).
THEOREM IngestedAtMostOnce == Spec => []IngestedOnce
<1>1. ExchangeInv => IngestedOnce
  BY DEF ExchangeInv, TablesInv
<1> QED
  BY <1>1, ExchangeInvariance, PTL

\* When share() returns the peer's audit id, the peer has accepted that message and all
\* before it, and the item may leave this node and enter that one (share, receive,
\* validate_inbound_sequence, check_outbound, can_receive).
THEOREM ReturnedIdAlwaysMeansAccepted == Spec => []ReturnedIdMeansAccepted
<1>1. ExchangeInv => ReturnedIdMeansAccepted
  <2> SUFFICES ASSUME ExchangeInv, NEW n \in DOMAIN outbox, outbox[n].remoteId
      PROVE  /\ outbox[n].item \notin {"barred", "hidden"}
             /\ \A m \in 1 .. n : AcceptedAt(outbox[n].to, m)
    BY DEF ReturnedIdMeansAccepted
  <2>1. TablesInv /\ TablesTyped /\ Took(n)
    BY DEF ExchangeInv, TablesInv
  <2>2. PICK p \in Peers : p = outbox[n].to
    BY <2>1, OutboxFacts
  <2>3. n \in Taken(p) /\ Passes(n)
    BY <2>1, <2>2 DEF Took
  <2>4. LastSeen(p) \in Nat /\ Taken(p) = 1 .. LastSeen(p)
    BY <2>1, OutboxFacts DEF TablesInv, TakenInOrder
  <2>5. \A m \in 1 .. n : m \in Taken(p)
    BY <2>3, <2>4
  <2>6. \A m \in Taken(p) : AcceptedAt(p, m)
    BY DEF Taken, Accepted, AcceptedAt
  <2> QED
    BY <2>2, <2>3, <2>5, <2>6 DEF Passes
<1> QED
  BY <1>1, ExchangeInvariance, PTL

-------------------------------------------------------------------------------
(* The exchange implements FedDelivery *)

\* What FedDelivery sees of a state.
InForce   == {g \in (1 .. MaxConsents) \X Peers : IsValid(g[1], g[2])}
Cleared   == [o \in Operators |-> IF pc[o] = "cleared" THEN {frame[o].to} ELSE {}]
Offered   == {<<outbox[n].to, n>> : n \in DOMAIN outbox}
TakenByAll == [p \in Peers |-> Taken(p)]

LEMMA DeliverySees ==
  /\ Delivery!vars = <<InForce, Cleared, Offered, TakenByAll>>
  /\ Delivery!vars' = <<InForce', Cleared', Offered', TakenByAll'>>
  BY DEF Delivery!vars, InForce, Cleared, Offered, TakenByAll, Taken, Accepted

LEMMA DecideStep ==
  ASSUME UNCHANGED <<Cleared, Offered, TakenByAll>>
  PROVE  Delivery!Next
<1>1. Delivery!Decide
  BY DEF Delivery!Decide, InForce, Cleared, Offered, TakenByAll, Taken, Accepted
<1> QED
  BY <1>1 DEF Delivery!Next

LEMMA ClearStep ==
  ASSUME NEW o \in Operators, NEW g \in InForce, Cleared' = [Cleared EXCEPT ![o] = {g[2]}],
         UNCHANGED <<InForce, Offered, TakenByAll>>
  PROVE  Delivery!Next
<1>1. Delivery!Clear(o)
  BY DEF Delivery!Clear, InForce, Cleared, Offered, TakenByAll, Taken, Accepted
<1> QED
  BY <1>1 DEF Delivery!Next

LEMMA OfferStep ==
  ASSUME NEW o \in Operators, NEW p \in Cleared[o], NEW n \in 1 .. MaxShares,
         Offered' = Offered \cup {<<p, n>>}, Cleared' = [Cleared EXCEPT ![o] = {}],
         UNCHANGED <<InForce, TakenByAll>>
  PROVE  Delivery!Next
<1>1. Delivery!Offer(o)
  BY DEF Delivery!Offer, InForce, Cleared, Offered, TakenByAll, Taken, Accepted
<1> QED
  BY <1>1 DEF Delivery!Next

\* FedDelivery extends FiniteSets by itself: the two cardinalities are one.
LEMMA SameCardinality ==
  ASSUME NEW S
  PROVE  Delivery!Cardinality(S) = Cardinality(S)
  BY DEF Delivery!Cardinality, Cardinality

LEMMA TakeStep ==
  ASSUME NEW p \in Peers,
         TakenByAll' = [TakenByAll EXCEPT ![p] = @ \cup {Cardinality(@) + 1}],
         <<p, Cardinality(TakenByAll[p]) + 1>> \in Offered,
         UNCHANGED <<InForce, Cleared, Offered>>
  PROVE  Delivery!Next
<1>1. Delivery!Take(p)
  BY SameCardinality DEF Delivery!Take, InForce, Cleared, Offered, TakenByAll, Taken, Accepted
<1> QED
  BY <1>1 DEF Delivery!Next

LEMMA ForgetStep ==
  ASSUME Cleared' = [o \in Operators |-> {}], UNCHANGED <<InForce, Offered, TakenByAll>>
  PROVE  Delivery!Next
<1>1. Delivery!Forget
  BY DEF Delivery!Forget, InForce, Cleared, Offered, TakenByAll, Taken, Accepted
<1> QED
  BY <1>1 DEF Delivery!Next

LEMMA StutterStep ==
  ASSUME UNCHANGED <<InForce, Cleared, Offered, TakenByAll>>
  PROVE  UNCHANGED Delivery!vars
  BY DeliverySees

LEMMA SameInForce ==
  ASSUME UNCHANGED <<consents, clock>>
  PROVE  InForce' = InForce
  BY DEF InForce, IsValid, Revoked, Expired

LEMMA SameTakenByAll ==
  ASSUME inbox' = inbox
  PROVE  TakenByAll' = TakenByAll
  BY DEF TakenByAll, Taken

\* An operator who moves on from one place to another, neither of them "cleared".
LEMMA SameCleared ==
  ASSUME ConsentTyped, NEW o \in Operators, NEW label, NEW f, Goto(o, label, f),
         pc[o] # "cleared", label # "cleared"
  PROVE  Cleared' = Cleared
<1>1. /\ pc'[o] = label
      /\ \A q \in Operators \ {o} : pc'[q] = pc[q] /\ frame'[q] = frame[q]
  BY GotoFacts DEF ConsentTyped
<1>2. ASSUME NEW q \in Operators
      PROVE  (IF pc'[q] = "cleared" THEN {frame'[q].to} ELSE {}) =
             (IF pc[q] = "cleared" THEN {frame[q].to} ELSE {})
  BY <1>1
<1> QED
  BY <1>2 DEF Cleared

LEMMA SameOffered ==
  ASSUME TablesTyped, OutboxKept, DOMAIN outbox' = DOMAIN outbox
  PROVE  Offered' = Offered
  BY DEF Offered, OutboxKept

LEMMA ConsentStepDecides ==
  ASSUME ExchangeInv, ConsentNext, UNCHANGED exchangeVars
  PROVE  Delivery!Next
<1>1. \A o \in Operators : ConsentMove(o)
  BY ConsentNextMoves DEF ExchangeInv, SharersInv
<1>2. ASSUME NEW q \in Operators
      PROVE  (IF pc'[q] = "cleared" THEN {frame'[q].to} ELSE {}) =
             (IF pc[q] = "cleared" THEN {frame[q].to} ELSE {})
  BY <1>1 DEF ConsentMove, ConsentLabels, ConsentPCs
<1>3. Cleared' = Cleared
  BY <1>2 DEF Cleared
<1>4. Offered' = Offered /\ TakenByAll' = TakenByAll
  BY SameTakenByAll DEF exchangeVars, Offered
<1> QED
  BY <1>3, <1>4, DecideStep

LEMMA AskClears ==
  ASSUME ExchangeInv, NEW o \in Operators, NEW c \in DOMAIN consents, NEW p \in Peers,
         NEW item \in Items, Ask(o, c, p, item)
  PROVE  Delivery!Next
<1> DEFINE f == [id |-> c, to |-> p, item |-> item]
<1>1. /\ Goto(o, "cleared", f) /\ f.to = p /\ IsValid(c, p)
      /\ UNCHANGED <<consents, clock, overlapped, outbox, trust, requests, inbox, ingested, raced>>
  BY DEF Ask, CheckOutbound, exchangeVars
<1> HIDE DEF f
<1>2. /\ pc'[o] = "cleared" /\ frame'[o] = f
      /\ \A q \in Operators \ {o} : pc'[q] = pc[q] /\ frame'[q] = frame[q]
  BY <1>1, GotoFacts DEF ExchangeInv, ConsentInv, ConsentTyped
<1>3. Cleared' = [Cleared EXCEPT ![o] = {p}]
  BY <1>1, <1>2 DEF Cleared
<1>4. Offered' = Offered /\ TakenByAll' = TakenByAll /\ InForce' = InForce
  BY <1>1, SameTakenByAll, SameInForce DEF Offered
<1>5. c \in 1 .. MaxConsents
  <2>1. Len(consents) + Cardinality(Granting) <= MaxConsents /\ Cardinality(Granting) \in Nat
    BY FS_CardinalityType DEF ExchangeInv, ConsentInv, RoomForGrants
  <2>2. DOMAIN consents = 1 .. Len(consents) /\ Len(consents) \in Nat
    BY RowFacts DEF ExchangeInv, ConsentInv
  <2> QED
    BY <2>1, <2>2, ConsentConstants
<1>6. <<c, p>> \in InForce
  BY <1>1, <1>5 DEF InForce
<1>7. PICK g \in InForce : g[2] = p
  BY <1>6
<1> QED
  BY <1>3, <1>4, <1>7, ClearStep

LEMMA RecordOutboundOffers ==
  ASSUME ExchangeInv, NEW o \in Operators, RecordOutbound(o)
  PROVE  Delivery!Next
<1>1. ConsentTyped /\ TablesTyped
  BY DEF ExchangeInv, ConsentInv, TablesInv
<1>2. PICK n \in Nat : n = Len(outbox) + 1
  BY <1>1, OutboxFacts
<1>3. PICK row : row = [to |-> frame[o].to, item |-> frame[o].item, consent |-> frame[o].id,
                        status |-> "pending", remoteId |-> FALSE]
  OBVIOUS
<1>4. /\ outbox' = Append(outbox, row) /\ Len(outbox) < MaxShares /\ pc[o] = "cleared"
      /\ \E f : Goto(o, "post", f)
      /\ UNCHANGED <<consents, clock, overlapped, trust, requests, inbox, ingested, raced>>
  BY <1>3 DEF RecordOutbound
<1>5. DOMAIN outbox = 1 .. n - 1 /\ n \in 1 .. MaxShares
  BY <1>1, <1>2, <1>4, OutboxFacts, ExchangeConstants
<1>6. /\ DOMAIN outbox' = 1 .. n /\ outbox'[n] = row
      /\ \A m \in 1 .. n - 1 : outbox'[m] = outbox[m]
  <2>1. outbox \in Seq(Outgoing)
    BY <1>1 DEF TablesTyped
  <2>2. ExchangeInv' /\ outbox' \in Seq(Outgoing)
    BY RecordOutboundKeeps DEF ExchangeInv, TablesInv, TablesTyped
  <2>3. Len(outbox') = n /\ DOMAIN outbox' = 1 .. Len(outbox')
    BY <1>2, <1>4, <2>1, <2>2, LenProperties
  <2> QED
    BY <1>2, <1>4, <2>1, <2>3
<1>7. DOMAIN outbox' = DOMAIN outbox \cup {n} /\ n \notin DOMAIN outbox
  BY <1>5, <1>6
<1>8. row.to = frame[o].to
  BY <1>3
<1>9. Offered' = Offered \cup {<<frame[o].to, n>>}
  BY <1>5, <1>6, <1>7, <1>8 DEF Offered
<1>10. /\ pc'[o] = "post"
       /\ \A q \in Operators \ {o} : pc'[q] = pc[q] /\ frame'[q] = frame[q]
  BY <1>1, <1>4, GotoFacts DEF ConsentTyped
<1>11. Cleared' = [Cleared EXCEPT ![o] = {}]
  BY <1>10 DEF Cleared
<1>12. frame[o].to \in Cleared[o]
  BY <1>4 DEF Cleared
<1>13. InForce' = InForce /\ TakenByAll' = TakenByAll
  BY <1>4, SameInForce, SameTakenByAll
<1>14. PICK p \in Cleared[o] : p = frame[o].to
  BY <1>12
<1> QED
  BY <1>5, <1>9, <1>11, <1>13, <1>14, OfferStep

LEMMA OutboxRowsStay ==
  ASSUME ExchangeInv, NEW o \in Operators, MarkSent(o) \/ GiveUp(o)
  PROVE  Offered' = Offered
<1>1. TablesTyped
  BY DEF ExchangeInv, TablesInv
<1>2. \/ outbox' = outbox
      \/ outbox' = [outbox EXCEPT ![frame[o].id].status = "failed"]
      \/ \E b : outbox' = [outbox EXCEPT ![frame[o].id].status = "sent",
                                         ![frame[o].id].remoteId = b]
  BY DEF MarkSent, GiveUp
<1>3. DOMAIN outbox' = DOMAIN outbox
  BY <1>2
<1>4. \A n \in DOMAIN outbox : outbox[n] \in Outgoing
  BY <1>1, OutboxFacts
<1>5. ASSUME NEW n \in DOMAIN outbox PROVE outbox'[n].to = outbox[n].to
  <2>1. outbox[n] \in Outgoing
    BY <1>4
  <2>2. \/ outbox'[n] = outbox[n]
        \/ outbox'[n] = [outbox[n] EXCEPT !.status = "failed"]
        \/ \E b : outbox'[n] = [outbox[n] EXCEPT !.status = "sent", !.remoteId = b]
    BY <1>2
  <2> QED
    BY <2>1, <2>2 DEF Outgoing
<1> QED
  BY <1>3, <1>5 DEF Offered

LEMMA OperatorRefines ==
  ASSUME ExchangeInv, NEW o \in Operators, OperatorStep(o)
  PROVE  [Delivery!Next]_(Delivery!vars)
<1>1. ConsentTyped
  BY DEF ExchangeInv, ConsentInv
<1>2. ASSUME NEW c \in DOMAIN consents, NEW p \in Peers, NEW item \in Items, Ask(o, c, p, item)
      PROVE  Delivery!Next
  BY <1>2, AskClears
<1>3. CASE RecordOutbound(o)
  BY <1>3, RecordOutboundOffers
<1>4. ASSUME Post(o) \/ Notify(o) \/ (\E c \in DOMAIN consents : Recall(o, c))
      PROVE  UNCHANGED Delivery!vars
  <2>1. UNCHANGED <<consents, clock, outbox, inbox>>
    BY <1>4 DEF Post, Notify, Recall, SelectForRevoke, exchangeVars
  <2>2. \E label \in {"await", "idle", "revoke", "notify"} : \E f : Goto(o, label, f)
    BY <1>4 DEF Post, Notify, Recall, SelectForRevoke
  <2>3. pc[o] # "cleared"
    BY <1>4 DEF Post, Notify, Recall, SelectForRevoke
  <2>4. Cleared' = Cleared
    BY <1>1, <2>2, <2>3, SameCleared
  <2>5. Offered' = Offered
    BY <2>1 DEF Offered
  <2> QED
    BY <2>1, <2>4, <2>5, SameInForce, SameTakenByAll, StutterStep
<1>5. ASSUME MarkSent(o) \/ GiveUp(o)
      PROVE  UNCHANGED Delivery!vars
  <2>1. UNCHANGED <<consents, clock, inbox>> /\ pc[o] = "await"
    BY <1>5 DEF MarkSent, GiveUp
  <2>2. \E label \in {"idle", "post"} : \E f : Goto(o, label, f)
    BY <1>5 DEF MarkSent, GiveUp
  <2>3. Cleared' = Cleared
    BY <1>1, <2>1, <2>2, SameCleared
  <2> QED
    BY <1>5, <2>1, <2>3, OutboxRowsStay, SameInForce, SameTakenByAll, StutterStep
<1> QED
  BY <1>2, <1>3, <1>4, <1>5 DEF OperatorStep

LEMMA PeerKeepsOffers ==
  ASSUME UNCHANGED <<consentVars, outbox>>
  PROVE  UNCHANGED <<InForce, Cleared, Offered>>
<1>1. UNCHANGED <<consents, clock, pc, frame, outbox>>
  BY DEF consentVars
<1> QED
  BY <1>1, SameInForce DEF Cleared, Offered

LEMMA RecordInboundTakes ==
  ASSUME ExchangeInv, NEW r \in DOMAIN requests, RecordInbound(r)
  PROVE  [Delivery!Next]_(Delivery!vars)
<1>1. TablesTyped
  BY DEF ExchangeInv, TablesInv
<1>2. PICK p \in Peers : p = PeerOf(r)
  BY <1>1, OutboxFacts DEF ExchangeInv, TablesInv, RequestKnows, PeerOf
<1>3. /\ r[1] \in DOMAIN outbox /\ r[1] \in Nat \ {0} /\ r[1] <= LastSeen(p) + 1
  BY <1>1, <1>2 DEF ExchangeInv, TablesInv, TablesTyped, RequestKnows, Posts, RecordInbound
<1>4. PICK row \in Incoming :
        /\ row.number = r[1]
        /\ inbox' = [inbox EXCEPT ![p] = Append(@, row)]
  <2>1. [number |-> r[1], rejected |-> outbox[r[1]].item \in {"barred", "hidden"}] \in Incoming
    <3>1. (outbox[r[1]].item \in {"barred", "hidden"}) \in BOOLEAN
      OBVIOUS
    <3> QED
      BY <1>3, <3>1 DEF Incoming
  <2> QED
    BY <1>2, <2>1 DEF RecordInbound, AppendInbound, Refused
<1>5. /\ Taken(p)' = Taken(p) \cup (IF row.rejected THEN {} ELSE {r[1]})
      /\ \A q \in Peers \ {p} : Taken(q)' = Taken(q)
  BY <1>1, <1>4, InboxAppended
<1>6. UNCHANGED <<InForce, Cleared, Offered>>
  BY PeerKeepsOffers DEF RecordInbound
<1>7. PICK k \in Nat : k = LastSeen(p) /\ Taken(p) = 1 .. k
  BY DEF ExchangeInv, TablesInv, TakenInOrder
<1>8. CASE Taken(p)' = Taken(p)
  <2>1. TakenByAll' = TakenByAll
    BY <1>5, <1>8 DEF TakenByAll
  <2> QED
    BY <1>6, <2>1, StutterStep
<1>9. CASE Taken(p)' # Taken(p)
  <2>1. Taken(p)' = Taken(p) \cup {r[1]} /\ r[1] \notin Taken(p)
    BY <1>5, <1>9
  <2>2. r[1] = k + 1
    BY <1>3, <1>7, <2>1
  <2>3. Cardinality(Taken(p)) = k
    BY <1>7, FS_Interval
  <2>4. TakenByAll[p] = Taken(p)
    BY DEF TakenByAll
  <2>5. TakenByAll' = [TakenByAll EXCEPT ![p] = @ \cup {Cardinality(@) + 1}]
    BY <1>5, <2>1, <2>2, <2>3, <2>4 DEF TakenByAll
  <2>6. <<p, Cardinality(TakenByAll[p]) + 1>> \in Offered
    BY <1>2, <1>3, <2>2, <2>3, <2>4 DEF Offered, PeerOf
  <2> QED
    BY <1>6, <2>5, <2>6, TakeStep
<1> QED
  BY <1>8, <1>9

LEMMA StepRefines ==
  ASSUME ExchangeInv, [Next]_vars
  PROVE  [Delivery!Next]_(Delivery!vars)
<1>1. CASE ConsentNext /\ UNCHANGED exchangeVars
  BY <1>1, ConsentStepDecides
<1>2. ASSUME NEW o \in Operators, OperatorStep(o) PROVE [Delivery!Next]_(Delivery!vars)
  BY <1>2, OperatorRefines
<1>3. ASSUME NEW r \in DOMAIN requests, RequestStep(r) PROVE [Delivery!Next]_(Delivery!vars)
  <2>1. CASE RecordInbound(r)
    BY <2>1, RecordInboundTakes
  <2>2. CASE Validate(r) \/ Ingest(r)
    <3>1. UNCHANGED <<consentVars, outbox>> /\ inbox' = inbox
      BY <2>2 DEF Validate, Ingest
    <3> QED
      BY <3>1, PeerKeepsOffers, SameTakenByAll, StutterStep
  <2> QED
    BY <1>3, <2>1, <2>2 DEF RequestStep
<1>4. CASE NodeCrash
  <2>1. Cleared' = [o \in Operators |-> {}]
    BY <1>4 DEF NodeCrash, Cleared
  <2>2. UNCHANGED <<InForce, Offered, TakenByAll>>
    BY <1>4, SameInForce, SameTakenByAll DEF NodeCrash, Offered
  <2> QED
    BY <2>1, <2>2, ForgetStep
<1>5. ASSUME NEW p \in Peers, PeerCrash(p) PROVE [Delivery!Next]_(Delivery!vars)
  <2>1. UNCHANGED <<consentVars, outbox>> /\ inbox' = inbox
    BY <1>5 DEF PeerCrash
  <2> QED
    BY <2>1, PeerKeepsOffers, SameTakenByAll, StutterStep
<1>6. CASE UNCHANGED vars
  <2>1. UNCHANGED <<consentVars, outbox>> /\ inbox' = inbox
    BY <1>6 DEF vars, consentVars
  <2> QED
    BY <2>1, PeerKeepsOffers, SameTakenByAll, StutterStep
<1> QED
  BY <1>1, <1>2, <1>3, <1>4, <1>5, <1>6 DEF Next

\* The exchange implements FedDelivery: whatever is lost, repeated, overtaken or dies, a
\* peer takes the messages in the order of their numbers, none skipped, each offered by
\* an operator who had asked while a consent was in force (share, check_outbound,
\* receive, validate_inbound_sequence, record_inbound).
THEOREM ExchangeImplementsDelivery == Spec => ImplementsDelivery
<1>1. Init => Delivery!Init
  <2> SUFFICES ASSUME Init PROVE Delivery!Init
    OBVIOUS
  <2>1. InForce = {}
    BY DEF Init, ConsentInit, InForce, IsValid
  <2>2. Cleared = [o \in Operators |-> {}] /\ Offered = {} /\ TakenByAll = [p \in Peers |-> {}]
    BY DEF Init, ConsentInit, Cleared, Offered, TakenByAll, Taken, Accepted
  <2> QED
    BY <2>1, <2>2
       DEF Delivery!Init, InForce, Cleared, Offered, TakenByAll, Taken, Accepted
<1>2. ExchangeInv /\ [Next]_vars => [Delivery!Next]_(Delivery!vars)
  BY StepRefines
<1> QED
  BY <1>1, <1>2, ExchangeInvariance, PTL DEF Spec, ImplementsDelivery, Delivery!Spec

-------------------------------------------------------------------------------
(* The inductive invariant of a node *)

NodeLabels == {"idle"} \cup ConsentPCs \cup NodePCs

\* The manager's lock is held from the first to the last of these.
LockLabels == {"writeKey", "syncDid", "listen", "extend", "ready", "shutdown"}

\* What start() has done at each of its steps.
LockKnows(o) ==
  /\ pc[o] \in LockLabels \ {"shutdown"} => adapter = None
  /\ pc[o] \in {"writeKey", "syncDid", "listen"} => server = None \/ server \in failedLate
  /\ pc[o] \in {"writeKey", "syncDid"} => frame[o].id \in 1 .. MaxKeys
  /\ pc[o] = "syncDid" => frame[o].id = keyFile
  /\ pc[o] \in {"listen", "extend", "ready"} => did = keyFile /\ nodeDid = keyFile
  /\ pc[o] \in {"extend", "ready"} => frame[o].id = opened /\ server = opened /\ opened # 0

LifeTyped ==
  /\ keyFile \in {Torn} \cup 0 .. MaxKeys /\ keys \in 0 .. MaxKeys
  /\ did \in 0 .. MaxKeys /\ nodeDid \in 0 .. MaxKeys
  /\ opened \in 0 .. MaxStarts /\ adapter \in 0 .. opened /\ server \in 0 .. opened
  /\ bound \in BOOLEAN /\ mdns \in BOOLEAN /\ failedLate \subseteq 1 .. opened

LockHeldOnce ==
  \A o, q \in Operators : pc[o] \in LockLabels /\ pc[q] \in LockLabels => o = q

LifeInv ==
  /\ LifeTyped /\ LockHeldOnce
  /\ \A o \in Operators : LockKnows(o)
  /\ StartedNodeIsWhole

PinKnows(o) ==
  /\ pc[o] = "pin" => frame[o].id \in Peers /\ frame[o].cert \in Certs
  /\ pc[o] = "approve" => /\ frame[o].id \in Peers /\ frame[o].cert \in Certs
                          /\ frame[o].rotations \in 1 .. MaxRotations

Pins == {NoPin} \cup [cert : Certs, rotations : 0 .. MaxRotations]

PinsInv ==
  /\ pins \in [Peers -> Pins] /\ winners \in [Peers -> Nat]
  /\ OnePinWins
  /\ \A o \in Operators : PinKnows(o)

\* A handshake under way is with a peer, at some address.
CallKnows(o) ==
  pc[o] = "handshake" =>
    frame[o] \in [id : Nat, peer : Peers, address : Address \ {Unknown}]

KnownInv ==
  /\ known \in [Peers -> Address]
  /\ \A o \in Operators : CallKnows(o)

BaseInv ==
  /\ ConsentInv
  /\ pc \in [Operators -> NodeLabels] /\ stage \in Stages
  /\ \A o \in Operators : pc[o] = "revoke" => frame[o].next = "idle"

NodeInv == BaseInv /\ LifeInv /\ PinsInv /\ KnownInv

-------------------------------------------------------------------------------
(* Steps that leave a part of the node alone *)

Stays(o) == pc'[o] = pc[o] /\ frame'[o] = frame[o]

EntersNone(labels) == \A o \in Operators : Stays(o) \/ pc'[o] \notin labels
LeavesNone(labels) == \A o \in Operators : Stays(o) \/ pc[o] \notin labels

LEMMA GotoEnters ==
  ASSUME BaseInv, NEW o \in Operators, NEW label, NEW f, Goto(o, label, f)
  PROVE  /\ \A labels : label \notin labels => EntersNone(labels)
         /\ \A labels : pc[o] \notin labels => LeavesNone(labels)
         /\ pc'[o] = label /\ frame'[o] = f
         /\ \A q \in Operators : q # o => Stays(q)
<1>1. /\ pc'[o] = label /\ frame'[o] = f
      /\ \A q \in Operators \ {o} : pc'[q] = pc[q] /\ frame'[q] = frame[q]
  BY GotoFacts DEF BaseInv, ConsentInv, ConsentTyped
<1> QED
  BY <1>1 DEF EntersNone, LeavesNone, Stays

LEMMA BaseGoto ==
  ASSUME BaseInv, UNCHANGED rest, NEW o \in Operators, NEW label \in NodeLabels \ ConsentPCs, NEW f,
         Goto(o, label, f)
  PROVE  BaseInv'
<1>1. UNCHANGED <<consents, clock, overlapped, stage>>
  BY DEF rest
<1>2. ConsentInv'
  BY <1>1, GotoBeside, QuietKeeps DEF BaseInv, ConsentInv
<1>3. pc' \in [Operators -> NodeLabels]
  BY DEF BaseInv, Goto
<1>4. ASSUME NEW q \in Operators, pc'[q] = "revoke" PROVE frame'[q].next = "idle"
  <2>1. q # o
    BY <1>4, GotoEnters DEF ConsentPCs
  <2>2. Stays(q)
    BY <2>1, GotoEnters
  <2> QED
    BY <1>4, <2>2 DEF BaseInv, Stays
<1> QED
  BY <1>1, <1>2, <1>3, <1>4 DEF BaseInv

LEMMA LifeBesidePort ==
  ASSUME LifeInv, UNCHANGED <<identity, nodeDid, adapter, server, opened, mdns, failedLate>>,
         bound' \in BOOLEAN, EntersNone(LockLabels), LeavesNone(LockLabels)
  PROVE  LifeInv'
<1>1. UNCHANGED <<keyFile, keys, did, nodeDid, adapter, server, opened, mdns, failedLate>>
  BY DEF identity
<1>2. \A o \in Operators : pc[o] \in LockLabels \/ pc'[o] \in LockLabels => Stays(o)
  BY DEF EntersNone, LeavesNone
<1>3. LifeTyped'
  BY <1>1 DEF LifeInv, LifeTyped
<1>4. LockHeldOnce'
  BY <1>2 DEF LifeInv, LockHeldOnce, Stays
<1>5. ASSUME NEW o \in Operators PROVE LockKnows(o)'
  <2>1. CASE pc'[o] \in LockLabels
    <3>1. Stays(o) /\ LockKnows(o)
      BY <1>2, <2>1 DEF LifeInv
    <3> QED
      BY <1>1, <3>1 DEF LockKnows, Stays
  <2>2. CASE pc'[o] \notin LockLabels
    BY <2>2 DEF LockKnows, LockLabels
  <2> QED
    BY <2>1, <2>2
<1>6. Locked => Locked'
  <2> SUFFICES ASSUME NEW o \in Operators, pc[o] \in LockLabels PROVE Locked'
    BY DEF Locked, LockLabels
  <2>1. pc'[o] \in LockLabels
    BY <1>2 DEF Stays
  <2> QED
    BY <2>1 DEF Locked, LockLabels
<1>7. StartedNodeIsWhole'
  BY <1>1, <1>6 DEF LifeInv, StartedNodeIsWhole, ServedWhileStarted, IdentityAgrees
<1> QED
  BY <1>3, <1>4, <1>5, <1>7 DEF LifeInv

LEMMA LifeQuiet ==
  ASSUME LifeInv, UNCHANGED <<identity, lifecycle>>,
         EntersNone(LockLabels), LeavesNone(LockLabels)
  PROVE  LifeInv'
<1>1. UNCHANGED <<identity, nodeDid, adapter, server, opened, bound, mdns, failedLate>>
  BY DEF lifecycle
<1>2. bound \in BOOLEAN
  BY DEF LifeInv, LifeTyped
<1>3. bound' \in BOOLEAN
  BY <1>1, <1>2
<1> QED
  BY <1>1, <1>3, LifeBesidePort

LEMMA PinsQuiet ==
  ASSUME PinsInv, UNCHANGED store, EntersNone({"pin", "approve"})
  PROVE  PinsInv'
<1>1. UNCHANGED <<pins, winners>>
  BY DEF store
<1>2. ASSUME NEW o \in Operators PROVE PinKnows(o)'
  <2>1. PinKnows(o) /\ (Stays(o) \/ pc'[o] \notin {"pin", "approve"})
    BY DEF PinsInv, EntersNone
  <2> QED
    BY <2>1 DEF PinKnows, Stays
<1> QED
  BY <1>1, <1>2 DEF PinsInv, OnePinWins

LEMMA KnownQuiet ==
  ASSUME KnownInv, UNCHANGED known, EntersNone({"handshake"})
  PROVE  KnownInv'
<1>1. ASSUME NEW o \in Operators PROVE CallKnows(o)'
  <2>1. CallKnows(o) /\ (Stays(o) \/ pc'[o] # "handshake")
    BY DEF KnownInv, EntersNone
  <2> QED
    BY <2>1 DEF CallKnows, Stays
<1> QED
  BY <1>1 DEF KnownInv

-------------------------------------------------------------------------------
(* Steps of start() and stop(): whoever takes one holds the manager's lock. *)

LEMMA LockHolder ==
  ASSUME BaseInv, LifeInv, NEW o \in Operators, NEW label, NEW f, Goto(o, label, f),
         ~Locked \/ pc[o] \in LockLabels,
         LifeTyped', LockKnows(o)', StartedNodeIsWhole'
  PROVE  LifeInv'
<1>1. \A q \in Operators : q # o => pc[q] \notin LockLabels
  <2>1. CASE ~Locked
    BY <2>1 DEF Locked, LockLabels
  <2>2. CASE pc[o] \in LockLabels
    BY <2>2 DEF LifeInv, LockHeldOnce
  <2> QED
    BY <2>1, <2>2
<1>2. \A q \in Operators : q # o => pc'[q] \notin LockLabels
  BY <1>1, GotoEnters DEF Stays
<1>3. LockHeldOnce'
  BY <1>2 DEF LockHeldOnce
<1>4. ASSUME NEW q \in Operators, q # o PROVE LockKnows(q)'
  BY <1>2, <1>4 DEF LockKnows, LockLabels
<1>5. \A q \in Operators : LockKnows(q)'
  BY <1>4
<1> QED
  BY <1>3, <1>5 DEF LifeInv

LEMMA LockStep ==
  ASSUME NodeInv, UNCHANGED rest, UNCHANGED <<known, store, opened>>,
         NEW o \in Operators, NEW label \in LockLabels \cup {"idle"}, NEW f, Goto(o, label, f),
         ~Locked \/ pc[o] \in LockLabels,
         LifeTyped', LockKnows(o)', StartedNodeIsWhole'
  PROVE  NodeInv'
<1>1. BaseInv /\ LifeInv /\ PinsInv /\ KnownInv
  BY DEF NodeInv
<1>2. label \in NodeLabels \ ConsentPCs /\ label \notin {"pin", "approve"} /\ label # "handshake"
  BY DEF LockLabels, NodeLabels, NodePCs, ConsentPCs
<1>3. BaseInv'
  BY <1>1, <1>2, BaseGoto
<1>4. LifeInv'
  BY <1>1, LockHolder
<1>5. EntersNone({"pin", "approve"}) /\ EntersNone({"handshake"})
  BY <1>1, <1>2, GotoEnters
<1>6. PinsInv' /\ KnownInv'
  BY <1>1, <1>5, PinsQuiet, KnownQuiet
<1> QED
  BY <1>3, <1>4, <1>6 DEF NodeInv

LEMMA NodeUnchanged ==
  ASSUME NodeInv, UNCHANGED nodeVars
  PROVE  NodeInv'
<1>1. /\ UNCHANGED consentVars
      /\ UNCHANGED <<stage, keyFile, keys, did, nodeDid, adapter, server, opened, bound, mdns,
                     failedLate, known, pins, winners>>
  BY DEF nodeVars, identity, lifecycle, store
<1>2. UNCHANGED <<consents, clock, overlapped, pc, frame>>
  BY <1>1 DEF consentVars
<1>3. Operators = Operators' /\ EntersNone(LockLabels) /\ LeavesNone(LockLabels)
      /\ EntersNone({"pin", "approve"}) /\ EntersNone({"handshake"})
  BY <1>2 DEF EntersNone, LeavesNone, Stays
<1>4. UNCHANGED <<identity, lifecycle, store, opened>>
  BY <1>1 DEF identity, lifecycle, store
<1>5. LifeInv' /\ PinsInv' /\ KnownInv'
  BY <1>1, <1>3, <1>4, LifeQuiet, PinsQuiet, KnownQuiet DEF NodeInv
<1>6. ConsentInv'
  BY <1>2, ConsentUnchanged DEF NodeInv, BaseInv, consentVars
<1>7. BaseInv'
  BY <1>1, <1>2, <1>6 DEF NodeInv, BaseInv
<1> QED
  BY <1>5, <1>7 DEF NodeInv

LEMMA NodeMaxima == MaxRotations \in Nat /\ MaxKeys \in Nat /\ MaxStarts \in Nat
BY NodeConstants

LEMMA StartKeeps ==
  ASSUME NodeInv, NEW o \in Operators, Start(o)
  PROVE  NodeInv'
<1>1. /\ UNCHANGED rest
      /\ UNCHANGED <<adapter, server, opened, bound, mdns, failedLate, known, store>>
      /\ adapter = None /\ ~Locked
      /\ LoadKey(o) \/ CreateKey(o) \/ StartRefused(o)
  BY DEF Start
<1>2. BaseInv /\ LifeInv /\ LifeTyped /\ StartedNodeIsWhole
  BY DEF NodeInv, LifeInv
<1>3. server = None \/ server \in failedLate
  BY <1>1, <1>2 DEF StartedNodeIsWhole, ServedWhileStarted
<1>4. CASE LoadKey(o)
  <2>1. /\ keyFile \in 1 .. MaxKeys /\ did' = keyFile /\ nodeDid' = keyFile
        /\ UNCHANGED <<keyFile, keys>> /\ Goto(o, "listen", NoFrame)
    BY <1>2, <1>4, NodeMaxima DEF LoadKey, LifeTyped, Torn
  <2>2. pc'[o] = "listen"
    BY <1>2, <2>1, GotoEnters
  <2>3. LifeTyped'
    BY <1>1, <1>2, <2>1, NodeMaxima DEF LifeTyped
  <2>4. LockKnows(o)'
    BY <1>1, <1>3, <2>1, <2>2 DEF LockKnows
  <2>5. Locked'
    BY <2>2 DEF Locked
  <2>6. StartedNodeIsWhole'
    BY <1>1, <2>1, <2>5 DEF StartedNodeIsWhole, ServedWhileStarted, IdentityAgrees
  <2>7. "listen" \in LockLabels \cup {"idle"}
    BY DEF LockLabels
  <2> QED
    BY <1>1, <2>1, <2>3, <2>4, <2>6, <2>7, LockStep
<1>5. CASE CreateKey(o)
  <2>1. /\ keys < MaxKeys /\ keyFile' = Torn /\ keys' = keys + 1
        /\ UNCHANGED <<did, nodeDid>> /\ Goto(o, "writeKey", [id |-> keys'])
    BY <1>5 DEF CreateKey
  <2>2. pc'[o] = "writeKey" /\ frame'[o] = [id |-> keys']
    BY <1>2, <2>1, GotoEnters
  <2>3. LifeTyped' /\ keys' \in 1 .. MaxKeys
    BY <1>1, <1>2, <2>1, NodeMaxima DEF LifeTyped
  <2>4. LockKnows(o)'
    BY <1>1, <1>3, <2>2, <2>3 DEF LockKnows
  <2>5. Locked'
    BY <2>2 DEF Locked
  <2>6. StartedNodeIsWhole'
    BY <1>1, <2>5 DEF StartedNodeIsWhole, ServedWhileStarted, IdentityAgrees
  <2>7. "writeKey" \in LockLabels \cup {"idle"}
    BY DEF LockLabels
  <2> QED
    BY <1>1, <2>1, <2>3, <2>4, <2>6, <2>7, LockStep
<1>6. CASE StartRefused(o)
  <2>1. UNCHANGED nodeVars
    BY <1>1, <1>6 DEF StartRefused, rest, nodeVars, consentVars, identity, lifecycle, store
  <2> QED
    BY <2>1, NodeUnchanged
<1> QED
  BY <1>1, <1>4, <1>5, <1>6

LEMMA WriteKeyKeeps ==
  ASSUME NodeInv, NEW o \in Operators, WriteKey(o)
  PROVE  NodeInv'
<1>1. /\ UNCHANGED rest
      /\ UNCHANGED <<keys, did, nodeDid, adapter, server, opened, bound, mdns, failedLate, known, store>>
      /\ pc[o] = "writeKey" /\ keyFile' = frame[o].id /\ Goto(o, "syncDid", frame[o])
  BY DEF WriteKey, lifecycle
<1>2. BaseInv /\ LifeTyped /\ LockKnows(o)
  BY DEF NodeInv, LifeInv
<1>3. pc'[o] = "syncDid" /\ frame'[o] = frame[o]
  BY <1>1, <1>2, GotoEnters
<1>4. frame[o].id \in 1 .. MaxKeys /\ adapter = None
  BY <1>1, <1>2 DEF LockKnows, LockLabels
<1>5. LifeTyped'
  BY <1>1, <1>2, <1>4, NodeMaxima DEF LifeTyped
<1>6. LockKnows(o)'
  BY <1>1, <1>2, <1>3 DEF LockKnows, LockLabels
<1>7. Locked'
  BY <1>3 DEF Locked
<1>8. StartedNodeIsWhole'
  BY <1>1, <1>4, <1>7 DEF StartedNodeIsWhole, ServedWhileStarted, IdentityAgrees
<1>9. "syncDid" \in LockLabels \cup {"idle"} /\ pc[o] \in LockLabels
  BY <1>1 DEF LockLabels
<1>10. UNCHANGED <<known, store, opened>>
  BY <1>1
<1> QED
  BY <1>1, <1>5, <1>6, <1>8, <1>9, <1>10, LockStep

LEMMA SyncDidKeeps ==
  ASSUME NodeInv, NEW o \in Operators, SyncDid(o)
  PROVE  NodeInv'
<1>1. /\ UNCHANGED rest
      /\ UNCHANGED <<keyFile, keys, adapter, server, opened, bound, mdns, failedLate, known, store>>
      /\ pc[o] = "syncDid" /\ did' = frame[o].id /\ nodeDid' = frame[o].id
      /\ Goto(o, "listen", NoFrame)
  BY DEF SyncDid
<1>2. BaseInv /\ LifeTyped /\ LockKnows(o)
  BY DEF NodeInv, LifeInv
<1>3. pc'[o] = "listen"
  BY <1>1, <1>2, GotoEnters
<1>4. frame[o].id \in 1 .. MaxKeys /\ frame[o].id = keyFile /\ adapter = None
  BY <1>1, <1>2 DEF LockKnows, LockLabels
<1>5. LifeTyped'
  BY <1>1, <1>2, <1>4, NodeMaxima DEF LifeTyped
<1>6. LockKnows(o)'
  BY <1>1, <1>2, <1>3, <1>4 DEF LockKnows, LockLabels
<1>7. Locked'
  BY <1>3 DEF Locked
<1>8. StartedNodeIsWhole'
  BY <1>1, <1>4, <1>7 DEF StartedNodeIsWhole, ServedWhileStarted, IdentityAgrees
<1>9. "listen" \in LockLabels \cup {"idle"} /\ pc[o] \in LockLabels
  BY <1>1 DEF LockLabels
<1>10. UNCHANGED <<known, store, opened>>
  BY <1>1
<1> QED
  BY <1>1, <1>5, <1>6, <1>8, <1>9, <1>10, LockStep

\* The peers of the configuration replace those known; no handshake under way is
\* on the adapter that is being started.
LEMMA ListenKeeps ==
  ASSUME NodeInv, NEW o \in Operators, Listen(o)
  PROVE  NodeInv'
<1>1. /\ UNCHANGED rest
      /\ UNCHANGED <<keyFile, keys, did, nodeDid, adapter, bound, mdns, failedLate, store>>
      /\ pc[o] = "listen" /\ opened < MaxStarts
      /\ opened' = opened + 1 /\ server' = opened + 1
      /\ known' = [p \in Peers |-> IF p \in StaticPeers THEN "configured" ELSE Unknown]
      /\ Goto(o, IF stage = "local" THEN "ready" ELSE "extend", [id |-> opened + 1])
  BY DEF Listen, identity
<1>2. PICK label \in {"ready", "extend"} : Goto(o, label, [id |-> opened + 1])
  BY <1>1
<1>3. BaseInv /\ LifeInv /\ LifeTyped /\ LockKnows(o) /\ PinsInv /\ KnownInv
  BY DEF NodeInv, LifeInv
<1>4. /\ pc'[o] \in {"ready", "extend"} /\ frame'[o] = [id |-> opened + 1]
      /\ \A q \in Operators : q # o => Stays(q)
  BY <1>2, <1>3, GotoEnters
<1>5. adapter = None /\ did = keyFile /\ nodeDid = keyFile
  BY <1>1, <1>3 DEF LockKnows, LockLabels
<1>6. opened \in Nat /\ opened' \in 1 .. MaxStarts
  BY <1>1, <1>3, NodeMaxima DEF LifeTyped
<1>7. LifeTyped'
  BY <1>1, <1>3, <1>5, <1>6, NodeMaxima DEF LifeTyped, None
<1>8. LockKnows(o)'
  BY <1>1, <1>4, <1>5, <1>6 DEF LockKnows
<1>9. Locked'
  BY <1>4 DEF Locked
<1>10. StartedNodeIsWhole'
  BY <1>1, <1>5, <1>9 DEF StartedNodeIsWhole, ServedWhileStarted, IdentityAgrees
<1>11. label \in NodeLabels \ ConsentPCs /\ label \notin {"pin", "approve"} /\ pc[o] \in LockLabels
  BY <1>1 DEF LockLabels, NodeLabels, NodePCs, ConsentPCs
<1>12. BaseInv' /\ LifeInv'
  BY <1>1, <1>2, <1>3, <1>7, <1>8, <1>10, <1>11, BaseGoto, LockHolder
<1>13. PinsInv'
  <2>1. EntersNone({"pin", "approve"})
    BY <1>2, <1>3, <1>11, GotoEnters
  <2> QED
    BY <1>1, <1>3, <2>1, PinsQuiet
<1>14. known' \in [Peers -> Address]
  BY <1>1 DEF Address
<1>15. ASSUME NEW q \in Operators PROVE CallKnows(q)'
  <2>1. CASE q = o
    BY <1>4, <2>1 DEF CallKnows
  <2>2. CASE q # o
    <3>1. Stays(q) /\ CallKnows(q)
      BY <1>3, <1>4, <2>2 DEF KnownInv
    <3> QED
      BY <1>1, <1>6, <3>1 DEF CallKnows, Stays
  <2> QED
    BY <2>1, <2>2
<1>16. KnownInv'
  BY <1>14, <1>15 DEF KnownInv
<1> QED
  BY <1>12, <1>13, <1>16 DEF NodeInv

LEMMA PortTakenKeeps ==
  ASSUME NodeInv, NEW o \in Operators, PortTaken(o)
  PROVE  NodeInv'
<1>1. /\ UNCHANGED rest
      /\ UNCHANGED <<keyFile, keys, did, nodeDid, adapter, server, opened, bound, mdns, failedLate,
                     known, store>>
      /\ pc[o] = "listen"
      /\ Goto(o, "idle", NoFrame)
  BY DEF PortTaken, identity, lifecycle
<1>2. BaseInv /\ LifeTyped /\ LockKnows(o)
  BY DEF NodeInv, LifeInv
<1>3. pc'[o] = "idle"
  BY <1>1, <1>2, GotoEnters
<1>4. adapter = None /\ (server = None \/ server \in failedLate)
  BY <1>1, <1>2 DEF LockKnows, LockLabels
<1>5. LifeTyped'
  BY <1>1, <1>2 DEF LifeTyped
<1>6. LockKnows(o)'
  BY <1>3 DEF LockKnows, LockLabels
<1>7. StartedNodeIsWhole'
  BY <1>1, <1>4 DEF StartedNodeIsWhole, ServedWhileStarted, IdentityAgrees
<1>8. "idle" \in LockLabels \cup {"idle"} /\ pc[o] \in LockLabels
  BY <1>1 DEF LockLabels
<1>9. UNCHANGED <<known, store, opened>>
  BY <1>1
<1> QED
  BY <1>1, <1>5, <1>6, <1>7, <1>8, <1>9, LockStep

\* What start() still has to do after it opened the port.
LEMMA ExtendKnows ==
  ASSUME NodeInv, NEW o \in Operators, pc[o] \in {"extend", "ready"}
  PROVE  /\ BaseInv /\ LifeTyped
         /\ adapter = None /\ did = keyFile /\ nodeDid = keyFile
         /\ frame[o].id = opened /\ server = opened /\ opened \in 1 .. MaxStarts
  BY NodeMaxima DEF NodeInv, LifeInv, LifeTyped, LockKnows, LockLabels

LEMMA StartDiscoveryKeeps ==
  ASSUME NodeInv, NEW o \in Operators, StartDiscovery(o)
  PROVE  NodeInv'
<1>1. /\ UNCHANGED rest
      /\ UNCHANGED <<keyFile, keys, did, nodeDid, adapter, server, opened, bound, failedLate, known, store>>
      /\ pc[o] = "extend" /\ mdns' \in BOOLEAN /\ Goto(o, "ready", frame[o])
  BY DEF StartDiscovery, identity
<1>2. /\ BaseInv /\ LifeTyped
      /\ adapter = None /\ did = keyFile /\ nodeDid = keyFile
      /\ frame[o].id = opened /\ server = opened /\ opened \in 1 .. MaxStarts
  BY <1>1, ExtendKnows
<1>3. pc'[o] = "ready" /\ frame'[o] = frame[o]
  BY <1>1, <1>2, GotoEnters
<1>4. LifeTyped'
  BY <1>1, <1>2 DEF LifeTyped
<1>5. LockKnows(o)'
  BY <1>1, <1>2, <1>3 DEF LockKnows
<1>6. Locked'
  BY <1>3 DEF Locked
<1>7. StartedNodeIsWhole'
  BY <1>1, <1>2, <1>6 DEF StartedNodeIsWhole, ServedWhileStarted, IdentityAgrees
<1>8. "ready" \in LockLabels \cup {"idle"} /\ pc[o] \in LockLabels
  BY <1>1 DEF LockLabels
<1>9. UNCHANGED <<known, store, opened>>
  BY <1>1
<1> QED
  BY <1>1, <1>4, <1>5, <1>7, <1>8, <1>9, LockStep

LEMMA StartTlsKeeps ==
  ASSUME NodeInv, NEW o \in Operators, StartTls(o)
  PROVE  NodeInv'
<1>1. /\ UNCHANGED rest
      /\ UNCHANGED <<keyFile, keys, did, nodeDid, adapter, server, opened, bound, mdns, known, store>>
      /\ pc[o] = "extend"
      /\ \/ Goto(o, "ready", frame[o]) /\ UNCHANGED failedLate
         \/ Goto(o, "idle", NoFrame) /\ failedLate' = failedLate \cup {frame[o].id}
  BY DEF StartTls, identity
<1>2. /\ BaseInv /\ LifeTyped
      /\ adapter = None /\ did = keyFile /\ nodeDid = keyFile
      /\ frame[o].id = opened /\ server = opened /\ opened \in 1 .. MaxStarts
  BY <1>1, ExtendKnows
<1>3. UNCHANGED <<known, store, opened>> /\ pc[o] \in LockLabels
  BY <1>1 DEF LockLabels
<1>4. CASE Goto(o, "ready", frame[o]) /\ UNCHANGED failedLate
  <2>1. pc'[o] = "ready" /\ frame'[o] = frame[o]
    BY <1>2, <1>4, GotoEnters
  <2>2. LifeTyped'
    BY <1>1, <1>2, <1>4 DEF LifeTyped
  <2>3. LockKnows(o)'
    BY <1>1, <1>2, <2>1 DEF LockKnows
  <2>4. Locked'
    BY <2>1 DEF Locked
  <2>5. StartedNodeIsWhole'
    BY <1>1, <1>2, <2>4 DEF StartedNodeIsWhole, ServedWhileStarted, IdentityAgrees
  <2>6. "ready" \in LockLabels \cup {"idle"}
    BY DEF LockLabels
  <2> QED
    BY <1>1, <1>3, <1>4, <2>2, <2>3, <2>5, <2>6, LockStep
<1>5. CASE Goto(o, "idle", NoFrame) /\ failedLate' = failedLate \cup {frame[o].id}
  <2>1. pc'[o] = "idle"
    BY <1>2, <1>5, GotoEnters
  <2>2. LifeTyped'
    BY <1>1, <1>2, <1>5 DEF LifeTyped
  <2>3. LockKnows(o)'
    BY <2>1 DEF LockKnows, LockLabels
  <2>4. StartedNodeIsWhole'
    BY <1>1, <1>2, <1>5 DEF StartedNodeIsWhole, ServedWhileStarted, IdentityAgrees
  <2>5. "idle" \in LockLabels \cup {"idle"}
    OBVIOUS
  <2> QED
    BY <1>1, <1>3, <1>5, <2>2, <2>3, <2>4, <2>5, LockStep
<1> QED
  BY <1>1, <1>4, <1>5

LEMMA ReadyKeeps ==
  ASSUME NodeInv, NEW o \in Operators, Ready(o)
  PROVE  NodeInv'
<1>1. /\ UNCHANGED rest
      /\ UNCHANGED <<keyFile, keys, did, nodeDid, server, opened, bound, mdns, failedLate, known, store>>
      /\ pc[o] = "ready" /\ adapter' = frame[o].id /\ Goto(o, "idle", NoFrame)
  BY DEF Ready, identity
<1>2. /\ BaseInv /\ LifeTyped
      /\ adapter = None /\ did = keyFile /\ nodeDid = keyFile
      /\ frame[o].id = opened /\ server = opened /\ opened \in 1 .. MaxStarts
  BY <1>1, ExtendKnows
<1>3. pc'[o] = "idle"
  BY <1>1, <1>2, GotoEnters
<1>4. LifeTyped'
  BY <1>1, <1>2 DEF LifeTyped
<1>5. LockKnows(o)'
  BY <1>3 DEF LockKnows, LockLabels
<1>6. StartedNodeIsWhole'
  BY <1>1, <1>2 DEF StartedNodeIsWhole, ServedWhileStarted, IdentityAgrees
<1>7. "idle" \in LockLabels \cup {"idle"} /\ pc[o] \in LockLabels
  BY <1>1 DEF LockLabels
<1>8. UNCHANGED <<known, store, opened>>
  BY <1>1
<1> QED
  BY <1>1, <1>4, <1>5, <1>6, <1>7, <1>8, LockStep

LEMMA StopKeeps ==
  ASSUME NodeInv, NEW o \in Operators, Stop(o)
  PROVE  NodeInv'
<1>1. /\ UNCHANGED rest
      /\ UNCHANGED <<keyFile, keys, did, nodeDid, adapter, server, opened, bound, failedLate, known, store>>
      /\ ~Locked /\ mdns' = FALSE /\ Goto(o, "shutdown", NoFrame)
  BY DEF Stop, identity
<1>2. BaseInv /\ LifeTyped /\ StartedNodeIsWhole
  BY DEF NodeInv, LifeInv
<1>3. pc'[o] = "shutdown"
  BY <1>1, <1>2, GotoEnters
<1>4. LifeTyped'
  BY <1>1, <1>2 DEF LifeTyped
<1>5. LockKnows(o)'
  BY <1>3 DEF LockKnows
<1>6. Locked'
  BY <1>3 DEF Locked
<1>7. StartedNodeIsWhole'
  BY <1>1, <1>2, <1>6 DEF StartedNodeIsWhole, ServedWhileStarted, IdentityAgrees
<1>8. "shutdown" \in LockLabels \cup {"idle"}
  BY DEF LockLabels
<1>9. UNCHANGED <<known, store, opened>>
  BY <1>1
<1> QED
  BY <1>1, <1>4, <1>5, <1>7, <1>8, <1>9, LockStep

LEMMA ShutdownKeeps ==
  ASSUME NodeInv, NEW o \in Operators, Shutdown(o)
  PROVE  NodeInv'
<1>1. /\ UNCHANGED rest
      /\ UNCHANGED <<keyFile, keys, did, opened, mdns, failedLate, known, store>>
      /\ pc[o] = "shutdown" /\ adapter' = None /\ nodeDid' = None /\ server' = None /\ bound' = TRUE
      /\ Goto(o, "idle", NoFrame)
  BY DEF Shutdown, identity
<1>2. BaseInv /\ LifeTyped
  BY DEF NodeInv, LifeInv
<1>3. pc'[o] = "idle"
  BY <1>1, <1>2, GotoEnters
<1>4. LifeTyped'
  <2>1. bound' \in BOOLEAN /\ nodeDid' = 0 /\ adapter' = 0 /\ server' = 0
    BY <1>1 DEF None
  <2>2. UNCHANGED <<keyFile, keys, did, opened, mdns, failedLate>>
    BY <1>1
  <2> QED
    BY <1>2, <2>1, <2>2, NodeMaxima DEF LifeTyped
<1>5. LockKnows(o)'
  BY <1>3 DEF LockKnows, LockLabels
<1>6. StartedNodeIsWhole'
  BY <1>1 DEF StartedNodeIsWhole, ServedWhileStarted, IdentityAgrees
<1>7. "idle" \in LockLabels \cup {"idle"} /\ pc[o] \in LockLabels
  BY <1>1 DEF LockLabels
<1>8. UNCHANGED <<known, store, opened>>
  BY <1>1
<1> QED
  BY <1>1, <1>4, <1>5, <1>6, <1>7, <1>8, LockStep

\* The process dies: no thread holds the lock any more, no server listens.
LEMMA CrashKeeps ==
  ASSUME NodeInv, Crash
  PROVE  NodeInv'
<1>1. /\ pc' = [o \in Operators |-> "idle"] /\ frame' = [o \in Operators |-> NoFrame]
      /\ nodeDid' = None /\ adapter' = None /\ server' = None /\ bound' = FALSE /\ mdns' = FALSE
      /\ known' = [p \in Peers |-> Unknown]
      /\ UNCHANGED <<consents, clock, overlapped, stage, keyFile, keys, did, opened, failedLate,
                     pins, winners>>
  BY DEF Crash, rest, identity, store
<1>2. ConsentInv /\ ConsentTyped /\ LifeTyped /\ PinsInv /\ stage \in Stages
  BY DEF NodeInv, BaseInv, ConsentInv, LifeInv
<1>3. \A o \in Operators : pc'[o] = "idle"
  BY <1>1
<1>4. ConsentInv'
  <2>1. \A o \in Operators : Idles(o)
    BY <1>3 DEF Idles, ConsentPCs
  <2>2. Quiet
    BY <1>1, <1>2, <2>1, BesideIsQuiet
  <2> QED
    BY <1>2, <2>2, QuietKeeps
<1>5. BaseInv'
  BY <1>1, <1>2, <1>3, <1>4 DEF BaseInv, NodeLabels
<1>6. LifeInv'
  <2>1. LifeTyped'
    <3>1. bound' \in BOOLEAN /\ mdns' \in BOOLEAN /\ nodeDid' = 0 /\ adapter' = 0 /\ server' = 0
      BY <1>1 DEF None
    <3>2. UNCHANGED <<keyFile, keys, did, opened, failedLate>>
      BY <1>1
    <3> QED
      BY <1>2, <3>1, <3>2, NodeMaxima DEF LifeTyped
  <2>2. LockHeldOnce' /\ \A o \in Operators : LockKnows(o)'
    BY <1>3 DEF LockHeldOnce, LockKnows, LockLabels
  <2>3. StartedNodeIsWhole'
    BY <1>1 DEF StartedNodeIsWhole, ServedWhileStarted, IdentityAgrees
  <2> QED
    BY <2>1, <2>2, <2>3 DEF LifeInv
<1>7. PinsInv'
  <2>1. \A o \in Operators : PinKnows(o)'
    BY <1>3 DEF PinKnows
  <2> QED
    BY <1>1, <1>2, <2>1 DEF PinsInv, OnePinWins
<1>8. KnownInv'
  BY <1>1, <1>3 DEF KnownInv, CallKnows, Address
<1> QED
  BY <1>5, <1>6, <1>7, <1>8 DEF NodeInv

-------------------------------------------------------------------------------
(* Steps that leave the manager alone *)

\* The operator was and is outside start() and stop().
LEMMA BesideLock ==
  ASSUME NodeInv, UNCHANGED rest, UNCHANGED <<identity, lifecycle>>,
         NEW o \in Operators, NEW label \in NodeLabels \ (ConsentPCs \cup LockLabels), NEW f,
         Goto(o, label, f), pc[o] \notin LockLabels
  PROVE  BaseInv' /\ LifeInv'
<1>1. BaseInv' /\ BaseInv
  BY BaseGoto DEF NodeInv
<1>2. EntersNone(LockLabels) /\ LeavesNone(LockLabels)
  BY <1>1, GotoEnters
<1> QED
  BY <1>1, <1>2, LifeQuiet DEF NodeInv

\* The three labels at which an operator is then.
LEMMA BesideLabels ==
  /\ {"idle", "handshake", "pin", "approve"} \subseteq NodeLabels \ (ConsentPCs \cup LockLabels)
  /\ ConsentPCs \cap LockLabels = {}
  BY DEF NodeLabels, NodePCs, ConsentPCs, LockLabels

LEMMA CollectedKeeps ==
  ASSUME NodeInv, Collected
  PROVE  NodeInv'
<1>1. /\ UNCHANGED consentVars
      /\ UNCHANGED <<stage, identity, nodeDid, adapter, server, opened, mdns, failedLate, known, store>>
      /\ bound' \in BOOLEAN
  BY DEF Collected
<1>2. UNCHANGED <<consents, clock, overlapped, pc, frame>>
  BY <1>1 DEF consentVars
<1>3. /\ EntersNone(LockLabels) /\ LeavesNone(LockLabels)
      /\ EntersNone({"pin", "approve"}) /\ EntersNone({"handshake"})
  BY <1>2 DEF EntersNone, LeavesNone, Stays
<1>4. BaseInv'
  BY <1>1, <1>2, ConsentUnchanged DEF NodeInv, BaseInv
<1>5. LifeInv' /\ PinsInv' /\ KnownInv'
  BY <1>1, <1>3, LifeBesidePort, PinsQuiet, KnownQuiet DEF NodeInv
<1> QED
  BY <1>4, <1>5 DEF NodeInv

LEMMA PeerFoundKeeps ==
  ASSUME NodeInv, NEW p \in Peers, NEW a \in Addresses, PeerFound(p, a)
  PROVE  NodeInv'
<1>1. /\ UNCHANGED consentVars /\ UNCHANGED <<stage, identity, lifecycle, store>>
      /\ known' = [known EXCEPT ![p] = Announced(p, a)]
  BY DEF PeerFound
<1>2. UNCHANGED <<consents, clock, overlapped, pc, frame>> /\ UNCHANGED opened
  BY <1>1 DEF consentVars, lifecycle
<1>3. /\ EntersNone(LockLabels) /\ LeavesNone(LockLabels)
      /\ EntersNone({"pin", "approve"})
  BY <1>2 DEF EntersNone, LeavesNone, Stays
<1>4. BaseInv'
  BY <1>1, <1>2, ConsentUnchanged DEF NodeInv, BaseInv
<1>5. LifeInv' /\ PinsInv'
  BY <1>1, <1>3, LifeQuiet, PinsQuiet DEF NodeInv
<1>6. known \in [Peers -> Address]
  BY DEF NodeInv, KnownInv
<1>7. Announced(p, a) \in Address
  BY <1>6 DEF Announced, Address
<1>8. known' \in [Peers -> Address] /\ \A q \in Peers : known[q] # Unknown => known'[q] = known[q]
  BY <1>1, <1>6, <1>7 DEF Announced
<1>9. ASSUME NEW o \in Operators PROVE CallKnows(o)'
  <2>1. CallKnows(o)
    BY DEF NodeInv, KnownInv
  <2> QED
    BY <1>2, <1>8, <2>1 DEF CallKnows
<1> QED
  BY <1>4, <1>5, <1>8, <1>9 DEF NodeInv, KnownInv

LEMMA HandshakeKeeps ==
  ASSUME NodeInv, NEW o \in Operators, NEW p \in Peers, NEW a \in Address \ {Unknown},
         Handshake(o, p, a)
  PROVE  NodeInv'
<1>1. /\ UNCHANGED rest /\ UNCHANGED <<identity, lifecycle, known, store>>
      /\ pc[o] = "idle" /\ Goto(o, "handshake", [id |-> adapter, peer |-> p, address |-> a])
  BY DEF Handshake
<1>2. BaseInv /\ LifeTyped /\ PinsInv /\ KnownInv
  BY <1>1 DEF NodeInv, LifeInv
<1>3. "handshake" \in NodeLabels \ (ConsentPCs \cup LockLabels) /\ pc[o] \notin LockLabels
  BY <1>1, BesideLabels DEF LockLabels
<1>4. BaseInv' /\ LifeInv'
  BY <1>1, <1>3, BesideLock
<1>5. /\ pc'[o] = "handshake" /\ frame'[o] = [id |-> adapter, peer |-> p, address |-> a]
      /\ \A q \in Operators : q # o => Stays(q)
      /\ EntersNone({"pin", "approve"})
  BY <1>1, <1>2, GotoEnters
<1>6. PinsInv'
  BY <1>1, <1>2, <1>5, PinsQuiet
<1>7. adapter \in Nat
  BY <1>2, NodeMaxima DEF LifeTyped
<1>8. ASSUME NEW q \in Operators PROVE CallKnows(q)'
  <2>1. CASE q = o
    BY <1>5, <1>7, <2>1 DEF CallKnows, Address
  <2>2. CASE q # o
    <3>1. Stays(q) /\ CallKnows(q)
      BY <1>2, <1>5, <2>2 DEF KnownInv
    <3> QED
      BY <3>1 DEF CallKnows, Stays
  <2> QED
    BY <2>1, <2>2
<1> QED
  BY <1>1, <1>2, <1>4, <1>6, <1>8 DEF NodeInv, KnownInv

\* An answer moves the address of its own peer only, to that of its own call, on the
\* adapter the call was made on.
LEMMA AnswerMoves ==
  ASSUME NodeInv, NEW o \in Operators, HandshakeAnswer(o)
  PROVE  /\ known' \in [Peers -> Address]
         /\ \A p \in Peers : known'[p] # known[p] =>
              frame[o] = [id |-> opened, peer |-> p, address |-> known'[p]]
<1>1. /\ pc[o] = "handshake"
      /\ known' \in {known, IF frame[o].id # opened THEN known
                            ELSE [known EXCEPT ![frame[o].peer] = frame[o].address]}
  BY DEF HandshakeAnswer
<1>2. CallKnows(o) /\ known \in [Peers -> Address]
  BY DEF NodeInv, KnownInv
<1>3. PICK i \in Nat, q \in Peers, a \in Address : frame[o] = [id |-> i, peer |-> q, address |-> a]
  BY <1>1, <1>2 DEF CallKnows
<1>4. known' = known \/ (i = opened /\ known' = [known EXCEPT ![q] = a])
  BY <1>1, <1>3
<1> QED
  BY <1>2, <1>3, <1>4

LEMMA HandshakeAnswerKeeps ==
  ASSUME NodeInv, NEW o \in Operators, HandshakeAnswer(o)
  PROVE  NodeInv'
<1>1. /\ UNCHANGED rest /\ UNCHANGED <<identity, lifecycle, store>>
      /\ pc[o] = "handshake" /\ Goto(o, "idle", NoFrame)
  BY DEF HandshakeAnswer
<1>2. known' \in [Peers -> Address]
  BY AnswerMoves
<1>3. "idle" \in NodeLabels \ (ConsentPCs \cup LockLabels) /\ pc[o] \notin LockLabels
  BY <1>1, BesideLabels DEF LockLabels
<1>4. BaseInv' /\ LifeInv'
  BY <1>1, <1>3, BesideLock
<1>5. EntersNone({"pin", "approve"}) /\ EntersNone({"handshake"})
  BY <1>1, GotoEnters DEF NodeInv
<1>6. ASSUME NEW q \in Operators PROVE CallKnows(q)'
  <2>1. CallKnows(q) /\ (Stays(q) \/ pc'[q] # "handshake")
    BY <1>5 DEF NodeInv, KnownInv, EntersNone
  <2> QED
    BY <2>1 DEF CallKnows, Stays
<1> QED
  BY <1>1, <1>2, <1>4, <1>5, <1>6, PinsQuiet DEF NodeInv, KnownInv

-------------------------------------------------------------------------------
(* The table of pinned certificates *)

\* Whatever a step writes into the table, the rest of the node stays as it is.
LEMMA StoreStepKeeps ==
  ASSUME NodeInv, UNCHANGED rest, UNCHANGED <<identity, lifecycle, known>>,
         NEW o \in Operators, NEW label \in {"idle", "pin", "approve"}, NEW f, Goto(o, label, f),
         pc[o] \in {"idle", "pin", "approve"},
         pins' \in [Peers -> Pins], winners' \in [Peers -> Nat], OnePinWins', PinKnows(o)'
  PROVE  NodeInv'
<1>1. label \in NodeLabels \ (ConsentPCs \cup LockLabels) /\ pc[o] \notin LockLabels
  BY BesideLabels DEF LockLabels
<1>2. BaseInv' /\ LifeInv'
  BY <1>1, BesideLock
<1>3. EntersNone({"handshake"}) /\ \A q \in Operators : q # o => Stays(q)
  BY GotoEnters DEF NodeInv
<1>4. UNCHANGED <<known, opened>>
  BY DEF lifecycle
<1>5. KnownInv'
  BY <1>3, <1>4, KnownQuiet DEF NodeInv
<1>6. ASSUME NEW q \in Operators, q # o PROVE PinKnows(q)'
  BY <1>3, <1>6 DEF PinKnows, Stays, NodeInv, PinsInv
<1>7. \A q \in Operators : PinKnows(q)'
  BY <1>6
<1> QED
  BY <1>2, <1>5, <1>7 DEF NodeInv, PinsInv

LEMMA NoPinIsNone ==
  /\ NoPin \in Pins
  /\ \A c \in Certs : \A n : [cert |-> c, rotations |-> n] # NoPin
  BY NodeConstants DEF Pins, NoPin

LEMMA PinCertKeeps ==
  ASSUME NodeInv, NEW o \in Operators, NEW p \in Peers, NEW c \in Certs, PinCert(o, p, c)
  PROVE  NodeInv'
<1>1. /\ UNCHANGED rest /\ UNCHANGED <<identity, lifecycle, known>>
      /\ UNCHANGED <<pins, winners>>
      /\ pc[o] = "idle" /\ Goto(o, "pin", [id |-> p, cert |-> c])
  BY DEF PinCert, store
<1>2. pc'[o] = "pin" /\ frame'[o] = [id |-> p, cert |-> c]
  BY <1>1, GotoEnters DEF NodeInv
<1>3. PinKnows(o)'
  BY <1>2 DEF PinKnows
<1>4. /\ pins' \in [Peers -> Pins] /\ winners' \in [Peers -> Nat] /\ OnePinWins'
  BY <1>1 DEF NodeInv, PinsInv, OnePinWins
<1> QED
  BY <1>1, <1>3, <1>4, StoreStepKeeps

\* The INSERT that is let through is the first one since the peer had no row.
LEMMA InsertPinKeeps ==
  ASSUME NodeInv, NEW o \in Operators, InsertPin(o)
  PROVE  NodeInv'
<1>1. /\ UNCHANGED rest /\ UNCHANGED <<identity, lifecycle, known>>
      /\ pc[o] = "pin" /\ Goto(o, "idle", NoFrame)
      /\ IF pins[frame[o].id] = NoPin THEN Pin(o) ELSE UNCHANGED store
  BY DEF InsertPin
<1>2. /\ pins \in [Peers -> Pins] /\ winners \in [Peers -> Nat] /\ OnePinWins /\ PinKnows(o)
  BY DEF NodeInv, PinsInv
<1>3. pc'[o] = "idle"
  BY <1>1, GotoEnters DEF NodeInv
<1>4. PinKnows(o)'
  BY <1>3 DEF PinKnows
<1>5. PICK q \in Peers, c \in Certs : q = frame[o].id /\ c = frame[o].cert
  BY <1>1, <1>2 DEF PinKnows
<1>6. CASE pins[q] = NoPin
  <2>1. /\ pins' = [pins EXCEPT ![q] = [cert |-> c, rotations |-> 0]]
        /\ winners' = [winners EXCEPT ![q] = winners[q] + 1]
    BY <1>1, <1>2, <1>5, <1>6 DEF Pin
  <2>2. [cert |-> c, rotations |-> 0] \in Pins /\ [cert |-> c, rotations |-> 0] # NoPin
    BY NoPinIsNone, NodeMaxima DEF Pins
  <2>3. winners[q] = 0
    BY <1>2, <1>6 DEF OnePinWins
  <2>4. winners' \in [Peers -> Nat] /\ winners'[q] = 1
        /\ \A p \in Peers : p # q => winners'[p] = winners[p]
    BY <1>2, <2>1, <2>3
  <2>5. pins' \in [Peers -> Pins] /\ pins'[q] # NoPin
        /\ \A p \in Peers : p # q => pins'[p] = pins[p]
    BY <1>2, <2>1, <2>2
  <2>6. OnePinWins'
    BY <1>2, <2>4, <2>5 DEF OnePinWins
  <2> QED
    BY <1>1, <1>4, <2>4, <2>5, <2>6, StoreStepKeeps
<1>7. CASE pins[q] # NoPin
  <2>1. UNCHANGED <<pins, winners>>
    BY <1>1, <1>5, <1>7 DEF store
  <2>2. pins' \in [Peers -> Pins] /\ winners' \in [Peers -> Nat] /\ OnePinWins'
    BY <1>2, <2>1 DEF OnePinWins
  <2> QED
    BY <1>1, <1>4, <2>2, StoreStepKeeps
<1> QED
  BY <1>6, <1>7

LEMMA ApproveCertChangeKeeps ==
  ASSUME NodeInv, NEW o \in Operators, NEW p \in Peers, NEW c \in Certs, ApproveCertChange(o, p, c)
  PROVE  NodeInv'
<1>1. /\ UNCHANGED rest /\ UNCHANGED <<identity, lifecycle, known>>
      /\ UNCHANGED <<pins, winners>>
      /\ pc[o] = "idle" /\ pins[p] # NoPin /\ pins[p].rotations < MaxRotations
      /\ Goto(o, "approve", [id |-> p, cert |-> c, rotations |-> pins[p].rotations + 1])
  BY DEF ApproveCertChange, store
<1>2. /\ pc'[o] = "approve"
      /\ frame'[o] = [id |-> p, cert |-> c, rotations |-> pins[p].rotations + 1]
  BY <1>1, GotoEnters DEF NodeInv
<1>3. pins[p] \in [cert : Certs, rotations : 0 .. MaxRotations]
  BY <1>1 DEF NodeInv, PinsInv, Pins
<1>4. pins[p].rotations + 1 \in 1 .. MaxRotations
  BY <1>1, <1>3, NodeMaxima
<1>5. PinKnows(o)'
  BY <1>2, <1>4 DEF PinKnows
<1>6. pins' \in [Peers -> Pins] /\ winners' \in [Peers -> Nat] /\ OnePinWins'
  BY <1>1 DEF NodeInv, PinsInv, OnePinWins
<1> QED
  BY <1>1, <1>5, <1>6, StoreStepKeeps

LEMMA UpdatePinKeeps ==
  ASSUME NodeInv, NEW o \in Operators, UpdatePin(o)
  PROVE  NodeInv'
<1>1. /\ UNCHANGED rest /\ UNCHANGED <<identity, lifecycle, known>> /\ UNCHANGED winners
      /\ pc[o] = "approve" /\ Goto(o, "idle", NoFrame)
      /\ pins' = IF pins[frame[o].id] = NoPin THEN pins
                 ELSE [pins EXCEPT ![frame[o].id] = [cert      |-> frame[o].cert,
                                                     rotations |-> frame[o].rotations]]
  BY DEF UpdatePin
<1>2. /\ pins \in [Peers -> Pins] /\ winners \in [Peers -> Nat] /\ OnePinWins /\ PinKnows(o)
  BY DEF NodeInv, PinsInv
<1>3. pc'[o] = "idle"
  BY <1>1, GotoEnters DEF NodeInv
<1>4. PinKnows(o)'
  BY <1>3 DEF PinKnows
<1>5. PICK q \in Peers, c \in Certs, n \in 1 .. MaxRotations :
        q = frame[o].id /\ c = frame[o].cert /\ n = frame[o].rotations
  BY <1>1, <1>2 DEF PinKnows
<1>6. [cert |-> c, rotations |-> n] \in Pins /\ [cert |-> c, rotations |-> n] # NoPin
  BY NoPinIsNone, NodeMaxima DEF Pins
<1>7. /\ pins' \in [Peers -> Pins]
      /\ \A p \in Peers : pins'[p] = NoPin <=> pins[p] = NoPin
  BY <1>1, <1>2, <1>5, <1>6
<1>8. winners' \in [Peers -> Nat] /\ OnePinWins'
  BY <1>1, <1>2, <1>7 DEF OnePinWins
<1> QED
  BY <1>1, <1>4, <1>7, <1>8, StoreStepKeeps

LEMMA RemovePeerKeeps ==
  ASSUME NodeInv, NEW o \in Operators, NEW p \in Peers, RemovePeer(o, p)
  PROVE  NodeInv'
<1>1. /\ UNCHANGED consentVars /\ UNCHANGED <<stage, identity, lifecycle, known>>
      /\ pins' = [pins EXCEPT ![p] = NoPin] /\ winners' = [winners EXCEPT ![p] = 0]
  BY DEF RemovePeer
<1>2. UNCHANGED <<consents, clock, overlapped, pc, frame, opened>>
  BY <1>1 DEF consentVars, lifecycle
<1>3. /\ EntersNone(LockLabels) /\ LeavesNone(LockLabels) /\ EntersNone({"handshake"})
  BY <1>2 DEF EntersNone, LeavesNone, Stays
<1>4. BaseInv'
  BY <1>1, <1>2, ConsentUnchanged DEF NodeInv, BaseInv
<1>5. LifeInv' /\ KnownInv'
  BY <1>1, <1>2, <1>3, LifeQuiet, KnownQuiet DEF NodeInv
<1>6. /\ pins \in [Peers -> Pins] /\ winners \in [Peers -> Nat] /\ OnePinWins
      /\ \A o2 \in Operators : PinKnows(o2)
  BY DEF NodeInv, PinsInv
<1>7. /\ pins' \in [Peers -> Pins] /\ pins'[p] = NoPin
      /\ winners' \in [Peers -> Nat] /\ winners'[p] = 0
      /\ \A q \in Peers : q # p => pins'[q] = pins[q] /\ winners'[q] = winners[q]
  BY <1>1, <1>6, NoPinIsNone
<1>8. OnePinWins'
  BY <1>6, <1>7 DEF OnePinWins
<1>9. \A q \in Operators : PinKnows(q)'
  BY <1>2, <1>6 DEF PinKnows
<1> QED
  BY <1>4, <1>5, <1>7, <1>8, <1>9 DEF NodeInv, PinsInv

-------------------------------------------------------------------------------
(* Steps of the consents *)

\* A node's revocation is followed by nothing: it tells no peer.
ConsentGoto(o) ==
  /\ pc[o] \in {"idle"} \cup ConsentPCs
  /\ \E label \in {"idle"} \cup ConsentPCs : \E f :
       Goto(o, label, f) /\ (label = "revoke" => f.next = "idle")

LEMMA ConsentNextGoes ==
  ASSUME BaseInv, ConsentNext
  PROVE  UNCHANGED <<pc, frame>> \/ \E o \in Operators : ConsentGoto(o)
<1>1. CASE Tick
  BY <1>1 DEF Tick
<1>2. ASSUME NEW o \in Operators, NEW p \in Peers, NEW life \in Lifetimes, Grant(o, p, life)
      PROVE  ConsentGoto(o)
  <2>1. pc[o] = "idle" /\ \E f : Goto(o, "latest", f)
    BY <1>2 DEF Grant
  <2> QED
    BY <2>1 DEF ConsentGoto, ConsentPCs
<1>3. ASSUME NEW o \in Operators, ReadLatest(o) PROVE ConsentGoto(o)
  <2>1. pc[o] = "latest" /\ \E f : Goto(o, "insert", f)
    BY <1>3 DEF ReadLatest
  <2> QED
    BY <2>1 DEF ConsentGoto, ConsentPCs
<1>4. ASSUME NEW o \in Operators, InsertConsent(o) PROVE ConsentGoto(o)
  <2>1. pc[o] = "insert" /\ \E f : Goto(o, "idle", f)
    BY <1>4 DEF InsertConsent
  <2> QED
    BY <2>1 DEF ConsentGoto, ConsentPCs
<1>5. ASSUME NEW o \in Operators, NEW c \in DOMAIN consents, SelectForRevoke(o, c, "idle")
      PROVE  ConsentGoto(o)
  <2>1. pc[o] = "idle" /\ Goto(o, "revoke", [id |-> c, next |-> "idle"])
    BY <1>5 DEF SelectForRevoke
  <2> QED
    BY <2>1 DEF ConsentGoto, ConsentPCs
<1>6. ASSUME NEW o \in Operators, NEW c \in DOMAIN consents, Reconfirm(o, c)
      PROVE  ConsentGoto(o)
  <2>1. pc[o] = "idle" /\ \E f : Goto(o, "reconfirm", f)
    BY <1>6 DEF Reconfirm
  <2> QED
    BY <2>1 DEF ConsentGoto, ConsentPCs
<1>7. ASSUME NEW o \in Operators, UpdateRevoked(o) PROVE ConsentGoto(o)
  <2>1. pc[o] = "revoke" /\ frame[o].next = "idle"
    BY <1>7 DEF UpdateRevoked, BaseInv
  <2>2. \E f : Goto(o, "idle", f)
    BY <1>7, <2>1 DEF UpdateRevoked
  <2> QED
    BY <2>1, <2>2 DEF ConsentGoto, ConsentPCs
<1>8. ASSUME NEW o \in Operators, UpdateConfirmed(o) PROVE ConsentGoto(o)
  <2>1. pc[o] = "reconfirm" /\ \E f : Goto(o, "idle", f)
    BY <1>8 DEF UpdateConfirmed
  <2> QED
    BY <2>1 DEF ConsentGoto, ConsentPCs
<1> QED
  BY <1>1, <1>2, <1>3, <1>4, <1>5, <1>6, <1>7, <1>8 DEF ConsentNext

LEMMA NodeConsentStepKeeps ==
  ASSUME NodeInv, ConsentNext, UNCHANGED <<stage, identity, lifecycle, known, store>>
  PROVE  NodeInv'
<1>0. ConsentNext /\ UNCHANGED stage /\ UNCHANGED <<identity, lifecycle>>
      /\ UNCHANGED <<known, opened, store>>
  BY DEF lifecycle
<1>1. BaseInv /\ ConsentInv /\ ConsentInv'
  BY <1>0, ConsentNextKeeps DEF NodeInv, BaseInv
<1>2. /\ pc' \in [Operators -> NodeLabels]
      /\ \A q \in Operators : Stays(q) \/ {pc[q], pc'[q]} \subseteq {"idle"} \cup ConsentPCs
      /\ \A q \in Operators : pc'[q] = "revoke" => frame'[q].next = "idle"
  <2>1. CASE UNCHANGED <<pc, frame>>
    BY <1>1, <2>1 DEF BaseInv, Stays
  <2>2. ASSUME NEW o \in Operators, ConsentGoto(o)
        PROVE  /\ pc' \in [Operators -> NodeLabels]
               /\ \A q \in Operators : Stays(q) \/ {pc[q], pc'[q]} \subseteq {"idle"} \cup ConsentPCs
               /\ \A q \in Operators : pc'[q] = "revoke" => frame'[q].next = "idle"
    <3>0. PICK label \in {"idle"} \cup ConsentPCs :
            \E f : Goto(o, label, f) /\ (label = "revoke" => f.next = "idle")
      BY <2>2 DEF ConsentGoto
    <3>1. PICK f : Goto(o, label, f) /\ (label = "revoke" => f.next = "idle")
      BY <3>0
    <3>2. /\ pc'[o] = label /\ frame'[o] = f
          /\ \A q \in Operators : q # o => Stays(q)
      BY <1>1, <3>1, GotoEnters
    <3>3. label \in NodeLabels
      BY DEF NodeLabels
    <3>4. pc' \in [Operators -> NodeLabels]
      BY <1>1, <3>1, <3>3 DEF BaseInv, Goto
    <3>5. pc[o] \in {"idle"} \cup ConsentPCs
      BY <2>2 DEF ConsentGoto
    <3>6. \A q \in Operators : pc'[q] = "revoke" => frame'[q].next = "idle"
      BY <1>1, <3>1, <3>2 DEF BaseInv, Stays
    <3> QED
      BY <3>2, <3>4, <3>5, <3>6
  <2> QED
    BY <1>1, <2>1, <2>2, ConsentNextGoes
<1>3. BaseInv'
  BY <1>0, <1>1, <1>2 DEF BaseInv
<1>4. /\ EntersNone(LockLabels) /\ LeavesNone(LockLabels)
      /\ EntersNone({"pin", "approve"}) /\ EntersNone({"handshake"})
  <2>1. ({"idle"} \cup ConsentPCs) \cap (LockLabels \cup {"pin", "approve", "handshake"}) = {}
    BY DEF ConsentPCs, LockLabels
  <2> QED
    BY <1>2, <2>1 DEF EntersNone, LeavesNone
<1>5. LifeInv' /\ PinsInv' /\ KnownInv'
  BY <1>0, <1>4, LifeQuiet, PinsQuiet, KnownQuiet DEF NodeInv
<1> QED
  BY <1>3, <1>5 DEF NodeInv

-------------------------------------------------------------------------------
(* The theorems about a node *)

LEMMA NodeInitHolds ==
  ASSUME NodeInit
  PROVE  NodeInv
<1>1. /\ ConsentInit /\ stage \in Stages
      /\ keyFile = Absent /\ keys = 0 /\ did = None
      /\ nodeDid = None /\ adapter = None /\ server = None /\ opened = 0
      /\ bound = FALSE /\ mdns = FALSE /\ failedLate = {}
      /\ known = [p \in Peers |-> Unknown]
      /\ pins = [p \in Peers |-> NoPin] /\ winners = [p \in Peers |-> 0]
  BY DEF NodeInit
<1>2. /\ pc = [o \in Operators |-> "idle"] /\ \A o \in Operators : pc[o] = "idle"
  BY <1>1 DEF ConsentInit
<1>3. BaseInv
  BY <1>1, <1>2, ConsentInitHolds DEF BaseInv, NodeLabels
<1>4. LifeInv
  <2>1. LifeTyped
    <3>1. bound \in BOOLEAN /\ mdns \in BOOLEAN
      BY <1>1
    <3> QED
      BY <1>1, <3>1, NodeMaxima DEF LifeTyped, None, Absent
  <2>2. LockHeldOnce /\ \A o \in Operators : LockKnows(o)
    BY <1>2 DEF LockHeldOnce, LockKnows, LockLabels
  <2>3. StartedNodeIsWhole
    BY <1>1 DEF StartedNodeIsWhole, ServedWhileStarted, IdentityAgrees
  <2> QED
    BY <2>1, <2>2, <2>3 DEF LifeInv
<1>5. PinsInv
  BY <1>1, <1>2, NoPinIsNone DEF PinsInv, OnePinWins, PinKnows
<1>6. KnownInv
  BY <1>1, <1>2 DEF KnownInv, CallKnows, Address
<1> QED
  BY <1>3, <1>4, <1>5, <1>6 DEF NodeInv

LEMMA NodeNextKeeps ==
  ASSUME NodeInv, [NodeNext]_nodeVars
  PROVE  NodeInv'
<1>1. CASE ConsentNext /\ UNCHANGED <<stage, identity, lifecycle, known, store>>
  BY <1>1, NodeConsentStepKeeps
<1>2. ASSUME NEW o \in Operators, NodeStep(o) PROVE NodeInv'
  BY <1>2, StartKeeps, WriteKeyKeeps, SyncDidKeeps, ListenKeeps, PortTakenKeeps,
     StartDiscoveryKeeps, StartTlsKeeps, ReadyKeeps, StopKeeps, ShutdownKeeps DEF NodeStep
<1>3. ASSUME NEW o \in Operators, StoreStep(o) PROVE NodeInv'
  BY <1>3, PinCertKeeps, ApproveCertChangeKeeps, InsertPinKeeps, UpdatePinKeeps, RemovePeerKeeps
     DEF StoreStep
<1>4. ASSUME NEW o \in Operators, NEW p \in Peers,
             NEW a \in (Addresses \cup {known[p]}) \ {Unknown}, Handshake(o, p, a)
      PROVE  NodeInv'
  <2>1. a \in Address \ {Unknown}
    BY DEF Address, NodeInv, KnownInv
  <2> QED
    BY <1>4, <2>1, HandshakeKeeps
<1>5. ASSUME NEW o \in Operators, HandshakeAnswer(o) PROVE NodeInv'
  BY <1>5, HandshakeAnswerKeeps
<1>6. ASSUME NEW p \in Peers, NEW a \in Addresses, PeerFound(p, a) PROVE NodeInv'
  BY <1>6, PeerFoundKeeps
<1>7. CASE Collected
  BY <1>7, CollectedKeeps
<1>8. CASE Crash
  BY <1>8, CrashKeeps
<1>9. CASE UNCHANGED nodeVars
  BY <1>9, NodeUnchanged
<1> QED
  BY <1>1, <1>2, <1>3, <1>4, <1>5, <1>6, <1>7, <1>8, <1>9 DEF NodeNext

\* What every state of a node satisfies, wherever the process dies.
THEOREM NodeInvariance == NodeSpec => []NodeInv
<1>1. NodeInit => NodeInv
  BY NodeInitHolds
<1>2. NodeInv /\ [NodeNext]_nodeVars => NodeInv'
  BY NodeNextKeeps
<1> QED
  BY <1>1, <1>2, PTL DEF NodeSpec

LEMMA ConsentTypeHolds ==
  ASSUME ConsentInv
  PROVE  ConsentTypeOK
<1>1. IsFiniteSet(Granting) /\ Len(consents) + Cardinality(Granting) <= MaxConsents
  BY DEF ConsentInv, RoomForGrants
<1>2. Cardinality(Granting) \in Nat
  BY <1>1, FS_CardinalityType
<1>3. consents \in Seq(Consents) /\ clock \in 0 .. MaxTime /\ overlapped \in BOOLEAN
  BY DEF ConsentInv, ConsentTyped
<1>4. Len(consents) <= MaxConsents
  BY <1>1, <1>2, <1>3, ConsentConstants
<1> QED
  BY <1>3, <1>4 DEF ConsentTypeOK

LEMMA ChainHolds ==
  ASSUME ConsentInv
  PROVE  ChainBreaksOnlyByOverlap
  BY InTurnIsIntact DEF ConsentInv, ChainBreaksOnlyByOverlap

\* All other steps of a node leave the consents and the clock alone.
LEMMA NodeLeavesConsents ==
  ASSUME [NodeNext]_nodeVars
  PROVE  ConsentNext \/ UNCHANGED <<consents, clock>>
<1>1. CASE ConsentNext
  BY <1>1
<1>2. ASSUME NEW o \in Operators, NodeStep(o) PROVE UNCHANGED <<consents, clock>>
  BY <1>2 DEF NodeStep, Start, WriteKey, SyncDid, Listen, PortTaken, StartDiscovery, StartTls,
              Ready, Stop, Shutdown, rest
<1>3. ASSUME NEW o \in Operators, StoreStep(o) PROVE UNCHANGED <<consents, clock>>
  BY <1>3 DEF StoreStep, PinCert, ApproveCertChange, InsertPin, UpdatePin, RemovePeer, rest,
              consentVars
<1>4. ASSUME NEW o \in Operators,
             (\E p, a : Handshake(o, p, a)) \/ HandshakeAnswer(o)
      PROVE  UNCHANGED <<consents, clock>>
  BY <1>4 DEF Handshake, HandshakeAnswer, rest
<1>5. ASSUME NEW p \in Peers, NEW a \in Addresses, PeerFound(p, a)
      PROVE  UNCHANGED <<consents, clock>>
  BY <1>5 DEF PeerFound, consentVars
<1>6. CASE Collected
  BY <1>6 DEF Collected, consentVars
<1>7. CASE Crash
  BY <1>7 DEF Crash, rest
<1>8. CASE UNCHANGED nodeVars
  BY <1>8 DEF nodeVars, consentVars
<1> QED
  BY <1>1, <1>2, <1>3, <1>4, <1>5, <1>6, <1>7, <1>8 DEF NodeNext

LEMMA NodeMovesAddresses ==
  ASSUME NodeInv, [NodeNext]_nodeVars, opened' = opened, server' # None,
         NEW p \in Peers, known[p] # Unknown, known'[p] # known[p]
  PROVE  \E o \in Operators :
           /\ pc[o] = "handshake"
           /\ frame[o] = [id |-> opened, peer |-> p, address |-> known'[p]]
<1>1. CASE ConsentNext /\ UNCHANGED <<stage, identity, lifecycle, known, store>>
  BY <1>1
<1>2. ASSUME NEW o \in Operators, NodeStep(o) PROVE UNCHANGED known
  <2>1. CASE Listen(o)
    BY <2>1 DEF Listen, NodeInv, LifeInv, LifeTyped
  <2>2. CASE ~Listen(o)
    BY <1>2, <2>2 DEF NodeStep, Start, WriteKey, SyncDid, PortTaken, StartDiscovery,
                      StartTls, Ready, Stop, Shutdown
  <2> QED
    BY <2>1, <2>2
<1>3. ASSUME NEW o \in Operators, StoreStep(o) PROVE UNCHANGED known
  BY <1>3 DEF StoreStep, PinCert, ApproveCertChange, InsertPin, UpdatePin, RemovePeer
<1>4. ASSUME NEW o \in Operators, NEW q \in Peers, NEW a, Handshake(o, q, a) PROVE UNCHANGED known
  BY <1>4 DEF Handshake
<1>5. ASSUME NEW o \in Operators, HandshakeAnswer(o)
      PROVE  /\ pc[o] = "handshake"
             /\ frame[o] = [id |-> opened, peer |-> p, address |-> known'[p]]
  BY <1>5, AnswerMoves DEF HandshakeAnswer
<1>6. ASSUME NEW q \in Peers, NEW a \in Addresses, PeerFound(q, a)
      PROVE  known'[p] = known[p]
  <2>1. known \in [Peers -> Address] /\ known' = [known EXCEPT ![q] = Announced(q, a)]
    BY <1>6 DEF PeerFound, NodeInv, KnownInv
  <2> QED
    BY <2>1 DEF Announced
<1>7. ~Crash
  BY DEF Crash
<1>8. ASSUME Collected \/ UNCHANGED nodeVars PROVE UNCHANGED known
  BY <1>8 DEF nodeVars, Collected
<1> QED
  BY <1>1, <1>2, <1>3, <1>4, <1>5, <1>6, <1>7, <1>8 DEF NodeNext

\* Type correctness of a node: its tables, its identity, its server and the place of
\* every thread keep their types (manager.py, node_identity.py, peer_store.py).
THEOREM NodeTypeCorrect == NodeSpec => []NodeTypeOK
<1>1. NodeInv => NodeTypeOK
  <2> SUFFICES ASSUME NodeInv PROVE NodeTypeOK
    OBVIOUS
  <2>1. ConsentTypeOK
    BY ConsentTypeHolds DEF NodeInv, BaseInv
  <2>2. /\ pc \in [Operators -> {"idle"} \cup ConsentPCs \cup NodePCs] /\ stage \in Stages
    BY DEF NodeInv, BaseInv, NodeLabels
  <2>3. /\ keyFile \in {Torn} \cup 0 .. MaxKeys /\ keys \in 0 .. MaxKeys
        /\ did \in 0 .. MaxKeys /\ nodeDid \in 0 .. MaxKeys
        /\ adapter \in 0 .. MaxStarts /\ server \in 0 .. MaxStarts /\ opened \in 0 .. MaxStarts
        /\ failedLate \subseteq 1 .. MaxStarts
    BY NodeMaxima DEF NodeInv, LifeInv, LifeTyped
  <2>4. bound \in BOOLEAN /\ mdns \in BOOLEAN
    BY DEF NodeInv, LifeInv, LifeTyped
  <2>5. /\ known \in [Peers -> Address] /\ winners \in [Peers -> Nat]
        /\ pins \in [Peers -> {NoPin} \cup [cert : Certs, rotations : 0 .. MaxRotations]]
    BY DEF NodeInv, KnownInv, PinsInv, Pins
  <2> QED
    BY <2>1, <2>2, <2>3, <2>4, <2>5 DEF NodeTypeOK
<1> QED
  BY <1>1, NodeInvariance, PTL

\* start() is whole or nothing: a started node serves by its own server under the one
\* identity its key file, its table and its manager agree on; no server outlives its
\* start but one whose start() failed after it had opened the port (manager.start,
\* stop, generate_or_load, the adapters' start and stop).
THEOREM StartedNodeIsAlwaysWhole == NodeSpec => []StartedNodeIsWhole
<1>1. NodeInv => StartedNodeIsWhole
  BY DEF NodeInv, LifeInv
<1> QED
  BY <1>1, NodeInvariance, PTL

\* However many calls of pin_cert() overlap, with approvals and removals between their
\* statements, at most one answered True since the peer's row was last removed, and
\* one did exactly if there is a row (pin_cert, approve_cert_change, remove_peer).
THEOREM OnePinAlwaysWins == NodeSpec => []OnePinWins
<1>1. NodeInv => OnePinWins
  BY DEF NodeInv, PinsInv
<1> QED
  BY <1>1, NodeInvariance, PTL

\* On a node, whoever dies, the chain of the consents is reported broken only after two
\* grants overlapped (verify_chain_integrity).
THEOREM ChainOfNodeBreaksOnlyByOverlap == NodeSpec => []ChainBreaksOnlyByOverlap
<1>1. NodeInv => ChainBreaksOnlyByOverlap
  BY ChainHolds DEF NodeInv, BaseInv
<1> QED
  BY <1>1, NodeInvariance, PTL

\* The same while consents are used by messages: the revocations of the exchange
\* tell peers in between.
THEOREM ChainOfExchangeBreaksOnlyByOverlap == Spec => []ChainBreaksOnlyByOverlap
<1>1. ExchangeInv => ChainBreaksOnlyByOverlap
  BY ChainHolds DEF ExchangeInv
<1> QED
  BY <1>1, ExchangeInvariance, PTL

\* A revocation and an expiry are final, whatever lands after them and whoever dies in
\* between (revoke, reconfirm, is_valid).
THEOREM InvalidityIsFinal == NodeSpec => InvalidStaysInvalid
<1>1. ASSUME NodeInv, [NodeNext]_nodeVars
      PROVE  [\A c \in DOMAIN consents, p \in Peers : ~IsValid(c, p) => ~IsValid(c, p)']_consentVars
  <2>1. ConsentInv /\ ConsentTyped
    BY <1>1 DEF NodeInv, BaseInv, ConsentInv
  <2>2. NoRevival
    <3>1. CASE ConsentNext
      BY <2>1, <3>1, ConsentNextRevivesNothing
    <3>2. CASE UNCHANGED <<consents, clock>>
      BY <2>1, <3>2, BesideRevivesNothing
    <3>3. ConsentNext \/ UNCHANGED <<consents, clock>>
      BY <1>1, NodeLeavesConsents
    <3> QED
      BY <3>1, <3>2, <3>3
  <2> QED
    BY <2>1, <2>2, InvalidIsFinal
<1> QED
  BY <1>1, NodeInvariance, PTL DEF NodeSpec, InvalidStaysInvalid

\* While an adapter lives it forgets no peer, and the address it holds for one moves only
\* by a handshake with that peer begun on this adapter, to the address that one went to:
\* never by an announcement, nor by a late answer to an adapter stopped since
\* (_on_peer_discovered, handshake, _load_static_peers).
THEOREM AddressesMoveByHandshake == NodeSpec => AddressMovesByHandshake
<1>1. ASSUME NodeInv, [NodeNext]_nodeVars
      PROVE  [opened' = opened /\ server' # None =>
                \A p \in Peers : known[p] # Unknown /\ known'[p] # known[p] =>
                  \E o \in Operators :
                    /\ pc[o] = "handshake"
                    /\ frame[o] = [id |-> opened, peer |-> p, address |-> known'[p]]]_nodeVars
  BY <1>1, NodeMovesAddresses
<1> QED
  BY <1>1, NodeInvariance, PTL DEF NodeSpec, AddressMovesByHandshake
-------------------------------------------------------------------------------
(* The replicated data *)

\* Of the updates in S, by the history h: those of the kinds K, those by q.
OfKind(h, S, K) == {n \in S : h[n].kind \in K}
Of(h, S, K, q)  == {n \in OfKind(h, S, K) : h[n].by = q}
Counts(h, S, K) == [q \in Replicas |-> Cardinality(Of(h, S, K, q))]

\* With an update, what it had seen.
Closed(h, S) == S \subseteq DOMAIN h /\ \A k \in S : h[k].saw \subseteq S

UpdateType == [kind : Kinds, by : Replicas, at : {0} \cup Stamps, saw : SUBSET Updates]

\* An update saw earlier ones, what they saw, and its replica's own.
HistoryInv(h) ==
  /\ h \in Seq(UpdateType) /\ Len(h) <= MaxUpdates
  /\ \A n \in DOMAIN h :
       /\ h[n].saw \subseteq 1 .. n - 1
       /\ Closed(h, h[n].saw)
       /\ \A k \in 1 .. n - 1 : h[k].by = h[n].by => k \in h[n].saw
       /\ h[n].kind = "set" => h[n].at \in Stamps

\* What the data of a replica is when the updates in S have reached it.
SetInv(h, s, S) ==
  /\ s.added = OfKind(h, S, {"add"})
  /\ s.removed = {a \in OfKind(h, S, {"add"}) :
                    \E d \in OfKind(h, S, {"remove"}) : a \in h[d].saw}

CounterInv(h, s, S) ==
  /\ s.positive = Counts(h, S, {"increment"})
  /\ s.negative = Counts(h, S, {"decrement"})

RegisterInv(h, s, S) ==
  /\ \A n \in OfKind(h, S, {"set"}) : h[n].at <= s.stamp
  /\ \/ s.value = 0 /\ s.stamp = 0 /\ OfKind(h, S, {"set"}) = {}
     \/ s.value \in OfKind(h, S, {"set"}) /\ h[s.value].at = s.stamp

CopyInv(h, s, S) ==
  /\ s \in States /\ Closed(h, S)
  /\ SetInv(h, s, S) /\ CounterInv(h, s, S) /\ RegisterInv(h, s, S)
  /\ s.concept.write \in S \cup {0}

\* The write m is the write n or came after it.
Covers(h, m, n) ==
  /\ m \in DOMAIN h /\ n \in DOMAIN h /\ h[m].kind = h[n].kind
  /\ m = n \/ n \in h[m].saw

\* Every write of the concept among S is covered by the row v or by a reported one.
CoveredInv(h, v, S, rep) ==
  \A n \in OfKind(h, S, {"concept"}) : \E m \in rep \cup {v.write} : Covers(h, m, n)

\* The rows of the concept: of the replicas, and of their snapshots.
Rows(st, sn) == {st[r].concept : r \in Replicas} \cup {sn[r][1].concept : r \in Replicas}

RowInv(h, v) ==
  /\ v \in Versions
  /\ \/ v = NoVersion
     \/ /\ v.write \in DOMAIN h /\ h[v.write].kind = "concept"
        /\ v.clock[h[v.write].by] >= 1

\* A row whose clock has reached what the writer of v counted came after v.
Causal(h, v, w) ==
  v.write # 0 /\ w.clock[h[v.write].by] >= v.clock[h[v.write].by] => Covers(h, w.write, v.write)

\* No row knows more of a replica's writes than the replica's own row.
OwnIsLatest(w, st) == \A r \in Replicas : w.clock[r] <= st[r].concept.clock[r]

RowsInv(h, V, st) ==
  /\ \A v \in V : RowInv(h, v) /\ OwnIsLatest(v, st)
  /\ \A v \in V : \A w \in V : Causal(h, v, w)

CrdtInv ==
  /\ HistoryInv(updates)
  /\ seen \in [Replicas -> SUBSET Updates] /\ state \in [Replicas -> States]
  /\ sent \in [Replicas -> States \X SUBSET Updates]
  /\ reported \subseteq Updates
  /\ \A r \in Replicas : /\ CopyInv(updates, state[r], seen[r])
                         /\ CopyInv(updates, sent[r][1], sent[r][2])
                         /\ \A n \in DOMAIN updates : updates[n].by = r => n \in seen[r]
                         /\ CoveredInv(updates, state[r].concept, seen[r], reported)
                         /\ CoveredInv(updates, sent[r][1].concept, sent[r][2], reported)
  /\ RowsInv(updates, Rows(state, sent), state)

\* What SMT needs to know of the places in a history.
LEMMA HistoryPlaces ==
  ASSUME NEW h, HistoryInv(h)
  PROVE  /\ Len(h) \in Nat /\ DOMAIN h = 1 .. Len(h) /\ MaxUpdates \in Nat
         /\ \A n \in DOMAIN h : n \in Nat /\ n >= 1 /\ n \in Updates /\ h[n] \in UpdateType
         /\ \A n \in DOMAIN h : n \notin h[n].saw /\ \A k \in h[n].saw : k < n
<1>1. h \in Seq(UpdateType) /\ Len(h) <= MaxUpdates /\ MaxUpdates \in Nat
  BY CrdtConstants DEF HistoryInv
<1>2. Len(h) \in Nat /\ DOMAIN h = 1 .. Len(h)
  BY <1>1
<1>3. \A n \in DOMAIN h : n \in Nat /\ n >= 1 /\ n \in Updates /\ h[n] \in UpdateType
  BY <1>1, <1>2 DEF Updates
<1>4. \A n \in DOMAIN h : n \notin h[n].saw /\ \A k \in h[n].saw : k < n
  BY <1>3 DEF HistoryInv
<1> QED BY <1>1, <1>2, <1>3, <1>4

LEMMA CountsAreNumbers ==
  ASSUME NEW h, HistoryInv(h), NEW S \in SUBSET DOMAIN h, NEW K, NEW q
  PROVE  /\ IsFiniteSet(S) /\ IsFiniteSet(Of(h, S, K, q))
         /\ Cardinality(Of(h, S, K, q)) \in Nat
<1>1. Len(h) \in Nat /\ DOMAIN h = 1 .. Len(h)
  BY HistoryPlaces
<1>2. IsFiniteSet(1 .. Len(h))
  BY <1>1, FS_Interval
<1>3. IsFiniteSet(S)
  BY <1>1, <1>2, FS_Subset
<1>4. Of(h, S, K, q) \in SUBSET S
  BY DEF Of, OfKind
<1> QED BY <1>3, <1>4, FS_Subset, FS_CardinalityType

LEMMA CountsType ==
  ASSUME NEW h, HistoryInv(h), NEW S \in SUBSET DOMAIN h, NEW K
  PROVE  Counts(h, S, K) \in Clocks
BY CountsAreNumbers DEF Counts, Clocks

\* Of the updates of one replica, two closed sets have a beginning each: one has
\* all of the other.
LEMMA Nested ==
  ASSUME NEW h, HistoryInv(h), NEW S, NEW T, Closed(h, S), Closed(h, T), NEW K, NEW q
  PROVE  Of(h, S, K, q) \subseteq Of(h, T, K, q) \/ Of(h, T, K, q) \subseteq Of(h, S, K, q)
<1> SUFFICES ASSUME NEW a \in Of(h, S, K, q), a \notin Of(h, T, K, q),
                    NEW b \in Of(h, T, K, q), b \notin Of(h, S, K, q)
             PROVE  FALSE
  OBVIOUS
<1>1. /\ a \in S /\ a \notin T /\ b \in T /\ b \notin S
      /\ a \in DOMAIN h /\ b \in DOMAIN h /\ h[a].by = q /\ h[b].by = q
  BY DEF Of, OfKind, Closed
<1>2. a \in Nat /\ b \in Nat /\ a >= 1 /\ b >= 1
  BY <1>1, HistoryPlaces
<1>3. ASSUME a < b PROVE FALSE
  <2>1. a \in 1 .. b - 1
    BY <1>2, <1>3
  <2>2. a \in h[b].saw
    BY <1>1, <2>1 DEF HistoryInv
  <2> QED BY <1>1, <2>2 DEF Closed
<1>4. ASSUME b < a PROVE FALSE
  <2>1. b \in 1 .. a - 1
    BY <1>2, <1>4
  <2>2. b \in h[a].saw
    BY <1>1, <2>1 DEF HistoryInv
  <2> QED BY <1>1, <2>2 DEF Closed
<1> QED BY <1>1, <1>2, <1>3, <1>4

\* The larger count of two closed sets is the count of both.
LEMMA JoinedCounts ==
  ASSUME NEW h, HistoryInv(h), NEW S, NEW T, Closed(h, S), Closed(h, T), NEW K
  PROVE  MergedCount(Counts(h, S, K), Counts(h, T, K)) = Counts(h, S \cup T, K)
<1>1. ASSUME NEW q \in Replicas
      PROVE  Larger(Counts(h, S, K)[q], Counts(h, T, K)[q]) = Counts(h, S \cup T, K)[q]
  <2> DEFINE A == Of(h, S, K, q)
             B == Of(h, T, K, q)
  <2>1. /\ IsFiniteSet(A) /\ Cardinality(A) \in Nat /\ IsFiniteSet(B) /\ Cardinality(B) \in Nat
    BY CountsAreNumbers DEF Closed
  <2>2. Of(h, S \cup T, K, q) = A \cup B
    BY DEF Of, OfKind
  <2>3. A \subseteq B \/ B \subseteq A
    BY Nested
  <2>4. /\ Counts(h, S, K)[q] = Cardinality(A) /\ Counts(h, T, K)[q] = Cardinality(B)
        /\ Counts(h, S \cup T, K)[q] = Cardinality(A \cup B)
    BY <2>2 DEF Counts
  <2> HIDE DEF A, B
  <2>5. CASE A \subseteq B
    <3>1. A \cup B = B /\ Cardinality(A) <= Cardinality(B)
      BY <2>1, <2>5, FS_Subset
    <3> QED BY <2>1, <2>4, <3>1 DEF Larger
  <2>6. CASE B \subseteq A
    <3>1. A \cup B = A /\ Cardinality(B) <= Cardinality(A)
      BY <2>1, <2>6, FS_Subset
    <3> QED BY <2>1, <2>4, <3>1 DEF Larger
  <2> QED BY <2>3, <2>5, <2>6
<1>2. Counts(h, S \cup T, K) = [q \in Replicas |-> Counts(h, S \cup T, K)[q]]
  BY DEF Counts
<1> QED BY <1>1, <1>2 DEF MergedCount

\* value(): what the recursive sum is, for finitely many replicas.
Adds(f, g, D) ==
  g = [R \in D |-> IF R = {} THEN 0
                   ELSE LET r == CHOOSE x \in R : TRUE IN f[r] + g[R \ {r}]]

Small(n) == {R \in SUBSET Replicas : Cardinality(R) <= n}

LEMMA SumsExistFor ==
  ASSUME NEW f, NEW n \in Nat
  PROVE  \E g : Adds(f, g, Small(n))
<1> DEFINE T == {x \in Nat : ~ \E g : Adds(f, g, Small(x))}
<1> SUFFICES ASSUME T # {} PROVE FALSE
  OBVIOUS
<1>1. PICK x \in T : \A y \in T : x <= y
  BY LeastNat, T \in SUBSET Nat
<1>2. x \in Nat /\ ~ \E g : Adds(f, g, Small(x))
  BY <1>1
<1>3. ASSUME NEW R \in SUBSET Replicas
      PROVE  /\ IsFiniteSet(R) /\ Cardinality(R) \in Nat
             /\ R # {} => /\ (CHOOSE r \in R : TRUE) \in R
                          /\ Cardinality(R \ {CHOOSE r \in R : TRUE}) = Cardinality(R) - 1
  <2>1. IsFiniteSet(R) /\ Cardinality(R) \in Nat
    BY CrdtConstants, FS_Subset, FS_CardinalityType
  <2>2. ASSUME R # {} PROVE (CHOOSE r \in R : TRUE) \in R
    BY <2>2
  <2> QED BY <2>1, <2>2, FS_RemoveElement
<1>4. CASE x = 0
  <2> DEFINE g == [R \in Small(0) |-> 0]
  <2>1. \A R \in Small(0) : R = {}
    BY <1>3, FS_EmptySet DEF Small
  <2>2. Adds(f, g, Small(0))
    BY <2>1 DEF Adds
  <2> QED BY <1>2, <1>4, <2>2
<1>5. CASE x # 0
  <2>1. x - 1 \in Nat /\ ~ (x <= x - 1)
    BY <1>2, <1>5
  <2>2. PICK g : Adds(f, g, Small(x - 1))
    BY <1>1, <2>1
  <2> DEFINE h == [R \in Small(x) |-> IF R = {} THEN 0
                     ELSE LET r == CHOOSE z \in R : TRUE IN f[r] + g[R \ {r}]]
  <2>3. ASSUME NEW Q \in Small(x - 1)
        PROVE  h[Q] = g[Q]
    <3>1. Q \in Small(x)
      <4>1. Q \in SUBSET Replicas /\ Cardinality(Q) <= x - 1
        BY DEF Small
      <4>2. Cardinality(Q) \in Nat
        BY <1>3, <4>1
      <4>3. Cardinality(Q) <= x
        BY <1>2, <4>1, <4>2
      <4> QED BY <4>1, <4>3 DEF Small
    <3> QED BY <2>2, <3>1 DEF Adds
  <2>4. ASSUME NEW R \in Small(x), R # {}
        PROVE  R \ {CHOOSE z \in R : TRUE} \in Small(x - 1)
    <3>1. R \in SUBSET Replicas /\ Cardinality(R) <= x
      BY DEF Small
    <3>2. PICK Q : Q = R \ {CHOOSE z \in R : TRUE}
      OBVIOUS
    <3>3. Cardinality(Q) = Cardinality(R) - 1 /\ Cardinality(R) \in Nat
      BY <1>3, <2>4, <3>1, <3>2
    <3>4. Cardinality(Q) <= x - 1
      BY <1>2, <3>1, <3>3
    <3>5. Q \in SUBSET Replicas
      BY <3>1, <3>2
    <3> QED BY <3>2, <3>4, <3>5 DEF Small
  <2>5. \A R \in Small(x) : R # {} =>
          h[R \ {CHOOSE z \in R : TRUE}] = g[R \ {CHOOSE z \in R : TRUE}]
    BY <2>3, <2>4
  <2>6. h = [R \in Small(x) |-> IF R = {} THEN 0
               ELSE LET r == CHOOSE z \in R : TRUE IN f[r] + g[R \ {r}]]
    OBVIOUS
  <2> HIDE DEF h
  <2>7. [R \in Small(x) |-> IF R = {} THEN 0
           ELSE LET r == CHOOSE z \in R : TRUE IN f[r] + g[R \ {r}]]
        = [R \in Small(x) |-> IF R = {} THEN 0
             ELSE LET r == CHOOSE z \in R : TRUE IN f[r] + h[R \ {r}]]
    BY <2>5
  <2>8. Adds(f, h, Small(x))
    BY <2>6, <2>7 DEF Adds
  <2> QED BY <1>2, <2>8
<1> QED BY <1>4, <1>5

LEMMA SumsAdd ==
  ASSUME NEW f
  PROVE  Adds(f, Sums(f), SUBSET Replicas)
<1>1. IsFiniteSet(Replicas) /\ Cardinality(Replicas) \in Nat
  BY CrdtConstants, FS_CardinalityType
<1>2. Small(Cardinality(Replicas)) = SUBSET Replicas
  BY <1>1, FS_Subset DEF Small
<1>3. \E g : Adds(f, g, SUBSET Replicas)
  <2>1. \E g : Adds(f, g, Small(Cardinality(Replicas)))
    BY <1>1, SumsExistFor
  <2> QED BY <1>2, <2>1
<1> DEFINE C == CHOOSE g : Adds(f, g, SUBSET Replicas)
<1>4. Adds(f, C, SUBSET Replicas)
  BY <1>3
<1>5. Sums(f) = C
  BY DEF Sums, Adds
<1> QED BY <1>4, <1>5

\* The counts of all replicas add up to the updates there are.
LEMMA TotalCount ==
  ASSUME NEW h, HistoryInv(h), NEW S \in SUBSET DOMAIN h, NEW K
  PROVE  Total(Counts(h, S, K)) = Cardinality(OfKind(h, S, K))
<1> DEFINE c == Counts(h, S, K)
           Part(R) == {n \in OfKind(h, S, K) : h[n].by \in R}
           Wrong == {R \in SUBSET Replicas : Sums(c)[R] # Cardinality(Part(R))}
           T == {Cardinality(R) : R \in Wrong}
<1>1. ASSUME NEW R \in SUBSET Replicas
      PROVE  IsFiniteSet(R) /\ Cardinality(R) \in Nat
  BY CrdtConstants, FS_Subset, FS_CardinalityType
<1>2. ASSUME NEW R
      PROVE  IsFiniteSet(Part(R)) /\ Cardinality(Part(R)) \in Nat
  <2>1. IsFiniteSet(S) /\ Part(R) \in SUBSET S
    BY CountsAreNumbers DEF OfKind
  <2> QED BY <2>1, FS_Subset, FS_CardinalityType
<1>3. Adds(c, Sums(c), SUBSET Replicas)
  BY SumsAdd
<1>4. ASSUME NEW R \in Wrong PROVE \E Q \in Wrong : Cardinality(Q) < Cardinality(R)
  <2>1. CASE R = {}
    <3>1. Sums(c)[R] = 0
      BY <1>3, <2>1 DEF Adds
    <3>2. Part(R) = {}
      BY <2>1
    <3>3. Cardinality(Part(R)) = 0
      BY <3>2, FS_EmptySet
    <3> QED BY <1>4, <3>1, <3>3
  <2>2. CASE R # {}
    <3>1. PICK r : r = CHOOSE x \in R : TRUE
      OBVIOUS
    <3>2. r \in R /\ r \in Replicas
      BY <2>2, <3>1
    <3>3. Sums(c)[R] = c[r] + Sums(c)[R \ {r}]
      BY <1>3, <2>2, <3>1 DEF Adds
    <3>4. c[r] = Cardinality(Of(h, S, K, r))
      BY <3>2 DEF Counts
    <3>5. /\ Part(R) = Of(h, S, K, r) \cup Part(R \ {r})
          /\ Of(h, S, K, r) \cap Part(R \ {r}) = {}
      BY <3>2 DEF Of
    <3>6. /\ IsFiniteSet(Of(h, S, K, r)) /\ Cardinality(Of(h, S, K, r)) \in Nat
          /\ IsFiniteSet(Part(R \ {r})) /\ Cardinality(Part(R \ {r})) \in Nat
      BY <1>2, CountsAreNumbers
    <3>7. Cardinality(Part(R)) = Cardinality(Of(h, S, K, r)) + Cardinality(Part(R \ {r}))
      <4> DEFINE A == Of(h, S, K, r)
                 B == Part(R \ {r})
      <4>1. IsFiniteSet(A) /\ IsFiniteSet(B) /\ A \cap B = {}
            /\ Cardinality(A) \in Nat /\ Cardinality(B) \in Nat
        BY <3>5, <3>6
      <4> HIDE DEF A, B
      <4>2. Cardinality(A \cup B) = Cardinality(A) + Cardinality(B) - Cardinality(A \cap B)
        BY <4>1, FS_Union
      <4>3. Cardinality(A \cap B) = 0
        BY <4>1, FS_EmptySet
      <4>4. Cardinality(A \cup B) = Cardinality(A) + Cardinality(B)
        BY <4>1, <4>2, <4>3
      <4> QED BY <3>5, <4>4 DEF A, B
    <3>8. Sums(c)[R \ {r}] # Cardinality(Part(R \ {r}))
      BY <1>4, <3>3, <3>4, <3>7
    <3>9. R \ {r} \in Wrong
      BY <3>8
    <3>10. Cardinality(R \ {r}) < Cardinality(R)
      <4>1. IsFiniteSet(R) /\ Cardinality(R) \in Nat
        BY <1>1
      <4>2. Cardinality(R \ {r}) = Cardinality(R) - 1
        BY <3>2, <4>1, FS_RemoveElement
      <4> QED BY <4>1, <4>2
    <3> QED BY <3>9, <3>10
  <2> QED BY <2>1, <2>2
<1>5. Wrong = {}
  <2> SUFFICES ASSUME Wrong # {} PROVE FALSE
    OBVIOUS
  <2>1. T \in SUBSET Nat /\ T # {}
    BY <1>1
  <2>2. PICK x \in T : \A y \in T : x <= y
    BY <2>1, LeastNat
  <2>3. PICK R \in Wrong : Cardinality(R) = x
    BY <2>2
  <2>4. PICK Q \in Wrong : Cardinality(Q) < Cardinality(R)
    BY <1>4
  <2>5. x <= Cardinality(Q) /\ Cardinality(Q) \in Nat /\ x \in Nat
    BY <1>1, <2>1, <2>2
  <2> QED BY <2>3, <2>4, <2>5
<1>6. Sums(c)[Replicas] = Cardinality(Part(Replicas))
  BY <1>5
<1>7. \A n \in S : h[n].by \in Replicas
  BY HistoryPlaces DEF UpdateType
<1>8. Part(Replicas) = OfKind(h, S, K)
  BY <1>7 DEF OfKind
<1> QED BY <1>6, <1>8 DEF Total

\* A longer history says the same of earlier updates.
Extends(g, h) == DOMAIN h \subseteq DOMAIN g /\ \A n \in DOMAIN h : g[n] = h[n]

LEMMA AppendExtends ==
  ASSUME NEW h, HistoryInv(h), NEW u
  PROVE  Extends(Append(h, u), h)
<1>1. h \in Seq(UpdateType)
  BY DEF HistoryInv
<1> QED BY <1>1 DEF Extends

LEMMA SameCounts ==
  ASSUME NEW h, NEW g, Extends(g, h), NEW S \in SUBSET DOMAIN h, NEW K
  PROVE  /\ OfKind(g, S, K) = OfKind(h, S, K) /\ Counts(g, S, K) = Counts(h, S, K)
         /\ Closed(h, S) => Closed(g, S)
<1>1. DOMAIN h \subseteq DOMAIN g /\ \A n \in DOMAIN h : g[n] = h[n]
  BY DEF Extends
<1>2. OfKind(g, S, K) = OfKind(h, S, K)
  BY <1>1 DEF OfKind
<1>3. \A q : Of(g, S, K, q) = Of(h, S, K, q)
  BY <1>1, <1>2 DEF Of, OfKind
<1>4. Counts(g, S, K) = Counts(h, S, K)
  BY <1>3 DEF Counts
<1> QED BY <1>1, <1>2, <1>4 DEF Closed

LEMMA LongerCopy ==
  ASSUME NEW h, NEW g, Extends(g, h), NEW s, NEW S, CopyInv(h, s, S)
  PROVE  CopyInv(g, s, S)
<1>1. Closed(h, S) /\ S \in SUBSET DOMAIN h
  BY DEF CopyInv, Closed
<1>2. /\ \A n \in S : g[n] = h[n]
      /\ \A K : OfKind(g, S, K) = OfKind(h, S, K) /\ Counts(g, S, K) = Counts(h, S, K)
      /\ Closed(g, S)
  <2>1. \A n \in DOMAIN h : g[n] = h[n]
    BY DEF Extends
  <2>2. \A K : OfKind(g, S, K) = OfKind(h, S, K) /\ Counts(g, S, K) = Counts(h, S, K)
    BY <1>1, SameCounts
  <2>3. Closed(g, S)
    BY <1>1, SameCounts
  <2> QED BY <1>1, <2>1, <2>2, <2>3
<1>3. \A K : OfKind(h, S, K) \subseteq S
  BY DEF OfKind
<1>4. SetInv(g, s, S)
  <2>1. \A d \in OfKind(h, S, {"remove"}) : g[d] = h[d]
    BY <1>2, <1>3
  <2>2. {a \in OfKind(h, S, {"add"}) : \E d \in OfKind(h, S, {"remove"}) : a \in h[d].saw}
        = {a \in OfKind(h, S, {"add"}) : \E d \in OfKind(h, S, {"remove"}) : a \in g[d].saw}
    BY <2>1
  <2>3. OfKind(g, S, {"add"}) = OfKind(h, S, {"add"})
        /\ OfKind(g, S, {"remove"}) = OfKind(h, S, {"remove"})
    BY <1>2
  <2> QED BY <2>2, <2>3 DEF CopyInv, SetInv
<1>5. CounterInv(g, s, S)
  BY <1>2 DEF CopyInv, CounterInv
<1>6. RegisterInv(g, s, S)
  BY <1>2, <1>3 DEF CopyInv, RegisterInv
<1> QED BY <1>2, <1>4, <1>5, <1>6 DEF CopyInv

LEMMA LongerHistory ==
  ASSUME NEW h, HistoryInv(h), NEW u \in UpdateType, NEW g, g = Append(h, u),
         Len(h) + 1 <= MaxUpdates, Closed(h, u.saw),
         \A n \in DOMAIN h : h[n].by = u.by => n \in u.saw,
         u.kind = "set" => u.at \in Stamps
  PROVE  HistoryInv(g)
<1>1. /\ h \in Seq(UpdateType) /\ Len(h) \in Nat /\ DOMAIN h = 1 .. Len(h)
  BY HistoryPlaces DEF HistoryInv
<1>2. /\ g \in Seq(UpdateType) /\ Len(g) = Len(h) + 1
      /\ DOMAIN g = 1 .. Len(h) + 1 /\ g[Len(h) + 1] = u
      /\ \A n \in DOMAIN h : g[n] = h[n]
  BY <1>1
<1>3. ASSUME NEW n \in DOMAIN g
      PROVE  /\ g[n].saw \subseteq 1 .. n - 1
             /\ Closed(g, g[n].saw)
             /\ \A k \in 1 .. n - 1 : g[k].by = g[n].by => k \in g[n].saw
             /\ g[n].kind = "set" => g[n].at \in Stamps
  <2>1. CASE n \in DOMAIN h
    <3>1. /\ h[n].saw \subseteq 1 .. n - 1 /\ Closed(h, h[n].saw) /\ g[n] = h[n]
          /\ \A k \in 1 .. n - 1 : h[k].by = h[n].by => k \in h[n].saw
          /\ h[n].kind = "set" => h[n].at \in Stamps
      BY <1>2, <2>1 DEF HistoryInv
    <3>2. Closed(g, h[n].saw)
      BY <3>1, SameCounts, AppendExtends DEF Closed
    <3>3. \A k \in 1 .. n - 1 : k \in DOMAIN h
      BY <1>1, <2>1
    <3> QED BY <1>2, <3>1, <3>2, <3>3
  <2>2. CASE n \notin DOMAIN h
    <3>1. n = Len(h) + 1 /\ g[n] = u /\ 1 .. n - 1 = DOMAIN h
      BY <1>1, <1>2, <2>2
    <3>2. u.saw \subseteq DOMAIN h /\ Closed(g, u.saw)
      BY SameCounts, AppendExtends DEF Closed
    <3> QED BY <1>2, <3>1, <3>2
  <2> QED BY <2>1, <2>2
<1>4. Len(g) <= MaxUpdates
  BY <1>2
<1> QED BY <1>2, <1>3, <1>4 DEF HistoryInv

\* The history g is h with the update u as its n-th.
Grown(g, h, n, u) == Extends(g, h) /\ n \in DOMAIN g /\ n \notin DOMAIN h /\ g[n] = u

\* What the new update n changes in the counts of a replica it happens at.
Counted(g, h, n, u, S, K) ==
  /\ u.kind \in K => /\ OfKind(g, S \cup {n}, K) = OfKind(h, S, K) \cup {n}
                     /\ Counts(g, S \cup {n}, K) = Ticked(Counts(h, S, K), u.by)
  /\ u.kind \notin K => /\ OfKind(g, S \cup {n}, K) = OfKind(h, S, K)
                        /\ Counts(g, S \cup {n}, K) = Counts(h, S, K)

LEMMA NewCounts ==
  ASSUME NEW h, HistoryInv(h), NEW u \in UpdateType, NEW g, NEW n, Grown(g, h, n, u),
         NEW S \in SUBSET DOMAIN h, NEW K
  PROVE  Counted(g, h, n, u, S, K)
<1>2. g[n] = u /\ n \in DOMAIN g /\ n \notin DOMAIN h /\ n \notin S
  BY DEF Grown
<1>3. \A k \in S : g[k] = h[k]
  BY DEF Grown, Extends
<1>4. /\ u.kind \in K => OfKind(g, S \cup {n}, K) = OfKind(h, S, K) \cup {n}
      /\ u.kind \notin K => OfKind(g, S \cup {n}, K) = OfKind(h, S, K)
  BY <1>2, <1>3 DEF OfKind
<1>5. ASSUME u.kind \notin K
      PROVE  Counts(g, S \cup {n}, K) = Counts(h, S, K)
  <2>1. \A q : Of(g, S \cup {n}, K, q) = Of(h, S, K, q)
    BY <1>3, <1>4, <1>5 DEF Of, OfKind
  <2> QED BY <2>1 DEF Counts
<1>6. ASSUME u.kind \in K
      PROVE  Counts(g, S \cup {n}, K) = Ticked(Counts(h, S, K), u.by)
  <2>1. ASSUME NEW q \in Replicas
        PROVE  Cardinality(Of(g, S \cup {n}, K, q))
                 = IF q = u.by THEN Cardinality(Of(h, S, K, q)) + 1
                   ELSE Cardinality(Of(h, S, K, q))
    <3>1. IsFiniteSet(Of(h, S, K, q)) /\ n \notin Of(h, S, K, q)
      BY <1>2, CountsAreNumbers DEF Of, OfKind
    <3>2. CASE q = u.by
      <4>1. Of(g, S \cup {n}, K, q) = Of(h, S, K, q) \cup {n}
        BY <1>2, <1>3, <1>4, <1>6, <3>2 DEF Of, OfKind
      <4>2. PICK A : A = Of(h, S, K, q)
        OBVIOUS
      <4>3. Cardinality(A \cup {n}) = Cardinality(A) + 1
        BY <3>1, <4>2, FS_AddElement
      <4> QED BY <3>2, <4>1, <4>2, <4>3
    <3>3. CASE q # u.by
      <4>1. Of(g, S \cup {n}, K, q) = Of(h, S, K, q)
        BY <1>2, <1>3, <1>4, <1>6, <3>3 DEF Of, OfKind
      <4> QED BY <3>3, <4>1
    <3> QED BY <3>2, <3>3
  <2>2. Counts(h, S, K) = [q \in Replicas |-> Cardinality(Of(h, S, K, q))]
    BY DEF Counts
  <2> QED BY <2>1, <2>2 DEF Counts, Ticked
<1> QED BY <1>4, <1>5, <1>6 DEF Counted

\* What an update changes in the data, field by field.
UpdateMade(s, kind, n, r, t, z) ==
  /\ z \in States
  /\ z.added    = IF kind = "add" THEN s.added \cup {n} ELSE s.added
  /\ z.removed  = IF kind = "remove" THEN s.removed \cup s.added ELSE s.removed
  /\ z.positive = IF kind = "increment" THEN Ticked(s.positive, r) ELSE s.positive
  /\ z.negative = IF kind = "decrement" THEN Ticked(s.negative, r) ELSE s.negative
  /\ z.value    = IF kind = "set" /\ t >= s.stamp THEN n ELSE s.value
  /\ z.stamp    = IF kind = "set" /\ t >= s.stamp THEN t ELSE s.stamp
  /\ z.concept  = IF kind = "concept" THEN Written(s.concept, n, r, t) ELSE s.concept
  /\ z.edge     = IF kind = "edge" THEN Written(s.edge, n, r, t) ELSE s.edge

LEMMA UpdatedFields ==
  ASSUME NEW s \in States, NEW kind \in Kinds, NEW n \in Updates, NEW r \in Replicas,
         NEW t \in Times(kind), NEW z, z = Updated(s, kind, n, r, t)
  PROVE  UpdateMade(s, kind, n, r, t, z)
<1>1. ASSUME NEW c \in Clocks PROVE Ticked(c, r) \in Clocks
  BY DEF Clocks, Ticked
<1>2. t \in {0} \cup Stamps /\ (kind = "set" => t \in Stamps)
  BY DEF Times
<1>3. /\ s.added \in SUBSET Updates /\ s.removed \in SUBSET Updates
      /\ s.positive \in Clocks /\ s.negative \in Clocks
      /\ s.value \in {0} \cup Updates /\ s.stamp \in {0} \cup Stamps
      /\ s.concept \in Versions /\ s.edge \in Versions
  BY DEF States
<1>4. ASSUME NEW v \in Versions PROVE Written(v, n, r, t) \in Versions
  <2>1. v.clock \in Clocks
    BY DEF Versions
  <2> QED BY <1>1, <1>2, <2>1 DEF Written, Versions
<1>5. CASE kind = "add"
  <2>1. z = [s EXCEPT !.added = s.added \cup {n}]
    BY <1>5 DEF Updated
  <2> QED BY <1>3, <1>5, <2>1 DEF States, UpdateMade
<1>6. CASE kind = "remove"
  <2>1. z = [s EXCEPT !.removed = s.removed \cup s.added]
    BY <1>6 DEF Updated
  <2> QED BY <1>3, <1>6, <2>1 DEF States, UpdateMade
<1>7. CASE kind = "increment"
  <2>1. z = [s EXCEPT !.positive = Ticked(s.positive, r)]
    BY <1>7 DEF Updated
  <2> QED BY <1>1, <1>3, <1>7, <2>1 DEF States, UpdateMade
<1>8. CASE kind = "decrement"
  <2>1. z = [s EXCEPT !.negative = Ticked(s.negative, r)]
    BY <1>8 DEF Updated
  <2> QED BY <1>1, <1>3, <1>8, <2>1 DEF States, UpdateMade
<1>9. CASE kind = "set"
  <2>1. z = IF t >= s.stamp THEN [s EXCEPT !.value = n, !.stamp = t] ELSE s
    BY <1>9 DEF Updated, Set
  <2> QED BY <1>2, <1>3, <1>9, <2>1 DEF States, UpdateMade
<1>10. CASE kind = "concept"
  <2>1. z = [s EXCEPT !.concept = Written(s.concept, n, r, t)]
    BY <1>10 DEF Updated
  <2>2. Written(s.concept, n, r, t) \in Versions
    BY <1>3, <1>4
  <2> QED BY <1>3, <1>10, <2>1, <2>2 DEF States, UpdateMade
<1>11. CASE kind = "edge"
  <2>1. z = [s EXCEPT !.edge = Written(s.edge, n, r, t)]
    BY <1>11 DEF Updated
  <2>2. Written(s.edge, n, r, t) \in Versions
    BY <1>3, <1>4
  <2> QED BY <1>3, <1>11, <2>1, <2>2 DEF States, UpdateMade
<1> QED BY <1>5, <1>6, <1>7, <1>8, <1>9, <1>10, <1>11 DEF Kinds

\* A replica's data reflect its new update.
LEMMA UpdatedCopy ==
  ASSUME NEW h, HistoryInv(h), NEW s, NEW S, CopyInv(h, s, S),
         NEW r \in Replicas, NEW kind \in Kinds, NEW t \in Times(kind), NEW n \in Updates,
         NEW u \in UpdateType, u.kind = kind, u.by = r, u.at = t, u.saw = S,
         NEW g, Grown(g, h, n, u)
  PROVE  CopyInv(g, Updated(s, kind, n, r, t), S \cup {n})
<1>1. PICK z : z = Updated(s, kind, n, r, t)
  OBVIOUS
<1>2. DOMAIN h \subseteq Updates
  BY HistoryPlaces
<1>3. n # 0 /\ n \in Nat
  BY CrdtConstants DEF Updates
<1>4. s \in States /\ Closed(h, S) /\ S \in SUBSET DOMAIN h /\ S \subseteq Updates
  BY <1>2 DEF CopyInv, Closed
<1>5. t \in {0} \cup Stamps /\ (kind = "set" => t \in Stamps)
  BY DEF Times
<1>6. u.kind = kind /\ u.by = r /\ u.at = t /\ u.saw = S
  OBVIOUS
<1>9. Extends(g, h)
  BY DEF Grown
<1>10. g[n] = u /\ n \in DOMAIN g /\ n \notin DOMAIN h
  BY DEF Grown
<1>11. /\ Counted(g, h, n, u, S, {"add"}) /\ Counted(g, h, n, u, S, {"remove"})
       /\ Counted(g, h, n, u, S, {"increment"}) /\ Counted(g, h, n, u, S, {"decrement"})
       /\ Counted(g, h, n, u, S, {"set"})
  BY <1>4, NewCounts
<1>12. \A k \in S : k \in DOMAIN h /\ g[k] = h[k]
  BY <1>4, <1>9 DEF Extends
<1>13. Closed(g, S \cup {n})
  BY <1>4, <1>6, <1>9, <1>10, <1>12 DEF Closed, Extends
<1>14. UpdateMade(s, kind, n, r, t, z)
  BY <1>1, <1>3, <1>4, UpdatedFields
<1>15. SetInv(g, z, S \cup {n})
  <2>1. s.added = OfKind(h, S, {"add"})
        /\ s.removed = {a \in OfKind(h, S, {"add"}) :
                          \E d \in OfKind(h, S, {"remove"}) : a \in h[d].saw}
    BY DEF CopyInv, SetInv
  <2>2. z.added = IF kind = "add" THEN s.added \cup {n} ELSE s.added
    BY <1>14 DEF UpdateMade
  <2>3. z.removed = IF kind = "remove" THEN s.removed \cup s.added ELSE s.removed
    BY <1>14 DEF UpdateMade
  <2>4. z.added = OfKind(g, S \cup {n}, {"add"})
    BY <1>6, <1>11, <2>1, <2>2 DEF Counted
  <2>5. /\ \A d \in OfKind(h, S, {"remove"}) : g[d] = h[d] /\ n \notin h[d].saw
        /\ OfKind(h, S, {"add"}) \subseteq S
    BY <1>4, <1>10, <1>12 DEF OfKind, Closed
  <2>6. z.removed = {a \in OfKind(g, S \cup {n}, {"add"}) :
                       \E d \in OfKind(g, S \cup {n}, {"remove"}) : a \in g[d].saw}
    <3>1. CASE kind = "remove"
      <4>1. /\ OfKind(g, S \cup {n}, {"add"}) = OfKind(h, S, {"add"})
            /\ OfKind(g, S \cup {n}, {"remove"}) = OfKind(h, S, {"remove"}) \cup {n}
        BY <1>6, <1>11, <3>1 DEF Counted
      <4>2. z.removed = s.added /\ g[n].saw = S
        BY <1>6, <1>10, <2>1, <2>3, <3>1
      <4>3. /\ n \in OfKind(g, S \cup {n}, {"remove"})
            /\ \A a \in OfKind(h, S, {"add"}) : a \in g[n].saw
        BY <2>5, <4>1, <4>2
      <4>4. OfKind(h, S, {"add"})
              = {a \in OfKind(h, S, {"add"}) :
                   \E d \in OfKind(g, S \cup {n}, {"remove"}) : a \in g[d].saw}
        BY <4>3
      <4> QED BY <2>1, <4>1, <4>2, <4>4
    <3>2. CASE kind # "remove"
      <4>1. /\ OfKind(g, S \cup {n}, {"add"}) \subseteq OfKind(h, S, {"add"}) \cup {n}
            /\ OfKind(h, S, {"add"}) \subseteq OfKind(g, S \cup {n}, {"add"})
            /\ OfKind(g, S \cup {n}, {"remove"}) = OfKind(h, S, {"remove"})
        BY <1>6, <1>11, <3>2 DEF Counted
      <4>2. z.removed = s.removed
        BY <2>3, <3>2
      <4>3. \A d \in OfKind(g, S \cup {n}, {"remove"}) : g[d] = h[d] /\ n \notin g[d].saw
        BY <2>5, <4>1
      <4>4. {a \in OfKind(g, S \cup {n}, {"add"}) :
               \E d \in OfKind(g, S \cup {n}, {"remove"}) : a \in g[d].saw}
            = {a \in OfKind(h, S, {"add"}) :
                 \E d \in OfKind(g, S \cup {n}, {"remove"}) : a \in g[d].saw}
        BY <4>1, <4>3
      <4>5. {a \in OfKind(h, S, {"add"}) :
               \E d \in OfKind(g, S \cup {n}, {"remove"}) : a \in g[d].saw}
            = {a \in OfKind(h, S, {"add"}) :
                 \E d \in OfKind(h, S, {"remove"}) : a \in h[d].saw}
        BY <4>1, <4>3
      <4> QED BY <2>1, <4>2, <4>4, <4>5
    <3> QED BY <3>1, <3>2
  <2> QED BY <2>4, <2>6 DEF SetInv
<1>16. CounterInv(g, z, S \cup {n})
  <2>1. /\ z.positive = IF kind = "increment" THEN Ticked(s.positive, r) ELSE s.positive
        /\ z.negative = IF kind = "decrement" THEN Ticked(s.negative, r) ELSE s.negative
    BY <1>14 DEF UpdateMade
  <2>2. /\ s.positive = Counts(h, S, {"increment"}) /\ s.negative = Counts(h, S, {"decrement"})
    BY DEF CopyInv, CounterInv
  <2>3. z.positive = Counts(g, S \cup {n}, {"increment"})
    BY <1>6, <1>11, <2>1, <2>2 DEF Counted
  <2>4. z.negative = Counts(g, S \cup {n}, {"decrement"})
    BY <1>6, <1>11, <2>1, <2>2 DEF Counted
  <2> QED BY <2>3, <2>4 DEF CounterInv
<1>17. RegisterInv(g, z, S \cup {n})
  <2>1. /\ z.value = IF kind = "set" /\ t >= s.stamp THEN n ELSE s.value
        /\ z.stamp = IF kind = "set" /\ t >= s.stamp THEN t ELSE s.stamp
    BY <1>14 DEF UpdateMade
  <2>2. /\ \A k \in OfKind(h, S, {"set"}) : h[k].at <= s.stamp
        /\ \/ s.value = 0 /\ s.stamp = 0 /\ OfKind(h, S, {"set"}) = {}
           \/ s.value \in OfKind(h, S, {"set"}) /\ h[s.value].at = s.stamp
    BY DEF CopyInv, RegisterInv
  <2>3. /\ \A k \in OfKind(h, S, {"set"}) : g[k] = h[k] /\ h[k].at \in Nat
        /\ s.stamp \in Nat /\ t \in Nat
    <3>1. \A x \in {0} \cup Stamps : x \in Nat
      BY CrdtConstants
    <3>2. \A k \in OfKind(h, S, {"set"}) : g[k] = h[k] /\ h[k] \in UpdateType
      BY <1>12, HistoryPlaces DEF OfKind
    <3>3. \A k \in OfKind(h, S, {"set"}) : h[k].at \in {0} \cup Stamps
      BY <3>2 DEF UpdateType
    <3>4. s.stamp \in {0} \cup Stamps
      BY <1>4 DEF States
    <3> QED BY <1>5, <3>1, <3>2, <3>3, <3>4
  <2>4. CASE kind = "set"
    <3>1. OfKind(g, S \cup {n}, {"set"}) = OfKind(h, S, {"set"}) \cup {n} /\ g[n].at = t
      BY <1>6, <1>10, <1>11, <2>4 DEF Counted
    <3>2. CASE t >= s.stamp
      <4>1. z.value = n /\ z.stamp = t
        BY <2>1, <2>4, <3>2
      <4>2. ASSUME NEW k \in OfKind(h, S, {"set"}) PROVE g[k].at <= t
        <5>1. PICK a, b : a = g[k].at /\ b = s.stamp
          OBVIOUS
        <5>2. a <= b /\ a \in Nat /\ b \in Nat /\ t \in Nat
          BY <2>2, <2>3, <5>1
        <5>3. b <= t
          BY <2>3, <3>2, <5>1
        <5>4. a <= t
          BY <5>2, <5>3
        <5> QED BY <5>1, <5>4
      <4>3. \A k \in OfKind(g, S \cup {n}, {"set"}) : g[k].at <= t
        <5>1. g[n].at <= t
          BY <2>3, <3>1
        <5> QED BY <3>1, <4>2, <5>1
      <4> QED BY <3>1, <4>1, <4>3 DEF RegisterInv
    <3>3. CASE ~(t >= s.stamp)
      <4>1. z.value = s.value /\ z.stamp = s.stamp /\ t <= s.stamp /\ s.stamp # 0
        BY <2>1, <2>3, <3>3
      <4>2. \A k \in OfKind(h, S, {"set"}) : g[k].at <= s.stamp
        BY <2>2, <2>3
      <4> QED BY <2>2, <2>3, <3>1, <4>1, <4>2 DEF RegisterInv
    <3> QED BY <3>2, <3>3
  <2>5. CASE kind # "set"
    <3>1. OfKind(g, S \cup {n}, {"set"}) = OfKind(h, S, {"set"})
      BY <1>6, <1>11, <2>5 DEF Counted
    <3>2. z.value = s.value /\ z.stamp = s.stamp
      BY <2>1, <2>5
    <3> QED BY <2>2, <2>3, <3>1, <3>2 DEF RegisterInv
  <2> QED BY <2>4, <2>5
<1>18. z.concept.write \in S \cup {n} \cup {0}
  <2>1. z.concept = IF kind = "concept" THEN Written(s.concept, n, r, t) ELSE s.concept
    BY <1>14 DEF UpdateMade
  <2>2. s.concept.write \in S \cup {0}
    BY DEF CopyInv
  <2> QED BY <2>1, <2>2 DEF Written
<1>21. CopyInv(g, z, S \cup {n})
  BY <1>13, <1>14, <1>15, <1>16, <1>17, <1>18 DEF CopyInv, UpdateMade
<1> QED BY <1>1, <1>21

LEMMA MergedType ==
  ASSUME NEW s \in States, NEW o \in States
  PROVE  Merged(s, o) \in States
<1>1. ASSUME NEW x \in States
      PROVE  /\ x.added \in SUBSET Updates /\ x.removed \in SUBSET Updates
             /\ x.positive \in Clocks /\ x.negative \in Clocks
             /\ x.value \in {0} \cup Updates /\ x.stamp \in {0} \cup Stamps
             /\ x.concept \in Versions /\ x.edge \in Versions
  BY DEF States
<1>2. ASSUME NEW c \in Clocks, NEW d \in Clocks
      PROVE  MergedCount(c, d) \in Clocks
  BY DEF MergedCount, Larger, Clocks
<1>3. MergedConcept(s.concept, o.concept) \in Versions /\ MergedEdge(s.edge, o.edge) \in Versions
  BY <1>1 DEF MergedConcept, MergedEdge
<1>4. Younger(s, o) = s \/ Younger(s, o) = o
  BY DEF Younger
<1>5. Younger(s, o).value \in {0} \cup Updates /\ Younger(s, o).stamp \in {0} \cup Stamps
  BY <1>1, <1>4
<1>6. /\ MergedCount(s.positive, o.positive) \in Clocks
      /\ MergedCount(s.negative, o.negative) \in Clocks
  BY <1>1, <1>2
<1>7. s.added \cup o.added \in SUBSET Updates /\ s.removed \cup o.removed \in SUBSET Updates
  BY <1>1
<1> QED BY <1>3, <1>5, <1>6, <1>7 DEF Merged, States

\* A merge gives what the updates that reached either make.
LEMMA MergedCopy ==
  ASSUME NEW h, HistoryInv(h), NEW s, NEW S, CopyInv(h, s, S), NEW o, NEW T, CopyInv(h, o, T)
  PROVE  CopyInv(h, Merged(s, o), S \cup T)
<1>1. PICK z : z = Merged(s, o)
  OBVIOUS
<1>2. s \in States /\ o \in States /\ z \in States
  BY <1>1, MergedType DEF CopyInv
<1>3. Closed(h, S) /\ Closed(h, T) /\ Closed(h, S \cup T) /\ Extends(h, h)
  BY DEF CopyInv, Closed, Extends
<1>4. \A K : OfKind(h, S \cup T, K) = OfKind(h, S, K) \cup OfKind(h, T, K)
  BY DEF OfKind
<1>5. SetInv(h, z, S \cup T)
  <2>1. /\ s.added = OfKind(h, S, {"add"})
        /\ s.removed = {a \in OfKind(h, S, {"add"}) :
                          \E d \in OfKind(h, S, {"remove"}) : a \in h[d].saw}
        /\ o.added = OfKind(h, T, {"add"})
        /\ o.removed = {a \in OfKind(h, T, {"add"}) :
                          \E d \in OfKind(h, T, {"remove"}) : a \in h[d].saw}
    BY DEF CopyInv, SetInv
  <2>2. z.added = s.added \cup o.added /\ z.removed = s.removed \cup o.removed
    BY <1>1 DEF Merged
  <2>3. ASSUME NEW a \in OfKind(h, S \cup T, {"add"}), NEW d \in OfKind(h, S, {"remove"}),
               a \in h[d].saw
        PROVE  a \in OfKind(h, S, {"add"})
    BY <1>3, <2>3 DEF OfKind, Closed
  <2>4. ASSUME NEW a \in OfKind(h, S \cup T, {"add"}), NEW d \in OfKind(h, T, {"remove"}),
               a \in h[d].saw
        PROVE  a \in OfKind(h, T, {"add"})
    BY <1>3, <2>4 DEF OfKind, Closed
  <2>5. s.removed \cup o.removed =
          {a \in OfKind(h, S \cup T, {"add"}) :
             \E d \in OfKind(h, S \cup T, {"remove"}) : a \in h[d].saw}
    BY <1>4, <2>1, <2>3, <2>4
  <2> QED BY <1>4, <2>1, <2>2, <2>5 DEF SetInv
<1>6. CounterInv(h, z, S \cup T)
  <2>1. /\ s.positive = Counts(h, S, {"increment"}) /\ s.negative = Counts(h, S, {"decrement"})
        /\ o.positive = Counts(h, T, {"increment"}) /\ o.negative = Counts(h, T, {"decrement"})
    BY DEF CopyInv, CounterInv
  <2>2. /\ z.positive = MergedCount(s.positive, o.positive)
        /\ z.negative = MergedCount(s.negative, o.negative)
    BY <1>1 DEF Merged
  <2>3. \A K : MergedCount(Counts(h, S, K), Counts(h, T, K)) = Counts(h, S \cup T, K)
    BY <1>3, JoinedCounts
  <2> QED BY <2>1, <2>2, <2>3 DEF CounterInv
<1>7. RegisterInv(h, z, S \cup T)
  <2> DEFINE A == OfKind(h, S, {"set"})
             B == OfKind(h, T, {"set"})
  <2>1. OfKind(h, S \cup T, {"set"}) = A \cup B
    BY <1>4
  <2>2. /\ \A n \in A : h[n].at <= s.stamp
        /\ \/ s.value = 0 /\ s.stamp = 0 /\ A = {}
           \/ s.value \in A /\ h[s.value].at = s.stamp
    BY DEF CopyInv, RegisterInv
  <2>3. /\ \A n \in B : h[n].at <= o.stamp
        /\ \/ o.value = 0 /\ o.stamp = 0 /\ B = {}
           \/ o.value \in B /\ h[o.value].at = o.stamp
    BY DEF CopyInv, RegisterInv
  <2>4. /\ \A n \in A \cup B : h[n].at \in Nat /\ h[n].at # 0
        /\ s.stamp \in Nat /\ o.stamp \in Nat
    <3>1. \A n \in A \cup B : h[n].at \in Stamps
      BY <1>3 DEF OfKind, Closed, HistoryInv
    <3>2. s.stamp \in {0} \cup Stamps /\ o.stamp \in {0} \cup Stamps
      BY <1>2 DEF States
    <3>3. \A x \in Stamps : x \in Nat /\ x # 0
      BY CrdtConstants
    <3>4. \A n \in A \cup B : h[n].at \in Nat /\ h[n].at # 0
      BY <3>1, <3>3
    <3>5. s.stamp \in Nat /\ o.stamp \in Nat
      BY <3>2, <3>3
    <3> QED BY <3>4, <3>5
  <2> HIDE DEF A, B
  <2>5. /\ z.value = IF o.stamp > s.stamp THEN o.value ELSE s.value
        /\ z.stamp = IF o.stamp > s.stamp THEN o.stamp ELSE s.stamp
    BY <1>1 DEF Merged, Younger
  <2>6. PICK i, j : i = s.stamp /\ j = o.stamp
    OBVIOUS
  <2>7. i \in Nat /\ j \in Nat
    BY <2>4, <2>6
  <2>8. CASE j > i
    <3>1. z.value = o.value /\ z.stamp = j /\ j # 0
      BY <2>5, <2>6, <2>7, <2>8
    <3>2. ASSUME NEW n \in A PROVE h[n].at <= j
      <4>1. PICK a : a = h[n].at
        OBVIOUS
      <4>2. a <= i /\ a \in Nat
        BY <2>2, <2>4, <2>6, <4>1
      <4>3. a <= j
        BY <2>7, <2>8, <4>2
      <4> QED BY <4>1, <4>3
    <3>3. \A n \in B : h[n].at <= j
      BY <2>3, <2>6
    <3>4. o.value \in B /\ h[o.value].at = j
      BY <2>3, <2>6, <3>1
    <3> QED BY <2>1, <3>1, <3>2, <3>3, <3>4 DEF RegisterInv
  <2>9. CASE ~(j > i)
    <3>1. z.value = s.value /\ z.stamp = i
      BY <2>5, <2>6, <2>9
    <3>2. ASSUME NEW n \in B PROVE h[n].at <= i
      <4>1. PICK a : a = h[n].at
        OBVIOUS
      <4>2. a <= j /\ a \in Nat
        BY <2>3, <2>4, <2>6, <4>1
      <4>3. a <= i
        BY <2>7, <2>9, <4>2
      <4> QED BY <4>1, <4>3
    <3>3. \A n \in A : h[n].at <= i
      BY <2>2, <2>6
    <3>4. CASE s.value \in A /\ h[s.value].at = i
      BY <2>1, <3>1, <3>2, <3>3, <3>4 DEF RegisterInv
    <3>5. CASE s.value = 0 /\ i = 0 /\ A = {}
      <4>1. ASSUME NEW n \in B PROVE FALSE
        <5>1. PICK a : a = h[n].at
          OBVIOUS
        <5>2. a <= 0 /\ a \in Nat /\ a # 0
          BY <2>4, <3>2, <3>5, <5>1
        <5> QED BY <5>2
      <4>2. A \cup B = {}
        BY <3>5, <4>1
      <4> QED BY <2>1, <3>1, <3>5, <4>2 DEF RegisterInv
    <3> QED BY <2>2, <2>6, <3>4, <3>5
  <2> QED BY <2>8, <2>9
<1>8. z.concept.write \in S \cup T \cup {0}
  <2>1. z.concept = s.concept \/ z.concept = o.concept
    BY <1>1 DEF Merged, MergedConcept
  <2> QED BY <2>1 DEF CopyInv
<1>9. CopyInv(h, z, S \cup T)
  BY <1>2, <1>3, <1>5, <1>6, <1>7, <1>8 DEF CopyInv
<1> QED BY <1>1, <1>9

\* What a copy shows of the updates that reached it.
LEMMA CopyShows ==
  ASSUME NEW h, HistoryInv(h), NEW s, NEW S, CopyInv(h, s, S)
  PROVE  /\ Contains(s) <=> \E a \in OfKind(h, S, {"add"}) :
                              \A d \in OfKind(h, S, {"remove"}) : a \notin h[d].saw
         /\ Count(s) = Cardinality(OfKind(h, S, {"increment"}))
                         - Cardinality(OfKind(h, S, {"decrement"}))
         /\ \A n \in OfKind(h, S, {"set"}) :
              (\A m \in OfKind(h, S, {"set"}) \ {n} : h[m].at < h[n].at) => s.value = n
<1>1. S \in SUBSET DOMAIN h
  BY DEF CopyInv, Closed
<1>2. Contains(s) <=> \E a \in OfKind(h, S, {"add"}) :
                        \A d \in OfKind(h, S, {"remove"}) : a \notin h[d].saw
  BY DEF CopyInv, SetInv, Contains
<1>3. Count(s) = Cardinality(OfKind(h, S, {"increment"}))
                   - Cardinality(OfKind(h, S, {"decrement"}))
  <2>1. s.positive = Counts(h, S, {"increment"}) /\ s.negative = Counts(h, S, {"decrement"})
    BY DEF CopyInv, CounterInv
  <2>2. /\ Total(s.positive) = Cardinality(OfKind(h, S, {"increment"}))
        /\ Total(s.negative) = Cardinality(OfKind(h, S, {"decrement"}))
    BY <1>1, <2>1, TotalCount
  <2> QED BY <2>2 DEF Count
<1>4. ASSUME NEW n \in OfKind(h, S, {"set"}),
             \A m \in OfKind(h, S, {"set"}) \ {n} : h[m].at < h[n].at
      PROVE  s.value = n
  <2>1. /\ \A m \in OfKind(h, S, {"set"}) : h[m].at <= s.stamp
        /\ s.value \in OfKind(h, S, {"set"}) /\ h[s.value].at = s.stamp
    BY <1>4 DEF CopyInv, RegisterInv
  <2>2. \A m \in OfKind(h, S, {"set"}) : h[m].at \in Nat
    <3>1. \A m \in OfKind(h, S, {"set"}) : h[m].at \in Stamps
      BY <1>1 DEF OfKind, HistoryInv
    <3> QED BY <3>1, CrdtConstants
  <2>3. PICK a, b : a = h[n].at /\ b = s.stamp
    OBVIOUS
  <2>4. a \in Nat /\ b \in Nat /\ a <= b
    BY <1>4, <2>1, <2>2, <2>3
  <2>5. CASE s.value # n
    <3>1. b < a
      BY <1>4, <2>1, <2>3, <2>5
    <3> QED BY <2>4, <3>1
  <2> QED BY <2>5
<1> QED BY <1>2, <1>3, <1>4

LEMMA CoversTransitive ==
  ASSUME NEW h, HistoryInv(h), NEW k, NEW m, NEW n, Covers(h, k, m), Covers(h, m, n)
  PROVE  Covers(h, k, n)
<1>1. /\ k \in DOMAIN h /\ m \in DOMAIN h /\ n \in DOMAIN h
      /\ h[k].kind = h[m].kind /\ h[m].kind = h[n].kind
      /\ k = m \/ m \in h[k].saw
      /\ m = n \/ n \in h[m].saw
  BY DEF Covers
<1>2. Closed(h, h[k].saw)
  BY <1>1 DEF HistoryInv
<1>3. k = n \/ n \in h[k].saw
  BY <1>1, <1>2 DEF Closed
<1> QED BY <1>1, <1>3 DEF Covers

\* A longer history covers what a shorter one did.
LEMMA StillCovered ==
  ASSUME NEW h, NEW g, Extends(g, h), NEW S, Closed(h, S), NEW v, NEW rep,
         CoveredInv(h, v, S, rep)
  PROVE  CoveredInv(g, v, S, rep)
<1>1. S \in SUBSET DOMAIN h
  BY DEF Closed
<1>2. OfKind(g, S, {"concept"}) = OfKind(h, S, {"concept"})
  BY <1>1, SameCounts
<1>3. \A m, n : Covers(h, m, n) => Covers(g, m, n)
  BY DEF Covers, Extends
<1> QED BY <1>2, <1>3 DEF CoveredInv

\* A replica without the row has no clock for it.
LEMMA NoRow ==
  ASSUME NEW h, HistoryInv(h), NEW v, RowInv(h, v), v.write = 0
  PROVE  v = NoVersion /\ \A r \in Replicas : v.clock[r] = 0
<1>1. 0 \notin DOMAIN h
  BY HistoryPlaces
<1>2. v = NoVersion
  BY <1>1 DEF RowInv
<1> QED BY <1>2 DEF NoVersion, Unset

\* In a longer history, rows that were there stay what they were.
LEMMA RowsKept ==
  ASSUME NEW h, HistoryInv(h), NEW g, Extends(g, h), NEW V, NEW st, RowsInv(h, V, st),
         NEW W, W \subseteq V, NEW st2, \A r \in Replicas : st2[r].concept = st[r].concept
  PROVE  RowsInv(g, W, st2)
<1>1. ASSUME NEW v \in W PROVE RowInv(g, v) /\ OwnIsLatest(v, st2)
  <2>1. RowInv(h, v) /\ OwnIsLatest(v, st)
    BY DEF RowsInv
  <2>2. RowInv(g, v)
    BY <2>1 DEF RowInv, Extends
  <2>3. OwnIsLatest(v, st2)
    BY <2>1 DEF OwnIsLatest
  <2> QED BY <2>2, <2>3
<1>2. ASSUME NEW v \in W, NEW w \in W PROVE Causal(g, v, w)
  <2>1. Causal(h, v, w) /\ RowInv(h, v)
    BY DEF RowsInv
  <2>2. v.write # 0 => v.write \in DOMAIN h
    BY <2>1 DEF RowInv, NoVersion
  <2> QED BY <2>1, <2>2 DEF Causal, Covers, Extends
<1> QED BY <1>1, <1>2 DEF RowsInv

\* The update n of the history g, of a replica that S had reached, wrote x over v.
WrittenOver(h, g, S, v, x, n, u) ==
  /\ Grown(g, h, n, u) /\ u.kind = "concept" /\ u.saw = S /\ Closed(h, S)
  /\ \A k \in DOMAIN h : h[k].by = u.by => k \in S
  /\ v.write \in S \cup {0}
  /\ x.write = n /\ x.clock = Ticked(v.clock, u.by)

\* A write makes a row that no other has reached.
LEMMA RowWritten ==
  ASSUME NEW h, HistoryInv(h), NEW g, HistoryInv(g), NEW V, NEW st, RowsInv(h, V, st),
         NEW S, NEW n, NEW u \in UpdateType, NEW v0 \in V, NEW x \in Versions,
         WrittenOver(h, g, S, v0, x, n, u), v0 = st[u.by].concept,
         NEW st2, st2[u.by].concept = x,
         \A q \in Replicas \ {u.by} : st2[q] = st[q],
         NEW W, W \subseteq V \cup {x}
  PROVE  RowsInv(g, W, st2)
<1> DEFINE r == u.by
<1>1. /\ Extends(g, h) /\ n \in DOMAIN g /\ n \notin DOMAIN h /\ g[n] = u
      /\ u.kind = "concept" /\ u.saw = S /\ Closed(h, S)
      /\ \A k \in DOMAIN h : h[k].by = r => k \in S
      /\ v0.write \in S \cup {0} /\ x.write = n /\ x.clock = Ticked(v0.clock, r)
  BY DEF WrittenOver, Grown
<1>2. r \in Replicas
  BY DEF UpdateType
<1>3. \A v \in V \cup {x} : v \in Versions /\ v.clock \in Clocks
  BY DEF RowsInv, RowInv, Versions
<1>4. \A v \in V \cup {x} : \A q \in Replicas : v.clock[q] \in Nat
  BY <1>3 DEF Clocks
<1>5. /\ x.clock[r] = v0.clock[r] + 1
      /\ \A q \in Replicas \ {r} : x.clock[q] = v0.clock[q]
  BY <1>1, <1>2, <1>3 DEF Ticked, Clocks
<1> HIDE DEF r
<1>6. ASSUME NEW v \in V
      PROVE  /\ RowInv(h, v) /\ OwnIsLatest(v, st) /\ RowInv(g, v)
             /\ v.write # 0 => v.write \in DOMAIN h /\ g[v.write] = h[v.write]
  <2>1. RowInv(h, v) /\ OwnIsLatest(v, st)
    BY DEF RowsInv
  <2>2. RowInv(g, v)
    BY <1>1, <2>1 DEF RowInv, Extends
  <2>3. v.write # 0 => v.write \in DOMAIN h
    BY <2>1 DEF RowInv, NoVersion
  <2> QED BY <1>1, <2>1, <2>2, <2>3 DEF Extends
<1>7. RowInv(g, x)
  <2>1. x.clock[r] >= 1 /\ g[n].by = r
    BY <1>1, <1>2, <1>4, <1>5 DEF r
  <2> QED BY <1>1, <2>1 DEF RowInv
<1>8. ASSUME NEW w \in V PROVE OwnIsLatest(w, st2)
  <2> SUFFICES ASSUME NEW q \in Replicas PROVE w.clock[q] <= st2[q].concept.clock[q]
    BY DEF OwnIsLatest
  <2>1. w.clock[q] <= st[q].concept.clock[q]
    BY <1>6 DEF OwnIsLatest
  <2>2. CASE q = r
    <3>1. st[q].concept = v0 /\ st2[q].concept = x
      BY <2>2 DEF r
    <3> QED BY <1>2, <1>4, <1>5, <2>1, <2>2, <3>1
  <2>3. CASE q # r
    BY <2>1, <2>3 DEF r
  <2> QED BY <2>2, <2>3
<1>9. OwnIsLatest(x, st2)
  <2> SUFFICES ASSUME NEW q \in Replicas PROVE x.clock[q] <= st2[q].concept.clock[q]
    BY DEF OwnIsLatest
  <2>1. CASE q = r
    BY <1>4, <2>1 DEF r
  <2>2. CASE q # r
    <3>1. x.clock[q] = v0.clock[q] /\ st2[q] = st[q]
      BY <1>5, <2>2 DEF r
    <3>2. v0.clock[q] <= st[q].concept.clock[q]
      BY <1>6 DEF OwnIsLatest
    <3> QED BY <3>1, <3>2
  <2> QED BY <2>1, <2>2
<1>10. ASSUME NEW v \in V, NEW w \in V PROVE Causal(g, v, w)
  <2>1. Causal(h, v, w)
    BY DEF RowsInv
  <2> QED BY <1>1, <1>6, <2>1 DEF Causal, Covers, Extends
<1>11. ASSUME NEW v \in V PROVE Causal(g, v, x)
  <2> SUFFICES ASSUME v.write # 0,
                      x.clock[g[v.write].by] >= v.clock[g[v.write].by]
               PROVE  Covers(g, x.write, v.write)
    BY DEF Causal
  <2>1. /\ v.write \in DOMAIN h /\ g[v.write] = h[v.write] /\ h[v.write].kind = "concept"
    BY <1>6 DEF RowInv, NoVersion
  <2>2. PICK q \in Replicas : q = h[v.write].by
    BY <2>1, HistoryPlaces DEF UpdateType
  <2>3. v.write \in S
    <3>1. CASE q = r
      BY <1>1, <2>1, <2>2, <3>1
    <3>2. CASE q # r
      <4>1. v0.clock[q] >= v.clock[q]
        BY <1>5, <2>1, <2>2, <3>2
      <4>2. Causal(h, v, v0)
        BY DEF RowsInv
      <4>3. Covers(h, v0.write, v.write)
        BY <2>2, <4>1, <4>2 DEF Causal
      <4>4. v0.write \in S
        <5>1. 0 \notin DOMAIN h
          BY HistoryPlaces
        <5> QED BY <1>1, <4>3, <5>1 DEF Covers
      <4> QED BY <1>1, <4>3, <4>4 DEF Covers, Closed
    <3> QED BY <3>1, <3>2
  <2>4. v.write \in DOMAIN g
    BY <1>1, <2>1 DEF Extends
  <2> QED BY <1>1, <2>1, <2>3, <2>4 DEF Covers
<1>12. ASSUME NEW w \in V PROVE Causal(g, x, w)
  <2>1. w.clock[r] <= v0.clock[r]
    BY <1>2, <1>6 DEF OwnIsLatest, r
  <2>2. ~(w.clock[r] >= x.clock[r])
    BY <1>2, <1>4, <1>5, <2>1
  <2>3. g[x.write].by = r
    BY <1>1 DEF r
  <2> QED BY <2>2, <2>3 DEF Causal
<1>13. Causal(g, x, x)
  BY <1>1 DEF Causal, Covers
<1>14. ASSUME NEW v \in V \cup {x} PROVE RowInv(g, v) /\ OwnIsLatest(v, st2)
  BY <1>6, <1>7, <1>8, <1>9
<1>15. ASSUME NEW v \in V \cup {x}, NEW w \in V \cup {x} PROVE Causal(g, v, w)
  BY <1>10, <1>11, <1>12, <1>13
<1> QED BY <1>14, <1>15 DEF RowsInv

\* A row gives way only to one that came after it.
LEMMA CausalRows ==
  ASSUME NEW h, HistoryInv(h), NEW V, NEW st, RowsInv(h, V, st),
         NEW v \in V, NEW w \in V, v.write # 0,
         \A r \in Replicas : w.clock[r] >= v.clock[r]
  PROVE  Covers(h, w.write, v.write)
<1>1. RowInv(h, v) /\ Causal(h, v, w)
  BY DEF RowsInv
<1>2. v.write \in DOMAIN h
  BY <1>1 DEF RowInv, NoVersion
<1>3. PICK r \in Replicas : r = h[v.write].by
  BY <1>2, HistoryPlaces DEF UpdateType
<1> QED BY <1>1, <1>3 DEF Causal

\* What either row covered the merged one covers, or the merge reports it.
LEMMA RowsMerged ==
  ASSUME NEW h, HistoryInv(h), NEW V, NEW st, RowsInv(h, V, st),
         NEW v \in V, NEW w \in V, NEW S, NEW T, NEW rep, NEW more,
         CoveredInv(h, v, S, rep), CoveredInv(h, w, T, rep),
         Conflict(v, w) => v.write \in more /\ w.write \in more
  PROVE  CoveredInv(h, MergedConcept(v, w), S \cup T, rep \cup more)
<1> DEFINE x == MergedConcept(v, w)
<1> SUFFICES ASSUME NEW n \in OfKind(h, S \cup T, {"concept"})
             PROVE  \E m \in (rep \cup more) \cup {x.write} : Covers(h, m, n)
  BY DEF CoveredInv
<1>1. PICK m \in rep \cup {v.write, w.write} : Covers(h, m, n)
  <2>1. n \in OfKind(h, S, {"concept"}) \/ n \in OfKind(h, T, {"concept"})
    BY DEF OfKind
  <2> QED BY <2>1 DEF CoveredInv
<1>2. m \in DOMAIN h /\ m # 0
  BY <1>1, HistoryPlaces DEF Covers
<1>3. x = IF v.write = 0 \/ Dominates(w.clock, v.clock) THEN w ELSE v
  BY DEF MergedConcept
<1> HIDE DEF x
<1>4. CASE m \in rep \cup more \cup {x.write}
  BY <1>1, <1>4
<1>5. CASE m = v.write /\ x # v
  <2>1. x = w /\ \A r \in Replicas : w.clock[r] >= v.clock[r]
    BY <1>2, <1>3, <1>5 DEF Dominates
  <2>2. Covers(h, w.write, v.write)
    BY <1>2, <1>5, <2>1, CausalRows
  <2>3. Covers(h, x.write, n)
    BY <1>1, <1>5, <2>1, <2>2, CoversTransitive
  <2> QED BY <2>3
<1>6. CASE m = w.write /\ x # w
  <2>1. x = v /\ v.write # 0 /\ ~Dominates(w.clock, v.clock)
    BY <1>3, <1>6
  <2>2. CASE Concurrent(v.clock, w.clock)
    <3>1. m \in more
      BY <1>2, <1>6, <2>1, <2>2 DEF Conflict
    <3> QED BY <1>1, <3>1
  <2>3. CASE ~Concurrent(v.clock, w.clock)
    <3>1. v.clock \in Clocks /\ w.clock \in Clocks
      BY DEF RowsInv, RowInv, Versions
    <3>2. \A r \in Replicas : v.clock[r] >= w.clock[r]
      <4>1. CASE v.clock = w.clock
        <5>1. \A r \in Replicas : v.clock[r] \in Nat
          BY <3>1 DEF Clocks
        <5> QED BY <4>1, <5>1
      <4>2. CASE v.clock # w.clock
        BY <2>1, <2>3, <4>2 DEF Concurrent, Dominates
      <4> QED BY <4>1, <4>2
    <3>3. Covers(h, v.write, w.write)
      BY <1>2, <1>6, <3>2, CausalRows
    <3>4. Covers(h, x.write, n)
      BY <1>1, <1>6, <2>1, <3>3, CoversTransitive
    <3> QED BY <3>4
  <2> QED BY <2>2, <2>3
<1> QED BY <1>1, <1>4, <1>5, <1>6

LEMMA CrdtStart == CrdtInit => CrdtInv
<1> SUFFICES ASSUME CrdtInit PROVE CrdtInv
  OBVIOUS
<1>1. updates = <<>> /\ DOMAIN updates = {} /\ reported = {}
  BY DEF CrdtInit
<1>2. HistoryInv(updates)
  BY <1>1, CrdtConstants DEF HistoryInv
<1>3. Unset \in Clocks /\ NoVersion \in Versions
  BY DEF Unset, Clocks, NoVersion, Versions
<1>4. Empty \in States
  BY <1>3 DEF Empty, States
<1>5. \A K : OfKind(updates, {}, K) = {}
  BY DEF OfKind
<1>6. \A K, q : Cardinality(Of(updates, {}, K, q)) = 0
  BY <1>5, FS_EmptySet DEF Of
<1>7. \A K : Counts(updates, {}, K) = Unset
  BY <1>6 DEF Counts, Unset
<1>8. CopyInv(updates, Empty, {})
  <2>1. Closed(updates, {})
    BY DEF Closed
  <2>2. SetInv(updates, Empty, {})
    BY <1>5 DEF SetInv, Empty
  <2>3. CounterInv(updates, Empty, {})
    BY <1>7 DEF CounterInv, Empty
  <2>4. RegisterInv(updates, Empty, {})
    BY <1>5 DEF RegisterInv, Empty
  <2>5. Empty.concept.write = 0
    BY DEF Empty, NoVersion
  <2> QED BY <1>4, <2>1, <2>2, <2>3, <2>4, <2>5 DEF CopyInv
<1>9. \A r \in Replicas : state[r] = Empty /\ sent[r] = <<Empty, {}>> /\ seen[r] = {}
  BY DEF CrdtInit
<1>10. /\ seen \in [Replicas -> SUBSET Updates] /\ state \in [Replicas -> States]
       /\ sent \in [Replicas -> States \X SUBSET Updates]
  BY <1>4 DEF CrdtInit
<1>11. RowsInv(updates, Rows(state, sent), state)
  <2>1. \A v \in Rows(state, sent) : v = NoVersion
    BY <1>9 DEF Rows, Empty
  <2>2. \A r \in Replicas : state[r].concept = NoVersion
    BY <1>9 DEF Empty
  <2>3. NoVersion.write = 0 /\ \A r \in Replicas : NoVersion.clock[r] = 0
    BY DEF NoVersion, Unset
  <2> QED BY <1>3, <2>1, <2>2, <2>3 DEF RowsInv, RowInv, OwnIsLatest, Causal
<1>12. ASSUME NEW r \in Replicas
       PROVE  /\ CopyInv(updates, state[r], seen[r])
              /\ CopyInv(updates, sent[r][1], sent[r][2])
              /\ \A n \in DOMAIN updates : updates[n].by = r => n \in seen[r]
              /\ CoveredInv(updates, state[r].concept, seen[r], reported)
              /\ CoveredInv(updates, sent[r][1].concept, sent[r][2], reported)
  <2>1. state[r] = Empty /\ seen[r] = {} /\ sent[r][1] = Empty /\ sent[r][2] = {}
    BY <1>9
  <2>2. CopyInv(updates, state[r], seen[r]) /\ CopyInv(updates, sent[r][1], sent[r][2])
    BY <1>8, <2>1
  <2>3. \A v : CoveredInv(updates, v, {}, reported)
    BY <1>5 DEF CoveredInv
  <2> QED BY <1>1, <2>1, <2>2, <2>3
<1>13. reported \subseteq Updates
  BY <1>1
<1> QED BY <1>2, <1>10, <1>11, <1>12, <1>13 DEF CrdtInv

LEMMA UpdateKeeps ==
  ASSUME CrdtInv, NEW r \in Replicas, NEW kind \in Kinds, NEW t \in Times(kind),
         Update(r, kind, t)
  PROVE  CrdtInv'
<1> DEFINE n == Len(updates) + 1
           u == [kind |-> kind, by |-> r, at |-> t, saw |-> seen[r]]
<1>1. PICK h, g, S, s : h = updates /\ g = updates' /\ S = seen[r] /\ s = state[r]
  OBVIOUS
<1>2. /\ HistoryInv(h) /\ CopyInv(h, s, S) /\ S \in SUBSET Updates
      /\ seen \in [Replicas -> SUBSET Updates] /\ state \in [Replicas -> States]
      /\ \A k \in DOMAIN h : h[k].by = r => k \in S
  BY <1>1 DEF CrdtInv
<1>3. /\ n <= MaxUpdates /\ g = Append(h, u)
      /\ state' = [state EXCEPT ![r] = Updated(s, kind, n, r, t)]
      /\ seen' = [seen EXCEPT ![r] = S \cup {n}]
      /\ sent' = sent /\ reported' = reported
  BY <1>1 DEF Update
<1>4. /\ Len(h) \in Nat /\ DOMAIN h = 1 .. Len(h) /\ MaxUpdates \in Nat
      /\ h \in Seq(UpdateType) /\ n = Len(h) + 1
  BY <1>1, <1>2, HistoryPlaces DEF HistoryInv
<1>5. n \in Updates
  BY <1>3, <1>4 DEF Updates
<1>6. t \in {0} \cup Stamps /\ (kind = "set" => t \in Stamps)
  BY DEF Times
<1>7. u \in UpdateType /\ u.kind = kind /\ u.by = r /\ u.at = t /\ u.saw = S
  BY <1>1, <1>2, <1>6 DEF UpdateType
<1> HIDE DEF n, u
<1>8. HistoryInv(g)
  <2>1. Closed(h, u.saw)
    BY <1>2, <1>7 DEF CopyInv
  <2> QED BY <1>2, <1>3, <1>4, <1>6, <1>7, <2>1, LongerHistory
<1>9. Extends(g, h)
  BY <1>2, <1>3, AppendExtends
<1>10. Grown(g, h, n, u) /\ DOMAIN g = DOMAIN h \cup {n}
  <2>1. g[n] = u /\ n \in DOMAIN g /\ n \notin DOMAIN h /\ DOMAIN g = DOMAIN h \cup {n}
    BY <1>3, <1>4, <1>7
  <2> QED BY <1>9, <2>1 DEF Grown
<1>11. PICK z : z = Updated(s, kind, n, r, t)
  OBVIOUS
<1>12. CopyInv(g, z, S \cup {n})
  BY <1>2, <1>5, <1>7, <1>10, <1>11, UpdatedCopy
<1>13. UpdateMade(s, kind, n, r, t, z)
  BY <1>2, <1>5, <1>11, UpdatedFields DEF CopyInv
<1>14. state' = [state EXCEPT ![r] = z] /\ z \in States
  BY <1>3, <1>11, <1>13 DEF UpdateMade
<1>15. /\ seen' \in [Replicas -> SUBSET Updates] /\ state' \in [Replicas -> States]
       /\ sent' \in [Replicas -> States \X SUBSET Updates] /\ reported' \subseteq Updates
  BY <1>2, <1>3, <1>5, <1>14 DEF CrdtInv
<1>16. CoveredInv(g, z.concept, S \cup {n}, reported)
  <2>1. z.concept = IF kind = "concept" THEN Written(s.concept, n, r, t) ELSE s.concept
    BY <1>13 DEF UpdateMade
  <2>2. Closed(h, S) /\ CoveredInv(h, s.concept, S, reported)
    BY <1>1, <1>2 DEF CopyInv, CrdtInv
  <2>3. g[n] = u /\ n \in DOMAIN g /\ n \notin DOMAIN h
    BY <1>10 DEF Grown
  <2>4. CASE kind = "concept"
    <3>1. z.concept.write = n
      BY <2>1, <2>4 DEF Written
    <3>2. ASSUME NEW k \in OfKind(g, S \cup {n}, {"concept"}) PROVE Covers(g, n, k)
      <4>1. k \in DOMAIN g /\ g[k].kind = "concept" /\ k \in S \cup {n}
        BY <1>10, <2>2 DEF OfKind, Closed
      <4> QED BY <1>7, <2>3, <2>4, <4>1 DEF Covers
    <3> QED BY <3>1, <3>2 DEF CoveredInv
  <2>5. CASE kind # "concept"
    <3>1. OfKind(g, S \cup {n}, {"concept"}) = OfKind(g, S, {"concept"})
      BY <1>7, <2>3, <2>5 DEF OfKind
    <3>2. CoveredInv(g, s.concept, S, reported)
      BY <1>9, <2>2, StillCovered
    <3> QED BY <2>1, <2>5, <3>1, <3>2 DEF CoveredInv
  <2> QED BY <2>4, <2>5
<1>17. ASSUME NEW q \in Replicas
       PROVE  /\ CopyInv(g, state'[q], seen'[q])
              /\ CopyInv(g, sent'[q][1], sent'[q][2])
              /\ \A k \in DOMAIN g : g[k].by = q => k \in seen'[q]
              /\ CoveredInv(g, state'[q].concept, seen'[q], reported')
              /\ CoveredInv(g, sent'[q][1].concept, sent'[q][2], reported')
  <2>1. /\ CopyInv(h, state[q], seen[q]) /\ CopyInv(h, sent[q][1], sent[q][2])
        /\ \A k \in DOMAIN h : h[k].by = q => k \in seen[q]
        /\ CoveredInv(h, state[q].concept, seen[q], reported)
        /\ CoveredInv(h, sent[q][1].concept, sent[q][2], reported)
    BY <1>1 DEF CrdtInv
  <2>2. /\ CopyInv(g, state[q], seen[q]) /\ CopyInv(g, sent[q][1], sent[q][2])
        /\ CoveredInv(g, state[q].concept, seen[q], reported)
        /\ CoveredInv(g, sent[q][1].concept, sent[q][2], reported)
    <3>1. Closed(h, seen[q]) /\ Closed(h, sent[q][2])
      BY <2>1 DEF CopyInv
    <3> QED BY <1>9, <2>1, <3>1, LongerCopy, StillCovered
  <2>3. \A k \in DOMAIN h : g[k] = h[k]
    BY <1>9 DEF Extends
  <2>4. g[n].by = r
    BY <1>7, <1>10 DEF Grown
  <2>5. CASE q = r
    <3>1. state'[q] = z /\ seen'[q] = S \cup {n} /\ sent'[q] = sent[q]
      BY <1>2, <1>3, <1>14, <2>5
    <3>2. CoveredInv(g, z.concept, S \cup {n}, reported)
      BY <1>16
    <3> QED BY <1>2, <1>3, <1>10, <1>12, <2>2, <2>3, <2>5, <3>1, <3>2
  <2>6. CASE q # r
    <3>1. state'[q] = state[q] /\ seen'[q] = seen[q] /\ sent'[q] = sent[q]
      BY <1>2, <1>3, <1>14, <2>6
    <3> QED BY <1>3, <1>10, <2>1, <2>2, <2>3, <2>4, <2>6, <3>1
  <2> QED BY <2>5, <2>6
<1>18. RowsInv(g, Rows(state', sent'), state')
  <2>1. RowsInv(h, Rows(state, sent), state) /\ s.concept \in Rows(state, sent)
    BY <1>1 DEF CrdtInv, Rows
  <2>2. Closed(h, S) /\ s.concept.write \in S \cup {0}
    BY <1>2 DEF CopyInv
  <2>3. /\ z.concept = IF kind = "concept" THEN Written(s.concept, n, r, t) ELSE s.concept
        /\ z.concept \in Versions
    BY <1>13 DEF UpdateMade, States
  <2>4. PICK st2 : st2 = state'
    OBVIOUS
  <2>5. st2[r] = z /\ \A q \in Replicas \ {r} : st2[q] = state[q]
    BY <1>2, <1>14, <2>4
  <2>6. Rows(st2, sent) \subseteq Rows(state, sent) \cup {z.concept}
    BY <2>5 DEF Rows
  <2>7. CASE kind = "concept"
    <3>1. WrittenOver(h, g, S, s.concept, z.concept, n, u)
      BY <1>2, <1>7, <1>10, <2>2, <2>3, <2>7 DEF WrittenOver, Written
    <3>2. st2[r].concept = z.concept /\ s.concept = state[r].concept
      BY <1>1, <2>5
    <3>3. /\ s.concept = state[u.by].concept /\ st2[u.by].concept = z.concept
          /\ \A q \in Replicas \ {u.by} : st2[q] = state[q]
      BY <1>7, <2>5, <3>2
    <3>4. RowsInv(g, Rows(st2, sent), st2)
      BY <1>2, <1>7, <1>8, <2>1, <2>3, <2>6, <3>1, <3>3, RowWritten
    <3> QED BY <1>3, <2>4, <3>4
  <2>8. CASE kind # "concept"
    <3>1. \A q \in Replicas : st2[q].concept = state[q].concept
      BY <1>1, <2>3, <2>5, <2>8
    <3>2. Rows(st2, sent) \subseteq Rows(state, sent)
      BY <2>1, <2>3, <2>6, <2>8
    <3>3. RowsInv(g, Rows(st2, sent), st2)
      BY <1>2, <1>9, <2>1, <3>1, <3>2, RowsKept
    <3> QED BY <1>3, <2>4, <3>3
  <2> QED BY <2>7, <2>8
<1> QED BY <1>1, <1>8, <1>15, <1>17, <1>18 DEF CrdtInv

LEMMA SnapshotKeeps ==
  ASSUME CrdtInv, NEW r \in Replicas, Snapshot(r)
  PROVE  CrdtInv'
<1>1. /\ sent' = [sent EXCEPT ![r] = <<state[r], seen[r]>>]
      /\ updates' = updates /\ state' = state /\ seen' = seen /\ reported' = reported
  BY DEF Snapshot
<1>2. /\ HistoryInv(updates) /\ RowsInv(updates, Rows(state, sent), state) /\ reported \subseteq Updates
      /\ seen \in [Replicas -> SUBSET Updates] /\ state \in [Replicas -> States]
      /\ sent \in [Replicas -> States \X SUBSET Updates]
  BY DEF CrdtInv
<1>3. sent' \in [Replicas -> States \X SUBSET Updates]
  BY <1>1, <1>2
<1>4. ASSUME NEW q \in Replicas
      PROVE  /\ CopyInv(updates, state[q], seen[q])
             /\ CopyInv(updates, sent'[q][1], sent'[q][2])
             /\ \A k \in DOMAIN updates : updates[k].by = q => k \in seen[q]
             /\ CoveredInv(updates, state[q].concept, seen[q], reported)
             /\ CoveredInv(updates, sent'[q][1].concept, sent'[q][2], reported)
  <2>1. /\ CopyInv(updates, state[q], seen[q]) /\ CopyInv(updates, sent[q][1], sent[q][2])
        /\ \A k \in DOMAIN updates : updates[k].by = q => k \in seen[q]
        /\ CoveredInv(updates, state[q].concept, seen[q], reported)
        /\ CoveredInv(updates, sent[q][1].concept, sent[q][2], reported)
    BY DEF CrdtInv
  <2>2. \/ sent'[q][1] = sent[q][1] /\ sent'[q][2] = sent[q][2]
        \/ sent'[q][1] = state[q] /\ sent'[q][2] = seen[q]
    BY <1>1, <1>2
  <2> QED BY <2>1, <2>2
<1>5. RowsInv(updates, Rows(state, sent'), state)
  <2>1. PICK sn : sn = sent'
    OBVIOUS
  <2>2. \A q \in Replicas : sn[q][1] = sent[q][1] \/ sn[q][1] = state[q]
    BY <1>1, <1>2, <2>1
  <2>3. Rows(state, sn) \subseteq Rows(state, sent)
    BY <2>2 DEF Rows
  <2>4. RowsInv(updates, Rows(state, sn), state)
    BY <1>2, <2>3 DEF RowsInv
  <2> QED BY <2>1, <2>4
<1> QED BY <1>1, <1>2, <1>3, <1>4, <1>5 DEF CrdtInv

LEMMA MergeKeeps ==
  ASSUME CrdtInv, NEW r \in Replicas, NEW q \in Replicas, Merge(r, q)
  PROVE  CrdtInv'
<1>1. PICK h, S, s, T, o : h = updates /\ S = seen[r] /\ s = state[r]
                           /\ T = sent[q][2] /\ o = sent[q][1]
  OBVIOUS
<1>2. PICK z : z = Merged(s, o)
  OBVIOUS
<1>3. /\ HistoryInv(h) /\ CopyInv(h, s, S) /\ CopyInv(h, o, T)
      /\ RowsInv(h, Rows(state, sent), state) /\ reported \subseteq Updates
      /\ seen \in [Replicas -> SUBSET Updates] /\ state \in [Replicas -> States]
      /\ sent \in [Replicas -> States \X SUBSET Updates]
  BY <1>1 DEF CrdtInv
<1>4. /\ state' = [state EXCEPT ![r] = z] /\ seen' = [seen EXCEPT ![r] = S \cup T]
      /\ reported' = reported \cup Conflicts(s, o)
      /\ updates' = h /\ sent' = sent
  BY <1>1, <1>2 DEF Merge
<1>5. CopyInv(h, z, S \cup T)
  BY <1>2, <1>3, MergedCopy
<1>6. /\ seen' \in [Replicas -> SUBSET Updates] /\ state' \in [Replicas -> States]
  <2>1. T \in SUBSET Updates /\ S \in SUBSET Updates
    BY <1>1, <1>3
  <2>2. z \in States
    BY <1>5 DEF CopyInv
  <2> QED BY <1>3, <1>4, <2>1, <2>2
<1>7. /\ RowsInv(h, Rows(state, sent), state)
      /\ s.concept \in Rows(state, sent) /\ o.concept \in Rows(state, sent)
      /\ s.concept \in Versions /\ o.concept \in Versions
      /\ s.edge \in Versions /\ o.edge \in Versions
  BY <1>1, <1>3 DEF CopyInv, States, Rows
<1>8. z.concept = MergedConcept(s.concept, o.concept)
  BY <1>2 DEF Merged
<1>9. \A m \in Conflicts(s, o) : m \in Updates
  <2>1. Conflicts(s, o) \subseteq {s.concept.write, o.concept.write, s.edge.write, o.edge.write} \ {0}
    BY DEF Conflicts, Conflict
  <2>2. \A v \in Versions : v.write \in {0} \cup Updates
    BY DEF Versions
  <2> QED BY <1>7, <2>1, <2>2
<1>10. CoveredInv(h, z.concept, S \cup T, reported \cup Conflicts(s, o))
  <2>1. CoveredInv(h, s.concept, S, reported) /\ CoveredInv(h, o.concept, T, reported)
    BY <1>1 DEF CrdtInv
  <2>2. PICK v, w : v = s.concept /\ w = o.concept
    OBVIOUS
  <2>3. Conflict(v, w) => v.write \in Conflicts(s, o) /\ w.write \in Conflicts(s, o)
    BY <2>2 DEF Conflicts
  <2>4. /\ v \in Rows(state, sent) /\ w \in Rows(state, sent)
        /\ CoveredInv(h, v, S, reported) /\ CoveredInv(h, w, T, reported)
    BY <1>7, <2>1, <2>2
  <2>5. CoveredInv(h, MergedConcept(v, w), S \cup T, reported \cup Conflicts(s, o))
    BY <1>3, <1>7, <2>3, <2>4, RowsMerged
  <2> QED BY <1>8, <2>2, <2>5
<1>11. ASSUME NEW p \in Replicas
      PROVE  /\ CopyInv(h, state'[p], seen'[p])
             /\ CopyInv(h, sent[p][1], sent[p][2])
             /\ \A k \in DOMAIN h : h[k].by = p => k \in seen'[p]
             /\ CoveredInv(h, state'[p].concept, seen'[p], reported')
             /\ CoveredInv(h, sent[p][1].concept, sent[p][2], reported')
  <2>1. /\ CopyInv(h, state[p], seen[p]) /\ CopyInv(h, sent[p][1], sent[p][2])
        /\ \A k \in DOMAIN h : h[k].by = p => k \in seen[p]
        /\ CoveredInv(h, state[p].concept, seen[p], reported')
        /\ CoveredInv(h, sent[p][1].concept, sent[p][2], reported')
    <3>1. /\ CoveredInv(h, state[p].concept, seen[p], reported)
          /\ CoveredInv(h, sent[p][1].concept, sent[p][2], reported)
      BY <1>1 DEF CrdtInv
    <3>2. CoveredInv(h, state[p].concept, seen[p], reported')
      BY <1>4, <3>1 DEF CoveredInv
    <3>3. CoveredInv(h, sent[p][1].concept, sent[p][2], reported')
      BY <1>4, <3>1 DEF CoveredInv
    <3> QED BY <1>1, <3>2, <3>3 DEF CrdtInv
  <2>2. CASE p = r
    <3>1. state'[p] = z /\ seen'[p] = S \cup T
      BY <1>3, <1>4, <2>2
    <3> QED BY <1>1, <1>4, <1>5, <1>10, <2>1, <2>2, <3>1
  <2>3. CASE p # r
    <3>1. state'[p] = state[p] /\ seen'[p] = seen[p]
      BY <1>3, <1>4, <2>3
    <3> QED BY <2>1, <3>1
  <2> QED BY <2>2, <2>3
<1>12. RowsInv(h, Rows(state', sent), state')
  <2>1. PICK st2 : st2 = state'
    OBVIOUS
  <2>2. st2[r] = z /\ \A p \in Replicas \ {r} : st2[p] = state[p]
    BY <1>3, <1>4, <2>1
  <2>3. Rows(st2, sent) \subseteq Rows(state, sent)
    BY <1>7, <1>8, <2>2 DEF Rows, MergedConcept
  <2>4. ASSUME NEW p \in Replicas, NEW p2 \in Replicas
        PROVE  st2[p].concept.clock[p2] >= state[p].concept.clock[p2]
    <3>1. state[p].concept \in Versions
      BY <1>3 DEF States
    <3>2. state[p].concept.clock[p2] \in Nat
      BY <3>1 DEF Versions, Clocks
    <3>3. CASE p # r
      BY <2>2, <3>2, <3>3
    <3>4. CASE p = r
      <4>1. state[p].concept = s.concept /\ st2[p].concept = MergedConcept(s.concept, o.concept)
        BY <1>1, <1>8, <2>2, <3>4
      <4>2. CASE Dominates(o.concept.clock, s.concept.clock)
        BY <4>1, <4>2 DEF MergedConcept, Dominates
      <4>3. CASE ~Dominates(o.concept.clock, s.concept.clock) /\ s.concept.write # 0
        BY <3>2, <4>1, <4>3 DEF MergedConcept
      <4>4. CASE s.concept.write = 0
        <5>1. s.concept.clock[p2] = 0
          <6>1. RowInv(h, s.concept)
            BY <1>7 DEF RowsInv
          <6> QED BY <1>3, <4>4, <6>1, NoRow
        <5>2. o.concept.clock[p2] \in Nat
          BY <1>7 DEF RowsInv, RowInv, Versions, Clocks
        <5>3. st2[p].concept = o.concept
          BY <4>1, <4>4 DEF MergedConcept
        <5> QED BY <4>1, <5>1, <5>2, <5>3
      <4> QED BY <4>2, <4>3, <4>4
    <3> QED BY <3>3, <3>4
  <2>5. RowsInv(h, Rows(st2, sent), st2)
    <3>1. RowsInv(h, Rows(state, sent), state)
      BY <1>3
    <3>2. ASSUME NEW v \in Rows(st2, sent) PROVE OwnIsLatest(v, st2)
      <4>1. v \in Versions /\ OwnIsLatest(v, state)
        BY <2>3, <3>1, <3>2 DEF RowsInv, RowInv
      <4>2. ASSUME NEW p \in Replicas PROVE v.clock[p] <= st2[p].concept.clock[p]
        <5>1. state[p].concept \in Versions /\ st2[p].concept \in Versions
          <6>1. state[p].concept \in Versions /\ z.concept \in Versions
            BY <1>3, <1>5 DEF States, CopyInv
          <6> QED BY <2>2, <6>1
        <5>2. /\ v.clock[p] \in Nat /\ state[p].concept.clock[p] \in Nat
              /\ st2[p].concept.clock[p] \in Nat
          BY <4>1, <5>1 DEF Versions, Clocks
        <5>3. v.clock[p] <= state[p].concept.clock[p]
          BY <4>1 DEF OwnIsLatest
        <5>4. st2[p].concept.clock[p] >= state[p].concept.clock[p]
          BY <2>4
        <5> QED BY <5>2, <5>3, <5>4
      <4> QED BY <4>2 DEF OwnIsLatest
    <3> QED BY <2>3, <3>1, <3>2 DEF RowsInv
  <2> QED BY <2>1, <2>5
<1> QED BY <1>1, <1>3, <1>4, <1>6, <1>11, <1>9, <1>12 DEF CrdtInv

LEMMA CrdtStep == CrdtInv /\ [CrdtNext]_crdtVars => CrdtInv'
<1> SUFFICES ASSUME CrdtInv, [CrdtNext]_crdtVars PROVE CrdtInv'
  OBVIOUS
<1>1. ASSUME NEW r \in Replicas, NEW kind \in Kinds, NEW t \in Times(kind), Update(r, kind, t)
      PROVE  CrdtInv'
  BY <1>1, UpdateKeeps
<1>2. ASSUME NEW r \in Replicas, Snapshot(r)
      PROVE  CrdtInv'
  BY <1>2, SnapshotKeeps
<1>3. ASSUME NEW r \in Replicas, NEW q \in Replicas \ {r}, Merge(r, q)
      PROVE  CrdtInv'
  BY <1>3, MergeKeeps
<1>4. CASE UNCHANGED crdtVars
  <2>1. /\ updates' = updates /\ state' = state /\ sent' = sent /\ seen' = seen
        /\ reported' = reported
    BY <1>4 DEF crdtVars
  <2> QED BY <2>1 DEF CrdtInv
<1> QED BY <1>1, <1>2, <1>3, <1>4 DEF CrdtNext

LEMMA CopiesShowAll ==
  CrdtInv => CrdtTypeOK /\ NoUpdateIsLost
<1> SUFFICES ASSUME CrdtInv PROVE CrdtTypeOK /\ NoUpdateIsLost
  OBVIOUS
<1>1. CrdtTypeOK
  BY DEF CrdtInv, CrdtTypeOK, HistoryInv, UpdateType
<1>2. HistoryInv(updates)
  BY DEF CrdtInv
<1>3. \A r, K : Seen(r, K) = OfKind(updates, seen[r], {K})
  BY DEF Seen, OfKind
<1>4. ASSUME NEW r \in Replicas
      PROVE  /\ Contains(state[r]) <=> \E a \in Seen(r, "add") :
                                         \A d \in Seen(r, "remove") : a \notin updates[d].saw
             /\ Count(state[r]) = Cardinality(Seen(r, "increment"))
                                    - Cardinality(Seen(r, "decrement"))
             /\ \A n \in Seen(r, "set") :
                  (\A m \in Seen(r, "set") \ {n} : updates[m].at < updates[n].at)
                    => state[r].value = n
  <2>1. CopyInv(updates, state[r], seen[r])
    BY DEF CrdtInv
  <2>2. PICK s, S : s = state[r] /\ S = seen[r]
    OBVIOUS
  <2>3. CopyInv(updates, s, S)
    BY <2>1, <2>2
  <2>4. /\ Contains(s) <=> \E a \in OfKind(updates, S, {"add"}) :
                             \A d \in OfKind(updates, S, {"remove"}) : a \notin updates[d].saw
        /\ Count(s) = Cardinality(OfKind(updates, S, {"increment"}))
                        - Cardinality(OfKind(updates, S, {"decrement"}))
        /\ \A n \in OfKind(updates, S, {"set"}) :
             (\A m \in OfKind(updates, S, {"set"}) \ {n} : updates[m].at < updates[n].at)
               => s.value = n
    BY <1>2, <2>3, CopyShows
  <2> QED BY <1>3, <2>2, <2>4
<1>5. NoConceptVanishes
  <2> SUFFICES ASSUME NEW r \in Replicas, NEW n \in Seen(r, "concept")
               PROVE  \E m \in reported \cup {state[r].concept.write} : Includes(m, n)
    BY DEF NoConceptVanishes
  <2>1. CoveredInv(updates, state[r].concept, seen[r], reported)
    BY DEF CrdtInv
  <2>2. PICK m \in reported \cup {state[r].concept.write} : Covers(updates, m, n)
    BY <1>3, <2>1 DEF CoveredInv
  <2>3. m = n \/ (m \in DOMAIN updates /\ n \in updates[m].saw /\ updates[m].kind = updates[n].kind)
    BY <2>2 DEF Covers
  <2>4. \A k \in DOMAIN updates : k \in Nat /\ \A i \in updates[k].saw : i < k
    BY <1>2, HistoryPlaces
  <2>5. n \in Nat
    BY <2>2, <2>4 DEF Covers
  <2>6. m = n \/ m > n
    BY <2>3, <2>4, <2>5
  <2> QED BY <2>3, <2>6 DEF Includes
<1> QED BY <1>1, <1>4, <1>5 DEF NoUpdateIsLost, AddsWin, EachCountsOnce, YoungestWins

\* The data types of crdt.py are well-formed for any number of replicas and updates.
THEOREM ReplicasTypeCorrect == CrdtSpec => []CrdtTypeOK
<1>1. CrdtInv => CrdtTypeOK
  BY CopiesShowAll
<1> QED BY <1>1, CrdtStart, CrdtStep, PTL DEF CrdtSpec

\* For any number of replicas and updates, merges in any order and however often give
\* every replica what the updates that reached it make, and no write of a concept is
\* dropped unreported (crdt.py, LocalAdapter.merge).
THEOREM UpdatesAreNeverLost == CrdtSpec => []NoUpdateIsLost
<1>1. CrdtInv => NoUpdateIsLost
  BY CopiesShowAll
<1> QED BY <1>1, CrdtStart, CrdtStep, PTL DEF CrdtSpec
===============================================================================
