-------------------------- MODULE ConsentLedger_Proofs --------------------------
(***************************************************************************)
(* Proofs about ConsentLedger, for any threads of any processes, any       *)
(* records offered and any requests.  Rows keep what was granted and never *)
(* come back to life (Grew): what a call knows of the rows it has read is  *)
(* still true when it answers (AskKnows), and a revocation leaves no child *)
(* behind that was there (CascadeInv).  That indexes are unique takes that *)
(* the threads share a process, hence the lock (IndexInv).                 *)
(***************************************************************************)
EXTENDS ConsentLedger, SequenceTheorems, TLAPS

-------------------------------------------------------------------------------
(* The inductive invariant *)

AskLabels == {"find", "judge", "decided"}

\* What the decision made by w says if it is a yes.
YesIsRight(w) ==
  LET f == frame[w]
      c == rows[f.found]
  IN /\ f.found \in DOMAIN rows \ f.dead
     /\ c.offer.key = f.request.key
     /\ f.request.op \in c.offer.ops
     /\ f.request.class <= c.offer.class
     /\ c.offer.until # 0 => c.offer.until > f.since
     /\ c.offer.until = 0 => f.since - c.granted < profile.reconfirmDays

AskKnows(w) ==
  LET f == frame[w]
  IN /\ pc[w] \in AskLabels =>
          /\ f.since <= clock
          /\ \A r \in f.dead : r \in DOMAIN rows /\ ~Active(r)
          /\ \A r \in f.optedOut : /\ r \in DOMAIN rows
                                   /\ rows[r].offer.key = f.request.key
                                   /\ rows[r].offer.basis = "opt_out"
     /\ pc[w] = "judge" =>
          /\ ~profile.optOutModel
          /\ f.found \in DOMAIN rows \ f.dead
          /\ rows[f.found].offer.key = f.request.key
          /\ rows[f.found].offer.until # 0 => rows[f.found].offer.until > f.since
     /\ pc[w] = "decided" /\ f.allowed /\ mode = "enforced" /\ f.request.key \notin SelfKeys =>
          IF profile.optOutModel THEN \A r \in f.optedOut : ~Active(r) ELSE YesIsRight(w)

CascadeInv ==
  /\ \A c \in DOMAIN rows : rows[c].offer.parent < c /\ rows[c].known <= Len(rows)
  /\ CascadeReachesChildren

\* TypeOK, in two parts.
LedgerTyped ==
  /\ rows \in Seq(Rows) /\ Len(rows) <= MaxRows
  /\ nextIdx \in Nat
  /\ lock \in [Processes -> Callers \cup {NoCaller}]
  /\ receipts \in [1 .. MaxRows -> Nat]
  /\ mode \in Modes /\ profile \in Profiles
  /\ clock \in 0 .. MaxTime

CallTyped(w) ==
  /\ pc[w] = "idle" => frame[w] = NoFrame
  /\ pc[w] \in {"allocate", "bump", "insert"} => frame[w] \in Call
  /\ pc[w] \in {"revoke", "revoked"} => frame[w] \in Kill /\ frame[w].row \in DOMAIN rows
  /\ pc[w] \in AskLabels => frame[w] \in Ask

LedgerInv ==
  /\ LedgerTyped /\ CascadeInv
  /\ pc \in [Callers -> PCs] /\ DOMAIN frame = Callers
  /\ \A w \in Callers : CallTyped(w) /\ AskKnows(w)

\* Every index below the counter has one holder: a row, or a caller about to insert
\* one.  The counter itself is held by whoever has the lock.
IndexInv ==
  /\ \A r \in DOMAIN rows : rows[r].idx < nextIdx
  /\ \A w \in Callers :
       /\ pc[w] = "bump" => frame[w].idx = nextIdx /\ lock[ProcessOf[w]] = w
       /\ pc[w] = "insert" => /\ frame[w].idx < nextIdx
                              /\ \A r \in DOMAIN rows : rows[r].idx # frame[w].idx
  /\ \A v, w \in Callers :
       pc[v] = "insert" /\ pc[w] = "insert" /\ v # w => frame[v].idx # frame[w].idx
  /\ IndexNeverShared

\* All callers are threads of one process.
OneLock == \A v, w \in Callers : ProcessOf[v] = ProcessOf[w]

-------------------------------------------------------------------------------
(* Steps *)

\* Rows keep what was granted, and none comes back to life.
Grew ==
  /\ rows' \in Seq(Rows) /\ Len(rows) <= Len(rows')
  /\ \A r \in DOMAIN rows :
       /\ rows'[r].offer = rows[r].offer /\ rows'[r].granted = rows[r].granted
       /\ ~Active(r) => rows'[r].status # "active"

LEMMA Maxima ==
  /\ MaxRows \in Nat /\ MaxIndexes \in Nat /\ MaxTime \in Nat
  /\ ProcessOf \in [Callers -> Processes] /\ NoCaller \notin Callers
  /\ Offers \subseteq OfferType /\ Requests \subseteq RequestType
  /\ Modes \subseteq GateModes /\ Profiles \subseteq ProfileType
  BY LedgerConstants

LEMMA SameInterval ==
  ASSUME NEW m \in Nat, NEW n \in Nat, 1 .. m = 1 .. n
  PROVE  m = n
<1>1. ASSUME NEW i \in Nat, NEW j \in Nat, i < j, 1 .. i = 1 .. j PROVE FALSE
  <2>1. j \in 1 .. j /\ j \notin 1 .. i
    BY <1>1
  <2> QED
    BY <1>1, <2>1
<1> QED
  BY <1>1

LEMMA RowFacts ==
  ASSUME LedgerInv
  PROVE  /\ rows \in Seq(Rows) /\ DOMAIN rows = 1 .. Len(rows) /\ Len(rows) \in 0 .. MaxRows
         /\ \A r \in DOMAIN rows : /\ rows[r] \in Rows /\ r \in 1 .. MaxRows
                                   /\ rows[r].offer \in OfferType
                                   /\ rows[r].granted \in Nat /\ rows[r].idx \in Nat
                                   /\ rows[r].known \in Nat
         /\ clock \in Nat /\ profile.reconfirmDays \in Nat
<1>1. rows \in Seq(Rows) /\ Len(rows) <= MaxRows
  BY DEF LedgerInv, LedgerTyped
<1>2. DOMAIN rows = 1 .. Len(rows) /\ Len(rows) \in 0 .. MaxRows
  BY <1>1, Maxima, LenProperties
<1>3. ASSUME NEW r \in DOMAIN rows PROVE rows[r] \in Rows
  BY <1>1, <1>2, <1>3, ElementOfSeq
<1>4. profile \in ProfileType /\ clock \in Nat
  BY Maxima DEF LedgerInv, LedgerTyped
<1>5. profile.reconfirmDays \in Nat
  BY <1>4 DEF ProfileType
<1>6. ASSUME NEW r \in DOMAIN rows
      PROVE  /\ rows[r].offer \in OfferType /\ rows[r].granted \in Nat
             /\ rows[r].idx \in Nat /\ rows[r].known \in Nat /\ r \in 1 .. MaxRows
  <2>1. rows[r] \in Rows
    BY <1>3
  <2>2. r \in 1 .. MaxRows
    BY <1>2, Maxima
  <2>3. /\ rows[r].offer \in OfferType /\ rows[r].granted \in Nat
        /\ rows[r].idx \in Nat /\ rows[r].known \in Nat
    BY <2>1 DEF Rows
  <2> QED
    BY <2>2, <2>3
<1> QED
  BY <1>1, <1>2, <1>3, <1>4, <1>5, <1>6

LEMMA GotoFacts ==
  ASSUME LedgerInv, NEW w \in Callers, NEW label \in PCs, NEW f, Goto(w, label, f)
  PROVE  /\ pc' \in [Callers -> PCs] /\ DOMAIN frame' = Callers
         /\ pc'[w] = label /\ frame'[w] = f
         /\ \A v \in Callers \ {w} : pc'[v] = pc[v] /\ frame'[v] = frame[v]
<1>1. pc \in [Callers -> PCs] /\ DOMAIN frame = Callers
  BY DEF LedgerInv
<1> QED
  BY <1>1 DEF Goto

\* What a call knows stays true whatever the others do.
LEMMA KnowsOn ==
  ASSUME LedgerInv, Grew, UNCHANGED config, clock' \in Nat, clock <= clock',
         NEW w \in Callers, pc'[w] = pc[w], frame'[w] = frame[w]
  PROVE  CallTyped(w)' /\ AskKnows(w)'
<1>1. /\ CallTyped(w) /\ AskKnows(w) /\ mode' = mode /\ profile' = profile
  BY DEF LedgerInv, config
<1>2. /\ DOMAIN rows \subseteq DOMAIN rows'
      /\ \A r \in DOMAIN rows :
           /\ rows'[r].offer = rows[r].offer /\ rows'[r].granted = rows[r].granted
           /\ ~Active(r) => rows'[r].status # "active"
  BY RowFacts, LenProperties DEF Grew
<1>3. CallTyped(w)'
  BY <1>1, <1>2 DEF CallTyped
<1>4. \A r \in DOMAIN rows : ~Active(r) => ~Active(r)'
  BY <1>2 DEF Active
<1>5. pc[w] \in AskLabels =>
        /\ frame[w].since \in Nat /\ frame[w].since <= clock
        /\ \A r \in frame[w].dead : r \in DOMAIN rows /\ ~Active(r)
        /\ \A r \in frame[w].optedOut : /\ r \in DOMAIN rows
                                        /\ rows[r].offer.key = frame[w].request.key
                                        /\ rows[r].offer.basis = "opt_out"
  BY <1>1 DEF CallTyped, AskKnows, Ask
<1>6. pc'[w] \in AskLabels =>
        /\ frame'[w].since <= clock'
        /\ \A r \in frame'[w].dead : r \in DOMAIN rows' /\ ~Active(r)'
        /\ \A r \in frame'[w].optedOut : /\ r \in DOMAIN rows'
                                         /\ rows'[r].offer.key = frame'[w].request.key
                                         /\ rows'[r].offer.basis = "opt_out"
  BY <1>2, <1>4, <1>5, RowFacts
<1>7. YesIsRight(w) => YesIsRight(w)'
  BY <1>1, <1>2 DEF YesIsRight
<1>8. pc'[w] = "judge" =>
        /\ ~profile'.optOutModel
        /\ frame'[w].found \in DOMAIN rows' \ frame'[w].dead
        /\ rows'[frame'[w].found].offer.key = frame'[w].request.key
        /\ rows'[frame'[w].found].offer.until # 0 =>
             rows'[frame'[w].found].offer.until > frame'[w].since
  BY <1>1, <1>2 DEF AskKnows
<1>9. pc'[w] = "decided" /\ frame'[w].allowed /\ mode' = "enforced"
        /\ frame'[w].request.key \notin SelfKeys =>
        IF profile'.optOutModel THEN \A r \in frame'[w].optedOut : ~Active(r)' ELSE YesIsRight(w)'
  BY <1>1, <1>4, <1>5, <1>7 DEF AskKnows, AskLabels
<1> QED
  BY <1>3, <1>6, <1>8, <1>9 DEF AskKnows

LEMMA CallStep ==
  ASSUME LedgerInv, Grew, UNCHANGED <<config, clock>>,
         NEW w \in Callers, NEW label \in PCs, NEW f, Goto(w, label, f),
         LedgerTyped', CascadeInv', CallTyped(w)', AskKnows(w)'
  PROVE  LedgerInv'
<1>1. clock' \in Nat /\ clock <= clock' /\ UNCHANGED config
  BY RowFacts
<1>2. /\ pc' \in [Callers -> PCs] /\ DOMAIN frame' = Callers
      /\ \A v \in Callers \ {w} : pc'[v] = pc[v] /\ frame'[v] = frame[v]
  BY GotoFacts
<1>3. \A v \in Callers \ {w} : CallTyped(v)' /\ AskKnows(v)'
  BY <1>1, <1>2, KnowsOn
<1> QED
  BY <1>2, <1>3 DEF LedgerInv

LEMMA SameRows ==
  ASSUME LedgerInv, UNCHANGED rows
  PROVE  Grew /\ CascadeInv'
<1>1. Grew
  BY RowFacts DEF Grew, Active
<1>2. CascadeInv'
  BY DEF LedgerInv, CascadeInv, CascadeReachesChildren, Active
<1> QED
  BY <1>1, <1>2

\* A step of a call that writes nothing.
LEMMA Reading ==
  ASSUME LedgerInv, UNCHANGED <<ledger, config, clock>>,
         NEW w \in Callers, NEW label \in PCs, NEW f, Goto(w, label, f),
         CallTyped(w)', AskKnows(w)'
  PROVE  LedgerInv'
<1>1. UNCHANGED <<rows, nextIdx, lock, receipts, mode, profile, clock>>
  BY DEF ledger, config
<1>2. LedgerTyped'
  BY <1>1 DEF LedgerInv, LedgerTyped
<1>3. Grew /\ CascadeInv'
  BY <1>1, SameRows
<1> QED
  BY <1>2, <1>3, CallStep

\* A call that is over knows nothing.
LEMMA Returned ==
  ASSUME LedgerInv, NEW w \in Callers, Return(w)
  PROVE  CallTyped(w)' /\ AskKnows(w)' /\ pc'[w] = "idle" /\ Goto(w, "idle", NoFrame)
<1>1. Goto(w, "idle", NoFrame) /\ "idle" \in PCs
  BY DEF Return, PCs
<1>2. pc'[w] = "idle" /\ frame'[w] = NoFrame
  BY <1>1, GotoFacts
<1> QED
  BY <1>1, <1>2 DEF CallTyped, AskKnows, AskLabels

-------------------------------------------------------------------------------
(* grant() *)

LEMMA GrantKeeps ==
  ASSUME LedgerInv, NEW w \in Callers, NEW o \in Offers, Grant(w, o)
  PROVE  LedgerInv'
<1>1. /\ Goto(w, "allocate", [offer |-> o, granted |-> clock, idx |-> 0])
      /\ UNCHANGED <<ledger, config, clock>> /\ "allocate" \in PCs
  BY DEF Grant, PCs
<1>2. pc'[w] = "allocate" /\ frame'[w] = [offer |-> o, granted |-> clock, idx |-> 0]
  BY <1>1, GotoFacts
<1>3. [offer |-> o, granted |-> clock, idx |-> 0] \in Call
  BY RowFacts DEF Call
<1>4. CallTyped(w)' /\ AskKnows(w)'
  BY <1>2, <1>3 DEF CallTyped, AskKnows, AskLabels
<1> QED
  BY <1>1, <1>4, Reading

LEMMA AllocateReadKeeps ==
  ASSUME LedgerInv, NEW w \in Callers, AllocateRead(w)
  PROVE  LedgerInv'
<1>1. /\ pc[w] = "allocate" /\ "bump" \in PCs
      /\ lock' = [lock EXCEPT ![ProcessOf[w]] = w]
      /\ Goto(w, "bump", [frame[w] EXCEPT !.idx = nextIdx])
      /\ UNCHANGED <<rows, nextIdx, receipts, config, clock>>
  BY DEF AllocateRead, PCs
<1>2. LedgerTyped /\ frame[w] \in Call /\ nextIdx \in Nat
  BY <1>1 DEF LedgerInv, CallTyped, LedgerTyped
<1>3. pc'[w] = "bump" /\ frame'[w] = [frame[w] EXCEPT !.idx = nextIdx]
  BY <1>1, GotoFacts
<1>4. [frame[w] EXCEPT !.idx = nextIdx] \in Call
  BY <1>2 DEF Call
<1>5. CallTyped(w)' /\ AskKnows(w)'
  BY <1>3, <1>4 DEF CallTyped, AskKnows, AskLabels
<1>6. UNCHANGED <<mode, profile>>
  BY <1>1 DEF config
<1>7. LedgerTyped'
  BY <1>1, <1>2, <1>6 DEF LedgerTyped
<1>8. Grew /\ CascadeInv'
  BY <1>1, SameRows
<1> QED
  BY <1>1, <1>5, <1>7, <1>8, CallStep

LEMMA AllocateWriteKeeps ==
  ASSUME LedgerInv, NEW w \in Callers, AllocateWrite(w)
  PROVE  LedgerInv'
<1>1. /\ pc[w] = "bump" /\ "insert" \in PCs
      /\ nextIdx' = frame[w].idx + 1
      /\ lock' = [lock EXCEPT ![ProcessOf[w]] = NoCaller]
      /\ Goto(w, "insert", frame[w])
      /\ UNCHANGED <<rows, receipts, config, clock>>
  BY DEF AllocateWrite, PCs
<1>2. LedgerTyped /\ frame[w] \in Call /\ frame[w].idx \in Nat
  BY <1>1 DEF LedgerInv, CallTyped, Call
<1>3. pc'[w] = "insert" /\ frame'[w] = frame[w]
  BY <1>1, GotoFacts
<1>4. CallTyped(w)' /\ AskKnows(w)'
  BY <1>2, <1>3 DEF CallTyped, AskKnows, AskLabels
<1>5. UNCHANGED <<mode, profile>>
  BY <1>1 DEF config
<1>6. LedgerTyped'
  <2>1. nextIdx' \in Nat
    BY <1>1, <1>2
  <2>2. lock' \in [Processes -> Callers \cup {NoCaller}]
    BY <1>1, <1>2 DEF LedgerTyped
  <2> QED
    BY <1>1, <1>2, <1>5, <2>1, <2>2 DEF LedgerTyped
<1>7. Grew /\ CascadeInv'
  BY <1>1, SameRows
<1> QED
  BY <1>1, <1>4, <1>6, <1>7, CallStep

\* What InsertRow does to the table.
LEMMA Inserted ==
  ASSUME LedgerInv, NEW w \in Callers, InsertRow(w)
  PROVE  /\ Grew /\ Len(rows') = Len(rows) + 1 /\ DOMAIN rows' = 1 .. Len(rows) + 1
         /\ \A r \in DOMAIN rows : rows'[r] = rows[r]
         /\ rows'[Len(rows) + 1] = NewRow(frame[w])
         /\ NewRow(frame[w]) \in Rows /\ Len(rows') <= MaxRows
<1>1. /\ pc[w] = "insert" /\ Len(rows) < MaxRows
      /\ rows' = Append(rows, NewRow(frame[w]))
  BY DEF InsertRow
<1>2. frame[w] \in Call
  BY <1>1 DEF LedgerInv, CallTyped
<1>3. frame[w].offer \in OfferType /\ frame[w].granted \in Nat /\ frame[w].idx \in Nat
  BY <1>2, Maxima DEF Call
<1>4. NewRow(frame[w]) \in Rows
  BY <1>3 DEF NewRow, Rows
<1>5. rows \in Seq(Rows) /\ Len(rows) \in Nat /\ DOMAIN rows = 1 .. Len(rows)
  BY RowFacts
<1>6. /\ rows' \in Seq(Rows) /\ Len(rows') = Len(rows) + 1 /\ DOMAIN rows' = 1 .. Len(rows) + 1
      /\ \A r \in 1 .. Len(rows) : rows'[r] = rows[r]
      /\ rows'[Len(rows) + 1] = NewRow(frame[w])
  BY <1>1, <1>4, <1>5, AppendProperties, LenProperties
<1>7. Grew
  BY <1>5, <1>6 DEF Grew, Active
<1> QED
  BY <1>1, <1>4, <1>5, <1>6, <1>7, Maxima

\* The new row's parent is below it, and may have been revoked before.
LEMMA InsertRowKeeps ==
  ASSUME LedgerInv, NEW w \in Callers, InsertRow(w)
  PROVE  LedgerInv'
<1>1. /\ frame[w].offer.parent <= Len(rows) /\ Return(w)
      /\ UNCHANGED <<nextIdx, lock, receipts, config, clock>>
  BY DEF InsertRow
<1>2. /\ Grew /\ Len(rows') = Len(rows) + 1 /\ DOMAIN rows' = 1 .. Len(rows) + 1
      /\ \A r \in DOMAIN rows : rows'[r] = rows[r]
      /\ rows'[Len(rows) + 1] = NewRow(frame[w])
      /\ NewRow(frame[w]) \in Rows /\ Len(rows') <= MaxRows
  BY Inserted
<1>3. UNCHANGED <<mode, profile>>
  BY <1>1 DEF config
<1>4. LedgerTyped'
  BY <1>1, <1>2, <1>3 DEF LedgerInv, LedgerTyped, Grew
<1>5. /\ NewRow(frame[w]).offer.parent \in 0 .. Len(rows) /\ NewRow(frame[w]).known = 0
      /\ Len(rows) \in Nat /\ DOMAIN rows = 1 .. Len(rows)
  <2>1. NewRow(frame[w]).offer = frame[w].offer /\ NewRow(frame[w]).known = 0
    BY DEF NewRow
  <2>2. NewRow(frame[w]).offer \in OfferType
    BY <1>2 DEF Rows
  <2> QED
    BY <1>1, <2>1, <2>2, RowFacts DEF OfferType
<1>6. CascadeInv'
  <2>1. /\ \A c \in DOMAIN rows : rows[c].offer.parent < c /\ rows[c].known <= Len(rows)
        /\ \A c \in DOMAIN rows : rows[c].offer.parent \in Nat /\ rows[c].known \in Nat
        /\ CascadeReachesChildren
    BY RowFacts DEF LedgerInv, CascadeInv, OfferType
  <2>2. \A c \in DOMAIN rows' : rows'[c].offer.parent < c /\ rows'[c].known <= Len(rows')
    BY <1>2, <1>5, <2>1
  <2>3. ASSUME NEW c \in DOMAIN rows', NEW p \in Nat, p = rows'[c].offer.parent,
               rows'[c].status = "active", p # 0, rows'[p].status # "active"
        PROVE  rows'[p].how = "cascade" \/ c > rows'[p].known
    <3>1. p \in DOMAIN rows
      BY <1>2, <1>5, <2>2, <2>3
    <3>2. CASE c \in DOMAIN rows
      BY <1>2, <2>1, <2>3, <3>1, <3>2 DEF CascadeReachesChildren, Active
    <3>3. CASE c = Len(rows) + 1
      BY <1>2, <1>5, <2>1, <3>1, <3>3
    <3> QED
      BY <1>2, <1>5, <3>2, <3>3
  <2>4. \A c \in DOMAIN rows' : rows'[c].offer.parent \in Nat
    BY <1>2, <1>5, <2>1
  <2>5. CascadeReachesChildren'
    BY <2>3, <2>4 DEF CascadeReachesChildren, Active
  <2> QED
    BY <2>2, <2>5 DEF CascadeInv
<1>7. CallTyped(w)' /\ AskKnows(w)' /\ Goto(w, "idle", NoFrame) /\ "idle" \in PCs
  BY <1>1, Returned DEF PCs
<1> QED
  BY <1>1, <1>2, <1>4, <1>6, <1>7, CallStep

LEMMA InsertFailsKeeps ==
  ASSUME LedgerInv, NEW w \in Callers, InsertFails(w)
  PROVE  LedgerInv'
  BY Returned, Reading DEF InsertFails, PCs

-------------------------------------------------------------------------------
(* revoke() *)

LEMMA RevokeKeeps ==
  ASSUME LedgerInv, NEW w \in Callers, NEW r \in DOMAIN rows, Revoke(w, r)
  PROVE  LedgerInv'
<1>1. Goto(w, "revoke", [row |-> r]) /\ UNCHANGED <<ledger, config, clock>> /\ "revoke" \in PCs
  BY DEF Revoke, PCs
<1>2. pc'[w] = "revoke" /\ frame'[w] = [row |-> r] /\ rows' = rows /\ r \in Nat
  BY <1>1, GotoFacts, RowFacts DEF ledger
<1>3. CallTyped(w)' /\ AskKnows(w)'
  BY <1>2 DEF CallTyped, AskKnows, AskLabels, Kill
<1> QED
  BY <1>1, <1>3, Reading

LEMMA RevokeWriteKeeps ==
  ASSUME LedgerInv, NEW w \in Callers, RevokeWrite(w)
  PROVE  LedgerInv'
<1>1. /\ pc[w] = "revoke" /\ Goto(w, "revoked", frame[w]) /\ "revoked" \in PCs
      /\ UNCHANGED <<nextIdx, lock, receipts, config, clock>>
  BY DEF RevokeWrite, PCs
<1>2. PICK k \in DOMAIN rows : k = frame[w].row
  BY <1>1 DEF LedgerInv, CallTyped
<1>3. /\ DOMAIN rows' = DOMAIN rows
      /\ \A c \in DOMAIN rows :
           rows'[c] = IF c = k
                        THEN [rows[c] EXCEPT !.status = "revoked", !.how = "direct",
                                             !.known = Len(rows)]
                      ELSE IF c \in Cascaded(k)
                        THEN [rows[c] EXCEPT !.status = "revoked", !.how = "cascade",
                                             !.known = Len(rows)]
                      ELSE rows[c]
      /\ rows' = [c \in DOMAIN rows |-> rows'[c]]
  BY <1>2 DEF RevokeWrite
<1>4. \A c \in DOMAIN rows : rows[c] \in Rows
  BY RowFacts
<1>5. Len(rows) \in Nat /\ DOMAIN rows = 1 .. Len(rows)
  BY RowFacts
<1>6. ASSUME NEW c \in DOMAIN rows
      PROVE  /\ rows'[c] \in Rows
             /\ rows'[c].offer = rows[c].offer /\ rows'[c].granted = rows[c].granted
             /\ c = k => rows'[c].status = "revoked" /\ rows'[c].known = Len(rows)
             /\ c # k /\ c \in Cascaded(k) => /\ rows'[c].status = "revoked"
                                              /\ rows'[c].how = "cascade"
                                              /\ rows'[c].known = Len(rows)
             /\ c # k /\ c \notin Cascaded(k) => rows'[c] = rows[c]
  <2>1. rows[c] \in Rows
    BY <1>4
  <2>2. CASE c = k
    <3>1. rows'[c] = [rows[c] EXCEPT !.status = "revoked", !.how = "direct", !.known = Len(rows)]
      BY <1>3, <2>2
    <3> QED
      BY <1>5, <2>1, <2>2, <3>1 DEF Rows
  <2>3. CASE c # k /\ c \in Cascaded(k)
    <3>1. rows'[c] = [rows[c] EXCEPT !.status = "revoked", !.how = "cascade", !.known = Len(rows)]
      BY <1>3, <2>3
    <3> QED
      BY <1>5, <2>1, <2>3, <3>1 DEF Rows
  <2>4. CASE c # k /\ c \notin Cascaded(k)
    BY <1>3, <2>1, <2>4
  <2> QED
    BY <2>2, <2>3, <2>4
<1>7. rows' \in Seq(Rows) /\ Len(rows') = Len(rows)
  <2>1. rows' = [c \in 1 .. Len(rows) |-> rows'[c]] /\ \A c \in 1 .. Len(rows) : rows'[c] \in Rows
    BY <1>3, <1>5, <1>6
  <2>2. rows' \in [1 .. Len(rows) -> Rows]
    BY <2>1
  <2>3. rows' \in Seq(Rows)
    BY <1>5, <2>2, IsASeq
  <2>4. Len(rows') \in Nat /\ 1 .. Len(rows') = 1 .. Len(rows)
    BY <1>3, <1>5, <2>3, LenProperties
  <2> QED
    BY <1>5, <2>3, <2>4, SameInterval
<1>8. Grew
  BY <1>5, <1>6, <1>7 DEF Grew, Active
<1>9. LedgerTyped'
  <2>1. UNCHANGED <<mode, profile>>
    BY <1>1 DEF config
  <2> QED
    BY <1>1, <1>7, <2>1 DEF LedgerInv, LedgerTyped
<1>10. CascadeInv'
  <2>1. /\ \A c \in DOMAIN rows : rows[c].offer.parent < c /\ rows[c].known <= Len(rows)
        /\ \A c \in DOMAIN rows : rows[c].offer.parent \in Nat /\ rows[c].known \in Nat
        /\ CascadeReachesChildren
    BY RowFacts DEF LedgerInv, CascadeInv, OfferType
  <2>2. \A c \in DOMAIN rows' : rows'[c].offer.parent < c /\ rows'[c].known <= Len(rows')
    <3> SUFFICES ASSUME NEW c \in DOMAIN rows
        PROVE  rows'[c].offer.parent < c /\ rows'[c].known <= Len(rows')
      BY <1>3
    <3>1. rows'[c].offer = rows[c].offer
      BY <1>6
    <3>2. rows'[c].known \in {rows[c].known, Len(rows)}
      BY <1>6
    <3> QED
      BY <1>5, <1>7, <2>1, <3>1, <3>2
  <2>3. ASSUME NEW c \in DOMAIN rows, NEW p \in Nat, p = rows[c].offer.parent,
               rows'[c].status = "active", p # 0, rows'[p].status # "active"
        PROVE  rows'[p].how = "cascade" \/ c > rows'[p].known
    <3>1. p \in DOMAIN rows
      BY <1>5, <2>1, <2>3
    <3>2. rows'[c] = rows[c] /\ c # k /\ c \notin Cascaded(k) /\ Active(c)
      BY <1>6, <2>3 DEF Active
    <3>3. p # k
      BY <2>3, <3>2 DEF Cascaded
    <3>4. CASE p \in Cascaded(k)
      BY <1>6, <3>1, <3>3, <3>4
    <3>5. CASE p \notin Cascaded(k)
      <4>1. rows'[p] = rows[p]
        BY <1>6, <3>1, <3>3, <3>5
      <4> QED
        BY <2>1, <2>3, <3>2, <4>1 DEF CascadeReachesChildren, Active
    <3> QED
      BY <3>4, <3>5
  <2>4. CascadeReachesChildren'
    BY <1>3, <1>6, <2>1, <2>3 DEF CascadeReachesChildren, Active
  <2> QED
    BY <2>2, <2>4 DEF CascadeInv
<1>11. pc'[w] = "revoked" /\ frame'[w] = frame[w] /\ frame[w] \in Kill /\ frame[w].row \in DOMAIN rows
  BY <1>1, GotoFacts DEF LedgerInv, CallTyped
<1>12. CallTyped(w)' /\ AskKnows(w)'
  BY <1>3, <1>11 DEF CallTyped, AskKnows, AskLabels
<1> QED
  BY <1>1, <1>8, <1>9, <1>10, <1>12, CallStep

LEMMA RevokedKeeps ==
  ASSUME LedgerInv, NEW w \in Callers, Revoked(w)
  PROVE  LedgerInv'
<1>1. /\ receipts' = [receipts EXCEPT ![frame[w].row] = @ + 1]
      /\ Return(w) /\ "idle" \in PCs
      /\ UNCHANGED <<rows, nextIdx, lock, config, clock>>
  BY DEF Revoked, PCs
<1>2. UNCHANGED <<mode, profile>>
  BY <1>1 DEF config
<1>3. receipts' \in [1 .. MaxRows -> Nat]
  <2>1. PICK k \in 1 .. MaxRows : k = frame[w].row
    BY RowFacts DEF Revoked, LedgerInv, CallTyped
  <2>2. receipts \in [1 .. MaxRows -> Nat] /\ receipts' = [receipts EXCEPT ![k] = receipts[k] + 1]
    BY <1>1, <2>1 DEF LedgerInv, LedgerTyped
  <2>3. receipts[k] + 1 \in Nat
    BY <2>2
  <2> QED
    BY <2>2, <2>3
<1>4. LedgerTyped'
  BY <1>1, <1>2, <1>3 DEF LedgerInv, LedgerTyped
<1>5. Grew /\ CascadeInv'
  BY <1>1, SameRows
<1>6. CallTyped(w)' /\ AskKnows(w)' /\ Goto(w, "idle", NoFrame)
  BY <1>1, Returned
<1> QED
  BY <1>1, <1>4, <1>5, <1>6, CallStep

-------------------------------------------------------------------------------
(* ConsentGate.decide() and ConsentLedger.check() *)

\* What the gate remembers of the moment it was asked.
Begun(f, q) ==
  /\ f \in Ask /\ f.request = q /\ f.since = clock
  /\ f.optedOut = OptOuts(q.key) /\ f.dead = {r \in DOMAIN rows : ~Active(r)}

GateSays(w, label, f, q) ==
  /\ Goto(w, label, f) /\ Begun(f, q)
  /\ label = "decided" /\ f.allowed => mode # "enforced"

Opening(q) ==
  [request |-> q, since |-> clock, found |-> 0, allowed |-> FALSE, reason |-> "",
   optedOut |-> OptOuts(q.key), dead |-> {r \in DOMAIN rows : ~Active(r)}]

LEMMA AskBegins ==
  ASSUME LedgerInv, NEW q \in Requests, NEW allowed \in BOOLEAN, NEW reason \in Reasons,
         NEW f, f = Opening(q)
  PROVE  /\ Begun(f, q)
         /\ Begun([f EXCEPT !.allowed = allowed, !.reason = reason], q)
         /\ [f EXCEPT !.allowed = allowed, !.reason = reason].allowed = allowed
<1>0. DOMAIN rows \subseteq Nat
  BY RowFacts
<1>1. OptOuts(q.key) \in SUBSET Nat /\ {r \in DOMAIN rows : ~Active(r)} \in SUBSET Nat
  BY <1>0, Zenon DEF OptOuts
<1>2. clock \in Nat /\ "" \in Reasons
  BY RowFacts DEF Reasons
<1>3. /\ f \in Ask /\ f.request = q /\ f.since = clock
      /\ f.optedOut = OptOuts(q.key) /\ f.dead = {r \in DOMAIN rows : ~Active(r)}
  BY <1>1, <1>2 DEF Ask, Opening
<1>4. PICK g : g = [f EXCEPT !.allowed = allowed, !.reason = reason]
  OBVIOUS
<1>5. /\ g \in Ask /\ g.allowed = allowed /\ g.request = f.request /\ g.since = f.since
      /\ g.optedOut = f.optedOut /\ g.dead = f.dead
  BY <1>3, <1>4 DEF Ask
<1> QED
  BY <1>3, <1>4, <1>5 DEF Begun

\* The gate's own answers are no barriers, or are given without enforcement.
LEMMA DecideKeeps ==
  ASSUME LedgerInv, NEW w \in Callers, NEW q \in Requests, Decide(w, q)
  PROVE  LedgerInv'
<1>1. UNCHANGED <<ledger, config, clock>> /\ UNCHANGED <<rows, mode, profile>>
  BY DEF Decide, ledger, config
<1>2. PICK label \in {"find", "decided"} : \E f : GateSays(w, label, f, q)
  <2>1. PICK f : f = Opening(q)
    OBVIOUS
  <2>2. \/ Goto(w, "decided", [f EXCEPT !.allowed = FALSE, !.reason = "barrier"])
        \/ /\ mode = "disabled"
           /\ Goto(w, "decided", [f EXCEPT !.allowed = TRUE, !.reason = "disabled"])
        \/ /\ mode = "not_enforced"
           /\ Goto(w, "decided", [f EXCEPT !.allowed = TRUE, !.reason = "not_enforced"])
        \/ Goto(w, "find", f)
    BY <2>1 DEF Decide, Opening
  <2>3. {"", "barrier", "disabled", "not_enforced"} \subseteq Reasons
    BY DEF Reasons
  <2>4. CASE Goto(w, "find", f)
    BY <2>1, <2>3, <2>4, AskBegins DEF GateSays
  <2>5. CASE Goto(w, "decided", [f EXCEPT !.allowed = FALSE, !.reason = "barrier"])
    <3>1. /\ Begun([f EXCEPT !.allowed = FALSE, !.reason = "barrier"], q)
          /\ [f EXCEPT !.allowed = FALSE, !.reason = "barrier"].allowed = FALSE
      BY <2>1, <2>3, AskBegins
    <3> QED
      BY <2>5, <3>1 DEF GateSays
  <2>6. CASE /\ mode = "disabled"
             /\ Goto(w, "decided", [f EXCEPT !.allowed = TRUE, !.reason = "disabled"])
    <3>1. Begun([f EXCEPT !.allowed = TRUE, !.reason = "disabled"], q)
      BY <2>1, <2>3, AskBegins
    <3> QED
      BY <2>6, <3>1 DEF GateSays
  <2>7. CASE /\ mode = "not_enforced"
             /\ Goto(w, "decided", [f EXCEPT !.allowed = TRUE, !.reason = "not_enforced"])
    <3>1. Begun([f EXCEPT !.allowed = TRUE, !.reason = "not_enforced"], q)
      BY <2>1, <2>3, AskBegins
    <3> QED
      BY <2>7, <3>1 DEF GateSays
  <2> QED
    BY <2>2, <2>4, <2>5, <2>6, <2>7
<1>3a. PICK f : GateSays(w, label, f, q)
  BY <1>2
<1>3. /\ Goto(w, label, f) /\ Begun(f, q)
      /\ label = "decided" /\ f.allowed => mode # "enforced"
  BY <1>3a DEF GateSays
<1>4. label \in PCs
  BY DEF PCs
<1>5. pc'[w] = label /\ frame'[w] = f
  BY <1>3, <1>4, GotoFacts
<1>6. CallTyped(w)'
  BY <1>3, <1>5 DEF CallTyped, AskLabels, Begun
<1>7. \A r \in OptOuts(q.key) : /\ r \in DOMAIN rows /\ rows[r].offer.key = q.key
                                /\ rows[r].offer.basis = "opt_out"
  BY DEF OptOuts
<1>8. clock <= clock /\ clock' = clock
  BY <1>1, RowFacts
<1>9. AskKnows(w)'
  BY <1>1, <1>3, <1>5, <1>7, <1>8 DEF AskKnows, AskLabels, Active, Begun
<1> QED
  BY <1>1, <1>3, <1>4, <1>6, <1>9, Reading

\* An answer of the ledger that is right when it is a yes.
LEMMA AnswerKeeps ==
  ASSUME LedgerInv, NEW w \in Callers, pc[w] \in {"find", "judge"},
         NEW allowed \in BOOLEAN, NEW reason \in Reasons, Answer(w, frame[w], allowed, reason),
         UNCHANGED <<ledger, config, clock>>,
         allowed /\ mode = "enforced" /\ frame[w].request.key \notin SelfKeys =>
           IF profile.optOutModel THEN \A r \in frame[w].optedOut : ~Active(r) ELSE YesIsRight(w)
  PROVE  LedgerInv'
<1>1. frame[w] \in Ask /\ AskKnows(w) /\ pc[w] \in AskLabels
  BY DEF LedgerInv, CallTyped, AskLabels
<1>2. /\ (allowed \/ mode = "audit_only") \in BOOLEAN /\ "decided" \in PCs
      /\ UNCHANGED <<rows, mode, profile, clock>>
  BY DEF PCs, ledger, config
<1>3. PICK answer \in BOOLEAN : answer = (allowed \/ mode = "audit_only")
  BY <1>2
<1>4. Goto(w, "decided", [frame[w] EXCEPT !.allowed = answer, !.reason = reason])
  BY <1>3 DEF Answer
<1>5. [frame[w] EXCEPT !.allowed = answer, !.reason = reason] \in Ask
  BY <1>1 DEF Ask
<1>6. /\ pc'[w] = "decided"
      /\ frame'[w] = [frame[w] EXCEPT !.allowed = answer, !.reason = reason]
  BY <1>2, <1>4, GotoFacts
<1>7. CallTyped(w)'
  BY <1>5, <1>6 DEF CallTyped, AskLabels
<1>8. /\ frame'[w].allowed = answer
      /\ frame'[w].since = frame[w].since /\ frame'[w].dead = frame[w].dead
      /\ frame'[w].optedOut = frame[w].optedOut /\ frame'[w].request = frame[w].request
      /\ frame'[w].found = frame[w].found
  BY <1>1, <1>6 DEF Ask
<1>9. answer /\ mode = "enforced" => allowed
  BY <1>3
<1>10. YesIsRight(w) => YesIsRight(w)'
  BY <1>2, <1>8 DEF YesIsRight
<1>11. AskKnows(w)'
  <2>1. /\ frame[w].since <= clock
        /\ \A r \in frame[w].dead : r \in DOMAIN rows /\ ~Active(r)
        /\ \A r \in frame[w].optedOut : /\ r \in DOMAIN rows
                                        /\ rows[r].offer.key = frame[w].request.key
                                        /\ rows[r].offer.basis = "opt_out"
    BY <1>1 DEF AskKnows
  <2> QED
    BY <1>2, <1>6, <1>8, <1>9, <1>10, <2>1 DEF AskKnows, Active
<1> QED
  BY <1>2, <1>4, <1>7, <1>11, Reading

LEMMA FindKeeps ==
  ASSUME LedgerInv, NEW w \in Callers, Find(w)
  PROVE  LedgerInv'
<1>1. /\ pc[w] = "find" /\ UNCHANGED <<ledger, config, clock>>
      /\ \/ /\ frame[w].request.key \in SelfKeys
            /\ Answer(w, frame[w], TRUE, "self-access")
         \/ /\ OptOuts(frame[w].request.key) # {}
            /\ Answer(w, frame[w], FALSE, "opt-out-active")
         \/ /\ profile.optOutModel /\ OptOuts(frame[w].request.key) = {}
            /\ Answer(w, frame[w], TRUE, "opt-in-default")
         \/ Answer(w, frame[w], FALSE, "no-consent-record")
         \/ /\ ~profile.optOutModel
            /\ \E r \in InForce(frame[w].request.key) :
                 Goto(w, "judge", [frame[w] EXCEPT !.found = r])
  BY DEF Find
<1>2. frame[w] \in Ask /\ AskKnows(w) /\ pc[w] \in AskLabels /\ pc[w] \in {"find", "judge"}
  BY <1>1 DEF LedgerInv, CallTyped, AskLabels
<1>3. {"self-access", "opt-out-active", "opt-in-default", "no-consent-record"} \subseteq Reasons
  BY DEF Reasons
<1>4. CASE frame[w].request.key \in SelfKeys /\ Answer(w, frame[w], TRUE, "self-access")
  BY <1>1, <1>2, <1>3, <1>4, AnswerKeeps
<1>5. CASE Answer(w, frame[w], FALSE, "opt-out-active")
  BY <1>1, <1>2, <1>3, <1>5, AnswerKeeps
<1>6. CASE Answer(w, frame[w], FALSE, "no-consent-record")
  BY <1>1, <1>2, <1>3, <1>6, AnswerKeeps
<1>7. CASE /\ profile.optOutModel /\ OptOuts(frame[w].request.key) = {}
           /\ Answer(w, frame[w], TRUE, "opt-in-default")
  <2>1. \A r \in frame[w].optedOut : ~Active(r)
    BY <1>2, <1>7 DEF AskKnows, OptOuts
  <2> QED
    BY <1>1, <1>2, <1>3, <1>7, <2>1, AnswerKeeps
<1>8. CASE /\ ~profile.optOutModel
           /\ \E r \in InForce(frame[w].request.key) :
                Goto(w, "judge", [frame[w] EXCEPT !.found = r])
  <2>1. PICK r \in InForce(frame[w].request.key) : Goto(w, "judge", [frame[w] EXCEPT !.found = r])
    BY <1>8
  <2>2. /\ r \in DOMAIN rows /\ rows[r].offer.key = frame[w].request.key /\ Active(r)
        /\ rows[r].offer.until = 0 \/ rows[r].offer.until > clock
    BY DEF InForce
  <2>3. r \in Nat /\ rows[r].offer.until \in Nat /\ frame[w].since \in Nat /\ clock \in Nat
    BY <1>2, <2>2, RowFacts DEF OfferType, Ask
  <2>4. [frame[w] EXCEPT !.found = r] \in Ask /\ "judge" \in PCs
    BY <1>2, <2>3 DEF Ask, PCs
  <2>5. pc'[w] = "judge" /\ frame'[w] = [frame[w] EXCEPT !.found = r]
    BY <2>1, <2>4, GotoFacts
  <2>6. /\ frame'[w].found = r
        /\ frame'[w].since = frame[w].since /\ frame'[w].dead = frame[w].dead
        /\ frame'[w].optedOut = frame[w].optedOut /\ frame'[w].request = frame[w].request
    BY <1>2, <2>5 DEF Ask
  <2>7. CallTyped(w)'
    BY <2>4, <2>5 DEF CallTyped, AskLabels
  <2>8. /\ frame[w].since <= clock
        /\ \A s \in frame[w].dead : s \in DOMAIN rows /\ ~Active(s)
        /\ \A s \in frame[w].optedOut : /\ s \in DOMAIN rows
                                        /\ rows[s].offer.key = frame[w].request.key
                                        /\ rows[s].offer.basis = "opt_out"
    BY <1>2 DEF AskKnows
  <2>9. r \notin frame[w].dead /\ (rows[r].offer.until # 0 => rows[r].offer.until > frame[w].since)
    BY <2>2, <2>3, <2>8
  <2>10. UNCHANGED <<rows, mode, profile, clock>>
    BY <1>1 DEF ledger, config
  <2>11. AskKnows(w)'
    BY <1>8, <2>2, <2>5, <2>6, <2>8, <2>9, <2>10 DEF AskKnows, Active
  <2> QED
    BY <1>1, <2>1, <2>4, <2>7, <2>11, Reading
<1> QED
  BY <1>1, <1>4, <1>5, <1>6, <1>7, <1>8

\* The row was in force when it was read; its terms do not change and time passes, so
\* that the limits it is within now it was within when the call began.
LEMMA JudgeKeeps ==
  ASSUME LedgerInv, NEW w \in Callers, Judge(w)
  PROVE  LedgerInv'
<1>1. /\ pc[w] = "judge" /\ UNCHANGED <<ledger, config, clock>>
      /\ \/ Answer(w, frame[w], FALSE, "reconfirm")
         \/ Answer(w, frame[w], FALSE, "operation")
         \/ Answer(w, frame[w], FALSE, "ceiling")
         \/ /\ ~NeedsReconfirmation(rows[frame[w].found])
            /\ frame[w].request.op \in rows[frame[w].found].offer.ops
            /\ frame[w].request.class <= rows[frame[w].found].offer.class
            /\ Answer(w, frame[w], TRUE, "active-consent-found")
  BY DEF Judge
<1>2. frame[w] \in Ask /\ AskKnows(w) /\ pc[w] \in {"find", "judge"}
  BY <1>1 DEF LedgerInv, CallTyped, AskLabels
<1>3. {"reconfirm", "operation", "ceiling", "active-consent-found"} \subseteq Reasons
  BY DEF Reasons
<1>4. CASE \E reason \in {"reconfirm", "operation", "ceiling"} :
             Answer(w, frame[w], FALSE, reason)
  BY <1>1, <1>2, <1>3, <1>4, AnswerKeeps
<1>5. CASE /\ ~NeedsReconfirmation(rows[frame[w].found])
           /\ frame[w].request.op \in rows[frame[w].found].offer.ops
           /\ frame[w].request.class <= rows[frame[w].found].offer.class
           /\ Answer(w, frame[w], TRUE, "active-consent-found")
  <2>1. /\ ~profile.optOutModel
        /\ frame[w].found \in DOMAIN rows \ frame[w].dead
        /\ rows[frame[w].found].offer.key = frame[w].request.key
        /\ rows[frame[w].found].offer.until # 0 => rows[frame[w].found].offer.until > frame[w].since
        /\ frame[w].since <= clock
    BY <1>1, <1>2 DEF AskKnows, AskLabels
  <2>2. PICK r \in DOMAIN rows : r = frame[w].found
    BY <2>1
  <2>3. /\ rows[r].granted \in Nat /\ rows[r].offer.until \in Nat /\ frame[w].since \in Nat
        /\ clock \in Nat /\ profile.reconfirmDays \in Nat
    BY <1>2, RowFacts DEF OfferType, Ask
  <2>4. rows[r].offer.until = 0 => frame[w].since - rows[r].granted < profile.reconfirmDays
    BY <1>5, <2>1, <2>2, <2>3 DEF NeedsReconfirmation
  <2>5. YesIsRight(w)
    BY <1>5, <2>1, <2>2, <2>4 DEF YesIsRight
  <2> QED
    BY <1>1, <1>2, <1>3, <1>5, <2>1, <2>5, AnswerKeeps
<1> QED
  BY <1>1, <1>4, <1>5

LEMMA DecidedKeeps ==
  ASSUME LedgerInv, NEW w \in Callers, Decided(w)
  PROVE  LedgerInv'
  BY Returned, Reading DEF Decided, PCs

-------------------------------------------------------------------------------
(* The environment *)

LEMMA CrashKeeps ==
  ASSUME LedgerInv, NEW p \in Processes, Crash(p)
  PROVE  LedgerInv'
<1>1. /\ pc' = [w \in Callers |-> IF ProcessOf[w] = p THEN "idle" ELSE pc[w]]
      /\ frame' = [w \in Callers |-> IF ProcessOf[w] = p THEN NoFrame ELSE frame[w]]
      /\ lock' = [lock EXCEPT ![p] = NoCaller]
      /\ UNCHANGED <<rows, nextIdx, receipts, clock>> /\ UNCHANGED config
  BY DEF Crash
<1>2. pc' \in [Callers -> PCs] /\ DOMAIN frame' = Callers
  BY <1>1 DEF LedgerInv, PCs
<1>3. UNCHANGED <<mode, profile>>
  BY <1>1 DEF config
<1>4. LedgerTyped'
  BY <1>1, <1>3 DEF LedgerInv, LedgerTyped
<1>5. Grew /\ CascadeInv' /\ clock' \in Nat /\ clock <= clock'
  BY <1>1, SameRows, RowFacts
<1>6. ASSUME NEW w \in Callers PROVE CallTyped(w)' /\ AskKnows(w)'
  <2>1. CASE ProcessOf[w] = p
    <3>1. pc'[w] = "idle" /\ frame'[w] = NoFrame
      BY <1>1, <2>1
    <3> QED
      BY <3>1 DEF CallTyped, AskKnows, AskLabels
  <2>2. CASE ProcessOf[w] # p
    <3>1. pc'[w] = pc[w] /\ frame'[w] = frame[w]
      BY <1>1, <2>2
    <3> QED
      BY <1>1, <1>5, <3>1, KnowsOn
  <2> QED
    BY <2>1, <2>2
<1> QED
  BY <1>2, <1>4, <1>5, <1>6 DEF LedgerInv

\* Time passes, or nothing happens.
LEMMA TickKeeps ==
  ASSUME LedgerInv, Tick \/ UNCHANGED vars
  PROVE  LedgerInv'
<1>1. /\ UNCHANGED <<rows, nextIdx, lock, receipts, mode, profile, pc, frame>>
      /\ clock' \in 0 .. MaxTime /\ clock <= clock'
  BY Maxima DEF Tick, vars, ledger, config, LedgerInv, LedgerTyped
<1>2. LedgerTyped'
  BY <1>1 DEF LedgerInv, LedgerTyped
<1>3. Grew /\ CascadeInv' /\ clock' \in Nat /\ UNCHANGED config
  BY <1>1, SameRows, Maxima DEF config
<1>4. \A w \in Callers : CallTyped(w)' /\ AskKnows(w)'
  BY <1>1, <1>3, KnowsOn
<1> QED
  BY <1>1, <1>2, <1>3, <1>4 DEF LedgerInv

LEMMA InitHolds ==
  ASSUME Init
  PROVE  LedgerInv
<1>1. /\ rows = <<>> /\ nextIdx = 0 /\ lock = [p \in Processes |-> NoCaller]
      /\ receipts = [r \in 1 .. MaxRows |-> 0] /\ mode \in Modes /\ profile \in Profiles
      /\ clock = 0
      /\ pc = [w \in Callers |-> "idle"] /\ frame = [w \in Callers |-> NoFrame]
  BY DEF Init
<1>2. rows \in Seq(Rows) /\ Len(rows) = 0 /\ DOMAIN rows = {}
  BY <1>1
<1>3. LedgerTyped
  BY <1>1, <1>2, Maxima DEF LedgerTyped
<1>4. CascadeInv
  BY <1>2 DEF CascadeInv, CascadeReachesChildren
<1>5. pc \in [Callers -> PCs] /\ DOMAIN frame = Callers
  BY <1>1 DEF PCs
<1>6. ASSUME NEW w \in Callers PROVE CallTyped(w) /\ AskKnows(w)
  <2>1. pc[w] = "idle" /\ frame[w] = NoFrame
    BY <1>1
  <2> QED
    BY <2>1 DEF CallTyped, AskKnows, AskLabels
<1> QED
  BY <1>3, <1>4, <1>5, <1>6 DEF LedgerInv

LEMMA NextKeeps ==
  ASSUME LedgerInv, [Next]_vars
  PROVE  LedgerInv'
  BY GrantKeeps, AllocateReadKeeps, AllocateWriteKeeps, InsertRowKeeps, InsertFailsKeeps,
     RevokeKeeps, RevokeWriteKeeps, RevokedKeeps, DecideKeeps, FindKeeps, JudgeKeeps,
     DecidedKeeps, CrashKeeps, TickKeeps DEF Next

-------------------------------------------------------------------------------
(* Indexes of the status list *)

\* Rows keep their index, and who allocates or inserts stays where it was or is new.
LEMMA IndexQuiet ==
  ASSUME LedgerInv, IndexInv,
         DOMAIN rows' = DOMAIN rows, \A r \in DOMAIN rows : rows'[r].idx = rows[r].idx,
         UNCHANGED nextIdx,
         \A w \in Callers : pc'[w] = "bump" => lock'[ProcessOf[w]] = lock[ProcessOf[w]],
         \A w \in Callers : \/ pc'[w] = pc[w] /\ frame'[w] = frame[w]
                            \/ pc'[w] \notin {"bump", "insert"}
  PROVE  IndexInv'
<1>1. /\ \A r \in DOMAIN rows' : rows'[r].idx < nextIdx'
      /\ IndexNeverShared'
  BY DEF IndexInv, IndexNeverShared
<1>2. ASSUME NEW w \in Callers
      PROVE  /\ pc'[w] = "bump" => frame'[w].idx = nextIdx' /\ lock'[ProcessOf[w]] = w
             /\ pc'[w] = "insert" => /\ frame'[w].idx < nextIdx'
                                     /\ \A r \in DOMAIN rows' : rows'[r].idx # frame'[w].idx
  BY DEF IndexInv
<1>3. \A v, w \in Callers :
        pc'[v] = "insert" /\ pc'[w] = "insert" /\ v # w => frame'[v].idx # frame'[w].idx
  BY DEF IndexInv
<1> QED
  BY <1>1, <1>2, <1>3 DEF IndexInv

\* The same, of a call that moves to a label at which it holds no index.
LEMMA IndexBeside ==
  ASSUME LedgerInv, IndexInv, UNCHANGED <<rows, nextIdx, lock>>,
         NEW w \in Callers, NEW label \in PCs \ {"bump", "insert"}, NEW f, Goto(w, label, f)
  PROVE  IndexInv'
<1>1. \A v \in Callers : \/ pc'[v] = pc[v] /\ frame'[v] = frame[v]
                         \/ pc'[v] \notin {"bump", "insert"}
  BY GotoFacts
<1> QED
  BY <1>1, IndexQuiet

\* The lock is the process's, and there is one process.
LEMMA IndexRead ==
  ASSUME OneLock, LedgerInv, IndexInv, NEW w \in Callers, AllocateRead(w)
  PROVE  IndexInv'
<1>1. /\ pc[w] = "allocate" /\ lock[ProcessOf[w]] = NoCaller /\ "bump" \in PCs
      /\ lock' = [lock EXCEPT ![ProcessOf[w]] = w]
      /\ Goto(w, "bump", [frame[w] EXCEPT !.idx = nextIdx])
      /\ UNCHANGED <<rows, nextIdx>>
  BY DEF AllocateRead, PCs
<1>2. /\ lock \in [Processes -> Callers \cup {NoCaller}] /\ frame[w] \in Call
      /\ ProcessOf[w] \in Processes
  BY <1>1, Maxima DEF LedgerInv, LedgerTyped, CallTyped
<1>3. \A v \in Callers : pc[v] # "bump"
  BY <1>1, Maxima DEF IndexInv, OneLock
<1>4. /\ pc'[w] = "bump" /\ frame'[w] = [frame[w] EXCEPT !.idx = nextIdx]
      /\ \A v \in Callers \ {w} : pc'[v] = pc[v] /\ frame'[v] = frame[v]
  BY <1>1, GotoFacts
<1>5. frame'[w].idx = nextIdx /\ lock'[ProcessOf[w]] = w
  BY <1>1, <1>2, <1>4 DEF Call
<1>6. ASSUME NEW v \in Callers
      PROVE  /\ pc'[v] = "bump" => frame'[v].idx = nextIdx' /\ lock'[ProcessOf[v]] = v
             /\ pc'[v] = "insert" => /\ frame'[v].idx < nextIdx'
                                     /\ \A r \in DOMAIN rows' : rows'[r].idx # frame'[v].idx
  <2>1. CASE v = w
    BY <1>1, <1>4, <1>5, <2>1
  <2>2. CASE v # w
    BY <1>1, <1>3, <1>4, <2>2 DEF IndexInv
  <2> QED
    BY <2>1, <2>2
<1>7. \A v, u \in Callers :
        pc'[v] = "insert" /\ pc'[u] = "insert" /\ v # u => frame'[v].idx # frame'[u].idx
  BY <1>4 DEF IndexInv
<1>8. IndexNeverShared' /\ \A r \in DOMAIN rows' : rows'[r].idx < nextIdx'
  BY <1>1 DEF IndexInv, IndexNeverShared
<1> QED
  BY <1>6, <1>7, <1>8 DEF IndexInv

LEMMA IndexWritten ==
  ASSUME OneLock, LedgerInv, IndexInv, NEW w \in Callers, AllocateWrite(w)
  PROVE  IndexInv'
<1>1. /\ pc[w] = "bump" /\ nextIdx' = frame[w].idx + 1 /\ "insert" \in PCs
      /\ Goto(w, "insert", frame[w]) /\ UNCHANGED rows
  BY DEF AllocateWrite, PCs
<1>2. /\ frame[w].idx = nextIdx /\ nextIdx \in Nat /\ nextIdx' = nextIdx + 1
      /\ lock[ProcessOf[w]] = w
  BY <1>1 DEF IndexInv, LedgerInv, LedgerTyped
<1>3. \A v \in Callers \ {w} : pc[v] # "bump"
  BY <1>2 DEF IndexInv, OneLock
<1>4. /\ pc'[w] = "insert" /\ frame'[w] = frame[w]
      /\ \A v \in Callers \ {w} : pc'[v] = pc[v] /\ frame'[v] = frame[v]
  BY <1>1, GotoFacts
<1>5. \A r \in DOMAIN rows : rows[r].idx \in Nat /\ rows[r].idx < nextIdx
  BY RowFacts DEF IndexInv
<1>6. \A v \in Callers : pc[v] = "insert" => frame[v].idx \in Nat /\ frame[v].idx < nextIdx
  BY DEF IndexInv, LedgerInv, CallTyped, Call
<1>7. ASSUME NEW v \in Callers
      PROVE  /\ pc'[v] # "bump"
             /\ pc'[v] = "insert" => /\ frame'[v].idx < nextIdx'
                                     /\ \A r \in DOMAIN rows' : rows'[r].idx # frame'[v].idx
  <2>1. CASE v = w
    BY <1>1, <1>2, <1>4, <1>5, <2>1
  <2>2. CASE v # w
    BY <1>1, <1>2, <1>3, <1>4, <1>6, <2>2 DEF IndexInv
  <2> QED
    BY <2>1, <2>2
<1>8. \A v, u \in Callers :
        pc'[v] = "insert" /\ pc'[u] = "insert" /\ v # u => frame'[v].idx # frame'[u].idx
  BY <1>2, <1>4, <1>6 DEF IndexInv
<1>9. IndexNeverShared' /\ \A r \in DOMAIN rows' : rows'[r].idx < nextIdx'
  BY <1>1, <1>2, <1>5 DEF IndexInv, IndexNeverShared
<1> QED
  BY <1>7, <1>8, <1>9 DEF IndexInv

\* The new row takes over the index of the call that inserts it.
LEMMA IndexInserted ==
  ASSUME LedgerInv, IndexInv, NEW w \in Callers, InsertRow(w)
  PROVE  IndexInv'
<1>1. /\ pc[w] = "insert" /\ Return(w) /\ UNCHANGED <<nextIdx, lock>> /\ "idle" \in PCs
  BY DEF InsertRow, PCs
<1>2. /\ DOMAIN rows' = 1 .. Len(rows) + 1 /\ DOMAIN rows = 1 .. Len(rows) /\ Len(rows) \in Nat
      /\ \A r \in DOMAIN rows : rows'[r] = rows[r]
      /\ rows'[Len(rows) + 1].idx = frame[w].idx
  <2>1. rows'[Len(rows) + 1] = NewRow(frame[w]) /\ NewRow(frame[w]).idx = frame[w].idx
    BY Inserted DEF NewRow
  <2> QED
    BY <2>1, Inserted, RowFacts
<1>3. /\ pc'[w] = "idle"
      /\ \A v \in Callers \ {w} : pc'[v] = pc[v] /\ frame'[v] = frame[v]
  BY <1>1, Returned, GotoFacts
<1>4. /\ frame[w].idx < nextIdx /\ \A r \in DOMAIN rows : rows[r].idx # frame[w].idx
      /\ \A v \in Callers \ {w} : pc[v] = "insert" => frame[v].idx # frame[w].idx
      /\ \A r \in DOMAIN rows : rows[r].idx < nextIdx
      /\ \A r, s \in DOMAIN rows : r # s => rows[r].idx # rows[s].idx
  BY <1>1 DEF IndexInv, IndexNeverShared
<1>5. \A r \in DOMAIN rows' : r \in DOMAIN rows \/ r = Len(rows) + 1
  BY <1>2
<1>6. \A r \in DOMAIN rows' : rows'[r].idx < nextIdx'
  BY <1>1, <1>2, <1>4, <1>5
<1>7. IndexNeverShared'
  BY <1>2, <1>4, <1>5 DEF IndexNeverShared
<1>8. ASSUME NEW v \in Callers
      PROVE  /\ pc'[v] = "bump" => frame'[v].idx = nextIdx' /\ lock'[ProcessOf[v]] = v
             /\ pc'[v] = "insert" => /\ frame'[v].idx < nextIdx'
                                     /\ \A r \in DOMAIN rows' : rows'[r].idx # frame'[v].idx
  BY <1>1, <1>2, <1>3, <1>4, <1>5 DEF IndexInv
<1>9. \A v, u \in Callers :
        pc'[v] = "insert" /\ pc'[u] = "insert" /\ v # u => frame'[v].idx # frame'[u].idx
  BY <1>3 DEF IndexInv
<1> QED
  BY <1>6, <1>7, <1>8, <1>9 DEF IndexInv

LEMMA IndexRevoked ==
  ASSUME LedgerInv, IndexInv, NEW w \in Callers, RevokeWrite(w)
  PROVE  IndexInv'
<1>1. /\ Goto(w, "revoked", frame[w]) /\ UNCHANGED <<nextIdx, lock>> /\ "revoked" \in PCs
      /\ DOMAIN rows' = DOMAIN rows
  BY DEF RevokeWrite, PCs
<1>2. ASSUME NEW c \in DOMAIN rows PROVE rows'[c].idx = rows[c].idx
  <2>1. rows[c] \in Rows
    BY RowFacts
  <2>2. \/ rows'[c] = rows[c]
        \/ \E how : rows'[c] = [rows[c] EXCEPT !.status = "revoked", !.how = how,
                                               !.known = Len(rows)]
    BY DEF RevokeWrite
  <2> QED
    BY <2>1, <2>2 DEF Rows
<1>3. \A v \in Callers : \/ pc'[v] = pc[v] /\ frame'[v] = frame[v]
                         \/ pc'[v] \notin {"bump", "insert"}
  BY <1>1, GotoFacts
<1> QED
  BY <1>1, <1>2, <1>3, IndexQuiet

\* The lock is released by the death of the process that held it.
LEMMA IndexCrash ==
  ASSUME LedgerInv, IndexInv, NEW p \in Processes, Crash(p)
  PROVE  IndexInv'
<1>1. /\ pc' = [w \in Callers |-> IF ProcessOf[w] = p THEN "idle" ELSE pc[w]]
      /\ frame' = [w \in Callers |-> IF ProcessOf[w] = p THEN NoFrame ELSE frame[w]]
      /\ lock' = [lock EXCEPT ![p] = NoCaller]
      /\ UNCHANGED <<rows, nextIdx>>
  BY DEF Crash
<1>2. \A v \in Callers : \/ pc'[v] = pc[v] /\ frame'[v] = frame[v]
                         \/ pc'[v] \notin {"bump", "insert"}
  BY <1>1
<1>3. lock \in [Processes -> Callers \cup {NoCaller}]
  BY DEF LedgerInv, LedgerTyped
<1>4. ASSUME NEW v \in Callers, pc'[v] = "bump"
      PROVE  lock'[ProcessOf[v]] = lock[ProcessOf[v]]
  BY <1>1, <1>3, <1>4, Maxima
<1> QED
  BY <1>1, <1>2, <1>4, IndexQuiet

LEMMA IndexNext ==
  ASSUME OneLock, LedgerInv, IndexInv, [Next]_vars
  PROVE  IndexInv'
<1>0. PCs \ {"bump", "insert"} = {"idle", "allocate", "revoke", "revoked", "find", "judge", "decided"}
  BY DEF PCs
<1>1. ASSUME NEW w \in Callers, NEW o \in Offers, Grant(w, o) PROVE IndexInv'
  BY <1>0, <1>1, IndexBeside DEF Grant, ledger
<1>2. ASSUME NEW w \in Callers, InsertFails(w) \/ Revoked(w) \/ Decided(w) PROVE IndexInv'
  BY <1>0, <1>2, IndexBeside DEF InsertFails, Revoked, Decided, Return, ledger
<1>3. ASSUME NEW w \in Callers, NEW r \in DOMAIN rows, Revoke(w, r) PROVE IndexInv'
  BY <1>0, <1>3, IndexBeside DEF Revoke, ledger
<1>4. ASSUME NEW w \in Callers, NEW q \in Requests, Decide(w, q) PROVE IndexInv'
  <2>1. UNCHANGED <<rows, nextIdx, lock>> /\ \E label \in {"find", "decided"} : \E f : Goto(w, label, f)
    BY <1>4 DEF Decide, ledger
  <2> QED
    BY <1>0, <2>1, IndexBeside
<1>5. ASSUME NEW w \in Callers, Find(w) \/ Judge(w) PROVE IndexInv'
  <2>1. UNCHANGED <<rows, nextIdx, lock>> /\ \E label \in {"judge", "decided"} : \E f : Goto(w, label, f)
    BY <1>5 DEF Find, Judge, Answer, ledger
  <2> QED
    BY <1>0, <2>1, IndexBeside
<1>6. CASE Tick \/ UNCHANGED vars
  <2>1. UNCHANGED <<rows, nextIdx, lock, pc, frame>>
    BY <1>6 DEF Tick, vars, ledger
  <2> QED
    BY <2>1, IndexQuiet
<1> QED
  BY <1>1, <1>2, <1>3, <1>4, <1>5, <1>6, IndexRead, IndexWritten, IndexInserted, IndexRevoked,
     IndexCrash DEF Next

-------------------------------------------------------------------------------
(* The theorems *)

\* What every state of the ledger and its gate satisfies.
THEOREM LedgerInvariance == Spec => []LedgerInv
<1>1. Init => LedgerInv
  BY InitHolds
<1>2. LedgerInv /\ [Next]_vars => LedgerInv'
  BY NextKeeps
<1> QED
  BY <1>1, <1>2, PTL DEF Spec

\* Type correctness of the ledger: its table, the counter of its status list, its locks
\* and what every call carries keep their types (api/consent/ledger.py,
\* status_list.py, enforcement.py).
THEOREM LedgerTypeCorrect == Spec => []TypeOK
<1>1. LedgerInv => TypeOK
  BY DEF LedgerInv, LedgerTyped, CallTyped, AskLabels, TypeOK
<1> QED
  BY <1>1, LedgerInvariance, PTL

\* When the gate enforces, whoever is told yes had one consent that covers the request
\* and was in force when the call began or later, whatever is granted, revoked or
\* expires while the call runs (ConsentGate.decide, ConsentLedger.check).
THEOREM AlwaysAllowedByConsentInForce == Spec => []AllowedByConsentInForce
<1>1. LedgerInv => AllowedByConsentInForce
  <2> SUFFICES ASSUME LedgerInv, NEW w \in Callers,
                      pc[w] = "decided", frame[w].allowed, mode = "enforced",
                      frame[w].request.key \notin SelfKeys, ~profile.optOutModel
      PROVE  YesIsRight(w)
    BY DEF AllowedByConsentInForce, YesIsRight
  <2> QED
    BY DEF LedgerInv, AskKnows
<1> QED
  BY <1>1, LedgerInvariance, PTL

\* Under the opt-out model, whoever is told yes was not opted out when the call began, or
\* the opt-out has been revoked since (ConsentLedger.check, is_opted_out).
THEOREM OptOutAlwaysHonoured == Spec => []OptOutHonoured
<1>1. LedgerInv => OptOutHonoured
  BY DEF LedgerInv, AskKnows, OptOutHonoured
<1> QED
  BY <1>1, LedgerInvariance, PTL

\* A revocation takes with it every child that is in the ledger when it commits: one
\* that is active under a dead parent came later, or the parent died by a cascade
\* itself (ConsentLedger.revoke).
THEOREM CascadeAlwaysReachesChildren == Spec => []CascadeReachesChildren
<1>1. LedgerInv => CascadeReachesChildren
  BY DEF LedgerInv, CascadeInv
<1> QED
  BY <1>1, LedgerInvariance, PTL

\* When all callers are threads of one process, no two rows share an index of the status
\* list, however their grants interleave and wherever the process dies
\* (status_list.allocate_index).
THEOREM IndexIsNeverShared == OneLock => (Spec => []IndexNeverShared)
<1> SUFFICES ASSUME OneLock PROVE Spec => []IndexNeverShared
  OBVIOUS
<1>1. Init => IndexInv
  BY DEF Init, IndexInv, IndexNeverShared
<1>2. LedgerInv /\ IndexInv /\ [Next]_vars => IndexInv'
  BY IndexNext
<1>3. IndexInv => IndexNeverShared
  BY DEF IndexInv
<1> QED
  BY <1>1, <1>2, <1>3, LedgerInvariance, PTL DEF Spec

===============================================================================
