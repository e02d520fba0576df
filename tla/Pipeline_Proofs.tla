----------------------------- MODULE Pipeline_Proofs -----------------------------
(***************************************************************************)
(* Proofs about Pipeline, for any clients, texts and decisions.            *)
(*                                                                         *)
(* The handler and checkpoint.run() test the same input at different times *)
(* and by different fields.  That they agree rests on what a process knows *)
(* at each step: the input is its own and unanswered (WorkIsOwn), intake   *)
(* has recorded it (Received), `safe` is what intake found (SafeIsKnown),  *)
(* the gate is the client's just while the API is in the checkpoint        *)
(* (GateMatches), and nothing gets there undecided (Governed).             *)
(***************************************************************************)
EXTENDS Pipeline, SequenceTheorems, TLAPS

Serves(p, n) == (p = "loop") <=> (asked[n].from = Terminal)

WorkIsOwn(p) ==
  pc[p] # "idle" =>
    work[p].n \in DOMAIN asked /\ answer[work[p].n] = NoAnswer /\ Serves(p, work[p].n)

Received(p) ==
  pc[p] \notin {"idle", "intake"} =>
    \E row \in events : row.kind = "INTAKE" /\ row.of = work[p].n

SafeIsKnown(p) ==
  pc[p] \in {"govern", "checkpoint", "conclude"} => (work[p].safe <=> Safety(p) = "none")

GateMatches(p) ==
  IF p = "loop" THEN gate[p] = "terminal" /\ pc[p] # "govern"
                ELSE gate[p] = "client" <=> pc[p] \in {"checkpoint", "conclude"}

Governed(p) ==
  p = "api" /\ pc[p] \in {"checkpoint", "conclude"} =>
    Safety(p) # "CRISIS" /\ ~(NeedsCheckpoint(p) /\ Input(p).decision = NoDecision)

\* What a process knows at its step.
Knows(p) == WorkIsOwn(p) /\ Received(p) /\ SafeIsKnown(p) /\ GateMatches(p) /\ Governed(p)

ProcessInv == \A p \in Processes : Knows(p)

TerminalDecidesLater ==
  \A n \in DOMAIN asked : asked[n].from = Terminal => asked[n].decision = NoDecision

RowsOfInputs ==
  \A row \in events : row.of \in DOMAIN asked \/ (row.kind = "ERASURE" /\ row.action = "")

\* What holds of the inputs, the trail and the graph.
TrailInv ==
  /\ TerminalDecidesLater /\ RowsOfInputs
  /\ AnsweredIsRecorded /\ FlaggedIsNeverAutomatic /\ ProceedIsGiven /\ GraphIsAccountedFor

\* The inductive invariant.
IInv == TypeOK /\ ProcessInv /\ TrailInv

-------------------------------------------------------------------------------
(* Facts about one step *)

LEMMA ProcessesDiffer ==
  \A p \in Processes : p = "api" \/ p = "loop"
  BY DEF Processes

\* The input a process is at, and what intake finds in it.
LEMMA InputFacts ==
  ASSUME TypeOK, NEW p \in Processes, Knows(p), pc[p] # "idle"
  PROVE  /\ work[p].n \in DOMAIN asked /\ Input(p) \in Asked
         /\ Text(p) \in Texts /\ ClassOf[Text(p)] \in Nat
         /\ Safety(p) \in {"none", "CRISIS", "HARM", "INTEGRITY"}
         /\ GivenOr(p, "NOT_PROVIDED") \in Recorded
<1>1. work[p].n \in DOMAIN asked
  BY DEF Knows, WorkIsOwn
<1>2. Input(p) \in Asked
  BY <1>1 DEF TypeOK, Input
<1>3. Text(p) \in Texts
  BY <1>2 DEF Asked, Text
<1>4. ClassOf[Text(p)] \in Nat /\ Safety(p) \in {"none", "CRISIS", "HARM", "INTEGRITY"}
  BY <1>3, PipelineConstants DEF Safety
<1>5. GivenOr(p, "NOT_PROVIDED") \in Recorded
  BY <1>2 DEF Asked, GivenOr, Recorded, Falsy
<1> QED
  BY <1>1, <1>2, <1>3, <1>4, <1>5

LEMMA WorkIsNumbered ==
  ASSUME TypeOK, NEW p \in Processes
  PROVE  work[p].n \in Nat
<1>1. work[p].n \in 0 .. MaxAsked
  BY DEF TypeOK
<1> QED
  BY <1>1, PipelineConstants

\* Whose answer a process in the checkpoint takes.
LEMMA GateDecides ==
  ASSUME TerminalDecidesLater, NEW p \in Processes, Knows(p), pc[p] = "conclude"
  PROVE  \/ gate[p] = "terminal" /\ Input(p).decision = NoDecision /\ p = "loop"
         \/ /\ gate[p] = "client" /\ p = "api"
            /\ NeedsCheckpoint(p) => Input(p).decision # NoDecision
<1>1. CASE p = "loop"
  BY <1>1 DEF Knows, GateMatches, WorkIsOwn, Serves, TerminalDecidesLater, Input
<1>2. CASE p = "api"
  BY <1>2 DEF Knows, GateMatches, Governed
<1> QED
  BY <1>1, <1>2, ProcessesDiffer

\* What is answered for each action.
LEMMA StatusFacts ==
  ASSUME NEW a \in Actions \ {""}
  PROVE  /\ StatusOf(a) \in Statuses
         /\ StatusOf(a) = "complete" => a \in {"AUTO", "PROCEED"}
  BY DEF StatusOf, Statuses, Actions

\* What the checkpoint may conclude: it passes nothing that was flagged, proceeds
\* for a client only on a request that carried a decision, and keeps the one that
\* was given when it was not empty.
LEMMA OutcomeFacts ==
  ASSUME TypeOK, TerminalDecidesLater,
         NEW p \in Processes, Knows(p), pc[p] = "conclude", NEW outcome \in Outcomes(p)
  PROVE  /\ outcome.action \in Actions \ {""}
         /\ outcome.decision \in Recorded
         /\ outcome.action \in {"AUTO", "PROCEED"} => Safety(p) = "none"
         /\ outcome.action = "PROCEED" /\ p = "api" => Input(p).decision \in {"proceed", "empty"}
         /\ Input(p).decision \notin Falsy /\ outcome.action # "AUTO" =>
              outcome.decision = Input(p).decision
         /\ StatusOf(outcome.action) \in Statuses
         /\ StatusOf(outcome.action) = "complete" => outcome.action \in {"AUTO", "PROCEED"}
<1>2. Input(p) \in Asked
  BY InputFacts
<1>3. Input(p).decision \in Decisions \cup {NoDecision} /\ NoDecision \notin Decisions
  BY <1>2, PipelineConstants DEF Asked, NoDecision
<1>4. work[p].safe \in BOOLEAN /\ (work[p].safe <=> Safety(p) = "none")
  BY DEF Knows, SafeIsKnown, TypeOK
<1>5. ASSUME NEW b \in BOOLEAN, NEW d \in Answered(p, b), NeedsCheckpoint(p)
      PROVE  /\ d \in Recorded
             /\ Input(p).decision \notin Falsy => d = Input(p).decision
             /\ p = "api" /\ d = "proceed" => Input(p).decision \in {"proceed", "empty"}
  <2>1. CASE gate[p] = "terminal"
    <3>1. Input(p).decision = NoDecision /\ p = "loop"
      BY <2>1, GateDecides
    <3>2. \A e \in Decisions : Typed(e, b) \in Recorded
      BY DEF Typed, Recorded
    <3>3. d \in {Typed(e, b) : e \in Decisions}
      BY <1>5, <2>1 DEF Answered
    <3> QED
      BY <3>1, <3>2, <3>3 DEF Falsy
  <2>2. CASE gate[p] # "terminal"
    <3>1. Input(p).decision # NoDecision
      BY <1>5, <2>2, GateDecides
    <3>2. d = GivenOr(p, "proceed")
      BY <1>5, <2>2 DEF Answered
    <3> QED
      BY <1>3, <3>1, <3>2 DEF GivenOr, Recorded, Falsy
  <2> QED
    BY <2>1, <2>2
<1>6. \A d \in Recorded : ActionOf(d) \in {"PROCEED", "VETO", "FLAG_FOR_REVIEW", "DEFER"}
                          /\ (ActionOf(d) = "PROCEED" => d = "proceed")
  BY DEF ActionOf
<1>8. /\ outcome.action \in Actions \ {""}
      /\ outcome.decision \in Recorded
      /\ outcome.action \in {"AUTO", "PROCEED"} => Safety(p) = "none"
      /\ outcome.action = "PROCEED" /\ p = "api" => Input(p).decision \in {"proceed", "empty"}
      /\ Input(p).decision \notin Falsy /\ outcome.action # "AUTO" =>
           outcome.decision = Input(p).decision
  <2>1. CASE ~work[p].safe
    <3>1. NeedsCheckpoint(p)
      BY <2>1 DEF NeedsCheckpoint
    <3>2. PICK d \in Answered(p, FALSE) :
            /\ outcome.decision = d
            /\ outcome.action \in {"CRISIS_FOLLOWUP", "SAFETY_FOLLOWUP"}
      <4>1. CASE Safety(p) = "CRISIS"
        <5>1. Outcomes(p) = {[decision |-> d, action |-> "CRISIS_FOLLOWUP"] :
                               d \in Answered(p, FALSE)}
          BY <4>1 DEF Outcomes
        <5>2. outcome \in {[decision |-> d, action |-> "CRISIS_FOLLOWUP"] : d \in Answered(p, FALSE)}
          BY <5>1, outcome \in Outcomes(p)
        <5>3. PICK d \in Answered(p, FALSE) : outcome = [decision |-> d, action |-> "CRISIS_FOLLOWUP"]
          BY <5>2, Zenon
        <5>4. outcome.decision = d /\ outcome.action = "CRISIS_FOLLOWUP"
          BY <5>3
        <5> QED
          BY <5>4, Zenon
      <4>2. CASE Safety(p) # "CRISIS"
        <5>1. Outcomes(p) = {[decision |-> d, action |-> "SAFETY_FOLLOWUP"] :
                               d \in Answered(p, FALSE)}
          BY <2>1, <4>2 DEF Outcomes
        <5>2. outcome \in {[decision |-> d, action |-> "SAFETY_FOLLOWUP"] : d \in Answered(p, FALSE)}
          BY <5>1, outcome \in Outcomes(p)
        <5>3. PICK d \in Answered(p, FALSE) : outcome = [decision |-> d, action |-> "SAFETY_FOLLOWUP"]
          BY <5>2, Zenon
        <5>4. outcome.decision = d /\ outcome.action = "SAFETY_FOLLOWUP"
          BY <5>3
        <5> QED
          BY <5>4, Zenon
      <4> QED
        BY <4>1, <4>2
    <3>3. d \in Recorded /\ (Input(p).decision \notin Falsy => d = Input(p).decision)
      BY <1>5, <3>1
    <3> QED
      BY <3>2, <3>3 DEF Actions
  <2>2. CASE work[p].safe /\ (work[p].weight >= 0 \/ work[p].confidence <= 0)
    <3>1. NeedsCheckpoint(p) /\ Safety(p) = "none"
      BY <1>4, <2>2 DEF NeedsCheckpoint
    <3>2. Outcomes(p) = {[decision |-> d, action |-> ActionOf(d)] : d \in Answered(p, TRUE)}
      BY <2>2, <3>1 DEF Outcomes
    <3>3. outcome \in {[decision |-> d, action |-> ActionOf(d)] : d \in Answered(p, TRUE)}
      BY <3>2, outcome \in Outcomes(p)
    <3>4. PICK d \in Answered(p, TRUE) : outcome = [decision |-> d, action |-> ActionOf(d)]
      BY <3>3, Zenon
    <3>5. outcome.decision = d /\ outcome.action = ActionOf(d)
      BY <3>4
    <3>6. /\ d \in Recorded
          /\ Input(p).decision \notin Falsy => d = Input(p).decision
          /\ p = "api" /\ d = "proceed" => Input(p).decision \in {"proceed", "empty"}
      BY <1>5, <3>1
    <3> QED
      BY <1>6, <3>1, <3>5, <3>6 DEF Actions
  <2>3. CASE work[p].safe /\ ~(work[p].weight >= 0 \/ work[p].confidence <= 0)
    <3>1. Safety(p) = "none"
      BY <1>4, <2>3
    <3>2. Outcomes(p) = {[decision |-> "", action |-> "AUTO"]}
      BY <2>3, <3>1 DEF Outcomes
    <3>3. outcome = [decision |-> "", action |-> "AUTO"]
      BY <3>2, outcome \in Outcomes(p), Zenon
    <3> QED
      BY <3>1, <3>3 DEF Actions, Recorded
  <2> QED
    BY <1>4, <2>1, <2>2, <2>3
<1>9. /\ StatusOf(outcome.action) \in Statuses
      /\ StatusOf(outcome.action) = "complete" => outcome.action \in {"AUTO", "PROCEED"}
  BY <1>8, StatusFacts
<1> QED
  BY <1>8, <1>9

-------------------------------------------------------------------------------
(* What a step of one process leaves alone *)

\* The other process knows what it knew: a step writes no answer but to inputs
\* its own process serves, and nothing takes a row out of the trail.
LEMMA OtherKnows ==
  ASSUME TypeOK, NEW p \in Processes, NEW q \in Processes, q # p, Knows(q),
         asked' = asked, events \subseteq events',
         pc'[q] = pc[q], work'[q] = work[q], gate'[q] = gate[q],
         \A n \in DOMAIN asked : answer'[n] = answer[n] \/ Serves(p, n)
  PROVE  Knows(q)'
<1>1. WorkIsOwn(q)'
  BY DEF Knows, WorkIsOwn, Serves, Processes
<1>2. Received(q)'
  BY DEF Knows, Received
<1>3. SafeIsKnown(q)' /\ GateMatches(q)' /\ Governed(q)'
  BY DEF Knows, SafeIsKnown, GateMatches, Governed, Safety, Text, Input, NeedsCheckpoint
<1> QED
  BY <1>1, <1>2, <1>3 DEF Knows

\* The trail vouches for an answer.
Vouched(n) ==
  \E row \in events :
    /\ row.kind = "CHECKPOINT" /\ row.of = n
    /\ answer[n] = "crisis" \/ answer[n] = StatusOf(row.action)
    /\ asked[n].decision \notin Falsy /\ row.action # "AUTO" => row.decision = asked[n].decision

\* Facts about a step: which rows it adds, which answers it gives and what it
\* puts in the graph.
RowsAreSound(p) ==
  /\ events \subseteq events'
  /\ \A row \in events' \ events :
       /\ row.of = work[p].n
       /\ row.action \in {"AUTO", "PROCEED"} => Safety(p) = "none"
       /\ row.action = "PROCEED" /\ p = "api" => Input(p).decision \in {"proceed", "empty"}

AnswersAreSound(p) ==
  \A n \in DOMAIN asked :
    \/ answer'[n] = answer[n]
    \/ Serves(p, n) /\ answer'[n] \in {"lost", "error", "timeout", "pending"}
    \/ /\ n = work[p].n /\ Serves(p, n) /\ Vouched(n)'
       /\ answer'[n] = "complete" => Safety(p) = "none"

GraphIsSound(p) ==
  \A text \in graph' \ graph :
    text = Text(p) /\ Safety(p) # "CRISIS" /\ pc[p] = "contextualize"

\* A sound step keeps what holds of the trail.
LEMMA TrailKept ==
  ASSUME TypeOK, TrailInv, NEW p \in Processes, Knows(p), pc[p] # "idle",
         asked' = asked, RowsAreSound(p), AnswersAreSound(p), GraphIsSound(p)
  PROVE  TrailInv'
<1>1. work[p].n \in DOMAIN asked /\ Serves(p, work[p].n)
  BY DEF Knows, WorkIsOwn
<1>2. TerminalDecidesLater'
  BY DEF TrailInv, TerminalDecidesLater
<1>3. RowsOfInputs'
  BY <1>1 DEF TrailInv, RowsOfInputs, RowsAreSound
<1>4. AnsweredIsRecorded'
  <2> SUFFICES ASSUME NEW n \in DOMAIN asked, answer'[n] \in Statuses \ {"pending"}
               PROVE  Vouched(n)'
    BY DEF AnsweredIsRecorded, Vouched
  <2>1. CASE answer'[n] = answer[n]
    <3>1. Vouched(n)
      BY <2>1 DEF TrailInv, AnsweredIsRecorded, Vouched
    <3> QED
      BY <2>1, <3>1 DEF Vouched, RowsAreSound
  <2>2. CASE answer'[n] # answer[n]
    BY <2>2 DEF AnswersAreSound, Statuses
  <2> QED
    BY <2>1, <2>2
<1>5. FlaggedIsNeverAutomatic'
  <2>1. ASSUME NEW row \in events', row.action \in {"AUTO", "PROCEED"}
        PROVE  SafetyOf[asked'[row.of].text] = "none"
    <3>1. CASE row \in events
      BY <2>1, <3>1 DEF TrailInv, FlaggedIsNeverAutomatic
    <3>2. CASE row \notin events
      BY <2>1, <3>2 DEF RowsAreSound, Safety, Text, Input
    <3> QED
      BY <3>1, <3>2
  <2>2. ASSUME NEW n \in DOMAIN asked, answer'[n] = "complete"
        PROVE  SafetyOf[asked'[n].text] = "none"
    BY <2>2 DEF TrailInv, FlaggedIsNeverAutomatic, AnswersAreSound, Safety, Text, Input
  <2> QED
    BY <2>1, <2>2 DEF FlaggedIsNeverAutomatic
<1>6. ProceedIsGiven'
  <2> SUFFICES ASSUME NEW row \in events', row.action = "PROCEED",
                      asked[row.of].from \in Clients
               PROVE  asked[row.of].decision \in {"proceed", "empty"}
    BY DEF ProceedIsGiven
  <2>1. CASE row \in events
    BY <2>1 DEF TrailInv, ProceedIsGiven
  <2>2. CASE row \notin events
    <3>1. row.of = work[p].n /\ (p = "api" => Input(p).decision \in {"proceed", "empty"})
      BY <2>2 DEF RowsAreSound
    <3>2. p # "loop"
      BY <1>1, <3>1, PipelineConstants DEF Serves
    <3> QED
      BY <3>1, <3>2, ProcessesDiffer DEF Input
  <2> QED
    BY <2>1, <2>2
<1>7. GraphIsAccountedFor'
  <2> SUFFICES ASSUME NEW text \in graph'
               PROVE  /\ SafetyOf[text] # "CRISIS"
                      /\ \E row \in events' : row.kind = "INTAKE" /\ asked[row.of].text = text
    BY DEF GraphIsAccountedFor
  <2>1. CASE text \in graph
    BY <2>1 DEF TrailInv, GraphIsAccountedFor, RowsAreSound
  <2>2. CASE text \notin graph
    <3>1. text = Text(p) /\ Safety(p) # "CRISIS" /\ pc[p] = "contextualize"
      BY <2>2 DEF GraphIsSound
    <3>2. PICK row \in events : row.kind = "INTAKE" /\ row.of = work[p].n
      BY <3>1 DEF Knows, Received
    <3> QED
      BY <3>1, <3>2 DEF RowsAreSound, Safety, Text, Input
  <2> QED
    BY <2>1, <2>2
<1> QED
  BY <1>2, <1>3, <1>4, <1>5, <1>6, <1>7 DEF TrailInv

\* A sound step of p that reaches to no other process.
Sound(p) ==
  /\ asked' = asked
  /\ \A q \in Processes \ {p} : pc'[q] = pc[q] /\ work'[q] = work[q] /\ gate'[q] = gate[q]
  /\ RowsAreSound(p) /\ AnswersAreSound(p) /\ GraphIsSound(p)

LEMMA SoundStep ==
  ASSUME IInv, NEW p \in Processes, pc[p] # "idle", Sound(p), TypeOK', Knows(p)'
  PROVE  IInv'
<1>1. TypeOK /\ TrailInv /\ Knows(p) /\ \A q \in Processes : Knows(q)
  BY DEF IInv, ProcessInv
<1>2. TrailInv'
  BY <1>1, TrailKept DEF Sound
<1>3. \A n \in DOMAIN asked : answer'[n] = answer[n] \/ Serves(p, n)
  BY DEF Sound, AnswersAreSound
<1>4. ASSUME NEW q \in Processes PROVE Knows(q)'
  <2>1. CASE q = p
    BY <2>1
  <2>2. CASE q # p
    BY <1>1, <1>3, <2>2, OtherKnows DEF Sound, RowsAreSound
  <2> QED
    BY <2>1, <2>2
<1> QED
  BY <1>2, <1>4 DEF IInv, ProcessInv

\* What writing, or failing to write, does to the trail.
LEMMA RecordFacts ==
  ASSUME TypeOK, NEW rows \in SUBSET Rows, NEW attempts \in SUBSET Rows,
         Written(rows) \/ NotWritten(attempts)
  PROVE  /\ events' \subseteq Rows /\ failures' \in 0 .. MaxFailures
         /\ events \subseteq events' /\ events' \subseteq events \cup rows \cup attempts
<1>1. failures' \in 0 .. MaxFailures
  BY PipelineConstants DEF TypeOK, Written, NotWritten
<1>2. events' = events \cup rows \/ events' = events
        \/ \E row \in attempts : events' = events \cup {row}
  BY DEF Written, NotWritten
<1> QED
  BY <1>1, <1>2 DEF TypeOK

\* What giving an answer does.
LEMMA AnswerFacts ==
  ASSUME TypeOK, NEW p \in Processes, Knows(p), pc[p] # "idle", NEW a \in Answers,
         asked' = asked, answer' = [answer EXCEPT ![work[p].n] = a]
  PROVE  /\ answer' \in [DOMAIN asked' -> Answers]
         /\ answer'[work[p].n] = a /\ Serves(p, work[p].n)
         /\ \A n \in DOMAIN asked : answer'[n] = answer[n] \/ (n = work[p].n /\ answer'[n] = a)
  BY DEF TypeOK, Knows, WorkIsOwn

\* What a process moves when it goes on, and when it rests.
LEMMA GotoFacts ==
  ASSUME TypeOK, NEW p \in Processes,
         NEW label \in {"idle", "intake", "contextualize", "surface", "govern", "checkpoint",
                        "conclude"},
         Goto(p, label)
  PROVE  /\ pc' \in [Processes -> {"idle", "intake", "contextualize", "surface", "govern",
                                   "checkpoint", "conclude"}]
         /\ pc'[p] = label /\ \A q \in Processes \ {p} : pc'[q] = pc[q]
  BY DEF TypeOK, Goto

LEMMA RestFacts ==
  ASSUME TypeOK, NEW p \in Processes, Rest(p)
  PROVE  /\ pc' \in [Processes -> {"idle", "intake", "contextualize", "surface", "govern",
                                   "checkpoint", "conclude"}]
         /\ work' \in [Processes -> [n : 0 .. MaxAsked, weight : Levels, confidence : Levels,
                                     safe : BOOLEAN]]
         /\ pc'[p] = "idle"
         /\ \A q \in Processes \ {p} : pc'[q] = pc[q] /\ work'[q] = work[q]
<1>1. NoWork \in [n : 0 .. MaxAsked, weight : Levels, confidence : Levels, safe : BOOLEAN]
  BY PipelineConstants DEF NoWork, Levels
<1> QED
  BY <1>1, GotoFacts DEF TypeOK, Rest

\* A process at rest knows just that the gate is its own.
LEMMA RestingKnows ==
  ASSUME NEW p \in Processes, pc'[p] = "idle", gate'[p] = "terminal"
  PROVE  Knows(p)'
  BY DEF Knows, WorkIsOwn, Received, SafeIsKnown, GateMatches, Governed

\* Only p's own gate moves.
GateMoves(p) ==
  /\ gate' \in [Processes -> {"terminal", "client"}]
  /\ \A q \in Processes \ {p} : gate'[q] = gate[q]

\* A record that fails ends the step, and nothing is left behind.
LEMMA RaiseKeeps ==
  ASSUME IInv, NEW p \in Processes, pc[p] # "idle", asked' = asked, graph' = graph,
         gate'[p] = "terminal", GateMoves(p), NotWritten({}), Raise(p)
  PROVE  IInv'
<1> DEFINE a == IF p = "api" THEN "error" ELSE "lost"
<1>1. TypeOK /\ Knows(p)
  BY DEF IInv, ProcessInv
<1>2. Rest(p) /\ answer' = [answer EXCEPT ![work[p].n] = a] /\ a \in {"error", "lost"}
  BY DEF Raise
<1> HIDE DEF a
<1>3. events' \subseteq Rows /\ failures' \in 0 .. MaxFailures /\ events' = events
  BY <1>1, RecordFacts DEF NotWritten
<1>4. a \in Answers
  BY <1>2 DEF Answers
<1>5. /\ answer' \in [DOMAIN asked' -> Answers]
      /\ \A n \in DOMAIN asked : answer'[n] = answer[n] \/ (answer'[n] = a /\ Serves(p, n))
  BY <1>1, <1>2, <1>4, AnswerFacts
<1>6. TypeOK'
  BY <1>1, <1>2, <1>3, <1>5, RestFacts DEF TypeOK, GateMoves
<1>7. Knows(p)'
  BY <1>1, <1>2, RestFacts, RestingKnows
<1>8. Sound(p)
  BY <1>1, <1>2, <1>3, <1>5, RestFacts
     DEF Sound, RowsAreSound, AnswersAreSound, GraphIsSound, GateMoves
<1> QED
  BY <1>6, <1>7, <1>8, SoundStep

\* A status may be answered once the trail says the same.
LEMMA ReplyKeeps ==
  ASSUME IInv, NEW p \in Processes, pc[p] # "idle", asked' = asked, graph' = graph,
         gate'[p] = "terminal", GateMoves(p), NEW status \in Statuses, Reply(p, status),
         events' \subseteq Rows, failures' \in 0 .. MaxFailures, RowsAreSound(p),
         status = "complete" => Safety(p) = "none",
         \/ status = "pending"
         \/ \E row \in events' :
              /\ row.kind = "CHECKPOINT" /\ row.of = work[p].n
              /\ status = "crisis" \/ status = StatusOf(row.action)
              /\ Input(p).decision \notin Falsy /\ row.action # "AUTO" =>
                   row.decision = Input(p).decision
  PROVE  IInv'
<1>1. TypeOK /\ Knows(p)
  BY DEF IInv, ProcessInv
<1>2. Rest(p)
  BY DEF Reply
<1>3. PICK a \in {status, "timeout"} : answer' = [answer EXCEPT ![work[p].n] = a]
  BY DEF Reply
<1>4. a \in Answers
  BY DEF Answers
<1>5. /\ answer' \in [DOMAIN asked' -> Answers]
      /\ answer'[work[p].n] = a /\ Serves(p, work[p].n)
      /\ \A n \in DOMAIN asked : answer'[n] = answer[n] \/ (n = work[p].n /\ answer'[n] = a)
  BY <1>1, <1>3, <1>4, AnswerFacts
<1>6. TypeOK'
  BY <1>1, <1>2, <1>5, RestFacts DEF TypeOK, GateMoves
<1>7. Knows(p)'
  BY <1>1, <1>2, RestFacts, RestingKnows
<1>8. AnswersAreSound(p)
  <2> SUFFICES ASSUME NEW n \in DOMAIN asked, answer'[n] # answer[n]
               PROVE  \/ answer'[n] \in {"lost", "error", "timeout", "pending"}
                      \/ Vouched(n)' /\ (answer'[n] = "complete" => Safety(p) = "none")
    BY <1>5 DEF AnswersAreSound
  <2>1. n = work[p].n /\ answer'[n] = a
    BY <1>5
  <2>2. CASE a = "timeout" \/ status = "pending"
    BY <2>1, <2>2
  <2>3. CASE a = status /\ status # "pending"
    BY <2>1, <2>3 DEF Vouched, Input
  <2> QED
    BY <2>2, <2>3
<1>9. Sound(p)
  BY <1>1, <1>2, <1>8, RestFacts DEF Sound, GraphIsSound, GateMoves
<1> QED
  BY <1>6, <1>7, <1>9, SoundStep

-------------------------------------------------------------------------------
(* Each operation of a process keeps the invariant *)

\* Only the inputs, the answers, the trail and the graph matter to TrailInv.
LEMMA TrailUnread ==
  ASSUME TrailInv, UNCHANGED <<asked, answer, events, graph>>
  PROVE  TrailInv'
<1>1. AnsweredIsRecorded'
  BY DEF TrailInv, AnsweredIsRecorded
<1>2. FlaggedIsNeverAutomatic' /\ ProceedIsGiven' /\ GraphIsAccountedFor'
  BY DEF TrailInv, FlaggedIsNeverAutomatic, ProceedIsGiven, GraphIsAccountedFor
<1>3. TerminalDecidesLater' /\ RowsOfInputs'
  BY DEF TrailInv, TerminalDecidesLater, RowsOfInputs
<1> QED
  BY <1>1, <1>2, <1>3 DEF TrailInv

LEMMA TakeKeeps ==
  ASSUME IInv, NEW p \in Processes, NEW n \in DOMAIN asked, Take(p, n)
  PROVE  IInv'
<1>1. TypeOK /\ TrailInv /\ \A q \in Processes : Knows(q)
  BY DEF IInv, ProcessInv
<1>2. pc[p] = "idle" /\ answer[n] = NoAnswer /\ Serves(p, n) /\ Goto(p, "intake")
      /\ work' = [work EXCEPT ![p].n = n]
      /\ UNCHANGED <<asked, answer, events, graph, gate, failures>>
  BY DEF Take, Serves
<1>3. n \in 0 .. MaxAsked
  <2>1. asked \in Seq(Asked) /\ Len(asked) <= MaxAsked
    BY <1>1 DEF TypeOK
  <2>2. Len(asked) \in Nat /\ n \in 1 .. Len(asked)
    BY <2>1
  <2> QED
    BY <2>1, <2>2, PipelineConstants
<1>4. TypeOK'
  <2>1. work' \in [Processes -> [n : 0 .. MaxAsked, weight : Levels, confidence : Levels,
                                 safe : BOOLEAN]]
    BY <1>1, <1>2, <1>3 DEF TypeOK
  <2> QED
    BY <1>1, <1>2, <2>1, GotoFacts DEF TypeOK
<1>5. pc'[p] = "intake" /\ work'[p].n = n /\ gate'[p] = gate[p]
  BY <1>1, <1>2 DEF TypeOK, Goto
<1>6. Knows(p)'
  BY <1>1, <1>2, <1>5
     DEF Knows, WorkIsOwn, Received, SafeIsKnown, GateMatches, Governed, Serves
<1>7. ASSUME NEW q \in Processes, q # p PROVE Knows(q)'
  <2>1. pc'[q] = pc[q] /\ work'[q] = work[q]
    BY <1>1, <1>2, <1>7 DEF TypeOK, Goto
  <2> QED
    BY <1>1, <1>2, <1>7, <2>1, OtherKnows
<1>8. TrailInv'
  BY <1>1, <1>2, TrailUnread
<1> QED
  BY <1>4, <1>6, <1>7, <1>8 DEF IInv, ProcessInv

LEMMA ReceiveKeeps ==
  ASSUME IInv, NEW p \in Processes, Receive(p)
  PROVE  IInv'
<1> DEFINE row == Row(p, "INTAKE", ClassOf[Text(p)], "", "")
<1>1. TypeOK /\ TrailInv /\ Knows(p)
  BY DEF IInv, ProcessInv
<1>2. pc[p] = "intake" /\ UNCHANGED <<asked, graph, gate>>
  BY DEF Receive
<1>3. row \in Rows /\ row.of = work[p].n /\ row.kind = "INTAKE" /\ row.action = ""
  <2>1. ClassOf[Text(p)] \in Nat
    BY <1>1, <1>2, InputFacts
  <2>2. "INTAKE" \in Kinds /\ "" \in Actions /\ "" \in Recorded
    BY DEF Kinds, Actions, Recorded
  <2> QED
    BY <1>1, <2>1, <2>2, WorkIsNumbered DEF Row, Rows
<1> HIDE DEF row
<1>5. CASE Written({row}) /\ Goto(p, "contextualize") /\ UNCHANGED <<work, answer>>
  <2>1. /\ events' \subseteq Rows /\ failures' \in 0 .. MaxFailures
        /\ events \subseteq events' /\ events' \subseteq events \cup {row} /\ row \in events'
    BY <1>1, <1>3, <1>5, RecordFacts DEF Written
  <2>2. pc'[p] = "contextualize" /\ \A q \in Processes \ {p} : pc'[q] = pc[q]
    BY <1>1, <1>5, GotoFacts
  <2>3. TypeOK'
    BY <1>1, <1>2, <1>5, <2>1, GotoFacts DEF TypeOK
  <2>4. Knows(p)'
    BY <1>1, <1>2, <1>3, <1>5, <2>1, <2>2
       DEF Knows, WorkIsOwn, Received, SafeIsKnown, GateMatches, Governed, Serves
  <2>5. Sound(p)
    BY <1>2, <1>3, <1>5, <2>1, <2>2
       DEF Sound, RowsAreSound, AnswersAreSound, GraphIsSound
  <2> QED
    BY <1>2, <2>3, <2>4, <2>5, SoundStep
<1>6. CASE NotWritten({}) /\ Raise(p)
  <2>1. gate'[p] = "terminal" /\ GateMoves(p)
    BY <1>1, <1>2 DEF Knows, GateMatches, TypeOK, GateMoves
  <2> QED
    BY <1>2, <1>6, <2>1, RaiseKeeps
<1> QED
  BY <1>5, <1>6 DEF Receive, row

LEMMA BuildKeeps ==
  ASSUME IInv, NEW p \in Processes, Build(p)
  PROVE  IInv'
<1> DEFINE row == Row(p, "CONTEXTUALIZE", 0, "", "")
           fail == Row(p, "AUDIT_FAIL", 0, "", "")
<1>1. TypeOK /\ Knows(p)
  BY DEF IInv, ProcessInv
<1>2. /\ pc[p] = "contextualize" /\ UNCHANGED <<asked, answer, gate>>
      /\ Goto(p, "surface") /\ (Written({row}) \/ NotWritten({fail}))
      /\ graph' \subseteq graph \cup (IF Safety(p) = "CRISIS" THEN {} ELSE {Text(p)})
  BY DEF Build
<1>3. PICK w \in Levels : work' = [work EXCEPT ![p].weight = w]
  BY DEF Build
<1>4. /\ row \in Rows /\ row.of = work[p].n /\ row.action = ""
      /\ fail \in Rows /\ fail.of = work[p].n /\ fail.action = ""
  <2>1. {"CONTEXTUALIZE", "AUDIT_FAIL"} \subseteq Kinds /\ "" \in Actions
    BY DEF Kinds, Actions
  <2> QED
    BY <1>1, <2>1, WorkIsNumbered DEF Row, Rows, Recorded
<1> HIDE DEF row, fail
<1>5. /\ events' \subseteq Rows /\ failures' \in 0 .. MaxFailures
      /\ events \subseteq events' /\ events' \subseteq events \cup {row, fail}
  <2>1. {row} \in SUBSET Rows /\ {fail} \in SUBSET Rows
    BY <1>4
  <2> QED
    BY <1>1, <1>2, <2>1, RecordFacts
<1>6. pc'[p] = "surface" /\ \A q \in Processes \ {p} : pc'[q] = pc[q]
  BY <1>1, <1>2, GotoFacts
<1>7. /\ work' \in [Processes -> [n : 0 .. MaxAsked, weight : Levels, confidence : Levels,
                                  safe : BOOLEAN]]
      /\ work'[p].n = work[p].n /\ \A q \in Processes \ {p} : work'[q] = work[q]
  BY <1>1, <1>3 DEF TypeOK
<1>8. TypeOK'
  <2>1. Text(p) \in Texts
    BY <1>1, <1>2, InputFacts
  <2> QED
    BY <1>1, <1>2, <1>5, <1>7, <2>1, GotoFacts DEF TypeOK
<1>9. Knows(p)'
  BY <1>1, <1>2, <1>5, <1>6, <1>7
     DEF Knows, WorkIsOwn, Received, SafeIsKnown, GateMatches, Governed, Serves
<1>10. Sound(p)
  BY <1>2, <1>4, <1>5, <1>6, <1>7
     DEF Sound, RowsAreSound, AnswersAreSound, GraphIsSound
<1> QED
  BY <1>2, <1>8, <1>9, <1>10, SoundStep

LEMMA PresentKeeps ==
  ASSUME IInv, NEW p \in Processes, Present(p)
  PROVE  IInv'
<1> DEFINE row == Row(p, "SURFACE", 0, "", "")
           fail == Row(p, "AUDIT_FAIL", 0, "", "")
           next == IF p = "api" THEN "govern" ELSE "checkpoint"
<1>1. TypeOK /\ Knows(p)
  BY DEF IInv, ProcessInv
<1>2. /\ pc[p] = "surface" /\ UNCHANGED <<asked, answer, graph, gate>>
      /\ Goto(p, next) /\ (Written({row}) \/ NotWritten({fail}))
  BY DEF Present
<1>3. PICK c \in Presented(Safety(p)).confidence :
        work' = [work EXCEPT ![p].confidence = c, ![p].safe = Presented(Safety(p)).safe]
  BY DEF Present
<1>4. /\ row \in Rows /\ row.of = work[p].n /\ row.action = ""
      /\ fail \in Rows /\ fail.of = work[p].n /\ fail.action = ""
  <2>1. {"SURFACE", "AUDIT_FAIL"} \subseteq Kinds /\ "" \in Actions
    BY DEF Kinds, Actions
  <2> QED
    BY <1>1, <2>1, WorkIsNumbered DEF Row, Rows, Recorded
<1>5. next \in {"govern", "checkpoint"} /\ (p = "loop" => next = "checkpoint")
      /\ (p = "api" => next = "govern")
  OBVIOUS
<1> HIDE DEF row, fail, next
<1>6. /\ events' \subseteq Rows /\ failures' \in 0 .. MaxFailures
      /\ events \subseteq events' /\ events' \subseteq events \cup {row, fail}
  <2>1. {row} \in SUBSET Rows /\ {fail} \in SUBSET Rows
    BY <1>4
  <2> QED
    BY <1>1, <1>2, <2>1, RecordFacts
<1>7. pc'[p] = next /\ \A q \in Processes \ {p} : pc'[q] = pc[q]
  BY <1>1, <1>2, <1>5, GotoFacts
<1>8. /\ work' \in [Processes -> [n : 0 .. MaxAsked, weight : Levels, confidence : Levels,
                                  safe : BOOLEAN]]
      /\ work'[p].n = work[p].n /\ \A q \in Processes \ {p} : work'[q] = work[q]
      /\ work'[p].safe <=> Safety(p) = "none"
  <2>1. c \in Levels /\ Presented(Safety(p)).safe \in BOOLEAN
        /\ (Presented(Safety(p)).safe <=> Safety(p) = "none")
    BY <1>3 DEF Presented, Levels
  <2> QED
    BY <1>1, <1>3, <2>1 DEF TypeOK
<1>9. TypeOK'
  BY <1>1, <1>2, <1>5, <1>6, <1>8, GotoFacts DEF TypeOK
<1>10. Knows(p)'
  BY <1>1, <1>2, <1>5, <1>6, <1>7, <1>8, ProcessesDiffer
     DEF Knows, WorkIsOwn, Received, SafeIsKnown, GateMatches, Governed, Serves, Safety, Text,
         Input
<1>11. Sound(p)
  BY <1>2, <1>4, <1>6, <1>7, <1>8
     DEF Sound, RowsAreSound, AnswersAreSound, GraphIsSound
<1> QED
  BY <1>2, <1>9, <1>10, <1>11, SoundStep

\* Only the API governs, with the gate that is its own.
LEMMA GovernFacts ==
  ASSUME TypeOK, NEW p \in Processes, Knows(p), pc[p] = "govern"
  PROVE  p = "api" /\ gate[p] = "terminal" /\ (gate' = gate => GateMoves(p))
  BY ProcessesDiffer DEF TypeOK, Knows, GateMatches, GateMoves

LEMMA AnswerCrisisKeeps ==
  ASSUME IInv, NEW p \in Processes, AnswerCrisis(p)
  PROVE  IInv'
<1> DEFINE row == Row(p, "CHECKPOINT", ClassOf[Text(p)], GivenOr(p, "NOT_PROVIDED"), "")
<1>1. TypeOK /\ Knows(p)
  BY DEF IInv, ProcessInv
<1>2. pc[p] = "govern" /\ Safety(p) = "CRISIS" /\ UNCHANGED <<asked, graph, gate>>
  BY DEF AnswerCrisis
<1>3. gate'[p] = "terminal" /\ GateMoves(p)
  BY <1>1, <1>2, GovernFacts
<1>4. /\ row \in Rows /\ row.of = work[p].n /\ row.action = "" /\ row.kind = "CHECKPOINT"
      /\ Input(p).decision \notin Falsy => row.decision = Input(p).decision
  <2>1. "CHECKPOINT" \in Kinds /\ "" \in Actions /\ NoDecision \notin Decisions
    BY PipelineConstants DEF Kinds, Actions, NoDecision
  <2>2. GivenOr(p, "NOT_PROVIDED") \in Recorded /\ ClassOf[Text(p)] \in Nat
        /\ (Input(p).decision \notin Falsy => GivenOr(p, "NOT_PROVIDED") = Input(p).decision)
    BY <1>1, <1>2, <2>1, InputFacts DEF GivenOr
  <2> QED
    BY <1>1, <2>1, <2>2, WorkIsNumbered DEF Row, Rows
<1> HIDE DEF row
<1>5. CASE Written({row}) /\ Reply(p, "crisis")
  <2>1. {row} \in SUBSET Rows
    BY <1>4
  <2>2. /\ events' \subseteq Rows /\ failures' \in 0 .. MaxFailures
        /\ events \subseteq events' /\ events' \subseteq events \cup {row} /\ row \in events'
    BY <1>1, <1>5, <2>1, RecordFacts DEF Written
  <2>3. RowsAreSound(p)
    BY <1>4, <2>2 DEF RowsAreSound
  <2>4. "crisis" \in Statuses
    BY DEF Statuses
  <2> QED
    BY <1>2, <1>3, <1>4, <1>5, <2>2, <2>3, <2>4, ReplyKeeps
<1>6. CASE NotWritten({}) /\ Raise(p)
  BY <1>2, <1>3, <1>6, RaiseKeeps
<1> QED
  BY <1>5, <1>6 DEF AnswerCrisis, row

LEMMA AskForDecisionKeeps ==
  ASSUME IInv, NEW p \in Processes, AskForDecision(p)
  PROVE  IInv'
<1>1. TypeOK /\ Knows(p)
  BY DEF IInv, ProcessInv
<1>2. pc[p] = "govern" /\ Reply(p, "pending") /\ UNCHANGED <<asked, events, graph, gate, failures>>
  BY DEF AskForDecision
<1>3. gate'[p] = "terminal" /\ GateMoves(p)
  BY <1>1, <1>2, GovernFacts
<1>4. events' \subseteq Rows /\ failures' \in 0 .. MaxFailures /\ RowsAreSound(p)
  BY <1>1, <1>2 DEF TypeOK, RowsAreSound
<1>5. "pending" \in Statuses
  BY DEF Statuses
<1> QED
  BY <1>2, <1>3, <1>4, <1>5, ReplyKeeps

LEMMA InjectDecisionKeeps ==
  ASSUME IInv, NEW p \in Processes, InjectDecision(p)
  PROVE  IInv'
<1>1. TypeOK /\ Knows(p)
  BY DEF IInv, ProcessInv
<1>2. /\ pc[p] = "govern" /\ Safety(p) # "CRISIS" /\ Goto(p, "checkpoint")
      /\ ~(NeedsCheckpoint(p) /\ Input(p).decision = NoDecision)
      /\ gate' = [gate EXCEPT ![p] = "client"]
      /\ UNCHANGED <<asked, answer, events, graph, work, failures>>
  BY DEF InjectDecision
<1>3. p = "api"
  BY <1>1, <1>2, GovernFacts
<1>4. pc'[p] = "checkpoint" /\ \A q \in Processes \ {p} : pc'[q] = pc[q]
  BY <1>1, <1>2, GotoFacts
<1>5. /\ gate' \in [Processes -> {"terminal", "client"}] /\ gate'[p] = "client"
      /\ \A q \in Processes \ {p} : gate'[q] = gate[q]
  BY <1>1, <1>2 DEF TypeOK
<1>6. TypeOK'
  BY <1>1, <1>2, <1>5, GotoFacts DEF TypeOK
<1>7. Knows(p)'
  BY <1>1, <1>2, <1>3, <1>4, <1>5
     DEF Knows, WorkIsOwn, Received, SafeIsKnown, GateMatches, Governed, Serves, Safety, Text,
         Input, NeedsCheckpoint
<1>8. Sound(p)
  BY <1>2, <1>4, <1>5 DEF Sound, RowsAreSound, AnswersAreSound, GraphIsSound
<1> QED
  BY <1>2, <1>6, <1>7, <1>8, SoundStep

LEMMA TamperGuardKeeps ==
  ASSUME IInv, NEW p \in Processes, TamperGuard(p)
  PROVE  IInv'
<1> DEFINE row == Row(p, "TAMPER", 0, "", "")
<1>1. TypeOK /\ Knows(p)
  BY DEF IInv, ProcessInv
<1>2. /\ pc[p] = "checkpoint" /\ Goto(p, "conclude")
      /\ UNCHANGED <<asked, answer, graph, gate, work>>
      /\ Written({row}) \/ NotWritten({}) \/ Written({})
  BY DEF TamperGuard
<1>3. row \in Rows /\ row.of = work[p].n /\ row.action = ""
  <2>1. "TAMPER" \in Kinds /\ "" \in Actions
    BY DEF Kinds, Actions
  <2> QED
    BY <1>1, <2>1, WorkIsNumbered DEF Row, Rows, Recorded
<1> HIDE DEF row
<1>4. /\ events' \subseteq Rows /\ failures' \in 0 .. MaxFailures
      /\ events \subseteq events' /\ events' \subseteq events \cup {row}
  <2>1. {row} \in SUBSET Rows /\ {} \in SUBSET Rows
    BY <1>3
  <2>2. CASE Written({row})
    BY <1>1, <2>1, <2>2, RecordFacts DEF Written, TypeOK
  <2>3. CASE Written({}) \/ NotWritten({})
    BY <1>1, <2>1, <2>3, RecordFacts
  <2> QED
    BY <1>2, <2>2, <2>3
<1>5. pc'[p] = "conclude" /\ \A q \in Processes \ {p} : pc'[q] = pc[q]
  BY <1>1, <1>2, GotoFacts
<1>6. TypeOK'
  BY <1>1, <1>2, <1>4, GotoFacts DEF TypeOK
<1>7. Knows(p)'
  BY <1>1, <1>2, <1>4, <1>5
     DEF Knows, WorkIsOwn, Received, SafeIsKnown, GateMatches, Governed, Serves, Safety, Text,
         Input, NeedsCheckpoint
<1>8. Sound(p)
  BY <1>2, <1>3, <1>4, <1>5 DEF Sound, RowsAreSound, AnswersAreSound, GraphIsSound
<1> QED
  BY <1>2, <1>6, <1>7, <1>8, SoundStep

LEMMA RunCheckpointKeeps ==
  ASSUME IInv, NEW p \in Processes, RunCheckpoint(p)
  PROVE  IInv'
<1>1. TypeOK /\ Knows(p) /\ TerminalDecidesLater
  BY DEF IInv, ProcessInv, TrailInv
<1>2. pc[p] = "conclude" /\ Restored(p) /\ UNCHANGED <<asked, graph>>
  BY DEF RunCheckpoint
<1>3. gate'[p] = "terminal" /\ GateMoves(p)
  BY <1>1, <1>2 DEF Restored, TypeOK, GateMoves
<1>4. PICK outcome \in Outcomes(p) : Conclude(p, outcome)
  BY DEF RunCheckpoint
<1> DEFINE row    == ConclusionRow(p, outcome)
           status == StatusOf(outcome.action)
<1>5. /\ outcome.action \in Actions \ {""} /\ outcome.decision \in Recorded
      /\ outcome.action \in {"AUTO", "PROCEED"} => Safety(p) = "none"
      /\ outcome.action = "PROCEED" /\ p = "api" => Input(p).decision \in {"proceed", "empty"}
      /\ Input(p).decision \notin Falsy /\ outcome.action # "AUTO" =>
           outcome.decision = Input(p).decision
      /\ status \in Statuses
      /\ status = "complete" => outcome.action \in {"AUTO", "PROCEED"}
  BY <1>1, <1>2, OutcomeFacts
<1>6. /\ row \in Rows /\ row.of = work[p].n /\ row.kind = "CHECKPOINT"
      /\ row.action = outcome.action /\ row.decision = outcome.decision
  <2>1. "CHECKPOINT" \in Kinds
    BY DEF Kinds
  <2>2. ClassOf[Text(p)] \in Nat
    BY <1>1, <1>2, InputFacts
  <2> QED
    BY <1>1, <1>5, <2>1, <2>2, WorkIsNumbered DEF ConclusionRow, Row, Rows
<1>7. \/ Written({row}) /\ Reply(p, status)
      \/ NotWritten({}) /\ Raise(p)
  BY <1>4 DEF Conclude
<1>8. status = StatusOf(row.action)
  BY <1>6
<1> HIDE DEF row, status
<1>9. CASE Written({row}) /\ Reply(p, status)
  <2>1. {row} \in SUBSET Rows
    BY <1>6
  <2>2. /\ events' \subseteq Rows /\ failures' \in 0 .. MaxFailures
        /\ events \subseteq events' /\ events' \subseteq events \cup {row} /\ row \in events'
    BY <1>1, <1>9, <2>1, RecordFacts DEF Written
  <2>3. RowsAreSound(p)
    BY <1>5, <1>6, <2>2 DEF RowsAreSound
  <2>4. \E r \in events' :
          /\ r.kind = "CHECKPOINT" /\ r.of = work[p].n
          /\ status = "crisis" \/ status = StatusOf(r.action)
          /\ Input(p).decision \notin Falsy /\ r.action # "AUTO" => r.decision = Input(p).decision
    BY <1>5, <1>6, <1>8, <2>2
  <2> QED
    BY <1>2, <1>3, <1>5, <1>9, <2>2, <2>3, <2>4, ReplyKeeps
<1>10. CASE NotWritten({}) /\ Raise(p)
  BY <1>2, <1>3, <1>10, RaiseKeeps
<1> QED
  BY <1>7, <1>9, <1>10

LEMMA CrashKeeps ==
  ASSUME IInv, NEW p \in Processes, Crash(p)
  PROVE  IInv'
<1>1. TypeOK /\ Knows(p)
  BY DEF IInv, ProcessInv
<1>2. /\ pc[p] # "idle" /\ Rest(p) /\ gate' = [gate EXCEPT ![p] = "terminal"]
      /\ UNCHANGED <<asked, events, graph, failures>>
      /\ answer' = [n \in DOMAIN asked |-> IF answer[n] = NoAnswer /\ Serves(p, n)
                                             THEN "lost" ELSE answer[n]]
  BY DEF Crash, Serves
<1>3. answer' \in [DOMAIN asked' -> Answers]
  BY <1>1, <1>2 DEF TypeOK, Answers
<1>4. gate' \in [Processes -> {"terminal", "client"}] /\ gate'[p] = "terminal"
      /\ \A q \in Processes \ {p} : gate'[q] = gate[q]
  BY <1>1, <1>2 DEF TypeOK
<1>5. TypeOK'
  BY <1>1, <1>2, <1>3, <1>4, RestFacts DEF TypeOK
<1>6. Knows(p)'
  BY <1>1, <1>2, <1>4, RestFacts, RestingKnows
<1>7. Sound(p)
  BY <1>1, <1>2, <1>4, RestFacts
     DEF Sound, RowsAreSound, AnswersAreSound, GraphIsSound
<1> QED
  BY <1>2, <1>5, <1>6, <1>7, SoundStep

LEMMA StepKeeps ==
  ASSUME IInv, NEW p \in Processes, Step(p)
  PROVE  IInv'
  BY TakeKeeps, ReceiveKeeps, BuildKeeps, PresentKeeps, AnswerCrisisKeeps, AskForDecisionKeeps,
     InjectDecisionKeeps, TamperGuardKeeps, RunCheckpointKeeps DEF Step

-------------------------------------------------------------------------------
(* Those who ask, and who erase, keep it *)

LEMMA EraseKeeps ==
  ASSUME IInv, NEW c \in Clients, Erase(c)
  PROVE  IInv'
<1> DEFINE row == [kind |-> "ERASURE", of |-> 0, class |-> 0, decision |-> "", action |-> ""]
<1>1. TypeOK /\ TrailInv /\ \A q \in Processes : Knows(q)
  BY DEF IInv, ProcessInv
<1>2. /\ graph' \subseteq graph /\ (Written({row}) \/ NotWritten({}))
      /\ UNCHANGED <<asked, answer, gate, pc, work>>
  BY DEF Erase
<1>3. row \in Rows /\ row.action = "" /\ row.kind = "ERASURE"
  BY DEF Rows, Recorded, Kinds, Actions
<1> HIDE DEF row
<1>4. /\ events' \subseteq Rows /\ failures' \in 0 .. MaxFailures
      /\ events \subseteq events' /\ events' \subseteq events \cup {row}
  <2>1. {row} \in SUBSET Rows
    BY <1>3
  <2> QED
    BY <1>1, <1>2, <2>1, RecordFacts
<1>5. TypeOK'
  BY <1>1, <1>2, <1>4 DEF TypeOK
<1>6. ASSUME NEW q \in Processes PROVE Knows(q)'
  BY <1>1, <1>2, <1>4
     DEF Knows, WorkIsOwn, Received, SafeIsKnown, GateMatches, Governed, Serves, Safety, Text,
         Input, NeedsCheckpoint
<1>7. TerminalDecidesLater' /\ RowsOfInputs'
  BY <1>1, <1>2, <1>3, <1>4 DEF TrailInv, TerminalDecidesLater, RowsOfInputs
<1>8. AnsweredIsRecorded'
  BY <1>1, <1>2, <1>4 DEF TrailInv, AnsweredIsRecorded
<1>9. FlaggedIsNeverAutomatic' /\ ProceedIsGiven' /\ GraphIsAccountedFor'
  BY <1>1, <1>2, <1>3, <1>4
     DEF TrailInv, FlaggedIsNeverAutomatic, ProceedIsGiven, GraphIsAccountedFor
<1> QED
  BY <1>5, <1>6, <1>7, <1>8, <1>9 DEF IInv, ProcessInv, TrailInv

\* An input that is asked is added to the ones there were, unanswered.
LEMMA AskFacts ==
  ASSUME TypeOK, NEW new \in Asked, Len(asked) < MaxAsked,
         asked' = Append(asked, new), answer' = Append(answer, NoAnswer)
  PROVE  /\ asked' \in Seq(Asked) /\ Len(asked') <= MaxAsked
         /\ answer' \in [DOMAIN asked' -> Answers]
         /\ DOMAIN asked \subseteq DOMAIN asked'
         /\ \A n \in DOMAIN asked : asked'[n] = asked[n] /\ answer'[n] = answer[n]
         /\ \A n \in DOMAIN asked' : n \in DOMAIN asked \/
              (answer'[n] = NoAnswer /\ asked'[n] = new)
<1>1. asked \in Seq(Asked)
  BY DEF TypeOK
<1>2. Len(asked) \in Nat /\ DOMAIN asked = 1 .. Len(asked)
  BY <1>1
<1>3. /\ asked' \in Seq(Asked) /\ Len(asked') = Len(asked) + 1
      /\ DOMAIN asked' = 1 .. Len(asked) + 1
      /\ \A n \in DOMAIN asked : asked'[n] = asked[n]
      /\ asked'[Len(asked) + 1] = new
  BY <1>1, <1>2
<1>4. answer \in Seq(Answers) /\ Len(answer) = Len(asked)
  <2>1. answer \in [1 .. Len(asked) -> Answers]
    BY <1>2 DEF TypeOK
  <2> QED
    BY <1>2, <2>1
<1>5. NoAnswer \in Answers
  BY DEF Answers
<1>6. /\ answer' \in [1 .. Len(asked) + 1 -> Answers]
      /\ \A n \in 1 .. Len(asked) : answer'[n] = answer[n]
      /\ answer'[Len(asked) + 1] = NoAnswer
  <2>1. /\ answer' \in Seq(Answers) /\ Len(answer') = Len(answer) + 1
        /\ \A n \in 1 .. Len(answer) : answer'[n] = answer[n]
        /\ answer'[Len(answer) + 1] = NoAnswer
    BY <1>4, <1>5, AppendProperties
  <2> QED
    BY <1>4, <2>1, LenProperties
<1>7. Len(asked') <= MaxAsked
  BY <1>2, <1>3, PipelineConstants
<1>8. \A n \in 1 .. Len(asked) + 1 : n \in 1 .. Len(asked) \/ n = Len(asked) + 1
  BY <1>2
<1> QED
  BY <1>2, <1>3, <1>6, <1>7, <1>8

LEMMA AskKeeps ==
  ASSUME IInv, NEW who \in Clients \cup {Terminal}, NEW text \in Texts,
         NEW decision \in Decisions \cup {NoDecision}, NEW pending \in BOOLEAN,
         who = Terminal => decision = NoDecision, Ask(who, text, decision, pending)
  PROVE  IInv'
<1>1. TypeOK /\ TrailInv /\ \A q \in Processes : Knows(q)
  BY DEF IInv, ProcessInv
<1>2. UNCHANGED <<events, graph, gate, pc, work, failures>>
  BY DEF Ask
<1>3. /\ asked' \in Seq(Asked) /\ Len(asked') <= MaxAsked
      /\ answer' \in [DOMAIN asked' -> Answers]
      /\ DOMAIN asked \subseteq DOMAIN asked'
      /\ \A n \in DOMAIN asked : asked'[n] = asked[n] /\ answer'[n] = answer[n]
      /\ \A n \in DOMAIN asked' : n \in DOMAIN asked \/
           (answer'[n] = NoAnswer /\ asked'[n].from = who /\ asked'[n].decision = decision)
  <2> DEFINE new == [from |-> who, text |-> text, decision |-> decision, pending |-> pending]
  <2>1. new \in Asked /\ new.from = who /\ new.decision = decision
    BY DEF Asked
  <2>2. Len(asked) < MaxAsked /\ asked' = Append(asked, new) /\ answer' = Append(answer, NoAnswer)
    BY DEF Ask
  <2> HIDE DEF new
  <2> QED
    BY <1>1, <2>1, <2>2, AskFacts
<1>4. TypeOK'
  BY <1>1, <1>2, <1>3 DEF TypeOK
<1>5. ASSUME NEW q \in Processes PROVE Knows(q)'
  <2>1. pc[q] # "idle" =>
          /\ work[q].n \in DOMAIN asked'
          /\ asked'[work[q].n] = asked[work[q].n] /\ answer'[work[q].n] = answer[work[q].n]
    BY <1>1, <1>3 DEF Knows, WorkIsOwn
  <2> QED
    BY <1>1, <1>2, <2>1
       DEF Knows, WorkIsOwn, Received, SafeIsKnown, GateMatches, Governed, Serves, Safety, Text,
           Input, NeedsCheckpoint
<1>6. TerminalDecidesLater' /\ RowsOfInputs'
  BY <1>1, <1>2, <1>3 DEF TrailInv, TerminalDecidesLater, RowsOfInputs
<1>7. \A row \in events : row.action = "" \/ asked'[row.of] = asked[row.of]
  BY <1>1, <1>3 DEF TrailInv, RowsOfInputs
<1>8. AnsweredIsRecorded'
  <2> SUFFICES ASSUME NEW n \in DOMAIN asked', answer'[n] \in Statuses \ {"pending"}
               PROVE  Vouched(n)'
    BY DEF AnsweredIsRecorded, Vouched
  <2>1. n \in DOMAIN asked
    BY <1>3 DEF Statuses, NoAnswer
  <2>2. Vouched(n)
    BY <1>1, <1>3, <2>1 DEF TrailInv, AnsweredIsRecorded, Vouched
  <2> QED
    BY <1>2, <1>3, <2>1, <2>2 DEF Vouched
<1>9. FlaggedIsNeverAutomatic'
  <2>1. \A row \in events' : row.action \in {"AUTO", "PROCEED"} =>
                               SafetyOf[asked'[row.of].text] = "none"
    BY <1>1, <1>2, <1>7 DEF TrailInv, FlaggedIsNeverAutomatic
  <2>2. \A n \in DOMAIN asked' : answer'[n] = "complete" => SafetyOf[asked'[n].text] = "none"
    BY <1>1, <1>3 DEF TrailInv, FlaggedIsNeverAutomatic, NoAnswer
  <2> QED
    BY <2>1, <2>2 DEF FlaggedIsNeverAutomatic
<1>10. ProceedIsGiven'
  BY <1>1, <1>2, <1>7 DEF TrailInv, ProceedIsGiven
<1>11. GraphIsAccountedFor'
  <2>1. \A row \in events : row.kind = "INTAKE" => asked'[row.of] = asked[row.of]
    BY <1>1, <1>3 DEF TrailInv, RowsOfInputs
  <2> QED
    BY <1>1, <1>2, <2>1 DEF TrailInv, GraphIsAccountedFor
<1> QED
  BY <1>4, <1>5, <1>6, <1>8, <1>9, <1>10, <1>11 DEF IInv, ProcessInv, TrailInv

-------------------------------------------------------------------------------
(* The invariant, and what follows from it *)

LEMMA InitIInv == Init => IInv
<1> SUFFICES ASSUME Init PROVE IInv
  OBVIOUS
<1>1. asked = <<>> /\ answer = <<>> /\ events = {} /\ graph = {} /\ failures = 0
  BY DEF Init
<1>2. asked \in Seq(Asked) /\ Len(asked) = 0 /\ DOMAIN asked = {} /\ answer \in [{} -> Answers]
  BY <1>1
<1>3. NoWork \in [n : 0 .. MaxAsked, weight : Levels, confidence : Levels, safe : BOOLEAN]
  BY PipelineConstants DEF NoWork, Levels
<1>4. TypeOK
  <2>1. 0 <= MaxAsked /\ 0 \in 0 .. MaxFailures
    BY PipelineConstants
  <2> QED
    BY <1>1, <1>2, <1>3, <2>1 DEF TypeOK, Init
<1>5. ASSUME NEW p \in Processes PROVE Knows(p)
  BY DEF Init, Knows, WorkIsOwn, Received, SafeIsKnown, GateMatches, Governed
<1>6. TrailInv
  BY <1>1, <1>2
     DEF TrailInv, TerminalDecidesLater, RowsOfInputs, AnsweredIsRecorded,
         FlaggedIsNeverAutomatic, ProceedIsGiven, GraphIsAccountedFor
<1> QED
  BY <1>4, <1>5, <1>6 DEF IInv, ProcessInv

LEMMA NextIInv == IInv /\ [Next]_vars => IInv'
<1> SUFFICES ASSUME IInv, [Next]_vars PROVE IInv'
  OBVIOUS
<1>1. ASSUME UNCHANGED vars PROVE IInv'
  <2>1. TypeOK'
    BY <1>1 DEF vars, IInv, TypeOK
  <2>2. ASSUME NEW p \in Processes PROVE Knows(p)'
    BY <1>1 DEF vars, IInv, ProcessInv, Knows, WorkIsOwn, Received, SafeIsKnown, GateMatches,
                Governed, Serves, Safety, Text, Input, NeedsCheckpoint
  <2>3. TrailInv'
    BY <1>1, TrailUnread DEF vars, IInv
  <2> QED
    BY <2>1, <2>2, <2>3 DEF IInv, ProcessInv
<1>2. ASSUME NEW who \in Clients \cup {Terminal}, NEW text \in Texts,
             NEW d \in Decisions \cup {NoDecision}, Send(who, text, d)
      PROVE  IInv'
  BY <1>2, AskKeeps DEF Send
<1>3. ASSUME NEW c \in Clients, NEW d \in Decisions, Resend(c, d)
      PROVE  IInv'
  <2>1. PICK n \in DOMAIN asked : Ask(c, asked[n].text, d, TRUE)
    BY <1>3 DEF Resend
  <2>2. asked[n].text \in Texts
    <3>1. asked[n] \in Asked
      BY DEF IInv, TypeOK
    <3> QED
      BY <3>1 DEF Asked
  <2>3. c # Terminal
    BY PipelineConstants
  <2> QED
    BY <2>1, <2>2, <2>3, AskKeeps
<1>4. ASSUME Done PROVE IInv'
  BY <1>1, <1>4 DEF Done
<1> QED
  BY <1>1, <1>2, <1>3, <1>4, EraseKeeps, StepKeeps, CrashKeeps DEF Next

\* The types of the pipeline's state.
THEOREM TypeCorrect == Spec => []TypeOK
<1>1. IInv => TypeOK
  BY DEF IInv
<1> QED
  BY <1>1, InitIInv, NextIInv, PTL DEF Spec

\* Whatever fails, and in both processes: what a caller is told is in the
\* trail, and what the graph holds came in through intake.
THEOREM NothingUntraced == Spec => []NothingWithoutATrace
<1>1. IInv => NothingWithoutATrace
  BY DEF IInv, TrailInv, NothingWithoutATrace
<1> QED
  BY <1>1, InitIInv, NextIInv, PTL DEF Spec

\* No input that intake flagged is passed on without a human.
THEOREM FlaggedNeverAutomatic == Spec => []FlaggedIsNeverAutomatic
<1>1. IInv => FlaggedIsNeverAutomatic
  BY DEF IInv, TrailInv
<1> QED
  BY <1>1, InitIInv, NextIInv, PTL DEF Spec

\* A PROCEED in the trail of the API answers a request that carried a decision, to
\* proceed or an empty one, for which the handler puts in "proceed" (main.py).
THEOREM ProceedAlwaysGiven == Spec => []ProceedIsGiven
<1>1. IInv => ProceedIsGiven
  BY DEF IInv, TrailInv
<1> QED
  BY <1>1, InitIInv, NextIInv, PTL DEF Spec

\* The checkpoint's question is the client's to answer only while it is asked.
THEOREM GateAlwaysRestored == Spec => []GateIsRestored
<1>1. IInv => GateIsRestored
  <2> SUFFICES ASSUME IInv, NEW p \in Processes, gate[p] = "client"
               PROVE  pc[p] \in {"checkpoint", "conclude"}
    BY DEF GateIsRestored
  <2> QED
    BY DEF IInv, ProcessInv, Knows, GateMatches
<1> QED
  BY <1>1, InitIInv, NextIInv, PTL DEF Spec
===============================================================================
