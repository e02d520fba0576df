------------------------------- MODULE Pipeline -------------------------------
(***************************************************************************)
(* The five steps every input goes through -- intake, contextualize,       *)
(* surface, checkpoint, record -- behind POST /process (api/main.py) and   *)
(* behind the interactive loop (main.py).  The two are processes that      *)
(* share one database; each handles one input at a time, since the handler *)
(* of /process never awaits.  A record may fail to be written, a process   *)
(* may die between two steps, and an answer may be replaced by the 503 of  *)
(* the timeout.                                                            *)
(*                                                                         *)
(* A text is a model value with the safety level and the class intake      *)
(* finds in it.  The weight and the confidence an input gets follow from   *)
(* the graph, which every input changes: any pair of them may come out,    *)
(* for the same text too, each as its place relative to the threshold of   *)
(* the checkpoint (-1 below, 0 at, 1 above).                               *)
(***************************************************************************)
EXTENDS Integers, Sequences, FiniteSets

CONSTANTS
  Clients,      \* callers of the API
  Terminal,     \* the person at the interactive loop
  Texts,
  SafetyOf,     \* _check_safety: a level per text, or "none"
  ClassOf,      \* _classify: 0, 2 or 3 per text
  Decisions,    \* what may be decided: an option, "empty" (no text), "other" (any other text)
  MaxAsked,     \* bound: inputs given
  MaxFailures   \* bound: records that fail to be written

ASSUME PipelineConstants ==
  /\ Terminal \notin Clients
  /\ SafetyOf \in [Texts -> {"none", "CRISIS", "HARM", "INTEGRITY"}]
  /\ ClassOf \in [Texts -> {0, 2, 3}]
  /\ Decisions \subseteq {"proceed", "veto", "flag", "defer", "empty", "other"}
  /\ MaxAsked \in Nat /\ MaxFailures \in Nat

VARIABLES
  asked,     \* the inputs given, in order
  answer,    \* what came back for each of them
  events,    \* the rows of the audit trail
  graph,     \* the texts whose concepts are in the graph
  gate,      \* what checkpoint._ask_human is, in each process
  pc, work,  \* each process: its step, and the input it is at
  failures   \* records that failed so far

vars == <<asked, answer, events, graph, gate, pc, work, failures>>

Processes == {"api", "loop"}

NoDecision == "none given"

\* What is false to Python: human_decision missing, and human_decision "".
Falsy == {NoDecision, "empty"}

Asked == [from : Clients \cup {Terminal}, text : Texts,
          decision : Decisions \cup {NoDecision}, pending : BOOLEAN]

Statuses == {"complete", "vetoed", "flagged", "deferred", "crisis", "unsafe", "pending"}
NoAnswer == "no answer yet"
Answers  == Statuses \cup {NoAnswer, "error", "timeout", "lost"}

Kinds == {"INTAKE", "CONTEXTUALIZE", "SURFACE", "CHECKPOINT", "AUDIT_FAIL", "TAMPER", "ERASURE"}
Actions == {"", "AUTO", "PROCEED", "VETO", "FLAG_FOR_REVIEW", "DEFER",
            "CRISIS_FOLLOWUP", "SAFETY_FOLLOWUP"}

Recorded == (Decisions \ {"empty"}) \cup {"", "NOT_PROVIDED", "proceed", "veto"}

Rows == [kind : Kinds, of : Nat, class : Nat, decision : Recorded, action : Actions]

Levels == {-1, 0, 1}
NoWork == [n |-> 0, weight |-> 0, confidence |-> 0, safe |-> TRUE]

TypeOK ==
  /\ asked \in Seq(Asked) /\ Len(asked) <= MaxAsked
  /\ answer \in [DOMAIN asked -> Answers]
  /\ events \subseteq Rows
  /\ graph \subseteq Texts
  /\ gate \in [Processes -> {"terminal", "client"}]
  /\ pc \in [Processes -> {"idle", "intake", "contextualize", "surface", "govern", "checkpoint",
                         "conclude"}]
  /\ work \in [Processes -> [n : 0 .. MaxAsked, weight : Levels, confidence : Levels,
                             safe : BOOLEAN]]
  /\ failures \in 0 .. MaxFailures

Init ==
  /\ asked = <<>>
  /\ answer = <<>>
  /\ events = {}
  /\ graph = {}
  /\ gate = [p \in Processes |-> "terminal"]
  /\ pc = [p \in Processes |-> "idle"]
  /\ work = [p \in Processes |-> NoWork]
  /\ failures = 0

-------------------------------------------------------------------------------
(* Those who ask *)

Waiting(who) == \E n \in DOMAIN asked : asked[n].from = who /\ answer[n] = NoAnswer

Ask(who, text, decision, pending) ==
  /\ Len(asked) < MaxAsked
  /\ ~Waiting(who)
  /\ asked' = Append(asked, [from |-> who, text |-> text, decision |-> decision,
                             pending |-> pending])
  /\ answer' = Append(answer, NoAnswer)
  /\ UNCHANGED <<events, graph, gate, pc, work, failures>>

\* A client sends a text with or without a decision; the person at the
\* terminal decides when the loop asks.
Send(who, text, decision) ==
  /\ who = Terminal => decision = NoDecision
  /\ Ask(who, text, decision, FALSE)

\* The flow of API.md: the last answer was pending_checkpoint, the human has
\* decided, the same input goes in again with the decision.
Resend(c, decision) ==
  \E n \in DOMAIN asked :
    /\ asked[n].from = c /\ answer[n] = "pending"
    /\ \A m \in DOMAIN asked : m > n => asked[m].from # c
    /\ Ask(c, asked[n].text, decision, TRUE)

-------------------------------------------------------------------------------
(* One input in one process *)

Input(p)  == asked[work[p].n]
Text(p)   == Input(p).text
Safety(p) == SafetyOf[Text(p)]

Row(p, kind, class, decision, action) ==
  [kind |-> kind, of |-> work[p].n, class |-> class, decision |-> decision, action |-> action]

Written(rows) == events' = events \cup rows /\ UNCHANGED failures

\* memory.record() raises; some callers then try to record that.
NotWritten(attempts) ==
  /\ failures < MaxFailures
  /\ failures' = failures + 1
  /\ events' \in {events} \cup {events \cup {row} : row \in attempts}

Goto(p, label) == pc' = [pc EXCEPT ![p] = label]

Rest(p) == Goto(p, "idle") /\ work' = [work EXCEPT ![p] = NoWork]

\* The answer, or the 503 the timeout sends when the handler took too long.
Reply(p, status) ==
  /\ Rest(p)
  /\ \E a \in IF p = "api" THEN {status, "timeout"} ELSE {status} :
       answer' = [answer EXCEPT ![work[p].n] = a]

\* An exception: the API turns it into a 4xx or 5xx, the loop dies of it.
Raise(p) ==
  /\ Rest(p)
  /\ answer' = [answer EXCEPT ![work[p].n] = IF p = "api" THEN "error" ELSE "lost"]

Take(p, n) ==
  /\ pc[p] = "idle"
  /\ answer[n] = NoAnswer
  /\ (p = "loop") <=> (asked[n].from = Terminal)
  /\ Goto(p, "intake")
  /\ work' = [work EXCEPT ![p].n = n]
  /\ UNCHANGED <<asked, answer, events, graph, gate, failures>>

\* intake.receive(): the record is not optional.
Receive(p) ==
  /\ pc[p] = "intake"
  /\ UNCHANGED <<asked, graph, gate>>
  /\ \/ /\ Written({Row(p, "INTAKE", ClassOf[Text(p)], "", "")})
        /\ Goto(p, "contextualize")
        /\ UNCHANGED <<work, answer>>
     \/ NotWritten({}) /\ Raise(p)

\* contextualize.build(): relate, then navigate, either of which may fail
\* unseen; crisis text is not related.  The record carries the text.
Build(p) ==
  /\ pc[p] = "contextualize"
  /\ \/ graph' = IF Safety(p) = "CRISIS" THEN graph ELSE graph \cup {Text(p)}
     \/ UNCHANGED graph
  /\ \E w \in Levels : work' = [work EXCEPT ![p].weight = w]
  /\ \/ Written({Row(p, "CONTEXTUALIZE", 0, "", "")})
     \/ NotWritten({Row(p, "AUDIT_FAIL", 0, "", "")})
  /\ Goto(p, "surface")
  /\ UNCHANGED <<asked, answer, gate>>

\* Mutant: only a crisis is unsafe.
Presented_CrisisOnly(level) ==
  IF level = "CRISIS" THEN [confidence |-> {-1}, safe |-> FALSE]
                      ELSE [confidence |-> Levels, safe |-> TRUE]

\* _present_safety() for flagged text, present() for the rest.
Presented(level) ==
  IF level # "none" THEN [confidence |-> {-1}, safe |-> FALSE]
                    ELSE [confidence |-> Levels, safe |-> TRUE]

\* surface.present(): its record may fail unseen.
Present(p) ==
  /\ pc[p] = "surface"
  /\ \E c \in Presented(Safety(p)).confidence :
       work' = [work EXCEPT ![p].confidence = c, ![p].safe = Presented(Safety(p)).safe]
  /\ \/ Written({Row(p, "SURFACE", 0, "", "")})
     \/ NotWritten({Row(p, "AUDIT_FAIL", 0, "", "")})
  /\ Goto(p, IF p = "api" THEN "govern" ELSE "checkpoint")
  /\ UNCHANGED <<asked, answer, graph, gate>>

-------------------------------------------------------------------------------
(* The handler of /process, after surface *)

\* Mutant: > in place of >=.
NeedsCheckpoint_Above(p) == ~work[p].safe \/ work[p].weight > 0 \/ work[p].confidence <= 0

NeedsCheckpoint(p) == ~work[p].safe \/ work[p].weight >= 0 \/ work[p].confidence <= 0

\* human_decision or default
GivenOr(p, default) == IF Input(p).decision \in Falsy THEN default ELSE Input(p).decision

\* A crisis is recorded and answered here, whatever the decision.
AnswerCrisis(p) ==
  /\ pc[p] = "govern"
  /\ Safety(p) = "CRISIS"
  /\ \/ /\ Written({Row(p, "CHECKPOINT", ClassOf[Text(p)], GivenOr(p, "NOT_PROVIDED"), "")})
        /\ Reply(p, "crisis")
     \/ NotWritten({}) /\ Raise(p)
  /\ UNCHANGED <<asked, graph, gate>>

AskForDecision(p) ==
  /\ pc[p] = "govern"
  /\ Safety(p) # "CRISIS"
  /\ NeedsCheckpoint(p) /\ Input(p).decision = NoDecision
  /\ Reply(p, "pending")
  /\ UNCHANGED <<asked, events, graph, gate, failures>>

\* _ask_human is replaced, and checkpoint.run() called.  The handler tests for a
\* missing decision here, and for a false one when it puts in its own.
InjectDecision(p) ==
  /\ pc[p] = "govern"
  /\ Safety(p) # "CRISIS"
  /\ ~(NeedsCheckpoint(p) /\ Input(p).decision = NoDecision)
  /\ gate' = [gate EXCEPT ![p] = "client"]
  /\ Goto(p, "checkpoint")
  /\ UNCHANGED <<asked, answer, events, graph, work, failures>>

-------------------------------------------------------------------------------
(* checkpoint.run() *)

\* _tamper_guard() finds the replacement and records it, or fails to.
TamperGuard(p) ==
  /\ pc[p] = "checkpoint"
  /\ IF gate[p] = "client"
       THEN Written({Row(p, "TAMPER", 0, "", "")}) \/ NotWritten({})
       ELSE Written({})
  /\ Goto(p, "conclude")
  /\ UNCHANGED <<asked, answer, graph, gate, work>>

\* What a typed answer counts as: a veto when there is no text or, where there are
\* options, when it is none of them.
Typed(decision, options) ==
  IF decision = "empty" \/ (options /\ decision = "other") THEN "veto" ELSE decision

\* What _ask_human() may return: what is typed, or the client's decision, for which
\* the handler put in "proceed" when it is false.
Answered(p, options) ==
  IF gate[p] = "terminal" THEN {Typed(d, options) : d \in Decisions}
                          ELSE {GivenOr(p, "proceed")}

ActionOf(decision) ==
  CASE decision = "proceed" -> "PROCEED"
    [] decision = "flag"    -> "FLAG_FOR_REVIEW"
    [] decision = "defer"   -> "DEFER"
    [] OTHER                -> "VETO"

\* The branch taken: whether the human is asked, and what becomes of the answer.
Outcomes(p) ==
  IF Safety(p) = "CRISIS"
    THEN {[decision |-> d, action |-> "CRISIS_FOLLOWUP"] : d \in Answered(p, FALSE)}
  ELSE IF ~work[p].safe
    THEN {[decision |-> d, action |-> "SAFETY_FOLLOWUP"] : d \in Answered(p, FALSE)}
  ELSE IF work[p].weight >= 0 \/ work[p].confidence <= 0
    THEN {[decision |-> d, action |-> ActionOf(d)] : d \in Answered(p, TRUE)}
  ELSE {[decision |-> "", action |-> "AUTO"]}

StatusOf(action) ==
  CASE action \in {"AUTO", "PROCEED"} -> "complete"
    [] action = "VETO"                -> "vetoed"
    [] action = "FLAG_FOR_REVIEW"     -> "flagged"
    [] action = "DEFER"               -> "deferred"
    [] action = "CRISIS_FOLLOWUP"     -> "crisis"
    [] action = "SAFETY_FOLLOWUP"     -> "unsafe"

ConclusionRow(p, outcome) ==
  Row(p, "CHECKPOINT", ClassOf[Text(p)], outcome.decision, outcome.action)

\* Mutant: a record that fails is passed over, as in surface.
Conclude_Swallowed(p, outcome) ==
  /\ Written({ConclusionRow(p, outcome)}) \/ NotWritten({})
  /\ Reply(p, StatusOf(outcome.action))

Conclude(p, outcome) ==
  \/ Written({ConclusionRow(p, outcome)}) /\ Reply(p, StatusOf(outcome.action))
  \/ NotWritten({}) /\ Raise(p)

\* Mutant: the function is put back only when no exception was raised.
Restored_NoFinally(p) ==
  gate' = IF answer'[work[p].n] = "error" THEN gate ELSE [gate EXCEPT ![p] = "terminal"]

\* The finally of the handler.
Restored(p) == gate' = [gate EXCEPT ![p] = "terminal"]

RunCheckpoint(p) ==
  /\ pc[p] = "conclude"
  /\ \E outcome \in Outcomes(p) : Conclude(p, outcome)
  /\ Restored(p)
  /\ UNCHANGED <<asked, graph>>

-------------------------------------------------------------------------------

\* DELETE /data/erasure: a wipe that fails and a record that fails are unseen.
Erase(c) ==
  /\ ~Waiting(c) /\ pc["api"] = "idle"
  /\ graph # {}
  /\ graph' \in {{}, graph}
  /\ \/ Written({[kind |-> "ERASURE", of |-> 0, class |-> 0, decision |-> "", action |-> ""]})
     \/ NotWritten({})
  /\ UNCHANGED <<asked, answer, gate, pc, work>>

\* The process dies and is started again; who waited for it gets nothing.
Crash(p) ==
  /\ pc[p] # "idle"
  /\ Rest(p)
  /\ gate' = [gate EXCEPT ![p] = "terminal"]
  /\ answer' = [n \in DOMAIN asked |->
       IF answer[n] = NoAnswer /\ ((p = "loop") <=> (asked[n].from = Terminal))
         THEN "lost" ELSE answer[n]]
  /\ UNCHANGED <<asked, events, graph, failures>>

Step(p) ==
  \/ \E n \in DOMAIN asked : Take(p, n)
  \/ Receive(p) \/ Build(p) \/ Present(p)
  \/ AnswerCrisis(p) \/ AskForDecision(p) \/ InjectDecision(p)
  \/ TamperGuard(p) \/ RunCheckpoint(p)

\* Nobody asks any more.
Done == (\A n \in DOMAIN asked : answer[n] # NoAnswer) /\ UNCHANGED vars

Next ==
  \/ Done
  \/ \E who \in Clients \cup {Terminal}, text \in Texts, d \in Decisions \cup {NoDecision} :
       Send(who, text, d)
  \/ \E c \in Clients : Erase(c) \/ \E d \in Decisions : Resend(c, d)
  \/ \E p \in Processes : Step(p) \/ Crash(p)

Spec == Init /\ [][Next]_vars

-------------------------------------------------------------------------------
(* Properties *)

\* What a caller is told of an input is in the trail: there is a checkpoint
\* record of that input with the action that was answered and the decision that
\* was given, unless that was empty, whatever record failed or process died (the
\* three branches of checkpoint.run and the crisis branch of process).
AnsweredIsRecorded ==
  \A n \in DOMAIN asked : answer[n] \in Statuses \ {"pending"} =>
    \E row \in events :
      /\ row.kind = "CHECKPOINT" /\ row.of = n
      /\ answer[n] = "crisis" \/ answer[n] = StatusOf(row.action)
      /\ asked[n].decision \notin Falsy /\ row.action # "AUTO" => row.decision = asked[n].decision

\* An input intake flagged is never passed on without a human, and never said
\* to be complete, by either process: surface, the handler and the checkpoint
\* agree on what is unsafe.
FlaggedIsNeverAutomatic ==
  /\ \A row \in events :
       row.action \in {"AUTO", "PROCEED"} => SafetyOf[asked[row.of].text] = "none"
  /\ \A n \in DOMAIN asked : answer[n] = "complete" => SafetyOf[asked[n].text] = "none"

\* The "proceed" the handler puts in for a decision that is missing is never
\* recorded as one: a checkpoint of the API that says PROCEED answers a request
\* that carried a decision, to proceed or (see ProceedIsChosen) an empty one, so
\* the handler's test of the surface and that of checkpoint.run agree.
ProceedIsGiven ==
  \A row \in events :
    row.action = "PROCEED" /\ asked[row.of].from \in Clients =>
      asked[row.of].decision \in {"proceed", "empty"}

\* _ask_human is the client's only while a checkpoint runs: no failure leaves
\* the next input with the answer of the one before.
GateIsRestored ==
  \A p \in Processes : gate[p] = "client" => pc[p] \in {"checkpoint", "conclude"}

\* What the graph holds came in through intake, left its record there, and was
\* no crisis text, even when records fail.
GraphIsAccountedFor ==
  \A text \in graph :
    /\ SafetyOf[text] # "CRISIS"
    /\ \E row \in events : row.kind = "INTAKE" /\ asked[row.of].text = text

\* Nothing happens without a trace: neither an answer nor a change of the graph, though
\* records fail and processes die.
NothingWithoutATrace == AnsweredIsRecorded /\ GraphIsAccountedFor

-------------------------------------------------------------------------------
(* Claims of the documentation that the code does not meet *)

\* docs/FAQ.md: the client collects the human's decision and re-submits with
\* it: who vetoes an input that was pending is not told that it is complete.
VetoIsHonoured ==
  \A n \in DOMAIN asked :
    asked[n].pending /\ asked[n].decision = "veto" => answer[n] # "complete"

\* checkpoint.py: "the human must actively choose to proceed", "Empty response means
\* veto -- not proceed".  The handler takes an empty decision for a given one and
\* then puts in "proceed" for it.
ProceedIsChosen ==
  \A row \in events :
    row.action = "PROCEED" /\ asked[row.of].from \in Clients =>
      asked[row.of].decision = "proceed"

\* CRE-SPEC-001: "Classification may only increase downstream -- never
\* decrease": the records that carry the text carry its class.
ClassNeverFalls ==
  \A row \in events :
    row.kind \in {"INTAKE", "CONTEXTUALIZE", "SURFACE", "CHECKPOINT"} =>
      row.class >= ClassOf[asked[row.of].text]

\* checkpoint.py: "legitimate API use is not flagged".
TamperMeansReplaced == \A row \in events : row.kind # "TAMPER"

\* process: "When status is crisis, the display field contains safe messaging
\* ...": a crisis is answered with it, also when the trail cannot be written.
CrisisIsMessaged ==
  \A n \in DOMAIN asked : SafetyOf[asked[n].text] = "CRISIS" => answer[n] # "error"

===============================================================================
