------------------------- MODULE CircuitBreaker_Proofs -------------------------
(***************************************************************************)
(* Proofs about the circuit breaker of api/federation: its fields always   *)
(* agree, and one probe at most is let through per opening, for any number *)
(* of threads and any threshold, recovery time and number of attempts.     *)
(***************************************************************************)
EXTENDS CircuitBreaker, FiniteSetTheorems, TLAPS

\* What must also hold of a sleeping caller for its next attempt to be counted
\* right: it has attempts left.
AttemptsLeft == \A c \in Callers : pc[c] = "sleep" => attempt[c] < MaxAttempts

LEMMA CloseEffect ==
  ASSUME Close
  PROVE  state' = "closed" /\ failures' = 0 /\ openedAt' = Never /\ probe' = FALSE
BY DEF Close

\* on_failure(): the breaker opens, or only counts.
Opens ==
  /\ state # "open" /\ failures + 1 >= Threshold
  /\ state' = "open" /\ openedAt' = clock
  /\ stale' = [c \in Callers |-> TRUE]

OnlyCounts ==
  /\ state = "open" \/ failures + 1 < Threshold
  /\ state' = state /\ openedAt' = openedAt /\ stale' = stale

LEMMA CountEffect ==
  ASSUME TypeOK, CountFailure
  PROVE  failures' = failures + 1 /\ probe' = FALSE /\ (Opens \/ OnlyCounts)
<1> DEFINE opens == state # "open" /\ failures + 1 >= Threshold
<1>1. CASE opens
  BY <1>1 DEF CountFailure, AllStale, Opens
<1>2. CASE ~opens
  <2>1. failures + 1 \in Nat /\ Threshold \in Nat
    BY BreakerConstants DEF TypeOK
  <2> QED BY <1>2, <2>1 DEF CountFailure, OnlyCounts
<1> QED BY <1>1, <1>2

\* The fields of the breaker and of each call stay well typed: in particular no
\* call makes more than MaxAttempts attempts.
THEOREM TypeCorrect == Spec => [](TypeOK /\ AttemptsLeft)
<1>1. Init => TypeOK /\ AttemptsLeft
  <2> SUFFICES ASSUME Init PROVE TypeOK /\ AttemptsLeft
    OBVIOUS
  <2>1. stale \in [Callers -> BOOLEAN] /\ probe \in BOOLEAN
    BY DEF Init
  <2>2. /\ clock \in 0 .. MaxTime /\ failures \in Nat
        /\ openedAt \in 0 .. MaxTime \cup {Never}
        /\ attempt \in [Callers -> 0 .. MaxAttempts]
    BY BreakerConstants DEF Init
  <2> QED BY <2>1, <2>2 DEF Init, TypeOK, AttemptsLeft
<1>2. TypeOK /\ AttemptsLeft /\ [Next]_vars => (TypeOK /\ AttemptsLeft)'
  <2> SUFFICES ASSUME TypeOK, AttemptsLeft, [Next]_vars
               PROVE  (TypeOK /\ AttemptsLeft)'
    OBVIOUS
  <2> USE BreakerConstants
  <2>1. ASSUME NEW c \in Callers, NEW p \in Peers, Send(c, p)
        PROVE  (TypeOK /\ AttemptsLeft)'
    BY <2>1 DEF Send, TypeOK, AttemptsLeft, breaker
  <2>2. ASSUME NEW c \in Callers, BeforeCall(c) PROVE (TypeOK /\ AttemptsLeft)'
    <3>1. CASE Admit
      BY <2>2, <3>1 DEF BeforeCall, Admit, Refuses, breaker, TypeOK, AttemptsLeft
    <3>2. CASE ~Admit
      BY <2>2, <3>2 DEF BeforeCall, breaker, TypeOK, AttemptsLeft
    <3> QED BY <3>1, <3>2
  <2>3. ASSUME NEW c \in Callers, Refused(c) PROVE (TypeOK /\ AttemptsLeft)'
    BY <2>3 DEF Refused, TypeOK, AttemptsLeft, breaker
  <2>4. ASSUME NEW c \in Callers, Succeed(c) PROVE (TypeOK /\ AttemptsLeft)'
    BY <2>4 DEF Succeed, Close, AllStale, TypeOK, AttemptsLeft, Never
  <2>5. ASSUME NEW c \in Callers, Fail(c) PROVE (TypeOK /\ AttemptsLeft)'
    <3>1. CountFailure
      BY <2>5 DEF Fail
    <3>a. failures' = failures + 1 /\ probe' = FALSE /\ (Opens \/ OnlyCounts)
      BY <3>1, CountEffect
    <3>2. /\ state' \in {"closed", "open", "half_open"} /\ failures' \in Nat
          /\ openedAt' \in 0 .. MaxTime \cup {Never}
      BY <3>a DEF Opens, OnlyCounts, TypeOK
    <3>b. probe' \in BOOLEAN /\ stale' \in [Callers -> BOOLEAN]
      <4>1. CASE Opens
        BY <3>a, <4>1 DEF Opens
      <4>2. CASE OnlyCounts
        BY <3>a, <4>2 DEF OnlyCounts, TypeOK
      <4> QED BY <3>a, <4>1, <4>2
    <3>3. /\ pc' \in [Callers -> {"idle", "before", "call", "sleep", "refused"}]
          /\ failed' \subseteq Peers
          /\ AttemptsLeft'
      BY <2>5 DEF Fail, ShouldRetry, TypeOK, AttemptsLeft
    <3> QED BY <2>5, <3>2, <3>b, <3>3 DEF Fail, TypeOK
  <2>6. ASSUME NEW c \in Callers, Retry(c) PROVE (TypeOK /\ AttemptsLeft)'
    BY <2>6 DEF Retry, TypeOK, AttemptsLeft, breaker
  <2>7. CASE Reset
    BY <2>7 DEF Reset, Close, AllStale, TypeOK, AttemptsLeft, calls, Never
  <2>8. CASE Tick
    BY <2>8 DEF Tick, TypeOK, AttemptsLeft, breaker, calls
  <2>9. CASE UNCHANGED vars
    BY <2>9 DEF vars, breaker, calls, TypeOK, AttemptsLeft
  <2> QED BY <2>1, <2>2, <2>3, <2>4, <2>5, <2>6, <2>7, <2>8, <2>9 DEF Next
<1> QED BY <1>1, <1>2, PTL DEF Spec

\* The fields of the breaker agree, in particular a half-open breaker always has its
\* probe on the way.
THEOREM FieldsAlwaysAgree == Spec => []FieldsAgree
<1>1. Init => FieldsAgree
  BY BreakerConstants DEF Init, FieldsAgree
<1>2. TypeOK /\ FieldsAgree /\ [Next]_vars => FieldsAgree'
  <2> SUFFICES ASSUME TypeOK, FieldsAgree, [Next]_vars PROVE FieldsAgree'
    OBVIOUS
  <2> USE BreakerConstants
  <2>1. UNCHANGED breaker => FieldsAgree'
    BY DEF breaker, FieldsAgree
  <2>2. ASSUME NEW c \in Callers, BeforeCall(c) PROVE FieldsAgree'
    <3>1. CASE Admit
      BY <3>1, <2>1 DEF Admit, FieldsAgree, breaker
    <3>2. CASE ~Admit
      BY <2>2, <3>2, <2>1 DEF BeforeCall
    <3> QED BY <3>1, <3>2
  <2>3. Close => FieldsAgree'
    BY CloseEffect DEF FieldsAgree, Never
  <2>4. CountFailure => FieldsAgree'
    <3> SUFFICES ASSUME CountFailure PROVE FieldsAgree'
      OBVIOUS
    <3>1. clock \in Nat /\ clock # Never
      BY DEF TypeOK, Never
    <3>2. failures' = failures + 1 /\ probe' = FALSE /\ (Opens \/ OnlyCounts)
      BY CountEffect
    <3> QED BY <3>1, <3>2 DEF Opens, OnlyCounts, FieldsAgree, TypeOK
  <2> QED BY <2>1, <2>2, <2>3, <2>4
       DEF Next, Send, Refused, Succeed, Fail, Retry, Reset, Tick, vars
<1> QED BY <1>1, <1>2, TypeCorrect, PTL DEF Spec
\* The inductive form of OneProbePerOpening, with the probe named.
ProbeInv ==
  /\ state = "open" => Fresh = {}
  /\ state = "half_open" => \E c \in Callers : Fresh = {c}

\* An open breaker has let nothing through since it opened, and a half-open one
\* exactly one call: no interleaving of late answers admits a second probe.
THEOREM OneProbeAlways == Spec => []OneProbePerOpening
<1>1. Init => ProbeInv
  BY DEF Init, ProbeInv
<1>2. TypeOK /\ FieldsAgree /\ ProbeInv /\ [Next]_vars => ProbeInv'
  <2> SUFFICES ASSUME TypeOK, FieldsAgree, ProbeInv, [Next]_vars PROVE ProbeInv'
    OBVIOUS
  <2>1. ASSUME NEW c \in Callers, NEW p \in Peers, Send(c, p) PROVE ProbeInv'
    <3>1. Fresh' = Fresh
      BY <2>1 DEF Send, Fresh, TypeOK
    <3> QED BY <2>1, <3>1 DEF Send, breaker, ProbeInv
  <2>2. ASSUME NEW c \in Callers, BeforeCall(c) PROVE ProbeInv'
    <3>1. CASE /\ Admit
               /\ pc' = [pc EXCEPT ![c] = "call"]
               /\ stale' = [stale EXCEPT ![c] = FALSE]
      <4>1. Fresh' = Fresh \cup {c}
        BY <3>1 DEF Fresh, TypeOK
      <4>2. CASE state = "closed"
        BY <3>1, <4>2 DEF Admit, breaker, ProbeInv
      <4>3. CASE state = "open"
        BY <3>1, <4>1, <4>3 DEF Admit, ProbeInv
      <4>4. CASE state = "half_open"
        BY <3>1, <4>4 DEF Admit, FieldsAgree
      <4> QED BY <4>2, <4>3, <4>4 DEF TypeOK
    <3>2. CASE /\ pc' = [pc EXCEPT ![c] = "refused"]
               /\ UNCHANGED <<breaker, stale>>
      <4>1. Fresh' = Fresh
        BY <2>2, <3>2 DEF BeforeCall, Fresh, TypeOK
      <4> QED BY <3>2, <4>1 DEF breaker, ProbeInv
    <3> QED BY <2>2, <3>1, <3>2 DEF BeforeCall
  <2>3. ASSUME NEW c \in Callers, Refused(c) PROVE ProbeInv'
    <3>1. Fresh' = Fresh
      BY <2>3 DEF Refused, Fresh, TypeOK
    <3> QED BY <2>3, <3>1 DEF Refused, breaker, ProbeInv
  <2>4. Close => ProbeInv'
    BY CloseEffect DEF ProbeInv
  <2>5. ASSUME NEW c \in Callers, Fail(c) PROVE ProbeInv'
    <3>1. Opens \/ OnlyCounts
      BY <2>5, CountEffect DEF Fail
    <3>2. CASE Opens
      <4>1. Fresh' = {}
        BY <3>2 DEF Opens, Fresh
      <4> QED BY <3>2, <4>1 DEF Opens, ProbeInv
    <3>3. CASE OnlyCounts
      <4>1. state # "half_open"
        <5>1. failures \in Nat /\ Threshold \in Nat
          BY BreakerConstants DEF TypeOK
        <5> QED BY <3>3, <5>1 DEF OnlyCounts, FieldsAgree
      <4>2. Fresh' \subseteq Fresh
        BY <2>5, <3>3 DEF Fail, OnlyCounts, Fresh, TypeOK
      <4> QED BY <3>3, <4>1, <4>2 DEF OnlyCounts, ProbeInv
    <3> QED BY <3>1, <3>2, <3>3
  <2>6. ASSUME NEW c \in Callers, Retry(c) PROVE ProbeInv'
    <3>1. Fresh' = Fresh
      BY <2>6 DEF Retry, Fresh, TypeOK
    <3> QED BY <2>6, <3>1 DEF Retry, breaker, ProbeInv
  <2>7. CASE Tick \/ UNCHANGED vars
    <3>1. Fresh' = Fresh
      BY <2>7 DEF Tick, vars, calls, Fresh
    <3> QED BY <2>7, <3>1 DEF Tick, vars, breaker, ProbeInv
  <2> QED BY <2>1, <2>2, <2>3, <2>4, <2>5, <2>6, <2>7 DEF Next, Succeed, Reset
<1>3. ProbeInv => OneProbePerOpening
  <2> SUFFICES ASSUME ProbeInv, state = "half_open" PROVE Cardinality(Fresh) = 1
    BY DEF ProbeInv, OneProbePerOpening
  <2>1. PICK c \in Callers : Fresh = {c}
    BY DEF ProbeInv
  <2> QED BY <2>1, FS_Singleton
<1> QED BY <1>1, <1>2, <1>3, TypeCorrect, FieldsAlwaysAgree, PTL DEF Spec

===============================================================================
