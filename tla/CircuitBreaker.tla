---------------------------- MODULE CircuitBreaker ----------------------------
(***************************************************************************)
(* Outbound calls to federation peers: resilient_call of                   *)
(* api/federation/network_resilience.py, the breaker of                    *)
(* api/federation/circuit_breaker.py it consults, and the way              *)
(* InternetAdapter._post chooses that breaker.                             *)
(*                                                                         *)
(* _post looks its breaker up under payload["sender_did"], the DID of this *)
(* node, so that one breaker serves the calls to all peers.  Each breaker  *)
(* method runs under the breaker's lock; the network call between          *)
(* before_call and on_success or on_failure does not, so calls let through *)
(* in one state of the breaker come back in another.                       *)
(***************************************************************************)
EXTENDS Integers, FiniteSets

CONSTANTS
  Callers,        \* threads that send
  Peers,          \* peers they send to
  Threshold,      \* CIRCUIT_BREAKER_FAILURE_THRESHOLD
  Recovery,       \* CIRCUIT_BREAKER_RECOVERY_SECONDS
  MaxAttempts,    \* RETRY_MAX_ATTEMPTS
  MaxTime         \* bound: clock

ASSUME BreakerConstants ==
  /\ Threshold \in Nat \ {0}
  /\ Recovery \in Nat
  /\ MaxAttempts \in Nat \ {0}
  /\ MaxTime \in Nat

VARIABLES
  state, failures, openedAt, probe,   \* the fields of PeerCircuitBreaker
  clock,                              \* time.monotonic()
  pc, peer, attempt,                  \* each caller's resilient_call
  stale,    \* history: the breaker changed state since this call was let through
  failed    \* history: peers to which a call has failed

breaker == <<state, failures, openedAt, probe>>
calls   == <<pc, peer, attempt>>
vars    == <<breaker, clock, calls, stale, failed>>

Never == -1       \* _opened_at is None

TypeOK ==
  /\ state \in {"closed", "open", "half_open"}
  /\ failures \in Nat
  /\ openedAt \in 0 .. MaxTime \cup {Never}
  /\ probe \in BOOLEAN
  /\ clock \in 0 .. MaxTime
  /\ pc \in [Callers -> {"idle", "before", "call", "sleep", "refused"}]
  /\ peer \in [Callers -> Peers]
  /\ attempt \in [Callers -> 0 .. MaxAttempts]
  /\ stale \in [Callers -> BOOLEAN]
  /\ failed \subseteq Peers

Init ==
  /\ state = "closed" /\ failures = 0 /\ openedAt = Never /\ probe = FALSE
  /\ clock = 0
  /\ pc = [c \in Callers |-> "idle"]
  /\ peer \in [Callers -> Peers]
  /\ attempt = [c \in Callers |-> 0]
  /\ stale = [c \in Callers |-> FALSE]
  /\ failed = {}

-------------------------------------------------------------------------------
(* The breaker.  Every change of its state leaves the calls on their way behind *)

AllStale == stale' = [c \in Callers |-> TRUE]

\* Mutant: no one remembers that a probe is on its way.
Admit_AnyProbe ==
  \/ /\ state = "closed"
     /\ UNCHANGED breaker
  \/ /\ state = "open" /\ clock - openedAt >= Recovery
     /\ state' = "half_open" /\ probe' = TRUE
     /\ UNCHANGED <<failures, openedAt>>
  \/ /\ state = "half_open"
     /\ UNCHANGED breaker

\* before_call() returns.
Admit ==
  \/ /\ state = "closed"
     /\ UNCHANGED breaker
  \/ /\ state = "open" /\ clock - openedAt >= Recovery
     /\ state' = "half_open" /\ probe' = TRUE
     /\ UNCHANGED <<failures, openedAt>>
  \/ /\ state = "half_open" /\ ~probe
     /\ probe' = TRUE
     /\ UNCHANGED <<state, failures, openedAt>>

\* before_call() raises CircuitOpen.
Refuses ==
  \/ state = "open" /\ clock - openedAt < Recovery
  \/ state = "half_open" /\ probe

\* on_success() and reset().
Close ==
  /\ state' = "closed" /\ failures' = 0 /\ openedAt' = Never /\ probe' = FALSE
  /\ IF state = "closed" THEN UNCHANGED stale ELSE AllStale

\* Mutant: the counter starts again at each opening.
CountFailure_Restart ==
  LET opens == state # "open" /\ failures + 1 >= Threshold
  IN /\ failures' = IF opens THEN 0 ELSE failures + 1
     /\ probe' = FALSE
     /\ state' = IF opens THEN "open" ELSE state
     /\ openedAt' = IF opens THEN clock ELSE openedAt
     /\ IF opens THEN AllStale ELSE UNCHANGED stale

\* Mutant: only a closed breaker opens, a failed probe changes nothing.
CountFailure_ClosedOnly ==
  LET opens == state = "closed" /\ failures + 1 >= Threshold
  IN /\ failures' = failures + 1
     /\ state' = IF opens THEN "open" ELSE state
     /\ openedAt' = IF opens THEN clock ELSE openedAt
     /\ IF opens THEN AllStale ELSE UNCHANGED stale
     /\ UNCHANGED probe

\* on_failure().
CountFailure ==
  LET opens == state # "open" /\ failures + 1 >= Threshold
  IN /\ failures' = failures + 1
     /\ probe' = FALSE
     /\ state' = IF opens THEN "open" ELSE state
     /\ openedAt' = IF opens THEN clock ELSE openedAt
     /\ IF opens THEN AllStale ELSE UNCHANGED stale

-------------------------------------------------------------------------------
(* resilient_call *)

\* RetryPolicy.should_retry.
ShouldRetry(n) == n < MaxAttempts

Send(c, p) ==
  /\ pc[c] = "idle"
  /\ pc' = [pc EXCEPT ![c] = "before"]
  /\ peer' = [peer EXCEPT ![c] = p]
  /\ attempt' = [attempt EXCEPT ![c] = 1]
  /\ UNCHANGED <<breaker, clock, stale, failed>>

BeforeCall(c) ==
  /\ pc[c] = "before"
  /\ \/ /\ Admit
        /\ pc' = [pc EXCEPT ![c] = "call"]
        /\ stale' = [stale EXCEPT ![c] = FALSE]
     \/ /\ Refuses
        /\ pc' = [pc EXCEPT ![c] = "refused"]
        /\ UNCHANGED <<breaker, stale>>
  /\ UNCHANGED <<clock, peer, attempt, failed>>

\* CircuitOpen reaches the caller of resilient_call.
Refused(c) ==
  /\ pc[c] = "refused"
  /\ pc' = [pc EXCEPT ![c] = "idle"]
  /\ UNCHANGED <<breaker, clock, peer, attempt, stale, failed>>

Succeed(c) ==
  /\ pc[c] = "call"
  /\ Close
  /\ pc' = [pc EXCEPT ![c] = "idle"]
  /\ UNCHANGED <<clock, peer, attempt, failed>>

\* The call fails or times out; the last attempt raises, the others sleep.
Fail(c) ==
  /\ pc[c] = "call"
  /\ CountFailure
  /\ failed' = failed \cup {peer[c]}
  /\ \/ /\ ShouldRetry(attempt[c])
        /\ pc' = [pc EXCEPT ![c] = "sleep"]
     \/ /\ ~ShouldRetry(attempt[c])
        /\ pc' = [pc EXCEPT ![c] = "idle"]
  /\ UNCHANGED <<clock, peer, attempt>>

\* The backoff ends, after any time: the delay is drawn from 0 up.
Retry(c) ==
  /\ pc[c] = "sleep"
  /\ pc' = [pc EXCEPT ![c] = "before"]
  /\ attempt' = [attempt EXCEPT ![c] = @ + 1]
  /\ UNCHANGED <<breaker, clock, peer, stale, failed>>

\* An operator resets the breaker.
Reset ==
  /\ state # "closed"
  /\ Close
  /\ UNCHANGED <<clock, calls, failed>>

Tick ==
  /\ clock < MaxTime
  /\ clock' = clock + 1
  /\ UNCHANGED <<breaker, calls, stale, failed>>

Next ==
  \/ \E c \in Callers :
       \/ \E p \in Peers : Send(c, p)
       \/ BeforeCall(c) \/ Refused(c) \/ Succeed(c) \/ Fail(c) \/ Retry(c)
  \/ Reset
  \/ Tick

Spec == Init /\ [][Next]_vars

\* Every network call ends, by its timeout at the latest.
CallsEnd == \A c \in Callers : WF_vars(Succeed(c) \/ Fail(c))

FairSpec == Spec /\ CallsEnd

-------------------------------------------------------------------------------
(* Properties *)

\* The fields agree with each other: a closed breaker is below its threshold, any
\* other has reached it, and a half-open breaker always has its probe on the
\* way.  A failed probe therefore always opens the breaker again, and the
\* branch of before_call for a half-open breaker without a probe never runs.
FieldsAgree ==
  /\ state = "closed" <=> failures < Threshold
  /\ state = "closed" <=> openedAt = Never
  /\ state = "half_open" <=> probe

\* Calls let through since the breaker last changed to open or closed.
Fresh == {c \in Callers : pc[c] = "call" /\ ~stale[c]}

\* An open breaker has let nothing through since it opened; a half-open breaker has
\* let exactly one call through, its probe.
OneProbePerOpening ==
  /\ state = "open" => Fresh = {}
  /\ state = "half_open" => Cardinality(Fresh) = 1

\* A half-open breaker is resolved: no interleaving of late answers leaves it
\* refusing every call for ever.
HalfOpenIsResolved == state = "half_open" ~> state # "half_open"

-------------------------------------------------------------------------------
(* Claims of the documentation that the code does not meet *)

\* circuit_breaker.py: "OPEN - calls blocked; re-tried after recovery_seconds":
\* an open breaker closes or lets a call through only after recovery_seconds.
StaysOpenForRecovery ==
  [][ (state = "open" /\ state' # "open") =>
        clock - openedAt >= Recovery \/ pc' = pc ]_vars

\* circuit_breaker.py: "one circuit breaker per peer DID": a call to a peer is refused
\* only after a call to that peer has failed.
RefusedPeerHasFailed ==
  \A c \in Callers : pc[c] = "refused" => peer[c] \in failed
===============================================================================
