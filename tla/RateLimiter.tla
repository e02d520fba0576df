------------------------------ MODULE RateLimiter ------------------------------
(***************************************************************************)
(* The two sliding windows of core/ratelimit.py and the middleware of      *)
(* api/main.py that asks them in turn.  check_and_record() holds the       *)
(* limiter's lock, and the middleware does not await between the two       *)
(* calls, so a request is one step; clients and time interleave.           *)
(*                                                                         *)
(* There is one object per tier: the "per-client" limiter is a singleton   *)
(* that all clients share.                                                 *)
(***************************************************************************)
EXTENDS Integers, Sequences, FiniteSets

CONSTANTS
  Clients,
  Limits,      \* limit of each tier, 0 for none
  Window,      \* RATE_LIMIT_WINDOW_SECONDS, in ticks of the clock
  Second,      \* ticks of the clock in a second
  MaxTime      \* bound: clock

Tiers == {"global", "client"}

ASSUME RateLimiterConstants ==
  /\ Limits \in [Tiers -> Nat]
  /\ Window \in Nat /\ Second \in Nat \ {0} /\ MaxTime \in Nat

VARIABLES
  stamps,    \* _timestamps of each tier
  clock,     \* time.monotonic()
  served,    \* history: time and client of every request let through
  refusal    \* history: the last refusal of each client, and its advice

vars == <<stamps, clock, served, refusal>>

NoRefusal == [tier |-> "none"]

TypeOK ==
  /\ stamps \in [Tiers -> Seq(0 .. MaxTime)]
  /\ clock \in 0 .. MaxTime
  /\ served \in Seq([at : 0 .. MaxTime, client : Clients])
  /\ refusal \in [Clients -> {NoRefusal} \cup
                    [tier : Tiers, at : 0 .. MaxTime, until : Nat, mark : Nat]]

Init ==
  /\ stamps = [t \in Tiers |-> <<>>]
  /\ clock = 0
  /\ served = <<>>
  /\ refusal = [c \in Clients |-> NoRefusal]

\* Mutant: a stamp exactly one window old is dropped.
Kept_Closed(s) == s > clock - Window

\* A stamp that stays in the deque.
Kept(s) == s >= clock - Window

\* Where popleft() stops: at the first stamp in the window, or past the last one.
FirstKept(s) ==
  CHOOSE k \in 1 .. Len(s) + 1 :
    /\ \A j \in 1 .. k - 1 : ~Kept(s[j])
    /\ k \in DOMAIN s => Kept(s[k])

\* The deque after the stamps outside the window were removed from its left.
Recent(t) == SubSeq(stamps[t], FirstKept(stamps[t]), Len(stamps[t]))

Full(t) == Limits[t] # 0 /\ Len(Recent(t)) >= Limits[t]

\* The deque after the request was let through; a disabled tier keeps none.
Recorded(t) == IF Limits[t] = 0 THEN stamps[t] ELSE Append(Recent(t), clock)

\* Mutant: the seconds are not rounded up.
Wait_Down(t) == ((Window - (clock - Recent(t)[1])) \div Second) * Second

\* int(window - (now - oldest)) + 1 seconds.
Wait(t) == ((Window - (clock - Recent(t)[1])) \div Second + 1) * Second

Refuse(c, t) ==
  refusal' = [refusal EXCEPT ![c] = [tier |-> t, at |-> clock,
                                     until |-> clock + Wait(t), mark |-> Len(served)]]

\* 429 of the first tier: nothing is recorded.
RefusedGlobally(c) ==
  /\ Full("global")
  /\ stamps' = [stamps EXCEPT !["global"] = Recent("global")]
  /\ Refuse(c, "global")
  /\ UNCHANGED <<clock, served>>

\* 429 of the second tier: the first one has recorded the request.
RefusedByClient(c) ==
  /\ ~Full("global") /\ Full("client")
  /\ stamps' = [global |-> Recorded("global"), client |-> Recent("client")]
  /\ Refuse(c, "client")
  /\ UNCHANGED <<clock, served>>

Serve(c) ==
  /\ ~Full("global") /\ ~Full("client")
  /\ stamps' = [t \in Tiers |-> Recorded(t)]
  /\ served' = Append(served, [at |-> clock, client |-> c])
  /\ UNCHANGED <<clock, refusal>>

Tick ==
  /\ clock < MaxTime
  /\ clock' = clock + 1
  /\ UNCHANGED <<stamps, served, refusal>>

Next ==
  \/ \E c \in Clients : RefusedGlobally(c) \/ RefusedByClient(c) \/ Serve(c)
  \/ Tick

Spec == Init /\ [][Next]_vars

-------------------------------------------------------------------------------
(* Properties *)

\* The requests let through in the window that ends with the i-th one.
InWindowOf(i) ==
  {j \in 1 .. i : served[j].at >= served[i].at - Window}

\* No window, wherever it ends, has let more requests through than a limit allows.
WindowNeverExceeded ==
  \A t \in Tiers, i \in DOMAIN served :
    Limits[t] # 0 => Cardinality(InWindowOf(i)) <= Limits[t]

\* The second tier refuses only when it is really full: as many requests as it allows
\* were let through in the last window.  Its own refusals do not count.
RefusedOnlyWhenFull ==
  \A c \in Clients :
    LET r == refusal[c]
    IN r.tier = "client" =>
         Cardinality({j \in 1 .. r.mark : served[j].at >= r.at - Window})
           >= Limits["client"]

\* "Please wait approximately n second(s)": after n seconds in which no other request
\* was let through, the second tier lets the client through.
WaitIsEnough ==
  \A c \in Clients :
    LET r == refusal[c]
    IN (r.tier = "client" /\ clock >= r.until /\ Len(served) = r.mark) => ~Full("client")

\* A client refused by the second tier was refused with reason and is told a time
\* that suffices (check_and_record and the middleware's message).
RefusalsAreTrue == RefusedOnlyWhenFull /\ WaitIsEnough

-------------------------------------------------------------------------------
(* A claim of the documentation that the code does not meet *)

\* rate_limit_middleware: "Per-client limit: Standard sliding window per caller": a
\* client is refused by it only for requests of its own.
RefusedForOwnRequests ==
  \A c \in Clients :
    LET r == refusal[c]
    IN r.tier = "client" =>
         \E j \in 1 .. r.mark : served[j].client = c /\ served[j].at >= r.at - Window
===============================================================================
