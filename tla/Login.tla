--------------------------------- MODULE Login ---------------------------------
(***************************************************************************)
(* POST /auth behind the rate limiter: LocalAuthManager of core/auth.py,   *)
(* the endpoint of api/main.py, `python3 -m core.auth setup` in another    *)
(* process, and restarts of the server.                                    *)
(*                                                                         *)
(* A failure sleeps inside an async handler: until it wakes up the event   *)
(* loop serves nobody, and only time, the setup and a crash go on.  What   *)
(* a success does to the session table is in Sessions.                     *)
(***************************************************************************)
EXTENDS RateLimiter

CONSTANTS
  Passphrases,
  MaxAttempts,    \* MAX_ATTEMPTS
  BaseDelay,      \* BASE_DELAY_SECONDS, in ticks
  MaxDelay,       \* MAX_DELAY_SECONDS, in ticks
  Lockout,        \* LOCKOUT_DURATION_SECONDS, in ticks
  MaxSetups       \* bound: runs of the setup

ASSUME LoginConstants ==
  /\ {MaxAttempts, BaseDelay, MaxDelay, Lockout, MaxSetups} \subseteq Nat
  /\ MaxAttempts # 0

VARIABLES
  file,          \* auth.json: the passphrase whose hash it holds
  setting,       \* what a setup that has opened the file will write
  setups,        \* setups begun
  failed,        \* _failed_attempts
  lockedUntil,   \* _locked_until
  asleep,        \* the failure whose handler holds the event loop
  failures       \* history: when passphrases failed since the last success

account   == <<file, setting, setups>>
brake     == <<failed, lockedUntil, asleep, failures>>
loginVars == <<vars, account, brake>>

NoFile == "absent"
Torn   == "torn"           \* opened for writing, not yet written
Nobody == [until |-> 0]

LoginTypeOK ==
  /\ TypeOK
  /\ file \in {NoFile, Torn} \cup Passphrases
  /\ setting \in {NoFile} \cup Passphrases
  /\ setups \in 0 .. MaxSetups
  /\ failed \in Nat /\ lockedUntil \in Nat
  /\ asleep \in {Nobody} \cup [client : Clients, until : Nat]
  /\ failures \in Seq(0 .. MaxTime) /\ failed = Len(failures)

LoginInit ==
  /\ Init
  /\ file = NoFile /\ setting = NoFile /\ setups = 0
  /\ failed = 0 /\ lockedUntil = 0 /\ asleep = Nobody
  /\ failures = <<>>

-------------------------------------------------------------------------------
(* core/auth.py *)

Locked == lockedUntil > 0 /\ clock < lockedUntil

\* _get_delay() after n failures.
Delay(n) ==
  LET d == BaseDelay * 2 ^ (n - 1)
  IN IF n <= 1 THEN 0 ELSE IF d < MaxDelay THEN d ELSE MaxDelay

\* Mutant: one failure too many before the lock.
LockAfter_OneMore(n) == IF n > MaxAttempts THEN clock + Lockout ELSE lockedUntil

\* _locked_until after the n-th failure in a row.
LockAfter(n) == IF n >= MaxAttempts THEN clock + Lockout ELSE lockedUntil

Succeed ==
  /\ failed' = 0
  /\ failures' = <<>>
  /\ UNCHANGED <<lockedUntil, asleep>>

\* Without auth.json anybody is let in or, when authentication is required, nobody;
\* the counter is not touched.
Unconfigured(c) ==
  /\ file = NoFile
  /\ UNCHANGED brake

\* Mutant: a refusal during the lockout counts as a failure.
RefusedLocked_Counts(c) ==
  /\ file # NoFile /\ Locked
  /\ failed' = failed + 1 /\ lockedUntil' = LockAfter(failed + 1)
  /\ UNCHANGED <<asleep, failures>>

\* 401 during the lockout, before the passphrase is looked at.
RefusedLocked(c) ==
  /\ file # NoFile /\ Locked
  /\ UNCHANGED brake

\* 503: json.load() of what a setup has not finished writing.
Unreadable(c) ==
  /\ file = Torn /\ ~Locked
  /\ UNCHANGED brake

Match(c, p) ==
  /\ file = p /\ ~Locked
  /\ Succeed

\* Counted and locked before the sleep.
Mismatch(c, p) ==
  /\ file \in Passphrases \ {p} /\ ~Locked
  /\ failed' = failed + 1
  /\ failures' = Append(failures, clock)
  /\ lockedUntil' = LockAfter(failed + 1)
  /\ asleep' = [client |-> c, until |-> clock + Delay(failed + 1)]

-------------------------------------------------------------------------------
(* The server *)

\* POST /auth that the middleware lets through.
Authenticate(c, p) ==
  /\ asleep = Nobody
  /\ Serve(c)
  /\ \/ Unconfigured(c) \/ RefusedLocked(c) \/ Unreadable(c)
     \/ Match(c, p) \/ Mismatch(c, p)
  /\ UNCHANGED account

\* Any other request, and one the middleware refuses.
Other(c) ==
  /\ asleep = Nobody
  /\ RefusedGlobally(c) \/ RefusedByClient(c) \/ Serve(c)
  /\ UNCHANGED <<account, brake>>

\* The sleep is over: AUTH_FAILURE is recorded and 401 sent.
Wake ==
  /\ asleep # Nobody /\ clock >= asleep.until
  /\ asleep' = Nobody
  /\ UNCHANGED <<vars, account, failed, lockedUntil, failures>>

\* The process dies and is started again: nothing of this was stored.
Restart ==
  /\ stamps' = [t \in Tiers |-> <<>>] /\ served' = <<>>
  /\ refusal' = [c \in Clients |-> NoRefusal]
  /\ failed' = 0 /\ lockedUntil' = 0 /\ asleep' = Nobody /\ failures' = <<>>
  /\ UNCHANGED <<clock, account>>

\* setup(): open(path, "w"), then json.dump().
OpenForSetup(p) ==
  /\ setting = NoFile /\ setups < MaxSetups
  /\ file' = Torn /\ setting' = p /\ setups' = setups + 1
  /\ UNCHANGED <<vars, brake>>

WriteSetup ==
  /\ setting # NoFile
  /\ file' = setting /\ setting' = NoFile
  /\ UNCHANGED <<vars, brake, setups>>

\* The setup is killed between the two.
SetupDies ==
  /\ setting # NoFile
  /\ setting' = NoFile
  /\ UNCHANGED <<vars, brake, file, setups>>

LoginNext ==
  \/ \E c \in Clients : Other(c) \/ \E p \in Passphrases : Authenticate(c, p)
  \/ Wake \/ Restart
  \/ \E p \in Passphrases : OpenForSetup(p)
  \/ WriteSetup \/ SetupDies
  \/ Tick /\ UNCHANGED <<account, brake>>

LoginSpec == LoginInit /\ [][LoginNext]_loginVars

-------------------------------------------------------------------------------
(* Properties *)

\* Between two successes, in one life of the server, no stretch of Lockout sees
\* more than MaxAttempts passphrases compared and found wrong, whatever clients
\* send them and however long the failures before took (authenticate).
GuessesAreBounded ==
  \A i \in DOMAIN failures :
    Cardinality({j \in 1 .. i : failures[j] > failures[i] - Lockout}) <= MaxAttempts

\* Nobody is locked out by asking: a lock ends Lockout after the last passphrase
\* found wrong and takes MaxAttempts of them since the last success; what is
\* refused meanwhile, by the lock or by the rate limiter, neither lengthens the
\* lock nor counts.
LockIsEarned ==
  Locked => /\ Len(failures) >= MaxAttempts
            /\ lockedUntil = failures[Len(failures)] + Lockout
===============================================================================
