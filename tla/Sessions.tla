------------------------------- MODULE Sessions -------------------------------
(***************************************************************************)
(* API sessions: SessionManager of core/session.py and its use in          *)
(* api/main.py (POST /auth, the dependency _require_session, DELETE        *)
(* /session, GET /metrics), with clients behind a network that loses and   *)
(* delays replies and delivers a request twice.                            *)
(*                                                                         *)
(* The handlers run on one event loop and do not await between the         *)
(* validation of a token and their end; only time passes in between.       *)
(* Tokens are numbered as they are drawn: a drawn token is new, and since  *)
(* a session enters the dict, at its end, under a token just drawn, the    *)
(* dict is in the order of its tokens: a set of records stands for it.     *)
(***************************************************************************)
EXTENDS Integers, Sequences, FiniteSets

CONSTANTS
  Callers,        \* clients of the API
  Capacities,     \* settings of ONTO_MAX_SESSIONS
  IdleTimeout,    \* DEFAULT_TTL_SECONDS
  MaxLifetime,    \* MAX_LIFETIME_SECONDS
  MaxTokens,      \* bound: tokens drawn
  MaxWire,        \* bound: requests on their way
  LastTime        \* bound: now

ASSUME SessionConstants ==
  /\ Capacities \subseteq Nat \ {0}
  /\ IdleTimeout \in Nat /\ MaxLifetime \in Nat
  /\ MaxTokens \in Nat /\ MaxWire \in Nat /\ LastTime \in Nat

VARIABLES
  limit,      \* MAX_CONCURRENT_SESSIONS, read once from the environment
  sessions,   \* _sessions
  last,       \* _last_token, 0 for None
  drawn,      \* tokens drawn so far
  now,        \* time.time()
  loop,       \* the request being handled by the event loop
  wire,       \* requests on their way
  reply,      \* the answer on its way to each client
  pc, held,   \* each client: what it waits for, and the token it has
  lost,       \* history: clients that missed an answer since they logged in
  mine,       \* history: the session each client logged in to last
  started,    \* history: when each session was started
  uses,       \* history: requests each token has let in
  ended       \* history: sessions whose logout was answered

store   == <<limit, sessions, last, drawn>>
tokens  == <<limit, drawn>>
network == <<wire, reply>>
client  == <<pc, held>>
history == <<lost, mine, started, uses, ended>>
sessionVars == <<store, now, loop, network, client, history>>

Tokens == 0 .. MaxTokens           \* 0: no token
Kinds  == {"request", "logout", "scrape"}

\* A session is known by its first token.
SessionType == [token : Tokens, sid : Tokens, created : Nat, used : Nat]
RequestType == [client : Callers, token : Tokens, kind : Kinds]
ReplyType   == [ok : BOOLEAN, token : Tokens]

NoReply == [ok |-> FALSE, token |-> 0]
None    == [sid |-> 0]

Live == {s.token : s \in sessions}

SessionTypeOK ==
  /\ limit \in Capacities
  /\ sessions \subseteq SessionType
  /\ last \in Tokens /\ drawn \in Tokens
  /\ now \in 0 .. LastTime
  /\ loop \in {None} \cup [request : RequestType, sid : Tokens \ {0}, at : Nat]
  /\ wire \subseteq RequestType
  /\ reply \in [Callers -> {<<>>} \cup {<<r>> : r \in ReplyType}]
  /\ pc \in [Callers -> {"ready"} \cup Kinds]
  /\ held \in [Callers -> Tokens]
  /\ Live \subseteq 1 .. drawn /\ (last # 0 => last <= drawn)

SessionInit ==
  /\ limit \in Capacities
  /\ sessions = {} /\ last = 0 /\ drawn = 0
  /\ now = 0
  /\ loop = None
  /\ wire = {} /\ reply = [c \in Callers |-> <<>>]
  /\ pc = [c \in Callers |-> "ready"] /\ held = [c \in Callers |-> 0]
  /\ lost = {} /\ mine = [c \in Callers |-> 0]
  /\ started = [t \in Tokens |-> 0] /\ uses = [t \in Tokens |-> 0]
  /\ ended = {}

-------------------------------------------------------------------------------
(* core/session.py *)

Expired(s) == now - s.used > IdleTimeout \/ now > s.created + MaxLifetime

\* _purge_expired.
Purged == {s \in sessions : ~Expired(s)}

Without(ss, token) == {s \in ss : s.token # token}

Has(ss, token) == \E s \in ss : s.token = token

Get(ss, token) == CHOOSE s \in ss : s.token = token

\* _last_token after the sessions other than those in ss are gone.
LastIn(ss) == IF Has(ss, last) THEN last ELSE 0

\* min() over the dict: of those with the earliest created_at the first.
Oldest(ss) ==
  CHOOSE s \in ss : \A r \in ss :
    s.created < r.created \/ (s.created = r.created /\ s.token <= r.token)

\* start(): at capacity one session, the oldest, is superseded.
MakeRoom(ss) == IF Cardinality(ss) >= limit THEN ss \ {Oldest(ss)} ELSE ss

Start ==
  /\ drawn < MaxTokens
  /\ drawn' = drawn + 1
  /\ sessions' = MakeRoom(Purged) \cup {[token |-> drawn', sid |-> drawn',
                                          created |-> now, used |-> now]}
  /\ last' = drawn'

\* validate() of a token it knows; requests carry no fingerprint.
Touch(token) ==
  /\ sessions' = {IF s.token = token THEN [s EXCEPT !.used = now] ELSE s : s \in Purged}
  /\ last' = LastIn(Purged)
  /\ UNCHANGED tokens

\* Mutant: a rotated session starts a new life.
Rotated_NewLife(s, token) == [s EXCEPT !.token = token, !.created = now]

\* Mutant: the old token stays the key of the session.
Rotated_SameToken(s, token) == s

\* The record under its new token; created_at is kept.
Rotated(s, token) == [s EXCEPT !.token = token]

\* _last_token when old has become new.
LastAfter(old, new) == IF last = old THEN new ELSE LastIn(Purged)

\* active_session(): the first one in the dict that has not expired, 0 if none.
ActiveToken(ss) ==
  LET fresh == {s \in ss : ~Expired(s)}
  IN IF fresh = {} THEN 0
     ELSE CHOOSE t \in {s.token : s \in fresh} : \A s \in fresh : t <= s.token

-------------------------------------------------------------------------------
(* api/main.py *)

\* The answer to m reaches the client if it still waits for it.
Answer(m, r) ==
  LET c == m.client
  IN reply' = IF pc[c] = m.kind /\ held[c] = m.token /\ reply[c] = <<>>
              THEN [reply EXCEPT ![c] = <<r>>]
              ELSE reply

\* POST /auth with the right passphrase; its answer may be lost.
Login(c) ==
  /\ loop = None /\ pc[c] = "ready"
  /\ Start
  /\ mine' = [mine EXCEPT ![c] = drawn']
  /\ started' = [started EXCEPT ![drawn'] = now]
  /\ \/ held' = [held EXCEPT ![c] = drawn'] /\ lost' = lost \ {c}
     \/ held' = [held EXCEPT ![c] = 0]      /\ lost' = lost \cup {c}
  /\ UNCHANGED <<limit, now, loop, network, pc, uses, ended>>

\* POST /auth with a wrong passphrase starts nothing.
LoginRefused(c) ==
  /\ loop = None /\ pc[c] = "ready"
  /\ UNCHANGED sessionVars

\* A request arrives; it may arrive again.
Arrive(m) == wire' = wire \/ wire' = wire \ {m}

\* 401: the token is not there.
Reject(m) ==
  /\ loop = None
  /\ ~Has(Purged, m.token)
  /\ sessions' = Purged /\ last' = LastIn(Purged)
  /\ Answer(m, NoReply)
  /\ Arrive(m)
  /\ UNCHANGED <<tokens, now, loop, client, history>>

\* GET /metrics validates the token and does not rotate it.
Scrape(m) ==
  /\ loop = None
  /\ m.kind = "scrape" /\ Has(Purged, m.token)
  /\ Touch(m.token)
  /\ Answer(m, [ok |-> TRUE, token |-> m.token])
  /\ Arrive(m)
  /\ UNCHANGED <<now, loop, client, history>>

\* _require_session up to validate().
Validate(m) ==
  /\ loop = None
  /\ m.kind # "scrape" /\ Has(Purged, m.token)
  /\ drawn < MaxTokens
  /\ Touch(m.token)
  /\ loop' = [request |-> m, sid |-> Get(Purged, m.token).sid, at |-> now]
  /\ uses' = [uses EXCEPT ![m.token] = @ + 1]
  /\ Arrive(m)
  /\ UNCHANGED <<now, reply, client, lost, mine, started, ended>>

\* Mutant: logout ends the session of the token it was given.
LogoutToken_Given(ss) == loop.request.token

\* The token logout() ends: that of active_session().
LogoutToken(ss) == ActiveToken(ss)

\* Mutant: the client gets the token it sent.
NewToken_Sent == loop.request.token

\* The token in X-Session-Token; the answer to a logout has no such header.
NewToken == drawn + 1

\* The rest of the request when the session is still there: rotate(), then the
\* body of the endpoint, then the answer.
Finish ==
  LET m     == loop.request
      after == Without(Purged, m.token) \cup {Rotated(Get(Purged, m.token), drawn + 1)}
      gone  == LogoutToken(after)
  IN /\ loop # None /\ Has(Purged, m.token)
     /\ drawn' = drawn + 1
     /\ IF m.kind = "logout"
        THEN /\ sessions' = Without(after, gone)
             /\ last' = IF LastAfter(m.token, drawn') = gone THEN 0
                        ELSE LastAfter(m.token, drawn')
             /\ ended' = ended \cup {loop.sid}
        ELSE /\ sessions' = after
             /\ last' = LastAfter(m.token, drawn')
             /\ UNCHANGED ended
     /\ Answer(m, [ok    |-> TRUE,
                    token |-> IF m.kind = "logout" THEN 0 ELSE NewToken])
     /\ loop' = None
     /\ UNCHANGED <<limit, now, wire, client, lost, mine, started, uses>>

\* The session expired after validate(): rotate() returns None, the request is
\* served all the same and its answer carries no token.
FinishExpired ==
  LET m    == loop.request
      gone == IF m.kind = "logout" THEN ActiveToken(Purged) ELSE 0
  IN /\ loop # None /\ ~Has(Purged, m.token)
     /\ sessions' = Without(Purged, gone)
     /\ last' = IF LastIn(Purged) = gone THEN 0 ELSE LastIn(Purged)
     /\ ended' = IF m.kind = "logout" THEN ended \cup {loop.sid} ELSE ended
     /\ Answer(m, [ok |-> TRUE, token |-> 0])
     /\ loop' = None
     /\ UNCHANGED <<tokens, now, wire, client, lost, mine, started, uses>>

-------------------------------------------------------------------------------
(* Callers, network and time *)

Send(c, kind) ==
  /\ pc[c] = "ready" /\ held[c] # 0
  /\ Cardinality(wire) < MaxWire
  /\ pc' = [pc EXCEPT ![c] = kind]
  /\ wire' = wire \cup {[client |-> c, token |-> held[c], kind |-> kind]}
  /\ reply' = [reply EXCEPT ![c] = <<>>]
  /\ UNCHANGED <<store, now, loop, held, history>>

Receive(c) ==
  /\ pc[c] # "ready" /\ reply[c] # <<>>
  /\ pc' = [pc EXCEPT ![c] = "ready"]
  /\ held' = [held EXCEPT ![c] = reply[c][1].token]
  /\ reply' = [reply EXCEPT ![c] = <<>>]
  /\ UNCHANGED <<store, now, loop, wire, history>>

\* The client times out, or the server's own timeout answers 503: the token of
\* the answer is lost, the request may still be on its way.
GiveUp(c) ==
  /\ pc[c] # "ready"
  /\ pc' = [pc EXCEPT ![c] = "ready"]
  /\ reply' = [reply EXCEPT ![c] = <<>>]
  /\ lost' = lost \cup {c}
  /\ UNCHANGED <<store, now, loop, wire, held, mine, started, uses, ended>>

SessionTick ==
  /\ now < LastTime
  /\ now' = now + 1
  /\ UNCHANGED <<store, loop, network, client, history>>

SessionNext ==
  \/ \E c \in Callers :
       \/ Login(c) \/ LoginRefused(c) \/ Receive(c) \/ GiveUp(c)
       \/ \E kind \in Kinds : Send(c, kind)
  \/ \E m \in wire : Reject(m) \/ Scrape(m) \/ Validate(m)
  \/ Finish \/ FinishExpired
  \/ SessionTick

SessionSpec == SessionInit /\ [][SessionNext]_sessionVars

-------------------------------------------------------------------------------
(* Properties *)

\* A token lets at most one request in that acts (GET /metrics only reads): a
\* request delivered twice, or sent again after its answer was lost, is rejected
\* the second time.
TokenUsedOnce == \A t \in Tokens : uses[t] <= 1

\* Rotation does not prolong a session: no request is let in later than
\* MAX_LIFETIME after the login its session began with.
LifetimeNotExtended ==
  loop # None => loop.at <= started[loop.sid] + MaxLifetime

\* There are never more sessions than allowed, and each has its own token.
SessionsBounded ==
  /\ Cardinality(sessions) <= limit
  /\ \A s, r \in sessions : s # r => s.token # r.token

\* A client that missed no answer is never locked out of a session that goes on:
\* the token it holds is the session's current one.
ClientKeepsUp ==
  \A c \in Callers :
    (pc[c] = "ready" /\ c \notin lost /\ held[c] # 0) =>
      \A s \in sessions : s.sid = mine[c] => s.token = held[c]

\* is_active(): _last_token always names a session that is there.
LastTokenIsLive == last # 0 => last \in Live

\* Rotation, expiry and supersession keep the table lawful: a rotated session
\* lives no longer, no more sessions live than may, and is_active() answers for
\* one of them.
SessionsStayInBounds == LifetimeNotExtended /\ SessionsBounded /\ LastTokenIsLive

\* With one session at a time, a session whose logout was answered is gone, even
\* if it expires between validate() and the end.
LoneLogoutEndsIt ==
  limit = 1 => \A s \in sessions : s.sid \notin ended

-------------------------------------------------------------------------------
(* A claim of the documentation that the code does not meet *)

\* logout(): "Explicitly end the current session.  The token is immediately
\* invalidated": whatever ONTO_MAX_SESSIONS, a session whose logout was answered
\* is gone.
LogoutEndsOwnSession == \A s \in sessions : s.sid \notin ended
===============================================================================
