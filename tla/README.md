# ONTO: specifications, model checking and proofs

TLA+ specifications of the ONTO Ontological Context System (`src/`), the TLC
configurations that check them on small instances, and proofs, checked by TLAPS, of
what holds for every value of the constants.  Paths below are relative to `src/`.

Every definition is translated from the source; where a document and the code
differ, the model follows the code and the difference is listed under *Findings*.

## 1. The system

ONTO takes a text, finds its context in a graph of concepts, surfaces it to a person
at a checkpoint, and records what happened in a permanent audit trail.  It runs as an
interactive loop (`main.py`), as an HTTP API (`api/main.py`, one event loop) and as an
MCP server (`api/onto_server.py`); nodes may federate (`api/federation/`).  All parts
share one SQLite file.

### Components

| component | code | state it keeps | operations | what makes it correct |
|---|---|---|---|---|
| audit trail | `modules/memory.py` | table `events`, each row with the hash of the one before it; triggers forbid change | record, query, export, verify (whole chain, tail), prune payloads | append only; links point to earlier rows; changes are detected; sensitive reads leave a trace; exports are complete |
| consent ledger and gate | `api/consent/` | table of consents, counter of the status list, its lock | grant, check, revoke (with cascade), decide | a yes rests on a consent in force; barriers are absolute; indexes are not shared; revocations are final |
| circuit breaker, retries | `api/federation/circuit_breaker.py`, `network_resilience.py`, `internet.py` | state, failures, opening time, probe flag | before_call, on_success, on_failure, reset; resilient_call | fields agree; one probe per opening; a half-open breaker is resolved |
| API sessions | `core/session.py`, `api/main.py` | dict of records by token, last token | start, validate, rotate, terminate | a token acts once; rotation does not lengthen a life; capacity holds; a client that missed no answer is not locked out |
| database file | `main.py`, `core/encryption.py`, `core/auth.py` | permanent, session and temporary file, key | boot, decrypt, encrypt, move, setup | no crash costs a saved record; nothing is left in plain text |
| rate limiters | `core/ratelimit.py`, `api/main.py` | a deque of times per tier | check_and_record | no window is exceeded; refusals and waits are justified |
| relationship graph | `modules/graph.py` | nodes, edges, PPMI counters, totals; a matrix cached in memory | relate, navigate, compute_ppr, prune, decay, wipe | references hold; cache and rows agree; traversal finds the neighbourhood |
| authentication | `core/auth.py` | auth.json, attempts, lockout | setup, authenticate | guesses are bounded; only failures lock |
| request pipeline, checkpoint | `api/main.py`, `modules/checkpoint.py`, `intake.py`, `contextualize.py`, `surface.py` | the replaced `_ask_human` | process, the loop, data_erasure | flagged text never passes alone; every answer has its record; the gate is put back; a veto is honoured |
| federation consents | `api/federation/consent.py` | table with a hash chain | grant, revoke, reconfirm, is_valid | what is invalid stays so; the chain breaks only where calls overlapped |
| federation exchange | `api/federation/local.py`, `audit.py`, `safety.py` | outbox, inbox, trust | can_share, share, receive, recall | taken in order, none skipped, once, under a consent; an id returned means accepted |
| replicated data types | `api/federation/crdt.py`, `LocalAdapter.merge` | sets, registers, counters, vector clocks | add, remove, set, merge | no update is lost or counted twice, and no write of a concept is dropped unreported, in any order of merges |
| certificate pinning | `api/federation/peer_store.py` | table of pins | pin, approve, remove | one of several pins wins, and stays |
| federation lifecycle | `api/federation/manager.py`, `node_identity.py`, `intranet.py`, `internet.py` | adapter, server, key file, DID, known peers | start, stop, handshake, discovery | a start is whole or nothing; one identity; only a handshake moves an address |
| examination, structured intake, configuration, principles seal, metrics, DHT, MCP tools | see `PROJECT.json` | none, or counters nobody reads back | | |

### How they interact

* The API and the loop call the pipeline; each of its steps writes records to the audit
  trail.  `navigate` asks the consent gate (and goes on without it when it fails).
* Several threads and processes write the audit trail and the ledger through their own
  SQLite connections: each statement, or `with conn` block, is a transaction, and calls
  of several transactions interleave.
* The graph has one lock for each process; its cache is invalidated after the lock
  was released.
* The API's handlers run on one event loop.  Between two awaits they do not interleave,
  but time passes: what was valid when asked may have expired when used.
* The database file is decrypted at boot and encrypted at shutdown; a process may die, or
  a step may raise, at any point of either.
* A node answers each federation request in a thread of its own over connections in
  autocommit; the sender may time out and post again while the first post is handled.
  The number of a message on the wire is the row of the sender's outbox.
* `/process` answers `pending_checkpoint` and keeps nothing: the client sends the text
  again with a decision and the whole pipeline runs again, over the graph as it is then.
* Outbound federation calls are let through by a breaker, leave the lock, and come back
  when the breaker may be in another state.

### What is hard

Interleaved transactions (audit trail, ledger), answers that arrive late or never
(breaker, sessions), death between two file operations (database file), work done after
the lock was released (graph cache), a transaction in which one statement fails
(decay), expiry between two reads of a clock (sessions, gate), windows at their limit
(limiters, lockout), messages lost and repeated (exchange), snapshots merged in any order
(replicas), a start that fails half way (federation), records that cannot be written
(pipeline).  `PROJECT.json` lists these hazards one by one with their lines and the
properties aimed at them.

## 2. Modules

| module | models | composed with |
|---|---|---|
| `AuditLog` | abstract: an append-only log with erasable payloads | |
| `AuditChain` | `modules/memory.py` | implements `AuditLog` by a refinement mapping |
| `ConsentLedger` | ledger, status list and gate | |
| `CircuitBreaker` | breaker, `resilient_call`, `_post` | |
| `Sessions` | `SessionManager`, endpoints, clients, network | |
| `SessionDb` | boot, shutdown, encryption of the file | |
| `RateLimiter` | both tiers and the middleware | |
| `Login` | `POST /auth`, lockout, backoff, setup | extends `RateLimiter`: logins pass its tiers |
| `Graph` | graph, cache, boot repair | |
| `Pipeline` | `/process`, the loop, checkpoint, erasure | two processes, one trail and graph |
| `FedConsent` | federation consents | extended by the two below |
| `FedDelivery` | abstract: messages taken in order, offered under a consent | |
| `FedExchange` | share, receive, recall, outbox, inbox, network | extends `FedConsent`, implements `FedDelivery` |
| `FedNode` | life cycle, identity, pins, known peers | extends `FedConsent` |
| `Crdt` | replicated data types and `merge` | beside `FedNode` in `MCFedNode` |
| `MC*` | instances of these for TLC | |
| `AuditChain_Proofs`, `ConsentLedger_Proofs`, `CircuitBreaker_Proofs`, `SessionDb_Proofs`, `Graph_Proofs`, `Pipeline_Proofs` | theorems about the module of that name | |
| `Api_Proofs` | theorems about `Login` (with `RateLimiter`) and `Sessions` | |
| `Federation_Proofs` | theorems about `FedExchange` and `FedNode` (with `FedConsent`) and `Crdt` | |

Operators named `X_Y` with a comment that begins with "Mutant" are variants of `X` with
a plausible bug; `PROJECT.json` says which property each of them breaks.  They are not
part of any specification.

### AuditChain

`events` is the table; a row keeps its kind, classification, time, the state of its
payload and `link`, the hash of the row before it.  A hash is the id and payload state it
was computed from: SHA-256 is taken as injective.  `Record`, `ReadTail` and `Insert` are
`record()`: the last row is read in autocommit and the row inserted in a later
transaction, so two callers may read the same tail.  `Query`, `Export`, `Page`, `Turn`
and `Done` are `query`, `export_personal_data` and their READ_ACCESS records, which go
through the same three steps.  `Prune` is `prune_payload_by_age`, whose UPDATE is one
transaction and whose RETENTION_PRUNED record is a later call.  `Walk`/`Gaps` and
`TailGaps` are `verify_chain` and `verify_chain_tail`.  `Alter` changes the file behind
the program's back.  `Crash` drops a call at any point.

`AuditLog` is what a reader of "memory is permanent" expects: rows are only added, and the
fixed part of a row never changes.

### ConsentLedger

Rows of the ledger carry the offer as granted, time, index and status.  `Grant`,
`AllocateRead`, `AllocateWrite`, `InsertRow`, `InsertFails` are `grant()` with
`allocate_index()` under the status list's lock, one per process; `Revoke`,
`RevokeWrite`, `Revoked` are `revoke()`, whose status is read before `BEGIN IMMEDIATE`
and whose cascade goes one level; `Decide`, `Find`, `Judge`, `Decided` are the gate and
`check()`, two reads with time in between.  `mode` and `profile` are settings of the
deployment, chosen at the start and constant.  `known`, `how`, `receipts`, `since`,
`dead` and `optedOut` are history.  The ledger's audit records are left to AuditChain:
their failure is swallowed and nothing in the ledger reads them.

### CircuitBreaker

The four fields of `PeerCircuitBreaker`, and each caller's `resilient_call`: `BeforeCall`
and the lock around it, then the network call without it, then `Succeed` or `Fail`,
`Retry` after the backoff.  `stale` marks calls let through before the last change to
open or closed.  One breaker for all peers, because `_post` looks it up under the
sender's own DID.

### Sessions

`sessions` is the dict of records, `last` is `_last_token`.  Tokens are numbers in the
order they are drawn, and a session gets its record with its token, so the order of the
dict is the order of the tokens and the records are kept as a set.  A request is
`Validate` then `Finish` (rotate, body, answer), with only `SessionTick` in between;
`FinishExpired` is a session that expired between the two.  A session is known by its
first token (`sid`).  Clients send, wait, give up; the network delivers a request once,
twice or late and may lose an answer.

### SessionDb

Three files, each absent, half-written, plain or sealed under a passphrase, known by the
records they hold.  One action per file operation of `decrypt_database`,
`encrypt_database` and `_shutdown`; `Crash` at any point, `ShutdownFails` at any step.
`saved` and `promised` are history.

### RateLimiter

The two deques and the middleware, a request being one step (no await between the two
tiers).  `served` and `refusal` are history.

### Login

`Authenticate` is one `POST /auth` that the middleware let through: `Unconfigured`,
`RefusedLocked`, `Unreadable`, `Match` and `Mismatch` are the branches of `authenticate()`
in their order.  A mismatch sleeps inside the async handler: `asleep` holds the event
loop, so until `Wake` only time, a setup in another process and a `Restart` go on.
`OpenForSetup` and `WriteSetup` are `open(path, "w")` and the `json.dump` after it.
`failures` is history.

### Pipeline

`asked` and `answer` are the inputs and what came back; each process (API, loop) is at one
input.  `Receive`, `Build`, `Present` are the first three steps, each with its record,
which may fail as the code lets it (`NotWritten`): intake raises, the next two pass over
it.  `AnswerCrisis`, `AskForDecision`, `InjectDecision` are the handler of `/process`
after surface; `TamperGuard` and `RunCheckpoint` are `checkpoint.run()`.  Weight and
confidence follow from the graph, which every input changes: any pair may come out, for
the same text too, as its place relative to the threshold.  `Resend` is the second request
of a pending input.  `Reply` may be replaced by the timeout's 503.

A request may carry no `human_decision`, an empty one, or any text.  The handler tests
`is None` when it decides whether to ask (`AskForDecision`) and truth when it puts in its
own word (`GivenOr`: "NOT_PROVIDED" in a crisis, "proceed" before the checkpoint), so an
empty decision is taken for one given and then becomes "proceed".  The properties say what
holds of the missing one; that a PROCEED was chosen is the claim `ProceedIsChosen`.
At the terminal an empty or unknown answer is a veto (`Typed`).

### FedConsent, FedExchange, FedDelivery

Every SQL statement of `grant`, `revoke` and `reconfirm` is a step; `overlapped` is the
history of calls that overlapped.  In `FedExchange` an operator asks `can_share` (`Ask`),
then shares: outbox row, post, and on any answer with status 200 `MarkSent`, else
`GiveUp`, which posts again while attempts are left.  `requests` holds the posts under
way; one that is lost stays "sent".  The peer's thread is `Validate`, `RecordInbound`,
`Ingest`.  `receive()` relates the concepts of a message one by one, passing over what is no
string; `relate()` rolls back and swallows its own failures, and `receive()` answers with an
id all the same.  So `Ingest` may leave the graph as it was and still answer "ok"; a message
counts as ingested when one of its concepts was.  `ReturnedIdMeansAccepted` is therefore
about the inbox, and that the graph has the data is the claim `ReturnedIdMeansHeld`.
`NodeCrash` and `PeerCrash` keep the tables and lose the memory.
`FedDelivery` is the promise without tables, threads and network; the refinement mapping
takes `inForce` from `IsValid`, `offered` from the outbox and `taken` from the inboxes.

### FedNode

`Start` to `Ready` are `manager.start()` under its lock: `LoadKey`, or `CreateKey`,
`WriteKey`, `SyncDid` (a torn key file refuses this and every later start); `Listen`;
`StartDiscovery` and `StartTls` for the stages that have them.  `Stop` and `Shutdown` end
it, `Crash` at any point.  `stop()` ends the serving but never calls `server_close()`:
the port stays `bound` until the object is `Collected`, and a start in between finds it
taken (`PortTaken`).  `Handshake` asks a peer, known or not, at whatever address its caller
has, without a lock, and `HandshakeAnswer` puts that address over what was known;
`PeerFound` is mDNS, which keeps the first address.  `PinCert`/`Pin` and
`ApproveCertChange`/`UpdatePin` read and write in two statements.

### Crdt

One element, counter, register, concept and edge stand for all.  Updates are numbered; a
`Snapshot` may be merged late and more than once.  `Update` covers the writes of each
type, `Merge` is `LocalAdapter.merge` with `merge_node_sets`, `merge_edge_weights` and
`detect_conflict`.

Nothing in the source calls `increment()` or `LocalAdapter.merge()`.  Each row has a clock
of its own, where `VectorClock` says clocks are stored (`crdt.py:36`), and a write of a
replica increments its own component of that row's clock (`Written`).  A merge takes the
winner's row with the winner's clock, as `merge_node_sets` and `merge_edge_weights` do; the
joint clock `merge()` returns beside the data is stored in no row and left out.  So a
concept is never dropped without a report (`NoConceptVanishes`), because of two concurrent
versions one's own is kept and the clash reported again at every later meeting; of two
concurrent versions of an edge the younger is taken with its own clock alone, and then a
later write may dominate one it never saw (the claim `NoEdgeVanishes`).

### Graph

Nodes by rowid, edges by the pair of their ends, `counted` (nodes with a row in
`ppmi_counters`), the total of inputs, and the cached matrix with the commit it was built
at and the concepts its ids stood for.  One action per transaction: `Relate`, `Prune`,
`Wipe`, and `Decay`, which keeps the lock while its second transaction follows
(`DecayCounters`) or is skipped (`DecayFails`).  `Invalidate` follows each commit as a
step of its own, since `invalidate_ppr_cache()` is called after the lock was released.
Weights are abstracted to what decides the fate of an edge: a sensitive edge starts
below `PRUNE_THRESHOLD` (0.02 against 0.05) and goes at the next decay unless it was
reinforced; any other starts above and stays on the day of its reinforcement; otherwise
either may happen.  `prune()` may take any set of live edges, PPMI values being left out.
`Bfs` is the traversal of `_navigate_bfs`.

## 3. Runs

Constants are bounds or settings; each bound is named in its module.  `CHECK_DEADLOCK
FALSE` only for the audit trail, where every call needs room for a record and the clock
is bounded: when both are used up nothing is left to do.  Every other run checks for
deadlock.

| run | question | instance | why it is enough |
|---|---|---|---|
| `AuditSerial` | Without overlap, is the chain unforked, an alteration found, the tail check consistent with the walk, the trail an append-only log? | 1 writer, 5 records, clock to 2, one alteration | a row, its successor and one further are all a link relates; pruning by age needs two times |
| `AuditConcurrent` | With overlapping callers: are exports complete, are reads logged first? | 2 writers (symmetric), 5 records, 2 levels, pages of 1 | an export of two rows and its own READ_ACCESS records cross page boundaries; pruning does not interleave here (see the proofs) |
| `Consent` | Delegated grants, revocations and crashes; the gate in four modes and three profiles (reconfirmation, opt-out, mandatory expiry) | 2 callers, 3 rows; with the gate 2 rows and 1 day | a grandchild needs three rows; a decision looks at one row, another one may shadow it |
| `BreakerCalls` | Late answers, probes, resolution | 3 callers, threshold 2, 2 attempts, clock to 2 | two late callers and a probe |
| `Sessions` | Tokens, lives, capacity, clients | 2 clients, capacity 1 or 2 (`Capacities`), 3 tokens, 2 requests on the wire | a third token supersedes at either capacity |
| `SessionDbCrashes` | Crashes and failures between any two file operations | 9 records, 2 setups | several sessions, a passphrase set and set again |
| `Login` | Windows, refusals, waits, guesses, locks | limits 3 and 2, window of 2 ticks, 2 ticks a second, 2 attempts, lock of 4 ticks, clock to 6, one setup | windows slide past their first request; a lock ends and the next failure locks again; a fraction of a second to truncate |
| `GraphCycles` | Rows, counters, cache and traversal under any order of operations, with restarts | 2 threads, 3 concepts (one sensitive), 4 ids, 5 changes, 2 days | a pair, its reverse, a path of two edges; an id left over for regrowth after wipe |
| `FedExchange` | Order, loss, repetition, recall, crashes | 2 operators, 2 peers, 1 consent, 2 messages, 2 posts of each, clock to 1 | a post and its repetition meet in two threads; a gap needs a second message; a consent is asked for, revoked, then used |
| `FedNode` | Consents, life cycle, pins, addresses; merges of replicas | 2 operators, 1 peer, 2 consents, 2 servers, 2 addresses; 2 replicas, 3 updates, 2 clock readings | two overlapping calls of each kind; a start after a failed one and while the port is still bound; an announcement against a handshake; three updates of which two are concurrent |
| `Pipeline` | Records, flags, decisions, the gate | 2 clients and the terminal, 3 texts (personal, harm, crisis), 4 decisions (proceed, veto, empty, any other), 2 inputs, 1 failing record | an input and its re-submission, or one beside it in the other process |
| `PipelineVeto` (violation) | "re-submit with `human_decision`: ... (or veto, flag, defer)" | as `Pipeline`, with one text and only vetoes | |

`Consent` checks two scenarios told apart by the profile; its CONSTRAINT `InScenario` keeps
the offers and bounds of each (delegations on one side, the gate with its expiring and
opt-out consents on the other).  `MCFedNode` puts `FedNode` and `Crdt` side by side: they
share no variable, so `part` says which of them moves.

The type invariants (`TypeOK` and its like) hold on the same instances and can be added
as an INVARIANT.  The cfgs do not list them, since all but that of `Login` are proved.

Fairness is assumed in one run, `BreakerCalls`: a network call ends (`CallsEnd`, weak
fairness of its success or failure).  Every call of `_post` goes through `urlopen` with a
timeout, so it returns or raises.  No fairness is assumed of callers, of retries or of
the clock: a half-open breaker is resolved by its probe alone.

## 4. Theorems

Every safety property a passing run checks is also proved, for every value of the
constants, and so are the two refinements.  The proofs rest on the named assumptions about
constants, which TLC evaluates in the runs: `ChainConstants`, `LedgerConstants`,
`BreakerConstants`, `SessionConstants`, `SessionDbConstants`, `RateLimiterConstants`,
`LoginConstants`, `GraphConstants`, `PipelineConstants`, `ConsentConstants`,
`ExchangeConstants`, `NodeConstants`, `CrdtConstants`.  Most say that a number is a number.
Those that say more: at least one attempt is allowed before a lock (`MaxAttempts # 0`; with
0 the first failure would lock, and be one too many); no certificate is called "none", the
mark of a peer without a pin; there are finitely many replicas, since a counter sums over
them.

Three theorems have a hypothesis of their own.  `SerialChainNeverForks` and
`VerificationAlwaysSound` are about one writer, and `IndexIsNeverShared` about callers with
one lock; that the hypothesis is needed is a finding in each case
(`GapMeansTampering`, `IndexNeverShared`).

* **AuditChain_Proofs**.  `TypeCorrect`; `LinksPointBackAlways`: a caller between its
  read and its insert remembers the hash of a row that is there, because rows are never
  removed, so the row it inserts, being last, links to an earlier one.
  `SerialChainNeverForks`: with one writer the remembered row is still the last one when
  the new one is inserted.  `AlterationsAlwaysDetected` needs no invariant but the types:
  a row whose link names the written state of its predecessor cannot match an altered one.
  With one writer the walk then visits all that the cheap check visits
  (`VerificationAlwaysSound`).  `ReadsAlwaysLogged` (`ReadInv`: what a call that is about to
  return has in the trail, or is still about to write) and `ExportsAlwaysComplete`
  (`ExportInv`: the pages so far hold the rows up to the offset, each once; a row's place
  in a selection never changes because rows are only added behind it).
  `TrailIsAppendOnly`: the refinement of `AuditLog`; each step appends one row, erases
  payloads, or maps to a stutter.  These cover pruning that interleaves with several
  writers, which no run does.
* **ConsentLedger_Proofs**.  `LedgerInvariance` carries the rest: its `AskKnows` says what
  a decision knows at each of its steps of the rows it has read, and a step of another
  call preserves it because rows only grow and none comes back to life (`Grew`).  From it
  `AlwaysAllowedByConsentInForce`, `OptOutAlwaysHonoured`, `CascadeAlwaysReachesChildren`
  and `LedgerTypeCorrect`.  `IndexIsNeverShared` needs `IndexInv`: each index below the
  counter has one holder, a row or a caller about to insert one, and only the holder of
  the lock has read the counter.
* **CircuitBreaker_Proofs**.  `TypeCorrect`; `FieldsAlwaysAgree` and `OneProbeAlways` are
  proved together: that a half-open breaker has its probe on the way needs that exactly
  one call let through is not stale, and that in turn that the flag and the state agree.
  `AttemptsLeft` bounds the retries.
* **SessionDb_Proofs**.  `SavedRecordsStay` and `FirstSessionIsSafe`.  The invariant adds
  `SessionHoldsAll` (while a session runs on its own file, that file holds all that was
  saved, and so does its sealed copy before the move) and `NothingSavedYet` (no permanent
  file before the first save): without them the move could replace a file by an older one.
  `ClosedMeansSealed`: the file that moves is sealed before it moves (`SealInv`).
* **Graph_Proofs**.  `TypeCorrect` (foreign keys included), `PpmiAlwaysDefined`,
  `CacheAlwaysCurrent`, `CachedIdsAlwaysTrue`, and `PrunedRowsAlwaysStay` as an action
  property.  `CacheIsCurrent` needs `CommitsOrdered`: own, finished and built-at commits
  are all among those made.  `CachedIdsStayTrue` needs `CachedIdsUsed`: the ids of a
  matrix were given out, and AUTOINCREMENT gives none out twice.
  `NavigateAlwaysFindsNeighbourhood` needs `SeenInTotal`: no concept was seen in more inputs
  than there were, so that no weight is zero and no edge is skipped; `MaxDepth` being 2,
  the recursion of `Bfs` unfolds.
* **Pipeline_Proofs**.  `TypeCorrect`, `NothingUntraced`, `FlaggedNeverAutomatic`,
  `ProceedAlwaysGiven` and `GateAlwaysRestored`, for any clients, texts, decisions and
  failures.  The handler and `checkpoint.run` test one input at different times and by
  different fields; that they agree rests on what a process knows at each step (`Knows`):
  its input is its own and unanswered, intake has recorded it, `safe` is what intake found,
  the gate is the client's just while the API is in the checkpoint, and nothing gets there
  undecided.  A step that adds only sound rows, answers and concepts (`Sound`) keeps the
  trail's part of the invariant, and disturbs nothing the other process knows
  (`OtherKnows`).
* **Api_Proofs**.  Of `Login`: `WindowsAreNeverExceeded` and `RefusalsAreAlwaysTrue`, from
  `WindowInv`: a tier's deque is in order, no longer than its limit, and has a stamp for
  each request let through in the window; the second tier has no other stamps.
  `GuessesAreAlwaysBounded` and `LocksAreAlwaysEarned`, from `BrakeInv`: from the
  `MaxAttempts`-th failure on each one locks, and the next that counts comes after that
  lock.  Of `Sessions`: `SessionTypeCorrect`, `SessionsAlwaysInBounds`,
  `LoneLogoutAlwaysEndsIt`, `TokensUsedOnce`, `ClientsAlwaysKeepUp`, all from `SessionInv`.
  A token is used once because nobody knows a token before it is drawn
  (`NothingForeseen`) and the session whose token was used is the one being handled
  (`TableInv`, `LoopInv`).  A client keeps up because while it has missed no answer nobody
  else holds its token, and any request that will rotate it is one the client waits for
  (`ClientInv`): a duplicate that arrives late bears an older token.
* **Federation_Proofs**.  `FedExchange` and `FedNode` both contain the steps of
  `FedConsent`; what those keep (`ConsentInv`) is proved once, of any step that grants
  nothing (`Quiet`) and of the two that do.  `ChainOfNodeBreaksOnlyByOverlap`,
  `ChainOfExchangeBreaksOnlyByOverlap`: without overlap the rows were inserted in the order
  of their times (`InTurn`), which is the order the chain is verified in.
  `InvalidityIsFinal` is an action property: no SET of a re-confirmation revives a row.
  `IngestedAtMostOnce`, `ReturnedIdAlwaysMeansAccepted` and `ExchangeTypeCorrect` rest on
  `TablesInv`: a peer has taken exactly 1 up to its last number, and two requests with one
  number are never both past validation unless they raced.  `ExchangeImplementsDelivery`
  is the refinement, action by action.  `NodeTypeCorrect`, `StartedNodeIsAlwaysWhole`,
  `OnePinAlwaysWins` and `AddressesMoveByHandshake` rest on `NodeInv`: one caller at a time
  is inside the manager's lock, and what it has done so far is what its place says
  (`LockKnows`).  `UpdatesAreNeverLost`, with `ReplicasTypeCorrect`: the data of a copy are
  a function of the set of updates that reached it (`CopyInv`), a set closed under what each
  of them had seen; a counter counts the updates in such a set, two of these restricted to
  one replica are nested (`Nested`), hence the larger count is the count of the union
  (`JoinedCounts`).  For concepts the argument is about rows (`RowsInv`): no copy's clock
  counts more of a replica than the replica's own row of that concept (`OwnIsLatest`), and a
  row whose clock has reached what the writer of another counted came after it (`Causal`).
  So what a merge replaces is included in what replaces it, or was reported (`CoveredInv`).

Induction over data is replaced by least counterexamples: a set of numbers has a least
element (`LeastNat`), and a smallest failing case is refuted.  So are proved that the sum of
`PNCounter.value()` is defined and counts the updates, that the order of insertion is the
order of times, and what the limiter's deque keeps.

Only model-checked:

* `HalfOpenIsResolved`: liveness under fairness is beyond the prover.
* The type of `asleep` in `Login`, a power of two: the provers know nothing of `^`.

## 5. Findings

With a run:

* `PipelineVeto`: `docs/FAQ.md:213` has the client re-submit a pending input with the
  human's decision.  `/process` runs the whole pipeline again; when weight and confidence
  now ask for no checkpoint, `checkpoint.run` takes its AUTO branch, and the human who
  vetoed is answered "complete".

Stated as claims at the end of their modules and violated by the model; each shows when
added as an INVARIANT or PROPERTY to the run named, with the changes given (and without
SYMMETRY where the callers or processes differ):

| claim | run and changes | what the code does |
|---|---|---|
| `GapMeansTampering` (`api/main.py:117`) | `AuditConcurrent`, QueryLevels {} | `record()` reads the last hash and inserts in two transactions: two overlapping calls store the same hash and `verify_chain` reports a gap though nothing was changed |
| `PruningIsNotAGap` (`memory.py:968`) | `AuditSerial`, MaxAlterations 0 | the hash of a pruned record changes with its payload, so its successor is reported as a gap |
| `EverySensitiveReadLogged` (`docs/CROSSOVER_CONTRACT_v1.0.md:271`) | `AuditConcurrent`, QueryLevels {1} | a filter above 0 and below the threshold returns sensitive rows unlogged |
| `ExportLoggedOnce` (`memory.py:556`) | `AuditConcurrent`, one writer | each page logs its own READ_ACCESS, and the export one more |
| `IndexNeverShared` (`status_list.py:88`) | `Consent`, Processes {p1, p2}, ProcessOf TwoProcesses | the SELECT is outside the transaction; the lock is one per process |
| `RevokedOnce` (`adapter.py:246`) | `Consent` | two overlapping revocations both answer True |
| `DelegatedConsentsDie` (`docs/CONSENT-LEDGER.md:128`) | `Consent` | the cascade goes one level |
| `DelegationDepthBounded` (`docs/CONSENT-LEDGER.md:112`) | `Consent` | grant() never looks at the depth |
| `StaysOpenForRecovery` (`circuit_breaker.py:65`) | `BreakerCalls` | a late success closes an open breaker at once |
| `RefusedPeerHasFailed` (`circuit_breaker.py:221`) | `BreakerCalls`, Peers {a, b} | one breaker serves all peers (`internet.py:313`) |
| `LogoutEndsOwnSession` (`api/main.py:1294`) | `Sessions`, Capacities {2}, MaxTokens 4 | logout ends the first active session, which may be another client's |
| `PlainDatabaseAccepted` (`main.py:128`) | `SessionDbCrashes` | a plain file makes decryption raise, and boot ends |
| `RefusedForOwnRequests` (`api/main.py:751`) | `Login` | the per-client limiter is one deque for all |
| `PromiseKept` (`main.py:320`) | `SessionDbCrashes` | "Session data preserved at ... Re-run the system to retry encryption": the next boot decrypts the older permanent file over it |
| `OrphansRemoved` (`graph.py:1742`) | `GraphCycles`, Threads {t1} | once `prune()` has marked all edges of a node as deleted, `decay()` deletes the node while the marked rows refer to it; the error is swallowed and the whole transaction rolled back, at every boot |
| `RelatedIsLive` (`graph.py`, relate) | `GraphCycles` | relate() reinforces a row marked as deleted and leaves it so |
| `ClassNeverFalls` (`docs/CRE-SPEC-001-v06.md:899`) | `Pipeline` | the CONTEXTUALIZE and SURFACE records carry the text with classification 0 |
| `TamperMeansReplaced` (`checkpoint.py:211`) | `Pipeline` | every checkpoint of the API records CHECKPOINT_TAMPER |
| `CrisisIsMessaged` (`api/main.py:1010`) | `Pipeline` | when the trail cannot be written a crisis is answered with an error and no safe messaging |
| `ServerStopsWithItsStart` (`tls_transport.py`, `ca_bundle_path`) | `FedNode` | an empty CA bundle with mTLS raises after the port was opened; the server goes on listening, without TLS, and holds the port |
| `ProceedIsChosen` (`checkpoint.py:245`, `:262`) | `Pipeline` | `human_decision: ""` is not None, so nothing is pending (`api/main.py:1111`), and `or "proceed"` turns it into a PROCEED (`:1134`); "Empty response means veto" holds at the terminal only |
| `ReturnedIdMeansHeld` (`adapter.py:205`) | `FedExchange` | `relate()` rolls back and swallows a failure (`graph.py:1297`); `receive()` still answers ok with an id |
| `NoEdgeVanishes` (`crdt.py:76`) | `FedNode`, MaxUpdates 6, CONSTRAINT EdgesOnly | a younger edge wins over a concurrent one with its own clock alone; a later write on top dominates, or is dominated by, one it never saw, and nothing is reported |
| `RegistersAgree`, `EdgesAgree` (`crdt.py`, heading) | `FedNode` | of two writes with equal time stamps each replica keeps its own |

Met while reading, outside the models:

* `graph.py:1253`: the per-source weight cap queries a table `edges`, which does not exist
  (it is `graph_edges`); the error is swallowed, so the cap never applies.
* A sensitive edge starts at 0.02, below `PRUNE_THRESHOLD`, and is deleted by the next
  decay, at boot (`main.py:163`); `tests/test_graph.py:396` says edges just created must
  survive it.
* `decay()` scales the total of co-occurrences at every call and the marginals at most
  once a day, so PPMI drifts with the number of boots.
* `compute_ppr` uses a cached matrix whatever the edge types asked for; a reader that asks
  for a type first leaves an empty one behind, which only makes others fall back to BFS.
* `CONSENT_CASCADE_REVOKED` is never written; `valid_from` is never read; a newer and
  narrower grant shadows an older one; `ONTO_CONSENT_RECONFIRM_DAYS` is not used;
  ENFORCE=false is documented as "log only" and does not log.
* `data_erasure` answers `erased: true` when `wipe()` failed unseen, and the texts in
  `contextualize._field` outlive it.  `run()` of `main.py` tests for actions that
  `checkpoint.run` never returns.
* The handshake never pins a certificate; an inbound HANDSHAKE puts an unverified manifest
  over a verified one.  The listener of mDNS "Updates the adapter's peer registry on network
  changes" (`intranet.py:58`) and is to "Treat updates as re-add" (`:82`), but
  `_on_peer_discovered` keeps the first address: a peer that moved is found again only
  through a handshake or a restart.  `health()` calls a function of the consents that does not exist.
* A RETRACT names a consent id that only the sender's table has, so it retracts nothing;
  any HTTP 200 counts as sent and raises trust, which stops just under 0.95; the answer to
  a gap names the number before the one received, and nothing re-sends.
* A peer that dies between `record_inbound` and the graph has the message in its inbox and
  never in its graph.
* Standing federation consents that are overdue for reconfirmation stay valid
  (`docs/CONSENT_MANAGEMENT.md:108` expects a pause).
* Every node announces itself under the same DHT key: the last announcement replaces the
  others, and a withdrawal erases another's.
* A key file or auth.json whose writing was killed half way makes every later start, or
  login, fail.
* Most MCP tools (`api/onto_server.py`) raise before they do anything: they call `get` on a
  dataclass, or `surface.build`, which does not exist.
* A passphrase reset (`core/auth.py:479`) leaves the database sealed under a key that can no
  longer be derived.

## 6. Not modelled, and why

* Replay of SQLite's own WAL and journal: transactions are taken as atomic and durable.
* Loss of the salt file, two running instances on one file, padding and key derivation.
* `update_data_classification` and the connection fingerprint of sessions: the API uses
  neither.
* `ConnectionMetrics`: it only sets the length of a timeout.
* Ranks and PPMI values of the graph, edge types other than co-occurs-with, provenance
  rows, and a second process with its own cache.
* Text analysis, JSON-LD, bitstrings, signatures, TLS and mDNS: encodings or libraries.
* The DHT adapter (`p2p.py`): what a node finds is what Kademlia returns for one key that
  all nodes write.
* The MCP server: see the findings; what of it works calls the graph and the trail the way
  the modules above do.
* Examination, structured intake, configuration, principles seal, metrics: no state, or
  state that nothing reads back.
* The fate of `navigate()` when the gate fails: nothing reads whether it was allowed.

Within what is modelled:

* The clock of `FedConsent` moves with every grant.  `time.time()` (`consent.py:124`) may
  step back or give the same reading twice; then `ORDER BY granted_at` (97, 359) may
  put two rows out of the order they were linked in, and the chain reads as broken without
  an overlap.  `ChainBreaksOnlyByOverlap` holds for clocks that do neither.
* `Sessions.Finish` is one instant, with the rotation (`api/main.py:530`) and what
  `logout` asks afterwards (1304-1306); `AuditChain.Page` reads the count and the rows in
  one snapshot (`memory.py:497`, `:500` are two SELECTs in autocommit).  No property looks
  between them.
* `Graph.Bfs` has neither the cut at `MAX_RESULTS` (`graph.py:1579`) nor the path through
  PageRank: `NavigateFindsNeighbourhood` says "exactly" of results below the cut, found by BFS.
* `RefusalsAreTrue` is about the second tier; a request it refuses has used a place in the
  first.
* In `FedExchange` an operator shares only after `can_share` said yes: `share()` itself does
  not ask, and relies on its callers.  Messages are taken in order, but a second recipient,
  whose first number is not 1, accepts none, ever: delivery is not promised.
* `LoneLogoutEndsIt` is about one session at a time (see `LogoutEndsOwnSession`), and
  `ClientKeepsUp` about clients that missed no answer.
* A prune that dies before its RETENTION_PRUNED record is allowed by the abstract log.

## 7. Plan

1. `Graph` composed with the consent gate that `navigate` asks; the DHT adapter's table of
   peers; the MCP tools that work.
2. Proofs of the claims about several writers that hold in part, so that the hypotheses of
   `VerificationAlwaysSound` and `IndexIsNeverShared` become statements about which calls
   overlapped.
