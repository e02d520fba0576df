-------------------------------- MODULE FedNode --------------------------------
(***************************************************************************)
(* What a federated node keeps beside its consents: the life cycle of the  *)
(* federation layer (manager.py and the adapters' start and stop), the     *)
(* node's identity (node_identity.py), the pinned certificates of peers    *)
(* (peer_store.py) and the peers it knows, from the configuration, from    *)
(* mDNS (intranet.py) and from handshakes (local.py).                      *)
(*                                                                         *)
(* Operators are threads of the process; start() and stop() hold the       *)
(* manager's lock from their first step to their last.  Every statement on *)
(* the database commits by itself.  The process dies and is run again.     *)
(***************************************************************************)
EXTENDS FedConsent

CONSTANTS
  Stages,        \* settings of ONTO_FEDERATION_STAGE; see AllStages
  StaticPeers,   \* peers of ONTO_FED_PEERS
  Addresses,     \* addresses of peers
  Certs,         \* certificates peers present
  MaxRotations,  \* bound: approved changes of a certificate
  MaxKeys,       \* bound: key pairs generated
  MaxStarts      \* bound: servers opened

AllStages == {"local", "intranet", "internet"}

ASSUME NodeConstants ==
  /\ Stages \subseteq AllStages
  /\ StaticPeers \subseteq Peers
  /\ "none" \notin Certs     \* see NoPin
  /\ {MaxRotations, MaxKeys, MaxStarts} \subseteq Nat

VARIABLES
  stage,      \* FEDERATION_STAGE
  keyFile,    \* the file with the private key
  keys,       \* key pairs generated so far; a key stands for its did:key
  did,        \* row "did_key" of federation_node_config
  nodeDid,    \* _node_did of the manager
  adapter,    \* _adapter of the manager: its server, or None
  server,     \* the server that listens on the federation port
  opened,     \* servers opened so far
  bound,      \* a server that was shut down still holds the port
  mdns,       \* whether the mDNS browser of the adapter runs
  known,      \* _peers of the latest adapter: address of each known peer
  pins,       \* table federation_peer_certs
  winners,    \* calls of pin_cert() that answered True since the last removal (history)
  failedLate  \* servers whose start() failed after they were opened (history)

identity  == <<keyFile, keys, did>>
lifecycle == <<nodeDid, adapter, server, opened, bound, mdns, failedLate>>
store     == <<pins, winners>>
nodeVars == <<consentVars, stage, identity, lifecycle, known, store>>

None    == 0
Absent  == 0
Torn    == -1             \* created, not yet written
Unknown == "unknown"
Address == Addresses \cup {Unknown, "configured"}
NoPin   == [cert |-> "none", rotations |-> 0]

NodePCs == {"writeKey", "syncDid", "listen", "extend", "ready",
            "shutdown", "handshake", "pin", "approve"}

NodeTypeOK ==
  /\ ConsentTypeOK
  /\ pc \in [Operators -> {"idle"} \cup ConsentPCs \cup NodePCs]
  /\ stage \in Stages
  /\ keyFile \in {Torn} \cup 0 .. MaxKeys /\ keys \in 0 .. MaxKeys
  /\ did \in 0 .. MaxKeys /\ nodeDid \in 0 .. MaxKeys
  /\ {adapter, server, opened} \subseteq 0 .. MaxStarts
  /\ bound \in BOOLEAN /\ mdns \in BOOLEAN
  /\ known \in [Peers -> Address]
  /\ pins \in [Peers -> {NoPin} \cup [cert : Certs, rotations : 0 .. MaxRotations]]
  /\ winners \in [Peers -> Nat]
  /\ failedLate \subseteq 1 .. MaxStarts

NodeInit ==
  /\ ConsentInit
  /\ stage \in Stages
  /\ keyFile = Absent /\ keys = 0 /\ did = None
  /\ nodeDid = None /\ adapter = None /\ server = None /\ opened = 0
  /\ bound = FALSE /\ mdns = FALSE /\ failedLate = {}
  /\ known = [p \in Peers |-> Unknown]
  /\ pins = [p \in Peers |-> NoPin]
  /\ winners = [p \in Peers |-> 0]

rest == <<consents, clock, overlapped, stage>>     \* what only FedConsent changes

\* The manager's lock is held by the operator inside start() or stop().
Locked == \E o \in Operators :
            pc[o] \in {"writeKey", "syncDid", "listen", "extend", "ready", "shutdown"}

-------------------------------------------------------------------------------
(* start(): the tables, then generate_or_load(), *)

\* Mutant: what is already in the file is not written to the table again.
LoadKey_NoSync(o) ==
  /\ keyFile > 0
  /\ nodeDid' = keyFile
  /\ Goto(o, "listen", NoFrame)
  /\ UNCHANGED <<keyFile, keys, did>>

LoadKey(o) ==
  /\ keyFile > 0
  /\ did' = keyFile /\ nodeDid' = keyFile
  /\ Goto(o, "listen", NoFrame)
  /\ UNCHANGED <<keyFile, keys>>

\* _write_key_file(): open(path, "w"), ...
CreateKey(o) ==
  /\ keyFile = Absent /\ keys < MaxKeys
  /\ keyFile' = Torn /\ keys' = keys + 1
  /\ Goto(o, "writeKey", [id |-> keys'])
  /\ UNCHANGED <<did, nodeDid>>

\* A file that was not written to its end is refused: ValueError, now and later.
StartRefused(o) ==
  /\ keyFile = Torn
  /\ UNCHANGED <<identity, nodeDid, pc, frame>>

Start(o) ==
  /\ pc[o] = "idle" /\ ~Locked /\ adapter = None
  /\ LoadKey(o) \/ CreateKey(o) \/ StartRefused(o)
  /\ UNCHANGED <<rest, adapter, server, opened, bound, mdns, failedLate, known, store>>

\* ... write(), close()
WriteKey(o) ==
  /\ pc[o] = "writeKey"
  /\ keyFile' = frame[o].id
  /\ Goto(o, "syncDid", frame[o])
  /\ UNCHANGED <<rest, keys, did, lifecycle, known, store>>

SyncDid(o) ==
  /\ pc[o] = "syncDid"
  /\ did' = frame[o].id /\ nodeDid' = frame[o].id
  /\ Goto(o, "listen", NoFrame)
  /\ UNCHANGED <<rest, keyFile, keys, adapter, server, opened, bound, mdns, failedLate, known, store>>

\* then LocalAdapter.start(): the port, and the peers of the configuration,
Listen(o) ==
  /\ pc[o] = "listen" /\ opened < MaxStarts
  /\ server = None /\ ~bound
  /\ opened' = opened + 1 /\ server' = opened'
  /\ known' = [p \in Peers |-> IF p \in StaticPeers THEN "configured" ELSE Unknown]
  /\ Goto(o, IF stage = "local" THEN "ready" ELSE "extend", [id |-> opened'])
  /\ UNCHANGED <<rest, identity, nodeDid, adapter, bound, mdns, failedLate, store>>

\* (OSError: the port is taken)
PortTaken(o) ==
  /\ pc[o] = "listen"
  /\ server # None \/ bound
  /\ Goto(o, "idle", NoFrame)
  /\ UNCHANGED <<rest, identity, lifecycle, known, store>>

\* then the rest of the adapter's start(): mDNS, whose failure is swallowed, or
\* TLS, whose failure to be set up is swallowed and whose configuration is not,
StartDiscovery(o) ==
  /\ pc[o] = "extend" /\ stage = "intranet"
  /\ mdns' \in BOOLEAN
  /\ Goto(o, "ready", frame[o])
  /\ UNCHANGED <<rest, identity, nodeDid, adapter, server, opened, bound, failedLate, known, store>>

StartTls(o) ==
  /\ pc[o] = "extend" /\ stage = "internet"
  /\ \/ Goto(o, "ready", frame[o]) /\ UNCHANGED failedLate
     \/ Goto(o, "idle", NoFrame) /\ failedLate' = failedLate \cup {frame[o].id}
  /\ UNCHANGED <<rest, identity, nodeDid, adapter, server, opened, bound, mdns, known, store>>

\* then the manager's fields.
Ready(o) ==
  /\ pc[o] = "ready"
  /\ adapter' = frame[o].id
  /\ Goto(o, "idle", NoFrame)
  /\ UNCHANGED <<rest, identity, nodeDid, server, opened, bound, mdns, failedLate, known, store>>

\* stop(): the browser, then the server and the manager's fields.
Stop(o) ==
  /\ pc[o] = "idle" /\ ~Locked /\ adapter # None
  /\ mdns' = FALSE
  /\ Goto(o, "shutdown", NoFrame)
  /\ UNCHANGED <<rest, identity, nodeDid, adapter, server, opened, bound, failedLate, known, store>>

\* shutdown() ends the serving; without server_close() the port stays taken until the
\* object is
Shutdown(o) ==
  /\ pc[o] = "shutdown"
  /\ adapter' = None /\ nodeDid' = None
  /\ server' = None /\ bound' = TRUE
  /\ Goto(o, "idle", NoFrame)
  /\ UNCHANGED <<rest, identity, opened, mdns, failedLate, known, store>>

\* collected: at once, or when the last request it still serves has ended.
Collected ==
  /\ bound
  /\ bound' = FALSE
  /\ UNCHANGED <<consentVars, stage, identity, nodeDid, adapter, server, opened, mdns,
                 failedLate, known, store>>

\* The process dies; the key file and the tables stay.
Crash ==
  /\ pc' = [o \in Operators |-> "idle"] /\ frame' = [o \in Operators |-> NoFrame]
  /\ nodeDid' = None /\ adapter' = None /\ server' = None /\ bound' = FALSE /\ mdns' = FALSE
  /\ known' = [p \in Peers |-> Unknown]
  /\ UNCHANGED <<rest, identity, opened, failedLate, store>>

-------------------------------------------------------------------------------
(* Known peers *)

\* Mutant: an announcement always counts.
Announced_Latest(p, a) == a

\* The address of a peer after mDNS announced it: the first one is kept.
Announced(p, a) == IF known[p] = Unknown THEN a ELSE known[p]

\* add_service() and update_service()
PeerFound(p, a) ==
  /\ mdns
  /\ known' = [known EXCEPT ![p] = Announced(p, a)]
  /\ UNCHANGED <<consentVars, stage, identity, lifecycle, store>>

\* handshake(peer), with whatever address the caller has for the peer -- what discover()
\* returned, or another: the request,
Handshake(o, p, a) ==
  /\ pc[o] = "idle" /\ adapter # None
  /\ Goto(o, "handshake", [id |-> adapter, peer |-> p, address |-> a])
  /\ UNCHANGED <<rest, identity, lifecycle, known, store>>

\* and the answer: a manifest that verifies replaces what is known of the peer, in
\* the adapter the call was made on; a failure changes nothing.
HandshakeAnswer(o) ==
  /\ pc[o] = "handshake"
  /\ known' \in {known, IF frame[o].id # opened THEN known
                        ELSE [known EXCEPT ![frame[o].peer] = frame[o].address]}
  /\ Goto(o, "idle", NoFrame)
  /\ UNCHANGED <<rest, identity, lifecycle, store>>

-------------------------------------------------------------------------------
(* peer_store.py: SELECT and the write that follows it are separate. *)

PinCert(o, p, c) ==
  /\ pc[o] = "idle"
  /\ pins[p] = NoPin
  /\ Goto(o, "pin", [id |-> p, cert |-> c])
  /\ UNCHANGED <<rest, identity, lifecycle, known, store>>

Pin(o) ==
  /\ pins' = [pins EXCEPT ![frame[o].id] = [cert |-> frame[o].cert, rotations |-> 0]]
  /\ winners' = [winners EXCEPT ![frame[o].id] = @ + 1]

\* Mutant: INSERT OR REPLACE.
InsertPin_Replaces(o) ==
  /\ pc[o] = "pin"
  /\ Pin(o)
  /\ Goto(o, "idle", NoFrame)
  /\ UNCHANGED <<rest, identity, lifecycle, known>>

\* The INSERT of a second row for a peer raises IntegrityError.
InsertPin(o) ==
  /\ pc[o] = "pin"
  /\ IF pins[frame[o].id] = NoPin THEN Pin(o) ELSE UNCHANGED store
  /\ Goto(o, "idle", NoFrame)
  /\ UNCHANGED <<rest, identity, lifecycle, known>>

ApproveCertChange(o, p, c) ==
  /\ pc[o] = "idle"
  /\ pins[p] # NoPin /\ pins[p].rotations < MaxRotations
  /\ Goto(o, "approve", [id |-> p, cert |-> c, rotations |-> pins[p].rotations + 1])
  /\ UNCHANGED <<rest, identity, lifecycle, known, store>>

\* The UPDATE of a row that is gone changes nothing, and the answer is True.
UpdatePin(o) ==
  /\ pc[o] = "approve"
  /\ pins' = IF pins[frame[o].id] = NoPin THEN pins
             ELSE [pins EXCEPT ![frame[o].id] = [cert      |-> frame[o].cert,
                                                 rotations |-> frame[o].rotations]]
  /\ Goto(o, "idle", NoFrame)
  /\ UNCHANGED <<rest, identity, lifecycle, known, winners>>

RemovePeer(o, p) ==
  /\ pc[o] = "idle"
  /\ pins[p] # NoPin
  /\ pins' = [pins EXCEPT ![p] = NoPin] /\ winners' = [winners EXCEPT ![p] = 0]
  /\ UNCHANGED <<consentVars, stage, identity, lifecycle, known>>

-------------------------------------------------------------------------------

NodeStep(o) ==
  \/ Start(o) \/ WriteKey(o) \/ SyncDid(o) \/ Listen(o) \/ PortTaken(o)
  \/ StartDiscovery(o) \/ StartTls(o) \/ Ready(o)
  \/ Stop(o) \/ Shutdown(o)

StoreStep(o) ==
  \/ \E p \in Peers, c \in Certs : PinCert(o, p, c) \/ ApproveCertChange(o, p, c)
  \/ InsertPin(o) \/ UpdatePin(o)
  \/ \E p \in Peers : RemovePeer(o, p)

NodeNext ==
  \/ ConsentNext /\ UNCHANGED <<stage, identity, lifecycle, known, store>>
  \/ \E o \in Operators :
       \/ NodeStep(o) \/ StoreStep(o)
       \/ \E p \in Peers : \E a \in (Addresses \cup {known[p]}) \ {Unknown} : Handshake(o, p, a)
       \/ HandshakeAnswer(o)
  \/ \E p \in Peers, a \in Addresses : PeerFound(p, a)
  \/ Collected
  \/ Crash

NodeSpec == NodeInit /\ [][NodeNext]_nodeVars

-------------------------------------------------------------------------------
(* Properties *)

\* While the manager is neither starting nor stopping, a server listens exactly
\* when federation is started, and it is the adapter's own -- unless a start()
\* failed after it had opened the port (manager._start_locked, the adapters' start
\* and stop, deaths of the process in between).
ServedWhileStarted ==
  Locked \/ server = adapter \/ server \in failedLate

\* Whoever asks a started node gets one identity: the did of the table, of the
\* manager and of the key file agree, whatever died while they were first written.
IdentityAgrees ==
  adapter # None => did = keyFile /\ nodeDid = keyFile

\* Starting is whole or nothing, but for the failure that ServedWhileStarted names: one
\* server, one identity (manager.start, generate_or_load).
StartedNodeIsWhole == ServedWhileStarted /\ IdentityAgrees

\* Of calls of pin_cert() that overlap, one answers True, until the peer is removed.
OnePinWins == \A p \in Peers : winners[p] <= 1 /\ (winners[p] = 0 <=> pins[p] = NoPin)

\* While an adapter lives it never forgets a peer, and the address it holds for one moves
\* only to the address of a handshake with that peer that was begun on this very adapter:
\* no announcement moves it, no handshake with another peer, and no late one of an adapter
\* that was stopped since (_on_peer_discovered, handshake).
AddressMovesByHandshake ==
  [][opened' = opened /\ server' # None =>
       \A p \in Peers : known[p] # Unknown /\ known'[p] # known[p] =>
         \E o \in Operators :
           /\ pc[o] = "handshake"
           /\ frame[o] = [id |-> opened, peer |-> p, address |-> known'[p]]]_nodeVars

-------------------------------------------------------------------------------
(* A claim of the documentation that the code does not meet *)

\* TLSConfig.ca_bundle_path: "empty = use system CA store".  In fact create_server_context()
\* raises then: start() fails and its server goes on listening.
ServerStopsWithItsStart == Locked \/ server = adapter
===============================================================================
