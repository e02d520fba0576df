------------------------------- MODULE SessionDb -------------------------------
(***************************************************************************)
(* The life of the database file: boot() and _shutdown() of main.py with   *)
(* encrypt_database and decrypt_database of core/encryption.py.            *)
(*                                                                         *)
(* With authentication configured, the permanent file is encrypted; boot   *)
(* decrypts it to <db>.session, the session runs on that file, and a clean *)
(* shutdown encrypts it in place and moves it back.  The process may die   *)
(* between any two file operations, and any step of the shutdown may       *)
(* raise.                                                                  *)
(*                                                                         *)
(* Records are numbered as they are written; a file is known by the        *)
(* records it holds.  The key is known by the passphrase it was derived    *)
(* from (the salt file is taken to stay in place).                         *)
(***************************************************************************)
EXTENDS Integers

CONSTANTS
  MaxRecords,   \* bound: records written
  MaxSetups     \* bound: runs of "python3 -m core.auth setup"

ASSUME SessionDbConstants == MaxRecords \in Nat /\ MaxSetups \in Nat

VARIABLES
  perm,      \* the permanent file, config.DB_PATH
  sess,      \* <db>.session
  temp,      \* <db>.session.enc
  pass,      \* the passphrase of auth.json, 0 before the first setup
  key,       \* the key in memory, 0 for none
  pc,        \* where the process is, "down" between two sessions
  written,   \* records written so far
  saved,     \* history: records in the permanent file at a shutdown or while
             \* it was the database of a session
  promised   \* history: records of sessions whose shutdown raised

files == <<perm, sess, temp>>
vars  == <<files, pass, key, pc, written, saved, promised>>

Records == 1 .. MaxRecords
Passes  == 0 .. MaxSetups

\* A file: key # 0 names the key of an encrypted one; a partial one was opened
\* for writing and not written.
Files  == [form : {"absent", "plain", "sealed", "partial"}, key : Passes,
           data : SUBSET Records]
Absent  == [form |-> "absent",  key |-> 0, data |-> {}]
Partial == [form |-> "partial", key |-> 0, data |-> {}]
Plain(data)     == [form |-> "plain",  key |-> 0, data |-> data]

Sealed(k, data) == [form |-> "sealed", key |-> k, data |-> data]

PCs == {"down", "keyed", "decrypting", "opening", "refused", "running",
        "halted", "encrypting", "replacing", "moving", "closed"}

TypeOK ==
  /\ perm \in Files /\ sess \in Files /\ temp \in Files
  /\ pass \in Passes /\ key \in Passes
  /\ pc \in PCs
  /\ written \in 0 .. MaxRecords
  /\ saved \in SUBSET Records /\ promised \in SUBSET Records

Init ==
  /\ perm = Absent /\ sess = Absent /\ temp = Absent
  /\ pass = 0 /\ key = 0
  /\ pc = "down"
  /\ written = 0
  /\ saved = {} /\ promised = {}

\* memory.DB_PATH: the session file when encryption is active.
Active == IF key # 0 THEN sess ELSE perm

\* A record is committed to the database in use.
Write ==
  LET grown(f) == Plain(f.data \cup {written + 1})
  IN /\ written < MaxRecords
     /\ written' = written + 1
     /\ \/ /\ key # 0
           /\ sess' = grown(sess)
           /\ UNCHANGED <<perm, temp, saved>>
        \/ /\ key = 0
           /\ perm' = grown(perm)
           /\ saved' = saved \cup {written + 1}
           /\ UNCHANGED <<sess, temp>>

-------------------------------------------------------------------------------
(* boot() *)

\* "python3 -m core.auth setup", first time or reset, between two sessions.
Setup ==
  /\ pc = "down" /\ pass < MaxSetups
  /\ pass' = pass + 1
  /\ UNCHANGED <<files, key, pc, written, saved, promised>>

\* Mutant: a session file left behind is removed.
Boot_Cleans ==
  /\ pc = "down"
  /\ key' = pass
  /\ sess' = Absent
  /\ pc' = IF pass # 0 /\ perm # Absent THEN "keyed" ELSE "opening"
  /\ UNCHANGED <<perm, temp, pass, written, saved, promised>>

\* authenticate() and encryption.initialize; without auth.json there is no key.
Boot ==
  /\ pc = "down"
  /\ key' = pass
  /\ pc' = IF pass # 0 /\ perm # Absent THEN "keyed" ELSE "opening"
  /\ UNCHANGED <<files, pass, written, saved, promised>>

\* AES-GCM accepts only what it sealed under this key; a plain database is not
\* of that form either.
Decryptable == perm.form = "sealed" /\ perm.key = key

\* decrypt_database up to open(temp_path, "wb").
Decrypt ==
  /\ pc = "keyed" /\ Decryptable
  /\ sess' = Partial
  /\ pc' = "decrypting"
  /\ UNCHANGED <<perm, temp, pass, key, written, saved, promised>>

Decrypted ==
  /\ pc = "decrypting"
  /\ sess' = Plain(perm.data)
  /\ pc' = "opening"
  /\ UNCHANGED <<perm, temp, pass, key, written, saved, promised>>

\* Mutant: the session goes on with an empty database.
RefuseBoot_GoOn ==
  /\ pc = "keyed" /\ ~Decryptable
  /\ sess' = Plain({})
  /\ pc' = "opening"
  /\ UNCHANGED <<perm, temp, pass, key, written, saved, promised>>

\* InvalidTag: the key is cleared, sys.exit(1).
RefuseBoot ==
  /\ pc = "keyed" /\ ~Decryptable
  /\ key' = 0
  /\ pc' = "refused"
  /\ UNCHANGED <<files, pass, written, saved, promised>>

\* memory.initialize creates the database if there is none, and the BOOT record
\* is written.
Open ==
  /\ pc = "opening"
  /\ Active.form \in {"absent", "plain"}
  /\ Write
  /\ pc' = "running"
  /\ UNCHANGED <<pass, key, promised>>

\* sqlite3.DatabaseError: "file is not a database".
OpenFails ==
  /\ pc = "opening"
  /\ Active.form \notin {"absent", "plain"}
  /\ key' = 0
  /\ pc' = "refused"
  /\ UNCHANGED <<files, pass, written, saved, promised>>

Record ==
  /\ pc = "running"
  /\ Write
  /\ UNCHANGED <<pass, key, pc, promised>>

-------------------------------------------------------------------------------
(* _shutdown() *)

\* The HALT record; without encryption there is nothing more to do.
Halt ==
  /\ pc = "running"
  /\ Write
  /\ pc' = IF key # 0 THEN "halted" ELSE "closed"
  /\ UNCHANGED <<pass, key, promised>>

\* The WAL checkpoint, then encrypt_database up to open(".enc", "wb").
Encrypt ==
  /\ pc = "halted"
  /\ temp' = Partial
  /\ pc' = "encrypting"
  /\ UNCHANGED <<perm, sess, pass, key, written, saved, promised>>

\* Mutant: the plaintext is written to the file.
Encrypted_Plain ==
  /\ pc = "encrypting"
  /\ temp' = Plain(sess.data)
  /\ pc' = "replacing"
  /\ UNCHANGED <<perm, sess, pass, key, written, saved, promised>>

Encrypted ==
  /\ pc = "encrypting"
  /\ temp' = Sealed(key, sess.data)
  /\ pc' = "replacing"
  /\ UNCHANGED <<perm, sess, pass, key, written, saved, promised>>

\* os.replace(".enc", session file).
Replace ==
  /\ pc = "replacing"
  /\ sess' = temp /\ temp' = Absent
  /\ pc' = "moving"
  /\ UNCHANGED <<perm, pass, key, written, saved, promised>>

\* Mutant: the key stays in memory.
Move_KeepsKey ==
  /\ pc = "moving"
  /\ perm' = sess /\ sess' = Absent
  /\ saved' = saved \cup sess.data
  /\ pc' = "closed"
  /\ UNCHANGED <<temp, pass, key, written, promised>>

\* shutil.move to the permanent path, and clear_key.
Move ==
  /\ pc = "moving"
  /\ perm' = sess /\ sess' = Absent
  /\ saved' = saved \cup sess.data
  /\ key' = 0
  /\ pc' = "closed"
  /\ UNCHANGED <<temp, pass, written, promised>>

\* A step of the shutdown raises: "Session data preserved at ...".
ShutdownFails ==
  /\ pc \in {"halted", "encrypting", "replacing", "moving"}
  /\ promised' = promised \cup sess.data
  /\ key' = 0
  /\ pc' = "down"
  /\ UNCHANGED <<files, pass, written, saved>>

\* The process ends.
Exit ==
  /\ pc \in {"closed", "refused"}
  /\ pc' = "down"
  /\ UNCHANGED <<files, pass, key, written, saved, promised>>

\* The process dies.
Crash ==
  /\ pc \notin {"down", "closed", "refused"}
  /\ key' = 0
  /\ pc' = "down"
  /\ UNCHANGED <<files, pass, written, saved, promised>>

Next ==
  \/ Setup \/ Boot \/ Decrypt \/ Decrypted \/ RefuseBoot \/ Open \/ OpenFails
  \/ Record
  \/ Halt \/ Encrypt \/ Encrypted \/ Replace \/ Move \/ ShutdownFails
  \/ Exit \/ Crash

Spec == Init /\ [][Next]_vars

-------------------------------------------------------------------------------
(* Properties *)

\* Whatever dies or raises when, a record once saved to the permanent file stays in
\* it: a failed decryption, a half-written file or a first session without
\* authentication never ends in an older or emptier file taking its place.
SavedStaysSaved == saved \subseteq perm.data

\* Before anything has been saved, a crash loses nothing that was written: all
\* of it is still in the session file.
FirstSessionSurvives == saved = {} => 1 .. written \subseteq sess.data

\* A shutdown that ends without an error leaves nothing in plain text: one encrypted
\* file, no session file, no key.
SealedWhenClosed ==
  (pc = "closed" /\ pass # 0) =>
    /\ perm.form = "sealed" /\ sess = Absent /\ temp = Absent
    /\ key = 0

-------------------------------------------------------------------------------
(* Claims of the code's messages and comments that it does not meet *)

\* _shutdown: "Session data preserved at ...  Re-run the system to retry
\* encryption": the records of a session whose shutdown raised are somewhere.
PromiseKept == promised \subseteq perm.data \cup sess.data \cup temp.data

\* boot: "DB exists but is not yet encrypted - first session after enabling auth
\* on an existing installation": such a database is opened.
PlainDatabaseAccepted == pc = "refused" => perm.form # "plain"
===============================================================================
