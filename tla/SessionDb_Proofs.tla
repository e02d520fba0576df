--------------------------- MODULE SessionDb_Proofs ---------------------------
(***************************************************************************)
(* Proofs about SessionDb: no crash and no failing step takes a saved      *)
(* record out of the permanent file, and before the first save nothing     *)
(* that was written is lost.                                               *)
(***************************************************************************)
EXTENDS SessionDb, TLAPS

USE SessionDbConstants DEF Records, Passes

\* From the BOOT record to the end of the session.
Running == {"running", "halted", "encrypting", "replacing", "moving"}

\* The session runs on its own file: it holds all that was saved before, and at
\* least the BOOT record; so does the encrypted copy of it.
SessionHoldsAll ==
  /\ pc \in Running \ {"running"} => key # 0
  /\ (key # 0 /\ pc \in Running \cup {"opening"}) => saved \subseteq sess.data
  /\ (key # 0 /\ pc \in Running) => sess.data # {}
  /\ pc = "replacing" => temp.data = sess.data

\* Before the first save there is no permanent file.
NothingSavedYet ==
  /\ saved = {} => perm = Absent
  /\ pc \in {"keyed", "decrypting"} => perm # Absent

\* The inductive invariant.
IInv ==
  /\ TypeOK
  /\ SavedStaysSaved
  /\ SessionHoldsAll
  /\ NothingSavedYet
  /\ FirstSessionSurvives

LEMMA FileTypes ==
  /\ Absent \in Files /\ Partial \in Files
  /\ \A data \in SUBSET Records : Plain(data) \in Files
  /\ \A k \in Passes, data \in SUBSET Records : Sealed(k, data) \in Files
  BY DEF Files, Absent, Partial, Plain, Sealed

LEMMA InitIInv == Init => IInv
  BY FileTypes DEF Init, IInv, TypeOK, PCs, SavedStaysSaved, SessionHoldsAll,
                   NothingSavedYet, FirstSessionSurvives, Running, Absent

LEMMA TypeStep == TypeOK /\ [Next]_vars => TypeOK'
<1> SUFFICES ASSUME TypeOK, [Next]_vars PROVE TypeOK'
  OBVIOUS
<1> USE FileTypes DEF TypeOK, PCs
<1>w. ASSUME Write PROVE /\ perm' \in Files /\ sess' \in Files /\ temp' \in Files
                        /\ written' \in 0 .. MaxRecords /\ saved' \in SUBSET Records
  <2>1. /\ perm.data \in SUBSET Records /\ sess.data \in SUBSET Records
        /\ written + 1 \in Records
    BY <1>w DEF Write, Files
  <2>2. /\ Plain(perm.data \cup {written + 1}) \in Files
        /\ Plain(sess.data \cup {written + 1}) \in Files
    BY <2>1
  <2> QED
    BY <1>w, <2>1, <2>2 DEF Write
<1>d. /\ perm.data \in SUBSET Records /\ sess.data \in SUBSET Records
      /\ saved \cup sess.data \in SUBSET Records
      /\ promised \cup sess.data \in SUBSET Records
  BY DEF Files
<1>1. CASE Setup BY <1>1 DEF Setup, files
<1>2. CASE Boot BY <1>2 DEF Boot, files
<1>3. CASE Decrypt BY <1>3 DEF Decrypt
<1>4. CASE Decrypted BY <1>4, <1>d DEF Decrypted
<1>5. CASE RefuseBoot BY <1>5 DEF RefuseBoot, files
<1>6. CASE Open BY <1>6, <1>w DEF Open
<1>7. CASE OpenFails BY <1>7 DEF OpenFails, files
<1>8. CASE Record BY <1>8, <1>w DEF Record
<1>9. CASE Halt BY <1>9, <1>w DEF Halt
<1>10. CASE Encrypt BY <1>10 DEF Encrypt
<1>11. CASE Encrypted BY <1>11, <1>d DEF Encrypted
<1>12. CASE Replace BY <1>12 DEF Replace
<1>13. CASE Move BY <1>13, <1>d, 0 \in Passes DEF Move
<1>14. CASE ShutdownFails BY <1>14, <1>d, 0 \in Passes DEF ShutdownFails, files
<1>15. CASE Exit BY <1>15 DEF Exit, files
<1>16. CASE Crash BY <1>16 DEF Crash, files
<1>17. CASE UNCHANGED vars BY <1>17 DEF vars, files
<1> QED
  BY <1>1, <1>2, <1>3, <1>4, <1>5, <1>6, <1>7, <1>8, <1>9, <1>10, <1>11, <1>12,
     <1>13, <1>14, <1>15, <1>16, <1>17 DEF Next

\* What one more record does to the rest of the invariant.
LEMMA WriteKeeps ==
  ASSUME IInv, Write, key' = key,
         key # 0 => saved \subseteq sess.data
  PROVE  /\ SavedStaysSaved' /\ FirstSessionSurvives'
         /\ saved' = {} => perm' = Absent
         /\ key # 0 => saved' \subseteq sess'.data /\ sess'.data # {}
<1>1. 1 .. written' = 1 .. written \cup {written + 1}
  BY DEF IInv, TypeOK, Write
<1>2. CASE key # 0
  <2>1. sess'.data = sess.data \cup {written + 1} /\ UNCHANGED <<perm, saved>>
    BY <1>2 DEF Write, Plain
  <2> QED
    BY <1>1, <1>2, <2>1 DEF IInv, SavedStaysSaved, FirstSessionSurvives, NothingSavedYet
<1>3. CASE key = 0
  <2>1. /\ perm'.data = perm.data \cup {written + 1}
        /\ saved' = saved \cup {written + 1}
    BY <1>3 DEF Write, Plain
  <2> QED
    BY <1>3, <2>1 DEF IInv, SavedStaysSaved, FirstSessionSurvives
<1> QED
  BY <1>2, <1>3

LEMMA StepIInv == IInv /\ [Next]_vars => IInv'
<1> SUFFICES ASSUME IInv, [Next]_vars PROVE IInv'
  OBVIOUS
<1>t. TypeOK'
  BY TypeStep DEF IInv
<1>n. written \in Nat
  BY DEF IInv, TypeOK
<1> USE DEF IInv, SavedStaysSaved, SessionHoldsAll, NothingSavedYet,
            FirstSessionSurvives, Running
<1>1. CASE Setup
  BY <1>1, <1>t DEF Setup, files
<1>2. CASE Boot
  BY <1>2, <1>t DEF Boot, files, Absent
<1>3. CASE Decrypt
  BY <1>3, <1>t DEF Decrypt
<1>4. CASE Decrypted
  BY <1>4, <1>t DEF Decrypted, Plain
<1>5. CASE RefuseBoot
  BY <1>5, <1>t DEF RefuseBoot, files
<1>6. CASE Open
  <2>1. key # 0 => saved \subseteq sess.data
    BY <1>6 DEF Open
  <2> QED
    BY <1>6, <1>t, <2>1, WriteKeeps DEF Open
<1>7. CASE OpenFails
  BY <1>7, <1>t DEF OpenFails, files
<1>8. CASE Record
  BY <1>8, <1>t, WriteKeeps DEF Record
<1>9. CASE Halt
  BY <1>9, <1>t, WriteKeeps DEF Halt
<1>10. CASE Encrypt
  BY <1>10, <1>t DEF Encrypt
<1>11. CASE Encrypted
  BY <1>11, <1>t DEF Encrypted, Sealed
<1>12. CASE Replace
  BY <1>12, <1>t DEF Replace
<1>13. CASE Move
  BY <1>13, <1>t DEF Move
<1>14. CASE ShutdownFails
  BY <1>14, <1>t DEF ShutdownFails, files
<1>15. CASE Exit
  BY <1>15, <1>t DEF Exit, files
<1>16. CASE Crash
  BY <1>16, <1>t DEF Crash, files
<1>17. CASE UNCHANGED vars
  BY <1>17, <1>t DEF vars, files
<1> QED
  BY <1>1, <1>2, <1>3, <1>4, <1>5, <1>6, <1>7, <1>8, <1>9, <1>10, <1>11, <1>12,
     <1>13, <1>14, <1>15, <1>16, <1>17 DEF Next

LEMMA Invariance == Spec => []IInv
<1>1. IInv /\ [Next]_vars => IInv'
  BY StepIInv
<1> QED
  BY InitIInv, <1>1, PTL DEF Spec

\* The type invariant of the database's life cycle.
THEOREM TypeCorrect == Spec => []TypeOK
<1>1. IInv => TypeOK
  BY DEF IInv
<1> QED
  BY Invariance, <1>1, PTL

\* A record once in the permanent file stays in it, whatever dies or raises when.
THEOREM SavedRecordsStay == Spec => []SavedStaysSaved
<1>1. IInv => SavedStaysSaved
  BY DEF IInv
<1> QED
  BY Invariance, <1>1, PTL

\* Before the first save no crash loses a record.
THEOREM FirstSessionIsSafe == Spec => []FirstSessionSurvives
<1>1. IInv => FirstSessionSurvives
  BY DEF IInv
<1> QED
  BY Invariance, <1>1, PTL

-------------------------------------------------------------------------------
(* What a clean shutdown leaves *)

\* While a session is under way its key is the one of auth.json, and the file
\* that will replace the permanent one is sealed before it moves.
SealInv ==
  /\ pc \notin {"down", "closed", "refused"} => key = pass
  /\ pc \in {"halted", "encrypting", "replacing", "moving"} => key # 0
  /\ pc = "replacing" => temp.form = "sealed"
  /\ pc = "moving" => sess.form = "sealed" /\ temp = Absent
  /\ SealedWhenClosed

LEMMA StepSealInv == SealInv /\ [Next]_vars => SealInv'
<1> SUFFICES ASSUME SealInv, [Next]_vars PROVE SealInv'
  OBVIOUS
<1> USE DEF SealInv, SealedWhenClosed
<1>1. CASE Setup BY <1>1 DEF Setup, files
<1>2. CASE Boot BY <1>2 DEF Boot, files
<1>3. CASE Decrypt BY <1>3 DEF Decrypt
<1>4. CASE Decrypted BY <1>4 DEF Decrypted
<1>5. CASE RefuseBoot BY <1>5 DEF RefuseBoot, files
<1>6. CASE Open BY <1>6 DEF Open
<1>7. CASE OpenFails BY <1>7 DEF OpenFails, files
<1>8. CASE Record BY <1>8 DEF Record
<1>9. CASE Halt
  <2>1. pc = "running" /\ pc' = (IF key # 0 THEN "halted" ELSE "closed")
        /\ UNCHANGED <<pass, key>>
    BY <1>9 DEF Halt
  <2> QED BY <2>1
<1>10. CASE Encrypt BY <1>10 DEF Encrypt
<1>11. CASE Encrypted BY <1>11 DEF Encrypted, Sealed
<1>12. CASE Replace BY <1>12 DEF Replace
<1>13. CASE Move BY <1>13 DEF Move
<1>14. CASE ShutdownFails BY <1>14 DEF ShutdownFails, files
<1>15. CASE Exit BY <1>15 DEF Exit, files
<1>16. CASE Crash BY <1>16 DEF Crash, files
<1>17. CASE UNCHANGED vars BY <1>17 DEF vars, files
<1> QED
  BY <1>1, <1>2, <1>3, <1>4, <1>5, <1>6, <1>7, <1>8, <1>9, <1>10, <1>11, <1>12,
     <1>13, <1>14, <1>15, <1>16, <1>17 DEF Next

\* With authentication configured, a shutdown that ends without an error leaves
\* one sealed file and no key, whatever half-written files earlier crashes and
\* failed shutdowns had left for it to run into.
THEOREM ClosedMeansSealed == Spec => []SealedWhenClosed
<1>1. Init => SealInv
  BY DEF Init, SealInv, SealedWhenClosed
<1>2. SealInv /\ [Next]_vars => SealInv'
  BY StepSealInv
<1>3. SealInv => SealedWhenClosed
  BY DEF SealInv
<1> QED
  BY <1>1, <1>2, <1>3, PTL DEF Spec

===============================================================================
