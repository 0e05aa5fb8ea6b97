----------------------- MODULE AgentConfigStoreProofs ------------------------
(***************************************************************************)
(* Proofs about AgentConfigStore, for any configurations and keys and any  *)
(* number of concurrent requests.                                          *)
(***************************************************************************)
EXTENDS AgentConfigStore, TLAPS

LEMMA InitIInv == Init => IInv
<1> SUFFICES ASSUME Init PROVE IInv
  OBVIOUS
<1>1. NoJob \in Jobs /\ Pair(None, None) \in Pairs
  BY DEF NoJob, Jobs, Pair, Pairs
<1>2. TypeOK
  BY <1>1 DEF Init, TypeOK
<1>3. OneWriter /\ WriterKnows /\ ReadSoFar /\ ReadersSeeOnePair
  BY DEF Init, OneWriter, WriterKnows, ReadSoFar, ReadersSeeOnePair, Writing
<1>4. StoredIsConfirmed
  BY DEF Init, StoredIsConfirmed, Pair
<1>5. QED
  BY <1>2, <1>3, <1>4 DEF IInv

LEMMA ReadKeeps ==
  ASSUME IInv, NEW r \in Requests, Read(r)
  PROVE  IInv'
<1> USE DEF IInv, Step, Reading, Writing
<1>1. CASE ReadConfig(r)
  <2> USE <1>1 DEF ReadConfig
  <2>1. /\ job' \in [Requests -> Jobs]
        /\ job'[r].config = file
        /\ \A q \in Requests \ {r} : job'[q] = job[q]
    BY NoneAssumption DEF TypeOK, Jobs, NoJob
  <2>2. TypeOK' /\ OneWriter'
    BY <2>1 DEF TypeOK, OneWriter, NobodyWrites
  <2>3. WriterKnows'
    BY <2>1 DEF WriterKnows, TypeOK
  <2>4. ReadSoFar' /\ StoredIsConfirmed' /\ ReadersSeeOnePair'
    BY <2>1 DEF ReadSoFar, StoredIsConfirmed, ReadersSeeOnePair, NobodyWrites, Pair, TypeOK
  <2>5. QED
    BY <2>2, <2>3, <2>4
<1>2. CASE ReadKey(r)
  <2>1. CASE pc' = [pc EXCEPT ![r] = "idle"] /\ UNCHANGED job
    BY <1>2, <2>1
    DEF ReadKey, TypeOK, OneWriter, WriterKnows, ReadSoFar, StoredIsConfirmed,
        ReadersSeeOnePair, NobodyWrites, Pair
  <2>2. CASE Step(r, "readKey", "read") /\ job' = [job EXCEPT ![r].key = key]
    <3> USE <1>2, <2>2 DEF ReadKey
    <3>1. /\ job' \in [Requests -> Jobs]
          /\ job'[r].config = job[r].config /\ job'[r].key = key
          /\ \A q \in Requests \ {r} : job'[q] = job[q]
      BY DEF TypeOK, Jobs
    <3>2. NobodyWrites
      BY DEF OneWriter, NobodyWrites
    <3>3. TypeOK' /\ OneWriter'
      BY <3>1 DEF TypeOK, OneWriter
    <3>4. WriterKnows'
      BY <3>1 DEF WriterKnows, TypeOK
    <3>5. ReadSoFar' /\ StoredIsConfirmed'
      BY <3>1, <3>2 DEF ReadSoFar, StoredIsConfirmed, NobodyWrites, Pair, TypeOK
    <3>6. ReadersSeeOnePair'
      <4>1. ~torn => Pair(job[r].config, key) = confirmed
        BY <3>2 DEF ReadSoFar, StoredIsConfirmed, Pair
      <4>2. QED
        BY <3>1, <4>1 DEF ReadersSeeOnePair, TypeOK
    <3>7. QED
      BY <3>3, <3>4, <3>5, <3>6
  <2>3. QED
    BY <1>2, <2>1, <2>2 DEF ReadKey
<1>3. CASE Return(r)
  BY <1>3
  DEF Return, TypeOK, OneWriter, WriterKnows, ReadSoFar, StoredIsConfirmed,
      ReadersSeeOnePair, NobodyWrites, Pair
<1>4. QED
  BY <1>1, <1>2, <1>3 DEF Read

(* A change begins when nobody holds the lock: the stores hold the         *)
(* confirmed pair, and what the request puts aside is the file.            *)
LEMMA ChangeBegins ==
  ASSUME IInv, NEW r \in Requests, Free, NEW to \in {"write", "remove"},
         Step(r, "idle", to),
         NEW c \in Configs \cup {None}, NEW k \in Keys \cup {None},
         to = "write" => c \in Configs /\ (k # None \/ key # None),
         job' = [job EXCEPT ![r] = [config |-> c, key |-> k, previous |-> file]],
         UNCHANGED <<file, key, confirmed, torn>>
  PROVE  IInv'
<1> USE DEF IInv, Step, Reading, Writing, Free
<1>1. job' \in [Requests -> Jobs]
  BY DEF TypeOK, Jobs
<1>2. TypeOK' /\ OneWriter'
  BY <1>1 DEF TypeOK, OneWriter
<1>3. ~torn => Pair(file, key) = confirmed
  BY DEF StoredIsConfirmed, NobodyWrites
<1>4. WriterKnows'
  BY <1>3 DEF WriterKnows, TypeOK
<1>5. ReadSoFar' /\ StoredIsConfirmed' /\ ReadersSeeOnePair'
  BY DEF ReadSoFar, StoredIsConfirmed, ReadersSeeOnePair, NobodyWrites, TypeOK
<1>6. QED
  BY <1>2, <1>4, <1>5

LEMMA SaveKeeps ==
  ASSUME IInv, NEW r \in Requests, Save(r)
  PROVE  IInv'
<1> USE DEF IInv, Step, Reading, Writing
<1>1. ASSUME NEW c \in Configs, NEW k \in Keys \cup {None}, SaveBegins(r, c, k)
      PROVE  IInv'
  BY <1>1, ChangeBegins DEF SaveBegins
<1>2. CASE WriteConfig(r)
  <2> USE <1>2 DEF WriteConfig
  <2>1. /\ job[r] \in Jobs /\ job[r].config \in Configs /\ file = job[r].previous
        /\ \A q \in Requests \ {r} : pc[q] = "idle"
        /\ job[r].key = None => key # None
    BY DEF TypeOK, WriterKnows, OneWriter
  <2>2. CASE /\ pc' = [pc EXCEPT ![r] = "idle"] /\ file' = job[r].config
             /\ Completed(job[r].config, key) /\ job[r].key = None
    <3>1. confirmed' = Pair(job[r].config, key) /\ confirmed' \in Pairs
      BY <2>1, <2>2 DEF Completed, Pair, Pairs, TypeOK
    <3>2. TypeOK'
      BY <2>1, <2>2, <3>1 DEF TypeOK
    <3>3. OneWriter' /\ WriterKnows' /\ ReadSoFar' /\ ReadersSeeOnePair'
      BY <2>1, <2>2 DEF OneWriter, WriterKnows, ReadSoFar, ReadersSeeOnePair, TypeOK
    <3>4. StoredIsConfirmed'
      BY <2>1, <2>2, <3>1, NoneAssumption DEF StoredIsConfirmed, Pair
    <3>5. QED
      BY <3>2, <3>3, <3>4
  <2>3. CASE /\ pc' = [pc EXCEPT ![r] = "set"] /\ file' = job[r].config
             /\ UNCHANGED confirmed /\ job[r].key # None
    <3>1. TypeOK' /\ OneWriter'
      BY <2>1, <2>3 DEF TypeOK, OneWriter
    <3>2. WriterKnows'
      BY <2>1, <2>3 DEF WriterKnows, TypeOK
    <3>3. ReadSoFar' /\ ReadersSeeOnePair' /\ StoredIsConfirmed'
      BY <2>1, <2>3 DEF ReadSoFar, ReadersSeeOnePair, StoredIsConfirmed, NobodyWrites, TypeOK
    <3>4. QED
      BY <3>1, <3>2, <3>3
  <2>4. CASE pc' = [pc EXCEPT ![r] = "idle"] /\ UNCHANGED <<file, confirmed>>
    <3>1. TypeOK' /\ OneWriter' /\ WriterKnows' /\ ReadSoFar' /\ ReadersSeeOnePair'
      BY <2>1, <2>4 DEF TypeOK, OneWriter, WriterKnows, ReadSoFar, ReadersSeeOnePair
    <3>2. StoredIsConfirmed'
      BY <2>1, <2>4 DEF StoredIsConfirmed, WriterKnows, Pair
    <3>3. QED
      BY <3>1, <3>2
  <2>5. QED
    BY <2>2, <2>3, <2>4
<1>3. CASE SetKey(r)
  <2> USE <1>3 DEF SetKey
  <2>1. /\ job[r] \in Jobs /\ job[r].config \in Configs /\ job[r].key # None
        /\ file = job[r].config
        /\ \A q \in Requests \ {r} : pc[q] = "idle"
    BY DEF TypeOK, WriterKnows, OneWriter
  <2>2. CASE /\ pc' = [pc EXCEPT ![r] = "idle"] /\ key' = job[r].key
             /\ Completed(job[r].config, job[r].key) /\ torn' = FALSE
    <3>1. /\ confirmed' = Pair(file', key') /\ confirmed' \in Pairs
          /\ key' \in Keys
      BY <2>1, <2>2 DEF Completed, Pair, Pairs, Jobs
    <3>2. TypeOK'
      BY <2>1, <2>2, <3>1 DEF TypeOK
    <3>3. OneWriter' /\ WriterKnows' /\ ReadSoFar' /\ ReadersSeeOnePair'
      BY <2>1, <2>2 DEF OneWriter, WriterKnows, ReadSoFar, ReadersSeeOnePair, TypeOK
    <3>4. StoredIsConfirmed'
      BY <2>1, <2>2, <3>1, NoneAssumption DEF StoredIsConfirmed, Pair
    <3>5. QED
      BY <3>2, <3>3, <3>4
  <2>3. CASE pc' = [pc EXCEPT ![r] = "restore"] /\ UNCHANGED <<key, confirmed, torn>>
    <3>1. TypeOK' /\ OneWriter' /\ WriterKnows' /\ ReadSoFar' /\ ReadersSeeOnePair'
      BY <2>1, <2>3 DEF TypeOK, OneWriter, WriterKnows, ReadSoFar, ReadersSeeOnePair
    <3>2. StoredIsConfirmed'
      BY <2>1, <2>3 DEF StoredIsConfirmed, NobodyWrites, TypeOK
    <3>3. QED
      BY <3>1, <3>2
  <2>4. QED
    BY <2>2, <2>3
<1>4. QED
  BY <1>1, <1>2, <1>3 DEF Save

LEMMA RestoreKeeps ==
  ASSUME IInv, NEW r \in Requests, Restore(r)
  PROVE  IInv'
<1> USE DEF IInv, Step, Reading, Writing, Restore
<1>1. /\ job[r] \in Jobs /\ job[r].previous \in Configs \cup {None}
      /\ \A q \in Requests \ {r} : pc[q] = "idle"
      /\ ~torn => Pair(job[r].previous, key) = confirmed
  BY DEF TypeOK, Jobs, WriterKnows, OneWriter
<1>2. file' = job[r].previous \/ torn'
  BY <1>1
<1>3. torn => torn'
  BY <1>1
<1>4. TypeOK' /\ OneWriter' /\ WriterKnows'
  BY <1>1, <1>3 DEF TypeOK, OneWriter, WriterKnows
<1>5. ReadSoFar' /\ ReadersSeeOnePair'
  BY <1>1, <1>3 DEF ReadSoFar, ReadersSeeOnePair, TypeOK
<1>6. StoredIsConfirmed'
  BY <1>1, <1>2, <1>3 DEF StoredIsConfirmed
<1>7. QED
  BY <1>4, <1>5, <1>6

LEMMA DeleteKeeps ==
  ASSUME IInv, NEW r \in Requests, Delete(r)
  PROVE  IInv'
<1> USE DEF IInv, Step, Reading, Writing
<1>1. CASE DeleteBegins(r)
  <2>1. job' = [job EXCEPT ![r] = [config |-> None, key |-> None, previous |-> file]]
    <3>1. [NoJob EXCEPT !.previous = file] = [config |-> None, key |-> None, previous |-> file]
      BY DEF NoJob
    <3>2. QED
      BY <1>1, <3>1 DEF DeleteBegins
  <2>2. Free /\ Step(r, "idle", "remove") /\ UNCHANGED <<file, key, confirmed, torn>>
    BY <1>1 DEF DeleteBegins
  <2>3. None \in Configs \cup {None} /\ None \in Keys \cup {None}
    OBVIOUS
  <2>4. QED
    BY <2>1, <2>2, <2>3, ChangeBegins
<1>2. CASE RemoveConfig(r)
  <2> USE <1>2 DEF RemoveConfig
  <2>1. file = job[r].previous /\ \A q \in Requests \ {r} : pc[q] = "idle"
    BY DEF WriterKnows, OneWriter, TypeOK
  <2>2. CASE pc' = [pc EXCEPT ![r] = "deleteKey"] /\ file' = None
    BY <2>1, <2>2
    DEF TypeOK, OneWriter, WriterKnows, ReadSoFar, ReadersSeeOnePair, StoredIsConfirmed,
        NobodyWrites
  <2>3. CASE pc' = [pc EXCEPT ![r] = "idle"] /\ UNCHANGED file
    BY <2>1, <2>3
    DEF TypeOK, OneWriter, WriterKnows, ReadSoFar, ReadersSeeOnePair, StoredIsConfirmed
  <2>4. QED
    BY <2>2, <2>3
<1>3. CASE DeleteKey(r)
  <2> USE <1>3 DEF DeleteKey
  <2>1. file = None /\ \A q \in Requests \ {r} : pc[q] = "idle"
    BY DEF WriterKnows, OneWriter, TypeOK
  <2>2. CASE /\ pc' = [pc EXCEPT ![r] = "idle"] /\ key' = None
             /\ Completed(None, None) /\ torn' = FALSE
    BY <2>1, <2>2
    DEF TypeOK, OneWriter, WriterKnows, ReadSoFar, ReadersSeeOnePair, StoredIsConfirmed,
        Completed, Pair, Pairs
  <2>3. CASE pc' = [pc EXCEPT ![r] = "restore"] /\ UNCHANGED <<key, confirmed, torn>>
    BY <2>1, <2>3
    DEF TypeOK, OneWriter, WriterKnows, ReadSoFar, ReadersSeeOnePair, StoredIsConfirmed,
        NobodyWrites
  <2>4. QED
    BY <2>2, <2>3
<1>4. QED
  BY <1>1, <1>2, <1>3 DEF Delete

LEMMA CrashKeeps ==
  ASSUME IInv, Crash
  PROVE  IInv'
<1>1. NoJob \in Jobs
  BY DEF NoJob, Jobs
<1>2. (~torn)' => ~torn /\ Pair(file, key) = confirmed
  BY DEF Crash, IInv, TypeOK
<1>3. TypeOK' /\ OneWriter' /\ WriterKnows' /\ ReadSoFar' /\ ReadersSeeOnePair'
  BY <1>1
  DEF Crash, IInv, TypeOK, OneWriter, WriterKnows, ReadSoFar, ReadersSeeOnePair, Writing
<1>4. StoredIsConfirmed'
  BY <1>2 DEF Crash, IInv, StoredIsConfirmed, Pair
<1>5. QED
  BY <1>3, <1>4 DEF IInv

LEMMA NextIInv ==
  ASSUME IInv, [Next]_vars
  PROVE  IInv'
<1>1. CASE Next
  BY <1>1, ReadKeeps, SaveKeeps, DeleteKeeps, RestoreKeeps, CrashKeeps DEF Next
<1>2. CASE UNCHANGED vars
  BY <1>2
  DEF vars, IInv, TypeOK, OneWriter, WriterKnows, ReadSoFar, StoredIsConfirmed,
      ReadersSeeOnePair, NobodyWrites, Pair
<1>3. QED
  BY <1>1, <1>2

-----------------------------------------------------------------------------

(* The invariant of ConfigStore's four operations and of crashes.          *)
THEOREM Invariance == Spec => []IInv
BY InitIInv, NextIInv, PTL DEF Spec

(* Save and Delete (config.go) leave a confirmed, whole pair in the file   *)
(* and the credential store, or an operation was cut short between them.   *)
THEOREM PairIsStored == Spec => []StoredIsConfirmed
BY Invariance, PTL DEF IInv

(* Public and Credentials (config.go) never mix two confirmed pairs.       *)
THEOREM PairIsRead == Spec => []ReadersSeeOnePair
BY Invariance, PTL DEF IInv
=============================================================================
