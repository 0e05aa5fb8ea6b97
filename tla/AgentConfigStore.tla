--------------------------- MODULE AgentConfigStore --------------------------
(***************************************************************************)
(* The assistant's model configuration is kept in two places: the address, *)
(* model and protocol in a file, the API key in the Windows credential     *)
(* store.  Save and Delete change both under a write lock and put the file *)
(* back when the key cannot follow; Public and Credentials read both under *)
(* a read lock.  The process may end between any two steps.                *)
(***************************************************************************)
EXTENDS Integers

CONSTANTS
  Configs,    \* what the file can hold: an address, a model and a protocol
  Keys,       \* valid API keys
  Requests,   \* slots for concurrent HTTP requests
  None        \* no file, no key

ASSUME NoneAssumption == None \notin Configs /\ None \notin Keys

VARIABLES
  file,       \* the configuration file
  key,        \* the credential
  pc,         \* where each request is
  job,        \* what each request carries, or has read
  confirmed,  \* history: the pair the last completed Save or Delete left
  torn        \* history: was an operation cut short between the two stores?

vars == <<file, key, pc, job, confirmed, torn>>

Reading == {"readKey", "read"}
Writing == {"write", "set", "remove", "deleteKey", "restore"}

Pair(c, k) == [config |-> c, key |-> k]

Pairs == [config : Configs \cup {None}, key : Keys \cup {None}]

Jobs == [config : Configs \cup {None}, key : Keys \cup {None}, previous : Configs \cup {None}]

NoJob == [config |-> None, key |-> None, previous |-> None]

TypeOK ==
  /\ file \in Configs \cup {None}
  /\ key \in Keys \cup {None}
  /\ pc \in [Requests -> {"idle"} \cup Reading \cup Writing]
  /\ job \in [Requests -> Jobs]
  /\ confirmed \in Pairs
  /\ torn \in BOOLEAN

Init ==
  /\ file = None /\ key = None
  /\ pc = [r \in Requests |-> "idle"]
  /\ job = [r \in Requests |-> NoJob]
  /\ confirmed = Pair(None, None)
  /\ torn = FALSE

Step(r, from, to) ==
  /\ pc[r] = from
  /\ pc' = [pc EXCEPT ![r] = to]

(* The store's RWMutex.                                                    *)
NobodyWrites == \A r \in Requests : pc[r] \notin Writing

Free == \A r \in Requests : pc[r] = "idle"

Completed(c, k) == confirmed' = Pair(c, k)

-----------------------------------------------------------------------------
(* Public and Credentials.                                                 *)

ReadConfigUnlocked(r) ==   \* variant: reads without the lock
  /\ Step(r, "idle", "readKey")
  /\ job' = [job EXCEPT ![r] = [NoJob EXCEPT !.config = file]]
  /\ UNCHANGED <<file, key, confirmed, torn>>

ReadConfig(r) ==
  /\ NobodyWrites
  /\ Step(r, "idle", "readKey")
  /\ job' = [job EXCEPT ![r] = [NoJob EXCEPT !.config = file]]
  /\ UNCHANGED <<file, key, confirmed, torn>>

ReadKey(r) ==
  /\ \/ Step(r, "readKey", "read") /\ job' = [job EXCEPT ![r].key = key]
     \/ Step(r, "readKey", "idle") /\ UNCHANGED job
  /\ UNCHANGED <<file, key, confirmed, torn>>

Return(r) ==
  /\ Step(r, "read", "idle")
  /\ UNCHANGED <<file, key, job, confirmed, torn>>

-----------------------------------------------------------------------------
(* Save: without a new key the existing one is kept, and there must be one. *)

SaveWithoutAnyKey(r, c, k) ==   \* variant: a first save needs no key
  /\ Free
  /\ Step(r, "idle", "write")
  /\ job' = [job EXCEPT ![r] = [config |-> c, key |-> k, previous |-> file]]
  /\ UNCHANGED <<file, key, confirmed, torn>>

SaveBegins(r, c, k) ==
  /\ Free
  /\ k # None \/ key # None
  /\ Step(r, "idle", "write")
  /\ job' = [job EXCEPT ![r] = [config |-> c, key |-> k, previous |-> file]]
  /\ UNCHANGED <<file, key, confirmed, torn>>

WriteConfig(r) ==
  /\ \/ /\ job[r].key = None
        /\ Step(r, "write", "idle")
        /\ file' = job[r].config
        /\ Completed(job[r].config, key)
     \/ /\ job[r].key # None
        /\ Step(r, "write", "set")
        /\ file' = job[r].config
        /\ UNCHANGED confirmed
     \/ /\ Step(r, "write", "idle")
        /\ UNCHANGED <<file, confirmed>>
  /\ UNCHANGED <<key, job, torn>>

SetKeyOrGiveUp(r) ==   \* variant: the file is not put back
  /\ \/ /\ Step(r, "set", "idle")
        /\ key' = job[r].key
        /\ Completed(job[r].config, job[r].key)
        /\ torn' = FALSE
     \/ /\ Step(r, "set", "idle")
        /\ UNCHANGED <<key, confirmed, torn>>
  /\ UNCHANGED <<file, job>>

SetKey(r) ==
  /\ \/ /\ Step(r, "set", "idle")
        /\ key' = job[r].key
        /\ Completed(job[r].config, job[r].key)
        /\ torn' = FALSE
     \/ /\ Step(r, "set", "restore")
        /\ UNCHANGED <<key, confirmed, torn>>
  /\ UNCHANGED <<file, job>>

(* restoreOptionalFile: the previous content, or no file.                  *)
Restore(r) ==
  /\ Step(r, "restore", "idle")
  /\ \/ /\ file' = job[r].previous
        /\ UNCHANGED torn
     \/ /\ torn' = (torn \/ file # job[r].previous)
        /\ UNCHANGED file
  /\ UNCHANGED <<key, job, confirmed>>

-----------------------------------------------------------------------------
(* Delete.                                                                 *)

DeleteBegins(r) ==
  /\ Free
  /\ Step(r, "idle", "remove")
  /\ job' = [job EXCEPT ![r] = [NoJob EXCEPT !.previous = file]]
  /\ UNCHANGED <<file, key, confirmed, torn>>

RemoveConfig(r) ==
  /\ \/ Step(r, "remove", "deleteKey") /\ file' = None
     \/ Step(r, "remove", "idle") /\ UNCHANGED file
  /\ UNCHANGED <<key, job, confirmed, torn>>

DeleteKey(r) ==
  /\ \/ /\ Step(r, "deleteKey", "idle")
        /\ key' = None
        /\ Completed(None, None)
        /\ torn' = FALSE
     \/ /\ Step(r, "deleteKey", "restore")
        /\ UNCHANGED <<key, confirmed, torn>>
  /\ UNCHANGED <<file, job>>

-----------------------------------------------------------------------------

(* The process ends, by a kill or an exit that does not wait for requests, *)
(* and starts again with what the two stores hold.                         *)
Crash ==
  /\ pc' = [r \in Requests |-> "idle"]
  /\ job' = [r \in Requests |-> NoJob]
  /\ torn' = (torn \/ Pair(file, key) # confirmed)
  /\ UNCHANGED <<file, key, confirmed>>

Read(r) == ReadConfig(r) \/ ReadKey(r) \/ Return(r)

Save(r) ==
  \/ \E c \in Configs, k \in Keys \cup {None} : SaveBegins(r, c, k)
  \/ WriteConfig(r) \/ SetKey(r)

Delete(r) == DeleteBegins(r) \/ RemoveConfig(r) \/ DeleteKey(r)

Next ==
  \/ \E r \in Requests : Read(r) \/ Save(r) \/ Delete(r) \/ Restore(r)
  \/ Crash

Spec == Init /\ [][Next]_vars

-----------------------------------------------------------------------------
(* Properties.                                                             *)

(* Between operations the two stores hold the pair that the last completed *)
(* Save or Delete left, although each changes them one after the other and *)
(* either change, or putting the file back, may fail; and a completed pair *)
(* is whole.  What is excepted is named: the process ended, or putting the *)
(* file back failed, between the two stores.  A later completed Save with  *)
(* a key, or Delete, ends the exception.                                   *)
StoredIsConfirmed ==
  ~torn =>
    /\ confirmed.config = None <=> confirmed.key = None
    /\ NobodyWrites => Pair(file, key) = confirmed

(* A call to the model never combines one address with the key of another: *)
(* whatever saves and deletions run beside it, the two reads of Public and *)
(* Credentials give one confirmed pair.                                    *)
ReadersSeeOnePair ==
  ~torn => \A r \in Requests : pc[r] = "read" => Pair(job[r].config, job[r].key) = confirmed

-----------------------------------------------------------------------------
(* The inductive invariant.                                                *)

(* The read-write lock.                                                    *)
OneWriter ==
  \A r, q \in Requests : pc[r] \in Writing /\ pc[q] # "idle" => q = r

(* What a writer has changed so far, and what it can put back.             *)
WriterKnows ==
  \A r \in Requests :
    /\ pc[r] \in {"write", "remove"} => file = job[r].previous
    /\ pc[r] \in {"write", "set"} => job[r].config \in Configs
    /\ pc[r] = "write" => job[r].key # None \/ key # None
    /\ pc[r] = "set" => job[r].key # None /\ file = job[r].config
    /\ pc[r] = "deleteKey" => file = None
    /\ pc[r] \in Writing /\ ~torn => Pair(job[r].previous, key) = confirmed

ReadSoFar ==
  ~torn => \A r \in Requests : pc[r] = "readKey" => job[r].config = confirmed.config

IInv ==
  /\ TypeOK /\ OneWriter /\ WriterKnows /\ ReadSoFar
  /\ StoredIsConfirmed /\ ReadersSeeOnePair
=============================================================================
