--------------------------- MODULE FilePublishStore ---------------------------
(***************************************************************************)
(* The publish store in one JSON file.  One relay process owns the data    *)
(* directory.  A writer holds the store's mutex from before it loads the   *)
(* file until it has renamed the rewritten copy over it; search, discover  *)
(* and stats read the file without the mutex.  The process may die at any  *)
(* point and start again on what the directory holds; the page cache       *)
(* survives it (loss of power is not modelled: save does not sync).        *)
(***************************************************************************)
EXTENDS PublishRecord, Naturals

CONSTANTS
    Handlers, NoRequest, NoStatus,
    Free,         \* nobody holds the mutex
    Torn,         \* a file that is only partly written: not parseable
    Absent,       \* no temporary file
    MaxRequests   \* bound: requests served in one behaviour

ASSUME MaxRequestsIsNat == MaxRequests \in Nat
ASSUME NoRequestIsFresh == NoRequest \notin Request
ASSUME NoStatusIsFresh == NoStatus \notin Successes \union Refusals
ASSUME FreeIsFresh == Free \notin Handlers

VARIABLES
    file,         \* publish_records.json; an absent file holds no records
    tmp,          \* publish_records.json.tmp
    lock,         \* FilePublishStore.lock
    pc, req, status,
    loaded,       \* the records a writer has loaded and changed
    served        \* requests begun so far, against MaxRequests

vars == <<file, tmp, lock, pc, req, status, loaded, served>>

Contents == [Ids -> Entry]
NoRecords == [i \in Ids |-> NoRecord]

ASSUME TornIsFresh == Torn \notin Contents

(* Where a handler is inside the critical section.                         *)
Critical == {"load", "write", "writing", "rename"}

TypeOK ==
    /\ file \in Contents \union {Torn}
    /\ tmp \in Contents \union {Torn, Absent}
    /\ lock \in Handlers \union {Free}
    /\ pc \in [Handlers -> {"idle", "lock", "done"} \union Critical]
    /\ req \in [Handlers -> Request \union {NoRequest}]
    /\ status \in [Handlers -> Successes \union Refusals \union {NoStatus}]
    /\ loaded \in [Handlers -> Contents]
    /\ served \in 0 .. MaxRequests
    /\ \A h \in Handlers : pc[h] # "idle" => req[h] \in Request

(* The relay starts on an empty data directory.                            *)
Init ==
    /\ file = NoRecords
    /\ tmp = Absent
    /\ lock = Free
    /\ pc = [h \in Handlers |-> "idle"]
    /\ req = [h \in Handlers |-> NoRequest]
    /\ status = [h \in Handlers |-> NoStatus]
    /\ loaded = [h \in Handlers |-> NoRecords]
    /\ served = 0

-----------------------------------------------------------------------------
Begin(h, r) ==
    /\ pc[h] = "idle"
    /\ served < MaxRequests
    /\ served' = served + 1
    /\ pc' = [pc EXCEPT ![h] = "lock"]
    /\ req' = [req EXCEPT ![h] = r]
    /\ UNCHANGED <<file, tmp, lock, status, loaded>>

(* The slot of a handler that has answered keeps nothing.                  *)
Release(h) ==
    /\ pc' = [pc EXCEPT ![h] = "idle"]
    /\ req' = [req EXCEPT ![h] = NoRequest]
    /\ status' = [status EXCEPT ![h] = NoStatus]
    /\ loaded' = [loaded EXCEPT ![h] = NoRecords]
    /\ UNCHANGED served

Lock(h) ==
    /\ pc[h] = "lock"
    /\ lock = Free
    /\ lock' = h
    /\ pc' = [pc EXCEPT ![h] = "load"]
    /\ UNCHANGED <<file, tmp, req, status, loaded, served>>

(* Mutant: a refusal returns with the guard still held.                    *)
LoadLeakingGuard(h) ==
    LET i == req[h].id
        s == Status(file[i], req[h])
    IN  /\ pc[h] = "load"
        /\ file # Torn
        /\ IF s \in Successes
           THEN /\ pc' = [pc EXCEPT ![h] = "write"]
                /\ loaded' = [loaded EXCEPT ![h] =
                                 [file EXCEPT ![i] = Effect(file[i], req[h])]]
           ELSE /\ pc' = [pc EXCEPT ![h] = "done"]
                /\ UNCHANGED loaded
        /\ status' = [status EXCEPT ![h] = s]
        /\ UNCHANGED <<file, tmp, lock, req, served>>

(* Mutant: a file that cannot be read counts as an empty store.            *)
LoadOrDefault(h) ==
    \E base \in {file, NoRecords} :
        LET i == req[h].id
            s == Status(base[i], req[h])
        IN  /\ pc[h] = "load"
            /\ IF s \in Successes
               THEN /\ pc' = [pc EXCEPT ![h] = "write"]
                    /\ loaded' = [loaded EXCEPT ![h] =
                                     [base EXCEPT ![i] = Effect(base[i], req[h])]]
                    /\ UNCHANGED lock
               ELSE /\ pc' = [pc EXCEPT ![h] = "done"]
                    /\ lock' = Free
                    /\ UNCHANGED loaded
            /\ status' = [status EXCEPT ![h] = s]
            /\ UNCHANGED <<file, tmp, req, served>>

(* load and the checks after it: a refusal returns and drops the guard, a  *)
(* success changes the loaded records and goes on to save them.            *)
Load(h) ==
    LET i == req[h].id
        s == Status(file[i], req[h])
    IN  /\ pc[h] = "load"
        /\ file # Torn
        /\ IF s \in Successes
           THEN /\ pc' = [pc EXCEPT ![h] = "write"]
                /\ loaded' = [loaded EXCEPT ![h] =
                                 [file EXCEPT ![i] = Effect(file[i], req[h])]]
                /\ UNCHANGED lock
           ELSE /\ pc' = [pc EXCEPT ![h] = "done"]
                /\ lock' = Free
                /\ UNCHANGED loaded
        /\ status' = [status EXCEPT ![h] = s]
        /\ UNCHANGED <<file, tmp, req, served>>

(* Mutant: the store is truncated and rewritten in place.                  *)
OpenInPlace(h) ==
    /\ pc[h] = "write"
    /\ file' = Torn
    /\ pc' = [pc EXCEPT ![h] = "writing"]
    /\ UNCHANGED <<tmp, lock, req, status, loaded, served>>

(* save: create or truncate the temporary file ...                         *)
OpenTmp(h) ==
    /\ pc[h] = "write"
    /\ tmp' = Torn
    /\ pc' = [pc EXCEPT ![h] = "writing"]
    /\ UNCHANGED <<file, lock, req, status, loaded, served>>

(* ... write it to the end ...                                             *)
WriteTmp(h) ==
    /\ pc[h] = "writing"
    /\ tmp' = loaded[h]
    /\ pc' = [pc EXCEPT ![h] = "rename"]
    /\ UNCHANGED <<file, lock, req, status, loaded, served>>

(* ... and rename it over the store; the guard is dropped on return.       *)
Rename(h) ==
    /\ pc[h] = "rename"
    /\ file' = tmp
    /\ tmp' = Absent
    /\ lock' = Free
    /\ pc' = [pc EXCEPT ![h] = "done"]
    /\ UNCHANGED <<req, status, loaded, served>>

(* Mutant: the result of save is dropped.                                  *)
StorageFailureIgnored(h) ==
    /\ pc[h] \in {"write", "writing", "rename"}
    /\ lock' = Free
    /\ pc' = [pc EXCEPT ![h] = "done"]
    /\ UNCHANGED <<file, tmp, req, status, loaded, served>>

(* Reading, parsing, writing or renaming fails: the error propagates, the  *)
(* guard is dropped, the temporary file stays as it is, and the handler    *)
(* answers storage_unavailable.                                            *)
StorageFails(h) ==
    /\ pc[h] \in Critical
    /\ lock' = Free
    /\ Release(h)
    /\ UNCHANGED <<file, tmp>>

Reply(h) ==
    /\ pc[h] = "done"
    /\ Release(h)
    /\ UNCHANGED <<file, tmp, lock>>

(* Mutant: start-up takes over a temporary file that was left behind.      *)
CrashAdoptingTmp ==
    /\ \E h \in Handlers : pc[h] # "idle"
    /\ lock' = Free
    /\ file' = IF tmp \in {Torn, Absent} THEN file ELSE tmp
    /\ pc' = [h \in Handlers |-> "idle"]
    /\ req' = [h \in Handlers |-> NoRequest]
    /\ status' = [h \in Handlers |-> NoStatus]
    /\ loaded' = [h \in Handlers |-> NoRecords]
    /\ UNCHANGED <<tmp, served>>

(* The process dies and is started again: threads and mutex are gone, the  *)
(* files stay.                                                             *)
Crash ==
    /\ \E h \in Handlers : pc[h] # "idle"
    /\ lock' = Free
    /\ pc' = [h \in Handlers |-> "idle"]
    /\ req' = [h \in Handlers |-> NoRequest]
    /\ status' = [h \in Handlers |-> NoStatus]
    /\ loaded' = [h \in Handlers |-> NoRecords]
    /\ UNCHANGED <<file, tmp, served>>

Step(h) ==
    \/ Lock(h) \/ Load(h) \/ OpenTmp(h) \/ WriteTmp(h) \/ Rename(h)
    \/ StorageFails(h) \/ Reply(h)

Quiescent ==
    /\ served = MaxRequests
    /\ \A h \in Handlers : pc[h] = "idle"
    /\ UNCHANGED vars

Next ==
    \/ \E h \in Handlers : Step(h) \/ \E r \in Request : Begin(h, r)
    \/ Crash
    \/ Quiescent

Spec == Init /\ [][Next]_vars

(* Handler threads keep running.  The mutex promises no order, but a       *)
(* behaviour has finitely many requests, so it is free again in the end.   *)
Fairness == \A h \in Handlers : WF_vars(Step(h))
FairSpec == Spec /\ Fairness

-----------------------------------------------------------------------------
(* The abstract call: served at the rename or, for a refusal, at the load. *)
AbstractCall(h) ==
    [st |-> CASE pc[h] \in {"lock"} \union Critical -> "called"
              [] OTHER -> pc[h],
     req |-> req[h],
     status |-> IF pc[h] = "done" THEN status[h] ELSE NoStatus]

Directory == INSTANCE PublishDirectory
                 WITH records <- file,
                      calls <- [h \in Handlers |-> AbstractCall(h)]

(* The file store implements the abstract directory across crashes and     *)
(* failed saves: a request is applied whole or not at all, and one that    *)
(* was answered is never undone.                                           *)
ImplementsDirectory == Directory!Spec

(* Author deletion is final, also across a crash between any two steps of  *)
(* save and for handlers queued on the mutex when it happens.              *)
AuthorDeletionFinal == Directory!AuthorDeletionFinal

(* The answer a handler has computed agrees with the file until the client *)
(* has it.                                                                 *)
AnswersStayTrue == Directory!AnswersStayTrue

(* search, discover and stats read without the mutex: they never meet a    *)
(* half-written file, also after a crash in the middle of save.            *)
ReadersSeeWholeFile == file # Torn

(* What a writer is about to save differs from the file only in the record *)
(* its request names: no other handler's update can be undone by it.       *)
WritersKeepOtherRecords ==
    \A h \in Handlers : pc[h] \in {"write", "writing", "rename"} =>
        \A i \in Ids \ {req[h].id} : loaded[h][i] = file[i]

(* The mutex is held exactly by the handler inside the critical section:   *)
(* no error path or early return leaks it.                                 *)
MutexHeldInside ==
    \A h \in Handlers : pc[h] \in Critical <=> lock = h

(* Every request is answered or its connection dropped.                    *)
EveryRequestEnds == \A h \in Handlers : pc[h] # "idle" ~> pc[h] = "idle"

=============================================================================
