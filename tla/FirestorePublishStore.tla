------------------------ MODULE FirestorePublishStore ------------------------
(***************************************************************************)
(* The publish store on Firestore.  Any number of relay instances share    *)
(* one collection and hold no lock across it: an operation reads the       *)
(* document, decides, and commits the new record under a precondition      *)
(* (the update time it read, or that no document exists).  Every HTTP call *)
(* has a timeout, so a handler may give up on a commit that Firestore      *)
(* still applies later.                                                    *)
(*                                                                         *)
(* Firestore itself is external: a commit is atomic, it is rejected when   *)
(* its precondition does not hold, and the update time of a document grows *)
(* with every change (a write that changes nothing may leave it alone).    *)
(* An instance that dies is its handlers giving up one by one: they share  *)
(* nothing that an operation of this store depends on.                     *)
(***************************************************************************)
EXTENDS PublishRecord, Naturals

CONSTANTS
    Handlers, NoRequest, NoStatus,
    MaxRequests   \* bound: requests served in one behaviour

ASSUME MaxRequestsIsNat == MaxRequests \in Nat
ASSUME NoRequestIsFresh == NoRequest \notin Request
ASSUME NoStatusIsFresh == NoStatus \notin Successes \union Refusals

VARIABLES
    records,      \* Firestore: the record of each document, or NoRecord
    updateTime,   \* Firestore: update time of each document, 0 when missing
    pc,           \* where each handler is
    req,          \* the request it serves
    snap,         \* the entry it read
    pre,          \* the precondition it commits under: an update time, or
                  \* 0 for FirestorePrecondition::Missing
    status,       \* the answer it is about to give
    served        \* requests begun so far, against MaxRequests

storeVars == <<records, updateTime>>
vars == <<records, updateTime, pc, req, snap, pre, status, served>>

TypeOK ==
    /\ records \in [Ids -> Entry]
    /\ updateTime \in [Ids -> Nat]
    /\ pc \in [Handlers -> {"idle", "get", "commit", "committed", "done", "lost"}]
    /\ req \in [Handlers -> Request \union {NoRequest}]
    /\ snap \in [Handlers -> Entry]
    /\ pre \in [Handlers -> Nat]
    /\ status \in [Handlers -> Successes \union Refusals \union {NoStatus}]
    /\ served \in 0 .. MaxRequests
    /\ \A h \in Handlers : pc[h] # "idle" => req[h] \in Request

Init ==
    /\ records = [i \in Ids |-> NoRecord]
    /\ updateTime = [i \in Ids |-> 0]
    /\ pc = [h \in Handlers |-> "idle"]
    /\ req = [h \in Handlers |-> NoRequest]
    /\ snap = [h \in Handlers |-> NoRecord]
    /\ pre = [h \in Handlers |-> 0]
    /\ status = [h \in Handlers |-> NoStatus]
    /\ served = 0

-----------------------------------------------------------------------------
(* A connection is accepted and its request reaches the store: publish,    *)
(* delete, or an administrator's hide or restore.                          *)
Begin(h, r) ==
    /\ pc[h] = "idle"
    /\ served < MaxRequests
    /\ served' = served + 1
    /\ pc' = [pc EXCEPT ![h] = "get"]
    /\ req' = [req EXCEPT ![h] = r]
    /\ UNCHANGED <<records, updateTime, snap, pre, status>>

(* The handler is done with its request: the slot keeps nothing of it.     *)
Release(h) ==
    /\ pc' = [pc EXCEPT ![h] = "idle"]
    /\ req' = [req EXCEPT ![h] = NoRequest]
    /\ snap' = [snap EXCEPT ![h] = NoRecord]
    /\ pre' = [pre EXCEPT ![h] = 0]
    /\ status' = [status EXCEPT ![h] = NoStatus]
    /\ UNCHANGED served

(* get_record and the checks that follow it: a refusal is answered from    *)
(* what was read, a success goes on to commit_record.                      *)
GetRecord(h) ==
    LET i == req[h].id
        s == Status(records[i], req[h])
    IN  /\ pc[h] = "get"
        /\ IF s \in Successes
           THEN /\ pc' = [pc EXCEPT ![h] = "commit"]
                /\ snap' = [snap EXCEPT ![h] = records[i]]
                /\ pre' = [pre EXCEPT ![h] = updateTime[i]]
                /\ UNCHANGED status
           ELSE /\ pc' = [pc EXCEPT ![h] = "done"]
                /\ status' = [status EXCEPT ![h] = s]
                /\ UNCHANGED <<snap, pre>>
        /\ UNCHANGED <<records, updateTime, req, served>>

(* get_json fails or times out, or the handler dies: storage_unavailable.  *)
GetFails(h) ==
    /\ pc[h] = "get"
    /\ Release(h)
    /\ UNCHANGED storeVars

(* Mutant: the commit asks that the document exists, not for its version.  *)
PreconditionExists(h) == pre[h] = 0 <=> updateTime[req[h].id] = 0

(* Firestore: does the precondition of the commit of h hold?               *)
PreconditionHolds(h) == pre[h] = updateTime[req[h].id]

(* Firestore: the document takes the record the handler computed.          *)
WriteDocument(h) ==
    LET i == req[h].id
        next == Effect(snap[h], req[h])
    IN  /\ records' = [records EXCEPT ![i] = next]
        /\ \/ updateTime' = [updateTime EXCEPT ![i] = @ + 1]
           \/ next = records[i] /\ UNCHANGED updateTime

(* Firestore applies the commit; its response is on the way.               *)
CommitApplies(h) ==
    /\ pc[h] = "commit"
    /\ PreconditionHolds(h)
    /\ WriteDocument(h)
    /\ pc' = [pc EXCEPT ![h] = "committed"]
    /\ status' = [status EXCEPT ![h] = Status(snap[h], req[h])]
    /\ UNCHANGED <<req, snap, pre, served>>

(* Mutant: the HTTP status of the commit response is not looked at.        *)
CommitRejectionIgnored(h) ==
    /\ pc[h] = "commit"
    /\ ~PreconditionHolds(h)
    /\ pc' = [pc EXCEPT ![h] = "committed"]
    /\ status' = [status EXCEPT ![h] = Status(snap[h], req[h])]
    /\ UNCHANGED <<records, updateTime, req, snap, pre, served>>

(* Firestore rejects the commit: post_json bails out on the HTTP status    *)
(* and the handler answers storage_unavailable.                            *)
CommitRejected(h) ==
    /\ pc[h] = "commit"
    /\ ~PreconditionHolds(h)
    /\ Release(h)
    /\ UNCHANGED storeVars

(* Mutant: a commit that times out is tried again, without end.            *)
CommitTimeoutRetried(h) ==
    /\ pc[h] = "commit"
    /\ pc' = [pc EXCEPT ![h] = "get"]
    /\ UNCHANGED <<records, updateTime, req, snap, pre, status, served>>

(* The commit request times out (or the handler dies) before Firestore has *)
(* decided: the handler answers storage_unavailable, the commit lives on.  *)
CommitTimesOut(h) ==
    /\ pc[h] = "commit"
    /\ pc' = [pc EXCEPT ![h] = "lost"]
    /\ UNCHANGED <<records, updateTime, req, snap, pre, status, served>>

(* Mutant: a lost response is taken for a commit that was not applied.     *)
LostResponseRetried(h) ==
    /\ pc[h] = "committed"
    /\ pc' = [pc EXCEPT ![h] = "get"]
    /\ status' = [status EXCEPT ![h] = NoStatus]
    /\ UNCHANGED <<records, updateTime, req, snap, pre, served>>

(* The commit was applied but its response is lost, cut off or unreadable: *)
(* storage_unavailable for a request that took effect.                     *)
ResponseLost(h) ==
    /\ pc[h] = "committed"
    /\ Release(h)
    /\ UNCHANGED storeVars

CommitSucceeds(h) ==
    /\ pc[h] = "committed"
    /\ pc' = [pc EXCEPT ![h] = "done"]
    /\ UNCHANGED <<records, updateTime, req, snap, pre, status, served>>

(* The handler writes the HTTP response, or the connection is gone.        *)
Reply(h) ==
    /\ pc[h] = "done"
    /\ Release(h)
    /\ UNCHANGED storeVars

(* Firestore gets to an abandoned commit: it applies it, or the commit     *)
(* fails its precondition or never arrives.                                *)
LateCommitApplies(h) ==
    /\ pc[h] = "lost"
    /\ PreconditionHolds(h)
    /\ WriteDocument(h)
    /\ Release(h)

LateCommitVanishes(h) ==
    /\ pc[h] = "lost"
    /\ Release(h)
    /\ UNCHANGED storeVars

Step(h) ==
    \/ GetRecord(h) \/ GetFails(h)
    \/ CommitApplies(h) \/ CommitRejected(h) \/ CommitTimesOut(h)
    \/ ResponseLost(h) \/ CommitSucceeds(h) \/ Reply(h)
    \/ LateCommitApplies(h) \/ LateCommitVanishes(h)

(* Every request of the behaviour has been served and nothing is pending.  *)
Quiescent ==
    /\ served = MaxRequests
    /\ \A h \in Handlers : pc[h] = "idle"
    /\ UNCHANGED vars

Next ==
    \/ \E h \in Handlers : Step(h) \/ \E r \in Request : Begin(h, r)
    \/ Quiescent

Spec == Init /\ [][Next]_vars

(* A handler thread keeps running and each of its HTTP calls returns or    *)
(* times out (REQUEST_READ_TIMEOUT); nobody has to send a request.         *)
Fairness == \A h \in Handlers : WF_vars(Step(h))
FairSpec == Spec /\ Fairness

-----------------------------------------------------------------------------
(* The abstract call a handler stands for: it is served when Firestore     *)
(* applies its commit or, for a refusal, when it reads the document.       *)
AbstractCall(h) ==
    [st |-> CASE pc[h] \in {"get", "commit"} -> "called"
              [] pc[h] \in {"committed", "done"} -> "done"
              [] OTHER -> pc[h],
     req |-> req[h],
     status |-> status[h]]

Directory == INSTANCE PublishDirectory
                 WITH calls <- [h \in Handlers |-> AbstractCall(h)]

-----------------------------------------------------------------------------
(* The store implements the abstract directory: concurrent instances,      *)
(* rejected, lost and late commits included, every request takes effect    *)
(* atomically and at most once (FirestorePublishStore's get_record then    *)
(* commit_record).                                                         *)
ImplementsDirectory == Directory!Spec

(* An author-deleted record never changes again, whichever republish, hide *)
(* or restore read the record before the deletion and commits after it.    *)
AuthorDeletionFinal == Directory!AuthorDeletionFinal

(* A publish id keeps its record and its owner, also when two peers race   *)
(* to create it.                                                           *)
OwnershipStable == Directory!OwnershipStable

(* The audit fields explain the hidden flag under every interleaving.      *)
AuditAgrees == Directory!AuditAgrees

(* An answer stays true until the client has it.                           *)
AnswersStayTrue == Directory!AnswersStayTrue

(* No lost update: a commit, also an abandoned one, that Firestore would   *)
(* accept now was computed from the record it is about to replace.         *)
NoLostUpdate ==
    \A h \in Handlers :
        pc[h] \in {"commit", "lost"} /\ PreconditionHolds(h)
            => snap[h] = records[req[h].id]

(* An administrator's decision changes only by another one: the hidden     *)
(* flag and its audit fields of an existing record change only in a step   *)
(* that applies a hide or a restore of that record, never by a republish   *)
(* that read the record before it was hidden.                              *)
Moderation(entry) == <<entry.hidden, entry.hiddenBy, entry.restoredBy>>
ModerationKept ==
    [][\A i \in Ids :
          records[i] # NoRecord /\ Moderation(records'[i]) # Moderation(records[i])
            => \E h \in Handlers :
                  /\ pc[h] \in {"commit", "lost"} /\ pc'[h] # pc[h]
                  /\ req[h].op \in {"hide", "restore"} /\ req[h].id = i]_vars

(* Every request is answered and no slot stays occupied for ever.          *)
EveryRequestEnds == \A h \in Handlers : pc[h] # "idle" ~> pc[h] = "idle"

=============================================================================
