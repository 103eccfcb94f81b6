-------------------------- MODULE PublishDirectory --------------------------
(***************************************************************************)
(* What the publish store promises, whatever its back end: every request   *)
(* takes effect at one instant between its arrival and its answer, with    *)
(* the answer computed from the record at that instant.  A request that is *)
(* answered with an error (storage_unavailable, or a connection that drops *)
(* because the relay died) may have taken effect, may take effect once     *)
(* later (a commit still under way when its HTTP call timed out), or not   *)
(* at all.                                                                 *)
(*                                                                         *)
(* The relay runs one thread per connection; a handler slot is such a      *)
(* thread together with what it may leave behind, and serves the next      *)
(* connection when nothing is left.                                        *)
(***************************************************************************)
EXTENDS PublishRecord

CONSTANTS
    Handlers,     \* slots for request handlers
    NoRequest,    \* an idle slot has no request
    NoStatus      \* no answer yet

VARIABLES
    records,      \* the directory: a record or NoRecord under each id
    calls         \* what each handler is doing

vars == <<records, calls>>

Idle == [st |-> "idle", req |-> NoRequest, status |-> NoStatus]
Called(r) == [st |-> "called", req |-> r, status |-> NoStatus]
Done(r, s) == [st |-> "done", req |-> r, status |-> s]
Lost(r) == [st |-> "lost", req |-> r, status |-> NoStatus]

TypeOK ==
    /\ records \in [Ids -> Entry]
    /\ calls \in [Handlers ->
           [st : {"idle", "called", "done", "lost"},
            req : Request \union {NoRequest},
            status : Successes \union Refusals \union {NoStatus}]]
    /\ \A h \in Handlers : calls[h].st # "idle" => calls[h].req \in Request

Init ==
    /\ records = [i \in Ids |-> NoRecord]
    /\ calls = [h \in Handlers |-> Idle]

-----------------------------------------------------------------------------
Call(h, r) ==
    /\ calls[h] = Idle
    /\ calls' = [calls EXCEPT ![h] = Called(r)]
    /\ UNCHANGED records

Write(r) ==
    records' = [records EXCEPT ![r.id] = Effect(records[r.id], r)]

(* The instant at which a request is served.                               *)
Perform(h) ==
    LET r == calls[h].req
        s == Status(records[r.id], r)
    IN  /\ calls[h].st = "called"
        /\ calls' = [calls EXCEPT ![h] = Done(r, s)]
        /\ IF s \in Successes THEN Write(r) ELSE UNCHANGED records

Reply(h) ==
    /\ calls[h].st = "done"
    /\ calls' = [calls EXCEPT ![h] = Idle]
    /\ UNCHANGED records

(* The handlers in Dead answer with an error or die; those in Late leave   *)
(* a request behind that may still be served.                              *)
Fail(Dead, Late) ==
    /\ \A h \in Dead : calls[h].st \in {"called", "done"}
    /\ \A h \in Late : calls[h].st = "called"
    /\ calls' = [h \in Handlers |->
                    IF h \in Late THEN Lost(calls[h].req)
                    ELSE IF h \in Dead THEN Idle ELSE calls[h]]
    /\ UNCHANGED records

PerformLate(h) ==
    LET r == calls[h].req
    IN  /\ calls[h].st = "lost"
        /\ Succeeds(records[r.id], r)
        /\ Write(r)
        /\ calls' = [calls EXCEPT ![h] = Idle]

Forget(h) ==
    /\ calls[h].st = "lost"
    /\ calls' = [calls EXCEPT ![h] = Idle]
    /\ UNCHANGED records

Next ==
    \/ \E h \in Handlers :
          \/ \E r \in Request : Call(h, r)
          \/ Perform(h)
          \/ Reply(h)
          \/ PerformLate(h)
          \/ Forget(h)
    \/ \E Dead \in SUBSET Handlers : \E Late \in SUBSET Dead : Fail(Dead, Late)

Spec == Init /\ [][Next]_vars

-----------------------------------------------------------------------------
(* Author deletion is final (doc/protocol/aichan-v1.md): once the author   *)
(* has deleted a record no operation changes it again, whichever handlers  *)
(* were already under way when the deletion took effect.                   *)
DeletionIsFinal(i) == IsDeleted(records[i]) => records'[i] = records[i]
AuthorDeletionFinal == [][\A i \in Ids : DeletionIsFinal(i)]_vars

(* A publish id belongs to the first peer that stored it: its record never *)
(* disappears and never changes owner.                                     *)
OwnershipStable ==
    [][\A i \in Ids : records[i] # NoRecord =>
           /\ records'[i] # NoRecord
           /\ records'[i].peer = records[i].peer]_vars

(* The audit fields agree with the state they explain: a record is hidden  *)
(* exactly when it names the admin that hid it, and it never names a hide  *)
(* and a restore at once.                                                  *)
AuditAgrees ==
    \A i \in Ids : records[i] # NoRecord =>
        /\ records[i].hidden <=> records[i].hiddenBy # NoAdmin
        /\ records[i].hiddenBy = NoAdmin \/ records[i].restoredBy = NoAdmin

(* An answer that was computed stays true while it travels to the client,  *)
(* although other handlers keep changing the record.                       *)
AnswerStillTrue(s, entry, by) ==
    /\ s \in {"Deleted", "AuthorDeleted"} => IsDeleted(entry)
    /\ s \in {"PeerConflict", "WrongPeer"} => entry # NoRecord /\ entry.peer # by
    /\ s = "Stored" => entry # NoRecord /\ entry.peer = by
    /\ s = "Updated" => entry # NoRecord

AnswersStayTrue ==
    \A h \in Handlers : calls[h].st = "done" =>
        AnswerStillTrue(calls[h].status, records[calls[h].req.id], calls[h].req.by)

=============================================================================
