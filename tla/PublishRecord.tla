---------------------------- MODULE PublishRecord ----------------------------
(***************************************************************************)
(* The stored publish record of the relay and what each operation of the   *)
(* publish store does to one record.  Both back ends (the JSON file and    *)
(* Firestore) share these rules: they compute the answer from the record   *)
(* they read and, when the answer is a success, write the new record.      *)
(*                                                                         *)
(* Abstractions.  A signed publish object is its owner (the peer that      *)
(* signed it, which the handler has verified) and a body, standing for     *)
(* tags, profile and timestamps.  Moderation audit fields (time, reason,   *)
(* principal, hash) always change together: one field names the admin that *)
(* hid the record and one the admin that restored it.                      *)
(***************************************************************************)

CONSTANTS
    Ids,        \* publish ids
    Peers,      \* peer ids, the signers of publish objects
    Bodies,     \* contents of a publish object
    Admins,     \* administrators that passed AdminAuth
    NoRecord,   \* no document or entry under an id
    NoAdmin,    \* Option::None of the moderation fields
    NoBody      \* a request that carries no publish object

ASSUME MarkersAreFresh ==
    /\ NoAdmin \notin Admins
    /\ NoBody \notin Bodies

StoredPublishRecord ==
    [peer       : Peers,
     body       : Bodies,
     deleted    : BOOLEAN,
     hidden     : BOOLEAN,
     hiddenBy   : Admins \union {NoAdmin},
     restoredBy : Admins \union {NoAdmin}]

ASSUME NoRecordIsFresh == NoRecord \notin StoredPublishRecord

Entry == StoredPublishRecord \union {NoRecord}

(***************************************************************************)
(* The requests that change a record, after the handler has authenticated  *)
(* them: "by" is the verified signer or administrator.                     *)
(***************************************************************************)
PublishRequest == [op : {"upsert"}, id : Ids, by : Peers, body : Bodies]
DeleteRequest  == [op : {"delete"}, id : Ids, by : Peers, body : {NoBody}]
ModerationRequest ==
    [op : {"hide", "restore"}, id : Ids, by : Admins, body : {NoBody}]

Request == PublishRequest \union DeleteRequest \union ModerationRequest

Successes == {"Stored", "Deleted", "Updated"}
Refusals  == {"PeerConflict", "AuthorDeleted", "NotFound", "WrongPeer"}

-----------------------------------------------------------------------------
(* StoredPublishRecord::visible *)
Visible(r) ==
    [peer |-> r.by, body |-> r.body, deleted |-> FALSE, hidden |-> FALSE,
     hiddenBy |-> NoAdmin, restoredBy |-> NoAdmin]

(* Mutant: a republish starts from a fresh record.                         *)
PreserveNothing(r, previous) == Visible(r)

(* StoredPublishRecord::preserve_admin_state *)
PreserveAdminState(r, previous) ==
    [peer |-> r.by, body |-> r.body, deleted |-> FALSE,
     hidden |-> previous.hidden, hiddenBy |-> previous.hiddenBy,
     restoredBy |-> previous.restoredBy]

UpsertStatus(entry, r) ==
    CASE entry = NoRecord   -> "Stored"
      [] entry # NoRecord /\ entry.peer # r.by -> "PeerConflict"
      [] entry # NoRecord /\ entry.peer = r.by /\ entry.deleted -> "AuthorDeleted"
      [] OTHER -> "Stored"

Upsert(entry, r) ==
    IF entry = NoRecord THEN Visible(r) ELSE PreserveAdminState(r, entry)

(* An already deleted record is reported as missing before its owner is    *)
(* compared with the signer.                                               *)
DeleteStatus(entry, r) ==
    CASE entry = NoRecord -> "NotFound"
      [] entry # NoRecord /\ entry.deleted -> "NotFound"
      [] entry # NoRecord /\ ~entry.deleted /\ entry.peer # r.by -> "WrongPeer"
      [] OTHER -> "Deleted"

MarkAuthorDeleted(entry) == [entry EXCEPT !.deleted = TRUE]

(* Mutant: moderation does not look for an author deletion.                *)
ModerationStatusAnyRecord(entry) == IF entry = NoRecord THEN "NotFound" ELSE "Updated"

ModerationStatus(entry) ==
    CASE entry = NoRecord -> "NotFound"
      [] entry # NoRecord /\ entry.deleted -> "AuthorDeleted"
      [] OTHER -> "Updated"

(* Mutant: the fields of an earlier restore are not cleared.               *)
AdminHideKeepingRestore(entry, r) == [entry EXCEPT !.hidden = TRUE, !.hiddenBy = r.by]

AdminHide(entry, r) ==
    [entry EXCEPT !.hidden = TRUE, !.hiddenBy = r.by, !.restoredBy = NoAdmin]

AdminRestore(entry, r) ==
    [entry EXCEPT !.hidden = FALSE, !.hiddenBy = NoAdmin, !.restoredBy = r.by]

(* The answer of the store to request r when it finds this entry.          *)
Status(entry, r) ==
    CASE r.op = "upsert" -> UpsertStatus(entry, r)
      [] r.op = "delete" -> DeleteStatus(entry, r)
      [] OTHER           -> ModerationStatus(entry)

Succeeds(entry, r) == Status(entry, r) \in Successes

(* The record a successful request writes.                                 *)
Effect(entry, r) ==
    CASE r.op = "upsert" -> Upsert(entry, r)
      [] r.op = "delete" -> MarkAuthorDeleted(entry)
      [] r.op = "hide"   -> AdminHide(entry, r)
      [] OTHER           -> AdminRestore(entry, r)

IsDeleted(entry) == entry # NoRecord /\ entry.deleted

=============================================================================
