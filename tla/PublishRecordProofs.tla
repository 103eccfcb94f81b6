------------------------- MODULE PublishRecordProofs -------------------------
(***************************************************************************)
(* What the operations on one publish record preserve.  Both stores' proofs *)
(* rest on these facts.                                                    *)
(***************************************************************************)
EXTENDS PublishRecord, TLAPS

(* The audit fields of one entry agree with its hidden flag.               *)
AuditOf(entry) ==
    entry # NoRecord =>
        /\ entry.hidden <=> entry.hiddenBy # NoAdmin
        /\ entry.hiddenBy = NoAdmin \/ entry.restoredBy = NoAdmin

(* Every request gets one of the answers of the three status enums.        *)
LEMMA StatusType ==
    ASSUME NEW entry \in Entry, NEW r \in Request
    PROVE  Status(entry, r) \in Successes \union Refusals
BY DEF Status, UpsertStatus, DeleteStatus, ModerationStatus, Successes, Refusals

(* Only a first publish succeeds where there is no record; everything else *)
(* needs a record that its author has not deleted.                         *)
LEMMA SuccessNeedsLiveRecord ==
    ASSUME NEW entry \in Entry, NEW r \in Request, Succeeds(entry, r)
    PROVE  /\ ~IsDeleted(entry)
           /\ entry = NoRecord => r.op = "upsert"
           /\ entry # NoRecord /\ r.op \in {"upsert", "delete"} => entry.peer = r.by
BY DEF Succeeds, Status, UpsertStatus, DeleteStatus, ModerationStatus, Successes,
       IsDeleted, Entry, StoredPublishRecord

(* A successful request names its own kind of success.                     *)
LEMMA SuccessByOp ==
    ASSUME NEW entry \in Entry, NEW r \in Request, Succeeds(entry, r)
    PROVE  /\ r.op = "upsert" => Status(entry, r) = "Stored"
           /\ r.op = "delete" => Status(entry, r) = "Deleted"
           /\ r.op \in {"hide", "restore"} => Status(entry, r) = "Updated"
BY DEF Succeeds, Status, UpsertStatus, DeleteStatus, ModerationStatus, Successes

(* The fields of a request by its kind.                                    *)
LEMMA RequestFields ==
    ASSUME NEW r \in Request
    PROVE  /\ r.op \in {"upsert", "delete", "hide", "restore"}
           /\ r.id \in Ids
           /\ r.op = "upsert" => r.by \in Peers /\ r.body \in Bodies
           /\ r.op \in {"hide", "restore"} => r.by \in Admins
BY DEF Request, PublishRequest, DeleteRequest, ModerationRequest

(* What a successful request writes is a record; it keeps the owner of the *)
(* record it replaces and leaves the audit fields in agreement.            *)
LEMMA EffectOnRecord ==
    ASSUME NEW entry \in Entry, NEW r \in Request, Succeeds(entry, r)
    PROVE  /\ Effect(entry, r) \in StoredPublishRecord
           /\ entry # NoRecord => Effect(entry, r).peer = entry.peer
           /\ AuditOf(entry) => AuditOf(Effect(entry, r))
<1>1. CASE r.op = "upsert"
  <2>1. Effect(entry, r) = Upsert(entry, r)
    BY <1>1 DEF Effect
  <2>2. r.by \in Peers /\ r.body \in Bodies
    BY <1>1, RequestFields
  <2>3. CASE entry = NoRecord
    BY <2>1, <2>2, <2>3 DEF Upsert, Visible, StoredPublishRecord, AuditOf
  <2>4. CASE entry # NoRecord
    <3>1. entry \in StoredPublishRecord /\ entry.peer = r.by
      BY <1>1, <2>4, SuccessNeedsLiveRecord DEF Entry
    <3>2. Effect(entry, r) = PreserveAdminState(r, entry)
      BY <2>1, <2>4 DEF Upsert
    <3> QED
      BY <2>2, <2>4, <3>1, <3>2, NoRecordIsFresh
         DEF PreserveAdminState, StoredPublishRecord, AuditOf
  <2> QED BY <2>3, <2>4
<1>2. CASE r.op # "upsert"
  <2>1. entry \in StoredPublishRecord /\ entry # NoRecord
    BY <1>2, SuccessNeedsLiveRecord DEF Entry
  <2>2. CASE r.op = "delete"
    BY <2>1, <2>2, NoRecordIsFresh DEF Effect, MarkAuthorDeleted, StoredPublishRecord, AuditOf
  <2>3. CASE r.op = "hide"
    <3>1. r.by \in Admins BY <2>3, RequestFields
    <3> QED BY <2>1, <2>3, <3>1, NoRecordIsFresh, MarkersAreFresh
            DEF Effect, AdminHide, StoredPublishRecord, AuditOf
  <2>4. CASE r.op = "restore"
    <3>1. r.by \in Admins BY <2>4, RequestFields
    <3> QED BY <2>1, <2>4, <3>1, NoRecordIsFresh, MarkersAreFresh
            DEF Effect, AdminRestore, StoredPublishRecord, AuditOf
  <2> QED BY <1>2, <2>2, <2>3, <2>4, RequestFields
<1> QED BY <1>1, <1>2

(* A republish and an author's deletion leave the moderation fields alone. *)
LEMMA AuthorsKeepModeration ==
    ASSUME NEW entry \in StoredPublishRecord, NEW r \in Request,
           r.op \in {"upsert", "delete"}
    PROVE  /\ Effect(entry, r).hidden = entry.hidden
           /\ Effect(entry, r).hiddenBy = entry.hiddenBy
           /\ Effect(entry, r).restoredBy = entry.restoredBy
<1>1. CASE r.op = "upsert"
  <2>1. Effect(entry, r) = PreserveAdminState(r, entry)
    BY <1>1, NoRecordIsFresh DEF Effect, Upsert
  <2> QED BY <2>1 DEF PreserveAdminState
<1>2. CASE r.op = "delete"
  BY <1>2 DEF Effect, MarkAuthorDeleted, StoredPublishRecord
<1> QED BY <1>1, <1>2

(* What an answer claims of the entry it was computed from or has written. *)
Claims(s, entry, by) ==
    /\ s \in {"Deleted", "AuthorDeleted"} => IsDeleted(entry)
    /\ s \in {"PeerConflict", "WrongPeer"} => entry # NoRecord /\ entry.peer # by
    /\ s = "Stored" => entry # NoRecord /\ entry.peer = by
    /\ s = "Updated" => entry # NoRecord

(* A refusal is true of the entry that was found.                          *)
LEMMA RefusalClaims ==
    ASSUME NEW entry \in Entry, NEW r \in Request, ~Succeeds(entry, r)
    PROVE  Claims(Status(entry, r), entry, r.by)
BY DEF Claims, Succeeds, Successes, Status, UpsertStatus, DeleteStatus, ModerationStatus,
       IsDeleted

(* A success is true of the record that it writes.                         *)
LEMMA EffectClaims ==
    ASSUME NEW entry \in Entry, NEW r \in Request, Succeeds(entry, r)
    PROVE  Claims(Status(entry, r), Effect(entry, r), r.by)
<1>1. Effect(entry, r) # NoRecord
  BY EffectOnRecord, NoRecordIsFresh
<1>2. CASE r.op = "upsert"
  <2>1. Status(entry, r) = "Stored" BY <1>2, SuccessByOp
  <2>2. Effect(entry, r).peer = r.by
    BY <1>2 DEF Effect, Upsert, Visible, PreserveAdminState
  <2> QED BY <1>1, <2>1, <2>2 DEF Claims
<1>3. CASE r.op = "delete"
  <2>1. Status(entry, r) = "Deleted" BY <1>3, SuccessByOp
  <2>2. entry \in StoredPublishRecord BY <1>3, SuccessNeedsLiveRecord DEF Entry
  <2>3. Effect(entry, r).deleted
    BY <1>3, <2>2 DEF Effect, MarkAuthorDeleted, StoredPublishRecord
  <2> QED BY <1>1, <2>1, <2>3 DEF Claims, IsDeleted
<1>4. CASE r.op \in {"hide", "restore"}
  <2>1. Status(entry, r) = "Updated" BY <1>4, SuccessByOp
  <2> QED BY <1>1, <2>1 DEF Claims
<1> QED BY <1>2, <1>3, <1>4, RequestFields

(* No later success makes an earlier answer untrue.                        *)
LEMMA EffectKeepsClaims ==
    ASSUME NEW entry \in Entry, NEW r \in Request, Succeeds(entry, r),
           NEW s, NEW by, Claims(s, entry, by)
    PROVE  Claims(s, Effect(entry, r), by)
<1>1. /\ Effect(entry, r) # NoRecord
      /\ entry # NoRecord => Effect(entry, r).peer = entry.peer
  BY EffectOnRecord, NoRecordIsFresh
<1>2. ~IsDeleted(entry)
  BY SuccessNeedsLiveRecord
<1> QED BY <1>1, <1>2 DEF Claims

=============================================================================
