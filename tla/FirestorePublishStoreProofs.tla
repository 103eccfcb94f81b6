--------------------- MODULE FirestorePublishStoreProofs ---------------------
(***************************************************************************)
(* The Firestore publish store for any number of handlers, ids, peers and  *)
(* requests: its invariants, the finality of author deletion, and that it  *)
(* implements the abstract directory.                                      *)
(***************************************************************************)
EXTENDS FirestorePublishStore, PublishRecordProofs

(* A free slot keeps nothing, and an answer is there once it is computed.  *)
SlotsClean ==
    \A h \in Handlers :
        /\ pc[h] = "idle" => req[h] = NoRequest
        /\ pc[h] \in {"idle", "get", "commit", "lost"} => status[h] = NoStatus

(* A document exists exactly when it has an update time.                   *)
TimesMatchRecords == \A i \in Ids : records[i] = NoRecord <=> updateTime[i] = 0

(* A pending commit was decided on its snapshot, carries the update time   *)
(* of that snapshot, and if the document still has it, nothing changed.    *)
PendingCommit(h) ==
    LET i == req[h].id IN
    /\ Succeeds(snap[h], req[h])
    /\ pre[h] <= updateTime[i]
    /\ pre[h] = updateTime[i] => snap[h] = records[i]

CommitsPending == \A h \in Handlers : pc[h] \in {"commit", "lost"} => PendingCommit(h)

IInv == TypeOK /\ SlotsClean /\ TimesMatchRecords /\ CommitsPending

-----------------------------------------------------------------------------
(* An empty collection satisfies the invariant.                            *)
LEMMA InitIInv == Init => IInv
BY MaxRequestsIsNat DEF Init, IInv, TypeOK, SlotsClean, TimesMatchRecords, CommitsPending, Entry

(* Releasing a slot while the documents stay as they are.                  *)
LEMMA ReleaseKeepsIInv ==
    ASSUME IInv, NEW h \in Handlers, Release(h), UNCHANGED storeVars
    PROVE  IInv'
<1> USE DEF IInv, Release, storeVars
<1>1. TypeOK' BY DEF TypeOK, Entry
<1>2. SlotsClean' BY DEF TypeOK, SlotsClean
<1>3. TimesMatchRecords' BY DEF TimesMatchRecords
<1>4. CommitsPending' BY DEF TypeOK, CommitsPending, PendingCommit
<1> QED BY <1>1, <1>2, <1>3, <1>4

(* Applying an acceptable commit: Firestore replaces exactly the record    *)
(* the handler read, by a record.                                          *)
LEMMA WriteReplacesSnapshot ==
    ASSUME IInv, NEW h \in Handlers, pc[h] \in {"commit", "lost"},
           PreconditionHolds(h), WriteDocument(h)
    PROVE  LET i == req[h].id
               new == Effect(records[i], req[h]) IN
           /\ i \in Ids /\ req[h] \in Request
           /\ snap[h] = records[i]
           /\ Succeeds(records[i], req[h])
           /\ new \in StoredPublishRecord
           /\ records' = [records EXCEPT ![i] = new]
           /\ \/ updateTime' = [updateTime EXCEPT ![i] = updateTime[i] + 1]
              \/ updateTime' = updateTime /\ new = records[i]
<1> DEFINE i == req[h].id
<1>1. req[h] \in Request /\ i \in Ids
  BY RequestFields DEF IInv, TypeOK
<1>2. snap[h] = records[i] /\ Succeeds(records[i], req[h])
  BY DEF IInv, CommitsPending, PendingCommit, PreconditionHolds
<1>3. Effect(records[i], req[h]) \in StoredPublishRecord
  BY <1>1, <1>2, EffectOnRecord DEF IInv, TypeOK
<1> QED BY <1>1, <1>2, <1>3 DEF WriteDocument

(* ... which keeps the documents typed, their times in step with them, and *)
(* every commit of another handler pending.                                *)
LEMMA WriteKeepsPending ==
    ASSUME IInv, NEW h \in Handlers, pc[h] \in {"commit", "lost"},
           PreconditionHolds(h), WriteDocument(h)
    PROVE  /\ records' \in [Ids -> Entry]
           /\ updateTime' \in [Ids -> Nat]
           /\ TimesMatchRecords'
           /\ \A g \in Handlers : /\ pc[g] \in {"commit", "lost"}
                                  /\ req'[g] = req[g] /\ snap'[g] = snap[g]
                                  /\ pre'[g] = pre[g]
                                  => PendingCommit(g)'
<1> DEFINE i == req[h].id
           new == Effect(records[i], req[h])
<1>1. /\ i \in Ids
      /\ new \in StoredPublishRecord
      /\ records' = [records EXCEPT ![i] = new]
      /\ \/ updateTime' = [updateTime EXCEPT ![i] = updateTime[i] + 1]
         \/ updateTime' = updateTime /\ new = records[i]
  BY WriteReplacesSnapshot
<1>2. records \in [Ids -> Entry] /\ updateTime \in [Ids -> Nat]
  BY DEF IInv, TypeOK
<1> HIDE DEF i, new
<1>3. records' \in [Ids -> Entry] /\ updateTime' \in [Ids -> Nat]
  BY <1>1, <1>2 DEF Entry
<1>4. TimesMatchRecords'
  <2> SUFFICES ASSUME NEW j \in Ids
               PROVE  records'[j] = NoRecord <=> updateTime'[j] = 0
    BY DEF TimesMatchRecords
  <2>1. records[j] = NoRecord <=> updateTime[j] = 0
    BY DEF IInv, TimesMatchRecords
  <2>2. updateTime[j] \in Nat BY <1>2
  <2>3. CASE j = i
    BY <1>1, <1>2, <2>1, <2>2, <2>3, NoRecordIsFresh
  <2>4. CASE j # i
    BY <1>1, <1>2, <2>1, <2>4
  <2> QED BY <2>3, <2>4
<1>5. ASSUME NEW g \in Handlers, pc[g] \in {"commit", "lost"},
             req'[g] = req[g], snap'[g] = snap[g], pre'[g] = pre[g]
      PROVE  PendingCommit(g)'
  <2> DEFINE j == req[g].id
  <2>1. j \in Ids
    BY <1>5, RequestFields DEF IInv, TypeOK
  <2>2. /\ Succeeds(snap[g], req[g])
        /\ pre[g] <= updateTime[j]
        /\ pre[g] = updateTime[j] => snap[g] = records[j]
        /\ pre[g] \in Nat
    BY <1>5 DEF IInv, TypeOK, CommitsPending, PendingCommit
  <2>3. pre[g] <= updateTime'[j] /\ (pre[g] = updateTime'[j] => snap[g] = records'[j])
    BY <1>1, <1>2, <2>1, <2>2
  <2> QED BY <1>5, <2>2, <2>3 DEF PendingCommit, Succeeds
<1> QED BY <1>3, <1>4, <1>5

(* Every step of a handler or of Firestore preserves the invariant.        *)
LEMMA NextKeepsIInv == IInv /\ [Next]_vars => IInv'
<1> SUFFICES ASSUME IInv, [Next]_vars PROVE IInv'
  OBVIOUS
<1>1. ASSUME NEW h \in Handlers, NEW r \in Request, Begin(h, r)
      PROVE  IInv'
  <2> USE <1>1 DEF IInv, Begin
  <2>1. TypeOK' BY MaxRequestsIsNat DEF TypeOK
  <2>2. SlotsClean' BY DEF TypeOK, SlotsClean
  <2>3. TimesMatchRecords' BY DEF TimesMatchRecords
  <2>4. CommitsPending' BY DEF TypeOK, CommitsPending, PendingCommit
  <2> QED BY <2>1, <2>2, <2>3, <2>4
<1>2. ASSUME NEW h \in Handlers, GetRecord(h)
      PROVE  IInv'
  <2> DEFINE i == req[h].id
             s == Status(records[i], req[h])
  <2>1. req[h] \in Request /\ i \in Ids /\ records[i] \in Entry /\ updateTime[i] \in Nat
    BY <1>2, RequestFields DEF GetRecord, IInv, TypeOK
  <2>2. s \in Successes \union Refusals
    BY <2>1, StatusType
  <2>3. s \in Successes => Succeeds(records[i], req[h])
    BY DEF Succeeds
  <2>4. TimesMatchRecords'
    BY <1>2 DEF GetRecord, IInv, TimesMatchRecords
  <2> HIDE DEF s
  <2>5. CASE s \in Successes
    <3>1. /\ pc' = [pc EXCEPT ![h] = "commit"]
          /\ snap' = [snap EXCEPT ![h] = records[i]]
          /\ pre' = [pre EXCEPT ![h] = updateTime[i]]
          /\ UNCHANGED <<records, updateTime, req, status, served>>
      BY <1>2, <2>5 DEF GetRecord, s
    <3>2. TypeOK' BY <2>1, <3>1 DEF IInv, TypeOK
    <3>3. SlotsClean' BY <1>2, <3>1 DEF GetRecord, IInv, TypeOK, SlotsClean
    <3>4. CommitsPending'
      BY <2>1, <2>3, <2>5, <3>1 DEF IInv, TypeOK, CommitsPending, PendingCommit
    <3> QED BY <2>4, <3>2, <3>3, <3>4 DEF IInv
  <2>6. CASE s \notin Successes
    <3>1. /\ pc' = [pc EXCEPT ![h] = "done"]
          /\ status' = [status EXCEPT ![h] = s]
          /\ UNCHANGED <<records, updateTime, req, snap, pre, served>>
      BY <1>2, <2>6 DEF GetRecord, s
    <3>2. TypeOK' BY <2>1, <2>2, <3>1 DEF IInv, TypeOK
    <3>3. SlotsClean' BY <3>1 DEF IInv, TypeOK, SlotsClean
    <3>4. CommitsPending' BY <3>1 DEF IInv, TypeOK, CommitsPending, PendingCommit
    <3> QED BY <2>4, <3>2, <3>3, <3>4 DEF IInv
  <2> QED BY <2>5, <2>6
<1>3. ASSUME NEW h \in Handlers,
             GetFails(h) \/ CommitRejected(h) \/ ResponseLost(h) \/ Reply(h)
               \/ LateCommitVanishes(h)
      PROVE  IInv'
  BY <1>3, ReleaseKeepsIInv
     DEF GetFails, CommitRejected, ResponseLost, Reply, LateCommitVanishes
<1>4. ASSUME NEW h \in Handlers, CommitApplies(h)
      PROVE  IInv'
  <2>1. /\ pc[h] = "commit" /\ pc' = [pc EXCEPT ![h] = "committed"]
        /\ status' = [status EXCEPT ![h] = Status(snap[h], req[h])]
        /\ UNCHANGED <<req, snap, pre, served>>
    BY <1>4 DEF CommitApplies
  <2>2. /\ records' \in [Ids -> Entry] /\ updateTime' \in [Ids -> Nat]
        /\ TimesMatchRecords'
        /\ \A g \in Handlers : pc[g] \in {"commit", "lost"} => PendingCommit(g)'
    BY <1>4, <2>1, WriteKeepsPending DEF CommitApplies
  <2>3. Status(snap[h], req[h]) \in Successes \union Refusals
    BY <2>1, StatusType DEF IInv, TypeOK
  <2>4. TypeOK' BY <2>1, <2>2, <2>3 DEF IInv, TypeOK
  <2>5. SlotsClean' BY <2>1 DEF IInv, TypeOK, SlotsClean
  <2>6. CommitsPending'
    BY <2>1, <2>2 DEF IInv, TypeOK, CommitsPending
  <2> QED BY <2>2, <2>4, <2>5, <2>6 DEF IInv
<1>5. ASSUME NEW h \in Handlers, CommitTimesOut(h) \/ CommitSucceeds(h)
      PROVE  IInv'
  <2> USE <1>5 DEF IInv, CommitTimesOut, CommitSucceeds
  <2>1. TypeOK' BY DEF TypeOK
  <2>2. SlotsClean' BY DEF TypeOK, SlotsClean
  <2>3. TimesMatchRecords' BY DEF TimesMatchRecords
  <2>4. CommitsPending' BY DEF TypeOK, CommitsPending, PendingCommit
  <2> QED BY <2>1, <2>2, <2>3, <2>4
<1>6. ASSUME NEW h \in Handlers, LateCommitApplies(h)
      PROVE  IInv'
  <2>1. pc[h] = "lost" /\ Release(h)
    BY <1>6 DEF LateCommitApplies
  <2>2. \A g \in Handlers \ {h} : req'[g] = req[g] /\ snap'[g] = snap[g] /\ pre'[g] = pre[g]
    BY <2>1 DEF IInv, TypeOK, Release
  <2>3. /\ records' \in [Ids -> Entry] /\ updateTime' \in [Ids -> Nat]
        /\ TimesMatchRecords'
        /\ \A g \in Handlers \ {h} : pc[g] \in {"commit", "lost"} => PendingCommit(g)'
    BY <1>6, <2>1, <2>2, WriteKeepsPending DEF LateCommitApplies
  <2>4. TypeOK' BY <2>1, <2>3 DEF IInv, TypeOK, Release, Entry
  <2>5. SlotsClean' BY <2>1 DEF IInv, TypeOK, SlotsClean, Release
  <2>6. CommitsPending'
    BY <2>1, <2>3 DEF IInv, TypeOK, CommitsPending, Release
  <2> QED BY <2>3, <2>4, <2>5, <2>6 DEF IInv
<1>7. CASE UNCHANGED vars
  BY <1>7 DEF vars, IInv, TypeOK, SlotsClean, TimesMatchRecords, CommitsPending, PendingCommit
<1> QED
  BY <1>1, <1>2, <1>3, <1>4, <1>5, <1>6, <1>7 DEF Next, Step, Quiescent

(* The inductive invariant holds in every reachable state of the store.    *)
THEOREM InvariantHolds == Spec => []IInv
BY InitIInv, NextKeepsIInv, PTL DEF Spec

(* Type correctness of the store: every document, snapshot and answer is   *)
(* what the code's types say, for any number of handlers and requests.     *)
THEOREM TypeCorrect == Spec => []TypeOK
<1>1. IInv => TypeOK BY DEF IInv
<1> QED BY <1>1, InvariantHolds, PTL

(* No lost update: a commit that Firestore would accept, also one whose    *)
(* handler has given up, was computed from the record it replaces.         *)
THEOREM NoUpdateLost == Spec => []NoLostUpdate
<1>1. IInv => NoLostUpdate
  BY DEF IInv, CommitsPending, PendingCommit, PreconditionHolds, NoLostUpdate
<1> QED BY <1>1, InvariantHolds, PTL

-----------------------------------------------------------------------------
(* What any step does to a document: nothing, or what one successful       *)
(* request does to it.                                                     *)
LEMMA RecordStep ==
    ASSUME IInv, [Next]_vars, NEW i \in Ids
    PROVE  \/ records'[i] = records[i]
           \/ \E h \in Handlers :
                 /\ pc[h] \in {"commit", "lost"} /\ pc'[h] # pc[h]
                 /\ req[h] \in Request /\ req[h].id = i
                 /\ Succeeds(records[i], req[h])
                 /\ records'[i] = Effect(records[i], req[h])
<1>1. ASSUME NEW h \in Handlers, pc[h] \in {"commit", "lost"}, pc'[h] # pc[h],
             PreconditionHolds(h), WriteDocument(h), records'[i] # records[i]
      PROVE  /\ req[h] \in Request /\ req[h].id = i
             /\ Succeeds(records[i], req[h])
             /\ records'[i] = Effect(records[i], req[h])
  <2>1. LET j == req[h].id
            new == Effect(records[j], req[h]) IN
        /\ j \in Ids /\ req[h] \in Request
        /\ Succeeds(records[j], req[h])
        /\ records' = [records EXCEPT ![j] = new]
    BY <1>1, WriteReplacesSnapshot
  <2>2. records \in [Ids -> Entry]
    BY DEF IInv, TypeOK
  <2> QED BY <1>1, <2>1, <2>2
<1>2. ASSUME NEW h \in Handlers, CommitApplies(h) \/ LateCommitApplies(h)
      PROVE  /\ pc[h] \in {"commit", "lost"} /\ pc'[h] # pc[h]
             /\ PreconditionHolds(h) /\ WriteDocument(h)
  BY <1>2 DEF CommitApplies, LateCommitApplies, Release, IInv, TypeOK
<1>3. ASSUME NEW h \in Handlers, Step(h), ~CommitApplies(h), ~LateCommitApplies(h)
      PROVE  records' = records
  BY <1>3 DEF Step, GetRecord, GetFails, CommitRejected, CommitTimesOut, ResponseLost,
              CommitSucceeds, Reply, LateCommitVanishes, storeVars
<1>4. ASSUME NEW h \in Handlers, NEW r \in Request, Begin(h, r)
      PROVE  records' = records
  BY <1>4 DEF Begin
<1>5. CASE UNCHANGED vars BY <1>5 DEF vars
<1> QED BY <1>1, <1>2, <1>3, <1>4, <1>5 DEF Next, Quiescent

(* Author deletion is final: no step of any handler, however old the       *)
(* record it read, changes a record its author has deleted.                *)
THEOREM DeletionFinal == Spec => AuthorDeletionFinal
<1>1. ASSUME IInv, [Next]_vars, NEW i \in Ids, IsDeleted(records[i])
      PROVE  records'[i] = records[i]
  <2>1. records[i] \in Entry BY <1>1 DEF IInv, TypeOK
  <2> QED BY <1>1, <2>1, RecordStep, SuccessNeedsLiveRecord
<1>2. IInv /\ [Next]_vars
        => [\A i \in Ids : Directory!DeletionIsFinal(i)]_(Directory!vars)
  BY <1>1 DEF Directory!DeletionIsFinal, Directory!IsDeleted, IsDeleted
<1> QED BY <1>2, InvariantHolds, PTL DEF Spec, AuthorDeletionFinal, Directory!AuthorDeletionFinal

(* A publish id keeps its record and its owner, whatever peers race for it.*)
THEOREM OwnerStable == Spec => OwnershipStable
<1>1. ASSUME IInv, [Next]_vars, NEW i \in Ids, records[i] # NoRecord
      PROVE  records'[i] # NoRecord /\ records'[i].peer = records[i].peer
  <2>1. records[i] \in Entry BY <1>1 DEF IInv, TypeOK
  <2> QED BY <1>1, <2>1, RecordStep, EffectOnRecord, NoRecordIsFresh
<1>2. IInv /\ [Next]_vars
        => [\A i \in Ids : records[i] # NoRecord =>
               /\ records'[i] # NoRecord
               /\ records'[i].peer = records[i].peer]_(Directory!vars)
  BY <1>1
<1> QED BY <1>2, InvariantHolds, PTL DEF Spec, OwnershipStable, Directory!OwnershipStable

(* Only a hide or a restore of the record itself changes its moderation    *)
(* state: a republish that read it earlier cannot bring it back.           *)
THEOREM ModerationStable == Spec => ModerationKept
<1>1. ASSUME IInv, [Next]_vars, NEW i \in Ids, records[i] # NoRecord,
             Moderation(records'[i]) # Moderation(records[i])
      PROVE  \E h \in Handlers :
                /\ pc[h] \in {"commit", "lost"} /\ pc'[h] # pc[h]
                /\ req[h].op \in {"hide", "restore"} /\ req[h].id = i
  <2>1. records[i] \in StoredPublishRecord
    BY <1>1 DEF IInv, TypeOK, Entry
  <2>2. PICK h \in Handlers :
           /\ pc[h] \in {"commit", "lost"} /\ pc'[h] # pc[h]
           /\ req[h] \in Request /\ req[h].id = i
           /\ records'[i] = Effect(records[i], req[h])
    BY <1>1, RecordStep
  <2>3. req[h].op \notin {"upsert", "delete"}
    BY <1>1, <2>1, <2>2, AuthorsKeepModeration DEF Moderation
  <2> QED BY <2>2, <2>3, RequestFields
<1>2. IInv /\ [Next]_vars
        => [\A i \in Ids :
              records[i] # NoRecord /\ Moderation(records'[i]) # Moderation(records[i])
                => \E h \in Handlers :
                      /\ pc[h] \in {"commit", "lost"} /\ pc'[h] # pc[h]
                      /\ req[h].op \in {"hide", "restore"} /\ req[h].id = i]_vars
  BY <1>1
<1> QED BY <1>2, InvariantHolds, PTL DEF Spec, ModerationKept

(* The hidden flag and the audit fields that explain it never disagree.    *)
THEOREM AuditAlwaysAgrees == Spec => []AuditAgrees
<1> DEFINE Agrees == \A i \in Ids : AuditOf(records[i])
<1>1. Init => Agrees
  BY DEF Init, AuditOf
<1>2. IInv /\ Agrees /\ [Next]_vars => Agrees'
  <2> SUFFICES ASSUME IInv, Agrees, [Next]_vars, NEW i \in Ids
               PROVE  AuditOf(records'[i])
    OBVIOUS
  <2>1. records[i] \in Entry BY DEF IInv, TypeOK
  <2> QED BY <2>1, RecordStep, EffectOnRecord
<1>3. Agrees => AuditAgrees
  BY DEF AuditOf, AuditAgrees, Directory!AuditAgrees
<1> QED BY <1>1, <1>2, <1>3, InvariantHolds, PTL DEF Spec

(* An answer stays true of the document until the client has it, however   *)
(* many other commits, late ones included, are applied meanwhile.          *)
THEOREM AnswersTrue == Spec => []AnswersStayTrue
<1> DEFINE Answered == {"committed", "done"}
           Holds(h) == pc[h] \in Answered
                          => Claims(status[h], records[req[h].id], req[h].by)
           AllHold == \A h \in Handlers : Holds(h)
<1>1. Init => AllHold
  BY DEF Init
<1>2. ASSUME IInv, [Next]_vars, AllHold PROVE AllHold'
  <2> SUFFICES ASSUME NEW g \in Handlers, pc'[g] \in Answered
               PROVE  Claims(status'[g], records'[req'[g].id], req'[g].by)
    OBVIOUS
  <2>1. records \in [Ids -> Entry] BY <1>2 DEF IInv, TypeOK
  <2>2. CASE pc[g] \in Answered /\ status'[g] = status[g] /\ req'[g] = req[g]
    <3> DEFINE i == req[g].id
    <3>1. i \in Ids /\ records[i] \in Entry
      BY <1>2, <2>1, <2>2, RequestFields DEF IInv, TypeOK
    <3>2. Claims(status[g], records[i], req[g].by) BY <1>2, <2>2
    <3>3. CASE records'[i] = records[i] BY <2>2, <3>2, <3>3
    <3>4. ASSUME NEW h \in Handlers, req[h] \in Request, Succeeds(records[i], req[h]),
                 records'[i] = Effect(records[i], req[h])
          PROVE  Claims(status[g], records'[i], req[g].by)
      BY <3>1, <3>2, <3>4, EffectKeepsClaims
    <3>5. Claims(status[g], records'[i], req[g].by)
      BY <1>2, <3>1, <3>2, <3>3, <3>4, RecordStep
    <3> QED BY <2>2, <3>5
  <2>3. CASE GetRecord(g)
    <3> DEFINE r == req[g]
    <3>1. r \in Request /\ r.id \in Ids
      BY <1>2, <2>3, RequestFields DEF GetRecord, IInv, TypeOK
    <3>2. /\ ~Succeeds(records[r.id], r)
          /\ status'[g] = Status(records[r.id], r) /\ req' = req /\ records' = records
      BY <1>2, <2>3 DEF GetRecord, IInv, TypeOK, Succeeds
    <3>3. Claims(Status(records[r.id], r), records[r.id], r.by)
      BY <2>1, <3>1, <3>2, RefusalClaims
    <3> QED BY <3>2, <3>3
  <2>4. CASE CommitApplies(g)
    <3> DEFINE r == req[g]
    <3>1. /\ r.id \in Ids /\ r \in Request
          /\ snap[g] = records[r.id]
          /\ Succeeds(records[r.id], r)
          /\ records' = [records EXCEPT ![r.id] = Effect(records[r.id], r)]
      BY <1>2, <2>4, WriteReplacesSnapshot DEF CommitApplies
    <3>2. status'[g] = Status(records[r.id], r) /\ req' = req
      BY <1>2, <2>4, <3>1 DEF CommitApplies, IInv, TypeOK
    <3>3. Claims(Status(records[r.id], r), Effect(records[r.id], r), r.by)
      BY <2>1, <3>1, EffectClaims
    <3>4. records'[r.id] = Effect(records[r.id], r) BY <2>1, <3>1
    <3> QED BY <3>2, <3>3, <3>4
  <2>5. \/ pc[g] \in Answered /\ status'[g] = status[g] /\ req'[g] = req[g]
        \/ GetRecord(g) \/ CommitApplies(g)
    <3>1. ASSUME NEW h \in Handlers, NEW r \in Request, Begin(h, r)
          PROVE  pc[g] \in Answered /\ status'[g] = status[g] /\ req'[g] = req[g]
      BY <1>2, <3>1 DEF Begin, IInv, TypeOK
    <3>2. ASSUME NEW h \in Handlers, Step(h), h # g
          PROVE  pc[g] \in Answered /\ status'[g] = status[g] /\ req'[g] = req[g]
      BY <1>2, <3>2 DEF Step, GetRecord, GetFails, CommitApplies, CommitRejected,
         CommitTimesOut, ResponseLost, CommitSucceeds, Reply, LateCommitApplies,
         LateCommitVanishes, Release, IInv, TypeOK
    <3>3. ASSUME Step(g), ~GetRecord(g), ~CommitApplies(g)
          PROVE  pc[g] \in Answered /\ status'[g] = status[g] /\ req'[g] = req[g]
      BY <1>2, <3>3 DEF Step, GetFails, CommitRejected, CommitTimesOut, ResponseLost,
         CommitSucceeds, Reply, LateCommitApplies, LateCommitVanishes, Release, IInv, TypeOK
    <3>4. CASE UNCHANGED vars BY <3>4 DEF vars
    <3> QED BY <1>2, <3>1, <3>2, <3>3, <3>4 DEF Next, Quiescent
  <2> QED BY <2>2, <2>3, <2>4, <2>5
<1>3. AllHold => AnswersStayTrue
  BY DEF AnswersStayTrue, Directory!AnswersStayTrue, Directory!AnswerStillTrue,
         Directory!IsDeleted, Claims, IsDeleted, AbstractCall
<1> HIDE DEF AllHold
<1> QED BY <1>1, <1>2, <1>3, InvariantHolds, PTL DEF Spec

-----------------------------------------------------------------------------
(* The refinement.  Each step of the store is a step of the directory or   *)
(* leaves the directory's state alone.                                     *)
CallsBar == [h \in Handlers |-> AbstractCall(h)]

(* The fields of the abstract call of a handler, by where it is.           *)
LEMMA CallsBarOf ==
    ASSUME IInv, NEW h \in Handlers
    PROVE  /\ pc[h] = "idle" => CallsBar[h] = Directory!Idle
           /\ pc[h] \in {"get", "commit"} => CallsBar[h] = Directory!Called(req[h])
           /\ pc[h] \in {"committed", "done"}
                => CallsBar[h] = Directory!Done(req[h], status[h])
           /\ pc[h] = "lost" => CallsBar[h] = Directory!Lost(req[h])
           /\ CallsBar[h].req = req[h]
           /\ CallsBar[h].st = CASE pc[h] \in {"get", "commit"} -> "called"
                                [] pc[h] \in {"committed", "done"} -> "done"
                                [] OTHER -> pc[h]
BY DEF CallsBar, AbstractCall, IInv, SlotsClean, Directory!Idle, Directory!Called,
       Directory!Done, Directory!Lost

(* The directory's copies of the record operations are the store's own.    *)
LEMMA SameOperations ==
    ASSUME NEW e, NEW r
    PROVE  /\ Directory!Status(e, r) = Status(e, r)
           /\ Directory!Effect(e, r) = Effect(e, r)
           /\ Directory!Successes = Successes
           /\ Directory!Succeeds(e, r) = Succeeds(e, r)
           /\ Directory!Request = Request
<1>1. Directory!Status(e, r) = Status(e, r)
  BY DEF Directory!Status, Status, Directory!UpsertStatus, UpsertStatus,
         Directory!DeleteStatus, DeleteStatus, Directory!ModerationStatus, ModerationStatus
<1>2. Directory!Effect(e, r) = Effect(e, r)
  BY DEF Directory!Effect, Effect, Directory!Upsert, Upsert, Directory!Visible, Visible,
         Directory!PreserveAdminState, PreserveAdminState, Directory!MarkAuthorDeleted,
         MarkAuthorDeleted, Directory!AdminHide, AdminHide, Directory!AdminRestore, AdminRestore
<1>3. Directory!Successes = Successes
  BY DEF Directory!Successes, Successes
<1> QED BY <1>1, <1>2, <1>3 DEF Directory!Succeeds, Succeeds, Directory!Request, Request,
        Directory!PublishRequest, PublishRequest, Directory!DeleteRequest, DeleteRequest,
        Directory!ModerationRequest, ModerationRequest

(* The same after a step.                                                  *)
LEMMA CallsBarNext ==
    ASSUME IInv', NEW h \in Handlers
    PROVE  /\ pc'[h] = "idle" => CallsBar'[h] = Directory!Idle
           /\ pc'[h] \in {"get", "commit"} => CallsBar'[h] = Directory!Called(req'[h])
           /\ pc'[h] \in {"committed", "done"}
                => CallsBar'[h] = Directory!Done(req'[h], status'[h])
           /\ pc'[h] = "lost" => CallsBar'[h] = Directory!Lost(req'[h])
BY DEF CallsBar, AbstractCall, IInv, SlotsClean, Directory!Idle, Directory!Called,
       Directory!Done, Directory!Lost

(* A step of h changes no other handler's call.                            *)
LEMMA CallsBarStep ==
    ASSUME IInv, NEW h \in Handlers, NEW c,
           pc' = [pc EXCEPT ![h] = pc'[h]], req' = [req EXCEPT ![h] = req'[h]],
           status' = [status EXCEPT ![h] = status'[h]],
           CallsBar'[h] = c
    PROVE  CallsBar' = [CallsBar EXCEPT ![h] = c]
<1> SUFFICES ASSUME NEW g \in Handlers
             PROVE  CallsBar'[g] = (IF g = h THEN c ELSE CallsBar[g])
  BY DEF CallsBar
<1>1. CASE g # h
  BY <1>1 DEF IInv, TypeOK, CallsBar, AbstractCall
<1> QED BY <1>1

(* The Firestore store implements the abstract directory: get_record and   *)
(* commit_record, with rejected, lost and late commits, serve each request *)
(* at one instant and at most once.                                        *)
THEOREM Refinement == Spec => ImplementsDirectory
<1>1. Init => Directory!Init
  BY DEF Init, Directory!Init, AbstractCall, Directory!Idle
<1>2. IInv /\ IInv' /\ [Next]_vars => [Directory!Next]_(Directory!vars)
  <2> SUFFICES ASSUME IInv, IInv', [Next]_vars
               PROVE  Directory!Next \/ UNCHANGED <<records, CallsBar>>
    BY DEF Directory!vars, CallsBar
  <2>1. ASSUME NEW h \in Handlers, NEW r \in Request, Begin(h, r)
        PROVE  Directory!Next
    <3>1. CallsBar[h] = Directory!Idle
      BY <2>1, CallsBarOf DEF Begin
    <3>2. CallsBar'[h] = Directory!Called(r)
      BY <2>1, CallsBarNext DEF Begin, IInv, TypeOK
    <3>3. CallsBar' = [CallsBar EXCEPT ![h] = Directory!Called(r)]
      BY <2>1, <3>2, CallsBarStep DEF Begin, IInv, TypeOK
    <3>4. Directory!Call(h, r)
      BY <2>1, <3>1, <3>3 DEF Directory!Call, CallsBar, Begin
    <3> QED BY <3>4 DEF Directory!Next, Directory!Request, Request,
        Directory!PublishRequest, PublishRequest, Directory!DeleteRequest, DeleteRequest,
        Directory!ModerationRequest, ModerationRequest
  <2>2. ASSUME NEW h \in Handlers, Release(h), pc[h] \in {"get", "commit", "committed"},
               UNCHANGED storeVars
        PROVE  Directory!Next
    <3>1. CallsBar[h].st \in {"called", "done"}
      BY <2>2, CallsBarOf
    <3>2. CallsBar' = [CallsBar EXCEPT ![h] = Directory!Idle]
      BY <2>2, CallsBarNext, CallsBarStep DEF Release, IInv, TypeOK
    <3>3. Directory!Fail({h}, {})
      BY <2>2, <3>1, <3>2 DEF Directory!Fail, CallsBar, storeVars
    <3> QED BY <3>3 DEF Directory!Next
  <2>3. ASSUME NEW h \in Handlers, Reply(h)
        PROVE  Directory!Next
    <3>1. CallsBar[h].st = "done"
      BY <2>3, CallsBarOf DEF Reply
    <3>2. CallsBar' = [CallsBar EXCEPT ![h] = Directory!Idle]
      BY <2>3, CallsBarNext, CallsBarStep DEF Reply, Release, IInv, TypeOK
    <3>3. Directory!Reply(h)
      BY <2>3, <3>1, <3>2 DEF Directory!Reply, CallsBar, Reply, storeVars
    <3> QED BY <3>3 DEF Directory!Next
  <2>4. ASSUME NEW h \in Handlers, LateCommitVanishes(h)
        PROVE  Directory!Next
    <3>1. CallsBar[h].st = "lost"
      BY <2>4, CallsBarOf DEF LateCommitVanishes
    <3>2. CallsBar' = [CallsBar EXCEPT ![h] = Directory!Idle]
      BY <2>4, CallsBarNext, CallsBarStep DEF LateCommitVanishes, Release, IInv, TypeOK
    <3>3. Directory!Forget(h)
      BY <2>4, <3>1, <3>2 DEF Directory!Forget, CallsBar, LateCommitVanishes, storeVars
    <3> QED BY <3>3 DEF Directory!Next
  <2>5. ASSUME NEW h \in Handlers, CommitTimesOut(h)
        PROVE  Directory!Next
    <3>1. CallsBar[h].st = "called" /\ CallsBar[h].req = req[h]
      BY <2>5, CallsBarOf DEF CommitTimesOut
    <3>2. CallsBar' = [CallsBar EXCEPT ![h] = Directory!Lost(req[h])]
      BY <2>5, CallsBarNext, CallsBarStep DEF CommitTimesOut, IInv, TypeOK
    <3>3. Directory!Fail({h}, {h})
      BY <2>5, <3>1, <3>2 DEF Directory!Fail, CallsBar, CommitTimesOut
    <3> QED BY <3>3 DEF Directory!Next
  <2>6. ASSUME NEW h \in Handlers, CommitSucceeds(h)
        PROVE  UNCHANGED <<records, CallsBar>>
    BY <2>6 DEF CommitSucceeds, CallsBar, AbstractCall, IInv, TypeOK
  <2>7. ASSUME NEW h \in Handlers, GetRecord(h)
        PROVE  Directory!Next \/ UNCHANGED <<records, CallsBar>>
    <3> DEFINE s == Status(records[req[h].id], req[h])
    <3>1. CASE s \in Successes
      BY <2>7, <3>1 DEF GetRecord, CallsBar, AbstractCall, IInv, TypeOK
    <3>2. CASE s \notin Successes
      <4>1. CallsBar[h].st = "called" /\ CallsBar[h].req = req[h]
        BY <2>7, CallsBarOf DEF GetRecord
      <4>2. CallsBar' = [CallsBar EXCEPT ![h] = Directory!Done(req[h], s)]
        BY <2>7, <3>2, CallsBarNext, CallsBarStep DEF GetRecord, IInv, TypeOK
      <4>3. Directory!Perform(h)
        <5>1. records' = records
          BY <2>7 DEF GetRecord
        <5>2. /\ Directory!Status(records[req[h].id], req[h]) = s
              /\ s \notin Directory!Successes
          BY <3>2, SameOperations
        <5> HIDE DEF s
        <5> QED BY <4>1, <4>2, <5>1, <5>2 DEF Directory!Perform, CallsBar
      <4> QED BY <4>3 DEF Directory!Next
    <3> QED BY <3>1, <3>2
  <2>8. ASSUME NEW h \in Handlers, CommitApplies(h)
        PROVE  Directory!Next
    <3> DEFINE r == req[h]
               s == Status(records[r.id], r)
    <3>1. /\ s \in Successes
          /\ records' = [records EXCEPT ![r.id] = Effect(records[r.id], r)]
          /\ snap[h] = records[r.id]
      BY <2>8, WriteReplacesSnapshot DEF CommitApplies, Succeeds
    <3>2. CallsBar[h].st = "called" /\ CallsBar[h].req = r
      BY <2>8, CallsBarOf DEF CommitApplies
    <3>3. CallsBar' = [CallsBar EXCEPT ![h] = Directory!Done(r, s)]
      <4>1. /\ pc'[h] = "committed" /\ pc' = [pc EXCEPT ![h] = pc'[h]]
            /\ req'[h] = r /\ req' = [req EXCEPT ![h] = req'[h]]
            /\ status'[h] = s /\ status' = [status EXCEPT ![h] = status'[h]]
        BY <2>8, <3>1 DEF CommitApplies, IInv, TypeOK
      <4>2. CallsBar'[h] = Directory!Done(r, s)
        BY <4>1, CallsBarNext
      <4> QED BY <4>1, <4>2, CallsBarStep
    <3>4. Directory!Status(records[r.id], r) = s /\ s \in Directory!Successes
      BY <3>1, SameOperations
    <3>5. Directory!Write(r)
      BY <3>1, SameOperations DEF Directory!Write
    <3> HIDE DEF r, s
    <3>6. Directory!Perform(h)
      BY <3>2, <3>3, <3>4, <3>5 DEF Directory!Perform, CallsBar
    <3> QED BY <3>6 DEF Directory!Next
  <2>9. ASSUME NEW h \in Handlers, LateCommitApplies(h)
        PROVE  Directory!Next
    <3> DEFINE r == req[h]
    <3>1. /\ Succeeds(records[r.id], r)
          /\ records' = [records EXCEPT ![r.id] = Effect(records[r.id], r)]
      BY <2>9, WriteReplacesSnapshot DEF LateCommitApplies
    <3>2. CallsBar[h].st = "lost" /\ CallsBar[h].req = r
      BY <2>9, CallsBarOf DEF LateCommitApplies
    <3>3. CallsBar' = [CallsBar EXCEPT ![h] = Directory!Idle]
      BY <2>9, CallsBarNext, CallsBarStep DEF LateCommitApplies, Release, IInv, TypeOK
    <3>4. Directory!Succeeds(records[r.id], r)
      BY <3>1, SameOperations DEF Succeeds, Directory!Succeeds
    <3>5. Directory!Write(r)
      BY <3>1, SameOperations DEF Directory!Write
    <3> HIDE DEF r
    <3>6. Directory!PerformLate(h)
      BY <3>2, <3>3, <3>4, <3>5 DEF Directory!PerformLate, CallsBar
    <3> QED BY <3>6 DEF Directory!Next
  <2>10. CASE UNCHANGED vars
    BY <2>10 DEF vars, CallsBar, AbstractCall
  <2> QED
    BY <2>1, <2>2, <2>3, <2>4, <2>5, <2>6, <2>7, <2>8, <2>9, <2>10
       DEF Next, Step, Quiescent, GetFails, CommitRejected, ResponseLost
<1> QED BY <1>1, <1>2, InvariantHolds, PTL DEF Spec, ImplementsDirectory, Directory!Spec

=============================================================================
