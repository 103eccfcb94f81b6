------------------------ MODULE FilePublishStoreProofs ------------------------
(***************************************************************************)
(* The file publish store for any number of handlers, ids, peers and       *)
(* requests, across crashes and failed saves: its invariants, and that it  *)
(* implements the abstract directory.                                      *)
(***************************************************************************)
EXTENDS FilePublishStore, PublishRecordProofs

Writing == {"write", "writing", "rename"}

(* A free slot keeps no request.                                           *)
SlotsClean == \A h \in Handlers : pc[h] = "idle" => req[h] = NoRequest

(* What a writer will save is the file as it is now with its own change,   *)
(* and the complete temporary file is what it will save.                   *)
PendingSave(h) ==
    LET r == req[h] IN
    /\ Succeeds(file[r.id], r)
    /\ status[h] = Status(file[r.id], r)
    /\ loaded[h] = [file EXCEPT ![r.id] = Effect(file[r.id], r)]
    /\ pc[h] = "rename" => tmp = loaded[h]

SavesPending == \A h \in Handlers : pc[h] \in Writing => PendingSave(h)

IInv ==
    /\ TypeOK
    /\ file \in Contents
    /\ MutexHeldInside
    /\ SlotsClean
    /\ SavesPending

-----------------------------------------------------------------------------
(* An empty data directory satisfies the invariant.                        *)
LEMMA InitIInv == Init => IInv
<1> SUFFICES ASSUME Init PROVE IInv
  OBVIOUS
<1>1. NoRecords \in Contents BY DEF NoRecords, Contents, Entry
<1>2. TypeOK /\ file \in Contents BY <1>1, MaxRequestsIsNat DEF Init, TypeOK
<1>3. MutexHeldInside BY FreeIsFresh DEF Init, MutexHeldInside, Critical
<1>4. SlotsClean /\ SavesPending BY DEF Init, SlotsClean, SavesPending, Writing
<1> QED BY <1>2, <1>3, <1>4 DEF IInv

(* The step of a handler that does not hold the mutex, or that keeps its   *)
(* hold on it, leaves the save of every other handler pending.             *)
LEMMA OthersPending ==
    ASSUME IInv, NEW h \in Handlers,
           UNCHANGED file,
           pc' = [pc EXCEPT ![h] = pc'[h]], req' = [req EXCEPT ![h] = req'[h]],
           status' = [status EXCEPT ![h] = status'[h]],
           loaded' = [loaded EXCEPT ![h] = loaded'[h]],
           tmp' = tmp \/ lock = h,
           pc'[h] \in Writing => PendingSave(h)'
    PROVE  SavesPending'
<1> SUFFICES ASSUME NEW g \in Handlers, pc'[g] \in Writing, g # h
             PROVE  PendingSave(g)'
  BY DEF SavesPending
<1>1. /\ pc'[g] = pc[g] /\ req'[g] = req[g]
      /\ status'[g] = status[g] /\ loaded'[g] = loaded[g]
  BY DEF IInv, TypeOK
<1>2. PendingSave(g) BY <1>1 DEF IInv, SavesPending
<1>3. lock = g BY <1>1 DEF IInv, MutexHeldInside, Writing, Critical
<1>4. tmp' = tmp BY <1>3
<1> QED BY <1>1, <1>2, <1>4 DEF PendingSave, Succeeds

(* Every step of the store, a crash included, preserves the invariant.     *)
LEMMA NextKeepsIInv == IInv /\ [Next]_vars => IInv'
<1> SUFFICES ASSUME IInv, [Next]_vars PROVE IInv'
  OBVIOUS
<1>a. NoRecords \in Contents BY DEF NoRecords, Contents, Entry
<1>1. ASSUME NEW h \in Handlers, NEW r \in Request, Begin(h, r)
      PROVE  IInv'
  <2> USE <1>1 DEF Begin
  <2>1. TypeOK' /\ (file \in Contents)' BY MaxRequestsIsNat DEF IInv, TypeOK
  <2>2. MutexHeldInside' BY DEF IInv, TypeOK, MutexHeldInside, Critical
  <2>3. SlotsClean' BY DEF IInv, TypeOK, SlotsClean
  <2>4. SavesPending' BY OthersPending DEF IInv, TypeOK, Writing
  <2> QED BY <2>1, <2>2, <2>3, <2>4 DEF IInv
<1>2. ASSUME NEW h \in Handlers, Lock(h)
      PROVE  IInv'
  <2> USE <1>2 DEF Lock
  <2>1. TypeOK' /\ (file \in Contents)' BY DEF IInv, TypeOK, Critical
  <2>2. MutexHeldInside' BY FreeIsFresh DEF IInv, TypeOK, MutexHeldInside, Critical
  <2>3. SlotsClean' BY DEF IInv, TypeOK, SlotsClean
  <2>4. SavesPending' BY OthersPending DEF IInv, TypeOK, Writing
  <2> QED BY <2>1, <2>2, <2>3, <2>4 DEF IInv
<1>3. ASSUME NEW h \in Handlers, Load(h)
      PROVE  IInv'
  <2> DEFINE r == req[h]
             s == Status(file[r.id], r)
  <2>1. r \in Request /\ r.id \in Ids /\ file[r.id] \in Entry
    BY <1>3, RequestFields DEF Load, IInv, TypeOK, Contents
  <2>2. s \in Successes \union Refusals BY <2>1, StatusType
  <2>3. s \in Successes => Succeeds(file[r.id], r) BY DEF Succeeds
  <2>4. Succeeds(file[r.id], r) => Effect(file[r.id], r) \in Entry
    BY <2>1, EffectOnRecord DEF Entry
  <2> HIDE DEF s
  <2>5. CASE s \in Successes
    <3>1. /\ pc[h] = "load" /\ pc' = [pc EXCEPT ![h] = "write"]
          /\ loaded' = [loaded EXCEPT ![h] = [file EXCEPT ![r.id] = Effect(file[r.id], r)]]
          /\ status' = [status EXCEPT ![h] = s]
          /\ UNCHANGED <<file, tmp, lock, req, served>>
      BY <1>3, <2>5 DEF Load, s
    <3>2. TypeOK' /\ (file \in Contents)'
      BY <2>1, <2>2, <2>3, <2>4, <2>5, <3>1 DEF IInv, TypeOK, Contents, Critical
    <3>3. MutexHeldInside' BY <3>1 DEF IInv, TypeOK, MutexHeldInside, Critical
    <3>4. SlotsClean' BY <3>1 DEF IInv, TypeOK, SlotsClean
    <3>5. PendingSave(h)'
      BY <2>3, <2>5, <3>1 DEF IInv, TypeOK, PendingSave, s
    <3>6. SavesPending'
      BY <3>1, <3>5, OthersPending DEF IInv, TypeOK
    <3> QED BY <3>2, <3>3, <3>4, <3>6 DEF IInv
  <2>6. CASE s \notin Successes
    <3>1. /\ pc[h] = "load" /\ pc' = [pc EXCEPT ![h] = "done"]
          /\ status' = [status EXCEPT ![h] = s]
          /\ lock' = Free
          /\ UNCHANGED <<file, tmp, loaded, req, served>>
      BY <1>3, <2>6 DEF Load, s
    <3>2. TypeOK' /\ (file \in Contents)'
      BY <2>1, <2>2, <3>1 DEF IInv, TypeOK
    <3>3. MutexHeldInside'
      BY <3>1, FreeIsFresh DEF IInv, TypeOK, MutexHeldInside, Critical
    <3>4. SlotsClean' BY <3>1 DEF IInv, TypeOK, SlotsClean
    <3>5. SavesPending' BY <3>1, OthersPending DEF IInv, TypeOK, Writing
    <3> QED BY <3>2, <3>3, <3>4, <3>5 DEF IInv
  <2> QED BY <2>5, <2>6
<1>4. ASSUME NEW h \in Handlers, OpenTmp(h)
      PROVE  IInv'
  <2> USE <1>4 DEF OpenTmp
  <2>1. TypeOK' /\ (file \in Contents)' BY DEF IInv, TypeOK, Critical
  <2>2. MutexHeldInside' BY DEF IInv, TypeOK, MutexHeldInside, Critical
  <2>3. SlotsClean' BY DEF IInv, TypeOK, SlotsClean
  <2>4. PendingSave(h)' BY DEF IInv, TypeOK, SavesPending, PendingSave, Writing, Succeeds
  <2>5. lock = h BY DEF IInv, MutexHeldInside, Critical
  <2>6. SavesPending' BY <2>4, <2>5, OthersPending DEF IInv, TypeOK
  <2> QED BY <2>1, <2>2, <2>3, <2>6 DEF IInv
<1>5. ASSUME NEW h \in Handlers, WriteTmp(h)
      PROVE  IInv'
  <2> USE <1>5 DEF WriteTmp
  <2>1. TypeOK' /\ (file \in Contents)' BY DEF IInv, TypeOK, Critical
  <2>2. MutexHeldInside' BY DEF IInv, TypeOK, MutexHeldInside, Critical
  <2>3. SlotsClean' BY DEF IInv, TypeOK, SlotsClean
  <2>4. PendingSave(h)' BY DEF IInv, TypeOK, SavesPending, PendingSave, Writing, Succeeds
  <2>5. lock = h BY DEF IInv, MutexHeldInside, Critical
  <2>6. SavesPending' BY <2>4, <2>5, OthersPending DEF IInv, TypeOK
  <2> QED BY <2>1, <2>2, <2>3, <2>6 DEF IInv
<1>6. ASSUME NEW h \in Handlers, Rename(h)
      PROVE  IInv'
  <2> USE <1>6 DEF Rename
  <2>1. tmp = loaded[h] /\ loaded[h] \in Contents
    BY DEF IInv, TypeOK, SavesPending, PendingSave, Writing
  <2>2. TypeOK' /\ (file \in Contents)' BY <2>1 DEF IInv, TypeOK
  <2>3. MutexHeldInside' BY FreeIsFresh DEF IInv, TypeOK, MutexHeldInside, Critical
  <2>4. SlotsClean' BY DEF IInv, TypeOK, SlotsClean
  <2>5. \A g \in Handlers : pc'[g] \notin Writing
    BY <2>3, FreeIsFresh DEF MutexHeldInside, Writing, Critical
  <2>6. SavesPending' BY <2>5 DEF SavesPending
  <2> QED BY <2>2, <2>3, <2>4, <2>6 DEF IInv
<1>7. ASSUME NEW h \in Handlers, StorageFails(h) \/ Reply(h)
      PROVE  IInv'
  <2> USE <1>7 DEF StorageFails, Reply, Release
  <2>1. TypeOK' /\ (file \in Contents)' BY <1>a DEF IInv, TypeOK
  <2>2. MutexHeldInside' BY FreeIsFresh DEF IInv, TypeOK, MutexHeldInside, Critical
  <2>3. SlotsClean' BY DEF IInv, TypeOK, SlotsClean
  <2>4. SavesPending' BY OthersPending DEF IInv, TypeOK, Writing
  <2> QED BY <2>1, <2>2, <2>3, <2>4 DEF IInv
<1>8. ASSUME Crash PROVE IInv'
  <2> USE <1>8 DEF Crash
  <2>1. TypeOK' /\ (file \in Contents)' BY <1>a DEF IInv, TypeOK
  <2>2. MutexHeldInside' BY FreeIsFresh DEF MutexHeldInside, Critical
  <2>3. SlotsClean' /\ SavesPending' BY DEF SlotsClean, SavesPending, Writing
  <2> QED BY <2>1, <2>2, <2>3 DEF IInv
<1>9. CASE UNCHANGED vars
  <2> USE <1>9 DEF vars
  <2>1. TypeOK' /\ (file \in Contents)' BY DEF IInv, TypeOK
  <2>2. MutexHeldInside' /\ SlotsClean' BY DEF IInv, MutexHeldInside, SlotsClean
  <2>3. SavesPending' BY DEF IInv, SavesPending, PendingSave
  <2> QED BY <2>1, <2>2, <2>3 DEF IInv
<1> QED
  BY <1>1, <1>2, <1>3, <1>4, <1>5, <1>6, <1>7, <1>8, <1>9 DEF Next, Step, Quiescent

(* The inductive invariant holds in every reachable state of the store.    *)
THEOREM InvariantHolds == Spec => []IInv
BY InitIInv, NextKeepsIInv, PTL DEF Spec

(* Type correctness: files, mutex and handlers are what the code's types   *)
(* say after any number of crashes.                                        *)
THEOREM TypeCorrect == Spec => []TypeOK
<1>1. IInv => TypeOK BY DEF IInv
<1> QED BY <1>1, InvariantHolds, PTL

(* search, discover and stats never read a half-written file.              *)
THEOREM ReadersSafe == Spec => []ReadersSeeWholeFile
<1>1. IInv => ReadersSeeWholeFile BY TornIsFresh DEF IInv, ReadersSeeWholeFile
<1> QED BY <1>1, InvariantHolds, PTL

(* A save changes only the record its request names.                       *)
THEOREM WritersSafe == Spec => []WritersKeepOtherRecords
<1>1. IInv => WritersKeepOtherRecords
  BY RequestFields
     DEF IInv, TypeOK, Contents, SavesPending, PendingSave, Writing, WritersKeepOtherRecords
<1> QED BY <1>1, InvariantHolds, PTL

(* The mutex is held exactly by the handler in the critical section.       *)
THEOREM MutexSafe == Spec => []MutexHeldInside
<1>1. IInv => MutexHeldInside BY DEF IInv
<1> QED BY <1>1, InvariantHolds, PTL

-----------------------------------------------------------------------------
(* A rename does to the file what its request does to one record.          *)
LEMMA RenameServes ==
    ASSUME IInv, NEW h \in Handlers, Rename(h)
    PROVE  LET r == req[h] IN
           /\ r \in Request /\ r.id \in Ids
           /\ Succeeds(file[r.id], r)
           /\ status[h] = Status(file[r.id], r)
           /\ file' = [file EXCEPT ![r.id] = Effect(file[r.id], r)]
<1>1. req[h] \in Request /\ req[h].id \in Ids
  BY RequestFields DEF Rename, IInv, TypeOK
<1>2. PendingSave(h)
  BY DEF Rename, IInv, SavesPending, Writing
<1> QED BY <1>1, <1>2 DEF PendingSave, Rename

(* Every other step leaves the file alone.                                 *)
LEMMA OnlyRenameWrites ==
    ASSUME [Next]_vars, ~\E h \in Handlers : Rename(h)
    PROVE  file' = file
BY DEF Next, Step, Begin, Lock, Load, OpenTmp, WriteTmp, StorageFails, Reply, Crash,
       Quiescent, vars

(* Author deletion is final, across crashes and failed saves.              *)
THEOREM DeletionFinal == Spec => AuthorDeletionFinal
<1>1. ASSUME IInv, [Next]_vars, NEW i \in Ids, IsDeleted(file[i])
      PROVE  file'[i] = file[i]
  <2>1. CASE ~\E h \in Handlers : Rename(h)
    BY <1>1, <2>1, OnlyRenameWrites
  <2>2. ASSUME NEW h \in Handlers, Rename(h) PROVE file'[i] = file[i]
    <3> DEFINE r == req[h]
    <3>1. /\ r \in Request /\ r.id \in Ids
          /\ Succeeds(file[r.id], r)
          /\ file' = [file EXCEPT ![r.id] = Effect(file[r.id], r)]
      BY <1>1, <2>2, RenameServes
    <3>2. file \in Contents BY <1>1 DEF IInv
    <3>3. r.id # i
      BY <1>1, <3>1, <3>2, SuccessNeedsLiveRecord DEF Contents
    <3> QED BY <3>1, <3>2, <3>3 DEF Contents
  <2> QED BY <2>1, <2>2
<1>2. IInv /\ [Next]_vars
        => [\A i \in Ids : Directory!DeletionIsFinal(i)]_(Directory!vars)
  BY <1>1 DEF Directory!DeletionIsFinal, Directory!IsDeleted, IsDeleted
<1> QED BY <1>2, InvariantHolds, PTL DEF Spec, AuthorDeletionFinal, Directory!AuthorDeletionFinal

(* An answer agrees with the file until the client has it: what other      *)
(* handlers save meanwhile, and failing saves, do not make it untrue.      *)
THEOREM AnswersTrue == Spec => []AnswersStayTrue
<1> DEFINE Holds(h) == pc[h] = "done" => Claims(status[h], file[req[h].id], req[h].by)
           AllHold == \A h \in Handlers : Holds(h)
<1>1. Init => AllHold
  BY DEF Init
<1>2. ASSUME IInv, [Next]_vars, AllHold PROVE AllHold'
  <2> SUFFICES ASSUME NEW g \in Handlers, pc'[g] = "done"
               PROVE  Claims(status'[g], file'[req'[g].id], req'[g].by)
    OBVIOUS
  <2>1. file \in Contents BY <1>2 DEF IInv
  <2>2. ASSUME NEW h \in Handlers, Rename(h)
        PROVE  Claims(status'[g], file'[req'[g].id], req'[g].by)
    <3> DEFINE r == req[h]
    <3>1. /\ r \in Request /\ r.id \in Ids
          /\ Succeeds(file[r.id], r)
          /\ status[h] = Status(file[r.id], r)
          /\ file' = [file EXCEPT ![r.id] = Effect(file[r.id], r)]
      BY <1>2, <2>2, RenameServes
    <3>2. status' = status /\ req' = req BY <2>2 DEF Rename
    <3>3. file[r.id] \in Entry BY <2>1, <3>1 DEF Contents
    <3>4. CASE g = h
      <4>1. Claims(Status(file[r.id], r), Effect(file[r.id], r), r.by)
        BY <3>1, <3>3, EffectClaims
      <4>2. file'[r.id] = Effect(file[r.id], r) BY <2>1, <3>1 DEF Contents
      <4> QED BY <3>1, <3>2, <3>4, <4>1, <4>2
    <3>5. CASE g # h
      <4>1. pc[g] = "done" /\ req[g] \in Request /\ req[g].id \in Ids
        BY <1>2, <2>2, <3>5, RequestFields DEF Rename, IInv, TypeOK
      <4>2. Claims(status[g], file[req[g].id], req[g].by) BY <1>2, <4>1
      <4>3. CASE req[g].id = r.id
        <5>1. file'[req[g].id] = Effect(file[r.id], r)
          BY <2>1, <3>1, <4>3 DEF Contents
        <5>2. Claims(status[g], Effect(file[r.id], r), req[g].by)
          BY <3>1, <3>3, <4>2, <4>3, EffectKeepsClaims
        <5> QED BY <3>2, <5>1, <5>2
      <4>4. CASE req[g].id # r.id
        <5>1. file'[req[g].id] = file[req[g].id]
          BY <2>1, <3>1, <4>1, <4>4 DEF Contents
        <5> QED BY <3>2, <4>2, <5>1
      <4> QED BY <4>3, <4>4
    <3> QED BY <3>4, <3>5
  <2>3. CASE ~\E h \in Handlers : Rename(h)
    <3>1. file' = file BY <1>2, <2>3, OnlyRenameWrites
    <3>2. CASE pc[g] = "done" /\ status'[g] = status[g] /\ req'[g] = req[g]
      BY <1>2, <3>1, <3>2
    <3>3. CASE Load(g)
      <4> DEFINE r == req[g]
      <4>1. r \in Request /\ r.id \in Ids
        BY <1>2, <3>3, RequestFields DEF Load, IInv, TypeOK
      <4>2. /\ ~Succeeds(file[r.id], r)
            /\ status'[g] = Status(file[r.id], r) /\ req' = req
        BY <1>2, <3>3 DEF Load, IInv, TypeOK, Succeeds
      <4>3. Claims(Status(file[r.id], r), file[r.id], r.by)
        BY <2>1, <4>1, <4>2, RefusalClaims DEF Contents
      <4> QED BY <3>1, <4>2, <4>3
    <3>4. \/ pc[g] = "done" /\ status'[g] = status[g] /\ req'[g] = req[g]
          \/ Load(g)
      BY <1>2, <2>3 DEF Next, Step, Begin, Lock, Load, OpenTmp, WriteTmp, StorageFails,
         Release, Reply, Crash, Quiescent, vars, IInv, TypeOK
    <3> QED BY <3>2, <3>3, <3>4
  <2> QED BY <2>2, <2>3
<1>3. AllHold => AnswersStayTrue
  BY DEF AnswersStayTrue, Directory!AnswersStayTrue, Directory!AnswerStillTrue,
         Directory!IsDeleted, Claims, IsDeleted, AbstractCall, Critical
<1> HIDE DEF AllHold
<1> QED BY <1>1, <1>2, <1>3, InvariantHolds, PTL DEF Spec

-----------------------------------------------------------------------------
(* The refinement.                                                         *)
CallsBar == [h \in Handlers |-> AbstractCall(h)]

(* The directory's copies of the record operations are the store's own.    *)
LEMMA SameOperations ==
    ASSUME NEW e, NEW r
    PROVE  /\ Directory!Status(e, r) = Status(e, r)
           /\ Directory!Effect(e, r) = Effect(e, r)
           /\ Directory!Successes = Successes
           /\ Directory!Request = Request
<1>1. Directory!Status(e, r) = Status(e, r)
  BY DEF Directory!Status, Status, Directory!UpsertStatus, UpsertStatus,
         Directory!DeleteStatus, DeleteStatus, Directory!ModerationStatus, ModerationStatus
<1>2. Directory!Effect(e, r) = Effect(e, r)
  BY DEF Directory!Effect, Effect, Directory!Upsert, Upsert, Directory!Visible, Visible,
         Directory!PreserveAdminState, PreserveAdminState, Directory!MarkAuthorDeleted,
         MarkAuthorDeleted, Directory!AdminHide, AdminHide, Directory!AdminRestore, AdminRestore
<1> QED BY <1>1, <1>2 DEF Directory!Successes, Successes, Directory!Request, Request,
        Directory!PublishRequest, PublishRequest, Directory!DeleteRequest, DeleteRequest,
        Directory!ModerationRequest, ModerationRequest

(* The fields of the abstract call of a handler, by where it is.           *)
LEMMA CallsBarOf ==
    ASSUME IInv, NEW h \in Handlers
    PROVE  /\ pc[h] = "idle" => CallsBar[h] = Directory!Idle
           /\ CallsBar[h].req = req[h]
           /\ pc[h] \in {"lock"} \union Critical => CallsBar[h].st = "called"
           /\ pc[h] = "done" => CallsBar[h].st = "done"
BY DEF CallsBar, AbstractCall, IInv, SlotsClean, Critical, Directory!Idle

(* The calls after a step.                                                 *)
LEMMA CallsBarNext ==
    ASSUME IInv', NEW h \in Handlers
    PROVE  /\ pc'[h] = "idle" => CallsBar'[h] = Directory!Idle
           /\ pc'[h] \in {"lock"} \union Critical => CallsBar'[h] = Directory!Called(req'[h])
           /\ pc'[h] = "done" => CallsBar'[h] = Directory!Done(req'[h], status'[h])
BY DEF CallsBar, AbstractCall, IInv, SlotsClean, Critical, Directory!Idle,
       Directory!Called, Directory!Done

(* A step of h changes no other handler's call.                            *)
LEMMA CallsBarStep ==
    ASSUME IInv, NEW h \in Handlers, NEW c,
           pc' = [pc EXCEPT ![h] = pc'[h]], req' = [req EXCEPT ![h] = req'[h]],
           status' = [status EXCEPT ![h] = status'[h]],
           CallsBar'[h] = c
    PROVE  CallsBar' = [CallsBar EXCEPT ![h] = c]
<1> SUFFICES ASSUME NEW g \in Handlers
             PROVE  CallsBar'[g] = (IF g = h THEN c ELSE CallsBar[g])
  BY DEF CallsBar
<1>1. CASE g # h
  BY <1>1 DEF IInv, TypeOK, CallsBar, AbstractCall
<1> QED BY <1>1

(* The file store implements the abstract directory: a request is served   *)
(* whole, at its rename or when it is refused, or not at all.              *)
THEOREM Refinement == Spec => ImplementsDirectory
<1>1. Init => Directory!Init
  BY DEF Init, NoRecords, Directory!Init, AbstractCall, Directory!Idle, Critical
<1>2. IInv /\ IInv' /\ [Next]_vars => [Directory!Next]_(Directory!vars)
  <2> SUFFICES ASSUME IInv, IInv', [Next]_vars
               PROVE  Directory!Next \/ UNCHANGED <<file, CallsBar>>
    BY DEF Directory!vars, CallsBar
  <2>1. ASSUME NEW h \in Handlers, NEW r \in Request, Begin(h, r)
        PROVE  Directory!Next
    <3>1. CallsBar[h] = Directory!Idle
      BY <2>1, CallsBarOf DEF Begin
    <3>2. CallsBar'[h] = Directory!Called(r)
      BY <2>1, CallsBarNext DEF Begin, IInv, TypeOK
    <3>3. CallsBar' = [CallsBar EXCEPT ![h] = Directory!Called(r)]
      BY <2>1, <3>2, CallsBarStep DEF Begin, IInv, TypeOK
    <3>4. Directory!Call(h, r)
      BY <2>1, <3>1, <3>3 DEF Directory!Call, CallsBar, Begin
    <3> QED BY <3>4 DEF Directory!Next, Directory!Request, Request,
        Directory!PublishRequest, PublishRequest, Directory!DeleteRequest, DeleteRequest,
        Directory!ModerationRequest, ModerationRequest
  <2>2. ASSUME NEW h \in Handlers, Lock(h) \/ OpenTmp(h) \/ WriteTmp(h)
        PROVE  UNCHANGED <<file, CallsBar>>
    BY <2>2 DEF Lock, OpenTmp, WriteTmp, CallsBar, AbstractCall, Critical, IInv, TypeOK
  <2>3. ASSUME NEW h \in Handlers, Load(h)
        PROVE  Directory!Next \/ UNCHANGED <<file, CallsBar>>
    <3> DEFINE r == req[h]
               s == Status(file[r.id], r)
    <3>1. CASE s \in Successes
      BY <2>3, <3>1 DEF Load, CallsBar, AbstractCall, Critical, IInv, TypeOK
    <3>2. CASE s \notin Successes
      <4>1. CallsBar[h].st = "called" /\ CallsBar[h].req = r
        BY <2>3, CallsBarOf DEF Load, Critical
      <4>2. CallsBar' = [CallsBar EXCEPT ![h] = Directory!Done(r, s)]
        <5>1. /\ pc'[h] = "done" /\ pc' = [pc EXCEPT ![h] = pc'[h]]
              /\ req'[h] = r /\ req' = [req EXCEPT ![h] = req'[h]]
              /\ status'[h] = s /\ status' = [status EXCEPT ![h] = status'[h]]
          BY <2>3, <3>2 DEF Load, IInv, TypeOK
        <5>2. CallsBar'[h] = Directory!Done(r, s)
          BY <5>1, CallsBarNext
        <5> QED BY <5>1, <5>2, CallsBarStep
      <4>3. file' = file /\ Directory!Status(file[r.id], r) = s /\ s \notin Directory!Successes
        BY <2>3, <3>2, SameOperations DEF Load
      <4> HIDE DEF s
      <4>4. Directory!Perform(h)
        BY <4>1, <4>2, <4>3 DEF Directory!Perform, CallsBar
      <4> QED BY <4>4 DEF Directory!Next
    <3> QED BY <3>1, <3>2
  <2>4. ASSUME NEW h \in Handlers, Rename(h)
        PROVE  Directory!Next
    <3> DEFINE r == req[h]
               s == Status(file[r.id], r)
    <3>1. /\ s \in Successes /\ status[h] = s
          /\ file' = [file EXCEPT ![r.id] = Effect(file[r.id], r)]
      BY <2>4, RenameServes DEF Succeeds
    <3>2. CallsBar[h].st = "called" /\ CallsBar[h].req = r
      BY <2>4, CallsBarOf DEF Rename, Critical
    <3>3. CallsBar' = [CallsBar EXCEPT ![h] = Directory!Done(r, s)]
      <4>1. /\ pc'[h] = "done" /\ pc' = [pc EXCEPT ![h] = pc'[h]]
            /\ req'[h] = r /\ req' = [req EXCEPT ![h] = req'[h]]
            /\ status'[h] = s /\ status' = [status EXCEPT ![h] = status'[h]]
        BY <2>4, <3>1 DEF Rename, IInv, TypeOK
      <4>2. CallsBar'[h] = Directory!Done(r, s)
        BY <4>1, CallsBarNext
      <4> QED BY <4>1, <4>2, CallsBarStep
    <3>4. Directory!Status(file[r.id], r) = s /\ s \in Directory!Successes
      BY <3>1, SameOperations
    <3>5. Directory!Write(r)
      BY <3>1, SameOperations DEF Directory!Write
    <3> HIDE DEF r, s
    <3>6. Directory!Perform(h)
      BY <3>2, <3>3, <3>4, <3>5 DEF Directory!Perform, CallsBar
    <3> QED BY <3>6 DEF Directory!Next
  <2>5. ASSUME NEW h \in Handlers, StorageFails(h)
        PROVE  Directory!Next
    <3>1. CallsBar[h].st = "called"
      BY <2>5, CallsBarOf DEF StorageFails
    <3>2. CallsBar' = [CallsBar EXCEPT ![h] = Directory!Idle]
      BY <2>5, CallsBarNext, CallsBarStep DEF StorageFails, Release, IInv, TypeOK
    <3>3. Directory!Fail({h}, {})
      BY <2>5, <3>1, <3>2 DEF Directory!Fail, CallsBar, StorageFails
    <3> QED BY <3>3 DEF Directory!Next
  <2>6. ASSUME NEW h \in Handlers, Reply(h)
        PROVE  Directory!Next
    <3>1. CallsBar[h].st = "done"
      BY <2>6, CallsBarOf DEF Reply
    <3>2. CallsBar' = [CallsBar EXCEPT ![h] = Directory!Idle]
      BY <2>6, CallsBarNext, CallsBarStep DEF Reply, Release, IInv, TypeOK
    <3>3. Directory!Reply(h)
      BY <2>6, <3>1, <3>2 DEF Directory!Reply, CallsBar, Reply
    <3> QED BY <3>3 DEF Directory!Next
  <2>7. ASSUME Crash PROVE Directory!Next
    <3> DEFINE Dead == {h \in Handlers : pc[h] # "idle"}
    <3>1. \A h \in Dead : CallsBar[h].st \in {"called", "done"}
      BY CallsBarOf DEF IInv, TypeOK
    <3>2. \A h \in Handlers \ Dead : CallsBar[h] = Directory!Idle
      BY CallsBarOf
    <3>3. \A h \in Handlers : CallsBar'[h] = Directory!Idle
      BY <2>7, CallsBarNext DEF Crash
    <3>4. CallsBar' = [h \in Handlers |-> IF h \in Dead THEN Directory!Idle ELSE CallsBar[h]]
      BY <3>2, <3>3 DEF CallsBar
    <3> HIDE DEF Dead
    <3>5. Dead \in SUBSET Handlers BY DEF Dead
    <3>6. Directory!Fail(Dead, {})
      BY <2>7, <3>1, <3>4 DEF Directory!Fail, CallsBar, Crash
    <3> QED BY <3>5, <3>6 DEF Directory!Next
  <2>8. CASE UNCHANGED vars
    BY <2>8 DEF vars, CallsBar, AbstractCall
  <2> QED
    BY <2>1, <2>2, <2>3, <2>4, <2>5, <2>6, <2>7, <2>8 DEF Next, Step, Quiescent
<1> QED BY <1>1, <1>2, InvariantHolds, PTL DEF Spec, ImplementsDirectory, Directory!Spec

=============================================================================
