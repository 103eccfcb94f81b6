--------------------------- MODULE InboxSyncProofs ---------------------------
(***************************************************************************)
(* Safety of the message store and of the inbox command, for any number of *)
(* handlers, messages, POSTs, devices and commands, on both back ends.     *)
(*                                                                         *)
(* The first part is about MessageRelay alone.  The composition with the   *)
(* inbox commands implements it, so its results hold there as well.        *)
(***************************************************************************)
EXTENDS InboxSync, FiniteSetTheorems, WellFoundedInduction, TLAPS

(* A file insert that has loaded the records is the only one and still     *)
(* sees the current file.                                                  *)
SavePending ==
    \A h \in Handlers : pc[h] = "save" =>
        /\ backend = "file"
        /\ lock = h
        /\ snap[h] = store
        /\ ~Holds(store, env[h].id)

(* Ids name envelopes: every envelope at the relay was built by a sender.  *)
IdsNameEnvelopes ==
    /\ \A e, f \in sent : e.id = f.id => e = f
    /\ \A x \in store : x.object \in sent
    /\ \A h \in Handlers : pc[h] # "idle" => env[h] \in sent

(* A handler about to answer "stored" is right until the envelope expires. *)
StoredAnswersHold ==
    \A h \in Handlers :
        /\ pc[h] = "done" /\ answer[h] = "stored"
        /\ clock < ExpiresAt(env[h])
        => \E x \in store : x.object = env[h]

IInv ==
    /\ TypeOK
    /\ NoDuplicateEntries
    /\ OutboundKept
    /\ SavePending
    /\ IdsNameEnvelopes
    /\ StoredAnswersHold

-----------------------------------------------------------------------------
(* A relay that has served nothing satisfies the invariant.                *)
LEMMA InitIInv == Init => IInv
  BY BoundsAreNat, FreeIsFresh
  DEF Init, IInv, TypeOK, NoDuplicateEntries, OutboundKept, SavePending,
      IdsNameEnvelopes, StoredAnswersHold

(* An insert of an id that is not there: what was stored stays, ids still  *)
(* name one entry each, and the envelope itself is stored.                 *)
LEMMA InsertNew ==
  ASSUME IInv, NEW h \in Handlers, pc[h] # "idle",
         ~Holds(store, env[h].id),
         store' = store \union {NewEntry(h)}
  PROVE  /\ store' \subseteq StoredMessageEnvelope
         /\ NoDuplicateEntries'
         /\ \A x \in store' : x.object \in sent
         /\ store \subseteq store'
         /\ \E x \in store' : x.object = env[h]
  <1>1. NewEntry(h) \in StoredMessageEnvelope /\ NewEntry(h).object = env[h]
        /\ env[h] \in sent
    BY BoundsAreNat DEF IInv, TypeOK, IdsNameEnvelopes, NewEntry, StoredMessageEnvelope
  <1>2. store' \subseteq StoredMessageEnvelope /\ \A x \in store' : x.object \in sent
    BY <1>1 DEF IInv, TypeOK, IdsNameEnvelopes
  <1>3. NoDuplicateEntries'
    BY <1>1 DEF IInv, NoDuplicateEntries, Holds
  <1>4. NewEntry(h) \in store' /\ store \subseteq store'
    OBVIOUS
  <1> QED BY <1>1, <1>2, <1>3, <1>4

(* A step that only grows the store, on a back end where no handler is     *)
(* about to rewrite the file, keeps the promises made about it.            *)
LEMMA GrowthKeepsPromises ==
  ASSUME IInv, store \subseteq store', UNCHANGED <<backend, clock, outbound>>
  PROVE  OutboundKept'
  BY DEF IInv, OutboundKept

(* A handler that answers, or gives up its slot, changes nothing else.     *)
LEMMA SlotChange ==
  ASSUME IInv, NEW h \in Handlers, NEW a \in {"none", "stored", "rejected", "failed"},
         NEW p \in {"idle", "done"}, NEW e \in Envelope \union {NoEnvelope},
         NEW n \in 0 .. MaxPosts, p = "done" => e \in sent,
         pc' = [pc EXCEPT ![h] = p], env' = [env EXCEPT ![h] = e],
         snap' = [snap EXCEPT ![h] = {}], answer' = [answer EXCEPT ![h] = a],
         post' = [post EXCEPT ![h] = n]
  PROVE  /\ pc' \in [Handlers -> {"idle", "insert", "save", "done", "late"}]
         /\ env' \in [Handlers -> Envelope \union {NoEnvelope}]
         /\ snap' \in [Handlers -> SUBSET StoredMessageEnvelope]
         /\ answer' \in [Handlers -> {"none", "stored", "rejected", "failed"}]
         /\ post' \in [Handlers -> 0 .. MaxPosts]
         /\ \A g \in Handlers : pc'[g] # "idle" => env'[g] \in sent /\ env'[g] \in Envelope
         /\ \A g \in Handlers \ {h} : /\ pc'[g] = pc[g] /\ env'[g] = env[g]
                                     /\ snap'[g] = snap[g] /\ answer'[g] = answer[g]
         /\ pc'[h] = p /\ env'[h] = e /\ answer'[h] = a
  BY DEF IInv, TypeOK, IdsNameEnvelopes

(* The time an envelope expires is a number.                               *)
LEMMA ExpiryType == ASSUME NEW e \in Envelope PROVE ExpiresAt(e) \in Nat
  <1>1. e.created \in Nat /\ e.ttl \in TTLs
    BY DEF Envelope
  <1>2. e.ttl \in Nat
    BY <1>1, BoundsAreNat
  <1> QED BY <1>1, <1>2 DEF ExpiresAt

(* The parts of the invariant about a handler that has answered, from the  *)
(* promises its answer makes and a store that still holds the others'.     *)
LEMMA AnswerKeeps ==
  ASSUME IInv, NEW h \in Handlers, NEW a \in {"stored", "rejected", "failed"},
         pc[h] # "idle", Answer(h, a), UNCHANGED <<backend, clock>>,
         store' \subseteq StoredMessageEnvelope,
         \A x \in store' : x.object \in sent,
         store \subseteq store',
         NoDuplicateEntries',
         lock' \in Handlers \union {Free},
         \A g \in Handlers \ {h} : pc[g] = "save" => store' = store /\ lock' = lock,
         a = "stored" => \E x \in store' : x.object = env[h]
  PROVE  IInv'
  <1> USE DEF Answer
  <1>1. env[h] \in Envelope /\ env[h] \in sent /\ post[h] \in 0 .. MaxPosts
    BY DEF IInv, TypeOK, IdsNameEnvelopes
  <1>2. env' = [env EXCEPT ![h] = env[h]] /\ post' = [post EXCEPT ![h] = post[h]]
    BY DEF IInv, TypeOK
  <1>3. /\ pc' \in [Handlers -> {"idle", "insert", "save", "done", "late"}]
        /\ env' \in [Handlers -> Envelope \union {NoEnvelope}]
        /\ snap' \in [Handlers -> SUBSET StoredMessageEnvelope]
        /\ answer' \in [Handlers -> {"none", "stored", "rejected", "failed"}]
        /\ post' \in [Handlers -> 0 .. MaxPosts]
        /\ \A g \in Handlers : pc'[g] # "idle" => env'[g] \in sent /\ env'[g] \in Envelope
        /\ \A g \in Handlers \ {h} : /\ pc'[g] = pc[g] /\ env'[g] = env[g]
                                    /\ snap'[g] = snap[g] /\ answer'[g] = answer[g]
        /\ pc'[h] = "done" /\ env'[h] = env[h] /\ answer'[h] = a
    BY <1>1, <1>2, SlotChange
  <1>4. TypeOK'
    BY <1>3 DEF IInv, TypeOK
  <1>5. SavePending'
    BY <1>3 DEF IInv, SavePending
  <1>6. IdsNameEnvelopes'
    BY <1>3 DEF IInv, IdsNameEnvelopes
  <1>7. StoredAnswersHold'
    <2> SUFFICES ASSUME NEW g \in Handlers, pc'[g] = "done", answer'[g] = "stored",
                        clock' < ExpiresAt(env'[g])
                 PROVE  \E x \in store' : x.object = env'[g]
      BY DEF StoredAnswersHold, ExpiresAt
    <2>1. CASE g = h
      BY <2>1, <1>3
    <2>2. CASE g # h
      BY <2>2, <1>3 DEF IInv, StoredAnswersHold
    <2> QED BY <2>1, <2>2
  <1>8. OutboundKept'
    BY GrowthKeepsPromises
  <1> QED BY <1>4, <1>5, <1>6, <1>7, <1>8 DEF IInv

(* The same for a handler that is done with its request.                   *)
LEMMA ReleaseKeeps ==
  ASSUME IInv, NEW h \in Handlers, Release(h), UNCHANGED <<backend, clock, lock>>,
         pc[h] # "save",
         store' \subseteq StoredMessageEnvelope,
         \A x \in store' : x.object \in sent,
         store \subseteq store',
         NoDuplicateEntries',
         \A g \in Handlers : pc[g] = "save" => store' = store,
         outbound' \subseteq Envelope,
         OutboundKept'
  PROVE  IInv'
  <1> USE DEF Release
  <1>1. NoEnvelope \in Envelope \union {NoEnvelope} /\ 0 \in 0 .. MaxPosts
    BY BoundsAreNat
  <1>3. /\ pc' \in [Handlers -> {"idle", "insert", "save", "done", "late"}]
        /\ env' \in [Handlers -> Envelope \union {NoEnvelope}]
        /\ snap' \in [Handlers -> SUBSET StoredMessageEnvelope]
        /\ answer' \in [Handlers -> {"none", "stored", "rejected", "failed"}]
        /\ post' \in [Handlers -> 0 .. MaxPosts]
        /\ \A g \in Handlers : pc'[g] # "idle" => env'[g] \in sent /\ env'[g] \in Envelope
        /\ \A g \in Handlers \ {h} : /\ pc'[g] = pc[g] /\ env'[g] = env[g]
                                    /\ snap'[g] = snap[g] /\ answer'[g] = answer[g]
        /\ pc'[h] = "idle"
    BY <1>1, SlotChange
  <1>4. TypeOK'
    BY <1>3 DEF IInv, TypeOK
  <1>5. SavePending'
    BY <1>3 DEF IInv, SavePending
  <1>6. IdsNameEnvelopes'
    BY <1>3 DEF IInv, IdsNameEnvelopes
  <1>7. StoredAnswersHold'
    BY <1>3 DEF IInv, StoredAnswersHold
  <1> QED BY <1>4, <1>5, <1>6, <1>7 DEF IInv

(* Every step of a client, a handler, Firestore or the clock preserves the *)
(* invariant.                                                              *)
LEMMA NextKeepsIInv == IInv /\ [Next]_vars => IInv'
  <1> SUFFICES ASSUME IInv, [Next]_vars PROVE IInv'
    OBVIOUS
  <1>t. /\ store \subseteq StoredMessageEnvelope
        /\ \A x \in store : x.object \in sent
        /\ lock \in Handlers \union {Free}
        /\ NoDuplicateEntries
    BY DEF IInv, TypeOK, IdsNameEnvelopes
  <1>1. CASE Tick
    <2>1. TypeOK'
      BY <1>1, BoundsAreNat DEF IInv, TypeOK, Tick
    <2>2. NoDuplicateEntries' /\ SavePending' /\ IdsNameEnvelopes'
      BY <1>1 DEF IInv, NoDuplicateEntries, SavePending, IdsNameEnvelopes, Tick
    <2>3. clock \in Nat /\ clock' = clock + 1 /\ UNCHANGED <<store, outbound, pc, env, answer>>
      BY <1>1 DEF IInv, TypeOK, Tick
    <2>4. \A e \in Envelope : clock' < ExpiresAt(e) => clock < ExpiresAt(e)
      BY <2>3, ExpiryType
    <2>5. OutboundKept'
      BY <2>3, <2>4 DEF IInv, TypeOK, OutboundKept, ExpiresAt
    <2>6. StoredAnswersHold'
      BY <2>3, <2>4 DEF IInv, TypeOK, StoredAnswersHold, ExpiresAt
    <2> QED BY <2>1, <2>2, <2>5, <2>6 DEF IInv
  <1>2. ASSUME NEW h \in Handlers, NEW e \in Envelope, PostMessage(h, e),
               sent' = sent \/ sent' = sent \union {e}, e \in sent',
               \A f, g \in sent' : f.id = g.id => f = g
        PROVE  IInv'
    <2> USE <1>2 DEF PostMessage
    <2>1. /\ pc'[h] = "insert" /\ env'[h] = e /\ pc[h] = "idle"
          /\ \A g \in Handlers \ {h} : pc'[g] = pc[g] /\ env'[g] = env[g]
      BY DEF IInv, TypeOK
    <2>2. TypeOK'
      BY BoundsAreNat DEF IInv, TypeOK
    <2>3. NoDuplicateEntries' /\ OutboundKept'
      BY DEF IInv, NoDuplicateEntries, OutboundKept
    <2>4. SavePending'
      BY <2>1 DEF IInv, SavePending
    <2>5. IdsNameEnvelopes'
      BY <2>1 DEF IInv, IdsNameEnvelopes
    <2>6. StoredAnswersHold'
      BY <2>1 DEF IInv, StoredAnswersHold
    <2> QED BY <2>2, <2>3, <2>4, <2>5, <2>6 DEF IInv
  <1>3. ASSUME NEW h \in Handlers, NEW e \in Envelope, SendMessage(h, e) PROVE IInv'
    BY <1>2, <1>3 DEF SendMessage, IInv, IdsNameEnvelopes
  <1>4. ASSUME NEW h \in Handlers, NEW e \in sent, PostAgain(h, e) PROVE IInv'
    BY <1>2, <1>4 DEF PostAgain, IInv, IdsNameEnvelopes, TypeOK
  <1>5. ASSUME NEW h \in Handlers, LockAndLoad(h) PROVE IInv'
    <2>0. pc[h] = "insert" /\ lock = Free /\ backend = "file" /\ UNCHANGED <<backend, clock, store>>
      BY <1>5 DEF LockAndLoad
    <2>1. \A g \in Handlers : pc[g] # "save"
      BY <2>0, FreeIsFresh DEF IInv, SavePending
    <2>2. CASE Holds(store, env[h].id)
      <3>1. Answer(h, "stored") /\ UNCHANGED lock
        BY <1>5, <2>2 DEF LockAndLoad
      <3>2. \E x \in store : x.object = env[h]
        BY <2>0, <2>2 DEF IInv, IdsNameEnvelopes, Holds
      <3> QED BY <1>t, <2>0, <2>1, <3>1, <3>2, AnswerKeeps DEF NoDuplicateEntries
    <2>3. CASE ~Holds(store, env[h].id)
      <3>1. /\ lock' = h
            /\ snap' = [snap EXCEPT ![h] = store]
            /\ pc' = [pc EXCEPT ![h] = "save"]
            /\ UNCHANGED <<env, answer, post, posts, sent, outbound>>
        BY <1>5, <2>3 DEF LockAndLoad
      <3>2. TypeOK'
        BY <2>0, <3>1, <1>t DEF IInv, TypeOK
      <3>3. NoDuplicateEntries' /\ OutboundKept'
        BY <2>0, <3>1 DEF IInv, NoDuplicateEntries, OutboundKept
      <3>4. SavePending'
        BY <2>0, <2>1, <2>3, <3>1 DEF IInv, TypeOK, SavePending
      <3>5. IdsNameEnvelopes'
        BY <2>0, <3>1 DEF IInv, TypeOK, IdsNameEnvelopes
      <3>6. StoredAnswersHold'
        BY <2>0, <3>1 DEF IInv, TypeOK, StoredAnswersHold
      <3> QED BY <3>2, <3>3, <3>4, <3>5, <3>6 DEF IInv
    <2> QED BY <2>2, <2>3
  <1>6. ASSUME NEW h \in Handlers, Save(h) PROVE IInv'
    <2>0. pc[h] = "save" /\ lock' = Free /\ UNCHANGED <<backend, clock>> /\ Answer(h, "stored")
      BY <1>6 DEF Save
    <2>1. lock = h /\ ~Holds(store, env[h].id) /\ store' = store \union {NewEntry(h)}
      BY <1>6, <2>0 DEF Save, IInv, SavePending
    <2>2. \A g \in Handlers \ {h} : pc[g] # "save"
      BY <2>1 DEF IInv, SavePending
    <2>3. /\ store' \subseteq StoredMessageEnvelope
          /\ NoDuplicateEntries'
          /\ \A x \in store' : x.object \in sent
          /\ store \subseteq store'
          /\ \E x \in store' : x.object = env[h]
      BY <2>0, <2>1, InsertNew
    <2> QED BY <2>0, <2>2, <2>3, AnswerKeeps
  <1>7. ASSUME NEW h \in Handlers, InsertFails(h) PROVE IInv'
    <2>1. pc[h] # "idle" /\ Answer(h, "failed") /\ UNCHANGED <<backend, clock, store>>
      BY <1>7 DEF InsertFails
    <2>2. lock' \in Handlers \union {Free}
      BY <1>7, <1>t DEF InsertFails
    <2>3. \A g \in Handlers \ {h} : pc[g] = "save" => lock' = lock
      BY <1>7 DEF InsertFails, IInv, SavePending
    <2> QED BY <1>t, <2>1, <2>2, <2>3, AnswerKeeps DEF NoDuplicateEntries
  <1>8. ASSUME NEW h \in Handlers, Commit(h) PROVE IInv'
    <2>0. pc[h] = "insert" /\ backend = "firestore" /\ UNCHANGED <<backend, clock, lock>>
      BY <1>8 DEF Commit
    <2>1. \A g \in Handlers : pc[g] # "save"
      BY <2>0 DEF IInv, SavePending
    <2>2. CASE ~Holds(store, env[h].id)
      <3>1. store' = store \union {NewEntry(h)} /\ Answer(h, "stored")
        BY <1>8, <2>2 DEF Commit
      <3>2. /\ store' \subseteq StoredMessageEnvelope
            /\ NoDuplicateEntries'
            /\ \A x \in store' : x.object \in sent
            /\ store \subseteq store'
            /\ \E x \in store' : x.object = env[h]
        BY <2>0, <2>2, <3>1, InsertNew
      <3> QED BY <1>t, <2>0, <2>1, <3>1, <3>2, AnswerKeeps
    <2>3. CASE Holds(store, env[h].id)
      <3>1. UNCHANGED store /\ Answer(h, "rejected")
        BY <1>8, <2>3 DEF Commit
      <3> QED BY <1>t, <2>0, <2>1, <3>1, AnswerKeeps DEF NoDuplicateEntries
    <2> QED BY <2>2, <2>3
  <1>9. ASSUME NEW h \in Handlers, CommitTimesOut(h) PROVE IInv'
    <2> USE <1>9 DEF CommitTimesOut
    <2>1. TypeOK'
      BY DEF IInv, TypeOK
    <2>2. NoDuplicateEntries' /\ OutboundKept'
      BY DEF IInv, NoDuplicateEntries, OutboundKept
    <2>3. SavePending' /\ IdsNameEnvelopes' /\ StoredAnswersHold'
      BY DEF IInv, TypeOK, SavePending, IdsNameEnvelopes, StoredAnswersHold
    <2> QED BY <2>1, <2>2, <2>3 DEF IInv
  <1>10. ASSUME NEW h \in Handlers, LateCommit(h) PROVE IInv'
    <2>0. backend = "firestore" /\ pc[h] = "late" /\ Release(h) /\ UNCHANGED <<backend, clock, lock, outbound>>
      BY <1>10 DEF LateCommit
    <2>1. \A g \in Handlers : pc[g] # "save"
      BY <2>0 DEF IInv, SavePending
    <2>2. outbound' \subseteq Envelope
      BY <2>0 DEF IInv, TypeOK
    <2>3. CASE UNCHANGED store
      BY <1>t, <2>0, <2>1, <2>2, <2>3, ReleaseKeeps, GrowthKeepsPromises
      DEF NoDuplicateEntries
    <2>4. CASE ~Holds(store, env[h].id) /\ store' = store \union {NewEntry(h)}
      <3>1. /\ store' \subseteq StoredMessageEnvelope
            /\ NoDuplicateEntries'
            /\ \A x \in store' : x.object \in sent
            /\ store \subseteq store'
        BY <2>0, <2>4, InsertNew
      <3> QED BY <2>0, <2>1, <2>2, <3>1, ReleaseKeeps, GrowthKeepsPromises
    <2> QED BY <1>10, <2>3, <2>4 DEF LateCommit
  <1>11. ASSUME NEW h \in Handlers, ReplyStored(h) PROVE IInv'
    <2>0. /\ pc[h] = "done" /\ answer[h] = "stored" /\ Release(h)
          /\ UNCHANGED <<backend, clock, store, lock>> /\ outbound' = outbound \union {env[h]}
      BY <1>11 DEF ReplyStored, storeVars
    <2>1. outbound' \subseteq Envelope
      BY <2>0 DEF IInv, TypeOK
    <2>2. OutboundKept'
      BY <2>0 DEF IInv, OutboundKept, StoredAnswersHold
    <2> QED BY <1>t, <2>0, <2>1, <2>2, ReleaseKeeps DEF NoDuplicateEntries
  <1>12. ASSUME NEW h \in Handlers, ReplyLost(h) PROVE IInv'
    <2>0. pc[h] = "done" /\ Release(h) /\ UNCHANGED <<backend, clock, store, lock, outbound>>
      BY <1>12 DEF ReplyLost
    <2>1. outbound' \subseteq Envelope /\ OutboundKept'
      BY <2>0 DEF IInv, TypeOK, OutboundKept
    <2> QED BY <1>t, <2>0, <2>1, ReleaseKeeps DEF NoDuplicateEntries
  <1>13. ASSUME NEW x \in store, DeleteExpired(x) PROVE IInv'
    <2> USE <1>13 DEF DeleteExpired
    <2>1. TypeOK'
      BY DEF IInv, TypeOK
    <2>2. NoDuplicateEntries' /\ SavePending' /\ IdsNameEnvelopes'
      BY DEF IInv, NoDuplicateEntries, SavePending, IdsNameEnvelopes
    <2>3. x.object \in Envelope /\ ExpiresAt(x.object) \in Nat /\ clock \in Nat
      BY <1>t, ExpiryType DEF StoredMessageEnvelope, IInv, TypeOK
    <2>4. ~(clock < ExpiresAt(x.object))
      BY <2>3
    <2>5. OutboundKept' /\ StoredAnswersHold'
      BY <2>4 DEF IInv, OutboundKept, StoredAnswersHold
    <2> QED BY <2>1, <2>2, <2>5 DEF IInv
  <1>14. CASE UNCHANGED vars
    BY <1>14 DEF vars, IInv, TypeOK, NoDuplicateEntries, OutboundKept, SavePending,
                 IdsNameEnvelopes, StoredAnswersHold
  <1>15. ASSUME NEW h \in Handlers, NEW i \in MsgIds, NEW t \in 0 .. MaxTime,
                NEW ttl \in TTLs, NEW b \in Readable,
                SendMessage(h, [id |-> i, created |-> t, ttl |-> ttl, readable |-> b])
         PROVE  IInv'
    <2>1. [id |-> i, created |-> t, ttl |-> ttl, readable |-> b] \in Envelope
      BY BoundsAreNat DEF Envelope
    <2> QED BY <1>3, <1>15, <2>1
  <1>16. ASSUME NEW h \in Handlers, Step(h) PROVE IInv'
    BY <1>5, <1>6, <1>7, <1>8, <1>9, <1>10, <1>11, <1>12, <1>16 DEF Step
  <1> QED BY <1>1, <1>4, <1>13, <1>14, <1>15, <1>16 DEF Next, Quiescent

-----------------------------------------------------------------------------
(* The inductive invariant holds in every reachable state.                 *)
THEOREM InvariantHolds == Spec => []IInv
  BY InitIInv, NextKeepsIInv, PTL DEF Spec

(* Type correctness of the message store and its handlers.                 *)
THEOREM TypeCorrect == Spec => []TypeOK
  <1>1. IInv => TypeOK
    BY DEF IInv
  <1> QED BY <1>1, InvariantHolds, PTL

(* Retries do not create duplicates: either store holds one entry for an   *)
(* id, however often and however concurrently its envelope is posted.      *)
THEOREM NoDuplicates == Spec => []NoDuplicateEntries
  <1>1. IInv => NoDuplicateEntries
    BY DEF IInv
  <1> QED BY <1>1, InvariantHolds, PTL

(* A message its sender has logged as sent stays at the relay until it     *)
(* expires.                                                                *)
THEOREM SentMessagesKept == Spec => []OutboundKept
  <1>1. IInv => OutboundKept
    BY DEF IInv
  <1> QED BY <1>1, InvariantHolds, PTL

-----------------------------------------------------------------------------
(* The composition: inbox commands leave the relay alone, so every relay   *)
(* result carries over.                                                    *)

(* What the relay and the commands do together is a behaviour of the relay.*)
THEOREM SyncImplementsRelay == SyncSpec => Spec
  <1>1. SyncInit => Init
    BY DEF SyncInit
  <1>2. [SyncNext]_syncVars => [Next]_vars
    BY DEF SyncNext, syncVars
  <1> QED BY <1>1, <1>2, PTL DEF SyncSpec, Spec

(* The commands of a device, those of them that have decrypted message i   *)
(* and not logged it yet, and those that will print it.                    *)
CommandsOf(d) == {c \in Commands : DeviceOf[c] = d}
Working(d, i) == {c \in CommandsOf(d) : at[c] \in {"cache", "log"} /\ Current(c).id = i}
Holding(d, i) == {c \in CommandsOf(d) : i \in batch[c]}

(* Pages hold envelopes that senders built, so ids tell them apart.        *)
PagesAreSent == \A c \in Commands : todo[c] \subseteq sent

(* A message is in the cache before it is logged.                          *)
CachedFirst ==
    /\ \A c \in Commands : at[c] = "log" => Current(c).id \in cache[DeviceOf[c]]
    /\ \A d \in Devices, i \in MsgIds : log[d][i] > 0 => i \in cache[d]

(* What was printed or is about to be printed is in the log as often.      *)
LoggedFirst ==
    \A d \in Devices, i \in MsgIds :
        shown[d][i] + Cardinality(Holding(d, i)) <= log[d][i]

(* Every entry of a log, written or under way, has a command to itself.    *)
OneEach ==
    \A d \in Devices, i \in MsgIds :
        log[d][i] + Cardinality(Working(d, i)) <= Cardinality(CommandsOf(d))

InboxInv ==
    /\ IInv
    /\ InboxTypeOK
    /\ PagesAreSent
    /\ CachedFirst
    /\ LoggedFirst
    /\ OneEach

(* The first envelope of a page in the order of back end b.                *)
Earlier(b, e, f) ==
    LET byCreated == \/ e.created < f.created
                     \/ e.created = f.created /\ e.id < f.id
    IN  IF b = "file" THEN byCreated
        ELSE \/ ExpiresAt(e) < ExpiresAt(f)
             \/ ExpiresAt(e) = ExpiresAt(f) /\ byCreated

First(b, S) == CHOOSE e \in S : \A f \in S \ {e} : Earlier(b, e, f)

-----------------------------------------------------------------------------
(* A non-empty set of numbers has a smallest element.                      *)
LEMMA Smallest ==
  ASSUME NEW T \in SUBSET Nat, T # {}
  PROVE  \E x \in T : \A y \in T : x <= y
  <1>1. PICK x \in T : \A y \in T : ~(<<y, x>> \in OpToRel(<, Nat))
    BY NatLessThanWellFounded, WFMin
  <1>2. \A y \in T : ~(y < x)
    BY <1>1 DEF OpToRel
  <1> QED BY <1>2

(* The envelope a command is at depends on its page and the back end only. *)
LEMMA CurrentIsFirst ==
  ASSUME NEW c \in Commands
  PROVE  /\ Current(c) = First(backend, todo[c])
         /\ Current(c)' = First(backend', todo'[c])
  BY DEF Current, First, Before, Earlier

(* A page that is not empty has a first envelope.                          *)
LEMMA FirstIsThere ==
  ASSUME NEW b, NEW S \in SUBSET Envelope, S # {},
         \A e, f \in S : e.id = f.id => e = f
  PROVE  First(b, S) \in S
  <1>0. \A e \in S : /\ e.created \in Nat /\ e.id \in Nat /\ ExpiresAt(e) \in Nat
    BY ExpiryType, BoundsAreNat DEF Envelope
  <1>1. ASSUME NEW T \in SUBSET S, T # {}
        PROVE  \E e \in T : \A f \in T \ {e} :
                  e.created < f.created \/ (e.created = f.created /\ e.id < f.id)
    <2>1. {e.created : e \in T} \in SUBSET Nat /\ {e.created : e \in T} # {}
      BY <1>0, <1>1
    <2>2. PICK m \in {e.created : e \in T} : \A y \in {e.created : e \in T} : m <= y
      BY <2>1, Smallest
    <2> DEFINE U == {e \in T : e.created = m}
    <2>3. {e.id : e \in U} \in SUBSET Nat /\ {e.id : e \in U} # {}
      BY <1>0, <2>2
    <2>4. PICK n \in {e.id : e \in U} : \A y \in {e.id : e \in U} : n <= y
      BY <2>3, Smallest
    <2>5. PICK e \in U : e.id = n
      BY <2>4
    <2>6. m \in Nat /\ n \in Nat
      BY <2>1, <2>3
    <2>7. ASSUME NEW f \in T \ {e}
          PROVE  e.created < f.created \/ (e.created = f.created /\ e.id < f.id)
      <3>1. m <= f.created /\ f.created \in Nat /\ f.id \in Nat /\ e.created = m
        BY <2>2, <2>5, <2>7, <1>0
      <3>2. CASE f.created = m
        <4>1. n <= f.id /\ f.id # e.id
          BY <2>4, <2>5, <2>7, <3>2, <1>1
        <4> QED BY <4>1, <3>1, <3>2, <2>5, <2>6
      <3> QED BY <3>1, <3>2, <2>6
    <2> QED BY <2>5, <2>7
  <1>2. \E e \in S : \A f \in S \ {e} : Earlier(b, e, f)
    <2>1. CASE b = "file"
      BY <1>1, <2>1 DEF Earlier
    <2>2. CASE b # "file"
      <3>1. {ExpiresAt(e) : e \in S} \in SUBSET Nat /\ {ExpiresAt(e) : e \in S} # {}
        BY <1>0
      <3>2. PICK m \in {ExpiresAt(e) : e \in S} : \A y \in {ExpiresAt(e) : e \in S} : m <= y
        BY <3>1, Smallest
      <3> DEFINE U == {e \in S : ExpiresAt(e) = m}
      <3>3. U \in SUBSET S /\ U # {}
        BY <3>2
      <3>4. PICK e \in U : \A f \in U \ {e} :
                  e.created < f.created \/ (e.created = f.created /\ e.id < f.id)
        BY <3>3, <1>1
      <3>5. ASSUME NEW f \in S \ {e} PROVE Earlier(b, e, f)
        <4>1. m <= ExpiresAt(f) /\ ExpiresAt(f) \in Nat /\ ExpiresAt(e) = m /\ m \in Nat
          BY <3>1, <3>2, <3>4, <1>0
        <4>2. ExpiresAt(f) = m => f \in U \ {e}
          OBVIOUS
        <4> QED BY <4>1, <4>2, <3>4, <2>2 DEF Earlier
      <3> QED BY <3>4, <3>5
    <2> QED BY <2>1, <2>2
  <1> QED BY <1>2 DEF First

(* A command at work is at one of the envelopes of its page.               *)
LEMMA CurrentIsThere ==
  ASSUME InboxInv, NEW c \in Commands, todo[c] # {}
  PROVE  Current(c) \in todo[c] /\ Current(c) \in sent /\ Current(c).id \in MsgIds
  <1>1. todo[c] \subseteq sent /\ sent \subseteq Envelope
    BY DEF InboxInv, PagesAreSent, IInv, TypeOK
  <1>2. \A e, f \in todo[c] : e.id = f.id => e = f
    BY <1>1 DEF InboxInv, IInv, IdsNameEnvelopes
  <1>3. First(backend, todo[c]) \in todo[c]
    BY <1>1, <1>2, FirstIsThere
  <1>4. Current(c) \in todo[c]
    BY <1>3, CurrentIsFirst
  <1> QED BY <1>1, <1>4 DEF Envelope

(* It stays there while its page is the same.                              *)
LEMMA CurrentStays ==
  ASSUME UNCHANGED backend, NEW c \in Commands, todo'[c] = todo[c]
  PROVE  Current(c)' = Current(c)
  BY CurrentIsFirst

(* How the number of commands in a set changes when only c can enter or    *)
(* leave it.                                                               *)
LEMMA OneMoves ==
  ASSUME NEW S, IsFiniteSet(S), NEW T, NEW c, T \ {c} = S \ {c}
  PROVE  /\ IsFiniteSet(T)
         /\ Cardinality(S) \in Nat /\ Cardinality(T) \in Nat
         /\ Cardinality(T) <= Cardinality(S) + 1
         /\ c \notin T => Cardinality(T) <= Cardinality(S)
         /\ c \in S => Cardinality(T) <= Cardinality(S)
         /\ c \in S /\ c \notin T => Cardinality(T) + 1 <= Cardinality(S)
  <1> DEFINE R == S \ {c}
  <1>1. IsFiniteSet(R) /\ Cardinality(R) \in Nat
    BY FS_RemoveElement, FS_CardinalityType
  <1>2. c \notin R
    OBVIOUS
  <1>3. IsFiniteSet(R \union {c}) /\ Cardinality(R \union {c}) = Cardinality(R) + 1
    BY <1>1, <1>2, FS_AddElement
  <1>4. S = R \/ S = R \union {c}
    OBVIOUS
  <1>5. T = R \/ T = R \union {c}
    OBVIOUS
  <1>6. (c \in S => S = R \union {c}) /\ (c \notin T => T = R)
    OBVIOUS
  <1> HIDE DEF R
  <1>7. /\ Cardinality(S) = Cardinality(R) \/ Cardinality(S) = Cardinality(R) + 1
        /\ Cardinality(T) = Cardinality(R) \/ Cardinality(T) = Cardinality(R) + 1
        /\ c \in S => Cardinality(S) = Cardinality(R) + 1
        /\ c \notin T => Cardinality(T) = Cardinality(R)
    BY <1>3, <1>4, <1>5, <1>6
  <1>8. IsFiniteSet(T)
    BY <1>1, <1>3, <1>5
  <1> QED BY ONLY <1>1, <1>7, <1>8

(* The sets of commands are finite.                                        *)
LEMMA CommandSets ==
  ASSUME NEW d, NEW i
  PROVE  /\ IsFiniteSet(CommandsOf(d)) /\ IsFiniteSet(Working(d, i)) /\ IsFiniteSet(Holding(d, i))
         /\ Cardinality(CommandsOf(d)) \in Nat
         /\ Cardinality(Working(d, i)) \in Nat /\ Cardinality(Holding(d, i)) \in Nat
  <1>1. /\ CommandsOf(d) \subseteq Commands /\ Working(d, i) \subseteq Commands
        /\ Holding(d, i) \subseteq Commands
    BY DEF CommandsOf, Working, Holding
  <1>2. IsFiniteSet(CommandsOf(d)) /\ IsFiniteSet(Working(d, i)) /\ IsFiniteSet(Holding(d, i))
    BY <1>1, CommandsAreFinite, FS_Subset
  <1> QED BY <1>2, FS_CardinalityType

(* Before anything was sent, no device has anything.                       *)
LEMMA InitInboxInv == SyncInit => InboxInv
  <1> SUFFICES ASSUME SyncInit PROVE InboxInv
    OBVIOUS
  <1> USE DEF SyncInit
  <1>1. IInv
    BY InitIInv
  <1>2. InboxTypeOK /\ PagesAreSent /\ CachedFirst
    BY MaxKillsIsNat, DeviceOfType DEF InboxTypeOK, PagesAreSent, CachedFirst
  <1>3. ASSUME NEW d \in Devices, NEW i \in MsgIds
        PROVE  /\ log[d][i] = 0 /\ shown[d][i] = 0
               /\ Holding(d, i) = {} /\ Working(d, i) = {}
    <2>1. Holding(d, i) = {} /\ Working(d, i) = {}
      BY DEF Holding, Working, CommandsOf
    <2> QED BY <1>3, <2>1
  <1>4. \A d \in Devices : Cardinality(CommandsOf(d)) \in Nat
    BY CommandSets
  <1>5. LoggedFirst
    BY <1>3, FS_EmptySet DEF LoggedFirst
  <1>6. OneEach
    <2>1. ASSUME NEW d \in Devices, NEW i \in MsgIds
          PROVE  log[d][i] + Cardinality(Working(d, i)) <= Cardinality(CommandsOf(d))
      <3>1. log[d][i] = 0 /\ Cardinality(Working(d, i)) = 0
        BY <1>3, FS_EmptySet
      <3>2. Cardinality(CommandsOf(d)) \in Nat
        BY <1>4
      <3> QED BY ONLY <3>1, <3>2
    <2> QED BY <2>1 DEF OneEach
  <1> QED BY <1>1, <1>2, <1>5, <1>6 DEF InboxInv

(* No step changes the back end, and what was sent stays sent.             *)
LEMMA RelayFrame ==
  ASSUME [Next]_vars
  PROVE  UNCHANGED backend /\ sent \subseteq sent'
  BY DEF vars, Next, Step, LockAndLoad, Save, InsertFails, Commit, CommitTimesOut,
         LateCommit, ReplyStored, ReplyLost, DeleteExpired, Tick, Quiescent, SendMessage,
         PostAgain, PostMessage, Answer, Release, storeVars

(* A step of the relay leaves the devices as they are.                     *)
LEMMA RelayKeepsInboxInv ==
  ASSUME InboxInv, [Next]_vars, UNCHANGED inboxVars
  PROVE  InboxInv'
  <1> USE DEF inboxVars
  <1>1. IInv'
    BY NextKeepsIInv DEF InboxInv
  <1>2. UNCHANGED backend /\ sent \subseteq sent'
    BY RelayFrame
  <1>3. \A c \in Commands : Current(c)' = Current(c)
    BY <1>2, CurrentStays
  <1>4. ASSUME NEW d \in Devices, NEW i \in MsgIds
        PROVE  Working(d, i)' = Working(d, i) /\ Holding(d, i)' = Holding(d, i)
    BY <1>3 DEF Working, Holding, CommandsOf
  <1>5. InboxTypeOK' /\ PagesAreSent'
    BY <1>2 DEF InboxInv, InboxTypeOK, PagesAreSent
  <1>6. CachedFirst'
    BY <1>3 DEF InboxInv, CachedFirst
  <1>7. LoggedFirst' /\ OneEach'
    BY <1>4 DEF InboxInv, LoggedFirst, OneEach, CommandsOf
  <1> QED BY <1>1, <1>5, <1>6, <1>7 DEF InboxInv

(* Command c goes to a, with T left of its page and B to print.            *)
CommandMoves(c, a, T, B) ==
    /\ a \in {"idle", "fetch", "next", "cache", "log"}
    /\ T \subseteq sent /\ B \subseteq MsgIds
    /\ a \in {"cache", "log"} => T # {}
    /\ at' = [at EXCEPT ![c] = a]
    /\ todo' = [todo EXCEPT ![c] = T]
    /\ batch' = [batch EXCEPT ![c] = B]

(* What a step of command c leaves alone: the other commands, and so every *)
(* member but c of the sets that are counted.                              *)
CommandFramed(c, a, T, B) ==
    /\ IInv' /\ InboxTypeOK' /\ PagesAreSent'
    /\ at'[c] = a /\ todo'[c] = T /\ batch'[c] = B
    /\ \A k \in Commands \ {c} : at'[k] = at[k] /\ Current(k)' = Current(k)
    /\ \A d \in Devices, i \in MsgIds :
          /\ Working(d, i)' \ {c} = Working(d, i) \ {c}
          /\ Holding(d, i)' \ {c} = Holding(d, i) \ {c}
          /\ c \in Holding(d, i) <=> DeviceOf[c] = d /\ i \in batch[c]
          /\ c \in Holding(d, i)' <=> DeviceOf[c] = d /\ i \in B
          /\ c \in Working(d, i) <=>
                DeviceOf[c] = d /\ at[c] \in {"cache", "log"} /\ Current(c).id = i
          /\ c \in Working(d, i)' <=>
                DeviceOf[c] = d /\ a \in {"cache", "log"} /\ Current(c)'.id = i

LEMMA CommandFrame ==
  ASSUME InboxInv, UNCHANGED vars, NEW c \in Commands, NEW a, NEW T, NEW B,
         CommandMoves(c, a, T, B),
         cache' \in [Devices -> SUBSET MsgIds], log' \in [Devices -> [MsgIds -> Nat]],
         shown' \in [Devices -> [MsgIds -> Nat]], kills' \in 0 .. MaxKills
  PROVE  CommandFramed(c, a, T, B)
  <1> USE DEF CommandMoves
  <1>1. IInv'
    BY NextKeepsIInv DEF InboxInv
  <1>2. sent \subseteq Envelope /\ UNCHANGED <<backend, sent>>
    BY DEF InboxInv, IInv, TypeOK, vars
  <1>3. /\ at'[c] = a /\ todo'[c] = T /\ batch'[c] = B
        /\ \A k \in Commands \ {c} : at'[k] = at[k] /\ todo'[k] = todo[k] /\ batch'[k] = batch[k]
    BY DEF InboxInv, InboxTypeOK
  <1>4. \A k \in Commands \ {c} : Current(k)' = Current(k)
    BY <1>2, <1>3, CurrentStays
  <1>5. InboxTypeOK'
    <2>1. /\ at' \in [Commands -> {"idle", "fetch", "next", "cache", "log"}]
          /\ todo' \in [Commands -> SUBSET Envelope]
          /\ batch' \in [Commands -> SUBSET MsgIds]
      BY <1>2 DEF InboxInv, InboxTypeOK
    <2>2. \A k \in Commands : at'[k] \in {"cache", "log"} => todo'[k] # {}
      BY <1>3 DEF InboxInv, InboxTypeOK
    <2> QED BY <2>1, <2>2 DEF InboxTypeOK
  <1>6. PagesAreSent'
    BY <1>2, <1>3 DEF InboxInv, PagesAreSent
  <1>7. ASSUME NEW d \in Devices, NEW i \in MsgIds
        PROVE  /\ Working(d, i)' \ {c} = Working(d, i) \ {c}
               /\ c \in Working(d, i) <=>
                     DeviceOf[c] = d /\ at[c] \in {"cache", "log"} /\ Current(c).id = i
               /\ c \in Working(d, i)' <=>
                     DeviceOf[c] = d /\ a \in {"cache", "log"} /\ Current(c)'.id = i
    BY <1>3, <1>4 DEF Working, CommandsOf
  <1>8. ASSUME NEW d \in Devices, NEW i \in MsgIds
        PROVE  /\ Holding(d, i)' \ {c} = Holding(d, i) \ {c}
               /\ c \in Holding(d, i) <=> DeviceOf[c] = d /\ i \in batch[c]
               /\ c \in Holding(d, i)' <=> DeviceOf[c] = d /\ i \in B
    BY <1>3 DEF Holding, CommandsOf
  <1> QED BY <1>1, <1>3, <1>4, <1>5, <1>6, <1>7, <1>8 DEF CommandFramed

(* A command that leaves, for whatever reason, and one that has printed    *)
(* what it held.                                                           *)
LEMMA FinishKeepsInboxInv ==
  ASSUME InboxInv, UNCHANGED vars, NEW c \in Commands, Finish(c), UNCHANGED <<cache, log>>,
         kills' \in 0 .. MaxKills, shown' \in [Devices -> [MsgIds -> Nat]],
         \A d \in Devices, i \in MsgIds :
            \/ shown'[d][i] = shown[d][i]
            \/ DeviceOf[c] = d /\ i \in batch[c] /\ shown'[d][i] = shown[d][i] + 1
  PROVE  InboxInv'
  <1>1. cache' \in [Devices -> SUBSET MsgIds] /\ log' \in [Devices -> [MsgIds -> Nat]]
    BY DEF InboxInv, InboxTypeOK
  <1>2. /\ IInv' /\ InboxTypeOK' /\ PagesAreSent'
        /\ at'[c] = "idle"
        /\ \A k \in Commands \ {c} : at'[k] = at[k] /\ Current(k)' = Current(k)
        /\ \A d \in Devices, i \in MsgIds :
              /\ Working(d, i)' \ {c} = Working(d, i) \ {c}
              /\ Holding(d, i)' \ {c} = Holding(d, i) \ {c}
              /\ c \in Holding(d, i) <=> DeviceOf[c] = d /\ i \in batch[c]
              /\ c \in Holding(d, i)' <=> DeviceOf[c] = d /\ i \in {}
              /\ c \in Working(d, i)' <=>
                    DeviceOf[c] = d /\ "idle" \in {"cache", "log"} /\ Current(c)'.id = i
    <2>1. CommandMoves(c, "idle", {}, {})
      BY DEF CommandMoves, Finish
    <2>2. CommandFramed(c, "idle", {}, {})
      BY <1>1, <2>1, CommandFrame
    <2> QED BY <2>2 DEF CommandFramed
  <1>3. CachedFirst'
    BY <1>2 DEF InboxInv, CachedFirst
  <1>4. LoggedFirst'
    <2> SUFFICES ASSUME NEW d \in Devices, NEW i \in MsgIds
                 PROVE  shown'[d][i] + Cardinality(Holding(d, i)') <= log'[d][i]
      BY DEF LoggedFirst
    <2>1. /\ shown[d][i] \in Nat /\ log[d][i] \in Nat
          /\ shown[d][i] + Cardinality(Holding(d, i)) <= log[d][i]
      BY DEF InboxInv, InboxTypeOK, LoggedFirst
    <2>2. IsFiniteSet(Holding(d, i)) /\ Holding(d, i)' \ {c} = Holding(d, i) \ {c}
      BY <1>2, CommandSets
    <2>3. c \notin Holding(d, i)'
      BY <1>2
    <2>4. /\ Cardinality(Holding(d, i)) \in Nat /\ Cardinality(Holding(d, i)') \in Nat
          /\ Cardinality(Holding(d, i)') <= Cardinality(Holding(d, i))
          /\ c \in Holding(d, i) =>
                Cardinality(Holding(d, i)') + 1 <= Cardinality(Holding(d, i))
      BY <2>2, <2>3, OneMoves
    <2>5. \/ shown'[d][i] = shown[d][i]
          \/ c \in Holding(d, i) /\ shown'[d][i] = shown[d][i] + 1
      BY <1>2
    <2>6. log'[d][i] = log[d][i]
      OBVIOUS
    <2>7. CASE shown'[d][i] = shown[d][i]
      BY ONLY <2>1, <2>4, <2>6, <2>7
    <2>8. CASE c \in Holding(d, i) /\ shown'[d][i] = shown[d][i] + 1
      BY ONLY <2>1, <2>4, <2>6, <2>8
    <2> QED BY <2>5, <2>7, <2>8
  <1>5. OneEach'
    <2> SUFFICES ASSUME NEW d \in Devices, NEW i \in MsgIds
                 PROVE  log'[d][i] + Cardinality(Working(d, i)') <= Cardinality(CommandsOf(d))
      BY DEF OneEach, CommandsOf
    <2>1. /\ log[d][i] \in Nat /\ Cardinality(CommandsOf(d)) \in Nat
          /\ log[d][i] + Cardinality(Working(d, i)) <= Cardinality(CommandsOf(d))
      BY CommandSets DEF InboxInv, InboxTypeOK, OneEach
    <2>2. /\ IsFiniteSet(Working(d, i)) /\ Working(d, i)' \ {c} = Working(d, i) \ {c}
          /\ c \notin Working(d, i)'
      BY <1>2, CommandSets
    <2>3. /\ Cardinality(Working(d, i)) \in Nat /\ Cardinality(Working(d, i)') \in Nat
          /\ Cardinality(Working(d, i)') <= Cardinality(Working(d, i))
      BY <2>2, OneMoves
    <2> QED BY <2>1, <2>3
  <1> QED BY <1>2, <1>3, <1>4, <1>5 DEF InboxInv

(* A command that goes on without touching cache or log: it starts, takes  *)
(* a page or passes over an envelope.                                      *)
LEMMA MoveKeepsInboxInv ==
  ASSUME InboxInv, UNCHANGED vars, NEW c \in Commands, NEW T \in SUBSET sent,
         NEW a \in {"fetch", "next"},
         at' = [at EXCEPT ![c] = a], todo' = [todo EXCEPT ![c] = T],
         UNCHANGED <<cache, log, shown, batch, kills>>
  PROVE  InboxInv'
  <1>1. /\ cache' \in [Devices -> SUBSET MsgIds] /\ log' \in [Devices -> [MsgIds -> Nat]]
        /\ shown' \in [Devices -> [MsgIds -> Nat]] /\ kills' \in 0 .. MaxKills
        /\ batch[c] \in SUBSET MsgIds /\ batch' = [batch EXCEPT ![c] = batch[c]]
    BY DEF InboxInv, InboxTypeOK
  <1>2. /\ IInv' /\ InboxTypeOK' /\ PagesAreSent'
        /\ at'[c] = a
        /\ \A k \in Commands \ {c} : at'[k] = at[k] /\ Current(k)' = Current(k)
        /\ \A d \in Devices, i \in MsgIds :
              /\ Working(d, i)' \ {c} = Working(d, i) \ {c}
              /\ c \in Working(d, i)' <=>
                    DeviceOf[c] = d /\ a \in {"cache", "log"} /\ Current(c)'.id = i
    <2>1. CommandMoves(c, a, T, batch[c])
      BY <1>1 DEF CommandMoves
    <2>2. CommandFramed(c, a, T, batch[c])
      BY <1>1, <2>1, CommandFrame
    <2> QED BY <2>2 DEF CommandFramed
  <1>3. CachedFirst'
    BY <1>2 DEF InboxInv, CachedFirst
  <1>4. LoggedFirst'
    <2>1. \A d \in Devices, i \in MsgIds : Holding(d, i)' = Holding(d, i)
      BY DEF Holding, CommandsOf
    <2> QED BY <2>1 DEF InboxInv, LoggedFirst
  <1>5. OneEach'
    <2> SUFFICES ASSUME NEW d \in Devices, NEW i \in MsgIds
                 PROVE  log'[d][i] + Cardinality(Working(d, i)') <= Cardinality(CommandsOf(d))
      BY DEF OneEach, CommandsOf
    <2>1. /\ log[d][i] \in Nat /\ Cardinality(CommandsOf(d)) \in Nat
          /\ log[d][i] + Cardinality(Working(d, i)) <= Cardinality(CommandsOf(d))
      BY CommandSets DEF InboxInv, InboxTypeOK, OneEach
    <2>2. /\ IsFiniteSet(Working(d, i)) /\ Working(d, i)' \ {c} = Working(d, i) \ {c}
          /\ c \notin Working(d, i)'
      BY <1>2, CommandSets
    <2>3. /\ Cardinality(Working(d, i)) \in Nat /\ Cardinality(Working(d, i)') \in Nat
          /\ Cardinality(Working(d, i)') <= Cardinality(Working(d, i))
      BY <2>2, OneMoves
    <2> QED BY <2>1, <2>3
  <1> QED BY <1>2, <1>3, <1>4, <1>5 DEF InboxInv

(* A message that is taken up is in no log yet, so the command that takes  *)
(* it up is one more for it.                                               *)
LEMMA DecryptKeepsInboxInv ==
  ASSUME InboxInv, UNCHANGED vars, NEW c \in Commands, Decrypt(c)
  PROVE  InboxInv'
  <1>0. /\ at[c] = "next" /\ todo[c] # {} /\ Current(c).id \notin cache[DeviceOf[c]]
        /\ at' = [at EXCEPT ![c] = "cache"] /\ UNCHANGED <<cache, log, shown, todo, batch, kills>>
    BY DEF Decrypt, Cached
  <1>1. /\ cache' \in [Devices -> SUBSET MsgIds] /\ log' \in [Devices -> [MsgIds -> Nat]]
        /\ shown' \in [Devices -> [MsgIds -> Nat]] /\ kills' \in 0 .. MaxKills
        /\ batch[c] \in SUBSET MsgIds /\ batch' = [batch EXCEPT ![c] = batch[c]]
        /\ todo[c] \in SUBSET sent /\ todo' = [todo EXCEPT ![c] = todo[c]]
        /\ DeviceOf[c] \in Devices
    BY <1>0, DeviceOfType DEF InboxInv, InboxTypeOK, PagesAreSent
  <1>c. Current(c)' = Current(c) /\ Current(c).id \in MsgIds
    BY <1>0, CurrentIsThere, CurrentStays DEF vars
  <1>2. /\ IInv' /\ InboxTypeOK' /\ PagesAreSent'
        /\ at'[c] = "cache"
        /\ \A k \in Commands \ {c} : at'[k] = at[k] /\ Current(k)' = Current(k)
        /\ \A d \in Devices, i \in MsgIds :
              /\ Working(d, i)' \ {c} = Working(d, i) \ {c}
              /\ c \in Working(d, i) <=>
                    DeviceOf[c] = d /\ at[c] \in {"cache", "log"} /\ Current(c).id = i
              /\ c \in Working(d, i)' <=>
                    DeviceOf[c] = d /\ "cache" \in {"cache", "log"} /\ Current(c)'.id = i
    <2>1. CommandMoves(c, "cache", todo[c], batch[c])
      BY <1>0, <1>1 DEF CommandMoves
    <2>2. CommandFramed(c, "cache", todo[c], batch[c])
      BY <1>1, <2>1, CommandFrame
    <2> QED BY <2>2 DEF CommandFramed
  <1>3. CachedFirst'
    BY <1>0, <1>2 DEF InboxInv, CachedFirst
  <1>4. LoggedFirst'
    <2>1. \A d \in Devices, i \in MsgIds : Holding(d, i)' = Holding(d, i)
      BY <1>0 DEF Holding, CommandsOf
    <2> QED BY <1>0, <2>1 DEF InboxInv, LoggedFirst
  <1>5. OneEach'
    <2> SUFFICES ASSUME NEW d \in Devices, NEW i \in MsgIds
                 PROVE  log'[d][i] + Cardinality(Working(d, i)') <= Cardinality(CommandsOf(d))
      BY DEF OneEach, CommandsOf
    <2>1. /\ log[d][i] \in Nat /\ Cardinality(CommandsOf(d)) \in Nat
          /\ log[d][i] + Cardinality(Working(d, i)) <= Cardinality(CommandsOf(d))
      BY CommandSets DEF InboxInv, InboxTypeOK, OneEach
    <2>2. /\ IsFiniteSet(Working(d, i)) /\ Working(d, i)' \ {c} = Working(d, i) \ {c}
      BY <1>2, CommandSets
    <2>3. /\ Cardinality(Working(d, i)) \in Nat /\ Cardinality(Working(d, i)') \in Nat
          /\ c \notin Working(d, i)' => Cardinality(Working(d, i)') <= Cardinality(Working(d, i))
      BY <2>2, OneMoves
    <2>4. CASE c \notin Working(d, i)'
      BY <1>0, <2>1, <2>3, <2>4
    <2>5. CASE c \in Working(d, i)'
      <3>1. DeviceOf[c] = d /\ Current(c).id = i
        BY <1>2, <1>c, <2>5
      <3>2. log[d][i] = 0 /\ log'[d][i] = 0
        <4>1. ~(log[d][i] > 0)
          BY <1>0, <3>1 DEF InboxInv, CachedFirst
        <4> QED BY <4>1, <2>1, <1>0
      <3>3. Working(d, i)' \subseteq CommandsOf(d)
        BY DEF Working, CommandsOf
      <3>4. Cardinality(Working(d, i)') <= Cardinality(CommandsOf(d))
        BY <3>3, CommandSets, FS_Subset
      <3> QED BY <3>2, <3>4, <2>3
    <2> QED BY <2>4, <2>5
  <1> QED BY <1>2, <1>3, <1>4, <1>5 DEF InboxInv

(* The cache file is written first.                                        *)
LEMMA WriteCacheKeepsInboxInv ==
  ASSUME InboxInv, UNCHANGED vars, NEW c \in Commands, WriteCache(c)
  PROVE  InboxInv'
  <1>0. /\ at[c] = "cache" /\ todo[c] # {}
        /\ cache' = [cache EXCEPT ![DeviceOf[c]] = @ \union {Current(c).id}]
        /\ at' = [at EXCEPT ![c] = "log"] /\ UNCHANGED <<log, shown, todo, batch, kills>>
    BY DEF WriteCache, InboxInv, InboxTypeOK
  <1>c. Current(c)' = Current(c) /\ Current(c).id \in MsgIds /\ DeviceOf[c] \in Devices
    BY <1>0, CurrentIsThere, CurrentStays, DeviceOfType DEF vars
  <1>1. /\ cache' \in [Devices -> SUBSET MsgIds] /\ log' \in [Devices -> [MsgIds -> Nat]]
        /\ shown' \in [Devices -> [MsgIds -> Nat]] /\ kills' \in 0 .. MaxKills
        /\ batch[c] \in SUBSET MsgIds /\ batch' = [batch EXCEPT ![c] = batch[c]]
        /\ todo[c] \in SUBSET sent /\ todo' = [todo EXCEPT ![c] = todo[c]]
    BY <1>0, <1>c DEF InboxInv, InboxTypeOK, PagesAreSent
  <1>2. /\ IInv' /\ InboxTypeOK' /\ PagesAreSent'
        /\ at'[c] = "log"
        /\ \A k \in Commands \ {c} : at'[k] = at[k] /\ Current(k)' = Current(k)
        /\ \A d \in Devices, i \in MsgIds :
              /\ Working(d, i)' \ {c} = Working(d, i) \ {c}
              /\ c \in Working(d, i) <=>
                    DeviceOf[c] = d /\ at[c] \in {"cache", "log"} /\ Current(c).id = i
              /\ c \in Working(d, i)' <=>
                    DeviceOf[c] = d /\ "log" \in {"cache", "log"} /\ Current(c)'.id = i
    <2>1. CommandMoves(c, "log", todo[c], batch[c])
      BY <1>0, <1>1 DEF CommandMoves
    <2>2. CommandFramed(c, "log", todo[c], batch[c])
      BY <1>1, <2>1, CommandFrame
    <2> QED BY <2>2 DEF CommandFramed
  <1>3. CachedFirst'
    <2>1. /\ \A d \in Devices : cache[d] \subseteq cache'[d]
          /\ Current(c).id \in cache'[DeviceOf[c]]
      BY <1>0, <1>c DEF InboxInv, InboxTypeOK
    <2>2. ASSUME NEW k \in Commands, at'[k] = "log"
          PROVE  Current(k)'.id \in cache'[DeviceOf[k]]
      <3>1. CASE k = c
        BY <3>1, <2>1, <1>c
      <3>2. CASE k # c
        BY <3>2, <2>1, <2>2, <1>2, DeviceOfType DEF InboxInv, CachedFirst
      <3> QED BY <3>1, <3>2
    <2>3. \A d \in Devices, i \in MsgIds : log'[d][i] > 0 => i \in cache'[d]
      BY <1>0, <2>1 DEF InboxInv, CachedFirst
    <2> QED BY <2>2, <2>3 DEF CachedFirst
  <1>4. LoggedFirst'
    <2>1. \A d \in Devices, i \in MsgIds : Holding(d, i)' = Holding(d, i)
      BY <1>0 DEF Holding, CommandsOf
    <2> QED BY <1>0, <2>1 DEF InboxInv, LoggedFirst
  <1>5. OneEach'
    <2>1. ASSUME NEW d \in Devices, NEW i \in MsgIds
          PROVE  Working(d, i)' = Working(d, i)
      <3>1. c \in Working(d, i)' <=> c \in Working(d, i)
        BY <1>0, <1>2, <1>c
      <3>2. Working(d, i)' \ {c} = Working(d, i) \ {c}
        BY <1>2
      <3> QED BY <3>1, <3>2
    <2> QED BY <1>0, <2>1 DEF InboxInv, OneEach, CommandsOf
  <1> QED BY <1>2, <1>3, <1>4, <1>5 DEF InboxInv

(* The log entry turns work under way into work done, and the command that *)
(* wrote it will print the message.                                        *)
LEMMA AppendLogKeepsInboxInv ==
  ASSUME InboxInv, UNCHANGED vars, NEW c \in Commands, AppendLog(c)
  PROVE  InboxInv'
  <1> DEFINE D == DeviceOf[c]
             J == Current(c).id
             T == todo[c] \ {Current(c)}
             B == batch[c] \union {J}
  <1>0. /\ at[c] = "log" /\ todo[c] # {}
        /\ log' = [log EXCEPT ![D][J] = @ + 1]
        /\ batch' = [batch EXCEPT ![c] = B] /\ todo' = [todo EXCEPT ![c] = T]
        /\ at' = [at EXCEPT ![c] = "next"] /\ UNCHANGED <<cache, shown, kills>>
    BY DEF AppendLog, InboxInv, InboxTypeOK
  <1>c. J \in MsgIds /\ D \in Devices /\ J \in cache[D]
    BY <1>0, CurrentIsThere, DeviceOfType DEF InboxInv, CachedFirst
  <1>l. /\ log' \in [Devices -> [MsgIds -> Nat]]
        /\ \A d \in Devices, i \in MsgIds :
              /\ log[d][i] \in Nat /\ shown[d][i] \in Nat
              /\ log'[d][i] = IF d = D /\ i = J THEN log[d][i] + 1 ELSE log[d][i]
    BY <1>0, <1>c DEF InboxInv, InboxTypeOK
  <1>1. /\ cache' \in [Devices -> SUBSET MsgIds] /\ shown' \in [Devices -> [MsgIds -> Nat]]
        /\ kills' \in 0 .. MaxKills /\ B \in SUBSET MsgIds /\ T \in SUBSET sent
    BY <1>0, <1>c DEF InboxInv, InboxTypeOK, PagesAreSent
  <1>2. /\ IInv' /\ InboxTypeOK' /\ PagesAreSent'
        /\ at'[c] = "next"
        /\ \A k \in Commands \ {c} : at'[k] = at[k] /\ Current(k)' = Current(k)
        /\ \A d \in Devices, i \in MsgIds :
              /\ Working(d, i)' \ {c} = Working(d, i) \ {c}
              /\ Holding(d, i)' \ {c} = Holding(d, i) \ {c}
              /\ c \in Holding(d, i) <=> D = d /\ i \in batch[c]
              /\ c \in Holding(d, i)' <=> D = d /\ i \in B
              /\ c \in Working(d, i) <=>
                    D = d /\ at[c] \in {"cache", "log"} /\ J = i
              /\ c \in Working(d, i)' <=>
                    D = d /\ "next" \in {"cache", "log"} /\ Current(c)'.id = i
    <2>1. CommandMoves(c, "next", T, B)
      BY <1>0, <1>1 DEF CommandMoves
    <2> HIDE DEF T, B
    <2>2. CommandFramed(c, "next", T, B)
      BY <1>1, <1>l, <2>1, CommandFrame
    <2> QED BY <2>2 DEF CommandFramed
  <1>3. CachedFirst'
    <2>1. \A k \in Commands : at'[k] = "log" => Current(k)'.id \in cache'[DeviceOf[k]]
      BY <1>0, <1>2 DEF InboxInv, CachedFirst
    <2>2. \A d \in Devices, i \in MsgIds : log'[d][i] > 0 => i \in cache'[d]
      BY <1>0, <1>l, <1>c DEF InboxInv, CachedFirst
    <2> QED BY <2>1, <2>2 DEF CachedFirst
  <1> HIDE DEF D, J
  <1>4. LoggedFirst'
    <2> SUFFICES ASSUME NEW d \in Devices, NEW i \in MsgIds
                 PROVE  shown'[d][i] + Cardinality(Holding(d, i)') <= log'[d][i]
      BY DEF LoggedFirst
    <2>1. /\ shown[d][i] \in Nat /\ log[d][i] \in Nat /\ shown'[d][i] = shown[d][i]
          /\ shown[d][i] + Cardinality(Holding(d, i)) <= log[d][i]
      BY <1>0, <1>l DEF InboxInv, LoggedFirst
    <2>2. IsFiniteSet(Holding(d, i)) /\ Holding(d, i)' \ {c} = Holding(d, i) \ {c}
      BY <1>2, CommandSets
    <2>3. /\ Cardinality(Holding(d, i)) \in Nat /\ Cardinality(Holding(d, i)') \in Nat
          /\ Cardinality(Holding(d, i)') <= Cardinality(Holding(d, i)) + 1
      BY <2>2, OneMoves
    <2>4. CASE d = D /\ i = J
      <3>1. log'[d][i] = log[d][i] + 1
        BY <1>l, <2>4
      <3> QED BY ONLY <2>1, <2>3, <3>1
    <2>5. CASE ~(d = D /\ i = J)
      <3>1. log'[d][i] = log[d][i]
        BY <1>l, <2>5
      <3>2. c \in Holding(d, i)' <=> c \in Holding(d, i)
        BY <1>2, <2>5
      <3>3. Holding(d, i)' = Holding(d, i)
        BY <2>2, <3>2
      <3> QED BY ONLY <2>1, <2>3, <3>1, <3>3
    <2> QED BY <2>4, <2>5
  <1>5. OneEach'
    <2> SUFFICES ASSUME NEW d \in Devices, NEW i \in MsgIds
                 PROVE  log'[d][i] + Cardinality(Working(d, i)') <= Cardinality(CommandsOf(d))
      BY DEF OneEach, CommandsOf
    <2>1. /\ log[d][i] \in Nat /\ Cardinality(CommandsOf(d)) \in Nat
          /\ log[d][i] + Cardinality(Working(d, i)) <= Cardinality(CommandsOf(d))
      BY <1>l, CommandSets DEF InboxInv, OneEach
    <2>2. /\ IsFiniteSet(Working(d, i)) /\ Working(d, i)' \ {c} = Working(d, i) \ {c}
          /\ c \notin Working(d, i)'
      BY <1>2, CommandSets
    <2>3. /\ Cardinality(Working(d, i)) \in Nat /\ Cardinality(Working(d, i)') \in Nat
          /\ Cardinality(Working(d, i)') <= Cardinality(Working(d, i))
          /\ c \in Working(d, i) =>
                Cardinality(Working(d, i)') + 1 <= Cardinality(Working(d, i))
      BY <2>2, OneMoves
    <2>4. CASE d = D /\ i = J
      <3>1. log'[d][i] = log[d][i] + 1
        BY <1>l, <2>4
      <3>2. c \in Working(d, i)
        BY <1>0, <1>2, <2>4
      <3> QED BY ONLY <2>1, <2>3, <3>1, <3>2
    <2>5. CASE ~(d = D /\ i = J)
      <3>1. log'[d][i] = log[d][i]
        BY <1>l, <2>5
      <3> QED BY ONLY <2>1, <2>3, <3>1
    <2> QED BY <2>4, <2>5
  <1> QED BY <1>2, <1>3, <1>4, <1>5 DEF InboxInv

(* Every step of the relay and of a command preserves the invariant.       *)
LEMMA SyncNextKeepsInboxInv == InboxInv /\ [SyncNext]_syncVars => InboxInv'
  <1> SUFFICES ASSUME InboxInv, [SyncNext]_syncVars PROVE InboxInv'
    OBVIOUS
  <1>t. /\ kills \in 0 .. MaxKills /\ shown \in [Devices -> [MsgIds -> Nat]]
        /\ \A c \in Commands : todo[c] \in SUBSET sent
        /\ at \in [Commands -> {"idle", "fetch", "next", "cache", "log"}]
        /\ todo \in [Commands -> SUBSET Envelope]
    BY DEF InboxInv, InboxTypeOK, PagesAreSent
  <1>1. CASE [Next]_vars /\ UNCHANGED inboxVars
    BY <1>1, RelayKeepsInboxInv
  <1>2. ASSUME NEW c \in Commands, UNCHANGED vars, Start(c) PROVE InboxInv'
    <2>1. todo' = [todo EXCEPT ![c] = todo[c]] /\ at' = [at EXCEPT ![c] = "fetch"]
          /\ UNCHANGED <<cache, log, shown, batch, kills>>
      BY <1>2, <1>t DEF Start
    <2> QED BY <1>2, <1>t, <2>1, MoveKeepsInboxInv
  <1>3. ASSUME NEW c \in Commands, UNCHANGED vars, Fetch(c) PROVE InboxInv'
    <2>1. Inbox(clock) \in SUBSET sent
      BY DEF InboxInv, IInv, IdsNameEnvelopes, Inbox, Unexpired
    <2>2. todo' = [todo EXCEPT ![c] = Inbox(clock)] /\ at' = [at EXCEPT ![c] = "next"]
          /\ UNCHANGED <<cache, log, shown, batch, kills>>
      BY <1>3 DEF Fetch
    <2> QED BY <1>3, <2>1, <2>2, MoveKeepsInboxInv
  <1>4. ASSUME NEW c \in Commands, UNCHANGED vars, Skip(c) PROVE InboxInv'
    <2>1. todo[c] \ {Current(c)} \in SUBSET sent
      BY <1>t
    <2>2. /\ todo' = [todo EXCEPT ![c] = todo[c] \ {Current(c)}]
          /\ at' = [at EXCEPT ![c] = "next"]
          /\ UNCHANGED <<cache, log, shown, batch, kills>>
      BY <1>4, <1>t DEF Skip
    <2> QED BY <1>4, <2>1, <2>2, MoveKeepsInboxInv
  <1>5. ASSUME NEW c \in Commands, UNCHANGED vars, FetchFails(c) \/ Abort(c) \/ Kill(c)
        PROVE  InboxInv'
    <2>1. Finish(c) /\ UNCHANGED <<cache, log, shown>>
      BY <1>5 DEF FetchFails, Abort, Kill
    <2>2. kills' \in 0 .. MaxKills
      BY <1>5, <1>t, MaxKillsIsNat DEF FetchFails, Abort, Kill
    <2> QED BY <1>5, <1>t, <2>1, <2>2, FinishKeepsInboxInv
  <1>6. ASSUME NEW c \in Commands, UNCHANGED vars, Display(c) PROVE InboxInv'
    <2>1. Finish(c) /\ UNCHANGED <<cache, log, kills>>
      BY <1>6 DEF Display
    <2>2. DeviceOf[c] \in Devices
      BY DeviceOfType
    <2>3. \A i \in MsgIds : shown[DeviceOf[c]][i] \in Nat
      BY <2>2, <1>t
    <2>4. shown' = [shown EXCEPT ![DeviceOf[c]] =
              [i \in MsgIds |-> IF i \in batch[c] THEN shown[DeviceOf[c]][i] + 1
                                ELSE shown[DeviceOf[c]][i]]]
      BY <1>6 DEF Display
    <2>5. shown' \in [Devices -> [MsgIds -> Nat]]
      BY <1>t, <2>2, <2>3, <2>4
    <2>6. \A d \in Devices, i \in MsgIds :
            \/ shown'[d][i] = shown[d][i]
            \/ DeviceOf[c] = d /\ i \in batch[c] /\ shown'[d][i] = shown[d][i] + 1
      BY <1>t, <2>2, <2>4
    <2> QED BY <1>6, <1>t, <2>1, <2>5, <2>6, FinishKeepsInboxInv
  <1>7. CASE UNCHANGED syncVars
    BY <1>7, <1>1 DEF syncVars
  <1>8. ASSUME NEW c \in Commands, (Start(c) \/ CommandStep(c) \/ Kill(c)) /\ UNCHANGED vars
        PROVE  InboxInv'
    BY <1>2, <1>3, <1>4, <1>5, <1>6, <1>8, DecryptKeepsInboxInv, WriteCacheKeepsInboxInv,
       AppendLogKeepsInboxInv DEF CommandStep
  <1> QED BY <1>1, <1>7, <1>8 DEF SyncNext

-----------------------------------------------------------------------------
(* The composed invariant holds in every reachable state.                  *)
THEOREM InboxInvariantHolds == SyncSpec => []InboxInv
  BY InitInboxInv, SyncNextKeepsInboxInv, PTL DEF SyncSpec

(* Type correctness of the devices and their commands; a command that      *)
(* writes has an envelope to write.                                        *)
THEOREM InboxTypeCorrect == SyncSpec => []InboxTypeOK
  <1>1. InboxInv => InboxTypeOK
    BY DEF InboxInv
  <1> QED BY <1>1, InboxInvariantHolds, PTL

(* Nothing is printed more often than it was logged, and nothing is logged *)
(* that has no cache file, whatever commands race or are cut short.        *)
THEOREM PrintedOnlyOnRecord == SyncSpec => []PrintedIsOnRecord
  <1>1. InboxInv => PrintedIsOnRecord
    <2> SUFFICES ASSUME InboxInv, NEW d \in Devices, NEW i \in MsgIds
                 PROVE  shown[d][i] <= log[d][i] /\ (log[d][i] > 0 => i \in cache[d])
      BY DEF PrintedIsOnRecord
    <2>1. /\ shown[d][i] \in Nat /\ log[d][i] \in Nat
          /\ shown[d][i] + Cardinality(Holding(d, i)) <= log[d][i]
      BY DEF InboxInv, InboxTypeOK, LoggedFirst
    <2>2. Cardinality(Holding(d, i)) \in Nat
      BY CommandSets
    <2>3. log[d][i] > 0 => i \in cache[d]
      BY DEF InboxInv, CachedFirst
    <2> QED BY <2>1, <2>2, <2>3
  <1> QED BY <1>1, InboxInvariantHolds, PTL

(* A message is logged at most once for each command the device runs side  *)
(* by side, over any number of commands one after another.                 *)
THEOREM RepeatsAreBounded == SyncSpec => []RepeatsBounded
  <1>1. InboxInv => RepeatsBounded
    <2> SUFFICES ASSUME InboxInv, NEW d \in Devices, NEW i \in MsgIds
                 PROVE  log[d][i] <= Cardinality({c \in Commands : DeviceOf[c] = d})
      BY DEF RepeatsBounded
    <2>1. /\ log[d][i] \in Nat
          /\ log[d][i] + Cardinality(Working(d, i)) <= Cardinality(CommandsOf(d))
      BY DEF InboxInv, InboxTypeOK, OneEach
    <2>2. Cardinality(Working(d, i)) \in Nat /\ Cardinality(CommandsOf(d)) \in Nat
      BY CommandSets
    <2>3. log[d][i] <= Cardinality(CommandsOf(d))
      BY <2>1, <2>2
    <2> QED BY <2>3 DEF CommandsOf
  <1> QED BY <1>1, InboxInvariantHolds, PTL

=============================================================================
