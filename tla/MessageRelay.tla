---------------------------- MODULE MessageRelay ----------------------------
(***************************************************************************)
(* Private messages at the relay: POST /v1/messages on either back end and *)
(* the page GET /v1/inbox answers with.                                    *)
(*                                                                         *)
(* The file store rewrites message_envelopes.json under a mutex and takes  *)
(* an id it already holds for a success.  Firestore commits a new document *)
(* under the precondition that none exists; its commits can be applied     *)
(* after their handler has given up, and a TTL policy deletes expired      *)
(* documents in the background.  Firestore is external.                    *)
(*                                                                         *)
(* All messages go to one recipient: both inbox queries select by          *)
(* recipient before they count.  An envelope is its id, the creation time  *)
(* its sender's clock gave it (the relay does not compare it with its own) *)
(* and whether the recipient holds the key it is sealed to.                *)
(***************************************************************************)
EXTENDS Naturals, FiniteSets

CONSTANTS
    Handlers,
    Backends,     \* back ends the relay can be built with
    MsgIds,       \* message ids; their order is the order of the strings
    TTLs,         \* ttl_seconds, between 1 and MAX_MESSAGE_TTL_SECONDS
    Readable,     \* which envelopes senders make: {TRUE} or BOOLEAN
    Limit,        \* the page size of the inbox, after clamping
    NoEnvelope, Free,
    MaxTime,      \* bound: the clock stops here
    MaxPosts      \* bound: POST requests in one behaviour

ASSUME BackendsAreKnown == Backends \subseteq {"file", "firestore"}
ASSUME BoundsAreNat ==
    /\ MsgIds \subseteq Nat /\ TTLs \subseteq Nat \ {0} /\ Readable \subseteq BOOLEAN
    /\ Limit \in Nat \ {0} /\ MaxTime \in Nat /\ MaxPosts \in Nat

Envelope == [id : MsgIds, created : Nat, ttl : TTLs, readable : BOOLEAN]

ASSUME NoEnvelopeIsFresh == NoEnvelope \notin Envelope
ASSUME FreeIsFresh == Free \notin Handlers

(* StoredMessageEnvelope; the number of the POST stands for stored_at.     *)
StoredMessageEnvelope == [object : Envelope, post : Nat]

ExpiresAt(e) == e.created + e.ttl

VARIABLES
    backend,      \* the MessageStore the server was started with
    clock,        \* Utc::now() of the relay
    store,        \* the stored envelopes
    lock,         \* FileMessageStore.lock
    pc, env,
    snap,         \* the records an insert has loaded from the file
    answer,       \* what the handler is about to answer
    post,         \* the number of the POST it serves
    posts,        \* POSTs so far, against MaxPosts
    sent,         \* envelopes that senders have built
    outbound      \* envelopes in the senders' outbound message logs

storeVars == <<backend, clock, store, lock>>
vars == <<backend, clock, store, lock, pc, env, snap, answer, post, posts, sent, outbound>>

TypeOK ==
    /\ backend \in Backends
    /\ clock \in 0 .. MaxTime
    /\ store \subseteq StoredMessageEnvelope
    /\ lock \in Handlers \union {Free}
    /\ pc \in [Handlers -> {"idle", "insert", "save", "done", "late"}]
    /\ env \in [Handlers -> Envelope \union {NoEnvelope}]
    /\ snap \in [Handlers -> SUBSET StoredMessageEnvelope]
    /\ answer \in [Handlers -> {"none", "stored", "rejected", "failed"}]
    /\ post \in [Handlers -> 0 .. MaxPosts]
    /\ posts \in 0 .. MaxPosts
    /\ sent \subseteq Envelope
    /\ outbound \subseteq Envelope
    /\ \A h \in Handlers : pc[h] # "idle" => env[h] \in Envelope

Init ==
    /\ backend \in Backends
    /\ clock = 0
    /\ store = {}
    /\ lock = Free
    /\ pc = [h \in Handlers |-> "idle"]
    /\ env = [h \in Handlers |-> NoEnvelope]
    /\ snap = [h \in Handlers |-> {}]
    /\ answer = [h \in Handlers |-> "none"]
    /\ post = [h \in Handlers |-> 0]
    /\ posts = 0
    /\ sent = {}
    /\ outbound = {}

-----------------------------------------------------------------------------
Tick ==
    /\ clock < MaxTime
    /\ clock' = clock + 1
    /\ UNCHANGED <<backend, store, lock, pc, env, snap, answer, post, posts, sent, outbound>>

(* A valid envelope reaches post_message.                                  *)
PostMessage(h, e) ==
    /\ pc[h] = "idle"
    /\ posts < MaxPosts
    /\ posts' = posts + 1
    /\ pc' = [pc EXCEPT ![h] = "insert"]
    /\ env' = [env EXCEPT ![h] = e]
    /\ post' = [post EXCEPT ![h] = posts]
    /\ UNCHANGED <<backend, clock, store, lock, snap, answer, outbound>>

(* send_message builds an envelope with an id of its own and posts it.     *)
SendMessage(h, e) ==
    /\ \A f \in sent : f.id # e.id
    /\ sent' = sent \union {e}
    /\ PostMessage(h, e)

(* The same signed envelope is posted again: a client that got no answer   *)
(* retries, or the network delivers the request twice.                     *)
PostAgain(h, e) ==
    /\ e \in sent
    /\ UNCHANGED sent
    /\ PostMessage(h, e)

Release(h) ==
    /\ pc' = [pc EXCEPT ![h] = "idle"]
    /\ env' = [env EXCEPT ![h] = NoEnvelope]
    /\ snap' = [snap EXCEPT ![h] = {}]
    /\ answer' = [answer EXCEPT ![h] = "none"]
    /\ post' = [post EXCEPT ![h] = 0]
    /\ UNCHANGED <<posts, sent>>

Answer(h, a) ==
    /\ pc' = [pc EXCEPT ![h] = "done"]
    /\ answer' = [answer EXCEPT ![h] = a]
    /\ snap' = [snap EXCEPT ![h] = {}]
    /\ UNCHANGED <<env, post, posts, sent, outbound>>

Holds(records, id) == \E x \in records : x.object.id = id

NewEntry(h) == [object |-> env[h], post |-> post[h]]

(* Mutant: the records are loaded before the mutex is taken.               *)
LoadUnlocked(h) ==
    /\ backend = "file"
    /\ pc[h] = "insert"
    /\ IF Holds(store, env[h].id)
       THEN Answer(h, "stored")
       ELSE /\ snap' = [snap EXCEPT ![h] = store]
            /\ pc' = [pc EXCEPT ![h] = "save"]
            /\ UNCHANGED <<env, answer, post, posts, sent, outbound>>
    /\ UNCHANGED <<backend, clock, store, lock>>

(* Mutant: an id that is already there is stored once more.                *)
LoadUnchecked(h) ==
    /\ backend = "file"
    /\ pc[h] = "insert"
    /\ lock = Free
    /\ lock' = h
    /\ snap' = [snap EXCEPT ![h] = store]
    /\ pc' = [pc EXCEPT ![h] = "save"]
    /\ UNCHANGED <<backend, clock, store, env, answer, post, posts, sent, outbound>>

(* FileMessageStore::insert: take the mutex and load; an id that is already*)
(* there is a success.                                                     *)
LockAndLoad(h) ==
    /\ backend = "file"
    /\ pc[h] = "insert"
    /\ lock = Free
    /\ IF Holds(store, env[h].id)
       THEN /\ Answer(h, "stored")
            /\ UNCHANGED lock
       ELSE /\ lock' = h
            /\ snap' = [snap EXCEPT ![h] = store]
            /\ pc' = [pc EXCEPT ![h] = "save"]
            /\ UNCHANGED <<env, answer, post, posts, sent, outbound>>
    /\ UNCHANGED <<backend, clock, store>>

(* save: the rename makes the whole new file current.                      *)
Save(h) ==
    /\ pc[h] = "save"
    /\ store' = snap[h] \union {NewEntry(h)}
    /\ lock' = Free
    /\ Answer(h, "stored")
    /\ UNCHANGED <<backend, clock>>

(* Mutant: a failed save returns with the guard still held.                *)
InsertFailsLeakingGuard(h) ==
    /\ \/ pc[h] = "insert" /\ (backend = "file" => lock = Free)
       \/ pc[h] = "save"
    /\ Answer(h, "failed")
    /\ UNCHANGED <<backend, clock, store, lock>>

(* load or save fails, or a Firestore call fails without effect.           *)
InsertFails(h) ==
    /\ \/ pc[h] = "insert" /\ (backend = "file" => lock = Free)
       \/ pc[h] = "save"
    /\ lock' = IF pc[h] = "save" THEN Free ELSE lock
    /\ Answer(h, "failed")
    /\ UNCHANGED <<backend, clock, store>>

(* FirestoreMessageStore::insert: the commit creates the document, or the  *)
(* document exists and the failed precondition becomes an error.           *)
Commit(h) ==
    /\ backend = "firestore"
    /\ pc[h] = "insert"
    /\ \/ /\ ~Holds(store, env[h].id)
          /\ store' = store \union {NewEntry(h)}
          /\ Answer(h, "stored")
       \/ /\ Holds(store, env[h].id)
          /\ UNCHANGED store
          /\ Answer(h, "rejected")
    /\ UNCHANGED <<backend, clock, lock>>

(* The commit times out; Firestore may still apply it.                     *)
CommitTimesOut(h) ==
    /\ backend = "firestore"
    /\ pc[h] = "insert"
    /\ pc' = [pc EXCEPT ![h] = "late"]
    /\ UNCHANGED <<backend, clock, store, lock, env, snap, answer, post, posts, sent, outbound>>

LateCommit(h) ==
    /\ backend = "firestore"
    /\ pc[h] = "late"
    /\ \/ /\ ~Holds(store, env[h].id)
          /\ store' = store \union {NewEntry(h)}
       \/ UNCHANGED store
    /\ Release(h)
    /\ UNCHANGED <<backend, clock, lock, outbound>>

(* send_message sees a status below 400 and logs the envelope.             *)
ReplyStored(h) ==
    /\ pc[h] = "done"
    /\ answer[h] = "stored"
    /\ outbound' = outbound \union {env[h]}
    /\ Release(h)
    /\ UNCHANGED storeVars

(* An error, or a response that never arrives: nothing is logged.          *)
ReplyLost(h) ==
    /\ pc[h] = "done"
    /\ Release(h)
    /\ UNCHANGED <<backend, clock, store, lock, outbound>>

(* Firestore's TTL policy on expires_at.                                   *)
DeleteExpired(x) ==
    /\ backend = "firestore"
    /\ ExpiresAt(x.object) <= clock
    /\ store' = store \ {x}
    /\ UNCHANGED <<backend, clock, lock, pc, env, snap, answer, post, posts, sent, outbound>>

Step(h) ==
    \/ LockAndLoad(h) \/ Save(h) \/ InsertFails(h)
    \/ Commit(h) \/ CommitTimesOut(h) \/ LateCommit(h)
    \/ ReplyStored(h) \/ ReplyLost(h)

Quiescent ==
    /\ posts = MaxPosts /\ clock = MaxTime
    /\ \A h \in Handlers : pc[h] = "idle"
    /\ UNCHANGED vars

(* A sender's clock may be anywhere.                                       *)
Next ==
    \/ \E h \in Handlers :
          \/ Step(h)
          \/ \E i \in MsgIds, t \in 0 .. MaxTime, ttl \in TTLs, b \in Readable :
                SendMessage(h, [id |-> i, created |-> t, ttl |-> ttl, readable |-> b])
          \/ \E e \in sent : PostAgain(h, e)
    \/ \E x \in store : DeleteExpired(x)
    \/ Tick
    \/ Quiescent

Spec == Init /\ [][Next]_vars

(* Handler threads run, and every HTTP call returns or times out.          *)
Fairness == \A h \in Handlers : WF_vars(Step(h))
FairSpec == Spec /\ Fairness

-----------------------------------------------------------------------------
(* Mutant: the last unit of an envelope's life is cut off.                 *)
UnexpiredOneLess(t) == {e \in {x.object : x \in store} : ExpiresAt(e) > t + 1}

(* The envelopes that have not expired at time t.                          *)
Unexpired(t) == {e \in {x.object : x \in store} : ExpiresAt(e) > t}

(* The order of an inbox page: the file store sorts by created_at and id,  *)
(* the Firestore query by expires_at, created_at and id.                   *)
Before(e, f) ==
    LET byCreated == \/ e.created < f.created
                     \/ e.created = f.created /\ e.id < f.id
    IN  IF backend = "file" THEN byCreated
        ELSE \/ ExpiresAt(e) < ExpiresAt(f)
             \/ ExpiresAt(e) = ExpiresAt(f) /\ byCreated

(* get_inbox: the first Limit unexpired envelopes.                         *)
Inbox(t) ==
    {e \in Unexpired(t) : Cardinality({f \in Unexpired(t) : Before(f, e)}) < Limit}

-----------------------------------------------------------------------------
(* Message retries do not create duplicates: concurrent, repeated and late *)
(* inserts of one envelope leave one entry in either store.                *)
NoDuplicateEntries ==
    \A x, y \in store : x.object.id = y.object.id => x = y

(* An envelope that its sender has logged as sent is at the relay until it *)
(* expires: no other insert, failed, late or concurrent, loses it.         *)
OutboundKept ==
    \A e \in outbound : clock < ExpiresAt(e) => \E x \in store : x.object = e

(* Every POST is answered and its handler freed.                           *)
EveryPostEnds == \A h \in Handlers : pc[h] # "idle" ~> pc[h] = "idle"

=============================================================================
