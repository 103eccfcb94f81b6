---------------------------- MODULE HostedBackup ----------------------------
(***************************************************************************)
(* Hosted backups: PUT and GET on /v1/backups/{lookup id} and its          *)
(* /generations, on either back end.  A bucket belongs to the auth token   *)
(* that created it and keeps the MAX_BACKUP_GENERATIONS newest generations.*)
(*                                                                         *)
(* A generation is stamped with the clock of the server that stores it,    *)
(* after the bucket was read.  The file store does both under its mutex    *)
(* and rewrites hosted_backups.json with all buckets; Firestore commits    *)
(* one document under the precondition that it is the one that was read,   *)
(* and may apply a commit after its handler has given up.  Firestore is    *)
(* external.  No operation marks a generation deleted.                     *)
(***************************************************************************)
EXTENDS Integers, FiniteSets

CONSTANTS
    Handlers,         \* request threads of all relay instances
    Backends,         \* back ends the relay can be built with
    Lookups, Tokens,  \* backup lookup ids and auth tokens
    Digests,          \* content digests, in the order of their strings
    Skews,            \* how far an instance's clock may be ahead
    MaxGenerations,   \* MAX_BACKUP_GENERATIONS
    NoBucket, NoRequest, Free,
    MaxRequests       \* bound: requests in one behaviour

ASSUME BackendsAreKnown == Backends \subseteq {"file", "firestore"}
ASSUME BoundsAreNat ==
    /\ Digests \subseteq Nat /\ Skews \subseteq Nat
    /\ MaxGenerations \in Nat \ {0} /\ MaxRequests \in Nat
ASSUME FreeIsFresh == Free \notin Handlers

PutRequest == [op : {"put"}, lookup : Lookups, token : Tokens, digest : Digests]
ReadRequest == [op : {"latest", "list"}, lookup : Lookups, token : Tokens]
Request == PutRequest \union ReadRequest

(* StoredHostedBackupGeneration.  No two readings of a clock with a        *)
(* resolution of nanoseconds are equal: the number of the reading tells    *)
(* generations apart that clocks of two instances stamp alike.             *)
Generation == [created : Nat, digest : Digests, reading : Nat]

(* StoredHostedBackupBucket; a token stands for its hash.                  *)
Bucket == [auth : Tokens, generations : SUBSET Generation]

ASSUME NoBucketIsFresh == NoBucket \notin Bucket
ASSUME NoRequestIsFresh == NoRequest \notin Request

Buckets == [Lookups -> Bucket \union {NoBucket}]
Empty == [l \in Lookups |-> NoBucket]
Statuses == {"none", "stored", "found", "not_found", "unauthorized", "failed"}

VARIABLES
    backend,          \* the BackupStore the servers were started with
    skew,             \* the clock of each handler's instance
    clock,            \* clock readings so far
    buckets,          \* what is stored
    version,          \* updateTime of each document; 0 while there is none
    lock,             \* FileBackupStore.lock
    pc, req,
    seen,             \* the buckets a put has read
    base,             \* and the updateTime that came with its bucket
    gen,              \* the generation it stores, once stamped
    status, answer,   \* what a handler answers: status and generations
    served,           \* requests so far, against MaxRequests
    acked,            \* history: puts whose 201 has reached the client
    before,           \* history: acked when a request arrived
    last              \* history: the generation stored last in each bucket

storeVars == <<buckets, version, last>>
vars == <<backend, skew, clock, buckets, version, lock, pc, req, seen, base,
          gen, status, answer, served, acked, before, last>>

Ack == [lookup : Lookups, token : Tokens, gen : Generation]

TypeOK ==
    /\ backend \in Backends
    /\ skew \in [Handlers -> Skews]
    /\ clock \in Nat
    /\ buckets \in Buckets
    /\ version \in [Lookups -> Nat]
    /\ lock \in Handlers \union {Free}
    /\ pc \in [Handlers -> {"idle", "load", "stamp", "write", "read", "done", "late"}]
    /\ req \in [Handlers -> Request \union {NoRequest}]
    /\ seen \in [Handlers -> Buckets]
    /\ base \in [Handlers -> Nat]
    /\ gen \in [Handlers -> SUBSET Generation]
    /\ status \in [Handlers -> Statuses]
    /\ answer \in [Handlers -> SUBSET Generation]
    /\ served \in 0 .. MaxRequests
    /\ acked \subseteq Ack
    /\ before \in [Handlers -> SUBSET Ack]
    /\ last \in [Lookups -> SUBSET Generation]
    /\ \A l \in Lookups : buckets[l] # NoBucket =>
          /\ IsFiniteSet(buckets[l].generations)
          /\ Cardinality(buckets[l].generations) \in 1 .. MaxGenerations

Init ==
    /\ backend \in Backends
    /\ skew \in [Handlers -> Skews]
    /\ clock = 0
    /\ buckets = Empty
    /\ version = [l \in Lookups |-> 0]
    /\ lock = Free
    /\ pc = [h \in Handlers |-> "idle"]
    /\ req = [h \in Handlers |-> NoRequest]
    /\ seen = [h \in Handlers |-> Empty]
    /\ base = [h \in Handlers |-> 0]
    /\ gen = [h \in Handlers |-> {}]
    /\ status = [h \in Handlers |-> "none"]
    /\ answer = [h \in Handlers |-> {}]
    /\ served = 0
    /\ acked = {}
    /\ before = [h \in Handlers |-> {}]
    /\ last = [l \in Lookups |-> {}]

-----------------------------------------------------------------------------
(* compare_backup_generations: created_at, then the generation id, which   *)
(* is the same time and the digest; equal ones keep their order.           *)
Newer(g, f) ==
    \/ g.created > f.created
    \/ g.created = f.created /\ g.digest > f.digest
    \/ g.created = f.created /\ g.digest = f.digest /\ g.reading < f.reading

(* Mutant: sorted oldest first and truncated.                              *)
NewestFromOldest(S) ==
    {g \in S : Cardinality({f \in S : Newer(g, f)}) < MaxGenerations}

(* Sorted newest first and truncated.                                      *)
Newest(S) == {g \in S : Cardinality({f \in S : Newer(f, g)}) < MaxGenerations}

(* Mutant: the token is not compared.                                      *)
AuthorizedAlways(b, token) == TRUE

Authorized(b, token) == b = NoBucket \/ b.auth = token

(* StoredHostedBackupBucket::put of an authorized request.                 *)
BucketPut(b, token, new) ==
    IF b = NoBucket THEN [auth |-> token, generations |-> Newest(new)]
    ELSE [b EXCEPT !.generations = Newest(@ \union new)]

(* latest: the generation no other one is newer than.                      *)
Latest(b) == {g \in b.generations : \A f \in b.generations \ {g} : Newer(g, f)}

-----------------------------------------------------------------------------
(* A request with a valid lookup id, auth header and backup package.       *)
Begin(h, r) ==
    /\ pc[h] = "idle"
    /\ served < MaxRequests
    /\ served' = served + 1
    /\ pc' = [pc EXCEPT ![h] = IF r.op = "put" THEN "load" ELSE "read"]
    /\ req' = [req EXCEPT ![h] = r]
    /\ before' = [before EXCEPT ![h] = acked]
    /\ UNCHANGED <<backend, skew, clock, lock, seen, base, gen, status, answer,
                   acked, storeVars>>

(* The file store takes its mutex and loads; get_bucket reads a document.  *)
Load(h) ==
    /\ pc[h] = "load"
    /\ \/ backend = "file" /\ lock = Free /\ lock' = h
       \/ backend = "firestore" /\ UNCHANGED lock
    /\ pc' = [pc EXCEPT ![h] = "stamp"]
    /\ seen' = [seen EXCEPT ![h] = buckets]
    /\ base' = [base EXCEPT ![h] = version[req[h].lookup]]
    /\ UNCHANGED <<backend, skew, clock, req, gen, status, answer, served, acked,
                   before, storeVars>>

(* The guard of the file store's mutex goes with the handler that holds it.*)
Unlock(h) == lock' = IF lock = h THEN Free ELSE lock

Answer(h, s, gens) ==
    /\ pc' = [pc EXCEPT ![h] = "done"]
    /\ status' = [status EXCEPT ![h] = s]
    /\ answer' = [answer EXCEPT ![h] = gens]
    /\ Unlock(h)
    /\ UNCHANGED <<backend, skew, req, seen, base, served, acked, before>>

NewGeneration(h) ==
    [created |-> clock + skew[h], digest |-> req[h].digest, reading |-> clock]

(* Mutant: put does not compare the token with the bucket's.               *)
StampUnchecked(h) ==
    /\ pc[h] = "stamp"
    /\ clock' = clock + 1
    /\ gen' = [gen EXCEPT ![h] = {NewGeneration(h)}]
    /\ pc' = [pc EXCEPT ![h] = "write"]
    /\ UNCHANGED <<backend, skew, lock, req, seen, base, status, answer, served,
                   acked, before, storeVars>>

(* The clock is read, and put on the bucket says Stored or Unauthorized.   *)
Stamp(h) ==
    /\ pc[h] = "stamp"
    /\ clock' = clock + 1
    /\ IF Authorized(seen[h][req[h].lookup], req[h].token)
       THEN /\ gen' = [gen EXCEPT ![h] = {NewGeneration(h)}]
            /\ pc' = [pc EXCEPT ![h] = "write"]
            /\ UNCHANGED <<backend, skew, lock, req, seen, base, status, answer,
                           served, acked, before>>
       ELSE /\ Answer(h, "unauthorized", {})
            /\ UNCHANGED gen
    /\ UNCHANGED storeVars

(* The bucket with the handler's put applied to what it read.              *)
Written(h) == BucketPut(seen[h][req[h].lookup], req[h].token, gen[h])

(* It replaces the bucket: in the file as it was loaded, or in Firestore.  *)
Store(h, rest) ==
    /\ buckets' = [rest EXCEPT ![req[h].lookup] = Written(h)]
    /\ version' = [version EXCEPT ![req[h].lookup] = @ + 1]
    /\ last' = [last EXCEPT ![req[h].lookup] = gen[h]]

(* FileBackupStore::save: the rename makes the rewritten file current.     *)
Save(h) ==
    /\ backend = "file"
    /\ pc[h] = "write"
    /\ Store(h, seen[h])
    /\ Answer(h, "stored", gen[h])
    /\ UNCHANGED <<clock, gen>>

(* Mutant: commits carry no precondition.                                  *)
PreconditionDropped(h) == TRUE

(* FirestorePrecondition: the document is the one get_bucket returned, or  *)
(* there is still none.                                                    *)
PreconditionHolds(h) == version[req[h].lookup] = base[h]

(* commit_bucket succeeds.                                                 *)
Commit(h) ==
    /\ backend = "firestore"
    /\ pc[h] = "write"
    /\ PreconditionHolds(h)
    /\ Store(h, buckets)
    /\ Answer(h, "stored", gen[h])
    /\ UNCHANGED <<clock, gen>>

(* The precondition fails, or load, save, get or commit fail without       *)
(* effect: storage_unavailable.                                            *)
Fail(h) ==
    /\ \/ pc[h] \in {"load", "read"} /\ (backend = "file" => lock = Free)
       \/ pc[h] = "write"
    /\ Answer(h, "failed", {})
    /\ UNCHANGED <<clock, gen, storeVars>>

(* The commit times out after its request was sent.                        *)
CommitTimesOut(h) ==
    /\ backend = "firestore"
    /\ pc[h] = "write"
    /\ pc' = [pc EXCEPT ![h] = "late"]
    /\ UNCHANGED <<backend, skew, clock, lock, req, seen, base, gen, status, answer,
                   served, acked, before, storeVars>>

Release(h) ==
    /\ pc' = [pc EXCEPT ![h] = "idle"]
    /\ req' = [req EXCEPT ![h] = NoRequest]
    /\ seen' = [seen EXCEPT ![h] = Empty]
    /\ base' = [base EXCEPT ![h] = 0]
    /\ gen' = [gen EXCEPT ![h] = {}]
    /\ status' = [status EXCEPT ![h] = "none"]
    /\ answer' = [answer EXCEPT ![h] = {}]
    /\ before' = [before EXCEPT ![h] = {}]
    /\ UNCHANGED <<backend, skew, clock, served>>

(* Firestore applies it after all, or drops it.                            *)
LateCommit(h) ==
    /\ pc[h] = "late"
    /\ \/ PreconditionHolds(h) /\ Store(h, buckets)
       \/ UNCHANGED storeVars
    /\ Release(h)
    /\ UNCHANGED <<lock, acked>>

(* What latest and list answer for a bucket.                               *)
ReadStatus(b, token) ==
    IF b = NoBucket THEN "not_found"
    ELSE IF Authorized(b, token) THEN "found" ELSE "unauthorized"

ReadGenerations(b, r) ==
    IF ReadStatus(b, r.token) # "found" THEN {}
    ELSE IF r.op = "latest" THEN Latest(b) ELSE b.generations

(* GET and HEAD read the file or the document without any lock.            *)
Read(h) ==
    /\ pc[h] = "read"
    /\ Answer(h, ReadStatus(buckets[req[h].lookup], req[h].token),
              ReadGenerations(buckets[req[h].lookup], req[h]))
    /\ UNCHANGED <<clock, gen, storeVars>>

(* The answer reaches the client.                                          *)
Reply(h) ==
    /\ pc[h] = "done"
    /\ acked' = IF status[h] # "stored" THEN acked
                ELSE acked \union {[lookup |-> req[h].lookup, token |-> req[h].token,
                                    gen |-> g] : g \in gen[h]}
    /\ Release(h)
    /\ UNCHANGED <<lock, storeVars>>

(* It does not.                                                            *)
ReplyLost(h) ==
    /\ pc[h] = "done"
    /\ Release(h)
    /\ UNCHANGED <<lock, acked, storeVars>>

(* The handler's process dies.  A file store process takes all its         *)
(* handlers with it: here one by one, which allows more.                   *)
Die(h) ==
    /\ pc[h] \notin {"idle", "done", "late"}
    /\ Unlock(h)
    /\ Release(h)
    /\ UNCHANGED <<acked, storeVars>>

Step(h) ==
    \/ Load(h) \/ Stamp(h) \/ Save(h) \/ Commit(h) \/ Fail(h)
    \/ CommitTimesOut(h) \/ LateCommit(h) \/ Read(h)
    \/ Reply(h) \/ ReplyLost(h) \/ Die(h)

Quiescent ==
    /\ served = MaxRequests
    /\ \A h \in Handlers : pc[h] = "idle"
    /\ UNCHANGED vars

Next ==
    \/ \E h \in Handlers : Step(h) \/ \E r \in Request : Begin(h, r)
    \/ Quiescent

Spec == Init /\ [][Next]_vars

-----------------------------------------------------------------------------
(* A backup that was acknowledged is stored, or as many newer ones as a    *)
(* bucket keeps are: no concurrent, failed or late put, and no clock of    *)
(* another instance, makes it disappear before its turn.                   *)
AcknowledgedKept ==
    \A a \in acked :
        LET kept == buckets[a.lookup].generations
        IN  \/ a.gen \in kept
            \/ /\ Cardinality(kept) = MaxGenerations
               /\ \A g \in kept : Newer(g, a.gen)

(* Where the instances' clocks agree, the generation a restore gets is the *)
(* one that was stored last, also when its commit was applied late: the    *)
(* clock is read after the bucket, and the commit only replaces what was   *)
(* read.                                                                   *)
LatestIsLast ==
    (\A g, h \in Handlers : skew[g] = skew[h])
        => \A l \in Lookups : buckets[l] # NoBucket => Latest(buckets[l]) = last[l]

(* A lookup id has one owner: of two clients that create the bucket at     *)
(* once with different tokens, only one is told that its backup is stored. *)
OneOwner ==
    \A a \in acked : buckets[a.lookup] # NoBucket /\ buckets[a.lookup].auth = a.token

(* A restore that begins after a backup was acknowledged is offered that   *)
(* backup or a newer one, and is never told that there is none.            *)
ReadsAreFresh ==
    \A h \in Handlers :
        /\ pc[h] = "done" /\ status[h] # "failed"
        /\ req[h] \in ReadRequest
        => \A a \in before[h] :
              a.lookup = req[h].lookup =>
                  IF a.token = req[h].token
                  THEN /\ status[h] = "found"
                       /\ \E g \in answer[h] : g = a.gen \/ Newer(g, a.gen)
                  ELSE status[h] = "unauthorized"

=============================================================================
