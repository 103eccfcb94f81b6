-------------------------- MODULE HostedBackupProofs --------------------------
(***************************************************************************)
(* Hosted backups for any number of handlers, clients and generations, on  *)
(* both back ends and for any skew of the instances' clocks.               *)
(***************************************************************************)
EXTENDS HostedBackup, FiniteSetTheorems, WellFoundedInduction, TLAPS

-----------------------------------------------------------------------------
(* A non-empty set of numbers has a smallest element.                      *)
LEMMA Smallest ==
  ASSUME NEW T \in SUBSET Nat, T # {}
  PROVE  \E x \in T : \A y \in T : x <= y
  <1>1. PICK x \in T : \A y \in T : ~(<<y, x>> \in OpToRel(<, Nat))
    BY NatLessThanWellFounded, WFMin
  <1>2. \A y \in T : ~(y < x)
    BY <1>1 DEF OpToRel
  <1> QED BY <1>2

(* The order of generations is total and strict: created_at, digest and    *)
(* the order of arrival decide between any two.                            *)
LEMMA NewerOrder ==
  /\ \A g \in Generation : ~Newer(g, g)
  /\ \A f, g, h \in Generation : Newer(f, g) /\ Newer(g, h) => Newer(f, h)
  /\ \A f, g \in Generation : f # g => Newer(f, g) \/ Newer(g, f)
  <1>1. \A g \in Generation : g.created \in Nat /\ g.digest \in Nat /\ g.reading \in Nat
    BY BoundsAreNat DEF Generation
  <1>2. \A f, g \in Generation :
           f.created = g.created /\ f.digest = g.digest /\ f.reading = g.reading => f = g
    BY DEF Generation
  <1> QED BY <1>1, <1>2 DEF Newer

(* A non-empty finite set of generations has an oldest one: the one that   *)
(* is newer than the fewest.                                               *)
LEMMA OldestExists ==
  ASSUME NEW S \in SUBSET Generation, IsFiniteSet(S), S # {}
  PROVE  \E o \in S : \A g \in S \ {o} : Newer(g, o)
  <1> DEFINE Older(g) == {f \in S : Newer(g, f)}
             T == {Cardinality(Older(g)) : g \in S}
  <1>1. \A g \in S : IsFiniteSet(Older(g)) /\ Cardinality(Older(g)) \in Nat
    BY FS_Subset, FS_CardinalityType
  <1>2. T \in SUBSET Nat /\ T # {}
    BY <1>1
  <1>3. PICK n \in T : \A m \in T : n <= m
    <2> HIDE DEF T
    <2> QED BY <1>2, Smallest
  <1>4. PICK o \in S : n = Cardinality(Older(o))
    BY <1>3
  <1>5. ASSUME NEW g \in S \ {o}, ~Newer(g, o) PROVE FALSE
    <2>1. Newer(o, g)
      BY <1>5, NewerOrder
    <2>2. Older(g) \subseteq Older(o) /\ g \in Older(o) /\ g \notin Older(g)
      BY <2>1, NewerOrder
    <2>3. Cardinality(Older(g)) < Cardinality(Older(o))
      <3> HIDE DEF Older
      <3>1. Older(g) # Older(o) /\ IsFiniteSet(Older(o))
        BY <2>2, <1>1
      <3> QED BY <3>1, <2>2, <1>1, FS_Subset
    <2>4. Cardinality(Older(o)) <= Cardinality(Older(g))
      BY <1>3, <1>4
    <2> QED BY <2>3, <2>4, <1>1
  <1> QED BY <1>4, <1>5

(* The same for the newest.                                                *)
LEMMA NewestExists ==
  ASSUME NEW S \in SUBSET Generation, IsFiniteSet(S), S # {}
  PROVE  \E t \in S : \A g \in S \ {t} : Newer(t, g)
  <1> DEFINE Above(g) == {f \in S : Newer(f, g)}
             T == {Cardinality(Above(g)) : g \in S}
  <1>1. \A g \in S : IsFiniteSet(Above(g)) /\ Cardinality(Above(g)) \in Nat
    BY FS_Subset, FS_CardinalityType
  <1>2. T \in SUBSET Nat /\ T # {}
    BY <1>1
  <1>3. PICK n \in T : \A m \in T : n <= m
    <2> HIDE DEF T
    <2> QED BY <1>2, Smallest
  <1>4. PICK t \in S : n = Cardinality(Above(t))
    BY <1>3
  <1>5. ASSUME NEW g \in S \ {t}, ~Newer(t, g) PROVE FALSE
    <2>1. Newer(g, t)
      BY <1>5, NewerOrder
    <2>2. Above(g) \subseteq Above(t) /\ g \in Above(t) /\ g \notin Above(g)
      BY <2>1, NewerOrder
    <2>3. Cardinality(Above(g)) < Cardinality(Above(t))
      <3> HIDE DEF Above
      <3>1. Above(g) # Above(t) /\ IsFiniteSet(Above(t))
        BY <2>2, <1>1
      <3> QED BY <3>1, <2>2, <1>1, FS_Subset
    <2>4. Cardinality(Above(t)) <= Cardinality(Above(g))
      BY <1>3, <1>4
    <2> QED BY <2>3, <2>4, <1>1
  <1> QED BY <1>4, <1>5

(* Truncating a bucket that one put has taken past its limit drops exactly *)
(* the oldest generation; within the limit it drops nothing.               *)
LEMMA Truncation ==
  ASSUME NEW S \in SUBSET Generation, IsFiniteSet(S), S # {},
         Cardinality(S) <= MaxGenerations + 1
  PROVE  \/ Newest(S) = S /\ Cardinality(S) <= MaxGenerations
         \/ \E o \in S : /\ Newest(S) = S \ {o}
                         /\ \A g \in S \ {o} : Newer(g, o)
                         /\ IsFiniteSet(S \ {o})
                         /\ Cardinality(S \ {o}) = MaxGenerations
  <1> DEFINE Above(g) == {f \in S : Newer(f, g)}
  <1>0. MaxGenerations \in Nat /\ MaxGenerations >= 1 /\ Cardinality(S) \in Nat
    BY BoundsAreNat, FS_CardinalityType
  <1>1. \A g \in S : IsFiniteSet(Above(g)) /\ Cardinality(Above(g)) \in Nat
    BY FS_Subset, FS_CardinalityType
  <1>5. \A g \in S : Above(g) \subseteq S \ {g}
    BY NewerOrder
  <1>6. \A g \in S : IsFiniteSet(S \ {g}) /\ Cardinality(S \ {g}) = Cardinality(S) - 1
    BY FS_RemoveElement
  <1>7. \A g \in S : Cardinality(S \ {g}) \in Nat
    BY <1>6, FS_CardinalityType
  <1>2. Newest(S) = {g \in S : Cardinality(Above(g)) < MaxGenerations}
    BY DEF Newest
  <1>3. CASE Cardinality(S) <= MaxGenerations
    <2>2. ASSUME NEW g \in S PROVE Cardinality(Above(g)) < MaxGenerations
      <3> HIDE DEF Above
      <3>1. Cardinality(Above(g)) <= Cardinality(S \ {g})
        BY <1>5, <1>6, FS_Subset
      <3>2. Cardinality(S \ {g}) < MaxGenerations
        BY <1>6, <1>0, <1>3
      <3> QED BY <3>1, <3>2, <1>0, <1>1, <1>7
    <2> HIDE DEF Above
    <2> QED BY <2>2, <1>2, <1>3
  <1>4. CASE Cardinality(S) = MaxGenerations + 1
    <2>1. PICK o \in S : \A g \in S \ {o} : Newer(g, o)
      BY OldestExists
    <2>2. Above(o) = S \ {o}
      BY <2>1, NewerOrder
    <2>3. Cardinality(S \ {o}) = MaxGenerations /\ IsFiniteSet(S \ {o})
      BY <1>6, <1>4, <1>0
    <2>4. o \notin Newest(S)
      <3> HIDE DEF Above
      <3> QED BY <1>2, <2>2, <2>3, <1>0
    <2>5. ASSUME NEW g \in S \ {o} PROVE Cardinality(Above(g)) < MaxGenerations
      <3>1. o \in S \ {g} /\ o \notin Above(g)
        BY <2>1, NewerOrder
      <3>2. Above(g) \subseteq S \ {g} /\ Above(g) # S \ {g}
        BY <3>1, <1>5
      <3> HIDE DEF Above
      <3>3. Cardinality(Above(g)) < Cardinality(S \ {g})
        <4>1. IsFiniteSet(S \ {g}) /\ Above(g) \in SUBSET (S \ {g})
          BY <3>2, <1>6
        <4>2. /\ Cardinality(Above(g)) <= Cardinality(S \ {g})
              /\ Cardinality(S \ {g}) # Cardinality(Above(g))
          BY <4>1, <3>2, FS_Subset
        <4>3. Cardinality(Above(g)) \in Nat /\ Cardinality(S \ {g}) \in Nat
          BY <1>1, <1>7
        <4> QED BY <4>2, <4>3
      <3>4. Cardinality(S \ {g}) = MaxGenerations
        BY <1>6, <1>4, <1>0
      <3> QED BY <3>3, <3>4
    <2>6. Newest(S) = S \ {o}
      <3> HIDE DEF Above
      <3> QED BY <1>2, <2>4, <2>5
    <2> QED BY <2>1, <2>3, <2>6
  <1> QED BY <1>0, <1>3, <1>4

-----------------------------------------------------------------------------
(* The generations of a bucket, which may not exist.                       *)
Gens(b) == IF b = NoBucket THEN {} ELSE b.generations

Kept(l, g) ==
    \/ g \in buckets[l].generations
    \/ /\ Cardinality(buckets[l].generations) = MaxGenerations
       /\ \A x \in buckets[l].generations : Newer(x, g)

(* What a client has been promised about a generation.                     *)
Promised(l, t, g) ==
    /\ buckets[l] # NoBucket
    /\ buckets[l].auth = t
    /\ Kept(l, g)

(* Every stored generation carries the time of some instance.              *)
Stamped ==
    \A l \in Lookups : \A x \in Gens(buckets[l]) :
        x.reading < clock /\ \E h \in Handlers : x.created = x.reading + skew[h]

RequestOK(h) ==
    /\ pc[h] \in {"load", "stamp", "write", "late"} => req[h] \in PutRequest
    /\ pc[h] = "read" => req[h] \in ReadRequest
    /\ pc[h] = "done" => req[h] \in Request
    /\ pc[h] = "done" /\ status[h] = "stored" => req[h] \in PutRequest

(* A put that will be written read the bucket as it is: the mutex keeps it *)
(* so, or the precondition tells.                                          *)
Current(h) ==
    pc[h] \in {"stamp", "write", "late"} =>
        /\ backend = "file" => lock = h /\ seen[h] = buckets
        /\ base[h] <= version[req[h].lookup]
        /\ base[h] = version[req[h].lookup] =>
              seen[h][req[h].lookup] = buckets[req[h].lookup]

(* Its stamp is later than that of everything it read.                     *)
Pending(h) ==
    /\ pc[h] = "stamp" =>
          \A x \in Gens(seen[h][req[h].lookup]) : x.reading < clock
    /\ pc[h] \in {"write", "late"} =>
          \E g \in Generation :
              /\ gen[h] = {g}
              /\ Authorized(seen[h][req[h].lookup], req[h].token)
              /\ g.reading < clock /\ g.created = g.reading + skew[h]
              /\ \A x \in Gens(seen[h][req[h].lookup]) : x.reading < g.reading

StoredPromise(h) ==
    pc[h] = "done" /\ status[h] = "stored" =>
        \A g \in gen[h] : Promised(req[h].lookup, req[h].token, g)

FreshAt(h) ==
    /\ pc[h] = "done" /\ status[h] # "failed"
    /\ req[h] \in ReadRequest
    => \A a \in before[h] :
          a.lookup = req[h].lookup =>
              IF a.token = req[h].token
              THEN /\ status[h] = "found"
                   /\ \E g \in answer[h] : g = a.gen \/ Newer(g, a.gen)
              ELSE status[h] = "unauthorized"

HandlerOK(h) ==
    /\ RequestOK(h) /\ Current(h) /\ Pending(h)
    /\ StoredPromise(h) /\ before[h] \subseteq acked /\ FreshAt(h)

AckedOK == \A a \in acked : Promised(a.lookup, a.token, a.gen)

StoreOK == Stamped /\ LatestIsLast

IInv == TypeOK /\ StoreOK /\ AckedOK /\ \A h \in Handlers : HandlerOK(h)

-----------------------------------------------------------------------------
(* No backup is stored at the start.                                       *)
LEMMA InitIInv == Init => IInv
  <1> SUFFICES ASSUME Init PROVE IInv
    OBVIOUS
  <1>1. TypeOK
    BY BoundsAreNat DEF Init, TypeOK, Empty, Buckets, Statuses
  <1>2. StoreOK
    BY DEF Init, StoreOK, Stamped, LatestIsLast, Gens, Empty
  <1>3. AckedOK /\ \A h \in Handlers : HandlerOK(h)
    BY DEF Init, AckedOK, HandlerOK, RequestOK, Current, Pending, StoredPromise, FreshAt
  <1> QED BY <1>1, <1>2, <1>3 DEF IInv

(* A step of one handler leaves what the others rely on.                   *)
LEMMA OthersKeep ==
  ASSUME IInv, NEW k \in Handlers,
         pc'[k] = pc[k], req'[k] = req[k], seen'[k] = seen[k], base'[k] = base[k],
         gen'[k] = gen[k], status'[k] = status[k], answer'[k] = answer[k],
         before'[k] = before[k],
         backend' = backend, skew' = skew, clock' \in {clock, clock + 1},
         acked \subseteq acked',
         lock = k => lock' = k /\ (backend = "file" => buckets' = buckets),
         \A l \in Lookups :
            /\ version'[l] \in Nat /\ version'[l] >= version[l]
            /\ version'[l] = version[l] => buckets'[l] = buckets[l],
         \A l \in Lookups, t \in Tokens, g \in Generation : Promised(l, t, g) => Promised(l, t, g)'
  PROVE  HandlerOK(k)'
  <1>0. HandlerOK(k) /\ base[k] \in Nat /\ clock \in Nat
    BY DEF IInv, TypeOK
  <1>1. RequestOK(k)'
    BY <1>0 DEF HandlerOK, RequestOK
  <1>2. Current(k)'
    <2> SUFFICES ASSUME pc[k] \in {"stamp", "write", "late"}
                 PROVE  /\ backend = "file" => lock' = k /\ seen[k] = buckets'
                        /\ base[k] <= version'[req[k].lookup]
                        /\ base[k] = version'[req[k].lookup] =>
                              seen[k][req[k].lookup] = buckets'[req[k].lookup]
      BY DEF Current
    <2>1. req[k].lookup \in Lookups
      BY <1>0 DEF HandlerOK, RequestOK, PutRequest
    <2>2. version[req[k].lookup] \in Nat
      BY <2>1 DEF IInv, TypeOK
    <2>3. backend = "file" => lock' = k /\ seen[k] = buckets'
      BY <1>0 DEF HandlerOK, Current
    <2>4. base[k] <= version[req[k].lookup]
          /\ (base[k] = version[req[k].lookup] =>
                 seen[k][req[k].lookup] = buckets[req[k].lookup])
      BY <1>0 DEF HandlerOK, Current
    <2>5. version'[req[k].lookup] \in Nat /\ version'[req[k].lookup] >= version[req[k].lookup]
          /\ (version'[req[k].lookup] = version[req[k].lookup]
                => buckets'[req[k].lookup] = buckets[req[k].lookup])
      BY <2>1
    <2> QED BY <1>0, <2>2, <2>3, <2>4, <2>5
  <1>3. Pending(k)'
    <2>1. ASSUME pc[k] = "stamp", NEW x \in Gens(seen[k][req[k].lookup])
          PROVE  x.reading < clock'
      <3>1. x.reading < clock /\ req[k].lookup \in Lookups
        BY <1>0, <2>1 DEF HandlerOK, Pending, RequestOK, PutRequest
      <3>2. seen[k] \in Buckets
        BY DEF IInv, TypeOK
      <3>3. x.reading \in Nat
        BY <2>1, <3>1, <3>2 DEF Gens, Buckets, Bucket, Generation
      <3> QED BY <1>0, <3>1, <3>3
    <2>2. ASSUME pc[k] \in {"write", "late"}
          PROVE  \E g \in Generation :
              /\ gen[k] = {g}
              /\ Authorized(seen[k][req[k].lookup], req[k].token)
              /\ g.reading < clock' /\ g.created = g.reading + skew[k]
              /\ \A x \in Gens(seen[k][req[k].lookup]) : x.reading < g.reading
      <3>1. PICK g \in Generation :
              /\ gen[k] = {g}
              /\ Authorized(seen[k][req[k].lookup], req[k].token)
              /\ g.reading < clock /\ g.created = g.reading + skew[k]
              /\ \A x \in Gens(seen[k][req[k].lookup]) : x.reading < g.reading
        BY <1>0, <2>2 DEF HandlerOK, Pending
      <3>2. g.reading < clock'
        BY <3>1, <1>0 DEF Generation
      <3> QED BY <3>1, <3>2
    <2> QED BY <2>1, <2>2 DEF Pending
  <1>4. StoredPromise(k)'
    <2>1. ASSUME pc[k] = "done", status[k] = "stored", NEW g \in gen[k],
                 NEW m, NEW u, m = req[k].lookup, u = req[k].token
          PROVE  Promised(m, u, g)'
      <3>1. Promised(m, u, g)
        BY <1>0, <2>1 DEF HandlerOK, StoredPromise
      <3>2. m \in Lookups /\ u \in Tokens /\ g \in Generation
        BY <1>0, <2>1 DEF HandlerOK, RequestOK, PutRequest, IInv, TypeOK
      <3> QED BY <3>1, <3>2
    <2> QED BY <2>1 DEF StoredPromise, Promised, Kept
  <1>5. before'[k] \subseteq acked' /\ FreshAt(k)'
    BY <1>0 DEF HandlerOK, FreshAt
  <1> QED BY <1>1, <1>2, <1>3, <1>4, <1>5 DEF HandlerOK

(* A put that is written: the bucket is the one that was read with the new *)
(* generation added and the oldest truncated, the others are as they were, *)
(* and whatever was promised about it still holds.                         *)
LEMMA StoreStep ==
  ASSUME IInv, NEW h \in Handlers, pc[h] \in {"write", "late"}, NEW rest, Store(h, rest),
         \/ backend = "file" /\ rest = seen[h]
         \/ rest = buckets /\ PreconditionHolds(h),
         UNCHANGED <<clock, skew>>
  PROVE  /\ buckets' \in Buckets
         /\ version' \in [Lookups -> Nat]
         /\ last' \in [Lookups -> SUBSET Generation]
         /\ \A l \in Lookups : buckets'[l] # NoBucket =>
               /\ IsFiniteSet(buckets'[l].generations)
               /\ Cardinality(buckets'[l].generations) \in 1 .. MaxGenerations
         /\ \A l \in Lookups :
               /\ version'[l] \in Nat /\ version'[l] >= version[l]
               /\ version'[l] = version[l] => buckets'[l] = buckets[l]
         /\ \A l \in Lookups, t \in Tokens, g \in Generation :
               Promised(l, t, g) => Promised(l, t, g)'
         /\ \A m, u, g : m = req[h].lookup /\ u = req[h].token /\ g \in gen[h]
               => Promised(m, u, g)'
         /\ StoreOK'
  <1> DEFINE l == req[h].lookup
             t == req[h].token
             b == buckets[l]
             c == buckets'[l]
  <1>0. HandlerOK(h) /\ TypeOK /\ StoreOK
    BY DEF IInv
  <1>1. l \in Lookups /\ t \in Tokens
    BY <1>0 DEF HandlerOK, RequestOK, PutRequest
  <1>2. seen[h][l] = b /\ rest = buckets
    BY <1>0 DEF HandlerOK, Current, PreconditionHolds
  <1>3. PICK g \in Generation :
              /\ gen[h] = {g}
              /\ Authorized(b, t)
              /\ g.reading < clock /\ g.created = g.reading + skew[h]
              /\ \A x \in Gens(b) : x.reading < g.reading
    BY <1>0, <1>2 DEF HandlerOK, Pending
  <1> DEFINE S == Gens(b) \union {g}
  <1>4. b \in Bucket \union {NoBucket} /\ buckets \in Buckets /\ DOMAIN buckets = Lookups
    BY <1>0, <1>1 DEF TypeOK, Buckets
  <1>5. buckets' = [buckets EXCEPT ![l] = BucketPut(b, t, {g})]
    BY <1>2, <1>3 DEF Store, Written
  <1>6. c = BucketPut(b, t, {g}) /\ \A m \in Lookups \ {l} : buckets'[m] = buckets[m]
    BY <1>1, <1>4, <1>5
  <1>7. S \in SUBSET Generation /\ Newest(S) \subseteq S
    BY <1>4 DEF Gens, Bucket, Newest
  <1>8. c \in Bucket /\ c.auth = t /\ c.generations = Newest(S)
    <2> HIDE DEF b, c, l, t
    <2>1. CASE b = NoBucket
      <3>1. c = [auth |-> t, generations |-> Newest({g})] /\ S = {g}
        BY <1>6, <2>1 DEF BucketPut, Gens
      <3> QED BY <3>1, <1>1, <1>7 DEF Bucket
    <2>2. CASE b # NoBucket
      <3>1. c = [b EXCEPT !.generations = Newest(b.generations \union {g})]
            /\ S = b.generations \union {g} /\ b \in Bucket /\ b.auth = t
        BY <1>6, <2>2, <1>4, <1>3 DEF BucketPut, Gens, Authorized
      <3> HIDE DEF S
      <3>2. c = [b EXCEPT !.generations = Newest(S)]
        BY <3>1
      <3> QED BY <3>1, <3>2, <1>7 DEF Bucket
    <2> QED BY <2>1, <2>2
  <1>9. c # NoBucket
    BY <1>8, NoBucketIsFresh
  <1>10. /\ IsFiniteSet(S) /\ Cardinality(S) \in Nat /\ Cardinality(S) <= MaxGenerations + 1
         /\ S # {}
    <2>1. IsFiniteSet(Gens(b)) /\ Cardinality(Gens(b)) \in Nat
          /\ Cardinality(Gens(b)) <= MaxGenerations
      <3>1. CASE b = NoBucket
        BY <3>1, FS_EmptySet, BoundsAreNat DEF Gens
      <3>2. CASE b # NoBucket
        <4>1. IsFiniteSet(b.generations) /\ Cardinality(b.generations) \in 1 .. MaxGenerations
          BY <1>0, <1>1, <3>2 DEF TypeOK
        <4> HIDE DEF b
        <4> QED BY <4>1, <3>2, BoundsAreNat DEF Gens
      <3> QED BY <3>1, <3>2
    <2> HIDE DEF b
    <2>2. IsFiniteSet(S) /\ Cardinality(S) \in Nat
          /\ Cardinality(S) <= Cardinality(Gens(b)) + 1
      <3> DEFINE G == Gens(b)
      <3> HIDE DEF G
      <3>1. S = G \union {g} /\ IsFiniteSet(G) /\ Cardinality(G) \in Nat
        BY <2>1 DEF G, S
      <3> HIDE DEF S
      <3>2. IsFiniteSet(G \union {g}) /\ Cardinality(G \union {g}) =
               IF g \in G THEN Cardinality(G) ELSE Cardinality(G) + 1
        BY <3>1, FS_AddElement
      <3>3. IsFiniteSet(S) /\ Cardinality(S) \in Nat /\ Cardinality(S) <= Cardinality(G) + 1
        BY <3>1, <3>2
      <3> QED BY <3>3 DEF G
    <2> QED BY <2>1, <2>2, BoundsAreNat
  <1> HIDE DEF b, c, l, t, S
  <1>11. \/ Newest(S) = S /\ Cardinality(S) <= MaxGenerations
         \/ \E o \in S : /\ Newest(S) = S \ {o}
                         /\ \A x \in S \ {o} : Newer(x, o)
                         /\ IsFiniteSet(S \ {o})
                         /\ Cardinality(S \ {o}) = MaxGenerations
    BY <1>7, <1>10, Truncation
  <1>12. g \in S /\ Gens(b) \subseteq S
    BY DEF S
  <1>13. IsFiniteSet(Newest(S)) /\ Cardinality(Newest(S)) \in 1 .. MaxGenerations
    <2>1. IsFiniteSet(Newest(S)) /\ Cardinality(Newest(S)) <= MaxGenerations
      <3>1. CASE Newest(S) = S /\ Cardinality(S) <= MaxGenerations
        BY <3>1, <1>10
      <3>2. CASE \E o \in S : /\ Newest(S) = S \ {o}
                              /\ IsFiniteSet(S \ {o})
                              /\ Cardinality(S \ {o}) = MaxGenerations
        BY <3>2, BoundsAreNat
      <3> QED BY <3>1, <3>2, <1>11
    <2>2. Newest(S) # {}
      <3>1. CASE Newest(S) = S
        BY <3>1, <1>12
      <3>2. CASE Cardinality(Newest(S)) = MaxGenerations
        BY <3>2, FS_EmptySet, BoundsAreNat
      <3> QED BY <3>1, <3>2, <1>11
    <2>3. Cardinality(Newest(S)) \in Nat /\ Cardinality(Newest(S)) # 0
      BY <2>1, <2>2, FS_CardinalityType, FS_EmptySet
    <2> QED BY <2>1, <2>3, BoundsAreNat
  <1>14. buckets' \in Buckets /\ version' \in [Lookups -> Nat]
         /\ last' \in [Lookups -> SUBSET Generation]
    <2>1. buckets' \in Buckets
      BY <1>4, <1>5, <1>6, <1>8, <1>1 DEF Buckets, c
    <2>2. version' = [version EXCEPT ![l] = @ + 1] /\ last' = [last EXCEPT ![l] = {g}]
      BY <1>3 DEF Store, l
    <2> QED BY <2>1, <2>2, <1>0, <1>1 DEF TypeOK
  <1>15. ASSUME NEW m \in Lookups, buckets'[m] # NoBucket
         PROVE  /\ IsFiniteSet(buckets'[m].generations)
                /\ Cardinality(buckets'[m].generations) \in 1 .. MaxGenerations
    <2>1. CASE m = l
      BY <2>1, <1>13, <1>8 DEF c
    <2>2. CASE m # l
      BY <2>2, <1>6, <1>15, <1>0 DEF TypeOK
    <2> QED BY <2>1, <2>2
  <1>16. ASSUME NEW m \in Lookups
         PROVE  /\ version'[m] \in Nat /\ version'[m] >= version[m]
                /\ version'[m] = version[m] => buckets'[m] = buckets[m]
    <2>1. version' = [version EXCEPT ![l] = @ + 1] /\ version \in [Lookups -> Nat]
      BY <1>0 DEF Store, l, TypeOK
    <2> QED BY <2>1, <1>6
  <1>17. ASSUME NEW m, NEW u, m = l, u = t PROVE Promised(m, u, g)'
    <2>1. g \in Newest(S) \/ (Cardinality(Newest(S)) = MaxGenerations
                                /\ \A x \in Newest(S) : Newer(x, g))
      BY <1>11, <1>12
    <2>2. buckets'[m] # NoBucket /\ buckets'[m].auth = u
          /\ buckets'[m].generations = Newest(S)
      BY <1>8, <1>9, <1>17 DEF c
    <2>3. Kept(m, g)'
      BY <2>1, <2>2 DEF Kept
    <2> QED BY <2>2, <2>3 DEF Promised
  <1>18. ASSUME NEW m \in Lookups, NEW u \in Tokens, NEW f \in Generation,
                Promised(m, u, f)
         PROVE  Promised(m, u, f)'
    <2>1. CASE m # l
      <3>1. buckets'[m] = buckets[m]
        BY <2>1, <1>6
      <3> QED BY <3>1, <1>18 DEF Promised, Kept
    <2>2. CASE m = l
      <3>1. Gens(b) = b.generations /\ b.auth = u /\ u = t
        BY <1>18, <2>2, <1>3 DEF Promised, Gens, Authorized, b
      <3>2. \/ f \in Gens(b)
            \/ Cardinality(Gens(b)) = MaxGenerations /\ \A x \in Gens(b) : Newer(x, f)
        BY <3>1, <1>18, <2>2 DEF Promised, Kept, b
      <3>3. f \in Newest(S) \/ (Cardinality(Newest(S)) = MaxGenerations
                                  /\ \A x \in Newest(S) : Newer(x, f))
        <4>1. CASE f \in Gens(b)
          BY <4>1, <1>11, <1>12
        <4>2. CASE /\ Cardinality(Gens(b)) = MaxGenerations
                   /\ \A x \in Gens(b) : Newer(x, f)
          <5>1. CASE Newest(S) = S /\ Cardinality(S) <= MaxGenerations
            <6>1. Gens(b) \in SUBSET S
              BY <1>12
            <6>2. Cardinality(Gens(b)) <= Cardinality(S)
                  /\ (Cardinality(S) = Cardinality(Gens(b)) => S = Gens(b))
              BY <6>1, <1>10, FS_Subset
            <6>3. S = Gens(b)
              BY <6>2, <5>1, <4>2, <1>10, BoundsAreNat
            <6> QED BY <6>3, <5>1, <4>2
          <5>2. ASSUME NEW o \in S, Newest(S) = S \ {o},
                       \A x \in S \ {o} : Newer(x, o),
                       Cardinality(S \ {o}) = MaxGenerations
                PROVE  /\ Cardinality(Newest(S)) = MaxGenerations
                       /\ \A x \in Newest(S) : Newer(x, f)
            <6>1. ASSUME NEW x \in S \ {o} PROVE Newer(x, f)
              <7>1. CASE x \in Gens(b)
                BY <7>1, <4>2
              <7>2. CASE x \notin Gens(b)
                <8>1. x = g /\ o \in Gens(b)
                  BY <7>2, <6>1, <5>2 DEF S
                <8>2. Newer(x, o) /\ Newer(o, f)
                  BY <8>1, <5>2, <6>1, <4>2
                <8> QED BY <8>2, <1>7, NewerOrder
              <7> QED BY <7>1, <7>2
            <6> QED BY <6>1, <5>2
          <5> QED BY <5>1, <5>2, <1>11
        <4> QED BY <3>2, <4>1, <4>2
      <3>4. buckets'[m].generations = Newest(S) /\ buckets'[m].auth = u
            /\ buckets'[m] # NoBucket
        BY <2>2, <3>1, <1>8, <1>9 DEF c
      <3> QED BY <3>3, <3>4 DEF Promised, Kept
    <2> QED BY <2>1, <2>2
  <1>19. Stamped'
    <2> SUFFICES ASSUME NEW m \in Lookups, NEW x \in Gens(buckets'[m])
                 PROVE  /\ x.reading < clock
                        /\ \E k \in Handlers : x.created = x.reading + skew[k]
      BY DEF Stamped, Gens
    <2>1. CASE x \in Gens(buckets[m])
      BY <2>1, <1>0 DEF StoreOK, Stamped
    <2>2. CASE x \notin Gens(buckets[m])
      <3>1. m = l
        BY <2>2, <1>6
      <3>2. x \in Newest(S)
        BY <3>1, <1>8, <1>9 DEF Gens, c
      <3>3. x = g
        BY <3>1, <3>2, <2>2, <1>7 DEF S, b
      <3> QED BY <3>3, <1>3
    <2> QED BY <2>1, <2>2
  <1>20. LatestIsLast'
    <2> SUFFICES ASSUME \A j, k \in Handlers : skew[j] = skew[k],
                        NEW m \in Lookups, buckets'[m] # NoBucket
                 PROVE  Latest(buckets'[m]) = last'[m]
      BY DEF LatestIsLast, Latest
    <2>1. CASE m # l
      <3>1. buckets'[m] = buckets[m] /\ last'[m] = last[m]
        BY <2>1, <1>6, <1>0 DEF Store, l, TypeOK
      <3>2. Latest(buckets[m]) = last[m]
        BY <3>1, <1>0 DEF StoreOK, LatestIsLast
      <3> QED BY <3>1, <3>2
    <2>2. CASE m = l
      <3>1. last'[l] = {g}
        BY <1>0, <1>1, <1>3 DEF Store, l, TypeOK
      <3>2. \A x \in Gens(b) : x \in Generation /\ x.reading < g.reading
        BY <1>3, <1>7, <1>12
      <3>3. \A x \in Gens(b) : x.created = x.reading + skew[h]
        BY <1>0, <1>1 DEF StoreOK, Stamped, b
      <3>4. ASSUME NEW x \in Gens(b) PROVE Newer(g, x)
        <4>1. x.reading < g.reading /\ x.created = x.reading + skew[h]
              /\ g.created = g.reading + skew[h]
          BY <3>2, <3>3, <1>3
        <4>2. x.reading \in Nat /\ g.reading \in Nat /\ skew[h] \in Nat
          BY <3>2, <1>0, BoundsAreNat DEF Generation, TypeOK
        <4>3. g.created > x.created
          BY <4>1, <4>2
        <4> QED BY <4>3 DEF Newer
      <3>5. \A x \in S \ {g} : Newer(g, x)
        BY <3>4 DEF S
      <3>6. g \in Newest(S)
        <4>1. CASE Newest(S) = S
          BY <4>1, <1>12
        <4>2. ASSUME NEW o \in S, Newest(S) = S \ {o}, \A x \in S \ {o} : Newer(x, o),
                     Cardinality(S \ {o}) = MaxGenerations
              PROVE  g \in Newest(S)
          <5>1. PICK x \in S \ {o} : TRUE
            BY <4>2, FS_EmptySet, BoundsAreNat
          <5>2. Newer(x, o) /\ x # o
            BY <4>2, <5>1
          <5>3. o # g
            BY <5>1, <5>2, <3>5, <1>7, NewerOrder
          <5> QED BY <5>3, <4>2, <1>12
        <4> QED BY <4>1, <4>2, <1>11
      <3>7. Latest(c) = {g}
        <4>1. g \in Latest(c)
          BY <3>5, <3>6, <1>7, <1>8 DEF Latest
        <4>2. ASSUME NEW x \in Latest(c), x # g PROVE FALSE
          <5>1. Newer(x, g) /\ x \in S
            BY <4>2, <3>6, <1>7, <1>8 DEF Latest
          <5> QED BY <5>1, <4>2, <3>5, <1>7, <1>12, NewerOrder
        <4> QED BY <4>1, <4>2
      <3> QED BY <2>2, <3>1, <3>7 DEF c
    <2> QED BY <2>1, <2>2
  <1>21. \A m, u, f : m = req[h].lookup /\ u = req[h].token /\ f \in gen[h]
               => Promised(m, u, f)'
    BY <1>17, <1>3 DEF l, t
  <1> QED BY <1>14, <1>15, <1>16, <1>18, <1>19, <1>20, <1>21 DEF StoreOK

(* Steps that leave what is stored alone.                                  *)
LEMMA QuietStore ==
  ASSUME IInv, UNCHANGED <<storeVars, skew>>, clock' \in {clock, clock + 1}
  PROVE  /\ StoreOK'
         /\ \A l \in Lookups, t \in Tokens, g \in Generation :
               Promised(l, t, g) => Promised(l, t, g)'
         /\ \A a \in acked : Promised(a.lookup, a.token, a.gen)'
         /\ \A l \in Lookups :
               /\ version'[l] \in Nat /\ version'[l] >= version[l]
               /\ version'[l] = version[l] => buckets'[l] = buckets[l]
  <1> USE DEF storeVars
  <1>1. Stamped'
    <2> SUFFICES ASSUME NEW m \in Lookups, NEW x \in Gens(buckets[m])
                 PROVE  /\ x.reading < clock'
                        /\ \E k \in Handlers : x.created = x.reading + skew[k]
      BY DEF Stamped, Gens
    <2>1. x.reading < clock /\ \E k \in Handlers : x.created = x.reading + skew[k]
      BY DEF IInv, StoreOK, Stamped
    <2>2. x.reading \in Nat /\ clock \in Nat
      BY DEF IInv, TypeOK, Gens, Buckets, Bucket, Generation
    <2> QED BY <2>1, <2>2
  <1>2. LatestIsLast'
    BY DEF IInv, StoreOK, LatestIsLast, Latest
  <1>3. \A l \in Lookups, t \in Tokens, g \in Generation :
           Promised(l, t, g) => Promised(l, t, g)'
    BY DEF Promised, Kept
  <1>4. \A a \in acked : Promised(a.lookup, a.token, a.gen)'
    BY DEF IInv, AckedOK, Promised, Kept
  <1>5. ASSUME NEW l \in Lookups
        PROVE  /\ version'[l] \in Nat /\ version'[l] >= version[l]
               /\ version'[l] = version[l] => buckets'[l] = buckets[l]
    BY DEF IInv, TypeOK
  <1> QED BY <1>1, <1>2, <1>3, <1>4, <1>5 DEF StoreOK

(* A handler's slot and nobody else's.                                     *)
Others(h) ==
    \A k \in Handlers \ {h} :
        /\ pc'[k] = pc[k] /\ req'[k] = req[k] /\ seen'[k] = seen[k]
        /\ base'[k] = base[k] /\ gen'[k] = gen[k] /\ status'[k] = status[k]
        /\ answer'[k] = answer[k] /\ before'[k] = before[k]

(* A quiet step of one handler preserves the invariant if its own slot is  *)
(* left in order.                                                          *)
LEMMA QuietStep ==
  ASSUME IInv, NEW h \in Handlers, TypeOK', Others(h), HandlerOK(h)',
         UNCHANGED <<storeVars, skew, backend, acked>>, clock' \in {clock, clock + 1},
         \A k \in Handlers \ {h} : lock = k => lock' = k
  PROVE  IInv'
  <1>1. StoreOK' /\ AckedOK'
    BY QuietStore DEF AckedOK
  <1>2. ASSUME NEW k \in Handlers \ {h} PROVE HandlerOK(k)'
    BY QuietStore, OthersKeep DEF Others, storeVars
  <1> QED BY <1>1, <1>2 DEF IInv

(* A step that stores.                                                     *)
LEMMA StoringStep ==
  ASSUME IInv, NEW h \in Handlers, pc[h] \in {"write", "late"}, NEW rest, Store(h, rest),
         \/ backend = "file" /\ rest = seen[h]
         \/ rest = buckets /\ PreconditionHolds(h),
         TypeOK', Others(h), HandlerOK(h)',
         UNCHANGED <<skew, backend, acked, clock>>,
         \A k \in Handlers \ {h} : lock = k => lock' = k
  PROVE  IInv'
  <1>1. StoreOK'
    BY StoreStep
  <1>2. \A l \in Lookups, t \in Tokens, g \in Generation :
           Promised(l, t, g) => Promised(l, t, g)'
    BY StoreStep
  <1>3. AckedOK'
    <2> SUFFICES ASSUME NEW a \in acked PROVE Promised(a.lookup, a.token, a.gen)'
      BY DEF AckedOK
    <2>1. a.lookup \in Lookups /\ a.token \in Tokens /\ a.gen \in Generation
      BY DEF IInv, TypeOK, Ack
    <2> QED BY <1>2, <2>1 DEF IInv, AckedOK
  <1>4. \A l \in Lookups :
           /\ version'[l] \in Nat /\ version'[l] >= version[l]
           /\ version'[l] = version[l] => buckets'[l] = buckets[l]
    BY StoreStep
  <1>5. ASSUME NEW k \in Handlers \ {h} PROVE HandlerOK(k)'
    <2>1. lock = k => backend # "file"
      BY DEF IInv, HandlerOK, Current
    <2> QED BY <2>1, <1>2, <1>4, OthersKeep DEF Others
  <1> QED BY <1>1, <1>3, <1>5 DEF IInv

(* A handler that gives up its slot.                                       *)
LEMMA ReleaseSlot ==
  ASSUME IInv, NEW h \in Handlers, Release(h)
  PROVE  /\ Others(h)
         /\ HandlerOK(h)'
         /\ pc' \in [Handlers -> {"idle", "load", "stamp", "write", "read", "done", "late"}]
         /\ req' \in [Handlers -> Request \union {NoRequest}]
         /\ seen' \in [Handlers -> Buckets]
         /\ base' \in [Handlers -> Nat]
         /\ gen' \in [Handlers -> SUBSET Generation]
         /\ status' \in [Handlers -> Statuses]
         /\ answer' \in [Handlers -> SUBSET Generation]
         /\ before' \in [Handlers -> SUBSET Ack]
  <1> USE DEF Release, IInv, TypeOK
  <1>1. Others(h)
    BY DEF Others
  <1>2. HandlerOK(h)'
    BY DEF HandlerOK, RequestOK, Current, Pending, StoredPromise, FreshAt
  <1>3. Empty \in Buckets
    BY DEF Empty, Buckets
  <1> QED BY <1>1, <1>2, <1>3 DEF Statuses

(* A handler that answers.                                                 *)
LEMMA AnswerSlot ==
  ASSUME IInv, NEW h \in Handlers, NEW s \in Statuses, NEW gs \in SUBSET Generation,
         Answer(h, s, gs), gen' = gen
  PROVE  /\ Others(h)
         /\ pc'[h] = "done" /\ status'[h] = s /\ answer'[h] = gs
         /\ req' = req /\ seen' = seen /\ base' = base /\ before' = before
         /\ pc' \in [Handlers -> {"idle", "load", "stamp", "write", "read", "done", "late"}]
         /\ status' \in [Handlers -> Statuses]
         /\ answer' \in [Handlers -> SUBSET Generation]
         /\ lock' \in Handlers \union {Free}
         /\ \A k \in Handlers \ {h} : lock = k => lock' = k
         /\ UNCHANGED <<backend, skew, served, acked>>
  BY DEF Answer, IInv, TypeOK, Others, Unlock

(* An answer that promises nothing leaves the invariant in place.          *)
LEMMA PlainAnswer ==
  ASSUME IInv, NEW h \in Handlers, NEW s \in Statuses \ {"stored"},
         pc[h] \in {"load", "stamp", "write", "read"},
         s = "failed" \/ req[h] \notin ReadRequest,
         Answer(h, s, {}), UNCHANGED <<gen, storeVars>>, clock' \in {clock, clock + 1}
  PROVE  IInv'
  <1>1. /\ Others(h)
        /\ pc'[h] = "done" /\ status'[h] = s /\ answer'[h] = {}
        /\ req' = req /\ seen' = seen /\ base' = base /\ before' = before
        /\ pc' \in [Handlers -> {"idle", "load", "stamp", "write", "read", "done", "late"}]
        /\ status' \in [Handlers -> Statuses]
        /\ answer' \in [Handlers -> SUBSET Generation]
        /\ lock' \in Handlers \union {Free}
        /\ \A k \in Handlers \ {h} : lock = k => lock' = k
        /\ UNCHANGED <<backend, skew, served, acked>>
    BY AnswerSlot
  <1>2. TypeOK'
    BY <1>1 DEF IInv, TypeOK, storeVars
  <1>3. HandlerOK(h)'
    <2>1. req[h] \in Request /\ before[h] \subseteq acked
      BY DEF IInv, HandlerOK, RequestOK, Request
    <2> QED BY <1>1, <2>1
        DEF HandlerOK, RequestOK, Current, Pending, StoredPromise, FreshAt
  <1> QED BY <1>1, <1>2, <1>3, QuietStep

(* Every step of a handler preserves the invariant.                        *)
LEMMA BeginIInv ==
  ASSUME IInv, NEW h \in Handlers, NEW r \in Request, Begin(h, r)
  PROVE  IInv'
  <1> USE DEF Begin
  <1>1. Others(h)
    BY DEF IInv, TypeOK, Others
  <1>2. TypeOK'
    BY BoundsAreNat DEF IInv, TypeOK, storeVars
  <1>3. pc'[h] = (IF r.op = "put" THEN "load" ELSE "read") /\ req'[h] = r
        /\ before'[h] = acked
    BY DEF IInv, TypeOK
  <1>4. r.op = "put" => r \in PutRequest
    BY DEF Request, PutRequest, ReadRequest
  <1>5. r.op # "put" => r \in ReadRequest
    BY DEF Request, PutRequest, ReadRequest
  <1>6. HandlerOK(h)'
    BY <1>3, <1>4, <1>5
    DEF HandlerOK, RequestOK, Current, Pending, StoredPromise, FreshAt
  <1> QED BY <1>1, <1>2, <1>6, QuietStep

(* Reading the bucket: what is seen is what is stored.                     *)
LEMMA LoadIInv ==
  ASSUME IInv, NEW h \in Handlers, Load(h)
  PROVE  IInv'
  <1> USE DEF Load
  <1>0. req[h] \in PutRequest /\ req[h].lookup \in Lookups /\ before[h] \subseteq acked
    BY DEF IInv, HandlerOK, RequestOK, PutRequest
  <1>1. Others(h) /\ \A k \in Handlers \ {h} : lock = k => lock' = k
    BY FreeIsFresh DEF IInv, TypeOK, Others
  <1>2. TypeOK'
    BY <1>0 DEF IInv, TypeOK, storeVars
  <1>3. pc'[h] = "stamp" /\ req'[h] = req[h] /\ seen'[h] = buckets
        /\ base'[h] = version[req[h].lookup] /\ (backend = "file" => lock' = h)
        /\ UNCHANGED <<backend, buckets, version, clock, before, acked>>
    BY DEF IInv, TypeOK, storeVars
  <1>4. Current(h)'
    BY <1>0, <1>3 DEF Current, IInv, TypeOK
  <1>5. Pending(h)'
    BY <1>0, <1>3 DEF Pending, IInv, StoreOK, Stamped
  <1>6. HandlerOK(h)'
    BY <1>0, <1>3, <1>4, <1>5 DEF HandlerOK, RequestOK, StoredPromise, FreshAt
  <1> QED BY <1>1, <1>2, <1>6, QuietStep

(* Stamping: the clock is past every stamp the handler has seen.           *)
LEMMA StampIInv ==
  ASSUME IInv, NEW h \in Handlers, Stamp(h)
  PROVE  IInv'
  <1>0. pc[h] = "stamp" /\ clock' = clock + 1 /\ UNCHANGED storeVars
    BY DEF Stamp
  <1>1. HandlerOK(h) /\ TypeOK
    BY DEF IInv
  <1>2. req[h] \in PutRequest /\ before[h] \subseteq acked
    BY <1>0, <1>1 DEF HandlerOK, RequestOK
  <1>3. CASE ~Authorized(seen[h][req[h].lookup], req[h].token)
    <2>1. Answer(h, "unauthorized", {}) /\ UNCHANGED gen
      BY <1>3 DEF Stamp
    <2>2. req[h] \notin ReadRequest
      BY <1>2 DEF PutRequest, ReadRequest
    <2> QED BY <1>0, <2>1, <2>2, PlainAnswer DEF Statuses
  <1>4. CASE Authorized(seen[h][req[h].lookup], req[h].token)
    <2> DEFINE g == NewGeneration(h)
    <2>1. /\ gen' = [gen EXCEPT ![h] = {g}]
          /\ pc' = [pc EXCEPT ![h] = "write"]
          /\ UNCHANGED <<backend, skew, lock, req, seen, base, status, answer, served,
                         acked, before>>
      BY <1>4 DEF Stamp
    <2>2. g.created = clock + skew[h] /\ g.digest = req[h].digest /\ g.reading = clock
      BY DEF NewGeneration
    <2>3. clock \in Nat /\ skew[h] \in Nat /\ req[h].digest \in Digests
      BY <1>1, <1>2, BoundsAreNat DEF TypeOK, PutRequest
    <2>4. g \in Generation
      BY <2>3 DEF NewGeneration, Generation
    <2> HIDE DEF g
    <2>5. Others(h)
      BY <1>1, <2>1 DEF TypeOK, Others
    <2>6. TypeOK'
      BY <1>0, <1>1, <2>1, <2>3, <2>4 DEF TypeOK, storeVars
    <2>7. pc'[h] = "write" /\ gen'[h] = {g}
      BY <1>1, <2>1 DEF TypeOK
    <2>8. Current(h)'
      BY <1>0, <1>1, <2>1, <2>7 DEF HandlerOK, Current, storeVars
    <2>9. Pending(h)'
      <3>1. g.reading < clock' /\ g.created = g.reading + skew'[h]
        BY <1>0, <2>1, <2>2, <2>3
      <3>2. \A x \in Gens(seen[h][req[h].lookup]) : x.reading < g.reading
        BY <1>0, <1>1, <2>2 DEF HandlerOK, Pending
      <3> QED BY <3>1, <3>2, <2>1, <2>4, <2>7, <1>4 DEF Pending, Authorized, Gens
    <2>10. HandlerOK(h)'
      BY <1>2, <2>1, <2>7, <2>8, <2>9 DEF HandlerOK, RequestOK, StoredPromise, FreshAt
    <2> QED BY <1>0, <2>1, <2>5, <2>6, <2>10, QuietStep
  <1> QED BY <1>3, <1>4

(* Save and Commit: the put is stored and answered.                        *)
LEMMA StoredIInv ==
  ASSUME IInv, NEW h \in Handlers, pc[h] = "write", NEW rest, Store(h, rest),
         \/ backend = "file" /\ rest = seen[h]
         \/ rest = buckets /\ PreconditionHolds(h),
         Answer(h, "stored", gen[h]), UNCHANGED <<clock, gen>>
  PROVE  IInv'
  <1>0. HandlerOK(h) /\ TypeOK /\ req[h] \in PutRequest
    BY DEF IInv, HandlerOK, RequestOK
  <1>1. gen[h] \in SUBSET Generation
    BY <1>0 DEF TypeOK
  <1>2. /\ Others(h)
        /\ pc'[h] = "done" /\ status'[h] = "stored" /\ answer'[h] = gen[h]
        /\ req' = req /\ seen' = seen /\ base' = base /\ before' = before
        /\ pc' \in [Handlers -> {"idle", "load", "stamp", "write", "read", "done", "late"}]
        /\ status' \in [Handlers -> Statuses]
        /\ answer' \in [Handlers -> SUBSET Generation]
        /\ lock' \in Handlers \union {Free}
        /\ \A k \in Handlers \ {h} : lock = k => lock' = k
        /\ UNCHANGED <<backend, skew, served, acked>>
    BY <1>1, AnswerSlot DEF Statuses
  <1>3. /\ buckets' \in Buckets
        /\ version' \in [Lookups -> Nat]
        /\ last' \in [Lookups -> SUBSET Generation]
        /\ \A l \in Lookups : buckets'[l] # NoBucket =>
              /\ IsFiniteSet(buckets'[l].generations)
              /\ Cardinality(buckets'[l].generations) \in 1 .. MaxGenerations
    BY <1>2, StoreStep
  <1>4. \A m, u, g : m = req[h].lookup /\ u = req[h].token /\ g \in gen[h]
           => Promised(m, u, g)'
    BY <1>2, StoreStep
  <1>5. TypeOK'
    BY <1>0, <1>2, <1>3 DEF TypeOK
  <1>6. StoredPromise(h)'
    BY <1>2, <1>4 DEF StoredPromise, Promised, Kept
  <1>7. req[h] \notin ReadRequest /\ req[h] \in Request
    BY <1>0 DEF PutRequest, ReadRequest, Request
  <1>8. HandlerOK(h)'
    BY <1>0, <1>2, <1>6, <1>7 DEF HandlerOK, RequestOK, Current, Pending, FreshAt
  <1> QED BY <1>2, <1>5, <1>8, StoringStep

(* Firestore applies a commit after its handler has given up, or drops it. *)
LEMMA LateCommitIInv ==
  ASSUME IInv, NEW h \in Handlers, LateCommit(h)
  PROVE  IInv'
  <1>0. pc[h] = "late" /\ Release(h) /\ UNCHANGED <<lock, acked>>
    BY DEF LateCommit
  <1>1. UNCHANGED <<backend, skew, clock, served>>
    BY <1>0 DEF Release
  <1>2. CASE PreconditionHolds(h) /\ Store(h, buckets)
    <2>1. /\ buckets' \in Buckets
          /\ version' \in [Lookups -> Nat]
          /\ last' \in [Lookups -> SUBSET Generation]
          /\ \A l \in Lookups : buckets'[l] # NoBucket =>
                /\ IsFiniteSet(buckets'[l].generations)
                /\ Cardinality(buckets'[l].generations) \in 1 .. MaxGenerations
      BY <1>0, <1>1, <1>2, StoreStep
    <2>2. TypeOK'
      BY <1>0, <1>1, <2>1, ReleaseSlot DEF IInv, TypeOK
    <2> QED BY <1>0, <1>1, <1>2, <2>2, ReleaseSlot, StoringStep
  <1>3. CASE UNCHANGED storeVars
    <2>1. TypeOK'
      BY <1>0, <1>1, <1>3, ReleaseSlot DEF IInv, TypeOK, storeVars
    <2> QED BY <1>0, <1>1, <1>3, <2>1, ReleaseSlot, QuietStep
  <1> QED BY <1>2, <1>3 DEF LateCommit

(* GET: what was promised before it began is what it finds, or newer.      *)
LEMMA ReadIInv ==
  ASSUME IInv, NEW h \in Handlers, Read(h)
  PROVE  IInv'
  <1> DEFINE r == req[h]
             b == buckets[r.lookup]
             s == ReadStatus(b, r.token)
             gs == ReadGenerations(b, r)
  <1>0. HandlerOK(h) /\ TypeOK /\ r \in ReadRequest /\ pc[h] = "read"
    BY DEF IInv, HandlerOK, RequestOK, Read
  <1>1. r.lookup \in Lookups /\ r.token \in Tokens /\ r \notin PutRequest /\ r \in Request
    BY <1>0 DEF PutRequest, ReadRequest, Request
  <1>2. b \in Bucket \union {NoBucket}
    BY <1>0, <1>1 DEF TypeOK, Buckets
  <1>3. s \in Statuses \ {"stored", "failed"} /\ gs \in SUBSET Generation
    BY <1>2 DEF ReadStatus, ReadGenerations, Statuses, Latest, Bucket
  <1>4. Answer(h, s, gs) /\ UNCHANGED <<clock, gen, storeVars>>
    BY DEF Read
  <1>5. FreshAt(h)' => HandlerOK(h)'
    <2> HIDE DEF s, gs
    <2>1. pc'[h] = "done" /\ status'[h] = s /\ req' = req /\ before' = before
          /\ UNCHANGED acked
      BY <1>3, <1>4, AnswerSlot
    <2> QED BY <1>0, <1>1, <1>3, <2>1
        DEF HandlerOK, RequestOK, Current, Pending, StoredPromise
  <1>6. ASSUME NEW a \in before[h], a.lookup = r.lookup
        PROVE  IF a.token = r.token
               THEN s = "found" /\ \E g \in gs : g = a.gen \/ Newer(g, a.gen)
               ELSE s = "unauthorized"
    <2>1. a \in acked /\ a.gen \in Generation
      BY <1>0, <1>6 DEF HandlerOK, TypeOK, Ack
    <2>2. Promised(r.lookup, a.token, a.gen)
      BY <2>1, <1>6 DEF IInv, AckedOK
    <2>3. b # NoBucket /\ b.auth = a.token /\ b \in Bucket
          /\ \/ a.gen \in b.generations
             \/ \A x \in b.generations : Newer(x, a.gen)
      BY <2>2, <1>2 DEF Promised, Kept
    <2>4. CASE a.token # r.token
      BY <2>3, <2>4 DEF ReadStatus, Authorized
    <2>5. CASE a.token = r.token
      <3>1. s = "found"
        BY <2>3, <2>5 DEF ReadStatus, Authorized
      <3>2. /\ b.generations \in SUBSET Generation /\ IsFiniteSet(b.generations)
            /\ b.generations # {}
        <4>1. IsFiniteSet(b.generations) /\ Cardinality(b.generations) \in 1 .. MaxGenerations
          BY <1>0, <1>1, <2>3 DEF TypeOK
        <4>2. b.generations # {}
          BY <4>1, FS_EmptySet, BoundsAreNat
        <4> QED BY <4>1, <4>2, <2>3 DEF Bucket
      <3>3. PICK t \in b.generations : \A g \in b.generations \ {t} : Newer(t, g)
        BY <3>2, NewestExists
      <3>4. t \in gs
        BY <3>1, <3>3 DEF ReadGenerations, Latest
      <3>5. t = a.gen \/ Newer(t, a.gen)
        BY <3>3, <2>3
      <3> QED BY <3>1, <3>4, <3>5, <2>5
    <2> QED BY <2>4, <2>5
  <1> HIDE DEF s, gs
  <1>7. /\ Others(h)
        /\ pc'[h] = "done" /\ status'[h] = s /\ answer'[h] = gs
        /\ req' = req /\ seen' = seen /\ base' = base /\ before' = before
        /\ pc' \in [Handlers -> {"idle", "load", "stamp", "write", "read", "done", "late"}]
        /\ status' \in [Handlers -> Statuses]
        /\ answer' \in [Handlers -> SUBSET Generation]
        /\ lock' \in Handlers \union {Free}
        /\ \A k \in Handlers \ {h} : lock = k => lock' = k
        /\ UNCHANGED <<backend, skew, served, acked>>
    BY <1>3, <1>4, AnswerSlot
  <1>8. TypeOK'
    BY <1>0, <1>4, <1>7 DEF TypeOK, storeVars
  <1>9. FreshAt(h)'
    BY <1>6, <1>7 DEF FreshAt
  <1> QED BY <1>4, <1>5, <1>7, <1>8, <1>9, QuietStep

(* The client learns of the promise that its answer carries.               *)
LEMMA ReplyIInv ==
  ASSUME IInv, NEW h \in Handlers, Reply(h)
  PROVE  IInv'
  <1>0. pc[h] = "done" /\ Release(h) /\ UNCHANGED <<lock, storeVars, backend, skew, clock, served>>
    BY DEF Reply, Release
  <1>1. HandlerOK(h) /\ TypeOK
    BY DEF IInv
  <1>2. ASSUME NEW a \in acked', a \notin acked
        PROVE  /\ status[h] = "stored" /\ a.lookup = req[h].lookup
               /\ a.token = req[h].token /\ a.gen \in gen[h] /\ a \in Ack
    <2>1. status[h] = "stored" /\ \E g \in gen[h] :
             a = [lookup |-> req[h].lookup, token |-> req[h].token, gen |-> g]
      BY <1>2 DEF Reply
    <2>2. req[h].lookup \in Lookups /\ req[h].token \in Tokens
          /\ gen[h] \in SUBSET Generation
      BY <1>0, <1>1, <2>1 DEF HandlerOK, RequestOK, PutRequest, TypeOK
    <2> QED BY <2>1, <2>2 DEF Ack
  <1>3. acked \subseteq acked' /\ acked' \subseteq Ack
    <2>1. acked \subseteq acked'
      BY DEF Reply
    <2> QED BY <2>1, <1>1, <1>2 DEF TypeOK
  <1>4. TypeOK'
    BY <1>0, <1>1, <1>3, ReleaseSlot DEF TypeOK, storeVars
  <1>5. StoreOK'
    BY <1>0, QuietStore
  <1>6. AckedOK'
    <2> SUFFICES ASSUME NEW a \in acked' PROVE Promised(a.lookup, a.token, a.gen)'
      BY DEF AckedOK
    <2>1. Promised(a.lookup, a.token, a.gen)
      <3>1. CASE a \in acked
        BY <3>1 DEF IInv, AckedOK
      <3>2. CASE a \notin acked
        BY <3>2, <1>0, <1>1, <1>2 DEF HandlerOK, StoredPromise
      <3> QED BY <3>1, <3>2
    <2> QED BY <2>1, <1>0 DEF Promised, Kept, storeVars
  <1>7. ASSUME NEW k \in Handlers \ {h} PROVE HandlerOK(k)'
    <2>1. Others(h)
      BY <1>0, ReleaseSlot
    <2> QED BY <2>1, <1>0, <1>3, QuietStore, OthersKeep DEF Others, storeVars
  <1>8. HandlerOK(h)'
    BY <1>0, ReleaseSlot
  <1> QED BY <1>4, <1>5, <1>6, <1>7, <1>8 DEF IInv

(* The remaining steps only end or suspend a request.                      *)
LEMMA EndingIInv ==
  ASSUME IInv, NEW h \in Handlers, ReplyLost(h) \/ Die(h)
  PROVE  IInv'
  <1>1. Release(h) /\ UNCHANGED <<acked, storeVars, backend, skew, clock, served>>
    BY DEF ReplyLost, Die, Release
  <1>2. lock' \in Handlers \union {Free} /\ \A k \in Handlers \ {h} : lock = k => lock' = k
    BY DEF ReplyLost, Die, Unlock, IInv, TypeOK
  <1>3. TypeOK'
    BY <1>1, <1>2, ReleaseSlot DEF IInv, TypeOK, storeVars
  <1> QED BY <1>1, <1>2, <1>3, ReleaseSlot, QuietStep

(* The commit that Firestore may still apply keeps its precondition.       *)
LEMMA CommitTimesOutIInv ==
  ASSUME IInv, NEW h \in Handlers, CommitTimesOut(h)
  PROVE  IInv'
  <1> USE DEF CommitTimesOut
  <1>1. Others(h) /\ TypeOK' /\ pc'[h] = "late"
    BY DEF IInv, TypeOK, Others, storeVars
  <1>2. HandlerOK(h) /\ pc[h] = "write"
    BY DEF IInv
  <1>3. RequestOK(h)' /\ Current(h)' /\ Pending(h)'
    BY <1>1, <1>2 DEF HandlerOK, RequestOK, Current, Pending, Authorized, Gens, storeVars
  <1>4. HandlerOK(h)'
    BY <1>1, <1>2, <1>3 DEF HandlerOK, StoredPromise, FreshAt
  <1> QED BY <1>1, <1>4, QuietStep

(* Every step preserves the invariant.                                     *)
LEMMA NextIInv == IInv /\ [Next]_vars => IInv'
  <1> SUFFICES ASSUME IInv, [Next]_vars PROVE IInv'
    OBVIOUS
  <1>1. ASSUME NEW h \in Handlers, Step(h) PROVE IInv'
    <2>1. CASE Load(h)
      BY <2>1, LoadIInv
    <2>2. CASE Stamp(h)
      BY <2>2, StampIInv
    <2>3. CASE Save(h)
      BY <2>3, StoredIInv DEF Save
    <2>4. CASE Commit(h)
      BY <2>4, StoredIInv DEF Commit
    <2>5. CASE Fail(h)
      BY <2>5, PlainAnswer DEF Fail, Statuses
    <2>6. CASE CommitTimesOut(h)
      BY <2>6, CommitTimesOutIInv
    <2>7. CASE LateCommit(h)
      BY <2>7, LateCommitIInv
    <2>8. CASE Read(h)
      BY <2>8, ReadIInv
    <2>9. CASE Reply(h)
      BY <2>9, ReplyIInv
    <2>10. CASE ReplyLost(h) \/ Die(h)
      BY <2>10, EndingIInv
    <2> QED BY <1>1, <2>1, <2>2, <2>3, <2>4, <2>5, <2>6, <2>7, <2>8, <2>9, <2>10 DEF Step
  <1>2. ASSUME NEW h \in Handlers, NEW r \in Request, Begin(h, r) PROVE IInv'
    BY <1>2, BeginIInv
  <1>3. CASE UNCHANGED vars
    <2>1. TypeOK' /\ StoreOK'
      BY <1>3 DEF vars, IInv, TypeOK, StoreOK, Stamped, LatestIsLast, Latest, Gens
    <2>2. AckedOK'
      BY <1>3 DEF vars, IInv, AckedOK, Promised, Kept
    <2>3. ASSUME NEW h \in Handlers PROVE HandlerOK(h)'
      BY <1>3 DEF vars, IInv, HandlerOK, RequestOK, Current, Pending, StoredPromise,
         FreshAt, Promised, Kept, Authorized, Gens
    <2> QED BY <2>1, <2>2, <2>3 DEF IInv
  <1> QED BY <1>1, <1>2, <1>3 DEF Next, Quiescent

-----------------------------------------------------------------------------
(* The invariant holds throughout.                                         *)
THEOREM Invariance == Spec => []IInv
  BY InitIInv, NextIInv, PTL DEF Spec

(* The parts that a reader asks for are parts of the invariant.            *)
LEMMA IInvGives ==
  ASSUME IInv
  PROVE  TypeOK /\ AcknowledgedKept /\ LatestIsLast /\ OneOwner /\ ReadsAreFresh
  <1>1. AcknowledgedKept
    BY DEF IInv, AckedOK, Promised, Kept, AcknowledgedKept
  <1>2. OneOwner
    BY DEF IInv, AckedOK, Promised, OneOwner
  <1>3. ReadsAreFresh
    BY DEF IInv, HandlerOK, FreshAt, ReadsAreFresh
  <1> QED BY <1>1, <1>2, <1>3 DEF IInv, StoreOK

(* Types, and the bound on the generations of a bucket, hold throughout.   *)
THEOREM TypeCorrect == Spec => []TypeOK
  BY Invariance, IInvGives, PTL

(* An acknowledged backup is kept until enough newer ones are stored: for  *)
(* any number of concurrent, failing and late puts and any clock skew.     *)
THEOREM BackupsKept == Spec => []AcknowledgedKept
  BY Invariance, IInvGives, PTL

(* With clocks that agree, what a restore gets was stored last.            *)
THEOREM RestoreGetsLast == Spec => []LatestIsLast
  BY Invariance, IInvGives, PTL

(* No two owners are told that a lookup id holds their backups.            *)
THEOREM SingleOwner == Spec => []OneOwner
  BY Invariance, IInvGives, PTL

(* A restore never misses what was acknowledged before it began.           *)
THEOREM RestoreIsFresh == Spec => []ReadsAreFresh
  BY Invariance, IInvGives, PTL

=============================================================================
