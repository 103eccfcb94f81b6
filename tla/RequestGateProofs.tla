--------------------------- MODULE RequestGateProofs ---------------------------
(***************************************************************************)
(* What a request passes on its way to an endpoint: the relay's limits, for *)
(* any number of connections and clients, any limits and any window, and   *)
(* the nonce tracker, for any number of handlers and nonces and any skew.  *)
(* The two share no state and no clock.                                    *)
(***************************************************************************)
EXTENDS RequestLimits, RequestAuth, FiniteSetTheorems, TLAPS

-----------------------------------------------------------------------------
(* The nonce tracker.                                                      *)

(* No handler marks with a time ahead of the clock.                        *)
TimesPast == \A h \in Handlers : readAt[h] <= utc

(* The history names no later lifetime than this one.                      *)
LivesPast == \A i \in 1 .. Len(accepted) : accepted[i].life <= life

(* A nonce accepted in this lifetime that is not yet Skew old is in the    *)
(* tracker, with a time no older than the one it was accepted with: the    *)
(* strengthening that survives pruning by a handler with an old time.      *)
Remembered ==
    \A i \in 1 .. Len(accepted) :
        accepted[i].life = life /\ utc <= accepted[i].at + Skew
        => LET t == seen[accepted[i].key] IN t \in Nat /\ accepted[i].at <= t

AuthInv == AuthTypeOK /\ TimesPast /\ LivesPast /\ Remembered /\ NonceRejectedForSkew

-----------------------------------------------------------------------------
(* A new process, with no nonce seen, satisfies the invariant.             *)
LEMMA InitAuthInv == AuthInit => AuthInv
BY BoundsAreNat
   DEF AuthInit, AuthInv, AuthTypeOK, TimesPast, LivesPast, Remembered, NonceRejectedForSkew, SameNonce

(* Pruning keeps what is typed and whatever is recent enough.              *)
LEMMA RetainKeeps ==
    ASSUME seen \in [NonceKeys -> Nat \union {NotSeen}], NEW t \in Nat, NEW k \in NonceKeys
    PROVE  /\ Retain(t) \in [NonceKeys -> Nat \union {NotSeen}]
           /\ seen[k] \in Nat /\ t <= seen[k] + Skew => Retain(t)[k] = seen[k]
           /\ Retain(t)[k] \in {seen[k], NotSeen}
BY BoundsAreNat, NotSeenIsFresh DEF Retain

(* Steps that leave tracker, history and lifetime alone.                   *)
LEMMA HistoryKept ==
    ASSUME AuthInv, UNCHANGED <<seen, life, accepted>>, utc' \in Nat, utc <= utc'
    PROVE  LivesPast' /\ Remembered' /\ NonceRejectedForSkew'
<1> USE BoundsAreNat
<1>1. \A i \in 1 .. Len(accepted) : accepted[i] \in Acceptance
  BY DEF AuthInv, AuthTypeOK
<1>2. utc \in Nat BY DEF AuthInv, AuthTypeOK
<1>3. LivesPast' BY DEF AuthInv, LivesPast
<1>4. NonceRejectedForSkew' BY DEF AuthInv, NonceRejectedForSkew, SameNonce
<1>5. Remembered'
  BY <1>1, <1>2 DEF AuthInv, Remembered, Acceptance
<1> QED BY <1>3, <1>4, <1>5

(* A handler that answers leaves the tracker's times alone.                *)
LEMMA ReleaseKeeps ==
    ASSUME AuthInv, NEW h \in Handlers, Release(h), UNCHANGED <<utc, arrived, life, accepted>>,
           seen' \in [NonceKeys -> Nat \union {NotSeen}]
    PROVE  AuthTypeOK' /\ TimesPast'
<1>1. utc \in Nat BY BoundsAreNat DEF AuthInv, AuthTypeOK
<1>2. AuthTypeOK' BY DEF Release, AuthInv, AuthTypeOK
<1>3. TimesPast' BY <1>1 DEF Release, AuthInv, AuthTypeOK, TimesPast
<1> QED BY <1>2, <1>3

(* Every step of a handler, the clock or a restart preserves the invariant. *)
LEMMA NextKeepsAuthInv == AuthInv /\ [AuthNext]_authVars => AuthInv'
<1> SUFFICES ASSUME AuthInv, [AuthNext]_authVars PROVE AuthInv'
  OBVIOUS
<1> USE BoundsAreNat
<1>a. /\ utc \in Nat /\ \A i \in 1 .. Len(accepted) : accepted[i] \in Acceptance
      /\ Len(accepted) \in Nat
  BY DEF AuthInv, AuthTypeOK
<1>1. ASSUME UtcTick PROVE AuthInv'
  <2>1. AuthTypeOK' BY <1>1 DEF UtcTick, AuthInv, AuthTypeOK
  <2>2. TimesPast' BY <1>1 DEF UtcTick, AuthInv, AuthTypeOK, TimesPast
  <2>3. LivesPast' /\ Remembered' /\ NonceRejectedForSkew'
    BY <1>1, <1>a, HistoryKept DEF UtcTick
  <2> QED BY <2>1, <2>2, <2>3 DEF AuthInv
<1>2. ASSUME NEW h \in Handlers, NEW k \in NonceKeys, NEW ts \in 0 .. MaxUtc + Skew + 1,
             Arrive(h, [key |-> k, ts |-> ts])
      PROVE  AuthInv'
  <2>1. AuthTypeOK' BY <1>2 DEF Arrive, AuthInv, AuthTypeOK, SignedRequest
  <2>2. TimesPast' BY <1>2 DEF Arrive, AuthInv, AuthTypeOK, TimesPast
  <2>3. LivesPast' /\ Remembered' /\ NonceRejectedForSkew'
    BY <1>2, <1>a, HistoryKept DEF Arrive
  <2> QED BY <2>1, <2>2, <2>3 DEF AuthInv
<1>3. ASSUME NEW h \in Handlers, CheckTimestamp(h) \/ Serve(h)
      PROVE  AuthInv'
  <2>1. UNCHANGED <<utc, seen, arrived, life, accepted>>
    BY <1>3 DEF CheckTimestamp, Serve
  <2>2. LivesPast' /\ Remembered' /\ NonceRejectedForSkew'
    BY <2>1, <1>a, HistoryKept
  <2>3. CASE Release(h)
    BY <2>1, <2>2, <2>3, ReleaseKeeps DEF AuthInv, AuthTypeOK
  <2>4. CASE pc' = [pc EXCEPT ![h] = "mark"] /\ readAt' = [readAt EXCEPT ![h] = utc]
             /\ pc[h] = "check" /\ UNCHANGED req
    <3>1. AuthTypeOK' BY <2>1, <2>4, <1>a DEF AuthInv, AuthTypeOK
    <3>2. TimesPast' BY <2>1, <2>4, <1>a DEF AuthInv, AuthTypeOK, TimesPast
    <3> QED BY <2>2, <3>1, <3>2 DEF AuthInv
  <2> QED BY <1>3, <2>3, <2>4 DEF CheckTimestamp, Serve
<1>4. ASSUME NEW h \in Handlers, MarkNonce(h)
      PROVE  AuthInv'
  <2> DEFINE k == req[h].key
             t == readAt[h]
             kept == Retain(t)
  <2>1. k \in NonceKeys /\ req[h].ts \in Nat /\ t \in Nat /\ t <= utc
    BY <1>4 DEF MarkNonce, AuthInv, AuthTypeOK, TimesPast, SignedRequest
  <2>2. /\ seen \in [NonceKeys -> Nat \union {NotSeen}]
        /\ kept \in [NonceKeys -> Nat \union {NotSeen}]
    BY <2>1, RetainKeeps DEF AuthInv, AuthTypeOK
  <2>3. ASSUME NEW i \in 1 .. Len(accepted), accepted[i].life = life,
               utc <= accepted[i].at + Skew
        PROVE  LET u == kept[accepted[i].key] IN u \in Nat /\ accepted[i].at <= u
    <3>1. accepted[i].key \in NonceKeys /\ accepted[i].at \in Nat
      BY <1>a DEF Acceptance
    <3>2. seen[accepted[i].key] \in Nat /\ accepted[i].at <= seen[accepted[i].key]
      BY <2>3 DEF AuthInv, Remembered
    <3>3. t <= seen[accepted[i].key] + Skew
      BY <1>a, <2>1, <2>3, <3>1, <3>2
    <3> QED BY <2>1, <2>2, <3>1, <3>2, <3>3, RetainKeeps
  <2> HIDE DEF kept
  <2>5. CASE kept[k] # NotSeen
    <3>1. seen' = kept /\ Release(h) /\ UNCHANGED <<utc, arrived, life, accepted>>
      BY <1>4, <2>5 DEF MarkNonce, kept
    <3>2. AuthTypeOK' /\ TimesPast' BY <2>2, <3>1, ReleaseKeeps
    <3>3. LivesPast' /\ NonceRejectedForSkew'
      BY <3>1 DEF AuthInv, LivesPast, NonceRejectedForSkew, SameNonce
    <3>4. Remembered' BY <2>3, <3>1 DEF Remembered
    <3> QED BY <3>2, <3>3, <3>4 DEF AuthInv
  <2>6. CASE kept[k] = NotSeen
    <3> DEFINE a == [key |-> k, ts |-> req[h].ts, at |-> t, clock |-> utc, life |-> life]
               n == Len(accepted)
    <3>1. /\ seen' = [kept EXCEPT ![k] = t]
          /\ pc' = [pc EXCEPT ![h] = "serve"]
          /\ accepted' = Append(accepted, a)
          /\ UNCHANGED <<req, readAt, utc, arrived, life>>
      BY <1>4, <2>6 DEF MarkNonce, kept
    <3>2. a \in Acceptance
      BY <1>a, <2>1 DEF AuthInv, AuthTypeOK, Acceptance
    <3>3. /\ accepted' \in Seq(Acceptance) /\ Len(accepted') = n + 1
          /\ accepted'[n + 1] = a
          /\ \A i \in 1 .. n : accepted'[i] = accepted[i]
      BY <3>1, <3>2 DEF AuthInv, AuthTypeOK
    <3>4. AuthTypeOK'
      BY <1>4, <2>1, <2>2, <3>1, <3>3 DEF MarkNonce, AuthInv, AuthTypeOK
    <3>5. ASSUME NEW i \in 1 .. n, accepted[i].key = k, accepted[i].life = life
          PROVE  utc > accepted[i].at + Skew
      <4>1. accepted[i].at \in Nat BY <1>a DEF Acceptance
      <4> QED BY <1>a, <2>3, <2>6, <3>5, <4>1, NotSeenIsFresh
    <3>6. LivesPast'
      BY <1>a, <3>1, <3>3 DEF AuthInv, AuthTypeOK, LivesPast
    <3>7. NonceRejectedForSkew'
      <4> SUFFICES ASSUME NEW i \in 1 .. n + 1, NEW j \in 1 .. n + 1, SameNonce(i, j)'
                   PROVE  accepted'[j].clock > accepted'[i].at + Skew
        BY <3>3 DEF NonceRejectedForSkew
      <4>1. i \in 1 .. n /\ accepted'[i] = accepted[i]
        BY <1>a, <3>3 DEF SameNonce
      <4>2. CASE j \in 1 .. n
        BY <3>3, <4>1, <4>2 DEF AuthInv, NonceRejectedForSkew, SameNonce
      <4>3. CASE j = n + 1
        BY <3>3, <3>5, <4>1, <4>3 DEF SameNonce
      <4> QED BY <1>a, <4>2, <4>3
    <3>8. Remembered'
      <4> SUFFICES ASSUME NEW i \in 1 .. n + 1, accepted'[i].life = life,
                          utc <= accepted'[i].at + Skew
                   PROVE  LET u == seen'[accepted'[i].key] IN u \in Nat /\ accepted'[i].at <= u
        BY <3>1, <3>3 DEF Remembered
      <4>1. CASE i = n + 1
        BY <2>1, <2>2, <3>1, <3>3, <4>1
      <4>2. CASE i \in 1 .. n
        <5>1. accepted'[i] = accepted[i] /\ accepted[i].key \in NonceKeys /\ accepted[i].at \in Nat
          BY <1>a, <3>3, <4>2 DEF Acceptance
        <5>2. accepted[i].key # k
          BY <1>a, <3>5, <4>2, <5>1
        <5>3. seen'[accepted[i].key] = kept[accepted[i].key]
          BY <2>2, <3>1, <5>1, <5>2
        <5> QED BY <2>3, <4>2, <5>1, <5>3
      <4> QED BY <1>a, <4>1, <4>2
    <3>9. TimesPast' BY <3>1 DEF AuthInv, TimesPast
    <3> QED BY <3>4, <3>6, <3>7, <3>8, <3>9 DEF AuthInv
  <2> QED BY <2>5, <2>6
<1>5. ASSUME Restart PROVE AuthInv'
  <2>1. AuthTypeOK' BY <1>5 DEF Restart, AuthInv, AuthTypeOK
  <2>2. TimesPast' BY <1>5, <1>a DEF Restart, TimesPast
  <2>3. LivesPast' /\ Remembered'
    <3>1. life \in Nat /\ life' = life + 1 /\ accepted' = accepted
      BY <1>5 DEF Restart, AuthInv, AuthTypeOK
    <3>2. \A i \in 1 .. Len(accepted) : accepted[i].life \in Nat /\ accepted[i].life <= life
      BY <1>a DEF AuthInv, LivesPast, Acceptance
    <3>3. \A i \in 1 .. Len(accepted') : accepted'[i].life <= life' /\ accepted'[i].life # life'
      BY ONLY <3>1, <3>2
    <3> QED BY <3>3 DEF LivesPast, Remembered
  <2>4. NonceRejectedForSkew'
    BY <1>5 DEF Restart, AuthInv, NonceRejectedForSkew, SameNonce
  <2> QED BY <2>1, <2>2, <2>3, <2>4 DEF AuthInv
<1>6. CASE UNCHANGED authVars
  BY <1>6 DEF authVars, AuthInv, AuthTypeOK, TimesPast, LivesPast, Remembered, NonceRejectedForSkew, SameNonce
<1> QED
  BY <1>1, <1>2, <1>3, <1>4, <1>5, <1>6 DEF AuthNext, Quiescent

(* The inductive invariant holds in every reachable state.                 *)
THEOREM AuthInvariantHolds == AuthSpec => []AuthInv
BY InitAuthInv, NextKeepsAuthInv, PTL DEF AuthSpec

(* Type correctness of the tracker and its handlers.                       *)
THEOREM AuthTypeCorrect == AuthSpec => []AuthTypeOK
<1>1. AuthInv => AuthTypeOK BY DEF AuthInv
<1> QED BY <1>1, AuthInvariantHolds, PTL

(* A process accepts a nonce a second time only once the clock has passed  *)
(* the time it marked it with by more than Skew.                           *)
THEOREM ReplayBounded == AuthSpec => []NonceRejectedForSkew
<1>1. AuthInv => NonceRejectedForSkew BY DEF AuthInv
<1> QED BY <1>1, AuthInvariantHolds, PTL

(* A nonce marked less than Skew ago is in the tracker.                    *)
THEOREM RecentRemembered == AuthSpec => []RecentNoncesRemembered
<1>1. AuthInv => RecentNoncesRemembered
  BY NotSeenIsFresh DEF AuthInv, Remembered, RecentNoncesRemembered
<1> QED BY <1>1, AuthInvariantHolds, PTL

-----------------------------------------------------------------------------
(* The limits on connections and requests.                                 *)

Live == {t \in Threads : at[t] # "none"}

(* A thread that is about to be counted has a key.                         *)
CountedHasKey == \A t \in Threads : at[t] \in {"stamp", "check"} => key[t] \in Keys

(* What the bucket b of a key knows of the admissions A of that key:       *)
(* windows begin at least Window apart, an admission is stamped before its *)
(* window is over, and its number is its own.                              *)
Remembers(b, A, limit) ==
    /\ b.count <= limit
    /\ \A a \in A :
          /\ a.number \in 1 .. limit
          /\ a.stamp < a.start + Window
          /\ \/ a.start = b.start /\ a.number <= b.count
             \/ a.start + Window <= b.start
    /\ \A a, c \in A :
          /\ a.start < c.start => a.start + Window <= c.start
          /\ a.start = c.start /\ a.number = c.number => a = c

BucketsRemember ==
    \A k \in Keys :
        /\ buckets[k] = NoBucket => admitted[k] = {}
        /\ buckets[k] # NoBucket => Remembers(buckets[k], admitted[k], LimitOf[k])

IInv ==
    /\ TypeOK
    /\ SlotsMatchThreads
    /\ CountedHasKey
    /\ BucketsRemember

-----------------------------------------------------------------------------
(* Whole seconds of a span are not more than its clock readings.           *)
LEMMA Seconds ==
  ASSUME NEW n \in Nat, NEW s \in Nat \ {0}
  PROVE  n \div s \in Nat /\ n \div s <= n
  <1>1. n \div s \in Nat
    OBVIOUS
  <1>2. n \div s <= n
    OBVIOUS
  <1> QED BY <1>1, <1>2

(* Retry-After is between one and the length of the window.                *)
LEMMA RetryBound ==
  ASSUME NEW b \in Bucket, NEW n \in Nat, Since(n, b.start) < Window
  PROVE  RetryAfter(b, n) \in 0 .. Window
  <1> DEFINE w == Window - Since(n, b.start)
  <1>1. b.start \in Nat /\ Window \in Nat \ {0} /\ Second \in Nat \ {0}
    BY LimitBounds DEF Bucket
  <1>2. w \in Nat /\ w <= Window
    BY <1>1 DEF Since
  <1>3. w \div Second \in Nat /\ w \div Second <= w
    <2> HIDE DEF w
    <2> QED BY <1>1, <1>2, Seconds
  <1>4. RetryAfter(b, n) = IF w \div Second < 1 THEN 1 ELSE w \div Second
    BY DEF RetryAfter
  <1> HIDE DEF w
  <1> QED BY <1>1, <1>2, <1>3, <1>4

(* A thread that is spawned adds one to the threads that live.             *)
LEMMA LiveAdds ==
  ASSUME IInv, NEW t \in Threads, at[t] = "none",
         NEW label \in {"reading"}, at' = [at EXCEPT ![t] = label]
  PROVE  Cardinality(Live') = Cardinality(Live) + 1
  <1>1. Live' = Live \union {t} /\ t \notin Live
    BY DEF IInv, TypeOK, Live
  <1>2. IsFiniteSet(Live)
    BY LimitBounds, FS_Subset DEF Live
  <1> QED BY <1>1, <1>2, FS_AddElement

(* A thread that ends takes one off.                                       *)
LEMMA LiveEnds ==
  ASSUME IInv, NEW t \in Threads, at[t] # "none",
         at' = [at EXCEPT ![t] = "none"]
  PROVE  /\ Cardinality(Live') = Cardinality(Live) - 1
         /\ Cardinality(Live) \in Nat \ {0}
  <1>1. Live' = Live \ {t} /\ t \in Live
    BY DEF IInv, TypeOK, Live
  <1>2. IsFiniteSet(Live)
    BY LimitBounds, FS_Subset DEF Live
  <1>3. Cardinality(Live') = Cardinality(Live) - 1
    BY <1>1, <1>2, FS_RemoveElement
  <1>4. Cardinality(Live) \in Nat /\ Cardinality(Live) # 0
    BY <1>1, <1>2, FS_CardinalityType, FS_EmptySet
  <1> QED BY <1>3, <1>4

(* A step within a thread's life leaves the slots as they are.             *)
LEMMA LiveStays ==
  ASSUME IInv, NEW t \in Threads, at[t] # "none", NEW label, label # "none",
         at' = [at EXCEPT ![t] = label], UNCHANGED active
  PROVE  SlotsMatchThreads'
  <1>1. {x \in Threads : at'[x] # "none"} = {x \in Threads : at[x] # "none"}
    BY DEF IInv, TypeOK
  <1> QED BY <1>1 DEF IInv, SlotsMatchThreads

-----------------------------------------------------------------------------
(* The bucket a request finds, or makes, fits the admissions so far.       *)
LEMMA RenewedRemembers ==
  ASSUME IInv, NEW k \in Keys, NEW n \in Nat
  PROVE  LET b == Renewed(buckets[k], n)
         IN  /\ b \in Bucket
             /\ Since(n, b.start) < Window
             /\ n < b.start + Window
             /\ Remembers(b, admitted[k], LimitOf[k])
             /\ b.count = 0 \/ b = buckets[k]
  <1> DEFINE b == Renewed(buckets[k], n)
  <1>1. Window \in Nat \ {0} /\ LimitOf[k] \in Nat \ {0}
    BY LimitBounds
  <1>2. buckets[k] \in Bucket \union {NoBucket} /\ admitted[k] \subseteq Admission
    BY DEF IInv, TypeOK
  <1>3. CASE buckets[k] = NoBucket
    <2>1. b = [start |-> n, count |-> 0] /\ admitted[k] = {}
      BY <1>3 DEF Renewed, IInv, BucketsRemember
    <2> QED BY <1>1, <2>1 DEF Remembers, Since, Bucket
  <1>4. CASE buckets[k] # NoBucket /\ Since(n, buckets[k].start) >= Window
    <2>1. b = [start |-> n, count |-> 0]
      BY <1>4 DEF Renewed
    <2>2. Remembers(buckets[k], admitted[k], LimitOf[k])
      BY <1>4 DEF IInv, BucketsRemember
    <2>3. buckets[k].start \in Nat /\ buckets[k].start + Window <= n
      BY <1>1, <1>2, <1>4 DEF Since, Bucket
    <2>4. \A a \in admitted[k] : a.start \in Nat /\ a.start + Window <= n
      BY <1>1, <1>2, <2>2, <2>3 DEF Remembers, Admission
    <2>5. Remembers(b, admitted[k], LimitOf[k])
      BY <1>1, <2>1, <2>2, <2>4 DEF Remembers
    <2> QED BY <1>1, <2>1, <2>5 DEF Since, Bucket
  <1>5. CASE buckets[k] # NoBucket /\ ~(Since(n, buckets[k].start) >= Window)
    <2>1. b = buckets[k] /\ b \in Bucket
      BY <1>2, <1>5 DEF Renewed
    <2>2. Remembers(b, admitted[k], LimitOf[k])
      BY <1>5, <2>1 DEF IInv, BucketsRemember
    <2>3. b.start \in Nat /\ Since(n, b.start) < Window /\ n < b.start + Window
      BY <1>1, <1>5, <2>1 DEF Since, Bucket
    <2> QED BY <2>1, <2>2, <2>3
  <1> QED BY <1>3, <1>4, <1>5

(* A request that is let through takes the next number of its window.      *)
LEMMA AdmissionRemembered ==
  ASSUME NEW b \in Bucket, NEW A \in SUBSET Admission, NEW limit \in Nat \ {0},
         NEW n \in Nat, Remembers(b, A, limit), n < b.start + Window,
         ~IsFull(b, limit)
  PROVE  LET a == [stamp |-> n, start |-> b.start, number |-> b.count + 1]
         IN  /\ a \in Admission
             /\ Remembers([b EXCEPT !.count = @ + 1], A \union {a}, limit)
  <1> DEFINE a == [stamp |-> n, start |-> b.start, number |-> b.count + 1]
             d == [b EXCEPT !.count = @ + 1]
  <1>1. b.start \in Nat /\ b.count \in Nat /\ Window \in Nat \ {0} /\ b.count < limit
    BY LimitBounds DEF Bucket, IsFull
  <1>2. /\ a \in Admission
        /\ a.stamp = n /\ a.start = b.start /\ a.number = b.count + 1
    BY <1>1 DEF Admission
  <1>3. d.start = b.start /\ d.count = b.count + 1
    BY DEF Bucket
  <1>4. \A c \in A : c.start \in Nat /\ c.number \in Nat
    BY DEF Admission
  <1> HIDE DEF a, d
  <1>5. d.count <= limit
    BY <1>1, <1>3
  <1>6. ASSUME NEW c \in A \union {a}
        PROVE  /\ c.number \in 1 .. limit
               /\ c.stamp < c.start + Window
               /\ \/ c.start = d.start /\ c.number <= d.count
                  \/ c.start + Window <= d.start
    <2>1. CASE c = a
      BY <1>1, <1>2, <1>3, <2>1
    <2>2. CASE c \in A
      BY <1>1, <1>3, <1>4, <2>2 DEF Remembers
    <2> QED BY <2>1, <2>2
  <1>7. ASSUME NEW c \in A \union {a}, NEW e \in A \union {a}
        PROVE  /\ c.start < e.start => c.start + Window <= e.start
               /\ c.start = e.start /\ c.number = e.number => c = e
    <2>1. \A x \in A : /\ x.start <= a.start
                       /\ x.start < a.start => x.start + Window <= a.start
                       /\ x.start = a.start => x.number # a.number
      BY <1>1, <1>2, <1>4 DEF Remembers
    <2>2. CASE c \in A /\ e \in A
      BY <2>2 DEF Remembers
    <2>3. CASE c = a /\ e = a
      BY <1>1, <1>2, <2>3
    <2>4. CASE c \in A /\ e = a
      BY <2>1, <2>4
    <2>5. CASE c = a /\ e \in A
      BY <1>1, <1>2, <1>4, <2>1, <2>5
    <2> QED BY <2>2, <2>3, <2>4, <2>5
  <1>8. Remembers(d, A \union {a}, limit)
    BY <1>5, <1>6, <1>7 DEF Remembers
  <1> QED BY <1>2, <1>8 DEF a, d

-----------------------------------------------------------------------------
LEMMA InitHolds == Init => IInv
  <1> SUFFICES ASSUME Init PROVE IInv
    OBVIOUS
  <1>1. TypeOK
    BY LimitBounds DEF Init, TypeOK
  <1>2. SlotsMatchThreads
    <2>1. {t \in Threads : at[t] # "none"} = {}
      BY DEF Init
    <2> QED BY <2>1, LimitBounds, FS_EmptySet DEF Init, SlotsMatchThreads
  <1>3. CountedHasKey /\ BucketsRemember
    BY DEF Init, CountedHasKey, BucketsRemember
  <1> QED BY <1>1, <1>2, <1>3 DEF IInv

(* A step that leaves the limiter alone keeps what its buckets remember.   *)
LEMMA LimiterStays ==
  ASSUME IInv, UNCHANGED limiterVars
  PROVE  BucketsRemember'
  BY DEF IInv, BucketsRemember, limiterVars, Remembers

(* A step from one label to another that changes nothing else.             *)
LEMMA PlainStep ==
  ASSUME IInv, NEW t \in Threads, at[t] # "none",
         NEW label \in {"writing", "closing"}, Goto(t, label),
         UNCHANGED <<clock, listener, active, requestVars, limiterVars>>
  PROVE  IInv'
  <1>1. TypeOK'
    BY DEF IInv, TypeOK, Goto, requestVars, limiterVars
  <1>2. SlotsMatchThreads'
    BY LiveStays DEF Goto
  <1>3. CountedHasKey'
    BY DEF IInv, TypeOK, CountedHasKey, Goto, requestVars
  <1> QED BY <1>1, <1>2, <1>3, LimiterStays DEF IInv

(* A step of the accept loop or of the clock.                              *)
LEMMA LoopStep ==
  ASSUME IInv, Tick \/ Refuse \/ RefuseDone
  PROVE  IInv'
  <1>1. UNCHANGED <<active, at, requestVars, limiterVars>>
    BY DEF Tick, Refuse, RefuseDone
  <1>2. TypeOK'
    BY <1>1, LimitBounds
    DEF IInv, TypeOK, Tick, Refuse, RefuseDone, AfterRefusal, requestVars, limiterVars
  <1>3. SlotsMatchThreads' /\ CountedHasKey'
    BY <1>1 DEF IInv, SlotsMatchThreads, CountedHasKey, requestVars
  <1> QED BY <1>1, <1>2, <1>3, LimiterStays DEF IInv

LEMMA AcceptStep ==
  ASSUME IInv, NEW t \in Threads, Accept(t)
  PROVE  IInv'
  <1>1. TypeOK'
    BY DEF IInv, TypeOK, Accept, requestVars, limiterVars
  <1>2. SlotsMatchThreads'
    <2>1. Cardinality(Live') = Cardinality(Live) + 1
      BY LiveAdds DEF Accept
    <2>2. active = Cardinality(Live) /\ active \in Nat
      BY DEF IInv, TypeOK, SlotsMatchThreads, Live
    <2>3. active' = Cardinality(Live') /\ active' <= MaxConnections
      BY <2>1, <2>2, LimitBounds DEF Accept, HasSlot
    <2> QED BY <2>3 DEF SlotsMatchThreads, Live
  <1>3. CountedHasKey'
    BY DEF IInv, TypeOK, CountedHasKey, Accept, requestVars
  <1> QED BY <1>1, <1>2, <1>3, LimiterStays DEF IInv, Accept

LEMMA DropStep ==
  ASSUME IInv, NEW t \in Threads, DropGuard(t)
  PROVE  IInv'
  <1>1. TypeOK'
    BY LimitBounds DEF IInv, TypeOK, DropGuard, Goto, limiterVars
  <1>2. SlotsMatchThreads'
    <2>1. /\ Cardinality(Live') = Cardinality(Live) - 1
          /\ Cardinality(Live) \in Nat \ {0}
      BY LiveEnds DEF DropGuard, Goto
    <2>2. active = Cardinality(Live) /\ active \in Nat /\ active <= MaxConnections
      BY DEF IInv, TypeOK, SlotsMatchThreads, Live
    <2>3. active' = Cardinality(Live') /\ active' <= MaxConnections
      BY <2>1, <2>2, LimitBounds DEF DropGuard
    <2> QED BY <2>3 DEF SlotsMatchThreads, Live
  <1>3. CountedHasKey'
    BY DEF IInv, TypeOK, CountedHasKey, DropGuard, Goto
  <1> QED BY <1>1, <1>2, <1>3, LimiterStays DEF IInv, DropGuard

(* A request is parsed, and the limiter reads the clock for it.            *)
LEMMA RequestStep ==
  ASSUME IInv, NEW t \in Threads,
         (\E k \in Keys \union {NoKey} : ReadRequest(t, k)) \/ Stamp(t)
  PROVE  IInv'
  <1>1. CASE Stamp(t)
    <2>1. TypeOK'
      BY <1>1, LimitBounds DEF IInv, TypeOK, Stamp, Goto, limiterVars
    <2>2. SlotsMatchThreads'
      BY <1>1, LiveStays DEF Stamp, Goto
    <2>3. CountedHasKey'
      BY <1>1 DEF IInv, TypeOK, CountedHasKey, Stamp, Goto
    <2> QED BY <1>1, <2>1, <2>2, <2>3, LimiterStays DEF IInv, Stamp
  <1>2. ASSUME NEW k \in Keys \union {NoKey}, ReadRequest(t, k)
        PROVE  IInv'
    <2> DEFINE label == IF k = NoKey THEN "work" ELSE "stamp"
    <2>0. /\ at[t] = "reading" /\ at' = [at EXCEPT ![t] = label]
          /\ label \in {"work", "stamp"} /\ (label = "stamp" => k \in Keys)
          /\ key' = [key EXCEPT ![t] = k]
          /\ UNCHANGED <<clock, listener, active, now, retry, limiterVars>>
      BY <1>2 DEF ReadRequest, Goto
    <2> HIDE DEF label
    <2>1. TypeOK'
      BY <2>0 DEF IInv, TypeOK, limiterVars
    <2>2. SlotsMatchThreads'
      BY <2>0, LiveStays
    <2>3. CountedHasKey'
      BY <2>0 DEF IInv, TypeOK, CountedHasKey
    <2> QED BY <2>0, <2>1, <2>2, <2>3, LimiterStays DEF IInv
  <1> QED BY <1>1, <1>2

LEMMA CheckStep ==
  ASSUME IInv, NEW t \in Threads, Check(t)
  PROVE  IInv'
  <1> DEFINE k == key[t]
             n == now[t]
             b == Renewed(buckets[k], n)
             d == [b EXCEPT !.count = @ + 1]
             a == [stamp |-> n, start |-> b.start, number |-> b.count + 1]
  <1>1. /\ at[t] = "check" /\ k \in Keys /\ n \in Nat
        /\ LimitOf[k] \in Nat \ {0} /\ admitted[k] \in SUBSET Admission
    BY LimitBounds DEF IInv, TypeOK, CountedHasKey, Check
  <1>2. /\ b \in Bucket /\ Since(n, b.start) < Window /\ n < b.start + Window
        /\ Remembers(b, admitted[k], LimitOf[k])
    BY <1>1, RenewedRemembers
  <1>3. UNCHANGED <<clock, listener, active, key, now>>
    BY DEF Check
  <1>4. CASE /\ buckets' = [buckets EXCEPT ![k] = b]
             /\ retry' = [retry EXCEPT ![t] = RetryAfter(b, n)]
             /\ Goto(t, "writing")
             /\ UNCHANGED admitted
    <2>1. RetryAfter(b, n) \in 0 .. Window
      BY <1>1, <1>2, RetryBound
    <2> HIDE DEF b, d, a, n
    <2>2. TypeOK'
      BY <1>1, <1>2, <1>3, <1>4, <2>1 DEF IInv, TypeOK, Goto
    <2>3. SlotsMatchThreads'
      BY <1>1, <1>3, <1>4, LiveStays DEF Goto
    <2>4. CountedHasKey'
      BY <1>1, <1>3, <1>4 DEF IInv, TypeOK, CountedHasKey, Goto
    <2>5. BucketsRemember'
      <3> SUFFICES ASSUME NEW j \in Keys
                   PROVE  /\ buckets'[j] = NoBucket => admitted'[j] = {}
                          /\ buckets'[j] # NoBucket =>
                                Remembers(buckets'[j], admitted'[j], LimitOf[j])
        BY DEF BucketsRemember, Remembers
      <3>1. CASE j = k
        BY <1>1, <1>2, <1>4, <3>1, NoBucketIsFresh DEF IInv, TypeOK
      <3>2. CASE j # k
        BY <1>1, <1>4, <3>2 DEF IInv, TypeOK, BucketsRemember
      <3> QED BY <3>1, <3>2
    <2> QED BY <2>2, <2>3, <2>4, <2>5 DEF IInv
  <1>5. CASE /\ ~IsFull(b, LimitOf[k])
             /\ buckets' = [buckets EXCEPT ![k] = d]
             /\ admitted' = [admitted EXCEPT ![k] = @ \union {a}]
             /\ Goto(t, "work")
             /\ UNCHANGED retry
    <2>1. a \in Admission /\ Remembers(d, admitted[k] \union {a}, LimitOf[k])
      <3> HIDE DEF b, n
      <3> QED BY <1>1, <1>2, <1>5, AdmissionRemembered
    <2>2. d \in Bucket
      <3> HIDE DEF b
      <3> QED BY <1>2 DEF Bucket
    <2> HIDE DEF b, d, a, n
    <2>3. TypeOK'
      BY <1>1, <1>3, <1>5, <2>1, <2>2 DEF IInv, TypeOK, Goto
    <2>4. SlotsMatchThreads'
      BY <1>1, <1>3, <1>5, LiveStays DEF Goto
    <2>5. CountedHasKey'
      BY <1>1, <1>3, <1>5 DEF IInv, TypeOK, CountedHasKey, Goto
    <2>6. BucketsRemember'
      <3> SUFFICES ASSUME NEW j \in Keys
                   PROVE  /\ buckets'[j] = NoBucket => admitted'[j] = {}
                          /\ buckets'[j] # NoBucket =>
                                Remembers(buckets'[j], admitted'[j], LimitOf[j])
        BY DEF BucketsRemember, Remembers
      <3>1. CASE j = k
        BY <1>1, <1>5, <2>1, <2>2, <3>1, NoBucketIsFresh DEF IInv, TypeOK
      <3>2. CASE j # k
        BY <1>1, <1>5, <3>2 DEF IInv, TypeOK, BucketsRemember
      <3> QED BY <3>1, <3>2
    <2> QED BY <2>3, <2>4, <2>5, <2>6 DEF IInv
  <1> QED BY <1>4, <1>5 DEF Check

(* The limits hold in every behaviour, for any number of connections.      *)
THEOREM Invariance == Spec => []IInv
  <1>1. Init => IInv
    BY InitHolds
  <1>2. IInv /\ [Next]_vars => IInv'
    <2> SUFFICES ASSUME IInv, [Next]_vars PROVE IInv'
      OBVIOUS
    <2>1. CASE Tick \/ Refuse \/ RefuseDone
      BY <2>1, LoopStep
    <2>2. ASSUME NEW t \in Threads, Accept(t) PROVE IInv'
      BY <2>2, AcceptStep
    <2>3. ASSUME NEW t \in Threads, Step(t) PROVE IInv'
      <3>1. CASE ReadTooLarge(t) \/ Handle(t) \/ Write(t)
        BY <3>1, PlainStep DEF ReadTooLarge, Handle, Write
      <3>2. CASE ReadFails(t) \/ Panic(t)
        BY <3>2, PlainStep DEF ReadFails, Panic
      <3>3. CASE (\E k \in Keys \union {NoKey} : ReadRequest(t, k)) \/ Stamp(t)
        BY <3>3, RequestStep
      <3>4. CASE Check(t)
        BY <3>4, CheckStep
      <3>5. CASE DropGuard(t)
        BY <3>5, DropStep
      <3> QED BY <2>3, <3>1, <3>2, <3>3, <3>4, <3>5 DEF Step
    <2>4. CASE UNCHANGED vars
      BY <2>4 DEF IInv, TypeOK, SlotsMatchThreads, CountedHasKey, BucketsRemember,
                  Remembers, vars
    <2> QED BY <2>1, <2>2, <2>3, <2>4 DEF Next
  <1> QED BY <1>1, <1>2, PTL DEF Spec

(* The state of the limiters keeps its type; a Retry-After is never longer *)
(* than a window, also for a thread whose time is behind the window's.     *)
THEOREM TypeCorrect == Spec => []TypeOK
  <1>1. IInv => TypeOK
    BY DEF IInv
  <1> QED BY <1>1, Invariance, PTL

(* Every slot in use belongs to a thread that lives, whichever way threads *)
(* end.                                                                    *)
THEOREM SlotsExact == Spec => []SlotsMatchThreads
  <1>1. IInv => SlotsMatchThreads
    BY DEF IInv
  <1> QED BY <1>1, Invariance, PTL

-----------------------------------------------------------------------------
(* The admissions of one window are at most the limit.                     *)
LEMMA OneWindow ==
  ASSUME NEW b, NEW A \in SUBSET Admission, NEW limit \in Nat \ {0},
         Remembers(b, A, limit), NEW B \in SUBSET A,
         \A x, y \in B : x.start = y.start
  PROVE  IsFiniteSet(B) /\ Cardinality(B) \in Nat /\ Cardinality(B) <= limit
  <1> DEFINE f == [x \in B |-> x.number]
  <1>1. f \in Injection(B, 1 .. limit)
    <2>1. f \in [B -> 1 .. limit]
      BY DEF Remembers
    <2>2. \A x, y \in B : f[x] = f[y] => x = y
      BY DEF Remembers
    <2> QED BY <2>1, <2>2 DEF Injection, IsInjective
  <1>2. IsFiniteSet(1 .. limit) /\ Cardinality(1 .. limit) = limit
    BY FS_Interval
  <1> HIDE DEF f
  <1>3. IsFiniteSet(B) /\ Cardinality(B) <= limit
    BY <1>1, <1>2, FS_Injection
  <1> QED BY <1>3, FS_CardinalityType

(* Fresh admissions stamped within one window's time belong to two windows *)
(* at most, as windows begin at least Window apart.                        *)
LEMMA TwoWindows ==
  ASSUME NEW b, NEW A \in SUBSET Admission, NEW limit \in Nat \ {0},
         Remembers(b, A, limit), NEW t \in Nat,
         NEW S, S = {a \in A : a.start <= a.stamp /\ a.stamp \in t .. t + Window - 1}
  PROVE  Cardinality(S) <= 2 * limit
  <1>1. CASE S = {}
    BY <1>1, FS_EmptySet
  <1>2. CASE S # {}
    <2>1. PICK o \in S : TRUE
      BY <1>2
    <2> DEFINE P == {a \in S : a.start = o.start}
               Q == {a \in S : a.start # o.start}
    <2>2. S \subseteq A /\ P \subseteq A /\ Q \subseteq A
      OBVIOUS
    <2>3. \A a \in S : /\ a.start \in Nat /\ a.stamp \in Nat
                       /\ a.start <= t + Window - 1
                       /\ t < a.start + Window
      BY LimitBounds DEF Admission, Remembers
    <2>4. \A x, y \in S : x.start < y.start => x.start + Window <= y.start
      BY <2>2 DEF Remembers
    <2>5. \A x, y \in Q : x.start = y.start
      BY <2>1, <2>3, <2>4, LimitBounds
    <2>6. \A x, y \in P : x.start = y.start
      OBVIOUS
    <2>7. S = P \union Q /\ P \intersect Q = {}
      OBVIOUS
    <2> HIDE DEF P, Q
    <2>8. IsFiniteSet(P) /\ Cardinality(P) \in Nat /\ Cardinality(P) <= limit
      BY <2>2, <2>6, OneWindow
    <2>9. IsFiniteSet(Q) /\ Cardinality(Q) \in Nat /\ Cardinality(Q) <= limit
      BY <2>2, <2>5, OneWindow
    <2>10. Cardinality(P \intersect Q) = 0
      BY <2>7, FS_EmptySet
    <2>11. Cardinality(S) = Cardinality(P) + Cardinality(Q) - Cardinality(P \intersect Q)
      BY <2>7, <2>8, <2>9, FS_Union
    <2> QED BY <2>8, <2>9, <2>10, <2>11
  <1> QED BY <1>1, <1>2

(* No client gets a third limit's worth of requests through in one         *)
(* window's time, however the threads that count them interleave.          *)
THEOREM TwoLimitsPerWindow == Spec => []RateIsBounded
  <1>1. IInv => RateIsBounded
    <2> SUFFICES ASSUME IInv, NEW k \in Keys, NEW t \in 0 .. MaxTime
                 PROVE  Cardinality({a \in admitted[k] :
                            /\ a.start <= a.stamp
                            /\ a.stamp \in t .. t + Window - 1}) <= 2 * LimitOf[k]
      BY DEF RateIsBounded
    <2> DEFINE S == {a \in admitted[k] :
                       a.start <= a.stamp /\ a.stamp \in t .. t + Window - 1}
    <2>1. LimitOf[k] \in Nat \ {0} /\ t \in Nat /\ admitted[k] \in SUBSET Admission
      BY LimitBounds DEF IInv, TypeOK
    <2>2. CASE buckets[k] = NoBucket
      <3>1. S = {}
        BY <2>2 DEF IInv, BucketsRemember
      <3> HIDE DEF S
      <3>2. Cardinality(S) <= 2 * LimitOf[k]
        BY <2>1, <3>1, FS_EmptySet
      <3> QED BY <3>2 DEF S
    <2>3. CASE buckets[k] # NoBucket
      <3>1. Remembers(buckets[k], admitted[k], LimitOf[k])
        BY <2>3 DEF IInv, BucketsRemember
      <3> HIDE DEF S
      <3>2. S = {a \in admitted[k] :
                   a.start <= a.stamp /\ a.stamp \in t .. t + Window - 1}
        BY DEF S
      <3>3. Cardinality(S) <= 2 * LimitOf[k]
        BY <2>1, <3>1, <3>2, TwoWindows
      <3> QED BY <3>3 DEF S
    <2> QED BY <2>2, <2>3
  <1> QED BY <1>1, Invariance, PTL

=============================================================================
