----------------------------- MODULE PagingProofs -----------------------------
(***************************************************************************)
(* The two endpoints that answer page by page while their store changes:   *)
(* activity events, oldest first, and publish records, newest first.  For  *)
(* any number of devices, commands, events, records and page sizes.        *)
(*                                                                         *)
(* Both cut a finite set after the first n of an order.  What such a cut   *)
(* holds is stated once, for any order.                                    *)
(***************************************************************************)
EXTENDS ActivitySync, PublishSearch, FiniteSetTheorems, WellFoundedInduction, TLAPS

-----------------------------------------------------------------------------
(* A strict total order of S, given by the elements before each of them.   *)
Ordered(S, before) ==
    /\ before \in [S -> SUBSET S]
    /\ \A x \in S : x \notin before[x]
    /\ \A x, y \in S : y \in before[x] => before[y] \subseteq before[x]
    /\ \A x, y \in S : x # y => x \in before[y] \/ y \in before[x]

(* The first n elements in that order.                                     *)
Leading(S, before, n) == {x \in S : Cardinality(before[x]) < n}

(* A non-empty set of numbers has a smallest element.                      *)
LEMMA Smallest ==
  ASSUME NEW T \in SUBSET Nat, T # {}
  PROVE  \E x \in T : \A y \in T : x <= y
  <1>1. PICK x \in T : \A y \in T : ~(<<y, x>> \in OpToRel(<, Nat))
    BY NatLessThanWellFounded, WFMin
  <1>2. \A y \in T : ~(y < x)
    BY <1>1 DEF OpToRel
  <1> QED BY <1>2

(* What is smaller has fewer elements.                                     *)
LEMMA SubsetSize ==
  ASSUME NEW S, IsFiniteSet(S), NEW T, T \subseteq S
  PROVE  /\ IsFiniteSet(T)
         /\ Cardinality(T) \in Nat /\ Cardinality(S) \in Nat
         /\ Cardinality(T) <= Cardinality(S)
         /\ T # S => Cardinality(T) < Cardinality(S)
  <1>1. T \in SUBSET S
    OBVIOUS
  <1>2. /\ IsFiniteSet(T) /\ Cardinality(T) <= Cardinality(S)
        /\ Cardinality(S) = Cardinality(T) => S = T
    BY <1>1, FS_Subset
  <1>3. Cardinality(T) \in Nat /\ Cardinality(S) \in Nat
    BY <1>2, FS_CardinalityType
  <1> QED BY <1>2, <1>3

(* An element has a smaller rank than those it comes before.               *)
LEMMA Ranks ==
  ASSUME NEW S, IsFiniteSet(S), NEW before, Ordered(S, before)
  PROVE  /\ \A x \in S : IsFiniteSet(before[x]) /\ Cardinality(before[x]) \in Nat
         /\ \A x, y \in S : y \in before[x] => Cardinality(before[y]) < Cardinality(before[x])
  <1>1. \A x \in S : before[x] \subseteq S
    BY DEF Ordered
  <1>2. \A x \in S : IsFiniteSet(before[x]) /\ Cardinality(before[x]) \in Nat
    BY <1>1, SubsetSize
  <1>3. ASSUME NEW x \in S, NEW y \in S, y \in before[x]
        PROVE  Cardinality(before[y]) < Cardinality(before[x])
    <2>1. before[y] \subseteq before[x] /\ before[y] # before[x]
      BY <1>3 DEF Ordered
    <2> QED BY <2>1, <1>2, SubsetSize
  <1> QED BY <1>2, <1>3

(* Every non-empty part of S has a first element.                          *)
LEMMA FirstOf ==
  ASSUME NEW S, IsFiniteSet(S), NEW before, Ordered(S, before),
         NEW T, T \subseteq S, T # {}
  PROVE  \E x \in T : \A y \in T \ {x} : x \in before[y]
  <1> DEFINE R == {Cardinality(before[x]) : x \in T}
  <1>1. R \in SUBSET Nat /\ R # {}
    BY Ranks
  <1>2. PICK n \in R : \A m \in R : n <= m
    <2> HIDE DEF R
    <2> QED BY <1>1, Smallest
  <1>3. PICK x \in T : n = Cardinality(before[x])
    BY <1>2
  <1>4. ASSUME NEW y \in T \ {x}, x \notin before[y] PROVE FALSE
    <2>1. y \in before[x]
      BY <1>4 DEF Ordered
    <2>2. /\ Cardinality(before[y]) < Cardinality(before[x])
          /\ Cardinality(before[y]) \in Nat /\ Cardinality(before[x]) \in Nat
      BY <2>1, Ranks
    <2>3. Cardinality(before[x]) <= Cardinality(before[y])
      BY <1>2, <1>3
    <2> QED BY <2>2, <2>3
  <1> QED BY <1>3, <1>4

(* And a last one: the first in the reverse order.                         *)
LEMMA LastOf ==
  ASSUME NEW S, IsFiniteSet(S), NEW before, Ordered(S, before),
         NEW T, T \subseteq S, T # {}
  PROVE  \E x \in T : \A y \in T \ {x} : y \in before[x]
  <1> DEFINE after == [x \in S |-> {y \in S : x \in before[y]}]
  <1>1. Ordered(S, after)
    <2>1. after \in [S -> SUBSET S]
      OBVIOUS
    <2>2. \A x \in S : x \notin after[x]
      BY DEF Ordered
    <2>3. \A x, y \in S : y \in after[x] => after[y] \subseteq after[x]
      BY DEF Ordered
    <2>4. \A x, y \in S : x # y => x \in after[y] \/ y \in after[x]
      BY DEF Ordered
    <2> HIDE DEF after
    <2> QED BY <2>1, <2>2, <2>3, <2>4 DEF Ordered
  <1>2. \A x, y \in S : x \in after[y] => y \in before[x]
    OBVIOUS
  <1> HIDE DEF after
  <1>3. PICK x \in T : \A y \in T \ {x} : x \in after[y]
    BY <1>1, FirstOf
  <1> QED BY <1>2, <1>3

(* What leads comes before what does not, and all that comes before a      *)
(* leading element leads.                                                  *)
LEMMA LeadingIsClosed ==
  ASSUME NEW S, IsFiniteSet(S), NEW before, Ordered(S, before), NEW n \in Nat
  PROVE  /\ Leading(S, before, n) \subseteq S
         /\ \A x \in Leading(S, before, n) : before[x] \subseteq Leading(S, before, n)
         /\ \A x \in Leading(S, before, n), y \in S \ Leading(S, before, n) : x \in before[y]
  <1>1. ASSUME NEW x \in Leading(S, before, n), NEW y \in before[x]
        PROVE  y \in Leading(S, before, n)
    <2>1. x \in S /\ y \in S /\ Cardinality(before[x]) < n
      BY <1>1 DEF Leading, Ordered
    <2>2. /\ Cardinality(before[y]) < Cardinality(before[x])
          /\ Cardinality(before[y]) \in Nat /\ Cardinality(before[x]) \in Nat
      BY <1>1, <2>1, Ranks
    <2>3. Cardinality(before[y]) < n
      BY <2>1, <2>2
    <2> QED BY <2>1, <2>3 DEF Leading
  <1>2. ASSUME NEW x \in Leading(S, before, n), NEW y \in S \ Leading(S, before, n)
        PROVE  x \in before[y]
    <2>1. x \in S /\ x # y /\ y \notin before[x]
      BY <1>1, <1>2 DEF Leading
    <2> QED BY <2>1 DEF Ordered
  <1> QED BY <1>1, <1>2 DEF Leading

(* The first n are n elements, or all there are.                           *)
LEMMA LeadingSize ==
  ASSUME NEW S, IsFiniteSet(S), NEW before, Ordered(S, before), NEW n \in Nat
  PROVE  /\ IsFiniteSet(Leading(S, before, n))
         /\ Cardinality(Leading(S, before, n)) \in Nat
         /\ Cardinality(Leading(S, before, n)) <= n
         /\ Leading(S, before, n) # S => Cardinality(Leading(S, before, n)) = n
  <1> DEFINE L == Leading(S, before, n)
  <1>1. L \subseteq S
    BY DEF Leading
  <1>2. IsFiniteSet(L) /\ Cardinality(L) \in Nat
    BY <1>1, SubsetSize
  <1>3. Cardinality(L) <= n
    <2> DEFINE f == [x \in L |-> Cardinality(before[x])]
    <2>1. IsFiniteSet(0 .. n - 1) /\ Cardinality(0 .. n - 1) = n
      BY FS_Interval
    <2>2. ASSUME NEW x \in L
          PROVE  x \in S /\ Cardinality(before[x]) \in 0 .. n - 1
      <3>1. x \in S /\ Cardinality(before[x]) < n
        BY DEF Leading
      <3>2. Cardinality(before[x]) \in Nat
        BY <3>1, Ranks
      <3> QED BY <3>1, <3>2
    <2>3. ASSUME NEW x \in L, NEW y \in L, Cardinality(before[x]) = Cardinality(before[y])
          PROVE  x = y
      <3>1. SUFFICES ASSUME x # y PROVE FALSE
        OBVIOUS
      <3>2. x \in S /\ y \in S /\ Cardinality(before[x]) \in Nat /\ Cardinality(before[y]) \in Nat
        BY <2>2, Ranks
      <3>3. x \in before[y] \/ y \in before[x]
        BY <3>1, <3>2 DEF Ordered
      <3>4. \/ Cardinality(before[x]) < Cardinality(before[y])
            \/ Cardinality(before[y]) < Cardinality(before[x])
        BY <3>2, <3>3, Ranks
      <3> QED BY <2>3, <3>2, <3>4
    <2> HIDE DEF L
    <2>4. f \in [L -> 0 .. n - 1] /\ \A x, y \in L : f[x] = f[y] => x = y
      BY <2>2, <2>3
    <2>5. f \in Injection(L, 0 .. n - 1)
      BY <2>4 DEF Injection, IsInjective
    <2>6. Cardinality(L) <= Cardinality(0 .. n - 1)
      <3> HIDE DEF f
      <3> QED BY <2>1, <2>5, FS_Injection
    <2> QED BY <2>1, <2>6
  <1>4. ASSUME L # S PROVE Cardinality(L) >= n
    <2>1. PICK y \in S \ L : \A z \in (S \ L) \ {y} : y \in before[z]
      <3>1. S \ L \subseteq S /\ S \ L # {}
        BY <1>1, <1>4
      <3> HIDE DEF L
      <3> QED BY <3>1, FirstOf
    <2>2. before[y] \subseteq L
      <3>1. ASSUME NEW z \in before[y], z \notin L PROVE FALSE
        <4>1. z \in S /\ z # y
          BY <3>1 DEF Ordered
        <4>2. y \in before[z]
          BY <2>1, <3>1, <4>1
        <4>3. y \in before[y]
          BY <3>1, <4>1, <4>2 DEF Ordered
        <4> QED BY <4>3 DEF Ordered
      <3> QED BY <3>1
    <2>3. ~(Cardinality(before[y]) < n) /\ Cardinality(before[y]) \in Nat
      BY <2>1, Ranks DEF Leading
    <2> HIDE DEF L
    <2>4. Cardinality(before[y]) <= Cardinality(L)
      BY <1>2, <2>2, SubsetSize
    <2> QED BY <1>2, <2>3, <2>4
  <1> HIDE DEF L
  <1>5. L # S => Cardinality(L) = n
    BY <1>2, <1>3, <1>4
  <1> QED BY <1>2, <1>3, <1>5 DEF L

(* Of a part of S that holds, with an element, all before it, n are kept   *)
(* when it has as many.                                                    *)
LEMMA LeadingOfClosed ==
  ASSUME NEW S, IsFiniteSet(S), NEW before, Ordered(S, before), NEW n \in Nat,
         NEW A, A \subseteq S, \A x \in A : before[x] \subseteq A, Cardinality(A) >= n
  PROVE  Cardinality(A \intersect Leading(S, before, n)) >= n
  <1> DEFINE L == Leading(S, before, n)
  <1>1. CASE A \subseteq L
    <2>1. A \intersect L = A
      BY <1>1
    <2> QED BY <2>1
  <1>2. CASE ~(A \subseteq L)
    <2>1. PICK y \in A : y \notin L
      BY <1>2
    <2>2. L # S /\ y \in S \ L
      BY <2>1
    <2>3. L \subseteq before[y]
      BY <2>2, LeadingIsClosed
    <2>4. A \intersect L = L
      BY <2>1, <2>3
    <2>5. Cardinality(L) = n
      BY <2>2, LeadingSize
    <2> QED BY <2>4, <2>5
  <1> QED BY <1>1, <1>2

-----------------------------------------------------------------------------
(* Activity events.                                                        *)

(* A bucket: ids tell its events apart, and it is within its limit.        *)
Distinct(S) ==
    /\ S \subseteq Event
    /\ IsFiniteSet(S)
    /\ \A e, f \in S : e.id = f.id => e = f

Bucketed(S) == Distinct(S) /\ Cardinality(S) <= MaxEvents

(* The buckets that may yet be written, each with the version it replaces. *)
Writes ==
    {[base |-> base[c], events |-> seen[c]] : c \in {k \in Commands : at[k] \in {"commit", "pruned"}}}
        \union late

BucketInv ==
    /\ TypeOK
    /\ \A c \in Commands : now[c] <= clock
    /\ \A c \in Commands : at[c] \in {"put", "commit"} => \E e \in event[c] : event[c] = {e}
    /\ Bucketed(events)
    /\ \A w \in Writes : Bucketed(w.events) /\ w.base <= version

(* The events that have been at the relay, as far as anyone remembers.     *)
Rounds ==
    (UNION {memory[d].round : d \in Devices}) \union (UNION {mem[c].round : c \in Commands})
Relayed == events \union Rounds \union (UNION {w.events : w \in Writes})

(* Ids are given out once; the event of a command that has not reached the *)
(* relay is unlike any that has, and unlike those of other commands.       *)
IdsInv ==
    /\ \A e \in Relayed : e.id \in used
    /\ \A c \in Commands : \A e \in event[c] : e.id \in used
    /\ \A c \in Commands : at[c] = "put" =>
          \A e \in event[c] :
             /\ \A f \in Relayed : f.id # e.id
             /\ \A k \in Commands \ {c} : \A f \in event[k] : f.id # e.id

(* An event is kept in S at time t: it is there, or expired, or pushed out *)
(* by newer ones.                                                          *)
KeptIn(e, S, t) ==
    \/ e \in S
    \/ ExpiresAt(e) <= t
    \/ Cardinality({f \in S : After(f, e)}) >= MaxEvents

(* Whatever is written next keeps what has been answered, and what will be.*)
KeptInv ==
    /\ acked \subseteq Event
    /\ \A e \in acked : KeptIn(e, events, clock)
    /\ \A w \in Writes : w.base = version => \A e \in acked : KeptIn(e, w.events, clock)
    /\ \A c \in Commands : at[c] = "commit" /\ base[c] = version =>
          \A e \in event[c] : KeptIn(e, seen[c], clock)

(* The memory m of device d has taken in the events of S that its round    *)
(* and its cursor say it has.                                              *)
Covers(m, d, S) ==
    \A e \in m.round \intersect S :
        \/ e.device = d
        \/ m.cursor # None /\ After(e, m.cursor)
        \/ \A x \in Entries : e.memory.known[x] <= m.known[x]

(* The same for a command that still has to merge page P.                  *)
CoversWith(m, d, S, P, cur) ==
    \A e \in m.round \intersect S :
        \/ e.device = d
        \/ cur # None /\ After(e, cur)
        \/ e \in P
        \/ \A x \in Entries : e.memory.known[x] <= m.known[x]

(* No write brings back an event that some round has gone past, and every  *)
(* memory, in a file or in a command's hands, covers its round.            *)
RoundInv ==
    /\ \A w \in Writes : w.base = version => \A e \in w.events \ events : e \notin Rounds
    /\ \A d \in Devices : Covers(memory[d], d, events)
    /\ \A c \in Commands :
          /\ at[c] \in {"put", "commit", "get", "list"} => Covers(mem[c], DeviceOf[c], events)
          /\ at[c] = "pruned" /\ base[c] = version =>
                CoversWith(mem[c], DeviceOf[c], seen[c], page[c], next[c])
          /\ at[c] = "merge" => CoversWith(mem[c], DeviceOf[c], events, page[c], next[c])

-----------------------------------------------------------------------------
(* What put and list do to a bucket.                                       *)

NewerIn(S) == [e \in S |-> {f \in S : After(f, e)}]
OlderIn(S) == [e \in S |-> {f \in S : After(e, f)}]

(* Times and ids order such events.                                        *)
LEMMA AfterIsAnOrder ==
  /\ \A e \in Event : ~After(e, e)
  /\ \A e, f, g \in Event : After(e, f) /\ After(f, g) => After(e, g)
  /\ \A e, f \in Event : e.id # f.id => After(e, f) \/ After(f, e)
  <1>1. \A e \in Event : e.created \in Nat /\ e.id \in Nat
    BY StoreBounds DEF Event
  <1> QED BY <1>1 DEF After

LEMMA EventsAreOrdered ==
  ASSUME NEW S, Distinct(S)
  PROVE  Ordered(S, NewerIn(S)) /\ Ordered(S, OlderIn(S))
  <1>1. S \subseteq Event /\ \A e, f \in S : e # f => e.id # f.id
    BY DEF Distinct
  <1>2. Ordered(S, NewerIn(S))
    <2>1. NewerIn(S) \in [S -> SUBSET S]
      BY DEF NewerIn
    <2>2. \A e, f \in S : f \in NewerIn(S)[e] <=> After(f, e)
      BY DEF NewerIn
    <2>3. \A e, f \in S : f \in NewerIn(S)[e] => NewerIn(S)[f] \subseteq NewerIn(S)[e]
      BY <1>1, <2>1, <2>2, AfterIsAnOrder
    <2> QED BY <1>1, <2>1, <2>2, <2>3, AfterIsAnOrder DEF Ordered
  <1>3. Ordered(S, OlderIn(S))
    <2>1. OlderIn(S) \in [S -> SUBSET S]
      BY DEF OlderIn
    <2>2. \A e, f \in S : f \in OlderIn(S)[e] <=> After(e, f)
      BY DEF OlderIn
    <2>3. \A e, f \in S : f \in OlderIn(S)[e] => OlderIn(S)[f] \subseteq OlderIn(S)[e]
      BY <1>1, <2>1, <2>2, AfterIsAnOrder
    <2> QED BY <1>1, <2>1, <2>2, <2>3, AfterIsAnOrder DEF Ordered
  <1> QED BY <1>2, <1>3

LEMMA DistinctParts ==
  ASSUME NEW S, Distinct(S), NEW T, T \subseteq S
  PROVE  Distinct(T)
  BY FS_Subset DEF Distinct

(* Drain leaves a bucket, and what it takes out has made room for newer    *)
(* events.                                                                 *)
LEMMA DrainIsABucket ==
  ASSUME NEW S, Distinct(S)
  PROVE  /\ Drain(S) \subseteq S
         /\ Bucketed(Drain(S))
         /\ \A e \in Event : Cardinality({f \in S : After(f, e)}) >= MaxEvents =>
               Cardinality({f \in Drain(S) : After(f, e)}) >= MaxEvents
         /\ \A e \in S : \/ e \in Drain(S)
                         \/ Cardinality({f \in Drain(S) : After(f, e)}) >= MaxEvents
  <1>1. IsFiniteSet(S) /\ MaxEvents \in Nat /\ S \subseteq Event
    BY StoreBounds DEF Distinct
  <1>2. Ordered(S, NewerIn(S))
    BY EventsAreOrdered
  <1>3. Drain(S) = Leading(S, NewerIn(S), MaxEvents)
    BY DEF Drain, Leading, NewerIn
  <1>4. Drain(S) \subseteq S
    BY DEF Drain
  <1>5. Bucketed(Drain(S))
    BY <1>1, <1>2, <1>3, <1>4, LeadingSize, DistinctParts DEF Bucketed, Distinct
  <1>6. ASSUME NEW e \in Event, Cardinality({f \in S : After(f, e)}) >= MaxEvents
        PROVE  Cardinality({f \in Drain(S) : After(f, e)}) >= MaxEvents
    <2> DEFINE A == {f \in S : After(f, e)}
    <2>1. A \subseteq S
      OBVIOUS
    <2>2. \A x \in A : NewerIn(S)[x] \subseteq A
      BY <1>1, AfterIsAnOrder DEF NewerIn
    <2>3. Cardinality(A) >= MaxEvents
      BY <1>6
    <2>4. A \intersect Drain(S) = {f \in Drain(S) : After(f, e)}
      BY <1>4
    <2> HIDE DEF A
    <2>5. Cardinality(A \intersect Drain(S)) >= MaxEvents
      BY <1>1, <1>2, <1>3, <2>1, <2>2, <2>3, LeadingOfClosed
    <2> QED BY <2>4, <2>5
  <1>7. ASSUME NEW e \in S, e \notin Drain(S)
        PROVE  Cardinality({f \in Drain(S) : After(f, e)}) >= MaxEvents
    <2>1. IsFiniteSet({f \in S : After(f, e)})
      BY <1>1, FS_Subset
    <2>2. Cardinality({f \in S : After(f, e)}) \in Nat
      BY <2>1, FS_CardinalityType
    <2>3. ~(Cardinality({f \in S : After(f, e)}) < MaxEvents)
      BY <1>7 DEF Drain
    <2> QED BY <1>1, <1>6, <2>2, <2>3
  <1> QED BY <1>4, <1>5, <1>6, <1>7

(* Pruning leaves a bucket, and keeps what it should.                      *)
LEMMA PruneKeeps ==
  ASSUME NEW S, Bucketed(S), NEW t \in Nat
  PROVE  /\ Prune(S, t) \subseteq S
         /\ Bucketed(Prune(S, t))
         /\ \A e \in Event, s \in Nat : t <= s /\ KeptIn(e, S, s) => KeptIn(e, Prune(S, t), s)
  <1>1. Prune(S, t) \subseteq S
    BY DEF Prune
  <1>2. Bucketed(Prune(S, t))
    <2>1. IsFiniteSet(S) /\ Cardinality(S) <= MaxEvents
      BY DEF Bucketed, Distinct
    <2>2. /\ IsFiniteSet(Prune(S, t))
          /\ Cardinality(Prune(S, t)) \in Nat /\ Cardinality(S) \in Nat
          /\ Cardinality(Prune(S, t)) <= Cardinality(S)
      BY <1>1, <2>1, SubsetSize
    <2>3. Cardinality(Prune(S, t)) <= MaxEvents
      BY <2>1, <2>2, StoreBounds
    <2> QED BY <1>1, <2>2, <2>3 DEF Bucketed, Distinct
  <1>3. ASSUME NEW e \in Event, NEW s \in Nat, t <= s, KeptIn(e, S, s)
        PROVE  KeptIn(e, Prune(S, t), s)
    <2>1. e.created \in Nat /\ ExpiresAt(e) \in Nat
      BY StoreBounds DEF Event, ExpiresAt
    <2>2. CASE ExpiresAt(e) <= s
      BY <2>2 DEF KeptIn
    <2>3. CASE ~(ExpiresAt(e) <= s) /\ e \in S
      BY <1>3, <2>1, <2>3 DEF KeptIn, Prune
    <2>4. CASE ~(ExpiresAt(e) <= s) /\ e \notin S
      <3>1. Cardinality({f \in S : After(f, e)}) >= MaxEvents
        BY <1>3, <2>1, <2>4 DEF KeptIn
      <3>2. \A f \in S : After(f, e) => ExpiresAt(f) > t
        BY <1>3, <2>1, <2>4, StoreBounds DEF After, ExpiresAt, Bucketed, Distinct, Event
      <3>3. {f \in Prune(S, t) : After(f, e)} = {f \in S : After(f, e)}
        BY <3>2 DEF Prune
      <3> QED BY <3>1, <3>3 DEF KeptIn
    <2> QED BY <2>2, <2>3, <2>4
  <1> QED BY <1>1, <1>2, <1>3

(* So does put, which keeps the new event as well.                         *)
LEMMA PutKeeps ==
  ASSUME NEW S, Bucketed(S), NEW e \in Event, NEW t \in Nat
  PROVE  /\ Put(S, e, t) \subseteq S \union {e}
         /\ Bucketed(Put(S, e, t))
         /\ (\A x \in S : x.id # e.id) =>
               /\ KeptIn(e, Put(S, e, t), t)
               /\ \A f \in Event : KeptIn(f, S, t) => KeptIn(f, Put(S, e, t), t)
  <1> DEFINE live == Prune(S, t)
  <1>1. /\ live \subseteq S
        /\ Bucketed(live)
        /\ \A f \in Event : KeptIn(f, S, t) => KeptIn(f, live, t)
    BY PruneKeeps
  <1>2. CASE \E x \in live : x.id = e.id
    <2>1. Put(S, e, t) = live
      BY <1>2 DEF Put
    <2>2. \E x \in S : x.id = e.id
      BY <1>1, <1>2
    <2> HIDE DEF live
    <2> QED BY <1>1, <2>1, <2>2
  <1>3. CASE ~\E x \in live : x.id = e.id
    <2> DEFINE U == live \union {e}
    <2>1. Put(S, e, t) = Drain(U)
      BY <1>3 DEF Put
    <2> HIDE DEF live
    <2>2. Distinct(U)
      BY <1>1, <1>3, FS_AddElement DEF Bucketed, Distinct
    <2>3. e \in U /\ U \subseteq S \union {e} /\ live \subseteq U
      BY <1>1
    <2>4. IsFiniteSet(U) /\ U \subseteq Event
      BY <2>2 DEF Distinct
    <2> HIDE DEF U
    <2>5. /\ Drain(U) \subseteq U
          /\ Bucketed(Drain(U))
          /\ \A f \in Event : Cardinality({g \in U : After(g, f)}) >= MaxEvents =>
               Cardinality({g \in Drain(U) : After(g, f)}) >= MaxEvents
          /\ \A f \in U : \/ f \in Drain(U)
                          \/ Cardinality({g \in Drain(U) : After(g, f)}) >= MaxEvents
      BY <2>2, DrainIsABucket
    <2>6. KeptIn(e, Drain(U), t)
      BY <2>3, <2>5 DEF KeptIn
    <2>7. ASSUME NEW f \in Event, KeptIn(f, live, t)
          PROVE  KeptIn(f, Drain(U), t)
      <3>1. CASE ExpiresAt(f) <= t
        BY <3>1 DEF KeptIn
      <3>2. CASE f \in live
        BY <2>3, <2>5, <3>2 DEF KeptIn
      <3>3. CASE Cardinality({g \in live : After(g, f)}) >= MaxEvents
        <4>1. IsFiniteSet({g \in U : After(g, f)})
          BY <2>4, FS_Subset
        <4>2. {g \in live : After(g, f)} \subseteq {g \in U : After(g, f)}
          BY <2>3
        <4>3. /\ Cardinality({g \in live : After(g, f)}) \in Nat
              /\ Cardinality({g \in U : After(g, f)}) \in Nat
              /\ Cardinality({g \in live : After(g, f)}) <= Cardinality({g \in U : After(g, f)})
          BY <4>1, <4>2, SubsetSize
        <4>4. Cardinality({g \in U : After(g, f)}) >= MaxEvents
          BY <3>3, <4>3, StoreBounds
        <4> QED BY <2>5, <4>4 DEF KeptIn
      <3> QED BY <2>7, <3>1, <3>2, <3>3 DEF KeptIn
    <2> QED BY <1>1, <2>1, <2>3, <2>5, <2>6, <2>7
  <1> QED BY <1>2, <1>3

(* A page and its cursor leave nothing out: what is to come is in the page *)
(* or after the next cursor.                                               *)
LEMMA PageAndCursor ==
  ASSUME NEW S, Bucketed(S), NEW c \in Cursor \union {None}, NEW limit \in Nat \ {0}
  PROVE  /\ Page(S, c, limit) \subseteq S
         /\ NextCursor(S, c, limit) \in Cursor \union {None}
         /\ \A e \in S : c = None \/ After(e, c) =>
               \/ e \in Page(S, c, limit)
               \/ /\ NextCursor(S, c, limit) # None
                  /\ After(e, NextCursor(S, c, limit))
  <1> DEFINE R == Rest(S, c)
             P == Page(S, c, limit)
             last == CHOOSE e \in P : \A f \in P \ {e} : After(e, f)
  <1>1. R \subseteq S /\ R = {e \in S : c = None \/ After(e, c)}
    BY DEF Rest, AfterCursor, After
  <1>2. Distinct(R)
    BY <1>1, DistinctParts DEF Bucketed, Distinct
  <1>3. P = Leading(R, OlderIn(R), limit)
    BY DEF Page, Leading, OlderIn
  <1>4. NextCursor(S, c, limit) = IF P = R THEN None ELSE [created |-> last.created, id |-> last.id]
    BY DEF NextCursor
  <1> HIDE DEF P, R
  <1>5. Ordered(R, OlderIn(R)) /\ IsFiniteSet(R) /\ limit \in Nat
    BY <1>2, EventsAreOrdered DEF Distinct
  <1>6. /\ P \subseteq R
        /\ \A x \in P, y \in R \ P : x \in OlderIn(R)[y]
    BY <1>3, <1>5, LeadingIsClosed
  <1>7. CASE P = R
    BY <1>1, <1>4, <1>6, <1>7 DEF P
  <1>8. CASE P # R
    <2>1. Cardinality(P) = limit
      BY <1>3, <1>5, <1>8, LeadingSize
    <2>2. P # {}
      BY <2>1, FS_EmptySet
    <2>3. \E e \in P : \A f \in P \ {e} : f \in OlderIn(R)[e]
      BY <1>5, <1>6, <2>2, LastOf
    <2>4. \E e \in P : \A f \in P \ {e} : After(e, f)
      BY <1>6, <2>3 DEF OlderIn
    <2>5. last \in P
      BY <2>4
    <2>6. last \in Event
      BY <1>2, <1>6, <2>5 DEF Distinct
    <2>7. [created |-> last.created, id |-> last.id] \in Cursor
      BY <2>6 DEF Event, Cursor
    <2>8. \A y \in R \ P : After(y, last)
      BY <1>6, <2>5 DEF OlderIn
    <2> HIDE DEF last
    <2>9. \A y \in R \ P : After(y, [created |-> last.created, id |-> last.id])
      BY <2>8 DEF After
    <2> QED BY <1>1, <1>4, <1>6, <1>8, <2>7, <2>9, NoneIsFresh DEF P
  <1> QED BY <1>7, <1>8

-----------------------------------------------------------------------------
(* What a step does to the relay: nothing but forget writes, or prepare    *)
(* one, or apply one that was prepared from the bucket as it is.           *)
Quiet == events' = events /\ version' = version /\ Writes' \subseteq Writes

Prepares(S) ==
    /\ events' = events /\ version' = version
    /\ Writes' \subseteq Writes \union {[base |-> version, events |-> S]}

Applies(w) ==
    /\ w \in Writes /\ w.base = version
    /\ events' = w.events /\ version' = version + 1
    /\ Writes' \subseteq Writes

RelayMoves ==
    \/ Quiet
    \/ \E t \in Nat : t <= clock /\ Prepares(Prune(events, t))
    \/ \E c \in Commands : \E e \in event[c] :
          PutGet(c) /\ event[c] = {e} /\ Prepares(Put(events, e, clock))
    \/ \E w \in Writes : Applies(w)

(* The commands but c keep their requests.                                 *)
Others(c) ==
    \A k \in Commands \ {c} : at'[k] = at[k] /\ seen'[k] = seen[k] /\ base'[k] = base[k]

LEMMA WritesOfOthers ==
  ASSUME NEW c \in Commands, Others(c)
  PROVE  \A w \in Writes' :
            \/ w \in Writes
            \/ w \in late'
            \/ at'[c] \in {"commit", "pruned"} /\ w = [base |-> base'[c], events |-> seen'[c]]
  <1> SUFFICES ASSUME NEW w \in Writes', w \notin late'
               PROVE  \/ w \in Writes
                      \/ at'[c] \in {"commit", "pruned"} /\ w = [base |-> base'[c], events |-> seen'[c]]
    OBVIOUS
  <1>1. PICK k \in Commands : at'[k] \in {"commit", "pruned"} /\ w = [base |-> base'[k], events |-> seen'[k]]
    BY DEF Writes
  <1>2. CASE k = c
    BY <1>1, <1>2
  <1>3. CASE k # c
    BY <1>1, <1>3 DEF Others, Writes
  <1> QED BY <1>2, <1>3

(* The writes of a state, spelt out.                                       *)
LEMMA WritesAre ==
  /\ late \subseteq Writes
  /\ \A c \in Commands : at[c] \in {"commit", "pruned"} => [base |-> base[c], events |-> seen[c]] \in Writes
  BY DEF Writes

LEMMA QuietSteps ==
  ASSUME TypeOK, NEW c \in Commands
  PROVE  /\ \A id \in Ids : Start(c, id) => Quiet
         /\ ListBegin(c) => Quiet
         /\ RequestFails(c) => Quiet
         /\ CommitTimesOut(c) => Quiet
         /\ \A e \in page[c] : MergeEvent(c, e) => Quiet
         /\ MergeWrite(c) => Quiet
         /\ Kill(c) => Quiet
  <1>3. ASSUME NEW id \in Ids, Start(c, id) PROVE Quiet
    <2>1. Others(c) /\ late' = late /\ at'[c] = "put"
      BY <1>3 DEF Start, relayVars, Others, TypeOK
    <2>2. Writes' \subseteq Writes
      BY <2>1, WritesOfOthers, WritesAre
    <2> QED BY <1>3, <2>2 DEF Start, relayVars, Quiet
  <1>4. ASSUME ListBegin(c) PROVE Quiet
    <2>1. Others(c) /\ late' = late /\ at'[c] = "list"
      BY <1>4 DEF ListBegin, relayVars, Others, TypeOK
    <2>2. Writes' \subseteq Writes
      BY <2>1, WritesOfOthers, WritesAre
    <2> QED BY <1>4, <2>2 DEF ListBegin, relayVars, Quiet
  <1>5. ASSUME Finish(c),
               \/ late' = late
               \/ /\ late' = late \union {[base |-> base[c], events |-> seen[c]]}
                  /\ at[c] \in {"commit", "pruned"}
        PROVE  Writes' \subseteq Writes
    <2>1. Others(c) /\ at'[c] = "idle"
      BY <1>5 DEF Finish, Others, TypeOK
    <2> QED BY <1>5, <2>1, WritesOfOthers, WritesAre
  <1>6. ASSUME RequestFails(c) PROVE Quiet
    <2>1. Finish(c) /\ events' = events /\ version' = version /\ late' = late
      BY <1>6 DEF RequestFails, relayVars
    <2> QED BY <1>5, <2>1 DEF Quiet
  <1>7. CommitTimesOut(c) => Quiet
    BY <1>5 DEF CommitTimesOut, Quiet
  <1>8. \A e \in page[c] : MergeEvent(c, e) => Quiet
    BY DEF MergeEvent, relayVars, Quiet, Writes
  <1>9. ASSUME MergeWrite(c) PROVE Quiet
    <2>1. Finish(c) /\ events' = events /\ version' = version /\ late' = late
      BY <1>9 DEF MergeWrite, relayVars
    <2> QED BY <1>5, <2>1 DEF Quiet
  <1>10. ASSUME Kill(c) PROVE Quiet
    <2>1. Finish(c) /\ events' = events /\ version' = version /\ late' = late
      BY <1>10 DEF Kill, relayVars
    <2> QED BY <1>5, <2>1 DEF Quiet
  <1> QED BY <1>3, <1>4, <1>6, <1>7, <1>8, <1>9, <1>10

LEMMA WritingSteps ==
  ASSUME TypeOK, NEW c \in Commands
  PROVE  /\ PutGet(c) => Prepares(UNION {Put(events, e, clock) : e \in event[c]})
         /\ PutCommit(c) => Applies([base |-> base[c], events |-> seen[c]])
         /\ \A limit \in Limits : ListGet(c, limit) =>
               IF Prune(events, now[c]) = events THEN Quiet ELSE Prepares(Prune(events, now[c]))
         /\ ListCommit(c) => Applies([base |-> base[c], events |-> seen[c]])
  <1>1. ASSUME PutGet(c) PROVE Prepares(UNION {Put(events, e, clock) : e \in event[c]})
    <2> DEFINE S == UNION {Put(events, e, clock) : e \in event[c]}
    <2>1. seen' = [seen EXCEPT ![c] = S]
      BY <1>1 DEF PutGet
    <2> HIDE DEF S
    <2>2. Others(c) /\ late' = late /\ seen'[c] = S /\ base'[c] = version
      BY <1>1, <2>1 DEF PutGet, relayVars, Others, TypeOK
    <2>3. Writes' \subseteq Writes \union {[base |-> version, events |-> S]}
      BY <2>2, WritesOfOthers, WritesAre
    <2>4. Prepares(S)
      BY <1>1, <2>3 DEF PutGet, relayVars, Prepares
    <2> QED BY <2>4 DEF S
  <1>2. ASSUME PutCommit(c) PROVE Applies([base |-> base[c], events |-> seen[c]])
    <2>1. Others(c) /\ late' = late /\ at'[c] = "get"
      BY <1>2 DEF PutCommit, Others, TypeOK
    <2>2. Writes' \subseteq Writes
      BY <2>1, WritesOfOthers, WritesAre
    <2>3. [base |-> base[c], events |-> seen[c]] \in Writes
      BY <1>2, WritesAre DEF PutCommit
    <2> QED BY <1>2, <2>2, <2>3 DEF PutCommit, Write, PreconditionHolds, Applies
  <1>3. ASSUME NEW limit \in Limits, ListGet(c, limit)
        PROVE  IF Prune(events, now[c]) = events THEN Quiet ELSE Prepares(Prune(events, now[c]))
    <2> DEFINE live == Prune(events, now[c])
    <2>1. /\ at[c] = "list" /\ late' = late /\ events' = events /\ version' = version
          /\ \/ live = events /\ at' = [at EXCEPT ![c] = "merge"] /\ seen' = seen /\ base' = base
             \/ /\ live # events /\ at' = [at EXCEPT ![c] = "pruned"]
                /\ seen' = [seen EXCEPT ![c] = live] /\ base' = [base EXCEPT ![c] = version]
      BY <1>3 DEF ListGet, relayVars
    <2> HIDE DEF live
    <2>2. Others(c)
      BY <2>1 DEF Others, TypeOK
    <2>3. CASE live = events
      <3>1. at'[c] = "merge"
        BY <2>1, <2>3 DEF TypeOK
      <3>2. Writes' \subseteq Writes
        BY <2>1, <2>2, <3>1, WritesOfOthers, WritesAre
      <3> QED BY <2>1, <2>3, <3>2 DEF Quiet, live
    <2>4. CASE live # events
      <3>1. seen'[c] = live /\ base'[c] = version
        BY <2>1, <2>4 DEF TypeOK
      <3>2. Writes' \subseteq Writes \union {[base |-> version, events |-> live]}
        BY <2>1, <2>2, <3>1, WritesOfOthers, WritesAre
      <3> QED BY <2>1, <2>4, <3>2 DEF Prepares, live
    <2> QED BY <2>3, <2>4
  <1>4. ASSUME ListCommit(c) PROVE Applies([base |-> base[c], events |-> seen[c]])
    <2>1. Others(c) /\ late' = late /\ at'[c] = "merge"
      BY <1>4 DEF ListCommit, Others, TypeOK
    <2>2. Writes' \subseteq Writes
      BY <2>1, WritesOfOthers, WritesAre
    <2>3. [base |-> base[c], events |-> seen[c]] \in Writes
      BY <1>4, WritesAre DEF ListCommit
    <2> QED BY <1>4, <2>2, <2>3 DEF ListCommit, Write, PreconditionHolds, Applies
  <1> QED BY <1>1, <1>2, <1>3, <1>4

-----------------------------------------------------------------------------
(* Buckets and types.                                                      *)

LEMMA BucketsStay ==
  ASSUME BucketInv, RelayMoves
  PROVE  Bucketed(events') /\ \A w \in Writes' : Bucketed(w.events) /\ w.base <= version'
  <1>1. /\ Bucketed(events) /\ version \in Nat /\ clock \in Nat
        /\ \A w \in Writes : Bucketed(w.events) /\ w.base <= version
    BY SyncBounds DEF BucketInv, TypeOK
  <1>2. \A w \in Writes : w.base \in Nat
    BY DEF BucketInv, TypeOK, Writes
  <1>3. CASE Quiet
    BY <1>1, <1>3 DEF Quiet
  <1>4. CASE \E S : Bucketed(S) /\ Prepares(S)
    BY <1>1, <1>4 DEF Prepares
  <1>5. CASE \E t \in Nat : t <= clock /\ Prepares(Prune(events, t))
    BY <1>1, <1>4, <1>5, PruneKeeps
  <1>6. CASE \E c \in Commands : \E e \in event[c] :
                PutGet(c) /\ event[c] = {e} /\ Prepares(Put(events, e, clock))
    <2>1. PICK c \in Commands : \E e \in event[c] : Prepares(Put(events, e, clock))
      BY <1>6
    <2>2. PICK e \in event[c] : Prepares(Put(events, e, clock))
      BY <2>1
    <2>3. e \in Event
      BY DEF BucketInv, TypeOK
    <2> QED BY <1>1, <1>4, <2>2, <2>3, PutKeeps
  <1>7. CASE \E w \in Writes : Applies(w)
    BY <1>1, <1>2, <1>7 DEF Applies
  <1> QED BY <1>3, <1>5, <1>6, <1>7 DEF RelayMoves

(* Every step is of one of these kinds.                                    *)
LEMMA StepKinds ==
  ASSUME BucketInv, Next
  PROVE  RelayMoves
  <1>1. TypeOK /\ clock \in Nat
    BY SyncBounds DEF BucketInv, TypeOK
  <1>2. CASE Tick
    BY <1>2 DEF Tick, relayVars, Quiet, Writes, RelayMoves
  <1>3. CASE \E d \in Devices, k \in Known, p \in Profiles : Edit(d, k, p)
    BY <1>3 DEF Edit, relayVars, Quiet, Writes, RelayMoves
  <1>4. ASSUME NEW c \in Commands, Step(c)
        PROVE  RelayMoves
    <2>1. CASE \/ \E id \in Ids : Start(c, id)
               \/ ListBegin(c) \/ RequestFails(c) \/ CommitTimesOut(c)
               \/ \E e \in page[c] : MergeEvent(c, e)
               \/ MergeWrite(c) \/ Kill(c)
      BY <1>1, <2>1, QuietSteps DEF RelayMoves
    <2>2. CASE PutGet(c)
      <3>1. PICK e \in event[c] : event[c] = {e}
        BY <2>2 DEF PutGet, BucketInv
      <3>2. UNION {Put(events, x, clock) : x \in event[c]} = Put(events, e, clock)
        BY <3>1
      <3>3. Prepares(Put(events, e, clock))
        BY <1>1, <2>2, <3>2, WritingSteps
      <3> QED BY <2>2, <3>1, <3>3 DEF RelayMoves
    <2>3. CASE \E limit \in Limits : ListGet(c, limit)
      <3>1. now[c] \in Nat /\ now[c] <= clock
        BY DEF BucketInv, TypeOK
      <3>2. IF Prune(events, now[c]) = events THEN Quiet ELSE Prepares(Prune(events, now[c]))
        BY <1>1, <2>3, WritingSteps
      <3> QED BY <3>1, <3>2 DEF RelayMoves
    <2>4. CASE PutCommit(c) \/ ListCommit(c)
      <3>1. Applies([base |-> base[c], events |-> seen[c]])
        BY <1>1, <2>4, WritingSteps
      <3> QED BY <3>1 DEF Applies, RelayMoves
    <2> QED BY <1>4, <2>1, <2>2, <2>3, <2>4 DEF Step
  <1>5. ASSUME NEW w \in late, LateCommit(w) PROVE RelayMoves
    <2>1. w \in Writes /\ Writes' \subseteq Writes
      BY <1>5 DEF LateCommit, Writes
    <2> QED BY <1>5, <2>1 DEF LateCommit, Write, PreconditionHolds, Applies, Quiet, RelayMoves
  <1> QED BY <1>2, <1>3, <1>4, <1>5 DEF Next

(* The memories that a command reads, merges and writes.                   *)
LEMMA MemoryTypes ==
  /\ Blank \in Memory
  /\ \A p \in Profiles : Fresh(p) \in Memory
  /\ \A m \in Memory : [known |-> m.known, profile |-> m.profile, updated |-> m.updated] \in Snapshot
  /\ \A m \in Memory, k \in Cursor \union {None} : [m EXCEPT !.cursor = k] \in Memory
  /\ \A m \in Memory, R \in SUBSET Event : [m EXCEPT !.round = R] \in Memory
  /\ \A m \in Memory, k \in Known, p \in Profiles, t \in Nat :
        [m EXCEPT !.known = k, !.profile = p, !.updated = t, !.round = {}] \in Memory
  /\ \A m \in Memory, s \in Snapshot : MergeOne(m, s) \in Memory
  <1>1. \A p \in Profiles : Fresh(p) \in Memory
    BY StoreBounds DEF Fresh, Memory, Known
  <1>2. Blank \in Memory
    BY <1>1, StoreBounds DEF Blank
  <1>3. ASSUME NEW m \in Memory, NEW s \in Snapshot PROVE MergeOne(m, s) \in Memory
    <2>1. m.known \in Known /\ s.known \in Known
      BY DEF Memory, Snapshot
    <2>2. NewestEntries(m.known, s.known) \in Known
      BY <2>1 DEF NewestEntries, Known
    <2> QED BY <2>2 DEF MergeOne, Memory, Snapshot
  <1> QED BY <1>1, <1>2, <1>3 DEF Memory, Snapshot

(* The types, given what the relay has got.                                *)
LEMMA CommandTypes ==
  ASSUME BucketInv, NEW c \in Commands, Step(c), Bucketed(events')
  PROVE  TypeOK'
  <1>1. TypeOK /\ Bucketed(events) /\ clock \in Nat /\ DeviceOf[c] \in Devices
    BY SyncBounds DEF BucketInv, TypeOK
  <1>2. events' \subseteq Event /\ Cardinality(events') <= MaxEvents
    BY DEF Bucketed, Distinct
  <1>3. skew[DeviceOf[c]] \in Nat /\ memory[DeviceOf[c]] \in Memory /\ mem[c] \in Memory
    BY <1>1, SyncBounds DEF TypeOK
  <1>4. CASE \E id \in Ids : Start(c, id)
    <2>1. PICK id \in Ids : Start(c, id)
      BY <1>4
    <2> DEFINE m == memory[DeviceOf[c]]
               s == [known |-> m.known, profile |-> m.profile, updated |-> m.updated]
               e == [id |-> id, device |-> DeviceOf[c], created |-> clock + skew[DeviceOf[c]],
                     memory |-> s]
    <2>2. s \in Snapshot
      BY <1>3, MemoryTypes
    <2>3. event' = [event EXCEPT ![c] = {e}]
      BY <2>1 DEF Start
    <2> HIDE DEF s
    <2>4. e \in Event
      BY <1>1, <1>3, <2>2 DEF Event
    <2> HIDE DEF e
    <2> QED BY <1>1, <1>2, <1>3, <2>1, <2>3, <2>4 DEF Start, relayVars, TypeOK
  <1>5. CASE PutGet(c)
    <2>1. PICK e \in event[c] : event[c] = {e}
      BY <1>5 DEF PutGet, BucketInv
    <2>2. e \in Event
      BY <1>1 DEF TypeOK
    <2>3. UNION {Put(events, x, clock) : x \in event[c]} = Put(events, e, clock)
      BY <2>1
    <2>4. Put(events, e, clock) \subseteq Event
      BY <1>1, <2>2, PutKeeps DEF Bucketed, Distinct
    <2>5. seen' = [seen EXCEPT ![c] = Put(events, e, clock)]
      BY <1>5, <2>3 DEF PutGet
    <2> QED BY <1>1, <1>2, <1>5, <2>4, <2>5 DEF PutGet, relayVars, TypeOK
  <1>6. CASE PutCommit(c)
    BY <1>1, <1>2, <1>6 DEF PutCommit, Write, TypeOK
  <1>7. CASE ListBegin(c)
    BY <1>1, <1>2, <1>7 DEF ListBegin, relayVars, TypeOK
  <1>8. CASE \E limit \in Limits : ListGet(c, limit)
    <2>1. PICK limit \in Limits : ListGet(c, limit)
      BY <1>8
    <2> DEFINE live == Prune(events, now[c])
               P == Page(live, mem[c].cursor, limit)
               k == NextCursor(live, mem[c].cursor, limit)
               R == IF mem[c].cursor = None THEN live ELSE mem[c].round
    <2>2. now[c] \in Nat /\ limit \in Nat \ {0} /\ mem[c].cursor \in Cursor \union {None}
      BY <1>1, <1>3, SyncBounds DEF TypeOK, Memory
    <2>3. Bucketed(live) /\ live \subseteq Event
      BY <1>1, <2>2, PruneKeeps DEF Bucketed, Distinct
    <2> HIDE DEF live
    <2>4. P \subseteq Event /\ k \in Cursor \union {None} /\ [mem[c] EXCEPT !.round = R] \in Memory
      <3>1. P \subseteq Event /\ k \in Cursor \union {None}
        BY <2>2, <2>3, PageAndCursor
      <3>2. R \in SUBSET Event
        BY <1>3, <2>3 DEF Memory
      <3> HIDE DEF R
      <3> QED BY <1>3, <3>1, <3>2, MemoryTypes
    <2>5. /\ \/ at' = [at EXCEPT ![c] = "merge"] /\ UNCHANGED <<seen, base>>
             \/ /\ at' = [at EXCEPT ![c] = "pruned"]
                /\ seen' = [seen EXCEPT ![c] = live]
                /\ base' = [base EXCEPT ![c] = version]
          /\ now' = [now EXCEPT ![c] = 0]
          /\ page' = [page EXCEPT ![c] = P]
          /\ next' = [next EXCEPT ![c] = k]
          /\ mem' = [mem EXCEPT ![c] = [mem[c] EXCEPT !.round = R]]
          /\ UNCHANGED <<clock, skew, events, version, late, acked, memory, event, used, edits>>
      BY <1>1, <2>1 DEF ListGet, relayVars, live, TypeOK
    <2> HIDE DEF P, k, R
    <2>6. /\ at' \in [Commands -> {"idle", "put", "commit", "get", "list", "pruned", "merge"}]
          /\ seen' \in [Commands -> SUBSET Event] /\ base' \in [Commands -> Nat]
      BY <1>1, <2>3, <2>5 DEF TypeOK
    <2>7. /\ now' \in [Commands -> Nat] /\ page' \in [Commands -> SUBSET Event]
          /\ next' \in [Commands -> Cursor \union {None}] /\ mem' \in [Commands -> Memory]
      BY <1>1, <2>4, <2>5 DEF TypeOK
    <2> QED BY <1>1, <1>2, <2>5, <2>6, <2>7 DEF TypeOK
  <1>9. CASE ListCommit(c)
    BY <1>1, <1>2, <1>9 DEF ListCommit, Write, TypeOK
  <1>10. ASSUME Finish(c)
         PROVE  /\ at' \in [Commands -> {"idle", "put", "commit", "get", "list", "pruned", "merge"}]
                /\ mem' \in [Commands -> Memory]
                /\ event' \in [Commands -> SUBSET Event] /\ seen' \in [Commands -> SUBSET Event]
                /\ base' \in [Commands -> Nat] /\ now' \in [Commands -> Nat]
                /\ page' \in [Commands -> SUBSET Event]
                /\ next' \in [Commands -> Cursor \union {None}]
                /\ UNCHANGED <<clock, skew, used, edits>>
    BY <1>1, <1>10, MemoryTypes DEF Finish, TypeOK
  <1>11. CASE RequestFails(c) \/ Kill(c)
    <2>1. Finish(c) /\ UNCHANGED <<events, version, late, acked, memory>>
      BY <1>11 DEF RequestFails, Kill, relayVars
    <2> QED BY <1>1, <1>2, <1>10, <2>1 DEF TypeOK
  <1>12. CASE CommitTimesOut(c)
    <2>1. /\ Finish(c) /\ UNCHANGED <<events, version, acked, memory>>
          /\ late' = late \union {[base |-> base[c], events |-> seen[c]]}
      BY <1>12 DEF CommitTimesOut
    <2>2. late' \subseteq [base : Nat, events : SUBSET Event]
      BY <1>1, <2>1 DEF TypeOK
    <2> QED BY <1>1, <1>2, <1>10, <2>1, <2>2 DEF TypeOK
  <1>13. CASE \E e \in page[c] : MergeEvent(c, e)
    <2>1. PICK e \in page[c] : MergeEvent(c, e)
      BY <1>13
    <2>2. e.memory \in Snapshot
      BY <1>1 DEF TypeOK, Event
    <2>3. mem' \in [Commands -> Memory]
      BY <1>1, <1>3, <2>1, <2>2, MemoryTypes DEF MergeEvent, TypeOK
    <2> QED BY <1>1, <1>2, <2>1, <2>3 DEF MergeEvent, relayVars, TypeOK
  <1>14. CASE MergeWrite(c)
    <2>1. /\ Finish(c) /\ UNCHANGED <<events, version, late, acked>>
          /\ memory' = [memory EXCEPT ![DeviceOf[c]] = [mem[c] EXCEPT !.cursor = next[c]]]
      BY <1>14 DEF MergeWrite, relayVars
    <2>2. memory' \in [Devices -> Memory]
      BY <1>1, <1>3, <2>1, MemoryTypes DEF TypeOK
    <2> QED BY <1>1, <1>2, <1>10, <2>1, <2>2 DEF TypeOK
  <1> QED BY <1>4, <1>5, <1>6, <1>7, <1>8, <1>9, <1>11, <1>12, <1>13, <1>14 DEF Step

LEMMA InitBucketInv == Init => BucketInv
  <1> SUFFICES ASSUME Init PROVE BucketInv
    OBVIOUS
  <1>1. Bucketed({}) /\ Cardinality(events) <= MaxEvents
    BY StoreBounds, FS_EmptySet DEF Bucketed, Distinct, Init
  <1>2. memory \in [Devices -> Memory] /\ mem \in [Commands -> Memory]
    BY MemoryTypes DEF Init
  <1>3. TypeOK
    BY <1>1, <1>2, SyncBounds DEF Init, TypeOK
  <1>4. Writes = {}
    BY DEF Init, Writes
  <1>5. \A c \in Commands : now[c] <= clock /\ at[c] = "idle"
    BY DEF Init
  <1> QED BY <1>1, <1>3, <1>4, <1>5 DEF BucketInv, Init

(* A command that has something to upload has one event.                   *)
LEMMA OneUpload ==
  ASSUME BucketInv, Next
  PROVE  \A c \in Commands : /\ now'[c] <= clock'
                             /\ at'[c] \in {"put", "commit"} => \E e \in event'[c] : event'[c] = {e}
  <1>1. TypeOK /\ clock \in Nat
    BY SyncBounds DEF BucketInv, TypeOK
  <1>2. \A c \in Commands : /\ now[c] <= clock /\ now[c] \in Nat
                            /\ at[c] \in {"put", "commit"} => \E e \in event[c] : event[c] = {e}
    BY <1>1 DEF BucketInv, TypeOK
  <1>3. CASE Tick
    BY <1>1, <1>2, <1>3 DEF Tick
  <1>4. CASE \E d \in Devices, k \in Known, p \in Profiles : Edit(d, k, p)
    BY <1>2, <1>4 DEF Edit
  <1>5. CASE \E w \in late : LateCommit(w)
    BY <1>2, <1>5 DEF LateCommit
  <1>6. ASSUME NEW c \in Commands, Step(c), NEW k \in Commands
        PROVE  /\ now'[k] <= clock'
               /\ at'[k] \in {"put", "commit"} => \E e \in event'[k] : event'[k] = {e}
    <2>1. clock' = clock
      BY <1>6 DEF Step, Start, PutGet, PutCommit, ListBegin, ListGet, ListCommit, RequestFails,
                  CommitTimesOut, MergeEvent, MergeWrite, Kill, Finish
    <2>2. CASE k # c
      <3>1. now'[k] = now[k] /\ at'[k] = at[k] /\ event'[k] = event[k]
        BY <1>1, <1>6, <2>2 DEF TypeOK, Step, Start, PutGet, PutCommit, ListBegin, ListGet,
               ListCommit, RequestFails, CommitTimesOut, MergeEvent, MergeWrite, Kill, Finish
      <3> QED BY <1>2, <2>1, <3>1
    <2>3. CASE k = c
      <3>1. CASE \E id \in Ids : Start(c, id)
        <4>1. PICK e : event' = [event EXCEPT ![c] = {e}]
          BY <3>1 DEF Start
        <4>2. event'[c] = {e} /\ now'[c] = now[c]
          BY <1>1, <3>1, <4>1 DEF Start, TypeOK
        <4> QED BY <1>2, <2>1, <2>3, <4>2
      <3>2. CASE PutGet(c)
        BY <1>1, <1>2, <2>1, <2>3, <3>2 DEF PutGet, TypeOK
      <3>3. CASE PutCommit(c) \/ ListCommit(c)
        BY <1>1, <1>2, <2>1, <2>3, <3>3 DEF PutCommit, ListCommit, TypeOK
      <3>4. CASE ListBegin(c)
        BY <1>1, <1>2, <2>1, <2>3, <3>4 DEF ListBegin, TypeOK
      <3>5. CASE \E limit \in Limits : ListGet(c, limit)
        <4>1. now'[c] = 0 /\ at'[c] \in {"merge", "pruned"}
          BY <1>1, <3>5 DEF ListGet, TypeOK
        <4> QED BY <1>1, <2>1, <2>3, <4>1
      <3>6. CASE \E e \in page[c] : MergeEvent(c, e)
        BY <1>1, <1>2, <2>1, <2>3, <3>6 DEF MergeEvent, TypeOK
      <3>7. CASE Finish(c)
        BY <1>1, <1>2, <2>1, <2>3, <3>7 DEF Finish, TypeOK
      <3> QED BY <1>6, <3>1, <3>2, <3>3, <3>4, <3>5, <3>6, <3>7
              DEF Step, RequestFails, CommitTimesOut, MergeWrite, Kill
    <2> QED BY <2>2, <2>3
  <1> QED BY <1>3, <1>4, <1>5, <1>6 DEF Next

LEMMA NextKeepsBucketInv ==
  ASSUME BucketInv, [Next]_vars
  PROVE  BucketInv'
  <1>1. CASE vars' = vars
    BY <1>1 DEF vars, BucketInv, TypeOK, Writes
  <1>2. CASE Next
    <2>1. Bucketed(events') /\ \A w \in Writes' : Bucketed(w.events) /\ w.base <= version'
      BY <1>2, StepKinds, BucketsStay
    <2>2. TypeOK'
      <3>1. TypeOK /\ clock \in Nat /\ events' \subseteq Event /\ Cardinality(events') <= MaxEvents
        BY <2>1, SyncBounds DEF BucketInv, TypeOK, Bucketed, Distinct
      <3>2. CASE Tick
        BY <3>1, <3>2, SyncBounds DEF Tick, relayVars, TypeOK
      <3>3. CASE \E d \in Devices, k \in Known, p \in Profiles : Edit(d, k, p)
        <4>1. PICK d \in Devices, k \in Known, p \in Profiles : Edit(d, k, p)
          BY <3>3
        <4>2. memory[d] \in Memory /\ skew[d] \in Nat /\ clock + skew[d] \in Nat
          <5>1. memory[d] \in Memory /\ skew[d] \in Skews
            BY <3>1 DEF TypeOK
          <5>2. skew[d] \in Nat
            BY <5>1, SyncBounds
          <5>3. clock \in Nat
            BY <3>1
          <5> QED BY ONLY <5>1, <5>2, <5>3
        <4> DEFINE m == [memory[d] EXCEPT !.known = k, !.profile = p,
                                          !.updated = clock + skew[d], !.round = {}]
        <4>3. m \in Memory
          BY <4>2, MemoryTypes
        <4>4. memory' = [memory EXCEPT ![d] = m]
          BY <3>1, <4>1 DEF Edit, TypeOK
        <4> HIDE DEF m
        <4>5. memory' \in [Devices -> Memory]
          BY <3>1, <4>3, <4>4 DEF TypeOK
        <4> QED BY <3>1, <4>1, <4>5, SyncBounds DEF Edit, relayVars, TypeOK
      <3>4. CASE \E c \in Commands : Step(c)
        BY <2>1, <3>4, CommandTypes
      <3>5. CASE \E w \in late : LateCommit(w)
        BY <3>1, <3>5 DEF LateCommit, Write, TypeOK
      <3> QED BY <1>2, <3>2, <3>3, <3>4, <3>5 DEF Next
    <2> QED BY <1>2, <2>1, <2>2, OneUpload DEF BucketInv
  <1> QED BY <1>1, <1>2

(* The types of the bucket, the memory files and the running commands, and *)
(* the limit of the bucket: whatever is stored, and whatever a delayed     *)
(* commit may yet store, has at most MAX_ACTIVITY_EVENTS events.           *)
THEOREM ActivityTypeCorrect == Spec => []TypeOK
  <1>1. BucketInv => TypeOK
    BY DEF BucketInv
  <1> QED BY <1>1, InitBucketInv, NextKeepsBucketInv, PTL DEF Spec

-----------------------------------------------------------------------------
(* Ids.                                                                    *)

(* What is in the hands of the commands that a step does not concern.      *)
LEMMA RoundsMove ==
  ASSUME BucketInv, Next
  PROVE  Rounds' \subseteq Rounds \union events
  <1>1. TypeOK /\ Bucketed(events)
    BY DEF BucketInv
  <1>2. /\ \A d \in Devices : memory[d].round \subseteq Rounds
        /\ \A c \in Commands : mem[c].round \subseteq Rounds
    <2> DEFINE F == {memory[x].round : x \in Devices}
               M == {mem[x].round : x \in Commands}
    <2>1. /\ \A d \in Devices : memory[d].round \in F
          /\ \A c \in Commands : mem[c].round \in M
      OBVIOUS
    <2>2. Rounds = (UNION F) \union (UNION M)
      BY DEF Rounds
    <2> HIDE DEF F, M
    <2>3. (\A X \in F : X \subseteq Rounds) /\ (\A X \in M : X \subseteq Rounds)
      BY <2>2
    <2> QED BY <2>1, <2>3
  <1>3. /\ \A d \in Devices : memory'[d].round \subseteq Rounds \union events
        /\ \A c \in Commands : mem'[c].round \subseteq Rounds \union events
    <2>1. CASE Tick \/ \E w \in late : LateCommit(w)
      BY <1>2, <2>1 DEF Tick, LateCommit
    <2>2. CASE \E d \in Devices, k \in Known, p \in Profiles : Edit(d, k, p)
      <3>1. PICK d \in Devices, k \in Known, p \in Profiles : Edit(d, k, p)
        BY <2>2
      <3>2. memory'[d].round = {} /\ \A x \in Devices \ {d} : memory'[x] = memory[x]
        BY <1>1, <3>1 DEF Edit, TypeOK, Memory
      <3> QED BY <1>2, <3>1, <3>2 DEF Edit
    <2>3. ASSUME NEW c \in Commands, Step(c)
          PROVE  /\ \A d \in Devices : memory'[d].round \subseteq Rounds \union events
                 /\ \A k \in Commands : mem'[k].round \subseteq Rounds \union events
      <3>1. DeviceOf[c] \in Devices /\ mem[c] \in Memory
        BY <1>1, SyncBounds DEF TypeOK
      <3>2. CASE \E id \in Ids : Start(c, id)
        BY <1>1, <1>2, <3>1, <3>2 DEF Start, TypeOK
      <3>3. CASE PutGet(c) \/ PutCommit(c) \/ ListBegin(c) \/ ListCommit(c)
        BY <1>2, <3>3 DEF PutGet, PutCommit, ListBegin, ListCommit
      <3>4. CASE \E limit \in Limits : ListGet(c, limit)
        <4>1. memory' = memory /\ \E R : /\ mem' = [mem EXCEPT ![c].round = R]
                                         /\ R \in {Prune(events, now[c]), mem[c].round}
          BY <1>1, <3>4 DEF ListGet, TypeOK
        <4>2. PICK R : mem' = [mem EXCEPT ![c].round = R] /\ R \in {Prune(events, now[c]), mem[c].round}
          BY <4>1
        <4>3. R \subseteq Rounds \union events
          BY <1>2, <4>2 DEF Prune
        <4>4. mem'[c].round = R /\ \A k \in Commands \ {c} : mem'[k] = mem[k]
          BY <1>1, <3>1, <4>2 DEF TypeOK, Memory
        <4> QED BY <1>2, <4>1, <4>3, <4>4
      <3>5. ASSUME Finish(c) PROVE \A k \in Commands : mem'[k].round \subseteq Rounds
        <4>1. mem'[c] = Blank /\ \A k \in Commands \ {c} : mem'[k] = mem[k]
          BY <1>1, <3>5 DEF Finish, TypeOK
        <4>2. Blank.round = {}
          BY DEF Blank, Fresh
        <4> QED BY <1>2, <4>1, <4>2
      <3>6. CASE RequestFails(c) \/ CommitTimesOut(c) \/ Kill(c)
        BY <1>2, <3>5, <3>6 DEF RequestFails, CommitTimesOut, Kill
      <3>7. CASE \E e \in page[c] : MergeEvent(c, e)
        <4>1. PICK e \in page[c] : MergeEvent(c, e)
          BY <3>7
        <4>2. mem'[c].round = mem[c].round /\ \A k \in Commands \ {c} : mem'[k] = mem[k]
          <5>1. MergeOne(mem[c], e.memory).round = mem[c].round
            BY <3>1 DEF MergeOne, Memory
          <5> QED BY <1>1, <4>1, <5>1 DEF MergeEvent, TypeOK
        <4> QED BY <1>2, <4>1, <4>2 DEF MergeEvent
      <3>8. CASE MergeWrite(c)
        <4>1. /\ memory'[DeviceOf[c]].round = mem[c].round
              /\ \A d \in Devices \ {DeviceOf[c]} : memory'[d] = memory[d]
          <5>1. [mem[c] EXCEPT !.cursor = next[c]].round = mem[c].round
            BY <3>1 DEF Memory
          <5> QED BY <1>1, <3>1, <3>8, <5>1 DEF MergeWrite, TypeOK
        <4> QED BY <1>2, <3>5, <3>8, <4>1 DEF MergeWrite
      <3> QED BY <2>3, <3>2, <3>3, <3>4, <3>6, <3>7, <3>8 DEF Step
    <2> QED BY <2>1, <2>2, <2>3 DEF Next
  <1> QED BY <1>3 DEF Rounds

(* A step starts an upload with a new id, or leaves the uploads as they    *)
(* are, but for those that end.                                            *)
LEMMA UploadsMove ==
  ASSUME BucketInv, Next
  PROVE  \/ \E c \in Commands, id \in Ids \ used : \E e \in Event :
               /\ e.id = id /\ used' = used \union {id}
               /\ at[c] = "idle" /\ event'[c] = {e}
               /\ \A k \in Commands \ {c} : event'[k] = event[k] /\ at'[k] = at[k]
               /\ Quiet
         \/ /\ used' = used
            /\ \A k \in Commands : event'[k] \subseteq event[k]
            /\ \A k \in Commands : at'[k] = "put" => at[k] = "put" /\ event'[k] = event[k]
  <1>1. TypeOK
    BY DEF BucketInv
  <1>2. CASE \/ Tick
             \/ \E d \in Devices, k \in Known, p \in Profiles : Edit(d, k, p)
             \/ \E w \in late : LateCommit(w)
    BY <1>2 DEF Tick, Edit, LateCommit
  <1>3. ASSUME NEW c \in Commands, NEW id \in Ids, Start(c, id)
        PROVE  \E e \in Event :
               /\ e.id = id /\ used' = used \union {id} /\ id \notin used
               /\ at[c] = "idle" /\ event'[c] = {e}
               /\ \A k \in Commands \ {c} : event'[k] = event[k] /\ at'[k] = at[k]
               /\ Quiet
    <2>1. PICK e : e.id = id /\ event' = [event EXCEPT ![c] = {e}]
      BY <1>3 DEF Start
    <2>2. event'[c] = {e} /\ \A k \in Commands \ {c} : event'[k] = event[k] /\ at'[k] = at[k]
      BY <1>1, <1>3, <2>1 DEF Start, TypeOK
    <2>3. RelayMoves /\ Quiet
      BY <1>1, <1>3, QuietSteps DEF RelayMoves
    <2>4. TypeOK'
      BY <1>3, <2>3, BucketsStay, CommandTypes DEF Step
    <2>5. e \in Event
      BY <2>2, <2>4 DEF TypeOK
    <2> QED BY <1>3, <2>1, <2>2, <2>3, <2>5 DEF Start
  <1>4. ASSUME NEW c \in Commands, Step(c), ~\E id \in Ids : Start(c, id)
        PROVE  /\ used' = used
               /\ \A k \in Commands : event'[k] \subseteq event[k]
               /\ \A k \in Commands : at'[k] = "put" => at[k] = "put" /\ event'[k] = event[k]
    <2>1. CASE PutGet(c) \/ ListBegin(c) \/ ListCommit(c)
      BY <1>1, <2>1 DEF PutGet, ListBegin, ListCommit, TypeOK
    <2>2. CASE PutCommit(c)
      BY <1>1, <2>2 DEF PutCommit, TypeOK
    <2>3. CASE \E limit \in Limits : ListGet(c, limit)
      <3>1. /\ event' = event /\ used' = used
            /\ at'[c] \in {"merge", "pruned"} /\ \A k \in Commands \ {c} : at'[k] = at[k]
        BY <1>1, <2>3 DEF ListGet, TypeOK
      <3> QED BY <3>1
    <2>4. CASE \E e \in page[c] : MergeEvent(c, e)
      BY <2>4 DEF MergeEvent
    <2>5. CASE Finish(c)
      BY <1>1, <2>5 DEF Finish, TypeOK
    <2> QED BY <1>4, <2>1, <2>2, <2>3, <2>4, <2>5
            DEF Step, RequestFails, CommitTimesOut, MergeWrite, Kill
  <1>5. CASE \E c \in Commands, id \in Ids : Start(c, id)
    <2>1. PICK c \in Commands, id \in Ids : Start(c, id)
      BY <1>5
    <2>2. id \in Ids \ used
      BY <2>1 DEF Start
    <2> QED BY <1>3, <2>1, <2>2
  <1>6. CASE ~\E c \in Commands, id \in Ids : Start(c, id)
    BY <1>2, <1>4, <1>6 DEF Next
  <1> QED BY <1>5, <1>6

LEMMA RelayedMoves ==
  ASSUME BucketInv, Next
  PROVE  \/ Relayed' \subseteq Relayed
         \/ \E c \in Commands : PutGet(c) /\ Relayed' \subseteq Relayed \union event[c]
  <1>1. Rounds' \subseteq Relayed
    BY RoundsMove DEF Relayed
  <1>2. \A w \in Writes : w.events \subseteq Relayed
    BY DEF Relayed
  <1>3. events \subseteq Relayed
    BY DEF Relayed
  <1>4. ASSUME NEW X, events' \subseteq X, Rounds' \subseteq X, \A w \in Writes' : w.events \subseteq X
        PROVE  Relayed' \subseteq X
    BY <1>4 DEF Relayed
  <1>5. CASE Quiet
    BY <1>1, <1>2, <1>3, <1>4, <1>5 DEF Quiet
  <1>6. CASE \E t \in Nat : t <= clock /\ Prepares(Prune(events, t))
    <2>1. PICK t \in Nat : Prepares(Prune(events, t))
      BY <1>6
    <2>2. Prune(events, t) \subseteq events
      BY DEF Prune
    <2>3. \A w \in Writes' : w.events \subseteq Relayed
      BY <1>2, <1>3, <2>1, <2>2 DEF Prepares
    <2> QED BY <1>1, <1>3, <1>4, <2>1, <2>3 DEF Prepares
  <1>7. CASE \E c \in Commands : \E e \in event[c] :
                PutGet(c) /\ event[c] = {e} /\ Prepares(Put(events, e, clock))
    <2>1. PICK c \in Commands : \E e \in event[c] :
                PutGet(c) /\ event[c] = {e} /\ Prepares(Put(events, e, clock))
      BY <1>7
    <2>2. PICK e \in event[c] : PutGet(c) /\ event[c] = {e} /\ Prepares(Put(events, e, clock))
      BY <2>1
    <2>3. e \in Event /\ Bucketed(events) /\ clock \in Nat
      BY SyncBounds DEF BucketInv, TypeOK
    <2>4. Put(events, e, clock) \subseteq Relayed \union event[c]
      BY <1>3, <2>2, <2>3, PutKeeps
    <2>5. \A w \in Writes' : w.events \subseteq Relayed \union event[c]
      BY <1>2, <2>2, <2>4 DEF Prepares
    <2>6. Relayed' \subseteq Relayed \union event[c]
      BY <1>1, <1>3, <1>4, <2>2, <2>5 DEF Prepares
    <2> QED BY <2>2, <2>6
  <1>8. CASE \E w \in Writes : Applies(w)
    BY <1>1, <1>2, <1>4, <1>8 DEF Applies
  <1> QED BY <1>5, <1>6, <1>7, <1>8, StepKinds DEF RelayMoves

LEMMA NextKeepsIdsInv ==
  ASSUME BucketInv, IdsInv, [Next]_vars
  PROVE  IdsInv'
  <1>1. CASE vars' = vars
    BY <1>1 DEF vars, IdsInv, Relayed, Rounds, Writes
  <1>2. CASE Next
    <2>1. /\ \A e \in Relayed : e.id \in used
          /\ \A c \in Commands : \A e \in event[c] : e.id \in used
          /\ \A c \in Commands : at[c] = "put" =>
                \A e \in event[c] :
                   /\ \A f \in Relayed : f.id # e.id
                   /\ \A k \in Commands \ {c} : \A f \in event[k] : f.id # e.id
      BY DEF IdsInv
    <2>2. CASE \E c \in Commands, id \in Ids \ used : \E e \in Event :
               /\ e.id = id /\ used' = used \union {id}
               /\ at[c] = "idle" /\ event'[c] = {e}
               /\ \A k \in Commands \ {c} : event'[k] = event[k] /\ at'[k] = at[k]
               /\ Quiet
      <3>1. PICK c \in Commands, id \in Ids \ used : \E e \in Event :
               /\ e.id = id /\ used' = used \union {id}
               /\ at[c] = "idle" /\ event'[c] = {e}
               /\ \A k \in Commands \ {c} : event'[k] = event[k] /\ at'[k] = at[k]
               /\ Quiet
        BY <2>2
      <3>2. PICK e \in Event :
               /\ e.id = id /\ used' = used \union {id}
               /\ at[c] = "idle" /\ event'[c] = {e}
               /\ \A k \in Commands \ {c} : event'[k] = event[k] /\ at'[k] = at[k]
               /\ Quiet
        BY <3>1
      <3>3. Relayed' \subseteq Relayed
        <4>1. Rounds' \subseteq Relayed /\ events' \subseteq Relayed
          BY <1>2, <3>2, RoundsMove DEF Relayed, Quiet
        <4>2. \A w \in Writes' : w.events \subseteq Relayed
          BY <3>2 DEF Relayed, Quiet
        <4> QED BY <4>1, <4>2 DEF Relayed
      <3>4. \A f \in Relayed' : f.id \in used
        BY <2>1, <3>3
      <3>5. \A k \in Commands \ {c} : \A f \in event'[k] : f.id \in used
        BY <2>1, <3>2
      <3>6. \A f \in Relayed' : f.id \in used'
        BY <3>2, <3>4
      <3>7. \A k \in Commands : \A f \in event'[k] : f.id \in used'
        BY <3>2, <3>5
      <3>8. ASSUME NEW k \in Commands, at'[k] = "put", NEW f \in event'[k]
            PROVE  /\ \A g \in Relayed' : g.id # f.id
                   /\ \A j \in Commands \ {k} : \A g \in event'[j] : g.id # f.id
        <4>1. CASE k = c
          BY <3>2, <3>4, <3>5, <3>8, <4>1
        <4>2. CASE k # c
          <5>1. at[k] = "put" /\ f \in event[k] /\ f.id \in used
            BY <2>1, <3>2, <3>8, <4>2
          <5>2. \A g \in Relayed' : g.id # f.id
            BY <2>1, <3>3, <5>1
          <5>3. ASSUME NEW j \in Commands \ {k}, NEW g \in event'[j] PROVE g.id # f.id
            BY <2>1, <3>2, <5>1, <5>3
          <5> QED BY <5>2, <5>3
        <4> QED BY <4>1, <4>2
      <3> QED BY <3>6, <3>7, <3>8 DEF IdsInv
    <2>3. CASE /\ used' = used
               /\ \A k \in Commands : event'[k] \subseteq event[k]
               /\ \A k \in Commands : at'[k] = "put" => at[k] = "put" /\ event'[k] = event[k]
      <3>1. \A k \in Commands : \A f \in event'[k] : f.id \in used'
        BY <2>1, <2>3
      <3>2. \A f \in Relayed' : f.id \in used'
        BY <1>2, <2>1, <2>3, RelayedMoves
      <3>3. ASSUME NEW k \in Commands, at'[k] = "put", NEW f \in event'[k]
            PROVE  /\ \A g \in Relayed' : g.id # f.id
                   /\ \A j \in Commands \ {k} : \A g \in event'[j] : g.id # f.id
        <4>1. at[k] = "put" /\ f \in event[k]
          BY <2>3, <3>3
        <4>2. \A j \in Commands \ {k} : \A g \in event'[j] : g.id # f.id
          BY <2>1, <2>3, <4>1
        <4>3. ASSUME NEW c \in Commands, PutGet(c) PROVE c # k
          <5>1. at'[c] = "commit"
            BY <4>3 DEF PutGet, BucketInv, TypeOK
          <5> QED BY <3>3, <5>1
        <4>4. \A g \in Relayed' : g.id # f.id
          BY <1>2, <2>1, <4>1, <4>3, RelayedMoves
        <4> QED BY <4>2, <4>4
      <3> QED BY <3>1, <3>2, <3>3 DEF IdsInv
    <2> QED BY <1>2, <2>2, <2>3, UploadsMove
  <1> QED BY <1>1, <1>2

LEMMA InitIdsInv == Init => IdsInv
  <1> SUFFICES ASSUME Init PROVE IdsInv
    OBVIOUS
  <1>1. Writes = {} /\ events = {}
    BY DEF Init, Writes
  <1>2. Blank.round = {} /\ \A p \in Profiles : Fresh(p).round = {}
    BY DEF Blank, Fresh
  <1>3. Rounds = {}
    BY <1>2 DEF Init, Rounds
  <1>4. Relayed = {}
    BY <1>1, <1>3 DEF Relayed
  <1> QED BY <1>4 DEF Init, IdsInv

-----------------------------------------------------------------------------
(* Acknowledged events.                                                    *)

(* An upload is acknowledged when its bucket is committed.                 *)
LEMMA AckedMoves ==
  ASSUME BucketInv, Next
  PROVE  /\ clock \in Nat /\ clock' \in Nat /\ clock <= clock'
         /\ acked \subseteq Event
         /\ \/ acked' = acked
            \/ \E c \in Commands : PutCommit(c) /\ acked' = acked \union event[c] /\ clock' = clock
  <1>1. TypeOK /\ clock \in Nat
    BY SyncBounds DEF BucketInv, TypeOK
  <1>2. clock' = clock \/ clock' = clock + 1
    BY DEF Next, Tick, Edit, LateCommit, Step, Start, PutGet, PutCommit, ListBegin, ListGet, ListCommit,
           RequestFails, CommitTimesOut, MergeEvent, MergeWrite, Kill, Finish
  <1>3. \/ acked' = acked
        \/ \E c \in Commands : PutCommit(c) /\ acked' = acked \union event[c] /\ clock' = clock
    BY DEF Next, Tick, Edit, LateCommit, Step, Start, PutGet, PutCommit, ListBegin, ListGet, ListCommit,
           RequestFails, CommitTimesOut, MergeEvent, MergeWrite, Kill, relayVars
  <1> QED BY <1>1, <1>2, <1>3 DEF TypeOK

LEMMA KeptLater ==
  ASSUME NEW e \in Event, NEW S, NEW s \in Nat, NEW t \in Nat, s <= t, KeptIn(e, S, s)
  PROVE  KeptIn(e, S, t)
  <1>1. ExpiresAt(e) \in Nat
    BY StoreBounds DEF Event, ExpiresAt
  <1> QED BY <1>1 DEF KeptIn

(* A command that waits for its commit has read the bucket just now, or    *)
(* is as it was.                                                           *)
LEMMA CommitsMove ==
  ASSUME BucketInv, Next, NEW k \in Commands, at'[k] = "commit"
  PROVE  \/ PutGet(k)
         \/ /\ at[k] = "commit" /\ base'[k] = base[k] /\ seen'[k] = seen[k] /\ event'[k] = event[k]
            /\ ~PutCommit(k)
  <1>1. TypeOK
    BY DEF BucketInv
  <1>2. CASE \/ Tick
             \/ \E d \in Devices, x \in Known, p \in Profiles : Edit(d, x, p)
             \/ \E w \in late : LateCommit(w)
    BY <1>1, <1>2 DEF Tick, Edit, LateCommit, PutCommit, TypeOK
  <1>3. ASSUME NEW c \in Commands, Step(c), c # k
        PROVE  /\ at[k] = "commit" /\ base'[k] = base[k] /\ seen'[k] = seen[k] /\ event'[k] = event[k]
    BY <1>1, <1>3 DEF Step, Start, PutGet, PutCommit, ListBegin, ListGet, ListCommit, RequestFails,
                      CommitTimesOut, MergeEvent, MergeWrite, Kill, Finish, TypeOK
  <1>4. ASSUME Step(k) PROVE PutGet(k)
    <2>1. CASE \E limit \in Limits : ListGet(k, limit)
      <3>1. at'[k] \in {"merge", "pruned"}
        BY <1>1, <2>1 DEF ListGet, TypeOK
      <3> QED BY <3>1
    <2>2. CASE \E e \in page[k] : MergeEvent(k, e)
      BY <2>2 DEF MergeEvent
    <2>3. CASE \/ \E id \in Ids : Start(k, id)
               \/ PutCommit(k) \/ ListBegin(k) \/ ListCommit(k)
      BY <1>1, <2>3 DEF Start, PutCommit, ListBegin, ListCommit, TypeOK
    <2>4. CASE Finish(k)
      BY <1>1, <2>4 DEF Finish, TypeOK
    <2> QED BY <1>4, <2>1, <2>2, <2>3, <2>4 DEF Step, RequestFails, CommitTimesOut, MergeWrite, Kill
  <1>5. ~PutCommit(k)
    BY <1>1 DEF PutCommit, TypeOK
  <1> QED BY <1>2, <1>3, <1>4, <1>5 DEF Next

(* What the relay does with an upload, whose id is new to it.              *)
LEMMA UploadIsPut ==
  ASSUME BucketInv, IdsInv, NEW c \in Commands, PutGet(c)
  PROVE  \E e \in Event :
            /\ event[c] = {e} /\ event'[c] = {e} /\ e \notin Rounds
            /\ seen'[c] = Put(events, e, clock) /\ clock' = clock
            /\ Prepares(Put(events, e, clock))
            /\ Put(events, e, clock) \subseteq events \union {e}
            /\ KeptIn(e, Put(events, e, clock), clock)
            /\ \A f \in Event : KeptIn(f, events, clock) => KeptIn(f, Put(events, e, clock), clock)
  <1>1. TypeOK /\ Bucketed(events) /\ clock \in Nat /\ at[c] = "put"
    BY SyncBounds DEF BucketInv, TypeOK, PutGet
  <1>2. PICK e \in event[c] : event[c] = {e}
    BY <1>1 DEF BucketInv
  <1>3. e \in Event
    BY <1>1 DEF TypeOK
  <1>4. UNION {Put(events, x, clock) : x \in event[c]} = Put(events, e, clock)
    BY <1>2
  <1>5. Prepares(Put(events, e, clock))
    BY <1>1, <1>4, WritingSteps
  <1>6. event'[c] = {e} /\ seen'[c] = Put(events, e, clock) /\ clock' = clock
    BY <1>1, <1>2, <1>4 DEF PutGet, TypeOK
  <1>7. \A x \in Relayed : x.id # e.id
    BY <1>1, <1>2 DEF IdsInv
  <1>8. e \notin Rounds /\ \A x \in events : x.id # e.id
    BY <1>7 DEF Relayed
  <1>9. /\ Put(events, e, clock) \subseteq events \union {e}
        /\ KeptIn(e, Put(events, e, clock), clock)
        /\ \A f \in Event : KeptIn(f, events, clock) => KeptIn(f, Put(events, e, clock), clock)
    BY <1>1, <1>3, <1>8, PutKeeps
  <1> QED BY <1>2, <1>3, <1>5, <1>6, <1>8, <1>9

LEMMA NextKeepsKeptInv ==
  ASSUME BucketInv, IdsInv, KeptInv, [Next]_vars
  PROVE  KeptInv'
  <1>1. CASE vars' = vars
    BY <1>1 DEF vars, KeptInv, Writes
  <1>2. CASE Next
    <2>1. /\ clock \in Nat /\ clock' \in Nat /\ clock <= clock'
          /\ acked \subseteq Event
          /\ \/ acked' = acked
             \/ \E c \in Commands : PutCommit(c) /\ acked' = acked \union event[c] /\ clock' = clock
      BY <1>2, AckedMoves
    <2>2. /\ TypeOK /\ version \in Nat /\ Bucketed(events)
          /\ \A w \in Writes : w.base <= version /\ w.base \in Nat
          /\ \A c \in Commands : at[c] = "commit" => base[c] <= version /\ base[c] \in Nat
      <3>1. TypeOK /\ version \in Nat /\ Bucketed(events)
        BY DEF BucketInv, TypeOK
      <3>2. \A w \in Writes : w.base <= version /\ w.base \in Nat
        BY DEF BucketInv, TypeOK, Writes
      <3>3. \A c \in Commands : at[c] = "commit" => [base |-> base[c], events |-> seen[c]] \in Writes
        BY WritesAre
      <3> QED BY <3>1, <3>2, <3>3
    <2>3. acked' \subseteq Event
      BY <1>2, NextKeepsBucketInv DEF BucketInv, TypeOK
    <2>4. \A e \in Event : \A S : KeptIn(e, S, clock) => KeptIn(e, S, clock')
      BY <2>1, KeptLater
    <2>5. CASE events' = events /\ version' = version
      <3>1. acked' = acked
        <4>1. ASSUME NEW c \in Commands, PutCommit(c) PROVE FALSE
          <5>1. version' = version + 1
            BY <4>1 DEF PutCommit, Write
          <5> QED BY <2>2, <2>5, <5>1
        <4> QED BY <2>1, <4>1
      <3>2. \A e \in acked' : KeptIn(e, events', clock')
        BY <2>1, <2>4, <2>5, <3>1 DEF KeptInv
      <3>3. ASSUME NEW w \in Writes', w.base = version', NEW e \in acked'
            PROVE  KeptIn(e, w.events, clock')
        <4>1. e \in Event /\ e \in acked /\ KeptIn(e, events, clock)
          BY <2>1, <3>1 DEF KeptInv
        <4>2. CASE w \in Writes
          BY <2>4, <2>5, <3>3, <4>1, <4>2 DEF KeptInv
        <4>3. CASE w \notin Writes /\ \E t \in Nat : t <= clock /\ Prepares(Prune(events, t))
          <5>1. PICK t \in Nat : t <= clock /\ w.events = Prune(events, t)
            BY <4>3 DEF Prepares
          <5>2. KeptIn(e, Prune(events, t), clock)
            BY <2>1, <2>2, <4>1, <5>1, PruneKeeps
          <5> QED BY <2>4, <4>1, <5>1, <5>2
        <4>4. CASE w \notin Writes /\ \E c \in Commands : PutGet(c)
          <5>1. PICK c \in Commands : PutGet(c)
            BY <4>4
          <5>2. PICK x \in Event :
                   /\ Prepares(Put(events, x, clock))
                   /\ \A f \in Event : KeptIn(f, events, clock) => KeptIn(f, Put(events, x, clock), clock)
            BY <5>1, UploadIsPut
          <5>3. w.events = Put(events, x, clock)
            BY <4>4, <5>2 DEF Prepares
          <5> QED BY <2>4, <4>1, <5>2, <5>3
        <4>5. ASSUME NEW x \in Writes, Applies(x) PROVE FALSE
          BY <2>2, <2>5, <4>5 DEF Applies
        <4> QED BY <1>2, <4>2, <4>3, <4>4, <4>5, StepKinds DEF RelayMoves, Quiet
      <3>4. ASSUME NEW k \in Commands, at'[k] = "commit", base'[k] = version', NEW e \in event'[k]
            PROVE  KeptIn(e, seen'[k], clock')
        <4>1. CASE PutGet(k)
          BY <3>4, <4>1, UploadIsPut
        <4>2. CASE ~PutGet(k)
          <5>1. /\ at[k] = "commit" /\ base[k] = version /\ seen'[k] = seen[k] /\ e \in event[k]
                /\ e \in Event
            BY <1>2, <2>2, <2>5, <3>4, <4>2, CommitsMove DEF TypeOK
          <5>2. KeptIn(e, seen[k], clock)
            BY <5>1 DEF KeptInv
          <5> QED BY <2>4, <5>1, <5>2
        <4> QED BY <4>1, <4>2
      <3> QED BY <2>3, <3>2, <3>3, <3>4 DEF KeptInv
    <2>6. CASE \E w \in Writes : Applies(w)
      <3>1. PICK w \in Writes : Applies(w)
        BY <2>6
      <3>2. /\ w.base = version /\ events' = w.events /\ version' = version + 1
            /\ Writes' \subseteq Writes
        BY <3>1 DEF Applies
      <3>3. \A e \in acked : KeptIn(e, events', clock)
        BY <3>2 DEF KeptInv
      <3>4. ASSUME NEW c \in Commands, PutCommit(c), NEW e \in event[c]
            PROVE  KeptIn(e, events', clock)
        <4>1. at[c] = "commit" /\ base[c] = version /\ events' = seen[c]
          BY <3>4 DEF PutCommit, PreconditionHolds, Write
        <4> QED BY <3>4, <4>1 DEF KeptInv
      <3>5. \A e \in acked' : KeptIn(e, events', clock')
        BY <2>1, <2>3, <2>4, <3>3, <3>4
      <3>6. \A x \in Writes' : x.base # version'
        BY <2>2, <3>2
      <3>7. ASSUME NEW k \in Commands, at'[k] = "commit", base'[k] = version' PROVE FALSE
        <4>1. CASE PutGet(k)
          <5>1. version' = version
            BY <4>1 DEF PutGet, relayVars
          <5> QED BY <2>2, <3>2, <5>1
        <4>2. CASE ~PutGet(k)
          <5>1. at[k] = "commit" /\ base'[k] = base[k]
            BY <1>2, <3>7, <4>2, CommitsMove
          <5> QED BY <2>2, <3>2, <3>7, <5>1
        <4> QED BY <4>1, <4>2
      <3> QED BY <2>3, <3>5, <3>6, <3>7 DEF KeptInv
    <2> QED BY <1>2, <2>5, <2>6, StepKinds DEF RelayMoves, Quiet, Prepares
  <1> QED BY <1>1, <1>2

(* An upload that was answered stays stored until it expires or the bucket *)
(* is full of newer events, whatever other commands upload or prune in the *)
(* meantime, and whichever commits arrive late: a commit is applied to the *)
(* bucket it was made from or not at all.                                  *)
THEOREM AckedEventsAreKept == Spec => []AckedEventsKept
  <1>1. Init => KeptInv
    BY DEF Init, KeptInv, Writes
  <1>2. KeptInv => AckedEventsKept
    BY DEF KeptInv, KeptIn, AckedEventsKept
  <1> QED BY <1>1, <1>2, InitBucketInv, NextKeepsBucketInv, InitIdsInv, NextKeepsIdsInv,
             NextKeepsKeptInv, PTL DEF Spec

-----------------------------------------------------------------------------
(* Rounds of pages.                                                        *)

Still(k) ==
    /\ at'[k] = at[k] /\ mem'[k] = mem[k] /\ seen'[k] = seen[k] /\ base'[k] = base[k]
    /\ page'[k] = page[k] /\ next'[k] = next[k]

LEMMA OthersStay ==
  ASSUME TypeOK, Next, NEW k \in Commands
  PROVE  Step(k) \/ Still(k)
  <1>1. CASE \/ Tick
             \/ \E d \in Devices, x \in Known, p \in Profiles : Edit(d, x, p)
             \/ \E w \in late : LateCommit(w)
    BY <1>1 DEF Tick, Edit, LateCommit, Still
  <1>2. ASSUME NEW c \in Commands, Step(c), c # k PROVE Still(k)
    <2>1. CASE \/ \E id \in Ids : Start(c, id)
               \/ PutGet(c) \/ PutCommit(c) \/ ListBegin(c) \/ ListCommit(c)
               \/ \E e \in page[c] : MergeEvent(c, e)
      BY <1>2, <2>1 DEF Start, PutGet, PutCommit, ListBegin, ListCommit, MergeEvent, Still, TypeOK
    <2>2. CASE \E limit \in Limits : ListGet(c, limit)
      BY <1>2, <2>2 DEF ListGet, Still, TypeOK
    <2>3. CASE Finish(c)
      BY <1>2, <2>3 DEF Finish, Still, TypeOK
    <2> QED BY <1>2, <2>1, <2>2, <2>3 DEF Step, RequestFails, CommitTimesOut, MergeWrite, Kill
  <1> QED BY <1>1, <1>2 DEF Next

(* A memory covers its round the better, the fewer events are stored.      *)
LEMMA CoversFewer ==
  ASSUME NEW m, NEW d, NEW S, NEW T, NEW P, NEW k, \A e \in T : e \in m.round => e \in S
  PROVE  /\ Covers(m, d, S) => Covers(m, d, T)
         /\ CoversWith(m, d, S, P, k) => CoversWith(m, d, T, P, k)
  BY DEF Covers, CoversWith

(* An event in a round never comes back to the bucket.                     *)
LEMMA RoundsStayBehind ==
  ASSUME BucketInv, IdsInv, RoundInv, Next
  PROVE  /\ \A e \in events' : e \in Rounds => e \in events
         /\ \A w \in Writes' : w.base = version' => \A e \in w.events \ events' : e \notin Rounds'
  <1>1. /\ version \in Nat
        /\ \A w \in Writes : w.base <= version /\ w.base \in Nat
    <2>1. version \in Nat
      BY DEF BucketInv, TypeOK
    <2>2. \A w \in Writes : w.base <= version /\ w.base \in Nat
      BY DEF BucketInv, TypeOK, Writes
    <2> QED BY <2>1, <2>2
  <1>2. Rounds' \subseteq Rounds \union events
    BY RoundsMove
  <1>3. \A w \in Writes : w.base = version => \A e \in w.events \ events : e \notin Rounds
    BY DEF RoundInv
  <1>4. CASE Quiet
    BY <1>2, <1>3, <1>4 DEF Quiet
  <1>5. CASE \E t \in Nat : t <= clock /\ Prepares(Prune(events, t))
    <2>1. PICK t \in Nat : Prepares(Prune(events, t))
      BY <1>5
    <2>2. Prune(events, t) \subseteq events
      BY DEF Prune
    <2> QED BY <1>2, <1>3, <2>1, <2>2 DEF Prepares
  <1>6. CASE \E c \in Commands : PutGet(c)
    <2>1. PICK c \in Commands : PutGet(c)
      BY <1>6
    <2>2. PICK x \in Event :
             /\ x \notin Rounds
             /\ Prepares(Put(events, x, clock))
             /\ Put(events, x, clock) \subseteq events \union {x}
      BY <2>1, UploadIsPut
    <2> QED BY <1>2, <1>3, <2>2 DEF Prepares
  <1>7. CASE \E w \in Writes : Applies(w)
    <2>1. PICK w \in Writes : Applies(w)
      BY <1>7
    <2>2. \A x \in Writes' : x.base # version'
      BY <1>1, <2>1 DEF Applies
    <2>3. \A e \in events' : e \in Rounds => e \in events
      BY <1>3, <2>1 DEF Applies
    <2> QED BY <2>2, <2>3
  <1> QED BY <1>4, <1>5, <1>6, <1>7, StepKinds DEF RelayMoves

(* A page with its cursor covers what the memory does not yet.             *)
LEMMA ListingCovers ==
  ASSUME BucketInv, NEW c \in Commands, NEW limit \in Limits, ListGet(c, limit),
         Covers(mem[c], DeviceOf[c], events)
  PROVE  CoversWith(mem'[c], DeviceOf[c], Prune(events, now[c]), page'[c], next'[c])
  <1> DEFINE live == Prune(events, now[c])
             k == mem[c].cursor
             P == Page(live, k, limit)
             n == NextCursor(live, k, limit)
  <1>1. TypeOK /\ Bucketed(events) /\ now[c] \in Nat /\ mem[c] \in Memory
    BY DEF BucketInv, TypeOK
  <1>2. k \in Cursor \union {None} /\ limit \in Nat \ {0}
    BY <1>1, SyncBounds DEF Memory
  <1>3. live \subseteq events /\ Bucketed(live)
    BY <1>1, PruneKeeps
  <1>4. \E R : /\ mem' = [mem EXCEPT ![c].round = R]
               /\ R = IF k = None THEN live ELSE mem[c].round
    BY <1>1 DEF ListGet, TypeOK
  <1>5. page'[c] = P /\ next'[c] = n
    BY <1>1 DEF ListGet, TypeOK
  <1>6. /\ mem'[c].known = mem[c].known
        /\ mem'[c].round = IF k = None THEN live ELSE mem[c].round
    <2>1. PICK R : mem' = [mem EXCEPT ![c].round = R] /\ R = IF k = None THEN live ELSE mem[c].round
      BY <1>4
    <2>2. mem'[c].known = mem[c].known /\ mem'[c].round = R
      BY <1>1, <2>1 DEF TypeOK, Memory
    <2> QED BY <2>1, <2>2
  <1> HIDE DEF live
  <1>7. \A e \in live : k = None \/ After(e, k) => e \in P \/ (n # None /\ After(e, n))
    BY <1>2, <1>3, PageAndCursor
  <1> HIDE DEF P, n
  <1>8. ASSUME NEW e \in mem'[c].round \intersect live
        PROVE  \/ e.device = DeviceOf[c]
               \/ n # None /\ After(e, n)
               \/ e \in P
               \/ \A x \in Entries : e.memory.known[x] <= mem'[c].known[x]
    <2>1. CASE k = None
      BY <1>7, <2>1
    <2>2. CASE k # None
      <3>1. e \in mem[c].round \intersect events
        BY <1>3, <1>6, <2>2
      <3>2. \/ e.device = DeviceOf[c]
            \/ After(e, k)
            \/ \A x \in Entries : e.memory.known[x] <= mem[c].known[x]
        BY <3>1 DEF Covers
      <3> QED BY <1>6, <1>7, <3>2
    <2> QED BY <2>1, <2>2
  <1> QED BY <1>5, <1>8 DEF CoversWith, live

(* Merging an event covers it, and keeps what was covered.                 *)
LEMMA MergingCovers ==
  ASSUME BucketInv, NEW c \in Commands, NEW e \in page[c], MergeEvent(c, e),
         CoversWith(mem[c], DeviceOf[c], events, page[c], next[c])
  PROVE  CoversWith(mem'[c], DeviceOf[c], events, page'[c], next'[c])
  <1>1. TypeOK /\ mem[c] \in Memory /\ e \in Event /\ events \subseteq Event
    BY DEF BucketInv, TypeOK
  <1>2. /\ page'[c] = page[c] \ {e} /\ next'[c] = next[c]
        /\ mem'[c] = IF e.device = DeviceOf[c] THEN mem[c] ELSE MergeOne(mem[c], e.memory)
    BY <1>1 DEF MergeEvent, TypeOK
  <1>3. e.memory.known \in [Entries -> Nat] /\ mem[c].known \in [Entries -> Nat]
    BY <1>1, StoreBounds DEF Event, Snapshot, Memory, Known
  <1>4. /\ MergeOne(mem[c], e.memory).round = mem[c].round
        /\ MergeOne(mem[c], e.memory).known = NewestEntries(mem[c].known, e.memory.known)
    BY <1>1 DEF MergeOne, Memory
  <1>5. \A x \in Entries :
           /\ NewestEntries(mem[c].known, e.memory.known)[x] \in Nat
           /\ mem[c].known[x] <= NewestEntries(mem[c].known, e.memory.known)[x]
           /\ e.memory.known[x] <= NewestEntries(mem[c].known, e.memory.known)[x]
    BY <1>3 DEF NewestEntries
  <1>6. /\ mem'[c].round = mem[c].round
        /\ \A x \in Entries : mem'[c].known[x] \in Nat /\ mem[c].known[x] <= mem'[c].known[x]
        /\ e.device = DeviceOf[c] \/ \A x \in Entries : e.memory.known[x] <= mem'[c].known[x]
    BY <1>2, <1>3, <1>4, <1>5
  <1>7. ASSUME NEW f \in mem'[c].round \intersect events
        PROVE  \/ f.device = DeviceOf[c]
               \/ next'[c] # None /\ After(f, next'[c])
               \/ f \in page'[c]
               \/ \A x \in Entries : f.memory.known[x] <= mem'[c].known[x]
    <2>1. f.memory.known \in [Entries -> Nat]
      BY <1>1, StoreBounds DEF Event, Snapshot, Known
    <2>2. \/ f.device = DeviceOf[c]
          \/ next[c] # None /\ After(f, next[c])
          \/ f \in page[c]
          \/ \A x \in Entries : f.memory.known[x] <= mem[c].known[x]
      BY <1>6 DEF CoversWith
    <2>3. ASSUME \A x \in Entries : f.memory.known[x] <= mem[c].known[x]
          PROVE  \A x \in Entries : f.memory.known[x] <= mem'[c].known[x]
      BY <1>3, <1>6, <2>1, <2>3
    <2> QED BY <1>2, <1>6, <2>2, <2>3
  <1> QED BY <1>7 DEF CoversWith

(* What RoundInv says of one command.                                      *)
CommandCovers(k) ==
    /\ at[k] \in {"put", "commit", "get", "list"} => Covers(mem[k], DeviceOf[k], events)
    /\ at[k] = "pruned" /\ base[k] = version =>
          CoversWith(mem[k], DeviceOf[k], seen[k], page[k], next[k])
    /\ at[k] = "merge" => CoversWith(mem[k], DeviceOf[k], events, page[k], next[k])

LEMMA CommandsKeepCovering ==
  ASSUME BucketInv, IdsInv, RoundInv, Next, NEW k \in Commands
  PROVE  CommandCovers(k)'
  <1>1. TypeOK /\ version \in Nat /\ base[k] \in Nat /\ DeviceOf[k] \in Devices
    BY SyncBounds DEF BucketInv, TypeOK
  <1>2. CommandCovers(k)
    BY DEF RoundInv, CommandCovers
  <1>3. \A e \in events' : e \in mem[k].round => e \in events
    <2>1. mem[k].round \in {mem[c].round : c \in Commands}
      OBVIOUS
    <2>2. mem[k].round \subseteq Rounds
      BY <2>1 DEF Rounds
    <2> QED BY <2>2, RoundsStayBehind
  <1>4. CASE Still(k)
    <2>1. ASSUME at[k] = "pruned", base[k] = version' PROVE base[k] = version
      <3>1. [base |-> base[k], events |-> seen[k]] \in Writes
        BY <2>1, WritesAre
      <3>2. base[k] <= version
        BY <3>1 DEF BucketInv
      <3>3. version' = version \/ version' = version + 1
        BY StepKinds DEF RelayMoves, Quiet, Prepares, Applies
      <3> QED BY <1>1, <2>1, <3>2, <3>3
    <2>2. /\ Covers(mem[k], DeviceOf[k], events) => Covers(mem[k], DeviceOf[k], events')
          /\ CoversWith(mem[k], DeviceOf[k], events, page[k], next[k]) =>
                CoversWith(mem[k], DeviceOf[k], events', page[k], next[k])
      BY <1>3, CoversFewer
    <2> QED BY <1>2, <1>4, <2>1, <2>2 DEF Still, CommandCovers
  <1>5. CASE \E id \in Ids : Start(k, id)
    <2>1. at'[k] = "put" /\ mem'[k] = memory[DeviceOf[k]] /\ events' = events
      BY <1>1, <1>5 DEF Start, relayVars, TypeOK
    <2>2. Covers(memory[DeviceOf[k]], DeviceOf[k], events)
      BY <1>1 DEF RoundInv
    <2> QED BY <2>1, <2>2 DEF CommandCovers
  <1>6. CASE PutGet(k) \/ PutCommit(k) \/ ListBegin(k)
    <2>1. /\ at[k] \in {"put", "commit", "get", "list"}
          /\ at'[k] \in {"put", "commit", "get", "list"} /\ mem'[k] = mem[k]
      BY <1>1, <1>6 DEF PutGet, PutCommit, ListBegin, TypeOK
    <2>2. Covers(mem[k], DeviceOf[k], events')
      BY <1>2, <1>3, <2>1, CoversFewer DEF CommandCovers
    <2> QED BY <2>1, <2>2 DEF CommandCovers
  <1>7. CASE \E limit \in Limits : ListGet(k, limit)
    <2>1. PICK limit \in Limits : ListGet(k, limit)
      BY <1>7
    <2>2. CoversWith(mem'[k], DeviceOf[k], Prune(events, now[k]), page'[k], next'[k])
      BY <1>2, <2>1, ListingCovers DEF ListGet, CommandCovers
    <2>3. /\ events' = events
          /\ \/ at'[k] = "merge" /\ Prune(events, now[k]) = events
             \/ at'[k] = "pruned" /\ seen'[k] = Prune(events, now[k])
      BY <1>1, <2>1 DEF ListGet, relayVars, TypeOK
    <2> QED BY <2>2, <2>3 DEF CommandCovers
  <1>8. CASE ListCommit(k)
    <2>1. /\ at[k] = "pruned" /\ base[k] = version /\ at'[k] = "merge" /\ events' = seen[k]
          /\ mem'[k] = mem[k] /\ page'[k] = page[k] /\ next'[k] = next[k]
      BY <1>1, <1>8 DEF ListCommit, PreconditionHolds, Write, TypeOK
    <2> QED BY <1>2, <2>1 DEF CommandCovers
  <1>9. CASE \E e \in page[k] : MergeEvent(k, e)
    <2>1. PICK e \in page[k] : MergeEvent(k, e)
      BY <1>9
    <2>2. at[k] = "merge" /\ at'[k] = "merge" /\ events' = events
      BY <2>1 DEF MergeEvent, relayVars
    <2>3. CoversWith(mem'[k], DeviceOf[k], events, page'[k], next'[k])
      BY <1>2, <2>1, <2>2, MergingCovers DEF CommandCovers
    <2> QED BY <2>2, <2>3 DEF CommandCovers
  <1>10. CASE Finish(k)
    <2>1. at'[k] = "idle"
      BY <1>1, <1>10 DEF Finish, TypeOK
    <2> QED BY <2>1 DEF CommandCovers
  <1>11. CASE Step(k)
    BY <1>5, <1>6, <1>7, <1>8, <1>9, <1>10, <1>11
       DEF Step, RequestFails, CommitTimesOut, MergeWrite, Kill
  <1> QED BY <1>1, <1>4, <1>11, OthersStay

LEMMA MemoriesKeepCovering ==
  ASSUME BucketInv, IdsInv, RoundInv, Next, NEW d \in Devices
  PROVE  Covers(memory'[d], d, events')
  <1>1. TypeOK /\ memory[d] \in Memory
    BY DEF BucketInv, TypeOK
  <1>2. Covers(memory[d], d, events')
    <2>1. memory[d].round \in {memory[x].round : x \in Devices}
      OBVIOUS
    <2>2. memory[d].round \subseteq Rounds
      BY <2>1 DEF Rounds
    <2>3. \A e \in events' : e \in memory[d].round => e \in events
      BY <2>2, RoundsStayBehind
    <2> QED BY <2>3, CoversFewer DEF RoundInv
  <1>3. CASE memory'[d] = memory[d]
    BY <1>2, <1>3
  <1>4. CASE \E x \in Known, p \in Profiles : Edit(d, x, p)
    <2>1. memory'[d].round = {}
      BY <1>1, <1>4 DEF Edit, TypeOK, Memory
    <2> QED BY <2>1 DEF Covers
  <1>5. ASSUME NEW c \in Commands, MergeWrite(c), DeviceOf[c] = d
        PROVE  Covers(memory'[d], d, events')
    <2>1. mem[c] \in Memory /\ at[c] = "merge" /\ page[c] = {} /\ events' = events
      BY <1>1, <1>5 DEF MergeWrite, relayVars, TypeOK
    <2>2. memory'[d] = [mem[c] EXCEPT !.cursor = next[c]]
      BY <1>1, <1>5 DEF MergeWrite, TypeOK
    <2>3. /\ memory'[d].round = mem[c].round /\ memory'[d].known = mem[c].known
          /\ memory'[d].cursor = next[c]
      BY <2>1, <2>2 DEF Memory
    <2>4. CoversWith(mem[c], d, events, {}, next[c])
      BY <1>5, <2>1 DEF RoundInv
    <2> QED BY <2>1, <2>3, <2>4 DEF Covers, CoversWith
  <1>6. \/ memory'[d] = memory[d]
        \/ \E x \in Known, p \in Profiles : Edit(d, x, p)
        \/ \E c \in Commands : MergeWrite(c) /\ DeviceOf[c] = d
    <2>1. ASSUME NEW y \in Devices, NEW x \in Known, NEW p \in Profiles, Edit(y, x, p), y # d
          PROVE  memory'[d] = memory[d]
      BY <1>1, <2>1 DEF Edit, TypeOK
    <2>2. ASSUME NEW c \in Commands, MergeWrite(c), DeviceOf[c] # d
          PROVE  memory'[d] = memory[d]
      BY <1>1, <2>2 DEF MergeWrite, TypeOK
    <2>3. ASSUME NEW c \in Commands, Step(c), ~MergeWrite(c) PROVE memory' = memory
      BY <2>3 DEF Step, Start, PutGet, PutCommit, ListBegin, ListGet, ListCommit, RequestFails,
                  CommitTimesOut, MergeEvent, Kill
    <2>4. CASE Tick \/ \E w \in late : LateCommit(w)
      BY <2>4 DEF Tick, LateCommit
    <2> QED BY <2>1, <2>2, <2>3, <2>4 DEF Next
  <1> QED BY <1>3, <1>4, <1>5, <1>6

LEMMA NextKeepsRoundInv ==
  ASSUME BucketInv, IdsInv, RoundInv, [Next]_vars
  PROVE  RoundInv'
  <1>1. CASE vars' = vars
    BY <1>1 DEF vars, RoundInv, Writes, Rounds, Covers, CoversWith
  <1>2. CASE Next
    <2>1. \A w \in Writes' : w.base = version' => \A e \in w.events \ events' : e \notin Rounds'
      BY <1>2, RoundsStayBehind
    <2>2. \A d \in Devices : Covers(memory'[d], d, events')
      BY <1>2, MemoriesKeepCovering
    <2>3. \A k \in Commands : CommandCovers(k)'
      BY <1>2, CommandsKeepCovering
    <2> QED BY <2>1, <2>2, <2>3 DEF RoundInv, CommandCovers
  <1> QED BY <1>1, <1>2

(* The cursor of a memory file never gets past an event that the file has  *)
(* not taken in: an event of another device that was stored when the round *)
(* of pages began and is stored still is after the cursor, or its entries  *)
(* are in the file, or newer ones.  For any number of commands that        *)
(* overlap on a device, any page sizes, any edits, failures and late       *)
(* commits.                                                                *)
THEOREM RoundsAreCovered == Spec => []RoundCoversBucket
  <1>1. Init => RoundInv
    <2> SUFFICES ASSUME Init PROVE RoundInv
      OBVIOUS
    <2>1. \A d \in Devices : Covers(memory[d], d, events)
      BY DEF Init, Covers
    <2> QED BY <2>1 DEF Init, RoundInv, Writes
  <1>2. RoundInv => RoundCoversBucket
    BY DEF RoundInv, Covers, RoundCoversBucket
  <1> QED BY <1>1, <1>2, InitBucketInv, NextKeepsBucketInv, InitIdsInv, NextKeepsIdsInv,
             NextKeepsRoundInv, PTL DEF Spec

-----------------------------------------------------------------------------
(* Publish search.                                                         *)

(* What a search of the whole directory would show.                        *)
Fits(id, tag) == records[id] # NoRecord /\ records[id].listed /\ Matches(records[id].tags, tag)

(* A visit starts with nothing; a search has one tag; discover shows no    *)
(* pages.                                                                  *)
VisitInv ==
    /\ SearchTypeOK
    /\ mode = "search" => Len(query) = 1
    /\ mode # "search" => cursor = FirstPage
    /\ mode = "none" => found = {}
    /\ cursor = FirstPage => pages = <<>>

(* The cursor is at the end of what is shown, and counts it.               *)
PagesInv ==
    /\ PagesDescend
    /\ IsFiniteSet(Shown)
    /\ Cardinality(Shown) <= Window
    /\ cursor \in SearchCursor =>
          /\ Cardinality(Shown) = cursor.seen
          /\ \A v \in Shown : ~OlderThanCursor(v, cursor)

(* A steady record that fits is shown, or still to come.                   *)
Due(v) ==
    \/ v \in Shown
    \/ cursor = FirstPage
    \/ cursor \in SearchCursor /\ OlderThanCursor(v, cursor)
    \/ cursor = End /\ Cardinality(Shown) >= Window

DueInv ==
    mode = "search" =>
        \A id \in steady : Fits(id, query[1]) => Due(AsVersion(id))

(* A record that discover should find, and one that it has found or has    *)
(* still to ask for.                                                       *)
Wanted(id) ==
    /\ Fits(id, AnyTag)
    /\ Asked = {} \/ AsVersion(id).tags \intersect Asked # {}

Pending(id) ==
    \/ AsVersion(id) \in found
    \/ \E i \in DOMAIN todo : Matches(AsVersion(id).tags, todo[i])

(* Ids tell apart what was found, and no steady record is missed that was  *)
(* not cut.                                                                *)
FoundInv ==
    /\ IsFiniteSet(found)
    /\ \A v, w \in found : v.id = w.id => v = w
    /\ mode = "discover" =>
          /\ want \in Nat \ {0}
          /\ \A id \in steady \ cut : Wanted(id) => Pending(id)
    /\ DiscoverFindsBest

(* Versions of records that their ids tell apart.                          *)
Apart(S) ==
    /\ S \subseteq Version
    /\ IsFiniteSet(S)
    /\ \A v, w \in S : v.id = w.id => v = w

Above(S) == [v \in S |-> {w \in S : Newer(w, v)}]

LEMMA NewerIsAnOrder ==
  /\ \A v \in Version : ~Newer(v, v)
  /\ \A u, v, w \in Version : Newer(u, v) /\ Newer(v, w) => Newer(u, w)
  /\ \A v, w \in Version : v.id # w.id => Newer(v, w) \/ Newer(w, v)
  <1>1. \A v \in Version : v.created \in Nat /\ v.id \in Nat
    BY SearchBounds DEF Version
  <1> QED BY <1>1 DEF Newer

LEMMA ApartParts ==
  ASSUME NEW S, Apart(S), NEW T, T \subseteq S
  PROVE  Apart(T)
  BY FS_Subset DEF Apart

LEMMA VersionsAreOrdered ==
  ASSUME NEW S, Apart(S)
  PROVE  Ordered(S, Above(S))
  <1>1. S \subseteq Version /\ \A v, w \in S : v # w => v.id # w.id
    BY DEF Apart
  <1>2. Above(S) \in [S -> SUBSET S]
    BY DEF Above
  <1>3. \A v, w \in S : w \in Above(S)[v] <=> Newer(w, v)
    BY DEF Above
  <1>4. \A v, w \in S : w \in Above(S)[v] => Above(S)[w] \subseteq Above(S)[v]
    BY <1>1, <1>2, <1>3, NewerIsAnOrder
  <1> QED BY <1>1, <1>2, <1>3, <1>4, NewerIsAnOrder DEF Ordered

(* The newest n of a directory: as many, or all there are, and above the   *)
(* rest.                                                                   *)
LEMMA NewestAre ==
  ASSUME NEW S, Apart(S), NEW n \in Nat
  PROVE  /\ Newest(S, n) \subseteq S
         /\ Apart(Newest(S, n))
         /\ Cardinality(Newest(S, n)) \in Nat /\ Cardinality(Newest(S, n)) <= n
         /\ Newest(S, n) # S => Cardinality(Newest(S, n)) = n
         /\ \A v \in Newest(S, n), w \in S \ Newest(S, n) : Newer(v, w)
  <1>1. IsFiniteSet(S) /\ Ordered(S, Above(S))
    BY VersionsAreOrdered DEF Apart
  <1>2. Newest(S, n) = Leading(S, Above(S), n)
    BY DEF Newest, Leading, Above
  <1>3. /\ Cardinality(Newest(S, n)) \in Nat /\ Cardinality(Newest(S, n)) <= n
        /\ Newest(S, n) # S => Cardinality(Newest(S, n)) = n
    BY <1>1, <1>2, LeadingSize
  <1>4. /\ Newest(S, n) \subseteq S
        /\ \A v \in Newest(S, n), w \in S \ Newest(S, n) : v \in Above(S)[w]
    BY <1>1, <1>2, LeadingIsClosed
  <1>5. \A v \in Newest(S, n), w \in S \ Newest(S, n) : Newer(v, w)
    BY <1>4 DEF Above
  <1> QED BY <1>3, <1>4, <1>5, ApartParts

(* Fewer of the newest are the newest.                                     *)
LEMMA NewestNested ==
  ASSUME NEW S, Apart(S), NEW n \in Nat, NEW m \in Nat, m <= n
  PROVE  Newest(Newest(S, n), m) = Newest(S, m)
  <1> DEFINE L == Newest(S, n)
  <1>1. L \subseteq S
    BY DEF Newest
  <1>2. ASSUME NEW v \in L PROVE {w \in L : Newer(w, v)} = {w \in S : Newer(w, v)}
    <2>1. Ordered(S, Above(S)) /\ IsFiniteSet(S)
      BY VersionsAreOrdered DEF Apart
    <2>2. L = Leading(S, Above(S), n)
      BY DEF Newest, Leading, Above
    <2>3. Above(S)[v] \subseteq L
      BY <2>1, <2>2, LeadingIsClosed
    <2>4. Above(S)[v] = {w \in S : Newer(w, v)}
      BY <1>1 DEF Above
    <2> QED BY <1>1, <2>3, <2>4
  <1>3. ASSUME NEW v \in S PROVE Cardinality({w \in S : Newer(w, v)}) \in Nat
    <2>1. IsFiniteSet(S) /\ {w \in S : Newer(w, v)} \subseteq S
      BY DEF Apart
    <2> QED BY <2>1, SubsetSize
  <1>4. ASSUME NEW v \in S, Cardinality({w \in S : Newer(w, v)}) < m PROVE v \in L
    BY <1>3, <1>4 DEF Newest
  <1>5. \A v \in L : v \in Newest(L, m) <=> Cardinality({w \in S : Newer(w, v)}) < m
    BY <1>2 DEF Newest
  <1>6. \A v : v \in Newest(S, m) <=> v \in S /\ Cardinality({w \in S : Newer(w, v)}) < m
    BY DEF Newest
  <1>7. Newest(L, m) \subseteq L
    BY DEF Newest
  <1> HIDE DEF L
  <1>8. Newest(L, m) = Newest(S, m)
    BY <1>1, <1>4, <1>5, <1>6, <1>7
  <1> QED BY <1>8 DEF L

(* The order of pages: what NotBelow a cursor comes before what is below   *)
(* it.                                                                     *)
LEMMA CursorDivides ==
  ASSUME NEW c \in SearchCursor
  PROVE  \A v, w \in Version : ~OlderThanCursor(v, c) /\ OlderThanCursor(w, c) => Newer(v, w)
  <1>1. c.created \in Nat /\ c.id \in Nat
    BY SearchBounds DEF SearchCursor
  <1>2. \A v \in Version : v.created \in Nat /\ v.id \in Nat
    BY SearchBounds DEF Version
  <1> QED BY <1>1, <1>2 DEF OlderThanCursor, Newer

(* page_from_ordered_tail on a tail S: the page is the newest of it; the   *)
(* next cursor counts what was seen and divides the page from the rest;    *)
(* without one there is no rest, or the window is full.                    *)
LEMMA PageOfTail ==
  ASSUME NEW S, Apart(S), NEW limit \in Nat \ {0}, NEW before \in 0 .. Window - 1
  PROVE  LET a == PageFromTail(S, limit, before) IN
         /\ a.page \subseteq S
         /\ Cardinality(a.page) \in Nat /\ before + Cardinality(a.page) <= Window
         /\ a.next \in SearchCursor \union {End}
         /\ a.next # End => /\ a.page # {} /\ a.next.seen = before + Cardinality(a.page)
                            /\ \A v \in a.page : ~OlderThanCursor(v, a.next)
                            /\ \A v \in S \ a.page : OlderThanCursor(v, a.next)
         /\ a.next = End => a.page = S \/ before + Cardinality(a.page) >= Window
  <1> DEFINE size == PageLimit(limit, before)
             candidates == Newest(S, size + 1)
             P == Newest(S, size)
             count == before + Cardinality(P)
             last == CHOOSE v \in P : \A w \in P \ {v} : Newer(w, v)
             nxt == IF HasMore(Cardinality(candidates) > size, count)
                    THEN [created |-> last.created, id |-> last.id, seen |-> count]
                    ELSE End
  <1>1. Window \in Nat \ {0} /\ before \in Nat /\ before < Window
    BY SearchBounds
  <1>2. size \in Nat \ {0} /\ before + size <= Window
    BY <1>1 DEF PageLimit
  <1>3. Newest(candidates, size) = P
    <2> HIDE DEF size
    <2>1. size \in Nat /\ size + 1 \in Nat /\ size <= size + 1
      BY <1>2
    <2> QED BY <2>1, NewestNested
  <1>4. PageFromTail(S, limit, before) = [page |-> P, next |-> nxt]
    BY <1>3 DEF PageFromTail
  <1>5. PageFromTail(S, limit, before).page = P /\ PageFromTail(S, limit, before).next = nxt
    BY <1>4
  <1>6. /\ P \subseteq S /\ Apart(P)
        /\ Cardinality(P) \in Nat /\ Cardinality(P) <= size
        /\ P # S => Cardinality(P) = size
        /\ \A v \in P, w \in S \ P : Newer(v, w)
    BY <1>2, NewestAre
  <1>7. /\ candidates \subseteq S
        /\ Cardinality(candidates) \in Nat
        /\ candidates # S => Cardinality(candidates) = size + 1
    <2> HIDE DEF size
    <2>1. size + 1 \in Nat
      BY <1>2
    <2> QED BY <2>1, NewestAre
  <1> HIDE DEF size, candidates, P
  <1>8. count \in Nat /\ count <= Window
    BY <1>1, <1>2, <1>6
  <1>9. CASE Cardinality(candidates) > size /\ count < Window
    <2>1. nxt = [created |-> last.created, id |-> last.id, seen |-> count]
      BY <1>9 DEF HasMore
    <2>2. P # S
      BY <1>2, <1>6, <1>7, <1>9, SubsetSize DEF Apart
    <2>3. P # {} /\ count # 0
      <3>1. Cardinality(P) = size
        BY <1>6, <2>2
      <3>2. Cardinality({}) = 0
        BY FS_EmptySet
      <3> QED BY <1>1, <1>2, <3>1, <3>2
    <2>4. IsFiniteSet(P) /\ Ordered(P, Above(P))
      BY <1>6, VersionsAreOrdered DEF Apart
    <2>5. \E v \in P : \A w \in P \ {v} : w \in Above(P)[v]
      BY <2>3, <2>4, LastOf
    <2>6. \E v \in P : \A w \in P \ {v} : Newer(w, v)
      BY <2>5 DEF Above
    <2>7. last \in P /\ \A w \in P \ {last} : Newer(w, last)
      BY <2>6
    <2> HIDE DEF last
    <2>8. last \in Version /\ P \subseteq Version /\ S \subseteq Version
      BY <1>6, <2>7 DEF Apart
    <2>9. last.created \in Times /\ last.id \in PublishIds
      BY <2>8 DEF Version
    <2>10. count \in 1 .. Window - 1
      BY <1>1, <1>8, <1>9, <2>3
    <2>11. nxt \in SearchCursor
      BY <2>1, <2>9, <2>10 DEF SearchCursor
    <2>12. /\ nxt.created = last.created /\ nxt.id = last.id /\ nxt.seen = count
      BY <2>1
    <2> HIDE DEF nxt, count
    <2>13. \A v \in Version : v.created \in Nat /\ v.id \in Nat
      BY SearchBounds DEF Version
    <2>14. \A v \in P : ~OlderThanCursor(v, nxt)
      BY <2>7, <2>8, <2>12, <2>13 DEF OlderThanCursor, Newer
    <2>15. \A v \in S \ P : OlderThanCursor(v, nxt)
      BY <1>6, <2>7, <2>8, <2>12, <2>13 DEF OlderThanCursor, Newer
    <2>16. nxt # End
      BY <2>11, MarkersAreFresh
    <2> QED BY <1>5, <1>6, <1>8, <2>3, <2>11, <2>12, <2>14, <2>15, <2>16 DEF count
  <1>10. CASE ~(Cardinality(candidates) > size /\ count < Window)
    <2>1. nxt = End
      BY <1>10 DEF HasMore
    <2>2. P = S \/ count >= Window
      <3>1. CASE count < Window
        <4>1. ~(Cardinality(candidates) > size)
          BY <1>10, <3>1
        <4>2. candidates = S
          BY <1>2, <1>7, <4>1
        <4>3. ASSUME P # S PROVE FALSE
          <5>1. Cardinality(P) < Cardinality(S) /\ Cardinality(P) = size
            BY <1>6, <4>3, SubsetSize DEF Apart
          <5> QED BY <4>1, <4>2, <5>1
        <4> QED BY <4>3
      <3> QED BY <1>1, <1>8, <3>1
    <2> QED BY <1>5, <1>6, <1>8, <2>1, <2>2
  <1> QED BY <1>9, <1>10

-----------------------------------------------------------------------------
(* What the stores answer.                                                 *)

LEMMA ListedAre ==
  ASSUME SearchTypeOK, NEW tag
  PROVE  /\ \A id \in PublishIds : Fits(id, tag) => /\ AsVersion(id) \in Listed(tag)
                                                     /\ AsVersion(id) \in Version
                                                     /\ AsVersion(id).id = id
         /\ \A v \in Listed(tag) : v.id \in PublishIds /\ Fits(v.id, tag) /\ v = AsVersion(v.id)
         /\ Apart(Listed(tag))
  <1> DEFINE I == {id \in PublishIds : Fits(id, tag)}
             f == [id \in I |-> AsVersion(id)]
  <1>1. Listed(tag) = {AsVersion(id) : id \in I}
    BY DEF Listed, Fits
  <1>2. \A id \in PublishIds : AsVersion(id).id = id
    BY DEF AsVersion
  <1>3. ASSUME NEW id \in I PROVE AsVersion(id) \in Version
    <2>1. records[id] \in Record
      BY <1>3 DEF SearchTypeOK, Fits
    <2> QED BY <1>3, <2>1 DEF AsVersion, Record, Version
  <1>4. \A v \in Listed(tag) : v.id \in I /\ v = AsVersion(v.id)
    BY <1>1, <1>2
  <1>5. I \subseteq PublishIds /\ IsFiniteSet(I)
    BY SearchBounds, FS_Subset
  <1>6. f \in Surjection(I, Listed(tag))
    BY <1>1 DEF Surjection
  <1>7. IsFiniteSet(Listed(tag))
    <2> HIDE DEF I, f
    <2> QED BY <1>5, <1>6, FS_Surjection
  <1>8. Apart(Listed(tag))
    BY <1>3, <1>4, <1>7 DEF Apart
  <1> QED BY <1>1, <1>2, <1>3, <1>4, <1>8

(* Firestore's answer to the query for one record more is a tail like the  *)
(* file's: both stores give the same pages.                                *)
LEMMA StoresAgree ==
  ASSUME SearchTypeOK, NEW tag, NEW limit \in Nat \ {0}, NEW c \in SearchCursor \union {FirstPage}
  PROVE  /\ Apart(OrderedTail(tag, c))
         /\ SeenBefore(c) \in 0 .. Window - 1
         /\ FileSearch(tag, limit, c) = PageFromTail(OrderedTail(tag, c), limit, SeenBefore(c))
         /\ FirestoreSearch(tag, limit, c) = PageFromTail(OrderedTail(tag, c), limit, SeenBefore(c))
  <1> DEFINE S == OrderedTail(tag, c)
             before == SeenBefore(c)
             size == PageLimit(limit, before)
  <1>1. S \subseteq Listed(tag)
    BY DEF OrderedTail
  <1>2. Apart(S)
    BY <1>1, ListedAre, ApartParts
  <1>3. Window \in Nat \ {0}
    BY SearchBounds
  <1>4. before \in 0 .. Window - 1
    BY <1>3, MarkersAreFresh DEF SeenBefore, SearchCursor
  <1> HIDE DEF S, before
  <1>5. size \in Nat \ {0} /\ PageLimit(size, before) = size
    BY <1>3, <1>4 DEF PageLimit
  <1> HIDE DEF size
  <1>6. Newest(Newest(S, size + 1), size + 1) = Newest(S, size + 1)
    <2>1. size + 1 \in Nat /\ size + 1 <= size + 1
      BY <1>5
    <2> QED BY <1>2, <2>1, NewestNested
  <1>7. PageFromTail(Newest(S, size + 1), size, before) = PageFromTail(S, limit, before)
    BY <1>5, <1>6 DEF PageFromTail, size
  <1>8. FirestoreSearch(tag, limit, c) = PageFromTail(Newest(S, size + 1), size, before)
    BY <1>5 DEF FirestoreSearch, RunQuery, S, before, size
  <1> QED BY <1>2, <1>4, <1>7, <1>8 DEF FileSearch, S, before

(* What the answer to a search is, said of the directory.                  *)
Answers(a, tag, c) ==
    /\ a.page \subseteq Listed(tag) /\ a.page \subseteq Version /\ IsFiniteSet(a.page)
    /\ c # FirstPage => \A v \in a.page : OlderThanCursor(v, c)
    /\ Cardinality(a.page) \in Nat /\ SeenBefore(c) + Cardinality(a.page) <= Window
    /\ a.next \in SearchCursor \union {End}
    /\ a.next # End => /\ a.page # {} /\ a.next.seen = SeenBefore(c) + Cardinality(a.page)
                       /\ \A v \in a.page : ~OlderThanCursor(v, a.next)
    /\ \A v \in Listed(tag) : c = FirstPage \/ OlderThanCursor(v, c) =>
          \/ v \in a.page
          \/ a.next # End /\ OlderThanCursor(v, a.next)
          \/ a.next = End /\ SeenBefore(c) + Cardinality(a.page) >= Window

LEMMA SearchAnswers ==
  ASSUME SearchTypeOK, NEW tag, NEW limit \in Nat \ {0}, NEW c \in SearchCursor \union {FirstPage}
  PROVE  /\ Answers(StoreSearch(tag, limit, c), tag, c)
         /\ FirestoreSearch(tag, limit, c).page \subseteq Listed(tag)
  <1> DEFINE S == OrderedTail(tag, c)
             before == SeenBefore(c)
             a == PageFromTail(S, limit, before)
  <1>1. Apart(S) /\ before \in 0 .. Window - 1
    BY StoresAgree
  <1>2. StoreSearch(tag, limit, c) = a /\ FirestoreSearch(tag, limit, c) = a
    BY StoresAgree DEF StoreSearch
  <1>3. S = {v \in Listed(tag) : c = FirstPage \/ OlderThanCursor(v, c)}
    BY DEF OrderedTail
  <1> HIDE DEF S, before
  <1>4. /\ a.page \subseteq S
        /\ Cardinality(a.page) \in Nat /\ before + Cardinality(a.page) <= Window
        /\ a.next \in SearchCursor \union {End}
        /\ a.next # End => /\ a.page # {} /\ a.next.seen = before + Cardinality(a.page)
                           /\ \A v \in a.page : ~OlderThanCursor(v, a.next)
                           /\ \A v \in S \ a.page : OlderThanCursor(v, a.next)
        /\ a.next = End => a.page = S \/ before + Cardinality(a.page) >= Window
    BY <1>1, PageOfTail
  <1> HIDE DEF a
  <1>5. Apart(a.page)
    BY <1>1, <1>4, ApartParts
  <1>6. IsFiniteSet(a.page) /\ a.page \subseteq Version
    BY <1>5 DEF Apart
  <1>7. /\ a.page \subseteq Listed(tag)
        /\ c # FirstPage => \A v \in a.page : OlderThanCursor(v, c)
    BY <1>3, <1>4
  <1>8. \A v \in Listed(tag) : c = FirstPage \/ OlderThanCursor(v, c) =>
          \/ v \in a.page
          \/ a.next # End /\ OlderThanCursor(v, a.next)
          \/ a.next = End /\ before + Cardinality(a.page) >= Window
    BY <1>3, <1>4
  <1> QED BY <1>2, <1>4, <1>6, <1>7, <1>8 DEF Answers, before

-----------------------------------------------------------------------------
(* Types of a visit.                                                       *)

LEMMA InitVisitInv == SearchInit => VisitInv
  <1> SUFFICES ASSUME SearchInit PROVE VisitInv
    OBVIOUS
  <1>1. records \in [PublishIds -> Record \union {NoRecord}]
    BY DEF SearchInit, Record
  <1> QED BY <1>1, SearchBounds DEF SearchInit, VisitInv, SearchTypeOK

LEMMA ChangeKeepsVisitInv ==
  ASSUME VisitInv, NEW id \in PublishIds, NEW r \in Record, Change(id, r)
  PROVE  VisitInv'
  <1>1. records' \in [PublishIds -> Record \union {NoRecord}]
    BY DEF VisitInv, SearchTypeOK, Change
  <1>2. steady' \subseteq PublishIds /\ changes' \in 0 .. MaxChanges
    BY SearchBounds DEF VisitInv, SearchTypeOK, Change
  <1> QED BY <1>1, <1>2 DEF VisitInv, SearchTypeOK, Change, visit

(* publish, delete, hide and restore are changes of one record.            *)
LEMMA ChangesAreChanges ==
  ASSUME VisitInv,
         \/ \E id \in PublishIds, created \in Times, tags \in SUBSET Tags : Publish(id, created, tags)
         \/ \E id \in PublishIds : Unlist(id) \/ Relist(id)
  PROVE  \E id \in PublishIds : \E r \in Record : Change(id, r)
  <1>1. \A id \in PublishIds : records[id] # NoRecord => records[id] \in Record
    BY DEF VisitInv, SearchTypeOK
  <1>2. CASE \E id \in PublishIds, created \in Times, tags \in SUBSET Tags : Publish(id, created, tags)
    <2>1. PICK id \in PublishIds, created \in Times, tags \in SUBSET Tags : Publish(id, created, tags)
      BY <1>2
    <2>2. (records[id] = NoRecord \/ records[id].listed) \in BOOLEAN
      OBVIOUS
    <2>3. [created |-> created, tags |-> tags,
           listed |-> records[id] = NoRecord \/ records[id].listed] \in Record
      BY <2>2 DEF Record
    <2> QED BY <2>1, <2>3 DEF Publish
  <1>3. ASSUME NEW id \in PublishIds, Unlist(id) PROVE \E r \in Record : Change(id, r)
    <2>1. [records[id] EXCEPT !.listed = FALSE] \in Record
      BY <1>1, <1>3 DEF Unlist, Record
    <2> QED BY <1>3, <2>1 DEF Unlist
  <1>4. ASSUME NEW id \in PublishIds, Relist(id) PROVE \E r \in Record : Change(id, r)
    <2>1. [records[id] EXCEPT !.listed = TRUE] \in Record
      BY <1>1, <1>4 DEF Relist, Record
    <2> QED BY <1>4, <2>1 DEF Relist
  <1> QED BY <1>2, <1>3, <1>4

(* A search adds a page to what is shown.                                  *)
LEMMA SearchShows ==
  ASSUME VisitInv, NEW limit \in PageSizes, Search(limit)
  PROVE  \E a : /\ cursor \in SearchCursor \union {FirstPage}
                /\ Answers(a, query[1], cursor)
                /\ pages' = Append(pages, a.page) /\ cursor' = a.next
                /\ Shown' = Shown \union a.page
                /\ UNCHANGED <<backend, records, mode, query, want, todo, found, result, cut, steady,
                               changes>>
  <1> DEFINE a == StoreSearch(query[1], limit, cursor)
  <1>1. cursor \in SearchCursor \union {FirstPage} /\ SearchTypeOK /\ limit \in Nat \ {0}
    BY SearchBounds DEF VisitInv, SearchTypeOK, Search
  <1>2. Answers(a, query[1], cursor)
    BY <1>1, SearchAnswers
  <1>3. /\ pages' = Append(pages, a.page) /\ cursor' = a.next
        /\ UNCHANGED <<backend, records, mode, query, want, todo, found, result, cut, steady, changes>>
    BY DEF Search
  <1> HIDE DEF a
  <1>4. pages \in Seq(SUBSET Version) /\ a.page \in SUBSET Version
    BY <1>2 DEF VisitInv, SearchTypeOK, Answers
  <1>5. /\ Len(pages) \in Nat /\ DOMAIN pages = 1 .. Len(pages)
        /\ DOMAIN pages' = 1 .. Len(pages) + 1
        /\ \A i \in 1 .. Len(pages) : pages'[i] = pages[i]
        /\ pages'[Len(pages) + 1] = a.page
    BY <1>3, <1>4
  <1>6. Shown' = Shown \union a.page
    <2>1. ASSUME NEW v \in Shown' PROVE v \in Shown \union a.page
      <3>1. PICK i \in 1 .. Len(pages) + 1 : v \in pages'[i]
        BY <1>5, <2>1 DEF Shown
      <3>2. CASE i = Len(pages) + 1
        BY <1>5, <3>1, <3>2
      <3>3. CASE i # Len(pages) + 1
        <4>1. i \in DOMAIN pages /\ v \in pages[i]
          BY <1>5, <3>1, <3>3
        <4> QED BY <4>1 DEF Shown
      <3> QED BY <3>2, <3>3
    <2>2. ASSUME NEW v \in Shown PROVE v \in Shown'
      <3>1. PICK i \in DOMAIN pages : v \in pages[i]
        BY DEF Shown
      <3>2. i \in DOMAIN pages' /\ v \in pages'[i]
        BY <1>5, <3>1
      <3> QED BY <3>2 DEF Shown
    <2>3. ASSUME NEW v \in a.page PROVE v \in Shown'
      <3>1. Len(pages) + 1 \in DOMAIN pages' /\ v \in pages'[Len(pages) + 1]
        BY <1>5, <2>3
      <3> QED BY <3>1 DEF Shown
    <2> QED BY <2>1, <2>2, <2>3
  <1> QED BY <1>1, <1>2, <1>3, <1>6

LEMMA NextKeepsVisitInv ==
  ASSUME VisitInv, [SearchNext]_searchVars
  PROVE  VisitInv'
  <1> USE DEF VisitInv
  <1>1. CASE searchVars' = searchVars
    BY <1>1 DEF searchVars, visit, SearchTypeOK
  <1>2. CASE \/ \E id \in PublishIds, created \in Times, tags \in SUBSET Tags : Publish(id, created, tags)
             \/ \E id \in PublishIds : Unlist(id) \/ Relist(id)
    <2>1. PICK id \in PublishIds : \E r \in Record : Change(id, r)
      BY <1>2, ChangesAreChanges
    <2>2. PICK r \in Record : Change(id, r)
      BY <2>1
    <2> QED BY <2>2, ChangeKeepsVisitInv
  <1>3. CASE \E tag \in Tags \union {AnyTag} : Browse(tag)
    <2>1. PICK tag \in Tags \union {AnyTag} : Browse(tag)
      BY <1>3
    <2>2. query' \in Seq(Tags \union {AnyTag}) /\ Len(query') = 1
      BY <2>1 DEF Browse
    <2> QED BY <2>1, <2>2 DEF Browse, SearchTypeOK
  <1>4. CASE \E limit \in PageSizes : Search(limit)
    <2>1. PICK limit \in PageSizes : Search(limit)
      BY <1>4
    <2>2. PICK a : /\ Answers(a, query[1], cursor)
                   /\ pages' = Append(pages, a.page) /\ cursor' = a.next
                   /\ UNCHANGED <<backend, records, mode, query, want, todo, found, result, cut, steady,
                                  changes>>
      BY <2>1, SearchShows
    <2>3. pages' \in Seq(SUBSET Version) /\ cursor' \in SearchCursor \union {End}
      BY <2>2 DEF Answers, SearchTypeOK
    <2>4. cursor' # FirstPage
      BY <2>3, MarkersAreFresh
    <2> QED BY <2>1, <2>2, <2>3, <2>4 DEF SearchTypeOK, Search
  <1>5. CASE \E tags \in Queries, limit \in PageSizes : Discover(tags, limit)
    <2>1. PICK tags \in Queries, limit \in PageSizes : Discover(tags, limit)
      BY <1>5
    <2>2. tags \in Seq(Tags \union {AnyTag})
      <3>1. PICK n \in 0 .. MaxTags : tags \in [1 .. n -> Tags]
        BY DEF Queries
      <3>2. n \in Nat
        BY SearchBounds
      <3> QED BY <3>1, <3>2
    <2>3. todo' \in Seq(Tags \union {AnyTag})
      <3>1. <<AnyTag>> \in Seq(Tags \union {AnyTag})
        OBVIOUS
      <3> QED BY <2>1, <2>2, <3>1 DEF Discover
    <2> QED BY <2>1, <2>2, <2>3 DEF Discover, SearchTypeOK
  <1>6. CASE Collect
    <2>1. found' \subseteq Listed(AnyTag) /\ cut' \subseteq {v.id : v \in Listed(AnyTag)}
      BY <1>6 DEF Collect, Newest
    <2>2. \A v \in Listed(AnyTag) : v \in Version /\ v.id \in PublishIds
      BY ListedAre DEF Apart
    <2>3. found' \subseteq Version /\ cut' \subseteq PublishIds
      BY <2>1, <2>2
    <2>4. todo' \in Seq(Tags \union {AnyTag})
      BY <1>6 DEF Collect
    <2> QED BY <1>6, <2>3, <2>4 DEF Collect, SearchTypeOK
  <1>7. CASE CollectTag
    <2>1. Candidates \in Nat \ {0}
      BY SearchBounds
    <2>2. FirestoreSearch(todo[1], Candidates, FirstPage).page \subseteq Listed(todo[1])
      BY <2>1, SearchAnswers
    <2>3. \A v \in Listed(todo[1]) : v \in Version /\ v.id \in PublishIds
      BY ListedAre DEF Apart
    <2>4. found' \subseteq Version /\ cut' \subseteq PublishIds
      BY <1>7, <2>2, <2>3 DEF CollectTag, SearchTypeOK
    <2>5. todo' \in Seq(Tags \union {AnyTag})
      <3>1. todo' = SubSeq(todo, 2, Len(todo)) /\ todo \in Seq(Tags \union {AnyTag})
        BY <1>7 DEF CollectTag, SearchTypeOK
      <3> QED BY <3>1
    <2> QED BY <1>7, <2>4, <2>5 DEF CollectTag, SearchTypeOK
  <1>8. CASE Rank
    <2>1. result' \subseteq found /\ found' = {}
      BY <1>8 DEF Rank
    <2> QED BY <1>8, <2>1 DEF Rank, SearchTypeOK
  <1> QED BY <1>1, <1>2, <1>3, <1>4, <1>5, <1>6, <1>7, <1>8 DEF SearchNext

(* The types of a visit.  Every cursor given out counts at least one       *)
(* record, and fewer than the window: the page after it has room.          *)
THEOREM SearchTypeCorrect == SearchSpec => []SearchTypeOK
  <1>1. VisitInv => SearchTypeOK
    BY DEF VisitInv
  <1> QED BY <1>1, InitVisitInv, NextKeepsVisitInv, PTL DEF SearchSpec

-----------------------------------------------------------------------------
(* Pages.                                                                  *)

(* A step of a visit other than a search leaves the pages alone; only a    *)
(* change of the directory changes the records.                            *)
LEMMA VisitSteps ==
  ASSUME VisitInv, SearchNext
  PROVE  \/ \E limit \in PageSizes : Search(limit)
         \/ /\ pages' = pages /\ cursor' = cursor
            /\ \/ \E id \in PublishIds : \E r \in Record : Change(id, r)
               \/ /\ records' = records /\ steady' = steady
                  /\ \/ mode' = "search" /\ cursor = FirstPage
                     \/ mode' # "search"
  <1>1. CASE \/ \E id \in PublishIds, created \in Times, tags \in SUBSET Tags : Publish(id, created, tags)
             \/ \E id \in PublishIds : Unlist(id) \/ Relist(id)
    <2>1. \E id \in PublishIds : \E r \in Record : Change(id, r)
      BY <1>1, ChangesAreChanges
    <2>2. pages' = pages /\ cursor' = cursor
      BY <2>1 DEF Change, visit
    <2> QED BY <2>1, <2>2
  <1>2. CASE \E tag \in Tags \union {AnyTag} : Browse(tag)
    BY <1>2 DEF Browse, VisitInv
  <1>3. CASE \/ \E tags \in Queries, limit \in PageSizes : Discover(tags, limit)
             \/ Collect \/ CollectTag \/ Rank
    BY <1>3 DEF Discover, Collect, CollectTag, Rank
  <1>4. CASE \E limit \in PageSizes : Search(limit)
    BY <1>4
  <1> QED BY <1>1, <1>2, <1>3, <1>4 DEF SearchNext

(* What is shown is counted, page by page.                                 *)
LEMMA ShownIsCounted ==
  ASSUME VisitInv, PagesInv, NEW a, cursor \in SearchCursor \union {FirstPage},
         Answers(a, query[1], cursor)
  PROVE  /\ \A v \in Shown, w \in a.page : Newer(v, w)
         /\ IsFiniteSet(Shown \union a.page)
         /\ Cardinality(Shown \union a.page) = SeenBefore(cursor) + Cardinality(a.page)
  <1>1. /\ a.page \subseteq Version /\ IsFiniteSet(a.page) /\ Cardinality(a.page) \in Nat
        /\ cursor # FirstPage => \A v \in a.page : OlderThanCursor(v, cursor)
    BY DEF Answers
  <1>2. Shown \subseteq Version
    BY DEF VisitInv, SearchTypeOK, Shown
  <1>3. cursor = FirstPage => Shown = {}
    BY DEF VisitInv, Shown
  <1>4. cursor # FirstPage => /\ cursor \in SearchCursor
                              /\ Cardinality(Shown) = cursor.seen
                              /\ \A v \in Shown : ~OlderThanCursor(v, cursor)
    BY DEF PagesInv
  <1>5. \A v \in Shown, w \in a.page : Newer(v, w)
    BY <1>1, <1>2, <1>3, <1>4, CursorDivides
  <1>6. /\ IsFiniteSet(Shown \union a.page)
        /\ Cardinality(Shown \union a.page) = Cardinality(Shown) + Cardinality(a.page)
    <2>1. Shown \intersect a.page = {}
      BY <1>1, <1>2, <1>5, NewerIsAnOrder
    <2>2. IsFiniteSet(Shown) /\ Cardinality(Shown) \in Nat
      BY FS_CardinalityType DEF PagesInv
    <2>3. Cardinality(Shown \intersect a.page) = 0
      BY <2>1, FS_EmptySet
    <2>4. /\ IsFiniteSet(Shown \union a.page)
          /\ Cardinality(Shown \union a.page) =
                Cardinality(Shown) + Cardinality(a.page) - Cardinality(Shown \intersect a.page)
      BY <1>1, <2>2, FS_Union
    <2> QED BY <1>1, <2>2, <2>3, <2>4
  <1>7. Cardinality(Shown) = SeenBefore(cursor)
    <2>1. CASE cursor = FirstPage
      BY <1>3, <2>1, FS_EmptySet DEF SeenBefore
    <2>2. CASE cursor # FirstPage
      <3>1. cursor.seen < Window
        BY <1>4, <2>2, SearchBounds DEF SearchCursor
      <3> QED BY <1>4, <2>2, <3>1 DEF SeenBefore
    <2> QED BY <2>1, <2>2
  <1> QED BY <1>5, <1>6, <1>7

LEMMA NextKeepsPagesInv ==
  ASSUME VisitInv, PagesInv, [SearchNext]_searchVars
  PROVE  PagesInv'
  <1>1. CASE pages' = pages /\ cursor' = cursor
    BY <1>1 DEF PagesInv, PagesDescend, Shown
  <1>2. ASSUME NEW limit \in PageSizes, Search(limit) PROVE PagesInv'
    <2>1. PICK a : /\ cursor \in SearchCursor \union {FirstPage}
                   /\ Answers(a, query[1], cursor)
                   /\ pages' = Append(pages, a.page) /\ cursor' = a.next
                   /\ Shown' = Shown \union a.page
      BY <1>2, SearchShows
    <2>2. /\ a.page \subseteq Version /\ IsFiniteSet(a.page) /\ Cardinality(a.page) \in Nat
          /\ SeenBefore(cursor) + Cardinality(a.page) <= Window
          /\ a.next \in SearchCursor \union {End}
          /\ a.next # End => /\ a.page # {} /\ a.next.seen = SeenBefore(cursor) + Cardinality(a.page)
                             /\ \A v \in a.page : ~OlderThanCursor(v, a.next)
      BY <2>1 DEF Answers
    <2>3. pages \in Seq(SUBSET Version) /\ Shown \subseteq Version
      BY DEF VisitInv, SearchTypeOK, Shown
    <2>4. /\ \A v \in Shown, w \in a.page : Newer(v, w)
          /\ IsFiniteSet(Shown \union a.page)
          /\ Cardinality(Shown \union a.page) = SeenBefore(cursor) + Cardinality(a.page)
      BY <2>1, ShownIsCounted
    <2>5. PagesDescend'
      <3>1. /\ Len(pages) \in Nat /\ DOMAIN pages = 1 .. Len(pages)
            /\ DOMAIN pages' = 1 .. Len(pages) + 1
            /\ \A i \in 1 .. Len(pages) : pages'[i] = pages[i]
            /\ pages'[Len(pages) + 1] = a.page
        BY <2>1, <2>2, <2>3
      <3>2. ASSUME NEW i \in DOMAIN pages', NEW j \in DOMAIN pages', i < j,
                   NEW v \in pages'[i], NEW w \in pages'[j]
            PROVE  Newer(v, w)
        <4>1. i \in DOMAIN pages /\ v \in pages[i]
          BY <3>1, <3>2
        <4>2. CASE j = Len(pages) + 1
          <5>1. v \in Shown
            BY <4>1 DEF Shown
          <5> QED BY <2>4, <3>1, <3>2, <4>2, <5>1
        <4>3. CASE j # Len(pages) + 1
          <5>1. j \in DOMAIN pages /\ w \in pages[j]
            BY <3>1, <3>2, <4>3
          <5> QED BY <3>2, <4>1, <5>1 DEF PagesInv, PagesDescend
        <4> QED BY <4>2, <4>3
      <3> QED BY <3>2 DEF PagesDescend
    <2>6. IsFiniteSet(Shown') /\ Cardinality(Shown') = SeenBefore(cursor) + Cardinality(a.page)
      BY <2>1, <2>4
    <2>7. ASSUME cursor' \in SearchCursor
           PROVE  /\ Cardinality(Shown') = (cursor').seen
                  /\ \A v \in Shown' : ~OlderThanCursor(v, cursor')
      <3>1. cursor' = a.next /\ a.next # End /\ a.next \in SearchCursor
        BY <2>1, <2>7, MarkersAreFresh
      <3>2. ASSUME NEW v \in Shown PROVE ~OlderThanCursor(v, a.next)
        <4>1. PICK w \in a.page : ~OlderThanCursor(w, a.next) /\ Newer(v, w)
          BY <2>2, <2>4, <3>1
        <4>2. /\ v.created \in Nat /\ v.id \in Nat /\ w.created \in Nat /\ w.id \in Nat
              /\ a.next.created \in Nat /\ a.next.id \in Nat
          BY <2>2, <2>3, <3>1, <4>1, SearchBounds DEF Version, SearchCursor
        <4> QED BY <4>1, <4>2 DEF OlderThanCursor, Newer
      <3> QED BY <2>1, <2>2, <2>6, <3>1, <3>2
    <2>8. Cardinality(Shown') <= Window
      BY <2>2, <2>6
    <2> QED BY <2>5, <2>6, <2>7, <2>8 DEF PagesInv
  <1>3. CASE searchVars' = searchVars
    BY <1>1, <1>3 DEF searchVars, visit
  <1> QED BY <1>1, <1>2, <1>3, VisitSteps

LEMMA InitPagesInv == SearchInit => PagesInv
  <1> SUFFICES ASSUME SearchInit PROVE PagesInv
    OBVIOUS
  <1>1. Shown = {} /\ cursor = FirstPage
    BY DEF SearchInit, Shown
  <1>2. IsFiniteSet(Shown) /\ Cardinality(Shown) = 0
    BY <1>1, FS_EmptySet
  <1>3. PagesDescend
    BY DEF SearchInit, PagesDescend
  <1> QED BY <1>1, <1>2, <1>3, SearchBounds, MarkersAreFresh DEF PagesInv

(* Each page goes on below the one before, whatever is published, hidden,  *)
(* deleted or restored between two of them and whichever store answers.    *)
THEOREM PagesGoDown == SearchSpec => []PagesDescend
  <1>1. PagesInv => PagesDescend
    BY DEF PagesInv
  <1> QED BY <1>1, InitVisitInv, NextKeepsVisitInv, InitPagesInv, NextKeepsPagesInv, PTL DEF SearchSpec

(* The cursors of a visit count what it has shown, so its pages together   *)
(* never exceed the search window.                                         *)
THEOREM WindowHolds == SearchSpec => []WindowIsKept
  <1>1. PagesInv => WindowIsKept
    BY DEF PagesInv, WindowIsKept
  <1> QED BY <1>1, InitVisitInv, NextKeepsVisitInv, InitPagesInv, NextKeepsPagesInv, PTL DEF SearchSpec

-----------------------------------------------------------------------------
(* Completeness.                                                           *)

(* A change leaves the steady records as they were.                        *)
LEMMA SteadyStay ==
  ASSUME VisitInv, NEW i \in PublishIds, NEW r \in Record, Change(i, r)
  PROVE  /\ visit' = visit /\ steady' = steady \ {i}
         /\ \A id \in steady' : /\ AsVersion(id)' = AsVersion(id)
                                /\ records'[id] = records[id]
  <1>1. visit' = visit /\ steady' = steady \ {i}
    BY DEF Change
  <1>2. \A id \in steady' : records'[id] = records[id]
    BY <1>1 DEF Change, VisitInv, SearchTypeOK
  <1>3. \A id \in steady' : AsVersion(id)' = AsVersion(id)
    BY <1>2 DEF AsVersion
  <1> QED BY <1>1, <1>2, <1>3

LEMMA NextKeepsDueInv ==
  ASSUME VisitInv, PagesInv, DueInv, [SearchNext]_searchVars
  PROVE  DueInv'
  <1>1. CASE searchVars' = searchVars
    BY <1>1 DEF searchVars, visit, DueInv, Fits, AsVersion, Due, Shown
  <1>2. ASSUME NEW limit \in PageSizes, Search(limit) PROVE DueInv'
    <2>1. PICK a : /\ cursor \in SearchCursor \union {FirstPage}
                   /\ Answers(a, query[1], cursor)
                   /\ pages' = Append(pages, a.page) /\ cursor' = a.next
                   /\ Shown' = Shown \union a.page
                   /\ records' = records /\ mode' = mode /\ query' = query /\ steady' = steady
      BY <1>2, SearchShows
    <2>2. SearchTypeOK /\ mode = "search" /\ steady \subseteq PublishIds
      BY <1>2 DEF VisitInv, SearchTypeOK, Search
    <2>3. ASSUME NEW id \in steady, Fits(id, query[1]) PROVE Due(AsVersion(id))'
      <3> DEFINE v == AsVersion(id)
      <3>1. v' = v
        BY <2>1 DEF AsVersion
      <3>2. v \in Listed(query[1]) /\ Due(v)
        BY <2>2, <2>3, ListedAre DEF DueInv
      <3> HIDE DEF v
      <3>3. CASE v \in Shown
        BY <2>1, <3>1, <3>3 DEF Due, v
      <3>4. CASE v \notin Shown
        <4>1. cursor = FirstPage \/ OlderThanCursor(v, cursor)
          BY <2>1, <3>2, <3>4, MarkersAreFresh DEF Due
        <4>2. \/ v \in a.page
              \/ a.next # End /\ OlderThanCursor(v, a.next)
              \/ a.next = End /\ SeenBefore(cursor) + Cardinality(a.page) >= Window
          BY <2>1, <3>2, <4>1 DEF Answers
        <4>3. CASE v \in a.page
          BY <2>1, <3>1, <4>3 DEF Due, v
        <4>4. CASE a.next # End /\ OlderThanCursor(v, a.next)
          <5>1. cursor' \in SearchCursor /\ OlderThanCursor(v, cursor')
            BY <2>1, <4>4 DEF Answers
          <5> QED BY <3>1, <5>1 DEF Due, v
        <4>5. CASE a.next = End /\ SeenBefore(cursor) + Cardinality(a.page) >= Window
          <5>1. Cardinality(Shown') = SeenBefore(cursor) + Cardinality(a.page)
            BY <2>1, ShownIsCounted
          <5> QED BY <2>1, <4>5, <5>1 DEF Due
        <4> QED BY <4>2, <4>3, <4>4, <4>5
      <3> QED BY <3>3, <3>4
    <2> QED BY <2>1, <2>3 DEF DueInv, Fits
  <1>3. ASSUME pages' = pages, cursor' = cursor, NEW i \in PublishIds, NEW r \in Record, Change(i, r)
        PROVE  DueInv'
    <2>1. /\ visit' = visit /\ steady' = steady \ {i}
          /\ \A id \in steady' : AsVersion(id)' = AsVersion(id) /\ records'[id] = records[id]
      BY <1>3, SteadyStay
    <2>2. mode' = mode /\ query' = query /\ Shown' = Shown
      BY <1>3, <2>1 DEF visit, Shown
    <2>3. ASSUME mode' = "search", NEW id \in steady', Fits(id, query[1])'
          PROVE  Due(AsVersion(id))'
      <3>1. Fits(id, query[1]) /\ id \in steady
        BY <2>1, <2>2, <2>3 DEF Fits
      <3>2. Due(AsVersion(id))
        BY <2>2, <2>3, <3>1 DEF DueInv
      <3> QED BY <1>3, <2>1, <2>2, <3>2 DEF Due
    <2> QED BY <2>3 DEF DueInv
  <1>4. CASE cursor' = cursor /\ mode' = "search" /\ cursor = FirstPage
    BY <1>4 DEF DueInv, Due
  <1>5. CASE mode' # "search"
    BY <1>5 DEF DueInv
  <1> QED BY <1>1, <1>2, <1>3, <1>4, <1>5, VisitSteps

(* A visitor that has followed the cursors to the end, within the window,  *)
(* has seen every record that was listed all along and did not change.     *)
THEOREM SearchFindsAll == SearchSpec => []SearchIsComplete
  <1>1. SearchInit => DueInv
    BY DEF SearchInit, DueInv
  <1>2. VisitInv /\ PagesInv /\ DueInv => SearchIsComplete
    <2> SUFFICES ASSUME VisitInv, PagesInv, DueInv, mode = "search", cursor = End,
                        Cardinality(Shown) < Window, NEW id \in steady, Fits(id, query[1])
                 PROVE  AsVersion(id) \in Shown
      BY DEF SearchIsComplete, Fits
    <2>1. Due(AsVersion(id))
      BY DEF DueInv
    <2>2. Cardinality(Shown) \in Nat /\ Window \in Nat
      BY FS_CardinalityType, SearchBounds DEF PagesInv
    <2> QED BY <2>1, <2>2, MarkersAreFresh DEF Due
  <1> QED BY <1>1, <1>2, InitVisitInv, NextKeepsVisitInv, InitPagesInv, NextKeepsPagesInv,
             NextKeepsDueInv, PTL DEF SearchSpec

-----------------------------------------------------------------------------
(* Discover.                                                               *)

LEMMA OverlapIsANumber ==
  ASSUME SearchTypeOK
  PROVE  /\ \A v \in Version : Overlap(v) \in Nat
         /\ \A v \in Version : Overlap(v) = 0 <=> v.tags \intersect Asked = {}
  <1>1. /\ query \in [1 .. Len(query) -> Tags \union {AnyTag}]
        /\ Len(query) \in Nat /\ DOMAIN query = 1 .. Len(query)
    BY DEF SearchTypeOK
  <1>2. query \in Surjection(1 .. Len(query), Asked)
    BY <1>1 DEF Surjection, Asked
  <1>3. IsFiniteSet(1 .. Len(query))
    BY <1>1, FS_Interval
  <1>4. IsFiniteSet(Asked)
    BY <1>2, <1>3, FS_Surjection
  <1>5. ASSUME NEW v \in Version
        PROVE  Overlap(v) \in Nat /\ (Overlap(v) = 0 <=> v.tags \intersect Asked = {})
    <2> DEFINE T == v.tags \intersect Asked
    <2>1. T \subseteq Asked
      OBVIOUS
    <2>2. Overlap(v) = Cardinality(T)
      BY DEF Overlap
    <2> HIDE DEF T
    <2>3. IsFiniteSet(T) /\ Cardinality(T) \in Nat
      BY <1>4, <2>1, SubsetSize
    <2>4. Cardinality(T) = 0 <=> T = {}
      BY <2>3, FS_EmptySet
    <2> QED BY <2>2, <2>3, <2>4 DEF T
  <1> QED BY <1>5

RankedBefore(S) == [v \in S |-> {w \in S : RanksAbove(w, v)}]

(* rank_discover_records sorts by a strict total order.                    *)
LEMMA RankingIsAnOrder ==
  ASSUME SearchTypeOK, NEW S, Apart(S)
  PROVE  Ordered(S, RankedBefore(S))
  <1>1. S \subseteq Version /\ \A v, w \in S : v # w => v.id # w.id
    BY DEF Apart
  <1>2. \A v \in S : /\ Overlap(v) \in Nat /\ Score[v.id] \in Nat
                     /\ v.created \in Nat /\ v.id \in Nat
    BY <1>1, OverlapIsANumber, SearchBounds DEF Version
  <1>3. \A v \in S : ~RanksAbove(v, v)
    BY <1>2 DEF RanksAbove
  <1>4. \A u, v, w \in S : RanksAbove(u, v) /\ RanksAbove(v, w) => RanksAbove(u, w)
    BY <1>2 DEF RanksAbove
  <1>5. \A v, w \in S : v.id # w.id => RanksAbove(v, w) \/ RanksAbove(w, v)
    BY <1>2 DEF RanksAbove
  <1>6. RankedBefore(S) \in [S -> SUBSET S]
    BY DEF RankedBefore
  <1>7. \A v, w \in S : w \in RankedBefore(S)[v] <=> RanksAbove(w, v)
    BY DEF RankedBefore
  <1>8. \A v, w \in S : w \in RankedBefore(S)[v] => RankedBefore(S)[w] \subseteq RankedBefore(S)[v]
    BY <1>4, <1>6, <1>7
  <1> QED BY <1>1, <1>3, <1>5, <1>6, <1>7, <1>8 DEF Ordered

LEMMA RankFindsBest ==
  ASSUME VisitInv, FoundInv, Rank
  PROVE  DiscoverFindsBest'
  <1> DEFINE M == {v \in found : Asked = {} \/ Overlap(v) > 0}
  <1>1. /\ SearchTypeOK /\ found \subseteq Version /\ mode = "discover" /\ todo = <<>>
        /\ steady \subseteq PublishIds
    BY DEF VisitInv, SearchTypeOK, Rank
  <1>2. want \in Nat /\ Apart(found)
    BY <1>1 DEF FoundInv, Apart
  <1>3. /\ result' = {v \in M : Cardinality({w \in M : RanksAbove(w, v)}) < want}
        /\ UNCHANGED <<records, query, want, cut, steady>>
    BY DEF Rank
  <1>4. Apart(M)
    BY <1>2, ApartParts
  <1>5. M = {v \in found : Asked = {} \/ Overlap(v) > 0}
    OBVIOUS
  <1> HIDE DEF M
  <1>6. Ordered(M, RankedBefore(M)) /\ IsFiniteSet(M)
    BY <1>1, <1>4, RankingIsAnOrder DEF Apart
  <1>7. result' = Leading(M, RankedBefore(M), want)
    BY <1>3 DEF Leading, RankedBefore
  <1>8. /\ result' # M => Cardinality(result') = want
        /\ result' \subseteq M
        /\ \A x \in result', y \in M \ result' : x \in RankedBefore(M)[y]
    BY <1>2, <1>6, <1>7, LeadingSize, LeadingIsClosed
  <1>9. \A v \in Version : Overlap(v)' = Overlap(v)
    BY <1>3 DEF Overlap, Asked
  <1>10. Asked' = Asked /\ \A id \in PublishIds : AsVersion(id)' = AsVersion(id)
    BY <1>3 DEF Asked, AsVersion
  <1>11. ASSUME NEW id \in steady \ cut, Fits(id, AnyTag)
         PROVE  \/ Asked # {} /\ Overlap(AsVersion(id)) = 0
                \/ AsVersion(id) \in result'
                \/ /\ Cardinality(result') = want
                   /\ \A w \in result' : Overlap(w) >= Overlap(AsVersion(id))
    <2> DEFINE v == AsVersion(id)
    <2>1. v \in Version
      BY <1>1, <1>11, ListedAre
    <2>2. Overlap(v) \in Nat /\ (Overlap(v) = 0 <=> v.tags \intersect Asked = {})
      BY <1>1, <2>1, OverlapIsANumber
    <2>3. ASSUME Asked = {} \/ Overlap(v) # 0 PROVE v \in M
      <3>1. v \in found
        BY <1>1, <1>11, <2>2, <2>3 DEF FoundInv, Wanted, Pending
      <3>2. Asked = {} \/ Overlap(v) > 0
        BY <2>2, <2>3
      <3> QED BY <1>5, <3>1, <3>2
    <2> HIDE DEF v
    <2>4. CASE v \in M /\ v \notin result'
      <3>1. ASSUME NEW w \in result' PROVE Overlap(w) >= Overlap(v)
        <4>1. RanksAbove(w, v)
          BY <1>8, <2>4 DEF RankedBefore
        <4>2. w \in Version
          BY <1>4, <1>8 DEF Apart
        <4>3. Overlap(w) \in Nat
          BY <1>1, <4>2, OverlapIsANumber
        <4> QED BY <2>2, <4>1, <4>3 DEF RanksAbove
      <3> QED BY <1>8, <2>4, <3>1 DEF v
    <2> QED BY <2>3, <2>4 DEF v
  <1>12. result' \subseteq Version
    BY <1>4, <1>8 DEF Apart
  <1>13. ASSUME NEW id \in steady' \ cut', records'[id] # NoRecord, records'[id].listed
         PROVE  \/ Asked' # {} /\ Overlap(AsVersion(id))' = 0
                \/ AsVersion(id)' \in result'
                \/ /\ Cardinality(result') = want'
                   /\ \A w \in result' : Overlap(w)' >= Overlap(AsVersion(id))'
    <2>1. id \in steady \ cut /\ id \in PublishIds /\ Fits(id, AnyTag)
      BY <1>1, <1>3, <1>13 DEF Fits, Matches
    <2>2. AsVersion(id) \in Version
      BY <1>1, <2>1, ListedAre
    <2>3. Overlap(AsVersion(id))' = Overlap(AsVersion(id))
      BY <1>3 DEF Overlap, Asked, AsVersion
    <2>4. \A w \in result' : Overlap(w)' = Overlap(w)
      BY <1>9, <1>12
    <2> QED BY <1>3, <1>10, <1>11, <2>1, <2>3, <2>4
  <1> QED BY <1>13 DEF DiscoverFindsBest

(* The part of FoundInv that the queries keep.                             *)
Collected ==
    /\ IsFiniteSet(found)
    /\ \A v, w \in found : v.id = w.id => v = w
    /\ \A id \in steady \ cut : Wanted(id) => Pending(id)

LEMMA CollectFinds ==
  ASSUME VisitInv, FoundInv, Collect
  PROVE  Collected'
  <1> DEFINE M == {v \in Listed(AnyTag) : Asked = {} \/ Overlap(v) > 0}
  <1>1. SearchTypeOK /\ steady \subseteq PublishIds
    BY DEF VisitInv, SearchTypeOK
  <1>2. /\ found' \subseteq M /\ cut' = {v.id : v \in M \ found'}
        /\ UNCHANGED <<records, query, steady>>
    BY DEF Collect, Newest
  <1>3. Apart(found')
    <2>1. found' \subseteq Listed(AnyTag)
      BY <1>2
    <2> QED BY <1>1, <2>1, ListedAre, ApartParts
  <1>4. ASSUME NEW id \in steady' \ cut', Wanted(id)' PROVE AsVersion(id)' \in found'
    <2> DEFINE v == AsVersion(id)
    <2>1. id \in steady /\ id \in PublishIds /\ Wanted(id)
      BY <1>1, <1>2, <1>4 DEF Wanted, Fits, AsVersion, Asked
    <2>2. v' = v
      BY <1>2 DEF AsVersion
    <2>3. v \in Listed(AnyTag) /\ v \in Version /\ v.id = id
      BY <1>1, <2>1, ListedAre DEF Wanted
    <2>4. Overlap(v) \in Nat /\ (Overlap(v) = 0 <=> v.tags \intersect Asked = {})
      BY <1>1, <2>3, OverlapIsANumber
    <2>5. Asked = {} \/ v.tags \intersect Asked # {}
      BY <2>1 DEF Wanted
    <2> HIDE DEF v
    <2>6. v \in M
      BY <2>3, <2>4, <2>5
    <2> HIDE DEF M
    <2>7. v \in found'
      BY <1>2, <1>4, <2>3, <2>6
    <2> QED BY <2>2, <2>7 DEF v
  <1> QED BY <1>3, <1>4 DEF Collected, Apart, Pending

LEMMA CollectTagFinds ==
  ASSUME VisitInv, FoundInv, CollectTag
  PROVE  Collected'
  <1> DEFINE P == FirestoreSearch(todo[1], Candidates, FirstPage).page
             ids == {v.id : v \in P}
  <1>1. /\ SearchTypeOK /\ steady \subseteq PublishIds /\ mode = "discover"
        /\ Candidates \in Nat \ {0} /\ todo \in Seq(Tags \union {AnyTag}) /\ todo # <<>>
    BY SearchBounds DEF VisitInv, SearchTypeOK, CollectTag
  <1>2. P \subseteq Listed(todo[1])
    BY <1>1, SearchAnswers
  <1>3. /\ found' = P \union {v \in found : v.id \notin ids}
        /\ cut' = cut \union ({v.id : v \in Listed(todo[1])} \ ids)
        /\ todo' = SubSeq(todo, 2, Len(todo))
        /\ UNCHANGED <<records, query, steady>>
    BY DEF CollectTag
  <1>4. \A v \in P : v.id \in ids
    OBVIOUS
  <1>5. \A i \in ids : \E v \in P : v.id = i
    OBVIOUS
  <1> HIDE DEF P, ids
  <1>6. Apart(P)
    BY <1>1, <1>2, ListedAre, ApartParts
  <1>7. IsFiniteSet(found')
    <2>1. IsFiniteSet({v \in found : v.id \notin ids})
      BY FS_Subset DEF FoundInv
    <2>2. IsFiniteSet(P)
      BY <1>6 DEF Apart
    <2> QED BY <1>3, <2>1, <2>2, FS_Union
  <1>8. \A v, w \in found' : v.id = w.id => v = w
    BY <1>3, <1>4, <1>6 DEF Apart, FoundInv
  <1>9. ASSUME NEW id \in steady' \ cut', Wanted(id)' PROVE Pending(id)'
    <2> DEFINE v == AsVersion(id)
    <2>1. id \in steady /\ id \in PublishIds /\ id \notin cut /\ Wanted(id)
      BY <1>1, <1>3, <1>9 DEF Wanted, Fits, AsVersion, Asked
    <2>2. v' = v
      BY <1>3 DEF AsVersion
    <2>3. Pending(id)
      BY <1>1, <2>1 DEF FoundInv
    <2>4. v.id = id /\ v.tags = records[id].tags
      BY DEF AsVersion
    <2>5. \A x \in P : x.id = id => x = v
      BY <1>1, <1>2, ListedAre
    <2> HIDE DEF v
    <2>6. CASE v \in found
      <3>1. v \in found'
        BY <1>3, <1>5, <2>4, <2>5, <2>6
      <3> QED BY <2>2, <3>1 DEF Pending, v
    <2>7. CASE v \notin found
      <3>1. PICK i \in DOMAIN todo : Matches(v.tags, todo[i])
        BY <2>3, <2>7 DEF Pending, v
      <3>2. CASE i = 1
        <4>1. Fits(id, todo[1])
          BY <2>1, <2>4, <3>1, <3>2 DEF Wanted, Fits
        <4>2. v \in Listed(todo[1])
          BY <1>1, <2>1, <4>1, ListedAre DEF v
        <4>3. id \in ids
          BY <1>3, <1>9, <2>4, <4>2
        <4>4. v \in found'
          BY <1>3, <1>5, <2>5, <4>3
        <4> QED BY <2>2, <4>4 DEF Pending, v
      <3>3. CASE i # 1
        <4>1. i \in 2 .. Len(todo) /\ Len(todo) \in Nat
          BY <1>1, <3>1, <3>3
        <4>2. i - 1 \in DOMAIN todo' /\ todo'[i - 1] = todo[i]
          BY <1>1, <1>3, <4>1
        <4>3. \E j \in DOMAIN todo' : Matches(v.tags, todo'[j])
          BY <3>1, <4>2
        <4>4. (\E j \in DOMAIN todo : Matches(AsVersion(id).tags, todo[j]))'
          BY <2>2, <4>3 DEF Matches, v
        <4> QED BY <4>4 DEF Pending
      <3> QED BY <3>2, <3>3
    <2> QED BY <2>6, <2>7
  <1> QED BY <1>7, <1>8, <1>9 DEF Collected

LEMMA DiscoverOwes ==
  ASSUME VisitInv, NEW tags \in Queries, NEW limit \in PageSizes, Discover(tags, limit)
  PROVE  Collected' /\ want' \in Nat \ {0}
  <1>1. /\ found' = {} /\ query' = tags /\ want' = limit /\ records' = records /\ steady' = steady
        /\ todo' = IF tags = <<>> THEN <<AnyTag>> ELSE tags
    BY DEF Discover, VisitInv
  <1>2. IsFiniteSet(found')
    BY <1>1, FS_EmptySet
  <1>3. PICK n \in Nat : tags \in [1 .. n -> Tags]
    BY SearchBounds DEF Queries
  <1>4. ASSUME NEW id \in steady', Wanted(id)'
        PROVE  \E i \in DOMAIN todo' : Matches((AsVersion(id)').tags, todo'[i])
    <2>1. CASE tags = <<>>
      <3>1. 1 \in DOMAIN todo' /\ todo'[1] = AnyTag
        BY <1>1, <2>1
      <3> QED BY <3>1 DEF Matches
    <2>2. CASE tags # <<>>
      <3>1. n # 0
        BY <1>3, <2>2
      <3>2. tags[1] \in Asked' /\ Asked' = {tags[i] : i \in DOMAIN tags}
        BY <1>1, <1>3, <3>1 DEF Asked
      <3>3. (AsVersion(id)').tags \intersect Asked' # {}
        BY <1>4, <3>2 DEF Wanted
      <3>4. PICK i \in DOMAIN tags : tags[i] \in (AsVersion(id)').tags
        BY <3>2, <3>3
      <3> QED BY <1>1, <2>2, <3>4 DEF Matches
    <2> QED BY <2>1, <2>2
  <1>5. \A id \in steady' : Wanted(id)' => Pending(id)'
    BY <1>4 DEF Pending, Matches
  <1> QED BY <1>1, <1>2, <1>5, SearchBounds DEF Collected

LEMMA ChangeKeepsFoundInv ==
  ASSUME VisitInv, FoundInv, NEW i \in PublishIds, NEW r \in Record, Change(i, r)
  PROVE  FoundInv'
  <1>1. /\ visit' = visit /\ steady' = steady \ {i}
        /\ \A id \in steady' : AsVersion(id)' = AsVersion(id) /\ records'[id] = records[id]
    BY SteadyStay
  <1>2. UNCHANGED <<mode, query, want, todo, found, result, cut>>
    BY <1>1 DEF visit
  <1>3. Asked' = Asked /\ \A v : Overlap(v)' = Overlap(v)
    BY <1>2 DEF Asked, Overlap
  <1>4. ASSUME NEW id \in steady' \ cut', mode' = "discover", Wanted(id)'
        PROVE  Pending(id)'
    <2>1. Wanted(id) /\ id \in steady \ cut
      BY <1>1, <1>2, <1>3, <1>4 DEF Wanted, Fits
    <2>2. Pending(id)
      BY <1>2, <1>4, <2>1 DEF FoundInv
    <2> QED BY <1>1, <1>2, <2>2 DEF Pending
  <1>5. DiscoverFindsBest'
    <2>1. ASSUME mode' = "answered", NEW id \in steady' \ cut', records'[id] # NoRecord,
                 records'[id].listed
          PROVE  \/ Asked' # {} /\ Overlap(AsVersion(id))' = 0
                 \/ AsVersion(id)' \in result'
                 \/ /\ Cardinality(result') = want'
                    /\ \A w \in result' : Overlap(w)' >= Overlap(AsVersion(id))'
      <3>1. id \in steady \ cut /\ records[id] # NoRecord /\ records[id].listed
        BY <1>1, <1>2, <2>1
      <3>2. Overlap(AsVersion(id))' = Overlap(AsVersion(id))
        BY <1>1, <1>3, <2>1 DEF Overlap
      <3>3. \/ Asked # {} /\ Overlap(AsVersion(id)) = 0
            \/ AsVersion(id) \in result
            \/ /\ Cardinality(result) = want
               /\ \A w \in result : Overlap(w) >= Overlap(AsVersion(id))
        BY <1>2, <2>1, <3>1 DEF FoundInv, DiscoverFindsBest
      <3> QED BY <1>1, <1>2, <1>3, <2>1, <3>2, <3>3
    <2> QED BY <2>1 DEF DiscoverFindsBest
  <1> QED BY <1>2, <1>4, <1>5 DEF FoundInv

LEMMA NextKeepsFoundInv ==
  ASSUME VisitInv, FoundInv, [SearchNext]_searchVars
  PROVE  FoundInv'
  <1>1. CASE searchVars' = searchVars
    BY <1>1 DEF searchVars, visit, FoundInv, Wanted, Pending, Fits, AsVersion, Asked, Matches,
                DiscoverFindsBest, Overlap
  <1>2. CASE \/ \E id \in PublishIds, created \in Times, tags \in SUBSET Tags : Publish(id, created, tags)
             \/ \E id \in PublishIds : Unlist(id) \/ Relist(id)
    BY <1>2, ChangesAreChanges, ChangeKeepsFoundInv
  <1>3. CASE \/ \E tag \in Tags \union {AnyTag} : Browse(tag)
             \/ \E limit \in PageSizes : Search(limit)
    <2>1. found' = found /\ mode' = "search"
      BY <1>3 DEF Browse, Search
    <2> QED BY <2>1 DEF FoundInv, DiscoverFindsBest
  <1>4. CASE \E tags \in Queries, limit \in PageSizes : Discover(tags, limit)
    <2>1. Collected' /\ want' \in Nat \ {0}
      BY <1>4, DiscoverOwes
    <2>2. mode' = "discover"
      BY <1>4 DEF Discover
    <2> QED BY <2>1, <2>2 DEF Collected, FoundInv, DiscoverFindsBest
  <1>5. CASE Collect \/ CollectTag
    <2>1. Collected'
      BY <1>5, CollectFinds, CollectTagFinds
    <2>2. mode = "discover" /\ mode' = "discover" /\ want' = want
      BY <1>5 DEF Collect, CollectTag
    <2> QED BY <2>1, <2>2 DEF Collected, FoundInv, DiscoverFindsBest
  <1>6. CASE Rank
    <2>1. DiscoverFindsBest'
      BY <1>6, RankFindsBest
    <2>2. IsFiniteSet(found') /\ found' = {} /\ mode' = "answered"
      BY <1>6, FS_EmptySet DEF Rank
    <2> QED BY <2>1, <2>2 DEF FoundInv
  <1> QED BY <1>1, <1>2, <1>3, <1>4, <1>5, <1>6 DEF SearchNext

(* Discover answers with the best, for any number of records, tags and     *)
(* candidates: a record that fits, did not change and was not beyond the   *)
(* newest candidates of a query is left out only for as many others as     *)
(* were asked for, each with as many of the tags, also when records change *)
(* between the queries for the tags.                                       *)
THEOREM DiscoverAnswersWithTheBest == SearchSpec => []DiscoverFindsBest
  <1>1. SearchInit => FoundInv
    <2> SUFFICES ASSUME SearchInit PROVE FoundInv
      OBVIOUS
    <2> QED BY FS_EmptySet DEF SearchInit, FoundInv, DiscoverFindsBest
  <1>2. FoundInv => DiscoverFindsBest
    BY DEF FoundInv
  <1> QED BY <1>1, <1>2, InitVisitInv, NextKeepsVisitInv, NextKeepsFoundInv, PTL DEF SearchSpec

=============================================================================
