---------------------------- MODULE RequestLimits ----------------------------
(***************************************************************************)
(* What bounds the relay's work: the accept loop with its limit on open    *)
(* connections, the life of a connection thread, and the limiter of        *)
(* requests per client and minute.                                         *)
(*                                                                         *)
(* A thread holds its slot from try_acquire until its guard is dropped, on *)
(* every path, a panic included.  The limiter reads the clock before it    *)
(* takes its mutex: a thread may count itself with a time that is older    *)
(* than the window it finds.                                               *)
(***************************************************************************)
EXTENDS Integers, FiniteSets

CONSTANTS
    Threads,          \* connection threads; more than MaxConnections
    MaxConnections,   \* ServerState.connection_limiter.max_connections
    Keys,             \* RateLimitKey: a client and a class of routes
    LimitOf,          \* requests per window, by the class of the key
    Second, Window,   \* a second and RATE_LIMIT_WINDOW, in clock readings
    NoKey,            \* a request that is not limited: /health
    NoBucket,
    MaxTime           \* bound: the clock stops here

ASSUME LimitBounds ==
    /\ IsFiniteSet(Threads)
    /\ MaxConnections \in Nat \ {0}
    /\ LimitOf \in [Keys -> Nat \ {0}]
    /\ Second \in Nat \ {0} /\ Window \in Nat \ {0}
    /\ NoKey \notin Keys
    /\ MaxTime \in Nat

(* RateLimitBucket.                                                        *)
Bucket == [start : Nat, count : Nat]

ASSUME NoBucketIsFresh == NoBucket \notin Bucket

(* A request that was let through: the time it read, the window that it is *)
(* counted in, and its number there.                                       *)
Admission == [stamp : Nat, start : Nat, number : Nat]

VARIABLES
    clock,
    listener,         \* the accept loop: accepting, or writing a 503
    active,           \* ConnectionLimiter.active_connections
    at,               \* where each thread is
    key, now,         \* its request's key, and the time the limiter read
    retry,            \* the Retry-After of its answer; 0 without one
    buckets,          \* RateLimiter.buckets
    admitted          \* history: the admissions of each key

vars == <<clock, listener, active, at, key, now, retry, buckets, admitted>>
requestVars == <<key, now, retry>>
limiterVars == <<buckets, admitted>>

TypeOK ==
    /\ clock \in 0 .. MaxTime
    /\ listener \in {"accepting", "refusing"}
    /\ active \in Nat
    /\ at \in [Threads -> {"none", "reading", "stamp", "check", "work", "writing",
                           "closing"}]
    /\ key \in [Threads -> Keys \union {NoKey}]
    /\ now \in [Threads -> 0 .. MaxTime]
    /\ retry \in [Threads -> 0 .. Window]
    /\ buckets \in [Keys -> Bucket \union {NoBucket}]
    /\ admitted \in [Keys -> SUBSET Admission]

Init ==
    /\ clock = 0
    /\ listener = "accepting"
    /\ active = 0
    /\ at = [t \in Threads |-> "none"]
    /\ key = [t \in Threads |-> NoKey]
    /\ now = [t \in Threads |-> 0]
    /\ retry = [t \in Threads |-> 0]
    /\ buckets = [k \in Keys |-> NoBucket]
    /\ admitted = [k \in Keys |-> {}]

-----------------------------------------------------------------------------
Tick ==
    /\ clock < MaxTime
    /\ clock' = clock + 1
    /\ UNCHANGED <<listener, active, at, requestVars, limiterVars>>

(* Mutant: the limit itself is let through.                                *)
HasSlotOffByOne == active <= MaxConnections

(* try_acquire.                                                            *)
HasSlot == active < MaxConnections

(* A connection is accepted and a thread spawned with its guard.           *)
Accept(t) ==
    /\ listener = "accepting"
    /\ at[t] = "none"
    /\ HasSlot
    /\ active' = active + 1
    /\ at' = [at EXCEPT ![t] = "reading"]
    /\ UNCHANGED <<clock, listener, requestVars, limiterVars>>

(* At the limit the accept loop answers 503 itself, and accepts nobody     *)
(* until it has written that.                                              *)
Refuse ==
    /\ listener = "accepting"
    /\ ~HasSlot
    /\ listener' = "refusing"
    /\ UNCHANGED <<clock, active, at, requestVars, limiterVars>>

(* Mutant: the loop is not continued.                                      *)
AfterRefusalStuck == "refusing"

AfterRefusal == "accepting"

RefuseDone ==
    /\ listener = "refusing"
    /\ listener' = AfterRefusal
    /\ UNCHANGED <<clock, active, at, requestVars, limiterVars>>

Goto(t, label) == at' = [at EXCEPT ![t] = label]

(* read_http_request has parsed a request.  A path that is not limited     *)
(* goes past the limiter.                                                  *)
ReadRequest(t, k) ==
    /\ at[t] = "reading"
    /\ key' = [key EXCEPT ![t] = k]
    /\ Goto(t, IF k = NoKey THEN "work" ELSE "stamp")
    /\ UNCHANGED <<clock, listener, active, now, retry, limiterVars>>

(* Its Content-Length is beyond max_body_bytes: 413, before the limiter.   *)
ReadTooLarge(t) ==
    /\ at[t] = "reading"
    /\ Goto(t, "writing")
    /\ UNCHANGED <<clock, listener, active, requestVars, limiterVars>>

(* A malformed request, the end of the stream or the read timeout ends     *)
(* handle_connection without an answer.                                    *)
ReadFails(t) ==
    /\ at[t] = "reading"
    /\ Goto(t, "closing")
    /\ UNCHANGED <<clock, listener, active, requestVars, limiterVars>>

(* RateLimiter::check reads the clock, and then takes the mutex.           *)
Stamp(t) ==
    /\ at[t] = "stamp"
    /\ now' = [now EXCEPT ![t] = clock]
    /\ Goto(t, "check")
    /\ UNCHANGED <<clock, listener, active, key, retry, limiterVars>>

(* Instant::duration_since: zero for an earlier instant.                   *)
Since(t, start) == IF t > start THEN t - start ELSE 0

(* The bucket that a request stamped n finds or makes, after a reset when  *)
(* its window is over.                                                     *)
Renewed(b, n) ==
    IF b = NoBucket \/ Since(n, b.start) >= Window
    THEN [start |-> n, count |-> 0]
    ELSE b

(* Mutant: one request more than the limit.                                *)
IsFullOffByOne(b, limit) == b.count > limit

IsFull(b, limit) == b.count >= limit

(* Whole seconds, at least one.                                            *)
RetryAfter(b, n) ==
    LET seconds == (Window - Since(n, b.start)) \div Second
    IN  IF seconds < 1 THEN 1 ELSE seconds

(* The rest of check, under the mutex.                                     *)
Check(t) ==
    LET k == key[t]
        b == Renewed(buckets[k], now[t])
    IN  /\ at[t] = "check"
        /\ \/ /\ IsFull(b, LimitOf[k])
              /\ buckets' = [buckets EXCEPT ![k] = b]
              /\ retry' = [retry EXCEPT ![t] = RetryAfter(b, now[t])]
              /\ Goto(t, "writing")
              /\ UNCHANGED admitted
           \/ /\ ~IsFull(b, LimitOf[k])
              /\ buckets' = [buckets EXCEPT ![k] = [b EXCEPT !.count = @ + 1]]
              /\ admitted' = [admitted EXCEPT ![k] = @ \union
                    {[stamp |-> now[t], start |-> b.start, number |-> b.count + 1]}]
              /\ Goto(t, "work")
              /\ UNCHANGED retry
        /\ UNCHANGED <<clock, listener, active, key, now>>

(* The route's handler answers.                                            *)
Handle(t) ==
    /\ at[t] = "work"
    /\ Goto(t, "writing")
    /\ UNCHANGED <<clock, listener, active, requestVars, limiterVars>>

(* It panics, for one on a mutex that is poisoned, and the thread unwinds. *)
Panic(t) ==
    /\ at[t] = "work"
    /\ Goto(t, "closing")
    /\ UNCHANGED <<clock, listener, active, requestVars, limiterVars>>

(* write_http_response ends, well or with an error or the write timeout;   *)
(* it closes the stream.                                                   *)
Write(t) ==
    /\ at[t] = "writing"
    /\ Goto(t, "closing")
    /\ UNCHANGED <<clock, listener, active, requestVars, limiterVars>>

(* The guard is dropped, and the thread ends.                              *)
DropGuard(t) ==
    /\ at[t] = "closing"
    /\ active' = IF active = 0 THEN 0 ELSE active - 1
    /\ Goto(t, "none")
    /\ key' = [key EXCEPT ![t] = NoKey]
    /\ now' = [now EXCEPT ![t] = 0]
    /\ retry' = [retry EXCEPT ![t] = 0]
    /\ UNCHANGED <<clock, listener, limiterVars>>

Step(t) ==
    \/ \E k \in Keys \union {NoKey} : ReadRequest(t, k)
    \/ ReadTooLarge(t)
    \/ ReadFails(t)
    \/ Stamp(t)
    \/ Check(t)
    \/ Handle(t)
    \/ Panic(t)
    \/ Write(t)
    \/ DropGuard(t)

Next ==
    \/ Tick
    \/ Refuse
    \/ RefuseDone
    \/ \E t \in Threads : Accept(t) \/ Step(t)

Spec == Init /\ [][Next]_vars

(* Threads run; every read and write of a thread's socket times out.  The  *)
(* accept loop's answer fits the socket's buffer.                          *)
FairSpec ==
    /\ Spec
    /\ WF_vars(RefuseDone)
    /\ \A t \in Threads : WF_vars(Step(t))

-----------------------------------------------------------------------------
(* The slots in use are those of the threads that live, and never more     *)
(* than max_connections: no path of a thread keeps its slot or gives back  *)
(* one that is not its own.                                                *)
SlotsMatchThreads ==
    /\ active = Cardinality({t \in Threads : at[t] # "none"})
    /\ active <= MaxConnections

(* In any span of one window a client gets at most two limits' worth of    *)
(* requests through, of those that were counted in a window that had begun *)
(* when they read the clock: fixed windows let one limit through at the    *)
(* end of a window and one at the start of the next, never a third.        *)
RateIsBounded ==
    \A k \in Keys, t \in 0 .. MaxTime :
        Cardinality({a \in admitted[k] :
                        /\ a.start <= a.stamp
                        /\ a.stamp \in t .. t + Window - 1}) <= 2 * LimitOf[k]

(* The relay never stays closed: again and again the accept loop accepts   *)
(* and has a slot to give, whatever requests do, time-outs and panics      *)
(* included.                                                               *)
RelayReopens == []<>(listener = "accepting" /\ active < MaxConnections)

=============================================================================
