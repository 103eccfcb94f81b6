----------------------------- MODULE RequestAuth -----------------------------
(***************************************************************************)
(* Replay protection of signed requests (delete and inbox).  After the     *)
(* signature is verified a handler reads the clock once, checks that the   *)
(* signed timestamp is at most Skew away from it, and then, under the      *)
(* tracker's mutex, forgets the nonces it considers old and marks its own. *)
(* The tracker lives in the memory of one relay process: a restart loses   *)
(* it.                                                                     *)
(*                                                                         *)
(* The clock is read before the mutex is taken, so a handler may mark with *)
(* a time that is behind the clock and behind what other handlers marked.  *)
(***************************************************************************)
EXTENDS Naturals, Sequences

CONSTANTS
    Handlers,     \* connection threads
    NonceKeys,    \* RequestNonceKey: a peer id and a nonce
    Skew,         \* REQUEST_SIGNATURE_MAX_SKEW_SECONDS
    NotSeen,      \* no entry in seen_nonces
    NoRequest,
    MaxUtc,       \* bound: the clock stops here
    MaxRequests,  \* bound: requests that arrive in one behaviour
    MaxRestarts   \* bound: restarts of the relay

(* A signature covers the nonce and the timestamp.                         *)
SignedRequest == [key : NonceKeys, ts : Nat]

ASSUME BoundsAreNat ==
    Skew \in Nat /\ MaxUtc \in Nat /\ MaxRequests \in Nat /\ MaxRestarts \in Nat
ASSUME NotSeenIsFresh == NotSeen \notin Nat
ASSUME NoRequestIsFresh == NoRequest \notin SignedRequest

VARIABLES
    utc,          \* Utc::now(), in units of Skew's granularity
    seen,         \* RequestAuthTracker.seen_nonces
    pc, req,
    readAt,       \* the time a handler read
    arrived,      \* requests so far, against MaxRequests
    life,         \* process lifetimes so far, against MaxRestarts
    accepted      \* history: the requests that passed, in marking order

authVars == <<utc, seen, pc, req, readAt, arrived, life, accepted>>

Acceptance == [key : NonceKeys, ts : Nat, at : Nat, clock : Nat, life : Nat]

AuthTypeOK ==
    /\ utc \in 0 .. MaxUtc
    /\ seen \in [NonceKeys -> Nat \union {NotSeen}]
    /\ pc \in [Handlers -> {"idle", "check", "mark", "serve"}]
    /\ req \in [Handlers -> SignedRequest \union {NoRequest}]
    /\ readAt \in [Handlers -> Nat]
    /\ arrived \in 0 .. MaxRequests
    /\ life \in 0 .. MaxRestarts
    /\ accepted \in Seq(Acceptance)
    /\ \A h \in Handlers : pc[h] # "idle" => req[h] \in SignedRequest

AuthInit ==
    /\ utc = 0
    /\ seen = [k \in NonceKeys |-> NotSeen]
    /\ pc = [h \in Handlers |-> "idle"]
    /\ req = [h \in Handlers |-> NoRequest]
    /\ readAt = [h \in Handlers |-> 0]
    /\ arrived = 0
    /\ life = 0
    /\ accepted = <<>>

-----------------------------------------------------------------------------
UtcTick ==
    /\ utc < MaxUtc
    /\ utc' = utc + 1
    /\ UNCHANGED <<seen, pc, req, readAt, arrived, life, accepted>>

(* A request with a valid signature reaches validate_request_auth_controls.*)
(* The same signed request may arrive again: a retry, or a duplicate.      *)
Arrive(h, r) ==
    /\ pc[h] = "idle"
    /\ arrived < MaxRequests
    /\ arrived' = arrived + 1
    /\ pc' = [pc EXCEPT ![h] = "check"]
    /\ req' = [req EXCEPT ![h] = r]
    /\ UNCHANGED <<utc, seen, readAt, life, accepted>>

Release(h) ==
    /\ pc' = [pc EXCEPT ![h] = "idle"]
    /\ req' = [req EXCEPT ![h] = NoRequest]
    /\ readAt' = [readAt EXCEPT ![h] = 0]

InWindow(ts, t) == t <= ts + Skew /\ ts <= t + Skew

(* The clock is read and the timestamp compared with it.                   *)
CheckTimestamp(h) ==
    /\ pc[h] = "check"
    /\ \/ /\ InWindow(req[h].ts, utc)
          /\ pc' = [pc EXCEPT ![h] = "mark"]
          /\ readAt' = [readAt EXCEPT ![h] = utc]
          /\ UNCHANGED req
       \/ /\ ~InWindow(req[h].ts, utc)        \* stale_request_signature
          /\ Release(h)
    /\ UNCHANGED <<utc, seen, arrived, life, accepted>>

(* Mutant: a nonce is forgotten one unit early.                            *)
RetainOneLess(t) ==
    [k \in NonceKeys |-> IF seen[k] # NotSeen /\ seen[k] + Skew > t
                         THEN seen[k] ELSE NotSeen]

(* seen.retain: what a handler that read time t leaves of the nonces.      *)
Retain(t) ==
    [k \in NonceKeys |-> IF seen[k] # NotSeen /\ seen[k] + Skew >= t
                         THEN seen[k] ELSE NotSeen]

(* Mutant: whether the nonce was already there is not looked at.           *)
MarkNonceUnchecked(h) ==
    /\ pc[h] = "mark"
    /\ seen' = [Retain(readAt[h]) EXCEPT ![req[h].key] = readAt[h]]
    /\ pc' = [pc EXCEPT ![h] = "serve"]
    /\ accepted' = Append(accepted,
           [key |-> req[h].key, ts |-> req[h].ts, at |-> readAt[h],
            clock |-> utc, life |-> life])
    /\ UNCHANGED <<req, readAt, utc, arrived, life>>

(* mark_nonce_once, under the mutex.                                       *)
MarkNonce(h) ==
    LET kept == Retain(readAt[h])
        k == req[h].key
    IN  /\ pc[h] = "mark"
        /\ \/ /\ kept[k] # NotSeen            \* replayed_request_nonce
              /\ seen' = kept
              /\ Release(h)
              /\ UNCHANGED accepted
           \/ /\ kept[k] = NotSeen
              /\ seen' = [kept EXCEPT ![k] = readAt[h]]
              /\ pc' = [pc EXCEPT ![h] = "serve"]
              /\ accepted' = Append(accepted,
                     [key |-> k, ts |-> req[h].ts, at |-> readAt[h],
                      clock |-> utc, life |-> life])
              /\ UNCHANGED <<req, readAt>>
        /\ UNCHANGED <<utc, arrived, life>>

(* The endpoint runs and answers, with a storage error or without: the     *)
(* nonce stays spent either way.                                           *)
Serve(h) ==
    /\ pc[h] = "serve"
    /\ Release(h)
    /\ UNCHANGED <<utc, seen, arrived, life, accepted>>

(* The relay is stopped and started: ServerState is built anew.            *)
Restart ==
    /\ life < MaxRestarts
    /\ life' = life + 1
    /\ seen' = [k \in NonceKeys |-> NotSeen]
    /\ pc' = [h \in Handlers |-> "idle"]
    /\ req' = [h \in Handlers |-> NoRequest]
    /\ readAt' = [h \in Handlers |-> 0]
    /\ UNCHANGED <<utc, arrived, accepted>>

Quiescent ==
    /\ arrived = MaxRequests /\ utc = MaxUtc /\ life = MaxRestarts
    /\ \A h \in Handlers : pc[h] = "idle"
    /\ UNCHANGED authVars

(* Signed timestamps beyond MaxUtc + Skew are never accepted, so requests  *)
(* up to there are all that matters.                                       *)
AuthNext ==
    \/ \E h \in Handlers :
          \/ \E k \in NonceKeys, ts \in 0 .. MaxUtc + Skew + 1 :
                Arrive(h, [key |-> k, ts |-> ts])
          \/ CheckTimestamp(h) \/ MarkNonce(h) \/ Serve(h)
    \/ UtcTick \/ Restart \/ Quiescent

AuthSpec == AuthInit /\ [][AuthNext]_authVars

-----------------------------------------------------------------------------
(* Acceptances i and j of one nonce by one process, i marked first.        *)
SameNonce(i, j) ==
    /\ i < j
    /\ accepted[i].key = accepted[j].key
    /\ accepted[i].life = accepted[j].life

(* mark_nonce_once rejects a nonce again for Skew after the time it was    *)
(* marked with, whatever other handlers prune in the meantime and however  *)
(* old the time they prune with: a second acceptance by the same process   *)
(* comes only when the clock has passed that.                              *)
NonceRejectedForSkew ==
    \A i, j \in 1 .. Len(accepted) :
        SameNonce(i, j) => accepted[j].clock > accepted[i].at + Skew

(* A nonce marked in this lifetime that is not yet Skew old is remembered. *)
RecentNoncesRemembered ==
    \A i \in 1 .. Len(accepted) :
        /\ accepted[i].life = life
        /\ utc <= accepted[i].at + Skew
        => seen[accepted[i].key] # NotSeen

(* What the protocol asks for (replay rejection for reused nonce values    *)
(* inside the replay window): one signed request is accepted at most once  *)
(* by one process, as its timestamp does not change.                       *)
SignedRequestAcceptedOnce ==
    \A i, j \in 1 .. Len(accepted) :
        SameNonce(i, j) => accepted[i].ts # accepted[j].ts

=============================================================================
