---------------------------- MODULE ActivityStore ----------------------------
(***************************************************************************)
(* The relay's bucket of encrypted activity events: what put, list and the *)
(* pruning of expired events do to it, and what a page of it holds.  All   *)
(* devices of an agent derive the bucket id and its auth token from the    *)
(* identity, so one bucket is modelled and its token always fits.          *)
(***************************************************************************)
EXTENDS Naturals, FiniteSets

CONSTANTS
    Devices,
    Entries,          \* what a memory can hold: tags, peers, interactions
    Versions,         \* their times; 0 of an entry that is not there
    Profiles,         \* values of the memory's profile
    Ids,              \* event ids, in the order of their strings
    TTL,              \* ACTIVITY_TTL_SECONDS
    MaxEvents,        \* MAX_ACTIVITY_EVENTS
    None              \* no cursor

ASSUME StoreBounds ==
    /\ Ids \subseteq Nat /\ Versions \subseteq Nat /\ 0 \in Versions
    /\ TTL \in Nat \ {0} /\ MaxEvents \in Nat \ {0}
    /\ Profiles # {}

(* What a device uploads of its memory.                                    *)
Known == [Entries -> Versions]
Snapshot == [known : Known, profile : Profiles, updated : Nat]

(* ActivityEvent; its expiry is the same for all events.                   *)
Event == [id : Ids, device : Devices, created : Nat, memory : Snapshot]
ExpiresAt(e) == e.created + TTL

(* ActivityCursor.                                                         *)
Cursor == [created : Nat, id : Ids]

ASSUME NoneIsFresh == None \notin Cursor

-----------------------------------------------------------------------------
(* compare_activity_events_oldest_first: by time, then by id.              *)
After(e, f) ==
    \/ e.created > f.created
    \/ e.created = f.created /\ e.id > f.id

(* Mutant: only the times are compared.                                    *)
AfterCursorByTime(e, c) == e.created > c.created

(* activity_event_is_after_cursor.                                         *)
AfterCursor(e, c) ==
    \/ e.created > c.created
    \/ e.created = c.created /\ e.id > c.id

Prune(S, now) == {e \in S : ExpiresAt(e) > now}

(* Mutant: the newest events are drained.                                  *)
DrainNewest(S) == {e \in S : Cardinality({f \in S : After(e, f)}) < MaxEvents}

(* Mutant: nothing is drained.                                             *)
DrainNothing(S) == S

(* Sorted oldest first; the oldest beyond MaxEvents are drained.           *)
Drain(S) == {e \in S : Cardinality({f \in S : After(f, e)}) < MaxEvents}

(* StoredActivityBucket::put.                                              *)
Put(S, e, now) ==
    LET live == Prune(S, now)
    IN  IF \E x \in live : x.id = e.id THEN live ELSE Drain(live \union {e})

(* StoredActivityBucket::list of what has not expired: the first events    *)
(* after the cursor, and a cursor when there are more.                     *)
Rest(S, cursor) == {e \in S : cursor = None \/ AfterCursor(e, cursor)}

Page(S, cursor, limit) ==
    {e \in Rest(S, cursor) :
        Cardinality({f \in Rest(S, cursor) : After(e, f)}) < limit}

NextCursor(S, cursor, limit) ==
    LET page == Page(S, cursor, limit)
        last == CHOOSE e \in page : \A f \in page \ {e} : After(e, f)
    IN  IF page = Rest(S, cursor) THEN None
        ELSE [created |-> last.created, id |-> last.id]

=============================================================================
