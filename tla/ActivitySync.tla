----------------------------- MODULE ActivitySync -----------------------------
(***************************************************************************)
(* `aichan sync` on several devices of one agent.  A command reads the     *)
(* memory file, uploads a snapshot of it, downloads one page of the events *)
(* after the cursor that the file holds, merges those of other devices and *)
(* writes the file back with the cursor of the next page.  Nothing locks   *)
(* the state directory: several commands may run on one device.            *)
(*                                                                         *)
(* On Firestore the relay reads the bucket and commits it under the        *)
(* precondition that it has not changed; also a GET commits, when it has   *)
(* pruned.  The file store does the same under a mutex: its behaviours are *)
(* those in which nothing comes between the two steps.                     *)
(***************************************************************************)
EXTENDS ActivityStore

CONSTANTS
    Commands, DeviceOf,   \* command slots and the device each runs on
    Limits,               \* page sizes, after clamping
    Skews,                \* how far a device's clock may be ahead
    MaxTime,              \* bound: the clock stops here
    MaxEdits              \* bound: edits of memory files by the agent

ASSUME SyncBounds ==
    /\ DeviceOf \in [Commands -> Devices]
    /\ Limits \subseteq Nat \ {0} /\ Skews \subseteq Nat
    /\ MaxTime \in Nat /\ MaxEdits \in Nat

(* MemoryFile with its activity_cursor.  history: the events that were     *)
(* stored when the round of pages began that the cursor belongs to.        *)
Memory == [known : Known, profile : Profiles, updated : Nat,
           cursor : Cursor \union {None}, round : SUBSET Event]

VARIABLES
    clock, skew,
    events,           \* the stored events
    version,          \* updateTime of the bucket's document
    late,             \* commits whose handler has given up
    memory,           \* the memory file of each device
    at,               \* where each command is
    mem,              \* its copy of the memory
    event,            \* what it uploads
    seen, base,       \* the bucket its request has read, and its updateTime
    now,              \* the time its GET has read
    page, next,       \* the page it has got, and the cursor with it
    used,             \* event ids so far
    acked,            \* history: events whose upload was answered
    edits             \* edits so far, against MaxEdits

relayVars == <<events, version, late, acked>>
vars == <<clock, skew, events, version, late, memory, at, mem, event, seen, base,
          now, page, next, used, acked, edits>>

TypeOK ==
    /\ clock \in 0 .. MaxTime
    /\ skew \in [Devices -> Skews]
    /\ events \subseteq Event
    /\ Cardinality(events) <= MaxEvents
    /\ version \in Nat
    /\ late \subseteq [base : Nat, events : SUBSET Event]
    /\ memory \in [Devices -> Memory]
    /\ at \in [Commands -> {"idle", "put", "commit", "get", "list", "pruned",
                              "merge"}]
    /\ mem \in [Commands -> Memory]
    /\ event \in [Commands -> SUBSET Event]
    /\ seen \in [Commands -> SUBSET Event]
    /\ base \in [Commands -> Nat]
    /\ now \in [Commands -> Nat]
    /\ page \in [Commands -> SUBSET Event]
    /\ next \in [Commands -> Cursor \union {None}]
    /\ used \subseteq Ids
    /\ acked \subseteq Event
    /\ edits \in 0 .. MaxEdits

(* The devices start from memories of the same agent.                      *)
Fresh(p) == [known |-> [x \in Entries |-> 0], profile |-> p, updated |-> 0, cursor |-> None,
             round |-> {}]
Blank == Fresh(CHOOSE p \in Profiles : TRUE)

Init ==
    /\ clock = 0
    /\ skew \in [Devices -> Skews]
    /\ events = {}
    /\ version = 0
    /\ late = {}
    /\ \E p \in Profiles : memory = [d \in Devices |-> Fresh(p)]
    /\ mem = [c \in Commands |-> Blank]
    /\ at = [c \in Commands |-> "idle"]
    /\ event = [c \in Commands |-> {}]
    /\ seen = [c \in Commands |-> {}]
    /\ base = [c \in Commands |-> 0]
    /\ now = [c \in Commands |-> 0]
    /\ page = [c \in Commands |-> {}]
    /\ next = [c \in Commands |-> None]
    /\ used = {}
    /\ acked = {}
    /\ edits = 0

-----------------------------------------------------------------------------
Tick ==
    /\ clock < MaxTime
    /\ clock' = clock + 1
    /\ UNCHANGED <<skew, relayVars, memory, at, mem, event, seen, base, now, page, next,
                   used, edits>>

(* The agent edits its memory file, which ends what the round promised.    *)
Edit(d, k, p) ==
    /\ edits < MaxEdits
    /\ edits' = edits + 1
    /\ memory' = [memory EXCEPT ![d] =
                     [@ EXCEPT !.known = k, !.profile = p,
                               !.updated = clock + skew[d], !.round = {}]]
    /\ UNCHANGED <<clock, skew, relayVars, at, mem, event, seen, base, now, page, next, used>>

(* sync reads the memory and encrypts a snapshot of it.                    *)
Start(c, id) ==
    LET d == DeviceOf[c] IN
    /\ at[c] = "idle"
    /\ id \notin used
    /\ used' = used \union {id}
    /\ at' = [at EXCEPT ![c] = "put"]
    /\ mem' = [mem EXCEPT ![c] = memory[d]]
    /\ event' = [event EXCEPT ![c] =
          {[id |-> id, device |-> d, created |-> clock + skew[d],
            memory |-> [known |-> memory[d].known, profile |-> memory[d].profile,
                        updated |-> memory[d].updated]]}]
    /\ UNCHANGED <<clock, skew, relayVars, memory, seen, base, now, page, next, edits>>

(* An error, or the end: the command keeps nothing.                        *)
Finish(c) ==
    /\ at' = [at EXCEPT ![c] = "idle"]
    /\ mem' = [mem EXCEPT ![c] = Blank]
    /\ event' = [event EXCEPT ![c] = {}]
    /\ seen' = [seen EXCEPT ![c] = {}]
    /\ base' = [base EXCEPT ![c] = 0]
    /\ now' = [now EXCEPT ![c] = 0]
    /\ page' = [page EXCEPT ![c] = {}]
    /\ next' = [next EXCEPT ![c] = None]
    /\ UNCHANGED <<clock, skew, used, edits>>

(* POST /v1/activity: the relay reads the bucket, then the clock.          *)
PutGet(c) ==
    /\ at[c] = "put"
    /\ at' = [at EXCEPT ![c] = "commit"]
    /\ seen' = [seen EXCEPT ![c] = UNION {Put(events, e, clock) : e \in event[c]}]
    /\ base' = [base EXCEPT ![c] = version]
    /\ UNCHANGED <<clock, skew, relayVars, memory, mem, event, now, page, next, used, edits>>

(* Mutant: commits carry no precondition.                                  *)
PreconditionDropped(v) == TRUE

(* FirestorePrecondition: the bucket is the one that was read.             *)
PreconditionHolds(v) == version = v

Write(S) ==
    /\ events' = S
    /\ version' = version + 1

(* commit_bucket, and the answer reaches the command.                      *)
PutCommit(c) ==
    /\ at[c] = "commit"
    /\ PreconditionHolds(base[c])
    /\ Write(seen[c])
    /\ acked' = acked \union event[c]
    /\ at' = [at EXCEPT ![c] = "get"]
    /\ event' = [event EXCEPT ![c] = {}]
    /\ seen' = [seen EXCEPT ![c] = {}]
    /\ base' = [base EXCEPT ![c] = 0]
    /\ UNCHANGED <<clock, skew, late, memory, mem, now, page, next, used, edits>>

(* GET /v1/activity reads the clock before it asks the store.              *)
ListBegin(c) ==
    /\ at[c] = "get"
    /\ at' = [at EXCEPT ![c] = "list"]
    /\ now' = [now EXCEPT ![c] = clock]
    /\ UNCHANGED <<clock, skew, relayVars, memory, mem, event, seen, base, page, next,
                   used, edits>>

(* The bucket is read: what is expired is pruned, and a page made up.        *)
ListGet(c, limit) ==
    LET live == Prune(events, now[c])
        cursor == mem[c].cursor
    IN  /\ at[c] = "list"
        /\ \/ /\ live = events
              /\ at' = [at EXCEPT ![c] = "merge"]
              /\ UNCHANGED <<seen, base>>
           \/ /\ live # events
              /\ at' = [at EXCEPT ![c] = "pruned"]
              /\ seen' = [seen EXCEPT ![c] = live]
              /\ base' = [base EXCEPT ![c] = version]
        /\ now' = [now EXCEPT ![c] = 0]
        /\ page' = [page EXCEPT ![c] = Page(live, cursor, limit)]
        /\ next' = [next EXCEPT ![c] = NextCursor(live, cursor, limit)]
        /\ mem' = [mem EXCEPT ![c].round = IF cursor = None THEN live ELSE @]
        /\ UNCHANGED <<clock, skew, relayVars, memory, event, used, edits>>

(* A GET that has pruned saves the bucket before it answers.               *)
ListCommit(c) ==
    /\ at[c] = "pruned"
    /\ PreconditionHolds(base[c])
    /\ Write(seen[c])
    /\ at' = [at EXCEPT ![c] = "merge"]
    /\ seen' = [seen EXCEPT ![c] = {}]
    /\ base' = [base EXCEPT ![c] = 0]
    /\ UNCHANGED <<clock, skew, late, acked, memory, mem, event, now, page, next, used,
                   edits>>

(* A request fails without effect, or the precondition does: sync ends.    *)
RequestFails(c) ==
    /\ at[c] \in {"put", "commit", "get", "list", "pruned"}
    /\ Finish(c)
    /\ UNCHANGED <<relayVars, memory>>

(* A commit times out, or its answer is lost: sync ends, and Firestore     *)
(* applies the commit sooner or later, or not at all.                      *)
CommitTimesOut(c) ==
    /\ at[c] \in {"commit", "pruned"}
    /\ late' = late \union {[base |-> base[c], events |-> seen[c]]}
    /\ Finish(c)
    /\ UNCHANGED <<events, version, acked, memory>>

LateCommit(w) ==
    /\ late' = late \ {w}
    /\ \/ PreconditionHolds(w.base) /\ Write(w.events)
       \/ UNCHANGED <<events, version>>
    /\ UNCHANGED <<clock, skew, acked, memory, at, mem, event, seen, base, now, page, next,
                   used, edits>>

-----------------------------------------------------------------------------
(* Entries are added, and replaced by newer ones.                          *)
NewestEntries(local, remote) ==
    [x \in Entries |-> IF remote[x] > local[x] THEN remote[x] ELSE local[x]]

(* merge_memory_snapshot.  The profile follows the later updated_at;       *)
(* updated_at follows only when something has changed.                     *)
MergeOne(local, remote) ==
    LET newer == remote.updated > local.updated
        known == NewestEntries(local.known, remote.known)
        changed == \/ newer /\ local.profile # remote.profile
                   \/ local.known # known
    IN  [local EXCEPT !.known = known,
                      !.profile = IF newer THEN remote.profile ELSE @,
                      !.updated = IF changed /\ newer THEN remote.updated ELSE @]

(* The loop over the page, oldest first: events of the device itself are   *)
(* passed over, the others are decrypted and merged.                       *)
MergeEvent(c, e) ==
    /\ at[c] = "merge"
    /\ \A f \in page[c] \ {e} : After(f, e)
    /\ page' = [page EXCEPT ![c] = @ \ {e}]
    /\ mem' = [mem EXCEPT ![c] = IF e.device = DeviceOf[c] THEN @ ELSE MergeOne(@, e.memory)]
    /\ UNCHANGED <<clock, skew, relayVars, memory, at, event, seen, base, now, next, used,
                   edits>>

(* The memory is written with the cursor, and the command ends.            *)
MergeWrite(c) ==
    /\ at[c] = "merge"
    /\ page[c] = {}
    /\ memory' = [memory EXCEPT ![DeviceOf[c]] = [mem[c] EXCEPT !.cursor = next[c]]]
    /\ Finish(c)
    /\ UNCHANGED relayVars

(* The command is killed before it writes the memory.  Killed earlier, it  *)
(* leaves what a failing request leaves.                                   *)
Kill(c) ==
    /\ at[c] = "merge"
    /\ Finish(c)
    /\ UNCHANGED <<relayVars, memory>>

Step(c) ==
    \/ \E id \in Ids : Start(c, id)
    \/ PutGet(c)
    \/ PutCommit(c)
    \/ ListBegin(c)
    \/ \E limit \in Limits : ListGet(c, limit)
    \/ ListCommit(c)
    \/ RequestFails(c)
    \/ CommitTimesOut(c)
    \/ \E e \in page[c] : MergeEvent(c, e)
    \/ MergeWrite(c)
    \/ Kill(c)

Next ==
    \/ Tick
    \/ \E d \in Devices, k \in Known, p \in Profiles : Edit(d, k, p)
    \/ \E c \in Commands : Step(c)
    \/ \E w \in late : LateCommit(w)

Spec == Init /\ [][Next]_vars

-----------------------------------------------------------------------------
(* The cursor never skips what it has not merged: an event of another      *)
(* device that was stored when a device's round of pages began, is stored  *)
(* still and is not after the cursor that the memory file holds, has left  *)
(* its entries in that file, or newer ones.  Commands that overlap may     *)
(* take each other's cursor back, never forward past events that their     *)
(* memory does not hold.                                                   *)
RoundCoversBucket ==
    \A d \in Devices :
        LET m == memory[d] IN
        \A e \in m.round \intersect events :
            \/ e.device = d
            \/ m.cursor # None /\ After(e, m.cursor)
            \/ \A x \in Entries : e.memory.known[x] <= m.known[x]

(* An upload that was answered is kept: the event is stored until it is    *)
(* expired, or the bucket is full of newer ones.                           *)
AckedEventsKept ==
    \A e \in acked :
        \/ e \in events
        \/ ExpiresAt(e) <= clock
        \/ Cardinality({f \in events : After(f, e)}) >= MaxEvents

=============================================================================
