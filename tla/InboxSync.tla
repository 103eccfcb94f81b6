------------------------------ MODULE InboxSync ------------------------------
(***************************************************************************)
(* `aichan inbox` against the relay.  A command fetches one page, and for  *)
(* each envelope of it, in order: skips it when its cache file exists,     *)
(* decrypts it, writes the cache file, appends to the peer's message log   *)
(* and keeps the body; it prints the bodies after the last one.  An        *)
(* envelope that cannot be decrypted ends the command with an error.       *)
(*                                                                         *)
(* The recipient has several devices (state directories) and a device may  *)
(* run several commands at once: nothing locks the state directory.        *)
(***************************************************************************)
EXTENDS MessageRelay

CONSTANTS
    Devices,      \* state directories of the recipient
    Commands,     \* slots for inbox commands
    DeviceOf,     \* the device each of them runs on
    MaxKills      \* bound: commands that are cut short

ASSUME DeviceOfType == DeviceOf \in [Commands -> Devices]
ASSUME CommandsAreFinite == IsFiniteSet(Commands)
ASSUME MaxKillsIsNat == MaxKills \in Nat

VARIABLES
    cache,        \* ids with a file in the inbox cache of each device
    log,          \* inbound entries of each id in its message logs
    shown,        \* how often each id was printed on it
    at,           \* where each command is
    todo,         \* the part of its page it has not dealt with
    batch,        \* the ids whose bodies it will print
    kills

inboxVars == <<cache, log, shown, at, todo, batch, kills>>
syncVars == <<vars, inboxVars>>

InboxTypeOK ==
    /\ cache \in [Devices -> SUBSET MsgIds]
    /\ log \in [Devices -> [MsgIds -> Nat]]
    /\ shown \in [Devices -> [MsgIds -> Nat]]
    /\ at \in [Commands -> {"idle", "fetch", "next", "cache", "log"}]
    /\ todo \in [Commands -> SUBSET Envelope]
    /\ batch \in [Commands -> SUBSET MsgIds]
    /\ kills \in 0 .. MaxKills
    /\ \A c \in Commands : at[c] \in {"cache", "log"} => todo[c] # {}

SyncInit ==
    /\ Init
    /\ cache = [d \in Devices |-> {}]
    /\ log = [d \in Devices |-> [i \in MsgIds |-> 0]]
    /\ shown = [d \in Devices |-> [i \in MsgIds |-> 0]]
    /\ at = [c \in Commands |-> "idle"]
    /\ todo = [c \in Commands |-> {}]
    /\ batch = [c \in Commands |-> {}]
    /\ kills = 0

-----------------------------------------------------------------------------
Start(c) ==
    /\ at[c] = "idle"
    /\ at' = [at EXCEPT ![c] = "fetch"]
    /\ UNCHANGED <<cache, log, shown, todo, batch, kills>>

Finish(c) ==
    /\ at' = [at EXCEPT ![c] = "idle"]
    /\ todo' = [todo EXCEPT ![c] = {}]
    /\ batch' = [batch EXCEPT ![c] = {}]

(* The relay answers the signed request with the first page.               *)
Fetch(c) ==
    /\ at[c] = "fetch"
    /\ at' = [at EXCEPT ![c] = "next"]
    /\ todo' = [todo EXCEPT ![c] = Inbox(clock)]
    /\ UNCHANGED <<cache, log, shown, batch, kills>>

(* No connection, an error status or an unreadable response.               *)
FetchFails(c) ==
    /\ at[c] = "fetch"
    /\ Finish(c)
    /\ UNCHANGED <<cache, log, shown, kills>>

(* The record the loop is at.                                              *)
Current(c) == CHOOSE e \in todo[c] : \A f \in todo[c] \ {e} : Before(e, f)

(* Mutant: a cached message that was never printed is taken up again.      *)
CachedAndPrinted(c) ==
    /\ Current(c).id \in cache[DeviceOf[c]]
    /\ shown[DeviceOf[c]][Current(c).id] > 0

Cached(c) == Current(c).id \in cache[DeviceOf[c]]

Skip(c) ==
    /\ at[c] = "next" /\ todo[c] # {}
    /\ Cached(c)
    /\ todo' = [todo EXCEPT ![c] = @ \ {Current(c)}]
    /\ UNCHANGED <<cache, log, shown, at, batch, kills>>

Decrypt(c) ==
    /\ at[c] = "next" /\ todo[c] # {}
    /\ ~Cached(c)
    /\ Current(c).readable
    /\ at' = [at EXCEPT ![c] = "cache"]
    /\ UNCHANGED <<cache, log, shown, todo, batch, kills>>

(* decrypt_private_message fails and `?` ends the command: what it has     *)
(* decrypted so far is never printed.                                      *)
Abort(c) ==
    /\ at[c] = "next" /\ todo[c] # {}
    /\ ~Cached(c)
    /\ ~Current(c).readable
    /\ Finish(c)
    /\ UNCHANGED <<cache, log, shown, kills>>

(* Mutant: the loop moves on before the log entry is written.              *)
WriteCacheAdvancing(c) ==
    /\ at[c] = "cache"
    /\ cache' = [cache EXCEPT ![DeviceOf[c]] = @ \union {Current(c).id}]
    /\ todo' = [todo EXCEPT ![c] = @ \ {Current(c)}]
    /\ at' = [at EXCEPT ![c] = "log"]
    /\ UNCHANGED <<log, shown, batch, kills>>

WriteCache(c) ==
    /\ at[c] = "cache"
    /\ cache' = [cache EXCEPT ![DeviceOf[c]] = @ \union {Current(c).id}]
    /\ at' = [at EXCEPT ![c] = "log"]
    /\ UNCHANGED <<log, shown, todo, batch, kills>>

(* Mutant: an error of append_local_message_log is ignored.                *)
AppendLogUnchecked(c) ==
    /\ at[c] = "log"
    /\ \/ log' = [log EXCEPT ![DeviceOf[c]][Current(c).id] = @ + 1]
       \/ UNCHANGED log
    /\ batch' = [batch EXCEPT ![c] = @ \union {Current(c).id}]
    /\ todo' = [todo EXCEPT ![c] = @ \ {Current(c)}]
    /\ at' = [at EXCEPT ![c] = "next"]
    /\ UNCHANGED <<cache, shown, kills>>

(* append_local_message_log, and the message joins what will be printed.   *)
AppendLog(c) ==
    /\ at[c] = "log"
    /\ log' = [log EXCEPT ![DeviceOf[c]][Current(c).id] = @ + 1]
    /\ batch' = [batch EXCEPT ![c] = @ \union {Current(c).id}]
    /\ todo' = [todo EXCEPT ![c] = @ \ {Current(c)}]
    /\ at' = [at EXCEPT ![c] = "next"]
    /\ UNCHANGED <<cache, shown, kills>>

Display(c) ==
    /\ at[c] = "next" /\ todo[c] = {}
    /\ shown' = [shown EXCEPT ![DeviceOf[c]] =
                    [i \in MsgIds |-> IF i \in batch[c] THEN @[i] + 1 ELSE @[i]]]
    /\ Finish(c)
    /\ UNCHANGED <<cache, log, kills>>

(* The command is interrupted, or the local disk fails it.                 *)
Kill(c) ==
    /\ at[c] # "idle"
    /\ kills < MaxKills
    /\ kills' = kills + 1
    /\ Finish(c)
    /\ UNCHANGED <<cache, log, shown>>

CommandStep(c) ==
    \/ FetchFails(c) \/ Fetch(c)
    \/ Skip(c) \/ Decrypt(c) \/ Abort(c)
    \/ WriteCache(c) \/ AppendLog(c) \/ Display(c)

SyncNext ==
    \/ Next /\ UNCHANGED inboxVars
    \/ \E c \in Commands : (Start(c) \/ CommandStep(c) \/ Kill(c)) /\ UNCHANGED vars

SyncSpec == SyncInit /\ [][SyncNext]_syncVars

(* A command runs on until it ends.  The rest is assumed of the user and   *)
(* the network: the command is run again and again, and it is not the case *)
(* that every attempt fails to reach the relay.                            *)
SyncFairness ==
    \A c \in Commands :
        /\ WF_syncVars(Start(c) /\ UNCHANGED vars)
        /\ WF_syncVars(CommandStep(c) /\ UNCHANGED vars)
        /\ SF_syncVars(Fetch(c) /\ UNCHANGED vars)
FairSyncSpec == SyncSpec /\ SyncFairness

-----------------------------------------------------------------------------
(* A message is printed only after it was cached and logged, and no more   *)
(* often than it was logged, whatever commands race or are cut short.      *)
PrintedIsOnRecord ==
    \A d \in Devices, i \in MsgIds :
        /\ shown[d][i] <= log[d][i]
        /\ log[d][i] > 0 => i \in cache[d]

(* Local caches deduplicate by message id: over any number of commands a   *)
(* message is logged at most as often as commands ran side by side when it *)
(* first came in, so once where commands run one at a time.                *)
RepeatsBounded ==
    \A d \in Devices, i \in MsgIds :
        log[d][i] <= Cardinality({c \in Commands : DeviceOf[c] = d})

(* A device that keeps syncing gets every readable message into its cache  *)
(* before the message expires, also when commands are cut short; only an   *)
(* envelope it cannot decrypt, while that one lives, can keep a message    *)
(* from it.                                                                *)
MessagesArrive ==
    \A d \in Devices, i \in MsgIds :
        (\E e \in outbound : e.id = i /\ e.readable)
            ~> \/ i \in cache[d]
               \/ \E e \in outbound : e.id = i /\ clock >= ExpiresAt(e)
               \/ \E e \in Unexpired(clock) : ~e.readable

(* A pulled message is cached and displayed: one that is in the cache was  *)
(* printed, or a command on the device is still at work.                   *)
CachedIsPrinted ==
    \A d \in Devices : \A i \in cache[d] :
        \/ shown[d][i] > 0
        \/ \E c \in Commands : DeviceOf[c] = d /\ at[c] # "idle"

=============================================================================
