------------------------------ MODULE LocalState ------------------------------
(***************************************************************************)
(* The files under .aichan that commands share, without a lock: identity,  *)
(* device, memory, config and the backup metadata.  sync and backup create *)
(* load the first four, making what is not there; other commands load some *)
(* of them in this order.  sync writes the memory back, backup create adds *)
(* a backup, and backup restore replaces the files by those of a backup.   *)
(*                                                                         *)
(* Every write truncates the file before it fills it, so that a crash      *)
(* leaves it torn, which no reader parses; only the first identity is made *)
(* with create_new.  No command deletes a file.                            *)
(***************************************************************************)
EXTENDS Naturals, Sequences

CONSTANTS
    Commands,         \* processes; each runs one command
    Others,           \* agents of which there are backups or old directories
    Old,              \* one of them: its directory predates message keys
    Absent, Torn,     \* no such file; a file that does not parse
    Blank,            \* a memory or config with its defaults
    NoKey, Nobody

(* What a command generates is named after it: keys, peer and device ids.  *)
Agents == Commands \union Others

ASSUME NamesAreFresh ==
    /\ Old \in Others /\ Commands \intersect Others = {}
    /\ {Absent, Torn, Blank, NoKey, Nobody} \intersect Agents = {}

(* IdentityFile: the peer id with its signing key, and the message keys.   *)
Identity == [peer : Agents, key : Agents \union {NoKey}]

ASSUME MarkersAreFresh == {Absent, Torn} \intersect Identity = {}
ASSUME TornIsNotAbsent == Torn # Absent

StateFiles == {"identity", "device", "memory", "config"}
Files == StateFiles \union {"metadata"}

(* BackupPayload.  A memory and a config are known by the agent that they  *)
(* are of.                                                                 *)
Payload == [identity : Identity, device : Agents, memory : Agents \union {Blank},
            config : Agents \union {Blank}]

Kinds == {"sync", "backup", "restore"}

VARIABLES
    file,             \* what is on disk
    backups,          \* backup files, and hosted backups
    kind, at, step,   \* what a command runs, where it is, and at which file
    hand,             \* its copies of the files; Absent for what it has not
    used,             \* history: identities that commands have gone on with
    restores,         \* history: a restore has begun to write
    forced,           \* history: one of them with --force over other state
    crossed,          \* history: a restore has overlapped another command
    alone             \* history: the command that started while no other
                      \* was running, until the next one starts

history == <<used, restores, forced, crossed, alone>>
vars == <<file, backups, kind, at, step, hand, history>>

Intact(f) ==
    CASE f = "identity" -> Identity
      [] f = "device" -> Agents
      [] f = "metadata" -> {Blank}
      [] OTHER -> Agents \union {Blank}

TypeOK ==
    /\ DOMAIN file = Files
    /\ \A f \in Files : file[f] \in Intact(f) \union {Absent, Torn}
    /\ backups \subseteq Payload
    /\ kind \in [Commands -> Kinds]
    /\ at \in [Commands -> {"idle", "load", "create", "reread", "check", "work", "fill",
                            "open", "save", "done", "failed"}]
    /\ step \in [Commands -> 1 .. 5]
    /\ DOMAIN hand = Commands
    /\ \A c \in Commands :
          /\ DOMAIN hand[c] = Files
          /\ \A f \in Files : hand[c][f] \in Intact(f) \union {Absent}
    /\ used \subseteq Identity
    /\ restores \in BOOLEAN /\ forced \in BOOLEAN /\ crossed \in BOOLEAN
    /\ alone \in Commands \union {Nobody}

Whole(a) == [identity |-> [peer |-> a, key |-> a], device |-> a, memory |-> a,
             config |-> a]
Nothing == [f \in Files |-> Absent]

(* An empty directory, or one from before there were message keys; and     *)
(* backups of other agents.                                                *)
Init ==
    /\ file \in {Nothing,
                 [Nothing EXCEPT !["identity"] = [peer |-> Old, key |-> NoKey],
                                 !["device"] = Old, !["memory"] = Old]}
    /\ backups = {Whole(a) : a \in Others \ {Old}}
    /\ kind = [c \in Commands |-> "sync"]
    /\ at = [c \in Commands |-> "idle"]
    /\ step = [c \in Commands |-> 1]
    /\ hand = [c \in Commands |-> Nothing]
    /\ used = {}
    /\ restores = FALSE
    /\ forced = FALSE
    /\ crossed = FALSE
    /\ alone = Nobody

-----------------------------------------------------------------------------
Running(c) == at[c] \notin {"idle", "done", "failed"}

Loads == <<"identity", "device", "memory", "config">>

(* Mutant: the restored agent keeps the device id that is there.           *)
WritesSameDevice(k) ==
    CASE k = "sync" -> <<"memory">>
      [] k = "backup" -> <<"metadata">>
      [] k = "restore" -> <<"identity", "memory", "config", "metadata">>

(* What each command writes once it has what it needs, in this order.      *)
Writes(k) ==
    CASE k = "sync" -> <<"memory">>
      [] k = "backup" -> <<"metadata">>
      [] k = "restore" -> <<"identity", "memory", "config", "device", "metadata">>

Begin(c, k) ==
    /\ at[c] = "idle"
    /\ kind' = [kind EXCEPT ![c] = k]
    /\ at' = [at EXCEPT ![c] = IF k = "restore" THEN "check" ELSE "load"]
    /\ alone' = IF \E d \in Commands : Running(d) THEN Nobody ELSE c
    /\ crossed' = (crossed \/ \E d \in Commands :
                                 Running(d) /\ "restore" \in {k, kind[d]})
    /\ UNCHANGED <<file, backups, step, hand, used, restores, forced>>

Goto(c, label) ==
    /\ at' = [at EXCEPT ![c] = label]
    /\ UNCHANGED <<kind, step>>

(* The next file to load, or the command's own work.                       *)
Loaded(c) ==
    /\ \/ /\ step[c] < Len(Loads)
          /\ at' = [at EXCEPT ![c] = "load"]
          /\ step' = [step EXCEPT ![c] = @ + 1]
       \/ /\ step[c] = Len(Loads)
          /\ at' = [at EXCEPT ![c] = "work"]
          /\ step' = [step EXCEPT ![c] = 1]
    /\ UNCHANGED kind

(* The command has its identity and goes on with it.                       *)
GoesOn(f, x) ==
    /\ used' = IF f = "identity" THEN used \union {x} ELSE used
    /\ UNCHANGED <<restores, forced, crossed, alone>>

(* Mutant: what does not parse is taken as it is.                          *)
ReadableAlways(x) == TRUE

Readable(x) == x # Torn

Fail(c) ==
    /\ Goto(c, "failed")
    /\ hand' = [hand EXCEPT ![c] = Nothing]
    /\ UNCHANGED <<file, backups, history>>

(* ensure_message_key_pair                                                 *)
NeedsKey(f, x) == f = "identity" /\ x \in Identity /\ x.key = NoKey

Generated(c, f) ==
    CASE f = "identity" -> [peer |-> c, key |-> c]
      [] f = "device" -> c
      [] OTHER -> Blank

(* create_or_load of an identity, a device or a memory, and                *)
(* load_or_default of a config, up to the first write.                     *)
Load(c) ==
    LET f == Loads[step[c]]
        x == file[f]
    IN  /\ at[c] = "load"
        /\ \/ ~Readable(x) /\ Fail(c)
           \/ /\ Readable(x) /\ x # Absent /\ ~NeedsKey(f, x)
              /\ hand' = [hand EXCEPT ![c][f] = x]
              /\ Loaded(c)
              /\ GoesOn(f, x)
              /\ UNCHANGED <<file, backups>>
           \/ /\ Readable(x) /\ NeedsKey(f, x)
              /\ hand' = [hand EXCEPT ![c][f] = [x EXCEPT !.key = c]]
              /\ Goto(c, "create")
              /\ UNCHANGED <<file, backups, history>>
           \/ /\ x = Absent /\ f = "config"
              /\ hand' = [hand EXCEPT ![c][f] = Blank]
              /\ Loaded(c)
              /\ UNCHANGED <<file, backups, history>>
           \/ /\ x = Absent /\ f # "config"
              /\ hand' = [hand EXCEPT ![c][f] = Generated(c, f)]
              /\ Goto(c, "create")
              /\ UNCHANGED <<file, backups, history>>

(* Mutant: the file is opened with truncate.                               *)
MustBeNewNever(c, f) == FALSE

(* create_new is for an identity that the command has generated; one that  *)
(* only gets its message keys is replaced.                                 *)
MustBeNew(c, f) == f = "identity" /\ hand[c][f].peer = c

(* The file is created or truncated, before it is filled.                  *)
Create(c) ==
    LET f == Loads[step[c]]
        exists == MustBeNew(c, f) /\ file[f] # Absent
    IN  /\ at[c] = "create"
        /\ \/ exists /\ Goto(c, "reread") /\ UNCHANGED file
           \/ /\ ~exists
              /\ file' = [file EXCEPT ![f] = Torn]
              /\ Goto(c, "fill")
        /\ UNCHANGED <<backups, hand, history>>

Fill(c) ==
    LET f == Loads[step[c]] IN
    /\ at[c] = "fill"
    /\ file' = [file EXCEPT ![f] = hand[c][f]]
    /\ Loaded(c)
    /\ GoesOn(f, hand[c][f])
    /\ UNCHANGED <<backups, hand>>

(* AlreadyExists: another command was first, and its identity is read.     *)
Reread(c) ==
    LET x == file["identity"] IN
    /\ at[c] = "reread"
    /\ \/ ~Readable(x) /\ Fail(c)
       \/ /\ Readable(x)
          /\ hand' = [hand EXCEPT ![c]["identity"] = x]
          /\ Loaded(c)
          /\ GoesOn("identity", x)
          /\ UNCHANGED <<file, backups>>

-----------------------------------------------------------------------------
(* sync has the page it merges: the memory is the agent's from now on.     *)
Sync(c) ==
    /\ at[c] = "work" /\ kind[c] = "sync"
    /\ hand' = [hand EXCEPT ![c]["memory"] =
                   IF @ = Blank THEN hand[c]["identity"].peer ELSE @]
    /\ Goto(c, "open")
    /\ UNCHANGED <<file, backups, history>>

(* backup create writes the backup file, and uploads it when asked to.     *)
BackupCreate(c) ==
    /\ at[c] = "work" /\ kind[c] = "backup"
    /\ backups' = backups \union {[identity |-> hand[c]["identity"],
                                   device |-> hand[c]["device"],
                                   memory |-> hand[c]["memory"],
                                   config |-> hand[c]["config"]]}
    /\ Goto(c, "open")
    /\ UNCHANGED <<file, hand, history>>

(* Mutant: a restore overwrites what is there.                             *)
RefusesNever(force) == FALSE

(* restore_target_has_local_state, without --force.                        *)
Refuses(force) == ~force /\ \E f \in StateFiles : file[f] # Absent

(* backup restore checks the directory, reads the config for the relay's   *)
(* address, gets a backup and decrypts it.                                 *)
RestoreBegins(c, force, b) ==
    /\ at[c] = "check"
    /\ \/ /\ Refuses(force) \/ ~Readable(file["config"])
          /\ Fail(c)
       \/ /\ ~Refuses(force) /\ Readable(file["config"])
          /\ hand' = [hand EXCEPT ![c] =
                         [f \in Files |-> IF f = "device" THEN c
                                          ELSE IF f = "metadata" THEN Absent
                                          ELSE b[f]]]
          /\ Goto(c, "open")
          /\ restores' = TRUE
          /\ forced' = (forced \/ force)
          /\ UNCHANGED <<file, backups, used, crossed, alone>>

(* The next file of a command is truncated.  The metadata is read before,  *)
(* and what does not parse ends the command.                               *)
Open(c) ==
    LET f == Writes(kind[c])[step[c]] IN
    /\ at[c] = "open"
    /\ \/ f = "metadata" /\ ~Readable(file[f]) /\ Fail(c)
       \/ /\ f = "metadata" => Readable(file[f])
          /\ file' = [file EXCEPT ![f] = Torn]
          /\ hand' = IF f = "metadata" THEN [hand EXCEPT ![c][f] = Blank] ELSE hand
          /\ Goto(c, "save")
          /\ UNCHANGED <<backups, history>>

(* And filled; the last one ends the command.                              *)
Save(c) ==
    LET f == Writes(kind[c])[step[c]] IN
    /\ at[c] = "save"
    /\ file' = [file EXCEPT ![f] = hand[c][f]]
    /\ \/ /\ step[c] < Len(Writes(kind[c]))
          /\ at' = [at EXCEPT ![c] = "open"]
          /\ step' = [step EXCEPT ![c] = @ + 1]
       \/ /\ step[c] = Len(Writes(kind[c]))
          /\ at' = [at EXCEPT ![c] = "done"]
          /\ UNCHANGED step
    /\ UNCHANGED <<kind, backups, hand, history>>

(* The process dies, or one of its calls fails.                            *)
Crash(c) ==
    /\ Running(c)
    /\ Fail(c)

Step(c) ==
    \/ \E k \in Kinds : Begin(c, k)
    \/ Load(c)
    \/ Create(c)
    \/ Fill(c)
    \/ Reread(c)
    \/ Sync(c)
    \/ BackupCreate(c)
    \/ \E force \in BOOLEAN, b \in backups : RestoreBegins(c, force, b)
    \/ Open(c)
    \/ Save(c)
    \/ Crash(c)

Next == \E c \in Commands : Step(c)

Spec == Init /\ [][Next]_vars

-----------------------------------------------------------------------------
(* Commands never go on with two identities: as long as nothing is         *)
(* restored, all that have one have the same peer id, also two that find   *)
(* no identity at once; and the same message keys, unless the identity was *)
(* made before there were any and several commands add them at once.       *)
OneIdentity ==
    ~restores => \A i, j \in used :
                    i.peer = j.peer /\ (i.key = j.key \/ i.peer = Old)

(* The identity and the memory of one agent, as far as they can be read.   *)
OneAgent(x, m) ==
    x \in {Absent, Torn} \/ m \in {Absent, Torn, Blank} \/ x.peer = m

(* A directory never mixes two agents, and no backup does, wherever        *)
(* commands crash: a restore that is not forced finds nothing to mix with. *)
(* That takes a restore that no other command overlaps.                    *)
NoMixture ==
    \/ forced \/ crossed
    \/ /\ OneAgent(file["identity"], file["memory"])
       /\ \A b \in backups : OneAgent(b.identity, b.memory)

(* A restore that reports success has replaced everything, whatever it     *)
(* found, torn files of an earlier crash included: until another command   *)
(* runs the directory is that of the backup, with a device id of its own.  *)
RestoredWhole ==
    \A c \in Commands :
        kind[c] = "restore" /\ at[c] = "done" /\ alone = c =>
            \A f \in StateFiles : file[f] = hand[c][f]

=============================================================================
