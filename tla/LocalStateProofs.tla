-------------------------- MODULE LocalStateProofs --------------------------
(***************************************************************************)
(* The files of one directory, for any number of commands that share it    *)
(* and crash at any write.  First the identity file, then the types of all *)
(* of the state, then what a restore leaves, and last that agents do not   *)
(* mix: each argument rests on the ones before.                            *)
(***************************************************************************)
EXTENDS LocalState, TLAPS

Labels == {"idle", "load", "create", "reread", "check", "work", "fill",
           "open", "save", "done", "failed"}

(* As much of the types as the argument needs.                             *)
Shape ==
    /\ DOMAIN file = Files
    /\ DOMAIN hand = Commands
    /\ \A c \in Commands : DOMAIN hand[c] = Files
    /\ kind \in [Commands -> Kinds]
    /\ at \in [Commands -> Labels]
    /\ step \in [Commands -> 1 .. 5]

(* Which file a command is at; only a restore replaces an identity.        *)
InOrder(c) ==
    /\ at[c] \in {"idle", "check", "reread", "work"} => step[c] = 1
    /\ at[c] \in {"load", "create", "fill"} => step[c] \in 1 .. 4
    /\ ~restores /\ at[c] \in {"open", "save"} => step[c] = 1 /\ kind[c] # "restore"

(* An identity of p, with the keys that were made with it unless p is old. *)
IsOf(p, x) == x \in Identity /\ x.peer = p /\ (p = Old \/ x.key = p)

AtIdentity(c, label) == at[c] = label /\ step[c] = 1

(* The directory is that of p: whoever fills the file, fills in p, and a   *)
(* command with another identity will find that the file exists.           *)
BelongsTo(p) ==
    /\ file["identity"] \in {Absent, Torn} \/ IsOf(p, file["identity"])
    /\ \A i \in used : IsOf(p, i)
    /\ \A c \in Commands :
          /\ AtIdentity(c, "fill") => IsOf(p, hand[c]["identity"])
          /\ AtIdentity(c, "create") =>
                \/ hand[c]["identity"] = [peer |-> c, key |-> c]
                \/ /\ p = Old /\ IsOf(p, hand[c]["identity"])
                   /\ file["identity"] # Absent
          /\ at[c] = "reread" => file["identity"] # Absent

(* Nobody has an identity before there is a file.                          *)
NoneYet ==
    file["identity"] = Absent =>
        used = {} /\ \A c \in Commands : ~AtIdentity(c, "fill")

IInv ==
    /\ Shape
    /\ \A c \in Commands : InOrder(c)
    /\ ~restores => NoneYet /\ \E p \in Agents : BelongsTo(p)

-----------------------------------------------------------------------------
(* The identity is the first file that is loaded, and only that.           *)
LEMMA LoadOrder ==
    /\ Loads[1] = "identity" /\ Len(Loads) = 4
    /\ \A n \in 1 .. 4 : Loads[n] \in Files /\ (Loads[n] = "identity" => n = 1)
BY DEF Loads, Files, StateFiles

(* sync and backup create do not write the identity.                       *)
LEMMA WriteOrder ==
    ASSUME NEW k \in Kinds, k # "restore"
    PROVE  Writes(k)[1] \in Files \ {"identity"} /\ Len(Writes(k)) = 1
BY DEF Writes, Kinds, Files, StateFiles

(* The directory is empty or that of an old agent.                         *)
LEMMA InitIInv == Init => IInv
<1> SUFFICES ASSUME Init PROVE IInv
  OBVIOUS
<1>1. Shape
  BY DEF Init, Shape, Nothing, Kinds, Labels
<1>2. \A c \in Commands : InOrder(c)
  BY DEF Init, InOrder
<1>3. NoneYet
  BY DEF Init, NoneYet, AtIdentity
<1>4. Old \in Agents /\ BelongsTo(Old)
  <2>1. Old \in Agents BY NamesAreFresh DEF Agents
  <2>2. [peer |-> Old, key |-> NoKey] \in Identity BY <2>1 DEF Identity
  <2>3. file["identity"] \in {Absent, [peer |-> Old, key |-> NoKey]}
    BY DEF Init, Nothing, Files, StateFiles
  <2> QED BY <2>1, <2>2, <2>3 DEF Init, BelongsTo, IsOf, AtIdentity
<1> QED BY <1>1, <1>2, <1>3, <1>4 DEF IInv

(* A step of c keeps the shape when it changes what is its own.            *)
LEMMA ShapeStep ==
    ASSUME IInv, NEW c \in Commands,
           kind' \in [Commands -> Kinds], at' \in [Commands -> Labels],
           step' \in [Commands -> 1 .. 5],
           \A d \in Commands \ {c} : /\ kind'[d] = kind[d] /\ at'[d] = at[d]
                                     /\ step'[d] = step[d] /\ hand'[d] = hand[d],
           DOMAIN file' = Files, DOMAIN hand' = Commands, DOMAIN hand'[c] = Files,
           restores => restores', InOrder(c)'
    PROVE  Shape' /\ \A d \in Commands : InOrder(d)'
<1>1. Shape'
  BY DEF IInv, Shape
<1>2. \A d \in Commands \ {c} : InOrder(d)'
  BY DEF IInv, Shape, InOrder
<1> QED BY <1>1, <1>2

(* A step of c that leaves the identity alone, and may go on with it.      *)
LEMMA QuietStep ==
    ASSUME IInv, ~restores, NEW c \in Commands,
           file'["identity"] = file["identity"],
           \A i \in used' : i \in used \/ (i = file["identity"] /\ i \notin {Absent, Torn}),
           \A d \in Commands \ {c} :
               at'[d] = at[d] /\ step'[d] = step[d] /\ hand'[d] = hand[d],
           at'[c] # "reread",
           at'[c] \in {"create", "fill"} => step'[c] # 1
    PROVE  NoneYet' /\ \E p \in Agents : BelongsTo(p)'
<1>1. NoneYet' BY DEF IInv, NoneYet, AtIdentity
<1>2. PICK p \in Agents : BelongsTo(p) BY DEF IInv
<1>3. BelongsTo(p)' BY <1>2 DEF BelongsTo, AtIdentity
<1> QED BY <1>1, <1>3

(* Giving up is quiet.                                                     *)
LEMMA FailKeepsIInv ==
    ASSUME IInv, NEW c \in Commands, Fail(c)
    PROVE  IInv'
<1>1. /\ at' = [at EXCEPT ![c] = "failed"] /\ kind' = kind /\ step' = step
      /\ hand' = [hand EXCEPT ![c] = Nothing] /\ file' = file
      /\ used' = used /\ restores' = restores
  BY DEF Fail, Goto, history
<1>2. Shape' /\ \A d \in Commands : InOrder(d)'
  <2>1. InOrder(c)' BY <1>1 DEF InOrder, IInv, Shape
  <2>2. /\ kind' \in [Commands -> Kinds] /\ at' \in [Commands -> Labels]
        /\ step' \in [Commands -> 1 .. 5]
        /\ \A d \in Commands \ {c} : /\ kind'[d] = kind[d] /\ at'[d] = at[d]
                                     /\ step'[d] = step[d] /\ hand'[d] = hand[d]
        /\ DOMAIN file' = Files /\ DOMAIN hand' = Commands /\ DOMAIN hand'[c] = Files
    BY <1>1 DEF IInv, Shape, Labels, Nothing
  <2> QED BY <1>1, <2>1, <2>2, ShapeStep
<1>3. ~restores' => NoneYet' /\ \E p \in Agents : BelongsTo(p)'
  <2> SUFFICES ASSUME ~restores' PROVE NoneYet' /\ \E p \in Agents : BelongsTo(p)'
    OBVIOUS
  <2>1. \A d \in Commands \ {c} :
            at'[d] = at[d] /\ step'[d] = step[d] /\ hand'[d] = hand[d]
    BY <1>1 DEF IInv, Shape
  <2>2. at'[c] = "failed" BY <1>1 DEF IInv, Shape
  <2> QED BY <1>1, <2>1, <2>2, QuietStep
<1> QED BY <1>2, <1>3 DEF IInv

(* The command gets on to its next file or to its work.                    *)
LEMMA LoadedStep ==
    ASSUME IInv, NEW c \in Commands, Loaded(c), step[c] \in 1 .. 4,
           DOMAIN file' = Files, DOMAIN hand' = Commands,
           DOMAIN hand'[c] = Files, \A d \in Commands \ {c} : hand'[d] = hand[d],
           restores => restores'
    PROVE  /\ Shape' /\ \A d \in Commands : InOrder(d)'
           /\ at'[c] \in {"load", "work"}
           /\ \A d \in Commands \ {c} : at'[d] = at[d] /\ step'[d] = step[d]
<1>1. CASE step[c] < Len(Loads)
  <2>1. /\ at' = [at EXCEPT ![c] = "load"] /\ step' = [step EXCEPT ![c] = step[c] + 1]
        /\ kind' = [kind EXCEPT ![c] = kind[c]] /\ step[c] + 1 \in 1 .. 4
    BY <1>1, LoadOrder DEF Loaded, IInv, Shape
  <2>2. InOrder(c)' BY <2>1 DEF InOrder, IInv, Shape
  <2>3. /\ kind' \in [Commands -> Kinds] /\ at' \in [Commands -> Labels]
        /\ step' \in [Commands -> 1 .. 5]
        /\ \A d \in Commands \ {c} : /\ kind'[d] = kind[d] /\ at'[d] = at[d]
                                     /\ step'[d] = step[d] /\ hand'[d] = hand[d]
    BY <2>1 DEF IInv, Shape, Labels
  <2>4. Shape' /\ \A d \in Commands : InOrder(d)'
    BY <2>2, <2>3, ShapeStep
  <2> QED BY <2>1, <2>3, <2>4 DEF IInv, Shape
<1>2. CASE ~(step[c] < Len(Loads))
  <2>1. /\ at' = [at EXCEPT ![c] = "work"] /\ step' = [step EXCEPT ![c] = 1]
        /\ kind' = [kind EXCEPT ![c] = kind[c]]
    BY <1>2 DEF Loaded, IInv, Shape
  <2>2. InOrder(c)' BY <2>1 DEF InOrder, IInv, Shape
  <2>3. /\ kind' \in [Commands -> Kinds] /\ at' \in [Commands -> Labels]
        /\ step' \in [Commands -> 1 .. 5]
        /\ \A d \in Commands \ {c} : /\ kind'[d] = kind[d] /\ at'[d] = at[d]
                                     /\ step'[d] = step[d] /\ hand'[d] = hand[d]
    BY <2>1 DEF IInv, Shape, Labels
  <2>4. Shape' /\ \A d \in Commands : InOrder(d)'
    BY <2>2, <2>3, ShapeStep
  <2> QED BY <2>1, <2>3, <2>4 DEF IInv, Shape
<1> QED BY <1>1, <1>2

(* The command moves to another point of the same file.                    *)
LEMMA GotoStep ==
    ASSUME IInv, NEW c \in Commands, NEW a \in Labels, Goto(c, a),
           DOMAIN file' = Files, DOMAIN hand' = Commands,
           DOMAIN hand'[c] = Files, \A d \in Commands \ {c} : hand'[d] = hand[d],
           restores => restores',
           a \in {"idle", "check", "reread", "work"} => step[c] = 1,
           a \in {"load", "create", "fill"} => step[c] \in 1 .. 4,
           ~restores' /\ a \in {"open", "save"} => step[c] = 1 /\ kind[c] # "restore"
    PROVE  /\ Shape' /\ \A d \in Commands : InOrder(d)'
           /\ at'[c] = a /\ step' = step
           /\ \A d \in Commands \ {c} : at'[d] = at[d] /\ step'[d] = step[d]
<1>1. at' = [at EXCEPT ![c] = a] /\ kind' = kind /\ step' = step
  BY DEF Goto
<1>2. InOrder(c)' BY <1>1 DEF InOrder, IInv, Shape
<1>3. /\ kind' \in [Commands -> Kinds] /\ at' \in [Commands -> Labels]
      /\ step' \in [Commands -> 1 .. 5]
      /\ \A d \in Commands \ {c} : /\ kind'[d] = kind[d] /\ at'[d] = at[d]
                                   /\ step'[d] = step[d] /\ hand'[d] = hand[d]
  BY <1>1 DEF IInv, Shape
<1>4. Shape' /\ \A d \in Commands : InOrder(d)'
  BY <1>2, <1>3, ShapeStep
<1> QED BY <1>1, <1>3, <1>4 DEF IInv, Shape

(* Loading a file, up to the first write.                                  *)
LEMMA LoadKeepsIInv ==
    ASSUME IInv, NEW c \in Commands, Load(c)
    PROVE  IInv'
<1> DEFINE f == Loads[step[c]]
           x == file[f]
<1>1. at[c] = "load" /\ step[c] \in 1 .. 4 /\ f \in Files /\ (f = "identity" <=> step[c] = 1)
  BY LoadOrder DEF Load, IInv, InOrder
<1>2. DOMAIN file = Files /\ DOMAIN hand = Commands
      /\ \A d \in Commands : DOMAIN hand[d] = Files
  BY DEF IInv, Shape
<1>3. CASE Fail(c) BY <1>3, FailKeepsIInv
<1>4. ASSUME Loaded(c), GoesOn(f, x), file' = file, x \notin {Absent, Torn},
             hand' = [hand EXCEPT ![c][f] = x]
      PROVE  IInv'
  <2>1. restores' = restores /\ used' = IF f = "identity" THEN used \union {x} ELSE used
    BY <1>4 DEF GoesOn
  <2>2. /\ DOMAIN hand' = Commands /\ DOMAIN hand'[c] = Files
        /\ \A d \in Commands \ {c} : hand'[d] = hand[d]
    BY <1>2, <1>4
  <2>3. /\ Shape' /\ \A d \in Commands : InOrder(d)'
        /\ at'[c] \in {"load", "work"}
        /\ \A d \in Commands \ {c} : at'[d] = at[d] /\ step'[d] = step[d]
    BY <1>1, <1>2, <1>4, <2>1, <2>2, LoadedStep
  <2>4. \A i \in used' : i \in used \/ (i = file["identity"] /\ i \notin {Absent, Torn})
    BY <1>4, <2>1
  <2>5. ~restores => NoneYet' /\ \E p \in Agents : BelongsTo(p)'
    BY <1>4, <2>2, <2>3, <2>4, QuietStep
  <2> QED BY <2>1, <2>3, <2>5 DEF IInv
<1>5. ASSUME NeedsKey(f, x), hand' = [hand EXCEPT ![c][f] = [x EXCEPT !.key = c]],
             Goto(c, "create"), UNCHANGED <<file, backups, history>>
      PROVE  IInv'
  <2>1. file' = file /\ used' = used /\ restores' = restores
    BY <1>5 DEF history
  <2>2. /\ DOMAIN hand' = Commands /\ DOMAIN hand'[c] = Files
        /\ \A d \in Commands \ {c} : hand'[d] = hand[d]
        /\ hand'[c][f] = [x EXCEPT !.key = c]
    BY <1>1, <1>2, <1>5
  <2>3. /\ Shape' /\ \A d \in Commands : InOrder(d)'
        /\ at'[c] = "create" /\ step' = step
        /\ \A d \in Commands \ {c} : at'[d] = at[d] /\ step'[d] = step[d]
    BY <1>1, <1>2, <1>5, <2>1, <2>2, GotoStep DEF Labels
  <2>4. f = "identity" /\ x \in Identity /\ x.key = NoKey BY <1>5 DEF NeedsKey
  <2>5. x \notin {Absent, Torn} BY <2>4, MarkersAreFresh
  <2>6. ASSUME ~restores PROVE NoneYet' /\ \E p \in Agents : BelongsTo(p)'
    <3>1. PICK p \in Agents : BelongsTo(p) BY <2>6 DEF IInv
    <3>2. p = Old /\ IsOf(p, x)
      BY <2>4, <2>5, <3>1, NamesAreFresh DEF BelongsTo, IsOf
    <3>3. IsOf(p, hand'[c]["identity"])
      BY <2>2, <2>4, <3>2 DEF IsOf, Identity, Agents
    <3>4. BelongsTo(p)'
      BY <2>1, <2>2, <2>3, <2>4, <2>5, <3>1, <3>2, <3>3 DEF BelongsTo, AtIdentity
    <3>5. NoneYet' BY <2>1, <2>4, <2>5 DEF NoneYet
    <3> QED BY <3>4, <3>5
  <2> QED BY <2>1, <2>3, <2>6 DEF IInv
<1>6. ASSUME f = "config", hand' = [hand EXCEPT ![c][f] = Blank], Loaded(c),
             UNCHANGED <<file, backups, history>>
      PROVE  IInv'
  <2>1. file' = file /\ used' = used /\ restores' = restores
    BY <1>6 DEF history
  <2>2. /\ DOMAIN hand' = Commands /\ DOMAIN hand'[c] = Files
        /\ \A d \in Commands \ {c} : hand'[d] = hand[d]
    BY <1>2, <1>6
  <2>3. /\ Shape' /\ \A d \in Commands : InOrder(d)'
        /\ at'[c] \in {"load", "work"}
        /\ \A d \in Commands \ {c} : at'[d] = at[d] /\ step'[d] = step[d]
    BY <1>1, <1>2, <1>6, <2>1, <2>2, LoadedStep
  <2>4. ~restores => NoneYet' /\ \E p \in Agents : BelongsTo(p)'
    BY <2>1, <2>2, <2>3, QuietStep
  <2> QED BY <2>1, <2>3, <2>4 DEF IInv
<1>7. ASSUME x = Absent, hand' = [hand EXCEPT ![c][f] = Generated(c, f)],
             Goto(c, "create"), UNCHANGED <<file, backups, history>>
      PROVE  IInv'
  <2>1. file' = file /\ used' = used /\ restores' = restores
    BY <1>7 DEF history
  <2>2. /\ DOMAIN hand' = Commands /\ DOMAIN hand'[c] = Files
        /\ \A d \in Commands \ {c} : hand'[d] = hand[d]
        /\ hand'[c][f] = Generated(c, f)
    BY <1>1, <1>2, <1>7
  <2>3. /\ Shape' /\ \A d \in Commands : InOrder(d)'
        /\ at'[c] = "create" /\ step' = step
        /\ \A d \in Commands \ {c} : at'[d] = at[d] /\ step'[d] = step[d]
    BY <1>1, <1>2, <1>7, <2>1, <2>2, GotoStep DEF Labels
  <2>4. ASSUME ~restores PROVE NoneYet' /\ \E p \in Agents : BelongsTo(p)'
    <3>1. PICK p \in Agents : BelongsTo(p) BY <2>4 DEF IInv
    <3>2. f = "identity" => hand'[c]["identity"] = [peer |-> c, key |-> c]
      BY <2>2 DEF Generated
    <3>3. BelongsTo(p)'
      BY <1>1, <2>1, <2>2, <2>3, <3>1, <3>2 DEF BelongsTo, AtIdentity
    <3>4. NoneYet' BY <2>1, <2>3, <2>4 DEF NoneYet, AtIdentity, IInv
    <3> QED BY <3>3, <3>4
  <2> QED BY <2>1, <2>3, <2>4 DEF IInv
<1> QED BY <1>3, <1>4, <1>5, <1>6, <1>7 DEF Load, Readable

(* Creating or truncating: the first to create the identity settles whose  *)
(* directory it is, and everyone else finds the file.                      *)
LEMMA CreateKeepsIInv ==
    ASSUME IInv, NEW c \in Commands, Create(c)
    PROVE  IInv'
<1> DEFINE f == Loads[step[c]]
<1>1. at[c] = "create" /\ step[c] \in 1 .. 4 /\ f \in Files /\ (f = "identity" <=> step[c] = 1)
  BY LoadOrder DEF Create, IInv, InOrder
<1>2. /\ DOMAIN file = Files /\ DOMAIN hand = Commands
      /\ \A d \in Commands : DOMAIN hand[d] = Files
  BY DEF IInv, Shape
<1>3. hand' = hand /\ used' = used /\ restores' = restores
  BY DEF Create, history
<1>4. ASSUME MustBeNew(c, f), file[f] # Absent, Goto(c, "reread"), file' = file
      PROVE  IInv'
  <2>1. f = "identity" /\ step[c] = 1 BY <1>1, <1>4 DEF MustBeNew
  <2>2. /\ Shape' /\ \A d \in Commands : InOrder(d)'
        /\ at'[c] = "reread" /\ step' = step
        /\ \A d \in Commands \ {c} : at'[d] = at[d] /\ step'[d] = step[d]
    BY <1>2, <1>3, <1>4, <2>1, GotoStep DEF Labels
  <2>3. ASSUME ~restores PROVE NoneYet' /\ \E p \in Agents : BelongsTo(p)'
    <3>1. PICK p \in Agents : BelongsTo(p) BY <2>3 DEF IInv
    <3>2. BelongsTo(p)'
      BY <1>3, <1>4, <2>1, <2>2, <3>1 DEF BelongsTo, AtIdentity
    <3>3. NoneYet' BY <1>4, <2>1 DEF NoneYet
    <3> QED BY <3>2, <3>3
  <2> QED BY <1>3, <2>2, <2>3 DEF IInv
<1>5. ASSUME ~(MustBeNew(c, f) /\ file[f] # Absent), Goto(c, "fill"),
             file' = [file EXCEPT ![f] = Torn]
      PROVE  IInv'
  <2>1. DOMAIN file' = Files /\ file'[f] = Torn
        /\ (f # "identity" => file'["identity"] = file["identity"])
    BY <1>1, <1>2, <1>5 DEF Files, StateFiles
  <2>2. /\ Shape' /\ \A d \in Commands : InOrder(d)'
        /\ at'[c] = "fill" /\ step' = step
        /\ \A d \in Commands \ {c} : at'[d] = at[d] /\ step'[d] = step[d]
    BY <1>1, <1>2, <1>3, <1>5, <2>1, GotoStep DEF Labels
  <2>3. CASE f # "identity"
    <3>1. ~restores => NoneYet' /\ \E p \in Agents : BelongsTo(p)'
      BY <1>1, <1>3, <2>1, <2>2, <2>3, QuietStep
    <3> QED BY <1>3, <2>2, <3>1 DEF IInv
  <2>4. ASSUME f = "identity", ~restores PROVE NoneYet' /\ \E p \in Agents : BelongsTo(p)'
    <3>1. AtIdentity(c, "create") BY <1>1, <2>4 DEF AtIdentity
    <3>2. PICK p \in Agents : BelongsTo(p) BY <2>4 DEF IInv
    <3>3. CASE p = Old /\ IsOf(p, hand[c]["identity"])
      <4>1. BelongsTo(p)'
        BY <1>3, <2>1, <2>2, <2>4, <3>2, <3>3, MarkersAreFresh, TornIsNotAbsent
           DEF BelongsTo, AtIdentity
      <4> QED BY <2>1, <2>4, <4>1, TornIsNotAbsent DEF NoneYet
    <3>4. CASE hand[c]["identity"] = [peer |-> c, key |-> c]
      <4>1. file["identity"] = Absent BY <1>5, <2>4, <3>4 DEF MustBeNew
      <4>2. used = {} /\ \A d \in Commands : ~AtIdentity(d, "fill")
        BY <2>4, <4>1 DEF IInv, NoneYet
      <4>3. c \in Agents /\ IsOf(c, hand[c]["identity"])
        BY <3>4 DEF IsOf, Identity, Agents
      <4>4. \A d \in Commands : AtIdentity(d, "create")
               => hand[d]["identity"] = [peer |-> d, key |-> d]
        BY <3>2, <4>1 DEF BelongsTo
      <4>5. BelongsTo(c)'
        BY <1>3, <2>1, <2>2, <2>4, <4>2, <4>3, <4>4, TornIsNotAbsent DEF BelongsTo, AtIdentity
      <4> QED BY <2>1, <2>4, <4>3, <4>5, TornIsNotAbsent DEF NoneYet
    <3> QED BY <3>1, <3>2, <3>3, <3>4 DEF BelongsTo
  <2> QED BY <1>3, <2>2, <2>3, <2>4 DEF IInv
<1> QED BY <1>4, <1>5 DEF Create

(* Filling the file: the command goes on with what it has written.         *)
LEMMA FillKeepsIInv ==
    ASSUME IInv, NEW c \in Commands, Fill(c)
    PROVE  IInv'
<1> DEFINE f == Loads[step[c]]
<1>1. at[c] = "fill" /\ step[c] \in 1 .. 4 /\ f \in Files /\ (f = "identity" <=> step[c] = 1)
  BY LoadOrder DEF Fill, IInv, InOrder
<1>2. /\ DOMAIN file = Files /\ DOMAIN hand = Commands
      /\ \A d \in Commands : DOMAIN hand[d] = Files
  BY DEF IInv, Shape
<1>3. /\ file' = [file EXCEPT ![f] = hand[c][f]] /\ Loaded(c)
      /\ GoesOn(f, hand[c][f]) /\ hand' = hand
  BY DEF Fill
<1>4. /\ restores' = restores
      /\ used' = IF f = "identity" THEN used \union {hand[c][f]} ELSE used
  BY <1>3 DEF GoesOn
<1>5. DOMAIN file' = Files /\ file'[f] = hand[c][f]
      /\ (f # "identity" => file'["identity"] = file["identity"])
  BY <1>1, <1>2, <1>3 DEF Files, StateFiles
<1>6. /\ Shape' /\ \A d \in Commands : InOrder(d)'
      /\ at'[c] \in {"load", "work"}
      /\ \A d \in Commands \ {c} : at'[d] = at[d] /\ step'[d] = step[d]
  BY <1>1, <1>2, <1>3, <1>4, <1>5, LoadedStep
<1>7. CASE f # "identity"
  <2>1. ~restores => NoneYet' /\ \E p \in Agents : BelongsTo(p)'
    BY <1>3, <1>4, <1>5, <1>6, <1>7, QuietStep
  <2> QED BY <1>4, <1>6, <2>1 DEF IInv
<1>8. ASSUME f = "identity", ~restores PROVE NoneYet' /\ \E p \in Agents : BelongsTo(p)'
  <2>1. PICK p \in Agents : BelongsTo(p) BY <1>8 DEF IInv
  <2>2. IsOf(p, hand[c]["identity"]) BY <1>1, <1>8, <2>1 DEF BelongsTo, AtIdentity
  <2>3. hand[c]["identity"] \notin {Absent, Torn} BY <2>2, MarkersAreFresh DEF IsOf
  <2>4. BelongsTo(p)'
    BY <1>3, <1>4, <1>5, <1>6, <1>8, <2>1, <2>2, <2>3 DEF BelongsTo, AtIdentity
  <2> QED BY <1>5, <1>8, <2>3, <2>4 DEF NoneYet
<1> QED BY <1>4, <1>6, <1>7, <1>8 DEF IInv

(* Reading the identity that another command was first to create.          *)
LEMMA RereadKeepsIInv ==
    ASSUME IInv, NEW c \in Commands, Reread(c)
    PROVE  IInv'
<1> DEFINE x == file["identity"]
<1>1. at[c] = "reread" /\ step[c] = 1 BY DEF Reread, IInv, InOrder
<1>2. /\ DOMAIN file = Files /\ DOMAIN hand = Commands
      /\ \A d \in Commands : DOMAIN hand[d] = Files
  BY DEF IInv, Shape
<1>3. CASE Fail(c) BY <1>3, FailKeepsIInv
<1>4. ASSUME x # Torn, hand' = [hand EXCEPT ![c]["identity"] = x], Loaded(c),
             GoesOn("identity", x), file' = file
      PROVE  IInv'
  <2>1. restores' = restores /\ used' = used \union {x} BY <1>4 DEF GoesOn
  <2>2. /\ DOMAIN hand' = Commands /\ DOMAIN hand'[c] = Files
        /\ \A d \in Commands \ {c} : hand'[d] = hand[d]
    BY <1>2, <1>4
  <2>3. /\ Shape' /\ \A d \in Commands : InOrder(d)'
        /\ at'[c] \in {"load", "work"}
        /\ \A d \in Commands \ {c} : at'[d] = at[d] /\ step'[d] = step[d]
    BY <1>1, <1>2, <1>4, <2>1, <2>2, LoadedStep
  <2>4. ~restores => x # Absent BY <1>1 DEF IInv, BelongsTo
  <2>5. ~restores => NoneYet' /\ \E p \in Agents : BelongsTo(p)'
    BY <1>4, <2>1, <2>2, <2>3, <2>4, QuietStep
  <2> QED BY <2>1, <2>3, <2>5 DEF IInv
<1> QED BY <1>3, <1>4 DEF Reread, Readable

(* What moves a command without touching the identity keeps the invariant. *)
LEMMA QuietGoto ==
    ASSUME IInv, NEW c \in Commands, NEW a \in Labels, Goto(c, a),
           a \notin {"create", "fill", "reread"},
           DOMAIN file' = Files, ~restores => file'["identity"] = file["identity"],
           DOMAIN hand' = Commands, DOMAIN hand'[c] = Files,
           \A d \in Commands \ {c} : hand'[d] = hand[d],
           used' = used, restores' = restores,
           a \in {"idle", "check", "work"} => step[c] = 1,
           a = "load" => step[c] \in 1 .. 4,
           ~restores /\ a \in {"open", "save"} => step[c] = 1 /\ kind[c] # "restore"
    PROVE  IInv'
<1>1. /\ Shape' /\ \A d \in Commands : InOrder(d)'
      /\ at'[c] = a /\ step' = step
      /\ \A d \in Commands \ {c} : at'[d] = at[d] /\ step'[d] = step[d]
  BY GotoStep
<1>2. ~restores => NoneYet' /\ \E p \in Agents : BelongsTo(p)'
  BY <1>1, QuietStep
<1> QED BY <1>1, <1>2 DEF IInv

(* A command begins: nothing is loaded or written yet.                     *)
LEMMA BeginKeepsIInv ==
    ASSUME IInv, NEW c \in Commands, NEW k \in Kinds, Begin(c, k)
    PROVE  IInv'
<1> DEFINE a == IF k = "restore" THEN "check" ELSE "load"
<1>1. /\ kind' = [kind EXCEPT ![c] = k] /\ at' = [at EXCEPT ![c] = a]
      /\ file' = file /\ step' = step /\ hand' = hand
      /\ used' = used /\ restores' = restores
      /\ at[c] = "idle"
  BY DEF Begin
<1>2. step[c] = 1 BY <1>1 DEF IInv, InOrder
<1>3. /\ kind' \in [Commands -> Kinds] /\ at' \in [Commands -> Labels]
      /\ step' \in [Commands -> 1 .. 5]
      /\ \A d \in Commands \ {c} : /\ kind'[d] = kind[d] /\ at'[d] = at[d]
                                   /\ step'[d] = step[d] /\ hand'[d] = hand[d]
      /\ DOMAIN file' = Files /\ DOMAIN hand' = Commands /\ DOMAIN hand'[c] = Files
      /\ at'[c] \in {"check", "load"}
  BY <1>1 DEF IInv, Shape, Labels
<1>4. InOrder(c)' BY <1>1, <1>2, <1>3 DEF InOrder
<1>5. Shape' /\ \A d \in Commands : InOrder(d)'
  BY <1>1, <1>3, <1>4, ShapeStep
<1>6. ~restores => NoneYet' /\ \E p \in Agents : BelongsTo(p)'
  BY <1>1, <1>3, QuietStep
<1> QED BY <1>1, <1>5, <1>6 DEF IInv

(* The work of sync, backup create and backup restore.                     *)
LEMMA WorkKeepsIInv ==
    ASSUME IInv, NEW c \in Commands,
           \/ Sync(c) \/ BackupCreate(c)
           \/ \E force \in BOOLEAN, b \in backups : RestoreBegins(c, force, b)
    PROVE  IInv'
<1>1. /\ DOMAIN file = Files /\ DOMAIN hand = Commands
      /\ \A d \in Commands : DOMAIN hand[d] = Files
  BY DEF IInv, Shape
<1>2. CASE Sync(c) \/ BackupCreate(c)
  <2>1. /\ at[c] = "work" /\ kind[c] # "restore" /\ Goto(c, "open")
        /\ file' = file /\ used' = used /\ restores' = restores
    BY <1>2 DEF Sync, BackupCreate, history
  <2>2. step[c] = 1 BY <2>1 DEF IInv, InOrder
  <2>3. /\ DOMAIN hand' = Commands /\ DOMAIN hand'[c] = Files
        /\ \A d \in Commands \ {c} : hand'[d] = hand[d]
    BY <1>1, <1>2 DEF Sync, BackupCreate
  <2> QED BY <1>1, <2>1, <2>2, <2>3, QuietGoto DEF Labels
<1>3. ASSUME NEW force \in BOOLEAN, NEW b \in backups, RestoreBegins(c, force, b)
      PROVE  IInv'
  <2>1. CASE Fail(c) BY <2>1, FailKeepsIInv
  <2>2. CASE ~Fail(c)
    <3>1. /\ Goto(c, "open") /\ restores' = TRUE /\ file' = file
      BY <1>3, <2>2 DEF RestoreBegins
    <3>2. /\ DOMAIN hand' = Commands /\ DOMAIN hand'[c] = Files
          /\ \A d \in Commands \ {c} : hand'[d] = hand[d]
      BY <1>1, <1>3, <2>2 DEF RestoreBegins
    <3>3. Shape' /\ \A d \in Commands : InOrder(d)'
      BY <1>1, <3>1, <3>2, GotoStep DEF Labels
    <3> QED BY <3>1, <3>3 DEF IInv
  <2> QED BY <2>1, <2>2
<1> QED BY <1>2, <1>3

(* Truncating and filling the files that a command replaces.               *)
LEMMA WriteKeepsIInv ==
    ASSUME IInv, NEW c \in Commands, Open(c) \/ Save(c)
    PROVE  IInv'
<1> DEFINE f == Writes(kind[c])[step[c]]
<1>1. /\ DOMAIN file = Files /\ DOMAIN hand = Commands
      /\ \A d \in Commands : DOMAIN hand[d] = Files
      /\ kind[c] \in Kinds /\ step[c] \in 1 .. 5
  BY DEF IInv, Shape
<1>2. ~restores => step[c] = 1 /\ kind[c] # "restore"
  BY DEF IInv, InOrder, Open, Save
<1>3. ~restores => f \in Files \ {"identity"} /\ Len(Writes(kind[c])) = 1
  BY <1>1, <1>2, WriteOrder
<1>4. CASE Fail(c) BY <1>4, FailKeepsIInv
<1>5. CASE Open(c) /\ ~Fail(c)
  <2>1. /\ file' = [file EXCEPT ![f] = Torn] /\ Goto(c, "save")
        /\ hand' = IF f = "metadata" THEN [hand EXCEPT ![c][f] = Blank] ELSE hand
        /\ used' = used /\ restores' = restores
    BY <1>5 DEF Open, history
  <2>2. /\ DOMAIN hand' = Commands /\ DOMAIN hand'[c] = Files
        /\ \A d \in Commands \ {c} : hand'[d] = hand[d]
    BY <1>1, <2>1
  <2>3. DOMAIN file' = Files /\ (~restores => file'["identity"] = file["identity"])
    BY <1>1, <1>3, <2>1 DEF Files, StateFiles
  <2> QED BY <1>2, <2>1, <2>2, <2>3, QuietGoto DEF Labels
<1>6. CASE Save(c)
  <2>1. /\ file' = [file EXCEPT ![f] = hand[c][f]]
        /\ kind' = kind /\ hand' = hand /\ used' = used /\ restores' = restores
    BY <1>6 DEF Save, history
  <2>2. DOMAIN file' = Files /\ (~restores => file'["identity"] = file["identity"])
    BY <1>1, <1>3, <2>1 DEF Files, StateFiles
  <2>3. /\ at'[c] \in {"open", "done"} /\ at' \in [Commands -> Labels]
        /\ step' \in [Commands -> 1 .. 5]
        /\ \A d \in Commands \ {c} : at'[d] = at[d] /\ step'[d] = step[d]
        /\ ~restores => at'[c] = "done"
    <3>1. Len(Writes(kind[c])) \in 1 .. 5
      BY <1>1 DEF Writes, Kinds
    <3>2. /\ at \in [Commands -> Labels] /\ step \in [Commands -> 1 .. 5]
          /\ "open" \in Labels /\ "done" \in Labels
      BY DEF IInv, Shape, Labels
    <3>3. CASE /\ step[c] < Len(Writes(kind[c]))
               /\ at' = [at EXCEPT ![c] = "open"]
               /\ step' = [step EXCEPT ![c] = @ + 1]
      <4>a. \A m, n \in 1 .. 5 : m < n => m + 1 \in 1 .. 5 OBVIOUS
      <4>1. step[c] + 1 \in 1 .. 5 BY <1>1, <3>1, <3>3, <4>a
      <4>2. restores BY <1>2, <1>3, <3>3
      <4> QED BY <3>2, <3>3, <4>1, <4>2
    <3>4. CASE at' = [at EXCEPT ![c] = "done"] /\ UNCHANGED step
      BY <3>2, <3>4
    <3> QED BY <1>6, <3>3, <3>4 DEF Save
  <2>4. InOrder(c)' BY <2>1, <2>3 DEF InOrder
  <2>5. Shape' /\ \A d \in Commands : InOrder(d)'
    <3>1. /\ kind' \in [Commands -> Kinds] /\ DOMAIN hand' = Commands
          /\ DOMAIN hand'[c] = Files
      BY <1>1, <2>1 DEF IInv, Shape
    <3> QED BY <2>1, <2>2, <2>3, <2>4, <3>1, ShapeStep
  <2>6. ~restores => NoneYet' /\ \E p \in Agents : BelongsTo(p)'
    BY <2>1, <2>2, <2>3, QuietStep
  <2> QED BY <2>1, <2>5, <2>6 DEF IInv
<1> QED BY <1>4, <1>5, <1>6

(* Every step of every command keeps the invariant.                        *)
LEMMA NextKeepsIInv == IInv /\ [Next]_vars => IInv'
<1> SUFFICES ASSUME IInv, [Next]_vars PROVE IInv'
  OBVIOUS
<1>1. ASSUME NEW c \in Commands, Step(c) PROVE IInv'
  <2>1. CASE \E k \in Kinds : Begin(c, k) BY <2>1, BeginKeepsIInv
  <2>2. CASE Load(c) BY <2>2, LoadKeepsIInv
  <2>3. CASE Create(c) BY <2>3, CreateKeepsIInv
  <2>4. CASE Fill(c) BY <2>4, FillKeepsIInv
  <2>5. CASE Reread(c) BY <2>5, RereadKeepsIInv
  <2>6. CASE \/ Sync(c) \/ BackupCreate(c)
             \/ \E force \in BOOLEAN, b \in backups : RestoreBegins(c, force, b)
    BY <2>6, WorkKeepsIInv
  <2>7. CASE Open(c) \/ Save(c) BY <2>7, WriteKeepsIInv
  <2>8. CASE Crash(c) BY <2>8, FailKeepsIInv DEF Crash
  <2> QED BY <1>1, <2>1, <2>2, <2>3, <2>4, <2>5, <2>6, <2>7, <2>8 DEF Step
<1>2. CASE UNCHANGED vars
  <2> USE <1>2 DEF vars, history
  <2>1. Shape' BY DEF IInv, Shape
  <2>2. \A c \in Commands : InOrder(c)' BY DEF IInv, InOrder
  <2>3. ~restores' => NoneYet' /\ \E p \in Agents : BelongsTo(p)'
    BY DEF IInv, NoneYet, BelongsTo, AtIdentity
  <2> QED BY <2>1, <2>2, <2>3 DEF IInv
<1> QED BY <1>1, <1>2 DEF Next

(* The inductive invariant holds in every reachable state.                 *)
THEOREM InvariantHolds == Spec => []IInv
BY InitIInv, NextKeepsIInv, PTL DEF Spec

(* Commands that share a directory go on with one identity, however many   *)
(* find none at once and wherever they crash: create_or_load makes the     *)
(* file with create_new and reads what another command has made.           *)
THEOREM IdentityIsOne == Spec => []OneIdentity
<1>1. IInv => OneIdentity
  BY DEF IInv, BelongsTo, IsOf, OneIdentity
<1> QED BY <1>1, InvariantHolds, PTL

-----------------------------------------------------------------------------
(* Of a command's copies, that of f parses; and so do the first n.         *)
Has(h, f) == h[f] \in Intact(f)
HasFirst(h, n) == \A i \in 1 .. 4 : i <= n => Has(h, Loads[i])

(* What a command holds, by where it is.  One that found the identity to   *)
(* exist reads a file that is there.                                       *)
Held(c) ==
    /\ at[c] \in {"idle", "check"} => step[c] = 1
    /\ at[c] = "load" => step[c] \in 1 .. 4 /\ HasFirst(hand[c], step[c] - 1)
    /\ at[c] \in {"create", "fill"} => step[c] \in 1 .. 4 /\ HasFirst(hand[c], step[c])
    /\ at[c] = "reread" => step[c] = 1 /\ file["identity"] # Absent
    /\ at[c] = "work" => step[c] = 1 /\ HasFirst(hand[c], 4)
    /\ at[c] \in {"open", "save"} =>
          step[c] \in 1 .. Len(Writes(kind[c])) /\ HasFirst(hand[c], 4)
    /\ at[c] \in {"load", "create", "fill", "reread", "work"} => kind[c] # "restore"
    /\ at[c] = "check" => kind[c] = "restore"

Contents == \A f \in Files : file[f] \in Intact(f) \union {Absent, Torn}
Copies(c) == \A f \in Files : hand[c][f] \in Intact(f) \union {Absent}
Records ==
    /\ backups \subseteq Payload /\ used \subseteq Identity
    /\ restores \in BOOLEAN /\ forced \in BOOLEAN /\ crossed \in BOOLEAN
    /\ alone \in Commands \union {Nobody}

Types ==
    /\ IInv /\ Contents /\ Records
    /\ \A c \in Commands : Copies(c) /\ Held(c)

(* What each file holds when it parses.                                    *)
LEMMA IntactFiles ==
    /\ Intact("identity") = Identity /\ Intact("device") = Agents
    /\ Intact("memory") = Agents \union {Blank} /\ Intact("config") = Agents \union {Blank}
    /\ Intact("metadata") = {Blank}
BY DEF Intact

(* The four files by their places.                                         *)
LEMMA LoadPlaces ==
    /\ Loads[1] = "identity" /\ Loads[2] = "device" /\ Loads[3] = "memory"
    /\ Loads[4] = "config" /\ Len(Loads) = 4
    /\ \A n \in 1 .. 4 : Loads[n] \in StateFiles
BY DEF Loads, StateFiles

(* Whoever has the first four has all of the state.                        *)
LEMMA HasAll ==
    ASSUME NEW h, HasFirst(h, 4)
    PROVE  \A f \in StateFiles : h[f] \in Intact(f)
<1>1. Has(h, Loads[1]) /\ Has(h, Loads[2]) /\ Has(h, Loads[3]) /\ Has(h, Loads[4])
  BY DEF HasFirst
<1> QED BY <1>1, LoadPlaces DEF Has, StateFiles

(* A step of c leaves the others where they are, with what they have.      *)
LEMMA OthersKeep ==
    ASSUME Shape, NEW c \in Commands, Step(c)
    PROVE  \A d \in Commands \ {c} : /\ kind'[d] = kind[d] /\ at'[d] = at[d]
                                      /\ step'[d] = step[d] /\ hand'[d] = hand[d]
<1> USE DEF Shape
<1>0. CASE Fail(c) BY <1>0 DEF Fail, Goto
<1>a. ASSUME Loaded(c)
      PROVE  \A d \in Commands \ {c} : /\ kind'[d] = kind[d] /\ at'[d] = at[d]
                                        /\ step'[d] = step[d]
  BY <1>a DEF Loaded
<1>1. CASE \E k \in Kinds : Begin(c, k) BY <1>1 DEF Begin
<1>2. CASE Load(c) BY <1>0, <1>2, <1>a DEF Load, Goto
<1>3. CASE Create(c) BY <1>3 DEF Create, Goto
<1>4. CASE Fill(c) BY <1>4, <1>a DEF Fill
<1>5. CASE Reread(c) BY <1>0, <1>5, <1>a DEF Reread
<1>6. CASE Sync(c) BY <1>6 DEF Sync, Goto
<1>7. CASE BackupCreate(c) BY <1>7 DEF BackupCreate, Goto
<1>8. ASSUME NEW force \in BOOLEAN, NEW b \in backups, RestoreBegins(c, force, b)
      PROVE  \A d \in Commands \ {c} : /\ kind'[d] = kind[d] /\ at'[d] = at[d]
                                        /\ step'[d] = step[d] /\ hand'[d] = hand[d]
  BY <1>0, <1>8 DEF RestoreBegins, Goto
<1>9. CASE Open(c) BY <1>0, <1>9 DEF Open, Goto
<1>10. CASE Save(c) BY <1>10 DEF Save
<1>11. CASE Crash(c) BY <1>0, <1>11 DEF Crash
<1> QED BY <1>1, <1>2, <1>3, <1>4, <1>5, <1>6, <1>7, <1>8, <1>9, <1>10, <1>11 DEF Step

(* What c has to see to for the types to be kept.                          *)
LEMMA TypesStep ==
    ASSUME Types, IInv', NEW c \in Commands, Step(c), Contents', Records', Copies(c)',
           Held(c)', file["identity"] # Absent => file'["identity"] # Absent
    PROVE  Types'
<1>1. \A d \in Commands \ {c} : /\ kind'[d] = kind[d] /\ at'[d] = at[d]
                                 /\ step'[d] = step[d] /\ hand'[d] = hand[d]
  BY OthersKeep DEF Types, IInv
<1>2. \A d \in Commands \ {c} : Copies(d)'
  BY <1>1 DEF Types, Copies
<1>3. ASSUME NEW d \in Commands, d # c PROVE Held(d)'
  <2>1. Held(d) BY DEF Types
  <2>2. /\ kind'[d] = kind[d] /\ at'[d] = at[d] /\ step'[d] = step[d]
        /\ hand'[d] = hand[d]
    BY <1>1, <1>3
  <2>3. \A n : HasFirst(hand[d], n) => HasFirst(hand'[d], n) BY <2>2 DEF HasFirst, Has
  <2> QED BY <2>1, <2>2, <2>3 DEF Held
<1> QED BY <1>2, <1>3 DEF Types

(* A file takes what it may hold.                                          *)
LEMMA FileStep ==
    ASSUME Types, NEW f \in Files, NEW v \in Intact(f) \union {Torn, Absent},
           f = "identity" => v # Absent, file' = [file EXCEPT ![f] = v]
    PROVE  Contents' /\ (file["identity"] # Absent => file'["identity"] # Absent)
BY DEF Types, IInv, Shape, Contents, Files, StateFiles

(* And so does the hand of a command.                                      *)
LEMMA HandStep ==
    ASSUME Types, NEW c \in Commands, NEW f \in Files, NEW v \in Intact(f),
           hand' = [hand EXCEPT ![c][f] = v]
    PROVE  /\ Copies(c)' /\ Has(hand'[c], f)
           /\ \A g \in Files : Has(hand[c], g) => Has(hand'[c], g)
BY DEF Types, IInv, Shape, Copies, Has

(* The initial directory and backups are well formed.                      *)
LEMMA InitTypes == Init => Types
<1> SUFFICES ASSUME Init PROVE Types
  OBVIOUS
<1>1. IInv BY InitIInv
<1>2. Old \in Agents BY NamesAreFresh DEF Agents
<1>3. [peer |-> Old, key |-> NoKey] \in Identity BY <1>2 DEF Identity
<1>4. \A f \in Files : file[f] \in {Absent, Old, [peer |-> Old, key |-> NoKey]}
        /\ (f = "identity" => file[f] \in {Absent, [peer |-> Old, key |-> NoKey]})
        /\ (f \in {"device", "memory"} => file[f] \in {Absent, Old})
        /\ (f \in {"config", "metadata"} => file[f] = Absent)
  BY DEF Init, Nothing, Files, StateFiles
<1>5. Contents
  BY <1>2, <1>3, <1>4, IntactFiles DEF Contents, Files, StateFiles
<1>6. Records
  <2>1. ASSUME NEW a \in Others PROVE Whole(a) \in Payload
    BY DEF Whole, Payload, Identity, Agents
  <2> QED BY <2>1 DEF Init, Records
<1>7. \A c \in Commands : Copies(c)
  BY DEF Init, Copies, Nothing
<1>8. \A c \in Commands : Held(c)
  BY DEF Init, Held
<1> QED BY <1>1, <1>5, <1>6, <1>7, <1>8 DEF Types

(* Giving up drops the copies.                                             *)
LEMMA FailKeepsTypes ==
    ASSUME Types, IInv', NEW c \in Commands, Step(c), Fail(c)
    PROVE  Types'
<1>1. /\ at' = [at EXCEPT ![c] = "failed"] /\ file' = file /\ backups' = backups
      /\ hand' = [hand EXCEPT ![c] = Nothing]
      /\ UNCHANGED <<used, restores, forced, crossed, alone>>
  BY DEF Fail, Goto, history
<1>2. at'[c] = "failed" /\ hand'[c] = Nothing BY <1>1 DEF Types, IInv, Shape
<1>3. Copies(c)' BY <1>2 DEF Copies, Nothing
<1>4. Held(c)' BY <1>2 DEF Held
<1>5. Contents' /\ Records' BY <1>1 DEF Types, Contents, Records
<1> QED BY <1>1, <1>3, <1>4, <1>5, TypesStep

(* One more file is loaded.                                                *)
LEMMA LoadedHeld ==
    ASSUME Types, NEW c \in Commands, Loaded(c), at[c] \in {"load", "fill", "reread"},
           step[c] \in 1 .. 4, HasFirst(hand'[c], step[c])
    PROVE  Held(c)'
<1>1. kind'[c] = kind[c] /\ kind[c] # "restore"
  BY DEF Loaded, Types, Held
<1>2. CASE step[c] < Len(Loads)
  <2>1. at'[c] = "load" /\ step'[c] = step[c] + 1
    BY <1>2 DEF Loaded, Types, IInv, Shape
  <2>2. step'[c] \in 1 .. 4 /\ step'[c] - 1 = step[c]
    BY <1>2, <2>1, LoadPlaces
  <2>3. HasFirst(hand'[c], step'[c] - 1) BY <2>2 DEF HasFirst, Has
  <2> QED BY <1>1, <2>1, <2>2, <2>3 DEF Held
<1>3. CASE ~(step[c] < Len(Loads))
  <2>1. at'[c] = "work" /\ step'[c] = 1 /\ step[c] = 4
    BY <1>3, LoadPlaces DEF Loaded, Types, IInv, Shape
  <2>2. HasFirst(hand'[c], 4) BY <2>1
  <2> QED BY <1>1, <2>1, <2>2 DEF Held
<1> QED BY <1>2, <1>3

(* A hand that had the files before f has them with f.                     *)
LEMMA HasNext ==
    ASSUME Types, NEW c \in Commands, NEW n \in 1 .. 4, HasFirst(hand[c], n - 1),
           NEW v \in Intact(Loads[n]), hand' = [hand EXCEPT ![c][Loads[n]] = v]
    PROVE  Copies(c)' /\ HasFirst(hand'[c], n)
<1>1. Loads[n] \in Files BY LoadOrder
<1>2. /\ Copies(c)' /\ Has(hand'[c], Loads[n])
      /\ \A g \in Files : Has(hand[c], g) => Has(hand'[c], g)
  BY <1>1, HandStep
<1>3. \A i \in 1 .. 4 : i <= n => i = n \/ i <= n - 1 OBVIOUS
<1>4. \A i \in 1 .. 4 : Loads[i] \in Files BY LoadOrder
<1>5. \A i \in 1 .. 4 : i <= n => Has(hand'[c], Loads[i])
  BY <1>2, <1>3, <1>4 DEF HasFirst
<1> QED BY <1>2, <1>5 DEF HasFirst

(* Loading a file, up to the first write.                                  *)
LEMMA LoadKeepsTypes ==
    ASSUME Types, IInv', NEW c \in Commands, Step(c), Load(c)
    PROVE  Types'
<1> DEFINE n == step[c]
           f == Loads[n]
           x == file[f]
<1>1. /\ at[c] = "load" /\ n \in 1 .. 4 /\ HasFirst(hand[c], n - 1) /\ kind[c] # "restore"
  BY DEF Load, Types, Held
<1>2. f \in StateFiles /\ f \in Files /\ x \in Intact(f) \union {Absent, Torn}
  BY <1>1, LoadPlaces, LoadOrder DEF Types, Contents
<1>3. CASE Fail(c) BY <1>3, FailKeepsTypes
<1>4. ASSUME Loaded(c), GoesOn(f, x), x \notin {Absent, Torn},
             hand' = [hand EXCEPT ![c][f] = x], UNCHANGED <<file, backups>>
      PROVE  Types'
  <2>1. x \in Intact(f) BY <1>2, <1>4
  <2>2. Copies(c)' /\ HasFirst(hand'[c], n) BY <1>1, <1>4, <2>1, HasNext
  <2>3. Held(c)' BY <1>1, <1>4, <2>2, LoadedHeld
  <2>4. Records'
    BY <1>4, <2>1, IntactFiles DEF GoesOn, Types, Records
  <2>5. Contents' BY <1>4 DEF Types, Contents
  <2> QED BY <1>4, <2>2, <2>3, <2>4, <2>5, TypesStep
<1>5. ASSUME NEW v \in Intact(f), hand' = [hand EXCEPT ![c][f] = v],
             Goto(c, "create"), UNCHANGED <<file, backups, history>>
      PROVE  Types'
  <2>1. Copies(c)' /\ HasFirst(hand'[c], n) BY <1>1, <1>5, HasNext
  <2>2. at'[c] = "create" /\ step' = step /\ kind' = kind
    BY <1>5 DEF Goto, Types, IInv, Shape
  <2>3. Held(c)' BY <1>1, <2>1, <2>2 DEF Held
  <2>4. Records' /\ Contents' BY <1>5 DEF history, Types, Records, Contents
  <2> QED BY <1>5, <2>1, <2>3, <2>4, TypesStep
<1>6. ASSUME NeedsKey(f, x) PROVE [x EXCEPT !.key = c] \in Intact(f)
  <2>1. f = "identity" /\ x \in Identity BY <1>6 DEF NeedsKey
  <2>2. [x EXCEPT !.key = c] \in Identity BY <2>1 DEF Identity, Agents
  <2> QED BY <2>1, <2>2, IntactFiles
<1>7. ASSUME f = "config", hand' = [hand EXCEPT ![c][f] = Blank], Loaded(c),
             UNCHANGED <<file, backups, history>>
      PROVE  Types'
  <2>1. Blank \in Intact(f) BY <1>7, IntactFiles
  <2>2. Copies(c)' /\ HasFirst(hand'[c], n) BY <1>1, <1>7, <2>1, HasNext
  <2>3. Held(c)' BY <1>1, <1>7, <2>2, LoadedHeld
  <2>4. Records' /\ Contents' BY <1>7 DEF history, Types, Records, Contents
  <2> QED BY <1>7, <2>2, <2>3, <2>4, TypesStep
<1>8. ASSUME f # "config" PROVE Generated(c, f) \in Intact(f)
  <2>1. [peer |-> c, key |-> c] \in Identity BY DEF Identity, Agents
  <2> QED BY <1>2, <1>8, <2>1, IntactFiles DEF Generated, StateFiles, Agents
<1>9. CASE /\ hand' = [hand EXCEPT ![c][f] = [x EXCEPT !.key = c]] /\ NeedsKey(f, x)
           /\ Goto(c, "create") /\ UNCHANGED <<file, backups, history>>
  BY <1>5, <1>6, <1>9
<1>10. CASE /\ hand' = [hand EXCEPT ![c][f] = Generated(c, f)] /\ f # "config"
            /\ Goto(c, "create") /\ UNCHANGED <<file, backups, history>>
  BY <1>5, <1>8, <1>10
<1> QED BY <1>3, <1>4, <1>7, <1>9, <1>10 DEF Load, Readable

(* Creating or truncating a file, or finding the identity there.           *)
LEMMA CreateKeepsTypes ==
    ASSUME Types, IInv', NEW c \in Commands, Step(c), Create(c)
    PROVE  Types'
<1> DEFINE f == Loads[step[c]]
<1>1. /\ at[c] = "create" /\ step[c] \in 1 .. 4 /\ HasFirst(hand[c], step[c])
      /\ kind[c] # "restore" /\ f \in Files /\ (f = "identity" => step[c] = 1)
  BY LoadOrder DEF Create, Types, Held
<1>2. hand' = hand /\ backups' = backups /\ UNCHANGED history /\ kind' = kind /\ step' = step
  BY DEF Create, Goto
<1>3. Copies(c)' /\ Records' /\ HasFirst(hand'[c], step[c])
  BY <1>1, <1>2 DEF history, Types, Copies, Records, HasFirst, Has
<1>4. CASE MustBeNew(c, f) /\ file[f] # Absent /\ Goto(c, "reread") /\ UNCHANGED file
  <2>1. f = "identity" /\ at'[c] = "reread"
    BY <1>4 DEF MustBeNew, Goto, Types, IInv, Shape
  <2>2. Held(c)' BY <1>1, <1>2, <1>4, <2>1 DEF Held
  <2>3. Contents' BY <1>4 DEF Types, Contents
  <2> QED BY <1>3, <1>4, <2>2, <2>3, TypesStep
<1>5. CASE file' = [file EXCEPT ![f] = Torn] /\ Goto(c, "fill")
  <2>1. Contents' /\ (file["identity"] # Absent => file'["identity"] # Absent)
    BY <1>1, <1>5, FileStep, TornIsNotAbsent
  <2>2. at'[c] = "fill" BY <1>5 DEF Goto, Types, IInv, Shape
  <2>3. Held(c)' BY <1>1, <1>2, <1>3, <2>2 DEF Held
  <2> QED BY <1>3, <2>1, <2>3, TypesStep
<1> QED BY <1>4, <1>5 DEF Create

(* Filling it.                                                             *)
LEMMA FillKeepsTypes ==
    ASSUME Types, IInv', NEW c \in Commands, Step(c), Fill(c)
    PROVE  Types'
<1> DEFINE f == Loads[step[c]]
           v == hand[c][f]
<1>1. /\ at[c] = "fill" /\ step[c] \in 1 .. 4 /\ HasFirst(hand[c], step[c]) /\ f \in Files
  BY LoadOrder DEF Fill, Types, Held
<1>2. v \in Intact(f) BY <1>1 DEF HasFirst, Has
<1>3. /\ file' = [file EXCEPT ![f] = v] /\ Loaded(c) /\ GoesOn(f, v)
      /\ hand' = hand /\ backups' = backups
  BY DEF Fill
<1>4. f = "identity" => v # Absent BY <1>2, IntactFiles, MarkersAreFresh
<1>5. Contents' /\ (file["identity"] # Absent => file'["identity"] # Absent)
  BY <1>1, <1>2, <1>3, <1>4, FileStep
<1>6. Copies(c)' /\ HasFirst(hand'[c], step[c])
  BY <1>1, <1>3 DEF Types, Copies, HasFirst, Has
<1>7. Held(c)' BY <1>1, <1>3, <1>6, LoadedHeld
<1>8. Records' BY <1>2, <1>3, IntactFiles DEF GoesOn, Types, Records
<1> QED BY <1>5, <1>6, <1>7, <1>8, TypesStep

(* Reading the identity that another command was first to create.          *)
LEMMA RereadKeepsTypes ==
    ASSUME Types, IInv', NEW c \in Commands, Step(c), Reread(c)
    PROVE  Types'
<1> DEFINE x == file["identity"]
<1>1. at[c] = "reread" /\ step[c] = 1 /\ x # Absent BY DEF Reread, Types, Held
<1>2. CASE Fail(c) BY <1>2, FailKeepsTypes
<1>3. CASE ~Fail(c)
  <2>1. /\ x # Torn /\ hand' = [hand EXCEPT ![c]["identity"] = x] /\ Loaded(c)
        /\ GoesOn("identity", x) /\ UNCHANGED <<file, backups>>
    BY <1>3 DEF Reread, Readable
  <2>2. x \in Identity
    BY <1>1, <2>1, IntactFiles DEF Types, Contents, Files, StateFiles
  <2>3. HasFirst(hand[c], 1 - 1) BY DEF HasFirst
  <2>4. Copies(c)' /\ HasFirst(hand'[c], 1)
    <3>1. x \in Intact(Loads[1]) /\ hand' = [hand EXCEPT ![c][Loads[1]] = x]
      BY <2>1, <2>2, IntactFiles, LoadPlaces
    <3>2. 1 \in 1 .. 4 OBVIOUS
    <3> HIDE DEF x
    <3> QED BY <2>3, <3>1, <3>2, HasNext
  <2>5. Held(c)' BY <1>1, <2>1, <2>4, LoadedHeld
  <2>6. Records' BY <2>1, <2>2 DEF GoesOn, Types, Records
  <2>7. Contents' BY <2>1 DEF Types, Contents
  <2> QED BY <2>1, <2>4, <2>5, <2>6, <2>7, TypesStep
<1> QED BY <1>2, <1>3

(* A command begins with nothing in hand.                                  *)
LEMMA BeginKeepsTypes ==
    ASSUME Types, IInv', NEW c \in Commands, NEW k \in Kinds, Step(c), Begin(c, k)
    PROVE  Types'
<1>1. /\ at[c] = "idle" /\ step' = step /\ hand' = hand /\ file' = file
      /\ backups' = backups /\ used' = used /\ restores' = restores /\ forced' = forced
      /\ kind'[c] = k
      /\ at'[c] = IF k = "restore" THEN "check" ELSE "load"
  BY DEF Begin, Types, IInv, Shape
<1>2. step[c] = 1 BY <1>1 DEF Types, Held
<1>3. HasFirst(hand'[c], 1 - 1) BY DEF HasFirst
<1>4. Held(c)' BY <1>1, <1>2, <1>3 DEF Held
<1>5. crossed' \in BOOLEAN /\ alone' \in Commands \union {Nobody}
  BY DEF Begin, Types, Records
<1>6. Records' BY <1>1, <1>5 DEF Types, Records
<1>7. Copies(c)' /\ Contents' BY <1>1 DEF Types, Copies, Contents
<1> QED BY <1>1, <1>4, <1>6, <1>7, TypesStep

(* The work of sync, backup create and backup restore.                     *)
LEMMA WorkKeepsTypes ==
    ASSUME Types, IInv', NEW c \in Commands, Step(c),
           \/ Sync(c) \/ BackupCreate(c)
           \/ \E force \in BOOLEAN, b \in backups : RestoreBegins(c, force, b)
    PROVE  Types'
<1>0. \A k \in Kinds : 1 \in 1 .. Len(Writes(k)) BY DEF Kinds, Writes
<1>a. kind[c] \in Kinds BY DEF Types, IInv, Shape
<1>1. CASE Sync(c)
  <2>1. /\ at[c] = "work" /\ Goto(c, "open") /\ UNCHANGED <<file, backups, history>>
    BY <1>1 DEF Sync
  <2>2. step[c] = 1 /\ HasFirst(hand[c], 4) BY <2>1 DEF Types, Held
  <2>3. hand[c]["identity"] \in Identity /\ hand[c]["memory"] \in Intact("memory")
    BY <2>2, HasAll, IntactFiles DEF StateFiles
  <2>4. PICK v \in Intact("memory") : hand' = [hand EXCEPT ![c]["memory"] = v]
    <3>1. hand' = [hand EXCEPT ![c]["memory"] =
                      IF hand[c]["memory"] = Blank THEN hand[c]["identity"].peer
                      ELSE hand[c]["memory"]]
      BY <1>1 DEF Sync, Types, IInv, Shape, Files, StateFiles
    <3>2. hand[c]["identity"].peer \in Intact("memory")
      BY <2>3, IntactFiles DEF Identity
    <3> QED BY <2>3, <3>1, <3>2
  <2>5. Copies(c)' /\ \A g \in Files : Has(hand[c], g) => Has(hand'[c], g)
    BY <2>4, HandStep DEF Files, StateFiles
  <2>6. HasFirst(hand'[c], 4) BY <2>2, <2>5, LoadOrder DEF HasFirst
  <2>7. at'[c] = "open" /\ kind' = kind /\ step' = step
    BY <2>1 DEF Goto, Types, IInv, Shape
  <2>8. Held(c)' BY <1>0, <1>a, <2>2, <2>6, <2>7 DEF Held
  <2>9. Records' /\ Contents' BY <2>1 DEF history, Types, Records, Contents
  <2> QED BY <2>1, <2>5, <2>8, <2>9, TypesStep
<1>2. CASE BackupCreate(c)
  <2> DEFINE b == [identity |-> hand[c]["identity"], device |-> hand[c]["device"],
                   memory |-> hand[c]["memory"], config |-> hand[c]["config"]]
  <2>1. /\ at[c] = "work" /\ Goto(c, "open") /\ UNCHANGED <<file, hand, history>>
        /\ backups' = backups \union {b}
    BY <1>2 DEF BackupCreate
  <2>2. step[c] = 1 /\ HasFirst(hand[c], 4) BY <2>1 DEF Types, Held
  <2>3. /\ hand[c]["identity"] \in Identity /\ hand[c]["device"] \in Agents
        /\ hand[c]["memory"] \in Agents \union {Blank}
        /\ hand[c]["config"] \in Agents \union {Blank}
    BY <2>2, HasAll, IntactFiles DEF StateFiles
  <2>4. b \in Payload BY <2>3 DEF Payload
  <2>5. at'[c] = "open" /\ kind' = kind /\ step' = step
    BY <2>1 DEF Goto, Types, IInv, Shape
  <2>6. Held(c)' BY <1>0, <1>a, <2>1, <2>2, <2>5 DEF Held
  <2>7. Records' BY <2>1, <2>4 DEF history, Types, Records
  <2>8. Copies(c)' /\ Contents' BY <2>1 DEF Types, Copies, Contents
  <2> QED BY <2>1, <2>6, <2>7, <2>8, TypesStep
<1>3. ASSUME NEW force \in BOOLEAN, NEW b \in backups, RestoreBegins(c, force, b)
      PROVE  Types'
  <2>1. CASE Fail(c) BY <2>1, FailKeepsTypes
  <2>2. CASE ~Fail(c)
    <3> DEFINE h == [f \in Files |-> IF f = "device" THEN c
                                     ELSE IF f = "metadata" THEN Absent ELSE b[f]]
    <3>1. /\ at[c] = "check" /\ Goto(c, "open") /\ hand' = [hand EXCEPT ![c] = h]
          /\ restores' = TRUE /\ forced' = (forced \/ force)
          /\ UNCHANGED <<file, backups, used, crossed, alone>>
      BY <1>3, <2>2 DEF RestoreBegins
    <3>2. b \in Payload BY DEF Types, Records
    <3>3. /\ h["identity"] \in Identity /\ h["device"] \in Agents
          /\ h["memory"] \in Agents \union {Blank} /\ h["config"] \in Agents \union {Blank}
          /\ h["metadata"] = Absent
      BY <3>2 DEF Payload, Files, StateFiles, Agents
    <3>4. hand'[c] = h BY <3>1 DEF Types, IInv, Shape
    <3> HIDE DEF h
    <3>5. Copies(c)' BY <3>3, <3>4, IntactFiles DEF Copies, Files, StateFiles
    <3>6. HasFirst(hand'[c], 4)
      <4>1. Has(h, Loads[1]) /\ Has(h, Loads[2]) /\ Has(h, Loads[3]) /\ Has(h, Loads[4])
        BY <3>3, IntactFiles, LoadPlaces DEF Has
      <4>2. \A i \in 1 .. 4 : i = 1 \/ i = 2 \/ i = 3 \/ i = 4 OBVIOUS
      <4> QED BY <3>4, <4>1, <4>2 DEF HasFirst
    <3>7. at'[c] = "open" /\ kind' = kind /\ step' = step /\ step[c] = 1
      BY <3>1 DEF Goto, Types, IInv, Shape, Held
    <3>8. Held(c)' BY <1>0, <1>a, <3>6, <3>7 DEF Held
    <3>9. Records' /\ Contents' BY <3>1 DEF Types, Records, Contents
    <3> QED BY <3>1, <3>5, <3>8, <3>9, TypesStep
  <2> QED BY <2>1, <2>2
<1> QED BY <1>1, <1>2, <1>3

(* The files that each command writes.                                     *)
LEMMA WritePlaces ==
    /\ \A k \in Kinds : /\ Len(Writes(k)) \in 1 .. 5
                        /\ \A n \in 1 .. Len(Writes(k)) : Writes(k)[n] \in Files
    /\ Writes("restore")[1] = "identity" /\ Writes("restore")[2] = "memory"
    /\ Writes("restore")[3] = "config" /\ Writes("restore")[4] = "device"
    /\ Writes("restore")[5] = "metadata" /\ Len(Writes("restore")) = 5
    /\ Writes("sync") = <<"memory">> /\ Writes("backup") = <<"metadata">>
<1>1. /\ Writes("sync") = <<"memory">> /\ Writes("backup") = <<"metadata">>
      /\ Writes("restore") = <<"identity", "memory", "config", "device", "metadata">>
  BY DEF Writes
<1>2. ASSUME NEW n \in 1 .. 5 PROVE Writes("restore")[n] \in Files
  <2>1. n = 1 \/ n = 2 \/ n = 3 \/ n = 4 \/ n = 5 OBVIOUS
  <2> QED BY <1>1, <2>1 DEF Files, StateFiles
<1> QED BY <1>1, <1>2 DEF Kinds, Files, StateFiles

(* Truncating and filling the files that a command replaces.               *)
LEMMA WriteKeepsTypes ==
    ASSUME Types, IInv', NEW c \in Commands, Step(c), Open(c) \/ Save(c)
    PROVE  Types'
<1> DEFINE k == kind[c]
           f == Writes(k)[step[c]]
<1>1. /\ at[c] \in {"open", "save"} /\ step[c] \in 1 .. Len(Writes(k))
      /\ HasFirst(hand[c], 4)
  BY DEF Open, Save, Types, Held
<1>2. k \in Kinds BY DEF Types, IInv, Shape
<1>3. f \in Files BY <1>1, <1>2, WritePlaces
<1>4. CASE Fail(c) BY <1>4, FailKeepsTypes
<1>5. CASE Open(c) /\ ~Fail(c)
  <2>1. /\ file' = [file EXCEPT ![f] = Torn] /\ Goto(c, "save")
        /\ hand' = IF f = "metadata" THEN [hand EXCEPT ![c][f] = Blank] ELSE hand
        /\ UNCHANGED <<backups, history>>
    BY <1>5 DEF Open
  <2>2. Contents' /\ (file["identity"] # Absent => file'["identity"] # Absent)
    BY <1>3, <2>1, FileStep, TornIsNotAbsent
  <2>3. Copies(c)' /\ HasFirst(hand'[c], 4)
    <3>1. CASE f = "metadata"
      <4>1. /\ Copies(c)' /\ \A g \in Files : Has(hand[c], g) => Has(hand'[c], g)
        BY <1>3, <2>1, <3>1, HandStep, IntactFiles
      <4> QED BY <1>1, <4>1, LoadOrder DEF HasFirst
    <3>2. CASE f # "metadata"
      BY <1>1, <2>1, <3>2 DEF Types, Copies
    <3> QED BY <3>1, <3>2
  <2>4. at'[c] = "save" /\ kind' = kind /\ step' = step
    BY <2>1 DEF Goto, Types, IInv, Shape
  <2>5. Held(c)' BY <1>1, <2>3, <2>4 DEF Held
  <2>6. Records' BY <2>1 DEF history, Types, Records
  <2> QED BY <2>2, <2>3, <2>5, <2>6, TypesStep
<1>6. CASE Save(c)
  <2> DEFINE v == hand[c][f]
  <2>1. /\ file' = [file EXCEPT ![f] = v]
        /\ kind' = kind /\ UNCHANGED <<backups, hand, history>>
    BY <1>6 DEF Save
  <2>2. v \in Intact(f) \union {Absent} BY <1>3 DEF Types, Copies
  <2>3. f = "identity" => v # Absent
    BY <1>1, HasAll, IntactFiles, MarkersAreFresh DEF StateFiles
  <2>4. Contents' /\ (file["identity"] # Absent => file'["identity"] # Absent)
    <3> HIDE DEF v, f
    <3> QED BY <1>3, <2>1, <2>2, <2>3, FileStep
  <2>5. \/ at'[c] = "done"
        \/ at'[c] = "open" /\ step'[c] = step[c] + 1 /\ step[c] < Len(Writes(k))
    BY <1>6 DEF Save, Types, IInv, Shape
  <2>6. step[c] < Len(Writes(k)) => step[c] + 1 \in 1 .. Len(Writes(k))
    <3>1. \A n \in 1 .. 5 : \A m \in 1 .. n : m < n => m + 1 \in 1 .. n OBVIOUS
    <3> QED BY <1>1, <1>2, <3>1, WritePlaces
  <2>7. Held(c)' BY <1>1, <2>1, <2>5, <2>6 DEF Held
  <2>8. Records' /\ Copies(c)' BY <2>1 DEF history, Types, Records, Copies
  <2> QED BY <2>4, <2>7, <2>8, TypesStep
<1> QED BY <1>4, <1>5, <1>6

(* Every step of every command keeps the types.                            *)
LEMMA NextKeepsTypes == Types /\ [Next]_vars => Types'
<1> SUFFICES ASSUME Types, [Next]_vars PROVE Types'
  OBVIOUS
<1>0. IInv' BY NextKeepsIInv DEF Types
<1>1. ASSUME NEW c \in Commands, Step(c) PROVE Types'
  <2>1. CASE \E k \in Kinds : Begin(c, k) BY <1>0, <1>1, <2>1, BeginKeepsTypes
  <2>2. CASE Load(c) BY <1>0, <1>1, <2>2, LoadKeepsTypes
  <2>3. CASE Create(c) BY <1>0, <1>1, <2>3, CreateKeepsTypes
  <2>4. CASE Fill(c) BY <1>0, <1>1, <2>4, FillKeepsTypes
  <2>5. CASE Reread(c) BY <1>0, <1>1, <2>5, RereadKeepsTypes
  <2>6. CASE \/ Sync(c) \/ BackupCreate(c)
             \/ \E force \in BOOLEAN, b \in backups : RestoreBegins(c, force, b)
    BY <1>0, <1>1, <2>6, WorkKeepsTypes
  <2>7. CASE Open(c) \/ Save(c) BY <1>0, <1>1, <2>7, WriteKeepsTypes
  <2>8. CASE Crash(c) BY <1>0, <1>1, <2>8, FailKeepsTypes DEF Crash
  <2> QED BY <1>1, <2>1, <2>2, <2>3, <2>4, <2>5, <2>6, <2>7, <2>8 DEF Step
<1>2. CASE UNCHANGED vars
  <2> USE <1>2 DEF vars, history
  <2>1. Contents' /\ Records' BY DEF Types, Contents, Records
  <2>2. \A c \in Commands : Copies(c)' BY DEF Types, Copies
  <2>3. \A c \in Commands : Held(c)' BY DEF Types, Held
  <2> QED BY <1>0, <2>1, <2>2, <2>3 DEF Types
<1> QED BY <1>1, <1>2 DEF Next

(* What is on disk and what commands hold is always what the code can      *)
(* parse or make: in particular a backup is only made of files that were   *)
(* read or generated whole, and no command goes on with a missing or torn  *)
(* identity.                                                               *)
THEOREM TypesHold == Spec => []TypeOK
<1>1. Types => TypeOK
  BY DEF Types, IInv, Shape, Labels, Contents, Copies, Records, TypeOK
<1> QED BY <1>1, InitTypes, NextKeepsTypes, PTL DEF Spec

-----------------------------------------------------------------------------
(* No other command runs while one is the last to have started alone.      *)
Alone == \A c, d \in Commands : alone = c /\ Running(d) => c = d

(* What a restore has written so far when it runs alone.                   *)
Written(c) ==
    alone = c /\ kind[c] = "restore" =>
        /\ at[c] \in {"open", "save"} =>
              \A i \in 1 .. 4 : i < step[c] =>
                  file[Writes("restore")[i]] = hand[c][Writes("restore")[i]]
        /\ at[c] = "done" => \A f \in StateFiles : file[f] = hand[c][f]

WholeInv == Types /\ Alone /\ \A c \in Commands : Written(c)

(* A command that steps begins or is running, and only a beginning changes *)
(* what the command is and whether it is alone.                            *)
LEMMA StepRuns ==
    ASSUME Shape, NEW c \in Commands, Step(c)
    PROVE  \/ \E k \in Kinds : Begin(c, k)
           \/ Running(c) /\ kind' = kind /\ alone' = alone /\ crossed' = crossed
<1>0. ASSUME Fail(c) PROVE kind' = kind /\ alone' = alone /\ crossed' = crossed
  BY <1>0 DEF Fail, Goto, history
<1>a. ASSUME Loaded(c) PROVE kind' = kind BY <1>a DEF Loaded
<1>2. CASE Load(c) BY <1>0, <1>a, <1>2 DEF Load, Goto, GoesOn, Running, history
<1>3. CASE Create(c) BY <1>3 DEF Create, Goto, Running, history
<1>4. CASE Fill(c) BY <1>a, <1>4 DEF Fill, GoesOn, Running
<1>5. CASE Reread(c) BY <1>0, <1>a, <1>5 DEF Reread, GoesOn, Running
<1>6. CASE Sync(c) \/ BackupCreate(c)
  BY <1>6 DEF Sync, BackupCreate, Goto, Running, history
<1>7. ASSUME NEW force \in BOOLEAN, NEW b \in backups, RestoreBegins(c, force, b)
      PROVE  Running(c) /\ kind' = kind /\ alone' = alone /\ crossed' = crossed
  BY <1>0, <1>7 DEF RestoreBegins, Goto, Running
<1>8. CASE Open(c) BY <1>0, <1>8 DEF Open, Goto, Running, history
<1>9. CASE Save(c) BY <1>9 DEF Save, Running, history
<1>10. CASE Crash(c) BY <1>0, <1>10 DEF Crash
<1> QED BY <1>2, <1>3, <1>4, <1>5, <1>6, <1>7, <1>8, <1>9, <1>10 DEF Step

(* The steps of a restore.                                                 *)
LEMMA RestoreSteps ==
    ASSUME Types, NEW c \in Commands, Step(c), Running(c), kind[c] = "restore"
    PROVE  \/ Fail(c)
           \/ \E force \in BOOLEAN, b \in backups : RestoreBegins(c, force, b) /\ ~Fail(c)
           \/ Open(c) /\ ~Fail(c)
           \/ Save(c)
<1>1. at[c] \in {"check", "open", "save"}
  BY DEF Types, IInv, Shape, Held, Running, Labels
<1> QED BY <1>1 DEF Step, Begin, Load, Create, Fill, Reread, Sync, BackupCreate, Crash

(* A step keeps alone who is alone.                                        *)
LEMMA StepKeepsAlone ==
    ASSUME Types, Alone, NEW c \in Commands, Step(c)
    PROVE  Alone'
<1>1. \A d \in Commands \ {c} : at'[d] = at[d] BY OthersKeep DEF Types, IInv
<1>2. ASSUME NEW k \in Kinds, Begin(c, k) PROVE Alone'
  <2>1. Nobody \notin Commands BY NamesAreFresh DEF Agents
  <2>2. alone' \in Commands => alone' = c /\ \A d \in Commands : ~Running(d)
    BY <1>2, <2>1 DEF Begin
  <2> QED BY <1>1, <2>2 DEF Alone, Running
<1>3. CASE Running(c) /\ alone' = alone BY <1>1, <1>3 DEF Alone, Running
<1> QED BY <1>2, <1>3, StepRuns DEF Types, IInv

(* A restore that runs alone replaces one file after the other.            *)
LEMMA StepKeepsWritten ==
    ASSUME WholeInv, NEW c \in Commands, Step(c), NEW d \in Commands
    PROVE  Written(d)'
<1> USE DEF WholeInv
<1>1. /\ DOMAIN file = Files /\ DOMAIN hand = Commands /\ DOMAIN hand[c] = Files
      /\ c \in DOMAIN at /\ c \in DOMAIN step /\ step[c] \in 1 .. 5
  BY DEF Types, IInv, Shape
<1>2. ASSUME NEW k \in Kinds, Begin(c, k) PROVE Written(d)'
  <2>1. alone' = d => d = c
    BY <1>2, NamesAreFresh DEF Begin, Agents
  <2>2. at'[c] \in {"check", "load"} BY <1>1, <1>2 DEF Begin
  <2> QED BY <2>1, <2>2 DEF Written
<1>3. ASSUME Running(c), kind' = kind, alone' = alone PROVE Written(d)'
  <2> SUFFICES ASSUME alone = d, kind[d] = "restore" PROVE Written(d)'
    BY <1>3 DEF Written
  <2>1. c = d BY <1>3 DEF Alone
  <2>2. CASE Fail(c)
    <3>1. at'[c] = "failed" BY <1>1, <2>2 DEF Fail, Goto
    <3> QED BY <2>1, <3>1 DEF Written
  <2>3. ASSUME NEW force \in BOOLEAN, NEW b \in backups, RestoreBegins(c, force, b),
               ~Fail(c)
        PROVE  Written(d)'
    <3>1. at[c] = "check" /\ at'[c] = "open" /\ step' = step
      BY <1>1, <2>3 DEF RestoreBegins, Goto
    <3>2. step'[c] = 1 BY <3>1 DEF Types, Held
    <3> QED BY <2>1, <3>1, <3>2 DEF Written
  <2>4. CASE Open(c) /\ ~Fail(c)
    <3> DEFINE f == Writes("restore")[step[c]]
    <3>1. /\ at[c] = "open" /\ file' = [file EXCEPT ![f] = Torn]
          /\ hand' = IF f = "metadata" THEN [hand EXCEPT ![c][f] = Blank] ELSE hand
          /\ at'[c] = "save" /\ step' = step
      BY <1>1, <2>1, <2>4 DEF Open, Goto
    <3>2. ASSUME NEW i \in 1 .. 4, i < step[c]
          PROVE  LET w == Writes("restore")[i]
                 IN  file'[w] = file[w] /\ hand'[c][w] = hand[c][w]
      <4>1. Writes("restore")[i] # f /\ Writes("restore")[i] # "metadata"
            /\ Writes("restore")[i] \in Files
        <5>1. /\ i = 1 \/ i = 2 \/ i = 3 \/ i = 4
              /\ step[c] = 1 \/ step[c] = 2 \/ step[c] = 3 \/ step[c] = 4 \/ step[c] = 5
          BY <1>1
        <5> QED BY <3>2, <5>1, WritePlaces DEF Files, StateFiles
      <4> HIDE DEF f
      <4> QED BY <1>1, <3>1, <4>1
    <3> QED BY <2>1, <3>1, <3>2 DEF Written
  <2>5. CASE Save(c)
    <3> DEFINE f == Writes("restore")[step[c]]
    <3>1. /\ at[c] = "save" /\ file' = [file EXCEPT ![f] = hand[c][f]] /\ hand' = hand
          /\ \/ at'[c] = "open" /\ step'[c] = step[c] + 1
             \/ at'[c] = "done" /\ step[c] = 5
      BY <1>1, <2>1, <2>5, WritePlaces DEF Save
    <3>2. f \in Files BY <1>1, WritePlaces DEF Kinds
    <3>3. \A g \in Files : file'[g] = hand[c][g] \/ (g # f /\ file'[g] = file[g])
      BY <1>1, <3>1, <3>2
    <3>4. \A i \in 1 .. 4 : i < step[c] =>
             file[Writes("restore")[i]] = hand[c][Writes("restore")[i]]
      BY <2>1, <3>1 DEF Written
    <3>5. \A i \in 1 .. 4 : i <= step[c] =>
             file'[Writes("restore")[i]] = hand[c][Writes("restore")[i]]
      <4>1. \A i \in 1 .. 4 : Writes("restore")[i] \in Files
        BY WritePlaces DEF Kinds
      <4>2. \A i \in 1 .. 4 : i <= step[c] => i < step[c] \/ i = step[c] BY <1>1
      <4> HIDE DEF f
      <4>3. ASSUME NEW i \in 1 .. 4, i = step[c]
            PROVE  file'[Writes("restore")[i]] = hand[c][Writes("restore")[i]]
        BY <1>1, <3>1, <3>2, <4>3 DEF f
      <4> QED BY <3>3, <3>4, <4>1, <4>2, <4>3
    <3>6. CASE at'[c] = "open" /\ step'[c] = step[c] + 1
      <4>1. \A i \in 1 .. 4 : i < step'[c] => i <= step[c] BY <1>1, <3>6
      <4> QED BY <2>1, <3>1, <3>5, <3>6, <4>1 DEF Written
    <3>7. CASE at'[c] = "done" /\ step[c] = 5
      <4>1. \A i \in 1 .. 4 : file'[Writes("restore")[i]] = hand'[c][Writes("restore")[i]]
        BY <3>1, <3>5, <3>7
      <4>2. \A g \in StateFiles : file'[g] = hand'[c][g]
        BY <4>1, WritePlaces DEF StateFiles
      <4> QED BY <2>1, <3>7, <4>2 DEF Written
    <3> QED BY <3>1, <3>6, <3>7
  <2> QED BY <1>3, <2>1, <2>2, <2>3, <2>4, <2>5, RestoreSteps
<1> QED BY <1>2, <1>3, StepRuns DEF Types, IInv

(* A restore that reports success with no other command around has put all *)
(* four files of the backup in place, with a device id of its own, also    *)
(* over the torn files of commands that died.                              *)
THEOREM RestoreIsWhole == Spec => []RestoredWhole
<1>1. Init => WholeInv
  <2>1. Init => Alone /\ \A c \in Commands : Written(c)
    BY NamesAreFresh DEF Init, Alone, Written, Running, Agents
  <2> QED BY <2>1, InitTypes DEF WholeInv
<1>2. WholeInv /\ [Next]_vars => WholeInv'
  <2> SUFFICES ASSUME WholeInv, [Next]_vars PROVE WholeInv'
    OBVIOUS
  <2>1. Types' BY NextKeepsTypes DEF WholeInv
  <2>2. CASE Next
    BY <2>1, <2>2, StepKeepsAlone, StepKeepsWritten DEF Next, WholeInv
  <2>3. CASE UNCHANGED vars
    BY <2>1, <2>3 DEF vars, history, WholeInv, Alone, Written, Running
  <2> QED BY <2>2, <2>3
<1>3. WholeInv => RestoredWhole BY DEF WholeInv, Written, RestoredWhole
<1> QED BY <1>1, <1>2, <1>3, PTL DEF Spec

-----------------------------------------------------------------------------
(* Unless commands have crossed, a restore runs alone.                     *)
Solo ==
    ~crossed => \A c, d \in Commands :
                   kind[c] = "restore" /\ Running(c) /\ Running(d) => c = d

(* A command has settled which identity it uses, and has got a memory.     *)
HasIdentity(c) ==
    \/ AtIdentity(c, "fill")
    \/ at[c] \in {"load", "create", "fill"} /\ step[c] > 1
    \/ at[c] \in {"work", "open", "save"}
HasMemory(c) ==
    \/ at[c] \in {"create", "fill"} /\ step[c] = 3
    \/ at[c] \in {"load", "create", "fill"} /\ step[c] > 3
    \/ at[c] \in {"work", "open", "save"}

(* What a command has is p's; an identity of its own it has not created.   *)
Fits(c, p) ==
    /\ HasIdentity(c) => hand[c]["identity"].peer = p
    /\ HasMemory(c) => hand[c]["memory"] \in {Blank, p}
    /\ AtIdentity(c, "create") =>
          \/ hand[c]["identity"].peer = c
          \/ hand[c]["identity"].peer = p /\ file["identity"] # Absent

(* All that is in the directory, or will be written to it, is p's.         *)
FileFits(p) ==
    /\ file["identity"] \in {Absent, Torn} \/ file["identity"].peer = p
    /\ file["memory"] \in {Absent, Torn, Blank, p}
DirectoryOf(p) == FileFits(p) /\ \A c \in Commands : Fits(c, p)

(* Until there is an identity there is no memory, and nobody but a restore *)
(* that is about to write has settled for one.                             *)
Waits(c) == HasIdentity(c) => kind[c] = "restore" /\ AtIdentity(c, "open")
Vacant ==
    file["identity"] = Absent =>
        file["memory"] = Absent /\ \A c \in Commands : Waits(c)

BackupsFit == \A b \in backups : OneAgent(b.identity, b.memory)

Unmixed ==
    ~forced /\ ~crossed => Vacant /\ BackupsFit /\ \E p \in Agents : DirectoryOf(p)

MixInv == Types /\ Solo /\ Unmixed

(* What c has to see to for the directory to remain p's.                   *)
LEMMA DirectoryStep ==
    ASSUME Types, Vacant, NEW c \in Commands, Step(c), NEW p \in Agents,
           \A d \in Commands \ {c} : Fits(d, p), FileFits(p)', Fits(c, p)',
           file["identity"] # Absent => file'["identity"] # Absent,
           file'["identity"] = Absent => file'["memory"] = Absent /\ Waits(c)'
    PROVE  DirectoryOf(p)' /\ Vacant'
<1>1. \A d \in Commands \ {c} : /\ kind'[d] = kind[d] /\ at'[d] = at[d]
                                 /\ step'[d] = step[d] /\ hand'[d] = hand[d]
  BY OthersKeep DEF Types, IInv
<1>2. \A d \in Commands \ {c} : Fits(d, p)'
  BY <1>1 DEF Fits, HasIdentity, HasMemory, AtIdentity
<1>3. file'["identity"] = Absent => \A d \in Commands \ {c} : Waits(d)'
  BY <1>1 DEF Vacant, Waits, HasIdentity, AtIdentity
<1> QED BY <1>2, <1>3 DEF DirectoryOf, Vacant

(* Steps after which the command has nothing that could be mixed in.       *)
LEMMA IdleStep ==
    ASSUME Types, Vacant, NEW c \in Commands, Step(c), NEW p \in Agents, DirectoryOf(p),
           file' = file,
           at'[c] \in {"idle", "check", "reread", "failed", "done"} \/ AtIdentity(c, "load")'
    PROVE  DirectoryOf(p)' /\ Vacant'
<1>1. ~HasIdentity(c)' /\ ~HasMemory(c)' /\ ~AtIdentity(c, "create")'
  BY DEF HasIdentity, HasMemory, AtIdentity
<1>2. Fits(c, p)' /\ Waits(c)' BY <1>1 DEF Fits, Waits
<1>3. FileFits(p)' BY DEF DirectoryOf, FileFits
<1> QED BY <1>2, <1>3, DirectoryStep DEF DirectoryOf, Vacant

(* Where a command is after it has loaded a file.                          *)
LEMMA LoadedAt ==
    ASSUME Types, NEW c \in Commands, Loaded(c), step[c] \in 1 .. 4
    PROVE  /\ kind' = kind
           /\ \/ step[c] < 4 /\ at'[c] = "load" /\ step'[c] = step[c] + 1
              \/ step[c] = 4 /\ at'[c] = "work" /\ step'[c] = 1
BY LoadPlaces DEF Loaded, Types, IInv, Shape

(* An identity or a memory that is neither missing nor torn is p's.        *)
LEMMA FileIsOf ==
    ASSUME NEW p, FileFits(p)
    PROVE  /\ file["identity"] \notin {Absent, Torn} => file["identity"].peer = p
           /\ file["memory"] \notin {Absent, Torn} => file["memory"] \in {Blank, p}
BY DEF FileFits

(* A command that gets one more file and then goes on.                     *)
LEMMA LoadedFits ==
    ASSUME Types, NEW c \in Commands, Loaded(c), step[c] \in 1 .. 4, NEW p,
           hand'[c]["identity"].peer = p,
           step[c] >= 3 => hand'[c]["memory"] \in {Blank, p}
    PROVE  Fits(c, p)'
<1>1. \/ step[c] < 4 /\ at'[c] = "load" /\ step'[c] = step[c] + 1
      \/ step[c] = 4 /\ at'[c] = "work" /\ step'[c] = 1
  BY LoadedAt
<1>2. ~AtIdentity(c, "create")' BY <1>1 DEF AtIdentity
<1>3. hand'[c]["identity"].peer = p OBVIOUS
<1>4. HasMemory(c)' => step[c] >= 3 BY <1>1 DEF HasMemory
<1> QED BY <1>2, <1>3, <1>4 DEF Fits

(* Loading takes what is there, which is p's, or what is nobody's yet.     *)
LEMMA LoadKeepsDirectory ==
    ASSUME Types, Vacant, NEW c \in Commands, Step(c), NEW p \in Agents, DirectoryOf(p),
           Load(c)
    PROVE  DirectoryOf(p)' /\ Vacant'
<1> DEFINE n == step[c]
           f == Loads[n]
           x == file[f]
<1>1. /\ at[c] = "load" /\ n \in 1 .. 4 /\ kind[c] # "restore"
      /\ Fits(c, p) /\ FileFits(p)
  BY DEF Load, Types, Held, DirectoryOf
<1>2. f \in Files /\ (f = "identity" <=> n = 1) /\ (f = "memory" <=> n = 3)
      /\ (f = "config" <=> n = 4)
  <2>1. n = 1 \/ n = 2 \/ n = 3 \/ n = 4 BY <1>1
  <2> QED BY <2>1, LoadPlaces DEF Files, StateFiles
<1>3. /\ DOMAIN hand = Commands /\ DOMAIN hand[c] = Files /\ DOMAIN at = Commands
      /\ "identity" \in Files /\ "memory" \in Files
  BY DEF Types, IInv, Shape, Files, StateFiles
<1>4. n > 1 => file["identity"] # Absent /\ hand[c]["identity"].peer = p
  BY <1>1 DEF Fits, HasIdentity, Vacant, Waits
<1>5. n > 3 => hand[c]["memory"] \in {Blank, p}
  BY <1>1 DEF Fits, HasMemory
<1>6. ASSUME file' = file, NEW v, hand' = [hand EXCEPT ![c][f] = v]
      PROVE  /\ hand'[c][f] = v
             /\ n > 1 => hand'[c]["identity"] = hand[c]["identity"]
             /\ n > 3 => hand'[c]["memory"] = hand[c]["memory"]
             /\ FileFits(p)'
  <2>1. FileFits(p)' BY <1>1, <1>6 DEF FileFits
  <2> QED BY <1>1, <1>2, <1>3, <1>6, <2>1
<1>7. CASE Fail(c)
  <2>1. at'[c] = "failed" /\ file' = file BY <1>3, <1>7 DEF Fail, Goto
  <2> QED BY <2>1, IdleStep
<1>8. ASSUME NEW v, hand' = [hand EXCEPT ![c][f] = v], Loaded(c), file' = file,
             n = 1 => v.peer = p /\ file["identity"] # Absent, n = 3 => v \in {Blank, p}
      PROVE  DirectoryOf(p)' /\ Vacant'
  <2>1. /\ hand'[c][f] = v /\ (n > 1 => hand'[c]["identity"] = hand[c]["identity"])
        /\ (n > 3 => hand'[c]["memory"] = hand[c]["memory"]) /\ FileFits(p)'
    BY <1>6, <1>8
  <2>2. hand'[c]["identity"].peer = p BY <1>1, <1>2, <1>4, <1>8, <2>1
  <2>3. n >= 3 => hand'[c]["memory"] \in {Blank, p} BY <1>1, <1>2, <1>5, <1>8, <2>1
  <2>4. Fits(c, p)' BY <1>1, <1>8, <2>2, <2>3, LoadedFits
  <2>5. file["identity"] # Absent BY <1>1, <1>4, <1>8
  <2> QED BY <1>8, <2>1, <2>4, <2>5, DirectoryStep DEF DirectoryOf
<1>9. ASSUME NEW v, hand' = [hand EXCEPT ![c][f] = v], Goto(c, "create"), file' = file,
             n = 1 => v.peer = c \/ (v.peer = p /\ file["identity"] # Absent),
             n = 3 => v \in {Blank, p}
      PROVE  DirectoryOf(p)' /\ Vacant'
  <2>1. /\ hand'[c][f] = v /\ (n > 1 => hand'[c]["identity"] = hand[c]["identity"])
        /\ (n > 3 => hand'[c]["memory"] = hand[c]["memory"]) /\ FileFits(p)'
    BY <1>6, <1>9
  <2>2. at'[c] = "create" /\ step'[c] = n /\ kind' = kind BY <1>3, <1>9 DEF Goto
  <2>3. HasIdentity(c)' => n > 1 BY <1>1, <2>2 DEF HasIdentity, AtIdentity
  <2>4. HasMemory(c)' => n = 3 \/ n > 3 BY <1>1, <2>2 DEF HasMemory
  <2>5. AtIdentity(c, "create")' => n = 1 BY <2>2 DEF AtIdentity
  <2>6. Fits(c, p)'
    BY <1>2, <1>4, <1>5, <1>9, <2>1, <2>3, <2>4, <2>5 DEF Fits
  <2>7. file'["identity"] = Absent => file'["memory"] = Absent /\ Waits(c)'
    BY <1>4, <1>9, <2>3 DEF Vacant, Waits
  <2> QED BY <1>9, <2>1, <2>6, <2>7, DirectoryStep DEF DirectoryOf
<1>10. CASE /\ Readable(x) /\ x # Absent /\ hand' = [hand EXCEPT ![c][f] = x]
            /\ Loaded(c) /\ file' = file
  <2>1. n = 1 => x.peer = p /\ file["identity"] # Absent
    BY <1>1, <1>2, <1>10, FileIsOf DEF Readable
  <2>2. n = 3 => x \in {Blank, p} BY <1>1, <1>2, <1>10, FileIsOf DEF Readable
  <2> HIDE DEF x, n
  <2> QED BY <1>8, <1>10, <2>1, <2>2
<1>11. CASE /\ NeedsKey(f, x) /\ hand' = [hand EXCEPT ![c][f] = [x EXCEPT !.key = c]]
            /\ Goto(c, "create") /\ file' = file
  <2>1. f = "identity" /\ x \in Identity BY <1>11 DEF NeedsKey
  <2>2. x \notin {Absent, Torn} BY <2>1, MarkersAreFresh
  <2>3. x.peer = p BY <1>1, <2>1, <2>2, FileIsOf
  <2>4. [x EXCEPT !.key = c].peer = p BY <2>1, <2>3 DEF Identity
  <2>5. n = 1 /\ file["identity"] # Absent BY <1>2, <2>1, <2>2
  <2> DEFINE y == [x EXCEPT !.key = c]
  <2>6. y.peer = p /\ hand' = [hand EXCEPT ![c][f] = y] BY <1>11, <2>4
  <2>7. Goto(c, "create") /\ file' = file BY <1>11
  <2>8. /\ n = 1 => y.peer = c \/ (y.peer = p /\ file["identity"] # Absent)
        /\ n = 3 => y \in {Blank, p}
    BY <2>5, <2>6
  <2> HIDE DEF y, x, n, f
  <2> QED BY <1>9, <2>6, <2>7, <2>8
<1>12. CASE /\ f = "config" /\ hand' = [hand EXCEPT ![c][f] = Blank] /\ Loaded(c)
            /\ file' = file
  <2>1. n # 1 /\ n # 3 BY <1>2, <1>12
  <2> HIDE DEF x, n, f
  <2> QED BY <1>8, <1>12, <2>1
<1>13. CASE /\ hand' = [hand EXCEPT ![c][f] = Generated(c, f)] /\ Goto(c, "create")
            /\ file' = file
  <2>1. n = 1 => Generated(c, f).peer = c BY <1>2 DEF Generated
  <2>2. n = 3 => Generated(c, f) = Blank BY <1>2 DEF Generated
  <2> QED BY <1>9, <1>13, <2>1, <2>2
<1> QED BY <1>7, <1>10, <1>11, <1>12, <1>13 DEF Load

(* Whoever creates the identity settles whose directory it is; nobody else *)
(* has settled then, as no restore is running beside it.                   *)
LEMMA CreateKeepsDirectory ==
    ASSUME Types, Vacant, Solo, ~crossed, NEW c \in Commands, Step(c), NEW p \in Agents,
           DirectoryOf(p), Create(c)
    PROVE  Vacant' /\ \E q \in Agents : DirectoryOf(q)'
<1> DEFINE n == step[c]
           f == Loads[n]
<1>1. /\ at[c] = "create" /\ n \in 1 .. 4 /\ kind[c] # "restore"
      /\ Fits(c, p) /\ FileFits(p)
  BY DEF Create, Types, Held, DirectoryOf
<1>2. f \in Files /\ (f = "identity" <=> n = 1) /\ (f = "memory" <=> n = 3)
  <2>1. n = 1 \/ n = 2 \/ n = 3 \/ n = 4 BY <1>1
  <2> QED BY <2>1, LoadPlaces DEF Files, StateFiles
<1>3. /\ DOMAIN file = Files /\ DOMAIN at = Commands
      /\ "identity" \in Files /\ "memory" \in Files
  BY DEF Types, IInv, Shape, Files, StateFiles
<1>4. hand' = hand /\ kind' = kind /\ step' = step BY DEF Create, Goto
<1>5. CASE Goto(c, "reread") /\ UNCHANGED file
  <2>1. at'[c] = "reread" BY <1>3, <1>5 DEF Goto
  <2>2. DirectoryOf(p)' /\ Vacant' BY <1>5, <2>1, IdleStep
  <2> QED BY <2>2
<1>6. CASE /\ ~(MustBeNew(c, f) /\ file[f] # Absent)
           /\ file' = [file EXCEPT ![f] = Torn] /\ Goto(c, "fill")
  <2>1. at'[c] = "fill" BY <1>3, <1>6 DEF Goto
  <2>2. /\ f # "identity" => file'["identity"] = file["identity"]
        /\ f # "memory" => file'["memory"] = file["memory"]
        /\ file'[f] = Torn
    BY <1>2, <1>3, <1>6
  <2>3. CASE n # 1
    <3>1. HasIdentity(c) /\ HasIdentity(c)' BY <1>1, <1>4, <2>1, <2>3 DEF HasIdentity
    <3>2. file["identity"] # Absent BY <1>1, <3>1 DEF Vacant, Waits
    <3>3. FileFits(p)' BY <1>1, <1>2, <2>2, <2>3 DEF FileFits
    <3>4. HasMemory(c)' => HasMemory(c) BY <1>1, <1>4, <2>1 DEF HasMemory
    <3>5. Fits(c, p)' BY <1>1, <1>4, <2>1, <3>1, <3>4 DEF Fits, AtIdentity
    <3>6. DirectoryOf(p)' /\ Vacant'
      BY <1>2, <2>2, <2>3, <3>2, <3>3, <3>5, DirectoryStep DEF DirectoryOf
    <3> QED BY <3>6
  <2>4. ASSUME n = 1, NEW q \in Agents, hand[c]["identity"].peer = q,
               file["memory"] \in {Absent, Torn, Blank, q},
               \A d \in Commands \ {c} : Fits(d, q)
        PROVE  DirectoryOf(q)' /\ Vacant'
    <3>1. file'["identity"] = Torn /\ file'["memory"] = file["memory"]
      BY <1>2, <2>2, <2>4
    <3>2. FileFits(q)' BY <2>4, <3>1 DEF FileFits
    <3>3. ~HasMemory(c)' BY <1>4, <2>1, <2>4 DEF HasMemory
    <3>4. Fits(c, q)' BY <1>4, <2>1, <2>4, <3>3 DEF Fits, AtIdentity
    <3> QED BY <2>4, <3>1, <3>2, <3>4, DirectoryStep, TornIsNotAbsent
  <2>5. CASE n = 1 /\ file["identity"] # Absent
    <3>1. hand[c]["identity"].peer = p
      BY <1>1, <1>2, <1>6, <2>5 DEF MustBeNew, Fits, AtIdentity
    <3>2. file["memory"] \in {Absent, Torn, Blank, p} BY <1>1 DEF FileFits
    <3>3. \A d \in Commands \ {c} : Fits(d, p) BY DEF DirectoryOf
    <3>4. DirectoryOf(p)' /\ Vacant' BY <2>4, <2>5, <3>1, <3>2, <3>3
    <3> QED BY <3>4
  <2>6. CASE n = 1 /\ file["identity"] = Absent
    <3>1. hand[c]["identity"].peer = c BY <1>1, <2>6 DEF Fits, AtIdentity
    <3>2. file["memory"] = Absent BY <2>6 DEF Vacant
    <3>3. ASSUME NEW d \in Commands \ {c} PROVE Fits(d, c)
      <4>1. Fits(d, p) /\ Waits(d) BY <2>6 DEF DirectoryOf, Vacant
      <4>2. Running(c) BY <1>1 DEF Running
      <4>3. ~(kind[d] = "restore" /\ AtIdentity(d, "open"))
        BY <4>2 DEF Solo, Running, AtIdentity
      <4>4. ~HasIdentity(d) BY <4>1, <4>3 DEF Waits
      <4>5. step[d] \in Nat BY DEF Types, IInv, Shape
      <4>6. ~HasMemory(d) BY <4>4, <4>5 DEF HasIdentity, HasMemory
      <4> QED BY <2>6, <4>1, <4>4, <4>6 DEF Fits
    <3>4. c \in Agents BY DEF Agents
    <3>5. DirectoryOf(c)' /\ Vacant' BY <2>4, <2>6, <3>1, <3>2, <3>3, <3>4
    <3> QED BY <3>4, <3>5
  <2> QED BY <2>3, <2>5, <2>6
<1> QED BY <1>5, <1>6 DEF Create

(* Filling puts p's files there, and rereading finds p's identity.         *)
LEMMA FillKeepsDirectory ==
    ASSUME Types, Vacant, NEW c \in Commands, Step(c), NEW p \in Agents, DirectoryOf(p),
           Fill(c) \/ Reread(c)
    PROVE  DirectoryOf(p)' /\ Vacant'
<1> DEFINE n == step[c]
           f == Loads[n]
<1>1. Fits(c, p) /\ FileFits(p) /\ n \in Nat
  BY DEF DirectoryOf, Types, IInv, Shape
<1>2. /\ DOMAIN file = Files /\ DOMAIN hand = Commands /\ DOMAIN hand[c] = Files
      /\ DOMAIN at = Commands /\ "identity" \in Files /\ "memory" \in Files
  BY DEF Types, IInv, Shape, Files, StateFiles
<1>3. CASE Fill(c)
  <2>1. at[c] = "fill" /\ n \in 1 .. 4 /\ kind[c] # "restore" /\ HasFirst(hand[c], n)
    BY <1>3 DEF Fill, Types, Held
  <2>2. f \in Files /\ (f = "identity" <=> n = 1) /\ (f = "memory" <=> n = 3)
    <3>1. n = 1 \/ n = 2 \/ n = 3 \/ n = 4 BY <2>1
    <3> QED BY <3>1, LoadPlaces DEF Files, StateFiles
  <2>3. file' = [file EXCEPT ![f] = hand[c][f]] /\ Loaded(c) /\ hand' = hand
    BY <1>3 DEF Fill
  <2>4. HasIdentity(c) BY <2>1 DEF HasIdentity, AtIdentity
  <2>5. hand[c]["identity"].peer = p BY <1>1, <2>4 DEF Fits
  <2>6. n >= 3 => hand[c]["memory"] \in {Blank, p}
    BY <1>1, <2>1 DEF Fits, HasMemory
  <2>7. file["identity"] # Absent BY <2>1, <2>4 DEF Vacant, Waits
  <2>8. /\ f # "identity" => file'["identity"] = file["identity"]
        /\ f # "memory" => file'["memory"] = file["memory"]
        /\ file'[f] = hand[c][f]
    BY <1>2, <2>2, <2>3
  <2>9. f = "identity" => hand[c][f] # Absent
    <3>1. n = 1 => Has(hand[c], f) BY <2>1 DEF HasFirst
    <3> QED BY <2>2, <3>1, IntactFiles, MarkersAreFresh DEF Has
  <2>10. file'["identity"] # Absent BY <2>7, <2>8, <2>9
  <2>11. FileFits(p)' BY <1>1, <2>2, <2>5, <2>6, <2>8 DEF FileFits
  <2>12. Fits(c, p)'
    <3>1. hand'[c]["identity"].peer = p /\ (step[c] >= 3 => hand'[c]["memory"] \in {Blank, p})
      BY <2>3, <2>5, <2>6
    <3> QED BY <2>1, <2>3, <3>1, LoadedFits
  <2> QED BY <2>10, <2>11, <2>12, DirectoryStep DEF DirectoryOf
<1>4. CASE Reread(c) /\ ~Fail(c)
  <2> DEFINE x == file["identity"]
  <2>1. /\ x # Torn /\ hand' = [hand EXCEPT ![c]["identity"] = x] /\ Loaded(c)
        /\ file' = file /\ at[c] = "reread"
    BY <1>4 DEF Reread, Readable
  <2>2. n = 1 /\ x # Absent BY <2>1 DEF Types, Held
  <2>3. hand'[c]["identity"].peer = p BY <1>1, <1>2, <2>1, <2>2, FileIsOf
  <2>4. FileFits(p)' BY <1>1, <2>1 DEF FileFits
  <2>5. Fits(c, p)' BY <2>1, <2>2, <2>3, LoadedFits
  <2> QED BY <2>1, <2>2, <2>4, <2>5, DirectoryStep DEF DirectoryOf
<1>5. CASE Fail(c)
  <2>1. at'[c] = "failed" /\ file' = file BY <1>2, <1>5 DEF Fail, Goto
  <2> QED BY <2>1, IdleStep
<1> QED BY <1>3, <1>4, <1>5

(* sync and backup create work with what is p's.                           *)
LEMMA WorkKeepsDirectory ==
    ASSUME Types, Vacant, NEW c \in Commands, Step(c), NEW p \in Agents, DirectoryOf(p),
           BackupsFit, Sync(c) \/ BackupCreate(c)
    PROVE  DirectoryOf(p)' /\ Vacant' /\ BackupsFit'
<1>1. Fits(c, p) /\ FileFits(p) BY DEF DirectoryOf
<1>2. /\ DOMAIN hand = Commands /\ DOMAIN hand[c] = Files /\ DOMAIN at = Commands
      /\ "identity" \in Files /\ "memory" \in Files
  BY DEF Types, IInv, Shape, Files, StateFiles
<1>3. at[c] = "work" /\ kind[c] # "restore" /\ Goto(c, "open") /\ file' = file
  BY DEF Sync, BackupCreate
<1>4. HasIdentity(c) /\ HasMemory(c) BY <1>3 DEF HasIdentity, HasMemory
<1>5. hand[c]["identity"].peer = p /\ hand[c]["memory"] \in {Blank, p}
  BY <1>1, <1>4 DEF Fits
<1>6. file["identity"] # Absent BY <1>3, <1>4 DEF Vacant, Waits
<1>7. hand'[c]["identity"].peer = p /\ hand'[c]["memory"] \in {Blank, p}
  <2>1. CASE Sync(c)
    <3>1. hand' = [hand EXCEPT ![c]["memory"] =
                      IF hand[c]["memory"] = Blank THEN hand[c]["identity"].peer
                      ELSE hand[c]["memory"]]
      BY <1>2, <2>1 DEF Sync
    <3> QED BY <1>2, <1>5, <3>1
  <2>2. CASE BackupCreate(c) BY <1>5, <2>2 DEF BackupCreate
  <2> QED BY <2>1, <2>2
<1>8. at'[c] = "open" BY <1>2, <1>3 DEF Goto
<1>9. Fits(c, p)' BY <1>7, <1>8 DEF Fits, AtIdentity
<1>10. FileFits(p)' BY <1>1, <1>3 DEF FileFits
<1>11. DirectoryOf(p)' /\ Vacant'
  BY <1>3, <1>6, <1>9, <1>10, DirectoryStep DEF DirectoryOf
<1>12. BackupsFit'
  <2>1. CASE Sync(c) BY <2>1 DEF Sync, BackupsFit
  <2>2. CASE BackupCreate(c)
    BY <1>5, <2>2 DEF BackupCreate, BackupsFit, OneAgent
  <2> QED BY <2>1, <2>2
<1> QED BY <1>11, <1>12

(* A restore that is not forced finds an empty directory and no other      *)
(* command: the directory becomes that of the backup.                      *)
LEMMA RestoreKeepsDirectory ==
    ASSUME Types, Vacant, Solo, ~crossed, BackupsFit, NEW c \in Commands, Step(c),
           NEW p \in Agents, DirectoryOf(p), NEW force \in BOOLEAN, NEW b \in backups,
           RestoreBegins(c, force, b), ~forced'
    PROVE  Vacant' /\ BackupsFit' /\ \E q \in Agents : DirectoryOf(q)'
<1>1. DOMAIN hand = Commands /\ DOMAIN at = Commands BY DEF Types, IInv, Shape
<1>2. CASE Fail(c)
  <2>1. at'[c] = "failed" /\ file' = file /\ backups' = backups
    BY <1>1, <1>2 DEF Fail, Goto
  <2>2. DirectoryOf(p)' /\ Vacant' BY <2>1, IdleStep
  <2> QED BY <2>1, <2>2 DEF BackupsFit
<1>3. CASE ~Fail(c)
  <2> DEFINE q == b.identity.peer
  <2>1. /\ at[c] = "check" /\ Goto(c, "open") /\ file' = file /\ backups' = backups
        /\ hand' = [hand EXCEPT ![c] =
                      [f \in Files |-> IF f = "device" THEN c
                                       ELSE IF f = "metadata" THEN Absent ELSE b[f]]]
        /\ ~Refuses(force) /\ ~force
    BY <1>3 DEF RestoreBegins
  <2>2. file["identity"] = Absent /\ file["memory"] = Absent
    BY <2>1 DEF Refuses, StateFiles
  <2>3. b \in Payload /\ OneAgent(b.identity, b.memory)
    BY DEF Types, Records, BackupsFit
  <2>4. /\ b.identity \in Identity /\ q \in Agents /\ b.memory \in Agents \union {Blank}
    BY <2>3 DEF Payload, Identity
  <2>5. b.memory \in {Blank, q}
    BY <2>3, <2>4, MarkersAreFresh, NamesAreFresh DEF OneAgent
  <2>6. hand'[c]["identity"] = b.identity /\ hand'[c]["memory"] = b.memory
    BY <1>1, <2>1 DEF Files, StateFiles
  <2>7. at'[c] = "open" /\ kind'[c] = "restore" /\ step'[c] = 1
    BY <1>1, <2>1 DEF Goto, Types, Held
  <2>8. ASSUME NEW d \in Commands \ {c} PROVE Fits(d, q)
    <3>1. ~Running(d) BY <2>1 DEF Solo, Running, Types, Held
    <3> QED BY <3>1 DEF Fits, HasIdentity, HasMemory, AtIdentity, Running
  <2>9. Fits(c, q)' BY <2>5, <2>6, <2>7 DEF Fits, AtIdentity
  <2>10. FileFits(q)' BY <2>1, <2>2 DEF FileFits
  <2>11. Waits(c)' BY <2>7 DEF Waits, AtIdentity
  <2> HIDE DEF q
  <2>12. DirectoryOf(q)' /\ Vacant'
    BY <2>1, <2>2, <2>4, <2>8, <2>9, <2>10, <2>11, DirectoryStep
  <2> QED BY <2>1, <2>4, <2>12 DEF BackupsFit
<1> QED BY <1>2, <1>3

(* What commands write over is replaced by what is p's; a restore writes   *)
(* the identity first.                                                     *)
LEMMA WriteKeepsDirectory ==
    ASSUME Types, Vacant, NEW c \in Commands, Step(c), NEW p \in Agents, DirectoryOf(p),
           Open(c) \/ Save(c)
    PROVE  DirectoryOf(p)' /\ Vacant'
<1> DEFINE k == kind[c]
           n == step[c]
           f == Writes(k)[n]
<1>1. /\ Fits(c, p) /\ FileFits(p) /\ k \in Kinds
      /\ at[c] \in {"open", "save"} /\ n \in 1 .. Len(Writes(k)) /\ HasFirst(hand[c], 4)
  BY DEF DirectoryOf, Types, IInv, Shape, Held, Open, Save
<1>2. /\ DOMAIN file = Files /\ DOMAIN hand = Commands /\ DOMAIN hand[c] = Files
      /\ DOMAIN at = Commands /\ DOMAIN step = Commands
      /\ "identity" \in Files /\ "memory" \in Files
  BY DEF Types, IInv, Shape, Files, StateFiles
<1>3. f \in Files BY <1>1, WritePlaces
<1>4. k = "restore" /\ n = 1 => f = "identity" BY WritePlaces
<1>5. hand[c]["identity"].peer = p /\ hand[c]["memory"] \in {Blank, p}
  BY <1>1 DEF Fits, HasIdentity, HasMemory
<1>6. hand[c]["identity"] # Absent
  BY <1>1, HasAll, IntactFiles, MarkersAreFresh DEF StateFiles
<1>7. file["identity"] = Absent => AtIdentity(c, "open") /\ k = "restore"
  BY <1>1 DEF Vacant, Waits, HasIdentity
<1>8. ASSUME NEW v, file' = [file EXCEPT ![f] = v],
             f = "identity" => v = Torn \/ v = hand[c]["identity"],
             f = "memory" => v = Torn \/ v = hand[c]["memory"]
      PROVE  FileFits(p)' /\ file'["identity"] # Absent
  <2>1. /\ f # "identity" => file'["identity"] = file["identity"]
        /\ f # "memory" => file'["memory"] = file["memory"]
        /\ file'[f] = v
    BY <1>2, <1>3, <1>8
  <2>2. file'["identity"] # Absent
    BY <1>4, <1>6, <1>7, <1>8, <2>1, TornIsNotAbsent DEF AtIdentity
  <2> QED BY <1>1, <1>5, <1>8, <2>1, <2>2 DEF FileFits
<1>9. CASE Fail(c)
  <2>1. at'[c] = "failed" /\ file' = file BY <1>2, <1>9 DEF Fail, Goto
  <2> QED BY <2>1, IdleStep
<1>10. CASE Open(c) /\ ~Fail(c)
  <2>1. /\ file' = [file EXCEPT ![f] = Torn] /\ Goto(c, "save")
        /\ hand' = IF f = "metadata" THEN [hand EXCEPT ![c][f] = Blank] ELSE hand
    BY <1>10 DEF Open
  <2>2. FileFits(p)' /\ file'["identity"] # Absent BY <1>8, <2>1
  <2>3. hand'[c]["identity"] = hand[c]["identity"] /\ hand'[c]["memory"] = hand[c]["memory"]
    BY <1>2, <1>3, <2>1
  <2>4. at'[c] = "save" BY <1>2, <2>1 DEF Goto
  <2>5. Fits(c, p)' BY <1>5, <2>3, <2>4 DEF Fits, AtIdentity
  <2> QED BY <2>2, <2>5, DirectoryStep DEF DirectoryOf
<1>11. CASE Save(c)
  <2>1. file' = [file EXCEPT ![f] = hand[c][f]] /\ hand' = hand BY <1>11 DEF Save
  <2>2. FileFits(p)' /\ file'["identity"] # Absent
    <3> DEFINE v == hand[c][f]
    <3>1. /\ f = "identity" => v = hand[c]["identity"]
          /\ f = "memory" => v = hand[c]["memory"]
      OBVIOUS
    <3> HIDE DEF v, f
    <3> QED BY <1>8, <2>1, <3>1 DEF v
  <2>3. at'[c] \in {"open", "done"} BY <1>2, <1>11 DEF Save
  <2>4. Fits(c, p)' BY <1>5, <2>1, <2>3 DEF Fits, AtIdentity
  <2> QED BY <2>2, <2>4, DirectoryStep DEF DirectoryOf
<1> QED BY <1>9, <1>10, <1>11

(* Commands that have not crossed do not cross without it being noted.     *)
LEMMA StepKeepsSolo ==
    ASSUME Types, Solo, NEW c \in Commands, Step(c)
    PROVE  Solo'
<1>1. \A d \in Commands \ {c} : at'[d] = at[d] /\ kind'[d] = kind[d]
  BY OthersKeep DEF Types, IInv
<1>2. ASSUME NEW k \in Kinds, Begin(c, k) PROVE Solo'
  <2> SUFFICES ASSUME ~crossed' PROVE Solo'
    BY DEF Solo
  <2>1. kind'[c] = k BY <1>2 DEF Begin, Types, IInv, Shape
  <2>2. ~crossed /\ \A d \in Commands : Running(d) => k # "restore" /\ kind[d] # "restore"
    BY <1>2 DEF Begin
  <2>3. ASSUME NEW d \in Commands, NEW e \in Commands, kind'[d] = "restore", Running(d)',
               Running(e)', d # e
        PROVE  FALSE
    <3>1. CASE d = c BY <1>1, <2>1, <2>2, <2>3, <3>1 DEF Running
    <3>2. CASE e = c BY <1>1, <2>2, <2>3, <3>2 DEF Running
    <3>3. CASE d # c /\ e # c BY <1>1, <2>2, <2>3, <3>3 DEF Running
    <3> QED BY <3>1, <3>2, <3>3
  <2> QED BY <2>3 DEF Solo
<1>3. CASE Running(c) /\ kind' = kind /\ crossed' = crossed
  BY <1>1, <1>3 DEF Solo, Running
<1> QED BY <1>2, <1>3, StepRuns DEF Types, IInv

(* What was noted stays noted.                                             *)
LEMMA NotesStay ==
    ASSUME Types, NEW c \in Commands, Step(c), ~forced', ~crossed'
    PROVE  ~forced /\ ~crossed
<1>0. ASSUME Fail(c) PROVE ~forced /\ ~crossed BY <1>0 DEF Fail, history
<1>1. ASSUME NEW k \in Kinds, Begin(c, k) PROVE ~forced /\ ~crossed
  <2>1. forced' = forced /\ (crossed => crossed') BY <1>1 DEF Begin
  <2> QED BY <2>1
<1>2. CASE Load(c) BY <1>0, <1>2 DEF Load, GoesOn, history
<1>3. CASE Create(c) BY <1>3 DEF Create, history
<1>4. CASE Fill(c) BY <1>4 DEF Fill, GoesOn
<1>5. CASE Reread(c) BY <1>0, <1>5 DEF Reread, GoesOn
<1>6. CASE Sync(c) \/ BackupCreate(c) BY <1>6 DEF Sync, BackupCreate, history
<1>7. ASSUME NEW force \in BOOLEAN, NEW b \in backups, RestoreBegins(c, force, b)
      PROVE  ~forced /\ ~crossed
  <2>1. CASE ~Fail(c)
    <3>1. crossed' = crossed /\ (forced => forced') BY <1>7, <2>1 DEF RestoreBegins
    <3> QED BY <3>1
  <2> QED BY <1>0, <2>1
<1>8. CASE Open(c) BY <1>0, <1>8 DEF Open, history
<1>9. CASE Save(c) BY <1>9 DEF Save, history
<1>10. CASE Crash(c) BY <1>0, <1>10 DEF Crash
<1> QED BY <1>1, <1>2, <1>3, <1>4, <1>5, <1>6, <1>7, <1>8, <1>9, <1>10 DEF Step

(* Only backup create adds to the backups.                                 *)
LEMMA BackupsStay ==
    ASSUME NEW c \in Commands, Step(c), ~BackupCreate(c)
    PROVE  backups' = backups
<1>0. ASSUME Fail(c) PROVE backups' = backups BY <1>0 DEF Fail
<1>1. ASSUME NEW force \in BOOLEAN, NEW b \in backups, RestoreBegins(c, force, b)
      PROVE  backups' = backups
  BY <1>0, <1>1 DEF RestoreBegins
<1>2. CASE \/ \E k \in Kinds : Begin(c, k)
           \/ Create(c) \/ Fill(c) \/ Sync(c) \/ Save(c) \/ Crash(c)
  BY <1>0, <1>2 DEF Begin, Create, Fill, Sync, Save, Crash
<1>3. CASE Load(c) \/ Reread(c) \/ Open(c) BY <1>0, <1>3 DEF Load, Reread, Open
<1> QED BY <1>1, <1>2, <1>3 DEF Step

(* Every step keeps one directory and its backups one agent's.             *)
LEMMA StepKeepsUnmixed ==
    ASSUME MixInv, NEW c \in Commands, Step(c)
    PROVE  Unmixed'
<1> SUFFICES ASSUME ~forced', ~crossed'
             PROVE  Vacant' /\ BackupsFit' /\ \E q \in Agents : DirectoryOf(q)'
  BY DEF Unmixed
<1>1. ~forced /\ ~crossed BY NotesStay DEF MixInv
<1>2. Types /\ Solo /\ Vacant /\ BackupsFit BY <1>1 DEF MixInv, Unmixed
<1>3. PICK p \in Agents : DirectoryOf(p) BY <1>1 DEF MixInv, Unmixed
<1>4. ~BackupCreate(c) => BackupsFit' BY <1>2, BackupsStay DEF BackupsFit
<1>5. DOMAIN at = Commands BY <1>2 DEF Types, IInv, Shape
<1>6. ASSUME NEW k \in Kinds, Begin(c, k) PROVE DirectoryOf(p)' /\ Vacant'
  <2>1. /\ at[c] = "idle" /\ file' = file /\ step' = step
        /\ at'[c] \in {"check", "load"}
    BY <1>5, <1>6 DEF Begin
  <2>2. step'[c] = 1 BY <1>2, <2>1 DEF Types, Held
  <2> QED BY <1>2, <1>3, <2>1, <2>2, IdleStep DEF AtIdentity
<1>7. CASE \E k \in Kinds : Begin(c, k)
  <2>1. ~BackupCreate(c) BY <1>7 DEF Begin, BackupCreate
  <2> QED BY <1>4, <1>6, <1>7, <2>1
<1>8. CASE Load(c) /\ ~BackupCreate(c)
  <2>1. DirectoryOf(p)' /\ Vacant' BY <1>2, <1>3, <1>8, LoadKeepsDirectory
  <2> QED BY <1>4, <1>8, <2>1
<1>9. CASE Create(c) /\ ~BackupCreate(c)
  <2>1. Vacant' /\ \E q \in Agents : DirectoryOf(q)'
    BY <1>1, <1>2, <1>3, <1>9, CreateKeepsDirectory
  <2> QED BY <1>4, <1>9, <2>1
<1>10. CASE (Fill(c) \/ Reread(c)) /\ ~BackupCreate(c)
  <2>1. DirectoryOf(p)' /\ Vacant' BY <1>2, <1>3, <1>10, FillKeepsDirectory
  <2> QED BY <1>4, <1>10, <2>1
<1>11. CASE Sync(c) \/ BackupCreate(c)
  <2>1. DirectoryOf(p)' /\ Vacant' /\ BackupsFit'
    BY <1>2, <1>3, <1>11, WorkKeepsDirectory
  <2> QED BY <2>1
<1>12. CASE \E force \in BOOLEAN, b \in backups : RestoreBegins(c, force, b)
  BY <1>1, <1>2, <1>3, <1>12, RestoreKeepsDirectory
<1>13. CASE (Open(c) \/ Save(c)) /\ ~BackupCreate(c)
  <2>1. DirectoryOf(p)' /\ Vacant' BY <1>2, <1>3, <1>13, WriteKeepsDirectory
  <2> QED BY <1>4, <1>13, <2>1
<1>14. CASE Crash(c) /\ ~BackupCreate(c)
  <2>1. at'[c] = "failed" /\ file' = file BY <1>5, <1>14 DEF Crash, Fail, Goto
  <2>2. DirectoryOf(p)' /\ Vacant' BY <1>2, <1>3, <2>1, IdleStep
  <2> QED BY <1>4, <1>14, <2>2
<1> QED BY <1>7, <1>8, <1>9, <1>10, <1>11, <1>12, <1>13, <1>14 DEF Step

(* A directory never mixes two agents and no backup does, wherever any     *)
(* number of commands crash, as long as no restore is forced over other    *)
(* state or runs beside another command: restore_target_has_local_state    *)
(* makes sure that there is nothing to mix with.                           *)
THEOREM NothingIsMixed == Spec => []NoMixture
<1>1. Init => MixInv
  <2> SUFFICES ASSUME Init PROVE MixInv
    OBVIOUS
  <2>1. Old \in Agents BY NamesAreFresh DEF Agents
  <2>2. file["identity"] \in {Absent, [peer |-> Old, key |-> NoKey]}
        /\ file["memory"] \in {Absent, Old}
        /\ (file["identity"] = Absent => file["memory"] = Absent)
    <3>1. [peer |-> Old, key |-> NoKey] \in Identity BY <2>1 DEF Identity
    <3>2. [peer |-> Old, key |-> NoKey] # Absent BY <3>1, MarkersAreFresh
    <3> QED BY <3>2 DEF Init, Nothing, Files, StateFiles
  <2>3. FileFits(Old) BY <2>2 DEF FileFits
  <2>4. \A c \in Commands : Fits(c, Old) /\ Waits(c) /\ ~Running(c)
    BY DEF Init, Fits, Waits, HasIdentity, HasMemory, AtIdentity, Running
  <2>5. BackupsFit BY DEF Init, BackupsFit, Whole, OneAgent
  <2>6. Solo BY <2>4 DEF Solo
  <2>7. DirectoryOf(Old) /\ Vacant BY <2>2, <2>3, <2>4 DEF DirectoryOf, Vacant
  <2> QED BY <2>1, <2>5, <2>6, <2>7, InitTypes DEF MixInv, Unmixed
<1>2. MixInv /\ [Next]_vars => MixInv'
  <2> SUFFICES ASSUME MixInv, [Next]_vars PROVE MixInv'
    OBVIOUS
  <2>1. Types' BY NextKeepsTypes DEF MixInv
  <2>2. CASE Next
    BY <2>1, <2>2, StepKeepsSolo, StepKeepsUnmixed DEF Next, MixInv
  <2>3. CASE UNCHANGED vars
    <3> USE <2>3 DEF vars, history
    <3>1. Solo' BY DEF MixInv, Solo, Running
    <3>2. Vacant' = Vacant /\ BackupsFit' = BackupsFit
      <4>1. \A c \in Commands : Waits(c)' = Waits(c)
        BY DEF Waits, HasIdentity, AtIdentity
      <4> QED BY <4>1 DEF Vacant, BackupsFit
    <3>3. \A p \in Agents : DirectoryOf(p) => DirectoryOf(p)'
      BY DEF DirectoryOf, FileFits, Fits, HasIdentity, HasMemory, AtIdentity
    <3> QED BY <2>1, <3>1, <3>2, <3>3 DEF MixInv, Unmixed
  <2> QED BY <2>2, <2>3
<1>3. MixInv => NoMixture
  <2> SUFFICES ASSUME MixInv, ~forced, ~crossed PROVE NoMixture
    BY DEF NoMixture
  <2>1. BackupsFit /\ \E p \in Agents : FileFits(p)
    BY DEF MixInv, Unmixed, DirectoryOf
  <2>2. OneAgent(file["identity"], file["memory"]) BY <2>1 DEF FileFits, OneAgent
  <2> QED BY <2>1, <2>2 DEF BackupsFit, NoMixture
<1> QED BY <1>1, <1>2, <1>3, PTL DEF Spec

=============================================================================
