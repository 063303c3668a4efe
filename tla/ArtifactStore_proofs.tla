----------------------------- MODULE ArtifactStore_proofs -----------------------------
(***************************************************************************)
(* What the artifact store keeps, for any threads, artifacts, sizes and    *)
(* quota, and any number of crashes and damaged blocks.                    *)
(***************************************************************************)
EXTENDS ArtifactStore, TLAPS, FiniteSetTheorems, WellFoundedInduction

\* The artifact of an operation, and how far each phase has come.
Shaped(o) ==
  /\ o.kind \in {"import", "commit", "export"} =>
       \E a \in Artifacts : o.of = {a} /\ o.blocks = Content[a]
  /\ o.kind = "store" => o.of = {} /\ Len(o.blocks) = 1 /\ o.at = 1
  /\ o.phase \in {"manifest", "mtemp"} => o.at > Len(o.blocks)
  /\ o.phase \in {"write", "temp"} => o.at <= Len(o.blocks)
  /\ o.phase = "idle" => o.blocks = <<>>
  /\ o.at >= 1

\* What an operation with the fields of o may count on when the files are B: what it has
\* seen is whole or excused; and if it is an export, whole unless it was hurt since, and
\* then the export is betrayed.
Sound(o, B, E) ==
  /\ o \in Operation
  /\ o.phase \in PhasesOf[o.kind]
  /\ Shaped(o)
  /\ o.good \/ o.betrayed
  /\ \A b \in Seen(o) : B[b] = "whole" \/ b \in E
  /\ o.kind = "export" => o.betrayed \/ \A b \in Seen(o) : B[b] = "whole"

\* The types of the state.
Typed ==
  /\ blocks \in [Blocks -> Files]
  /\ manifests \in SUBSET Artifacts
  /\ litter \in SUBSET TempFile
  /\ op \in [Actors -> Operation]
  /\ exported \in SUBSET [good : BOOLEAN, betrayed : BOOLEAN]
  /\ crashes \in Nat /\ damages \in Nat
  /\ overlapped \in BOOLEAN
  /\ excused \in SUBSET Blocks

\* The inductive invariant: a manifest is published when all its blocks have been seen,
\* so what was seen must be as safe as what was published.
IInv ==
  /\ Typed
  /\ \A t \in Actors : Sound(op[t], blocks, excused)
  /\ PublishedIsWhole
  /\ ExportedIsWhole

---------------------------------------------------------------------------
\* Operations, as records.

\* The constants, as the steps below use them.
LEMMA ConstantFacts ==
  /\ Loop \notin Threads
  /\ \A a \in Artifacts : Content[a] \in Seq(Blocks)
  /\ \A b \in Blocks : Size[b] \in Nat
  /\ ManifestBytes \in Nat
BY StoreAssumptions DEF StoreAssumptions

\* Which phases each kind of operation has.
LEMMA PhaseFacts ==
  /\ PhasesOf["none"] = {"idle"}
  /\ PhasesOf["import"] = {"block", "write", "temp", "mtemp"}
  /\ PhasesOf["store"] = {"remove", "write", "temp"}
  /\ PhasesOf["commit"] = {"verify", "manifest", "mtemp"}
  /\ PhasesOf["export"] = {"verify", "copy"}
BY DEF PhasesOf

\* No operation.
LEMMA IdleFacts ==
  /\ Idle \in Operation /\ Idle.phase = "idle" /\ Idle.at = 1 /\ Idle.kind = "none"
  /\ Idle.of = {} /\ Idle.blocks = <<>> /\ Idle.good = TRUE /\ Idle.betrayed = FALSE
BY DEF Idle, Operation, Kinds, Phases

---------------------------------------------------------------------------
\* What has been seen.

\* The blocks seen are blocks.
LEMMA SeenTyped ==
  ASSUME NEW o \in Operation
  PROVE  Seen(o) \subseteq Range(o.blocks) /\ Range(o.blocks) \subseteq Blocks
<1>1. o.blocks \in Seq(Blocks)
  BY DEF Operation
<1>2. Range(o.blocks) \subseteq Blocks
  BY <1>1 DEF Range
<1>3. Seen(o) \subseteq Range(o.blocks)
  BY <1>1 DEF Seen, Range
<1> QED
  BY <1>2, <1>3

\* What is seen depends on the place only.
LEMMA SeenSame ==
  ASSUME NEW o, NEW q, q.blocks = o.blocks, q.at = o.at,
         o.phase = "copy" <=> q.phase = "copy"
  PROVE  Seen(q) = Seen(o)
BY DEF Seen

\* The next place adds one block.
LEMMA SeenNext ==
  ASSUME NEW o \in Operation, NEW q, q.blocks = o.blocks, q.at = o.at + 1,
         o.phase # "copy", q.phase # "copy", o.at >= 1, o.at <= Len(o.blocks)
  PROVE  /\ Seen(q) = Seen(o) \cup {o.blocks[o.at]}
         /\ o.blocks[o.at] \in Blocks
<1>1. o.blocks \in Seq(Blocks) /\ o.at \in Nat
  BY DEF Operation
<1>2. o.at \in DOMAIN o.blocks
  BY <1>1
<1>3. Seen(o) = {o.blocks[i] : i \in {k \in DOMAIN o.blocks : k < o.at}}
  BY DEF Seen
<1>4. Seen(q) = {o.blocks[i] : i \in {k \in DOMAIN o.blocks : k < o.at + 1}}
  BY DEF Seen
<1>5. {k \in DOMAIN o.blocks : k < o.at + 1} = {k \in DOMAIN o.blocks : k < o.at} \cup {o.at}
  BY <1>1, <1>2
<1> QED
  BY <1>1, <1>2, <1>3, <1>4, <1>5

\* At the end all has been seen.
LEMMA SeenAll ==
  ASSUME NEW o \in Operation, o.at > Len(o.blocks)
  PROVE  Seen(o) = Range(o.blocks)
<1>1. o.blocks \in Seq(Blocks) /\ o.at \in Nat
  BY DEF Operation
<1>2. {k \in DOMAIN o.blocks : k < o.at} = DOMAIN o.blocks
  BY <1>1
<1> QED
  BY <1>1, <1>2 DEF Seen, Range

\* At the start nothing has.
LEMMA SeenNone ==
  ASSUME NEW o \in Operation, o.at = 1, o.phase # "copy"
  PROVE  Seen(o) = {}
<1>1. o.blocks \in Seq(Blocks)
  BY DEF Operation
<1>2. {k \in DOMAIN o.blocks : k < o.at} = {}
  BY <1>1
<1> QED
  BY <1>2 DEF Seen

---------------------------------------------------------------------------
\* What a step does to one operation.

\* An operation that is over.
LEMMA IdleSound ==
  ASSUME NEW B, NEW E
  PROVE  Sound(Idle, B, E)
<1>1. Seen(Idle) = {}
  BY IdleFacts, SeenNone
<1> QED
  BY <1>1, IdleFacts, PhaseFacts DEF Sound, Shaped

\* An import, commit or export that begins.
LEMMA StartSound ==
  ASSUME NEW B, NEW E, NEW a \in Artifacts,
         NEW kind \in {"import", "commit", "export"}, NEW phase \in {"block", "verify"},
         phase \in PhasesOf[kind]
  PROVE  Sound(Started(kind, phase, {a}, Content[a]), B, E)
<1> DEFINE q == Started(kind, phase, {a}, Content[a])
<1>1. /\ q \in Operation /\ q.phase = phase /\ q.at = 1 /\ q.kind = kind
      /\ q.of = {a} /\ q.blocks = Content[a] /\ q.good = TRUE
  <2>1. kind \in Kinds /\ phase \in Phases /\ {a} \in SUBSET Artifacts
    BY DEF Kinds, Phases
  <2>2. Content[a] \in Seq(Blocks)
    BY ConstantFacts
  <2> QED
    BY <2>1, <2>2 DEF Started, Idle, Operation
<1> HIDE DEF q
<1>2. Seen(q) = {}
  BY <1>1, SeenNone
<1>3. Shaped(q)
  BY <1>1 DEF Shaped
<1>4. Sound(q, B, E)
  BY <1>1, <1>2, <1>3 DEF Sound
<1> QED
  BY <1>4 DEF q

\* A store_block that begins.
LEMMA StoreSound ==
  ASSUME NEW B, NEW E, NEW b \in Blocks
  PROVE  Sound(Started("store", "remove", {}, <<b>>), B, E)
<1> DEFINE q == Started("store", "remove", {}, <<b>>)
<1>1. /\ q \in Operation /\ q.phase = "remove" /\ q.at = 1 /\ q.kind = "store"
      /\ q.of = {} /\ q.blocks = <<b>> /\ q.good = TRUE
  <2>1. "store" \in Kinds /\ "remove" \in Phases /\ <<b>> \in Seq(Blocks)
    BY DEF Kinds, Phases
  <2> QED
    BY <2>1 DEF Started, Idle, Operation
<1> HIDE DEF q
<1>2. Seen(q) = {}
  BY <1>1, SeenNone
<1>3. Shaped(q)
  BY <1>1 DEF Shaped
<1>4. Sound(q, B, E)
  BY <1>1, <1>2, <1>3, PhaseFacts DEF Sound
<1> QED
  BY <1>4 DEF q

\* Only store_block has something to remove.
LEMMA RemoveFacts ==
  ASSUME NEW o, NEW B, NEW E, Sound(o, B, E), o.phase = "remove"
  PROVE  o.kind = "store" /\ o.at <= Len(o.blocks) /\ o.blocks[o.at] \in Blocks
<1>1. o.kind = "store"
  BY PhaseFacts DEF Sound, Operation, Kinds
<1> QED
  BY <1>1 DEF Sound, Shaped, Operation

\* Another phase, at the same place.
LEMMA PhaseSound ==
  ASSUME NEW o, NEW B, NEW E, NEW phase \in Phases \ {"idle", "copy"}, Sound(o, B, E),
         o.phase # "copy", phase \in PhasesOf[o.kind],
         phase \in {"manifest", "mtemp"} => o.at > Len(o.blocks),
         phase \in {"write", "temp"} => o.at <= Len(o.blocks)
  PROVE  Sound([o EXCEPT !.phase = phase], B, E)
<1> DEFINE q == [o EXCEPT !.phase = phase]
<1>0. o \in Operation /\ o.at \in Nat /\ o.good \in BOOLEAN
  BY DEF Sound, Operation
<1>1. /\ q \in Operation /\ q.phase = phase /\ q.at = o.at /\ q.kind = o.kind
      /\ q.of = o.of /\ q.blocks = o.blocks /\ q.good = o.good /\ q.betrayed = o.betrayed
  BY <1>0 DEF Operation
<1> HIDE DEF q
<1>2. Seen(q) = Seen(o)
  BY <1>1, SeenSame
<1>3. Shaped(q)
  BY <1>1 DEF Sound, Shaped
<1>4. Sound(q, B, E)
  BY <1>1, <1>2, <1>3 DEF Sound
<1> QED
  BY <1>4 DEF q

\* An operation may go on past the block at its place.
Passed(o, B, E) ==
  B[o.blocks[o.at]] = "whole" \/ (o.kind = "import" /\ o.blocks[o.at] \in E)

\* The next place, when the block at this one is whole, or excused and for an import.
LEMMA NextSound ==
  ASSUME NEW o, NEW q \in Operation, NEW B, NEW E, Sound(o, B, E),
         o.kind # "store", o.phase # "copy", q.phase \in {"block", "verify"},
         q.phase \in PhasesOf[o.kind], o.at <= Len(o.blocks), Passed(o, B, E),
         q.at = o.at + 1, q.kind = o.kind, q.of = o.of, q.blocks = o.blocks,
         q.good = o.good, q.betrayed = o.betrayed
  PROVE  Sound(q, B, E)
<1>0. o \in Operation /\ o.at \in Nat /\ o.at >= 1
  BY DEF Sound, Operation, Shaped
<1>1. Seen(q) = Seen(o) \cup {o.blocks[o.at]}
  BY <1>0, SeenNext
<1>2. Shaped(q)
  BY <1>0 DEF Sound, Shaped
<1>3. \A b \in Seen(q) : B[b] = "whole" \/ b \in E
  BY <1>1 DEF Sound, Passed
<1>4. q.kind = "export" => q.betrayed \/ \A b \in Seen(q) : B[b] = "whole"
  BY <1>1 DEF Sound, Passed
<1> QED
  BY <1>2, <1>3, <1>4 DEF Sound

\* One more excuse.
LEMMA MoreSound ==
  ASSUME NEW o, NEW B, NEW E, NEW F, Sound(o, B, E), E \subseteq F
  PROVE  Sound(o, B, F)
BY DEF Sound

\* A block made whole hurts nobody.
LEMMA MendSound ==
  ASSUME NEW o, NEW B \in [Blocks -> Files], NEW E, NEW b \in Blocks, Sound(o, B, E)
  PROVE  Sound(o, [B EXCEPT ![b] = "whole"], E \ {b})
<1>1. Seen(o) \subseteq Blocks
  BY SeenTyped DEF Sound
<1>2. \A c \in Blocks : [B EXCEPT ![b] = "whole"][c] = IF c = b THEN "whole" ELSE B[c]
  OBVIOUS
<1> QED
  BY <1>1, <1>2 DEF Sound

\* A block that is hurt betrays the exports that have seen it.
LEMMA HurtSound ==
  ASSUME NEW o, NEW B \in [Blocks -> Files], NEW E, NEW F, NEW b \in Blocks, NEW file \in Files,
         Sound(o, B, E), E \subseteq F, b \in Seen(o) => b \in F
  PROVE  Sound([o EXCEPT !.betrayed = @ \/ Verified(o, b)], [B EXCEPT ![b] = file], F)
<1> DEFINE g == o.betrayed \/ Verified(o, b)
           q == [o EXCEPT !.betrayed = g]
           C == [B EXCEPT ![b] = file]
<1>0. o \in Operation /\ o.at \in Nat /\ o.betrayed \in BOOLEAN
  BY DEF Sound, Operation
<1>1. /\ q \in Operation /\ q.phase = o.phase /\ q.at = o.at /\ q.kind = o.kind
      /\ q.of = o.of /\ q.blocks = o.blocks /\ q.good = o.good /\ q.betrayed = g
  <2>1. g \in BOOLEAN
    BY <1>0 DEF Verified
  <2> HIDE DEF g
  <2> QED
    BY <1>0, <2>1 DEF Operation
<1>2. Seen(q) = Seen(o)
  <2> HIDE DEF q
  <2> QED
    BY <1>1, SeenSame
<1>3. Seen(o) \subseteq Blocks
  BY <1>0, SeenTyped
<1>4. \A c \in Blocks : C[c] = IF c = b THEN file ELSE B[c]
  OBVIOUS
<1> HIDE DEF q, C
<1>5. Shaped(q)
  BY <1>1 DEF Sound, Shaped
<1>6. \A c \in Seen(q) : C[c] = "whole" \/ c \in F
  BY <1>2, <1>3, <1>4 DEF Sound
<1>7. CASE Verified(o, b)
  <2>1. q.betrayed
    BY <1>1, <1>7
  <2>2. q.good \/ q.betrayed
    BY <2>1
  <2>3. q.phase \in PhasesOf[q.kind]
    BY <1>1 DEF Sound
  <2> QED
    BY <1>1, <1>5, <1>6, <2>1, <2>2, <2>3 DEF Sound, q, C
<1>8. CASE ~ Verified(o, b)
  <2>1. q.betrayed <=> o.betrayed
    BY <1>1, <1>8
  <2>2. q.good \/ q.betrayed
    BY <2>1, <1>1 DEF Sound
  <2>3. q.phase \in PhasesOf[q.kind]
    BY <1>1 DEF Sound
  <2>4. q.kind = "export" => q.betrayed \/ \A c \in Seen(q) : C[c] = "whole"
    <3> SUFFICES ASSUME o.kind = "export" PROVE q.betrayed \/ \A c \in Seen(q) : C[c] = "whole"
      BY <1>1
    <3>1. b \notin Seen(o)
      BY <1>8 DEF Verified
    <3> QED
      BY <2>1, <1>2, <1>3, <1>4, <3>1 DEF Sound
  <2> QED
    BY <1>1, <1>5, <1>6, <2>2, <2>3, <2>4 DEF Sound, q, C
<1> QED
  BY <1>7, <1>8

---------------------------------------------------------------------------
\* Steps of one actor that change nothing but its operation.

LEMMA Alone ==
  ASSUME IInv, NEW t \in Actors, NEW q, Sound(q, blocks, excused),
         op' = [op EXCEPT ![t] = q], overlapped' \in BOOLEAN,
         UNCHANGED <<blocks, manifests, litter, exported, crashes, damages, excused>>
  PROVE  IInv'
<1>1. q \in Operation /\ op \in [Actors -> Operation]
  BY DEF Sound, IInv, Typed
<1>2. op' \in [Actors -> Operation]
  BY <1>1
<1>3. Typed'
  BY <1>2 DEF IInv, Typed
<1>4. \A u \in Actors : op'[u] = IF u = t THEN q ELSE op[u]
  BY <1>1
<1>5. \A u \in Actors : Sound(op'[u], blocks, excused)
  BY <1>4 DEF IInv
<1>6. (\A u \in Actors : Sound(op[u], blocks, excused))'
  BY <1>5
<1>7. PublishedIsWhole' /\ ExportedIsWhole'
  BY DEF IInv, PublishedIsWhole, ExportedIsWhole
<1> QED
  BY <1>3, <1>6, <1>7 DEF IInv

\* The same when a quota check is passed.
LEMMA AdmittedFacts ==
  ASSUME NEW t \in Actors, Admitted(t)
  PROVE  overlapped' \in BOOLEAN
BY DEF Admitted

LEMMA OverlappedKept ==
  ASSUME IInv, UNCHANGED overlapped
  PROVE  overlapped' \in BOOLEAN
BY DEF IInv, Typed

\* What IInv says of one operation.
LEMMA OneSound ==
  ASSUME IInv, NEW t \in Actors
  PROVE  /\ Sound(op[t], blocks, excused)
         /\ op[t] \in Operation /\ op[t].at \in Nat /\ op[t].at >= 1
         /\ op[t].blocks \in Seq(Blocks)
         /\ op \in [Actors -> Operation]
BY DEF IInv, Typed, Sound, Shaped, Operation

\* An operation that is over, for whatever reason.
LEMMA EndsIInv ==
  ASSUME IInv, NEW t \in Actors, Ends(t), overlapped' \in BOOLEAN,
         UNCHANGED <<blocks, manifests, litter, exported, crashes, damages, excused>>
  PROVE  IInv'
<1>1. op' = [op EXCEPT ![t] = Idle]
  BY DEF Ends
<1>2. Sound(Idle, blocks, excused)
  BY IdleSound
<1> QED
  BY <1>1, <1>2, Alone

\* Another phase.
LEMMA GoesIInv ==
  ASSUME IInv, NEW t \in Actors, NEW phase \in Phases \ {"idle", "copy"}, Goes(t, phase),
         overlapped' \in BOOLEAN, op[t].phase # "copy", phase \in PhasesOf[op[t].kind],
         phase \in {"manifest", "mtemp"} => op[t].at > Len(op[t].blocks),
         phase \in {"write", "temp"} => op[t].at <= Len(op[t].blocks),
         UNCHANGED <<blocks, manifests, litter, exported, crashes, damages, excused>>
  PROVE  IInv'
<1>1. op' = [op EXCEPT ![t] = [op[t] EXCEPT !.phase = phase]]
  BY DEF Goes
<1>2. Sound([op[t] EXCEPT !.phase = phase], blocks, excused)
  BY OneSound, PhaseSound
<1> QED
  BY <1>1, <1>2, Alone

\* The next block, when the one here is whole.
LEMMA NextIInv ==
  ASSUME IInv, NEW t \in Actors, op' = [op EXCEPT ![t].at = @ + 1], overlapped' \in BOOLEAN,
         op[t].phase \in {"block", "verify"}, More(t), blocks[Current(t)] = "whole",
         op[t].kind # "store",
         UNCHANGED <<blocks, manifests, litter, exported, crashes, damages, excused>>
  PROVE  IInv'
<1> DEFINE o == op[t]
           q == [o EXCEPT !.at = o.at + 1]
<1>1. op' = [op EXCEPT ![t] = q]
  OBVIOUS
<1>2. Sound(o, blocks, excused) /\ o \in Operation /\ o.at \in Nat
  BY OneSound
<1>3. /\ q \in Operation /\ q.phase = o.phase /\ q.at = o.at + 1 /\ q.kind = o.kind
      /\ q.of = o.of /\ q.blocks = o.blocks /\ q.good = o.good /\ q.betrayed = o.betrayed
  BY <1>2 DEF Operation
<1>4. o.at <= Len(o.blocks) /\ Passed(o, blocks, excused)
  BY DEF More, Current, Passed
<1>5. q.phase \in PhasesOf[o.kind]
  BY <1>2, <1>3 DEF Sound
<1>6. o.phase \in {"block", "verify"} /\ o.kind # "store"
  OBVIOUS
<1> HIDE DEF q, o
<1>7. Sound(q, blocks, excused)
  BY <1>2, <1>3, <1>4, <1>5, <1>6, NextSound
<1> QED
  BY <1>1, <1>7, Alone

---------------------------------------------------------------------------
\* The operations, one lemma per action.

LEMMA ImportIInv ==
  ASSUME IInv, NEW t \in Threads, NEW a \in Artifacts, Import(t, a)
  PROVE  IInv'
<1>1. t \in Actors
  BY DEF Actors
<1>2. overlapped' \in BOOLEAN
  BY <1>1, AdmittedFacts DEF Import
<1>3. Sound(Started("import", "block", {a}, Content[a]), blocks, excused)
  BY StartSound, PhaseFacts
<1> QED
  BY <1>1, <1>2, <1>3, Alone DEF Import

LEMMA ImportBlockIInv ==
  ASSUME IInv, NEW t \in Threads, ImportBlock(t)
  PROVE  IInv'
<1>1. t \in Actors
  BY DEF Actors
<1>2. overlapped' \in BOOLEAN
  BY OverlappedKept DEF ImportBlock
<1>3. op[t].phase = "block" /\ More(t)
  BY DEF ImportBlock
<1>4. op[t].kind = "import"
  BY <1>1, <1>3, OneSound, PhaseFacts DEF Sound, Operation, Kinds
<1>5. UNCHANGED <<blocks, manifests, litter, exported, crashes, damages, excused>>
  BY DEF ImportBlock
<1>6. \/ Goes(t, "write")
      \/ op' = [op EXCEPT ![t].at = @ + 1] /\ blocks[Current(t)] = "whole"
      \/ Ends(t)
  <2>1. Current(t) \in Blocks
    BY <1>1, <1>3, OneSound DEF More, Current
  <2>2. blocks[Current(t)] \in Files
    BY <2>1 DEF IInv, Typed
  <2> QED
    BY <2>2 DEF ImportBlock, Files
<1>7. CASE Goes(t, "write")
  BY <1>1, <1>2, <1>3, <1>4, <1>5, <1>7, GoesIInv, PhaseFacts DEF Phases, More
<1>8. CASE op' = [op EXCEPT ![t].at = @ + 1] /\ blocks[Current(t)] = "whole"
  BY <1>1, <1>2, <1>3, <1>4, <1>5, <1>8, NextIInv
<1>9. CASE Ends(t)
  BY <1>1, <1>2, <1>5, <1>9, EndsIInv
<1> QED
  BY <1>6, <1>7, <1>8, <1>9

LEMMA RenameBlockIInv ==
  ASSUME IInv, NEW t \in Actors, RenameBlock(t)
  PROVE  IInv'
<1> DEFINE o == op[t]
           b == Current(t)
           B == [blocks EXCEPT ![b] = "whole"]
           E == excused \ {b}
           q == IF o.kind = "store" THEN Idle ELSE [o EXCEPT !.phase = "block", !.at = o.at + 1]
<1>1. /\ Sound(o, blocks, excused) /\ o \in Operation /\ o.at \in Nat /\ o.at >= 1
      /\ o.blocks \in Seq(Blocks) /\ op \in [Actors -> Operation]
  BY OneSound
<1>2. o.phase = "temp" /\ o.at <= Len(o.blocks)
  BY <1>1 DEF RenameBlock, Sound, Shaped
<1>3. b \in Blocks /\ b = o.blocks[o.at]
  BY <1>1, <1>2 DEF Current
<1>4. blocks \in [Blocks -> Files] /\ excused \subseteq Blocks
  BY DEF IInv, Typed
<1>5. blocks' = B /\ excused' = E /\ op' = [op EXCEPT ![t] = q]
  BY DEF RenameBlock, Ends
<1>6. B \in [Blocks -> Files] /\ \A c \in Blocks : B[c] = IF c = b THEN "whole" ELSE blocks[c]
  BY <1>3, <1>4 DEF Files
<1>7. \A u \in Actors : Sound(op[u], B, E)
  <2> SUFFICES ASSUME NEW u \in Actors PROVE Sound(op[u], B, E)
    OBVIOUS
  <2>1. Sound(op[u], blocks, excused)
    BY DEF IInv
  <2> QED
    BY <1>3, <1>4, <2>1, MendSound
<1>8. Sound(q, B, E)
  <2>1. CASE o.kind = "store"
    BY <2>1, IdleSound
  <2>2. CASE o.kind # "store"
    <3> DEFINE r == [o EXCEPT !.phase = "block", !.at = o.at + 1]
    <3>1. "block" \in Phases /\ o.at + 1 \in Nat
      BY <1>1 DEF Phases
    <3>2. /\ r \in Operation /\ r.phase = "block" /\ r.at = o.at + 1 /\ r.kind = o.kind
          /\ r.of = o.of /\ r.blocks = o.blocks /\ r.good = o.good /\ r.betrayed = o.betrayed
      BY <1>1, <3>1 DEF Operation
    <3>3. o.kind = "import"
      BY <1>1, <1>2, <2>2, PhaseFacts DEF Sound, Operation, Kinds
    <3>4. Sound(o, B, E) /\ Passed(o, B, E)
      BY <1>3, <1>6, <1>7 DEF Passed
    <3>5. q = r
      BY <2>2
    <3> HIDE DEF r, q, o, B, E
    <3>6. /\ o.kind # "store" /\ o.phase # "copy" /\ r.phase \in PhasesOf[o.kind]
          /\ r.phase \in {"block", "verify"} /\ o.at <= Len(o.blocks)
      BY <1>2, <3>2, <3>3, PhaseFacts
    <3>7. Sound(r, B, E)
      BY <3>2, <3>4, <3>6, NextSound
    <3> QED
      BY <3>5, <3>7
  <2> QED
    BY <2>1, <2>2
<1>9. q \in Operation
  BY <1>8 DEF Sound
<1> HIDE DEF q, o, B, E, b
<1>10. op' \in [Actors -> Operation] /\ \A u \in Actors : op'[u] = IF u = t THEN q ELSE op[u]
  BY <1>1, <1>5, <1>9
<1>11. (\A u \in Actors : Sound(op[u], blocks, excused))'
  BY <1>5, <1>7, <1>8, <1>10
<1>12. Typed'
  BY <1>4, <1>5, <1>6, <1>10 DEF IInv, Typed, RenameBlock, E
<1>13. PublishedIsWhole'
  <2> SUFFICES ASSUME NEW a \in manifests', NEW c \in Range(Content[a])
               PROVE  blocks'[c] = "whole" \/ c \in excused'
    BY DEF PublishedIsWhole
  <2>1. a \in manifests /\ a \in Artifacts
    BY DEF RenameBlock, IInv, Typed
  <2>2. c \in Blocks
    BY <2>1, ConstantFacts DEF Range
  <2>3. blocks[c] = "whole" \/ c \in excused
    BY <2>1 DEF IInv, PublishedIsWhole
  <2> QED
    BY <1>5, <1>6, <2>2, <2>3 DEF E
<1>14. ExportedIsWhole'
  BY DEF IInv, ExportedIsWhole, RenameBlock
<1> QED
  BY <1>11, <1>12, <1>13, <1>14 DEF IInv

LEMMA WriteManifestIInv ==
  ASSUME IInv, NEW t \in Actors, WriteManifest(t)
  PROVE  IInv'
<1>1. overlapped' \in BOOLEAN
  BY OverlappedKept DEF WriteManifest
<1>2. UNCHANGED <<blocks, manifests, litter, exported, crashes, damages, excused>>
  BY DEF WriteManifest
<1>3. op[t].at > Len(op[t].blocks)
  BY OneSound DEF WriteManifest, More, Sound, Shaped
<1>4. op[t].phase \in {"manifest", "block"}
  BY DEF WriteManifest
<1>5. "mtemp" \in PhasesOf[op[t].kind]
  BY <1>4, OneSound, PhaseFacts DEF Sound, Operation, Kinds
<1>6. CASE Ends(t)
  BY <1>1, <1>2, <1>6, EndsIInv
<1>7. CASE Goes(t, "mtemp")
  BY <1>1, <1>2, <1>3, <1>4, <1>5, <1>7, GoesIInv DEF Phases
<1> QED
  BY <1>6, <1>7 DEF WriteManifest

\* A manifest appears when the operation has seen all its blocks.
LEMMA PublishManifestIInv ==
  ASSUME IInv, NEW t \in Actors, PublishManifest(t)
  PROVE  IInv'
<1> DEFINE o == op[t]
<1>1. /\ Sound(o, blocks, excused) /\ o \in Operation /\ o.phase = "mtemp"
      /\ op \in [Actors -> Operation]
  BY OneSound DEF PublishManifest
<1>2. o.kind \in {"import", "commit"}
  BY <1>1, PhaseFacts DEF Sound, Operation, Kinds
<1>3. PICK a \in Artifacts : o.of = {a} /\ o.blocks = Content[a]
  BY <1>1, <1>2 DEF Sound, Shaped
<1>4. o.at > Len(o.blocks)
  BY <1>1 DEF Sound, Shaped
<1>5. \A b \in Range(Content[a]) : blocks[b] = "whole" \/ b \in excused
  BY <1>1, <1>3, <1>4, SeenAll DEF Sound
<1>6. manifests' = manifests \cup {a}
  BY <1>3 DEF PublishManifest
<1>7. op' = [op EXCEPT ![t] = Idle] /\ blocks' = blocks /\ excused' = excused
  BY DEF PublishManifest, Ends
<1>8. Sound(Idle, blocks, excused) /\ Idle \in Operation
  BY IdleSound, IdleFacts
<1>9. op' \in [Actors -> Operation] /\ \A u \in Actors : op'[u] = IF u = t THEN Idle ELSE op[u]
  BY <1>1, <1>7, <1>8
<1>10. (\A u \in Actors : Sound(op[u], blocks, excused))'
  BY <1>7, <1>8, <1>9 DEF IInv
<1>11. Typed'
  BY <1>6, <1>9 DEF IInv, Typed, PublishManifest
<1>12. PublishedIsWhole' /\ ExportedIsWhole'
  BY <1>5, <1>6, <1>7 DEF IInv, PublishedIsWhole, ExportedIsWhole, PublishManifest
<1> QED
  BY <1>10, <1>11, <1>12 DEF IInv

LEMMA VerifyBlockIInv ==
  ASSUME IInv, NEW t \in Actors, VerifyBlock(t)
  PROVE  IInv'
<1>1. overlapped' \in BOOLEAN
  BY OverlappedKept DEF VerifyBlock
<1>2. UNCHANGED <<blocks, manifests, litter, exported, crashes, damages, excused>>
  BY DEF VerifyBlock
<1>3. op[t].phase = "verify" /\ More(t)
  BY DEF VerifyBlock
<1>4. op[t].kind # "store"
  BY <1>3, OneSound, PhaseFacts DEF Sound
<1>5. CASE Ends(t)
  BY <1>1, <1>2, <1>5, EndsIInv
<1>6. CASE op' = [op EXCEPT ![t].at = @ + 1] /\ blocks[Current(t)] = "whole"
  BY <1>1, <1>2, <1>3, <1>4, <1>6, NextIInv
<1> QED
  BY <1>5, <1>6 DEF VerifyBlock

LEMMA StoreBlockIInv ==
  ASSUME IInv, NEW b \in Blocks, StoreBlock(b)
  PROVE  IInv'
<1>1. Loop \in Actors
  BY DEF Actors
<1>2. overlapped' \in BOOLEAN
  BY <1>1, AdmittedFacts DEF StoreBlock
<1>3. Sound(Started("store", "remove", {}, <<b>>), blocks, excused)
  BY StoreSound
<1> QED
  BY <1>1, <1>2, <1>3, Alone DEF StoreBlock

\* A block that is hurt: those that relied on it are told so, and no property is lost.
LEMMA HurtOthers ==
  ASSUME IInv, NEW b \in Blocks, NEW file \in Files,
         blocks' = [blocks EXCEPT ![b] = file], excused' = Excused(b),
         UNCHANGED <<manifests, exported>>
  PROVE  /\ Betrayed(b) \in [Actors -> Operation]
         /\ \A u \in Actors : Sound(Betrayed(b)[u], blocks', excused')
         /\ blocks' \in [Blocks -> Files] /\ excused' \in SUBSET Blocks
         /\ PublishedIsWhole' /\ ExportedIsWhole'
<1>1. blocks \in [Blocks -> Files] /\ excused \subseteq Blocks
  BY DEF IInv, Typed
<1>2. excused \subseteq excused' /\ excused' \subseteq Blocks
  BY <1>1 DEF Excused
<1>3. \A u \in Actors : b \in Seen(op[u]) => b \in excused'
  BY DEF Excused, ReliedOn
<1>4. \A u \in Actors : Sound(Betrayed(b)[u], blocks', excused')
  <2> SUFFICES ASSUME NEW u \in Actors PROVE Sound(Betrayed(b)[u], blocks', excused')
    OBVIOUS
  <2>1. Sound(op[u], blocks, excused)
    BY DEF IInv
  <2>2. b \in Seen(op[u]) => b \in excused'
    BY <1>3
  <2>3. Sound([op[u] EXCEPT !.betrayed = @ \/ Verified(op[u], b)],
              [blocks EXCEPT ![b] = file], excused')
    BY <1>1, <1>2, <2>1, <2>2, HurtSound
  <2>4. Betrayed(b)[u] = [op[u] EXCEPT !.betrayed = @ \/ Verified(op[u], b)]
    BY Zenon DEF Betrayed
  <2> QED
    BY <2>3, <2>4, Zenon
<1>5. Betrayed(b) \in [Actors -> Operation]
  <2>1. \A u \in Actors : Betrayed(b)[u] \in Operation
    BY <1>4 DEF Sound
  <2>2. Betrayed(b) = [u \in Actors |-> Betrayed(b)[u]]
    BY Zenon DEF Betrayed
  <2> HIDE DEF Betrayed
  <2> QED
    BY <2>1, <2>2, Zenon
<1>6. PublishedIsWhole'
  <2> SUFFICES ASSUME NEW a \in manifests', NEW c \in Range(Content[a])
               PROVE  blocks'[c] = "whole" \/ c \in excused'
    BY DEF PublishedIsWhole
  <2>1. a \in manifests /\ a \in Artifacts
    BY DEF IInv, Typed
  <2>2. c \in Blocks
    BY <2>1, ConstantFacts DEF Range
  <2>3. blocks[c] = "whole" \/ c \in excused
    BY <2>1 DEF IInv, PublishedIsWhole
  <2>4. CASE c = b
    BY <2>1, <2>4 DEF Excused, ReliedOn
  <2>5. CASE c # b
    BY <1>1, <1>2, <2>2, <2>3, <2>5
  <2> QED
    BY <2>4, <2>5
<1>7. ExportedIsWhole'
  BY DEF IInv, ExportedIsWhole
<1>8. blocks' \in [Blocks -> Files]
  BY <1>1
<1> QED
  BY <1>2, <1>4, <1>5, <1>6, <1>7, <1>8

LEMMA RemoveBlockIInv ==
  ASSUME IInv, RemoveBlock
  PROVE  IInv'
<1> DEFINE b == Current(Loop)
<1>1. Loop \in Actors
  BY DEF Actors
<1>2. op[Loop].phase = "remove"
  BY DEF RemoveBlock
<1>3. op[Loop].kind = "store" /\ op[Loop].at <= Len(op[Loop].blocks)
  BY <1>1, <1>2, OneSound, RemoveFacts
<1>4. b \in Blocks
  BY <1>1, <1>2, OneSound, RemoveFacts DEF Current
<1>5. overlapped' \in BOOLEAN
  BY OverlappedKept DEF RemoveBlock
<1>6. CASE blocks[b] = "none"
  <2>1. Goes(Loop, "write") /\ UNCHANGED <<blocks, excused>>
    BY <1>6 DEF RemoveBlock
  <2>2. UNCHANGED <<blocks, manifests, litter, exported, crashes, damages, excused>>
    BY <2>1 DEF RemoveBlock
  <2> QED
    BY <1>1, <1>2, <1>3, <1>5, <2>1, <2>2, GoesIInv, PhaseFacts DEF Phases
<1>7. CASE blocks[b] # "none"
  <2> DEFINE G == Betrayed(b)
             q == [G[Loop] EXCEPT !.phase = "write"]
  <2>1. /\ blocks' = [blocks EXCEPT ![b] = "none"] /\ excused' = Excused(b)
        /\ op' = [G EXCEPT ![Loop] = q]
    BY <1>7 DEF RemoveBlock
  <2>2. UNCHANGED <<manifests, litter, exported, crashes, damages, overlapped>>
    BY DEF RemoveBlock
  <2>3. "none" \in Files /\ "write" \in Phases \ {"idle", "copy"}
    BY DEF Files, Phases
  <2>4. /\ G \in [Actors -> Operation]
        /\ \A u \in Actors : Sound(G[u], blocks', excused')
        /\ blocks' \in [Blocks -> Files] /\ excused' \in SUBSET Blocks
        /\ PublishedIsWhole' /\ ExportedIsWhole'
    BY <1>4, <2>1, <2>2, <2>3, HurtOthers
  <2>5. G[Loop].kind = "store" /\ G[Loop].phase = "remove"
    BY <1>1, <1>2, <1>3, OneSound DEF Betrayed, Operation
  <2> HIDE DEF G
  <2>6. Sound(q, blocks', excused')
    <3>1. Sound(G[Loop], blocks', excused')
      BY <1>1, <2>4
    <3>2. G[Loop].at <= Len(G[Loop].blocks)
      BY <2>5, <3>1 DEF Sound, Shaped
    <3> QED
      BY <2>3, <2>5, <3>1, <3>2, PhaseSound, PhaseFacts
  <2>7. q \in Operation
    BY <2>6 DEF Sound
  <2> HIDE DEF q
  <2>8. op' \in [Actors -> Operation] /\ \A u \in Actors : op'[u] = IF u = Loop THEN q ELSE G[u]
    BY <1>1, <2>1, <2>4, <2>7
  <2>9. (\A u \in Actors : Sound(op[u], blocks, excused))'
    BY <2>4, <2>6, <2>8
  <2>10. Typed'
    BY <1>5, <2>2, <2>4, <2>8 DEF IInv, Typed
  <2> QED
    BY <2>4, <2>9, <2>10 DEF IInv
<1> QED
  BY <1>6, <1>7

\* A file taken unread is whole or excused, and no other operation is concerned.
LEMMA TakesUnreadIInv ==
  ASSUME IInv, NEW t \in Actors, op[t].phase \in {"write", "temp"}, TakesUnread(t),
         blocks[Current(t)] # "none",
         UNCHANGED <<blocks, manifests, litter, exported, crashes, damages, overlapped>>
  PROVE  IInv'
<1> DEFINE o == op[t]
           b == Current(t)
           q == [o EXCEPT !.phase = "block", !.at = o.at + 1]
<1>1. /\ Sound(o, blocks, excused) /\ o \in Operation /\ o.at \in Nat /\ o.at >= 1
      /\ o.blocks \in Seq(Blocks) /\ op \in [Actors -> Operation]
  BY OneSound
<1>2. CASE o.kind = "store"
  <2>1. Ends(t) /\ UNCHANGED excused
    BY <1>2 DEF TakesUnread
  <2> QED
    BY <2>1, EndsIInv DEF IInv, Typed
<1>3. CASE o.kind # "store"
  <2>1. o.kind = "import" /\ o.at <= Len(o.blocks)
    BY <1>1, <1>3, PhaseFacts DEF Sound, Shaped, Operation, Kinds
  <2>2. b \in Blocks /\ b = o.blocks[o.at]
    BY <1>1, <2>1 DEF Current
  <2>3. blocks \in [Blocks -> Files] /\ excused \subseteq Blocks
    BY DEF IInv, Typed
  <2>4. op' = [op EXCEPT ![t] = q]
        /\ excused' = IF blocks[b] = "damaged" THEN excused \cup {b} ELSE excused
    BY <1>3 DEF TakesUnread
  <2>5. excused \subseteq excused' /\ excused' \subseteq Blocks
        /\ (blocks[b] = "whole" \/ b \in excused')
    BY <2>2, <2>3, <2>4 DEF Files
  <2>6. "block" \in Phases /\ o.at + 1 \in Nat
    BY <1>1 DEF Phases
  <2>7. /\ q \in Operation /\ q.phase = "block" /\ q.at = o.at + 1 /\ q.kind = o.kind
        /\ q.of = o.of /\ q.blocks = o.blocks /\ q.good = o.good /\ q.betrayed = o.betrayed
    BY <1>1, <2>6 DEF Operation
  <2>8. o.phase # "copy"
    OBVIOUS
  <2>9. Sound(o, blocks, excused') /\ Passed(o, blocks, excused')
    BY <1>1, <2>1, <2>2, <2>5, MoreSound DEF Passed
  <2> HIDE DEF q, o, b
  <2>10. Sound(q, blocks, excused')
    BY <2>1, <2>7, <2>8, <2>9, NextSound, PhaseFacts
  <2>11. op' \in [Actors -> Operation] /\ \A u \in Actors : op'[u] = IF u = t THEN q ELSE op[u]
    BY <1>1, <2>4, <2>7
  <2>12. \A u \in Actors : Sound(op[u], blocks, excused')
    <3> SUFFICES ASSUME NEW u \in Actors PROVE Sound(op[u], blocks, excused')
      OBVIOUS
    <3>1. Sound(op[u], blocks, excused)
      BY DEF IInv
    <3> QED
      BY <2>5, <3>1, MoreSound
  <2>13. (\A u \in Actors : Sound(op[u], blocks, excused))'
    BY <2>10, <2>11, <2>12
  <2>14. Typed'
    BY <2>5, <2>11 DEF IInv, Typed
  <2>15. PublishedIsWhole' /\ ExportedIsWhole'
    BY <2>5 DEF IInv, PublishedIsWhole, ExportedIsWhole
  <2> QED
    BY <2>13, <2>14, <2>15 DEF IInv
<1> QED
  BY <1>2, <1>3

LEMMA WriteBlockIInv ==
  ASSUME IInv, NEW t \in Actors, WriteBlock(t)
  PROVE  IInv'
<1>1. op[t].phase = "write"
      /\ UNCHANGED <<blocks, manifests, litter, exported, crashes, damages, overlapped>>
  BY DEF WriteBlock
<1>2. op[t].kind \in {"import", "store"} /\ op[t].at <= Len(op[t].blocks)
  BY <1>1, OneSound, PhaseFacts DEF Sound, Shaped, Operation, Kinds
<1>3. overlapped' \in BOOLEAN
  BY <1>1, OverlappedKept
<1>4. CASE blocks[Current(t)] # "none"
  <2>1. TakesUnread(t)
    BY <1>4 DEF WriteBlock
  <2> QED
    BY <1>1, <1>4, <2>1, TakesUnreadIInv
<1>5. CASE blocks[Current(t)] = "none"
  <2>1. Goes(t, "temp") /\ UNCHANGED excused
    BY <1>5 DEF WriteBlock
  <2> QED
    BY <1>1, <1>2, <1>3, <2>1, GoesIInv, PhaseFacts DEF Phases
<1> QED
  BY <1>4, <1>5

LEMMA RenameRefusedIInv ==
  ASSUME IInv, NEW t \in Actors, RenameRefused(t)
  PROVE  IInv'
BY TakesUnreadIInv DEF RenameRefused

LEMMA CommitManifestIInv ==
  ASSUME IInv, NEW a \in Artifacts, CommitManifest(a)
  PROVE  IInv'
<1>1. Loop \in Actors
  BY DEF Actors
<1>2. overlapped' \in BOOLEAN
  BY OverlappedKept DEF CommitManifest
<1>3. Sound(Started("commit", "verify", {a}, Content[a]), blocks, excused)
  BY StartSound, PhaseFacts
<1> QED
  BY <1>1, <1>2, <1>3, Alone DEF CommitManifest

LEMMA CheckManifestIInv ==
  ASSUME IInv, CheckManifest
  PROVE  IInv'
<1>1. Loop \in Actors
  BY DEF Actors
<1>2. overlapped' \in BOOLEAN
  BY <1>1, AdmittedFacts, OverlappedKept DEF CheckManifest
<1>3. UNCHANGED <<blocks, manifests, litter, exported, crashes, damages, excused>>
  BY DEF CheckManifest
<1>4. op[Loop].kind = "commit" /\ op[Loop].phase = "verify"
  BY DEF CheckManifest
<1>5. op[Loop].at > Len(op[Loop].blocks)
  BY <1>1, OneSound DEF CheckManifest, More
<1>6. CASE Ends(Loop)
  BY <1>1, <1>2, <1>3, <1>6, EndsIInv
<1>7. CASE Goes(Loop, "manifest")
  BY <1>1, <1>2, <1>3, <1>4, <1>5, <1>7, GoesIInv, PhaseFacts DEF Phases
<1> QED
  BY <1>6, <1>7 DEF CheckManifest

LEMMA ExportIInv ==
  ASSUME IInv, NEW t \in Threads, NEW a \in Artifacts, Export(t, a)
  PROVE  IInv'
<1>1. t \in Actors
  BY DEF Actors
<1>2. overlapped' \in BOOLEAN
  BY OverlappedKept DEF Export
<1>3. Sound(Started("export", "verify", {a}, Content[a]), blocks, excused)
  BY StartSound, PhaseFacts
<1> QED
  BY <1>1, <1>2, <1>3, Alone DEF Export

\* Verified blocks stay seen while they are copied.
LEMMA StartCopyIInv ==
  ASSUME IInv, NEW t \in Threads, StartCopy(t)
  PROVE  IInv'
<1> DEFINE o == op[t]
           q == [o EXCEPT !.phase = "copy", !.at = 1]
<1>1. t \in Actors
  BY DEF Actors
<1>2. Sound(o, blocks, excused) /\ o \in Operation /\ o.blocks \in Seq(Blocks) /\ o.at \in Nat
  BY <1>1, OneSound
<1>3. o.kind = "export" /\ o.phase = "verify" /\ o.at > Len(o.blocks)
  BY <1>2 DEF StartCopy, More
<1>4. "copy" \in Phases
  BY DEF Phases
<1>5. /\ q \in Operation /\ q.phase = "copy" /\ q.at = 1 /\ q.kind = o.kind
      /\ q.of = o.of /\ q.blocks = o.blocks /\ q.good = o.good /\ q.betrayed = o.betrayed
  BY <1>2, <1>4 DEF Operation
<1>6. op' = [op EXCEPT ![t] = q]
  BY DEF StartCopy
<1>7. overlapped' \in BOOLEAN
  BY OverlappedKept DEF StartCopy
<1>8. UNCHANGED <<blocks, manifests, litter, exported, crashes, damages, excused>>
  BY DEF StartCopy
<1> HIDE DEF q, o
<1>9. Seen(o) = Range(o.blocks)
  BY <1>2, <1>3, SeenAll
<1>10. Seen(q) = Range(o.blocks)
  BY <1>5 DEF Seen
<1>11. Shaped(q)
  BY <1>2, <1>3, <1>5 DEF Sound, Shaped
<1>12. Sound(q, blocks, excused)
  BY <1>2, <1>3, <1>5, <1>9, <1>10, <1>11, PhaseFacts DEF Sound
<1> QED
  BY <1>1, <1>6, <1>7, <1>8, <1>12, Alone

\* A block that is not copied right was hurt after it had been verified.
LEMMA CopyBlockIInv ==
  ASSUME IInv, NEW t \in Threads, CopyBlock(t)
  PROVE  IInv'
<1> DEFINE o == op[t]
           g == o.good /\ blocks[Current(t)] = "whole"
           q == [o EXCEPT !.at = o.at + 1, !.good = g]
<1>1. t \in Actors
  BY DEF Actors
<1>2. Sound(o, blocks, excused) /\ o \in Operation /\ o.blocks \in Seq(Blocks) /\ o.at \in Nat
  BY <1>1, OneSound
<1>3. o.phase = "copy" /\ o.at >= 1 /\ o.at <= Len(o.blocks)
  BY <1>1, OneSound DEF CopyBlock, More
<1>4. overlapped' \in BOOLEAN
  BY OverlappedKept DEF CopyBlock
<1>5. UNCHANGED <<blocks, manifests, litter, exported, crashes, damages, excused>>
  BY DEF CopyBlock
<1>6. CASE Ends(t)
  BY <1>1, <1>4, <1>5, <1>6, EndsIInv
<1>7. CASE op' = [op EXCEPT ![t] = q]
  <2>1. g \in BOOLEAN /\ o.at + 1 \in Nat
    BY <1>2 DEF Operation
  <2>2. Current(t) \in Range(o.blocks)
    BY <1>2, <1>3 DEF Current, Range
  <2>3. g \/ o.betrayed
    <3>1. o.good \/ o.betrayed
      BY <1>2 DEF Sound
    <3>2. Seen(o) = Range(o.blocks)
      BY <1>3 DEF Seen
    <3>3. o.kind = "export"
      BY <1>2, <1>3, PhaseFacts DEF Sound, Operation, Kinds
    <3>4. o.betrayed \/ blocks[Current(t)] = "whole"
      BY <1>2, <2>2, <3>2, <3>3 DEF Sound
    <3> QED
      BY <3>1, <3>4
  <2> HIDE DEF g
  <2>4. /\ q \in Operation /\ q.phase = o.phase /\ q.at = o.at + 1 /\ q.kind = o.kind
        /\ q.of = o.of /\ q.blocks = o.blocks /\ q.good = g /\ q.betrayed = o.betrayed
    BY <1>2, <2>1 DEF Operation
  <2> HIDE DEF q, o
  <2>5. Seen(q) = Seen(o)
    BY <1>3, <2>4 DEF Seen
  <2>6. Shaped(q)
    <3>1. o.kind = "export"
      BY <1>2, <1>3, PhaseFacts DEF Sound, Operation, Kinds
    <3>2. q.at >= 1
      BY <1>2, <2>4
    <3> QED
      BY <1>2, <1>3, <2>4, <3>1, <3>2 DEF Sound, Shaped
  <2>7. Sound(q, blocks, excused)
    BY <1>2, <2>3, <2>4, <2>5, <2>6 DEF Sound
  <2> QED
    BY <1>1, <1>4, <1>5, <1>7, <2>7, Alone
<1> QED
  BY <1>6, <1>7 DEF CopyBlock

LEMMA FinishExportIInv ==
  ASSUME IInv, NEW t \in Threads, FinishExport(t)
  PROVE  IInv'
<1> DEFINE e == [good |-> op[t].good, betrayed |-> op[t].betrayed]
<1>1. t \in Actors
  BY DEF Actors
<1>2. Sound(op[t], blocks, excused) /\ op[t] \in Operation /\ op \in [Actors -> Operation]
  BY <1>1, OneSound
<1>3. e \in [good : BOOLEAN, betrayed : BOOLEAN]
  BY <1>2 DEF Operation
<1>4. e.good \/ e.betrayed
  BY <1>2 DEF Sound
<1>5. exported' = {e} /\ op' = [op EXCEPT ![t] = Idle]
  BY DEF FinishExport, Ends
<1>6. UNCHANGED <<blocks, manifests, litter, crashes, damages, overlapped, excused>>
  BY DEF FinishExport
<1> HIDE DEF e
<1>7. Sound(Idle, blocks, excused) /\ Idle \in Operation
  BY IdleSound, IdleFacts
<1>8. op' \in [Actors -> Operation] /\ \A u \in Actors : op'[u] = IF u = t THEN Idle ELSE op[u]
  BY <1>2, <1>5, <1>7
<1>9. (\A u \in Actors : Sound(op[u], blocks, excused))'
  BY <1>6, <1>7, <1>8 DEF IInv
<1>10. Typed'
  BY <1>3, <1>5, <1>6, <1>8 DEF IInv, Typed
<1>11. PublishedIsWhole'
  BY <1>6 DEF IInv, PublishedIsWhole
<1>12. ExportedIsWhole'
  BY <1>4, <1>5, Zenon DEF ExportedIsWhole
<1> QED
  BY <1>9, <1>10, <1>11, <1>12 DEF IInv

LEMMA TakeExportIInv ==
  ASSUME IInv, TakeExport
  PROVE  IInv'
<1>1. exported' = {} /\ UNCHANGED <<blocks, manifests, litter, op, crashes, damages, overlapped, excused>>
  BY DEF TakeExport
<1>2. Typed'
  BY <1>1 DEF IInv, Typed
<1>3. (\A u \in Actors : Sound(op[u], blocks, excused))'
  BY <1>1 DEF IInv
<1>4. PublishedIsWhole' /\ ExportedIsWhole'
  BY <1>1 DEF IInv, PublishedIsWhole, ExportedIsWhole
<1> QED
  BY <1>2, <1>3, <1>4 DEF IInv

LEMMA FailIInv ==
  ASSUME IInv, NEW t \in Actors, Fail(t)
  PROVE  IInv'
<1>1. overlapped' \in BOOLEAN
  BY OverlappedKept DEF Fail
<1> QED
  BY <1>1, EndsIInv DEF Fail

\* The temporary files of the process that ends are files.
LEMMA CrashIInv ==
  ASSUME IInv, Crash
  PROVE  IInv'
<1>1. litter' \in SUBSET TempFile
  <2> SUFFICES ASSUME NEW t \in Actors, op[t].phase \in {"temp", "mtemp"}
               PROVE  [process |-> crashes, by |-> t, bytes |-> TempBytes(op[t])] \in TempFile
    BY DEF Crash, IInv, Typed
  <2>1. TempBytes(op[t]) \in Nat
    <3>1. CASE op[t].phase = "temp"
      <4>1. op[t].blocks[op[t].at] \in Blocks
        BY <3>1, OneSound DEF Sound, Shaped
      <4> QED
        BY <3>1, <4>1, ConstantFacts DEF TempBytes
    <3>2. CASE op[t].phase = "mtemp"
      BY <3>2, ConstantFacts DEF TempBytes
    <3> QED
      BY <3>1, <3>2
  <2>2. crashes \in Nat
    BY DEF IInv, Typed
  <2> QED
    BY <2>1, <2>2 DEF TempFile
<1>2. op' = [t \in Actors |-> Idle]
  BY DEF Crash
<1>3. /\ UNCHANGED <<blocks, manifests, exported, damages, overlapped, excused>>
      /\ crashes' = crashes + 1
  BY DEF Crash
<1>4. op' \in [Actors -> Operation] /\ \A u \in Actors : op'[u] = Idle
  BY <1>2, IdleFacts
<1>5. Typed'
  BY <1>1, <1>3, <1>4 DEF IInv, Typed
<1>6. Sound(Idle, blocks, excused)
  BY IdleSound
<1>7. (\A u \in Actors : Sound(op[u], blocks, excused))'
  BY <1>3, <1>4, <1>6
<1>8. PublishedIsWhole' /\ ExportedIsWhole'
  BY <1>3 DEF IInv, PublishedIsWhole, ExportedIsWhole
<1> QED
  BY <1>5, <1>7, <1>8 DEF IInv

LEMMA DamageBlockIInv ==
  ASSUME IInv, NEW b \in Blocks, DamageBlock(b)
  PROVE  IInv'
<1>1. /\ blocks' = [blocks EXCEPT ![b] = "damaged"] /\ excused' = Excused(b)
      /\ op' = Betrayed(b) /\ damages' = damages + 1
      /\ UNCHANGED <<manifests, litter, exported, crashes, overlapped>>
  BY DEF DamageBlock
<1>2. "damaged" \in Files
  BY DEF Files
<1>3. /\ op' \in [Actors -> Operation]
      /\ \A u \in Actors : Sound(op'[u], blocks', excused')
      /\ blocks' \in [Blocks -> Files] /\ excused' \in SUBSET Blocks
      /\ PublishedIsWhole' /\ ExportedIsWhole'
  BY <1>1, <1>2, HurtOthers
<1>4. Typed'
  BY <1>1, <1>3 DEF IInv, Typed
<1> QED
  BY <1>3, <1>4 DEF IInv

---------------------------------------------------------------------------
\* All steps.

LEMMA InitIInv == Init => IInv
<1> SUFFICES ASSUME Init PROVE IInv
  OBVIOUS
<1>1. op = [t \in Actors |-> Idle]
  BY DEF Init
<1>2. op \in [Actors -> Operation] /\ \A t \in Actors : op[t] = Idle
  BY <1>1, IdleFacts
<1>3. Typed
  BY <1>2 DEF Init, Typed, Files
<1>4. \A t \in Actors : Sound(op[t], blocks, excused)
  BY <1>2, IdleSound
<1>5. PublishedIsWhole /\ ExportedIsWhole
  BY DEF Init, PublishedIsWhole, ExportedIsWhole
<1> QED
  BY <1>3, <1>4, <1>5 DEF IInv

LEMMA StutterIInv == IInv /\ UNCHANGED vars => IInv'
<1> SUFFICES ASSUME IInv, UNCHANGED vars PROVE IInv'
  OBVIOUS
<1>1. Typed'
  BY DEF IInv, Typed, vars
<1>2. (\A t \in Actors : Sound(op[t], blocks, excused))'
  BY DEF IInv, vars
<1>3. PublishedIsWhole' /\ ExportedIsWhole'
  BY DEF IInv, PublishedIsWhole, ExportedIsWhole, vars
<1> QED
  BY <1>1, <1>2, <1>3 DEF IInv

LEMMA StepIInv == IInv /\ [Next]_vars => IInv'
<1> SUFFICES ASSUME IInv, [Next]_vars PROVE IInv'
  OBVIOUS
<1>1. CASE UNCHANGED vars
  BY <1>1, StutterIInv
<1>2. CASE Next
  BY <1>2, ImportIInv, ImportBlockIInv, RenameBlockIInv, WriteManifestIInv, PublishManifestIInv,
     StoreBlockIInv, RemoveBlockIInv, WriteBlockIInv, RenameRefusedIInv, CommitManifestIInv, VerifyBlockIInv,
     CheckManifestIInv, ExportIInv, StartCopyIInv, CopyBlockIInv, FinishExportIInv,
     TakeExportIInv, FailIInv, CrashIInv, DamageBlockIInv
     DEF Next
<1> QED
  BY <1>1, <1>2

LEMMA Invariant == Spec => []IInv
<1> QED
  BY InitIInv, StepIInv, PTL DEF Spec

---------------------------------------------------------------------------
\* Induction, in the form of sets of numbers and sets of sets.

\* A set of natural numbers that is not empty has a least one.
LEMMA LeastNumber ==
  ASSUME NEW S, S \subseteq Nat, S # {}
  PROVE  \E m \in S : \A n \in S : m <= n
<1>1. PICK m \in S : \A n \in S : ~ (<<n, m>> \in OpToRel(<, Nat))
  BY NatLessThanWellFounded, WFMin
<1>2. \A n \in S : ~ (n < m)
  BY <1>1 DEF OpToRel
<1> QED
  BY <1>2

\* A proof by induction on a natural number, for the set of those it holds of.
LEMMA Induction ==
  ASSUME NEW S, 0 \in S, \A n \in Nat : n \in S => n + 1 \in S
  PROVE  Nat \subseteq S
<1> DEFINE T == Nat \ S
<1>1. SUFFICES ASSUME T # {} PROVE FALSE
  OBVIOUS
<1>2. PICK m \in T : \A n \in T : m <= n
  BY <1>1, LeastNumber
<1>3. m \in Nat /\ m \notin S /\ m # 0
  BY <1>2
<1>4. m - 1 \in Nat /\ m - 1 \notin T
  BY <1>2, <1>3
<1> QED
  BY <1>3, <1>4

\* A proof by induction on a finite set, for the set K of the subsets it holds of.
LEMMA SetInduction ==
  ASSUME NEW D, IsFiniteSet(D), NEW K, {} \in K,
         \A x \in SUBSET D : \A e \in D \ x : x \in K => x \cup {e} \in K
  PROVE  D \in K
<1> DEFINE N == {k \in Nat : \A x \in SUBSET D : Cardinality(x) = k => x \in K}
<1>1. \A x \in SUBSET D : IsFiniteSet(x) /\ Cardinality(x) \in Nat
  BY FS_Subset, FS_CardinalityType
<1>2. 0 \in N
  BY <1>1, FS_EmptySet
<1>3. ASSUME NEW k \in Nat, k \in N PROVE k + 1 \in N
  <2> SUFFICES ASSUME NEW x \in SUBSET D, Cardinality(x) = k + 1 PROVE x \in K
    OBVIOUS
  <2>1. x # {}
    <3>1. k + 1 # 0
      OBVIOUS
    <3>2. Cardinality({}) = 0
      BY FS_EmptySet
    <3> QED
      BY <3>1, <3>2
  <2>2. PICK e \in x : TRUE
    BY <2>1
  <2>3. x \ {e} \in SUBSET D /\ e \in D \ (x \ {e}) /\ x = (x \ {e}) \cup {e}
    BY <2>2
  <2>4. Cardinality(x \ {e}) = k
    <3>1. Cardinality(x \ {e}) = Cardinality(x) - 1
      BY <1>1, <2>2, FS_RemoveElement
    <3> QED
      BY <3>1
  <2>5. x \ {e} \in K
    BY <1>3, <2>3, <2>4
  <2> QED
    BY <2>3, <2>5
<1> HIDE DEF N
<1>4. Nat \subseteq N
  BY <1>2, <1>3, Induction
<1>5. Cardinality(D) \in N
  BY <1>1, <1>4
<1> QED
  BY <1>5 DEF N

---------------------------------------------------------------------------
\* Sums of a function's values over a finite set.

\* g adds up f over each subset of D, in the order the fold takes.
Adds(g, D, f) ==
  /\ DOMAIN g = SUBSET D
  /\ \A x \in SUBSET D :
       g[x] = IF x = {} THEN 0 ELSE f[CHOOSE y \in x : TRUE] + g[x \ {CHOOSE y \in x : TRUE}]

\* Such a g exists: for the subsets of up to k elements, for every k.
LEMMA AddsExists ==
  ASSUME NEW D, IsFiniteSet(D), NEW f, \A x \in D : f[x] \in Nat
  PROVE  \E g \in [SUBSET D -> Nat] : Adds(g, D, f)
<1> DEFINE Any(x) == CHOOSE y \in x : TRUE
           Upto(k) == {x \in SUBSET D : Cardinality(x) <= k}
           Value(g, x) == IF x = {} THEN 0 ELSE f[Any(x)] + g[x \ {Any(x)}]
           Found(k) == \E g \in [Upto(k) -> Nat] : \A x \in Upto(k) : g[x] = Value(g, x)
           K == {k \in Nat : Found(k)}
<1>1. \A x \in SUBSET D : IsFiniteSet(x) /\ Cardinality(x) \in Nat /\ Cardinality(x) <= Cardinality(D)
  BY FS_Subset, FS_CardinalityType
<1>2. ASSUME NEW x \in SUBSET D, x # {}
      PROVE  /\ Any(x) \in x /\ f[Any(x)] \in Nat
             /\ x \ {Any(x)} \in SUBSET D /\ Cardinality(x \ {Any(x)}) = Cardinality(x) - 1
  <2>1. Any(x) \in x
    BY <1>2
  <2>2. QED
    BY <1>1, <2>1, FS_RemoveElement
<1> HIDE DEF Any
<1>3. 0 \in K
  <2> DEFINE g == [x \in Upto(0) |-> 0]
  <2>1. \A x \in Upto(0) : x = {}
    BY <1>1, FS_EmptySet
  <2>2. g \in [Upto(0) -> Nat] /\ \A x \in Upto(0) : g[x] = Value(g, x)
    BY <2>1
  <2>3. QED
    BY <2>2
<1>4. ASSUME NEW k \in Nat, k \in K PROVE k + 1 \in K
  <2>1. PICK g \in [Upto(k) -> Nat] : \A x \in Upto(k) : g[x] = Value(g, x)
    BY <1>4
  <2> DEFINE h == [x \in Upto(k + 1) |-> Value(g, x)]
  <2>2. ASSUME NEW x \in Upto(k + 1), x # {}
        PROVE  x \ {Any(x)} \in Upto(k) /\ f[Any(x)] \in Nat
    <3>1. x \in SUBSET D /\ Cardinality(x) <= k + 1 /\ Cardinality(x) \in Nat
      BY <1>1
    <3>2. /\ f[Any(x)] \in Nat /\ x \ {Any(x)} \in SUBSET D
          /\ Cardinality(x \ {Any(x)}) = Cardinality(x) - 1
      BY <1>2, <2>2, <3>1
    <3>3. Cardinality(x \ {Any(x)}) <= k
      BY <3>1, <3>2
    <3>4. QED
      BY <3>2, <3>3
  <2>3. ASSUME NEW x \in Upto(k + 1) PROVE Value(g, x) \in Nat
    <3>1. CASE x = {}
      BY <3>1
    <3>2. CASE x # {}
      <4>1. g[x \ {Any(x)}] \in Nat /\ f[Any(x)] \in Nat
        BY <2>1, <2>2, <3>2
      <4>2. QED
        BY <3>2, <4>1
    <3>3. QED
      BY <3>1, <3>2
  <2>4. \A x \in Upto(k) : x \in Upto(k + 1)
    BY <1>1
  <2>5. ASSUME NEW x \in Upto(k + 1), x # {} PROVE h[x \ {Any(x)}] = g[x \ {Any(x)}]
    <3>1. x \ {Any(x)} \in Upto(k) /\ x \ {Any(x)} \in Upto(k + 1)
      BY <2>2, <2>4, <2>5
    <3> HIDE DEF Value, Upto
    <3>2. g[x \ {Any(x)}] = Value(g, x \ {Any(x)})
      BY <2>1, <3>1
    <3>3. QED
      BY <3>1, <3>2
  <2>6. h \in [Upto(k + 1) -> Nat]
    <3> HIDE DEF Value, Upto
    <3> QED
      BY <2>3
  <2>7. ASSUME NEW x \in Upto(k + 1) PROVE h[x] = Value(h, x)
    <3>1. CASE x = {}
      BY <3>1
    <3>2. CASE x # {}
      BY <2>5, <3>2
    <3>3. QED
      BY <3>1, <3>2
  <2>8. QED
    <3> HIDE DEF Value, Upto, h
    <3> QED
      BY <2>6, <2>7
<1> HIDE DEF K
<1>5. Cardinality(D) \in K
  BY <1>1, <1>3, <1>4, Induction
<1>6. SUBSET D = Upto(Cardinality(D))
  BY <1>1
<1>7. PICK g \in [SUBSET D -> Nat] : \A x \in SUBSET D : g[x] = Value(g, x)
  <2> HIDE DEF Value, Upto
  <2> QED
    BY <1>5, <1>6 DEF K
<1>8. Adds(g, D, f)
  BY <1>7 DEF Adds, Any
<1> QED
  BY <1>8

\* What the fold adds up does not depend on the set it is started for.
LEMMA AddsAgree ==
  ASSUME NEW D, IsFiniteSet(D), NEW C \in SUBSET D, NEW f, NEW g, NEW h,
         Adds(g, D, f), Adds(h, C, f)
  PROVE  g[C] = h[C]
<1> DEFINE K == {k \in Nat : \A x \in SUBSET C : Cardinality(x) = k => g[x] = h[x]}
<1>1. \A x \in SUBSET C : IsFiniteSet(x) /\ Cardinality(x) \in Nat
  BY FS_Subset, FS_CardinalityType
<1>2. 0 \in K
  <2> SUFFICES ASSUME NEW x \in SUBSET C, Cardinality(x) = 0 PROVE g[x] = h[x]
    OBVIOUS
  <2>1. x = {}
    BY <1>1, FS_EmptySet
  <2> QED
    BY <2>1 DEF Adds
<1>3. ASSUME NEW k \in Nat, k \in K PROVE k + 1 \in K
  <2> SUFFICES ASSUME NEW x \in SUBSET C, Cardinality(x) = k + 1 PROVE g[x] = h[x]
    OBVIOUS
  <2> DEFINE y == CHOOSE y \in x : TRUE
  <2>1. x # {} /\ x \in SUBSET D
    BY FS_EmptySet
  <2>2. y \in x
    BY <2>1
  <2>3. x \ {y} \in SUBSET C /\ Cardinality(x \ {y}) = k
    <3>1. Cardinality(x \ {y}) = Cardinality(x) - 1
      BY <1>1, <2>2, FS_RemoveElement
    <3> HIDE DEF y
    <3> QED
      BY <3>1
  <2>4. g[x \ {y}] = h[x \ {y}]
    BY <1>3, <2>3
  <2>5. g[x] = f[y] + g[x \ {y}] /\ h[x] = f[y] + h[x \ {y}]
    BY <2>1 DEF Adds
  <2> QED
    BY <2>4, <2>5
<1> HIDE DEF K
<1>4. Cardinality(C) \in K
  BY <1>1, <1>2, <1>3, Induction
<1> QED
  BY <1>4 DEF K

\* The sum is what such a g says.
LEMMA SumAdds ==
  ASSUME NEW D, IsFiniteSet(D), NEW f, \A x \in D : f[x] \in Nat
  PROVE  \E g : Adds(g, D, f) /\ SumFunctionOnSet(f, D) = g[D] /\ g[D] \in Nat
<1> DEFINE it == CHOOSE g : g = [s \in SUBSET D |->
                                   IF s = {} THEN 0
                                   ELSE f[CHOOSE y \in s : TRUE] + g[s \ {CHOOSE y \in s : TRUE}]]
<1>1. SumFunctionOnSet(f, D) = it[D]
  BY DEF SumFunctionOnSet, FoldFunctionOnSet, MapThenFoldSet
<1>2. PICK g \in [SUBSET D -> Nat] : Adds(g, D, f)
  BY AddsExists
<1>3. g = [s \in SUBSET D |->
             IF s = {} THEN 0
             ELSE f[CHOOSE y \in s : TRUE] + g[s \ {CHOOSE y \in s : TRUE}]]
  BY <1>2 DEF Adds
<1>4. it = [s \in SUBSET D |->
             IF s = {} THEN 0
             ELSE f[CHOOSE y \in s : TRUE] + it[s \ {CHOOSE y \in s : TRUE}]]
  BY <1>3
<1> HIDE DEF it
<1>5. Adds(it, D, f)
  BY <1>4 DEF Adds
<1>6. it[D] = g[D]
  BY <1>2, <1>5, AddsAgree
<1> QED
  BY <1>1, <1>2, <1>5, <1>6

\* Nothing adds up to 0.
LEMMA SumEmpty ==
  ASSUME NEW f
  PROVE  SumFunctionOnSet(f, {}) = 0
<1>1. IsFiniteSet({}) /\ \A x \in {} : f[x] \in Nat
  BY FS_EmptySet
<1>2. PICK g : Adds(g, {}, f) /\ SumFunctionOnSet(f, {}) = g[{}]
  BY <1>1, SumAdds
<1> QED
  BY <1>2 DEF Adds

\* A sum of natural numbers is one.
LEMMA SumNat ==
  ASSUME NEW D, IsFiniteSet(D), NEW f, \A x \in D : f[x] \in Nat
  PROVE  SumFunctionOnSet(f, D) \in Nat
BY SumAdds

\* The element the fold takes first counts once.
LEMMA SumAny ==
  ASSUME NEW D, IsFiniteSet(D), NEW f, \A x \in D : f[x] \in Nat, D # {}
  PROVE  \E y \in D : SumFunctionOnSet(f, D) = f[y] + SumFunctionOnSet(f, D \ {y})
<1> DEFINE y == CHOOSE y \in D : TRUE
           C == D \ {y}
<1>1. y \in D
  OBVIOUS
<1>2. IsFiniteSet(C) /\ C \in SUBSET D
  BY FS_Subset
<1>3. PICK g : Adds(g, D, f) /\ SumFunctionOnSet(f, D) = g[D]
  BY SumAdds
<1>4. PICK h : Adds(h, C, f) /\ SumFunctionOnSet(f, C) = h[C]
  <2>1. \A x \in C : f[x] \in Nat
    OBVIOUS
  <2> HIDE DEF C
  <2> QED
    BY <1>2, <2>1, SumAdds
<1>5. g[C] = h[C]
  BY <1>2, <1>3, <1>4, AddsAgree
<1>6. g[D] = f[y] + g[C]
  BY <1>3 DEF Adds
<1> QED
  BY <1>1, <1>3, <1>4, <1>5, <1>6

\* So does every other element.
LEMMA SumElement ==
  ASSUME NEW D, IsFiniteSet(D), NEW f, \A x \in D : f[x] \in Nat, NEW e \in D
  PROVE  SumFunctionOnSet(f, D) = f[e] + SumFunctionOnSet(f, D \ {e})
<1> DEFINE S(x) == SumFunctionOnSet(f, x)
           K == {k \in Nat : \A x \in SUBSET D : Cardinality(x) = k =>
                               \A d \in x : S(x) = f[d] + S(x \ {d})}
<1>1. \A x \in SUBSET D : IsFiniteSet(x) /\ Cardinality(x) \in Nat /\ \A y \in x : f[y] \in Nat
  BY FS_Subset, FS_CardinalityType
<1>2. \A x \in SUBSET D : S(x) \in Nat
  BY <1>1, SumNat
<1>3. 0 \in K
  BY <1>1, FS_EmptySet
<1>4. ASSUME NEW k \in Nat, k \in K PROVE k + 1 \in K
  <2> SUFFICES ASSUME NEW x \in SUBSET D, Cardinality(x) = k + 1, NEW d \in x
               PROVE  S(x) = f[d] + S(x \ {d})
    OBVIOUS
  <2>1. PICK y \in x : S(x) = f[y] + S(x \ {y})
    BY <1>1, SumAny
  <2>2. CASE y = d
    BY <2>1, <2>2
  <2>3. CASE y # d
    <3>1. x \ {y} \in SUBSET D /\ x \ {d} \in SUBSET D /\ d \in x \ {y} /\ y \in x \ {d}
      BY <2>3
    <3>2. Cardinality(x \ {y}) = k /\ Cardinality(x \ {d}) = k
      <4>1. IsFiniteSet(x) /\ y \in x /\ d \in x
        BY <1>1
      <4>2. /\ Cardinality(x \ {y}) = Cardinality(x) - 1
            /\ Cardinality(x \ {d}) = Cardinality(x) - 1
        BY <4>1, FS_RemoveElement
      <4>3. Cardinality(x) = k + 1 /\ k + 1 - 1 = k
        OBVIOUS
      <4> QED
        BY <4>2, <4>3
    <3>3. S(x \ {y}) = f[d] + S((x \ {y}) \ {d})
      BY <1>4, <3>1, <3>2
    <3>4. S(x \ {d}) = f[y] + S((x \ {d}) \ {y})
      BY <1>4, <3>1, <3>2
    <3>5. (x \ {y}) \ {d} = (x \ {d}) \ {y} /\ (x \ {d}) \ {y} \in SUBSET D
      OBVIOUS
    <3>6. S((x \ {y}) \ {d}) = S((x \ {d}) \ {y})
      BY <3>5
    <3>7. f[d] \in Nat /\ f[y] \in Nat /\ S((x \ {d}) \ {y}) \in Nat
      BY <1>1, <1>2, <3>5
    <3> HIDE DEF S
    <3> QED
      BY <2>1, <3>3, <3>4, <3>6, <3>7
  <2> QED
    BY <2>2, <2>3
<1> HIDE DEF K
<1>5. Cardinality(D) \in K
  BY <1>1, <1>3, <1>4, Induction
<1> QED
  BY <1>5 DEF K

\* One element more.
LEMMA SumAdd ==
  ASSUME NEW D, IsFiniteSet(D), NEW f, NEW e, \A x \in D \cup {e} : f[x] \in Nat, e \notin D
  PROVE  SumFunctionOnSet(f, D \cup {e}) = SumFunctionOnSet(f, D) + f[e]
<1> DEFINE E == D \cup {e}
<1>1. IsFiniteSet(E) /\ e \in E /\ E \ {e} = D
  BY FS_AddElement
<1>2. \A x \in E : f[x] \in Nat
  OBVIOUS
<1>3. SumFunctionOnSet(f, E) = f[e] + SumFunctionOnSet(f, E \ {e})
  <2> HIDE DEF E
  <2> QED
    BY <1>1, <1>2, SumElement
<1>4. SumFunctionOnSet(f, D) \in Nat /\ f[e] \in Nat
  BY SumNat
<1> QED
  BY <1>1, <1>3, <1>4

\* The sum over a set with one element more, as a fact of its own.
SumGrows(f, D, e) == SumFunctionOnSet(f, D \cup {e}) = SumFunctionOnSet(f, D) + f[e]

\* A sum grows by what the new element adds.
LEMMA SumGrowsFacts ==
  ASSUME NEW D, IsFiniteSet(D), NEW f, NEW e, \A x \in D : f[x] \in Nat, f[e] \in Nat, e \notin D
  PROVE  SumGrows(f, D, e)
<1>1. \A x \in D \cup {e} : f[x] \in Nat
  OBVIOUS
<1> QED
  BY <1>1, SumAdd DEF SumGrows

\* The sum over two sets.
LEMMA SumUnion ==
  ASSUME NEW C, IsFiniteSet(C), NEW D, IsFiniteSet(D), NEW f, \A x \in C \cup D : f[x] \in Nat
  PROVE  SumFunctionOnSet(f, C \cup D) = SumFunctionOnSet(f, C) + SumFunctionOnSet(f, D \ C)
<1> DEFINE S(x) == SumFunctionOnSet(f, x)
           K == {x \in SUBSET (D \ C) : S(C \cup x) = S(C) + S(x)}
<1>1. IsFiniteSet(D \ C)
  BY FS_Subset
<1>2. \A x \in SUBSET (D \ C) : IsFiniteSet(x) /\ IsFiniteSet(C \cup x) /\ S(x) \in Nat
  <2> SUFFICES ASSUME NEW x \in SUBSET (D \ C)
               PROVE  IsFiniteSet(x) /\ IsFiniteSet(C \cup x) /\ S(x) \in Nat
    OBVIOUS
  <2>1. IsFiniteSet(x)
    BY <1>1, FS_Subset
  <2>2. IsFiniteSet(C \cup x)
    BY <2>1, FS_Union
  <2> QED
    BY <2>1, <2>2, SumNat
<1>3. S(C) \in Nat
  BY SumNat
<1>4. {} \in K
  <2>1. C \cup {} = C /\ S({}) = 0
    BY SumEmpty
  <2>2. S(C \cup {}) = S(C) + S({})
    BY <1>3, <2>1
  <2> QED
    BY <2>2
<1>5. ASSUME NEW x \in SUBSET (D \ C), NEW e \in (D \ C) \ x, x \in K PROVE x \cup {e} \in K
  <2>1. S(C \cup x) = S(C) + S(x)
    BY <1>5
  <2>2. S(x \cup {e}) = S(x) + f[e]
    <3>1. /\ IsFiniteSet(x) /\ f[e] \in Nat /\ e \notin x
          /\ \A y \in x : f[y] \in Nat
      BY <1>2
    <3>2. SumGrows(f, x, e)
      BY <3>1, SumGrowsFacts
    <3> QED
      BY <3>2 DEF SumGrows
  <2>3. S((C \cup x) \cup {e}) = S(C \cup x) + f[e]
    <3> DEFINE P == C \cup x
    <3>1. /\ IsFiniteSet(P) /\ f[e] \in Nat /\ e \notin P
          /\ \A y \in P : f[y] \in Nat
      BY <1>2
    <3> HIDE DEF P
    <3>2. SumGrows(f, P, e)
      BY <3>1, SumGrowsFacts
    <3> QED
      BY <3>2 DEF SumGrows, P
  <2>4. (C \cup x) \cup {e} = C \cup (x \cup {e}) /\ f[e] \in Nat
    OBVIOUS
  <2>5. S(C \cup (x \cup {e})) = S(C) + S(x \cup {e})
    <3>1. S(C \cup (x \cup {e})) = S(C \cup x) + f[e]
      BY <2>3, <2>4
    <3>2. S(x) \in Nat /\ f[e] \in Nat
      BY <1>2, <2>4
    <3> HIDE DEF S
    <3> QED
      BY <1>3, <2>1, <2>2, <3>1, <3>2
  <2> QED
    BY <2>5
<1> HIDE DEF K
<1>6. D \ C \in K
  BY <1>1, <1>4, <1>5, SetInduction
<1>7. C \cup (D \ C) = C \cup D
  OBVIOUS
<1> QED
  BY <1>6, <1>7 DEF K

\* More elements do not make the sum smaller.
LEMMA SumSubset ==
  ASSUME NEW D, IsFiniteSet(D), NEW f, \A x \in D : f[x] \in Nat, NEW C \in SUBSET D
  PROVE  SumFunctionOnSet(f, C) <= SumFunctionOnSet(f, D)
<1>1. IsFiniteSet(C) /\ IsFiniteSet(D \ C) /\ C \cup D = D
  BY FS_Subset
<1>2. SumFunctionOnSet(f, C \cup D) = SumFunctionOnSet(f, C) + SumFunctionOnSet(f, D \ C)
  BY <1>1, SumUnion
<1>3. SumFunctionOnSet(f, C) \in Nat
  BY <1>1, SumNat
<1>4. SumFunctionOnSet(f, D \ C) \in Nat
  BY <1>1, SumNat
<1>5. SumFunctionOnSet(f, D) = SumFunctionOnSet(f, C) + SumFunctionOnSet(f, D \ C)
  BY <1>1, <1>2
<1> QED
  BY <1>3, <1>4, <1>5

\* Functions that agree on a set have the same sum over it.
LEMMA SumSame ==
  ASSUME NEW D, IsFiniteSet(D), NEW f, NEW g, \A x \in D : f[x] \in Nat /\ g[x] = f[x]
  PROVE  SumFunctionOnSet(g, D) = SumFunctionOnSet(f, D)
<1> DEFINE K == {x \in SUBSET D : SumFunctionOnSet(g, x) = SumFunctionOnSet(f, x)}
<1>1. {} \in K
  BY SumEmpty
<1>2. ASSUME NEW x \in SUBSET D, NEW e \in D \ x, x \in K PROVE x \cup {e} \in K
  <2>1. IsFiniteSet(x)
    BY FS_Subset
  <2>2. /\ \A y \in x : f[y] \in Nat /\ g[y] \in Nat
        /\ f[e] \in Nat /\ g[e] \in Nat /\ g[e] = f[e]
    OBVIOUS
  <2>3. SumGrows(f, x, e) /\ SumGrows(g, x, e)
    BY <2>1, <2>2, SumGrowsFacts
  <2>4. SumFunctionOnSet(g, x) = SumFunctionOnSet(f, x)
    BY <1>2
  <2>5. SumFunctionOnSet(g, x \cup {e}) = SumFunctionOnSet(f, x \cup {e})
    BY <2>2, <2>3, <2>4 DEF SumGrows
  <2> QED
    BY <2>5
<1> HIDE DEF K
<1>3. D \in K
  BY <1>1, <1>2, SetInduction
<1> QED
  BY <1>3 DEF K

\* A sum of terms of at most c.
LEMMA SumAtMost ==
  ASSUME NEW D, IsFiniteSet(D), NEW f, NEW c \in Nat, \A x \in D : f[x] \in Nat /\ f[x] <= c
  PROVE  SumFunctionOnSet(f, D) <= Cardinality(D) * c
<1> DEFINE K == {x \in SUBSET D : SumFunctionOnSet(f, x) <= Cardinality(x) * c}
<1>1. {} \in K
  <2>1. SumFunctionOnSet(f, {}) = 0 /\ Cardinality({}) = 0
    BY SumEmpty, FS_EmptySet
  <2> QED
    BY <2>1
<1>2. ASSUME NEW x \in SUBSET D, NEW e \in D \ x, x \in K PROVE x \cup {e} \in K
  <2>1. IsFiniteSet(x)
    BY FS_Subset
  <2>2. SumFunctionOnSet(f, x \cup {e}) = SumFunctionOnSet(f, x) + f[e]
    BY <2>1, SumAdd
  <2>3. Cardinality(x \cup {e}) = Cardinality(x) + 1
    BY <2>1, FS_AddElement
  <2>4. PICK k \in Nat : k = Cardinality(x)
    BY <2>1, FS_CardinalityType
  <2>5. PICK s \in Nat : s = SumFunctionOnSet(f, x)
    BY <2>1, SumNat
  <2>6. s <= k * c
    BY <1>2, <2>4, <2>5
  <2>7. PICK m \in Nat : m = f[e] /\ m <= c
    OBVIOUS
  <2>8. s + m <= (k + 1) * c
    <3>1. (k + 1) * c = k * c + c /\ k * c \in Nat
      OBVIOUS
    <3> QED
      BY <2>6, <2>7, <3>1
  <2> QED
    BY <2>2, <2>3, <2>4, <2>5, <2>7, <2>8
<1> HIDE DEF K
<1>3. D \in K
  BY <1>1, <1>2, SetInduction
<1> QED
  BY <1>3 DEF K

\* The values a function takes on a finite set are finitely many.
LEMMA ImageFinite ==
  ASSUME NEW D, IsFiniteSet(D), NEW f
  PROVE  IsFiniteSet({f[x] : x \in D})
<1> DEFINE K == {x \in SUBSET D : IsFiniteSet({f[y] : y \in x})}
<1>1. {} \in K
  <2>1. {f[y] : y \in {}} = {}
    OBVIOUS
  <2> QED
    BY <2>1, FS_EmptySet
<1>2. ASSUME NEW x \in SUBSET D, NEW e \in D \ x, x \in K PROVE x \cup {e} \in K
  <2>1. {f[y] : y \in x \cup {e}} = {f[y] : y \in x} \cup {f[e]}
    OBVIOUS
  <2>2. IsFiniteSet({f[y] : y \in x})
    BY <1>2
  <2>3. IsFiniteSet({f[y] : y \in x} \cup {f[e]})
    BY <2>2, FS_AddElement
  <2> QED
    BY <2>1, <2>3
<1> HIDE DEF K
<1>3. D \in K
  BY <1>1, <1>2, SetInduction
<1> QED
  BY <1>3 DEF K

\* The largest of finitely many numbers.
LEMMA MaxFacts ==
  ASSUME NEW D, IsFiniteSet(D), D # {}, \A x \in D : x \in Nat
  PROVE  Max(D) \in Nat /\ \A x \in D : x <= Max(D)
<1> DEFINE K == {x \in SUBSET D : x # {} => \E m \in x : \A y \in x : m >= y}
<1>1. {} \in K
  OBVIOUS
<1>2. ASSUME NEW x \in SUBSET D, NEW e \in D \ x, x \in K PROVE x \cup {e} \in K
  <2> SUFFICES \E m \in x \cup {e} : \A y \in x \cup {e} : m >= y
    OBVIOUS
  <2>1. CASE x = {}
    BY <2>1
  <2>2. CASE x # {}
    <3>1. PICK m \in x : \A y \in x : m >= y
      BY <1>2, <2>2
    <3>2. m \in Nat /\ e \in Nat /\ \A y \in x : y \in Nat
      OBVIOUS
    <3>3. CASE m >= e
      BY <3>1, <3>3
    <3>4. CASE ~ (m >= e)
      <4>1. e >= e /\ \A y \in x : e >= y
        BY <3>1, <3>2, <3>4
      <4> QED
        BY <4>1
    <3> QED
      BY <3>3, <3>4
  <2> QED
    BY <2>1, <2>2
<1> HIDE DEF K
<1>3. D \in K
  BY <1>1, <1>2, SetInduction
<1>4. \E m \in D : \A y \in D : m >= y
  BY <1>3 DEF K
<1>5. Max(D) \in D /\ \A y \in D : Max(D) >= y
  BY <1>4 DEF Max
<1> QED
  BY <1>5

---------------------------------------------------------------------------
\* Space.

\* The bytes of some blocks and manifests.
Weight(S, M) == BytesOf(S) + ManifestBytes * Cardinality(M)

Others == Cardinality(Actors) - 1

\* What the quota may be exceeded by after k ends of the process, but for the temporary
\* files there are.
Excess(k) == Others * LargestArtifact + Others * LargestFile * k

\* What an operation may still write, once it has passed its quota check.
Awaited(o) ==
  IF o.phase \in {"block", "remove", "write", "temp"}
  THEN {o.blocks[i] : i \in o.at..Len(o.blocks)} ELSE {}

Aims(o) == IF o.phase \in Writing THEN o.of ELSE {}

Temporary == {"temp", "mtemp"}

\* They look at no more of an operation than these fields.
LEMMA SameAims ==
  ASSUME NEW o, NEW q, q.phase = o.phase, q.blocks = o.blocks, q.at = o.at, q.of = o.of
  PROVE  Awaited(q) = Awaited(o) /\ Aims(q) = Aims(o)
BY DEF Awaited, Aims

\* The temporary file of an operation is for something that is not there.
Missing(o, B, M) ==
  \/ o.phase = "temp" /\ B[o.blocks[o.at]] = "none"
  \/ o.phase = "mtemp" /\ ~ (o.of \subseteq M)

Present(B) == {b \in Blocks : B[b] # "none"}

\* What there will be when every operation has written what it may.
Coming(B, O) == Present(B) \cup UNION {Awaited(O[t]) : t \in Actors}

Due(M, O) == M \cup UNION {Aims(O[t]) : t \in Actors}

LitterBytes(F) == SumFunction([f \in F |-> f.bytes])

Final(B, M, O, F) == Weight(Coming(B, O), Due(M, O)) + LitterBytes(F)

Bounded == Final(blocks, manifests, op, litter)
             <= Quota + (IF overlapped THEN Excess(crashes) ELSE 0)

\* Without overlap there is one writer, and its temporary file is for something missing.
Solo == ~ overlapped =>
  \A t, u \in Actors : op[t].phase \in Writing /\ op[u].phase \in Writing => t = u

Fresh == ~ overlapped =>
  \A t \in Actors : op[t].phase \in Temporary => Missing(op[t], blocks, manifests)

\* When all have a temporary file, the last of them to be written was for something missing.
Apart ==
  (\A t \in Actors : op[t].phase \in Temporary) =>
     \E t \in Actors : Missing(op[t], blocks, manifests)

\* The inductive invariant of the space: what is there and what may still come.
QInv == IsFiniteSet(litter) /\ Bounded /\ Solo /\ Fresh /\ Apart

---------------------------------------------------------------------------
\* Weights.

\* There are finitely many of everything, and one actor less beside each of them.
LEMMA Finite ==
  /\ IsFiniteSet(Actors) /\ IsFiniteSet(Blocks) /\ IsFiniteSet(Artifacts)
  /\ Others \in Nat /\ \A t \in Actors : Cardinality(Actors \ {t}) = Others
<1>1. IsFiniteSet(Threads) /\ IsFiniteSet(Blocks) /\ IsFiniteSet(Artifacts)
  BY StoreAssumptions DEF StoreAssumptions
<1>2. IsFiniteSet(Actors)
  BY <1>1, FS_AddElement DEF Actors
<1>3. \A t \in Actors : Cardinality(Actors \ {t}) = Others /\ Cardinality(Actors \ {t}) \in Nat
  <2> TAKE t \in Actors
  <2>1. IsFiniteSet(Actors \ {t})
    BY <1>2, FS_RemoveElement
  <2>2. Cardinality(Actors \ {t}) \in Nat
    BY <2>1, FS_CardinalityType
  <2>3. Cardinality(Actors \ {t}) = Cardinality(Actors) - 1
    BY <1>2, FS_RemoveElement
  <2> QED
    BY <2>2, <2>3 DEF Others
<1>4. Loop \in Actors
  BY DEF Actors
<1> QED
  BY <1>1, <1>2, <1>3, <1>4

\* Blocks of some sets.
LEMMA BytesFacts ==
  /\ \A S \in SUBSET Blocks : BytesOf(S) \in Nat
  /\ \A T \in SUBSET Blocks : \A S \in SUBSET T : BytesOf(S) <= BytesOf(T)
  /\ \A S, T \in SUBSET Blocks : BytesOf(S \cup T) = BytesOf(S) + BytesOf(T \ S)
  /\ \A b \in Blocks : BytesOf({b}) = Size[b]
<1>1. \A S \in SUBSET Blocks : IsFiniteSet(S) /\ \A b \in S : Size[b] \in Nat
  BY Finite, FS_Subset, ConstantFacts
<1>2. \A S \in SUBSET Blocks : BytesOf(S) \in Nat
  BY <1>1, SumNat DEF BytesOf
<1>3. \A T \in SUBSET Blocks : \A S \in SUBSET T : BytesOf(S) <= BytesOf(T)
  BY <1>1, SumSubset DEF BytesOf
<1>4. ASSUME NEW S \in SUBSET Blocks, NEW T \in SUBSET Blocks
      PROVE  BytesOf(S \cup T) = BytesOf(S) + BytesOf(T \ S)
  <2>1. IsFiniteSet(S) /\ IsFiniteSet(T) /\ \A b \in S \cup T : Size[b] \in Nat
    BY <1>1, ConstantFacts
  <2> QED
    BY <2>1, SumUnion DEF BytesOf
<1>5. ASSUME NEW b \in Blocks PROVE BytesOf({b}) = Size[b]
  <2>1. IsFiniteSet({b}) /\ \A c \in {b} : Size[c] \in Nat
    BY <1>1
  <2>2. SumFunctionOnSet(Size, {b}) = Size[b] + SumFunctionOnSet(Size, {b} \ {b})
    BY <2>1, SumElement
  <2>3. SumFunctionOnSet(Size, {b} \ {b}) = 0
    <3>1. {b} \ {b} = {}
      OBVIOUS
    <3> QED
      BY <3>1, SumEmpty
  <2>4. Size[b] \in Nat
    BY ConstantFacts
  <2> QED
    BY <2>2, <2>3, <2>4 DEF BytesOf
<1> QED
  BY <1>2, <1>3, <1>4, <1>5

\* Sets of manifests.
LEMMA ManifestsFacts ==
  /\ \A M \in SUBSET Artifacts : ManifestBytes * Cardinality(M) \in Nat
  /\ \A N \in SUBSET Artifacts : \A M \in SUBSET N :
       ManifestBytes * Cardinality(M) <= ManifestBytes * Cardinality(N)
  /\ \A M, N \in SUBSET Artifacts :
       ManifestBytes * Cardinality(M \cup N)
         = ManifestBytes * Cardinality(M) + ManifestBytes * Cardinality(N \ M)
  /\ \A a \in Artifacts : ManifestBytes * Cardinality({a}) = ManifestBytes
<1>1. PICK m \in Nat : m = ManifestBytes
  BY ConstantFacts
<1>2. \A M \in SUBSET Artifacts : IsFiniteSet(M) /\ Cardinality(M) \in Nat
  BY Finite, FS_Subset, FS_CardinalityType
<1>3. \A M \in SUBSET Artifacts : m * Cardinality(M) \in Nat
  <2> TAKE M \in SUBSET Artifacts
  <2>1. PICK k \in Nat : k = Cardinality(M)
    BY <1>2
  <2> QED
    BY <2>1
<1>4. ASSUME NEW M \in SUBSET Artifacts, NEW N \in SUBSET Artifacts
      PROVE  m * Cardinality(M \cup N) = m * Cardinality(M) + m * Cardinality(N \ M)
  <2>1. IsFiniteSet(M) /\ IsFiniteSet(N \ M) /\ M \cap (N \ M) = {} /\ M \cup (N \ M) = M \cup N
    BY <1>2
  <2>2. Cardinality(M \cup (N \ M))
          = Cardinality(M) + Cardinality(N \ M) - Cardinality(M \cap (N \ M))
    BY <2>1, FS_Union
  <2>3. Cardinality({}) = 0
    BY FS_EmptySet
  <2>4. PICK i \in Nat, j \in Nat : i = Cardinality(M) /\ j = Cardinality(N \ M)
    BY <1>2
  <2>5. Cardinality(M \cup N) = i + j
    <3>1. /\ Cardinality(M \cap (N \ M)) = 0
          /\ Cardinality(M \cup (N \ M)) = Cardinality(M \cup N)
      BY <2>1, <2>3
    <3> QED
      BY <2>2, <2>4, <3>1
  <2>6. m * (i + j) = m * i + m * j
    OBVIOUS
  <2> QED
    BY <2>4, <2>5, <2>6
<1>5. ASSUME NEW N \in SUBSET Artifacts, NEW M \in SUBSET N
      PROVE  m * Cardinality(M) <= m * Cardinality(N)
  <2>1. M \cup N = N /\ M \in SUBSET Artifacts /\ N \ M \in SUBSET Artifacts
    OBVIOUS
  <2>2. m * Cardinality(N) = m * Cardinality(M) + m * Cardinality(N \ M)
    BY <1>4, <2>1
  <2>3. m * Cardinality(M) \in Nat /\ m * Cardinality(N \ M) \in Nat
    BY <1>3, <2>1
  <2>4. PICK x \in Nat, y \in Nat : x = m * Cardinality(M) /\ y = m * Cardinality(N \ M)
    BY <2>3
  <2> QED
    BY <2>2, <2>4
<1>6. ASSUME NEW a \in Artifacts PROVE m * Cardinality({a}) = m
  <2>1. Cardinality({a}) = 1
    BY FS_Singleton
  <2> QED
    BY <2>1
<1> QED
  BY <1>1, <1>3, <1>4, <1>5, <1>6

\* Weights are natural numbers, and less weighs no more.
LEMMA WeightFacts ==
  ASSUME NEW S \in SUBSET Blocks, NEW M \in SUBSET Artifacts
  PROVE  /\ Weight(S, M) \in Nat
         /\ \A T \in SUBSET S, N \in SUBSET M : Weight(T, N) <= Weight(S, M)
<1>1. BytesOf(S) \in Nat /\ ManifestBytes * Cardinality(M) \in Nat
  BY BytesFacts, ManifestsFacts
<1>2. ASSUME NEW T \in SUBSET S, NEW N \in SUBSET M PROVE Weight(T, N) <= Weight(S, M)
  <2>1. BytesOf(T) \in Nat /\ BytesOf(T) <= BytesOf(S)
    BY BytesFacts
  <2>2. /\ ManifestBytes * Cardinality(N) \in Nat
        /\ ManifestBytes * Cardinality(N) <= ManifestBytes * Cardinality(M)
    BY ManifestsFacts
  <2>3. PICK w \in Nat, x \in Nat, y \in Nat, z \in Nat :
           /\ w = BytesOf(T) /\ x = BytesOf(S)
           /\ y = ManifestBytes * Cardinality(N) /\ z = ManifestBytes * Cardinality(M)
    BY <1>1, <2>1, <2>2
  <2> QED
    BY <2>1, <2>2, <2>3 DEF Weight
<1>3. Weight(S, M) \in Nat
  <2>1. PICK x \in Nat, y \in Nat : x = BytesOf(S) /\ y = ManifestBytes * Cardinality(M)
    BY <1>1
  <2> QED
    BY <2>1 DEF Weight
<1> QED
  BY <1>2, <1>3

\* Added to others, some weigh what is not there already.
LEMMA WeightUnion ==
  ASSUME NEW S \in SUBSET Blocks, NEW M \in SUBSET Artifacts,
         NEW T \in SUBSET Blocks, NEW N \in SUBSET Artifacts
  PROVE  /\ Weight(S \cup T, M \cup N) = Weight(S, M) + Weight(T \ S, N \ M)
         /\ Weight(T \ S, N \ M) \in Nat /\ Weight(T \ S, N \ M) <= Weight(T, N)
<1>1. /\ BytesOf(S \cup T) = BytesOf(S) + BytesOf(T \ S)
      /\ BytesOf(S) \in Nat /\ BytesOf(T \ S) \in Nat
  BY BytesFacts
<1>2. /\ ManifestBytes * Cardinality(M \cup N)
           = ManifestBytes * Cardinality(M) + ManifestBytes * Cardinality(N \ M)
      /\ ManifestBytes * Cardinality(M) \in Nat /\ ManifestBytes * Cardinality(N \ M) \in Nat
  BY ManifestsFacts
<1>3. PICK w \in Nat, x \in Nat, y \in Nat, z \in Nat :
         /\ w = BytesOf(S) /\ x = BytesOf(T \ S)
         /\ y = ManifestBytes * Cardinality(M) /\ z = ManifestBytes * Cardinality(N \ M)
  BY <1>1, <1>2
<1>4. Weight(S \cup T, M \cup N) = Weight(S, M) + Weight(T \ S, N \ M)
  BY <1>1, <1>2, <1>3 DEF Weight
<1>5. T \ S \in SUBSET T /\ T \ S \in SUBSET Blocks /\ N \ M \in SUBSET N /\ N \ M \in SUBSET Artifacts
  OBVIOUS
<1> QED
  BY <1>4, <1>5, WeightFacts

\* What each of some actors adds is at most c.
LEMMA WeightSpread ==
  ASSUME NEW V, IsFiniteSet(V), NEW A, NEW Z, NEW c \in Nat,
         \A u \in V : A[u] \in SUBSET Blocks /\ Z[u] \in SUBSET Artifacts /\ Weight(A[u], Z[u]) <= c,
         NEW S \in SUBSET Blocks, NEW M \in SUBSET Artifacts
  PROVE  Weight(S \cup UNION {A[u] : u \in V}, M \cup UNION {Z[u] : u \in V})
           <= Weight(S, M) + Cardinality(V) * c
<1> DEFINE B(x) == S \cup UNION {A[u] : u \in x}
           N(x) == M \cup UNION {Z[u] : u \in x}
           K == {x \in SUBSET V : Weight(B(x), N(x)) <= Weight(S, M) + Cardinality(x) * c}
<1>1. Weight(S, M) \in Nat
  BY WeightFacts
<1>2. {} \in K
  <2>1. B({}) = S /\ N({}) = M
    OBVIOUS
  <2>2. Cardinality({}) * c = 0
    BY FS_EmptySet
  <2>3. Weight(B({}), N({})) = Weight(S, M)
    BY <2>1
  <2>4. Weight(S, M) <= Weight(S, M) + Cardinality({}) * c
    BY <1>1, <2>2
  <2> HIDE DEF B, N
  <2> QED
    BY <2>3, <2>4
<1>3. ASSUME NEW x \in SUBSET V, NEW e \in V \ x, x \in K PROVE x \cup {e} \in K
  <2>1. IsFiniteSet(x)
    BY FS_Subset
  <2>2. B(x) \in SUBSET Blocks /\ N(x) \in SUBSET Artifacts
    OBVIOUS
  <2>3. A[e] \in SUBSET Blocks /\ Z[e] \in SUBSET Artifacts
    OBVIOUS
  <2>4. B(x \cup {e}) = B(x) \cup A[e] /\ N(x \cup {e}) = N(x) \cup Z[e]
    OBVIOUS
  <2>5. /\ Weight(B(x) \cup A[e], N(x) \cup Z[e]) = Weight(B(x), N(x)) + Weight(A[e] \ B(x), Z[e] \ N(x))
        /\ Weight(B(x), N(x)) \in Nat
        /\ Weight(A[e] \ B(x), Z[e] \ N(x)) \in Nat
        /\ Weight(A[e] \ B(x), Z[e] \ N(x)) <= Weight(A[e], Z[e])
    <3> DEFINE p == B(x)
               q == N(x)
    <3>1. p \in SUBSET Blocks /\ q \in SUBSET Artifacts
      BY <2>2
    <3> HIDE DEF B, N, p, q
    <3>2. Weight(p, q) \in Nat
      BY <3>1, WeightFacts
    <3>3. /\ Weight(p \cup A[e], q \cup Z[e]) = Weight(p, q) + Weight(A[e] \ p, Z[e] \ q)
          /\ Weight(A[e] \ p, Z[e] \ q) \in Nat
          /\ Weight(A[e] \ p, Z[e] \ q) <= Weight(A[e], Z[e])
      BY <2>3, <3>1, WeightUnion
    <3> QED
      BY <3>2, <3>3 DEF p, q
  <2>6. Weight(A[e], Z[e]) \in Nat
    BY <2>3, WeightFacts
  <2>7. Weight(A[e], Z[e]) <= c
    OBVIOUS
  <2>8. Cardinality(x \cup {e}) = Cardinality(x) + 1
    BY <2>1, FS_AddElement
  <2>9. PICK k \in Nat : k = Cardinality(x)
    BY <2>1, FS_CardinalityType
  <2>10. (k + 1) * c = k * c + c /\ k * c \in Nat
    OBVIOUS
  <2>11. Weight(B(x), N(x)) <= Weight(S, M) + k * c
    BY <1>3, <2>9
  <2>12. Weight(B(x \cup {e}), N(x \cup {e})) <= Weight(S, M) + (k + 1) * c
    <3>1. PICK p \in Nat : p = k * c
      BY <2>10
    <3>2. Weight(B(x \cup {e}), N(x \cup {e})) = Weight(B(x), N(x)) + Weight(A[e] \ B(x), Z[e] \ N(x))
      BY <2>4, <2>5
    <3>3. PICK i \in Nat, j \in Nat, l \in Nat :
            i = Weight(B(x), N(x)) /\ j = Weight(A[e] \ B(x), Z[e] \ N(x)) /\ l = Weight(S, M)
      BY <1>1, <2>5
    <3>4. j <= c
      BY <2>5, <2>6, <2>7, <3>3
    <3>5. i <= l + p
      BY <2>11, <3>1, <3>3
    <3>6. (k + 1) * c = p + c
      BY <2>10, <3>1
    <3>7. i + j <= l + (p + c)
      BY <3>4, <3>5
    <3> HIDE DEF B, N
    <3> QED
      BY <3>2, <3>3, <3>6, <3>7
  <2> QED
    BY <2>8, <2>9, <2>12
<1> HIDE DEF K
<1>4. V \in K
  BY <1>2, <1>3, SetInduction
<1> QED
  BY <1>4 DEF K

\* The largest artifact and the largest file.
LEMMA LargestFacts ==
  /\ LargestArtifact \in Nat
  /\ \A a \in Artifacts : Weight(Range(Content[a]), {a}) <= LargestArtifact
  /\ LargestFile \in Nat /\ ManifestBytes <= LargestFile
  /\ \A b \in Blocks : Size[b] <= LargestFile
<1>1. \A a \in Artifacts : Range(Content[a]) \subseteq Blocks
  BY ConstantFacts DEF Range
<1>2. /\ LargestArtifact \in Nat
      /\ \A a \in Artifacts : BytesOf(Range(Content[a])) + ManifestBytes <= LargestArtifact
  <2> DEFINE f == [a \in Artifacts |-> BytesOf(Range(Content[a])) + ManifestBytes]
             D == {f[a] : a \in Artifacts}
  <2>1. D = {BytesOf(Range(Content[a])) + ManifestBytes : a \in Artifacts}
    OBVIOUS
  <2>2. \A a \in Artifacts : BytesOf(Range(Content[a])) \in Nat
    BY <1>1, BytesFacts
  <2>3. \A a \in Artifacts : f[a] \in Nat
    BY <2>2, ConstantFacts
  <2>4. D # {} /\ \A x \in D : x \in Nat
    BY <2>3, StoreAssumptions DEF StoreAssumptions
  <2>5. IsFiniteSet(D)
    <3> HIDE DEF f
    <3> QED
      BY Finite, ImageFinite
  <2>6. Max(D) \in Nat /\ \A x \in D : x <= Max(D)
    <3> HIDE DEF D
    <3> QED
      BY <2>4, <2>5, MaxFacts
  <2>7. LargestArtifact = Max(D)
    BY <2>1 DEF LargestArtifact
  <2> HIDE DEF D
  <2>8. \A a \in Artifacts : f[a] \in D
    BY DEF D
  <2> QED
    BY <2>6, <2>7, <2>8
<1>3. \A a \in Artifacts : Weight(Range(Content[a]), {a}) = BytesOf(Range(Content[a])) + ManifestBytes
  BY ManifestsFacts DEF Weight
<1>4. /\ LargestFile \in Nat /\ ManifestBytes <= LargestFile
      /\ \A b \in Blocks : Size[b] <= LargestFile
  <2> DEFINE D == {Size[b] : b \in Blocks} \cup {ManifestBytes}
  <2>1. D # {} /\ \A x \in D : x \in Nat
    BY ConstantFacts
  <2>2. IsFiniteSet({Size[b] : b \in Blocks})
    BY Finite, ImageFinite
  <2>3. IsFiniteSet(D)
    BY <2>2, FS_AddElement
  <2>4. LargestFile = Max(D)
    BY DEF LargestFile
  <2>5. Max(D) \in Nat /\ \A x \in D : x <= Max(D)
    <3> HIDE DEF D
    <3> QED
      BY <2>1, <2>3, MaxFacts
  <2>6. ManifestBytes \in D /\ \A b \in Blocks : Size[b] \in D
    OBVIOUS
  <2> HIDE DEF D
  <2> QED
    BY <2>4, <2>5, <2>6
<1> QED
  BY <1>2, <1>3, <1>4

\* The excess.
LEMMA ExcessFacts ==
  /\ Others * LargestArtifact \in Nat /\ Others * LargestFile \in Nat
  /\ \A k \in Nat : /\ Excess(k) \in Nat /\ Others * LargestArtifact <= Excess(k)
                    /\ Excess(k + 1) = Excess(k) + Others * LargestFile
<1>1. PICK n \in Nat, x \in Nat, y \in Nat :
        n = Others /\ x = LargestArtifact /\ y = LargestFile
  BY Finite, LargestFacts
<1>2. n * x \in Nat /\ n * y \in Nat
  OBVIOUS
<1>3. PICK p \in Nat, q \in Nat : p = n * x /\ q = n * y
  BY <1>2
<1>4. \A k \in Nat : q * k \in Nat /\ q * (k + 1) = q * k + q
  OBVIOUS
<1>5. \A k \in Nat : Excess(k) = p + q * k
  BY <1>1, <1>3 DEF Excess
<1>6. ASSUME NEW k \in Nat
      PROVE  p + q * k \in Nat /\ p <= p + q * k /\ p + q * (k + 1) = (p + q * k) + q
  <2>1. PICK r \in Nat : r = q * k /\ q * (k + 1) = r + q
    BY <1>4
  <2> QED
    BY <2>1
<1>7. \A k \in Nat : k + 1 \in Nat
  OBVIOUS
<1> QED
  BY <1>1, <1>3, <1>5, <1>6, <1>7

---------------------------------------------------------------------------
\* Writers.

\* No operation, or one that only reads, has nothing to write.
LEMMA NotWriting ==
  ASSUME NEW o, o.phase \notin Writing
  PROVE  Awaited(o) = {} /\ Aims(o) = {} /\ TempBytes(o) = 0 /\ o.phase \notin Temporary
BY DEF Awaited, Aims, TempBytes, Writing, Temporary

\* Nothing weighs nothing.
LEMMA WeightNothing == Weight({}, {}) = 0
<1>1. BytesOf({}) = 0 /\ Cardinality({}) = 0 /\ ManifestBytes \in Nat
  BY SumEmpty, FS_EmptySet, ConstantFacts DEF BytesOf
<1> QED
  BY <1>1 DEF Weight

\* What a writer adds is of one artifact.
LEMMA WriterFacts ==
  ASSUME NEW o, NEW B, NEW E, Sound(o, B, E)
  PROVE  /\ Awaited(o) \in SUBSET Blocks /\ Aims(o) \in SUBSET Artifacts
         /\ Weight(Awaited(o), Aims(o)) <= LargestArtifact
         /\ Weight(Awaited(o), Aims(o)) \in Nat
<1>1. o \in Operation /\ o.blocks \in Seq(Blocks) /\ o.at \in Nat /\ o.at >= 1 /\ o.of \in SUBSET Artifacts
  BY DEF Sound, Shaped, Operation
<1>2. Awaited(o) \subseteq Range(o.blocks) /\ Range(o.blocks) \subseteq Blocks
  <2>1. Range(o.blocks) \subseteq Blocks
    BY <1>1 DEF Range
  <2>2. \A i \in o.at..Len(o.blocks) : i \in DOMAIN o.blocks
    BY <1>1
  <2> QED
    BY <2>1, <2>2 DEF Awaited, Range
<1>3. Aims(o) \subseteq o.of
  BY DEF Aims
<1>4. CASE o.phase \in Writing
  <2>1. \E a \in Artifacts : Awaited(o) \subseteq Range(Content[a]) /\ Aims(o) \subseteq {a}
    <3>1. o.kind \in {"import", "store", "commit"}
      BY <1>1, <1>4, PhaseFacts DEF Sound, Operation, Kinds, Writing
    <3>2. CASE o.kind = "store"
      <4>1. o.of = {} /\ Len(o.blocks) = 1
        BY <3>2 DEF Sound, Shaped
      <4>2. 1 \in DOMAIN o.blocks /\ o.blocks[1] \in Blocks
        BY <1>1, <4>1
      <4>3. Range(o.blocks) = {o.blocks[1]}
        <5>1. DOMAIN o.blocks = {1}
          BY <1>1, <4>1
        <5> QED
          BY <5>1 DEF Range
      <4>4. PICK a \in Artifacts : o.blocks[1] \in Range(Content[a])
        BY <4>2, StoreAssumptions DEF StoreAssumptions
      <4> QED
        BY <1>2, <1>3, <4>1, <4>3, <4>4
    <3>3. CASE o.kind # "store"
      <4>1. PICK a \in Artifacts : o.of = {a} /\ o.blocks = Content[a]
        BY <3>1, <3>3 DEF Sound, Shaped
      <4> QED
        BY <1>2, <1>3, <4>1
    <3> QED
      BY <3>2, <3>3
  <2>2. PICK a \in Artifacts : Awaited(o) \subseteq Range(Content[a]) /\ Aims(o) \subseteq {a}
    BY <2>1
  <2>3. Range(Content[a]) \in SUBSET Blocks
    BY ConstantFacts DEF Range
  <2>4. Weight(Awaited(o), Aims(o)) <= Weight(Range(Content[a]), {a})
    BY <2>2, <2>3, WeightFacts
  <2>5. Weight(Awaited(o), Aims(o)) \in Nat /\ Weight(Range(Content[a]), {a}) \in Nat
    BY <1>1, <1>2, <1>3, <2>3, WeightFacts
  <2>6. Weight(Range(Content[a]), {a}) <= LargestArtifact /\ LargestArtifact \in Nat
    BY LargestFacts
  <2> QED
    BY <1>1, <1>2, <1>3, <2>4, <2>5, <2>6
<1>5. CASE o.phase \notin Writing
  <2>1. Awaited(o) = {} /\ Aims(o) = {}
    BY <1>5, NotWriting
  <2>2. Weight({}, {}) = 0
    BY WeightNothing
  <2>3. LargestArtifact \in Nat
    BY LargestFacts
  <2> QED
    BY <2>1, <2>2, <2>3
<1> QED
  BY <1>4, <1>5

\* What will be there consists of blocks and artifacts.
LEMMA ComingTyped ==
  ASSUME NEW B, NEW E, NEW M \in SUBSET Artifacts, NEW O, \A t \in Actors : Sound(O[t], B, E)
  PROVE  /\ Coming(B, O) \in SUBSET Blocks /\ Due(M, O) \in SUBSET Artifacts
         /\ Present(B) \in SUBSET Blocks
<1>1. \A t \in Actors : Awaited(O[t]) \in SUBSET Blocks /\ Aims(O[t]) \in SUBSET Artifacts
  BY WriterFacts
<1> QED
  BY <1>1 DEF Coming, Due, Present

\* A temporary file is at most the largest file, and is part of what is awaited if it is
\* for something missing.
LEMMA TempFacts ==
  ASSUME NEW o, NEW B, NEW E, Sound(o, B, E), NEW M \in SUBSET Artifacts
  PROVE  /\ TempBytes(o) \in Nat /\ TempBytes(o) <= LargestFile
         /\ Missing(o, B, M) =>
              Weight(Present(B), M) + TempBytes(o)
                <= Weight(Present(B) \cup Awaited(o), M \cup Aims(o))
<1>1. /\ o \in Operation /\ o.blocks \in Seq(Blocks) /\ o.at \in Nat /\ o.at >= 1
      /\ o.of \in SUBSET Artifacts
  BY DEF Sound, Shaped, Operation
<1>2. Awaited(o) \in SUBSET Blocks /\ Aims(o) \in SUBSET Artifacts /\ Present(B) \in SUBSET Blocks
  BY WriterFacts DEF Present
<1>3. CASE o.phase = "temp"
  <2> DEFINE b == o.blocks[o.at]
  <2>1. o.at <= Len(o.blocks)
    BY <1>3 DEF Sound, Shaped
  <2>2. b \in Blocks /\ b \in Awaited(o)
    BY <1>1, <1>3, <2>1 DEF Awaited
  <2>3. TempBytes(o) = Size[b] /\ Size[b] \in Nat /\ Size[b] <= LargestFile
    BY <1>3, <2>2, ConstantFacts, LargestFacts DEF TempBytes
  <2>4. ASSUME Missing(o, B, M)
        PROVE  Weight(Present(B), M) + TempBytes(o)
                 <= Weight(Present(B) \cup Awaited(o), M \cup Aims(o))
    <3>1. b \notin Present(B)
      BY <1>3, <2>4 DEF Missing, Present
    <3> HIDE DEF b
    <3>2. Weight(Present(B) \cup {b}, M \cup {}) = Weight(Present(B), M) + Weight({b} \ Present(B), {} \ M)
      <4> DEFINE p == {b}
                 q == {}
                 r == Present(B)
      <4>1. p \in SUBSET Blocks /\ q \in SUBSET Artifacts /\ M \in SUBSET Artifacts /\ r \in SUBSET Blocks
        BY <1>2, <2>2
      <4> HIDE DEF p, q, r
      <4>2. /\ Weight(r \cup p, M \cup q) = Weight(r, M) + Weight(p \ r, q \ M)
            /\ Weight(p \ r, q \ M) \in Nat /\ Weight(p \ r, q \ M) <= Weight(p, q)
        BY <4>1, WeightUnion, Zenon
      <4> QED
        BY <4>2 DEF p, q, r
    <3>3. {b} \ Present(B) = {b} /\ {} \ M = {} /\ M \cup {} = M
      BY <3>1
    <3>4. Weight({b}, {}) = Size[b]
      <4>1. ManifestBytes * Cardinality({}) = 0
        BY FS_EmptySet, ConstantFacts
      <4>2. BytesOf({b}) = Size[b]
        BY <2>2, BytesFacts
      <4> QED
        BY <2>3, <4>1, <4>2 DEF Weight
    <3>5. Weight(Present(B) \cup {b}, M) = Weight(Present(B), M) + TempBytes(o)
      BY <2>3, <3>2, <3>3, <3>4
    <3>6. /\ Present(B) \cup {b} \in SUBSET (Present(B) \cup Awaited(o))
          /\ M \in SUBSET (M \cup Aims(o))
          /\ Present(B) \cup Awaited(o) \in SUBSET Blocks /\ M \cup Aims(o) \in SUBSET Artifacts
      BY <1>2, <2>2
    <3>7. Weight(Present(B) \cup {b}, M) <= Weight(Present(B) \cup Awaited(o), M \cup Aims(o))
      BY <3>6, WeightFacts
    <3> QED
      BY <3>5, <3>7
  <2> QED
    BY <2>3, <2>4
<1>4. CASE o.phase = "mtemp"
  <2>1. TempBytes(o) = ManifestBytes /\ ManifestBytes \in Nat /\ ManifestBytes <= LargestFile
    BY <1>4, ConstantFacts, LargestFacts DEF TempBytes
  <2>2. Aims(o) = o.of
    BY <1>4 DEF Aims, Writing
  <2>3. ASSUME Missing(o, B, M)
        PROVE  Weight(Present(B), M) + TempBytes(o)
                 <= Weight(Present(B) \cup Awaited(o), M \cup Aims(o))
    <3>1. PICK a \in o.of : a \notin M
      BY <1>4, <2>3 DEF Missing
    <3>2. Weight(Present(B) \cup {}, M \cup {a}) = Weight(Present(B), M) + Weight({} \ Present(B), {a} \ M)
      <4> DEFINE p == {}
                 q == {a}
                 r == Present(B)
      <4>1. p \in SUBSET Blocks /\ q \in SUBSET Artifacts /\ M \in SUBSET Artifacts /\ r \in SUBSET Blocks
        BY <1>1, <1>2
      <4> HIDE DEF p, q, r
      <4>2. /\ Weight(r \cup p, M \cup q) = Weight(r, M) + Weight(p \ r, q \ M)
            /\ Weight(p \ r, q \ M) \in Nat /\ Weight(p \ r, q \ M) <= Weight(p, q)
        BY <4>1, WeightUnion, Zenon
      <4> QED
        BY <4>2 DEF p, q, r
    <3>3. {} \ Present(B) = {} /\ {a} \ M = {a} /\ Present(B) \cup {} = Present(B)
      BY <3>1
    <3>4. Weight({}, {a}) = ManifestBytes
      <4>1. ManifestBytes * Cardinality({a}) = ManifestBytes
        BY <1>1, ManifestsFacts
      <4>2. BytesOf({}) = 0
        BY SumEmpty DEF BytesOf
      <4> QED
        BY <2>1, <4>1, <4>2 DEF Weight
    <3>5. Weight(Present(B), M \cup {a}) = Weight(Present(B), M) + TempBytes(o)
      BY <2>1, <3>2, <3>3, <3>4
    <3>6. /\ Present(B) \in SUBSET (Present(B) \cup Awaited(o))
          /\ M \cup {a} \in SUBSET (M \cup Aims(o))
          /\ Present(B) \cup Awaited(o) \in SUBSET Blocks /\ M \cup Aims(o) \in SUBSET Artifacts
      BY <1>2, <2>2
    <3>7. Weight(Present(B), M \cup {a}) <= Weight(Present(B) \cup Awaited(o), M \cup Aims(o))
      BY <3>6, WeightFacts
    <3> QED
      BY <3>5, <3>7
  <2> QED
    BY <2>1, <2>3
<1>5. CASE o.phase \notin {"temp", "mtemp"}
  BY <1>5, LargestFacts DEF TempBytes, Missing
<1> QED
  BY <1>3, <1>4, <1>5

\* The litter has a size.
LEMMA LitterNat ==
  ASSUME NEW F \in SUBSET TempFile, IsFiniteSet(F)
  PROVE  LitterBytes(F) \in Nat
<1> DEFINE f == [x \in F |-> x.bytes]
<1>1. DOMAIN f = F /\ \A x \in F : f[x] \in Nat
  BY DEF TempFile
<1> HIDE DEF f
<1>2. SumFunctionOnSet(f, F) \in Nat
  BY <1>1, SumNat
<1> QED
  BY <1>1, <1>2 DEF LitterBytes, SumFunction, f

\* The space in use, in these terms.
LEMMA UsedIs ==
  ASSUME IInv
  PROVE  LET f == [t \in Actors |-> TempBytes(op[t])]
         IN  /\ Used = Weight(Present(blocks), manifests) + LitterBytes(litter)
                         + SumFunctionOnSet(f, Actors)
             /\ \A t \in Actors : f[t] = TempBytes(op[t]) /\ f[t] \in Nat /\ f[t] <= LargestFile
<1> DEFINE f == [t \in Actors |-> TempBytes(op[t])]
<1>1. manifests \in SUBSET Artifacts
  BY DEF IInv, Typed
<1>2. \A t \in Actors : TempBytes(op[t]) \in Nat /\ TempBytes(op[t]) <= LargestFile
  BY <1>1, TempFacts DEF IInv
<1>3. SumFunction(f) = SumFunctionOnSet(f, Actors)
  BY DEF SumFunction
<1>4. Used = (BytesOf(Present(blocks)) + ManifestBytes * Cardinality(manifests))
               + LitterBytes(litter) + SumFunctionOnSet(f, Actors)
  BY <1>3 DEF Used, Present, LitterBytes
<1> QED
  BY <1>2, <1>4 DEF Weight

\* The space in use is a natural number.
LEMMA UsedNat ==
  ASSUME IInv, QInv
  PROVE  Used \in Nat
<1> DEFINE f == [t \in Actors |-> TempBytes(op[t])]
           W == Weight(Present(blocks), manifests)
<1>1. /\ Used = W + LitterBytes(litter) + SumFunctionOnSet(f, Actors)
      /\ \A t \in Actors : f[t] \in Nat
  BY UsedIs
<1>2. W \in Nat
  <2>1. Present(blocks) \in SUBSET Blocks /\ manifests \in SUBSET Artifacts
    BY DEF Present, IInv, Typed
  <2> QED
    BY <2>1, WeightFacts
<1>3. LitterBytes(litter) \in Nat
  BY LitterNat DEF QInv, IInv, Typed
<1> HIDE DEF f, W
<1>4. SumFunctionOnSet(f, Actors) \in Nat
  BY <1>1, Finite, SumNat
<1> QED
  BY <1>1, <1>2, <1>3, <1>4

\* So is the space that will be in use.
LEMMA FinalNat ==
  ASSUME IInv, QInv
  PROVE  Final(blocks, manifests, op, litter) \in Nat
<1>1. /\ manifests \in SUBSET Artifacts /\ litter \in SUBSET TempFile
      /\ \A t \in Actors : Sound(op[t], blocks, excused)
  BY DEF IInv, Typed
<1>2. Coming(blocks, op) \in SUBSET Blocks /\ Due(manifests, op) \in SUBSET Artifacts
  BY <1>1, ComingTyped
<1>3. Weight(Coming(blocks, op), Due(manifests, op)) \in Nat
  BY <1>2, WeightFacts
<1>4. LitterBytes(litter) \in Nat
  BY <1>1, LitterNat DEF QInv
<1> QED
  BY <1>3, <1>4 DEF Final

\* What is used is part of what will be, but for the temporary files for what is there
\* already or has another.
LEMMA UsedBound ==
  ASSUME IInv, QInv
  PROVE  Used <= Final(blocks, manifests, op, litter)
                   + (IF overlapped THEN Others * LargestFile ELSE 0)
<1> DEFINE f == [t \in Actors |-> TempBytes(op[t])]
           W == Weight(Present(blocks), manifests)
           G == Weight(Coming(blocks, op), Due(manifests, op))
           T == SumFunctionOnSet(f, Actors)
<1>1. Used = W + LitterBytes(litter) + T
  BY UsedIs
<1>2. \A t \in Actors : f[t] = TempBytes(op[t]) /\ f[t] \in Nat /\ f[t] <= LargestFile
  BY UsedIs
<1>3. /\ manifests \in SUBSET Artifacts /\ litter \in SUBSET TempFile
      /\ \A t \in Actors : Sound(op[t], blocks, excused)
  BY DEF IInv, Typed
<1>4. /\ Coming(blocks, op) \in SUBSET Blocks /\ Due(manifests, op) \in SUBSET Artifacts
      /\ Present(blocks) \in SUBSET Blocks
  BY <1>3, ComingTyped
<1>5. W \in Nat /\ G \in Nat /\ LitterBytes(litter) \in Nat
  BY <1>3, <1>4, WeightFacts, LitterNat DEF QInv
<1>6. PICK t \in Actors :
        /\ Missing(op[t], blocks, manifests) \/ f[t] = 0
        /\ ~ overlapped => \A u \in Actors \ {t} : op[u].phase \notin Writing
  <2>1. CASE \E u \in Actors : Missing(op[u], blocks, manifests)
    <3>1. PICK u \in Actors : Missing(op[u], blocks, manifests)
      BY <2>1
    <3>2. op[u].phase \in Writing
      BY <3>1 DEF Missing, Writing
    <3> QED
      BY <3>1, <3>2 DEF QInv, Solo
  <2>2. CASE ~ \E u \in Actors : Missing(op[u], blocks, manifests)
    <3>1. PICK v \in Actors : op[v].phase \notin Temporary
      BY <2>2 DEF QInv, Apart
    <3>2. \A u \in Actors : op[u].phase \notin Temporary => f[u] = 0
      BY <1>2 DEF TempBytes, Temporary
    <3>3. CASE overlapped
      BY <3>1, <3>2, <3>3
    <3>4. CASE ~ overlapped
      <4>1. \A u \in Actors : f[u] = 0
        BY <2>2, <3>2, <3>4 DEF QInv, Fresh
      <4>2. CASE \E u \in Actors : op[u].phase \in Writing
        BY <4>1, <4>2, <3>4 DEF QInv, Solo
      <4>3. CASE ~ \E u \in Actors : op[u].phase \in Writing
        BY <3>1, <4>1, <4>3
      <4> QED
        BY <4>2, <4>3
    <3> QED
      BY <3>3, <3>4
  <2> QED
    BY <2>1, <2>2
<1> DEFINE R == SumFunctionOnSet(f, Actors \ {t})
           x == IF overlapped THEN Others * LargestFile ELSE 0
<1>7. T = f[t] + R
  <2> HIDE DEF f
  <2> QED
    BY <1>2, Finite, SumElement
<1>8. IsFiniteSet(Actors \ {t}) /\ Cardinality(Actors \ {t}) = Others
  BY Finite, FS_RemoveElement
<1>9. R \in Nat /\ R <= x
  <2>1. R \in Nat
    <3> HIDE DEF f
    <3> QED
      BY <1>2, <1>8, SumNat
  <2>2. CASE overlapped
    <3>1. \A u \in Actors \ {t} : f[u] \in Nat /\ f[u] <= LargestFile
      BY <1>2
    <3>2. R <= Cardinality(Actors \ {t}) * LargestFile
      <4> HIDE DEF f
      <4> QED
        BY <1>8, <3>1, LargestFacts, SumAtMost
    <3> QED
      BY <1>8, <2>1, <2>2, <3>2
  <2>3. CASE ~ overlapped
    <3>1. \A u \in Actors \ {t} : f[u] \in Nat /\ f[u] <= 0
      BY <1>2, <1>6, <2>3, NotWriting
    <3>2. R <= Cardinality(Actors \ {t}) * 0
      <4> HIDE DEF f
      <4> QED
        BY <1>8, <3>1, SumAtMost
    <3>3. Cardinality(Actors \ {t}) * 0 = 0
      BY <1>8, Finite
    <3> QED
      BY <2>1, <2>3, <3>2, <3>3
  <2> QED
    BY <2>1, <2>2, <2>3
<1>10. W + f[t] <= G
  <2>1. CASE Missing(op[t], blocks, manifests)
    <3>1. W + TempBytes(op[t]) <= Weight(Present(blocks) \cup Awaited(op[t]), manifests \cup Aims(op[t]))
      <4>1. Sound(op[t], blocks, excused)
        BY <1>3
      <4>2. /\ Present(blocks) \cup Awaited(op[t]) \in SUBSET Blocks
            /\ manifests \cup Aims(op[t]) \in SUBSET Artifacts
        BY <1>3, <1>4, <4>1, WriterFacts
      <4>3. Weight(Present(blocks) \cup Awaited(op[t]), manifests \cup Aims(op[t])) \in Nat
        BY <4>2, WeightFacts
      <4> QED
        BY <1>3, <2>1, <4>1, <4>3, TempFacts
    <3>2. /\ Present(blocks) \cup Awaited(op[t]) \in SUBSET Coming(blocks, op)
          /\ manifests \cup Aims(op[t]) \in SUBSET Due(manifests, op)
      BY DEF Coming, Due
    <3>3. Weight(Present(blocks) \cup Awaited(op[t]), manifests \cup Aims(op[t])) <= G
      BY <1>4, <3>2, WeightFacts
    <3>4. Weight(Present(blocks) \cup Awaited(op[t]), manifests \cup Aims(op[t])) \in Nat
      <4>1. /\ Present(blocks) \cup Awaited(op[t]) \in SUBSET Blocks
            /\ manifests \cup Aims(op[t]) \in SUBSET Artifacts
        BY <1>4, <3>2
      <4> QED
        BY <4>1, WeightFacts
    <3>5. f[t] = TempBytes(op[t]) /\ f[t] \in Nat
      BY <1>2
    <3> HIDE DEF W, G, f
    <3> QED
      BY <1>5, <3>1, <3>3, <3>4, <3>5
  <2>2. CASE f[t] = 0
    <3>1. Present(blocks) \in SUBSET Coming(blocks, op) /\ manifests \in SUBSET Due(manifests, op)
      BY DEF Coming, Due
    <3>2. W <= G
      BY <1>4, <3>1, WeightFacts
    <3> HIDE DEF W, G, f
    <3> QED
      BY <1>5, <2>2, <3>2
  <2> QED
    BY <1>6, <2>1, <2>2
<1>11. Final(blocks, manifests, op, litter) = G + LitterBytes(litter)
  BY DEF Final
<1>12. f[t] \in Nat
  BY <1>2
<1>13. x \in Nat
  BY ExcessFacts
<1> HIDE DEF W, G, T, R, f, x
<1>14. Used <= Final(blocks, manifests, op, litter) + x
  BY <1>1, <1>5, <1>7, <1>9, <1>10, <1>11, <1>12, <1>13
<1> QED
  BY <1>14 DEF x

---------------------------------------------------------------------------
\* What a step does to the space.

\* A step that keeps the bound: nothing more is coming than was, and whoever writes a
\* temporary file does so for something missing.
LEMMA KeepsQInv ==
  ASSUME IInv, QInv, NEW t \in Actors,
         \A u \in Actors \ {t} :
           op'[u].phase = op[u].phase /\ op'[u].blocks = op[u].blocks
             /\ op'[u].at = op[u].at /\ op'[u].of = op[u].of,
         UNCHANGED <<litter, crashes, overlapped>>,
         Coming(blocks', op') \subseteq Coming(blocks, op),
         Due(manifests', op') \subseteq Due(manifests, op),
         op'[t].phase \in Writing => op[t].phase \in Writing,
         op'[t].phase \in Temporary => Missing(op'[t], blocks', manifests'),
         op[t].phase \in Writing \/ UNCHANGED <<blocks, manifests>>
  PROVE  QInv'
<1>1. /\ manifests \in SUBSET Artifacts /\ litter \in SUBSET TempFile
      /\ \A u \in Actors : Sound(op[u], blocks, excused)
  BY DEF IInv, Typed
<1>2. Coming(blocks, op) \in SUBSET Blocks /\ Due(manifests, op) \in SUBSET Artifacts
  BY <1>1, ComingTyped
<1>3. Weight(Coming(blocks', op'), Due(manifests', op')) <= Weight(Coming(blocks, op), Due(manifests, op))
  BY <1>2, WeightFacts
<1>4. /\ Weight(Coming(blocks', op'), Due(manifests', op')) \in Nat
      /\ Weight(Coming(blocks, op), Due(manifests, op)) \in Nat
  <2>1. Coming(blocks', op') \in SUBSET Blocks /\ Due(manifests', op') \in SUBSET Artifacts
    BY <1>2
  <2> QED
    BY <1>2, <2>1, WeightFacts
<1>5. IsFiniteSet(litter) /\ LitterBytes(litter) \in Nat
  BY <1>1, LitterNat DEF QInv
<1>6. Bounded'
  <2> DEFINE X == Quota + (IF overlapped THEN Excess(crashes) ELSE 0)
  <2>1. Weight(Coming(blocks, op), Due(manifests, op)) + LitterBytes(litter) <= X
    BY DEF QInv, Bounded, Final
  <2>2. X \in Nat
    <3>1. Quota \in Nat /\ crashes \in Nat
      BY StoreAssumptions DEF StoreAssumptions, IInv, Typed
    <3> QED
      BY <3>1, ExcessFacts
  <2> HIDE DEF X
  <2>3. Weight(Coming(blocks', op'), Due(manifests', op')) + LitterBytes(litter) <= X
    BY <1>3, <1>4, <1>5, <2>1, <2>2
  <2> QED
    BY <2>3 DEF Bounded, Final, X
<1>7. Solo'
  BY DEF QInv, Solo
<1>8. Fresh'
  <2> SUFFICES ASSUME ~ overlapped', NEW u \in Actors, op'[u].phase \in Temporary
               PROVE  Missing(op'[u], blocks', manifests')
    BY DEF Fresh
  <2>1. CASE u = t
    BY <2>1
  <2>2. CASE u # t
    <3>1. op[u].phase \in Temporary /\ op[u].phase \in Writing
      BY <2>2 DEF Temporary, Writing
    <3>2. Missing(op[u], blocks, manifests)
      BY <3>1 DEF QInv, Fresh
    <3>3. op[t].phase \notin Writing
      BY <2>2, <3>1 DEF QInv, Solo
    <3> QED
      BY <2>2, <3>2, <3>3 DEF Missing
  <2> QED
    BY <2>1, <2>2
<1>9. Apart'
  BY DEF Apart
<1> QED
  BY <1>5, <1>6, <1>7, <1>8, <1>9 DEF QInv

\* The same for a step of one actor that changes no file.
LEMMA AloneQInv ==
  ASSUME IInv, QInv, NEW t \in Actors, NEW q, op' = [op EXCEPT ![t] = q],
         UNCHANGED <<blocks, manifests, litter, crashes, overlapped>>,
         Awaited(q) \subseteq Awaited(op[t]), Aims(q) \subseteq Aims(op[t]),
         q.phase \in Writing => op[t].phase \in Writing,
         q.phase \in Temporary => Missing(q, blocks, manifests)
  PROVE  QInv'
<1>1. op'[t] = q /\ \A u \in Actors \ {t} : op'[u] = op[u]
  BY DEF IInv, Typed
<1>2. \A u \in Actors : Awaited(op'[u]) \subseteq Awaited(op[u]) /\ Aims(op'[u]) \subseteq Aims(op[u])
  BY <1>1
<1>3. Coming(blocks', op') \subseteq Coming(blocks, op) /\ Due(manifests', op') \subseteq Due(manifests, op)
  BY <1>2 DEF Coming, Due
<1>4. /\ op'[t].phase \in Writing => op[t].phase \in Writing
      /\ op'[t].phase \in Temporary => Missing(op'[t], blocks', manifests')
  BY <1>1
<1> QED
  BY <1>1, <1>3, <1>4, KeepsQInv

\* And for one that ends its operation, or only reads.
LEMMA ReadsQInv ==
  ASSUME IInv, QInv, NEW t \in Actors, NEW q, op' = [op EXCEPT ![t] = q],
         q.phase \notin Writing,
         UNCHANGED <<blocks, manifests, litter, crashes, overlapped>>
  PROVE  QInv'
BY NotWriting, AloneQInv

\* An operation that is over.
LEMMA EndsQInv ==
  ASSUME IInv, QInv, NEW t \in Actors, Ends(t),
         UNCHANGED <<blocks, manifests, litter, crashes, overlapped>>
  PROVE  QInv'
<1>1. op' = [op EXCEPT ![t] = Idle] /\ Idle.phase \notin Writing
  BY IdleFacts DEF Ends, Writing
<1> QED
  BY <1>1, ReadsQInv

\* A quota check that is passed: what is admitted fits beside what is there, and of what
\* the other writers still bring nothing was known.
LEMMA AdmittedQInv ==
  ASSUME IInv, QInv, NEW t \in Actors, NEW q, op' = [op EXCEPT ![t] = q], Admitted(t),
         UNCHANGED <<blocks, manifests, litter, crashes>>,
         Sound(q, blocks, excused), op[t].phase \notin Writing, q.phase \notin Temporary,
         NEW need \in Nat, need = 0 \/ Used + need <= Quota,
         Weight(Awaited(q) \ Present(blocks), Aims(q) \ manifests) <= need
  PROVE  QInv'
<1> DEFINE P == Present(blocks)
           M == manifests
           V == Actors \ {t}
           X == IF overlapped' THEN Excess(crashes) ELSE 0
<1>1. op'[t] = q /\ \A u \in V : op'[u] = op[u]
  BY DEF IInv, Typed
<1>2. /\ M \in SUBSET Artifacts /\ litter \in SUBSET TempFile /\ crashes \in Nat
      /\ \A u \in Actors : Sound(op[u], blocks, excused)
  BY DEF IInv, Typed
<1>3. /\ Coming(blocks, op) \in SUBSET Blocks /\ Due(M, op) \in SUBSET Artifacts
      /\ P \in SUBSET Blocks
  BY <1>2, ComingTyped
<1>4. Awaited(q) \in SUBSET Blocks /\ Aims(q) \in SUBSET Artifacts
  BY WriterFacts
<1>5. Awaited(op[t]) = {} /\ Aims(op[t]) = {}
  BY NotWriting
<1>6. overlapped' \in BOOLEAN /\ (overlapped => overlapped')
      /\ (~ overlapped' => \A u \in V : op[u].phase \notin Writing)
  BY DEF Admitted
<1>7. IsFiniteSet(litter) /\ LitterBytes(litter) \in Nat /\ Quota \in Nat
  BY <1>2, LitterNat, StoreAssumptions DEF QInv, StoreAssumptions
<1>8. Excess(crashes) \in Nat /\ Others * LargestArtifact \in Nat /\ Others * LargestArtifact <= Excess(crashes)
  BY <1>2, ExcessFacts
<1>9. Weight(Coming(blocks, op'), Due(M, op')) + LitterBytes(litter) <= Quota + X
  <2>1. CASE need = 0
    <3>1. Coming(blocks, op') = Coming(blocks, op) \cup Awaited(q)
      BY <1>1, <1>5 DEF Coming
    <3>2. Due(M, op') = Due(M, op) \cup Aims(q)
      BY <1>1, <1>5 DEF Due
    <3> DEFINE C == Coming(blocks, op)
               D == Due(M, op)
               A == Awaited(q)
               Z == Aims(q)
    <3>3. A \ C \in SUBSET (A \ P) /\ Z \ D \in SUBSET (Z \ M)
      BY DEF Coming, Due
    <3>4. A \ P \in SUBSET Blocks /\ Z \ M \in SUBSET Artifacts
      BY <1>4
    <3>5. C \in SUBSET Blocks /\ D \in SUBSET Artifacts /\ A \in SUBSET Blocks /\ Z \in SUBSET Artifacts
      BY <1>3, <1>4
    <3>6. Weight(A \ P, Z \ M) <= 0
      BY <2>1
    <3> HIDE DEF C, D, A, Z, P, M
    <3>7. /\ Weight(C \cup A, D \cup Z) = Weight(C, D) + Weight(A \ C, Z \ D)
          /\ Weight(A \ C, Z \ D) \in Nat /\ Weight(A \ C, Z \ D) <= Weight(A, Z)
      BY <3>5, WeightUnion, Zenon
    <3>8. Weight(A \ C, Z \ D) <= Weight(A \ P, Z \ M) /\ Weight(A \ P, Z \ M) \in Nat
      BY <3>3, <3>4, WeightFacts
    <3>9. Weight(C, D) \in Nat
      BY <3>5, WeightFacts
    <3>10. Weight(C \cup A, D \cup Z) = Weight(C, D)
      BY <3>6, <3>7, <3>8, <3>9
    <3>11. Weight(C, D) + LitterBytes(litter) <= Quota + (IF overlapped THEN Excess(crashes) ELSE 0)
      BY DEF QInv, Bounded, Final, C, D, M
    <3>12. Weight(C, D) + LitterBytes(litter) <= Quota + X
      BY <1>6, <1>7, <1>8, <3>9, <3>11
    <3> QED
      BY <3>1, <3>2, <3>10, <3>12 DEF C, D, A, Z
  <2>2. CASE Used + need <= Quota
    <3> DEFINE A == [u \in V |-> Awaited(op[u])]
               Z == [u \in V |-> Aims(op[u])]
               c == IF overlapped' THEN LargestArtifact ELSE 0
               S == P \cup Awaited(q)
               N == M \cup Aims(q)
               B == S \cup UNION {A[u] : u \in V}
               G == N \cup UNION {Z[u] : u \in V}
    <3>1. c \in Nat
      BY LargestFacts
    <3>2. \A u \in V : A[u] \in SUBSET Blocks /\ Z[u] \in SUBSET Artifacts /\ Weight(A[u], Z[u]) <= c
      <4> SUFFICES ASSUME NEW u \in V
                   PROVE  /\ Awaited(op[u]) \in SUBSET Blocks /\ Aims(op[u]) \in SUBSET Artifacts
                          /\ Weight(Awaited(op[u]), Aims(op[u])) <= c
        OBVIOUS
      <4>1. /\ Awaited(op[u]) \in SUBSET Blocks /\ Aims(op[u]) \in SUBSET Artifacts
            /\ Weight(Awaited(op[u]), Aims(op[u])) <= LargestArtifact
        BY <1>2, WriterFacts
      <4>2. ASSUME ~ overlapped' PROVE Weight(Awaited(op[u]), Aims(op[u])) <= 0
        <5>1. Awaited(op[u]) = {} /\ Aims(op[u]) = {}
          BY <1>6, <4>2, NotWriting
        <5>2. Weight({}, {}) = 0
          BY WeightNothing
        <5> QED
          BY <5>1, <5>2
      <4> QED
        BY <4>1, <4>2
    <3>3. S \in SUBSET Blocks /\ N \in SUBSET Artifacts
      BY <1>2, <1>3, <1>4
    <3>4. IsFiniteSet(V) /\ Cardinality(V) = Others
      BY Finite, FS_RemoveElement
    <3>5. Weight(B, G) <= Weight(S, N) + Others * c
      <4> HIDE DEF A, Z, c, S, N, V
      <4> QED
        BY <3>1, <3>2, <3>3, <3>4, WeightSpread
    <3>6. /\ Weight(S, N) = Weight(P, M) + Weight(Awaited(q) \ P, Aims(q) \ M)
          /\ Weight(Awaited(q) \ P, Aims(q) \ M) \in Nat
      <4> DEFINE a == Awaited(q)
                 z == Aims(q)
      <4>1. P \in SUBSET Blocks /\ M \in SUBSET Artifacts /\ a \in SUBSET Blocks /\ z \in SUBSET Artifacts
        BY <1>2, <1>3, <1>4
      <4> HIDE DEF P, M, a, z
      <4>2. /\ Weight(P \cup a, M \cup z) = Weight(P, M) + Weight(a \ P, z \ M)
            /\ Weight(a \ P, z \ M) \in Nat /\ Weight(a \ P, z \ M) <= Weight(a, z)
        BY <4>1, WeightUnion, Zenon
      <4> QED
        BY <4>2 DEF a, z
    <3>7. Weight(P, M) + LitterBytes(litter) <= Used /\ Weight(P, M) \in Nat
      <4> DEFINE f == [u \in Actors |-> TempBytes(op[u])]
      <4>1. /\ Used = Weight(P, M) + LitterBytes(litter) + SumFunctionOnSet(f, Actors)
            /\ \A u \in Actors : f[u] \in Nat
        BY UsedIs
      <4> HIDE DEF f
      <4>2. SumFunctionOnSet(f, Actors) \in Nat
        BY <4>1, Finite, SumNat
      <4>3. Weight(P, M) \in Nat
        BY <1>2, <1>3, WeightFacts
      <4> QED
        BY <1>7, <4>1, <4>2, <4>3
    <3>8. Used \in Nat
      BY UsedNat
    <3>9. Others * c <= X /\ Others * c \in Nat /\ X \in Nat
      <4>1. CASE overlapped'
        BY <1>8, <4>1
      <4>2. CASE ~ overlapped'
        <5>1. Others * 0 = 0
          BY Finite
        <5> QED
          BY <4>2, <5>1
      <4> QED
        BY <4>1, <4>2
    <3>10. Coming(blocks, op') = B /\ Due(M, op') = G
      <4>1. \A u \in V : A[u] = Awaited(op'[u]) /\ Z[u] = Aims(op'[u])
        BY <1>1
      <4>2. Actors = V \cup {t}
        OBVIOUS
      <4> HIDE DEF A, Z, V
      <4> QED
        BY <1>1, <4>1, <4>2 DEF Coming, Due
    <3>11. Weight(B, G) \in Nat
      <4>1. B \in SUBSET Blocks /\ G \in SUBSET Artifacts
        BY <3>2, <3>3
      <4> HIDE DEF B, G
      <4> QED
        BY <4>1, WeightFacts
    <3>12. Weight(Awaited(q) \ P, Aims(q) \ M) <= need
      OBVIOUS
    <3> HIDE DEF A, Z, c, S, N, B, G, P, M, X
    <3>13. Weight(S, N) + LitterBytes(litter) <= Quota
      BY <1>7, <2>2, <3>6, <3>7, <3>8, <3>12
    <3>14. Weight(S, N) \in Nat
      BY <3>6, <3>7
    <3>15. Weight(B, G) + LitterBytes(litter) <= Quota + X
      BY <1>7, <3>5, <3>9, <3>11, <3>13, <3>14
    <3> QED
      BY <3>10, <3>15
  <2> QED
    BY <2>1, <2>2
<1>10. Bounded'
  BY <1>9 DEF Bounded, Final
<1>11. Solo'
  BY <1>1, <1>6 DEF Solo
<1>12. Fresh'
  BY <1>1, <1>6, NotWriting DEF Fresh
<1>13. Apart'
  BY <1>1 DEF Apart
<1> QED
  BY <1>7, <1>10, <1>11, <1>12, <1>13 DEF QInv

\* The sum over F and the images of D, bounded by the sums over each.
FilesBound(F, D, file, g, f) ==
  /\ IsFiniteSet(F \cup {file[t] : t \in D})
  /\ SumFunctionOnSet(g, F \cup {file[t] : t \in D})
       <= SumFunctionOnSet(g, F) + SumFunctionOnSet(f, D)

\* The files that images of D name add at most one term for each of D.
LEMMA SumFiles ==
  ASSUME NEW F, IsFiniteSet(F), NEW D, IsFiniteSet(D), NEW file, NEW g, NEW f,
         \A x \in F : g[x] \in Nat,
         \A t \in D : f[t] \in Nat /\ g[file[t]] = f[t]
  PROVE  FilesBound(F, D, file, g, f)
<1> DEFINE G(x) == F \cup {file[t] : t \in x}
           S(x) == SumFunctionOnSet(g, x)
           T(x) == SumFunctionOnSet(f, x)
           K == {x \in SUBSET D : IsFiniteSet(G(x)) /\ S(G(x)) <= S(F) + T(x)}
<1>1. S(F) \in Nat
  BY SumNat
<1>2. {} \in K
  <2>1. G({}) = F /\ T({}) = 0
    BY SumEmpty
  <2>2. S(G({})) = S(F)
    BY <2>1
  <2> HIDE DEF G, S, T
  <2> QED
    BY <1>1, <2>1, <2>2
<1>3. ASSUME NEW x \in SUBSET D, NEW e \in D \ x, x \in K PROVE x \cup {e} \in K
  <2>1. IsFiniteSet(x) /\ IsFiniteSet(G(x)) /\ S(G(x)) <= S(F) + T(x)
    BY <1>3, FS_Subset
  <2>2. G(x \cup {e}) = G(x) \cup {file[e]}
    OBVIOUS
  <2>3. IsFiniteSet(G(x) \cup {file[e]})
    BY <2>1, FS_AddElement
  <2>4. T(x \cup {e}) = T(x) + f[e] /\ T(x) \in Nat /\ f[e] \in Nat
    BY <2>1, SumAdd, SumNat
  <2>5. \A y \in G(x) \cup {file[e]} : g[y] \in Nat
    OBVIOUS
  <2>6. S(G(x)) \in Nat
    <3> HIDE DEF G
    <3> QED
      BY <2>1, <2>5, SumNat
  <2>7. S(G(x) \cup {file[e]}) <= S(G(x)) + f[e]
    <3>1. CASE file[e] \in G(x)
      <4>1. G(x) \cup {file[e]} = G(x)
        BY <3>1
      <4> HIDE DEF G, S
      <4> QED
        BY <2>4, <2>6, <4>1
    <3>2. CASE file[e] \notin G(x)
      <4>1. g[file[e]] = f[e]
        OBVIOUS
      <4>2. S(G(x) \cup {file[e]}) = S(G(x)) + g[file[e]]
        <5> DEFINE P == G(x)
                   y == file[e]
        <5>1. IsFiniteSet(P) /\ y \notin P /\ g[y] \in Nat /\ \A z \in P : g[z] \in Nat
          BY <2>1, <2>5, <3>2
        <5> HIDE DEF P, y, G
        <5>2. SumGrows(g, P, y)
          BY <5>1, SumGrowsFacts
        <5> QED
          BY <5>2 DEF P, y, SumGrows
      <4> HIDE DEF S, G
      <4> QED
        BY <2>4, <2>6, <4>1, <4>2
    <3> QED
      BY <3>1, <3>2
  <2>8. S(G(x \cup {e})) \in Nat
    <3> HIDE DEF G
    <3> QED
      BY <2>2, <2>3, <2>5, SumNat
  <2>9. S(G(x \cup {e})) <= S(F) + T(x \cup {e})
    <3> HIDE DEF G, S, T
    <3>1. S(G(x \cup {e})) <= S(G(x)) + f[e]
      BY <2>2, <2>7
    <3> QED
      BY <1>1, <2>1, <2>4, <2>6, <2>8, <3>1
  <2>10. IsFiniteSet(G(x \cup {e}))
    BY <2>2, <2>3
  <2> QED
    BY <2>9, <2>10
<1> HIDE DEF K
<1>4. D \in K
  BY <1>2, <1>3, SetInduction
<1> QED
  BY <1>4 DEF K, FilesBound

\* The process ends: what is in use, temporary files included, is all there will be.
LEMMA CrashQInv ==
  ASSUME IInv, QInv, Crash
  PROVE  QInv'
<1> DEFINE D == {u \in Actors : op[u].phase \in Temporary}
           file == [t \in Actors |-> [process |-> crashes, by |-> t, bytes |-> TempBytes(op[t])]]
           f == [t \in Actors |-> TempBytes(op[t])]
           g == [x \in litter' |-> x.bytes]
           h == [x \in litter |-> x.bytes]
           W == Weight(Present(blocks), manifests)
<1>1. /\ litter' = litter \cup {file[t] : t \in D}
      /\ op' = [t \in Actors |-> Idle] /\ crashes' = crashes + 1
      /\ UNCHANGED <<blocks, manifests, overlapped>>
  BY DEF Crash, Temporary
<1>2. /\ manifests \in SUBSET Artifacts /\ litter \in SUBSET TempFile /\ crashes \in Nat
      /\ IsFiniteSet(litter)
  BY DEF IInv, Typed, QInv
<1>3. Used = W + LitterBytes(litter) + SumFunctionOnSet(f, Actors)
  BY UsedIs
<1>4. \A t \in Actors : f[t] = TempBytes(op[t]) /\ f[t] \in Nat
  BY UsedIs
<1>5. D \in SUBSET Actors /\ IsFiniteSet(D)
  BY Finite, FS_Subset
<1>6. SumFunctionOnSet(f, D) <= SumFunctionOnSet(f, Actors)
      /\ SumFunctionOnSet(f, D) \in Nat /\ SumFunctionOnSet(f, Actors) \in Nat
  <2>1. \A t \in D : f[t] \in Nat
    BY <1>4
  <2> HIDE DEF f, D
  <2> QED
    BY <1>4, <1>5, <2>1, Finite, SumSubset, SumNat
<1>7. \A x \in litter : g[x] \in Nat /\ h[x] = g[x]
  BY <1>1, <1>2 DEF TempFile
<1>8. \A t \in D : f[t] \in Nat /\ g[file[t]] = f[t]
  <2> TAKE t \in D
  <2>1. file[t] \in litter' /\ file[t].bytes = f[t]
    BY <1>1, <1>5
  <2> QED
    BY <1>4, <1>5, <2>1
<1>9. IsFiniteSet(litter') /\ SumFunctionOnSet(g, litter') <= SumFunctionOnSet(g, litter) + SumFunctionOnSet(f, D)
  <2> HIDE DEF f, g, D, file
  <2>1. \A x \in litter : g[x] \in Nat
    BY <1>7
  <2>2. FilesBound(litter, D, file, g, f)
    BY <1>2, <1>5, <1>8, <2>1, SumFiles
  <2> QED
    BY <1>1, <2>2 DEF FilesBound
<1>10. SumFunctionOnSet(g, litter) = SumFunctionOnSet(h, litter)
  <2> HIDE DEF g, h
  <2> QED
    BY <1>2, <1>7, SumSame
<1>11. LitterBytes(litter) = SumFunctionOnSet(h, litter) /\ LitterBytes(litter') = SumFunctionOnSet(g, litter')
  BY DEF LitterBytes, SumFunction
<1>12. LitterBytes(litter) \in Nat /\ LitterBytes(litter') \in Nat
  <2>1. litter' \in SUBSET TempFile
    BY CrashIInv DEF IInv, Typed
  <2> QED
    BY <1>2, <1>9, <2>1, LitterNat
<1>13. W \in Nat /\ Used \in Nat
  BY <1>2, WeightFacts, UsedNat DEF Present
<1>14. W + LitterBytes(litter') <= Used
  <2> HIDE DEF W, f, g, h, D
  <2> QED
    BY <1>3, <1>6, <1>9, <1>10, <1>11, <1>12, <1>13
<1>15. Final(blocks', manifests', op', litter') = W + LitterBytes(litter')
  <2>1. \A t \in Actors : Awaited(op'[t]) = {} /\ Aims(op'[t]) = {}
    BY <1>1, IdleFacts, NotWriting DEF Writing
  <2>2. Coming(blocks', op') = Present(blocks) /\ Due(manifests', op') = manifests
    BY <1>1, <2>1 DEF Coming, Due
  <2> QED
    BY <1>1, <2>2 DEF Final
<1>16. Used <= Quota + (IF overlapped THEN Excess(crashes + 1) ELSE 0)
  <2>1. Used <= Final(blocks, manifests, op, litter)
                  + (IF overlapped THEN Others * LargestFile ELSE 0)
    BY UsedBound
  <2>2. Final(blocks, manifests, op, litter) <= Quota + (IF overlapped THEN Excess(crashes) ELSE 0)
    BY DEF QInv, Bounded
  <2>3. /\ Excess(crashes) \in Nat /\ Excess(crashes + 1) = Excess(crashes) + Others * LargestFile
        /\ Others * LargestFile \in Nat
    BY <1>2, ExcessFacts
  <2>4. Final(blocks, manifests, op, litter) \in Nat
    BY FinalNat
  <2>5. Quota \in Nat
    BY StoreAssumptions DEF StoreAssumptions
  <2> QED
    BY <1>13, <2>1, <2>2, <2>3, <2>4, <2>5
<1>17. Bounded'
  <2>1. Quota + (IF overlapped THEN Excess(crashes + 1) ELSE 0) \in Nat
    <3>1. Quota \in Nat /\ crashes + 1 \in Nat
      BY <1>2, StoreAssumptions DEF StoreAssumptions
    <3> QED
      BY <3>1, ExcessFacts
  <2> DEFINE X == Quota + (IF overlapped THEN Excess(crashes + 1) ELSE 0)
  <2>2. X \in Nat /\ Used <= X
    BY <1>16, <2>1
  <2> HIDE DEF X, W
  <2>3. Final(blocks', manifests', op', litter') <= X
    BY <1>12, <1>13, <1>14, <1>15, <2>2
  <2> QED
    BY <1>1, <2>3 DEF Bounded, X
<1>18. \A t \in Actors : op'[t].phase \notin Writing /\ op'[t].phase \notin Temporary
  BY <1>1, IdleFacts DEF Writing, Temporary
<1>19. Solo' /\ Fresh' /\ Apart'
  <2>1. Loop \in Actors
    BY DEF Actors
  <2> QED
    BY <1>18, <2>1 DEF Solo, Fresh, Apart
<1> QED
  BY <1>9, <1>17, <1>19 DEF QInv

---------------------------------------------------------------------------
\* The space, one lemma per action that writes or is admitted.

\* The fields of an operation in another phase.
LEMMA PhaseFields ==
  ASSUME NEW o \in Operation, NEW phase
  PROVE  LET q == [o EXCEPT !.phase = phase]
         IN  q.phase = phase /\ q.blocks = o.blocks /\ q.at = o.at /\ q.of = o.of /\ q.kind = o.kind
BY DEF Operation

\* A phase of a writer after another one.
LEMMA GoesQInv ==
  ASSUME IInv, QInv, NEW t \in Actors, NEW phase \in Writing, Goes(t, phase),
         op[t].phase \in Writing,
         phase \in {"block", "remove", "write", "temp"} =>
           op[t].phase \in {"block", "remove", "write", "temp"},
         phase = "temp" => blocks[Current(t)] = "none",
         phase = "mtemp" => ~ (op[t].of \subseteq manifests),
         UNCHANGED <<blocks, manifests, litter, crashes, overlapped>>
  PROVE  QInv'
<1> DEFINE o == op[t]
           q == [o EXCEPT !.phase = phase]
<1>1. op' = [op EXCEPT ![t] = q]
  BY DEF Goes
<1>2. o \in Operation
  BY OneSound
<1>3. q.phase = phase /\ q.blocks = o.blocks /\ q.at = o.at /\ q.of = o.of
  BY <1>2, PhaseFields
<1>4. phase \in Temporary => Missing(q, blocks, manifests)
  BY <1>3 DEF Temporary, Missing, Current
<1> HIDE DEF q, o
<1>5. Awaited(q) \subseteq Awaited(o) /\ Aims(q) \subseteq Aims(o)
  BY <1>3 DEF Awaited, Aims, o
<1> QED
  BY <1>1, <1>3, <1>4, <1>5, AloneQInv DEF o

\* The next block.
LEMMA NextQInv ==
  ASSUME IInv, QInv, NEW t \in Actors, op' = [op EXCEPT ![t].at = @ + 1],
         op[t].phase \in {"block", "verify"},
         UNCHANGED <<blocks, manifests, litter, crashes, overlapped>>
  PROVE  QInv'
<1> DEFINE o == op[t]
           q == [o EXCEPT !.at = o.at + 1]
<1>1. op' = [op EXCEPT ![t] = q]
  OBVIOUS
<1>2. o \in Operation /\ o.at \in Nat
  BY OneSound
<1>3. q.phase = o.phase /\ q.blocks = o.blocks /\ q.at = o.at + 1 /\ q.of = o.of
  BY <1>2 DEF Operation
<1>4. Len(o.blocks) \in Nat
  BY OneSound
<1>5. o.phase \notin Temporary
  BY DEF Temporary
<1> HIDE DEF q, o
<1>6. \A i \in (o.at + 1)..Len(o.blocks) : i \in o.at..Len(o.blocks)
  BY <1>2, <1>4
<1>7. Awaited(q) \subseteq Awaited(o) /\ Aims(q) \subseteq Aims(o)
  BY <1>3, <1>6 DEF Awaited, Aims
<1> QED
  BY <1>1, <1>3, <1>5, <1>7, AloneQInv DEF o

\* What an operation that begins waits for.
LEMMA StartedFields ==
  ASSUME NEW kind, NEW phase, NEW of, NEW seq
  PROVE  LET q == Started(kind, phase, of, seq)
         IN  q.phase = phase /\ q.blocks = seq /\ q.at = 1 /\ q.of = of /\ q.kind = kind
BY DEF Started, Idle

\* A quota check that is passed.
LEMMA FitsFacts ==
  ASSUME IInv, QInv, NEW needed \in Nat, NEW reclaimable \in Nat, Fits(needed, reclaimable)
  PROVE  \/ needed <= reclaimable
         \/ \E need \in Nat : needed = need + reclaimable /\ Used + need <= Quota
<1>1. Used \in Nat /\ Quota \in Nat
  BY UsedNat, StoreAssumptions DEF StoreAssumptions
<1>2. CASE needed <= reclaimable
  BY <1>2
<1>3. CASE ~ (needed <= reclaimable)
  <2>1. needed - reclaimable \in Nat /\ needed = (needed - reclaimable) + reclaimable
    BY <1>3
  <2>2. Used + (needed - reclaimable) <= Quota
    BY <1>1, <1>3 DEF Fits
  <2> QED
    BY <2>1, <2>2
<1> QED
  BY <1>2, <1>3

\* An import is admitted with what it lacks.
LEMMA ImportQInv ==
  ASSUME IInv, QInv, NEW t \in Threads, NEW a \in Artifacts, Import(t, a)
  PROVE  QInv'
<1> DEFINE q == Started("import", "block", {a}, Content[a])
           A == Awaited(q) \ Present(blocks)
           Z == Aims(q) \ manifests
<1>1. t \in Actors /\ op' = [op EXCEPT ![t] = q] /\ Admitted(t) /\ Fits(Required(a), 0)
      /\ op[t].phase = "idle" /\ UNCHANGED <<blocks, manifests, litter, crashes>>
  BY DEF Import, Actors
<1>2. Sound(q, blocks, excused)
  BY StartSound, PhaseFacts
<1>3. q.phase = "block" /\ q.blocks = Content[a] /\ q.at = 1 /\ q.of = {a}
  BY StartedFields
<1>4. Content[a] \in Seq(Blocks)
  BY ConstantFacts
<1> HIDE DEF q
<1>5. Awaited(q) = Range(Content[a]) /\ Aims(q) = {a}
  <2>1. Awaited(q) = {Content[a][i] : i \in 1..Len(Content[a])}
    BY <1>3 DEF Awaited
  <2>2. DOMAIN Content[a] = 1..Len(Content[a])
    BY <1>4
  <2> QED
    BY <1>3, <2>1, <2>2 DEF Range, Aims, Writing
<1>6. A = {b \in Range(Content[a]) : blocks[b] = "none"} /\ A \in SUBSET Blocks
  BY <1>4, <1>5 DEF Present, Range
<1>7. Required(a) = Weight(A, Z) /\ Weight(A, Z) \in Nat
  <2>1. ManifestBytes * Cardinality(Z) = IF a \in manifests THEN 0 ELSE ManifestBytes
    <3>1. CASE a \in manifests
      <4>1. Z = {}
        BY <1>5, <3>1
      <4>2. ManifestBytes * Cardinality({}) = 0
        BY FS_EmptySet, ConstantFacts
      <4> HIDE DEF Z
      <4> QED
        BY <3>1, <4>1, <4>2
    <3>2. CASE a \notin manifests
      <4>1. Z = {a}
        BY <1>5, <3>2
      <4>2. ManifestBytes * Cardinality({a}) = ManifestBytes
        BY ManifestsFacts
      <4> HIDE DEF Z
      <4> QED
        BY <3>2, <4>1, <4>2
    <3> QED
      BY <3>1, <3>2
  <2>2. Z \in SUBSET Artifacts
    BY <1>5
  <2> HIDE DEF A, Z
  <2> QED
    BY <1>6, <2>1, <2>2, WeightFacts DEF Required, Weight
<1>8. Required(a) = 0 \/ Used + Required(a) <= Quota
  <2>1. 0 \in Nat /\ Required(a) \in Nat
    BY <1>7
  <2>2. \/ Required(a) <= 0
        \/ \E need \in Nat : Required(a) = need + 0 /\ Used + need <= Quota
    BY <1>1, <2>1, FitsFacts
  <2> QED
    BY <2>1, <2>2
<1>9. op[t].phase \notin Writing /\ q.phase \notin Temporary
  BY <1>1, <1>3 DEF Writing, Temporary
<1>10. Required(a) \in Nat /\ Weight(A, Z) <= Required(a)
  BY <1>7
<1> QED
  BY <1>1, <1>2, <1>8, <1>9, <1>10, AdmittedQInv

\* A block to be written is missing.
LEMMA ImportBlockQInv ==
  ASSUME IInv, QInv, NEW t \in Threads, ImportBlock(t)
  PROVE  QInv'
<1>1. t \in Actors /\ op[t].phase = "block" /\ More(t)
      /\ UNCHANGED <<blocks, manifests, litter, crashes, overlapped>>
  BY DEF ImportBlock, Actors
<1>2. Current(t) \in Blocks
  BY <1>1, OneSound DEF More, Current
<1>3. blocks[Current(t)] \in Files
  BY <1>2 DEF IInv, Typed
<1>4. CASE blocks[Current(t)] = "none" /\ Goes(t, "write")
  BY <1>1, <1>4, GoesQInv DEF Writing
<1>5. CASE op' = [op EXCEPT ![t].at = @ + 1]
  BY <1>1, <1>5, NextQInv
<1>6. CASE Ends(t)
  BY <1>1, <1>6, EndsQInv
<1> QED
  BY <1>3, <1>4, <1>5, <1>6 DEF ImportBlock, Files

\* So is a manifest.
LEMMA WriteManifestQInv ==
  ASSUME IInv, QInv, NEW t \in Actors, WriteManifest(t)
  PROVE  QInv'
<1>1. op[t].phase \in {"manifest", "block"}
      /\ UNCHANGED <<blocks, manifests, litter, crashes, overlapped>>
  BY DEF WriteManifest
<1>2. CASE Ends(t)
  BY <1>1, <1>2, EndsQInv
<1>3. CASE Goes(t, "mtemp") /\ ~ (op[t].of \subseteq manifests)
  BY <1>1, <1>3, GoesQInv DEF Writing
<1> QED
  BY <1>2, <1>3 DEF WriteManifest

\* A file taken unread is awaited no longer.
LEMMA TakesUnreadQInv ==
  ASSUME IInv, QInv, NEW t \in Actors, op[t].phase \in {"write", "temp"}, TakesUnread(t),
         UNCHANGED <<blocks, manifests, litter, crashes, overlapped>>
  PROVE  QInv'
<1> DEFINE o == op[t]
           q == [o EXCEPT !.phase = "block", !.at = o.at + 1]
<1>1. CASE Ends(t)
  BY <1>1, EndsQInv
<1>2. CASE op' = [op EXCEPT ![t] = q]
  <2>1. o \in Operation /\ o.at \in Nat /\ Len(o.blocks) \in Nat
    BY OneSound
  <2>2. q.phase = "block" /\ q.at = o.at + 1 /\ q.of = o.of /\ q.blocks = o.blocks
    BY <2>1 DEF Operation
  <2>3. \A i \in (o.at + 1)..Len(o.blocks) : i \in o.at..Len(o.blocks)
    BY <2>1
  <2>4. o.phase \in {"write", "temp"}
    OBVIOUS
  <2> HIDE DEF q, o
  <2>5. /\ Awaited(q) \subseteq Awaited(o) /\ Aims(q) \subseteq Aims(o)
        /\ q.phase \notin Temporary /\ o.phase \in Writing
    BY <2>2, <2>3, <2>4 DEF Awaited, Aims, Temporary, Writing
  <2> QED
    BY <1>2, <2>5, AloneQInv DEF o
<1> QED
  BY <1>1, <1>2 DEF TakesUnread

\* A block is written when it is missing at the second look too.
LEMMA WriteBlockQInv ==
  ASSUME IInv, QInv, NEW t \in Actors, WriteBlock(t)
  PROVE  QInv'
<1>1. op[t].phase = "write" /\ UNCHANGED <<blocks, manifests, litter, crashes, overlapped>>
  BY DEF WriteBlock
<1>2. CASE TakesUnread(t)
  BY <1>1, <1>2, TakesUnreadQInv
<1>3. CASE Goes(t, "temp") /\ blocks[Current(t)] = "none"
  BY <1>1, <1>3, GoesQInv DEF Writing
<1> QED
  BY <1>2, <1>3 DEF WriteBlock

LEMMA RenameRefusedQInv ==
  ASSUME IInv, QInv, NEW t \in Actors, RenameRefused(t)
  PROVE  QInv'
BY TakesUnreadQInv DEF RenameRefused

\* Verification writes nothing.
LEMMA VerifyBlockQInv ==
  ASSUME IInv, QInv, NEW t \in Actors, VerifyBlock(t)
  PROVE  QInv'
<1>1. op[t].phase = "verify" /\ UNCHANGED <<blocks, manifests, litter, crashes, overlapped>>
  BY DEF VerifyBlock
<1>2. CASE Ends(t)
  BY <1>1, <1>2, EndsQInv
<1>3. CASE op' = [op EXCEPT ![t].at = @ + 1]
  BY <1>1, <1>3, NextQInv
<1> QED
  BY <1>2, <1>3 DEF VerifyBlock

\* What has arrived fits, or takes the place of what was damaged.
LEMMA StoreBlockQInv ==
  ASSUME IInv, QInv, NEW b \in Blocks, StoreBlock(b)
  PROVE  QInv'
<1> DEFINE q == Started("store", "remove", {}, <<b>>)
           A == Awaited(q) \ Present(blocks)
           Z == Aims(q) \ manifests
           r == IF blocks[b] = "damaged" THEN Size[b] ELSE 0
<1>1. Loop \in Actors /\ op' = [op EXCEPT ![Loop] = q] /\ Admitted(Loop) /\ Fits(Size[b], r)
      /\ op[Loop].phase = "idle" /\ UNCHANGED <<blocks, manifests, litter, crashes>>
      /\ blocks[b] # "whole"
  BY DEF StoreBlock, Actors
<1>2. Sound(q, blocks, excused)
  BY StoreSound
<1>3. q.phase = "remove" /\ q.blocks = <<b>> /\ q.at = 1 /\ q.of = {}
  BY StartedFields
<1>4. Size[b] \in Nat /\ r \in Nat
  BY ConstantFacts
<1> HIDE DEF q
<1>5. Awaited(q) = {b} /\ Aims(q) = {}
  <2>1. Awaited(q) = {<<b>>[i] : i \in 1..Len(<<b>>)}
    BY <1>3 DEF Awaited
  <2>2. 1..Len(<<b>>) = {1} /\ <<b>>[1] = b
    OBVIOUS
  <2> QED
    BY <1>3, <2>1, <2>2 DEF Aims
<1>6. op[Loop].phase \notin Writing /\ q.phase \notin Temporary
  BY <1>1, <1>3 DEF Writing, Temporary
<1>7. Z = {}
  BY <1>5
<1>8. CASE blocks[b] = "damaged"
  <2>1. A = {}
    BY <1>5, <1>8 DEF Present
  <2>2. Weight(A, Z) <= 0 /\ 0 \in Nat
    BY <1>7, <2>1, WeightNothing
  <2> HIDE DEF A, Z
  <2>3. Weight(Awaited(q) \ Present(blocks), Aims(q) \ manifests) <= 0
    BY <2>2 DEF A, Z
  <2> QED
    BY <1>1, <1>2, <1>6, <2>2, <2>3, AdmittedQInv
<1>9. CASE blocks[b] # "damaged"
  <2>1. blocks[b] = "none" /\ r = 0
    BY <1>1, <1>9 DEF IInv, Typed, Files
  <2>2. A = {b}
    BY <1>5, <2>1 DEF Present
  <2>3. Weight(A, Z) = Size[b]
    <3>1. ManifestBytes * Cardinality({}) = 0
      BY FS_EmptySet, ConstantFacts
    <3>2. BytesOf({b}) = Size[b]
      BY BytesFacts
    <3> HIDE DEF A, Z
    <3> QED
      BY <1>4, <1>7, <2>2, <3>1, <3>2 DEF Weight
  <2>4. Used + Size[b] <= Quota
    <3>1. \/ Size[b] <= r
          \/ \E need \in Nat : Size[b] = need + r /\ Used + need <= Quota
      BY <1>1, <1>4, FitsFacts
    <3>2. Size[b] > 0
      BY StoreAssumptions DEF StoreAssumptions
    <3> QED
      BY <1>4, <2>1, <3>1, <3>2
  <2>5. Weight(Awaited(q) \ Present(blocks), Aims(q) \ manifests) <= Size[b]
    BY <1>4, <2>3
  <2> QED
    BY <1>1, <1>2, <1>4, <1>6, <2>4, <2>5, AdmittedQInv
<1> QED
  BY <1>8, <1>9

\* A manifest to be committed is admitted if it fits.
LEMMA CheckManifestQInv ==
  ASSUME IInv, QInv, CheckManifest
  PROVE  QInv'
<1> DEFINE o == op[Loop]
           q == [o EXCEPT !.phase = "manifest"]
<1>1. Loop \in Actors /\ o.kind = "commit" /\ o.phase = "verify" /\ o.at > Len(o.blocks)
      /\ UNCHANGED <<blocks, manifests, litter, crashes>>
  BY OneSound DEF CheckManifest, Actors, More
<1>2. CASE Ends(Loop) /\ UNCHANGED overlapped
  BY <1>1, <1>2, EndsQInv
<1>3. CASE Goes(Loop, "manifest") /\ Admitted(Loop) /\ Fits(ManifestBytes, 0)
  <2>1. op' = [op EXCEPT ![Loop] = q] /\ o \in Operation /\ Sound(o, blocks, excused)
    BY <1>1, <1>3, OneSound DEF Goes
  <2>2. q.phase = "manifest" /\ q.blocks = o.blocks /\ q.at = o.at /\ q.of = o.of
    BY <2>1, PhaseFields
  <2>3. Sound(q, blocks, excused)
    BY <1>1, <2>1, PhaseSound, PhaseFacts DEF Phases
  <2> HIDE DEF q
  <2>4. Awaited(q) = {} /\ Aims(q) = o.of
    BY <2>2 DEF Awaited, Aims, Writing
  <2>5. PICK a \in Artifacts : o.of = {a}
    BY <1>1, <2>1 DEF Sound, Shaped
  <2>6. Used + ManifestBytes <= Quota
    <3>1. ManifestBytes \in Nat /\ ManifestBytes > 0
      BY StoreAssumptions DEF StoreAssumptions
    <3>2. \/ ManifestBytes <= 0
          \/ \E need \in Nat : ManifestBytes = need + 0 /\ Used + need <= Quota
      BY <1>3, <3>1, FitsFacts
    <3> QED
      BY <3>1, <3>2
  <2>7. Weight(Awaited(q) \ Present(blocks), Aims(q) \ manifests) <= ManifestBytes
    <3> DEFINE Z == Aims(q) \ manifests
    <3>1. Weight({}, {a}) = ManifestBytes
      <4>1. ManifestBytes * Cardinality({a}) = ManifestBytes
        BY ManifestsFacts
      <4>2. BytesOf({}) = 0 /\ ManifestBytes \in Nat
        BY SumEmpty, ConstantFacts DEF BytesOf
      <4> QED
        BY <4>1, <4>2 DEF Weight
    <3>2. Z \in SUBSET {a} /\ {} \in SUBSET {} /\ Awaited(q) \ Present(blocks) = {}
          /\ {a} \in SUBSET Artifacts /\ {} \in SUBSET Blocks
      BY <2>4, <2>5
    <3> HIDE DEF Z
    <3>3. Weight({}, Z) <= Weight({}, {a})
      BY <3>2, WeightFacts
    <3> QED
      BY <3>1, <3>2, <3>3 DEF Z
  <2>8. op[Loop].phase \notin Writing /\ q.phase \notin Temporary
    BY <1>1, <2>2 DEF Writing, Temporary
  <2> QED
    BY <1>1, <1>3, <2>1, <2>3, <2>6, <2>7, <2>8, ConstantFacts, AdmittedQInv
<1> QED
  BY <1>2, <1>3 DEF CheckManifest

\* A block in place is no longer awaited; it takes the space that was counted for it.
LEMMA RenameBlockQInv ==
  ASSUME IInv, QInv, NEW t \in Actors, RenameBlock(t)
  PROVE  QInv'
<1> DEFINE o == op[t]
           b == Current(t)
           q == IF o.kind = "store" THEN Idle ELSE [o EXCEPT !.phase = "block", !.at = o.at + 1]
<1>1. /\ Sound(o, blocks, excused) /\ o \in Operation /\ o.at \in Nat /\ o.at >= 1
      /\ o.blocks \in Seq(Blocks) /\ op \in [Actors -> Operation]
  BY OneSound
<1>2. o.phase = "temp" /\ o.at <= Len(o.blocks)
  BY <1>1 DEF RenameBlock, Sound, Shaped
<1>3. b = o.blocks[o.at] /\ b \in Awaited(o)
  BY <1>1, <1>2 DEF Current, Awaited
<1>4. op' = [op EXCEPT ![t] = q]
  BY DEF RenameBlock, Ends
<1>5. blocks' = [blocks EXCEPT ![b] = "whole"] /\ blocks \in [Blocks -> Files]
      /\ UNCHANGED <<manifests, litter, crashes, overlapped>>
  BY DEF RenameBlock, IInv, Typed
<1>6. Awaited(q) \subseteq Awaited(o) /\ Aims(q) \subseteq Aims(o) /\ q.phase \notin Temporary
  <2>1. CASE o.kind = "store"
    <3>1. q = Idle
      BY <2>1
    <3>2. Idle.phase \notin Writing
      BY IdleFacts DEF Writing
    <3> QED
      BY <3>1, <3>2, NotWriting
  <2>2. CASE o.kind # "store"
    <3>1. /\ q.phase = "block" /\ q.at = o.at + 1 /\ q.of = o.of /\ q.blocks = o.blocks
      BY <1>1, <2>2 DEF Operation
    <3>2. \A i \in (o.at + 1)..Len(o.blocks) : i \in o.at..Len(o.blocks)
      BY <1>1
    <3> HIDE DEF q, o
    <3> QED
      BY <1>2, <3>1, <3>2 DEF Awaited, Aims, Temporary, Writing
  <2> QED
    BY <2>1, <2>2
<1> HIDE DEF q, o, b
<1>7. op'[t] = q /\ \A u \in Actors \ {t} : op'[u] = op[u]
  BY <1>1, <1>4
<1>8. \A u \in Actors : Awaited(op'[u]) \subseteq Awaited(op[u]) /\ Aims(op'[u]) \subseteq Aims(op[u])
  BY <1>6, <1>7 DEF o
<1>9. Present(blocks') \subseteq Present(blocks) \cup {b}
  BY <1>5 DEF Present
<1>10. b \in UNION {Awaited(op[u]) : u \in Actors}
  BY <1>3 DEF o
<1>11. Coming(blocks', op') \subseteq Coming(blocks, op)
  BY <1>8, <1>9, <1>10 DEF Coming
<1>12. Due(manifests', op') \subseteq Due(manifests, op)
  BY <1>5, <1>8 DEF Due
<1>13. op[t].phase \in Writing
  BY <1>2 DEF o, Writing
<1> QED
  BY <1>5, <1>6, <1>7, <1>11, <1>12, <1>13, KeepsQInv

\* So does a manifest.
LEMMA PublishManifestQInv ==
  ASSUME IInv, QInv, NEW t \in Actors, PublishManifest(t)
  PROVE  QInv'
<1>1. /\ op[t].phase = "mtemp" /\ manifests' = manifests \cup op[t].of
      /\ op' = [op EXCEPT ![t] = Idle] /\ op \in [Actors -> Operation]
      /\ UNCHANGED <<blocks, litter, crashes, overlapped>>
  BY OneSound DEF PublishManifest, Ends
<1>2. op'[t] = Idle /\ \A u \in Actors \ {t} : op'[u] = op[u]
  BY <1>1
<1>3. Idle.phase \notin Writing /\ Idle.phase \notin Temporary
  BY IdleFacts DEF Writing, Temporary
<1>4. Awaited(Idle) = {} /\ Aims(Idle) = {}
  BY <1>3, NotWriting
<1>5. \A u \in Actors : Awaited(op'[u]) \subseteq Awaited(op[u]) /\ Aims(op'[u]) \subseteq Aims(op[u])
  BY <1>2, <1>4
<1>6. Aims(op[t]) = op[t].of /\ op[t].phase \in Writing
  BY <1>1 DEF Aims, Writing
<1>7. Coming(blocks', op') \subseteq Coming(blocks, op)
  BY <1>1, <1>5 DEF Coming
<1>8. Due(manifests', op') \subseteq Due(manifests, op)
  BY <1>1, <1>5, <1>6 DEF Due
<1> QED
  BY <1>1, <1>2, <1>3, <1>6, <1>7, <1>8, KeepsQInv

\* Being betrayed changes nothing of what an operation writes.
LEMMA BetrayedFields ==
  ASSUME IInv, NEW b, NEW u \in Actors
  PROVE  /\ Betrayed(b)[u].phase = op[u].phase /\ Betrayed(b)[u].blocks = op[u].blocks
         /\ Betrayed(b)[u].at = op[u].at /\ Betrayed(b)[u].of = op[u].of
         /\ Betrayed(b)[u].kind = op[u].kind
<1>1. op[u] \in Operation
  BY OneSound
<1>2. Betrayed(b)[u] = [op[u] EXCEPT !.betrayed = @ \/ Verified(op[u], b)]
  BY DEF Betrayed
<1> QED
  BY <1>1, <1>2 DEF Operation

\* What store_block removes is what it waits to write.
LEMMA RemoveBlockQInv ==
  ASSUME IInv, QInv, RemoveBlock
  PROVE  QInv'
<1> DEFINE b == Current(Loop)
<1>1. Loop \in Actors /\ op[Loop].phase = "remove" /\ UNCHANGED <<manifests, litter, crashes, overlapped>>
  BY DEF RemoveBlock, Actors
<1>2. op[Loop].kind = "store"
  BY <1>1, OneSound, RemoveFacts
<1>3. CASE blocks[b] = "none"
  <2>1. Goes(Loop, "write") /\ UNCHANGED blocks
    BY <1>3 DEF RemoveBlock
  <2> QED
    BY <1>1, <2>1, GoesQInv DEF Writing
<1>4. CASE blocks[b] # "none"
  <2> DEFINE G == Betrayed(b)
             q == [G[Loop] EXCEPT !.phase = "write"]
  <2>1. blocks' = [blocks EXCEPT ![b] = "none"] /\ op' = [G EXCEPT ![Loop] = q]
        /\ blocks \in [Blocks -> Files]
    BY <1>4 DEF RemoveBlock, IInv, Typed
  <2>2. \A u \in Actors : /\ G[u].phase = op[u].phase /\ G[u].blocks = op[u].blocks
                          /\ G[u].at = op[u].at /\ G[u].of = op[u].of /\ G[u].kind = op[u].kind
    BY BetrayedFields
  <2>3. DOMAIN G = Actors
    BY DEF Betrayed
  <2>4. q.phase = "write" /\ q.blocks = op[Loop].blocks /\ q.at = op[Loop].at /\ q.of = op[Loop].of
    <3>1. G[Loop] = [op[Loop] EXCEPT !.betrayed = @ \/ Verified(op[Loop], b)] /\ op[Loop] \in Operation
      BY <1>1, OneSound DEF Betrayed
    <3> HIDE DEF G
    <3> QED
      BY <3>1 DEF Operation
  <2> HIDE DEF G, q, b
  <2>5. op'[Loop] = q /\ \A u \in Actors \ {Loop} : op'[u] = G[u]
    BY <1>1, <2>1, <2>3
  <2>6. \A u \in Actors : Awaited(op'[u]) = Awaited(op[u]) /\ Aims(op'[u]) = Aims(op[u])
    <3>1. Awaited(q) = Awaited(op[Loop]) /\ Aims(q) = Aims(op[Loop])
      BY <1>1, <2>4 DEF Awaited, Aims, Writing
    <3>2. \A u \in Actors : Awaited(G[u]) = Awaited(op[u]) /\ Aims(G[u]) = Aims(op[u])
      <4>1. ASSUME NEW u \in Actors
            PROVE  Awaited(G[u]) = Awaited(op[u]) /\ Aims(G[u]) = Aims(op[u])
        BY <2>2, SameAims
      <4> QED
        BY <4>1
    <3> QED
      BY <2>5, <3>1, <3>2
  <2>7. Present(blocks') \subseteq Present(blocks)
    BY <2>1 DEF Present
  <2>8. Coming(blocks', op') \subseteq Coming(blocks, op)
    BY <2>6, <2>7 DEF Coming
  <2>9. Due(manifests', op') \subseteq Due(manifests, op)
    BY <1>1, <2>6 DEF Due
  <2>10. op[Loop].phase \in Writing /\ op'[Loop].phase \notin Temporary
    BY <1>1, <2>4, <2>5 DEF Writing, Temporary
  <2> QED
    BY <1>1, <2>2, <2>5, <2>8, <2>9, <2>10, KeepsQInv
<1> QED
  BY <1>3, <1>4

\* A damaged block takes as much space as a whole one.
LEMMA DamageBlockQInv ==
  ASSUME IInv, QInv, NEW b \in Blocks, DamageBlock(b)
  PROVE  QInv'
<1>1. /\ blocks' = [blocks EXCEPT ![b] = "damaged"] /\ op' = Betrayed(b) /\ blocks[b] = "whole"
      /\ blocks \in [Blocks -> Files] /\ UNCHANGED <<manifests, litter, crashes, overlapped>>
  BY DEF DamageBlock, IInv, Typed
<1>2. \A u \in Actors : /\ op'[u].phase = op[u].phase /\ op'[u].blocks = op[u].blocks
                        /\ op'[u].at = op[u].at /\ op'[u].of = op[u].of
  BY <1>1, BetrayedFields
<1>3. ASSUME NEW u \in Actors
      PROVE  Awaited(op'[u]) = Awaited(op[u]) /\ Aims(op'[u]) = Aims(op[u])
  BY <1>2, SameAims
<1>4. \A c \in Blocks : blocks'[c] = "none" <=> blocks[c] = "none"
  BY <1>1
<1>5. Coming(blocks', op') = Coming(blocks, op)
  <2>1. Present(blocks') = Present(blocks)
    BY <1>4 DEF Present
  <2> QED
    BY <1>3, <2>1 DEF Coming
<1>6. Due(manifests', op') = Due(manifests, op)
  BY <1>1, <1>3 DEF Due
<1>7. \A u \in Actors : Missing(op'[u], blocks', manifests') <=> Missing(op[u], blocks, manifests)
  <2> SUFFICES ASSUME NEW u \in Actors
               PROVE  Missing(op'[u], blocks', manifests') <=> Missing(op[u], blocks, manifests)
    OBVIOUS
  <2>1. op[u].phase = "temp" => op[u].blocks[op[u].at] \in Blocks
    BY OneSound DEF Sound, Shaped
  <2> QED
    BY <1>1, <1>2, <1>4, <2>1 DEF Missing
<1>8. Bounded'
  BY <1>1, <1>5, <1>6 DEF QInv, Bounded, Final
<1>9. Solo'
  BY <1>1, <1>2 DEF QInv, Solo
<1>10. Fresh'
  BY <1>1, <1>2, <1>7 DEF QInv, Fresh
<1>11. Apart'
  BY <1>2, <1>7 DEF QInv, Apart
<1> QED
  BY <1>1, <1>8, <1>9, <1>10, <1>11 DEF QInv

---------------------------------------------------------------------------
\* All steps.

\* An empty store.
LEMMA InitQInv == Init => QInv
<1> SUFFICES ASSUME Init PROVE QInv
  OBVIOUS
<1>1. /\ blocks = [b \in Blocks |-> "none"] /\ manifests = {} /\ litter = {}
      /\ op = [t \in Actors |-> Idle] /\ overlapped = FALSE
  BY DEF Init
<1>2. \A t \in Actors : op[t].phase \notin Writing /\ op[t].phase \notin Temporary
  BY <1>1, IdleFacts DEF Writing, Temporary
<1>3. Coming(blocks, op) = {} /\ Due(manifests, op) = {}
  <2>1. \A t \in Actors : Awaited(op[t]) = {} /\ Aims(op[t]) = {}
    BY <1>2, NotWriting
  <2>2. Present(blocks) = {}
    BY <1>1 DEF Present
  <2> QED
    BY <1>1, <2>1, <2>2 DEF Coming, Due
<1>4. LitterBytes({}) = 0
  <2>1. DOMAIN [f \in {} |-> f.bytes] = {}
    OBVIOUS
  <2> QED
    BY <2>1, SumEmpty DEF LitterBytes, SumFunction
<1>5. Bounded
  <2>1. Final(blocks, manifests, op, litter) = 0
    BY <1>1, <1>3, <1>4, WeightNothing DEF Final
  <2>2. Quota \in Nat
    BY StoreAssumptions DEF StoreAssumptions
  <2> QED
    BY <1>1, <2>1, <2>2 DEF Bounded
<1>6. IsFiniteSet(litter)
  BY <1>1, FS_EmptySet
<1>7. Loop \in Actors
  BY DEF Actors
<1>8. Solo /\ Fresh /\ Apart
  BY <1>2, <1>7 DEF Solo, Fresh, Apart
<1> QED
  BY <1>5, <1>6, <1>8 DEF QInv

\* A step that leaves files and operations alone.
LEMMA QuietQInv ==
  ASSUME QInv, UNCHANGED <<blocks, manifests, litter, op, crashes, overlapped>>
  PROVE  QInv'
<1>1. IsFiniteSet(litter)'
  BY DEF QInv
<1>2. Bounded'
  BY DEF QInv, Bounded
<1>3. Solo' /\ Fresh' /\ Apart'
  BY DEF QInv, Solo, Fresh, Apart
<1> QED
  BY <1>1, <1>2, <1>3 DEF QInv

\* The steps of readers.
LEMMA ReadersQInv ==
  ASSUME IInv, QInv,
         \/ \E a \in Artifacts : CommitManifest(a)
         \/ \E t \in Threads, a \in Artifacts : Export(t, a)
         \/ \E t \in Threads : StartCopy(t) \/ CopyBlock(t) \/ FinishExport(t)
         \/ \E t \in Actors : Fail(t)
  PROVE  QInv'
<1>1. \A a \in Artifacts : /\ Started("commit", "verify", {a}, Content[a]).phase \notin Writing
                           /\ Started("export", "verify", {a}, Content[a]).phase \notin Writing
  BY StartedFields DEF Writing
<1>2. CASE \E a \in Artifacts : CommitManifest(a)
  BY <1>1, <1>2, ReadsQInv DEF CommitManifest, Actors
<1>3. CASE \E t \in Threads, a \in Artifacts : Export(t, a)
  BY <1>1, <1>3, ReadsQInv DEF Export, Actors
<1>4. ASSUME NEW t \in Threads, StartCopy(t) PROVE QInv'
  <2> DEFINE q == [op[t] EXCEPT !.phase = "copy", !.at = 1]
  <2>1. t \in Actors /\ op' = [op EXCEPT ![t] = q]
        /\ UNCHANGED <<blocks, manifests, litter, crashes, overlapped>>
    BY <1>4 DEF StartCopy, Actors
  <2>2. op[t] \in Operation
    BY <2>1, OneSound
  <2>3. q.phase \notin Writing
    BY <2>2 DEF Operation, Writing
  <2> QED
    BY <2>1, <2>3, ReadsQInv
<1>5. ASSUME NEW t \in Threads, CopyBlock(t) PROVE QInv'
  <2> DEFINE q == [op[t] EXCEPT !.at = op[t].at + 1,
                                !.good = op[t].good /\ blocks[Current(t)] = "whole"]
  <2>1. t \in Actors /\ UNCHANGED <<blocks, manifests, litter, crashes, overlapped>>
        /\ op[t].phase = "copy"
    BY <1>5 DEF CopyBlock, Actors
  <2>2. op[t] \in Operation
    BY <2>1, OneSound
  <2>3. q.phase \notin Writing
    BY <2>1, <2>2 DEF Operation, Writing
  <2>4. Ends(t) \/ op' = [op EXCEPT ![t] = q]
    BY <1>5 DEF CopyBlock
  <2> QED
    BY <2>1, <2>3, <2>4, ReadsQInv, EndsQInv
<1>6. CASE \E t \in Threads : FinishExport(t)
  BY <1>6, EndsQInv DEF FinishExport, Actors
<1>7. CASE \E t \in Actors : Fail(t)
  BY <1>7, EndsQInv DEF Fail
<1> QED
  BY <1>2, <1>3, <1>4, <1>5, <1>6, <1>7

\* Every step keeps the bound.
LEMMA StepQInv == IInv /\ QInv /\ [Next]_vars => QInv'
<1> SUFFICES ASSUME IInv, QInv, [Next]_vars PROVE QInv'
  OBVIOUS
<1>1. CASE UNCHANGED vars
  BY <1>1, QuietQInv DEF vars
<1>2. CASE TakeExport
  BY <1>2, QuietQInv DEF TakeExport
<1>3. CASE Next /\ ~ TakeExport
  BY <1>3, ImportQInv, ImportBlockQInv, RenameBlockQInv, WriteManifestQInv, PublishManifestQInv,
     StoreBlockQInv, RemoveBlockQInv, WriteBlockQInv, RenameRefusedQInv, VerifyBlockQInv, CheckManifestQInv,
     ReadersQInv, CrashQInv, DamageBlockQInv
     DEF Next
<1> QED
  BY <1>1, <1>2, <1>3

\* The quota.
LEMMA QuotaFollows ==
  ASSUME IInv, QInv
  PROVE  QuotaKept
<1>1. Used <= Final(blocks, manifests, op, litter)
                + (IF overlapped THEN Others * LargestFile ELSE 0)
  BY UsedBound
<1>2. Final(blocks, manifests, op, litter) <= Quota + (IF overlapped THEN Excess(crashes) ELSE 0)
  BY DEF QInv, Bounded
<1>3. /\ Used \in Nat /\ Final(blocks, manifests, op, litter) \in Nat
      /\ Quota \in Nat /\ crashes \in Nat /\ overlapped \in BOOLEAN
  BY UsedNat, FinalNat, StoreAssumptions DEF StoreAssumptions, IInv, Typed
<1>4. /\ Excess(crashes) \in Nat /\ Excess(crashes + 1) = Excess(crashes) + Others * LargestFile
      /\ Others * LargestFile \in Nat
  BY <1>3, ExcessFacts
<1>5. Used <= Quota + (IF overlapped THEN Excess(crashes + 1) ELSE 0)
  BY <1>1, <1>2, <1>3, <1>4
<1> QED
  BY <1>5 DEF QuotaKept, Excess, Others

---------------------------------------------------------------------------
\* Results.

\* Files, operations and histories only take the values they are meant to take, at every
\* point of import, store_block, commit_manifest and export, failed or cut off.
THEOREM TypeCorrect == Spec => []TypeOK
<1>1. IInv => TypeOK
  BY DEF IInv, Typed, Sound, TypeOK
<1> QED
  BY <1>1, Invariant, PTL

\* However imports, store_block, commit_manifest, failures and crashes interleave, a
\* manifest in the store has every one of its blocks, but for those that were damaged, or
\* removed by store_block, after they had been relied on, and those that write_atomic took
\* unread for an import when they were damaged already.
THEOREM ManifestsComplete == Spec => []PublishedIsWhole
<1>1. IInv => PublishedIsWhole
  BY DEF IInv
<1> QED
  BY <1>1, Invariant, PTL

\* export copies wrong bytes only when a block was hurt after export had verified it.
THEOREM ExportsRight == Spec => []ExportedIsWhole
<1>1. IInv => ExportedIsWhole
  BY DEF IInv
<1> QED
  BY <1>1, Invariant, PTL

\* Imports, received blocks and commits that do not overlap keep the store within its quota,
\* whatever fails, is damaged or cut off; writers that overlap exceed it by no more than an
\* artifact for each of the others, and a file for each of the others now and at each end
\* of the process.
THEOREM QuotaHolds == Spec => []QuotaKept
<1>1. Init => IInv /\ QInv
  BY InitIInv, InitQInv
<1>2. IInv /\ QInv /\ [Next]_vars => (IInv /\ QInv)'
  BY StepIInv, StepQInv
<1>3. IInv /\ QInv => QuotaKept
  BY QuotaFollows
<1> QED
  BY <1>1, <1>2, <1>3, PTL DEF Spec

=============================================================================
