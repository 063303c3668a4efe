----------------------------- MODULE ArtifactStore -----------------------------
(***************************************************************************)
(* The content-addressed store of one Agent. Imports and exports run on    *)
(* threads of their own, while the event loop stores the blocks of         *)
(* downloads and commits their manifests; nothing but the file system      *)
(* keeps them apart. A step of this module is what one of them does        *)
(* between two looks at the disk; the process may end between any two, and *)
(* the disk may damage a block.                                            *)
(*                                                                         *)
(* A temporary file appears with all its bytes, and a quota check reads    *)
(* the directories in one step.                                            *)
(***************************************************************************)
EXTENDS Integers, Sequences, FiniteSets, FiniteSetsExt, Functions

CONSTANTS
  Threads,        \* the blocking threads that import and export
  Loop,           \* the event loop
  Blocks,         \* content ids of blocks
  Artifacts,      \* content ids of artifacts
  Content,        \* the blocks of each artifact, in order
  Size,           \* the bytes of each block
  ManifestBytes,  \* the bytes of a manifest file
  Quota,          \* quota_bytes
  MaxCrashes,     \* bound on the ends of the process during operations
  MaxDamages      \* bound on the blocks the disk damages

\* There is something to share, and the blocks are those of the artifacts: store_block is
\* called for the blocks of a download's manifest only.
ASSUME StoreAssumptions ==
  /\ Loop \notin Threads
  /\ IsFiniteSet(Threads) /\ IsFiniteSet(Blocks) /\ IsFiniteSet(Artifacts)
  /\ Content \in [Artifacts -> Seq(Blocks)]
  /\ Artifacts # {} /\ \A b \in Blocks : \E a \in Artifacts : b \in Range(Content[a])
  /\ Size \in [Blocks -> Nat \ {0}]
  /\ ManifestBytes \in Nat \ {0}
  /\ Quota \in Nat
  /\ MaxCrashes \in Nat
  /\ MaxDamages \in Nat

VARIABLES
  blocks,      \* blocks/sha256: what the file of each block holds, if there is one
  manifests,   \* manifests/sha256: the published artifacts
  litter,      \* the temporary files that earlier processes left
  op,          \* the operation under way on each thread and in the loop
  exported,    \* the file at the destination of exports
  crashes, damages,
  overlapped,  \* history: a quota check passed while another writer was at work
  excused      \* history: blocks that have a named reason not to be whole

vars == <<blocks, manifests, litter, op, exported, crashes, damages, overlapped, excused>>

Actors == Threads \cup {Loop}

Files == {"none", "whole", "damaged"}

Kinds == {"none", "import", "store", "commit", "export"}

(***************************************************************************)
(* block: the next block of an import is looked at; after the last, its    *)
(* manifest. verify: the next block is read and hashed. remove: what       *)
(* store_block does first. write: write_atomic looks whether a file has    *)
(* the name. manifest: the space for a manifest is checked. temp, mtemp: a *)
(* temporary block or manifest waits for its rename. copy: the next block  *)
(* goes to the file being exported.                                        *)
(***************************************************************************)
Phases ==
  {"idle", "block", "verify", "remove", "write", "manifest", "temp", "mtemp", "copy"}

Operation ==
  [kind     : Kinds,
   phase    : Phases,
   of       : SUBSET Artifacts,   \* the artifact, if the operation has one
   blocks   : Seq(Blocks),
   at       : Nat,                \* position of the next block
   good     : BOOLEAN,            \* export: every byte copied was right
   betrayed : BOOLEAN]            \* history, for exports: a block already seen was hurt

\* Where each kind of operation can be.
PhasesOf ==
  [none |-> {"idle"}, import |-> {"block", "write", "temp", "mtemp"},
   store |-> {"remove", "write", "temp"}, commit |-> {"verify", "manifest", "mtemp"},
   export |-> {"verify", "copy"}]

Idle ==
  [kind |-> "none", phase |-> "idle", of |-> {}, blocks |-> <<>>, at |-> 1,
   good |-> TRUE, betrayed |-> FALSE]

Started(kind, phase, of, seq) ==
  [Idle EXCEPT !.kind = kind, !.phase = phase, !.of = of, !.blocks = seq]

---------------------------------------------------------------------------
\* Space.

BytesOf(S) == SumFunctionOnSet(Size, S)

\* The temporary file an operation holds in the store's directories.
TempBytes(o) ==
  CASE o.phase = "temp"  -> Size[o.blocks[o.at]]
    [] o.phase = "mtemp" -> ManifestBytes
    [] OTHER             -> 0

\* Temporary files are named after the process and a count, so none meets another.
TempFile == [process : Nat, by : Actors, bytes : Nat]

\* stats: every file counts, temporary ones and those of earlier processes too.
Used ==
  BytesOf({b \in Blocks : blocks[b] # "none"})
    + ManifestBytes * Cardinality(manifests)
    + SumFunction([f \in litter |-> f.bytes])
    + SumFunction([t \in Actors |-> TempBytes(op[t])])

\* What an import of a has to add: each missing block once, and the manifest.
Required(a) ==
  BytesOf({b \in Range(Content[a]) : blocks[b] = "none"})
    + (IF a \in manifests THEN 0 ELSE ManifestBytes)

\* Mutant: the space in use is compared, not the space that would be. (The mutants in
\* this module are no part of the model; each stands in for the definition after it.)
FitsNow(needed, reclaimable) == needed = 0 \/ Used <= Quota

\* Saturating: a store over its quota has nothing available, and needs of 0 pass.
Fits(needed, reclaimable) ==
  needed <= (IF Used > Quota THEN 0 ELSE Quota - Used) + reclaimable

Writing == {"block", "remove", "write", "manifest", "temp", "mtemp"}

\* t passes its quota check.
Admitted(t) ==
  overlapped' = (overlapped \/ \E u \in Actors \ {t} : op[u].phase \in Writing)

---------------------------------------------------------------------------
\* Damage.

\* The blocks an operation has found or made whole, or has taken unread.
Seen(o) ==
  IF o.phase = "copy" THEN Range(o.blocks)
  ELSE {o.blocks[i] : i \in {k \in DOMAIN o.blocks : k < o.at}}

ReliedOn(b) ==
  \/ \E a \in manifests : b \in Range(Content[a])
  \/ \E t \in Actors : b \in Seen(op[t])

\* An export has verified the block, and reads it again to copy it.
Verified(o, b) == o.kind = "export" /\ b \in Seen(o)

Betrayed(b) ==
  [t \in Actors |-> [op[t] EXCEPT !.betrayed = @ \/ Verified(op[t], b)]]

Excused(b) == IF ReliedOn(b) THEN excused \cup {b} ELSE excused

---------------------------------------------------------------------------
\* Steps shared by several operations.

Ends(t) == op' = [op EXCEPT ![t] = Idle]

Goes(t, phase) == op' = [op EXCEPT ![t].phase = phase]

Current(t) == op[t].blocks[op[t].at]

More(t) == op[t].at <= Len(op[t].blocks)

\* Mutant: store_block goes on to the next block.
RenameBlockGoesOn(t) ==
  /\ op[t].phase = "temp"
  /\ blocks' = [blocks EXCEPT ![Current(t)] = "whole"]
  /\ excused' = excused \ {Current(t)}
  /\ op' = [op EXCEPT ![t].phase = "block", ![t].at = @ + 1]
  /\ UNCHANGED <<manifests, litter, exported, crashes, damages, overlapped>>

\* The rename of write_atomic for a block: in place at once, whatever was there.
RenameBlock(t) ==
  /\ op[t].phase = "temp"
  /\ blocks' = [blocks EXCEPT ![Current(t)] = "whole"]
  /\ excused' = excused \ {Current(t)}
  /\ IF op[t].kind = "store" THEN Ends(t)
     ELSE op' = [op EXCEPT ![t].phase = "block", ![t].at = @ + 1]
  /\ UNCHANGED <<manifests, litter, exported, crashes, damages, overlapped>>

\* write_atomic is content with any file that has the block's name, and does not read it:
\* store_block is done, an import goes on. That the file may be damaged is the second
\* excuse a block can have.
TakesUnread(t) ==
  IF op[t].kind = "store" THEN Ends(t) /\ UNCHANGED excused
  ELSE /\ op' = [op EXCEPT ![t].phase = "block", ![t].at = @ + 1]
       /\ excused' = IF blocks[Current(t)] = "damaged" THEN excused \cup {Current(t)}
                     ELSE excused

\* The look of write_atomic for a block, later than the one that found it missing.
WriteBlock(t) ==
  /\ op[t].phase = "write"
  /\ IF blocks[Current(t)] = "none" THEN Goes(t, "temp") /\ UNCHANGED excused
     ELSE TakesUnread(t)
  /\ UNCHANGED <<blocks, manifests, litter, exported, crashes, damages, overlapped>>

\* Its rename fails, and a file has the name: no error. The temporary file goes. (For a
\* manifest this is an end that changes nothing, as Fail is.)
RenameRefused(t) ==
  /\ op[t].phase = "temp"
  /\ blocks[Current(t)] # "none"
  /\ TakesUnread(t)
  /\ UNCHANGED <<blocks, manifests, litter, exported, crashes, damages, overlapped>>

\* write_atomic for a manifest: an existing one stays.
WriteManifest(t) ==
  /\ \/ op[t].phase = "manifest"
     \/ op[t].phase = "block" /\ ~ More(t)
  /\ IF op[t].of \subseteq manifests THEN Ends(t) ELSE Goes(t, "mtemp")
  /\ UNCHANGED <<blocks, manifests, litter, exported, crashes, damages, overlapped, excused>>

PublishManifest(t) ==
  /\ op[t].phase = "mtemp"
  /\ manifests' = manifests \cup op[t].of
  /\ Ends(t)
  /\ UNCHANGED <<blocks, litter, exported, crashes, damages, overlapped, excused>>

\* read_block: the digest of the next block is checked.
VerifyBlock(t) ==
  /\ op[t].phase = "verify"
  /\ More(t)
  /\ IF blocks[Current(t)] = "whole" THEN op' = [op EXCEPT ![t].at = @ + 1] ELSE Ends(t)
  /\ UNCHANGED <<blocks, manifests, litter, exported, crashes, damages, overlapped, excused>>

---------------------------------------------------------------------------
\* import.

\* describe, what is missing, and the quota; a refusal has written nothing.
Import(t, a) ==
  /\ op[t].phase = "idle"
  /\ Fits(Required(a), 0)
  /\ Admitted(t)
  /\ op' = [op EXCEPT ![t] = Started("import", "block", {a}, Content[a])]
  /\ UNCHANGED <<blocks, manifests, litter, exported, crashes, damages, excused>>

\* The next block is read again, and looked for: a missing one is to be written, a
\* damaged one ends the import.
ImportBlock(t) ==
  /\ op[t].phase = "block"
  /\ More(t)
  /\ CASE blocks[Current(t)] = "none"    -> Goes(t, "write")
       [] blocks[Current(t)] = "whole"   -> op' = [op EXCEPT ![t].at = @ + 1]
       [] blocks[Current(t)] = "damaged" -> Ends(t)
  /\ UNCHANGED <<blocks, manifests, litter, exported, crashes, damages, overlapped, excused>>

---------------------------------------------------------------------------
\* store_block, of a block received whole.

\* A damaged file in its place will be removed first, so its bytes count as free.
StoreBlock(b) ==
  /\ op[Loop].phase = "idle"
  /\ blocks[b] # "whole"
  /\ Fits(Size[b], IF blocks[b] = "damaged" THEN Size[b] ELSE 0)
  /\ Admitted(Loop)
  /\ op' = [op EXCEPT ![Loop] = Started("store", "remove", {}, <<b>>)]
  /\ UNCHANGED <<blocks, manifests, litter, exported, crashes, damages, excused>>

\* Whatever file has the name by now is removed.
RemoveBlock ==
  /\ op[Loop].phase = "remove"
  /\ LET b == Current(Loop)
     IN  IF blocks[b] = "none"
         THEN Goes(Loop, "write") /\ UNCHANGED <<blocks, excused>>
         ELSE /\ blocks' = [blocks EXCEPT ![b] = "none"]
              /\ excused' = Excused(b)
              /\ op' = [Betrayed(b) EXCEPT ![Loop].phase = "write"]
  /\ UNCHANGED <<manifests, litter, exported, crashes, damages, overlapped>>

---------------------------------------------------------------------------
\* commit_manifest.

\* Mutant: the blocks are taken to be there, as the download has stored them.
CommitManifestUnverified(a) ==
  /\ op[Loop].phase = "idle"
  /\ op' = [op EXCEPT
              ![Loop] = [Started("commit", "verify", {a}, Content[a]) EXCEPT
                           !.at = Len(Content[a]) + 1]]
  /\ UNCHANGED <<blocks, manifests, litter, exported, crashes, damages, overlapped, excused>>

CommitManifest(a) ==
  /\ op[Loop].phase = "idle"
  /\ op' = [op EXCEPT ![Loop] = Started("commit", "verify", {a}, Content[a])]
  /\ UNCHANGED <<blocks, manifests, litter, exported, crashes, damages, overlapped, excused>>

\* All blocks are right: there is a manifest already, or its space is checked.
CheckManifest ==
  /\ op[Loop].kind = "commit"
  /\ op[Loop].phase = "verify"
  /\ ~ More(Loop)
  /\ IF op[Loop].of \subseteq manifests \/ ~ Fits(ManifestBytes, 0)
     THEN Ends(Loop) /\ UNCHANGED overlapped
     ELSE Goes(Loop, "manifest") /\ Admitted(Loop)
  /\ UNCHANGED <<blocks, manifests, litter, exported, crashes, damages, excused>>

---------------------------------------------------------------------------
\* export.

\* Mutant: exports what the manifest lists, unverified.
ExportUnverified(t, a) ==
  /\ op[t].phase = "idle"
  /\ exported = {}
  /\ a \in manifests
  /\ op' = [op EXCEPT ![t] = Started("export", "copy", {a}, Content[a])]
  /\ UNCHANGED <<blocks, manifests, litter, exported, crashes, damages, overlapped, excused>>

\* Nothing is at the destination, and there is a manifest.
Export(t, a) ==
  /\ op[t].phase = "idle"
  /\ exported = {}
  /\ a \in manifests
  /\ op' = [op EXCEPT ![t] = Started("export", "verify", {a}, Content[a])]
  /\ UNCHANGED <<blocks, manifests, litter, exported, crashes, damages, overlapped, excused>>

\* The whole artifact has been verified; now it is read once more to be copied.
StartCopy(t) ==
  /\ op[t].kind = "export"
  /\ op[t].phase = "verify"
  /\ ~ More(t)
  /\ op' = [op EXCEPT ![t].phase = "copy", ![t].at = 1]
  /\ UNCHANGED <<blocks, manifests, litter, exported, crashes, damages, overlapped, excused>>

\* A block is copied as it is now; a missing file ends the export.
CopyBlock(t) ==
  /\ op[t].phase = "copy"
  /\ More(t)
  /\ IF blocks[Current(t)] = "none" THEN Ends(t)
     ELSE op' = [op EXCEPT ![t].at = @ + 1,
                           ![t].good = @ /\ blocks[Current(t)] = "whole"]
  /\ UNCHANGED <<blocks, manifests, litter, exported, crashes, damages, overlapped, excused>>

\* The rename: the destination is not looked at again.
FinishExport(t) ==
  /\ op[t].phase = "copy"
  /\ ~ More(t)
  /\ exported' = {[good |-> op[t].good, betrayed |-> op[t].betrayed]}
  /\ Ends(t)
  /\ UNCHANGED <<blocks, manifests, litter, crashes, damages, overlapped, excused>>

\* The owner takes the exported file away.
TakeExport ==
  /\ exported # {}
  /\ exported' = {}
  /\ UNCHANGED <<blocks, manifests, litter, op, crashes, damages, overlapped, excused>>

---------------------------------------------------------------------------
\* What can go wrong.

\* A source that changed or grew, or an I/O error: a temporary file is removed.
Fail(t) ==
  /\ op[t].phase # "idle"
  /\ Ends(t)
  /\ UNCHANGED <<blocks, manifests, litter, exported, crashes, damages, overlapped, excused>>

\* The process ends; temporary files stay, and nobody looks for them again.
Crash ==
  /\ crashes < MaxCrashes
  /\ \E t \in Actors : op[t].phase # "idle"
  /\ crashes' = crashes + 1
  /\ litter' = litter \cup
       {[process |-> crashes, by |-> t, bytes |-> TempBytes(op[t])] :
          t \in {u \in Actors : op[u].phase \in {"temp", "mtemp"}}}
  /\ op' = [t \in Actors |-> Idle]
  /\ UNCHANGED <<blocks, manifests, exported, damages, overlapped, excused>>

DamageBlock(b) ==
  /\ damages < MaxDamages
  /\ blocks[b] = "whole"
  /\ damages' = damages + 1
  /\ blocks' = [blocks EXCEPT ![b] = "damaged"]
  /\ op' = Betrayed(b)
  /\ excused' = Excused(b)
  /\ UNCHANGED <<manifests, litter, exported, crashes, overlapped>>

---------------------------------------------------------------------------
\* open, on an empty directory.
Init ==
  /\ blocks = [b \in Blocks |-> "none"]
  /\ manifests = {}
  /\ litter = {}
  /\ op = [t \in Actors |-> Idle]
  /\ exported = {}
  /\ crashes = 0 /\ damages = 0
  /\ overlapped = FALSE
  /\ excused = {}

Next ==
  \/ \E t \in Threads, a \in Artifacts : Import(t, a)
  \/ \E t \in Threads : ImportBlock(t)
  \/ \E t \in Actors : WriteBlock(t)
  \/ \E t \in Actors : RenameBlock(t)
  \/ \E t \in Actors : RenameRefused(t)
  \/ \E t \in Actors : WriteManifest(t)
  \/ \E t \in Actors : PublishManifest(t)
  \/ \E b \in Blocks : StoreBlock(b)
  \/ RemoveBlock
  \/ \E a \in Artifacts : CommitManifest(a)
  \/ \E t \in Actors : VerifyBlock(t)
  \/ CheckManifest
  \/ \E t \in Threads, a \in Artifacts : Export(t, a)
  \/ \E t \in Threads : StartCopy(t)
  \/ \E t \in Threads : CopyBlock(t)
  \/ \E t \in Threads : FinishExport(t)
  \/ TakeExport
  \/ \E t \in Actors : Fail(t)
  \/ Crash
  \/ \E b \in Blocks : DamageBlock(b)

Spec == Init /\ [][Next]_vars

---------------------------------------------------------------------------
\* Properties.

\* The values the state takes.
TypeOK ==
  /\ blocks \in [Blocks -> Files]
  /\ manifests \in SUBSET Artifacts
  /\ litter \in SUBSET TempFile
  /\ op \in [Actors -> Operation]
  /\ \A t \in Actors : op[t].phase \in PhasesOf[op[t].kind]
  /\ exported \in SUBSET [good : BOOLEAN, betrayed : BOOLEAN]
  /\ crashes \in Nat /\ damages \in Nat
  /\ overlapped \in BOOLEAN
  /\ excused \in SUBSET Blocks

\* "atomically publish manifests": whatever operations interleave, fail or are cut off,
\* a published artifact has all its blocks, but for those with one of two excuses, which
\* end when the block is written again: it was hurt, by the disk or by a store_block that
\* removes it to write it anew, after an operation had found, made or published it whole;
\* or an import took it damaged because write_atomic reads no file it finds.
PublishedIsWhole ==
  \A a \in manifests : \A b \in Range(Content[a]) : blocks[b] = "whole" \/ b \in excused

LargestArtifact == Max({BytesOf(Range(Content[a])) + ManifestBytes : a \in Artifacts})

LargestFile == Max({Size[b] : b \in Blocks} \cup {ManifestBytes})

\* "check the node's disk quota before committing": the quota holds as long as writers
\* do not overlap, failures, crashes and their litter included. Overlapping writers each
\* see the space the others have not used yet, and exceed it by an artifact for each of
\* the others; and writers that were both admitted for one file, or that write again what
\* store_block removed, have a temporary file each, which the end of a process leaves.
QuotaKept ==
  LET others == Cardinality(Actors) - 1
  IN  Used <= Quota + (IF overlapped
                       THEN others * LargestArtifact + others * LargestFile * (crashes + 1)
                       ELSE 0)

\* "exports happen only after every block and the complete artifact digest pass
\* verification": an exported file is wrong only if a block was hurt after the export
\* had verified it, for the copy reads it once more.
ExportedIsWhole == \A e \in exported : e.good \/ e.betrayed

=============================================================================
