-------------------------------- MODULE Updater --------------------------------
(***************************************************************************)
(* The updater helper: it replaces one executable (the target) by a        *)
(* verified one, keeps the previous one as a backup, checks that the new   *)
(* one starts, and rolls back when it does not.                            *)
(*                                                                         *)
(* One operation on the file system is one step, since the machine may go  *)
(* down between any two. A helper may be started again afterwards, with    *)
(* whatever the disk then holds.                                           *)
(***************************************************************************)
EXTENDS Naturals

CONSTANTS
  Versions,     \* the executables, named by their version
  Healthy,      \* those that pass the health check
  Nothing,      \* no file
  Part,         \* a file cut short
  MaxTries,     \* attempts to move the target away (120 in the code)
  MaxRuns       \* bound on the helpers started, one after the other

ASSUME UpdaterAssumptions ==
  /\ Healthy \subseteq Versions
  /\ Nothing \notin Versions /\ Part \notin Versions /\ Nothing # Part
  /\ MaxTries \in Nat \ {0}
  /\ MaxRuns \in Nat

VARIABLES
  disk,         \* the files: target, prepared copy, backup, version marker
  helper,       \* where the helper is, and its arguments and locals
  outcome,      \* how the last helper ended
  before,       \* target and marker as the last helper that began to work found them
  lost,         \* an operation whose result that helper ignores has failed
  runs

vars == <<disk, helper, outcome, before, lost, runs>>

Files == Versions \cup {Nothing, Part}

Disk == [target : Files, prepared : Files, backup : Files, marker : Files]

Places ==
  {"off", "check", "clear", "copy", "copying", "free", "away", "activate", "undo",
   "mark", "start", "settle", "remove", "restore", "unmark", "clean"}

Helper ==
  [at      : Places,
   exe     : Versions,            \* the replacement
   restart : BOOLEAN,             \* not no_restart
   marks   : BOOLEAN,             \* version_marker is given
   tries   : 0..(MaxTries - 1),   \* attempts that have failed
   saved   : Files]               \* previous_marker

Outcomes == {"none", "refused", "late", "restored", "unchecked", "applied", "crashed"}

---------------------------------------------------------------------------
\* The helper at one place goes on to another, or ends.

At(place) == helper.at = place
Goes(place) == helper' = [helper EXCEPT !.at = place] /\ UNCHANGED <<outcome, before, runs>>
Ends(how) ==
  /\ helper' = [helper EXCEPT !.at = "off"]
  /\ outcome' = how
  /\ UNCHANGED <<before, runs>>

\* An operation on the disk that succeeds, one that fails, and one whose failure is
\* ignored (let _ = ...).
Does(d)    == disk' = d /\ UNCHANGED lost
Fails      == UNCHANGED <<disk, lost>>
Tries(d)   == Does(d) \/ (disk' = disk /\ lost' = TRUE)

Without(file) == [disk EXCEPT ![file] = Nothing]

\* fs::rename, which replaces what is there.
Moved(from, to) == [disk EXCEPT ![to] = disk[from], ![from] = Nothing]

---------------------------------------------------------------------------
Init ==
  /\ \E v \in Healthy, m \in BOOLEAN, b \in Versions \cup {Nothing} :
       disk = [target |-> v, prepared |-> Nothing, backup |-> b,
               marker |-> IF m THEN v ELSE Nothing]
  /\ helper = [at |-> "off", exe |-> disk.target, restart |-> FALSE, marks |-> FALSE,
               tries |-> 0, saved |-> Nothing]
  /\ outcome = "none"
  /\ before = [target |-> disk.target, marker |-> disk.marker]
  /\ lost = FALSE
  /\ runs = 0

\* The Agent or the Debugger starts the helper with a verified executable. A marker
\* is given only for the Debugger, which is restarted.
Start(v, restart, marks) ==
  /\ At("off") /\ runs < MaxRuns
  /\ marks => restart
  /\ helper' = [at |-> "check", exe |-> v, restart |-> restart, marks |-> marks,
                tries |-> 0, saved |-> Nothing]
  /\ outcome' = "none"
  /\ runs' = runs + 1
  /\ UNCHANGED <<disk, before, lost>>

\* The target must be there and, for a restart, the arguments readable.
Check ==
  /\ At("check")
  /\ UNCHANGED disk
  /\ \/ /\ disk.target # Nothing
        /\ helper' = [helper EXCEPT !.at = "clear"]
        /\ before' = [target |-> disk.target, marker |-> disk.marker]
        /\ lost' = FALSE
        /\ UNCHANGED <<outcome, runs>>
     \/ (disk.target = Nothing \/ helper.restart) /\ Ends("refused") /\ UNCHANGED lost

\* A stale prepared copy is removed.
ClearStale ==
  /\ At("clear")
  /\ \/ Does(Without("prepared")) /\ Goes("copy")
     \/ disk.prepared # Nothing /\ Fails /\ Ends("refused")

\* fs::copy grows the prepared file; until it ends the file is cut short.
CopyBegins ==
  /\ At("copy")
  /\ \/ Does([disk EXCEPT !.prepared = Part]) /\ Goes("copying")
     \/ Fails /\ Ends("refused")

\* Mutant: a copy that fails is taken for one that ended.
CopyEndsUnchecked ==
  /\ At("copying")
  /\ \/ Does([disk EXCEPT !.prepared = helper.exe]) /\ Goes("free")
     \/ Fails /\ Goes("free")

CopyEnds ==
  /\ At("copying")
  /\ \/ Does([disk EXCEPT !.prepared = helper.exe]) /\ Goes("free")
     \/ Fails /\ Ends("refused")

\* An attempt to move the target away first makes room for it.
FreeBackup ==
  /\ At("free")
  /\ Goes("away")
  /\ \/ disk.backup = Nothing /\ Fails
     \/ disk.backup # Nothing /\ Tries(Without("backup"))

\* Mutants: an attempt too many; no limit on the attempts.
MoveAwayOnceMore ==
  /\ At("away")
  /\ \/ Does(Moved("target", "backup")) /\ Goes("activate")
     \/ /\ helper.tries < MaxTries
        /\ helper' = [helper EXCEPT !.at = "free", !.tries = @ + 1]
        /\ Fails /\ UNCHANGED <<outcome, before, runs>>
     \/ helper.tries = MaxTries /\ Tries(Without("prepared")) /\ Ends("late")
MoveAwayForever ==
  /\ At("away")
  /\ \/ Does(Moved("target", "backup")) /\ Goes("activate")
     \/ Fails /\ Goes("free")

\* The target is moved to the backup; after MaxTries failures the helper gives up.
MoveAway ==
  /\ At("away")
  /\ \/ Does(Moved("target", "backup")) /\ Goes("activate")
     \/ /\ helper.tries + 1 < MaxTries
        /\ helper' = [helper EXCEPT !.at = "free", !.tries = @ + 1]
        /\ Fails /\ UNCHANGED <<outcome, before, runs>>
     \/ /\ helper.tries + 1 >= MaxTries
        /\ Tries(Without("prepared")) /\ Ends("late")

Activate ==
  /\ At("activate")
  /\ \/ Does(Moved("prepared", "target")) /\ Goes("mark")
     \/ Fails /\ Goes("undo")

\* The activation failed: the backup goes back.
UndoActivation ==
  At("undo") /\ Tries(Moved("backup", "target")) /\ Ends("restored")

\* The marker, if any, gets the new version; what it held is read first. A write that
\* fails may have cut it short, and a read that fails counts as no marker.
Mark ==
  /\ At("mark")
  /\ \/ ~helper.marks /\ Fails /\ Goes("start")
     \/ /\ helper.marks
        /\ \E saved \in {disk.marker, Nothing} :
             /\ lost' = (lost \/ saved # disk.marker)
             /\ \/ /\ helper' = [helper EXCEPT !.at = "start", !.saved = saved]
                   /\ disk' = [disk EXCEPT !.marker = helper.exe]
                \/ /\ helper' = [helper EXCEPT !.at = "remove", !.saved = saved]
                   /\ \E m \in {disk.marker, Part} : disk' = [disk EXCEPT !.marker = m]
        /\ UNCHANGED <<outcome, before, runs>>

\* The new executable is run: once for its version, or for good.
RunNew ==
  /\ At("start")
  /\ Fails
  /\ \/ helper.restart /\ Goes("settle")
     \/ ~helper.restart /\ disk.target \in Healthy /\ Goes("clean")
     \/ Goes("remove")

\* Two seconds later it must still run. A failing status query ends the helper at once.
Settle ==
  /\ At("settle")
  /\ Fails
  /\ \/ disk.target \in Healthy /\ Goes("clean")
     \/ Goes("remove")
     \/ Ends("unchecked")

\* Mutant of the next definition: the roll back removes the backup.
RemoveTargetAndBackup ==
  At("remove") /\ Tries([disk EXCEPT !.target = Nothing, !.backup = Nothing]) /\ Goes("restore")

\* rollback: the new executable is removed, the backup goes back.
RemoveTarget ==
  At("remove") /\ Tries(Without("target")) /\ Goes("restore")

\* Mutant: the marker of the new version stays.
RestoreTargetOnly ==
  At("restore") /\ Tries(Moved("backup", "target")) /\ Ends("restored")

RestoreTarget ==
  /\ At("restore")
  /\ Tries(Moved("backup", "target"))
  /\ IF helper.marks THEN Goes("unmark") ELSE Ends("restored")

\* restore_marker; a write that fails, unnoticed, may cut the marker short.
RestoreMarker ==
  /\ At("unmark")
  /\ Ends("restored")
  /\ \/ Does([disk EXCEPT !.marker = helper.saved])
     \/ /\ \E m \in {disk.marker, Part} : disk' = [disk EXCEPT !.marker = m]
        /\ lost' = TRUE

\* The replacement and the arguments are removed; the backup is kept.
CleanUp ==
  At("clean") /\ Fails /\ Ends("applied")

\* The helper or the machine goes down.
Crash ==
  ~At("off") /\ Fails /\ Ends("crashed")

Step ==
  \/ Check \/ ClearStale \/ CopyBegins \/ CopyEnds \/ FreeBackup \/ MoveAway
  \/ Activate \/ UndoActivation \/ Mark \/ RunNew \/ Settle
  \/ RemoveTarget \/ RestoreTarget \/ RestoreMarker \/ CleanUp

Next ==
  \/ \E v \in Versions, restart, marks \in BOOLEAN : Start(v, restart, marks)
  \/ Step
  \/ Crash

Spec == Init /\ [][Next]_vars

\* Every call of the helper returns, so it goes on until it ends.
FairSpec == Spec /\ WF_vars(Step)

---------------------------------------------------------------------------
\* Properties.

\* The values the state takes.
TypeOK ==
  /\ disk \in Disk
  /\ helper \in Helper
  /\ outcome \in Outcomes
  /\ before \in [target : Files, marker : Files]
  /\ lost \in BOOLEAN
  /\ runs \in 0..MaxRuns

\* A copy cut short by an error or a crash never gets into the place of the target, in
\* this run or in a later one that finds it.
NeverPartial == disk.target # Part /\ disk.backup # Part

\* "retains the previous binary": whatever fails or crashes, the executable the helper
\* found is the target or the backup, until another helper begins to work.
PreviousKept == before.target \in {disk.target, disk.backup}

\* What the helper reports is so. Applied: the new executable is in place with its
\* version. Restored or late: target and marker are what they were, unless an operation
\* failed whose result is ignored.
ReportIsTrue ==
  At("off") =>
    /\ outcome = "applied" =>
         /\ disk.target = helper.exe /\ disk.target \in Healthy
         /\ helper.marks => disk.marker = helper.exe
    /\ outcome \in {"restored", "late"} /\ ~lost =>
         disk.target = before.target /\ disk.marker = before.marker

\* How far each place is from the end, on the longest way there.
FarFrom ==
  [off |-> 0, clean |-> 1, unmark |-> 1, undo |-> 1, restore |-> 2, remove |-> 3, settle |-> 4,
   start |-> 5, mark |-> 6, activate |-> 7, away |-> 8, free |-> 9, copying |-> 10,
   copy |-> 11, clear |-> 12, check |-> 13]

\* The operations a helper may still carry out: an attempt that fails leads back one place,
\* but not as often.
Ahead == FarFrom[helper.at] + 2 * (MaxTries - 1 - helper.tries)

\* Whatever fails, a helper that works gets nearer to its end with each operation: it never
\* does more than these, and so it cannot keep the Agent or the Debugger from starting.
HelperAdvances ==
  [][~ At("off") => Ahead <= 2 * MaxTries + 11 /\ Ahead' < Ahead]_vars

\* A helper that is not interrupted ends, even when the target never becomes free.
HelperEnds == ~At("off") ~> At("off")

\* Atomic replacement: when no helper runs, there is an executable to run.
TargetThere == At("off") => disk.target # Nothing

=============================================================================
