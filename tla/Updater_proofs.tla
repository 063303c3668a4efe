----------------------------- MODULE Updater_proofs -----------------------------
(***************************************************************************)
(* What the updater helper keeps, for any executables, any number of       *)
(* attempts and any number of helpers, failures and crashes.               *)
(***************************************************************************)
EXTENDS Updater, TLAPS

\* The executable found is in the backup, the new one is the target.
Swapped == disk.target = helper.exe /\ disk.backup = before.target

\* The marker as it was; or the new version, with what it was saved.
MarkerKept  == disk.marker = before.marker
MarkerSaved == helper.saved = before.marker \/ lost

\* What holds at each place, beyond the three properties.
Placed ==
  /\ helper.at \in {"clear", "copy", "copying", "free", "away"} =>
       disk.target = before.target /\ MarkerKept
  /\ helper.at \in {"free", "away", "activate", "undo"} => disk.prepared = helper.exe
  /\ helper.at \in {"activate", "undo"} =>
       disk.target = Nothing /\ disk.backup = before.target /\ MarkerKept
  /\ helper.at = "mark" => Swapped /\ MarkerKept
  /\ helper.at \in {"start", "settle", "clean"} =>
       /\ Swapped
       /\ IF helper.marks THEN disk.marker = helper.exe /\ MarkerSaved ELSE MarkerKept
  /\ helper.at = "clean" => disk.target \in Healthy
  /\ helper.at = "remove" => Swapped
  /\ helper.at \in {"remove", "restore"} =>
       IF helper.marks THEN MarkerSaved ELSE MarkerKept
  /\ helper.at = "restore" => disk.backup = before.target
  /\ helper.at = "unmark" =>
       helper.marks /\ MarkerSaved /\ (disk.target = before.target \/ lost)

\* The inductive invariant: a crash or a refusal may come at any place, so each place
\* says where the executable that was found is.
IInv == TypeOK /\ NeverPartial /\ PreviousKept /\ ReportIsTrue /\ Placed

\* The constants, as the steps below use them.
LEMMA ConstantFacts ==
  /\ Healthy \subseteq Versions
  /\ Nothing \notin Versions /\ Part \notin Versions /\ Nothing # Part
  /\ MaxTries \in Nat \ {0} /\ MaxRuns \in Nat
BY UpdaterAssumptions DEF UpdaterAssumptions

USE DEF At, Files, Outcomes

\* What the helper's own steps leave: the place changes, the rest does not.
LEMMA HelperExcept ==
  ASSUME helper \in Helper, NEW place \in Places, NEW n \in 0..(MaxTries - 1), NEW f \in Files
  PROVE  /\ LET h == [helper EXCEPT !.at = place]
            IN  /\ h \in Helper /\ h.at = place /\ h.exe = helper.exe
                /\ h.restart = helper.restart /\ h.marks = helper.marks
                /\ h.tries = helper.tries /\ h.saved = helper.saved
         /\ LET h == [helper EXCEPT !.at = place, !.tries = n]
            IN  /\ h \in Helper /\ h.at = place /\ h.exe = helper.exe
                /\ h.marks = helper.marks /\ h.saved = helper.saved
         /\ LET h == [helper EXCEPT !.at = place, !.saved = f]
            IN  /\ h \in Helper /\ h.at = place /\ h.exe = helper.exe
                /\ h.marks = helper.marks /\ h.saved = f
BY DEF Helper

LEMMA GoesFacts ==
  ASSUME TypeOK, NEW place \in Places, Goes(place)
  PROVE  /\ helper' \in Helper /\ helper'.at = place
         /\ helper'.exe = helper.exe /\ helper'.marks = helper.marks
         /\ helper'.restart = helper.restart /\ helper'.saved = helper.saved
         /\ outcome' = outcome /\ before' = before /\ runs' = runs
<1>1. 0 \in 0..(MaxTries - 1)
  BY ConstantFacts
<1>2. helper \in Helper
  BY DEF TypeOK
<1> QED
  BY <1>1, <1>2, HelperExcept DEF Goes

LEMMA EndsFacts ==
  ASSUME TypeOK, NEW how \in Outcomes, Ends(how)
  PROVE  /\ helper' \in Helper /\ helper'.at = "off"
         /\ helper'.exe = helper.exe /\ helper'.marks = helper.marks
         /\ helper'.saved = helper.saved
         /\ outcome' = how /\ before' = before /\ runs' = runs
<1>1. 0 \in 0..(MaxTries - 1)
  BY ConstantFacts
<1>2. helper \in Helper /\ "off" \in Places
  BY DEF TypeOK, Places
<1> QED
  BY <1>1, <1>2, HelperExcept DEF Ends

\* What an operation leaves on the disk, file by file.
LEMMA DiskExcept ==
  ASSUME disk \in Disk, NEW f \in Files
  PROVE  /\ LET d == [disk EXCEPT !.prepared = f]
            IN  /\ d \in Disk /\ d.prepared = f
                /\ d.target = disk.target /\ d.backup = disk.backup /\ d.marker = disk.marker
         /\ LET d == [disk EXCEPT !.marker = f]
            IN  /\ d \in Disk /\ d.marker = f
                /\ d.target = disk.target /\ d.backup = disk.backup /\ d.prepared = disk.prepared
         /\ LET d == Without("prepared")
            IN  /\ d \in Disk /\ d.prepared = Nothing
                /\ d.target = disk.target /\ d.backup = disk.backup /\ d.marker = disk.marker
         /\ LET d == Without("backup")
            IN  /\ d \in Disk /\ d.backup = Nothing
                /\ d.target = disk.target /\ d.prepared = disk.prepared /\ d.marker = disk.marker
         /\ LET d == Without("target")
            IN  /\ d \in Disk /\ d.target = Nothing
                /\ d.backup = disk.backup /\ d.prepared = disk.prepared /\ d.marker = disk.marker
BY DEF Disk, Without

LEMMA MovedFacts ==
  ASSUME disk \in Disk
  PROVE  /\ LET d == Moved("target", "backup")
            IN  /\ d \in Disk /\ d.target = Nothing /\ d.backup = disk.target
                /\ d.prepared = disk.prepared /\ d.marker = disk.marker
         /\ LET d == Moved("prepared", "target")
            IN  /\ d \in Disk /\ d.prepared = Nothing /\ d.target = disk.prepared
                /\ d.backup = disk.backup /\ d.marker = disk.marker
         /\ LET d == Moved("backup", "target")
            IN  /\ d \in Disk /\ d.backup = Nothing /\ d.target = disk.backup
                /\ d.prepared = disk.prepared /\ d.marker = disk.marker
BY DEF Disk, Moved

LEMMA InitIInv == Init => IInv
<1> SUFFICES ASSUME Init PROVE IInv
  OBVIOUS
<1>1. PICK v \in Healthy, m \in BOOLEAN, b \in Versions \cup {Nothing} :
        disk = [target |-> v, prepared |-> Nothing, backup |-> b,
                marker |-> IF m THEN v ELSE Nothing]
  BY DEF Init
<1>2. v \in Versions
  BY ConstantFacts
<1>3. /\ disk.target = v /\ disk.prepared = Nothing /\ disk.backup = b
      /\ disk \in Disk
  BY <1>1, <1>2 DEF Disk
<1>4. /\ helper = [at |-> "off", exe |-> v, restart |-> FALSE, marks |-> FALSE,
                   tries |-> 0, saved |-> Nothing]
      /\ outcome = "none" /\ lost = FALSE /\ runs = 0
      /\ before = [target |-> v, marker |-> disk.marker]
  BY <1>3 DEF Init
<1>5. 0 \in 0..(MaxTries - 1) /\ 0 \in 0..MaxRuns
  BY ConstantFacts
<1>6. helper \in Helper /\ helper.at = "off"
  BY <1>2, <1>4, <1>5 DEF Helper, Places
<1>7. before \in [target : Files, marker : Files] /\ before.target = v
  BY <1>2, <1>3, <1>4 DEF Disk
<1>8. TypeOK
  BY <1>3, <1>4, <1>5, <1>6, <1>7 DEF TypeOK
<1>9. NeverPartial /\ PreviousKept
  BY <1>2, <1>3, <1>7, ConstantFacts DEF NeverPartial, PreviousKept
<1>10. ReportIsTrue /\ Placed
  BY <1>4, <1>6 DEF ReportIsTrue, Placed
<1> QED
  BY <1>8, <1>9, <1>10 DEF IInv

\* A helper is started, or begins to work.
LEMMA StartIInv ==
  ASSUME IInv, NEW v \in Versions, NEW restart \in BOOLEAN, NEW marks \in BOOLEAN,
         Start(v, restart, marks)
  PROVE  IInv'
<1>1. 0 \in 0..(MaxTries - 1) /\ runs + 1 \in 0..MaxRuns
  BY ConstantFacts DEF IInv, TypeOK, Start
<1>2. helper' \in Helper /\ helper'.at = "check"
  BY <1>1 DEF Helper, Places, Start
<1>3. TypeOK'
  BY <1>1, <1>2 DEF IInv, TypeOK, Start
<1>4. NeverPartial' /\ PreviousKept'
  BY DEF IInv, NeverPartial, PreviousKept, Start
<1>5. ReportIsTrue' /\ Placed'
  BY <1>2 DEF ReportIsTrue, Placed
<1> QED
  BY <1>3, <1>4, <1>5 DEF IInv

LEMMA CheckIInv ==
  ASSUME IInv, Check
  PROVE  IInv'
<1>1. CASE Ends("refused") /\ UNCHANGED <<disk, lost>>
  <2>1. TypeOK' /\ helper'.at = "off" /\ outcome' = "refused" /\ before' = before
    BY <1>1, EndsFacts DEF IInv, TypeOK
  <2> QED
    BY <1>1, <2>1 DEF IInv, NeverPartial, PreviousKept, ReportIsTrue, Placed
<1>2. CASE /\ helper' = [helper EXCEPT !.at = "clear"]
           /\ before' = [target |-> disk.target, marker |-> disk.marker]
           /\ lost' = FALSE
           /\ UNCHANGED <<disk, outcome, runs>>
  <2>1. 0 \in 0..(MaxTries - 1)
    BY ConstantFacts
  <2>2. helper' \in Helper /\ helper'.at = "clear"
    <3>1. helper \in Helper /\ "clear" \in Places /\ Nothing \in Files
      BY DEF IInv, TypeOK, Places
    <3> QED
      BY <1>2, <2>1, <3>1, HelperExcept
  <2>3. /\ before' \in [target : Files, marker : Files]
        /\ before'.target = disk.target /\ before'.marker = disk.marker
    BY <1>2 DEF IInv, TypeOK, Disk
  <2>4. TypeOK'
    BY <1>2, <2>2, <2>3 DEF IInv, TypeOK
  <2> QED
    BY <1>2, <2>2, <2>3, <2>4 DEF IInv, NeverPartial, PreviousKept, ReportIsTrue, Placed, MarkerKept
<1> QED
  BY <1>1, <1>2 DEF Check, Ends

(***************************************************************************)
(* An end at a place where the target is still, or again, what was found,  *)
(* and a step that goes on with the disk as it is.                         *)
(***************************************************************************)
LEMMA EndUntouched ==
  ASSUME IInv, NEW how \in {"refused", "late", "unchecked", "crashed"}, Ends(how),
         disk' \in Disk, lost' \in BOOLEAN,
         disk'.target = disk.target, disk'.backup = disk.backup \/ disk.target = before.target,
         disk'.backup # Part, disk'.marker = disk.marker,
         how = "late" => disk.target = before.target /\ MarkerKept
  PROVE  IInv'
<1>1. /\ helper' \in Helper /\ helper'.at = "off" /\ outcome' = how
      /\ before' = before /\ runs' = runs
  BY EndsFacts DEF IInv
<1>2. TypeOK'
  BY <1>1 DEF IInv, TypeOK
<1>3. NeverPartial' /\ PreviousKept'
  BY <1>1 DEF IInv, NeverPartial, PreviousKept
<1>4. ReportIsTrue' /\ Placed'
  BY <1>1 DEF ReportIsTrue, Placed, MarkerKept
<1> QED
  BY <1>2, <1>3, <1>4 DEF IInv

LEMMA CrashIInv ==
  ASSUME IInv, Crash
  PROVE  IInv'
BY EndUntouched DEF Crash, Fails, IInv, TypeOK, NeverPartial

\* A step that goes on to another place.
LEMMA GoneOn ==
  ASSUME IInv, NEW place \in Places \ {"off"}, Goes(place),
         disk' \in Disk, lost' \in BOOLEAN, NeverPartial', PreviousKept', Placed'
  PROVE  IInv'
<1>1. /\ helper' \in Helper /\ helper'.at = place
      /\ outcome' = outcome /\ before' = before /\ runs' = runs
  BY GoesFacts DEF IInv
<1>2. TypeOK'
  BY <1>1 DEF IInv, TypeOK
<1>3. ReportIsTrue'
  BY <1>1 DEF ReportIsTrue
<1> QED
  BY <1>2, <1>3 DEF IInv

LEMMA Typed ==
  ASSUME IInv
  PROVE  /\ TypeOK /\ helper \in Helper /\ helper.exe \in Versions /\ helper.exe \in Files
         /\ disk \in Disk /\ lost \in BOOLEAN /\ helper.saved \in Files
         /\ helper.exe # Part /\ helper.exe # Nothing /\ disk.marker \in Files
         /\ before.target \in Files
BY ConstantFacts DEF IInv, TypeOK, Helper, Disk

\* The copy is made beside the target.
LEMMA CopyIInv ==
  ASSUME IInv, ClearStale \/ CopyBegins \/ CopyEnds
  PROVE  IInv'
<1>1. CASE /\ Fails /\ Ends("refused")
  BY <1>1, Typed, EndUntouched DEF IInv, NeverPartial, Fails
<1>2. CASE ClearStale /\ Does(Without("prepared")) /\ Goes("copy")
  <2>1. /\ disk' \in Disk /\ lost' = lost /\ disk'.target = disk.target
        /\ disk'.backup = disk.backup /\ disk'.marker = disk.marker
    BY <1>2, Typed, DiskExcept DEF Does
  <2>2. "copy" \in Places \ {"off"}
    BY DEF Places
  <2>3. helper'.at = "copy" /\ before' = before
    BY <1>2, <2>2, Typed, GoesFacts
  <2>4. Placed'
    BY <1>2, <2>1, <2>3 DEF ClearStale, IInv, Placed, MarkerKept
  <2> QED
    BY <1>2, <2>1, <2>2, <2>3, <2>4, Typed, GoneOn DEF IInv, NeverPartial, PreviousKept
<1>3. CASE CopyBegins /\ Does([disk EXCEPT !.prepared = Part]) /\ Goes("copying")
  <2>1. /\ disk' \in Disk /\ lost' = lost /\ disk'.target = disk.target
        /\ disk'.backup = disk.backup /\ disk'.marker = disk.marker
    BY <1>3, Typed, DiskExcept DEF Does
  <2>2. "copying" \in Places \ {"off"}
    BY DEF Places
  <2>3. helper'.at = "copying" /\ before' = before
    BY <1>3, <2>2, Typed, GoesFacts
  <2>4. Placed'
    BY <1>3, <2>1, <2>3 DEF CopyBegins, IInv, Placed, MarkerKept
  <2> QED
    BY <1>3, <2>1, <2>2, <2>3, <2>4, Typed, GoneOn DEF IInv, NeverPartial, PreviousKept
<1>4. CASE CopyEnds /\ Does([disk EXCEPT !.prepared = helper.exe]) /\ Goes("free")
  <2>1. /\ disk' \in Disk /\ lost' = lost /\ disk'.target = disk.target
        /\ disk'.backup = disk.backup /\ disk'.marker = disk.marker
        /\ disk'.prepared = helper.exe
    BY <1>4, Typed, DiskExcept DEF Does
  <2>2. "free" \in Places \ {"off"}
    BY DEF Places
  <2>3. helper'.at = "free" /\ before' = before /\ helper'.exe = helper.exe
    BY <1>4, <2>2, Typed, GoesFacts
  <2>4. Placed'
    BY <1>4, <2>1, <2>3 DEF CopyEnds, IInv, Placed, MarkerKept
  <2> QED
    BY <1>4, <2>1, <2>2, <2>3, <2>4, Typed, GoneOn DEF IInv, NeverPartial, PreviousKept
<1> QED
  BY <1>1, <1>2, <1>3, <1>4 DEF ClearStale, CopyBegins, CopyEnds

\* The target gives way to its replacement.
LEMMA FreeBackupIInv ==
  ASSUME IInv, FreeBackup
  PROVE  IInv'
<1>1. /\ disk' \in Disk /\ lost' \in BOOLEAN /\ disk'.target = disk.target
      /\ disk'.backup \in {disk.backup, Nothing} /\ disk'.marker = disk.marker
      /\ disk'.prepared = disk.prepared
  BY Typed, DiskExcept DEF FreeBackup, Does, Tries, Fails
<1>2. "away" \in Places \ {"off"} /\ Goes("away")
  BY DEF Places, FreeBackup
<1>3. helper'.at = "away" /\ before' = before /\ helper'.exe = helper.exe
  BY <1>2, Typed, GoesFacts
<1>4. disk.target = before.target
  BY DEF FreeBackup, IInv, Placed
<1>5. Placed'
  BY <1>1, <1>3 DEF FreeBackup, IInv, Placed, MarkerKept
<1> QED
  BY <1>1, <1>2, <1>3, <1>4, <1>5, GoneOn, ConstantFacts DEF IInv, NeverPartial, PreviousKept

LEMMA MoveAwayIInv ==
  ASSUME IInv, MoveAway
  PROVE  IInv'
<1> USE Typed
<1>1. disk.target = before.target /\ MarkerKept /\ disk.prepared = helper.exe
  BY DEF MoveAway, IInv, Placed
<1>2. CASE Does(Moved("target", "backup")) /\ Goes("activate")
  <2>1. /\ disk' \in Disk /\ lost' = lost /\ disk'.target = Nothing
        /\ disk'.backup = disk.target /\ disk'.marker = disk.marker
        /\ disk'.prepared = disk.prepared
    BY <1>2, MovedFacts DEF Does
  <2>2. "activate" \in Places \ {"off"}
    BY DEF Places
  <2>3. helper'.at = "activate" /\ before' = before /\ helper'.exe = helper.exe
    BY <1>2, <2>2, GoesFacts
  <2>4. Placed'
    BY <1>1, <2>1, <2>3 DEF Placed, MarkerKept
  <2> QED
    BY <1>1, <1>2, <2>1, <2>2, <2>3, <2>4, GoneOn, ConstantFacts DEF IInv, NeverPartial, PreviousKept
<1>3. CASE /\ helper.tries + 1 < MaxTries
           /\ helper' = [helper EXCEPT !.at = "free", !.tries = @ + 1]
           /\ UNCHANGED <<disk, lost, outcome, before, runs>>
  <2>1. helper.tries + 1 \in 0..(MaxTries - 1)
    BY <1>3, ConstantFacts DEF Helper
  <2>2. "free" \in Places /\ Nothing \in Files
    BY DEF Places
  <2>3. helper' = [helper EXCEPT !.at = "free", !.tries = helper.tries + 1]
    BY <1>3
  <2>4. helper' \in Helper /\ helper'.at = "free" /\ helper'.exe = helper.exe
    BY <2>1, <2>2, <2>3, HelperExcept
  <2>5. TypeOK'
    BY <1>3, <2>4 DEF TypeOK
  <2>6. Placed'
    BY <1>1, <1>3, <2>4 DEF Placed, MarkerKept
  <2> QED
    BY <1>3, <2>4, <2>5, <2>6 DEF IInv, NeverPartial, PreviousKept, ReportIsTrue
<1>4. CASE Tries(Without("prepared")) /\ Ends("late")
  <2>1. /\ disk' \in Disk /\ lost' \in BOOLEAN /\ disk'.target = disk.target
        /\ disk'.backup = disk.backup /\ disk'.marker = disk.marker
    BY <1>4, DiskExcept DEF Does, Tries
  <2> QED
    BY <1>1, <1>4, <2>1, EndUntouched DEF IInv, NeverPartial
<1> QED
  BY <1>2, <1>3, <1>4 DEF MoveAway, Fails

LEMMA ActivateIInv ==
  ASSUME IInv, Activate
  PROVE  IInv'
<1> USE Typed
<1>1. /\ disk.target = Nothing /\ disk.backup = before.target /\ MarkerKept
      /\ disk.prepared = helper.exe
  BY DEF Activate, IInv, Placed
<1>2. CASE Does(Moved("prepared", "target")) /\ Goes("mark")
  <2>1. /\ disk' \in Disk /\ lost' = lost /\ disk'.target = helper.exe
        /\ disk'.backup = disk.backup /\ disk'.marker = disk.marker
    BY <1>1, <1>2, MovedFacts DEF Does
  <2>2. "mark" \in Places \ {"off"}
    BY DEF Places
  <2>3. helper'.at = "mark" /\ before' = before /\ helper'.exe = helper.exe
    BY <1>2, <2>2, GoesFacts
  <2>4. Placed'
    BY <1>1, <2>1, <2>3 DEF Placed, MarkerKept, Swapped
  <2> QED
    BY <1>1, <1>2, <2>1, <2>2, <2>3, <2>4, GoneOn DEF IInv, NeverPartial, PreviousKept
<1>3. CASE Fails /\ Goes("undo")
  <2>1. "undo" \in Places \ {"off"}
    BY DEF Places
  <2>2. helper'.at = "undo" /\ before' = before /\ helper'.exe = helper.exe
    BY <1>3, <2>1, GoesFacts
  <2>3. Placed'
    BY <1>1, <1>3, <2>2 DEF Placed, MarkerKept, Fails
  <2> QED
    BY <1>3, <2>1, <2>2, <2>3, GoneOn DEF IInv, NeverPartial, PreviousKept, Fails
<1> QED
  BY <1>2, <1>3 DEF Activate

\* An end that reports "restored".
LEMMA Restored ==
  ASSUME IInv, Ends("restored"), disk' \in Disk, lost' \in BOOLEAN, NeverPartial',
         before.target \in {disk'.target, disk'.backup},
         lost' \/ (disk'.target = before.target /\ disk'.marker = before.marker)
  PROVE  IInv'
<1>1. /\ helper' \in Helper /\ helper'.at = "off" /\ outcome' = "restored"
      /\ before' = before /\ runs' = runs
  BY Typed, EndsFacts
<1>2. TypeOK'
  BY <1>1 DEF IInv, TypeOK
<1>3. PreviousKept' /\ ReportIsTrue' /\ Placed'
  BY <1>1 DEF PreviousKept, ReportIsTrue, Placed
<1> QED
  BY <1>2, <1>3 DEF IInv

LEMMA UndoIInv ==
  ASSUME IInv, UndoActivation
  PROVE  IInv'
<1> USE Typed
<1>1. disk.target = Nothing /\ disk.backup = before.target /\ MarkerKept
  BY DEF UndoActivation, IInv, Placed
<1>2. \/ disk' = disk /\ lost' = TRUE
      \/ /\ disk' \in Disk /\ lost' = lost /\ disk'.target = disk.backup
         /\ disk'.backup = Nothing /\ disk'.marker = disk.marker
  BY MovedFacts DEF UndoActivation, Does, Tries
<1>3. NeverPartial'
  BY <1>2, ConstantFacts DEF IInv, NeverPartial
<1> QED
  BY <1>1, <1>2, <1>3, Restored DEF UndoActivation, MarkerKept

LEMMA MarkIInv ==
  ASSUME IInv, Mark
  PROVE  IInv'
<1> USE Typed
<1>1. Swapped /\ MarkerKept
  BY DEF Mark, IInv, Placed
<1>2. CASE ~helper.marks /\ Fails /\ Goes("start")
  <2>1. "start" \in Places \ {"off"}
    BY DEF Places
  <2>2. /\ helper'.at = "start" /\ before' = before /\ helper'.exe = helper.exe
        /\ helper'.marks = helper.marks
    BY <1>2, <2>1, GoesFacts
  <2>3. Placed'
    BY <1>1, <1>2, <2>2 DEF Placed, MarkerKept, Swapped, Fails
  <2> QED
    BY <1>2, <2>1, <2>2, <2>3, GoneOn DEF IInv, NeverPartial, PreviousKept, Fails
<1>3. ASSUME helper.marks, NEW saved \in {disk.marker, Nothing}, NEW place \in {"start", "remove"},
             NEW m \in Files, place = "start" => m = helper.exe,
             lost' = (lost \/ saved # disk.marker),
             helper' = [helper EXCEPT !.at = place, !.saved = saved],
             disk' = [disk EXCEPT !.marker = m],
             UNCHANGED <<outcome, before, runs>>
      PROVE  IInv'
  <2>1. place \in Places /\ saved \in Files /\ 0 \in 0..(MaxTries - 1)
    BY ConstantFacts DEF Places
  <2>2. /\ helper' \in Helper /\ helper'.at = place /\ helper'.exe = helper.exe
        /\ helper'.marks = helper.marks /\ helper'.saved = saved
    <3> DEFINE h == [helper EXCEPT !.at = place, !.saved = saved]
    <3>1. helper' = h /\ helper \in Helper
      BY <1>3
    <3>2. h \in Helper /\ h.at = place /\ h.exe = helper.exe /\ h.marks = helper.marks /\ h.saved = saved
      BY <2>1, <3>1 DEF Helper
    <3> HIDE DEF h
    <3> QED
      BY <3>1, <3>2
  <2>3. /\ disk' \in Disk /\ disk'.marker = m
        /\ disk'.target = disk.target /\ disk'.backup = disk.backup
    BY <1>3, DiskExcept
  <2>4. lost' \in BOOLEAN
    BY <1>3
  <2>5. TypeOK'
    BY <1>3, <2>2, <2>3, <2>4 DEF TypeOK
  <2>6. MarkerSaved' /\ Swapped'
    <3>1. saved = disk.marker \/ lost'
      BY <1>3
    <3> QED
      BY <1>1, <1>3, <2>2, <2>3, <3>1 DEF MarkerSaved, MarkerKept, Swapped
  <2>7. Placed'
    BY <1>3, <2>2, <2>3, <2>6 DEF Placed
  <2>8. NeverPartial' /\ PreviousKept' /\ ReportIsTrue'
    BY <1>3, <2>2, <2>3 DEF IInv, NeverPartial, PreviousKept, ReportIsTrue
  <2> QED
    BY <2>5, <2>7, <2>8 DEF IInv
<1>4. CASE helper.marks
  <2>1. PICK saved \in {disk.marker, Nothing} :
          /\ lost' = (lost \/ saved # disk.marker)
          /\ \/ /\ helper' = [helper EXCEPT !.at = "start", !.saved = saved]
                /\ disk' = [disk EXCEPT !.marker = helper.exe]
             \/ /\ helper' = [helper EXCEPT !.at = "remove", !.saved = saved]
                /\ \E m \in {disk.marker, Part} : disk' = [disk EXCEPT !.marker = m]
    BY <1>4 DEF Mark
  <2>2. UNCHANGED <<outcome, before, runs>>
    BY <1>4 DEF Mark
  <2>3. CASE /\ helper' = [helper EXCEPT !.at = "start", !.saved = saved]
             /\ disk' = [disk EXCEPT !.marker = helper.exe]
    BY <1>3, <1>4, <2>1, <2>2, <2>3
  <2>4. ASSUME NEW m \in {disk.marker, Part},
               helper' = [helper EXCEPT !.at = "remove", !.saved = saved],
               disk' = [disk EXCEPT !.marker = m]
        PROVE  IInv'
    <3>1. m \in Files
      OBVIOUS
    <3> QED
      BY <1>3, <1>4, <2>1, <2>2, <2>4, <3>1
  <2> QED
    BY <2>1, <2>3, <2>4
<1> QED
  BY <1>2, <1>4 DEF Mark

\* The health check reads the disk and changes nothing.
LEMMA HealthIInv ==
  ASSUME IInv, RunNew \/ Settle
  PROVE  IInv'
<1> USE Typed
<1>1. /\ Swapped /\ UNCHANGED <<disk, lost>>
      /\ IF helper.marks THEN disk.marker = helper.exe /\ MarkerSaved ELSE MarkerKept
  BY DEF RunNew, Settle, IInv, Placed, Fails
<1>2. CASE Ends("unchecked")
  BY <1>1, <1>2, EndUntouched DEF IInv, NeverPartial
<1>3. ASSUME NEW place \in {"settle", "clean", "remove"}, Goes(place),
             place = "clean" => disk.target \in Healthy
      PROVE  IInv'
  <2>1. place \in Places \ {"off"}
    BY DEF Places
  <2>2. /\ helper'.at = place /\ before' = before /\ helper'.exe = helper.exe
        /\ helper'.marks = helper.marks /\ helper'.saved = helper.saved
    BY <1>3, <2>1, GoesFacts
  <2>3. Placed'
    BY <1>1, <1>3, <2>2 DEF Placed, MarkerKept, MarkerSaved, Swapped
  <2> QED
    BY <1>1, <1>3, <2>1, <2>2, <2>3, GoneOn DEF IInv, NeverPartial, PreviousKept
<1> QED
  BY <1>2, <1>3 DEF RunNew, Settle

LEMMA RemoveTargetIInv ==
  ASSUME IInv, RemoveTarget
  PROVE  IInv'
<1> USE Typed
<1>1. disk.backup = before.target /\ IF helper.marks THEN MarkerSaved ELSE MarkerKept
  BY DEF RemoveTarget, IInv, Placed, Swapped
<1>2. /\ disk' \in Disk /\ lost' \in BOOLEAN /\ (lost => lost')
      /\ disk'.target \in {disk.target, Nothing}
      /\ disk'.backup = disk.backup /\ disk'.marker = disk.marker
  <2>1. Nothing \in Files
    OBVIOUS
  <2>2. Does(Without("target")) \/ (disk' = disk /\ lost' = TRUE)
    BY DEF RemoveTarget, Tries
  <2>3. CASE Does(Without("target"))
    <3>1. disk' = Without("target") /\ lost' = lost
      BY <2>3 DEF Does
    <3> QED
      BY <2>1, <3>1, DiskExcept
  <2> QED
    BY <2>2, <2>3
<1>3. "restore" \in Places \ {"off"} /\ Goes("restore")
  BY DEF Places, RemoveTarget
<1>4. /\ helper'.at = "restore" /\ before' = before
      /\ helper'.marks = helper.marks /\ helper'.saved = helper.saved
  BY <1>3, GoesFacts
<1>5. Placed'
  BY <1>1, <1>2, <1>4 DEF Placed, MarkerKept, MarkerSaved
<1>6. NeverPartial' /\ PreviousKept'
  BY <1>1, <1>2, <1>4, ConstantFacts DEF IInv, NeverPartial, PreviousKept
<1> QED
  BY <1>2, <1>3, <1>5, <1>6, GoneOn

LEMMA RestoreTargetIInv ==
  ASSUME IInv, RestoreTarget
  PROVE  IInv'
<1> USE Typed
<1>1. disk.backup = before.target /\ IF helper.marks THEN MarkerSaved ELSE MarkerKept
  BY DEF RestoreTarget, IInv, Placed
<1>2. \/ disk' = disk /\ lost' = TRUE
      \/ /\ disk' \in Disk /\ lost' = lost /\ disk'.target = disk.backup
         /\ disk'.backup = Nothing /\ disk'.marker = disk.marker
  BY MovedFacts DEF RestoreTarget, Does, Tries
<1>3. NeverPartial' /\ before.target \in {disk'.target, disk'.backup}
  BY <1>1, <1>2, ConstantFacts DEF IInv, NeverPartial
<1>4. CASE ~helper.marks
  BY <1>1, <1>2, <1>3, <1>4, Restored DEF RestoreTarget, MarkerKept
<1>5. CASE helper.marks
  <2>1. "unmark" \in Places \ {"off"} /\ Goes("unmark")
    BY <1>5 DEF Places, RestoreTarget
  <2>2. /\ helper'.at = "unmark" /\ before' = before
        /\ helper'.marks = helper.marks /\ helper'.saved = helper.saved
    BY <2>1, GoesFacts
  <2>3. Placed'
    BY <1>1, <1>2, <1>5, <2>2 DEF Placed, MarkerSaved
  <2>4. disk' \in Disk /\ lost' \in BOOLEAN /\ PreviousKept'
    BY <1>2, <1>3, <2>2 DEF PreviousKept
  <2> QED
    BY <1>3, <2>1, <2>3, <2>4, GoneOn
<1> QED
  BY <1>4, <1>5

LEMMA RestoreMarkerIInv ==
  ASSUME IInv, RestoreMarker
  PROVE  IInv'
<1> USE Typed
<1>1. MarkerSaved /\ (disk.target = before.target \/ lost)
  BY DEF RestoreMarker, IInv, Placed
<1>2. /\ disk' \in Disk /\ disk'.target = disk.target /\ disk'.backup = disk.backup
      /\ lost' = TRUE \/ (lost' = lost /\ disk'.marker = helper.saved)
  <2>1. CASE Does([disk EXCEPT !.marker = helper.saved])
    BY <2>1, DiskExcept DEF Does
  <2>2. ASSUME NEW m \in {disk.marker, Part}, disk' = [disk EXCEPT !.marker = m], lost' = TRUE
        PROVE  /\ disk' \in Disk /\ disk'.target = disk.target /\ disk'.backup = disk.backup
               /\ lost' = TRUE
    BY <2>2, DiskExcept
  <2> QED
    BY <2>1, <2>2 DEF RestoreMarker
<1>3. NeverPartial' /\ before.target \in {disk'.target, disk'.backup}
  BY <1>2 DEF IInv, NeverPartial, PreviousKept
<1>4. lost' \/ (disk'.target = before.target /\ disk'.marker = before.marker)
  BY <1>1, <1>2 DEF MarkerSaved
<1>5. Ends("restored") /\ lost' \in BOOLEAN
  BY <1>2 DEF RestoreMarker
<1> QED
  BY <1>2, <1>3, <1>4, <1>5, Restored

LEMMA CleanUpIInv ==
  ASSUME IInv, CleanUp
  PROVE  IInv'
<1> USE Typed
<1>1. /\ disk.target = helper.exe /\ disk.target \in Healthy
      /\ helper.marks => disk.marker = helper.exe
  BY DEF CleanUp, IInv, Placed, Swapped
<1>2. UNCHANGED <<disk, lost>> /\ Ends("applied")
  BY DEF CleanUp, Fails
<1>3. /\ helper' \in Helper /\ helper'.at = "off" /\ outcome' = "applied"
      /\ helper'.exe = helper.exe /\ helper'.marks = helper.marks
      /\ before' = before /\ runs' = runs
  BY <1>2, EndsFacts
<1>4. TypeOK'
  BY <1>2, <1>3 DEF TypeOK
<1>5. NeverPartial' /\ PreviousKept' /\ Placed'
  BY <1>2, <1>3 DEF IInv, NeverPartial, PreviousKept, Placed
<1>6. ReportIsTrue'
  BY <1>1, <1>2, <1>3 DEF ReportIsTrue
<1> QED
  BY <1>4, <1>5, <1>6 DEF IInv

---------------------------------------------------------------------------
LEMMA StepIInv == IInv /\ [Next]_vars => IInv'
<1> SUFFICES ASSUME IInv, [Next]_vars PROVE IInv'
  OBVIOUS
<1>1. CASE UNCHANGED vars
  BY <1>1 DEF vars, IInv, TypeOK, NeverPartial, PreviousKept, ReportIsTrue, Placed,
              Swapped, MarkerKept, MarkerSaved
<1>2. CASE \E v \in Versions, restart, marks \in BOOLEAN : Start(v, restart, marks)
  BY <1>2, StartIInv
<1>3. CASE Step
  BY <1>3, CheckIInv, CopyIInv, FreeBackupIInv, MoveAwayIInv, ActivateIInv, UndoIInv,
     MarkIInv, HealthIInv, RemoveTargetIInv, RestoreTargetIInv, RestoreMarkerIInv,
     CleanUpIInv
  DEF Step
<1>4. CASE Crash
  BY <1>4, CrashIInv
<1> QED
  BY <1>1, <1>2, <1>3, <1>4 DEF Next

\* The four parts of the invariant hold in every reachable state.
LEMMA Invariant == Spec => []IInv
<1>1. Init => IInv
  BY InitIInv
<1>2. IInv /\ [Next]_vars => IInv'
  BY StepIInv
<1> QED
  BY <1>1, <1>2, PTL DEF Spec

\* The files, the helper and its report only take the values they are meant to take.
THEOREM TypeCorrect == Spec => []TypeOK
<1>1. IInv => TypeOK
  BY DEF IInv
<1> QED
  BY <1>1, Invariant, PTL

\* No interrupted or failed fs::copy of apply_update becomes the executable, however
\* many helpers are started on what it left.
THEOREM PartialNeverActivated == Spec => []NeverPartial
<1>1. IInv => NeverPartial
  BY DEF IInv
<1> QED
  BY <1>1, Invariant, PTL

\* The executable that apply_update found is never lost: at every moment, through every
\* failure, rollback and crash, it is the target or the backup.
THEOREM PreviousNeverLost == Spec => []PreviousKept
<1>1. IInv => PreviousKept
  BY DEF IInv
<1> QED
  BY <1>1, Invariant, PTL

\* Whatever apply_update reports is what the disk holds.
THEOREM ReportsAreTrue == Spec => []ReportIsTrue
<1>1. IInv => ReportIsTrue
  BY DEF IInv
<1> QED
  BY <1>1, Invariant, PTL

---------------------------------------------------------------------------
\* The helper gets on.

\* It goes on to a place nearer to the end, or ends.
LEMMA GoesAhead ==
  ASSUME TypeOK, NEW place \in Places, helper' = [helper EXCEPT !.at = place],
         FarFrom[place] < FarFrom[helper.at]
  PROVE  Ahead' < Ahead
<1>1. helper \in Helper
  BY DEF TypeOK
<1>2. helper'.at = place /\ helper'.tries = helper.tries
  BY <1>1 DEF Helper
<1>3. FarFrom[place] \in Nat /\ FarFrom[helper.at] \in Nat
  BY <1>1 DEF FarFrom, Places, Helper
<1>4. helper.tries \in 0..(MaxTries - 1)
  BY <1>1 DEF Helper
<1> HIDE DEF FarFrom
<1> QED
  BY <1>2, <1>3, <1>4, ConstantFacts DEF Ahead

\* What is ahead is a number, at most that of a helper which begins.
LEMMA AheadBound ==
  ASSUME TypeOK
  PROVE  Ahead \in Nat /\ Ahead <= 2 * MaxTries + 11
<1>1. helper \in Helper
  BY DEF TypeOK
<1>2. helper.at \in Places /\ helper.tries \in 0..(MaxTries - 1)
  BY <1>1 DEF Helper
<1>3. FarFrom[helper.at] \in 0..13
  BY <1>2 DEF FarFrom, Places
<1> HIDE DEF FarFrom
<1> QED
  BY <1>2, <1>3, ConstantFacts DEF Ahead

\* The next attempt to move the target away: one place back, one attempt less.
LEMMA TriesAhead ==
  ASSUME TypeOK, At("away"), helper.tries + 1 < MaxTries,
         helper' = [helper EXCEPT !.at = "free", !.tries = @ + 1]
  PROVE  Ahead' < Ahead
<1>1. helper \in Helper /\ helper.tries \in 0..(MaxTries - 1)
  BY DEF TypeOK, Helper
<1>2. helper'.at = "free" /\ helper'.tries = helper.tries + 1
  BY <1>1 DEF Helper
<1>3. FarFrom["free"] = 9 /\ FarFrom["away"] = 8
  BY DEF FarFrom
<1> HIDE DEF FarFrom
<1> QED
  BY <1>1, <1>2, <1>3, ConstantFacts DEF Ahead

\* Each of the helper's operations, and a crash.
LEMMA StepAhead ==
  ASSUME TypeOK, Step \/ Crash
  PROVE  Ahead' < Ahead
<1>1. ASSUME NEW place \in Places, Goes(place), FarFrom[place] < FarFrom[helper.at]
      PROVE  Ahead' < Ahead
  BY <1>1, GoesAhead DEF Goes
<1>2. ASSUME NEW how, Ends(how), 0 < FarFrom[helper.at]
      PROVE  Ahead' < Ahead
  <2>1. FarFrom["off"] = 0 /\ "off" \in Places
    BY DEF FarFrom, Places
  <2> HIDE DEF FarFrom
  <2> QED
    BY <1>2, <2>1, GoesAhead DEF Ends
<1>3. helper.at \in Places /\ helper \in Helper
  BY DEF TypeOK, Helper
<1>4. ASSUME Check \/ ClearStale \/ CopyBegins \/ CopyEnds \/ FreeBackup
      PROVE  Ahead' < Ahead
  BY <1>1, <1>2, <1>4, GoesAhead
     DEF Check, ClearStale, CopyBegins, CopyEnds, FreeBackup, FarFrom, Places
<1>5. CASE MoveAway
  BY <1>1, <1>2, <1>5, TriesAhead DEF MoveAway, FarFrom, Places
<1>6. ASSUME Activate \/ UndoActivation \/ RunNew \/ Settle
      PROVE  Ahead' < Ahead
  BY <1>1, <1>2, <1>6 DEF Activate, UndoActivation, RunNew, Settle, FarFrom, Places
<1>7. CASE Mark
  <2>1. ASSUME NEW place \in {"start", "remove"}, NEW saved,
               helper' = [helper EXCEPT !.at = place, !.saved = saved]
        PROVE  Ahead' < Ahead
    <3>1. helper'.at = place /\ helper'.tries = helper.tries /\ helper.at = "mark"
      BY <1>3, <1>7, <2>1 DEF Helper, Mark
    <3>2. FarFrom[place] < FarFrom["mark"] /\ FarFrom[place] \in Nat /\ FarFrom["mark"] \in Nat
      BY DEF FarFrom
    <3>3. helper.tries \in 0..(MaxTries - 1)
      BY <1>3 DEF Helper
    <3> HIDE DEF FarFrom
    <3> QED
      BY <3>1, <3>2, <3>3, ConstantFacts DEF Ahead
  <2>2. FarFrom["start"] < FarFrom["mark"] /\ "start" \in Places
    BY DEF FarFrom, Places
  <2> HIDE DEF FarFrom
  <2> QED
    BY <1>1, <1>7, <2>1, <2>2 DEF Mark
<1>8. ASSUME RemoveTarget \/ RestoreTarget \/ RestoreMarker \/ CleanUp
      PROVE  Ahead' < Ahead
  BY <1>1, <1>2, <1>8 DEF RemoveTarget, RestoreTarget, RestoreMarker, CleanUp, FarFrom, Places
<1>9. CASE Crash
  <2>1. 0 < FarFrom[helper.at]
    BY <1>3, <1>9 DEF Crash, FarFrom, Places
  <2> QED
    BY <1>2, <1>9, <2>1 DEF Crash
<1> QED
  BY <1>4, <1>5, <1>6, <1>7, <1>8, <1>9 DEF Step

\* The loop that waits for the target gives up after MaxTries attempts, the roll back never
\* starts again, and nothing else is done twice: whatever the file system answers, a helper
\* is through after 2 * MaxTries + 11 operations.
THEOREM AlwaysAdvances == Spec => HelperAdvances
<1>1. IInv /\ [Next]_vars =>
        [~ At("off") => Ahead <= 2 * MaxTries + 11 /\ Ahead' < Ahead]_vars
  <2> SUFFICES ASSUME IInv, Next, ~ At("off")
               PROVE  Ahead <= 2 * MaxTries + 11 /\ Ahead' < Ahead
    OBVIOUS
  <2>1. Step \/ Crash
    BY DEF Next, Start
  <2> QED
    BY <2>1, AheadBound, StepAhead DEF IInv
<1> QED
  BY <1>1, Invariant, PTL DEF Spec, HelperAdvances

=============================================================================
