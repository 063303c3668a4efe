----------------------------- MODULE DebuggerTasks -----------------------------
(***************************************************************************)
(* The Debugger: it supervises one Agent, reads the task events of its     *)
(* output, shows them in a bounded list and keeps them in SQLite.          *)
(*                                                                         *)
(* One thread does everything, frame by frame: it drains the output, looks *)
(* whether the Agent has exited, applies updates that are ready, looks at  *)
(* the updater, then draws and takes the owner's clicks. Beside it run the *)
(* Agent and the threads that pump its output, so lines may come late, and *)
(* those of a stopped Agent may come after the next one was started.       *)
(***************************************************************************)
EXTENDS Integers, SequencesExt

CONSTANTS
  Ids,            \* task ids; every Agent process numbers its tasks from 1 again
  MaxHistory,     \* MAX_TASK_HISTORY (100 in the code)
  MaxPersisted,   \* MAX_PERSISTED_TASKS (1,000 in the code)
  Earlier,        \* the histories that earlier sessions may have left
  MaxAgents,      \* bound on the Agents started
  MaxStarts,      \* bound on the tasks started
  MaxLines        \* bound on the lines of an Agent not handled yet

ASSUME DebuggerAssumptions ==
  /\ MaxHistory \in Nat \ {0} /\ MaxPersisted \in Nat
  /\ MaxPersisted + 1 >= 2 * MaxHistory
  /\ \A rs \in Earlier :
       /\ rs \in Seq([id : Ids, known : BOOLEAN, state : {"completed", "failed"}])
       /\ \A i, j \in DOMAIN rs : rs[i].id = rs[j].id => i = j
  /\ MaxAgents \in Nat /\ MaxStarts \in Nat /\ MaxLines \in Nat

VARIABLES
  at,        \* where the Debugger's frame is; "closed": it does not run
  tasks,     \* the list, oldest first
  store,     \* the history is open
  rows,      \* the table of the history, least recently updated first
  agent,     \* the Agent it manages, by number; 0: none
  alive,     \* that Agent's process runs
  busy,      \* the tasks that process is at work on
  pipes,     \* the lines of each Agent on their way
  ready,     \* the updates reported ready: ready_update, ready_debugger_update
  updater,   \* updater_child
  closing,   \* close_requested
  agents, starts

panel   == <<tasks, store, rows>>
process == <<agent, alive, busy, agents>>
vars == <<at, panel, process, pipes, ready, updater, closing, starts>>

States == {"running", "completed", "failed"}

Runs(t) == t.state = "running"

\* known: its start was seen; a finish without one is listed as unknown.
Task == {t \in [id : Ids, known : BOOLEAN, state : States] : Runs(t) => t.known}

Events     == {"started", "progress", "completed", "failed"}
Components == {"agent", "debugger"}
Line       == [kind : Events, id : Ids] \cup [kind : {"ready"}, id : Components]

---------------------------------------------------------------------------
\* The history.

\* The place that is k-th among some places, and the elements of a sequence at some of its
\* places: SelectSeq for conditions on the place, which the provers can expand.
Kth(places, k) == CHOOSE i \in places : Cardinality({j \in places : j <= i}) = k
At(s, places)  == [k \in 1..Cardinality(places) |-> s[Kth(places, k)]]

RunningOf(s)  == At(s, {i \in DOMAIN s : Runs(s[i])})
FinishedOf(s) == At(s, {i \in DOMAIN s : ~Runs(s[i])})

\* Mutant: keeps the rows that were updated least recently.
TrimKeepsOldest(rs) ==
  At(rs, {i \in DOMAIN rs :
            Runs(rs[i]) \/ Cardinality({j \in 1..(i - 1) : ~Runs(rs[j])}) < MaxPersisted})

\* trim: of the finished rows, the MaxPersisted updated last stay.
Trim(rs) ==
  At(rs, {i \in DOMAIN rs :
            Runs(rs[i]) \/ Cardinality({j \in (i + 1)..Len(rs) : ~Runs(rs[j])}) < MaxPersisted})

\* save: a row with this id is replaced, then the table is trimmed.
Insert(rs, t) == Append(At(rs, {i \in DOMAIN rs : rs[i].id # t.id}), t)
Save(rs, t)   == Trim(Insert(rs, t))

\* The table after the first n of these records were saved.
Saved(ts) ==
  LET table[n \in 0..Len(ts)] == IF n = 0 THEN rows ELSE Save(table[n - 1], ts[n])
  IN  table

\* persist_task of each: one that fails, in the insert or in the trim, closes the history.
Persist(ts) ==
  \/ rows' = (IF store THEN Saved(ts)[Len(ts)] ELSE rows) /\ UNCHANGED store
  \/ /\ store /\ store' = FALSE
     /\ \E n \in 1..Len(ts) : LET before == Saved(ts)[n - 1]
                             IN  rows' \in {before, Insert(before, ts[n])}

---------------------------------------------------------------------------
\* The list.

\* Mutant: the limit is tested after the push.
PushUnbounded(ts, t) == Append(IF Len(ts) > MaxHistory THEN Tail(ts) ELSE ts, t)

PushBounded(ts, t) == Append(IF Len(ts) = MaxHistory THEN Tail(ts) ELSE ts, t)

\* The list with one record changed or pushed, and the record.
Changed(i, t) == tasks' = [tasks EXCEPT ![i] = t] /\ Persist(<<t>>)
Pushed(t)     == tasks' = PushBounded(tasks, t) /\ Persist(<<t>>)

Failed(t) == [t EXCEPT !.state = "failed"]

LastWith(id)    == SelectLastInSeq(tasks, LAMBDA t : t.id = id)
LastRunning(id) == SelectLastInSeq(tasks, LAMBDA t : t.id = id /\ Runs(t))

\* Mutant: every start pushes.
StartedAnew(id) == Pushed([id |-> id, known |-> TRUE, state |-> "running"])

\* record_task_started: a running record with this id is taken over.
Started(id) ==
  LET i == LastRunning(id)
  IN  IF i # 0 THEN Changed(i, [tasks[i] EXCEPT !.known = TRUE])
               ELSE Pushed([id |-> id, known |-> TRUE, state |-> "running"])

\* record_task_progress: only of a running record.
Progressed(id) ==
  LET i == LastRunning(id)
  IN  IF i # 0 THEN Changed(i, tasks[i]) ELSE UNCHANGED panel

\* record_task_finished: the last record with this id, running or not.
Finished(id, state) ==
  LET i == LastWith(id)
  IN  IF i # 0 THEN Changed(i, [tasks[i] EXCEPT !.state = state])
               ELSE Pushed([id |-> id, known |-> FALSE, state |-> state])

\* Mutant: the interrupted tasks are not saved.
InterruptShown ==
  /\ tasks' = [i \in DOMAIN tasks |-> IF Runs(tasks[i]) THEN Failed(tasks[i]) ELSE tasks[i]]
  /\ UNCHANGED <<rows, store>>

\* interrupt_active_tasks
Interrupt ==
  LET running == RunningOf(tasks)
  IN  /\ tasks' = [i \in DOMAIN tasks |-> IF Runs(tasks[i]) THEN Failed(tasks[i]) ELSE tasks[i]]
      /\ Persist([i \in DOMAIN running |-> Failed(running[i])])

---------------------------------------------------------------------------
\* The Agent.

NoAgent == agent' = 0 /\ alive' = FALSE /\ busy' = {} /\ UNCHANGED agents

\* stop_agent: told to quit, killed and waited for; its tasks are interrupted.
Stopped ==
  IF agent # 0 THEN NoAgent /\ Interrupt ELSE UNCHANGED <<process, panel>>

\* start_agent, when there is none; the spawn may fail.
Spawned ==
  \/ UNCHANGED process
  \/ /\ agents < MaxAgents
     /\ agents' = agents + 1 /\ agent' = agents + 1
     /\ alive' = TRUE /\ busy' = {}

\* The Agent writes a line.
Writes(line) ==
  /\ alive /\ Len(pipes[agent]) < MaxLines
  /\ pipes' = [pipes EXCEPT ![agent] = Append(@, line)]
  /\ UNCHANGED <<at, panel, agent, alive, agents, ready, updater, closing>>

\* A task starts, goes on and ends once; ids come back in later processes.
TaskStarts(id) ==
  /\ id \notin busy /\ starts < MaxStarts
  /\ starts' = starts + 1 /\ busy' = busy \cup {id}
  /\ Writes([kind |-> "started", id |-> id])
TaskProgresses(id) ==
  id \in busy /\ UNCHANGED <<busy, starts>> /\ Writes([kind |-> "progress", id |-> id])
TaskEnds(id, state) ==
  id \in busy /\ busy' = busy \ {id} /\ UNCHANGED starts /\ Writes([kind |-> state, id |-> id])
UpdateReady(c) ==
  UNCHANGED <<busy, starts>> /\ Writes([kind |-> "ready", id |-> c])

\* The Agent ends by itself.
AgentExits ==
  /\ alive /\ alive' = FALSE /\ busy' = {}
  /\ UNCHANGED <<at, panel, agent, agents, pipes, ready, updater, closing, starts>>

AgentStep ==
  \/ \E id \in Ids : TaskStarts(id) \/ TaskProgresses(id)
                       \/ TaskEnds(id, "completed") \/ TaskEnds(id, "failed")
  \/ \E c \in Components : UpdateReady(c)
  \/ AgentExits

---------------------------------------------------------------------------
\* The Debugger's frame, poll_agent first.

Goes(from, to) == at = from /\ at' = to

\* A line is taken from the channel; those of different Agents come in any order.
HandleLine(a) ==
  /\ Goes("drain", "drain")
  /\ pipes[a] # <<>>
  /\ pipes' = [pipes EXCEPT ![a] = Tail(@)]
  /\ LET line == Head(pipes[a])
     IN  /\ ready' = IF line.kind = "ready" THEN ready \cup {line.id} ELSE ready
         /\ CASE line.kind = "started"                -> Started(line.id)
              [] line.kind = "progress"               -> Progressed(line.id)
              [] line.kind \in {"completed", "failed"} -> Finished(line.id, line.kind)
              [] line.kind = "ready"                  -> UNCHANGED panel
  /\ UNCHANGED <<process, updater, closing, starts>>

\* No line is in the channel just now, though some may be on their way. An Agent that
\* has exited is given up. What follows does nothing when there is no update to look at.
CheckExit ==
  /\ Goes("drain", IF ready = {} /\ ~updater THEN "draw" ELSE "agent")
  /\ IF agent # 0 /\ ~alive THEN NoAgent /\ Interrupt ELSE UNCHANGED <<process, panel>>
  /\ UNCHANGED <<pipes, ready, updater, closing, starts>>

\* apply_ready_update: refused, or the Agent is stopped and the updater started.
ApplyReadyUpdate ==
  /\ Goes("agent", "debugger")
  /\ ready' = ready \ {"agent"}
  /\ \/ UNCHANGED <<process, panel, updater>>
     \/ "agent" \in ready /\ Stopped /\ updater' \in {updater, TRUE}
  /\ UNCHANGED <<pipes, closing, starts>>

\* apply_ready_debugger_update: the Debugger closes for the updater, or, when that
\* cannot be started, starts the Agent again.
ApplyReadyDebuggerUpdate ==
  /\ Goes("debugger", "updater")
  /\ ready' = ready \ {"debugger"}
  /\ \/ UNCHANGED <<process, panel, closing>>
     \/ "debugger" \in ready /\ Stopped /\ closing' = TRUE
     \/ /\ "debugger" \in ready /\ UNCHANGED closing
        /\ IF agent # 0 THEN Interrupt ELSE UNCHANGED panel
        /\ \/ NoAgent
           \/ /\ agents < MaxAgents /\ agents' = agents + 1 /\ agent' = agents + 1
              /\ alive' = TRUE /\ busy' = {}
  /\ UNCHANGED <<pipes, updater, starts>>

\* The updater still works, has failed, or has succeeded: then the Agent is started.
CheckUpdater ==
  /\ Goes("updater", "draw")
  /\ \/ UNCHANGED <<updater, process>>
     \/ /\ updater /\ updater' = FALSE
        /\ IF agent = 0 THEN Spawned ELSE UNCHANGED process
  /\ UNCHANGED <<panel, pipes, ready, closing, starts>>

NextFrame ==
  /\ ~closing /\ Goes("draw", "drain")
  /\ UNCHANGED <<panel, process, pipes, ready, updater, closing, starts>>

---------------------------------------------------------------------------
\* The owner's clicks.

StartAgent ==
  /\ ~closing /\ Goes("draw", "drain")
  /\ agent = 0 /\ Spawned
  /\ UNCHANGED <<panel, pipes, ready, updater, closing, starts>>

StopAgent ==
  /\ ~closing /\ Goes("draw", "drain")
  /\ agent # 0 /\ Stopped
  /\ UNCHANGED <<pipes, ready, updater, closing, starts>>

\* install_update: the Debugger closes unless the installer cannot be launched.
InstallUpdate ==
  /\ ~closing /\ at = "draw"
  /\ Stopped
  /\ closing' \in BOOLEAN /\ at' = IF closing' THEN "draw" ELSE "drain"
  /\ UNCHANGED <<pipes, ready, updater, starts>>

ClearFinished ==
  /\ ~closing /\ Goes("draw", "drain")
  /\ \E i \in DOMAIN tasks : ~Runs(tasks[i])
  /\ tasks' = RunningOf(tasks)
  /\ \/ rows' = (IF store THEN RunningOf(rows) ELSE rows) /\ UNCHANGED store
     \/ store /\ store' = FALSE /\ UNCHANGED rows
  /\ UNCHANGED <<process, pipes, ready, updater, closing, starts>>

\* The Debugger closes, or goes down at any place, and its Agent with it. Whatever was
\* not in the history is gone.
Close ==
  /\ at # "closed" /\ at' = "closed"
  /\ tasks' = <<>> /\ store' = FALSE
  /\ pipes' = [a \in DOMAIN pipes |-> <<>>]
  /\ ready' = {} /\ updater' = FALSE /\ closing' = FALSE
  /\ NoAgent
  /\ UNCHANGED <<rows, starts>>

\* mark_interrupted: these rows are now the last updated.
Interrupted(rs) ==
  LET running == RunningOf(rs)
  IN  FinishedOf(rs) \o [i \in DOMAIN running |-> Failed(running[i])]

\* remove_legacy_poll_failures: some of the unknown tasks that failed.
LegacyRemoved(rs, legacy) == At(rs, {i \in DOMAIN rs : rs[i].id \notin legacy})

LastOf(rs, n) == SubSeq(rs, IF Len(rs) > n THEN Len(rs) - n + 1 ELSE 1, Len(rs))

\* The Debugger is started: TaskStore::open, whose every step may fail; then there is no
\* history.
Open ==
  /\ Goes("closed", "drain")
  /\ \/ UNCHANGED panel
     \/ \E legacy \in SUBSET {rows[i].id : i \in {j \in DOMAIN rows :
                                ~rows[j].known /\ rows[j].state # "completed"}} :
          /\ rows' = LegacyRemoved(Interrupted(rows), legacy)
          /\ \/ store' = TRUE /\ tasks' = LastOf(rows', MaxHistory)
             \/ UNCHANGED <<store, tasks>>
  /\ UNCHANGED <<process, pipes, ready, updater, closing, starts>>

Init ==
  /\ at = "closed"
  /\ tasks = <<>> /\ store = FALSE /\ rows \in Earlier
  /\ agent = 0 /\ alive = FALSE /\ busy = {}
  /\ pipes = [a \in 1..MaxAgents |-> <<>>]
  /\ ready = {} /\ updater = FALSE /\ closing = FALSE
  /\ agents = 0 /\ starts = 0

Frame ==
  \/ \E a \in 1..MaxAgents : HandleLine(a)
  \/ CheckExit \/ ApplyReadyUpdate \/ ApplyReadyDebuggerUpdate \/ CheckUpdater \/ NextFrame

Next ==
  \/ AgentStep \/ Frame
  \/ StartAgent \/ StopAgent \/ InstallUpdate \/ ClearFinished \/ Close \/ Open

Spec == Init /\ [][Next]_vars

---------------------------------------------------------------------------
\* Properties.

\* The values the state takes; the list is within its limit, the table names an id once.
TypeOK ==
  /\ at \in {"drain", "agent", "debugger", "updater", "draw", "closed"}
  /\ tasks \in Seq(Task) /\ Len(tasks) <= MaxHistory
  /\ store \in BOOLEAN
  /\ rows \in Seq(Task)
  /\ \A i, j \in DOMAIN rows : rows[i].id = rows[j].id => i = j
  /\ agent \in 0..agents /\ agents \in 0..MaxAgents
  /\ alive \in BOOLEAN /\ (alive => agent = agents /\ agent # 0)
  /\ busy \subseteq Ids
  /\ pipes \in [1..MaxAgents -> Seq(Line)]
  /\ \A a \in 1..MaxAgents : Len(pipes[a]) <= MaxLines
  /\ ready \subseteq Components
  /\ updater \in BOOLEAN /\ closing \in BOOLEAN
  /\ starts \in 0..MaxStarts

\* What the list shows of a task last is what a restart would find: starts, ends and
\* interruptions reach the history, through trims, clearing and ids that come back.
HistoryAgrees ==
  store => \A id \in Ids : LastWith(id) # 0 =>
             \E i \in DOMAIN rows : rows[i] = tasks[LastWith(id)]

\* A task shown running is the last of its id, so the next end of that id reaches it: none
\* stays running behind the record of another task.
RunningIsLatest ==
  \A i \in DOMAIN tasks : Runs(tasks[i]) => i = LastWith(tasks[i].id)

\* The line just handled starts or ends a task of this id.
Handled(id) ==
  \E a \in 1..MaxAgents :
    /\ pipes[a] # <<>> /\ pipes'[a] = Tail(pipes[a])
    /\ Head(pipes[a]).kind \in {"started", "completed", "failed"} /\ Head(pipes[a]).id = id

\* The record of a task that has ended stays as it is, and leaves only as the one updated
\* longest ago, when MaxPersisted finished ones stay, or more if the history closes over a
\* trim that failed; when the owner clears all; or as a legacy row at start. A task that
\* has just ended does not make room for older ones. The one exception: a line that starts
\* or ends a task of the same id, of a later Agent or again of its own, has its record
\* replaced, for the table has one row for an id.
FinishedLeaveByAge ==
  [][ \A i \in DOMAIN rows :
        \/ \E j \in DOMAIN rows' : rows'[j] = rows[i]
        \/ /\ Runs(rows[i]) \/ Handled(rows[i].id)
           /\ \E j \in DOMAIN rows' : rows'[j].id = rows[i].id
        \/ /\ ~Runs(rows[i])
           /\ \/ \A j \in DOMAIN rows' : Runs(rows'[j])
              \/ at = "closed" /\ ~rows[i].known
              \/ /\ Cardinality({j \in DOMAIN rows' : ~Runs(rows'[j])}) >= MaxPersisted
                 /\ store' => Cardinality({j \in DOMAIN rows' : ~Runs(rows'[j])}) = MaxPersisted
                 /\ \A k \in 1..(i - 1), j \in 1..(Len(rows') - 1) :
                      Runs(rows[k]) \/ rows'[j] # rows[k]
    ]_vars

\* "marks every active Debugger task as interrupted immediately when its managed Agent
\* stops": between frames, no task runs without an Agent.
NoneRunsWithoutAgent ==
  at = "draw" /\ agent = 0 => \A i \in DOMAIN tasks : ~Runs(tasks[i])

=============================================================================
