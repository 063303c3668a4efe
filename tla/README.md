# Swagri: a verification project

Swagri is a peer-to-peer compute network of cooperating machines. An *Agent*
(`src/crates/swagri-node`) joins other Agents over libp2p, executes bounded CPU tasks for trusted
peers, splits matrix jobs over them, exchanges content-addressed artifacts and distributes its own
updates. A *Debugger* (`src/crates/swagri-debugger`) supervises one Agent as a child process and
keeps its task history; an Android app (`src/android`) hosts the Agent as a library and drives it
by the phone's battery and power state.

This directory holds TLA+ modules that model the parts of that system whose correctness depends on
the order in which things happen, the TLC configurations that check them on small instances, and
proofs, checked by TLAPS, of what holds for every size.

Run the tools in this directory:

    tlc -workers 2 -config MCMatrixScheduler.cfg MCMatrixScheduler
    tlapm MatrixScheduler_proofs.tla

`PROJECT.json` lists the runs, the mutants that show each property can fail, the source lines of
every definition, the hazards and the theorems.

## 1. The system

### 1.1 Components

| component | state it keeps | operations | correct when |
|---|---|---|---|
| Matrix scheduler (`lib.rs` 3834-4260) | `matrix_jobs`, the matrix entries of `outbound_tasks`, resource observations of peers | plan a job, dispatch, complete a chunk, retry a chunk, give up | every chunk is counted exactly once, a worker has one chunk, a job never hangs, a job is reported once |
| Matrix chunk plan (`lib.rs` 3841-3930, `swagri-executor`) | none | choose chunk height, cut the rows, validate on the worker | the chunks partition the rows and every worker accepts every chunk |
| Artifact downloads (`lib.rs` 2287-2800) | `artifact_downloads`, `outbound_artifact_requests`, `trusted_peers` | fetch, answer with manifest or block, failover, finish | no block forgotten, a failed provider not asked again, the download ends |
| Artifact serving (`lib.rs`, `swagri-storage`) | none of its own | inventory, manifest, block answers to trusted peers | answers only trusted peers with what is stored |
| Artifact store (`swagri-storage`) | directories of blocks and manifests, quota | import, store block, commit manifest, verify, export | quota kept, a manifest names only verified blocks, a crash leaves nothing half published |
| Update transfer (`lib.rs` 1910-2962) | `UpdateManager`: pending downloads, requested components | request, receive manifest and chunks, verify, report READY, apply | a component is downloaded once at a time, what is applied was verified |
| Updater helper (`swagri-updater`) | target, replacement and backup files | wait, rename, start, health check, roll back | after it ends, or crashes, an executable is there |
| CPU task placement (`lib.rs` 3599-3737) | `outbound_tasks` | score peers, place, fall back to this machine | a task is placed once and answered once |
| Task execution (`swagri-executor`, `lib.rs`) | running tasks, worker limit | validate, run with a deadline | a result is that of the task asked for |
| Resource monitor (`swagri-core`, `lib.rs`) | paused flag, CPU load | sample, pause, resume | a paused Agent takes no work |
| Connections and discovery (`lib.rs` 1400-1640) | peers, dial state, relay reservations | identify, dial, close | a peer is gone when its last connection is |
| Debugger: supervision and history | `TaskStore` (SQLite), the child process, task list | start, stop, poll output, apply updates | what the list shows is what a restart finds, a finished record goes by age only, nothing stays running after its Agent ended |
| Debugger: user interface | view state | draw, format | (presentation) |
| Mobile lifecycle (`lib.rs` 560-830) | running flag, environment, command channel | start, stop, update environment | one Agent at a time, no work when unsafe |
| Android update provider | files of an APK | serve, install | (glue to the platform) |
| Packaging and build | none | scripts, CI | (not a program of the system) |

The components, with what is modelled of each, are the `components` of `PROJECT.json`.

### 1.2 How they interact

Everything in the Agent except blocking work runs in one `tokio::select!` loop: swarm events,
commands from standard input or the app, and timers. A handler runs to its end before the next
event, so a handler is one step; the interleavings that matter are those *of handlers*: a late
answer after a timeout, a disconnect between a request and its retry, a resource pause between two
dispatches, a command between a check and its use. Blocking work (task execution, artifact import)
runs on threads of its own and reports back as an event. Agents share no state; they exchange
requests and answers through libp2p `request_response`, which ends each request with exactly one
answer or outbound failure. The Debugger reads the Agent's standard output line by line and writes
commands to its standard input. The updater runs after the Agent has exited.

### 1.3 What is hard

The `hazards` of `PROJECT.json` name each at its line. In short: hand-kept counters that decide
completion (`in_flight` with a saturating decrement), chunks and blocks that move between a queue,
a request and a result, failover that sends new requests while failing old ones, retries after a
timeout whose work still runs, u16 arithmetic at the last chunk of a matrix, a trust list that
changes during a transfer, crashes between two renames, quotas and blocks that several writers look
at before they write, ids that restart with a process, a thread that gives its channel and its flag
back while another is about to take them.

## 2. Plan

In this order, the most central behaviour first.

| # | module | models | state |
|---|---|---|---|
| 1 | `MatrixScheduler`, `MatrixJobs` (abstract), `MatrixScheduler_proofs` | the orchestrator and its promise | checked, proved |
| 2 | `MatrixChunks`, `MatrixChunks_proofs` | the chunk plan and its validation | checked, proved |
| 3 | `ArtifactDownload`, `ArtifactDownload_proofs` | multi-provider downloads | checked, proved |
| 4 | `UpdateTransfer`, `UpdateTransfer_proofs` | update requests, chunks, READY and apply | checked, proved |
| 5 | `Updater`, `Updater_proofs` | file replacement with crashes and rollback | checked, proved |
| 6 | `DebuggerTasks`, `DebuggerTasks_proofs` | Agent supervision, task list and history | checked, proved |
| 7 | `ArtifactStore`, `ArtifactStore_proofs` | imports, exports and received blocks beside one another, under one quota, with crashes and damage | checked, proved |
| 8 | `MobileAgent`, `MobileAgent_proofs` | start, stop and environment of the embedded Agent | checked, proved |
| 9 | `CpuPlacement` | placement of CPU tasks with fallback | not written |
| 10 | `MatrixSwarm` | the scheduler composed with worker Agents that pause, fail and outlive timeouts | not written |

Every safety invariant and every action property of the runs is proved. `MatrixSwarm`, if it is written,
should be shown to implement `MatrixScheduler`, in which an assignment already ends with a result, a
refusal or an outbound failure at any moment.

## 3. The modules

### 3.1 `MatrixScheduler`

`job` is `matrix_jobs`, with the way a job left the map (`done`, `failed`) kept as its phase;
`flight` is the set of chunks handed out and not yet answered (the matrix entries of
`outbound_tasks`, and local runs); `offer` is the effective CPU score each worker offers now. A
worker whose Agent is paused, incompatible or not observed for `REMOTE_RESOURCE_MAX_AGE` offers 0.

Each arm of the event loop that can change a job calls `dispatch_matrix_jobs` before the next
event, so every action is a handler followed by dispatch: `Handle(J, F, off)` dispatches each job.
`StartMatrix` is `start_distributed_matrix`, `ChunkResult` is `complete_matrix_chunk`,
`ChunkRefused` and `OutboundFailure` are the two paths to `retry_matrix_chunk`, `PeerResources` and
`LocalResources` change offers, `ObservationExpires` is time passing: no handler runs.

Abstractions, each a decision a reader may question:

* The position of a worker in `available_workers` only breaks ties between equal scores, so
  `available` is a set and each step may use any order (`Ties`); only the order of the workers that
  are asked matters, so `TiesOn` keeps one order for each order of those.
* The result checksum is an XOR; it is modelled by the set of chunk indexes under symmetric
  difference, so a chunk counted twice cancels itself as it does in the code.
* The rows of a chunk follow from its index (`MatrixChunks`).
* The branch that fails a local chunk is left out: it is reached only when the executor rejects a
  chunk, and `EveryChunkValidates` proves that no planned chunk is rejected.
* A NodeInfo answer to a chunk request, which no Agent sends, is left out: an assumption about the peers.
  The code would drop the assignment and leave `in_flight` as it is (`lib.rs:1741-1780`), and the job would
  wait for ever.
* Progress events, timing statistics and wording are left out.

### 3.2 `MatrixJobs`

What the scheduler promises its owner: a job that was submitted is reported at most once, as failed
or with a result, and a reported result covers each of its rows exactly once. `MatrixScheduler`
implements it with the phase of a job, its total and the set of counted chunks.

### 3.3 `MatrixChunks`

`matrix_chunk_rows`, the loop of `start_distributed_matrix` that cuts the rows, and
`MatrixMultiplyChunk::validate`, as pure definitions in the u16 and usize arithmetic of the code.
The state is one submission: its size and the number of rows per chunk.

### 3.4 `ArtifactDownload`

`outbound` is `outbound_artifact_requests`, `downloads` is `artifact_downloads`, `trusted` is
`trusted_peers`, `stored` and `published` are the blocks and manifests on disk. The helpers of the
code call one another (`fail_artifact_provider` fails each request of a peer, each failure asks
another peer for blocks), so they are operators from the pair of tables before a call to the pair
after it, and an action is the whole handler.

`Looks` is how far `next_active_provider` goes round the providers, `Chosen` the one it returns and
`Moved` the download it leaves. `RequestBlock` is one turn of the loop of `request_artifact_blocks`, and
`RequestBlocks` folds as many turns as there may be requests in parallel, the most the loop can take.
`RequestsFailed` and `DroppedEverywhere` are the two loops of `fail_artifact_provider`.

* A manifest is the set of its blocks; a content id names one such set (`BlocksOf`). A provider may
  answer with any set in `Manifests`; only the right one passes verification, which is the condition of
  `Published`. No property repeats it: what is published stays whole, or not, in `ArtifactStore`.
* Requests that are equal are told apart by `copy`, as request ids do.
* The order in which `fail_artifact_provider` meets the requests of a peer is that of a hash table:
  every order is allowed.
* `RequestUnanswered` stands for an error answer, an answer of another kind and an outbound failure:
  the code does the same for the three.
* The store's refusal of a block (quota, digest) and of a manifest (quota) is nondeterministic.
* An answer to a request that failover has removed is ignored by the code and changes nothing.
* Counters that are only reported (completed, reused, total) are left out. So are the blocks that
  imports of the owner add meanwhile: `ArtifactStore` has the store's side of both.

### 3.5 `UpdateTransfer`

`requested` and `pending` are the two tables of `UpdateManager`; `wire` holds the requests sent
through `request_response` and not answered. `files` is the staging directory: a path is named after
component, version and peer, as in the code, and a file is its length in chunks and whether all its
bytes are those of the package. `ready` is what was reported READY to the owner, `applied` what
`schedule_self_update` last gave to the updater, as it was then. `shared` is what the peer's own
`UpdateSource` offers; it changes when the peer is updated, also between two chunks.

`Begin` is `begin_component_update_request`, called by the four commands (`UpdateCommand`) and by
the identify event (`Identified`). `Answer(m)` is the arm of `handle_update_response` for the kind of
answer, or the outbound failure. `Ended` is what the arms that finish or give up have in common.

* An answer is of the kind asked for, of the other kind, an error, or does not come. One of the other
  kind takes the early returns at `lib.rs:2029-2033` and `lib.rs:2080-2083`: the request is over and the
  table entry stays (`OtherKindAnswered`). `ignored` records that this happened; a restart ends it.
* The manifest's checks (target, size, signature) are one nondeterministic refusal; the version check
  is kept, and with it that it applies to some components only (`Versioned`).
* A failing spawn of the updater leaves the Agent up.
* The refusals of `begin_component_update_request` only print, and change nothing.
* `apply-update` is given with a path that was reported READY for the Agent.
* The wording of events is left out.

### 3.6 `Updater`

One operation on the file system is one step, and `Crash` may come between any two. `disk` is the
target, the prepared copy beside it, the backup and the version marker; `helper` is the place in
`main` and `apply_update` with the arguments and locals; `runs` counts the helpers started, one after
the other, each on the disk the last one left. One helper runs at a time: the Agent exits after
it starts one, and the Debugger starts its Agent with the update policy `manual`.

* An operation may fail (`Fails`); where the code ignores the result (`let _ = ...`) the step goes on
  either way (`Tries`) and `lost` records that such a failure happened.
* A copy is two steps, so that a crash finds it cut short. A marker write that fails may have cut the
  marker short too.
* A rename replaces what is there, as `fs::rename` does.
* `Healthy` are the executables that start and still run two seconds later. A query of the child's
  status that fails ends the helper with neither a roll back nor a clean up (`unchecked`).
* A marker is given only with a restart, as the Debugger does. The removal of the replacement and of
  the argument file is left out: nothing reads them afterwards.

### 3.7 `DebuggerTasks`

`tasks` and `rows` are the list and the SQLite table, both as sequences: the list in the order of
pushes, the table in the order of `updated_unix_ms`. `store` is `task_store` being `Some`. `agent`,
`alive` and `busy` are the managed Agent, its process and the tasks that process works on; `pipes` are
the lines each Agent has written and the Debugger has not handled, wherever they wait (pipe, pump
thread, channel). `at` is where the one thread of the Debugger is in its frame: draining lines, then
the steps of `poll_agent`, then drawing, when a click may come.

* A frame's look at updates is skipped when there is none to look at.
* A line of a stopped Agent may be handled after lines of the next one: two pump threads feed one
  channel.
* An Agent process starts a task, reports progress and ends it once; the same ids come back in the
  next process, which counts from 1 again, and may come back in the same one, as those of inbound
  tasks do when the peer restarts. The three-field `TASK_FAILED` and empty ids, which no Agent of
  this version writes, are left out.
* The list and the table are cut by place: `At` takes the elements of a sequence at some of its places,
  `Kth` the k-th of these. `Saved` is the table after each of a series of saves.
* A clear that fails closes the history, and so does a save that fails: before its row is written, or
  after, in the trim. A start whose `open` fails, also after rows were marked or removed, has no
  history.
* Applying an update is refused, or stops the Agent and starts the updater, which may fail to start;
  why it is refused is left out.
* `Close` stands for an orderly end of the Debugger and for a crash: both leave the table as it is.
  After `close_requested` no further click is taken.
* Rows with the same `updated_unix_ms` keep their order.
* `Earlier` gives the histories that earlier sessions may have left.
* A task runs only if its start was seen, so `Task` says that what runs is `known`; that is why a
  legacy row, which is unknown, never was running.
* `FinishedLeaveByAge` says that exactly `MaxPersisted` finished rows stay while the history is open.
  When a trim fails among the saves of an interruption, one trim has dropped a row and a later insert
  stays untrimmed, so there may be more; then the history closes.
* `FinishedLeaveByAge` compares records, not ids. Its one exception is named: a line that starts or ends a
  task of an id (`Handled`) replaces the record of an ended task with that id (`main.rs:372`).

### 3.8 `ArtifactStore`

`blocks` and `manifests` are the two directories, `litter` the temporary files whose process is gone,
`op` what each blocking thread and the event loop are doing, `exported` the destination of exports.
Nothing but the file system keeps the writers apart, so a step is what one of them does between two
looks at the disk: `Import` describes the source, asks for space and begins; `ImportBlock` looks at
one block, and `StoreBlock` and `RemoveBlock` are the looks of `store_block`; either goes on to
`write_atomic` for a missing block, which looks once more (`WriteBlock`), then puts its temporary file in
place (`RenameBlock`) or cannot and finds a file there (`RenameRefused`); `CommitManifest`, `VerifyBlock`, `CheckManifest`, `WriteManifest` and
`PublishManifest` those of `commit_manifest`; `Export` verifies with `VerifyBlock` and then reads once
more, block by block (`CopyBlock`). `Fail` ends an operation with an error anywhere, `Crash` ends the
process, `DamageBlock` is the disk's.

* `betrayed`, `excused` and `overlapped` are history: an operation lost a block it had seen, the store
  lost a block it relied on, a quota check passed beside another writer.
* `write_atomic` takes any file that has the block's name by then, unread (`storage lib.rs:518` and `537`;
  `TakesUnread`). So an import that found no file at line 176 may publish over a block that was placed and
  damaged meanwhile. Such a block is `excused`, like one hurt after an operation had relied on it, until it
  is written again; `PublishedIsWhole` names both cases and says that there is no third.
* A file is whole, damaged or not there; a temporary file has all its bytes at once.
* A quota check reads the two directories in one step.
* The manifests are the right ones for their artifacts; wrong ones are `ArtifactDownload`'s. So a block
  belongs to some artifact: `store_block` is called for the blocks of a download's manifest only.
* `QuotaKept` bounds the excess of overlapping writers. Each of the others may bring an artifact that
  was admitted on the same space (`LargestArtifact`). But two writers may also be admitted for the same
  file, or one may write again what `store_block` has removed: then a temporary file is there beside
  the file it is to become, and an end of the process leaves it. That adds one file (`LargestFile`) for
  each of the others, and again for each end of a process. With one thread, three artifacts of one
  block, two crashes and two damaged blocks TLC reaches the bound exactly.
* `verify`, `list`, `stats` and `missing_blocks` only read, and are no actions.

### 3.9 `MobileAgent`

`running` and `commands` are `MOBILE_RUNNING` and `MOBILE_COMMANDS`; `agents` are the threads that
`start_mobile_agent` spawned, each with its queue of commands; `service` is the `AgentService`
instance and `inbox` what the system has for it on the main thread: starts and stops of the owner,
and the destruction that `stopSelf` asks for. A handler of the service is one step. The end of an
Agent is three: `run_agent` returns (`Receive`, `AgentFails`), the runtime is dropped after its
blocking tasks and the channel is taken away (`ChannelGoes`), the flag falls (`FlagFalls`).

* The JNI functions are taken to call the functions of `swagri-node` of the same meaning; their source
  is not part of the repository.
* A press after `stopSelf` reaches the next instance, one before it may still reach this one.
* The conditions of the phone are one Boolean, the value of `mobile_safe_to_contribute`.
* That the session has lasted for `MAX_SESSION_MS` may be found by any tick of a session.
* The system's killing the process is left out: it takes all of this state along.
* The Wi-Fi and CPU locks, events and the screen are left out.

## 4. Runs

| run | instance | question | outcome |
|---|---|---|---|
| `matrix_scheduler` | 1 job, 3 remote workers and the local one, up to 3 chunks, 3 attempts | do chunks, counters, workers and reports stay consistent under every order of answers, failures and resource changes, and is every job reported? | holds |
| `matrix_chunks` | sizes and row counts at every bound of the code | do the chunks partition the rows and validate? | holds |
| `artifact_download` | 2 artifacts sharing a block, 2 providers, 2 requests in parallel, 2 commands | do downloads keep their blocks, keep going, avoid failed providers, and end? | holds |
| `artifact_parallel` | the same | is the parallel limit kept? | violated, see findings |
| `artifact_store` | 2 threads and the event loop, 2 artifacts sharing a block, room for one of them, 1 crash, 1 damaged block | are published artifacts and exports whole, but for blocks hurt later or taken unread, and is the quota kept? | holds |
| `update_transfer` | 1 peer, 2 components, 2 versions, packages of 2 chunks, 3 updates | do table, request and staging file agree through refusals, failures, answers of the other kind, stops and changes at the peer, and does every update advance and end, but for an ignored answer? | holds |
| `update_apply` | the same | is only a whole package given to the updater? | violated, see findings |
| `updater` | 3 executables, one of which does not start, 2 helpers, 2 attempts | is the previous executable kept, no partial one activated, the report true, and does the helper end? | holds |
| `debugger_tasks` | list of 2, table of 3, 5 ids, 2 Agents, 2 starts, an empty or full earlier history | do list and history agree, does no record hang behind another, do the records of ended tasks stay as they are until they leave by age? | holds |
| `debugger_stopped` | the same | is no task shown running without an Agent? | violated, see findings |
| `mobile_agent` | 2 Agents, 4 presses, 1 typed command, 1 change of conditions | is there one Agent, within reach, does a stopped session end, do unsafe conditions pause it? | holds |
| `updater_atomic` | the same as `updater` | is there always an executable when no helper runs? | violated, see findings |

### 4.1 Bounds and why they are enough

One job suffices for the scheduler: jobs share nothing but the offers, and the proofs hold for any
set of jobs. Three remotes and three chunks let a chunk be retried twice while another is out and a
third waits, so that the attempt limit, the empty pool, the front of the queue and a tie between
scores all occur. Scores 0 and 1 tell "offers" from "does not" and give ties.

For downloads, two providers give failover in both directions; three blocks and a limit of two let
a block wait while two are asked for; a shared block and two artifacts make one answer matter to two
downloads; two commands (`MaxCommands`) let a download end and be started again while an answer to
the first is still on its way, which is the case behind `artifact_parallel`.

For updates, one peer suffices because one update is active at a time whatever its peer; two
components tell the versioned from the unversioned one; two versions let a peer change between
chunks and let two staging files exist; two chunks give a first, a middle write and a last one; three
updates let the third meet what two earlier ones left. For the updater, three executables name the
found, the new and a stale one apart, one unhealthy one forces roll backs, the second helper meets
whatever the first left, and two attempts give a retry and the limit.

For the Debugger, a list of two and a table of three are the smallest for which a listed row cannot
be trimmed (`DebuggerAssumptions`: the code has 100 and 1,000); beginning with a full table, two
starts are enough to push out of the list and to trim the table, two Agents let an id come back, and
one unhandled line per Agent is enough for a line that comes after its Agent was stopped. Five ids let
two tasks run beside three finished rows, so that one interruption trims twice. The three ids of a full
table are symmetric, and so are the two others; the run checks no liveness, so symmetry is sound.

For the store, two threads beside the event loop give two imports, or an import and an export, with a
received block between them; two artifacts that share a block, one of which lists it twice, make one
block matter to both; the quota has room for the larger artifact only, so it binds every time; one
crash and one damaged block fall at every point. The threads are symmetric, and the run checks no
liveness. For the phone, two Agents are a session and the next, the third start fails; four presses
are start, stop, start, stop in every order; a queue of one sample (`MaxQueue`) bounds the timer, not
the commands of the owner.

### 4.2 Fairness

`FairSpec` of `MatrixScheduler` asks only that while assignments are out, *some* of them be answered:
a remote request is bounded by the request timeout of `request_response`, and a local run is a bounded
computation on its own thread. No fairness is assumed of resource changes: a job ends even when no worker ever
offers again, because it then is given up. `FairSpec` of `ArtifactDownload` asks only that *some*
outstanding request be answered next, for the same reason, and so does that of `UpdateTransfer`, while the Agent runs; no fairness is
assumed of `Restart`. `FairSpec` of `Updater` is weak fairness of its own steps: each file or process
call returns. `FairSpec` of `MobileAgent` is weak fairness of the main thread's messages and timer,
and of each Agent's thread: its commands, the end of a bounded task, the two steps of its end. None of the modules needs fairness for commands, closed connections, trust changes,
crashes or stops, and none is assumed.

`CHECK_DEADLOCK FALSE` is set where the system may stop: a finished submission, or no command left
under the bound.

## 5. Proofs

Every theorem is proved for all values of the constants that the named assumptions allow. A leaf cites
few facts, so each is found in about a second; facts about sums, distances and records that the provers
would not instantiate are lemmas with a named conclusion (`SumGrows`, `Measured`, `CountOwes`).

`MatrixScheduler_proofs` proves for every set of jobs and remotes and all bounds:

* `TypeCorrect`, `NoChunkLost` (`ChunksAccountedFor`), `CountersExact` (`CountersAgree`),
  `OneChunkEach` (`OneChunkPerWorker`), `NeverStalled` (`NoStalledJob`),
* `RetriesFirst` (`RetriesGoFirst`), `WorkersLeave` (`WorkersOnlyLeave`), `GivenUpWhenStuck`
  (`GivesUpOnlyWhenStuck`), `AnswersCount` (`AnswersUseUp`), and
* `Refinement` (`KeepsPromise`): every step of the scheduler is a step of `MatrixJobs` or a stutter.

The argument. None of the invariants is inductive alone: that a chunk is in one place needs that the
saturating decrement never saturates, which needs that `inFlight` is the number of assignments;
that a job always has an assignment needs that it is given up exactly when `inFlight` is 0 and no
candidate offers, hence the counter again; that a worker has one chunk needs that a busy worker is
not available. So the inductive invariant is `TypeOK` with, for every running job, `Sound`, the
conjunction of *accounted*, *tallied* and *exclusive*, and what an ended job leaves behind. The proof
first shows that dispatch preserves soundness of one job and its assignments (the chunks taken from
the queue are those sent, by the injectivity of the rank in the sorted candidates), then that each
handler's effect on one job does, and puts both together for `Handle`. The three properties of order
and of steps follow from what a handler and the dispatch after it do to one job: dispatch takes chunks
off the front of the queue and leaves the candidates alone, and only a failed assignment takes a
worker from them. For `AnswersUseUp`, dispatch moves a worker from the free ones to the busy ones
and leaves their number alone (`LeftFalls`), a counted chunk adds one to the checksum, where it was
not before, and a failed one takes its worker away. Assumptions: `Remotes` is finite, `Local` is not in it, and the bounds are positive.

`MatrixChunks_proofs` proves `EveryRowOnce` (`RowsPartitioned`) and `EveryChunkValidates`
(`NoChunkRefused`) for every size, bound and row count within the u16 range: the number of chunks
rounds up, so chunk `i` starts at `i * rows`, and only the last is cut short. `TypeCorrect` says that
a plan has that number of chunks.

`ArtifactDownload_proofs` proves `TypeCorrect`, `BlocksKept` (`NoBlockForgotten`), `AlwaysAsking`
(`NeverIdle`), `SlotsAreOut` (`InFlightIsOut`) and `FailedLeftAlone` (`FailedNotAskedAgain`) for any peers, any finite artifacts and blocks, and any
positive limits. A handler here is a chain of helpers, each a loop that calls the next, so the
invariant is stated as a set of pairs of tables, `Good(st, o, Q)`, and each helper is shown to lead from
that set back into it. Between a failed request and its replacement the artifact at work may lack a
request or a block for a moment (`Loose`, `Owing`); the others must not. A loop is a fold, and a
fold whose every turn stays in a set stays in it (`FoldStays`). `o` is the table of requests as the step
found it, and `Q` the peers the step is giving up. A request that is not in `o` goes to no peer of `Q`
and to none its download has given up (`Avoids`). `Loose` excuses only the artifact at work from
having a request out, and `Owing` only while blocks are pending.

`AlwaysAdvances` (`DownloadAdvances`) says that no step takes a running download back. Its `Distance`
is four numbers in lexicographic order: the providers it can still turn to, the manifests to come, the
requests that are out to providers it has given up, and the blocks that wait, counted twice, with those
asked for. A manifest puts blocks back in the queue and a failed block waits again, so the last number alone
does not fall; but a manifest is then one less to come, and a failed request has cost a provider or was one of those
wasted. The requests of an earlier download of the same artifact are counted too, since their
answers are taken. `Onward` holds the tables in which nothing went the wrong way and no request was
lost; the helpers that ask lead there, and within `fail_artifact_provider` a request that fails is
still out when its turn comes (`ProviderFailedToward`), though the failures before it have sent others.

`UpdateTransfer_proofs` proves `TypeCorrect`, `AlwaysOneRequest` (`OneRequestOut`) and
`FileMatchesOffset` (`FileTracksProgress`) for any peers, components, versions and package sizes. The
inductive invariant adds that the two tables exclude each other (`Exclusive`): then the one request
that is out names the one active update, so an answer is written to its file at its offset. An ignored
answer of the other kind leaves the table occupied and nothing out, and since an occupied table refuses
every update, that is how it stays until the Agent starts again: the second arm of `OneRequestOut`.
`AlwaysAdvances` (`UpdateAdvances`) needs the same: the answer that comes is the one waited for, and a
chunk that is written moves the offset (`AnswerAdvances`); the one other thing it can be is ignored.

`Updater_proofs` proves `TypeCorrect`, `PartialNeverActivated` (`NeverPartial`), `PreviousNeverLost`
(`PreviousKept`) and `ReportsAreTrue` (`ReportIsTrue`) for any set of executables and any number of
attempts and helpers. A crash may come at any place, so the inductive invariant says of each place
what is then on the disk (`Placed`): where the found executable is, that the prepared copy is whole
from the moment the copy has ended, and that the saved marker is the one found unless a read failed.
`AlwaysAdvances` (`HelperAdvances`) is a ranking: `FarFrom` numbers the places from the end, and a
retry of a rename, which goes back one place, is paid for by two for each attempt left.

`ArtifactStore_proofs` proves `TypeCorrect`, `ManifestsComplete` (`PublishedIsWhole`), `ExportsRight`
(`ExportedIsWhole`) and `QuotaHolds` (`QuotaKept`) for any threads, artifacts, sizes, quota, crashes and damage. A manifest is
published from what its operation has seen, so what an operation has seen must be as safe as what is
published: the inductive invariant says of each operation (`Sound`) that a block it has seen is whole
or excused, and of an export that it is whole as long as the operation is not betrayed. An import excuses
what it takes unread and damaged in the very step that takes it. Each action is one of a few kinds of
change to one operation (another phase, the next block, over) or hurts one block for everybody.
For the quota, `QInv` counts not what is there but what will be: `Bounded` says that the files and what
every admitted writer still brings to them stay within the quota, or within the quota and the excess
of the others once two writers have overlapped. Until then there is one writer (`Solo`) and its
temporary file is for something missing (`Fresh`), so that putting it in place adds what was counted.
`Apart` gives the bound its *others*: when every actor has a temporary file, the last one written was
for something missing, so at most all but one of the files are written beside what is there already.
A file counts once however many writers bring it, so the
space is the `Weight` of a set of blocks and one of manifests; sums over sets are those of the
community modules, about which the first lemmas say what a union, an element and a bound do.
Assumptions: threads, blocks and artifacts are finite, there is an artifact, and every block belongs
to one.

`MobileAgent_proofs` proves `TypeCorrect` and `AlwaysOneReachable` (`OneReachableAgent`) for any number
of Agents, presses and commands: with the types, the invariant is inductive, because a thread is
started only when the flag is down, and the flag falls in the last step of the thread that raised it.
`NobodyForgotten` (`NeverForgotten`) rests on one more: while a service is stopping, its destruction
waits in the inbox (`DestroyWaits`), so no handler before it can leave an Agent behind, and the one
that destroys it sends "quit" on the channel that `AlwaysOneReachable` says is the Agent's.

`DebuggerTasks_proofs` proves `TypeCorrect`, `NoneHangsBehind` (`RunningIsLatest`), `RestartFinds`
(`HistoryAgrees`) and `OldestLeaveFirst` (`FinishedLeaveByAge`) for any ids, limits, Agents and earlier histories. Both the list and the table are
sequences that are cut, filtered and pushed, so the proof begins with the k-th of some places. A
running record is the last of its id because a start pushes only when none with that id runs. That
the table has what the list shows last of a task is not inductive: a trim could drop the row. The
inductive invariant (`Covers`) counts: the rows after it whose ids are not listed, and its place in the
list, together are at most `MaxHistory`. A push that moves a task out of the list makes its row
unlisted, and moves every other record one place forward; a save adds a listed row. So less than
`2 * MaxHistory - 1` rows come after a listed one, and with `MaxPersisted + 1 >= 2 * MaxHistory`
(1,000 and 100 in the code) no trim reaches it. That rows leave by age is a property of steps, but one
step may save several rows: `Aged` says what a table has become when some ids are saved (the other
rows unchanged and in order, those gone ended and behind no ended row that stays), an insert and a trim
both age a table, and two such steps are one (`AgedTwice`), so the saves of an interruption are, by
induction on their number. A row of another id is left as it was, so a record is replaced only where its
id was saved: over a running one (`RowRuns`), or by the line handled. It needs `Covers` twice: no trim
drops a row the interruption has just saved, and the rows it saves had been running.

### 5.1 How much of liveness is proved

Liveness (`JobsEnd`, `DownloadsEnd`, `UpdateEnds`, `HelperEnds`, `SessionEnds`, `PhonePauses`) is only
model-checked: fairness speaks of ENABLED, which is out of the prover's reach. But what could go wrong
in the code is proved for most of them, in properties of states and steps that are the premises of it:

| liveness | something always is to come | each time it comes, less is left |
|---|---|---|
| `JobsEnd` | `NoStalledJob`: an assignment is out | `AnswersUseUp`: an answer uses up a chunk or a worker |
| `UpdateEnds` | `OneRequestOut`: a request is out, unless its answer was ignored | `UpdateAdvances`: only its answer moves the update, and nearer to its end |
| `HelperEnds` | `HelperAdvances`: it is at some place | every operation lowers `Ahead`, at most `2 * MaxTries + 11` |
| `SessionEnds`, `PhonePauses` | `NeverForgotten`: "quit", or a service that will send it, or its timer | the queues of messages are served in order |
| `DownloadsEnd` | `NeverIdle`: a request is out | `DownloadAdvances`: every step that changes a download lowers its `Distance` |

What is left to TLC is the last step: that a fair answer comes, and that what falls cannot fall for
ever.

## 6. Findings

* `artifact_parallel`: `docs/ARCHITECTURE.md:198` bounds the block requests of a download. When the
  store rejects a block, `lib.rs:2482` removes the download but not its other requests. A second
  fetch of the same artifact starts with `in_flight` 0 and asks for as many again, and answers to
  the old requests are taken as answers to the new download: its `in_flight` may then fall to 0 while a
  block is still on its way, and the download ends as incomplete though its providers are healthy.
* `update_apply`: `docs/ARCHITECTURE.md:224` says replacement happens only after the complete
  executable matches its manifest. A READY file shares its name with the staging file of a second
  download of the same version (`lib.rs:2053-2057`), which empties it; `apply-update`
  (`lib.rs:3280-3286`) asks only that the path be a file, and the updater does not verify either.
* `updater_atomic`: `README.md:185` calls the helper atomic. Between the two renames
  (`main.rs:89` and `main.rs:99`) there is no target; after a crash there the helper refuses the
  missing target (`main.rs:59`) and nothing restores the backup. The message "previous version
  restored" (`main.rs:101`) is also given when restoring failed.

* `debugger_stopped`: `docs/INSTALLATION.md:178-181` says every active task is marked interrupted when
  the Agent stops. A `TASK_STARTED` line still on its way is handled after `stop_agent`
  (`main.rs:586-596`) and shows a running task that nothing ends until another Agent stops.

Met while modelling, and not the subject of a run: an error answer leaves the staging file in place
(`lib.rs:2162`) and is reported for the component Agent whatever was asked (`lib.rs:2158`); an answer of
the other kind than the one asked for (`lib.rs:2029-2033`, `lib.rs:2080-2083`) is ignored and leaves the
update table occupied, so that every later update is refused until the Agent restarts (the exception that
`OneRequestOut`, `UpdateAdvances` and `UpdateEnds` name);
`apply-update` compares no versions, so an older READY file may be applied; a crash between the
activation and the health check leaves a new executable that nothing checks, and the next helper
replaces the healthy backup by it; the table of the history is keyed by task id and every Agent
process counts from 1 again, so a new task replaces the record of an older one (`main.rs:372`), though
`docs/ARCHITECTURE.md:108` promises the latest 1,000 completed records (the exception that
`FinishedLeaveByAge` names); a running record pushed out
of the full list is not interrupted when the Agent stops, and its row stays running until the Debugger
restarts; the owner may start the Agent while the updater works, and its success then starts nothing
(`main.rs:552`), so the old version goes on running.

Also met: `untrust` (`lib.rs:3253`) leaves running downloads alone, and they keep asking the peer for
blocks, though `docs/ARCHITECTURE.md:189` lets only trusted peers serve them. `store_block` reads a
block once and removes whatever has its name later (`storage lib.rs:291`): the whole block that an
import has placed meanwhile goes, and stays gone if the write that follows fails, though
`docs/ARCHITECTURE.md:73` calls blocks immutable (`RemoveBlock`; the first case `PublishedIsWhole` excuses).
`write_atomic` accepts a file of the block's name without reading it (`storage lib.rs:518`, and `537` after a
rename that failed), so an import can publish a manifest over a damaged block (the second case).
Overlapping imports exceed the quota (`QuotaKept` bounds by how much), and nobody removes the temporary
files of a process that ended. An import refuses an artifact of which one block is damaged instead of
repairing it. On a phone, a start that is handled while the previous Agent is still ending starts
nothing, and the service shows its notification and takes samples without an Agent until the owner
presses start again (`AgentService.kt:59`, `lib.rs:687`); so does an Agent that failed or was ended by
a typed `quit`. A start handled between `stopSelf` and `onDestroy` is undone. Until its first sample an
Agent contributes whatever the conditions, and a typed `pause-resources` lasts until the next sample.

## 7. Not modelled

* CPU task placement (`lib.rs:3599-3737`, `choose_cpu_placement`) and the worker's side of the matrix
  jobs, planned as `CpuPlacement` and `MatrixSwarm`. The scheduler has every answer a worker can give.
* Serving of artifacts: a condition on trust and a read.
* Task execution: a function of its input, but for the validation in `MatrixChunks`.
* Sampling and smoothing of resources: arithmetic on readings of the operating system.
* Transport, relay, DCUtR, Kademlia and mDNS: libp2p's. Of connections, only what a closed one does to
  downloads; that a peer with another connection is given up too (`lib.rs:1520`) is allowed there.
* Cryptographic digests, which are taken as injective.
* The presentation layer of the Debugger, the Android screens and provider, packaging.
