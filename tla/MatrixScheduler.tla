---------------------------- MODULE MatrixScheduler ----------------------------
(***************************************************************************)
(* The distributed matrix orchestrator of one Agent: the jobs it has       *)
(* split into row chunks, the chunks it has handed to itself and to remote *)
(* Agents, and the event loop that retries, reassigns, completes and gives *)
(* up.                                                                     *)
(*                                                                         *)
(* Every arm of the loop that can change a job ends in                     *)
(* dispatch_matrix_jobs, so a step of this module is a handler followed by *)
(* that call, through the operator Handle.                                 *)
(***************************************************************************)
EXTENDS Integers, Sequences, FiniteSets, Functions

CONSTANTS
  Jobs,         \* the ids of the distributed jobs the owner submits
  Remotes,      \* the remote Agents
  Local,        \* this Agent as a worker (MatrixWorker::Local)
  MaxChunks,    \* bound on the chunks of a job (768 in the code)
  MaxOffer,     \* bound on the effective CPU score a worker offers
  MaxAttempts   \* MAX_MATRIX_CHUNK_ATTEMPTS

ASSUME SchedulerAssumptions ==
  /\ IsFiniteSet(Remotes)
  /\ Local \notin Remotes
  /\ MaxChunks \in Nat \ {0}
  /\ MaxOffer \in Nat
  /\ MaxAttempts \in Nat \ {0}

VARIABLES
  job,          \* matrix_jobs, and how a job that left the map was reported
  flight,       \* chunks handed out and not answered (outbound_tasks, local runs)
  offer         \* the score each worker offers; 0: paused, stale, incompatible

vars == <<job, flight, offer>>

Workers  == Remotes \cup {Local}
Offers   == 0..MaxOffer
ChunkIds == 1..MaxChunks

\* A queued MatrixChunkPlan; its rows follow from the index.
Chunk == [index : ChunkIds, attempts : 0..(MaxAttempts - 1)]

\* A chunk handed to a worker (OutboundTaskMeta, the closure of a local run).
Assignment ==
  [job : Jobs, worker : Workers, index : ChunkIds, attempts : 1..MaxAttempts]

Phases == {"absent", "running", "done", "failed"}

JobRecord ==
  [phase     : Phases,
   total     : 0..MaxChunks,      \* total_chunks
   completed : Nat,               \* completed_chunks
   checksum  : SUBSET ChunkIds,   \* XOR of chunk checksums: a chunk cancels itself
   pending   : Seq(Chunk),
   available : SUBSET Workers,    \* available_workers; its order only breaks ties
   inFlight  : Nat]

(***************************************************************************)
(* A total order on the workers, standing for the position of a worker in  *)
(* available_workers. The position only decides between equal scores, so   *)
(* each step may use any order.                                            *)
(***************************************************************************)
Ties == {p \in [Workers -> 1..Cardinality(Workers)] : IsInjective(p)}

AnyTie == CHOOSE p \in Ties : TRUE

\* The orders that differ on the workers S: the rest come last, always in one order.
TiesOn ==
  [S \in SUBSET Workers |->
     {p \in Ties : \A v \in Workers \ S, w \in Workers :
        p[w] < p[v] <=> w \in S \/ AnyTie[w] < AnyTie[v]}]

Absent ==
  [phase |-> "absent", total |-> 0, completed |-> 0, checksum |-> {},
   pending |-> <<>>, available |-> {}, inFlight |-> 0]

\* A job removed from matrix_jobs with a failure report.
Failed(J) == [Absent EXCEPT !.phase = "failed"]

\* A job removed from matrix_jobs with its result reported.
Finished(J) ==
  [J EXCEPT !.phase = "done", !.pending = <<>>, !.available = {}, !.inFlight = 0]

SymmetricDifference(A, B) == (A \ B) \cup (B \ A)
SaturatingDecrement(n)    == IF n = 0 THEN 0 ELSE n - 1
Lower(a, b)               == IF a < b THEN a ELSE b

---------------------------------------------------------------------------
\* Dispatch: take_matrix_dispatches and dispatch_matrix_jobs.

\* Workers whose score makes them eligible, as the job is planned.
EligibleNow(off) == {w \in Workers : off[w] > 0}

\* Available workers of a job whose score still makes them eligible.
Candidates(J, off) == J.available \cap EligibleNow(off)

\* v is ranked before w: a higher score, or an equal one earlier in the queue.
Before(off, tie, v, w) ==
  \/ off[v] > off[w]
  \/ off[v] = off[w] /\ tie[v] < tie[w]

\* The place of w, from 1, in the candidates sorted by score.
RankIn(S, off, tie, w) == 1 + Cardinality({v \in S : Before(off, tie, v, w)})

TakeCount(J, off) == Lower(Len(J.pending), Cardinality(Candidates(J, off)))

\* The candidates that get a chunk; the one ranked r gets pending[r].
Takers(J, off, tie) ==
  {w \in Candidates(J, off) :
     RankIn(Candidates(J, off), off, tie, w) <= TakeCount(J, off)}

Sent(j, J, off, tie) ==
  IF J.phase # "running" THEN {}
  ELSE {[job      |-> j,
         worker   |-> w,
         index    |-> J.pending[RankIn(Candidates(J, off), off, tie, w)].index,
         attempts |-> J.pending[RankIn(Candidates(J, off), off, tie, w)].attempts + 1] :
          w \in Takers(J, off, tie)}

\* Mutant: forgets to take the worker out of available_workers. (The mutants in this
\* module are no part of the model; each stands in for the definition after it.)
TakenKeepsWorkers(J, off, tie) ==
  [J EXCEPT
     !.pending  = SubSeq(@, TakeCount(J, off) + 1, Len(@)),
     !.inFlight = @ + TakeCount(J, off)]

\* pop_front for every taker, then the worker leaves available_workers.
Taken(J, off, tie) ==
  [J EXCEPT
     !.pending   = SubSeq(@, TakeCount(J, off) + 1, Len(@)),
     !.available = @ \ Takers(J, off, tie),
     !.inFlight  = @ + TakeCount(J, off)]

\* A job with work left, nothing in flight and no eligible worker is failed.
Unavailable(J, off) ==
  /\ J.pending # <<>>
  /\ J.inFlight = 0
  /\ Candidates(J, off) = {}

\* Mutant: waits for a worker that may never come back.
DispatchedWaits(J, off, tie) ==
  IF J.phase # "running" THEN J ELSE Taken(J, off, tie)

Dispatched(J, off, tie) ==
  IF J.phase # "running" THEN J
  ELSE IF Unavailable(Taken(J, off, tie), off) THEN Failed(J)
  ELSE Taken(J, off, tie)

(***************************************************************************)
(* The handler has left jobs J, assignments F and scores off; the loop     *)
(* dispatches every job before it waits for the next event.                *)
(***************************************************************************)
Handle(J, F, off) ==
  \E tie \in TiesOn[EligibleNow(off)] :
    /\ job' = [j \in Jobs |-> Dispatched(J[j], off, tie)]
    /\ flight' = F \cup UNION {Sent(j, J[j], off, tie) : j \in Jobs}
    /\ offer' = off

---------------------------------------------------------------------------
\* The handlers' effect on one job.

\* start_distributed_matrix: the workers eligible now are the job's workers.
Planned(n, off) ==
  IF EligibleNow(off) = {} THEN Failed(Absent)
  ELSE [Absent EXCEPT
          !.phase     = "running",
          !.total     = n,
          !.pending   = [i \in 1..n |-> [index |-> i, attempts |-> 0]],
          !.available = EligibleNow(off)]

\* The job with the result of t added up.
Added(J, t) ==
  [J EXCEPT
     !.inFlight  = SaturatingDecrement(@),
     !.available = @ \cup {t.worker},
     !.completed = @ + 1,
     !.checksum  = SymmetricDifference(@, {t.index})]

\* Mutant: completes as soon as the queue is empty, with chunks still in flight.
CountedEarly(J, t) ==
  IF J.phase # "running" THEN J
  ELSE IF J.pending = <<>> THEN Finished(Added(J, t))
  ELSE Added(J, t)

\* complete_matrix_chunk with a matching result. A job that left the map is gone.
Counted(J, t) ==
  IF J.phase # "running" THEN J
  ELSE IF J.completed + 1 = J.total THEN Finished(Added(J, t))
  ELSE Added(J, t)

\* The job with the chunk of t queued again, first, and its worker out for good.
Requeued(J, t) ==
  [J EXCEPT
     !.inFlight  = SaturatingDecrement(@),
     !.available = @ \ {t.worker},
     !.pending   = <<[index |-> t.index, attempts |-> t.attempts]>> \o @]

\* The chunk has used its attempts, or no worker is left to wait for.
Hopeless(K, t) ==
  \/ t.attempts >= MaxAttempts
  \/ K.available = {} /\ K.inFlight = 0

\* The job is still there: replaced by K, or given up.
Settled(J, K, hopeless) ==
  IF J.phase # "running" THEN J ELSE IF hopeless THEN Failed(J) ELSE K

\* Mutants of retry_matrix_chunk: an attempt too many; the chunk lost; the count of
\* chunks in flight kept; the chunk queued last; the worker kept; the job given up
\* while others still compute; both the attempts and the failed worker forgotten.
RetriedOnceMore(J, t) ==
  LET K == Requeued(J, t)
  IN  Settled(J, K, t.attempts > MaxAttempts \/ (K.available = {} /\ K.inFlight = 0))
RetriedLosesChunk(J, t) ==
  Settled(J, [Requeued(J, t) EXCEPT !.pending = J.pending], Hopeless(Requeued(J, t), t))
RetriedKeepsInFlight(J, t) ==
  LET K == [Requeued(J, t) EXCEPT !.inFlight = J.inFlight]
  IN  Settled(J, K, Hopeless(K, t))
RetriedLast(J, t) ==
  LET K == [Requeued(J, t) EXCEPT
              !.pending = Append(J.pending, [index |-> t.index, attempts |-> t.attempts])]
  IN  Settled(J, K, Hopeless(K, t))
RetriedKeepsWorker(J, t) ==
  LET K == [Requeued(J, t) EXCEPT !.available = @ \cup {t.worker}]
  IN  Settled(J, K, Hopeless(K, t))
RetriedGivesUpEarly(J, t) ==
  LET K == Requeued(J, t)
  IN  Settled(J, K, Hopeless(K, t) \/ K.available = {})
RetriedForever(J, t) ==
  LET K == [Requeued(J, t) EXCEPT !.available = @ \cup {t.worker},
                                  !.pending[1].attempts = 0]
  IN  Settled(J, K, FALSE)

\* retry_matrix_chunk.
Retried(J, t) == Settled(J, Requeued(J, t), Hopeless(Requeued(J, t), t))

---------------------------------------------------------------------------
\* The event loop.

Init ==
  /\ job = [j \in Jobs |-> Absent]
  /\ flight = {}
  /\ offer \in [Workers -> Offers]

\* The command distributed-matrix; each submission gets a fresh id.
StartMatrix(j, n) ==
  /\ job[j].phase = "absent"
  /\ Handle([job EXCEPT ![j] = Planned(n, offer)], flight, offer)

\* A response, or a finished local run, with the result of the chunk asked for.
ChunkResult(t) ==
  Handle([job EXCEPT ![t.job] = Counted(@, t)], flight \ {t}, offer)

\* A remote worker answers with a failure or with a result that does not fit.
ChunkRefused(t) ==
  /\ t.worker # Local
  /\ Handle([job EXCEPT ![t.job] = Retried(@, t)], flight \ {t}, offer)

\* The request fails: timeout, closed connection, failed dial.
OutboundFailure(t) ==
  /\ t.worker # Local
  /\ Handle([job EXCEPT ![t.job] = Retried(@, t)], flight \ {t}, offer)

\* A NodeInfo answer refreshes what a remote worker offers.
PeerResources(r, s) == Handle(job, flight, [offer EXCEPT ![r] = s])

\* resource_tick, pause-resources and resume-resources change the local score.
LocalResources(s) == Handle(job, flight, [offer EXCEPT ![Local] = s])

\* REMOTE_RESOURCE_MAX_AGE passes: nothing runs, but the score no longer counts.
ObservationExpires(r) ==
  /\ offer[r] > 0
  /\ offer' = [offer EXCEPT ![r] = 0]
  /\ UNCHANGED <<job, flight>>

Next ==
  \/ \E j \in Jobs, n \in ChunkIds : StartMatrix(j, n)
  \/ \E t \in flight : ChunkResult(t)
  \/ \E t \in flight : ChunkRefused(t)
  \/ \E t \in flight : OutboundFailure(t)
  \/ \E r \in Remotes, s \in Offers : PeerResources(r, s)
  \/ \E s \in Offers : LocalResources(s)
  \/ \E r \in Remotes : ObservationExpires(r)

Spec == Init /\ [][Next]_vars

\* request_response ends every request with a response or an outbound failure
\* (its request timeout bounds the wait), and a local run ends on its own thread.
Answer(t) == ChunkResult(t) \/ ChunkRefused(t) \/ OutboundFailure(t)

\* Less than the code gives: while anything is out, something is answered.
FairSpec == Spec /\ WF_vars(\E t \in flight : Answer(t))

---------------------------------------------------------------------------
\* Properties.

Flights(j) == {t \in flight : t.job = j}
Members(j) == job[j].available \cup {t.worker : t \in Flights(j)}
Running(j) == job[j].phase = "running"

\* The values the state takes.
TypeOK ==
  /\ job \in [Jobs -> JobRecord]
  /\ flight \in SUBSET Assignment
  /\ offer \in [Workers -> Offers]

\* Job J with assignments F: each chunk is queued, handed out or counted.
Accounted(J, F) ==
  LET queued == {J.pending[i].index : i \in DOMAIN J.pending}
      out    == {t.index : t \in F}
  IN  /\ queued \cup out \cup J.checksum = 1..J.total
      /\ queued \cap out = {} /\ queued \cap J.checksum = {} /\ out \cap J.checksum = {}
      /\ \A i, k \in DOMAIN J.pending :
           J.pending[i].index = J.pending[k].index => i = k
      /\ \A t, u \in F : t.index = u.index => t = u

Tallied(J, F) ==
  /\ J.inFlight = Cardinality(F)
  /\ J.completed = Cardinality(J.checksum)

Exclusive(J, F) ==
  /\ \A t, u \in F : t.worker = u.worker => t = u
  /\ \A t \in F : t.worker \notin J.available

\* Each chunk of a running job is in exactly one place: queued, handed out, or
\* counted. A response handled twice, or a retry that loses its chunk, breaks it.
ChunksAccountedFor == \A j \in Jobs : Running(j) => Accounted(job[j], Flights(j))

\* The counters that decide completion and failure match what is really out and
\* counted, although they are kept by hand with a saturating decrement.
CountersAgree == \A j \in Jobs : Running(j) => Tallied(job[j], Flights(j))

\* "at most one chunk in flight per worker" of one job, retries and late answers
\* included, and a busy worker is not offered as available.
OneChunkPerWorker == \A j \in Jobs : Exclusive(job[j], Flights(j))

\* Between two events every running job waits for an answer: it can never hang with
\* work queued and nobody computing, whatever pauses and lapses in between.
NoStalledJob == \A j \in Jobs : Running(j) => Flights(j) # {}

\* A chunk that failed is offered again before any chunk that was never tried.
RetriesGoFirst ==
  \A j \in Jobs : \A i, k \in DOMAIN job[j].pending :
    i < k /\ job[j].pending[k].attempts > 0 => job[j].pending[i].attempts > 0

\* The workers of a running job only get fewer: one that appears later does not
\* join, and one whose chunk came back uncounted is never given another.
WorkersOnlyLeave ==
  [][\A j \in Jobs : Running(j) /\ Running(j)' =>
       /\ Members(j)' \subseteq Members(j)
       /\ \A t \in Flights(j) \ flight' :
            t.index \notin job'[j].checksum => t.worker \notin Members(j)']_vars

\* A running job is given up only when its last attempt at a chunk failed, or when its
\* only outstanding chunk came back and no waiting worker offers anything.
GivesUpOnlyWhenStuck ==
  [][\A j \in Jobs : Running(j) /\ job'[j].phase = "failed" =>
       \E t \in Flights(j) \ flight' :
         \/ t.attempts = MaxAttempts
         \/ Flights(j) = {t} /\ \A w \in job[j].available : offer'[w] = 0]_vars

\* What a running job has left: the chunks it has not counted, the workers it has not lost.
Left(j) == (job[j].total - Cardinality(job[j].checksum)) + Cardinality(Members(j))

\* Every answer to a running job, good or bad, leaves it with less, and nothing that happens
\* in between gives any of it back: a job sees at most as many answers as it has chunks and
\* workers, however failures, retries, pauses and other jobs fall between them.
AnswersUseUp ==
  [][\A j \in Jobs : Running(j) /\ Running(j)' =>
       Left(j)' + Cardinality(Flights(j) \ flight') <= Left(j)]_vars

\* Every submitted job is eventually reported.
JobsEnd ==
  \A j \in Jobs : Running(j) ~> job[j].phase \in {"done", "failed"}

\* The scheduler keeps the promise of MatrixJobs.
Promise == INSTANCE MatrixJobs WITH
  phase   <- [j \in Jobs |-> job[j].phase],
  total   <- [j \in Jobs |-> job[j].total],
  covered <- [j \in Jobs |-> job[j].checksum]

\* A job is reported once, and a reported result covers each of its rows once.
KeepsPromise == Promise!Spec

=============================================================================
