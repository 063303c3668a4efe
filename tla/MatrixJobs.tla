------------------------------- MODULE MatrixJobs -------------------------------
(***************************************************************************)
(* What the owner of an Agent is promised about a distributed matrix job:  *)
(* it is reported once, and a result covers every chunk exactly once. How  *)
(* chunks reach workers, fail and are retried is left to MatrixScheduler,  *)
(* which implements this module.                                           *)
(***************************************************************************)
EXTENDS Integers

CONSTANTS Jobs, MaxChunks

VARIABLES
  phase,     \* absent, running, or the report: done, failed
  total,     \* chunks the job is cut into
  covered    \* chunks whose result is part of the aggregate

vars == <<phase, total, covered>>

Init ==
  /\ phase = [j \in Jobs |-> "absent"]
  /\ total = [j \in Jobs |-> 0]
  /\ covered = [j \in Jobs |-> {}]

Submit(j, n) ==
  /\ phase[j] = "absent"
  /\ phase' = [phase EXCEPT ![j] = "running"]
  /\ total' = [total EXCEPT ![j] = n]
  /\ UNCHANGED covered

\* A chunk is counted at most once; the last one completes the job.
Count(j, c) ==
  /\ phase[j] = "running"
  /\ c \in (1..total[j]) \ covered[j]
  /\ covered' = [covered EXCEPT ![j] = @ \cup {c}]
  /\ phase' = [phase EXCEPT ![j] =
                 IF covered[j] \cup {c} = 1..total[j] THEN "done" ELSE "running"]
  /\ UNCHANGED total

\* Rejected for want of workers, or abandoned. No partial result is kept.
GiveUp(j) ==
  /\ phase[j] \in {"absent", "running"}
  /\ phase' = [phase EXCEPT ![j] = "failed"]
  /\ total' = [total EXCEPT ![j] = 0]
  /\ covered' = [covered EXCEPT ![j] = {}]

Next ==
  \E j \in Jobs :
    \/ \E n \in 1..MaxChunks : Submit(j, n)
    \/ \E c \in 1..MaxChunks : Count(j, c)
    \/ GiveUp(j)

Spec == Init /\ [][Next]_vars

=============================================================================
