---------------------------- MODULE MCDebuggerTasks ----------------------------
(***************************************************************************)
(* Two records in the list and three finished rows in the table, which may *)
(* be full from the start, and five ids, so that both limits are met; two  *)
(* Agents, so that ids come back.                                          *)
(***************************************************************************)
EXTENDS DebuggerTasks

CONSTANTS i1, i2, i3, i4, i5

Row(id, state) == [id |-> id, known |-> state # "failed", state |-> state]

MCEarlier ==
  {<<>>} \cup {<<Row(s[1], "completed"), Row(s[2], "completed"), Row(s[3], "failed")>> :
                 s \in {s \in [1..3 -> {i1, i2, i3}] : IsInjective(s)}}

IdSymmetry == Permutations({i1, i2, i3}) \cup Permutations({i4, i5})

=============================================================================
