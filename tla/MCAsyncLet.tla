----------------------------- MODULE MCAsyncLet -----------------------------
(* Instances of AsyncLet for TLC. *)
EXTENDS AsyncLet

CONSTANTS l1, l2, task

MCProgram == {[lets |-> <<l1, l2>>, tasks |-> {}],
              [lets |-> <<l2, l1>>, tasks |-> {}],
              [lets |-> <<l1>>, tasks |-> {task}],
              [lets |-> <<>>, tasks |-> {task}]}
=============================================================================
