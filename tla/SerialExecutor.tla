--------------------------- MODULE SerialExecutor ---------------------------
(***************************************************************************)
(* What a serial executor promises to the tasks of an actor: one task at a *)
(* time, every submitted task started once, and no task overtaking one     *)
(* that was submitted earlier with the same or a higher priority.  A task  *)
(* may enter without waiting only when nobody runs or waits.               *)
(***************************************************************************)
EXTENDS Integers, Sequences, SequencesExt

CONSTANTS Job, NoJob, MaxPriority

VARIABLES
  pending,  \* submitted and not started, oldest first
  current   \* the task that owns the executor

vars == <<pending, current>>

Init ==
  /\ pending = <<>>
  /\ current = NoJob

Submit(j, p) ==
  /\ \A i \in DOMAIN pending : pending[i].job # j
  /\ pending' = Append(pending, [job |-> j, priority |-> p])
  /\ UNCHANGED current

Start(i) ==
  /\ current = NoJob
  /\ \A k \in 1..(i - 1) : pending[k].priority < pending[i].priority
  /\ current' = pending[i].job
  /\ pending' = RemoveAt(pending, i)

Enter(j) ==
  /\ current = NoJob
  /\ pending = <<>>
  /\ current' = j
  /\ UNCHANGED pending

Leave ==
  /\ current # NoJob
  /\ current' = NoJob
  /\ UNCHANGED pending

Next ==
  \/ \E j \in Job, p \in 1..MaxPriority : Submit(j, p)
  \/ \E i \in DOMAIN pending : Start(i)
  \/ \E j \in Job : Enter(j)
  \/ Leave

Spec == Init /\ [][Next]_vars
=============================================================================
