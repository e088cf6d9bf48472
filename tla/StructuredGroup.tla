-------------------------- MODULE StructuredGroup ---------------------------
(***************************************************************************)
(* What a task group promises to the code around it: results come out in   *)
(* the order in which the child tasks completed, each of them once, and    *)
(* the scope is left only after every child task has completed and, in a   *)
(* group that keeps results, after every result has been taken.            *)
(***************************************************************************)
EXTENDS Integers, Sequences

CONSTANT Child

VARIABLES
  added,      \* the child tasks added to the group
  completed,  \* those that completed, oldest first
  taken,      \* those whose results next() has returned
  keeps,      \* whether results are kept for next()
  left        \* the scope of the group has been left

vars == <<added, completed, taken, keeps, left>>

Init ==
  /\ added = {}
  /\ completed = <<>>
  /\ taken = <<>>
  /\ keeps \in BOOLEAN
  /\ left = FALSE

Add(c) ==
  /\ ~left
  /\ c \notin added
  /\ added' = added \cup {c}
  /\ UNCHANGED <<completed, taken, keeps, left>>

Complete(c) ==
  /\ c \in added
  /\ \A i \in DOMAIN completed : completed[i] # c
  /\ completed' = Append(completed, c)
  /\ UNCHANGED <<added, taken, keeps, left>>

Take ==
  /\ keeps
  /\ Len(taken) < Len(completed)
  /\ taken' = Append(taken, completed[Len(taken) + 1])
  /\ UNCHANGED <<added, completed, keeps, left>>

Leave ==
  /\ \A c \in added : \E i \in DOMAIN completed : completed[i] = c
  /\ keeps => taken = completed
  /\ left' = TRUE
  /\ UNCHANGED <<added, completed, taken, keeps>>

Next ==
  \/ \E c \in Child : Add(c) \/ Complete(c)
  \/ Take
  \/ Leave

Spec == Init /\ [][Next]_vars
=============================================================================
