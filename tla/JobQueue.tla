------------------------------ MODULE JobQueue ------------------------------
(***************************************************************************)
(* What the actor's queue promises to its drainer: jobs that came in are   *)
(* claimed all at once and handed out highest priority first, in arrival   *)
(* order within a priority, each of them once.                             *)
(***************************************************************************)
EXTENDS Integers, Sequences, SequencesExt, JobLists

CONSTANTS Node, Null, PrioritiesCount

VARIABLES
  incoming,  \* jobs that came in, newest first
  claimed,   \* claimed jobs of each priority, oldest first
  drained,   \* what the drainer was handed last
  index      \* priority of each job

vars == <<incoming, claimed, drained, index>>
Index == 0..(PrioritiesCount - 1)

Init ==
  /\ incoming = <<>>
  /\ claimed = [i \in Index |-> <<>>]
  /\ drained = Null
  /\ index \in [Node -> Index]

Waits(n) == n \in Range(incoming) \/ \E i \in Index : n \in Range(claimed[i])

Push(n, i) ==
  /\ ~Waits(n)
  /\ incoming' = <<n>> \o incoming
  /\ index' = [index EXCEPT ![n] = i]
  /\ UNCHANGED <<claimed, drained>>

Claim ==
  /\ claimed' = [i \in Index |-> claimed[i] \o OfPriority(Reverse(incoming), index, i)]
  /\ incoming' = <<>>
  /\ UNCHANGED <<drained, index>>

Drain ==
  /\ \/ /\ \A i \in Index : claimed[i] = <<>>
        /\ drained' = Null
        /\ UNCHANGED claimed
     \/ \E i \in Index :
          /\ claimed[i] # <<>>
          /\ \A k \in 0..(i - 1) : claimed[k] = <<>>
          /\ drained' = Head(claimed[i])
          /\ claimed' = [claimed EXCEPT ![i] = Tail(@)]
  /\ UNCHANGED <<incoming, index>>

Next ==
  \/ \E n \in Node, i \in Index : Push(n, i)
  \/ Claim
  \/ Drain

Spec == Init /\ [][Next]_vars
=============================================================================
