--------------------------- MODULE PriorityQueue ---------------------------
(***************************************************************************)
(* language::PriorityQueue: one linked list sorted by priority, FIFO       *)
(* within a priority, with a pointer to the last node of every priority.   *)
(* A queue s is a record of the fields head and tails and of the nodes'    *)
(* next references; index gives each node's priority, smaller is higher.   *)
(***************************************************************************)
EXTENDS Integers, Sequences, FiniteSets, FiniteSetsExt, SequencesExt, JobLists

CONSTANTS
  Node,            \* the jobs
  Null,            \* the null reference
  JobPriority      \* the priorities jobs come with

ASSUME QueueAssumption ==
  /\ IsFiniteSet(Node)
  /\ Null \notin Node
  /\ JobPriority \subseteq 0..255

UserInitiated == 25
Default == 21
Utility == 17
Background == 9

PrioritiesCount == 5

\* Rounds a priority up to a known one; 0 is the highest bucket.
getPriorityBucketIndex(p) ==
  Cardinality({q \in {UserInitiated, Default, Utility, Background} : p <= q})

Index == 0..(PrioritiesCount - 1)
Reference == Node \cup {Null}
Queue == [head: Reference, tails: [Index -> Reference], next: [Node -> Reference]]

EmptyQueue(next) == [head |-> Null, tails |-> [i \in Index |-> Null], next |-> next]

\* The node reached from h in n steps, and null past the end of the list.  The
\* walk is cut after as many steps as there are nodes.
Walk(next, h) ==
  LET at[n \in 0..Cardinality(Node)] ==
        IF n = 0 THEN h ELSE IF at[n - 1] = Null THEN Null ELSE next[at[n - 1]]
  IN at

\* The nodes reached from h, in order.  A cycle shows as a node that occurs twice.
Chain(next, h) ==
  LET at == Walk(next, h)
      length == Cardinality({n \in DOMAIN at : at[n] # Null})
  IN [n \in 1..length |-> at[n - 1]]

\* Splices a run of nodes of priority i behind the last node of its priority or,
\* if there is none, of the nearest higher one.
enqueueRun(s, i, runHead, runTail) ==
  LET present == {k \in 0..i : s.tails[k] # Null}
      last == s.tails[Max(present)]
  IN [head  |-> IF present = {} THEN runHead ELSE s.head,
      next  |-> IF present = {} THEN [s.next EXCEPT ![runTail] = s.head]
                ELSE [s.next EXCEPT ![runTail] = s.next[last], ![last] = runHead],
      tails |-> [s.tails EXCEPT ![i] = runTail]]

enqueue(s, index, n) == enqueueRun(s, index[n], n, n)

\* The first node of the run of one priority that reaches position k of a list
RunStart(index, list, k) ==
  Min({a \in 1..k : \A b \in a..k : index[list[b]] = index[list[k]]})

\* The queue s with the first k nodes of a list, k at the end of a run: what
\* precedes the last run, and then that run.
Merge(s, index, list) ==
  LET merged[k \in 0..Len(list)] ==
        IF k = 0 THEN s
        ELSE LET start == RunStart(index, list, k)
             IN enqueueRun(merged[start - 1], index[list[k]], list[start], list[k])
  IN merged

\* Cuts the chain that starts at otherHead into runs of one priority and splices
\* each of them.  A run's successor is read before the run is spliced.
enqueueContentsOf(s, index, otherHead) ==
  LET list == Chain(s.next, otherHead)
  IN Merge(s, index, list)[Len(list)]

\* Mutant: the tail of a priority that has become empty stays.
dequeue_KeepsTail(s, index) ==
  IF s.head = Null THEN s ELSE [s EXCEPT !.head = s.next[s.head]]

\* The queue without its first node, whose reference is s.head.
dequeue(s, index) ==
  LET first == s.head
      rest == s.next[first]
      emptied == rest = Null \/ index[first] # index[rest]
  IN IF first = Null THEN s
     ELSE [s EXCEPT !.head = rest,
                    !.tails[index[first]] = IF emptied THEN Null ELSE @]
=============================================================================
