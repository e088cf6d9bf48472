--------------------------- MODULE ActorJobQueue ---------------------------
(***************************************************************************)
(* The two job lists of a default actor, with their pointers: the LIFO     *)
(* list whose head is in the status word and the PriorityQueue of the lock *)
(* holder.  Both thread the same next reference, Job::SchedulerPrivate[0]. *)
(***************************************************************************)
EXTENDS PriorityQueue

VARIABLES
  firstJob,  \* head of the LIFO list, in ActiveActorStatus
  queue,     \* prioritizedJobs, and the next reference of every job
  drained,   \* what drainOne() returned last
  index,     \* getPriorityIndex of each job
  queued     \* the jobs the actor has: a job is enqueued once at a time

vars == <<firstJob, queue, drained, index, queued>>

Init ==
  /\ firstJob = Null
  /\ queue = EmptyQueue([n \in Node |-> Null])
  /\ drained = Null
  /\ index = [n \in Node |-> 0]
  /\ queued = {}

\* enqueue(): link the job in front of the list of the status word.  Whatever its
\* next reference was before is overwritten.
Enqueue(n, p) ==
  /\ n \notin queued
  /\ queued' = queued \cup {n}
  /\ index' = [index EXCEPT ![n] = getPriorityBucketIndex(p)]
  /\ queue' = [queue EXCEPT !.next[n] = firstJob]
  /\ firstJob' = n
  /\ UNCHANGED drained

\* Mutant: the list is handed over in the order it was pushed.
handleUnprioritizedJobs_NoReverse(s, head) == enqueueContentsOf(s, index, head)

\* Reverse the list in place, then merge it into the priority queue.
handleUnprioritizedJobs(s, head) ==
  LET c == Chain(s.next, head)
      Before(k) == IF k = 1 THEN Null ELSE c[k - 1]
      next == [n \in Node |->
                 IF n \in Range(c) THEN Before(CHOOSE k \in DOMAIN c : c[k] = n)
                 ELSE s.next[n]]
      reversed == IF c = <<>> THEN Null ELSE Last(c)
  IN enqueueContentsOf([s EXCEPT !.next = next], index, reversed)

\* processIncomingQueue(), and the claim in tryLock()
ProcessIncomingQueue ==
  /\ firstJob # Null
  /\ firstJob' = Null
  /\ queue' = handleUnprioritizedJobs(queue, firstJob)
  /\ UNCHANGED <<drained, index, queued>>

DrainOne ==
  /\ queue' = dequeue(queue, index)
  /\ drained' = queue.head
  /\ queued' = queued \ {queue.head}
  /\ UNCHANGED <<firstJob, index>>

Next ==
  \/ \E n \in Node, p \in JobPriority : Enqueue(n, p)
  \/ ProcessIncomingQueue
  \/ DrainOne

Spec == Init /\ [][Next]_vars

-----------------------------------------------------------------------------
(* Properties *)

Prioritized == Chain(queue.next, queue.head)
Incoming == Chain(queue.next, firstJob)
Bucket(i) == OfPriority(Prioritized, index, i)

\* Heads, tails and next references name jobs, and every job has a bucket.
TypeOK ==
  /\ firstJob \in Reference
  /\ queue \in Queue
  /\ drained \in Reference
  /\ index \in [Node -> Index]
  /\ queued \subseteq Node

\* The two lists share the jobs' next references and still stay apart: together
\* they hold every job of the actor, each once, and neither runs into the other.
ListsPartitionJobs ==
  /\ Range(Incoming) \cup Range(Prioritized) = queued
  /\ Len(Incoming) + Len(Prioritized) = Cardinality(queued)

\* tails[i] is the last node of priority i in the list, and null exactly when the
\* priority is empty, through splices of runs and dequeues of last nodes.
TailsAreLast ==
  \A i \in Index : queue.tails[i] = IF Bucket(i) = <<>> THEN Null ELSE Last(Bucket(i))

\* What push, claim and drain rely on: every priority has a bucket, 0 and values between the
\* known ones included, the lists partition the jobs and the tails close their runs.
ListsAreWellFormed == TypeOK /\ ListsPartitionJobs /\ TailsAreLast

Abstract == INSTANCE JobQueue
  WITH incoming <- Incoming, claimed <- [i \in Index |-> Bucket(i)]

\* The pointer structure implements the abstract queue: claimed at once, highest
\* priority first, in arrival order within a priority.
ImplementsJobQueue == Abstract!Spec
=============================================================================
