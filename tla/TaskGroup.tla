----------------------------- MODULE TaskGroup ------------------------------
(***************************************************************************)
(* One task group, from its creation in withTaskGroup or                   *)
(* withDiscardingTaskGroup to its destruction: the status word with its    *)
(* ready and pending counts, the wait queue, the ready queue, the list of  *)
(* child tasks, the owning task, the child tasks that complete on other    *)
(* threads, and a thread that cancels the owning task.                     *)
(*                                                                         *)
(* The mutex of the group is explicit: acquiring it is joined with the     *)
(* step that follows, releasing it with the step before.  What the code    *)
(* does under the owning task's status record lock is one step, because it *)
(* takes no other lock there.  Updates of the status word that are made    *)
(* without the mutex are steps of their own.                               *)
(***************************************************************************)
EXTENDS Integers, Sequences, FiniteSets

CONSTANTS
  MaxChildren,  \* bound: child tasks added in one behaviour
  MaxPending    \* maskAccumulatingPending or maskDiscardingPending: the largest
                \* value of the pending field

ASSUME BoundsAssumption ==
  /\ MaxChildren \in Nat \ {0}
  /\ MaxPending \in Nat \ {0}

\* Child tasks are numbered in the order in which they are added.
Child == 1..MaxChildren
Owner == 0
Canceller == -1
NoOne == -2

VARIABLES
  discarding,       \* isDiscardingResults()
  status,           \* TaskGroupStatus
  mutex,            \* holder of mutex_
  assumed,          \* the status that the holder of the mutex works from
  waitQueue,        \* the owner is in the wait queue
  readyQueue,       \* ReadyQueueItems, oldest first
  children,         \* the list in the TaskGroupTaskStatusRecord
  pc,               \* position of the owner, the child tasks and the canceller
  finishing,        \* the body of with...TaskGroup has ended
  bodyError,        \* it ended by throwing
  slot,             \* the result in the owner's TaskFutureWaitAsyncContext
  outcome,          \* what awaitAllRemainingTasks() of a discarding group ended with
  fails,            \* the child task completes by throwing
  cancelled,        \* tasks whose cancelled bit is set
  retained,         \* retains of a child task that the ready queue accounts for
  offered,          \* history: child tasks in the order of their offers
  delivered         \* history: child tasks whose results next() returned

vars == <<discarding, status, mutex, assumed, waitQueue, readyQueue, children, pc,
          finishing, bodyError, slot, outcome, fails, cancelled, retained, offered,
          delivered>>

NoStatus == [cancelled |-> FALSE, waiting |-> FALSE, ready |-> 0, pending |-> 0]

\* A ReadyQueueItem or the PollResult made from it
Item(kind, task) == [kind |-> kind, task |-> task]
Empty == Item("empty", NoOne)
RawError == Item("rawError", NoOne)
CompletedTask(c) == Item(IF fails[c] THEN "error" ELSE "success", c)

Added == {c \in Child : pc[c] # "none"}

-----------------------------------------------------------------------------
(* The status word *)

\* Ready, pending and waiting in one exchange; no ready count in a discarding group
completingPendingReadyWaiting(s) ==
  [s EXCEPT !.pending = @ - 1, !.ready = @ - IF discarding THEN 0 ELSE 1, !.waiting = FALSE]

statusMarkWaiting(s) == [s EXCEPT !.waiting = TRUE]

statusRemoveWaiting(s) == [s EXCEPT !.waiting = FALSE]

\* Mutant: a discarding group leaves the offered task pending.
statusAfterOffer_StillPending(s) == [s EXCEPT !.ready = @ + IF discarding THEN 0 ELSE 1]

\* The first step of offer(): the ready count goes up; a discarding group takes the
\* task off the pending count instead.
statusAfterOffer(s) ==
  IF discarding THEN [s EXCEPT !.pending = @ - 1] ELSE [s EXCEPT !.ready = @ + 1]

-----------------------------------------------------------------------------
(* _language_taskGroup_initialize() *)

\* A group created by a cancelled task is cancelled.
Init ==
  /\ discarding \in BOOLEAN
  /\ cancelled \in {{}, {Owner}}
  /\ status = [NoStatus EXCEPT !.cancelled = (cancelled = {Owner})]
  /\ mutex = NoOne
  /\ assumed = NoStatus
  /\ waitQueue = FALSE
  /\ readyQueue = <<>>
  /\ children = {}
  /\ pc = [p \in Child \cup {Owner, Canceller} |-> IF p = Owner THEN "body" ELSE "none"]
  /\ finishing = FALSE
  /\ bodyError = FALSE
  /\ slot = Empty
  /\ outcome = Empty
  /\ fails = [c \in Child |-> FALSE]
  /\ retained = [c \in Child |-> 0]
  /\ offered = <<>>
  /\ delivered = <<>>

\* reportPendingTaskOverflow() ends the program with abort().
Aborted == pc[Owner] = "aborted"
At(p, position) == pc[p] = position /\ ~Aborted
Goto(p, position) == pc' = [pc EXCEPT ![p] = position]

Locks(p) ==
  /\ mutex = NoOne
  /\ mutex' = p

Unlocks ==
  /\ mutex' = NoOne
  /\ assumed' = NoStatus

Detached(cs) == children' = children \ cs

-----------------------------------------------------------------------------
(* addTask() and addTaskUnlessCancelled() *)

\* statusAddPendingTaskAssumeRelaxed(): the count goes up first; reaching the largest
\* value ends the program.  Only then is a cancelled group considered.
AddPending(unconditionally) ==
  /\ At(Owner, "body")
  /\ LET c == Cardinality(Added) + 1
         s == [status EXCEPT !.pending = @ + 1]
     IN  /\ status' = s
         /\ \/ /\ s.pending = MaxPending
               /\ Goto(Owner, "aborted")
            \/ /\ s.pending # MaxPending
               /\ ~unconditionally /\ s.cancelled
               /\ Goto(Owner, "revert")
            \/ /\ s.pending # MaxPending
               /\ unconditionally \/ ~s.cancelled
               /\ c \in Child
               /\ pc' = [pc EXCEPT ![Owner] = "create", ![c] = "created"]
  /\ UNCHANGED <<discarding, mutex, assumed, waitQueue, readyQueue, children, finishing,
                 bodyError, slot, outcome, fails, cancelled, retained, offered, delivered>>

RevertPending ==
  /\ At(Owner, "revert")
  /\ status' = [status EXCEPT !.pending = @ - 1]
  /\ Goto(Owner, "body")
  /\ UNCHANGED <<discarding, mutex, assumed, waitQueue, readyQueue, children, finishing,
                 bodyError, slot, outcome, fails, cancelled, retained, offered, delivered>>

\* language_task_create_common(): the new task starts cancelled in a cancelled group.
CreateTask(c) ==
  /\ At(Owner, "create")
  /\ At(c, "created")
  /\ cancelled' = cancelled \cup IF status.cancelled \/ Owner \in cancelled THEN {c} ELSE {}
  /\ Goto(Owner, "attach")
  /\ UNCHANGED <<discarding, status, mutex, assumed, waitQueue, readyQueue, children,
                 finishing, bodyError, slot, outcome, fails, retained, offered, delivered>>

\* Mutant: cancellation is not looked at again.
AttachChild_NoRecheck(c) ==
  /\ At(Owner, "attach")
  /\ At(c, "created")
  /\ children' = children \cup {c}
  /\ pc' = [pc EXCEPT ![Owner] = "body", ![c] = "running"]
  /\ UNCHANGED <<discarding, status, mutex, assumed, waitQueue, readyQueue, finishing, bodyError,
                 slot, outcome, fails, cancelled, retained, offered, delivered>>

\* language_taskGroup_attachChild(), which looks at the group's and the owner's
\* cancellation again under the status record lock; then the task is enqueued.
AttachChild(c) ==
  /\ At(Owner, "attach")
  /\ At(c, "created")
  /\ children' = children \cup {c}
  /\ cancelled' = cancelled \cup IF status.cancelled \/ Owner \in cancelled THEN {c} ELSE {}
  /\ pc' = [pc EXCEPT ![Owner] = "body", ![c] = "running"]
  /\ UNCHANGED <<discarding, status, mutex, assumed, waitQueue, readyQueue, finishing, bodyError,
                 slot, outcome, fails, retained, offered, delivered>>

-----------------------------------------------------------------------------
(* cancelAll(), called by the owner and by the offer of a failed task *)

Await == IF discarding THEN "waitAll" ELSE "poll"

AfterCancelAll(p) ==
  CASE p # Owner -> "claim"
    [] p = Owner /\ finishing -> Await
    [] OTHER -> "body"

CallCancelAll ==
  /\ At(Owner, "body")
  /\ Goto(Owner, "cancel")
  /\ UNCHANGED <<discarding, status, mutex, assumed, waitQueue, readyQueue, children,
                 finishing, bodyError, slot, outcome, fails, cancelled, retained, offered,
                 delivered>>

\* statusCancel(); whoever comes second leaves the child tasks to the first.
StatusCancel(p) ==
  /\ At(p, "cancel")
  /\ Goto(p, IF status.cancelled THEN AfterCancelAll(p) ELSE "cancelCheck")
  /\ status' = [status EXCEPT !.cancelled = TRUE]
  /\ UNCHANGED <<discarding, mutex, assumed, waitQueue, readyQueue, children, finishing,
                 bodyError, slot, outcome, fails, cancelled, retained, offered, delivered>>

\* _language_taskGroup_cancel_unlocked() reads FirstChild without a lock.
CheckFirstChild(p) ==
  /\ At(p, "cancelCheck")
  /\ Goto(p, IF children = {} THEN AfterCancelAll(p) ELSE "cancelWalk")
  /\ UNCHANGED <<discarding, status, mutex, assumed, waitQueue, readyQueue, children,
                 finishing, bodyError, slot, outcome, fails, cancelled, retained, offered,
                 delivered>>

\* _language_taskGroup_cancel() under the owner's status record lock
CancelChildren(p) ==
  /\ At(p, "cancelWalk")
  /\ Goto(p, AfterCancelAll(p))
  /\ status' = [status EXCEPT !.cancelled = TRUE]
  /\ cancelled' = cancelled \cup children
  /\ UNCHANGED <<discarding, mutex, assumed, waitQueue, readyQueue, children, finishing,
                 bodyError, slot, outcome, fails, retained, offered, delivered>>

-----------------------------------------------------------------------------
(* language_task_cancel() of the owning task, by another thread *)

CancelOwner ==
  /\ At(Canceller, "none")
  /\ Owner \notin cancelled
  /\ cancelled' = cancelled \cup {Owner}
  /\ Goto(Canceller, "walk")
  /\ UNCHANGED <<discarding, status, mutex, assumed, waitQueue, readyQueue, children,
                 finishing, bodyError, slot, outcome, fails, retained, offered, delivered>>

\* The record is gone once the group is destroyed.
CancelRecords ==
  /\ At(Canceller, "walk")
  /\ Goto(Canceller, "done")
  /\ IF At(Owner, "destroyed")
     THEN UNCHANGED <<status, cancelled>>
     ELSE /\ status' = [status EXCEPT !.cancelled = TRUE]
          /\ cancelled' = cancelled \cup children
  /\ UNCHANGED <<discarding, mutex, assumed, waitQueue, readyQueue, children, finishing,
                 bodyError, slot, outcome, fails, retained, offered, delivered>>

-----------------------------------------------------------------------------
(* completeFuture() of a child task, and offer() *)

ChildCompletes(c, throws) ==
  /\ At(c, "running")
  /\ fails' = [fails EXCEPT ![c] = throws]
  /\ Goto(c, "offer")
  /\ UNCHANGED <<discarding, status, mutex, assumed, waitQueue, readyQueue, children,
                 finishing, bodyError, slot, outcome, cancelled, retained, offered, delivered>>

\* A failed task of a discarding group cancels its siblings before anything else.
OfferLocks(c) ==
  /\ At(c, "offer")
  /\ Locks(c)
  /\ status' = statusAfterOffer(status)
  /\ assumed' = statusAfterOffer(status)
  /\ offered' = Append(offered, c)
  /\ Goto(c, IF discarding /\ fails[c] THEN "cancel" ELSE "claim")
  /\ UNCHANGED <<discarding, waitQueue, readyQueue, children, finishing, bodyError, slot,
                 outcome, fails, cancelled, retained, delivered>>

\* claimWaitingTask() and prepareWaitingTaskWithTask() for the task that was offered
OfferToWaiter(c) ==
  /\ At(c, "claim")
  /\ ~discarding
  /\ assumed.waiting
  /\ waitQueue' = FALSE
  /\ status' = completingPendingReadyWaiting(status)
  /\ slot' = CompletedTask(c)
  /\ delivered' = Append(delivered, c)
  /\ Detached({c})
  /\ Unlocks
  /\ Goto(c, "run")
  /\ UNCHANGED <<discarding, readyQueue, finishing, bodyError, outcome, fails, cancelled,
                 retained, offered>>

Enqueues(c) ==
  /\ readyQueue' = Append(readyQueue, CompletedTask(c))
  /\ retained' = [retained EXCEPT ![c] = @ + 1]

\* Mutant: the result goes to the front of the queue.
OfferToQueue_Front(c) ==
  /\ At(c, "claim")
  /\ ~discarding
  /\ ~assumed.waiting
  /\ readyQueue' = <<CompletedTask(c)>> \o readyQueue
  /\ retained' = [retained EXCEPT ![c] = @ + 1]
  /\ Unlocks
  /\ Goto(c, "done")
  /\ UNCHANGED <<discarding, status, waitQueue, children, finishing, bodyError, slot, outcome,
                 fails, cancelled, offered, delivered>>

\* The owner is not waiting: the result is kept, and the task with it.
OfferToQueue(c) ==
  /\ At(c, "claim")
  /\ ~discarding
  /\ ~assumed.waiting
  /\ Enqueues(c)
  /\ Unlocks
  /\ Goto(c, "done")
  /\ UNCHANGED <<discarding, status, waitQueue, children, finishing, bodyError, slot, outcome,
                 fails, cancelled, offered, delivered>>

\* The last pending task of a discarding group, and the owner is waiting
IsLast == assumed.waiting /\ assumed.pending = 0

\* Mutant: the last task resumes the owner with its own result.
OfferLast_OwnResult(c) ==
  /\ At(c, "claim")
  /\ discarding
  /\ IsLast
  /\ waitQueue' = FALSE
  /\ slot' = CompletedTask(c)
  /\ \/ /\ readyQueue = <<>>
        /\ Detached({c})
        /\ UNCHANGED <<readyQueue, retained>>
     \/ /\ readyQueue # <<>>
        /\ readyQueue' = Tail(readyQueue)
        /\ LET d == Head(readyQueue).task
           IN  /\ Detached({c, d})
               /\ retained' = [e \in Child |-> retained[e] - IF e = d THEN 1 ELSE 0]
  /\ Unlocks
  /\ Goto(c, "run")
  /\ UNCHANGED <<discarding, status, finishing, bodyError, outcome, fails, cancelled, offered,
                 delivered>>

\* The owner is resumed with the error stored first, if there is one.
OfferLast(c) ==
  /\ At(c, "claim")
  /\ discarding
  /\ IsLast
  /\ waitQueue' = FALSE
  /\ \/ /\ readyQueue = <<>>
        /\ slot' = CompletedTask(c)
        /\ Detached({c})
        /\ UNCHANGED <<readyQueue, retained>>
     \/ /\ readyQueue # <<>>
        /\ slot' = Head(readyQueue)
        /\ readyQueue' = Tail(readyQueue)
        /\ Detached({c, slot'.task})
        /\ retained' = [d \in Child |-> retained[d] - IF d = slot'.task THEN 1 ELSE 0]
  /\ Unlocks
  /\ Goto(c, "run")
  /\ UNCHANGED <<discarding, status, finishing, bodyError, outcome, fails, cancelled, offered,
                 delivered>>

\* Mutant: the dropped task stays in the child list.
OfferNotLast_StaysAttached(c) ==
  /\ At(c, "claim")
  /\ discarding
  /\ ~IsLast
  /\ \/ /\ fails[c] /\ readyQueue = <<>>
        /\ Enqueues(c)
     \/ /\ ~fails[c] \/ readyQueue # <<>>
        /\ UNCHANGED <<readyQueue, retained>>
  /\ Unlocks
  /\ Goto(c, "done")
  /\ UNCHANGED <<discarding, status, waitQueue, children, finishing, bodyError, slot, outcome, fails,
                 cancelled, offered, delivered>>

\* Only the first error is kept; every other task is let go.
OfferNotLast(c) ==
  /\ At(c, "claim")
  /\ discarding
  /\ ~IsLast
  /\ \/ /\ fails[c] /\ readyQueue = <<>>
        /\ Enqueues(c)
        /\ UNCHANGED children
     \/ /\ ~fails[c] \/ readyQueue # <<>>
        /\ Detached({c})
        /\ UNCHANGED <<readyQueue, retained>>
  /\ Unlocks
  /\ Goto(c, "done")
  /\ UNCHANGED <<discarding, status, waitQueue, finishing, bodyError, slot, outcome, fails,
                 cancelled, offered, delivered>>

\* runWaitingTask(), after the mutex was released
RunWaitingTask(c) ==
  /\ At(c, "run")
  /\ At(Owner, "parked")
  /\ pc' = [pc EXCEPT ![c] = "done", ![Owner] = "resumed"]
  /\ UNCHANGED <<discarding, status, mutex, assumed, waitQueue, readyQueue, children,
                 finishing, bodyError, slot, outcome, fails, cancelled, retained, offered,
                 delivered>>

-----------------------------------------------------------------------------
(* next(): language_taskGroup_wait_next_throwing() and poll() *)

CallNext ==
  /\ At(Owner, "body")
  /\ ~discarding
  /\ Goto(Owner, "poll")
  /\ UNCHANGED <<discarding, status, mutex, assumed, waitQueue, readyQueue, children,
                 finishing, bodyError, slot, outcome, fails, cancelled, retained, offered,
                 delivered>>

\* next() returned; awaitAllRemainingTasks() calls it again until it returns nil.
AfterNext == IF finishing THEN "poll" ELSE "body"

PollLocks ==
  /\ At(Owner, "poll")
  /\ Locks(Owner)
  /\ status' = statusMarkWaiting(status)
  /\ assumed' = statusMarkWaiting(status)
  /\ Goto(Owner, "polled")
  /\ UNCHANGED <<discarding, waitQueue, readyQueue, children, finishing, bodyError, slot,
                 outcome, fails, cancelled, retained, offered, delivered>>

PollEmpty ==
  /\ At(Owner, "polled")
  /\ assumed.pending = 0
  /\ status' = statusRemoveWaiting(status)
  /\ Unlocks
  /\ Goto(Owner, IF finishing THEN "destroy" ELSE "body")
  /\ UNCHANGED <<discarding, waitQueue, readyQueue, children, finishing, bodyError, slot,
                 outcome, fails, cancelled, retained, offered, delivered>>

PollReady ==
  /\ At(Owner, "polled")
  /\ assumed.ready > 0
  /\ status' = completingPendingReadyWaiting(status)
  /\ slot' = Head(readyQueue)
  /\ readyQueue' = Tail(readyQueue)
  /\ delivered' = Append(delivered, slot'.task)
  /\ Unlocks
  /\ Goto(Owner, "polledTask")
  /\ UNCHANGED <<discarding, waitQueue, children, finishing, bodyError, outcome, fails,
                 cancelled, retained, offered>>

\* Back in language_taskGroup_wait_next_throwing(), without the mutex
ReturnPolled ==
  /\ At(Owner, "polledTask")
  /\ Detached({slot.task})
  /\ retained' = [retained EXCEPT ![slot.task] = @ - 1]
  /\ slot' = Empty
  /\ Goto(Owner, AfterNext)
  /\ UNCHANGED <<discarding, status, mutex, assumed, waitQueue, readyQueue, finishing, bodyError,
                 outcome, fails, cancelled, offered, delivered>>

\* Nothing is ready: the owner is suspended and goes into the wait queue.
PollWaits ==
  /\ At(Owner, "polled")
  /\ assumed.pending > 0
  /\ assumed.ready = 0
  /\ waitQueue' = TRUE
  /\ Unlocks
  /\ Goto(Owner, "parked")
  /\ UNCHANGED <<discarding, status, readyQueue, children, finishing, bodyError, slot, outcome,
                 fails, cancelled, retained, offered, delivered>>

\* An executor runs the owner again.
Resume ==
  /\ At(Owner, "resumed")
  /\ outcome' = IF discarding THEN slot ELSE outcome
  /\ slot' = Empty
  /\ Goto(Owner, IF discarding THEN "destroy" ELSE AfterNext)
  /\ UNCHANGED <<discarding, status, mutex, assumed, waitQueue, readyQueue, children,
                 finishing, bodyError, fails, cancelled, retained, offered, delivered>>

-----------------------------------------------------------------------------
(* The end of the scope: waitAll() of a discarding group, then destroy() *)

BodyReturns ==
  /\ At(Owner, "body")
  /\ finishing' = TRUE
  /\ Goto(Owner, Await)
  /\ UNCHANGED <<discarding, status, mutex, assumed, waitQueue, readyQueue, children, bodyError,
                 slot, outcome, fails, cancelled, retained, offered, delivered>>

\* The group is cancelled first.
BodyThrows ==
  /\ At(Owner, "body")
  /\ finishing' = TRUE
  /\ bodyError' = TRUE
  /\ Goto(Owner, "cancel")
  /\ UNCHANGED <<discarding, status, mutex, assumed, waitQueue, readyQueue, children, slot,
                 outcome, fails, cancelled, retained, offered, delivered>>

WaitAllLocks ==
  /\ At(Owner, "waitAll")
  /\ Locks(Owner)
  /\ assumed' = status
  /\ Goto(Owner, "waiting")
  /\ UNCHANGED <<discarding, status, waitQueue, readyQueue, children, finishing, bodyError, slot,
                 outcome, fails, cancelled, retained, offered, delivered>>

\* Nothing is pending: the body's error, else the stored one.
WaitAllEmpty ==
  /\ At(Owner, "waiting")
  /\ assumed.pending = 0
  /\ \/ /\ readyQueue = <<>>
        /\ outcome' = IF bodyError THEN RawError ELSE Empty
        /\ UNCHANGED <<readyQueue, children, retained>>
     \/ /\ readyQueue # <<>>
        /\ LET first == Head(readyQueue)
           IN  /\ outcome' = IF bodyError THEN RawError ELSE first
               /\ Detached({first.task})
               /\ retained' = [d \in Child |-> retained[d] - IF d = first.task THEN 1 ELSE 0]
        /\ readyQueue' = Tail(readyQueue)
  /\ Unlocks
  /\ Goto(Owner, "destroy")
  /\ UNCHANGED <<discarding, status, waitQueue, finishing, bodyError, slot, fails, cancelled,
                 offered, delivered>>

\* Mutant: the waiting bit is not set.
WaitAllParks_NotWaiting ==
  /\ At(Owner, "waiting")
  /\ assumed.pending > 0
  /\ readyQueue' = IF bodyError /\ readyQueue = <<>> THEN <<RawError>> ELSE readyQueue
  /\ waitQueue' = TRUE
  /\ Unlocks
  /\ Goto(Owner, "parked")
  /\ UNCHANGED <<discarding, status, children, finishing, bodyError, slot, outcome, fails, cancelled,
                 retained, offered, delivered>>

\* The body's error is stored unless there is an error already.
WaitAllParks ==
  /\ At(Owner, "waiting")
  /\ assumed.pending > 0
  /\ readyQueue' = IF bodyError /\ readyQueue = <<>> THEN <<RawError>> ELSE readyQueue
  /\ waitQueue' = TRUE
  /\ status' = statusMarkWaiting(status)
  /\ Unlocks
  /\ Goto(Owner, "parked")
  /\ UNCHANGED <<discarding, children, finishing, bodyError, slot, outcome, fails, cancelled,
                 retained, offered, delivered>>

Destroy ==
  /\ At(Owner, "destroy")
  /\ Goto(Owner, "destroyed")
  /\ UNCHANGED <<discarding, status, mutex, assumed, waitQueue, readyQueue, children,
                 finishing, bodyError, slot, outcome, fails, cancelled, retained, offered,
                 delivered>>

-----------------------------------------------------------------------------

\* What the owner does without being asked by its body
OwnerStep ==
  \/ RevertPending
  \/ \E c \in Child : CreateTask(c) \/ AttachChild(c)
  \/ StatusCancel(Owner) \/ CheckFirstChild(Owner) \/ CancelChildren(Owner)
  \/ PollLocks \/ PollEmpty \/ PollReady \/ ReturnPolled \/ PollWaits
  \/ WaitAllLocks \/ WaitAllEmpty \/ WaitAllParks
  \/ Resume
  \/ Destroy

Body ==
  \/ \E unconditionally \in BOOLEAN : AddPending(unconditionally)
  \/ CallCancelAll
  \/ CallNext
  \/ BodyReturns
  \/ BodyThrows

ChildStep(c) ==
  \/ \E throws \in BOOLEAN : ChildCompletes(c, throws)
  \/ OfferLocks(c)
  \/ StatusCancel(c) \/ CheckFirstChild(c) \/ CancelChildren(c)
  \/ OfferToWaiter(c) \/ OfferToQueue(c) \/ OfferLast(c) \/ OfferNotLast(c)
  \/ RunWaitingTask(c)

Next ==
  \/ OwnerStep
  \/ Body
  \/ \E c \in Child : ChildStep(c)
  \/ CancelOwner
  \/ CancelRecords

Spec == Init /\ [][Next]_vars

\* Threads inside the runtime keep running, an executor runs the jobs it has, the body
\* of the group and the child tasks end.
FairSpec ==
  /\ Spec
  /\ WF_vars(OwnerStep)
  /\ WF_vars(BodyReturns \/ BodyThrows)
  /\ \A c \in Child : WF_vars(ChildStep(c))
  /\ WF_vars(CancelRecords)

-----------------------------------------------------------------------------
(* Properties *)

CancelPositions == {"cancel", "cancelCheck", "cancelWalk"}
Locked == CancelPositions \cup {"claim"}
OwnerPositions == CancelPositions \cup
  {"body", "revert", "create", "attach", "poll", "polled", "polledTask", "parked", "resumed",
   "waitAll", "waiting", "destroy", "destroyed", "aborted"}
ChildPositions == Locked \cup {"none", "created", "running", "offer", "run", "done"}

Items == [kind : {"success", "error"}, task : Child] \cup {RawError}
Status == [cancelled : BOOLEAN, waiting : BOOLEAN, ready : 0..MaxPending, pending : 0..MaxPending]

\* Every variable keeps its type; in particular no count of the status word leaves its
\* field, whatever addPending(), poll() and offer() do (TaskGroupStatus).
TypeOK ==
  /\ discarding \in BOOLEAN
  /\ status \in Status
  /\ mutex \in Child \cup {Owner, NoOne}
  /\ assumed \in Status
  /\ waitQueue \in BOOLEAN
  /\ readyQueue \in Seq(Items)
  /\ children \in SUBSET Child
  /\ pc[Owner] \in OwnerPositions
  /\ pc[Canceller] \in {"none", "walk", "done"}
  /\ \A c \in Child : pc[c] \in ChildPositions
  /\ finishing \in BOOLEAN
  /\ bodyError \in BOOLEAN
  /\ slot \in Items \cup {Empty}
  /\ outcome \in Items \cup {Empty}
  /\ fails \in [Child -> BOOLEAN]
  /\ cancelled \in SUBSET (Child \cup {Owner})
  /\ retained \in [Child -> 0..1]
  /\ offered \in Seq(Child)
  /\ delivered \in Seq(Child)

\* The counts in the status word, which are changed with and without the mutex, agree with
\* the queue and the child tasks that the mutex protects: nothing is counted twice and
\* nothing is forgotten on any path of addPending(), offer(), poll() and waitAll().
CountsMatchTasks ==
  LET reverting == IF pc[Owner] \in {"revert", "aborted"} THEN 1 ELSE 0
      consumed == IF discarding THEN Len(offered) ELSE Len(delivered)
      offering == IF mutex \in Child THEN 1 ELSE 0
  IN  /\ status.pending = Cardinality(Added) - consumed + reverting
      /\ status.ready = IF discarding THEN 0 ELSE Len(readyQueue) + offering

\* An offer finds the owner in the wait queue exactly when the status word says so, and
\* poll() finds a task in the ready queue when the ready count says so: the fatal errors of
\* claimWaitingTask() and poll() are never reached.
QueuesMatchStatus ==
  /\ \A c \in Child : At(c, "claim") =>
       IF discarding THEN IsLast => waitQueue ELSE assumed.waiting = waitQueue
  /\ At(Owner, "polled") /\ assumed.ready > 0 => readyQueue # <<>>
  /\ discarding => Len(readyQueue) <= 1
  /\ discarding => \A i \in DOMAIN readyQueue : readyQueue[i].kind # "success"

\* The scope is left with nothing pending, no child task in the record, nothing in the ready
\* queue, and no child task inside the group's code that could still touch its memory.
DestroyFindsNothing ==
  /\ At(Owner, "destroy") => status.pending = 0
  /\ At(Owner, "destroy") => children = {} /\ readyQueue = <<>> /\ mutex = NoOne
  /\ pc[Owner] \in {"destroy", "destroyed"} => \A c \in Child : pc[c] \in {"none", "done"}

\* A task is retained once while the ready queue needs its result, and not any more when
\* the result was delivered, thrown away or replaced by another error.
RetainsMatchQueue ==
  \A c \in Child :
    retained[c] = Cardinality({i \in DOMAIN readyQueue : readyQueue[i].task = c})
                  + IF At(Owner, "polledTask") /\ slot.task = c THEN 1 ELSE 0

\* The status word, which is changed with and without the mutex, agrees with the tasks, the
\* two queues and the retains that the mutex protects.
StatusMatchesTasks == TypeOK /\ CountsMatchTasks /\ QueuesMatchStatus /\ RetainsMatchQueue

\* When the group is cancelled and nobody is on the way to its child tasks, each of them is
\* cancelled, also one that was being added meanwhile.
CancelReachesChildren ==
  /\ status.cancelled
  /\ \A p \in Child \cup {Owner} : pc[p] \notin {"cancelCheck", "cancelWalk"}
  => children \subseteq cancelled

\* The offers of failed child tasks
Errors == {i \in DOMAIN offered : fails[offered[i]]}
IsFirstError(i) == \A j \in Errors : i <= j

\* The error that leaves a discarding group whose body returned is the first that a child
\* task offered, whatever came between it and the end.
FirstErrorIsThrown ==
  discarding /\ ~bodyError /\ At(Owner, "destroy") =>
    \/ Errors = {} /\ outcome.kind \in {"empty", "success"}
    \/ \E i \in Errors : IsFirstError(i) /\ outcome = Item("error", offered[i])

Group == INSTANCE StructuredGroup WITH
  added <- Added,
  completed <- offered,
  taken <- delivered,
  keeps <- ~discarding,
  left <- pc[Owner] \in {"destroy", "destroyed"}

\* The group keeps what it promises: every result once, in the order of completion, and no
\* way out of the scope before the last child task.
ImplementsStructuredGroup == Group!Spec

\* The scope of a group is left.
ScopeEnds == finishing ~> At(Owner, "destroyed")
=============================================================================
