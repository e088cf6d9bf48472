----------------------------- MODULE TaskFuture -----------------------------
(***************************************************************************)
(* The future of a task: tasks that wait for its result put themselves     *)
(* into a lock-free list, and the thread that completes the task takes the *)
(* list and resumes them one by one.  A resumed task runs at once on       *)
(* another thread, and may wait for another future, while the completing   *)
(* thread is still busy with the rest of the list.                         *)
(*                                                                         *)
(* Who owns a task decides how long it may be touched: a task of its own   *)
(* is retained by its own execution and by every handle, the task of an    *)
(* async let only by the scope that declared it.                           *)
(***************************************************************************)
EXTENDS Integers, FiniteSets

CONSTANTS
  Future,   \* tasks that are waited for
  Waiter,   \* tasks that wait
  Handle,   \* the tasks that hold a reference to a future, as an owner of it
  NoTask

ASSUME FutureAssumption ==
  /\ NoTask \notin Future \cup Waiter
  /\ Handle \notin Future \cup Waiter
  /\ Future \cap Waiter = {}

VARIABLES
  waitQueue,        \* FutureFragment::waitQueue, status and first waiting task
  nextWaitingTask,  \* the link in a waiting task
  owners,           \* who keeps a task alive
  failed,           \* the task completed by throwing
  position,         \* where the execution of a future's task is
  waitingTask,      \* completeFuture(): the task being woken
  following,        \* completeFuture(): nextWaitingTask
  waitsOn,          \* the future that a waiting task waits for
  wait,             \* where a waiting task is
  queueHead,        \* waitFuture(): queueHead
  flagged,          \* the status of a waiting task says that it is suspended
  context           \* the result in a waiting task's TaskFutureWaitAsyncContext

futureVars == <<waitQueue, nextWaitingTask, owners, failed, position, waitingTask, following,
                waitsOn, wait, queueHead, flagged, context>>

\* FutureFragment::WaitQueueItem
Item(status, task) == [status |-> status, task |-> task]
Executing(task) == Item("executing", task)
ResultOf(f) == IF failed[f] THEN "error" ELSE "success"
IsAlive(f) == owners[f] # {}

\* Initially the tasks of the set started have been created, no other future has.
FutureInit(started) ==
  /\ waitQueue = [f \in Future |-> Executing(NoTask)]
  /\ nextWaitingTask = [w \in Waiter |-> NoTask]
  /\ owners = [f \in Future |-> IF f \in started THEN {f, Handle} ELSE {}]
  /\ failed = [f \in Future |-> FALSE]
  /\ position = [f \in Future |-> IF f \in started THEN "running" ELSE "none"]
  /\ waitingTask = [f \in Future |-> NoTask]
  /\ following = [f \in Future |-> NoTask]
  /\ waitsOn = [w \in Waiter |-> NoTask]
  /\ wait = [w \in Waiter |-> "no"]
  /\ queueHead = [w \in Waiter |-> Executing(NoTask)]
  /\ flagged = [w \in Waiter |-> FALSE]
  /\ context = [w \in Waiter |-> "none"]

-----------------------------------------------------------------------------
(* language_task_future_wait() and waitFuture() *)

StartWait(w, f) ==
  /\ wait[w] = "no"
  /\ wait' = [wait EXCEPT ![w] = "load"]
  /\ waitsOn' = [waitsOn EXCEPT ![w] = f]
  /\ UNCHANGED <<waitQueue, nextWaitingTask, owners, failed, position, waitingTask, following,
                 queueHead, flagged, context>>

\* The future has completed: the result is taken from it without suspending.
ReturnsAtOnce(w, item) ==
  /\ wait' = [wait EXCEPT ![w] = "returned"]
  /\ context' = [context EXCEPT ![w] = item.status]
  /\ flagged' = [flagged EXCEPT ![w] = FALSE]

\* The first look at the queue.  A future that has not completed makes the task set up its
\* context and flag itself as suspended, before it is in the list.
LoadQueue(w) ==
  /\ wait[w] = "load"
  /\ LET item == waitQueue[waitsOn[w]]
     IN  /\ queueHead' = [queueHead EXCEPT ![w] = item]
         /\ \/ /\ item.status # "executing"
               /\ ReturnsAtOnce(w, item)
            \/ /\ item.status = "executing"
               /\ wait' = [wait EXCEPT ![w] = "push"]
               /\ flagged' = [flagged EXCEPT ![w] = TRUE]
               /\ UNCHANGED context
  /\ UNCHANGED <<waitQueue, nextWaitingTask, owners, failed, position, waitingTask, following,
                 waitsOn>>

\* compare_exchange_weak: from now on the task belongs to whoever completes the future.
PushWaiter(w) ==
  /\ wait[w] = "push"
  /\ waitQueue[waitsOn[w]] = queueHead[w]
  /\ nextWaitingTask' = [nextWaitingTask EXCEPT ![w] = queueHead[w].task]
  /\ waitQueue' = [waitQueue EXCEPT ![waitsOn[w]] = Executing(w)]
  /\ wait' = [wait EXCEPT ![w] = "suspended"]
  /\ UNCHANGED <<owners, failed, position, waitingTask, following, waitsOn, queueHead, flagged,
                 context>>

\* It fails: another task came first, or the future completed meanwhile.  (A spurious failure
\* only tries again.)
PushFails(w) ==
  /\ wait[w] = "push"
  /\ LET item == waitQueue[waitsOn[w]]
     IN  /\ item # queueHead[w]
         /\ nextWaitingTask' = [nextWaitingTask EXCEPT ![w] = queueHead[w].task]
         /\ queueHead' = [queueHead EXCEPT ![w] = item]
         /\ \/ /\ item.status # "executing"
               /\ ReturnsAtOnce(w, item)
            \/ /\ item.status = "executing"
               /\ UNCHANGED <<wait, context, flagged>>
  /\ UNCHANGED <<waitQueue, owners, failed, position, waitingTask, following, waitsOn>>

\* An executor runs a task that was enqueued: flagAsRunning(), then the resume adapter.
RunWaiter(w) ==
  /\ wait[w] = "enqueued"
  /\ wait' = [wait EXCEPT ![w] = "returned"]
  /\ flagged' = [flagged EXCEPT ![w] = FALSE]
  /\ UNCHANGED <<waitQueue, nextWaitingTask, owners, failed, position, waitingTask, following,
                 waitsOn, queueHead, context>>

\* The code after the await continues.
EndWait(w) ==
  /\ wait[w] = "returned"
  /\ wait' = [wait EXCEPT ![w] = "no"]
  /\ waitsOn' = [waitsOn EXCEPT ![w] = NoTask]
  /\ queueHead' = [queueHead EXCEPT ![w] = Executing(NoTask)]
  /\ context' = [context EXCEPT ![w] = "none"]
  /\ UNCHANGED <<waitQueue, nextWaitingTask, owners, failed, position, waitingTask, following,
                 flagged>>

-----------------------------------------------------------------------------
(* completeTaskImpl() and completeFuture() *)

\* The task's function returned or threw; Private.complete()
CompleteTask(f, throws) ==
  /\ position[f] = "running"
  /\ failed' = [failed EXCEPT ![f] = throws]
  /\ position' = [position EXCEPT ![f] = "exchange"]
  /\ UNCHANGED <<waitQueue, nextWaitingTask, owners, waitingTask, following, waitsOn, wait,
                 queueHead, flagged, context>>

ExchangeQueue(f) ==
  /\ position[f] = "exchange"
  /\ waitingTask' = [waitingTask EXCEPT ![f] = waitQueue[f].task]
  /\ waitQueue' = [waitQueue EXCEPT ![f] = Item(ResultOf(f), NoTask)]
  /\ position' = [position EXCEPT ![f] = "group"]
  /\ UNCHANGED <<nextWaitingTask, owners, failed, following, waitsOn, wait, queueHead, flagged,
                 context>>

\* hasGroupChildFragment() reads the flags of the task.  These futures are no children of a
\* group; but the memory of a task that is gone holds anything.
CheckGroup(f) ==
  /\ position[f] = "group"
  /\ \/ position' = [position EXCEPT ![f] = "wake"]
     \/ ~IsAlive(f) /\ position' = [position EXCEPT ![f] = "undefined"]
  /\ UNCHANGED <<waitQueue, nextWaitingTask, owners, failed, waitingTask, following, waitsOn,
                 wait, queueHead, flagged, context>>

\* Mutant: a waiter is only served by a task that succeeded.
FillWaiter_SuccessOnly(f) ==
  /\ position[f] = "wake"
  /\ waitingTask[f] # NoTask
  /\ ~failed[f]
  /\ following' = [following EXCEPT ![f] = nextWaitingTask[waitingTask[f]]]
  /\ context' = [context EXCEPT ![waitingTask[f]] = ResultOf(f)]
  /\ position' = [position EXCEPT ![f] = "enqueue"]
  /\ UNCHANGED <<waitQueue, nextWaitingTask, owners, failed, waitingTask, waitsOn, wait,
                 queueHead, flagged>>

\* The link is read before the task is resumed; the result goes into its context.
FillWaiter(f) ==
  /\ position[f] = "wake"
  /\ waitingTask[f] # NoTask
  /\ following' = [following EXCEPT ![f] = nextWaitingTask[waitingTask[f]]]
  /\ context' = [context EXCEPT ![waitingTask[f]] = ResultOf(f)]
  /\ position' = [position EXCEPT ![f] = "enqueue"]
  /\ UNCHANGED <<waitQueue, nextWaitingTask, owners, failed, waitingTask, waitsOn, wait,
                 queueHead, flagged>>

EnqueueWaiter(f) ==
  /\ position[f] = "enqueue"
  /\ wait' = [wait EXCEPT ![waitingTask[f]] = "enqueued"]
  /\ position' = [position EXCEPT ![f] = "advance"]
  /\ UNCHANGED <<waitQueue, nextWaitingTask, owners, failed, waitingTask, following, waitsOn,
                 queueHead, flagged, context>>

\* Mutant: the link is read after the task was resumed.
NextWaiter_ReadsLate(f) ==
  /\ position[f] = "advance"
  /\ waitingTask' = [waitingTask EXCEPT ![f] = nextWaitingTask[waitingTask[f]]]
  /\ position' = [position EXCEPT ![f] = "wake"]
  /\ following' = [following EXCEPT ![f] = NoTask]
  /\ UNCHANGED <<waitQueue, nextWaitingTask, owners, failed, waitsOn, wait, queueHead, flagged,
                 context>>

NextWaiter(f) ==
  /\ position[f] = "advance"
  /\ waitingTask' = [waitingTask EXCEPT ![f] = following[f]]
  /\ position' = [position EXCEPT ![f] = "wake"]
  /\ following' = [following EXCEPT ![f] = NoTask]
  /\ UNCHANGED <<waitQueue, nextWaitingTask, owners, failed, waitsOn, wait, queueHead, flagged,
                 context>>

\* completeTaskAndRelease(); completeTask() of an async let releases nothing.
EndTask(f) ==
  /\ position[f] = "wake"
  /\ waitingTask[f] = NoTask
  /\ owners' = [owners EXCEPT ![f] = @ \ {f}]
  /\ position' = [position EXCEPT ![f] = "done"]
  /\ UNCHANGED <<waitQueue, nextWaitingTask, failed, waitingTask, following, waitsOn, wait,
                 queueHead, flagged, context>>

\* The last handle of a task is released.
DropHandle(f) ==
  /\ Handle \in owners[f]
  /\ \A w \in Waiter : waitsOn[w] # f
  /\ owners' = [owners EXCEPT ![f] = @ \ {Handle}]
  /\ UNCHANGED <<waitQueue, nextWaitingTask, failed, position, waitingTask, following, waitsOn,
                 wait, queueHead, flagged, context>>

-----------------------------------------------------------------------------

WaitStep(w) == LoadQueue(w) \/ PushWaiter(w) \/ PushFails(w) \/ RunWaiter(w)

CompletionStep(f) ==
  \/ ExchangeQueue(f) \/ CheckGroup(f)
  \/ FillWaiter(f) \/ EnqueueWaiter(f) \/ NextWaiter(f)
  \/ EndTask(f)

-----------------------------------------------------------------------------
(* Properties *)

Completed == {"group", "wake", "enqueue", "advance", "done", "undefined"}
Items == {Executing(task) : task \in Waiter \cup {NoTask}}
           \cup {Item(status, NoTask) : status \in {"success", "error"}}

\* Every variable keeps its type.
FutureTypeOK ==
  /\ waitQueue \in [Future -> Items]
  /\ nextWaitingTask \in [Waiter -> Waiter \cup {NoTask}]
  /\ owners \in [Future -> SUBSET (Future \cup Waiter \cup {Handle})]
  /\ failed \in [Future -> BOOLEAN]
  /\ position \in [Future -> {"none", "running", "exchange"} \cup Completed]
  /\ waitingTask \in [Future -> Waiter \cup {NoTask}]
  /\ following \in [Future -> Waiter \cup {NoTask}]
  /\ waitsOn \in [Waiter -> Future \cup {NoTask}]
  /\ wait \in [Waiter -> {"no", "load", "push", "suspended", "enqueued", "returned"}]
  /\ queueHead \in [Waiter -> Items]
  /\ flagged \in [Waiter -> BOOLEAN]
  /\ context \in [Waiter -> {"none", "success", "error"}]

\* A set that has task and, with every task, the one that links leads to
HoldsList(links, tasks, task) ==
  /\ task \in tasks \cup {NoTask}
  /\ \A t \in tasks : links[t] \in tasks \cup {NoTask}

\* The tasks of the list that starts with task
Linked(links, task) ==
  {w \in Waiter : \A tasks \in SUBSET Waiter : HoldsList(links, tasks, task) => w \in tasks}
ListFrom(task) == Linked(nextWaitingTask, task)

\* What completeFuture() still has to resume
ToResume(f) ==
  CASE position[f] = "enqueue" -> {waitingTask[f]} \cup ListFrom(following[f])
    [] position[f] = "advance" -> ListFrom(following[f])
    [] position[f] \in {"group", "wake"} -> ListFrom(waitingTask[f])
    [] OTHER -> {}

\* A suspended task is in the list of the one future it waits for, or about to be resumed by
\* the thread that completes it, and nobody else is: no task is lost and none is resumed twice
\* while lists are pushed to, taken and walked (waitFuture(), completeFuture()).
WaitersAreListed ==
  \A f \in Future :
    ListFrom(waitQueue[f].task) \cup ToResume(f) = {w \in Waiter : wait[w] = "suspended" /\ waitsOn[w] = f}

\* Whoever comes back from a wait has the result of the future it waited for, that future has
\* completed, and the task's own status says that it runs.
WaitersGetTheirResult ==
  \A w \in Waiter : wait[w] = "returned" =>
    /\ position[waitsOn[w]] \in Completed
    /\ context[w] = ResultOf(waitsOn[w])
    /\ ~flagged[w]

\* No waiter is lost, resumed twice or resumed with anything but the result it waited for.
WaitersAreServed == WaitersAreListed /\ WaitersGetTheirResult

\* A task that was in the list when the future completed is resumed.
WaiterIsResumed ==
  \A w \in Waiter :
    (wait[w] = "suspended" /\ position[waitsOn[w]] = "exchange") ~> wait[w] = "returned"
=============================================================================
