# The concurrency runtime, modelled

This directory holds a TLA+ development of the concurrency runtime of the
Codira toolchain (`src/stdlib/public/Concurrency`): the code that runs tasks,
actors and task groups on a pool of threads. It is the part of the repository
where correctness depends on interleavings, on the order of atomic operations
and on who holds which reference, and therefore the part that tests reach least.

## 1. The system

The repository is a compiler toolchain: parser, type checker, SIL optimizer and
IR generation in `lib/` and `CodiraCompilerSources/`, a standard library in
`stdlib/public/core`, a language runtime (`stdlib/public/runtime`: metadata,
reference counts, casts, exclusivity), the concurrency runtime, and tools. The
compiler is sequential and its logic is about syntax trees and types, which are
out of reach of a model checker; the concurrency runtime is a small set of
lock-free and lock-based protocols between threads.

| Component | State | Operations | Interacts with | What makes it hard |
|---|---|---|---|---|
| Default actor (`Actor.cpp`) | one atomic status word (state, max priority, escalated bit, drain lock, head of a LIFO job list), a priority queue owned by the lock holder, a reference count | `enqueue`, `enqueueStealer`, `tryLock`, `unlock`, `drainOne`, `processIncomingQueue`, `destroy`, `deallocate`, `language_task_switch` | tasks (their status records), global executor, reference counting | lock-free hand-over between drainers, stealers that lose races, use after the exchange, deallocation by the drainer itself |
| Priority queue (`PriorityQueue.h`) | a linked list with one tail pointer per priority | `enqueue`, `enqueueContentsOf`, `dequeue` | default actor, cooperative executor | tails that must be cleared exactly when a priority empties; splicing runs |
| Task status (`TaskStatus.cpp`, `TaskPrivate.h`) | an atomic word (cancelled, locked, running, enqueued, complete, priority, innermost record), a list of status records, a recursive mutex | add, remove and update a record; cancel; escalate; `flagAsRunning`, `flagAsSuspended`, `flagAsAndEnqueueOnExecutor` | every other part: actors, groups, futures, handlers | records live on the task's own stack and may be walked by other threads; a lock bit and a mutex taken in two steps; cancellation while handlers come and go |
| Task futures (`Task.cpp`) | an atomic wait queue: status and the list of waiting tasks | `waitFuture`, `completeFuture`, continuations | task status, executors | completion racing with a waiter that is suspending |
| Task groups (`TaskGroup.cpp`) | an atomic word of ready and pending counts, cancelled and waiting bits; the waiting task; a ready queue; a mutex | `offer`, `poll`, `waitAll`, `addPending`, `cancelAll` | child tasks, task status | counts kept in an atomic word while results are in a locked queue |
| Async let (`AsyncLet.cpp`) | a child task, its result buffer, a flag that it was awaited | start, get, finish | task status, task allocator | finish without a get; stack discipline of the buffers |
| Task locals (`TaskLocal.cpp`) | a linked list of bindings, per task or per thread | push, pop, copy | groups, task creation | a child reading the list of a parent |
| Executors (`GlobalExecutor.cpp`, `Cooperative`/`DispatchGlobalExecutor.cpp`) | ready queue, delayed queue, a thread pool | enqueue, enqueue with a delay, drain | everything that schedules | wake-up of delayed jobs |
| Task sleep (`TaskSleep.code`) | a heap-allocated word: sleep state or continuation | sleep, wake, cancel | executors, cancellation handlers | three parties, no owner: who frees it, who resumes |
| Async streams (`AsyncStreamBuffer.code`) | a lock; the buffer and its limit, the continuations of suspended tasks, the termination handler, whether and how the stream ended | `yield`, `finish`, `cancel`, `next`, `onTermination`, deinit | continuations, cancellation handlers | handlers and continuations are called after unlocking, from whichever thread changed the state |
| Task allocator (`TaskAlloc.cpp`) | a stack allocator per task | alloc, dealloc | status records, async let | last-in first-out discipline |
| Runtime synchronisation (`AtomicWaitQueue.h`, `Concurrent.h`, `Once`, `RefCount.h`, `WeakReference.h`) | wait queues, concurrent maps, reference count words | wait, publish, retain, release, weak load | metadata caches, heap objects | lock-free counts and side-table creation |

The full list, with what is not modelled and why, is in `PROJECT.json`.

## 2. Modules

| Module | Models | Role |
|---|---|---|
| `SerialExecutor` | what an actor promises to its tasks | abstract specification |
| `DefaultActor` | one default actor: status word, job queue, processing jobs, drain threads, hops, references (`Actor.cpp`) | component |
| `DefaultActorProofs` | the theorems about `DefaultActor` | TLAPS |
| `MCDefaultActor` | instances of `DefaultActor` | TLC |
| `JobQueue` | what the actor's queue promises to its drainer | abstract specification |
| `JobLists` | the jobs of one priority, in the order of a list | operators |
| `PriorityQueue` | `language::PriorityQueue` on `next` references (`PriorityQueue.h`) | operators |
| `ActorJobQueue` | the actor's two lists as pointers: push, claim, drain | component |
| `ActorJobQueueProofs` | the theorems about `ActorJobQueue` and `PriorityQueue` | TLAPS |
| `MCActorJobQueue` | an instance of `ActorJobQueue` | TLC |
| `TaskStatus` | one task: status word, status records, status lock, cancel, escalate, handlers, children, continuation (`TaskStatus.cpp`, `TaskPrivate.h`, parts of `Task.cpp`, `TaskGroup.cpp`, `AsyncLet.cpp`) | component |
| `TaskStatusProofs` | the inductive invariant of `TaskStatus`: calls, mutex, list, phases | TLAPS |
| `TaskCancelProofs` | the walks over the list, and the theorems about `TaskStatus` | TLAPS |
| `MCTaskStatus` | instances of `TaskStatus` | TLC |
| `TaskSleep` | `Task.sleep`: the token shared by the task, the wake-up job and the cancellation handler (`TaskSleep.code`) | component |
| `TaskSleepProofs` | the theorems about `TaskSleep` | TLAPS |
| `StructuredGroup` | what a task group promises to the code around it | abstract specification |
| `TaskGroup` | accumulating and discarding groups, from creation to destruction (`TaskGroup.cpp`, parts of `TaskStatus.cpp`, `TaskGroup.code`) | component |
| `TaskGroupProofs` | the theorems about `TaskGroup` | TLAPS |
| `TaskFuture` | the wait queue of a task's future: waiting and completing (`Task.cpp`) | component |
| `AsyncLet` | a task with async lets, on top of `TaskFuture` (`AsyncLet.cpp`) | composition |
| `AsyncLetProofs` | the theorems about `AsyncLet` and `TaskFuture` | TLAPS |
| `MCAsyncLet` | an instance of `AsyncLet` | TLC |
| `AsyncStream` | the storage of `AsyncStream` and `AsyncThrowingStream` (`AsyncStreamBuffer.code`) | component |
| `MCAsyncStream` | instances of `AsyncStream` | TLC |
| `AsyncStreamProofs` | the theorems about `AsyncStream` | TLAPS |

In all of them a `compare_exchange` loop is one action. Rounds that fail change
nothing another thread can see, so only the successful round counts, and what
the code keeps from an earlier load and does not reload is explicit in the state.
Whatever follows the exchange and touches shared memory is another action.
Memory is sequentially consistent: reorderings that the relaxed accesses of the
code would permit are not modelled.

### DefaultActor

`status` is the `ActiveActorStatus` word: state (Idle, Scheduled, Running,
Zombie), maximum priority, escalated bit, drain lock and the LIFO list
`firstJob`. `prioritizedJobs` is the queue the drainer owns (in arrival order;
its pointer structure is the subject of `ActorJobQueue`). `procs` are the
`ProcessOutOfLineJob`s in the pool, owner and stealers alike. The reference count
is kept by owner: `holders` (tasks, and one outside reference `Ext`), `extra`
(the retains of surplus processing jobs) and `overriders` (calls of `enqueue()`
past their exchange). `life` follows deinit and deallocation, `qos` is the
priority the holder of the drain lock runs at for this actor. Each thread has
a position `pc`, the task it follows and its outermost frame; each task has a
`phase`, its job and stored priorities and, while it is being escalated, the
progress of `enqueueStealer()`.

| Action | Code |
|---|---|
| `Enqueue`, `FinishEnqueue` | `DefaultActorImpl::enqueue`: the exchange; the override after it |
| `TaskEscalate`, `EnqueueStealer`, `StealerOverride`, `StealerSchedule` | `enqueueStealer`, called by an escalation under the task's status lock |
| `ProcessJob` | `ProcessOutOfLineJob::process`, `defaultActorDrain`, `tryLock(asDrainer)` |
| `processIncomingQueue`, `DrainOne`, `StartJob`, `UnlockDrained` | the loop of `defaultActorDrain` |
| `SwitchToActor`, `SwitchByEnqueue`, `SwitchFromActor`, `LeaveJobRun` | `language_task_switch`, `canGiveUpThreadForSwitch`, `giveUpThreadForSwitch` |
| `UnlockZombie`, `UnlockToIdle`, `UnlockToScheduled` | the outcomes of `unlock(forceUnlock)` |
| `ReleaseByTask`, `ReleaseByOthers` | references to the actor dropped by user code |
| `Destroy`, `Deallocate` | `destroy`, `deallocate`, and the zombie that a drainer frees |

The global executor is outside the actor: it runs each processing job once,
whenever it likes. With `PriorityEscalation = FALSE` the same module is the build
without overrides and stealers.

### PriorityQueue and ActorJobQueue

`Queue` is a record of a head and one tail per priority bucket; `next` is the
reference that both the incoming list and the priority queue thread through the
job. `enqueue`, `enqueueContentsOf`, `enqueueRun` and `dequeue` are operators on
that heap, written as the C++ assigns, so that a tail that is not cleared shows.
`enqueueContentsOf` reads the list before it splices, since the code reads the
successor of a run before it splices the run (`PriorityQueue.h:102-111`) and a splice
changes no later part of the list (`MergeHolds`); that order is part of the operator and
no property could find it broken; `RunStart` is its inner loop and `Merge`
the outer one, a recursive function of the position. `ActorJobQueue` drives them as
`handleUnprioritizedJobs`, `processIncomingQueue` and `drainOne` do. Jobs are finitely
many, so that a walk along next references can be given an end.

### TaskStatus

`status` is the `ActiveTaskStatus` word with the innermost record; `parent` and
`kind` are the memory of the records, which belongs to the task's own allocator
and is reused (`Dealloc`); `mutex` is the recursive `statusLock`. `frame` says
where each thread is in a call: taking the mutex, setting the lock bit, running
the function under the lock, updating the status and releasing it are separate
steps of `withStatusRecordLock`, because lockless additions and removals go on
between them. `Owner` is the thread that runs the task, wherever that is;
`Agent`s are other threads that hold the task. `Linked` is the set of records that
`records()` goes through, the smallest one that has the innermost record and is closed
under `parent`; the first record of a type (`matchOfKind`) is the one that all
others are reached from. A task that is about to wait for another escalates it before
the exchange that publishes the dependency; the two are one action, so that time is not
modelled.

| Action | Code |
|---|---|
| `EnterScope`, `AsyncLet`, `AddLockless`, `AddSeesLock`, `UpdateAdd` | `addStatusRecord` from its callers |
| `FireHandlerNow`, `DropFired` | a handler registered on a cancelled task |
| `ExitScope`, `RemoveLockless`, `RemoveSeesLock`, `FnRemove`, `UpdateRemove` | `removeStatusRecord` |
| `PopScope`, `FnPop` | `popStatusRecordOfType`, executor preferences |
| `Lock`, `SetBit`, `UpdatePlain`, `Unlock` | `withStatusRecordLock` |
| `Cancel`, `WalkCancel`, `WalkHandler`, `WalkNext`, `WalkEnd` | `language_task_cancel` |
| `Escalate`, `WalkEscalate` | `language_task_escalate` |
| `AttachChild`, `DetachChild`, `CancelAll`, `CancelChildren` and their functions | children of a task group |
| `ContinuationInit`, `ContinuationInitPreawaited`, `Await...`, `Resume`, `HandlerResumes` | continuations, resumed also from a cancellation handler under the lock |
| `WaitFuture` | waiting for another task, which the suspended task escalates with itself |
| `FlagAsAndEnqueueOnExecutor`, `FlagAsSuspended`, `UpdateResume`, `Enqueue`, `RunJob`, `RunImmediately`, `FlagAsRunning`, `Complete` | the life of the task |

The task enters and leaves scopes in stack order, which the compiler guarantees
for all users of these entry points; the branch of `removeStatusRecord` for a
record that is not innermost is in the model as the code has it (`Unlink`), and
`RemovalFindsInnermost` says that it is never needed.

### TaskSleep

`word` is the storage of the sleep token, an integer that encodes the five sleep
states in its two low bits or holds the continuation, which is the address of
the task; `StateOf` and `WordOf` are the decoding and encoding of the code. The
task (`sleeper`), the job that wakes it (`waker`) and the cancellation handler
(`handler`) each load the word and then try to exchange it, in two steps, and
whoever wins decides who frees it (`frees`) and who resumes the continuation
(`resumes`). `Sleep` is a set of calls that one task makes one after the other,
so that the wake-up job of a cancelled sleep can outlive it into the next. What
`TaskSleep` takes from the task status is what `TaskStatus` checks: a handler
registered on a cancelled task runs at once, a registered handler runs in the
canceller's walk, and removing it waits for the walk. A `fatalError()` is a
position nobody leaves.

| Action | Code |
|---|---|
| `StartSleep`, `LoadToken`, `PublishContinuation`, `EnqueueWaker`, `ResumeCancelled`, `CheckToken`, `EndSleep` | `Task.sleep(nanoseconds:)` |
| `AddHandler`, `HandlerReturned`, `RemoveHandler` | `withTaskCancellationHandler` |
| `WakerRuns`, `WakerLoads`, `WakerExchanges`, `WakerResumes`, `WakerFrees` | the delayed job and `onSleepWake` |
| `HandlerLoads`, `HandlerExchanges`, `HandlerResumes` | `onSleepCancel` |
| `SetCancelled`, `WalkRecords`, `EndWalk` | `language_task_cancel` |

### TaskGroup

`status` is the `TaskGroupStatus` word: cancelled, waiting, ready and pending
counts. It is changed under the group's `mutex` and also without it, by
`addPending` and `cancelAll`; `assumed` is the copy that the holder of the mutex
works from. `readyQueue` holds the completed tasks, and for a discarding group
the first error; `waitQueue` says whether the owner is in it; `children` is the
list in the group's status record. `discarding` is chosen in `Init`: both kinds of
group are one module, as they are one class hierarchy. The owner, each child and a
thread that cancels the owner have a position `pc`. Retains on behalf of the
ready queue are counted (`retained`), and `offered` and `delivered` are histories
for the properties.

| Action | Code |
|---|---|
| `AddPending`, `RevertPending`, `CreateTask`, `AttachChild` | `addTask`, `addTaskUnlessCancelled`: count, take the count back, create and attach the task |
| `CallCancelAll`, `StatusCancel`, `CheckFirstChild`, `CancelChildren` | `cancelAll`, by the owner or by the offer of a failed task |
| `CancelOwner`, `CancelRecords` | `language_task_cancel` of the owner |
| `ChildCompletes`, `OfferLocks`, `OfferToWaiter`, `OfferToQueue` | `offer` of an accumulating group |
| `OfferLast`, `OfferNotLast`, `RunWaitingTask` | `offer` of a discarding group; the owner is run after unlocking |
| `CallNext`, `PollLocks`, `PollEmpty`, `PollReady`, `PollWaits`, `ReturnPolled`, `Resume` | `next()`: `wait_next_throwing` and `poll` |
| `BodyReturns`, `BodyThrows`, `WaitAllLocks`, `WaitAllEmpty`, `WaitAllParks`, `Destroy` | the end of `with...TaskGroup`: `waitAll`, `destroy` |

`StructuredGroup` is the promise: results come out in the order of completion,
each once, and the scope is left last. `ImplementsStructuredGroup` maps the
histories of the detailed module to it.

### TaskFuture and AsyncLet

`TaskFuture` has no `Init` and `Next` of its own: `AsyncLet` composes it. A future
has its `waitQueue` (status and first waiter, one word) and the thread that
completes it is at a `position`, with the waiter it is waking (`waitingTask`) and
the link it read (`following`). A waiter has the head it loaded (`queueHead`), its link
(`nextWaitingTask`) and its own status (`flagged`). `owners` says who keeps the
task alive: its own execution and handles for an ordinary task, only the
declaring scope for the task of an async let.

| Action | Code |
|---|---|
| `StartWait`, `LoadQueue`, `PushWaiter`, `PushFails`, `RunWaiter`, `EndWait` | `language_task_future_wait`, `waitFuture`: load, flag as suspended, exchange or take the flag back |
| `CompleteTask`, `ExchangeQueue`, `CheckGroup`, `FillWaiter`, `EnqueueWaiter`, `NextWaiter`, `EndTask` | `completeTaskImpl`, `completeFuture`: one waiter at a time |
| `Begin`, `RemoveRecord`, `DestroyTask` | `asyncLet_begin`, `asyncLet_finish_after_task_completion` |
| `Get`, `GetReturns` | `asyncLet_get`, `asyncLet_get_throwing` |
| `FinishPopulated`, `FinishWaits`, `FinishReturns` | `asyncLet_finish` |
| `ConsumePopulated`, `ConsumeWaits`, `ConsumeReturns` | `asyncLet_consume`, `asyncLet_consume_throwing` |
| `CancelParent`, `LockRecords`, `CancelRecord`, `CancelEnds` | `language_task_cancel` of the declaring task |

`Program` is the set of programs: which bindings the parent declares, in which
order, and which other tasks run beside it. A value in a result buffer is an
abstract resource: filled when raw, emptied when it holds a value, anything else
is "misused".

### AsyncStream

The fields of the storage (`continuations`, `buffer`, `onTermination`,
`terminal`) change in one action per locked section. What the code then does
unlocked (call a handler, resume continuations, finish after a cancellation) is
the `thread`'s list of things still to do, one action each, with other threads in
between. Values and handlers are numbered in the order in which they are
yielded and set. `throwing` chooses between the two storage classes, whose
differences (one continuation or several, the error, the fatal error of a second
waiter) are in the actions.

| Action | Code |
|---|---|
| `Yield` (with `Buffered`) | `yield` under the three buffering policies |
| `Finish`, `FinishAfterCancel` (with `FinishLocked`) | `finish`, `finish(throwing:)` |
| `CancelLocked`, `CallHandler` | `cancel`: takes the handler, calls it, finishes |
| `Resume` | continuations resumed after unlocking |
| `CallNext`, `NextLocked`, `NextAborts`, `NextReturns` | `next` inside `withTaskCancellationHandler` |
| `CancelTask` | cancellation of an iterating task, whose handler calls `cancel` |
| `SetOnTermination`, `DropStream`, `DropContinuation`, `Deinit` | the handler's setter; the end of stream, continuation and storage |

## 3. Runs

| Run | Instance | Shows |
|---|---|---|
| `actor_escalation` | 2 tasks of 2 priorities, 2 threads, 2 visits each, fair | mutual exclusion, reference counts, no use after free, no lost job, no priority inversion; `DefaultActor` implements `SerialExecutor`; every queued task runs and an unreferenced actor is freed |
| `queue_lists` | 4 jobs, priorities 33, 21, 9, 0 | lists never share, lose or cycle jobs; each tail is the last of its bucket; `ActorJobQueue` implements `JobQueue` |
| `status_records` | 3 records, 1 other task (child or waited for), 2 agents | the walk never touches a freed record; handlers run once; cancellation and escalation reach everything; lock bit, flags, records and asserts agree |
| `status_liveness` | 2 records, 2 agents, one priority, 3 records added, fair | every call returns; a resumed task runs |
| `sleep_token` | 3 sleeps, one cancellation at any point, fair | the token is not used after it was freed, the continuation is resumed once, no `fatalError()`, no sleep left waiting after `cancel()`; every sleep ends and every token is given back |
| `group_lifecycle` | 3 child tasks, either kind of group, one cancellation of the owner, fair | counts, queues, retains and the child list agree; destruction finds nothing and nobody; cancellation reaches every child; a discarding group throws its first error; `TaskGroup` implements `StructuredGroup`; the scope ends |
| `let_scopes` | 2 async lets or 1 beside a task with 2 waiters, one cancellation, fair | no waiter is lost, resumed twice or given another result; a result is destroyed once; only `completeFuture()`'s late read of the flags finds a task that is gone; waiters are resumed and scopes are left |
| `stream_buffer` | 2 producers, 2 iterating tasks, 2 values, 2 calls of `next`, 2 handlers, 4 policies | every value and every continuation is in one place; values stay in order; a suspended task never leaves a value or the end behind; a handler is called once; cancellation ends the stream |
| `actor_taskexecutor`, `status_oldstatus`, `stream_error` | as small as the case allows | see Findings |
| `let_flags` | the instance of `let_scopes` | see Findings |

A type invariant is part of each module: an invariant of the run, or a conjunct of
the first one. All are proved.

Bounds. `MaxHops` bounds how often a task comes to the actor; two visits let
a task meet the actor again after it was drained, idle, rescheduled and stolen.
Two threads are enough for each pair of parties that can meet in the drain lock,
because all others only act through the status word. Two tasks that come twice fill a
batch that has to be reversed, and a task that comes back while the other waits in the
claimed queue makes the two queues mix; larger batches are those of `queue_lists`, and
the theorems about order and priorities hold for any number of tasks. Two priorities distinguish "raises" from
"does not raise", the only comparison the actor makes. `MaxAdds` bounds the
records a task adds: three allow two scopes and a suspension, or a group, its
child and a handler, and memory of a record to be reused. Two agents are a
canceller and an escalator, or a canceller and a resumer. Four jobs of
four priorities fill a bucket with two, leave buckets empty between two others
and put runs at both ends. Three sleeps are one that ends normally, one that is
cancelled on the way and one that starts cancelled. `MaxChildren` of three lets a
discarding group store one error, drop a second and end with a third task, and
`MaxPending`, the mask of the pending field, is small enough for the transient
count of `addTaskUnlessCancelled` to come next to it. The programs of
`let_scopes` nest a binding that may throw in one that only ends when cancelled
and the other way round, and give one future two waiters, which is a list with a link. Two
values and limits of zero and one fill, overflow and refuse; two handlers are one
that is replaced; two calls of `next` are two tasks that wait together, or one that comes
back after it was served. In `status_liveness` nobody escalates, which only adds walks
that end as a canceller's does; `status_records` has the escalators. Deadlock is not checked where the bound on visits,
records or calls ends every behaviour; the queue run checks it.

Symmetry is used only for records, agents, jobs, producers and
iterating tasks, none of which the code orders, and never in a run with a
liveness property.

Fairness. `actor_escalation` assumes that the global executor runs each processing
job it was given, that a thread in the runtime keeps running, that user code
between two suspension points returns, and that a call once begun ends.
`status_liveness` assumes that a thread inside a call is scheduled and that an
executor runs the jobs it has; nothing makes a thread start a call.
`sleep_token` assumes the same, and that a delay ends. `group_lifecycle` assumes
that child tasks and the body end and that calls into the group go on.
`let_scopes` assumes that calls and executors go on and that a child task
ends, but one of the set `UntilCancelled` only once it was cancelled: leaving the scope
has to cancel it. All of it is weak fairness of one thread's own next step, which
a preemptive scheduler gives; a mutex that is free infinitely often is not assumed
to be given to a particular waiter beyond that. `stream_buffer` has no fairness:
whether a suspended task is ever served depends on producers, and what the
storage owes it is the safety property that nothing it could have is held back.

Each property of a passing run has a mutant in `PROJECT.json`: the mutated form
of one definition, written next to it as a plausible slip in that code, under which
TLC finds the property violated.

## 4. Proofs

`DefaultActorProofs` proves, for any set of tasks and threads, any number of
priorities and visits and both settings of `PriorityEscalation`:

| Theorem | States |
|---|---|
| `TypeCorrectness` | the types |
| `ActorMutualExclusion` | one thread at a time owns the actor |
| `OwnershipRules` | the retain balance of the ownership comment |
| `ActorNoUseAfterFree` | nobody is left to touch a freed actor |
| `ActorNoLostJob` | a queued job has a drainer or a processing job coming |
| `ActorDestroyAsserts` | the asserts of `destroy()` and `deallocate()` |
| `PortableDrainer` | without escalation the drainer finds the actor scheduled |
| `FastPathAsserts` | a task that takes the actor without queueing finds it idle and empty |
| `ActorIsSerialExecutor` | `Spec => ImplementsSerialExecutor`, the refinement |
| `ActorNoPriorityInversion` | no queued job waits behind a thread of lower priority |

Assumptions: those named in `DefaultActor` (`PriorityAssumption`,
`NameAssumption`, `ConfigAssumption`), which TLC evaluates in every actor run;
they only say that the constants have the right kind and that the "no thread",
"no job" and outside-reference values are distinct from the real ones.

None of the properties is inductive alone. Mutual exclusion needs to know that
the word says Running exactly while a thread holds the lock (`LockInv`) and which
task a thread follows (`FollowInv`). That a job is not lost needs each task to be
in the queue at most once and exactly while its phase says so (`QueueInv`), and
the state of the word to agree with the work and the processing jobs there are
(`StateInv`). Freedom from use after free needs who owns a reference (`RefInv`),
the balance of retains (`RetainBalance`) and the states each stage of the
object's life allows (`LifeInv`): a processing job keeps the actor alive either
by its own retain or through the queued task that caused it. `IInv` is the
conjunction, with `TypeOK`; `Invariance` proves it from one lemma per conjunct,
each with one step per action, over lemmas that say once what an exchange of the
word (`LockAsDrainerEffect`, `UnlockEffect`, `EnqueueEffect`, ...) changes. The
sequence facts they need (`Reverse`, `RemoveAt`) are proved first, from the
definitions.

The last two theorems rest on the line of jobs, the claimed ones followed by the
incoming list reversed. A claim moves jobs up and leaves the line as it is
(`ClaimKeepsLine`), a push appends to it (`PushAppends`), taking the job chosen by the
priority queue removes it (`TakeRemoves`). With the one thread that follows a task under
the lock as occupant (`OccupantIsCurrent`, from mutual exclusion), each action is one
step of the serial executor or a stutter (`SerialStep`). For priorities, `BelowMax`
says that no job in line exceeds the priority in the status word, and `CoverInv` that
this priority is represented: by the drainer, an override on its way to it or an
escalator about to override while the actor runs, by a processing job or an escalator
about to schedule one while it is scheduled. Neither follows from the property itself,
which says nothing of an actor whose queue is empty for a moment. TLC has checked both
on three tasks that come once (358,350 states).

`ActorJobQueueProofs` proves, for any finite set of jobs and any priorities from 0 to 255,
`TypeCorrect`, `WellFormed` (`ListsAreWellFormed`) and `Refinement`, that the
pointers implement the abstract `JobQueue`. The one assumption, `QueueAssumption`, says
that jobs are finitely many, that null is not a job and that priorities fit in a byte; the
lemma `BucketIsIndex` shows that each of them has a bucket. The model speaks of pointers
and the properties of sequences, so the invariant names the sequences:
`IsList(next, h, s)` says that the nodes of `s` are different and linked in order from `h`
to null, `HoldsQueue` that a queue's list is one, sorted, with every tail in place
(`LastOf`), and `Holds` that the two lists of the state are disjoint and have the queued
jobs. `ChainOfList` gives the way back: a walk finds the list that is there, so it does
not matter which sequences witness the invariant. Well-formedness is not inductive
by itself, as it does not say that the list is sorted: without that a splice behind the
last node of a higher priority may land anywhere.

What the operators compute is shown as a chain of lemmas. `CutExists`: the tail that
`enqueueRun` picks, the last of the lowest priority present up to its own, is where the jobs
of at most that priority end. `RunIsEnqueued`: a run of nodes of one
priority goes there, and the queue holds the longer list. `MergeHolds`: after any number
of runs the queue holds what it had and the jobs up to that position, each priority's new
jobs behind its old ones, and the next references of the rest are untouched;
at the end it is all of `enqueueContentsOf`. `ListIsReversed` and `ClaimHolds` add
the reversal in place, `FirstIsDequeued` is `dequeue`, and `FirstOfPriority` says that the
first of a sorted list is the first of the highest priority that has jobs, which is the
abstract `Drain`. TLC has checked the invariant on the instance of `queue_lists`
(18,144 states).

These lemmas are about recursive functions over lists of any length. That such
a function has the values its definition asks for is `RecursionHolds`, and every
induction is over a set: the numbers for which a fact holds (`UpTo`) or the sequences
(`SequenceInduction`) are shown to be all of them from the well-foundedness of the naturals.
For the same reason the jobs of a priority are selected by `OfPriority`, not by
`SelectSeq`, whose definition the provers do not unfold.

`TaskSleepProofs` proves every safety property of `TaskSleep`, for any number of
sleeps and any aligned address: `TypeCorrectness`, `TokenNoUseAfterFree`,
`TokenFreedOnce`, `ContinuationResumedOnce`, `FatalErrorsUnreachable`,
`SleepReturnsAfterDelay`, `CancellationEndsSleep`. The one assumption,
`AlignedContinuation`, is what the code's tag bits rest on; `DecodeEncode` shows
that under it decoding inverts encoding. The invariant is a table: `TokenInv`
says for each of the five states of the word where the three parties may be, how
often the continuation was resumed and whether the token is still allocated;
`SeenInv` ties what a party loaded to the exchange it is about to try;
`HandlerInv` says on whose behalf a handler runs. Without the last, the task
could free the token under a handler that is between its load and its exchange.

`TaskGroupProofs` proves, for any number of child tasks and both kinds of group:

| Theorem | States |
|---|---|
| `TypesHold` | the types, and that no count leaves its field of the word |
| `StatusAgrees` | word, ready queue, wait queue, retains and child list agree with the tasks there are |
| `ScopeEndsEmpty` | `destroy` finds nothing pending, nothing kept, nobody in the group's code |
| `FirstErrorLeaves` | a discarding group throws the error that was offered first |
| `CancelReaches` | a cancelled group has cancelled every child, one that was being attached included |
| `ImplementsGroup` | `Spec => ImplementsStructuredGroup`, the refinement |

Its one assumption is that the bounds are positive. The word is changed without the
mutex while the holder works from a copy, so the invariant says which parts of the
copy are still true (`AssumedInv`), who can be in the wait queue or has taken the
owner out of it (`WaitInv`), and where each child is that the counts stand for
(`OfferInv`, `ChildInv`, `CountInv`). `FifoInv` is the refinement's lemma: what was offered is
what was delivered, followed by what is in the ready queue, followed by the one task
whose offer holds the mutex. `ErrorInv` follows the first error of a discarding group from the
child to the queue to the owner, and `OverInv` says when nothing more can come. That
the counts fit (`BoundsHold`) needs an injection of the counted tasks into the children.

`AsyncLetProofs` proves, for any tasks, futures, waiters and programs:
`LetTypesHold`, `FutureServes` (`WaitersAreServed`), `LetReadsFlagsLate`
(`OnlyFlagsAreReadLate`) and `LetBuffers` (`BufferIsBalanced`). `LetAssumption` says
that a program declares a binding once and that what it calls a
binding, a task or a waiter is one. A list of waiters is the smallest set that has its
head and is closed under the link, so that pushing, popping and reading from it are facts
about sets (`LinkedFirst`, `LinkedElsewhere`) and need no induction; `ListInv` adds
that no waiter is behind itself. `OwnerInv` says who keeps a future alive at each of its
positions, `CallInv` and `RecordInv` what the parent waits for and which records the
canceller can still reach. Every scope ends with a completed task and without its record,
so all that may still be touched afterwards is what a completing thread reads once its
completion is published; and a thread that has a waiter to wake is kept safe by that waiter,
which does not leave its scope. What remains is `CheckGroup` for a child nobody awaited:
the one access that `OnlyFlagsAreReadLate` leaves out, and a finding.

`AsyncStreamProofs` proves all properties of `AsyncStream`, for any producers,
any finite set of consumers, any set of policies and any number of values, calls and
handlers: `StreamTypes`, `StreamWaiters` (`WaitersHaveNothing`), `StreamContinuations`
(`ContinuationsAccountedFor`), `StreamValues` (`ValuesAccountedFor`), `StreamOrder`
(`DeliveredInOrder`), `StreamCancel` (`CancelEndsStream`) and `StreamHandlers`
(`HandlersCalledOnce`). `StreamAssumption` says that the bounds are numbers, the threads
distinct and the policies those of the code. `WaitersHaveNothing` is inductive. For cancellation,
a thread that is ending the stream does nothing else until it has. For
handlers (`HandlerInv`), each handler that was set is in exactly one place
(`HandlerPlace`: replaced, in the storage, taken by a thread, or called), only a thread
that is about to call one holds one (`HeldForCall`), and nothing reaches the storage
after its deinit (`NoneAfterDeinit`). For values and continuations (`FlowInv`),
`PlaceInv` puts the continuation of a suspended task either in the storage or in the
list of what one thread still owes; `KeptInv` and `GivenInv` put each value in the
buffer, with a thread, or with one task; `BufferInv`, `OrderInv` and `EndInv` order these
places: what was received is before what is on its way, that before the buffer, and the
end behind all. Each action is first reduced to what it does to the flow (`Enters`, `Suspends`,
`Serves`, `Resumed`, `Gets`, `Buffers`, `Sends`, `Ends` or `Stays`), so that each
part of the invariant has nine cases and not one per action.

`TaskStatusProofs` and `TaskCancelProofs` prove, for any number of records, children
and agents and any priorities, from `TaskAssumption` alone (the names are distinct
and priorities are numbers):

| Theorem | States |
|---|---|
| `StatusAgrees` | `StatusIsConsistent`: types, lock bit and mutex, flags and records, innermost removal, the asserts on the task's state |
| `WalksLiveRecords` | `ReadsLiveRecords` |
| `HandlersRunOnce` | `HandlerRunsOnce` |
| `CancellationReaches` | `CancelReachesAll` |
| `EscalationReaches` | `EscalationReachesChildren` |

All five follow from one invariant, `IInv`, because no part of it can be kept without
most of the others. Its base is that the list of records is the stack of scopes: with no
step in between, `Linked` is the scopes, the innermost record is the last of them and each
parent the one below (`ScopeInv`, `LinkInv`), except that a call that adds a
record has it on the stack before it is on the list (`Unlinked`, `Height`). `ListStep` turns
a push or a pop on the stack into what it does to the list; after that nobody looks at
`parent` again. `MutexInv` and `BitInv` say from a thread's position how often it holds
the mutex and whether the bit is its own, so that under a walker nobody changes the list
(`WalkersKeepList`). `StateInv` is the table of the task's phases: what the flags, the
continuation and the job can be while the owner's call is where it is, and that at most
one thread resumes the task. On top of this, `Place` says whether a thread that
walks the list is before the first record, at one or past it, and `Ahead` is the set of
records it still has to visit. Cancellation, escalation and handlers are then the same
argument: what is linked and not ahead of the one canceller, or of the thread that has
raised the priority last, has been reached (`CancelInv`, `RaiseInv`), and the handlers ahead
of it have not run (`OnceInv`). `AheadStep` says how a step changes `Ahead`, `ListChanges` how
it changes the list, and `PublishTells` that a record published in between is told
the task's state by the step that publishes it. TLC has checked `IInv` as an
invariant on 3 records, 1 child, 2 agents and 2 priorities (1,038,019 states).

In the other models, definitions that would be recursive (lists, the first record of a
type) are stated as smallest sets, about which the provers reason more easily; where
the least element of a set of numbers is needed it comes from the well-foundedness of
the naturals (`LeastNatural`).

Every safety property of a passing run and every refinement is proved.
`TypeCorrectness`, `ActorDestroyAsserts`, `PortableDrainer`, `FastPathAsserts`,
`TokenFreedOnce` and `SleepReturnsAfterDelay`, in turn, are proved and have no
run of their own. Only model-checked are the liveness properties (`QueuedJobRuns`,
`UnreferencedActorIsFreed`, `CallsReturn`, `ResumedTaskRuns`, `SleepEnds`, `TokenReclaimed`,
`ScopeEnds`, `WaiterIsResumed`, `FinishEnds`): the provers do not handle fairness and `ENABLED`.
The four properties of the Findings do not hold.

## 5. Findings

* `EnqueueUsesTaskExecutor`: `enqueue()` reads the task's executor preference
  under a condition that differs from the one under which it uses it; a stealer
  scheduled there goes to the global executor although the task prefers another.
* `OldStatusIsLatest`: `addStatusRecord()` that finds the record list locked does
  not update the caller's status, against its comment; the job of a task that
  changes executors is enqueued with a priority from before an escalation.
* `ErrorThrownOnce`: `finish(throwing:)` that hands its error to a suspended task
  leaves the storage failed, so the next call of `next()` throws the error again;
  the documentation of `AsyncIteratorProtocol` asks for `nil`.
* `CompletedTaskIsNotAccessed`: `completeFuture()` asks whether the task is a group
  child (`Task.cpp:270`) after the exchange that published its completion; a parent that
  leaves the scope of an async let then finds the future completed, does not suspend and
  destroys the task, whose flags are read afterwards. `Task.cpp:504-506` warns of
  just that. All other accesses are covered by `OnlyFlagsAreReadLate`.

Observations that have no run:

* `Actor.cpp:1321-1324`, the ownership comment, says that there is one processing
  job at a time; with escalation there are stealers as well. `RetainBalance` is the
  rule the code follows.
* `Actor.cpp:1659-1681`: an escalation that meets an idle actor, because its task
  has published its dependency and not yet exchanged the word, changes nothing;
  the task is then queued at its old priority.
* `TaskGroup.cpp:98-99` says that the error thrown by the body of a discarding group
  always wins, even over an error stored by a child; `waitAll` stores the body's
  error only when nothing is stored yet (`TaskGroup.cpp:2046`), so a child that
  failed earlier wins.
* `TaskStatus.cpp:845-847` says that cancelling the owner does not formally cancel
  the group; the function it calls sets the group's cancelled bit, and a later
  `addTaskUnlessCancelled` refuses although nobody called `cancelAll`.
* `AsyncStreamBuffer.code:117`: a termination handler taken by `cancel()` may be
  called after another thread's `finish()` delivered the end of the stream.

## 6. Not modelled

In `DefaultActor`: hops from one actor to another, isolated deinit, distributed
remote actors, the build with actors as locks, isolation checks. In `TaskStatus`:
initial task names and initial executor preferences, forced executor switches, the
checks of debug builds, overrides of the thread that runs the task. In `TaskGroup`: `waitAll` of an accumulating group, which
no code calls, and the build in which a task is bound to a thread. In `AsyncLet`:
`start`, `wait` and `end`, which the compiler no longer emits, and the allocation of
child tasks in the parent's frame, which is taken as free or in use. In
`AsyncStream`: streams made from an unfolding closure, which have no buffer. In
all of them: weak memory orders, tracing and logging. The
components without a module, each with the reason, are in `PROJECT.json`: the
compiler, the standard library and the vendored packages are sequential or
outside this code base, and the rest of the concurrency runtime is the plan below.

## 7. Plan

1. `CooperativeExecutor`: ready queue on `PriorityQueue` and the list of delayed
   jobs, with the width of its clock; refines a delay queue.
2. `DefaultActor` with isolated deinit and hops between two actors.
3. Task locals: a child that reads the bindings of its parent.
4. The runtime's wait queues and reference counts.

Theorems in view: those of a `CooperativeExecutor`, whose ready queue is the
`PriorityQueue` that `MergeHolds`, `RunIsEnqueued` and `FirstIsDequeued` are about.
