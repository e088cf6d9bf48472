---------------------------- MODULE DefaultActor ----------------------------
(***************************************************************************)
(* One default actor of the concurrency runtime: the atomic                *)
(* ActiveActorStatus word, the lock-protected queue of prioritised jobs,   *)
(* the processing jobs the actor has scheduled on the global executor and  *)
(* the threads that drain it, hop onto it and hop off it.                  *)
(*                                                                         *)
(* Every compare_exchange loop on the status word is one action: the load  *)
(* and the failed attempts before the successful exchange have no effect   *)
(* another thread can see.  Work done after the exchange is an action of   *)
(* its own when it touches the actor again.                                *)
(***************************************************************************)
EXTENDS Integers, Sequences, SequencesExt

CONSTANTS
  Job,                  \* the tasks that run on the actor
  Thread,               \* the threads of the cooperative pool
  NoThread, NoJob,
  Ext,                  \* a strong reference held outside any task
  MaxPriority,          \* JobPriority ranges over 1..MaxPriority
  BasePriority,         \* priority each task is created with
  PrefersTaskExecutor,  \* tasks with a task executor preference
  PriorityEscalation,   \* LANGUAGE_CONCURRENCY_ENABLE_PRIORITY_ESCALATION
  MaxHops               \* bound: times a task comes to the actor

ASSUME PriorityAssumption ==
  /\ MaxPriority \in Nat
  /\ BasePriority \in [Job -> 1..MaxPriority]
ASSUME NameAssumption ==
  /\ NoThread \notin Thread
  /\ NoJob \notin Job
  /\ Ext \notin Job
ASSUME ConfigAssumption ==
  /\ PrefersTaskExecutor \subseteq Job
  /\ PriorityEscalation \in BOOLEAN
  /\ MaxHops \in Nat

VARIABLES
  status,           \* the ActiveActorStatus word
  prioritizedJobs,  \* claimed jobs, in arrival order; owned by the drainer
  procs,            \* ProcessOutOfLineJobs waiting for a thread
  holders,          \* tasks (and Ext) that own a strong reference
  extra,            \* retains held for surplus processing jobs
  overriders,       \* enqueue() calls past their exchange, actor retained
  life,             \* where the object is in its life
  deiniter,         \* the thread in the actor's deinit, if it may be a drainer
  qos,              \* priority the lock holder runs at for this actor
  pc, cur, frame,   \* per thread: position, task followed, outermost frame
  phase,            \* per task: where it is
  jobPriority,      \* per task: priority in Job::Flags
  storedPriority,   \* per task: priority in its ActiveTaskStatus
  esc,              \* per task: an enqueueStealer() call under its status lock
  hops

actorVars == <<status, prioritizedJobs, procs, holders, extra, overriders,
               life, deiniter, qos>>
threadVars == <<pc, cur, frame>>
taskVars == <<phase, jobPriority, storedPriority, esc, hops>>
vars == <<actorVars, threadVars, taskVars>>

Unspecified == 0
Priority == 1..MaxPriority
Phase == {"away", "running", "enqueuing", "queued", "starting"}
Higher(p, q) == IF p > q THEN p ELSE q

-----------------------------------------------------------------------------
(* ActiveActorStatus *)

Status == [state: {"Idle", "Scheduled", "Running", "Zombie"},
           maxPriority: 0..MaxPriority,
           escalated: BOOLEAN,
           drainer: Thread \cup {NoThread},
           firstJob: Seq(Job)]

withIdle(s) == [s EXCEPT !.state = "Idle", !.drainer = NoThread]
withRunning(s, t) == [s EXCEPT !.state = "Running", !.drainer = t]
withScheduled(s) == [s EXCEPT !.state = "Scheduled", !.drainer = NoThread]
withZombie(s) == [s EXCEPT !.state = "Zombie"]
withNewPriority(s, p) == [s EXCEPT !.maxPriority = p, !.escalated = FALSE]
resetPriority(s) == withNewPriority(s, Unspecified)
withEscalatedPriority(s, p) == [s EXCEPT !.maxPriority = p, !.escalated = TRUE]
withoutEscalatedPriority(s) == [s EXCEPT !.escalated = FALSE]
withFirstUnprioritizedJob(s, jobs) == [s EXCEPT !.firstJob = jobs]

-----------------------------------------------------------------------------
(* Processing jobs and references *)

\* TaskExecutorRef::fromTaskExecutorPreference
fromTaskExecutorPreference(j) == IF j \in PrefersTaskExecutor THEN "task" ELSE "global"

Proc == [priority: 0..MaxPriority, executor: {"task", "global"}]

scheduleActorProcessJob(p, executor) ==
  procs' = Append(procs, [priority |-> p, executor |-> executor])

\* Mutant: enqueue() without its defensive retain.
StartsDeinit_NoDefensiveRetain(h, e, o, t) ==
  IF h = {} /\ e = 0
  THEN life' = "deinit" /\ deiniter' = t
  ELSE UNCHANGED <<life, deiniter>>

\* The last strong reference goes away: the object's deinit starts on thread t.
StartsDeinit(h, e, o, t) ==
  IF h = {} /\ e = 0 /\ o = <<>>
  THEN life' = "deinit" /\ deiniter' = t
  ELSE UNCHANGED <<life, deiniter>>

-----------------------------------------------------------------------------
(* DefaultActorImpl::enqueue *)

\* An enqueue() past its exchange, on its way to override the drainer it saw.
Overrider == [drainer: Thread \cup {NoThread}, priority: Priority]

\* The exchange of enqueue(): push onto the LIFO list, schedule an idle actor,
\* raise the priority of a busy one.  With priority escalation a raised running
\* actor leaves the caller an override to start and a raised scheduled actor
\* gets a stealer, which takes over the caller's retain.  taskExecutor was
\* fetched before the exchange, under needsScheduling \/ needsStealer.
Enqueue(j) ==
  LET p == jobPriority[j]
      pushed == withFirstUnprioritizedJob(status, <<j>> \o status.firstJob)
      raises == status.state # "Idle" /\ p > status.maxPriority
      needsScheduling == status.state = "Idle"
      needsStealer == raises /\ status.state = "Running"
      taskExecutor == IF needsScheduling \/ needsStealer
                      THEN fromTaskExecutorPreference(j) ELSE "global"
  IN
  /\ phase[j] = "enqueuing"
  /\ phase' = [phase EXCEPT ![j] = "queued"]
  /\ \/ /\ needsScheduling
        /\ status' = withNewPriority(withScheduled(pushed), p)
        /\ scheduleActorProcessJob(p, taskExecutor)
        /\ UNCHANGED <<extra, overriders>>
     \/ /\ raises
        /\ status' = withEscalatedPriority(pushed, p)
        /\ \/ /\ status.state = "Running" \/ ~PriorityEscalation
              /\ overriders' = Append(overriders,
                                 [drainer |-> status.drainer, priority |-> p])
              /\ UNCHANGED <<extra, procs>>
           \/ /\ PriorityEscalation /\ status.state # "Running"
              /\ extra' = extra + 1
              /\ scheduleActorProcessJob(p, taskExecutor)
              /\ UNCHANGED overriders
     \/ /\ ~needsScheduling /\ ~raises
        /\ status' = pushed
        /\ UNCHANGED <<extra, overriders, procs>>
  /\ UNCHANGED <<prioritizedJobs, holders, life, deiniter, qos, threadVars,
                 jobPriority, storedPriority, esc, hops>>

\* language_dispatch_lock_override_start_with_debounce: raises the thread that
\* holds the drain lock if it is still the one that was seen.
OverrideStart(t, p) ==
  qos' = IF status.drainer = t /\ t # NoThread THEN Higher(qos, p) ELSE qos

\* The rest of enqueue() after raising a running actor: override the drainer,
\* then drop the defensive retain.
FinishEnqueue(i) ==
  LET rest == RemoveAt(overriders, i) IN
  /\ i \in DOMAIN overriders
  /\ IF PriorityEscalation
     THEN OverrideStart(overriders[i].drainer, overriders[i].priority)
     ELSE UNCHANGED qos
  /\ overriders' = rest
  /\ StartsDeinit(holders, extra, rest, NoThread)
  /\ UNCHANGED <<status, prioritizedJobs, procs, holders, extra, threadVars, taskVars>>

-----------------------------------------------------------------------------
(* DefaultActorImpl::enqueueStealer, called with the task's status lock held *)

Escalation == [pc: {"none", "cas", "override", "steal"},
               priority: 0..MaxPriority,
               drainer: Thread \cup {NoThread}]
NoEscalation == [pc |-> "none", priority |-> Unspecified, drainer |-> NoThread]

\* language_task_escalate on an enqueued task: raise the stored priority, take
\* the status record lock, reach the EnqueuedOnExecutor dependency record.
TaskEscalate(j, p) ==
  /\ phase[j] \in {"enqueuing", "queued", "starting"}
  /\ esc[j].pc = "none"
  /\ p > storedPriority[j]
  /\ storedPriority' = [storedPriority EXCEPT ![j] = p]
  /\ esc' = [esc EXCEPT ![j] = [pc |-> "cas", priority |-> p, drainer |-> NoThread]]
  /\ UNCHANGED <<actorVars, threadVars, phase, jobPriority, hops>>

\* One turn of the loop.  A successful exchange goes round again; the loop ends
\* when the actor is idle or already at the priority.
EnqueueStealer(j) ==
  LET p == esc[j].priority IN
  /\ esc[j].pc = "cas"
  /\ \/ /\ status.state = "Idle" \/ p <= status.maxPriority
        /\ esc' = [esc EXCEPT ![j] = NoEscalation]
        /\ UNCHANGED status
     \/ /\ status.state # "Idle" /\ p > status.maxPriority
        /\ status' = withEscalatedPriority(status, p)
        /\ esc' = [esc EXCEPT ![j] =
             [pc |-> IF ~PriorityEscalation THEN "cas"
                     ELSE IF status.state = "Running" THEN "override"
                     ELSE IF status.state = "Scheduled" THEN "steal" ELSE "cas",
              priority |-> p,
              drainer |-> IF PriorityEscalation THEN status.drainer ELSE NoThread]]
  /\ UNCHANGED <<prioritizedJobs, procs, holders, extra, overriders, life, deiniter,
                 qos, threadVars, phase, jobPriority, storedPriority, hops>>

StealerOverride(j) ==
  /\ esc[j].pc = "override"
  /\ OverrideStart(esc[j].drainer, esc[j].priority)
  /\ esc' = [esc EXCEPT ![j].pc = "cas", ![j].drainer = NoThread]
  /\ UNCHANGED <<status, prioritizedJobs, procs, holders, extra, overriders, life,
                 deiniter, threadVars, phase, jobPriority, storedPriority, hops>>

\* language_retain(this); scheduleActorProcessJob(...)
StealerSchedule(j) ==
  /\ esc[j].pc = "steal"
  /\ extra' = extra + 1
  /\ scheduleActorProcessJob(esc[j].priority, fromTaskExecutorPreference(j))
  /\ esc' = [esc EXCEPT ![j].pc = "cas", ![j].drainer = NoThread]
  /\ UNCHANGED <<status, prioritizedJobs, holders, overriders, life, deiniter, qos,
                 threadVars, phase, jobPriority, storedPriority, hops>>

-----------------------------------------------------------------------------
(* tryLock and unlock *)

\* Mutant: the LIFO list is handed over unreversed.
handleUnprioritizedJobs_NoReverse(jobs) == prioritizedJobs' = prioritizedJobs \o jobs

\* handleUnprioritizedJobs: reverse the claimed LIFO list, then hand it to the
\* priority queue (kept here in arrival order, see Dequeues).
handleUnprioritizedJobs(jobs) == prioritizedJobs' = prioritizedJobs \o Reverse(jobs)

\* Mutant: a stealer does not look whether the actor is still scheduled.
TryLockAsDrainer_AnyState(t, requested) ==
  /\ status' = withFirstUnprioritizedJob(
                 withoutEscalatedPriority(withRunning(status, t)), <<>>)
  /\ handleUnprioritizedJobs(status.firstJob)
  /\ qos' = Higher(requested, status.maxPriority)

\* Mutant: the drainer keeps the priority its processing job was scheduled at.
TryLockAsDrainer_NoSelfOverride(t, requested) ==
  /\ PriorityEscalation => status.state = "Scheduled"
  /\ status' = withFirstUnprioritizedJob(
                 withoutEscalatedPriority(withRunning(status, t)), <<>>)
  /\ handleUnprioritizedJobs(status.firstJob)
  /\ qos' = requested

\* tryLock(asDrainer = true) taking the lock: claims the incoming list and
\* represents the actor's priority on the thread.
TryLockAsDrainer(t, requested) ==
  /\ PriorityEscalation => status.state = "Scheduled"
  /\ status' = withFirstUnprioritizedJob(
                 withoutEscalatedPriority(withRunning(status, t)), <<>>)
  /\ handleUnprioritizedJobs(status.firstJob)
  /\ qos' = Higher(requested, status.maxPriority)

\* tryLock(asDrainer = false): the uncontended path of a task switching actors.
TryLockUncontended(t) ==
  /\ status.state \notin {"Running", "Scheduled"}
  /\ status' = withoutEscalatedPriority(withRunning(status, t))
  /\ qos' = Unspecified

hasWork == prioritizedJobs # <<>> \/ status.firstJob # <<>>

\* Mutant: unlock() of a zombie goes idle instead of freeing it.
UnlockZombie_GoesIdle ==
  /\ status.state = "Zombie"
  /\ status' = resetPriority(withIdle(status))
  /\ qos' = Unspecified
  /\ UNCHANGED <<procs, life>>

\* deallocateUnconditional, from unlock() of a zombie
UnlockZombie ==
  /\ status.state = "Zombie"
  /\ life' = "freed"
  /\ qos' = Unspecified
  /\ UNCHANGED <<status, procs>>

\* Mutant: unlock() looks only at the jobs it has already claimed.
UnlockToIdle_ClaimedOnly ==
  /\ status.state # "Zombie"
  /\ prioritizedJobs = <<>>
  /\ status' = resetPriority(withIdle(status))
  /\ qos' = Unspecified
  /\ UNCHANGED <<procs, life>>

UnlockToIdle ==
  /\ status.state # "Zombie"
  /\ ~hasWork
  /\ status' = resetPriority(withIdle(status))
  /\ qos' = Unspecified
  /\ UNCHANGED <<procs, life>>

\* Mutant: unlock() marks the actor scheduled and schedules nothing.
UnlockToScheduled_NoProcess ==
  /\ status.state # "Zombie"
  /\ hasWork
  /\ status' = withoutEscalatedPriority(withScheduled(status))
  /\ qos' = Unspecified
  /\ UNCHANGED <<life, procs>>

UnlockToScheduled ==
  /\ status.state # "Zombie"
  /\ hasWork
  /\ status' = withoutEscalatedPriority(withScheduled(status))
  /\ scheduleActorProcessJob(status.maxPriority, "global")
  /\ qos' = Unspecified
  /\ UNCHANGED life

\* unlock(forceUnlock = true)
ForceUnlock == UnlockZombie \/ UnlockToIdle \/ UnlockToScheduled

-----------------------------------------------------------------------------
(* defaultActorDrain *)

Goes(t, to) == pc' = [pc EXCEPT ![t] = to]

\* The thread returns to the pool.
GoesIdle(t) ==
  /\ Goes(t, "idle")
  /\ cur' = [cur EXCEPT ![t] = NoJob]
  /\ frame' = [frame EXCEPT ![t] = "run"]

\* Mutant: the processing job that loses the race keeps its reference.
ProcessJob_LoserKeepsRetain(t, i) ==
  /\ pc[t] = "idle"
  /\ i \in DOMAIN procs
  /\ procs' = RemoveAt(procs, i)
  /\ \/ /\ TryLockAsDrainer(t, procs[i].priority)
        /\ Goes(t, "drain")
        /\ frame' = [frame EXCEPT ![t] = "drain"]
     \/ /\ PriorityEscalation /\ status.state # "Scheduled"
        /\ UNCHANGED <<status, prioritizedJobs, qos, pc, frame>>
  /\ UNCHANGED <<extra, life, deiniter, holders, overriders, cur, taskVars>>

\* A pool thread picks up a processing job and tries to take the actor lock.
ProcessJob(t, i) ==
  /\ pc[t] = "idle"
  /\ i \in DOMAIN procs
  /\ procs' = RemoveAt(procs, i)
  /\ \/ /\ TryLockAsDrainer(t, procs[i].priority)
        /\ Goes(t, "drain")
        /\ frame' = [frame EXCEPT ![t] = "drain"]
        /\ UNCHANGED <<extra, life, deiniter>>
     \/ \* lost the race against another stealer: release the extra reference
        /\ PriorityEscalation /\ status.state # "Scheduled"
        /\ extra' = extra - 1
        /\ StartsDeinit(holders, extra - 1, overriders, NoThread)
        /\ UNCHANGED <<status, prioritizedJobs, qos, pc, frame>>
  /\ UNCHANGED <<holders, overriders, cur, taskVars>>

\* PriorityQueue::dequeue: the earliest job of the highest priority present.
Dequeues(i) ==
  /\ i \in DOMAIN prioritizedJobs
  /\ \A k \in DOMAIN prioritizedJobs :
       LET pi == jobPriority[prioritizedJobs[i]]
           pk == jobPriority[prioritizedJobs[k]]
       IN pk < pi \/ (pk = pi /\ i <= k)

\* drainOne() returned a job
DrainOne(t, i) ==
  LET j == prioritizedJobs[i] IN
  /\ pc[t] = "drain"
  /\ Dequeues(i)
  /\ prioritizedJobs' = RemoveAt(prioritizedJobs, i)
  /\ phase' = [phase EXCEPT ![j] = "starting"]
  /\ cur' = [cur EXCEPT ![t] = j]
  /\ Goes(t, "start")
  /\ UNCHANGED <<status, procs, holders, extra, overriders, life, deiniter, qos,
                 frame, jobPriority, storedPriority, esc, hops>>

\* flagAsRunning(): removing the dependency record waits for the status lock.
StartJob(t) ==
  /\ pc[t] = "start"
  /\ esc[cur[t]].pc = "none"
  /\ phase' = [phase EXCEPT ![cur[t]] = "running"]
  /\ Goes(t, "on")
  /\ UNCHANGED <<actorVars, cur, frame, jobPriority, storedPriority, esc, hops>>

processIncomingQueue(t) ==
  /\ pc[t] = "incoming"
  /\ status' = withFirstUnprioritizedJob(status, <<>>)
  /\ handleUnprioritizedJobs(status.firstJob)
  /\ Goes(t, "drain")
  /\ UNCHANGED <<procs, holders, extra, overriders, life, deiniter, qos, cur, frame,
                 taskVars>>

\* drainOne() returned null: unlock(forceUnlock = false), which keeps the lock
\* when jobs have come in.
UnlockDrained(t) ==
  /\ pc[t] = "drain"
  /\ prioritizedJobs = <<>>
  /\ \/ /\ UnlockZombie \/ UnlockToIdle
        /\ GoesIdle(t)
     \/ /\ status.state # "Zombie" /\ hasWork
        /\ Goes(t, "incoming")
        /\ UNCHANGED <<status, procs, life, qos, cur, frame>>
  /\ UNCHANGED <<prioritizedJobs, holders, extra, overriders, deiniter, taskVars>>

-----------------------------------------------------------------------------
(* A thread following a task: running it on the actor or elsewhere, and      *)
(* language_task_switch in both directions.                                  *)

Follows(t, where) == pc[t] = where /\ deiniter # t

\* language_job_run of the task on the generic executor
RunJob(t, j) ==
  /\ pc[t] = "idle"
  /\ phase[j] = "away" /\ hops[j] < MaxHops
  /\ Goes(t, "off")
  /\ cur' = [cur EXCEPT ![t] = j]
  /\ phase' = [phase EXCEPT ![j] = "running"]
  /\ UNCHANGED <<actorVars, frame, jobPriority, storedPriority, esc, hops>>

\* Bounds the times a task comes to the actor.
Hops(j) ==
  /\ hops[j] < MaxHops
  /\ hops' = [hops EXCEPT ![j] = @ + 1]

\* flagAsAndEnqueueOnExecutor up to its call of enqueue(): the dependency record
\* is in place, Job::Flags has the priority read before the record was added.
flagAsAndEnqueueOnExecutor(j) ==
  /\ phase' = [phase EXCEPT ![j] = "enqueuing"]
  /\ jobPriority' = [jobPriority EXCEPT ![j] = storedPriority[j]]

\* A suspended task is resumed onto the actor by whoever it waited for.
ResumeOnActor(j) ==
  /\ phase[j] = "away"
  /\ j \in holders
  /\ Hops(j)
  /\ flagAsAndEnqueueOnExecutor(j)
  /\ UNCHANGED <<actorVars, threadVars, storedPriority, esc>>

\* language_task_switch gives a thread up only under an undefined task executor.
MayGiveUpThread(t) == cur[t] \notin PrefersTaskExecutor

\* language_task_switch to the actor, fast path: assume the thread.
SwitchToActor(t) ==
  /\ Follows(t, "off")
  /\ MayGiveUpThread(t)
  /\ cur[t] \in holders
  /\ Hops(cur[t])
  /\ TryLockUncontended(t)
  /\ Goes(t, "on")
  /\ UNCHANGED <<prioritizedJobs, procs, holders, extra, overriders, life, deiniter,
                 cur, frame, phase, jobPriority, storedPriority, esc>>

\* language_task_switch to the actor, slow path: enqueue the task (the lock was
\* taken, or the current executor cannot give up its thread).
SwitchByEnqueue(t) ==
  /\ Follows(t, "off")
  /\ cur[t] \in holders
  /\ Hops(cur[t])
  /\ flagAsAndEnqueueOnExecutor(cur[t])
  /\ GoesIdle(t)
  /\ UNCHANGED <<actorVars, storedPriority, esc>>

\* language_task_switch away from the actor: giveUpThreadForSwitch.
SwitchFromActor(t) ==
  /\ Follows(t, "on")
  /\ MayGiveUpThread(t)
  /\ ForceUnlock
  /\ Goes(t, "off")
  /\ UNCHANGED <<prioritizedJobs, holders, extra, overriders, deiniter, cur, frame,
                 taskVars>>

\* The task suspends, completes or is enqueued elsewhere; the thread still holds
\* the actor and returns to its frame.
ReturnOnActor(t) ==
  /\ Follows(t, "on")
  /\ phase' = [phase EXCEPT ![cur[t]] = "away"]
  /\ Goes(t, IF frame[t] = "drain" THEN "incoming" ELSE "leave")
  /\ cur' = [cur EXCEPT ![t] = NoJob]
  /\ UNCHANGED <<actorVars, frame, jobPriority, storedPriority, esc, hops>>

ReturnOffActor(t) ==
  /\ Follows(t, "off")
  /\ phase' = [phase EXCEPT ![cur[t]] = "away"]
  /\ GoesIdle(t)
  /\ UNCHANGED <<actorVars, jobPriority, storedPriority, esc, hops>>

\* The end of language_job_run: give up the actor it switched to.
LeaveJobRun(t) ==
  /\ pc[t] = "leave"
  /\ ForceUnlock
  /\ GoesIdle(t)
  /\ UNCHANGED <<prioritizedJobs, holders, extra, overriders, deiniter, taskVars>>

-----------------------------------------------------------------------------
(* Release and deallocation *)

\* A running task drops its strong reference to the actor.
ReleaseByTask(t) ==
  /\ Follows(t, "on") \/ Follows(t, "off")
  /\ cur[t] \in holders
  /\ holders' = holders \ {cur[t]}
  /\ StartsDeinit(holders \ {cur[t]}, extra, overriders, t)
  /\ UNCHANGED <<status, prioritizedJobs, procs, extra, overriders, qos, threadVars,
                 taskVars>>

ReleaseByOthers ==
  /\ Ext \in holders
  /\ holders' = holders \ {Ext}
  /\ StartsDeinit(holders \ {Ext}, extra, overriders, NoThread)
  /\ UNCHANGED <<status, prioritizedJobs, procs, extra, overriders, qos, threadVars,
                 taskVars>>

\* DefaultActorImpl::destroy only reads the status and asserts.
Destroy ==
  /\ life = "deinit"
  /\ life' = "dealloc"
  /\ UNCHANGED <<status, prioritizedJobs, procs, holders, extra, overriders, deiniter,
                 qos, threadVars, taskVars>>

\* DefaultActorImpl::deallocate: a running actor becomes a zombie that its
\* drainer frees at unlock.
Deallocate ==
  /\ life = "dealloc"
  /\ \/ /\ status.state = "Running"
        /\ status' = withZombie(status)
        /\ life' = "zombie"
     \/ /\ status.state # "Running"
        /\ life' = "freed"
        /\ UNCHANGED status
  /\ deiniter' = NoThread
  /\ UNCHANGED <<prioritizedJobs, procs, holders, extra, overriders, qos, threadVars,
                 taskVars>>

-----------------------------------------------------------------------------
Init ==
  /\ status = [state |-> "Idle", maxPriority |-> Unspecified, escalated |-> FALSE,
               drainer |-> NoThread, firstJob |-> <<>>]
  /\ prioritizedJobs = <<>>
  /\ procs = <<>>
  /\ holders = Job \cup {Ext}
  /\ extra = 0
  /\ overriders = <<>>
  /\ life = "live"
  /\ deiniter = NoThread
  /\ qos = Unspecified
  /\ pc = [t \in Thread |-> "idle"]
  /\ cur = [t \in Thread |-> NoJob]
  /\ frame = [t \in Thread |-> "run"]
  /\ phase = [j \in Job |-> "away"]
  /\ jobPriority = BasePriority
  /\ storedPriority = BasePriority
  /\ esc = [j \in Job |-> NoEscalation]
  /\ hops = [j \in Job |-> 0]

\* Steps the runtime owes once they are enabled.
Drain(t) ==
  \/ \E i \in DOMAIN prioritizedJobs : DrainOne(t, i)
  \/ StartJob(t)
  \/ processIncomingQueue(t)
  \/ UnlockDrained(t)
  \/ LeaveJobRun(t)

\* Steps of user code in a task, which always ends by returning.
UserCode(t) ==
  \/ SwitchToActor(t)
  \/ SwitchByEnqueue(t)
  \/ SwitchFromActor(t)
  \/ ReleaseByTask(t)

Returns(t) == ReturnOnActor(t) \/ ReturnOffActor(t)

StealerStep(j) == EnqueueStealer(j) \/ StealerOverride(j) \/ StealerSchedule(j)

ThreadStep(t) ==
  \/ \E i \in DOMAIN procs : ProcessJob(t, i)
  \/ Drain(t)
  \/ \E j \in Job : RunJob(t, j)
  \/ UserCode(t)
  \/ Returns(t)

TaskStep(j) ==
  \/ ResumeOnActor(j)
  \/ Enqueue(j)
  \/ \E p \in Priority : TaskEscalate(j, p)
  \/ StealerStep(j)

ObjectStep ==
  \/ \E i \in DOMAIN overriders : FinishEnqueue(i)
  \/ ReleaseByOthers
  \/ Destroy
  \/ Deallocate

Next ==
  \/ \E t \in Thread : ThreadStep(t)
  \/ \E j \in Job : TaskStep(j)
  \/ ObjectStep

Spec == Init /\ [][Next]_vars

(* Fairness: the global executor runs every processing job it was given      *)
(* (external), a thread inside the runtime keeps running, user code between  *)
(* two suspension points returns, and a call of enqueue(), enqueueStealer()  *)
(* or deinit runs to its end.                                                *)
Fairness ==
  /\ WF_vars(\E t \in Thread : \E i \in DOMAIN procs : ProcessJob(t, i))
  /\ \A t \in Thread : WF_vars(Drain(t)) /\ WF_vars(Returns(t))
  /\ \A j \in Job : WF_vars(Enqueue(j)) /\ WF_vars(StealerStep(j))
  /\ WF_vars(\E i \in DOMAIN overriders : FinishEnqueue(i))
  /\ WF_vars(Destroy \/ Deallocate)

FairSpec == Spec /\ Fairness
-----------------------------------------------------------------------------
(* Properties *)

\* The actor, the threads and the tasks keep their types.
TypeOK ==
  /\ status \in Status
  /\ prioritizedJobs \in Seq(Job)
  /\ procs \in Seq(Proc)
  /\ holders \subseteq Job \cup {Ext}
  /\ extra \in Nat
  /\ overriders \in Seq(Overrider)
  /\ life \in {"live", "deinit", "dealloc", "zombie", "freed"}
  /\ deiniter \in Thread \cup {NoThread}
  /\ qos \in 0..MaxPriority
  /\ pc \in [Thread -> {"idle", "drain", "incoming", "start", "on", "off", "leave"}]
  /\ cur \in [Thread -> Job \cup {NoJob}]
  /\ frame \in [Thread -> {"drain", "run"}]
  /\ phase \in [Job -> Phase]
  /\ jobPriority \in [Job -> Priority]
  /\ storedPriority \in [Job -> Priority]
  /\ esc \in [Job -> Escalation]
  /\ hops \in [Job -> 0..MaxHops]

HoldsLock(t) == pc[t] \in {"drain", "incoming", "start", "on", "leave"}

\* At most one thread is between a successful tryLock() and the unlock() that
\* gives the actor up, whichever of the drain loop, the switch fast path and the
\* stealers got it there.
MutualExclusion ==
  \A t, u \in Thread : HoldsLock(t) /\ HoldsLock(u) => t = u

\* The ownership rules above DefaultActorImpl: with R = 1 exactly while a
\* scheduled actor waits for its owning processing job, the actor carries one
\* extra retain for every other processing job in flight.
RetainBalance ==
  extra = Len(procs) - (IF status.state = "Scheduled" THEN 1 ELSE 0)

\* Once the storage is freed nobody will touch it again: no thread owes it an
\* unlock(), no processing job, pending override or escalator still points to it
\* and no task is queued on it or about to be.
NoUseAfterFree ==
  life = "freed" =>
    /\ \A t \in Thread : ~HoldsLock(t)
    /\ procs = <<>>
    /\ overriders = <<>>
    /\ \A j \in Job : phase[j] \notin {"enqueuing", "queued", "starting"}
    /\ \A j \in Job : esc[j].pc = "none"

\* A queued job always has somebody coming for it: the thread that holds the
\* lock, or a processing job that a scheduled actor has in the pool.  This is what
\* unlock(), racing with enqueue(), must not break.
NoLostJob ==
  hasWork =>
    \/ status.state = "Running" /\ \E t \in Thread : HoldsLock(t)
    \/ status.state = "Scheduled" /\ procs # <<>>

\* The asserts of destroy() and deallocate(): the last reference cannot go away
\* while jobs are queued or the actor is merely scheduled.
DestroyFindsNoJobs ==
  life \in {"deinit", "dealloc"} =>
    /\ status.firstJob = <<>>
    /\ status.state \in {"Idle", "Running"}
    /\ status.state = "Idle" => prioritizedJobs = <<>>

\* Without priority escalation there are no stealers: the processing job finds the
\* actor scheduled, as tryLock() asserts, and is the only one.
DrainerFindsScheduled ==
  ~PriorityEscalation => procs = <<>> \/ (status.state = "Scheduled" /\ Len(procs) = 1)

\* A processing job that covers priority p is on its way or runs at p.
Covered(p) ==
  \/ \E i \in DOMAIN procs : procs[i].priority >= p
  \/ status.state = "Running" /\ qos >= p
  \/ \E i \in DOMAIN overriders :
       overriders[i].drainer = status.drainer /\ overriders[i].priority >= p
  \/ \E j \in Job :
       /\ esc[j].priority >= p
       /\ \/ esc[j].pc = "override" /\ esc[j].drainer = status.drainer
          \/ esc[j].pc = "steal" /\ status.state = "Scheduled"

\* With priority escalation no queued job waits behind a thread of lower
\* priority: the drainer runs at the job's priority, or a processing job of that
\* priority is in the pool, or a call that will bring one of the two about has
\* not finished.
NoPriorityInversion ==
  PriorityEscalation =>
    \A i \in 1..Len(prioritizedJobs \o status.firstJob) :
      Covered(jobPriority[(prioritizedJobs \o status.firstJob)[i]])

\* The asserts of tryLock(): a task that assumes the thread finds the actor idle,
\* at no priority and without jobs, never a zombie.
FastPathFindsIdle ==
  [][\A t \in Thread : SwitchToActor(t) =>
       status.state = "Idle" /\ status.maxPriority = Unspecified /\ ~hasWork]_vars

\* The job the actor runs, if any, and the jobs waiting in arrival order.
Occupant ==
  LET on == {t \in Thread : pc[t] \in {"start", "on"}}
  IN IF on = {} THEN NoJob ELSE cur[CHOOSE t \in on : TRUE]
Waiting ==
  LET q == prioritizedJobs \o Reverse(status.firstJob)
  IN [i \in DOMAIN q |-> [job |-> q[i], priority |-> jobPriority[q[i]]]]

Abstract == INSTANCE SerialExecutor WITH pending <- Waiting, current <- Occupant

\* The lock-free queue, the batch claims of tryLock() and processIncomingQueue()
\* and the hand-over between threads implement a serial executor.
ImplementsSerialExecutor == Abstract!Spec

\* Every queued job is started: no lost wakeup between unlock(), enqueue() and the
\* stealers that give up.
QueuedJobRuns == \A j \in Job : phase[j] = "queued" ~> phase[j] = "running"

\* The storage of an actor without references is freed, by deallocate() or by the
\* drainer that finds the zombie.
UnreferencedActorIsFreed == life # "live" ~> life = "freed"

-----------------------------------------------------------------------------
(* What a comment says that the code does not do *)

\* enqueue(): the conditions under which taskExecutor is fetched match those under
\* which it is used, so a processing job that enqueue() schedules goes to the
\* task's preferred executor.
EnqueueUsesTaskExecutor ==
  [][\A j \in Job : Enqueue(j) /\ Len(procs') > Len(procs) =>
       Last(procs').executor = fromTaskExecutorPreference(j)]_vars
=============================================================================
