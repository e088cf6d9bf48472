------------------------- MODULE DefaultActorProofs -------------------------
(***************************************************************************)
(* Proofs that the default actor keeps its lock, its references and its    *)
(* queue in step, implements a serial executor and lets no job wait behind *)
(* a thread of lower priority, for any number of tasks, threads,           *)
(* priorities and hops.                                                    *)
(***************************************************************************)
EXTENDS DefaultActor, SequenceTheorems, TLAPS

-----------------------------------------------------------------------------
(* Sequences *)

\* RemoveAt closes the gap at the removed position.
LEMMA RemoveAtProperties ==
  ASSUME NEW S, NEW s \in Seq(S), NEW i \in 1..Len(s)
  PROVE  /\ RemoveAt(s, i) \in Seq(S)
         /\ Len(RemoveAt(s, i)) = Len(s) - 1
         /\ \A k \in 1..(Len(s) - 1) :
              RemoveAt(s, i)[k] = IF k < i THEN s[k] ELSE s[k + 1]
<1> DEFINE a == SubSeq(s, 1, i - 1)
           b == SubSeq(s, i + 1, Len(s))
<1>1. /\ a \in Seq(S) /\ Len(a) = i - 1
      /\ \A k \in 1..(i - 1) : a[k] = s[k]
  BY SubSeqProperties
<1>2. /\ b \in Seq(S) /\ Len(b) = Len(s) - i
      /\ \A k \in 1..(Len(s) - i) : b[k] = s[i + k]
  BY SubSeqProperties
<1>3. RemoveAt(s, i) = a \o b
  BY DEF RemoveAt
<1> HIDE DEF a, b
<1>4. a \in Seq(S) /\ b \in Seq(S)
  BY <1>1, <1>2
<1>5. /\ a \o b \in Seq(S)
      /\ Len(a \o b) = Len(a) + Len(b)
      /\ \A k \in 1..(Len(a) + Len(b)) :
           (a \o b)[k] = IF k <= Len(a) THEN a[k] ELSE b[k - Len(a)]
  BY <1>4, ConcatProperties, Zenon
<1>6. Len(a \o b) = Len(s) - 1
  BY <1>1, <1>2, <1>5
<1>7. ASSUME NEW k \in 1..(Len(s) - 1)
      PROVE  (a \o b)[k] = IF k < i THEN s[k] ELSE s[k + 1]
  <2>1. (a \o b)[k] = IF k <= Len(a) THEN a[k] ELSE b[k - Len(a)]
    BY <1>1, <1>2, <1>5
  <2>2. CASE k < i
    BY <2>1, <2>2, <1>1
  <2>3. CASE ~(k < i)
    BY <2>1, <2>3, <1>1, <1>2
  <2> QED
    BY <2>2, <2>3
<1> QED
  BY <1>3, <1>5, <1>6, <1>7

\* Reverse keeps the length and mirrors the positions.
LEMMA ReverseProperties ==
  ASSUME NEW S, NEW s \in Seq(S)
  PROVE  /\ Reverse(s) \in Seq(S)
         /\ Len(Reverse(s)) = Len(s)
         /\ \A k \in 1..Len(s) : Reverse(s)[k] = s[Len(s) - k + 1]
  BY DEF Reverse

-----------------------------------------------------------------------------
(* The inductive invariant *)

Follower == {t \in Thread : pc[t] \in {"start", "on", "off"}}

\* The drain lock word names the one thread that is between lock and unlock.
LockInv ==
  /\ \A t \in Thread : HoldsLock(t) <=>
       status.state \in {"Running", "Zombie"} /\ status.drainer = t /\ life # "freed"
  /\ status.drainer = NoThread <=> status.state \in {"Idle", "Scheduled"}

\* Each thread follows a task of its own, in the phase its position says.
FollowInv ==
  /\ \A t \in Follower :
       /\ cur[t] \in Job
       /\ phase[cur[t]] = IF pc[t] = "start" THEN "starting" ELSE "running"
  /\ \A t, u \in Follower : cur[t] = cur[u] => t = u

\* Jobs in the two lists are queued, and none is there twice.
QueueInv ==
  /\ \A i \in 1..Len(prioritizedJobs) : phase[prioritizedJobs[i]] = "queued"
  /\ \A i \in 1..Len(status.firstJob) : phase[status.firstJob[i]] = "queued"
  /\ \A i, k \in 1..Len(prioritizedJobs) :
       prioritizedJobs[i] = prioritizedJobs[k] => i = k
  /\ \A i, k \in 1..Len(status.firstJob) :
       status.firstJob[i] = status.firstJob[k] => i = k
  /\ \A i \in 1..Len(prioritizedJobs), k \in 1..Len(status.firstJob) :
       prioritizedJobs[i] # status.firstJob[k]

\* The state of the status word says whether there is work.
StateInv ==
  /\ hasWork => status.state \in {"Scheduled", "Running"}
  /\ status.state = "Scheduled" => hasWork
  /\ status.state = "Idle" => status.maxPriority = Unspecified

\* A task that waits for the actor keeps it alive; an escalator relies on that.
RefInv ==
  /\ \A j \in Job : phase[j] \in {"enqueuing", "queued", "starting"} => j \in holders
  /\ \A j \in Job : esc[j].pc # "none" =>
       phase[j] \in {"enqueuing", "queued", "starting"}
  /\ ~PriorityEscalation =>
       extra = 0 /\ \A j \in Job : esc[j].pc \in {"none", "cas"}

\* Deinit starts when the last reference of any kind is gone.
LifeInv ==
  /\ life # "live" => holders = {} /\ extra = 0 /\ overriders = <<>>
  /\ life = "zombie" => status.state = "Zombie"
  /\ status.state = "Zombie" => life \in {"zombie", "freed"}
  /\ life = "freed" => status.state \in {"Idle", "Zombie"}

IInv ==
  /\ TypeOK
  /\ LockInv
  /\ FollowInv
  /\ QueueInv
  /\ StateInv
  /\ RefInv
  /\ RetainBalance
  /\ LifeInv

-----------------------------------------------------------------------------
(* Types *)

\* The with* helpers of the status word change the fields they name and no other.
LEMMA IdleStatus ==
  ASSUME NEW s \in Status
  PROVE  /\ withIdle(s) \in Status
         /\ withIdle(s).state = "Idle" /\ withIdle(s).drainer = NoThread
         /\ withIdle(s).maxPriority = s.maxPriority
         /\ withIdle(s).firstJob = s.firstJob
  BY DEF Status, withIdle

\* withRunning() names the drainer and keeps list and priority.
LEMMA RunningStatus ==
  ASSUME NEW s \in Status, NEW t \in Thread
  PROVE  /\ withRunning(s, t) \in Status
         /\ withRunning(s, t).state = "Running" /\ withRunning(s, t).drainer = t
         /\ withRunning(s, t).maxPriority = s.maxPriority
         /\ withRunning(s, t).firstJob = s.firstJob
  BY DEF Status, withRunning

\* withScheduled() clears the drainer and keeps list and priority.
LEMMA ScheduledStatus ==
  ASSUME NEW s \in Status
  PROVE  /\ withScheduled(s) \in Status
         /\ withScheduled(s).state = "Scheduled" /\ withScheduled(s).drainer = NoThread
         /\ withScheduled(s).maxPriority = s.maxPriority
         /\ withScheduled(s).firstJob = s.firstJob
  BY DEF Status, withScheduled

\* withZombie() keeps the drainer that is to free the storage.
LEMMA ZombieStatus ==
  ASSUME NEW s \in Status
  PROVE  /\ withZombie(s) \in Status
         /\ withZombie(s).state = "Zombie" /\ withZombie(s).drainer = s.drainer
         /\ withZombie(s).maxPriority = s.maxPriority
         /\ withZombie(s).firstJob = s.firstJob
  BY DEF Status, withZombie

\* withNewPriority() sets the priority and clears the escalated bit.
LEMMA NewPriorityStatus ==
  ASSUME NEW s \in Status, NEW p \in 0..MaxPriority
  PROVE  /\ withNewPriority(s, p) \in Status
         /\ withNewPriority(s, p).state = s.state
         /\ withNewPriority(s, p).drainer = s.drainer
         /\ withNewPriority(s, p).maxPriority = p
         /\ withNewPriority(s, p).firstJob = s.firstJob
  BY DEF Status, withNewPriority

\* withEscalatedPriority() sets the priority and the escalated bit.
LEMMA EscalatedStatus ==
  ASSUME NEW s \in Status, NEW p \in 0..MaxPriority
  PROVE  /\ withEscalatedPriority(s, p) \in Status
         /\ withEscalatedPriority(s, p).state = s.state
         /\ withEscalatedPriority(s, p).drainer = s.drainer
         /\ withEscalatedPriority(s, p).maxPriority = p
         /\ withEscalatedPriority(s, p).firstJob = s.firstJob
  BY DEF Status, withEscalatedPriority

\* withoutEscalatedPriority() clears the escalated bit only.
LEMMA UnescalatedStatus ==
  ASSUME NEW s \in Status
  PROVE  /\ withoutEscalatedPriority(s) \in Status
         /\ withoutEscalatedPriority(s).state = s.state
         /\ withoutEscalatedPriority(s).drainer = s.drainer
         /\ withoutEscalatedPriority(s).maxPriority = s.maxPriority
         /\ withoutEscalatedPriority(s).firstJob = s.firstJob
  BY DEF Status, withoutEscalatedPriority

\* withFirstUnprioritizedJob() replaces the incoming list only.
LEMMA FirstJobStatus ==
  ASSUME NEW s \in Status, NEW q \in Seq(Job)
  PROVE  /\ withFirstUnprioritizedJob(s, q) \in Status
         /\ withFirstUnprioritizedJob(s, q).state = s.state
         /\ withFirstUnprioritizedJob(s, q).drainer = s.drainer
         /\ withFirstUnprioritizedJob(s, q).maxPriority = s.maxPriority
         /\ withFirstUnprioritizedJob(s, q).firstJob = q
  BY DEF Status, withFirstUnprioritizedJob

\* Scheduling adds one well-typed processing job.
LEMMA ScheduleTypes ==
  ASSUME procs \in Seq(Proc), NEW p \in 0..MaxPriority, NEW e \in {"task", "global"},
         scheduleActorProcessJob(p, e)
  PROVE  procs' \in Seq(Proc) /\ Len(procs') = Len(procs) + 1
<1>1. [priority |-> p, executor |-> e] \in Proc
  BY DEF Proc
<1> QED
  BY <1>1, AppendProperties DEF scheduleActorProcessJob

\* unlock() keeps the types of what it writes.
LEMMA UnlockTypes ==
  ASSUME TypeOK, ForceUnlock
  PROVE  /\ status' \in Status
         /\ procs' \in Seq(Proc)
         /\ life' \in {"live", "deinit", "dealloc", "zombie", "freed"}
         /\ qos' \in 0..MaxPriority
<1>1. MaxPriority \in Nat
  BY PriorityAssumption
<1>2. CASE UnlockZombie
  BY <1>1, <1>2 DEF UnlockZombie, TypeOK, Unspecified
<1>3. CASE UnlockToIdle
  BY <1>1, <1>3, IdleStatus, NewPriorityStatus DEF UnlockToIdle, TypeOK, Unspecified, resetPriority
<1>4. CASE UnlockToScheduled
  <2>1. status.maxPriority \in 0..MaxPriority
    BY DEF TypeOK, Status
  <2> QED
    BY <1>1, <1>4, <2>1, ScheduledStatus, UnescalatedStatus, ScheduleTypes
    DEF UnlockToScheduled, TypeOK, Unspecified
<1> QED
  BY <1>2, <1>3, <1>4 DEF ForceUnlock

\* An escalator that goes round its loop again is well typed.
LEMMA EscalatorAgain ==
  ASSUME NEW e \in Escalation
  PROVE  [e EXCEPT !.pc = "cas", !.drainer = NoThread] \in Escalation
  BY DEF Escalation

\* Every step keeps the types.
LEMMA TypeStep == IInv /\ [Next]_vars => TypeOK'
<1> SUFFICES ASSUME IInv, [Next]_vars PROVE TypeOK'
  OBVIOUS
<1> USE DEF IInv, TypeOK, Phase, actorVars, threadVars, taskVars
<1>1. ASSUME NEW t \in Thread, NEW i \in DOMAIN procs, ProcessJob(t, i) PROVE TypeOK'
  <2>1. procs' \in Seq(Proc) /\ procs[i] \in Proc
    BY <1>1, RemoveAtProperties, ElementOfSeq DEF ProcessJob
  <2>2. Len(procs) \in Nat \ {0}
    OBVIOUS
  <2>3. CASE TryLockAsDrainer(t, procs[i].priority) /\ Goes(t, "drain")
             /\ frame' = [frame EXCEPT ![t] = "drain"] /\ UNCHANGED <<extra, life, deiniter>>
    <3>1. status' \in Status
      BY <2>3, RunningStatus, UnescalatedStatus, FirstJobStatus, EmptySeq DEF TryLockAsDrainer
    <3>2. prioritizedJobs' \in Seq(Job)
      BY <2>3, ReverseProperties, ConcatProperties
      DEF TryLockAsDrainer, handleUnprioritizedJobs, Status
    <3>3. qos' \in 0..MaxPriority
      BY <2>1, <2>3, PriorityAssumption DEF TryLockAsDrainer, Higher, Status, Proc
    <3> QED
      BY <1>1, <2>1, <2>3, <3>1, <3>2, <3>3 DEF ProcessJob, Goes
  <2>4. CASE ~(TryLockAsDrainer(t, procs[i].priority) /\ Goes(t, "drain")
               /\ frame' = [frame EXCEPT ![t] = "drain"]
               /\ UNCHANGED <<extra, life, deiniter>>)
    BY <1>1, <2>1, <2>2, <2>4 DEF ProcessJob, StartsDeinit, RetainBalance
  <2> QED
    BY <2>3, <2>4
<1>2. ASSUME NEW t \in Thread, NEW i \in DOMAIN prioritizedJobs, DrainOne(t, i) PROVE TypeOK'
  BY <1>2, RemoveAtProperties, ElementOfSeq DEF DrainOne, Goes
<1>3. ASSUME NEW t \in Thread, StartJob(t) PROVE TypeOK'
  BY <1>3 DEF StartJob, Goes
<1>4. ASSUME NEW t \in Thread, processIncomingQueue(t) PROVE TypeOK'
  <2>1. status' \in Status
    BY <1>4, FirstJobStatus, EmptySeq, Zenon DEF processIncomingQueue
  <2>2. prioritizedJobs' \in Seq(Job)
    BY <1>4, ReverseProperties, ConcatProperties
    DEF processIncomingQueue, handleUnprioritizedJobs, Status
  <2> QED
    BY <1>4, <2>1, <2>2 DEF processIncomingQueue, Goes
<1>5. ASSUME NEW t \in Thread, UnlockDrained(t) PROVE TypeOK'
  <2>1. CASE UnlockZombie \/ UnlockToIdle
    <3>1. /\ status' \in Status /\ procs' \in Seq(Proc) /\ qos' \in 0..MaxPriority
          /\ life' \in {"live", "deinit", "dealloc", "zombie", "freed"}
      BY <2>1, UnlockTypes DEF ForceUnlock
    <3> QED
      BY <1>5, <3>1 DEF UnlockDrained, GoesIdle, Goes
  <2>2. CASE ~(UnlockZombie \/ UnlockToIdle)
    BY <1>5, <2>2 DEF UnlockDrained, Goes
  <2> QED
    BY <2>1, <2>2
<1>6. ASSUME NEW t \in Thread, LeaveJobRun(t) PROVE TypeOK'
  <2>1. /\ status' \in Status /\ procs' \in Seq(Proc) /\ qos' \in 0..MaxPriority
        /\ life' \in {"live", "deinit", "dealloc", "zombie", "freed"}
    BY <1>6, UnlockTypes DEF LeaveJobRun
  <2> QED
    BY <1>6, <2>1 DEF LeaveJobRun, GoesIdle, Goes
<1>7. ASSUME NEW t \in Thread, NEW j \in Job, RunJob(t, j) PROVE TypeOK'
  BY <1>7 DEF RunJob, Goes
<1>8. ASSUME NEW t \in Thread, SwitchToActor(t) PROVE TypeOK'
  <2>1. status' \in Status
    BY <1>8, RunningStatus, UnescalatedStatus DEF SwitchToActor, TryLockUncontended
  <2>2. cur[t] \in Job
    BY <1>8 DEF SwitchToActor, Follows, FollowInv, Follower
  <2>3. hops' \in [Job -> 0..MaxHops]
    BY <1>8, <2>2, ConfigAssumption DEF SwitchToActor, Hops
  <2> QED
    BY <1>8, <2>1, <2>3, PriorityAssumption
    DEF SwitchToActor, TryLockUncontended, Goes, Unspecified
<1>9. ASSUME NEW t \in Thread, SwitchByEnqueue(t) PROVE TypeOK'
  <2>1. cur[t] \in Job
    BY <1>9 DEF SwitchByEnqueue, Follows, FollowInv, Follower
  <2>2. hops' \in [Job -> 0..MaxHops]
    BY <1>9, <2>1, ConfigAssumption DEF SwitchByEnqueue, Hops
  <2> QED
    BY <1>9, <2>1, <2>2
    DEF SwitchByEnqueue, flagAsAndEnqueueOnExecutor, GoesIdle, Goes
<1>10. ASSUME NEW t \in Thread, SwitchFromActor(t) PROVE TypeOK'
  <2>1. /\ status' \in Status /\ procs' \in Seq(Proc) /\ qos' \in 0..MaxPriority
        /\ life' \in {"live", "deinit", "dealloc", "zombie", "freed"}
    BY <1>10, UnlockTypes DEF SwitchFromActor
  <2> QED
    BY <1>10, <2>1 DEF SwitchFromActor, Follows, Goes
<1>11. ASSUME NEW t \in Thread, ReleaseByTask(t) PROVE TypeOK'
  BY <1>11 DEF ReleaseByTask, Follows, StartsDeinit
<1>12. ASSUME NEW t \in Thread, ReturnOnActor(t) PROVE TypeOK'
  BY <1>12 DEF ReturnOnActor, Follows, Goes
<1>13. ASSUME NEW t \in Thread, ReturnOffActor(t) PROVE TypeOK'
  BY <1>13 DEF ReturnOffActor, Follows, GoesIdle, Goes
<1>14. ASSUME NEW j \in Job, ResumeOnActor(j) PROVE TypeOK'
  BY <1>14, ConfigAssumption DEF ResumeOnActor, Hops, flagAsAndEnqueueOnExecutor
<1>15. ASSUME NEW j \in Job, Enqueue(j) PROVE TypeOK'
  <2> DEFINE pushed == withFirstUnprioritizedJob(status, <<j>> \o status.firstJob)
  <2>1. jobPriority[j] \in Priority /\ jobPriority[j] \in 0..MaxPriority
    BY PriorityAssumption DEF Priority
  <2>2. status.firstJob \in Seq(Job) /\ status.drainer \in Thread \cup {NoThread}
    BY DEF Status
  <2>3. <<j>> \o status.firstJob \in Seq(Job)
    BY <2>2
  <2>4. pushed \in Status
    BY <2>3, FirstJobStatus
  <2> HIDE DEF pushed
  <2>5. status' \in Status
    <3>1. withNewPriority(withScheduled(pushed), jobPriority[j]) \in Status
      BY <2>1, <2>4, ScheduledStatus, NewPriorityStatus
    <3>2. withEscalatedPriority(pushed, jobPriority[j]) \in Status
      BY <2>1, <2>4, EscalatedStatus
    <3> QED
      BY <1>15, <2>4, <3>1, <3>2 DEF Enqueue, pushed
  <2>6. /\ procs' \in Seq(Proc)
        /\ extra' \in Nat
        /\ overriders' \in Seq(Overrider)
    <3>1. \A e \in {"task", "global"} : scheduleActorProcessJob(jobPriority[j], e) =>
            procs' \in Seq(Proc)
      BY <2>1, ScheduleTypes
    <3>2. [drainer |-> status.drainer, priority |-> jobPriority[j]] \in Overrider
      BY <2>1, <2>2 DEF Overrider
    <3>3. Append(overriders, [drainer |-> status.drainer, priority |-> jobPriority[j]])
            \in Seq(Overrider)
      BY <3>2, AppendProperties
    <3>4. procs' \in Seq(Proc)
      BY <1>15, <3>1 DEF Enqueue, fromTaskExecutorPreference
    <3>5. extra' \in Nat
      BY <1>15 DEF Enqueue
    <3>6. overriders' \in Seq(Overrider)
      BY <1>15, <3>3 DEF Enqueue
    <3> QED
      BY <3>4, <3>5, <3>6
  <2> QED
    BY <1>15, <2>5, <2>6 DEF Enqueue
<1>16. ASSUME NEW j \in Job, NEW p \in Priority, TaskEscalate(j, p) PROVE TypeOK'
  BY <1>16, PriorityAssumption DEF TaskEscalate, Priority, Escalation
<1>17. ASSUME NEW j \in Job, EnqueueStealer(j) PROVE TypeOK'
  <2>1. esc[j].priority \in 0..MaxPriority
    BY DEF Escalation
  <2>2. status' \in Status
    BY <1>17, <2>1, EscalatedStatus DEF EnqueueStealer
  <2>3. status.drainer \in Thread \cup {NoThread}
    BY DEF Status
  <2>4. esc' \in [Job -> Escalation]
    <3>1. NoEscalation \in Escalation
      BY PriorityAssumption DEF Escalation, NoEscalation, Unspecified
    <3>2. \A w \in {"cas", "override", "steal"}, d \in Thread \cup {NoThread} :
            [pc |-> w, priority |-> esc[j].priority, drainer |-> d] \in Escalation
      BY <2>1 DEF Escalation
    <3>3. PICK e \in Escalation : esc' = [esc EXCEPT ![j] = e]
      <4>1. CASE esc' = [esc EXCEPT ![j] = NoEscalation]
        BY <3>1, <4>1
      <4>2. CASE esc' # [esc EXCEPT ![j] = NoEscalation]
        <5> DEFINE w == IF ~PriorityEscalation THEN "cas"
                        ELSE IF status.state = "Running" THEN "override"
                        ELSE IF status.state = "Scheduled" THEN "steal" ELSE "cas"
                   d == IF PriorityEscalation THEN status.drainer ELSE NoThread
        <5>1. w \in {"cas", "override", "steal"} /\ d \in Thread \cup {NoThread}
          BY <2>3
        <5>2. esc' = [esc EXCEPT ![j] =
                        [pc |-> w, priority |-> esc[j].priority, drainer |-> d]]
          BY <1>17, <4>2 DEF EnqueueStealer
        <5> HIDE DEF w, d
        <5> QED
          BY <3>2, <5>1, <5>2
      <4> QED
        BY <4>1, <4>2
    <3> QED
      BY <3>3
  <2> QED
    BY <1>17, <2>2, <2>4 DEF EnqueueStealer
<1>18. ASSUME NEW j \in Job, StealerOverride(j) PROVE TypeOK'
  <2>1. esc[j].priority \in 0..MaxPriority /\ qos \in 0..MaxPriority
    BY DEF Escalation
  <2>2. qos' \in 0..MaxPriority
    BY <1>18, <2>1, PriorityAssumption DEF StealerOverride, OverrideStart, Higher
  <2>3. esc' \in [Job -> Escalation]
    <3>1. [esc[j] EXCEPT !.pc = "cas", !.drainer = NoThread] \in Escalation
      BY EscalatorAgain
    <3>2. esc' = [esc EXCEPT ![j] = [esc[j] EXCEPT !.pc = "cas", !.drainer = NoThread]]
      BY <1>18, Zenon DEF StealerOverride
    <3> QED
      BY <3>1, <3>2
  <2> QED
    BY <1>18, <2>2, <2>3 DEF StealerOverride
<1>19. ASSUME NEW j \in Job, StealerSchedule(j) PROVE TypeOK'
  <2>1. procs' \in Seq(Proc)
    BY <1>19, ScheduleTypes DEF StealerSchedule, fromTaskExecutorPreference, Escalation
  <2>2. [esc[j] EXCEPT !.pc = "cas", !.drainer = NoThread] \in Escalation
    BY EscalatorAgain
  <2>3. esc' \in [Job -> Escalation]
    BY <1>19, <2>2 DEF StealerSchedule
  <2> QED
    BY <1>19, <2>1, <2>3 DEF StealerSchedule
<1>20. ASSUME NEW i \in DOMAIN overriders, FinishEnqueue(i) PROVE TypeOK'
  <2>1. overriders' \in Seq(Overrider) /\ overriders[i] \in Overrider
    BY <1>20, RemoveAtProperties, ElementOfSeq DEF FinishEnqueue
  <2>2. qos' \in 0..MaxPriority
    BY <1>20, <2>1, PriorityAssumption DEF FinishEnqueue, OverrideStart, Higher,
       Overrider, Priority
  <2> QED
    BY <1>20, <2>1, <2>2 DEF FinishEnqueue, StartsDeinit
<1>21. ASSUME ReleaseByOthers PROVE TypeOK'
  BY <1>21 DEF ReleaseByOthers, StartsDeinit
<1>22. ASSUME Destroy PROVE TypeOK'
  BY <1>22 DEF Destroy
<1>23. ASSUME Deallocate PROVE TypeOK'
  BY <1>23, ZombieStatus DEF Deallocate
<1>24. CASE UNCHANGED vars
  BY <1>24 DEF vars
<1> QED
  BY <1>1, <1>2, <1>3, <1>4, <1>5, <1>6, <1>7, <1>8, <1>9, <1>10, <1>11, <1>12, <1>13, <1>14, <1>15, <1>16, <1>17, <1>18, <1>19, <1>20, <1>21, <1>22, <1>23, <1>24 DEF Next, ThreadStep, Drain, UserCode, Returns, TaskStep,
     StealerStep, ObjectStep

-----------------------------------------------------------------------------
(* Effects on the status word *)

\* What the exchange of each operation does to the fields of the status word.
LEMMA LockAsDrainerEffect ==
  ASSUME TypeOK, NEW t \in Thread, NEW p, TryLockAsDrainer(t, p)
  PROVE  /\ status'.state = "Running" /\ status'.drainer = t
         /\ status'.maxPriority = status.maxPriority /\ status'.firstJob = <<>>
<1>1. status \in Status /\ <<>> \in Seq(Job)
  BY EmptySeq DEF TypeOK
<1>2. withRunning(status, t) \in Status
  BY <1>1, RunningStatus
<1>3. withoutEscalatedPriority(withRunning(status, t)) \in Status
  BY <1>2, UnescalatedStatus
<1> DEFINE u == withoutEscalatedPriority(withRunning(status, t))
<1>4. u.state = "Running" /\ u.drainer = t /\ u.maxPriority = status.maxPriority
  BY <1>1, <1>2, RunningStatus, UnescalatedStatus
<1>5. status' = withFirstUnprioritizedJob(u, <<>>)
  BY DEF TryLockAsDrainer
<1> HIDE DEF u
<1>6. u \in Status
  BY <1>3 DEF u
<1> QED
  BY <1>1, <1>4, <1>5, <1>6, FirstJobStatus

\* The switch fast path of tryLock() takes the lock and leaves the list alone.
LEMMA LockUncontendedEffect ==
  ASSUME TypeOK, NEW t \in Thread, TryLockUncontended(t)
  PROVE  /\ status'.state = "Running" /\ status'.drainer = t
         /\ status'.maxPriority = status.maxPriority
         /\ status'.firstJob = status.firstJob
<1>1. status \in Status
  BY DEF TypeOK
<1>2. withRunning(status, t) \in Status
  BY <1>1, RunningStatus
<1> QED
  BY <1>1, <1>2, RunningStatus, UnescalatedStatus DEF TryLockUncontended

\* unlock(true) frees a zombie, goes idle without work, or schedules one more job.
LEMMA UnlockEffect ==
  ASSUME TypeOK, ForceUnlock
  PROVE  \/ status.state = "Zombie" /\ status' = status /\ procs' = procs /\ life' = "freed"
         \/ /\ status.state # "Zombie" /\ ~hasWork
            /\ status'.state = "Idle" /\ status'.drainer = NoThread
            /\ status'.maxPriority = Unspecified /\ status'.firstJob = status.firstJob
            /\ procs' = procs /\ life' = life
         \/ /\ status.state # "Zombie" /\ hasWork
            /\ status'.state = "Scheduled" /\ status'.drainer = NoThread
            /\ status'.maxPriority = status.maxPriority
            /\ status'.firstJob = status.firstJob
            /\ Len(procs') = Len(procs) + 1 /\ life' = life
<1>1. MaxPriority \in Nat
  BY PriorityAssumption
<1>2. CASE UnlockZombie
  BY <1>2 DEF UnlockZombie
<1>3. CASE UnlockToIdle
  <2>1. status \in Status /\ Unspecified \in 0..MaxPriority
    BY <1>1 DEF TypeOK, Unspecified
  <2>2. withIdle(status) \in Status
    BY <2>1, IdleStatus
  <2> QED
    BY <1>3, <2>1, <2>2, IdleStatus, NewPriorityStatus DEF UnlockToIdle, resetPriority
<1>4. CASE UnlockToScheduled
  <2>1. status.maxPriority \in 0..MaxPriority
    BY DEF TypeOK, Status
  <2>2. Len(procs') = Len(procs) + 1
    BY <1>4, <2>1, ScheduleTypes DEF UnlockToScheduled, TypeOK
  <2>3. status \in Status
    BY DEF TypeOK
  <2>4. withScheduled(status) \in Status
    BY <2>3, ScheduledStatus
  <2> QED
    BY <1>4, <2>2, <2>3, <2>4, ScheduledStatus, UnescalatedStatus DEF UnlockToScheduled
<1> QED
  BY <1>2, <1>3, <1>4 DEF ForceUnlock

\* enqueue() pushes one job and schedules, raises or leaves the actor.
LEMMA EnqueueEffect ==
  ASSUME TypeOK, NEW j \in Job, Enqueue(j)
  PROVE  /\ status'.state = (IF status.state = "Idle" THEN "Scheduled" ELSE status.state)
         /\ status'.drainer = (IF status.state = "Idle" THEN NoThread ELSE status.drainer)
         /\ status'.firstJob = <<j>> \o status.firstJob
         /\ \/ Len(procs') = Len(procs) + 1 /\ extra' = extra /\ status.state = "Idle"
            \/ /\ Len(procs') = Len(procs) + 1 /\ extra' = extra + 1
               /\ status.state # "Idle" /\ PriorityEscalation
            \/ procs' = procs /\ extra' = extra /\ status.state # "Idle"
<1> DEFINE pushed == withFirstUnprioritizedJob(status, <<j>> \o status.firstJob)
<1>1. jobPriority[j] \in 0..MaxPriority
  BY PriorityAssumption DEF TypeOK, Priority
<1>2. <<j>> \o status.firstJob \in Seq(Job)
  BY DEF TypeOK, Status
<1>3. /\ pushed \in Status /\ pushed.state = status.state
      /\ pushed.drainer = status.drainer /\ pushed.firstJob = <<j>> \o status.firstJob
  BY <1>2, FirstJobStatus DEF TypeOK
<1> HIDE DEF pushed
<1>4. /\ withScheduled(pushed) \in Status
      /\ withNewPriority(withScheduled(pushed), jobPriority[j]).state = "Scheduled"
      /\ withNewPriority(withScheduled(pushed), jobPriority[j]).drainer = NoThread
      /\ withNewPriority(withScheduled(pushed), jobPriority[j]).firstJob = pushed.firstJob
  BY <1>1, <1>3, ScheduledStatus, NewPriorityStatus
<1>5. /\ withEscalatedPriority(pushed, jobPriority[j]).state = pushed.state
      /\ withEscalatedPriority(pushed, jobPriority[j]).drainer = pushed.drainer
      /\ withEscalatedPriority(pushed, jobPriority[j]).firstJob = pushed.firstJob
  BY <1>1, <1>3, EscalatedStatus
<1>6. \A e \in {"task", "global"} : scheduleActorProcessJob(jobPriority[j], e) =>
        Len(procs') = Len(procs) + 1
  BY <1>1, ScheduleTypes DEF TypeOK
<1>7. \/ status' = withNewPriority(withScheduled(pushed), jobPriority[j])
         /\ status.state = "Idle"
      \/ status' = withEscalatedPriority(pushed, jobPriority[j]) /\ status.state # "Idle"
      \/ status' = pushed /\ status.state # "Idle"
  BY DEF Enqueue, pushed
<1>8. \/ Len(procs') = Len(procs) + 1 /\ extra' = extra /\ status.state = "Idle"
      \/ /\ Len(procs') = Len(procs) + 1 /\ extra' = extra + 1
         /\ status.state # "Idle" /\ PriorityEscalation
      \/ procs' = procs /\ extra' = extra /\ status.state # "Idle"
  BY <1>6 DEF Enqueue, fromTaskExecutorPreference
<1> QED
  BY <1>3, <1>4, <1>5, <1>7, <1>8

\* enqueueStealer() changes nothing of the word but its priority.
LEMMA EnqueueStealerEffect ==
  ASSUME TypeOK, NEW j \in Job, EnqueueStealer(j)
  PROVE  /\ status'.state = status.state /\ status'.drainer = status.drainer
         /\ status'.firstJob = status.firstJob
         /\ status.state = "Idle" => status'.maxPriority = status.maxPriority
<1>1. esc[j].priority \in 0..MaxPriority
  BY DEF TypeOK, Escalation
<1> QED
  BY <1>1, EscalatedStatus DEF TypeOK, EnqueueStealer

\* deallocate() turns a running actor into a zombie and frees any other.
LEMMA DeallocateEffect ==
  ASSUME TypeOK, Deallocate
  PROVE  /\ status'.state = (IF status.state = "Running" THEN "Zombie" ELSE status.state)
         /\ status'.drainer = status.drainer /\ status'.firstJob = status.firstJob
         /\ status'.maxPriority = status.maxPriority
  BY ZombieStatus DEF TypeOK, Deallocate

-----------------------------------------------------------------------------
(* The lock, the queue and the references *)

\* A processing job either takes a scheduled actor or gives back an extra retain.
LEMMA ProcessJobEffect ==
  ASSUME IInv, NEW t \in Thread, NEW i \in DOMAIN procs, ProcessJob(t, i)
  PROVE  /\ pc[t] = "idle" /\ Len(procs') = Len(procs) - 1
         /\ \/ /\ status.state = "Scheduled"
               /\ status'.state = "Running" /\ status'.drainer = t
               /\ status'.maxPriority = status.maxPriority /\ status'.firstJob = <<>>
               /\ prioritizedJobs' = prioritizedJobs \o Reverse(status.firstJob)
               /\ pc' = [pc EXCEPT ![t] = "drain"]
               /\ UNCHANGED <<extra, life>>
            \/ /\ status.state # "Scheduled" /\ PriorityEscalation
               /\ extra \in Nat \ {0} /\ extra' = extra - 1
               /\ StartsDeinit(holders, extra - 1, overriders, NoThread)
               /\ UNCHANGED <<status, prioritizedJobs, pc>>
<1>1. procs \in Seq(Proc) /\ i \in 1..Len(procs)
  BY DEF IInv, TypeOK
<1>2. Len(procs') = Len(procs) - 1
  BY <1>1, RemoveAtProperties DEF ProcessJob
<1>3. ~PriorityEscalation => status.state = "Scheduled"
  BY <1>1 DEF IInv, RetainBalance, RefInv
<1>4. status.state # "Scheduled" => extra \in Nat \ {0}
  BY <1>1 DEF IInv, RetainBalance
<1>5. ASSUME TryLockAsDrainer(t, procs[i].priority)
      PROVE  /\ status.state = "Scheduled"
             /\ status'.state = "Running" /\ status'.drainer = t
             /\ status'.maxPriority = status.maxPriority /\ status'.firstJob = <<>>
             /\ prioritizedJobs' = prioritizedJobs \o Reverse(status.firstJob)
  <2>1. status.state = "Scheduled"
    BY <1>3, <1>5, ConfigAssumption DEF TryLockAsDrainer
  <2> QED
    BY <1>5, <2>1, LockAsDrainerEffect
    DEF IInv, TryLockAsDrainer, handleUnprioritizedJobs
<1> QED
  BY <1>2, <1>4, <1>5 DEF ProcessJob, Goes

\* Claiming the incoming list leaves the rest of the status word alone.
LEMMA IncomingEffect ==
  ASSUME TypeOK, NEW t \in Thread, processIncomingQueue(t)
  PROVE  /\ status'.state = status.state /\ status'.drainer = status.drainer
         /\ status'.maxPriority = status.maxPriority /\ status'.firstJob = <<>>
         /\ prioritizedJobs' = prioritizedJobs \o Reverse(status.firstJob)
<1>1. status \in Status /\ <<>> \in Seq(Job)
  BY EmptySeq DEF TypeOK
<1>2. status' = withFirstUnprioritizedJob(status, <<>>)
  BY DEF processIncomingQueue
<1>3. prioritizedJobs' = prioritizedJobs \o Reverse(status.firstJob)
  BY DEF processIncomingQueue, handleUnprioritizedJobs
<1> QED
  BY <1>1, <1>2, <1>3, FirstJobStatus

\* The drain loop's unlock() gives the actor up or keeps it to collect more jobs.
LEMMA UnlockDrainedEffect ==
  ASSUME NEW t \in Thread, UnlockDrained(t)
  PROVE  \/ ForceUnlock /\ GoesIdle(t)
         \/ Goes(t, "incoming") /\ UNCHANGED <<status, procs, life, cur, frame>>
  BY DEF UnlockDrained, ForceUnlock

\* Every step keeps the lock word in step with the threads.
LEMMA LockStep == IInv /\ [Next]_vars => LockInv'
<1> SUFFICES ASSUME IInv, [Next]_vars PROVE LockInv'
  OBVIOUS
<1> USE DEF IInv, LockInv, HoldsLock, actorVars, threadVars, taskVars
<1>1. ASSUME NEW t \in Thread, NEW i \in DOMAIN procs, ProcessJob(t, i) PROVE LockInv'
  <2>1. life # "freed"
    BY <1>1, ProcessJobEffect, EmptySeq DEF IInv, LifeInv, RetainBalance, StateInv, TypeOK
  <2>2. CASE pc' = pc
    BY <1>1, <2>1, <2>2, ProcessJobEffect DEF TypeOK, StartsDeinit
  <2>3. CASE pc' # pc
    <3>1. /\ status.state = "Scheduled" /\ status'.state = "Running"
          /\ status'.drainer = t /\ pc' = [pc EXCEPT ![t] = "drain"] /\ life' = life
      BY <1>1, <2>3, ProcessJobEffect
    <3> QED
      BY <2>1, <3>1, NameAssumption DEF TypeOK
  <2> QED
    BY <2>2, <2>3
<1>2. ASSUME NEW t \in Thread, NEW i \in DOMAIN prioritizedJobs, DrainOne(t, i) PROVE LockInv'
  BY <1>2 DEF DrainOne, Goes, TypeOK
<1>3. ASSUME NEW t \in Thread, StartJob(t) PROVE LockInv'
  BY <1>3 DEF StartJob, Goes, TypeOK
<1>4. ASSUME NEW t \in Thread, processIncomingQueue(t) PROVE LockInv'
  BY <1>4, IncomingEffect DEF processIncomingQueue, Goes, TypeOK
<1>5. ASSUME NEW t \in Thread, UnlockDrained(t) PROVE LockInv'
  <2>1. pc[t] = "drain" /\ status.drainer = t
    BY <1>5 DEF UnlockDrained, TypeOK
  <2>2. CASE ForceUnlock /\ GoesIdle(t)
    BY <2>1, <2>2, UnlockEffect DEF GoesIdle, Goes, TypeOK
  <2>3. CASE Goes(t, "incoming") /\ UNCHANGED <<status, procs, life, cur, frame>>
    BY <2>1, <2>3 DEF Goes, TypeOK
  <2> QED
    BY <1>5, <2>2, <2>3, UnlockDrainedEffect
<1>6. ASSUME NEW t \in Thread, LeaveJobRun(t) PROVE LockInv'
  <2>1. pc[t] \in {"drain", "on", "leave"} /\ status.drainer = t
    BY <1>6 DEF LeaveJobRun, Follows, TypeOK
  <2> QED
    BY <1>6, <2>1, UnlockEffect DEF LeaveJobRun, GoesIdle, Goes, TypeOK
<1>7. ASSUME NEW t \in Thread, NEW j \in Job, RunJob(t, j) PROVE LockInv'
  BY <1>7 DEF RunJob, Goes, TypeOK
<1>8. ASSUME NEW t \in Thread, SwitchToActor(t) PROVE LockInv'
  <2>1. life = "live" /\ pc[t] = "off" /\ status.state = "Idle"
    BY <1>8 DEF SwitchToActor, Follows, TryLockUncontended, LifeInv, TypeOK, Status
  <2> QED
    BY <1>8, <2>1, LockUncontendedEffect, NameAssumption DEF SwitchToActor, Goes, TypeOK
<1>9. ASSUME NEW t \in Thread, SwitchByEnqueue(t) PROVE LockInv'
  BY <1>9 DEF SwitchByEnqueue, Follows, Hops, flagAsAndEnqueueOnExecutor, GoesIdle, Goes, TypeOK
<1>10. ASSUME NEW t \in Thread, SwitchFromActor(t) PROVE LockInv'
  <2>1. pc[t] \in {"drain", "on", "leave"} /\ status.drainer = t
    BY <1>10 DEF SwitchFromActor, Follows, TypeOK
  <2> QED
    BY <1>10, <2>1, UnlockEffect DEF SwitchFromActor, GoesIdle, Goes, TypeOK
<1>11. ASSUME NEW t \in Thread, ReleaseByTask(t) PROVE LockInv'
  BY <1>11 DEF ReleaseByTask, Follows, StartsDeinit, LifeInv
<1>12. ASSUME NEW t \in Thread, ReturnOnActor(t) PROVE LockInv'
  BY <1>12 DEF ReturnOnActor, Follows, Goes, TypeOK
<1>13. ASSUME NEW t \in Thread, ReturnOffActor(t) PROVE LockInv'
  BY <1>13 DEF ReturnOffActor, Follows, GoesIdle, Goes, TypeOK
<1>14. ASSUME NEW j \in Job, ResumeOnActor(j) PROVE LockInv'
  BY <1>14 DEF ResumeOnActor, Hops, flagAsAndEnqueueOnExecutor
<1>15. ASSUME NEW j \in Job, Enqueue(j) PROVE LockInv'
  <2>1. life = "live"
    BY <1>15 DEF Enqueue, RefInv, LifeInv
  <2> QED
    BY <1>15, <2>1, EnqueueEffect, NameAssumption DEF Enqueue
<1>16. ASSUME NEW j \in Job, NEW p \in Priority, TaskEscalate(j, p) PROVE LockInv'
  BY <1>16 DEF TaskEscalate
<1>17. ASSUME NEW j \in Job, EnqueueStealer(j) PROVE LockInv'
  BY <1>17, EnqueueStealerEffect DEF EnqueueStealer
<1>18. ASSUME NEW j \in Job, StealerOverride(j) PROVE LockInv'
  BY <1>18 DEF StealerOverride, OverrideStart
<1>19. ASSUME NEW j \in Job, StealerSchedule(j) PROVE LockInv'
  BY <1>19 DEF StealerSchedule, scheduleActorProcessJob, fromTaskExecutorPreference
<1>20. ASSUME NEW i \in DOMAIN overriders, FinishEnqueue(i) PROVE LockInv'
  BY <1>20 DEF FinishEnqueue, OverrideStart, StartsDeinit, LifeInv
<1>21. ASSUME ReleaseByOthers PROVE LockInv'
  BY <1>21 DEF ReleaseByOthers, StartsDeinit, LifeInv
<1>22. ASSUME Destroy PROVE LockInv'
  BY <1>22 DEF Destroy
<1>23. ASSUME Deallocate PROVE LockInv'
  BY <1>23, DeallocateEffect DEF Deallocate, LifeInv
<1>24. CASE UNCHANGED vars
  BY <1>24 DEF vars
<1> QED
  BY <1>1, <1>2, <1>3, <1>4, <1>5, <1>6, <1>7, <1>8, <1>9, <1>10, <1>11, <1>12, <1>13, <1>14, <1>15, <1>16, <1>17, <1>18, <1>19, <1>20, <1>21, <1>22, <1>23, <1>24 DEF Next, ThreadStep, Drain, UserCode, Returns, TaskStep,
     StealerStep, ObjectStep

\* A thread that finds a queued job finds one nobody follows.
LEMMA DrainOneEffect ==
  ASSUME IInv, NEW t \in Thread, NEW i \in DOMAIN prioritizedJobs, DrainOne(t, i)
  PROVE  /\ prioritizedJobs[i] \in Job /\ phase[prioritizedJobs[i]] = "queued"
         /\ prioritizedJobs' \in Seq(Job)
         /\ Len(prioritizedJobs') = Len(prioritizedJobs) - 1
         /\ \A k \in 1..Len(prioritizedJobs') :
              prioritizedJobs'[k] = IF k < i THEN prioritizedJobs[k]
                                             ELSE prioritizedJobs[k + 1]
<1>1. prioritizedJobs \in Seq(Job) /\ i \in 1..Len(prioritizedJobs)
  BY DEF IInv, TypeOK
<1>2. prioritizedJobs[i] \in Job
  BY <1>1, ElementOfSeq
<1>3. phase[prioritizedJobs[i]] = "queued"
  BY <1>1 DEF IInv, QueueInv
<1>4. prioritizedJobs' = RemoveAt(prioritizedJobs, i)
  BY DEF DrainOne
<1> QED
  BY <1>1, <1>2, <1>3, <1>4, RemoveAtProperties

\* Without references nobody waits, so there is no work.
LEMMA NoWorkWithoutHolders ==
  ASSUME IInv, holders = {}
  PROVE  /\ ~hasWork
         /\ \A j \in Job : phase[j] \notin {"enqueuing", "queued", "starting"}
         /\ \A j \in Job : esc[j].pc = "none"
<1>1. \A j \in Job : phase[j] \notin {"enqueuing", "queued", "starting"}
  BY DEF IInv, RefInv
<1>2. prioritizedJobs \in Seq(Job) /\ status.firstJob \in Seq(Job)
  BY DEF IInv, TypeOK, Status
<1>3. prioritizedJobs = <<>>
  <2> SUFFICES ASSUME prioritizedJobs # <<>> PROVE FALSE
    OBVIOUS
  <2>1. 1 \in 1..Len(prioritizedJobs)
    BY <1>2, EmptySeq
  <2> QED
    BY <1>1, <1>2, <2>1, ElementOfSeq DEF IInv, QueueInv
<1>4. status.firstJob = <<>>
  <2> SUFFICES ASSUME status.firstJob # <<>> PROVE FALSE
    OBVIOUS
  <2>1. 1 \in 1..Len(status.firstJob)
    BY <1>2, EmptySeq
  <2> QED
    BY <1>1, <1>2, <2>1, ElementOfSeq DEF IInv, QueueInv
<1> QED
  BY <1>1, <1>3, <1>4 DEF hasWork, IInv, RefInv

\* Appending the reversed incoming list to the claimed jobs keeps every job.
LEMMA ClaimProperties ==
  ASSUME NEW a \in Seq(Job), NEW b \in Seq(Job)
  PROVE  /\ a \o Reverse(b) \in Seq(Job)
         /\ Len(a \o Reverse(b)) = Len(a) + Len(b)
         /\ \A k \in 1..(Len(a) + Len(b)) :
              (a \o Reverse(b))[k] = IF k <= Len(a) THEN a[k]
                                     ELSE b[Len(a) + Len(b) - k + 1]
         /\ a = <<>> /\ b = <<>> => a \o Reverse(b) = <<>>
<1> DEFINE r == Reverse(b)
<1>1. /\ r \in Seq(Job) /\ Len(r) = Len(b)
      /\ \A k \in 1..Len(b) : r[k] = b[Len(b) - k + 1]
  BY ReverseProperties
<1> HIDE DEF r
<1>2. /\ a \o r \in Seq(Job) /\ Len(a \o r) = Len(a) + Len(r)
      /\ \A k \in 1..(Len(a) + Len(r)) :
           (a \o r)[k] = IF k <= Len(a) THEN a[k] ELSE r[k - Len(a)]
  <2>1. r \in Seq(Job)
    BY <1>1
  <2> QED
    BY <2>1, ConcatProperties, Zenon
<1>3. ASSUME NEW k \in 1..(Len(a) + Len(b)), ~(k <= Len(a))
      PROVE  r[k - Len(a)] = b[Len(a) + Len(b) - k + 1]
  <2>1. k - Len(a) \in 1..Len(b)
    BY <1>3
  <2>2. r[k - Len(a)] = b[Len(b) - (k - Len(a)) + 1]
    BY <1>1, <2>1
  <2>3. Len(b) - (k - Len(a)) + 1 = Len(a) + Len(b) - k + 1
    OBVIOUS
  <2> QED
    BY <2>2, <2>3
<1>4. a = <<>> /\ b = <<>> => a \o r = <<>>
  BY <1>1, <1>2, EmptySeq
<1> QED
  BY <1>1, <1>2, <1>3, <1>4 DEF r

\* Every step keeps each thread with a task of its own.
LEMMA FollowStep == IInv /\ [Next]_vars => FollowInv'
<1> SUFFICES ASSUME IInv, [Next]_vars PROVE FollowInv'
  OBVIOUS
<1> USE DEF IInv, FollowInv, Follower, actorVars, threadVars, taskVars
<1>1. ASSUME NEW t \in Thread, NEW i \in DOMAIN procs, ProcessJob(t, i) PROVE FollowInv'
  <2>1. pc[t] = "idle" /\ (pc' = pc \/ pc' = [pc EXCEPT ![t] = "drain"])
    BY <1>1, ProcessJobEffect DEF IInv
  <2>2. UNCHANGED <<cur, phase>>
    BY <1>1 DEF ProcessJob
  <2>3. \A u \in Follower' : u \in Follower /\ pc'[u] = pc[u] /\ cur'[u] = cur[u]
    BY <2>1, <2>2 DEF TypeOK
  <2> QED
    BY <2>2, <2>3
<1>2. ASSUME NEW t \in Thread, NEW i \in DOMAIN prioritizedJobs, DrainOne(t, i) PROVE FollowInv'
  <2>1. prioritizedJobs[i] \in Job /\ phase[prioritizedJobs[i]] = "queued"
    BY <1>2, DrainOneEffect
  <2> QED
    BY <1>2, <2>1 DEF DrainOne, Goes, TypeOK
<1>3. ASSUME NEW t \in Thread, StartJob(t) PROVE FollowInv'
  BY <1>3 DEF StartJob, Goes, TypeOK
<1>4. ASSUME NEW t \in Thread, processIncomingQueue(t) PROVE FollowInv'
  BY <1>4 DEF processIncomingQueue, handleUnprioritizedJobs, Goes, TypeOK
<1>5. ASSUME NEW t \in Thread, UnlockDrained(t) PROVE FollowInv'
  <2>1. pc' = [pc EXCEPT ![t] = "idle"] \/ pc' = [pc EXCEPT ![t] = "incoming"]
    BY <1>5, UnlockDrainedEffect DEF GoesIdle, Goes
  <2>2. cur' = [cur EXCEPT ![t] = NoJob] \/ cur' = cur
    BY <1>5, UnlockDrainedEffect DEF GoesIdle
  <2>3. phase' = phase
    BY <1>5 DEF UnlockDrained
  <2>4. \A u \in Follower' : u \in Follower /\ pc'[u] = pc[u] /\ cur'[u] = cur[u]
    BY <2>1, <2>2 DEF TypeOK
  <2> QED
    BY <2>3, <2>4
<1>6. ASSUME NEW t \in Thread, LeaveJobRun(t) PROVE FollowInv'
  BY <1>6 DEF LeaveJobRun, ForceUnlock, UnlockZombie, UnlockToIdle, UnlockToScheduled, scheduleActorProcessJob, GoesIdle, Goes, TypeOK
<1>7. ASSUME NEW t \in Thread, NEW j \in Job, RunJob(t, j) PROVE FollowInv'
  BY <1>7 DEF RunJob, Goes, TypeOK
<1>8. ASSUME NEW t \in Thread, SwitchToActor(t) PROVE FollowInv'
  BY <1>8 DEF SwitchToActor, Follows, Hops, TryLockUncontended, Goes, TypeOK
<1>9. ASSUME NEW t \in Thread, SwitchByEnqueue(t) PROVE FollowInv'
  BY <1>9 DEF SwitchByEnqueue, Follows, Hops, flagAsAndEnqueueOnExecutor, GoesIdle, Goes, TypeOK
<1>10. ASSUME NEW t \in Thread, SwitchFromActor(t) PROVE FollowInv'
  BY <1>10 DEF SwitchFromActor, Follows, ForceUnlock, UnlockZombie, UnlockToIdle, UnlockToScheduled, scheduleActorProcessJob, Goes, TypeOK
<1>11. ASSUME NEW t \in Thread, ReleaseByTask(t) PROVE FollowInv'
  BY <1>11 DEF ReleaseByTask, Follows, StartsDeinit
<1>12. ASSUME NEW t \in Thread, ReturnOnActor(t) PROVE FollowInv'
  BY <1>12 DEF ReturnOnActor, Follows, Goes, TypeOK
<1>13. ASSUME NEW t \in Thread, ReturnOffActor(t) PROVE FollowInv'
  BY <1>13 DEF ReturnOffActor, Follows, GoesIdle, Goes, TypeOK
<1>14. ASSUME NEW j \in Job, ResumeOnActor(j) PROVE FollowInv'
  BY <1>14 DEF ResumeOnActor, Hops, flagAsAndEnqueueOnExecutor, TypeOK
<1>15. ASSUME NEW j \in Job, Enqueue(j) PROVE FollowInv'
  BY <1>15 DEF Enqueue, scheduleActorProcessJob, fromTaskExecutorPreference, TypeOK
<1>16. ASSUME NEW j \in Job, NEW p \in Priority, TaskEscalate(j, p) PROVE FollowInv'
  BY <1>16 DEF TaskEscalate
<1>17. ASSUME NEW j \in Job, EnqueueStealer(j) PROVE FollowInv'
  BY <1>17 DEF EnqueueStealer, NoEscalation
<1>18. ASSUME NEW j \in Job, StealerOverride(j) PROVE FollowInv'
  BY <1>18 DEF StealerOverride, OverrideStart
<1>19. ASSUME NEW j \in Job, StealerSchedule(j) PROVE FollowInv'
  BY <1>19 DEF StealerSchedule, scheduleActorProcessJob, fromTaskExecutorPreference
<1>20. ASSUME NEW i \in DOMAIN overriders, FinishEnqueue(i) PROVE FollowInv'
  BY <1>20 DEF FinishEnqueue, OverrideStart, StartsDeinit
<1>21. ASSUME ReleaseByOthers PROVE FollowInv'
  BY <1>21 DEF ReleaseByOthers, StartsDeinit
<1>22. ASSUME Destroy PROVE FollowInv'
  BY <1>22 DEF Destroy
<1>23. ASSUME Deallocate PROVE FollowInv'
  BY <1>23 DEF Deallocate
<1>24. CASE UNCHANGED vars
  BY <1>24 DEF vars
<1> QED
  BY <1>1, <1>2, <1>3, <1>4, <1>5, <1>6, <1>7, <1>8, <1>9, <1>10, <1>11, <1>12, <1>13, <1>14, <1>15, <1>16, <1>17, <1>18, <1>19, <1>20, <1>21, <1>22, <1>23, <1>24 DEF Next, ThreadStep, Drain, UserCode, Returns, TaskStep,
     StealerStep, ObjectStep

\* Claiming keeps the queue: no job is lost, doubled or of another phase.
LEMMA ClaimStep ==
  ASSUME IInv, prioritizedJobs' = prioritizedJobs \o Reverse(status.firstJob),
         status'.firstJob = <<>>, phase' = phase
  PROVE  QueueInv'
<1> DEFINE a == prioritizedJobs
           b == status.firstJob
           c == a \o Reverse(b)
<1>1. a \in Seq(Job) /\ b \in Seq(Job) /\ Len(a) \in Nat /\ Len(b) \in Nat
  BY DEF IInv, TypeOK, Status
<1>2. /\ c \in Seq(Job) /\ Len(c) = Len(a) + Len(b)
      /\ \A k \in 1..(Len(a) + Len(b)) :
           c[k] = IF k <= Len(a) THEN a[k] ELSE b[Len(a) + Len(b) - k + 1]
  BY <1>1, ClaimProperties
<1>3. /\ \A i \in 1..Len(a) : phase[a[i]] = "queued"
      /\ \A i \in 1..Len(b) : phase[b[i]] = "queued"
      /\ \A i, k \in 1..Len(a) : a[i] = a[k] => i = k
      /\ \A i, k \in 1..Len(b) : b[i] = b[k] => i = k
      /\ \A i \in 1..Len(a), k \in 1..Len(b) : a[i] # b[k]
  BY DEF IInv, QueueInv
<1>4. prioritizedJobs' = c
  OBVIOUS
<1> HIDE DEF a, b, c
<1>5. ASSUME NEW k \in 1..Len(c)
      PROVE  \/ k \in 1..Len(a) /\ c[k] = a[k]
             \/ \E y \in 1..Len(b) : k = Len(a) + Len(b) - y + 1 /\ c[k] = b[y]
  <2>1. CASE k <= Len(a)
    BY <1>1, <1>2, <2>1
  <2>2. CASE ~(k <= Len(a))
    <3> DEFINE y == Len(a) + Len(b) - k + 1
    <3>1. y \in 1..Len(b) /\ k = Len(a) + Len(b) - y + 1
      BY <1>1, <1>2, <2>2
    <3>2. c[k] = b[y]
      BY <1>1, <1>2, <2>2
    <3> QED
      BY <3>1, <3>2
  <2> QED
    BY <2>1, <2>2
<1>6. ASSUME NEW k \in 1..Len(c)
      PROVE  phase[c[k]] = "queued"
  <2>1. CASE k \in 1..Len(a) /\ c[k] = a[k]
    BY <1>3, <2>1, Zenon
  <2>2. CASE \E y \in 1..Len(b) : c[k] = b[y]
    BY <1>3, <2>2, Zenon
  <2> QED
    BY <1>5, <2>1, <2>2, Zenon
<1>7. ASSUME NEW i \in 1..Len(c), NEW k \in 1..Len(c), c[i] = c[k]
      PROVE  i = k
  BY <1>3, <1>5, <1>7
<1> QED
  BY <1>4, <1>6, <1>7 DEF QueueInv

\* Every entry of the two lists is a task.
LEMMA QueuedInJob ==
  ASSUME IInv
  PROVE  /\ \A i \in 1..Len(prioritizedJobs) : prioritizedJobs[i] \in Job
         /\ \A i \in 1..Len(status.firstJob) : status.firstJob[i] \in Job
  BY ElementOfSeq DEF IInv, TypeOK, Status

\* Every step keeps the queue: its jobs are queued and distinct.
LEMMA QueueStep == IInv /\ [Next]_vars => QueueInv'
<1> SUFFICES ASSUME IInv, [Next]_vars PROVE QueueInv'
  OBVIOUS
<1> USE DEF actorVars, threadVars, taskVars
<1>1. ASSUME NEW t \in Thread, NEW i \in DOMAIN procs, ProcessJob(t, i) PROVE QueueInv'
  <2>1. phase' = phase
    BY <1>1 DEF ProcessJob
  <2>2. \/ prioritizedJobs' = prioritizedJobs \o Reverse(status.firstJob)
           /\ status'.firstJob = <<>>
        \/ UNCHANGED <<status, prioritizedJobs>>
    BY <1>1, ProcessJobEffect
  <2> QED
    BY <2>1, <2>2, ClaimStep DEF QueueInv, IInv
<1>2. ASSUME NEW t \in Thread, NEW i \in DOMAIN prioritizedJobs, DrainOne(t, i) PROVE QueueInv'
  <2> DEFINE q == prioritizedJobs
  <2>1. /\ q \in Seq(Job) /\ i \in 1..Len(q) /\ phase \in [Job -> Phase]
        /\ Len(q) \in Nat /\ Len(q') = Len(q) - 1
        /\ \A k \in 1..Len(q') : q'[k] = IF k < i THEN q[k] ELSE q[k + 1]
    <3>1. q \in Seq(Job) /\ phase \in [Job -> Phase]
      BY DEF IInv, TypeOK
    <3>2. i \in 1..Len(q) /\ Len(q) \in Nat
      BY <3>1, LenProperties
    <3> QED
      BY <1>2, <3>1, <3>2, DrainOneEffect
  <2>2. UNCHANGED status /\ phase' = [phase EXCEPT ![q[i]] = "starting"]
    BY <1>2 DEF DrainOne
  <2>3. \A k \in 1..Len(q') : \E m \in 1..Len(q) :
          m # i /\ q'[k] = q[m] /\ m = IF k < i THEN k ELSE k + 1
    BY <2>1
  <2>4. \A m \in 1..Len(q) : q[m] \in Job
    BY <2>1, ElementOfSeq
  <2>5. \A m \in 1..Len(status.firstJob) : status.firstJob[m] \in Job
    BY ElementOfSeq DEF IInv, TypeOK, Status
  <2> HIDE DEF q
  <2>6. QueueInv!1' /\ QueueInv!2'
    BY <2>1, <2>2, <2>3, <2>4, <2>5 DEF IInv, QueueInv, q
  <2>7. QueueInv!3'
    <3>1. ASSUME NEW k \in 1..Len(q'), NEW m \in 1..Len(q'), q'[k] = q'[m]
          PROVE  k = m
      <4>1. PICK x \in 1..Len(q) : q'[k] = q[x] /\ x = IF k < i THEN k ELSE k + 1
        BY <2>3
      <4>2. PICK y \in 1..Len(q) : q'[m] = q[y] /\ y = IF m < i THEN m ELSE m + 1
        BY <2>3
      <4>3. x = y
        BY <3>1, <4>1, <4>2 DEF IInv, QueueInv, q
      <4> QED
        BY <2>1, <4>1, <4>2, <4>3
    <3> QED
      BY <3>1 DEF q
  <2>8. QueueInv!4' /\ QueueInv!5'
    BY <2>2, <2>3 DEF IInv, QueueInv, q
  <2> QED
    BY <2>6, <2>7, <2>8 DEF QueueInv
<1>3. ASSUME NEW t \in Thread, StartJob(t) PROVE QueueInv'
  <2>1. cur[t] \in Job /\ phase[cur[t]] = "starting"
    BY <1>3 DEF IInv, FollowInv, Follower, StartJob
  <2>2. UNCHANGED <<status, prioritizedJobs>>
    BY <1>3 DEF StartJob
  <2>3. \A x \in Job : phase[x] = "queued" => phase'[x] = "queued"
    BY <1>3, <2>1 DEF IInv, TypeOK, StartJob
  <2> QED
    BY <2>2, <2>3, QueuedInJob DEF IInv, QueueInv
<1>4. ASSUME NEW t \in Thread, processIncomingQueue(t) PROVE QueueInv'
  BY <1>4, IncomingEffect, ClaimStep DEF IInv, processIncomingQueue
<1>5. ASSUME NEW t \in Thread, UnlockDrained(t) PROVE QueueInv'
  <2>1. status'.firstJob = status.firstJob
    BY <1>5, UnlockDrainedEffect, UnlockEffect DEF IInv, UnlockDrained
  <2> QED
    BY <1>5, <2>1 DEF IInv, QueueInv, UnlockDrained
<1>6. ASSUME NEW t \in Thread, LeaveJobRun(t) PROVE QueueInv'
  <2>1. status'.firstJob = status.firstJob
    BY <1>6, UnlockEffect DEF IInv, LeaveJobRun
  <2> QED
    BY <1>6, <2>1 DEF IInv, QueueInv, LeaveJobRun
<1>7. ASSUME NEW t \in Thread, NEW j \in Job, RunJob(t, j) PROVE QueueInv'
  <2>1. j \in Job /\ phase[j] = "away"
    BY <1>7 DEF IInv, FollowInv, Follower, RunJob
  <2>2. UNCHANGED <<status, prioritizedJobs>>
    BY <1>7 DEF RunJob
  <2>3. \A x \in Job : phase[x] = "queued" => phase'[x] = "queued"
    BY <1>7, <2>1 DEF IInv, TypeOK, RunJob
  <2> QED
    BY <2>2, <2>3, QueuedInJob DEF IInv, QueueInv
<1>8. ASSUME NEW t \in Thread, SwitchToActor(t) PROVE QueueInv'
  <2>1. status'.firstJob = status.firstJob
    BY <1>8, LockUncontendedEffect DEF IInv, SwitchToActor
  <2> QED
    BY <1>8, <2>1 DEF IInv, QueueInv, SwitchToActor
<1>9. ASSUME NEW t \in Thread, SwitchByEnqueue(t) PROVE QueueInv'
  <2>1. cur[t] \in Job /\ phase[cur[t]] = "running"
    BY <1>9 DEF IInv, FollowInv, Follower, SwitchByEnqueue, Follows, flagAsAndEnqueueOnExecutor
  <2>2. UNCHANGED <<status, prioritizedJobs>>
    BY <1>9 DEF SwitchByEnqueue
  <2>3. \A x \in Job : phase[x] = "queued" => phase'[x] = "queued"
    BY <1>9, <2>1 DEF IInv, TypeOK, SwitchByEnqueue, Follows, flagAsAndEnqueueOnExecutor
  <2> QED
    BY <2>2, <2>3, QueuedInJob DEF IInv, QueueInv
<1>10. ASSUME NEW t \in Thread, SwitchFromActor(t) PROVE QueueInv'
  <2>1. status'.firstJob = status.firstJob
    BY <1>10, UnlockEffect DEF IInv, SwitchFromActor
  <2> QED
    BY <1>10, <2>1 DEF IInv, QueueInv, SwitchFromActor
<1>11. ASSUME NEW t \in Thread, ReleaseByTask(t) PROVE QueueInv'
  BY <1>11 DEF IInv, QueueInv, ReleaseByTask
<1>12. ASSUME NEW t \in Thread, ReturnOnActor(t) PROVE QueueInv'
  <2>1. cur[t] \in Job /\ phase[cur[t]] = "running"
    BY <1>12 DEF IInv, FollowInv, Follower, ReturnOnActor, Follows
  <2>2. UNCHANGED <<status, prioritizedJobs>>
    BY <1>12 DEF ReturnOnActor
  <2>3. \A x \in Job : phase[x] = "queued" => phase'[x] = "queued"
    BY <1>12, <2>1 DEF IInv, TypeOK, ReturnOnActor, Follows
  <2> QED
    BY <2>2, <2>3, QueuedInJob DEF IInv, QueueInv
<1>13. ASSUME NEW t \in Thread, ReturnOffActor(t) PROVE QueueInv'
  <2>1. cur[t] \in Job /\ phase[cur[t]] = "running"
    BY <1>13 DEF IInv, FollowInv, Follower, ReturnOffActor, Follows
  <2>2. UNCHANGED <<status, prioritizedJobs>>
    BY <1>13 DEF ReturnOffActor
  <2>3. \A x \in Job : phase[x] = "queued" => phase'[x] = "queued"
    BY <1>13, <2>1 DEF IInv, TypeOK, ReturnOffActor, Follows
  <2> QED
    BY <2>2, <2>3, QueuedInJob DEF IInv, QueueInv
<1>14. ASSUME NEW j \in Job, ResumeOnActor(j) PROVE QueueInv'
  <2>1. j \in Job /\ phase[j] = "away"
    BY <1>14 DEF IInv, FollowInv, Follower, ResumeOnActor, flagAsAndEnqueueOnExecutor
  <2>2. UNCHANGED <<status, prioritizedJobs>>
    BY <1>14 DEF ResumeOnActor
  <2>3. \A x \in Job : phase[x] = "queued" => phase'[x] = "queued"
    BY <1>14, <2>1 DEF IInv, TypeOK, ResumeOnActor, flagAsAndEnqueueOnExecutor
  <2> QED
    BY <2>2, <2>3, QueuedInJob DEF IInv, QueueInv
<1>15. ASSUME NEW j \in Job, Enqueue(j) PROVE QueueInv'
  <2> DEFINE f == status.firstJob
  <2>1. /\ f \in Seq(Job) /\ Len(f) \in Nat /\ status'.firstJob = <<j>> \o f
        /\ phase[j] = "enqueuing" /\ phase' = [phase EXCEPT ![j] = "queued"]
        /\ prioritizedJobs' = prioritizedJobs /\ phase \in [Job -> Phase]
    <3>1. status'.firstJob = <<j>> \o f
      BY <1>15, EnqueueEffect DEF IInv
    <3>2. f \in Seq(Job) /\ phase \in [Job -> Phase]
      BY DEF IInv, TypeOK, Status
    <3> QED
      BY <1>15, <3>1, <3>2 DEF Enqueue
  <2> HIDE DEF f
  <2>2. /\ Len(<<j>> \o f) = Len(f) + 1
        /\ \A k \in 1..(Len(f) + 1) : (<<j>> \o f)[k] = IF k = 1 THEN j ELSE f[k - 1]
    BY <2>1
  <2>3. \A x \in Job : phase[x] = "queued" => phase'[x] = "queued" /\ x # j
    BY <2>1
  <2>4. /\ \A k \in 1..Len(f) : f[k] \in Job /\ phase[f[k]] = "queued"
        /\ \A k, m \in 1..Len(f) : f[k] = f[m] => k = m
        /\ \A i \in 1..Len(prioritizedJobs), k \in 1..Len(f) : prioritizedJobs[i] # f[k]
    BY QueuedInJob DEF IInv, QueueInv, f
  <2>5. QueueInv!1' /\ QueueInv!3'
    BY <2>1, <2>3, QueuedInJob DEF IInv, QueueInv
  <2>6. QueueInv!2' /\ QueueInv!4'
    <3> DEFINE g == <<j>> \o f
    <3>1. Len(g) = Len(f) + 1 /\ \A k \in 1..Len(g) :
            \/ k = 1 /\ g[k] = j
            \/ k - 1 \in 1..Len(f) /\ g[k] = f[k - 1]
      BY <2>1, <2>2
    <3>2. status'.firstJob = g
      BY <2>1
    <3> HIDE DEF g
    <3>3. \A k \in 1..Len(g) : phase'[g[k]] = "queued"
      BY <2>1, <2>3, <2>4, <3>1
    <3>4. ASSUME NEW k \in 1..Len(g), NEW m \in 1..Len(g), g[k] = g[m]
          PROVE  k = m
      <4>1. \A x \in 1..Len(f) : f[x] # j
        BY <2>3, <2>4
      <4>2. CASE k = 1
        BY <3>1, <3>4, <4>1, <4>2
      <4>3. CASE m = 1
        BY <3>1, <3>4, <4>1, <4>3
      <4>4. CASE k # 1 /\ m # 1
        <5>1. k - 1 \in 1..Len(f) /\ m - 1 \in 1..Len(f) /\ f[k - 1] = f[m - 1]
          BY <3>1, <3>4, <4>4
        <5>2. k - 1 = m - 1
          BY <2>4, <5>1
        <5> QED
          BY <5>2
      <4> QED
        BY <4>2, <4>3, <4>4
    <3> QED
      BY <3>2, <3>3, <3>4
  <2>7. QueueInv!5'
    BY <2>1, <2>2, <2>3, <2>4, QueuedInJob DEF IInv, QueueInv
  <2> QED
    BY <2>5, <2>6, <2>7 DEF QueueInv
<1>16. ASSUME NEW j \in Job, NEW p \in Priority, TaskEscalate(j, p) PROVE QueueInv'
  BY <1>16 DEF IInv, QueueInv, TaskEscalate
<1>17. ASSUME NEW j \in Job, EnqueueStealer(j) PROVE QueueInv'
  <2>1. status'.firstJob = status.firstJob
    BY <1>17, EnqueueStealerEffect DEF IInv, EnqueueStealer
  <2> QED
    BY <1>17, <2>1 DEF IInv, QueueInv, EnqueueStealer
<1>18. ASSUME NEW j \in Job, StealerOverride(j) PROVE QueueInv'
  BY <1>18 DEF IInv, QueueInv, StealerOverride
<1>19. ASSUME NEW j \in Job, StealerSchedule(j) PROVE QueueInv'
  BY <1>19 DEF IInv, QueueInv, StealerSchedule
<1>20. ASSUME NEW i \in DOMAIN overriders, FinishEnqueue(i) PROVE QueueInv'
  BY <1>20 DEF IInv, QueueInv, FinishEnqueue
<1>21. ASSUME ReleaseByOthers PROVE QueueInv'
  BY <1>21 DEF IInv, QueueInv, ReleaseByOthers
<1>22. ASSUME Destroy PROVE QueueInv'
  BY <1>22 DEF IInv, QueueInv, Destroy
<1>23. ASSUME Deallocate PROVE QueueInv'
  <2>1. status'.firstJob = status.firstJob
    BY <1>23, DeallocateEffect DEF IInv, Deallocate
  <2> QED
    BY <1>23, <2>1 DEF IInv, QueueInv, Deallocate
<1>24. CASE UNCHANGED vars
  BY <1>24 DEF vars, IInv, QueueInv
<1> QED
  BY <1>1, <1>2, <1>3, <1>4, <1>5, <1>6, <1>7, <1>8, <1>9, <1>10, <1>11, <1>12, <1>13, <1>14, <1>15, <1>16, <1>17, <1>18, <1>19, <1>20, <1>21, <1>22, <1>23, <1>24 DEF Next, ThreadStep, Drain, UserCode, Returns, TaskStep,
     StealerStep, ObjectStep

\* The thread that holds the lock is alone with a running actor, or a zombie without work.
LEMMA HolderSeesLocked ==
  ASSUME IInv, NEW t \in Thread, HoldsLock(t)
  PROVE  /\ status.state \in {"Running", "Zombie"} /\ status.drainer = t
         /\ life # "freed"
         /\ status.state = "Zombie" => ~hasWork
  BY DEF IInv, LockInv, StateInv

\* Every step keeps the state of the word in step with the queue.
LEMMA StateStep == IInv /\ [Next]_vars => StateInv'
<1> SUFFICES ASSUME IInv, [Next]_vars PROVE StateInv'
  OBVIOUS
<1> USE DEF actorVars, threadVars, taskVars
<1>1. ASSUME NEW t \in Thread, NEW i \in DOMAIN procs, ProcessJob(t, i) PROVE StateInv'
  BY <1>1, ProcessJobEffect DEF IInv, StateInv, hasWork
<1>2. ASSUME NEW t \in Thread, NEW i \in DOMAIN prioritizedJobs, DrainOne(t, i) PROVE StateInv'
  <2>1. status.state \in {"Running", "Zombie"} /\ prioritizedJobs # <<>>
    BY <1>2, HolderSeesLocked, EmptySeq DEF DrainOne, HoldsLock, IInv, TypeOK
  <2> QED
    BY <1>2, <2>1 DEF DrainOne, IInv, StateInv, hasWork
<1>3. ASSUME NEW t \in Thread, StartJob(t) PROVE StateInv'
  BY <1>3 DEF StartJob, IInv, StateInv, hasWork
<1>4. ASSUME NEW t \in Thread, processIncomingQueue(t) PROVE StateInv'
  <2>1. /\ status.state \in {"Running", "Zombie"}
        /\ status.state = "Zombie" => prioritizedJobs = <<>> /\ status.firstJob = <<>>
    BY <1>4, HolderSeesLocked DEF processIncomingQueue, HoldsLock, hasWork
  <2>2. status.state = "Zombie" => prioritizedJobs' = <<>>
    <3>1. <<>> \o Reverse(<<>>) = <<>>
      BY EmptySeq, ClaimProperties
    <3> QED
      BY <1>4, <2>1, <3>1, IncomingEffect DEF IInv
  <2> QED
    BY <1>4, <2>1, <2>2, IncomingEffect DEF IInv, StateInv, hasWork
<1>5. ASSUME NEW t \in Thread, UnlockDrained(t) PROVE StateInv'
  BY <1>5, UnlockDrainedEffect, UnlockEffect DEF UnlockDrained, IInv, StateInv, hasWork
<1>6. ASSUME NEW t \in Thread, LeaveJobRun(t) PROVE StateInv'
  BY <1>6, UnlockEffect DEF LeaveJobRun, IInv, StateInv, hasWork
<1>7. ASSUME NEW t \in Thread, NEW j \in Job, RunJob(t, j) PROVE StateInv'
  BY <1>7 DEF RunJob, IInv, StateInv, hasWork
<1>8. ASSUME NEW t \in Thread, SwitchToActor(t) PROVE StateInv'
  BY <1>8, LockUncontendedEffect DEF SwitchToActor, IInv, StateInv, hasWork
<1>9. ASSUME NEW t \in Thread, SwitchByEnqueue(t) PROVE StateInv'
  BY <1>9 DEF SwitchByEnqueue, IInv, StateInv, hasWork
<1>10. ASSUME NEW t \in Thread, SwitchFromActor(t) PROVE StateInv'
  BY <1>10, UnlockEffect DEF SwitchFromActor, IInv, StateInv, hasWork
<1>11. ASSUME NEW t \in Thread, ReleaseByTask(t) PROVE StateInv'
  BY <1>11 DEF ReleaseByTask, IInv, StateInv, hasWork
<1>12. ASSUME NEW t \in Thread, ReturnOnActor(t) PROVE StateInv'
  BY <1>12 DEF ReturnOnActor, IInv, StateInv, hasWork
<1>13. ASSUME NEW t \in Thread, ReturnOffActor(t) PROVE StateInv'
  BY <1>13 DEF ReturnOffActor, IInv, StateInv, hasWork
<1>14. ASSUME NEW j \in Job, ResumeOnActor(j) PROVE StateInv'
  BY <1>14 DEF ResumeOnActor, IInv, StateInv, hasWork
<1>15. ASSUME NEW j \in Job, Enqueue(j) PROVE StateInv'
  <2>1. status.state \in {"Idle", "Scheduled", "Running"}
    BY <1>15 DEF Enqueue, IInv, RefInv, LifeInv, TypeOK, Status
  <2>2. status'.firstJob # <<>>
    <3>1. status.firstJob \in Seq(Job)
      BY DEF IInv, TypeOK, Status
    <3>2. <<j>> \o status.firstJob # <<>>
      BY <3>1
    <3> QED
      BY <1>15, <3>2, EnqueueEffect DEF IInv
  <2> QED
    BY <1>15, <2>1, <2>2, EnqueueEffect DEF IInv, StateInv, hasWork
<1>16. ASSUME NEW j \in Job, NEW p \in Priority, TaskEscalate(j, p) PROVE StateInv'
  BY <1>16 DEF TaskEscalate, IInv, StateInv, hasWork
<1>17. ASSUME NEW j \in Job, EnqueueStealer(j) PROVE StateInv'
  BY <1>17, EnqueueStealerEffect DEF EnqueueStealer, IInv, StateInv, hasWork
<1>18. ASSUME NEW j \in Job, StealerOverride(j) PROVE StateInv'
  BY <1>18 DEF StealerOverride, IInv, StateInv, hasWork
<1>19. ASSUME NEW j \in Job, StealerSchedule(j) PROVE StateInv'
  BY <1>19 DEF StealerSchedule, IInv, StateInv, hasWork
<1>20. ASSUME NEW i \in DOMAIN overriders, FinishEnqueue(i) PROVE StateInv'
  BY <1>20 DEF FinishEnqueue, IInv, StateInv, hasWork
<1>21. ASSUME ReleaseByOthers PROVE StateInv'
  BY <1>21 DEF ReleaseByOthers, IInv, StateInv, hasWork
<1>22. ASSUME Destroy PROVE StateInv'
  BY <1>22 DEF Destroy, IInv, StateInv, hasWork
<1>23. ASSUME Deallocate PROVE StateInv'
  <2>1. ~hasWork
    BY <1>23, NoWorkWithoutHolders DEF Deallocate, IInv, LifeInv
  <2> QED
    BY <1>23, <2>1, DeallocateEffect DEF Deallocate, IInv, StateInv, hasWork
<1>24. CASE UNCHANGED vars
  BY <1>24 DEF vars, IInv, StateInv, hasWork
<1> QED
  BY <1>1, <1>2, <1>3, <1>4, <1>5, <1>6, <1>7, <1>8, <1>9, <1>10, <1>11, <1>12, <1>13, <1>14, <1>15, <1>16, <1>17, <1>18, <1>19, <1>20, <1>21, <1>22, <1>23, <1>24 DEF Next, ThreadStep, Drain, UserCode, Returns, TaskStep,
     StealerStep, ObjectStep

\* Every step keeps the references of waiting tasks.
LEMMA RefStep == IInv /\ [Next]_vars => RefInv'
<1> SUFFICES ASSUME IInv, [Next]_vars PROVE RefInv'
  OBVIOUS
<1> USE DEF actorVars, threadVars, taskVars
<1>1. ASSUME NEW t \in Thread, NEW i \in DOMAIN procs, ProcessJob(t, i) PROVE RefInv'
  BY <1>1, ProcessJobEffect DEF ProcessJob, IInv, RefInv
<1>2. ASSUME NEW t \in Thread, NEW i \in DOMAIN prioritizedJobs, DrainOne(t, i) PROVE RefInv'
  BY <1>2, DrainOneEffect DEF DrainOne, TypeOK, IInv, RefInv
<1>3. ASSUME NEW t \in Thread, StartJob(t) PROVE RefInv'
  <2>1. cur[t] \in Job /\ phase[cur[t]] = "starting"
    BY <1>3 DEF StartJob, IInv, FollowInv, Follower
  <2> QED
    BY <1>3, <2>1, NameAssumption DEF StartJob, IInv, RefInv, TypeOK
<1>4. ASSUME NEW t \in Thread, processIncomingQueue(t) PROVE RefInv'
  BY <1>4 DEF processIncomingQueue, IInv, RefInv
<1>5. ASSUME NEW t \in Thread, UnlockDrained(t) PROVE RefInv'
  BY <1>5 DEF UnlockDrained, IInv, RefInv
<1>6. ASSUME NEW t \in Thread, LeaveJobRun(t) PROVE RefInv'
  BY <1>6 DEF LeaveJobRun, IInv, RefInv
<1>7. ASSUME NEW t \in Thread, NEW j \in Job, RunJob(t, j) PROVE RefInv'
  BY <1>7 DEF RunJob, TypeOK, IInv, RefInv
<1>8. ASSUME NEW t \in Thread, SwitchToActor(t) PROVE RefInv'
  BY <1>8 DEF SwitchToActor, IInv, RefInv
<1>9. ASSUME NEW t \in Thread, SwitchByEnqueue(t) PROVE RefInv'
  <2>1. cur[t] \in Job /\ phase[cur[t]] = "running"
    BY <1>9 DEF SwitchByEnqueue, Follows, flagAsAndEnqueueOnExecutor, IInv, FollowInv, Follower
  <2> QED
    BY <1>9, <2>1, NameAssumption DEF SwitchByEnqueue, Follows, flagAsAndEnqueueOnExecutor, IInv, RefInv, TypeOK
<1>10. ASSUME NEW t \in Thread, SwitchFromActor(t) PROVE RefInv'
  BY <1>10 DEF SwitchFromActor, IInv, RefInv
<1>11. ASSUME NEW t \in Thread, ReleaseByTask(t) PROVE RefInv'
  <2>1. cur[t] \in Job /\ phase[cur[t]] = "running"
    BY <1>11 DEF ReleaseByTask, Follows, IInv, FollowInv, Follower
  <2> QED
    BY <1>11, <2>1 DEF ReleaseByTask, IInv, RefInv
<1>12. ASSUME NEW t \in Thread, ReturnOnActor(t) PROVE RefInv'
  <2>1. cur[t] \in Job /\ phase[cur[t]] = "running"
    BY <1>12 DEF ReturnOnActor, Follows, IInv, FollowInv, Follower
  <2> QED
    BY <1>12, <2>1, NameAssumption DEF ReturnOnActor, Follows, IInv, RefInv, TypeOK
<1>13. ASSUME NEW t \in Thread, ReturnOffActor(t) PROVE RefInv'
  <2>1. cur[t] \in Job /\ phase[cur[t]] = "running"
    BY <1>13 DEF ReturnOffActor, Follows, IInv, FollowInv, Follower
  <2> QED
    BY <1>13, <2>1, NameAssumption DEF ReturnOffActor, Follows, IInv, RefInv, TypeOK
<1>14. ASSUME NEW j \in Job, ResumeOnActor(j) PROVE RefInv'
  BY <1>14 DEF ResumeOnActor, flagAsAndEnqueueOnExecutor, TypeOK, IInv, RefInv
<1>15. ASSUME NEW j \in Job, Enqueue(j) PROVE RefInv'
  BY <1>15 DEF Enqueue, TypeOK, IInv, RefInv
<1>16. ASSUME NEW j \in Job, NEW p \in Priority, TaskEscalate(j, p) PROVE RefInv'
  BY <1>16 DEF TaskEscalate, NoEscalation, TypeOK, Escalation, IInv, RefInv
<1>17. ASSUME NEW j \in Job, EnqueueStealer(j) PROVE RefInv'
  <2>1. esc[j].pc = "cas" /\ UNCHANGED <<holders, extra, phase>>
    BY <1>17 DEF EnqueueStealer
  <2>2. PICK e : /\ esc' = [esc EXCEPT ![j] = e]
                 /\ ~PriorityEscalation => e.pc \in {"none", "cas"}
    BY <1>17 DEF EnqueueStealer, NoEscalation
  <2>3. esc \in [Job -> Escalation]
    BY DEF IInv, TypeOK
  <2>4. \A k \in Job : esc'[k] = IF k = j THEN e ELSE esc[k]
    BY <2>2, <2>3
  <2> QED
    BY <2>1, <2>2, <2>4 DEF IInv, RefInv
<1>18. ASSUME NEW j \in Job, StealerOverride(j) PROVE RefInv'
  BY <1>18 DEF StealerOverride, NoEscalation, TypeOK, Escalation, IInv, RefInv
<1>19. ASSUME NEW j \in Job, StealerSchedule(j) PROVE RefInv'
  BY <1>19 DEF StealerSchedule, NoEscalation, TypeOK, Escalation, IInv, RefInv
<1>20. ASSUME NEW i \in DOMAIN overriders, FinishEnqueue(i) PROVE RefInv'
  BY <1>20 DEF FinishEnqueue, IInv, RefInv
<1>21. ASSUME ReleaseByOthers PROVE RefInv'
  BY <1>21, NameAssumption DEF ReleaseByOthers, IInv, RefInv
<1>22. ASSUME Destroy PROVE RefInv'
  BY <1>22 DEF Destroy, IInv, RefInv
<1>23. ASSUME Deallocate PROVE RefInv'
  BY <1>23 DEF Deallocate, IInv, RefInv
<1>24. CASE UNCHANGED vars
  BY <1>24 DEF vars, IInv, RefInv
<1> QED
  BY <1>1, <1>2, <1>3, <1>4, <1>5, <1>6, <1>7, <1>8, <1>9, <1>10, <1>11, <1>12, <1>13, <1>14, <1>15, <1>16, <1>17, <1>18, <1>19, <1>20, <1>21, <1>22, <1>23, <1>24 DEF Next, ThreadStep, Drain, UserCode, Returns, TaskStep,
     StealerStep, ObjectStep

\* Every step keeps the ownership rules.
LEMMA BalanceStep == IInv /\ [Next]_vars => RetainBalance'
<1> SUFFICES ASSUME IInv, [Next]_vars PROVE RetainBalance'
  OBVIOUS
<1> USE DEF actorVars, threadVars, taskVars
<1>1. ASSUME NEW t \in Thread, NEW i \in DOMAIN procs, ProcessJob(t, i) PROVE RetainBalance'
  <2>1. Len(procs) \in Nat
    BY LenProperties DEF IInv, TypeOK
  <2> QED
    BY <1>1, <2>1, ProcessJobEffect DEF IInv, RetainBalance
<1>2. ASSUME NEW t \in Thread, NEW i \in DOMAIN prioritizedJobs, DrainOne(t, i) PROVE RetainBalance'
  BY <1>2 DEF DrainOne, IInv, RetainBalance
<1>3. ASSUME NEW t \in Thread, StartJob(t) PROVE RetainBalance'
  BY <1>3 DEF StartJob, IInv, RetainBalance
<1>4. ASSUME NEW t \in Thread, processIncomingQueue(t) PROVE RetainBalance'
  BY <1>4, IncomingEffect DEF processIncomingQueue, IInv, RetainBalance
<1>5. ASSUME NEW t \in Thread, UnlockDrained(t) PROVE RetainBalance'
  <2>1. status.state # "Scheduled" /\ Len(procs) \in Nat
    BY <1>5, HolderSeesLocked, LenProperties DEF UnlockDrained, Follows, HoldsLock, IInv, TypeOK
  <2> QED
    BY <1>5, <2>1, UnlockDrainedEffect, UnlockEffect DEF UnlockDrained, IInv, RetainBalance
<1>6. ASSUME NEW t \in Thread, LeaveJobRun(t) PROVE RetainBalance'
  <2>1. status.state # "Scheduled" /\ Len(procs) \in Nat
    BY <1>6, HolderSeesLocked, LenProperties DEF LeaveJobRun, Follows, HoldsLock, IInv, TypeOK
  <2> QED
    BY <1>6, <2>1, UnlockEffect DEF LeaveJobRun, IInv, RetainBalance
<1>7. ASSUME NEW t \in Thread, NEW j \in Job, RunJob(t, j) PROVE RetainBalance'
  BY <1>7 DEF RunJob, IInv, RetainBalance
<1>8. ASSUME NEW t \in Thread, SwitchToActor(t) PROVE RetainBalance'
  BY <1>8, LockUncontendedEffect DEF SwitchToActor, TryLockUncontended, IInv, RetainBalance
<1>9. ASSUME NEW t \in Thread, SwitchByEnqueue(t) PROVE RetainBalance'
  BY <1>9 DEF SwitchByEnqueue, IInv, RetainBalance
<1>10. ASSUME NEW t \in Thread, SwitchFromActor(t) PROVE RetainBalance'
  <2>1. status.state # "Scheduled" /\ Len(procs) \in Nat
    BY <1>10, HolderSeesLocked, LenProperties DEF SwitchFromActor, Follows, HoldsLock, IInv, TypeOK
  <2> QED
    BY <1>10, <2>1, UnlockEffect DEF SwitchFromActor, IInv, RetainBalance
<1>11. ASSUME NEW t \in Thread, ReleaseByTask(t) PROVE RetainBalance'
  BY <1>11 DEF ReleaseByTask, IInv, RetainBalance
<1>12. ASSUME NEW t \in Thread, ReturnOnActor(t) PROVE RetainBalance'
  BY <1>12 DEF ReturnOnActor, IInv, RetainBalance
<1>13. ASSUME NEW t \in Thread, ReturnOffActor(t) PROVE RetainBalance'
  BY <1>13 DEF ReturnOffActor, IInv, RetainBalance
<1>14. ASSUME NEW j \in Job, ResumeOnActor(j) PROVE RetainBalance'
  BY <1>14 DEF ResumeOnActor, IInv, RetainBalance
<1>15. ASSUME NEW j \in Job, Enqueue(j) PROVE RetainBalance'
  <2>1. Len(procs) \in Nat /\ extra \in Nat /\ TypeOK
    BY LenProperties DEF IInv, TypeOK
  <2>2. CASE status.state = "Idle"
    <3>1. status'.state = "Scheduled" /\ Len(procs') = Len(procs) + 1 /\ extra' = extra
      BY <1>15, <2>1, <2>2, EnqueueEffect
    <3> QED
      BY <2>1, <2>2, <3>1 DEF IInv, RetainBalance
  <2>3. CASE status.state # "Idle"
    <3>1. /\ status'.state = status.state
          /\ \/ Len(procs') = Len(procs) + 1 /\ extra' = extra + 1
             \/ procs' = procs /\ extra' = extra
      BY <1>15, <2>1, <2>3, EnqueueEffect
    <3> QED
      BY <2>1, <3>1 DEF IInv, RetainBalance
  <2> QED
    BY <2>2, <2>3
<1>16. ASSUME NEW j \in Job, NEW p \in Priority, TaskEscalate(j, p) PROVE RetainBalance'
  BY <1>16 DEF TaskEscalate, IInv, RetainBalance
<1>17. ASSUME NEW j \in Job, EnqueueStealer(j) PROVE RetainBalance'
  BY <1>17, EnqueueStealerEffect DEF EnqueueStealer, IInv, RetainBalance
<1>18. ASSUME NEW j \in Job, StealerOverride(j) PROVE RetainBalance'
  BY <1>18 DEF StealerOverride, IInv, RetainBalance
<1>19. ASSUME NEW j \in Job, StealerSchedule(j) PROVE RetainBalance'
  <2>1. Len(procs) \in Nat /\ esc[j].priority \in 0..MaxPriority
    BY LenProperties DEF IInv, TypeOK, Escalation
  <2>2. Len(procs') = Len(procs) + 1
    BY <1>19, <2>1, ScheduleTypes
    DEF StealerSchedule, fromTaskExecutorPreference, IInv, TypeOK
  <2> QED
    BY <1>19, <2>1, <2>2 DEF StealerSchedule, IInv, RetainBalance
<1>20. ASSUME NEW i \in DOMAIN overriders, FinishEnqueue(i) PROVE RetainBalance'
  BY <1>20 DEF FinishEnqueue, IInv, RetainBalance
<1>21. ASSUME ReleaseByOthers PROVE RetainBalance'
  BY <1>21 DEF ReleaseByOthers, IInv, RetainBalance
<1>22. ASSUME Destroy PROVE RetainBalance'
  BY <1>22 DEF Destroy, IInv, RetainBalance
<1>23. ASSUME Deallocate PROVE RetainBalance'
  BY <1>23, DeallocateEffect DEF Deallocate, IInv, RetainBalance
<1>24. CASE UNCHANGED vars
  BY <1>24 DEF vars, IInv, RetainBalance
<1> QED
  BY <1>1, <1>2, <1>3, <1>4, <1>5, <1>6, <1>7, <1>8, <1>9, <1>10, <1>11, <1>12, <1>13, <1>14, <1>15, <1>16, <1>17, <1>18, <1>19, <1>20, <1>21, <1>22, <1>23, <1>24 DEF Next, ThreadStep, Drain, UserCode, Returns, TaskStep,
     StealerStep, ObjectStep

\* Without references there is no processing job either.
LEMMA NoProcsWithoutHolders ==
  ASSUME IInv, holders = {}, extra = 0
  PROVE  procs = <<>> /\ status.state # "Scheduled"
<1>1. status.state # "Scheduled"
  BY NoWorkWithoutHolders DEF IInv, StateInv
<1>2. Len(procs) = 0 /\ procs \in Seq(Proc)
  BY <1>1, LenProperties DEF IInv, RetainBalance, TypeOK
<1> QED
  BY <1>1, <1>2, EmptySeq

\* Every step keeps the life of the object in step with its references.
LEMMA LifeStep == IInv /\ [Next]_vars => LifeInv'
<1> SUFFICES ASSUME IInv, [Next]_vars PROVE LifeInv'
  OBVIOUS
<1> USE DEF actorVars, threadVars, taskVars
<1>1. ASSUME NEW t \in Thread, NEW i \in DOMAIN procs, ProcessJob(t, i) PROVE LifeInv'
  <2>1. life = "live"
    <3>1. procs # <<>>
      BY EmptySeq DEF IInv, TypeOK
    <3> QED
      BY <3>1, NoProcsWithoutHolders DEF IInv, LifeInv
  <2> QED
    BY <1>1, <2>1, ProcessJobEffect DEF ProcessJob, StartsDeinit, IInv, LifeInv
<1>2. ASSUME NEW t \in Thread, NEW i \in DOMAIN prioritizedJobs, DrainOne(t, i) PROVE LifeInv'
  BY <1>2 DEF DrainOne, IInv, LifeInv
<1>3. ASSUME NEW t \in Thread, StartJob(t) PROVE LifeInv'
  BY <1>3 DEF StartJob, IInv, LifeInv
<1>4. ASSUME NEW t \in Thread, processIncomingQueue(t) PROVE LifeInv'
  BY <1>4, IncomingEffect DEF processIncomingQueue, IInv, LifeInv
<1>5. ASSUME NEW t \in Thread, UnlockDrained(t) PROVE LifeInv'
  <2>1. status.state \in {"Running", "Zombie"} /\ life # "freed"
    BY <1>5, HolderSeesLocked DEF UnlockDrained, Follows, HoldsLock
  <2> QED
    BY <1>5, <2>1, UnlockDrainedEffect, UnlockEffect DEF UnlockDrained, IInv, LifeInv
<1>6. ASSUME NEW t \in Thread, LeaveJobRun(t) PROVE LifeInv'
  <2>1. status.state \in {"Running", "Zombie"} /\ life # "freed"
    BY <1>6, HolderSeesLocked DEF LeaveJobRun, Follows, HoldsLock
  <2> QED
    BY <1>6, <2>1, UnlockEffect DEF LeaveJobRun, IInv, LifeInv
<1>7. ASSUME NEW t \in Thread, NEW j \in Job, RunJob(t, j) PROVE LifeInv'
  BY <1>7 DEF RunJob, IInv, LifeInv
<1>8. ASSUME NEW t \in Thread, SwitchToActor(t) PROVE LifeInv'
  BY <1>8, LockUncontendedEffect DEF SwitchToActor, IInv, LifeInv
<1>9. ASSUME NEW t \in Thread, SwitchByEnqueue(t) PROVE LifeInv'
  BY <1>9 DEF SwitchByEnqueue, IInv, LifeInv
<1>10. ASSUME NEW t \in Thread, SwitchFromActor(t) PROVE LifeInv'
  <2>1. status.state \in {"Running", "Zombie"} /\ life # "freed"
    BY <1>10, HolderSeesLocked DEF SwitchFromActor, Follows, HoldsLock
  <2> QED
    BY <1>10, <2>1, UnlockEffect DEF SwitchFromActor, IInv, LifeInv
<1>11. ASSUME NEW t \in Thread, ReleaseByTask(t) PROVE LifeInv'
  BY <1>11 DEF ReleaseByTask, StartsDeinit, IInv, LifeInv
<1>12. ASSUME NEW t \in Thread, ReturnOnActor(t) PROVE LifeInv'
  BY <1>12 DEF ReturnOnActor, IInv, LifeInv
<1>13. ASSUME NEW t \in Thread, ReturnOffActor(t) PROVE LifeInv'
  BY <1>13 DEF ReturnOffActor, IInv, LifeInv
<1>14. ASSUME NEW j \in Job, ResumeOnActor(j) PROVE LifeInv'
  BY <1>14 DEF ResumeOnActor, IInv, LifeInv
<1>15. ASSUME NEW j \in Job, Enqueue(j) PROVE LifeInv'
  <2>1. life = "live" /\ status.state # "Zombie"
    BY <1>15 DEF Enqueue, IInv, RefInv, LifeInv
  <2> QED
    BY <1>15, <2>1, EnqueueEffect DEF Enqueue, IInv, LifeInv
<1>16. ASSUME NEW j \in Job, NEW p \in Priority, TaskEscalate(j, p) PROVE LifeInv'
  BY <1>16 DEF TaskEscalate, IInv, LifeInv
<1>17. ASSUME NEW j \in Job, EnqueueStealer(j) PROVE LifeInv'
  BY <1>17, EnqueueStealerEffect DEF EnqueueStealer, IInv, LifeInv
<1>18. ASSUME NEW j \in Job, StealerOverride(j) PROVE LifeInv'
  BY <1>18 DEF StealerOverride, IInv, LifeInv
<1>19. ASSUME NEW j \in Job, StealerSchedule(j) PROVE LifeInv'
  <2>1. life = "live"
    BY <1>19 DEF StealerSchedule, IInv, RefInv, LifeInv
  <2> QED
    BY <1>19, <2>1 DEF StealerSchedule, IInv, LifeInv
<1>20. ASSUME NEW i \in DOMAIN overriders, FinishEnqueue(i) PROVE LifeInv'
  <2>1. life = "live"
    BY EmptySeq DEF IInv, LifeInv, TypeOK
  <2> QED
    BY <1>20, <2>1 DEF FinishEnqueue, StartsDeinit, IInv, LifeInv
<1>21. ASSUME ReleaseByOthers PROVE LifeInv'
  BY <1>21 DEF ReleaseByOthers, StartsDeinit, IInv, LifeInv
<1>22. ASSUME Destroy PROVE LifeInv'
  BY <1>22 DEF Destroy, IInv, LifeInv
<1>23. ASSUME Deallocate PROVE LifeInv'
  <2>1. status.state \in {"Idle", "Running"}
    <3>1. life = "dealloc" /\ holders = {}
      BY <1>23 DEF Deallocate, IInv, LifeInv
    <3> QED
      BY <3>1, NoWorkWithoutHolders DEF IInv, StateInv, LifeInv, TypeOK, Status
  <2> QED
    BY <1>23, <2>1, DeallocateEffect DEF Deallocate, IInv, LifeInv
<1>24. CASE UNCHANGED vars
  BY <1>24 DEF vars, IInv, LifeInv
<1> QED
  BY <1>1, <1>2, <1>3, <1>4, <1>5, <1>6, <1>7, <1>8, <1>9, <1>10, <1>11, <1>12, <1>13, <1>14, <1>15, <1>16, <1>17, <1>18, <1>19, <1>20, <1>21, <1>22, <1>23, <1>24 DEF Next, ThreadStep, Drain, UserCode, Returns, TaskStep,
     StealerStep, ObjectStep

-----------------------------------------------------------------------------
(* Theorems *)

\* The initial state satisfies the invariant.
LEMMA InitInv == Init => IInv
<1> SUFFICES ASSUME Init PROVE IInv
  OBVIOUS
<1>1. /\ status.state = "Idle" /\ status.maxPriority = Unspecified
      /\ status.drainer = NoThread /\ status.firstJob = <<>>
      /\ prioritizedJobs = <<>> /\ procs = <<>> /\ overriders = <<>>
  BY DEF Init
<1>2. Len(<<>>) = 0
  BY EmptySeq
<1>3. TypeOK
  <2>1. status \in Status
    BY PriorityAssumption, EmptySeq DEF Init, Status, Unspecified
  <2>2. NoEscalation \in Escalation
    BY PriorityAssumption DEF Escalation, NoEscalation, Unspecified
  <2>3. /\ prioritizedJobs \in Seq(Job) /\ procs \in Seq(Proc)
        /\ overriders \in Seq(Overrider)
    BY <1>1, EmptySeq
  <2>4. esc \in [Job -> Escalation]
    BY <2>2 DEF Init
  <2> QED
    BY <2>1, <2>3, <2>4, PriorityAssumption, ConfigAssumption
    DEF Init, TypeOK, Priority, Phase, Unspecified
<1>4. LockInv /\ FollowInv
  BY <1>1, NameAssumption DEF Init, LockInv, HoldsLock, FollowInv, Follower
<1>5. QueueInv /\ StateInv
  BY <1>1, <1>2 DEF QueueInv, StateInv, hasWork
<1>6. RefInv
  BY DEF Init, RefInv, NoEscalation
<1>7. RetainBalance /\ LifeInv
  BY <1>1, <1>2 DEF Init, RetainBalance, LifeInv
<1> QED
  BY <1>3, <1>4, <1>5, <1>6, <1>7 DEF IInv

\* Every behaviour keeps lock, queue, references and object in step.
THEOREM Invariance == Spec => []IInv
<1>1. Init => IInv
  BY InitInv
<1>2. IInv /\ [Next]_vars => IInv'
  BY TypeStep, LockStep, FollowStep, QueueStep, StateStep, RefStep, BalanceStep, LifeStep
  DEF IInv
<1> QED
  BY <1>1, <1>2, PTL DEF Spec

\* The types of every variable of the actor are kept by every behaviour.
THEOREM TypeCorrectness == Spec => []TypeOK
<1>1. IInv => TypeOK
  BY DEF IInv
<1> QED
  BY <1>1, Invariance, PTL

\* tryLock() and unlock() give the actor to one thread at a time.
THEOREM ActorMutualExclusion == Spec => []MutualExclusion
<1>1. IInv => MutualExclusion
  BY DEF IInv, LockInv, MutualExclusion
<1> QED
  BY <1>1, Invariance, PTL

\* The ownership rules hold: an extra retain for each surplus processing job.
THEOREM OwnershipRules == Spec => []RetainBalance
<1>1. IInv => RetainBalance
  BY DEF IInv
<1> QED
  BY <1>1, Invariance, PTL

\* Nobody holds on to a freed actor: no lock holder, processing job, pending
\* override, escalator or waiting task.
THEOREM ActorNoUseAfterFree == Spec => []NoUseAfterFree
<1>1. IInv => NoUseAfterFree
  <2> SUFFICES ASSUME IInv, life = "freed"
               PROVE  /\ \A t \in Thread : ~HoldsLock(t)
                      /\ procs = <<>>
                      /\ overriders = <<>>
                      /\ \A j \in Job : phase[j] \notin {"enqueuing", "queued", "starting"}
                      /\ \A j \in Job : esc[j].pc = "none"
    BY DEF NoUseAfterFree
  <2>1. holders = {} /\ extra = 0 /\ overriders = <<>>
    BY DEF IInv, LifeInv
  <2>2. \A t \in Thread : ~HoldsLock(t)
    BY DEF IInv, LockInv
  <2> QED
    BY <2>1, <2>2, NoWorkWithoutHolders, NoProcsWithoutHolders
<1> QED
  BY <1>1, Invariance, PTL

\* A queued job always has a drainer or a processing job coming for it.
THEOREM ActorNoLostJob == Spec => []NoLostJob
<1>1. IInv => NoLostJob
  <2> SUFFICES ASSUME IInv, hasWork
               PROVE  \/ status.state = "Running" /\ \E t \in Thread : HoldsLock(t)
                      \/ status.state = "Scheduled" /\ procs # <<>>
    BY DEF NoLostJob
  <2>1. status.state \in {"Running", "Scheduled"}
    BY DEF IInv, StateInv
  <2>2. life # "freed"
    BY NoWorkWithoutHolders DEF IInv, LifeInv
  <2>3. CASE status.state = "Running"
    <3>1. status.drainer \in Thread
      BY <2>3 DEF IInv, LockInv, TypeOK, Status
    <3> QED
      BY <2>2, <2>3, <3>1 DEF IInv, LockInv
  <2>4. CASE status.state = "Scheduled"
    <3>1. Len(procs) # 0
      BY <2>4, LenProperties DEF IInv, RetainBalance, TypeOK
    <3> QED
      BY <2>4, <3>1, EmptySeq
  <2> QED
    BY <2>1, <2>3, <2>4
<1> QED
  BY <1>1, Invariance, PTL

\* The asserts of destroy() and deallocate() hold.
THEOREM ActorDestroyAsserts == Spec => []DestroyFindsNoJobs
<1>1. IInv => DestroyFindsNoJobs
  <2> SUFFICES ASSUME IInv, life \in {"deinit", "dealloc"}
               PROVE  /\ status.firstJob = <<>>
                      /\ status.state \in {"Idle", "Running"}
                      /\ status.state = "Idle" => prioritizedJobs = <<>>
    BY DEF DestroyFindsNoJobs
  <2>1. holders = {} /\ extra = 0 /\ status.state # "Zombie"
    BY DEF IInv, LifeInv
  <2>2. ~hasWork /\ status.state # "Scheduled"
    BY <2>1, NoWorkWithoutHolders, NoProcsWithoutHolders
  <2>3. status.state \in {"Idle", "Scheduled", "Running", "Zombie"}
    BY DEF IInv, TypeOK, Status
  <2> QED
    BY <2>1, <2>2, <2>3 DEF hasWork
<1> QED
  BY <1>1, Invariance, PTL

\* Without priority escalation tryLock() finds what it asserts.
THEOREM PortableDrainer == Spec => []DrainerFindsScheduled
<1>1. IInv => DrainerFindsScheduled
  <2> SUFFICES ASSUME IInv, ~PriorityEscalation
               PROVE  procs = <<>> \/ (status.state = "Scheduled" /\ Len(procs) = 1)
    BY DEF DrainerFindsScheduled
  <2>1. procs \in Seq(Proc) /\ extra = 0
    BY DEF IInv, TypeOK, RefInv
  <2>2. Len(procs) = (IF status.state = "Scheduled" THEN 1 ELSE 0)
    BY <2>1, LenProperties DEF IInv, RetainBalance
  <2> QED
    BY <2>1, <2>2, EmptySeq
<1> QED
  BY <1>1, Invariance, PTL

\* The fast path of a switch never takes a busy actor or a zombie.
THEOREM FastPathAsserts == Spec => FastPathFindsIdle
<1> DEFINE Finds == \A t \in Thread : SwitchToActor(t) =>
             status.state = "Idle" /\ status.maxPriority = Unspecified /\ ~hasWork
<1>1. IInv /\ [Next]_vars => [Finds]_vars
  <2> SUFFICES ASSUME IInv, NEW t \in Thread, SwitchToActor(t)
               PROVE  status.state = "Idle" /\ status.maxPriority = Unspecified /\ ~hasWork
    OBVIOUS
  <2>1. status.state \notin {"Running", "Scheduled"} /\ holders # {}
    BY DEF SwitchToActor, TryLockUncontended
  <2>2. status.state = "Idle"
    BY <2>1 DEF IInv, LifeInv, TypeOK, Status
  <2> QED
    BY <2>2 DEF IInv, StateInv
<1> QED
  BY <1>1, Invariance, PTL DEF Spec, FastPathFindsIdle

-----------------------------------------------------------------------------
(* Pushing and taking *)

\* What Append gives, stated of a sequence that is known to be one.
LEMMA AppendGives ==
  ASSUME NEW S, NEW s \in Seq(S), NEW e \in S, NEW u, u = Append(s, e)
  PROVE  /\ u \in Seq(S) /\ Len(u) = Len(s) + 1 /\ u[Len(s) + 1] = e
         /\ \A k \in 1..Len(s) : u[k] = s[k]
  BY AppendProperties

\* Pushing a job onto the LIFO list appends it to the line.
LEMMA PushAppends ==
  ASSUME NEW a \in Seq(Job), NEW b \in Seq(Job), NEW j \in Job
  PROVE  a \o Reverse(<<j>> \o b) = Append(a \o Reverse(b), j)
<1>. DEFINE c == <<j>> \o b
            l == a \o Reverse(b)
            m == a \o Reverse(c)
            e == Append(l, j)
<1>1. Len(a) \in Nat /\ Len(b) \in Nat
  BY LenProperties
<1>2. /\ c \in Seq(Job) /\ Len(c) = Len(b) + 1 /\ c[1] = j
      /\ \A k \in 1..Len(b) : c[k + 1] = b[k]
  OBVIOUS
<1>. HIDE DEF c
<1>3. /\ l \in Seq(Job) /\ Len(l) = Len(a) + Len(b)
      /\ \A k \in 1..(Len(a) + Len(b)) :
           l[k] = IF k <= Len(a) THEN a[k] ELSE b[Len(a) + Len(b) - k + 1]
  BY ClaimProperties
<1>4. /\ m \in Seq(Job) /\ Len(m) = Len(a) + Len(c)
      /\ \A k \in 1..(Len(a) + Len(c)) :
           m[k] = IF k <= Len(a) THEN a[k] ELSE c[Len(a) + Len(c) - k + 1]
  BY <1>2, ClaimProperties
<1>. HIDE DEF l, m
<1>5. /\ e \in Seq(Job) /\ Len(e) = Len(l) + 1 /\ e[Len(l) + 1] = j
      /\ \A k \in 1..Len(l) : e[k] = l[k]
  <2>1. l \in Seq(Job)
    BY <1>3
  <2>. QED
    BY <2>1, AppendProperties
<1>. HIDE DEF e
<1>6. ASSUME NEW k \in 1..Len(m)
      PROVE  m[k] = e[k]
  <2>1. CASE k <= Len(a)
    <3>1. k \in 1..(Len(a) + Len(c)) /\ k \in 1..(Len(a) + Len(b)) /\ k \in 1..Len(l)
      BY <1>1, <1>2, <1>3, <1>4, <2>1
    <3>. QED
      BY <1>3, <1>4, <1>5, <2>1, <3>1
  <2>2. CASE k > Len(a) /\ k <= Len(a) + Len(b)
    <3>. DEFINE i == Len(a) + Len(b) - k + 1
    <3>1. /\ i \in 1..Len(b) /\ i + 1 = Len(a) + Len(c) - k + 1
          /\ k \in 1..(Len(a) + Len(b)) /\ k \in 1..Len(l) /\ ~(k <= Len(a))
          /\ k \in 1..(Len(a) + Len(c))
      BY <1>1, <1>2, <1>3, <1>4, <2>2
    <3>2. l[k] = b[i] /\ m[k] = c[i + 1] /\ e[k] = l[k] /\ c[i + 1] = b[i]
      BY <1>2, <1>3, <1>4, <1>5, <3>1
    <3>. QED
      BY <3>2
  <2>3. CASE k = Len(a) + Len(b) + 1
    <3>1. /\ Len(a) + Len(c) - k + 1 = 1 /\ ~(k <= Len(a)) /\ k = Len(l) + 1
          /\ k \in 1..(Len(a) + Len(c))
      BY <1>1, <1>2, <1>3, <2>3
    <3>. QED
      BY <1>2, <1>4, <1>5, <3>1
  <2>4. Len(m) = Len(a) + Len(b) + 1
    BY <1>1, <1>2, <1>4
  <2>5. k <= Len(a) \/ (k > Len(a) /\ k <= Len(a) + Len(b)) \/ k = Len(a) + Len(b) + 1
    BY <1>1, <2>4
  <2>. QED
    BY <2>1, <2>2, <2>3, <2>5
<1>7. Len(m) = Len(e)
  BY <1>1, <1>2, <1>3, <1>4, <1>5
<1>8. m = e
  BY <1>4, <1>5, <1>6, <1>7, SeqEqual
<1>. QED
  BY <1>8 DEF m, e, l, c

\* Taking a claimed job takes it out of the line.
LEMMA TakeRemoves ==
  ASSUME NEW a \in Seq(Job), NEW b \in Seq(Job), NEW i \in 1..Len(a)
  PROVE  /\ i \in 1..Len(a \o Reverse(b))
         /\ RemoveAt(a, i) \o Reverse(b) = RemoveAt(a \o Reverse(b), i)
<1>. DEFINE c == RemoveAt(a, i)
            l == a \o Reverse(b)
            m == c \o Reverse(b)
            e == RemoveAt(l, i)
<1>1. Len(a) \in Nat /\ Len(b) \in Nat
  BY LenProperties
<1>2. /\ c \in Seq(Job) /\ Len(c) = Len(a) - 1
      /\ \A k \in 1..(Len(a) - 1) : c[k] = IF k < i THEN a[k] ELSE a[k + 1]
  BY RemoveAtProperties
<1>. HIDE DEF c
<1>3. /\ l \in Seq(Job) /\ Len(l) = Len(a) + Len(b)
      /\ \A k \in 1..(Len(a) + Len(b)) :
           l[k] = IF k <= Len(a) THEN a[k] ELSE b[Len(a) + Len(b) - k + 1]
  BY ClaimProperties
<1>4. /\ m \in Seq(Job) /\ Len(m) = Len(c) + Len(b)
      /\ \A k \in 1..(Len(c) + Len(b)) :
           m[k] = IF k <= Len(c) THEN c[k] ELSE b[Len(c) + Len(b) - k + 1]
  BY <1>2, ClaimProperties
<1>. HIDE DEF l, m
<1>5. i \in 1..Len(l)
  BY <1>1, <1>3
<1>6. /\ e \in Seq(Job) /\ Len(e) = Len(l) - 1
      /\ \A k \in 1..(Len(l) - 1) : e[k] = IF k < i THEN l[k] ELSE l[k + 1]
  BY <1>3, <1>5, RemoveAtProperties
<1>. HIDE DEF e
<1>7. ASSUME NEW k \in 1..Len(m)
      PROVE  m[k] = e[k]
  <2>1. k \in 1..(Len(c) + Len(b)) /\ k \in 1..(Len(l) - 1)
    BY <1>1, <1>2, <1>3, <1>4
  <2>2. CASE k < i
    <3>1. /\ k <= Len(c) /\ k \in 1..(Len(a) - 1) /\ k <= Len(a)
          /\ k \in 1..(Len(a) + Len(b))
      BY <1>1, <1>2, <2>1, <2>2
    <3>2. m[k] = c[k] /\ c[k] = a[k] /\ l[k] = a[k] /\ e[k] = l[k]
      BY <1>2, <1>3, <1>4, <1>6, <2>1, <2>2, <3>1
    <3>. QED
      BY <3>2
  <2>3. CASE ~(k < i) /\ k <= Len(c)
    <3>1. k \in 1..(Len(a) - 1) /\ k + 1 <= Len(a) /\ k + 1 \in 1..(Len(a) + Len(b))
      BY <1>1, <1>2, <2>1, <2>3
    <3>2. m[k] = c[k] /\ c[k] = a[k + 1] /\ l[k + 1] = a[k + 1] /\ e[k] = l[k + 1]
      BY <1>2, <1>3, <1>4, <1>6, <2>1, <2>3, <3>1
    <3>. QED
      BY <3>2
  <2>4. CASE ~(k <= Len(c))
    <3>1. /\ ~(k < i) /\ ~(k + 1 <= Len(a)) /\ k + 1 \in 1..(Len(a) + Len(b))
          /\ Len(a) + Len(b) - (k + 1) + 1 = Len(c) + Len(b) - k + 1
      BY <1>1, <1>2, <2>1, <2>4
    <3>2. /\ m[k] = b[Len(c) + Len(b) - k + 1]
          /\ l[k + 1] = b[Len(a) + Len(b) - (k + 1) + 1] /\ e[k] = l[k + 1]
      BY <1>3, <1>4, <1>6, <2>1, <2>4, <3>1
    <3>. QED
      BY <3>1, <3>2
  <2>. QED
    BY <2>2, <2>3, <2>4
<1>8. Len(m) = Len(e)
  BY <1>1, <1>2, <1>3, <1>4, <1>6
<1>9. m = e
  BY <1>4, <1>6, <1>7, <1>8, SeqEqual
<1>. QED
  BY <1>5, <1>9 DEF m, e, l, c

-----------------------------------------------------------------------------
(* The jobs in line *)

\* The jobs that wait, in the order in which they came
Line == prioritizedJobs \o Reverse(status.firstJob)

Entry == [job: Job, priority: Priority]

\* The line has the claimed jobs first, then the incoming ones, oldest first.
LEMMA LineIs ==
  ASSUME TypeOK
  PROVE  /\ Line \in Seq(Job)
         /\ Len(Line) = Len(prioritizedJobs) + Len(status.firstJob)
         /\ \A k \in 1..Len(Line) :
              Line[k] = IF k <= Len(prioritizedJobs) THEN prioritizedJobs[k]
                        ELSE status.firstJob[Len(Line) - k + 1]
<1>. DEFINE a == prioritizedJobs
            b == status.firstJob
            l == a \o Reverse(b)
<1>1. a \in Seq(Job) /\ b \in Seq(Job)
  BY DEF TypeOK, Status
<1>. HIDE DEF a, b
<1>2. /\ l \in Seq(Job) /\ Len(l) = Len(a) + Len(b)
      /\ \A k \in 1..(Len(a) + Len(b)) :
           l[k] = IF k <= Len(a) THEN a[k] ELSE b[Len(a) + Len(b) - k + 1]
  BY <1>1, ClaimProperties
<1>3. Line = l
  BY DEF Line, a, b
<1>. HIDE DEF l
<1>. QED
  BY <1>2, <1>3 DEF a, b

\* Whoever is in line is queued.
LEMMA LineIsQueued ==
  ASSUME TypeOK, QueueInv
  PROVE  \A k \in 1..Len(Line) : Line[k] \in Job /\ phase[Line[k]] = "queued"
<1>1. prioritizedJobs \in Seq(Job) /\ status.firstJob \in Seq(Job)
  BY DEF TypeOK, Status
<1>2. ASSUME NEW k \in 1..Len(Line)
      PROVE  Line[k] \in Job /\ phase[Line[k]] = "queued"
  <2>1. CASE k <= Len(prioritizedJobs)
    <3>1. k \in 1..Len(prioritizedJobs) /\ Line[k] = prioritizedJobs[k]
      BY <1>1, <2>1, LineIs
    <3>. QED
      BY <1>1, <3>1, ElementOfSeq DEF QueueInv
  <2>2. CASE ~(k <= Len(prioritizedJobs))
    <3>. DEFINE m == Len(Line) - k + 1
    <3>1. m \in 1..Len(status.firstJob) /\ Line[k] = status.firstJob[m]
      BY <1>1, <2>2, LineIs
    <3>. QED
      BY <1>1, <3>1, ElementOfSeq DEF QueueInv
  <2>. QED
    BY <2>1, <2>2
<1>. QED
  BY <1>2

WaitingIsLine ==
  /\ Waiting \in Seq(Entry) /\ Len(Waiting) = Len(Line)
  /\ \A k \in 1..Len(Line) :
       Waiting[k] = [job |-> Line[k], priority |-> jobPriority[Line[k]]]

\* What waits is what is in line, with its priority.
LEMMA WaitingIs == TypeOK => WaitingIsLine
<1>. SUFFICES ASSUME TypeOK
              PROVE  WaitingIsLine
  OBVIOUS
<1>1. Line \in Seq(Job) /\ DOMAIN Line = 1..Len(Line) /\ Len(Line) \in Nat
  BY LineIs
<1>2. Waiting = [k \in 1..Len(Line) |-> [job |-> Line[k], priority |-> jobPriority[Line[k]]]]
  BY <1>1 DEF Waiting, Line
<1>3. \A k \in 1..Len(Line) : [job |-> Line[k], priority |-> jobPriority[Line[k]]] \in Entry
  BY <1>1, ElementOfSeq DEF TypeOK, Entry
<1>. HIDE DEF Line
<1>4. Waiting \in Seq(Entry)
  BY <1>1, <1>2, <1>3, IsASeq
<1>. QED
  BY <1>1, <1>2, <1>4 DEF WaitingIsLine

\* A step that leaves the line alone leaves what waits alone: the priority of a queued job
\* is not written.
LEMMA WaitingStays ==
  ASSUME TypeOK, TypeOK', QueueInv, Line' = Line,
         \A j \in Job : phase[j] = "queued" => jobPriority'[j] = jobPriority[j]
  PROVE  Waiting' = Waiting
<1>1. /\ Waiting \in Seq(Entry) /\ Len(Waiting) = Len(Line)
      /\ \A k \in 1..Len(Line) :
           Waiting[k] = [job |-> Line[k], priority |-> jobPriority[Line[k]]]
  BY WaitingIs DEF WaitingIsLine
<1>2. /\ Waiting' \in Seq(Entry) /\ Len(Waiting') = Len(Line)
      /\ \A k \in 1..Len(Line) :
           Waiting'[k] = [job |-> Line[k], priority |-> jobPriority'[Line[k]]]
  <2>1. TypeOK' => WaitingIsLine'
    BY WaitingIs, PTL
  <2>. QED
    BY <2>1 DEF WaitingIsLine, Entry
<1>3. \A k \in 1..Len(Line) : Waiting'[k] = Waiting[k]
  BY <1>1, <1>2, LineIsQueued
<1>. QED
  BY <1>1, <1>2, <1>3, SeqEqual

\* A claim moves the incoming jobs up behind those claimed before.
LEMMA ClaimKeepsLine ==
  ASSUME TypeOK, prioritizedJobs' = Line, status'.firstJob = <<>>
  PROVE  Line' = Line
<1>1. Line \in Seq(Job) /\ <<>> \in Seq(Job) /\ Len(<<>>) = 0 /\ Len(Line) \in Nat
  BY LineIs, EmptySeq
<1>2. Line' = Line \o Reverse(<<>>)
  BY DEF Line
<1>. HIDE DEF Line
<1>3. /\ Line \o Reverse(<<>>) \in Seq(Job)
      /\ Len(Line \o Reverse(<<>>)) = Len(Line) + Len(<<>>)
      /\ \A k \in 1..(Len(Line) + Len(<<>>)) :
           (Line \o Reverse(<<>>))[k] = IF k <= Len(Line) THEN Line[k]
                                        ELSE <<>>[Len(Line) + Len(<<>>) - k + 1]
  BY <1>1, ClaimProperties
<1>4. \A k \in 1..Len(Line) : (Line \o Reverse(<<>>))[k] = Line[k]
  BY <1>1, <1>3
<1>. QED
  BY <1>1, <1>2, <1>3, <1>4, SeqEqual

\* enqueue() puts its job at the end of the line.
LEMMA EnqueueAppends ==
  ASSUME TypeOK, TypeOK', QueueInv, NEW j \in Job, Enqueue(j)
  PROVE  Waiting' = Append(Waiting, [job |-> j, priority |-> jobPriority[j]])
<1>. DEFINE n == Len(Line)
            e == [job |-> j, priority |-> jobPriority[j]]
            w == Waiting
            x == Append(w, e)
<1>1. Line \in Seq(Job) /\ n \in Nat
  BY LineIs
<1>2. e \in Entry
  BY DEF TypeOK, Entry
<1>3. Line' = Append(Line, j) /\ jobPriority' = jobPriority
  <2>1. prioritizedJobs' = prioritizedJobs /\ status'.firstJob = <<j>> \o status.firstJob
    BY EnqueueEffect DEF Enqueue
  <2>2. prioritizedJobs \in Seq(Job) /\ status.firstJob \in Seq(Job)
    BY DEF TypeOK, Status
  <2>3. jobPriority' = jobPriority
    BY DEF Enqueue
  <2>. QED
    BY <2>1, <2>2, <2>3, PushAppends DEF Line
<1>. HIDE DEF Line
<1>4. /\ Len(Line') = n + 1 /\ Line'[n + 1] = j
      /\ \A k \in 1..n : Line'[k] = Line[k]
  BY <1>1, <1>3, AppendProperties
<1>5. /\ w \in Seq(Entry) /\ Len(w) = n
      /\ \A k \in 1..n : w[k] = [job |-> Line[k], priority |-> jobPriority[Line[k]]]
  BY WaitingIs DEF WaitingIsLine
<1>6. /\ Waiting' \in Seq(Entry) /\ Len(Waiting') = n + 1
      /\ \A k \in 1..(n + 1) :
           Waiting'[k] = [job |-> Line'[k], priority |-> jobPriority[Line'[k]]]
  <2>1. TypeOK' => WaitingIsLine'
    BY WaitingIs, PTL
  <2>2. /\ Waiting' \in Seq(Entry) /\ Len(Waiting') = Len(Line')
        /\ \A k \in 1..Len(Line') :
             Waiting'[k] = [job |-> Line'[k], priority |-> jobPriority'[Line'[k]]]
    BY <2>1 DEF WaitingIsLine, Entry
  <2>. QED
    BY <1>3, <1>4, <2>2
<1>. HIDE DEF w, e, n, x
<1>7. /\ x \in Seq(Entry) /\ Len(x) = Len(w) + 1 /\ x[Len(w) + 1] = e
      /\ \A k \in 1..Len(w) : x[k] = w[k]
  <2>1. w \in Seq(Entry)
    BY <1>5
  <2>2. e \in Entry
    BY <1>2
  <2>3. x = Append(w, e)
    BY DEF x
  <2>. QED
    BY <2>1, <2>2, <2>3, AppendGives
<1>8. ASSUME NEW k \in 1..(n + 1)
      PROVE  Waiting'[k] = x[k]
  <2>1. CASE k \in 1..n
    <3>1. x[k] = w[k]
      BY <1>5, <1>7, <2>1
    <3>2. w[k] = [job |-> Line[k], priority |-> jobPriority[Line[k]]]
      BY <1>5, <2>1
    <3>3. Waiting'[k] = [job |-> Line'[k], priority |-> jobPriority[Line'[k]]]
      BY <1>6
    <3>4. Line'[k] = Line[k]
      BY <1>4, <2>1
    <3>. QED
      BY <3>1, <3>2, <3>3, <3>4
  <2>2. CASE k = n + 1
    <3>1. Waiting'[k] = [job |-> j, priority |-> jobPriority[j]]
      BY <1>4, <1>6, <2>2
    <3>2. x[k] = e
      BY <1>5, <1>7, <2>2
    <3>. QED
      BY <3>1, <3>2 DEF e
  <2>. QED
    BY <1>1, <2>1, <2>2 DEF n
<1>9. Len(Waiting') = Len(x)
  BY <1>5, <1>6, <1>7
<1>10. Waiting' = x
  BY <1>6, <1>7, <1>8, <1>9, SeqEqual
<1>. QED
  BY <1>10 DEF x, w, e

\* The drainer takes its job out of the line.
LEMMA DrainTakes ==
  ASSUME IInv, TypeOK', NEW t \in Thread, NEW i \in DOMAIN prioritizedJobs, DrainOne(t, i)
  PROVE  /\ i \in 1..Len(Waiting) /\ Waiting' = RemoveAt(Waiting, i)
         /\ \A k \in 1..i : Waiting[k] = [job |-> prioritizedJobs[k],
                                        priority |-> jobPriority[prioritizedJobs[k]]]
<1>. DEFINE n == Len(Line)
            w == Waiting
            x == RemoveAt(w, i)
<1>1. /\ TypeOK /\ prioritizedJobs \in Seq(Job) /\ status.firstJob \in Seq(Job)
      /\ Line \in Seq(Job) /\ n \in Nat /\ i \in 1..Len(prioritizedJobs)
  <2>1. TypeOK /\ prioritizedJobs \in Seq(Job)
    BY DEF IInv, TypeOK
  <2>2. status.firstJob \in Seq(Job)
    BY <2>1 DEF TypeOK, Status
  <2>3. Line \in Seq(Job)
    BY <2>1, LineIs
  <2>4. n \in Nat
    BY <2>3, LenProperties
  <2>5. i \in 1..Len(prioritizedJobs)
    BY <2>1, LenProperties
  <2>. QED
    BY <2>1, <2>2, <2>3, <2>4, <2>5
<1>2. /\ n = Len(prioritizedJobs) + Len(status.firstJob)
      /\ \A k \in 1..n : k <= Len(prioritizedJobs) => Line[k] = prioritizedJobs[k]
  BY <1>1, LineIs
<1>3. Line' = RemoveAt(Line, i) /\ i \in 1..n /\ jobPriority' = jobPriority
  <2>1. prioritizedJobs' = RemoveAt(prioritizedJobs, i) /\ status' = status
        /\ jobPriority' = jobPriority
    BY DEF DrainOne
  <2>. QED
    BY <1>1, <2>1, TakeRemoves DEF Line
<1>. HIDE DEF Line
<1>4. /\ Len(Line') = n - 1
      /\ \A k \in 1..(n - 1) : Line'[k] = IF k < i THEN Line[k] ELSE Line[k + 1]
  BY <1>1, <1>3, RemoveAtProperties
<1>5. /\ w \in Seq(Entry) /\ Len(w) = n
      /\ \A k \in 1..n : w[k] = [job |-> Line[k], priority |-> jobPriority[Line[k]]]
  BY <1>1, WaitingIs DEF WaitingIsLine
<1>6. /\ Waiting' \in Seq(Entry) /\ Len(Waiting') = n - 1
      /\ \A k \in 1..(n - 1) :
           Waiting'[k] = [job |-> Line'[k], priority |-> jobPriority[Line'[k]]]
  <2>1. TypeOK' => WaitingIsLine'
    BY WaitingIs, PTL
  <2>2. /\ Waiting' \in Seq(Entry) /\ Len(Waiting') = Len(Line')
        /\ \A k \in 1..Len(Line') :
             Waiting'[k] = [job |-> Line'[k], priority |-> jobPriority'[Line'[k]]]
    BY <2>1 DEF WaitingIsLine, Entry
  <2>. QED
    BY <1>3, <1>4, <2>2
<1>7. \A k \in 1..i : w[k] = [job |-> prioritizedJobs[k],
                            priority |-> jobPriority[prioritizedJobs[k]]]
  <2>1. ASSUME NEW k \in 1..i
        PROVE  k \in 1..n /\ k <= Len(prioritizedJobs)
    <3>1. Len(prioritizedJobs) \in Nat /\ Len(status.firstJob) \in Nat
      BY <1>1, LenProperties
    <3>. QED
      BY <1>1, <1>2, <3>1
  <2>. QED
    BY <1>2, <1>5, <2>1
<1>8. n \in Nat
  BY <1>1
<1>. HIDE DEF n, w
<1>9. /\ x \in Seq(Entry) /\ Len(x) = Len(w) - 1
      /\ \A k \in 1..(Len(w) - 1) : x[k] = IF k < i THEN w[k] ELSE w[k + 1]
  BY <1>3, <1>5, RemoveAtProperties
<1>. HIDE DEF x
<1>10. ASSUME NEW k \in 1..(n - 1)
       PROVE  Waiting'[k] = x[k]
  <2>1. k \in 1..n /\ k + 1 \in 1..n
    BY <1>8
  <2>2. /\ w[k] = [job |-> Line[k], priority |-> jobPriority[Line[k]]]
        /\ w[k + 1] = [job |-> Line[k + 1], priority |-> jobPriority[Line[k + 1]]]
    BY <1>5, <2>1
  <2>3. Waiting'[k] = [job |-> Line'[k], priority |-> jobPriority[Line'[k]]]
    BY <1>6
  <2>4. x[k] = IF k < i THEN w[k] ELSE w[k + 1]
    BY <1>5, <1>9
  <2>5. Line'[k] = IF k < i THEN Line[k] ELSE Line[k + 1]
    BY <1>4
  <2>. QED
    BY <2>2, <2>3, <2>4, <2>5
<1>11. Waiting' = x
  BY <1>5, <1>6, <1>9, <1>10, SeqEqual
<1>. QED
  BY <1>3, <1>5, <1>7, <1>11 DEF x, w

-----------------------------------------------------------------------------
(* The occupant *)

OccupantIs ==
  /\ \A t \in Thread : pc[t] \in {"start", "on"} => Occupant = cur[t] /\ cur[t] \in Job
  /\ (\A t \in Thread : pc[t] \notin {"start", "on"}) => Occupant = NoJob

\* The occupant is the task of the one thread that has a task on the actor.
LEMMA OccupantIsCurrent == IInv => OccupantIs
<1>. SUFFICES ASSUME IInv
              PROVE  OccupantIs
  OBVIOUS
<1>. DEFINE on == {t \in Thread : pc[t] \in {"start", "on"}}
<1>1. Occupant = IF on = {} THEN NoJob ELSE cur[CHOOSE t \in on : TRUE]
  BY DEF Occupant
<1>2. ASSUME NEW t \in Thread, pc[t] \in {"start", "on"}
      PROVE  Occupant = cur[t] /\ cur[t] \in Job
  <2>1. t \in on
    BY <1>2
  <2>2. (CHOOSE u \in on : TRUE) \in on
    BY <2>1
  <2>3. \A u \in on : u = t
    BY <1>2 DEF IInv, LockInv, HoldsLock
  <2>4. cur[t] \in Job
    BY <1>2 DEF IInv, FollowInv, Follower
  <2>. HIDE DEF on
  <2>5. on # {}
    BY <2>1
  <2>. QED
    BY <1>1, <2>2, <2>3, <2>4, <2>5
<1>3. (\A t \in Thread : pc[t] \notin {"start", "on"}) => Occupant = NoJob
  BY <1>1
<1>. QED
  BY <1>2, <1>3 DEF OccupantIs

\* The occupant stays while the same threads are on the actor with the same tasks.
LEMMA OccupantKept ==
  ASSUME IInv, IInv',
         \A t \in Thread : pc'[t] \in {"start", "on"} <=> pc[t] \in {"start", "on"},
         \A t \in Thread : pc[t] \in {"start", "on"} => cur'[t] = cur[t]
  PROVE  Occupant' = Occupant
<1>1. OccupantIs
  BY OccupantIsCurrent
<1>2. OccupantIs'
  <2>1. IInv' => OccupantIs'
    BY OccupantIsCurrent, PTL
  <2>. QED
    BY <2>1
<1>3. CASE \E t \in Thread : pc[t] \in {"start", "on"}
  <2>1. PICK t \in Thread : pc[t] \in {"start", "on"}
    BY <1>3
  <2>2. Occupant = cur[t]
    BY <1>1, <2>1 DEF OccupantIs
  <2>3. Occupant' = cur'[t]
    BY <1>2, <2>1 DEF OccupantIs
  <2>. QED
    BY <2>1, <2>2, <2>3
<1>4. CASE \A t \in Thread : pc[t] \notin {"start", "on"}
  <2>1. Occupant = NoJob
    BY <1>1, <1>4 DEF OccupantIs
  <2>2. Occupant' = NoJob
    BY <1>2, <1>4 DEF OccupantIs
  <2>. QED
    BY <2>1, <2>2
<1>. QED
  BY <1>3, <1>4

\* A thread that has given the task up, but not yet the lock, leaves the actor unoccupied.
LEMMA LockKeepsOthersOut ==
  ASSUME IInv, NEW t \in Thread, HoldsLock(t), pc[t] \notin {"start", "on"}
  PROVE  Occupant = NoJob
<1>1. \A u \in Thread : pc[u] \notin {"start", "on"}
  BY DEF IInv, LockInv, HoldsLock
<1>. QED
  BY <1>1, OccupantIsCurrent DEF OccupantIs

\* When the thread of the occupant leaves, the actor is unoccupied.
LEMMA OccupantLeaves ==
  ASSUME IInv, IInv', NEW t \in Thread, pc[t] = "on", pc'[t] \notin {"start", "on"},
         \A u \in Thread \ {t} : pc'[u] = pc[u]
  PROVE  Occupant # NoJob /\ Occupant' = NoJob
<1>1. Occupant # NoJob
  BY OccupantIsCurrent, NameAssumption DEF OccupantIs
<1>2. \A u \in Thread : pc'[u] \notin {"start", "on"}
  BY DEF IInv, LockInv, HoldsLock
<1>3. OccupantIs'
  <2>1. IInv' => OccupantIs'
    BY OccupantIsCurrent, PTL
  <2>. QED
    BY <2>1
<1>. QED
  BY <1>1, <1>2, <1>3 DEF OccupantIs

-----------------------------------------------------------------------------
(* The refinement *)

\* A queued job keeps its priority when the priorities and the line stay.
LEMMA LineStays ==
  ASSUME IInv, IInv', prioritizedJobs' = prioritizedJobs,
         status'.firstJob = status.firstJob, jobPriority' = jobPriority
  PROVE  Waiting' = Waiting
<1>1. Line' = Line
  BY DEF Line
<1>. QED
  BY <1>1, WaitingStays DEF IInv

\* What a step of the actor shows of the serial executor.
Shown ==
  \/ \E j \in Job : Enqueue(j) /\ Abstract!Submit(j, jobPriority[j])
  \/ \E i \in DOMAIN Waiting : Abstract!Start(i)
  \/ \E j \in Job : Abstract!Enter(j)
  \/ Abstract!Leave
  \/ UNCHANGED <<Waiting, Occupant>>

\* Every step of the actor is a step of the serial executor or changes nothing it shows.
LEMMA SerialStep == IInv /\ IInv' /\ [Next]_vars => Shown
<1>. SUFFICES ASSUME IInv, IInv', [Next]_vars
              PROVE  Shown
  OBVIOUS
<1>. USE DEF actorVars, threadVars, taskVars
<1>0. TypeOK /\ TypeOK' /\ QueueInv
  BY DEF IInv
<1>1. ASSUME NEW t \in Thread, NEW i \in DOMAIN procs, ProcessJob(t, i)
      PROVE  UNCHANGED <<Waiting, Occupant>>
  <2>1. Line' = Line
    <3>1. CASE prioritizedJobs' = prioritizedJobs /\ status' = status
      BY <3>1 DEF Line
    <3>2. CASE prioritizedJobs' = Line /\ status'.firstJob = <<>>
      BY <1>0, <3>2, ClaimKeepsLine
    <3>. QED
      BY <1>1, <3>1, <3>2, ProcessJobEffect DEF Line
  <2>2. pc[t] = "idle" /\ (pc' = pc \/ pc' = [pc EXCEPT ![t] = "drain"]) /\ cur' = cur
        /\ jobPriority' = jobPriority
    BY <1>1, ProcessJobEffect DEF ProcessJob
  <2>3. Waiting' = Waiting
    BY <1>0, <2>1, <2>2, WaitingStays
  <2>4. Occupant' = Occupant
    BY <1>0, <2>2, OccupantKept DEF TypeOK
  <2>. QED
    BY <2>3, <2>4
<1>2. ASSUME NEW t \in Thread, NEW i \in DOMAIN prioritizedJobs, DrainOne(t, i)
      PROVE  Shown
  <2>1. /\ i \in 1..Len(Waiting) /\ Waiting' = RemoveAt(Waiting, i)
        /\ \A k \in 1..i : Waiting[k] = [job |-> prioritizedJobs[k],
                                       priority |-> jobPriority[prioritizedJobs[k]]]
    BY <1>0, <1>2, DrainTakes
  <2>2. /\ Waiting \in Seq(Entry) /\ prioritizedJobs \in Seq(Job)
        /\ i \in 1..Len(prioritizedJobs) /\ i \in Nat
    <3>1. Waiting \in Seq(Entry)
      BY <1>0, WaitingIs DEF WaitingIsLine
    <3>2. prioritizedJobs \in Seq(Job)
      BY <1>0 DEF TypeOK
    <3>3. i \in 1..Len(prioritizedJobs) /\ i \in Nat
      BY <3>2, LenProperties
    <3>. QED
      BY <3>1, <3>2, <3>3
  <2>3. i \in DOMAIN Waiting
    BY <2>1, <2>2, LenProperties
  <2>4. Occupant = NoJob
    BY <1>2, LockKeepsOthersOut DEF DrainOne, HoldsLock
  <2>5. ASSUME NEW k \in 1..(i - 1)
        PROVE  Waiting[k].priority < Waiting[i].priority
    <3>1. k \in 1..i /\ i \in 1..i /\ k \in 1..Len(prioritizedJobs) /\ ~(i <= k)
      BY <2>2
    <3>2. k \in DOMAIN prioritizedJobs
      BY <2>2, <3>1, LenProperties
    <3>3. jobPriority[prioritizedJobs[k]] < jobPriority[prioritizedJobs[i]]
      BY <1>2, <3>1, <3>2 DEF DrainOne, Dequeues
    <3>4. /\ Waiting[k].priority = jobPriority[prioritizedJobs[k]]
          /\ Waiting[i].priority = jobPriority[prioritizedJobs[i]]
      <4>1. /\ Waiting[k] = [job |-> prioritizedJobs[k],
                            priority |-> jobPriority[prioritizedJobs[k]]]
            /\ Waiting[i] = [job |-> prioritizedJobs[i],
                            priority |-> jobPriority[prioritizedJobs[i]]]
        BY <2>1, <2>2, <3>1
      <4>. QED
        BY <4>1
    <3>. QED
      BY <3>3, <3>4
  <2>6. Occupant' = Waiting[i].job
    <3>1. pc'[t] = "start" /\ cur'[t] = prioritizedJobs[i]
      BY <1>0, <1>2 DEF DrainOne, Goes, TypeOK
    <3>2. IInv' => OccupantIs'
      BY OccupantIsCurrent, PTL
    <3>3. Occupant' = cur'[t]
      BY <3>1, <3>2 DEF OccupantIs
    <3>4. Waiting[i].job = prioritizedJobs[i]
      <4>1. Waiting[i] = [job |-> prioritizedJobs[i],
                          priority |-> jobPriority[prioritizedJobs[i]]]
        BY <2>1, <2>2
      <4>. QED
        BY <4>1
    <3>. QED
      BY <3>1, <3>3, <3>4
  <2>7. Abstract!Start(i)
    BY <2>1, <2>4, <2>5, <2>6 DEF Abstract!Start, Abstract!RemoveAt, RemoveAt
  <2>. QED
    BY <2>3, <2>7 DEF Shown
<1>3. ASSUME NEW t \in Thread, StartJob(t)
      PROVE  UNCHANGED <<Waiting, Occupant>>
  <2>1. Waiting' = Waiting
    BY <1>3, LineStays DEF StartJob
  <2>2. Occupant' = Occupant
    BY <1>0, <1>3, OccupantKept DEF StartJob, Goes, TypeOK
  <2>. QED
    BY <2>1, <2>2
<1>4. ASSUME NEW t \in Thread, processIncomingQueue(t)
      PROVE  UNCHANGED <<Waiting, Occupant>>
  <2>1. prioritizedJobs' = Line /\ status'.firstJob = <<>>
    BY <1>0, <1>4, IncomingEffect DEF Line
  <2>2. Line' = Line
    BY <1>0, <2>1, ClaimKeepsLine
  <2>3. jobPriority' = jobPriority
    BY <1>4 DEF processIncomingQueue
  <2>4. Waiting' = Waiting
    BY <1>0, <2>2, <2>3, WaitingStays
  <2>5. Occupant' = Occupant
    BY <1>0, <1>4, OccupantKept DEF processIncomingQueue, Goes, TypeOK
  <2>. QED
    BY <2>4, <2>5
<1>5. ASSUME NEW t \in Thread, UnlockDrained(t)
      PROVE  UNCHANGED <<Waiting, Occupant>>
  <2>1. status'.firstJob = status.firstJob
    BY <1>0, <1>5, UnlockDrainedEffect, UnlockEffect
  <2>2. Waiting' = Waiting
    BY <1>5, <2>1, LineStays DEF UnlockDrained
  <2>3. /\ pc[t] = "drain" /\ pc'[t] \in {"idle", "incoming"}
        /\ \A u \in Thread \ {t} : pc'[u] = pc[u] /\ cur'[u] = cur[u]
    BY <1>0, <1>5 DEF UnlockDrained, GoesIdle, Goes, TypeOK
  <2>4. Occupant' = Occupant
    BY <2>3, OccupantKept
  <2>. QED
    BY <2>2, <2>4
<1>6. ASSUME NEW t \in Thread, LeaveJobRun(t)
      PROVE  UNCHANGED <<Waiting, Occupant>>
  <2>1. status'.firstJob = status.firstJob
    BY <1>0, <1>6, UnlockEffect DEF LeaveJobRun
  <2>2. Waiting' = Waiting
    BY <1>6, <2>1, LineStays DEF LeaveJobRun
  <2>3. /\ pc[t] = "leave" /\ pc'[t] = "idle"
        /\ \A u \in Thread \ {t} : pc'[u] = pc[u] /\ cur'[u] = cur[u]
    BY <1>0, <1>6 DEF LeaveJobRun, GoesIdle, Goes, TypeOK
  <2>4. Occupant' = Occupant
    BY <2>3, OccupantKept
  <2>. QED
    BY <2>2, <2>4
<1>7. ASSUME NEW t \in Thread, NEW j \in Job, RunJob(t, j)
      PROVE  UNCHANGED <<Waiting, Occupant>>
  <2>1. Waiting' = Waiting
    BY <1>7, LineStays DEF RunJob
  <2>2. Occupant' = Occupant
    BY <1>0, <1>7, OccupantKept DEF RunJob, Goes, TypeOK
  <2>. QED
    BY <2>1, <2>2
<1>8. ASSUME NEW t \in Thread, SwitchToActor(t)
      PROVE  Shown
  <2>1. cur[t] \in Job /\ pc[t] = "off"
    BY <1>8 DEF SwitchToActor, Follows, IInv, FollowInv, Follower
  <2>2. status.state = "Idle" /\ ~hasWork
    <3>1. status.state \notin {"Running", "Scheduled"} /\ holders # {}
      BY <1>8 DEF SwitchToActor, TryLockUncontended
    <3>2. status.state = "Idle"
      BY <3>1 DEF IInv, LifeInv, TypeOK, Status
    <3>. QED
      BY <3>2 DEF IInv, StateInv
  <2>3. Occupant = NoJob
    <3>1. \A u \in Thread : pc[u] \notin {"start", "on"}
      BY <2>2 DEF IInv, LockInv, HoldsLock
    <3>. QED
      BY <3>1, OccupantIsCurrent DEF OccupantIs
  <2>4. Waiting = <<>>
    <3>1. Line \in Seq(Job) /\ Len(Line) = 0
      BY <1>0, <2>2, LineIs, EmptySeq DEF hasWork
    <3>2. Waiting \in Seq(Entry) /\ Len(Waiting) = 0
      BY <1>0, <3>1, WaitingIs DEF WaitingIsLine
    <3>. QED
      BY <3>2, EmptySeq
  <2>5. Waiting' = Waiting
    BY <1>0, <1>8, LineStays, LockUncontendedEffect DEF SwitchToActor
  <2>6. Occupant' = cur[t]
    <3>1. pc'[t] = "on" /\ cur' = cur
      BY <1>0, <1>8 DEF SwitchToActor, Goes, TypeOK
    <3>2. IInv' => OccupantIs'
      BY OccupantIsCurrent, PTL
    <3>. QED
      BY <3>1, <3>2 DEF OccupantIs
  <2>7. Abstract!Enter(cur[t])
    BY <2>3, <2>4, <2>5, <2>6 DEF Abstract!Enter
  <2>. QED
    BY <2>1, <2>7 DEF Shown
<1>9. ASSUME NEW t \in Thread, SwitchByEnqueue(t)
      PROVE  UNCHANGED <<Waiting, Occupant>>
  <2>1. cur[t] \in Job /\ pc[t] = "off" /\ phase[cur[t]] = "running"
    BY <1>9 DEF SwitchByEnqueue, Follows, IInv, FollowInv, Follower
  <2>2. Line' = Line
    BY <1>9 DEF SwitchByEnqueue, Line
  <2>3. \A j \in Job : phase[j] = "queued" => jobPriority'[j] = jobPriority[j]
    BY <1>0, <1>9, <2>1 DEF SwitchByEnqueue, flagAsAndEnqueueOnExecutor, TypeOK
  <2>4. Waiting' = Waiting
    BY <1>0, <2>2, <2>3, WaitingStays
  <2>5. /\ pc'[t] = "idle"
        /\ \A u \in Thread \ {t} : pc'[u] = pc[u] /\ cur'[u] = cur[u]
    BY <1>0, <1>9 DEF SwitchByEnqueue, GoesIdle, Goes, TypeOK
  <2>6. Occupant' = Occupant
    BY <2>1, <2>5, OccupantKept
  <2>. QED
    BY <2>4, <2>6
<1>10. ASSUME NEW t \in Thread, SwitchFromActor(t)
       PROVE  Shown
  <2>1. status'.firstJob = status.firstJob
    BY <1>0, <1>10, UnlockEffect DEF SwitchFromActor
  <2>2. Waiting' = Waiting
    BY <1>10, <2>1, LineStays DEF SwitchFromActor
  <2>3. pc[t] = "on" /\ pc'[t] = "off" /\ \A u \in Thread \ {t} : pc'[u] = pc[u]
    BY <1>0, <1>10 DEF SwitchFromActor, Follows, Goes, TypeOK
  <2>4. Occupant # NoJob /\ Occupant' = NoJob
    BY <2>3, OccupantLeaves
  <2>. QED
    BY <2>2, <2>4 DEF Shown, Abstract!Leave
<1>11. ASSUME NEW t \in Thread, ReleaseByTask(t)
       PROVE  UNCHANGED <<Waiting, Occupant>>
  <2>1. Waiting' = Waiting
    BY <1>11, LineStays DEF ReleaseByTask
  <2>2. Occupant' = Occupant
    BY <1>11, OccupantKept DEF ReleaseByTask
  <2>. QED
    BY <2>1, <2>2
<1>12. ASSUME NEW t \in Thread, ReturnOnActor(t)
       PROVE  Shown
  <2>1. Waiting' = Waiting
    BY <1>12, LineStays DEF ReturnOnActor
  <2>2. /\ pc[t] = "on" /\ pc'[t] \in {"incoming", "leave"}
        /\ \A u \in Thread \ {t} : pc'[u] = pc[u]
    BY <1>0, <1>12 DEF ReturnOnActor, Follows, Goes, TypeOK
  <2>3. Occupant # NoJob /\ Occupant' = NoJob
    BY <2>2, OccupantLeaves
  <2>. QED
    BY <2>1, <2>3 DEF Shown, Abstract!Leave
<1>13. ASSUME NEW t \in Thread, ReturnOffActor(t)
       PROVE  UNCHANGED <<Waiting, Occupant>>
  <2>1. Waiting' = Waiting
    BY <1>13, LineStays DEF ReturnOffActor
  <2>2. /\ pc[t] = "off" /\ pc'[t] = "idle"
        /\ \A u \in Thread \ {t} : pc'[u] = pc[u] /\ cur'[u] = cur[u]
    BY <1>0, <1>13 DEF ReturnOffActor, Follows, GoesIdle, Goes, TypeOK
  <2>3. Occupant' = Occupant
    BY <2>2, OccupantKept
  <2>. QED
    BY <2>1, <2>3
<1>14. ASSUME NEW j \in Job, ResumeOnActor(j)
       PROVE  UNCHANGED <<Waiting, Occupant>>
  <2>1. Line' = Line
    BY <1>14 DEF ResumeOnActor, Line
  <2>2. \A k \in Job : phase[k] = "queued" => jobPriority'[k] = jobPriority[k]
    BY <1>0, <1>14 DEF ResumeOnActor, flagAsAndEnqueueOnExecutor, TypeOK
  <2>3. Waiting' = Waiting
    BY <1>0, <2>1, <2>2, WaitingStays
  <2>4. Occupant' = Occupant
    BY <1>14, OccupantKept DEF ResumeOnActor
  <2>. QED
    BY <2>3, <2>4
<1>15. ASSUME NEW j \in Job, Enqueue(j)
       PROVE  Shown
  <2>1. Waiting' = Append(Waiting, [job |-> j, priority |-> jobPriority[j]])
    BY <1>0, <1>15, EnqueueAppends
  <2>2. Occupant' = Occupant
    BY <1>15, OccupantKept DEF Enqueue
  <2>3. /\ Waiting \in Seq(Entry) /\ Len(Waiting) = Len(Line)
        /\ \A k \in 1..Len(Line) :
             Waiting[k] = [job |-> Line[k], priority |-> jobPriority[Line[k]]]
    BY <1>0, WaitingIs DEF WaitingIsLine
  <2>4. ASSUME NEW k \in DOMAIN Waiting
        PROVE  Waiting[k].job # j
    <3>1. k \in 1..Len(Line)
      BY <2>3, LenProperties
    <3>2. Waiting[k].job = Line[k] /\ phase[Line[k]] = "queued"
      <4>1. Waiting[k] = [job |-> Line[k], priority |-> jobPriority[Line[k]]]
        BY <2>3, <3>1
      <4>. QED
        BY <1>0, <3>1, <4>1, LineIsQueued
    <3>. QED
      BY <1>15, <3>2 DEF Enqueue
  <2>5. Abstract!Submit(j, jobPriority[j])
    BY <2>1, <2>2, <2>4 DEF Abstract!Submit
  <2>. QED
    BY <1>15, <2>5 DEF Shown
<1>16. ASSUME NEW j \in Job, NEW p \in Priority, TaskEscalate(j, p)
       PROVE  UNCHANGED <<Waiting, Occupant>>
  <2>1. Waiting' = Waiting
    BY <1>16, LineStays DEF TaskEscalate
  <2>2. Occupant' = Occupant
    BY <1>16, OccupantKept DEF TaskEscalate
  <2>. QED
    BY <2>1, <2>2
<1>17. ASSUME NEW j \in Job, EnqueueStealer(j)
       PROVE  UNCHANGED <<Waiting, Occupant>>
  <2>1. Waiting' = Waiting
    BY <1>0, <1>17, LineStays, EnqueueStealerEffect DEF EnqueueStealer
  <2>2. Occupant' = Occupant
    BY <1>17, OccupantKept DEF EnqueueStealer
  <2>. QED
    BY <2>1, <2>2
<1>18. ASSUME NEW j \in Job, StealerOverride(j) \/ StealerSchedule(j)
       PROVE  UNCHANGED <<Waiting, Occupant>>
  <2>1. Waiting' = Waiting
    BY <1>18, LineStays DEF StealerOverride, StealerSchedule
  <2>2. Occupant' = Occupant
    BY <1>18, OccupantKept DEF StealerOverride, StealerSchedule
  <2>. QED
    BY <2>1, <2>2
<1>19. ASSUME NEW i \in DOMAIN overriders, FinishEnqueue(i)
       PROVE  UNCHANGED <<Waiting, Occupant>>
  <2>1. Waiting' = Waiting
    BY <1>19, LineStays DEF FinishEnqueue
  <2>2. Occupant' = Occupant
    BY <1>19, OccupantKept DEF FinishEnqueue
  <2>. QED
    BY <2>1, <2>2
<1>20. ASSUME ReleaseByOthers \/ Destroy
       PROVE  UNCHANGED <<Waiting, Occupant>>
  <2>1. Waiting' = Waiting
    BY <1>20, LineStays DEF ReleaseByOthers, Destroy
  <2>2. Occupant' = Occupant
    BY <1>20, OccupantKept DEF ReleaseByOthers, Destroy
  <2>. QED
    BY <2>1, <2>2
<1>21. ASSUME Deallocate
       PROVE  UNCHANGED <<Waiting, Occupant>>
  <2>1. Waiting' = Waiting
    BY <1>0, <1>21, LineStays, DeallocateEffect DEF Deallocate
  <2>2. Occupant' = Occupant
    BY <1>21, OccupantKept DEF Deallocate
  <2>. QED
    BY <2>1, <2>2
<1>22. CASE UNCHANGED vars
  <2>1. Waiting' = Waiting
    BY <1>22, LineStays DEF vars
  <2>2. Occupant' = Occupant
    BY <1>22, OccupantKept DEF vars
  <2>. QED
    BY <2>1, <2>2 DEF Shown
<1>23. UNCHANGED <<Waiting, Occupant>> => Shown
  BY DEF Shown
<1>. QED
  BY <1>1, <1>2, <1>3, <1>4, <1>5, <1>6, <1>7, <1>8, <1>9, <1>10, <1>11, <1>12, <1>13, <1>14,
     <1>15, <1>16, <1>17, <1>18, <1>19, <1>20, <1>21, <1>22, <1>23
  DEF Next, ThreadStep, Drain, UserCode, Returns, TaskStep, StealerStep, ObjectStep

\* The batch claims, the hand-over between threads and the switch fast path implement a serial
\* executor that starts jobs by priority and, among equals, in order of submission.
THEOREM ActorIsSerialExecutor == Spec => ImplementsSerialExecutor
<1>1. Init => Abstract!Init
  <2>. SUFFICES ASSUME Init
                PROVE  Waiting = <<>> /\ Occupant = NoJob
    BY DEF Abstract!Init
  <2>1. IInv
    BY InitInv
  <2>2. Line \in Seq(Job) /\ Len(Line) = 0
    BY <2>1, LineIs, EmptySeq DEF Init, IInv
  <2>3. Waiting \in Seq(Entry) /\ Len(Waiting) = 0
    BY <2>1, <2>2, WaitingIs DEF WaitingIsLine, IInv
  <2>4. Occupant = NoJob
    BY DEF Init, Occupant
  <2>. QED
    BY <2>3, <2>4, EmptySeq
<1>2. IInv /\ IInv' /\ [Next]_vars => [Abstract!Next]_Abstract!vars
  <2>. SUFFICES ASSUME IInv, IInv', [Next]_vars
                PROVE  Abstract!Next \/ UNCHANGED <<Waiting, Occupant>>
    BY DEF Abstract!vars
  <2>1. Shown
    BY SerialStep
  <2>2. \A j \in Job : jobPriority[j] \in 1..MaxPriority
    BY DEF IInv, TypeOK, Priority
  <2>. QED
    BY <2>1, <2>2 DEF Shown, Abstract!Next
<1>. QED
  BY <1>1, <1>2, Invariance, PTL DEF Spec, ImplementsSerialExecutor, Abstract!Spec

-----------------------------------------------------------------------------
(* Priorities *)

\* The status word has a priority no job in line exceeds.
BelowMax == \A k \in 1..Len(Waiting) : Waiting[k].priority <= status.maxPriority

\* The drainer runs at priority p, or an override to p is on its way to it.
Raised(p) ==
  \/ qos >= p
  \/ \E i \in 1..Len(overriders) :
       overriders[i].drainer = status.drainer /\ overriders[i].priority >= p
  \/ \E j \in Job :
       esc[j].pc = "override" /\ esc[j].drainer = status.drainer /\ esc[j].priority >= p

\* A processing job of priority p is in the pool, or a stealer is about to schedule one.
Coming(p) ==
  \/ \E i \in 1..Len(procs) : procs[i].priority >= p
  \/ \E j \in Job : esc[j].pc = "steal" /\ esc[j].priority >= p

\* The priority in the status word is represented by a thread or by a pending call.
CoverInv ==
  PriorityEscalation =>
    /\ status.state = "Running" => Raised(status.maxPriority)
    /\ status.state = "Scheduled" => Coming(status.maxPriority)

\* The line keeps below a priority that only rises.
LEMMA BelowKept ==
  ASSUME IInv, IInv', BelowMax, Waiting' = Waiting,
         status'.maxPriority >= status.maxPriority
  PROVE  BelowMax'
<1>1. status.maxPriority \in Nat /\ status'.maxPriority \in Nat
  BY PriorityAssumption DEF IInv, TypeOK, Status
<1>2. Waiting \in Seq(Entry)
  BY WaitingIs DEF IInv, WaitingIsLine
<1>3. ASSUME NEW k \in 1..Len(Waiting)
      PROVE  Waiting[k].priority <= status'.maxPriority
  <2>1. Waiting[k] \in Entry
    BY <1>2, ElementOfSeq
  <2>2. Waiting[k].priority \in Nat
    BY <2>1, PriorityAssumption DEF Entry, Priority
  <2>3. Waiting[k].priority <= status.maxPriority
    BY DEF BelowMax
  <2>. QED
    BY <1>1, <2>2, <2>3
<1>4. Waiting' = Waiting
  OBVIOUS
<1>. QED
  BY <1>3, <1>4 DEF BelowMax

\* What enqueue() does to the priority in the status word, and how it sees to it.
LEMMA EnqueueRaises ==
  ASSUME TypeOK, NEW j \in Job, Enqueue(j)
  PROVE  \/ /\ status.state = "Idle" /\ status'.maxPriority = jobPriority[j]
            /\ \E e \in {"task", "global"} : scheduleActorProcessJob(jobPriority[j], e)
         \/ /\ status.state # "Idle" /\ jobPriority[j] > status.maxPriority
            /\ status'.maxPriority = jobPriority[j]
            /\ PriorityEscalation /\ status.state = "Running" =>
                 overriders' = Append(overriders, [drainer |-> status.drainer,
                                                   priority |-> jobPriority[j]])
            /\ PriorityEscalation /\ status.state = "Scheduled" =>
                 \E e \in {"task", "global"} : scheduleActorProcessJob(jobPriority[j], e)
         \/ /\ status.state # "Idle" /\ ~(jobPriority[j] > status.maxPriority)
            /\ status'.maxPriority = status.maxPriority
            /\ procs' = procs /\ overriders' = overriders
<1>. DEFINE pushed == withFirstUnprioritizedJob(status, <<j>> \o status.firstJob)
            p == jobPriority[j]
<1>1. p \in 0..MaxPriority
  BY PriorityAssumption DEF TypeOK, Priority
<1>2. <<j>> \o status.firstJob \in Seq(Job)
  BY DEF TypeOK, Status
<1>3. pushed \in Status /\ pushed.maxPriority = status.maxPriority
  BY <1>2, FirstJobStatus DEF TypeOK
<1>4. fromTaskExecutorPreference(j) \in {"task", "global"}
  BY DEF fromTaskExecutorPreference
<1>. HIDE DEF pushed, p
<1>5. /\ withNewPriority(withScheduled(pushed), p).maxPriority = p
      /\ withEscalatedPriority(pushed, p).maxPriority = p
  BY <1>1, <1>3, ScheduledStatus, NewPriorityStatus, EscalatedStatus
<1>6. CASE status.state = "Idle"
  <2>1. /\ status' = withNewPriority(withScheduled(pushed), p)
        /\ scheduleActorProcessJob(p, fromTaskExecutorPreference(j))
    BY <1>6 DEF Enqueue, pushed, p
  <2>. QED
    BY <1>4, <1>5, <1>6, <2>1 DEF p
<1>7. CASE status.state # "Idle" /\ p > status.maxPriority
  <2>1. /\ status' = withEscalatedPriority(pushed, p)
        /\ PriorityEscalation /\ status.state = "Running" =>
             overriders' = Append(overriders, [drainer |-> status.drainer, priority |-> p])
        /\ PriorityEscalation /\ status.state = "Scheduled" =>
             \E e \in {"task", "global"} : scheduleActorProcessJob(p, e)
    BY <1>4, <1>7 DEF Enqueue, pushed, p
  <2>. QED
    BY <1>5, <1>7, <2>1 DEF p
<1>8. CASE status.state # "Idle" /\ ~(p > status.maxPriority)
  <2>1. status' = pushed /\ procs' = procs /\ overriders' = overriders
    BY <1>8 DEF Enqueue, pushed, p
  <2>. QED
    BY <1>3, <1>8, <2>1 DEF p
<1>. QED
  BY <1>6, <1>7, <1>8

\* What enqueueStealer() does to the priority in the status word.
LEMMA StealerRaises ==
  ASSUME TypeOK, NEW j \in Job, EnqueueStealer(j)
  PROVE  \/ status' = status /\ esc' = [esc EXCEPT ![j] = NoEscalation]
         \/ /\ esc[j].priority > status.maxPriority
            /\ status'.maxPriority = esc[j].priority
            /\ PriorityEscalation /\ status.state = "Running" =>
                 esc'[j] = [pc |-> "override", priority |-> esc[j].priority,
                            drainer |-> status.drainer]
            /\ PriorityEscalation /\ status.state = "Scheduled" =>
                 esc'[j] = [pc |-> "steal", priority |-> esc[j].priority,
                            drainer |-> status.drainer]
<1>1. esc[j].priority \in 0..MaxPriority /\ status \in Status /\ esc \in [Job -> Escalation]
  BY DEF TypeOK, Escalation
<1>2. withEscalatedPriority(status, esc[j].priority).maxPriority = esc[j].priority
  BY <1>1, EscalatedStatus
<1>. QED
  BY <1>1, <1>2 DEF EnqueueStealer

\* The priority in the status word only rises, but for an unlock() that finds no work.
LEMMA PriorityRises ==
  ASSUME IInv, IInv', [Next]_vars
  PROVE  \/ status'.maxPriority >= status.maxPriority
         \/ Len(Waiting) = 0
<1>. USE DEF actorVars, threadVars, taskVars
<1>0. TypeOK /\ status.maxPriority \in Nat
  <2>1. TypeOK
    BY DEF IInv
  <2>2. status.maxPriority \in 0..MaxPriority
    BY <2>1 DEF TypeOK, Status
  <2>. QED
    BY <2>1, <2>2, PriorityAssumption
<1>1. ASSUME ~hasWork
      PROVE  Len(Waiting) = 0
  <2>1. Line \in Seq(Job) /\ Len(Line) = 0
    BY <1>0, <1>1, LineIs, EmptySeq DEF hasWork
  <2>. QED
    BY <1>0, <2>1, WaitingIs DEF WaitingIsLine
<1>2. ASSUME ForceUnlock
      PROVE  status'.maxPriority = status.maxPriority \/ Len(Waiting) = 0
  BY <1>0, <1>1, <1>2, UnlockEffect
<1>3. ASSUME NEW t \in Thread, ThreadStep(t)
      PROVE  status'.maxPriority = status.maxPriority \/ Len(Waiting) = 0
  <2>1. ASSUME NEW i \in DOMAIN procs, ProcessJob(t, i)
        PROVE  status'.maxPriority = status.maxPriority
    BY <2>1, ProcessJobEffect
  <2>2. ASSUME Drain(t)
        PROVE  status'.maxPriority = status.maxPriority \/ Len(Waiting) = 0
    <3>1. CASE \E i \in DOMAIN prioritizedJobs : DrainOne(t, i)
      BY <3>1 DEF DrainOne
    <3>2. CASE StartJob(t)
      BY <3>2 DEF StartJob
    <3>3. CASE processIncomingQueue(t)
      BY <1>0, <3>3, IncomingEffect
    <3>4. CASE UnlockDrained(t)
      BY <1>2, <3>4, UnlockDrainedEffect
    <3>5. CASE LeaveJobRun(t)
      BY <1>2, <3>5 DEF LeaveJobRun
    <3>. QED
      BY <2>2, <3>1, <3>2, <3>3, <3>4, <3>5 DEF Drain
  <2>3. ASSUME UserCode(t)
        PROVE  status'.maxPriority = status.maxPriority \/ Len(Waiting) = 0
    <3>1. CASE SwitchToActor(t)
      BY <1>0, <3>1, LockUncontendedEffect DEF SwitchToActor
    <3>2. CASE SwitchByEnqueue(t)
      BY <3>2 DEF SwitchByEnqueue
    <3>3. CASE SwitchFromActor(t)
      BY <1>2, <3>3 DEF SwitchFromActor
    <3>4. CASE ReleaseByTask(t)
      BY <3>4 DEF ReleaseByTask
    <3>. QED
      BY <2>3, <3>1, <3>2, <3>3, <3>4 DEF UserCode
  <2>. QED
    BY <1>3, <2>1, <2>2, <2>3 DEF ThreadStep, RunJob, Returns, ReturnOnActor, ReturnOffActor
<1>4. ASSUME NEW j \in Job, TaskStep(j)
      PROVE  status'.maxPriority >= status.maxPriority
  <2>1. CASE Enqueue(j)
    <3>1. jobPriority[j] \in Nat
      BY <1>0, PriorityAssumption DEF TypeOK, Priority
    <3>2. status.state = "Idle" => status.maxPriority = 0
      BY DEF IInv, StateInv, Unspecified
    <3>3. \/ status.state = "Idle" /\ status'.maxPriority = jobPriority[j]
          \/ jobPriority[j] > status.maxPriority /\ status'.maxPriority = jobPriority[j]
          \/ status'.maxPriority = status.maxPriority
      BY <1>0, <2>1, EnqueueRaises, Zenon
    <3>. QED
      BY <1>0, <3>1, <3>2, <3>3
  <2>2. CASE EnqueueStealer(j)
    <3>1. esc[j].priority \in Nat
      BY <1>0, PriorityAssumption DEF TypeOK, Escalation
    <3>2. \/ status' = status
          \/ esc[j].priority > status.maxPriority /\ status'.maxPriority = esc[j].priority
      BY <1>0, <2>2, StealerRaises, Zenon
    <3>. QED
      BY <1>0, <3>1, <3>2
  <2>3. CASE ~(Enqueue(j) \/ EnqueueStealer(j))
    <3>1. status' = status
      BY <1>4, <2>3 DEF TaskStep, ResumeOnActor, TaskEscalate, StealerStep, StealerOverride,
         StealerSchedule
    <3>. QED
      BY <1>0, <3>1
  <2>. QED
    BY <2>1, <2>2, <2>3
<1>5. ASSUME ObjectStep
      PROVE  status'.maxPriority = status.maxPriority
  BY <1>0, <1>5, DeallocateEffect DEF ObjectStep, FinishEnqueue, ReleaseByOthers, Destroy
<1>6. CASE UNCHANGED vars
  BY <1>0, <1>6 DEF vars
<1>. QED
  BY <1>0, <1>3, <1>4, <1>5, <1>6 DEF Next

\* Every step keeps the line below the priority in the status word.
LEMMA BelowStep ==
  ASSUME IInv, IInv', BelowMax, [Next]_vars
  PROVE  BelowMax'
<1>0. TypeOK /\ TypeOK' /\ QueueInv
  BY DEF IInv
<1>1. /\ Waiting \in Seq(Entry) /\ Len(Waiting) \in Nat
      /\ status.maxPriority \in Nat /\ status'.maxPriority \in Nat
  <2>1. Waiting \in Seq(Entry)
    BY <1>0, WaitingIs DEF WaitingIsLine
  <2>2. status.maxPriority \in 0..MaxPriority
    BY <1>0 DEF TypeOK, Status
  <2>3. status'.maxPriority \in 0..MaxPriority
    BY <1>0 DEF TypeOK, Status
  <2>. QED
    BY <2>1, <2>2, <2>3, LenProperties, PriorityAssumption
<1>2. status'.maxPriority >= status.maxPriority \/ Len(Waiting) = 0
  BY PriorityRises
<1>3. CASE Waiting' = Waiting
  <2>1. CASE status'.maxPriority >= status.maxPriority
    BY <1>3, <2>1, BelowKept
  <2>2. CASE Len(Waiting) = 0
    BY <1>3, <2>2 DEF BelowMax
  <2>. QED
    BY <1>2, <2>1, <2>2
<1>4. CASE \E j \in Job : Enqueue(j)
  <2>1. PICK j \in Job : Enqueue(j)
    BY <1>4
  <2>. DEFINE e == [job |-> j, priority |-> jobPriority[j]]
              m == status'.maxPriority
  <2>2. e \in Entry /\ e.priority = jobPriority[j] /\ jobPriority[j] \in Nat
    BY <1>0, PriorityAssumption DEF TypeOK, Entry, Priority
  <2>3. Waiting' = Append(Waiting, e)
    BY <1>0, <2>1, EnqueueAppends
  <2>. HIDE DEF e
  <2>4. /\ Len(Waiting') = Len(Waiting) + 1 /\ Waiting'[Len(Waiting) + 1] = e
        /\ \A k \in 1..Len(Waiting) : Waiting'[k] = Waiting[k]
    BY <1>1, <2>2, <2>3, AppendProperties
  <2>5. jobPriority[j] <= m
    <3>1. \/ m = jobPriority[j]
          \/ ~(jobPriority[j] > status.maxPriority) /\ m = status.maxPriority
      BY <1>0, <2>1, EnqueueRaises, Zenon
    <3>. QED
      BY <1>1, <2>2, <3>1
  <2>. HIDE DEF m
  <2>6. ASSUME NEW k \in 1..Len(Waiting')
        PROVE  Waiting'[k].priority <= m
    <3>1. CASE k \in 1..Len(Waiting)
      <4>1. Waiting'[k] = Waiting[k] /\ Waiting[k] \in Entry
        BY <1>1, <2>4, <3>1, ElementOfSeq
      <4>2. Waiting[k].priority <= status.maxPriority
        BY <3>1 DEF BelowMax
      <4>3. Waiting[k].priority \in Nat
        BY <4>1, PriorityAssumption DEF Entry, Priority
      <4>4. status.maxPriority <= m
        BY <1>1, <1>2, <3>1 DEF m
      <4>5. m \in Nat
        BY <1>1 DEF m
      <4>. QED
        BY <1>1, <4>1, <4>2, <4>3, <4>4, <4>5
    <3>2. CASE k = Len(Waiting) + 1
      BY <2>2, <2>4, <2>5, <3>2
    <3>3. k \in 1..Len(Waiting) \/ k = Len(Waiting) + 1
      BY <1>1, <2>4
    <3>. QED
      BY <3>1, <3>2, <3>3
  <2>. QED
    BY <2>6 DEF BelowMax, m
<1>5. CASE (\E i \in DOMAIN Waiting : Abstract!Start(i)) /\ ~(Len(Waiting) = 0)
  <2>1. PICK i \in DOMAIN Waiting : Abstract!Start(i)
    BY <1>5
  <2>2. i \in 1..Len(Waiting)
    BY <1>1, LenProperties
  <2>3. Waiting' = RemoveAt(Waiting, i)
    BY <2>1 DEF Abstract!Start, Abstract!RemoveAt, RemoveAt
  <2>4. /\ Len(Waiting') = Len(Waiting) - 1
        /\ \A k \in 1..(Len(Waiting) - 1) :
             Waiting'[k] = IF k < i THEN Waiting[k] ELSE Waiting[k + 1]
    BY <1>1, <2>2, <2>3, RemoveAtProperties
  <2>5. ASSUME NEW k \in 1..Len(Waiting')
        PROVE  Waiting'[k].priority <= status'.maxPriority
    <3>1. PICK n \in 1..Len(Waiting) : Waiting'[k] = Waiting[n]
      <4>1. k \in 1..(Len(Waiting) - 1) /\ k \in 1..Len(Waiting) /\ k + 1 \in 1..Len(Waiting)
        BY <1>1, <2>4
      <4>. QED
        BY <2>4, <4>1
    <3>2. Waiting[n].priority <= status.maxPriority
      BY DEF BelowMax
    <3>3. Waiting[n].priority \in Nat
      <4>1. Waiting[n] \in Entry
        BY <1>1, ElementOfSeq
      <4>. QED
        BY <4>1, PriorityAssumption DEF Entry, Priority
    <3>4. status'.maxPriority >= status.maxPriority
      BY <1>2, <1>5
    <3>5. Waiting[n].priority <= status'.maxPriority
      BY <1>1, <3>2, <3>3, <3>4
    <3>. QED
      BY <3>1, <3>5
  <2>. QED
    BY <2>5 DEF BelowMax
<1>6. CASE (\E i \in DOMAIN Waiting : Abstract!Start(i)) /\ Len(Waiting) = 0
  <2>1. DOMAIN Waiting = 1..0
    BY <1>1, <1>6, LenProperties
  <2>. QED
    BY <1>6, <2>1
<1>7. ASSUME \/ \E j \in Job : Abstract!Enter(j)
             \/ Abstract!Leave
             \/ UNCHANGED <<Waiting, Occupant>>
      PROVE  Waiting' = Waiting
  BY <1>7 DEF Abstract!Enter, Abstract!Leave
<1>8. Shown
  BY SerialStep
<1>. QED
  BY <1>3, <1>4, <1>5, <1>6, <1>7, <1>8 DEF Shown

-----------------------------------------------------------------------------
(* Cover *)

\* Adding at the end keeps what is there.
LEMMA AppendKeeps ==
  ASSUME NEW S, NEW s \in Seq(S), NEW e \in S, NEW u, u = Append(s, e)
  PROVE  /\ \E i \in 1..Len(u) : u[i] = e
         /\ \A k \in 1..Len(s) : \E i \in 1..Len(u) : u[i] = s[k]
<1>1. /\ Len(u) = Len(s) + 1 /\ Len(s) \in Nat /\ u[Len(s) + 1] = e
      /\ \A k \in 1..Len(s) : u[k] = s[k]
  BY AppendProperties, LenProperties
<1>2. Len(s) + 1 \in 1..Len(u) /\ \A k \in 1..Len(s) : k \in 1..Len(u)
  BY <1>1
<1>. QED
  BY <1>1, <1>2

\* Removing an element keeps the others.
LEMMA RemoveKeeps ==
  ASSUME NEW S, NEW s \in Seq(S), NEW n \in 1..Len(s), NEW u, u = RemoveAt(s, n)
  PROVE  \A k \in 1..Len(s) : k # n => \E i \in 1..Len(u) : u[i] = s[k]
<1>1. /\ Len(u) = Len(s) - 1 /\ Len(s) \in Nat
      /\ \A k \in 1..(Len(s) - 1) : u[k] = IF k < n THEN s[k] ELSE s[k + 1]
  BY RemoveAtProperties, LenProperties
<1>2. ASSUME NEW k \in 1..Len(s), k < n
      PROVE  \E i \in 1..Len(u) : u[i] = s[k]
  <2>1. k \in 1..(Len(s) - 1)
    BY <1>1, <1>2
  <2>. QED
    BY <1>1, <1>2, <2>1
<1>3. ASSUME NEW k \in 1..Len(s), k > n
      PROVE  \E i \in 1..Len(u) : u[i] = s[k]
  <2>1. k - 1 \in 1..(Len(s) - 1) /\ ~(k - 1 < n) /\ (k - 1) + 1 = k
    BY <1>1, <1>3
  <2>2. u[k - 1] = s[(k - 1) + 1]
    BY <1>1, <2>1
  <2>. QED
    BY <1>1, <2>1, <2>2
<1>. QED
  BY <1>2, <1>3

\* A processing job that is added has its priority in the pool.
LEMMA ScheduledComes ==
  ASSUME TypeOK, NEW p \in 0..MaxPriority, NEW e \in {"task", "global"},
         scheduleActorProcessJob(p, e)
  PROVE  /\ \E i \in 1..Len(procs') : procs'[i].priority = p
         /\ \A k \in 1..Len(procs) : \E i \in 1..Len(procs') : procs'[i] = procs[k]
<1>. DEFINE x == [priority |-> p, executor |-> e]
<1>1. x \in Proc /\ x.priority = p
  BY DEF Proc
<1>2. procs \in Seq(Proc) /\ procs' = Append(procs, x)
  BY DEF TypeOK, scheduleActorProcessJob
<1>. HIDE DEF x
<1>. QED
  BY <1>1, <1>2, AppendKeeps

\* What covers the priority of the status word before a step covers it after one that takes
\* neither state, drainer nor priority from the word, and no call or processing job away.
LEMMA CoverKept ==
  ASSUME CoverInv, status'.state = status.state, status'.drainer = status.drainer,
         status'.maxPriority = status.maxPriority,
         qos' = qos, procs' = procs, overriders' = overriders,
         \A j \in Job : esc[j].pc \in {"override", "steal"} => esc'[j] = esc[j]
  PROVE  CoverInv'
<1>1. ASSUME Raised(status.maxPriority)
      PROVE  Raised(status.maxPriority)'
  BY <1>1 DEF Raised
<1>2. ASSUME Coming(status.maxPriority)
      PROVE  Coming(status.maxPriority)'
  BY <1>2 DEF Coming
<1>. QED
  BY <1>1, <1>2 DEF CoverInv

\* unlock() schedules a processing job at the priority of the status word, if it schedules one.
LEMMA UnlockCovers ==
  ASSUME TypeOK, ForceUnlock
  PROVE  CoverInv'
<1>1. CASE UnlockZombie
  BY <1>1 DEF UnlockZombie, CoverInv
<1>2. CASE UnlockToIdle
  <2>1. status'.state = "Idle"
    <3>1. status \in Status /\ Unspecified \in 0..MaxPriority
      BY PriorityAssumption DEF TypeOK, Unspecified
    <3>2. withIdle(status) \in Status
      BY <3>1, IdleStatus
    <3>. QED
      BY <1>2, <3>1, <3>2, IdleStatus, NewPriorityStatus DEF UnlockToIdle, resetPriority
  <2>. QED
    BY <2>1 DEF CoverInv
<1>3. CASE UnlockToScheduled
  <2>1. status \in Status /\ status.maxPriority \in 0..MaxPriority
    BY DEF TypeOK, Status
  <2>2. withScheduled(status) \in Status
    BY <2>1, ScheduledStatus
  <2>3. status'.state = "Scheduled" /\ status'.maxPriority = status.maxPriority
    BY <1>3, <2>1, <2>2, ScheduledStatus, UnescalatedStatus DEF UnlockToScheduled
  <2>4. \E i \in 1..Len(procs') : procs'[i].priority = status.maxPriority
    BY <1>3, <2>1, ScheduledComes DEF UnlockToScheduled
  <2>5. \E i \in 1..Len(procs') : procs'[i].priority >= status'.maxPriority
    BY <2>1, <2>3, <2>4
  <2>6. Coming(status.maxPriority)'
    BY <2>5 DEF Coming
  <2>. QED
    BY <2>3, <2>6 DEF CoverInv
<1>. QED
  BY <1>1, <1>2, <1>3 DEF ForceUnlock

\* tryLock() represents the priority of the status word on the thread that takes the lock.
LEMMA LockCovers ==
  ASSUME IInv, IInv', NEW t \in Thread, NEW i \in DOMAIN procs, ProcessJob(t, i), CoverInv
  PROVE  CoverInv'
<1>1. /\ procs[i].priority \in Nat /\ status.maxPriority \in Nat /\ TypeOK
  <2>1. procs \in Seq(Proc) /\ i \in 1..Len(procs)
    BY DEF IInv, TypeOK
  <2>2. procs[i] \in Proc
    BY <2>1, ElementOfSeq
  <2>3. TypeOK /\ status.maxPriority \in Nat
    BY PriorityAssumption DEF IInv, TypeOK, Status
  <2>4. procs[i].priority \in Nat
    BY <2>2, PriorityAssumption DEF Proc
  <2>. QED
    BY <2>3, <2>4
<1>2. CASE TryLockAsDrainer(t, procs[i].priority)
  <2>1. status'.state = "Running" /\ status'.maxPriority = status.maxPriority
    BY <1>1, <1>2, LockAsDrainerEffect
  <2>2. qos' = Higher(procs[i].priority, status.maxPriority)
    BY <1>2 DEF TryLockAsDrainer
  <2>3. qos' >= status'.maxPriority
    BY <1>1, <2>1, <2>2 DEF Higher
  <2>4. Raised(status.maxPriority)'
    BY <2>3 DEF Raised
  <2>. QED
    BY <2>1, <2>4 DEF CoverInv
<1>3. CASE status.state # "Scheduled" /\ UNCHANGED <<status, prioritizedJobs, qos, pc, frame>>
  <2>1. overriders' = overriders /\ esc' = esc
    BY DEF ProcessJob, taskVars
  <2>2. Raised(status.maxPriority) => Raised(status.maxPriority)'
    BY <1>3, <2>1 DEF Raised
  <2>. QED
    BY <1>3, <2>2 DEF CoverInv
<1>. QED
  BY <1>2, <1>3 DEF ProcessJob

\* enqueue() schedules a processing job at the priority it writes, or leaves an override to it.
LEMMA EnqueueCovers ==
  ASSUME IInv, IInv', NEW j \in Job, Enqueue(j), CoverInv
  PROVE  CoverInv'
<1>. SUFFICES ASSUME PriorityEscalation
              PROVE  CoverInv'
  BY DEF CoverInv
<1>. DEFINE p == jobPriority[j]
<1>1. /\ TypeOK /\ p \in Priority /\ p \in 0..MaxPriority /\ p \in Nat
      /\ status.drainer \in Thread \cup {NoThread} /\ overriders \in Seq(Overrider)
  <2>1. TypeOK /\ overriders \in Seq(Overrider) /\ p \in Priority
    BY DEF IInv, TypeOK
  <2>2. status.drainer \in Thread \cup {NoThread}
    BY <2>1 DEF TypeOK, Status
  <2>3. p \in 0..MaxPriority /\ p \in Nat
    BY <2>1, PriorityAssumption DEF Priority
  <2>. QED
    BY <2>1, <2>2, <2>3
<1>2. /\ status'.state = (IF status.state = "Idle" THEN "Scheduled" ELSE status.state)
      /\ status'.drainer = (IF status.state = "Idle" THEN NoThread ELSE status.drainer)
  BY <1>1, EnqueueEffect
<1>3. qos' = qos /\ esc' = esc
  BY DEF Enqueue
<1>4. ASSUME NEW e \in {"task", "global"}, scheduleActorProcessJob(p, e),
             status'.maxPriority = p
      PROVE  Coming(status.maxPriority)'
  <2>1. PICK i \in 1..Len(procs') : procs'[i].priority = p
    BY <1>1, <1>4, ScheduledComes
  <2>2. procs'[i].priority >= status'.maxPriority
    BY <1>1, <1>4, <2>1
  <2>. QED
    BY <2>2 DEF Coming
<1>5. CASE status.state = "Idle"
  <2>1. /\ status'.maxPriority = p
        /\ \E e \in {"task", "global"} : scheduleActorProcessJob(p, e)
    BY <1>1, <1>5, EnqueueRaises, Zenon
  <2>. QED
    BY <1>2, <1>4, <1>5, <2>1 DEF CoverInv
<1>6. CASE status.state = "Scheduled" /\ p > status.maxPriority
  <2>1. /\ status'.maxPriority = p
        /\ \E e \in {"task", "global"} : scheduleActorProcessJob(p, e)
    BY <1>1, <1>6, EnqueueRaises
  <2>. QED
    BY <1>2, <1>4, <1>6, <2>1 DEF CoverInv
<1>7. CASE status.state = "Running" /\ p > status.maxPriority
  <2>. DEFINE o == [drainer |-> status.drainer, priority |-> p]
  <2>1. status'.maxPriority = p /\ overriders' = Append(overriders, o)
    BY <1>1, <1>7, EnqueueRaises
  <2>2. o \in Overrider /\ o.drainer = status.drainer /\ o.priority = p
    BY <1>1 DEF Overrider
  <2>. HIDE DEF o
  <2>3. PICK i \in 1..Len(overriders') : overriders'[i] = o
    BY <1>1, <2>1, <2>2, AppendKeeps
  <2>4. overriders'[i].drainer = status'.drainer /\ overriders'[i].priority >= status'.maxPriority
    BY <1>1, <1>2, <1>7, <2>1, <2>2, <2>3
  <2>5. Raised(status.maxPriority)'
    BY <2>4 DEF Raised
  <2>. QED
    BY <1>2, <1>7, <2>5 DEF CoverInv
<1>8. CASE status.state # "Idle" /\ ~(p > status.maxPriority)
  <2>1. status'.maxPriority = status.maxPriority /\ procs' = procs /\ overriders' = overriders
    BY <1>1, <1>8, EnqueueRaises
  <2>. QED
    BY <1>2, <1>3, <1>8, <2>1, CoverKept
<1>9. CASE status.state = "Zombie"
  BY <1>2, <1>9 DEF CoverInv
<1>. QED
  BY <1>1, <1>5, <1>6, <1>7, <1>8, <1>9 DEF TypeOK, Status

\* enqueueStealer() leaves an override or a processing job pending for what it raises.
LEMMA StealerCovers ==
  ASSUME IInv, NEW j \in Job, EnqueueStealer(j), CoverInv
  PROVE  CoverInv'
<1>. SUFFICES ASSUME PriorityEscalation
              PROVE  CoverInv'
  BY DEF CoverInv
<1>1. TypeOK /\ esc \in [Job -> Escalation] /\ esc[j].priority \in Nat
  <2>1. TypeOK /\ esc \in [Job -> Escalation]
    BY DEF IInv, TypeOK
  <2>. QED
    BY <2>1, PriorityAssumption DEF Escalation
<1>2. status'.state = status.state /\ status'.drainer = status.drainer
  BY <1>1, EnqueueStealerEffect
<1>3. /\ esc[j].pc = "cas" /\ qos' = qos /\ procs' = procs /\ overriders' = overriders
  BY DEF EnqueueStealer
<1>4. CASE status' = status /\ esc' = [esc EXCEPT ![j] = NoEscalation]
  <2>1. \A k \in Job : esc[k].pc \in {"override", "steal"} => esc'[k] = esc[k]
    BY <1>1, <1>3, <1>4
  <2>. QED
    BY <1>3, <1>4, <2>1, CoverKept
<1>5. CASE status.state = "Running" /\ status'.maxPriority = esc[j].priority
           /\ esc'[j] = [pc |-> "override", priority |-> esc[j].priority,
                         drainer |-> status.drainer]
  <2>1. /\ esc'[j].pc = "override" /\ esc'[j].drainer = status'.drainer
        /\ esc'[j].priority >= status'.maxPriority
    BY <1>1, <1>2, <1>5
  <2>2. Raised(status.maxPriority)'
    BY <2>1 DEF Raised
  <2>. QED
    BY <1>2, <1>5, <2>2 DEF CoverInv
<1>6. CASE status.state = "Scheduled" /\ status'.maxPriority = esc[j].priority
           /\ esc'[j] = [pc |-> "steal", priority |-> esc[j].priority,
                         drainer |-> status.drainer]
  <2>1. esc'[j].pc = "steal" /\ esc'[j].priority >= status'.maxPriority
    BY <1>1, <1>6
  <2>2. Coming(status.maxPriority)'
    BY <2>1 DEF Coming
  <2>. QED
    BY <1>2, <1>6, <2>2 DEF CoverInv
<1>7. CASE status.state \notin {"Running", "Scheduled"}
  BY <1>2, <1>7 DEF CoverInv
<1>. QED
  BY <1>1, <1>4, <1>5, <1>6, <1>7, StealerRaises

\* An override raises the thread that holds the lock, and lowers nobody.
LEMMA OverrideRaises ==
  ASSUME TypeOK, NEW t \in Thread \cup {NoThread}, NEW p \in Nat, OverrideStart(t, p)
  PROVE  /\ qos \in Nat /\ qos' \in Nat /\ qos' >= qos
         /\ status.drainer = t /\ t # NoThread => qos' >= p
  BY PriorityAssumption DEF TypeOK, OverrideStart, Higher

\* The override of an escalator takes the place of the escalator.
LEMMA StealerOverrideCovers ==
  ASSUME IInv, NEW j \in Job, StealerOverride(j), CoverInv
  PROVE  CoverInv'
<1>. DEFINE m == status.maxPriority
<1>1. /\ TypeOK /\ esc \in [Job -> Escalation] /\ m \in Nat
      /\ \A k \in Job : esc[k].priority \in Nat
      /\ esc[j].drainer \in Thread \cup {NoThread}
  <2>1. TypeOK /\ esc \in [Job -> Escalation]
    BY DEF IInv, TypeOK
  <2>2. m \in Nat
    BY <2>1, PriorityAssumption DEF TypeOK, Status
  <2>. QED
    BY <2>1, <2>2, PriorityAssumption DEF Escalation
<1>2. /\ esc[j].pc = "override" /\ status' = status /\ procs' = procs
      /\ overriders' = overriders
      /\ \A k \in Job \ {j} : esc'[k] = esc[k]
  BY <1>1 DEF StealerOverride
<1>3. /\ qos \in Nat /\ qos' \in Nat /\ qos' >= qos
      /\ status.drainer = esc[j].drainer /\ esc[j].drainer # NoThread =>
           qos' >= esc[j].priority
  <2>1. OverrideStart(esc[j].drainer, esc[j].priority) /\ esc[j].priority \in Nat
    BY <1>1 DEF StealerOverride
  <2>. QED
    BY <1>1, <2>1, OverrideRaises
<1>4. status.state = "Running" => status.drainer # NoThread
  BY DEF IInv, LockInv
<1>. HIDE DEF m
<1>5. ASSUME Raised(m), status.state = "Running"
      PROVE  Raised(m)'
  <2>1. CASE qos >= m
    <3>1. qos' >= m
      BY <1>1, <1>3, <2>1
    <3>. QED
      BY <1>2, <3>1 DEF Raised, m
  <2>2. CASE \E i \in 1..Len(overriders) :
               overriders[i].drainer = status.drainer /\ overriders[i].priority >= m
    BY <1>2, <2>2 DEF Raised, m
  <2>3. CASE \E k \in Job :
               esc[k].pc = "override" /\ esc[k].drainer = status.drainer /\ esc[k].priority >= m
    <3>1. PICK k \in Job :
            esc[k].pc = "override" /\ esc[k].drainer = status.drainer /\ esc[k].priority >= m
      BY <2>3
    <3>2. CASE k = j
      <4>1. qos' >= esc[j].priority /\ esc[j].priority >= m
        BY <1>3, <1>4, <1>5, <3>1, <3>2
      <4>2. qos' >= m
        BY <1>1, <1>3, <4>1
      <4>. QED
        BY <1>2, <4>2 DEF Raised, m
    <3>3. CASE k # j
      <4>1. esc'[k] = esc[k]
        BY <1>2, <3>3
      <4>2. esc'[k].pc = "override" /\ esc'[k].drainer = status'.drainer /\ esc'[k].priority >= m
        BY <1>2, <3>1, <4>1
      <4>. QED
        BY <1>2, <4>2 DEF Raised, m
    <3>. QED
      BY <3>2, <3>3
  <2>. QED
    BY <1>5, <2>1, <2>2, <2>3 DEF Raised
<1>6. ASSUME Coming(m)
      PROVE  Coming(m)'
  <2>1. CASE \E i \in 1..Len(procs) : procs[i].priority >= m
    BY <1>2, <2>1 DEF Coming, m
  <2>2. CASE \E k \in Job : esc[k].pc = "steal" /\ esc[k].priority >= m
    <3>1. PICK k \in Job : esc[k].pc = "steal" /\ esc[k].priority >= m
      BY <2>2
    <3>2. esc'[k] = esc[k]
      BY <1>2, <3>1
    <3>. QED
      BY <1>2, <3>1, <3>2 DEF Coming, m
  <2>. QED
    BY <1>6, <2>1, <2>2 DEF Coming
<1>. QED
  BY <1>2, <1>5, <1>6 DEF CoverInv, m

\* The processing job of an escalator takes the place of the escalator.
LEMMA StealerScheduleCovers ==
  ASSUME IInv, NEW j \in Job, StealerSchedule(j), CoverInv
  PROVE  CoverInv'
<1>. DEFINE m == status.maxPriority
<1>1. /\ TypeOK /\ esc \in [Job -> Escalation]
      /\ esc[j].priority \in 0..MaxPriority
      /\ fromTaskExecutorPreference(j) \in {"task", "global"}
  BY DEF IInv, TypeOK, Escalation, fromTaskExecutorPreference
<1>2. /\ esc[j].pc = "steal" /\ status' = status /\ qos' = qos
      /\ overriders' = overriders
      /\ \A k \in Job \ {j} : esc'[k] = esc[k]
  BY <1>1 DEF StealerSchedule
<1>3. scheduleActorProcessJob(esc[j].priority, fromTaskExecutorPreference(j))
  BY DEF StealerSchedule
<1>4. /\ \E i \in 1..Len(procs') : procs'[i].priority = esc[j].priority
      /\ \A k \in 1..Len(procs) : \E i \in 1..Len(procs') : procs'[i] = procs[k]
  BY <1>1, <1>3, ScheduledComes
<1>. HIDE DEF m
<1>5. ASSUME Raised(m)
      PROVE  Raised(m)'
  <2>1. CASE \E k \in Job :
               esc[k].pc = "override" /\ esc[k].drainer = status.drainer /\ esc[k].priority >= m
    <3>1. PICK k \in Job :
            esc[k].pc = "override" /\ esc[k].drainer = status.drainer /\ esc[k].priority >= m
      BY <2>1
    <3>2. esc'[k] = esc[k]
      BY <1>2, <3>1
    <3>. QED
      BY <1>2, <3>1, <3>2 DEF Raised, m
  <2>2. CASE \/ qos >= m
             \/ \E i \in 1..Len(overriders) :
                  overriders[i].drainer = status.drainer /\ overriders[i].priority >= m
    BY <1>2, <2>2 DEF Raised, m
  <2>. QED
    BY <1>5, <2>1, <2>2 DEF Raised
<1>6. ASSUME Coming(m)
      PROVE  Coming(m)'
  <2>1. CASE \E i \in 1..Len(procs) : procs[i].priority >= m
    <3>1. \E i \in 1..Len(procs') : procs'[i].priority >= m
      BY <1>4, <2>1
    <3>. QED
      BY <1>2, <3>1 DEF Coming, m
  <2>2. CASE \E k \in Job : esc[k].pc = "steal" /\ esc[k].priority >= m
    <3>1. PICK k \in Job : esc[k].pc = "steal" /\ esc[k].priority >= m
      BY <2>2
    <3>2. CASE k = j
      <4>1. \E i \in 1..Len(procs') : procs'[i].priority >= m
        BY <1>4, <3>1, <3>2
      <4>. QED
        BY <1>2, <4>1 DEF Coming, m
    <3>3. CASE k # j
      <4>1. esc'[k] = esc[k]
        BY <1>2, <3>3
      <4>. QED
        BY <1>2, <3>1, <4>1 DEF Coming, m
    <3>. QED
      BY <3>2, <3>3
  <2>. QED
    BY <1>6, <2>1, <2>2 DEF Coming
<1>. QED
  BY <1>2, <1>5, <1>6 DEF CoverInv, m

\* The override that ends enqueue() takes the place of the pending one.
LEMMA FinishCovers ==
  ASSUME IInv, NEW n \in DOMAIN overriders, FinishEnqueue(n), CoverInv
  PROVE  CoverInv'
<1>. SUFFICES ASSUME PriorityEscalation
              PROVE  CoverInv'
  BY DEF CoverInv
<1>. DEFINE m == status.maxPriority
            o == overriders[n]
<1>1. /\ TypeOK /\ overriders \in Seq(Overrider) /\ n \in 1..Len(overriders) /\ m \in Nat
  <2>1. TypeOK /\ overriders \in Seq(Overrider)
    BY DEF IInv, TypeOK
  <2>2. n \in 1..Len(overriders)
    BY <2>1, LenProperties
  <2>3. m \in Nat
    BY <2>1, PriorityAssumption DEF TypeOK, Status
  <2>. QED
    BY <2>1, <2>2, <2>3
<1>2. o.drainer \in Thread \cup {NoThread} /\ o.priority \in Nat
  <2>1. o \in Overrider
    BY <1>1, ElementOfSeq
  <2>. QED
    BY <2>1, PriorityAssumption DEF Overrider, Priority
<1>3. /\ status' = status /\ procs' = procs /\ esc' = esc
      /\ overriders' = RemoveAt(overriders, n) /\ OverrideStart(o.drainer, o.priority)
  BY DEF FinishEnqueue, taskVars
<1>4. /\ qos \in Nat /\ qos' \in Nat /\ qos' >= qos
      /\ status.drainer = o.drainer /\ o.drainer # NoThread => qos' >= o.priority
  BY <1>1, <1>2, <1>3, OverrideRaises
<1>5. \A k \in 1..Len(overriders) : k # n =>
        \E i \in 1..Len(overriders') : overriders'[i] = overriders[k]
  BY <1>1, <1>3, RemoveKeeps
<1>6. status.state = "Running" => status.drainer # NoThread
  BY DEF IInv, LockInv
<1>. HIDE DEF m, o
<1>7. ASSUME Raised(m), status.state = "Running"
      PROVE  Raised(m)'
  <2>1. CASE qos >= m
    <3>1. qos' >= m
      BY <1>1, <1>4, <2>1
    <3>. QED
      BY <1>3, <3>1 DEF Raised, m
  <2>2. CASE \E k \in Job :
               esc[k].pc = "override" /\ esc[k].drainer = status.drainer /\ esc[k].priority >= m
    BY <1>3, <2>2 DEF Raised, m
  <2>3. CASE \E i \in 1..Len(overriders) :
               overriders[i].drainer = status.drainer /\ overriders[i].priority >= m
    <3>1. PICK k \in 1..Len(overriders) :
            overriders[k].drainer = status.drainer /\ overriders[k].priority >= m
      BY <2>3
    <3>2. CASE k = n
      <4>1. qos' >= o.priority /\ o.priority >= m
        BY <1>4, <1>6, <1>7, <3>1, <3>2 DEF o
      <4>2. qos' >= m
        BY <1>1, <1>2, <1>4, <4>1
      <4>. QED
        BY <1>3, <4>2 DEF Raised, m
    <3>3. CASE k # n
      <4>1. PICK i \in 1..Len(overriders') : overriders'[i] = overriders[k]
        BY <1>5, <3>3
      <4>2. overriders'[i].drainer = status'.drainer /\ overriders'[i].priority >= m
        BY <1>3, <3>1, <4>1
      <4>. QED
        BY <1>3, <4>2 DEF Raised, m
    <3>. QED
      BY <3>2, <3>3
  <2>. QED
    BY <1>7, <2>1, <2>2, <2>3 DEF Raised
<1>8. ASSUME Coming(m)
      PROVE  Coming(m)'
  BY <1>3, <1>8 DEF Coming, m
<1>. QED
  BY <1>3, <1>7, <1>8 DEF CoverInv, m

\* Every step keeps the priority of the status word covered.
LEMMA CoverStep ==
  ASSUME IInv, IInv', [Next]_vars, CoverInv
  PROVE  CoverInv'
<1>. USE DEF actorVars, threadVars, taskVars
<1>0. TypeOK
  BY DEF IInv
<1>1. ASSUME NEW t \in Thread, Drain(t)
      PROVE  CoverInv'
  <2>1. CASE \E i \in DOMAIN prioritizedJobs : DrainOne(t, i)
    BY <2>1, CoverKept DEF DrainOne
  <2>2. CASE StartJob(t)
    BY <2>2, CoverKept DEF StartJob
  <2>3. CASE processIncomingQueue(t)
    BY <1>0, <2>3, IncomingEffect, CoverKept DEF processIncomingQueue
  <2>4. CASE UnlockDrained(t)
    <3>1. CASE ForceUnlock
      BY <1>0, <3>1, UnlockCovers
    <3>2. CASE UNCHANGED <<status, procs, qos>>
      BY <2>4, <3>2, CoverKept DEF UnlockDrained
    <3>. QED
      BY <2>4, <3>1, <3>2 DEF UnlockDrained, ForceUnlock
  <2>5. CASE LeaveJobRun(t)
    BY <1>0, <2>5, UnlockCovers DEF LeaveJobRun
  <2>. QED
    BY <1>1, <2>1, <2>2, <2>3, <2>4, <2>5 DEF Drain
<1>2. ASSUME NEW t \in Thread, UserCode(t)
      PROVE  CoverInv'
  <2>1. CASE SwitchToActor(t)
    <3>1. status.state # "Zombie" /\ status.state \notin {"Running", "Scheduled"}
      BY <2>1 DEF SwitchToActor, TryLockUncontended, IInv, LifeInv
    <3>2. status.maxPriority = Unspecified
      BY <3>1 DEF IInv, StateInv, TypeOK, Status
    <3>3. status'.state = "Running" /\ status'.maxPriority = Unspecified /\ qos' = Unspecified
      BY <1>0, <2>1, <3>2, LockUncontendedEffect DEF SwitchToActor, TryLockUncontended
    <3>4. Raised(status.maxPriority)'
      BY <3>3 DEF Raised, Unspecified
    <3>. QED
      BY <3>3, <3>4 DEF CoverInv
  <2>2. CASE SwitchByEnqueue(t)
    BY <2>2, CoverKept DEF SwitchByEnqueue
  <2>3. CASE SwitchFromActor(t)
    BY <1>0, <2>3, UnlockCovers DEF SwitchFromActor
  <2>4. CASE ReleaseByTask(t)
    BY <2>4, CoverKept DEF ReleaseByTask
  <2>. QED
    BY <1>2, <2>1, <2>2, <2>3, <2>4 DEF UserCode
<1>3. ASSUME NEW t \in Thread, ThreadStep(t)
      PROVE  CoverInv'
  <2>1. CASE \E i \in DOMAIN procs : ProcessJob(t, i)
    BY <2>1, LockCovers
  <2>2. CASE \E j \in Job : RunJob(t, j)
    BY <2>2, CoverKept DEF RunJob
  <2>3. CASE Returns(t)
    BY <2>3, CoverKept DEF Returns, ReturnOnActor, ReturnOffActor
  <2>. QED
    BY <1>1, <1>2, <1>3, <2>1, <2>2, <2>3 DEF ThreadStep
<1>4. ASSUME NEW j \in Job, TaskStep(j)
      PROVE  CoverInv'
  <2>1. CASE ResumeOnActor(j)
    BY <2>1, CoverKept DEF ResumeOnActor
  <2>2. CASE Enqueue(j)
    BY <2>2, EnqueueCovers
  <2>3. CASE \E p \in Priority : TaskEscalate(j, p)
    <3>1. \A k \in Job : esc[k].pc \in {"override", "steal"} => esc'[k] = esc[k]
      BY <1>0, <2>3 DEF TaskEscalate, TypeOK
    <3>. QED
      BY <2>3, <3>1, CoverKept DEF TaskEscalate
  <2>4. CASE EnqueueStealer(j)
    BY <2>4, StealerCovers
  <2>5. CASE StealerOverride(j)
    BY <2>5, StealerOverrideCovers
  <2>6. CASE StealerSchedule(j)
    BY <2>6, StealerScheduleCovers
  <2>. QED
    BY <1>4, <2>1, <2>2, <2>3, <2>4, <2>5, <2>6 DEF TaskStep, StealerStep
<1>5. ASSUME ObjectStep
      PROVE  CoverInv'
  <2>1. CASE \E i \in DOMAIN overriders : FinishEnqueue(i)
    BY <2>1, FinishCovers
  <2>2. CASE ReleaseByOthers
    BY <2>2, CoverKept DEF ReleaseByOthers
  <2>3. CASE Destroy
    BY <2>3, CoverKept DEF Destroy
  <2>4. CASE Deallocate
    <3>1. CASE status.state = "Running"
      BY <1>0, <2>4, <3>1, DeallocateEffect DEF CoverInv
    <3>2. CASE status.state # "Running"
      BY <1>0, <2>4, <3>2, DeallocateEffect, CoverKept DEF Deallocate
    <3>. QED
      BY <3>1, <3>2
  <2>. QED
    BY <1>5, <2>1, <2>2, <2>3, <2>4 DEF ObjectStep
<1>6. CASE UNCHANGED vars
  BY <1>6, CoverKept DEF vars
<1>. QED
  BY <1>3, <1>4, <1>5, <1>6 DEF Next

\* Whoever is in one of the two lists waits, with the priority it was enqueued with.
LEMMA QueuedBelowMax ==
  ASSUME IInv, BelowMax, NEW i \in 1..Len(prioritizedJobs \o status.firstJob)
  PROVE  LET j == (prioritizedJobs \o status.firstJob)[i]
         IN  jobPriority[j] \in Nat /\ jobPriority[j] <= status.maxPriority
<1>. DEFINE a == prioritizedJobs
            b == status.firstJob
            q == a \o b
            j == q[i]
<1>1. a \in Seq(Job) /\ b \in Seq(Job) /\ TypeOK
  BY DEF IInv, TypeOK, Status
<1>2. /\ q \in Seq(Job) /\ Len(q) = Len(a) + Len(b) /\ Len(a) \in Nat /\ Len(b) \in Nat
      /\ \A k \in 1..(Len(a) + Len(b)) : q[k] = IF k <= Len(a) THEN a[k] ELSE b[k - Len(a)]
  BY <1>1, ConcatProperties, LenProperties
<1>3. /\ Len(Line) = Len(a) + Len(b)
      /\ \A k \in 1..Len(Line) :
           Line[k] = IF k <= Len(a) THEN a[k] ELSE b[Len(Line) - k + 1]
  BY <1>1, LineIs
<1>. HIDE DEF a, b, q
<1>4. \E k \in 1..Len(Line) : Line[k] = j
  <2>0. i \in 1..(Len(a) + Len(b)) /\ i \in 1..Len(q)
    BY <1>2 DEF q, a, b
  <2>1. CASE i <= Len(a)
    <3>1. i \in 1..Len(Line)
      BY <1>2, <1>3, <2>0
    <3>2. Line[i] = a[i] /\ j = a[i]
      BY <1>2, <1>3, <2>0, <2>1, <3>1
    <3>. QED
      BY <3>1, <3>2
  <2>2. CASE ~(i <= Len(a))
    <3>. DEFINE k == Len(Line) - (i - Len(a)) + 1
    <3>1. /\ k \in 1..Len(Line) /\ ~(k <= Len(a)) /\ Len(Line) - k + 1 = i - Len(a)
      BY <1>2, <1>3, <2>0, <2>2
    <3>2. Line[k] = b[Len(Line) - k + 1]
      BY <1>3, <3>1
    <3>3. j = b[i - Len(a)]
      BY <1>2, <2>0, <2>2
    <3>. QED
      BY <3>1, <3>2, <3>3
  <2>. QED
    BY <2>1, <2>2
<1>5. PICK k \in 1..Len(Line) : Line[k] = j
  BY <1>4
<1>6. Len(Waiting) = Len(Line) /\ Waiting[k] = [job |-> j, priority |-> jobPriority[j]]
  BY <1>1, <1>5, WaitingIs DEF WaitingIsLine
<1>7. jobPriority[j] <= status.maxPriority
  <2>1. Waiting[k].priority <= status.maxPriority
    BY <1>6 DEF BelowMax
  <2>. QED
    BY <1>6, <2>1
<1>8. jobPriority[j] \in Nat
  <2>1. j \in Job
    BY <1>1, <1>5, LineIsQueued DEF IInv
  <2>. QED
    BY <1>1, <2>1, PriorityAssumption DEF TypeOK, Priority
<1>. QED
  BY <1>7, <1>8 DEF q, a, b

\* With priority escalation no queued job waits behind a thread of lower priority: whatever is
\* queued is covered by the drainer, a processing job, or a call that has not finished.
THEOREM ActorNoPriorityInversion == Spec => []NoPriorityInversion
<1>. DEFINE Inv == IInv /\ BelowMax /\ CoverInv
<1>1. Init => Inv
  <2>. SUFFICES ASSUME Init
                PROVE  BelowMax /\ CoverInv
    BY InitInv
  <2>1. IInv
    BY InitInv
  <2>2. Line \in Seq(Job) /\ Len(Line) = 0
    BY <2>1, LineIs, EmptySeq DEF Init, IInv
  <2>3. Len(Waiting) = 0
    BY <2>1, <2>2, WaitingIs DEF WaitingIsLine, IInv
  <2>. QED
    BY <2>3 DEF Init, BelowMax, CoverInv
<1>2. Inv /\ IInv' /\ [Next]_vars => Inv'
  BY BelowStep, CoverStep
<1>3. Inv => NoPriorityInversion
  <2>. SUFFICES ASSUME IInv, BelowMax, CoverInv, PriorityEscalation,
                       NEW i \in 1..Len(prioritizedJobs \o status.firstJob)
                PROVE  Covered(jobPriority[(prioritizedJobs \o status.firstJob)[i]])
    BY DEF NoPriorityInversion
  <2>. DEFINE p == jobPriority[(prioritizedJobs \o status.firstJob)[i]]
              m == status.maxPriority
  <2>1. p \in Nat /\ p <= m
    BY QueuedBelowMax
  <2>2. /\ TypeOK /\ m \in Nat /\ qos \in Nat
        /\ procs \in Seq(Proc) /\ overriders \in Seq(Overrider)
        /\ DOMAIN procs = 1..Len(procs) /\ DOMAIN overriders = 1..Len(overriders)
    <3>1. TypeOK /\ procs \in Seq(Proc) /\ overriders \in Seq(Overrider)
      BY DEF IInv, TypeOK
    <3>2. m \in Nat /\ qos \in Nat
      BY <3>1, PriorityAssumption DEF TypeOK, Status
    <3>. QED
      BY <3>1, <3>2, LenProperties
  <2>3. /\ \A k \in 1..Len(procs) : procs[k].priority \in Nat
        /\ \A k \in 1..Len(overriders) : overriders[k].priority \in Nat
        /\ \A k \in Job : esc[k].priority \in Nat
    <3>1. \A k \in 1..Len(procs) : procs[k] \in Proc
      BY <2>2, ElementOfSeq
    <3>2. \A k \in 1..Len(overriders) : overriders[k] \in Overrider
      BY <2>2, ElementOfSeq
    <3>3. \A k \in Job : esc[k] \in Escalation
      BY <2>2 DEF TypeOK
    <3>. QED
      BY <3>1, <3>2, <3>3, PriorityAssumption DEF Proc, Overrider, Priority, Escalation
  <2>4. hasWork
    <3>1. prioritizedJobs \in Seq(Job) /\ status.firstJob \in Seq(Job)
      BY <2>2 DEF TypeOK, Status
    <3>2. Len(prioritizedJobs \o status.firstJob) = Len(prioritizedJobs) + Len(status.firstJob)
      BY <3>1, ConcatProperties
    <3>. QED
      BY <3>1, <3>2, EmptySeq DEF hasWork
  <2>5. status.state \in {"Running", "Scheduled"}
    BY <2>4 DEF IInv, StateInv
  <2>. HIDE DEF p, m
  <2>6. CASE status.state = "Running"
    <3>1. Raised(m)
      BY <2>6 DEF CoverInv, m
    <3>2. \/ qos >= p
          \/ \E k \in 1..Len(overriders) :
               overriders[k].drainer = status.drainer /\ overriders[k].priority >= p
          \/ \E k \in Job :
               esc[k].pc = "override" /\ esc[k].drainer = status.drainer /\ esc[k].priority >= p
      BY <2>1, <2>2, <2>3, <3>1 DEF Raised
    <3>. QED
      BY <2>2, <2>6, <3>2 DEF Covered, p
  <2>7. CASE status.state = "Scheduled"
    <3>1. Coming(m)
      BY <2>7 DEF CoverInv, m
    <3>2. \/ \E k \in 1..Len(procs) : procs[k].priority >= p
          \/ \E k \in Job : esc[k].pc = "steal" /\ esc[k].priority >= p
      BY <2>1, <2>2, <2>3, <3>1 DEF Coming
    <3>. QED
      BY <2>2, <2>7, <3>2 DEF Covered, p
  <2>. QED
    BY <2>5, <2>6, <2>7
<1>. QED
  BY <1>1, <1>2, <1>3, Invariance, PTL DEF Spec
=============================================================================
