----------------------------- MODULE TaskStatus -----------------------------
(***************************************************************************)
(* The status of one task: the atomic ActiveTaskStatus word, the list of   *)
(* status records that hangs from it, and the recursive mutex that guards  *)
(* the list once the is-locked bit is set.  The task itself, on whatever   *)
(* thread runs it, adds and removes records, suspends and completes; other *)
(* threads cancel it, escalate it and resume its continuation.             *)
(*                                                                         *)
(* A compare-and-swap loop is one step, its last round; what a call keeps  *)
(* from an earlier load is in old.                                         *)
(***************************************************************************)
EXTENDS Integers, Sequences, FiniteSets

CONSTANTS
  Owner,         \* the thread that runs the task, or makes it run
  Agent,         \* threads that hold a reference to the task
  Record,        \* memory for status records
  Child,         \* child tasks
  Null,
  JobPriority,
  BasePriority,
  MaxAdds        \* bound: records and group children added in a behaviour

ASSUME TaskAssumption ==
  /\ Owner \notin Agent
  /\ Null \notin Record \cup Child \cup Agent \cup {Owner}
  /\ JobPriority \subseteq Nat
  /\ BasePriority \in JobPriority
  /\ MaxAdds \in Nat

UserInteractive == 33
UserInitiated == 25

Thread == Agent \cup {Owner}
Higher(p, q) == IF p > q THEN p ELSE q

VARIABLES
  status,        \* ActiveTaskStatus
  mutex,         \* statusLock: its holder and how often it holds it
  kind,          \* what each record is, "free" when not allocated
  parent,        \* TaskStatusRecord::Parent
  children,      \* child tasks of an async let or a group; the task that a dependency names
  isCancelled,   \* cancelled bit of a group
  child,         \* what this task has told each child task, or the one it waits for
  ran,           \* how often the handler of a record has run
  scopes,        \* records of the scopes the task is in, innermost last
  continuation,  \* AwaitSynchronization of the task's continuation
  resumed,       \* somebody has called resume() on it
  job,           \* the task as a job: in an executor's queue, and its priority
  frame,         \* what each thread is doing
  adds           \* counts towards MaxAdds

vars == <<status, mutex, kind, parent, children, isCancelled, child, ran, scopes,
          continuation, resumed, job, frame, adds>>
records == <<kind, parent, children, isCancelled, child, ran, scopes>>
await == <<continuation, resumed, job>>

Status == [record: Record \cup {Null}, priority: JobPriority,
           cancelled: BOOLEAN, locked: BOOLEAN, running: BOOLEAN, enqueued: BOOLEAN,
           complete: BOOLEAN, escalated: BOOLEAN, dependency: BOOLEAN,
           preference: BOOLEAN]

Kinds == {"free", "cancel", "escalation", "child", "group", "preference", "dependency"}
Adding == {"add", "suspend", "enqueue"}
Ops == Adding \cup {"remove", "run", "pop", "attach", "detach", "cancelAll", "cancel",
                    "escalate", "resume", "none"}
Pcs == {"idle", "add", "remove", "lock", "setbit", "fn", "next", "update", "unlock",
        "fire", "fired", "enqueue", "await", "awaited"}

Loaded == [locked: BOOLEAN, cancelled: BOOLEAN, priority: JobPriority]

\* A call in progress.  nested: it is a cancel(), and the handler it runs has called
\* resume() on the same task.
Frame == [pc: Pcs, op: Ops, rec: Record \cup {Null}, kid: Child \cup {Null},
          old: Loaded, already: BOOLEAN, cur: Record \cup {Null},
          prio: JobPriority, nested: BOOLEAN, flag: BOOLEAN]

\* What a call uses of the status it has loaded
Load(s) == [locked |-> s.locked, cancelled |-> s.cancelled, priority |-> s.priority]

NewStatus ==
  [record |-> Null, priority |-> BasePriority, cancelled |-> FALSE, locked |-> FALSE,
   running |-> FALSE, enqueued |-> FALSE, complete |-> FALSE, escalated |-> FALSE,
   dependency |-> FALSE, preference |-> FALSE]

NoCall ==
  [pc |-> "idle", op |-> "none", rec |-> Null, kid |-> Null, old |-> Load(NewStatus),
   already |-> FALSE, cur |-> Null, prio |-> BasePriority, nested |-> FALSE,
   flag |-> FALSE]

NewChild == [cancelled |-> FALSE, priority |-> BasePriority]

Init ==
  /\ status = NewStatus
  /\ mutex = [holder |-> Null, depth |-> 0]
  /\ kind = [r \in Record |-> "free"]
  /\ parent = [r \in Record |-> Null]
  /\ children = [r \in Record |-> {}]
  /\ isCancelled = [r \in Record |-> FALSE]
  /\ child = [c \in Child |-> NewChild]
  /\ ran = [r \in Record |-> 0]
  /\ scopes = <<>>
  /\ continuation = "none"
  /\ resumed = FALSE
  /\ job = [queued |-> FALSE, priority |-> BasePriority]
  /\ frame = [t \in Thread |-> NoCall]
  /\ adds = 0

Idle(t) == frame[t].pc = "idle"
At(t, pc) == frame[t].pc = pc
Op(t) == IF frame[t].nested THEN "resume" ELSE frame[t].op
OnTask == Idle(Owner) /\ status.running
Goto(t, pc) == frame' = [frame EXCEPT ![t].pc = pc]
Return(t) == frame' = [frame EXCEPT ![t] = NoCall]

\* A set that has r and, with every record, the one that up leads to
HoldsChain(up, rs, r) ==
  /\ r \in rs \cup {Null}
  /\ \A q \in rs : up[q] \in rs \cup {Null}

\* The records reached from r, as ActiveTaskStatus::records() goes through them
ChainFrom(up, r) ==
  {q \in Record : \A rs \in SUBSET Record : HoldsChain(up, rs, r) => q \in rs}
Linked == ChainFrom(parent, status.record)

-----------------------------------------------------------------------------
(* Adding a record *)

\* What is left of the children when a record lets go of its own
ChildrenWithout(r) ==
  [c \in Child |-> IF c \in children[r] /\ \A q \in Record \ {r} : c \notin children[q]
                   THEN NewChild ELSE child[c]]

\* The record's memory goes back to the task allocator; its contents no longer count.
Dealloc(r) ==
  /\ kind' = [kind EXCEPT ![r] = "free"]
  /\ parent' = [parent EXCEPT ![r] = Null]
  /\ children' = [children EXCEPT ![r] = {}]
  /\ child' = ChildrenWithout(r)
  /\ isCancelled' = [isCancelled EXCEPT ![r] = FALSE]
  /\ ran' = [ran EXCEPT ![r] = 0]
  /\ scopes' = SubSeq(scopes, 1, Len(scopes) - 1)

\* Memory from the task allocator, and the call of addStatusRecord()
StartAdd(r, k, op, kids) ==
  /\ kind[r] = "free"
  /\ adds < MaxAdds
  /\ adds' = adds + 1
  /\ kind' = [kind EXCEPT ![r] = k]
  /\ children' = [children EXCEPT ![r] = kids]
  /\ scopes' = Append(scopes, r)
  /\ frame' = [frame EXCEPT ![Owner] =
                 [NoCall EXCEPT !.pc = "add", !.op = op, !.rec = r, !.old = Load(status)]]
  /\ UNCHANGED <<status, mutex, parent, isCancelled, child, ran, await>>

\* A handler, a group or an executor preference of a new scope
EnterScope(r, k) ==
  /\ OnTask
  /\ StartAdd(r, k, "add", {})

NewChildOf(c) == \A r \in Record : c \notin children[r]

AsyncLet(r, c) ==
  /\ OnTask
  /\ NewChildOf(c)
  /\ StartAdd(r, "child", "add", {c})

\* A new task, or a running one that leaves its thread, goes to an executor.
FlagAsAndEnqueueOnExecutor(r) ==
  /\ Idle(Owner)
  /\ ~status.enqueued /\ ~status.dependency /\ ~status.complete
  /\ StartAdd(r, "dependency", "enqueue", {})

\* Mutant: a child task starts at its own priority.
updateNewChild_Base(s, cancelled) ==
  [cancelled |-> s.cancelled \/ cancelled, priority |-> BasePriority]

withUserInteractivePriorityDowngrade(p) ==
  IF p = UserInteractive THEN UserInitiated ELSE p

updateNewChild(s, cancelled) ==
  [cancelled |-> s.cancelled \/ cancelled,
   priority  |-> withUserInteractivePriorityDowngrade(s.priority)]

\* language_task_escalate() of another task
Escalated(c, p) == [c EXCEPT !.priority = Higher(@, p)]

\* Mutant: the decision is made on the status loaded before the lock.
shouldAddRecord_Stale(t, s) == ~(kind[frame[t].rec] = "cancel" /\ frame[t].old.cancelled)

\* A cancellation handler of a cancelled task is not added: it fires now.
shouldAddRecord(t, s) == ~(kind[frame[t].rec] = "cancel" /\ s.cancelled)

withInnermostRecord(t, s) ==
  LET k == kind[frame[t].rec]
  IN [s EXCEPT !.record = frame[t].rec,
               !.running = @ /\ k # "dependency",
               !.escalated = @ /\ k # "dependency",
               !.dependency = @ \/ k = "dependency",
               !.enqueued = @ \/ frame[t].op = "enqueue",
               !.preference = @ \/ k = "preference"]

\* The record is published on top of the list of s, and what it is about learns
\* the state of the task: a new child, a group of a cancelled task, or a task that this one
\* is about to wait for.
Emplace(t, s) ==
  LET r == frame[t].rec
  IN /\ parent' = [parent EXCEPT ![r] = s.record]
     /\ child' = [c \in Child |->
                    IF c \notin children[r] THEN child[c]
                    ELSE IF kind[r] = "dependency" THEN Escalated(child[c], s.priority)
                    ELSE updateNewChild(s, FALSE)]
     /\ isCancelled' = [isCancelled EXCEPT ![r] = kind[r] = "group" /\ s.cancelled]

AfterAdd(t) ==
  CASE frame[t].op = "add" -> NoCall
    [] frame[t].op = "suspend" -> [frame[t] EXCEPT !.pc = "awaited"]
    [] frame[t].op = "enqueue" -> [frame[t] EXCEPT !.pc = "enqueue"]

AddLockless(t) ==
  /\ At(t, "add")
  /\ ~status.locked
  /\ IF shouldAddRecord(t, status)
     THEN /\ Emplace(t, status)
          /\ status' = withInnermostRecord(t, status)
          /\ frame' = [frame EXCEPT ![t] = IF frame[t].op = "add" THEN NoCall
                                          ELSE [AfterAdd(t) EXCEPT !.old = Load(status)]]
     ELSE /\ Goto(t, "fire")
          /\ UNCHANGED <<status, parent, child, isCancelled>>
  /\ UNCHANGED <<mutex, kind, children, ran, scopes, await, adds>>

\* The status is locked: take the lock.  The caller's oldStatus stays at what the
\* loop read here.
AddSeesLock(t) ==
  /\ At(t, "add")
  /\ status.locked
  /\ frame' = [frame EXCEPT ![t].pc = "lock", ![t].old = Load(status)]
  /\ UNCHANGED <<status, mutex, records, await, adds>>

\* The handler fires on the task's own thread; then its record goes, never linked.
FireHandlerNow(t) ==
  /\ At(t, "fire")
  /\ ran' = [ran EXCEPT ![frame[t].rec] = @ + 1]
  /\ Goto(t, "fired")
  /\ UNCHANGED <<status, mutex, kind, parent, children, isCancelled, child, scopes,
                 await, adds>>

DropFired(t) ==
  /\ At(t, "fired")
  /\ Dealloc(frame[t].rec)
  /\ Return(t)
  /\ UNCHANGED <<status, mutex, await, adds>>

-----------------------------------------------------------------------------
(* Removing a record *)

Unlink(r) ==
  parent' = [p \in Record |-> IF p \in Linked /\ parent[p] = r THEN parent[r] ELSE parent[p]]

\* End of the innermost scope: removeStatusRecord() of an escalation handler, an
\* async let or an empty group
ExitScope ==
  /\ OnTask
  /\ scopes # <<>>
  /\ LET r == scopes[Len(scopes)]
     IN /\ kind[r] \in {"escalation", "child", "group"}
        /\ kind[r] = "group" => children[r] = {}
        /\ frame' = [frame EXCEPT ![Owner] =
                       [NoCall EXCEPT !.pc = "remove", !.op = "remove", !.rec = r]]
  /\ UNCHANGED <<status, mutex, records, await, adds>>

\* End of a scope whose record is found by its type, always with the lock held:
\* a cancellation handler or an executor preference
PopScope ==
  /\ OnTask
  /\ scopes # <<>>
  /\ LET r == scopes[Len(scopes)]
     IN /\ kind[r] \in {"cancel", "preference"}
        /\ frame' = [frame EXCEPT ![Owner] =
              [NoCall EXCEPT !.pc = "lock", !.op = "pop", !.rec = r, !.old = Load(status)]]
  /\ UNCHANGED <<status, mutex, records, await, adds>>

\* What the status becomes besides losing the record: flagAsRunning()
withFlags(t, s) ==
  IF frame[t].op = "run"
  THEN [s EXCEPT !.running = TRUE, !.escalated = FALSE, !.enqueued = FALSE,
                 !.dependency = FALSE]
  ELSE s

\* Mutant: the lockless removal does not look at the lock bit.
RemoveLockless_IgnoresLock(t) ==
  /\ At(t, "remove")
  /\ status.record = frame[t].rec
  /\ status' = withFlags(t, [status EXCEPT !.record = parent[frame[t].rec]])
  /\ Dealloc(frame[t].rec)
  /\ Return(t)
  /\ UNCHANGED <<mutex, await, adds>>

RemoveLockless(t) ==
  /\ At(t, "remove")
  /\ ~status.locked /\ status.record = frame[t].rec
  /\ status' = withFlags(t, [status EXCEPT !.record = parent[frame[t].rec]])
  /\ Dealloc(frame[t].rec)
  /\ Return(t)
  /\ UNCHANGED <<mutex, await, adds>>

RemoveSeesLock(t) ==
  /\ At(t, "remove")
  /\ status.locked \/ status.record # frame[t].rec
  /\ frame' = [frame EXCEPT ![t].pc = "lock", ![t].old = Load(status)]
  /\ UNCHANGED <<status, mutex, records, await, adds>>

-----------------------------------------------------------------------------
(* withStatusRecordLock() *)

Lock(t) ==
  /\ At(t, "lock")
  /\ mutex.holder \in {Null, t}
  /\ mutex' = [holder |-> t, depth |-> mutex.depth + 1]
  /\ Goto(t, "setbit")
  /\ UNCHANGED <<status, records, await, adds>>

\* Mutant: a nested call takes the lock bit for its own.
alreadyLocked_Never(t) == FALSE

\* A bit that was set before the mutex was taken may be another thread's; one that
\* still is set with the mutex held is this thread's.
alreadyLocked(t) == frame[t].old.locked /\ status.locked

\* The caller's function gets the status as of this step.
SetBit(t) ==
  /\ At(t, "setbit")
  /\ status' = [status EXCEPT !.locked = TRUE]
  /\ frame' = [frame EXCEPT
                 ![t].already = alreadyLocked(t),
                 ![t].old = IF Op(t) = "attach" THEN Load(status') ELSE @,
                 ![t].cur = IF frame[t].nested THEN @ ELSE status.record,
                 ![t].pc = IF Op(t) \in Adding \cup {"resume"} THEN "update" ELSE "fn"]
  /\ UNCHANGED <<mutex, records, await, adds>>

\* removeNonInnermostStatusRecordLocked(): the innermost one goes with the status.
FnRemove(t) ==
  /\ At(t, "fn") /\ Op(t) \in {"remove", "run"}
  /\ IF status.record = frame[t].rec THEN UNCHANGED parent ELSE Unlink(frame[t].rec)
  /\ Goto(t, "update")
  /\ UNCHANGED <<status, mutex, kind, children, isCancelled, child, ran, scopes, await, adds>>

OfKind(k) == {r \in Linked : kind[r] = k}

\* preferenceRecordsCount == 1
lastOfKind(t) == Cardinality(OfKind(kind[frame[t].rec])) = 1

\* The first of its type: the others are behind it.
matchOfKind(k) == {r \in OfKind(k) : OfKind(k) \subseteq ChainFrom(parent, r)}

\* removeStatusRecordWhere(): the first record of the type is cut out, or left for the
\* status update if it is the innermost one.
FnPop(t) ==
  /\ At(t, "fn") /\ Op(t) = "pop"
  /\ LET k == kind[frame[t].rec]
         isPreference == k = "preference"
     IN \E r \in matchOfKind(k) :
          /\ IF r = status.record \/ (isPreference /\ r # frame[t].rec)
             THEN UNCHANGED parent ELSE Unlink(r)
          /\ frame' = [frame EXCEPT
                 ![t].pc = "update",
                 ![t].cur = IF isPreference => r = frame[t].rec THEN r ELSE Null,
                 ![t].flag = isPreference /\ lastOfKind(t)]
  /\ UNCHANGED <<status, mutex, kind, children, isCancelled, child, ran, scopes, await, adds>>

UpdateRemove(t) ==
  LET gone == IF Op(t) = "pop" THEN frame[t].cur ELSE frame[t].rec
  IN /\ At(t, "update") /\ Op(t) \in {"remove", "run", "pop"}
     /\ status' = withFlags(t,
          [status EXCEPT !.locked = frame[t].already,
                         !.record = IF status.record = gone THEN parent[gone] ELSE @,
                         !.preference = @ /\ ~frame[t].flag])
     /\ Goto(t, "unlock")
     /\ UNCHANGED <<mutex, records, await, adds>>

\* addStatusRecord() with the lock held decides again, on the latest status.
UpdateAdd(t) ==
  LET s == [status EXCEPT !.locked = frame[t].already]
  IN /\ At(t, "update") /\ Op(t) \in Adding
     /\ IF shouldAddRecord(t, s)
        THEN /\ Emplace(t, s)
             /\ status' = withInnermostRecord(t, s)
        ELSE /\ status' = s
             /\ UNCHANGED <<parent, child, isCancelled>>
     /\ frame' = [frame EXCEPT ![t].pc = "unlock", ![t].flag = ~shouldAddRecord(t, s)]
     /\ UNCHANGED <<mutex, kind, children, ran, scopes, await, adds>>

\* flagAsAndEnqueueOnExecutor() of a suspended task: the dependency record now names
\* the executor and not what the task was suspended on.
UpdateResume(t) ==
  /\ At(t, "update") /\ Op(t) = "resume"
  /\ \E r \in Record :
       /\ kind[r] = "dependency"
       /\ children' = [children EXCEPT ![r] = {}]
       /\ child' = ChildrenWithout(r)
  /\ status' = [status EXCEPT !.locked = frame[t].already, !.escalated = FALSE,
                              !.enqueued = TRUE]
  /\ Goto(t, "unlock")
  /\ UNCHANGED <<mutex, kind, parent, isCancelled, ran, scopes, await, adds>>

\* A call without a statusUpdate only clears the bit it has set.
UpdatePlain(t) ==
  /\ At(t, "update") /\ Op(t) \in {"cancel", "escalate", "attach", "detach", "cancelAll"}
  /\ status' = [status EXCEPT !.locked = frame[t].already]
  /\ Goto(t, "unlock")
  /\ UNCHANGED <<mutex, records, await, adds>>

AfterUnlock(t) ==
  CASE Op(t) = "resume" -> [frame[t] EXCEPT !.pc = "enqueue"]
    [] Op(t) \in Adding -> IF frame[t].flag THEN [frame[t] EXCEPT !.pc = "fire"]
                           ELSE AfterAdd(t)
    [] OTHER -> NoCall

\* Mutant: the inner unlock keeps the mutex for good.
released_Keeps ==
  IF mutex.depth = 2 THEN mutex ELSE [holder |-> Null, depth |-> 0]

released ==
  IF mutex.depth = 1 THEN [holder |-> Null, depth |-> 0]
  ELSE [mutex EXCEPT !.depth = @ - 1]

Unlock(t) ==
  /\ At(t, "unlock")
  /\ mutex' = released
  /\ frame' = [frame EXCEPT ![t] = AfterUnlock(t)]
  /\ IF Op(t) \in {"remove", "run", "pop"} THEN Dealloc(frame[t].rec)
     ELSE UNCHANGED records
  /\ UNCHANGED <<status, await, adds>>

-----------------------------------------------------------------------------
(* Task groups: children come and go with the parent's lock held *)

InScope(r) == \E n \in DOMAIN scopes : scopes[n] = r

WithLock(op, r, c) ==
  frame' = [frame EXCEPT ![Owner] = [NoCall EXCEPT !.pc = "lock", !.op = op, !.rec = r,
                                                   !.kid = c, !.old = Load(status)]]

AttachChild(r, c) ==
  /\ OnTask
  /\ kind[r] = "group" /\ InScope(r)
  /\ NewChildOf(c)
  /\ adds < MaxAdds
  /\ adds' = adds + 1
  /\ WithLock("attach", r, c)
  /\ UNCHANGED <<status, mutex, records, await>>

FnAttach(t) ==
  LET r == frame[t].rec
      c == frame[t].kid
  IN /\ At(t, "fn") /\ Op(t) = "attach"
     /\ children' = [children EXCEPT ![r] = @ \cup {c}]
     /\ child' = [child EXCEPT ![c] = updateNewChild(frame[t].old, isCancelled[r])]
     /\ Goto(t, "update")
     /\ UNCHANGED <<status, mutex, kind, parent, isCancelled, ran, scopes, await, adds>>

DetachChild(r, c) ==
  /\ OnTask
  /\ kind[r] = "group" /\ c \in children[r]
  /\ WithLock("detach", r, c)
  /\ UNCHANGED <<status, mutex, records, await, adds>>

FnDetach(t) ==
  /\ At(t, "fn") /\ Op(t) = "detach"
  /\ children' = [children EXCEPT ![frame[t].rec] = @ \ {frame[t].kid}]
  /\ child' = [child EXCEPT ![frame[t].kid] = NewChild]
  /\ Goto(t, "update")
  /\ UNCHANGED <<status, mutex, kind, parent, isCancelled, ran, scopes, await, adds>>

\* cancelAll(): the group's bit, and a lock only if there are children
CancelAll(r) ==
  /\ OnTask
  /\ kind[r] = "group" /\ InScope(r)
  /\ ~isCancelled[r]
  /\ isCancelled' = [isCancelled EXCEPT ![r] = TRUE]
  /\ IF children[r] = {} THEN UNCHANGED frame ELSE WithLock("cancelAll", r, Null)
  /\ UNCHANGED <<status, mutex, kind, parent, children, child, ran, scopes, await, adds>>

CancelChildren(kids) ==
  child' = [c \in Child |-> IF c \in kids THEN [child[c] EXCEPT !.cancelled = TRUE]
                            ELSE child[c]]

FnCancelAll(t) ==
  /\ At(t, "fn") /\ Op(t) = "cancelAll"
  /\ CancelChildren(children[frame[t].rec])
  /\ Goto(t, "update")
  /\ UNCHANGED <<status, mutex, kind, parent, children, isCancelled, ran, scopes, await, adds>>

-----------------------------------------------------------------------------
(* Cancellation and escalation *)

Walking(t, op) == At(t, "fn") /\ ~frame[t].nested /\ frame[t].op = op

\* Mutant: a second canceller goes through the records again.
Cancel_NoEarlyReturn(t) ==
  LET s == [status EXCEPT !.cancelled = TRUE]
  IN /\ Idle(t) /\ (t = Owner => OnTask)
     /\ status' = s
     /\ IF s.record = Null THEN UNCHANGED frame
        ELSE frame' = [frame EXCEPT ![t] =
                         [NoCall EXCEPT !.pc = "lock", !.op = "cancel", !.old = Load(s)]]
     /\ UNCHANGED <<mutex, records, await, adds>>

\* language_task_cancel(), by another thread or by the task itself
Cancel(t) ==
  LET s == [status EXCEPT !.cancelled = TRUE]
  IN /\ Idle(t) /\ (t = Owner => OnTask)
     /\ ~status.cancelled
     /\ status' = s
     /\ IF s.record = Null THEN UNCHANGED frame
        ELSE frame' = [frame EXCEPT ![t] =
                         [NoCall EXCEPT !.pc = "lock", !.op = "cancel", !.old = Load(s)]]
     /\ UNCHANGED <<mutex, records, await, adds>>

\* performCancellationAction() of a record without a handler
WalkCancel(t) ==
  LET r == frame[t].cur
  IN /\ Walking(t, "cancel")
     /\ r # Null /\ kind[r] # "cancel"
     /\ CancelChildren(IF kind[r] = "dependency" THEN {} ELSE children[r])
     /\ isCancelled' = [isCancelled EXCEPT ![r] = @ \/ kind[r] = "group"]
     /\ frame' = [frame EXCEPT ![t].cur = parent[r]]
     /\ UNCHANGED <<status, mutex, kind, parent, children, ran, scopes, await, adds>>

\* The handler runs with the lock held.
WalkHandler(t) ==
  LET r == frame[t].cur
  IN /\ Walking(t, "cancel")
     /\ r # Null /\ kind[r] = "cancel"
     /\ ran' = [ran EXCEPT ![r] = @ + 1]
     /\ Goto(t, "next")
     /\ UNCHANGED <<status, mutex, kind, parent, children, isCancelled, child, scopes,
                    await, adds>>

WalkNext(t) ==
  /\ At(t, "next")
  /\ frame' = [frame EXCEPT ![t].pc = "fn", ![t].cur = parent[@]]
  /\ UNCHANGED <<status, mutex, records, await, adds>>

\* language_task_escalate(): a task that is neither running nor enqueued nor complete
\* is suspended, or new.
Escalate(t, p) ==
  LET active == status.running \/ status.enqueued
      s == [status EXCEPT !.priority = p, !.escalated = @ \/ active]
  IN /\ Idle(t) /\ t # Owner
     /\ p > status.priority
     /\ active \/ ~status.complete
     /\ status' = s
     /\ IF s.record = Null THEN UNCHANGED frame
        ELSE frame' = [frame EXCEPT ![t] = [NoCall EXCEPT !.pc = "lock", !.prio = p,
                                              !.op = "escalate", !.old = Load(s)]]
     /\ UNCHANGED <<mutex, records, await, adds>>

\* performEscalationAction(): children and the task that is waited for are escalated;
\* handlers and executors are told.
WalkEscalate(t) ==
  LET r == frame[t].cur
      p == frame[t].prio
  IN /\ Walking(t, "escalate")
     /\ r # Null
     /\ child' = [c \in Child |->
                    IF c \in children[r] THEN Escalated(child[c], p) ELSE child[c]]
     /\ frame' = [frame EXCEPT ![t].cur = parent[r]]
     /\ UNCHANGED <<status, mutex, kind, parent, children, isCancelled, ran, scopes,
                    await, adds>>

WalkEnd(t) ==
  /\ Walking(t, "cancel") \/ Walking(t, "escalate")
  /\ frame[t].cur = Null
  /\ Goto(t, "update")
  /\ UNCHANGED <<status, mutex, records, await, adds>>

-----------------------------------------------------------------------------
(* Suspending, resuming, running, completing *)

MaySuspend ==
  /\ OnTask
  /\ continuation = "none"
  /\ adds < MaxAdds /\ \E r \in Record : kind[r] = "free"

ContinuationInit ==
  /\ MaySuspend
  /\ continuation' = "Pending"
  /\ Goto(Owner, "await")
  /\ UNCHANGED <<status, mutex, records, resumed, job, adds>>

\* A pre-awaited continuation suspends the task before anybody can resume it.
ContinuationInitPreawaited(r) ==
  /\ MaySuspend
  /\ StartAdd(r, "dependency", "suspend", {})

\* waitFuture() synchronises with the completion of the other task as a continuation does
\* with its resumption: Pending is an executing task, Awaited one that has this task in its
\* wait queue, Resumed a completed one.
WaitFuture(c) ==
  /\ MaySuspend
  /\ continuation' = "Pending"
  /\ frame' = [frame EXCEPT ![Owner].pc = "await", ![Owner].kid = c]
  /\ UNCHANGED <<status, mutex, records, resumed, job, adds>>

AwaitFindsResumed ==
  /\ At(Owner, "await")
  /\ continuation = "Resumed"
  /\ continuation' = "none" /\ resumed' = FALSE
  /\ Return(Owner)
  /\ UNCHANGED <<status, mutex, records, job, adds>>

\* flagAsSuspendedOnContinuation() or flagAsSuspendedOnTask()
FlagAsSuspended(r) ==
  /\ At(Owner, "await")
  /\ continuation = "Pending"
  /\ StartAdd(r, "dependency", "suspend", {frame[Owner].kid} \ {Null})

PreawaitSucceeds ==
  /\ At(Owner, "awaited")
  /\ continuation = "none"
  /\ continuation' = "Awaited"
  /\ Return(Owner)
  /\ UNCHANGED <<status, mutex, records, resumed, job, adds>>

\* The task is suspended; nobody has resumed it yet.
AwaitSucceeds ==
  /\ At(Owner, "awaited")
  /\ continuation = "Pending"
  /\ continuation' = "Awaited"
  /\ Return(Owner)
  /\ UNCHANGED <<status, mutex, records, resumed, job, adds>>

\* flagAsRunning() of a task with a dependency record, which is then destroyed
FlagAsRunning(r) ==
  /\ continuation' = "none" /\ resumed' = FALSE
  /\ frame' = [frame EXCEPT ![Owner] =
                 [NoCall EXCEPT !.pc = "remove", !.op = "run", !.rec = r]]

AwaitLoses ==
  /\ At(Owner, "awaited")
  /\ continuation = "Resumed"
  /\ FlagAsRunning(frame[Owner].rec)
  /\ UNCHANGED <<status, mutex, records, job, adds>>

\* Mutant: a continuation that is not awaited yet is taken for awaited.
pendingToResumed_Never == continuation

\* resumeTaskAfterContinuation(): the one call of resume() either leaves word for the
\* task or has to enqueue it.
pendingToResumed == IF continuation = "Pending" THEN "Resumed" ELSE continuation

MayResume == continuation \in {"Pending", "Awaited"} /\ ~resumed

Resume(t) ==
  /\ Idle(t) /\ t # Owner
  /\ MayResume
  /\ resumed' = TRUE
  /\ continuation' = pendingToResumed
  /\ IF continuation = "Pending" THEN UNCHANGED frame
     ELSE frame' = [frame EXCEPT ![t] = [NoCall EXCEPT !.pc = "lock", !.op = "resume",
                                                       !.old = Load(status)]]
  /\ UNCHANGED <<status, mutex, records, job, adds>>

WaitsForTask ==
  \/ At(Owner, "await") /\ frame[Owner].kid # Null
  \/ \E r \in Record : kind[r] = "dependency" /\ children[r] # {}

\* A cancellation handler resumes the task it belongs to, with the lock held.
HandlerResumes(t) ==
  /\ At(t, "next")
  /\ MayResume /\ ~WaitsForTask
  /\ resumed' = TRUE
  /\ continuation' = pendingToResumed
  /\ IF continuation = "Pending" THEN UNCHANGED frame
     ELSE frame' = [frame EXCEPT ![t].nested = TRUE, ![t].pc = "lock", ![t].old = Load(status)]
  /\ UNCHANGED <<status, mutex, records, job, adds>>

\* Flags.setPriority() and language_task_enqueue()
Enqueue(t) ==
  /\ At(t, "enqueue")
  /\ job' = [queued |-> TRUE, priority |-> frame[t].old.priority]
  /\ frame' = [frame EXCEPT ![t] =
                 IF frame[t].nested
                 THEN [frame[t] EXCEPT !.pc = "next", !.nested = FALSE, !.already = FALSE]
                 ELSE NoCall]
  /\ UNCHANGED <<status, mutex, records, continuation, resumed, adds>>

\* An executor runs the task.
RunJob ==
  /\ Idle(Owner)
  /\ job.queued
  /\ job' = [job EXCEPT !.queued = FALSE]
  /\ FlagAsRunning(scopes[Len(scopes)])
  /\ UNCHANGED <<status, mutex, records, adds>>

\* flagAsRunning() of a new task that is run where it is created
RunImmediately ==
  /\ Idle(Owner)
  /\ ~status.running /\ ~status.enqueued /\ ~status.dependency /\ ~status.complete
  /\ status' = [status EXCEPT !.running = TRUE, !.escalated = FALSE]
  /\ UNCHANGED <<mutex, records, await, frame, adds>>

Complete ==
  /\ OnTask
  /\ scopes = <<>>
  /\ status' = [status EXCEPT !.running = FALSE, !.escalated = FALSE, !.enqueued = FALSE,
                              !.complete = TRUE]
  /\ UNCHANGED <<mutex, records, await, frame, adds>>

-----------------------------------------------------------------------------
(* What the task chooses to do, and the steps of a call once it is made *)

Call ==
  \/ \E r \in Record, k \in {"cancel", "escalation", "group", "preference"} : EnterScope(r, k)
  \/ \E r \in Record, c \in Child : AsyncLet(r, c)
  \/ \E r \in Record : FlagAsAndEnqueueOnExecutor(r)
  \/ ExitScope
  \/ PopScope
  \/ \E r \in Record, c \in Child : AttachChild(r, c)
  \/ \E r \in Record, c \in Child : DetachChild(r, c)
  \/ \E r \in Record : CancelAll(r)
  \/ ContinuationInit
  \/ \E r \in Record : ContinuationInitPreawaited(r)
  \/ \E c \in Child : WaitFuture(c)
  \/ RunImmediately
  \/ Complete
  \/ \E t \in Thread : Cancel(t)
  \/ \E t \in Thread, p \in JobPriority : Escalate(t, p)
  \/ \E t \in Thread : Resume(t)
  \/ \E t \in Thread : HandlerResumes(t)

LockStep(t) ==
  \/ AddLockless(t)
  \/ AddSeesLock(t)
  \/ FireHandlerNow(t)
  \/ DropFired(t)
  \/ RemoveLockless(t)
  \/ RemoveSeesLock(t)
  \/ Lock(t)
  \/ SetBit(t)
  \/ FnRemove(t)
  \/ FnPop(t)
  \/ UpdateRemove(t)
  \/ UpdateAdd(t)
  \/ UpdateResume(t)
  \/ UpdatePlain(t)
  \/ Unlock(t)
  \/ FnAttach(t)
  \/ FnDetach(t)
  \/ FnCancelAll(t)
  \/ WalkCancel(t)
  \/ WalkHandler(t)
  \/ WalkNext(t)
  \/ WalkEscalate(t)
  \/ WalkEnd(t)
  \/ Enqueue(t)

AwaitStep ==
  \/ AwaitFindsResumed
  \/ \E r \in Record : FlagAsSuspended(r)
  \/ AwaitSucceeds
  \/ PreawaitSucceeds
  \/ AwaitLoses

Next ==
  \/ Call
  \/ \E t \in Thread : LockStep(t)
  \/ AwaitStep
  \/ RunJob

Spec == Init /\ [][Next]_vars

\* A thread in a call is scheduled, and an executor runs the jobs it has.  Nothing
\* makes a thread start a call.
Fairness ==
  /\ \A t \in Thread : WF_vars(LockStep(t))
  /\ WF_vars(AwaitStep)
  /\ WF_vars(RunJob)

FairSpec == Spec /\ Fairness

-----------------------------------------------------------------------------
(* Properties *)

\* The status word, the records and every call in progress keep their types: the recursive
\* mutex is held at most twice, by cancel() and a resume() nested in it.
TypeOK ==
  /\ status \in Status
  /\ mutex \in [holder: Thread \cup {Null}, depth: 0..2]
  /\ kind \in [Record -> Kinds]
  /\ parent \in [Record -> Record \cup {Null}]
  /\ children \in [Record -> SUBSET Child]
  /\ isCancelled \in [Record -> BOOLEAN]
  /\ child \in [Child -> [cancelled: BOOLEAN, priority: JobPriority \cup {UserInitiated}]]
  /\ ran \in [Record -> Nat]
  /\ scopes \in Seq(Record)
  /\ continuation \in {"none", "Pending", "Awaited", "Resumed"}
  /\ resumed \in BOOLEAN
  /\ job \in [queued: BOOLEAN, priority: JobPriority]
  /\ frame \in [Thread -> Frame]
  /\ adds \in 0..MaxAdds

\* Whoever walks the list stands on a record that is allocated and linked, although
\* the task may leave a scope, and free its record, at any moment.
ReadsLiveRecords ==
  \A t \in Thread :
    /\ frame[t].pc \in {"fn", "next"}
    /\ frame[t].op \in {"cancel", "escalate"}
    /\ frame[t].cur # Null
    => kind[frame[t].cur] # "free" /\ frame[t].cur \in Linked

\* A cancellation handler runs at most once, also when the task enters its scope
\* while it is being cancelled.
HandlerRunsOnce == \A r \in Record : kind[r] = "cancel" => ran[r] <= 1

Cancelling(t) == frame[t].pc # "idle" /\ frame[t].op \in {"cancel", "cancelAll"}

\* Once no canceller is on its way, cancellation has reached everything the task has:
\* handlers have run and children are cancelled, those that came while the canceller
\* was between its bit and the lock included.
CancelReachesAll ==
  (\A t \in Thread : ~Cancelling(t)) =>
    \A r \in Linked :
      /\ status.cancelled /\ kind[r] = "cancel" => ran[r] = 1
      /\ kind[r] # "dependency" /\ (status.cancelled \/ isCancelled[r])
         => \A c \in children[r] : child[c].cancelled

Escalating(t) == frame[t].pc # "idle" /\ frame[t].op = "escalate"

\* Once no escalator is on its way, no child is below its parent's priority, and neither is
\* a task that the suspended task waits for, whether it was escalated before, while or after
\* it published what it waits for.
EscalationReachesChildren ==
  (\A t \in Thread : ~Escalating(t)) =>
    \A r \in Linked : \A c \in children[r] :
      child[c].priority >= IF kind[r] = "dependency" THEN status.priority
                           ELSE withUserInteractivePriorityDowngrade(status.priority)

\* The record a scope removes is the innermost one, as removeCancellationHandler()
\* asserts and the comment on dependency records says.
RemovalFindsInnermost ==
  /\ frame[Owner].op \in {"remove", "run", "pop"}
  /\ frame[Owner].pc \in {"remove", "lock", "setbit", "fn", "update"}
  => status.record = frame[Owner].rec

\* The lock bit belongs to the holder of the mutex, and a thread about to set it finds
\* it clear unless it has set it itself: the assert of withStatusRecordLocked().
LockBitFollowsMutex ==
  /\ status.locked => mutex.holder # Null
  /\ \A t \in Thread : frame[t].pc = "setbit" =>
       /\ mutex.holder = t
       /\ status.locked <=> frame[t].nested
  /\ \A t \in Thread : frame[t].pc \in {"fn", "next", "update"} =>
       mutex.holder = t /\ status.locked

\* hasTaskDependency() and hasTaskExecutorPreference() say what the list holds: they
\* are read without the lock, to spare a walk.
FlagsMatchRecords ==
  /\ status.dependency <=> \E r \in Linked : kind[r] = "dependency"
  /\ status.preference <=> \E r \in Linked : kind[r] = "preference"

\* The asserts of flagAsRunning(), flagAsAndEnqueueOnExecutor() and complete(): nobody
\* enqueues a task that runs or is enqueued, nobody runs one that runs or is complete,
\* and a complete task has no records.
StateAsserts ==
  /\ \A t \in Thread :
       Op(t) = "resume" /\ frame[t].pc \in {"lock", "setbit", "update"}
       => status.dependency /\ ~status.running /\ ~status.enqueued /\ ~status.complete
  /\ frame[Owner].op = "run" /\ frame[Owner].pc \in {"remove", "lock", "setbit", "fn", "update"}
     => status.dependency /\ ~status.running /\ ~status.complete
  /\ status.complete => status.record = Null

\* What the code reads without taking the lock, or asserts, agrees with the records, the mutex
\* and the threads that hold it, in every order of calls.
StatusIsConsistent ==
  /\ TypeOK
  /\ LockBitFollowsMutex
  /\ FlagsMatchRecords
  /\ RemovalFindsInnermost
  /\ StateAsserts

\* addStatusRecord() leaves in oldStatus the last status before its update, as its
\* comment says; flagAsAndEnqueueOnExecutor() enqueues the job with that priority.
OldStatusIsLatest ==
  [][frame[Owner].op \in {"suspend", "enqueue"}
     /\ status.record # frame[Owner].rec /\ status'.record = frame[Owner].rec
     => frame'[Owner].old.priority = status.priority]_vars

\* Every call returns: no thread waits for a lock for ever, nested calls included.
CallsReturn == \A t \in Thread : (frame[t].pc # "idle") ~> (frame[t].pc = "idle")

\* A task whose continuation has been resumed runs again, whichever of the task, the
\* resumer and a canceller's handler comes first.
ResumedTaskRuns == resumed ~> (status.running /\ continuation = "none")
=============================================================================
