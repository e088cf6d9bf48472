------------------------------ MODULE AsyncLet ------------------------------
(***************************************************************************)
(* A task with async let bindings: language_asyncLet_begin, _get,          *)
(* _get_throwing, _finish, _consume and _consume_throwing on top of the    *)
(* futures of the child tasks, a thread that cancels the task, and another *)
(* task that waits for a future of its own.                                *)
(*                                                                         *)
(* The memory of a child task and of its result belongs to the frame of    *)
(* the declaring task and is used again after the binding's scope.         *)
(***************************************************************************)
EXTENDS TaskFuture, Sequences, Functions

CONSTANTS
  Parent,          \* the declaring task
  Binding,         \* its async lets; the other futures belong to tasks of their own
  Program,         \* the bindings that it declares, in order and each once, and the tasks it knows
  Throwing,        \* tasks that may throw
  UntilCancelled   \* bindings whose child tasks may go on until they are cancelled

ASSUME LetAssumption ==
  /\ Parent \in Waiter
  /\ Binding \subseteq Future
  /\ \A p \in Program : p.lets \in Seq(Binding) /\ p.tasks \subseteq Future \ Binding
  /\ \A p \in Program : IsInjective(p.lets)
  /\ Throwing \subseteq Future
  /\ UntilCancelled \subseteq Binding

VARIABLES
  pending,     \* the bindings still to be declared
  scope,       \* the bindings in scope, innermost last
  call,        \* the runtime function that the parent is in
  hasResult,   \* HasResult
  buffer,      \* the result buffer
  records,     \* bindings whose record is in the parent's status
  cancelled,   \* tasks that have been cancelled
  canceller,   \* the thread that cancels the parent
  toCancel     \* records it has not come to

letVars == <<pending, scope, call, hasResult, buffer, records, cancelled, canceller, toCancel>>
vars == <<futureVars, letVars>>

Init ==
  /\ \E p \in Program : FutureInit(p.tasks) /\ pending = p.lets
  /\ scope = <<>>
  /\ call = "body"
  /\ hasResult = [l \in Binding |-> FALSE]
  /\ buffer = [l \in Binding |-> "raw"]
  /\ records = {}
  /\ cancelled = {}
  /\ canceller = "no"
  /\ toCancel = {}

InBody == call = "body" /\ wait[Parent] = "no"
Innermost == scope[Len(scope)]

\* initializeWithCopy and destroy of the value in a result buffer
Fill(b) == IF b = "raw" THEN "value" ELSE "misused"
Empty(b) == IF b = "value" THEN "raw" ELSE "misused"

\* What a wait for l leaves in the buffer
Filled(l) == IF context[Parent] = "success" THEN Fill(buffer[l]) ELSE buffer[l]

-----------------------------------------------------------------------------
(* Declaration, and the end of a binding *)

\* language_asyncLet_begin() and asyncLet_addImpl(): a cancelled parent has cancelled
\* children, whether it was cancelled before or after the record was added.  Adding the record
\* waits for a thread that walks the records.
Begin ==
  /\ InBody
  /\ canceller # "walk"
  /\ pending # <<>>
  /\ LET l == Head(pending)
     IN  /\ pending' = Tail(pending)
         /\ scope' = Append(scope, l)
         /\ records' = records \cup {l}
         /\ cancelled' = cancelled \cup IF Parent \in cancelled THEN {l} ELSE {}
         /\ owners' = [owners EXCEPT ![l] = {Parent}]
         /\ position' = [position EXCEPT ![l] = "running"]
  /\ UNCHANGED <<call, hasResult, buffer, canceller, toCancel, waitQueue, nextWaitingTask,
                 failed, waitingTask, following, waitsOn, wait, queueHead, flagged, context>>

\* Mutant: the record is removed under a walk.
RemoveRecord_NoLock ==
  /\ call = "remove"
  /\ records' = records \ {Innermost}
  /\ call' = "destroy"
  /\ UNCHANGED <<futureVars, pending, scope, hasResult, buffer, cancelled, canceller, toCancel>>

\* asyncLet_finish_after_task_completion(): the record is removed, which waits for a thread
\* that walks the records; then the child task is destroyed.
RemoveRecord ==
  /\ call = "remove"
  /\ canceller # "walk"
  /\ records' = records \ {Innermost}
  /\ call' = "destroy"
  /\ UNCHANGED <<futureVars, pending, scope, hasResult, buffer, cancelled, canceller, toCancel>>

DestroyTask ==
  /\ call = "destroy"
  /\ owners' = [owners EXCEPT ![Innermost] = {}]
  /\ failed' = [failed EXCEPT ![Innermost] = FALSE]
  /\ hasResult' = [hasResult EXCEPT ![Innermost] = FALSE]
  /\ cancelled' = cancelled \ {Innermost}
  /\ scope' = SubSeq(scope, 1, Len(scope) - 1)
  /\ call' = "body"
  /\ UNCHANGED <<pending, buffer, records, canceller, toCancel, waitQueue, nextWaitingTask,
                 position, waitingTask, following, waitsOn, wait,
                 queueHead, flagged, context>>

-----------------------------------------------------------------------------
(* get *)

\* language_asyncLet_get() marks the buffer as populated before it waits,
\* language_asyncLet_get_throwing() only in its continuation.
Get(l) ==
  /\ InBody
  /\ \E i \in DOMAIN scope : scope[i] = l
  /\ ~hasResult[l]
  /\ hasResult' = [hasResult EXCEPT ![l] = l \notin Throwing]
  /\ StartWait(Parent, l)
  /\ call' = "get"
  /\ UNCHANGED <<pending, scope, buffer, records, cancelled, canceller, toCancel>>

GetReturns ==
  /\ call = "get"
  /\ LET l == waitsOn[Parent]
     IN  /\ buffer' = [buffer EXCEPT ![l] = Filled(l)]
         /\ hasResult' = [hasResult EXCEPT ![l] = @ \/ context[Parent] = "success"]
  /\ EndWait(Parent)
  /\ call' = "body"
  /\ UNCHANGED <<pending, scope, records, cancelled, canceller, toCancel>>

-----------------------------------------------------------------------------
(* finish *)

\* Mutant: the result is not destroyed.
FinishPopulated_Leaks ==
  /\ InBody
  /\ scope # <<>>
  /\ hasResult[Innermost]
  /\ call' = "remove"
  /\ UNCHANGED <<futureVars, pending, scope, hasResult, buffer, records, cancelled, canceller,
                 toCancel>>

\* The result is in the buffer and destroyed there.
FinishPopulated ==
  /\ InBody
  /\ scope # <<>>
  /\ hasResult[Innermost]
  /\ buffer' = [buffer EXCEPT ![Innermost] = Empty(@)]
  /\ call' = "remove"
  /\ UNCHANGED <<futureVars, pending, scope, hasResult, records, cancelled, canceller, toCancel>>

\* Mutant: the child task is awaited but not cancelled.
FinishWaits_NoCancel ==
  /\ InBody
  /\ scope # <<>>
  /\ ~hasResult[Innermost]
  /\ StartWait(Parent, Innermost)
  /\ call' = "finish"
  /\ UNCHANGED <<pending, scope, hasResult, buffer, records, cancelled, canceller, toCancel>>

\* Nobody asked for the result: the child task is cancelled and awaited.
FinishWaits ==
  /\ InBody
  /\ scope # <<>>
  /\ ~hasResult[Innermost]
  /\ cancelled' = cancelled \cup {Innermost}
  /\ StartWait(Parent, Innermost)
  /\ call' = "finish"
  /\ UNCHANGED <<pending, scope, hasResult, buffer, records, canceller, toCancel>>

\* _asyncLet_finish_continuation(): the result or the error is destroyed.
FinishReturns ==
  /\ call = "finish"
  /\ buffer' = [buffer EXCEPT ![Innermost] =
                  IF context[Parent] = "success" THEN Empty(Filled(Innermost)) ELSE @]
  /\ EndWait(Parent)
  /\ call' = "remove"
  /\ UNCHANGED <<pending, scope, hasResult, records, cancelled, canceller, toCancel>>

-----------------------------------------------------------------------------
(* consume: the caller takes the value out of the buffer *)

ConsumePopulated ==
  /\ InBody
  /\ scope # <<>>
  /\ hasResult[Innermost]
  /\ buffer' = [buffer EXCEPT ![Innermost] = Empty(@)]
  /\ call' = "remove"
  /\ UNCHANGED <<futureVars, pending, scope, hasResult, records, cancelled, canceller, toCancel>>

ConsumeWaits ==
  /\ InBody
  /\ scope # <<>>
  /\ ~hasResult[Innermost]
  /\ StartWait(Parent, Innermost)
  /\ call' = "consume"
  /\ UNCHANGED <<pending, scope, hasResult, buffer, records, cancelled, canceller, toCancel>>

ConsumeReturns ==
  /\ call = "consume"
  /\ buffer' = [buffer EXCEPT ![Innermost] =
                  IF context[Parent] = "success" THEN Empty(Filled(Innermost)) ELSE @]
  /\ EndWait(Parent)
  /\ call' = "remove"
  /\ UNCHANGED <<pending, scope, hasResult, records, cancelled, canceller, toCancel>>

-----------------------------------------------------------------------------
(* language_task_cancel() of the parent *)

CancelParent ==
  /\ canceller = "no"
  /\ cancelled' = cancelled \cup {Parent}
  /\ canceller' = IF records = {} THEN "done" ELSE "lock"
  /\ UNCHANGED <<futureVars, pending, scope, call, hasResult, buffer, records, toCancel>>

\* withStatusRecordLock(): the records of this moment are walked.
LockRecords ==
  /\ canceller = "lock"
  /\ canceller' = "walk"
  /\ toCancel' = records
  /\ UNCHANGED <<futureVars, pending, scope, call, hasResult, buffer, records, cancelled>>

CancelRecord(l) ==
  /\ canceller = "walk"
  /\ l \in toCancel
  /\ cancelled' = cancelled \cup {l}
  /\ toCancel' = toCancel \ {l}
  /\ UNCHANGED <<futureVars, pending, scope, call, hasResult, buffer, records, canceller>>

CancelEnds ==
  /\ canceller = "walk"
  /\ toCancel = {}
  /\ canceller' = "done"
  /\ UNCHANGED <<futureVars, pending, scope, call, hasResult, buffer, records, cancelled,
                 toCancel>>

-----------------------------------------------------------------------------

\* Waiting for a task that has nothing to do with the bindings
WaitForTask(w, f) ==
  /\ Handle \in owners[f]
  /\ w = Parent => InBody
  /\ StartWait(w, f)
  /\ call' = IF w = Parent THEN "task" ELSE call
  /\ UNCHANGED <<pending, scope, hasResult, buffer, records, cancelled, canceller, toCancel>>

TaskWaitReturns(w) ==
  /\ w = Parent => call = "task"
  /\ EndWait(w)
  /\ call' = IF w = Parent THEN "body" ELSE call
  /\ UNCHANGED <<pending, scope, hasResult, buffer, records, cancelled, canceller, toCancel>>

\* The function of a task ends
Completes(f) ==
  /\ \E throws \in BOOLEAN :
       /\ throws => f \in Throwing
       /\ CompleteTask(f, throws)
  /\ UNCHANGED letVars

Body ==
  \/ Begin
  \/ \E l \in Binding : Get(l)
  \/ ConsumePopulated \/ ConsumeWaits
  \/ \E w \in Waiter, f \in Future : WaitForTask(w, f)
  \/ \E f \in Future : DropHandle(f) /\ UNCHANGED letVars

\* What happens without being asked by the code of a task
RuntimeStep ==
  \/ GetReturns \/ FinishReturns \/ ConsumeReturns
  \/ RemoveRecord \/ DestroyTask
  \/ \E w \in Waiter : (WaitStep(w) /\ UNCHANGED letVars) \/ TaskWaitReturns(w)

CancellerStep == LockRecords \/ (\E l \in Binding : CancelRecord(l)) \/ CancelEnds

Next ==
  \/ Body
  \/ FinishPopulated \/ FinishWaits
  \/ RuntimeStep
  \/ \E f \in Future : Completes(f) \/ (CompletionStep(f) /\ UNCHANGED letVars)
  \/ CancelParent
  \/ CancellerStep

Spec == Init /\ [][Next]_vars

\* Threads inside the runtime keep running, executors run their jobs, and tasks end, at the
\* latest when they are cancelled.  Nothing makes the code of a task go on.
FairSpec ==
  /\ Spec
  /\ WF_vars(GetReturns \/ FinishReturns \/ ConsumeReturns \/ RemoveRecord \/ DestroyTask)
  /\ \A w \in Waiter : WF_vars(WaitStep(w) /\ UNCHANGED letVars) /\ WF_vars(TaskWaitReturns(w))
  /\ \A f \in Future : 
       /\ WF_vars((f \in UntilCancelled => f \in cancelled) /\ Completes(f))
       /\ WF_vars(CompletionStep(f) /\ UNCHANGED letVars)
  /\ WF_vars(CancellerStep)

-----------------------------------------------------------------------------
(* Properties *)

\* Every variable keeps its type.
TypeOK ==
  /\ FutureTypeOK
  /\ pending \in Seq(Binding)
  /\ scope \in Seq(Binding)
  /\ call \in {"body", "get", "finish", "consume", "remove", "destroy", "task"}
  /\ hasResult \in [Binding -> BOOLEAN]
  /\ buffer \in [Binding -> {"raw", "value", "misused"}]
  /\ records \in SUBSET Binding
  /\ cancelled \in SUBSET (Binding \cup {Parent})
  /\ canceller \in {"no", "lock", "walk", "done"}
  /\ toCancel \in SUBSET Binding

\* A task may be gone only where completeFuture() asks for its flags, after its completion was
\* published, and only the child task of a binding that nobody was waiting for then.  Everything
\* else that waiters, cancellers and completing threads do touches live tasks: the queue up to
\* the exchange and the result while contexts are filled, although nothing retains the child.
OnlyFlagsAreReadLate ==
  /\ \A w \in Waiter : wait[w] # "no" => IsAlive(waitsOn[w])
  /\ \A l \in toCancel : IsAlive(l)
  /\ \A f \in Future :
       \/ position[f] \in {"running", "exchange"}
       \/ position[f] \in {"group", "wake"} /\ (waitingTask[f] # NoTask \/ f \notin Binding)
       => IsAlive(f)

\* The warning in completeTaskImpl(): completing the future deallocates the task of an async
\* let, which must not be accessed afterwards.  Not what completeFuture() does: it asks for the
\* flags of the task after the exchange that completes the future.
CompletedTaskIsNotAccessed ==
  \A f \in Future : position[f] = "group" => IsAlive(f)

\* The value in the result buffer of a binding is created once, destroyed or moved out once,
\* and gone when the scope ends, on every way through get, finish and consume.  A parent in
\* its body has a value in the buffer exactly when the flag of the binding says so.
BufferIsBalanced ==
  /\ TypeOK
  /\ \A l \in Binding : buffer[l] # "misused"
  /\ call \in {"remove", "destroy"} => buffer[Innermost] = "raw"
  /\ InBody => \A i \in DOMAIN scope : hasResult[scope[i]] = (buffer[scope[i]] = "value")

\* A scope that is being left is left, also by a child task that only cancellation ends.
FinishEnds == call = "finish" ~> call = "body"
=============================================================================
