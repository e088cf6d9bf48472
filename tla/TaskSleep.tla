----------------------------- MODULE TaskSleep ------------------------------
(***************************************************************************)
(* Task.sleep(nanoseconds:), and _sleep(until:) which shares the protocol: *)
(* the sleeping task, the job that wakes it after the delay and the        *)
(* cancellation handler meet in one heap-allocated word, the sleep token,  *)
(* that nobody owns for good.  One task sleeps several times in a row.     *)
(*                                                                         *)
(* A load of the word and the exchange that follows it are separate steps: *)
(* what matters is who may free the word between the two.  The rules for   *)
(* cancellation handlers are those that module TaskStatus checks.          *)
(***************************************************************************)
EXTENDS Integers

CONSTANTS
  Sleep,        \* calls of sleep() by the task
  Continuation  \* the address of the task, which is what its continuation is

\* Tasks are aligned, so that the two low bits of the word can tell states apart.
ASSUME AlignedContinuation ==
  /\ Continuation \in Nat
  /\ Continuation > 0
  /\ Continuation % 4 = 0

VARIABLES
  word,       \* the sleep token's storage
  frees,      \* how often the token has been deallocated
  sleeper,    \* where the task is in each call of sleep()
  waker,      \* the job that wakes it
  handler,    \* the cancellation handler's run
  seen,       \* per call and party: the SleepState it has loaded
  registered, \* the handler is in the task's record list
  result,     \* what the continuation was resumed with
  resumes,    \* how often the continuation was resumed
  canceller   \* the first thread to call cancel() on the task

vars == <<word, frees, sleeper, waker, handler, seen, registered, result, resumes,
          canceller>>

SleepState == {"notStarted", "activeContinuation", "finished", "cancelled",
               "cancelledBeforeStarted"}

\* The word that stands for a state
WordOf(state) ==
  CASE state = "notStarted" -> 0
    [] state = "activeContinuation" -> Continuation
    [] state = "finished" -> 1
    [] state = "cancelled" -> 2
    [] state = "cancelledBeforeStarted" -> 3

\* The state a word stands for: the low bits, then the rest
StateOf(w) ==
  CASE w % 4 = 0 -> IF w - (w % 4) = 0 THEN "notStarted" ELSE "activeContinuation"
    [] w % 4 = 1 -> "finished"
    [] w % 4 = 2 -> "cancelled"
    [] w % 4 = 3 -> "cancelledBeforeStarted"

Sleeping == {"register", "fire", "load", "exchange", "create", "resume", "await",
             "remove", "check", "deallocate", "fatalError"}
SleeperPc == Sleeping \cup {"before", "returned", "threw"}
WakerPc == {"none", "delayed", "load", "exchange", "resume", "deallocate", "done",
            "fatalError"}
HandlerPc == {"none", "load", "exchange", "resume", "done"}

Init ==
  /\ word = [s \in Sleep |-> 0]
  /\ frees = [s \in Sleep |-> 0]
  /\ sleeper = [s \in Sleep |-> "before"]
  /\ waker = [s \in Sleep |-> "none"]
  /\ handler = [s \in Sleep |-> "none"]
  /\ seen = [s \in Sleep |-> [p \in {"sleeper", "waker", "handler"} |-> "notStarted"]]
  /\ registered = [s \in Sleep |-> FALSE]
  /\ result = [s \in Sleep |-> "none"]
  /\ resumes = [s \in Sleep |-> 0]
  /\ canceller = "none"

Load(s, party) == seen' = [seen EXCEPT ![s][party] = StateOf(word[s])]

\* The exchange succeeds when the word is still the one that stands for the state seen.
Exchanged(s, party) == word[s] = WordOf(seen[s][party])

Deallocates(s) == frees' = [frees EXCEPT ![s] = @ + 1]

\* continuation.resume(), with a value or with CancellationError
Resumes(s, with) ==
  /\ resumes' = [resumes EXCEPT ![s] = @ + 1]
  /\ result' = [result EXCEPT ![s] = with]

-----------------------------------------------------------------------------
(* The sleeping task *)

SleeperAt(s, pc) == sleeper[s] = pc
SleeperTo(s, pc) == sleeper' = [sleeper EXCEPT ![s] = pc]

\* The token is allocated and set to notStarted.
StartSleep(s) ==
  /\ SleeperAt(s, "before")
  /\ \A other \in Sleep : sleeper[other] \notin Sleeping
  /\ SleeperTo(s, "register")
  /\ word' = [word EXCEPT ![s] = WordOf("notStarted")]
  /\ UNCHANGED <<frees, waker, handler, seen, registered, result, resumes, canceller>>

\* withTaskCancellationHandler: the handler of a cancelled task runs at once, on the
\* task itself, and is not recorded.
AddHandler(s) ==
  /\ SleeperAt(s, "register")
  /\ IF canceller = "none"
     THEN /\ SleeperTo(s, "load")
          /\ registered' = [registered EXCEPT ![s] = TRUE]
          /\ UNCHANGED handler
     ELSE /\ SleeperTo(s, "fire")
          /\ handler' = [handler EXCEPT ![s] = "load"]
          /\ UNCHANGED registered
  /\ UNCHANGED <<word, frees, waker, seen, result, resumes, canceller>>

HandlerReturned(s) ==
  /\ SleeperAt(s, "fire")
  /\ handler[s] = "done"
  /\ SleeperTo(s, "load")
  /\ UNCHANGED <<word, frees, waker, handler, seen, registered, result, resumes, canceller>>

\* The body of withUnsafeThrowingContinuation
LoadToken(s) ==
  /\ SleeperAt(s, "load")
  /\ Load(s, "sleeper")
  /\ SleeperTo(s, CASE StateOf(word[s]) = "notStarted" -> "exchange"
                    [] StateOf(word[s]) = "cancelledBeforeStarted" -> "resume"
                    [] OTHER -> "fatalError")
  /\ UNCHANGED <<word, frees, waker, handler, registered, result, resumes, canceller>>

PublishContinuation(s) ==
  /\ SleeperAt(s, "exchange")
  /\ IF Exchanged(s, "sleeper")
     THEN /\ SleeperTo(s, "create")
          /\ word' = [word EXCEPT ![s] = WordOf("activeContinuation")]
     ELSE /\ SleeperTo(s, "load")
          /\ UNCHANGED word
  /\ UNCHANGED <<frees, waker, handler, seen, registered, result, resumes, canceller>>

\* Mutant: no wake-up job is made for a sleep that was cancelled.
EnqueueWaker_IfActive(s) ==
  /\ SleeperAt(s, "create")
  /\ SleeperTo(s, "await")
  /\ waker' = [waker EXCEPT ![s] = IF word[s] = Continuation THEN "delayed" ELSE "none"]
  /\ UNCHANGED <<word, frees, handler, seen, registered, result, resumes, canceller>>

\* The wake-up job is created and enqueued with the delay.  By now the handler may
\* have resumed the continuation already.
EnqueueWaker(s) ==
  /\ SleeperAt(s, "create")
  /\ SleeperTo(s, "await")
  /\ waker' = [waker EXCEPT ![s] = "delayed"]
  /\ UNCHANGED <<word, frees, handler, seen, registered, result, resumes, canceller>>

\* Mutant: the continuation of a sleep cancelled before its start is forgotten.
ResumeCancelled_NoResume(s) ==
  /\ SleeperAt(s, "resume")
  /\ SleeperTo(s, "await")
  /\ UNCHANGED <<word, frees, waker, handler, seen, registered, result, resumes, canceller>>

\* cancelledBeforeStarted: the continuation is finished normally, to throw later.
ResumeCancelled(s) ==
  /\ SleeperAt(s, "resume")
  /\ SleeperTo(s, "await")
  /\ Resumes(s, "value")
  /\ UNCHANGED <<word, frees, waker, handler, seen, registered, canceller>>

Awaits(s) ==
  /\ SleeperAt(s, "await")
  /\ result[s] # "none"
  /\ SleeperTo(s, "remove")
  /\ UNCHANGED <<word, frees, waker, handler, seen, registered, result, resumes, canceller>>

\* Mutant: the handler is removed under a walk.
RemoveHandler_NoLock(s) ==
  /\ SleeperAt(s, "remove")
  /\ registered' = [registered EXCEPT ![s] = FALSE]
  /\ SleeperTo(s, IF result[s] = "error" THEN "threw" ELSE "check")
  /\ UNCHANGED <<word, frees, waker, handler, seen, result, resumes, canceller>>

\* Leaving withTaskCancellationHandler takes the status lock of a canceller that walks
\* the records.  An error of the continuation is thrown on.
RemoveHandler(s) ==
  /\ SleeperAt(s, "remove")
  /\ registered[s] => canceller # "walk"
  /\ registered' = [registered EXCEPT ![s] = FALSE]
  /\ SleeperTo(s, IF result[s] = "error" THEN "threw" ELSE "check")
  /\ UNCHANGED <<word, frees, waker, handler, seen, result, resumes, canceller>>

CheckToken(s) ==
  /\ SleeperAt(s, "check")
  /\ Load(s, "sleeper")
  /\ SleeperTo(s, IF StateOf(word[s]) \in {"cancelledBeforeStarted", "finished"}
                  THEN "deallocate" ELSE "fatalError")
  /\ UNCHANGED <<word, frees, waker, handler, registered, result, resumes, canceller>>

EndSleep(s) ==
  /\ SleeperAt(s, "deallocate")
  /\ Deallocates(s)
  /\ SleeperTo(s, IF seen[s]["sleeper"] = "cancelledBeforeStarted" THEN "threw" ELSE "returned")
  /\ UNCHANGED <<word, waker, handler, seen, registered, result, resumes, canceller>>

-----------------------------------------------------------------------------
(* The wake-up job: onSleepWake() *)

WakerAt(s, pc) == waker[s] = pc
WakerTo(s, pc) == waker' = [waker EXCEPT ![s] = pc]

\* The delay is over.
WakerRuns(s) ==
  /\ WakerAt(s, "delayed")
  /\ WakerTo(s, "load")
  /\ UNCHANGED <<word, frees, sleeper, handler, seen, registered, result, resumes, canceller>>

WakerLoads(s) ==
  /\ WakerAt(s, "load")
  /\ Load(s, "waker")
  /\ WakerTo(s, CASE StateOf(word[s]) = "activeContinuation" -> "exchange"
                  [] StateOf(word[s]) = "cancelled" -> "deallocate"
                  [] StateOf(word[s]) = "cancelledBeforeStarted" -> "done"
                  [] OTHER -> "fatalError")
  /\ UNCHANGED <<word, frees, sleeper, handler, registered, result, resumes, canceller>>

\* Mutant: the word is stored, not exchanged.
WakerExchanges_Store(s) ==
  /\ WakerAt(s, "exchange")
  /\ WakerTo(s, "resume")
  /\ word' = [word EXCEPT ![s] = WordOf("finished")]
  /\ UNCHANGED <<frees, sleeper, handler, seen, registered, result, resumes, canceller>>

WakerExchanges(s) ==
  /\ WakerAt(s, "exchange")
  /\ IF Exchanged(s, "waker")
     THEN /\ WakerTo(s, "resume")
          /\ word' = [word EXCEPT ![s] = WordOf("finished")]
     ELSE /\ WakerTo(s, "load")
          /\ UNCHANGED word
  /\ UNCHANGED <<frees, sleeper, handler, seen, registered, result, resumes, canceller>>

WakerResumes(s) ==
  /\ WakerAt(s, "resume")
  /\ WakerTo(s, "done")
  /\ Resumes(s, "value")
  /\ UNCHANGED <<word, frees, sleeper, handler, seen, registered, canceller>>

WakerFrees(s) ==
  /\ WakerAt(s, "deallocate")
  /\ WakerTo(s, "done")
  /\ Deallocates(s)
  /\ UNCHANGED <<word, sleeper, handler, seen, registered, result, resumes, canceller>>

-----------------------------------------------------------------------------
(* The cancellation handler: onSleepCancel() *)

HandlerAt(s, pc) == handler[s] = pc
HandlerTo(s, pc) == handler' = [handler EXCEPT ![s] = pc]

HandlerLoads(s) ==
  /\ HandlerAt(s, "load")
  /\ Load(s, "handler")
  /\ HandlerTo(s, IF StateOf(word[s]) \in {"notStarted", "activeContinuation"}
                  THEN "exchange" ELSE "done")
  /\ UNCHANGED <<word, frees, sleeper, waker, registered, result, resumes, canceller>>

\* Mutant: the handler does not try again.
HandlerExchanges_GivesUp(s) ==
  /\ HandlerAt(s, "exchange")
  /\ IF Exchanged(s, "handler") /\ seen[s]["handler"] = "activeContinuation"
     THEN /\ word' = [word EXCEPT ![s] = WordOf("cancelled")]
          /\ HandlerTo(s, "resume")
     ELSE /\ word' = [word EXCEPT ![s] = IF Exchanged(s, "handler")
                                         THEN WordOf("cancelledBeforeStarted") ELSE @]
          /\ HandlerTo(s, "done")
  /\ UNCHANGED <<frees, sleeper, waker, seen, registered, result, resumes, canceller>>

\* Mutant: a sleep that has not started is marked as cancelled.
HandlerExchanges_Cancelled(s) ==
  /\ HandlerAt(s, "exchange")
  /\ IF Exchanged(s, "handler")
     THEN /\ word' = [word EXCEPT ![s] = WordOf("cancelled")]
          /\ HandlerTo(s, IF seen[s]["handler"] = "notStarted" THEN "done" ELSE "resume")
     ELSE /\ HandlerTo(s, "load")
          /\ UNCHANGED word
  /\ UNCHANGED <<frees, sleeper, waker, seen, registered, result, resumes, canceller>>

HandlerExchanges(s) ==
  /\ HandlerAt(s, "exchange")
  /\ \/ /\ Exchanged(s, "handler")
        /\ seen[s]["handler"] = "notStarted"
        /\ word' = [word EXCEPT ![s] = WordOf("cancelledBeforeStarted")]
        /\ HandlerTo(s, "done")
     \/ /\ Exchanged(s, "handler")
        /\ seen[s]["handler"] = "activeContinuation"
        /\ word' = [word EXCEPT ![s] = WordOf("cancelled")]
        /\ HandlerTo(s, "resume")
     \/ /\ ~Exchanged(s, "handler")
        /\ HandlerTo(s, "load")
        /\ UNCHANGED word
  /\ UNCHANGED <<frees, sleeper, waker, seen, registered, result, resumes, canceller>>

HandlerResumes(s) ==
  /\ HandlerAt(s, "resume")
  /\ HandlerTo(s, "done")
  /\ Resumes(s, "error")
  /\ UNCHANGED <<word, frees, sleeper, waker, seen, registered, canceller>>

-----------------------------------------------------------------------------
(* The canceller: language_task_cancel() *)

\* The cancelled bit is set; without records there is nothing more to do.
SetCancelled ==
  /\ canceller = "none"
  /\ canceller' = IF \E s \in Sleep : registered[s] THEN "lock" ELSE "done"
  /\ UNCHANGED <<word, frees, sleeper, waker, handler, seen, registered, result, resumes>>

\* With the status lock it runs the handlers it finds; a task that has left its scope
\* in the meantime has taken its handler along.
WalkRecords ==
  /\ canceller = "lock"
  /\ canceller' = "walk"
  /\ handler' = [s \in Sleep |-> IF registered[s] THEN "load" ELSE handler[s]]
  /\ UNCHANGED <<word, frees, sleeper, waker, seen, registered, result, resumes>>

EndWalk ==
  /\ canceller = "walk"
  /\ \A s \in Sleep : registered[s] => handler[s] = "done"
  /\ canceller' = "done"
  /\ UNCHANGED <<word, frees, sleeper, waker, handler, seen, registered, result, resumes>>

-----------------------------------------------------------------------------
SleeperStep(s) ==
  \/ AddHandler(s)
  \/ HandlerReturned(s)
  \/ LoadToken(s)
  \/ PublishContinuation(s)
  \/ EnqueueWaker(s)
  \/ ResumeCancelled(s)
  \/ Awaits(s)
  \/ RemoveHandler(s)
  \/ CheckToken(s)
  \/ EndSleep(s)

WakerStep(s) ==
  \/ WakerRuns(s)
  \/ WakerLoads(s)
  \/ WakerExchanges(s)
  \/ WakerResumes(s)
  \/ WakerFrees(s)

HandlerStep(s) ==
  \/ HandlerLoads(s)
  \/ HandlerExchanges(s)
  \/ HandlerResumes(s)

CancelStep == WalkRecords \/ EndWalk

Next ==
  \/ \E s \in Sleep : StartSleep(s) \/ SleeperStep(s) \/ WakerStep(s) \/ HandlerStep(s)
  \/ SetCancelled
  \/ CancelStep

Spec == Init /\ [][Next]_vars

\* Threads inside a call go on, and the executor runs the wake-up job once its delay is
\* over.  Nobody has to sleep or to cancel.
Fairness ==
  /\ \A s \in Sleep : WF_vars(SleeperStep(s)) /\ WF_vars(WakerStep(s)) /\ WF_vars(HandlerStep(s))
  /\ WF_vars(CancelStep)

FairSpec == Spec /\ Fairness

-----------------------------------------------------------------------------
(* Properties *)

\* Every variable keeps its type; the word always stands for one of the five states.
TypeOK ==
  /\ word \in [Sleep -> {WordOf(x) : x \in SleepState}]
  /\ frees \in [Sleep -> Nat]
  /\ sleeper \in [Sleep -> SleeperPc]
  /\ waker \in [Sleep -> WakerPc]
  /\ handler \in [Sleep -> HandlerPc]
  /\ seen \in [Sleep -> [{"sleeper", "waker", "handler"} -> SleepState]]
  /\ registered \in [Sleep -> BOOLEAN]
  /\ result \in [Sleep -> {"none", "value", "error"}]
  /\ resumes \in [Sleep -> Nat]
  /\ canceller \in {"none", "lock", "walk", "done"}

Ended(s) == sleeper[s] \in {"returned", "threw"}

\* Somebody still has to touch the token
Touches(s) ==
  \/ sleeper[s] \in {"register", "fire", "load", "exchange", "create", "check", "deallocate"}
  \/ sleeper[s] \in {"resume", "await", "remove"} /\ result[s] = "value"
  \/ waker[s] \in {"delayed", "load", "exchange", "deallocate"}
  \/ handler[s] \in {"load", "exchange"}

\* Nobody reads, exchanges or frees a token that is free: not the wake-up job of a
\* cancelled sleep, not a handler that is between its load and its exchange, not the
\* task that was resumed.
NoUseAfterFree == \A s \in Sleep : frees[s] > 0 => ~Touches(s)

\* The token is freed by exactly one of the task and the wake-up job: when both are
\* through, once.
FreedOnce ==
  \A s \in Sleep :
    /\ frees[s] <= 1
    /\ Ended(s) /\ waker[s] \in {"none", "done"} => frees[s] = 1

\* The continuation is resumed at most once, which UnsafeContinuation does not check.
ResumedOnce == \A s \in Sleep : resumes[s] <= 1

\* None of the states that sleep() and onSleepWake() call impossible is met.
NoFatalError ==
  \A s \in Sleep : sleeper[s] # "fatalError" /\ waker[s] # "fatalError"

\* sleep() returns normally only when its delay is over; otherwise it throws.
ReturnsAfterDelay ==
  \A s \in Sleep : sleeper[s] = "returned" => waker[s] = "done" /\ StateOf(word[s]) = "finished"

\* When cancel() has returned no sleep is left to wait for its delay: the task is not
\* before or between its exchange and the wake-up.
CancelEndsSleep ==
  canceller = "done" => \A s \in Sleep : StateOf(word[s]) # "activeContinuation"

\* Every sleep ends.
SleepEnds == \A s \in Sleep : sleeper[s] \in Sleeping ~> Ended(s)

\* Every token is given back, also by a wake-up job that outlives the sleep.
TokenReclaimed == \A s \in Sleep : sleeper[s] \in Sleeping ~> frees[s] = 1
=============================================================================
