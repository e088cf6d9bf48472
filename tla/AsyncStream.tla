---------------------------- MODULE AsyncStream -----------------------------
(***************************************************************************)
(* The storage of an AsyncStream or AsyncThrowingStream: producers yield   *)
(* values and finish the stream, tasks iterate over it, and the tasks, the *)
(* stream and the continuation go away in any order.                       *)
(*                                                                         *)
(* The storage is locked only while its fields change.  Termination        *)
(* handlers and continuations are called after unlocking, in the thread    *)
(* that changed the fields, and that is where other threads come between.  *)
(***************************************************************************)
EXTENDS Integers, Sequences, FiniteSets

CONSTANTS
  Producer,     \* threads that hold the continuation
  Consumer,     \* tasks that iterate
  Canceller,    \* a thread that cancels the iterating tasks
  Policy,       \* buffering policies, [oldest, newest or unbounded; limit]
  MaxYields,    \* bound: values that are yielded
  MaxNexts,     \* bound: calls of next()
  MaxHandlers   \* bound: termination handlers that are set

ASSUME StreamAssumption ==
  /\ MaxYields \in Nat /\ MaxNexts \in Nat /\ MaxHandlers \in Nat
  /\ Policy \subseteq [policy : {"unbounded", "oldest", "newest"}, count : Int]
  /\ IsFiniteSet(Consumer)
  /\ Canceller \notin Producer \cup Consumer
  /\ Producer \cap Consumer = {}

Thread == Producer \cup Consumer \cup {Canceller}
Value == 1..MaxYields       \* in the order in which they are yielded
Handler == 1..MaxHandlers   \* in the order in which they are set
NoHandler == 0

\* What a continuation is resumed with
Element(v) == [kind |-> "element", value |-> v]
End(terminal) == [kind |-> IF terminal = "failed" THEN "error" ELSE "nil", value |-> 0]
Nothing == [kind |-> "nothing", value |-> 0]

VARIABLES
  throwing,       \* the storage is that of an AsyncThrowingStream
  limit,          \* limit
  continuations,  \* continuations, or the one continuation of a throwing stream
  buffer,         \* pending
  onTermination,  \* onTermination
  terminal,       \* terminal: "no", "finished" or "failed"
  thread,         \* what a thread still has to do outside the lock
  consumer,       \* where an iterating task is
  result,         \* what a task's continuation has been resumed with
  received,       \* what its calls of next() returned
  cancelled,      \* tasks that have been cancelled
  cancelling,     \* the task whose cancellation handler the canceller has called
  yielded,        \* number of values yielded so far
  refused,        \* values that yield() reported as dropped or terminated
  handlers,       \* number of handlers set so far
  replaced,       \* handlers that were replaced by another
  calls,          \* how often a handler has been called
  continuationAlive,      \* a producer still holds the stream's Continuation
  streamAlive,    \* the stream or an iterator of it exists
  freed,          \* the storage has been deinitialised
  aborted         \* a fatal error ended the process

state == <<continuations, buffer, onTermination, terminal>>
tasks == <<consumer, result, received, cancelled, cancelling>>
history == <<yielded, refused, handlers, replaced, calls>>
lifetimes == <<continuationAlive, streamAlive, freed>>
vars == <<throwing, limit, state, thread, tasks, history, lifetimes, aborted>>

\* A thread takes these steps: call handler, go on with finish() if next says so, and resume.
Doing(at, handler, resumes) == [at |-> at, handler |-> handler, resumes |-> resumes]
Idle == Doing("idle", NoHandler, <<>>)
Resuming(resumes) == IF resumes = <<>> THEN Idle ELSE Doing("resume", NoHandler, resumes)
Wakes(c, outcome) == <<[task |-> c, outcome |-> outcome]>>

Init ==
  /\ throwing \in BOOLEAN
  /\ limit \in Policy
  /\ continuations = <<>> /\ buffer = <<>>
  /\ onTermination = NoHandler
  /\ terminal = "no"
  /\ thread = [t \in Thread |-> Idle]
  /\ consumer = [c \in Consumer |-> "idle"]
  /\ result = [c \in Consumer |-> Nothing]
  /\ received = [c \in Consumer |-> <<>>]
  /\ cancelled = {} /\ cancelling = {}
  /\ yielded = 0 /\ refused = {}
  /\ handlers = 0 /\ replaced = {}
  /\ calls = [h \in Handler |-> 0]
  /\ continuationAlive = TRUE /\ streamAlive = TRUE
  /\ freed = FALSE /\ aborted = FALSE

Count(S) == Cardinality(S)
\* Continuations that a thread has still to resume, and calls of next() that have returned
Resumes == {r \in Thread \X (1..Cardinality(Consumer)) : r[2] \in DOMAIN thread[r[1]].resumes}
Returns == {r \in Consumer \X (1..MaxNexts) : r[2] \in DOMAIN received[r[1]]}

-----------------------------------------------------------------------------
(* yield() *)

\* Mutant: a full buffer drops the oldest value and reports the newest.
Buffered_ReportsNewest(v) ==
  IF limit.policy = "unbounded" \/ Len(buffer) < limit.count
  THEN [buffer |-> Append(buffer, v), dropped |-> {}]
  ELSE IF limit.policy = "newest" /\ buffer # <<>>
  THEN [buffer |-> Append(Tail(buffer), v), dropped |-> {v}]
  ELSE [buffer |-> buffer, dropped |-> {v}]

\* Mutant: values are put in front.
Buffered_Prepends(v) ==
  IF limit.policy = "unbounded" \/ Len(buffer) < limit.count
  THEN [buffer |-> <<v>> \o buffer, dropped |-> {}]
  ELSE [buffer |-> buffer, dropped |-> {v}]

\* The switch over the buffering policy: the new buffer and the dropped values
Buffered(v) ==
  IF limit.policy = "unbounded" \/ Len(buffer) < limit.count
  THEN [buffer |-> Append(buffer, v), dropped |-> {}]
  ELSE IF limit.policy = "newest" /\ buffer # <<>>
  THEN [buffer |-> Append(Tail(buffer), v), dropped |-> {Head(buffer)}]
  ELSE [buffer |-> buffer, dropped |-> {v}]

\* Without a waiting task the value goes into the buffer of a stream that has not ended, with
\* one it is sent at once, behind what is in the buffer.
Yield(p) ==
  /\ continuationAlive /\ thread[p] = Idle
  /\ yielded < MaxYields
  /\ LET v == yielded + 1
         kept == IF terminal = "no" THEN Buffered(v) ELSE [buffer |-> buffer, dropped |-> {v}]
         waits == continuations # <<>>
         direct == waits /\ buffer = <<>>
         sent == IF ~direct THEN Element(Head(kept.buffer))
                 ELSE IF terminal = "no" THEN Element(v) ELSE End(terminal)
     IN  /\ yielded' = v
         /\ refused' = refused \cup IF direct /\ terminal = "no" THEN {} ELSE kept.dropped
         /\ buffer' = IF direct THEN buffer ELSE IF waits THEN Tail(kept.buffer) ELSE kept.buffer
         /\ terminal' = IF direct /\ terminal = "failed" THEN "finished" ELSE terminal
         /\ continuations' = IF waits THEN Tail(continuations) ELSE continuations
         /\ thread' = [thread EXCEPT ![p] =
                         IF waits THEN Resuming(Wakes(Head(continuations), sent)) ELSE Idle]
  /\ UNCHANGED <<throwing, limit, onTermination, tasks, handlers, replaced, calls, lifetimes,
                 aborted>>

-----------------------------------------------------------------------------
(* finish() and cancel() *)

\* Mutant: finish() leaves the continuations it resumes in the storage.
FinishLocked_KeepsContinuations(t, end) ==
  /\ terminal' = IF terminal = "no" THEN end ELSE terminal
  /\ onTermination' = NoHandler
  /\ thread' = [thread EXCEPT ![t] = Doing("handler", onTermination,
                  [i \in DOMAIN continuations |->
                     [task |-> continuations[i], outcome |-> End(end)]])]
  /\ UNCHANGED <<continuations, buffer>>

\* Everything that finish() does while it holds the lock.  A throwing stream keeps the first
\* end, and sends what is in the buffer before it.
FinishLocked(t, end) ==
  LET ended == IF terminal = "no" THEN end ELSE terminal
      sends == throwing /\ buffer # <<>> /\ continuations # <<>>
      outcome == IF sends THEN Element(Head(buffer)) ELSE End(ended)
      resumes == [i \in DOMAIN continuations |-> [task |-> continuations[i], outcome |-> outcome]]
  IN  /\ terminal' = ended
      /\ buffer' = IF sends THEN Tail(buffer) ELSE buffer
      /\ continuations' = <<>>
      /\ onTermination' = NoHandler
      /\ thread' = [thread EXCEPT ![t] =
                      IF onTermination = NoHandler THEN Resuming(resumes)
                      ELSE Doing("handler", onTermination, resumes)]

Finish(p, end) ==
  /\ continuationAlive /\ thread[p] = Idle
  /\ end = "failed" => throwing
  /\ FinishLocked(p, end)
  /\ UNCHANGED <<throwing, limit, tasks, history, lifetimes, aborted>>

\* Mutant: cancel() does not take the handler out.
CancelLocked_KeepsHandler(t) ==
  /\ thread[t].at = "cancel"
  /\ thread' = [thread EXCEPT ![t] = Doing("handler then finish", onTermination, <<>>)]
  /\ UNCHANGED <<throwing, limit, state, tasks, history, lifetimes, aborted>>

\* Mutant: without a handler, cancel() does not finish the stream.
CancelLocked_NeedsHandler(t) ==
  /\ thread[t].at = "cancel"
  /\ onTermination' = NoHandler
  /\ thread' = [thread EXCEPT ![t] = IF onTermination = NoHandler THEN Idle
                                     ELSE Doing("handler then finish", onTermination, <<>>)]
  /\ UNCHANGED <<throwing, limit, continuations, buffer, terminal, tasks, history, lifetimes,
                 aborted>>

\* cancel() takes the handler, calls it unlocked, and finishes.
CancelLocked(t) ==
  /\ thread[t].at = "cancel"
  /\ onTermination' = NoHandler
  /\ thread' = [thread EXCEPT ![t] = Doing("handler then finish", onTermination, <<>>)]
  /\ UNCHANGED <<throwing, limit, continuations, buffer, terminal, tasks, history, lifetimes,
                 aborted>>

\* handler?(...)
Called(h) == [g \in Handler |-> calls[g] + IF g = h THEN 1 ELSE 0]

CallHandler(t) ==
  /\ thread[t].at \in {"handler", "handler then finish"}
  /\ calls' = Called(thread[t].handler)
  /\ thread' = [thread EXCEPT ![t] = IF @.at = "handler" THEN Resuming(@.resumes)
                                     ELSE Doing("finish", NoHandler, <<>>)]
  /\ UNCHANGED <<throwing, limit, state, tasks, yielded, refused, handlers, replaced, lifetimes,
                 aborted>>

FinishAfterCancel(t) ==
  /\ thread[t].at = "finish"
  /\ FinishLocked(t, "finished")
  /\ UNCHANGED <<throwing, limit, tasks, history, lifetimes, aborted>>

\* continuation.resume(...)
Resume(t) ==
  /\ thread[t].at = "resume"
  /\ LET wake == Head(thread[t].resumes)
     IN  result' = [result EXCEPT ![wake.task] = wake.outcome]
  /\ thread' = [thread EXCEPT ![t] = Resuming(Tail(@.resumes))]
  /\ UNCHANGED <<throwing, limit, state, consumer, received, cancelled, cancelling,
                 history, lifetimes, aborted>>

-----------------------------------------------------------------------------
(* next() *)

\* withTaskCancellationHandler: the task that is cancelled already calls cancel() itself.
CallNext(c) ==
  /\ streamAlive
  /\ consumer[c] = "idle" /\ thread[c] = Idle
  /\ Count(Returns) + Count({d \in Consumer : consumer[d] # "idle"}) < MaxNexts
  /\ consumer' = [consumer EXCEPT ![c] = "entered"]
  /\ thread' = [thread EXCEPT ![c] = IF c \in cancelled THEN Doing("cancel", NoHandler, <<>>)
                                     ELSE Idle]
  /\ UNCHANGED <<throwing, limit, state, result, received, cancelled, cancelling, history,
                 lifetimes, aborted>>

\* Mutant: next() does not look at the end of the stream.
NextLocked_IgnoresEnd(c) ==
  /\ consumer[c] = "entered" /\ thread[c] = Idle
  /\ throwing => continuations = <<>>
  /\ LET queue == Append(continuations, c)
     IN  /\ continuations' = IF buffer # <<>> THEN Tail(queue) ELSE queue
         /\ buffer' = IF buffer # <<>> THEN Tail(buffer) ELSE buffer
         /\ thread' = [thread EXCEPT ![c] =
                         IF buffer = <<>> THEN Idle
                         ELSE Resuming(Wakes(Head(queue), Element(Head(buffer))))]
  /\ consumer' = [consumer EXCEPT ![c] = "waiting"]
  /\ UNCHANGED <<throwing, limit, onTermination, terminal, result, received, cancelled, cancelling,
                 history, lifetimes, aborted>>

\* next(continuation)
NextLocked(c) ==
  /\ consumer[c] = "entered" /\ thread[c] = Idle
  /\ throwing => continuations = <<>>
  /\ LET queue == Append(continuations, c)
         served == buffer # <<>> \/ terminal # "no"
         outcome == IF buffer # <<>> THEN Element(Head(buffer)) ELSE End(terminal)
     IN  /\ continuations' = IF served THEN Tail(queue) ELSE queue
         /\ buffer' = IF buffer # <<>> THEN Tail(buffer) ELSE buffer
         /\ terminal' = IF buffer = <<>> /\ terminal = "failed" THEN "finished" ELSE terminal
         /\ thread' = [thread EXCEPT ![c] =
                         IF served THEN Resuming(Wakes(Head(queue), outcome)) ELSE Idle]
  /\ consumer' = [consumer EXCEPT ![c] = "waiting"]
  /\ UNCHANGED <<throwing, limit, onTermination, result, received, cancelled, cancelling,
                 history, lifetimes, aborted>>

\* A throwing stream has room for one task: "attempt to await next() on more than one task"
NextAborts(c) ==
  /\ throwing /\ continuations # <<>>
  /\ consumer[c] = "entered" /\ thread[c] = Idle
  /\ aborted' = TRUE
  /\ UNCHANGED <<throwing, limit, state, thread, tasks, history, lifetimes>>

\* The task runs again and removes its handler, which waits for a thread that calls it.
NextReturns(c) ==
  /\ consumer[c] = "waiting" /\ thread[c] = Idle
  /\ result[c] # Nothing
  /\ c \in cancelling => thread[Canceller] = Idle
  /\ received' = [received EXCEPT ![c] = Append(@, result[c])]
  /\ result' = [result EXCEPT ![c] = Nothing]
  /\ consumer' = [consumer EXCEPT ![c] = "idle"]
  /\ cancelling' = cancelling \ {c}
  /\ UNCHANGED <<throwing, limit, state, thread, cancelled, history, lifetimes, aborted>>

\* language_task_cancel(): the handler is called if the task is in next().
CancelTask(c) ==
  /\ c \notin cancelled
  /\ thread[Canceller] = Idle
  /\ cancelled' = cancelled \cup {c}
  /\ cancelling' = IF consumer[c] = "idle" THEN {} ELSE {c}
  /\ thread' = [thread EXCEPT ![Canceller] =
                  IF consumer[c] = "idle" THEN Idle ELSE Doing("cancel", NoHandler, <<>>)]
  /\ UNCHANGED <<throwing, limit, state, consumer, result, received, history, lifetimes, aborted>>

-----------------------------------------------------------------------------
(* onTermination, and the end of the objects *)

\* A handler is set, or nil.
SetOnTermination(p) ==
  /\ continuationAlive /\ thread[p] = Idle
  /\ \/ /\ handlers < MaxHandlers
        /\ handlers' = handlers + 1
        /\ onTermination' = handlers + 1
     \/ /\ onTermination' = NoHandler
        /\ UNCHANGED handlers
  /\ replaced' = replaced \cup ({onTermination} \ {NoHandler})
  /\ UNCHANGED <<throwing, limit, continuations, buffer, terminal, thread, tasks, yielded, refused,
                 calls, lifetimes, aborted>>

\* The stream and its iterators are gone: _Context's deinit cancels.
DropStream(c) ==
  /\ streamAlive
  /\ \A d \in Consumer : consumer[d] = "idle"
  /\ thread[c] = Idle
  /\ streamAlive' = FALSE
  /\ thread' = [thread EXCEPT ![c] = Doing("cancel", NoHandler, <<>>)]
  /\ UNCHANGED <<throwing, limit, state, tasks, history, continuationAlive, freed, aborted>>

DropContinuation ==
  /\ continuationAlive
  /\ \A p \in Producer : thread[p] = Idle
  /\ continuationAlive' = FALSE
  /\ UNCHANGED <<throwing, limit, state, thread, tasks, history, streamAlive, freed, aborted>>

\* _Storage's deinit
Deinit ==
  /\ ~freed /\ ~streamAlive /\ ~continuationAlive
  /\ \A t \in Thread : thread[t] = Idle
  /\ freed' = TRUE
  /\ calls' = Called(onTermination)
  /\ UNCHANGED <<throwing, limit, state, thread, tasks, yielded, refused, handlers, replaced,
                 continuationAlive, streamAlive, aborted>>

-----------------------------------------------------------------------------

ThreadStep(t) == CancelLocked(t) \/ CallHandler(t) \/ FinishAfterCancel(t) \/ Resume(t)
NextStep(c) == NextLocked(c) \/ NextAborts(c) \/ NextReturns(c)

Next ==
  /\ ~aborted
  /\ \/ \E t \in Thread : ThreadStep(t)
     \/ \E c \in Consumer : CallNext(c) \/ NextStep(c) \/ CancelTask(c) \/ DropStream(c)
     \/ \E p \in Producer :
          \/ Yield(p)
          \/ \E end \in {"finished", "failed"} : Finish(p, end)
          \/ SetOnTermination(p)
     \/ DropContinuation \/ Deinit

Spec == Init /\ [][Next]_vars

-----------------------------------------------------------------------------
(* Properties *)

Outcomes == {Element(v) : v \in Value} \cup {End("finished"), End("failed")}
Wake == [task : Consumer, outcome : Outcomes]

\* Every variable keeps its type, and the buffer its limit.
TypeOK ==
  /\ throwing \in BOOLEAN
  /\ limit \in Policy
  /\ continuations \in Seq(Consumer)
  /\ buffer \in Seq(Value)
  /\ limit.policy # "unbounded" => buffer = <<>> \/ Len(buffer) <= limit.count
  /\ onTermination \in Handler \cup {NoHandler}
  /\ terminal \in {"no", "finished", "failed"}
  /\ \A t \in Thread :
       /\ thread[t].at \in {"idle", "cancel", "handler then finish", "finish", "handler", "resume"}
       /\ thread[t].handler \in Handler \cup {NoHandler}
       /\ thread[t].resumes \in Seq(Wake)
  /\ consumer \in [Consumer -> {"idle", "entered", "waiting"}]
  /\ result \in [Consumer -> Outcomes \cup {Nothing}]
  /\ \A c \in Consumer : received[c] \in Seq(Outcomes)
  /\ cancelled \in SUBSET Consumer /\ cancelling \in SUBSET cancelled
  /\ yielded \in 0..MaxYields
  /\ refused \in SUBSET Value
  /\ handlers \in 0..MaxHandlers
  /\ replaced \in SUBSET Handler
  /\ calls \in [Handler -> Nat]
  /\ continuationAlive \in BOOLEAN
  /\ streamAlive \in BOOLEAN /\ freed \in BOOLEAN /\ aborted \in BOOLEAN

\* A task is suspended only while there is nothing to give it: no value is in the buffer and
\* the stream has not ended.  (The branches of yield() for other cases are not reached.)
WaitersHaveNothing ==
  continuations # <<>> => buffer = <<>> /\ terminal = "no"

\* Every value that was yielded is in one place: in the buffer, on its way to a task, returned
\* by a call of next(), or reported to the producer as dropped or terminated.  None is lost
\* and none is delivered twice, whatever races with yield(), finish(), cancel() and next().
ValuesAccountedFor ==
  /\ TypeOK
  /\ \A v \in Value :
       Count({i \in DOMAIN buffer : buffer[i] = v})
         + Count({r \in Resumes : thread[r[1]].resumes[r[2]].outcome = Element(v)})
         + Count({c \in Consumer : result[c] = Element(v)})
         + Count({r \in Returns : received[r[1]][r[2]] = Element(v)})
         + Count({v} \cap refused)
       = IF v <= yielded THEN 1 ELSE 0

\* The continuation of every suspended task is in the storage or with one thread that will
\* resume it, or has been resumed; no other continuation is anywhere.  None is resumed twice.
ContinuationsAccountedFor ==
  \A c \in Consumer :
    Count({i \in DOMAIN continuations : continuations[i] = c})
      + Count({r \in Resumes : thread[r[1]].resumes[r[2]].task = c})
      + Count({d \in {c} : result[d] # Nothing})
    = IF consumer[c] = "waiting" THEN 1 ELSE 0

\* A task gets values in the order in which they were yielded, the buffer holds only later
\* ones, and after the end of the stream next() returns no more values.
DeliveredInOrder ==
  /\ \A i, j \in DOMAIN buffer : i < j => buffer[i] < buffer[j]
  /\ \A r \in Returns, i \in DOMAIN buffer : received[r[1]][r[2]].value < buffer[i]
  /\ \A c \in Consumer : \A i, j \in DOMAIN received[c] :
       i < j /\ received[c][j].kind = "element" =>
         received[c][i].kind = "element" /\ received[c][i].value < received[c][j].value

\* A termination handler is called once, by whoever ends the stream, unless it was replaced
\* before; when the storage is gone, none has been forgotten.
HandlersCalledOnce ==
  \A h \in Handler :
    /\ calls[h] <= IF h \in replaced THEN 0 ELSE 1
    /\ freed /\ h <= handlers /\ h \notin replaced => calls[h] = 1

\* AsyncIteratorProtocol: after next() has thrown an error, all future calls return nil.
ErrorThrownOnce ==
  \A c \in Consumer : \A i, j \in DOMAIN received[c] :
    i < j /\ received[c][i].kind = "error" => received[c][j].kind = "nil"

\* When a task in next() has been cancelled, the stream has ended or a thread is on its way to
\* end it: with WaitersHaveNothing, no cancelled task stays suspended.
CancelEndsStream ==
  (\E c \in Consumer : c \in cancelled /\ consumer[c] # "idle") =>
    \/ terminal # "no"
    \/ \E t \in Thread : thread[t].at \in {"cancel", "handler then finish", "finish"}
=============================================================================
