------------------------- MODULE AsyncStreamProofs --------------------------
(***************************************************************************)
(* The storage of a stream for any number of producers and consumers, any  *)
(* buffering policy and any number of values, calls and handlers: tasks    *)
(* wait only for what is not there, a cancellation ends the stream, a      *)
(* termination handler is called once, and no continuation and no value is *)
(* lost, given twice or out of order.                                      *)
(***************************************************************************)
EXTENDS AsyncStream, TLAPS, FiniteSetTheorems, SequenceTheorems

-----------------------------------------------------------------------------
(* Waiting tasks *)

\* The end of a stream is kept: finish() in any of its callers ends it with its argument or
\* leaves the end it had.
LEMMA FinishEnds ==
  ASSUME NEW t, NEW end \in {"finished", "failed"}, FinishLocked(t, end)
  PROVE  terminal' # "no" /\ continuations' = <<>>
BY DEF FinishLocked

\* next() takes the value or the end for itself when nobody waits before it.
LEMMA NextKeepsWaiters ==
  ASSUME NEW c, WaitersHaveNothing, NextLocked(c)
  PROVE  WaitersHaveNothing'
<1>1. CASE buffer # <<>> \/ terminal # "no"
  <2>1. continuations = <<>>
    BY <1>1 DEF WaitersHaveNothing
  <2>2. continuations' = Tail(Append(continuations, c))
    BY <1>1 DEF NextLocked
  <2>3. Tail(Append(<<>>, c)) = <<>>
    OBVIOUS
  <2>. QED  BY <2>1, <2>2, <2>3 DEF WaitersHaveNothing
<1>2. CASE buffer = <<>> /\ terminal = "no"
  BY <1>2 DEF NextLocked, WaitersHaveNothing
<1>. QED  BY <1>1, <1>2

\* yield() to a waiting task goes around the buffer.
LEMMA YieldKeepsWaiters ==
  ASSUME NEW p, WaitersHaveNothing, Yield(p)
  PROVE  WaitersHaveNothing'
<1>1. CASE continuations = <<>>
  BY <1>1 DEF Yield, WaitersHaveNothing
<1>2. CASE continuations # <<>>
  <2>1. buffer = <<>> /\ terminal = "no"
    BY <1>2 DEF WaitersHaveNothing
  <2>2. buffer' = buffer /\ terminal' = terminal
    BY <1>2, <2>1 DEF Yield
  <2>. QED  BY <2>1, <2>2 DEF WaitersHaveNothing
<1>. QED  BY <1>1, <1>2

\* A task is suspended only while the storage has no value and no end for it: the branches of
\* yield() that assume otherwise are dead, whatever races.
THEOREM StreamWaiters == Spec => []WaitersHaveNothing
<1>1. Init => WaitersHaveNothing
  BY DEF Init, WaitersHaveNothing
<1>2. WaitersHaveNothing /\ [Next]_vars => WaitersHaveNothing'
  <2>. SUFFICES ASSUME WaitersHaveNothing, [Next]_vars
                PROVE  WaitersHaveNothing'
    OBVIOUS
  <2>1. ASSUME UNCHANGED state
        PROVE  WaitersHaveNothing'
    BY <2>1 DEF WaitersHaveNothing, state
  <2>2. ASSUME UNCHANGED <<continuations, buffer, terminal>>
        PROVE  WaitersHaveNothing'
    BY <2>2 DEF WaitersHaveNothing
  <2>3. CASE UNCHANGED vars
    BY <2>1, <2>3 DEF vars
  <2>4. ASSUME NEW t \in Thread, ThreadStep(t)
        PROVE  WaitersHaveNothing'
    <3>1. CASE CancelLocked(t)
      BY <3>1, <2>2 DEF CancelLocked
    <3>2. CASE CallHandler(t)
      BY <3>2, <2>1 DEF CallHandler
    <3>3. CASE FinishAfterCancel(t)
      BY <3>3, FinishEnds DEF FinishAfterCancel, WaitersHaveNothing
    <3>4. CASE Resume(t)
      BY <3>4, <2>1 DEF Resume
    <3>. QED  BY <2>4, <3>1, <3>2, <3>3, <3>4 DEF ThreadStep
  <2>5. ASSUME NEW c \in Consumer,
               CallNext(c) \/ NextStep(c) \/ CancelTask(c) \/ DropStream(c)
        PROVE  WaitersHaveNothing'
    <3>1. CASE NextLocked(c)
      BY <3>1, NextKeepsWaiters
    <3>2. CASE CallNext(c) \/ NextAborts(c) \/ NextReturns(c) \/ CancelTask(c) \/ DropStream(c)
      BY <3>2, <2>1 DEF CallNext, NextAborts, NextReturns, CancelTask, DropStream
    <3>. QED  BY <2>5, <3>1, <3>2 DEF NextStep
  <2>6. ASSUME NEW p \in Producer, Yield(p)
        PROVE  WaitersHaveNothing'
    BY <2>6, YieldKeepsWaiters
  <2>7. ASSUME NEW p \in Producer, NEW end \in {"finished", "failed"}, Finish(p, end)
        PROVE  WaitersHaveNothing'
    BY <2>7, FinishEnds DEF Finish, WaitersHaveNothing
  <2>8. ASSUME NEW p \in Producer, SetOnTermination(p)
        PROVE  WaitersHaveNothing'
    BY <2>8, <2>2 DEF SetOnTermination
  <2>9. CASE DropContinuation \/ Deinit
    BY <2>9, <2>1 DEF DropContinuation, Deinit
  <2>. QED  BY <2>3, <2>4, <2>5, <2>6, <2>7, <2>8, <2>9 DEF Next
<1>. QED  BY <1>1, <1>2, PTL DEF Spec

-----------------------------------------------------------------------------
(* Cancellation *)

Domains == DOMAIN thread = Thread /\ DOMAIN consumer = Consumer

Ending(t) == thread[t].at \in {"cancel", "handler then finish", "finish"}

CancelInv == Domains /\ CancelEndsStream

\* A step that only gives a thread that is not ending the stream something else to do
LEMMA OtherThreadsEnd ==
  ASSUME CancelInv, NEW t \in Thread, NEW work,
         thread' = [thread EXCEPT ![t] = work],
         Ending(t) => work.at \in {"cancel", "handler then finish", "finish"},
         terminal # "no" => terminal' # "no",
         DOMAIN consumer' = Consumer,
         \A c \in Consumer : c \in cancelled' /\ consumer'[c] # "idle" =>
           \/ c \in cancelled /\ consumer[c] # "idle"
           \/ work.at = "cancel"
  PROVE  CancelInv'
<1>1. Domains'
  BY DEF CancelInv, Domains
<1>2. ASSUME NEW c \in Consumer, c \in cancelled', consumer'[c] # "idle"
      PROVE  \/ terminal' # "no"
             \/ \E u \in Thread : thread'[u].at \in {"cancel", "handler then finish", "finish"}
  <2>1. thread'[t] = work /\ \A u \in Thread : u # t => thread'[u] = thread[u]
    BY DEF CancelInv, Domains
  <2>2. CASE work.at = "cancel"
    BY <2>1, <2>2
  <2>3. CASE c \in cancelled /\ consumer[c] # "idle"
    <3>1. CASE terminal # "no"
      BY <3>1
    <3>2. CASE terminal = "no"
      <4>1. PICK u \in Thread : Ending(u)
        BY <2>3, <3>2 DEF CancelInv, CancelEndsStream, Ending
      <4>. QED  BY <4>1, <2>1 DEF Ending
    <3>. QED  BY <3>1, <3>2
  <2>. QED  BY <1>2, <2>2, <2>3
<1>3. CancelEndsStream'
  BY <1>2 DEF CancelEndsStream
<1>. QED  BY <1>1, <1>3 DEF CancelInv

\* A step of finish()
LEMMA FinishKeepsCancel ==
  ASSUME CancelInv, NEW t \in Thread, NEW end \in {"finished", "failed"}, FinishLocked(t, end),
         consumer' = consumer
  PROVE  CancelInv'
<1>1. Domains'
  BY DEF CancelInv, Domains, FinishLocked
<1>. QED  BY <1>1, FinishEnds DEF CancelInv, CancelEndsStream

\* When a task in next() has been cancelled, by another thread or before it called next(), the
\* stream has ended or some thread is between cancel() and the end of finish().
THEOREM StreamCancel == Spec => []CancelEndsStream
<1>1. Init => CancelInv
  BY DEF Init, CancelInv, Domains, CancelEndsStream
<1>2. CancelInv /\ [Next]_vars => CancelInv'
  <2>. SUFFICES ASSUME CancelInv, [Next]_vars
                PROVE  CancelInv'
    OBVIOUS
  <2>. USE DEF Doing, Idle, Resuming
  <2>d. Domains
    BY DEF CancelInv
  <2>c. Producer \subseteq Thread /\ Consumer \subseteq Thread /\ Canceller \in Thread
    BY DEF Thread
  <2>1. ASSUME UNCHANGED <<thread, consumer, cancelled, terminal>>
        PROVE  CancelInv'
    BY <2>1 DEF CancelInv, Domains, CancelEndsStream
  <2>2. CASE UNCHANGED vars
    BY <2>1, <2>2 DEF vars, state, tasks
  <2>3. ASSUME NEW t \in Thread, ThreadStep(t)
        PROVE  CancelInv'
    <3>1. CASE CancelLocked(t)
      <4>1. thread' = [thread EXCEPT ![t] = Doing("handler then finish", onTermination, <<>>)]
        BY <3>1 DEF CancelLocked
      <4>. QED  BY <3>1, <4>1, <2>d, OtherThreadsEnd DEF CancelLocked, tasks, Domains
    <3>2. CASE CallHandler(t)
      <4>. DEFINE work == IF thread[t].at = "handler" THEN Resuming(thread[t].resumes)
                          ELSE Doing("finish", NoHandler, <<>>)
      <4>1. thread' = [thread EXCEPT ![t] = work]
        BY <3>2 DEF CallHandler
      <4>2. Ending(t) => work.at \in {"cancel", "handler then finish", "finish"}
        BY DEF Ending
      <4>3. terminal' = terminal /\ consumer' = consumer /\ cancelled' = cancelled
        BY <3>2 DEF CallHandler, state, tasks
      <4>. HIDE DEF work
      <4>. QED  BY <4>1, <4>2, <4>3, <2>d, OtherThreadsEnd DEF Domains
    <3>3. CASE FinishAfterCancel(t)
      BY <3>3, FinishKeepsCancel DEF FinishAfterCancel, tasks
    <3>4. CASE Resume(t)
      <4>. DEFINE work == Resuming(Tail(thread[t].resumes))
      <4>1. thread' = [thread EXCEPT ![t] = work]
        BY <3>4 DEF Resume
      <4>2. ~ Ending(t)
        BY <3>4 DEF Ending, Resume
      <4>3. terminal' = terminal /\ consumer' = consumer /\ cancelled' = cancelled
        BY <3>4 DEF Resume, state
      <4>. HIDE DEF work
      <4>. QED  BY <4>1, <4>2, <4>3, <2>d, OtherThreadsEnd DEF Domains
    <3>. QED  BY <2>3, <3>1, <3>2, <3>3, <3>4 DEF ThreadStep
  <2>4. ASSUME NEW c \in Consumer, CallNext(c)
        PROVE  CancelInv'
    <3>. DEFINE work == IF c \in cancelled THEN Doing("cancel", NoHandler, <<>>) ELSE Idle
    <3>1. thread' = [thread EXCEPT ![c] = work] /\ ~ Ending(c)
      BY <2>4 DEF CallNext, Ending
    <3>2. terminal' = terminal /\ cancelled' = cancelled
      BY <2>4 DEF CallNext, state
    <3>3. /\ DOMAIN consumer' = Consumer
          /\ \A d \in Consumer : d # c => consumer'[d] = consumer[d]
      BY <2>4, <2>d DEF CallNext, Domains
    <3>4. c \in cancelled => work.at = "cancel"
      OBVIOUS
    <3>. HIDE DEF work
    <3>. QED  BY <3>1, <3>2, <3>3, <3>4, <2>c, OtherThreadsEnd
  <2>5. ASSUME NEW c \in Consumer, NextLocked(c)
        PROVE  CancelInv'
    <3>1. PICK work : thread' = [thread EXCEPT ![c] = work]
      BY <2>5 DEF NextLocked
    <3>2. ~ Ending(c) /\ consumer[c] = "entered"
      BY <2>5 DEF NextLocked, Ending
    <3>3. (terminal # "no" => terminal' # "no") /\ cancelled' = cancelled
      BY <2>5 DEF NextLocked
    <3>4. consumer' = [consumer EXCEPT ![c] = "waiting"]
      BY <2>5 DEF NextLocked
    <3>5. /\ DOMAIN consumer' = Consumer
          /\ \A d \in Consumer : d # c => consumer'[d] = consumer[d]
      BY <3>4, <2>d DEF Domains
    <3>. QED  BY <3>1, <3>2, <3>3, <3>5, <2>c, OtherThreadsEnd
  <2>6. ASSUME NEW c \in Consumer, NextAborts(c)
        PROVE  CancelInv'
    BY <2>6, <2>1 DEF NextAborts, tasks, state
  <2>7. ASSUME NEW c \in Consumer, NextReturns(c)
        PROVE  CancelInv'
    <3>1. UNCHANGED <<thread, cancelled, terminal>> /\ consumer' = [consumer EXCEPT ![c] = "idle"]
      BY <2>7 DEF NextReturns, state
    <3>. QED  BY <3>1 DEF CancelInv, Domains, CancelEndsStream
  <2>8. ASSUME NEW c \in Consumer, CancelTask(c)
        PROVE  CancelInv'
    <3>. DEFINE work == IF consumer[c] = "idle" THEN Idle ELSE Doing("cancel", NoHandler, <<>>)
    <3>1. thread' = [thread EXCEPT ![Canceller] = work] /\ ~ Ending(Canceller)
      BY <2>8 DEF CancelTask, Ending
    <3>2. terminal' = terminal /\ consumer' = consumer /\ cancelled' = cancelled \cup {c}
      BY <2>8 DEF CancelTask, state
    <3>3. consumer[c] # "idle" => work.at = "cancel"
      OBVIOUS
    <3>. HIDE DEF work
    <3>. QED  BY <3>1, <3>2, <3>3, <2>c, <2>d, OtherThreadsEnd DEF Domains
  <2>9. ASSUME NEW c \in Consumer, DropStream(c)
        PROVE  CancelInv'
    <3>. DEFINE work == Doing("cancel", NoHandler, <<>>)
    <3>1. thread' = [thread EXCEPT ![c] = work] /\ ~ Ending(c)
      BY <2>9 DEF DropStream, Ending
    <3>2. terminal' = terminal /\ consumer' = consumer /\ cancelled' = cancelled
      BY <2>9 DEF DropStream, state, tasks
    <3>. HIDE DEF work
    <3>. QED  BY <3>1, <3>2, <2>c, <2>d, OtherThreadsEnd DEF Domains
  <2>10. ASSUME NEW p \in Producer, Yield(p)
         PROVE  CancelInv'
    <3>1. PICK work : thread' = [thread EXCEPT ![p] = work]
      BY <2>10 DEF Yield
    <3>2. ~ Ending(p)
      BY <2>10 DEF Yield, Ending
    <3>3. (terminal # "no" => terminal' # "no") /\ consumer' = consumer /\ cancelled' = cancelled
      BY <2>10 DEF Yield, tasks
    <3>. QED  BY <3>1, <3>2, <3>3, <2>c, <2>d, OtherThreadsEnd DEF Domains
  <2>11. ASSUME NEW p \in Producer, NEW end \in {"finished", "failed"}, Finish(p, end)
         PROVE  CancelInv'
    BY <2>11, <2>c, FinishKeepsCancel DEF Finish, tasks
  <2>12. ASSUME NEW p \in Producer, SetOnTermination(p)
         PROVE  CancelInv'
    BY <2>12, <2>1 DEF SetOnTermination, tasks
  <2>13. CASE DropContinuation \/ Deinit
    BY <2>13, <2>1 DEF DropContinuation, Deinit, state, tasks
  <2>. QED
    BY <2>2, <2>3, <2>4, <2>5, <2>6, <2>7, <2>8, <2>9, <2>10, <2>11, <2>12, <2>13
    DEF Next, NextStep
<1>3. CancelInv => CancelEndsStream
  BY DEF CancelInv
<1>. QED  BY <1>1, <1>2, <1>3, PTL DEF Spec

-----------------------------------------------------------------------------
(* Termination handlers *)

\* Where a handler is: set but not yet run, with the thread that took it, or called
Pending(h) == onTermination = h /\ ~freed
Taken(h) == \E t \in Thread : thread[t].handler = h

HandlersSet == 1..handlers

HandlerTypes ==
  /\ Domains
  /\ handlers \in 0..MaxHandlers
  /\ onTermination \in HandlersSet \cup {NoHandler}
  /\ \A t \in Thread : thread[t].handler \in HandlersSet \cup {NoHandler}
  /\ replaced \subseteq HandlersSet
  /\ calls \in [Handler -> Nat]

\* Only a thread that is about to call a handler holds one, and no two hold the same.
HeldForCall ==
  /\ \A t \in Thread :
       thread[t].handler # NoHandler => thread[t].at \in {"handler", "handler then finish"}
  /\ \A t, u \in Thread :
       thread[t].handler = thread[u].handler /\ thread[t].handler # NoHandler => t = u

HandlerPlace ==
  \A h \in Handler :
    /\ calls[h] = IF h \notin HandlersSet \/ h \in replaced \/ Pending(h)
       \/ Taken(h) THEN 0 ELSE 1
    /\ h \in replaced => onTermination # h /\ ~ Taken(h)
    /\ onTermination = h => ~ Taken(h)

\* Nothing happens to the storage after its deinit.
NoneAfterDeinit ==
  /\ ~streamAlive => \A c \in Consumer : consumer[c] = "idle"
  /\ freed => ~streamAlive /\ ~continuationAlive /\ \A t \in Thread : thread[t] = Idle

HandlerInv == HandlerTypes /\ HeldForCall /\ HandlerPlace /\ NoneAfterDeinit

LEMMA NoHandlerIsNone ==
  NoHandler \notin Handler
BY StreamAssumption DEF NoHandler, Handler

LEMMA SetAreHandlers ==
  ASSUME HandlerTypes
  PROVE  HandlersSet \subseteq Handler
BY StreamAssumption DEF HandlerTypes, HandlersSet, Handler

\* A step that gives a thread without a handler something else to do, without a handler
LEMMA WorkWithoutHandler ==
  ASSUME HandlerInv, NEW t \in Thread, NEW work,
         thread' = [thread EXCEPT ![t] = work],
         thread[t].handler = NoHandler, work.handler = NoHandler,
         UNCHANGED <<onTermination, handlers, replaced, calls, freed>>,
         DOMAIN consumer' = Consumer
  PROVE  HandlerTypes' /\ HeldForCall' /\ HandlerPlace'
<1>m. HandlersSet' = HandlersSet
  BY DEF HandlersSet
<1>1. DOMAIN thread' = Thread /\ \A u \in Thread : thread'[u].handler = thread[u].handler
  BY DEF HandlerInv, HandlerTypes, Domains
<1>2. HandlerTypes'
  BY <1>1, <1>m DEF HandlerInv, HandlerTypes, Domains
<1>3. HeldForCall'
  <2>1. \A u \in Thread : u # t => thread'[u] = thread[u]
    BY DEF HandlerInv, HandlerTypes, Domains
  <2>. QED  BY <1>1, <2>1 DEF HandlerInv, HeldForCall
<1>4. \A h : Taken(h)' <=> Taken(h)
  BY <1>1 DEF Taken
<1>5. \A h : Pending(h)' <=> Pending(h)
  BY DEF Pending
<1>6. HandlerPlace'
  BY <1>4, <1>5, <1>m DEF HandlerInv, HandlerPlace
<1>. QED  BY <1>2, <1>3, <1>6

\* A thread without a handler takes the one of the storage, if there is one.
LEMMA TakeHandler ==
  ASSUME HandlerInv, NEW t \in Thread, NEW work,
         thread' = [thread EXCEPT ![t] = work],
         thread[t].handler = NoHandler, work.handler = onTermination,
         onTermination # NoHandler => work.at \in {"handler", "handler then finish"},
         onTermination' = NoHandler, ~freed,
         UNCHANGED <<handlers, replaced, calls, freed>>,
         DOMAIN consumer' = Consumer
  PROVE  HandlerTypes' /\ HeldForCall' /\ HandlerPlace'
<1>m. HandlersSet' = HandlersSet
  BY DEF HandlersSet
<1>n. onTermination # NoHandler => onTermination \in Handler
  BY SetAreHandlers DEF HandlerInv, HandlerTypes
<1>1. /\ DOMAIN thread' = Thread /\ thread'[t] = work
      /\ \A u \in Thread : u # t => thread'[u] = thread[u]
  BY DEF HandlerInv, HandlerTypes, Domains
<1>2. HandlerTypes'
  BY <1>1, <1>m DEF HandlerInv, HandlerTypes, Domains
<1>3. HeldForCall'
  <2>1. ASSUME NEW u \in Thread, onTermination # NoHandler
        PROVE  thread[u].handler # onTermination
    <3>1. onTermination \in Handler
      BY <2>1, <1>n
    <3>2. ~ Taken(onTermination)
      BY <3>1 DEF HandlerInv, HandlerPlace
    <3>. QED  BY <3>2 DEF Taken
  <2>2. \A u \in Thread :
          thread'[u].handler # NoHandler => thread'[u].at \in {"handler", "handler then finish"}
    BY <1>1 DEF HandlerInv, HeldForCall
  <2>3. ASSUME NEW u \in Thread, NEW w \in Thread,
               thread'[u].handler = thread'[w].handler, thread'[u].handler # NoHandler
        PROVE  u = w
    <3>1. CASE u = t \/ w = t
      BY <3>1, <1>1, <2>1, <2>3
    <3>2. CASE u # t /\ w # t
      BY <3>2, <1>1, <2>3 DEF HandlerInv, HeldForCall
    <3>. QED  BY <3>1, <3>2
  <2>. QED  BY <2>2, <2>3 DEF HeldForCall
<1>4. ASSUME NEW h \in Handler
      PROVE  /\ Taken(h)' <=> Taken(h) \/ Pending(h)
             /\ ~ Pending(h)'
  <2>1. h # NoHandler
    BY NoHandlerIsNone
  <2>2. ASSUME NEW u \in Thread, thread[u].handler = h
        PROVE  thread'[u].handler = h
    BY <2>1, <2>2, <1>1
  <2>3. onTermination = h => thread'[t].handler = h
    BY <1>1
  <2>4. ASSUME NEW u \in Thread, thread'[u].handler = h
        PROVE  thread[u].handler = h \/ onTermination = h
    BY <2>4, <1>1
  <2>. QED  BY <2>1, <2>2, <2>3, <2>4 DEF Taken, Pending
<1>5. HandlerPlace'
  <2>. SUFFICES ASSUME NEW h \in Handler
                PROVE  /\ calls'[h] = IF h \notin HandlersSet' \/ h \in replaced'
                          \/ Pending(h)' \/ Taken(h)'
                                      THEN 0 ELSE 1
                       /\ h \in replaced' => onTermination' # h /\ ~ Taken(h)'
                       /\ onTermination' = h => ~ Taken(h)'
    BY DEF HandlerPlace
  <2>. QED  BY <1>4, <1>m DEF HandlerInv, HandlerPlace, Pending
<1>. QED  BY <1>2, <1>3, <1>5

\* finish() takes the handler.
LEMMA FinishTakesHandler ==
  ASSUME HandlerInv, NEW t \in Thread, NEW end, FinishLocked(t, end),
         thread[t].handler = NoHandler, ~freed,
         UNCHANGED <<handlers, replaced, calls, freed, consumer>>
  PROVE  HandlerTypes' /\ HeldForCall' /\ HandlerPlace'
<1>. DEFINE work(resumes) == IF onTermination = NoHandler THEN Resuming(resumes)
                             ELSE Doing("handler", onTermination, resumes)
<1>1. PICK resumes : thread' = [thread EXCEPT ![t] = work(resumes)]
  BY DEF FinishLocked
<1>2. /\ work(resumes).handler = onTermination
      /\ onTermination # NoHandler => work(resumes).at = "handler"
  BY DEF Resuming, Idle, Doing
<1>3. onTermination' = NoHandler
  BY DEF FinishLocked
<1>4. DOMAIN consumer' = Consumer
  BY DEF HandlerInv, HandlerTypes, Domains
<1>. HIDE DEF work
<1>. QED  BY <1>1, <1>2, <1>3, <1>4, TakeHandler

\* handler?(...), in a thread that took the handler
LEMMA CallKeepsHandlers ==
  ASSUME HandlerInv, NEW t \in Thread, CallHandler(t)
  PROVE  HandlerTypes' /\ HeldForCall' /\ HandlerPlace'
<1>. DEFINE work == IF thread[t].at = "handler" THEN Resuming(thread[t].resumes)
                    ELSE Doing("finish", NoHandler, <<>>)
<1>m. HandlersSet' = HandlersSet
  BY DEF HandlersSet, CallHandler
<1>1. /\ thread' = [thread EXCEPT ![t] = work]
      /\ calls' = Called(thread[t].handler)
      /\ UNCHANGED <<onTermination, handlers, replaced, freed, consumer>>
  BY DEF CallHandler, state, tasks, lifetimes
<1>2. work.handler = NoHandler
  BY DEF Resuming, Idle, Doing
<1>. HIDE DEF work
<1>3. /\ DOMAIN thread' = Thread /\ thread'[t].handler = NoHandler
      /\ \A u \in Thread : u # t => thread'[u] = thread[u]
  BY <1>1, <1>2 DEF HandlerInv, HandlerTypes, Domains
<1>4. calls' \in [Handler -> Nat]
  BY <1>1 DEF HandlerInv, HandlerTypes, Called
<1>5. \A h \in Handler : calls'[h] = calls[h] + IF h = thread[t].handler THEN 1 ELSE 0
  BY <1>1 DEF Called
<1>6. HandlerTypes'
  BY <1>1, <1>3, <1>4, <1>m DEF HandlerInv, HandlerTypes, Domains
<1>7. HeldForCall'
  <2>1. HeldForCall
    BY DEF HandlerInv
  <2>2. \A u \in Thread : thread'[u].handler = NoHandler \/ thread'[u] = thread[u]
    BY <1>3
  <2>3. \A u, v \in Thread :
          thread'[u].handler = thread'[v].handler /\ thread'[u].handler # NoHandler => u = v
    BY <2>1, <2>2 DEF HeldForCall
  <2>4. \A u \in Thread : thread'[u].handler # NoHandler =>
          thread'[u].at \in {"handler", "handler then finish"}
    BY <2>1, <2>2 DEF HeldForCall
  <2>. QED  BY <2>3, <2>4 DEF HeldForCall
<1>8. ASSUME NEW h \in Handler
      PROVE  /\ Taken(h)' <=> Taken(h) /\ thread[t].handler # h
             /\ Pending(h)' <=> Pending(h)
  <2>1. h # NoHandler
    BY NoHandlerIsNone
  <2>2. ASSUME NEW u \in Thread, thread'[u].handler = h
        PROVE  thread[u].handler = h /\ thread[t].handler # h
    BY <2>1, <2>2, <1>3 DEF HandlerInv, HeldForCall
  <2>3. ASSUME NEW u \in Thread, thread[u].handler = h, thread[t].handler # h
        PROVE  thread'[u].handler = h
    BY <2>3, <1>3
  <2>. QED  BY <2>2, <2>3, <1>1 DEF Taken, Pending
<1>9. HandlerPlace'
  <2>. SUFFICES ASSUME NEW h \in Handler
                PROVE  /\ calls'[h] = IF h \notin HandlersSet' \/ h \in replaced' \/ Pending(h)'
                                         \/ Taken(h)'
                                      THEN 0 ELSE 1
                       /\ h \in replaced' => onTermination' # h /\ ~ Taken(h)'
                       /\ onTermination' = h => ~ Taken(h)'
    BY DEF HandlerPlace
  <2>1. CASE thread[t].handler = h
    <3>1. Taken(h) /\ ~ Taken(h)'
      BY <2>1, <1>8 DEF Taken
    <3>2. calls[h] = 0 /\ h \notin replaced /\ onTermination # h
      BY <3>1 DEF HandlerInv, HandlerPlace
    <3>3. calls'[h] = 1
      BY <2>1, <3>2, <1>5
    <3>4. h \in HandlersSet
      BY <2>1, NoHandlerIsNone DEF HandlerInv, HandlerTypes
    <3>. QED  BY <3>1, <3>2, <3>3, <3>4, <1>1, <1>m DEF Pending
  <2>2. CASE thread[t].handler # h
    <3>1. calls'[h] = calls[h]
      BY <2>2, <1>5 DEF HandlerInv, HandlerTypes
    <3>. QED  BY <2>2, <3>1, <1>1, <1>8, <1>m DEF HandlerInv, HandlerPlace
  <2>. QED  BY <2>1, <2>2
<1>. QED  BY <1>6, <1>7, <1>9

\* The setter of onTermination: a new handler or none is in the storage, the one before it is
\* replaced.
LEMMA SetKeepsHandlers ==
  ASSUME HandlerInv, NEW p \in Producer, SetOnTermination(p)
  PROVE  HandlerTypes' /\ HeldForCall' /\ HandlerPlace'
<1>1. /\ UNCHANGED <<thread, consumer, calls, freed>>
      /\ \/ handlers' = handlers + 1 /\ onTermination' = handlers + 1 /\ handlers < MaxHandlers
         \/ handlers' = handlers /\ onTermination' = NoHandler
      /\ replaced' = replaced \cup ({onTermination} \ {NoHandler})
  BY DEF SetOnTermination, tasks, lifetimes
<1>2. handlers \in Nat /\ handlers' \in 0..MaxHandlers
  BY <1>1, StreamAssumption DEF HandlerInv, HandlerTypes
<1>3. /\ HandlersSet' = HandlersSet \cup ({onTermination'} \ {NoHandler})
      /\ onTermination' \notin HandlersSet
  BY <1>1, <1>2 DEF HandlersSet, NoHandler
<1>4. ~freed
  BY DEF SetOnTermination, HandlerInv, NoneAfterDeinit
<1>5. HandlerTypes'
  BY <1>1, <1>2, <1>3 DEF HandlerInv, HandlerTypes, Domains
<1>6. HeldForCall'
  BY <1>1 DEF HandlerInv, HeldForCall
<1>7. \A h : Taken(h)' <=> Taken(h)
  BY <1>1 DEF Taken
<1>8. onTermination' # NoHandler => ~ Taken(onTermination')
  BY <1>3 DEF HandlerInv, HandlerTypes, Taken
<1>9. HandlerPlace'
  <2>. SUFFICES ASSUME NEW h \in Handler
                PROVE  /\ calls'[h] = IF h \notin HandlersSet' \/ h \in replaced' \/ Pending(h)'
                                         \/ Taken(h)'
                                      THEN 0 ELSE 1
                       /\ h \in replaced' => onTermination' # h /\ ~ Taken(h)'
                       /\ onTermination' = h => ~ Taken(h)'
    BY DEF HandlerPlace
  <2>1. h # NoHandler
    BY NoHandlerIsNone
  <2>2. onTermination' = h => h \notin replaced /\ h # onTermination
    BY <1>3, <2>1 DEF HandlerInv, HandlerTypes
  <2>3. calls'[h] = calls[h] /\ (Pending(h)' <=> onTermination' = h)
        /\ (Pending(h) <=> onTermination = h)
    BY <1>1, <1>4 DEF Pending
  <2>4. h \in replaced' <=> h \in replaced \/ h = onTermination
    BY <1>1, <2>1
  <2>5. h \in HandlersSet' <=> h \in HandlersSet \/ h = onTermination'
    BY <1>3, <2>1
  <2>6. onTermination = h => h \in HandlersSet
    BY <2>1 DEF HandlerInv, HandlerTypes
  <2>. QED
    BY <1>3, <1>7, <1>8, <2>1, <2>2, <2>3, <2>4, <2>5, <2>6
    DEF HandlerInv, HandlerPlace
<1>. QED  BY <1>5, <1>6, <1>9

\* deinit calls the handler that is still in the storage.
LEMMA DeinitKeepsHandlers ==
  ASSUME HandlerInv, Deinit
  PROVE  HandlerInv'
<1>1. /\ UNCHANGED <<thread, consumer, onTermination, handlers, replaced>>
      /\ UNCHANGED <<continuationAlive, streamAlive>>
      /\ ~freed /\ freed' /\ calls' = Called(onTermination)
      /\ ~streamAlive /\ ~continuationAlive /\ \A t \in Thread : thread[t] = Idle
  BY DEF Deinit, state, tasks
<1>m. HandlersSet' = HandlersSet
  BY <1>1 DEF HandlersSet
<1>2. calls' \in [Handler -> Nat]
  BY <1>1 DEF HandlerInv, HandlerTypes, Called
<1>3. \A h \in Handler : calls'[h] = calls[h] + IF h = onTermination THEN 1 ELSE 0
  BY <1>1 DEF Called
<1>4. HandlerTypes'
  BY <1>1, <1>2, <1>m DEF HandlerInv, HandlerTypes, Domains
<1>5. HeldForCall'
  BY <1>1 DEF HandlerInv, HeldForCall
<1>6. \A h \in Handler : ~ Taken(h)
  BY <1>1, NoHandlerIsNone DEF Taken, Idle, Doing
<1>7. \A h \in Handler : ~ Taken(h)' /\ ~ Pending(h)' /\ (Pending(h) <=> onTermination = h)
  BY <1>1, <1>6 DEF Taken, Pending
<1>8. HandlerPlace'
  <2>. SUFFICES ASSUME NEW h \in Handler
                PROVE  /\ calls'[h] = IF h \notin HandlersSet' \/ h \in replaced' \/ Pending(h)'
                                         \/ Taken(h)'
                                      THEN 0 ELSE 1
                       /\ h \in replaced' => onTermination' # h /\ ~ Taken(h)'
                       /\ onTermination' = h => ~ Taken(h)'
    BY DEF HandlerPlace
  <2>1. CASE onTermination = h
    <3>1. calls[h] = 0 /\ h \notin replaced
      BY <2>1, <1>7 DEF HandlerInv, HandlerPlace
    <3>2. calls'[h] = 1
      BY <2>1, <3>1, <1>3
    <3>3. h \in HandlersSet
      BY <2>1, NoHandlerIsNone DEF HandlerInv, HandlerTypes
    <3>. QED  BY <3>1, <3>2, <3>3, <1>1, <1>7, <1>m
  <2>2. CASE onTermination # h
    <3>1. calls'[h] = calls[h]
      BY <2>2, <1>3 DEF HandlerInv, HandlerTypes
    <3>. QED  BY <2>2, <3>1, <1>1, <1>6, <1>7, <1>m DEF HandlerInv, HandlerPlace
  <2>. QED  BY <2>1, <2>2
<1>9. NoneAfterDeinit'
  BY <1>1 DEF HandlerInv, NoneAfterDeinit
<1>. QED  BY <1>4, <1>5, <1>8, <1>9 DEF HandlerInv

\* The places of the handlers are kept by every step.
LEMMA HandlerInvHolds == Spec => []HandlerInv
<1>1. Init => HandlerInv
  <2>. SUFFICES ASSUME Init
                PROVE  HandlerInv
    OBVIOUS
  <2>1. handlers = 0 /\ onTermination = NoHandler /\ replaced = {} /\ ~freed /\ streamAlive
    BY DEF Init
  <2>2. HandlersSet = {}
    BY <2>1 DEF HandlersSet
  <2>3. Domains /\ calls = [h \in Handler |-> 0]
    BY DEF Init, Domains
  <2>4. \A t \in Thread : thread[t].handler = NoHandler
    BY DEF Init, Idle, Doing
  <2>5. HandlerTypes
    BY <2>1, <2>2, <2>3, <2>4, StreamAssumption DEF HandlerTypes
  <2>6. HeldForCall
    BY <2>4 DEF HeldForCall
  <2>7. HandlerPlace
    BY <2>1, <2>2, <2>3, <2>4, NoHandlerIsNone DEF HandlerPlace, Taken
  <2>8. NoneAfterDeinit
    BY <2>1 DEF NoneAfterDeinit
  <2>. QED  BY <2>5, <2>6, <2>7, <2>8 DEF HandlerInv
<1>2. HandlerInv /\ [Next]_vars => HandlerInv'
  <2>. SUFFICES ASSUME HandlerInv, [Next]_vars
                PROVE  HandlerInv'
    OBVIOUS
  <2>d. Domains /\ NoneAfterDeinit
    BY DEF HandlerInv, HandlerTypes
  <2>c. Producer \subseteq Thread /\ Consumer \subseteq Thread /\ Canceller \in Thread
    BY DEF Thread
  <2>h. \A t \in Thread : thread[t].at \notin {"handler", "handler then finish"} =>
                            thread[t].handler = NoHandler
    BY DEF HandlerInv, HeldForCall
  <2>i. \A t \in Thread : freed => thread[t].at = "idle"
    BY <2>d DEF NoneAfterDeinit, Idle, Doing
  <2>1. ASSUME UNCHANGED <<thread, consumer, onTermination, handlers, replaced, calls, freed>>,
               ~streamAlive' <=> ~streamAlive, ~continuationAlive => ~continuationAlive'
        PROVE  HandlerInv'
    <3>1. HandlerTypes' /\ HeldForCall'
      BY <2>1 DEF HandlerInv, HandlerTypes, HeldForCall, Domains, HandlersSet
    <3>2. HandlerPlace'
      BY <2>1 DEF HandlerInv, HandlerPlace, HandlersSet, Pending, Taken
    <3>3. NoneAfterDeinit'
      BY <2>1, <2>d DEF NoneAfterDeinit
    <3>. QED  BY <3>1, <3>2, <3>3 DEF HandlerInv
  <2>2. CASE UNCHANGED vars
    BY <2>1, <2>2 DEF vars, state, tasks, history, lifetimes
  <2>3. ASSUME NEW t \in Thread, CancelLocked(t)
        PROVE  HandlerInv'
    <3>. DEFINE work == Doing("handler then finish", onTermination, <<>>)
    <3>1. /\ thread' = [thread EXCEPT ![t] = work] /\ onTermination' = NoHandler
          /\ UNCHANGED <<handlers, replaced, calls, freed, consumer, streamAlive>>
      BY <2>3 DEF CancelLocked, tasks, history, lifetimes
    <3>2. thread[t].handler = NoHandler /\ ~freed
      BY <2>3, <2>h, <2>i DEF CancelLocked
    <3>3. work.handler = onTermination /\ work.at = "handler then finish"
      BY DEF Doing
    <3>. HIDE DEF work
    <3>4. HandlerTypes' /\ HeldForCall' /\ HandlerPlace'
      BY <3>1, <3>2, <3>3, <2>d, TakeHandler DEF Domains
    <3>5. NoneAfterDeinit'
      BY <3>1, <3>2, <2>d DEF NoneAfterDeinit
    <3>. QED  BY <3>4, <3>5 DEF HandlerInv
  <2>4. ASSUME NEW t \in Thread, CallHandler(t)
        PROVE  HandlerInv'
    <3>1. ~freed /\ UNCHANGED <<freed, consumer, streamAlive>>
      BY <2>4, <2>i DEF CallHandler, tasks, lifetimes
    <3>2. NoneAfterDeinit'
      BY <3>1, <2>d DEF NoneAfterDeinit
    <3>. QED  BY <2>4, <3>2, CallKeepsHandlers DEF HandlerInv
  <2>5. ASSUME NEW t \in Thread, FinishAfterCancel(t)
        PROVE  HandlerInv'
    <3>1. ~freed /\ thread[t].handler = NoHandler
      BY <2>5, <2>h, <2>i DEF FinishAfterCancel
    <3>2. UNCHANGED <<handlers, replaced, calls, freed, consumer, streamAlive>>
      BY <2>5 DEF FinishAfterCancel, tasks, history, lifetimes
    <3>3. NoneAfterDeinit'
      BY <3>1, <3>2, <2>d DEF NoneAfterDeinit
    <3>. QED  BY <2>5, <3>1, <3>2, <3>3, FinishTakesHandler DEF FinishAfterCancel, HandlerInv
  <2>6. ASSUME NEW t \in Thread, Resume(t)
        PROVE  HandlerInv'
    <3>. DEFINE work == Resuming(Tail(thread[t].resumes))
    <3>1. /\ thread' = [thread EXCEPT ![t] = work]
          /\ UNCHANGED <<onTermination, handlers, replaced, calls, freed, consumer, streamAlive>>
      BY <2>6 DEF Resume, state, history, lifetimes
    <3>2. thread[t].handler = NoHandler /\ ~freed
      BY <2>6, <2>h, <2>i DEF Resume
    <3>3. work.handler = NoHandler
      BY DEF Resuming, Idle, Doing
    <3>. HIDE DEF work
    <3>4. HandlerTypes' /\ HeldForCall' /\ HandlerPlace'
      BY <3>1, <3>2, <3>3, <2>d, WorkWithoutHandler DEF Domains
    <3>5. NoneAfterDeinit'
      BY <3>1, <3>2, <2>d DEF NoneAfterDeinit
    <3>. QED  BY <3>4, <3>5 DEF HandlerInv
  <2>7. ASSUME NEW c \in Consumer, CallNext(c)
        PROVE  HandlerInv'
    <3>. DEFINE work == IF c \in cancelled THEN Doing("cancel", NoHandler, <<>>) ELSE Idle
    <3>1. /\ thread' = [thread EXCEPT ![c] = work]
          /\ consumer' = [consumer EXCEPT ![c] = "entered"] /\ streamAlive
          /\ UNCHANGED <<onTermination, handlers, replaced, calls, freed, streamAlive>>
      BY <2>7 DEF CallNext, state, history, lifetimes
    <3>2. thread[c].handler = NoHandler /\ work.handler = NoHandler
      BY <2>7 DEF CallNext, Idle, Doing
    <3>. HIDE DEF work
    <3>3. DOMAIN consumer' = Consumer
      BY <3>1, <2>d DEF Domains
    <3>4. HandlerTypes' /\ HeldForCall' /\ HandlerPlace'
      BY <3>1, <3>2, <3>3, <2>c, WorkWithoutHandler
    <3>5. NoneAfterDeinit'
      BY <3>1, <2>d DEF NoneAfterDeinit
    <3>. QED  BY <3>4, <3>5 DEF HandlerInv
  <2>8. ASSUME NEW c \in Consumer, NextLocked(c)
        PROVE  HandlerInv'
    <3>. DEFINE work(b, w) == IF b THEN Resuming(w) ELSE Idle
    <3>1. PICK b, w : thread' = [thread EXCEPT ![c] = work(b, w)]
      BY <2>8 DEF NextLocked
    <3>2. /\ consumer' = [consumer EXCEPT ![c] = "waiting"] /\ consumer[c] = "entered"
          /\ UNCHANGED <<onTermination, handlers, replaced, calls, freed, streamAlive>>
      BY <2>8 DEF NextLocked, history, lifetimes
    <3>3. thread[c].handler = NoHandler /\ work(b, w).handler = NoHandler
      BY <2>8 DEF NextLocked, Resuming, Idle, Doing
    <3>. HIDE DEF work
    <3>4. DOMAIN consumer' = Consumer /\ streamAlive
      BY <3>2, <2>d DEF Domains, NoneAfterDeinit
    <3>5. HandlerTypes' /\ HeldForCall' /\ HandlerPlace'
      BY <3>1, <3>2, <3>3, <3>4, <2>c, WorkWithoutHandler
    <3>6. NoneAfterDeinit'
      BY <3>2, <3>4, <2>d DEF NoneAfterDeinit
    <3>. QED  BY <3>5, <3>6 DEF HandlerInv
  <2>9. ASSUME NEW c \in Consumer, NextAborts(c)
        PROVE  HandlerInv'
    BY <2>9, <2>1 DEF NextAborts, state, tasks, history, lifetimes
  <2>10. ASSUME NEW c \in Consumer, NextReturns(c)
         PROVE  HandlerInv'
    <3>1. /\ consumer' = [consumer EXCEPT ![c] = "idle"] /\ consumer[c] = "waiting"
          /\ UNCHANGED <<thread, onTermination, handlers, replaced, calls, freed, streamAlive>>
      BY <2>10 DEF NextReturns, state, history, lifetimes
    <3>2. DOMAIN consumer' = Consumer /\ streamAlive
      BY <3>1, <2>d DEF Domains, NoneAfterDeinit
    <3>3. HandlerTypes' /\ HeldForCall'
      BY <3>1, <3>2 DEF HandlerInv, HandlerTypes, HeldForCall, Domains, HandlersSet
    <3>4. HandlerPlace'
      BY <3>1 DEF HandlerInv, HandlerPlace, HandlersSet, Pending, Taken
    <3>5. NoneAfterDeinit'
      BY <3>1, <3>2, <2>d DEF NoneAfterDeinit
    <3>. QED  BY <3>3, <3>4, <3>5 DEF HandlerInv
  <2>11. ASSUME NEW c \in Consumer, CancelTask(c)
         PROVE  HandlerInv'
    <3>. DEFINE work == IF consumer[c] = "idle" THEN Idle ELSE Doing("cancel", NoHandler, <<>>)
    <3>1. /\ thread' = [thread EXCEPT ![Canceller] = work] /\ thread[Canceller] = Idle
          /\ UNCHANGED <<onTermination, handlers, replaced, calls, freed, consumer, streamAlive,
                         continuationAlive>>
      BY <2>11 DEF CancelTask, state, history, lifetimes
    <3>2. thread[Canceller].handler = NoHandler /\ work.handler = NoHandler
      BY <2>11 DEF CancelTask, Idle, Doing
    <3>3. freed => work = Idle
      BY <2>d DEF NoneAfterDeinit
    <3>. HIDE DEF work
    <3>4. HandlerTypes' /\ HeldForCall' /\ HandlerPlace'
      BY <3>1, <3>2, <2>c, <2>d, WorkWithoutHandler DEF Domains
    <3>5. freed => \A t \in Thread : thread'[t] = Idle
      BY <3>1, <3>3, <2>d DEF NoneAfterDeinit, Domains
    <3>6. NoneAfterDeinit'
      BY <3>1, <3>5, <2>d DEF NoneAfterDeinit
    <3>. QED  BY <3>4, <3>6 DEF HandlerInv
  <2>12. ASSUME NEW c \in Consumer, DropStream(c)
         PROVE  HandlerInv'
    <3>. DEFINE work == Doing("cancel", NoHandler, <<>>)
    <3>1. /\ thread' = [thread EXCEPT ![c] = work]
          /\ streamAlive /\ \A d \in Consumer : consumer[d] = "idle"
          /\ UNCHANGED <<onTermination, handlers, replaced, calls, freed, consumer>>
      BY <2>12 DEF DropStream, state, tasks, history
    <3>2. thread[c].handler = NoHandler /\ work.handler = NoHandler
      BY <2>12 DEF DropStream, Idle, Doing
    <3>. HIDE DEF work
    <3>3. HandlerTypes' /\ HeldForCall' /\ HandlerPlace'
      BY <3>1, <3>2, <2>c, <2>d, WorkWithoutHandler DEF Domains
    <3>4. NoneAfterDeinit'
      BY <3>1, <2>d DEF NoneAfterDeinit
    <3>. QED  BY <3>3, <3>4 DEF HandlerInv
  <2>13. ASSUME NEW p \in Producer, Yield(p)
         PROVE  HandlerInv'
    <3>. DEFINE work(b, w) == IF b THEN Resuming(w) ELSE Idle
    <3>1. PICK b, w : thread' = [thread EXCEPT ![p] = work(b, w)]
      BY <2>13 DEF Yield
    <3>2. /\ continuationAlive
          /\ UNCHANGED <<onTermination, handlers, replaced, calls, freed, consumer, streamAlive>>
      BY <2>13 DEF Yield, tasks, lifetimes
    <3>3. thread[p].handler = NoHandler /\ work(b, w).handler = NoHandler
      BY <2>13 DEF Yield, Resuming, Idle, Doing
    <3>. HIDE DEF work
    <3>4. HandlerTypes' /\ HeldForCall' /\ HandlerPlace'
      BY <3>1, <3>2, <3>3, <2>c, <2>d, WorkWithoutHandler DEF Domains
    <3>5. NoneAfterDeinit'
      BY <3>2, <2>d DEF NoneAfterDeinit
    <3>. QED  BY <3>4, <3>5 DEF HandlerInv
  <2>14. ASSUME NEW p \in Producer, NEW end \in {"finished", "failed"}, Finish(p, end)
         PROVE  HandlerInv'
    <3>1. /\ UNCHANGED <<handlers, replaced, calls, freed, consumer, streamAlive>>
          /\ continuationAlive /\ thread[p] = Idle
      BY <2>14 DEF Finish, tasks, history, lifetimes
    <3>2. ~freed /\ thread[p].handler = NoHandler
      BY <3>1, <2>d DEF NoneAfterDeinit, Idle, Doing
    <3>3. NoneAfterDeinit'
      BY <3>1, <3>2, <2>d DEF NoneAfterDeinit
    <3>. QED  BY <2>14, <2>c, <3>1, <3>2, <3>3, FinishTakesHandler DEF Finish, HandlerInv
  <2>15. ASSUME NEW p \in Producer, SetOnTermination(p)
         PROVE  HandlerInv'
    <3>1. UNCHANGED <<thread, consumer, streamAlive, continuationAlive, freed>>
      BY <2>15 DEF SetOnTermination, tasks, lifetimes
    <3>2. NoneAfterDeinit'
      BY <3>1, <2>d DEF NoneAfterDeinit
    <3>. QED  BY <2>15, <3>2, SetKeepsHandlers DEF HandlerInv
  <2>16. CASE DropContinuation
    BY <2>16, <2>1 DEF DropContinuation, state, tasks, history
  <2>17. CASE Deinit
    BY <2>17, DeinitKeepsHandlers
  <2>. QED
    BY <2>2, <2>3, <2>4, <2>5, <2>6, <2>7, <2>8, <2>9, <2>10, <2>11, <2>12, <2>13, <2>14, <2>15,
       <2>16, <2>17
    DEF Next, NextStep, ThreadStep
<1>. QED  BY <1>1, <1>2, PTL DEF Spec

\* A termination handler is called at most once, and not at all after it was replaced, although
\* finish(), every cancel() and deinit may race to call it; after deinit none is left uncalled.
THEOREM StreamHandlers == Spec => []HandlersCalledOnce
<1>1. HandlerInv => HandlersCalledOnce
  <2>. SUFFICES ASSUME HandlerInv, NEW h \in Handler
                PROVE  /\ calls[h] <= IF h \in replaced THEN 0 ELSE 1
                       /\ freed /\ h <= handlers /\ h \notin replaced => calls[h] = 1
    BY DEF HandlersCalledOnce
  <2>1. calls[h] = IF h \notin HandlersSet \/ h \in replaced \/ Pending(h)
           \/ Taken(h) THEN 0 ELSE 1
    BY DEF HandlerInv, HandlerPlace
  <2>2. h <= handlers => h \in HandlersSet
    BY StreamAssumption DEF HandlerInv, HandlerTypes, HandlersSet, Handler
  <2>3. freed => ~ Pending(h) /\ ~ Taken(h)
    BY NoHandlerIsNone DEF HandlerInv, NoneAfterDeinit, Pending, Taken, Idle, Doing
  <2>. QED  BY <2>1, <2>2, <2>3
<1>. QED  BY <1>1, HandlerInvHolds, PTL

-----------------------------------------------------------------------------
(* What is owed, and what each step does to it *)

\* The continuations that each thread has still to resume, and with what
Owed == [t \in Thread |-> thread[t].resumes]

Positions == {"idle", "cancel", "handler then finish", "finish", "handler", "resume"}

FlowTypes ==
  /\ DOMAIN thread = Thread
  /\ limit \in Policy
  /\ continuations \in Seq(Consumer)
  /\ buffer \in Seq(Value)
  /\ limit.policy # "unbounded" => buffer = <<>> \/ Len(buffer) <= limit.count
  /\ terminal \in {"no", "finished", "failed"}
  /\ Owed \in [Thread -> Seq(Wake)]
  /\ consumer \in [Consumer -> {"idle", "entered", "waiting"}]
  /\ result \in [Consumer -> Outcomes \cup {Nothing}]
  /\ received \in [Consumer -> Seq(Outcomes)]
  /\ yielded \in 0..MaxYields
  /\ refused \in SUBSET Value

OtherTypes ==
  /\ throwing \in BOOLEAN
  /\ \A t \in Thread : thread[t].at \in Positions
  /\ cancelled \in SUBSET Consumer /\ cancelling \in SUBSET cancelled
  /\ continuationAlive \in BOOLEAN
  /\ streamAlive \in BOOLEAN /\ freed \in BOOLEAN /\ aborted \in BOOLEAN

\* Only a thread that is done with the lock has continuations to resume.
OwedInv ==
  \A t \in Thread :
    /\ thread[t].at \notin {"handler", "resume"} => thread[t].resumes = <<>>
    /\ thread[t].at = "resume" => thread[t].resumes # <<>>

\* The continuation of a task that waits is in one place.
QueuedOnce == \A i, j \in DOMAIN continuations : continuations[i] = continuations[j] => i = j

OwedOnce ==
  \A t, u \in Thread : \A i \in DOMAIN Owed[t], j \in DOMAIN Owed[u] :
    Owed[t][i].task = Owed[u][j].task => t = u /\ i = j

QueuedWaits ==
  \A i \in DOMAIN continuations :
    consumer[continuations[i]] = "waiting" /\ result[continuations[i]] = Nothing

OwedWaits ==
  \A t \in Thread : \A i \in DOMAIN Owed[t] :
    /\ consumer[Owed[t][i].task] = "waiting" /\ result[Owed[t][i].task] = Nothing
    /\ \A j \in DOMAIN continuations : continuations[j] # Owed[t][i].task

WaitingHas ==
  \A c \in Consumer :
    /\ result[c] # Nothing => consumer[c] = "waiting"
    /\ consumer[c] = "waiting" =>
         \/ result[c] # Nothing
         \/ \E i \in DOMAIN continuations : continuations[i] = c
         \/ \E t \in Thread : \E i \in DOMAIN Owed[t] : Owed[t][i].task = c

PlaceInv == QueuedOnce /\ OwedOnce /\ QueuedWaits /\ OwedWaits /\ WaitingHas

\* Calls of next() are bounded.
CallsInv ==
  \A c \in Consumer :
    /\ Len(received[c]) <= MaxNexts
    /\ consumer[c] # "idle" => Len(received[c]) < MaxNexts

\* Values that are not in the buffer any more were yielded before those that are.
Sorted == \A i, j \in DOMAIN buffer : i < j => buffer[i] < buffer[j]

BufferKnown == \A i \in DOMAIN buffer : buffer[i] <= yielded /\ buffer[i] \notin refused

OwedEarlier ==
  \A i \in DOMAIN buffer : \A t \in Thread : \A j \in DOMAIN Owed[t] :
    Owed[t][j].outcome.value < buffer[i]

ResultEarlier == \A i \in DOMAIN buffer : \A c \in Consumer : result[c].value < buffer[i]

ReceivedEarlier ==
  \A i \in DOMAIN buffer : \A c \in Consumer : \A j \in DOMAIN received[c] :
    received[c][j].value < buffer[i]

BufferInv == Sorted /\ BufferKnown /\ OwedEarlier /\ ResultEarlier /\ ReceivedEarlier

\* What is refused or given to a task was yielded, and what is given was not refused.
Known ==
  /\ \A v \in refused : v <= yielded
  /\ \A t \in Thread : \A i \in DOMAIN Owed[t] :
       Owed[t][i].outcome.value <= yielded /\ Owed[t][i].outcome.value \notin refused
  /\ \A c \in Consumer : result[c].value <= yielded /\ result[c].value \notin refused
  /\ \A c \in Consumer : \A i \in DOMAIN received[c] :
       received[c][i].value <= yielded /\ received[c][i].value \notin refused

\* A value is given to one task, once.
OwedUnique ==
  \A t, u \in Thread : \A i \in DOMAIN Owed[t], j \in DOMAIN Owed[u] :
    Owed[t][i].outcome.kind = "element" /\ Owed[u][j].outcome = Owed[t][i].outcome =>
      t = u /\ i = j

OwedNotResult ==
  \A t \in Thread : \A i \in DOMAIN Owed[t] : \A c \in Consumer :
    Owed[t][i].outcome.kind = "element" => result[c] # Owed[t][i].outcome

OwedNotReceived ==
  \A t \in Thread : \A i \in DOMAIN Owed[t] : \A c \in Consumer : \A j \in DOMAIN received[c] :
    Owed[t][i].outcome.kind = "element" => received[c][j] # Owed[t][i].outcome

ResultUnique ==
  \A c, d \in Consumer : result[c].kind = "element" /\ result[d] = result[c] => c = d

ResultNotReceived ==
  \A c, d \in Consumer : \A j \in DOMAIN received[d] :
    result[c].kind = "element" => received[d][j] # result[c]

ReceivedUnique ==
  \A c, d \in Consumer : \A i \in DOMAIN received[c], j \in DOMAIN received[d] :
    received[c][i].kind = "element" /\ received[d][j] = received[c][i] => c = d /\ i = j

GivenInv ==
  /\ Known /\ OwedUnique /\ OwedNotResult /\ OwedNotReceived
  /\ ResultUnique /\ ResultNotReceived /\ ReceivedUnique

\* No value is lost.
Kept(v) ==
  \/ v \in refused
  \/ \E i \in DOMAIN buffer : buffer[i] = v
  \/ \E t \in Thread : \E i \in DOMAIN Owed[t] : Owed[t][i].outcome = Element(v)
  \/ \E c \in Consumer : result[c] = Element(v)
  \/ \E c \in Consumer : \E i \in DOMAIN received[c] : received[c][i] = Element(v)

KeptInv == \A v \in 1..yielded : Kept(v)

\* The end of the stream comes after its values.
MoreToCome == terminal = "no" \/ buffer # <<>>

EndInv ==
  MoreToCome =>
    /\ \A t \in Thread : \A i \in DOMAIN Owed[t] : Owed[t][i].outcome.kind = "element"
    /\ \A c \in Consumer : result[c] = Nothing \/ result[c].kind = "element"
    /\ \A c \in Consumer : \A i \in DOMAIN received[c] : received[c][i].kind = "element"

\* What a task is given comes after what it has received.
OwedAfter ==
  \A t \in Thread : \A i \in DOMAIN Owed[t] : \A c \in Consumer : \A j \in DOMAIN received[c] :
    Owed[t][i].outcome.kind = "element" /\ Owed[t][i].task = c =>
      received[c][j].kind = "element" /\ received[c][j].value < Owed[t][i].outcome.value

ResultAfter ==
  \A c \in Consumer : result[c].kind = "element" =>
    \A j \in DOMAIN received[c] :
      received[c][j].kind = "element" /\ received[c][j].value < result[c].value

ReceivedAfter ==
  \A c \in Consumer : \A i, j \in DOMAIN received[c] :
    i < j /\ received[c][j].kind = "element" =>
      received[c][i].kind = "element" /\ received[c][i].value < received[c][j].value

OrderInv == OwedAfter /\ ResultAfter /\ ReceivedAfter

FlowInv ==
  /\ HandlerInv /\ WaitersHaveNothing
  /\ FlowTypes /\ OtherTypes /\ OwedInv /\ PlaceInv /\ CallsInv
  /\ BufferInv /\ GivenInv /\ KeptInv /\ EndInv /\ OrderInv

-----------------------------------------------------------------------------
(* Facts about data *)

\* What next() can return: values, and an end, which counts as value 0.
LEMMA OutcomeFacts ==
  /\ \A o \in Outcomes :
       /\ o # Nothing /\ o.value \in 0..MaxYields
       /\ o.kind = "element" => o.value \in Value /\ o = Element(o.value)
       /\ o.kind # "element" => o.value = 0
  /\ \A v \in Value : /\ Element(v) \in Outcomes
                      /\ Element(v).value = v /\ Element(v).kind = "element"
  /\ \A end \in {"no", "finished", "failed"} :
       /\ End(end) \in Outcomes
       /\ End(end).value = 0 /\ End(end).kind # "element"
  /\ Nothing.value = 0 /\ Nothing.kind # "element"
BY StreamAssumption DEF Outcomes, Element, End, Nothing, Value

\* A sequence, its head and its tail.
LEMMA SeqFacts ==
  ASSUME NEW S, NEW s \in Seq(S)
  PROVE  /\ Len(s) \in Nat /\ DOMAIN s = 1..Len(s) /\ \A i \in 1..Len(s) : s[i] \in S
         /\ s = <<>> <=> Len(s) = 0
         /\ s # <<>> => /\ Head(s) = s[1] /\ Head(s) \in S /\ 1 \in DOMAIN s
                        /\ Tail(s) \in Seq(S) /\ Len(Tail(s)) = Len(s) - 1
                        /\ DOMAIN Tail(s) = 1..(Len(s) - 1)
                        /\ \A i \in 1..(Len(s) - 1) : Tail(s)[i] = s[i + 1]
OBVIOUS

\* A sequence with an element more.
LEMMA AppendFacts ==
  ASSUME NEW S, NEW s \in Seq(S), NEW e \in S
  PROVE  /\ Append(s, e) \in Seq(S) /\ Len(Append(s, e)) = Len(s) + 1
         /\ DOMAIN Append(s, e) = 1..(Len(s) + 1)
         /\ Append(s, e)[Len(s) + 1] = e
         /\ \A i \in 1..Len(s) : Append(s, e)[i] = s[i]
         /\ Append(s, e) # <<>>
OBVIOUS

\* One continuation to resume.
LEMMA OneWake ==
  ASSUME NEW c, NEW outcome
  PROVE  /\ Wakes(c, outcome) # <<>> /\ DOMAIN Wakes(c, outcome) = {1}
         /\ Len(Wakes(c, outcome)) = 1
         /\ Wakes(c, outcome)[1].task = c /\ Wakes(c, outcome)[1].outcome = outcome
         /\ c \in Consumer /\ outcome \in Outcomes => Wakes(c, outcome) \in Seq(Wake)
<1>. DEFINE w == [task |-> c, outcome |-> outcome]
<1>1. <<w>> # <<>> /\ DOMAIN <<w>> = {1} /\ Len(<<w>>) = 1 /\ <<w>>[1] = w
  OBVIOUS
<1>2. ASSUME c \in Consumer, outcome \in Outcomes
      PROVE  <<w>> \in Seq(Wake)
  <2>1. w \in Wake
    BY <1>2 DEF Wake
  <2>. HIDE DEF w
  <2>. QED  BY <2>1
<1>. QED  BY <1>1, <1>2 DEF Wakes

\* finish() resumes as many continuations as wait.
LEMMA EndedWakes ==
  ASSUME NEW s \in Seq(Consumer), NEW outcome \in Outcomes
  PROVE  /\ [i \in DOMAIN s |-> [task |-> s[i], outcome |-> outcome]] \in Seq(Wake)
         /\ s = <<>> <=> [i \in DOMAIN s |-> [task |-> s[i], outcome |-> outcome]] = <<>>
<1>. DEFINE f == [i \in DOMAIN s |-> [task |-> s[i], outcome |-> outcome]]
<1>1. DOMAIN s = 1..Len(s) /\ Len(s) \in Nat /\ \A i \in DOMAIN s : s[i] \in Consumer
  OBVIOUS
<1>2. \A i \in 1..Len(s) : f[i] \in Wake
  BY <1>1 DEF Wake
<1>3. f = [i \in 1..Len(s) |-> f[i]]
  BY <1>1
<1>. HIDE DEF f
<1>4. f \in Seq(Wake)
  BY <1>1, <1>2, <1>3
<1>5. DOMAIN f = 1..Len(s)
  BY <1>3
<1>6. Len(f) = Len(s)
  BY <1>1, <1>4, <1>5, LenProperties
<1>7. s = <<>> <=> Len(s) = 0
  BY SeqFacts
<1>8. f = <<>> <=> Len(f) = 0
  BY <1>4, SeqFacts
<1>. QED  BY <1>4, <1>6, <1>7, <1>8 DEF f

-----------------------------------------------------------------------------
(* What the steps do to the values and the continuations *)

Stays == UNCHANGED <<continuations, buffer, terminal, Owed, consumer, result, received, yielded,
                     refused>>

Enters(c) ==
  /\ consumer[c] = "idle" /\ consumer' = [consumer EXCEPT ![c] = "entered"]
  /\ Count(Returns) + Count({d \in Consumer : consumer[d] # "idle"}) < MaxNexts
  /\ UNCHANGED <<continuations, buffer, terminal, Owed, result, received, yielded, refused>>

\* next() without a value or an end
Suspends(c) ==
  /\ buffer = <<>> /\ terminal = "no"
  /\ consumer[c] = "entered" /\ consumer' = [consumer EXCEPT ![c] = "waiting"]
  /\ continuations' = Append(continuations, c)
  /\ UNCHANGED <<buffer, terminal, Owed, result, received, yielded, refused>>

\* next() with a value or an end
Serves(c, outcome) ==
  /\ continuations = <<>> /\ continuations' = <<>>
  /\ consumer[c] = "entered" /\ consumer' = [consumer EXCEPT ![c] = "waiting"]
  /\ Owed[c] = <<>> /\ Owed' = [Owed EXCEPT ![c] = Wakes(c, outcome)]
  /\ \/ buffer # <<>> /\ outcome = Element(Head(buffer)) /\ buffer' = Tail(buffer)
        /\ terminal' = terminal
     \/ buffer = <<>> /\ terminal # "no" /\ outcome = End(terminal) /\ buffer' = buffer
        /\ terminal' \in {"finished", "failed"}
  /\ UNCHANGED <<result, received, yielded, refused>>

Resumed(t) ==
  /\ Owed[t] # <<>>
  /\ result' = [result EXCEPT ![Head(Owed[t]).task] = Head(Owed[t]).outcome]
  /\ Owed' = [Owed EXCEPT ![t] = Tail(Owed[t])]
  /\ UNCHANGED <<continuations, buffer, terminal, consumer, received, yielded, refused>>

Gets(c) ==
  /\ consumer[c] = "waiting" /\ consumer' = [consumer EXCEPT ![c] = "idle"]
  /\ result[c] # Nothing /\ result' = [result EXCEPT ![c] = Nothing]
  /\ received' = [received EXCEPT ![c] = Append(received[c], result[c])]
  /\ UNCHANGED <<continuations, buffer, terminal, Owed, yielded, refused>>

\* yield() while no task waits
Buffers ==
  /\ yielded < MaxYields /\ yielded' = yielded + 1
  /\ \/ /\ terminal = "no" /\ refused' = refused
        /\ buffer' = Append(buffer, yielded + 1)
        /\ limit.policy = "unbounded" \/ Len(buffer) < limit.count
     \/ /\ terminal = "no" /\ buffer # <<>> /\ refused' = refused \cup {Head(buffer)}
        /\ buffer' = Append(Tail(buffer), yielded + 1)
     \/ /\ buffer' = buffer /\ refused' = refused \cup {yielded + 1}
  /\ UNCHANGED <<continuations, terminal, Owed, consumer, result, received>>

\* yield() to the first of the tasks that wait
Sends(p) ==
  /\ yielded < MaxYields /\ yielded' = yielded + 1
  /\ continuations # <<>> /\ continuations' = Tail(continuations)
  /\ buffer = <<>> /\ terminal = "no"
  /\ Owed[p] = <<>>
  /\ Owed' = [Owed EXCEPT ![p] = Wakes(Head(continuations), Element(yielded + 1))]
  /\ UNCHANGED <<buffer, terminal, consumer, result, received, refused>>

Ends(t) ==
  /\ Owed[t] = <<>> /\ terminal' \in {"finished", "failed"}
  /\ Owed' = [Owed EXCEPT ![t] =
                [i \in DOMAIN continuations |->
                   [task |-> continuations[i], outcome |-> End(terminal')]]]
  /\ continuations' = <<>>
  /\ UNCHANGED <<buffer, consumer, result, received, yielded, refused>>

FlowStep ==
  \/ Stays \/ Buffers
  \/ \E c \in Consumer : Enters(c) \/ Suspends(c) \/ Gets(c)
  \/ \E c \in Consumer, outcome \in Outcomes : Serves(c, outcome)
  \/ \E t \in Thread : Resumed(t) \/ Ends(t)
  \/ \E p \in Producer : Sends(p)

\* What a thread owes after it was given something else to do
LEMMA WorkOwed ==
  ASSUME FlowTypes, NEW t \in Thread, NEW work, thread' = [thread EXCEPT ![t] = work]
  PROVE  /\ Owed' = [Owed EXCEPT ![t] = work.resumes]
         /\ Owed[t] = thread[t].resumes
         /\ work.resumes = thread[t].resumes => Owed' = Owed
BY DEF FlowTypes, Owed

\* What the things that a thread does leave it to resume
LEMMA WorkFacts ==
  /\ Idle.resumes = <<>> /\ Idle.at = "idle"
  /\ \A r : Resuming(r).resumes = r
  /\ \A at, h, r : Doing(at, h, r).resumes = r /\ Doing(at, h, r).at = at
BY DEF Idle, Resuming, Doing

\* A thread that owed nothing is given something to do without continuations.
LEMMA NothingOwed ==
  ASSUME FlowTypes, NEW t \in Thread, NEW work, thread' = [thread EXCEPT ![t] = work],
         work.resumes = <<>>, thread[t] = Idle \/ thread[t].resumes = <<>>
  PROVE  Owed' = Owed
<1>1. thread[t].resumes = <<>>
  BY WorkFacts
<1>. QED  BY <1>1, WorkOwed

\* An idle thread is given continuations to resume.
LEMMA WakeOwed ==
  ASSUME FlowTypes, NEW t \in Thread, NEW wakes, thread[t] = Idle,
         thread' = [thread EXCEPT ![t] = Resuming(wakes)]
  PROVE  Owed' = [Owed EXCEPT ![t] = wakes] /\ Owed[t] = <<>>
<1>. DEFINE work == Resuming(wakes)
<1>1. work.resumes = wakes /\ thread[t].resumes = <<>> /\ thread' = [thread EXCEPT ![t] = work]
  BY WorkFacts
<1>. HIDE DEF work
<1>2. Owed' = [Owed EXCEPT ![t] = work.resumes] /\ Owed[t] = <<>>
  BY <1>1, WorkOwed
<1>. QED  BY <1>1, <1>2

\* Tasks wait only for an empty buffer, so finish() resumes them all with the end.
LEMMA FinishFlow ==
  ASSUME FlowInv, NEW t \in Thread, NEW end \in {"finished", "failed"}, FinishLocked(t, end),
         thread[t].resumes = <<>>,
         UNCHANGED <<consumer, result, received, yielded, refused>>
  PROVE  Ends(t)
<1>1. terminal \in {"no", "finished", "failed"} /\ FlowTypes
  BY DEF FlowInv, FlowTypes
<1>2. continuations # <<>> => buffer = <<>>
  BY DEF FlowInv, WaitersHaveNothing
<1>. DEFINE ended == IF terminal = "no" THEN end ELSE terminal
            wakes == [i \in DOMAIN continuations |->
                        [task |-> continuations[i], outcome |-> End(ended)]]
            work == IF onTermination = NoHandler THEN Resuming(wakes)
                    ELSE Doing("handler", onTermination, wakes)
<1>3. /\ terminal' = ended /\ ended \in {"finished", "failed"}
      /\ buffer' = buffer /\ continuations' = <<>>
      /\ thread' = [thread EXCEPT ![t] = work]
  BY <1>1, <1>2 DEF FinishLocked
<1>4. work.resumes = wakes
  BY WorkFacts
<1>. HIDE DEF work
<1>5. Owed' = [Owed EXCEPT ![t] = work.resumes] /\ Owed[t] = <<>>
  BY <1>1, <1>3, WorkOwed
<1>6. Owed' = [Owed EXCEPT ![t] = wakes]
  BY <1>4, <1>5
<1>. QED  BY <1>3, <1>5, <1>6 DEF Ends

\* next() suspends its task, or serves it and nobody else.
LEMMA NextFlow ==
  ASSUME FlowInv, NEW c \in Consumer, NextLocked(c)
  PROVE  Suspends(c) \/ \E outcome \in Outcomes : Serves(c, outcome)
<1>1. terminal \in {"no", "finished", "failed"} /\ FlowTypes /\ c \in Thread
  BY DEF FlowInv, FlowTypes, Thread
<1>2. thread[c] = Idle /\ consumer[c] = "entered"
  BY DEF NextLocked
<1>3. consumer' = [consumer EXCEPT ![c] = "waiting"]
         /\ UNCHANGED <<result, received, yielded, refused>>
  BY DEF NextLocked, history
<1>4. CASE buffer # <<>> \/ terminal # "no"
  <2>. DEFINE outcome == IF buffer # <<>> THEN Element(Head(buffer)) ELSE End(terminal)
  <2>1. continuations = <<>>
    BY <1>4 DEF FlowInv, WaitersHaveNothing
  <2>2. Head(Append(<<>>, c)) = c /\ Tail(Append(<<>>, c)) = <<>>
    OBVIOUS
  <2>3. /\ continuations' = <<>> /\ thread' = [thread EXCEPT ![c] = Resuming(Wakes(c, outcome))]
        /\ buffer' = IF buffer # <<>> THEN Tail(buffer) ELSE buffer
        /\ terminal' = IF buffer = <<>> /\ terminal = "failed" THEN "finished" ELSE terminal
    BY <1>4, <2>1, <2>2 DEF NextLocked
  <2>4. Owed' = [Owed EXCEPT ![c] = Wakes(c, outcome)] /\ Owed[c] = <<>>
    BY <1>1, <1>2, <2>3, WakeOwed
  <2>5. outcome \in Outcomes
    <3>1. buffer # <<>> => Head(buffer) \in Value
      BY <1>1, SeqFacts DEF FlowTypes
    <3>. QED  BY <1>1, <3>1, OutcomeFacts
  <2>6. Serves(c, outcome)
    BY <1>1, <1>2, <1>3, <1>4, <2>1, <2>3, <2>4 DEF Serves
  <2>. QED  BY <2>5, <2>6
<1>5. CASE buffer = <<>> /\ terminal = "no"
  <2>1. /\ thread' = [thread EXCEPT ![c] = Idle] /\ continuations' = Append(continuations, c)
        /\ buffer' = buffer /\ terminal' = terminal
    BY <1>5 DEF NextLocked
  <2>2. Owed' = Owed
    BY <1>1, <1>2, <2>1, NothingOwed, WorkFacts
  <2>. QED  BY <1>2, <1>3, <1>5, <2>1, <2>2 DEF Suspends
<1>. QED  BY <1>4, <1>5

\* yield() puts its value in the buffer, refuses one, or sends it to a task.
LEMMA YieldFlow ==
  ASSUME FlowInv, NEW p \in Producer, Yield(p)
  PROVE  Buffers \/ Sends(p)
<1>1. terminal \in {"no", "finished", "failed"} /\ FlowTypes /\ p \in Thread
  BY DEF FlowInv, FlowTypes, Thread
<1>2. thread[p] = Idle /\ yielded < MaxYields /\ yielded' = yielded + 1
  BY DEF Yield
<1>3. UNCHANGED <<consumer, result, received>>
  BY DEF Yield, tasks
<1>4. CASE continuations # <<>>
  <2>1. buffer = <<>> /\ terminal = "no"
    BY <1>4 DEF FlowInv, WaitersHaveNothing
  <2>. DEFINE wakes == Wakes(Head(continuations), Element(yielded + 1))
  <2>2. /\ buffer' = buffer /\ terminal' = terminal /\ refused' = refused
        /\ continuations' = Tail(continuations)
        /\ thread' = [thread EXCEPT ![p] = Resuming(wakes)]
    BY <1>4, <2>1 DEF Yield
  <2>3. Owed' = [Owed EXCEPT ![p] = wakes] /\ Owed[p] = <<>>
    BY <1>1, <1>2, <2>2, WakeOwed
  <2>. QED  BY <1>2, <1>3, <1>4, <2>1, <2>2, <2>3 DEF Sends
<1>5. CASE continuations = <<>>
  <2>1. /\ thread' = [thread EXCEPT ![p] = Idle] /\ UNCHANGED <<terminal, continuations>>
    BY <1>5 DEF Yield
  <2>2. Owed' = Owed
    BY <1>1, <1>2, <2>1, NothingOwed, WorkFacts
  <2>. DEFINE kept == IF terminal = "no" THEN Buffered(yielded + 1)
                      ELSE [buffer |-> buffer, dropped |-> {yielded + 1}]
  <2>3. buffer' = kept.buffer /\ refused' = refused \cup kept.dropped
    BY <1>5 DEF Yield
  <2>4. CASE terminal # "no"
    <3>1. kept.buffer = buffer /\ kept.dropped = {yielded + 1}
      BY <2>4
    <3>. HIDE DEF kept
    <3>. QED  BY <1>2, <1>3, <2>1, <2>2, <2>3, <3>1 DEF Buffers
  <2>5. CASE terminal = "no" /\ (limit.policy = "unbounded" \/ Len(buffer) < limit.count)
    <3>1. kept.buffer = Append(buffer, yielded + 1) /\ kept.dropped = {}
      BY <2>5 DEF Buffered
    <3>. HIDE DEF kept
    <3>2. refused' = refused
      BY <2>3, <3>1
    <3>. QED  BY <1>2, <1>3, <2>1, <2>2, <2>3, <2>5, <3>1, <3>2 DEF Buffers
  <2>6. CASE terminal = "no" /\ ~(limit.policy = "unbounded" \/ Len(buffer) < limit.count)
             /\ limit.policy = "newest" /\ buffer # <<>>
    <3>1. kept.buffer = Append(Tail(buffer), yielded + 1) /\ kept.dropped = {Head(buffer)}
      BY <2>6 DEF Buffered
    <3>. HIDE DEF kept
    <3>. QED  BY <1>2, <1>3, <2>1, <2>2, <2>3, <2>6, <3>1 DEF Buffers
  <2>7. CASE terminal = "no" /\ ~(limit.policy = "unbounded" \/ Len(buffer) < limit.count)
             /\ ~(limit.policy = "newest" /\ buffer # <<>>)
    <3>1. kept.buffer = buffer /\ kept.dropped = {yielded + 1}
      BY <2>7 DEF Buffered
    <3>. HIDE DEF kept
    <3>. QED  BY <1>2, <1>3, <2>1, <2>2, <2>3, <3>1 DEF Buffers
  <2>. QED  BY <2>4, <2>5, <2>6, <2>7
<1>. QED  BY <1>4, <1>5

\* Each step of the stream has one of these effects.
LEMMA StepFlows == FlowInv /\ [Next]_vars => FlowStep
<1>. SUFFICES ASSUME FlowInv, [Next]_vars
              PROVE  FlowStep
  OBVIOUS
<1>t. FlowTypes /\ OwedInv
  BY DEF FlowInv
<1>c. Producer \subseteq Thread /\ Consumer \subseteq Thread /\ Canceller \in Thread
  BY DEF Thread
<1>1. CASE UNCHANGED vars
  BY <1>1 DEF FlowStep, Stays, vars, state, tasks, history, Owed
<1>2. ASSUME NEW t \in Thread, CancelLocked(t)
      PROVE  FlowStep
  <2>1. thread[t].resumes = <<>>
    BY <1>2, <1>t DEF OwedInv, CancelLocked
  <2>2. Owed' = Owed
    <3>. DEFINE work == Doing("handler then finish", onTermination, <<>>)
    <3>1. thread' = [thread EXCEPT ![t] = work] /\ work.resumes = <<>>
      BY <1>2 DEF CancelLocked, Doing
    <3>. HIDE DEF work
    <3>. QED  BY <3>1, <1>t, <2>1, NothingOwed
  <2>. QED  BY <1>2, <2>2 DEF FlowStep, Stays, CancelLocked, tasks, history
<1>3. ASSUME NEW t \in Thread, CallHandler(t)
      PROVE  FlowStep
  <2>. DEFINE work == IF thread[t].at = "handler" THEN Resuming(thread[t].resumes)
                      ELSE Doing("finish", NoHandler, <<>>)
  <2>1. thread' = [thread EXCEPT ![t] = work]
    BY <1>3 DEF CallHandler
  <2>a. thread[t].at = "handler" => work.resumes = thread[t].resumes
    BY WorkFacts
  <2>b. thread[t].at # "handler" => work.resumes = <<>> /\ thread[t].resumes = <<>>
    BY <1>3, <1>t DEF OwedInv, CallHandler, Doing
  <2>2. work.resumes = thread[t].resumes
    BY <2>a, <2>b
  <2>. HIDE DEF work
  <2>3. Owed' = Owed
    BY <1>t, <2>1, <2>2, WorkOwed
  <2>. QED  BY <1>3, <2>3 DEF FlowStep, Stays, CallHandler, tasks, state
<1>4. ASSUME NEW t \in Thread, FinishAfterCancel(t)
      PROVE  FlowStep
  <2>1. thread[t].resumes = <<>>
    BY <1>4, <1>t DEF OwedInv, FinishAfterCancel
  <2>. QED  BY <1>4, <2>1, FinishFlow DEF FlowStep, FinishAfterCancel, tasks, history
<1>5. ASSUME NEW t \in Thread, Resume(t)
      PROVE  FlowStep
  <2>1. Owed[t] = thread[t].resumes /\ Owed[t] # <<>>
    BY <1>5, <1>t DEF OwedInv, Owed, Resume
  <2>2. thread' = [thread EXCEPT ![t] = Resuming(Tail(thread[t].resumes))]
    BY <1>5, <1>t DEF Resume, FlowTypes
  <2>. DEFINE work == Resuming(Tail(thread[t].resumes))
  <2>a. work.resumes = Tail(thread[t].resumes) /\ thread' = [thread EXCEPT ![t] = work]
    BY <2>2, WorkFacts
  <2>. HIDE DEF work
  <2>b. Owed' = [Owed EXCEPT ![t] = work.resumes]
    BY <1>t, <2>a, WorkOwed
  <2>3. Owed' = [Owed EXCEPT ![t] = Tail(thread[t].resumes)]
    BY <2>a, <2>b
  <2>4. Resumed(t)
    BY <1>5, <2>1, <2>3 DEF Resumed, Resume, state, history
  <2>. QED  BY <2>4 DEF FlowStep
<1>6. ASSUME NEW c \in Consumer, CallNext(c)
      PROVE  FlowStep
  <2>. DEFINE work == IF c \in cancelled THEN Doing("cancel", NoHandler, <<>>) ELSE Idle
  <2>1. thread' = [thread EXCEPT ![c] = work] /\ thread[c] = Idle
    BY <1>6 DEF CallNext
  <2>2. work.resumes = <<>>
    BY WorkFacts
  <2>. HIDE DEF work
  <2>3. Owed' = Owed
    BY <1>c, <1>t, <2>1, <2>2, NothingOwed
  <2>. QED  BY <1>6, <2>3 DEF FlowStep, Enters, CallNext, state, history
<1>7. ASSUME NEW c \in Consumer, NextLocked(c)
      PROVE  FlowStep
  BY <1>7, NextFlow DEF FlowStep
<1>8. ASSUME NEW c \in Consumer, NextReturns(c)
      PROVE  FlowStep
  <2>1. Owed' = Owed
    BY <1>8 DEF NextReturns, Owed
  <2>2. received' = [received EXCEPT ![c] = Append(received[c], result[c])]
    BY <1>8 DEF NextReturns
  <2>. QED  BY <1>8, <2>1, <2>2 DEF FlowStep, Gets, NextReturns, state, history
<1>9. ASSUME NEW c \in Consumer, NextAborts(c)
      PROVE  FlowStep
  BY <1>9 DEF FlowStep, Stays, NextAborts, state, tasks, history, Owed
<1>10. ASSUME NEW c \in Consumer, CancelTask(c)
       PROVE  FlowStep
  <2>. DEFINE work == IF consumer[c] = "idle" THEN Idle ELSE Doing("cancel", NoHandler, <<>>)
  <2>1. thread' = [thread EXCEPT ![Canceller] = work] /\ thread[Canceller] = Idle
    BY <1>10 DEF CancelTask
  <2>2. work.resumes = <<>>
    BY WorkFacts
  <2>. HIDE DEF work
  <2>3. Owed' = Owed
    BY <1>c, <1>t, <2>1, <2>2, NothingOwed
  <2>. QED  BY <1>10, <2>3 DEF FlowStep, Stays, CancelTask, state, history
<1>11. ASSUME NEW c \in Consumer, DropStream(c)
       PROVE  FlowStep
  <2>1. Owed' = Owed
    <3>. DEFINE work == Doing("cancel", NoHandler, <<>>)
    <3>1. thread' = [thread EXCEPT ![c] = work] /\ work.resumes = <<>> /\ thread[c] = Idle
      BY <1>11, WorkFacts DEF DropStream
    <3>. HIDE DEF work
    <3>. QED  BY <3>1, <1>c, <1>t, NothingOwed
  <2>. QED  BY <1>11, <2>1 DEF FlowStep, Stays, DropStream, state, tasks, history
<1>12. ASSUME NEW p \in Producer, Yield(p)
       PROVE  FlowStep
  BY <1>12, YieldFlow DEF FlowStep
<1>13. ASSUME NEW p \in Producer, NEW end \in {"finished", "failed"}, Finish(p, end)
       PROVE  FlowStep
  BY <1>13, <1>c, FinishFlow, WorkFacts DEF FlowStep, Finish, tasks, history
<1>14. ASSUME NEW p \in Producer, SetOnTermination(p)
       PROVE  FlowStep
  BY <1>14 DEF FlowStep, Stays, SetOnTermination, tasks, Owed
<1>15. CASE DropContinuation \/ Deinit
  BY <1>15 DEF FlowStep, Stays, DropContinuation, Deinit, state, tasks, history, Owed
<1>. QED
  BY <1>1, <1>2, <1>3, <1>4, <1>5, <1>6, <1>7, <1>8, <1>9, <1>10, <1>11, <1>12, <1>13, <1>14,
     <1>15
  DEF Next, NextStep, ThreadStep

-----------------------------------------------------------------------------
(* The types *)

\* The effects keep the types, and the buffer its limit.
LEMMA FlowTypesKept ==
  ASSUME FlowInv, FlowStep, DOMAIN thread' = Thread, limit' = limit
  PROVE  FlowTypes'
<1>. USE DEF Value
<1>n. MaxYields \in Nat /\ \A c \in Consumer : c \in Thread
  BY StreamAssumption DEF Thread
<1>1. FlowTypes
  BY DEF FlowInv
<1>. USE <1>1, <1>n DEF FlowTypes
<1>2. CASE Stays
  BY <1>2 DEF Stays
<1>3. CASE Buffers
  <2>1. yielded + 1 \in Value /\ yielded' \in 0..MaxYields
    BY <1>3 DEF Buffers
  <2>2. /\ limit.count \in Int /\ Len(buffer) \in Nat
        /\ UNCHANGED <<continuations, terminal, Owed, consumer, result, received>>
    BY <1>3, StreamAssumption, SeqFacts DEF Buffers
  <2>3. CASE /\ refused' = refused /\ buffer' = Append(buffer, yielded + 1)
             /\ limit.policy = "unbounded" \/ Len(buffer) < limit.count
    <3>1. Append(buffer, yielded + 1) \in Seq(Value) /\ Len(buffer') = Len(buffer) + 1
      BY <2>1, <2>3, AppendFacts
    <3>2. limit.policy # "unbounded" => Len(buffer') <= limit.count
      BY <2>2, <2>3, <3>1
    <3>. QED  BY <2>1, <2>2, <2>3, <3>1, <3>2
  <2>4. CASE /\ buffer # <<>> /\ refused' = refused \cup {Head(buffer)}
             /\ buffer' = Append(Tail(buffer), yielded + 1)
    <3>1. Head(buffer) \in Value /\ Tail(buffer) \in Seq(Value)
          /\ Len(Tail(buffer)) = Len(buffer) - 1
      BY <2>4, SeqFacts
    <3>2. buffer' \in Seq(Value) /\ Len(buffer') = Len(Tail(buffer)) + 1
      BY <2>1, <2>4, <3>1, AppendFacts
    <3>3. Len(buffer') = Len(buffer)
      BY <2>2, <3>1, <3>2
    <3>4. limit.policy # "unbounded" => Len(buffer') <= limit.count
      BY <2>4, <3>3
    <3>. QED  BY <2>1, <2>2, <2>4, <3>1, <3>2, <3>4
  <2>5. CASE buffer' = buffer /\ refused' = refused \cup {yielded + 1}
    BY <2>1, <2>2, <2>5
  <2>. QED  BY <1>3, <2>3, <2>4, <2>5 DEF Buffers
<1>4. ASSUME NEW c \in Consumer, Enters(c)
      PROVE  FlowTypes'
  BY <1>4 DEF Enters
<1>5. ASSUME NEW c \in Consumer, Suspends(c)
      PROVE  FlowTypes'
  <2>1. continuations' \in Seq(Consumer)
    BY <1>5, AppendFacts DEF Suspends
  <2>. QED  BY <1>5, <2>1 DEF Suspends
<1>6. ASSUME NEW c \in Consumer, Gets(c)
      PROVE  FlowTypes'
  <2>1. result[c] \in Outcomes /\ received[c] \in Seq(Outcomes)
    BY <1>6 DEF Gets
  <2>2. Append(received[c], result[c]) \in Seq(Outcomes)
    BY <2>1, AppendFacts
  <2>. QED  BY <1>6, <2>2 DEF Gets
<1>7. ASSUME NEW c \in Consumer, NEW outcome \in Outcomes, Serves(c, outcome)
      PROVE  FlowTypes'
  <2>1. Wakes(c, outcome) \in Seq(Wake)
    BY OneWake
  <2>2. Owed' \in [Thread -> Seq(Wake)]
    BY <1>7, <2>1 DEF Serves
  <2>3. buffer' \in Seq(Value) /\ (limit.policy # "unbounded" => buffer' = <<>>
           \/ Len(buffer') <= limit.count)
    <3>1. CASE buffer' = buffer
      BY <3>1
    <3>2. CASE buffer # <<>> /\ buffer' = Tail(buffer)
      <4>1. Tail(buffer) \in Seq(Value) /\ Len(buffer') = Len(buffer) - 1 /\ Len(buffer) \in Nat
        BY <3>2, SeqFacts
      <4>2. limit.count \in Int
        BY StreamAssumption
      <4>3. CASE Len(buffer) <= limit.count
        <5>1. Len(buffer') <= limit.count
          BY <4>1, <4>2, <4>3
        <5>. QED  BY <3>2, <4>1, <5>1
      <4>. QED  BY <3>2, <4>1, <4>3
    <3>. QED  BY <1>7, <3>1, <3>2 DEF Serves
  <2>4. terminal' \in {"no", "finished", "failed"}
    BY <1>7 DEF Serves
  <2>. QED  BY <1>7, <2>2, <2>3, <2>4 DEF Serves
<1>8. ASSUME NEW t \in Thread, Resumed(t)
      PROVE  FlowTypes'
  <2>1. Tail(Owed[t]) \in Seq(Wake) /\ Head(Owed[t]) \in Wake
    BY <1>8, SeqFacts DEF Resumed
  <2>2. Owed' \in [Thread -> Seq(Wake)]
    BY <1>8, <2>1 DEF Resumed
  <2>3. result' \in [Consumer -> Outcomes \cup {Nothing}]
    BY <1>8, <2>1 DEF Resumed, Wake
  <2>. QED  BY <1>8, <2>2, <2>3 DEF Resumed
<1>9. ASSUME NEW t \in Thread, Ends(t)
      PROVE  FlowTypes'
  <2>1. End(terminal') \in Outcomes
    BY <1>9, OutcomeFacts DEF Ends
  <2>. DEFINE wakes == [i \in DOMAIN continuations |->
                          [task |-> continuations[i], outcome |-> End(terminal')]]
  <2>2. wakes \in Seq(Wake)
    BY <2>1, EndedWakes
  <2>3. Owed' = [Owed EXCEPT ![t] = wakes]
    BY <1>9 DEF Ends
  <2>. HIDE DEF wakes
  <2>4. Owed' \in [Thread -> Seq(Wake)]
    BY <2>2, <2>3
  <2>. QED  BY <1>9, <2>4 DEF Ends
<1>10. ASSUME NEW p \in Producer, Sends(p)
       PROVE  FlowTypes'
  <2>1. /\ Tail(continuations) \in Seq(Consumer) /\ Head(continuations) \in Consumer
        /\ yielded + 1 \in Value /\ yielded' \in 0..MaxYields
    BY <1>10, SeqFacts DEF Sends
  <2>2. Wakes(Head(continuations), Element(yielded + 1)) \in Seq(Wake)
    BY <2>1, OneWake, OutcomeFacts
  <2>3. Owed' \in [Thread -> Seq(Wake)]
    BY <1>10, <2>2 DEF Sends
  <2>. QED  BY <1>10, <2>1, <2>3 DEF Sends
<1>. QED
  BY <1>2, <1>3, <1>4, <1>5, <1>6, <1>7, <1>8, <1>9, <1>10 DEF FlowStep

\* So do the steps for the other variables; who has not left the lock owes nothing.
LEMMA OtherTypesKept ==
  ASSUME FlowInv, [Next]_vars, DOMAIN thread' = Thread
  PROVE  OtherTypes' /\ OwedInv' /\ limit' = limit
<1>t. OtherTypes /\ OwedInv /\ FlowTypes
  BY DEF FlowInv
<1>c. Producer \subseteq Thread /\ Consumer \subseteq Thread /\ Canceller \in Thread
  BY DEF Thread
<1>d. DOMAIN thread = Thread
  BY <1>t DEF FlowTypes
<1>w. ASSUME NEW t \in Thread, NEW work, thread' = [thread EXCEPT ![t] = work],
             work.at \in Positions,
             work.at \notin {"handler", "resume"} => work.resumes = <<>>,
             work.at = "resume" => work.resumes # <<>>
      PROVE  OwedInv' /\ \A u \in Thread : thread'[u].at \in Positions
  BY <1>w, <1>t, <1>d DEF OwedInv, OtherTypes
<1>r. ASSUME NEW r
      PROVE  /\ Resuming(r).at \in Positions
             /\ Resuming(r).at \notin {"handler", "resume"} => Resuming(r).resumes = <<>>
             /\ Resuming(r).at = "resume" => Resuming(r).resumes # <<>>
  BY DEF Resuming, Idle, Doing, Positions
<1>i. Idle.at = "idle" /\ Idle.resumes = <<>>
  BY WorkFacts
<1>p. "cancel" \in Positions /\ "idle" \in Positions /\ "finish" \in Positions
      /\ "handler" \in Positions /\ "handler then finish" \in Positions
  BY DEF Positions
<1>x. ASSUME UNCHANGED thread
      PROVE  OwedInv' /\ \A u \in Thread : thread'[u].at \in Positions
  BY <1>x, <1>t DEF OwedInv, OtherTypes
<1>f. ASSUME NEW t \in Thread, NEW end, FinishLocked(t, end)
      PROVE  OwedInv' /\ \A u \in Thread : thread'[u].at \in Positions
  <2>. DEFINE work(wakes) == IF onTermination = NoHandler THEN Resuming(wakes)
                             ELSE Doing("handler", onTermination, wakes)
  <2>1. PICK wakes : thread' = [thread EXCEPT ![t] = work(wakes)]
    BY <1>f DEF FinishLocked
  <2>2. CASE onTermination = NoHandler
    BY <2>1, <2>2, <1>r, <1>w
  <2>3. CASE onTermination # NoHandler
    <3>. DEFINE w == Doing("handler", onTermination, wakes)
    <3>1. thread' = [thread EXCEPT ![t] = w] /\ w.at = "handler"
      BY <2>1, <2>3, WorkFacts
    <3>. HIDE DEF w
    <3>. QED  BY <3>1, <1>p, <1>w
  <2>. QED  BY <2>2, <2>3
<1>u. ASSUME NEW h
      PROVE  /\ Doing("cancel", NoHandler, <<>>).at = "cancel"
             /\ Doing("cancel", NoHandler, <<>>).resumes = <<>>
             /\ Doing("finish", NoHandler, <<>>).at = "finish"
             /\ Doing("finish", NoHandler, <<>>).resumes = <<>>
             /\ Doing("handler then finish", h, <<>>).at = "handler then finish"
             /\ Doing("handler then finish", h, <<>>).resumes = <<>>
  BY DEF Doing
<1>1. CASE UNCHANGED vars
  BY <1>1, <1>x, <1>t DEF vars, state, tasks, history, lifetimes, OtherTypes
<1>2. ASSUME NEW t \in Thread, CancelLocked(t)
      PROVE  OtherTypes' /\ OwedInv' /\ limit' = limit
  <2>1. OwedInv' /\ \A u \in Thread : thread'[u].at \in Positions
    BY <1>2, <1>u, <1>p, <1>w DEF CancelLocked
  <2>. QED  BY <1>2, <2>1, <1>t DEF CancelLocked, tasks, lifetimes, OtherTypes
<1>3. ASSUME NEW t \in Thread, CallHandler(t)
      PROVE  OtherTypes' /\ OwedInv' /\ limit' = limit
  <2>1. CASE thread[t].at = "handler"
    <3>1. thread' = [thread EXCEPT ![t] = Resuming(thread[t].resumes)]
      BY <1>3, <2>1 DEF CallHandler
    <3>. QED  BY <1>3, <3>1, <1>r, <1>w, <1>t DEF CallHandler, tasks, lifetimes, OtherTypes
  <2>2. CASE thread[t].at # "handler"
    <3>. DEFINE work == Doing("finish", NoHandler, <<>>)
    <3>1. thread' = [thread EXCEPT ![t] = work]
      BY <1>3, <2>2 DEF CallHandler
    <3>2. work.at = "finish" /\ work.resumes = <<>>
      BY <1>u
    <3>. HIDE DEF work
    <3>3. OwedInv' /\ \A u \in Thread : thread'[u].at \in Positions
      BY <3>1, <3>2, <1>p, <1>w
    <3>. QED  BY <1>3, <3>3, <1>t DEF CallHandler, tasks, lifetimes, OtherTypes
  <2>. QED  BY <2>1, <2>2
<1>4. ASSUME NEW t \in Thread, FinishAfterCancel(t)
      PROVE  OtherTypes' /\ OwedInv' /\ limit' = limit
  BY <1>4, <1>f, <1>t DEF FinishAfterCancel, tasks, lifetimes, OtherTypes
<1>5. ASSUME NEW t \in Thread, Resume(t)
      PROVE  OtherTypes' /\ OwedInv' /\ limit' = limit
  <2>1. thread' = [thread EXCEPT ![t] = Resuming(Tail(thread[t].resumes))]
    BY <1>5 DEF Resume
  <2>. QED  BY <1>5, <2>1, <1>r, <1>w, <1>t DEF Resume, lifetimes, OtherTypes
<1>6. ASSUME NEW c \in Consumer, CallNext(c)
      PROVE  OtherTypes' /\ OwedInv' /\ limit' = limit
  <2>. DEFINE work == IF c \in cancelled THEN Doing("cancel", NoHandler, <<>>) ELSE Idle
  <2>1. thread' = [thread EXCEPT ![c] = work]
    BY <1>6 DEF CallNext
  <2>2. work.at \in {"cancel", "idle"} /\ work.resumes = <<>>
    BY <1>i, <1>u
  <2>. HIDE DEF work
  <2>3. OwedInv' /\ \A u \in Thread : thread'[u].at \in Positions
    BY <2>1, <2>2, <1>c, <1>p, <1>w
  <2>. QED  BY <1>6, <2>3, <1>t DEF CallNext, lifetimes, OtherTypes
<1>7. ASSUME NEW c \in Consumer, NextLocked(c)
      PROVE  OtherTypes' /\ OwedInv' /\ limit' = limit
  <2>. DEFINE work(b, w) == IF b THEN Resuming(w) ELSE Idle
  <2>1. PICK b, w : thread' = [thread EXCEPT ![c] = work(b, w)]
    BY <1>7 DEF NextLocked
  <2>2. CASE b
    BY <2>1, <2>2, <1>c, <1>r, <1>w, <1>7, <1>t DEF NextLocked, lifetimes, OtherTypes
  <2>3. CASE ~b
    BY <2>1, <2>3, <1>c, <1>i, <1>p, <1>w, <1>7, <1>t DEF NextLocked, lifetimes, OtherTypes
  <2>. QED  BY <2>2, <2>3
<1>8. ASSUME NEW c \in Consumer, NextReturns(c)
      PROVE  OtherTypes' /\ OwedInv' /\ limit' = limit
  BY <1>8, <1>x, <1>t DEF NextReturns, state, lifetimes, OtherTypes
<1>9. ASSUME NEW c \in Consumer, NextAborts(c)
      PROVE  OtherTypes' /\ OwedInv' /\ limit' = limit
  BY <1>9, <1>x, <1>t DEF NextAborts, tasks, lifetimes, OtherTypes
<1>10. ASSUME NEW c \in Consumer, CancelTask(c)
       PROVE  OtherTypes' /\ OwedInv' /\ limit' = limit
  <2>. DEFINE work == IF consumer[c] = "idle" THEN Idle ELSE Doing("cancel", NoHandler, <<>>)
  <2>1. thread' = [thread EXCEPT ![Canceller] = work]
    BY <1>10 DEF CancelTask
  <2>2. work.at \in {"cancel", "idle"} /\ work.resumes = <<>>
    BY <1>i, <1>u
  <2>. HIDE DEF work
  <2>3. OwedInv' /\ \A u \in Thread : thread'[u].at \in Positions
    BY <2>1, <2>2, <1>c, <1>p, <1>w
  <2>. QED  BY <1>10, <2>3, <1>t DEF CancelTask, lifetimes, OtherTypes
<1>11. ASSUME NEW c \in Consumer, DropStream(c)
       PROVE  OtherTypes' /\ OwedInv' /\ limit' = limit
  <2>. DEFINE work == Doing("cancel", NoHandler, <<>>)
  <2>1. thread' = [thread EXCEPT ![c] = work]
    BY <1>11 DEF DropStream
  <2>2. work.at = "cancel" /\ work.resumes = <<>>
    BY <1>u
  <2>. HIDE DEF work
  <2>3. OwedInv' /\ \A u \in Thread : thread'[u].at \in Positions
    BY <2>1, <2>2, <1>c, <1>p, <1>w
  <2>. QED  BY <1>11, <2>3, <1>t DEF DropStream, tasks, OtherTypes
<1>12. ASSUME NEW p \in Producer, Yield(p)
       PROVE  OtherTypes' /\ OwedInv' /\ limit' = limit
  <2>. DEFINE work(b, w) == IF b THEN Resuming(w) ELSE Idle
  <2>1. PICK b, w : thread' = [thread EXCEPT ![p] = work(b, w)]
    BY <1>12 DEF Yield
  <2>2. CASE b
    BY <2>1, <2>2, <1>c, <1>r, <1>w, <1>12, <1>t DEF Yield, tasks, lifetimes, OtherTypes
  <2>3. CASE ~b
    BY <2>1, <2>3, <1>c, <1>i, <1>p, <1>w, <1>12, <1>t DEF Yield, tasks, lifetimes, OtherTypes
  <2>. QED  BY <2>2, <2>3
<1>13. ASSUME NEW p \in Producer, NEW end \in {"finished", "failed"}, Finish(p, end)
       PROVE  OtherTypes' /\ OwedInv' /\ limit' = limit
  BY <1>13, <1>c, <1>f, <1>t DEF Finish, tasks, lifetimes, OtherTypes
<1>14. ASSUME NEW p \in Producer, SetOnTermination(p)
       PROVE  OtherTypes' /\ OwedInv' /\ limit' = limit
  BY <1>14, <1>x, <1>t DEF SetOnTermination, tasks, lifetimes, OtherTypes
<1>15. CASE DropContinuation \/ Deinit
  BY <1>15, <1>x, <1>t DEF DropContinuation, Deinit, tasks, OtherTypes
<1>. QED
  BY <1>1, <1>2, <1>3, <1>4, <1>5, <1>6, <1>7, <1>8, <1>9, <1>10, <1>11, <1>12, <1>13, <1>14,
     <1>15
  DEF Next, NextStep, ThreadStep

-----------------------------------------------------------------------------
(* What a step does to the lists *)

\* A continuation that a thread owes after the step it owed before, or it is one of these.
LEMMA NewWakes ==
  ASSUME FlowTypes, NEW t \in Thread, NEW wakes, Owed[t] = <<>>,
         Owed' = [Owed EXCEPT ![t] = wakes]
  PROVE  /\ \A u \in Thread : \A i \in DOMAIN Owed'[u] :
              \/ u = t /\ i \in DOMAIN wakes /\ Owed'[u][i] = wakes[i]
              \/ u # t /\ i \in DOMAIN Owed[u] /\ Owed'[u][i] = Owed[u][i]
         /\ \A u \in Thread : \A i \in DOMAIN Owed[u] :
              u # t /\ i \in DOMAIN Owed'[u] /\ Owed'[u][i] = Owed[u][i]
         /\ \A i \in DOMAIN wakes : i \in DOMAIN Owed'[t] /\ Owed'[t][i] = wakes[i]
<1>1. Owed'[t] = wakes /\ \A u \in Thread : u # t => Owed'[u] = Owed[u]
  BY DEF FlowTypes
<1>. QED  BY <1>1

\* What the effects leave each thread and each task with, slot by slot: a slot is new, or one
\* that was there before.
LEMMA ServesFacts ==
  ASSUME FlowTypes, NEW c \in Consumer, NEW outcome \in Outcomes, Serves(c, outcome)
  PROVE  /\ c \in Thread
         /\ \A u \in Thread : \A i \in DOMAIN Owed'[u] :
              \/ u = c /\ i = 1 /\ Owed'[u][i].task = c /\ Owed'[u][i].outcome = outcome
              \/ u # c /\ i \in DOMAIN Owed[u] /\ Owed'[u][i] = Owed[u][i]
         /\ \A u \in Thread : \A i \in DOMAIN Owed[u] :
              u # c /\ i \in DOMAIN Owed'[u] /\ Owed'[u][i] = Owed[u][i]
         /\ 1 \in DOMAIN Owed'[c] /\ Owed'[c][1].task = c /\ Owed'[c][1].outcome = outcome
         /\ DOMAIN continuations = {} /\ DOMAIN continuations' = {}
         /\ consumer[c] = "entered" /\ consumer'[c] = "waiting"
         /\ \A d \in Consumer : d # c => consumer'[d] = consumer[d]
         /\ UNCHANGED <<result, received, yielded, refused>>
<1>. DEFINE w == Wakes(c, outcome)
<1>1. /\ Owed' = [Owed EXCEPT ![c] = w] /\ c \in Thread /\ Owed[c] = <<>>
      /\ continuations = <<>> /\ continuations' = <<>>
      /\ consumer[c] = "entered" /\ consumer'[c] = "waiting"
      /\ \A d \in Consumer : d # c => consumer'[d] = consumer[d]
      /\ UNCHANGED <<result, received, yielded, refused>>
  BY DEF Serves, FlowTypes, Thread
<1>2. DOMAIN w = {1} /\ w[1].task = c /\ w[1].outcome = outcome
  BY OneWake
<1>. HIDE DEF w
<1>3. /\ \A u \in Thread : \A i \in DOMAIN Owed'[u] :
           \/ u = c /\ i \in DOMAIN w /\ Owed'[u][i] = w[i]
           \/ u # c /\ i \in DOMAIN Owed[u] /\ Owed'[u][i] = Owed[u][i]
      /\ \A u \in Thread : \A i \in DOMAIN Owed[u] :
           u # c /\ i \in DOMAIN Owed'[u] /\ Owed'[u][i] = Owed[u][i]
      /\ \A i \in DOMAIN w : i \in DOMAIN Owed'[c] /\ Owed'[c][i] = w[i]
  BY <1>1, NewWakes, ZenonT(40)
<1>. QED  BY <1>1, <1>2, <1>3

\* yield() to a waiting task
LEMMA SendsFacts ==
  ASSUME FlowTypes, NEW p \in Producer, Sends(p)
  PROVE  /\ p \in Thread /\ continuations[1] \in Consumer
         /\ \A u \in Thread : \A i \in DOMAIN Owed'[u] :
              \/ u = p /\ i = 1 /\ Owed'[u][i].task = continuations[1]
                 /\ Owed'[u][i].outcome = Element(yielded + 1)
              \/ u # p /\ i \in DOMAIN Owed[u] /\ Owed'[u][i] = Owed[u][i]
         /\ \A u \in Thread : \A i \in DOMAIN Owed[u] :
              u # p /\ i \in DOMAIN Owed'[u] /\ Owed'[u][i] = Owed[u][i]
         /\ 1 \in DOMAIN Owed'[p] /\ Owed'[p][1].task = continuations[1]
         /\ Owed'[p][1].outcome = Element(yielded + 1)
         /\ Element(yielded + 1) \in Outcomes
         /\ Element(yielded + 1).value = yielded + 1 /\ Element(yielded + 1).kind = "element"
         /\ Len(continuations) \in Nat \ {0} /\ DOMAIN continuations = 1..Len(continuations)
         /\ DOMAIN continuations' = 1..(Len(continuations) - 1)
         /\ \A i \in 1..(Len(continuations) - 1) : continuations'[i] = continuations[i + 1]
         /\ DOMAIN buffer = {} /\ DOMAIN buffer' = {} /\ terminal = "no"
         /\ yielded' = yielded + 1 /\ yielded \in Nat /\ yielded + 1 \in Value
         /\ UNCHANGED <<terminal, consumer, result, received, refused>>
<1>. DEFINE w == Wakes(continuations[1], Element(yielded + 1))
<1>0. Owed' = [Owed EXCEPT ![p] = w] /\ p \in Thread /\ Owed[p] = <<>>
  BY SeqFacts DEF Sends, FlowTypes, Thread
<1>1. /\ continuations[1] \in Consumer
      /\ Len(continuations) \in Nat \ {0} /\ DOMAIN continuations = 1..Len(continuations)
      /\ DOMAIN continuations' = 1..(Len(continuations) - 1)
      /\ \A i \in 1..(Len(continuations) - 1) : continuations'[i] = continuations[i + 1]
  BY SeqFacts DEF Sends, FlowTypes, Thread
<1>2. DOMAIN w = {1} /\ w[1].task = continuations[1] /\ w[1].outcome = Element(yielded + 1)
  BY OneWake
<1>. HIDE DEF w
<1>3. /\ \A u \in Thread : \A i \in DOMAIN Owed'[u] :
           \/ u = p /\ i \in DOMAIN w /\ Owed'[u][i] = w[i]
           \/ u # p /\ i \in DOMAIN Owed[u] /\ Owed'[u][i] = Owed[u][i]
      /\ \A u \in Thread : \A i \in DOMAIN Owed[u] :
           u # p /\ i \in DOMAIN Owed'[u] /\ Owed'[u][i] = Owed[u][i]
      /\ \A i \in DOMAIN w : i \in DOMAIN Owed'[p] /\ Owed'[p][i] = w[i]
  BY <1>0, NewWakes, ZenonT(40)
<1>4. /\ DOMAIN buffer = {} /\ DOMAIN buffer' = {} /\ terminal = "no"
      /\ UNCHANGED <<terminal, consumer, result, received, refused>>
  BY DEF Sends
<1>5. yielded' = yielded + 1 /\ yielded \in Nat /\ yielded + 1 \in Value
  BY StreamAssumption DEF Sends, FlowTypes, Value
<1>6. /\ Element(yielded + 1) \in Outcomes
      /\ Element(yielded + 1).value = yielded + 1 /\ Element(yielded + 1).kind = "element"
  BY <1>5, OutcomeFacts
<1>. QED  BY <1>0, <1>1, <1>2, <1>3, <1>4, <1>5, <1>6

\* A continuation is resumed.
LEMMA ResumedFacts ==
  ASSUME FlowTypes, NEW t \in Thread, Resumed(t)
  PROVE  /\ 1 \in DOMAIN Owed[t] /\ Owed[t][1].task \in Consumer
            /\ Owed[t][1].outcome \in Outcomes
         /\ result'[Owed[t][1].task] = Owed[t][1].outcome
         /\ \A d \in Consumer : d # Owed[t][1].task => result'[d] = result[d]
         /\ \A u \in Thread : \A i \in DOMAIN Owed'[u] :
              \/ /\ u = t /\ i \in Nat \ {0} /\ i + 1 \in DOMAIN Owed[u]
                 /\ Owed'[u][i] = Owed[u][i + 1]
              \/ u # t /\ i \in DOMAIN Owed[u] /\ Owed'[u][i] = Owed[u][i]
         /\ \A u \in Thread : \A i \in DOMAIN Owed[u] :
              \/ u = t /\ i = 1
              \/ \E k \in DOMAIN Owed'[u] : Owed'[u][k] = Owed[u][i]
         /\ UNCHANGED <<continuations, buffer, terminal, consumer, received, yielded, refused>>
<1>1. Owed[t] \in Seq(Wake) /\ Owed[t] # <<>>
  BY DEF FlowTypes, Resumed
<1>2. /\ Head(Owed[t]) = Owed[t][1] /\ Owed[t][1] \in Wake /\ 1 \in DOMAIN Owed[t]
      /\ Len(Owed[t]) \in Nat \ {0} /\ DOMAIN Owed[t] = 1..Len(Owed[t])
      /\ DOMAIN Tail(Owed[t]) = 1..(Len(Owed[t]) - 1)
      /\ \A i \in 1..(Len(Owed[t]) - 1) : Tail(Owed[t])[i] = Owed[t][i + 1]
  BY <1>1, SeqFacts
<1>3. Owed'[t] = Tail(Owed[t]) /\ \A u \in Thread : u # t => Owed'[u] = Owed[u]
  BY DEF FlowTypes, Resumed
<1>4. Owed[t][1].task \in Consumer /\ Owed[t][1].outcome \in Outcomes
  BY <1>2 DEF Wake
<1>5. result' = [result EXCEPT ![Owed[t][1].task] = Owed[t][1].outcome]
  BY <1>2 DEF Resumed
<1>6. /\ result'[Owed[t][1].task] = Owed[t][1].outcome
      /\ \A d \in Consumer : d # Owed[t][1].task => result'[d] = result[d]
  BY <1>4, <1>5 DEF FlowTypes
<1>7. \A i \in DOMAIN Owed'[t] : /\ i \in Nat \ {0} /\ i + 1 \in DOMAIN Owed[t]
                                 /\ Owed'[t][i] = Owed[t][i + 1]
  BY <1>2, <1>3
<1>8. ASSUME NEW i \in DOMAIN Owed[t], i # 1
      PROVE  \E k \in DOMAIN Owed'[t] : Owed'[t][k] = Owed[t][i]
  <2>1. i - 1 \in 1..(Len(Owed[t]) - 1) /\ (i - 1) + 1 = i
    BY <1>2, <1>8
  <2>2. i - 1 \in DOMAIN Owed'[t] /\ Owed'[t][i - 1] = Owed[t][i]
    BY <1>2, <1>3, <2>1
  <2>. QED  BY <2>2
<1>9. \A u \in Thread : \A i \in DOMAIN Owed[u] :
        \/ u = t /\ i = 1
        \/ \E k \in DOMAIN Owed'[u] : Owed'[u][k] = Owed[u][i]
  BY <1>3, <1>8
<1>10. \A u \in Thread : \A i \in DOMAIN Owed'[u] :
         \/ /\ u = t /\ i \in Nat \ {0} /\ i + 1 \in DOMAIN Owed[u]
            /\ Owed'[u][i] = Owed[u][i + 1]
         \/ u # t /\ i \in DOMAIN Owed[u] /\ Owed'[u][i] = Owed[u][i]
  BY <1>3, <1>7
<1>11. UNCHANGED <<continuations, buffer, terminal, consumer, received, yielded, refused>>
  BY DEF Resumed
<1>. QED  BY <1>2, <1>4, <1>6, <1>9, <1>10, <1>11

\* finish()
LEMMA EndsFacts ==
  ASSUME FlowTypes, NEW t \in Thread, Ends(t)
  PROVE  /\ \A u \in Thread : \A i \in DOMAIN Owed'[u] :
              \/ u = t /\ i \in DOMAIN continuations /\ Owed'[u][i].task = continuations[i]
                 /\ Owed'[u][i].outcome = End(terminal')
              \/ u # t /\ i \in DOMAIN Owed[u] /\ Owed'[u][i] = Owed[u][i]
         /\ \A u \in Thread : \A i \in DOMAIN Owed[u] :
              u # t /\ i \in DOMAIN Owed'[u] /\ Owed'[u][i] = Owed[u][i]
         /\ \A i \in DOMAIN continuations :
              i \in DOMAIN Owed'[t] /\ Owed'[t][i].task = continuations[i]
         /\ DOMAIN continuations' = {} /\ terminal' # "no"
         /\ End(terminal') \in Outcomes
         /\ End(terminal').kind # "element" /\ End(terminal').value = 0
         /\ UNCHANGED <<buffer, consumer, result, received, yielded, refused>>
<1>. DEFINE w == [i \in DOMAIN continuations |->
                    [task |-> continuations[i], outcome |-> End(terminal')]]
<1>1. Owed' = [Owed EXCEPT ![t] = w] /\ Owed[t] = <<>>
  BY DEF Ends
<1>2. /\ DOMAIN w = DOMAIN continuations
      /\ \A i \in DOMAIN w : w[i].task = continuations[i] /\ w[i].outcome = End(terminal')
  OBVIOUS
<1>. HIDE DEF w
<1>3. /\ \A u \in Thread : \A i \in DOMAIN Owed'[u] :
           \/ u = t /\ i \in DOMAIN w /\ Owed'[u][i] = w[i]
           \/ u # t /\ i \in DOMAIN Owed[u] /\ Owed'[u][i] = Owed[u][i]
      /\ \A u \in Thread : \A i \in DOMAIN Owed[u] :
           u # t /\ i \in DOMAIN Owed'[u] /\ Owed'[u][i] = Owed[u][i]
      /\ \A i \in DOMAIN w : i \in DOMAIN Owed'[t] /\ Owed'[t][i] = w[i]
  BY <1>1, NewWakes, ZenonT(40)
<1>4. /\ DOMAIN continuations' = {} /\ terminal' # "no" /\ terminal' \in {"finished", "failed"}
      /\ UNCHANGED <<buffer, consumer, result, received, yielded, refused>>
  BY DEF Ends
<1>5. End(terminal') \in Outcomes /\ End(terminal').kind # "element" /\ End(terminal').value = 0
  BY <1>4, OutcomeFacts
<1>. QED  BY <1>2, <1>3, <1>4, <1>5

\* A task waits.
LEMMA SuspendsFacts ==
  ASSUME FlowTypes, NEW c \in Consumer, Suspends(c)
  PROVE  /\ Len(continuations) \in Nat /\ DOMAIN continuations = 1..Len(continuations)
         /\ DOMAIN continuations' = 1..(Len(continuations) + 1)
         /\ \A i \in 1..Len(continuations) : continuations'[i] = continuations[i]
         /\ continuations'[Len(continuations) + 1] = c
         /\ consumer[c] = "entered" /\ consumer'[c] = "waiting"
         /\ \A d \in Consumer : d # c => consumer'[d] = consumer[d]
         /\ UNCHANGED <<buffer, terminal, Owed, result, received, yielded, refused>>
BY SeqFacts, AppendFacts DEF FlowTypes, Suspends

\* A call of next() returns.
LEMMA GetsFacts ==
  ASSUME FlowTypes, NEW c \in Consumer, Gets(c)
  PROVE  /\ result[c] \in Outcomes /\ result'[c] = Nothing
         /\ consumer[c] = "waiting" /\ consumer'[c] = "idle"
         /\ \A d \in Consumer : d # c => /\ result'[d] = result[d] /\ received'[d] = received[d]
                                         /\ consumer'[d] = consumer[d]
         /\ Len(received[c]) \in Nat /\ DOMAIN received[c] = 1..Len(received[c])
         /\ DOMAIN received'[c] = 1..(Len(received[c]) + 1)
         /\ Len(received'[c]) = Len(received[c]) + 1
         /\ \A i \in 1..Len(received[c]) : received'[c][i] = received[c][i]
         /\ received'[c][Len(received[c]) + 1] = result[c]
         /\ Nothing.kind # "element" /\ Nothing.value = 0
         /\ \A d \in Consumer : \A i \in DOMAIN received'[d] :
              \/ i \in DOMAIN received[d] /\ received'[d][i] = received[d][i]
              \/ /\ d = c /\ i = Len(received[c]) + 1 /\ received'[d][i] = result[c]
                 /\ \A j \in DOMAIN received[d] : j < i
         /\ UNCHANGED <<continuations, buffer, terminal, Owed, yielded, refused>>
<1>1. result[c] \in Outcomes /\ received[c] \in Seq(Outcomes)
      /\ received'[c] = Append(received[c], result[c])
  BY DEF FlowTypes, Gets
<1>2. /\ Len(received[c]) \in Nat /\ DOMAIN received[c] = 1..Len(received[c])
      /\ DOMAIN received'[c] = 1..(Len(received[c]) + 1)
      /\ Len(received'[c]) = Len(received[c]) + 1
      /\ \A i \in 1..Len(received[c]) : received'[c][i] = received[c][i]
      /\ received'[c][Len(received[c]) + 1] = result[c]
  BY <1>1, SeqFacts, AppendFacts
<1>3. /\ result'[c] = Nothing
      /\ consumer[c] = "waiting" /\ consumer'[c] = "idle"
      /\ \A d \in Consumer : d # c => /\ result'[d] = result[d] /\ received'[d] = received[d]
                                      /\ consumer'[d] = consumer[d]
  BY DEF FlowTypes, Gets
<1>4. ASSUME NEW d \in Consumer, NEW i \in DOMAIN received'[d]
      PROVE  \/ i \in DOMAIN received[d] /\ received'[d][i] = received[d][i]
             \/ /\ d = c /\ i = Len(received[c]) + 1 /\ received'[d][i] = result[c]
                /\ \A j \in DOMAIN received[d] : j < i
  BY <1>2, <1>3
<1>. QED  BY <1>1, <1>2, <1>3, <1>4, OutcomeFacts DEF Gets

\* The value at the head of the buffer leaves it.
LEMMA TakesFacts ==
  ASSUME FlowTypes, buffer # <<>>
  PROVE  /\ Len(buffer) \in Nat \ {0} /\ DOMAIN buffer = 1..Len(buffer)
         /\ Head(buffer) = buffer[1] /\ buffer[1] \in Value
         /\ DOMAIN Tail(buffer) = 1..(Len(buffer) - 1)
         /\ \A i \in 1..(Len(buffer) - 1) : Tail(buffer)[i] = buffer[i + 1]
         /\ Tail(buffer) \in Seq(Value) /\ Len(Tail(buffer)) = Len(buffer) - 1
BY SeqFacts DEF FlowTypes

-----------------------------------------------------------------------------
(* Continuations *)

\* The continuation of a waiting task stays in one place, whatever step moves it.
LEMMA PlaceKept ==
  ASSUME FlowInv, FlowStep
  PROVE  PlaceInv'
<1>1. FlowTypes /\ QueuedOnce /\ OwedOnce /\ QueuedWaits /\ OwedWaits /\ WaitingHas
  BY DEF FlowInv, PlaceInv
<1>2. /\ \A i \in DOMAIN continuations : continuations[i] \in Consumer
      /\ DOMAIN consumer = Consumer /\ DOMAIN result = Consumer
  BY <1>1 DEF FlowTypes
<1>a. ASSUME NEW t \in Thread, NEW i \in DOMAIN Owed[t]
      PROVE  Owed[t][i].task \in Consumer /\ Owed[t][i].outcome # Nothing
  <2>1. Owed[t] \in Seq(Wake)
    BY <1>1 DEF FlowTypes
  <2>2. Owed[t][i] \in Wake
    BY <2>1
  <2>. QED  BY <2>2, OutcomeFacts DEF Wake
<1>3. CASE Stays \/ Buffers
  BY <1>1, <1>3
  DEF PlaceInv, QueuedOnce, OwedOnce, QueuedWaits, OwedWaits, WaitingHas, Stays, Buffers
<1>4. ASSUME NEW c \in Consumer, Enters(c)
      PROVE  PlaceInv'
  BY <1>1, <1>2, <1>a, <1>4
  DEF PlaceInv, QueuedOnce, OwedOnce, QueuedWaits, OwedWaits, WaitingHas, Enters
<1>5. ASSUME NEW c \in Consumer, Suspends(c)
      PROVE  PlaceInv'
  BY <1>1, <1>2, <1>a, <1>5, SuspendsFacts
  DEF PlaceInv, QueuedOnce, OwedOnce, QueuedWaits, OwedWaits, WaitingHas
<1>6. ASSUME NEW c \in Consumer, Gets(c)
      PROVE  PlaceInv'
  <2>1. QueuedOnce' /\ OwedOnce'
    BY <1>1, <1>6, GetsFacts DEF QueuedOnce, OwedOnce
  <2>2. result[c] # Nothing
    BY <1>1, <1>6, GetsFacts, OutcomeFacts
  <2>3. QueuedWaits'
    BY <1>1, <1>2, <1>6, <2>2, GetsFacts DEF QueuedWaits
  <2>4. OwedWaits'
    BY <1>1, <1>a, <1>6, <2>2, GetsFacts DEF OwedWaits
  <2>5. WaitingHas'
    BY <1>1, <1>6, GetsFacts DEF WaitingHas
  <2>. QED  BY <2>1, <2>3, <2>4, <2>5 DEF PlaceInv
<1>7. ASSUME NEW c \in Consumer, NEW outcome \in Outcomes, Serves(c, outcome)
      PROVE  PlaceInv'
  <2>1. QueuedOnce'
    BY <1>1, <1>2, <1>a, <1>7, ServesFacts DEF QueuedOnce
  <2>2. OwedOnce'
    BY <1>1, <1>2, <1>a, <1>7, ServesFacts DEF OwedOnce, OwedWaits, QueuedOnce, QueuedWaits
  <2>3. QueuedWaits'
    BY <1>1, <1>2, <1>a, <1>7, ServesFacts DEF QueuedWaits, QueuedOnce, OwedWaits
  <2>0. /\ result' = result /\ result[c] = Nothing /\ DOMAIN continuations' = {}
        /\ consumer'[c] = "waiting"
    BY <1>1, <1>7, ServesFacts DEF WaitingHas
  <2>4. OwedWaits'
    <3>. SUFFICES ASSUME NEW t \in Thread, NEW i \in DOMAIN Owed'[t]
                  PROVE  consumer'[Owed'[t][i].task] = "waiting"
                            /\ result[Owed'[t][i].task] = Nothing
      BY <2>0 DEF OwedWaits
    <3>1. CASE Owed'[t][i].task = c
      BY <2>0, <3>1
    <3>2. CASE t # c /\ i \in DOMAIN Owed[t] /\ Owed'[t][i] = Owed[t][i]
      BY <1>1, <1>a, <1>7, <3>2, ServesFacts DEF OwedWaits
    <3>. QED  BY <1>1, <1>7, <3>1, <3>2, ServesFacts
  <2>5. WaitingHas'
    BY <1>1, <1>2, <1>a, <1>7, ServesFacts DEF WaitingHas
  <2>. QED  BY <2>1, <2>2, <2>3, <2>4, <2>5 DEF PlaceInv
<1>8. ASSUME NEW t \in Thread, Resumed(t)
      PROVE  PlaceInv'
  <2>1. QueuedOnce'
    BY <1>1, <1>2, <1>a, <1>8, ResumedFacts DEF QueuedOnce
  <2>2. OwedOnce'
    BY <1>1, <1>2, <1>a, <1>8, ResumedFacts DEF OwedOnce, OwedWaits, QueuedOnce, QueuedWaits
  <2>3. QueuedWaits'
    BY <1>1, <1>2, <1>a, <1>8, ResumedFacts DEF QueuedWaits, QueuedOnce, OwedWaits
  <2>4. OwedWaits'
    BY <1>1, <1>2, <1>a, <1>8, ResumedFacts DEF OwedWaits, QueuedWaits, OwedOnce, QueuedOnce
  <2>5. WaitingHas'
    <3>. SUFFICES ASSUME NEW c \in Consumer
                  PROVE  /\ result'[c] # Nothing => consumer[c] = "waiting"
                         /\ consumer[c] = "waiting" =>
                              \/ result'[c] # Nothing
                              \/ \E i \in DOMAIN continuations : continuations[i] = c
                              \/ \E u \in Thread : \E i \in DOMAIN Owed'[u] : Owed'[u][i].task = c
      BY <1>1, <1>8, ResumedFacts DEF WaitingHas
    <3>1. CASE c = Owed[t][1].task
      BY <1>1, <1>a, <1>8, <3>1, ResumedFacts DEF OwedWaits
    <3>2. CASE c # Owed[t][1].task
      <4>1. result'[c] = result[c]
        BY <1>1, <1>8, <3>2, ResumedFacts
      <4>2. ASSUME NEW u \in Thread, NEW i \in DOMAIN Owed[u], Owed[u][i].task = c
            PROVE  \E k \in DOMAIN Owed'[u] : Owed'[u][k].task = c
        <5>1. PICK k \in DOMAIN Owed'[u] : Owed'[u][k] = Owed[u][i]
          BY <1>1, <1>8, <3>2, <4>2, ResumedFacts
        <5>. QED  BY <4>2, <5>1
      <4>. QED  BY <1>1, <4>1, <4>2 DEF WaitingHas
    <3>. QED  BY <3>1, <3>2
  <2>. QED  BY <2>1, <2>2, <2>3, <2>4, <2>5 DEF PlaceInv
<1>9. ASSUME NEW t \in Thread, Ends(t)
      PROVE  PlaceInv'
  <2>1. QueuedOnce'
    BY <1>1, <1>2, <1>a, <1>9, EndsFacts DEF QueuedOnce
  <2>2. OwedOnce'
    BY <1>1, <1>2, <1>a, <1>9, EndsFacts DEF OwedOnce, OwedWaits, QueuedOnce, QueuedWaits
  <2>3. QueuedWaits'
    BY <1>1, <1>2, <1>a, <1>9, EndsFacts DEF QueuedWaits, QueuedOnce, OwedWaits
  <2>4. OwedWaits'
    BY <1>1, <1>2, <1>a, <1>9, EndsFacts DEF OwedWaits, QueuedWaits, OwedOnce, QueuedOnce
  <2>5. WaitingHas'
    BY <1>1, <1>2, <1>a, <1>9, EndsFacts DEF WaitingHas
  <2>. QED  BY <2>1, <2>2, <2>3, <2>4, <2>5 DEF PlaceInv
<1>10. ASSUME NEW p \in Producer, Sends(p)
      PROVE  PlaceInv'
  <2>a. /\ UNCHANGED <<consumer, result>> /\ Len(continuations) \in Nat \ {0}
        /\ DOMAIN continuations = 1..Len(continuations)
        /\ DOMAIN continuations' = 1..(Len(continuations) - 1)
        /\ \A i \in 1..(Len(continuations) - 1) : continuations'[i] = continuations[i + 1]
    BY <1>1, <1>10, SendsFacts
  <2>b. \A i \in DOMAIN continuations' :
          /\ i \in Nat \ {0} /\ i + 1 \in DOMAIN continuations
          /\ continuations'[i] = continuations[i + 1]
    BY <2>a
  <2>c. 1 \in DOMAIN continuations /\ \A i \in DOMAIN continuations' : i + 1 # 1
    BY <2>a, <2>b
  <2>d. \A u \in Thread : \A i \in DOMAIN Owed'[u] :
          \/ u = p /\ i = 1 /\ Owed'[u][i].task = continuations[1]
          \/ u # p /\ i \in DOMAIN Owed[u] /\ Owed'[u][i] = Owed[u][i]
    BY <1>1, <1>10, SendsFacts
  <2>1. QueuedOnce'
    BY <1>1, <2>b DEF QueuedOnce
  <2>2. OwedOnce'
    BY <1>1, <2>c, <2>d DEF OwedOnce, OwedWaits
  <2>3. QueuedWaits'
    BY <1>1, <2>a, <2>b DEF QueuedWaits
  <2>4. OwedWaits'
    BY <1>1, <2>a, <2>b, <2>c, <2>d DEF OwedWaits, QueuedWaits, QueuedOnce
  <2>5. WaitingHas'
    <3>1. ASSUME NEW i \in DOMAIN continuations, i # 1
          PROVE  \E k \in DOMAIN continuations' : continuations'[k] = continuations[i]
      <4>1. i - 1 \in 1..(Len(continuations) - 1) /\ (i - 1) + 1 = i
        BY <2>a, <3>1
      <4>. QED  BY <2>a, <4>1
    <3>2. \A u \in Thread : \A i \in DOMAIN Owed[u] :
            i \in DOMAIN Owed'[u] /\ Owed'[u][i] = Owed[u][i]
      BY <1>1, <1>10, SendsFacts
    <3>3. p \in Thread /\ 1 \in DOMAIN Owed'[p] /\ Owed'[p][1].task = continuations[1]
      BY <1>1, <1>10, SendsFacts
    <3>. QED  BY <1>1, <2>a, <3>1, <3>2, <3>3 DEF WaitingHas
  <2>. QED  BY <2>1, <2>2, <2>3, <2>4, <2>5 DEF PlaceInv
<1>. QED
  BY <1>3, <1>4, <1>5, <1>6, <1>7, <1>8, <1>9, <1>10 DEF FlowStep

-----------------------------------------------------------------------------
(* Calls of next() *)

\* A task that has returned from n calls of next() is counted n times.
LEMMA ReturnsCounted ==
  ASSUME FlowTypes, CallsInv, NEW c \in Consumer
  PROVE  /\ Count(Returns) \in Nat /\ Len(received[c]) <= Count(Returns)
         /\ Count({d \in Consumer : consumer[d] # "idle"}) \in Nat
<1>1. Len(received[c]) \in Nat /\ DOMAIN received[c] = 1..Len(received[c])
      /\ Len(received[c]) <= MaxNexts
  <2>1. received[c] \in Seq(Outcomes)
    BY DEF FlowTypes
  <2>. QED  BY <2>1, SeqFacts, StreamAssumption DEF CallsInv
<1>2. IsFiniteSet(Consumer \X (1..MaxNexts))
  <2>1. MaxNexts \in Nat /\ IsFiniteSet(1..MaxNexts)
    BY StreamAssumption, FS_Interval
  <2>2. IsFiniteSet(Consumer)
    BY StreamAssumption
  <2>. QED  BY <2>1, <2>2, FS_Product
<1>3. IsFiniteSet(Returns)
  BY <1>2, FS_Subset DEF Returns
<1>4. IsFiniteSet({d \in Consumer : consumer[d] # "idle"})
  BY StreamAssumption, FS_Subset
<1>. DEFINE f == [i \in 1..Len(received[c]) |-> <<c, i>>]
<1>5. f \in Injection(1..Len(received[c]), Returns)
  <2>1. \A i \in 1..Len(received[c]) : <<c, i>> \in Returns
    BY <1>1, StreamAssumption DEF Returns
  <2>2. f \in [1..Len(received[c]) -> Returns]
    BY <2>1
  <2>3. \A i, j \in 1..Len(received[c]) : f[i] = f[j] => i = j
    OBVIOUS
  <2>. QED  BY <2>2, <2>3 DEF Injection, IsInjective
<1>6. Cardinality(1..Len(received[c])) = Len(received[c])
  BY <1>1, FS_Interval
<1>. HIDE DEF f
<1>7. Len(received[c]) <= Cardinality(Returns)
  BY <1>3, <1>5, <1>6, FS_Injection
<1>. QED  BY <1>3, <1>4, <1>7, FS_CardinalityType DEF Count

\* Calls of next() stay within the bound.
LEMMA CallsKept ==
  ASSUME FlowInv, FlowStep
  PROVE  CallsInv'
<1>1. FlowTypes /\ CallsInv
  BY DEF FlowInv
<1>a. \A c \in Consumer : Len(received[c]) \in Nat
  <2>. TAKE c \in Consumer
  <2>1. received[c] \in Seq(Outcomes)
    BY <1>1 DEF FlowTypes
  <2>. QED  BY <2>1, SeqFacts
<1>b. MaxNexts \in Nat
  BY StreamAssumption
<1>2. CASE UNCHANGED <<received, consumer>>
  BY <1>1, <1>2 DEF CallsInv
<1>3. ASSUME NEW c \in Consumer, Enters(c)
      PROVE  CallsInv'
  <2>1. received' = received /\ consumer'[c] = "entered"
        /\ \A d \in Consumer : d # c => consumer'[d] = consumer[d]
    BY <1>1, <1>3 DEF Enters, FlowTypes
  <2>2. Len(received[c]) < MaxNexts
    BY <1>1, <1>3, <1>a, <1>b, ReturnsCounted DEF Enters
  <2>. QED  BY <1>1, <2>1, <2>2 DEF CallsInv
<1>4. ASSUME NEW c \in Consumer, Suspends(c)
      PROVE  CallsInv'
  BY <1>1, <1>4, SuspendsFacts DEF CallsInv
<1>5. ASSUME NEW c \in Consumer, Gets(c)
      PROVE  CallsInv'
  BY <1>1, <1>a, <1>b, <1>5, GetsFacts DEF CallsInv
<1>6. ASSUME NEW c \in Consumer, NEW outcome \in Outcomes, Serves(c, outcome)
      PROVE  CallsInv'
  BY <1>1, <1>6, ServesFacts DEF CallsInv
<1>. QED
  BY <1>2, <1>3, <1>4, <1>5, <1>6 DEF FlowStep, Stays, Buffers, Resumed, Ends, Sends

-----------------------------------------------------------------------------
(* Values *)

\* The types of what is owed, given and returned
LEMMA FlowFacts ==
  ASSUME FlowTypes
  PROVE  /\ \A t \in Thread : \A i \in DOMAIN Owed[t] :
              /\ Owed[t][i].task \in Consumer /\ Owed[t][i].outcome \in Outcomes
              /\ Owed[t][i].outcome.value \in Nat
         /\ \A c \in Consumer : /\ result[c] \in Outcomes \cup {Nothing}
                                /\ result[c].value \in Nat
         /\ \A c \in Consumer : \A i \in DOMAIN received[c] :
              received[c][i] \in Outcomes /\ received[c][i].value \in Nat
         /\ \A i \in DOMAIN buffer : buffer[i] \in Value /\ buffer[i] \in Nat \ {0}
         /\ yielded \in Nat /\ 0 \notin refused /\ \A v \in refused : v \in Nat
<1>o. \A o \in Outcomes \cup {Nothing} : o.value \in Nat
  BY OutcomeFacts, StreamAssumption
<1>1. ASSUME NEW t \in Thread, NEW i \in DOMAIN Owed[t]
      PROVE  /\ Owed[t][i].task \in Consumer /\ Owed[t][i].outcome \in Outcomes
             /\ Owed[t][i].outcome.value \in Nat
  <2>1. Owed[t] \in Seq(Wake)
    BY DEF FlowTypes
  <2>2. Owed[t][i] \in Wake
    BY <2>1
  <2>3. Owed[t][i].task \in Consumer /\ Owed[t][i].outcome \in Outcomes
    BY <2>2 DEF Wake
  <2>. QED  BY <1>o, <2>3
<1>2. ASSUME NEW c \in Consumer
      PROVE  result[c] \in Outcomes \cup {Nothing} /\ result[c].value \in Nat
  BY <1>o DEF FlowTypes
<1>3. ASSUME NEW c \in Consumer, NEW i \in DOMAIN received[c]
      PROVE  received[c][i] \in Outcomes /\ received[c][i].value \in Nat
  <2>1. received[c] \in Seq(Outcomes)
    BY DEF FlowTypes
  <2>2. received[c][i] \in Outcomes
    BY <2>1
  <2>. QED  BY <1>o, <2>2
<1>4. \A i \in DOMAIN buffer : buffer[i] \in Value
  BY DEF FlowTypes
<1>5. yielded \in Nat /\ refused \subseteq Value /\ \A v \in Value : v \in Nat \ {0}
  BY StreamAssumption DEF FlowTypes, Value
<1>6. 0 \notin refused /\ \A v \in refused : v \in Nat
  BY <1>5
<1>. QED  BY <1>1, <1>2, <1>3, <1>4, <1>5, <1>6

\* What next() gives a task, if a value is there
LEMMA ServesValue ==
  ASSUME FlowTypes, NEW c \in Consumer, NEW outcome \in Outcomes, Serves(c, outcome)
  PROVE  \/ /\ outcome = Element(buffer[1]) /\ outcome.kind = "element"
            /\ outcome.value = buffer[1] /\ 1 \in DOMAIN buffer /\ buffer # <<>>
            /\ \A i \in DOMAIN buffer' :
                 i \in Nat \ {0} /\ i + 1 \in DOMAIN buffer /\ buffer'[i] = buffer[i + 1]
            /\ \A i \in DOMAIN buffer :
                 i # 1 => i - 1 \in DOMAIN buffer' /\ buffer'[i - 1] = buffer[i]
            /\ terminal' = terminal
         \/ /\ outcome.kind # "element" /\ outcome.value = 0
            /\ buffer' = buffer /\ DOMAIN buffer = {} /\ buffer = <<>> /\ terminal' # "no"
<1>1. CASE buffer # <<>>
  <2>1. /\ outcome = Element(Head(buffer)) /\ buffer' = Tail(buffer) /\ terminal' = terminal
        /\ Len(buffer) \in Nat \ {0} /\ DOMAIN buffer = 1..Len(buffer)
        /\ Head(buffer) = buffer[1] /\ buffer[1] \in Value
        /\ DOMAIN Tail(buffer) = 1..(Len(buffer) - 1)
        /\ \A i \in 1..(Len(buffer) - 1) : Tail(buffer)[i] = buffer[i + 1]
    BY <1>1, TakesFacts DEF Serves
  <2>2. outcome.kind = "element" /\ outcome.value = buffer[1] /\ 1 \in DOMAIN buffer
    BY <2>1, OutcomeFacts
  <2>3. \A i \in DOMAIN buffer' :
          i \in Nat \ {0} /\ i + 1 \in DOMAIN buffer /\ buffer'[i] = buffer[i + 1]
    BY <2>1
  <2>4. ASSUME NEW i \in DOMAIN buffer, i # 1
        PROVE  i - 1 \in DOMAIN buffer' /\ buffer'[i - 1] = buffer[i]
    <3>1. i - 1 \in 1..(Len(buffer) - 1) /\ (i - 1) + 1 = i
      BY <2>1, <2>4
    <3>. QED  BY <2>1, <3>1
  <2>. QED  BY <1>1, <2>1, <2>2, <2>3, <2>4
<1>2. CASE buffer = <<>>
  <2>1. outcome = End(terminal) /\ terminal \in {"no", "finished", "failed"} /\ buffer' = buffer
        /\ terminal' # "no" /\ DOMAIN buffer = {}
    BY <1>2 DEF Serves, FlowTypes
  <2>. QED  BY <1>2, <2>1, OutcomeFacts
<1>. QED  BY <1>1, <1>2

\* What yield() does to the buffer: the value is appended, replaces the oldest or is refused.
Grows ==
  /\ terminal = "no" /\ refused' = refused
  /\ \A i \in DOMAIN buffer' :
       \/ i \in DOMAIN buffer /\ buffer'[i] = buffer[i]
       \/ i = Len(buffer) + 1 /\ buffer'[i] = yielded + 1
  /\ \A i \in DOMAIN buffer : i \in DOMAIN buffer' /\ buffer'[i] = buffer[i]
  /\ Len(buffer) + 1 \in DOMAIN buffer' /\ buffer'[Len(buffer) + 1] = yielded + 1

Shifts ==
  /\ terminal = "no" /\ refused' = refused \cup {buffer[1]} /\ 1 \in DOMAIN buffer
  /\ \A i \in DOMAIN buffer' :
       \/ /\ i \in Nat /\ i >= 1 /\ i < Len(buffer) /\ i + 1 \in DOMAIN buffer
          /\ buffer'[i] = buffer[i + 1]
       \/ i = Len(buffer) /\ buffer'[i] = yielded + 1
  /\ \A i \in DOMAIN buffer :
       i # 1 => i - 1 \in DOMAIN buffer' /\ buffer'[i - 1] = buffer[i]
  /\ Len(buffer) \in DOMAIN buffer' /\ buffer'[Len(buffer)] = yielded + 1

Refuses == buffer' = buffer /\ refused' = refused \cup {yielded + 1}

\* One of these happens.
LEMMA BuffersFacts ==
  ASSUME FlowTypes, Buffers
  PROVE  /\ yielded' = yielded + 1 /\ yielded + 1 \in Value /\ yielded \in Nat
         /\ Len(buffer) \in Nat /\ DOMAIN buffer = 1..Len(buffer)
         /\ Grows \/ Shifts \/ Refuses
         /\ UNCHANGED <<continuations, terminal, Owed, consumer, result, received>>
<1>1. /\ yielded' = yielded + 1 /\ yielded + 1 \in Value /\ yielded \in Nat
      /\ Len(buffer) \in Nat /\ DOMAIN buffer = 1..Len(buffer)
      /\ UNCHANGED <<continuations, terminal, Owed, consumer, result, received>>
  BY StreamAssumption, SeqFacts DEF Buffers, FlowTypes, Value
<1>2. CASE /\ terminal = "no" /\ refused' = refused /\ buffer' = Append(buffer, yielded + 1)
  <2>1. /\ DOMAIN buffer' = 1..(Len(buffer) + 1)
        /\ buffer'[Len(buffer) + 1] = yielded + 1
        /\ \A i \in 1..Len(buffer) : buffer'[i] = buffer[i]
    BY <1>1, <1>2, AppendFacts DEF FlowTypes
  <2>2. \A i \in DOMAIN buffer' :
          \/ i \in DOMAIN buffer /\ buffer'[i] = buffer[i]
          \/ i = Len(buffer) + 1 /\ buffer'[i] = yielded + 1
    BY <1>1, <2>1
  <2>3. Len(buffer) + 1 \in DOMAIN buffer' /\ DOMAIN buffer \subseteq DOMAIN buffer'
    BY <1>1, <2>1
  <2>. QED  BY <1>1, <1>2, <2>1, <2>2, <2>3 DEF Grows
<1>3. CASE /\ terminal = "no" /\ buffer # <<>> /\ refused' = refused \cup {Head(buffer)}
           /\ buffer' = Append(Tail(buffer), yielded + 1)
  <2>1. /\ Len(buffer) \in Nat \ {0} /\ Head(buffer) = buffer[1] /\ 1 \in DOMAIN buffer
        /\ \A i \in 1..(Len(buffer) - 1) : Tail(buffer)[i] = buffer[i + 1]
        /\ Tail(buffer) \in Seq(Value) /\ Len(Tail(buffer)) = Len(buffer) - 1
    BY <1>1, <1>3, TakesFacts
  <2>2. /\ DOMAIN buffer' = 1..(Len(Tail(buffer)) + 1)
        /\ buffer'[Len(Tail(buffer)) + 1] = yielded + 1
        /\ \A i \in 1..Len(Tail(buffer)) : buffer'[i] = Tail(buffer)[i]
    BY <1>1, <1>3, <2>1, AppendFacts
  <2>3. /\ DOMAIN buffer' = 1..Len(buffer) /\ buffer'[Len(buffer)] = yielded + 1
        /\ \A i \in 1..(Len(buffer) - 1) : buffer'[i] = buffer[i + 1]
    BY <2>1, <2>2
  <2>4. \A i \in DOMAIN buffer' :
          \/ /\ i \in Nat /\ i >= 1 /\ i < Len(buffer) /\ i + 1 \in DOMAIN buffer
             /\ buffer'[i] = buffer[i + 1]
          \/ i = Len(buffer) /\ buffer'[i] = yielded + 1
    BY <1>1, <2>1, <2>3
  <2>5. ASSUME NEW i \in DOMAIN buffer, i # 1
        PROVE  i - 1 \in DOMAIN buffer' /\ buffer'[i - 1] = buffer[i]
    <3>1. i - 1 \in 1..(Len(buffer) - 1) /\ (i - 1) + 1 = i
      BY <1>1, <2>5
    <3>. QED  BY <1>1, <2>3, <3>1
  <2>6. Len(buffer) \in DOMAIN buffer'
    BY <2>1, <2>3
  <2>. QED  BY <1>1, <1>3, <2>1, <2>3, <2>4, <2>5, <2>6 DEF Shifts
<1>4. CASE buffer' = buffer /\ refused' = refused \cup {yielded + 1}
  BY <1>1, <1>4 DEF Refuses
<1>. QED  BY <1>2, <1>3, <1>4 DEF Buffers

\* The value that yield() sends was nowhere before.
LEMMA SentIsNew ==
  ASSUME FlowTypes, Known, NEW p \in Producer, Sends(p)
  PROVE  /\ \A t \in Thread : \A i \in DOMAIN Owed[t] :
              Owed[t][i].outcome # Element(yielded + 1)
         /\ \A c \in Consumer : result[c] # Element(yielded + 1)
         /\ \A c \in Consumer : \A i \in DOMAIN received[c] :
              received[c][i] # Element(yielded + 1)
         /\ yielded + 1 \notin refused
<1>1. Element(yielded + 1).value = yielded + 1 /\ yielded \in Nat
  BY SendsFacts
<1>2. ASSUME NEW v \in Nat, v <= yielded
      PROVE  v # yielded + 1
  BY <1>1, <1>2
<1>. QED  BY <1>1, <1>2, FlowFacts DEF Known

\* The parts of the invariant that the values need
LEMMA FlowParts ==
  ASSUME FlowInv
  PROVE  /\ FlowTypes /\ WaitersHaveNothing /\ OwedWaits
         /\ Sorted /\ BufferKnown /\ OwedEarlier /\ ResultEarlier /\ ReceivedEarlier
         /\ Known /\ OwedUnique /\ OwedNotResult /\ OwedNotReceived
         /\ ResultUnique /\ ResultNotReceived /\ ReceivedUnique
         /\ KeptInv /\ EndInv /\ OwedAfter /\ ResultAfter /\ ReceivedAfter
BY DEF FlowInv, PlaceInv, BufferInv, GivenInv, OrderInv

\* The buffer stays sorted.
LEMMA SortedKept ==
  ASSUME FlowInv, FlowStep
  PROVE  Sorted'
<1>1. FlowTypes /\ Sorted /\ BufferKnown
  BY FlowParts
<1>2. CASE buffer' = buffer
  BY <1>1, <1>2 DEF Sorted
<1>3. CASE Buffers
  <2>1. yielded \in Nat /\ Len(buffer) \in Nat /\ DOMAIN buffer = 1..Len(buffer)
    BY <1>1, <1>3, BuffersFacts
  <2>2. \A i \in DOMAIN buffer : buffer[i] \in Nat /\ buffer[i] < yielded + 1
    BY <1>1, <2>1, FlowFacts DEF BufferKnown
  <2>3. CASE Grows
    BY <1>1, <2>1, <2>2, <2>3 DEF Grows, Sorted
  <2>4. CASE Shifts
    BY <1>1, <2>1, <2>2, <2>4 DEF Shifts, Sorted
  <2>. QED  BY <1>1, <1>3, <2>3, <2>4, BuffersFacts DEF Refuses, Sorted
<1>4. ASSUME NEW c \in Consumer, NEW outcome \in Outcomes, Serves(c, outcome)
      PROVE  Sorted'
  BY <1>1, <1>4, FlowFacts, ServesFacts, ServesValue DEF Sorted
<1>. QED  BY <1>2, <1>3, <1>4 DEF FlowStep, Stays, Enters, Suspends, Resumed, Ends, Sends, Gets

\* The buffer holds no refused value.
LEMMA BufferKnownKept ==
  ASSUME FlowInv, FlowStep
  PROVE  BufferKnown'
<1>1. FlowTypes /\ BufferKnown /\ Sorted /\ Known
  BY FlowParts
<1>2. CASE UNCHANGED <<buffer, yielded, refused>>
  BY <1>1, <1>2 DEF BufferKnown
<1>3. CASE Buffers
  <2>1. /\ yielded \in Nat /\ yielded' = yielded + 1 /\ yielded + 1 \notin refused
        /\ Len(buffer) \in Nat /\ DOMAIN buffer = 1..Len(buffer)
    BY <1>1, <1>3, BuffersFacts, FlowFacts DEF Known
  <2>2. \A i \in DOMAIN buffer : /\ buffer[i] \in Nat /\ buffer[i] < yielded + 1
                                 /\ buffer[i] \notin refused
    BY <1>1, <2>1, FlowFacts DEF BufferKnown
  <2>3. CASE Grows
    BY <1>1, <2>1, <2>2, <2>3 DEF Grows, BufferKnown
  <2>4. CASE Shifts
    <3>1. \A i \in DOMAIN buffer : i # 1 => buffer[1] # buffer[i]
      BY <1>1, <2>1, <2>2, <2>4 DEF Shifts, Sorted
    <3>. QED  BY <1>1, <2>1, <2>2, <2>4, <3>1 DEF Shifts, BufferKnown
  <2>5. CASE Refuses
    BY <1>1, <2>1, <2>2, <2>5 DEF Refuses, BufferKnown
  <2>. QED  BY <1>1, <1>3, <2>3, <2>4, <2>5, BuffersFacts
<1>4. ASSUME NEW c \in Consumer, NEW outcome \in Outcomes, Serves(c, outcome)
      PROVE  BufferKnown'
  BY <1>1, <1>4, FlowFacts, ServesFacts, ServesValue DEF BufferKnown, Sorted
<1>5. ASSUME NEW p \in Producer, Sends(p)
      PROVE  BufferKnown'
  BY <1>1, <1>5, FlowFacts, SendsFacts DEF BufferKnown
<1>. QED  BY <1>2, <1>3, <1>4, <1>5 DEF FlowStep, Stays, Enters, Suspends, Resumed, Ends, Gets

\* A value that a thread holds for a task is earlier than the buffer.
LEMMA OwedEarlierKept ==
  ASSUME FlowInv, FlowStep
  PROVE  OwedEarlier'
<1>1. FlowTypes /\ OwedEarlier /\ Sorted /\ Known
  BY FlowParts
<1>2. CASE UNCHANGED <<buffer, Owed>>
  BY <1>1, <1>2 DEF OwedEarlier
<1>3. CASE Buffers
  BY <1>1, <1>3, FlowFacts, BuffersFacts DEF OwedEarlier, Known, Grows, Shifts, Refuses
<1>4. ASSUME NEW c \in Consumer, NEW outcome \in Outcomes, Serves(c, outcome)
      PROVE  OwedEarlier'
  BY <1>1, <1>4, FlowFacts, ServesFacts, ServesValue DEF OwedEarlier, Sorted
<1>5. ASSUME NEW t \in Thread, Resumed(t)
      PROVE  OwedEarlier'
  BY <1>1, <1>5, FlowFacts, ResumedFacts DEF OwedEarlier
<1>6. ASSUME NEW t \in Thread, Ends(t)
      PROVE  OwedEarlier'
  BY <1>1, <1>6, FlowFacts, EndsFacts DEF OwedEarlier
<1>7. ASSUME NEW p \in Producer, Sends(p)
      PROVE  OwedEarlier'
  BY <1>1, <1>7, FlowFacts, SendsFacts DEF OwedEarlier
<1>. QED  BY <1>2, <1>3, <1>4, <1>5, <1>6, <1>7 DEF FlowStep, Stays, Enters, Suspends, Gets

\* A value given to a task is earlier than the buffer.
LEMMA ResultEarlierKept ==
  ASSUME FlowInv, FlowStep
  PROVE  ResultEarlier'
<1>1. FlowTypes /\ ResultEarlier /\ OwedEarlier /\ Known
  BY FlowParts
<1>2. CASE UNCHANGED <<buffer, result>>
  BY <1>1, <1>2 DEF ResultEarlier
<1>3. CASE Buffers
  BY <1>1, <1>3, FlowFacts, BuffersFacts DEF ResultEarlier, Known, Grows, Shifts, Refuses
<1>4. ASSUME NEW c \in Consumer, NEW outcome \in Outcomes, Serves(c, outcome)
      PROVE  ResultEarlier'
  BY <1>1, <1>4, FlowFacts, ServesFacts, ServesValue DEF ResultEarlier
<1>5. ASSUME NEW t \in Thread, Resumed(t)
      PROVE  ResultEarlier'
  BY <1>1, <1>5, FlowFacts, ResumedFacts DEF ResultEarlier, OwedEarlier
<1>6. ASSUME NEW c \in Consumer, Gets(c)
      PROVE  ResultEarlier'
  BY <1>1, <1>6, FlowFacts, GetsFacts DEF ResultEarlier
<1>. QED  BY <1>2, <1>3, <1>4, <1>5, <1>6 DEF FlowStep, Stays, Enters, Suspends, Ends, Sends

\* A value returned by next() is earlier than the buffer.
LEMMA ReceivedEarlierKept ==
  ASSUME FlowInv, FlowStep
  PROVE  ReceivedEarlier'
<1>1. FlowTypes /\ ReceivedEarlier /\ ResultEarlier /\ Known
  BY FlowParts
<1>2. CASE UNCHANGED <<buffer, received>>
  BY <1>1, <1>2 DEF ReceivedEarlier
<1>3. CASE Buffers
  <2>1. /\ received' = received /\ yielded \in Nat
        /\ \A i \in DOMAIN buffer' :
             \/ buffer'[i] = yielded + 1
             \/ \E j \in DOMAIN buffer : buffer'[i] = buffer[j]
    BY <1>1, <1>3, BuffersFacts DEF Grows, Shifts, Refuses
  <2>2. \A c \in Consumer : \A j \in DOMAIN received[c] : received[c][j].value < yielded + 1
    BY <1>1, <2>1, FlowFacts DEF Known
  <2>. QED  BY <1>1, <2>1, <2>2 DEF ReceivedEarlier
<1>4. ASSUME NEW c \in Consumer, NEW outcome \in Outcomes, Serves(c, outcome)
      PROVE  ReceivedEarlier'
  BY <1>1, <1>4, FlowFacts, ServesFacts, ServesValue DEF ReceivedEarlier
<1>5. ASSUME NEW c \in Consumer, Gets(c)
      PROVE  ReceivedEarlier'
  BY <1>1, <1>5, FlowFacts, GetsFacts DEF ReceivedEarlier, ResultEarlier
<1>. QED  BY <1>2, <1>3, <1>4, <1>5 DEF FlowStep, Stays, Enters, Suspends, Resumed, Ends, Sends

\* What is given was yielded and not refused.
LEMMA KnownKept ==
  ASSUME FlowInv, FlowStep
  PROVE  Known'
<1>1. FlowTypes /\ Known /\ BufferKnown /\ OwedEarlier /\ ResultEarlier /\ ReceivedEarlier
  BY FlowParts
<1>2. CASE UNCHANGED <<refused, yielded, Owed, result, received>>
  BY <1>1, <1>2 DEF Known
<1>3. CASE Buffers
  <2>1. ASSUME NEW v \in Nat, v <= yielded, v \notin refused,
               \A i \in DOMAIN buffer : v < buffer[i]
        PROVE  v <= yielded' /\ v \notin refused'
    <3>1. v < yielded + 1 /\ \A i \in DOMAIN buffer : v # buffer[i]
      BY <1>1, <2>1, FlowFacts
    <3>. QED  BY <1>1, <2>1, <3>1, <1>3, BuffersFacts DEF Grows, Shifts, Refuses
  <2>2. ASSUME NEW v \in refused'
        PROVE  v <= yielded'
    <3>1. v \in refused \/ v = yielded + 1 \/ (1 \in DOMAIN buffer /\ v = buffer[1])
      BY <1>1, <1>3, <2>2, BuffersFacts DEF Grows, Shifts, Refuses
    <3>2. /\ \A w \in refused : w \in Nat /\ w <= yielded
          /\ \A i \in DOMAIN buffer : buffer[i] \in Nat /\ buffer[i] <= yielded
          /\ yielded' = yielded + 1 /\ yielded \in Nat
      BY <1>1, <1>3, FlowFacts, BuffersFacts DEF Known, BufferKnown
    <3>. QED  BY <3>1, <3>2
  <2>3. UNCHANGED <<Owed, result, received>>
    BY <1>1, <1>3, BuffersFacts
  <2>4. ASSUME NEW t \in Thread, NEW i \in DOMAIN Owed[t]
        PROVE  Owed[t][i].outcome.value <= yielded' /\ Owed[t][i].outcome.value \notin refused'
    BY <1>1, <2>1, FlowFacts DEF Known, OwedEarlier
  <2>5. ASSUME NEW c \in Consumer
        PROVE  result[c].value <= yielded' /\ result[c].value \notin refused'
    BY <1>1, <2>1, FlowFacts DEF Known, ResultEarlier
  <2>6. ASSUME NEW c \in Consumer, NEW i \in DOMAIN received[c]
        PROVE  received[c][i].value <= yielded' /\ received[c][i].value \notin refused'
    BY <1>1, <2>1, FlowFacts DEF Known, ReceivedEarlier
  <2>. QED  BY <2>2, <2>3, <2>4, <2>5, <2>6 DEF Known
<1>4. ASSUME NEW c \in Consumer, NEW outcome \in Outcomes, Serves(c, outcome)
      PROVE  Known'
  BY <1>1, <1>4, FlowFacts, ServesFacts, ServesValue DEF Known, BufferKnown
<1>5. ASSUME NEW t \in Thread, Resumed(t)
      PROVE  Known'
  BY <1>1, <1>5, FlowFacts, ResumedFacts DEF Known
<1>6. ASSUME NEW t \in Thread, Ends(t)
      PROVE  Known'
  BY <1>1, <1>6, FlowFacts, EndsFacts DEF Known
<1>7. ASSUME NEW p \in Producer, Sends(p)
      PROVE  Known'
  <2>1. yielded' = yielded + 1 /\ yielded \in Nat /\ UNCHANGED <<result, received, refused>>
    BY <1>1, <1>7, SendsFacts
  <2>2. \A v \in refused : v \in Nat /\ v <= yielded
    BY <1>1, FlowFacts DEF Known
  <2>3. ASSUME NEW v \in Nat, v <= yielded
        PROVE  v <= yielded'
    BY <2>1, <2>3
  <2>4. yielded + 1 \notin refused
    BY <2>1, <2>2
  <2>5. ASSUME NEW u \in Thread, NEW i \in DOMAIN Owed'[u]
        PROVE  Owed'[u][i].outcome.value <= yielded' /\ Owed'[u][i].outcome.value \notin refused
    <3>1. CASE Owed'[u][i].outcome = Element(yielded + 1)
      <4>1. Owed'[u][i].outcome.value = yielded + 1
        BY <1>1, <1>7, <3>1, SendsFacts
      <4>. QED  BY <2>1, <2>4, <4>1
    <3>2. CASE i \in DOMAIN Owed[u] /\ Owed'[u][i] = Owed[u][i]
      BY <1>1, <2>3, <3>2, FlowFacts DEF Known
    <3>. QED  BY <1>1, <1>7, <3>1, <3>2, SendsFacts
  <2>. QED  BY <1>1, <2>1, <2>2, <2>3, <2>5, FlowFacts DEF Known
<1>8. ASSUME NEW c \in Consumer, Gets(c)
      PROVE  Known'
  BY <1>1, <1>8, FlowFacts, GetsFacts DEF Known
<1>. QED  BY <1>2, <1>3, <1>4, <1>5, <1>6, <1>7, <1>8 DEF FlowStep, Stays, Enters, Suspends

\* No two threads hold the same value.
LEMMA OwedUniqueKept ==
  ASSUME FlowInv, FlowStep
  PROVE  OwedUnique'
<1>1. FlowTypes /\ OwedUnique /\ OwedEarlier /\ Known
  BY FlowParts
<1>2. CASE Owed' = Owed
  BY <1>1, <1>2 DEF OwedUnique
<1>3. ASSUME NEW c \in Consumer, NEW outcome \in Outcomes, Serves(c, outcome)
      PROVE  OwedUnique'
  BY <1>1, <1>3, FlowFacts, ServesFacts, ServesValue DEF OwedUnique, OwedEarlier
<1>4. ASSUME NEW t \in Thread, Resumed(t)
      PROVE  OwedUnique'
  <2>1. \A u \in Thread : \A i \in DOMAIN Owed'[u] :
          \/ u = t /\ i \in Nat /\ i + 1 \in DOMAIN Owed[u] /\ Owed'[u][i] = Owed[u][i + 1]
          \/ u # t /\ i \in DOMAIN Owed[u] /\ Owed'[u][i] = Owed[u][i]
    BY <1>1, <1>4, ResumedFacts
  <2>2. \A i, j \in Nat : i + 1 = j + 1 => i = j
    OBVIOUS
  <2>. QED  BY <1>1, <2>1, <2>2 DEF OwedUnique
<1>5. ASSUME NEW t \in Thread, Ends(t)
      PROVE  OwedUnique'
  BY <1>1, <1>5, FlowFacts, EndsFacts DEF OwedUnique
<1>6. ASSUME NEW p \in Producer, Sends(p)
      PROVE  OwedUnique'
  <2>1. \A u \in Thread : \A i \in DOMAIN Owed[u] : Owed[u][i].outcome # Element(yielded + 1)
    BY <1>1, <1>6, SentIsNew
  <2>2. \A u \in Thread : \A i \in DOMAIN Owed'[u] :
          \/ u = p /\ i = 1 /\ Owed'[u][i].outcome = Element(yielded + 1)
          \/ u # p /\ i \in DOMAIN Owed[u] /\ Owed'[u][i] = Owed[u][i]
    BY <1>1, <1>6, SendsFacts
  <2>. QED  BY <1>1, <2>1, <2>2 DEF OwedUnique
<1>. QED  BY <1>2, <1>3, <1>4, <1>5, <1>6 DEF FlowStep, Stays, Enters, Suspends, Buffers, Gets

\* A value that a thread holds was not given to a task.
LEMMA OwedNotResultKept ==
  ASSUME FlowInv, FlowStep
  PROVE  OwedNotResult'
<1>1. FlowTypes /\ OwedNotResult /\ ResultEarlier /\ OwedUnique /\ Known
  BY FlowParts
<1>2. CASE UNCHANGED <<Owed, result>>
  BY <1>1, <1>2 DEF OwedNotResult
<1>3. ASSUME NEW c \in Consumer, NEW outcome \in Outcomes, Serves(c, outcome)
      PROVE  OwedNotResult'
  BY <1>1, <1>3, FlowFacts, ServesFacts, ServesValue DEF OwedNotResult, ResultEarlier
<1>4. ASSUME NEW t \in Thread, Resumed(t)
      PROVE  OwedNotResult'
  BY <1>1, <1>4, FlowFacts, ResumedFacts DEF OwedNotResult, OwedUnique
<1>5. ASSUME NEW t \in Thread, Ends(t)
      PROVE  OwedNotResult'
  BY <1>1, <1>5, FlowFacts, EndsFacts DEF OwedNotResult
<1>6. ASSUME NEW p \in Producer, Sends(p)
      PROVE  OwedNotResult'
  BY <1>1, <1>6, SendsFacts, SentIsNew DEF OwedNotResult
<1>7. ASSUME NEW c \in Consumer, Gets(c)
      PROVE  OwedNotResult'
  BY <1>1, <1>7, FlowFacts, GetsFacts DEF OwedNotResult
<1>. QED  BY <1>2, <1>3, <1>4, <1>5, <1>6, <1>7 DEF FlowStep, Stays, Enters, Suspends, Buffers

\* A value that a thread holds was not returned.
LEMMA OwedNotReceivedKept ==
  ASSUME FlowInv, FlowStep
  PROVE  OwedNotReceived'
<1>1. FlowTypes /\ OwedNotReceived /\ ReceivedEarlier /\ OwedNotResult /\ Known
  BY FlowParts
<1>2. CASE UNCHANGED <<Owed, received>>
  BY <1>1, <1>2 DEF OwedNotReceived
<1>3. ASSUME NEW c \in Consumer, NEW outcome \in Outcomes, Serves(c, outcome)
      PROVE  OwedNotReceived'
  BY <1>1, <1>3, FlowFacts, ServesFacts, ServesValue DEF OwedNotReceived, ReceivedEarlier
<1>4. ASSUME NEW t \in Thread, Resumed(t)
      PROVE  OwedNotReceived'
  BY <1>1, <1>4, FlowFacts, ResumedFacts DEF OwedNotReceived
<1>5. ASSUME NEW t \in Thread, Ends(t)
      PROVE  OwedNotReceived'
  BY <1>1, <1>5, FlowFacts, EndsFacts DEF OwedNotReceived
<1>6. ASSUME NEW p \in Producer, Sends(p)
      PROVE  OwedNotReceived'
  BY <1>1, <1>6, SendsFacts, SentIsNew DEF OwedNotReceived
<1>7. ASSUME NEW c \in Consumer, Gets(c)
      PROVE  OwedNotReceived'
  BY <1>1, <1>7, FlowFacts, GetsFacts DEF OwedNotReceived, OwedNotResult
<1>. QED  BY <1>2, <1>3, <1>4, <1>5, <1>6, <1>7 DEF FlowStep, Stays, Enters, Suspends, Buffers

\* No two tasks are given the same value.
LEMMA ResultUniqueKept ==
  ASSUME FlowInv, FlowStep
  PROVE  ResultUnique'
<1>1. FlowTypes /\ ResultUnique /\ OwedNotResult
  BY FlowParts
<1>2. CASE result' = result
  BY <1>1, <1>2 DEF ResultUnique
<1>3. ASSUME NEW t \in Thread, Resumed(t)
      PROVE  ResultUnique'
  BY <1>1, <1>3, FlowFacts, ResumedFacts DEF ResultUnique, OwedNotResult
<1>4. ASSUME NEW c \in Consumer, Gets(c)
      PROVE  ResultUnique'
  BY <1>1, <1>4, FlowFacts, GetsFacts DEF ResultUnique
<1>. QED  BY <1>2, <1>3, <1>4 DEF FlowStep, Stays, Enters, Suspends, Buffers, Serves, Ends, Sends

\* A value just given was not returned before.
LEMMA ResultNotReceivedKept ==
  ASSUME FlowInv, FlowStep
  PROVE  ResultNotReceived'
<1>1. FlowTypes /\ ResultNotReceived /\ OwedNotReceived /\ ResultUnique
  BY FlowParts
<1>2. CASE UNCHANGED <<result, received>>
  BY <1>1, <1>2 DEF ResultNotReceived
<1>3. ASSUME NEW t \in Thread, Resumed(t)
      PROVE  ResultNotReceived'
  BY <1>1, <1>3, FlowFacts, ResumedFacts DEF ResultNotReceived, OwedNotReceived
<1>4. ASSUME NEW c \in Consumer, Gets(c)
      PROVE  ResultNotReceived'
  BY <1>1, <1>4, FlowFacts, GetsFacts DEF ResultNotReceived, ResultUnique
<1>. QED  BY <1>2, <1>3, <1>4 DEF FlowStep, Stays, Enters, Suspends, Buffers, Serves, Ends, Sends

\* No value is returned twice.
LEMMA ReceivedUniqueKept ==
  ASSUME FlowInv, FlowStep
  PROVE  ReceivedUnique'
<1>1. FlowTypes /\ ReceivedUnique /\ ResultNotReceived
  BY FlowParts
<1>2. CASE received' = received
  BY <1>1, <1>2 DEF ReceivedUnique
<1>3. ASSUME NEW c \in Consumer, Gets(c)
      PROVE  ReceivedUnique'
  BY <1>1, <1>3, FlowFacts, GetsFacts DEF ReceivedUnique, ResultNotReceived
<1>. QED  BY <1>2, <1>3 DEF FlowStep, Stays, Enters, Suspends, Buffers, Serves, Resumed, Ends,
             Sends

\* The end comes after the values.
LEMMA EndInvKept ==
  ASSUME FlowInv, FlowStep
  PROVE  EndInv'
<1>1. FlowTypes /\ EndInv /\ WaitersHaveNothing
  BY FlowParts
<1>2. CASE UNCHANGED <<terminal, buffer, Owed, result, received>>
  BY <1>1, <1>2 DEF EndInv, MoreToCome
<1>3. CASE Buffers
  BY <1>1, <1>3, FlowFacts, BuffersFacts DEF EndInv, MoreToCome, Grows, Shifts, Refuses
<1>4. ASSUME NEW c \in Consumer, NEW outcome \in Outcomes, Serves(c, outcome)
      PROVE  EndInv'
  BY <1>1, <1>4, FlowFacts, ServesFacts, ServesValue DEF EndInv, MoreToCome
<1>5. ASSUME NEW t \in Thread, Resumed(t)
      PROVE  EndInv'
  BY <1>1, <1>5, FlowFacts, ResumedFacts DEF EndInv, MoreToCome
<1>6. ASSUME NEW t \in Thread, Ends(t)
      PROVE  EndInv'
  BY <1>1, <1>6, FlowFacts, EndsFacts DEF EndInv, MoreToCome, WaitersHaveNothing
<1>7. ASSUME NEW p \in Producer, Sends(p)
      PROVE  EndInv'
  <2>1. /\ \A u \in Thread : \A i \in DOMAIN Owed[u] : Owed[u][i].outcome.kind = "element"
        /\ \A c \in Consumer : result[c] = Nothing \/ result[c].kind = "element"
        /\ \A c \in Consumer : \A i \in DOMAIN received[c] : received[c][i].kind = "element"
    BY <1>1, <1>7, SendsFacts DEF EndInv, MoreToCome
  <2>2. ASSUME NEW u \in Thread, NEW i \in DOMAIN Owed'[u]
        PROVE  Owed'[u][i].outcome.kind = "element"
    <3>1. CASE Owed'[u][i].outcome = Element(yielded + 1)
      BY <3>1 DEF Element
    <3>2. CASE i \in DOMAIN Owed[u] /\ Owed'[u][i] = Owed[u][i]
      BY <2>1, <3>2
    <3>. QED  BY <1>1, <1>7, <3>1, <3>2, SendsFacts
  <2>3. UNCHANGED <<result, received>>
    BY <1>1, <1>7, SendsFacts
  <2>. QED  BY <2>1, <2>2, <2>3 DEF EndInv
<1>8. ASSUME NEW c \in Consumer, Gets(c)
      PROVE  EndInv'
  <2>. SUFFICES ASSUME MoreToCome
                PROVE  /\ \A u \in Thread : \A i \in DOMAIN Owed[u] :
                            Owed[u][i].outcome.kind = "element"
                       /\ \A d \in Consumer : result'[d] = Nothing \/ result'[d].kind = "element"
                       /\ \A d \in Consumer : \A i \in DOMAIN received'[d] :
                            received'[d][i].kind = "element"
    BY <1>1, <1>8, GetsFacts DEF EndInv, MoreToCome
  <2>1. /\ \A u \in Thread : \A i \in DOMAIN Owed[u] : Owed[u][i].outcome.kind = "element"
        /\ \A d \in Consumer : result[d] = Nothing \/ result[d].kind = "element"
        /\ \A d \in Consumer : \A i \in DOMAIN received[d] : received[d][i].kind = "element"
    BY <1>1 DEF EndInv
  <2>2. result[c] # Nothing /\ result'[c] = Nothing
    BY <1>1, <1>8, GetsFacts, OutcomeFacts
  <2>3. \A d \in Consumer : d # c => result'[d] = result[d]
    BY <1>1, <1>8, GetsFacts
  <2>4. \A d \in Consumer : \A i \in DOMAIN received'[d] :
          \/ i \in DOMAIN received[d] /\ received'[d][i] = received[d][i]
          \/ received'[d][i] = result[c]
    BY <1>1, <1>8, GetsFacts
  <2>. QED  BY <2>1, <2>2, <2>3, <2>4
<1>. QED  BY <1>2, <1>3, <1>4, <1>5, <1>6, <1>7, <1>8 DEF FlowStep, Stays, Enters, Suspends

\* What a thread holds for a task comes after what the task has received.
LEMMA OwedAfterKept ==
  ASSUME FlowInv, FlowStep
  PROVE  OwedAfter'
<1>1. FlowTypes /\ OwedAfter /\ EndInv /\ ReceivedEarlier /\ Known /\ OwedWaits
  BY FlowParts
<1>2. CASE UNCHANGED <<Owed, received>>
  BY <1>1, <1>2 DEF OwedAfter
<1>3. ASSUME NEW c \in Consumer, NEW outcome \in Outcomes, Serves(c, outcome)
      PROVE  OwedAfter'
  BY <1>1, <1>3, FlowFacts, ServesFacts, ServesValue DEF OwedAfter, EndInv, MoreToCome,
     ReceivedEarlier
<1>4. ASSUME NEW t \in Thread, Resumed(t)
      PROVE  OwedAfter'
  BY <1>1, <1>4, FlowFacts, ResumedFacts DEF OwedAfter
<1>5. ASSUME NEW t \in Thread, Ends(t)
      PROVE  OwedAfter'
  BY <1>1, <1>5, FlowFacts, EndsFacts DEF OwedAfter
<1>6. ASSUME NEW p \in Producer, Sends(p)
      PROVE  OwedAfter'
  BY <1>1, <1>6, FlowFacts, SendsFacts DEF OwedAfter, EndInv, MoreToCome, Known
<1>7. ASSUME NEW c \in Consumer, Gets(c)
      PROVE  OwedAfter'
  <2>1. ASSUME NEW u \in Thread, NEW i \in DOMAIN Owed[u]
        PROVE  Owed[u][i].task # c
    <3>1. result[Owed[u][i].task] = Nothing /\ result[c] # Nothing
      BY <1>1, <1>7, GetsFacts, OutcomeFacts DEF OwedWaits
    <3>. QED  BY <3>1
  <2>2. Owed' = Owed /\ \A d \in Consumer : d # c => received'[d] = received[d]
    BY <1>1, <1>7, GetsFacts
  <2>. QED  BY <1>1, <2>1, <2>2 DEF OwedAfter
<1>. QED  BY <1>2, <1>3, <1>4, <1>5, <1>6, <1>7 DEF FlowStep, Stays, Enters, Suspends, Buffers

\* What a task is given comes after what it has received.
LEMMA ResultAfterKept ==
  ASSUME FlowInv, FlowStep
  PROVE  ResultAfter'
<1>1. FlowTypes /\ ResultAfter /\ OwedAfter
  BY FlowParts
<1>2. CASE UNCHANGED <<result, received>>
  BY <1>1, <1>2 DEF ResultAfter
<1>3. ASSUME NEW t \in Thread, Resumed(t)
      PROVE  ResultAfter'
  BY <1>1, <1>3, FlowFacts, ResumedFacts DEF ResultAfter, OwedAfter
<1>4. ASSUME NEW c \in Consumer, Gets(c)
      PROVE  ResultAfter'
  BY <1>1, <1>4, FlowFacts, GetsFacts DEF ResultAfter
<1>. QED  BY <1>2, <1>3, <1>4 DEF FlowStep, Stays, Enters, Suspends, Buffers, Serves, Ends, Sends

\* A task receives values in order.
LEMMA ReceivedAfterKept ==
  ASSUME FlowInv, FlowStep
  PROVE  ReceivedAfter'
<1>1. FlowTypes /\ ReceivedAfter /\ ResultAfter
  BY FlowParts
<1>2. CASE received' = received
  BY <1>1, <1>2 DEF ReceivedAfter
<1>3. ASSUME NEW c \in Consumer, Gets(c)
      PROVE  ReceivedAfter'
  <2>1. ASSUME NEW d \in Consumer, d # c
        PROVE  received'[d] = received[d]
    BY <1>1, <1>3, <2>1, GetsFacts
  <2>2. ASSUME NEW i \in DOMAIN received'[c], NEW j \in DOMAIN received'[c],
               i < j, received'[c][j].kind = "element"
        PROVE  received'[c][i].kind = "element" /\ received'[c][i].value < received'[c][j].value
    <3>1. /\ DOMAIN received[c] = 1..Len(received[c]) /\ Len(received[c]) \in Nat
          /\ DOMAIN received'[c] = 1..(Len(received[c]) + 1)
          /\ \A k \in 1..Len(received[c]) : received'[c][k] = received[c][k]
          /\ received'[c][Len(received[c]) + 1] = result[c]
      BY <1>1, <1>3, GetsFacts
    <3>2. i \in DOMAIN received[c] /\ received'[c][i] = received[c][i]
      BY <2>2, <3>1
    <3>3. CASE j \in DOMAIN received[c]
      BY <1>1, <2>2, <3>1, <3>2, <3>3 DEF ReceivedAfter
    <3>4. CASE j = Len(received[c]) + 1
      BY <1>1, <2>2, <3>1, <3>2, <3>4 DEF ResultAfter
    <3>. QED  BY <3>1, <3>3, <3>4
  <2>. QED  BY <1>1, <2>1, <2>2 DEF ReceivedAfter
<1>. QED  BY <1>2, <1>3 DEF FlowStep, Stays, Enters, Suspends, Buffers, Serves, Resumed, Ends,
             Sends

\* No value is lost.
LEMMA KeptKept ==
  ASSUME FlowInv, FlowStep
  PROVE  KeptInv'
<1>1. FlowTypes /\ KeptInv /\ OwedWaits
  BY FlowParts
<1>2. CASE UNCHANGED <<refused, yielded, buffer, Owed, result, received>>
  BY <1>1, <1>2 DEF KeptInv, Kept
<1>3. CASE Buffers
  <2>1. /\ yielded' = yielded + 1 /\ yielded \in Nat
        /\ UNCHANGED <<Owed, result, received>> /\ (Grows \/ Shifts \/ Refuses)
    BY <1>1, <1>3, BuffersFacts
  <2>2. ASSUME NEW v, v = yielded + 1
        PROVE  Kept(v)'
    BY <2>1, <2>2 DEF Kept, Grows, Shifts, Refuses
  <2>3. ASSUME NEW v, Kept(v)
        PROVE  Kept(v)'
    <3>1. CASE v \in refused
      BY <2>1, <3>1 DEF Kept, Grows, Shifts, Refuses
    <3>2. ASSUME NEW i \in DOMAIN buffer, buffer[i] = v
          PROVE  Kept(v)'
      <4>1. CASE Grows
        BY <3>2, <4>1 DEF Kept, Grows
      <4>2. CASE Shifts
        BY <3>2, <4>2 DEF Kept, Shifts
      <4>3. CASE Refuses
        BY <3>2, <4>3 DEF Kept, Refuses
      <4>. QED  BY <2>1, <4>1, <4>2, <4>3
    <3>. QED  BY <2>1, <2>3, <3>1, <3>2 DEF Kept
  <2>4. \A v \in 1..(yielded + 1) : v \in 1..yielded \/ v = yielded + 1
    BY <2>1
  <2>. QED  BY <1>1, <2>1, <2>2, <2>3, <2>4 DEF KeptInv
<1>4. ASSUME NEW c \in Consumer, NEW outcome \in Outcomes, Serves(c, outcome)
      PROVE  KeptInv'
  <2>1. /\ UNCHANGED <<result, received, yielded, refused>> /\ c \in Thread
        /\ \A u \in Thread : \A i \in DOMAIN Owed[u] :
             i \in DOMAIN Owed'[u] /\ Owed'[u][i] = Owed[u][i]
        /\ 1 \in DOMAIN Owed'[c] /\ Owed'[c][1].outcome = outcome
    BY <1>1, <1>4, ServesFacts
  <2>2. ASSUME NEW i \in DOMAIN buffer
        PROVE  \/ outcome = Element(buffer[i])
               \/ \E j \in DOMAIN buffer' : buffer'[j] = buffer[i]
    BY <1>1, <1>4, ServesValue
  <2>3. ASSUME NEW v, Kept(v)
        PROVE  Kept(v)'
    <3>1. ASSUME NEW i \in DOMAIN buffer, buffer[i] = v
          PROVE  Kept(v)'
      BY <2>1, <2>2, <3>1 DEF Kept
    <3>2. ASSUME NEW u \in Thread, NEW i \in DOMAIN Owed[u], Owed[u][i].outcome = Element(v)
          PROVE  Kept(v)'
      BY <2>1, <3>2 DEF Kept
    <3>. QED  BY <2>1, <2>3, <3>1, <3>2 DEF Kept
  <2>. QED  BY <1>1, <2>1, <2>3 DEF KeptInv
<1>5. ASSUME NEW t \in Thread, Resumed(t)
      PROVE  KeptInv'
  <2>1. /\ UNCHANGED <<buffer, received, yielded, refused>>
        /\ \A u \in Thread : \A i \in DOMAIN Owed[u] :
             \/ u = t /\ i = 1
             \/ \E k \in DOMAIN Owed'[u] : Owed'[u][k] = Owed[u][i]
        /\ 1 \in DOMAIN Owed[t] /\ Owed[t][1].task \in Consumer
        /\ result'[Owed[t][1].task] = Owed[t][1].outcome
        /\ \A d \in Consumer : d # Owed[t][1].task => result'[d] = result[d]
    BY <1>1, <1>5, ResumedFacts
  <2>2. result[Owed[t][1].task] = Nothing
    BY <1>1, <2>1 DEF OwedWaits
  <2>3. ASSUME NEW v \in 1..yielded, Kept(v)
        PROVE  Kept(v)'
    <3>1. ASSUME NEW u \in Thread, NEW i \in DOMAIN Owed[u], Owed[u][i].outcome = Element(v)
          PROVE  Kept(v)'
      <4>1. CASE u = t /\ i = 1
        BY <2>1, <3>1, <4>1 DEF Kept
      <4>2. CASE \E k \in DOMAIN Owed'[u] : Owed'[u][k] = Owed[u][i]
        BY <3>1, <4>2 DEF Kept
      <4>. QED  BY <2>1, <4>1, <4>2
    <3>2. ASSUME NEW d \in Consumer, result[d] = Element(v)
          PROVE  Kept(v)'
      <4>1. d # Owed[t][1].task
        BY <2>2, <3>2 DEF Element, Nothing
      <4>. QED  BY <2>1, <3>2, <4>1 DEF Kept
    <3>. QED  BY <2>1, <2>3, <3>1, <3>2 DEF Kept
  <2>. QED  BY <1>1, <2>1, <2>3 DEF KeptInv
<1>6. ASSUME NEW t \in Thread, Ends(t)
      PROVE  KeptInv'
  <2>1. /\ UNCHANGED <<buffer, result, received, yielded, refused>>
        /\ \A u \in Thread : \A i \in DOMAIN Owed[u] :
             i \in DOMAIN Owed'[u] /\ Owed'[u][i] = Owed[u][i]
    BY <1>1, <1>6, EndsFacts
  <2>2. ASSUME NEW v, NEW u \in Thread, NEW i \in DOMAIN Owed[u], Owed[u][i].outcome = Element(v)
        PROVE  Kept(v)'
    BY <2>1, <2>2 DEF Kept
  <2>. QED  BY <1>1, <2>1, <2>2 DEF KeptInv, Kept
<1>7. ASSUME NEW p \in Producer, Sends(p)
      PROVE  KeptInv'
  <2>1. /\ UNCHANGED <<result, received, refused>> /\ DOMAIN buffer = {} /\ p \in Thread
        /\ yielded' = yielded + 1 /\ yielded \in Nat
        /\ \A u \in Thread : \A i \in DOMAIN Owed[u] :
             i \in DOMAIN Owed'[u] /\ Owed'[u][i] = Owed[u][i]
        /\ 1 \in DOMAIN Owed'[p] /\ Owed'[p][1].outcome = Element(yielded + 1)
    BY <1>1, <1>7, SendsFacts
  <2>2. ASSUME NEW v, NEW u \in Thread, NEW i \in DOMAIN Owed[u], Owed[u][i].outcome = Element(v)
        PROVE  Kept(v)'
    BY <2>1, <2>2 DEF Kept
  <2>3. ASSUME NEW v, Kept(v)
        PROVE  Kept(v)'
    BY <2>1, <2>2, <2>3 DEF Kept
  <2>4. ASSUME NEW v, v = yielded + 1
        PROVE  Kept(v)'
    BY <2>1, <2>4 DEF Kept
  <2>5. \A v \in 1..(yielded + 1) : v \in 1..yielded \/ v = yielded + 1
    BY <2>1
  <2>. QED  BY <1>1, <2>1, <2>3, <2>4, <2>5 DEF KeptInv
<1>8. ASSUME NEW c \in Consumer, Gets(c)
      PROVE  KeptInv'
  <2>1. /\ UNCHANGED <<buffer, Owed, yielded, refused>>
        /\ \A d \in Consumer : d # c => result'[d] = result[d] /\ received'[d] = received[d]
        /\ DOMAIN received[c] = 1..Len(received[c]) /\ Len(received[c]) \in Nat
        /\ DOMAIN received'[c] = 1..(Len(received[c]) + 1)
        /\ \A i \in 1..Len(received[c]) : received'[c][i] = received[c][i]
        /\ received'[c][Len(received[c]) + 1] = result[c]
    BY <1>1, <1>8, GetsFacts
  <2>2. /\ Len(received[c]) + 1 \in DOMAIN received'[c]
        /\ \A d \in Consumer : \A i \in DOMAIN received[d] :
             i \in DOMAIN received'[d] /\ received'[d][i] = received[d][i]
    BY <2>1
  <2>3. ASSUME NEW v, Kept(v)
        PROVE  Kept(v)'
    <3>1. ASSUME NEW d \in Consumer, result[d] = Element(v)
          PROVE  Kept(v)'
      BY <2>1, <2>2, <3>1 DEF Kept
    <3>2. ASSUME NEW d \in Consumer, NEW i \in DOMAIN received[d], received[d][i] = Element(v)
          PROVE  Kept(v)'
      BY <2>2, <3>2 DEF Kept
    <3>. QED  BY <2>1, <2>3, <3>1, <3>2 DEF Kept
  <2>. QED  BY <1>1, <2>1, <2>3 DEF KeptInv
<1>. QED  BY <1>2, <1>3, <1>4, <1>5, <1>6, <1>7, <1>8 DEF FlowStep, Stays, Enters, Suspends

-----------------------------------------------------------------------------
(* The invariant *)

\* At first nothing was yielded and no task waits.
LEMMA FlowInit ==
  ASSUME Init, HandlerInv, WaitersHaveNothing
  PROVE  FlowInv
<1>1. /\ \A t \in Thread : Owed[t] = <<>> /\ thread[t] = Idle
      /\ Owed \in [Thread -> Seq(Wake)]
  BY DEF Init, Owed, Idle, Doing
<1>2. continuations = <<>> /\ buffer = <<>> /\ DOMAIN continuations = {} /\ DOMAIN buffer = {}
  BY DEF Init
<1>3. \A c \in Consumer : /\ consumer[c] = "idle" /\ result[c] = Nothing /\ received[c] = <<>>
                          /\ DOMAIN received[c] = {}
  BY DEF Init
<1>4. yielded = 0 /\ refused = {} /\ terminal = "no"
  BY DEF Init
<1>5. FlowTypes
  <2>1. received \in [Consumer -> Seq(Outcomes)] /\ DOMAIN thread = Thread
    BY DEF Init
  <2>2. limit \in Policy /\ consumer \in [Consumer -> {"idle", "entered", "waiting"}]
        /\ result \in [Consumer -> Outcomes \cup {Nothing}]
    BY DEF Init
  <2>. QED  BY <1>1, <1>2, <1>4, <2>1, <2>2, StreamAssumption DEF FlowTypes
<1>6. OtherTypes /\ OwedInv
  BY <1>1, WorkFacts DEF Init, OtherTypes, OwedInv, Positions
<1>7. PlaceInv
  BY <1>1, <1>2, <1>3
  DEF PlaceInv, QueuedOnce, OwedOnce, QueuedWaits, OwedWaits, WaitingHas
<1>8. CallsInv
  BY <1>3, StreamAssumption DEF CallsInv
<1>9. BufferInv
  BY <1>2 DEF BufferInv, Sorted, BufferKnown, OwedEarlier, ResultEarlier, ReceivedEarlier
<1>10. GivenInv
  BY <1>1, <1>3, <1>4, OutcomeFacts
  DEF GivenInv, Known, OwedUnique, OwedNotResult, OwedNotReceived, ResultUnique,
     ResultNotReceived,
      ReceivedUnique
<1>11. KeptInv
  BY <1>4 DEF KeptInv
<1>12. EndInv /\ OrderInv
  BY <1>1, <1>3, OutcomeFacts DEF EndInv, OrderInv, OwedAfter, ResultAfter, ReceivedAfter
<1>. QED  BY <1>5, <1>6, <1>7, <1>8, <1>9, <1>10, <1>11, <1>12 DEF FlowInv

\* The invariant is inductive, given that of the handlers and that waiters have nothing.
LEMMA FlowKept ==
  ASSUME FlowInv, [Next]_vars, HandlerInv', WaitersHaveNothing'
  PROVE  FlowInv'
<1>1. FlowStep
  BY StepFlows
<1>2. DOMAIN thread' = Thread
  BY DEF HandlerInv, HandlerTypes, Domains
<1>3. OtherTypes' /\ OwedInv' /\ limit' = limit
  BY <1>2, OtherTypesKept
<1>4. FlowTypes' /\ PlaceInv' /\ CallsInv' /\ KeptInv' /\ EndInv'
  BY <1>1, <1>2, <1>3, FlowTypesKept, PlaceKept, CallsKept, KeptKept, EndInvKept
<1>5. BufferInv'
  BY <1>1, SortedKept, BufferKnownKept, OwedEarlierKept, ResultEarlierKept, ReceivedEarlierKept
  DEF BufferInv
<1>6. GivenInv'
  BY <1>1, KnownKept, OwedUniqueKept, OwedNotResultKept, OwedNotReceivedKept, ResultUniqueKept,
     ResultNotReceivedKept, ReceivedUniqueKept
  DEF GivenInv
<1>7. OrderInv'
  BY <1>1, OwedAfterKept, ResultAfterKept, ReceivedAfterKept DEF OrderInv
<1>. QED  BY <1>3, <1>4, <1>5, <1>6, <1>7 DEF FlowInv

\* The invariant holds.
LEMMA FlowInvHolds == Spec => []FlowInv
<1>1. Init /\ HandlerInv /\ WaitersHaveNothing => FlowInv
  BY FlowInit
<1>2. FlowInv /\ [Next]_vars /\ HandlerInv' /\ WaitersHaveNothing' => FlowInv'
  BY FlowKept
<1>. QED  BY <1>1, <1>2, HandlerInvHolds, StreamWaiters, PTL DEF Spec

\* The types are those of the module.
LEMMA FlowTypeOK == FlowInv => TypeOK
<1>. SUFFICES ASSUME FlowInv
              PROVE  TypeOK
  OBVIOUS
<1>1. FlowTypes /\ OtherTypes /\ HandlerTypes
  BY DEF FlowInv, HandlerInv
<1>2. HandlersSet \subseteq Handler
  BY <1>1, SetAreHandlers DEF HandlerTypes
<1>3. \A t \in Thread : thread[t].resumes \in Seq(Wake)
  BY <1>1 DEF FlowTypes, Owed
<1>4. \A c \in Consumer : received[c] \in Seq(Outcomes)
  BY <1>1 DEF FlowTypes
<1>. QED  BY <1>1, <1>2, <1>3, <1>4 DEF TypeOK, FlowTypes, OtherTypes, HandlerTypes, Positions

\* Every variable of the stream keeps its type, and the buffer its limit.
THEOREM StreamTypes == Spec => []TypeOK
BY FlowTypeOK, FlowInvHolds, PTL

\* A task gets values in the order in which they were yielded, and none after the end.
THEOREM StreamOrder == Spec => []DeliveredInOrder
<1>1. FlowInv => DeliveredInOrder
  <2>. SUFFICES ASSUME FlowInv
                PROVE  DeliveredInOrder
    OBVIOUS
  <2>1. Sorted /\ ReceivedEarlier /\ ReceivedAfter
    BY FlowParts
  <2>2. \A r \in Returns : r[1] \in Consumer /\ r[2] \in DOMAIN received[r[1]]
    BY DEF Returns
  <2>. QED  BY <2>1, <2>2 DEF DeliveredInOrder, Sorted, ReceivedEarlier, ReceivedAfter
<1>. QED  BY <1>1, FlowInvHolds, PTL

\* A set without two elements has at most one.
LEMMA CountOne ==
  ASSUME NEW S, \A x, y \in S : x = y
  PROVE  Count(S) = IF S = {} THEN 0 ELSE 1
<1>1. CASE S = {}
  BY <1>1, FS_EmptySet DEF Count
<1>2. CASE S # {}
  <2>1. PICK x : S = {x}
    BY <1>2
  <2>. QED  BY <1>2, <2>1, FS_Singleton DEF Count
<1>. QED  BY <1>1, <1>2

\* The bounds of Resumes and Returns leave none out: a thread owes a task at most one
\* continuation, and next() is called at most MaxNexts times.
LEMMA ResumesAreOwed ==
  ASSUME FlowInv
  PROVE  /\ \A t \in Thread : \A i \in DOMAIN Owed[t] : <<t, i>> \in Resumes
         /\ \A r \in Resumes : /\ r = <<r[1], r[2]>> /\ r[1] \in Thread
                               /\ r[2] \in DOMAIN Owed[r[1]]
         /\ \A t \in Thread : thread[t].resumes = Owed[t]
<1>1. FlowTypes /\ OwedOnce
  BY DEF FlowInv, PlaceInv
<1>2. \A t \in Thread : thread[t].resumes = Owed[t]
  BY DEF Owed
<1>3. ASSUME NEW t \in Thread, NEW i \in DOMAIN Owed[t]
      PROVE  i \in 1..Cardinality(Consumer)
  <2>1. Len(Owed[t]) \in Nat /\ DOMAIN Owed[t] = 1..Len(Owed[t])
    <3>1. Owed[t] \in Seq(Wake)
      BY <1>1 DEF FlowTypes
    <3>. QED  BY <3>1, SeqFacts
  <2>. DEFINE f == [k \in 1..Len(Owed[t]) |-> Owed[t][k].task]
  <2>2. f \in [1..Len(Owed[t]) -> Consumer]
    BY <1>1, <2>1, FlowFacts
  <2>3. \A j, k \in 1..Len(Owed[t]) : f[j] = f[k] => j = k
    BY <1>1, <2>1 DEF OwedOnce
  <2>. HIDE DEF f
  <2>4. f \in Injection(1..Len(Owed[t]), Consumer)
    BY <2>2, <2>3 DEF Injection, IsInjective
  <2>5. Cardinality(1..Len(Owed[t])) = Len(Owed[t])
    BY <2>1, FS_Interval
  <2>6. IsFiniteSet(Consumer) /\ Cardinality(Consumer) \in Nat
    BY StreamAssumption, FS_CardinalityType
  <2>7. Len(Owed[t]) <= Cardinality(Consumer)
    BY <2>4, <2>5, <2>6, FS_Injection
  <2>. QED  BY <2>1, <2>6, <2>7
<1>4. \A t \in Thread : \A i \in DOMAIN Owed[t] : <<t, i>> \in Resumes
  BY <1>2, <1>3 DEF Resumes
<1>5. \A r \in Resumes : /\ r = <<r[1], r[2]>> /\ r[1] \in Thread
                         /\ r[2] \in DOMAIN Owed[r[1]]
  BY <1>2 DEF Resumes
<1>. QED  BY <1>2, <1>4, <1>5

\* What next() has returned is within the bound of Returns.
LEMMA ReturnsAreReceived ==
  ASSUME FlowInv
  PROVE  /\ \A c \in Consumer : \A i \in DOMAIN received[c] : <<c, i>> \in Returns
         /\ \A r \in Returns : /\ r = <<r[1], r[2]>> /\ r[1] \in Consumer
                               /\ r[2] \in DOMAIN received[r[1]]
<1>1. FlowTypes /\ CallsInv
  BY DEF FlowInv
<1>2. ASSUME NEW c \in Consumer, NEW i \in DOMAIN received[c]
      PROVE  i \in 1..MaxNexts
  <2>1. received[c] \in Seq(Outcomes)
    BY <1>1 DEF FlowTypes
  <2>2. Len(received[c]) \in Nat /\ DOMAIN received[c] = 1..Len(received[c])
    BY <2>1, SeqFacts
  <2>. QED  BY <1>1, <2>2, StreamAssumption DEF CallsInv
<1>. QED  BY <1>2 DEF Returns

\* The continuation of every suspended task is in one place, and no other continuation is.
THEOREM StreamContinuations == Spec => []ContinuationsAccountedFor
<1>1. FlowInv => ContinuationsAccountedFor
  <2>. SUFFICES ASSUME FlowInv, NEW c \in Consumer
                PROVE  Count({i \in DOMAIN continuations : continuations[i] = c})
                         + Count({r \in Resumes : thread[r[1]].resumes[r[2]].task = c})
                         + Count({d \in {c} : result[d] # Nothing})
                       = IF consumer[c] = "waiting" THEN 1 ELSE 0
    BY DEF ContinuationsAccountedFor
  <2>. DEFINE queued == {i \in DOMAIN continuations : continuations[i] = c}
              owed == {r \in Resumes : thread[r[1]].resumes[r[2]].task = c}
              given == {d \in {c} : result[d] # Nothing}
  <2>1. QueuedOnce /\ OwedOnce /\ QueuedWaits /\ OwedWaits /\ WaitingHas
    BY DEF FlowInv, PlaceInv
  <2>2. /\ \A r \in owed : /\ r = <<r[1], r[2]>> /\ r[1] \in Thread
                           /\ r[2] \in DOMAIN Owed[r[1]] /\ Owed[r[1]][r[2]].task = c
        /\ \A t \in Thread : \A i \in DOMAIN Owed[t] : Owed[t][i].task = c => <<t, i>> \in owed
    BY ResumesAreOwed
  <2>3. /\ \A i \in queued : i \in DOMAIN continuations /\ continuations[i] = c
        /\ \A i \in DOMAIN continuations : continuations[i] = c => i \in queued
        /\ given # {} <=> result[c] # Nothing
        /\ \A x, y \in given : x = y
    OBVIOUS
  <2>. HIDE DEF queued, owed, given
  <2>4. \A x, y \in queued : x = y
    BY <2>1, <2>3 DEF QueuedOnce
  <2>5. \A x, y \in owed : x = y
    <3>. SUFFICES ASSUME NEW x \in owed, NEW y \in owed
                  PROVE  x = y
      OBVIOUS
    <3>1. x[1] = y[1] /\ x[2] = y[2]
      BY <2>1, <2>2 DEF OwedOnce
    <3>2. x = <<x[1], x[2]>> /\ y = <<y[1], y[2]>>
      BY <2>2
    <3>. QED  BY <3>1, <3>2
  <2>6. queued # {} => consumer[c] = "waiting" /\ given = {} /\ owed = {}
    BY <2>1, <2>2, <2>3 DEF QueuedWaits, OwedWaits
  <2>7. owed # {} => consumer[c] = "waiting" /\ given = {}
    BY <2>1, <2>2, <2>3 DEF OwedWaits
  <2>8. /\ given # {} => consumer[c] = "waiting"
        /\ consumer[c] = "waiting" => queued # {} \/ owed # {} \/ given # {}
    BY <2>1, <2>2, <2>3 DEF WaitingHas
  <2>9. /\ Count(queued) = IF queued = {} THEN 0 ELSE 1
        /\ Count(owed) = IF owed = {} THEN 0 ELSE 1
        /\ Count(given) = IF given = {} THEN 0 ELSE 1
    BY <2>3, <2>4, <2>5, CountOne
  <2>10. Count(queued) + Count(owed) + Count(given) = IF consumer[c] = "waiting" THEN 1 ELSE 0
    BY <2>6, <2>7, <2>8, <2>9
  <2>. QED  BY <2>10 DEF queued, owed, given
<1>. QED  BY <1>1, FlowInvHolds, PTL

\* Every value that was yielded is in one place: none is lost and none is delivered twice.
THEOREM StreamValues == Spec => []ValuesAccountedFor
<1>1. FlowInv => ValuesAccountedFor
  <2>. SUFFICES ASSUME FlowInv, NEW v \in Value
                PROVE  Count({i \in DOMAIN buffer : buffer[i] = v})
                         + Count({r \in Resumes :
                                    thread[r[1]].resumes[r[2]].outcome = Element(v)})
                         + Count({c \in Consumer : result[c] = Element(v)})
                         + Count({r \in Returns : received[r[1]][r[2]] = Element(v)})
                         + Count({v} \cap refused)
                       = IF v <= yielded THEN 1 ELSE 0
    BY FlowTypeOK DEF ValuesAccountedFor
  <2>. DEFINE buffered == {i \in DOMAIN buffer : buffer[i] = v}
              owed == {r \in Resumes : thread[r[1]].resumes[r[2]].outcome = Element(v)}
              given == {c \in Consumer : result[c] = Element(v)}
              returned == {r \in Returns : received[r[1]][r[2]] = Element(v)}
              dropped == {v} \cap refused
  <2>1. /\ Sorted /\ BufferKnown /\ OwedEarlier /\ ResultEarlier /\ ReceivedEarlier
        /\ Known /\ OwedUnique /\ OwedNotResult /\ OwedNotReceived
        /\ ResultUnique /\ ResultNotReceived /\ ReceivedUnique /\ KeptInv /\ FlowTypes
    BY FlowParts
  <2>2. /\ \A r \in owed : /\ r = <<r[1], r[2]>> /\ r[1] \in Thread
                           /\ r[2] \in DOMAIN Owed[r[1]] /\ Owed[r[1]][r[2]].outcome = Element(v)
        /\ \A t \in Thread : \A i \in DOMAIN Owed[t] :
             Owed[t][i].outcome = Element(v) => <<t, i>> \in owed
    BY ResumesAreOwed
  <2>3. /\ \A r \in returned : /\ r = <<r[1], r[2]>> /\ r[1] \in Consumer
                               /\ r[2] \in DOMAIN received[r[1]]
                               /\ received[r[1]][r[2]] = Element(v)
        /\ \A c \in Consumer : \A i \in DOMAIN received[c] :
             received[c][i] = Element(v) => <<c, i>> \in returned
    BY ReturnsAreReceived
  <2>4. /\ \A i \in buffered : i \in DOMAIN buffer /\ buffer[i] = v
        /\ \A i \in DOMAIN buffer : buffer[i] = v => i \in buffered
        /\ \A c \in given : c \in Consumer /\ result[c] = Element(v)
        /\ \A c \in Consumer : result[c] = Element(v) => c \in given
        /\ dropped # {} <=> v \in refused
        /\ \A x, y \in dropped : x = y
    OBVIOUS
  <2>. HIDE DEF buffered, owed, given, returned, dropped
  <2>5. /\ Element(v).kind = "element" /\ Element(v).value = v
        /\ v \in Nat \ {0} /\ yielded \in Nat
    BY <2>1, OutcomeFacts, FlowFacts, StreamAssumption DEF Value
  <2>6. \A x, y \in buffered : x = y
    <3>. SUFFICES ASSUME NEW x \in buffered, NEW y \in buffered, x # y
                  PROVE  FALSE
      OBVIOUS
    <3>1. x \in Nat /\ y \in Nat
      <4>1. DOMAIN buffer = 1..Len(buffer) /\ Len(buffer) \in Nat
        BY <2>1, SeqFacts DEF FlowTypes
      <4>. QED  BY <2>4, <4>1
    <3>2. x < y \/ y < x
      BY <3>1
    <3>3. v < v
      BY <2>1, <2>4, <3>2 DEF Sorted
    <3>. QED  BY <2>5, <3>3
  <2>7. \A x, y \in owed : x = y
    <3>. SUFFICES ASSUME NEW x \in owed, NEW y \in owed
                  PROVE  x = y
      OBVIOUS
    <3>1. x[1] = y[1] /\ x[2] = y[2]
      BY <2>1, <2>2, <2>5 DEF OwedUnique
    <3>2. x = <<x[1], x[2]>> /\ y = <<y[1], y[2]>>
      BY <2>2
    <3>. QED  BY <3>1, <3>2
  <2>8. \A x, y \in given : x = y
    BY <2>1, <2>4, <2>5 DEF ResultUnique
  <2>9. \A x, y \in returned : x = y
    <3>. SUFFICES ASSUME NEW x \in returned, NEW y \in returned
                  PROVE  x = y
      OBVIOUS
    <3>1. x[1] = y[1] /\ x[2] = y[2]
      BY <2>1, <2>3, <2>5 DEF ReceivedUnique
    <3>2. x = <<x[1], x[2]>> /\ y = <<y[1], y[2]>>
      BY <2>3
    <3>. QED  BY <3>1, <3>2
  <2>10. buffered # {} => owed = {} /\ given = {} /\ returned = {} /\ dropped = {} /\ v <= yielded
    <3>. SUFFICES ASSUME NEW i \in buffered
                  PROVE  owed = {} /\ given = {} /\ returned = {} /\ dropped = {} /\ v <= yielded
      OBVIOUS
    <3>1. i \in DOMAIN buffer /\ buffer[i] = v /\ ~ (v < v)
      BY <2>4, <2>5
    <3>2. owed = {}
      BY <2>1, <2>2, <2>5, <3>1 DEF OwedEarlier
    <3>3. given = {}
      BY <2>1, <2>4, <2>5, <3>1 DEF ResultEarlier
    <3>4. returned = {}
      BY <2>1, <2>3, <2>5, <3>1 DEF ReceivedEarlier
    <3>. QED  BY <2>1, <2>4, <3>1, <3>2, <3>3, <3>4 DEF BufferKnown
  <2>11. owed # {} => given = {} /\ returned = {} /\ dropped = {} /\ v <= yielded
    <3>1. owed # {} => given = {}
      BY <2>1, <2>2, <2>4, <2>5 DEF OwedNotResult
    <3>2. owed # {} => returned = {}
      BY <2>1, <2>2, <2>3, <2>5 DEF OwedNotReceived
    <3>3. owed # {} => dropped = {} /\ v <= yielded
      BY <2>1, <2>2, <2>4, <2>5 DEF Known
    <3>. QED  BY <3>1, <3>2, <3>3
  <2>12. given # {} => returned = {} /\ dropped = {} /\ v <= yielded
    <3>1. given # {} => returned = {}
      BY <2>1, <2>3, <2>4, <2>5 DEF ResultNotReceived
    <3>2. given # {} => dropped = {} /\ v <= yielded
      BY <2>1, <2>4, <2>5 DEF Known
    <3>. QED  BY <3>1, <3>2
  <2>13. /\ returned # {} => dropped = {} /\ v <= yielded
         /\ dropped # {} => v <= yielded
    BY <2>1, <2>3, <2>4, <2>5 DEF Known
  <2>14. v <= yielded =>
           buffered # {} \/ owed # {} \/ given # {} \/ returned # {} \/ dropped # {}
    <3>1. v <= yielded => Kept(v)
      BY <2>1, <2>5 DEF KeptInv
    <3>. QED  BY <2>2, <2>3, <2>4, <3>1 DEF Kept
  <2>15. /\ Count(buffered) = IF buffered = {} THEN 0 ELSE 1
         /\ Count(owed) = IF owed = {} THEN 0 ELSE 1
         /\ Count(given) = IF given = {} THEN 0 ELSE 1
         /\ Count(returned) = IF returned = {} THEN 0 ELSE 1
         /\ Count(dropped) = IF dropped = {} THEN 0 ELSE 1
    BY <2>4, <2>6, <2>7, <2>8, <2>9, CountOne
  <2>16. Count(buffered) + Count(owed) + Count(given) + Count(returned) + Count(dropped)
         = IF v <= yielded THEN 1 ELSE 0
    BY <2>10, <2>11, <2>12, <2>13, <2>14, <2>15
  <2>. QED  BY <2>16 DEF buffered, owed, given, returned, dropped
<1>. QED  BY <1>1, FlowInvHolds, PTL
=============================================================================
