-------------------------- MODULE TaskSleepProofs ---------------------------
(***************************************************************************)
(* The safety of the sleep token for any number of sleeps and any address. *)
(* The inductive invariant says, for each state of the word, where the     *)
(* task, the wake-up job and the handler may be.                           *)
(***************************************************************************)
EXTENDS TaskSleep, TLAPS

State(s) == StateOf(word[s])

NotStarted(s) ==
  /\ sleeper[s] \in {"before", "register", "fire", "load", "exchange"}
  /\ sleeper[s] \in {"before", "register"} => handler[s] = "none"
  /\ sleeper[s] \in {"load", "exchange"} => registered[s]
  /\ waker[s] = "none" /\ handler[s] \in {"none", "load", "exchange"}
  /\ result[s] = "none" /\ resumes[s] = 0 /\ frees[s] = 0

Active(s) ==
  /\ \/ sleeper[s] = "create" /\ waker[s] = "none"
     \/ sleeper[s] = "await" /\ waker[s] \in {"delayed", "load", "exchange"}
  /\ registered[s] /\ handler[s] \in {"none", "load", "exchange"}
  /\ result[s] = "none" /\ resumes[s] = 0 /\ frees[s] = 0

Finished(s) ==
  /\ \/ waker[s] = "resume" /\ sleeper[s] = "await" /\ result[s] = "none" /\ resumes[s] = 0
     \/ /\ waker[s] = "done" /\ result[s] = "value" /\ resumes[s] = 1
        /\ sleeper[s] \in {"await", "remove", "check", "deallocate", "returned"}
  /\ handler[s] # "resume"
  /\ frees[s] = IF sleeper[s] = "returned" THEN 1 ELSE 0

Cancelled(s) ==
  /\ \/ handler[s] = "resume" /\ sleeper[s] \in {"create", "await"}
        /\ result[s] = "none" /\ resumes[s] = 0
     \/ handler[s] = "done" /\ sleeper[s] \in {"create", "await", "remove", "threw"}
        /\ result[s] = "error" /\ resumes[s] = 1
  /\ sleeper[s] = "create" <=> waker[s] = "none"
  /\ waker[s] \in {"none", "delayed", "load", "exchange", "deallocate", "done"}
  /\ frees[s] = IF waker[s] = "done" THEN 1 ELSE 0

CancelledBeforeStarted(s) ==
  /\ handler[s] = "done" /\ waker[s] = "none"
  /\ \/ /\ sleeper[s] \in {"fire", "load", "exchange", "resume"}
        /\ result[s] = "none" /\ resumes[s] = 0
     \/ /\ sleeper[s] \in {"await", "remove", "check", "deallocate", "threw"}
        /\ result[s] = "value" /\ resumes[s] = 1
  /\ frees[s] = IF sleeper[s] = "threw" THEN 1 ELSE 0

\* What the state of the word says about the three parties
TokenInv ==
  \A s \in Sleep :
    /\ State(s) = "notStarted" => NotStarted(s)
    /\ State(s) = "activeContinuation" => Active(s)
    /\ State(s) = "finished" => Finished(s)
    /\ State(s) = "cancelled" => Cancelled(s)
    /\ State(s) = "cancelledBeforeStarted" => CancelledBeforeStarted(s)

\* What each party has loaded is what its exchange expects.
SeenInv ==
  \A s \in Sleep :
    /\ sleeper[s] = "exchange" => seen[s]["sleeper"] = "notStarted"
    /\ sleeper[s] = "deallocate" => seen[s]["sleeper"] = State(s)
    /\ waker[s] = "exchange" => seen[s]["waker"] = "activeContinuation"
    /\ waker[s] = "deallocate" => State(s) = "cancelled"
    /\ handler[s] = "exchange" => seen[s]["handler"] \in {"notStarted", "activeContinuation"}

\* The handler runs on the task that registers it or in the walk of the canceller, and
\* a registered handler has not run before the walk and has run after it.
HandlerInv ==
  \A s \in Sleep :
    /\ handler[s] \in {"load", "exchange", "resume"} =>
         sleeper[s] = "fire" \/ (registered[s] /\ canceller = "walk")
    /\ registered[s] => sleeper[s] \in {"load", "exchange", "create", "resume", "await", "remove"}
    /\ canceller = "none" => handler[s] = "none"
    /\ registered[s] /\ canceller = "lock" => handler[s] = "none"
    /\ registered[s] /\ canceller = "walk" => handler[s] # "none"
    /\ registered[s] /\ canceller = "done" => handler[s] = "done"

IInv == TypeOK /\ TokenInv /\ SeenInv /\ HandlerInv

-----------------------------------------------------------------------------
\* Decoding a word gives back the state it was encoded from: the continuation is
\* aligned and not null, so it meets none of the four tags.
LEMMA DecodeEncode ==
  /\ StateOf(WordOf("notStarted")) = "notStarted"
  /\ StateOf(WordOf("activeContinuation")) = "activeContinuation"
  /\ StateOf(WordOf("finished")) = "finished"
  /\ StateOf(WordOf("cancelled")) = "cancelled"
  /\ StateOf(WordOf("cancelledBeforeStarted")) = "cancelledBeforeStarted"
<1>1. WordOf("notStarted") = 0 /\ WordOf("activeContinuation") = Continuation
  BY DEF WordOf
<1>2. WordOf("finished") = 1 /\ WordOf("cancelled") = 2
      /\ WordOf("cancelledBeforeStarted") = 3
  BY DEF WordOf
<1>3. StateOf(0) = "notStarted" /\ StateOf(1) = "finished" /\ StateOf(2) = "cancelled"
      /\ StateOf(3) = "cancelledBeforeStarted"
  BY DEF StateOf
<1>4. StateOf(Continuation) = "activeContinuation"
  <2>1. Continuation \in Nat /\ Continuation % 4 = 0 /\ Continuation > 0
    BY AlignedContinuation
  <2>2. Continuation - (Continuation % 4) # 0
    BY <2>1
  <2>3. Continuation % 4 # 1 /\ Continuation % 4 # 2 /\ Continuation % 4 # 3
    BY <2>1
  <2> QED
    BY <2>1, <2>2, <2>3 DEF StateOf
<1> QED
  BY <1>1, <1>2, <1>3, <1>4

\* A word in the token stands for one state, and an exchange succeeds exactly when that

\* A word in the token stands for one state, and an exchange succeeds exactly when that

\* A word in the token stands for one state, and an exchange succeeds exactly when that

\* A word in the token stands for one state, and an exchange succeeds exactly when that

\* A word in the token stands for one state, and an exchange succeeds exactly when that

\* A word in the token stands for one state, and an exchange succeeds exactly when that
\* is still the state its party has seen.
LEMMA StateInjective ==
  ASSUME TypeOK
  PROVE  /\ \A s \in Sleep : State(s) \in SleepState
         /\ \A s \in Sleep, p \in {"sleeper", "waker", "handler"} :
              Exchanged(s, p) <=> State(s) = seen[s][p]
<1>1. \A x \in SleepState : StateOf(WordOf(x)) = x
  BY DecodeEncode DEF SleepState
<1>2. \A s \in Sleep : \E x \in SleepState : word[s] = WordOf(x)
  BY DEF TypeOK
<1>3. \A s \in Sleep, p \in {"sleeper", "waker", "handler"} : seen[s][p] \in SleepState
  BY DEF TypeOK
<1> QED
  BY <1>1, <1>2, <1>3 DEF State, Exchanged

\* Every step of every party preserves the inductive invariant.
LEMMA StepInv == IInv /\ [Next]_vars => IInv'
<1> SUFFICES ASSUME IInv, [Next]_vars
             PROVE  IInv'
  OBVIOUS
<1>t. TypeOK /\ TokenInv /\ SeenInv /\ HandlerInv
  BY DEF IInv
<1>a. /\ \A s \in Sleep : State(s) \in SleepState
      /\ \A s \in Sleep, p \in {"sleeper", "waker", "handler"} :
           Exchanged(s, p) <=> State(s) = seen[s][p]
  BY <1>t, StateInjective
<1>w. /\ WordOf("notStarted") \in {WordOf(x) : x \in SleepState}
      /\ WordOf("activeContinuation") \in {WordOf(x) : x \in SleepState}
      /\ WordOf("finished") \in {WordOf(x) : x \in SleepState}
      /\ WordOf("cancelled") \in {WordOf(x) : x \in SleepState}
      /\ WordOf("cancelledBeforeStarted") \in {WordOf(x) : x \in SleepState}
  BY DEF SleepState
<1> USE DEF SleepState, NotStarted, Active, Finished, Cancelled, CancelledBeforeStarted
<1> USE DEF SleeperAt, SleeperTo, WakerAt, WakerTo, HandlerAt, HandlerTo
<1> USE DEF SleeperPc, Sleeping, WakerPc, HandlerPc
<1>1. ASSUME NEW s \in Sleep, StartSleep(s)
      PROVE  IInv'
  <2>1. \A r \in Sleep : r # s => State(r)' = State(r)
    BY <1>1, <1>t DEF StartSleep, TypeOK, State
  <2>2. State(s)' = "notStarted"
    BY <1>1, <1>t, DecodeEncode DEF StartSleep, TypeOK, State
  <2>3. TypeOK'
    BY <1>1, <1>t, <1>a, <1>w DEF StartSleep, TypeOK
  <2>4. TokenInv'
    BY <1>1, <1>t, <1>a, <2>1, <2>2 DEF StartSleep, TypeOK, TokenInv, SeenInv, HandlerInv
  <2>5. SeenInv'
    BY <1>1, <1>t, <1>a, <2>1, <2>2 DEF StartSleep, TypeOK, TokenInv, SeenInv
  <2>6. HandlerInv'
    BY <1>1, <1>t, <1>a, <2>1, <2>2 DEF StartSleep, TypeOK, TokenInv, HandlerInv
  <2> QED
    BY <2>3, <2>4, <2>5, <2>6 DEF IInv
<1>2. ASSUME NEW s \in Sleep, AddHandler(s)
      PROVE  IInv'
  <2>1. \A r \in Sleep : State(r)' = State(r)
    BY <1>2 DEF AddHandler, State
  <2>2. TypeOK'
    BY <1>2, <1>t, <1>a, <1>w DEF AddHandler, TypeOK
  <2>3. TokenInv'
    BY <1>2, <1>t, <1>a, <2>1 DEF AddHandler, TypeOK, TokenInv, SeenInv, HandlerInv
  <2>4. SeenInv'
    BY <1>2, <1>t, <1>a, <2>1 DEF AddHandler, TypeOK, TokenInv, SeenInv
  <2>5. HandlerInv'
    BY <1>2, <1>t, <1>a, <2>1 DEF AddHandler, TypeOK, TokenInv, HandlerInv
  <2> QED
    BY <2>2, <2>3, <2>4, <2>5 DEF IInv
<1>3. ASSUME NEW s \in Sleep, HandlerReturned(s)
      PROVE  IInv'
  <2>1. \A r \in Sleep : State(r)' = State(r)
    BY <1>3 DEF HandlerReturned, State
  <2>2. TypeOK'
    BY <1>3, <1>t, <1>a, <1>w DEF HandlerReturned, TypeOK
  <2>3. TokenInv'
    BY <1>3, <1>t, <1>a, <2>1 DEF HandlerReturned, TypeOK, TokenInv, SeenInv, HandlerInv
  <2>4. SeenInv'
    BY <1>3, <1>t, <1>a, <2>1 DEF HandlerReturned, TypeOK, TokenInv, SeenInv
  <2>5. HandlerInv'
    BY <1>3, <1>t, <1>a, <2>1 DEF HandlerReturned, TypeOK, TokenInv, HandlerInv
  <2> QED
    BY <2>2, <2>3, <2>4, <2>5 DEF IInv
<1>4. ASSUME NEW s \in Sleep, LoadToken(s)
      PROVE  IInv'
  <2>1. \A r \in Sleep : State(r)' = State(r)
    BY <1>4 DEF LoadToken, Load, State
  <2>2. TypeOK'
    BY <1>4, <1>t, <1>a, <1>w DEF LoadToken, Load, TypeOK, State
  <2>3. TokenInv'
    BY <1>4, <1>t, <1>a, <2>1 DEF LoadToken, Load, TypeOK, TokenInv, SeenInv, HandlerInv, State
  <2>4. SeenInv'
    BY <1>4, <1>t, <1>a, <2>1 DEF LoadToken, Load, TypeOK, TokenInv, SeenInv, State
  <2>5. HandlerInv'
    BY <1>4, <1>t, <1>a, <2>1 DEF LoadToken, Load, TypeOK, TokenInv, HandlerInv, State
  <2> QED
    BY <2>2, <2>3, <2>4, <2>5 DEF IInv
<1>5. ASSUME NEW s \in Sleep, PublishContinuation(s)
      PROVE  IInv'
  <2>1. \A r \in Sleep : r # s => State(r)' = State(r)
    BY <1>5, <1>t DEF PublishContinuation, TypeOK, State
  <2>2. State(s)' = IF Exchanged(s, "sleeper") THEN "activeContinuation" ELSE State(s)
    BY <1>5, <1>t, DecodeEncode DEF PublishContinuation, TypeOK, State
  <2>3. TypeOK'
    <3> DEFINE W == {WordOf(x) : x \in SleepState}
    <3>1. word' \in [Sleep -> W]
      <4>1. word \in [Sleep -> W]
        BY <1>t DEF TypeOK
      <4>2. WordOf("activeContinuation") \in W
        BY <1>w
      <4> HIDE DEF W
      <4>3. CASE word' = [word EXCEPT ![s] = WordOf("activeContinuation")]
        BY <4>1, <4>2, <4>3
      <4>4. CASE word' = word
        BY <4>1, <4>4
      <4> QED
        BY <1>5, <4>3, <4>4 DEF PublishContinuation
    <3>2. /\ sleeper' \in [Sleep -> SleeperPc]
          /\ UNCHANGED <<frees, waker, handler, seen, registered, result, resumes, canceller>>
      BY <1>5, <1>t DEF PublishContinuation, SleeperTo, TypeOK, SleeperPc
    <3> QED
      BY <1>t, <3>1, <3>2 DEF TypeOK
  <2>4. TokenInv'
    BY <1>5, <1>t, <1>a, <2>1, <2>2 DEF PublishContinuation, TypeOK, TokenInv, SeenInv, HandlerInv
  <2>5. SeenInv'
    BY <1>5, <1>t, <1>a, <2>1, <2>2 DEF PublishContinuation, TypeOK, TokenInv, SeenInv
  <2>6. HandlerInv'
    BY <1>5, <1>t, <1>a, <2>1, <2>2 DEF PublishContinuation, TypeOK, TokenInv, HandlerInv
  <2> QED
    BY <2>3, <2>4, <2>5, <2>6 DEF IInv
<1>6. ASSUME NEW s \in Sleep, EnqueueWaker(s)
      PROVE  IInv'
  <2>1. \A r \in Sleep : State(r)' = State(r)
    BY <1>6 DEF EnqueueWaker, State
  <2>2. TypeOK'
    BY <1>6, <1>t, <1>a, <1>w DEF EnqueueWaker, TypeOK
  <2>3. TokenInv'
    BY <1>6, <1>t, <1>a, <2>1 DEF EnqueueWaker, TypeOK, TokenInv, SeenInv, HandlerInv
  <2>4. SeenInv'
    BY <1>6, <1>t, <1>a, <2>1 DEF EnqueueWaker, TypeOK, TokenInv, SeenInv
  <2>5. HandlerInv'
    BY <1>6, <1>t, <1>a, <2>1 DEF EnqueueWaker, TypeOK, TokenInv, HandlerInv
  <2> QED
    BY <2>2, <2>3, <2>4, <2>5 DEF IInv
<1>7. ASSUME NEW s \in Sleep, ResumeCancelled(s)
      PROVE  IInv'
  <2>1. \A r \in Sleep : State(r)' = State(r)
    BY <1>7 DEF ResumeCancelled, Resumes, State
  <2>2. TypeOK'
    BY <1>7, <1>t, <1>a, <1>w DEF ResumeCancelled, Resumes, TypeOK
  <2>3. TokenInv'
    BY <1>7, <1>t, <1>a, <2>1 DEF ResumeCancelled, Resumes, TypeOK, TokenInv, SeenInv, HandlerInv
  <2>4. SeenInv'
    BY <1>7, <1>t, <1>a, <2>1 DEF ResumeCancelled, Resumes, TypeOK, TokenInv, SeenInv
  <2>5. HandlerInv'
    BY <1>7, <1>t, <1>a, <2>1 DEF ResumeCancelled, Resumes, TypeOK, TokenInv, HandlerInv
  <2> QED
    BY <2>2, <2>3, <2>4, <2>5 DEF IInv
<1>8. ASSUME NEW s \in Sleep, Awaits(s)
      PROVE  IInv'
  <2>1. \A r \in Sleep : State(r)' = State(r)
    BY <1>8 DEF Awaits, State
  <2>2. TypeOK'
    BY <1>8, <1>t, <1>a, <1>w DEF Awaits, TypeOK
  <2>3. TokenInv'
    BY <1>8, <1>t, <1>a, <2>1 DEF Awaits, TypeOK, TokenInv, SeenInv, HandlerInv
  <2>4. SeenInv'
    BY <1>8, <1>t, <1>a, <2>1 DEF Awaits, TypeOK, TokenInv, SeenInv
  <2>5. HandlerInv'
    BY <1>8, <1>t, <1>a, <2>1 DEF Awaits, TypeOK, TokenInv, HandlerInv
  <2> QED
    BY <2>2, <2>3, <2>4, <2>5 DEF IInv
<1>9. ASSUME NEW s \in Sleep, RemoveHandler(s)
      PROVE  IInv'
  <2>1. \A r \in Sleep : State(r)' = State(r)
    BY <1>9 DEF RemoveHandler, State
  <2>2. TypeOK'
    BY <1>9, <1>t, <1>a, <1>w DEF RemoveHandler, TypeOK
  <2>3. TokenInv'
    BY <1>9, <1>t, <1>a, <2>1 DEF RemoveHandler, TypeOK, TokenInv, SeenInv, HandlerInv
  <2>4. SeenInv'
    BY <1>9, <1>t, <1>a, <2>1 DEF RemoveHandler, TypeOK, TokenInv, SeenInv
  <2>5. HandlerInv'
    BY <1>9, <1>t, <1>a, <2>1 DEF RemoveHandler, TypeOK, TokenInv, HandlerInv
  <2> QED
    BY <2>2, <2>3, <2>4, <2>5 DEF IInv
<1>10. ASSUME NEW s \in Sleep, CheckToken(s)
      PROVE  IInv'
  <2>1. \A r \in Sleep : State(r)' = State(r)
    BY <1>10 DEF CheckToken, Load, State
  <2>2. TypeOK'
    BY <1>10, <1>t, <1>a, <1>w DEF CheckToken, Load, TypeOK, State
  <2>3. TokenInv'
    BY <1>10, <1>t, <1>a, <2>1 DEF CheckToken, Load, TypeOK, TokenInv, SeenInv, HandlerInv, State
  <2>4. SeenInv'
    BY <1>10, <1>t, <1>a, <2>1 DEF CheckToken, Load, TypeOK, TokenInv, SeenInv, State
  <2>5. HandlerInv'
    BY <1>10, <1>t, <1>a, <2>1 DEF CheckToken, Load, TypeOK, TokenInv, HandlerInv, State
  <2> QED
    BY <2>2, <2>3, <2>4, <2>5 DEF IInv
<1>11. ASSUME NEW s \in Sleep, EndSleep(s)
      PROVE  IInv'
  <2>1. \A r \in Sleep : State(r)' = State(r)
    BY <1>11 DEF EndSleep, Deallocates, State
  <2>2. TypeOK'
    BY <1>11, <1>t, <1>a, <1>w DEF EndSleep, Deallocates, TypeOK
  <2>3. TokenInv'
    BY <1>11, <1>t, <1>a, <2>1 DEF EndSleep, Deallocates, TypeOK, TokenInv, SeenInv, HandlerInv
  <2>4. SeenInv'
    BY <1>11, <1>t, <1>a, <2>1 DEF EndSleep, Deallocates, TypeOK, TokenInv, SeenInv
  <2>5. HandlerInv'
    BY <1>11, <1>t, <1>a, <2>1 DEF EndSleep, Deallocates, TypeOK, TokenInv, HandlerInv
  <2> QED
    BY <2>2, <2>3, <2>4, <2>5 DEF IInv
<1>12. ASSUME NEW s \in Sleep, WakerRuns(s)
      PROVE  IInv'
  <2>1. \A r \in Sleep : State(r)' = State(r)
    BY <1>12 DEF WakerRuns, State
  <2>2. TypeOK'
    BY <1>12, <1>t, <1>a, <1>w DEF WakerRuns, TypeOK
  <2>3. TokenInv'
    BY <1>12, <1>t, <1>a, <2>1 DEF WakerRuns, TypeOK, TokenInv, SeenInv, HandlerInv
  <2>4. SeenInv'
    BY <1>12, <1>t, <1>a, <2>1 DEF WakerRuns, TypeOK, TokenInv, SeenInv
  <2>5. HandlerInv'
    BY <1>12, <1>t, <1>a, <2>1 DEF WakerRuns, TypeOK, TokenInv, HandlerInv
  <2> QED
    BY <2>2, <2>3, <2>4, <2>5 DEF IInv
<1>13. ASSUME NEW s \in Sleep, WakerLoads(s)
      PROVE  IInv'
  <2>1. \A r \in Sleep : State(r)' = State(r)
    BY <1>13 DEF WakerLoads, Load, State
  <2>2. TypeOK'
    BY <1>13, <1>t, <1>a, <1>w DEF WakerLoads, Load, TypeOK, State
  <2>3. TokenInv'
    BY <1>13, <1>t, <1>a, <2>1 DEF WakerLoads, Load, TypeOK, TokenInv, SeenInv, HandlerInv, State
  <2>4. SeenInv'
    BY <1>13, <1>t, <1>a, <2>1 DEF WakerLoads, Load, TypeOK, TokenInv, SeenInv, State
  <2>5. HandlerInv'
    BY <1>13, <1>t, <1>a, <2>1 DEF WakerLoads, Load, TypeOK, TokenInv, HandlerInv, State
  <2> QED
    BY <2>2, <2>3, <2>4, <2>5 DEF IInv
<1>14. ASSUME NEW s \in Sleep, WakerExchanges(s)
      PROVE  IInv'
  <2>1. \A r \in Sleep : r # s => State(r)' = State(r)
    BY <1>14, <1>t DEF WakerExchanges, TypeOK, State
  <2>2. State(s)' = IF Exchanged(s, "waker") THEN "finished" ELSE State(s)
    BY <1>14, <1>t, DecodeEncode DEF WakerExchanges, TypeOK, State
  <2>3. TypeOK'
    <3> DEFINE W == {WordOf(x) : x \in SleepState}
    <3>1. word' \in [Sleep -> W]
      <4>1. word \in [Sleep -> W]
        BY <1>t DEF TypeOK
      <4>2. WordOf("finished") \in W
        BY <1>w
      <4> HIDE DEF W
      <4>3. CASE word' = [word EXCEPT ![s] = WordOf("finished")]
        BY <4>1, <4>2, <4>3
      <4>4. CASE word' = word
        BY <4>1, <4>4
      <4> QED
        BY <1>14, <4>3, <4>4 DEF WakerExchanges
    <3>2. /\ waker' \in [Sleep -> WakerPc]
          /\ UNCHANGED <<frees, sleeper, handler, seen, registered, result, resumes, canceller>>
      BY <1>14, <1>t DEF WakerExchanges, WakerTo, TypeOK, WakerPc
    <3> QED
      BY <1>t, <3>1, <3>2 DEF TypeOK
  <2>4. TokenInv'
    BY <1>14, <1>t, <1>a, <2>1, <2>2 DEF WakerExchanges, TypeOK, TokenInv, SeenInv, HandlerInv
  <2>5. SeenInv'
    BY <1>14, <1>t, <1>a, <2>1, <2>2 DEF WakerExchanges, TypeOK, TokenInv, SeenInv
  <2>6. HandlerInv'
    BY <1>14, <1>t, <1>a, <2>1, <2>2 DEF WakerExchanges, TypeOK, TokenInv, HandlerInv
  <2> QED
    BY <2>3, <2>4, <2>5, <2>6 DEF IInv
<1>15. ASSUME NEW s \in Sleep, WakerResumes(s)
      PROVE  IInv'
  <2>1. \A r \in Sleep : State(r)' = State(r)
    BY <1>15 DEF WakerResumes, Resumes, State
  <2>2. TypeOK'
    BY <1>15, <1>t, <1>a, <1>w DEF WakerResumes, Resumes, TypeOK
  <2>3. TokenInv'
    BY <1>15, <1>t, <1>a, <2>1 DEF WakerResumes, Resumes, TypeOK, TokenInv, SeenInv, HandlerInv
  <2>4. SeenInv'
    BY <1>15, <1>t, <1>a, <2>1 DEF WakerResumes, Resumes, TypeOK, TokenInv, SeenInv
  <2>5. HandlerInv'
    BY <1>15, <1>t, <1>a, <2>1 DEF WakerResumes, Resumes, TypeOK, TokenInv, HandlerInv
  <2> QED
    BY <2>2, <2>3, <2>4, <2>5 DEF IInv
<1>16. ASSUME NEW s \in Sleep, WakerFrees(s)
      PROVE  IInv'
  <2>1. \A r \in Sleep : State(r)' = State(r)
    BY <1>16 DEF WakerFrees, Deallocates, State
  <2>2. TypeOK'
    BY <1>16, <1>t, <1>a, <1>w DEF WakerFrees, Deallocates, TypeOK
  <2>3. TokenInv'
    BY <1>16, <1>t, <1>a, <2>1 DEF WakerFrees, Deallocates, TypeOK, TokenInv, SeenInv, HandlerInv
  <2>4. SeenInv'
    BY <1>16, <1>t, <1>a, <2>1 DEF WakerFrees, Deallocates, TypeOK, TokenInv, SeenInv
  <2>5. HandlerInv'
    BY <1>16, <1>t, <1>a, <2>1 DEF WakerFrees, Deallocates, TypeOK, TokenInv, HandlerInv
  <2> QED
    BY <2>2, <2>3, <2>4, <2>5 DEF IInv
<1>17. ASSUME NEW s \in Sleep, HandlerLoads(s)
      PROVE  IInv'
  <2>1. \A r \in Sleep : State(r)' = State(r)
    BY <1>17 DEF HandlerLoads, Load, State
  <2>2. TypeOK'
    BY <1>17, <1>t, <1>a, <1>w DEF HandlerLoads, Load, TypeOK, State
  <2>3. TokenInv'
    BY <1>17, <1>t, <1>a, <2>1 DEF HandlerLoads, Load, TypeOK, TokenInv, SeenInv, HandlerInv, State
  <2>4. SeenInv'
    BY <1>17, <1>t, <1>a, <2>1 DEF HandlerLoads, Load, TypeOK, TokenInv, SeenInv, State
  <2>5. HandlerInv'
    BY <1>17, <1>t, <1>a, <2>1 DEF HandlerLoads, Load, TypeOK, TokenInv, HandlerInv, State
  <2> QED
    BY <2>2, <2>3, <2>4, <2>5 DEF IInv
<1>18. ASSUME NEW s \in Sleep, HandlerExchanges(s)
      PROVE  IInv'
  <2>1. \A r \in Sleep : r # s => State(r)' = State(r)
    BY <1>18, <1>t DEF HandlerExchanges, TypeOK, State
  <2>2. /\ handler'[s] = "done" => State(s)' = "cancelledBeforeStarted"
        /\ handler'[s] = "resume" => State(s)' = "cancelled"
        /\ handler'[s] = "load" => State(s)' = State(s)
    BY <1>18, <1>t, DecodeEncode DEF HandlerExchanges, TypeOK, State
  <2>3. TypeOK'
    <3> DEFINE W == {WordOf(x) : x \in SleepState}
    <3>1. word' \in [Sleep -> W]
      <4>1. word \in [Sleep -> W]
        BY <1>t DEF TypeOK
      <4>2. /\ WordOf("cancelledBeforeStarted") \in W
            /\ WordOf("cancelled") \in W
        BY <1>w
      <4> HIDE DEF W
      <4>3. CASE word' = [word EXCEPT ![s] = WordOf("cancelledBeforeStarted")]
        BY <4>1, <4>2, <4>3
      <4>4. CASE word' = [word EXCEPT ![s] = WordOf("cancelled")]
        BY <4>1, <4>2, <4>4
      <4>5. CASE word' = word
        BY <4>1, <4>5
      <4> QED
        BY <1>18, <4>3, <4>4, <4>5 DEF HandlerExchanges
    <3>2. /\ handler' \in [Sleep -> HandlerPc]
          /\ UNCHANGED <<frees, sleeper, waker, seen, registered, result, resumes, canceller>>
      BY <1>18, <1>t DEF HandlerExchanges, HandlerTo, TypeOK, HandlerPc
    <3> QED
      BY <1>t, <3>1, <3>2 DEF TypeOK
  <2>4. TokenInv'
    BY <1>18, <1>t, <1>a, <2>1, <2>2 DEF HandlerExchanges, TypeOK, TokenInv, SeenInv, HandlerInv
  <2>5. SeenInv'
    BY <1>18, <1>t, <1>a, <2>1, <2>2 DEF HandlerExchanges, TypeOK, TokenInv, SeenInv
  <2>6. HandlerInv'
    BY <1>18, <1>t, <1>a, <2>1, <2>2 DEF HandlerExchanges, TypeOK, TokenInv, HandlerInv
  <2> QED
    BY <2>3, <2>4, <2>5, <2>6 DEF IInv
<1>19. ASSUME NEW s \in Sleep, HandlerResumes(s)
      PROVE  IInv'
  <2>1. \A r \in Sleep : State(r)' = State(r)
    BY <1>19 DEF HandlerResumes, Resumes, State
  <2>2. TypeOK'
    BY <1>19, <1>t, <1>a, <1>w DEF HandlerResumes, Resumes, TypeOK
  <2>3. TokenInv'
    BY <1>19, <1>t, <1>a, <2>1 DEF HandlerResumes, Resumes, TypeOK, TokenInv, SeenInv, HandlerInv
  <2>4. SeenInv'
    BY <1>19, <1>t, <1>a, <2>1 DEF HandlerResumes, Resumes, TypeOK, TokenInv, SeenInv
  <2>5. HandlerInv'
    BY <1>19, <1>t, <1>a, <2>1 DEF HandlerResumes, Resumes, TypeOK, TokenInv, HandlerInv
  <2> QED
    BY <2>2, <2>3, <2>4, <2>5 DEF IInv
<1>20. CASE SetCancelled
  <2>1. \A r \in Sleep : State(r)' = State(r)
    BY <1>20 DEF SetCancelled, State
  <2>2. TypeOK'
    BY <1>20, <1>t DEF SetCancelled, TypeOK
  <2>3. TokenInv'
    BY <1>20, <1>t, <1>a, <2>1 DEF SetCancelled, TypeOK, TokenInv, HandlerInv
  <2>4. SeenInv'
    BY <1>20, <1>t, <2>1 DEF SetCancelled, TypeOK, SeenInv
  <2>5. HandlerInv'
    BY <1>20, <1>t, <1>a, <2>1 DEF SetCancelled, TypeOK, HandlerInv
  <2> QED
    BY <2>2, <2>3, <2>4, <2>5 DEF IInv
<1>21. CASE WalkRecords
  <2>1. \A r \in Sleep : State(r)' = State(r)
    BY <1>21 DEF WalkRecords, State
  <2>2. TypeOK'
    BY <1>21, <1>t DEF WalkRecords, TypeOK
  <2>3. TokenInv'
    BY <1>21, <1>t, <1>a, <2>1 DEF WalkRecords, TypeOK, TokenInv, HandlerInv
  <2>4. SeenInv'
    BY <1>21, <1>t, <2>1 DEF WalkRecords, TypeOK, SeenInv
  <2>5. HandlerInv'
    BY <1>21, <1>t, <1>a, <2>1 DEF WalkRecords, TypeOK, HandlerInv
  <2> QED
    BY <2>2, <2>3, <2>4, <2>5 DEF IInv
<1>22. CASE EndWalk
  <2>1. \A r \in Sleep : State(r)' = State(r)
    BY <1>22 DEF EndWalk, State
  <2>2. TypeOK'
    BY <1>22, <1>t DEF EndWalk, TypeOK
  <2>3. TokenInv'
    BY <1>22, <1>t, <1>a, <2>1 DEF EndWalk, TypeOK, TokenInv, HandlerInv
  <2>4. SeenInv'
    BY <1>22, <1>t, <2>1 DEF EndWalk, TypeOK, SeenInv
  <2>5. HandlerInv'
    BY <1>22, <1>t, <1>a, <2>1 DEF EndWalk, TypeOK, HandlerInv
  <2> QED
    BY <2>2, <2>3, <2>4, <2>5 DEF IInv
<1>23. CASE UNCHANGED vars
  BY <1>23, <1>t DEF vars, IInv, TypeOK, TokenInv, SeenInv, HandlerInv, State
<1> QED
  BY <1>1, <1>2, <1>3, <1>4, <1>5, <1>6, <1>7, <1>8, <1>9, <1>10, <1>11, <1>12, <1>13, <1>14, <1>15, <1>16, <1>17, <1>18, <1>19, <1>20, <1>21, <1>22, <1>23
     DEF Next, SleeperStep, WakerStep, HandlerStep, CancelStep

\* The initial state satisfies the invariant: no token exists yet.
LEMMA InitInv == Init => IInv
<1> SUFFICES ASSUME Init
             PROVE  IInv
  OBVIOUS
<1>1. WordOf("notStarted") = 0
  BY DEF WordOf
<1>2. \A s \in Sleep : State(s) = "notStarted"
  BY <1>1, DecodeEncode DEF Init, State
<1>3. TypeOK
  BY <1>1 DEF Init, TypeOK, SleepState, SleeperPc, WakerPc, HandlerPc
<1>4. TokenInv
  BY <1>2 DEF Init, TokenInv, NotStarted
<1>5. SeenInv /\ HandlerInv
  BY DEF Init, SeenInv, HandlerInv
<1> QED
  BY <1>3, <1>4, <1>5 DEF IInv

\* The word's state determines where sleep(), onSleepWake() and onSleepCancel() can be.
THEOREM Invariance == Spec => []IInv
BY InitInv, StepInv, PTL DEF Spec

\* The variables of the sleep protocol keep their types; the token's word is never
\* anything but the encoding of a SleepState.
THEOREM TypeCorrectness == Spec => []TypeOK
<1>1. IInv => TypeOK
  BY DEF IInv
<1> QED
  BY <1>1, Invariance, PTL

\* Each token is in one of the five situations that its word stands for.
LEMMA StateCases ==
  ASSUME IInv
  PROVE  \A s \in Sleep :
           \/ State(s) = "notStarted" /\ NotStarted(s)
           \/ State(s) = "activeContinuation" /\ Active(s)
           \/ State(s) = "finished" /\ Finished(s)
           \/ State(s) = "cancelled" /\ Cancelled(s)
           \/ State(s) = "cancelledBeforeStarted" /\ CancelledBeforeStarted(s)
<1>1. \A s \in Sleep : State(s) \in SleepState
  BY StateInjective DEF IInv
<1> QED
  BY <1>1 DEF IInv, TokenInv, SleepState

\* Neither sleep() nor onSleepWake() nor onSleepCancel() touches a token that was freed,
\* and neither the task nor the wake-up job frees it again.
THEOREM TokenNoUseAfterFree == Spec => []NoUseAfterFree
<1>1. IInv => NoUseAfterFree
  BY StateCases DEF IInv, SeenInv, HandlerInv, Touches, NoUseAfterFree, NotStarted, Active, Finished, Cancelled,
     CancelledBeforeStarted
<1> QED
  BY <1>1, Invariance, PTL

\* Exactly one of sleep() and onSleepWake() deallocates the token.
THEOREM TokenFreedOnce == Spec => []FreedOnce
<1>1. ASSUME IInv, NEW s \in Sleep
      PROVE  /\ frees[s] <= 1
             /\ Ended(s) /\ waker[s] \in {"none", "done"} => frees[s] = 1
  <2>1. CASE NotStarted(s)
    BY <2>1 DEF NotStarted, Ended
  <2>2. CASE Active(s)
    BY <2>2 DEF Active, Ended
  <2>3. CASE Finished(s)
    BY <2>3 DEF Finished, Ended
  <2>4. CASE Cancelled(s)
    BY <2>4 DEF Cancelled, Ended
  <2>5. CASE CancelledBeforeStarted(s)
    BY <2>5 DEF CancelledBeforeStarted, Ended
  <2> QED
    BY <1>1, <2>1, <2>2, <2>3, <2>4, <2>5, StateCases
<1>2. IInv => FreedOnce
  BY <1>1 DEF FreedOnce
<1> QED
  BY <1>2, Invariance, PTL

\* At most one of sleep(), onSleepWake() and onSleepCancel() resumes the continuation.
THEOREM ContinuationResumedOnce == Spec => []ResumedOnce
<1>1. ASSUME IInv, NEW s \in Sleep
      PROVE  resumes[s] <= 1
  <2>1. CASE NotStarted(s)
    BY <2>1 DEF NotStarted
  <2>2. CASE Active(s)
    BY <2>2 DEF Active
  <2>3. CASE Finished(s)
    BY <2>3 DEF Finished
  <2>4. CASE Cancelled(s)
    BY <2>4 DEF Cancelled
  <2>5. CASE CancelledBeforeStarted(s)
    BY <2>5 DEF CancelledBeforeStarted
  <2> QED
    BY <1>1, <2>1, <2>2, <2>3, <2>4, <2>5, StateCases
<1>2. IInv => ResumedOnce
  BY <1>1 DEF ResumedOnce
<1> QED
  BY <1>2, Invariance, PTL

\* The calls of fatalError() in sleep() and onSleepWake() are unreachable.
THEOREM FatalErrorsUnreachable == Spec => []NoFatalError
<1>1. IInv => NoFatalError
  BY StateCases DEF NoFatalError, NotStarted, Active, Finished, Cancelled,
     CancelledBeforeStarted
<1> QED
  BY <1>1, Invariance, PTL

\* sleep() returns without an error only after its wake-up job has run.
THEOREM SleepReturnsAfterDelay == Spec => []ReturnsAfterDelay
<1>1. IInv => ReturnsAfterDelay
  BY StateCases DEF State, ReturnsAfterDelay, NotStarted, Active, Finished, Cancelled,
     CancelledBeforeStarted
<1> QED
  BY <1>1, Invariance, PTL

\* A cancel() that has returned leaves no sleep waiting for its delay.
THEOREM CancellationEndsSleep == Spec => []CancelEndsSleep
<1>1. IInv => CancelEndsSleep
  BY StateCases DEF State, IInv, HandlerInv, CancelEndsSleep, NotStarted, Active, Finished, Cancelled,
     CancelledBeforeStarted
<1> QED
  BY <1>1, Invariance, PTL
=============================================================================
