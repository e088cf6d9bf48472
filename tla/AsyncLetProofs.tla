--------------------------- MODULE AsyncLetProofs ---------------------------
(***************************************************************************)
(* The safety of futures and async lets for any number of tasks, waiters   *)
(* and bindings: no waiter is lost or gets another result, no task is      *)
(* touched once it is gone but for the flags that completeFuture() reads   *)
(* late, and a result is destroyed once.                                   *)
(***************************************************************************)
EXTENDS AsyncLet, TLAPS

-----------------------------------------------------------------------------
(* The inductive invariant *)

InScope(l) == \E i \in DOMAIN scope : scope[i] = l
Ahead(l) == \E i \in DOMAIN pending : pending[i] = l

\* A binding is declared once, and its child task belongs to the parent while it is in scope.
ScopeInv ==
  /\ IsInjective(scope) /\ IsInjective(pending)
  /\ \A l \in Binding : ~(InScope(l) /\ Ahead(l))
  /\ \A l \in Binding : owners[l] = IF InScope(l) THEN {Parent} ELSE {}
  /\ \A l \in Binding : Ahead(l) => position[l] = "none"
  /\ call \in {"finish", "consume", "remove", "destroy"} => scope # <<>>
  /\ call \in {"remove", "destroy"} => position[Innermost] \in Completed

\* What the parent waits for in each of its calls
CallInv ==
  /\ call \in {"body", "remove", "destroy"} <=> wait[Parent] = "no"
  /\ call = "get" => waitsOn[Parent] \in Binding
  /\ call \in {"finish", "consume"} => waitsOn[Parent] = Innermost
  /\ call = "task" => waitsOn[Parent] \notin Binding

\* Who keeps a future alive
OwnerInv ==
  /\ \A f \in Future \ Binding :
       position[f] \notin {"none", "done", "undefined"} => f \in owners[f]
  /\ \A f \in Future : position[f] \in {"running", "exchange"} => IsAlive(f)
  /\ \A w \in Waiter : wait[w] # "no" =>
       /\ waitsOn[w] \in Future
       /\ IF waitsOn[w] \in Binding THEN w = Parent /\ InScope(waitsOn[w])
          ELSE Handle \in owners[waitsOn[w]]

\* The records are those of the bindings in scope, and the canceller knows no others.
RecordInv ==
  /\ records = {l \in Binding : InScope(l)} \ IF call = "destroy" THEN {Innermost} ELSE {}
  /\ toCancel \subseteq records
  /\ canceller # "walk" => toCancel = {}

\* The status in the queue is the result once the future has completed.
ResultInv ==
  /\ \A f \in Future :
       /\ waitQueue[f].status = "executing" <=> position[f] \notin Completed
       /\ waitQueue[f].status # "executing" /\ IsAlive(f) => waitQueue[f].status = ResultOf(f)
       /\ failed[f] => f \in Throwing
       /\ position[f] = "enqueue" =>
            /\ waitingTask[f] # NoTask
            /\ following[f] = nextWaitingTask[waitingTask[f]]
            /\ context[waitingTask[f]] = ResultOf(f)
  /\ \A w \in Waiter :
       /\ wait[w] = "push" => queueHead[w].status = "executing"
       /\ wait[w] \in {"enqueued", "returned"} =>
            position[waitsOn[w]] \in Completed /\ context[w] = ResultOf(waitsOn[w])
       /\ wait[w] = "returned" => ~flagged[w]

\* Lists hold suspended tasks and have an end.
ListInv ==
  /\ WaitersAreListed
  /\ \A w \in Waiter : wait[w] = "suspended" => w \notin ListFrom(nextWaitingTask[w])

\* The buffer of a binding
BufferInv ==
  \A l \in Binding :
    /\ buffer[l] # "misused"
    /\ ~InScope(l) => ~hasResult[l] /\ buffer[l] = "raw"
    /\ CASE call = "get" /\ waitsOn[Parent] = l -> hasResult[l] = (l \notin Throwing)
       /\ buffer[l] = "raw"
         [] call \in {"finish", "consume"} /\ Innermost = l -> ~hasResult[l] /\ buffer[l] = "raw"
         [] call \in {"remove", "destroy"} /\ Innermost = l -> buffer[l] = "raw"
         [] OTHER -> hasResult[l] = (buffer[l] = "value")
    /\ hasResult[l] => position[l] \in Completed \/ (call = "get" /\ waitsOn[Parent] = l)

IInv ==
  /\ TypeOK
  /\ ScopeInv
  /\ CallInv
  /\ OwnerInv
  /\ RecordInv
  /\ ResultInv
  /\ ListInv
  /\ BufferInv
-----------------------------------------------------------------------------
(* Lists of waiting tasks *)

Links == [Waiter -> Waiter \cup {NoTask}]

\* The list that starts with task holds task and whatever its members lead to.
LEMMA LinkedHolds ==
  ASSUME NEW links \in Links, NEW task \in Waiter \cup {NoTask}
  PROVE  HoldsList(links, Linked(links, task), task)
BY DEF HoldsList, Linked, Links

\* It is the smallest such set.
LEMMA LinkedLeast ==
  ASSUME NEW links \in Links, NEW task \in Waiter \cup {NoTask},
         NEW tasks \in SUBSET Waiter, HoldsList(links, tasks, task)
  PROVE  Linked(links, task) \subseteq tasks
BY DEF Linked

\* No task leads nowhere.
LEMMA LinkedNothing ==
  ASSUME NEW links \in Links
  PROVE  Linked(links, NoTask) = {}
<1>1. HoldsList(links, {}, NoTask)
  BY DEF HoldsList
<1>. QED  BY <1>1, LinkedLeast

\* A list is its first task and the list that this task leads to.
LEMMA LinkedFirst ==
  ASSUME NEW links \in Links, NEW task \in Waiter
  PROVE  Linked(links, task) = {task} \cup Linked(links, links[task])
<1>. DEFINE rest == Linked(links, links[task])
<1>1. links[task] \in Waiter \cup {NoTask}
  BY DEF Links
<1>2. HoldsList(links, rest, links[task])
  BY <1>1, LinkedHolds
<1>3. rest \subseteq Waiter
  BY DEF Linked
<1>4. HoldsList(links, {task} \cup rest, task)
  BY <1>2 DEF HoldsList
<1>5. Linked(links, task) \subseteq {task} \cup rest
  BY <1>3, <1>4, LinkedLeast
<1>6. HoldsList(links, Linked(links, task), task)
  BY LinkedHolds
<1>7. task \in Linked(links, task)
  BY <1>6, FutureAssumption DEF HoldsList
<1>8. HoldsList(links, Linked(links, task), links[task])
  BY <1>6, <1>7 DEF HoldsList
<1>9. rest \subseteq Linked(links, task)
  BY <1>1, <1>8, LinkedLeast DEF Linked
<1>. QED  BY <1>5, <1>7, <1>9

\* What a member of a list leads to is in the list.
LEMMA LinkedRest ==
  ASSUME NEW links \in Links, NEW task \in Waiter \cup {NoTask}, NEW w \in Linked(links, task)
  PROVE  Linked(links, links[w]) \subseteq Linked(links, task)
<1>1. HoldsList(links, Linked(links, task), task)
  BY LinkedHolds
<1>2. w \in Waiter /\ links[w] \in Waiter \cup {NoTask}
  BY DEF Linked, Links
<1>3. HoldsList(links, Linked(links, task), links[w])
  BY <1>1 DEF HoldsList
<1>. QED  BY <1>2, <1>3, LinkedLeast DEF Linked

\* A list is not changed by a link of a task that is not in it.
LEMMA LinkedElsewhere ==
  ASSUME NEW links \in Links, NEW task \in Waiter \cup {NoTask},
         NEW w \in Waiter, NEW next \in Waiter \cup {NoTask}, w \notin Linked(links, task)
  PROVE  Linked([links EXCEPT ![w] = next], task) = Linked(links, task)
<1>. DEFINE changed == [links EXCEPT ![w] = next]
            old == Linked(links, task)
            new == Linked(changed, task)
<1>1. changed \in Links
  BY DEF Links
<1>2. HoldsList(links, old, task) /\ HoldsList(changed, new, task)
  BY <1>1, LinkedHolds
<1>3. old \subseteq Waiter /\ new \subseteq Waiter
  BY DEF Linked
<1>4. HoldsList(changed, old, task)
  BY <1>2, <1>3 DEF HoldsList, Links
<1>5. new \subseteq old
  BY <1>1, <1>3, <1>4, LinkedLeast
<1>6. HoldsList(links, new, task)
  BY <1>2, <1>3, <1>5 DEF HoldsList, Links
<1>7. old \subseteq new
  BY <1>3, <1>6, LinkedLeast
<1>. QED  BY <1>5, <1>7

-----------------------------------------------------------------------------
(* Scopes *)

\* The innermost binding is in scope.
LEMMA InnermostInScope ==
  ASSUME TypeOK, scope # <<>>
  PROVE  Innermost \in Binding /\ InScope(Innermost)
<1>1. /\ scope \in Seq(Binding)
      /\ Len(scope) \in Nat /\ Len(scope) > 0 /\ DOMAIN scope = 1..Len(scope)
  BY DEF TypeOK
<1>2. Len(scope) \in DOMAIN scope
  BY <1>1
<1>3. scope[Len(scope)] \in Binding
  BY <1>1
<1>. QED  BY <1>2, <1>3 DEF Innermost, InScope

\* A declaration moves the next binding into scope.
LEMMA BeginEffect ==
  ASSUME TypeOK, ScopeInv, Begin, NEW l, l = Head(pending)
  PROVE  /\ l \in Binding /\ Ahead(l) /\ ~InScope(l)
         /\ \A m : InScope(m)' <=> InScope(m) \/ m = l
         /\ \A m : Ahead(m)' <=> Ahead(m) /\ m # l
         /\ IsInjective(scope') /\ IsInjective(pending')
         /\ owners' = [owners EXCEPT ![l] = {Parent}]
         /\ position' = [position EXCEPT ![l] = "running"]
         /\ records' = records \cup {l}
         /\ call = "body" /\ call' = "body" /\ wait[Parent] = "no" /\ canceller # "walk"
         /\ cancelled' \subseteq cancelled \cup {l}
<1>1. /\ pending # <<>> /\ pending' = Tail(pending) /\ scope' = Append(scope, l)
      /\ records' = records \cup {l}
      /\ owners' = [owners EXCEPT ![l] = {Parent}]
      /\ position' = [position EXCEPT ![l] = "running"]
      /\ call = "body" /\ call' = "body" /\ wait[Parent] = "no" /\ canceller # "walk"
      /\ cancelled' \subseteq cancelled \cup {l}
  BY DEF Begin, InBody
<1>2. pending \in Seq(Binding) /\ scope \in Seq(Binding)
  BY DEF TypeOK
<1>3. IsInjective(pending) /\ IsInjective(scope)
  BY DEF ScopeInv
<1>4. Len(pending) \in Nat /\ Len(pending) > 0 /\ DOMAIN pending = 1..Len(pending)
         /\ pending[1] = l
  BY <1>1, <1>2
<1>5. l \in Binding /\ Ahead(l)
  BY <1>2, <1>4 DEF Ahead
<1>6. ~InScope(l)
  BY <1>5 DEF ScopeInv
<1>7. \A m : InScope(m)' <=> InScope(m) \/ m = l
  <2>1. /\ Len(scope) \in Nat /\ DOMAIN scope = 1..Len(scope)
        /\ DOMAIN scope' = 1..(Len(scope) + 1) /\ scope'[Len(scope) + 1] = l
        /\ \A i \in 1..Len(scope) : scope'[i] = scope[i]
    BY <1>1, <1>2, <1>5
  <2>2. \A i \in 1..(Len(scope) + 1) : i \in 1..Len(scope) \/ i = Len(scope) + 1
    BY <2>1
  <2>. QED  BY <2>1, <2>2 DEF InScope
<1>8. /\ Len(pending') = Len(pending) - 1
      /\ DOMAIN pending' = 1..(Len(pending) - 1)
      /\ \A i \in 1..(Len(pending) - 1) : pending'[i] = pending[i + 1]
  BY <1>1, <1>2, <1>4
<1>9. \A m : Ahead(m)' <=> Ahead(m) /\ m # l
  <2>. SUFFICES ASSUME NEW m PROVE Ahead(m)' <=> Ahead(m) /\ m # l
    OBVIOUS
  <2>1. ASSUME Ahead(m)' PROVE Ahead(m) /\ m # l
    <3>1. PICK i \in 1..(Len(pending) - 1) : pending[i + 1] = m
      BY <1>8, <2>1 DEF Ahead
    <3>2. i + 1 \in DOMAIN pending /\ i + 1 # 1 /\ 1 \in DOMAIN pending
      BY <1>4, <3>1
    <3>. QED  BY <1>3, <1>4, <3>1, <3>2 DEF Ahead, IsInjective
  <2>2. ASSUME Ahead(m), m # l PROVE Ahead(m)'
    <3>1. PICK i \in DOMAIN pending : pending[i] = m
      BY <2>2 DEF Ahead
    <3>2. i # 1 /\ i \in 1..Len(pending)
      BY <1>4, <2>2, <3>1
    <3>3. i - 1 \in 1..(Len(pending) - 1) /\ pending'[i - 1] = m
      BY <1>4, <1>8, <3>1, <3>2
    <3>. QED  BY <1>8, <3>3 DEF Ahead
  <2>. QED  BY <2>1, <2>2
<1>10. IsInjective(pending')
  <2>. SUFFICES ASSUME NEW i \in DOMAIN pending', NEW j \in DOMAIN pending',
                       pending'[i] = pending'[j]
                PROVE  i = j
    BY DEF IsInjective
  <2>1. i \in 1..(Len(pending) - 1) /\ j \in 1..(Len(pending) - 1)
    BY <1>8
  <2>2. i + 1 \in DOMAIN pending /\ j + 1 \in DOMAIN pending /\ pending[i + 1] = pending[j + 1]
    BY <1>4, <1>8, <2>1
  <2>3. i + 1 = j + 1
    BY <1>3, <2>2 DEF IsInjective
  <2>. QED  BY <1>4, <2>1, <2>3
<1>11. IsInjective(scope')
  <2>1. Len(scope) \in Nat /\ DOMAIN scope = 1..Len(scope) /\ DOMAIN scope' = 1..(Len(scope) + 1)
    BY <1>1, <1>2, <1>5
  <2>2. scope'[Len(scope) + 1] = l /\ \A i \in DOMAIN scope : scope'[i] = scope[i] /\ scope[i] # l
    BY <1>1, <1>2, <1>6 DEF InScope
  <2>. QED  BY <1>3, <2>1, <2>2 DEF IsInjective
<1>. QED  BY <1>1, <1>5, <1>6, <1>7, <1>9, <1>10, <1>11

\* The end of a scope takes the innermost binding out of it.
LEMMA DestroyEffect ==
  ASSUME TypeOK, ScopeInv, DestroyTask, NEW l, l = Innermost
  PROVE  /\ l \in Binding /\ InScope(l) /\ ~Ahead(l)
         /\ \A m : InScope(m)' <=> InScope(m) /\ m # l
         /\ IsInjective(scope')
         /\ owners' = [owners EXCEPT ![l] = {}]
         /\ failed' = [failed EXCEPT ![l] = FALSE]
         /\ hasResult' = [hasResult EXCEPT ![l] = FALSE]
         /\ call = "destroy" /\ call' = "body"
<1>1. /\ call = "destroy" /\ call' = "body"
      /\ scope' = SubSeq(scope, 1, Len(scope) - 1)
      /\ owners' = [owners EXCEPT ![l] = {}]
      /\ failed' = [failed EXCEPT ![l] = FALSE]
      /\ hasResult' = [hasResult EXCEPT ![l] = FALSE]
  BY DEF DestroyTask
<1>2. scope # <<>>
  BY <1>1 DEF ScopeInv
<1>3. scope \in Seq(Binding) /\ Len(scope) \in Nat /\ Len(scope) > 0
         /\ DOMAIN scope = 1..Len(scope)
  BY <1>2 DEF TypeOK
<1>4. l \in Binding /\ InScope(l) /\ l = scope[Len(scope)]
  BY <1>2, InnermostInScope DEF Innermost
<1>5. ~Ahead(l)
  BY <1>4 DEF ScopeInv
<1>6. DOMAIN scope' = 1..(Len(scope) - 1) /\ \A i \in DOMAIN scope' : scope'[i] = scope[i]
  BY <1>1, <1>3
<1>7. IsInjective(scope)
  BY DEF ScopeInv
<1>8. \A i \in DOMAIN scope : scope[i] = l <=> i = Len(scope)
  BY <1>3, <1>4, <1>7 DEF IsInjective
<1>9. \A m : InScope(m)' <=> InScope(m) /\ m # l
  BY <1>3, <1>6, <1>8 DEF InScope
<1>10. IsInjective(scope')
  BY <1>3, <1>6, <1>7 DEF IsInjective
<1>. QED  BY <1>1, <1>4, <1>5, <1>9, <1>10

-----------------------------------------------------------------------------
(* Types *)

\* The types hold at the start.
LEMMA InitTypes == Init => TypeOK
<1>. SUFFICES ASSUME Init PROVE TypeOK
  OBVIOUS
<1>. PICK p \in Program : FutureInit(p.tasks) /\ pending = p.lets
  BY DEF Init
<1>1. FutureTypeOK
  BY LetAssumption DEF FutureTypeOK, FutureInit, Items, Item, Executing
<1>2. pending \in Seq(Binding)
  BY LetAssumption
<1>. QED  BY <1>1, <1>2 DEF Init, TypeOK

\* What a queue may hold
LEMMA ItemFacts ==
  /\ \A task \in Waiter \cup {NoTask} : Executing(task) \in Items
  /\ \A status \in {"success", "error"} : Item(status, NoTask) \in Items
  /\ \A item \in Items :
       /\ item.task \in Waiter \cup {NoTask}
       /\ item.status \in {"executing", "success", "error"}
       /\ item.status # "executing" => item.task = NoTask
  /\ \A task : Executing(task).status = "executing" /\ Executing(task).task = task
  /\ \A status, task : Item(status, task).status = status /\ Item(status, task).task = task
BY DEF Items, Executing, Item

\* Waiting keeps the types of the future's variables.
LEMMA WaiterTypes ==
  ASSUME FutureTypeOK, OwnerInv, NEW w \in Waiter,
         (\E f \in Future : StartWait(w, f)) \/ WaitStep(w) \/ EndWait(w)
  PROVE  FutureTypeOK'
<1>. USE DEF FutureTypeOK
<1>1. CASE \E f \in Future : StartWait(w, f)
  BY <1>1 DEF StartWait
<1>2. CASE LoadQueue(w)
  <2>1. waitQueue[waitsOn[w]] \in Items
    BY <1>2 DEF LoadQueue, OwnerInv
  <2>2. waitQueue[waitsOn[w]].status \in {"executing", "success", "error"}
    BY <2>1, ItemFacts
  <2>. QED  BY <1>2, <2>1, <2>2 DEF LoadQueue, ReturnsAtOnce
<1>3. CASE PushWaiter(w)
  BY <1>3, ItemFacts DEF PushWaiter
<1>4. CASE PushFails(w)
  <2>1. waitQueue[waitsOn[w]] \in Items /\ queueHead[w] \in Items
    BY <1>4 DEF PushFails, OwnerInv
  <2>2. /\ waitQueue[waitsOn[w]].status \in {"executing", "success", "error"}
        /\ queueHead[w].task \in Waiter \cup {NoTask}
    BY <2>1, ItemFacts
  <2>3. /\ nextWaitingTask' = [nextWaitingTask EXCEPT ![w] = queueHead[w].task]
        /\ queueHead' = [queueHead EXCEPT ![w] = waitQueue[waitsOn[w]]]
        /\ UNCHANGED <<waitQueue, owners, failed, position, waitingTask, following, waitsOn>>
    BY <1>4 DEF PushFails
  <2>4. /\ wait' \in [Waiter -> {"no", "load", "push", "suspended", "enqueued", "returned"}]
        /\ context' \in [Waiter -> {"none", "success", "error"}]
        /\ flagged' \in [Waiter -> BOOLEAN]
    BY <1>4, <2>2 DEF PushFails, ReturnsAtOnce
  <2>. QED  BY <2>1, <2>2, <2>3, <2>4
<1>5. CASE RunWaiter(w)
  BY <1>5 DEF RunWaiter
<1>6. CASE EndWait(w)
  BY <1>6, ItemFacts DEF EndWait
<1>. QED  BY <1>1, <1>2, <1>3, <1>4, <1>5, <1>6 DEF WaitStep

\* Completion keeps them.
LEMMA CompletionTypes ==
  ASSUME FutureTypeOK, NEW f \in Future,
         (\E throws \in BOOLEAN : CompleteTask(f, throws)) \/ CompletionStep(f) \/ DropHandle(f)
  PROVE  FutureTypeOK'
<1>. USE DEF FutureTypeOK
<1>1. CASE \E throws \in BOOLEAN : CompleteTask(f, throws)
  BY <1>1 DEF CompleteTask
<1>2. CASE ExchangeQueue(f)
  BY <1>2, ItemFacts DEF ExchangeQueue, ResultOf, Completed
<1>3. CASE CheckGroup(f)
  BY <1>3 DEF CheckGroup, Completed
<1>4. CASE FillWaiter(f)
  BY <1>4 DEF FillWaiter, ResultOf, Completed
<1>5. CASE EnqueueWaiter(f)
  BY <1>5 DEF EnqueueWaiter, Completed
<1>6. CASE NextWaiter(f)
  BY <1>6 DEF NextWaiter, Completed
<1>7. CASE EndTask(f)
  BY <1>7 DEF EndTask, Completed
<1>8. CASE DropHandle(f)
  BY <1>8 DEF DropHandle
<1>. QED  BY <1>1, <1>2, <1>3, <1>4, <1>5, <1>6, <1>7, <1>8 DEF CompletionStep

LetTypes ==
  /\ pending \in Seq(Binding)
  /\ scope \in Seq(Binding)
  /\ call \in {"body", "get", "finish", "consume", "remove", "destroy", "task"}
  /\ hasResult \in [Binding -> BOOLEAN]
  /\ buffer \in [Binding -> {"raw", "value", "misused"}]
  /\ records \in SUBSET Binding
  /\ cancelled \in SUBSET (Binding \cup {Parent})
  /\ canceller \in {"no", "lock", "walk", "done"}
  /\ toCancel \in SUBSET Binding

\* The types are kept.
LEMMA TypesKept ==
  ASSUME TypeOK, ScopeInv, OwnerInv, [Next]_vars
  PROVE  TypeOK'
<1>. USE LetAssumption
<1>a. FutureTypeOK /\ LetTypes
  BY DEF TypeOK, LetTypes
<1>b. (FutureTypeOK /\ LetTypes)' => TypeOK'
  BY DEF TypeOK, LetTypes
<1>1. CASE Begin
  <2>. DEFINE l == Head(pending)
  <2>1. l \in Binding
    BY <1>1, BeginEffect
  <2>2. FutureTypeOK'
    BY <1>1, <1>a, <2>1 DEF Begin, FutureTypeOK
  <2>3. Tail(pending) \in Seq(Binding)
    BY <1>1, <1>a DEF Begin, LetTypes
  <2>4. LetTypes'
    BY <1>1, <1>a, <2>1, <2>3 DEF Begin, LetTypes
  <2>. QED  BY <1>b, <2>2, <2>4
<1>2. CASE DestroyTask
  <2>1. Innermost \in Binding
    BY <1>2, DestroyEffect
  <2>2. FutureTypeOK'
    BY <1>2, <1>a, <2>1 DEF DestroyTask, FutureTypeOK
  <2>3. SubSeq(scope, 1, Len(scope) - 1) \in Seq(Binding)
    BY <1>a DEF LetTypes
  <2>4. LetTypes'
    BY <1>2, <1>a, <2>1, <2>3 DEF DestroyTask, LetTypes
  <2>. QED  BY <1>b, <2>2, <2>4
<1>3. CASE \E l \in Binding : Get(l)
  <2>. PICK l \in Binding : Get(l)
    BY <1>3
  <2>1. FutureTypeOK'
    BY <1>a, WaiterTypes DEF Get
  <2>2. LetTypes'
    BY <1>a DEF Get, LetTypes
  <2>. QED  BY <1>b, <2>1, <2>2
<1>4. CASE ConsumeWaits \/ FinishWaits
  <2>1. Innermost \in Binding
    BY <1>4, InnermostInScope DEF ConsumeWaits, FinishWaits
  <2>2. FutureTypeOK'
    BY <1>a, <1>4, <2>1, WaiterTypes DEF ConsumeWaits, FinishWaits
  <2>3. LetTypes'
    BY <1>a, <1>4, <2>1 DEF ConsumeWaits, FinishWaits, LetTypes
  <2>. QED  BY <1>b, <2>2, <2>3
<1>5. CASE ConsumePopulated \/ FinishPopulated
  <2>1. FutureTypeOK'
    BY <1>a, <1>5 DEF ConsumePopulated, FinishPopulated, futureVars, FutureTypeOK
  <2>2. LetTypes'
    BY <1>a, <1>5 DEF ConsumePopulated, FinishPopulated, Empty, LetTypes
  <2>. QED  BY <1>b, <2>1, <2>2
<1>6. CASE GetReturns \/ FinishReturns \/ ConsumeReturns
  <2>1. FutureTypeOK'
    BY <1>a, <1>6, WaiterTypes DEF GetReturns, FinishReturns, ConsumeReturns
  <2>2. LetTypes'
    <3>1. CASE GetReturns
      BY <1>a, <3>1 DEF GetReturns, Filled, Fill, LetTypes
    <3>2. CASE FinishReturns \/ ConsumeReturns
      BY <1>a, <3>2 DEF FinishReturns, ConsumeReturns, Filled, Fill, Empty, LetTypes
    <3>. QED  BY <1>6, <3>1, <3>2
  <2>. QED  BY <1>b, <2>1, <2>2
<1>7. CASE RemoveRecord
  <2>1. FutureTypeOK'
    BY <1>a, <1>7 DEF RemoveRecord, futureVars, FutureTypeOK
  <2>2. LetTypes'
    BY <1>a, <1>7 DEF RemoveRecord, LetTypes
  <2>. QED  BY <1>b, <2>1, <2>2
<1>8. CASE \E w \in Waiter : WaitStep(w) /\ UNCHANGED letVars
  <2>1. FutureTypeOK'
    BY <1>a, <1>8, WaiterTypes
  <2>2. LetTypes'
    BY <1>a, <1>8 DEF letVars, LetTypes
  <2>. QED  BY <1>b, <2>1, <2>2
<1>9. CASE \E w \in Waiter : TaskWaitReturns(w)
  <2>1. FutureTypeOK'
    BY <1>a, <1>9, WaiterTypes DEF TaskWaitReturns
  <2>2. LetTypes'
    BY <1>a, <1>9 DEF TaskWaitReturns, LetTypes
  <2>. QED  BY <1>b, <2>1, <2>2
<1>10. CASE \E w \in Waiter, f \in Future : WaitForTask(w, f)
  <2>1. FutureTypeOK'
    BY <1>a, <1>10, WaiterTypes DEF WaitForTask
  <2>2. LetTypes'
    BY <1>a, <1>10 DEF WaitForTask, LetTypes
  <2>. QED  BY <1>b, <2>1, <2>2
<1>11. CASE \E f \in Future : Completes(f) \/ (CompletionStep(f) /\ UNCHANGED letVars)
                              \/ (DropHandle(f) /\ UNCHANGED letVars)
  <2>1. FutureTypeOK'
    BY <1>a, <1>11, CompletionTypes DEF Completes
  <2>2. LetTypes'
    BY <1>a, <1>11 DEF Completes, letVars, LetTypes
  <2>. QED  BY <1>b, <2>1, <2>2
<1>12. CASE CancelParent \/ CancellerStep
  <2>1. FutureTypeOK'
    BY <1>a, <1>12 DEF CancelParent, CancellerStep, LockRecords, CancelRecord, CancelEnds,
                       futureVars, FutureTypeOK
  <2>2. LetTypes'
    BY <1>a, <1>12 DEF CancelParent, CancellerStep, LockRecords, CancelRecord, CancelEnds,
                       LetTypes
  <2>. QED  BY <1>b, <2>1, <2>2
<1>13. CASE UNCHANGED vars
  BY <1>a, <1>b, <1>13 DEF vars, futureVars, letVars, FutureTypeOK, LetTypes
<1>. QED
  BY <1>1, <1>2, <1>3, <1>4, <1>5, <1>6, <1>7, <1>8, <1>9, <1>10, <1>11, <1>12, <1>13
  DEF Next, Body, RuntimeStep

-----------------------------------------------------------------------------
(* Scopes, calls and owners *)

\* The tasks in the list of a future
Suspended(f) == {w \in Waiter : wait[w] = "suspended" /\ waitsOn[w] = f}

\* A task that a completing thread is about to wake is suspended on that thread's future.
LEMMA WokenIsSuspended ==
  ASSUME IInv, NEW f \in Future, NEW w, w = waitingTask[f],
         \/ position[f] = "enqueue"
         \/ position[f] \in {"group", "wake"} /\ w # NoTask
  PROVE  w \in Waiter /\ wait[w] = "suspended" /\ waitsOn[w] = f /\ IsAlive(f)
<1>1. w \in Waiter /\ nextWaitingTask \in Links
  BY DEF IInv, TypeOK, FutureTypeOK, ResultInv, Links
<1>2. w \in ListFrom(w)
  BY <1>1, LinkedHolds, FutureAssumption DEF ListFrom, HoldsList
<1>3. w \in ToResume(f)
  BY <1>2 DEF ToResume
<1>4. wait[w] = "suspended" /\ waitsOn[w] = f
  BY <1>3 DEF IInv, ListInv, WaitersAreListed
<1>5. IsAlive(f)
  BY <1>1, <1>4, LetAssumption DEF IInv, OwnerInv, ScopeInv, IsAlive
<1>. QED  BY <1>1, <1>4, <1>5

\* Where a completing thread can be next
LEMMA CompletionFacts ==
  ASSUME TypeOK, NEW f \in Future, CompletionStep(f)
  PROVE  /\ UNCHANGED <<failed, waitsOn>>
         /\ \A g \in Future \ {f} : position'[g] = position[g] /\ owners'[g] = owners[g]
         /\ position[f] = "exchange" \/ position[f] \in Completed
         /\ position[f] \notin {"none", "running", "done", "undefined"}
         /\ position'[f] \in Completed
         /\ \/ owners'[f] = owners[f]
            \/ position'[f] = "done" /\ owners'[f] = owners[f] \ {f}
         /\ position'[f] = "undefined" => ~IsAlive(f)
         /\ \/ wait' = wait
            \/ wait' = [wait EXCEPT ![waitingTask[f]] = "enqueued"] /\ position[f] = "enqueue"
<1>. USE DEF TypeOK, FutureTypeOK, Completed
<1>1. CASE ExchangeQueue(f)
  BY <1>1 DEF ExchangeQueue
<1>2. CASE CheckGroup(f)
  BY <1>2 DEF CheckGroup, IsAlive
<1>3. CASE FillWaiter(f)
  BY <1>3 DEF FillWaiter
<1>4. CASE EnqueueWaiter(f)
  BY <1>4 DEF EnqueueWaiter
<1>5. CASE NextWaiter(f)
  BY <1>5 DEF NextWaiter
<1>6. CASE EndTask(f)
  BY <1>6 DEF EndTask
<1>. QED  BY <1>1, <1>2, <1>3, <1>4, <1>5, <1>6 DEF CompletionStep

\* What a step of a waiting task leaves alone, and where the task can be next
LEMMA WaitFacts ==
  ASSUME TypeOK, NEW w \in Waiter, WaitStep(w)
  PROVE  /\ UNCHANGED <<owners, failed, position, waitingTask, following, waitsOn>>
         /\ \A v \in Waiter \ {w} :
              wait'[v] = wait[v] /\ context'[v] = context[v] /\ flagged'[v] = flagged[v]
              /\ nextWaitingTask'[v] = nextWaitingTask[v] /\ queueHead'[v] = queueHead[v]
         /\ wait[w] \in {"load", "push", "enqueued"}
         /\ wait'[w] \in {"push", "suspended", "returned"}
<1>. USE DEF TypeOK, FutureTypeOK
<1>1. CASE LoadQueue(w)
  BY <1>1 DEF LoadQueue, ReturnsAtOnce
<1>2. CASE PushWaiter(w)
  BY <1>2 DEF PushWaiter
<1>3. CASE PushFails(w)
  BY <1>3 DEF PushFails, ReturnsAtOnce
<1>4. CASE RunWaiter(w)
  BY <1>4 DEF RunWaiter
<1>. QED  BY <1>1, <1>2, <1>3, <1>4 DEF WaitStep

\* While scopes stay as they are, what must be kept is where the child tasks are.
LEMMA ScopesStay ==
  ASSUME ScopeInv, UNCHANGED <<scope, pending>>,
         \A l \in Binding : owners'[l] = owners[l],
         \A l \in Binding : Ahead(l) /\ position[l] = "none" => position'[l] = "none",
         call' \in {"finish", "consume", "remove", "destroy"} => scope # <<>>,
         call' \in {"remove", "destroy"} => position'[Innermost] \in Completed
  PROVE  ScopeInv'
<1>1. (\A l : InScope(l)' <=> InScope(l)) /\ (\A l : Ahead(l)' <=> Ahead(l))
         /\ Innermost' = Innermost
  BY DEF InScope, Ahead, Innermost
<1>. QED  BY <1>1 DEF ScopeInv

LEMMA ScopeInit == Init => ScopeInv
<1>. SUFFICES ASSUME Init PROVE ScopeInv
  OBVIOUS
<1>. PICK p \in Program : FutureInit(p.tasks) /\ pending = p.lets
  BY DEF Init
<1>1. p.tasks \subseteq Future \ Binding /\ IsInjective(p.lets) /\ Binding \subseteq Future
  BY LetAssumption
<1>2. \A l : ~InScope(l)
  BY DEF Init, InScope
<1>3. IsInjective(scope)
  BY DEF Init, IsInjective
<1>. QED  BY <1>1, <1>2, <1>3 DEF Init, ScopeInv, FutureInit

LEMMA ScopesKept ==
  ASSUME IInv, [Next]_vars
  PROVE  ScopeInv'
<1>. USE LetAssumption, FutureAssumption
<1>a. ScopeInv /\ TypeOK
  BY DEF IInv
<1>1. CASE Begin
  <2>. DEFINE l == Head(pending)
  <2>1. l \in Binding /\ position \in [Future -> {"none", "running", "exchange"} \cup Completed]
        /\ owners \in [Future -> SUBSET (Future \cup Waiter \cup {Handle})]
    BY <1>1, <1>a, BeginEffect DEF TypeOK, FutureTypeOK
  <2>. HIDE DEF l
  <2>2. /\ Ahead(l) /\ ~InScope(l)
        /\ \A m : InScope(m)' <=> InScope(m) \/ m = l
        /\ \A m : Ahead(m)' <=> Ahead(m) /\ m # l
        /\ IsInjective(scope') /\ IsInjective(pending')
        /\ owners' = [owners EXCEPT ![l] = {Parent}]
        /\ position' = [position EXCEPT ![l] = "running"]
        /\ call' = "body"
    BY <1>1, <1>a, BeginEffect DEF l
  <2>. QED  BY <1>a, <2>1, <2>2 DEF ScopeInv
<1>2. CASE DestroyTask
  <2>. DEFINE l == Innermost
  <2>1. l \in Binding /\ owners \in [Future -> SUBSET (Future \cup Waiter \cup {Handle})]
    BY <1>2, <1>a, DestroyEffect DEF TypeOK, FutureTypeOK
  <2>. HIDE DEF l
  <2>2. /\ InScope(l) /\ ~Ahead(l)
        /\ \A m : InScope(m)' <=> InScope(m) /\ m # l
        /\ IsInjective(scope')
        /\ owners' = [owners EXCEPT ![l] = {}]
        /\ call' = "body"
    BY <1>2, <1>a, DestroyEffect DEF l
  <2>3. \A m : Ahead(m)' <=> Ahead(m)
    BY <1>2 DEF DestroyTask, Ahead
  <2>4. UNCHANGED <<pending, position>>
    BY <1>2 DEF DestroyTask
  <2>. QED  BY <1>a, <2>1, <2>2, <2>3, <2>4 DEF ScopeInv
<1>3. CASE \E l \in Binding : Get(l)
  BY <1>3, <1>a, ScopesStay DEF Get, StartWait
<1>4. CASE ConsumeWaits \/ FinishWaits
  BY <1>4, <1>a, ScopesStay DEF ConsumeWaits, FinishWaits, StartWait
<1>5. CASE ConsumePopulated \/ FinishPopulated
  <2>1. UNCHANGED <<scope, pending, owners, position>> /\ scope # <<>> /\ call' = "remove"
        /\ hasResult[Innermost] /\ call = "body"
    BY <1>5 DEF ConsumePopulated, FinishPopulated, futureVars, InBody
  <2>2. position[Innermost] \in Completed
    BY <1>a, <2>1, InnermostInScope DEF IInv, BufferInv
  <2>. QED  BY <1>a, <2>1, <2>2, ScopesStay
<1>6. CASE GetReturns
  BY <1>6, <1>a, ScopesStay DEF GetReturns, EndWait
<1>7. CASE FinishReturns \/ ConsumeReturns
  <2>1. UNCHANGED <<scope, pending, owners, position>> /\ call \in {"finish", "consume"}
           /\ call' = "remove"
        /\ wait[Parent] = "returned"
    BY <1>7 DEF FinishReturns, ConsumeReturns, EndWait
  <2>2. scope # <<>> /\ position[Innermost] \in Completed
    BY <2>1 DEF IInv, ScopeInv, CallInv, ResultInv
  <2>. QED  BY <1>a, <2>1, <2>2, ScopesStay
<1>8. CASE RemoveRecord
  <2>1. UNCHANGED <<scope, pending, owners, position>> /\ call = "remove"
    BY <1>8 DEF RemoveRecord, futureVars
  <2>2. scope # <<>> /\ position[Innermost] \in Completed
    BY <2>1 DEF IInv, ScopeInv
  <2>. QED  BY <1>a, <2>1, <2>2, ScopesStay
<1>9. CASE \E w \in Waiter : WaitStep(w) /\ UNCHANGED letVars
  <2>1. UNCHANGED <<scope, pending, owners, position, call>>
    BY <1>9, <1>a, WaitFacts DEF letVars
  <2>. QED  BY <1>a, <2>1, ScopesStay DEF ScopeInv
<1>10. CASE \E w \in Waiter : TaskWaitReturns(w)
  <2>1. UNCHANGED <<scope, pending, owners, position>> /\ (call' = call \/ call' = "body")
    BY <1>10 DEF TaskWaitReturns, EndWait
  <2>. QED  BY <1>a, <2>1, ScopesStay DEF ScopeInv
<1>11. CASE \E w \in Waiter, f \in Future : WaitForTask(w, f)
  <2>1. UNCHANGED <<scope, pending, owners, position>> /\ (call' = call \/ call' = "task")
    BY <1>11 DEF WaitForTask, StartWait
  <2>. QED  BY <1>a, <2>1, ScopesStay DEF ScopeInv
<1>12. CASE \E f \in Future : DropHandle(f) /\ UNCHANGED letVars
  <2>. PICK f \in Future : DropHandle(f) /\ UNCHANGED letVars
    BY <1>12
  <2>1. UNCHANGED <<scope, pending, position, call>> /\ Handle \in owners[f]
        /\ owners' = [owners EXCEPT ![f] = @ \ {Handle}]
    BY DEF DropHandle, letVars
  <2>2. f \notin Binding
    BY <1>a, <2>1 DEF ScopeInv
  <2>3. \A l \in Binding : owners'[l] = owners[l]
    BY <1>a, <2>1, <2>2 DEF TypeOK, FutureTypeOK
  <2>. QED  BY <1>a, <2>1, <2>3, ScopesStay DEF ScopeInv
<1>13. CASE \E f \in Future : Completes(f)
  <2>. PICK f \in Future : Completes(f)
    BY <1>13
  <2>1. UNCHANGED <<scope, pending, owners, call>> /\ position[f] = "running"
        /\ position' = [position EXCEPT ![f] = "exchange"]
    BY DEF Completes, CompleteTask, letVars
  <2>2. \A l \in Future : position[l] \in Completed \cup {"none"} => position'[l] = position[l]
    BY <1>a, <2>1 DEF TypeOK, FutureTypeOK, Completed
  <2>3. call \in {"remove", "destroy"} => position'[Innermost] \in Completed
    BY <1>a, <2>2, InnermostInScope DEF ScopeInv
  <2>. QED  BY <1>a, <2>1, <2>2, <2>3, ScopesStay DEF ScopeInv
<1>14. CASE \E f \in Future : CompletionStep(f) /\ UNCHANGED letVars
  <2>. PICK f \in Future : CompletionStep(f) /\ UNCHANGED letVars
    BY <1>14
  <2>1. UNCHANGED <<scope, pending, call>>
    BY DEF letVars
  <2>2. ASSUME NEW l \in Binding PROVE owners'[l] = owners[l]
    <3>1. f \in Binding => f \notin owners[f]
      BY <1>a DEF ScopeInv
    <3>2. owners'[f] = owners[f] \/ owners'[f] = owners[f] \ {f}
      BY <1>a, CompletionFacts
    <3>3. l # f => owners'[l] = owners[l]
      BY <1>a, CompletionFacts
    <3>. QED  BY <3>1, <3>2, <3>3
  <2>3. \A l \in Future : /\ position[l] = "none" => position'[l] = "none"
                          /\ position[l] \in Completed => position'[l] \in Completed
    BY <1>a, CompletionFacts
  <2>4. call \in {"remove", "destroy"} => position'[Innermost] \in Completed
    BY <1>a, <2>3, InnermostInScope DEF ScopeInv
  <2>. QED  BY <1>a, <2>1, <2>2, <2>3, <2>4, ScopesStay DEF ScopeInv
<1>15. CASE CancelParent \/ CancellerStep \/ UNCHANGED vars
  <2>1. UNCHANGED <<scope, pending, owners, position, call>>
    BY <1>15 DEF CancelParent, CancellerStep, LockRecords, CancelRecord, CancelEnds, vars,
                 futureVars, letVars
  <2>. QED  BY <1>a, <2>1, ScopesStay DEF ScopeInv
<1>. QED
  BY <1>1, <1>2, <1>3, <1>4, <1>5, <1>6, <1>7, <1>8, <1>9, <1>10, <1>11, <1>12, <1>13, <1>14,
     <1>15 DEF Next, Body, RuntimeStep

\* The parent is in a wait exactly in the calls that wait.
LEMMA CallInit == Init => CallInv
BY LetAssumption DEF Init, FutureInit, CallInv

LEMMA CallsKept ==
  ASSUME IInv, [Next]_vars
  PROVE  CallInv'
<1>. USE LetAssumption, FutureAssumption
<1>a. /\ CallInv /\ TypeOK
         /\ wait \in [Waiter -> {"no", "load", "push", "suspended", "enqueued", "returned"}]
      /\ waitsOn \in [Waiter -> Future \cup {NoTask}]
  BY DEF IInv, TypeOK, FutureTypeOK
<1>1. CASE Begin
  <2>1. call = "body" /\ call' = "body" /\ UNCHANGED <<wait, waitsOn>>
    BY <1>1 DEF Begin, InBody
  <2>. QED  BY <1>a, <2>1 DEF CallInv
<1>2. CASE DestroyTask
  <2>1. call = "destroy" /\ call' = "body" /\ UNCHANGED <<wait, waitsOn>>
    BY <1>2 DEF DestroyTask
  <2>. QED  BY <1>a, <2>1 DEF CallInv
<1>3. CASE \E l \in Binding : Get(l)
  BY <1>3, <1>a DEF CallInv, Get, StartWait
<1>4. CASE ConsumeWaits \/ FinishWaits
  <2>1. /\ call' \in {"finish", "consume"} /\ StartWait(Parent, Innermost) /\ scope' = scope
        /\ Innermost \in Binding
    BY <1>4, <1>a, InnermostInScope DEF ConsumeWaits, FinishWaits
  <2>2. Innermost' = Innermost
    BY <2>1 DEF Innermost
  <2>. QED  BY <1>a, <2>1, <2>2 DEF CallInv, StartWait
<1>5. CASE ConsumePopulated \/ FinishPopulated \/ RemoveRecord
  BY <1>5, <1>a DEF CallInv, ConsumePopulated, FinishPopulated, RemoveRecord, InBody, futureVars
<1>6. CASE GetReturns \/ FinishReturns \/ ConsumeReturns
  BY <1>6, <1>a DEF CallInv, GetReturns, FinishReturns, ConsumeReturns, EndWait
<1>7. CASE \E w \in Waiter : WaitStep(w) /\ UNCHANGED letVars
  <2>1. UNCHANGED <<waitsOn, call, scope>> /\ (wait[Parent] = "no" <=> wait'[Parent] = "no")
    BY <1>7, <1>a, WaitFacts DEF letVars
  <2>. QED  BY <1>a, <2>1 DEF CallInv, Innermost
<1>8. CASE \E w \in Waiter : TaskWaitReturns(w)
  <2>. PICK w \in Waiter : TaskWaitReturns(w)
    BY <1>8
  <2>1. /\ UNCHANGED scope /\ Innermost' = Innermost
        /\ wait' = [wait EXCEPT ![w] = "no"] /\ waitsOn' = [waitsOn EXCEPT ![w] = NoTask]
        /\ call' = IF w = Parent THEN "body" ELSE call
    BY DEF TaskWaitReturns, EndWait, Innermost
  <2>. QED  BY <1>a, <2>1 DEF CallInv
<1>9. CASE \E w \in Waiter, f \in Future : WaitForTask(w, f)
  <2>. PICK w \in Waiter, f \in Future : WaitForTask(w, f)
    BY <1>9
  <2>1. /\ UNCHANGED scope /\ Innermost' = Innermost /\ Handle \in owners[f]
        /\ wait' = [wait EXCEPT ![w] = "load"] /\ waitsOn' = [waitsOn EXCEPT ![w] = f]
        /\ call' = IF w = Parent THEN "task" ELSE call
    BY DEF WaitForTask, StartWait, Innermost
  <2>2. f \notin Binding
    BY <2>1 DEF IInv, ScopeInv
  <2>. QED  BY <1>a, <2>1, <2>2 DEF CallInv
<1>10. CASE \E f \in Future : Completes(f) \/ (DropHandle(f) /\ UNCHANGED letVars)
  BY <1>10, <1>a DEF CallInv, Completes, CompleteTask, DropHandle, letVars, Innermost
<1>11. CASE \E f \in Future : CompletionStep(f) /\ UNCHANGED letVars
  <2>. PICK f \in Future : CompletionStep(f) /\ UNCHANGED letVars
    BY <1>11
  <2>1. UNCHANGED <<call, scope, waitsOn>> /\ Innermost' = Innermost
    BY <1>a, CompletionFacts DEF letVars, Innermost
  <2>2. wait[Parent] = "no" <=> wait'[Parent] = "no"
    <3>1. position[f] = "enqueue" => waitingTask[f] \in Waiter
             /\ wait[waitingTask[f]] = "suspended"
      BY WokenIsSuspended
    <3>. QED  BY <1>a, <3>1, CompletionFacts
  <2>. QED  BY <1>a, <2>1, <2>2 DEF CallInv
<1>12. CASE CancelParent \/ CancellerStep \/ UNCHANGED vars
  <2>1. UNCHANGED <<wait, waitsOn, call, scope>>
    BY <1>12 DEF CancelParent, CancellerStep, LockRecords, CancelRecord, CancelEnds, vars,
                 futureVars, letVars
  <2>. QED  BY <1>a, <2>1 DEF CallInv, Innermost
<1>. QED
  BY <1>1, <1>2, <1>3, <1>4, <1>5, <1>6, <1>7, <1>8, <1>9, <1>10, <1>11, <1>12
  DEF Next, Body, RuntimeStep

\* A task is kept alive as long as its thread or a waiting task needs it.
LEMMA OwnerInit == Init => OwnerInv
<1>. SUFFICES ASSUME Init PROVE OwnerInv
  OBVIOUS
<1>. PICK p \in Program : FutureInit(p.tasks) /\ pending = p.lets
  BY DEF Init
<1>. QED  BY LetAssumption DEF FutureInit, OwnerInv, IsAlive

\* Part of it while no wait begins or ends and no scope changes
LEMMA OwnersStay ==
  ASSUME OwnerInv, \A w \in Waiter : (wait[w] = "no" <=> wait'[w] = "no")
     /\ waitsOn'[w] = waitsOn[w],
         UNCHANGED <<scope, position, owners>>
  PROVE  OwnerInv'
<1>1. \A l : InScope(l)' <=> InScope(l)
  BY DEF InScope
<1>. QED  BY <1>1 DEF OwnerInv, IsAlive

\* A wait begins for a binding in scope, or for a task that the waiting task has a handle of.
LEMMA OwnersAtWait ==
  ASSUME TypeOK, OwnerInv, UNCHANGED scope, NEW w \in Waiter, NEW f \in Future, StartWait(w, f),
         IF f \in Binding THEN w = Parent /\ InScope(f) ELSE Handle \in owners[f]
  PROVE  OwnerInv'
<1>1. \A l : InScope(l)' <=> InScope(l)
  BY DEF InScope
<1>2. /\ UNCHANGED <<position, owners>>
      /\ wait' = [wait EXCEPT ![w] = "load"] /\ waitsOn' = [waitsOn EXCEPT ![w] = f]
  BY DEF StartWait
<1>3. waitsOn'[w] = f /\ \A v \in Waiter \ {w} : wait'[v] = wait[v] /\ waitsOn'[v] = waitsOn[v]
  BY <1>2 DEF TypeOK, FutureTypeOK
<1>. QED  BY <1>1, <1>2, <1>3 DEF OwnerInv, IsAlive

LEMMA OwnersAfterWait ==
  ASSUME TypeOK, OwnerInv, UNCHANGED scope, NEW w \in Waiter, EndWait(w)
  PROVE  OwnerInv'
<1>1. \A l : InScope(l)' <=> InScope(l)
  BY DEF InScope
<1>2. UNCHANGED <<position, owners>> /\ wait'[w] = "no"
      /\ \A v \in Waiter \ {w} : wait'[v] = wait[v] /\ waitsOn'[v] = waitsOn[v]
  BY DEF EndWait, TypeOK, FutureTypeOK
<1>. QED  BY <1>1, <1>2 DEF OwnerInv, IsAlive

LEMMA OwnersKept ==
  ASSUME IInv, [Next]_vars
  PROVE  OwnerInv'
<1>. USE LetAssumption, FutureAssumption
<1>a. /\ OwnerInv /\ TypeOK /\ ScopeInv
      /\ position \in [Future -> {"none", "running", "exchange"} \cup Completed]
      /\ owners \in [Future -> SUBSET (Future \cup Waiter \cup {Handle})]
  BY DEF IInv, TypeOK, FutureTypeOK
<1>1. CASE Begin
  <2>. DEFINE l == Head(pending)
  <2>1. l \in Binding /\ UNCHANGED <<wait, waitsOn>>
    BY <1>1, <1>a, BeginEffect DEF Begin
  <2>. HIDE DEF l
  <2>2. /\ \A m : InScope(m)' <=> InScope(m) \/ m = l
        /\ owners' = [owners EXCEPT ![l] = {Parent}]
        /\ position' = [position EXCEPT ![l] = "running"]
    BY <1>1, <1>a, BeginEffect DEF l
  <2>3. owners'[l] = {Parent} /\ \A f \in Future \ {l} : owners'[f] = owners[f]
           /\ position'[f] = position[f]
    BY <1>a, <2>1, <2>2
  <2>. QED  BY <1>a, <2>1, <2>2, <2>3 DEF OwnerInv, IsAlive
<1>2. CASE DestroyTask
  <2>. DEFINE l == Innermost
  <2>1. l \in Binding /\ UNCHANGED <<wait, waitsOn, position>> /\ position[l] \in Completed
    BY <1>2, <1>a, DestroyEffect DEF DestroyTask, ScopeInv
  <2>2. wait[Parent] = "no"
    BY <1>2 DEF DestroyTask, IInv, CallInv
  <2>. HIDE DEF l
  <2>3. /\ \A m : InScope(m)' <=> InScope(m) /\ m # l
        /\ owners' = [owners EXCEPT ![l] = {}]
    BY <1>2, <1>a, DestroyEffect DEF l
  <2>4. \A f \in Future \ {l} : owners'[f] = owners[f]
    BY <1>a, <2>1, <2>3
  <2>5. \A w \in Waiter : wait[w] # "no" => waitsOn[w] # l
    BY <1>a, <2>1, <2>2 DEF OwnerInv
  <2>. QED  BY <1>a, <2>1, <2>2, <2>3, <2>4, <2>5 DEF OwnerInv, IsAlive, Completed
<1>3. CASE \E l \in Binding : Get(l)
  BY <1>3, <1>a, OwnersAtWait DEF Get, InScope
<1>4. CASE ConsumeWaits \/ FinishWaits
  <2>1. scope # <<>> /\ StartWait(Parent, Innermost) /\ UNCHANGED scope
    BY <1>4 DEF ConsumeWaits, FinishWaits
  <2>. QED  BY <1>a, <2>1, InnermostInScope, OwnersAtWait
<1>5. CASE ConsumePopulated \/ FinishPopulated \/ RemoveRecord
  <2>1. UNCHANGED <<scope, position, owners, wait, waitsOn>>
    BY <1>5 DEF ConsumePopulated, FinishPopulated, RemoveRecord, futureVars
  <2>. QED  BY <1>a, <2>1, OwnersStay
<1>6. CASE GetReturns \/ FinishReturns \/ ConsumeReturns \/ \E w \in Waiter : TaskWaitReturns(w)
  BY <1>6, <1>a, OwnersAfterWait DEF GetReturns, FinishReturns, ConsumeReturns, TaskWaitReturns
<1>7. CASE \E w \in Waiter : WaitStep(w) /\ UNCHANGED letVars
  <2>. PICK w \in Waiter : WaitStep(w) /\ UNCHANGED letVars
    BY <1>7
  <2>1. UNCHANGED <<scope, position, owners, waitsOn>>
    BY <1>a, WaitFacts DEF letVars
  <2>2. \A v \in Waiter : wait[v] = "no" <=> wait'[v] = "no"
    BY <1>a, WaitFacts
  <2>. QED  BY <1>a, <2>1, <2>2, OwnersStay
<1>8. CASE \E w \in Waiter, f \in Future : WaitForTask(w, f)
  <2>. PICK w \in Waiter, f \in Future : WaitForTask(w, f)
    BY <1>8
  <2>1. UNCHANGED scope /\ Handle \in owners[f] /\ StartWait(w, f)
    BY DEF WaitForTask
  <2>2. f \notin Binding
    BY <1>a, <2>1 DEF ScopeInv
  <2>. QED  BY <1>a, <2>1, <2>2, OwnersAtWait
<1>9. CASE \E f \in Future : DropHandle(f) /\ UNCHANGED letVars
  <2>. PICK f \in Future : DropHandle(f) /\ UNCHANGED letVars
    BY <1>9
  <2>1. /\ UNCHANGED <<scope, position, wait, waitsOn>> /\ \A w \in Waiter : waitsOn[w] # f
        /\ owners' = [owners EXCEPT ![f] = @ \ {Handle}] /\ Handle \in owners[f]
    BY DEF DropHandle, letVars
  <2>2. f \notin Binding
    BY <1>a, <2>1 DEF ScopeInv
  <2>3. owners'[f] = owners[f] \ {Handle} /\ \A g \in Future \ {f} : owners'[g] = owners[g]
    BY <1>a, <2>1
  <2>4. \A l : InScope(l)' <=> InScope(l)
    BY <2>1 DEF InScope
  <2>. QED  BY <1>a, <2>1, <2>2, <2>3, <2>4 DEF OwnerInv, IsAlive
<1>10. CASE \E f \in Future : Completes(f)
  <2>. PICK f \in Future : Completes(f)
    BY <1>10
  <2>1. /\ UNCHANGED <<scope, owners, wait, waitsOn>> /\ position[f] = "running"
        /\ position' = [position EXCEPT ![f] = "exchange"]
    BY DEF Completes, CompleteTask, letVars
  <2>2. \A l : InScope(l)' <=> InScope(l)
    BY <2>1 DEF InScope
  <2>. QED  BY <1>a, <2>1, <2>2 DEF OwnerInv, IsAlive
<1>11. CASE \E f \in Future : CompletionStep(f) /\ UNCHANGED letVars
  <2>. PICK f \in Future : CompletionStep(f) /\ UNCHANGED letVars
    BY <1>11
  <2>1. UNCHANGED <<scope, waitsOn>> /\ \A l : InScope(l)' <=> InScope(l)
    BY <1>a, CompletionFacts DEF letVars, InScope
  <2>2. \A w \in Waiter : wait[w] = "no" <=> wait'[w] = "no"
    <3>1. position[f] = "enqueue" => waitingTask[f] \in Waiter
             /\ wait[waitingTask[f]] = "suspended"
      BY WokenIsSuspended
    <3>. QED  BY <1>a, <3>1, CompletionFacts DEF TypeOK, FutureTypeOK
  <2>3. \A g \in Future : Handle \in owners[g] => Handle \in owners'[g]
    BY <1>a, CompletionFacts
  <2>4. \A g \in Future \ Binding :
          position'[g] \notin {"none", "done", "undefined"} => g \in owners'[g]
    BY <1>a, CompletionFacts DEF OwnerInv
  <2>5. \A g \in Future : position'[g] \in {"running", "exchange"} => owners'[g] # {}
    BY <1>a, CompletionFacts DEF OwnerInv, IsAlive, Completed
  <2>. QED  BY <1>a, <2>1, <2>2, <2>3, <2>4, <2>5 DEF OwnerInv, IsAlive
<1>12. CASE CancelParent \/ CancellerStep \/ UNCHANGED vars
  <2>1. UNCHANGED <<wait, waitsOn, scope, position, owners>>
    BY <1>12 DEF CancelParent, CancellerStep, LockRecords, CancelRecord, CancelEnds, vars,
                 futureVars, letVars
  <2>. QED  BY <1>a, <2>1, OwnersStay
<1>. QED
  BY <1>1, <1>2, <1>3, <1>4, <1>5, <1>6, <1>7, <1>8, <1>9, <1>10, <1>11, <1>12
  DEF Next, Body, RuntimeStep

-----------------------------------------------------------------------------
(* Records *)

LEMMA RecordInit == Init => RecordInv
BY DEF Init, RecordInv, InScope

\* While scopes and records stay and the record of the innermost binding is not being removed
LEMMA RecordsStay ==
  ASSUME RecordInv, UNCHANGED <<scope, records, toCancel, canceller>>,
         call = "destroy" <=> call' = "destroy"
  PROVE  RecordInv'
<1>1. (\A l : InScope(l)' <=> InScope(l)) /\ Innermost' = Innermost
  BY DEF InScope, Innermost
<1>. QED  BY <1>1 DEF RecordInv

LEMMA RecordsKept ==
  ASSUME IInv, [Next]_vars
  PROVE  RecordInv'
<1>. USE LetAssumption, FutureAssumption
<1>a. RecordInv /\ TypeOK /\ ScopeInv
  BY DEF IInv
<1>1. CASE Begin
  <2>. DEFINE l == Head(pending)
  <2>1. l \in Binding /\ UNCHANGED <<canceller, toCancel>>
    BY <1>1, <1>a, BeginEffect DEF Begin
  <2>. HIDE DEF l
  <2>2. /\ \A m : InScope(m)' <=> InScope(m) \/ m = l
        /\ records' = records \cup {l} /\ call = "body" /\ call' = "body"
    BY <1>1, <1>a, BeginEffect DEF l
  <2>. QED  BY <1>a, <2>1, <2>2 DEF RecordInv
<1>2. CASE DestroyTask
  <2>. DEFINE l == Innermost
  <2>1. l \in Binding /\ UNCHANGED <<records, canceller, toCancel>>
    BY <1>2, <1>a, DestroyEffect DEF DestroyTask
  <2>2. records = {m \in Binding : InScope(m)} \ {l}
    BY <1>2, <1>a DEF RecordInv, DestroyTask
  <2>. HIDE DEF l
  <2>3. /\ \A m : InScope(m)' <=> InScope(m) /\ m # l
        /\ call' = "body"
    BY <1>2, <1>a, DestroyEffect DEF l
  <2>. QED  BY <1>a, <2>1, <2>2, <2>3 DEF RecordInv
<1>3. CASE RemoveRecord
  <2>1. /\ UNCHANGED <<scope, canceller, toCancel>> /\ canceller # "walk"
        /\ call = "remove" /\ call' = "destroy" /\ records' = records \ {Innermost}
    BY <1>3 DEF RemoveRecord
  <2>2. (\A l : InScope(l)' <=> InScope(l)) /\ Innermost' = Innermost
    BY <2>1 DEF InScope, Innermost
  <2>. QED  BY <1>a, <2>1, <2>2 DEF RecordInv
<1>4. CASE \/ \E l \in Binding : Get(l)
           \/ ConsumeWaits \/ FinishWaits \/ ConsumePopulated \/ FinishPopulated
           \/ GetReturns \/ FinishReturns \/ ConsumeReturns
  <2>1. /\ UNCHANGED <<scope, records, toCancel, canceller>> /\ call # "destroy"
           /\ call' # "destroy"
    BY <1>4 DEF Get, ConsumeWaits, FinishWaits, ConsumePopulated, FinishPopulated, GetReturns,
                FinishReturns, ConsumeReturns, InBody
  <2>. QED  BY <1>a, <2>1, RecordsStay
<1>5. CASE \E w \in Waiter : TaskWaitReturns(w) \/ \E f \in Future : WaitForTask(w, f)
  <2>1. UNCHANGED <<scope, records, toCancel, canceller>>
           /\ (call = "destroy" <=> call' = "destroy")
    BY <1>5 DEF TaskWaitReturns, WaitForTask, InBody
  <2>. QED  BY <1>a, <2>1, RecordsStay
<1>6. CASE \/ \E w \in Waiter : WaitStep(w) /\ UNCHANGED letVars
           \/ \E f \in Future : \/ Completes(f)
                                \/ (CompletionStep(f) \/ DropHandle(f)) /\ UNCHANGED letVars
           \/ UNCHANGED vars
  BY <1>6, <1>a, RecordsStay DEF Completes, letVars, vars
<1>7. CASE CancelParent \/ CancellerStep
  <2>1. UNCHANGED <<scope, call, records>>
    BY <1>7 DEF CancelParent, CancellerStep, LockRecords, CancelRecord, CancelEnds
  <2>2. (\A l : InScope(l)' <=> InScope(l)) /\ Innermost' = Innermost
    BY <2>1 DEF InScope, Innermost
  <2>3. toCancel' \subseteq records /\ (canceller' # "walk" => toCancel' = {})
    BY <1>7, <1>a DEF CancelParent, CancellerStep, LockRecords, CancelRecord, CancelEnds,
       RecordInv
  <2>. QED  BY <1>a, <2>1, <2>2, <2>3 DEF RecordInv
<1>. QED
  BY <1>1, <1>2, <1>3, <1>4, <1>5, <1>6, <1>7 DEF Next, Body, RuntimeStep

-----------------------------------------------------------------------------
(* Results *)

LEMMA ResultInit == Init => ResultInv
<1>. SUFFICES ASSUME Init PROVE ResultInv
  OBVIOUS
<1>. PICK p \in Program : FutureInit(p.tasks) /\ pending = p.lets
  BY DEF Init
<1>. QED  BY ItemFacts DEF FutureInit, ResultInv, Completed

\* Part of it while no queue, position or result changes
LEMMA ResultsStay ==
  ASSUME ResultInv, UNCHANGED <<waitQueue, position, failed, waitingTask, following>>,
         \A f \in Future : owners'[f] # {} => owners[f] # {},
         \A f \in Future : position[f] = "enqueue" =>
           /\ nextWaitingTask'[waitingTask[f]] = nextWaitingTask[waitingTask[f]]
           /\ context'[waitingTask[f]] = context[waitingTask[f]],
         \A w \in Waiter :
           /\ wait'[w] = "push" => queueHead'[w].status = "executing"
           /\ wait'[w] \in {"enqueued", "returned"} =>
                position[waitsOn'[w]] \in Completed /\ context'[w] = ResultOf(waitsOn'[w])
           /\ wait'[w] = "returned" => ~flagged'[w]
  PROVE  ResultInv'
<1>1. \A f : ResultOf(f)' = ResultOf(f)
  BY DEF ResultOf
<1>. QED  BY <1>1 DEF ResultInv, IsAlive, ResultOf

\* Part of it when one task that is not suspended goes on, and takes no wrong result
LEMMA ResultsAtWaiter ==
  ASSUME IInv, NEW w \in Waiter, wait[w] # "suspended",
         UNCHANGED <<position, failed, waitingTask, following, owners>>,
         \A f \in Future : waitQueue'[f].status = waitQueue[f].status,
         \A v \in Waiter \ {w} :
           /\ wait'[v] = wait[v] /\ waitsOn'[v] = waitsOn[v] /\ context'[v] = context[v]
           /\ flagged'[v] = flagged[v] /\ queueHead'[v] = queueHead[v]
           /\ nextWaitingTask'[v] = nextWaitingTask[v],
         wait'[w] = "push" => queueHead'[w].status = "executing",
         wait'[w] \in {"enqueued", "returned"} =>
           position[waitsOn'[w]] \in Completed /\ context'[w] = ResultOf(waitsOn'[w]),
         wait'[w] = "returned" => ~flagged'[w]
  PROVE  ResultInv'
<1>1. ResultInv
  BY DEF IInv
<1>2. \A f : ResultOf(f)' = ResultOf(f) /\ IsAlive(f)' = IsAlive(f)
  BY DEF ResultOf, IsAlive
<1>3. \A f \in Future : position[f] = "enqueue" => waitingTask[f] \in Waiter \ {w}
  BY WokenIsSuspended
<1>4. \A f \in Future :
        /\ waitQueue'[f].status = "executing" <=> position'[f] \notin Completed
        /\ waitQueue'[f].status # "executing"
           /\ IsAlive(f)' => waitQueue'[f].status = ResultOf(f)'
        /\ failed'[f] => f \in Throwing
        /\ position'[f] = "enqueue" =>
             /\ waitingTask'[f] # NoTask
             /\ following'[f] = nextWaitingTask'[waitingTask'[f]]
             /\ context'[waitingTask'[f]] = ResultOf(f)'
  BY <1>1, <1>2, <1>3 DEF ResultInv
<1>5. ASSUME NEW v \in Waiter
      PROVE  /\ wait'[v] = "push" => queueHead'[v].status = "executing"
             /\ wait'[v] \in {"enqueued", "returned"} =>
                  position'[waitsOn'[v]] \in Completed /\ context'[v] = ResultOf(waitsOn'[v])
             /\ wait'[v] = "returned" => ~flagged'[v]
  <2>1. CASE v = w
    BY <2>1
  <2>2. CASE v # w
    BY <1>1, <2>2 DEF ResultInv
  <2>. QED  BY <2>1, <2>2
<1>6. \A v \in Waiter : ResultOf(waitsOn[v])' = ResultOf(waitsOn'[v])
  BY DEF ResultOf
<1>. QED  BY <1>4, <1>5, <1>6 DEF ResultInv

LEMMA ResultsKept ==
  ASSUME IInv, [Next]_vars
  PROVE  ResultInv'
<1>. USE LetAssumption, FutureAssumption
<1>a. ResultInv /\ TypeOK /\ ScopeInv /\ OwnerInv
  BY DEF IInv
<1>b. /\ waitQueue \in [Future -> Items]
      /\ nextWaitingTask \in [Waiter -> Waiter \cup {NoTask}]
      /\ position \in [Future -> {"none", "running", "exchange"} \cup Completed]
      /\ owners \in [Future -> SUBSET (Future \cup Waiter \cup {Handle})]
      /\ failed \in [Future -> BOOLEAN]
      /\ waitsOn \in [Waiter -> Future \cup {NoTask}]
      /\ wait \in [Waiter -> {"no", "load", "push", "suspended", "enqueued", "returned"}]
      /\ queueHead \in [Waiter -> Items]
      /\ flagged \in [Waiter -> BOOLEAN]
      /\ context \in [Waiter -> {"none", "success", "error"}]
      /\ waitingTask \in [Future -> Waiter \cup {NoTask}]
      /\ following \in [Future -> Waiter \cup {NoTask}]
  BY <1>a DEF TypeOK, FutureTypeOK
<1>1. CASE Begin
  <2>. DEFINE l == Head(pending)
  <2>1. /\ l \in Binding
        /\ UNCHANGED <<waitQueue, failed, waitingTask, following, nextWaitingTask, context,
                       wait, queueHead, waitsOn, flagged>>
    BY <1>1, <1>a, BeginEffect DEF Begin
  <2>. HIDE DEF l
  <2>2. /\ owners' = [owners EXCEPT ![l] = {Parent}]
        /\ position' = [position EXCEPT ![l] = "running"]
        /\ position[l] = "none"
    BY <1>1, <1>a, BeginEffect DEF l, ScopeInv
  <2>3. "none" \notin Completed /\ "running" \notin Completed
    BY DEF Completed
  <2>4. \A f : ResultOf(f)' = ResultOf(f)
    BY <2>1 DEF ResultOf
  <2>5. \A w \in Waiter : ResultOf(waitsOn[w])' = ResultOf(waitsOn[w])
    BY <2>1 DEF ResultOf
  <2>6. \A w \in Waiter : wait[w] \in {"enqueued", "returned"} => waitsOn[w] # l
    BY <1>a, <2>2, <2>3 DEF ResultInv
  <2>. QED  BY <1>a, <1>b, <2>1, <2>2, <2>3, <2>4, <2>5, <2>6 DEF ResultInv, IsAlive
<1>2. CASE DestroyTask
  <2>. PICK l : l = Innermost
    OBVIOUS
  <2>1. l \in Binding /\ InScope(l)
        /\ UNCHANGED <<waitQueue, position, waitingTask, following, nextWaitingTask, context,
                       wait, queueHead, waitsOn, flagged>>
    BY <1>2, <1>a, DestroyEffect DEF DestroyTask
  <2>2. wait[Parent] = "no"
    BY <1>2 DEF DestroyTask, IInv, CallInv
  <2>3. /\ owners' = [owners EXCEPT ![l] = {}]
        /\ failed' = [failed EXCEPT ![l] = FALSE]
    BY <1>2, <1>a, DestroyEffect
  <2>4. \A f \in Future \ {l} : ResultOf(f)' = ResultOf(f) /\ (IsAlive(f)' <=> IsAlive(f))
    BY <1>b, <2>3 DEF ResultOf, IsAlive
  <2>5. \A w \in Waiter : wait[w] # "no" => waitsOn[w] \in Future \ {l}
    BY <1>a, <2>1, <2>2 DEF OwnerInv
  <2>6. position[l] # "enqueue" /\ ~IsAlive(l)'
    <3>1. position[l] # "enqueue"
      BY <2>1, <2>5, WokenIsSuspended
    <3>2. ~IsAlive(l)'
      BY <1>b, <2>1, <2>3 DEF IsAlive
    <3>. QED  BY <3>1, <3>2
  <2>7. \A w \in Waiter : wait[w] # "no" => ResultOf(waitsOn[w])' = ResultOf(waitsOn[w])
    BY <1>b, <2>1, <2>3, <2>5 DEF ResultOf
  <2>8. \A f \in Future : failed'[f] => failed[f]
    BY <1>b, <2>3
  <2>9. \A f \in Future :
          /\ waitQueue'[f].status = "executing" <=> position'[f] \notin Completed
          /\ waitQueue'[f].status # "executing"
             /\ IsAlive(f)' => waitQueue'[f].status = ResultOf(f)'
          /\ failed'[f] => f \in Throwing
          /\ position'[f] = "enqueue" =>
               /\ waitingTask'[f] # NoTask
               /\ following'[f] = nextWaitingTask'[waitingTask'[f]]
               /\ context'[waitingTask'[f]] = ResultOf(f)'
    BY <1>a, <2>1, <2>4, <2>6, <2>8 DEF ResultInv
  <2>10. \A w \in Waiter :
           /\ wait'[w] = "push" => queueHead'[w].status = "executing"
           /\ wait'[w] \in {"enqueued", "returned"} =>
                position'[waitsOn'[w]] \in Completed /\ context'[w] = ResultOf(waitsOn[w])'
           /\ wait'[w] = "returned" => ~flagged'[w]
    BY <1>a, <2>1, <2>7 DEF ResultInv
  <2>. QED  BY <2>9, <2>10 DEF ResultInv
<1>3. CASE \E w \in Waiter, f \in Future : StartWait(w, f)
  <2>. PICK w \in Waiter, f \in Future : StartWait(w, f)
    BY <1>3
  <2>. QED  BY <1>b, ResultsAtWaiter DEF StartWait
<1>4. CASE \E w \in Waiter : EndWait(w)
  <2>. PICK w \in Waiter : EndWait(w)
    BY <1>4
  <2>. QED  BY <1>b, ResultsAtWaiter DEF EndWait
<1>5. CASE \E w \in Waiter : WaitStep(w)
  <2>. PICK w \in Waiter : WaitStep(w)
    BY <1>5
  <2>a. /\ UNCHANGED <<position, failed, waitingTask, following, owners, waitsOn>>
        /\ wait[w] # "suspended" /\ wait[w] # "no"
        /\ \A v \in Waiter \ {w} :
             /\ wait'[v] = wait[v] /\ waitsOn'[v] = waitsOn[v] /\ context'[v] = context[v]
             /\ flagged'[v] = flagged[v] /\ queueHead'[v] = queueHead[v]
             /\ nextWaitingTask'[v] = nextWaitingTask[v]
    BY <1>a, WaitFacts
  <2>b. waitsOn[w] \in Future /\ IsAlive(waitsOn[w])
    BY <1>a, <2>a DEF OwnerInv, ScopeInv, IsAlive
  <2>c. /\ waitQueue[waitsOn[w]] \in Items
        /\ waitQueue[waitsOn[w]].status # "executing" =>
             position[waitsOn[w]] \in Completed
                /\ waitQueue[waitsOn[w]].status = ResultOf(waitsOn[w])
    BY <1>a, <1>b, <2>b DEF ResultInv
  <2>1. CASE LoadQueue(w)
    BY <1>b, <2>1, <2>a, <2>b, <2>c, ResultsAtWaiter DEF LoadQueue, ReturnsAtOnce
  <2>2. CASE PushWaiter(w)
    <3>1. \A f \in Future : waitQueue'[f].status = waitQueue[f].status
      BY <1>a, <1>b, <2>2, ItemFacts DEF PushWaiter, ResultInv
    <3>2. wait'[w] = "suspended"
      BY <1>b, <2>2 DEF PushWaiter
    <3>. QED  BY <2>a, <3>1, <3>2, ResultsAtWaiter
  <2>3. CASE PushFails(w)
    BY <1>b, <2>3, <2>a, <2>b, <2>c, ResultsAtWaiter DEF PushFails, ReturnsAtOnce
  <2>4. CASE RunWaiter(w)
    <3>1. wait[w] = "enqueued" /\ wait'[w] = "returned" /\ ~flagged'[w]
             /\ UNCHANGED <<waitQueue, context>>
      BY <1>b, <2>4 DEF RunWaiter
    <3>2. position[waitsOn[w]] \in Completed /\ context[w] = ResultOf(waitsOn[w])
      BY <1>a, <3>1 DEF ResultInv
    <3>. QED  BY <2>a, <3>1, <3>2, ResultsAtWaiter
  <2>. QED  BY <2>1, <2>2, <2>3, <2>4 DEF WaitStep
<1>6. CASE \E f \in Future : Completes(f)
  <2>. PICK f \in Future, throws \in BOOLEAN : (throws => f \in Throwing)
          /\ CompleteTask(f, throws)
    BY <1>6 DEF Completes
  <2>1. /\ position[f] = "running" /\ position' = [position EXCEPT ![f] = "exchange"]
        /\ failed' = [failed EXCEPT ![f] = throws]
        /\ UNCHANGED <<waitQueue, owners, waitingTask, following, nextWaitingTask, context,
                       wait, queueHead, waitsOn, flagged>>
    BY DEF CompleteTask
  <2>2. "running" \notin Completed /\ "exchange" \notin Completed
    BY DEF Completed
  <2>3. \A g \in Future \ {f} : ResultOf(g)' = ResultOf(g) /\ position'[g] = position[g]
    BY <1>b, <2>1 DEF ResultOf
  <2>4. \A w \in Waiter : wait[w] \in {"enqueued", "returned"} => waitsOn[w] \in Future \ {f}
    BY <1>a, <2>1, <2>2 DEF ResultInv, OwnerInv
  <2>5. \A w \in Waiter : wait[w] \in {"enqueued", "returned"} =>
          ResultOf(waitsOn[w])' = ResultOf(waitsOn[w])
    BY <1>b, <2>1, <2>4 DEF ResultOf
  <2>6. position'[f] = "exchange" /\ waitQueue[f].status = "executing"
           /\ (failed'[f] => f \in Throwing)
    BY <1>a, <1>b, <2>1, <2>2 DEF ResultInv
  <2>7. \A g \in Future \ {f} : failed'[g] = failed[g]
    BY <1>b, <2>1
  <2>. QED  BY <1>a, <2>1, <2>2, <2>3, <2>4, <2>5, <2>6, <2>7 DEF ResultInv, IsAlive
<1>7. CASE \E f \in Future : CompletionStep(f)
  <2>. PICK f \in Future : CompletionStep(f)
    BY <1>7
  <2>a. UNCHANGED <<failed, waitsOn>> /\ \A g : ResultOf(g)' = ResultOf(g)
    BY <1>a, CompletionFacts DEF ResultOf
  <2>b. \A w \in Waiter : ResultOf(waitsOn[w])' = ResultOf(waitsOn[w])
    BY <2>a DEF ResultOf
  <2>c. \A g \in Future : IsAlive(g)' => IsAlive(g)
    BY <1>a, CompletionFacts DEF IsAlive
  <2>d. \A g \in Future : /\ g # f => position'[g] = position[g]
                          /\ position[g] \in Completed => position'[g] \in Completed
    BY <1>a, CompletionFacts
  <2>1. CASE ExchangeQueue(f)
    <3>1. /\ position[f] = "exchange" /\ position' = [position EXCEPT ![f] = "group"]
          /\ waitQueue' = [waitQueue EXCEPT ![f] = Item(ResultOf(f), NoTask)]
          /\ waitingTask' = [waitingTask EXCEPT ![f] = waitQueue[f].task]
          /\ UNCHANGED <<owners, following, nextWaitingTask, context, wait, queueHead, flagged>>
      BY <2>1 DEF ExchangeQueue
    <3>2. "group" \in Completed /\ "enqueue" \in Completed /\ "exchange" \notin Completed
      BY DEF Completed
    <3>3. position'[f] = "group" /\ waitQueue'[f].status = ResultOf(f)
             /\ ResultOf(f) # "executing"
      BY <1>b, <3>1, ItemFacts DEF ResultOf
    <3>4. \A g \in Future \ {f} : waitQueue'[g] = waitQueue[g] /\ waitingTask'[g] = waitingTask[g]
      BY <1>b, <3>1
    <3>. QED  BY <1>a, <2>a, <2>b, <2>c, <2>d, <3>1, <3>2, <3>3, <3>4 DEF ResultInv
  <2>2. CASE CheckGroup(f) \/ NextWaiter(f) \/ EndTask(f)
    <3>1. /\ position[f] \in Completed /\ position'[f] \in Completed /\ position'[f] # "enqueue"
          /\ UNCHANGED <<waitQueue, nextWaitingTask, context, wait, queueHead, flagged>>
          /\ \A g \in Future \ {f} : waitingTask'[g] = waitingTask[g]
             /\ following'[g] = following[g]
      BY <1>b, <2>2 DEF CheckGroup, NextWaiter, EndTask, Completed
    <3>2. \A w \in Waiter : wait[w] \in {"enqueued", "returned"} => waitsOn[w] \in Future
      BY <1>a DEF OwnerInv
    <3>3. \A g \in Future : position'[g] = "enqueue" =>
            g # f /\ position[g] = "enqueue" /\ waitingTask'[g] = waitingTask[g]
            /\ following'[g] = following[g]
      BY <2>d, <3>1
    <3>4. \A g \in Future : position'[g] \in Completed <=> position[g] \in Completed
      BY <2>d, <3>1
    <3>. QED  BY <1>a, <2>a, <2>b, <2>c, <2>d, <3>1, <3>2, <3>3, <3>4 DEF ResultInv
  <2>3. CASE FillWaiter(f)
    <3>. DEFINE w == waitingTask[f]
    <3>1. /\ position[f] = "wake" /\ w # NoTask /\ position' = [position EXCEPT ![f] = "enqueue"]
          /\ following' = [following EXCEPT ![f] = nextWaitingTask[w]]
          /\ context' = [context EXCEPT ![w] = ResultOf(f)]
          /\ UNCHANGED <<waitQueue, nextWaitingTask, owners, waitingTask, wait, queueHead,
                         flagged>>
      BY <2>3 DEF FillWaiter
    <3>2. w \in Waiter /\ wait[w] = "suspended" /\ waitsOn[w] = f
      BY <3>1, WokenIsSuspended
    <3>3. \A g \in Future \ {f} : position[g] = "enqueue" => waitingTask[g] \in Waiter \ {w}
      BY <3>2, WokenIsSuspended
    <3>4. following'[f] = nextWaitingTask[w] /\ context'[w] = ResultOf(f)
             /\ position[f] \in Completed
          /\ position'[f] \in Completed
      BY <1>b, <3>1, <3>2 DEF Completed
    <3>5. /\ \A g \in Future \ {f} : following'[g] = following[g]
          /\ \A v \in Waiter \ {w} : context'[v] = context[v]
      BY <1>b, <3>1, <3>2
    <3>6. waitingTask'[f] = w
      BY <3>1
    <3>. HIDE DEF w
    <3>7. \A g \in Future : position'[g] = "enqueue" =>
            /\ waitingTask'[g] # NoTask
            /\ following'[g] = nextWaitingTask'[waitingTask'[g]]
            /\ context'[waitingTask'[g]] = ResultOf(g)
      BY <1>a, <2>d, <3>1, <3>2, <3>3, <3>4, <3>5, <3>6, FutureAssumption DEF ResultInv
    <3>8. \A v \in Waiter : wait[v] \in {"enqueued", "returned"} => context'[v] = context[v]
      BY <3>2, <3>5
    <3>. QED  BY <1>a, <2>a, <2>b, <2>c, <2>d, <3>1, <3>4, <3>7, <3>8 DEF ResultInv
  <2>4. CASE EnqueueWaiter(f)
    <3>. DEFINE w == waitingTask[f]
    <3>1. /\ position[f] = "enqueue" /\ position' = [position EXCEPT ![f] = "advance"]
          /\ wait' = [wait EXCEPT ![w] = "enqueued"]
          /\ UNCHANGED <<waitQueue, nextWaitingTask, owners, waitingTask, following, queueHead,
                         flagged, context>>
      BY <2>4 DEF EnqueueWaiter
    <3>2. w \in Waiter /\ wait[w] = "suspended" /\ waitsOn[w] = f /\ context[w] = ResultOf(f)
      BY <1>a, <3>1, WokenIsSuspended DEF ResultInv
    <3>3. position'[f] = "advance" /\ position[f] \in Completed /\ position'[f] \in Completed
      BY <1>b, <3>1 DEF Completed
    <3>4. wait'[w] = "enqueued" /\ \A v \in Waiter \ {w} : wait'[v] = wait[v]
      BY <1>b, <3>1, <3>2
    <3>. HIDE DEF w
    <3>. QED  BY <1>a, <2>a, <2>b, <2>c, <2>d, <3>1, <3>2, <3>3, <3>4 DEF ResultInv
  <2>. QED  BY <2>1, <2>2, <2>3, <2>4 DEF CompletionStep
<1>8. CASE \E f \in Future : DropHandle(f)
  <2>. PICK f \in Future : DropHandle(f)
    BY <1>8
  <2>1. UNCHANGED <<waitQueue, nextWaitingTask, failed, position, waitingTask, following, waitsOn,
                    wait, queueHead, flagged, context>>
        /\ owners' = [owners EXCEPT ![f] = @ \ {Handle}]
    BY DEF DropHandle
  <2>2. \A g \in Future : owners'[g] # {} => owners[g] # {}
    BY <1>b, <2>1
  <2>. QED  BY <1>a, <2>1, <2>2, ResultsStay DEF ResultInv
<1>9. CASE UNCHANGED futureVars
  BY <1>a, <1>9, ResultsStay DEF futureVars, ResultInv
<1>. QED
  <2>1. CASE \E l \in Binding : Get(l)
    BY <1>3, <2>1 DEF Get
  <2>2. CASE ConsumeWaits \/ FinishWaits
    BY <1>a, <1>3, <2>2, InnermostInScope DEF ConsumeWaits, FinishWaits
  <2>3. CASE GetReturns \/ FinishReturns \/ ConsumeReturns \/ \E w \in Waiter : TaskWaitReturns(w)
    BY <1>4, <2>3 DEF GetReturns, FinishReturns, ConsumeReturns, TaskWaitReturns
  <2>4. CASE \E w \in Waiter, f \in Future : WaitForTask(w, f)
    BY <1>3, <2>4 DEF WaitForTask
  <2>5. CASE \/ ConsumePopulated \/ FinishPopulated \/ RemoveRecord
             \/ CancelParent \/ CancellerStep \/ UNCHANGED vars
    BY <1>9, <2>5 DEF ConsumePopulated, FinishPopulated, RemoveRecord, CancelParent,
                      CancellerStep, LockRecords, CancelRecord, CancelEnds, vars
  <2>. QED
    BY <1>1, <1>2, <1>5, <1>6, <1>7, <1>8, <2>1, <2>2, <2>3, <2>4, <2>5 DEF Next, Body,
       RuntimeStep

-----------------------------------------------------------------------------
(* Waiting tasks *)

\* The types of what lists are made of
LEMMA ListTypes ==
  ASSUME TypeOK
  PROVE  /\ nextWaitingTask \in Links
         /\ \A f \in Future :
              /\ waitQueue[f].task \in Waiter \cup {NoTask}
              /\ waitingTask[f] \in Waiter \cup {NoTask}
              /\ following[f] \in Waiter \cup {NoTask}
         /\ \A w \in Waiter : nextWaitingTask[w] \in Waiter \cup {NoTask}
BY ItemFacts DEF TypeOK, FutureTypeOK, Links

\* A future's lists hold the tasks that are suspended on it.
LEMMA ListsAreSuspended ==
  ASSUME IInv, NEW f \in Future
  PROVE  ListFrom(waitQueue[f].task) \cup ToResume(f) = Suspended(f)
BY DEF IInv, ListInv, WaitersAreListed, Suspended

\* So do the lists behind their members.
LEMMA RestIsSuspended ==
  ASSUME IInv, NEW w \in Waiter, wait[w] = "suspended"
  PROVE  ListFrom(nextWaitingTask[w]) \subseteq Suspended(waitsOn[w])
<1>. DEFINE f == waitsOn[w]
<1>1. f \in Future
  BY DEF IInv, OwnerInv
<1>2. w \in Suspended(f)
  BY DEF Suspended
<1>a. TypeOK
  BY DEF IInv
<1>. HIDE DEF f
<1>3. ListFrom(waitQueue[f].task) \cup ToResume(f) = Suspended(f)
  BY <1>1, ListsAreSuspended
<1>4. ASSUME NEW task \in Waiter \cup {NoTask}, w \in ListFrom(task)
      PROVE  ListFrom(nextWaitingTask[w]) \subseteq ListFrom(task)
  BY <1>4, <1>a, ListTypes, LinkedRest DEF ListFrom
<1>5. CASE w \in ListFrom(waitQueue[f].task)
  BY <1>a, <1>1, <1>3, <1>4, <1>5, ListTypes DEF f
<1>6. CASE w \in ToResume(f)
  <2>1. waitingTask[f] \in Waiter \cup {NoTask} /\ following[f] \in Waiter \cup {NoTask}
    BY <1>a, <1>1, ListTypes
  <2>2. CASE position[f] = "enqueue"
    <3>1. ToResume(f) = {waitingTask[f]} \cup ListFrom(following[f])
      BY <2>2 DEF ToResume
    <3>2. following[f] = nextWaitingTask[waitingTask[f]]
      BY <1>1, <2>2 DEF IInv, ResultInv
    <3>. QED  BY <1>3, <1>4, <1>6, <2>1, <3>1, <3>2 DEF f
  <2>3. CASE position[f] = "advance"
    <3>1. ToResume(f) = ListFrom(following[f])
      BY <2>3 DEF ToResume
    <3>. QED  BY <1>3, <1>4, <1>6, <2>1, <3>1 DEF f
  <2>4. CASE position[f] \in {"group", "wake"}
    <3>1. ToResume(f) = ListFrom(waitingTask[f])
      BY <2>4 DEF ToResume
    <3>. QED  BY <1>3, <1>4, <1>6, <2>1, <3>1 DEF f
  <2>. QED  BY <1>6, <2>2, <2>3, <2>4 DEF ToResume
<1>. QED  BY <1>2, <1>3, <1>5, <1>6

\* A task that is not suspended may change its link: it is in no list.
LEMMA LinkOfOther ==
  ASSUME IInv, NEW w \in Waiter, wait[w] # "suspended", NEW next \in Waiter \cup {NoTask},
         nextWaitingTask' = [nextWaitingTask EXCEPT ![w] = next],
         UNCHANGED <<position, waitingTask, following>>
  PROVE  /\ \A f \in Future :
              /\ Linked(nextWaitingTask', waitQueue[f].task) = ListFrom(waitQueue[f].task)
              /\ ToResume(f)' = ToResume(f)
         /\ \A v \in Waiter : wait[v] = "suspended" =>
              Linked(nextWaitingTask', nextWaitingTask'[v]) = ListFrom(nextWaitingTask[v])
<1>a. TypeOK
  BY DEF IInv
<1>1. \A task \in Waiter \cup {NoTask} :
        w \notin ListFrom(task) => Linked(nextWaitingTask', task) = ListFrom(task)
  <2>1. nextWaitingTask \in Links
    BY <1>a, ListTypes
  <2>2. \A task \in Waiter \cup {NoTask} :
          w \notin Linked(nextWaitingTask, task) =>
            Linked([nextWaitingTask EXCEPT ![w] = next], task) = Linked(nextWaitingTask, task)
    BY <2>1, LinkedElsewhere
  <2>. QED  BY <2>2 DEF ListFrom
<1>2. \A f \in Future : w \notin Suspended(f)
  BY DEF Suspended
<1>3. ASSUME NEW f \in Future
      PROVE  /\ Linked(nextWaitingTask', waitQueue[f].task) = ListFrom(waitQueue[f].task)
             /\ ToResume(f)' = ToResume(f)
  <2>1. w \notin ListFrom(waitQueue[f].task) /\ w \notin ToResume(f)
    BY <1>2, ListsAreSuspended
  <2>2. Linked(nextWaitingTask', waitQueue[f].task) = ListFrom(waitQueue[f].task)
    BY <1>a, <1>1, <2>1, ListTypes
  <2>3. waitingTask[f] \in Waiter \cup {NoTask} /\ following[f] \in Waiter \cup {NoTask}
    BY <1>a, ListTypes
  <2>4. CASE position[f] \in {"enqueue", "advance"}
    <3>1. w \notin ListFrom(following[f])
      BY <2>1, <2>4 DEF ToResume
    <3>2. Linked(nextWaitingTask', following[f]) = ListFrom(following[f])
      BY <1>1, <2>3, <3>1
    <3>. QED  BY <2>2, <2>4, <3>2 DEF ToResume, ListFrom
  <2>5. CASE position[f] \in {"group", "wake"}
    <3>1. w \notin ListFrom(waitingTask[f])
      BY <2>1, <2>5 DEF ToResume
    <3>2. Linked(nextWaitingTask', waitingTask[f]) = ListFrom(waitingTask[f])
      BY <1>1, <2>3, <3>1
    <3>. QED  BY <2>2, <2>5, <3>2 DEF ToResume, ListFrom
  <2>6. CASE position[f] \notin {"enqueue", "advance", "group", "wake"}
    BY <2>2, <2>6 DEF ToResume
  <2>. QED  BY <2>4, <2>5, <2>6
<1>4. ASSUME NEW v \in Waiter, wait[v] = "suspended"
      PROVE  Linked(nextWaitingTask', nextWaitingTask'[v]) = ListFrom(nextWaitingTask[v])
  <2>1. nextWaitingTask'[v] = nextWaitingTask[v] /\ nextWaitingTask[v] \in Waiter \cup {NoTask}
    BY <1>a, <1>4, ListTypes DEF Links
  <2>2. w \notin ListFrom(nextWaitingTask[v])
    BY <1>4, RestIsSuspended DEF Suspended
  <2>. QED  BY <1>1, <2>1, <2>2
<1>. QED  BY <1>3, <1>4

LEMMA ListInit == Init => ListInv
<1>. SUFFICES ASSUME Init PROVE ListInv
  OBVIOUS
<1>. PICK p \in Program : FutureInit(p.tasks) /\ pending = p.lets
  BY DEF Init
<1>1. nextWaitingTask \in Links
  BY DEF FutureInit, Links
<1>2. \A f \in Future : ListFrom(waitQueue[f].task) = {}
  BY <1>1, LinkedNothing, ItemFacts DEF FutureInit, ListFrom
<1>3. \A f \in Future : ToResume(f) = {}
  BY DEF FutureInit, ToResume
<1>. QED  BY <1>2, <1>3 DEF FutureInit, ListInv, WaitersAreListed

\* Part of it while no list changes
LEMMA ListsStay ==
  ASSUME IInv, UNCHANGED <<waitQueue, nextWaitingTask>>,
         \A f \in Future : ToResume(f)' = ToResume(f),
         \A w \in Waiter : wait'[w] = "suspended" <=> wait[w] = "suspended",
         \A w \in Waiter : wait[w] = "suspended" => waitsOn'[w] = waitsOn[w]
  PROVE  ListInv'
<1>1. \A f \in Future : Suspended(f)' = Suspended(f)
  BY DEF Suspended
<1>2. \A f \in Future :
        Linked(nextWaitingTask', waitQueue'[f].task) \cup ToResume(f)' = Suspended(f)'
  BY <1>1, ListsAreSuspended DEF ListFrom
<1>3. \A w \in Waiter :
        wait[w] = "suspended" => w \notin Linked(nextWaitingTask', nextWaitingTask'[w])
  BY DEF IInv, ListInv, ListFrom
<1>. QED  BY <1>2, <1>3 DEF ListInv, WaitersAreListed, ListFrom, Suspended

LEMMA ListsKept ==
  ASSUME IInv, [Next]_vars
  PROVE  ListInv'
<1>. USE LetAssumption, FutureAssumption
<1>a. TypeOK /\ ScopeInv /\ OwnerInv /\ ListInv
  BY DEF IInv
<1>b. /\ waitQueue \in [Future -> Items]
      /\ nextWaitingTask \in [Waiter -> Waiter \cup {NoTask}]
      /\ position \in [Future -> {"none", "running", "exchange"} \cup Completed]
      /\ waitsOn \in [Waiter -> Future \cup {NoTask}]
      /\ wait \in [Waiter -> {"no", "load", "push", "suspended", "enqueued", "returned"}]
      /\ queueHead \in [Waiter -> Items]
      /\ waitingTask \in [Future -> Waiter \cup {NoTask}]
      /\ following \in [Future -> Waiter \cup {NoTask}]
  BY <1>a DEF TypeOK, FutureTypeOK
<1>c. nextWaitingTask \in Links
  BY <1>b DEF Links
<1>1. CASE Begin
  <2>. PICK l : l = Head(pending)
    OBVIOUS
  <2>1. l \in Binding /\ position[l] = "none" /\ position' = [position EXCEPT ![l] = "running"]
    BY <1>1, <1>a, BeginEffect DEF ScopeInv
  <2>2. UNCHANGED <<waitQueue, nextWaitingTask, waitingTask, following, wait, waitsOn>>
    BY <1>1 DEF Begin
  <2>3. \A f \in Future : ToResume(f)' = ToResume(f)
    BY <1>b, <2>1, <2>2 DEF ToResume, ListFrom
  <2>. QED  BY <2>2, <2>3, ListsStay
<1>2. CASE UNCHANGED <<waitQueue, nextWaitingTask, position, waitingTask, following, wait,
                       waitsOn>>
  <2>1. \A f \in Future : ToResume(f)' = ToResume(f)
    BY <1>2 DEF ToResume, ListFrom
  <2>. QED  BY <1>2, <2>1, ListsStay
<1>3. CASE \E w \in Waiter : EndWait(w) \/ \E f \in Future : StartWait(w, f)
  <2>. PICK w \in Waiter : EndWait(w) \/ \E f \in Future : StartWait(w, f)
    BY <1>3
  <2>1. /\ UNCHANGED <<waitQueue, nextWaitingTask, position, waitingTask, following>>
        /\ wait[w] # "suspended" /\ wait'[w] # "suspended"
        /\ \A v \in Waiter \ {w} : wait'[v] = wait[v] /\ waitsOn'[v] = waitsOn[v]
    BY <1>b DEF EndWait, StartWait
  <2>2. \A f \in Future : ToResume(f)' = ToResume(f)
    BY <2>1 DEF ToResume, ListFrom
  <2>. QED  BY <2>1, <2>2, ListsStay
<1>4. CASE \E w \in Waiter : WaitStep(w)
  <2>. PICK w \in Waiter : WaitStep(w)
    BY <1>4
  <2>1. CASE LoadQueue(w) \/ RunWaiter(w)
    <3>1. /\ UNCHANGED <<waitQueue, nextWaitingTask, position, waitingTask, following, waitsOn>>
          /\ wait[w] # "suspended" /\ wait'[w] # "suspended"
          /\ \A v \in Waiter \ {w} : wait'[v] = wait[v]
      BY <1>b, <2>1 DEF LoadQueue, RunWaiter, ReturnsAtOnce
    <3>2. \A f \in Future : ToResume(f)' = ToResume(f)
      BY <3>1 DEF ToResume, ListFrom
    <3>. QED  BY <3>1, <3>2, ListsStay
  <2>2. CASE PushWaiter(w) \/ PushFails(w)
    <3>. PICK next : next = queueHead[w].task
      OBVIOUS
    <3>1. next \in Waiter \cup {NoTask}
      BY <1>b, ItemFacts
    <3>2. /\ nextWaitingTask' = [nextWaitingTask EXCEPT ![w] = next]
          /\ wait[w] = "push" /\ UNCHANGED <<position, waitingTask, following, waitsOn>>
      BY <2>2 DEF PushWaiter, PushFails
    <3>3. /\ \A f \in Future :
               /\ Linked(nextWaitingTask', waitQueue[f].task) = ListFrom(waitQueue[f].task)
               /\ ToResume(f)' = ToResume(f)
          /\ \A v \in Waiter : wait[v] = "suspended" =>
               Linked(nextWaitingTask', nextWaitingTask'[v]) = ListFrom(nextWaitingTask[v])
      BY <3>1, <3>2, LinkOfOther
    <3>4. CASE PushFails(w)
      <4>1. /\ UNCHANGED waitQueue /\ wait'[w] # "suspended"
            /\ \A v \in Waiter \ {w} : wait'[v] = wait[v]
        BY <1>b, <3>4 DEF PushFails, ReturnsAtOnce
      <4>2. \A f \in Future : Suspended(f)' = Suspended(f)
        BY <3>2, <4>1 DEF Suspended
      <4>3. \A f \in Future : ListFrom(waitQueue[f].task)' = ListFrom(waitQueue[f].task)
        BY <3>3, <4>1 DEF ListFrom
      <4>4. \A f \in Future :
              ListFrom(waitQueue[f].task)' \cup ToResume(f)' = Suspended(f)'
        BY <3>3, <4>2, <4>3, ListsAreSuspended
      <4>5. \A v \in Waiter : wait'[v] = "suspended" => v \notin ListFrom(nextWaitingTask[v])'
        BY <1>a, <3>2, <3>3, <4>1 DEF ListInv, ListFrom
      <4>. QED  BY <4>4, <4>5 DEF ListInv, WaitersAreListed, Suspended
    <3>5. CASE PushWaiter(w)
      <4>. PICK g : g = waitsOn[w]
        OBVIOUS
      <4>1. /\ g \in Future /\ waitQueue[g].task = next
            /\ waitQueue' = [waitQueue EXCEPT ![g] = Executing(w)]
            /\ wait' = [wait EXCEPT ![w] = "suspended"]
        BY <1>a, <3>5 DEF PushWaiter, OwnerInv
      <4>2. /\ waitQueue'[g].task = w /\ \A f \in Future \ {g} : waitQueue'[f] = waitQueue[f]
            /\ wait'[w] = "suspended" /\ \A v \in Waiter \ {w} : wait'[v] = wait[v]
        BY <1>b, <4>1, ItemFacts
      <4>3. nextWaitingTask' \in Links /\ nextWaitingTask'[w] = next
        BY <1>c, <3>1, <3>2 DEF Links
      <4>4. Linked(nextWaitingTask', w) = {w} \cup Linked(nextWaitingTask', next)
        BY <4>3, LinkedFirst
      <4>5. Linked(nextWaitingTask', next) = ListFrom(waitQueue[g].task)
        BY <3>3, <4>1
      <4>6. w \notin ListFrom(waitQueue[g].task)
        BY <3>2, <4>1, ListsAreSuspended DEF Suspended
      <4>7. Suspended(g)' = {w} \cup Suspended(g)
               /\ \A f \in Future \ {g} : Suspended(f)' = Suspended(f)
        BY <3>2, <4>2 DEF Suspended
      <4>8. \A f \in Future :
              Linked(nextWaitingTask', waitQueue'[f].task) \cup ToResume(f)' = Suspended(f)'
        <5>. SUFFICES ASSUME NEW f \in Future
                      PROVE  Linked(nextWaitingTask', waitQueue'[f].task) \cup ToResume(f)'
                               = Suspended(f)'
          OBVIOUS
        <5>1. ListFrom(waitQueue[f].task) \cup ToResume(f) = Suspended(f)
          BY ListsAreSuspended
        <5>2. CASE f = g
          <6>1. Suspended(f)' = {w} \cup Suspended(f)
            BY <3>2, <4>2, <5>2 DEF Suspended
          <6>. QED  BY <3>3, <4>2, <4>4, <4>5, <5>1, <5>2, <6>1
        <5>3. CASE f # g
          BY <3>3, <4>2, <4>7, <5>1, <5>3
        <5>. QED  BY <5>2, <5>3
      <4>9. \A v \in Waiter :
              wait'[v] = "suspended" => v \notin Linked(nextWaitingTask', nextWaitingTask'[v])
        <5>. SUFFICES ASSUME NEW v \in Waiter, wait'[v] = "suspended"
                      PROVE  v \notin Linked(nextWaitingTask', nextWaitingTask'[v])
          OBVIOUS
        <5>1. CASE v = w
          BY <4>3, <4>5, <4>6, <5>1
        <5>2. CASE v # w
          <6>1. wait[v] = "suspended"
            BY <4>2, <5>2
          <6>. QED  BY <1>a, <3>3, <6>1 DEF ListInv
        <5>. QED  BY <5>1, <5>2
      <4>. QED  BY <4>8, <4>9 DEF ListInv, WaitersAreListed, ListFrom, Suspended
    <3>. QED  BY <2>2, <3>4, <3>5
  <2>. QED  BY <2>1, <2>2 DEF WaitStep
<1>5. CASE \E f \in Future : Completes(f)
  <2>. PICK f \in Future : Completes(f)
    BY <1>5
  <2>1. /\ position[f] = "running" /\ position' = [position EXCEPT ![f] = "exchange"]
        /\ UNCHANGED <<waitQueue, nextWaitingTask, waitingTask, following, wait, waitsOn>>
    BY DEF Completes, CompleteTask
  <2>2. \A g \in Future : ToResume(g)' = ToResume(g)
    BY <1>b, <2>1 DEF ToResume, ListFrom
  <2>. QED  BY <2>1, <2>2, ListsStay
<1>6. CASE \E f \in Future : CompletionStep(f)
  <2>. PICK f \in Future : CompletionStep(f)
    BY <1>6
  <2>a. UNCHANGED waitsOn
    BY <1>a, CompletionFacts
  <2>1. CASE ExchangeQueue(f)
    <3>1. /\ position[f] = "exchange" /\ position' = [position EXCEPT ![f] = "group"]
          /\ waitQueue' = [waitQueue EXCEPT ![f] = Item(ResultOf(f), NoTask)]
          /\ waitingTask' = [waitingTask EXCEPT ![f] = waitQueue[f].task]
          /\ UNCHANGED <<following, nextWaitingTask, wait>>
      BY <2>1 DEF ExchangeQueue
    <3>2. /\ position'[f] = "group" /\ waitQueue'[f].task = NoTask
             /\ waitingTask'[f] = waitQueue[f].task
          /\ \A g \in Future \ {f} :
               position'[g] = position[g] /\ waitQueue'[g] = waitQueue[g]
               /\ waitingTask'[g] = waitingTask[g]
      BY <1>b, <3>1, ItemFacts
    <3>3. \A g \in Future : Suspended(g)' = Suspended(g)
      BY <2>a, <3>1 DEF Suspended
    <3>4. ListFrom(waitQueue[f].task) = Suspended(f)
      BY <3>1, ListsAreSuspended DEF ToResume
    <3>5. Linked(nextWaitingTask', waitQueue'[f].task) = {}
             /\ ToResume(f)' = ListFrom(waitQueue[f].task)
      BY <1>c, <3>1, <3>2, LinkedNothing DEF ToResume, ListFrom
    <3>6. \A g \in Future \ {f} : ToResume(g)' = ToResume(g)
      BY <3>1, <3>2 DEF ToResume, ListFrom
    <3>7. \A g \in Future :
            Linked(nextWaitingTask', waitQueue'[g].task) \cup ToResume(g)' = Suspended(g)'
      BY <3>1, <3>2, <3>3, <3>4, <3>5, <3>6, ListsAreSuspended DEF ListFrom
    <3>8. \A w \in Waiter : wait'[w] = "suspended" => w \notin ListFrom(nextWaitingTask[w])'
      BY <1>a, <3>1 DEF ListInv, ListFrom
    <3>. QED  BY <3>7, <3>8 DEF ListInv, WaitersAreListed, ListFrom, Suspended
  <2>2. CASE CheckGroup(f) \/ NextWaiter(f) \/ EndTask(f)
    <3>1. /\ UNCHANGED <<waitQueue, nextWaitingTask, wait>>
          /\ \A g \in Future \ {f} : /\ position'[g] = position[g]
             /\ waitingTask'[g] = waitingTask[g]
                                     /\ following'[g] = following[g]
      BY <1>b, <2>2 DEF CheckGroup, NextWaiter, EndTask
    <3>2. \A g \in Future \ {f} : ToResume(g)' = ToResume(g)
      BY <3>1 DEF ToResume, ListFrom
    <3>3. ToResume(f)' = ToResume(f)
      <4>1. CASE CheckGroup(f)
        <5>1. /\ position[f] = "group" /\ UNCHANGED <<waitingTask, following, nextWaitingTask>>
              /\ \/ position'[f] = "wake"
                 \/ ~IsAlive(f) /\ position'[f] = "undefined"
          BY <1>b, <4>1 DEF CheckGroup
        <5>2. ~IsAlive(f) => waitingTask[f] = NoTask
          BY <5>1, WokenIsSuspended
        <5>3. ~IsAlive(f) => ListFrom(waitingTask[f]) = {}
          BY <1>c, <5>2, LinkedNothing DEF ListFrom
        <5>. QED  BY <5>1, <5>3 DEF ToResume, ListFrom
      <4>2. CASE NextWaiter(f)
        <5>1. /\ position[f] = "advance" /\ position'[f] = "wake"
              /\ waitingTask'[f] = following[f] /\ nextWaitingTask' = nextWaitingTask
          BY <1>b, <4>2 DEF NextWaiter
        <5>. QED  BY <5>1 DEF ToResume, ListFrom
      <4>3. CASE EndTask(f)
        <5>1. position[f] = "wake" /\ position'[f] = "done" /\ waitingTask[f] = NoTask
          BY <1>b, <4>3 DEF EndTask
        <5>2. ListFrom(NoTask) = {}
          BY <1>c, LinkedNothing DEF ListFrom
        <5>. QED  BY <5>1, <5>2 DEF ToResume
      <4>. QED  BY <2>2, <4>1, <4>2, <4>3
    <3>. QED  BY <2>a, <3>1, <3>2, <3>3, ListsStay
  <2>3. CASE FillWaiter(f)
    <3>. PICK w : w = waitingTask[f]
      OBVIOUS
    <3>1. /\ position[f] = "wake" /\ w # NoTask /\ position' = [position EXCEPT ![f] = "enqueue"]
          /\ following' = [following EXCEPT ![f] = nextWaitingTask[w]]
          /\ UNCHANGED <<waitQueue, nextWaitingTask, waitingTask, wait>>
      BY <2>3 DEF FillWaiter
    <3>2. w \in Waiter
      BY <3>1, WokenIsSuspended
    <3>3. ListFrom(w) = {w} \cup ListFrom(nextWaitingTask[w])
      BY <1>c, <3>2, LinkedFirst DEF ListFrom
    <3>4. position'[f] = "enqueue" /\ following'[f] = nextWaitingTask[w]
          /\ \A g \in Future \ {f} : position'[g] = position[g] /\ following'[g] = following[g]
      BY <1>b, <3>1
    <3>5. ToResume(f)' = ToResume(f)
      BY <3>1, <3>3, <3>4 DEF ToResume, ListFrom
    <3>6. \A g \in Future \ {f} : ToResume(g)' = ToResume(g)
      BY <3>1, <3>4 DEF ToResume, ListFrom
    <3>. QED  BY <2>a, <3>1, <3>5, <3>6, ListsStay
  <2>4. CASE EnqueueWaiter(f)
    <3>. PICK w : w = waitingTask[f]
      OBVIOUS
    <3>1. /\ position[f] = "enqueue" /\ position' = [position EXCEPT ![f] = "advance"]
          /\ wait' = [wait EXCEPT ![w] = "enqueued"]
          /\ UNCHANGED <<waitQueue, nextWaitingTask, waitingTask, following>>
      BY <2>4 DEF EnqueueWaiter
    <3>2. w \in Waiter /\ wait[w] = "suspended" /\ waitsOn[w] = f
      BY <3>1, WokenIsSuspended
    <3>3. /\ position'[f] = "advance" /\ \A g \in Future \ {f} : position'[g] = position[g]
          /\ wait'[w] = "enqueued" /\ \A v \in Waiter \ {w} : wait'[v] = wait[v]
      BY <1>b, <3>1, <3>2
    <3>4. following[f] = nextWaitingTask[w]
      BY <3>1 DEF IInv, ResultInv
    <3>5. w \notin ListFrom(following[f])
      BY <1>a, <3>2, <3>4 DEF ListInv
    <3>6. ToResume(f) = {w} \cup ListFrom(following[f]) /\ ToResume(f)' = ListFrom(following[f])
      BY <3>1, <3>3 DEF ToResume, ListFrom
    <3>7. \A g \in Future \ {f} : ToResume(g)' = ToResume(g) /\ Suspended(g)' = Suspended(g)
      BY <2>a, <3>1, <3>2, <3>3 DEF ToResume, ListFrom, Suspended
    <3>8. Suspended(f)' = Suspended(f) \ {w}
      BY <2>a, <3>2, <3>3 DEF Suspended
    <3>9. w \notin ListFrom(waitQueue[f].task)
      <4>1. waitQueue[f].status # "executing"
        BY <3>1 DEF IInv, ResultInv, Completed
      <4>2. waitQueue[f].task = NoTask
        BY <1>b, <4>1, ItemFacts
      <4>. QED  BY <1>c, <4>2, LinkedNothing DEF ListFrom
    <3>10. ListFrom(waitQueue[f].task) \cup ToResume(f)' = Suspended(f)'
      <4>1. ListFrom(waitQueue[f].task) \cup ToResume(f) = Suspended(f)
        BY ListsAreSuspended
      <4>. QED  BY <3>5, <3>6, <3>8, <3>9, <4>1
    <3>11. \A g \in Future :
            Linked(nextWaitingTask', waitQueue'[g].task) \cup ToResume(g)' = Suspended(g)'
      BY <3>1, <3>7, <3>10, ListsAreSuspended DEF ListFrom
    <3>12. \A v \in Waiter : wait'[v] = "suspended" => v \notin ListFrom(nextWaitingTask[v])'
      BY <1>a, <3>1, <3>3 DEF ListInv, ListFrom
    <3>. QED  BY <3>11, <3>12 DEF ListInv, WaitersAreListed, ListFrom, Suspended
  <2>. QED  BY <2>1, <2>2, <2>3, <2>4 DEF CompletionStep
<1>. QED
  <2>1. CASE \E l \in Binding : Get(l)
    BY <1>3, <2>1 DEF Get
  <2>2. CASE ConsumeWaits \/ FinishWaits
    BY <1>a, <1>3, <2>2, InnermostInScope DEF ConsumeWaits, FinishWaits
  <2>3. CASE GetReturns \/ FinishReturns \/ ConsumeReturns \/ \E w \in Waiter : TaskWaitReturns(w)
    BY <1>3, <2>3 DEF GetReturns, FinishReturns, ConsumeReturns, TaskWaitReturns
  <2>4. CASE \E w \in Waiter, f \in Future : WaitForTask(w, f)
    BY <1>3, <2>4 DEF WaitForTask
  <2>5. CASE \/ ConsumePopulated \/ FinishPopulated \/ RemoveRecord \/ DestroyTask
             \/ CancelParent \/ CancellerStep \/ UNCHANGED vars
             \/ \E f \in Future : DropHandle(f)
    BY <1>2, <2>5 DEF ConsumePopulated, FinishPopulated, RemoveRecord, CancelParent, DestroyTask,
                      CancellerStep, LockRecords, CancelRecord, CancelEnds, vars, futureVars,
                      DropHandle
  <2>. QED
    BY <1>1, <1>4, <1>5, <1>6, <2>1, <2>2, <2>3, <2>4, <2>5 DEF Next, Body, RuntimeStep

-----------------------------------------------------------------------------
(* Result buffers *)

LEMMA BufferInit == Init => BufferInv
<1>. SUFFICES ASSUME Init PROVE BufferInv
  OBVIOUS
<1>. QED  BY DEF Init, BufferInv

\* Part of it while flag, buffer, scope and the parent's call stay
LEMMA BuffersStay ==
  ASSUME BufferInv, UNCHANGED <<scope, call, hasResult, buffer>>,
         waitsOn'[Parent] = waitsOn[Parent],
         \A l \in Binding : position[l] \in Completed => position'[l] \in Completed
  PROVE  BufferInv'
<1>1. (\A l : InScope(l)' <=> InScope(l)) /\ Innermost' = Innermost
  BY DEF InScope, Innermost
<1>. QED  BY <1>1 DEF BufferInv

LEMMA BuffersKept ==
  ASSUME IInv, [Next]_vars
  PROVE  BufferInv'
<1>. USE LetAssumption, FutureAssumption
<1>a. TypeOK /\ ScopeInv /\ OwnerInv /\ CallInv /\ BufferInv
  BY DEF IInv
<1>b. /\ hasResult \in [Binding -> BOOLEAN]
      /\ buffer \in [Binding -> {"raw", "value", "misused"}]
      /\ position \in [Future -> {"none", "running", "exchange"} \cup Completed]
      /\ waitsOn \in [Waiter -> Future \cup {NoTask}]
      /\ context \in [Waiter -> {"none", "success", "error"}]
  BY <1>a DEF TypeOK, FutureTypeOK
<1>1. CASE Begin
  <2>. PICK l : l = Head(pending)
    OBVIOUS
  <2>1. /\ l \in Binding /\ ~InScope(l)
        /\ \A m : InScope(m)' <=> InScope(m) \/ m = l
        /\ position' = [position EXCEPT ![l] = "running"] /\ position[l] = "none"
        /\ call = "body" /\ call' = "body"
    BY <1>1, <1>a, BeginEffect DEF ScopeInv
  <2>2. UNCHANGED <<hasResult, buffer>>
    BY <1>1 DEF Begin
  <2>3. \A m \in Binding : position[m] \in Completed => position'[m] = position[m]
    BY <1>b, <2>1 DEF Completed
  <2>. QED  BY <1>a, <1>b, <2>1, <2>2, <2>3 DEF BufferInv
<1>2. CASE DestroyTask
  <2>. PICK l : l = Innermost
    OBVIOUS
  <2>1. /\ l \in Binding
        /\ \A m : InScope(m)' <=> InScope(m) /\ m # l
        /\ hasResult' = [hasResult EXCEPT ![l] = FALSE]
        /\ call = "destroy" /\ call' = "body"
    BY <1>2, <1>a, DestroyEffect
  <2>2. UNCHANGED <<buffer, position>>
    BY <1>2 DEF DestroyTask
  <2>3. hasResult'[l] = FALSE /\ \A m \in Binding \ {l} : hasResult'[m] = hasResult[m]
    BY <1>b, <2>1
  <2>4. buffer[l] = "raw"
    BY <1>a, <2>1 DEF BufferInv
  <2>5. \A m \in Binding \ {l} :
          /\ buffer[m] # "misused" /\ hasResult[m] = (buffer[m] = "value")
          /\ ~InScope(m) => ~hasResult[m] /\ buffer[m] = "raw"
          /\ hasResult[m] => position[m] \in Completed
    BY <1>a, <2>1 DEF BufferInv
  <2>6. \A m \in Binding :
          /\ buffer[m] # "misused" /\ hasResult'[m] = (buffer[m] = "value")
          /\ ~InScope(m)' => ~hasResult'[m] /\ buffer[m] = "raw"
          /\ hasResult'[m] => position[m] \in Completed
    <3>1. ASSUME NEW m \in Binding \ {l}
          PROVE  /\ buffer[m] # "misused" /\ hasResult'[m] = (buffer[m] = "value")
                 /\ ~InScope(m)' => ~hasResult'[m] /\ buffer[m] = "raw"
                 /\ hasResult'[m] => position[m] \in Completed
      BY <2>1, <2>3, <2>5
    <3>. QED  BY <2>3, <2>4, <3>1
  <2>. QED  BY <2>1, <2>2, <2>6 DEF BufferInv
<1>3. CASE \E l \in Binding : Get(l)
  <2>. PICK l \in Binding : Get(l)
    BY <1>3
  <2>1. /\ call = "body" /\ call' = "get" /\ ~hasResult[l]
        /\ hasResult' = [hasResult EXCEPT ![l] = l \notin Throwing]
        /\ waitsOn' = [waitsOn EXCEPT ![Parent] = l]
        /\ UNCHANGED <<scope, buffer, position>>
        /\ InScope(l)
    BY DEF Get, InBody, StartWait, InScope
  <2>2. (\A m : InScope(m)' <=> InScope(m)) /\ waitsOn'[Parent] = l
        /\ hasResult'[l] = (l \notin Throwing)
        /\ \A m \in Binding \ {l} : hasResult'[m] = hasResult[m]
    BY <1>b, <2>1 DEF InScope
  <2>3. buffer[l] = "raw"
    BY <1>a, <1>b, <2>1 DEF BufferInv
  <2>. QED  BY <1>a, <2>1, <2>2, <2>3 DEF BufferInv
<1>4. CASE ConsumeWaits \/ FinishWaits
  <2>1. /\ call = "body" /\ call' \in {"consume", "finish"} /\ ~hasResult[Innermost]
           /\ scope # <<>>
        /\ UNCHANGED <<scope, hasResult, buffer, position>>
    BY <1>4 DEF ConsumeWaits, FinishWaits, InBody, StartWait
  <2>2. (\A m : InScope(m)' <=> InScope(m)) /\ Innermost' = Innermost /\ Innermost \in Binding
    BY <1>a, <2>1, InnermostInScope DEF InScope, Innermost
  <2>3. buffer[Innermost] = "raw"
    BY <1>a, <1>b, <2>1, <2>2 DEF BufferInv
  <2>. QED  BY <1>a, <2>1, <2>2, <2>3 DEF BufferInv
<1>5. CASE ConsumePopulated \/ FinishPopulated
  <2>1. /\ call = "body" /\ call' = "remove" /\ hasResult[Innermost] /\ scope # <<>>
        /\ buffer' = [buffer EXCEPT ![Innermost] = Empty(@)]
        /\ UNCHANGED <<scope, hasResult, position>>
    BY <1>5 DEF ConsumePopulated, FinishPopulated, InBody, futureVars
  <2>2. (\A m : InScope(m)' <=> InScope(m)) /\ Innermost' = Innermost
        /\ Innermost \in Binding /\ InScope(Innermost)
    BY <1>a, <2>1, InnermostInScope DEF InScope, Innermost
  <2>3. buffer[Innermost] = "value"
    BY <1>a, <2>1, <2>2 DEF BufferInv
  <2>4. buffer'[Innermost] = "raw" /\ \A m \in Binding \ {Innermost} : buffer'[m] = buffer[m]
    BY <1>b, <2>1, <2>2, <2>3 DEF Empty
  <2>. QED  BY <1>a, <2>1, <2>2, <2>4 DEF BufferInv
<1>6. CASE GetReturns
  <2>. PICK l : l = waitsOn[Parent]
    OBVIOUS
  <2>1. /\ call = "get" /\ call' = "body" /\ wait[Parent] = "returned"
        /\ buffer' = [buffer EXCEPT ![l] = Filled(l)]
        /\ hasResult' = [hasResult EXCEPT ![l] = @ \/ context[Parent] = "success"]
        /\ UNCHANGED <<scope, position, failed>>
    BY <1>6 DEF GetReturns, EndWait
  <2>2. l \in Binding /\ \A m : InScope(m)' <=> InScope(m)
    BY <1>a, <2>1 DEF CallInv, InScope
  <2>3. hasResult[l] = (l \notin Throwing) /\ buffer[l] = "raw"
    BY <1>a, <2>1, <2>2 DEF BufferInv
  <2>4. position[l] \in Completed /\ context[Parent] = ResultOf(l)
           /\ (failed[l] => l \in Throwing)
    BY <2>1, <2>2 DEF IInv, ResultInv
  <2>5. /\ hasResult'[l] = (context[Parent] = "success")
        /\ buffer'[l] = IF context[Parent] = "success" THEN "value" ELSE "raw"
    BY <1>b, <2>1, <2>2, <2>3, <2>4 DEF Filled, Fill, ResultOf
  <2>6. \A m \in Binding \ {l} : hasResult'[m] = hasResult[m] /\ buffer'[m] = buffer[m]
    BY <1>b, <2>1
  <2>7. InScope(l)
    BY <1>a, <2>1, <2>2 DEF OwnerInv
  <2>. QED  BY <1>a, <2>1, <2>2, <2>4, <2>5, <2>6, <2>7 DEF BufferInv
<1>7. CASE FinishReturns \/ ConsumeReturns
  <2>1. /\ call \in {"finish", "consume"} /\ call' = "remove"
        /\ buffer' = [buffer EXCEPT ![Innermost] =
                        IF context[Parent] = "success" THEN Empty(Filled(Innermost)) ELSE @]
        /\ UNCHANGED <<scope, position, hasResult>>
    BY <1>7 DEF FinishReturns, ConsumeReturns, EndWait
  <2>2. (\A m : InScope(m)' <=> InScope(m)) /\ Innermost' = Innermost
        /\ Innermost \in Binding /\ InScope(Innermost)
    BY <1>a, <2>1, InnermostInScope DEF InScope, Innermost, ScopeInv
  <2>3. buffer[Innermost] = "raw"
    BY <1>a, <2>1, <2>2 DEF BufferInv
  <2>4. buffer'[Innermost] = "raw" /\ \A m \in Binding \ {Innermost} : buffer'[m] = buffer[m]
    BY <1>b, <2>1, <2>2, <2>3 DEF Empty, Filled, Fill
  <2>. QED  BY <1>a, <2>1, <2>2, <2>4 DEF BufferInv
<1>8. CASE RemoveRecord
  <2>1. call = "remove" /\ call' = "destroy" /\ UNCHANGED <<scope, position, hasResult, buffer>>
    BY <1>8 DEF RemoveRecord, futureVars
  <2>2. (\A m : InScope(m)' <=> InScope(m)) /\ Innermost' = Innermost
    BY <2>1 DEF InScope, Innermost
  <2>. QED  BY <1>a, <2>1, <2>2 DEF BufferInv
<1>9. CASE \E w \in Waiter : TaskWaitReturns(w) \/ \E f \in Future : WaitForTask(w, f)
  <2>. PICK w \in Waiter : TaskWaitReturns(w) \/ \E f \in Future : WaitForTask(w, f)
    BY <1>9
  <2>1. UNCHANGED <<scope, position, hasResult, buffer>>
    BY DEF TaskWaitReturns, WaitForTask, EndWait, StartWait
  <2>2. CASE w = Parent
    <3>1. call \in {"body", "task"} /\ call' \in {"body", "task"}
      BY <2>2 DEF TaskWaitReturns, WaitForTask, InBody
    <3>2. \A m : InScope(m)' <=> InScope(m)
      BY <2>1 DEF InScope
    <3>. QED  BY <1>a, <2>1, <3>1, <3>2 DEF BufferInv
  <2>3. CASE w # Parent
    <3>1. UNCHANGED call /\ waitsOn'[Parent] = waitsOn[Parent]
      BY <1>b, <2>3 DEF TaskWaitReturns, WaitForTask, EndWait, StartWait
    <3>. QED  BY <1>a, <2>1, <3>1, BuffersStay
  <2>. QED  BY <2>2, <2>3
<1>10. CASE \E w \in Waiter : WaitStep(w) /\ UNCHANGED letVars
  <2>1. UNCHANGED <<scope, call, hasResult, buffer, waitsOn, position>>
    BY <1>10, <1>a, WaitFacts DEF letVars
  <2>. QED  BY <1>a, <2>1, BuffersStay
<1>11. CASE \E f \in Future : Completes(f)
  <2>1. /\ UNCHANGED <<scope, call, hasResult, buffer, waitsOn>>
        /\ \E f \in Future : position[f] = "running"
           /\ position' = [position EXCEPT ![f] = "exchange"]
    BY <1>11 DEF Completes, CompleteTask, letVars
  <2>2. \A l \in Binding : position[l] \in Completed => position'[l] \in Completed
    BY <1>b, <2>1 DEF Completed
  <2>. QED  BY <1>a, <2>1, <2>2, BuffersStay
<1>12. CASE \E f \in Future : CompletionStep(f) /\ UNCHANGED letVars
  <2>1. /\ UNCHANGED <<scope, call, hasResult, buffer, waitsOn>>
        /\ \A l \in Future : position[l] \in Completed => position'[l] \in Completed
    BY <1>12, <1>a, CompletionFacts DEF letVars
  <2>. QED  BY <1>a, <2>1, BuffersStay
<1>13. CASE \/ CancelParent \/ CancellerStep \/ UNCHANGED vars
            \/ \E f \in Future : DropHandle(f) /\ UNCHANGED letVars
  <2>1. UNCHANGED <<scope, call, hasResult, buffer, waitsOn, position>>
    BY <1>13 DEF CancelParent, CancellerStep, LockRecords, CancelRecord, CancelEnds, vars,
                 futureVars, letVars, DropHandle
  <2>. QED  BY <1>a, <2>1, BuffersStay
<1>. QED
  BY <1>1, <1>2, <1>3, <1>4, <1>5, <1>6, <1>7, <1>8, <1>9, <1>10, <1>11, <1>12, <1>13
  DEF Next, Body, RuntimeStep

-----------------------------------------------------------------------------
(* Theorems *)

LEMMA InitInvariant == Init => IInv
BY InitTypes, ScopeInit, CallInit, OwnerInit, RecordInit, ResultInit, ListInit,
   BufferInit DEF IInv

LEMMA StepInvariant == IInv /\ [Next]_vars => IInv'
<1>. SUFFICES ASSUME IInv, [Next]_vars PROVE IInv'
  OBVIOUS
<1>1. TypeOK /\ ScopeInv /\ OwnerInv
  BY DEF IInv
<1>2. TypeOK' /\ ScopeInv' /\ CallInv' /\ OwnerInv'
  BY <1>1, TypesKept, ScopesKept, CallsKept, OwnersKept
<1>3. RecordInv' /\ ResultInv' /\ ListInv' /\ BufferInv'
  BY RecordsKept, ResultsKept, ListsKept, BuffersKept
<1>. QED  BY <1>2, <1>3 DEF IInv

LEMMA Invariance == Spec => []IInv
BY InitInvariant, StepInvariant, PTL DEF Spec

\* Every variable keeps its type, whatever the programs and however many tasks wait.
THEOREM LetTypesHold == Spec => []TypeOK
<1>1. IInv => TypeOK
  BY DEF IInv
<1>. QED  BY <1>1, Invariance, PTL

\* waitFuture() and completeFuture() lose no waiter, resume none twice and give each the result
\* of the future it waited for, however many tasks wait for however many futures.
THEOREM FutureServes == Spec => []WaitersAreServed
<1>1. IInv => WaitersAreServed
  <2>. SUFFICES ASSUME IInv PROVE WaitersAreServed
    OBVIOUS
  <2>1. WaitersAreListed
    BY DEF IInv, ListInv
  <2>2. WaitersGetTheirResult
    BY DEF IInv, ResultInv, WaitersGetTheirResult
  <2>. QED  BY <2>1, <2>2 DEF WaitersAreServed
<1>. QED  BY <1>1, Invariance, PTL

\* Only the flags of a child task that nobody awaited are read when it may be gone: a waiter or a
\* parent in one of its calls keeps the task, as a canceller's walk does through the record; a
\* task that is no child of a scope keeps itself until its completion ends.
THEOREM LetReadsFlagsLate == Spec => []OnlyFlagsAreReadLate
<1>1. IInv => OnlyFlagsAreReadLate
  <2>. SUFFICES ASSUME IInv PROVE OnlyFlagsAreReadLate
    OBVIOUS
  <2>1. \A w \in Waiter : wait[w] # "no" => IsAlive(waitsOn[w])
    BY LetAssumption DEF IInv, OwnerInv, ScopeInv, IsAlive
  <2>2. \A l \in toCancel : IsAlive(l)
    BY LetAssumption DEF IInv, RecordInv, ScopeInv, IsAlive
  <2>3. \A f \in Future : position[f] \in {"running", "exchange"} => IsAlive(f)
    BY DEF IInv, OwnerInv
  <2>4. \A f \in Future :
          position[f] \in {"group", "wake"} /\ waitingTask[f] # NoTask => IsAlive(f)
    BY WokenIsSuspended
  <2>5. \A f \in Future : position[f] \in {"group", "wake"} /\ f \notin Binding => IsAlive(f)
    BY DEF IInv, OwnerInv, IsAlive
  <2>. QED  BY <2>1, <2>2, <2>3, <2>4, <2>5 DEF OnlyFlagsAreReadLate
<1>. QED  BY <1>1, Invariance, PTL

\* get, finish and consume fill and empty each result buffer once, on every way through a scope.
THEOREM LetBuffers == Spec => []BufferIsBalanced
<1>1. IInv => BufferIsBalanced
  <2>. SUFFICES ASSUME IInv PROVE BufferIsBalanced
    OBVIOUS
  <2>1. TypeOK /\ \A l \in Binding : buffer[l] # "misused"
    BY DEF IInv, BufferInv
  <2>2. call \in {"remove", "destroy"} => buffer[Innermost] = "raw"
    BY InnermostInScope DEF IInv, ScopeInv, BufferInv
  <2>3. InBody => \A i \in DOMAIN scope : hasResult[scope[i]] = (buffer[scope[i]] = "value")
    <3>1. \A i \in DOMAIN scope : scope[i] \in Binding
      BY <2>1 DEF TypeOK
    <3>. QED  BY <3>1 DEF IInv, BufferInv, InBody
  <2>. QED  BY <2>1, <2>2, <2>3 DEF BufferIsBalanced
<1>. QED  BY <1>1, Invariance, PTL
=============================================================================
