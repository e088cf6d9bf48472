-------------------------- MODULE TaskGroupProofs ---------------------------
(***************************************************************************)
(* The safety of a task group for any number of child tasks and any width  *)
(* of its pending count: its status word, its queues and its child list    *)
(* agree, the scope ends with nothing left, and it implements what         *)
(* StructuredGroup promises.                                               *)
(***************************************************************************)
EXTENDS TaskGroup, FiniteSetTheorems, TLAPS

-----------------------------------------------------------------------------
(* The inductive invariant *)

Proc == Child \cup {Owner, Canceller}

Offered(c) == \E i \in DOMAIN offered : offered[i] = c
Queued(c) == \E i \in DOMAIN readyQueue : readyQueue[i].task = c
Polled(c) == pc[Owner] = "polledTask" /\ slot.task = c

\* Who holds the mutex, and which kind of group its positions belong to
LockInv ==
  /\ \A c \in Child : pc[c] \in Locked <=> mutex = c
  /\ pc[Owner] \in {"polled", "waiting"} <=> mutex = Owner
  /\ pc[Owner] \in {"poll", "polled", "polledTask"} => ~discarding
  /\ pc[Owner] \in {"waitAll", "waiting"} => discarding
  /\ \A c \in Child : pc[c] \in CancelPositions => discarding

\* What the holder of the mutex works from is still so.
AssumedInv ==
  /\ mutex \in Child => assumed.waiting = status.waiting
  /\ mutex \in Child /\ discarding /\ assumed.waiting => assumed.pending = status.pending
  /\ mutex = Owner =>
       /\ assumed.pending = status.pending
       /\ assumed.ready = status.ready
       /\ assumed.waiting = status.waiting

\* The waiting bit, the wait queue, and the one child task that took the owner out of it
WaitInv ==
  /\ ~discarding => (status.waiting <=> waitQueue \/ pc[Owner] = "polled")
  /\ discarding /\ waitQueue => status.waiting
  /\ discarding /\ status.waiting => pc[Owner] \in {"parked", "resumed", "destroy", "destroyed"}
  /\ waitQueue => pc[Owner] = "parked"
  /\ \A c \in Child : pc[c] = "run" => pc[Owner] = "parked" /\ ~waitQueue
  /\ \A c, d \in Child : pc[c] = "run" /\ pc[d] = "run" => c = d

\* Child tasks are added in order and offered once.
OfferInv ==
  /\ Added = 1..Cardinality(Added)
  /\ \A c \in Child : Offered(c) <=> pc[c] \in Locked \cup {"run", "done"}
  /\ \A i, j \in DOMAIN offered : offered[i] = offered[j] => i = j
  /\ mutex \in Child => Len(offered) > 0 /\ offered[Len(offered)] = mutex

\* In a group that keeps results, the results not yet delivered are in the ready queue, in
\* the order of the offers, behind them the one that is being offered.
FifoInv ==
  /\ ~discarding =>
       /\ Len(offered) = Len(delivered) + Len(readyQueue) + IF mutex \in Child THEN 1 ELSE 0
       /\ \A i \in DOMAIN delivered : delivered[i] = offered[i]
       /\ \A i \in DOMAIN readyQueue : readyQueue[i] = CompletedTask(offered[Len(delivered) + i])
       /\ waitQueue => readyQueue = <<>>
       /\ pc[Owner] = "polledTask" =>
            Len(delivered) > 0 /\ slot = CompletedTask(delivered[Len(delivered)])
  /\ discarding => delivered = <<>>

CountInv ==
  /\ CountsMatchTasks
  /\ status.pending <= MaxPending
  /\ pc[Owner] # "aborted" => status.pending < MaxPending

\* The child list and the retains follow from where the child tasks and their results are.
ChildInv ==
  /\ children =
       {c \in Child : pc[c] \in {"running", "offer"} \cup Locked \/ Queued(c) \/ Polled(c)}
  /\ \A c \in Child : retained[c] = IF Queued(c) \/ Polled(c) THEN 1 ELSE 0

\* The owner is past its last wait.
Over ==
  \/ pc[Owner] \in {"destroy", "destroyed"}
  \/ discarding /\ pc[Owner] = "resumed"
  \/ discarding /\ pc[Owner] = "parked" /\ ~waitQueue

OverInv ==
  Over =>
    /\ status.pending = 0
    /\ children = {} /\ readyQueue = <<>> /\ mutex = NoOne
    /\ \A c \in Child : pc[c] \in {"none", "done", "run"}

FirstErrors == {Item("error", offered[i]) : i \in {j \in Errors : IsFirstError(j)}}

Outcomes ==
  IF Errors = {} THEN {Empty} \cup {Item("success", c) : c \in Child} ELSE FirstErrors

\* A discarding group keeps one error, the first: in its queue, until it has been handed over
\* to the owner.  The error of a child task that holds the mutex is not in the queue yet.
ErrorInv ==
  discarding =>
    /\ Len(readyQueue) <= 1
    /\ readyQueue # <<>> =>
         /\ (readyQueue[1] = RawError /\ bodyError) \/ readyQueue[1] \in FirstErrors
         /\ mutex \in Child => readyQueue[1].task # mutex
    /\ readyQueue = <<>> /\ ~Over => \A i \in Errors : offered[i] = mutex
    /\ ~bodyError /\ Over =>
         (IF pc[Owner] \in {"destroy", "destroyed"} THEN outcome ELSE slot) \in Outcomes

IInv ==
  /\ TypeOK
  /\ DOMAIN pc = Proc
  /\ LockInv
  /\ AssumedInv
  /\ WaitInv
  /\ OfferInv
  /\ FifoInv
  /\ CountInv
  /\ ChildInv
  /\ OverInv
  /\ ErrorInv
-----------------------------------------------------------------------------

\* The names of the processes differ.
LEMMA ProcNames ==
  /\ Owner \notin Child /\ NoOne \notin Child /\ Canceller \notin Child
  /\ Owner # NoOne /\ Owner # Canceller
BY BoundsAssumption DEF Owner, NoOne, Canceller, Child

\* There are finitely many child tasks.
LEMMA AddedFinite ==
  IsFiniteSet(Added) /\ Cardinality(Added) \in Nat
<1>1. IsFiniteSet(Child)
  BY BoundsAssumption, FS_Interval DEF Child
<1>2. Added \in SUBSET Child
  BY DEF Added
<1>3. IsFiniteSet(Added)
  BY <1>1, <1>2, FS_Subset
<1>. QED  BY <1>3, FS_CardinalityType

\* What addPending() does, in its three outcomes
LEMMA AddPendingEffect ==
  ASSUME IInv, NEW u \in BOOLEAN, AddPending(u)
  PROVE  /\ pc[Owner] = "body"
         /\ DOMAIN pc' = Proc /\ pc'[Canceller] = pc[Canceller]
         /\ status' = [status EXCEPT !.pending = @ + 1]
         /\ \/ /\ pc'[Owner] = "aborted" /\ status'.pending = MaxPending
               /\ \A c \in Child : pc'[c] = pc[c]
            \/ /\ pc'[Owner] = "revert" /\ status'.pending # MaxPending
               /\ \A c \in Child : pc'[c] = pc[c]
            \/ /\ pc'[Owner] = "create" /\ status'.pending # MaxPending
               /\ \E c \in Child :
                    /\ c = Cardinality(Added) + 1 /\ pc[c] = "none" /\ pc'[c] = "created"
                    /\ \A d \in Child : d # c => pc'[d] = pc[d]
         /\ UNCHANGED <<discarding, mutex, assumed, waitQueue, readyQueue, children, finishing,
                        bodyError, slot, outcome, fails, cancelled, retained, offered, delivered>>
<1>1. /\ pc[Owner] = "body" /\ status' = [status EXCEPT !.pending = @ + 1]
      /\ UNCHANGED <<discarding, mutex, assumed, waitQueue, readyQueue, children, finishing,
                     bodyError, slot, outcome, fails, cancelled, retained, offered, delivered>>
  BY DEF AddPending, At
<1>2. DOMAIN pc = Proc /\ Added = 1..Cardinality(Added)
  BY DEF IInv, OfferInv
<1>3. CASE status'.pending = MaxPending /\ Goto(Owner, "aborted")
  BY <1>1, <1>2, <1>3, ProcNames DEF Goto, Proc
<1>4. CASE status'.pending # MaxPending /\ Goto(Owner, "revert")
  BY <1>1, <1>2, <1>4, ProcNames DEF Goto, Proc
<1>5. ASSUME status'.pending # MaxPending, NEW c \in Child, c = Cardinality(Added) + 1,
             pc' = [pc EXCEPT ![Owner] = "create", ![c] = "created"]
      PROVE  /\ DOMAIN pc' = Proc /\ pc'[Canceller] = pc[Canceller]
             /\ pc'[Owner] = "create" /\ pc[c] = "none" /\ pc'[c] = "created"
             /\ \A d \in Child : d # c => pc'[d] = pc[d]
  <2>1. c \notin Added
    <3>1. \A n \in Nat : n + 1 \notin 1..n
      OBVIOUS
    <3>. QED  BY <1>2, <1>5, <3>1, AddedFinite
  <2>. QED  BY <1>2, <1>5, <2>1, ProcNames DEF Added, Proc
<1>. HIDE DEF AddPending
<1>6. \/ status'.pending = MaxPending /\ Goto(Owner, "aborted")
      \/ status'.pending # MaxPending /\ Goto(Owner, "revert")
      \/ /\ status'.pending # MaxPending
         /\ LET c == Cardinality(Added) + 1
            IN  c \in Child /\ pc' = [pc EXCEPT ![Owner] = "create", ![c] = "created"]
  BY <1>1 DEF AddPending
<1>. QED  BY <1>1, <1>3, <1>4, <1>5, <1>6


\* No more child tasks have been offered than were added, nor delivered than were offered.
Bounds ==
  /\ Len(offered) <= Cardinality(Added)
  /\ Len(offered) = Cardinality(Added) => \A c \in Added : Offered(c)
  /\ 0 <= status.ready /\ status.ready <= status.pending /\ status.pending <= MaxPending
  /\ status.pending = 0 =>
       /\ \A c \in Added : Offered(c)
       /\ ~discarding => delivered = offered /\ readyQueue = <<>> /\ mutex \notin Child

StatusShape == [cancelled : BOOLEAN, waiting : BOOLEAN, ready : Int, pending : Int]

CountedBounds ==
  (/\ offered \in Seq(Child) /\ delivered \in Seq(Child) /\ readyQueue \in Seq(Items)
   /\ discarding \in BOOLEAN /\ status \in StatusShape
   /\ OfferInv /\ FifoInv /\ CountInv) => Bounds

\* The empty sequence is the one without elements.
LEMMA EmptySequence ==
  ASSUME NEW S, NEW s \in Seq(S)
  PROVE  /\ s = <<>> <=> Len(s) = 0
         /\ Len(s) \in Nat
OBVIOUS

\* The counts and the three histories bound each other.
LEMMA BoundsHold == CountedBounds
<1>. SUFFICES ASSUME offered \in Seq(Child), delivered \in Seq(Child), readyQueue \in Seq(Items),
                     discarding \in BOOLEAN, status \in StatusShape, OfferInv, FifoInv, CountInv
              PROVE  Bounds
  BY DEF CountedBounds
<1>n. Cardinality(Added) \in Nat /\ MaxPending \in Nat
  BY AddedFinite, BoundsAssumption
<1>1. offered \in Injection(1..Len(offered), Added)
  <2>1. \A i \in 1..Len(offered) : offered[i] \in Added
    BY DEF OfferInv, Offered, Locked, CancelPositions, Added
  <2>2. offered \in [1..Len(offered) -> Added]
    BY <2>1
  <2>. QED  BY <2>2 DEF OfferInv, Injection, IsInjective
<1>2. Cardinality(1..Len(offered)) = Len(offered) /\ IsFiniteSet(Added)
  <2>1. Len(offered) \in Nat
    OBVIOUS
  <2>2. \A n \in Nat : Cardinality(1..n) = n
    BY FS_Interval
  <2>. QED  BY <2>1, <2>2, AddedFinite
<1>3. Len(offered) <= Cardinality(Added)
  BY <1>1, <1>2, FS_Injection
<1>4. ASSUME Len(offered) = Cardinality(Added)
      PROVE  \A c \in Added : Offered(c)
  <2>1. offered \in Surjection(1..Len(offered), Added)
    BY <1>1, <1>2, <1>4, FS_Injection
  <2>. QED  BY <2>1 DEF Surjection, Offered
<1>5. CASE discarding
  BY <1>3, <1>4, <1>5, <1>n DEF Bounds, CountInv, CountsMatchTasks, StatusShape
<1>6. CASE ~discarding
  <2>1. /\ Len(delivered) \in Nat /\ Len(readyQueue) \in Nat /\ Len(offered) \in Nat
        /\ Len(offered) = Len(delivered) + Len(readyQueue) + IF mutex \in Child THEN 1 ELSE 0
        /\ \A i \in DOMAIN delivered : delivered[i] = offered[i]
    BY <1>6 DEF FifoInv
  <2>2. Len(delivered) = Len(offered) => delivered = offered
    <3>1. \A s, t \in Seq(Child) :
            Len(s) = Len(t) /\ (\A i \in DOMAIN s : s[i] = t[i]) => s = t
      OBVIOUS
    <3>. QED  BY <2>1, <3>1
  <2>3. Len(readyQueue) = 0 => readyQueue = <<>>
    OBVIOUS
  <2>4. /\ status.pending = Cardinality(Added) - Len(delivered)
                            + IF pc[Owner] \in {"revert", "aborted"} THEN 1 ELSE 0
        /\ status.ready = Len(readyQueue) + IF mutex \in Child THEN 1 ELSE 0
        /\ status.pending <= MaxPending
    BY <1>6 DEF CountInv, CountsMatchTasks
  <2>5. 0 <= status.ready /\ status.ready <= status.pending
    BY <2>1, <2>4, <1>3, <1>n
  <2>6. status.pending = 0 =>
          /\ Len(offered) = Cardinality(Added) /\ Len(delivered) = Len(offered)
          /\ Len(readyQueue) = 0 /\ mutex \notin Child
    <3>1. status.pending = 0 => Cardinality(Added) <= Len(delivered)
      BY <2>1, <2>4, <1>n
    <3>2. Cardinality(Added) <= Len(delivered) =>
            /\ Len(offered) = Cardinality(Added) /\ Len(delivered) = Len(offered)
            /\ Len(readyQueue) = 0 /\ mutex \notin Child
      BY <2>1, <1>3, <1>n
    <3>. QED  BY <3>1, <3>2
  <2>. QED  BY <1>3, <1>4, <1>6, <2>2, <2>3, <2>4, <2>5, <2>6 DEF Bounds
<1>. QED  BY <1>5, <1>6

\* So they do in every state of the invariant.
LEMMA BoundsFollow == IInv => Bounds
<1>1. ASSUME status \in Status
      PROVE  status \in StatusShape
  BY <1>1, BoundsAssumption DEF Status, StatusShape
<1>. QED  BY <1>1, BoundsHold DEF CountedBounds, IInv, TypeOK

\* The types, but for the ranges of the counts
PositionTypes ==
  /\ DOMAIN pc = Proc
  /\ pc[Owner] \in OwnerPositions
  /\ pc[Canceller] \in {"none", "walk", "done"}
  /\ \A c \in Child : pc[c] \in ChildPositions
  /\ mutex \in Child \cup {Owner, NoOne}
  /\ finishing \in BOOLEAN

ResultTypes ==
  /\ readyQueue \in Seq(Items)
  /\ slot \in Items \cup {Empty}
  /\ outcome \in Items \cup {Empty}
  /\ fails \in [Child -> BOOLEAN]
  /\ retained \in [Child -> Int]
  /\ offered \in Seq(Child)
  /\ delivered \in Seq(Child)

FlagTypes ==
  /\ discarding \in BOOLEAN
  /\ waitQueue \in BOOLEAN
  /\ bodyError \in BOOLEAN
  /\ children \in SUBSET Child
  /\ cancelled \in SUBSET (Child \cup {Owner})

\* The types, part by part
LEMMA TypesFollow ==
  IInv => PositionTypes /\ ResultTypes /\ FlagTypes /\ status \in StatusShape
<1>1. ASSUME status \in Status
      PROVE  status \in StatusShape
  BY <1>1, BoundsAssumption DEF Status, StatusShape
<1>2. ASSUME retained \in [Child -> 0..1]
      PROVE  retained \in [Child -> Int]
  BY <1>2
<1>. QED  BY <1>1, <1>2 DEF IInv, TypeOK, PositionTypes, ResultTypes, FlagTypes

\* The updates of the status word keep its shape.
LEMMA StatusUpdates ==
  ASSUME NEW s \in StatusShape
  PROVE  /\ [s EXCEPT !.pending = @ + 1] \in StatusShape
         /\ [s EXCEPT !.pending = @ - 1] \in StatusShape
         /\ [s EXCEPT !.cancelled = TRUE] \in StatusShape
         /\ completingPendingReadyWaiting(s) \in StatusShape
         /\ statusMarkWaiting(s) \in StatusShape
         /\ statusRemoveWaiting(s) \in StatusShape
         /\ statusAfterOffer(s) \in StatusShape
<1>1. /\ [s EXCEPT !.pending = @ + 1] \in StatusShape
      /\ [s EXCEPT !.pending = @ - 1] \in StatusShape
  BY DEF StatusShape
<1>2. [s EXCEPT !.cancelled = TRUE] \in StatusShape
  BY DEF StatusShape
<1>3. completingPendingReadyWaiting(s) \in StatusShape
  <2>. DEFINE m == s.pending - 1
              n == s.ready - IF discarding THEN 0 ELSE 1
  <2>1. m \in Int /\ n \in Int
    BY DEF StatusShape
  <2>2. completingPendingReadyWaiting(s) = [s EXCEPT !.pending = m, !.ready = n, !.waiting = FALSE]
    BY DEF completingPendingReadyWaiting
  <2>. HIDE DEF m, n
  <2>. QED  BY <2>1, <2>2 DEF StatusShape
<1>4. statusMarkWaiting(s) \in StatusShape /\ statusRemoveWaiting(s) \in StatusShape
  BY DEF StatusShape, statusMarkWaiting, statusRemoveWaiting
<1>5. statusAfterOffer(s) \in StatusShape
  BY DEF StatusShape, statusAfterOffer
<1>. QED  BY <1>1, <1>2, <1>3, <1>4, <1>5

\* What the ready queue holds, in the two kinds of groups
LEMMA QueueFacts ==
  ASSUME IInv
  PROVE  /\ ~discarding => \A i \in DOMAIN readyQueue :
              /\ Len(delivered) + i \in DOMAIN offered
              /\ readyQueue[i].task = offered[Len(delivered) + i]
         /\ ~discarding /\ mutex \in Child => ~Queued(mutex) /\ ~Polled(mutex)
         /\ pc[Owner] = "polledTask" => slot.task \in Child /\ ~Queued(slot.task)
         /\ discarding => \A d : ~Polled(d)
         /\ discarding /\ readyQueue # <<>> =>
              /\ Len(readyQueue) = 1 /\ Tail(readyQueue) = <<>>
                 /\ Head(readyQueue) = readyQueue[1]
              /\ \A d : Queued(d) <=> readyQueue[1].task = d
              /\ mutex \in Child => ~Queued(mutex)
<1>t. /\ offered \in Seq(Child) /\ delivered \in Seq(Child) /\ readyQueue \in Seq(Items)
      /\ Len(offered) \in Nat /\ Len(delivered) \in Nat /\ Len(readyQueue) \in Nat
  BY DEF IInv, TypeOK
<1>i. IInv
  OBVIOUS
<1>p. LockInv /\ OfferInv /\ FifoInv /\ ErrorInv
  BY <1>i DEF IInv
<1>. HIDE DEF IInv
<1>l. pc[Owner] = "polledTask" => ~discarding
  BY <1>p DEF LockInv
<1>1. ASSUME ~discarding, NEW i \in DOMAIN readyQueue
      PROVE  /\ Len(delivered) + i \in DOMAIN offered
             /\ readyQueue[i].task = offered[Len(delivered) + i]
             /\ i \in Nat \ {0}
             /\ mutex \in Child => Len(delivered) + i < Len(offered)
  <2>1. Len(offered) = Len(delivered) + Len(readyQueue) + IF mutex \in Child THEN 1 ELSE 0
    BY <1>1, <1>p DEF FifoInv
  <2>2. i \in 1..Len(readyQueue)
    BY <1>1, <1>t
  <2>3. Len(delivered) + i \in 1..Len(offered)
    BY <2>1, <2>2, <1>t
  <2>4. readyQueue[i] = CompletedTask(offered[Len(delivered) + i])
    BY <1>1, <1>p DEF FifoInv
  <2>5. mutex \in Child => Len(delivered) + i < Len(offered)
    BY <2>1, <2>2, <1>t
  <2>. QED  BY <2>2, <2>3, <2>4, <2>5, <1>t DEF CompletedTask, Item
<1>2. ASSUME ~discarding, mutex \in Child
      PROVE  ~Queued(mutex) /\ ~Polled(mutex)
  <2>1. /\ Len(offered) = Len(delivered) + Len(readyQueue) + 1
        /\ offered[Len(offered)] = mutex
        /\ \A i, j \in DOMAIN offered : offered[i] = offered[j] => i = j
    BY <1>2, <1>p DEF FifoInv, OfferInv
  <2>2. ASSUME NEW i \in DOMAIN readyQueue
        PROVE  readyQueue[i].task # mutex
    <3>1. /\ Len(delivered) + i \in DOMAIN offered /\ Len(delivered) + i < Len(offered)
          /\ readyQueue[i].task = offered[Len(delivered) + i]
      BY <1>1, <1>2
    <3>2. Len(offered) \in DOMAIN offered /\ Len(delivered) + i # Len(offered)
      BY <3>1, <1>t
    <3>. QED  BY <2>1, <3>1, <3>2
  <2>3. ASSUME pc[Owner] = "polledTask"
        PROVE  slot.task # mutex
    <3>1. /\ Len(delivered) > 0 /\ slot = CompletedTask(delivered[Len(delivered)])
          /\ \A i \in DOMAIN delivered : delivered[i] = offered[i]
      BY <1>2, <1>p, <2>3 DEF FifoInv
    <3>2. slot.task = offered[Len(delivered)]
      BY <3>1, <1>t DEF CompletedTask, Item
    <3>. QED  BY <2>1, <3>1, <3>2, <1>t
  <2>. QED  BY <2>2, <2>3 DEF Polled, Queued
<1>3. ASSUME pc[Owner] = "polledTask"
      PROVE  slot.task \in Child /\ ~Queued(slot.task)
  <2>1. /\ Len(delivered) > 0 /\ slot = CompletedTask(delivered[Len(delivered)])
        /\ \A i \in DOMAIN delivered : delivered[i] = offered[i]
        /\ Len(offered) >= Len(delivered) + Len(readyQueue)
        /\ \A i, j \in DOMAIN offered : offered[i] = offered[j] => i = j
    BY <1>3, <1>p, <1>l, <1>t DEF FifoInv, OfferInv
  <2>2. slot.task = offered[Len(delivered)] /\ slot.task = delivered[Len(delivered)]
    BY <2>1, <1>t DEF CompletedTask, Item
  <2>3. \A i \in DOMAIN readyQueue : readyQueue[i].task # slot.task
    BY <2>1, <2>2, <1>1, <1>3, <1>l, <1>t
  <2>4. slot.task \in Child
    BY <2>1, <2>2, <1>t
  <2>. QED  BY <2>3, <2>4 DEF Queued
<1>4. ASSUME discarding, readyQueue # <<>>
      PROVE  /\ Len(readyQueue) = 1 /\ Tail(readyQueue) = <<>> /\ Head(readyQueue) = readyQueue[1]
             /\ \A d : Queued(d) <=> readyQueue[1].task = d
             /\ mutex \in Child => ~Queued(mutex)
  <2>1. Len(readyQueue) = 1
    <3>1. Len(readyQueue) <= 1
      BY <1>4, <1>p DEF ErrorInv
    <3>2. Len(readyQueue) # 0
      BY <1>4, <1>t, EmptySequence
    <3>3. Len(readyQueue) \in Nat
      BY <1>t
    <3>. QED  BY <3>1, <3>2, <3>3
  <2>2. Tail(readyQueue) = <<>> /\ Head(readyQueue) = readyQueue[1] /\ DOMAIN readyQueue = {1}
    <3>1. Len(Tail(readyQueue)) = 0 /\ Tail(readyQueue) \in Seq(Items)
      BY <2>1, <1>4, <1>t
    <3>2. Tail(readyQueue) = <<>>
      BY <3>1, EmptySequence
    <3>3. DOMAIN readyQueue = 1..1 /\ Head(readyQueue) = readyQueue[1]
      BY <2>1, <1>t
    <3>. QED  BY <3>2, <3>3
  <2>3. mutex \in Child => readyQueue[1].task # mutex
    BY <1>4, <1>p DEF ErrorInv
  <2>. QED  BY <2>1, <2>2, <2>3 DEF Queued
<1>. QED  BY <1>1, <1>2, <1>3, <1>4, <1>l DEF Polled

\* A result in the queue is that of a child task that has been offered.
LEMMA QueuedOffered ==
  ASSUME IInv, NEW d \in Child, Queued(d)
  PROVE  Offered(d)
<1>i. IInv
  OBVIOUS
<1>. HIDE DEF IInv
<1>1. CASE discarding
  <2>1. readyQueue # <<>> /\ readyQueue[1].task = d
    <3>1. readyQueue # <<>>
      BY DEF Queued
    <3>. QED  BY <1>1, <3>1, QueueFacts
  <2>2. readyQueue[1] \in FirstErrors
    BY <1>1, <2>1, <1>i, ProcNames DEF IInv, ErrorInv, RawError, Item
  <2>. QED  BY <2>1, <2>2 DEF FirstErrors, Item, Offered, Errors
<1>2. CASE ~discarding
  BY <1>2, QueueFacts DEF Queued, Offered
<1>. QED  BY <1>1, <1>2

\* Sequences of items, at both ends
LEMMA AppendItem ==
  ASSUME readyQueue \in Seq(Items), NEW item, readyQueue' = Append(readyQueue, item)
  PROVE  \A d : Queued(d)' <=> Queued(d) \/ d = item.task
<1>1. /\ Len(readyQueue') = Len(readyQueue) + 1
      /\ readyQueue'[Len(readyQueue) + 1] = item
      /\ \A i \in DOMAIN readyQueue : readyQueue'[i] = readyQueue[i]
      /\ DOMAIN readyQueue' = DOMAIN readyQueue \cup {Len(readyQueue) + 1}
  OBVIOUS
<1>. QED  BY <1>1 DEF Queued

LEMMA HeadAndTail ==
  ASSUME readyQueue \in Seq(Items), readyQueue # <<>>, readyQueue' = Tail(readyQueue)
  PROVE  \A d : Queued(d) <=> Queued(d)' \/ d = Head(readyQueue).task
<1>1. Len(readyQueue) \in Nat \ {0} /\ Head(readyQueue) = readyQueue[1]
  OBVIOUS
<1>a. /\ Len(readyQueue') = Len(readyQueue) - 1
      /\ DOMAIN readyQueue = 1..Len(readyQueue) /\ DOMAIN readyQueue' = 1..Len(readyQueue')
      /\ \A i \in 1..Len(readyQueue') : readyQueue'[i] = readyQueue[i + 1]
  BY <1>1
<1>b. \A i \in Nat : i - 1 + 1 = i
  OBVIOUS
<1>2. \A i \in DOMAIN readyQueue' : i + 1 \in DOMAIN readyQueue
         /\ readyQueue'[i] = readyQueue[i + 1]
  BY <1>1, <1>a
<1>3. \A i \in DOMAIN readyQueue :
         i = 1 \/ \E j \in DOMAIN readyQueue' : i = j + 1 /\ readyQueue[i] = readyQueue'[j]
  <2>. SUFFICES ASSUME NEW i \in DOMAIN readyQueue, i # 1
                PROVE  \E j \in DOMAIN readyQueue' : i = j + 1 /\ readyQueue[i] = readyQueue'[j]
    OBVIOUS
  <2>1. i - 1 \in 1..Len(readyQueue') /\ i = (i - 1) + 1
    BY <1>1, <1>a
  <2>2. readyQueue'[i - 1] = readyQueue[i]
    BY <2>1, <1>a
  <2>. QED  BY <2>1, <2>2, <1>a
<1>4. 1 \in DOMAIN readyQueue
  BY <1>1, <1>a
<1>. QED  BY <1>1, <1>2, <1>3, <1>4 DEF Queued

\* The mutex is held exactly by the one whose position says so.
LEMMA LockStep == IInv /\ [Next]_vars => LockInv'
<1>. SUFFICES ASSUME IInv, [Next]_vars
              PROVE  LockInv'
  OBVIOUS
<1>p. /\ LockInv /\ DOMAIN pc = Proc
  BY DEF IInv
<1>n. /\ Owner \notin Child /\ NoOne \notin Child /\ Canceller \notin Child
      /\ Owner # NoOne /\ Owner # Canceller
  BY ProcNames
<1>1. ASSUME NEW u \in BOOLEAN, AddPending(u)
      PROVE  LockInv'
  BY <1>1, AddPendingEffect, <1>p DEF LockInv, CancelPositions, Locked
<1>2. CASE \/ RevertPending \/ CallCancelAll \/ CancelOwner \/ CancelRecords \/ CallNext
           \/ PollLocks
  BY <1>2, <1>p, <1>n
  DEF LockInv, Locks, At, Aborted, Goto, Proc, CancelPositions, Locked, RevertPending,
     CallCancelAll, CancelOwner, CancelRecords, CallNext, PollLocks
<1>3. ASSUME NEW c \in Child,
             \/ CreateTask(c) \/ AttachChild(c) \/ OfferLocks(c) \/ OfferToWaiter(c)
             \/ OfferToQueue(c) \/ OfferLast(c)
      PROVE  LockInv'
  BY <1>3, <1>p, <1>n
  DEF LockInv, Locks, Unlocks, At, Aborted, Goto, Proc, CancelPositions, Locked, CreateTask,
     AttachChild, OfferLocks, OfferToWaiter, OfferToQueue, OfferLast
<1>4. ASSUME NEW p \in Child \cup {Owner},
             \/ StatusCancel(p) \/ CheckFirstChild(p) \/ CancelChildren(p)
      PROVE  LockInv'
  BY <1>4, <1>p, <1>n
  DEF LockInv, At, Aborted, Goto, Proc, CancelPositions, Locked, Await, AfterCancelAll,
     StatusCancel, CheckFirstChild, CancelChildren
<1>5. ASSUME NEW c \in Child, NEW throws \in BOOLEAN, ChildCompletes(c, throws)
      PROVE  LockInv'
  BY <1>5, <1>p, <1>n
  DEF LockInv, At, Aborted, Goto, Proc, CancelPositions, Locked, ChildCompletes
<1>6. ASSUME NEW c \in Child,
             \/ OfferNotLast(c) \/ RunWaitingTask(c)
      PROVE  LockInv'
  BY <1>6, <1>p, <1>n
  DEF LockInv, Unlocks, At, Aborted, Goto, Proc, CancelPositions, Locked, OfferNotLast,
     RunWaitingTask
<1>7. CASE \/ PollEmpty \/ PollReady \/ ReturnPolled \/ PollWaits \/ Resume
           \/ BodyReturns
  BY <1>7, <1>p, <1>n
  DEF LockInv, Unlocks, At, Aborted, Goto, Proc, CancelPositions, Locked, Await, AfterNext,
     PollEmpty, PollReady, ReturnPolled, PollWaits, Resume, BodyReturns
<1>8. CASE \/ BodyThrows \/ WaitAllLocks \/ WaitAllEmpty \/ WaitAllParks \/ Destroy
  BY <1>8, <1>p, <1>n
  DEF LockInv, Locks, Unlocks, At, Aborted, Goto, Proc, CancelPositions, Locked, BodyThrows,
     WaitAllLocks, WaitAllEmpty, WaitAllParks, Destroy
<1>9. CASE UNCHANGED vars
  BY <1>9, <1>p, <1>n
  DEF LockInv, CancelPositions, Locked, vars
<1>. QED
  BY <1>1, <1>2, <1>3, <1>4, <1>5, <1>6, <1>7, <1>8, <1>9
  DEF Next, OwnerStep, Body, ChildStep

\* No update of the status word without the mutex disturbs what its holder works from.
LEMMA AssumedStep == IInv /\ [Next]_vars => AssumedInv'
<1>. SUFFICES ASSUME IInv, [Next]_vars
              PROVE  AssumedInv'
  OBVIOUS
<1>p. /\ LockInv /\ WaitInv /\ AssumedInv /\ status \in Status /\ DOMAIN pc = Proc
  BY DEF IInv, TypeOK
<1>n. /\ Owner \notin Child /\ NoOne \notin Child /\ Canceller \notin Child
      /\ Owner # NoOne /\ Owner # Canceller
  BY ProcNames
<1>1. ASSUME NEW u \in BOOLEAN, AddPending(u)
      PROVE  AssumedInv'
  BY <1>1, AddPendingEffect, <1>p, <1>n DEF LockInv, WaitInv, AssumedInv, Status
<1>2. CASE \/ RevertPending \/ CallCancelAll
  BY <1>2, <1>p, <1>n
  DEF AssumedInv, LockInv, WaitInv, Status, At, Aborted, Goto, Proc, CancelPositions, Locked,
     RevertPending, CallCancelAll
<1>3. ASSUME NEW c \in Child,
             \/ CreateTask(c) \/ AttachChild(c)
      PROVE  AssumedInv'
  BY <1>3, <1>p, <1>n
  DEF AssumedInv, LockInv, WaitInv, Status, At, Aborted, Goto, Proc, CancelPositions, Locked,
     CreateTask, AttachChild
<1>4. ASSUME NEW p \in Child \cup {Owner},
             \/ StatusCancel(p) \/ CheckFirstChild(p)
      PROVE  AssumedInv'
  BY <1>4, <1>p, <1>n
  DEF AssumedInv, LockInv, WaitInv, Status, At, Aborted, Goto, Proc, CancelPositions, Locked,
     Await, AfterCancelAll, StatusCancel, CheckFirstChild
<1>5. ASSUME NEW p \in Child \cup {Owner}, CancelChildren(p)
      PROVE  AssumedInv'
  BY <1>5, <1>p, <1>n
  DEF AssumedInv, LockInv, WaitInv, Status, At, Aborted, Goto, Proc, CancelPositions, Locked,
     Await, AfterCancelAll, CancelChildren
<1>6. CASE \/ CancelOwner \/ CancelRecords
  BY <1>6, <1>p, <1>n
  DEF AssumedInv, LockInv, WaitInv, Status, At, Aborted, Goto, Proc, CancelPositions, Locked,
     CancelOwner, CancelRecords
<1>7. ASSUME NEW c \in Child, NEW throws \in BOOLEAN, ChildCompletes(c, throws)
      PROVE  AssumedInv'
  BY <1>7, <1>p, <1>n
  DEF AssumedInv, LockInv, WaitInv, Status, At, Aborted, Goto, Proc, CancelPositions, Locked,
     ChildCompletes
<1>8. ASSUME NEW c \in Child,
             \/ OfferLocks(c) \/ OfferToWaiter(c)
      PROVE  AssumedInv'
  BY <1>8, <1>p, <1>n
  DEF AssumedInv, LockInv, WaitInv, Locks, Unlocks, Status, statusAfterOffer,
     completingPendingReadyWaiting, At, Aborted, Goto, Proc, CancelPositions, Locked,
     OfferLocks, OfferToWaiter
<1>9. ASSUME NEW c \in Child,
             \/ OfferToQueue(c) \/ OfferLast(c)
      PROVE  AssumedInv'
  BY <1>9, <1>p, <1>n
  DEF AssumedInv, LockInv, WaitInv, Unlocks, Status, At, Aborted, Goto, Proc, CancelPositions,
     Locked, OfferToQueue, OfferLast
<1>10. ASSUME NEW c \in Child,
             \/ OfferNotLast(c) \/ RunWaitingTask(c)
      PROVE  AssumedInv'
  BY <1>10, <1>p, <1>n
  DEF AssumedInv, LockInv, WaitInv, Unlocks, Status, At, Aborted, Goto, Proc, CancelPositions,
     Locked, OfferNotLast, RunWaitingTask
<1>11. CASE \/ CallNext \/ PollLocks
  BY <1>11, <1>p, <1>n
  DEF AssumedInv, LockInv, WaitInv, Locks, Status, statusMarkWaiting, At, Aborted, Goto, Proc,
     CancelPositions, Locked, CallNext, PollLocks
<1>12. CASE \/ PollEmpty \/ PollReady
  BY <1>12, <1>p, <1>n
  DEF AssumedInv, LockInv, WaitInv, Unlocks, Status, statusRemoveWaiting,
     completingPendingReadyWaiting, At, Aborted, Goto, Proc, CancelPositions, Locked, PollEmpty,
     PollReady
<1>13. CASE \/ ReturnPolled \/ PollWaits
  BY <1>13, <1>p, <1>n
  DEF AssumedInv, LockInv, WaitInv, Unlocks, Status, At, Aborted, Goto, Proc, CancelPositions,
     Locked, AfterNext, ReturnPolled, PollWaits
<1>14. CASE \/ Resume \/ BodyReturns
  BY <1>14, <1>p, <1>n
  DEF AssumedInv, LockInv, WaitInv, Status, At, Aborted, Goto, Proc, CancelPositions, Locked,
     Await, AfterNext, Resume, BodyReturns
<1>15. CASE \/ BodyThrows \/ WaitAllLocks
  BY <1>15, <1>p, <1>n
  DEF AssumedInv, LockInv, WaitInv, Locks, Status, At, Aborted, Goto, Proc, CancelPositions,
     Locked, BodyThrows, WaitAllLocks
<1>16. CASE \/ WaitAllEmpty \/ WaitAllParks
  BY <1>16, <1>p, <1>n
  DEF AssumedInv, LockInv, WaitInv, Unlocks, Status, statusMarkWaiting, At, Aborted, Goto, Proc,
     CancelPositions, Locked, WaitAllEmpty, WaitAllParks
<1>17. CASE Destroy
  BY <1>17, <1>p, <1>n
  DEF AssumedInv, LockInv, WaitInv, Status, At, Aborted, Goto, Proc, CancelPositions, Locked,
     Destroy
<1>18. CASE UNCHANGED vars
  BY <1>18, <1>p, <1>n
  DEF AssumedInv, LockInv, WaitInv, Status, CancelPositions, Locked, vars
<1>. QED
  BY <1>1, <1>2, <1>3, <1>4, <1>5, <1>6, <1>7, <1>8, <1>9, <1>10, <1>11, <1>12, <1>13, <1>14,
     <1>15, <1>16, <1>17, <1>18
  DEF Next, OwnerStep, Body, ChildStep

\* The waiting bit and the wait queue go together; one child task resumes the owner.
LEMMA WaitStep == IInv /\ [Next]_vars => WaitInv'
<1>. SUFFICES ASSUME IInv, [Next]_vars
              PROVE  WaitInv'
  OBVIOUS
<1>p. /\ LockInv /\ WaitInv /\ AssumedInv /\ OverInv /\ status \in Status
         /\ discarding \in BOOLEAN /\ DOMAIN pc = Proc
  BY DEF IInv, TypeOK
<1>n. /\ Owner \notin Child /\ NoOne \notin Child /\ Canceller \notin Child
      /\ Owner # NoOne /\ Owner # Canceller
  BY ProcNames
<1>1. ASSUME NEW u \in BOOLEAN, AddPending(u)
      PROVE  WaitInv'
  BY <1>1, AddPendingEffect, <1>p, <1>n DEF LockInv, WaitInv, AssumedInv, Status
<1>2. CASE RevertPending
  BY <1>2, <1>p, <1>n
  DEF AssumedInv, LockInv, WaitInv, Status, At, Aborted, Goto, Proc, CancelPositions, Locked,
     RevertPending
<1>3. ASSUME NEW c \in Child, CreateTask(c)
      PROVE  WaitInv'
  BY <1>3, <1>p, <1>n
  DEF AssumedInv, LockInv, WaitInv, Status, At, Aborted, Goto, Proc, CancelPositions, Locked,
     CreateTask
<1>4. ASSUME NEW c \in Child, AttachChild(c)
      PROVE  WaitInv'
  BY <1>4, <1>p, <1>n
  DEF AssumedInv, LockInv, WaitInv, Status, At, Aborted, Proc, CancelPositions, Locked,
     AttachChild
<1>5. CASE CallCancelAll
  BY <1>5, <1>p, <1>n
  DEF AssumedInv, LockInv, WaitInv, Status, At, Aborted, Goto, Proc, CancelPositions, Locked,
     CallCancelAll
<1>6. ASSUME NEW p \in Child \cup {Owner}, StatusCancel(p)
      PROVE  WaitInv'
  BY <1>6, <1>p, <1>n
  DEF AssumedInv, LockInv, WaitInv, Status, At, Aborted, Goto, Proc, CancelPositions, Locked,
     Await, AfterCancelAll, StatusCancel
<1>7. ASSUME NEW p \in Child \cup {Owner}, CheckFirstChild(p)
      PROVE  WaitInv'
  BY <1>7, <1>p, <1>n
  DEF AssumedInv, LockInv, WaitInv, Status, At, Aborted, Goto, Proc, CancelPositions, Locked,
     Await, AfterCancelAll, CheckFirstChild
<1>8. ASSUME NEW p \in Child \cup {Owner}, CancelChildren(p)
      PROVE  WaitInv'
  BY <1>8, <1>p, <1>n
  DEF AssumedInv, LockInv, WaitInv, Status, At, Aborted, Goto, Proc, CancelPositions, Locked,
     Await, AfterCancelAll, CancelChildren
<1>9. CASE CancelOwner
  BY <1>9, <1>p, <1>n
  DEF AssumedInv, LockInv, WaitInv, Status, At, Aborted, Goto, Proc, CancelPositions, Locked,
     CancelOwner
<1>10. CASE CancelRecords
  BY <1>10, <1>p, <1>n
  DEF AssumedInv, LockInv, WaitInv, Status, At, Aborted, Goto, Proc, CancelPositions, Locked,
     CancelRecords
<1>11. ASSUME NEW c \in Child, NEW throws \in BOOLEAN, ChildCompletes(c, throws)
      PROVE  WaitInv'
  BY <1>11, <1>p, <1>n
  DEF AssumedInv, LockInv, WaitInv, Status, At, Aborted, Goto, Proc, CancelPositions, Locked,
     ChildCompletes
<1>12. ASSUME NEW c \in Child, OfferLocks(c)
      PROVE  WaitInv'
  BY <1>12, <1>p, <1>n
  DEF AssumedInv, LockInv, WaitInv, Locks, Status, statusAfterOffer, At, Aborted, Goto, Proc,
     CancelPositions, Locked, OfferLocks
<1>13. ASSUME NEW c \in Child, OfferToWaiter(c)
      PROVE  WaitInv'
  BY <1>13, <1>p, <1>n
  DEF AssumedInv, LockInv, WaitInv, Unlocks, Status, completingPendingReadyWaiting, At, Aborted,
     Goto, Proc, CancelPositions, Locked, OfferToWaiter
<1>14. ASSUME NEW c \in Child, OfferToQueue(c)
      PROVE  WaitInv'
  BY <1>14, <1>p, <1>n
  DEF AssumedInv, LockInv, WaitInv, Unlocks, Status, At, Aborted, Goto, Proc, CancelPositions,
     Locked, OfferToQueue
<1>15. ASSUME NEW c \in Child, OfferLast(c)
      PROVE  WaitInv'
  BY <1>15, <1>p, <1>n DEF AssumedInv, LockInv, WaitInv, OverInv, Over, IsLast, Unlocks, Locked,
     At, Aborted, Goto, Proc, OfferLast
<1>16. ASSUME NEW c \in Child, OfferNotLast(c)
      PROVE  WaitInv'
  BY <1>16, <1>p, <1>n
  DEF AssumedInv, LockInv, WaitInv, Unlocks, Status, At, Aborted, Goto, Proc, CancelPositions,
     Locked, OfferNotLast
<1>17. ASSUME NEW c \in Child, RunWaitingTask(c)
      PROVE  WaitInv'
  BY <1>17, <1>p, <1>n
  DEF AssumedInv, LockInv, WaitInv, Status, At, Aborted, Proc, CancelPositions, Locked,
     RunWaitingTask
<1>18. CASE CallNext
  BY <1>18, <1>p, <1>n
  DEF AssumedInv, LockInv, WaitInv, Status, At, Aborted, Goto, Proc, CancelPositions, Locked,
     CallNext
<1>19. CASE PollLocks
  BY <1>19, <1>p, <1>n
  DEF AssumedInv, LockInv, WaitInv, Locks, Status, statusMarkWaiting, At, Aborted, Goto, Proc,
     CancelPositions, Locked, PollLocks
<1>20. CASE PollEmpty
  BY <1>20, <1>p, <1>n
  DEF AssumedInv, LockInv, WaitInv, Unlocks, Status, statusRemoveWaiting, At, Aborted, Goto,
     Proc, CancelPositions, Locked, PollEmpty
<1>21. CASE PollReady
  BY <1>21, <1>p, <1>n
  DEF AssumedInv, LockInv, WaitInv, Unlocks, Status, completingPendingReadyWaiting, At, Aborted,
     Goto, Proc, CancelPositions, Locked, PollReady
<1>22. CASE ReturnPolled
  BY <1>22, <1>p, <1>n
  DEF AssumedInv, LockInv, WaitInv, Status, At, Aborted, Goto, Proc, CancelPositions, Locked,
     AfterNext, ReturnPolled
<1>23. CASE PollWaits
  BY <1>23, <1>p, <1>n
  DEF AssumedInv, LockInv, WaitInv, Unlocks, Status, At, Aborted, Goto, Proc, CancelPositions,
     Locked, PollWaits
<1>24. CASE Resume
  BY <1>24, <1>p, <1>n
  DEF AssumedInv, LockInv, WaitInv, Status, At, Aborted, Goto, Proc, CancelPositions, Locked,
     AfterNext, Resume
<1>25. CASE BodyReturns
  BY <1>25, <1>p, <1>n
  DEF AssumedInv, LockInv, WaitInv, Status, At, Aborted, Goto, Proc, CancelPositions, Locked,
     Await, BodyReturns
<1>26. CASE BodyThrows
  BY <1>26, <1>p, <1>n
  DEF AssumedInv, LockInv, WaitInv, Status, At, Aborted, Goto, Proc, CancelPositions, Locked,
     BodyThrows
<1>27. CASE WaitAllLocks
  BY <1>27, <1>p, <1>n
  DEF AssumedInv, LockInv, WaitInv, Locks, Status, At, Aborted, Goto, Proc, CancelPositions,
     Locked, WaitAllLocks
<1>28. CASE WaitAllEmpty
  BY <1>28, <1>p, <1>n
  DEF AssumedInv, LockInv, WaitInv, Unlocks, Status, At, Aborted, Goto, Proc, CancelPositions,
     Locked, WaitAllEmpty
<1>29. CASE WaitAllParks
  BY <1>29, <1>p, <1>n
  DEF AssumedInv, LockInv, WaitInv, Unlocks, Status, statusMarkWaiting, At, Aborted, Goto, Proc,
     CancelPositions, Locked, WaitAllParks
<1>30. CASE Destroy
  BY <1>30, <1>p, <1>n
  DEF AssumedInv, LockInv, WaitInv, Status, At, Aborted, Goto, Proc, CancelPositions, Locked,
     Destroy
<1>31. CASE UNCHANGED vars
  BY <1>31, <1>p, <1>n
  DEF AssumedInv, LockInv, WaitInv, Status, CancelPositions, Locked, vars
<1>. QED
  BY <1>1, <1>2, <1>3, <1>4, <1>5, <1>6, <1>7, <1>8, <1>9, <1>10, <1>11, <1>12, <1>13, <1>14,
     <1>15, <1>16, <1>17, <1>18, <1>19, <1>20, <1>21, <1>22, <1>23, <1>24, <1>25, <1>26, <1>27,
     <1>28, <1>29, <1>30, <1>31
  DEF Next, OwnerStep, Body, ChildStep

\* Only addPending() adds child tasks, one at a time and in order.
AddsInOrder ==
  \/ Added' = Added /\ ~(pc[Owner] = "body" /\ pc'[Owner] = "create")
  \/ /\ Added' = 1..(Cardinality(Added) + 1)
     /\ Cardinality(Added') = Cardinality(Added) + 1
     /\ pc[Owner] = "body" /\ pc'[Owner] = "create"

\* Added follows addPending() alone.
LEMMA AddedStep == IInv /\ [Next]_vars => AddsInOrder
<1>. SUFFICES ASSUME IInv, [Next]_vars
              PROVE  AddsInOrder
  OBVIOUS
<1>p. /\ LockInv /\ DOMAIN pc = Proc
  BY DEF IInv
<1>n. /\ Owner \notin Child /\ NoOne \notin Child /\ Canceller \notin Child
      /\ Owner # NoOne /\ Owner # Canceller
  BY ProcNames
<1>1. ASSUME NEW u \in BOOLEAN, AddPending(u)
      PROVE  AddsInOrder
  <2>1. CASE pc'[Owner] # "create" /\ \A c \in Child : pc'[c] = pc[c]
    BY <2>1 DEF AddsInOrder, Added
  <2>2. ASSUME NEW c \in Child, c = Cardinality(Added) + 1, pc[c] = "none", pc'[c] = "created",
               \A d \in Child : d # c => pc'[d] = pc[d]
        PROVE  Added' = Added \cup {c} /\ c \notin Added
    BY <2>2 DEF Added
  <2>3. Added = 1..Cardinality(Added)
    BY DEF IInv, OfferInv
  <2>4. \A n \in Nat : 1..n \cup {n + 1} = 1..(n + 1)
    OBVIOUS
  <2>5. ASSUME NEW c \in Child, c = Cardinality(Added) + 1, pc[c] = "none", pc'[c] = "created",
               \A d \in Child : d # c => pc'[d] = pc[d]
        PROVE  Added' = 1..(Cardinality(Added) + 1)
                  /\ Cardinality(Added') = Cardinality(Added) + 1
    <3>1. Added' = Added \cup {c} /\ c \notin Added
      BY <2>2, <2>5
    <3>2. Cardinality(Added \cup {c}) = Cardinality(Added) + 1
      BY <3>1, AddedFinite, FS_AddElement
    <3>3. 1..Cardinality(Added) \cup {c} = 1..(Cardinality(Added) + 1)
      BY <2>4, <2>5, AddedFinite
    <3>. QED  BY <2>3, <3>1, <3>2, <3>3
  <2>6. QED  BY <1>1, <2>1, <2>5, AddPendingEffect DEF AddsInOrder
<1>2. CASE \/ RevertPending \/ CallCancelAll \/ CancelOwner \/ CancelRecords \/ CallNext
           \/ PollLocks
  BY <1>2, <1>p, <1>n
  DEF AddsInOrder, Added, At, Aborted, Goto, Proc, RevertPending, CallCancelAll, CancelOwner,
     CancelRecords, CallNext, PollLocks
<1>3. ASSUME NEW c \in Child,
             \/ CreateTask(c) \/ AttachChild(c) \/ OfferLocks(c) \/ OfferToWaiter(c)
             \/ OfferToQueue(c) \/ OfferLast(c)
      PROVE  AddsInOrder
  BY <1>3, <1>p, <1>n
  DEF AddsInOrder, Added, At, Aborted, Goto, Proc, CreateTask, AttachChild, OfferLocks,
     OfferToWaiter, OfferToQueue, OfferLast
<1>4. ASSUME NEW p \in Child \cup {Owner},
             \/ StatusCancel(p) \/ CheckFirstChild(p) \/ CancelChildren(p)
      PROVE  AddsInOrder
  BY <1>4, <1>p, <1>n
  DEF AddsInOrder, Added, At, Aborted, Goto, Proc, Await, AfterCancelAll, StatusCancel,
     CheckFirstChild, CancelChildren
<1>5. ASSUME NEW c \in Child, NEW throws \in BOOLEAN, ChildCompletes(c, throws)
      PROVE  AddsInOrder
  BY <1>5, <1>p, <1>n
  DEF AddsInOrder, Added, At, Aborted, Goto, Proc, ChildCompletes
<1>6. ASSUME NEW c \in Child,
             \/ OfferNotLast(c) \/ RunWaitingTask(c)
      PROVE  AddsInOrder
  BY <1>6, <1>p, <1>n
  DEF AddsInOrder, Added, At, Aborted, Goto, Proc, OfferNotLast, RunWaitingTask
<1>7. CASE \/ PollEmpty \/ PollReady \/ ReturnPolled \/ PollWaits \/ Resume
           \/ BodyReturns
  BY <1>7, <1>p, <1>n
  DEF AddsInOrder, Added, At, Aborted, Goto, Proc, Await, AfterNext, PollEmpty, PollReady,
     ReturnPolled, PollWaits, Resume, BodyReturns
<1>8. CASE \/ BodyThrows \/ WaitAllLocks \/ WaitAllEmpty \/ WaitAllParks \/ Destroy
  BY <1>8, <1>p, <1>n
  DEF AddsInOrder, Added, At, Aborted, Goto, Proc, BodyThrows, WaitAllLocks, WaitAllEmpty,
     WaitAllParks, Destroy
<1>9. CASE UNCHANGED vars
  BY <1>9, <1>p, <1>n
  DEF AddsInOrder, Added, vars
<1>. QED
  BY <1>1, <1>2, <1>3, <1>4, <1>5, <1>6, <1>7, <1>8, <1>9
  DEF Next, OwnerStep, Body, ChildStep

\* Each child task is offered once, and the one being offered is the last.
LEMMA OfferStep == IInv /\ [Next]_vars => OfferInv'
<1>. SUFFICES ASSUME IInv, [Next]_vars
              PROVE  OfferInv'
  OBVIOUS
<1>p. /\ LockInv /\ WaitInv /\ OfferInv /\ offered \in Seq(Child) /\ DOMAIN pc = Proc
  BY DEF IInv, TypeOK
<1>n. /\ Owner \notin Child /\ NoOne \notin Child /\ Canceller \notin Child
      /\ Owner # NoOne /\ Owner # Canceller
  BY ProcNames
<1>a. Added' = 1..Cardinality(Added')
  <2>1. Cardinality(Added) \in Nat /\ Added = 1..Cardinality(Added)
    BY AddedFinite DEF IInv, OfferInv
  <2>. QED  BY <2>1, AddedStep DEF AddsInOrder
<1>1. ASSUME NEW u \in BOOLEAN, AddPending(u)
      PROVE  OfferInv'
  BY <1>1, <1>p, <1>n, <1>a, AddPendingEffect DEF OfferInv, Offered, LockInv, CancelPositions,
     Locked
<1>2. CASE \/ RevertPending \/ CallCancelAll \/ CancelOwner
  BY <1>2, <1>p, <1>n, <1>a
  DEF OfferInv, Offered, LockInv, WaitInv, At, Aborted, Goto, Proc, CancelPositions, Locked,
     RevertPending, CallCancelAll, CancelOwner
<1>3. ASSUME NEW c \in Child,
             \/ CreateTask(c) \/ AttachChild(c) \/ OfferToWaiter(c)
      PROVE  OfferInv'
  BY <1>3, <1>p, <1>n, <1>a
  DEF OfferInv, Offered, LockInv, Unlocks, WaitInv, At, Aborted, Goto, Proc, CancelPositions,
     Locked, CreateTask, AttachChild, OfferToWaiter
<1>4. ASSUME NEW p \in Child \cup {Owner},
             \/ StatusCancel(p) \/ CheckFirstChild(p) \/ CancelChildren(p)
      PROVE  OfferInv'
  BY <1>4, <1>p, <1>n, <1>a
  DEF OfferInv, Offered, LockInv, WaitInv, At, Aborted, Goto, Proc, CancelPositions, Locked,
     Await, AfterCancelAll, StatusCancel, CheckFirstChild, CancelChildren
<1>5. CASE \/ CancelRecords \/ CallNext \/ PollLocks
  BY <1>5, <1>p, <1>n, <1>a
  DEF OfferInv, Offered, LockInv, Locks, WaitInv, At, Aborted, Goto, Proc, CancelPositions,
     Locked, CancelRecords, CallNext, PollLocks
<1>6. ASSUME NEW c \in Child, NEW throws \in BOOLEAN, ChildCompletes(c, throws)
      PROVE  OfferInv'
  BY <1>6, <1>p, <1>n, <1>a
  DEF OfferInv, Offered, LockInv, WaitInv, At, Aborted, Goto, Proc, CancelPositions, Locked,
     ChildCompletes
<1>7. ASSUME NEW c \in Child, OfferLocks(c)
      PROVE  OfferInv'
  <2>1. /\ pc[c] = "offer" /\ mutex' = c /\ offered' = Append(offered, c)
        /\ \E position \in {"cancel", "claim"} : pc' = [pc EXCEPT ![c] = position]
    BY <1>7 DEF OfferLocks, Locks, Goto, At
  <2>2. /\ Len(offered') = Len(offered) + 1 /\ offered'[Len(offered')] = c
        /\ DOMAIN offered' = DOMAIN offered \cup {Len(offered) + 1}
        /\ \A i \in DOMAIN offered : offered'[i] = offered[i]
        /\ Len(offered) + 1 \notin DOMAIN offered /\ Len(offered) \in Nat
    BY <2>1, <1>p
  <2>3. \A d : Offered(d)' <=> Offered(d) \/ d = c
    BY <2>2 DEF Offered
  <2>4. \A i \in DOMAIN offered : offered[i] # c
    BY <2>1, <1>p DEF OfferInv, Offered, Locked, CancelPositions
  <2>5. \A i, j \in DOMAIN offered' : offered'[i] = offered'[j] => i = j
    BY <2>2, <2>4, <1>p DEF OfferInv
  <2>6. \A d \in Child : pc'[d] \in Locked \cup {"run", "done"}
                           <=> pc[d] \in Locked \cup {"run", "done"} \/ d = c
    BY <2>1, <1>p DEF Locked, CancelPositions, Proc
  <2>. QED  BY <2>1, <2>2, <2>3, <2>5, <2>6, <1>a, <1>p DEF OfferInv
<1>8. ASSUME NEW c \in Child,
             \/ OfferToQueue(c) \/ OfferLast(c) \/ OfferNotLast(c)
      PROVE  OfferInv'
  BY <1>8, <1>p, <1>n, <1>a
  DEF OfferInv, Offered, LockInv, Unlocks, WaitInv, At, Aborted, Goto, Proc, CancelPositions,
     Locked, OfferToQueue, OfferLast, OfferNotLast
<1>9. ASSUME NEW c \in Child, RunWaitingTask(c)
      PROVE  OfferInv'
  BY <1>9, <1>p, <1>n, <1>a
  DEF OfferInv, Offered, LockInv, WaitInv, At, Aborted, Proc, CancelPositions, Locked,
     RunWaitingTask
<1>10. CASE \/ PollEmpty \/ PollReady \/ ReturnPolled
  BY <1>10, <1>p, <1>n, <1>a
  DEF OfferInv, Offered, LockInv, Unlocks, WaitInv, At, Aborted, Goto, Proc, CancelPositions,
     Locked, AfterNext, PollEmpty, PollReady, ReturnPolled
<1>11. CASE \/ PollWaits \/ Resume \/ BodyReturns
  BY <1>11, <1>p, <1>n, <1>a
  DEF OfferInv, Offered, LockInv, Unlocks, WaitInv, At, Aborted, Goto, Proc, CancelPositions,
     Locked, Await, AfterNext, PollWaits, Resume, BodyReturns
<1>12. CASE \/ BodyThrows \/ WaitAllLocks \/ WaitAllEmpty
  BY <1>12, <1>p, <1>n, <1>a
  DEF OfferInv, Offered, LockInv, Locks, Unlocks, WaitInv, At, Aborted, Goto, Proc,
     CancelPositions, Locked, BodyThrows, WaitAllLocks, WaitAllEmpty
<1>13. CASE \/ WaitAllParks \/ Destroy
  BY <1>13, <1>p, <1>n, <1>a
  DEF OfferInv, Offered, LockInv, Unlocks, WaitInv, At, Aborted, Goto, Proc, CancelPositions,
     Locked, WaitAllParks, Destroy
<1>14. CASE UNCHANGED vars
  BY <1>14, <1>p, <1>n, <1>a
  DEF OfferInv, Offered, LockInv, WaitInv, CancelPositions, Locked, vars
<1>. QED
  BY <1>1, <1>2, <1>3, <1>4, <1>5, <1>6, <1>7, <1>8, <1>9, <1>10, <1>11, <1>12, <1>13, <1>14
  DEF Next, OwnerStep, Body, ChildStep

\* Results stay in the order of the offers on their way to next().
LEMMA FifoStep == IInv /\ [Next]_vars => FifoInv'
<1>. SUFFICES ASSUME IInv, [Next]_vars
              PROVE  FifoInv'
  OBVIOUS
<1>p. /\ LockInv /\ AssumedInv /\ WaitInv /\ OfferInv /\ FifoInv /\ CountInv /\ DOMAIN pc = Proc
  BY DEF IInv
<1>n. /\ Owner \notin Child /\ NoOne \notin Child /\ Canceller \notin Child
      /\ Owner # NoOne /\ Owner # Canceller
  BY ProcNames
<1>t. /\ offered \in Seq(Child) /\ delivered \in Seq(Child) /\ readyQueue \in Seq(Items)
      /\ discarding \in BOOLEAN
  BY DEF IInv, TypeOK
<1>1. ASSUME NEW u \in BOOLEAN, AddPending(u)
      PROVE  FifoInv'
  BY <1>1, <1>p, <1>n, <1>t, AddPendingEffect DEF FifoInv, CompletedTask, Item
<1>2. CASE \/ RevertPending \/ CallCancelAll
  BY <1>2, <1>p, <1>n, <1>t
  DEF FifoInv, OfferInv, Offered, LockInv, AssumedInv, CompletedTask, Item, WaitInv, At,
     Aborted, Goto, Proc, CancelPositions, Locked, RevertPending, CallCancelAll
<1>3. ASSUME NEW c \in Child,
             \/ CreateTask(c) \/ AttachChild(c)
      PROVE  FifoInv'
  BY <1>3, <1>p, <1>n, <1>t
  DEF FifoInv, OfferInv, Offered, LockInv, AssumedInv, CompletedTask, Item, WaitInv, At,
     Aborted, Goto, Proc, CancelPositions, Locked, CreateTask, AttachChild
<1>4. ASSUME NEW p \in Child \cup {Owner},
             \/ StatusCancel(p) \/ CheckFirstChild(p)
      PROVE  FifoInv'
  BY <1>4, <1>p, <1>n, <1>t
  DEF FifoInv, OfferInv, Offered, LockInv, AssumedInv, CompletedTask, Item, WaitInv, At,
     Aborted, Goto, Proc, CancelPositions, Locked, Await, AfterCancelAll, StatusCancel,
     CheckFirstChild
<1>5. ASSUME NEW p \in Child \cup {Owner}, CancelChildren(p)
      PROVE  FifoInv'
  BY <1>5, <1>p, <1>n, <1>t
  DEF FifoInv, OfferInv, Offered, LockInv, AssumedInv, CompletedTask, Item, WaitInv, At,
     Aborted, Goto, Proc, CancelPositions, Locked, Await, AfterCancelAll, CancelChildren
<1>6. CASE \/ CancelOwner \/ CancelRecords
  BY <1>6, <1>p, <1>n, <1>t
  DEF FifoInv, OfferInv, Offered, LockInv, AssumedInv, CompletedTask, Item, WaitInv, At,
     Aborted, Goto, Proc, CancelPositions, Locked, CancelOwner, CancelRecords
<1>7. ASSUME NEW c \in Child, NEW throws \in BOOLEAN, ChildCompletes(c, throws)
      PROVE  FifoInv'
  <2>1. /\ pc[c] = "running" /\ fails' = [fails EXCEPT ![c] = throws] /\ pc'[Owner] = pc[Owner]
        /\ UNCHANGED <<discarding, mutex, readyQueue, delivered, waitQueue, slot, offered>>
    BY <1>7, <1>p, <1>n DEF ChildCompletes, At, Goto, Proc
  <2>2. ~Offered(c)
    BY <2>1, <1>p DEF OfferInv, Locked, CancelPositions
  <2>3. \A i \in DOMAIN offered : CompletedTask(offered[i])' = CompletedTask(offered[i])
    <3>1. \A d : d # c => fails'[d] = fails[d]
      BY <2>1
    <3>. QED  BY <2>1, <2>2, <3>1 DEF Offered, CompletedTask
  <2>4. CASE discarding
    BY <2>1, <2>4, <1>p DEF FifoInv
  <2>5. CASE ~discarding
    <3>1. \A i \in DOMAIN readyQueue : Len(delivered) + i \in DOMAIN offered
      BY <2>5, QueueFacts
    <3>2. pc[Owner] = "polledTask" =>
            Len(delivered) \in DOMAIN offered
               /\ delivered[Len(delivered)] = offered[Len(delivered)]
      BY <2>5, <1>p, <1>t DEF FifoInv
    <3>3. \A i \in DOMAIN readyQueue :
            readyQueue[i] = CompletedTask(offered[Len(delivered) + i])'
      BY <2>1, <2>3, <2>5, <3>1, <1>p DEF FifoInv
    <3>4. pc[Owner] = "polledTask" => slot = CompletedTask(delivered[Len(delivered)])'
      BY <2>1, <2>3, <2>5, <3>2, <1>p DEF FifoInv
    <3>. QED  BY <2>1, <2>5, <3>3, <3>4, <1>p DEF FifoInv
  <2>. QED  BY <2>4, <2>5
<1>8. ASSUME NEW c \in Child, OfferLocks(c)
      PROVE  FifoInv'
  <2>1. /\ mutex = NoOne /\ mutex' = c /\ offered' = Append(offered, c)
        /\ UNCHANGED <<discarding, delivered, readyQueue, fails, slot, waitQueue>>
        /\ pc'[Owner] = pc[Owner]
    BY <1>8, <1>p, <1>n DEF OfferLocks, Locks, Goto, Proc
  <2>2. Len(offered') = Len(offered) + 1 /\ \A i \in DOMAIN offered : offered'[i] = offered[i]
    BY <2>1, <1>t
  <2>3. \A d \in Child : CompletedTask(d)' = CompletedTask(d)
    BY <2>1 DEF CompletedTask
  <2>4. CASE discarding
    BY <2>1, <2>4, <1>p DEF FifoInv
  <2>5. CASE ~discarding
    <3>1. Len(offered) = Len(delivered) + Len(readyQueue)
      BY <2>1, <2>5, <1>p, <1>n DEF FifoInv
    <3>2. \A i \in DOMAIN delivered : i \in DOMAIN offered
      BY <3>1, <1>t
    <3>3. \A i \in DOMAIN readyQueue :
            Len(delivered) + i \in DOMAIN offered /\ offered[Len(delivered) + i] \in Child
      BY <3>1, <1>t
    <3>4. \A i \in DOMAIN readyQueue :
            /\ readyQueue[i] = CompletedTask(offered[Len(delivered) + i])
            /\ offered'[Len(delivered) + i] = offered[Len(delivered) + i]
      BY <2>2, <2>5, <3>3, <1>p DEF FifoInv
    <3>5. \A i \in DOMAIN delivered : delivered[i] = offered[i] /\ offered'[i] = offered[i]
      BY <2>2, <2>5, <3>2, <1>p DEF FifoInv
    <3>6. Len(offered') = Len(delivered) + Len(readyQueue) + 1
      BY <2>2, <3>1, <1>t
    <3>7. /\ waitQueue => readyQueue = <<>>
          /\ pc[Owner] = "polledTask" =>
               Len(delivered) > 0 /\ slot = CompletedTask(delivered[Len(delivered)])
      BY <2>5, <1>p DEF FifoInv
    <3>. QED  BY <2>1, <2>5, <3>4, <3>5, <3>6, <3>7, <1>n DEF FifoInv, CompletedTask
  <2>. QED  BY <2>4, <2>5
<1>9. ASSUME NEW c \in Child, OfferToWaiter(c)
      PROVE  FifoInv'
  <2>1. /\ mutex = c /\ waitQueue /\ pc[Owner] = "parked" /\ ~discarding
    BY <1>9, <1>p, <1>n DEF OfferToWaiter, LockInv, AssumedInv, WaitInv, Locked, At
  <2>2. /\ mutex' = NoOne /\ waitQueue' = FALSE /\ delivered' = Append(delivered, c)
        /\ UNCHANGED <<discarding, readyQueue, fails, offered>>
        /\ pc'[Owner] = "parked"
    BY <1>9, <2>1, <1>p, <1>n DEF OfferToWaiter, Unlocks, Goto, Proc
  <2>3. readyQueue = <<>> /\ Len(offered) = Len(delivered) + 1 /\ offered[Len(offered)] = c
    BY <2>1, <1>p DEF FifoInv, OfferInv
  <2>4. \A i \in DOMAIN delivered' : delivered'[i] = offered[i]
    BY <2>1, <2>2, <2>3, <1>p, <1>t DEF FifoInv
  <2>. QED  BY <2>1, <2>2, <2>3, <2>4, <1>n, <1>t DEF FifoInv
<1>10. ASSUME NEW c \in Child, OfferToQueue(c)
      PROVE  FifoInv'
  <2>1. /\ mutex = c /\ ~waitQueue /\ ~discarding
    BY <1>10, <1>p, <1>n DEF OfferToQueue, LockInv, AssumedInv, WaitInv, Locked, At
  <2>2. /\ mutex' = NoOne /\ readyQueue' = Append(readyQueue, CompletedTask(c))
        /\ UNCHANGED <<discarding, delivered, waitQueue, fails, offered, slot>>
        /\ pc'[Owner] = pc[Owner]
    BY <1>10, <2>1, <1>p, <1>n DEF OfferToQueue, Enqueues, Unlocks, Goto, Proc
  <2>3. /\ Len(offered) = Len(delivered) + Len(readyQueue) + 1 /\ offered[Len(offered)] = c
    BY <2>1, <1>p DEF FifoInv, OfferInv
  <2>4. \A d : CompletedTask(d)' = CompletedTask(d)
    BY <2>2 DEF CompletedTask
  <2>5. \A i \in DOMAIN readyQueue' : readyQueue'[i] = CompletedTask(offered[Len(delivered) + i])
    <3>1. Len(readyQueue') = Len(readyQueue) + 1
             /\ readyQueue'[Len(readyQueue) + 1] = CompletedTask(c)
          /\ \A i \in DOMAIN readyQueue : readyQueue'[i] = readyQueue[i]
      BY <2>2, <1>t
    <3>2. Len(delivered) + (Len(readyQueue) + 1) = Len(offered)
      BY <2>3, <1>t
    <3>3. \A i \in DOMAIN readyQueue' : i \in DOMAIN readyQueue \/ i = Len(readyQueue) + 1
      BY <2>2, <3>1, <1>t
    <3>. QED  BY <2>1, <2>3, <3>1, <3>2, <3>3, <1>p DEF FifoInv
  <2>. QED  BY <2>1, <2>2, <2>3, <2>4, <2>5, <1>p, <1>n, <1>t DEF FifoInv, CompletedTask
<1>11. ASSUME NEW c \in Child,
             \/ OfferLast(c) \/ OfferNotLast(c)
      PROVE  FifoInv'
  BY <1>11, <1>p, <1>n, <1>t
  DEF FifoInv, OfferInv, Offered, LockInv, AssumedInv, CompletedTask, Item, Unlocks, WaitInv,
     At, Aborted, Goto, Proc, CancelPositions, Locked, OfferLast, OfferNotLast
<1>12. ASSUME NEW c \in Child, RunWaitingTask(c)
      PROVE  FifoInv'
  BY <1>12, <1>p, <1>n, <1>t
  DEF FifoInv, OfferInv, Offered, LockInv, AssumedInv, CompletedTask, Item, WaitInv, At,
     Aborted, Proc, CancelPositions, Locked, RunWaitingTask
<1>13. CASE \/ CallNext \/ PollLocks
  BY <1>13, <1>p, <1>n, <1>t
  DEF FifoInv, OfferInv, Offered, LockInv, AssumedInv, CompletedTask, Item, Locks, WaitInv, At,
     Aborted, Goto, Proc, CancelPositions, Locked, CallNext, PollLocks
<1>14. CASE \/ PollEmpty \/ ReturnPolled
  BY <1>14, <1>p, <1>n, <1>t
  DEF FifoInv, OfferInv, Offered, LockInv, AssumedInv, CompletedTask, Item, Unlocks, WaitInv,
     At, Aborted, Goto, Proc, CancelPositions, Locked, AfterNext, PollEmpty, ReturnPolled
<1>15. CASE PollReady
  <2>1. mutex = Owner /\ ~discarding /\ ~waitQueue /\ Len(readyQueue) > 0
    BY <1>15, <1>p, <1>n, <1>t DEF PollReady, LockInv, WaitInv, AssumedInv, CountInv,
       CountsMatchTasks, At
  <2>2. /\ mutex' = NoOne /\ slot' = Head(readyQueue) /\ readyQueue' = Tail(readyQueue)
        /\ delivered' = Append(delivered, slot'.task) /\ pc'[Owner] = "polledTask"
        /\ UNCHANGED <<discarding, waitQueue, fails, offered>>
    BY <1>15, <2>1, <1>p, <1>n DEF PollReady, Unlocks, Goto, Proc
  <2>3. slot' = CompletedTask(offered[Len(delivered) + 1])
           /\ slot'.task = offered[Len(delivered) + 1]
    BY <2>1, <2>2, <1>p, <1>t DEF FifoInv, CompletedTask, Item
  <2>4. \A d : CompletedTask(d)' = CompletedTask(d)
    BY <2>2 DEF CompletedTask
  <2>5. Len(offered) = Len(delivered) + Len(readyQueue)
    BY <2>1, <1>p, <1>n DEF FifoInv
  <2>6. /\ Len(delivered') = Len(delivered) + 1 /\ delivered'[Len(delivered) + 1] = slot'.task
        /\ \A i \in DOMAIN delivered : delivered'[i] = delivered[i]
        /\ \A i \in DOMAIN delivered' : i \in DOMAIN delivered \/ i = Len(delivered) + 1
    BY <2>2, <1>t
  <2>7. /\ Len(readyQueue') = Len(readyQueue) - 1
        /\ \A i \in DOMAIN readyQueue' : i + 1 \in DOMAIN readyQueue
           /\ readyQueue'[i] = readyQueue[i + 1]
        /\ \A i \in DOMAIN readyQueue' : Len(delivered') + i = Len(delivered) + (i + 1)
    <3>1. readyQueue' \in Seq(Items) /\ Len(readyQueue') = Len(readyQueue) - 1
      BY <2>1, <2>2, <1>t
    <3>2. \A i \in DOMAIN readyQueue' : i \in Nat /\ i + 1 \in DOMAIN readyQueue
             /\ readyQueue'[i] = readyQueue[i + 1]
      BY <2>1, <2>2, <3>1, <1>t
    <3>3. Len(delivered) \in Nat
      BY <1>t
    <3>4. Len(delivered') = Len(delivered) + 1
      BY <2>6
    <3>5. \A i \in DOMAIN readyQueue' : Len(delivered') + i = Len(delivered) + (i + 1)
      BY <3>2, <3>3, <3>4
    <3>. QED  BY <3>1, <3>2, <3>5
  <2>8. \A i \in DOMAIN delivered' : delivered'[i] = offered[i]
    BY <2>1, <2>3, <2>6, <1>p DEF FifoInv
  <2>9. \A i \in DOMAIN readyQueue' : readyQueue'[i] = CompletedTask(offered[Len(delivered') + i])
    BY <2>1, <2>7, <1>p DEF FifoInv
  <2>10. Len(offered') = Len(delivered') + Len(readyQueue')
    <3>1. Len(delivered) \in Nat /\ Len(readyQueue) \in Nat
      BY <1>t
    <3>2. Len(offered') = Len(offered) /\ Len(delivered') = Len(delivered) + 1
      BY <2>2, <2>6
    <3>3. Len(readyQueue') = Len(readyQueue) - 1
      BY <2>7
    <3>. QED  BY <2>5, <3>1, <3>2, <3>3
  <2>11. Len(delivered') > 0 /\ delivered'[Len(delivered')] = offered[Len(delivered) + 1]
    BY <2>3, <2>6, <1>t
  <2>12. slot' = CompletedTask(delivered'[Len(delivered')])
    BY <2>3, <2>11
  <2>13. UNCHANGED <<offered, fails>> /\ ~discarding' /\ ~waitQueue' /\ mutex' \notin Child
    BY <2>1, <2>2, <1>n
  <2>. QED  BY <2>8, <2>9, <2>10, <2>11, <2>12, <2>13 DEF FifoInv, CompletedTask
<1>16. CASE PollWaits
  <2>1. mutex = Owner /\ ~discarding /\ Len(readyQueue) = 0
    BY <1>16, <1>p, <1>n, <1>t DEF PollWaits, LockInv, AssumedInv, CountInv, CountsMatchTasks,
       At
  <2>2. /\ mutex' = NoOne /\ pc'[Owner] = "parked"
        /\ UNCHANGED <<discarding, readyQueue, delivered, fails, offered>>
    BY <1>16, <1>p, <1>n DEF PollWaits, Unlocks, Goto, Proc
  <2>3. \A d : CompletedTask(d)' = CompletedTask(d)
    BY <2>2 DEF CompletedTask
  <2>. QED  BY <2>1, <2>2, <2>3, <1>p, <1>n, <1>t DEF FifoInv, CompletedTask
<1>17. CASE \/ Resume \/ BodyReturns
  BY <1>17, <1>p, <1>n, <1>t
  DEF FifoInv, OfferInv, Offered, LockInv, AssumedInv, CompletedTask, Item, WaitInv, At,
     Aborted, Goto, Proc, CancelPositions, Locked, Await, AfterNext, Resume, BodyReturns
<1>18. CASE \/ BodyThrows \/ WaitAllLocks
  BY <1>18, <1>p, <1>n, <1>t
  DEF FifoInv, OfferInv, Offered, LockInv, AssumedInv, CompletedTask, Item, Locks, WaitInv, At,
     Aborted, Goto, Proc, CancelPositions, Locked, BodyThrows, WaitAllLocks
<1>19. CASE \/ WaitAllEmpty \/ WaitAllParks
  BY <1>19, <1>p, <1>n, <1>t
  DEF FifoInv, OfferInv, Offered, LockInv, AssumedInv, CompletedTask, Item, Unlocks, WaitInv,
     At, Aborted, Goto, Proc, CancelPositions, Locked, WaitAllEmpty, WaitAllParks
<1>20. CASE Destroy
  BY <1>20, <1>p, <1>n, <1>t
  DEF FifoInv, OfferInv, Offered, LockInv, AssumedInv, CompletedTask, Item, WaitInv, At,
     Aborted, Goto, Proc, CancelPositions, Locked, Destroy
<1>21. CASE UNCHANGED vars
  BY <1>21, <1>p, <1>n, <1>t
  DEF FifoInv, OfferInv, Offered, LockInv, AssumedInv, CompletedTask, Item, WaitInv,
     CancelPositions, Locked, vars
<1>. QED
  BY <1>1, <1>2, <1>3, <1>4, <1>5, <1>6, <1>7, <1>8, <1>9, <1>10, <1>11, <1>12, <1>13, <1>14,
     <1>15, <1>16, <1>17, <1>18, <1>19, <1>20, <1>21
  DEF Next, OwnerStep, Body, ChildStep

\* Every exchange of the status word keeps its counts exact.
LEMMA CountStep == IInv /\ [Next]_vars => CountInv'
<1>. SUFFICES ASSUME IInv, [Next]_vars
              PROVE  CountInv'
  OBVIOUS
<1>p. /\ LockInv /\ AssumedInv /\ WaitInv /\ CountInv /\ FifoInv /\ status \in Status
         /\ DOMAIN pc = Proc
  BY DEF IInv, TypeOK
<1>n. /\ Owner \notin Child /\ NoOne \notin Child /\ Canceller \notin Child
      /\ Owner # NoOne /\ Owner # Canceller
  BY ProcNames
<1>t. /\ offered \in Seq(Child) /\ delivered \in Seq(Child) /\ readyQueue \in Seq(Items)
      /\ discarding \in BOOLEAN
  BY DEF IInv, TypeOK
<1>c. Cardinality(Added) \in Nat /\ MaxPending \in Nat
  BY AddedFinite, BoundsAssumption
<1>d. \/ /\ Cardinality(Added') = Cardinality(Added)
         /\ ~(pc[Owner] = "body" /\ pc'[Owner] = "create")
      \/ /\ Cardinality(Added') = Cardinality(Added) + 1
         /\ pc[Owner] = "body" /\ pc'[Owner] = "create"
  BY AddedStep DEF AddsInOrder
<1>1. ASSUME NEW u \in BOOLEAN, AddPending(u)
      PROVE  CountInv'
  BY <1>1, <1>p, <1>n, <1>c, <1>d, AddPendingEffect DEF CountInv, CountsMatchTasks, Status
<1>2. CASE RevertPending
  BY <1>2, <1>p, <1>n, <1>t, <1>c, <1>d
  DEF CountInv, CountsMatchTasks, LockInv, AssumedInv, WaitInv, Status, At, Aborted, Goto, Proc,
     CancelPositions, Locked, RevertPending
<1>3. ASSUME NEW c \in Child, CreateTask(c)
      PROVE  CountInv'
  BY <1>3, <1>p, <1>n, <1>t, <1>c, <1>d
  DEF CountInv, CountsMatchTasks, LockInv, AssumedInv, WaitInv, Status, At, Aborted, Goto, Proc,
     CancelPositions, Locked, CreateTask
<1>4. ASSUME NEW c \in Child, AttachChild(c)
      PROVE  CountInv'
  BY <1>4, <1>p, <1>n, <1>t, <1>c, <1>d
  DEF CountInv, CountsMatchTasks, LockInv, AssumedInv, WaitInv, Status, At, Aborted, Proc,
     CancelPositions, Locked, AttachChild
<1>5. CASE CallCancelAll
  BY <1>5, <1>p, <1>n, <1>t, <1>c, <1>d
  DEF CountInv, CountsMatchTasks, LockInv, AssumedInv, WaitInv, Status, At, Aborted, Goto, Proc,
     CancelPositions, Locked, CallCancelAll
<1>6. ASSUME NEW p \in Child \cup {Owner}, StatusCancel(p)
      PROVE  CountInv'
  BY <1>6, <1>p, <1>n, <1>t, <1>c, <1>d
  DEF CountInv, CountsMatchTasks, LockInv, AssumedInv, WaitInv, Status, At, Aborted, Goto, Proc,
     CancelPositions, Locked, Await, AfterCancelAll, StatusCancel
<1>7. ASSUME NEW p \in Child \cup {Owner}, CheckFirstChild(p)
      PROVE  CountInv'
  BY <1>7, <1>p, <1>n, <1>t, <1>c, <1>d
  DEF CountInv, CountsMatchTasks, LockInv, AssumedInv, WaitInv, Status, At, Aborted, Goto, Proc,
     CancelPositions, Locked, Await, AfterCancelAll, CheckFirstChild
<1>8. ASSUME NEW p \in Child \cup {Owner}, CancelChildren(p)
      PROVE  CountInv'
  BY <1>8, <1>p, <1>n, <1>t, <1>c, <1>d
  DEF CountInv, CountsMatchTasks, LockInv, AssumedInv, WaitInv, Status, At, Aborted, Goto, Proc,
     CancelPositions, Locked, Await, AfterCancelAll, CancelChildren
<1>9. CASE CancelOwner
  BY <1>9, <1>p, <1>n, <1>t, <1>c, <1>d
  DEF CountInv, CountsMatchTasks, LockInv, AssumedInv, WaitInv, Status, At, Aborted, Goto, Proc,
     CancelPositions, Locked, CancelOwner
<1>10. CASE CancelRecords
  BY <1>10, <1>p, <1>n, <1>t, <1>c, <1>d
  DEF CountInv, CountsMatchTasks, LockInv, AssumedInv, WaitInv, Status, At, Aborted, Goto, Proc,
     CancelPositions, Locked, CancelRecords
<1>11. ASSUME NEW c \in Child, NEW throws \in BOOLEAN, ChildCompletes(c, throws)
      PROVE  CountInv'
  BY <1>11, <1>p, <1>n, <1>t, <1>c, <1>d
  DEF CountInv, CountsMatchTasks, LockInv, AssumedInv, WaitInv, Status, At, Aborted, Goto, Proc,
     CancelPositions, Locked, ChildCompletes
<1>12. ASSUME NEW c \in Child, OfferLocks(c)
      PROVE  CountInv'
  BY <1>12, <1>p, <1>n, <1>t, <1>c, <1>d
  DEF CountInv, CountsMatchTasks, LockInv, AssumedInv, WaitInv, Status, Locks, statusAfterOffer,
     At, Aborted, Goto, Proc, CancelPositions, Locked, OfferLocks
<1>13. ASSUME NEW c \in Child, OfferToWaiter(c)
      PROVE  CountInv'
  BY <1>13, <1>p, <1>n, <1>t, <1>c, <1>d
  DEF CountInv, CountsMatchTasks, LockInv, AssumedInv, WaitInv, Status, Unlocks,
     completingPendingReadyWaiting, At, Aborted, Goto, Proc, CancelPositions, Locked,
     OfferToWaiter
<1>14. ASSUME NEW c \in Child, OfferToQueue(c)
      PROVE  CountInv'
  BY <1>14, <1>p, <1>n, <1>t, <1>c, <1>d
  DEF CountInv, CountsMatchTasks, LockInv, AssumedInv, WaitInv, Status, Enqueues, Unlocks, At,
     Aborted, Goto, Proc, CancelPositions, Locked, OfferToQueue
<1>15. ASSUME NEW c \in Child, OfferLast(c)
      PROVE  CountInv'
  BY <1>15, <1>p, <1>n, <1>t, <1>c, <1>d
  DEF CountInv, CountsMatchTasks, LockInv, AssumedInv, WaitInv, Status, Unlocks, At, Aborted,
     Goto, Proc, CancelPositions, Locked, OfferLast
<1>16. ASSUME NEW c \in Child, OfferNotLast(c)
      PROVE  CountInv'
  BY <1>16, <1>p, <1>n, <1>t, <1>c, <1>d
  DEF CountInv, CountsMatchTasks, LockInv, AssumedInv, WaitInv, Status, Enqueues, Unlocks, At,
     Aborted, Goto, Proc, CancelPositions, Locked, OfferNotLast
<1>17. ASSUME NEW c \in Child, RunWaitingTask(c)
      PROVE  CountInv'
  BY <1>17, <1>p, <1>n, <1>t, <1>c, <1>d
  DEF CountInv, CountsMatchTasks, LockInv, AssumedInv, WaitInv, Status, At, Aborted, Proc,
     CancelPositions, Locked, RunWaitingTask
<1>18. CASE CallNext
  BY <1>18, <1>p, <1>n, <1>t, <1>c, <1>d
  DEF CountInv, CountsMatchTasks, LockInv, AssumedInv, WaitInv, Status, At, Aborted, Goto, Proc,
     CancelPositions, Locked, CallNext
<1>19. CASE PollLocks
  BY <1>19, <1>p, <1>n, <1>t, <1>c, <1>d
  DEF CountInv, CountsMatchTasks, LockInv, AssumedInv, WaitInv, Status, Locks,
     statusMarkWaiting, At, Aborted, Goto, Proc, CancelPositions, Locked, PollLocks
<1>20. CASE PollEmpty
  BY <1>20, <1>p, <1>n, <1>t, <1>c, <1>d
  DEF CountInv, CountsMatchTasks, LockInv, AssumedInv, WaitInv, Status, Unlocks,
     statusRemoveWaiting, At, Aborted, Goto, Proc, CancelPositions, Locked, PollEmpty
<1>21. CASE PollReady
  BY <1>21, <1>p, <1>n, <1>t, <1>c, <1>d
  DEF CountInv, CountsMatchTasks, LockInv, AssumedInv, WaitInv, Status, Unlocks,
     completingPendingReadyWaiting, At, Aborted, Goto, Proc, CancelPositions, Locked, PollReady
<1>22. CASE ReturnPolled
  BY <1>22, <1>p, <1>n, <1>t, <1>c, <1>d
  DEF CountInv, CountsMatchTasks, LockInv, AssumedInv, WaitInv, Status, At, Aborted, Goto, Proc,
     CancelPositions, Locked, AfterNext, ReturnPolled
<1>23. CASE PollWaits
  BY <1>23, <1>p, <1>n, <1>t, <1>c, <1>d
  DEF CountInv, CountsMatchTasks, LockInv, AssumedInv, WaitInv, Status, Unlocks, At, Aborted,
     Goto, Proc, CancelPositions, Locked, PollWaits
<1>24. CASE Resume
  BY <1>24, <1>p, <1>n, <1>t, <1>c, <1>d
  DEF CountInv, CountsMatchTasks, LockInv, AssumedInv, WaitInv, Status, At, Aborted, Goto, Proc,
     CancelPositions, Locked, AfterNext, Resume
<1>25. CASE BodyReturns
  BY <1>25, <1>p, <1>n, <1>t, <1>c, <1>d
  DEF CountInv, CountsMatchTasks, LockInv, AssumedInv, WaitInv, Status, At, Aborted, Goto, Proc,
     CancelPositions, Locked, Await, BodyReturns
<1>26. CASE BodyThrows
  BY <1>26, <1>p, <1>n, <1>t, <1>c, <1>d
  DEF CountInv, CountsMatchTasks, LockInv, AssumedInv, WaitInv, Status, At, Aborted, Goto, Proc,
     CancelPositions, Locked, BodyThrows
<1>27. CASE WaitAllLocks
  BY <1>27, <1>p, <1>n, <1>t, <1>c, <1>d
  DEF CountInv, CountsMatchTasks, LockInv, AssumedInv, WaitInv, Status, Locks, At, Aborted,
     Goto, Proc, CancelPositions, Locked, WaitAllLocks
<1>28. CASE WaitAllEmpty
  BY <1>28, <1>p, <1>n, <1>t, <1>c, <1>d
  DEF CountInv, CountsMatchTasks, LockInv, AssumedInv, WaitInv, Status, Unlocks, At, Aborted,
     Goto, Proc, CancelPositions, Locked, WaitAllEmpty
<1>29. CASE WaitAllParks
  BY <1>29, <1>p, <1>n, <1>t, <1>c, <1>d
  DEF CountInv, CountsMatchTasks, LockInv, AssumedInv, WaitInv, Status, Unlocks,
     statusMarkWaiting, At, Aborted, Goto, Proc, CancelPositions, Locked, WaitAllParks
<1>30. CASE Destroy
  BY <1>30, <1>p, <1>n, <1>t, <1>c, <1>d
  DEF CountInv, CountsMatchTasks, LockInv, AssumedInv, WaitInv, Status, At, Aborted, Goto, Proc,
     CancelPositions, Locked, Destroy
<1>31. CASE UNCHANGED vars
  BY <1>31, <1>p, <1>n, <1>t, <1>c, <1>d
  DEF CountInv, CountsMatchTasks, LockInv, AssumedInv, WaitInv, Status, CancelPositions, Locked,
     vars
<1>. QED
  BY <1>1, <1>2, <1>3, <1>4, <1>5, <1>6, <1>7, <1>8, <1>9, <1>10, <1>11, <1>12, <1>13, <1>14,
     <1>15, <1>16, <1>17, <1>18, <1>19, <1>20, <1>21, <1>22, <1>23, <1>24, <1>25, <1>26, <1>27,
     <1>28, <1>29, <1>30, <1>31
  DEF Next, OwnerStep, Body, ChildStep

\* Positions and the holder of the mutex keep their types.
LEMMA PositionTypesStep == IInv /\ [Next]_vars => PositionTypes'
<1>. SUFFICES ASSUME IInv, [Next]_vars
              PROVE  PositionTypes'
  OBVIOUS
<1>p. /\ PositionTypes /\ discarding \in BOOLEAN /\ DOMAIN pc = Proc
  BY TypesFollow DEF IInv, TypeOK
<1>n. /\ Owner \notin Child /\ NoOne \notin Child /\ Canceller \notin Child
      /\ Owner # NoOne /\ Owner # Canceller
  BY ProcNames
<1>1. ASSUME NEW u \in BOOLEAN, AddPending(u)
      PROVE  PositionTypes'
  BY <1>1, <1>p, <1>n, AddPendingEffect DEF PositionTypes, OwnerPositions, ChildPositions,
     Locked, CancelPositions
<1>2. CASE \/ RevertPending \/ CallCancelAll \/ CancelOwner \/ CancelRecords \/ CallNext
           \/ PollLocks
  BY <1>2, <1>p, <1>n
  DEF PositionTypes, OwnerPositions, ChildPositions, Locks, At, Aborted, Goto, Proc,
     CancelPositions, Locked, RevertPending, CallCancelAll, CancelOwner, CancelRecords,
     CallNext, PollLocks
<1>3. ASSUME NEW c \in Child,
             \/ CreateTask(c) \/ AttachChild(c) \/ OfferLocks(c) \/ OfferToWaiter(c)
             \/ OfferToQueue(c) \/ OfferLast(c)
      PROVE  PositionTypes'
  BY <1>3, <1>p, <1>n
  DEF PositionTypes, OwnerPositions, ChildPositions, Locks, Unlocks, At, Aborted, Goto, Proc,
     CancelPositions, Locked, CreateTask, AttachChild, OfferLocks, OfferToWaiter, OfferToQueue,
     OfferLast
<1>4. ASSUME NEW p \in Child \cup {Owner},
             \/ StatusCancel(p) \/ CheckFirstChild(p) \/ CancelChildren(p)
      PROVE  PositionTypes'
  BY <1>4, <1>p, <1>n
  DEF PositionTypes, OwnerPositions, ChildPositions, At, Aborted, Goto, Proc, CancelPositions,
     Locked, Await, AfterCancelAll, StatusCancel, CheckFirstChild, CancelChildren
<1>5. ASSUME NEW c \in Child, NEW throws \in BOOLEAN, ChildCompletes(c, throws)
      PROVE  PositionTypes'
  BY <1>5, <1>p, <1>n
  DEF PositionTypes, OwnerPositions, ChildPositions, At, Aborted, Goto, Proc, CancelPositions,
     Locked, ChildCompletes
<1>6. ASSUME NEW c \in Child,
             \/ OfferNotLast(c) \/ RunWaitingTask(c)
      PROVE  PositionTypes'
  BY <1>6, <1>p, <1>n
  DEF PositionTypes, OwnerPositions, ChildPositions, Unlocks, At, Aborted, Goto, Proc,
     CancelPositions, Locked, OfferNotLast, RunWaitingTask
<1>7. CASE \/ PollEmpty \/ PollReady \/ ReturnPolled \/ PollWaits \/ Resume
           \/ BodyReturns
  BY <1>7, <1>p, <1>n
  DEF PositionTypes, OwnerPositions, ChildPositions, Unlocks, At, Aborted, Goto, Proc,
     CancelPositions, Locked, Await, AfterNext, PollEmpty, PollReady, ReturnPolled, PollWaits,
     Resume, BodyReturns
<1>8. CASE \/ BodyThrows \/ WaitAllLocks \/ WaitAllEmpty \/ WaitAllParks \/ Destroy
  BY <1>8, <1>p, <1>n
  DEF PositionTypes, OwnerPositions, ChildPositions, Locks, Unlocks, At, Aborted, Goto, Proc,
     CancelPositions, Locked, BodyThrows, WaitAllLocks, WaitAllEmpty, WaitAllParks, Destroy
<1>9. CASE UNCHANGED vars
  BY <1>9, <1>p, <1>n
  DEF PositionTypes, OwnerPositions, ChildPositions, Proc, CancelPositions, Locked, vars
<1>. QED
  BY <1>1, <1>2, <1>3, <1>4, <1>5, <1>6, <1>7, <1>8, <1>9
  DEF Next, OwnerStep, Body, ChildStep

\* So do the flags and the sets of tasks,
LEMMA FlagTypesStep == IInv /\ [Next]_vars => FlagTypes'
<1>. SUFFICES ASSUME IInv, [Next]_vars
              PROVE  FlagTypes'
  OBVIOUS
<1>p. /\ FlagTypes /\ DOMAIN pc = Proc
  BY TypesFollow DEF IInv
<1>n. /\ Owner \notin Child /\ NoOne \notin Child /\ Canceller \notin Child
      /\ Owner # NoOne /\ Owner # Canceller
  BY ProcNames
<1>1. ASSUME NEW u \in BOOLEAN, AddPending(u)
      PROVE  FlagTypes'
  BY <1>1, <1>p, AddPendingEffect DEF FlagTypes
<1>2. CASE \/ RevertPending \/ CallCancelAll \/ CancelOwner \/ CancelRecords \/ CallNext
           \/ PollLocks
  BY <1>2, <1>p, <1>n
  DEF FlagTypes, At, Aborted, RevertPending, CallCancelAll, CancelOwner, CancelRecords,
     CallNext, PollLocks
<1>3. ASSUME NEW c \in Child,
             \/ CreateTask(c) \/ AttachChild(c) \/ OfferLocks(c) \/ OfferToWaiter(c)
             \/ OfferToQueue(c) \/ OfferLast(c)
      PROVE  FlagTypes'
  BY <1>3, <1>p, <1>n
  DEF FlagTypes, Detached, At, Aborted, CreateTask, AttachChild, OfferLocks, OfferToWaiter,
     OfferToQueue, OfferLast
<1>4. ASSUME NEW p \in Child \cup {Owner},
             \/ StatusCancel(p) \/ CheckFirstChild(p) \/ CancelChildren(p)
      PROVE  FlagTypes'
  BY <1>4, <1>p, <1>n
  DEF FlagTypes, At, Aborted, StatusCancel, CheckFirstChild, CancelChildren
<1>5. ASSUME NEW c \in Child, NEW throws \in BOOLEAN, ChildCompletes(c, throws)
      PROVE  FlagTypes'
  BY <1>5, <1>p, <1>n
  DEF FlagTypes, At, Aborted, ChildCompletes
<1>6. ASSUME NEW c \in Child,
             \/ OfferNotLast(c) \/ RunWaitingTask(c)
      PROVE  FlagTypes'
  BY <1>6, <1>p, <1>n
  DEF FlagTypes, Detached, At, Aborted, OfferNotLast, RunWaitingTask
<1>7. CASE \/ PollEmpty \/ PollReady \/ ReturnPolled \/ PollWaits \/ Resume
           \/ BodyReturns
  BY <1>7, <1>p, <1>n
  DEF FlagTypes, Detached, At, Aborted, PollEmpty, PollReady, ReturnPolled, PollWaits, Resume,
     BodyReturns
<1>8. CASE \/ BodyThrows \/ WaitAllLocks \/ WaitAllEmpty \/ WaitAllParks \/ Destroy
  BY <1>8, <1>p, <1>n
  DEF FlagTypes, Detached, At, Aborted, BodyThrows, WaitAllLocks, WaitAllEmpty, WaitAllParks,
     Destroy
<1>9. CASE UNCHANGED vars
  BY <1>9, <1>p, <1>n
  DEF FlagTypes, vars
<1>. QED
  BY <1>1, <1>2, <1>3, <1>4, <1>5, <1>6, <1>7, <1>8, <1>9
  DEF Next, OwnerStep, Body, ChildStep

\* the queues and the results in them,
LEMMA ResultTypesStep == IInv /\ [Next]_vars => ResultTypes'
<1>. SUFFICES ASSUME IInv, [Next]_vars
              PROVE  ResultTypes'
  OBVIOUS
<1>p. /\ CountInv /\ LockInv /\ AssumedInv /\ FifoInv /\ ResultTypes /\ DOMAIN pc = Proc
  BY TypesFollow DEF IInv
<1>n. /\ Owner \notin Child /\ NoOne \notin Child /\ Canceller \notin Child
      /\ Owner # NoOne /\ Owner # Canceller
  BY ProcNames
<1>i. \A c \in Child : CompletedTask(c) \in Items
  BY <1>p DEF ResultTypes, CompletedTask, Item, Items
<1>b. Empty \in Items \cup {Empty} /\ RawError \in Items
  BY DEF Items
<1>h. readyQueue # <<>> => Head(readyQueue) \in Items /\ Tail(readyQueue) \in Seq(Items)
  BY <1>p DEF ResultTypes
<1>1. ASSUME NEW u \in BOOLEAN, AddPending(u)
      PROVE  ResultTypes'
  BY <1>1, <1>p, AddPendingEffect DEF ResultTypes
<1>2. CASE RevertPending
  BY <1>2, <1>p, <1>n, <1>i, <1>b
  DEF ResultTypes, RevertPending
<1>3. ASSUME NEW c \in Child, CreateTask(c)
      PROVE  ResultTypes'
  BY <1>3, <1>p, <1>n, <1>i, <1>b
  DEF ResultTypes, CreateTask
<1>4. ASSUME NEW c \in Child, AttachChild(c)
      PROVE  ResultTypes'
  BY <1>4, <1>p, <1>n, <1>i, <1>b
  DEF ResultTypes, AttachChild
<1>5. CASE CallCancelAll
  BY <1>5, <1>p, <1>n, <1>i, <1>b
  DEF ResultTypes, CallCancelAll
<1>6. ASSUME NEW p \in Child \cup {Owner}, StatusCancel(p)
      PROVE  ResultTypes'
  BY <1>6, <1>p, <1>n, <1>i, <1>b
  DEF ResultTypes, StatusCancel
<1>7. ASSUME NEW p \in Child \cup {Owner}, CheckFirstChild(p)
      PROVE  ResultTypes'
  BY <1>7, <1>p, <1>n, <1>i, <1>b
  DEF ResultTypes, CheckFirstChild
<1>8. ASSUME NEW p \in Child \cup {Owner}, CancelChildren(p)
      PROVE  ResultTypes'
  BY <1>8, <1>p, <1>n, <1>i, <1>b
  DEF ResultTypes, CancelChildren
<1>9. CASE CancelOwner
  BY <1>9, <1>p, <1>n, <1>i, <1>b
  DEF ResultTypes, CancelOwner
<1>10. CASE CancelRecords
  BY <1>10, <1>p, <1>n, <1>i, <1>b
  DEF ResultTypes, CancelRecords
<1>11. ASSUME NEW c \in Child, NEW throws \in BOOLEAN, ChildCompletes(c, throws)
      PROVE  ResultTypes'
  BY <1>11, <1>p, <1>n, <1>i, <1>b
  DEF ResultTypes, ChildCompletes
<1>12. ASSUME NEW c \in Child, OfferLocks(c)
      PROVE  ResultTypes'
  BY <1>12, <1>p, <1>n, <1>i, <1>b
  DEF ResultTypes, OfferLocks
<1>13. ASSUME NEW c \in Child, OfferToWaiter(c)
      PROVE  ResultTypes'
  BY <1>13, <1>p, <1>n, <1>i, <1>b
  DEF ResultTypes, OfferToWaiter
<1>14. ASSUME NEW c \in Child, OfferToQueue(c)
      PROVE  ResultTypes'
  BY <1>14, <1>p, <1>n, <1>i, <1>b
  DEF ResultTypes, Enqueues, OfferToQueue
<1>15. ASSUME NEW c \in Child, OfferLast(c)
      PROVE  ResultTypes'
  <2>1. retained' = retained
           \/ \E d : retained' = [e \in Child |-> retained[e] - IF e = d THEN 1 ELSE 0]
    BY <1>15 DEF OfferLast
  <2>2. retained' \in [Child -> Int]
    BY <2>1, <1>p DEF ResultTypes
  <2>3. UNCHANGED <<outcome, fails, offered, delivered>>
    BY <1>15 DEF OfferLast
  <2>4. CASE readyQueue = <<>>
    <3>1. readyQueue' = readyQueue /\ slot' = CompletedTask(c)
      BY <1>15, <2>4 DEF OfferLast
    <3>. QED  BY <2>2, <2>3, <3>1, <1>p, <1>i, <1>b DEF ResultTypes
  <2>5. CASE readyQueue # <<>>
    <3>1. readyQueue' = Tail(readyQueue) /\ slot' = Head(readyQueue)
      BY <1>15, <2>5 DEF OfferLast
    <3>. QED  BY <2>2, <2>3, <2>5, <3>1, <1>p, <1>b, <1>h DEF ResultTypes
  <2>. QED  BY <2>4, <2>5
<1>16. ASSUME NEW c \in Child, OfferNotLast(c)
      PROVE  ResultTypes'
  BY <1>16, <1>p, <1>n, <1>i, <1>b
  DEF ResultTypes, Enqueues, OfferNotLast
<1>17. ASSUME NEW c \in Child, RunWaitingTask(c)
      PROVE  ResultTypes'
  BY <1>17, <1>p, <1>n, <1>i, <1>b
  DEF ResultTypes, RunWaitingTask
<1>18. CASE CallNext
  BY <1>18, <1>p, <1>n, <1>i, <1>b
  DEF ResultTypes, CallNext
<1>19. CASE PollLocks
  BY <1>19, <1>p, <1>n, <1>i, <1>b
  DEF ResultTypes, PollLocks
<1>20. CASE PollEmpty
  BY <1>20, <1>p, <1>n, <1>i, <1>b
  DEF ResultTypes, PollEmpty
<1>21. CASE PollReady
  <2>1. readyQueue # <<>> /\ ~discarding
    BY <1>21, <1>p, <1>n DEF PollReady, LockInv, AssumedInv, CountInv, CountsMatchTasks, At
  <2>2. /\ slot' = Head(readyQueue) /\ readyQueue' = Tail(readyQueue)
        /\ delivered' = Append(delivered, slot'.task)
        /\ UNCHANGED <<outcome, fails, retained, offered>>
    BY <1>21 DEF PollReady
  <2>3. Head(readyQueue).task \in Child
    <3>1. /\ readyQueue[1] = CompletedTask(offered[Len(delivered) + 1])
          /\ Len(offered) >= Len(delivered) + 1
      <4>1. Len(readyQueue) >= 1 /\ 1 \in DOMAIN readyQueue
        BY <2>1, <1>p DEF ResultTypes
      <4>2. /\ Len(offered) = Len(delivered) + Len(readyQueue) + IF mutex \in Child THEN 1 ELSE 0
            /\ readyQueue[1] = CompletedTask(offered[Len(delivered) + 1])
        BY <2>1, <4>1, <1>p DEF FifoInv
      <4>3. Len(offered) \in Nat /\ Len(delivered) \in Nat
        BY <1>p DEF ResultTypes
      <4>. QED  BY <4>1, <4>2, <4>3
    <3>2. offered[Len(delivered) + 1] \in Child
      BY <3>1, <1>p DEF ResultTypes
    <3>. QED  BY <2>1, <3>1, <3>2, <1>p DEF ResultTypes, CompletedTask, Item
  <2>4. delivered' \in Seq(Child)
    BY <2>2, <2>3, <1>p DEF ResultTypes
  <2>. QED  BY <2>1, <2>2, <2>4, <1>p, <1>h DEF ResultTypes
<1>22. CASE ReturnPolled
  <2>1. retained' = [retained EXCEPT ![slot.task] = @ - 1] /\ slot' = Empty
        /\ UNCHANGED <<readyQueue, outcome, fails, offered, delivered>>
    BY <1>22 DEF ReturnPolled
  <2>2. CASE slot.task \in Child
    BY <2>1, <2>2, <1>p, <1>b DEF ResultTypes
  <2>3. CASE slot.task \notin Child
    <3>1. retained' = retained
      BY <2>1, <2>3, <1>p DEF ResultTypes
    <3>. QED  BY <2>1, <3>1, <1>p, <1>b DEF ResultTypes
  <2>. QED  BY <2>2, <2>3
<1>23. CASE PollWaits
  BY <1>23, <1>p, <1>n, <1>i, <1>b
  DEF ResultTypes, PollWaits
<1>24. CASE Resume
  BY <1>24, <1>p, <1>n, <1>i, <1>b
  DEF ResultTypes, Resume
<1>25. CASE BodyReturns
  BY <1>25, <1>p, <1>n, <1>i, <1>b
  DEF ResultTypes, BodyReturns
<1>26. CASE BodyThrows
  BY <1>26, <1>p, <1>n, <1>i, <1>b
  DEF ResultTypes, BodyThrows
<1>27. CASE WaitAllLocks
  BY <1>27, <1>p, <1>n, <1>i, <1>b
  DEF ResultTypes, WaitAllLocks
<1>28. CASE WaitAllEmpty
  <2>1. retained' = retained
           \/ \E d : retained' = [e \in Child |-> retained[e] - IF e = d THEN 1 ELSE 0]
    BY <1>28 DEF WaitAllEmpty
  <2>2. retained' \in [Child -> Int]
    BY <2>1, <1>p DEF ResultTypes
  <2>3. UNCHANGED <<slot, fails, offered, delivered>>
    BY <1>28 DEF WaitAllEmpty
  <2>4. CASE readyQueue = <<>>
    <3>1. readyQueue' = readyQueue /\ outcome' \in {RawError, Empty}
      BY <1>28, <2>4 DEF WaitAllEmpty
    <3>. QED  BY <2>2, <2>3, <3>1, <1>p, <1>i, <1>b DEF ResultTypes
  <2>5. CASE readyQueue # <<>>
    <3>1. readyQueue' = Tail(readyQueue) /\ outcome' \in {RawError, Head(readyQueue)}
      BY <1>28, <2>5 DEF WaitAllEmpty
    <3>. QED  BY <2>2, <2>3, <2>5, <3>1, <1>p, <1>b, <1>h DEF ResultTypes
  <2>. QED  BY <2>4, <2>5
<1>29. CASE WaitAllParks
  BY <1>29, <1>p, <1>n, <1>i, <1>b
  DEF ResultTypes, WaitAllParks
<1>30. CASE Destroy
  BY <1>30, <1>p, <1>n, <1>i, <1>b
  DEF ResultTypes, Destroy
<1>31. CASE UNCHANGED vars
  BY <1>31, <1>p, <1>n, <1>i, <1>b
  DEF ResultTypes, vars
<1>. QED
  BY <1>1, <1>2, <1>3, <1>4, <1>5, <1>6, <1>7, <1>8, <1>9, <1>10, <1>11, <1>12, <1>13, <1>14,
     <1>15, <1>16, <1>17, <1>18, <1>19, <1>20, <1>21, <1>22, <1>23, <1>24, <1>25, <1>26, <1>27,
     <1>28, <1>29, <1>30, <1>31
  DEF Next, OwnerStep, Body, ChildStep

\* and the status word, with counts that are integers.
LEMMA StatusShapeStep == IInv /\ [Next]_vars => (status' \in StatusShape)
<1>. SUFFICES ASSUME IInv, [Next]_vars
              PROVE  (status' \in StatusShape)
  OBVIOUS
<1>p. status \in StatusShape
  BY TypesFollow DEF IInv
<1>1. ASSUME NEW u \in BOOLEAN, AddPending(u)
      PROVE  (status' \in StatusShape)
  BY <1>1, <1>p, AddPendingEffect, StatusUpdates
<1>2. CASE \/ RevertPending \/ CallCancelAll \/ CancelOwner \/ CancelRecords \/ CallNext
           \/ PollLocks
  BY <1>2, <1>p, StatusUpdates
  DEF RevertPending, CallCancelAll, CancelOwner, CancelRecords, CallNext, PollLocks
<1>3. ASSUME NEW c \in Child,
             \/ CreateTask(c) \/ AttachChild(c) \/ OfferLocks(c) \/ OfferToWaiter(c)
             \/ OfferToQueue(c) \/ OfferLast(c)
      PROVE  (status' \in StatusShape)
  BY <1>3, <1>p, StatusUpdates
  DEF Enqueues, CreateTask, AttachChild, OfferLocks, OfferToWaiter, OfferToQueue, OfferLast
<1>4. ASSUME NEW p \in Child \cup {Owner},
             \/ StatusCancel(p) \/ CheckFirstChild(p) \/ CancelChildren(p)
      PROVE  (status' \in StatusShape)
  BY <1>4, <1>p, StatusUpdates
  DEF StatusCancel, CheckFirstChild, CancelChildren
<1>5. ASSUME NEW c \in Child, NEW throws \in BOOLEAN, ChildCompletes(c, throws)
      PROVE  (status' \in StatusShape)
  BY <1>5, <1>p, StatusUpdates
  DEF ChildCompletes
<1>6. ASSUME NEW c \in Child,
             \/ OfferNotLast(c) \/ RunWaitingTask(c)
      PROVE  (status' \in StatusShape)
  BY <1>6, <1>p, StatusUpdates
  DEF Enqueues, OfferNotLast, RunWaitingTask
<1>7. CASE \/ PollEmpty \/ PollReady \/ ReturnPolled \/ PollWaits \/ Resume
           \/ BodyReturns
  BY <1>7, <1>p, StatusUpdates
  DEF PollEmpty, PollReady, ReturnPolled, PollWaits, Resume, BodyReturns
<1>8. CASE \/ BodyThrows \/ WaitAllLocks \/ WaitAllEmpty \/ WaitAllParks \/ Destroy
  BY <1>8, <1>p, StatusUpdates
  DEF BodyThrows, WaitAllLocks, WaitAllEmpty, WaitAllParks, Destroy
<1>9. CASE UNCHANGED vars
  BY <1>9, <1>p, StatusUpdates
  DEF vars
<1>. QED
  BY <1>1, <1>2, <1>3, <1>4, <1>5, <1>6, <1>7, <1>8, <1>9
  DEF Next, OwnerStep, Body, ChildStep

\* Attaching, detaching, retaining and releasing keep the child list and the retains exact.
LEMMA ChildInvStep == IInv /\ [Next]_vars => ChildInv'
<1>. SUFFICES ASSUME IInv, [Next]_vars
              PROVE  ChildInv'
  OBVIOUS
<1>p. /\ LockInv /\ AssumedInv /\ WaitInv /\ OfferInv /\ FifoInv /\ CountInv
      /\ ChildInv /\ ErrorInv /\ ResultTypes /\ DOMAIN pc = Proc
  BY TypesFollow DEF IInv
<1>n. /\ Owner \notin Child /\ NoOne \notin Child /\ Canceller \notin Child
      /\ Owner # NoOne /\ Owner # Canceller
  BY ProcNames
<1>1. ASSUME NEW u \in BOOLEAN, AddPending(u)
      PROVE  ChildInv'
  BY <1>1, <1>p, <1>n, AddPendingEffect DEF ChildInv, Queued, Polled, Locked, CancelPositions
<1>2. CASE \/ RevertPending \/ CallCancelAll \/ CancelOwner \/ CancelRecords \/ CallNext
           \/ PollLocks
  BY <1>2, <1>p, <1>n
  DEF ChildInv, Queued, Polled, At, Aborted, Goto, Proc, CancelPositions, Locked, RevertPending,
     CallCancelAll, CancelOwner, CancelRecords, CallNext, PollLocks
<1>3. ASSUME NEW c \in Child,
             \/ CreateTask(c) \/ AttachChild(c) \/ OfferLocks(c) \/ RunWaitingTask(c)
      PROVE  ChildInv'
  BY <1>3, <1>p, <1>n
  DEF ChildInv, Queued, Polled, At, Aborted, Goto, Proc, CancelPositions, Locked, CreateTask,
     AttachChild, OfferLocks, RunWaitingTask
<1>4. ASSUME NEW p \in Child \cup {Owner},
             \/ StatusCancel(p) \/ CheckFirstChild(p) \/ CancelChildren(p)
      PROVE  ChildInv'
  BY <1>4, <1>p, <1>n
  DEF ChildInv, Queued, Polled, At, Aborted, Goto, Proc, CancelPositions, Locked, Await,
     AfterCancelAll, StatusCancel, CheckFirstChild, CancelChildren
<1>5. ASSUME NEW c \in Child, NEW throws \in BOOLEAN, ChildCompletes(c, throws)
      PROVE  ChildInv'
  BY <1>5, <1>p, <1>n
  DEF ChildInv, Queued, Polled, At, Aborted, Goto, Proc, CancelPositions, Locked, ChildCompletes
<1>6. ASSUME NEW c \in Child, OfferToWaiter(c)
      PROVE  ChildInv'
  <2>1. /\ mutex = c /\ ~discarding /\ pc[c] \in Locked
        /\ pc[Owner] # "polledTask" /\ pc'[Owner] # "polledTask"
    BY <1>6, <1>p, <1>n DEF OfferToWaiter, LockInv, AssumedInv, WaitInv, Locked, At, Goto, Proc
  <2>2. /\ children' = children \ {c} /\ pc' = [pc EXCEPT ![c] = "run"]
        /\ UNCHANGED <<readyQueue, retained>>
    BY <1>6 DEF OfferToWaiter, Detached, Goto
  <2>3. ~Queued(c) /\ \A d : Queued(d)' <=> Queued(d)
    BY <2>1, <2>2, QueueFacts DEF Queued
  <2>4. \A d : ~Polled(d) /\ ~Polled(d)'
    BY <2>1 DEF Polled
  <2>. QED  BY <2>2, <2>3, <2>4, <1>p DEF ChildInv, Locked, CancelPositions, Proc
<1>7. ASSUME NEW c \in Child, OfferToQueue(c)
      PROVE  ChildInv'
  <2>1. /\ mutex = c /\ ~discarding /\ pc[c] \in Locked
    BY <1>7, <1>p, <1>n DEF OfferToQueue, LockInv, Locked, At
  <2>2. /\ retained' = [retained EXCEPT ![c] = @ + 1]
           /\ readyQueue' = Append(readyQueue, CompletedTask(c))
        /\ pc' = [pc EXCEPT ![c] = "done"] /\ UNCHANGED <<children, slot>>
    BY <1>7 DEF OfferToQueue, Enqueues, Goto
  <2>3. \A d : Queued(d)' <=> Queued(d) \/ d = c
    <3>1. CompletedTask(c).task = c
      BY DEF CompletedTask, Item
    <3>2. \A d : Queued(d)' <=> Queued(d) \/ d = CompletedTask(c).task
      BY <2>2, <1>p, AppendItem DEF ResultTypes
    <3>. QED  BY <3>1, <3>2
  <2>4. ~Queued(c) /\ ~Polled(c)
    BY <2>1, QueueFacts
  <2>5. \A d : Polled(d)' <=> Polled(d)
    BY <2>2, <1>p, <1>n DEF Polled, Proc
  <2>. QED  BY <2>1, <2>2, <2>3, <2>4, <2>5, <1>p DEF ChildInv, Locked, CancelPositions, Proc,
               ResultTypes
<1>8. ASSUME NEW c \in Child, OfferLast(c)
      PROVE  ChildInv'
  <2>1. mutex = c /\ discarding /\ pc[c] \in Locked /\ pc' = [pc EXCEPT ![c] = "run"]
    BY <1>8, <1>p, <1>n DEF OfferLast, LockInv, Locked, At, Goto
  <2>2. \A d : ~Polled(d) /\ ~Polled(d)'
    BY <2>1, <1>p, <1>n DEF LockInv, Polled, Proc
  <2>3. CASE readyQueue = <<>>
    <3>1. readyQueue' = <<>> /\ children' = children \ {c} /\ retained' = retained
      BY <1>8, <2>3 DEF OfferLast, Detached
    <3>2. \A d : ~Queued(d) /\ ~Queued(d)'
      BY <2>3, <3>1 DEF Queued
    <3>. QED  BY <2>1, <2>2, <3>1, <3>2, <1>p DEF ChildInv, Locked, CancelPositions, Proc
  <2>4. CASE readyQueue # <<>>
    <3>. DEFINE e == Head(readyQueue).task
    <3>1. /\ readyQueue' = <<>> /\ children' = children \ {c, e}
          /\ retained' = [d \in Child |-> retained[d] - IF d = e THEN 1 ELSE 0]
      BY <1>8, <2>1, <2>4, QueueFacts DEF OfferLast, Detached
    <3>2. \A d : (Queued(d) <=> d = e) /\ ~Queued(d)'
      BY <2>1, <2>4, <3>1, QueueFacts DEF Queued
    <3>3. \A d \in Child : Queued(d) => pc[d] \notin {"running", "offer"}
             /\ (pc[d] \in Locked => d = c)
      BY <2>1, <1>p, QueuedOffered DEF OfferInv, LockInv, Locked, CancelPositions
    <3>4. \A d \in Child : pc'[d] = IF d = c THEN "run" ELSE pc[d]
      BY <2>1, <1>p DEF Proc
    <3>5. \A d \in Child : d # c => pc[d] \notin Locked
      BY <2>1, <1>p DEF LockInv
    <3>. HIDE DEF e
    <3>6. children' = {d \in Child : pc'[d] \in {"running", "offer"} \cup Locked
             \/ Queued(d)' \/ Polled(d)'}
      BY <2>1, <2>2, <3>1, <3>2, <3>3, <3>4, <3>5, <1>p DEF ChildInv, Locked, CancelPositions
    <3>7. \A d \in Child : retained'[d] = 0
      BY <2>2, <3>1, <3>2, <1>p DEF ChildInv
    <3>. QED  BY <2>2, <3>2, <3>6, <3>7 DEF ChildInv
  <2>. QED  BY <2>3, <2>4
<1>9. ASSUME NEW c \in Child, OfferNotLast(c)
      PROVE  ChildInv'
  <2>1. mutex = c /\ discarding /\ pc[c] \in Locked /\ pc' = [pc EXCEPT ![c] = "done"]
    BY <1>9, <1>p, <1>n DEF OfferNotLast, LockInv, Locked, At, Goto
  <2>2. \A d : ~Polled(d) /\ ~Polled(d)'
    BY <2>1, <1>p, <1>n DEF LockInv, Polled, Proc
  <2>3. CASE /\ readyQueue = <<>> /\ readyQueue' = Append(readyQueue, CompletedTask(c))
             /\ retained' = [retained EXCEPT ![c] = @ + 1] /\ children' = children
    <3>1. \A d : ~Queued(d)
      BY <2>3 DEF Queued
    <3>2. \A d : Queued(d)' <=> d = c
      BY <2>3, <3>1, <1>p, AppendItem DEF ResultTypes, CompletedTask, Item
    <3>3. \A d \in Child : pc'[d] = IF d = c THEN "done" ELSE pc[d]
      BY <2>1, <1>p DEF Proc
    <3>4. \A d \in Child : retained'[d] = IF d = c THEN retained[c] + 1 ELSE retained[d]
      BY <2>3, <1>p DEF ResultTypes
    <3>. QED  BY <2>1, <2>2, <2>3, <3>1, <3>2, <3>3, <3>4, <1>p DEF ChildInv, Locked,
                 CancelPositions
  <2>4. CASE children' = children \ {c} /\ UNCHANGED <<readyQueue, retained>>
    <3>1. ~Queued(c)
      <4>1. readyQueue = <<>> => ~Queued(c)
        BY DEF Queued
      <4>. QED  BY <2>1, <4>1, QueueFacts
    <3>2. \A d : Queued(d)' <=> Queued(d)
      BY <2>4 DEF Queued
    <3>. QED  BY <2>1, <2>2, <2>4, <3>1, <3>2, <1>p DEF ChildInv, Locked, CancelPositions, Proc
  <2>. QED  BY <1>9, <2>3, <2>4 DEF OfferNotLast, Enqueues, Detached
<1>10. CASE \/ PollEmpty \/ PollWaits \/ Resume \/ BodyReturns \/ BodyThrows
            \/ WaitAllLocks
  BY <1>10, <1>p, <1>n
  DEF ChildInv, Queued, Polled, At, Aborted, Goto, Proc, CancelPositions, Locked, Await,
     AfterNext, PollEmpty, PollWaits, Resume, BodyReturns, BodyThrows, WaitAllLocks
<1>11. CASE PollReady
  <2>1. /\ pc[Owner] = "polled" /\ pc' = [pc EXCEPT ![Owner] = "polledTask"] /\ readyQueue # <<>>
    BY <1>11, <1>p, <1>n DEF PollReady, LockInv, AssumedInv, CountInv, CountsMatchTasks, At,
       Goto
  <2>2. slot' = Head(readyQueue) /\ readyQueue' = Tail(readyQueue)
           /\ UNCHANGED <<children, retained>>
    BY <1>11 DEF PollReady
  <2>3. \A d : ~Polled(d)
    BY <2>1 DEF Polled
  <2>4. \A d : Polled(d)' <=> slot'.task = d
    BY <2>1, <1>p, <1>n DEF Polled, Proc
  <2>5. \A d : Queued(d) <=> Queued(d)' \/ Polled(d)'
    BY <2>1, <2>2, <2>4, <1>p, HeadAndTail DEF ResultTypes
  <2>6. \A d \in Child : pc'[d] = pc[d]
    BY <2>1, <1>n
  <2>. QED  BY <2>2, <2>3, <2>5, <2>6, <1>p DEF ChildInv
<1>12. CASE ReturnPolled
  <2>. DEFINE e == slot.task
  <2>1. /\ pc[Owner] = "polledTask" /\ pc' = [pc EXCEPT ![Owner] = AfterNext]
           /\ AfterNext # "polledTask"
        /\ children' = children \ {e} /\ retained' = [retained EXCEPT ![e] = @ - 1]
        /\ UNCHANGED readyQueue
    BY <1>12 DEF ReturnPolled, At, Goto, Detached, AfterNext
  <2>2. \A d : (Polled(d) <=> d = e) /\ ~Polled(d)'
    BY <2>1, <1>p, <1>n DEF Polled, Proc
  <2>3. e \in Child /\ ~Queued(e)
    BY <2>1, QueueFacts
  <2>4. \A d : Queued(d)' <=> Queued(d)
    BY <2>1 DEF Queued
  <2>5. pc[e] \notin {"running", "offer"} \cup Locked
    <3>1. Offered(e) /\ ~discarding
      BY <2>1, <1>p DEF LockInv, FifoInv, CompletedTask, Item, Offered
    <3>. QED  BY <2>1, <2>2, <2>3, <3>1, <1>p, QueueFacts DEF OfferInv, LockInv, Locked,
                 CancelPositions
  <2>6. \A d \in Child : pc'[d] = pc[d]
    BY <2>1, <1>n
  <2>. HIDE DEF e
  <2>. QED  BY <2>1, <2>2, <2>3, <2>4, <2>5, <2>6, <1>p DEF ChildInv, ResultTypes
<1>13. CASE WaitAllEmpty
  <2>1. /\ mutex = Owner /\ discarding /\ pc' = [pc EXCEPT ![Owner] = "destroy"]
    BY <1>13, <1>p DEF WaitAllEmpty, LockInv, At, Goto
  <2>2. (\A d : ~Polled(d) /\ ~Polled(d)') /\ \A d \in Child : pc'[d] = pc[d]
    BY <2>1, <1>p, <1>n DEF LockInv, Polled, Proc
  <2>3. CASE readyQueue = <<>>
    <3>1. readyQueue' = <<>> /\ UNCHANGED <<children, retained>>
      BY <1>13, <2>3 DEF WaitAllEmpty
    <3>2. \A d : ~Queued(d) /\ ~Queued(d)'
      BY <2>3, <3>1 DEF Queued
    <3>. QED  BY <2>2, <3>1, <3>2, <1>p DEF ChildInv
  <2>4. CASE readyQueue # <<>>
    <3>. DEFINE e == Head(readyQueue).task
    <3>1. /\ readyQueue' = <<>> /\ children' = children \ {e}
          /\ retained' = [d \in Child |-> retained[d] - IF d = e THEN 1 ELSE 0]
      BY <1>13, <2>1, <2>4, QueueFacts DEF WaitAllEmpty, Detached
    <3>2. \A d : (Queued(d) <=> d = e) /\ ~Queued(d)'
      BY <2>1, <2>4, <3>1, QueueFacts DEF Queued
    <3>3. \A d \in Child : Queued(d) => pc[d] \notin {"running", "offer"} \cup Locked
      BY <2>1, <1>p, <1>n, QueuedOffered DEF OfferInv, LockInv, Locked, CancelPositions
    <3>. HIDE DEF e
    <3>. QED  BY <2>2, <3>1, <3>2, <3>3, <1>p DEF ChildInv
  <2>. QED  BY <2>3, <2>4
<1>14. CASE WaitAllParks
  <2>0. readyQueue' = readyQueue \/ (readyQueue = <<>> /\ readyQueue' = <<RawError>>)
    BY <1>14 DEF WaitAllParks
  <2>1. discarding /\ pc' = [pc EXCEPT ![Owner] = "parked"] /\ UNCHANGED <<children, retained>>
    BY <1>14, <1>p DEF WaitAllParks, LockInv, At, Goto
  <2>2. (\A d : ~Polled(d) /\ ~Polled(d)') /\ \A d \in Child : pc'[d] = pc[d]
    BY <2>1, <1>p, <1>n DEF LockInv, Polled, Proc
  <2>3. \A d \in Child : Queued(d)' <=> Queued(d)
    <3>1. CASE readyQueue' = readyQueue
      BY <3>1 DEF Queued
    <3>2. CASE readyQueue = <<>> /\ readyQueue' = <<RawError>>
      <4>1. \A d \in Child : RawError.task # d
        BY <1>n DEF RawError, Item
      <4>. QED  BY <3>2, <4>1 DEF Queued
    <3>. QED  BY <2>0, <3>1, <3>2
  <2>. QED  BY <2>1, <2>2, <2>3, <1>p DEF ChildInv
<1>15. CASE Destroy
  BY <1>15, <1>p, <1>n
  DEF ChildInv, Queued, Polled, At, Aborted, Goto, Proc, CancelPositions, Locked, Destroy
<1>16. CASE UNCHANGED vars
  BY <1>16, <1>p, <1>n
  DEF ChildInv, Queued, Polled, CancelPositions, Locked, vars
<1>. QED
  BY <1>1, <1>2, <1>3, <1>4, <1>5, <1>6, <1>7, <1>8, <1>9, <1>10, <1>11, <1>12, <1>13, <1>14,
     <1>15, <1>16
  DEF Next, OwnerStep, Body, ChildStep

\* Where nothing is pending, every child task has completed; the holder of the mutex is last.
LEMMA NothingPending ==
  ASSUME IInv, status.pending = 0
  PROVE  /\ \A c \in Child : pc[c] \in {"none", "run", "done"} \/ mutex = c
         /\ ~discarding => readyQueue = <<>> /\ mutex \notin Child
<1>1. Bounds /\ LockInv /\ OfferInv
  BY BoundsFollow DEF IInv
<1>. HIDE DEF IInv
<1>2. \A c \in Child : pc[c] # "none" => Offered(c)
  BY <1>1 DEF Bounds, Added
<1>. QED  BY <1>1, <1>2 DEF Bounds, LockInv, OfferInv

\* Whoever ends the last wait leaves nothing behind.
LEMMA OverStep == IInv /\ [Next]_vars => OverInv'
<1>. SUFFICES ASSUME IInv, [Next]_vars
              PROVE  OverInv'
  OBVIOUS
<1>p. /\ LockInv /\ AssumedInv /\ WaitInv /\ ChildInv /\ OverInv /\ status \in Status
         /\ DOMAIN pc = Proc
  BY DEF IInv, TypeOK
<1>n. /\ Owner \notin Child /\ NoOne \notin Child /\ Canceller \notin Child
      /\ Owner # NoOne /\ Owner # Canceller
  BY ProcNames
<1>1. ASSUME NEW u \in BOOLEAN, AddPending(u)
      PROVE  OverInv'
  BY <1>1, <1>p, <1>n, AddPendingEffect DEF OverInv, Over
<1>2. CASE \/ RevertPending \/ CallCancelAll \/ CancelOwner \/ CancelRecords \/ CallNext
           \/ PollLocks
  BY <1>2, <1>p, <1>n
  DEF OverInv, Over, LockInv, WaitInv, Status, Locks, statusMarkWaiting, At, Aborted, Goto,
     Proc, CancelPositions, Locked, RevertPending, CallCancelAll, CancelOwner, CancelRecords,
     CallNext, PollLocks
<1>3. ASSUME NEW c \in Child,
             \/ CreateTask(c) \/ AttachChild(c) \/ OfferLocks(c) \/ OfferToWaiter(c)
             \/ OfferToQueue(c) \/ OfferNotLast(c)
      PROVE  OverInv'
  BY <1>3, <1>p, <1>n
  DEF OverInv, Over, LockInv, WaitInv, Status, Locks, Unlocks, statusAfterOffer,
     completingPendingReadyWaiting, At, Aborted, Goto, Proc, CancelPositions, Locked,
     CreateTask, AttachChild, OfferLocks, OfferToWaiter, OfferToQueue, OfferNotLast
<1>4. ASSUME NEW p \in Child \cup {Owner},
             \/ StatusCancel(p) \/ CheckFirstChild(p) \/ CancelChildren(p)
      PROVE  OverInv'
  BY <1>4, <1>p, <1>n
  DEF OverInv, Over, LockInv, WaitInv, Status, At, Aborted, Goto, Proc, CancelPositions, Locked,
     Await, AfterCancelAll, StatusCancel, CheckFirstChild, CancelChildren
<1>5. ASSUME NEW c \in Child, NEW throws \in BOOLEAN, ChildCompletes(c, throws)
      PROVE  OverInv'
  BY <1>5, <1>p, <1>n
  DEF OverInv, Over, LockInv, WaitInv, Status, At, Aborted, Goto, Proc, CancelPositions, Locked,
     ChildCompletes
<1>6. ASSUME NEW c \in Child, OfferLast(c)
      PROVE  OverInv'
  <2>1. /\ mutex = c /\ discarding /\ status.pending = 0
    BY <1>6, <1>p, <1>n DEF OfferLast, IsLast, LockInv, AssumedInv, Locked, At
  <2>2. /\ pc' = [pc EXCEPT ![c] = "run"] /\ mutex' = NoOne /\ status' = status /\ discarding'
    BY <1>6, <2>1 DEF OfferLast, Unlocks, Goto
  <2>3. \A d \in Child : pc'[d] \in {"none", "done", "run"}
    BY <2>1, <2>2, <1>p, <1>n, NothingPending DEF Proc
  <2>4. readyQueue' = <<>>
    BY <1>6, <2>1, QueueFacts DEF OfferLast
  <2>5. children' = {}
    BY <2>2, <2>3, <2>4, <1>p, <1>n, ChildInvStep, LockStep
    DEF ChildInv, LockInv, Queued, Polled, Locked, CancelPositions
  <2>. QED  BY <2>1, <2>2, <2>3, <2>4, <2>5 DEF OverInv
<1>7. ASSUME NEW c \in Child, RunWaitingTask(c)
      PROVE  OverInv'
  BY <1>7, <1>p, <1>n
  DEF OverInv, Over, LockInv, WaitInv, Status, At, Aborted, Proc, CancelPositions, Locked,
     RunWaitingTask
<1>8. CASE PollEmpty
  <2>1. /\ mutex = Owner /\ ~discarding /\ status.pending = 0 /\ pc[Owner] = "polled"
    BY <1>8, <1>p DEF PollEmpty, LockInv, AssumedInv, At
  <2>2. readyQueue = <<>> /\ \A c \in Child : pc[c] \in {"none", "done"}
    BY <2>1, <1>p, <1>n, NothingPending DEF WaitInv
  <2>3. children = {}
    BY <2>1, <2>2, <1>p DEF ChildInv, Queued, Polled, Locked, CancelPositions
  <2>4. /\ status'.pending = 0 /\ mutex' = NoOne /\ UNCHANGED <<children, readyQueue>>
        /\ \A c \in Child : pc'[c] = pc[c]
    BY <1>8, <2>1, <1>p, <1>n DEF PollEmpty, statusRemoveWaiting, Unlocks, Goto, Proc, Status
  <2>. QED  BY <2>2, <2>3, <2>4 DEF OverInv
<1>9. CASE \/ PollReady \/ ReturnPolled \/ PollWaits \/ Resume \/ BodyReturns
           \/ BodyThrows
  BY <1>9, <1>p, <1>n
  DEF OverInv, Over, LockInv, WaitInv, Status, Unlocks, completingPendingReadyWaiting, At,
     Aborted, Goto, Proc, CancelPositions, Locked, Await, AfterNext, PollReady, ReturnPolled,
     PollWaits, Resume, BodyReturns, BodyThrows
<1>10. CASE \/ WaitAllLocks \/ WaitAllParks \/ Destroy
  BY <1>10, <1>p, <1>n
  DEF OverInv, Over, LockInv, WaitInv, Status, Locks, Unlocks, statusMarkWaiting, At, Aborted,
     Goto, Proc, CancelPositions, Locked, WaitAllLocks, WaitAllParks, Destroy
<1>11. CASE WaitAllEmpty
  <2>1. /\ mutex = Owner /\ discarding /\ status.pending = 0 /\ pc[Owner] = "waiting"
    BY <1>11, <1>p, <1>n DEF WaitAllEmpty, LockInv, AssumedInv, At
  <2>2. /\ pc' = [pc EXCEPT ![Owner] = "destroy"] /\ mutex' = NoOne /\ status' = status
           /\ discarding'
    BY <1>11, <2>1 DEF WaitAllEmpty, Unlocks, Goto
  <2>3. \A d \in Child : pc'[d] \in {"none", "done", "run"}
    BY <2>1, <2>2, <1>p, <1>n, NothingPending DEF Proc
  <2>4. readyQueue' = <<>>
    BY <1>11, <2>1, QueueFacts DEF WaitAllEmpty
  <2>5. children' = {}
    BY <2>2, <2>3, <2>4, <1>p, <1>n, ChildInvStep, LockStep
    DEF ChildInv, LockInv, Queued, Polled, Locked, CancelPositions
  <2>. QED  BY <2>1, <2>2, <2>3, <2>4, <2>5 DEF OverInv
<1>12. CASE UNCHANGED vars
  BY <1>12, <1>p, <1>n
  DEF OverInv, Over, LockInv, WaitInv, Status, CancelPositions, Locked, vars
<1>. QED
  BY <1>1, <1>2, <1>3, <1>4, <1>5, <1>6, <1>7, <1>8, <1>9, <1>10, <1>11, <1>12
  DEF Next, OwnerStep, Body, ChildStep

\* What the holder of the mutex brings when no error has been kept
LEMMA HolderOutcome ==
  ASSUME IInv, mutex \in Child, discarding, readyQueue = <<>>, ~Over
  PROVE  /\ CompletedTask(mutex) \in Outcomes
         /\ fails[mutex] => CompletedTask(mutex) \in FirstErrors
<1>1. /\ \A i \in Errors : offered[i] = mutex
      /\ Len(offered) > 0 /\ offered[Len(offered)] = mutex /\ offered \in Seq(Child)
      /\ fails \in [Child -> BOOLEAN]
      /\ \A i, j \in DOMAIN offered : offered[i] = offered[j] => i = j
  BY DEF IInv, TypeOK, ErrorInv, OfferInv
<1>. HIDE DEF IInv
<1>2. Len(offered) \in DOMAIN offered /\ Len(offered) \in Nat
  BY <1>1
<1>3. CASE fails[mutex]
  <2>1. Errors = {Len(offered)}
    BY <1>1, <1>2, <1>3 DEF Errors
  <2>2. IsFirstError(Len(offered)) /\ CompletedTask(mutex) = Item("error", offered[Len(offered)])
    BY <2>1, <1>1, <1>2, <1>3 DEF IsFirstError, CompletedTask
  <2>. QED  BY <2>1, <2>2, <1>3 DEF FirstErrors, Outcomes
<1>4. CASE ~fails[mutex]
  <2>1. Errors = {}
    BY <1>1, <1>4 DEF Errors
  <2>2. CompletedTask(mutex) = Item("success", mutex)
    BY <1>4 DEF CompletedTask
  <2>. QED  BY <2>1, <2>2, <1>4 DEF Outcomes
<1>. QED  BY <1>3, <1>4

\* The first error stays the one that is kept.
LEMMA ErrorStep == IInv /\ [Next]_vars => ErrorInv'
<1>. SUFFICES ASSUME IInv, [Next]_vars
              PROVE  ErrorInv'
  OBVIOUS
<1>p. /\ LockInv /\ AssumedInv /\ WaitInv /\ OfferInv /\ OverInv /\ ErrorInv /\ ResultTypes
         /\ bodyError \in BOOLEAN /\ DOMAIN pc = Proc
  BY TypesFollow DEF IInv, TypeOK
<1>n. /\ Owner \notin Child /\ NoOne \notin Child /\ Canceller \notin Child
      /\ Owner # NoOne /\ Owner # Canceller
  BY ProcNames
<1>e. UNCHANGED <<offered, fails>> =>
        Errors' = Errors /\ FirstErrors' = FirstErrors /\ Outcomes' = Outcomes
  BY DEF Errors, FirstErrors, IsFirstError, Outcomes, Item, Empty
<1>f. \A i \in Errors : offered[i] \in Child
  BY <1>p DEF ResultTypes, Errors
<1>1. ASSUME NEW u \in BOOLEAN, AddPending(u)
      PROVE  ErrorInv'
  <2>1. /\ pc[Owner] = "body" /\ pc'[Owner] \in {"aborted", "revert", "create"}
        /\ UNCHANGED <<discarding, mutex, readyQueue, bodyError, fails, offered>>
    BY <1>1, AddPendingEffect
  <2>. QED  BY <2>1, <1>p, <1>e DEF ErrorInv, Over
<1>2. CASE RevertPending
  BY <1>2, <1>p, <1>n, <1>e, <1>f
  DEF ErrorInv, Over, OverInv, LockInv, WaitInv, At, Aborted, Goto, Proc, CancelPositions,
     Locked, RevertPending
<1>3. ASSUME NEW c \in Child, CreateTask(c)
      PROVE  ErrorInv'
  BY <1>3, <1>p, <1>n, <1>e, <1>f
  DEF ErrorInv, Over, OverInv, LockInv, WaitInv, At, Aborted, Goto, Proc, CancelPositions,
     Locked, CreateTask
<1>4. ASSUME NEW c \in Child, AttachChild(c)
      PROVE  ErrorInv'
  BY <1>4, <1>p, <1>n, <1>e, <1>f
  DEF ErrorInv, Over, OverInv, LockInv, WaitInv, At, Aborted, Proc, CancelPositions, Locked,
     AttachChild
<1>5. CASE CallCancelAll
  BY <1>5, <1>p, <1>n, <1>e, <1>f
  DEF ErrorInv, Over, OverInv, LockInv, WaitInv, At, Aborted, Goto, Proc, CancelPositions,
     Locked, CallCancelAll
<1>6. ASSUME NEW p \in Child \cup {Owner}, StatusCancel(p)
      PROVE  ErrorInv'
  BY <1>6, <1>p, <1>n, <1>e, <1>f
  DEF ErrorInv, Over, OverInv, LockInv, WaitInv, At, Aborted, Goto, Proc, CancelPositions,
     Locked, Await, AfterCancelAll, StatusCancel
<1>7. ASSUME NEW p \in Child \cup {Owner}, CheckFirstChild(p)
      PROVE  ErrorInv'
  BY <1>7, <1>p, <1>n, <1>e, <1>f
  DEF ErrorInv, Over, OverInv, LockInv, WaitInv, At, Aborted, Goto, Proc, CancelPositions,
     Locked, Await, AfterCancelAll, CheckFirstChild
<1>8. ASSUME NEW p \in Child \cup {Owner}, CancelChildren(p)
      PROVE  ErrorInv'
  BY <1>8, <1>p, <1>n, <1>e, <1>f
  DEF ErrorInv, Over, OverInv, LockInv, WaitInv, At, Aborted, Goto, Proc, CancelPositions,
     Locked, Await, AfterCancelAll, CancelChildren
<1>9. CASE CancelOwner
  BY <1>9, <1>p, <1>n, <1>e, <1>f
  DEF ErrorInv, Over, OverInv, LockInv, WaitInv, At, Aborted, Goto, Proc, CancelPositions,
     Locked, CancelOwner
<1>10. CASE CancelRecords
  BY <1>10, <1>p, <1>n, <1>e, <1>f
  DEF ErrorInv, Over, OverInv, LockInv, WaitInv, At, Aborted, Goto, Proc, CancelPositions,
     Locked, CancelRecords
<1>11. ASSUME NEW c \in Child, NEW throws \in BOOLEAN, ChildCompletes(c, throws)
      PROVE  ErrorInv'
  <2>1. /\ pc[c] = "running" /\ fails' = [fails EXCEPT ![c] = throws] /\ pc'[Owner] = pc[Owner]
        /\ UNCHANGED <<discarding, mutex, readyQueue, waitQueue, bodyError, slot, outcome, offered>>
    BY <1>11, <1>p, <1>n DEF ChildCompletes, At, Goto, Proc
  <2>2. \A i \in DOMAIN offered : offered[i] # c /\ fails'[offered[i]] = fails[offered[i]]
    <3>1. \A i \in DOMAIN offered : offered[i] # c
      BY <2>1, <1>p DEF OfferInv, Offered, Locked, CancelPositions
    <3>2. \A i \in DOMAIN offered : offered[i] \in Child
      BY <1>p DEF ResultTypes
    <3>. QED  BY <2>1, <3>1, <3>2, <1>p DEF ResultTypes
  <2>3. Errors' = Errors
    BY <2>1, <2>2 DEF Errors
  <2>4. FirstErrors' = FirstErrors /\ Outcomes' = Outcomes
    BY <2>1, <2>3 DEF FirstErrors, IsFirstError, Outcomes, Item, Empty
  <2>. QED  BY <2>1, <2>3, <2>4, <1>p DEF ErrorInv, Over
<1>12. ASSUME NEW c \in Child, OfferLocks(c)
      PROVE  ErrorInv'
  <2>1. /\ pc[c] = "offer" /\ mutex = NoOne /\ mutex' = c /\ offered' = Append(offered, c)
        /\ UNCHANGED <<discarding, readyQueue, waitQueue, bodyError, slot, outcome, fails>>
        /\ pc'[Owner] = pc[Owner]
    BY <1>12, <1>p, <1>n DEF OfferLocks, Locks, Goto, Proc, At
  <2>. DEFINE n == Len(offered) + 1
  <2>2. /\ n \in Nat /\ offered'[n] = c /\ DOMAIN offered' = DOMAIN offered \cup {n}
        /\ \A i \in DOMAIN offered : i < n /\ offered'[i] = offered[i]
    BY <2>1, <1>p DEF ResultTypes
  <2>3. Errors' \in {Errors, Errors \cup {n}}
    BY <2>1, <2>2 DEF Errors
  <2>4. \A i \in Errors : i \in DOMAIN offered /\ i < n /\ offered'[i] = offered[i]
    BY <2>2 DEF Errors
  <2>. HIDE DEF n
  <2>5. FirstErrors \subseteq FirstErrors'
    <3>. SUFFICES ASSUME NEW i \in Errors, IsFirstError(i)
                  PROVE  Item("error", offered[i]) \in FirstErrors'
      BY DEF FirstErrors
    <3>1. i \in Errors' /\ offered'[i] = offered[i]
      BY <2>3, <2>4
    <3>2. \A j \in Errors' : i <= j
      BY <2>2, <2>3, <2>4, <1>p DEF IsFirstError, ResultTypes
    <3>. QED  BY <3>1, <3>2 DEF FirstErrors, IsFirstError, Item
  <2>6. ~Over /\ ~Over'
    BY <2>1, <1>p DEF OverInv, Over
  <2>7. readyQueue # <<>> /\ discarding => readyQueue[1].task # c
    <3>1. Queued(c) => Offered(c)
      BY QueuedOffered
    <3>2. ~Offered(c)
      BY <2>1, <1>p DEF OfferInv, Locked, CancelPositions
    <3>. QED  BY <3>1, <3>2, QueueFacts
  <2>8. readyQueue = <<>> /\ discarding => Errors = {}
    BY <2>1, <2>6, <1>p, <1>f, <1>n DEF ErrorInv
  <2>. QED  BY <2>1, <2>2, <2>3, <2>5, <2>6, <2>7, <2>8, <1>p DEF ErrorInv
<1>13. ASSUME NEW c \in Child, OfferToWaiter(c)
      PROVE  ErrorInv'
  BY <1>13, <1>p, <1>n, <1>e, <1>f
  DEF ErrorInv, Over, OverInv, LockInv, WaitInv, Unlocks, At, Aborted, Goto, Proc,
     CancelPositions, Locked, OfferToWaiter
<1>14. ASSUME NEW c \in Child, OfferToQueue(c)
      PROVE  ErrorInv'
  BY <1>14, <1>p, <1>n, <1>e, <1>f
  DEF ErrorInv, Over, OverInv, LockInv, WaitInv, Unlocks, At, Aborted, Goto, Proc,
     CancelPositions, Locked, OfferToQueue
<1>15. ASSUME NEW c \in Child, OfferLast(c)
      PROVE  ErrorInv'
  <2>1. /\ mutex = c /\ discarding /\ pc'[Owner] = pc[Owner] /\ waitQueue' = FALSE
        /\ UNCHANGED <<discarding, bodyError, outcome, offered, fails>>
    BY <1>15, <1>p, <1>n DEF OfferLast, LockInv, Locked, At, Goto, Proc
  <2>2. ~Over /\ pc[Owner] = "parked"
    BY <1>15, <2>1, <1>p, <1>n DEF OfferLast, IsLast, AssumedInv, WaitInv, OverInv, Over
  <2>3. Over' /\ pc'[Owner] = "parked"
    BY <2>1, <2>2 DEF Over
  <2>4. CASE readyQueue = <<>>
    <3>1. readyQueue' = <<>> /\ slot' = CompletedTask(c)
      BY <1>15, <2>4 DEF OfferLast
    <3>2. CompletedTask(c) \in Outcomes
      BY <2>1, <2>2, <2>4, HolderOutcome
    <3>. QED  BY <2>1, <2>3, <3>1, <3>2, <1>e DEF ErrorInv
  <2>5. CASE readyQueue # <<>>
    <3>1. readyQueue' = <<>> /\ slot' = readyQueue[1]
      BY <1>15, <2>1, <2>5, QueueFacts DEF OfferLast
    <3>2. ~bodyError => readyQueue[1] \in FirstErrors
      BY <2>1, <2>5, <1>p DEF ErrorInv
    <3>3. FirstErrors \subseteq Outcomes
      BY DEF FirstErrors, Outcomes
    <3>. QED  BY <2>1, <2>3, <3>1, <3>2, <3>3, <1>e DEF ErrorInv
  <2>. QED  BY <2>4, <2>5
<1>16. ASSUME NEW c \in Child, OfferNotLast(c)
      PROVE  ErrorInv'
  <2>1. /\ mutex = c /\ discarding /\ pc'[Owner] = pc[Owner] /\ mutex' = NoOne
        /\ UNCHANGED <<discarding, bodyError, outcome, slot, waitQueue, offered, fails>>
    BY <1>16, <1>p, <1>n DEF OfferNotLast, LockInv, Locked, At, Goto, Proc, Unlocks
  <2>2. ~Over /\ ~Over'
    BY <2>1, <1>p, <1>n DEF OverInv, Over
  <2>3. CASE fails[c] /\ readyQueue = <<>> /\ readyQueue' = Append(readyQueue, CompletedTask(c))
    <3>1. CompletedTask(c) \in FirstErrors
      BY <2>1, <2>2, <2>3, HolderOutcome
    <3>2. Len(readyQueue') = 1 /\ readyQueue'[1] = CompletedTask(c) /\ readyQueue' # <<>>
      BY <2>3
    <3>. QED  BY <2>1, <2>2, <3>1, <3>2, <1>e, <1>n DEF ErrorInv
  <2>4. CASE readyQueue' = readyQueue /\ (~fails[c] \/ readyQueue # <<>>)
    <3>1. readyQueue = <<>> => Errors = {}
      BY <2>1, <2>2, <2>4, <1>p DEF ErrorInv, Errors
    <3>. QED  BY <2>1, <2>2, <2>4, <3>1, <1>e, <1>p, <1>n DEF ErrorInv
  <2>. QED  BY <1>16, <2>3, <2>4 DEF OfferNotLast, Enqueues
<1>17. ASSUME NEW c \in Child, RunWaitingTask(c)
      PROVE  ErrorInv'
  BY <1>17, <1>p, <1>n, <1>e, <1>f
  DEF ErrorInv, Over, OverInv, LockInv, WaitInv, At, Aborted, Proc, CancelPositions, Locked,
     RunWaitingTask
<1>18. CASE CallNext
  BY <1>18, <1>p, <1>n, <1>e, <1>f
  DEF ErrorInv, Over, OverInv, LockInv, WaitInv, At, Aborted, Goto, Proc, CancelPositions,
     Locked, CallNext
<1>19. CASE PollLocks
  BY <1>19, <1>p, <1>n, <1>e, <1>f
  DEF ErrorInv, Over, OverInv, LockInv, WaitInv, Locks, At, Aborted, Goto, Proc,
     CancelPositions, Locked, PollLocks
<1>20. CASE PollEmpty
  BY <1>20, <1>p, <1>n, <1>e, <1>f
  DEF ErrorInv, Over, OverInv, LockInv, WaitInv, Unlocks, At, Aborted, Goto, Proc,
     CancelPositions, Locked, PollEmpty
<1>21. CASE PollReady
  BY <1>21, <1>p, <1>n, <1>e, <1>f
  DEF ErrorInv, Over, OverInv, LockInv, WaitInv, Unlocks, At, Aborted, Goto, Proc,
     CancelPositions, Locked, PollReady
<1>22. CASE ReturnPolled
  BY <1>22, <1>p, <1>n, <1>e, <1>f
  DEF ErrorInv, Over, OverInv, LockInv, WaitInv, At, Aborted, Goto, Proc, CancelPositions,
     Locked, AfterNext, ReturnPolled
<1>23. CASE PollWaits
  BY <1>23, <1>p, <1>n, <1>e, <1>f
  DEF ErrorInv, Over, OverInv, LockInv, WaitInv, Unlocks, At, Aborted, Goto, Proc,
     CancelPositions, Locked, PollWaits
<1>24. CASE Resume
  BY <1>24, <1>p, <1>n, <1>e, <1>f
  DEF ErrorInv, Over, OverInv, LockInv, WaitInv, At, Aborted, Goto, Proc, CancelPositions,
     Locked, AfterNext, Resume
<1>25. CASE BodyReturns
  BY <1>25, <1>p, <1>n, <1>e, <1>f
  DEF ErrorInv, Over, OverInv, LockInv, WaitInv, At, Aborted, Goto, Proc, CancelPositions,
     Locked, Await, BodyReturns
<1>26. CASE BodyThrows
  BY <1>26, <1>p, <1>n, <1>e, <1>f
  DEF ErrorInv, Over, OverInv, LockInv, WaitInv, At, Aborted, Goto, Proc, CancelPositions,
     Locked, BodyThrows
<1>27. CASE WaitAllLocks
  BY <1>27, <1>p, <1>n, <1>e, <1>f
  DEF ErrorInv, Over, OverInv, LockInv, WaitInv, Locks, At, Aborted, Goto, Proc,
     CancelPositions, Locked, WaitAllLocks
<1>28. CASE WaitAllEmpty
  <2>1. /\ mutex = Owner /\ discarding /\ pc'[Owner] = "destroy" /\ ~Over
        /\ UNCHANGED <<discarding, bodyError, offered, fails>>
    BY <1>28, <1>p, <1>n DEF WaitAllEmpty, LockInv, At, Goto, Proc, Over
  <2>2. Over'
    BY <2>1 DEF Over
  <2>3. CASE readyQueue = <<>>
    <3>1. readyQueue' = <<>> /\ outcome' = IF bodyError THEN RawError ELSE Empty
      BY <1>28, <2>3 DEF WaitAllEmpty
    <3>2. Errors = {}
      BY <2>1, <2>3, <1>p, <1>f, <1>n DEF ErrorInv
    <3>3. Empty \in Outcomes
      BY <3>2 DEF Outcomes
    <3>. QED  BY <2>1, <2>2, <3>1, <3>3, <1>e DEF ErrorInv
  <2>4. CASE readyQueue # <<>>
    <3>1. readyQueue' = <<>> /\ outcome' = IF bodyError THEN RawError ELSE readyQueue[1]
      BY <1>28, <2>1, <2>4, QueueFacts DEF WaitAllEmpty
    <3>2. ~bodyError => readyQueue[1] \in FirstErrors
      BY <2>1, <2>4, <1>p DEF ErrorInv
    <3>3. FirstErrors \subseteq Outcomes
      BY DEF FirstErrors, Outcomes
    <3>. QED  BY <2>1, <2>2, <3>1, <3>2, <3>3, <1>e DEF ErrorInv
  <2>. QED  BY <2>3, <2>4
<1>29. CASE WaitAllParks
  BY <1>29, <1>p, <1>n, <1>e, <1>f
  DEF ErrorInv, Over, OverInv, LockInv, WaitInv, Unlocks, At, Aborted, Goto, Proc,
     CancelPositions, Locked, WaitAllParks
<1>30. CASE Destroy
  BY <1>30, <1>p, <1>n, <1>e, <1>f
  DEF ErrorInv, Over, OverInv, LockInv, WaitInv, At, Aborted, Goto, Proc, CancelPositions,
     Locked, Destroy
<1>31. CASE UNCHANGED vars
  BY <1>31, <1>p, <1>n, <1>e, <1>f
  DEF ErrorInv, Over, OverInv, LockInv, WaitInv, CancelPositions, Locked, vars
<1>. QED
  BY <1>1, <1>2, <1>3, <1>4, <1>5, <1>6, <1>7, <1>8, <1>9, <1>10, <1>11, <1>12, <1>13, <1>14,
     <1>15, <1>16, <1>17, <1>18, <1>19, <1>20, <1>21, <1>22, <1>23, <1>24, <1>25, <1>26, <1>27,
     <1>28, <1>29, <1>30, <1>31
  DEF Next, OwnerStep, Body, ChildStep

\* The holder of the mutex works from a status word that was there.
LEMMA AssumedComes == IInv /\ [Next]_vars => (assumed' \in {assumed, status', NoStatus})
<1>. SUFFICES ASSUME IInv, [Next]_vars
              PROVE  (assumed' \in {assumed, status', NoStatus})
  OBVIOUS
<1>1. ASSUME NEW u \in BOOLEAN, AddPending(u)
      PROVE  (assumed' \in {assumed, status', NoStatus})
  BY <1>1, AddPendingEffect
<1>2. CASE \/ RevertPending \/ CallCancelAll \/ CancelOwner \/ CancelRecords \/ CallNext
           \/ PollLocks
  BY <1>2
  DEF Locks, RevertPending, CallCancelAll, CancelOwner, CancelRecords, CallNext, PollLocks
<1>3. ASSUME NEW c \in Child,
             \/ CreateTask(c) \/ AttachChild(c) \/ OfferLocks(c) \/ OfferToWaiter(c)
             \/ OfferToQueue(c) \/ OfferLast(c)
      PROVE  (assumed' \in {assumed, status', NoStatus})
  BY <1>3
  DEF Locks, Unlocks, CreateTask, AttachChild, OfferLocks, OfferToWaiter, OfferToQueue,
     OfferLast
<1>4. ASSUME NEW p \in Child \cup {Owner},
             \/ StatusCancel(p) \/ CheckFirstChild(p) \/ CancelChildren(p)
      PROVE  (assumed' \in {assumed, status', NoStatus})
  BY <1>4
  DEF StatusCancel, CheckFirstChild, CancelChildren
<1>5. ASSUME NEW c \in Child, NEW throws \in BOOLEAN, ChildCompletes(c, throws)
      PROVE  (assumed' \in {assumed, status', NoStatus})
  BY <1>5
  DEF ChildCompletes
<1>6. ASSUME NEW c \in Child,
             \/ OfferNotLast(c) \/ RunWaitingTask(c)
      PROVE  (assumed' \in {assumed, status', NoStatus})
  BY <1>6
  DEF Unlocks, OfferNotLast, RunWaitingTask
<1>7. CASE \/ PollEmpty \/ PollReady \/ ReturnPolled \/ PollWaits \/ Resume
           \/ BodyReturns
  BY <1>7
  DEF Unlocks, PollEmpty, PollReady, ReturnPolled, PollWaits, Resume, BodyReturns
<1>8. CASE \/ BodyThrows \/ WaitAllLocks \/ WaitAllEmpty \/ WaitAllParks \/ Destroy
  BY <1>8
  DEF Locks, Unlocks, BodyThrows, WaitAllLocks, WaitAllEmpty, WaitAllParks, Destroy
<1>9. CASE UNCHANGED vars
  BY <1>9
  DEF vars
<1>. QED
  BY <1>1, <1>2, <1>3, <1>4, <1>5, <1>6, <1>7, <1>8, <1>9
  DEF Next, OwnerStep, Body, ChildStep

\* Every step keeps the types.
LEMMA TypeStep == IInv /\ [Next]_vars => TypeOK'
<1>. SUFFICES ASSUME IInv, [Next]_vars
              PROVE  TypeOK'
  OBVIOUS
<1>1. PositionTypes' /\ FlagTypes' /\ ResultTypes' /\ status' \in StatusShape
  BY PositionTypesStep, FlagTypesStep, ResultTypesStep, StatusShapeStep
<1>2. CountedBounds'
  BY BoundsHold, PTL
<1>3. Bounds'
  BY <1>1, <1>2, OfferStep, FifoStep, CountStep DEF CountedBounds, ResultTypes, FlagTypes
<1>4. status' \in Status
  BY <1>1, <1>3, BoundsAssumption DEF Bounds, Status, StatusShape
<1>5. assumed' \in Status
  <2>1. assumed \in Status
    BY DEF IInv, TypeOK
  <2>2. NoStatus \in Status
    BY BoundsAssumption DEF NoStatus, Status
  <2>. QED  BY <1>4, <2>1, <2>2, AssumedComes
<1>6. retained' \in [Child -> 0..1]
  BY <1>1, ChildInvStep DEF ChildInv, ResultTypes
<1>. QED  BY <1>1, <1>4, <1>5, <1>6 DEF TypeOK, PositionTypes, ResultTypes, FlagTypes

\* The invariant holds in every state that the group reaches.
LEMMA InvariantHolds == Spec => []IInv
<1>1. Init => IInv
  <2>. SUFFICES ASSUME Init
                PROVE  IInv
    OBVIOUS
  <2>n. /\ Owner \notin Child /\ NoOne \notin Child /\ Canceller \notin Child
        /\ Owner # NoOne /\ Owner # Canceller
    BY ProcNames
  <2>0. /\ DOMAIN pc = Proc /\ pc[Owner] = "body" /\ pc[Canceller] = "none"
        /\ \A c \in Child : pc[c] = "none"
    BY <2>n DEF Init, Proc
  <2>1. Added = {} /\ Cardinality(Added) = 0
    BY <2>0, FS_EmptySet DEF Added
  <2>2. status \in Status /\ assumed \in Status /\ status.pending = 0 /\ status.ready = 0
        /\ status.waiting = FALSE
    <3>1. /\ NoStatus \in Status /\ NoStatus.pending = 0 /\ NoStatus.ready = 0
          /\ NoStatus.waiting = FALSE
      BY BoundsAssumption DEF NoStatus, Status
    <3>2. \A s \in Status, b \in BOOLEAN :
            LET t == [s EXCEPT !.cancelled = b]
            IN  /\ t \in Status /\ t.pending = s.pending /\ t.ready = s.ready
                /\ t.waiting = s.waiting
      BY DEF Status
    <3>3. \E b \in BOOLEAN : status = [NoStatus EXCEPT !.cancelled = b]
      BY DEF Init
    <3>4. assumed = NoStatus
      BY DEF Init
    <3>. QED  BY <3>1, <3>2, <3>3, <3>4
  <2>3. TypeOK
    <3>1. /\ pc[Owner] \in OwnerPositions /\ pc[Canceller] \in {"none", "walk", "done"}
          /\ \A c \in Child : pc[c] \in ChildPositions
      BY <2>0 DEF OwnerPositions, ChildPositions
    <3>2. /\ readyQueue \in Seq(Items) /\ offered \in Seq(Child) /\ delivered \in Seq(Child)
          /\ slot \in Items \cup {Empty} /\ outcome \in Items \cup {Empty}
      BY DEF Init
    <3>3. fails \in [Child -> BOOLEAN] /\ retained \in [Child -> 0..1]
      BY DEF Init
    <3>4. /\ discarding \in BOOLEAN /\ mutex \in Child \cup {Owner, NoOne}
             /\ waitQueue \in BOOLEAN
          /\ children \in SUBSET Child /\ finishing \in BOOLEAN /\ bodyError \in BOOLEAN
          /\ cancelled \in SUBSET (Child \cup {Owner})
      BY DEF Init
    <3>. QED  BY <2>2, <3>1, <3>2, <3>3, <3>4 DEF TypeOK
  <2>4. LockInv
    BY <2>0, <2>n DEF Init, LockInv, Locked, CancelPositions
  <2>5. AssumedInv
    BY <2>n DEF Init, AssumedInv
  <2>6. WaitInv
    BY <2>0, <2>2 DEF Init, WaitInv
  <2>7. OfferInv
    BY <2>0, <2>1, <2>n DEF Init, OfferInv, Offered, Locked, CancelPositions
  <2>8. FifoInv
    BY <2>0, <2>n DEF Init, FifoInv
  <2>9. CountInv
    BY <2>0, <2>1, <2>2, <2>n, BoundsAssumption DEF Init, CountInv, CountsMatchTasks
  <2>10. ChildInv
    BY <2>0 DEF Init, ChildInv, Queued, Polled, Locked, CancelPositions
  <2>11. OverInv
    BY <2>0 DEF Init, OverInv, Over
  <2>12. ErrorInv
    BY <2>0 DEF Init, ErrorInv, Over, Errors
  <2>. QED  BY <2>0, <2>3, <2>4, <2>5, <2>6, <2>7, <2>8, <2>9, <2>10, <2>11, <2>12 DEF IInv
<1>2. IInv /\ [Next]_vars => IInv'
  BY TypeStep, PositionTypesStep, LockStep, AssumedStep, WaitStep, OfferStep, FifoStep,
     CountStep,
     ChildInvStep, OverStep, ErrorStep
  DEF IInv, PositionTypes
<1>. QED  BY <1>1, <1>2, PTL DEF Spec

-----------------------------------------------------------------------------
(* What the invariant gives *)

\* Every variable keeps its type, and no count of the status word leaves its field, however
\* many child tasks there are (TaskGroupStatus).
THEOREM TypesHold == Spec => []TypeOK
<1>1. IInv => TypeOK
  BY DEF IInv
<1>. QED  BY <1>1, InvariantHolds, PTL

\* The status word, changed with and without the mutex, agrees with the tasks, the queues and
\* the retains (addPending(), offer(), poll(), waitAll()).
THEOREM StatusAgrees == Spec => []StatusMatchesTasks
<1>1. IInv => QueuesMatchStatus
  <2>. SUFFICES ASSUME IInv
                PROVE  QueuesMatchStatus
    OBVIOUS
  <2>p. /\ LockInv /\ AssumedInv /\ WaitInv /\ CountInv /\ OverInv /\ ErrorInv
        /\ status \in Status /\ waitQueue \in BOOLEAN /\ readyQueue \in Seq(Items)
        /\ discarding \in BOOLEAN
    BY DEF IInv, TypeOK
  <2>1. ASSUME NEW c \in Child, At(c, "claim"), discarding, IsLast
        PROVE  waitQueue
    BY <2>1, <2>p, ProcNames DEF At, LockInv, Locked, AssumedInv, WaitInv, OverInv, Over, IsLast
  <2>2. ASSUME NEW c \in Child, At(c, "claim"), ~discarding
        PROVE  assumed.waiting = waitQueue
    BY <2>2, <2>p, ProcNames DEF At, LockInv, Locked, AssumedInv, WaitInv, Status
  <2>3. ASSUME At(Owner, "polled"), assumed.ready > 0
        PROVE  readyQueue # <<>>
    BY <2>3, <2>p, ProcNames DEF At, LockInv, AssumedInv, CountInv, CountsMatchTasks
  <2>4. ASSUME discarding
        PROVE  /\ Len(readyQueue) <= 1
               /\ \A i \in DOMAIN readyQueue : readyQueue[i].kind # "success"
    <3>1. Len(readyQueue) <= 1
      BY <2>4, <2>p DEF ErrorInv
    <3>2. ASSUME NEW i \in DOMAIN readyQueue
          PROVE  i = 1 /\ readyQueue # <<>>
      BY <3>1, <3>2, <2>p
    <3>3. readyQueue # <<>> => readyQueue[1].kind # "success"
      BY <2>4, <2>p DEF ErrorInv, FirstErrors, RawError, Item
    <3>. QED  BY <3>1, <3>2, <3>3
  <2>. QED  BY <2>1, <2>2, <2>3, <2>4 DEF QueuesMatchStatus
<1>2. IInv => RetainsMatchQueue
  <2>. SUFFICES ASSUME IInv, NEW c \in Child
                PROVE  retained[c] = Cardinality({i \in DOMAIN readyQueue : readyQueue[i].task = c})
                         + IF At(Owner, "polledTask") /\ slot.task = c THEN 1 ELSE 0
    BY DEF RetainsMatchQueue
  <2>. DEFINE I == {i \in DOMAIN readyQueue : readyQueue[i].task = c}
  <2>p. ChildInv /\ OfferInv /\ FifoInv /\ offered \in Seq(Child) /\ delivered \in Seq(Child)
    BY DEF IInv, TypeOK
  <2>t. readyQueue \in Seq(Items) /\ Len(delivered) \in Nat
    BY DEF IInv, TypeOK
  <2>1. (At(Owner, "polledTask") /\ slot.task = c) <=> Polled(c)
    BY DEF At, Aborted, Polled
  <2>2. Polled(c) => ~Queued(c)
    BY QueueFacts DEF Polled
  <2>3. CASE ~Queued(c)
    <3>1. I = {}
      BY <2>3 DEF Queued
    <3>2. retained[c] = IF Polled(c) THEN 1 ELSE 0
      BY <2>3, <2>p DEF ChildInv
    <3>. HIDE DEF I
    <3>3. Cardinality(I) = 0
      BY <3>1, FS_EmptySet
    <3>. QED  BY <2>1, <3>2, <3>3 DEF I
  <2>4. CASE Queued(c)
    <3>1. PICK k \in DOMAIN readyQueue : readyQueue[k].task = c
      BY <2>4 DEF Queued
    <3>2. ASSUME NEW j \in DOMAIN readyQueue, readyQueue[j].task = c
          PROVE  j = k
      <4>1. CASE discarding
        <5>1. Len(readyQueue) = 1
          BY <3>1, <4>1, <2>t, QueueFacts
        <5>. QED  BY <3>1, <3>2, <5>1, <2>t
      <4>2. CASE ~discarding
        <5>1. Len(delivered) + j = Len(delivered) + k
          BY <3>1, <3>2, <4>2, <2>p, QueueFacts DEF OfferInv
        <5>2. j \in Nat /\ k \in Nat
          BY <3>1, <3>2, <2>t
        <5>. QED  BY <5>1, <5>2, <2>t
      <4>. QED  BY <4>1, <4>2
    <3>3. I = {k}
      BY <3>1, <3>2
    <3>. HIDE DEF I
    <3>4. Cardinality(I) = 1
      BY <3>3, FS_Singleton
    <3>5. retained[c] = 1
      BY <2>4, <2>p DEF ChildInv
    <3>. QED  BY <2>1, <2>2, <2>4, <3>4, <3>5 DEF I
  <2>. QED  BY <2>3, <2>4
<1>3. IInv => StatusMatchesTasks
  BY <1>1, <1>2 DEF IInv, CountInv, StatusMatchesTasks
<1>. QED  BY <1>3, InvariantHolds, PTL

\* The scope is left with nothing pending, nothing kept, and no child task inside the group's
\* code (TaskGroupBase::waitAll(), TaskGroup::destroy()).
THEOREM ScopeEndsEmpty == Spec => []DestroyFindsNothing
<1>1. IInv => DestroyFindsNothing
  BY DEF IInv, OverInv, Over, WaitInv, DestroyFindsNothing, At
<1>. QED  BY <1>1, InvariantHolds, PTL

\* The error that leaves a discarding group is the first one offered
\* (DiscardingTaskGroup::offer(), waitAll()).
THEOREM FirstErrorLeaves == Spec => []FirstErrorIsThrown
<1>1. IInv => FirstErrorIsThrown
  <2>. SUFFICES ASSUME IInv, discarding, ~bodyError, At(Owner, "destroy")
                PROVE  \/ Errors = {} /\ outcome.kind \in {"empty", "success"}
                       \/ \E i \in Errors : IsFirstError(i) /\ outcome = Item("error", offered[i])
    BY DEF FirstErrorIsThrown
  <2>1. outcome \in Outcomes
    BY DEF IInv, ErrorInv, Over, At
  <2>2. CASE Errors = {}
    BY <2>1, <2>2 DEF Outcomes, Empty, Item
  <2>3. CASE Errors # {}
    BY <2>1, <2>3 DEF Outcomes, FirstErrors
  <2>. QED  BY <2>2, <2>3
<1>. QED  BY <1>1, InvariantHolds, PTL

\* Every way of adding and cancelling child tasks keeps up with the other.
LEMMA CancelStep == IInv /\ CancelReachesChildren /\ [Next]_vars => CancelReachesChildren'
<1>. SUFFICES ASSUME IInv, CancelReachesChildren, [Next]_vars
              PROVE  CancelReachesChildren'
  OBVIOUS
<1>p. /\ CancelReachesChildren /\ status \in Status /\ DOMAIN pc = Proc
  BY DEF IInv, TypeOK
<1>n. /\ Owner \notin Child /\ NoOne \notin Child /\ Canceller \notin Child
      /\ Owner # NoOne /\ Owner # Canceller
  BY ProcNames
<1>1. ASSUME NEW u \in BOOLEAN, AddPending(u)
      PROVE  CancelReachesChildren'
  BY <1>1, <1>p, <1>n, AddPendingEffect DEF CancelReachesChildren, Status
<1>2. CASE \/ RevertPending \/ CallCancelAll \/ CancelOwner \/ CancelRecords \/ CallNext
           \/ PollLocks
  BY <1>2, <1>p, <1>n
  DEF CancelReachesChildren, Status, statusMarkWaiting, At, Aborted, Goto, Proc, RevertPending,
     CallCancelAll, CancelOwner, CancelRecords, CallNext, PollLocks
<1>3. ASSUME NEW c \in Child,
             \/ CreateTask(c) \/ AttachChild(c) \/ OfferLocks(c) \/ OfferToWaiter(c)
             \/ OfferToQueue(c) \/ OfferLast(c)
      PROVE  CancelReachesChildren'
  BY <1>3, <1>p, <1>n
  DEF CancelReachesChildren, Detached, Status, statusAfterOffer, completingPendingReadyWaiting,
     At, Aborted, Goto, Proc, CreateTask, AttachChild, OfferLocks, OfferToWaiter, OfferToQueue,
     OfferLast
<1>4. ASSUME NEW p \in Child \cup {Owner},
             \/ StatusCancel(p) \/ CheckFirstChild(p) \/ CancelChildren(p)
      PROVE  CancelReachesChildren'
  BY <1>4, <1>p, <1>n
  DEF CancelReachesChildren, Status, At, Aborted, Goto, Proc, Await, AfterCancelAll,
     StatusCancel, CheckFirstChild, CancelChildren
<1>5. ASSUME NEW c \in Child, NEW throws \in BOOLEAN, ChildCompletes(c, throws)
      PROVE  CancelReachesChildren'
  BY <1>5, <1>p, <1>n
  DEF CancelReachesChildren, Status, At, Aborted, Goto, Proc, ChildCompletes
<1>6. ASSUME NEW c \in Child,
             \/ OfferNotLast(c) \/ RunWaitingTask(c)
      PROVE  CancelReachesChildren'
  BY <1>6, <1>p, <1>n
  DEF CancelReachesChildren, Detached, Status, At, Aborted, Goto, Proc, OfferNotLast,
     RunWaitingTask
<1>7. CASE \/ PollEmpty \/ PollReady \/ ReturnPolled \/ PollWaits \/ Resume
           \/ BodyReturns
  BY <1>7, <1>p, <1>n
  DEF CancelReachesChildren, Detached, Status, statusRemoveWaiting,
     completingPendingReadyWaiting, At, Aborted, Goto, Proc, Await, AfterNext, PollEmpty,
     PollReady, ReturnPolled, PollWaits, Resume, BodyReturns
<1>8. CASE \/ BodyThrows \/ WaitAllLocks \/ WaitAllEmpty \/ WaitAllParks \/ Destroy
  BY <1>8, <1>p, <1>n
  DEF CancelReachesChildren, Detached, Status, statusMarkWaiting, At, Aborted, Goto, Proc,
     BodyThrows, WaitAllLocks, WaitAllEmpty, WaitAllParks, Destroy
<1>9. CASE UNCHANGED vars
  BY <1>9, <1>p, <1>n
  DEF CancelReachesChildren, Status, vars
<1>. QED
  BY <1>1, <1>2, <1>3, <1>4, <1>5, <1>6, <1>7, <1>8, <1>9
  DEF Next, OwnerStep, Body, ChildStep

\* A cancelled group has cancelled its child tasks once nobody is on the way to them, also the
\* one that was being added meanwhile (_language_taskGroup_cancel(), attachChild()).
THEOREM CancelReaches == Spec => []CancelReachesChildren
<1>1. Init => CancelReachesChildren
  BY DEF Init, CancelReachesChildren
<1>2. IInv /\ CancelReachesChildren /\ [Next]_vars => CancelReachesChildren'
  BY CancelStep
<1>. QED  BY <1>1, <1>2, InvariantHolds, PTL DEF Spec

-----------------------------------------------------------------------------
(* The group implements StructuredGroup. *)

MapsToGroup == [Group!Next]_(Group!vars)

\* Each step of the group is a step of StructuredGroup or none at all.
LEMMA GroupStep == IInv /\ [Next]_vars => MapsToGroup
<1>. SUFFICES ASSUME IInv, [Next]_vars
              PROVE  MapsToGroup
  OBVIOUS
<1>p. /\ LockInv /\ AssumedInv /\ WaitInv /\ OfferInv /\ FifoInv /\ CountInv /\ OverInv
      /\ ResultTypes /\ DOMAIN pc = Proc
  BY TypesFollow DEF IInv
<1>n. /\ Owner \notin Child /\ NoOne \notin Child /\ Canceller \notin Child
      /\ Owner # NoOne /\ Owner # Canceller
  BY ProcNames
<1>a. ~(pc[Owner] = "body" /\ pc'[Owner] = "create") => Added' = Added
  BY AddedStep DEF AddsInOrder
<1>1. ASSUME NEW u \in BOOLEAN, AddPending(u)
      PROVE  MapsToGroup
  <2>1. /\ pc[Owner] = "body" /\ pc'[Owner] \in {"aborted", "revert", "create"}
        /\ UNCHANGED <<discarding, offered, delivered>>
    BY <1>1, AddPendingEffect
  <2>2. CASE Added' = Added
    BY <2>1, <2>2 DEF MapsToGroup, Group!vars
  <2>3. ASSUME NEW c \in Child, c \notin Added, Added' = Added \cup {c}
        PROVE  MapsToGroup
    BY <2>1, <2>3 DEF MapsToGroup, Group!Next, Group!Add
  <2>4. \/ Added' = Added
        \/ \E c \in Child : c \notin Added /\ Added' = Added \cup {c}
    BY <1>1, AddPendingEffect, <1>n DEF Added
  <2>. QED  BY <2>2, <2>3, <2>4
<1>2. CASE \/ RevertPending \/ CallCancelAll \/ CancelOwner \/ CancelRecords \/ CallNext
           \/ PollLocks
  BY <1>2, <1>p, <1>n, <1>a
  DEF MapsToGroup, Group!vars, Locks, At, Aborted, Goto, Proc, RevertPending, CallCancelAll,
     CancelOwner, CancelRecords, CallNext, PollLocks
<1>3. ASSUME NEW c \in Child,
             \/ CreateTask(c) \/ AttachChild(c) \/ OfferToQueue(c) \/ OfferLast(c)
             \/ OfferNotLast(c) \/ RunWaitingTask(c)
      PROVE  MapsToGroup
  BY <1>3, <1>p, <1>n, <1>a
  DEF MapsToGroup, Group!vars, Unlocks, At, Aborted, Goto, Proc, CreateTask, AttachChild,
     OfferToQueue, OfferLast, OfferNotLast, RunWaitingTask
<1>4. ASSUME NEW p \in Child \cup {Owner},
             \/ StatusCancel(p) \/ CheckFirstChild(p) \/ CancelChildren(p)
      PROVE  MapsToGroup
  BY <1>4, <1>p, <1>n, <1>a
  DEF MapsToGroup, Group!vars, At, Aborted, Goto, Proc, Await, AfterCancelAll, StatusCancel,
     CheckFirstChild, CancelChildren
<1>5. ASSUME NEW c \in Child, NEW throws \in BOOLEAN, ChildCompletes(c, throws)
      PROVE  MapsToGroup
  BY <1>5, <1>p, <1>n, <1>a
  DEF MapsToGroup, Group!vars, At, Aborted, Goto, Proc, ChildCompletes
<1>6. ASSUME NEW c \in Child, OfferLocks(c)
      PROVE  MapsToGroup
  <2>1. /\ pc[c] = "offer" /\ offered' = Append(offered, c) /\ pc'[Owner] = pc[Owner]
        /\ UNCHANGED <<discarding, delivered>>
    BY <1>6, <1>p, <1>n DEF OfferLocks, At, Goto, Proc
  <2>2. Added' = Added
    BY <2>1, <1>a
  <2>3. c \in Added /\ \A i \in DOMAIN offered : offered[i] # c
    BY <2>1, <1>p DEF OfferInv, Offered, Locked, CancelPositions, Added
  <2>. QED  BY <2>1, <2>2, <2>3 DEF MapsToGroup, Group!Next, Group!Complete
<1>7. ASSUME NEW c \in Child, OfferToWaiter(c)
      PROVE  MapsToGroup
  <2>1. /\ mutex = c /\ ~discarding /\ waitQueue
    BY <1>7, <1>p, <1>n DEF OfferToWaiter, LockInv, AssumedInv, WaitInv, Locked, At
  <2>2. /\ delivered' = Append(delivered, c) /\ UNCHANGED <<discarding, offered>>
        /\ pc'[Owner] = pc[Owner]
    BY <1>7, <1>p, <1>n DEF OfferToWaiter, Goto, Proc
  <2>3. Len(offered) = Len(delivered) + 1 /\ offered[Len(offered)] = c
    BY <2>1, <1>p DEF FifoInv, OfferInv
  <2>4. Len(delivered) < Len(offered) /\ offered[Len(delivered) + 1] = c
    BY <2>3, <1>p DEF ResultTypes
  <2>. QED  BY <2>1, <2>2, <2>4, <1>a DEF MapsToGroup, Group!Next, Group!Take
<1>8. CASE PollEmpty
  <2>1. /\ pc[Owner] = "polled" /\ ~discarding /\ status.pending = 0
        /\ UNCHANGED <<discarding, offered, delivered>>
    BY <1>8, <1>p DEF PollEmpty, LockInv, AssumedInv, At
  <2>2. pc'[Owner] \in {"destroy", "body"}
    BY <1>8, <1>p, <1>n DEF PollEmpty, Goto, Proc
  <2>3. delivered = offered /\ \A c \in Added : Offered(c)
    BY <2>1, BoundsFollow DEF Bounds
  <2>. QED  BY <2>1, <2>2, <2>3, <1>a DEF MapsToGroup, Group!vars, Group!Next, Group!Leave,
               Offered
<1>9. CASE PollReady
  <2>1. /\ pc[Owner] = "polled" /\ ~discarding /\ readyQueue # <<>>
    BY <1>9, <1>p, <1>n DEF PollReady, LockInv, AssumedInv, CountInv, CountsMatchTasks, At
  <2>2. /\ delivered' = Append(delivered, Head(readyQueue).task)
           /\ UNCHANGED <<discarding, offered>>
        /\ pc'[Owner] = "polledTask"
    BY <1>9, <1>p, <1>n DEF PollReady, Goto, Proc
  <2>3. 1 \in DOMAIN readyQueue /\ Head(readyQueue) = readyQueue[1]
    BY <2>1, <1>p DEF ResultTypes
  <2>4. Len(delivered) + 1 \in DOMAIN offered
           /\ Head(readyQueue).task = offered[Len(delivered) + 1]
    BY <2>1, <2>3, QueueFacts
  <2>5. Len(delivered) < Len(offered)
    BY <2>4, <1>p DEF ResultTypes
  <2>. QED  BY <2>1, <2>2, <2>4, <2>5, <1>a DEF MapsToGroup, Group!Next, Group!Take
<1>10. CASE \/ ReturnPolled \/ PollWaits \/ BodyReturns \/ BodyThrows \/ WaitAllLocks
            \/ WaitAllParks
  BY <1>10, <1>p, <1>n, <1>a
  DEF MapsToGroup, Group!vars, Locks, Unlocks, At, Aborted, Goto, Proc, Await, AfterNext,
     ReturnPolled, PollWaits, BodyReturns, BodyThrows, WaitAllLocks, WaitAllParks
<1>11. CASE Resume
  <2>1. /\ pc[Owner] = "resumed" /\ UNCHANGED <<discarding, offered, delivered>>
    BY <1>11 DEF Resume, At
  <2>2. CASE discarding
    <3>1. status.pending = 0 /\ pc'[Owner] = "destroy"
      BY <1>11, <2>1, <2>2, <1>p, <1>n DEF Resume, OverInv, Over, Goto, Proc
    <3>2. \A c \in Added : Offered(c)
      BY <3>1, BoundsFollow DEF Bounds
    <3>. QED  BY <2>1, <2>2, <3>1, <3>2, <1>a DEF MapsToGroup, Group!Next, Group!Leave, Offered
  <2>3. CASE ~discarding
    <3>1. pc'[Owner] \in {"poll", "body"}
      BY <1>11, <2>3, <1>p, <1>n DEF Resume, AfterNext, Goto, Proc
    <3>. QED  BY <2>1, <3>1, <1>a DEF MapsToGroup, Group!vars
  <2>. QED  BY <2>2, <2>3
<1>12. CASE WaitAllEmpty
  <2>1. /\ pc[Owner] = "waiting" /\ discarding /\ status.pending = 0 /\ pc'[Owner] = "destroy"
        /\ UNCHANGED <<discarding, offered, delivered>>
    BY <1>12, <1>p, <1>n DEF WaitAllEmpty, LockInv, AssumedInv, At, Goto, Proc
  <2>2. \A c \in Added : Offered(c)
    BY <2>1, BoundsFollow DEF Bounds
  <2>. QED  BY <2>1, <2>2, <1>a DEF MapsToGroup, Group!Next, Group!Leave, Offered
<1>13. CASE Destroy
  BY <1>13, <1>p, <1>n, <1>a
  DEF MapsToGroup, Group!vars, At, Aborted, Goto, Proc, Destroy
<1>14. CASE UNCHANGED vars
  BY <1>14, <1>p, <1>n, <1>a
  DEF MapsToGroup, Group!vars, vars
<1>. QED
  BY <1>1, <1>2, <1>3, <1>4, <1>5, <1>6, <1>7, <1>8, <1>9, <1>10, <1>11, <1>12, <1>13, <1>14
  DEF Next, OwnerStep, Body, ChildStep

\* Results come out once each and in the order of completion, and the scope is left only after
\* every child task has completed: the group with its mutex, its status word and its two queues
\* implements StructuredGroup.
THEOREM ImplementsGroup == Spec => ImplementsStructuredGroup
<1>1. Init => Group!Init
  <2>. SUFFICES ASSUME Init
                PROVE  Group!Init
    OBVIOUS
  <2>1. pc[Owner] = "body" /\ \A c \in Child : pc[c] = "none"
    BY ProcNames DEF Init
  <2>. QED  BY <2>1 DEF Init, Group!Init, Added
<1>2. IInv /\ [Next]_vars => [Group!Next]_(Group!vars)
  BY GroupStep DEF MapsToGroup
<1>. QED  BY <1>1, <1>2, InvariantHolds, PTL DEF Spec, ImplementsStructuredGroup, Group!Spec
=============================================================================
