-------------------------- MODULE TaskStatusProofs --------------------------
(***************************************************************************)
(* The inductive invariant of a task's status, for any number of records,  *)
(* children and threads, and the parts of it that are about the calls, the *)
(* mutex, the stack of scopes with the list of records, and the phases of  *)
(* the task.  TaskCancelProofs has the rest of it, and what follows.       *)
(***************************************************************************)
EXTENDS TaskStatus, FiniteSetTheorems, WellFoundedInduction, TLAPS

-----------------------------------------------------------------------------
(* The inductive invariant *)

Removing == {"remove", "run", "pop"}
InGroup == {"attach", "detach", "cancelAll"}
Working == {"add", "remove", "pop", "cancel"} \cup InGroup

\* Where a call can be
PcsOf(f) ==
  IF f.nested THEN {"lock", "setbit", "update", "unlock", "enqueue"}
  ELSE CASE f.op = "none"    -> {"idle", "await"}
         [] f.op = "add"     -> {"add", "lock", "setbit", "update", "unlock", "fire", "fired"}
         [] f.op = "suspend" -> {"add", "lock", "setbit", "update", "unlock", "awaited"}
         [] f.op = "enqueue" -> {"add", "lock", "setbit", "update", "unlock", "enqueue"}
         [] f.op = "cancel"  -> {"lock", "setbit", "fn", "next", "update", "unlock"}
         [] f.op = "resume"  -> {"lock", "setbit", "update", "unlock", "enqueue"}
         [] f.op \in {"remove", "run"} ->
              {"remove", "lock", "setbit", "fn", "update", "unlock"}
         [] OTHER            -> {"lock", "setbit", "fn", "update", "unlock"}

\* What a thread can be doing: only the task itself adds and removes records.
FrameOk(t, f) ==
  /\ f.pc \in PcsOf(f)
  /\ f.pc = "idle" => f = NoCall
  /\ f.nested => f.op = "cancel" /\ t # Owner
  /\ t # Owner => f.op \in {"none", "cancel", "escalate", "resume"} /\ f.pc # "await"
  /\ t = Owner => f.op \notin {"escalate", "resume"}
  /\ f.flag => \/ f.op = "pop" /\ f.pc \in {"update", "unlock"}
               \/ f.op = "add" /\ f.pc \in {"unlock", "fire", "fired"}

FrameInv == \A t \in Thread : FrameOk(t, frame[t])

\* How often a thread holds the mutex
Depth(f) ==
  IF f.nested
  THEN IF f.pc \in {"setbit", "update", "unlock"} THEN 2 ELSE 1
  ELSE IF f.pc \in {"setbit", "fn", "next", "update", "unlock"} THEN 1 ELSE 0

HasBit(f) == f.nested \/ f.pc \in {"fn", "next", "update"}

MutexInv ==
  /\ \A t \in Thread : mutex.holder = t <=> Depth(frame[t]) # 0
  /\ mutex.depth = IF mutex.holder = Null THEN 0 ELSE Depth(frame[mutex.holder])

\* A call remembers whether the bit had been set before it set it.
BitOk(f) ==
  /\ f.nested /\ f.pc \in {"lock", "setbit"} => f.old.locked
  /\ f.pc \in {"fn", "next", "update"} => f.already = f.nested

\* The bit is set by the holder of the mutex.
BitInv ==
  /\ \A t \in Thread : BitOk(frame[t]) /\ (HasBit(frame[t]) => status.locked)
  /\ status.locked => mutex.holder # Null /\ HasBit(frame[mutex.holder])

KindOf(op, k) ==
  CASE op = "add"                 ->
         k \in {"cancel", "escalation", "child", "group", "preference"}
    [] op = "remove"              -> k \in {"escalation", "child", "group"}
    [] op = "pop"                 -> k \in {"cancel", "preference"}
    [] op \in InGroup             -> k = "group"
    [] op \in {"suspend", "enqueue", "run"} -> k = "dependency"
    [] OTHER                      -> TRUE

\* The scopes are a stack of allocated records.
StackInv ==
  /\ \A i, j \in 1..Len(scopes) : scopes[i] = scopes[j] => i = j
  /\ \A r \in Record : kind[r] # "free" <=> \E i \in 1..Len(scopes) : scopes[i] = r
  /\ \A i \in 1..Len(scopes) : kind[scopes[i]] = "dependency" => i = Len(scopes)

\* A record comes or goes on top of the stack.
ScopeOk(f) ==
  /\ f.op \in Adding \cup Removing => scopes # <<>> /\ f.rec = scopes[Len(scopes)]
  /\ f.op \in Adding \cup Removing \cup InGroup =>
       f.rec # Null /\ KindOf(f.op, kind[f.rec])
  /\ f.op = "pop" /\ f.pc = "update" => f.cur = f.rec

ScopeInv == StackInv /\ ScopeOk(frame[Owner])

\* The record of the innermost scope is not in the list yet, or no longer.
Unlinked(f) ==
  \/ f.op \in Adding /\ f.pc \in {"add", "lock", "setbit", "update", "fire", "fired"}
  \/ f.op \in Adding /\ f.pc = "unlock" /\ f.flag
  \/ f.op \in Removing /\ f.pc = "unlock"

Height == IF Unlinked(frame[Owner]) THEN Len(scopes) - 1 ELSE Len(scopes)

\* The list is the stack, from its top.
LinkInv ==
  /\ status.record = IF Height = 0 THEN Null ELSE scopes[Height]
  /\ \A i \in 1..Height : parent[scopes[i]] = IF i = 1 THEN Null ELSE scopes[i - 1]

IsResumer(f) == f.nested \/ f.op = "resume"
Dependent == \E r \in Record : kind[r] = "dependency"

\* The flags of the status, the continuation and the job in each phase of the task
PhaseOk(f) ==
  /\ status.running => ~status.dependency /\ ~status.complete
  /\ status.enqueued => status.dependency
  /\ status.dependency => Dependent /\ ~status.complete /\ ~Unlinked(f)
  /\ Dependent /\ ~Unlinked(f) => status.dependency
  /\ status.complete => scopes = <<>> /\ f.pc = "idle"
  /\ f.op \in Working => status.running /\ continuation = "none" /\ ~Dependent
  /\ f.pc = "await" =>
       status.running /\ continuation \in {"Pending", "Resumed"} /\ ~Dependent
  /\ f.op = "suspend" =>
       /\ continuation \in {"none", "Pending", "Resumed"}
       /\ Unlinked(f) => status.running
       /\ ~status.enqueued
  /\ f.op = "enqueue" => continuation = "none" /\ (~Unlinked(f) => status.enqueued)
  /\ f.op = "run" => continuation = "none" /\ (f.pc = "unlock" => status.running)
  /\ f.op # "none" => ~job.queued
  /\ f.pc = "idle" => continuation \in {"none", "Awaited"}
  /\ f.pc = "idle" /\ ~status.running /\ ~status.dependency => scopes = <<>>
  /\ continuation = "Awaited" => f.pc = "idle" /\ status.dependency
  /\ continuation = "Awaited" /\ ~resumed => ~status.enqueued /\ ~job.queued
  /\ continuation \in {"none", "Pending"} => ~resumed
  /\ continuation = "Resumed" => resumed
  /\ job.queued => f.pc = "idle" /\ status.enqueued

\* One thread at most resumes the task.
ResumeInv ==
  \A t \in Thread : IsResumer(frame[t]) =>
    /\ continuation = "Awaited" /\ resumed /\ ~job.queued
    /\ status.enqueued <=> frame[t].pc \in {"unlock", "enqueue"}
    /\ \A u \in Thread : IsResumer(frame[u]) => u = t

StateInv == PhaseOk(frame[Owner]) /\ ResumeInv

\* The flag for executor preferences, and what the removal of the last one knows
PreferenceInv ==
  LET f == frame[Owner]
  IN /\ status.preference <=> \E r \in Linked : kind[r] = "preference"
     /\ f.op = "pop" /\ f.pc = "update" =>
          (f.flag <=> /\ kind[f.rec] = "preference"
                      /\ \A r \in Linked : kind[r] = "preference" => r = f.rec)

\* Where a thread is that goes through the list: before the first record, at cur, or past it
Place(f) ==
  IF f.op \notin {"cancel", "escalate"} THEN "none"
  ELSE IF f.nested \/ f.pc = "next" THEN "past"
  ELSE IF f.pc = "fn" THEN "at"
  ELSE IF f.pc \in {"lock", "setbit"} THEN "before" ELSE "none"

\* What it has before it
Ahead(t) ==
  LET f == frame[t]
  IN IF Place(f) = "before" THEN Linked
     ELSE IF Place(f) = "at" THEN ChainFrom(parent, f.cur)
     ELSE IF Place(f) = "past" THEN ChainFrom(parent, parent[f.cur])
     ELSE {}

WalkInv ==
  \A t \in Thread :
    frame[t].op \in {"cancel", "escalate"} =>
      /\ frame[t].pc \in {"fn", "next"} \/ frame[t].nested =>
           frame[t].cur \in Linked \cup {Null}
      /\ frame[t].pc = "next" \/ frame[t].nested =>
           frame[t].cur # Null /\ kind[frame[t].cur] = "cancel"

\* A task is cancelled once, and whom the canceller has before it has not run.
OnceInv ==
  /\ \A t \in Thread : frame[t].op = "cancel" =>
       /\ status.cancelled
       /\ \A u \in Thread : frame[u].op = "cancel" => u = t
       /\ \A r \in Ahead(t) : ran[r] = 0
  /\ \A r \in Record :
       /\ ran[r] <= 1
       /\ ~status.cancelled => ran[r] = 0
       /\ kind[r] # "cancel" => ran[r] = 0
  /\ frame[Owner].op \in Adding /\ Unlinked(frame[Owner]) =>
       /\ frame[Owner].pc # "fired" => ran[frame[Owner].rec] = 0
       /\ frame[Owner].pc \in {"unlock", "fire", "fired"} =>
            status.cancelled /\ kind[frame[Owner].rec] = "cancel"

\* Which record a child belongs to
ChildInv ==
  LET f == frame[Owner]
  IN /\ \A r, q \in Record : \A c \in children[r] \cap children[q] :
          r # q => kind[r] = "dependency" \/ kind[q] = "dependency"
     /\ \A r \in Record :
          children[r] # {} => kind[r] \in {"child", "group", "dependency"}
     /\ f.op \in {"attach", "detach"} => f.kid # Null
     /\ f.op = "attach" /\ f.pc \in {"lock", "setbit", "fn"} =>
          \A r \in Record : f.kid \notin children[r]
     /\ f.op = "detach" /\ f.pc \in {"lock", "setbit", "fn"} => f.kid \in children[f.rec]

AllCancelled(r) == \A c \in children[r] : child[c].cancelled

\* Cancellation has reached what the canceller does not have before it.
CancelInv ==
  LET f == frame[Owner]
  IN /\ \A r \in Linked :
          /\ status.cancelled
          /\ \A t \in Thread : frame[t].op = "cancel" => r \notin Ahead(t)
          => /\ kind[r] = "cancel" => ran[r] = 1
             /\ kind[r] # "dependency" => AllCancelled(r)
     /\ \A r \in Record :
          isCancelled[r] =>
            /\ kind[r] = "group"
            /\ \/ f.op = "cancelAll" /\ f.rec = r /\ f.pc \in {"lock", "setbit", "fn"}
               \/ AllCancelled(r)
     /\ f.op = "attach" /\ f.pc = "fn" /\ status.cancelled /\ ~f.old.cancelled =>
          \E t \in Thread : frame[t].op = "cancel" /\ frame[t].pc = "lock" /\ ~frame[t].nested

Target(r) ==
  IF kind[r] = "dependency" THEN status.priority
  ELSE withUserInteractivePriorityDowngrade(status.priority)

\* Whoever has raised the task to its present priority
Raiser(t) == frame[t].op = "escalate" /\ frame[t].prio = status.priority

\* A child is at the priority of the task, or before the thread that has raised it last.
RaiseInv ==
  LET f == frame[Owner]
  IN /\ \A r \in Linked : \A c \in children[r] :
          \/ child[c].priority >= Target(r)
          \/ \E t \in Thread : Raiser(t) /\ r \in Ahead(t)
     /\ f.op = "attach" /\ f.pc = "fn" =>
          \/ f.old.priority = status.priority
          \/ \E t \in Thread : Raiser(t) /\ frame[t].pc = "lock"

IInv ==
  /\ TypeOK
  /\ FrameInv
  /\ MutexInv
  /\ BitInv
  /\ ScopeInv
  /\ LinkInv
  /\ StateInv
  /\ PreferenceInv
  /\ WalkInv
  /\ OnceInv
  /\ ChildInv
  /\ CancelInv
  /\ RaiseInv

-----------------------------------------------------------------------------
(* The list of records *)

\* A set of naturals has a least member.
LEMMA LeastNatural ==
  ASSUME NEW S \in SUBSET Nat, S # {}
  PROVE  \E m \in S : \A k \in S : m <= k
<1>1. PICK m \in S : \A k \in S : <<k, m>> \notin OpToRel(<, Nat)
  BY NatLessThanWellFounded, WFMin, Zenon
<1>2. \A k \in S : ~(k < m)
  BY <1>1 DEF OpToRel
<1>. QED
  BY <1>2

Parents == [Record -> Record \cup {Null}]

\* The records reached from r are closed under the link.
LEMMA ChainHolds ==
  ASSUME NEW up \in Parents, NEW r \in Record \cup {Null}
  PROVE  HoldsChain(up, ChainFrom(up, r), r)
BY DEF HoldsChain, ChainFrom, Parents

\* They are within every set that has r and is closed under the link.
LEMMA ChainLeast ==
  ASSUME NEW up \in Parents, NEW r \in Record \cup {Null},
         NEW rs \in SUBSET Record, HoldsChain(up, rs, r)
  PROVE  ChainFrom(up, r) \subseteq rs
BY DEF ChainFrom

\* Nothing is reached from no record.
LEMMA ChainNothing ==
  ASSUME NEW up \in Parents
  PROVE  ChainFrom(up, Null) = {}
<1>1. HoldsChain(up, {}, Null)
  BY DEF HoldsChain
<1>. QED
  BY <1>1, ChainLeast

\* The first n records of a stack
Bottom(stack, n) == {stack[i] : i \in 1..n}

\* up leads down the first n records of the stack.
Leads(up, stack, n) ==
  \A i \in 1..n : up[stack[i]] = IF i = 1 THEN Null ELSE stack[i - 1]

\* A list that leads down a stack holds what is on the stack.
LEMMA ChainOfStack ==
  ASSUME NEW up \in Parents, NEW stack \in Seq(Record), NEW n \in 1..Len(stack),
         Leads(up, stack, n)
  PROVE  ChainFrom(up, stack[n]) = Bottom(stack, n)
<1>. DEFINE chain == ChainFrom(up, stack[n])
<1>1. /\ Len(stack) \in Nat /\ n \in Nat /\ n > 0
      /\ \A i \in 1..n : stack[i] \in Record
  OBVIOUS
<1>2. HoldsChain(up, Bottom(stack, n), stack[n])
  <2>1. stack[n] \in Bottom(stack, n)
    BY <1>1 DEF Bottom
  <2>2. ASSUME NEW i \in 1..n
        PROVE  up[stack[i]] \in Bottom(stack, n) \cup {Null}
    <3>1. CASE i = 1
      BY <3>1 DEF Leads
    <3>2. CASE i # 1
      <4>1. i - 1 \in 1..n
        BY <1>1, <3>2
      <4>2. up[stack[i]] = stack[i - 1]
        BY <3>2 DEF Leads
      <4>. QED
        BY <4>1, <4>2 DEF Bottom
    <3>. QED
      BY <3>1, <3>2
  <2>. QED
    BY <2>1, <2>2 DEF HoldsChain, Bottom
<1>3. chain \subseteq Bottom(stack, n)
  BY <1>1, <1>2, ChainLeast DEF Bottom
<1>4. HoldsChain(up, chain, stack[n])
  BY <1>1, ChainHolds
<1>5. stack[n] \in chain
  BY <1>1, <1>4, TaskAssumption DEF HoldsChain
<1>6. ASSUME NEW j \in 1..n, stack[j] \notin chain
      PROVE  FALSE
  <2>. DEFINE gap == {k \in 0..n - 1 : stack[n - k] \notin chain}
  <2>1. n - j \in gap
    BY <1>1, <1>6
  <2>10. gap \subseteq Nat
    BY <1>1
  <2>11. \E k \in gap : \A m \in gap : k <= m
    <3>. HIDE DEF gap
    <3>. QED
      BY <2>1, <2>10, LeastNatural
  <2>2. PICK k \in gap : \A m \in gap : k <= m
    BY <2>11
  <2>3. k # 0
    BY <1>1, <1>5, <2>2
  <2>4. k - 1 \in 0..n - 1
    BY <1>1, <2>2, <2>3
  <2>12. k - 1 \notin gap
    <3>. HIDE DEF gap
    <3>. QED
      BY <2>2, <2>10
  <2>. DEFINE i == n - (k - 1)
  <2>5. i \in 1..n /\ i # 1 /\ i - 1 = n - k
    BY <1>1, <2>2, <2>3
  <2>6. stack[i] \in chain
    BY <2>4, <2>12
  <2>7. up[stack[i]] = stack[n - k]
    BY <2>5 DEF Leads
  <2>8. stack[n - k] \in chain \cup {Null}
    BY <1>4, <2>6, <2>7 DEF HoldsChain
  <2>9. stack[n - k] \in Record
    BY <1>1, <2>2
  <2>. QED
    BY <2>2, <2>8, <2>9, TaskAssumption
<1>7. Bottom(stack, n) \subseteq chain
  BY <1>6 DEF Bottom
<1>. QED
  BY <1>3, <1>7

\* The list from the n-th record of a stack, or none
LEMMA ListOfStack ==
  ASSUME NEW up \in Parents, NEW stack \in Seq(Record), NEW n \in 0..Len(stack),
         Leads(up, stack, n)
  PROVE  ChainFrom(up, IF n = 0 THEN Null ELSE stack[n]) = Bottom(stack, n)
<1>1. CASE n = 0
  BY <1>1, ChainNothing DEF Bottom
<1>2. CASE n # 0
  <2>1. n \in 1..Len(stack)
    BY <1>2
  <2>. QED
    BY <1>2, <2>1, ChainOfStack
<1>. QED
  BY <1>1, <1>2

\* A record of the list comes before those that it leads to.
LEMMA ChainStep ==
  ASSUME NEW up \in Parents, NEW stack \in Seq(Record), NEW n \in 0..Len(stack),
         Leads(up, stack, n), NEW r \in Bottom(stack, n),
         \A i, j \in 1..Len(stack) : stack[i] = stack[j] => i = j
  PROVE  /\ ChainFrom(up, r) = {r} \cup ChainFrom(up, up[r])
         /\ r \notin ChainFrom(up, up[r])
         /\ up[r] \in Bottom(stack, n) \cup {Null}
         /\ ChainFrom(up, r) \subseteq Bottom(stack, n)
<1>1. Len(stack) \in Nat /\ n \in Nat
  OBVIOUS
<1>2. PICK m \in 1..n : r = stack[m]
  BY DEF Bottom
<1>3. /\ m \in 1..Len(stack) /\ m - 1 \in 0..Len(stack)
      /\ Leads(up, stack, m) /\ Leads(up, stack, m - 1)
  BY <1>1 DEF Leads
<1>4. ChainFrom(up, r) = Bottom(stack, m)
  BY <1>2, <1>3, ChainOfStack
<1>5. up[r] = IF m - 1 = 0 THEN Null ELSE stack[m - 1]
  BY <1>1, <1>2 DEF Leads
<1>6. ChainFrom(up, up[r]) = Bottom(stack, m - 1)
  BY <1>3, <1>5, ListOfStack
<1>7. /\ Bottom(stack, m) = {r} \cup Bottom(stack, m - 1)
      /\ r \notin Bottom(stack, m - 1)
  <2>1. \A i \in 1..m - 1 : i \in 1..m /\ stack[i] # stack[m]
    BY <1>1, <1>3
  <2>2. \A i \in 1..m : i = m \/ i \in 1..m - 1
    BY <1>1
  <2>. QED
    BY <1>2, <2>1, <2>2, <1>3 DEF Bottom
<1>8. up[r] \in Bottom(stack, n) \cup {Null}
  <2>1. CASE m = 1
    BY <1>5, <2>1
  <2>2. CASE m # 1
    <3>1. m - 1 \in 1..n /\ up[r] = stack[m - 1]
      BY <1>1, <1>5, <2>2
    <3>. QED
      BY <3>1 DEF Bottom
  <2>. QED
    BY <2>1, <2>2
<1>9. Bottom(stack, m) \subseteq Bottom(stack, n)
  BY <1>1 DEF Bottom
<1>. QED
  BY <1>4, <1>6, <1>7, <1>8, <1>9

\* Two references that lead down the same stack lead to the same records.
LEMMA ChainAgrees ==
  ASSUME NEW up \in Parents, NEW up2 \in Parents,
         NEW stack \in Seq(Record), NEW stack2 \in Seq(Record), NEW n \in Nat,
         n <= Len(stack), n <= Len(stack2), \A i \in 1..n : stack2[i] = stack[i],
         Leads(up, stack, n), Leads(up2, stack2, n),
         NEW r \in Bottom(stack, n) \cup {Null}
  PROVE  ChainFrom(up2, r) = ChainFrom(up, r) /\ (r # Null => up2[r] = up[r])
<1>1. Len(stack) \in Nat /\ Len(stack2) \in Nat
  OBVIOUS
<1>2. CASE r = Null
  BY <1>2, ChainNothing
<1>3. CASE r # Null
  <2>1. PICK m \in 1..n : r = stack[m]
    BY <1>3 DEF Bottom
  <2>2. /\ m \in 1..Len(stack) /\ m \in 1..Len(stack2) /\ stack2[m] = r
        /\ Leads(up, stack, m) /\ Leads(up2, stack2, m)
    BY <1>1, <2>1 DEF Leads
  <2>3. ChainFrom(up, r) = Bottom(stack, m) /\ ChainFrom(up2, r) = Bottom(stack2, m)
    BY <2>1, <2>2, ChainOfStack
  <2>4. Bottom(stack2, m) = Bottom(stack, m)
    BY <1>1 DEF Bottom
  <2>5. up2[r] = up[r]
    <3>1. CASE m = 1
      BY <2>1, <2>2, <3>1 DEF Leads
    <3>2. CASE m # 1
      <4>1. m - 1 \in 1..n
        BY <1>1, <3>2
      <4>2. up[r] = stack[m - 1] /\ up2[r] = stack2[m - 1]
        BY <1>1, <2>1, <2>2, <3>2 DEF Leads
      <4>. QED
        BY <4>1, <4>2
    <3>. QED
      BY <3>1, <3>2
  <2>. QED
    BY <2>3, <2>4, <2>5
<1>. QED
  BY <1>2, <1>3

\* The list is the stack of scopes, without a record that is on its way in or out.
LEMMA ListIsStack ==
  ASSUME TypeOK, FrameInv, ScopeInv, LinkInv
  PROVE  /\ parent \in Parents /\ Height \in Nat /\ Height <= Len(scopes)
         /\ Len(scopes) \in Nat /\ (Unlinked(frame[Owner]) => Len(scopes) > 0)
         /\ Leads(parent, scopes, Height)
         /\ Linked = Bottom(scopes, Height)
<1>1. parent \in Parents /\ scopes \in Seq(Record) /\ Len(scopes) \in Nat
  BY DEF TypeOK, Parents
<1>2. Unlinked(frame[Owner]) => Len(scopes) > 0
  <2>1. SUFFICES ASSUME Unlinked(frame[Owner])
                 PROVE  Len(scopes) > 0
    OBVIOUS
  <2>2. scopes # <<>>
    BY <2>1 DEF ScopeInv, ScopeOk, Unlinked
  <2>. QED
    BY <1>1, <2>2
<1>3. Height \in Nat /\ Height <= Len(scopes)
  BY <1>1, <1>2 DEF Height
<1>4. Leads(parent, scopes, Height)
  BY DEF LinkInv, Leads
<1>5. Height \in 0..Len(scopes)
  BY <1>1, <1>3
<1>6. Linked = Bottom(scopes, Height)
  BY <1>1, <1>4, <1>5, ListOfStack DEF LinkInv, Linked
<1>. QED
  BY <1>1, <1>2, <1>3, <1>4, <1>6
-----------------------------------------------------------------------------
(* What a step does to the calls *)

\* A thread moves to another place, the others stay.
LEMMA FrameMoves ==
  ASSUME frame \in [Thread -> Frame], FrameInv, NEW t \in Thread, NEW f \in Frame,
         FrameOk(t, f), frame' = [frame EXCEPT ![t] = f]
  PROVE  frame' \in [Thread -> Frame] /\ FrameInv'
<1>1. \A u \in Thread : frame'[u] = IF u = t THEN f ELSE frame[u]
  OBVIOUS
<1>2. frame' \in [Thread -> Frame]
  OBVIOUS
<1>. QED
  BY <1>1, <1>2 DEF FrameInv, FrameOk, PcsOf

\* A thread that is in no call
LEMMA NoCallOk == NoCall \in Frame /\ \A t \in Thread : FrameOk(t, NoCall)
<1>1. NoCall \in Frame
  BY TaskAssumption
  DEF NoCall, Frame, Load, Loaded, NewStatus, Pcs, Ops, Adding
<1>. QED
  BY <1>1 DEF NoCall, FrameOk, PcsOf

\* What a call keeps of a status it loads has its type.
LEMMA LoadOk == ASSUME status \in Status PROVE Load(status) \in Loaded
BY DEF Status, Load, Loaded

\* A call ends.
LEMMA ReturnOk ==
  ASSUME frame \in [Thread -> Frame], FrameInv, NEW t \in Thread, Return(t)
  PROVE  frame' \in [Thread -> Frame] /\ FrameInv'
BY NoCallOk, FrameMoves DEF Return

\* A call goes on to its next step.
LEMMA GotoOk ==
  ASSUME frame \in [Thread -> Frame], FrameInv, NEW t \in Thread, NEW pc \in Pcs,
         pc \in PcsOf(frame[t]) \ {"idle", "await"}, Goto(t, pc),
         frame[t].flag => \/ frame[t].op = "pop" /\ pc = "unlock"
                          \/ frame[t].op = "add" /\ pc = "fired"
  PROVE  frame' \in [Thread -> Frame] /\ FrameInv'
<1>. DEFINE f == [frame[t] EXCEPT !.pc = pc]
<1>1. frame' = [frame EXCEPT ![t] = f]
  BY DEF Goto
<1>2. f \in Frame /\ f.pc = pc
  BY DEF Frame
<1>3. /\ f.op = frame[t].op /\ f.nested = frame[t].nested /\ f.flag = frame[t].flag
      /\ PcsOf(f) = PcsOf(frame[t])
  BY DEF Frame, PcsOf
<1>4. FrameOk(t, frame[t])
  BY DEF FrameInv
<1>5. FrameOk(t, f)
  BY <1>2, <1>3, <1>4 DEF FrameOk
<1>. QED
  BY <1>1, <1>2, <1>5, FrameMoves

\* A call begins.
LEMMA CallOk ==
  ASSUME frame \in [Thread -> Frame], FrameInv, NEW t \in Thread, NEW f \in Frame,
         f.pc \in {"add", "remove", "lock"}, ~f.nested, ~f.flag,
         IF t = Owner THEN f.op \notin {"none", "escalate", "resume"}
         ELSE f.op \in {"cancel", "escalate", "resume"},
         f.pc = "add" => f.op \in Adding,
         f.pc = "remove" => f.op \in {"remove", "run"},
         frame' = [frame EXCEPT ![t] = f]
  PROVE  frame' \in [Thread -> Frame] /\ FrameInv'
<1>1. f.pc \in PcsOf(f)
  <2>1. CASE f.pc = "add"
    BY <2>1 DEF PcsOf, Adding
  <2>2. CASE f.pc = "remove"
    BY <2>2 DEF PcsOf
  <2>3. CASE f.pc = "lock"
    BY <2>3 DEF PcsOf
  <2>. QED
    BY <2>1, <2>2, <2>3
<1>2. FrameOk(t, f)
  BY <1>1 DEF FrameOk
<1>. QED
  BY <1>2, FrameMoves

RecordTypes ==
  /\ kind \in [Record -> Kinds]
  /\ parent \in [Record -> Record \cup {Null}]
  /\ children \in [Record -> SUBSET Child]
  /\ isCancelled \in [Record -> BOOLEAN]
  /\ child \in [Child -> [cancelled: BOOLEAN, priority: JobPriority \cup {UserInitiated}]]
  /\ ran \in [Record -> Nat]
  /\ scopes \in Seq(Record)

AwaitTypes ==
  /\ continuation \in {"none", "Pending", "Awaited", "Resumed"}
  /\ resumed \in BOOLEAN
  /\ job \in [queued: BOOLEAN, priority: JobPriority]

\* Only the task itself adds and removes records.
LEMMA OwnerAdds ==
  ASSUME frame \in [Thread -> Frame], FrameInv, ScopeInv, NEW t \in Thread,
         \/ Op(t) \in Adding \cup Removing
         \/ frame[t].pc \in {"add", "remove", "fire", "fired"}
  PROVE  /\ t = Owner /\ Op(t) = frame[t].op /\ ~frame[t].nested
         /\ frame[t].op \in Adding \cup Removing /\ frame[t].rec \in Record
         /\ frame[t].pc \in {"add", "fire", "fired"} => frame[t].op \in Adding
         /\ frame[t].pc = "remove" => frame[t].op \in {"remove", "run"}
<1>1. ~frame[t].nested
  BY DEF FrameInv, FrameOk, PcsOf, Op, Adding, Removing
<1>2. FrameOk(t, frame[t]) /\ Op(t) = frame[t].op
  BY <1>1 DEF FrameInv, Op
<1>3. frame[t].op \in Adding \cup Removing
  BY <1>1, <1>2 DEF FrameOk, PcsOf, Adding, Removing
<1>4. t = Owner
  BY <1>2, <1>3 DEF FrameOk, Adding, Removing
<1>5. frame[t].rec \in Record
  BY <1>3, <1>4 DEF ScopeInv, ScopeOk, Frame
<1>6. /\ frame[t].pc \in {"add", "fire", "fired"} => frame[t].op \in Adding
      /\ frame[t].pc = "remove" => frame[t].op \in {"remove", "run"}
  BY <1>1, <1>2, <1>3 DEF FrameOk, PcsOf, Adding, Removing
<1>. QED
  BY <1>1, <1>2, <1>3, <1>4, <1>5, <1>6

\* Only the task itself works on a group.
LEMMA OwnerAttaches ==
  ASSUME frame \in [Thread -> Frame], FrameInv, ScopeInv, ChildInv, NEW t \in Thread,
         Op(t) \in InGroup
  PROVE  /\ t = Owner /\ Op(t) = frame[t].op /\ ~frame[t].nested
         /\ frame[t].rec \in Record /\ kind[frame[t].rec] = "group"
         /\ frame[t].op # "cancelAll" => frame[t].kid \in Child
<1>1. ~frame[t].nested
  BY DEF Op, InGroup
<1>2. FrameOk(t, frame[t]) /\ Op(t) = frame[t].op
  BY <1>1 DEF FrameInv, Op
<1>3. t = Owner
  BY <1>2 DEF FrameOk, InGroup
<1>4. /\ frame[t].rec \in Record \cup {Null} /\ frame[t].rec # Null
      /\ KindOf(frame[t].op, kind[frame[t].rec])
  BY <1>2, <1>3 DEF ScopeInv, ScopeOk, Frame
<1>5. kind[frame[t].rec] = "group"
  BY <1>2, <1>4 DEF KindOf, InGroup
<1>6. frame[t].op # "cancelAll" => frame[t].kid \in Child
  BY <1>2, <1>3 DEF ChildInv, Frame, InGroup
<1>. QED
  BY <1>1, <1>2, <1>3, <1>4, <1>5, <1>6

-----------------------------------------------------------------------------
(* The mutex and the lock bit *)

\* What a step outside the locking leaves alone
SameHold(f, g) == Depth(g) = Depth(f) /\ (HasBit(g) <=> HasBit(f)) /\ BitOk(g)

\* A step of one thread leaves the mutex and the bit to whoever else has them.
LEMMA HoldKept ==
  ASSUME TypeOK, MutexInv, BitInv, UNCHANGED mutex, status'.locked = status.locked,
         \A u \in Thread : SameHold(frame[u], frame'[u])
  PROVE  MutexInv' /\ BitInv'
<1>1. mutex.holder \in Thread \cup {Null}
  BY DEF TypeOK
<1>2. MutexInv'
  BY <1>1 DEF MutexInv, SameHold
<1>3. BitInv'
  BY <1>1 DEF BitInv, SameHold
<1>. QED
  BY <1>2, <1>3

-----------------------------------------------------------------------------
(* The stack of scopes and the list of records *)

\* Below the list's new top nothing has changed.
SameBelow ==
  /\ Height' <= Len(scopes) /\ Height' <= Len(scopes')
  /\ \A i \in 1..Height' : scopes'[i] = scopes[i] /\ kind'[scopes[i]] = kind[scopes[i]]

StackGoal == ScopeInv' /\ LinkInv' /\ SameBelow

\* The step does not touch the stack, and the task's own call goes on.
SameScope(f, g) ==
  /\ g.op = f.op /\ g.rec = f.rec
  /\ g.op = "pop" /\ g.pc = "update" => g.cur = g.rec
  /\ Unlinked(g) <=> Unlinked(f)

\* The stack, the list and the owner's call untouched, their invariants stay.
LEMMA StackKept ==
  ASSUME TypeOK, FrameInv, ScopeInv, LinkInv, UNCHANGED <<kind, parent, scopes>>,
         status'.record = status.record,
         \/ SameScope(frame[Owner], frame'[Owner])
         \/ ScopeOk(frame'[Owner]) /\ ~Unlinked(frame[Owner]) /\ ~Unlinked(frame'[Owner])
  PROVE  StackGoal
<1>1. Unlinked(frame'[Owner]) <=> Unlinked(frame[Owner])
  BY DEF SameScope
<1>2. Height' = Height
  BY <1>1 DEF Height
<1>3. ScopeInv'
  <2>1. StackInv'
    BY DEF ScopeInv, StackInv
  <2>2. ScopeOk(frame'[Owner])
    BY DEF ScopeInv, ScopeOk, SameScope
  <2>. QED
    BY <2>1, <2>2 DEF ScopeInv, ScopeOk
<1>4. LinkInv'
  BY <1>2 DEF LinkInv
<1>5. SameBelow
  BY <1>2, ListIsStack DEF SameBelow
<1>. QED
  BY <1>3, <1>4, <1>5 DEF StackGoal

\* A call to add a record begins: the record is on the stack and not in the list.
LEMMA StackStarts ==
  ASSUME TypeOK, FrameInv, ScopeInv, LinkInv, ~Dependent, frame[Owner].op = "none",
         NEW r \in Record, NEW k, k # "free", NEW op \in Adding, KindOf(op, k), NEW kids,
         StartAdd(r, k, op, kids)
  PROVE  StackGoal
<1>. DEFINE n == Len(scopes)
<1>1. /\ n \in Nat /\ scopes \in Seq(Record) /\ r # Null /\ kind \in [Record -> Kinds]
      /\ frame \in [Thread -> Frame] /\ Owner \in Thread /\ StackInv
      /\ \A i \in 1..n : scopes[i] \in Record
  BY TaskAssumption DEF TypeOK, Thread, ScopeInv
<1>2. /\ scopes' = Append(scopes, r) /\ kind' = [kind EXCEPT ![r] = k]
      /\ UNCHANGED <<status, parent>> /\ kind[r] = "free"
  BY DEF StartAdd
<1>3. /\ frame'[Owner].op = op /\ frame'[Owner].pc = "add" /\ frame'[Owner].rec = r
  BY <1>1 DEF StartAdd, NoCall
<1>4. /\ Len(scopes') = n + 1 /\ scopes'[n + 1] = r
      /\ \A i \in 1..n : scopes'[i] = scopes[i]
  BY <1>1, <1>2
<1>5. ~Unlinked(frame[Owner]) /\ Unlinked(frame'[Owner])
  BY <1>3 DEF Unlinked, Adding, Removing
<1>6. Height = n /\ Height' = n
  BY <1>1, <1>4, <1>5 DEF Height
<1>7. \A i \in 1..n : scopes[i] # r /\ kind'[scopes[i]] = kind[scopes[i]]
                      /\ kind[scopes[i]] # "dependency"
  BY <1>1, <1>2 DEF StackInv, Dependent
<1>8. StackInv'
  <2>1. \A i, j \in 1..n + 1 : scopes'[i] = scopes'[j] => i = j
    <3>1. \A i \in 1..n + 1 : i = n + 1 \/ i \in 1..n
      BY <1>1
    <3>. QED
      BY <1>1, <1>4, <1>7, <3>1 DEF StackInv
  <2>2. ASSUME NEW q \in Record
        PROVE  kind'[q] # "free" <=> \E i \in 1..n + 1 : scopes'[i] = q
    <3>1. CASE q = r
      BY <1>1, <1>2, <1>4, <3>1
    <3>2. CASE q # r
      <4>1. kind'[q] = kind[q]
        BY <1>1, <1>2, <3>2
      <4>2. (\E i \in 1..n + 1 : scopes'[i] = q) <=> (\E i \in 1..n : scopes[i] = q)
        <5>1. \A i \in 1..n + 1 : i = n + 1 \/ i \in 1..n
          BY <1>1
        <5>2. \A i \in 1..n : i \in 1..n + 1
          BY <1>1
        <5>. QED
          BY <1>4, <3>2, <5>1, <5>2
      <4>. QED
        BY <1>1, <4>1, <4>2 DEF StackInv
    <3>. QED
      BY <3>1, <3>2
  <2>3. \A i \in 1..n + 1 : kind'[scopes'[i]] = "dependency" => i = n + 1
    <3>1. \A i \in 1..n + 1 : i = n + 1 \/ i \in 1..n
      BY <1>1
    <3>. QED
      BY <1>4, <1>7, <3>1
  <2>. QED
    BY <1>4, <2>1, <2>2, <2>3 DEF StackInv
<1>9. ScopeOk(frame[Owner])'
  <2>1. kind'[r] = k
    BY <1>1, <1>2
  <2>2. scopes' # <<>>
    BY <1>1, <1>2
  <2>. QED
    BY <1>1, <1>3, <1>4, <2>1, <2>2 DEF ScopeOk, Adding
<1>10. LinkInv'
  <2>1. status'.record = IF n = 0 THEN Null ELSE scopes'[n]
    BY <1>1, <1>2, <1>4, <1>6 DEF LinkInv
  <2>2. \A i \in 1..n : parent'[scopes'[i]] = IF i = 1 THEN Null ELSE scopes'[i - 1]
    <3>1. \A i \in 1..n : i # 1 => i - 1 \in 1..n
      BY <1>1
    <3>. QED
      BY <1>2, <1>4, <1>6, <3>1 DEF LinkInv
  <2>. QED
    BY <1>6, <2>1, <2>2 DEF LinkInv
<1>. QED
  BY <1>1, <1>4, <1>6, <1>7, <1>8, <1>9, <1>10 DEF StackGoal, ScopeInv, SameBelow

\* The memory of the innermost scope's record is given back, and its call ends.
LEMMA StackPops ==
  ASSUME TypeOK, FrameInv, ScopeInv, LinkInv, frame[Owner].op \in Adding \cup Removing,
         Dealloc(frame[Owner].rec), frame'[Owner] = NoCall,
         status'.record = IF Unlinked(frame[Owner]) THEN status.record
                          ELSE parent[frame[Owner].rec]
  PROVE  StackGoal
<1>. DEFINE n == Len(scopes)
            r == frame[Owner].rec
<1>1. /\ n \in Nat /\ scopes \in Seq(Record) /\ kind \in [Record -> Kinds]
      /\ parent \in Parents /\ StackInv
      /\ \A i \in 1..n : scopes[i] \in Record
  BY DEF TypeOK, ScopeInv, Parents
<1>2. n > 0 /\ r = scopes[n]
  BY <1>1 DEF ScopeInv, ScopeOk
<1>3. /\ Len(scopes') = n - 1
      /\ \A i \in 1..n - 1 : scopes'[i] = scopes[i]
  <2>1. scopes' = [i \in 1..n - 1 |-> scopes[i]]
    BY DEF Dealloc
  <2>. QED
    BY <1>1, <1>2, <2>1
<1>4. \A i \in 1..n - 1 : i \in 1..n /\ scopes[i] # r
  BY <1>1, <1>2 DEF StackInv
<1>5. /\ \A i \in 1..n - 1 : kind'[scopes[i]] = kind[scopes[i]]
                              /\ parent'[scopes[i]] = parent[scopes[i]]
      /\ kind' = [kind EXCEPT ![r] = "free"]
  BY <1>1, <1>4 DEF Dealloc, Parents
<1>6. ~Unlinked(frame'[Owner]) /\ ScopeOk(frame[Owner])'
  BY DEF NoCall, Unlinked, Adding, Removing, InGroup, ScopeOk
<1>7. Height' = n - 1
  BY <1>1, <1>2, <1>3, <1>6 DEF Height
<1>8. StackInv'
  <2>1. \A i \in 1..n : i = n \/ i \in 1..n - 1
    BY <1>1
  <2>2. \A i, j \in 1..n - 1 : scopes'[i] = scopes'[j] => i = j
    BY <1>1, <1>3, <1>4 DEF StackInv
  <2>3. ASSUME NEW q \in Record
        PROVE  kind'[q] # "free" <=> \E i \in 1..n - 1 : scopes'[i] = q
    <3>1. CASE q = r
      BY <1>1, <1>3, <1>4, <1>5, <3>1
    <3>2. CASE q # r
      <4>1. kind'[q] = kind[q]
        BY <1>1, <1>5, <3>2
      <4>2. (\E i \in 1..n - 1 : scopes'[i] = q) <=> (\E i \in 1..n : scopes[i] = q)
        BY <1>2, <1>3, <1>4, <2>1, <3>2
      <4>. QED
        BY <1>1, <4>1, <4>2 DEF StackInv
    <3>. QED
      BY <3>1, <3>2
  <2>4. \A i \in 1..n - 1 : kind'[scopes'[i]] # "dependency"
    <3>1. \A i \in 1..n - 1 : kind[scopes[i]] # "dependency"
      BY <1>1, <1>4 DEF StackInv
    <3>. QED
      BY <1>3, <1>5, <3>1
  <2>. QED
    BY <1>3, <2>2, <2>3, <2>4 DEF StackInv
<1>9. LinkInv'
  <2>1. status'.record = IF n - 1 = 0 THEN Null ELSE scopes[n - 1]
    <3>1. CASE Unlinked(frame[Owner])
      BY <1>1, <1>2, <3>1 DEF LinkInv, Height
    <3>2. CASE ~Unlinked(frame[Owner])
      <4>1. Height = n /\ n \in 1..n
        BY <1>1, <1>2, <3>2 DEF Height
      <4>2. parent[scopes[n]] = IF n = 1 THEN Null ELSE scopes[n - 1]
        BY <4>1 DEF LinkInv
      <4>. QED
        BY <1>1, <1>2, <3>2, <4>2
    <3>. QED
      BY <3>1, <3>2
  <2>2. \A i \in 1..n - 1 : parent[scopes[i]] = IF i = 1 THEN Null ELSE scopes[i - 1]
    <3>1. Height = n \/ Height = n - 1
      BY DEF Height
    <3>2. \A i \in 1..n - 1 : i \in 1..Height
      BY <1>1, <3>1
    <3>. QED
      BY <3>2 DEF LinkInv
  <2>3. \A i \in 1..n - 1 : i # 1 => i - 1 \in 1..n - 1
    BY <1>1
  <2>7. n \in Nat /\ n > 0
    BY <1>1, <1>2
  <2>4. n - 1 # 0 => n - 1 \in 1..n - 1
    <3>. HIDE DEF n
    <3>. QED
      BY <2>7
  <2>5. \A i \in 1..n - 1 : parent'[scopes'[i]] = IF i = 1 THEN Null ELSE scopes'[i - 1]
    BY <1>3, <1>5, <2>2, <2>3
  <2>6. status'.record = IF n - 1 = 0 THEN Null ELSE scopes'[n - 1]
    BY <1>3, <2>1, <2>4
  <2>. QED
    BY <1>7, <2>5, <2>6 DEF LinkInv
<1>. QED
  BY <1>1, <1>3, <1>5, <1>6, <1>7, <1>8, <1>9 DEF StackGoal, ScopeInv, SameBelow

\* A record is put on top of the list.
LEMMA StackLinks ==
  ASSUME TypeOK, FrameInv, ScopeInv, LinkInv, frame[Owner].op \in Adding,
         Unlinked(frame[Owner]), ~Unlinked(frame'[Owner]), ScopeOk(frame'[Owner]),
         NEW s, s.record = status.record, Emplace(Owner, s),
         status'.record = frame[Owner].rec, UNCHANGED <<kind, scopes>>
  PROVE  StackGoal
<1>. DEFINE n == Len(scopes)
            r == frame[Owner].rec
<1>1. /\ n \in Nat /\ parent \in Parents /\ StackInv
      /\ \A i \in 1..n : scopes[i] \in Record
  BY DEF TypeOK, ScopeInv, Parents
<1>2. n > 0 /\ n \in 1..n /\ r = scopes[n]
  BY <1>1 DEF ScopeInv, ScopeOk, TypeOK
<1>3. parent' = [parent EXCEPT ![r] = status.record]
  BY DEF Emplace
<1>4. Height = n - 1 /\ Height' = n
  BY DEF Height
<1>5. \A i \in 1..n - 1 : i \in 1..n /\ scopes[i] # r
  BY <1>1, <1>2 DEF StackInv
<1>6. LinkInv'
  <2>1. status'.record = scopes[n]
    BY <1>2
  <2>2. \A i \in 1..n - 1 : parent'[scopes[i]] = IF i = 1 THEN Null ELSE scopes[i - 1]
    <3>1. \A i \in 1..n - 1 : parent'[scopes[i]] = parent[scopes[i]]
      BY <1>1, <1>2, <1>3, <1>5 DEF Parents
    <3>. QED
      BY <1>4, <3>1 DEF LinkInv
  <2>3. parent'[scopes[n]] = IF n = 1 THEN Null ELSE scopes[n - 1]
    BY <1>1, <1>2, <1>3, <1>4 DEF LinkInv, Parents
  <2>4. \A i \in 1..n : i = n \/ i \in 1..n - 1
    BY <1>1
  <2>. QED
    BY <1>2, <1>4, <2>1, <2>2, <2>3, <2>4 DEF LinkInv
<1>7. ScopeInv'
  BY DEF ScopeInv, StackInv, ScopeOk
<1>. QED
  BY <1>1, <1>4, <1>6, <1>7 DEF StackGoal, SameBelow

\* The top of the list is cut off; its memory is given back later.
LEMMA StackUnlinks ==
  ASSUME TypeOK, FrameInv, ScopeInv, LinkInv, frame[Owner].op \in Adding \cup Removing,
         ~Unlinked(frame[Owner]), Unlinked(frame'[Owner]), ScopeOk(frame'[Owner]),
         UNCHANGED <<kind, parent, scopes>>, status'.record = parent[frame[Owner].rec]
  PROVE  StackGoal
<1>. DEFINE n == Len(scopes)
            r == frame[Owner].rec
<1>1. /\ n \in Nat /\ \A i \in 1..n : scopes[i] \in Record
  BY DEF TypeOK
<1>2. n > 0 /\ n \in 1..n /\ r = scopes[n]
  BY <1>1 DEF ScopeInv, ScopeOk, TypeOK
<1>3. Height = n /\ Height' = n - 1
  BY DEF Height
<1>4. \A i \in 1..n - 1 : i \in 1..n
  BY <1>1
<1>5. LinkInv'
  <2>1. status'.record = IF n = 1 THEN Null ELSE scopes[n - 1]
    BY <1>2, <1>3 DEF LinkInv
  <2>. QED
    BY <1>1, <1>3, <1>4, <2>1 DEF LinkInv
<1>6. ScopeInv'
  BY DEF ScopeInv, StackInv, ScopeOk
<1>. QED
  BY <1>1, <1>3, <1>4, <1>5, <1>6 DEF StackGoal, SameBelow

SameChain(q) ==
  /\ ChainFrom(parent', q) = ChainFrom(parent, q)
  /\ q # Null => parent'[q] = parent[q] /\ kind'[q] = kind[q]

ListKept ==
  /\ Linked' = Linked
  /\ \A q \in Linked \cup {Null} : SameChain(q)

Links(r) ==
  /\ r \notin Linked /\ Linked' = Linked \cup {r}
  /\ \A q \in Linked \cup {Null} : SameChain(q)

Unlinks(r) ==
  /\ r \in Linked /\ Linked' = Linked \ {r}
  /\ \A q \in Linked' \cup {Null} : SameChain(q)

ListOnStack ==
  /\ Height \in Nat /\ Height <= Len(scopes)
  /\ Leads(parent, scopes, Height)
  /\ Linked = Bottom(scopes, Height)

\* The list is the stack of scopes, without the record of a call that has yet to publish it.
LEMMA StackHolds == TypeOK /\ FrameInv /\ ScopeInv /\ LinkInv => ListOnStack
BY ListIsStack DEF ListOnStack

\* What a step on the stack does to the list
LEMMA ListStep ==
  ASSUME TypeOK, TypeOK', FrameInv, FrameInv', ScopeInv, LinkInv, StackGoal
  PROVE  /\ Height' = Height => ListKept
         /\ Height' = Height + 1 => Links(scopes[Height'])
         /\ Height' = Height - 1 => Unlinks(scopes[Height])
         /\ status'.record = status.record => Height' = Height
<1>1. /\ parent \in Parents /\ scopes \in Seq(Record) /\ Len(scopes) \in Nat
      /\ Height \in Nat /\ Height <= Len(scopes)
      /\ Leads(parent, scopes, Height) /\ Linked = Bottom(scopes, Height)
  BY ListIsStack DEF TypeOK
<1>2. /\ parent' \in Parents /\ scopes' \in Seq(Record) /\ Len(scopes)' \in Nat
      /\ Height' \in Nat /\ Height' <= Len(scopes')
      /\ Leads(parent, scopes, Height)' /\ Linked' = Bottom(scopes, Height)'
  <2>1. ScopeInv' /\ LinkInv'
    BY DEF StackGoal
  <2>2. parent' \in Parents /\ scopes' \in Seq(Record) /\ Len(scopes)' \in Nat
    BY DEF TypeOK, Parents
  <2>3. ListOnStack'
    BY <2>1, StackHolds, PTL
  <2>. QED
    BY <2>2, <2>3 DEF ListOnStack
<1>3. /\ Height' <= Len(scopes)
      /\ \A i \in 1..Height' : scopes'[i] = scopes[i] /\ kind'[scopes[i]] = kind[scopes[i]]
  BY DEF StackGoal, SameBelow
<1>4. \A i, j \in 1..Len(scopes) : scopes[i] = scopes[j] => i = j
  BY DEF ScopeInv, StackInv
<1>5. ASSUME NEW m \in Nat, m <= Height, m <= Height'
      PROVE  \A q \in Bottom(scopes, m) \cup {Null} : SameChain(q)
  <2>1. SUFFICES ASSUME NEW q \in Bottom(scopes, m) \cup {Null}
                 PROVE  SameChain(q)
    OBVIOUS
  <2>2. m <= Len(scopes) /\ m <= Len(scopes') /\ \A i \in 1..m : scopes'[i] = scopes[i]
    BY <1>1, <1>2, <1>3, <1>5
  <2>3. Leads(parent, scopes, m) /\ Leads(parent', scopes', m)
    BY <1>1, <1>2, <1>5 DEF Leads
  <2>4. ChainFrom(parent', q) = ChainFrom(parent, q) /\ (q # Null => parent'[q] = parent[q])
    BY <1>1, <1>2, <2>2, <2>3, ChainAgrees
  <2>5. q # Null => kind'[q] = kind[q]
    BY <1>2, <1>3, <1>5 DEF Bottom
  <2>. QED
    BY <2>4, <2>5 DEF SameChain
<1>6. Linked' = Bottom(scopes, Height')
  BY <1>2, <1>3 DEF Bottom
<1>7. Height' = Height => ListKept
  BY <1>1, <1>5, <1>6 DEF ListKept
<1>8. ASSUME NEW m \in Nat, m + 1 <= Len(scopes)
      PROVE  /\ scopes[m + 1] \notin Bottom(scopes, m)
             /\ Bottom(scopes, m + 1) = Bottom(scopes, m) \cup {scopes[m + 1]}
  <2>1. \A i \in 1..m : i \in 1..Len(scopes) /\ i # m + 1 /\ i \in 1..m + 1
    BY <1>1, <1>8
  <2>2. m + 1 \in 1..Len(scopes) /\ m + 1 \in 1..m + 1
    BY <1>1, <1>8
  <2>3. \A i \in 1..m + 1 : i = m + 1 \/ i \in 1..m
    OBVIOUS
  <2>. QED
    BY <1>4, <2>1, <2>2, <2>3 DEF Bottom
<1>9. Height' = Height + 1 => Links(scopes[Height'])
  BY <1>1, <1>2, <1>3, <1>5, <1>6, <1>8 DEF Links
<1>10. Height' = Height - 1 => Unlinks(scopes[Height])
  <2>1. SUFFICES ASSUME Height' = Height - 1
                 PROVE  Unlinks(scopes[Height])
    OBVIOUS
  <2>2. Height = Height' + 1 /\ Height' + 1 <= Len(scopes)
    BY <1>1, <1>2, <2>1
  <2>3. /\ scopes[Height] \notin Linked'
        /\ Linked = Linked' \cup {scopes[Height]}
    BY <1>1, <1>2, <1>6, <1>8, <2>2
  <2>4. \A q \in Linked' \cup {Null} : SameChain(q)
    BY <1>1, <1>2, <1>5, <1>6, <2>1
  <2>. QED
    BY <2>3, <2>4 DEF Unlinks
<1>11. ASSUME status'.record = status.record
       PROVE  Height' = Height
  <2>1. /\ status.record = IF Height = 0 THEN Null ELSE scopes[Height]
        /\ status'.record = IF Height' = 0 THEN Null ELSE scopes'[Height']
    BY DEF StackGoal, LinkInv
  <2>2. \A i \in 1..Len(scopes) : scopes[i] # Null
    BY <1>1, TaskAssumption
  <2>3. /\ Height # 0 => Height \in 1..Len(scopes)
        /\ Height' # 0 => Height' \in 1..Len(scopes) /\ Height' \in 1..Height'
    BY <1>1, <1>2, <1>3
  <2>4. Height' # 0 => scopes'[Height'] = scopes[Height']
    BY <1>3, <2>3
  <2>. QED
    BY <1>4, <1>11, <2>1, <2>2, <2>3, <2>4
<1>. QED
  BY <1>7, <1>9, <1>10, <1>11

\* Every call is where its kind can be.
LEMMA FrameStep ==
  ASSUME TypeOK, FrameInv, ScopeInv, StateInv, WalkInv, Next
  PROVE  frame' \in [Thread -> Frame] /\ FrameInv'
<1>1. /\ TypeOK /\ FrameInv /\ frame \in [Thread -> Frame] /\ Owner \in Thread
      /\ status \in Status /\ ScopeInv /\ StateInv /\ WalkInv
  BY DEF TypeOK, Thread
<1>2. /\ Load(status) \in Loaded /\ NoCall.old \in Loaded
      /\ BasePriority \in JobPriority
  BY <1>1, LoadOk, NoCallOk, TaskAssumption DEF Frame
<1>3. ASSUME NEW r \in Record, NEW k \in {"cancel", "escalation", "group", "preference"},
             EnterScope(r, k)
      PROVE  frame' \in [Thread -> Frame] /\ FrameInv'
  <2>. DEFINE f == [NoCall EXCEPT !.pc = "add", !.op = "add", !.rec = r, !.old = Load(status)]
  <2>1. frame' = [frame EXCEPT ![Owner] = f]
    BY <1>3 DEF EnterScope, StartAdd
  <2>2. /\ f \in Frame /\ f.pc = "add" /\ f.op = "add"
        /\ ~f.nested /\ ~f.flag
    BY <1>1, <1>2, NoCallOk DEF Frame, NoCall, Pcs, Ops, Adding
  <2>. HIDE DEF f
  <2>. QED
    BY <1>1, <2>1, <2>2, CallOk DEF Adding
<1>4. ASSUME NEW r \in Record, NEW c \in Child, AsyncLet(r, c)
      PROVE  frame' \in [Thread -> Frame] /\ FrameInv'
  <2>. DEFINE f == [NoCall EXCEPT !.pc = "add", !.op = "add", !.rec = r, !.old = Load(status)]
  <2>1. frame' = [frame EXCEPT ![Owner] = f]
    BY <1>4 DEF AsyncLet, StartAdd
  <2>2. /\ f \in Frame /\ f.pc = "add" /\ f.op = "add"
        /\ ~f.nested /\ ~f.flag
    BY <1>1, <1>2, NoCallOk DEF Frame, NoCall, Pcs, Ops, Adding
  <2>. HIDE DEF f
  <2>. QED
    BY <1>1, <2>1, <2>2, CallOk DEF Adding
<1>5. ASSUME NEW r \in Record, FlagAsAndEnqueueOnExecutor(r)
      PROVE  frame' \in [Thread -> Frame] /\ FrameInv'
  <2>. DEFINE f == [NoCall EXCEPT !.pc = "add", !.op = "enqueue", !.rec = r,
                                  !.old = Load(status)]
  <2>1. frame' = [frame EXCEPT ![Owner] = f]
    BY <1>5 DEF FlagAsAndEnqueueOnExecutor, StartAdd
  <2>2. /\ f \in Frame /\ f.pc = "add" /\ f.op = "enqueue"
        /\ ~f.nested /\ ~f.flag
    BY <1>1, <1>2, NoCallOk DEF Frame, NoCall, Pcs, Ops, Adding
  <2>. HIDE DEF f
  <2>. QED
    BY <1>1, <2>1, <2>2, CallOk DEF Adding
<1>6. ASSUME ExitScope
      PROVE  frame' \in [Thread -> Frame] /\ FrameInv'
  <2>. DEFINE f == [NoCall EXCEPT !.pc = "remove", !.op = "remove", !.rec = scopes[Len(scopes)]]
  <2>9. scopes[Len(scopes)] \in Record
    BY <1>6, <1>1 DEF ExitScope, TypeOK
  <2>1. frame' = [frame EXCEPT ![Owner] = f]
    BY <1>6 DEF ExitScope
  <2>2. /\ f \in Frame /\ f.pc = "remove" /\ f.op = "remove"
        /\ ~f.nested /\ ~f.flag
    BY <1>1, <1>2, <2>9, NoCallOk DEF Frame, NoCall, Pcs, Ops, Adding
  <2>. HIDE DEF f
  <2>. QED
    BY <1>1, <2>1, <2>2, CallOk DEF Adding
<1>7. ASSUME PopScope
      PROVE  frame' \in [Thread -> Frame] /\ FrameInv'
  <2>. DEFINE f == [NoCall EXCEPT !.pc = "lock", !.op = "pop", !.rec = scopes[Len(scopes)],
                                  !.old = Load(status)]
  <2>9. scopes[Len(scopes)] \in Record
    BY <1>7, <1>1 DEF PopScope, TypeOK
  <2>1. frame' = [frame EXCEPT ![Owner] = f]
    BY <1>7 DEF PopScope
  <2>2. /\ f \in Frame /\ f.pc = "lock" /\ f.op = "pop"
        /\ ~f.nested /\ ~f.flag
    BY <1>1, <1>2, <2>9, NoCallOk DEF Frame, NoCall, Pcs, Ops, Adding
  <2>. HIDE DEF f
  <2>. QED
    BY <1>1, <2>1, <2>2, CallOk DEF Adding
<1>8. ASSUME NEW r \in Record, NEW c \in Child, AttachChild(r, c)
      PROVE  frame' \in [Thread -> Frame] /\ FrameInv'
  <2>. DEFINE f == [NoCall EXCEPT !.pc = "lock", !.op = "attach", !.rec = r, !.kid = c,
                                  !.old = Load(status)]
  <2>1. frame' = [frame EXCEPT ![Owner] = f]
    BY <1>8 DEF AttachChild, WithLock
  <2>2. /\ f \in Frame /\ f.pc = "lock" /\ f.op = "attach"
        /\ ~f.nested /\ ~f.flag
    BY <1>1, <1>2, NoCallOk DEF Frame, NoCall, Pcs, Ops, Adding
  <2>. HIDE DEF f
  <2>. QED
    BY <1>1, <2>1, <2>2, CallOk DEF Adding
<1>9. ASSUME NEW r \in Record, NEW c \in Child, DetachChild(r, c)
      PROVE  frame' \in [Thread -> Frame] /\ FrameInv'
  <2>. DEFINE f == [NoCall EXCEPT !.pc = "lock", !.op = "detach", !.rec = r, !.kid = c,
                                  !.old = Load(status)]
  <2>1. frame' = [frame EXCEPT ![Owner] = f]
    BY <1>9 DEF DetachChild, WithLock
  <2>2. /\ f \in Frame /\ f.pc = "lock" /\ f.op = "detach"
        /\ ~f.nested /\ ~f.flag
    BY <1>1, <1>2, NoCallOk DEF Frame, NoCall, Pcs, Ops, Adding
  <2>. HIDE DEF f
  <2>. QED
    BY <1>1, <2>1, <2>2, CallOk DEF Adding
<1>10. ASSUME NEW r \in Record, CancelAll(r)
       PROVE  frame' \in [Thread -> Frame] /\ FrameInv'
  <2>. DEFINE f == [NoCall EXCEPT !.pc = "lock", !.op = "cancelAll", !.rec = r, !.kid = Null,
                                  !.old = Load(status)]
  <2>1. UNCHANGED frame \/ frame' = [frame EXCEPT ![Owner] = f]
    BY <1>10 DEF CancelAll, WithLock
  <2>2. /\ f \in Frame /\ f.pc = "lock" /\ f.op = "cancelAll"
        /\ ~f.nested /\ ~f.flag
    BY <1>1, <1>2, NoCallOk DEF Frame, NoCall, Pcs, Ops, Adding
  <2>4. CASE UNCHANGED frame
    BY <1>1, <2>4 DEF FrameInv, FrameOk, PcsOf, NoCall
  <2>. HIDE DEF f
  <2>. QED
    BY <1>1, <2>1, <2>2, <2>4, CallOk DEF Adding
<1>11. ASSUME ContinuationInit
       PROVE  frame' \in [Thread -> Frame] /\ FrameInv'
  <2>. DEFINE f == [frame[Owner] EXCEPT !.pc = "await"]
  <2>1. frame' = [frame EXCEPT ![Owner] = f]
    BY <1>11, <1>1 DEF ContinuationInit, Goto
  <2>2. f \in Frame
    BY <1>11, <1>1, <1>2 DEF Frame, Pcs, ContinuationInit, MaySuspend, OnTask, Idle, NoCall
  <2>3. FrameOk(Owner, f)
    BY <1>11, <1>1 DEF FrameInv, FrameOk, PcsOf, Frame, ContinuationInit, MaySuspend, OnTask,
       Idle,
                   NoCall
  <2>. HIDE DEF f
  <2>. QED
    BY <1>1, <2>1, <2>2, <2>3, FrameMoves
<1>12. ASSUME NEW r \in Record, ContinuationInitPreawaited(r)
       PROVE  frame' \in [Thread -> Frame] /\ FrameInv'
  <2>. DEFINE f == [NoCall EXCEPT !.pc = "add", !.op = "suspend", !.rec = r,
                                  !.old = Load(status)]
  <2>1. frame' = [frame EXCEPT ![Owner] = f]
    BY <1>12 DEF ContinuationInitPreawaited, StartAdd
  <2>2. /\ f \in Frame /\ f.pc = "add" /\ f.op = "suspend"
        /\ ~f.nested /\ ~f.flag
    BY <1>1, <1>2, NoCallOk DEF Frame, NoCall, Pcs, Ops, Adding
  <2>. HIDE DEF f
  <2>. QED
    BY <1>1, <2>1, <2>2, CallOk DEF Adding
<1>13. ASSUME NEW c \in Child, WaitFuture(c)
       PROVE  frame' \in [Thread -> Frame] /\ FrameInv'
  <2>. DEFINE f == [frame[Owner] EXCEPT !.pc = "await", !.kid = c]
  <2>1. frame' = [frame EXCEPT ![Owner] = f]
    BY <1>13, <1>1 DEF WaitFuture
  <2>2. f \in Frame
    BY <1>13, <1>1, <1>2 DEF Frame, Pcs, WaitFuture, MaySuspend, OnTask, Idle, NoCall
  <2>3. FrameOk(Owner, f)
    BY <1>13, <1>1 DEF FrameInv, FrameOk, PcsOf, Frame, WaitFuture, MaySuspend, OnTask, Idle,
                   NoCall
  <2>. HIDE DEF f
  <2>. QED
    BY <1>1, <2>1, <2>2, <2>3, FrameMoves
<1>14. ASSUME RunImmediately
       PROVE  frame' \in [Thread -> Frame] /\ FrameInv'
  <2>1. UNCHANGED frame
    BY <1>14 DEF RunImmediately
  <2>. QED
    BY <1>1, <2>1 DEF FrameInv, FrameOk, PcsOf, NoCall
<1>15. ASSUME Complete
       PROVE  frame' \in [Thread -> Frame] /\ FrameInv'
  <2>1. UNCHANGED frame
    BY <1>15 DEF Complete
  <2>. QED
    BY <1>1, <2>1 DEF FrameInv, FrameOk, PcsOf, NoCall
<1>16. ASSUME NEW t \in Thread, Cancel(t)
       PROVE  frame' \in [Thread -> Frame] /\ FrameInv'
  <2>. DEFINE f == [NoCall EXCEPT !.pc = "lock", !.op = "cancel",
                                  !.old = Load([status EXCEPT !.cancelled = TRUE])]
  <2>9. Load([status EXCEPT !.cancelled = TRUE]) \in Loaded
    BY <1>1 DEF TypeOK, Status, Load, Loaded
  <2>1. UNCHANGED frame \/ frame' = [frame EXCEPT ![t] = f]
    BY <1>16 DEF Cancel
  <2>2. /\ f \in Frame /\ f.pc = "lock" /\ f.op = "cancel"
        /\ ~f.nested /\ ~f.flag
    BY <1>1, <1>2, <2>9, NoCallOk DEF Frame, NoCall, Pcs, Ops, Adding
  <2>3. f.op = "cancel"
    BY <2>2
  <2>4. CASE UNCHANGED frame
    BY <1>1, <2>4 DEF FrameInv, FrameOk, PcsOf, NoCall
  <2>. HIDE DEF f
  <2>. QED
    BY <1>1, <2>1, <2>2, <2>3, <2>4, CallOk DEF Adding
<1>17. ASSUME NEW t \in Thread, NEW p \in JobPriority, Escalate(t, p)
       PROVE  frame' \in [Thread -> Frame] /\ FrameInv'
  <2>. DEFINE s == [status EXCEPT !.priority = p,
                      !.escalated = @ \/ status.running \/ status.enqueued]
  <2>. DEFINE f == [NoCall EXCEPT !.pc = "lock", !.op = "escalate", !.prio = p, !.old = Load(s)]
  <2>9. Load(s) \in Loaded
    BY <1>1 DEF TypeOK, Status, Load, Loaded
  <2>1. UNCHANGED frame \/ frame' = [frame EXCEPT ![t] = f]
    BY <1>17, <1>1 DEF Escalate, Load
  <2>2. /\ f \in Frame /\ f.pc = "lock" /\ f.op = "escalate"
        /\ ~f.nested /\ ~f.flag
    BY <1>1, <1>2, <2>9, NoCallOk DEF Frame, NoCall, Pcs, Ops, Adding
  <2>3. t # Owner
    BY <1>17 DEF Escalate
  <2>4. CASE UNCHANGED frame
    BY <1>1, <2>4 DEF FrameInv, FrameOk, PcsOf, NoCall
  <2>. HIDE DEF f
  <2>. QED
    BY <1>1, <2>1, <2>2, <2>3, <2>4, CallOk DEF Adding
<1>18. ASSUME NEW t \in Thread, Resume(t)
       PROVE  frame' \in [Thread -> Frame] /\ FrameInv'
  <2>. DEFINE f == [NoCall EXCEPT !.pc = "lock", !.op = "resume", !.old = Load(status)]
  <2>1. UNCHANGED frame \/ frame' = [frame EXCEPT ![t] = f]
    BY <1>18 DEF Resume
  <2>2. /\ f \in Frame /\ f.pc = "lock" /\ f.op = "resume"
        /\ ~f.nested /\ ~f.flag
    BY <1>1, <1>2, NoCallOk DEF Frame, NoCall, Pcs, Ops, Adding
  <2>3. t # Owner
    BY <1>18 DEF Resume
  <2>4. CASE UNCHANGED frame
    BY <1>1, <2>4 DEF FrameInv, FrameOk, PcsOf, NoCall
  <2>. HIDE DEF f
  <2>. QED
    BY <1>1, <2>1, <2>2, <2>3, <2>4, CallOk DEF Adding
<1>19. ASSUME NEW t \in Thread, HandlerResumes(t)
       PROVE  frame' \in [Thread -> Frame] /\ FrameInv'
  <2>8. t # Owner
    BY <1>19, <1>1 DEF HandlerResumes, At, MayResume, StateInv, PhaseOk, Working, FrameInv,
       FrameOk, PcsOf
  <2>9. CASE UNCHANGED frame
    BY <1>1, <2>9 DEF FrameInv, FrameOk, PcsOf, NoCall
  <2>10. CASE frame' = [frame EXCEPT ![t].nested = TRUE, ![t].pc = "lock",
                                     ![t].old = Load(status)]
    <3>. DEFINE f == [frame[t] EXCEPT !.nested = TRUE, !.pc = "lock",
                                  !.old = Load(status)]
    <3>1. frame' = [frame EXCEPT ![t] = f]
      BY <1>1, <2>10
    <3>2. f \in Frame
      BY <1>19, <1>1, <1>2, ZenonT(60) DEF Frame, Pcs, HandlerResumes, At
    <3>3. FrameOk(t, f)
      BY <1>19, <1>1, <2>8 DEF FrameInv, FrameOk, PcsOf, Frame, HandlerResumes, At
    <3>. HIDE DEF f
    <3>. QED
      BY <1>1, <3>1, <3>2, <3>3, FrameMoves
  <2>. QED
    BY <1>19, <2>9, <2>10 DEF HandlerResumes
<1>20. ASSUME NEW t \in Thread, AddLockless(t)
       PROVE  frame' \in [Thread -> Frame] /\ FrameInv'
  <2>1. CASE shouldAddRecord(t, status) /\ frame[t].op = "add"
    <3>1. Return(t)
      BY <1>20, <2>1 DEF AddLockless, Return
    <3>. QED
      BY <1>1, <3>1, ReturnOk
  <2>2. CASE shouldAddRecord(t, status) /\ frame[t].op # "add"
    <3>. DEFINE pc == IF frame[t].op = "suspend" THEN "awaited" ELSE "enqueue"
                f == [frame[t] EXCEPT !.pc = pc, !.old = Load(status)]
    <3>1. frame[t].op \in {"suspend", "enqueue"} /\ ~frame[t].nested /\ ~frame[t].flag
      BY <1>20, <1>1, <2>2 DEF AddLockless, At, FrameInv, FrameOk, PcsOf
    <3>2. frame' = [frame EXCEPT ![t] = f]
      BY <1>20, <2>2, <3>1 DEF AddLockless, AfterAdd
    <3>3. f \in Frame
      BY <1>1, <1>2 DEF Frame, Pcs
    <3>4. FrameOk(t, f)
      BY <1>20, <1>1, <3>1 DEF FrameInv, FrameOk, PcsOf, Frame
    <3>. HIDE DEF f
    <3>. QED
      BY <1>1, <3>2, <3>3, <3>4, FrameMoves
  <2>3. CASE ~shouldAddRecord(t, status)
    <3>1. Goto(t, "fire")
      BY <1>20, <2>3 DEF AddLockless
    <3>2. frame[t].op = "add" /\ ~frame[t].nested /\ ~frame[t].flag
      <4>1. t = Owner /\ frame[t].op \in Adding /\ ~frame[t].nested /\ ~frame[t].flag
        BY <1>20, <1>1 DEF AddLockless, At, FrameInv, FrameOk, PcsOf, Adding
      <4>. QED
        BY <1>1, <2>3, <4>1 DEF shouldAddRecord, ScopeInv, ScopeOk, KindOf, Adding
    <3>. QED
      BY <1>1, <3>1, <3>2, GotoOk DEF Pcs, PcsOf
  <2>. QED
    BY <2>1, <2>2, <2>3
<1>21. ASSUME NEW t \in Thread, AddSeesLock(t)
       PROVE  frame' \in [Thread -> Frame] /\ FrameInv'
  <2>. DEFINE f == [frame[t] EXCEPT !.pc = "lock", !.old = Load(status)]
  <2>1. frame' = [frame EXCEPT ![t] = f]
    BY <1>21, <1>1 DEF AddSeesLock
  <2>2. f \in Frame
    BY <1>21, <1>1, <1>2, ZenonT(60) DEF Frame, Pcs, AddSeesLock, At, Adding
  <2>3. FrameOk(t, f)
    BY <1>21, <1>1 DEF FrameInv, FrameOk, PcsOf, Frame, AddSeesLock, At, Adding
  <2>. HIDE DEF f
  <2>. QED
    BY <1>1, <2>1, <2>2, <2>3, FrameMoves
<1>22. ASSUME NEW t \in Thread, FireHandlerNow(t)
       PROVE  frame' \in [Thread -> Frame] /\ FrameInv'
  <2>1. Goto(t, "fired")
    BY <1>22 DEF FireHandlerNow
  <2>2. "fired" \in PcsOf(frame[t])
    BY <1>22, <1>1 DEF FrameInv, FrameOk, PcsOf, FireHandlerNow, At
  <2>3. frame[t].flag => frame[t].op = "add"
    BY <1>22, <1>1 DEF FrameInv, FrameOk, FireHandlerNow, At
  <2>. QED
    BY <1>1, <2>1, <2>2, <2>3, GotoOk DEF Pcs
<1>23. ASSUME NEW t \in Thread, DropFired(t)
       PROVE  frame' \in [Thread -> Frame] /\ FrameInv'
  <2>1. Return(t)
    BY <1>23 DEF DropFired
  <2>. QED
    BY <1>1, <2>1, ReturnOk
<1>24. ASSUME NEW t \in Thread, RemoveLockless(t)
       PROVE  frame' \in [Thread -> Frame] /\ FrameInv'
  <2>1. Return(t)
    BY <1>24 DEF RemoveLockless
  <2>. QED
    BY <1>1, <2>1, ReturnOk
<1>25. ASSUME NEW t \in Thread, RemoveSeesLock(t)
       PROVE  frame' \in [Thread -> Frame] /\ FrameInv'
  <2>. DEFINE f == [frame[t] EXCEPT !.pc = "lock", !.old = Load(status)]
  <2>1. frame' = [frame EXCEPT ![t] = f]
    BY <1>25, <1>1 DEF RemoveSeesLock
  <2>2. f \in Frame
    BY <1>25, <1>1, <1>2 DEF Frame, Pcs, RemoveSeesLock, At
  <2>3. FrameOk(t, f)
    BY <1>25, <1>1 DEF FrameInv, FrameOk, PcsOf, Frame, RemoveSeesLock, At
  <2>. HIDE DEF f
  <2>. QED
    BY <1>1, <2>1, <2>2, <2>3, FrameMoves
<1>26. ASSUME NEW t \in Thread, Lock(t)
       PROVE  frame' \in [Thread -> Frame] /\ FrameInv'
  <2>1. Goto(t, "setbit")
    BY <1>26 DEF Lock
  <2>2. "setbit" \in PcsOf(frame[t])
    BY <1>26, <1>1 DEF FrameInv, FrameOk, PcsOf, Lock, At
  <2>3. ~frame[t].flag
    BY <1>26, <1>1 DEF FrameInv, FrameOk, Lock, At
  <2>. QED
    BY <1>1, <2>1, <2>2, <2>3, GotoOk DEF Pcs
<1>27. ASSUME NEW t \in Thread, SetBit(t)
       PROVE  frame' \in [Thread -> Frame] /\ FrameInv'
  <2>9. /\ Load(status') \in Loaded /\ status.record \in Record \cup {Null}
        /\ alreadyLocked(t) \in BOOLEAN
    BY <1>27, <1>1 DEF SetBit, TypeOK, Status, Load, Loaded, alreadyLocked
  <2>. DEFINE f == [frame[t] EXCEPT
           !.already = alreadyLocked(t),
           !.old = IF Op(t) = "attach" THEN Load(status') ELSE @,
           !.cur = IF frame[t].nested THEN @ ELSE status.record,
           !.pc = IF Op(t) \in Adding \cup {"resume"} THEN "update" ELSE "fn"]
  <2>1. frame' = [frame EXCEPT ![t] = f]
    BY <1>27, <1>1, <2>9 DEF SetBit
  <2>2. f \in Frame
    BY <1>27, <1>1, <1>2, <2>9 DEF Frame, Pcs, SetBit, At, Op, Adding, alreadyLocked
  <2>3. FrameOk(t, f)
    BY <1>27, <1>1, <2>9 DEF FrameInv, FrameOk, PcsOf, Frame, SetBit, At, Op, Adding,
       alreadyLocked
  <2>. HIDE DEF f
  <2>. QED
    BY <1>1, <2>1, <2>2, <2>3, FrameMoves
<1>28. ASSUME NEW t \in Thread, FnRemove(t)
       PROVE  frame' \in [Thread -> Frame] /\ FrameInv'
  <2>1. Goto(t, "update")
    BY <1>28 DEF FnRemove
  <2>2. "update" \in PcsOf(frame[t])
    BY <1>28, <1>1 DEF FrameInv, FrameOk, PcsOf, FnRemove, At, Op
  <2>3. ~frame[t].flag
    BY <1>28, <1>1 DEF FrameInv, FrameOk, FnRemove, At, Op
  <2>. QED
    BY <1>1, <2>1, <2>2, <2>3, GotoOk DEF Pcs
<1>29. ASSUME NEW t \in Thread, FnPop(t)
       PROVE  frame' \in [Thread -> Frame] /\ FrameInv'
  <2>1. PICK cur \in Record \cup {Null}, flag \in BOOLEAN :
          frame' = [frame EXCEPT ![t].pc = "update", ![t].cur = cur, ![t].flag = flag]
    <3>1. matchOfKind(kind[frame[t].rec]) \subseteq Record /\ lastOfKind(t) \in BOOLEAN
      BY DEF matchOfKind, OfKind, Linked, ChainFrom, lastOfKind
    <3>. QED
      BY <1>29, <3>1 DEF FnPop
  <2>. DEFINE f == [frame[t] EXCEPT !.pc = "update", !.cur = cur, !.flag = flag]
  <2>2. frame' = [frame EXCEPT ![t] = f]
    BY <1>1, <2>1
  <2>3. f \in Frame
    BY <1>1 DEF Frame, Pcs
  <2>4. frame[t].op = "pop" /\ ~frame[t].nested
    BY <1>29, <1>1 DEF FnPop, Op
  <2>5. FrameOk(t, f)
    BY <1>1, <2>4 DEF FrameInv, FrameOk, PcsOf, Frame
  <2>. HIDE DEF f
  <2>. QED
    BY <1>1, <2>2, <2>3, <2>5, FrameMoves
<1>30. ASSUME NEW t \in Thread, UpdateRemove(t)
       PROVE  frame' \in [Thread -> Frame] /\ FrameInv'
  <2>1. Goto(t, "unlock")
    BY <1>30 DEF UpdateRemove
  <2>2. "unlock" \in PcsOf(frame[t])
    BY <1>30, <1>1 DEF FrameInv, FrameOk, PcsOf, UpdateRemove, At, Op
  <2>3. frame[t].flag => frame[t].op = "pop"
    BY <1>30, <1>1 DEF FrameInv, FrameOk, UpdateRemove, At, Op
  <2>. QED
    BY <1>1, <2>1, <2>2, <2>3, GotoOk DEF Pcs
<1>31. ASSUME NEW t \in Thread, UpdateAdd(t)
       PROVE  frame' \in [Thread -> Frame] /\ FrameInv'
  <2>. DEFINE add == shouldAddRecord(t, [status EXCEPT !.locked = frame[t].already])
              f == [frame[t] EXCEPT !.pc = "unlock", !.flag = ~add]
  <2>1. frame' = [frame EXCEPT ![t] = f]
    BY <1>31 DEF UpdateAdd
  <2>2. f \in Frame
    BY <1>1 DEF Frame, Pcs
  <2>3. t = Owner /\ frame[t].op \in Adding /\ ~frame[t].nested
    BY <1>31, <1>1 DEF UpdateAdd, Op, Adding, FrameInv, FrameOk
  <2>4. ~add => frame[t].op = "add"
    BY <1>1, <2>3 DEF shouldAddRecord, ScopeInv, ScopeOk, KindOf, Adding
  <2>. HIDE DEF add
  <2>5. FrameOk(t, f)
    BY <1>1, <2>3, <2>4 DEF FrameInv, FrameOk, PcsOf, Frame, Adding
  <2>. HIDE DEF f
  <2>. QED
    BY <1>1, <2>1, <2>2, <2>5, FrameMoves
<1>32. ASSUME NEW t \in Thread, UpdateResume(t)
       PROVE  frame' \in [Thread -> Frame] /\ FrameInv'
  <2>1. Goto(t, "unlock")
    BY <1>32 DEF UpdateResume
  <2>2. "unlock" \in PcsOf(frame[t])
    BY <1>32, <1>1 DEF FrameInv, FrameOk, PcsOf, UpdateResume, At, Op, Adding
  <2>3. frame[t].flag => frame[t].op = "pop"
    BY <1>32, <1>1 DEF FrameInv, FrameOk, UpdateResume, At, Op, Adding
  <2>. QED
    BY <1>1, <2>1, <2>2, <2>3, GotoOk DEF Pcs
<1>33. ASSUME NEW t \in Thread, UpdatePlain(t)
       PROVE  frame' \in [Thread -> Frame] /\ FrameInv'
  <2>1. Goto(t, "unlock")
    BY <1>33 DEF UpdatePlain
  <2>2. "unlock" \in PcsOf(frame[t])
    BY <1>33, <1>1 DEF FrameInv, FrameOk, PcsOf, UpdatePlain, At, Op, Adding
  <2>3. frame[t].flag => frame[t].op = "pop"
    BY <1>33, <1>1 DEF FrameInv, FrameOk, UpdatePlain, At, Op, Adding
  <2>. QED
    BY <1>1, <2>1, <2>2, <2>3, GotoOk DEF Pcs
<1>34. ASSUME NEW t \in Thread, Unlock(t)
       PROVE  frame' \in [Thread -> Frame] /\ FrameInv'
  <2>1. FrameOk(t, frame[t]) /\ frame[t].pc = "unlock"
    BY <1>34, <1>1 DEF FrameInv, Unlock, At
  <2>2. CASE Op(t) = "resume"
    <3>5. AfterUnlock(t) = [frame[t] EXCEPT !.pc = "enqueue"]
      BY <2>2 DEF AfterUnlock, Adding
    <3>1. Goto(t, "enqueue")
      BY <1>34, <1>1, <3>5 DEF Unlock, Goto
    <3>2. frame[t].nested \/ frame[t].op = "resume"
      BY <2>2 DEF Op
    <3>3. "enqueue" \in PcsOf(frame[t])
      BY <3>2 DEF PcsOf
    <3>4. ~frame[t].flag
      BY <2>1, <3>2 DEF FrameOk
    <3>. QED
      BY <1>1, <3>1, <3>3, <3>4, GotoOk DEF Pcs
  <2>3. CASE Op(t) \in Adding /\ frame[t].flag
    <3>1. Goto(t, "fire")
      BY <1>34, <2>3 DEF Unlock, AfterUnlock, Goto, Adding
    <3>2. /\ frame[t].op = "add" /\ ~frame[t].nested
          /\ frame' = [frame EXCEPT ![t] = [frame[t] EXCEPT !.pc = "fire"]]
      BY <2>1, <2>3, <3>1 DEF Op, FrameOk, Adding, Goto
    <3>3. [frame[t] EXCEPT !.pc = "fire"] \in Frame
      BY <1>1 DEF Frame, Pcs
    <3>4. FrameOk(t, [frame[t] EXCEPT !.pc = "fire"])
      BY <1>1, <2>1, <3>2 DEF FrameOk, PcsOf, Frame
    <3>. QED
      BY <1>1, <3>2, <3>3, <3>4, FrameMoves
  <2>4. CASE Op(t) \in Adding /\ ~frame[t].flag /\ frame[t].op # "add"
    <3>. DEFINE pc == IF frame[t].op = "suspend" THEN "awaited" ELSE "enqueue"
    <3>1. frame[t].op \in {"suspend", "enqueue"} /\ ~frame[t].nested
      BY <2>1, <2>4 DEF Op, Adding
    <3>2. Goto(t, pc)
      BY <1>34, <2>4, <3>1 DEF Unlock, AfterUnlock, AfterAdd, Goto, Op, Adding
    <3>. QED
      BY <1>1, <2>4, <3>1, <3>2, GotoOk DEF Pcs, PcsOf
  <2>5. CASE \/ Op(t) \in Adding /\ ~frame[t].flag /\ frame[t].op = "add"
             \/ Op(t) \notin Adding \cup {"resume"}
    <3>1. Return(t)
      BY <1>34, <2>5 DEF Unlock, AfterUnlock, AfterAdd, Return, Op, Adding
    <3>. QED
      BY <1>1, <3>1, ReturnOk
  <2>. QED
    BY <2>2, <2>3, <2>4, <2>5
<1>35. ASSUME NEW t \in Thread, FnAttach(t)
       PROVE  frame' \in [Thread -> Frame] /\ FrameInv'
  <2>1. Goto(t, "update")
    BY <1>35 DEF FnAttach
  <2>2. "update" \in PcsOf(frame[t])
    BY <1>35, <1>1 DEF FrameInv, FrameOk, PcsOf, FnAttach, At, Op
  <2>3. ~frame[t].flag
    BY <1>35, <1>1 DEF FrameInv, FrameOk, FnAttach, At, Op
  <2>. QED
    BY <1>1, <2>1, <2>2, <2>3, GotoOk DEF Pcs
<1>36. ASSUME NEW t \in Thread, FnDetach(t)
       PROVE  frame' \in [Thread -> Frame] /\ FrameInv'
  <2>1. Goto(t, "update")
    BY <1>36 DEF FnDetach
  <2>2. "update" \in PcsOf(frame[t])
    BY <1>36, <1>1 DEF FrameInv, FrameOk, PcsOf, FnDetach, At, Op
  <2>3. ~frame[t].flag
    BY <1>36, <1>1 DEF FrameInv, FrameOk, FnDetach, At, Op
  <2>. QED
    BY <1>1, <2>1, <2>2, <2>3, GotoOk DEF Pcs
<1>37. ASSUME NEW t \in Thread, FnCancelAll(t)
       PROVE  frame' \in [Thread -> Frame] /\ FrameInv'
  <2>1. Goto(t, "update")
    BY <1>37 DEF FnCancelAll
  <2>2. "update" \in PcsOf(frame[t])
    BY <1>37, <1>1 DEF FrameInv, FrameOk, PcsOf, FnCancelAll, At, Op
  <2>3. ~frame[t].flag
    BY <1>37, <1>1 DEF FrameInv, FrameOk, FnCancelAll, At, Op
  <2>. QED
    BY <1>1, <2>1, <2>2, <2>3, GotoOk DEF Pcs
<1>38. ASSUME NEW t \in Thread, WalkCancel(t)
       PROVE  frame' \in [Thread -> Frame] /\ FrameInv'
  <2>9. parent[frame[t].cur] \in Record \cup {Null}
    BY <1>38, <1>1 DEF WalkCancel, TypeOK, Frame
  <2>. DEFINE f == [frame[t] EXCEPT !.cur = parent[frame[t].cur]]
  <2>1. frame' = [frame EXCEPT ![t] = f]
    BY <1>38, <1>1, <2>9 DEF WalkCancel
  <2>2. f \in Frame
    BY <1>38, <1>1, <1>2, <2>9 DEF Frame, Pcs, WalkCancel, Walking, At
  <2>3. FrameOk(t, f)
    BY <1>38, <1>1, <2>9 DEF FrameInv, FrameOk, PcsOf, Frame, WalkCancel, Walking, At
  <2>. HIDE DEF f
  <2>. QED
    BY <1>1, <2>1, <2>2, <2>3, FrameMoves
<1>39. ASSUME NEW t \in Thread, WalkHandler(t)
       PROVE  frame' \in [Thread -> Frame] /\ FrameInv'
  <2>1. Goto(t, "next")
    BY <1>39 DEF WalkHandler
  <2>2. "next" \in PcsOf(frame[t])
    BY <1>39, <1>1 DEF FrameInv, FrameOk, PcsOf, WalkHandler, Walking, At
  <2>3. ~frame[t].flag
    BY <1>39, <1>1 DEF FrameInv, FrameOk, WalkHandler, Walking, At
  <2>. QED
    BY <1>1, <2>1, <2>2, <2>3, GotoOk DEF Pcs
<1>40. ASSUME NEW t \in Thread, WalkNext(t)
       PROVE  frame' \in [Thread -> Frame] /\ FrameInv'
  <2>9. parent[frame[t].cur] \in Record \cup {Null}
    BY <1>40, <1>1 DEF WalkNext, At, TypeOK, Frame, FrameInv, FrameOk, PcsOf, WalkInv
  <2>. DEFINE f == [frame[t] EXCEPT !.pc = "fn", !.cur = parent[frame[t].cur]]
  <2>1. frame' = [frame EXCEPT ![t] = f]
    BY <1>40, <1>1, <2>9 DEF WalkNext
  <2>2. f \in Frame
    BY <1>40, <1>1, <1>2, <2>9 DEF Frame, Pcs, WalkNext, At
  <2>3. FrameOk(t, f)
    BY <1>40, <1>1, <2>9 DEF FrameInv, FrameOk, PcsOf, Frame, WalkNext, At
  <2>. HIDE DEF f
  <2>. QED
    BY <1>1, <2>1, <2>2, <2>3, FrameMoves
<1>41. ASSUME NEW t \in Thread, WalkEscalate(t)
       PROVE  frame' \in [Thread -> Frame] /\ FrameInv'
  <2>9. parent[frame[t].cur] \in Record \cup {Null}
    BY <1>41, <1>1 DEF WalkEscalate, TypeOK, Frame
  <2>. DEFINE f == [frame[t] EXCEPT !.cur = parent[frame[t].cur]]
  <2>1. frame' = [frame EXCEPT ![t] = f]
    BY <1>41, <1>1, <2>9 DEF WalkEscalate
  <2>2. f \in Frame
    BY <1>41, <1>1, <1>2, <2>9 DEF Frame, Pcs, WalkEscalate, Walking, At
  <2>3. FrameOk(t, f)
    BY <1>41, <1>1, <2>9 DEF FrameInv, FrameOk, PcsOf, Frame, WalkEscalate, Walking, At
  <2>. HIDE DEF f
  <2>. QED
    BY <1>1, <2>1, <2>2, <2>3, FrameMoves
<1>42. ASSUME NEW t \in Thread, WalkEnd(t)
       PROVE  frame' \in [Thread -> Frame] /\ FrameInv'
  <2>1. Goto(t, "update")
    BY <1>42 DEF WalkEnd
  <2>2. "update" \in PcsOf(frame[t])
    BY <1>42, <1>1 DEF FrameInv, FrameOk, PcsOf, WalkEnd, Walking, At
  <2>3. ~frame[t].flag
    BY <1>42, <1>1 DEF FrameInv, FrameOk, WalkEnd, Walking, At
  <2>. QED
    BY <1>1, <2>1, <2>2, <2>3, GotoOk DEF Pcs
<1>43. ASSUME NEW t \in Thread, Enqueue(t)
       PROVE  frame' \in [Thread -> Frame] /\ FrameInv'
  <2>1. CASE frame[t].nested
    <3>. DEFINE f == [frame[t] EXCEPT !.pc = "next", !.nested = FALSE, !.already = FALSE]
    <3>1. frame' = [frame EXCEPT ![t] = f]
      BY <1>43, <2>1 DEF Enqueue
    <3>2. f \in Frame
      BY <1>1 DEF Frame, Pcs
    <3>3. FrameOk(t, f)
      BY <1>1, <2>1 DEF FrameInv, FrameOk, PcsOf, Frame
    <3>. HIDE DEF f
    <3>. QED
      BY <1>1, <3>1, <3>2, <3>3, FrameMoves
  <2>2. CASE ~frame[t].nested
    <3>1. Return(t)
      BY <1>43, <2>2 DEF Enqueue, Return
    <3>. QED
      BY <1>1, <3>1, ReturnOk
  <2>. QED
    BY <2>1, <2>2
<1>44. ASSUME AwaitFindsResumed
       PROVE  frame' \in [Thread -> Frame] /\ FrameInv'
  <2>1. Return(Owner)
    BY <1>44 DEF AwaitFindsResumed
  <2>. QED
    BY <1>1, <2>1, ReturnOk
<1>45. ASSUME NEW r \in Record, FlagAsSuspended(r)
       PROVE  frame' \in [Thread -> Frame] /\ FrameInv'
  <2>. DEFINE f == [NoCall EXCEPT !.pc = "add", !.op = "suspend", !.rec = r,
                                  !.old = Load(status)]
  <2>1. frame' = [frame EXCEPT ![Owner] = f]
    BY <1>45 DEF FlagAsSuspended, StartAdd
  <2>2. /\ f \in Frame /\ f.pc = "add" /\ f.op = "suspend"
        /\ ~f.nested /\ ~f.flag
    BY <1>1, <1>2, NoCallOk DEF Frame, NoCall, Pcs, Ops, Adding
  <2>. HIDE DEF f
  <2>. QED
    BY <1>1, <2>1, <2>2, CallOk DEF Adding
<1>46. ASSUME AwaitSucceeds
       PROVE  frame' \in [Thread -> Frame] /\ FrameInv'
  <2>1. Return(Owner)
    BY <1>46 DEF AwaitSucceeds
  <2>. QED
    BY <1>1, <2>1, ReturnOk
<1>47. ASSUME PreawaitSucceeds
       PROVE  frame' \in [Thread -> Frame] /\ FrameInv'
  <2>1. Return(Owner)
    BY <1>47 DEF PreawaitSucceeds
  <2>. QED
    BY <1>1, <2>1, ReturnOk
<1>48. ASSUME AwaitLoses
       PROVE  frame' \in [Thread -> Frame] /\ FrameInv'
  <2>. DEFINE f == [NoCall EXCEPT !.pc = "remove", !.op = "run", !.rec = frame[Owner].rec]
  <2>9. frame[Owner].rec \in Record \cup {Null}
    BY <1>1 DEF Frame
  <2>1. frame' = [frame EXCEPT ![Owner] = f]
    BY <1>48 DEF AwaitLoses, FlagAsRunning
  <2>2. /\ f \in Frame /\ f.pc = "remove" /\ f.op = "run"
        /\ ~f.nested /\ ~f.flag
    BY <1>1, <1>2, <2>9, NoCallOk DEF Frame, NoCall, Pcs, Ops, Adding
  <2>. HIDE DEF f
  <2>. QED
    BY <1>1, <2>1, <2>2, CallOk DEF Adding
<1>49. ASSUME RunJob
       PROVE  frame' \in [Thread -> Frame] /\ FrameInv'
  <2>. DEFINE f == [NoCall EXCEPT !.pc = "remove", !.op = "run", !.rec = scopes[Len(scopes)]]
  <2>8. \E i \in 1..Len(scopes) : kind[scopes[i]] = "dependency"
    BY <1>49, <1>1 DEF RunJob, StateInv, PhaseOk, Dependent, ScopeInv, StackInv
  <2>9. scopes[Len(scopes)] \in Record
    BY <1>1, <2>8 DEF TypeOK
  <2>1. frame' = [frame EXCEPT ![Owner] = f]
    BY <1>49 DEF RunJob, FlagAsRunning
  <2>2. /\ f \in Frame /\ f.pc = "remove" /\ f.op = "run"
        /\ ~f.nested /\ ~f.flag
    BY <1>1, <1>2, <2>9, NoCallOk DEF Frame, NoCall, Pcs, Ops, Adding
  <2>. HIDE DEF f
  <2>. QED
    BY <1>1, <2>1, <2>2, CallOk DEF Adding
<1>. QED
  BY <1>3, <1>4, <1>5, <1>6, <1>7, <1>8, <1>9, <1>10, <1>11, <1>12, <1>13, <1>14, <1>15, <1>16,
     <1>17, <1>18, <1>19, <1>20, <1>21, <1>22, <1>23, <1>24, <1>25, <1>26, <1>27, <1>28, <1>29,
     <1>30, <1>31, <1>32, <1>33, <1>34, <1>35, <1>36, <1>37, <1>38, <1>39, <1>40, <1>41, <1>42,
     <1>43, <1>44, <1>45, <1>46, <1>47, <1>48, <1>49
  DEF Next, Call, LockStep, AwaitStep

\* A status with the record of the call on top is a status.
LEMMA InnermostTypes ==
  ASSUME NEW s \in Status, NEW t, frame[t].rec \in Record
  PROVE  withInnermostRecord(t, s) \in Status
<1>. DEFINE dep == kind[frame[t].rec] = "dependency"
            enq == frame[t].op = "enqueue"
            pref == kind[frame[t].rec] = "preference"
<1>1. withInnermostRecord(t, s) =
        [s EXCEPT !.record = frame[t].rec, !.running = @ /\ ~dep, !.escalated = @ /\ ~dep,
                  !.dependency = @ \/ dep, !.enqueued = @ \/ enq, !.preference = @ \/ pref]
  BY DEF withInnermostRecord
<1>2. dep \in BOOLEAN /\ enq \in BOOLEAN /\ pref \in BOOLEAN
  OBVIOUS
<1>. HIDE DEF dep, enq, pref
<1>. QED
  BY <1>1, <1>2, ZenonT(60) DEF Status

\* The types after a call of addStatusRecord()
LEMMA StartTypes ==
  ASSUME RecordTypes, AwaitTypes, status \in Status, adds \in 0..MaxAdds, MaxAdds \in Nat,
         NEW r \in Record, NEW k \in Kinds, NEW op, NEW kids \in SUBSET Child,
         StartAdd(r, k, op, kids)
  PROVE  status' \in Status /\ RecordTypes' /\ adds' \in 0..MaxAdds
         /\ UNCHANGED await
<1>1. RecordTypes'
  BY DEF RecordTypes, StartAdd
<1>. QED
  BY <1>1 DEF StartAdd

\* The links after a record is cut out
LEMMA UnlinkTypes ==
  ASSUME RecordTypes, UNCHANGED parent \/ \E r \in Record : Unlink(r)
  PROVE  parent' \in [Record -> Record \cup {Null}]
BY DEF RecordTypes, Unlink

\* The types after the memory of a record is given back
LEMMA DeallocTypes ==
  ASSUME RecordTypes, NEW r, Dealloc(r)
  PROVE  RecordTypes'
<1>1. NewChild \in [cancelled: BOOLEAN, priority: JobPriority \cup {UserInitiated}]
  BY TaskAssumption DEF NewChild
<1>2. child' \in [Child -> [cancelled: BOOLEAN, priority: JobPriority \cup {UserInitiated}]]
  BY <1>1 DEF RecordTypes, Dealloc, ChildrenWithout
<1>3. scopes' \in Seq(Record)
  <2>1. Len(scopes) \in Nat
    BY DEF RecordTypes
  <2>2. scopes' = [i \in 1..Len(scopes) - 1 |-> scopes[i]]
    BY DEF Dealloc
  <2>. QED
    BY <2>1, <2>2 DEF RecordTypes, Dealloc
<1>. QED
  BY <1>2, <1>3 DEF RecordTypes, Dealloc, Kinds

\* The types after a record is published
LEMMA EmplaceTypes ==
  ASSUME RecordTypes, NEW t, NEW s \in Status, frame[t].rec \in Record, Emplace(t, s),
         UNCHANGED <<kind, children, ran, scopes>>
  PROVE  RecordTypes'
<1>1. \A p \in JobPriority :
        /\ p \in Nat
        /\ withUserInteractivePriorityDowngrade(p) \in JobPriority \cup {UserInitiated}
        /\ \A q \in JobPriority \cup {UserInitiated} :
             Higher(q, p) \in JobPriority \cup {UserInitiated}
  BY TaskAssumption DEF withUserInteractivePriorityDowngrade, Higher
<1>2. s.priority \in JobPriority /\ s.cancelled \in BOOLEAN /\ s.record \in Record \cup {Null}
  BY DEF Status
<1>3. child' \in [Child -> [cancelled: BOOLEAN, priority: JobPriority \cup {UserInitiated}]]
  BY <1>1, <1>2 DEF RecordTypes, Emplace, Escalated, updateNewChild
<1>. QED
  BY <1>2, <1>3 DEF RecordTypes, Emplace

\* The types of the status, the records and the continuation
LEMMA TypeStep ==
  ASSUME TypeOK, FrameInv, ScopeInv, ChildInv, Next
  PROVE  status' \in Status /\ RecordTypes' /\ AwaitTypes' /\ adds' \in 0..MaxAdds
<1>1. /\ status \in Status /\ RecordTypes /\ AwaitTypes /\ adds \in 0..MaxAdds
      /\ frame \in [Thread -> Frame] /\ Owner \in Thread /\ MaxAdds \in Nat
      /\ FrameInv /\ ScopeInv /\ ChildInv
  BY TaskAssumption DEF TypeOK, RecordTypes, AwaitTypes, Thread
<1>2. /\ UNCHANGED status => status' \in Status
      /\ UNCHANGED records => RecordTypes'
      /\ UNCHANGED await => AwaitTypes'
      /\ UNCHANGED adds => adds' \in 0..MaxAdds
  BY <1>1 DEF records, await, RecordTypes, AwaitTypes
<1>3. NewChild \in [cancelled: BOOLEAN, priority: JobPriority \cup {UserInitiated}]
  BY TaskAssumption DEF NewChild
<1>4. ASSUME NEW r \in Record, NEW k \in {"cancel", "escalation", "group", "preference"},
             EnterScope(r, k)
      PROVE  status' \in Status /\ RecordTypes' /\ AwaitTypes' /\ adds' \in 0..MaxAdds
  <2>1. StartAdd(r, k, "add", {})
    BY <1>4 DEF EnterScope
  <2>. QED
    BY <1>1, <1>2, <2>1, StartTypes DEF Kinds
<1>5. ASSUME NEW r \in Record, NEW c \in Child, AsyncLet(r, c)
      PROVE  status' \in Status /\ RecordTypes' /\ AwaitTypes' /\ adds' \in 0..MaxAdds
  <2>1. StartAdd(r, "child", "add", {c})
    BY <1>5 DEF AsyncLet
  <2>. QED
    BY <1>1, <1>2, <2>1, StartTypes DEF Kinds
<1>6. ASSUME NEW r \in Record, FlagAsAndEnqueueOnExecutor(r)
      PROVE  status' \in Status /\ RecordTypes' /\ AwaitTypes' /\ adds' \in 0..MaxAdds
  <2>1. StartAdd(r, "dependency", "enqueue", {})
    BY <1>6 DEF FlagAsAndEnqueueOnExecutor
  <2>. QED
    BY <1>1, <1>2, <2>1, StartTypes DEF Kinds
<1>7. ASSUME ExitScope
      PROVE  status' \in Status /\ RecordTypes' /\ AwaitTypes' /\ adds' \in 0..MaxAdds
  BY <1>7, <1>2 DEF ExitScope
<1>8. ASSUME PopScope
      PROVE  status' \in Status /\ RecordTypes' /\ AwaitTypes' /\ adds' \in 0..MaxAdds
  BY <1>8, <1>2 DEF PopScope
<1>9. ASSUME NEW r \in Record, NEW c \in Child, AttachChild(r, c)
      PROVE  status' \in Status /\ RecordTypes' /\ AwaitTypes' /\ adds' \in 0..MaxAdds
  <2>1. adds' \in 0..MaxAdds
    BY <1>9, <1>1 DEF AttachChild
  <2>. QED
    BY <1>9, <1>2, <2>1 DEF AttachChild
<1>10. ASSUME NEW r \in Record, NEW c \in Child, DetachChild(r, c)
       PROVE  status' \in Status /\ RecordTypes' /\ AwaitTypes' /\ adds' \in 0..MaxAdds
  BY <1>10, <1>2 DEF DetachChild
<1>11. ASSUME NEW r \in Record, CancelAll(r)
       PROVE  status' \in Status /\ RecordTypes' /\ AwaitTypes' /\ adds' \in 0..MaxAdds
  <2>1. isCancelled' \in [Record -> BOOLEAN]
    BY <1>11, <1>1 DEF CancelAll, RecordTypes
  <2>10. RecordTypes'
    BY <1>11, <1>1, <2>1 DEF CancelAll, RecordTypes
  <2>. QED
    BY <1>11, <1>2, <2>10 DEF CancelAll
<1>12. ASSUME ContinuationInit
       PROVE  status' \in Status /\ RecordTypes' /\ AwaitTypes' /\ adds' \in 0..MaxAdds
  <2>1. AwaitTypes'
    BY <1>12, <1>1 DEF ContinuationInit, AwaitTypes
  <2>. QED
    BY <1>12, <1>2, <2>1 DEF ContinuationInit
<1>13. ASSUME NEW r \in Record, ContinuationInitPreawaited(r)
       PROVE  status' \in Status /\ RecordTypes' /\ AwaitTypes' /\ adds' \in 0..MaxAdds
  <2>1. StartAdd(r, "dependency", "suspend", {})
    BY <1>13 DEF ContinuationInitPreawaited
  <2>. QED
    BY <1>1, <1>2, <2>1, StartTypes DEF Kinds
<1>14. ASSUME NEW c \in Child, WaitFuture(c)
       PROVE  status' \in Status /\ RecordTypes' /\ AwaitTypes' /\ adds' \in 0..MaxAdds
  <2>1. AwaitTypes'
    BY <1>14, <1>1 DEF WaitFuture, AwaitTypes
  <2>. QED
    BY <1>14, <1>2, <2>1 DEF WaitFuture
<1>15. ASSUME RunImmediately
       PROVE  status' \in Status /\ RecordTypes' /\ AwaitTypes' /\ adds' \in 0..MaxAdds
  <2>1. status' \in Status
    BY <1>15, <1>1 DEF RunImmediately, Status
  <2>. QED
    BY <1>15, <1>2, <2>1 DEF RunImmediately
<1>16. ASSUME Complete
       PROVE  status' \in Status /\ RecordTypes' /\ AwaitTypes' /\ adds' \in 0..MaxAdds
  <2>1. status' \in Status
    BY <1>16, <1>1 DEF Complete, Status
  <2>. QED
    BY <1>16, <1>2, <2>1 DEF Complete
<1>17. ASSUME NEW t \in Thread, Cancel(t)
       PROVE  status' \in Status /\ RecordTypes' /\ AwaitTypes' /\ adds' \in 0..MaxAdds
  <2>1. status' \in Status
    BY <1>17, <1>1 DEF Cancel, Status
  <2>. QED
    BY <1>17, <1>2, <2>1 DEF Cancel
<1>18. ASSUME NEW t \in Thread, NEW p \in JobPriority, Escalate(t, p)
       PROVE  status' \in Status /\ RecordTypes' /\ AwaitTypes' /\ adds' \in 0..MaxAdds
  <2>1. status' \in Status
    BY <1>18, <1>1 DEF Escalate, Status
  <2>. QED
    BY <1>18, <1>2, <2>1 DEF Escalate
<1>19. ASSUME NEW t \in Thread, Resume(t)
       PROVE  status' \in Status /\ RecordTypes' /\ AwaitTypes' /\ adds' \in 0..MaxAdds
  <2>1. AwaitTypes'
    BY <1>19, <1>1 DEF Resume, AwaitTypes, pendingToResumed
  <2>. QED
    BY <1>19, <1>2, <2>1 DEF Resume
<1>20. ASSUME NEW t \in Thread, HandlerResumes(t)
       PROVE  status' \in Status /\ RecordTypes' /\ AwaitTypes' /\ adds' \in 0..MaxAdds
  <2>1. AwaitTypes'
    BY <1>20, <1>1 DEF HandlerResumes, AwaitTypes, pendingToResumed
  <2>. QED
    BY <1>20, <1>2, <2>1 DEF HandlerResumes
<1>21. ASSUME NEW t \in Thread, AddLockless(t)
       PROVE  status' \in Status /\ RecordTypes' /\ AwaitTypes' /\ adds' \in 0..MaxAdds
  <2>. DEFINE s == status
  <2>1. s \in Status
    BY <1>1 DEF Status, Frame
  <2>2. frame[t].rec \in Record
    BY <1>21, <1>1, OwnerAdds DEF AddLockless, At
  <2>3. CASE shouldAddRecord(t, s)
    <3>1. Emplace(t, s) /\ status' = withInnermostRecord(t, s)
      BY <1>21, <2>3 DEF AddLockless
    <3>2. status' \in Status
      BY <2>1, <2>2, <3>1, InnermostTypes
    <3>3. UNCHANGED <<kind, children, ran, scopes>>
      BY <1>21 DEF AddLockless
    <3>. HIDE DEF s
    <3>4. RecordTypes'
      BY <1>1, <2>1, <2>2, <3>1, <3>3, EmplaceTypes
    <3>. QED
      BY <1>21, <1>2, <3>2, <3>4 DEF AddLockless
  <2>4. CASE ~shouldAddRecord(t, s)
    <3>1. status' = s /\ UNCHANGED records
      BY <1>21, <2>4 DEF AddLockless, records
    <3>. QED
      BY <1>21, <1>2, <2>1, <3>1 DEF AddLockless
  <2>. QED
    BY <2>3, <2>4
<1>22. ASSUME NEW t \in Thread, AddSeesLock(t)
       PROVE  status' \in Status /\ RecordTypes' /\ AwaitTypes' /\ adds' \in 0..MaxAdds
  BY <1>22, <1>2 DEF AddSeesLock
<1>23. ASSUME NEW t \in Thread, FireHandlerNow(t)
       PROVE  status' \in Status /\ RecordTypes' /\ AwaitTypes' /\ adds' \in 0..MaxAdds
  <2>9. frame[t].rec \in Record
    BY <1>23, <1>1, OwnerAdds DEF FireHandlerNow, At
  <2>1. ran' \in [Record -> Nat]
    BY <1>23, <1>1, <2>9 DEF FireHandlerNow, RecordTypes
  <2>10. RecordTypes'
    BY <1>23, <1>1, <2>1 DEF FireHandlerNow, RecordTypes
  <2>. QED
    BY <1>23, <1>2, <2>10 DEF FireHandlerNow
<1>24. ASSUME NEW t \in Thread, DropFired(t)
       PROVE  status' \in Status /\ RecordTypes' /\ AwaitTypes' /\ adds' \in 0..MaxAdds
  <2>1. RecordTypes'
    BY <1>24, <1>1, DeallocTypes DEF DropFired
  <2>. QED
    BY <1>24, <1>2, <2>1 DEF DropFired
<1>25. ASSUME NEW t \in Thread, RemoveLockless(t)
       PROVE  status' \in Status /\ RecordTypes' /\ AwaitTypes' /\ adds' \in 0..MaxAdds
  <2>1. \A s \in Status : withFlags(t, s) \in Status
    BY ZenonT(60) DEF withFlags, Status
  <2>2. [status EXCEPT !.record = parent[frame[t].rec]] \in Status
    <3>1. frame[t].rec \in Record
      BY <1>25, <1>1, OwnerAdds DEF RemoveLockless, At
    <3>. QED
      BY <1>1, <3>1 DEF RecordTypes, Status
  <2>3. RecordTypes'
    BY <1>25, <1>1, DeallocTypes DEF RemoveLockless
  <2>. QED
    BY <1>25, <1>2, <2>1, <2>2, <2>3 DEF RemoveLockless
<1>26. ASSUME NEW t \in Thread, RemoveSeesLock(t)
       PROVE  status' \in Status /\ RecordTypes' /\ AwaitTypes' /\ adds' \in 0..MaxAdds
  BY <1>26, <1>2 DEF RemoveSeesLock
<1>27. ASSUME NEW t \in Thread, Lock(t)
       PROVE  status' \in Status /\ RecordTypes' /\ AwaitTypes' /\ adds' \in 0..MaxAdds
  BY <1>27, <1>2 DEF Lock
<1>28. ASSUME NEW t \in Thread, SetBit(t)
       PROVE  status' \in Status /\ RecordTypes' /\ AwaitTypes' /\ adds' \in 0..MaxAdds
  <2>1. status' \in Status
    BY <1>28, <1>1 DEF SetBit, Status
  <2>. QED
    BY <1>28, <1>2, <2>1 DEF SetBit
<1>29. ASSUME NEW t \in Thread, FnRemove(t)
       PROVE  status' \in Status /\ RecordTypes' /\ AwaitTypes' /\ adds' \in 0..MaxAdds
  <2>9. frame[t].rec \in Record
    <3>1. Op(t) \in Removing
      BY <1>29 DEF FnRemove, Removing
    <3>. QED
      BY <1>1, <3>1, OwnerAdds
  <2>8. UNCHANGED parent \/ \E r \in Record : Unlink(r)
    BY <1>29, <2>9 DEF FnRemove
  <2>1. parent' \in [Record -> Record \cup {Null}]
    BY <1>1, <2>8, UnlinkTypes
  <2>10. RecordTypes'
    BY <1>29, <1>1, <2>1 DEF FnRemove, RecordTypes
  <2>. QED
    BY <1>29, <1>2, <2>10 DEF FnRemove
<1>30. ASSUME NEW t \in Thread, FnPop(t)
       PROVE  status' \in Status /\ RecordTypes' /\ AwaitTypes' /\ adds' \in 0..MaxAdds
  <2>8. UNCHANGED parent \/ \E r \in Record : Unlink(r)
    BY <1>30 DEF FnPop, matchOfKind, OfKind, Linked, ChainFrom
  <2>1. parent' \in [Record -> Record \cup {Null}]
    BY <1>1, <2>8, UnlinkTypes
  <2>10. RecordTypes'
    BY <1>30, <1>1, <2>1 DEF FnPop, RecordTypes
  <2>. QED
    BY <1>30, <1>2, <2>10 DEF FnPop
<1>31. ASSUME NEW t \in Thread, UpdateRemove(t)
       PROVE  status' \in Status /\ RecordTypes' /\ AwaitTypes' /\ adds' \in 0..MaxAdds
  <2>1. \A s \in Status : withFlags(t, s) \in Status
    BY ZenonT(60) DEF withFlags, Status
  <2>. DEFINE gone == IF Op(t) = "pop" THEN frame[t].cur ELSE frame[t].rec
              s == [status EXCEPT !.locked = frame[t].already,
                                  !.record = IF status.record = gone THEN parent[gone] ELSE @,
                                  !.preference = @ /\ ~frame[t].flag]
  <2>2. gone \in Record
    BY <1>31, <1>1
    DEF UpdateRemove, At, Op, Removing, FrameInv, FrameOk, PcsOf, ScopeInv, ScopeOk, Frame
  <2>3. status' = withFlags(t, s)
    BY <1>31 DEF UpdateRemove
  <2>. HIDE DEF gone
  <2>4. s \in Status
    BY <1>1, <2>2 DEF RecordTypes, Status, Frame
  <2>. QED
    BY <1>31, <1>2, <2>1, <2>3, <2>4 DEF UpdateRemove
<1>32. ASSUME NEW t \in Thread, UpdateAdd(t)
       PROVE  status' \in Status /\ RecordTypes' /\ AwaitTypes' /\ adds' \in 0..MaxAdds
  <2>. DEFINE s == [status EXCEPT !.locked = frame[t].already]
  <2>1. s \in Status
    BY <1>1 DEF Status, Frame
  <2>2. frame[t].rec \in Record
    BY <1>32, <1>1, OwnerAdds DEF UpdateAdd, At
  <2>3. CASE shouldAddRecord(t, s)
    <3>1. Emplace(t, s) /\ status' = withInnermostRecord(t, s)
      BY <1>32, <2>3 DEF UpdateAdd
    <3>2. status' \in Status
      BY <2>1, <2>2, <3>1, InnermostTypes
    <3>3. UNCHANGED <<kind, children, ran, scopes>>
      BY <1>32 DEF UpdateAdd
    <3>. HIDE DEF s
    <3>4. RecordTypes'
      BY <1>1, <2>1, <2>2, <3>1, <3>3, EmplaceTypes
    <3>. QED
      BY <1>32, <1>2, <3>2, <3>4 DEF UpdateAdd
  <2>4. CASE ~shouldAddRecord(t, s)
    <3>1. status' = s /\ UNCHANGED records
      BY <1>32, <2>4 DEF UpdateAdd, records
    <3>. QED
      BY <1>32, <1>2, <2>1, <3>1 DEF UpdateAdd
  <2>. QED
    BY <2>3, <2>4
<1>33. ASSUME NEW t \in Thread, UpdateResume(t)
       PROVE  status' \in Status /\ RecordTypes' /\ AwaitTypes' /\ adds' \in 0..MaxAdds
  <2>1. children' \in [Record -> SUBSET Child]
    BY <1>33, <1>1 DEF UpdateResume, RecordTypes
  <2>2. child' \in [Child -> [cancelled: BOOLEAN, priority: JobPriority \cup {UserInitiated}]]
    BY <1>33, <1>1, <1>3 DEF UpdateResume, RecordTypes, ChildrenWithout
  <2>10. RecordTypes'
    BY <1>33, <1>1, <2>1, <2>2 DEF UpdateResume, RecordTypes
  <2>11. status' \in Status
    BY <1>33, <1>1 DEF UpdateResume, Status, Frame
  <2>. QED
    BY <1>33, <1>2, <2>10, <2>11 DEF UpdateResume
<1>34. ASSUME NEW t \in Thread, UpdatePlain(t)
       PROVE  status' \in Status /\ RecordTypes' /\ AwaitTypes' /\ adds' \in 0..MaxAdds
  <2>1. status' \in Status
    BY <1>34, <1>1 DEF UpdatePlain, Status, Frame
  <2>. QED
    BY <1>34, <1>2, <2>1 DEF UpdatePlain
<1>35. ASSUME NEW t \in Thread, Unlock(t)
       PROVE  status' \in Status /\ RecordTypes' /\ AwaitTypes' /\ adds' \in 0..MaxAdds
  <2>1. RecordTypes'
    BY <1>35, <1>1, <1>2, DeallocTypes DEF Unlock
  <2>. QED
    BY <1>35, <1>2, <2>1 DEF Unlock
<1>36. ASSUME NEW t \in Thread, FnAttach(t)
       PROVE  status' \in Status /\ RecordTypes' /\ AwaitTypes' /\ adds' \in 0..MaxAdds
  <2>8. Op(t) \in InGroup /\ frame[t].op # "cancelAll"
    BY <1>36 DEF FnAttach, Op, InGroup
  <2>9. /\ frame[t].rec \in Record /\ frame[t].kid \in Child
        /\ frame[t].old.cancelled \in BOOLEAN
        /\ withUserInteractivePriorityDowngrade(frame[t].old.priority)
             \in JobPriority \cup {UserInitiated}
    BY <1>1, <2>8, OwnerAttaches DEF Frame, Loaded, withUserInteractivePriorityDowngrade
  <2>1. children' \in [Record -> SUBSET Child]
    BY <1>36, <1>1, <2>9 DEF FnAttach, RecordTypes
  <2>2. child' \in [Child -> [cancelled: BOOLEAN, priority: JobPriority \cup {UserInitiated}]]
    BY <1>36, <1>1, <2>9 DEF FnAttach, RecordTypes, updateNewChild
  <2>10. RecordTypes'
    BY <1>36, <1>1, <2>1, <2>2 DEF FnAttach, RecordTypes
  <2>. QED
    BY <1>36, <1>2, <2>10 DEF FnAttach
<1>37. ASSUME NEW t \in Thread, FnDetach(t)
       PROVE  status' \in Status /\ RecordTypes' /\ AwaitTypes' /\ adds' \in 0..MaxAdds
  <2>1. children' \in [Record -> SUBSET Child]
    BY <1>37, <1>1 DEF FnDetach, RecordTypes
  <2>2. child' \in [Child -> [cancelled: BOOLEAN, priority: JobPriority \cup {UserInitiated}]]
    BY <1>37, <1>1, <1>3 DEF FnDetach, RecordTypes
  <2>10. RecordTypes'
    BY <1>37, <1>1, <2>1, <2>2 DEF FnDetach, RecordTypes
  <2>. QED
    BY <1>37, <1>2, <2>10 DEF FnDetach
<1>38. ASSUME NEW t \in Thread, FnCancelAll(t)
       PROVE  status' \in Status /\ RecordTypes' /\ AwaitTypes' /\ adds' \in 0..MaxAdds
  <2>1. child' \in [Child -> [cancelled: BOOLEAN, priority: JobPriority \cup {UserInitiated}]]
    BY <1>38, <1>1 DEF FnCancelAll, RecordTypes, CancelChildren
  <2>10. RecordTypes'
    BY <1>38, <1>1, <2>1 DEF FnCancelAll, RecordTypes
  <2>. QED
    BY <1>38, <1>2, <2>10 DEF FnCancelAll
<1>39. ASSUME NEW t \in Thread, WalkCancel(t)
       PROVE  status' \in Status /\ RecordTypes' /\ AwaitTypes' /\ adds' \in 0..MaxAdds
  <2>1. child' \in [Child -> [cancelled: BOOLEAN, priority: JobPriority \cup {UserInitiated}]]
    BY <1>39, <1>1 DEF WalkCancel, RecordTypes, CancelChildren
  <2>2. isCancelled' \in [Record -> BOOLEAN]
    BY <1>39, <1>1 DEF WalkCancel, RecordTypes
  <2>10. RecordTypes'
    BY <1>39, <1>1, <2>1, <2>2 DEF WalkCancel, RecordTypes
  <2>. QED
    BY <1>39, <1>2, <2>10 DEF WalkCancel
<1>40. ASSUME NEW t \in Thread, WalkHandler(t)
       PROVE  status' \in Status /\ RecordTypes' /\ AwaitTypes' /\ adds' \in 0..MaxAdds
  <2>1. ran' \in [Record -> Nat]
    BY <1>40, <1>1 DEF WalkHandler, RecordTypes, Frame
  <2>10. RecordTypes'
    BY <1>40, <1>1, <2>1 DEF WalkHandler, RecordTypes
  <2>. QED
    BY <1>40, <1>2, <2>10 DEF WalkHandler
<1>41. ASSUME NEW t \in Thread, WalkNext(t)
       PROVE  status' \in Status /\ RecordTypes' /\ AwaitTypes' /\ adds' \in 0..MaxAdds
  BY <1>41, <1>2 DEF WalkNext
<1>42. ASSUME NEW t \in Thread, WalkEscalate(t)
       PROVE  status' \in Status /\ RecordTypes' /\ AwaitTypes' /\ adds' \in 0..MaxAdds
  <2>9. \A q \in JobPriority \cup {UserInitiated} :
          Higher(q, frame[t].prio) \in JobPriority \cup {UserInitiated}
    BY <1>1 DEF Frame, Higher
  <2>1. child' \in [Child -> [cancelled: BOOLEAN, priority: JobPriority \cup {UserInitiated}]]
    BY <1>42, <1>1, <2>9 DEF WalkEscalate, RecordTypes, Escalated
  <2>10. RecordTypes'
    BY <1>42, <1>1, <2>1 DEF WalkEscalate, RecordTypes
  <2>. QED
    BY <1>42, <1>2, <2>10 DEF WalkEscalate
<1>43. ASSUME NEW t \in Thread, WalkEnd(t)
       PROVE  status' \in Status /\ RecordTypes' /\ AwaitTypes' /\ adds' \in 0..MaxAdds
  BY <1>43, <1>2 DEF WalkEnd
<1>44. ASSUME NEW t \in Thread, Enqueue(t)
       PROVE  status' \in Status /\ RecordTypes' /\ AwaitTypes' /\ adds' \in 0..MaxAdds
  <2>1. AwaitTypes'
    BY <1>44, <1>1 DEF Enqueue, AwaitTypes, Frame, Loaded
  <2>. QED
    BY <1>44, <1>2, <2>1 DEF Enqueue
<1>45. ASSUME AwaitFindsResumed
       PROVE  status' \in Status /\ RecordTypes' /\ AwaitTypes' /\ adds' \in 0..MaxAdds
  <2>1. AwaitTypes'
    BY <1>45, <1>1 DEF AwaitFindsResumed, AwaitTypes
  <2>. QED
    BY <1>45, <1>2, <2>1 DEF AwaitFindsResumed
<1>46. ASSUME NEW r \in Record, FlagAsSuspended(r)
       PROVE  status' \in Status /\ RecordTypes' /\ AwaitTypes' /\ adds' \in 0..MaxAdds
  <2>1. StartAdd(r, "dependency", "suspend", {frame[Owner].kid} \ {Null})
    BY <1>46 DEF FlagAsSuspended
  <2>2. {frame[Owner].kid} \ {Null} \in SUBSET Child
    BY <1>1 DEF Frame
  <2>. QED
    BY <1>1, <1>2, <2>1, StartTypes, <2>2 DEF Kinds
<1>47. ASSUME AwaitSucceeds
       PROVE  status' \in Status /\ RecordTypes' /\ AwaitTypes' /\ adds' \in 0..MaxAdds
  <2>1. AwaitTypes'
    BY <1>47, <1>1 DEF AwaitSucceeds, AwaitTypes
  <2>. QED
    BY <1>47, <1>2, <2>1 DEF AwaitSucceeds
<1>48. ASSUME PreawaitSucceeds
       PROVE  status' \in Status /\ RecordTypes' /\ AwaitTypes' /\ adds' \in 0..MaxAdds
  <2>1. AwaitTypes'
    BY <1>48, <1>1 DEF PreawaitSucceeds, AwaitTypes
  <2>. QED
    BY <1>48, <1>2, <2>1 DEF PreawaitSucceeds
<1>49. ASSUME AwaitLoses
       PROVE  status' \in Status /\ RecordTypes' /\ AwaitTypes' /\ adds' \in 0..MaxAdds
  <2>1. AwaitTypes'
    BY <1>49, <1>1 DEF AwaitLoses, AwaitTypes, FlagAsRunning
  <2>. QED
    BY <1>49, <1>2, <2>1 DEF AwaitLoses, FlagAsRunning
<1>50. ASSUME RunJob
       PROVE  status' \in Status /\ RecordTypes' /\ AwaitTypes' /\ adds' \in 0..MaxAdds
  <2>1. AwaitTypes'
    BY <1>50, <1>1 DEF RunJob, AwaitTypes, FlagAsRunning
  <2>. QED
    BY <1>50, <1>2, <2>1 DEF RunJob, FlagAsRunning
<1>. QED
  BY <1>4, <1>5, <1>6, <1>7, <1>8, <1>9, <1>10, <1>11, <1>12, <1>13, <1>14, <1>15, <1>16,
     <1>17, <1>18, <1>19, <1>20, <1>21, <1>22, <1>23, <1>24, <1>25, <1>26, <1>27, <1>28, <1>29,
     <1>30, <1>31, <1>32, <1>33, <1>34, <1>35, <1>36, <1>37, <1>38, <1>39, <1>40, <1>41, <1>42,
     <1>43, <1>44, <1>45, <1>46, <1>47, <1>48, <1>49, <1>50
  DEF Next, Call, LockStep, AwaitStep

\* The mutex and the bit: who holds the mutex has set the bit, or is about to.
LEMMA LockStepHolds ==
  ASSUME TypeOK, FrameInv, MutexInv, BitInv, ScopeInv, Next
  PROVE  MutexInv' /\ BitInv' /\ mutex' \in [holder: Thread \cup {Null}, depth: 0..2]
<1>1. /\ TypeOK /\ FrameInv /\ MutexInv /\ BitInv /\ ScopeInv
      /\ frame \in [Thread -> Frame] /\ status \in Status
      /\ mutex \in [holder: Thread \cup {Null}, depth: 0..2]
      /\ Owner \in Thread /\ Null \notin Thread
  BY TaskAssumption DEF TypeOK, Thread
<1>2. Depth(NoCall) = 0 /\ ~HasBit(NoCall) /\ BitOk(NoCall)
  BY DEF NoCall, Depth, HasBit, BitOk
<1>3. ASSUME NEW t \in Thread
      PROVE  FrameOk(t, frame[t]) /\ BitOk(frame[t])
  BY <1>1 DEF FrameInv, BitInv
<1>4. \A t \in Thread : frame[t].pc = "idle" => SameHold(frame[t], frame[t])
  BY <1>1, <1>3 DEF SameHold
<1>5. ASSUME NEW r \in Record, NEW k \in {"cancel", "escalation", "group", "preference"},
             EnterScope(r, k)
      PROVE  MutexInv' /\ BitInv' /\ mutex' \in [holder: Thread \cup {Null}, depth: 0..2]
  <2>1. \A u \in Thread : SameHold(frame[u], frame'[u])
    BY <1>5, <1>1, <1>2, <1>3 DEF EnterScope, StartAdd, OnTask, MaySuspend, Idle, NoCall, FrameOk,
                               SameHold, Depth, HasBit, BitOk
  <2>2. UNCHANGED mutex /\ status'.locked = status.locked
    BY <1>5 DEF EnterScope, StartAdd
  <2>. QED
    BY <1>1, <2>1, <2>2, HoldKept
<1>6. ASSUME NEW r \in Record, NEW c \in Child, AsyncLet(r, c)
      PROVE  MutexInv' /\ BitInv' /\ mutex' \in [holder: Thread \cup {Null}, depth: 0..2]
  <2>1. \A u \in Thread : SameHold(frame[u], frame'[u])
    BY <1>6, <1>1, <1>2, <1>3 DEF AsyncLet, StartAdd, OnTask, MaySuspend, Idle, NoCall, FrameOk,
                               SameHold, Depth, HasBit, BitOk
  <2>2. UNCHANGED mutex /\ status'.locked = status.locked
    BY <1>6 DEF AsyncLet, StartAdd
  <2>. QED
    BY <1>1, <2>1, <2>2, HoldKept
<1>7. ASSUME NEW r \in Record, FlagAsAndEnqueueOnExecutor(r)
      PROVE  MutexInv' /\ BitInv' /\ mutex' \in [holder: Thread \cup {Null}, depth: 0..2]
  <2>1. \A u \in Thread : SameHold(frame[u], frame'[u])
    BY <1>7, <1>1, <1>2, <1>3 DEF FlagAsAndEnqueueOnExecutor, StartAdd, OnTask, MaySuspend, Idle,
                               NoCall, FrameOk, SameHold, Depth, HasBit, BitOk
  <2>2. UNCHANGED mutex /\ status'.locked = status.locked
    BY <1>7 DEF FlagAsAndEnqueueOnExecutor, StartAdd
  <2>. QED
    BY <1>1, <2>1, <2>2, HoldKept
<1>8. ASSUME ExitScope
      PROVE  MutexInv' /\ BitInv' /\ mutex' \in [holder: Thread \cup {Null}, depth: 0..2]
  <2>1. \A u \in Thread : SameHold(frame[u], frame'[u])
    BY <1>8, <1>1, <1>2, <1>3 DEF ExitScope, OnTask, Idle, NoCall, FrameOk, SameHold, Depth,
                               HasBit, BitOk
  <2>2. UNCHANGED mutex /\ status'.locked = status.locked
    BY <1>8 DEF ExitScope
  <2>. QED
    BY <1>1, <2>1, <2>2, HoldKept
<1>9. ASSUME PopScope
      PROVE  MutexInv' /\ BitInv' /\ mutex' \in [holder: Thread \cup {Null}, depth: 0..2]
  <2>1. \A u \in Thread : SameHold(frame[u], frame'[u])
    BY <1>9, <1>1, <1>2, <1>3 DEF PopScope, OnTask, Idle, NoCall, FrameOk, SameHold, Depth,
                               HasBit, BitOk
  <2>2. UNCHANGED mutex /\ status'.locked = status.locked
    BY <1>9 DEF PopScope
  <2>. QED
    BY <1>1, <2>1, <2>2, HoldKept
<1>10. ASSUME NEW r \in Record, NEW c \in Child, AttachChild(r, c)
       PROVE  MutexInv' /\ BitInv' /\ mutex' \in [holder: Thread \cup {Null}, depth: 0..2]
  <2>1. \A u \in Thread : SameHold(frame[u], frame'[u])
    BY <1>10, <1>1, <1>2, <1>3 DEF AttachChild, WithLock, OnTask, Idle, NoCall, FrameOk, SameHold,
                               Depth, HasBit, BitOk
  <2>2. UNCHANGED mutex /\ status'.locked = status.locked
    BY <1>10 DEF AttachChild
  <2>. QED
    BY <1>1, <2>1, <2>2, HoldKept
<1>11. ASSUME NEW r \in Record, NEW c \in Child, DetachChild(r, c)
       PROVE  MutexInv' /\ BitInv' /\ mutex' \in [holder: Thread \cup {Null}, depth: 0..2]
  <2>1. \A u \in Thread : SameHold(frame[u], frame'[u])
    BY <1>11, <1>1, <1>2, <1>3 DEF DetachChild, WithLock, OnTask, Idle, NoCall, FrameOk, SameHold,
                               Depth, HasBit, BitOk
  <2>2. UNCHANGED mutex /\ status'.locked = status.locked
    BY <1>11 DEF DetachChild
  <2>. QED
    BY <1>1, <2>1, <2>2, HoldKept
<1>12. ASSUME NEW r \in Record, CancelAll(r)
       PROVE  MutexInv' /\ BitInv' /\ mutex' \in [holder: Thread \cup {Null}, depth: 0..2]
  <2>. DEFINE f == [NoCall EXCEPT !.pc = "lock", !.op = "cancelAll", !.rec = r, !.kid = Null,
                                  !.old = Load(status)]
  <2>4. frame[Owner].pc = "idle" /\ (UNCHANGED frame \/ frame' = [frame EXCEPT ![Owner] = f])
    BY <1>12 DEF CancelAll, WithLock, OnTask, Idle
  <2>5. f.pc = "lock" /\ ~f.nested
    BY DEF NoCall
  <2>. HIDE DEF f
  <2>3. \A u \in Thread : \/ frame'[u] = frame[u]
                         \/ /\ frame[u].pc = "idle"
                            /\ frame'[u].pc = "lock" /\ ~frame'[u].nested
    BY <1>1, <2>4, <2>5
  <2>1. \A u \in Thread : SameHold(frame[u], frame'[u])
    BY <1>3, <2>3 DEF SameHold, Depth, HasBit, BitOk, FrameOk, NoCall
  <2>2. UNCHANGED mutex /\ status'.locked = status.locked
    BY <1>12, <1>1 DEF CancelAll
  <2>. QED
    BY <1>1, <2>1, <2>2, HoldKept
<1>13. ASSUME ContinuationInit
       PROVE  MutexInv' /\ BitInv' /\ mutex' \in [holder: Thread \cup {Null}, depth: 0..2]
  <2>1. \A u \in Thread : SameHold(frame[u], frame'[u])
    BY <1>13, <1>1, <1>2, <1>3 DEF ContinuationInit, Goto, MaySuspend, OnTask, Idle, NoCall,
                               FrameOk, SameHold, Depth, HasBit, BitOk
  <2>2. UNCHANGED mutex /\ status'.locked = status.locked
    BY <1>13 DEF ContinuationInit
  <2>. QED
    BY <1>1, <2>1, <2>2, HoldKept
<1>14. ASSUME NEW r \in Record, ContinuationInitPreawaited(r)
       PROVE  MutexInv' /\ BitInv' /\ mutex' \in [holder: Thread \cup {Null}, depth: 0..2]
  <2>1. \A u \in Thread : SameHold(frame[u], frame'[u])
    BY <1>14, <1>1, <1>2, <1>3 DEF ContinuationInitPreawaited, StartAdd, OnTask, MaySuspend, Idle,
                               NoCall, FrameOk, SameHold, Depth, HasBit, BitOk
  <2>2. UNCHANGED mutex /\ status'.locked = status.locked
    BY <1>14 DEF ContinuationInitPreawaited, StartAdd
  <2>. QED
    BY <1>1, <2>1, <2>2, HoldKept
<1>15. ASSUME NEW c \in Child, WaitFuture(c)
       PROVE  MutexInv' /\ BitInv' /\ mutex' \in [holder: Thread \cup {Null}, depth: 0..2]
  <2>1. \A u \in Thread : SameHold(frame[u], frame'[u])
    BY <1>15, <1>1, <1>2, <1>3 DEF WaitFuture, MaySuspend, OnTask, Idle, NoCall, FrameOk,
       SameHold,
                               Depth, HasBit, BitOk
  <2>2. UNCHANGED mutex /\ status'.locked = status.locked
    BY <1>15 DEF WaitFuture
  <2>. QED
    BY <1>1, <2>1, <2>2, HoldKept
<1>16. ASSUME RunImmediately
       PROVE  MutexInv' /\ BitInv' /\ mutex' \in [holder: Thread \cup {Null}, depth: 0..2]
  <2>1. \A u \in Thread : SameHold(frame[u], frame'[u])
    BY <1>16, <1>1, <1>2, <1>3 DEF RunImmediately, SameHold, Depth, HasBit, BitOk
  <2>2. UNCHANGED mutex /\ status'.locked = status.locked
    BY <1>16, <1>1 DEF RunImmediately, Status
  <2>. QED
    BY <1>1, <2>1, <2>2, HoldKept
<1>17. ASSUME Complete
       PROVE  MutexInv' /\ BitInv' /\ mutex' \in [holder: Thread \cup {Null}, depth: 0..2]
  <2>1. \A u \in Thread : SameHold(frame[u], frame'[u])
    BY <1>17, <1>1, <1>2, <1>3 DEF Complete, SameHold, Depth, HasBit, BitOk
  <2>2. UNCHANGED mutex /\ status'.locked = status.locked
    BY <1>17, <1>1 DEF Complete, Status
  <2>. QED
    BY <1>1, <2>1, <2>2, HoldKept
<1>18. ASSUME NEW t \in Thread, Cancel(t)
       PROVE  MutexInv' /\ BitInv' /\ mutex' \in [holder: Thread \cup {Null}, depth: 0..2]
  <2>. DEFINE f == [NoCall EXCEPT !.pc = "lock", !.op = "cancel",
                                  !.old = Load([status EXCEPT !.cancelled = TRUE])]
  <2>4. frame[t].pc = "idle" /\ (UNCHANGED frame \/ frame' = [frame EXCEPT ![t] = f])
    BY <1>18 DEF Cancel, Idle
  <2>5. f.pc = "lock" /\ ~f.nested
    BY DEF NoCall
  <2>. HIDE DEF f
  <2>3. \A u \in Thread : \/ frame'[u] = frame[u]
                         \/ /\ frame[u].pc = "idle"
                            /\ frame'[u].pc = "lock" /\ ~frame'[u].nested
    BY <1>1, <2>4, <2>5
  <2>1. \A u \in Thread : SameHold(frame[u], frame'[u])
    BY <1>3, <2>3 DEF SameHold, Depth, HasBit, BitOk, FrameOk, NoCall
  <2>2. UNCHANGED mutex /\ status'.locked = status.locked
    BY <1>18, <1>1 DEF Cancel, Status
  <2>. QED
    BY <1>1, <2>1, <2>2, HoldKept
<1>19. ASSUME NEW t \in Thread, NEW p \in JobPriority, Escalate(t, p)
       PROVE  MutexInv' /\ BitInv' /\ mutex' \in [holder: Thread \cup {Null}, depth: 0..2]
  <2>. DEFINE f == [NoCall EXCEPT !.pc = "lock", !.prio = p, !.op = "escalate",
                                  !.old = Load([status EXCEPT !.priority = p,
                !.escalated = @ \/ status.running \/ status.enqueued])]
  <2>4. frame[t].pc = "idle" /\ (UNCHANGED frame \/ frame' = [frame EXCEPT ![t] = f])
    BY <1>19 DEF Escalate, Idle, Load
  <2>5. f.pc = "lock" /\ ~f.nested
    BY DEF NoCall
  <2>. HIDE DEF f
  <2>3. \A u \in Thread : \/ frame'[u] = frame[u]
                         \/ /\ frame[u].pc = "idle"
                            /\ frame'[u].pc = "lock" /\ ~frame'[u].nested
    BY <1>1, <2>4, <2>5
  <2>1. \A u \in Thread : SameHold(frame[u], frame'[u])
    BY <1>3, <2>3 DEF SameHold, Depth, HasBit, BitOk, FrameOk, NoCall
  <2>2. UNCHANGED mutex /\ status'.locked = status.locked
    BY <1>19, <1>1 DEF Escalate, Status
  <2>. QED
    BY <1>1, <2>1, <2>2, HoldKept
<1>20. ASSUME NEW t \in Thread, Resume(t)
       PROVE  MutexInv' /\ BitInv' /\ mutex' \in [holder: Thread \cup {Null}, depth: 0..2]
  <2>. DEFINE f == [NoCall EXCEPT !.pc = "lock", !.op = "resume", !.old = Load(status)]
  <2>4. frame[t].pc = "idle" /\ (UNCHANGED frame \/ frame' = [frame EXCEPT ![t] = f])
    BY <1>20 DEF Resume, Idle
  <2>5. f.pc = "lock" /\ ~f.nested
    BY DEF NoCall
  <2>. HIDE DEF f
  <2>3. \A u \in Thread : \/ frame'[u] = frame[u]
                         \/ /\ frame[u].pc = "idle"
                            /\ frame'[u].pc = "lock" /\ ~frame'[u].nested
    BY <1>1, <2>4, <2>5
  <2>1. \A u \in Thread : SameHold(frame[u], frame'[u])
    BY <1>3, <2>3 DEF SameHold, Depth, HasBit, BitOk, FrameOk, NoCall
  <2>2. UNCHANGED mutex /\ status'.locked = status.locked
    BY <1>20, <1>1 DEF Resume
  <2>. QED
    BY <1>1, <2>1, <2>2, HoldKept
<1>21. ASSUME NEW t \in Thread, HandlerResumes(t)
       PROVE  MutexInv' /\ BitInv' /\ mutex' \in [holder: Thread \cup {Null}, depth: 0..2]
  <2>3. ~frame[t].nested /\ status.locked /\ frame[t].pc = "next"
    BY <1>21, <1>1, <1>3 DEF HandlerResumes, At, BitInv, HasBit, FrameOk, PcsOf
  <2>4. \A u \in Thread : \/ frame'[u] = frame[u]
                         \/ /\ u = t /\ frame'[u].pc = "lock" /\ frame'[u].nested
                            /\ frame'[u].old.locked = status.locked
    <3>. DEFINE f == [frame[t] EXCEPT !.nested = TRUE, !.pc = "lock", !.old = Load(status)]
    <3>1. UNCHANGED frame \/ frame' = [frame EXCEPT ![t] = f]
      BY <1>21, <1>1 DEF HandlerResumes
    <3>2. f.pc = "lock" /\ f.nested /\ f.old.locked = status.locked
      BY <1>1 DEF Frame, Load
    <3>. HIDE DEF f
    <3>. QED
      BY <1>1, <3>1, <3>2
  <2>1. \A u \in Thread : SameHold(frame[u], frame'[u])
    BY <1>3, <2>3, <2>4 DEF SameHold, Depth, HasBit, BitOk
  <2>2. UNCHANGED mutex /\ status'.locked = status.locked
    BY <1>21 DEF HandlerResumes
  <2>. QED
    BY <1>1, <2>1, <2>2, HoldKept
<1>22. ASSUME NEW t \in Thread, AddLockless(t)
       PROVE  MutexInv' /\ BitInv' /\ mutex' \in [holder: Thread \cup {Null}, depth: 0..2]
  <2>9. ~frame[t].nested /\ frame[t].op \in Adding
    BY <1>22, <1>1, OwnerAdds DEF AddLockless, At
  <2>10. AfterAdd(t).pc \in {"idle", "awaited", "enqueue"} /\ ~AfterAdd(t).nested
    BY <1>1, <2>9 DEF AfterAdd, Adding, NoCall, Frame
  <2>11. frame' = [frame EXCEPT ![t] = NoCall]
         \/ frame' = [frame EXCEPT ![t] = [AfterAdd(t) EXCEPT !.old = Load(status)]]
         \/ Goto(t, "fire")
    BY <1>22 DEF AddLockless
  <2>12. AfterAdd(t) \in Frame
    BY <1>1, <2>9, NoCallOk DEF AfterAdd, Adding, Frame, Pcs
  <2>. DEFINE f == [AfterAdd(t) EXCEPT !.old = Load(status)]
  <2>13. f.pc \in {"idle", "awaited", "enqueue"} /\ ~f.nested
    BY <2>10, <2>12 DEF Frame
  <2>. HIDE DEF f
  <2>1. \A u \in Thread : SameHold(frame[u], frame'[u])
    <3>1. \A u \in Thread :
            \/ frame'[u] = frame[u]
            \/ /\ u = t /\ ~frame'[u].nested
               /\ frame'[u].pc \in {"idle", "awaited", "enqueue", "fire"}
      <4>1. CASE frame' = [frame EXCEPT ![t] = NoCall]
        BY <1>1, <4>1 DEF NoCall
      <4>2. CASE frame' = [frame EXCEPT ![t] = f]
        BY <1>1, <2>13, <4>2
      <4>3. CASE Goto(t, "fire")
        BY <1>1, <2>9, <4>3 DEF Goto, Frame
      <4>. QED
        BY <2>11, <4>1, <4>2, <4>3 DEF f
    <3>. QED
      BY <1>22, <1>3, <2>9, <3>1 DEF AddLockless, At, SameHold, Depth, HasBit, BitOk
  <2>2. UNCHANGED mutex /\ status'.locked = status.locked
    BY <1>22, <1>1 DEF AddLockless, withInnermostRecord, Status
  <2>. QED
    BY <1>1, <2>1, <2>2, HoldKept
<1>23. ASSUME NEW t \in Thread, AddSeesLock(t)
       PROVE  MutexInv' /\ BitInv' /\ mutex' \in [holder: Thread \cup {Null}, depth: 0..2]
  <2>9. ~frame[t].nested
    BY <1>23, <1>1, OwnerAdds DEF AddSeesLock, At
  <2>1. \A u \in Thread : SameHold(frame[u], frame'[u])
    BY <1>23, <1>1, <1>2, <1>3, <2>9 DEF AddSeesLock, At, SameHold, Depth, HasBit, BitOk
  <2>2. UNCHANGED mutex /\ status'.locked = status.locked
    BY <1>23 DEF AddSeesLock
  <2>. QED
    BY <1>1, <2>1, <2>2, HoldKept
<1>24. ASSUME NEW t \in Thread, FireHandlerNow(t)
       PROVE  MutexInv' /\ BitInv' /\ mutex' \in [holder: Thread \cup {Null}, depth: 0..2]
  <2>9. ~frame[t].nested
    BY <1>24, <1>1, OwnerAdds DEF FireHandlerNow, At
  <2>1. \A u \in Thread : SameHold(frame[u], frame'[u])
    BY <1>24, <1>1, <1>2, <1>3, <2>9 DEF FireHandlerNow, At, Goto, SameHold, Depth, HasBit, BitOk
  <2>2. UNCHANGED mutex /\ status'.locked = status.locked
    BY <1>24 DEF FireHandlerNow
  <2>. QED
    BY <1>1, <2>1, <2>2, HoldKept
<1>25. ASSUME NEW t \in Thread, DropFired(t)
       PROVE  MutexInv' /\ BitInv' /\ mutex' \in [holder: Thread \cup {Null}, depth: 0..2]
  <2>9. ~frame[t].nested
    BY <1>25, <1>1, OwnerAdds DEF DropFired, At
  <2>1. \A u \in Thread : SameHold(frame[u], frame'[u])
    BY <1>25, <1>1, <1>2, <1>3, <2>9 DEF DropFired, At, Return, SameHold, Depth, HasBit, BitOk
  <2>2. UNCHANGED mutex /\ status'.locked = status.locked
    BY <1>25 DEF DropFired
  <2>. QED
    BY <1>1, <2>1, <2>2, HoldKept
<1>26. ASSUME NEW t \in Thread, RemoveLockless(t)
       PROVE  MutexInv' /\ BitInv' /\ mutex' \in [holder: Thread \cup {Null}, depth: 0..2]
  <2>9. ~frame[t].nested
    BY <1>26, <1>1, OwnerAdds DEF RemoveLockless, At
  <2>1. \A u \in Thread : SameHold(frame[u], frame'[u])
    BY <1>26, <1>1, <1>2, <1>3, <2>9 DEF RemoveLockless, At, Return, SameHold, Depth, HasBit,
       BitOk
  <2>2. UNCHANGED mutex /\ status'.locked = status.locked
    BY <1>26, <1>1 DEF RemoveLockless, withFlags, Status
  <2>. QED
    BY <1>1, <2>1, <2>2, HoldKept
<1>27. ASSUME NEW t \in Thread, RemoveSeesLock(t)
       PROVE  MutexInv' /\ BitInv' /\ mutex' \in [holder: Thread \cup {Null}, depth: 0..2]
  <2>9. ~frame[t].nested
    BY <1>27, <1>1, OwnerAdds DEF RemoveSeesLock, At
  <2>1. \A u \in Thread : SameHold(frame[u], frame'[u])
    BY <1>27, <1>1, <1>2, <1>3, <2>9 DEF RemoveSeesLock, At, SameHold, Depth, HasBit, BitOk
  <2>2. UNCHANGED mutex /\ status'.locked = status.locked
    BY <1>27 DEF RemoveSeesLock
  <2>. QED
    BY <1>1, <2>1, <2>2, HoldKept
<1>28. ASSUME NEW t \in Thread, Lock(t)
       PROVE  MutexInv' /\ BitInv' /\ mutex' \in [holder: Thread \cup {Null}, depth: 0..2]
  <2>1. /\ \A u \in Thread : u # t => frame'[u] = frame[u]
        /\ frame'[t].pc = "setbit" /\ frame'[t].nested = frame[t].nested
        /\ frame'[t].old = frame[t].old
    BY <1>28, <1>1 DEF Lock, Goto, Frame
  <2>2. Depth(frame[t]) = (IF frame[t].nested THEN 1 ELSE 0)
        /\ Depth(frame'[t]) = Depth(frame[t]) + 1
        /\ HasBit(frame[t]) = HasBit(frame'[t]) /\ BitOk(frame'[t])
    BY <1>28, <1>1, <1>3, <2>1 DEF Lock, At, Depth, HasBit, BitOk
  <2>3. mutex.depth = Depth(frame[t]) /\ (\A u \in Thread : u # t => Depth(frame[u]) = 0)
    BY <1>28, <1>1, <2>2 DEF Lock, MutexInv
  <2>4. mutex' = [holder |-> t, depth |-> Depth(frame'[t])]
    BY <1>28, <2>2, <2>3 DEF Lock
  <2>5. MutexInv'
    BY <1>1, <2>1, <2>2, <2>3, <2>4 DEF MutexInv
  <2>6. status.locked => frame[t].nested /\ HasBit(frame[t])
    BY <1>28, <1>1, <2>2, <2>3 DEF BitInv, MutexInv, Lock
  <2>7. BitInv'
    BY <1>28, <1>1, <2>1, <2>2, <2>4, <2>6 DEF BitInv, Lock
  <2>. QED
    BY <2>2, <2>4, <2>5, <2>7
<1>29. ASSUME NEW t \in Thread, SetBit(t)
       PROVE  MutexInv' /\ BitInv' /\ mutex' \in [holder: Thread \cup {Null}, depth: 0..2]
  <2>1. /\ \A u \in Thread : u # t => frame'[u] = frame[u]
        /\ frame'[t].pc \in {"update", "fn"} /\ frame'[t].nested = frame[t].nested
        /\ frame'[t].already = alreadyLocked(t)
        /\ frame[t].nested => frame'[t].pc = "update"
    BY <1>29, <1>1 DEF SetBit, Op, Frame
  <2>2. Depth(frame[t]) = Depth(frame'[t]) /\ Depth(frame[t]) \in 1..2
    BY <1>29, <1>1, <1>3, <2>1 DEF SetBit, At, Depth, Op, FrameOk, PcsOf, Adding
  <2>3. mutex.holder = t /\ (\A u \in Thread : u # t => ~HasBit(frame[u]))
    BY <1>1, <2>2 DEF MutexInv, HasBit, Depth
  <2>4. UNCHANGED mutex /\ status'.locked
    <3>1. status' = [status EXCEPT !.locked = TRUE] /\ UNCHANGED mutex
      BY <1>29 DEF SetBit
    <3>. QED
      BY <1>1, <3>1 DEF Status
  <2>5. MutexInv'
    BY <1>1, <2>1, <2>2, <2>4 DEF MutexInv
  <2>6. alreadyLocked(t) = frame[t].nested
    <3>1. frame[t].nested \in BOOLEAN /\ frame[t].pc = "setbit"
      BY <1>29, <1>1 DEF Frame, SetBit, At
    <3>2. CASE frame[t].nested = TRUE
      <4>1. frame[t].old.locked /\ status.locked
        BY <1>1, <1>3, <3>1, <3>2 DEF BitInv, BitOk, HasBit
      <4>. QED
        BY <3>2, <4>1 DEF alreadyLocked
    <3>3. CASE frame[t].nested = FALSE
      <4>1. ~HasBit(frame[t])
        BY <3>1, <3>3 DEF HasBit
      <4>2. ~status.locked
        BY <1>1, <2>3, <4>1 DEF BitInv
      <4>. QED
        BY <3>3, <4>2 DEF alreadyLocked
    <3>. QED
      BY <3>1, <3>2, <3>3
  <2>7. BitInv'
    BY <1>1, <2>1, <2>3, <2>4, <2>6 DEF BitInv, BitOk, HasBit
  <2>. QED
    BY <1>1, <2>4, <2>5, <2>7
<1>30. ASSUME NEW t \in Thread, FnRemove(t)
       PROVE  MutexInv' /\ BitInv' /\ mutex' \in [holder: Thread \cup {Null}, depth: 0..2]
  <2>1. \A u \in Thread : SameHold(frame[u], frame'[u])
    BY <1>30, <1>1, <1>2, <1>3 DEF FnRemove, At, Op, Goto, SameHold, Depth, HasBit, BitOk
  <2>2. UNCHANGED mutex /\ status'.locked = status.locked
    BY <1>30 DEF FnRemove
  <2>. QED
    BY <1>1, <2>1, <2>2, HoldKept
<1>31. ASSUME NEW t \in Thread, FnPop(t)
       PROVE  MutexInv' /\ BitInv' /\ mutex' \in [holder: Thread \cup {Null}, depth: 0..2]
  <2>1. \A u \in Thread : SameHold(frame[u], frame'[u])
    BY <1>31, <1>1, <1>2, <1>3 DEF FnPop, At, Op, SameHold, Depth, HasBit, BitOk
  <2>2. UNCHANGED mutex /\ status'.locked = status.locked
    BY <1>31 DEF FnPop
  <2>. QED
    BY <1>1, <2>1, <2>2, HoldKept
<1>32. ASSUME NEW t \in Thread, UpdateRemove(t)
       PROVE  MutexInv' /\ BitInv' /\ mutex' \in [holder: Thread \cup {Null}, depth: 0..2]
  <2>1. /\ \A u \in Thread : u # t => frame'[u] = frame[u]
        /\ frame'[t].pc = "unlock" /\ frame'[t].nested = frame[t].nested
    BY <1>32, <1>1 DEF UpdateRemove, Goto, Frame
  <2>2. Depth(frame[t]) = Depth(frame'[t]) /\ Depth(frame[t]) \in 1..2
    BY <1>32, <1>1, <1>3, <2>1 DEF UpdateRemove, At, Depth, Op, FrameOk, PcsOf, Adding
  <2>3. mutex.holder = t /\ (\A u \in Thread : u # t => ~HasBit(frame[u]))
    BY <1>1, <2>2 DEF MutexInv, HasBit, Depth
  <2>4. UNCHANGED mutex /\ status'.locked = frame[t].already
    BY <1>32, <1>1 DEF UpdateRemove, Status, Frame, withFlags
  <2>5. MutexInv'
    BY <1>1, <2>1, <2>2, <2>4 DEF MutexInv
  <2>6. frame[t].already = frame[t].nested
    BY <1>32, <1>3 DEF UpdateRemove, At, BitOk
  <2>7. BitInv'
    BY <1>1, <2>1, <2>3, <2>4, <2>6 DEF BitInv, BitOk, HasBit
  <2>. QED
    BY <1>1, <2>4, <2>5, <2>7
<1>33. ASSUME NEW t \in Thread, UpdateAdd(t)
       PROVE  MutexInv' /\ BitInv' /\ mutex' \in [holder: Thread \cup {Null}, depth: 0..2]
  <2>1. /\ \A u \in Thread : u # t => frame'[u] = frame[u]
        /\ frame'[t].pc = "unlock" /\ frame'[t].nested = frame[t].nested
    BY <1>33, <1>1 DEF UpdateAdd, Frame
  <2>2. Depth(frame[t]) = Depth(frame'[t]) /\ Depth(frame[t]) \in 1..2
    BY <1>33, <1>1, <1>3, <2>1 DEF UpdateAdd, At, Depth, Op, FrameOk, PcsOf, Adding
  <2>3. mutex.holder = t /\ (\A u \in Thread : u # t => ~HasBit(frame[u]))
    BY <1>1, <2>2 DEF MutexInv, HasBit, Depth
  <2>4. UNCHANGED mutex /\ status'.locked = frame[t].already
    BY <1>33, <1>1 DEF UpdateAdd, Status, Frame, withInnermostRecord
  <2>5. MutexInv'
    BY <1>1, <2>1, <2>2, <2>4 DEF MutexInv
  <2>6. frame[t].already = frame[t].nested
    BY <1>33, <1>3 DEF UpdateAdd, At, BitOk
  <2>7. BitInv'
    BY <1>1, <2>1, <2>3, <2>4, <2>6 DEF BitInv, BitOk, HasBit
  <2>. QED
    BY <1>1, <2>4, <2>5, <2>7
<1>34. ASSUME NEW t \in Thread, UpdateResume(t)
       PROVE  MutexInv' /\ BitInv' /\ mutex' \in [holder: Thread \cup {Null}, depth: 0..2]
  <2>1. /\ \A u \in Thread : u # t => frame'[u] = frame[u]
        /\ frame'[t].pc = "unlock" /\ frame'[t].nested = frame[t].nested
    BY <1>34, <1>1 DEF UpdateResume, Goto, Frame
  <2>2. Depth(frame[t]) = Depth(frame'[t]) /\ Depth(frame[t]) \in 1..2
    BY <1>34, <1>1, <1>3, <2>1 DEF UpdateResume, At, Depth, Op, FrameOk, PcsOf, Adding
  <2>3. mutex.holder = t /\ (\A u \in Thread : u # t => ~HasBit(frame[u]))
    BY <1>1, <2>2 DEF MutexInv, HasBit, Depth
  <2>4. UNCHANGED mutex /\ status'.locked = frame[t].already
    BY <1>34, <1>1 DEF UpdateResume, Status, Frame
  <2>5. MutexInv'
    BY <1>1, <2>1, <2>2, <2>4 DEF MutexInv
  <2>6. frame[t].already = frame[t].nested
    BY <1>34, <1>3 DEF UpdateResume, At, BitOk
  <2>7. BitInv'
    BY <1>1, <2>1, <2>3, <2>4, <2>6 DEF BitInv, BitOk, HasBit
  <2>. QED
    BY <1>1, <2>4, <2>5, <2>7
<1>35. ASSUME NEW t \in Thread, UpdatePlain(t)
       PROVE  MutexInv' /\ BitInv' /\ mutex' \in [holder: Thread \cup {Null}, depth: 0..2]
  <2>1. /\ \A u \in Thread : u # t => frame'[u] = frame[u]
        /\ frame'[t].pc = "unlock" /\ frame'[t].nested = frame[t].nested
    BY <1>35, <1>1 DEF UpdatePlain, Goto, Frame
  <2>2. Depth(frame[t]) = Depth(frame'[t]) /\ Depth(frame[t]) \in 1..2
    BY <1>35, <1>1, <1>3, <2>1 DEF UpdatePlain, At, Depth, Op, FrameOk, PcsOf, Adding
  <2>3. mutex.holder = t /\ (\A u \in Thread : u # t => ~HasBit(frame[u]))
    BY <1>1, <2>2 DEF MutexInv, HasBit, Depth
  <2>4. UNCHANGED mutex /\ status'.locked = frame[t].already
    BY <1>35, <1>1 DEF UpdatePlain, Status, Frame
  <2>5. MutexInv'
    BY <1>1, <2>1, <2>2, <2>4 DEF MutexInv
  <2>6. frame[t].already = frame[t].nested
    BY <1>35, <1>3 DEF UpdatePlain, At, BitOk
  <2>7. BitInv'
    BY <1>1, <2>1, <2>3, <2>4, <2>6 DEF BitInv, BitOk, HasBit
  <2>. QED
    BY <1>1, <2>4, <2>5, <2>7
<1>36. ASSUME NEW t \in Thread, Unlock(t)
       PROVE  MutexInv' /\ BitInv' /\ mutex' \in [holder: Thread \cup {Null}, depth: 0..2]
  <2>1. \A u \in Thread : u # t => frame'[u] = frame[u]
    BY <1>36, <1>1 DEF Unlock
  <2>2. /\ frame'[t].pc \in {"idle", "awaited", "enqueue", "fire"}
        /\ frame'[t].nested = frame[t].nested
    <3>1. frame'[t] = AfterUnlock(t)
      BY <1>36, <1>1 DEF Unlock
    <3>5. \A u \in Thread : frame[u].nested \in BOOLEAN
      BY <1>1 DEF Frame
    <3>2. CASE Op(t) = "resume"
      <4>1. AfterUnlock(t) = [frame[t] EXCEPT !.pc = "enqueue"]
        BY <3>2 DEF AfterUnlock, Adding
      <4>2. /\ frame'[t].pc = "enqueue" /\ frame'[t].nested = frame[t].nested
        BY <1>1, <3>1, <4>1 DEF Frame
      <4>. QED
        BY <4>2
    <3>3. CASE Op(t) \in Adding
      <4>5. FrameOk(t, frame[t])
        BY <1>3
      <4>1. ~frame[t].nested /\ frame[t].op \in Adding
        BY <1>1, <3>3, OwnerAdds
      <4>2. AfterUnlock(t) = (IF frame[t].flag THEN [frame[t] EXCEPT !.pc = "fire"]
                              ELSE AfterAdd(t))
        BY <3>3 DEF AfterUnlock, Adding
      <4>3. AfterAdd(t).pc \in {"idle", "awaited", "enqueue"}
            /\ AfterAdd(t).nested = FALSE
        BY <1>1, <4>1 DEF AfterAdd, Adding, NoCall, Frame
      <4>. QED
        BY <1>1, <3>1, <3>5, <4>1, <4>2, <4>3 DEF Frame
    <3>4. CASE Op(t) # "resume" /\ Op(t) \notin Adding
      <4>1. AfterUnlock(t) = NoCall
        BY <3>4 DEF AfterUnlock
      <4>2. frame[t].nested = FALSE
        BY <3>4, <3>5 DEF Op
      <4>3. NoCall.pc = "idle" /\ NoCall.nested = FALSE
        BY DEF NoCall
      <4>. QED
        BY <3>1, <4>1, <4>2, <4>3
    <3>. QED
      BY <3>2, <3>3, <3>4
  <2>3. /\ Depth(frame[t]) = (IF frame[t].nested THEN 2 ELSE 1)
        /\ Depth(frame'[t]) = (IF frame[t].nested THEN 1 ELSE 0)
        /\ (HasBit(frame'[t]) <=> HasBit(frame[t])) /\ (HasBit(frame[t]) <=> frame[t].nested)
        /\ BitOk(frame'[t])
    BY <1>36, <1>1, <2>2 DEF Unlock, At, Depth, HasBit, BitOk, Frame
  <2>4. mutex.holder = t /\ mutex.depth = Depth(frame[t])
        /\ (\A u \in Thread : u # t => Depth(frame[u]) = 0)
    BY <1>1, <2>3 DEF MutexInv
  <2>5. mutex' = [holder |-> IF frame[t].nested THEN t ELSE Null, depth |-> Depth(frame'[t])]
    BY <1>36, <1>1, <2>3, <2>4 DEF Unlock, released
  <2>6. MutexInv'
    BY <1>1, <2>1, <2>3, <2>4, <2>5 DEF MutexInv
  <2>7. BitInv'
    <3>1. UNCHANGED status
      BY <1>36 DEF Unlock
    <3>. QED
      BY <1>1, <2>1, <2>3, <2>4, <2>5, <3>1 DEF BitInv
  <2>. QED
    BY <1>1, <2>3, <2>5, <2>6, <2>7
<1>37. ASSUME NEW t \in Thread, FnAttach(t)
       PROVE  MutexInv' /\ BitInv' /\ mutex' \in [holder: Thread \cup {Null}, depth: 0..2]
  <2>1. \A u \in Thread : SameHold(frame[u], frame'[u])
    BY <1>37, <1>1, <1>2, <1>3 DEF FnAttach, At, Op, Goto, SameHold, Depth, HasBit, BitOk
  <2>2. UNCHANGED mutex /\ status'.locked = status.locked
    BY <1>37 DEF FnAttach
  <2>. QED
    BY <1>1, <2>1, <2>2, HoldKept
<1>38. ASSUME NEW t \in Thread, FnDetach(t)
       PROVE  MutexInv' /\ BitInv' /\ mutex' \in [holder: Thread \cup {Null}, depth: 0..2]
  <2>1. \A u \in Thread : SameHold(frame[u], frame'[u])
    BY <1>38, <1>1, <1>2, <1>3 DEF FnDetach, At, Op, Goto, SameHold, Depth, HasBit, BitOk
  <2>2. UNCHANGED mutex /\ status'.locked = status.locked
    BY <1>38 DEF FnDetach
  <2>. QED
    BY <1>1, <2>1, <2>2, HoldKept
<1>39. ASSUME NEW t \in Thread, FnCancelAll(t)
       PROVE  MutexInv' /\ BitInv' /\ mutex' \in [holder: Thread \cup {Null}, depth: 0..2]
  <2>1. \A u \in Thread : SameHold(frame[u], frame'[u])
    BY <1>39, <1>1, <1>2, <1>3 DEF FnCancelAll, At, Op, Goto, SameHold, Depth, HasBit, BitOk
  <2>2. UNCHANGED mutex /\ status'.locked = status.locked
    BY <1>39 DEF FnCancelAll
  <2>. QED
    BY <1>1, <2>1, <2>2, HoldKept
<1>40. ASSUME NEW t \in Thread, WalkCancel(t)
       PROVE  MutexInv' /\ BitInv' /\ mutex' \in [holder: Thread \cup {Null}, depth: 0..2]
  <2>1. \A u \in Thread : SameHold(frame[u], frame'[u])
    BY <1>40, <1>1, <1>2, <1>3 DEF WalkCancel, Walking, At, Goto, SameHold, Depth, HasBit, BitOk
  <2>2. UNCHANGED mutex /\ status'.locked = status.locked
    BY <1>40 DEF WalkCancel
  <2>. QED
    BY <1>1, <2>1, <2>2, HoldKept
<1>41. ASSUME NEW t \in Thread, WalkHandler(t)
       PROVE  MutexInv' /\ BitInv' /\ mutex' \in [holder: Thread \cup {Null}, depth: 0..2]
  <2>1. \A u \in Thread : SameHold(frame[u], frame'[u])
    BY <1>41, <1>1, <1>2, <1>3 DEF WalkHandler, Walking, At, Goto, SameHold, Depth, HasBit, BitOk
  <2>2. UNCHANGED mutex /\ status'.locked = status.locked
    BY <1>41 DEF WalkHandler
  <2>. QED
    BY <1>1, <2>1, <2>2, HoldKept
<1>42. ASSUME NEW t \in Thread, WalkNext(t)
       PROVE  MutexInv' /\ BitInv' /\ mutex' \in [holder: Thread \cup {Null}, depth: 0..2]
  <2>1. \A u \in Thread : SameHold(frame[u], frame'[u])
    BY <1>42, <1>1, <1>2, <1>3 DEF WalkNext, At, SameHold, Depth, HasBit, BitOk
  <2>2. UNCHANGED mutex /\ status'.locked = status.locked
    BY <1>42 DEF WalkNext
  <2>. QED
    BY <1>1, <2>1, <2>2, HoldKept
<1>43. ASSUME NEW t \in Thread, WalkEscalate(t)
       PROVE  MutexInv' /\ BitInv' /\ mutex' \in [holder: Thread \cup {Null}, depth: 0..2]
  <2>1. \A u \in Thread : SameHold(frame[u], frame'[u])
    BY <1>43, <1>1, <1>2, <1>3 DEF WalkEscalate, Walking, At, Goto, SameHold, Depth, HasBit, BitOk
  <2>2. UNCHANGED mutex /\ status'.locked = status.locked
    BY <1>43 DEF WalkEscalate
  <2>. QED
    BY <1>1, <2>1, <2>2, HoldKept
<1>44. ASSUME NEW t \in Thread, WalkEnd(t)
       PROVE  MutexInv' /\ BitInv' /\ mutex' \in [holder: Thread \cup {Null}, depth: 0..2]
  <2>1. \A u \in Thread : SameHold(frame[u], frame'[u])
    BY <1>44, <1>1, <1>2, <1>3 DEF WalkEnd, Walking, At, Goto, SameHold, Depth, HasBit, BitOk
  <2>2. UNCHANGED mutex /\ status'.locked = status.locked
    BY <1>44 DEF WalkEnd
  <2>. QED
    BY <1>1, <2>1, <2>2, HoldKept
<1>45. ASSUME NEW t \in Thread, Enqueue(t)
       PROVE  MutexInv' /\ BitInv' /\ mutex' \in [holder: Thread \cup {Null}, depth: 0..2]
  <2>3. \A u \in Thread : u # t => frame'[u] = frame[u]
    BY <1>45, <1>1 DEF Enqueue
  <2>4. ASSUME frame[t].nested
        PROVE  SameHold(frame[t], frame'[t])
    <3>1. frame'[t] = [frame[t] EXCEPT !.pc = "next", !.nested = FALSE, !.already = FALSE]
      BY <1>45, <1>1, <2>4 DEF Enqueue
    <3>2. frame'[t].pc = "next" /\ frame'[t].nested = FALSE /\ frame'[t].already = FALSE
          /\ frame[t].nested = TRUE
      BY <1>1, <3>1, <2>4 DEF Frame
    <3>. QED
      BY <1>45, <3>2 DEF Enqueue, At, SameHold, Depth, HasBit, BitOk
  <2>5. ASSUME ~frame[t].nested
        PROVE  SameHold(frame[t], frame'[t])
    <3>1. frame'[t] = NoCall
      BY <1>45, <1>1, <2>5 DEF Enqueue
    <3>. QED
      BY <1>45, <1>2, <2>5, <3>1 DEF Enqueue, At, SameHold, Depth, HasBit, BitOk
  <2>1. \A u \in Thread : SameHold(frame[u], frame'[u])
    BY <1>3, <2>3, <2>4, <2>5 DEF SameHold
  <2>2. UNCHANGED mutex /\ status'.locked = status.locked
    BY <1>45 DEF Enqueue
  <2>. QED
    BY <1>1, <2>1, <2>2, HoldKept
<1>46. ASSUME AwaitFindsResumed
       PROVE  MutexInv' /\ BitInv' /\ mutex' \in [holder: Thread \cup {Null}, depth: 0..2]
  <2>1. \A u \in Thread : SameHold(frame[u], frame'[u])
    BY <1>46, <1>1, <1>2, <1>3 DEF AwaitFindsResumed, At, Return, FrameOk, PcsOf, SameHold, Depth,
                               HasBit, BitOk
  <2>2. UNCHANGED mutex /\ status'.locked = status.locked
    BY <1>46 DEF AwaitFindsResumed
  <2>. QED
    BY <1>1, <2>1, <2>2, HoldKept
<1>47. ASSUME NEW r \in Record, FlagAsSuspended(r)
       PROVE  MutexInv' /\ BitInv' /\ mutex' \in [holder: Thread \cup {Null}, depth: 0..2]
  <2>1. \A u \in Thread : SameHold(frame[u], frame'[u])
    BY <1>47, <1>1, <1>2, <1>3 DEF FlagAsSuspended, StartAdd, At, NoCall, FrameOk, PcsOf,
       SameHold,
                               Depth, HasBit, BitOk
  <2>2. UNCHANGED mutex /\ status'.locked = status.locked
    BY <1>47 DEF FlagAsSuspended, StartAdd
  <2>. QED
    BY <1>1, <2>1, <2>2, HoldKept
<1>48. ASSUME AwaitSucceeds
       PROVE  MutexInv' /\ BitInv' /\ mutex' \in [holder: Thread \cup {Null}, depth: 0..2]
  <2>1. \A u \in Thread : SameHold(frame[u], frame'[u])
    BY <1>48, <1>1, <1>2, <1>3 DEF AwaitSucceeds, At, Return, FrameOk, PcsOf, SameHold, Depth,
                               HasBit, BitOk
  <2>2. UNCHANGED mutex /\ status'.locked = status.locked
    BY <1>48 DEF AwaitSucceeds
  <2>. QED
    BY <1>1, <2>1, <2>2, HoldKept
<1>49. ASSUME PreawaitSucceeds
       PROVE  MutexInv' /\ BitInv' /\ mutex' \in [holder: Thread \cup {Null}, depth: 0..2]
  <2>1. \A u \in Thread : SameHold(frame[u], frame'[u])
    BY <1>49, <1>1, <1>2, <1>3 DEF PreawaitSucceeds, At, Return, FrameOk, PcsOf, SameHold, Depth,
                               HasBit, BitOk
  <2>2. UNCHANGED mutex /\ status'.locked = status.locked
    BY <1>49 DEF PreawaitSucceeds
  <2>. QED
    BY <1>1, <2>1, <2>2, HoldKept
<1>50. ASSUME AwaitLoses
       PROVE  MutexInv' /\ BitInv' /\ mutex' \in [holder: Thread \cup {Null}, depth: 0..2]
  <2>1. \A u \in Thread : SameHold(frame[u], frame'[u])
    BY <1>50, <1>1, <1>2, <1>3 DEF AwaitLoses, At, FlagAsRunning, NoCall, FrameOk, PcsOf,
       SameHold,
                               Depth, HasBit, BitOk
  <2>2. UNCHANGED mutex /\ status'.locked = status.locked
    BY <1>50 DEF AwaitLoses
  <2>. QED
    BY <1>1, <2>1, <2>2, HoldKept
<1>51. ASSUME RunJob
       PROVE  MutexInv' /\ BitInv' /\ mutex' \in [holder: Thread \cup {Null}, depth: 0..2]
  <2>1. \A u \in Thread : SameHold(frame[u], frame'[u])
    BY <1>51, <1>1, <1>2, <1>3 DEF RunJob, Idle, FlagAsRunning, NoCall, FrameOk, SameHold, Depth,
                               HasBit, BitOk
  <2>2. UNCHANGED mutex /\ status'.locked = status.locked
    BY <1>51 DEF RunJob
  <2>. QED
    BY <1>1, <2>1, <2>2, HoldKept
<1>. QED
  BY <1>5, <1>6, <1>7, <1>8, <1>9, <1>10, <1>11, <1>12, <1>13, <1>14, <1>15, <1>16, <1>17,
     <1>18, <1>19, <1>20, <1>21, <1>22, <1>23, <1>24, <1>25, <1>26, <1>27, <1>28, <1>29, <1>30,
     <1>31, <1>32, <1>33, <1>34, <1>35, <1>36, <1>37, <1>38, <1>39, <1>40, <1>41, <1>42, <1>43,
     <1>44, <1>45, <1>46, <1>47, <1>48, <1>49, <1>50, <1>51
  DEF Next, Call, LockStep, AwaitStep

\* The record at the top of the list is the one that a search by its kind finds.
LEMMA InnermostFound ==
  ASSUME TypeOK, FrameInv, ScopeInv, LinkInv, status.record # Null
  PROVE  matchOfKind(kind[status.record]) = {status.record}
<1>. DEFINE n == Height
            top == status.record
<1>1. /\ parent \in Parents /\ scopes \in Seq(Record) /\ Len(scopes) \in Nat
      /\ n \in Nat /\ n <= Len(scopes)
      /\ Leads(parent, scopes, n) /\ Linked = Bottom(scopes, n)
      /\ \A i, j \in 1..Len(scopes) : scopes[i] = scopes[j] => i = j
  BY ListIsStack DEF TypeOK, ScopeInv, StackInv
<1>2. n \in 1..n /\ n \in 1..Len(scopes) /\ top = scopes[n]
  BY <1>1 DEF LinkInv
<1>3. top \in OfKind(kind[top])
  BY <1>1, <1>2 DEF OfKind, Bottom
<1>4. ChainFrom(parent, top) = Linked
  BY DEF Linked
<1>5. ASSUME NEW r \in matchOfKind(kind[top])
      PROVE  r = top
  <2>1. r \in Linked /\ top \in ChainFrom(parent, r)
    BY <1>3 DEF matchOfKind, OfKind
  <2>2. PICK m \in 1..n : r = scopes[m]
    BY <1>1, <2>1 DEF Bottom
  <2>3. m \in 1..Len(scopes) /\ Leads(parent, scopes, m)
    BY <1>1 DEF Leads
  <2>4. ChainFrom(parent, r) = Bottom(scopes, m)
    BY <1>1, <2>2, <2>3, ChainOfStack
  <2>5. PICK i \in 1..m : top = scopes[i]
    BY <2>1, <2>4 DEF Bottom
  <2>6. i \in 1..Len(scopes)
    BY <1>1, <2>3
  <2>7. i = n
    BY <1>1, <1>2, <2>5, <2>6
  <2>. QED
    BY <1>1, <1>2, <2>2, <2>5, <2>7
<1>6. top \in matchOfKind(kind[top])
  BY <1>3, <1>4 DEF matchOfKind, OfKind
<1>. QED
  BY <1>5, <1>6

\* The list is the stack of scopes: a record is linked and unlinked at its top.
LEMMA StackStep ==
  ASSUME TypeOK, FrameInv, ScopeInv, LinkInv, StateInv, Next
  PROVE  StackGoal
<1>1. /\ TypeOK /\ FrameInv /\ ScopeInv /\ LinkInv /\ StateInv
      /\ frame \in [Thread -> Frame] /\ status \in Status
      /\ Owner \in Thread /\ Null \notin Thread
  BY TaskAssumption DEF TypeOK, Thread
<1>2. ASSUME NEW t \in Thread
      PROVE  FrameOk(t, frame[t])
  BY <1>1 DEF FrameInv
<1>3. NoCall.op = "none" /\ ~Unlinked(NoCall) /\ ScopeOk(NoCall)
  BY DEF NoCall, Unlinked, ScopeOk, Adding, Removing, InGroup
<1>4. frame[Owner].pc = "idle" => frame[Owner] = NoCall
  BY <1>1, <1>2 DEF FrameOk
<1>5. status.running => ~Dependent \/ Unlinked(frame[Owner])
  BY <1>1 DEF StateInv, PhaseOk
<1>6. ASSUME NEW r \in Record, NEW k \in {"cancel", "escalation", "group", "preference"},
             EnterScope(r, k)
      PROVE  StackGoal
  <2>1. StartAdd(r, k, "add", {})
    BY <1>6 DEF EnterScope
  <2>2. frame[Owner].op = "none" /\ ~Unlinked(frame[Owner])
    BY <1>6, <1>1, <1>2, <1>3, <1>4 DEF EnterScope, OnTask, Idle
  <2>3. ~Dependent
    BY <1>6, <1>1, <1>5, <2>2 DEF EnterScope, OnTask, Idle, StateInv, PhaseOk
  <2>4. k # "free" /\ "add" \in Adding /\ KindOf("add", k)
    BY DEF Adding, KindOf, InGroup
  <2>. QED
    BY <1>1, <2>1, <2>2, <2>3, <2>4, StackStarts
<1>7. ASSUME NEW r \in Record, NEW c \in Child, AsyncLet(r, c)
      PROVE  StackGoal
  <2>1. StartAdd(r, "child", "add", {c})
    BY <1>7 DEF AsyncLet
  <2>2. frame[Owner].op = "none" /\ ~Unlinked(frame[Owner])
    BY <1>7, <1>1, <1>2, <1>3, <1>4 DEF AsyncLet, OnTask, Idle
  <2>3. ~Dependent
    BY <1>7, <1>1, <1>5, <2>2 DEF AsyncLet, OnTask, Idle, StateInv, PhaseOk
  <2>4. "child" # "free" /\ "add" \in Adding /\ KindOf("add", "child")
    BY DEF Adding, KindOf, InGroup
  <2>. QED
    BY <1>1, <2>1, <2>2, <2>3, <2>4, StackStarts
<1>8. ASSUME NEW r \in Record, FlagAsAndEnqueueOnExecutor(r)
      PROVE  StackGoal
  <2>1. StartAdd(r, "dependency", "enqueue", {})
    BY <1>8 DEF FlagAsAndEnqueueOnExecutor
  <2>2. frame[Owner].op = "none" /\ ~Unlinked(frame[Owner])
    BY <1>8, <1>1, <1>2, <1>3, <1>4 DEF FlagAsAndEnqueueOnExecutor, Idle
  <2>3. ~Dependent
    BY <1>8, <1>1, <1>5, <2>2 DEF FlagAsAndEnqueueOnExecutor, Idle, StateInv, PhaseOk
  <2>4. "dependency" # "free" /\ "enqueue" \in Adding /\ KindOf("enqueue", "dependency")
    BY DEF Adding, KindOf, InGroup
  <2>. QED
    BY <1>1, <2>1, <2>2, <2>3, <2>4, StackStarts
<1>9. ASSUME ExitScope
      PROVE  StackGoal
  <2>3. ~Unlinked(frame[Owner])
    BY <1>9, <1>3, <1>4 DEF ExitScope, OnTask, Idle
  <2>4. /\ frame'[Owner].op = "remove" /\ frame'[Owner].rec = scopes[Len(scopes)]
        /\ frame'[Owner].pc \in {"lock", "remove"}
    BY <1>9, <1>1 DEF ExitScope, NoCall
  <2>5. scopes[Len(scopes)] \in Record
    BY <1>9, <1>1 DEF ExitScope, TypeOK
  <2>1. ScopeOk(frame'[Owner]) /\ ~Unlinked(frame'[Owner])
    BY <1>9, <2>4, <2>5, TaskAssumption
    DEF ExitScope, ScopeOk, Unlinked, Adding, Removing, InGroup, KindOf
  <2>2. UNCHANGED <<kind, parent, scopes>> /\ status'.record = status.record
    BY <1>9 DEF ExitScope, records
  <2>. QED
    BY <1>1, <2>1, <2>2, <2>3, StackKept
<1>10. ASSUME PopScope
       PROVE  StackGoal
  <2>3. ~Unlinked(frame[Owner])
    BY <1>10, <1>3, <1>4 DEF PopScope, OnTask, Idle
  <2>4. /\ frame'[Owner].op = "pop" /\ frame'[Owner].rec = scopes[Len(scopes)]
        /\ frame'[Owner].pc \in {"lock", "remove"}
    BY <1>10, <1>1 DEF PopScope, NoCall
  <2>5. scopes[Len(scopes)] \in Record
    BY <1>10, <1>1 DEF PopScope, TypeOK
  <2>1. ScopeOk(frame'[Owner]) /\ ~Unlinked(frame'[Owner])
    BY <1>10, <2>4, <2>5, TaskAssumption
    DEF PopScope, ScopeOk, Unlinked, Adding, Removing, InGroup, KindOf
  <2>2. UNCHANGED <<kind, parent, scopes>> /\ status'.record = status.record
    BY <1>10 DEF PopScope, records
  <2>. QED
    BY <1>1, <2>1, <2>2, <2>3, StackKept
<1>11. ASSUME NEW r \in Record, NEW c \in Child, AttachChild(r, c)
       PROVE  StackGoal
  <2>3. ~Unlinked(frame[Owner])
    BY <1>11, <1>3, <1>4 DEF AttachChild, OnTask, Idle
  <2>4. /\ frame'[Owner].op = "attach" /\ frame'[Owner].rec = r
        /\ frame'[Owner].pc \in {"lock", "remove"}
    BY <1>11, <1>1 DEF AttachChild, WithLock, NoCall
  <2>5. r \in Record
    BY <1>11, <1>1 DEF AttachChild, TypeOK
  <2>1. ScopeOk(frame'[Owner]) /\ ~Unlinked(frame'[Owner])
    BY <1>11, <2>4, <2>5, TaskAssumption
    DEF AttachChild, ScopeOk, Unlinked, Adding, Removing, InGroup, KindOf
  <2>2. UNCHANGED <<kind, parent, scopes>> /\ status'.record = status.record
    BY <1>11 DEF AttachChild, records
  <2>. QED
    BY <1>1, <2>1, <2>2, <2>3, StackKept
<1>12. ASSUME NEW r \in Record, NEW c \in Child, DetachChild(r, c)
       PROVE  StackGoal
  <2>3. ~Unlinked(frame[Owner])
    BY <1>12, <1>3, <1>4 DEF DetachChild, OnTask, Idle
  <2>4. /\ frame'[Owner].op = "detach" /\ frame'[Owner].rec = r
        /\ frame'[Owner].pc \in {"lock", "remove"}
    BY <1>12, <1>1 DEF DetachChild, WithLock, NoCall
  <2>5. r \in Record
    BY <1>12, <1>1 DEF DetachChild, TypeOK
  <2>1. ScopeOk(frame'[Owner]) /\ ~Unlinked(frame'[Owner])
    BY <1>12, <2>4, <2>5, TaskAssumption
    DEF DetachChild, ScopeOk, Unlinked, Adding, Removing, InGroup, KindOf
  <2>2. UNCHANGED <<kind, parent, scopes>> /\ status'.record = status.record
    BY <1>12 DEF DetachChild, records
  <2>. QED
    BY <1>1, <2>1, <2>2, <2>3, StackKept
<1>13. ASSUME NEW r \in Record, CancelAll(r)
       PROVE  StackGoal
  <2>1. CASE UNCHANGED frame
    <3>1. SameScope(frame[Owner], frame'[Owner])
      BY <1>1, <2>1 DEF SameScope, ScopeInv, ScopeOk
    <3>2. UNCHANGED <<kind, parent, scopes>> /\ status'.record = status.record
      BY <1>13 DEF CancelAll, records
    <3>. QED
      BY <1>1, <3>1, <3>2, StackKept
  <2>3. CASE WithLock("cancelAll", r, Null)
    <3>1. frame'[Owner].op = "cancelAll" /\ frame'[Owner].rec = r /\ frame'[Owner].pc = "lock"
      BY <1>1, <2>3 DEF WithLock, NoCall
    <3>2. ScopeOk(frame'[Owner]) /\ ~Unlinked(frame[Owner]) /\ ~Unlinked(frame'[Owner])
      BY <1>13, <1>3, <1>4, <3>1, TaskAssumption
      DEF CancelAll, OnTask, Idle, ScopeOk, Unlinked, Adding, Removing, InGroup, KindOf
    <3>3. UNCHANGED <<kind, parent, scopes>> /\ status'.record = status.record
      BY <1>13 DEF CancelAll, records
    <3>. QED
      BY <1>1, <3>2, <3>3, StackKept
  <2>. QED
    BY <1>13, <2>1, <2>3 DEF CancelAll
<1>14. ASSUME ContinuationInit
       PROVE  StackGoal
  <2>1. SameScope(frame[Owner], frame'[Owner])
    BY <1>14, <1>1, <1>2 DEF ContinuationInit, Goto, MaySuspend, OnTask, Idle, Frame, NoCall,
                         SameScope, Unlinked, FrameOk, PcsOf, Adding, Removing
  <2>2. UNCHANGED <<kind, parent, scopes>> /\ status'.record = status.record
    BY <1>14 DEF ContinuationInit, records
  <2>. QED
    BY <1>1, <2>1, <2>2, StackKept
<1>15. ASSUME NEW r \in Record, ContinuationInitPreawaited(r)
       PROVE  StackGoal
  <2>1. StartAdd(r, "dependency", "suspend", {})
    BY <1>15 DEF ContinuationInitPreawaited
  <2>2. frame[Owner].op = "none" /\ ~Unlinked(frame[Owner])
    BY <1>15, <1>1, <1>2, <1>3, <1>4 DEF ContinuationInitPreawaited, MaySuspend, OnTask, Idle
  <2>3. ~Dependent
    BY <1>15, <1>1, <1>5, <2>2 DEF ContinuationInitPreawaited, MaySuspend, OnTask, Idle, StateInv,
                               PhaseOk
  <2>4. "dependency" # "free" /\ "suspend" \in Adding /\ KindOf("suspend", "dependency")
    BY DEF Adding, KindOf, InGroup
  <2>. QED
    BY <1>1, <2>1, <2>2, <2>3, <2>4, StackStarts
<1>16. ASSUME NEW c \in Child, WaitFuture(c)
       PROVE  StackGoal
  <2>1. SameScope(frame[Owner], frame'[Owner])
    BY <1>16, <1>1, <1>2 DEF WaitFuture, MaySuspend, OnTask, Idle, Frame, NoCall, SameScope,
                         Unlinked, FrameOk, PcsOf, Adding, Removing
  <2>2. UNCHANGED <<kind, parent, scopes>> /\ status'.record = status.record
    BY <1>16 DEF WaitFuture, records
  <2>. QED
    BY <1>1, <2>1, <2>2, StackKept
<1>17. ASSUME RunImmediately
       PROVE  StackGoal
  <2>1. frame'[Owner] = frame[Owner]
    BY <1>17, <1>1 DEF RunImmediately
  <2>2. UNCHANGED <<kind, parent, scopes>> /\ status'.record = status.record
    BY <1>17, <1>1 DEF RunImmediately, records, Status
  <2>. QED
    BY <1>1, <2>1, <2>2, StackKept DEF SameScope, ScopeInv, ScopeOk
<1>18. ASSUME Complete
       PROVE  StackGoal
  <2>1. frame'[Owner] = frame[Owner]
    BY <1>18, <1>1 DEF Complete
  <2>2. UNCHANGED <<kind, parent, scopes>> /\ status'.record = status.record
    BY <1>18, <1>1 DEF Complete, records, Status
  <2>. QED
    BY <1>1, <2>1, <2>2, StackKept DEF SameScope, ScopeInv, ScopeOk
<1>19. ASSUME NEW t \in Thread, Cancel(t)
       PROVE  StackGoal
  <2>. DEFINE f == [NoCall EXCEPT !.pc = "lock", !.op = "cancel",
                                 !.old = Load([status EXCEPT !.cancelled = TRUE])]
  <2>3. frame[t].pc = "idle" /\ (UNCHANGED frame \/ frame' = [frame EXCEPT ![t] = f])
    BY <1>19 DEF Cancel, Idle
  <2>4. f.op = "cancel" /\ ScopeOk(f) /\ ~Unlinked(f)
    BY DEF NoCall, ScopeOk, Unlinked, Adding, Removing, InGroup
  <2>. HIDE DEF f
  <2>5. \/ frame'[Owner] = frame[Owner]
        \/ frame'[Owner] = f /\ frame[Owner] = NoCall
    BY <1>1, <1>4, <2>3
  <2>1. \/ SameScope(frame[Owner], frame'[Owner])
        \/ ScopeOk(frame'[Owner]) /\ ~Unlinked(frame[Owner]) /\ ~Unlinked(frame'[Owner])
    BY <1>1, <1>3, <2>4, <2>5 DEF SameScope, ScopeInv, ScopeOk
  <2>2. UNCHANGED <<kind, parent, scopes>> /\ status'.record = status.record
    BY <1>19, <1>1 DEF Cancel, records, Status
  <2>. QED
    BY <1>1, <2>1, <2>2, StackKept
<1>20. ASSUME NEW t \in Thread, NEW p \in JobPriority, Escalate(t, p)
       PROVE  StackGoal
  <2>3. t # Owner /\ (UNCHANGED frame \/ \E f : frame' = [frame EXCEPT ![t] = f])
    BY <1>20 DEF Escalate
  <2>1. frame'[Owner] = frame[Owner]
    BY <1>1, <2>3
  <2>2. UNCHANGED <<kind, parent, scopes>> /\ status'.record = status.record
    BY <1>20, <1>1 DEF Escalate, records, Status
  <2>. QED
    BY <1>1, <2>1, <2>2, StackKept DEF SameScope, ScopeInv, ScopeOk
<1>21. ASSUME NEW t \in Thread, Resume(t)
       PROVE  StackGoal
  <2>3. t # Owner /\ (UNCHANGED frame \/ \E f : frame' = [frame EXCEPT ![t] = f])
    BY <1>21 DEF Resume
  <2>1. frame'[Owner] = frame[Owner]
    BY <1>1, <2>3
  <2>2. UNCHANGED <<kind, parent, scopes>> /\ status'.record = status.record
    BY <1>21 DEF Resume, records
  <2>. QED
    BY <1>1, <2>1, <2>2, StackKept DEF SameScope, ScopeInv, ScopeOk
<1>22. ASSUME NEW t \in Thread, HandlerResumes(t)
       PROVE  StackGoal
  <2>3. frame[t].op = "cancel"
    BY <1>22, <1>1, <1>2 DEF HandlerResumes, At, FrameOk, PcsOf
  <2>4. UNCHANGED frame \/ frame' = [frame EXCEPT ![t].nested = TRUE, ![t].pc = "lock",
                                                ![t].old = Load(status)]
    BY <1>22 DEF HandlerResumes
  <2>1. SameScope(frame[Owner], frame'[Owner])
    BY <1>1, <2>3, <2>4 DEF SameScope, Unlinked, Adding, Removing, ScopeInv, ScopeOk, Frame
  <2>2. UNCHANGED <<kind, parent, scopes>> /\ status'.record = status.record
    BY <1>22 DEF HandlerResumes, records
  <2>. QED
    BY <1>1, <2>1, <2>2, StackKept
<1>23. ASSUME NEW t \in Thread, AddLockless(t)
       PROVE  StackGoal
  <2>. DEFINE s == status
  <2>3. t = Owner /\ frame[t].op \in Adding /\ Op(t) = frame[t].op /\ frame[t].rec \in Record
    BY <1>23, <1>1, OwnerAdds DEF AddLockless, At
  <2>4. s.record = status.record /\ Unlinked(frame[t])
    BY <1>23, <1>1, <2>3 DEF AddLockless, At, Unlinked, Status
  <2>5. UNCHANGED <<kind, scopes>>
    BY <1>23 DEF AddLockless
  <2>6. CASE shouldAddRecord(t, s)
    <3>1. Emplace(t, s) /\ status' = withInnermostRecord(t, s)
      BY <1>23, <2>6 DEF AddLockless
    <3>2. status'.record = frame[t].rec
      BY <1>1, <2>4, <3>1 DEF withInnermostRecord, Status
    <3>3. ~Unlinked(frame'[t]) /\ ScopeOk(frame'[t])
      <4>1. frame[t].op = "add" => frame'[t] = NoCall
        BY <1>23, <1>1, <2>6 DEF AddLockless
      <4>2. CASE frame[t].op # "add"
        <5>1. AfterAdd(t) \in {[frame[t] EXCEPT !.pc = "awaited"],
                              [frame[t] EXCEPT !.pc = "enqueue"]}
          BY <2>3, <4>2 DEF AfterAdd, Adding
        <5>2. frame'[t] = [AfterAdd(t) EXCEPT !.old = Load(status)]
          BY <1>23, <1>1, <2>6, <4>2 DEF AddLockless
        <5>3. /\ frame'[t].op = frame[t].op /\ frame'[t].rec = frame[t].rec
              /\ frame'[t].pc \in {"awaited", "enqueue"}
          BY <1>1, <5>1, <5>2 DEF Frame
        <5>. QED
          BY <1>1, <2>3, <5>3 DEF Unlinked, ScopeInv, ScopeOk, Adding, Removing
      <4>. QED
        BY <1>3, <4>1, <4>2
    <3>. QED
      BY <1>1, <2>3, <2>4, <2>5, <3>1, <3>2, <3>3, StackLinks
  <2>7. CASE ~shouldAddRecord(t, s)
    <3>1. UNCHANGED <<kind, parent, scopes>> /\ status'.record = status.record
      BY <1>23, <2>4, <2>5, <2>7 DEF AddLockless
    <3>2. SameScope(frame[t], frame'[t])
      <4>1. Goto(t, "fire") /\ frame[t].pc = "add"
        BY <1>23, <2>7 DEF AddLockless, At
      <4>. QED
        BY <1>1, <2>3, <4>1 DEF Goto, SameScope, Unlinked, Adding, Removing, Frame
    <3>. QED
      BY <1>1, <2>3, <3>1, <3>2, StackKept
  <2>. QED
    BY <2>6, <2>7
<1>24. ASSUME NEW t \in Thread, AddSeesLock(t)
       PROVE  StackGoal
  <2>1. SameScope(frame[Owner], frame'[Owner])
    BY <1>24, <1>1, <1>2 DEF AddSeesLock, At, Frame, SameScope, Unlinked, FrameOk, PcsOf, Adding,
                         Removing
  <2>2. UNCHANGED <<kind, parent, scopes>> /\ status'.record = status.record
    BY <1>24 DEF AddSeesLock, records
  <2>. QED
    BY <1>1, <2>1, <2>2, StackKept
<1>25. ASSUME NEW t \in Thread, FireHandlerNow(t)
       PROVE  StackGoal
  <2>1. SameScope(frame[Owner], frame'[Owner])
    BY <1>25, <1>1, <1>2 DEF FireHandlerNow, At, Goto, Frame, SameScope, Unlinked, FrameOk, PcsOf,
                         Adding, Removing
  <2>2. UNCHANGED <<kind, parent, scopes>> /\ status'.record = status.record
    BY <1>25 DEF FireHandlerNow, records
  <2>. QED
    BY <1>1, <2>1, <2>2, StackKept
<1>26. ASSUME NEW t \in Thread, DropFired(t)
       PROVE  StackGoal
  <2>1. t = Owner /\ frame[t].op \in Adding
    BY <1>26, <1>1, OwnerAdds DEF DropFired, At
  <2>2. Unlinked(frame[t]) /\ frame'[t] = NoCall
    BY <1>26, <1>1, <2>1 DEF DropFired, At, Return, Unlinked
  <2>. QED
    BY <1>26, <1>1, <2>1, <2>2, StackPops DEF DropFired
<1>27. ASSUME NEW t \in Thread, RemoveLockless(t)
       PROVE  StackGoal
  <2>1. t = Owner /\ frame[t].op \in {"remove", "run"}
    BY <1>27, <1>1, OwnerAdds DEF RemoveLockless, At
  <2>2. ~Unlinked(frame[t]) /\ frame'[t] = NoCall
    BY <1>27, <1>1, <2>1 DEF RemoveLockless, At, Return, Unlinked, Adding
  <2>3. status'.record = parent[frame[t].rec]
    BY <1>27, <1>1 DEF RemoveLockless, withFlags, Status
  <2>. QED
    BY <1>27, <1>1, <2>1, <2>2, <2>3, StackPops DEF RemoveLockless, Removing
<1>28. ASSUME NEW t \in Thread, RemoveSeesLock(t)
       PROVE  StackGoal
  <2>1. SameScope(frame[Owner], frame'[Owner])
    BY <1>28, <1>1, <1>2 DEF RemoveSeesLock, At, Frame, SameScope, Unlinked, FrameOk, PcsOf,
                         Adding, Removing
  <2>2. UNCHANGED <<kind, parent, scopes>> /\ status'.record = status.record
    BY <1>28 DEF RemoveSeesLock, records
  <2>. QED
    BY <1>1, <2>1, <2>2, StackKept
<1>29. ASSUME NEW t \in Thread, Lock(t)
       PROVE  StackGoal
  <2>3. /\ \A u \in Thread : u # t => frame'[u] = frame[u]
        /\ frame'[t].op = frame[t].op /\ frame'[t].rec = frame[t].rec
        /\ frame'[t].pc = "setbit" /\ frame[t].pc = "lock"
    BY <1>29, <1>1 DEF Lock, At, Goto, Frame
  <2>1. SameScope(frame[Owner], frame'[Owner])
    <3>1. CASE t = Owner
      BY <1>1, <2>3, <3>1 DEF SameScope, Unlinked
    <3>2. CASE t # Owner
      BY <1>1, <2>3, <3>2 DEF SameScope, ScopeInv, ScopeOk
    <3>. QED
      BY <3>1, <3>2
  <2>2. UNCHANGED <<kind, parent, scopes>> /\ status'.record = status.record
    BY <1>29 DEF Lock, records
  <2>. QED
    BY <1>1, <2>1, <2>2, StackKept
<1>30. ASSUME NEW t \in Thread, SetBit(t)
       PROVE  StackGoal
  <2>1. SameScope(frame[Owner], frame'[Owner])
    BY <1>30, <1>1, <1>2 DEF SetBit, At, Op, Frame, SameScope, Unlinked, FrameOk, PcsOf, Adding,
                         Removing
  <2>2. UNCHANGED <<kind, parent, scopes>> /\ status'.record = status.record
    <3>1. status' = [status EXCEPT !.locked = TRUE] /\ UNCHANGED records
      BY <1>30 DEF SetBit
    <3>. QED
      BY <1>1, <3>1 DEF Status, records
  <2>. QED
    BY <1>1, <2>1, <2>2, StackKept
<1>31. ASSUME NEW t \in Thread, FnRemove(t)
       PROVE  StackGoal
  <2>1. t = Owner /\ frame[t].op \in {"remove", "run"}
    BY <1>31, <1>1, OwnerAdds DEF FnRemove, Removing
  <2>2. ~Unlinked(frame[t]) /\ frame[t].pc = "fn"
    BY <1>31, <2>1 DEF FnRemove, At, Unlinked
  <2>3. status.record = frame[t].rec
    BY <1>1, <2>1, <2>2 DEF LinkInv, Height, ScopeInv, ScopeOk, Removing, TypeOK
  <2>4. UNCHANGED <<kind, parent, scopes>> /\ status'.record = status.record
    BY <1>31, <2>3 DEF FnRemove
  <2>5. /\ frame'[t].op = frame[t].op /\ frame'[t].rec = frame[t].rec
        /\ frame'[t].pc = "update"
    BY <1>31, <1>1 DEF FnRemove, Goto, Frame
  <2>6. SameScope(frame[t], frame'[t])
    BY <2>1, <2>2, <2>5 DEF SameScope, Unlinked, Adding
  <2>. QED
    BY <1>1, <2>1, <2>4, <2>6, StackKept
<1>32. ASSUME NEW t \in Thread, FnPop(t)
       PROVE  StackGoal
  <2>1. t = Owner /\ frame[t].op = "pop" /\ frame[t].rec \in Record
    BY <1>32, <1>1, OwnerAdds DEF FnPop, Removing
  <2>2. ~Unlinked(frame[t]) /\ frame[t].pc = "fn"
    BY <1>32, <2>1 DEF FnPop, At, Unlinked, Adding
  <2>3. status.record = frame[t].rec
    BY <1>1, <2>1, <2>2 DEF LinkInv, Height, ScopeInv, ScopeOk, Removing, TypeOK
  <2>4. \A r \in matchOfKind(kind[frame[t].rec]) : r = frame[t].rec
    BY <1>1, <2>1, <2>3, InnermostFound, TaskAssumption
  <2>5. UNCHANGED <<kind, parent, scopes>> /\ status'.record = status.record
    BY <1>32, <2>3, <2>4 DEF FnPop
  <2>6. /\ frame'[t].op = frame[t].op /\ frame'[t].rec = frame[t].rec
        /\ frame'[t].pc = "update" /\ frame'[t].cur = frame[t].rec
    <3>1. PICK r \in matchOfKind(kind[frame[t].rec]) :
            frame' = [frame EXCEPT
                 ![t].pc = "update",
                 ![t].cur = IF kind[frame[t].rec] = "preference" => r = frame[t].rec THEN r
                            ELSE Null,
                 ![t].flag = kind[frame[t].rec] = "preference" /\ lastOfKind(t)]
      BY <1>32 DEF FnPop
    <3>. QED
      BY <1>1, <2>4, <3>1 DEF Frame
  <2>7. SameScope(frame[t], frame'[t])
    BY <2>1, <2>2, <2>6 DEF SameScope, Unlinked, Adding
  <2>. QED
    BY <1>1, <2>1, <2>5, <2>7, StackKept
<1>33. ASSUME NEW t \in Thread, UpdateRemove(t)
       PROVE  StackGoal
  <2>1. t = Owner /\ frame[t].op \in Removing /\ Op(t) = frame[t].op
    <3>1. Op(t) \in Removing
      BY <1>33 DEF UpdateRemove, Removing
    <3>. QED
      BY <1>1, <3>1, OwnerAdds
  <2>2. ~Unlinked(frame[t]) /\ frame[t].pc = "update"
    BY <1>33, <2>1 DEF UpdateRemove, At, Unlinked, Adding, Removing
  <2>3. status.record = frame[t].rec
    BY <1>1, <2>1, <2>2 DEF LinkInv, Height, ScopeInv, ScopeOk, Removing, TypeOK
  <2>4. UNCHANGED <<kind, parent, scopes>>
    BY <1>33 DEF UpdateRemove, records
  <2>5. status'.record = parent[frame[t].rec]
    <3>1. (IF Op(t) = "pop" THEN frame[t].cur ELSE frame[t].rec) = frame[t].rec
      BY <1>1, <2>1, <2>2 DEF ScopeInv, ScopeOk
    <3>. QED
      BY <1>33, <1>1, <2>3, <3>1 DEF UpdateRemove, withFlags, Status
  <2>6. /\ frame'[t].op = frame[t].op /\ frame'[t].rec = frame[t].rec
        /\ frame'[t].pc = "unlock"
    BY <1>33, <1>1 DEF UpdateRemove, Goto, Frame
  <2>7. Unlinked(frame'[t]) /\ ScopeOk(frame'[t])
    BY <1>1, <2>1, <2>6 DEF Unlinked, ScopeInv, ScopeOk
  <2>. QED
    BY <1>1, <2>1, <2>2, <2>4, <2>5, <2>7, StackUnlinks
<1>34. ASSUME NEW t \in Thread, UpdateAdd(t)
       PROVE  StackGoal
  <2>. DEFINE s == [status EXCEPT !.locked = frame[t].already]
  <2>3. t = Owner /\ frame[t].op \in Adding /\ Op(t) = frame[t].op /\ frame[t].rec \in Record
    BY <1>34, <1>1, OwnerAdds DEF UpdateAdd, At
  <2>4. s.record = status.record /\ Unlinked(frame[t])
    BY <1>34, <1>1, <2>3 DEF UpdateAdd, At, Unlinked, Status
  <2>5. UNCHANGED <<kind, scopes>>
    BY <1>34 DEF UpdateAdd
  <2>6. CASE shouldAddRecord(t, s)
    <3>1. Emplace(t, s) /\ status' = withInnermostRecord(t, s)
      BY <1>34, <2>6 DEF UpdateAdd
    <3>2. status'.record = frame[t].rec
      BY <1>1, <2>4, <3>1 DEF withInnermostRecord, Status
    <3>3. ~Unlinked(frame'[t]) /\ ScopeOk(frame'[t])
      <4>1. /\ frame'[t].op = frame[t].op /\ frame'[t].rec = frame[t].rec
            /\ frame'[t].pc = "unlock" /\ ~frame'[t].flag
        BY <1>34, <1>1, <2>6 DEF UpdateAdd, Frame
      <4>. QED
        BY <1>1, <2>3, <4>1 DEF Unlinked, ScopeInv, ScopeOk, Adding, Removing
    <3>. QED
      BY <1>1, <2>3, <2>4, <2>5, <3>1, <3>2, <3>3, StackLinks
  <2>7. CASE ~shouldAddRecord(t, s)
    <3>1. UNCHANGED <<kind, parent, scopes>> /\ status'.record = status.record
      BY <1>34, <2>4, <2>5, <2>7 DEF UpdateAdd
    <3>2. SameScope(frame[t], frame'[t])
      <4>1. /\ frame'[t].op = frame[t].op /\ frame'[t].rec = frame[t].rec
            /\ frame'[t].pc = "unlock" /\ frame'[t].flag
        BY <1>34, <1>1, <2>7 DEF UpdateAdd, Frame
      <4>. QED
        BY <2>3, <2>4, <4>1 DEF SameScope, Unlinked, Adding, Removing
    <3>. QED
      BY <1>1, <2>3, <3>1, <3>2, StackKept
  <2>. QED
    BY <2>6, <2>7
<1>35. ASSUME NEW t \in Thread, UpdateResume(t)
       PROVE  StackGoal
  <2>3. \A u \in Thread : /\ u # t => frame'[u] = frame[u]
                         /\ frame'[u].op = frame[u].op /\ frame'[u].rec = frame[u].rec
    BY <1>35, <1>1 DEF UpdateResume, Goto, Frame
  <2>4. frame[t].op \notin Adding \cup Removing
    BY <1>35, <1>2 DEF UpdateResume, Op, FrameOk, PcsOf, Adding, Removing
  <2>1. SameScope(frame[Owner], frame'[Owner])
    <3>1. CASE t = Owner
      BY <1>1, <2>3, <2>4, <3>1 DEF SameScope, Unlinked, Removing
    <3>2. CASE t # Owner
      BY <1>1, <2>3, <3>2 DEF SameScope, ScopeInv, ScopeOk
    <3>. QED
      BY <3>1, <3>2
  <2>2. UNCHANGED <<kind, parent, scopes>> /\ status'.record = status.record
    BY <1>35, <1>1 DEF UpdateResume, records, Status
  <2>. QED
    BY <1>1, <2>1, <2>2, StackKept
<1>36. ASSUME NEW t \in Thread, UpdatePlain(t)
       PROVE  StackGoal
  <2>3. \A u \in Thread : /\ u # t => frame'[u] = frame[u]
                         /\ frame'[u].op = frame[u].op /\ frame'[u].rec = frame[u].rec
    BY <1>36, <1>1 DEF UpdatePlain, Goto, Frame
  <2>4. frame[t].op \notin Adding \cup Removing
    BY <1>36, <1>2 DEF UpdatePlain, Op, FrameOk, PcsOf, Adding, Removing
  <2>1. SameScope(frame[Owner], frame'[Owner])
    <3>1. CASE t = Owner
      BY <1>1, <2>3, <2>4, <3>1 DEF SameScope, Unlinked, Removing
    <3>2. CASE t # Owner
      BY <1>1, <2>3, <3>2 DEF SameScope, ScopeInv, ScopeOk
    <3>. QED
      BY <3>1, <3>2
  <2>2. UNCHANGED <<kind, parent, scopes>> /\ status'.record = status.record
    BY <1>36, <1>1 DEF UpdatePlain, records, Status
  <2>. QED
    BY <1>1, <2>1, <2>2, StackKept
<1>37. ASSUME NEW t \in Thread, Unlock(t)
       PROVE  StackGoal
  <2>1. CASE Op(t) \in Removing
    <3>1. t = Owner /\ frame[t].op \in Removing /\ Op(t) = frame[t].op
      BY <1>1, <2>1, OwnerAdds
    <3>2. frame[t].pc = "unlock" /\ Unlinked(frame[t])
      BY <1>37, <3>1 DEF Unlock, At, Unlinked
    <3>3. AfterUnlock(t) = NoCall
      BY <2>1 DEF AfterUnlock, Adding, Removing
    <3>4. frame'[t] = NoCall /\ Dealloc(frame[t].rec) /\ UNCHANGED status
      BY <1>37, <1>1, <2>1, <3>3 DEF Unlock, Removing
    <3>. QED
      BY <1>1, <3>1, <3>2, <3>4, StackPops
  <2>2. CASE Op(t) \in Adding
    <3>1. t = Owner /\ frame[t].op \in Adding /\ Op(t) = frame[t].op
      BY <1>1, <2>2, OwnerAdds
    <3>2. frame[t].pc = "unlock" /\ (Unlinked(frame[t]) <=> frame[t].flag)
      BY <1>37, <3>1 DEF Unlock, At, Unlinked, Adding, Removing
    <3>3. AfterUnlock(t) = IF frame[t].flag THEN [frame[t] EXCEPT !.pc = "fire"] ELSE AfterAdd(t)
      BY <2>2 DEF AfterUnlock, Adding
    <3>4. UNCHANGED <<kind, parent, scopes>> /\ status'.record = status.record
          /\ frame'[t] = AfterUnlock(t)
      BY <1>37, <1>1, <2>2 DEF Unlock, records, Adding
    <3>5. CASE frame[t].flag
      <4>1. /\ frame'[t].op = frame[t].op /\ frame'[t].rec = frame[t].rec
            /\ frame'[t].pc = "fire"
        BY <1>1, <3>3, <3>4, <3>5 DEF Frame
      <4>2. SameScope(frame[t], frame'[t])
        BY <3>1, <3>2, <3>5, <4>1 DEF SameScope, Unlinked, Adding, Removing
      <4>. QED
        BY <1>1, <3>1, <3>4, <4>2, StackKept
    <3>6. CASE ~frame[t].flag
      <4>1. \/ frame'[t] = NoCall
            \/ /\ frame'[t].op = frame[t].op /\ frame'[t].rec = frame[t].rec
               /\ frame'[t].pc \in {"awaited", "enqueue"}
        BY <1>1, <3>1, <3>3, <3>4, <3>6 DEF AfterAdd, Adding, Frame
      <4>2. ScopeOk(frame'[t]) /\ ~Unlinked(frame'[t])
        <5>1. CASE frame'[t] = NoCall
          BY <1>3, <5>1
        <5>2. CASE frame'[t].pc \in {"awaited", "enqueue"} /\ frame'[t].op = frame[t].op
                   /\ frame'[t].rec = frame[t].rec
          BY <1>1, <3>1, <5>2 DEF ScopeInv, ScopeOk, Unlinked, Adding, Removing
        <5>. QED
          BY <4>1, <5>1, <5>2
      <4>. QED
        BY <1>1, <3>1, <3>2, <3>4, <3>6, <4>2, StackKept
    <3>. QED
      BY <3>5, <3>6
  <2>3. CASE Op(t) \notin Adding \cup Removing
    <3>1. /\ UNCHANGED <<kind, parent, scopes>> /\ status'.record = status.record
          /\ frame' = [frame EXCEPT ![t] = AfterUnlock(t)]
      BY <1>37, <2>3 DEF Unlock, records, Removing
    <3>2. CASE t # Owner
      <4>1. frame'[Owner] = frame[Owner]
        BY <1>1, <3>1, <3>2
      <4>. QED
        BY <1>1, <3>1, <4>1, StackKept DEF SameScope, ScopeInv, ScopeOk
    <3>3. CASE t = Owner
      <4>1. ~frame[t].nested /\ Op(t) = frame[t].op /\ frame[t].op # "resume"
        BY <1>2, <3>3 DEF FrameOk, Op
      <4>2. frame'[t] = NoCall /\ ~Unlinked(frame[t])
        BY <1>1, <2>3, <3>1, <4>1 DEF AfterUnlock, Unlinked, Removing
      <4>. QED
        BY <1>1, <1>3, <3>1, <3>3, <4>2, StackKept
    <3>. QED
      BY <3>2, <3>3
  <2>. QED
    BY <2>1, <2>2, <2>3
<1>38. ASSUME NEW t \in Thread, FnAttach(t)
       PROVE  StackGoal
  <2>1. SameScope(frame[Owner], frame'[Owner])
    BY <1>38, <1>1, <1>2 DEF FnAttach, At, Op, Goto, Frame, SameScope, Unlinked, FrameOk, PcsOf,
                         Adding, Removing
  <2>2. UNCHANGED <<kind, parent, scopes>> /\ status'.record = status.record
    BY <1>38 DEF FnAttach, records
  <2>. QED
    BY <1>1, <2>1, <2>2, StackKept
<1>39. ASSUME NEW t \in Thread, FnDetach(t)
       PROVE  StackGoal
  <2>1. SameScope(frame[Owner], frame'[Owner])
    BY <1>39, <1>1, <1>2 DEF FnDetach, At, Op, Goto, Frame, SameScope, Unlinked, FrameOk, PcsOf,
                         Adding, Removing
  <2>2. UNCHANGED <<kind, parent, scopes>> /\ status'.record = status.record
    BY <1>39 DEF FnDetach, records
  <2>. QED
    BY <1>1, <2>1, <2>2, StackKept
<1>40. ASSUME NEW t \in Thread, FnCancelAll(t)
       PROVE  StackGoal
  <2>1. SameScope(frame[Owner], frame'[Owner])
    BY <1>40, <1>1, <1>2 DEF FnCancelAll, At, Op, Goto, Frame, SameScope, Unlinked, FrameOk,
       PcsOf,
                         Adding, Removing
  <2>2. UNCHANGED <<kind, parent, scopes>> /\ status'.record = status.record
    BY <1>40 DEF FnCancelAll, records
  <2>. QED
    BY <1>1, <2>1, <2>2, StackKept
<1>41. ASSUME NEW t \in Thread, WalkCancel(t)
       PROVE  StackGoal
  <2>3. \A u \in Thread : /\ u # t => frame'[u] = frame[u]
                         /\ frame'[u].op = frame[u].op /\ frame'[u].rec = frame[u].rec
    BY <1>41, <1>1 DEF WalkCancel, Goto, Frame
  <2>4. frame[t].op \notin Adding \cup Removing
    BY <1>41, <1>2 DEF WalkCancel, Walking, At, FrameOk, PcsOf, Adding, Removing
  <2>1. SameScope(frame[Owner], frame'[Owner])
    <3>1. CASE t = Owner
      BY <1>1, <2>3, <2>4, <3>1 DEF SameScope, Unlinked, Removing
    <3>2. CASE t # Owner
      BY <1>1, <2>3, <3>2 DEF SameScope, ScopeInv, ScopeOk
    <3>. QED
      BY <3>1, <3>2
  <2>2. UNCHANGED <<kind, parent, scopes>> /\ status'.record = status.record
    BY <1>41 DEF WalkCancel, records
  <2>. QED
    BY <1>1, <2>1, <2>2, StackKept
<1>42. ASSUME NEW t \in Thread, WalkHandler(t)
       PROVE  StackGoal
  <2>3. \A u \in Thread : /\ u # t => frame'[u] = frame[u]
                         /\ frame'[u].op = frame[u].op /\ frame'[u].rec = frame[u].rec
    BY <1>42, <1>1 DEF WalkHandler, Goto, Frame
  <2>4. frame[t].op \notin Adding \cup Removing
    BY <1>42, <1>2 DEF WalkHandler, Walking, At, FrameOk, PcsOf, Adding, Removing
  <2>1. SameScope(frame[Owner], frame'[Owner])
    <3>1. CASE t = Owner
      BY <1>1, <2>3, <2>4, <3>1 DEF SameScope, Unlinked, Removing
    <3>2. CASE t # Owner
      BY <1>1, <2>3, <3>2 DEF SameScope, ScopeInv, ScopeOk
    <3>. QED
      BY <3>1, <3>2
  <2>2. UNCHANGED <<kind, parent, scopes>> /\ status'.record = status.record
    BY <1>42 DEF WalkHandler, records
  <2>. QED
    BY <1>1, <2>1, <2>2, StackKept
<1>43. ASSUME NEW t \in Thread, WalkNext(t)
       PROVE  StackGoal
  <2>3. \A u \in Thread : /\ u # t => frame'[u] = frame[u]
                         /\ frame'[u].op = frame[u].op /\ frame'[u].rec = frame[u].rec
    BY <1>43, <1>1 DEF WalkNext, Frame
  <2>4. frame[t].op \notin Adding \cup Removing
    BY <1>43, <1>2 DEF WalkNext, At, FrameOk, PcsOf, Adding, Removing
  <2>1. SameScope(frame[Owner], frame'[Owner])
    <3>1. CASE t = Owner
      BY <1>1, <2>3, <2>4, <3>1 DEF SameScope, Unlinked, Removing
    <3>2. CASE t # Owner
      BY <1>1, <2>3, <3>2 DEF SameScope, ScopeInv, ScopeOk
    <3>. QED
      BY <3>1, <3>2
  <2>2. UNCHANGED <<kind, parent, scopes>> /\ status'.record = status.record
    BY <1>43 DEF WalkNext, records
  <2>. QED
    BY <1>1, <2>1, <2>2, StackKept
<1>44. ASSUME NEW t \in Thread, WalkEscalate(t)
       PROVE  StackGoal
  <2>3. \A u \in Thread : /\ u # t => frame'[u] = frame[u]
                         /\ frame'[u].op = frame[u].op /\ frame'[u].rec = frame[u].rec
    BY <1>44, <1>1 DEF WalkEscalate, Goto, Frame
  <2>4. frame[t].op \notin Adding \cup Removing
    BY <1>44, <1>2 DEF WalkEscalate, Walking, At, FrameOk, PcsOf, Adding, Removing
  <2>1. SameScope(frame[Owner], frame'[Owner])
    <3>1. CASE t = Owner
      BY <1>1, <2>3, <2>4, <3>1 DEF SameScope, Unlinked, Removing
    <3>2. CASE t # Owner
      BY <1>1, <2>3, <3>2 DEF SameScope, ScopeInv, ScopeOk
    <3>. QED
      BY <3>1, <3>2
  <2>2. UNCHANGED <<kind, parent, scopes>> /\ status'.record = status.record
    BY <1>44 DEF WalkEscalate, records
  <2>. QED
    BY <1>1, <2>1, <2>2, StackKept
<1>45. ASSUME NEW t \in Thread, WalkEnd(t)
       PROVE  StackGoal
  <2>3. \A u \in Thread : /\ u # t => frame'[u] = frame[u]
                         /\ frame'[u].op = frame[u].op /\ frame'[u].rec = frame[u].rec
    BY <1>45, <1>1 DEF WalkEnd, Goto, Frame
  <2>4. frame[t].op \notin Adding \cup Removing
    BY <1>45, <1>2 DEF WalkEnd, Walking, At, FrameOk, PcsOf, Adding, Removing
  <2>1. SameScope(frame[Owner], frame'[Owner])
    <3>1. CASE t = Owner
      BY <1>1, <2>3, <2>4, <3>1 DEF SameScope, Unlinked, Removing
    <3>2. CASE t # Owner
      BY <1>1, <2>3, <3>2 DEF SameScope, ScopeInv, ScopeOk
    <3>. QED
      BY <3>1, <3>2
  <2>2. UNCHANGED <<kind, parent, scopes>> /\ status'.record = status.record
    BY <1>45 DEF WalkEnd, records
  <2>. QED
    BY <1>1, <2>1, <2>2, StackKept
<1>46. ASSUME NEW t \in Thread, Enqueue(t)
       PROVE  StackGoal
  <2>1. UNCHANGED <<kind, parent, scopes>> /\ status'.record = status.record
    BY <1>46 DEF Enqueue, records
  <2>2. CASE t # Owner
    <3>1. frame'[Owner] = frame[Owner]
      BY <1>46, <1>1, <2>2 DEF Enqueue
    <3>. QED
      BY <1>1, <2>1, <3>1, StackKept DEF SameScope, ScopeInv, ScopeOk
  <2>3. CASE t = Owner
    <3>1. ~frame[t].nested /\ frame[t].pc = "enqueue"
      BY <1>46, <1>2, <2>3 DEF FrameOk, Enqueue, At
    <3>2. frame'[t] = NoCall
      BY <1>46, <1>1, <3>1 DEF Enqueue
    <3>3. ~Unlinked(frame[t])
      BY <3>1 DEF Unlinked
    <3>. QED
      BY <1>1, <1>3, <2>1, <2>3, <3>2, <3>3, StackKept
  <2>. QED
    BY <2>2, <2>3
<1>47. ASSUME AwaitFindsResumed
       PROVE  StackGoal
  <2>1. ~Unlinked(frame[Owner]) /\ frame'[Owner] = NoCall
    BY <1>47, <1>1, <1>2 DEF AwaitFindsResumed, At, Return, Unlinked, Removing, FrameOk, PcsOf
  <2>2. UNCHANGED <<kind, parent, scopes>> /\ status'.record = status.record
    BY <1>47 DEF AwaitFindsResumed, records
  <2>. QED
    BY <1>1, <1>3, <2>1, <2>2, StackKept
<1>48. ASSUME NEW r \in Record, FlagAsSuspended(r)
       PROVE  StackGoal
  <2>1. StartAdd(r, "dependency", "suspend", {frame[Owner].kid} \ {Null})
    BY <1>48 DEF FlagAsSuspended
  <2>2. frame[Owner].op = "none" /\ ~Unlinked(frame[Owner])
    BY <1>48, <1>1, <1>2, <1>3, <1>4 DEF FlagAsSuspended, At, FrameOk, PcsOf, Unlinked, Adding,
                                     Removing
  <2>3. ~Dependent
    BY <1>48, <1>1, <1>5, <2>2 DEF FlagAsSuspended, At, StateInv, PhaseOk
  <2>4. "dependency" # "free" /\ "suspend" \in Adding /\ KindOf("suspend", "dependency")
    BY DEF Adding, KindOf, InGroup
  <2>. QED
    BY <1>1, <2>1, <2>2, <2>3, <2>4, StackStarts
<1>49. ASSUME AwaitSucceeds
       PROVE  StackGoal
  <2>1. ~Unlinked(frame[Owner]) /\ frame'[Owner] = NoCall
    BY <1>49, <1>1, <1>2 DEF AwaitSucceeds, At, Return, Unlinked, Removing, FrameOk, PcsOf
  <2>2. UNCHANGED <<kind, parent, scopes>> /\ status'.record = status.record
    BY <1>49 DEF AwaitSucceeds, records
  <2>. QED
    BY <1>1, <1>3, <2>1, <2>2, StackKept
<1>50. ASSUME PreawaitSucceeds
       PROVE  StackGoal
  <2>1. ~Unlinked(frame[Owner]) /\ frame'[Owner] = NoCall
    BY <1>50, <1>1, <1>2 DEF PreawaitSucceeds, At, Return, Unlinked, Removing, FrameOk, PcsOf
  <2>2. UNCHANGED <<kind, parent, scopes>> /\ status'.record = status.record
    BY <1>50 DEF PreawaitSucceeds, records
  <2>. QED
    BY <1>1, <1>3, <2>1, <2>2, StackKept
<1>51. ASSUME AwaitLoses
       PROVE  StackGoal
  <2>3. ~Unlinked(frame[Owner]) /\ frame[Owner].op = "suspend"
    BY <1>51, <1>1, <1>2 DEF AwaitLoses, At, FrameOk, PcsOf, Unlinked, Removing
  <2>4. frame'[Owner].op = "run" /\ frame'[Owner].rec = frame[Owner].rec
        /\ frame'[Owner].pc = "remove"
    BY <1>51, <1>1 DEF AwaitLoses, FlagAsRunning, NoCall
  <2>1. ScopeOk(frame'[Owner]) /\ ~Unlinked(frame'[Owner])
    BY <1>1, <2>3, <2>4 DEF ScopeInv, ScopeOk, Unlinked, Adding, Removing, KindOf
  <2>2. UNCHANGED <<kind, parent, scopes>> /\ status'.record = status.record
    BY <1>51 DEF AwaitLoses, records
  <2>. QED
    BY <1>1, <2>1, <2>2, <2>3, StackKept
<1>52. ASSUME RunJob
       PROVE  StackGoal
  <2>3. ~Unlinked(frame[Owner])
    BY <1>52, <1>3, <1>4 DEF RunJob, Idle
  <2>4. frame'[Owner].op = "run" /\ frame'[Owner].rec = scopes[Len(scopes)]
        /\ frame'[Owner].pc = "remove"
    BY <1>52, <1>1 DEF RunJob, FlagAsRunning, NoCall
  <2>5. PICK r \in Record : kind[r] = "dependency"
    BY <1>52, <1>1 DEF RunJob, StateInv, PhaseOk, Dependent
  <2>6. PICK i \in 1..Len(scopes) : scopes[i] = r
    BY <1>1, <2>5 DEF ScopeInv, StackInv
  <2>7. scopes # <<>> /\ scopes[Len(scopes)] = r
    BY <1>1, <2>5, <2>6 DEF ScopeInv, StackInv
  <2>1. ScopeOk(frame'[Owner]) /\ ~Unlinked(frame'[Owner])
    BY <2>4, <2>5, <2>7, TaskAssumption DEF ScopeOk, Unlinked, Adding, Removing, KindOf
  <2>2. UNCHANGED <<kind, parent, scopes>> /\ status'.record = status.record
    BY <1>52 DEF RunJob, records
  <2>. QED
    BY <1>1, <2>1, <2>2, <2>3, StackKept
<1>. QED
  BY <1>6, <1>7, <1>8, <1>9, <1>10, <1>11, <1>12, <1>13, <1>14, <1>15, <1>16, <1>17, <1>18,
     <1>19, <1>20, <1>21, <1>22, <1>23, <1>24, <1>25, <1>26, <1>27, <1>28, <1>29, <1>30, <1>31,
     <1>32, <1>33, <1>34, <1>35, <1>36, <1>37, <1>38, <1>39, <1>40, <1>41, <1>42, <1>43, <1>44,
     <1>45, <1>46, <1>47, <1>48, <1>49, <1>50, <1>51, <1>52
  DEF Next, Call, LockStep, AwaitStep

\* What a step does to types, calls, the lock and the stack
LEMMA Basics ==
  ASSUME IInv, Next
  PROVE  /\ TypeOK' /\ FrameInv' /\ MutexInv' /\ BitInv'
         /\ StackGoal /\ ScopeInv' /\ LinkInv'
<1>1. /\ TypeOK /\ FrameInv /\ MutexInv /\ BitInv /\ ScopeInv /\ LinkInv /\ StateInv
      /\ WalkInv /\ ChildInv
  BY DEF IInv
<1>2. frame' \in [Thread -> Frame] /\ FrameInv'
  BY <1>1, FrameStep
<1>3. status' \in Status /\ RecordTypes' /\ AwaitTypes' /\ adds' \in 0..MaxAdds
  BY <1>1, TypeStep
<1>4. MutexInv' /\ BitInv' /\ mutex' \in [holder: Thread \cup {Null}, depth: 0..2]
  BY <1>1, LockStepHolds
<1>5. StackGoal
  BY <1>1, StackStep
<1>6. TypeOK'
  BY <1>2, <1>3, <1>4 DEF TypeOK, RecordTypes, AwaitTypes
<1>. QED
  BY <1>2, <1>4, <1>5, <1>6 DEF StackGoal

-----------------------------------------------------------------------------
(* The phases of the task *)

\* The task's own call goes on, in the same phase.
SamePhase(f, g) ==
  /\ g.op = f.op
  /\ g.pc = "idle" <=> f.pc = "idle"
  /\ g.pc = "await" <=> f.pc = "await"
  /\ Unlinked(g) <=> Unlinked(f)
  /\ g.op = "run" /\ g.pc = "unlock" => f.pc = "unlock"

SameFlags ==
  /\ status'.running = status.running /\ status'.complete = status.complete
  /\ status'.dependency = status.dependency /\ status'.enqueued = status.enqueued

\* What the phase of the task depends on, untouched
LEMMA PhaseKept ==
  ASSUME PhaseOk(frame[Owner]), SameFlags, UNCHANGED <<kind, scopes, await>>,
         SamePhase(frame[Owner], frame'[Owner])
  PROVE  PhaseOk(frame[Owner])'
BY DEF PhaseOk, SameFlags, SamePhase, await, Dependent

\* The task, running, makes a call.
LEMMA PhaseWorks ==
  ASSUME PhaseOk(frame[Owner]), FrameInv, Owner \in Thread, SameFlags, UNCHANGED await,
         OnTask, Dependent' => Dependent,
         frame'[Owner].op \in Working, frame'[Owner].pc \notin {"idle", "await"}
  PROVE  PhaseOk(frame[Owner])'
<1>1. ~Unlinked(frame[Owner])
  BY DEF OnTask, Idle, Unlinked, FrameInv, FrameOk, NoCall, Adding, Removing
<1>2. /\ status.running /\ ~status.dependency /\ ~status.complete /\ ~status.enqueued
      /\ ~Dependent /\ continuation = "none" /\ ~job.queued /\ ~resumed
  BY <1>1 DEF OnTask, Idle, PhaseOk
<1>3. /\ status'.running /\ ~status'.dependency /\ ~status'.complete /\ ~status'.enqueued
      /\ ~Dependent' /\ continuation' = "none" /\ ~job'.queued /\ ~resumed'
  BY <1>2 DEF SameFlags, await
<1>4. frame'[Owner].op \notin {"suspend", "enqueue", "run"}
  BY DEF Working, InGroup
<1>. QED
  BY <1>3, <1>4 DEF PhaseOk

SameResumer(f, g) ==
  /\ IsResumer(g) <=> IsResumer(f)
  /\ IsResumer(f) => (g.pc \in {"unlock", "enqueue"} <=> f.pc \in {"unlock", "enqueue"})

\* What the resumers depend on, untouched
LEMMA ResumersKept ==
  ASSUME ResumeInv, status'.enqueued = status.enqueued, UNCHANGED await,
         \A u \in Thread : SameResumer(frame[u], frame'[u])
  PROVE  ResumeInv'
BY DEF ResumeInv, SameResumer, await

\* Nobody resumes the task while it goes its own way.
LEMMA OwnerMoves ==
  ASSUME StateInv, FrameInv, FrameInv', Owner \in Thread,
         \A u \in Thread \ {Owner} : frame'[u] = frame[u],
         continuation # "Awaited" \/ ~resumed \/ job.queued
  PROVE  ResumeInv'
<1>1. \A u \in Thread : ~IsResumer(frame[u])
  BY DEF StateInv, ResumeInv
<1>2. ~IsResumer(frame'[Owner])
  BY DEF FrameInv, FrameOk, IsResumer
<1>. QED
  BY <1>1, <1>2 DEF ResumeInv

\* The record of the task's call is linked.
LEMMA PhaseLinks ==
  ASSUME PhaseOk(frame[Owner]), frame[Owner].op \in Adding, Unlinked(frame[Owner]),
         frame[Owner].pc \notin {"idle", "await"},
         NEW k, k = kind[frame[Owner].rec], KindOf(frame[Owner].op, k),
         frame[Owner].rec \in Record,
         status'.running <=> status.running /\ k # "dependency",
         status'.dependency <=> status.dependency \/ k = "dependency",
         status'.enqueued <=> status.enqueued \/ frame[Owner].op = "enqueue",
         status'.complete = status.complete, UNCHANGED <<kind, scopes, await>>,
         \/ /\ frame'[Owner].op = frame[Owner].op /\ ~Unlinked(frame'[Owner])
            /\ frame'[Owner].pc \notin {"idle", "await"}
         \/ frame[Owner].op = "add" /\ frame'[Owner] = NoCall
  PROVE  PhaseOk(frame[Owner])'
<1>1. /\ ~status.complete /\ ~status.dependency /\ ~status.enqueued /\ ~job.queued
      /\ continuation # "Awaited" /\ (continuation \in {"none", "Pending"} => ~resumed)
      /\ continuation = "Resumed" => resumed
  BY DEF PhaseOk, Adding
<1>2. /\ Dependent' <=> Dependent
      /\ UNCHANGED <<continuation, resumed, job>>
  BY DEF Dependent, await
<1>3. CASE frame[Owner].op = "add"
  <2>1. k # "dependency" /\ status.running /\ continuation = "none" /\ ~Dependent
    BY <1>3 DEF KindOf, PhaseOk, Working
  <2>2. /\ status'.running /\ ~status'.dependency /\ ~status'.complete
        /\ ~status'.enqueued /\ continuation' = "none" /\ ~resumed' /\ ~job'.queued
        /\ ~Dependent'
    BY <1>1, <1>2, <1>3, <2>1
  <2>3. frame'[Owner].op \in {"add", "none"} /\ frame'[Owner].pc # "await"
    BY <1>3 DEF NoCall
  <2>. QED
    BY <2>2, <2>3 DEF PhaseOk
<1>4. CASE frame[Owner].op # "add"
  <2>1. k = "dependency" /\ Dependent
    BY <1>4 DEF KindOf, Adding, Dependent
  <2>2. /\ ~status'.running /\ status'.dependency /\ ~status'.complete
        /\ (status'.enqueued <=> frame[Owner].op = "enqueue") /\ ~job'.queued
        /\ Dependent'
    BY <1>1, <1>2, <2>1
  <2>3. /\ frame'[Owner].op = frame[Owner].op /\ frame'[Owner].op \in {"suspend", "enqueue"}
        /\ frame'[Owner].pc \notin {"idle", "await"} /\ ~Unlinked(frame'[Owner])
    BY <1>4 DEF Adding
  <2>4. /\ frame[Owner].op = "suspend" => continuation \in {"none", "Pending", "Resumed"}
        /\ frame[Owner].op = "enqueue" => continuation = "none"
    BY DEF PhaseOk
  <2>. QED
    BY <1>1, <1>2, <2>2, <2>3, <2>4 DEF PhaseOk, Working, InGroup
<1>. QED
  BY <1>3, <1>4

\* The record of the task's call is cut off.
LEMMA PhaseRuns ==
  ASSUME PhaseOk(frame[Owner]), frame[Owner].op \in Removing,
         frame'[Owner].op = frame[Owner].op, frame'[Owner].pc = "unlock",
         status'.running, ~status'.dependency, ~status'.enqueued, ~status'.complete,
         UNCHANGED <<kind, await>>
  PROVE  PhaseOk(frame[Owner])'
<1>1. Unlinked(frame'[Owner]) /\ frame'[Owner].op \notin {"none", "suspend", "enqueue"}
  BY DEF Unlinked, Removing
<1>2. continuation = "none" /\ ~job.queued /\ ~resumed
  BY DEF PhaseOk, Removing, Working
<1>3. Dependent' <=> Dependent
  BY DEF Dependent
<1>4. frame[Owner].op # "run" => ~Dependent
  BY DEF PhaseOk, Removing, Working
<1>. QED
  BY <1>1, <1>2, <1>3, <1>4 DEF PhaseOk, await, Working, InGroup

\* The task's call is over, and the task runs.
LEMMA PhaseReturns ==
  ASSUME PhaseOk(frame[Owner]), frame[Owner].op # "none",
         status'.running, ~status'.dependency, ~status'.enqueued, ~status'.complete,
         continuation = "none", UNCHANGED await, ~Dependent', frame'[Owner] = NoCall
  PROVE  PhaseOk(frame[Owner])'
<1>1. ~job.queued /\ ~resumed
  BY DEF PhaseOk
<1>2. frame'[Owner].op = "none" /\ frame'[Owner].pc = "idle" /\ ~Unlinked(frame'[Owner])
  BY DEF NoCall, Unlinked, Adding, Removing
<1>. QED
  BY <1>1, <1>2 DEF PhaseOk, await, Working, InGroup

\* A dependency goes with the innermost scope.
LEMMA DependencyGoes ==
  ASSUME TypeOK, ScopeInv, frame[Owner].op \in Adding \cup Removing,
         Dealloc(frame[Owner].rec)
  PROVE  (Dependent' => Dependent) /\ (frame[Owner].op = "run" => ~Dependent')
<1>1. kind' = [kind EXCEPT ![frame[Owner].rec] = "free"] /\ kind \in [Record -> Kinds]
  BY DEF Dealloc, TypeOK
<1>2. Dependent' => Dependent
  BY <1>1 DEF Dependent
<1>3. ASSUME frame[Owner].op = "run", NEW r \in Record, kind'[r] = "dependency"
      PROVE  FALSE
  <2>1. kind[r] = "dependency" /\ r # frame[Owner].rec
    BY <1>1, <1>3
  <2>2. PICK i \in 1..Len(scopes) : scopes[i] = r
    BY <2>1 DEF ScopeInv, StackInv
  <2>3. i = Len(scopes)
    BY <2>1, <2>2 DEF ScopeInv, StackInv
  <2>. QED
    BY <2>1, <2>2, <2>3 DEF ScopeInv, ScopeOk
<1>. QED
  BY <1>2, <1>3 DEF Dependent

\* The flags, the continuation and the job agree.
LEMMA StateStep ==
  ASSUME IInv, Next
  PROVE  StateInv'
<1>1. /\ TypeOK /\ FrameInv /\ ScopeInv /\ LinkInv /\ StateInv /\ WalkInv
      /\ frame \in [Thread -> Frame] /\ status \in Status
      /\ job \in [queued: BOOLEAN, priority: JobPriority]
      /\ Owner \in Thread /\ Null \notin Thread
      /\ PhaseOk(frame[Owner]) /\ ResumeInv
      /\ FrameInv'
  BY Basics, TaskAssumption DEF IInv, TypeOK, Thread, StateInv
<1>2. ASSUME NEW t \in Thread
      PROVE  FrameOk(t, frame[t])
  BY <1>1 DEF FrameInv
<1>3. frame[Owner].pc = "idle" => frame[Owner] = NoCall /\ ~Unlinked(frame[Owner])
  BY <1>1, <1>2 DEF FrameOk, NoCall, Unlinked, Adding, Removing
<1>4. frame[Owner].op \in Adding \cup Removing =>
        /\ frame[Owner].rec \in Record /\ KindOf(frame[Owner].op, kind[frame[Owner].rec])
        /\ scopes # <<>> /\ frame[Owner].rec = scopes[Len(scopes)]
  <2>1. frame[Owner].rec \in Record \cup {Null}
    BY <1>1 DEF Frame
  <2>. QED
    BY <1>1, <2>1 DEF ScopeInv, ScopeOk
<1>5. ASSUME NEW r \in Record, NEW k \in {"cancel", "escalation", "group", "preference"},
             EnterScope(r, k)
      PROVE  StateInv'
  <2>1. SameFlags /\ UNCHANGED await /\ OnTask
    BY <1>5 DEF EnterScope, StartAdd, SameFlags, await
  <2>2. /\ frame'[Owner].op = "add" /\ frame'[Owner].pc = "add"
        /\ \A u \in Thread \ {Owner} : frame'[u] = frame[u]
    BY <1>5, <1>1 DEF EnterScope, StartAdd, NoCall
  <2>3. Dependent' => Dependent
    BY <1>5, <1>1 DEF EnterScope, StartAdd, Dependent, records, TypeOK
  <2>4. PhaseOk(frame[Owner])'
    BY <1>1, <2>1, <2>2, <2>3, PhaseWorks DEF Working, InGroup
  <2>5. continuation # "Awaited"
    BY <1>1, <2>1 DEF PhaseOk, OnTask
  <2>. QED
    BY <1>1, <2>2, <2>4, <2>5, OwnerMoves DEF StateInv
<1>6. ASSUME NEW r \in Record, NEW c \in Child, AsyncLet(r, c)
      PROVE  StateInv'
  <2>1. SameFlags /\ UNCHANGED await /\ OnTask
    BY <1>6 DEF AsyncLet, StartAdd, SameFlags, await
  <2>2. /\ frame'[Owner].op = "add" /\ frame'[Owner].pc = "add"
        /\ \A u \in Thread \ {Owner} : frame'[u] = frame[u]
    BY <1>6, <1>1 DEF AsyncLet, StartAdd, NoCall
  <2>3. Dependent' => Dependent
    BY <1>6, <1>1 DEF AsyncLet, StartAdd, Dependent, records, TypeOK
  <2>4. PhaseOk(frame[Owner])'
    BY <1>1, <2>1, <2>2, <2>3, PhaseWorks DEF Working, InGroup
  <2>5. continuation # "Awaited"
    BY <1>1, <2>1 DEF PhaseOk, OnTask
  <2>. QED
    BY <1>1, <2>2, <2>4, <2>5, OwnerMoves DEF StateInv
<1>7. ASSUME NEW r \in Record, FlagAsAndEnqueueOnExecutor(r)
      PROVE  StateInv'
  <2>1. /\ \A u \in Thread \ {Owner} : frame'[u] = frame[u]
        /\ frame'[Owner].op = "enqueue" /\ frame'[Owner].pc = "add"
    BY <1>7, <1>1 DEF FlagAsAndEnqueueOnExecutor, StartAdd, NoCall
  <2>2. SameFlags /\ UNCHANGED await
    BY <1>7, <1>1 DEF FlagAsAndEnqueueOnExecutor, StartAdd, SameFlags
  <2>3. Dependent'
    BY <1>7, <1>1 DEF FlagAsAndEnqueueOnExecutor, StartAdd, Dependent, TypeOK
  <2>4. PhaseOk(frame[Owner])'
    BY <1>7, <1>1, <1>2, <1>3, <1>4, <2>1, <2>2, <2>3 DEF FlagAsAndEnqueueOnExecutor, SameFlags,
                                                       await, NoCall, PhaseOk, Unlinked,
                                                       Adding, Removing, Working, InGroup,
                                                       FrameOk, PcsOf, Idle
  <2>5. continuation # "Awaited"
    BY <1>7, <1>1, <1>2, <1>3 DEF FlagAsAndEnqueueOnExecutor, PhaseOk
  <2>. QED
    BY <1>1, <2>1, <2>4, <2>5, OwnerMoves DEF StateInv
<1>8. ASSUME ExitScope
      PROVE  StateInv'
  <2>1. SameFlags /\ UNCHANGED await /\ OnTask
    BY <1>8 DEF ExitScope, SameFlags, await
  <2>2. /\ frame'[Owner].op = "remove" /\ frame'[Owner].pc = "remove"
        /\ \A u \in Thread \ {Owner} : frame'[u] = frame[u]
    BY <1>8, <1>1 DEF ExitScope, NoCall
  <2>3. Dependent' => Dependent
    BY <1>8 DEF ExitScope, Dependent, records
  <2>4. PhaseOk(frame[Owner])'
    BY <1>1, <2>1, <2>2, <2>3, PhaseWorks DEF Working, InGroup
  <2>5. continuation # "Awaited"
    BY <1>1, <2>1 DEF PhaseOk, OnTask
  <2>. QED
    BY <1>1, <2>2, <2>4, <2>5, OwnerMoves DEF StateInv
<1>9. ASSUME PopScope
      PROVE  StateInv'
  <2>1. SameFlags /\ UNCHANGED await /\ OnTask
    BY <1>9 DEF PopScope, SameFlags, await
  <2>2. /\ frame'[Owner].op = "pop" /\ frame'[Owner].pc = "lock"
        /\ \A u \in Thread \ {Owner} : frame'[u] = frame[u]
    BY <1>9, <1>1 DEF PopScope, NoCall
  <2>3. Dependent' => Dependent
    BY <1>9 DEF PopScope, Dependent, records
  <2>4. PhaseOk(frame[Owner])'
    BY <1>1, <2>1, <2>2, <2>3, PhaseWorks DEF Working, InGroup
  <2>5. continuation # "Awaited"
    BY <1>1, <2>1 DEF PhaseOk, OnTask
  <2>. QED
    BY <1>1, <2>2, <2>4, <2>5, OwnerMoves DEF StateInv
<1>10. ASSUME NEW r \in Record, NEW c \in Child, AttachChild(r, c)
       PROVE  StateInv'
  <2>1. SameFlags /\ UNCHANGED await /\ OnTask
    BY <1>10 DEF AttachChild, WithLock, SameFlags, await
  <2>2. /\ frame'[Owner].op = "attach" /\ frame'[Owner].pc = "lock"
        /\ \A u \in Thread \ {Owner} : frame'[u] = frame[u]
    BY <1>10, <1>1 DEF AttachChild, WithLock, NoCall
  <2>3. Dependent' => Dependent
    BY <1>10 DEF AttachChild, WithLock, Dependent, records
  <2>4. PhaseOk(frame[Owner])'
    BY <1>1, <2>1, <2>2, <2>3, PhaseWorks DEF Working, InGroup
  <2>5. continuation # "Awaited"
    BY <1>1, <2>1 DEF PhaseOk, OnTask
  <2>. QED
    BY <1>1, <2>2, <2>4, <2>5, OwnerMoves DEF StateInv
<1>11. ASSUME NEW r \in Record, NEW c \in Child, DetachChild(r, c)
       PROVE  StateInv'
  <2>1. SameFlags /\ UNCHANGED await /\ OnTask
    BY <1>11 DEF DetachChild, WithLock, SameFlags, await
  <2>2. /\ frame'[Owner].op = "detach" /\ frame'[Owner].pc = "lock"
        /\ \A u \in Thread \ {Owner} : frame'[u] = frame[u]
    BY <1>11, <1>1 DEF DetachChild, WithLock, NoCall
  <2>3. Dependent' => Dependent
    BY <1>11 DEF DetachChild, WithLock, Dependent, records
  <2>4. PhaseOk(frame[Owner])'
    BY <1>1, <2>1, <2>2, <2>3, PhaseWorks DEF Working, InGroup
  <2>5. continuation # "Awaited"
    BY <1>1, <2>1 DEF PhaseOk, OnTask
  <2>. QED
    BY <1>1, <2>2, <2>4, <2>5, OwnerMoves DEF StateInv
<1>12. ASSUME NEW r \in Record, CancelAll(r)
       PROVE  StateInv'
  <2>1. SameFlags /\ UNCHANGED <<kind, scopes, await>> /\ OnTask
    BY <1>12 DEF CancelAll, SameFlags
  <2>2. CASE UNCHANGED frame
    BY <1>1, <2>1, <2>2, PhaseKept, ResumersKept
    DEF StateInv, SamePhase, SameResumer, SameFlags, await
  <2>3. CASE WithLock("cancelAll", r, Null)
    <3>1. /\ frame'[Owner].op = "cancelAll" /\ frame'[Owner].pc = "lock"
          /\ \A u \in Thread \ {Owner} : frame'[u] = frame[u]
      BY <1>1, <2>3 DEF WithLock, NoCall
    <3>2. PhaseOk(frame[Owner])'
      BY <1>1, <2>1, <3>1, PhaseWorks DEF Working, InGroup, Dependent
    <3>3. continuation # "Awaited"
      BY <1>1, <2>1 DEF PhaseOk, OnTask
    <3>. QED
      BY <1>1, <3>1, <3>2, <3>3, OwnerMoves DEF StateInv
  <2>. QED
    BY <1>12, <2>2, <2>3 DEF CancelAll
<1>13. ASSUME ContinuationInit
       PROVE  StateInv'
  <2>1. /\ \A u \in Thread \ {Owner} : frame'[u] = frame[u]
        /\ frame'[Owner].op = frame[Owner].op /\ frame'[Owner].pc = "await"
    BY <1>13, <1>1 DEF ContinuationInit, Goto, Frame
  <2>2. SameFlags /\ UNCHANGED <<resumed, job>> /\ OnTask
    BY <1>13, <1>1 DEF ContinuationInit, SameFlags, MaySuspend
  <2>3. Dependent' <=> Dependent
    BY <1>13, <1>1 DEF ContinuationInit, Dependent, records
  <2>4. PhaseOk(frame[Owner])'
    BY <1>13, <1>1, <1>2, <1>3, <1>4, <2>1, <2>2, <2>3 DEF ContinuationInit, SameFlags,
       MaySuspend,
                                                       OnTask, NoCall, PhaseOk, Unlinked,
                                                       Adding, Removing, Working, InGroup,
                                                       FrameOk, PcsOf, Idle
  <2>5. continuation # "Awaited"
    BY <1>13, <1>1, <1>2, <1>3 DEF ContinuationInit, MaySuspend, PhaseOk
  <2>. QED
    BY <1>1, <2>1, <2>4, <2>5, OwnerMoves DEF StateInv
<1>14. ASSUME NEW r \in Record, ContinuationInitPreawaited(r)
       PROVE  StateInv'
  <2>1. /\ \A u \in Thread \ {Owner} : frame'[u] = frame[u]
        /\ frame'[Owner].op = "suspend" /\ frame'[Owner].pc = "add"
    BY <1>14, <1>1 DEF ContinuationInitPreawaited, StartAdd, NoCall
  <2>2. SameFlags /\ UNCHANGED await /\ OnTask
    BY <1>14, <1>1 DEF ContinuationInitPreawaited, StartAdd, SameFlags, MaySuspend
  <2>3. Dependent'
    BY <1>14, <1>1 DEF ContinuationInitPreawaited, StartAdd, Dependent, TypeOK
  <2>4. PhaseOk(frame[Owner])'
    BY <1>14, <1>1, <1>2, <1>3, <1>4, <2>1, <2>2, <2>3 DEF ContinuationInitPreawaited, SameFlags,
                                                       await, MaySuspend, OnTask, NoCall,
                                                       PhaseOk, Unlinked, Adding, Removing,
                                                       Working, InGroup, FrameOk, PcsOf, Idle
  <2>5. continuation # "Awaited"
    BY <1>14, <1>1, <1>2, <1>3 DEF ContinuationInitPreawaited, MaySuspend, PhaseOk
  <2>. QED
    BY <1>1, <2>1, <2>4, <2>5, OwnerMoves DEF StateInv
<1>15. ASSUME NEW c \in Child, WaitFuture(c)
       PROVE  StateInv'
  <2>1. /\ \A u \in Thread \ {Owner} : frame'[u] = frame[u]
        /\ frame'[Owner].op = frame[Owner].op /\ frame'[Owner].pc = "await"
    BY <1>15, <1>1 DEF WaitFuture, Frame
  <2>2. SameFlags /\ UNCHANGED <<resumed, job>> /\ OnTask
    BY <1>15, <1>1 DEF WaitFuture, SameFlags, MaySuspend
  <2>3. Dependent' <=> Dependent
    BY <1>15, <1>1 DEF WaitFuture, Dependent, records
  <2>4. PhaseOk(frame[Owner])'
    BY <1>15, <1>1, <1>2, <1>3, <1>4, <2>1, <2>2, <2>3 DEF WaitFuture, SameFlags, MaySuspend,
                                                       OnTask, NoCall, PhaseOk, Unlinked,
                                                       Adding, Removing, Working, InGroup,
                                                       FrameOk, PcsOf, Idle
  <2>5. continuation # "Awaited"
    BY <1>15, <1>1, <1>2, <1>3 DEF WaitFuture, MaySuspend, PhaseOk
  <2>. QED
    BY <1>1, <2>1, <2>4, <2>5, OwnerMoves DEF StateInv
<1>16. ASSUME RunImmediately
       PROVE  StateInv'
  <2>1. /\ \A u \in Thread \ {Owner} : frame'[u] = frame[u]
        /\ frame'[Owner] = frame[Owner]
    BY <1>16, <1>1 DEF RunImmediately
  <2>2. /\ status'.running /\ status'.dependency = status.dependency
        /\ status'.enqueued = status.enqueued /\ status'.complete = status.complete
        /\ UNCHANGED await
    BY <1>16, <1>1 DEF RunImmediately, Status
  <2>3. (Dependent' <=> Dependent) /\ UNCHANGED scopes
    BY <1>16, <1>1 DEF RunImmediately, Dependent, records
  <2>4. PhaseOk(frame[Owner])'
    BY <1>16, <1>1, <1>2, <1>3, <1>4, <2>1, <2>2, <2>3 DEF RunImmediately, await, NoCall, PhaseOk,
                                                       Unlinked, Adding, Removing, Working,
                                                       InGroup, FrameOk, PcsOf, Idle
  <2>5. continuation # "Awaited"
    BY <1>16, <1>1, <1>2, <1>3 DEF RunImmediately, PhaseOk
  <2>. QED
    BY <1>1, <2>1, <2>4, <2>5, OwnerMoves DEF StateInv
<1>17. ASSUME Complete
       PROVE  StateInv'
  <2>1. /\ \A u \in Thread \ {Owner} : frame'[u] = frame[u]
        /\ frame'[Owner] = frame[Owner]
    BY <1>17, <1>1 DEF Complete
  <2>2. /\ ~status'.running /\ ~status'.enqueued /\ status'.complete
        /\ status'.dependency = status.dependency
        /\ UNCHANGED await
    BY <1>17, <1>1 DEF Complete, Status
  <2>3. (Dependent' <=> Dependent) /\ UNCHANGED scopes
    BY <1>17, <1>1 DEF Complete, Dependent, records
  <2>4. PhaseOk(frame[Owner])'
    BY <1>17, <1>1, <1>2, <1>3, <1>4, <2>1, <2>2, <2>3 DEF Complete, await, NoCall, OnTask,
                                                       PhaseOk, Unlinked, Adding, Removing,
                                                       Working, InGroup, FrameOk, PcsOf, Idle
  <2>5. continuation # "Awaited"
    BY <1>17, <1>1, <1>2, <1>3 DEF Complete, OnTask, PhaseOk
  <2>. QED
    BY <1>1, <2>1, <2>4, <2>5, OwnerMoves DEF StateInv
<1>18. ASSUME NEW t \in Thread, Cancel(t)
       PROVE  StateInv'
  <2>1. SameFlags /\ UNCHANGED <<kind, scopes, await>>
    BY <1>18, <1>1 DEF Cancel, SameFlags, records, Status
  <2>. DEFINE f == [NoCall EXCEPT !.pc = "lock", !.op = "cancel",
                                 !.old = Load([status EXCEPT !.cancelled = TRUE])]
  <2>4. /\ frame[t] = NoCall /\ (t = Owner => OnTask)
        /\ UNCHANGED frame \/ frame' = [frame EXCEPT ![t] = f]
    BY <1>18, <1>2 DEF Cancel, Idle, FrameOk
  <2>5. ~IsResumer(f) /\ f.op = "cancel" /\ f.pc = "lock"
    BY DEF NoCall, IsResumer
  <2>. HIDE DEF f
  <2>3. \A u \in Thread : SameResumer(frame[u], frame'[u])
    BY <1>1, <2>4, <2>5 DEF SameResumer, IsResumer, NoCall
  <2>6. PhaseOk(frame[Owner])'
    <3>1. CASE frame'[Owner] = frame[Owner]
      BY <1>1, <2>1, <3>1, PhaseKept DEF SamePhase
    <3>2. CASE frame'[Owner] # frame[Owner]
      <4>1. t = Owner /\ frame'[Owner] = f
        BY <1>1, <2>4, <3>2
      <4>. QED
        BY <1>1, <2>1, <2>4, <2>5, <4>1, PhaseWorks DEF Working, Dependent
    <3>. QED
      BY <3>1, <3>2
  <2>. QED
    BY <1>1, <2>1, <2>3, <2>6, ResumersKept DEF StateInv, SameFlags
<1>19. ASSUME NEW t \in Thread, NEW p \in JobPriority, Escalate(t, p)
       PROVE  StateInv'
  <2>1. SameFlags /\ UNCHANGED <<kind, scopes, await>>
    BY <1>19, <1>1 DEF Escalate, SameFlags, records, Status
  <2>4. /\ t # Owner /\ frame[t] = NoCall
        /\ \/ UNCHANGED frame
           \/ \E f : frame' = [frame EXCEPT ![t] = f] /\ ~IsResumer(f)
    <3>1. t # Owner /\ frame[t].pc = "idle"
      BY <1>19 DEF Escalate, Idle
    <3>. DEFINE f == [NoCall EXCEPT !.pc = "lock", !.prio = p, !.op = "escalate",
                        !.old = Load([status EXCEPT !.priority = p,
                                  !.escalated = @ \/ status.running \/ status.enqueued])]
    <3>2. UNCHANGED frame \/ frame' = [frame EXCEPT ![t] = f]
      BY <1>19 DEF Escalate, Load
    <3>3. ~IsResumer(f)
      BY DEF NoCall, IsResumer
    <3>. HIDE DEF f
    <3>. QED
      BY <1>2, <3>1, <3>2, <3>3 DEF FrameOk
  <2>2. SamePhase(frame[Owner], frame'[Owner])
    BY <1>1, <2>4 DEF SamePhase
  <2>3. \A u \in Thread : SameResumer(frame[u], frame'[u])
    BY <1>1, <2>4 DEF SameResumer, IsResumer, NoCall
  <2>. QED
    BY <1>1, <2>1, <2>2, <2>3, PhaseKept, ResumersKept DEF StateInv, SameFlags, await
<1>20. ASSUME NEW t \in Thread, Resume(t)
       PROVE  StateInv'
  <2>1. SameFlags /\ UNCHANGED <<kind, scopes, job>> /\ resumed' /\ resumed' \in BOOLEAN
        /\ continuation \in {"Pending", "Awaited"} /\ ~resumed
    BY <1>20, <1>1 DEF Resume, SameFlags, MayResume, records, TypeOK
  <2>2. \A u \in Thread : ~IsResumer(frame[u])
    BY <1>1, <2>1 DEF ResumeInv
  <2>3. t # Owner
    BY <1>20 DEF Resume
  <2>4. CASE continuation = "Pending"
    <3>1. UNCHANGED frame /\ continuation' = "Resumed"
      BY <1>20, <2>4 DEF Resume, pendingToResumed
    <3>2. PhaseOk(frame[Owner])'
      BY <1>1, <2>1, <2>4, <3>1 DEF PhaseOk, SameFlags, Dependent
    <3>. QED
      BY <2>2, <3>1, <3>2 DEF StateInv, ResumeInv
  <2>5. CASE continuation = "Awaited"
    <3>1. /\ continuation' = "Awaited"
          /\ \A u \in Thread : u # t => frame'[u] = frame[u]
          /\ IsResumer(frame'[t]) /\ frame'[t].pc = "lock"
      <4>. DEFINE f == [NoCall EXCEPT !.pc = "lock", !.op = "resume", !.old = Load(status)]
      <4>1. frame' = [frame EXCEPT ![t] = f] /\ continuation' = "Awaited"
        BY <1>20, <2>5 DEF Resume, pendingToResumed
      <4>2. f.op = "resume" /\ f.pc = "lock"
        BY DEF NoCall
      <4>. HIDE DEF f
      <4>. QED
        BY <1>1, <4>1, <4>2 DEF IsResumer
    <3>2. PhaseOk(frame[Owner])'
      BY <1>1, <2>1, <2>3, <2>5, <3>1 DEF PhaseOk, SameFlags, Dependent
    <3>3. ~status.enqueued /\ ~job.queued
      BY <1>1, <2>1, <2>5 DEF PhaseOk
    <3>. QED
      BY <2>1, <2>2, <3>1, <3>2, <3>3 DEF StateInv, ResumeInv, SameFlags
  <2>. QED
    BY <2>1, <2>4, <2>5
<1>21. ASSUME NEW t \in Thread, HandlerResumes(t)
       PROVE  StateInv'
  <2>1. SameFlags /\ UNCHANGED <<kind, scopes, job>> /\ resumed' /\ resumed' \in BOOLEAN
        /\ continuation \in {"Pending", "Awaited"} /\ ~resumed
    BY <1>21, <1>1 DEF HandlerResumes, SameFlags, MayResume, records, TypeOK
  <2>2. \A u \in Thread : ~IsResumer(frame[u])
    BY <1>1, <2>1 DEF ResumeInv
  <2>3. t # Owner
    <3>1. frame[t].pc = "next"
      BY <1>21 DEF HandlerResumes, At
    <3>2. FrameOk(t, frame[t])
      BY <1>2
    <3>3. frame[t].op = "cancel"
      BY <2>2, <3>1, <3>2 DEF FrameOk, PcsOf, IsResumer
    <3>. QED
      BY <1>1, <2>1, <3>3 DEF PhaseOk, Working
  <2>4. CASE continuation = "Pending"
    <3>1. UNCHANGED frame /\ continuation' = "Resumed"
      BY <1>21, <2>4 DEF HandlerResumes, pendingToResumed
    <3>2. PhaseOk(frame[Owner])'
      BY <1>1, <2>1, <2>4, <3>1 DEF PhaseOk, SameFlags, Dependent
    <3>. QED
      BY <2>2, <3>1, <3>2 DEF StateInv, ResumeInv
  <2>5. CASE continuation = "Awaited"
    <3>1. /\ continuation' = "Awaited"
          /\ \A u \in Thread : u # t => frame'[u] = frame[u]
          /\ IsResumer(frame'[t]) /\ frame'[t].pc = "lock"
      <4>1. /\ frame' = [frame EXCEPT ![t].nested = TRUE, ![t].pc = "lock",
                                     ![t].old = Load(status)]
            /\ continuation' = "Awaited"
        BY <1>21, <2>5 DEF HandlerResumes, pendingToResumed
      <4>. QED
        BY <1>1, <4>1 DEF IsResumer, Frame
    <3>2. PhaseOk(frame[Owner])'
      BY <1>1, <2>1, <2>3, <2>5, <3>1 DEF PhaseOk, SameFlags, Dependent
    <3>3. ~status.enqueued /\ ~job.queued
      BY <1>1, <2>1, <2>5 DEF PhaseOk
    <3>. QED
      BY <2>1, <2>2, <3>1, <3>2, <3>3 DEF StateInv, ResumeInv, SameFlags
  <2>. QED
    BY <2>1, <2>4, <2>5
<1>22. ASSUME NEW t \in Thread, AddLockless(t)
       PROVE  StateInv'
  <2>1. /\ t = Owner /\ Op(t) = frame[t].op /\ ~frame[Owner].nested
        /\ frame[Owner].op \in Adding /\ frame[Owner].rec \in Record /\ frame[Owner].pc = "add"
    BY <1>22, <1>1, OwnerAdds DEF AddLockless, At
  <2>2. /\ UNCHANGED <<kind, scopes, await>>
        /\ \A u \in Thread \ {Owner} : frame'[u] = frame[u]
    BY <1>22, <1>1, <2>1 DEF AddLockless, Goto
  <2>3. continuation # "Awaited" /\ Unlinked(frame[Owner])
        /\ KindOf(frame[Owner].op, kind[frame[Owner].rec])
    BY <1>1, <1>4, <2>1 DEF PhaseOk, Unlinked
  <2>4. CASE shouldAddRecord(t, status)
    <3>1. status' = withInnermostRecord(Owner, status)
      BY <1>22, <2>1, <2>4 DEF AddLockless
    <3>2. /\ status'.running <=> status.running /\ kind[frame[Owner].rec] # "dependency"
          /\ status'.dependency <=>
               status.dependency \/ kind[frame[Owner].rec] = "dependency"
          /\ status'.enqueued <=> status.enqueued \/ frame[Owner].op = "enqueue"
          /\ status'.complete = status.complete
      BY <1>1, <3>1 DEF withInnermostRecord, Status
    <3>3. \/ /\ frame'[Owner].op = frame[Owner].op /\ ~Unlinked(frame'[Owner])
             /\ frame'[Owner].pc \notin {"idle", "await"}
          \/ frame[Owner].op = "add" /\ frame'[Owner] = NoCall
      <4>1. CASE frame[Owner].op = "add"
        BY <1>22, <1>1, <2>1, <2>4, <4>1 DEF AddLockless
      <4>2. CASE frame[Owner].op # "add"
        <5>1. frame' = [frame EXCEPT ![Owner] = [AfterAdd(Owner) EXCEPT !.old = Load(status)]]
          BY <1>22, <2>1, <2>4, <4>2 DEF AddLockless
        <5>2. /\ frame'[Owner].op = frame[Owner].op
              /\ frame'[Owner].pc \in {"awaited", "enqueue"}
          BY <1>1, <2>1, <4>2, <5>1 DEF AfterAdd, Adding, Frame
        <5>. QED
          BY <2>1, <5>2 DEF Unlinked, Adding, Removing
      <4>. QED
        BY <4>1, <4>2
    <3>4. PhaseOk(frame[Owner])'
      <4>1. frame[Owner].pc \notin {"idle", "await"}
        BY <2>1
      <4>. QED
        BY <1>1, <2>1, <2>2, <2>3, <3>2, <3>3, <4>1, PhaseLinks
    <3>. QED
      BY <1>1, <2>2, <2>3, <3>4, OwnerMoves DEF StateInv
  <2>5. CASE ~shouldAddRecord(t, status)
    <3>1. Goto(t, "fire") /\ UNCHANGED status
      BY <1>22, <2>5 DEF AddLockless
    <3>2. SamePhase(frame[Owner], frame'[Owner])
      BY <1>1, <2>1, <3>1 DEF Goto, SamePhase, Unlinked, Adding, Removing, Frame
    <3>3. PhaseOk(frame[Owner])'
      BY <1>1, <2>2, <3>1, <3>2, PhaseKept DEF SameFlags
    <3>. QED
      BY <1>1, <2>2, <2>3, <3>3, OwnerMoves DEF StateInv
  <2>. QED
    BY <2>4, <2>5
<1>23. ASSUME NEW t \in Thread, AddSeesLock(t)
       PROVE  StateInv'
  <2>1. SameFlags /\ UNCHANGED <<kind, scopes, await>>
    BY <1>23 DEF AddSeesLock, SameFlags, records
  <2>4. /\ \A u \in Thread : u # t => frame'[u] = frame[u]
        /\ frame'[t].op = frame[t].op /\ frame'[t].nested = frame[t].nested
        /\ frame'[t].flag = frame[t].flag
        /\ frame[t].pc = "add" /\ frame'[t].pc = "lock"
    BY <1>23, <1>1 DEF AddSeesLock, At, Frame
  <2>2. SamePhase(frame[Owner], frame'[Owner])
    <3>1. CASE t = Owner
      BY <1>2, <2>4, <3>1 DEF SamePhase, Unlinked, Adding, Removing, FrameOk, PcsOf
    <3>2. CASE t # Owner
      BY <1>1, <2>4, <3>2 DEF SamePhase
    <3>. QED
      BY <3>1, <3>2
  <2>3. \A u \in Thread : SameResumer(frame[u], frame'[u])
    BY <1>2, <2>4 DEF SameResumer, IsResumer, FrameOk, PcsOf
  <2>. QED
    BY <1>1, <2>1, <2>2, <2>3, PhaseKept, ResumersKept DEF StateInv, SameFlags, await
<1>24. ASSUME NEW t \in Thread, FireHandlerNow(t)
       PROVE  StateInv'
  <2>1. SameFlags /\ UNCHANGED <<kind, scopes, await>>
    BY <1>24 DEF FireHandlerNow, SameFlags, records
  <2>4. /\ \A u \in Thread : u # t => frame'[u] = frame[u]
        /\ frame'[t].op = frame[t].op /\ frame'[t].nested = frame[t].nested
        /\ frame'[t].flag = frame[t].flag
        /\ frame[t].pc = "fire" /\ frame'[t].pc = "fired"
    BY <1>24, <1>1 DEF FireHandlerNow, At, Goto, Frame
  <2>2. SamePhase(frame[Owner], frame'[Owner])
    <3>1. CASE t = Owner
      BY <1>2, <2>4, <3>1 DEF SamePhase, Unlinked, Adding, Removing, FrameOk, PcsOf
    <3>2. CASE t # Owner
      BY <1>1, <2>4, <3>2 DEF SamePhase
    <3>. QED
      BY <3>1, <3>2
  <2>3. \A u \in Thread : SameResumer(frame[u], frame'[u])
    BY <1>2, <2>4 DEF SameResumer, IsResumer, FrameOk, PcsOf
  <2>. QED
    BY <1>1, <2>1, <2>2, <2>3, PhaseKept, ResumersKept DEF StateInv, SameFlags, await
<1>25. ASSUME NEW t \in Thread, DropFired(t)
       PROVE  StateInv'
  <2>1. /\ t = Owner /\ Op(t) = frame[t].op /\ ~frame[Owner].nested
        /\ frame[Owner].op \in Adding /\ frame[Owner].rec \in Record /\ frame[Owner].pc = "fired"
    BY <1>25, <1>1, OwnerAdds DEF DropFired, At
  <2>2. /\ frame' = [frame EXCEPT ![Owner] = NoCall] /\ UNCHANGED <<status, await>>
        /\ Dealloc(frame[Owner].rec)
    BY <1>25, <2>1 DEF DropFired, Return
  <2>3. frame[Owner].op = "add"
    BY <1>1, <1>2, <2>1 DEF FrameOk, PcsOf, Adding
  <2>4. /\ status.running /\ ~status.dependency /\ ~status.enqueued /\ ~status.complete
        /\ continuation = "none" /\ ~Dependent'
    BY <1>1, <2>1, <2>2, <2>3, DependencyGoes DEF PhaseOk, Working
  <2>5. frame'[Owner] = NoCall /\ \A u \in Thread \ {Owner} : frame'[u] = frame[u]
    BY <1>1, <2>2
  <2>6. PhaseOk(frame[Owner])'
    BY <1>1, <2>2, <2>3, <2>4, <2>5, PhaseReturns
  <2>. QED
    BY <1>1, <2>4, <2>5, <2>6, OwnerMoves DEF StateInv
<1>26. ASSUME NEW t \in Thread, RemoveLockless(t)
       PROVE  StateInv'
  <2>1. /\ t = Owner /\ Op(t) = frame[t].op /\ ~frame[Owner].nested
        /\ frame[Owner].op \in Removing /\ frame[Owner].rec \in Record
           /\ frame[Owner].pc = "remove"
    <3>1. t = Owner /\ frame[t].op \in {"remove", "run"} /\ frame[t].rec \in Record
          /\ frame[t].pc = "remove" /\ ~frame[t].nested /\ Op(t) = frame[t].op
      BY <1>26, <1>1, OwnerAdds DEF RemoveLockless, At
    <3>. QED
      BY <3>1 DEF Removing
  <2>2. /\ frame' = [frame EXCEPT ![Owner] = NoCall] /\ UNCHANGED await
        /\ Dealloc(frame[Owner].rec)
        /\ status' = withFlags(Owner, [status EXCEPT !.record = parent[frame[Owner].rec]])
    BY <1>26, <2>1 DEF RemoveLockless, Return
  <2>3. frame[Owner].op # "none" /\ continuation = "none" /\ ~status.complete
    BY <1>1, <2>1 DEF PhaseOk, Working, Removing
  <2>4. /\ status'.running /\ ~status'.dependency /\ ~status'.enqueued /\ ~status'.complete
        /\ ~Dependent'
    <3>1. CASE frame[Owner].op = "run"
      BY <1>1, <2>1, <2>2, <2>3, <3>1, DependencyGoes DEF withFlags, Status
    <3>2. CASE frame[Owner].op # "run"
      <4>1. status.running /\ ~status.dependency /\ ~status.enqueued /\ ~Dependent
        BY <1>1, <2>1, <3>2 DEF PhaseOk, Working, Removing
      <4>2. SameFlags
        BY <1>1, <2>2, <3>2 DEF withFlags, Status, SameFlags
      <4>. QED
        BY <1>1, <2>1, <2>2, <2>3, <4>1, <4>2, DependencyGoes DEF SameFlags
    <3>. QED
      BY <3>1, <3>2
  <2>5. frame'[Owner] = NoCall /\ \A u \in Thread \ {Owner} : frame'[u] = frame[u]
    BY <1>1, <2>2
  <2>6. PhaseOk(frame[Owner])'
    BY <1>1, <2>2, <2>3, <2>4, <2>5, PhaseReturns
  <2>. QED
    BY <1>1, <2>3, <2>5, <2>6, OwnerMoves DEF StateInv
<1>27. ASSUME NEW t \in Thread, RemoveSeesLock(t)
       PROVE  StateInv'
  <2>1. SameFlags /\ UNCHANGED <<kind, scopes, await>>
    BY <1>27 DEF RemoveSeesLock, SameFlags, records
  <2>4. /\ \A u \in Thread : u # t => frame'[u] = frame[u]
        /\ frame'[t].op = frame[t].op /\ frame'[t].nested = frame[t].nested
        /\ frame'[t].flag = frame[t].flag
        /\ frame[t].pc = "remove" /\ frame'[t].pc = "lock"
    BY <1>27, <1>1 DEF RemoveSeesLock, At, Frame
  <2>2. SamePhase(frame[Owner], frame'[Owner])
    <3>1. CASE t = Owner
      BY <1>2, <2>4, <3>1 DEF SamePhase, Unlinked, Adding, Removing, FrameOk, PcsOf
    <3>2. CASE t # Owner
      BY <1>1, <2>4, <3>2 DEF SamePhase
    <3>. QED
      BY <3>1, <3>2
  <2>3. \A u \in Thread : SameResumer(frame[u], frame'[u])
    BY <1>2, <2>4 DEF SameResumer, IsResumer, FrameOk, PcsOf
  <2>. QED
    BY <1>1, <2>1, <2>2, <2>3, PhaseKept, ResumersKept DEF StateInv, SameFlags, await
<1>28. ASSUME NEW t \in Thread, Lock(t)
       PROVE  StateInv'
  <2>1. SameFlags /\ UNCHANGED <<kind, scopes, await>>
    BY <1>28 DEF Lock, SameFlags, records
  <2>4. /\ \A u \in Thread : u # t => frame'[u] = frame[u]
        /\ frame'[t].op = frame[t].op /\ frame'[t].nested = frame[t].nested
        /\ frame'[t].flag = frame[t].flag
        /\ frame[t].pc = "lock" /\ frame'[t].pc = "setbit"
    BY <1>28, <1>1 DEF Lock, At, Goto, Frame
  <2>2. SamePhase(frame[Owner], frame'[Owner])
    <3>1. CASE t = Owner
      BY <1>2, <2>4, <3>1 DEF SamePhase, Unlinked, Adding, Removing, FrameOk, PcsOf
    <3>2. CASE t # Owner
      BY <1>1, <2>4, <3>2 DEF SamePhase
    <3>. QED
      BY <3>1, <3>2
  <2>3. \A u \in Thread : SameResumer(frame[u], frame'[u])
    BY <1>2, <2>4 DEF SameResumer, IsResumer, FrameOk, PcsOf
  <2>. QED
    BY <1>1, <2>1, <2>2, <2>3, PhaseKept, ResumersKept DEF StateInv, SameFlags, await
<1>29. ASSUME NEW t \in Thread, SetBit(t)
       PROVE  StateInv'
  <2>1. SameFlags /\ UNCHANGED <<kind, scopes, await>>
    <3>1. status' = [status EXCEPT !.locked = TRUE] /\ UNCHANGED <<records, await>>
      BY <1>29 DEF SetBit
    <3>. QED
      BY <1>1, <3>1 DEF SameFlags, Status, records
  <2>4. /\ \A u \in Thread : u # t => frame'[u] = frame[u]
        /\ frame'[t].op = frame[t].op /\ frame'[t].nested = frame[t].nested
        /\ frame'[t].flag = frame[t].flag
        /\ frame[t].pc = "setbit" /\ frame'[t].pc \in {"update", "fn"}
        /\ (frame[t].op \in Adding /\ ~frame[t].nested => frame'[t].pc = "update")
    <3>1. frame[t].pc = "setbit"
      BY <1>29 DEF SetBit, At
    <3>2. PICK a, o, q, p : p \in {"update", "fn"}
            /\ (Op(t) \in Adding => p = "update")
            /\ frame' = [frame EXCEPT ![t].already = a, ![t].old = o, ![t].cur = q, ![t].pc = p]
      BY <1>29 DEF SetBit
    <3>3. \A u \in Thread : u # t => frame'[u] = frame[u]
      BY <1>1, <3>2
    <3>4. frame'[t] = [frame[t] EXCEPT !.already = a, !.old = o, !.cur = q, !.pc = p]
      BY <1>1, <3>2
    <3>5. /\ frame'[t].op = frame[t].op /\ frame'[t].nested = frame[t].nested
          /\ frame'[t].flag = frame[t].flag /\ frame'[t].pc = p
      BY <1>1, <3>4 DEF Frame
    <3>. QED
      BY <3>1, <3>2, <3>3, <3>5 DEF Op
  <2>2. SamePhase(frame[Owner], frame'[Owner])
    <3>1. CASE t = Owner
      BY <1>2, <2>4, <3>1 DEF SamePhase, Unlinked, Adding, Removing, FrameOk, PcsOf
    <3>2. CASE t # Owner
      BY <1>1, <2>4, <3>2 DEF SamePhase
    <3>. QED
      BY <3>1, <3>2
  <2>3. \A u \in Thread : SameResumer(frame[u], frame'[u])
    BY <1>2, <2>4 DEF SameResumer, IsResumer, FrameOk, PcsOf
  <2>. QED
    BY <1>1, <2>1, <2>2, <2>3, PhaseKept, ResumersKept DEF StateInv, SameFlags, await
<1>30. ASSUME NEW t \in Thread, FnRemove(t)
       PROVE  StateInv'
  <2>1. SameFlags /\ UNCHANGED <<kind, scopes, await>>
    BY <1>30 DEF FnRemove, SameFlags, records
  <2>4. /\ \A u \in Thread : u # t => frame'[u] = frame[u]
        /\ frame'[t].op = frame[t].op /\ frame'[t].nested = frame[t].nested
        /\ frame'[t].flag = frame[t].flag
        /\ frame[t].pc = "fn" /\ frame'[t].pc = "update"
    BY <1>30, <1>1 DEF FnRemove, At, Goto, Frame
  <2>2. SamePhase(frame[Owner], frame'[Owner])
    <3>1. CASE t = Owner
      BY <1>2, <2>4, <3>1 DEF SamePhase, Unlinked, Adding, Removing, FrameOk, PcsOf
    <3>2. CASE t # Owner
      BY <1>1, <2>4, <3>2 DEF SamePhase
    <3>. QED
      BY <3>1, <3>2
  <2>3. \A u \in Thread : SameResumer(frame[u], frame'[u])
    BY <1>2, <2>4 DEF SameResumer, IsResumer, FrameOk, PcsOf
  <2>. QED
    BY <1>1, <2>1, <2>2, <2>3, PhaseKept, ResumersKept DEF StateInv, SameFlags, await
<1>31. ASSUME NEW t \in Thread, FnPop(t)
       PROVE  StateInv'
  <2>1. SameFlags /\ UNCHANGED <<kind, scopes, await>>
    BY <1>31 DEF FnPop, SameFlags, records
  <2>4. /\ \A u \in Thread : u # t => frame'[u] = frame[u]
        /\ frame'[t].op = frame[t].op /\ frame'[t].nested = frame[t].nested
        /\ frame[t].pc = "fn" /\ frame'[t].pc = "update"
        /\ frame[t].op = "pop"
    <3>1. frame[t].op = "pop" /\ frame[t].pc = "fn"
      BY <1>31 DEF FnPop, At, Op
    <3>2. PICK q, b : frame' = [frame EXCEPT ![t].pc = "update", ![t].cur = q, ![t].flag = b]
      BY <1>31 DEF FnPop
    <3>. QED
      BY <1>1, <3>1, <3>2 DEF Frame
  <2>2. SamePhase(frame[Owner], frame'[Owner])
    <3>1. CASE t = Owner
      BY <1>2, <2>4, <3>1 DEF SamePhase, Unlinked, Adding, Removing, FrameOk, PcsOf
    <3>2. CASE t # Owner
      BY <1>1, <2>4, <3>2 DEF SamePhase
    <3>. QED
      BY <3>1, <3>2
  <2>3. \A u \in Thread : SameResumer(frame[u], frame'[u])
    BY <1>2, <2>4 DEF SameResumer, IsResumer, FrameOk, PcsOf
  <2>. QED
    BY <1>1, <2>1, <2>2, <2>3, PhaseKept, ResumersKept DEF StateInv, SameFlags, await
<1>32. ASSUME NEW t \in Thread, UpdateRemove(t)
       PROVE  StateInv'
  <2>1. /\ t = Owner /\ Op(t) = frame[t].op /\ ~frame[Owner].nested
        /\ frame[Owner].op \in Removing /\ frame[Owner].rec \in Record
           /\ frame[Owner].pc = "update"
    <3>1. Op(t) \in Removing /\ frame[t].pc = "update"
      BY <1>32 DEF UpdateRemove, At, Removing
    <3>. QED
      BY <1>1, <3>1, OwnerAdds DEF Op
  <2>2. /\ frame' = [frame EXCEPT ![Owner].pc = "unlock"]
        /\ UNCHANGED <<kind, scopes, await>>
    BY <1>32, <2>1 DEF UpdateRemove, Goto, records
  <2>3. frame[Owner].op # "none" /\ continuation = "none" /\ ~status.complete
    BY <1>1, <2>1 DEF PhaseOk, Working, Removing
  <2>7. \E a, b, q : status' = withFlags(Owner,
          [status EXCEPT !.locked = a, !.record = q, !.preference = b])
    BY <1>32, <2>1 DEF UpdateRemove
  <2>4. /\ status'.running /\ ~status'.dependency /\ ~status'.enqueued /\ ~status'.complete
    <3>1. CASE frame[Owner].op = "run"
      BY <1>1, <2>3, <2>7, <3>1 DEF withFlags, Status
    <3>2. CASE frame[Owner].op # "run"
      <4>1. status.running /\ ~status.dependency /\ ~status.enqueued
        BY <1>1, <2>1, <3>2 DEF PhaseOk, Working, Removing
      <4>2. SameFlags
        BY <1>1, <2>7, <3>2 DEF withFlags, Status, SameFlags
      <4>. QED
        BY <2>3, <4>1, <4>2 DEF SameFlags
    <3>. QED
      BY <3>1, <3>2
  <2>5. frame'[Owner].op = frame[Owner].op /\ frame'[Owner].pc = "unlock"
        /\ \A u \in Thread \ {Owner} : frame'[u] = frame[u]
    BY <1>1, <2>2 DEF Frame
  <2>6. PhaseOk(frame[Owner])'
    BY <1>1, <2>1, <2>2, <2>4, <2>5, PhaseRuns
  <2>. QED
    BY <1>1, <2>3, <2>5, <2>6, OwnerMoves DEF StateInv
<1>33. ASSUME NEW t \in Thread, UpdateAdd(t)
       PROVE  StateInv'
  <2>1. /\ t = Owner /\ Op(t) = frame[t].op /\ ~frame[Owner].nested
        /\ frame[Owner].op \in Adding /\ frame[Owner].rec \in Record /\ frame[Owner].pc = "update"
    BY <1>33, <1>1, OwnerAdds DEF UpdateAdd, At
  <2>2. /\ UNCHANGED <<kind, scopes, await>>
        /\ \A u \in Thread \ {Owner} : frame'[u] = frame[u]
    BY <1>33, <1>1, <2>1 DEF UpdateAdd
  <2>3. continuation # "Awaited" /\ Unlinked(frame[Owner])
        /\ KindOf(frame[Owner].op, kind[frame[Owner].rec])
    BY <1>1, <1>4, <2>1 DEF PhaseOk, Unlinked
  <2>. DEFINE s == [status EXCEPT !.locked = frame[t].already]
  <2>6. /\ frame'[Owner].op = frame[Owner].op /\ frame'[Owner].pc = "unlock"
        /\ frame'[Owner].flag <=> ~shouldAddRecord(t, s)
    BY <1>33, <1>1, <2>1 DEF UpdateAdd, Frame
  <2>7. /\ s.running = status.running /\ s.dependency = status.dependency
        /\ s.enqueued = status.enqueued /\ s.complete = status.complete
    BY <1>1 DEF Status
  <2>8. status' = IF shouldAddRecord(t, s) THEN withInnermostRecord(Owner, s) ELSE s
    BY <1>33, <2>1 DEF UpdateAdd
  <2>10. s \in [record: Record \cup {Null}, priority: JobPriority,
           cancelled: BOOLEAN, locked: {frame[t].already}, running: BOOLEAN,
           enqueued: BOOLEAN, complete: BOOLEAN, escalated: BOOLEAN, dependency: BOOLEAN,
           preference: BOOLEAN]
    BY <1>1 DEF Status
  <2>. HIDE DEF s
  <2>4. CASE shouldAddRecord(t, s)
    <3>2. /\ status'.running <=> status.running /\ kind[frame[Owner].rec] # "dependency"
          /\ status'.dependency <=>
               status.dependency \/ kind[frame[Owner].rec] = "dependency"
          /\ status'.enqueued <=> status.enqueued \/ frame[Owner].op = "enqueue"
          /\ status'.complete = status.complete
      BY <2>4, <2>7, <2>8, <2>10 DEF withInnermostRecord
    <3>3. ~Unlinked(frame'[Owner]) /\ frame'[Owner].pc \notin {"idle", "await"}
      BY <2>1, <2>4, <2>6 DEF Unlinked, Adding, Removing
    <3>4. PhaseOk(frame[Owner])'
      <4>1. frame[Owner].pc \notin {"idle", "await"}
        BY <2>1
      <4>. QED
        BY <1>1, <2>1, <2>2, <2>3, <2>6, <3>2, <3>3, <4>1, PhaseLinks
    <3>. QED
      BY <1>1, <2>2, <2>3, <3>4, OwnerMoves DEF StateInv
  <2>5. CASE ~shouldAddRecord(t, s)
    <3>2. SamePhase(frame[Owner], frame'[Owner])
      BY <2>1, <2>5, <2>6 DEF SamePhase, Unlinked, Adding, Removing
    <3>3. PhaseOk(frame[Owner])'
      BY <1>1, <2>2, <2>5, <2>7, <2>8, <3>2, PhaseKept DEF SameFlags
    <3>. QED
      BY <1>1, <2>2, <2>3, <3>3, OwnerMoves DEF StateInv
  <2>. QED
    BY <2>4, <2>5
<1>34. ASSUME NEW t \in Thread, UpdateResume(t)
       PROVE  StateInv'
  <2>1. frame[t].pc = "update" /\ IsResumer(frame[t])
    BY <1>34 DEF UpdateResume, At, Op, IsResumer
  <2>2. /\ continuation = "Awaited" /\ resumed /\ ~job.queued
        /\ \A u \in Thread : IsResumer(frame[u]) => u = t
    BY <1>1, <2>1 DEF ResumeInv
  <2>3. t # Owner
    BY <1>2, <2>1 DEF FrameOk, IsResumer
  <2>4. /\ UNCHANGED <<kind, scopes, await>> /\ frame' = [frame EXCEPT ![t].pc = "unlock"]
    BY <1>34 DEF UpdateResume, Goto
  <2>5. /\ status'.enqueued /\ status'.running = status.running
        /\ status'.dependency = status.dependency /\ status'.complete = status.complete
    BY <1>34, <1>1 DEF UpdateResume, Status
  <2>6. /\ \A u \in Thread : u # t => frame'[u] = frame[u]
        /\ frame'[t].pc = "unlock" /\ frame'[t].op = frame[t].op
        /\ frame'[t].nested = frame[t].nested
    BY <1>1, <2>4 DEF Frame
  <2>7. PhaseOk(frame[Owner])'
    BY <1>1, <2>2, <2>3, <2>4, <2>5, <2>6 DEF PhaseOk, Dependent, await
  <2>8. ResumeInv'
    BY <2>1, <2>2, <2>4, <2>5, <2>6 DEF ResumeInv, IsResumer, await
  <2>. QED
    BY <2>7, <2>8 DEF StateInv
<1>35. ASSUME NEW t \in Thread, UpdatePlain(t)
       PROVE  StateInv'
  <2>1. SameFlags /\ UNCHANGED <<kind, scopes, await>>
    BY <1>35, <1>1 DEF UpdatePlain, SameFlags, records, Status
  <2>4. /\ \A u \in Thread : u # t => frame'[u] = frame[u]
        /\ frame'[t].op = frame[t].op /\ frame'[t].nested = frame[t].nested
        /\ frame'[t].flag = frame[t].flag
        /\ frame[t].pc = "update" /\ frame'[t].pc = "unlock"
    BY <1>35, <1>1 DEF UpdatePlain, At, Goto, Frame
  <2>5. Op(t) = frame[t].op /\ ~frame[t].nested /\ frame[t].op \notin Adding \cup Removing
        /\ frame[t].op # "resume"
    BY <1>35 DEF UpdatePlain, Op, Adding, Removing
  <2>2. SamePhase(frame[Owner], frame'[Owner])
    <3>1. CASE t = Owner
      BY <1>2, <2>4, <2>5, <3>1 DEF SamePhase, Unlinked, Adding, Removing, FrameOk, PcsOf
    <3>2. CASE t # Owner
      BY <1>1, <2>4, <3>2 DEF SamePhase
    <3>. QED
      BY <3>1, <3>2
  <2>3. \A u \in Thread : SameResumer(frame[u], frame'[u])
    BY <1>2, <2>4, <2>5 DEF SameResumer, IsResumer, FrameOk, PcsOf
  <2>. QED
    BY <1>1, <2>1, <2>2, <2>3, PhaseKept, ResumersKept DEF StateInv, SameFlags, await
<1>36. ASSUME NEW t \in Thread, Unlock(t)
       PROVE  StateInv'
  <2>1. SameFlags /\ UNCHANGED await /\ frame[t].pc = "unlock"
    BY <1>36 DEF Unlock, SameFlags, At
  <2>2. frame' = [frame EXCEPT ![t] = AfterUnlock(t)]
    BY <1>36 DEF Unlock
  <2>3. CASE t # Owner
    <3>1. Op(t) \notin Adding \cup {"remove", "run", "pop"}
      BY <1>2, <2>3 DEF FrameOk, Op, Adding
    <3>2. UNCHANGED <<kind, scopes>>
      BY <1>36, <3>1 DEF Unlock, records
    <3>6. frame'[Owner] = frame[Owner]
      BY <1>1, <2>2, <2>3
    <3>3. SamePhase(frame[Owner], frame'[Owner])
      BY <3>6 DEF SamePhase
    <3>4. SameResumer(frame[t], frame'[t])
      <4>1. CASE Op(t) = "resume"
        <5>1. frame'[t] = [frame[t] EXCEPT !.pc = "enqueue"]
          BY <1>1, <2>2, <4>1 DEF AfterUnlock, Adding
        <5>2. frame'[t].pc = "enqueue" /\ frame'[t].op = frame[t].op
              /\ frame'[t].nested = frame[t].nested
          BY <1>1, <5>1 DEF Frame
        <5>. QED
          BY <2>1, <5>2 DEF SameResumer, IsResumer
      <4>2. CASE Op(t) # "resume"
        <5>1. frame'[t] = NoCall
          BY <1>1, <2>2, <3>1, <4>2 DEF AfterUnlock
        <5>. QED
          BY <4>2, <5>1 DEF SameResumer, IsResumer, NoCall, Op
      <4>. QED
        BY <4>1, <4>2
    <3>5. \A u \in Thread : SameResumer(frame[u], frame'[u])
      BY <1>1, <2>2, <3>4 DEF SameResumer
    <3>. QED
      BY <1>1, <2>1, <3>2, <3>3, <3>5, PhaseKept, ResumersKept DEF StateInv, SameFlags
  <2>4. CASE t = Owner
    <3>1. /\ ~frame[Owner].nested /\ Op(Owner) = frame[Owner].op
          /\ frame[Owner].op \notin {"none", "resume", "escalate"}
      BY <1>2, <2>1, <2>4 DEF FrameOk, PcsOf, Op
    <3>2. continuation # "Awaited" /\ ~status.complete
          /\ \A u \in Thread \ {Owner} : frame'[u] = frame[u]
      BY <1>1, <2>1, <2>2, <2>4 DEF PhaseOk
    <3>3. CASE frame[Owner].op \in Adding
              /\ (frame[Owner].flag \/ frame[Owner].op # "add")
      <4>1. UNCHANGED <<kind, scopes>>
        BY <1>36, <2>4, <3>1, <3>3 DEF Unlock, records, Adding
      <4>2. /\ frame'[Owner].op = frame[Owner].op /\ frame'[Owner].flag = frame[Owner].flag
            /\ frame'[Owner].pc = IF frame[Owner].flag THEN "fire"
                                 ELSE IF frame[Owner].op = "suspend" THEN "awaited"
                                 ELSE "enqueue"
        BY <1>1, <2>2, <2>4, <3>1, <3>3 DEF AfterUnlock, AfterAdd, Adding, Frame
      <4>3. SamePhase(frame[Owner], frame'[Owner])
        BY <2>1, <2>4, <3>3, <4>2 DEF SamePhase, Unlinked, Adding, Removing
      <4>4. PhaseOk(frame[Owner])'
        BY <1>1, <2>1, <4>1, <4>3, PhaseKept
      <4>. QED
        BY <1>1, <3>2, <4>4, OwnerMoves DEF StateInv
    <3>4. CASE ~(frame[Owner].op \in Adding
                 /\ (frame[Owner].flag \/ frame[Owner].op # "add"))
      <4>1. frame'[Owner] = NoCall
        <5>1. frame'[Owner] = AfterUnlock(Owner)
          BY <1>1, <2>2, <2>4
        <5>2. CASE frame[Owner].op = "add"
          <6>1. AfterUnlock(Owner) = IF frame[Owner].flag
                                     THEN [frame[Owner] EXCEPT !.pc = "fire"]
                                     ELSE AfterAdd(Owner)
            BY <3>1, <5>2 DEF AfterUnlock, Adding
          <6>. QED
            BY <3>4, <5>1, <5>2, <6>1 DEF AfterAdd, Adding
        <5>3. CASE frame[Owner].op # "add"
          <6>1. frame[Owner].op \notin Adding
            BY <3>4, <5>3
          <6>. QED
            BY <3>1, <5>1, <6>1 DEF AfterUnlock
        <5>. QED
          BY <5>2, <5>3
      <4>2. status.running /\ ~status.dependency /\ ~status.enqueued
            /\ continuation = "none"
        <5>1. frame[Owner].op \in Working \cup {"run"}
          BY <1>1, <3>1, <3>4 DEF Frame, Ops, Adding, Working, InGroup
        <5>. QED
          BY <1>1, <2>1, <2>4, <5>1 DEF PhaseOk
      <4>3. ~Dependent'
        <5>1. CASE frame[Owner].op \in Removing
          <6>1. Dealloc(frame[Owner].rec)
            BY <1>36, <2>4, <3>1, <5>1 DEF Unlock, Removing
          <6>2. frame[Owner].op # "run" => ~Dependent
            BY <1>1, <5>1 DEF PhaseOk, Working, Removing
          <6>. QED
            BY <1>1, <5>1, <6>1, <6>2, DependencyGoes
        <5>2. CASE frame[Owner].op \notin Removing
          <6>1. UNCHANGED kind
            <7>1. Op(t) \notin {"remove", "run", "pop"}
              BY <2>4, <3>1, <5>2 DEF Removing
            <7>. QED
              BY <1>36, <7>1 DEF Unlock, records
          <6>2. frame[Owner].op \in Working
            BY <1>1, <3>1, <3>4, <5>2 DEF Frame, Ops, Working, InGroup, Adding, Removing
          <6>. QED
            BY <1>1, <6>1, <6>2 DEF PhaseOk, Dependent
        <5>. QED
          BY <5>1, <5>2
      <4>4. PhaseOk(frame[Owner])'
        BY <1>1, <2>1, <3>1, <3>2, <4>1, <4>2, <4>3, PhaseReturns DEF SameFlags
      <4>. QED
        BY <1>1, <3>2, <4>4, OwnerMoves DEF StateInv
    <3>. QED
      BY <3>3, <3>4
  <2>. QED
    BY <2>3, <2>4
<1>37. ASSUME NEW t \in Thread, FnAttach(t)
       PROVE  StateInv'
  <2>1. SameFlags /\ UNCHANGED <<kind, scopes, await>>
    BY <1>37 DEF FnAttach, SameFlags, records
  <2>4. /\ \A u \in Thread : u # t => frame'[u] = frame[u]
        /\ frame'[t].op = frame[t].op /\ frame'[t].nested = frame[t].nested
        /\ frame'[t].flag = frame[t].flag
        /\ frame[t].pc = "fn" /\ frame'[t].pc = "update"
    BY <1>37, <1>1 DEF FnAttach, At, Goto, Frame
  <2>2. SamePhase(frame[Owner], frame'[Owner])
    <3>1. CASE t = Owner
      BY <1>2, <2>4, <3>1 DEF SamePhase, Unlinked, Adding, Removing, FrameOk, PcsOf
    <3>2. CASE t # Owner
      BY <1>1, <2>4, <3>2 DEF SamePhase
    <3>. QED
      BY <3>1, <3>2
  <2>3. \A u \in Thread : SameResumer(frame[u], frame'[u])
    BY <1>2, <2>4 DEF SameResumer, IsResumer, FrameOk, PcsOf
  <2>. QED
    BY <1>1, <2>1, <2>2, <2>3, PhaseKept, ResumersKept DEF StateInv, SameFlags, await
<1>38. ASSUME NEW t \in Thread, FnDetach(t)
       PROVE  StateInv'
  <2>1. SameFlags /\ UNCHANGED <<kind, scopes, await>>
    BY <1>38 DEF FnDetach, SameFlags, records
  <2>4. /\ \A u \in Thread : u # t => frame'[u] = frame[u]
        /\ frame'[t].op = frame[t].op /\ frame'[t].nested = frame[t].nested
        /\ frame'[t].flag = frame[t].flag
        /\ frame[t].pc = "fn" /\ frame'[t].pc = "update"
    BY <1>38, <1>1 DEF FnDetach, At, Goto, Frame
  <2>2. SamePhase(frame[Owner], frame'[Owner])
    <3>1. CASE t = Owner
      BY <1>2, <2>4, <3>1 DEF SamePhase, Unlinked, Adding, Removing, FrameOk, PcsOf
    <3>2. CASE t # Owner
      BY <1>1, <2>4, <3>2 DEF SamePhase
    <3>. QED
      BY <3>1, <3>2
  <2>3. \A u \in Thread : SameResumer(frame[u], frame'[u])
    BY <1>2, <2>4 DEF SameResumer, IsResumer, FrameOk, PcsOf
  <2>. QED
    BY <1>1, <2>1, <2>2, <2>3, PhaseKept, ResumersKept DEF StateInv, SameFlags, await
<1>39. ASSUME NEW t \in Thread, FnCancelAll(t)
       PROVE  StateInv'
  <2>1. SameFlags /\ UNCHANGED <<kind, scopes, await>>
    BY <1>39 DEF FnCancelAll, SameFlags, records
  <2>4. /\ \A u \in Thread : u # t => frame'[u] = frame[u]
        /\ frame'[t].op = frame[t].op /\ frame'[t].nested = frame[t].nested
        /\ frame'[t].flag = frame[t].flag
        /\ frame[t].pc = "fn" /\ frame'[t].pc = "update"
    BY <1>39, <1>1 DEF FnCancelAll, At, Goto, Frame
  <2>2. SamePhase(frame[Owner], frame'[Owner])
    <3>1. CASE t = Owner
      BY <1>2, <2>4, <3>1 DEF SamePhase, Unlinked, Adding, Removing, FrameOk, PcsOf
    <3>2. CASE t # Owner
      BY <1>1, <2>4, <3>2 DEF SamePhase
    <3>. QED
      BY <3>1, <3>2
  <2>3. \A u \in Thread : SameResumer(frame[u], frame'[u])
    BY <1>2, <2>4 DEF SameResumer, IsResumer, FrameOk, PcsOf
  <2>. QED
    BY <1>1, <2>1, <2>2, <2>3, PhaseKept, ResumersKept DEF StateInv, SameFlags, await
<1>40. ASSUME NEW t \in Thread, WalkCancel(t)
       PROVE  StateInv'
  <2>1. SameFlags /\ UNCHANGED <<kind, scopes, await>>
    BY <1>40 DEF WalkCancel, SameFlags, records
  <2>4. /\ \A u \in Thread : u # t => frame'[u] = frame[u]
        /\ frame'[t].op = frame[t].op /\ frame'[t].nested = frame[t].nested
        /\ frame'[t].flag = frame[t].flag
        /\ frame[t].pc = "fn" /\ frame'[t].pc = "fn"
    BY <1>40, <1>1 DEF WalkCancel, Walking, At, Goto, Frame
  <2>2. SamePhase(frame[Owner], frame'[Owner])
    <3>1. CASE t = Owner
      BY <1>2, <2>4, <3>1 DEF SamePhase, Unlinked, Adding, Removing, FrameOk, PcsOf
    <3>2. CASE t # Owner
      BY <1>1, <2>4, <3>2 DEF SamePhase
    <3>. QED
      BY <3>1, <3>2
  <2>3. \A u \in Thread : SameResumer(frame[u], frame'[u])
    BY <1>2, <2>4 DEF SameResumer, IsResumer, FrameOk, PcsOf
  <2>. QED
    BY <1>1, <2>1, <2>2, <2>3, PhaseKept, ResumersKept DEF StateInv, SameFlags, await
<1>41. ASSUME NEW t \in Thread, WalkHandler(t)
       PROVE  StateInv'
  <2>1. SameFlags /\ UNCHANGED <<kind, scopes, await>>
    BY <1>41 DEF WalkHandler, SameFlags, records
  <2>4. /\ \A u \in Thread : u # t => frame'[u] = frame[u]
        /\ frame'[t].op = frame[t].op /\ frame'[t].nested = frame[t].nested
        /\ frame'[t].flag = frame[t].flag
        /\ frame[t].pc = "fn" /\ frame'[t].pc = "next"
    BY <1>41, <1>1 DEF WalkHandler, Walking, At, Goto, Frame
  <2>2. SamePhase(frame[Owner], frame'[Owner])
    <3>1. CASE t = Owner
      BY <1>2, <2>4, <3>1 DEF SamePhase, Unlinked, Adding, Removing, FrameOk, PcsOf
    <3>2. CASE t # Owner
      BY <1>1, <2>4, <3>2 DEF SamePhase
    <3>. QED
      BY <3>1, <3>2
  <2>3. \A u \in Thread : SameResumer(frame[u], frame'[u])
    BY <1>2, <2>4 DEF SameResumer, IsResumer, FrameOk, PcsOf
  <2>. QED
    BY <1>1, <2>1, <2>2, <2>3, PhaseKept, ResumersKept DEF StateInv, SameFlags, await
<1>42. ASSUME NEW t \in Thread, WalkNext(t)
       PROVE  StateInv'
  <2>1. SameFlags /\ UNCHANGED <<kind, scopes, await>>
    BY <1>42 DEF WalkNext, SameFlags, records
  <2>4. /\ \A u \in Thread : u # t => frame'[u] = frame[u]
        /\ frame'[t].op = frame[t].op /\ frame'[t].nested = frame[t].nested
        /\ frame'[t].flag = frame[t].flag
        /\ frame[t].pc = "next" /\ frame'[t].pc = "fn"
    BY <1>42, <1>1 DEF WalkNext, At, Frame
  <2>2. SamePhase(frame[Owner], frame'[Owner])
    <3>1. CASE t = Owner
      BY <1>2, <2>4, <3>1 DEF SamePhase, Unlinked, Adding, Removing, FrameOk, PcsOf
    <3>2. CASE t # Owner
      BY <1>1, <2>4, <3>2 DEF SamePhase
    <3>. QED
      BY <3>1, <3>2
  <2>3. \A u \in Thread : SameResumer(frame[u], frame'[u])
    BY <1>2, <2>4 DEF SameResumer, IsResumer, FrameOk, PcsOf
  <2>. QED
    BY <1>1, <2>1, <2>2, <2>3, PhaseKept, ResumersKept DEF StateInv, SameFlags, await
<1>43. ASSUME NEW t \in Thread, WalkEscalate(t)
       PROVE  StateInv'
  <2>1. SameFlags /\ UNCHANGED <<kind, scopes, await>>
    BY <1>43 DEF WalkEscalate, SameFlags, records
  <2>4. /\ \A u \in Thread : u # t => frame'[u] = frame[u]
        /\ frame'[t].op = frame[t].op /\ frame'[t].nested = frame[t].nested
        /\ frame'[t].flag = frame[t].flag
        /\ frame[t].pc = "fn" /\ frame'[t].pc = "fn"
    BY <1>43, <1>1 DEF WalkEscalate, Walking, At, Goto, Frame
  <2>2. SamePhase(frame[Owner], frame'[Owner])
    <3>1. CASE t = Owner
      BY <1>2, <2>4, <3>1 DEF SamePhase, Unlinked, Adding, Removing, FrameOk, PcsOf
    <3>2. CASE t # Owner
      BY <1>1, <2>4, <3>2 DEF SamePhase
    <3>. QED
      BY <3>1, <3>2
  <2>3. \A u \in Thread : SameResumer(frame[u], frame'[u])
    BY <1>2, <2>4 DEF SameResumer, IsResumer, FrameOk, PcsOf
  <2>. QED
    BY <1>1, <2>1, <2>2, <2>3, PhaseKept, ResumersKept DEF StateInv, SameFlags, await
<1>44. ASSUME NEW t \in Thread, WalkEnd(t)
       PROVE  StateInv'
  <2>1. SameFlags /\ UNCHANGED <<kind, scopes, await>>
    BY <1>44 DEF WalkEnd, SameFlags, records
  <2>4. /\ \A u \in Thread : u # t => frame'[u] = frame[u]
        /\ frame'[t].op = frame[t].op /\ frame'[t].nested = frame[t].nested
        /\ frame'[t].flag = frame[t].flag
        /\ frame[t].pc = "fn" /\ frame'[t].pc = "update"
    BY <1>44, <1>1 DEF WalkEnd, Walking, At, Goto, Frame
  <2>2. SamePhase(frame[Owner], frame'[Owner])
    <3>1. CASE t = Owner
      BY <1>2, <2>4, <3>1 DEF SamePhase, Unlinked, Adding, Removing, FrameOk, PcsOf
    <3>2. CASE t # Owner
      BY <1>1, <2>4, <3>2 DEF SamePhase
    <3>. QED
      BY <3>1, <3>2
  <2>3. \A u \in Thread : SameResumer(frame[u], frame'[u])
    BY <1>2, <2>4 DEF SameResumer, IsResumer, FrameOk, PcsOf
  <2>. QED
    BY <1>1, <2>1, <2>2, <2>3, PhaseKept, ResumersKept DEF StateInv, SameFlags, await
<1>45. ASSUME NEW t \in Thread, Enqueue(t)
       PROVE  StateInv'
  <2>1. /\ UNCHANGED <<status, kind, scopes, continuation, resumed>> /\ job'.queued
        /\ frame[t].pc = "enqueue"
    BY <1>45 DEF Enqueue, records, At
  <2>2. /\ \A u \in Thread : u # t => frame'[u] = frame[u]
        /\ ~frame[t].nested => frame'[t] = NoCall
        /\ frame[t].nested => frame'[t].op = "cancel" /\ ~frame'[t].nested
    BY <1>45, <1>1, <1>2 DEF Enqueue, Frame, FrameOk
  <2>3. CASE t = Owner
    <3>1. ~frame[Owner].nested /\ frame[Owner].op = "enqueue" /\ ~Unlinked(frame[Owner])
      BY <1>2, <2>1, <2>3 DEF FrameOk, PcsOf, Unlinked, Adding, Removing
    <3>2. /\ continuation = "none" /\ status.enqueued /\ ~status.complete
          /\ ~resumed /\ ~Unlinked(NoCall)
      BY <1>1, <2>1, <2>3, <3>1 DEF PhaseOk, NoCall, Unlinked, Adding, Removing
    <3>3. frame'[Owner] = NoCall
      BY <2>2, <2>3, <3>1
    <3>4. PhaseOk(frame[Owner])'
      BY <1>1, <2>1, <3>1, <3>2, <3>3 DEF PhaseOk, NoCall, Dependent, Working, InGroup
    <3>. QED
      BY <1>1, <2>2, <2>3, <3>2, <3>4, OwnerMoves DEF StateInv
  <2>4. CASE t # Owner
    <3>1. IsResumer(frame[t])
      BY <1>2, <2>1, <2>4 DEF FrameOk, PcsOf, IsResumer
    <3>2. /\ continuation = "Awaited" /\ resumed /\ status.enqueued
          /\ \A u \in Thread : IsResumer(frame[u]) => u = t
      BY <1>1, <2>1, <3>1 DEF ResumeInv
    <3>3. ~IsResumer(frame'[t])
      BY <2>2 DEF IsResumer, NoCall
    <3>4. frame'[Owner] = frame[Owner] /\ frame[Owner].pc = "idle" /\ frame[Owner] = NoCall
      BY <1>1, <1>3, <2>2, <2>4, <3>2 DEF PhaseOk
    <3>5. frame[Owner].op = "none" /\ frame[Owner].pc # "await"
      BY <3>4 DEF NoCall
    <3>6. PhaseOk(frame[Owner])'
      BY <1>1, <2>1, <3>2, <3>4, <3>5 DEF PhaseOk, Dependent, Working, InGroup
    <3>. QED
      BY <2>2, <3>2, <3>3, <3>6 DEF StateInv, ResumeInv
  <2>. QED
    BY <2>3, <2>4
<1>46. ASSUME AwaitFindsResumed
       PROVE  StateInv'
  <2>1. /\ \A u \in Thread \ {Owner} : frame'[u] = frame[u]
        /\ frame'[Owner] = NoCall
    BY <1>46, <1>1 DEF AwaitFindsResumed, Return
  <2>2. SameFlags /\ UNCHANGED job
    BY <1>46, <1>1 DEF AwaitFindsResumed, SameFlags
  <2>3. (Dependent' <=> Dependent) /\ UNCHANGED scopes
    BY <1>46, <1>1 DEF AwaitFindsResumed, Dependent, records
  <2>4. PhaseOk(frame[Owner])'
    BY <1>46, <1>1, <1>2, <1>3, <1>4, <2>1, <2>2, <2>3 DEF AwaitFindsResumed, SameFlags, At,
                                                       NoCall, PhaseOk, Unlinked, Adding,
                                                       Removing, Working, InGroup, FrameOk,
                                                       PcsOf, Idle
  <2>5. continuation # "Awaited"
    BY <1>46, <1>1, <1>2, <1>3 DEF AwaitFindsResumed, PhaseOk
  <2>. QED
    BY <1>1, <2>1, <2>4, <2>5, OwnerMoves DEF StateInv
<1>47. ASSUME NEW r \in Record, FlagAsSuspended(r)
       PROVE  StateInv'
  <2>1. /\ \A u \in Thread \ {Owner} : frame'[u] = frame[u]
        /\ frame'[Owner].op = "suspend" /\ frame'[Owner].pc = "add"
    BY <1>47, <1>1 DEF FlagAsSuspended, StartAdd, NoCall
  <2>2. SameFlags /\ UNCHANGED await
    BY <1>47, <1>1 DEF FlagAsSuspended, StartAdd, SameFlags
  <2>3. Dependent'
    BY <1>47, <1>1 DEF FlagAsSuspended, StartAdd, Dependent, TypeOK
  <2>4. PhaseOk(frame[Owner])'
    BY <1>47, <1>1, <1>2, <1>3, <1>4, <2>1, <2>2, <2>3 DEF FlagAsSuspended, SameFlags, await, At,
                                                       PhaseOk, Unlinked, Adding, Removing,
                                                       Working, InGroup, FrameOk, PcsOf, Idle
  <2>5. continuation # "Awaited"
    BY <1>47, <1>1, <1>2, <1>3 DEF FlagAsSuspended, PhaseOk
  <2>. QED
    BY <1>1, <2>1, <2>4, <2>5, OwnerMoves DEF StateInv
<1>48. ASSUME AwaitSucceeds
       PROVE  StateInv'
  <2>1. /\ \A u \in Thread \ {Owner} : frame'[u] = frame[u]
        /\ frame'[Owner] = NoCall
    BY <1>48, <1>1 DEF AwaitSucceeds, Return
  <2>2. SameFlags /\ UNCHANGED <<resumed, job>>
    BY <1>48, <1>1 DEF AwaitSucceeds, SameFlags
  <2>3. (Dependent' <=> Dependent) /\ UNCHANGED scopes
    BY <1>48, <1>1 DEF AwaitSucceeds, Dependent, records
  <2>4. PhaseOk(frame[Owner])'
    BY <1>48, <1>1, <1>2, <1>3, <1>4, <2>1, <2>2, <2>3 DEF AwaitSucceeds, SameFlags, At, NoCall,
                                                       KindOf, Dependent, PhaseOk, Unlinked,
                                                       Adding, Removing, Working, InGroup,
                                                       FrameOk, PcsOf, Idle
  <2>5. continuation # "Awaited"
    BY <1>48, <1>1, <1>2, <1>3 DEF AwaitSucceeds, PhaseOk
  <2>. QED
    BY <1>1, <2>1, <2>4, <2>5, OwnerMoves DEF StateInv
<1>49. ASSUME PreawaitSucceeds
       PROVE  StateInv'
  <2>1. /\ \A u \in Thread \ {Owner} : frame'[u] = frame[u]
        /\ frame'[Owner] = NoCall
    BY <1>49, <1>1 DEF PreawaitSucceeds, Return
  <2>2. SameFlags /\ UNCHANGED <<resumed, job>>
    BY <1>49, <1>1 DEF PreawaitSucceeds, SameFlags
  <2>3. (Dependent' <=> Dependent) /\ UNCHANGED scopes
    BY <1>49, <1>1 DEF PreawaitSucceeds, Dependent, records
  <2>4. PhaseOk(frame[Owner])'
    BY <1>49, <1>1, <1>2, <1>3, <1>4, <2>1, <2>2, <2>3 DEF PreawaitSucceeds, SameFlags, At,
       NoCall,
                                                       KindOf, Dependent, PhaseOk, Unlinked,
                                                       Adding, Removing, Working, InGroup,
                                                       FrameOk, PcsOf, Idle
  <2>5. continuation # "Awaited"
    BY <1>49, <1>1, <1>2, <1>3 DEF PreawaitSucceeds, PhaseOk
  <2>. QED
    BY <1>1, <2>1, <2>4, <2>5, OwnerMoves DEF StateInv
<1>50. ASSUME AwaitLoses
       PROVE  StateInv'
  <2>1. /\ \A u \in Thread \ {Owner} : frame'[u] = frame[u]
        /\ frame'[Owner].op = "run" /\ frame'[Owner].pc = "remove"
    BY <1>50, <1>1 DEF AwaitLoses, FlagAsRunning, NoCall
  <2>2. SameFlags /\ UNCHANGED job
    BY <1>50, <1>1 DEF AwaitLoses, SameFlags
  <2>3. (Dependent' <=> Dependent) /\ UNCHANGED scopes
    BY <1>50, <1>1 DEF AwaitLoses, Dependent, records
  <2>4. PhaseOk(frame[Owner])'
    BY <1>50, <1>1, <1>2, <1>3, <1>4, <2>1, <2>2, <2>3 DEF AwaitLoses, SameFlags, At,
                                                       FlagAsRunning, PhaseOk, Unlinked,
                                                       Adding, Removing, Working, InGroup,
                                                       FrameOk, PcsOf, Idle
  <2>5. continuation # "Awaited"
    BY <1>50, <1>1, <1>2, <1>3 DEF AwaitLoses, PhaseOk
  <2>. QED
    BY <1>1, <2>1, <2>4, <2>5, OwnerMoves DEF StateInv
<1>51. ASSUME RunJob
       PROVE  StateInv'
  <2>1. /\ \A u \in Thread \ {Owner} : frame'[u] = frame[u]
        /\ frame'[Owner].op = "run" /\ frame'[Owner].pc = "remove"
    BY <1>51, <1>1 DEF RunJob, FlagAsRunning, NoCall
  <2>2. SameFlags /\ ~job'.queued
    BY <1>51, <1>1 DEF RunJob, SameFlags
  <2>3. (Dependent' <=> Dependent) /\ UNCHANGED scopes
    BY <1>51, <1>1 DEF RunJob, Dependent, records
  <2>4. PhaseOk(frame[Owner])'
    BY <1>51, <1>1, <1>2, <1>3, <1>4, <2>1, <2>2, <2>3 DEF RunJob, SameFlags, FlagAsRunning,
                                                       NoCall, PhaseOk, Unlinked, Adding,
                                                       Removing, Working, InGroup, FrameOk,
                                                       PcsOf, Idle
  <2>5. job.queued
    BY <1>51, <1>1, <1>2, <1>3 DEF RunJob, PhaseOk
  <2>. QED
    BY <1>1, <2>1, <2>4, <2>5, OwnerMoves DEF StateInv
<1>. QED
  BY <1>5, <1>6, <1>7, <1>8, <1>9, <1>10, <1>11, <1>12, <1>13, <1>14, <1>15, <1>16, <1>17,
     <1>18, <1>19, <1>20, <1>21, <1>22, <1>23, <1>24, <1>25, <1>26, <1>27, <1>28, <1>29, <1>30,
     <1>31, <1>32, <1>33, <1>34, <1>35, <1>36, <1>37, <1>38, <1>39, <1>40, <1>41, <1>42, <1>43,
     <1>44, <1>45, <1>46, <1>47, <1>48, <1>49, <1>50, <1>51
  DEF Next, Call, LockStep, AwaitStep
=============================================================================
