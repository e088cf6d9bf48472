-------------------------- MODULE TaskCancelProofs --------------------------
(***************************************************************************)
(* Threads that go through the records of a task: they stay on the list,   *)
(* handlers run once, and cancellation and escalation reach everything the *)
(* task has.  With the parts of the invariant that TaskStatusProofs has    *)
(* shown to be kept, the theorems about a task's status.                   *)
(***************************************************************************)
EXTENDS TaskStatusProofs

-----------------------------------------------------------------------------
(* The list while a thread goes through it *)

\* The steps that put a record on the list or take one off
LEMMA RecordStep ==
  ASSUME IInv, Next
  PROVE  \/ status'.record = status.record /\ status'.preference = status.preference
         \/ \E t \in Thread :
              AddLockless(t) \/ RemoveLockless(t) \/ UpdateRemove(t) \/ UpdateAdd(t)
<1>1. status \in Status
  BY DEF IInv, TypeOK
<1>. DEFINE Kept == status'.record = status.record /\ status'.preference = status.preference
<1>2. CASE Call
  <2>1. CASE \/ UNCHANGED status
             \/ RunImmediately \/ Complete
             \/ \E t \in Thread : Cancel(t)
             \/ \E t \in Thread, p \in JobPriority : Escalate(t, p)
    BY <1>1, <2>1 DEF RunImmediately, Complete, Cancel, Escalate, Status
  <2>. QED
    BY <1>2, <2>1
    DEF Call, EnterScope, AsyncLet, FlagAsAndEnqueueOnExecutor, StartAdd, ExitScope, PopScope,
        AttachChild, DetachChild, CancelAll, ContinuationInit, ContinuationInitPreawaited,
        WaitFuture, Resume, HandlerResumes
<1>3. ASSUME NEW t \in Thread, LockStep(t)
      PROVE  \/ Kept
             \/ AddLockless(t) \/ RemoveLockless(t) \/ UpdateRemove(t) \/ UpdateAdd(t)
  <2>1. CASE UNCHANGED status \/ SetBit(t) \/ UpdatePlain(t) \/ UpdateResume(t)
    BY <1>1, <2>1 DEF SetBit, UpdatePlain, UpdateResume, Status
  <2>. QED
    BY <1>3, <2>1
    DEF LockStep, AddSeesLock, FireHandlerNow, DropFired, RemoveSeesLock, Lock, FnRemove,
        FnPop, Unlock, FnAttach, FnDetach, FnCancelAll, WalkCancel, WalkHandler, WalkNext,
        WalkEscalate, WalkEnd, Enqueue
<1>4. AwaitStep \/ RunJob => UNCHANGED status
  BY DEF AwaitStep, AwaitFindsResumed, FlagAsSuspended, StartAdd, AwaitSucceeds,
         PreawaitSucceeds, AwaitLoses, RunJob
<1>. QED
  BY <1>2, <1>3, <1>4 DEF Next

\* Nobody changes the list under a thread that goes through it.
LEMMA WalkersKeepList ==
  ASSUME IInv, Next, NEW t \in Thread, HasBit(frame[t]),
         frame[t].op \in {"cancel", "escalate"}
  PROVE  status'.record = status.record /\ status'.preference = status.preference
<1>1. /\ TypeOK /\ FrameInv /\ MutexInv /\ BitInv /\ ScopeInv
      /\ frame \in [Thread -> Frame] /\ Null \notin Thread
  BY TaskAssumption DEF IInv, TypeOK, Thread
<1>2. status.locked
  BY <1>1 DEF BitInv
<1>3. Depth(frame[t]) # 0
  BY DEF HasBit, Depth
<1>4. mutex.holder = t
  BY <1>1, <1>3 DEF MutexInv
<1>5. ASSUME NEW u \in Thread, u # t, UpdateRemove(u) \/ UpdateAdd(u)
      PROVE  FALSE
  <2>1. frame[u].pc = "update"
    BY <1>5 DEF UpdateRemove, UpdateAdd, At
  <2>2. Depth(frame[u]) # 0
    BY <2>1 DEF Depth
  <2>. QED
    BY <1>1, <1>4, <1>5, <2>2 DEF MutexInv
<1>6. ~UpdateRemove(t) /\ ~UpdateAdd(t)
  BY DEF UpdateRemove, UpdateAdd, Op, Adding
<1>7. ~\E u \in Thread : AddLockless(u) \/ RemoveLockless(u)
  BY <1>2 DEF AddLockless, RemoveLockless
<1>. QED
  BY <1>5, <1>6, <1>7, RecordStep

\* The innermost record the same, the list is the same.
LEMMA SameRecord ==
  ASSUME IInv, Next, status'.record = status.record
  PROVE  ListKept
BY Basics, ListStep DEF IInv

-----------------------------------------------------------------------------
(* Going through the list *)

Walkers == {"cancel", "escalate"}

SamePlace(f, g) ==
  /\ Place(g) = Place(f)
  /\ Place(f) # "none" => g.op = f.op /\ g.prio = f.prio
  /\ Place(f) \in {"at", "past"} => g.cur = f.cur

\* What a step does to a thread that goes through the list
PlaceGoal(u) ==
  LET f == frame[u]
      g == frame'[u]
  IN /\ g.op = "cancel" => f.op = "cancel" \/ Cancel(u)
     /\ \/ SamePlace(f, g)
        \/ /\ f.op \in Walkers /\ g.op = f.op /\ g.prio = f.prio
           /\ \/ /\ Place(f) = "before" /\ Place(g) = "at"
                 /\ g.cur = status.record /\ status'.record = status.record
              \/ /\ Place(f) = "at" /\ Place(g) = "past"
                 /\ g.cur = f.cur /\ f.cur # Null /\ kind[f.cur] = "cancel"
                 /\ WalkHandler(u)
              \/ /\ Place(f) = "past" /\ Place(g) = "at" /\ ~f.nested
                 /\ g.cur = parent[f.cur]
              \/ /\ Place(f) = "at" /\ Place(g) = "at"
                 /\ g.cur = parent[f.cur] /\ f.cur # Null
                 /\ WalkCancel(u) \/ WalkEscalate(u)
              \/ Place(f) = "at" /\ Place(g) = "none" /\ f.cur = Null
        \/ /\ Place(f) = "none" /\ Place(g) = "before"
           /\ Cancel(u) \/ \E p \in JobPriority : Escalate(u, p)

\* What the place of a thread in the list depends on, untouched
LEMMA PlaceStays ==
  ASSUME NEW u \in Thread, frame'[u] = frame[u]
  PROVE  PlaceGoal(u)
BY DEF PlaceGoal, SamePlace

\* A thread that is not going through the list has no place in it.
LEMMA PlaceNone ==
  ASSUME NEW u \in Thread, frame[u].op \notin Walkers, frame'[u].op \notin Walkers
  PROVE  PlaceGoal(u)
BY DEF PlaceGoal, SamePlace, Place, Walkers

\* Where a step takes those who go through the list
LEMMA PlaceStep ==
  ASSUME IInv, Next
  PROVE  \A u \in Thread : PlaceGoal(u)
<1>1. /\ TypeOK /\ FrameInv /\ ScopeInv /\ StateInv /\ WalkInv
      /\ frame \in [Thread -> Frame] /\ status \in Status /\ Owner \in Thread
  BY DEF IInv, TypeOK, Thread
<1>2. ASSUME NEW t \in Thread
      PROVE  FrameOk(t, frame[t])
  BY <1>1 DEF FrameInv
<1>3. ASSUME NEW r \in Record, NEW k \in {"cancel", "escalation", "group", "preference"},
             EnterScope(r, k)
      PROVE  \A u \in Thread : PlaceGoal(u)
  <2>1. /\ \A u \in Thread \ {Owner} : frame'[u] = frame[u]
        /\ frame[Owner].op \notin Walkers /\ frame'[Owner].op \notin Walkers
    BY <1>3, <1>1, <1>2 DEF EnterScope, StartAdd, OnTask, Idle, Walkers, NoCall, FrameOk, PcsOf
  <2>. QED
    BY <2>1, PlaceStays, PlaceNone
<1>4. ASSUME NEW r \in Record, NEW c \in Child, AsyncLet(r, c)
      PROVE  \A u \in Thread : PlaceGoal(u)
  <2>1. /\ \A u \in Thread \ {Owner} : frame'[u] = frame[u]
        /\ frame[Owner].op \notin Walkers /\ frame'[Owner].op \notin Walkers
    BY <1>4, <1>1, <1>2 DEF AsyncLet, StartAdd, OnTask, Idle, Walkers, NoCall, FrameOk, PcsOf
  <2>. QED
    BY <2>1, PlaceStays, PlaceNone
<1>5. ASSUME NEW r \in Record, FlagAsAndEnqueueOnExecutor(r)
      PROVE  \A u \in Thread : PlaceGoal(u)
  <2>1. /\ \A u \in Thread \ {Owner} : frame'[u] = frame[u]
        /\ frame[Owner].op \notin Walkers /\ frame'[Owner].op \notin Walkers
    BY <1>5, <1>1, <1>2 DEF FlagAsAndEnqueueOnExecutor, StartAdd, OnTask, Idle, Walkers, NoCall,
                         FrameOk, PcsOf
  <2>. QED
    BY <2>1, PlaceStays, PlaceNone
<1>6. ASSUME ExitScope
      PROVE  \A u \in Thread : PlaceGoal(u)
  <2>1. /\ \A u \in Thread \ {Owner} : frame'[u] = frame[u]
        /\ frame[Owner].op \notin Walkers /\ frame'[Owner].op \notin Walkers
    BY <1>6, <1>1, <1>2 DEF ExitScope, OnTask, Idle, Walkers, NoCall, FrameOk, PcsOf
  <2>. QED
    BY <2>1, PlaceStays, PlaceNone
<1>7. ASSUME PopScope
      PROVE  \A u \in Thread : PlaceGoal(u)
  <2>1. /\ \A u \in Thread \ {Owner} : frame'[u] = frame[u]
        /\ frame[Owner].op \notin Walkers /\ frame'[Owner].op \notin Walkers
    BY <1>7, <1>1, <1>2 DEF PopScope, OnTask, Idle, Walkers, NoCall, FrameOk, PcsOf
  <2>. QED
    BY <2>1, PlaceStays, PlaceNone
<1>8. ASSUME NEW r \in Record, NEW c \in Child, AttachChild(r, c)
      PROVE  \A u \in Thread : PlaceGoal(u)
  <2>1. /\ \A u \in Thread \ {Owner} : frame'[u] = frame[u]
        /\ frame[Owner].op \notin Walkers /\ frame'[Owner].op \notin Walkers
    BY <1>8, <1>1, <1>2 DEF AttachChild, WithLock, OnTask, Idle, Walkers, NoCall, FrameOk, PcsOf
  <2>. QED
    BY <2>1, PlaceStays, PlaceNone
<1>9. ASSUME NEW r \in Record, NEW c \in Child, DetachChild(r, c)
      PROVE  \A u \in Thread : PlaceGoal(u)
  <2>1. /\ \A u \in Thread \ {Owner} : frame'[u] = frame[u]
        /\ frame[Owner].op \notin Walkers /\ frame'[Owner].op \notin Walkers
    BY <1>9, <1>1, <1>2 DEF DetachChild, WithLock, OnTask, Idle, Walkers, NoCall, FrameOk, PcsOf
  <2>. QED
    BY <2>1, PlaceStays, PlaceNone
<1>10. ASSUME NEW r \in Record, CancelAll(r)
       PROVE  \A u \in Thread : PlaceGoal(u)
  <2>2. CASE UNCHANGED frame
    BY <2>2, PlaceStays
  <2>3. CASE WithLock("cancelAll", r, Null)
    <3>1. /\ \A u \in Thread \ {Owner} : frame'[u] = frame[u]
          /\ frame[Owner].op \notin Walkers /\ frame'[Owner].op \notin Walkers
      BY <1>10, <1>1, <1>2, <2>3
      DEF CancelAll, WithLock, OnTask, Idle, Walkers, NoCall, FrameOk, PcsOf
    <3>. QED
      BY <3>1, PlaceStays, PlaceNone
  <2>. QED
    BY <1>10, <2>2, <2>3 DEF CancelAll
<1>11. ASSUME ContinuationInit
       PROVE  \A u \in Thread : PlaceGoal(u)
  <2>1. /\ \A u \in Thread \ {Owner} : frame'[u] = frame[u]
        /\ frame[Owner].op \notin Walkers /\ frame'[Owner].op \notin Walkers
    BY <1>11, <1>1, <1>2 DEF ContinuationInit, MaySuspend, Goto, Frame, OnTask, Idle, Walkers,
                         NoCall, FrameOk, PcsOf
  <2>. QED
    BY <2>1, PlaceStays, PlaceNone
<1>12. ASSUME NEW r \in Record, ContinuationInitPreawaited(r)
       PROVE  \A u \in Thread : PlaceGoal(u)
  <2>1. /\ \A u \in Thread \ {Owner} : frame'[u] = frame[u]
        /\ frame[Owner].op \notin Walkers /\ frame'[Owner].op \notin Walkers
    BY <1>12, <1>1, <1>2 DEF ContinuationInitPreawaited, MaySuspend, StartAdd, OnTask, Idle,
                         Walkers, NoCall, FrameOk, PcsOf
  <2>. QED
    BY <2>1, PlaceStays, PlaceNone
<1>13. ASSUME NEW c \in Child, WaitFuture(c)
       PROVE  \A u \in Thread : PlaceGoal(u)
  <2>1. /\ \A u \in Thread \ {Owner} : frame'[u] = frame[u]
        /\ frame[Owner].op \notin Walkers /\ frame'[Owner].op \notin Walkers
    BY <1>13, <1>1, <1>2 DEF WaitFuture, MaySuspend, Frame, OnTask, Idle, Walkers, NoCall,
       FrameOk,
                         PcsOf
  <2>. QED
    BY <2>1, PlaceStays, PlaceNone
<1>14. ASSUME RunImmediately
       PROVE  \A u \in Thread : PlaceGoal(u)
  <2>1. /\ \A u \in Thread \ {Owner} : frame'[u] = frame[u]
        /\ frame[Owner].op \notin Walkers /\ frame'[Owner].op \notin Walkers
    BY <1>14, <1>1, <1>2 DEF RunImmediately, OnTask, Idle, Walkers, NoCall, FrameOk, PcsOf
  <2>. QED
    BY <2>1, PlaceStays, PlaceNone
<1>15. ASSUME Complete
       PROVE  \A u \in Thread : PlaceGoal(u)
  <2>1. /\ \A u \in Thread \ {Owner} : frame'[u] = frame[u]
        /\ frame[Owner].op \notin Walkers /\ frame'[Owner].op \notin Walkers
    BY <1>15, <1>1, <1>2 DEF Complete, OnTask, Idle, Walkers, NoCall, FrameOk, PcsOf
  <2>. QED
    BY <2>1, PlaceStays, PlaceNone
<1>16. ASSUME NEW t \in Thread, Cancel(t)
       PROVE  \A u \in Thread : PlaceGoal(u)
  <2>1. \A u \in Thread : u # t => frame'[u] = frame[u]
    BY <1>16, <1>1 DEF Cancel
  <2>3. frame[t].op = "none" /\ ~frame[t].nested
    BY <1>16, <1>2 DEF Cancel, Idle, FrameOk, NoCall
  <2>4. UNCHANGED frame \/ \E f : /\ frame' = [frame EXCEPT ![t] = f] /\ f.pc = "lock"
                                  /\ f.op = "cancel" /\ ~f.nested
    <3>. DEFINE f == [NoCall EXCEPT !.pc = "lock", !.op = "cancel",
                        !.old = Load([status EXCEPT !.cancelled = TRUE])]
    <3>1. UNCHANGED frame \/ frame' = [frame EXCEPT ![t] = f]
      BY <1>16 DEF Cancel
    <3>2. f.pc = "lock" /\ f.op = "cancel" /\ ~f.nested
      BY DEF NoCall
    <3>. HIDE DEF f
    <3>. QED
      BY <3>1, <3>2
  <2>2. PlaceGoal(t)
    <3>1. CASE UNCHANGED frame
      BY <3>1, PlaceStays
    <3>2. CASE ~UNCHANGED frame
      BY <1>16, <1>1, <2>3, <2>4, <3>2 DEF PlaceGoal, SamePlace, Place
    <3>. QED
      BY <3>1, <3>2
  <2>. QED
    BY <2>1, <2>2, PlaceStays
<1>17. ASSUME NEW t \in Thread, NEW p \in JobPriority, Escalate(t, p)
       PROVE  \A u \in Thread : PlaceGoal(u)
  <2>1. \A u \in Thread : u # t => frame'[u] = frame[u]
    BY <1>17, <1>1 DEF Escalate
  <2>3. frame[t].op = "none" /\ ~frame[t].nested
    BY <1>17, <1>2 DEF Escalate, Idle, FrameOk, NoCall
  <2>4. UNCHANGED frame \/ \E f : /\ frame' = [frame EXCEPT ![t] = f] /\ f.pc = "lock"
                                  /\ f.op = "escalate" /\ ~f.nested
    <3>. DEFINE f == [NoCall EXCEPT !.pc = "lock", !.prio = p, !.op = "escalate",
                        !.old = Load([status EXCEPT !.priority = p,
                                  !.escalated = @ \/ status.running \/ status.enqueued])]
    <3>1. UNCHANGED frame \/ frame' = [frame EXCEPT ![t] = f]
      BY <1>17 DEF Escalate
    <3>2. f.pc = "lock" /\ f.op = "escalate" /\ ~f.nested
      BY DEF NoCall
    <3>. HIDE DEF f
    <3>. QED
      BY <3>1, <3>2
  <2>2. PlaceGoal(t)
    <3>1. CASE UNCHANGED frame
      BY <3>1, PlaceStays
    <3>2. CASE ~UNCHANGED frame
      BY <1>17, <1>1, <2>3, <2>4, <3>2 DEF PlaceGoal, SamePlace, Place
    <3>. QED
      BY <3>1, <3>2
  <2>. QED
    BY <2>1, <2>2, PlaceStays
<1>18. ASSUME NEW t \in Thread, Resume(t)
       PROVE  \A u \in Thread : PlaceGoal(u)
  <2>1. \A u \in Thread : u # t => frame'[u] = frame[u]
    BY <1>18, <1>1 DEF Resume
  <2>3. frame[t].op = "none" /\ ~frame[t].nested
    BY <1>18, <1>2 DEF Resume, Idle, FrameOk, NoCall
  <2>4. UNCHANGED frame \/ \E f : /\ frame' = [frame EXCEPT ![t] = f] /\ f.pc = "lock"
                                  /\ f.op = "resume"
    <3>. DEFINE f == [NoCall EXCEPT !.pc = "lock", !.op = "resume", !.old = Load(status)]
    <3>1. UNCHANGED frame \/ frame' = [frame EXCEPT ![t] = f]
      BY <1>18 DEF Resume
    <3>2. f.pc = "lock" /\ f.op = "resume"
      BY DEF NoCall
    <3>. HIDE DEF f
    <3>. QED
      BY <3>1, <3>2
  <2>2. PlaceGoal(t)
    <3>1. CASE UNCHANGED frame
      BY <3>1, PlaceStays
    <3>2. CASE ~UNCHANGED frame
      BY <1>18, <1>1, <2>3, <2>4, <3>2 DEF PlaceGoal, SamePlace, Place
    <3>. QED
      BY <3>1, <3>2
  <2>. QED
    BY <2>1, <2>2, PlaceStays
<1>19. ASSUME NEW t \in Thread, HandlerResumes(t)
       PROVE  \A u \in Thread : PlaceGoal(u)
  <2>1. \A u \in Thread : u # t => frame'[u] = frame[u]
    BY <1>19, <1>1 DEF HandlerResumes
  <2>3. frame[t].op = "cancel" /\ frame[t].pc = "next"
    BY <1>19, <1>2 DEF HandlerResumes, At, FrameOk, PcsOf
  <2>2. PlaceGoal(t)
    <3>1. CASE UNCHANGED frame
      BY <3>1, PlaceStays
    <3>2. CASE ~UNCHANGED frame
      <4>1. frame' = [frame EXCEPT ![t].nested = TRUE, ![t].pc = "lock", ![t].old = Load(status)]
        BY <1>19, <3>2 DEF HandlerResumes
      <4>2. /\ frame'[t].op = frame[t].op /\ frame'[t].nested
            /\ frame'[t].cur = frame[t].cur /\ frame'[t].prio = frame[t].prio
        BY <1>1, <4>1 DEF Frame
      <4>. QED
        BY <2>3, <4>2 DEF PlaceGoal, SamePlace, Place
    <3>. QED
      BY <3>1, <3>2
  <2>. QED
    BY <2>1, <2>2, PlaceStays
<1>20. ASSUME NEW t \in Thread, AddLockless(t)
       PROVE  \A u \in Thread : PlaceGoal(u)
  <2>2. t = Owner /\ frame[Owner].op \in Adding /\ ~frame[Owner].nested
    BY <1>20, <1>1, OwnerAdds DEF AddLockless, At
  <2>4. \/ Goto(Owner, "fire")
        \/ frame' = [frame EXCEPT ![Owner] = NoCall]
        \/ frame' = [frame EXCEPT ![Owner] = [AfterAdd(Owner) EXCEPT !.old = Load(status)]]
           /\ frame[Owner].op # "add"
    BY <1>20, <2>2 DEF AddLockless
  <2>3. frame'[Owner].op \in {frame[Owner].op, "none"}
        /\ \A u \in Thread \ {Owner} : frame'[u] = frame[u]
    <3>1. CASE \/ Goto(Owner, "fire")
               \/ frame' = [frame EXCEPT ![Owner] = NoCall]
      BY <1>1, <3>1 DEF Goto, NoCall, Frame
    <3>2. CASE frame' = [frame EXCEPT ![Owner] = [AfterAdd(Owner) EXCEPT !.old = Load(status)]]
               /\ frame[Owner].op # "add"
      <4>1. AfterAdd(Owner) \in {[frame[Owner] EXCEPT !.pc = "awaited"],
                                 [frame[Owner] EXCEPT !.pc = "enqueue"]}
        BY <2>2, <3>2 DEF AfterAdd, Adding
      <4>. QED
        BY <1>1, <3>2, <4>1 DEF Frame
    <3>. QED
      BY <2>4, <3>1, <3>2
  <2>1. /\ \A u \in Thread \ {Owner} : frame'[u] = frame[u]
        /\ frame[Owner].op \notin Walkers /\ frame'[Owner].op \notin Walkers
    BY <2>2, <2>3 DEF Adding, Removing, Walkers
  <2>. QED
    BY <2>1, PlaceStays, PlaceNone
<1>21. ASSUME NEW t \in Thread, AddSeesLock(t)
       PROVE  \A u \in Thread : PlaceGoal(u)
  <2>2. t = Owner /\ frame[Owner].op \in Adding \cup Removing /\ ~frame[Owner].nested
    BY <1>21, <1>1, OwnerAdds DEF AddSeesLock, At
  <2>3. frame'[Owner].op \in {frame[Owner].op, "none"}
        /\ \A u \in Thread \ {Owner} : frame'[u] = frame[u]
    BY <1>21, <1>1, <2>2 DEF AddSeesLock, Frame
  <2>1. /\ \A u \in Thread \ {Owner} : frame'[u] = frame[u]
        /\ frame[Owner].op \notin Walkers /\ frame'[Owner].op \notin Walkers
    BY <2>2, <2>3 DEF Adding, Removing, Walkers
  <2>. QED
    BY <2>1, PlaceStays, PlaceNone
<1>22. ASSUME NEW t \in Thread, FireHandlerNow(t)
       PROVE  \A u \in Thread : PlaceGoal(u)
  <2>2. t = Owner /\ frame[Owner].op \in Adding \cup Removing /\ ~frame[Owner].nested
    BY <1>22, <1>1, OwnerAdds DEF FireHandlerNow, At
  <2>3. frame'[Owner].op \in {frame[Owner].op, "none"}
        /\ \A u \in Thread \ {Owner} : frame'[u] = frame[u]
    BY <1>22, <1>1, <2>2 DEF FireHandlerNow, Goto, Frame
  <2>1. /\ \A u \in Thread \ {Owner} : frame'[u] = frame[u]
        /\ frame[Owner].op \notin Walkers /\ frame'[Owner].op \notin Walkers
    BY <2>2, <2>3 DEF Adding, Removing, Walkers
  <2>. QED
    BY <2>1, PlaceStays, PlaceNone
<1>23. ASSUME NEW t \in Thread, DropFired(t)
       PROVE  \A u \in Thread : PlaceGoal(u)
  <2>2. t = Owner /\ frame[Owner].op \in Adding \cup Removing /\ ~frame[Owner].nested
    BY <1>23, <1>1, OwnerAdds DEF DropFired, At
  <2>3. frame'[Owner].op \in {frame[Owner].op, "none"}
        /\ \A u \in Thread \ {Owner} : frame'[u] = frame[u]
    BY <1>23, <1>1, <2>2 DEF DropFired, Return, NoCall, Frame
  <2>1. /\ \A u \in Thread \ {Owner} : frame'[u] = frame[u]
        /\ frame[Owner].op \notin Walkers /\ frame'[Owner].op \notin Walkers
    BY <2>2, <2>3 DEF Adding, Removing, Walkers
  <2>. QED
    BY <2>1, PlaceStays, PlaceNone
<1>24. ASSUME NEW t \in Thread, RemoveLockless(t)
       PROVE  \A u \in Thread : PlaceGoal(u)
  <2>2. t = Owner /\ frame[Owner].op \in Adding \cup Removing /\ ~frame[Owner].nested
    BY <1>24, <1>1, OwnerAdds DEF RemoveLockless, At
  <2>3. frame'[Owner].op \in {frame[Owner].op, "none"}
        /\ \A u \in Thread \ {Owner} : frame'[u] = frame[u]
    BY <1>24, <1>1, <2>2 DEF RemoveLockless, Return, NoCall, Frame
  <2>1. /\ \A u \in Thread \ {Owner} : frame'[u] = frame[u]
        /\ frame[Owner].op \notin Walkers /\ frame'[Owner].op \notin Walkers
    BY <2>2, <2>3 DEF Adding, Removing, Walkers
  <2>. QED
    BY <2>1, PlaceStays, PlaceNone
<1>25. ASSUME NEW t \in Thread, RemoveSeesLock(t)
       PROVE  \A u \in Thread : PlaceGoal(u)
  <2>2. t = Owner /\ frame[Owner].op \in Adding \cup Removing /\ ~frame[Owner].nested
    BY <1>25, <1>1, OwnerAdds DEF RemoveSeesLock, At
  <2>3. frame'[Owner].op \in {frame[Owner].op, "none"}
        /\ \A u \in Thread \ {Owner} : frame'[u] = frame[u]
    BY <1>25, <1>1, <2>2 DEF RemoveSeesLock, Frame
  <2>1. /\ \A u \in Thread \ {Owner} : frame'[u] = frame[u]
        /\ frame[Owner].op \notin Walkers /\ frame'[Owner].op \notin Walkers
    BY <2>2, <2>3 DEF Adding, Removing, Walkers
  <2>. QED
    BY <2>1, PlaceStays, PlaceNone
<1>26. ASSUME NEW t \in Thread, Lock(t)
       PROVE  \A u \in Thread : PlaceGoal(u)
  <2>1. \A u \in Thread : u # t => frame'[u] = frame[u]
    BY <1>26, <1>1 DEF Lock, Goto
  <2>3. /\ frame'[t].op = frame[t].op /\ frame'[t].nested = frame[t].nested
        /\ frame'[t].cur = frame[t].cur /\ frame'[t].prio = frame[t].prio
    BY <1>26, <1>1 DEF Lock, Goto, Frame
  <2>2. PlaceGoal(t)
    BY <1>26, <1>1, <1>2, <2>3 DEF Lock, Goto, At, Op, PlaceGoal, SamePlace, Place, Walkers,
                               FrameOk, PcsOf, Frame
  <2>. QED
    BY <2>1, <2>2, PlaceStays
<1>27. ASSUME NEW t \in Thread, SetBit(t)
       PROVE  \A u \in Thread : PlaceGoal(u)
  <2>1. \A u \in Thread : u # t => frame'[u] = frame[u]
    BY <1>27, <1>1 DEF SetBit
  <2>3. status'.record = status.record
    BY <1>27, <1>1 DEF SetBit, Status
  <2>4. PICK a, o, q, p :
          /\ p = IF Op(t) \in Adding \cup {"resume"} THEN "update" ELSE "fn"
          /\ q = IF frame[t].nested THEN frame[t].cur ELSE status.record
          /\ frame' = [frame EXCEPT ![t].already = a, ![t].old = o, ![t].cur = q, ![t].pc = p]
    BY <1>27, <1>1, ZenonT(60) DEF SetBit
  <2>5. frame'[t] = [frame[t] EXCEPT !.already = a, !.old = o, !.cur = q, !.pc = p]
    BY <1>1, <2>4
  <2>6. /\ frame'[t].op = frame[t].op /\ frame'[t].nested = frame[t].nested
        /\ frame'[t].cur = q /\ frame'[t].prio = frame[t].prio
        /\ frame'[t].pc = p /\ frame[t].pc = "setbit"
    BY <1>27, <1>1, <2>5 DEF Frame, SetBit, At
  <2>2. PlaceGoal(t)
    <3>1. CASE frame[t].op \notin Walkers
      BY <2>6, <3>1, PlaceNone
    <3>2. CASE frame[t].op \in Walkers /\ frame[t].nested
      BY <2>4, <2>6, <3>2 DEF PlaceGoal, SamePlace, Place, Walkers
    <3>3. CASE frame[t].op \in Walkers /\ ~frame[t].nested
      BY <2>3, <2>4, <2>6, <3>3 DEF PlaceGoal, Place, Walkers, Op, Adding
    <3>. QED
      BY <3>1, <3>2, <3>3
  <2>. QED
    BY <2>1, <2>2, PlaceStays
<1>28. ASSUME NEW t \in Thread, FnRemove(t)
       PROVE  \A u \in Thread : PlaceGoal(u)
  <2>2. t = Owner /\ frame[Owner].op \in Adding \cup Removing /\ ~frame[Owner].nested
    BY <1>28, <1>1, OwnerAdds DEF FnRemove, At, Removing
  <2>3. frame'[Owner].op \in {frame[Owner].op, "none"}
        /\ \A u \in Thread \ {Owner} : frame'[u] = frame[u]
    BY <1>28, <1>1, <2>2 DEF FnRemove, Goto, Frame
  <2>1. /\ \A u \in Thread \ {Owner} : frame'[u] = frame[u]
        /\ frame[Owner].op \notin Walkers /\ frame'[Owner].op \notin Walkers
    BY <2>2, <2>3 DEF Adding, Removing, Walkers
  <2>. QED
    BY <2>1, PlaceStays, PlaceNone
<1>29. ASSUME NEW t \in Thread, FnPop(t)
       PROVE  \A u \in Thread : PlaceGoal(u)
  <2>2. t = Owner /\ frame[Owner].op \in Adding \cup Removing /\ ~frame[Owner].nested
    BY <1>29, <1>1, OwnerAdds DEF FnPop, At, Removing
  <2>4. \E q, b : frame' = [frame EXCEPT ![t].pc = "update", ![t].cur = q, ![t].flag = b]
    BY <1>29 DEF FnPop
  <2>3. frame'[Owner].op \in {frame[Owner].op, "none"}
        /\ \A u \in Thread \ {Owner} : frame'[u] = frame[u]
    BY <1>1, <2>2, <2>4 DEF Frame
  <2>1. /\ \A u \in Thread \ {Owner} : frame'[u] = frame[u]
        /\ frame[Owner].op \notin Walkers /\ frame'[Owner].op \notin Walkers
    BY <2>2, <2>3 DEF Adding, Removing, Walkers
  <2>. QED
    BY <2>1, PlaceStays, PlaceNone
<1>30. ASSUME NEW t \in Thread, UpdateRemove(t)
       PROVE  \A u \in Thread : PlaceGoal(u)
  <2>2. t = Owner /\ frame[Owner].op \in Adding \cup Removing /\ ~frame[Owner].nested
    BY <1>30, <1>1, OwnerAdds DEF UpdateRemove, At, Removing
  <2>3. frame'[Owner].op \in {frame[Owner].op, "none"}
        /\ \A u \in Thread \ {Owner} : frame'[u] = frame[u]
    BY <1>30, <1>1, <2>2 DEF UpdateRemove, Goto, Frame
  <2>1. /\ \A u \in Thread \ {Owner} : frame'[u] = frame[u]
        /\ frame[Owner].op \notin Walkers /\ frame'[Owner].op \notin Walkers
    BY <2>2, <2>3 DEF Adding, Removing, Walkers
  <2>. QED
    BY <2>1, PlaceStays, PlaceNone
<1>31. ASSUME NEW t \in Thread, UpdateAdd(t)
       PROVE  \A u \in Thread : PlaceGoal(u)
  <2>2. t = Owner /\ frame[Owner].op \in Adding \cup Removing /\ ~frame[Owner].nested
    BY <1>31, <1>1, OwnerAdds DEF UpdateAdd, At
  <2>3. frame'[Owner].op \in {frame[Owner].op, "none"}
        /\ \A u \in Thread \ {Owner} : frame'[u] = frame[u]
    BY <1>31, <1>1, <2>2 DEF UpdateAdd, Frame
  <2>1. /\ \A u \in Thread \ {Owner} : frame'[u] = frame[u]
        /\ frame[Owner].op \notin Walkers /\ frame'[Owner].op \notin Walkers
    BY <2>2, <2>3 DEF Adding, Removing, Walkers
  <2>. QED
    BY <2>1, PlaceStays, PlaceNone
<1>32. ASSUME NEW t \in Thread, UpdateResume(t)
       PROVE  \A u \in Thread : PlaceGoal(u)
  <2>1. \A u \in Thread : u # t => frame'[u] = frame[u]
    BY <1>32, <1>1 DEF UpdateResume, Goto
  <2>3. /\ frame'[t].op = frame[t].op /\ frame'[t].nested = frame[t].nested
        /\ frame'[t].cur = frame[t].cur /\ frame'[t].prio = frame[t].prio
    BY <1>32, <1>1 DEF UpdateResume, Goto, Frame
  <2>2. PlaceGoal(t)
    BY <1>32, <1>1, <1>2, <2>3 DEF UpdateResume, Goto, At, Op, PlaceGoal, SamePlace, Place,
                               Walkers, FrameOk, PcsOf, Frame
  <2>. QED
    BY <2>1, <2>2, PlaceStays
<1>33. ASSUME NEW t \in Thread, UpdatePlain(t)
       PROVE  \A u \in Thread : PlaceGoal(u)
  <2>1. \A u \in Thread : u # t => frame'[u] = frame[u]
    BY <1>33, <1>1 DEF UpdatePlain, Goto
  <2>3. /\ frame'[t].op = frame[t].op /\ frame'[t].nested = frame[t].nested
        /\ frame'[t].cur = frame[t].cur /\ frame'[t].prio = frame[t].prio
    BY <1>33, <1>1 DEF UpdatePlain, Goto, Frame
  <2>2. PlaceGoal(t)
    BY <1>33, <1>1, <1>2, <2>3 DEF UpdatePlain, Goto, At, Op, PlaceGoal, SamePlace, Place,
       Walkers,
                               FrameOk, PcsOf, Frame
  <2>. QED
    BY <2>1, <2>2, PlaceStays
<1>34. ASSUME NEW t \in Thread, Unlock(t)
       PROVE  \A u \in Thread : PlaceGoal(u)
  <2>1. \A u \in Thread : u # t => frame'[u] = frame[u]
    BY <1>34, <1>1 DEF Unlock
  <2>3. frame'[t] = AfterUnlock(t) /\ frame[t].pc = "unlock"
    BY <1>34, <1>1 DEF Unlock, At
  <2>2. PlaceGoal(t)
    <3>1. CASE Op(t) = "resume"
      <4>1. frame'[t] = [frame[t] EXCEPT !.pc = "enqueue"]
        BY <2>3, <3>1 DEF AfterUnlock, Adding
      <4>2. /\ frame'[t].op = frame[t].op /\ frame'[t].nested = frame[t].nested
            /\ frame'[t].cur = frame[t].cur /\ frame'[t].prio = frame[t].prio
            /\ frame'[t].pc = "enqueue"
        BY <1>1, <4>1 DEF Frame
      <4>. QED
        BY <2>3, <4>2 DEF PlaceGoal, SamePlace, Place
    <3>2. CASE Op(t) \in Adding
      <4>1. frame[t].op \in Adding
        BY <1>2, <3>2 DEF Op, Adding
      <4>2. frame'[t] \in {NoCall, [frame[t] EXCEPT !.pc = "fire"],
                [frame[t] EXCEPT !.pc = "awaited"], [frame[t] EXCEPT !.pc = "enqueue"]}
        BY <2>3, <3>2, <4>1 DEF AfterUnlock, AfterAdd, Adding
      <4>3. frame'[t].op \in {"none", frame[t].op}
        BY <1>1, <4>2 DEF Frame, NoCall
      <4>. QED
        BY <4>1, <4>3, PlaceNone DEF Adding, Walkers
    <3>3. CASE Op(t) \notin Adding \cup {"resume"}
      <4>1. frame'[t] = NoCall
        BY <2>3, <3>3 DEF AfterUnlock
      <4>. QED
        BY <2>3, <3>3, <4>1 DEF NoCall, Op, PlaceGoal, SamePlace, Place
    <3>. QED
      BY <3>1, <3>2, <3>3
  <2>. QED
    BY <2>1, <2>2, PlaceStays
<1>35. ASSUME NEW t \in Thread, FnAttach(t)
       PROVE  \A u \in Thread : PlaceGoal(u)
  <2>1. \A u \in Thread : u # t => frame'[u] = frame[u]
    BY <1>35, <1>1 DEF FnAttach, Goto
  <2>3. /\ frame'[t].op = frame[t].op /\ frame'[t].nested = frame[t].nested
        /\ frame'[t].cur = frame[t].cur /\ frame'[t].prio = frame[t].prio
    BY <1>35, <1>1 DEF FnAttach, Goto, Frame
  <2>2. PlaceGoal(t)
    BY <1>35, <1>1, <1>2, <2>3 DEF FnAttach, Goto, At, Op, PlaceGoal, SamePlace, Place, Walkers,
                               FrameOk, PcsOf, Frame
  <2>. QED
    BY <2>1, <2>2, PlaceStays
<1>36. ASSUME NEW t \in Thread, FnDetach(t)
       PROVE  \A u \in Thread : PlaceGoal(u)
  <2>1. \A u \in Thread : u # t => frame'[u] = frame[u]
    BY <1>36, <1>1 DEF FnDetach, Goto
  <2>3. /\ frame'[t].op = frame[t].op /\ frame'[t].nested = frame[t].nested
        /\ frame'[t].cur = frame[t].cur /\ frame'[t].prio = frame[t].prio
    BY <1>36, <1>1 DEF FnDetach, Goto, Frame
  <2>2. PlaceGoal(t)
    BY <1>36, <1>1, <1>2, <2>3 DEF FnDetach, Goto, At, Op, PlaceGoal, SamePlace, Place, Walkers,
                               FrameOk, PcsOf, Frame
  <2>. QED
    BY <2>1, <2>2, PlaceStays
<1>37. ASSUME NEW t \in Thread, FnCancelAll(t)
       PROVE  \A u \in Thread : PlaceGoal(u)
  <2>1. \A u \in Thread : u # t => frame'[u] = frame[u]
    BY <1>37, <1>1 DEF FnCancelAll, Goto
  <2>3. /\ frame'[t].op = frame[t].op /\ frame'[t].nested = frame[t].nested
        /\ frame'[t].cur = frame[t].cur /\ frame'[t].prio = frame[t].prio
    BY <1>37, <1>1 DEF FnCancelAll, Goto, Frame
  <2>2. PlaceGoal(t)
    BY <1>37, <1>1, <1>2, <2>3 DEF FnCancelAll, Goto, At, Op, PlaceGoal, SamePlace, Place,
       Walkers,
                               FrameOk, PcsOf, Frame
  <2>. QED
    BY <2>1, <2>2, PlaceStays
<1>38. ASSUME NEW t \in Thread, WalkCancel(t)
       PROVE  \A u \in Thread : PlaceGoal(u)
  <2>1. \A u \in Thread : u # t => frame'[u] = frame[u]
    BY <1>38, <1>1 DEF WalkCancel
  <2>3. /\ frame'[t].op = frame[t].op /\ frame'[t].nested = frame[t].nested
        /\ frame'[t].cur = parent[frame[t].cur] /\ frame'[t].prio = frame[t].prio
        /\ frame'[t].pc = "fn"
    BY <1>38, <1>1 DEF WalkCancel, Walking, At, Frame
  <2>2. PlaceGoal(t)
    BY <1>38, <2>3 DEF WalkCancel, Walking, At, PlaceGoal, Place, Walkers
  <2>. QED
    BY <2>1, <2>2, PlaceStays
<1>39. ASSUME NEW t \in Thread, WalkHandler(t)
       PROVE  \A u \in Thread : PlaceGoal(u)
  <2>1. \A u \in Thread : u # t => frame'[u] = frame[u]
    BY <1>39, <1>1 DEF WalkHandler, Goto
  <2>3. /\ frame'[t].op = frame[t].op /\ frame'[t].nested = frame[t].nested
        /\ frame'[t].cur = frame[t].cur /\ frame'[t].prio = frame[t].prio
    BY <1>39, <1>1 DEF WalkHandler, Goto, Frame
  <2>2. PlaceGoal(t)
    BY <1>39, <1>1, <1>2, <2>3 DEF WalkHandler, Goto, At, Op, PlaceGoal, SamePlace, Place,
       Walkers,
                               FrameOk, PcsOf, Frame, Walking
  <2>. QED
    BY <2>1, <2>2, PlaceStays
<1>40. ASSUME NEW t \in Thread, WalkNext(t)
       PROVE  \A u \in Thread : PlaceGoal(u)
  <2>1. \A u \in Thread : u # t => frame'[u] = frame[u]
    BY <1>40, <1>1 DEF WalkNext
  <2>3. /\ frame'[t].op = frame[t].op /\ frame'[t].nested = frame[t].nested
        /\ frame'[t].cur = parent[frame[t].cur] /\ frame'[t].prio = frame[t].prio
        /\ frame'[t].pc = "fn" /\ frame[t].pc = "next"
    BY <1>40, <1>1 DEF WalkNext, At, Frame
  <2>4. frame[t].op = "cancel" /\ ~frame[t].nested
    BY <1>2, <2>3 DEF FrameOk, PcsOf
  <2>2. PlaceGoal(t)
    BY <2>3, <2>4 DEF PlaceGoal, Place, Walkers
  <2>. QED
    BY <2>1, <2>2, PlaceStays
<1>41. ASSUME NEW t \in Thread, WalkEscalate(t)
       PROVE  \A u \in Thread : PlaceGoal(u)
  <2>1. \A u \in Thread : u # t => frame'[u] = frame[u]
    BY <1>41, <1>1 DEF WalkEscalate
  <2>3. /\ frame'[t].op = frame[t].op /\ frame'[t].nested = frame[t].nested
        /\ frame'[t].cur = parent[frame[t].cur] /\ frame'[t].prio = frame[t].prio
        /\ frame'[t].pc = "fn"
    BY <1>41, <1>1 DEF WalkEscalate, Walking, At, Frame
  <2>2. PlaceGoal(t)
    BY <1>41, <2>3 DEF WalkEscalate, Walking, At, PlaceGoal, Place, Walkers
  <2>. QED
    BY <2>1, <2>2, PlaceStays
<1>42. ASSUME NEW t \in Thread, WalkEnd(t)
       PROVE  \A u \in Thread : PlaceGoal(u)
  <2>1. \A u \in Thread : u # t => frame'[u] = frame[u]
    BY <1>42, <1>1 DEF WalkEnd, Goto
  <2>3. /\ frame'[t].op = frame[t].op /\ frame'[t].nested = frame[t].nested
        /\ frame'[t].cur = frame[t].cur /\ frame'[t].prio = frame[t].prio
    BY <1>42, <1>1 DEF WalkEnd, Goto, Frame
  <2>2. PlaceGoal(t)
    BY <1>42, <1>1, <1>2, <2>3 DEF WalkEnd, Goto, At, Op, PlaceGoal, SamePlace, Place, Walkers,
                               FrameOk, PcsOf, Frame, Walking
  <2>. QED
    BY <2>1, <2>2, PlaceStays
<1>43. ASSUME NEW t \in Thread, Enqueue(t)
       PROVE  \A u \in Thread : PlaceGoal(u)
  <2>1. \A u \in Thread : u # t => frame'[u] = frame[u]
    BY <1>43, <1>1 DEF Enqueue
  <2>3. /\ frame[t].pc = "enqueue" /\ (frame[t].nested => frame[t].op = "cancel")
        /\ ~frame[t].nested => frame'[t] = NoCall
        /\ frame[t].nested =>
             frame'[t] = [frame[t] EXCEPT !.pc = "next", !.nested = FALSE, !.already = FALSE]
    BY <1>43, <1>1, <1>2 DEF Enqueue, At, FrameOk
  <2>2. PlaceGoal(t)
    <3>1. CASE frame[t].nested
      <4>1. /\ frame'[t].op = frame[t].op /\ frame'[t].nested = FALSE
            /\ frame'[t].cur = frame[t].cur /\ frame'[t].prio = frame[t].prio
            /\ frame'[t].pc = "next"
        <5>1. frame'[t] = [frame[t] EXCEPT !.pc = "next", !.nested = FALSE, !.already = FALSE]
          BY <2>3, <3>1
        <5>. QED
          BY <1>1, <5>1 DEF Frame
      <4>. QED
        BY <2>3, <3>1, <4>1 DEF PlaceGoal, SamePlace, Place
    <3>2. CASE ~frame[t].nested
      BY <2>3, <3>2 DEF NoCall, PlaceGoal, SamePlace, Place
    <3>. QED
      BY <3>1, <3>2
  <2>. QED
    BY <2>1, <2>2, PlaceStays
<1>44. ASSUME AwaitFindsResumed
       PROVE  \A u \in Thread : PlaceGoal(u)
  <2>1. /\ \A u \in Thread \ {Owner} : frame'[u] = frame[u]
        /\ frame[Owner].op \notin Walkers /\ frame'[Owner].op \notin Walkers
    BY <1>44, <1>1, <1>2 DEF AwaitFindsResumed, At, Return, Walkers, NoCall, FrameOk, PcsOf
  <2>. QED
    BY <2>1, PlaceStays, PlaceNone
<1>45. ASSUME NEW r \in Record, FlagAsSuspended(r)
       PROVE  \A u \in Thread : PlaceGoal(u)
  <2>1. /\ \A u \in Thread \ {Owner} : frame'[u] = frame[u]
        /\ frame[Owner].op \notin Walkers /\ frame'[Owner].op \notin Walkers
    BY <1>45, <1>1, <1>2 DEF FlagAsSuspended, StartAdd, At, Walkers, NoCall, FrameOk, PcsOf
  <2>. QED
    BY <2>1, PlaceStays, PlaceNone
<1>46. ASSUME AwaitSucceeds
       PROVE  \A u \in Thread : PlaceGoal(u)
  <2>1. /\ \A u \in Thread \ {Owner} : frame'[u] = frame[u]
        /\ frame[Owner].op \notin Walkers /\ frame'[Owner].op \notin Walkers
    BY <1>46, <1>1, <1>2 DEF AwaitSucceeds, At, Return, Walkers, NoCall, FrameOk, PcsOf
  <2>. QED
    BY <2>1, PlaceStays, PlaceNone
<1>47. ASSUME PreawaitSucceeds
       PROVE  \A u \in Thread : PlaceGoal(u)
  <2>1. /\ \A u \in Thread \ {Owner} : frame'[u] = frame[u]
        /\ frame[Owner].op \notin Walkers /\ frame'[Owner].op \notin Walkers
    BY <1>47, <1>1, <1>2 DEF PreawaitSucceeds, At, Return, Walkers, NoCall, FrameOk, PcsOf
  <2>. QED
    BY <2>1, PlaceStays, PlaceNone
<1>48. ASSUME AwaitLoses
       PROVE  \A u \in Thread : PlaceGoal(u)
  <2>1. /\ \A u \in Thread \ {Owner} : frame'[u] = frame[u]
        /\ frame[Owner].op \notin Walkers /\ frame'[Owner].op \notin Walkers
    BY <1>48, <1>1, <1>2 DEF AwaitLoses, At, FlagAsRunning, Walkers, NoCall, FrameOk, PcsOf
  <2>. QED
    BY <2>1, PlaceStays, PlaceNone
<1>49. ASSUME RunJob
       PROVE  \A u \in Thread : PlaceGoal(u)
  <2>1. /\ \A u \in Thread \ {Owner} : frame'[u] = frame[u]
        /\ frame[Owner].op \notin Walkers /\ frame'[Owner].op \notin Walkers
    BY <1>49, <1>1, <1>2 DEF RunJob, Idle, FlagAsRunning, Walkers, NoCall, FrameOk, PcsOf
  <2>. QED
    BY <2>1, PlaceStays, PlaceNone
<1>. QED
  BY <1>3, <1>4, <1>5, <1>6, <1>7, <1>8, <1>9, <1>10, <1>11, <1>12, <1>13, <1>14, <1>15, <1>16,
     <1>17, <1>18, <1>19, <1>20, <1>21, <1>22, <1>23, <1>24, <1>25, <1>26, <1>27, <1>28, <1>29,
     <1>30, <1>31, <1>32, <1>33, <1>34, <1>35, <1>36, <1>37, <1>38, <1>39, <1>40, <1>41, <1>42,
     <1>43, <1>44, <1>45, <1>46, <1>47, <1>48, <1>49
  DEF Next, Call, LockStep, AwaitStep

\* A record of the list, and those behind it
LEMMA Behind ==
  ASSUME TypeOK, FrameInv, ScopeInv, LinkInv
  PROVE  /\ status.record \in Linked \cup {Null} /\ Linked = ChainFrom(parent, status.record)
         /\ Linked \subseteq Record /\ ChainFrom(parent, Null) = {}
         /\ \A r \in Linked :
              /\ ChainFrom(parent, r) = {r} \cup ChainFrom(parent, parent[r])
              /\ r \notin ChainFrom(parent, parent[r])
              /\ parent[r] \in Linked \cup {Null}
              /\ ChainFrom(parent, r) \subseteq Linked
<1>1. /\ parent \in Parents /\ Height \in Nat /\ Height <= Len(scopes)
      /\ Len(scopes) \in Nat /\ scopes \in Seq(Record)
      /\ Leads(parent, scopes, Height) /\ Linked = Bottom(scopes, Height)
      /\ status.record \in Record \cup {Null}
  BY ListIsStack DEF TypeOK, Status
<1>2. \A i, j \in 1..Len(scopes) : scopes[i] = scopes[j] => i = j
  BY DEF ScopeInv, StackInv
<1>3. HoldsChain(parent, Linked, status.record)
  BY <1>1, ChainHolds DEF Linked
<1>4. status.record \in Linked \cup {Null} /\ Linked \subseteq Record
  BY <1>3 DEF HoldsChain, Linked, ChainFrom
<1>5. ASSUME NEW r \in Linked
      PROVE  /\ ChainFrom(parent, r) = {r} \cup ChainFrom(parent, parent[r])
             /\ r \notin ChainFrom(parent, parent[r])
             /\ parent[r] \in Linked \cup {Null}
             /\ ChainFrom(parent, r) \subseteq Linked
  BY <1>1, <1>2, ChainStep
<1>. QED
  BY <1>1, <1>4, <1>5, ChainNothing DEF Linked

\* Whoever goes through the list stays on it.
LEMMA WalkStep ==
  ASSUME IInv, Next
  PROVE  WalkInv'
<1>1. /\ TypeOK /\ FrameInv /\ ScopeInv /\ LinkInv /\ WalkInv
      /\ frame \in [Thread -> Frame] /\ FrameInv'
  BY Basics DEF IInv, TypeOK
<1>2. /\ status.record \in Linked \cup {Null}
      /\ \A r \in Linked : parent[r] \in Linked \cup {Null}
  BY <1>1, Behind
<1>3. ASSUME NEW t \in Thread, frame'[t].op \in {"cancel", "escalate"},
             frame'[t].pc \in {"fn", "next"} \/ frame'[t].nested
      PROVE  /\ frame'[t].cur \in Linked' \cup {Null}
             /\ frame'[t].pc = "next" \/ frame'[t].nested =>
                  frame'[t].cur # Null /\ kind'[frame'[t].cur] = "cancel"
  <2>. DEFINE f == frame[t]
              g == frame'[t]
  <2>1. PlaceGoal(t) /\ FrameOk(t, g)
    BY <1>1, PlaceStep DEF FrameInv
  <2>2. /\ Place(g) \in {"at", "past"}
        /\ g.pc = "next" \/ g.nested <=> Place(g) = "past"
    BY <1>3, <2>1 DEF Place, FrameOk, PcsOf
  <2>3. /\ Place(f) \in {"at", "past"} =>
             /\ f.op \in {"cancel", "escalate"} /\ HasBit(f)
             /\ f.cur \in Linked \cup {Null}
        /\ Place(f) = "past" => f.cur # Null /\ kind[f.cur] = "cancel"
    BY <1>1 DEF Place, HasBit, WalkInv
  <2>4. ListKept
    <3>1. Place(f) \in {"at", "past"} \/ status'.record = status.record
      BY <2>1, <2>2 DEF PlaceGoal, SamePlace
    <3>. QED
      BY <2>3, <3>1, WalkersKeepList, SameRecord
  <2>5. /\ g.cur \in Linked \cup {Null}
        /\ Place(g) = "past" => g.cur # Null /\ kind[g.cur] = "cancel"
    BY <1>2, <2>1, <2>2, <2>3 DEF PlaceGoal, SamePlace
  <2>. QED
    BY <2>2, <2>4, <2>5 DEF ListKept, SameChain
<1>. QED
  BY <1>3 DEF WalkInv

\* What a step does to what a thread has before it
AheadGoal(t) ==
  /\ \/ Ahead(t)' \subseteq Ahead(t) \cup (Linked' \ Linked)
     \/ Cancel(t) \/ \E p \in JobPriority : Escalate(t, p)
  /\ Ahead(t)' \subseteq Linked'
  /\ \A r \in Ahead(t) \cap Linked' :
       \/ r \in Ahead(t)' /\ frame'[t].op = frame[t].op /\ frame'[t].prio = frame[t].prio
       \/ r = frame[t].cur /\ (WalkCancel(t) \/ WalkHandler(t) \/ WalkEscalate(t))

\* What a step leaves ahead of a thread was ahead of it, or is new on the list.
LEMMA AheadStep ==
  ASSUME IInv, Next, NEW t \in Thread
  PROVE  AheadGoal(t)
<1>. DEFINE f == frame[t]
            g == frame'[t]
<1>1. /\ TypeOK /\ FrameInv /\ ScopeInv /\ LinkInv /\ WalkInv
      /\ TypeOK' /\ FrameInv' /\ ScopeInv' /\ LinkInv' /\ PlaceGoal(t)
  BY Basics, PlaceStep DEF IInv
<1>2. /\ status.record \in Linked \cup {Null} /\ Linked = ChainFrom(parent, status.record)
      /\ ChainFrom(parent, Null) = {}
      /\ \A r \in Linked :
           /\ ChainFrom(parent, r) = {r} \cup ChainFrom(parent, parent[r])
           /\ parent[r] \in Linked \cup {Null}
           /\ ChainFrom(parent, r) \subseteq Linked
  BY <1>1, Behind
<1>3. /\ Place(f) \in {"at", "past"} =>
           /\ f.op \in {"cancel", "escalate"} /\ HasBit(f)
           /\ f.cur \in Linked \cup {Null}
      /\ Place(f) = "past" => f.cur # Null
  BY <1>1 DEF Place, HasBit, WalkInv
<1>4. Place(f) \in {"at", "past"} \/ status'.record = status.record => ListKept
  BY <1>3, WalkersKeepList, SameRecord
<1>5. /\ Ahead(t) = IF Place(f) = "before" THEN Linked
                    ELSE IF Place(f) = "at" THEN ChainFrom(parent, f.cur)
                    ELSE IF Place(f) = "past" THEN ChainFrom(parent, parent[f.cur])
                    ELSE {}
      /\ Ahead(t)' = IF Place(g) = "before" THEN Linked'
                     ELSE IF Place(g) = "at" THEN ChainFrom(parent', g.cur)
                     ELSE IF Place(g) = "past" THEN ChainFrom(parent', parent'[g.cur])
                     ELSE {}
  BY DEF Ahead
<1>6. ASSUME ListKept
      PROVE  /\ Linked' = Linked
             /\ \A q \in Linked \cup {Null} : ChainFrom(parent', q) = ChainFrom(parent, q)
             /\ \A q \in Linked : parent'[q] = parent[q]
  <2>1. Null \notin Linked
    BY TaskAssumption DEF Linked, ChainFrom
  <2>. QED
    BY <1>6, <2>1 DEF ListKept, SameChain
<1>7. CASE SamePlace(f, g)
  <2>1. CASE Place(f) \in {"at", "past"}
    <3>1. Ahead(t)' = Ahead(t)
      BY <1>2, <1>3, <1>4, <1>5, <1>6, <1>7, <2>1 DEF SamePlace
    <3>2. Ahead(t) \subseteq Linked
      BY <1>2, <1>3, <1>5, <2>1
    <3>. QED
      BY <1>4, <1>6, <1>7, <2>1, <3>1, <3>2 DEF AheadGoal, SamePlace
  <2>2. CASE Place(f) \notin {"at", "past"}
    BY <1>5, <1>7, <2>2 DEF AheadGoal, SamePlace
  <2>. QED
    BY <2>1, <2>2
<1>8. CASE Place(f) = "none" /\ Place(g) = "before"
           /\ (Cancel(t) \/ \E p \in JobPriority : Escalate(t, p))
  BY <1>5, <1>8 DEF AheadGoal
<1>9. CASE ~SamePlace(f, g) /\ ~(Place(f) = "none" /\ Place(g) = "before"
                                 /\ (Cancel(t) \/ \E p \in JobPriority : Escalate(t, p)))
  <2>1. ListKept /\ g.op = f.op /\ g.prio = f.prio
    BY <1>1, <1>4, <1>9 DEF PlaceGoal
  <2>2. CASE Place(f) = "before" /\ Place(g) = "at" /\ g.cur = status.record
    BY <1>2, <1>5, <1>6, <2>1, <2>2 DEF AheadGoal
  <2>3. CASE /\ Place(f) = "at" /\ Place(g) = "past" /\ g.cur = f.cur
             /\ f.cur # Null /\ WalkHandler(t)
    <3>1. /\ Ahead(t) = {f.cur} \cup Ahead(t)' /\ Ahead(t) \subseteq Linked
      BY <1>2, <1>3, <1>5, <1>6, <2>1, <2>3
    <3>. QED
      BY <1>6, <2>1, <2>3, <3>1 DEF AheadGoal
  <2>4. CASE Place(f) = "past" /\ Place(g) = "at" /\ g.cur = parent[f.cur]
    <3>1. Ahead(t)' = Ahead(t) /\ Ahead(t) \subseteq Linked
      BY <1>2, <1>3, <1>5, <1>6, <2>1, <2>4
    <3>. QED
      BY <1>6, <2>1, <3>1 DEF AheadGoal
  <2>5. CASE /\ Place(f) = "at" /\ Place(g) = "at" /\ g.cur = parent[f.cur] /\ f.cur # Null
             /\ WalkCancel(t) \/ WalkEscalate(t)
    <3>1. /\ Ahead(t) = {f.cur} \cup Ahead(t)' /\ Ahead(t) \subseteq Linked
      BY <1>2, <1>3, <1>5, <1>6, <2>1, <2>5
    <3>. QED
      BY <1>6, <2>1, <2>5, <3>1 DEF AheadGoal
  <2>6. CASE Place(f) = "at" /\ Place(g) = "none" /\ f.cur = Null
    BY <1>2, <1>5, <2>6 DEF AheadGoal
  <2>. QED
    BY <1>1, <1>9, <2>2, <2>3, <2>4, <2>5, <2>6 DEF PlaceGoal
<1>. QED
  BY <1>7, <1>8, <1>9

-----------------------------------------------------------------------------
(* What a step does to the records *)

\* Only a canceller and an escalator change what the records have to learn.
LEMMA StatusStep ==
  ASSUME IInv, Next
  PROVE  \/ status'.cancelled = status.cancelled /\ status'.priority = status.priority
         \/ \E t \in Thread : Cancel(t) /\ status' = [status EXCEPT !.cancelled = TRUE]
         \/ \E t \in Thread, p \in JobPriority :
              /\ Escalate(t, p) /\ status'.priority = p
              /\ status'.cancelled = status.cancelled
<1>1. status \in Status
  BY DEF IInv, TypeOK
<1>. DEFINE Kept == status'.cancelled = status.cancelled /\ status'.priority = status.priority
<1>2. CASE Call
  <2>1. CASE UNCHANGED status \/ RunImmediately \/ Complete
    BY <1>1, <2>1 DEF RunImmediately, Complete, Status
  <2>2. ASSUME NEW t \in Thread, Cancel(t)
        PROVE  status' = [status EXCEPT !.cancelled = TRUE]
    BY <2>2 DEF Cancel
  <2>3. ASSUME NEW t \in Thread, NEW p \in JobPriority, Escalate(t, p)
        PROVE  status'.priority = p /\ status'.cancelled = status.cancelled
    BY <1>1, <2>3 DEF Escalate, Status
  <2>. QED
    BY <1>2, <2>1, <2>2, <2>3
    DEF Call, EnterScope, AsyncLet, FlagAsAndEnqueueOnExecutor, StartAdd, ExitScope, PopScope,
        AttachChild, DetachChild, CancelAll, ContinuationInit, ContinuationInitPreawaited,
        WaitFuture, Resume, HandlerResumes
<1>3. ASSUME NEW t \in Thread, LockStep(t)
      PROVE  Kept
  <2>1. CASE UNCHANGED status \/ SetBit(t) \/ UpdatePlain(t) \/ UpdateResume(t)
    BY <1>1, <2>1 DEF SetBit, UpdatePlain, UpdateResume, Status
  <2>2. CASE AddLockless(t)
    BY <1>1, <2>2 DEF AddLockless, withInnermostRecord, Status
  <2>3. CASE RemoveLockless(t)
    BY <1>1, <2>3 DEF RemoveLockless, withFlags, Status
  <2>4. CASE UpdateRemove(t)
    <3>1. \E a, b, q : status' = withFlags(t,
            [status EXCEPT !.locked = a, !.record = q, !.preference = b])
      BY <2>4 DEF UpdateRemove
    <3>. QED
      BY <1>1, <3>1 DEF withFlags, Status
  <2>5. CASE UpdateAdd(t)
    <3>. DEFINE s == [status EXCEPT !.locked = frame[t].already]
    <3>1. status' = s \/ status' = withInnermostRecord(t, s)
      BY <2>5 DEF UpdateAdd
    <3>. QED
      BY <1>1, <3>1 DEF withInnermostRecord, Status
  <2>. QED
    BY <1>3, <2>1, <2>2, <2>3, <2>4, <2>5
    DEF LockStep, AddSeesLock, FireHandlerNow, DropFired, RemoveSeesLock, Lock, FnRemove,
        FnPop, Unlock, FnAttach, FnDetach, FnCancelAll, WalkCancel, WalkHandler, WalkNext,
        WalkEscalate, WalkEnd, Enqueue
<1>4. AwaitStep \/ RunJob => UNCHANGED status
  BY DEF AwaitStep, AwaitFindsResumed, FlagAsSuspended, StartAdd, AwaitSucceeds,
         PreawaitSucceeds, AwaitLoses, RunJob
<1>. QED
  BY <1>2, <1>3, <1>4 DEF Next

contents == <<kind, children, isCancelled, child, ran>>

\* A record gets its memory.
Starts(r, k, kids) ==
  /\ kind[r] = "free" /\ k # "free"
  /\ kind' = [kind EXCEPT ![r] = k]
  /\ children' = [children EXCEPT ![r] = kids]
  /\ kids # {} => \/ k = "dependency"
                  \/ k = "child" /\ \E c \in kids : kids = {c} /\ NewChildOf(c)
  /\ UNCHANGED <<isCancelled, child, ran>>
  /\ frame'[Owner].rec = r /\ frame'[Owner].pc = "add"

\* The record of the task's call is put on the list.
Publishes ==
  LET f == frame[Owner]
  IN /\ f.op \in Adding /\ f.pc \in {"add", "update"} /\ f.rec \in Record
     /\ UNCHANGED <<kind, children, ran>>
     /\ \E s : /\ Emplace(Owner, s) /\ shouldAddRecord(Owner, s)
               /\ s.cancelled = status.cancelled /\ s.priority = status.priority

\* The record of the task's call gives its memory back.
Frees ==
  LET f == frame[Owner]
  IN /\ f.op \in Adding \cup Removing /\ f.rec \in Record
     /\ Dealloc(f.rec)
     /\ frame'[Owner] = NoCall

\* The task works on a group.
Groups ==
  \/ FnAttach(Owner)
  \/ FnDetach(Owner)
  \/ FnCancelAll(Owner)
  \/ \E r \in Record : CancelAll(r)

Effect ==
  \/ UNCHANGED contents
  \/ \E r \in Record, k \in Kinds, kids \in SUBSET Child : Starts(r, k, kids)
  \/ Publishes
  \/ Frees
  \/ Groups
  \/ FireHandlerNow(Owner) /\ frame[Owner].rec \in Record
  \/ \E t \in Thread : \/ UpdateResume(t)
                       \/ WalkCancel(t) \/ WalkHandler(t) \/ WalkEscalate(t)

\* Every step has one of these effects.
LEMMA EffectStep ==
  ASSUME IInv, Next
  PROVE  Effect
<1>1. /\ TypeOK /\ FrameInv /\ ScopeInv /\ ChildInv
      /\ frame \in [Thread -> Frame] /\ status \in Status /\ Owner \in Thread
  BY DEF IInv, TypeOK, Thread
<1>2. ASSUME NEW t \in Thread
      PROVE  FrameOk(t, frame[t])
  BY <1>1 DEF FrameInv
<1>3. ASSUME NEW r \in Record, NEW k \in {"cancel", "escalation", "group", "preference"},
             EnterScope(r, k)
      PROVE  Effect
  <2>1. Starts(r, k, {})
    BY <1>3, <1>1
    DEF EnterScope, StartAdd, Starts, NoCall
  <2>. QED
    BY <2>1 DEF Effect, Kinds
<1>4. ASSUME NEW r \in Record, NEW c \in Child, AsyncLet(r, c)
      PROVE  Effect
  <2>1. Starts(r, "child", {c})
    BY <1>4, <1>1
    DEF AsyncLet, StartAdd, Starts, NoCall
  <2>. QED
    BY <2>1 DEF Effect, Kinds
<1>5. ASSUME NEW r \in Record, FlagAsAndEnqueueOnExecutor(r)
      PROVE  Effect
  <2>1. Starts(r, "dependency", {})
    BY <1>5, <1>1
    DEF FlagAsAndEnqueueOnExecutor, StartAdd, Starts, NoCall
  <2>. QED
    BY <2>1 DEF Effect, Kinds
<1>6. ASSUME ExitScope
      PROVE  Effect
  BY <1>6 DEF ExitScope, Effect, contents, records
<1>7. ASSUME PopScope
      PROVE  Effect
  BY <1>7 DEF PopScope, Effect, contents, records
<1>8. ASSUME NEW r \in Record, NEW c \in Child, AttachChild(r, c)
      PROVE  Effect
  BY <1>8 DEF AttachChild, Effect, contents, records
<1>9. ASSUME NEW r \in Record, NEW c \in Child, DetachChild(r, c)
      PROVE  Effect
  BY <1>9 DEF DetachChild, Effect, contents, records
<1>10. ASSUME NEW r \in Record, CancelAll(r)
       PROVE  Effect
  BY <1>10 DEF Effect, Groups
<1>11. ASSUME ContinuationInit
       PROVE  Effect
  BY <1>11 DEF ContinuationInit, Effect, contents, records
<1>12. ASSUME NEW r \in Record, ContinuationInitPreawaited(r)
       PROVE  Effect
  <2>1. Starts(r, "dependency", {})
    BY <1>12, <1>1
    DEF ContinuationInitPreawaited, StartAdd, Starts, NoCall
  <2>. QED
    BY <2>1 DEF Effect, Kinds
<1>13. ASSUME NEW c \in Child, WaitFuture(c)
       PROVE  Effect
  BY <1>13 DEF WaitFuture, Effect, contents, records
<1>14. ASSUME RunImmediately
       PROVE  Effect
  BY <1>14 DEF RunImmediately, Effect, contents, records
<1>15. ASSUME Complete
       PROVE  Effect
  BY <1>15 DEF Complete, Effect, contents, records
<1>16. ASSUME NEW t \in Thread, Cancel(t)
       PROVE  Effect
  BY <1>16 DEF Cancel, Effect, contents, records
<1>17. ASSUME NEW t \in Thread, NEW p \in JobPriority, Escalate(t, p)
       PROVE  Effect
  BY <1>17 DEF Escalate, Effect, contents, records
<1>18. ASSUME NEW t \in Thread, Resume(t)
       PROVE  Effect
  BY <1>18 DEF Resume, Effect, contents, records
<1>19. ASSUME NEW t \in Thread, HandlerResumes(t)
       PROVE  Effect
  BY <1>19 DEF HandlerResumes, Effect, contents, records
<1>20. ASSUME NEW t \in Thread, AddLockless(t)
       PROVE  Effect
  <2>1. /\ t = Owner /\ frame[Owner].op \in Adding /\ frame[Owner].pc = "add"
        /\ frame[Owner].rec \in Record
    BY <1>20, <1>1, OwnerAdds DEF AddLockless, At
  <2>2. CASE shouldAddRecord(t, status)
    <3>1. /\ Emplace(Owner, status) /\ shouldAddRecord(Owner, status)
          /\ UNCHANGED <<kind, children, ran>>
      BY <1>20, <2>1, <2>2 DEF AddLockless
    <3>. QED
      BY <2>1, <3>1 DEF Effect, Publishes
  <2>3. CASE ~shouldAddRecord(t, status)
    BY <1>20, <2>3 DEF AddLockless, Effect, contents
  <2>. QED
    BY <2>2, <2>3
<1>21. ASSUME NEW t \in Thread, AddSeesLock(t)
       PROVE  Effect
  BY <1>21 DEF AddSeesLock, Effect, contents, records
<1>22. ASSUME NEW t \in Thread, FireHandlerNow(t)
       PROVE  Effect
  <2>1. t = Owner /\ frame[Owner].rec \in Record
    BY <1>22, <1>1, OwnerAdds DEF FireHandlerNow, At
  <2>. QED
    BY <1>22, <2>1 DEF Effect
<1>23. ASSUME NEW t \in Thread, DropFired(t)
       PROVE  Effect
  <2>1. t = Owner /\ frame[Owner].op \in Adding \cup Removing /\ frame[Owner].rec \in Record
    BY <1>23, <1>1, OwnerAdds DEF DropFired, At
  <2>2. Dealloc(frame[Owner].rec) /\ frame'[Owner] = NoCall
    BY <1>23, <1>1, <2>1 DEF DropFired, Return
  <2>. QED
    BY <2>1, <2>2 DEF Effect, Frees
<1>24. ASSUME NEW t \in Thread, RemoveLockless(t)
       PROVE  Effect
  <2>1. t = Owner /\ frame[Owner].op \in Adding \cup Removing /\ frame[Owner].rec \in Record
    BY <1>24, <1>1, OwnerAdds DEF RemoveLockless, At
  <2>2. Dealloc(frame[Owner].rec) /\ frame'[Owner] = NoCall
    BY <1>24, <1>1, <2>1 DEF RemoveLockless, Return
  <2>. QED
    BY <2>1, <2>2 DEF Effect, Frees
<1>25. ASSUME NEW t \in Thread, RemoveSeesLock(t)
       PROVE  Effect
  BY <1>25 DEF RemoveSeesLock, Effect, contents, records
<1>26. ASSUME NEW t \in Thread, Lock(t)
       PROVE  Effect
  BY <1>26 DEF Lock, Effect, contents, records
<1>27. ASSUME NEW t \in Thread, SetBit(t)
       PROVE  Effect
  BY <1>27 DEF SetBit, Effect, contents, records
<1>28. ASSUME NEW t \in Thread, FnRemove(t)
       PROVE  Effect
  BY <1>28 DEF FnRemove, Effect, contents, records
<1>29. ASSUME NEW t \in Thread, FnPop(t)
       PROVE  Effect
  BY <1>29 DEF FnPop, Effect, contents, records
<1>30. ASSUME NEW t \in Thread, UpdateRemove(t)
       PROVE  Effect
  BY <1>30 DEF UpdateRemove, Effect, contents, records
<1>31. ASSUME NEW t \in Thread, UpdateAdd(t)
       PROVE  Effect
  <2>. DEFINE s == [status EXCEPT !.locked = frame[t].already]
  <2>1. /\ t = Owner /\ frame[Owner].op \in Adding /\ frame[Owner].pc = "update"
        /\ frame[Owner].rec \in Record
    BY <1>31, <1>1, OwnerAdds DEF UpdateAdd, At
  <2>2. CASE shouldAddRecord(t, s)
    <3>1. /\ Emplace(Owner, s) /\ shouldAddRecord(Owner, s)
          /\ UNCHANGED <<kind, children, ran>>
      BY <1>31, <2>1, <2>2 DEF UpdateAdd
    <3>2. s.cancelled = status.cancelled /\ s.priority = status.priority
      BY <1>1 DEF Status
    <3>. HIDE DEF s
    <3>. QED
      BY <2>1, <3>1, <3>2 DEF Effect, Publishes
  <2>3. CASE ~shouldAddRecord(t, s)
    BY <1>31, <2>3 DEF UpdateAdd, Effect, contents
  <2>. QED
    BY <2>2, <2>3
<1>32. ASSUME NEW t \in Thread, UpdateResume(t)
       PROVE  Effect
  BY <1>32 DEF Effect
<1>33. ASSUME NEW t \in Thread, UpdatePlain(t)
       PROVE  Effect
  BY <1>33 DEF UpdatePlain, Effect, contents, records
<1>34. ASSUME NEW t \in Thread, Unlock(t)
       PROVE  Effect
  <2>1. CASE Op(t) \in Removing
    <3>1. /\ t = Owner /\ frame[Owner].op \in Adding \cup Removing
          /\ frame[Owner].rec \in Record
      BY <1>1, <2>1, OwnerAdds
    <3>2. Dealloc(frame[Owner].rec)
      BY <1>34, <2>1, <3>1 DEF Unlock, Removing
    <3>3. frame'[Owner] = NoCall
      BY <1>34, <1>1, <2>1, <3>1 DEF Unlock, AfterUnlock, Removing, Adding
    <3>. QED
      BY <3>1, <3>2, <3>3 DEF Effect, Frees
  <2>2. CASE Op(t) \notin Removing
    BY <1>34, <2>2 DEF Unlock, Removing, Effect, contents, records
  <2>. QED
    BY <2>1, <2>2
<1>35. ASSUME NEW t \in Thread, FnAttach(t)
       PROVE  Effect
  <2>1. t = Owner
    BY <1>35, <1>1, OwnerAttaches DEF FnAttach, InGroup
  <2>. QED
    BY <1>35, <2>1 DEF Effect, Groups
<1>36. ASSUME NEW t \in Thread, FnDetach(t)
       PROVE  Effect
  <2>1. t = Owner
    BY <1>36, <1>1, OwnerAttaches DEF FnDetach, InGroup
  <2>. QED
    BY <1>36, <2>1 DEF Effect, Groups
<1>37. ASSUME NEW t \in Thread, FnCancelAll(t)
       PROVE  Effect
  <2>1. t = Owner
    BY <1>37, <1>1, OwnerAttaches DEF FnCancelAll, InGroup
  <2>. QED
    BY <1>37, <2>1 DEF Effect, Groups
<1>38. ASSUME NEW t \in Thread, WalkCancel(t)
       PROVE  Effect
  BY <1>38 DEF Effect
<1>39. ASSUME NEW t \in Thread, WalkHandler(t)
       PROVE  Effect
  BY <1>39 DEF Effect
<1>40. ASSUME NEW t \in Thread, WalkNext(t)
       PROVE  Effect
  BY <1>40 DEF WalkNext, Effect, contents, records
<1>41. ASSUME NEW t \in Thread, WalkEscalate(t)
       PROVE  Effect
  BY <1>41 DEF Effect
<1>42. ASSUME NEW t \in Thread, WalkEnd(t)
       PROVE  Effect
  BY <1>42 DEF WalkEnd, Effect, contents, records
<1>43. ASSUME NEW t \in Thread, Enqueue(t)
       PROVE  Effect
  BY <1>43 DEF Enqueue, Effect, contents, records
<1>44. ASSUME AwaitFindsResumed
       PROVE  Effect
  BY <1>44 DEF AwaitFindsResumed, Effect, contents, records
<1>45. ASSUME NEW r \in Record, FlagAsSuspended(r)
       PROVE  Effect
  <2>1. Starts(r, "dependency", {frame[Owner].kid} \ {Null})
    BY <1>45, <1>1
    DEF FlagAsSuspended, StartAdd, Starts, NoCall
  <2>2. {frame[Owner].kid} \ {Null} \in SUBSET Child
    BY <1>1 DEF Frame
  <2>. QED
    BY <2>1, <2>2 DEF Effect, Kinds
<1>46. ASSUME AwaitSucceeds
       PROVE  Effect
  BY <1>46 DEF AwaitSucceeds, Effect, contents, records
<1>47. ASSUME PreawaitSucceeds
       PROVE  Effect
  BY <1>47 DEF PreawaitSucceeds, Effect, contents, records
<1>48. ASSUME AwaitLoses
       PROVE  Effect
  BY <1>48 DEF AwaitLoses, Effect, contents, records
<1>49. ASSUME RunJob
       PROVE  Effect
  BY <1>49 DEF RunJob, Effect, contents, records
<1>. QED
  BY <1>3, <1>4, <1>5, <1>6, <1>7, <1>8, <1>9, <1>10, <1>11, <1>12, <1>13, <1>14, <1>15, <1>16,
     <1>17, <1>18, <1>19, <1>20, <1>21, <1>22, <1>23, <1>24, <1>25, <1>26, <1>27, <1>28, <1>29,
     <1>30, <1>31, <1>32, <1>33, <1>34, <1>35, <1>36, <1>37, <1>38, <1>39, <1>40, <1>41, <1>42,
     <1>43, <1>44, <1>45, <1>46, <1>47, <1>48, <1>49
  DEF Next, Call, LockStep, AwaitStep

-----------------------------------------------------------------------------
(* The task's own calls *)

\* A group call that has not done its work yet
InWindow(f) == f.op \in InGroup /\ f.pc \in {"lock", "setbit", "fn"}

\* How the task's calls on a group go on
GroupGoal ==
  LET f == frame[Owner]
      g == frame'[Owner]
  IN /\ g.op \in InGroup =>
          \/ g.op = f.op /\ g.rec = f.rec /\ g.kid = f.kid
             /\ (InWindow(g) => InWindow(f))
          \/ \E r \in Record, c \in Child :
               /\ g.rec = r /\ g.kid = c /\ g.pc = "lock" /\ UNCHANGED contents
               /\ \/ g.op = "attach" /\ NewChildOf(c)
                  \/ g.op = "detach" /\ c \in children[r]
          \/ g.op = "cancelAll" /\ g.pc = "lock"
     /\ InWindow(g) /\ g.pc = "fn" /\ g.op = "attach" =>
          \/ f.pc = "fn" /\ g.old = f.old
          \/ f.pc = "setbit" /\ g.old = Load(status')
     /\ InWindow(f) =>
          \/ InWindow(g) /\ g.op = f.op /\ g.rec = f.rec
          \/ FnAttach(Owner) \/ FnDetach(Owner) \/ FnCancelAll(Owner)

\* How the call that adds a record goes on until the record is on the list
AddingGoal ==
  LET f == frame[Owner]
      g == frame'[Owner]
  IN g.op \in Adding /\ Unlinked(g) =>
       \/ g.pc = "add" /\ kind[g.rec] = "free"
       \/ /\ f.op \in Adding /\ Unlinked(f) /\ g.rec = f.rec
          /\ f.pc = "fired" => g.pc = "fired"
          /\ g.pc \in {"unlock", "fire", "fired"} =>
               \/ f.pc \in {"unlock", "fire", "fired"}
               \/ status.cancelled /\ kind[g.rec] = "cancel"

\* The owner's call untouched, it begins or ends none.
LEMMA CallKept ==
  ASSUME frame'[Owner] = frame[Owner]
  PROVE  GroupGoal /\ AddingGoal
BY DEF GroupGoal, AddingGoal, InWindow

\* A call that is not about records ends or begins.
LEMMA CallEnds ==
  ASSUME ~InWindow(frame[Owner]), frame'[Owner].op \notin InGroup \cup Adding
  PROVE  GroupGoal /\ AddingGoal
BY DEF GroupGoal, AddingGoal, InWindow

\* How the task's calls go on
LEMMA CallStep ==
  ASSUME IInv, Next
  PROVE  GroupGoal /\ AddingGoal
<1>1. /\ TypeOK /\ FrameInv /\ ScopeInv /\ StateInv /\ ChildInv
      /\ frame \in [Thread -> Frame] /\ status \in Status /\ Owner \in Thread
  BY DEF IInv, TypeOK, Thread
<1>2. ASSUME NEW t \in Thread
      PROVE  FrameOk(t, frame[t])
  BY <1>1 DEF FrameInv
<1>3. ASSUME NEW r \in Record, NEW k \in {"cancel", "escalation", "group", "preference"},
             EnterScope(r, k)
      PROVE  GroupGoal /\ AddingGoal
  <2>1. /\ frame'[Owner].op \in Adding /\ frame'[Owner].pc = "add"
        /\ frame'[Owner].rec = r /\ kind[r] = "free" /\ ~InWindow(frame[Owner])
    BY <1>3, <1>1, <1>2 DEF EnterScope, StartAdd, NoCall, Adding, InWindow, OnTask, Idle,
       FrameOk, InGroup
  <2>. QED
    BY <2>1 DEF GroupGoal, AddingGoal, InWindow, InGroup, Adding
<1>4. ASSUME NEW r \in Record, NEW c \in Child, AsyncLet(r, c)
      PROVE  GroupGoal /\ AddingGoal
  <2>1. /\ frame'[Owner].op \in Adding /\ frame'[Owner].pc = "add"
        /\ frame'[Owner].rec = r /\ kind[r] = "free" /\ ~InWindow(frame[Owner])
    BY <1>4, <1>1, <1>2 DEF AsyncLet, StartAdd, NoCall, Adding, InWindow, OnTask, Idle,
       FrameOk, InGroup
  <2>. QED
    BY <2>1 DEF GroupGoal, AddingGoal, InWindow, InGroup, Adding
<1>5. ASSUME NEW r \in Record, FlagAsAndEnqueueOnExecutor(r)
      PROVE  GroupGoal /\ AddingGoal
  <2>1. /\ frame'[Owner].op \in Adding /\ frame'[Owner].pc = "add"
        /\ frame'[Owner].rec = r /\ kind[r] = "free" /\ ~InWindow(frame[Owner])
    BY <1>5, <1>1, <1>2 DEF FlagAsAndEnqueueOnExecutor, StartAdd, NoCall, Adding, InWindow,
       OnTask, Idle, FrameOk, InGroup
  <2>. QED
    BY <2>1 DEF GroupGoal, AddingGoal, InWindow, InGroup, Adding
<1>6. ASSUME ExitScope
      PROVE  GroupGoal /\ AddingGoal
  <2>1. ~InWindow(frame[Owner]) /\ frame'[Owner].op \notin InGroup \cup Adding
    BY <1>6, <1>1, <1>2 DEF ExitScope, InWindow, InGroup, Adding, OnTask, Idle, FrameOk, NoCall
  <2>. QED
    BY <2>1, CallEnds
<1>7. ASSUME PopScope
      PROVE  GroupGoal /\ AddingGoal
  <2>1. ~InWindow(frame[Owner]) /\ frame'[Owner].op \notin InGroup \cup Adding
    BY <1>7, <1>1, <1>2 DEF PopScope, InWindow, InGroup, Adding, OnTask, Idle, FrameOk, NoCall
  <2>. QED
    BY <2>1, CallEnds
<1>8. ASSUME NEW r \in Record, NEW c \in Child, AttachChild(r, c)
      PROVE  GroupGoal /\ AddingGoal
  <2>1. /\ frame'[Owner].op = "attach" /\ frame'[Owner].pc = "lock"
        /\ frame'[Owner].rec = r /\ frame'[Owner].kid = c
        /\ UNCHANGED contents /\ ~InWindow(frame[Owner])
        /\ NewChildOf(c)
    BY <1>8, <1>1, <1>2 DEF AttachChild, WithLock, NoCall, InWindow, contents, records, OnTask,
       Idle, FrameOk, InGroup
  <2>. QED
    BY <2>1 DEF GroupGoal, AddingGoal, InWindow, InGroup, Adding
<1>9. ASSUME NEW r \in Record, NEW c \in Child, DetachChild(r, c)
      PROVE  GroupGoal /\ AddingGoal
  <2>1. /\ frame'[Owner].op = "detach" /\ frame'[Owner].pc = "lock"
        /\ frame'[Owner].rec = r /\ frame'[Owner].kid = c
        /\ UNCHANGED contents /\ ~InWindow(frame[Owner])
        /\ c \in children[r]
    BY <1>9, <1>1, <1>2 DEF DetachChild, WithLock, NoCall, InWindow, contents, records, OnTask,
       Idle, FrameOk, InGroup
  <2>. QED
    BY <2>1 DEF GroupGoal, AddingGoal, InWindow, InGroup, Adding
<1>10. ASSUME NEW r \in Record, CancelAll(r)
       PROVE  GroupGoal /\ AddingGoal
  <2>1. CASE UNCHANGED frame
    BY <2>1, CallKept
  <2>2. CASE WithLock("cancelAll", r, Null)
    <3>1. /\ frame'[Owner].op = "cancelAll" /\ frame'[Owner].pc = "lock"
          /\ ~InWindow(frame[Owner])
      BY <1>10, <1>1, <1>2, <2>2 DEF CancelAll, WithLock, NoCall, InWindow, OnTask, Idle,
         FrameOk, InGroup
    <3>. QED
      BY <3>1 DEF GroupGoal, AddingGoal, InWindow, InGroup, Adding
  <2>. QED
    BY <1>10, <2>1, <2>2 DEF CancelAll
<1>11. ASSUME ContinuationInit
       PROVE  GroupGoal /\ AddingGoal
  <2>1. ~InWindow(frame[Owner]) /\ frame'[Owner].op \notin InGroup \cup Adding
    BY <1>11, <1>1, <1>2 DEF ContinuationInit, InWindow, InGroup, Adding, MaySuspend, OnTask,
       Idle, Goto, Frame, FrameOk, NoCall
  <2>. QED
    BY <2>1, CallEnds
<1>12. ASSUME NEW r \in Record, ContinuationInitPreawaited(r)
       PROVE  GroupGoal /\ AddingGoal
  <2>1. /\ frame'[Owner].op \in Adding /\ frame'[Owner].pc = "add"
        /\ frame'[Owner].rec = r /\ kind[r] = "free" /\ ~InWindow(frame[Owner])
    BY <1>12, <1>1, <1>2 DEF ContinuationInitPreawaited, StartAdd, NoCall, Adding, InWindow,
       MaySuspend, OnTask, Idle, FrameOk, InGroup
  <2>. QED
    BY <2>1 DEF GroupGoal, AddingGoal, InWindow, InGroup, Adding
<1>13. ASSUME NEW c \in Child, WaitFuture(c)
       PROVE  GroupGoal /\ AddingGoal
  <2>1. ~InWindow(frame[Owner]) /\ frame'[Owner].op \notin InGroup \cup Adding
    BY <1>13, <1>1, <1>2 DEF WaitFuture, InWindow, InGroup, Adding, MaySuspend, OnTask, Idle,
       Frame, FrameOk, NoCall
  <2>. QED
    BY <2>1, CallEnds
<1>14. ASSUME RunImmediately
       PROVE  GroupGoal /\ AddingGoal
  <2>1. frame'[Owner] = frame[Owner]
    BY <1>14 DEF RunImmediately
  <2>. QED
    BY <2>1, CallKept
<1>15. ASSUME Complete
       PROVE  GroupGoal /\ AddingGoal
  <2>1. frame'[Owner] = frame[Owner]
    BY <1>15 DEF Complete
  <2>. QED
    BY <2>1, CallKept
<1>16. ASSUME NEW t \in Thread, Cancel(t)
       PROVE  GroupGoal /\ AddingGoal
  <2>1. CASE t # Owner
    <3>1. frame'[Owner] = frame[Owner]
      BY <1>16, <1>1, <2>1 DEF Cancel
    <3>. QED
      BY <3>1, CallKept
  <2>2. CASE t = Owner
    <3>1. CASE UNCHANGED frame
      BY <3>1, CallKept
    <3>2. CASE ~UNCHANGED frame
      <4>1. frame'[Owner].op = "cancel" /\ ~InWindow(frame[Owner])
        BY <1>16, <1>1, <1>2, <2>2, <3>2, ZenonT(60) DEF Cancel, NoCall, InWindow, InGroup,
           Idle, FrameOk
      <4>. QED
        BY <4>1, CallEnds DEF InGroup, Adding
    <3>. QED
      BY <3>1, <3>2
  <2>. QED
    BY <2>1, <2>2
<1>17. ASSUME NEW t \in Thread, NEW p \in JobPriority, Escalate(t, p)
       PROVE  GroupGoal /\ AddingGoal
  <2>1. frame'[Owner] = frame[Owner]
    BY <1>17, <1>1 DEF Escalate
  <2>. QED
    BY <2>1, CallKept
<1>18. ASSUME NEW t \in Thread, Resume(t)
       PROVE  GroupGoal /\ AddingGoal
  <2>1. frame'[Owner] = frame[Owner]
    BY <1>18, <1>1 DEF Resume
  <2>. QED
    BY <2>1, CallKept
<1>19. ASSUME NEW t \in Thread, HandlerResumes(t)
       PROVE  GroupGoal /\ AddingGoal
  <2>1. CASE t # Owner
    <3>1. frame'[Owner] = frame[Owner]
      BY <1>19, <1>1, <2>1 DEF HandlerResumes
    <3>. QED
      BY <3>1, CallKept
  <2>2. CASE t = Owner
    <3>1. frame[Owner].op = "cancel"
      BY <1>19, <1>2, <2>2 DEF HandlerResumes, At, FrameOk, PcsOf
    <3>2. frame[Owner].op \in Working /\ continuation # "none"
      BY <1>19, <3>1 DEF HandlerResumes, MayResume, Working
    <3>. QED
      BY <1>1, <3>2 DEF StateInv, PhaseOk
  <2>. QED
    BY <2>1, <2>2
<1>20. ASSUME NEW t \in Thread, AddLockless(t)
       PROVE  GroupGoal /\ AddingGoal
  <2>1. /\ t = Owner /\ frame[Owner].op \in Adding /\ ~frame[Owner].nested
        /\ Op(t) = frame[Owner].op
    BY <1>20, <1>1, OwnerAdds DEF AddLockless, At, Removing
  <2>2. CASE shouldAddRecord(t, status)
    <3>1. \/ frame'[Owner] = NoCall
          \/ frame'[Owner] = [AfterAdd(Owner) EXCEPT !.old = Load(status)]
             /\ frame[Owner].op # "add"
      BY <1>20, <1>1, <2>1, <2>2 DEF AddLockless
    <3>2. CASE frame'[Owner] = NoCall
      BY <2>1, <3>2, CallEnds DEF NoCall, InWindow, InGroup, Adding
    <3>3. CASE frame'[Owner] = [AfterAdd(Owner) EXCEPT !.old = Load(status)]
               /\ frame[Owner].op # "add"
      <4>1. AfterAdd(Owner) \in {[frame[Owner] EXCEPT !.pc = "awaited"],
                                 [frame[Owner] EXCEPT !.pc = "enqueue"]}
        BY <2>1, <3>3 DEF AfterAdd, Adding
      <4>2. /\ frame'[Owner].pc \in {"awaited", "enqueue"}
            /\ frame'[Owner].op = frame[Owner].op
        BY <1>1, <3>3, <4>1 DEF Frame
      <4>. QED
        BY <2>1, <4>2 DEF Unlinked, Removing, GroupGoal, AddingGoal, InWindow, InGroup, Adding
    <3>. QED
      BY <3>1, <3>2, <3>3
  <2>3. CASE ~shouldAddRecord(t, status)
    <3>1. /\ frame'[Owner].op = frame[Owner].op /\ frame'[Owner].rec = frame[Owner].rec
          /\ frame'[Owner].pc = "fire" /\ frame[Owner].pc = "add"
          /\ status.cancelled /\ kind[frame[Owner].rec] = "cancel"
      BY <1>20, <1>1, <2>1, <2>3 DEF AddLockless, Goto, At, Frame, shouldAddRecord
    <3>. QED
      BY <2>1, <3>1 DEF Unlinked, Removing, GroupGoal, AddingGoal, InWindow, InGroup, Adding
  <2>. QED
    BY <2>2, <2>3
<1>21. ASSUME NEW t \in Thread, AddSeesLock(t)
       PROVE  GroupGoal /\ AddingGoal
  <2>1. /\ t = Owner /\ frame[Owner].op \in Adding /\ ~frame[Owner].nested
        /\ Op(t) = frame[Owner].op
    BY <1>21, <1>1, OwnerAdds DEF AddSeesLock, At, Removing
  <2>2. /\ frame'[Owner].op = frame[Owner].op /\ frame'[Owner].rec = frame[Owner].rec
        /\ frame'[Owner].pc = "lock" /\ frame[Owner].pc = "add"
    BY <1>21, <1>1, <2>1 DEF AddSeesLock, At, Frame
  <2>. QED
    BY <2>1, <2>2 DEF Unlinked, Removing, GroupGoal, AddingGoal, InWindow, InGroup, Adding
<1>22. ASSUME NEW t \in Thread, FireHandlerNow(t)
       PROVE  GroupGoal /\ AddingGoal
  <2>1. /\ t = Owner /\ frame[Owner].op \in Adding /\ ~frame[Owner].nested
        /\ Op(t) = frame[Owner].op
    BY <1>22, <1>1, OwnerAdds DEF FireHandlerNow, At, Removing
  <2>2. /\ frame'[Owner].op = frame[Owner].op /\ frame'[Owner].rec = frame[Owner].rec
        /\ frame'[Owner].pc = "fired" /\ frame[Owner].pc = "fire"
    BY <1>22, <1>1, <2>1 DEF FireHandlerNow, Goto, At, Frame
  <2>. QED
    BY <2>1, <2>2 DEF Unlinked, Removing, GroupGoal, AddingGoal, InWindow, InGroup, Adding
<1>23. ASSUME NEW t \in Thread, DropFired(t)
       PROVE  GroupGoal /\ AddingGoal
  <2>1. /\ t = Owner /\ frame[Owner].op \in Adding /\ ~frame[Owner].nested
        /\ Op(t) = frame[Owner].op
    BY <1>23, <1>1, OwnerAdds DEF DropFired, At, Removing
  <2>2. frame'[Owner] = NoCall
    BY <1>23, <1>1, <2>1 DEF DropFired, Return
  <2>3. ~InWindow(frame[Owner]) /\ frame'[Owner].op \notin InGroup \cup Adding
    BY <2>1, <2>2 DEF InWindow, NoCall, Adding, InGroup
  <2>. QED
    BY <2>3, CallEnds
<1>24. ASSUME NEW t \in Thread, RemoveLockless(t)
       PROVE  GroupGoal /\ AddingGoal
  <2>1. /\ t = Owner /\ frame[Owner].op \in Removing /\ ~frame[Owner].nested
        /\ Op(t) = frame[Owner].op
    <3>1. t = Owner /\ frame[t].op \in {"remove", "run"} /\ ~frame[t].nested
      BY <1>24, <1>1, OwnerAdds DEF RemoveLockless, At
    <3>. QED
      BY <3>1 DEF Removing, Op
  <2>2. frame'[Owner].op \in {frame[Owner].op, "none"}
    BY <1>24, <1>1, <2>1 DEF RemoveLockless, Frame, NoCall, Return
  <2>3. ~InWindow(frame[Owner]) /\ frame'[Owner].op \notin InGroup \cup Adding
    BY <2>1, <2>2 DEF InWindow, Adding, Removing, InGroup
  <2>. QED
    BY <2>3, CallEnds
<1>25. ASSUME NEW t \in Thread, RemoveSeesLock(t)
       PROVE  GroupGoal /\ AddingGoal
  <2>1. /\ t = Owner /\ frame[Owner].op \in Removing /\ ~frame[Owner].nested
        /\ Op(t) = frame[Owner].op
    <3>1. t = Owner /\ frame[t].op \in {"remove", "run"} /\ ~frame[t].nested
      BY <1>25, <1>1, OwnerAdds DEF RemoveSeesLock, At
    <3>. QED
      BY <3>1 DEF Removing, Op
  <2>2. frame'[Owner].op \in {frame[Owner].op, "none"}
    BY <1>25, <1>1, <2>1 DEF RemoveSeesLock, Frame, NoCall
  <2>3. ~InWindow(frame[Owner]) /\ frame'[Owner].op \notin InGroup \cup Adding
    BY <2>1, <2>2 DEF InWindow, Adding, Removing, InGroup
  <2>. QED
    BY <2>3, CallEnds
<1>26. ASSUME NEW t \in Thread, Lock(t)
       PROVE  GroupGoal /\ AddingGoal
  <2>1. CASE t # Owner
    <3>1. frame'[Owner] = frame[Owner]
      BY <1>26, <1>1, <2>1 DEF Lock, Goto
    <3>. QED
      BY <3>1, CallKept
  <2>2. CASE t = Owner
    <3>1. /\ frame'[Owner].op = frame[Owner].op /\ frame'[Owner].rec = frame[Owner].rec
          /\ frame'[Owner].kid = frame[Owner].kid /\ frame'[Owner].flag = frame[Owner].flag
          /\ frame[Owner].pc = "lock" /\ frame'[Owner].pc = "setbit"
      BY <1>26, <1>1, <2>2 DEF Lock, At, Frame, Goto
    <3>. QED
      BY <1>26, <2>2, <3>1 DEF Unlinked, Removing, GroupGoal, AddingGoal, InWindow, InGroup,
         Adding
  <2>. QED
    BY <2>1, <2>2
<1>27. ASSUME NEW t \in Thread, SetBit(t)
       PROVE  GroupGoal /\ AddingGoal
  <2>1. CASE t # Owner
    <3>1. frame'[Owner] = frame[Owner]
      BY <1>27, <1>1, <2>1 DEF SetBit
    <3>. QED
      BY <3>1, CallKept
  <2>2. CASE t = Owner
    <3>1. PICK a, o, q, p :
            /\ p = IF Op(t) \in Adding \cup {"resume"} THEN "update" ELSE "fn"
            /\ o = IF Op(t) = "attach" THEN Load(status') ELSE frame[t].old
            /\ frame' = [frame EXCEPT ![t].already = a, ![t].old = o, ![t].cur = q,
                                     ![t].pc = p]
      BY <1>27, <1>1, ZenonT(60) DEF SetBit
    <3>2. frame'[t] = [frame[t] EXCEPT !.already = a, !.old = o, !.cur = q, !.pc = p]
      BY <1>1, <3>1
    <3>3. /\ frame'[t].op = frame[t].op /\ frame'[t].rec = frame[t].rec
          /\ frame'[t].kid = frame[t].kid /\ frame'[t].pc = p /\ frame'[t].old = o
          /\ frame[t].pc = "setbit" /\ ~frame[t].nested
      BY <1>27, <1>1, <1>2, <2>2, <3>2 DEF Frame, SetBit, At, FrameOk
    <3>. QED
      BY <2>2, <3>1, <3>3 DEF Unlinked, Removing, Op, GroupGoal, AddingGoal, InWindow, InGroup,
         Adding
  <2>. QED
    BY <2>1, <2>2
<1>28. ASSUME NEW t \in Thread, FnRemove(t)
       PROVE  GroupGoal /\ AddingGoal
  <2>1. /\ t = Owner /\ frame[Owner].op \in Removing /\ ~frame[Owner].nested
        /\ Op(t) = frame[Owner].op
    BY <1>28, <1>1, OwnerAdds DEF FnRemove, At, Removing
  <2>2. frame'[Owner].op \in {frame[Owner].op, "none"}
    BY <1>28, <1>1, <2>1 DEF FnRemove, Frame, NoCall, Goto
  <2>3. ~InWindow(frame[Owner]) /\ frame'[Owner].op \notin InGroup \cup Adding
    BY <2>1, <2>2 DEF InWindow, Adding, Removing, InGroup
  <2>. QED
    BY <2>3, CallEnds
<1>29. ASSUME NEW t \in Thread, FnPop(t)
       PROVE  GroupGoal /\ AddingGoal
  <2>1. /\ t = Owner /\ frame[Owner].op \in Removing /\ ~frame[Owner].nested
        /\ Op(t) = frame[Owner].op
    BY <1>29, <1>1, OwnerAdds DEF FnPop, At, Removing
  <2>2. frame'[Owner].op \in {frame[Owner].op, "none"}
    <3>1. \E q, b : frame' = [frame EXCEPT ![t].pc = "update", ![t].cur = q, ![t].flag = b]
      BY <1>29 DEF FnPop
    <3>. QED
      BY <1>1, <2>1, <3>1 DEF Frame
  <2>3. ~InWindow(frame[Owner]) /\ frame'[Owner].op \notin InGroup \cup Adding
    BY <2>1, <2>2 DEF InWindow, Adding, Removing, InGroup
  <2>. QED
    BY <2>3, CallEnds
<1>30. ASSUME NEW t \in Thread, UpdateRemove(t)
       PROVE  GroupGoal /\ AddingGoal
  <2>1. /\ t = Owner /\ frame[Owner].op \in Removing /\ ~frame[Owner].nested
        /\ Op(t) = frame[Owner].op
    BY <1>30, <1>1, OwnerAdds DEF UpdateRemove, At, Removing
  <2>2. frame'[Owner].op \in {frame[Owner].op, "none"}
    BY <1>30, <1>1, <2>1 DEF UpdateRemove, Frame, NoCall, Goto
  <2>3. ~InWindow(frame[Owner]) /\ frame'[Owner].op \notin InGroup \cup Adding
    BY <2>1, <2>2 DEF InWindow, Adding, Removing, InGroup
  <2>. QED
    BY <2>3, CallEnds
<1>31. ASSUME NEW t \in Thread, UpdateAdd(t)
       PROVE  GroupGoal /\ AddingGoal
  <2>1. /\ t = Owner /\ frame[Owner].op \in Adding /\ ~frame[Owner].nested
        /\ Op(t) = frame[Owner].op
    BY <1>31, <1>1, OwnerAdds DEF UpdateAdd, At, Removing
  <2>. DEFINE s == [status EXCEPT !.locked = frame[t].already]
  <2>2. /\ frame'[Owner].op = frame[Owner].op /\ frame'[Owner].rec = frame[Owner].rec
        /\ frame'[Owner].pc = "unlock" /\ frame[Owner].pc = "update"
        /\ frame'[Owner].flag <=> ~shouldAddRecord(Owner, s)
    BY <1>31, <1>1, <2>1 DEF UpdateAdd, At, Frame
  <2>3. frame'[Owner].flag => status.cancelled /\ kind[frame[Owner].rec] = "cancel"
    BY <1>1, <2>2 DEF shouldAddRecord, Status
  <2>. HIDE DEF s
  <2>. QED
    BY <2>1, <2>2, <2>3 DEF Unlinked, Removing, GroupGoal, AddingGoal, InWindow, InGroup, Adding
<1>32. ASSUME NEW t \in Thread, UpdateResume(t)
       PROVE  GroupGoal /\ AddingGoal
  <2>1. CASE t # Owner
    <3>1. frame'[Owner] = frame[Owner]
      BY <1>32, <1>1, <2>1 DEF UpdateResume, Goto
    <3>. QED
      BY <3>1, CallKept
  <2>2. CASE t = Owner
    BY <1>32, <1>2, <2>2 DEF UpdateResume, Op, FrameOk
  <2>. QED
    BY <2>1, <2>2
<1>33. ASSUME NEW t \in Thread, UpdatePlain(t)
       PROVE  GroupGoal /\ AddingGoal
  <2>1. CASE t # Owner
    <3>1. frame'[Owner] = frame[Owner]
      BY <1>33, <1>1, <2>1 DEF UpdatePlain, Goto
    <3>. QED
      BY <3>1, CallKept
  <2>2. CASE t = Owner
    <3>1. /\ frame'[Owner].op = frame[Owner].op /\ frame'[Owner].rec = frame[Owner].rec
          /\ frame'[Owner].kid = frame[Owner].kid
          /\ frame[Owner].pc = "update" /\ frame'[Owner].pc = "unlock"
      BY <1>33, <1>1, <2>2 DEF UpdatePlain, At, Goto, Frame
    <3>2. frame[Owner].op \notin Adding
      BY <1>33, <1>2, <2>2 DEF UpdatePlain, Op, Adding, FrameOk
    <3>. QED
      BY <3>1, <3>2 DEF GroupGoal, AddingGoal, InWindow, InGroup, Adding
  <2>. QED
    BY <2>1, <2>2
<1>34. ASSUME NEW t \in Thread, Unlock(t)
       PROVE  GroupGoal /\ AddingGoal
  <2>1. CASE t # Owner
    <3>1. frame'[Owner] = frame[Owner]
      BY <1>34, <1>1, <2>1 DEF Unlock
    <3>. QED
      BY <3>1, CallKept
  <2>2. CASE t = Owner
    <3>1. /\ frame'[Owner] = AfterUnlock(Owner) /\ frame[Owner].pc = "unlock"
          /\ Op(Owner) = frame[Owner].op /\ frame[Owner].op # "resume"
      BY <1>34, <1>1, <1>2, <2>2 DEF Unlock, At, Op, FrameOk
    <3>2. CASE frame[Owner].op \in Adding /\ frame[Owner].flag
      <4>1. frame'[Owner] = [frame[Owner] EXCEPT !.pc = "fire"]
        BY <3>1, <3>2 DEF AfterUnlock, Adding
      <4>2. /\ frame'[Owner].op = frame[Owner].op /\ frame'[Owner].rec = frame[Owner].rec
            /\ frame'[Owner].pc = "fire"
        BY <1>1, <4>1 DEF Frame
      <4>. QED
        BY <3>1, <3>2, <4>2 DEF Unlinked, Removing, GroupGoal, AddingGoal, InWindow, InGroup,
           Adding
    <3>3. CASE frame[Owner].op \in Adding /\ ~frame[Owner].flag
      <4>1. frame'[Owner] \in {NoCall, [frame[Owner] EXCEPT !.pc = "awaited"],
                               [frame[Owner] EXCEPT !.pc = "enqueue"]}
        BY <3>1, <3>3 DEF AfterUnlock, AfterAdd, Adding
      <4>2. /\ frame'[Owner].op \in {"none", frame[Owner].op}
            /\ frame'[Owner].pc \in {"idle", "awaited", "enqueue"}
        BY <1>1, <4>1 DEF Frame, NoCall
      <4>. QED
        BY <3>1, <3>3, <4>2 DEF Unlinked, Removing, GroupGoal, AddingGoal, InWindow, InGroup,
           Adding
    <3>4. CASE frame[Owner].op \notin Adding
      <4>1. frame'[Owner] = NoCall
        BY <3>1, <3>4 DEF AfterUnlock
      <4>. QED
        BY <3>1, <4>1, CallEnds DEF NoCall, InWindow, InGroup, Adding
    <3>. QED
      BY <3>2, <3>3, <3>4
  <2>. QED
    BY <2>1, <2>2
<1>35. ASSUME NEW t \in Thread, FnAttach(t)
       PROVE  GroupGoal /\ AddingGoal
  <2>1. CASE t # Owner
    <3>1. frame'[Owner] = frame[Owner]
      BY <1>35, <1>1, <2>1 DEF FnAttach, Goto
    <3>. QED
      BY <3>1, CallKept
  <2>2. CASE t = Owner
    <3>1. /\ frame'[Owner].op = frame[Owner].op /\ frame'[Owner].rec = frame[Owner].rec
          /\ frame'[Owner].kid = frame[Owner].kid /\ frame'[Owner].flag = frame[Owner].flag
          /\ frame[Owner].pc = "fn" /\ frame'[Owner].pc = "update"
      BY <1>35, <1>1, <2>2 DEF FnAttach, At, Frame, Goto
    <3>. QED
      BY <1>35, <2>2, <3>1 DEF Unlinked, Removing, Op, FnAttach, GroupGoal, AddingGoal,
         InWindow, InGroup, Adding
  <2>. QED
    BY <2>1, <2>2
<1>36. ASSUME NEW t \in Thread, FnDetach(t)
       PROVE  GroupGoal /\ AddingGoal
  <2>1. CASE t # Owner
    <3>1. frame'[Owner] = frame[Owner]
      BY <1>36, <1>1, <2>1 DEF FnDetach, Goto
    <3>. QED
      BY <3>1, CallKept
  <2>2. CASE t = Owner
    <3>1. /\ frame'[Owner].op = frame[Owner].op /\ frame'[Owner].rec = frame[Owner].rec
          /\ frame'[Owner].kid = frame[Owner].kid /\ frame'[Owner].flag = frame[Owner].flag
          /\ frame[Owner].pc = "fn" /\ frame'[Owner].pc = "update"
      BY <1>36, <1>1, <2>2 DEF FnDetach, At, Frame, Goto
    <3>. QED
      BY <1>36, <2>2, <3>1 DEF Unlinked, Removing, Op, FnDetach, GroupGoal, AddingGoal,
         InWindow, InGroup, Adding
  <2>. QED
    BY <2>1, <2>2
<1>37. ASSUME NEW t \in Thread, FnCancelAll(t)
       PROVE  GroupGoal /\ AddingGoal
  <2>1. CASE t # Owner
    <3>1. frame'[Owner] = frame[Owner]
      BY <1>37, <1>1, <2>1 DEF FnCancelAll, Goto
    <3>. QED
      BY <3>1, CallKept
  <2>2. CASE t = Owner
    <3>1. /\ frame'[Owner].op = frame[Owner].op /\ frame'[Owner].rec = frame[Owner].rec
          /\ frame'[Owner].kid = frame[Owner].kid /\ frame'[Owner].flag = frame[Owner].flag
          /\ frame[Owner].pc = "fn" /\ frame'[Owner].pc = "update"
      BY <1>37, <1>1, <2>2 DEF FnCancelAll, At, Frame, Goto
    <3>. QED
      BY <1>37, <2>2, <3>1 DEF Unlinked, Removing, Op, FnCancelAll, GroupGoal, AddingGoal,
         InWindow, InGroup, Adding
  <2>. QED
    BY <2>1, <2>2
<1>38. ASSUME NEW t \in Thread, WalkCancel(t)
       PROVE  GroupGoal /\ AddingGoal
  <2>1. CASE t # Owner
    <3>1. frame'[Owner] = frame[Owner]
      BY <1>38, <1>1, <2>1 DEF WalkCancel, Walking, At
    <3>. QED
      BY <3>1, CallKept
  <2>2. CASE t = Owner
    <3>1. frame[Owner].op \in Walkers /\ frame'[Owner].op = frame[Owner].op
      BY <1>38, <1>1, <1>2, <2>2 DEF WalkCancel, Walking, At, Walkers, FrameOk, PcsOf, Frame
    <3>. QED
      BY <3>1, CallEnds DEF Walkers, InWindow, InGroup, Adding
  <2>. QED
    BY <2>1, <2>2
<1>39. ASSUME NEW t \in Thread, WalkHandler(t)
       PROVE  GroupGoal /\ AddingGoal
  <2>1. CASE t # Owner
    <3>1. frame'[Owner] = frame[Owner]
      BY <1>39, <1>1, <2>1 DEF WalkHandler, Walking, At, Goto
    <3>. QED
      BY <3>1, CallKept
  <2>2. CASE t = Owner
    <3>1. frame[Owner].op \in Walkers /\ frame'[Owner].op = frame[Owner].op
      BY <1>39, <1>1, <1>2, <2>2 DEF WalkHandler, Walking, At, Goto, Walkers, FrameOk, PcsOf,
         Frame
    <3>. QED
      BY <3>1, CallEnds DEF Walkers, InWindow, InGroup, Adding
  <2>. QED
    BY <2>1, <2>2
<1>40. ASSUME NEW t \in Thread, WalkNext(t)
       PROVE  GroupGoal /\ AddingGoal
  <2>1. CASE t # Owner
    <3>1. frame'[Owner] = frame[Owner]
      BY <1>40, <1>1, <2>1 DEF WalkNext, At
    <3>. QED
      BY <3>1, CallKept
  <2>2. CASE t = Owner
    <3>1. frame[Owner].op \in Walkers /\ frame'[Owner].op = frame[Owner].op
      BY <1>40, <1>1, <1>2, <2>2 DEF WalkNext, At, Walkers, FrameOk, PcsOf, Frame
    <3>. QED
      BY <3>1, CallEnds DEF Walkers, InWindow, InGroup, Adding
  <2>. QED
    BY <2>1, <2>2
<1>41. ASSUME NEW t \in Thread, WalkEscalate(t)
       PROVE  GroupGoal /\ AddingGoal
  <2>1. CASE t # Owner
    <3>1. frame'[Owner] = frame[Owner]
      BY <1>41, <1>1, <2>1 DEF WalkEscalate, Walking, At
    <3>. QED
      BY <3>1, CallKept
  <2>2. CASE t = Owner
    <3>1. frame[Owner].op \in Walkers /\ frame'[Owner].op = frame[Owner].op
      BY <1>41, <1>1, <1>2, <2>2 DEF WalkEscalate, Walking, At, Walkers, FrameOk, PcsOf, Frame
    <3>. QED
      BY <3>1, CallEnds DEF Walkers, InWindow, InGroup, Adding
  <2>. QED
    BY <2>1, <2>2
<1>42. ASSUME NEW t \in Thread, WalkEnd(t)
       PROVE  GroupGoal /\ AddingGoal
  <2>1. CASE t # Owner
    <3>1. frame'[Owner] = frame[Owner]
      BY <1>42, <1>1, <2>1 DEF WalkEnd, Walking, At, Goto
    <3>. QED
      BY <3>1, CallKept
  <2>2. CASE t = Owner
    <3>1. frame[Owner].op \in Walkers /\ frame'[Owner].op = frame[Owner].op
      BY <1>42, <1>1, <1>2, <2>2 DEF WalkEnd, Walking, At, Goto, Walkers, FrameOk, PcsOf, Frame
    <3>. QED
      BY <3>1, CallEnds DEF Walkers, InWindow, InGroup, Adding
  <2>. QED
    BY <2>1, <2>2
<1>43. ASSUME NEW t \in Thread, Enqueue(t)
       PROVE  GroupGoal /\ AddingGoal
  <2>1. CASE t # Owner
    <3>1. frame'[Owner] = frame[Owner]
      BY <1>43, <1>1, <2>1 DEF Enqueue
    <3>. QED
      BY <3>1, CallKept
  <2>2. CASE t = Owner
    <3>1. frame'[Owner] = NoCall /\ frame[Owner].pc = "enqueue"
      BY <1>43, <1>1, <1>2, <2>2 DEF Enqueue, At, FrameOk
    <3>. QED
      BY <3>1, CallEnds DEF NoCall, InWindow, InGroup, Adding
  <2>. QED
    BY <2>1, <2>2
<1>44. ASSUME AwaitFindsResumed
       PROVE  GroupGoal /\ AddingGoal
  <2>1. ~InWindow(frame[Owner]) /\ frame'[Owner].op \notin InGroup \cup Adding
    BY <1>44, <1>1, <1>2 DEF AwaitFindsResumed, InWindow, InGroup, Adding, At, Return, FrameOk,
       NoCall
  <2>. QED
    BY <2>1, CallEnds
<1>45. ASSUME NEW r \in Record, FlagAsSuspended(r)
       PROVE  GroupGoal /\ AddingGoal
  <2>1. /\ frame'[Owner].op \in Adding /\ frame'[Owner].pc = "add"
        /\ frame'[Owner].rec = r /\ kind[r] = "free" /\ ~InWindow(frame[Owner])
    BY <1>45, <1>1, <1>2 DEF FlagAsSuspended, StartAdd, NoCall, Adding, InWindow, At
  <2>. QED
    BY <2>1 DEF GroupGoal, AddingGoal, InWindow, InGroup, Adding
<1>46. ASSUME AwaitSucceeds
       PROVE  GroupGoal /\ AddingGoal
  <2>1. ~InWindow(frame[Owner]) /\ frame'[Owner].op \notin InGroup \cup Adding
    BY <1>46, <1>1, <1>2 DEF AwaitSucceeds, InWindow, InGroup, Adding, At, Return, FrameOk, NoCall
  <2>. QED
    BY <2>1, CallEnds
<1>47. ASSUME PreawaitSucceeds
       PROVE  GroupGoal /\ AddingGoal
  <2>1. ~InWindow(frame[Owner]) /\ frame'[Owner].op \notin InGroup \cup Adding
    BY <1>47, <1>1, <1>2 DEF PreawaitSucceeds, InWindow, InGroup, Adding, At, Return, FrameOk,
       NoCall
  <2>. QED
    BY <2>1, CallEnds
<1>48. ASSUME AwaitLoses
       PROVE  GroupGoal /\ AddingGoal
  <2>1. ~InWindow(frame[Owner]) /\ frame'[Owner].op \notin InGroup \cup Adding
    BY <1>48, <1>1, <1>2 DEF AwaitLoses, InWindow, InGroup, Adding, At, FlagAsRunning, FrameOk,
       NoCall
  <2>. QED
    BY <2>1, CallEnds
<1>49. ASSUME RunJob
       PROVE  GroupGoal /\ AddingGoal
  <2>1. ~InWindow(frame[Owner]) /\ frame'[Owner].op \notin InGroup \cup Adding
    BY <1>49, <1>1, <1>2 DEF RunJob, InWindow, InGroup, Adding, Idle, FlagAsRunning, FrameOk,
       NoCall
  <2>. QED
    BY <2>1, CallEnds
<1>. QED
  BY <1>3, <1>4, <1>5, <1>6, <1>7, <1>8, <1>9, <1>10, <1>11, <1>12, <1>13, <1>14, <1>15, <1>16,
     <1>17, <1>18, <1>19, <1>20, <1>21, <1>22, <1>23, <1>24, <1>25, <1>26, <1>27, <1>28, <1>29,
     <1>30, <1>31, <1>32, <1>33, <1>34, <1>35, <1>36, <1>37, <1>38, <1>39, <1>40, <1>41, <1>42,
     <1>43, <1>44, <1>45, <1>46, <1>47, <1>48, <1>49
  DEF Next, Call, LockStep, AwaitStep

-----------------------------------------------------------------------------
(* What a step does to the list *)

\* Every record in use is on the list, but the one of the task's call while it is not linked.
ListIs ==
  /\ \A r \in Linked : r \in Record /\ kind[r] # "free"
  /\ \A r \in Record : kind[r] # "free" =>
       r \in Linked \/ (Unlinked(frame[Owner]) /\ r = frame[Owner].rec)
  /\ Unlinked(frame[Owner]) => frame[Owner].rec \notin Linked
  /\ frame[Owner].op \in Adding \cup Removing /\ ~Unlinked(frame[Owner]) =>
       frame[Owner].rec \in Linked

\* What the invariant says of the list, collected
LEMMA ListFacts == TypeOK /\ FrameInv /\ ScopeInv /\ LinkInv => ListIs
<1>. SUFFICES ASSUME TypeOK, FrameInv, ScopeInv, LinkInv
              PROVE  ListIs
  OBVIOUS
<1>. DEFINE n == Len(scopes)
<1>1. /\ Height \in Nat /\ n \in Nat /\ Height <= n /\ Linked = Bottom(scopes, Height)
      /\ \A i \in 1..n : scopes[i] \in Record
      /\ Unlinked(frame[Owner]) => n > 0
  BY ListIsStack DEF TypeOK
<1>2. Height = IF Unlinked(frame[Owner]) THEN n - 1 ELSE n
  BY DEF Height
<1>3. /\ \A i, j \in 1..n : scopes[i] = scopes[j] => i = j
      /\ \A r \in Record : kind[r] # "free" <=> \E i \in 1..n : scopes[i] = r
  BY DEF ScopeInv, StackInv
<1>4. /\ frame[Owner].op \in Adding \cup Removing => n > 0 /\ frame[Owner].rec = scopes[n]
      /\ Unlinked(frame[Owner]) => frame[Owner].op \in Adding \cup Removing
  BY <1>1 DEF ScopeInv, ScopeOk, Unlinked
<1>5. \A r \in Linked : r \in Record /\ kind[r] # "free"
  BY <1>1, <1>3 DEF Bottom
<1>6. ASSUME NEW r \in Record, kind[r] # "free", r \notin Linked
      PROVE  Unlinked(frame[Owner]) /\ r = frame[Owner].rec
  <2>1. PICK i \in 1..n : scopes[i] = r
    BY <1>3, <1>6
  <2>2. i \notin 1..Height
    BY <1>1, <1>6, <2>1 DEF Bottom
  <2>. QED
    BY <1>1, <1>2, <1>4, <2>1, <2>2
<1>7. ASSUME Unlinked(frame[Owner]), frame[Owner].rec \in Linked
      PROVE  FALSE
  <2>1. PICK i \in 1..Height : scopes[i] = scopes[n]
    BY <1>1, <1>4, <1>7 DEF Bottom
  <2>. QED
    BY <1>1, <1>2, <1>3, <1>7, <2>1
<1>8. frame[Owner].op \in Adding \cup Removing /\ ~Unlinked(frame[Owner]) =>
        frame[Owner].rec \in Linked
  BY <1>1, <1>2, <1>4 DEF Bottom
<1>. QED
  BY <1>5, <1>6, <1>7, <1>8 DEF ListIs

\* What is ahead of a thread is on the list.
LEMMA AheadIsLinked ==
  ASSUME TypeOK, FrameInv, ScopeInv, LinkInv, WalkInv, NEW t \in Thread
  PROVE  /\ Ahead(t) \subseteq Linked
         /\ Ahead(t) # {} => frame[t].op \in Walkers
<1>1. /\ ChainFrom(parent, Null) = {}
      /\ \A r \in Linked : /\ ChainFrom(parent, r) \subseteq Linked
                           /\ parent[r] \in Linked \cup {Null}
  BY Behind
<1>2. /\ Place(frame[t]) \in {"at", "past"} => frame[t].cur \in Linked \cup {Null}
      /\ Place(frame[t]) = "past" => frame[t].cur # Null
      /\ Place(frame[t]) # "none" => frame[t].op \in Walkers
  BY DEF Place, WalkInv, Walkers
<1>. QED
  BY <1>1, <1>2 DEF Ahead

\* The step puts the record of the task's call on the list.
ListGains ==
  /\ Publishes /\ Links(frame[Owner].rec) /\ Unlinked(frame[Owner])
  /\ status'.preference <=> status.preference \/ kind[frame[Owner].rec] = "preference"

\* The step takes the record of the task's call off the list.
ListLoses ==
  LET f == frame[Owner]
  IN /\ f.op \in Removing /\ Unlinks(f.rec) /\ ~f.nested
     /\ IF f.op = "pop" THEN f.pc = "update" ELSE ~f.flag
     /\ status'.preference <=> status.preference /\ ~f.flag

\* How a step changes the list
LEMMA ListChanges ==
  ASSUME IInv, Next
  PROVE  \/ ListKept /\ status'.preference = status.preference
         \/ ListGains
         \/ ListLoses
<1>. DEFINE n == Len(scopes)
            f == frame[Owner]
            g == frame'[Owner]
<1>1. /\ TypeOK /\ FrameInv /\ ScopeInv /\ LinkInv /\ FrameOk(Owner, f)
      /\ frame \in [Thread -> Frame] /\ status \in Status /\ Owner \in Thread
      /\ TypeOK' /\ FrameInv' /\ StackGoal
  BY Basics DEF IInv, TypeOK, Thread, FrameInv
<1>2. /\ n \in Nat /\ (\A i \in 1..n : scopes[i] \in Record) /\ scopes \in Seq(Record)
      /\ f.op \in Adding \cup Removing => n > 0 /\ f.rec = scopes[n]
  BY <1>1 DEF TypeOK, ScopeInv, ScopeOk
<1>3. CASE status'.record = status.record /\ status'.preference = status.preference
  BY <1>3, SameRecord
<1>4. ASSUME f.op \in Adding, Unlinked(f), ~Unlinked(g), UNCHANGED scopes
      PROVE  Links(f.rec)
  <2>1. Height' = Height + 1 /\ scopes[Height'] = f.rec
    BY <1>2, <1>4 DEF Height
  <2>. QED
    BY <1>1, <2>1, ListStep
<1>5. ASSUME f.op \in Removing, ~Unlinked(f),
             \/ UNCHANGED scopes /\ Unlinked(g)
             \/ scopes' = SubSeq(scopes, 1, n - 1) /\ ~Unlinked(g)
      PROVE  Unlinks(f.rec)
  <2>1. Height = n /\ Height' = n - 1
    BY <1>2, <1>5 DEF Height
  <2>. QED
    BY <1>1, <1>2, <1>5, <2>1, ListStep
<1>6. ASSUME NEW t \in Thread, AddLockless(t)
      PROVE  \/ ListKept /\ status'.preference = status.preference
             \/ ListGains
  <2>1. /\ t = Owner /\ f.op \in Adding /\ f.pc = "add" /\ f.rec \in Record /\ Unlinked(f)
    <3>1. t = Owner /\ f.op \in Adding /\ f.pc = "add" /\ f.rec \in Record
      BY <1>1, <1>6, OwnerAdds DEF AddLockless, At
    <3>. QED
      BY <3>1 DEF Unlinked
  <2>2. CASE ~shouldAddRecord(t, status)
    BY <1>6, <2>2, SameRecord DEF AddLockless
  <2>3. CASE shouldAddRecord(t, status)
    <3>1. /\ Emplace(Owner, status) /\ shouldAddRecord(Owner, status)
          /\ UNCHANGED <<kind, children, ran>> /\ UNCHANGED scopes
          /\ status' = withInnermostRecord(Owner, status)
      BY <1>6, <2>1, <2>3 DEF AddLockless
    <3>2. ~Unlinked(g)
      <4>1. \/ g = NoCall
            \/ g = [AfterAdd(Owner) EXCEPT !.old = Load(status)] /\ f.op # "add"
        BY <1>1, <1>6, <2>1, <2>3 DEF AddLockless
      <4>2. CASE g = NoCall
        BY <4>2 DEF NoCall, Unlinked, Adding, Removing
      <4>3. CASE g = [AfterAdd(Owner) EXCEPT !.old = Load(status)] /\ f.op # "add"
        <5>1. AfterAdd(Owner) \in {[f EXCEPT !.pc = "awaited"], [f EXCEPT !.pc = "enqueue"]}
          BY <2>1, <4>3 DEF AfterAdd, Adding
        <5>2. g.pc \in {"awaited", "enqueue"}
          BY <1>1, <4>3, <5>1 DEF Frame
        <5>. QED
          BY <5>2 DEF Unlinked
      <4>. QED
        BY <4>1, <4>2, <4>3
    <3>3. status'.preference <=> status.preference \/ kind[f.rec] = "preference"
      BY <1>1, <3>1 DEF withInnermostRecord, Status
    <3>4. Publishes
      BY <2>1, <3>1 DEF Publishes
    <3>. QED
      BY <1>4, <2>1, <3>1, <3>2, <3>3, <3>4 DEF ListGains
  <2>. QED
    BY <2>2, <2>3
<1>7. ASSUME NEW t \in Thread, UpdateAdd(t)
      PROVE  \/ ListKept /\ status'.preference = status.preference
             \/ ListGains
  <2>. DEFINE s == [status EXCEPT !.locked = frame[t].already]
  <2>1. /\ t = Owner /\ f.op \in Adding /\ f.pc = "update" /\ f.rec \in Record /\ Unlinked(f)
    <3>1. t = Owner /\ f.op \in Adding /\ f.pc = "update" /\ f.rec \in Record
      BY <1>1, <1>7, OwnerAdds DEF UpdateAdd, At
    <3>. QED
      BY <3>1 DEF Unlinked
  <2>2. /\ g.op = f.op /\ g.pc = "unlock" /\ (g.flag <=> ~shouldAddRecord(Owner, s))
    BY <1>1, <1>7, <2>1 DEF UpdateAdd, Frame
  <2>3. /\ s.cancelled = status.cancelled /\ s.priority = status.priority
        /\ s.preference = status.preference /\ s.record = status.record
    BY <1>1 DEF Status
  <2>4. /\ shouldAddRecord(Owner, s) => Emplace(Owner, s) /\ UNCHANGED <<kind, children, ran>>
        /\ UNCHANGED scopes
        /\ status' = IF shouldAddRecord(Owner, s) THEN withInnermostRecord(Owner, s) ELSE s
    BY <1>7, <2>1 DEF UpdateAdd
  <2>5. withInnermostRecord(Owner, s).preference <=>
          status.preference \/ kind[f.rec] = "preference"
    BY <1>1 DEF withInnermostRecord, Status
  <2>. HIDE DEF s
  <2>6. CASE ~shouldAddRecord(Owner, s)
    BY <2>3, <2>4, <2>6, SameRecord
  <2>7. CASE shouldAddRecord(Owner, s)
    <3>1. ~Unlinked(g)
      BY <2>1, <2>2, <2>7 DEF Unlinked, Adding, Removing
    <3>2. Publishes
      BY <2>1, <2>3, <2>4, <2>7 DEF Publishes
    <3>. QED
      BY <1>4, <2>1, <2>4, <2>5, <2>7, <3>1, <3>2 DEF ListGains
  <2>. QED
    BY <2>6, <2>7
<1>8. ASSUME NEW t \in Thread, RemoveLockless(t)
      PROVE  ListLoses
  <2>1. /\ t = Owner /\ f.op \in {"remove", "run"} /\ f.pc = "remove" /\ ~f.nested
    BY <1>1, <1>8, OwnerAdds DEF RemoveLockless, At
  <2>2. /\ ~Unlinked(f) /\ ~f.flag /\ f.op \in Removing /\ f.op # "pop"
    BY <1>1, <2>1 DEF Unlinked, Adding, Removing, FrameOk
  <2>3. g = NoCall /\ scopes' = SubSeq(scopes, 1, n - 1)
    BY <1>1, <1>8, <2>1 DEF RemoveLockless, Return, Dealloc
  <2>4. ~Unlinked(g)
    BY <2>3 DEF NoCall, Unlinked, Adding, Removing
  <2>5. status'.preference = status.preference
    BY <1>1, <1>8 DEF RemoveLockless, withFlags, Status
  <2>. QED
    BY <1>5, <2>1, <2>2, <2>3, <2>4, <2>5 DEF ListLoses
<1>9. ASSUME NEW t \in Thread, UpdateRemove(t)
      PROVE  ListLoses
  <2>1. Op(t) \in Removing /\ frame[t].pc = "update"
    BY <1>9 DEF UpdateRemove, At, Removing
  <2>2. /\ t = Owner /\ f.op \in Removing /\ f.pc = "update" /\ ~f.nested
    BY <1>1, <2>1, OwnerAdds
  <2>3. ~Unlinked(f) /\ (f.op # "pop" => ~f.flag)
    BY <1>1, <2>2 DEF Unlinked, Adding, Removing, FrameOk
  <2>4. UNCHANGED scopes /\ g.op = f.op /\ g.pc = "unlock"
    BY <1>1, <1>9, <2>2 DEF UpdateRemove, records, Goto, Frame
  <2>5. Unlinked(g)
    BY <2>2, <2>4 DEF Unlinked
  <2>6. status'.preference <=> status.preference /\ ~f.flag
    <3>1. PICK a, q : status' = withFlags(Owner,
            [status EXCEPT !.locked = a, !.record = q,
                           !.preference = status.preference /\ ~f.flag])
      BY <1>9, <2>2 DEF UpdateRemove
    <3>. QED
      BY <1>1, <3>1 DEF withFlags, Status
  <2>. QED
    BY <1>5, <2>2, <2>3, <2>4, <2>5, <2>6 DEF ListLoses
<1>. QED
  BY <1>3, <1>6, <1>7, <1>8, <1>9, RecordStep

-----------------------------------------------------------------------------
(* The flag for executor preferences *)

\* How the removal of a scope's record learns whether it is the last one of its type
PopGoal ==
  LET f == frame[Owner]
      g == frame'[Owner]
  IN g.op = "pop" /\ g.pc = "update" =>
       \/ f.op = "pop" /\ f.pc = "update" /\ g.rec = f.rec /\ g.flag = f.flag
       \/ /\ FnPop(Owner) /\ f.op = "pop" /\ f.pc = "fn" /\ g.rec = f.rec
          /\ g.flag <=> kind[f.rec] = "preference" /\ lastOfKind(Owner)

\* Only the search sets the flag of a removal.
LEMMA PopStep ==
  ASSUME IInv, Next
  PROVE  PopGoal
<1>1. /\ TypeOK /\ FrameInv /\ ScopeInv /\ frame \in [Thread -> Frame] /\ Owner \in Thread
      /\ FrameOk(Owner, frame[Owner])
  BY DEF IInv, TypeOK, Thread, FrameInv
<1>2. frame'[Owner] = frame[Owner] => PopGoal
  BY DEF PopGoal
<1>3. frame'[Owner].op # "pop" \/ frame'[Owner].pc # "update" => PopGoal
  BY DEF PopGoal
<1>4. ASSUME NEW r \in Record, NEW k \in {"cancel", "escalation", "group", "preference"},
             EnterScope(r, k)
      PROVE  PopGoal
  BY <1>4, <1>1, <1>3 DEF EnterScope, StartAdd, NoCall
<1>5. ASSUME NEW r \in Record, NEW c \in Child, AsyncLet(r, c)
      PROVE  PopGoal
  BY <1>5, <1>1, <1>3 DEF AsyncLet, StartAdd, NoCall
<1>6. ASSUME NEW r \in Record, FlagAsAndEnqueueOnExecutor(r)
      PROVE  PopGoal
  BY <1>6, <1>1, <1>3 DEF FlagAsAndEnqueueOnExecutor, StartAdd, NoCall
<1>7. ASSUME ExitScope
      PROVE  PopGoal
  BY <1>7, <1>1, <1>3 DEF ExitScope, NoCall
<1>8. ASSUME PopScope
      PROVE  PopGoal
  BY <1>8, <1>1, <1>3 DEF PopScope, NoCall
<1>9. ASSUME NEW r \in Record, NEW c \in Child, AttachChild(r, c)
      PROVE  PopGoal
  BY <1>9, <1>1, <1>3 DEF AttachChild, WithLock, NoCall
<1>10. ASSUME NEW r \in Record, NEW c \in Child, DetachChild(r, c)
       PROVE  PopGoal
  BY <1>10, <1>1, <1>3 DEF DetachChild, WithLock, NoCall
<1>11. ASSUME NEW r \in Record, CancelAll(r)
       PROVE  PopGoal
  BY <1>11, <1>1, <1>2, <1>3 DEF CancelAll, WithLock, NoCall
<1>12. ASSUME ContinuationInit
       PROVE  PopGoal
  BY <1>12, <1>1, <1>3 DEF ContinuationInit, Goto, Frame
<1>13. ASSUME NEW r \in Record, ContinuationInitPreawaited(r)
       PROVE  PopGoal
  BY <1>13, <1>1, <1>3 DEF ContinuationInitPreawaited, StartAdd, NoCall
<1>14. ASSUME NEW c \in Child, WaitFuture(c)
       PROVE  PopGoal
  BY <1>14, <1>1, <1>3 DEF WaitFuture, Frame
<1>15. ASSUME RunImmediately
       PROVE  PopGoal
  BY <1>15, <1>1, <1>2 DEF RunImmediately
<1>16. ASSUME Complete
       PROVE  PopGoal
  BY <1>16, <1>1, <1>2 DEF Complete
<1>17. ASSUME NEW t \in Thread, Cancel(t)
       PROVE  PopGoal
  BY <1>17, <1>1, <1>2, <1>3 DEF Cancel, NoCall
<1>18. ASSUME NEW t \in Thread, NEW p \in JobPriority, Escalate(t, p)
       PROVE  PopGoal
  BY <1>18, <1>1, <1>2 DEF Escalate
<1>19. ASSUME NEW t \in Thread, Resume(t)
       PROVE  PopGoal
  BY <1>19, <1>1, <1>2 DEF Resume
<1>20. ASSUME NEW t \in Thread, HandlerResumes(t)
       PROVE  PopGoal
  <2>1. \/ frame'[Owner] = frame[Owner]
        \/ frame'[Owner].pc = "lock"
    BY <1>20, <1>1 DEF HandlerResumes, Frame
  <2>. QED
    BY <1>2, <1>3, <2>1
<1>21. ASSUME NEW t \in Thread, AddLockless(t)
       PROVE  PopGoal
  <2>1. t = Owner /\ frame[Owner].op \in Adding
    BY <1>21, <1>1, OwnerAdds DEF AddLockless, At
  <2>2. \/ Goto(Owner, "fire")
        \/ frame'[Owner] = NoCall
        \/ /\ frame'[Owner] = [AfterAdd(Owner) EXCEPT !.old = Load(status)]
           /\ frame[Owner].op # "add"
    BY <1>21, <1>1, <2>1 DEF AddLockless
  <2>3. CASE /\ frame'[Owner] = [AfterAdd(Owner) EXCEPT !.old = Load(status)]
             /\ frame[Owner].op # "add"
    <3>1. AfterAdd(Owner) \in {[frame[Owner] EXCEPT !.pc = "awaited"],
                               [frame[Owner] EXCEPT !.pc = "enqueue"]}
      BY <2>1, <2>3 DEF AfterAdd, Adding
    <3>2. frame'[Owner].pc \in {"awaited", "enqueue"}
      BY <1>1, <2>3, <3>1 DEF Frame
    <3>. QED
      BY <1>3, <3>2
  <2>. QED
    BY <1>1, <1>3, <2>2, <2>3 DEF Goto, Frame, NoCall
<1>22. ASSUME NEW t \in Thread, AddSeesLock(t)
       PROVE  PopGoal
  <2>1. t = Owner => frame'[Owner].pc # "update"
    BY <1>22, <1>1 DEF AddSeesLock, Frame
  <2>2. t # Owner => frame'[Owner] = frame[Owner]
    BY <1>22, <1>1 DEF AddSeesLock
  <2>. QED
    BY <1>2, <1>3, <2>1, <2>2
<1>23. ASSUME NEW t \in Thread, FireHandlerNow(t)
       PROVE  PopGoal
  <2>1. t = Owner => frame'[Owner].pc # "update"
    BY <1>23, <1>1 DEF FireHandlerNow, Goto, Frame
  <2>2. t # Owner => frame'[Owner] = frame[Owner]
    BY <1>23, <1>1 DEF FireHandlerNow, Goto
  <2>. QED
    BY <1>2, <1>3, <2>1, <2>2
<1>24. ASSUME NEW t \in Thread, DropFired(t)
       PROVE  PopGoal
  <2>1. t = Owner => frame'[Owner].pc # "update"
    BY <1>24, <1>1 DEF DropFired, Return, NoCall, Frame
  <2>2. t # Owner => frame'[Owner] = frame[Owner]
    BY <1>24, <1>1 DEF DropFired, Return, NoCall
  <2>. QED
    BY <1>2, <1>3, <2>1, <2>2
<1>25. ASSUME NEW t \in Thread, RemoveLockless(t)
       PROVE  PopGoal
  <2>1. t = Owner => frame'[Owner].pc # "update"
    BY <1>25, <1>1 DEF RemoveLockless, Return, NoCall, Frame
  <2>2. t # Owner => frame'[Owner] = frame[Owner]
    BY <1>25, <1>1 DEF RemoveLockless, Return, NoCall
  <2>. QED
    BY <1>2, <1>3, <2>1, <2>2
<1>26. ASSUME NEW t \in Thread, RemoveSeesLock(t)
       PROVE  PopGoal
  <2>1. t = Owner => frame'[Owner].pc # "update"
    BY <1>26, <1>1 DEF RemoveSeesLock, Frame
  <2>2. t # Owner => frame'[Owner] = frame[Owner]
    BY <1>26, <1>1 DEF RemoveSeesLock
  <2>. QED
    BY <1>2, <1>3, <2>1, <2>2
<1>27. ASSUME NEW t \in Thread, Lock(t)
       PROVE  PopGoal
  <2>1. t = Owner => frame'[Owner].pc # "update"
    BY <1>27, <1>1 DEF Lock, Goto, Frame
  <2>2. t # Owner => frame'[Owner] = frame[Owner]
    BY <1>27, <1>1 DEF Lock, Goto
  <2>. QED
    BY <1>2, <1>3, <2>1, <2>2
<1>28. ASSUME NEW t \in Thread, SetBit(t)
       PROVE  PopGoal
  <2>1. PICK a, o, q, p :
          /\ p = IF Op(t) \in Adding \cup {"resume"} THEN "update" ELSE "fn"
          /\ frame' = [frame EXCEPT ![t].already = a, ![t].old = o, ![t].cur = q, ![t].pc = p]
    BY <1>28, <1>1, ZenonT(60) DEF SetBit
  <2>2. CASE t = Owner
    <3>1. frame'[Owner] = [frame[Owner] EXCEPT !.already = a, !.old = o, !.cur = q, !.pc = p]
      BY <1>1, <2>1, <2>2
    <3>2. frame'[Owner].op = frame[Owner].op /\ frame'[Owner].pc = p
      BY <1>1, <3>1 DEF Frame
    <3>. QED
      BY <1>1, <1>3, <2>1, <2>2, <3>2 DEF Op, Adding, FrameOk
  <2>. QED
    BY <1>1, <1>2, <2>1, <2>2
<1>29. ASSUME NEW t \in Thread, FnRemove(t)
       PROVE  PopGoal
  <2>1. t = Owner => frame'[Owner].op # "pop"
    BY <1>29, <1>1 DEF FnRemove, Goto, Op, FrameOk, Frame
  <2>2. t # Owner => frame'[Owner] = frame[Owner]
    BY <1>29, <1>1 DEF FnRemove, Goto
  <2>. QED
    BY <1>2, <1>3, <2>1, <2>2
<1>30. ASSUME NEW t \in Thread, FnPop(t)
       PROVE  PopGoal
  <2>1. t = Owner /\ frame[Owner].op = "pop"
    BY <1>30, <1>1, OwnerAdds DEF FnPop, Removing
  <2>2. PICK r :
          frame' = [frame EXCEPT
               ![t].pc = "update", ![t].cur = r,
               ![t].flag = kind[frame[t].rec] = "preference" /\ lastOfKind(t)]
    BY <1>30 DEF FnPop
  <2>. DEFINE b == kind[frame[t].rec] = "preference" /\ lastOfKind(t)
  <2>3. b \in BOOLEAN
    OBVIOUS
  <2>4. frame' = [frame EXCEPT ![t].pc = "update", ![t].cur = r, ![t].flag = b]
    BY <2>2
  <2>. HIDE DEF b
  <2>5. frame'[Owner].rec = frame[Owner].rec /\ frame'[Owner].flag = b
    BY <1>1, <2>1, <2>3, <2>4 DEF Frame
  <2>6. FnPop(Owner) /\ frame[Owner].pc = "fn"
    BY <1>30, <2>1, ZenonT(60) DEF FnPop, At
  <2>7. frame'[Owner].flag <=> kind[frame[Owner].rec] = "preference" /\ lastOfKind(Owner)
    BY <2>1, <2>5 DEF b
  <2>. QED
    BY <2>1, <2>5, <2>6, <2>7 DEF PopGoal
<1>31. ASSUME NEW t \in Thread, UpdateRemove(t)
       PROVE  PopGoal
  <2>1. t = Owner => frame'[Owner].pc # "update"
    BY <1>31, <1>1 DEF UpdateRemove, Goto, Frame
  <2>2. t # Owner => frame'[Owner] = frame[Owner]
    BY <1>31, <1>1 DEF UpdateRemove, Goto
  <2>. QED
    BY <1>2, <1>3, <2>1, <2>2
<1>32. ASSUME NEW t \in Thread, UpdateAdd(t)
       PROVE  PopGoal
  <2>1. t = Owner => frame'[Owner].pc # "update"
    BY <1>32, <1>1 DEF UpdateAdd, Frame
  <2>2. t # Owner => frame'[Owner] = frame[Owner]
    BY <1>32, <1>1 DEF UpdateAdd
  <2>. QED
    BY <1>2, <1>3, <2>1, <2>2
<1>33. ASSUME NEW t \in Thread, UpdateResume(t)
       PROVE  PopGoal
  <2>1. t = Owner => frame'[Owner].pc # "update"
    BY <1>33, <1>1 DEF UpdateResume, Goto, Frame
  <2>2. t # Owner => frame'[Owner] = frame[Owner]
    BY <1>33, <1>1 DEF UpdateResume, Goto
  <2>. QED
    BY <1>2, <1>3, <2>1, <2>2
<1>34. ASSUME NEW t \in Thread, UpdatePlain(t)
       PROVE  PopGoal
  <2>1. t = Owner => frame'[Owner].pc # "update"
    BY <1>34, <1>1 DEF UpdatePlain, Goto, Frame
  <2>2. t # Owner => frame'[Owner] = frame[Owner]
    BY <1>34, <1>1 DEF UpdatePlain, Goto
  <2>. QED
    BY <1>2, <1>3, <2>1, <2>2
<1>35. ASSUME NEW t \in Thread, Unlock(t)
       PROVE  PopGoal
  <2>1. CASE t = Owner
    <3>1. frame'[Owner] = AfterUnlock(Owner) /\ frame[Owner].pc = "unlock"
          /\ (Op(Owner) \in Adding => frame[Owner].op \in Adding)
      BY <1>35, <1>1, <2>1 DEF Unlock, At, Op, Adding
    <3>2. frame'[Owner] \in {NoCall, [frame[Owner] EXCEPT !.pc = "fire"],
              [frame[Owner] EXCEPT !.pc = "awaited"], [frame[Owner] EXCEPT !.pc = "enqueue"]}
      BY <3>1 DEF AfterUnlock, AfterAdd, Adding
    <3>3. frame'[Owner].pc # "update"
      BY <1>1, <3>2 DEF Frame, NoCall
    <3>. QED
      BY <1>3, <3>3
  <2>. QED
    BY <1>35, <1>1, <1>2, <2>1 DEF Unlock
<1>36. ASSUME NEW t \in Thread, FnAttach(t)
       PROVE  PopGoal
  <2>1. t = Owner => frame'[Owner].op # "pop"
    BY <1>36, <1>1 DEF FnAttach, Goto, Op, FrameOk, Frame
  <2>2. t # Owner => frame'[Owner] = frame[Owner]
    BY <1>36, <1>1 DEF FnAttach, Goto
  <2>. QED
    BY <1>2, <1>3, <2>1, <2>2
<1>37. ASSUME NEW t \in Thread, FnDetach(t)
       PROVE  PopGoal
  <2>1. t = Owner => frame'[Owner].op # "pop"
    BY <1>37, <1>1 DEF FnDetach, Goto, Op, FrameOk, Frame
  <2>2. t # Owner => frame'[Owner] = frame[Owner]
    BY <1>37, <1>1 DEF FnDetach, Goto
  <2>. QED
    BY <1>2, <1>3, <2>1, <2>2
<1>38. ASSUME NEW t \in Thread, FnCancelAll(t)
       PROVE  PopGoal
  <2>1. t = Owner => frame'[Owner].op # "pop"
    BY <1>38, <1>1 DEF FnCancelAll, Goto, Op, FrameOk, Frame
  <2>2. t # Owner => frame'[Owner] = frame[Owner]
    BY <1>38, <1>1 DEF FnCancelAll, Goto
  <2>. QED
    BY <1>2, <1>3, <2>1, <2>2
<1>39. ASSUME NEW t \in Thread, WalkCancel(t)
       PROVE  PopGoal
  <2>1. t = Owner => frame'[Owner].pc # "update"
    BY <1>39, <1>1 DEF WalkCancel, Walking, At, Frame
  <2>2. t # Owner => frame'[Owner] = frame[Owner]
    BY <1>39, <1>1 DEF WalkCancel, Walking, At
  <2>. QED
    BY <1>2, <1>3, <2>1, <2>2
<1>40. ASSUME NEW t \in Thread, WalkHandler(t)
       PROVE  PopGoal
  <2>1. t = Owner => frame'[Owner].pc # "update"
    BY <1>40, <1>1 DEF WalkHandler, Goto, Frame
  <2>2. t # Owner => frame'[Owner] = frame[Owner]
    BY <1>40, <1>1 DEF WalkHandler, Goto
  <2>. QED
    BY <1>2, <1>3, <2>1, <2>2
<1>41. ASSUME NEW t \in Thread, WalkNext(t)
       PROVE  PopGoal
  <2>1. t = Owner => frame'[Owner].pc # "update"
    BY <1>41, <1>1 DEF WalkNext, Frame
  <2>2. t # Owner => frame'[Owner] = frame[Owner]
    BY <1>41, <1>1 DEF WalkNext
  <2>. QED
    BY <1>2, <1>3, <2>1, <2>2
<1>42. ASSUME NEW t \in Thread, WalkEscalate(t)
       PROVE  PopGoal
  <2>1. t = Owner => frame'[Owner].pc # "update"
    BY <1>42, <1>1 DEF WalkEscalate, Walking, At, Frame
  <2>2. t # Owner => frame'[Owner] = frame[Owner]
    BY <1>42, <1>1 DEF WalkEscalate, Walking, At
  <2>. QED
    BY <1>2, <1>3, <2>1, <2>2
<1>43. ASSUME NEW t \in Thread, WalkEnd(t)
       PROVE  PopGoal
  <2>1. t = Owner => frame'[Owner].op # "pop"
    BY <1>43, <1>1 DEF WalkEnd, Goto, Op, Walking, Frame
  <2>2. t # Owner => frame'[Owner] = frame[Owner]
    BY <1>43, <1>1 DEF WalkEnd, Goto
  <2>. QED
    BY <1>2, <1>3, <2>1, <2>2
<1>44. ASSUME NEW t \in Thread, Enqueue(t)
       PROVE  PopGoal
  <2>1. t = Owner => frame'[Owner].pc # "update"
    BY <1>44, <1>1 DEF Enqueue, NoCall, Frame
  <2>2. t # Owner => frame'[Owner] = frame[Owner]
    BY <1>44, <1>1 DEF Enqueue, NoCall
  <2>. QED
    BY <1>2, <1>3, <2>1, <2>2
<1>45. ASSUME AwaitFindsResumed
       PROVE  PopGoal
  BY <1>45, <1>1, <1>3 DEF AwaitFindsResumed, Return, NoCall
<1>46. ASSUME NEW r \in Record, FlagAsSuspended(r)
       PROVE  PopGoal
  BY <1>46, <1>1, <1>3 DEF FlagAsSuspended, StartAdd, NoCall
<1>47. ASSUME AwaitSucceeds
       PROVE  PopGoal
  BY <1>47, <1>1, <1>3 DEF AwaitSucceeds, Return, NoCall
<1>48. ASSUME PreawaitSucceeds
       PROVE  PopGoal
  BY <1>48, <1>1, <1>3 DEF PreawaitSucceeds, Return, NoCall
<1>49. ASSUME AwaitLoses
       PROVE  PopGoal
  BY <1>49, <1>1, <1>3 DEF AwaitLoses, FlagAsRunning, NoCall
<1>50. ASSUME RunJob
       PROVE  PopGoal
  BY <1>50, <1>1, <1>3 DEF RunJob, FlagAsRunning, NoCall
<1>. QED
  BY <1>4, <1>5, <1>6, <1>7, <1>8, <1>9, <1>10, <1>11, <1>12, <1>13, <1>14, <1>15, <1>16,
     <1>17, <1>18, <1>19, <1>20, <1>21, <1>22, <1>23, <1>24, <1>25, <1>26, <1>27, <1>28, <1>29,
     <1>30, <1>31, <1>32, <1>33, <1>34, <1>35, <1>36, <1>37, <1>38, <1>39, <1>40, <1>41, <1>42,
     <1>43, <1>44, <1>45, <1>46, <1>47, <1>48, <1>49, <1>50
  DEF Next, Call, LockStep, AwaitStep

\* The list is finite, so the record is the only one of its kind if they are one.
LEMMA LastOfKind ==
  ASSUME TypeOK, FrameInv, ScopeInv, LinkInv, frame[Owner].op = "pop",
         frame[Owner].pc = "fn"
  PROVE  lastOfKind(Owner) <=>
           \A r \in Linked : kind[r] = kind[frame[Owner].rec] => r = frame[Owner].rec
<1>. DEFINE rec == frame[Owner].rec
            same == OfKind(kind[rec])
<1>1. rec \in Linked
  BY ListFacts DEF ListIs, Removing, Unlinked, Adding
<1>2. IsFiniteSet(Linked)
  <2>1. /\ Height \in Nat /\ Height <= Len(scopes) /\ Len(scopes) \in Nat
        /\ Linked = Bottom(scopes, Height) /\ \A i \in 1..Len(scopes) : scopes[i] \in Record
    BY ListIsStack DEF TypeOK
  <2>. DEFINE f == [i \in 1..Height |-> scopes[i]]
  <2>2. f \in Surjection(1..Height, Linked)
    BY <2>1 DEF Bottom, Surjection
  <2>3. IsFiniteSet(1..Height)
    BY <2>1, FS_Interval
  <2>. HIDE DEF f
  <2>. QED
    BY <2>2, <2>3, FS_Surjection
<1>3. same \in SUBSET Linked /\ rec \in same
  BY <1>1 DEF OfKind
<1>4. IsFiniteSet(same)
  BY <1>2, <1>3, FS_Subset
<1>5. Cardinality(same) = 1 <=> \E x : same = {x}
  <2>1. \A S : IsFiniteSet(S) => (Cardinality(S) = 1 <=> \E x : S = {x})
    BY FS_Singleton
  <2>. HIDE DEF same
  <2>. QED
    BY <1>4, <2>1
<1>6. (\E x : same = {x}) <=> \A r \in same : r = rec
  <2>. HIDE DEF same, rec
  <2>1. ASSUME NEW x, same = {x}
        PROVE  \A r \in same : r = rec
    BY <1>3, <2>1
  <2>2. ASSUME \A r \in same : r = rec
        PROVE  same = {rec}
    BY <1>3, <2>2
  <2>. QED
    BY <2>1, <2>2
<1>7. (\A r \in same : r = rec) <=> \A r \in Linked : kind[r] = kind[rec] => r = rec
  BY DEF OfKind
<1>. QED
  BY <1>5, <1>6, <1>7 DEF lastOfKind

\* The flag says whether there is an executor preference.
LEMMA PreferenceStep ==
  ASSUME IInv, Next
  PROVE  PreferenceInv'
<1>. DEFINE f == frame[Owner]
            g == frame'[Owner]
            Prefers(r) == kind[r] = "preference"
<1>1. /\ TypeOK /\ FrameInv /\ ScopeInv /\ LinkInv /\ PreferenceInv /\ PopGoal
      /\ ListIs /\ ListIs'
  <2>1. ListIs'
    BY Basics, ListFacts, PTL
  <2>. QED
    BY <2>1, PopStep, ListFacts DEF IInv
<1>2. /\ Null \notin Linked /\ status \in Status /\ status'.preference \in BOOLEAN
      /\ f.flag \in BOOLEAN /\ g.flag \in BOOLEAN
  <2>1. TypeOK' /\ Owner \in Thread
    BY Basics DEF Thread
  <2>. QED
    BY <1>1, <2>1, TaskAssumption DEF TypeOK, ListIs, Status, Frame
<1>3. CASE ListKept /\ status'.preference = status.preference
  <2>1. Linked' = Linked /\ \A r \in Linked : kind'[r] = kind[r]
    BY <1>2, <1>3 DEF ListKept, SameChain
  <2>2. status'.preference <=> \E r \in Linked' : kind'[r] = "preference"
    BY <1>1, <1>2, <1>3, <2>1 DEF PreferenceInv
  <2>3. ASSUME g.op = "pop", g.pc = "update"
        PROVE  g.flag <=> /\ kind'[g.rec] = "preference"
                          /\ \A r \in Linked' : kind'[r] = "preference" => r = g.rec
    <3>1. CASE f.op = "pop" /\ f.pc = "update" /\ g.rec = f.rec /\ g.flag = f.flag
      <4>1. f.rec \in Linked
        BY <1>1, <3>1 DEF ListIs, Unlinked, Adding, Removing
      <4>. QED
        BY <1>1, <1>2, <2>1, <3>1, <4>1 DEF PreferenceInv
    <3>2. CASE /\ FnPop(Owner) /\ f.op = "pop" /\ f.pc = "fn" /\ g.rec = f.rec
               /\ g.flag <=> kind[f.rec] = "preference" /\ lastOfKind(Owner)
      <4>1. lastOfKind(Owner) <=> \A r \in Linked : kind[r] = kind[f.rec] => r = f.rec
        BY <1>1, <3>2, LastOfKind
      <4>2. kind' = kind
        BY <3>2 DEF FnPop
      <4>. QED
        BY <2>1, <3>2, <4>1, <4>2
    <3>. QED
      BY <1>1, <2>3, <3>1, <3>2 DEF PopGoal
  <2>. QED
    BY <2>2, <2>3 DEF PreferenceInv
<1>4. CASE ListGains
  <2>1. /\ Linked' = Linked \cup {f.rec} /\ UNCHANGED kind /\ f.op \in Adding
        /\ status'.preference <=> status.preference \/ kind[f.rec] = "preference"
    BY <1>4 DEF ListGains, Links, Publishes
  <2>2. status'.preference <=> \E r \in Linked' : kind'[r] = "preference"
    BY <1>1, <2>1 DEF PreferenceInv
  <2>3. ~(g.op = "pop" /\ g.pc = "update")
    BY <1>1, <2>1 DEF PopGoal, Adding
  <2>. QED
    BY <2>2, <2>3 DEF PreferenceInv
<1>5. CASE ListLoses
  <2>1. /\ f.rec \in Linked /\ Linked' = Linked \ {f.rec} /\ f.op \in Removing
        /\ IF f.op = "pop" THEN f.pc = "update" ELSE ~f.flag
        /\ status'.preference <=> status.preference /\ ~f.flag
        /\ \A r \in Linked' : kind'[r] = kind[r]
    BY <1>2, <1>5 DEF ListLoses, Unlinks, SameChain
  <2>2. status'.preference <=> \E r \in Linked' : kind'[r] = "preference"
    <3>1. CASE f.op = "pop"
      <4>1. f.flag <=> /\ kind[f.rec] = "preference"
                       /\ \A r \in Linked : kind[r] = "preference" => r = f.rec
        BY <1>1, <2>1, <3>1 DEF PreferenceInv
      <4>2. status.preference <=> \E r \in Linked : kind[r] = "preference"
        BY <1>1 DEF PreferenceInv
      <4>. QED
        BY <2>1, <4>1, <4>2
    <3>2. CASE f.op # "pop"
      <4>1. kind[f.rec] # "preference"
        BY <1>1, <2>1, <3>2 DEF ScopeInv, ScopeOk, KindOf, Removing, InGroup, Adding
      <4>2. status.preference <=> \E r \in Linked : kind[r] = "preference"
        BY <1>1 DEF PreferenceInv
      <4>. QED
        BY <2>1, <3>2, <4>1, <4>2
    <3>. QED
      BY <3>1, <3>2
  <2>3. ASSUME g.op = "pop", g.pc = "update"
        PROVE  FALSE
    <3>1. g.rec = f.rec
      BY <1>1, <2>1, <2>3 DEF PopGoal
    <3>2. g.rec \in Linked'
      BY <1>1, <2>3 DEF ListIs, Unlinked, Adding, Removing
    <3>. QED
      BY <2>1, <3>1, <3>2
  <2>. QED
    BY <2>2, <2>3 DEF PreferenceInv
<1>. QED
  BY <1>3, <1>4, <1>5, ListChanges

-----------------------------------------------------------------------------
(* A handler runs once *)

\* What a step does to a record's kind and to how often its handler has run
RanGoal(r) ==
  /\ kind'[r] = kind[r] \/ kind[r] = "free" \/ frame'[Owner] = NoCall
  /\ kind'[r] # "cancel" => ran'[r] = 0
  /\ \/ ran'[r] = ran[r]
     \/ kind'[r] # "cancel"
     \/ /\ ran[r] = 0 /\ ran'[r] = 1 /\ status.cancelled /\ kind[r] = "cancel"
        /\ \/ FireHandlerNow(Owner) /\ frame[Owner].rec = r
           \/ \E t \in Thread : WalkHandler(t) /\ frame[t].cur = r

\* How a step counts the runs of a handler
LEMMA RanStep ==
  ASSUME IInv, Next, NEW r \in Record
  PROVE  RanGoal(r)
<1>1. /\ TypeOK /\ FrameInv /\ ScopeInv /\ LinkInv /\ WalkInv /\ OnceInv
      /\ kind \in [Record -> Kinds] /\ ran \in [Record -> Nat] /\ Owner \in Thread
      /\ FrameOk(Owner, frame[Owner])
  BY DEF IInv, TypeOK, Thread, FrameInv
<1>2. kind[r] # "cancel" => ran[r] = 0
  BY <1>1 DEF OnceInv
<1>3. CASE UNCHANGED <<kind, ran>>
  BY <1>2, <1>3 DEF RanGoal
<1>4. ASSUME NEW q \in Record, NEW k \in Kinds, NEW kids \in SUBSET Child, Starts(q, k, kids)
      PROVE  RanGoal(r)
  <2>1. kind' = [kind EXCEPT ![q] = k] /\ ran' = ran /\ kind[q] = "free"
    BY <1>4 DEF Starts
  <2>. QED
    BY <1>1, <1>2, <2>1 DEF RanGoal
<1>5. CASE Frees
  <2>1. /\ kind' = [kind EXCEPT ![frame[Owner].rec] = "free"]
        /\ ran' = [ran EXCEPT ![frame[Owner].rec] = 0] /\ frame'[Owner] = NoCall
    BY <1>5 DEF Frees, Dealloc
  <2>. QED
    BY <1>1, <1>2, <2>1 DEF RanGoal
<1>6. CASE FireHandlerNow(Owner) /\ frame[Owner].rec \in Record
  <2>1. /\ frame[Owner].op \in Adding /\ Unlinked(frame[Owner]) /\ frame[Owner].pc = "fire"
    BY <1>1, <1>6 DEF FireHandlerNow, At, FrameOk, PcsOf, Adding, Unlinked
  <2>2. /\ ran[frame[Owner].rec] = 0 /\ status.cancelled /\ kind[frame[Owner].rec] = "cancel"
    BY <1>1, <2>1 DEF OnceInv
  <2>3. kind' = kind /\ ran' = [ran EXCEPT ![frame[Owner].rec] = @ + 1]
    BY <1>6 DEF FireHandlerNow
  <2>4. CASE r = frame[Owner].rec
    BY <1>1, <1>6, <2>2, <2>3, <2>4 DEF RanGoal
  <2>5. CASE r # frame[Owner].rec
    BY <1>1, <1>2, <2>3, <2>5 DEF RanGoal
  <2>. QED
    BY <2>4, <2>5
<1>7. ASSUME NEW t \in Thread, WalkHandler(t)
      PROVE  RanGoal(r)
  <2>. DEFINE q == frame[t].cur
  <2>1. /\ frame[t].op = "cancel" /\ frame[t].pc = "fn" /\ ~frame[t].nested
        /\ q # Null /\ kind[q] = "cancel" /\ kind' = kind
        /\ ran' = [ran EXCEPT ![q] = @ + 1]
    BY <1>7 DEF WalkHandler, Walking, At
  <2>2. q \in Linked /\ q \in Ahead(t) /\ q \in Record
    <3>1. q \in Linked
      BY <1>1, <2>1 DEF WalkInv
    <3>. QED
      BY <1>1, <2>1, <3>1, Behind DEF Ahead, Place
  <2>3. ran[q] = 0 /\ status.cancelled
    BY <1>1, <2>1, <2>2 DEF OnceInv
  <2>4. CASE r = q
    BY <1>1, <1>7, <2>1, <2>2, <2>3, <2>4 DEF RanGoal
  <2>5. CASE r # q
    BY <1>1, <1>2, <2>1, <2>2, <2>5 DEF RanGoal
  <2>. QED
    BY <2>4, <2>5
<1>8. CASE Publishes \/ Groups \/ UNCHANGED contents
           \/ \E t \in Thread : UpdateResume(t) \/ WalkCancel(t) \/ WalkEscalate(t)
  <2>1. UNCHANGED <<kind, ran>>
    BY <1>8
    DEF Publishes, Groups, contents, FnAttach, FnDetach, FnCancelAll, CancelAll,
        UpdateResume, WalkCancel, WalkEscalate
  <2>. QED
    BY <1>3, <2>1
<1>. QED
  BY <1>4, <1>5, <1>6, <1>7, <1>8, EffectStep DEF Effect

\* A handler runs once.
LEMMA OnceStep ==
  ASSUME IInv, Next
  PROVE  OnceInv'
<1>. DEFINE f == frame[Owner]
            g == frame'[Owner]
<1>1. /\ TypeOK /\ FrameInv /\ ScopeInv /\ LinkInv /\ WalkInv /\ OnceInv /\ ListIs
      /\ AddingGoal /\ Owner \in Thread
      /\ kind \in [Record -> Kinds] /\ ran \in [Record -> Nat]
  BY ListFacts, CallStep DEF IInv, TypeOK, Thread
<1>2. /\ \A t \in Thread : PlaceGoal(t) /\ AheadGoal(t)
      /\ \A r \in Record : RanGoal(r)
      /\ \A t \in Thread : Ahead(t) \subseteq Linked
      /\ Linked \subseteq Record
      /\ \A r \in Linked : r \notin ChainFrom(parent, parent[r])
  BY <1>1, PlaceStep, AheadStep, RanStep, AheadIsLinked, Behind
<1>3. status.cancelled => status'.cancelled
  <2>1. status \in Status
    BY <1>1 DEF TypeOK
  <2>. QED
    BY <2>1, StatusStep DEF Status
<1>4. ASSUME NEW t \in Thread, Cancel(t)
      PROVE  /\ status'.cancelled /\ ~status.cancelled
             /\ \A u \in Thread : u # t => frame'[u] = frame[u]
  BY <1>1, <1>4 DEF Cancel, TypeOK, Status
<1>5. \A r \in Record : /\ ran'[r] <= 1
                        /\ ~status'.cancelled => ran'[r] = 0
                        /\ kind'[r] # "cancel" => ran'[r] = 0
  BY <1>1, <1>2, <1>3 DEF RanGoal, OnceInv
<1>6. ASSUME NEW t \in Thread, frame'[t].op = "cancel"
      PROVE  /\ status'.cancelled
             /\ \A u \in Thread : frame'[u].op = "cancel" => u = t
             /\ \A r \in Ahead(t)' : ran'[r] = 0
  <2>1. CASE Cancel(t)
    <3>1. \A u \in Thread : frame[u].op # "cancel"
      BY <1>1, <1>4, <2>1 DEF OnceInv
    <3>2. \A r \in Ahead(t)' : r \in Record
      <4>1. Ahead(t)' \subseteq Linked'
        BY <1>2 DEF AheadGoal
      <4>. QED
        BY <4>1 DEF Linked, ChainFrom
    <3>3. \A r \in Record : ran'[r] = 0
      BY <1>1, <1>2, <1>4, <2>1 DEF OnceInv, RanGoal
    <3>. QED
      BY <1>4, <2>1, <3>1, <3>2, <3>3
  <2>2. CASE ~Cancel(t)
    <3>1. frame[t].op = "cancel" /\ status.cancelled
      BY <1>1, <1>2, <1>6, <2>2 DEF PlaceGoal, OnceInv
    <3>2. \A u \in Thread : frame'[u].op = "cancel" => u = t
      BY <1>1, <1>2, <1>4, <3>1 DEF PlaceGoal, OnceInv
    <3>3. ASSUME NEW r \in Ahead(t)'
          PROVE  ran'[r] = 0
      <4>1. ~\E p \in JobPriority : Escalate(t, p)
        <5>1. FrameOk(t, frame[t])
          BY <1>1 DEF FrameInv
        <5>2. frame[t].pc # "idle"
          BY <3>1, <5>1 DEF FrameOk, NoCall
        <5>. QED
          BY <5>2 DEF Escalate, Idle
      <4>2. r \in Ahead(t) \/ r \in Linked' \ Linked
        BY <1>2, <2>2, <3>3, <4>1 DEF AheadGoal
      <4>3. CASE r \in Ahead(t)
        <5>1. ran[r] = 0 /\ r \in Linked /\ r \in Record
          BY <1>1, <1>2, <3>1, <4>3 DEF OnceInv
        <5>2. ~(FireHandlerNow(Owner) /\ f.rec = r)
          <6>1. FireHandlerNow(Owner) => Unlinked(f)
            BY <1>1 DEF FireHandlerNow, At, FrameInv, FrameOk, PcsOf, Unlinked, Adding
          <6>. QED
            BY <1>1, <5>1, <6>1 DEF ListIs
        <5>3. ASSUME NEW u \in Thread, WalkHandler(u), frame[u].cur = r
              PROVE  FALSE
          <6>1. frame[u].op = "cancel" /\ frame[u].pc = "fn" /\ ~frame[u].nested
            BY <5>3 DEF WalkHandler, Walking, At
          <6>2. u = t
            BY <1>1, <3>1, <6>1 DEF OnceInv
          <6>3. parent' = parent /\ Goto(t, "next")
            BY <5>3, <6>2 DEF WalkHandler
          <6>4. frame'[t].op = "cancel" /\ frame'[t].pc = "next" /\ frame'[t].cur = r
            BY <1>1, <5>3, <6>1, <6>2, <6>3 DEF Goto, TypeOK, Frame
          <6>5. Ahead(t)' = ChainFrom(parent', parent'[r])
            BY <6>4 DEF Ahead, Place
          <6>. QED
            BY <1>2, <3>3, <5>1, <6>3, <6>5
        <5>. QED
          BY <1>2, <5>1, <5>2, <5>3 DEF RanGoal
      <4>4. CASE r \in Linked' \ Linked
        <5>1. ListGains /\ r = f.rec
          BY <4>4, ListChanges DEF ListKept, ListGains, ListLoses, Links, Unlinks
        <5>2. /\ f.op \in Adding /\ f.pc \in {"add", "update"} /\ ran' = ran /\ Unlinked(f)
          BY <5>1 DEF ListGains, Publishes
        <5>. QED
          BY <1>1, <5>1, <5>2 DEF OnceInv
      <4>. QED
        BY <4>2, <4>3, <4>4
    <3>. QED
      BY <1>3, <3>1, <3>2, <3>3
  <2>. QED
    BY <2>1, <2>2
<1>7. ASSUME g.op \in Adding, Unlinked(g)
      PROVE  /\ g.pc # "fired" => ran'[g.rec] = 0
             /\ g.pc \in {"unlock", "fire", "fired"} =>
                  status'.cancelled /\ kind'[g.rec] = "cancel"
  <2>1. g.rec \in Record
    <3>1. ScopeInv' /\ TypeOK'
      BY Basics
    <3>. QED
      BY <1>1, <1>7, <3>1 DEF ScopeInv, ScopeOk, TypeOK, Frame
  <2>2. CASE g.pc = "add" /\ kind[g.rec] = "free"
    BY <1>1, <1>2, <2>1, <2>2 DEF OnceInv, RanGoal
  <2>3. CASE /\ f.op \in Adding /\ Unlinked(f) /\ g.rec = f.rec
             /\ f.pc = "fired" => g.pc = "fired"
             /\ g.pc \in {"unlock", "fire", "fired"} =>
                  \/ f.pc \in {"unlock", "fire", "fired"}
                  \/ status.cancelled /\ kind[g.rec] = "cancel"
    <3>1. g # NoCall /\ f.rec \notin Linked
      BY <1>1, <1>7, <2>3 DEF NoCall, Adding, ListIs
    <3>2. \A t \in Thread : ~(WalkHandler(t) /\ frame[t].cur = f.rec)
      <4>1. ASSUME NEW t \in Thread, WalkHandler(t)
            PROVE  frame[t].cur \in Linked
        BY <1>1, <4>1 DEF WalkHandler, Walking, At, WalkInv
      <4>. QED
        BY <3>1, <4>1
    <3>3. FireHandlerNow(Owner) => g.pc = "fired"
      BY <1>1 DEF FireHandlerNow, Goto, TypeOK, Frame
    <3>4. g.pc # "fired" => ran'[g.rec] = 0
      BY <1>1, <1>2, <2>1, <2>3, <3>2, <3>3 DEF OnceInv, RanGoal
    <3>5. g.pc \in {"unlock", "fire", "fired"} => status.cancelled /\ kind[g.rec] = "cancel"
      BY <1>1, <2>3 DEF OnceInv
    <3>6. RanGoal(g.rec)
      BY <1>2, <2>1
    <3>. QED
      BY <1>3, <3>1, <3>4, <3>5, <3>6 DEF RanGoal
  <2>. QED
    BY <1>1, <1>7, <2>2, <2>3 DEF AddingGoal
<1>. QED
  BY <1>5, <1>6, <1>7 DEF OnceInv

-----------------------------------------------------------------------------
(* Which record a child belongs to *)

\* What a step does to the children of the records
KidsGoal ==
  LET f == frame[Owner]
  IN \/ UNCHANGED <<kind, children>>
     \/ \E r \in Record, k \in Kinds, kids \in SUBSET Child : Starts(r, k, kids)
     \/ Frees
     \/ /\ FnAttach(Owner) /\ f.op = "attach" /\ f.pc = "fn" /\ f.rec \in Record
        /\ kind[f.rec] = "group" /\ f.kid \in Child /\ frame'[Owner].pc = "update"
        /\ UNCHANGED kind /\ children' = [children EXCEPT ![f.rec] = @ \cup {f.kid}]
     \/ /\ FnDetach(Owner) /\ f.op = "detach" /\ f.pc = "fn" /\ f.rec \in Record
        /\ kind[f.rec] = "group" /\ f.kid \in Child /\ frame'[Owner].pc = "update"
        /\ UNCHANGED kind /\ children' = [children EXCEPT ![f.rec] = @ \ {f.kid}]
     \/ \E t \in Thread, r \in Record :
          /\ UpdateResume(t) /\ kind[r] = "dependency" /\ UNCHANGED kind
          /\ children' = [children EXCEPT ![r] = {}]
          /\ child' = ChildrenWithout(r)

\* How a step changes the children of a record
LEMMA KidsStep ==
  ASSUME IInv, Next
  PROVE  KidsGoal
<1>. DEFINE f == frame[Owner]
<1>1. /\ TypeOK /\ FrameInv /\ ScopeInv /\ ChildInv /\ frame \in [Thread -> Frame]
      /\ Owner \in Thread /\ FrameOk(Owner, f) /\ f \in Frame
  BY DEF IInv, TypeOK, Thread, FrameInv
<1>2. f.op \in InGroup => f.rec \in Record /\ kind[f.rec] = "group"
  BY <1>1 DEF ScopeInv, ScopeOk, KindOf, InGroup, Frame
<1>3. CASE FnAttach(Owner)
  <2>1. f.op = "attach" /\ f.pc = "fn" /\ frame'[Owner].pc = "update"
    BY <1>1, <1>3 DEF FnAttach, Op, At, FrameOk, Goto, Frame
  <2>2. f.kid \in Child
    BY <1>1, <2>1 DEF ChildInv, Frame
  <2>3. UNCHANGED kind /\ children' = [children EXCEPT ![f.rec] = @ \cup {f.kid}]
    BY <1>3 DEF FnAttach
  <2>. QED
    BY <1>2, <1>3, <2>1, <2>2, <2>3 DEF KidsGoal, InGroup
<1>4. CASE FnDetach(Owner)
  <2>1. f.op = "detach" /\ f.pc = "fn" /\ frame'[Owner].pc = "update"
    BY <1>1, <1>4 DEF FnDetach, Op, At, FrameOk, Goto, Frame
  <2>2. f.kid \in Child
    BY <1>1, <2>1 DEF ChildInv, Frame
  <2>3. UNCHANGED kind /\ children' = [children EXCEPT ![f.rec] = @ \ {f.kid}]
    BY <1>4 DEF FnDetach
  <2>. QED
    BY <1>2, <1>4, <2>1, <2>2, <2>3 DEF KidsGoal, InGroup
<1>5. ASSUME NEW t \in Thread, UpdateResume(t)
      PROVE  KidsGoal
  BY <1>5 DEF UpdateResume, KidsGoal
<1>6. CASE \/ UNCHANGED contents \/ Publishes \/ FireHandlerNow(Owner)
           \/ FnCancelAll(Owner) \/ (\E r \in Record : CancelAll(r))
           \/ \E t \in Thread : WalkCancel(t) \/ WalkHandler(t) \/ WalkEscalate(t)
  <2>1. UNCHANGED <<kind, children>>
    BY <1>6
    DEF contents, Publishes, FireHandlerNow, FnCancelAll, CancelAll, WalkCancel, WalkHandler,
        WalkEscalate
  <2>. QED
    BY <2>1 DEF KidsGoal
<1>7. CASE Frees \/ \E r \in Record, k \in Kinds, kids \in SUBSET Child : Starts(r, k, kids)
  BY <1>7 DEF KidsGoal
<1>. QED
  BY <1>3, <1>4, <1>5, <1>6, <1>7, EffectStep DEF Effect, Groups

\* A child has one record, besides that of the task that waits for it.
OneRecord ==
  \A r, q \in Record : \A c \in children[r] \cap children[q] :
    r # q => kind[r] = "dependency" \/ kind[q] = "dependency"

KindHasChildren ==
  \A r \in Record : children[r] # {} => kind[r] \in {"child", "group", "dependency"}

\* A child belongs to one record.
LEMMA ChildStep ==
  ASSUME IInv, Next
  PROVE  ChildInv'
<1>. DEFINE f == frame[Owner]
            g == frame'[Owner]
<1>1. /\ TypeOK /\ ScopeInv /\ ChildInv /\ GroupGoal /\ KidsGoal
      /\ kind \in [Record -> Kinds] /\ children \in [Record -> SUBSET Child]
      /\ OneRecord /\ KindHasChildren
  BY KidsStep, CallStep DEF IInv, TypeOK, ChildInv, OneRecord, KindHasChildren
<1>2. OneRecord' /\ KindHasChildren'
  <2>1. CASE UNCHANGED <<kind, children>>
    BY <1>1, <2>1 DEF OneRecord, KindHasChildren
  <2>2. ASSUME NEW r \in Record, NEW k \in Kinds, NEW kids \in SUBSET Child,
               Starts(r, k, kids)
        PROVE  OneRecord' /\ KindHasChildren'
    <3>1. /\ kind' = [kind EXCEPT ![r] = k] /\ children' = [children EXCEPT ![r] = kids]
          /\ kids # {} => \/ k = "dependency"
                          \/ k = "child" /\ \E c \in kids : kids = {c} /\ NewChildOf(c)
      BY <2>2 DEF Starts
    <3>2. /\ kind'[r] = k /\ children'[r] = kids
          /\ \A q \in Record : q # r => kind'[q] = kind[q] /\ children'[q] = children[q]
      BY <1>1, <3>1
    <3>3. k # "dependency" => \A c \in kids, q \in Record : c \notin children[q]
      BY <3>1 DEF NewChildOf
    <3>4. KindHasChildren'
      BY <1>1, <3>1, <3>2 DEF KindHasChildren
    <3>5. ASSUME NEW p \in Record, NEW q \in Record, NEW c \in children'[p] \cap children'[q],
                 p # q
          PROVE  kind'[p] = "dependency" \/ kind'[q] = "dependency"
      BY <1>1, <3>2, <3>3, <3>5 DEF OneRecord
    <3>. QED
      BY <3>4, <3>5 DEF OneRecord
  <2>3. CASE Frees
    <3>1. /\ kind' = [kind EXCEPT ![f.rec] = "free"]
          /\ children' = [children EXCEPT ![f.rec] = {}]
      BY <2>3 DEF Frees, Dealloc
    <3>. QED
      BY <1>1, <3>1 DEF OneRecord, KindHasChildren
  <2>4. CASE /\ f.op = "attach" /\ f.pc = "fn" /\ f.rec \in Record
             /\ kind[f.rec] = "group" /\ f.kid \in Child
             /\ UNCHANGED kind /\ children' = [children EXCEPT ![f.rec] = @ \cup {f.kid}]
    <3>1. \A q \in Record : f.kid \notin children[q]
      BY <1>1, <2>4 DEF ChildInv
    <3>2. /\ children'[f.rec] = children[f.rec] \cup {f.kid}
          /\ \A q \in Record : q # f.rec => children'[q] = children[q]
      BY <1>1, <2>4
    <3>3. KindHasChildren'
      BY <1>1, <2>4, <3>2 DEF KindHasChildren
    <3>4. ASSUME NEW p \in Record, NEW q \in Record, NEW c \in children'[p] \cap children'[q],
                 p # q
          PROVE  kind[p] = "dependency" \/ kind[q] = "dependency"
      BY <1>1, <3>1, <3>2, <3>4 DEF OneRecord
    <3>. QED
      BY <2>4, <3>3, <3>4 DEF OneRecord
  <2>5. ASSUME \A q \in Record : children'[q] \subseteq children[q], UNCHANGED kind
        PROVE  OneRecord' /\ KindHasChildren'
    BY <1>1, <2>5 DEF OneRecord, KindHasChildren
  <2>. QED
    BY <1>1, <2>1, <2>2, <2>3, <2>4, <2>5 DEF KidsGoal
<1>3. CASE g.op \notin {"attach", "detach"}
  BY <1>2, <1>3 DEF ChildInv, OneRecord, KindHasChildren
<1>4. CASE /\ g.op \in {"attach", "detach"}
           /\ g.op = f.op /\ g.rec = f.rec /\ g.kid = f.kid /\ (InWindow(g) => InWindow(f))
  <2>1. g.kid # Null
    BY <1>1, <1>4 DEF ChildInv
  <2>2. ASSUME InWindow(g)
        PROVE  /\ f.op = "attach" => \A r \in Record : f.kid \notin children'[r]
               /\ f.op = "detach" => f.kid \in children'[f.rec]
    <3>1. /\ f.op = "attach" => \A r \in Record : f.kid \notin children[r]
          /\ f.op = "detach" => f.kid \in children[f.rec]
          /\ f.rec \in Record /\ kind[f.rec] = "group"
      <4>1. f.pc \in {"lock", "setbit", "fn"} /\ f.op \in InGroup
        BY <1>4, <2>2 DEF InWindow
      <4>2. f.rec \in Record /\ kind[f.rec] = "group"
        <5>1. f \in Frame
          BY <1>1 DEF TypeOK, Thread
        <5>. QED
          BY <1>1, <4>1, <5>1 DEF ScopeInv, ScopeOk, KindOf, InGroup, Frame
      <4>. QED
        BY <1>1, <4>1, <4>2 DEF ChildInv
    <3>2. g.pc \notin {"update", "add"} /\ g # NoCall
      BY <1>4, <2>2 DEF InWindow, NoCall
    <3>3. \A r \in Record, k \in Kinds, kids \in SUBSET Child : ~Starts(r, k, kids)
      BY <3>2 DEF Starts
    <3>4. ~Frees
      BY <3>2 DEF Frees
    <3>5. CASE UNCHANGED children
      BY <3>1, <3>5
    <3>6. ASSUME NEW r \in Record, kind[r] = "dependency",
                 children' = [children EXCEPT ![r] = {}]
          PROVE  /\ \A q \in Record : children'[q] \subseteq children[q]
                 /\ children'[f.rec] = children[f.rec]
      BY <1>1, <3>1, <3>6
    <3>. QED
      BY <1>1, <3>1, <3>2, <3>3, <3>4, <3>5, <3>6 DEF KidsGoal
  <2>. QED
    BY <1>2, <1>4, <2>1, <2>2 DEF ChildInv, OneRecord, KindHasChildren, InWindow, InGroup
<1>5. ASSUME NEW r \in Record, NEW c \in Child, g.rec = r, g.kid = c, UNCHANGED contents,
             \/ g.op = "attach" /\ NewChildOf(c)
             \/ g.op = "detach" /\ c \in children[r]
      PROVE  ChildInv'
  <2>1. c # Null /\ children' = children
    BY <1>5, TaskAssumption DEF contents
  <2>. QED
    BY <1>2, <1>5, <2>1 DEF ChildInv, OneRecord, KindHasChildren, NewChildOf
<1>. QED
  BY <1>1, <1>3, <1>4, <1>5 DEF GroupGoal, InGroup

-----------------------------------------------------------------------------
(* Cancellation reaches everything the task has *)

\* What a new record's children are told
LEMMA PublishTells ==
  ASSUME TypeOK, Publishes
  PROVE  LET r == frame[Owner].rec
         IN /\ r \in Record /\ UNCHANGED <<kind, children, ran>>
            /\ isCancelled' =
                 [isCancelled EXCEPT ![r] = kind[r] = "group" /\ status.cancelled]
            /\ ~(kind[r] = "cancel" /\ status.cancelled)
            /\ \A c \in Child \ children[r] : child'[c] = child[c]
            /\ \A c \in children[r] :
                 child'[c] = IF kind[r] = "dependency"
                             THEN Escalated(child[c], status.priority)
                             ELSE [cancelled |-> status.cancelled,
                                   priority  |->
                                     withUserInteractivePriorityDowngrade(status.priority)]
<1>. DEFINE r == frame[Owner].rec
<1>1. PICK s : /\ Emplace(Owner, s) /\ shouldAddRecord(Owner, s)
               /\ s.cancelled = status.cancelled /\ s.priority = status.priority
  BY DEF Publishes
<1>2. r \in Record /\ UNCHANGED <<kind, children, ran>> /\ children[r] \subseteq Child
  BY DEF Publishes, TypeOK
<1>3. \A c \in Child :
        child'[c] = IF c \notin children[r] THEN child[c]
                    ELSE IF kind[r] = "dependency" THEN Escalated(child[c], s.priority)
                    ELSE updateNewChild(s, FALSE)
  BY <1>1 DEF Emplace
<1>4. updateNewChild(s, FALSE) =
        [cancelled |-> status.cancelled,
         priority  |-> withUserInteractivePriorityDowngrade(status.priority)]
  <2>1. status.cancelled \in BOOLEAN
    BY DEF TypeOK, Status
  <2>. QED
    BY <1>1, <2>1 DEF updateNewChild
<1>5. isCancelled' = [isCancelled EXCEPT ![r] = kind[r] = "group" /\ status.cancelled]
  BY <1>1 DEF Emplace
<1>6. ~(kind[r] = "cancel" /\ status.cancelled)
  BY <1>1 DEF shouldAddRecord
<1>. QED
  BY <1>1, <1>2, <1>3, <1>4, <1>5, <1>6

\* What happens to the children of a record that the step is not about
LEMMA OthersKeep ==
  ASSUME TypeOK, NEW r \in Record, NEW q \in Record, q # r, child' = ChildrenWithout(q),
         children' = [children EXCEPT ![q] = {}]
  PROVE  children'[r] = children[r] /\ \A c \in children[r] : child'[c] = child[c]
<1>1. children'[r] = children[r] /\ children[r] \subseteq Child
  BY DEF TypeOK
<1>. QED
  BY <1>1 DEF ChildrenWithout

\* Children that are cancelled stay so.
LEMMA CancelledKept ==
  ASSUME IInv, Next, NEW r \in Record, kind[r] \notin {"free", "dependency"}, AllCancelled(r)
  PROVE  \/ AllCancelled(r)'
         \/ Publishes /\ r = frame[Owner].rec
         \/ FnAttach(Owner) /\ r = frame[Owner].rec
<1>. DEFINE f == frame[Owner]
<1>1. /\ TypeOK /\ ChildInv /\ KidsGoal /\ children \in [Record -> SUBSET Child]
      /\ child \in [Child -> [cancelled: BOOLEAN, priority: JobPriority \cup {UserInitiated}]]
      /\ children[r] \subseteq Child
  BY KidsStep DEF IInv, TypeOK
<1>2. ASSUME children'[r] \subseteq children[r],
             \A c \in children'[r] : child'[c].cancelled = child[c].cancelled
      PROVE  AllCancelled(r)'
  BY <1>2 DEF AllCancelled
<1>3. CASE UNCHANGED contents \/ FireHandlerNow(Owner) \/ \E q \in Record : CancelAll(q)
  BY <1>2, <1>3 DEF contents, FireHandlerNow, CancelAll
<1>4. ASSUME NEW q \in Record, NEW k \in Kinds, NEW kids \in SUBSET Child, Starts(q, k, kids)
      PROVE  AllCancelled(r)'
  BY <1>1, <1>2, <1>4 DEF Starts
<1>5. CASE Publishes /\ r # f.rec
  <2>1. /\ f.rec \in Record /\ children' = children
        /\ \A c \in Child \ children[f.rec] : child'[c] = child[c]
        /\ \A c \in children[f.rec] :
             kind[f.rec] = "dependency" => child'[c] = Escalated(child[c], status.priority)
    BY <1>1, <1>5, PublishTells
  <2>2. ASSUME NEW c \in children[r]
        PROVE  child'[c].cancelled = child[c].cancelled
    <3>1. CASE c \in children[f.rec]
      <4>1. kind[f.rec] = "dependency"
        BY <1>1, <1>5, <2>1, <3>1 DEF ChildInv
      <4>2. /\ child'[c] = [child[c] EXCEPT !.priority = Higher(@, status.priority)]
            /\ child[c] \in [cancelled: BOOLEAN, priority: JobPriority \cup {UserInitiated}]
        BY <1>1, <2>1, <3>1, <4>1 DEF Escalated
      <4>. QED
        BY <4>2
    <3>2. CASE c \notin children[f.rec]
      BY <1>1, <2>1, <3>2
    <3>. QED
      BY <3>1, <3>2
  <2>. QED
    BY <1>2, <2>1, <2>2
<1>6. CASE Frees
  <2>1. CASE r = f.rec
    BY <1>1, <1>6, <2>1 DEF Frees, Dealloc, AllCancelled
  <2>2. CASE r # f.rec
    BY <1>1, <1>2, <1>6, <2>2, OthersKeep DEF Frees, Dealloc
  <2>. QED
    BY <2>1, <2>2
<1>7. CASE FnAttach(Owner) /\ r # f.rec
  <2>1. /\ children'[r] = children[r] /\ f.kid \notin children[r]
        /\ child' = [child EXCEPT ![f.kid] = updateNewChild(f.old, isCancelled[f.rec])]
    <3>1. f.op = "attach" /\ f.pc = "fn"
      <4>1. FrameOk(Owner, f)
        BY DEF IInv, FrameInv, Thread
      <4>. QED
        BY <1>7, <4>1 DEF FnAttach, Op, At, FrameOk
    <3>. QED
      BY <1>1, <1>7, <3>1 DEF FnAttach, ChildInv
  <2>. QED
    BY <1>1, <1>2, <2>1
<1>8. CASE FnDetach(Owner)
  <2>1. /\ f.op = "detach" /\ f.pc = "fn" /\ f.rec \in Record /\ kind[f.rec] = "group"
        /\ f.kid \in Child
        /\ children' = [children EXCEPT ![f.rec] = @ \ {f.kid}]
        /\ child' = [child EXCEPT ![f.kid] = NewChild]
    <3>1. FrameOk(Owner, f) /\ Owner \in Thread /\ ScopeInv /\ f \in Frame
      BY <1>1 DEF IInv, FrameInv, Thread, TypeOK
    <3>2. f.op = "detach" /\ f.pc = "fn"
      BY <1>8, <3>1 DEF FnDetach, Op, At, FrameOk
    <3>3. f.rec \in Record /\ kind[f.rec] = "group" /\ f.kid \in Child
      BY <1>1, <3>1, <3>2 DEF ScopeInv, ScopeOk, KindOf, InGroup, Frame, ChildInv
    <3>. QED
      BY <1>8, <3>2, <3>3 DEF FnDetach
  <2>2. f.kid \in children[f.rec]
    BY <1>1, <2>1 DEF ChildInv
  <2>3. f.kid \notin children'[r]
    BY <1>1, <2>1, <2>2 DEF ChildInv
  <2>4. children'[r] \subseteq children[r]
    BY <1>1, <2>1
  <2>. QED
    BY <1>1, <1>2, <2>1, <2>3, <2>4
<1>9. ASSUME children' = children,
             \E kids : CancelChildren(kids)
      PROVE  AllCancelled(r)'
  <2>1. PICK kids : CancelChildren(kids)
    BY <1>9
  <2>2. \A c \in children[r] : child[c].cancelled => child'[c].cancelled
    BY <1>1, <2>1 DEF CancelChildren
  <2>. QED
    BY <1>9, <2>2 DEF AllCancelled
<1>10. CASE FnCancelAll(Owner)
  BY <1>9, <1>10 DEF FnCancelAll
<1>11. ASSUME NEW t \in Thread,
              UpdateResume(t) \/ WalkCancel(t) \/ WalkHandler(t) \/ WalkEscalate(t)
       PROVE  AllCancelled(r)'
  <2>1. CASE UpdateResume(t)
    <3>1. PICK q \in Record : /\ kind[q] = "dependency"
                              /\ children' = [children EXCEPT ![q] = {}]
                              /\ child' = ChildrenWithout(q)
      BY <2>1 DEF UpdateResume
    <3>. QED
      BY <1>1, <1>2, <3>1, OthersKeep
  <2>2. CASE WalkCancel(t)
    BY <1>9, <2>2 DEF WalkCancel
  <2>3. CASE WalkHandler(t)
    BY <1>2, <2>3 DEF WalkHandler
  <2>4. CASE WalkEscalate(t)
    <3>1. children' = children /\ \A c \in Child : child'[c].cancelled = child[c].cancelled
      BY <1>1, <2>4 DEF WalkEscalate, Escalated
    <3>. QED
      BY <1>1, <1>2, <3>1
  <2>. QED
    BY <1>11, <2>1, <2>2, <2>3, <2>4
<1>. QED
  BY <1>3, <1>4, <1>5, <1>6, <1>7, <1>8, <1>10, <1>11, EffectStep DEF Effect, Groups

\* A walk that has not begun does not begin while the task works on a group's children.
LEMMA AttachWaits ==
  ASSUME IInv, Next, frame'[Owner].op = "attach", frame'[Owner].pc = "fn"
  PROVE  /\ frame[Owner].op = "attach"
         /\ \/ frame[Owner].pc = "fn" /\ frame'[Owner].old = frame[Owner].old
            \/ frame'[Owner].old = Load(status')
         /\ status.record # Null
         /\ \A t \in Thread :
              frame[t].op \in Walkers /\ frame[t].pc = "lock" /\ ~frame[t].nested =>
                /\ frame'[t].op = frame[t].op /\ frame'[t].prio = frame[t].prio
                /\ frame'[t].pc = "lock" /\ ~frame'[t].nested
<1>. DEFINE f == frame[Owner]
            g == frame'[Owner]
<1>1. /\ TypeOK /\ ScopeInv /\ LinkInv /\ FrameInv /\ ListIs /\ GroupGoal
      /\ MutexInv' /\ FrameInv' /\ Owner \in Thread /\ f \in Frame
  BY Basics, CallStep, ListFacts DEF IInv, TypeOK, Thread
<1>2. InWindow(g)
  BY DEF InWindow, InGroup
<1>3. /\ f.op = "attach"
      /\ \/ f.pc = "fn" /\ g.old = f.old
         \/ g.old = Load(status')
  BY <1>1, <1>2 DEF GroupGoal, InGroup
<1>4. status.record # Null
  <2>1. f.rec \in Record /\ kind[f.rec] = "group"
    BY <1>1, <1>3 DEF ScopeInv, ScopeOk, KindOf, InGroup, Frame
  <2>2. f.rec \in Linked
    BY <1>1, <1>3, <2>1 DEF ListIs, Unlinked, Adding, Removing
  <2>. QED
    BY <1>1, <2>2, Behind
<1>5. ASSUME NEW t \in Thread, frame[t].op \in Walkers, frame[t].pc = "lock",
             ~frame[t].nested
      PROVE  /\ frame'[t].op = frame[t].op /\ frame'[t].prio = frame[t].prio
             /\ frame'[t].pc = "lock" /\ ~frame'[t].nested
  <2>1. Place(frame[t]) = "before"
    BY <1>5 DEF Place, Walkers
  <2>2. /\ frame'[t].op = frame[t].op /\ frame'[t].prio = frame[t].prio
        /\ Place(frame'[t]) \in {"before", "at"}
    BY <2>1, PlaceStep DEF PlaceGoal, SamePlace
  <2>3. ~frame'[t].nested /\ frame'[t].pc \in {"lock", "setbit", "fn"}
    BY <1>5, <2>2 DEF Place, Walkers
  <2>4. Depth(g) # 0 /\ (frame'[t].pc # "lock" => Depth(frame'[t]) # 0)
    <3>1. ~g.nested
      BY <1>1 DEF FrameInv, FrameOk
    <3>. QED
      BY <2>3, <3>1 DEF Depth
  <2>5. t # Owner
    BY <1>3, <1>5 DEF Walkers
  <2>. QED
    BY <1>1, <2>2, <2>3, <2>4, <2>5 DEF MutexInv
<1>. QED
  BY <1>3, <1>4, <1>5

\* The window in which the group's bit is set and its children have not been told yet
LEMMA GroupCancelStep ==
  ASSUME IInv, Next, NEW r \in Record, isCancelled'[r]
  PROVE  /\ kind'[r] = "group"
         /\ \/ /\ frame'[Owner].op = "cancelAll" /\ frame'[Owner].rec = r
               /\ frame'[Owner].pc \in {"lock", "setbit", "fn"}
            \/ AllCancelled(r)'
<1>. DEFINE f == frame[Owner]
            g == frame'[Owner]
            Window(h) == h.op = "cancelAll" /\ h.rec = r /\ h.pc \in {"lock", "setbit", "fn"}
<1>1. /\ TypeOK /\ FrameInv /\ ScopeInv /\ CancelInv /\ ChildInv /\ GroupGoal /\ FrameOk(Owner, f)
      /\ kind \in [Record -> Kinds] /\ children \in [Record -> SUBSET Child]
      /\ isCancelled \in [Record -> BOOLEAN] /\ Owner \in Thread
      /\ child \in [Child -> [cancelled: BOOLEAN, priority: JobPriority \cup {UserInitiated}]]
      /\ frame \in [Thread -> Frame] /\ f \in Frame /\ status \in Status
  BY CallStep DEF IInv, TypeOK, Thread, FrameInv
<1>2. Publishes /\ r = f.rec => kind'[r] = "group" /\ AllCancelled(r)'
  <2>1. SUFFICES ASSUME Publishes, r = f.rec
                 PROVE  kind'[r] = "group" /\ AllCancelled(r)'
    OBVIOUS
  <2>2. /\ isCancelled' = [isCancelled EXCEPT ![r] = kind[r] = "group" /\ status.cancelled]
        /\ kind' = kind /\ children' = children
        /\ \A c \in children[r] :
             child'[c] = IF kind[r] = "dependency"
                         THEN Escalated(child[c], status.priority)
                         ELSE [cancelled |-> status.cancelled,
                               priority  |->
                                 withUserInteractivePriorityDowngrade(status.priority)]
    BY <1>1, <2>1, PublishTells
  <2>3. kind[r] = "group" /\ status.cancelled
    BY <1>1, <2>2
  <2>. QED
    BY <2>2, <2>3 DEF AllCancelled
<1>3. ASSUME isCancelled[r]
      PROVE  kind'[r] = "group" /\ (Window(g) \/ AllCancelled(r)')
  <2>1. kind[r] = "group" /\ (Window(f) \/ AllCancelled(r))
    BY <1>1, <1>3 DEF CancelInv
  <2>2. kind'[r] = "group"
    <3>1. ~(Frees /\ r = f.rec)
      BY <1>1 DEF Frees, Dealloc
    <3>2. CASE Frees /\ r # f.rec
      BY <1>1, <2>1, <3>2 DEF Frees, Dealloc
    <3>3. CASE ~Frees
      BY <1>1, <2>1, <3>3, KidsStep DEF KidsGoal, Starts
    <3>. QED
      BY <3>1, <3>2, <3>3
  <2>3. CASE Window(f)
    <3>1. InWindow(f)
      BY <2>3 DEF InWindow, InGroup
    <3>2. ~FnAttach(Owner) /\ ~FnDetach(Owner)
      BY <2>3 DEF FnAttach, FnDetach, Op
    <3>3. CASE FnCancelAll(Owner)
      <4>1. CancelChildren(children[r]) /\ children' = children
        BY <2>3, <3>3 DEF FnCancelAll
      <4>2. AllCancelled(r)'
        BY <1>1, <4>1 DEF AllCancelled, CancelChildren
      <4>. QED
        BY <2>2, <4>2
    <3>4. CASE InWindow(g) /\ g.op = f.op /\ g.rec = f.rec
      BY <2>2, <2>3, <3>4 DEF InWindow
    <3>. QED
      BY <1>1, <3>1, <3>2, <3>3, <3>4 DEF GroupGoal
  <2>4. CASE AllCancelled(r)
    <3>1. CASE FnAttach(Owner) /\ r = f.rec
      <4>1. f.op = "attach" /\ f.pc = "fn"
        BY <1>1, <3>1 DEF FnAttach, Op, At, FrameOk
      <4>2. f.kid \in Child
        BY <1>1, <4>1 DEF ChildInv, Frame
      <4>3. /\ children'[r] = children[r] \cup {f.kid}
            /\ child' = [child EXCEPT ![f.kid] = updateNewChild(f.old, TRUE)]
        BY <1>1, <1>3, <3>1 DEF FnAttach
      <4>4. updateNewChild(f.old, TRUE).cancelled
        BY DEF updateNewChild
      <4>5. /\ child'[f.kid] = updateNewChild(f.old, TRUE)
            /\ \A c \in children[r] : c # f.kid => child'[c] = child[c]
        BY <1>1, <4>2, <4>3
      <4>6. AllCancelled(r)'
        <5>1. ASSUME NEW c \in children'[r]
              PROVE  child'[c].cancelled
          BY <2>4, <4>3, <4>4, <4>5 DEF AllCancelled
        <5>. QED
          BY <5>1 DEF AllCancelled
      <4>. QED
        BY <2>2, <4>6
    <3>. QED
      BY <1>2, <2>1, <2>2, <2>4, <3>1, CancelledKept
  <2>. QED
    BY <2>1, <2>3, <2>4
<1>4. ASSUME ~isCancelled[r]
      PROVE  kind'[r] = "group" /\ (Window(g) \/ AllCancelled(r)')
  <2>1. CASE Publishes
    <3>1. f.rec \in Record
          /\ \E b \in BOOLEAN : isCancelled' = [isCancelled EXCEPT ![f.rec] = b]
      BY <1>1, <2>1, PublishTells
    <3>. QED
      BY <1>1, <1>2, <1>4, <2>1, <3>1
  <2>2. ASSUME NEW q \in Record, CancelAll(q)
        PROVE  kind'[r] = "group" /\ (Window(g) \/ AllCancelled(r)')
    <3>1. q = r /\ kind'[r] = "group" /\ children' = children
      BY <1>1, <1>4, <2>2 DEF CancelAll
    <3>2. CASE children[r] = {}
      BY <3>1, <3>2 DEF AllCancelled
    <3>3. CASE children[r] # {}
      <4>1. WithLock("cancelAll", r, Null)
        BY <2>2, <3>1, <3>3 DEF CancelAll
      <4>2. Window(g)
        BY <1>1, <4>1 DEF WithLock, NoCall
      <4>. QED
        BY <3>1, <4>2
    <3>. QED
      BY <3>2, <3>3
  <2>3. ASSUME NEW t \in Thread, WalkCancel(t)
        PROVE  kind'[r] = "group" /\ (Window(g) \/ AllCancelled(r)')
    <3>. DEFINE q == frame[t].cur
    <3>1. /\ kind' = kind /\ children' = children
          /\ isCancelled' = [isCancelled EXCEPT ![q] = @ \/ kind[q] = "group"]
          /\ CancelChildren(IF kind[q] = "dependency" THEN {} ELSE children[q])
      BY <2>3 DEF WalkCancel
    <3>2. q = r /\ kind[r] = "group"
      BY <1>1, <1>4, <3>1
    <3>3. CancelChildren(children[r])
      BY <3>1, <3>2
    <3>4. AllCancelled(r)'
      BY <1>1, <3>1, <3>3 DEF AllCancelled, CancelChildren
    <3>. QED
      BY <3>1, <3>2, <3>4
  <2>4. ASSUME UNCHANGED isCancelled
        PROVE  FALSE
    BY <1>4, <2>4
  <2>5. CASE \/ UNCHANGED contents \/ FireHandlerNow(Owner)
             \/ FnAttach(Owner) \/ FnDetach(Owner) \/ FnCancelAll(Owner)
             \/ \E q \in Record, k \in Kinds, kids \in SUBSET Child : Starts(q, k, kids)
             \/ \E t \in Thread : UpdateResume(t) \/ WalkHandler(t) \/ WalkEscalate(t)
    BY <2>4, <2>5
    DEF contents, FireHandlerNow, FnAttach, FnDetach, FnCancelAll, Starts, UpdateResume,
        WalkHandler, WalkEscalate
  <2>6. CASE Frees
    BY <1>1, <1>4, <2>6 DEF Frees, Dealloc
  <2>. QED
    BY <2>1, <2>2, <2>3, <2>5, <2>6, EffectStep DEF Effect, Groups
<1>. QED
  BY <1>3, <1>4

\* A step of the first walk over a record does what cancellation does.
LEMMA WalkCancels ==
  ASSUME TypeOK, ChildInv, NEW t \in Thread, WalkCancel(t) \/ WalkHandler(t),
         NEW r \in Record, r = frame[t].cur, ran[r] = 0
  PROVE  /\ kind' = kind
         /\ kind[r] = "cancel" => ran'[r] = 1
         /\ kind[r] # "dependency" => AllCancelled(r)'
<1>1. /\ children \in [Record -> SUBSET Child] /\ ran \in [Record -> Nat]
      /\ child \in [Child -> [cancelled: BOOLEAN, priority: JobPriority \cup {UserInitiated}]]
  BY DEF TypeOK
<1>2. CASE WalkCancel(t)
  <2>1. /\ kind' = kind /\ children' = children /\ kind[r] # "cancel"
        /\ CancelChildren(IF kind[r] = "dependency" THEN {} ELSE children[r])
    BY <1>2 DEF WalkCancel
  <2>2. kind[r] # "dependency" => AllCancelled(r)'
    BY <1>1, <2>1 DEF AllCancelled, CancelChildren
  <2>. QED
    BY <2>1, <2>2
<1>3. CASE WalkHandler(t)
  <2>1. /\ kind' = kind /\ children' = children /\ kind[r] = "cancel"
        /\ ran' = [ran EXCEPT ![r] = @ + 1]
    BY <1>3 DEF WalkHandler
  <2>2. children[r] = {}
    BY <2>1 DEF ChildInv
  <2>. QED
    BY <1>1, <2>1, <2>2 DEF AllCancelled
<1>. QED
  BY <1>2, <1>3

\* A thread that cancels or raises the task starts before its first record.
LEMMA WalkBegins ==
  ASSUME IInv, Next, NEW t \in Thread, status.record # Null,
         Cancel(t) \/ \E p \in JobPriority : Escalate(t, p)
  PROVE  /\ Linked' = Linked /\ Ahead(t)' = Linked
         /\ frame'[t].pc = "lock" /\ ~frame'[t].nested
         /\ Cancel(t) => frame'[t].op = "cancel"
         /\ \A p \in JobPriority : Escalate(t, p) =>
              frame'[t].op = "escalate" /\ frame'[t].prio = p
<1>1. status \in Status /\ frame \in [Thread -> Frame]
  BY DEF IInv, TypeOK
<1>2. ASSUME Cancel(t)
      PROVE  /\ status'.record = status.record
             /\ frame'[t].pc = "lock" /\ ~frame'[t].nested /\ frame'[t].op = "cancel"
  <2>1. status' = [status EXCEPT !.cancelled = TRUE]
    BY <1>2 DEF Cancel
  <2>2. status'.record = status.record /\ status'.record # Null
    BY <1>1, <2>1 DEF Status
  <2>3. PICK o : frame' = [frame EXCEPT ![t] =
                   [NoCall EXCEPT !.pc = "lock", !.op = "cancel", !.old = o]]
    BY <1>2, <2>1, <2>2 DEF Cancel
  <2>. QED
    BY <1>1, <2>2, <2>3 DEF NoCall
<1>3. ASSUME NEW p \in JobPriority, Escalate(t, p)
      PROVE  /\ status'.record = status.record
             /\ frame'[t].pc = "lock" /\ ~frame'[t].nested
             /\ frame'[t].op = "escalate" /\ frame'[t].prio = p
  <2>. DEFINE s == [status EXCEPT !.priority = p,
                      !.escalated = @ \/ status.running \/ status.enqueued]
  <2>1. status' = s
    BY <1>1, <1>3 DEF Escalate, Status
  <2>2. s.record = status.record
    BY <1>1 DEF Status
  <2>3. PICK o : frame' = [frame EXCEPT ![t] =
                   [NoCall EXCEPT !.pc = "lock", !.prio = p, !.op = "escalate", !.old = o]]
    <3>1. status'.record = status.record
      BY <2>1, <2>2
    <3>. HIDE DEF s
    <3>. QED
      BY <1>3, <3>1 DEF Escalate
  <2>. QED
    BY <1>1, <2>1, <2>2, <2>3 DEF NoCall
<1>4. Linked' = Linked
  <2>1. status'.record = status.record
    BY <1>2, <1>3
  <2>. QED
    BY <2>1, SameRecord DEF ListKept
<1>5. Place(frame'[t]) = "before"
  BY <1>2, <1>3 DEF Place
<1>. QED
  BY <1>2, <1>3, <1>4, <1>5 DEF Ahead

\* How a record comes to be, or stays, on the list
LEMMA ListedAfter ==
  ASSUME IInv, Next, NEW r \in Linked'
  PROVE  /\ r \in Record
         /\ r \in Linked => kind'[r] = kind[r] /\ kind[r] # "free"
         /\ r \notin Linked =>
              /\ Publishes /\ r = frame[Owner].rec /\ status'.record # status.record
              /\ frame[Owner].op \in Adding /\ Unlinked(frame[Owner])
<1>1. /\ TypeOK /\ FrameInv /\ ScopeInv /\ LinkInv /\ ListIs
  BY ListFacts DEF IInv
<1>2. r \in Record /\ r # Null
  BY TaskAssumption DEF Linked, ChainFrom
<1>3. r \in Linked => kind'[r] = kind[r] /\ kind[r] # "free"
  <2>1. r \in Linked => SameChain(r)
    BY ListChanges DEF ListKept, ListGains, ListLoses, Links, Unlinks
  <2>. QED
    BY <1>1, <1>2, <2>1 DEF SameChain, ListIs
<1>4. r \notin Linked => ListGains /\ r = frame[Owner].rec
  BY ListChanges DEF ListKept, ListGains, ListLoses, Links, Unlinks
<1>5. r \notin Linked => status'.record # status.record
  BY SameRecord DEF ListKept
<1>. QED
  BY <1>2, <1>3, <1>4, <1>5 DEF ListGains, Publishes

\* A cancelled task has cancelled what no canceller has ahead of it.
LEMMA CancelStep ==
  ASSUME IInv, Next
  PROVE  CancelInv'
<1>. DEFINE f == frame[Owner]
            g == frame'[Owner]
<1>1. /\ TypeOK /\ FrameInv /\ ScopeInv /\ LinkInv /\ OnceInv /\ CancelInv /\ ChildInv /\ ListIs
      /\ Owner \in Thread /\ ran \in [Record -> Nat] /\ FrameOk(Owner, f)
      /\ (\A t \in Thread : AheadGoal(t)) /\ status \in Status
  BY AheadStep, ListFacts DEF IInv, TypeOK, Thread, FrameInv
<1>2. ASSUME NEW r \in Linked', status'.cancelled,
             \A t \in Thread : frame'[t].op = "cancel" => r \notin Ahead(t)'
      PROVE  /\ kind'[r] = "cancel" => ran'[r] = 1
             /\ kind'[r] # "dependency" => AllCancelled(r)'
  <2>1. /\ r \in Record
        /\ r \in Linked => kind'[r] = kind[r] /\ kind[r] # "free"
        /\ r \notin Linked =>
             /\ Publishes /\ r = f.rec /\ status'.record # status.record
             /\ f.op \in Adding /\ Unlinked(f)
    BY ListedAfter
  <2>2. CASE r \notin Linked
    <3>1. status.cancelled
      <4>1. ASSUME NEW t \in Thread, Cancel(t)
            PROVE  status'.record = status.record
        BY <1>1, <4>1 DEF Cancel, Status
      <4>. QED
        BY <1>2, <2>1, <2>2, <4>1, StatusStep
    <3>. QED
      BY <1>1, <2>1, <2>2, <3>1, PublishTells DEF AllCancelled
  <2>3. CASE r \in Linked /\ ~status.cancelled
    <3>1. PICK t \in Thread : Cancel(t)
      BY <1>1, <1>2, <2>3, StatusStep DEF Status
    <3>2. status.record # Null
      BY <1>1, <2>3, Behind
    <3>. QED
      BY <1>2, <2>3, <3>1, <3>2, WalkBegins
  <2>4. CASE /\ r \in Linked /\ status.cancelled
             /\ \A t \in Thread : frame[t].op = "cancel" => r \notin Ahead(t)
    <3>1. /\ kind[r] = "cancel" => ran[r] = 1
          /\ kind[r] # "dependency" => AllCancelled(r)
      BY <1>1, <2>4 DEF CancelInv
    <3>2. kind'[r] = "cancel" => ran'[r] = 1
      BY <2>1, <2>4, <3>1, RanStep DEF RanGoal
    <3>3. ASSUME kind[r] # "dependency"
          PROVE  AllCancelled(r)'
      <4>1. ~(Publishes /\ r = f.rec)
        <5>1. Publishes => Unlinked(f)
          BY DEF Publishes, Unlinked
        <5>. QED
          BY <1>1, <2>4, <5>1 DEF ListIs
      <4>2. CASE FnAttach(Owner) /\ r = f.rec
        <5>1. f.op = "attach" /\ f.pc = "fn"
          BY <1>1, <4>2 DEF FnAttach, Op, At, FrameOk
        <5>2. f.old.cancelled
          <6>1. ASSUME NEW t \in Thread, frame[t].op = "cancel", frame[t].pc = "lock",
                       ~frame[t].nested
                PROVE  FALSE
            <7>1. Ahead(t) = Linked
              BY <6>1 DEF Ahead, Place
            <7>. QED
              BY <2>4, <6>1, <7>1
          <6>. QED
            BY <1>1, <2>4, <5>1, <6>1 DEF CancelInv
        <5>3. f.kid \in Child
          BY <1>1, <5>1 DEF ChildInv, TypeOK, Frame
        <5>4. /\ children'[r] = children[r] \cup {f.kid}
              /\ child'[f.kid] = updateNewChild(f.old, isCancelled[r])
              /\ \A c \in children[r] : c # f.kid => child'[c] = child[c]
          BY <1>1, <2>1, <4>2, <5>3 DEF FnAttach, TypeOK
        <5>5. updateNewChild(f.old, isCancelled[r]).cancelled
          BY <5>2 DEF updateNewChild
        <5>6. ASSUME NEW c \in children'[r]
              PROVE  child'[c].cancelled
          BY <3>1, <3>3, <5>4, <5>5 DEF AllCancelled
        <5>. QED
          BY <5>6 DEF AllCancelled
      <4>. QED
        BY <2>1, <2>4, <3>1, <3>3, <4>1, <4>2, CancelledKept
    <3>. QED
      BY <2>1, <2>4, <3>2, <3>3
  <2>5. ASSUME NEW t \in Thread, r \in Linked, frame[t].op = "cancel", r \in Ahead(t)
        PROVE  /\ kind'[r] = "cancel" => ran'[r] = 1
               /\ kind'[r] # "dependency" => AllCancelled(r)'
    <3>1. r = frame[t].cur /\ (WalkCancel(t) \/ WalkHandler(t) \/ WalkEscalate(t))
      BY <1>1, <1>2, <2>5 DEF AheadGoal
    <3>2. ~WalkEscalate(t)
      BY <2>5 DEF WalkEscalate, Walking
    <3>3. ran[r] = 0
      BY <1>1, <2>5 DEF OnceInv
    <3>. QED
      BY <1>1, <2>1, <3>1, <3>2, <3>3, WalkCancels
  <2>. QED
    BY <2>2, <2>3, <2>4, <2>5
<1>3. \A r \in Record :
        isCancelled'[r] =>
          /\ kind'[r] = "group"
          /\ \/ g.op = "cancelAll" /\ g.rec = r /\ g.pc \in {"lock", "setbit", "fn"}
             \/ AllCancelled(r)'
  BY GroupCancelStep
<1>4. ASSUME g.op = "attach", g.pc = "fn", status'.cancelled, ~g.old.cancelled
      PROVE  \E t \in Thread :
               frame'[t].op = "cancel" /\ frame'[t].pc = "lock" /\ ~frame'[t].nested
  <2>1. /\ f.op = "attach" /\ f.pc = "fn" /\ ~f.old.cancelled /\ status.record # Null
        /\ \A t \in Thread :
             frame[t].op \in Walkers /\ frame[t].pc = "lock" /\ ~frame[t].nested =>
               /\ frame'[t].op = frame[t].op /\ frame'[t].pc = "lock" /\ ~frame'[t].nested
    BY <1>4, AttachWaits DEF Load
  <2>2. CASE status.cancelled
    <3>1. PICK t \in Thread :
            frame[t].op = "cancel" /\ frame[t].pc = "lock" /\ ~frame[t].nested
      BY <1>1, <2>1, <2>2 DEF CancelInv
    <3>. QED
      BY <2>1, <3>1 DEF Walkers
  <2>3. CASE ~status.cancelled
    <3>1. PICK t \in Thread : Cancel(t)
      BY <1>1, <1>4, <2>3, StatusStep DEF Status
    <3>. QED
      BY <2>1, <3>1, WalkBegins
  <2>. QED
    BY <2>2, <2>3
<1>. QED
  BY <1>2, <1>3, <1>4 DEF CancelInv

-----------------------------------------------------------------------------
(* Escalation reaches the children *)

\* A child is never given more than the priority of its parent.
LEMMA DowngradeLess ==
  ASSUME NEW p \in Nat
  PROVE  /\ withUserInteractivePriorityDowngrade(p) \in Nat
         /\ withUserInteractivePriorityDowngrade(p) <= p
BY DEF withUserInteractivePriorityDowngrade, UserInteractive, UserInitiated

\* What the children of the records on the list have of the task's priority, they keep.
LEMMA PriorityKept ==
  ASSUME IInv, Next, NEW r \in Linked, NEW c \in children[r], c \in children'[r]
  PROVE  child'[c].priority >= child[c].priority
<1>. DEFINE f == frame[Owner]
<1>1. /\ TypeOK /\ ChildInv /\ KidsGoal /\ children \in [Record -> SUBSET Child] /\ ListIs
      /\ r \in Record /\ c \in Child /\ FrameOk(Owner, f) /\ f \in Frame /\ Owner \in Thread
      /\ PhaseOk(f) /\ ScopeOk(f)
  <2>1. TypeOK /\ FrameInv /\ ScopeInv /\ LinkInv /\ StateInv
    BY DEF IInv
  <2>2. ListIs
    BY <2>1, ListFacts
  <2>. QED
    BY <2>1, <2>2, KidsStep DEF IInv, TypeOK, ListIs, Thread, FrameInv, StateInv, ScopeInv
<1>2. /\ child[c] \in [cancelled: BOOLEAN, priority: JobPriority \cup {UserInitiated}]
      /\ child[c].priority \in Nat /\ status.priority \in Nat
  <2>1. child[c] \in [cancelled: BOOLEAN, priority: JobPriority \cup {UserInitiated}]
    BY <1>1 DEF TypeOK
  <2>2. status.priority \in JobPriority
    BY <1>1 DEF TypeOK, Status
  <2>. QED
    BY <2>1, <2>2, TaskAssumption DEF UserInitiated
<1>3. CASE child'[c] = child[c]
  BY <1>2, <1>3
<1>4. ASSUME NEW p \in Nat, child'[c] = Escalated(child[c], p)
      PROVE  child'[c].priority >= child[c].priority
  <2>1. child'[c].priority = Higher(child[c].priority, p)
    BY <1>2, <1>4 DEF Escalated
  <2>. QED
    BY <1>2, <2>1 DEF Higher
<1>5. CASE UNCHANGED child
  BY <1>3, <1>5
<1>6. CASE \/ UNCHANGED contents \/ FireHandlerNow(Owner)
           \/ \E q \in Record : CancelAll(q)
           \/ \E q \in Record, k \in Kinds, kids \in SUBSET Child : Starts(q, k, kids)
           \/ \E t \in Thread : WalkHandler(t)
  BY <1>5, <1>6 DEF contents, FireHandlerNow, CancelAll, Starts, WalkHandler
<1>7. CASE Publishes
  <2>1. /\ f.rec \in Record
        /\ c \notin children[f.rec] => child'[c] = child[c]
        /\ c \in children[f.rec] /\ kind[f.rec] = "dependency" =>
             child'[c] = Escalated(child[c], status.priority)
    BY <1>1, <1>7, PublishTells
  <2>2. c \in children[f.rec] => kind[f.rec] = "dependency"
    <3>1. SUFFICES ASSUME c \in children[f.rec], kind[f.rec] # "dependency"
                   PROVE  FALSE
      OBVIOUS
    <3>2. Unlinked(f) /\ f.op \in Adding
      BY <1>7 DEF Publishes, Unlinked
    <3>3. r # f.rec
      BY <1>1, <3>2 DEF ListIs
    <3>4. kind[r] = "dependency"
      BY <1>1, <2>1, <3>1, <3>3 DEF ChildInv
    <3>5. f.op = "add"
      BY <1>1, <3>1, <3>2 DEF ScopeOk, KindOf, Adding, InGroup
    <3>. QED
      BY <1>1, <3>4, <3>5 DEF PhaseOk, Working, Dependent
  <2>. QED
    BY <1>2, <1>3, <1>4, <2>1, <2>2
<1>8. CASE Frees
  <2>1. r # f.rec
    BY <1>1, <1>8 DEF Frees, Dealloc
  <2>. QED
    BY <1>1, <1>3, <1>8, <2>1, OthersKeep DEF Frees, Dealloc
<1>9. CASE FnAttach(Owner)
  <2>1. f.op = "attach" /\ f.pc = "fn"
    BY <1>1, <1>9 DEF FnAttach, Op, At, FrameOk
  <2>2. f.kid # c
    BY <1>1, <2>1 DEF ChildInv
  <2>3. child' = [child EXCEPT ![f.kid] = updateNewChild(f.old, isCancelled[f.rec])]
    BY <1>9 DEF FnAttach
  <2>. QED
    BY <1>1, <1>3, <2>2, <2>3 DEF TypeOK
<1>10. CASE FnDetach(Owner)
  <2>1. f.op = "detach" /\ f.pc = "fn"
    BY <1>1, <1>10 DEF FnDetach, Op, At, FrameOk
  <2>2. f.rec \in Record /\ kind[f.rec] = "group" /\ f.kid \in children[f.rec]
    BY <1>1, <2>1 DEF ChildInv, ScopeOk, KindOf, InGroup, Frame
  <2>3. /\ children' = [children EXCEPT ![f.rec] = @ \ {f.kid}]
        /\ child' = [child EXCEPT ![f.kid] = NewChild]
    BY <1>10 DEF FnDetach
  <2>4. c # f.kid
    <3>1. CASE r = f.rec
      BY <1>1, <2>3, <3>1
    <3>2. CASE r # f.rec
      <4>1. kind[r] # "dependency"
        BY <1>1, <2>1 DEF PhaseOk, Working, InGroup, Dependent
      <4>. QED
        BY <1>1, <2>2, <3>2, <4>1 DEF ChildInv
    <3>. QED
      BY <3>1, <3>2
  <2>. QED
    BY <1>1, <1>3, <2>3, <2>4 DEF TypeOK
<1>11. ASSUME NEW kids, CancelChildren(kids)
       PROVE  child'[c].priority >= child[c].priority
  <2>1. child'[c] = child[c] \/ child'[c] = [child[c] EXCEPT !.cancelled = TRUE]
    BY <1>1, <1>11 DEF CancelChildren
  <2>. QED
    BY <1>2, <2>1
<1>12. CASE FnCancelAll(Owner) \/ \E t \in Thread : WalkCancel(t)
  BY <1>11, <1>12 DEF FnCancelAll, WalkCancel
<1>13. ASSUME NEW t \in Thread, UpdateResume(t)
       PROVE  child'[c].priority >= child[c].priority
  <2>1. PICK q \in Record : /\ children' = [children EXCEPT ![q] = {}]
                            /\ child' = ChildrenWithout(q)
    BY <1>13 DEF UpdateResume
  <2>2. r # q
    BY <1>1, <2>1
  <2>. QED
    BY <1>1, <1>3, <2>1, <2>2, OthersKeep
<1>14. ASSUME NEW t \in Thread, WalkEscalate(t)
       PROVE  child'[c].priority >= child[c].priority
  <2>1. child'[c] = child[c] \/ child'[c] = Escalated(child[c], frame[t].prio)
    BY <1>1, <1>14 DEF WalkEscalate
  <2>2. frame[t].prio \in Nat
    <3>1. frame[t] \in Frame
      BY <1>1 DEF TypeOK
    <3>. QED
      BY <3>1, TaskAssumption DEF Frame
  <2>. QED
    BY <1>3, <1>4, <2>1, <2>2
<1>. QED
  BY <1>6, <1>7, <1>8, <1>9, <1>10, <1>12, <1>13, <1>14, EffectStep DEF Effect, Groups

\* How a child comes to belong to a record of the list
LEMMA NewKid ==
  ASSUME IInv, Next, NEW r \in Linked, NEW c \in children'[r], c \notin children[r]
  PROVE  /\ FnAttach(Owner) /\ frame[Owner].op = "attach" /\ frame[Owner].pc = "fn"
         /\ r = frame[Owner].rec /\ c = frame[Owner].kid /\ kind[r] = "group"
         /\ c \in Child
<1>1. /\ TypeOK /\ KidsGoal /\ ListIs /\ r \in Record /\ kind[r] # "free"
      /\ children \in [Record -> SUBSET Child]
  <2>1. TypeOK /\ FrameInv /\ ScopeInv /\ LinkInv
    BY DEF IInv
  <2>2. ListIs
    BY <2>1, ListFacts
  <2>. QED
    BY <2>1, <2>2, KidsStep DEF TypeOK, ListIs
<1>2. ~\E q \in Record, k \in Kinds, kids \in SUBSET Child : Starts(q, k, kids)
  BY <1>1 DEF Starts
<1>3. ~Frees
  BY <1>1 DEF Frees, Dealloc
<1>. QED
  BY <1>1, <1>2, <1>3 DEF KidsGoal

\* What no escalator has ahead of it has the priority of the task.
LEMMA RaiseStep ==
  ASSUME IInv, Next
  PROVE  RaiseInv'
<1>. DEFINE f == frame[Owner]
            g == frame'[Owner]
<1>1. /\ TypeOK /\ FrameInv /\ ScopeInv /\ LinkInv /\ RaiseInv /\ ListIs
      /\ Owner \in Thread /\ FrameOk(Owner, f) /\ status \in Status
      /\ children \in [Record -> SUBSET Child]
      /\ child \in [Child -> [cancelled: BOOLEAN, priority: JobPriority \cup {UserInitiated}]]
      /\ child' \in [Child -> [cancelled: BOOLEAN, priority: JobPriority \cup {UserInitiated}]]
      /\ children' \in [Record -> SUBSET Child]
      /\ (\A t \in Thread : AheadGoal(t)) /\ \A t \in Thread : frame[t] \in Frame
  <2>1. TypeOK /\ FrameInv /\ ScopeInv /\ LinkInv /\ TypeOK'
    BY Basics DEF IInv
  <2>2. ListIs
    BY <2>1, ListFacts
  <2>. QED
    BY <2>1, <2>2, AheadStep DEF IInv, TypeOK, Thread, FrameInv
<1>2. /\ JobPriority \cup {UserInitiated} \subseteq Nat
      /\ status.priority \in Nat
      /\ \A c \in Child : child[c].priority \in Nat /\ child'[c].priority \in Nat
  <2>1. JobPriority \cup {UserInitiated} \subseteq Nat
    BY TaskAssumption DEF UserInitiated
  <2>2. status.priority \in JobPriority
    BY <1>1 DEF Status
  <2>. QED
    BY <1>1, <2>1, <2>2
<1>3. ASSUME NEW r \in Linked', NEW c \in children'[r]
      PROVE  \/ child'[c].priority >= Target(r)'
             \/ \E t \in Thread : Raiser(t)' /\ r \in Ahead(t)'
  <2>1. /\ r \in Record
        /\ r \in Linked => kind'[r] = kind[r] /\ kind[r] # "free"
        /\ r \notin Linked =>
             /\ Publishes /\ r = f.rec /\ status'.record # status.record
             /\ f.op \in Adding /\ Unlinked(f)
    BY ListedAfter
  <2>2. c \in Child
    BY <1>1, <2>1
  <2>3. CASE status'.priority # status.priority
    <3>1. PICK t \in Thread, p \in JobPriority : Escalate(t, p) /\ status'.priority = p
      BY <1>1, <2>3, StatusStep DEF Status
    <3>2. status'.record = status.record
      BY <1>1, <3>1 DEF Escalate, Status
    <3>3. r \in Linked /\ status.record # Null
      BY <1>1, <2>1, <3>2, Behind
    <3>4. Raiser(t)' /\ r \in Ahead(t)'
      BY <3>1, <3>3, WalkBegins DEF Raiser
    <3>. QED
      BY <3>4
  <2>4. CASE r \notin Linked /\ status'.priority = status.priority
    <3>1. /\ kind' = kind /\ children' = children
          /\ child'[c] = IF kind[r] = "dependency"
                         THEN Escalated(child[c], status.priority)
                         ELSE [cancelled |-> status.cancelled,
                               priority  |->
                                 withUserInteractivePriorityDowngrade(status.priority)]
      <4>1. /\ kind' = kind /\ children' = children
        BY <1>1, <2>1, <2>4, PublishTells
      <4>. QED
        BY <1>1, <1>3, <2>1, <2>4, <4>1, PublishTells
    <3>2. CASE kind[r] = "dependency"
      <4>1. child'[c].priority = Higher(child[c].priority, status.priority)
        <5>1. child[c] \in [cancelled: BOOLEAN, priority: JobPriority \cup {UserInitiated}]
          BY <1>1, <2>2
        <5>. QED
          BY <3>1, <3>2, <5>1 DEF Escalated
      <4>2. child'[c].priority >= status.priority
        BY <1>2, <2>2, <4>1 DEF Higher
      <4>. QED
        BY <2>4, <3>1, <3>2, <4>2 DEF Target
    <3>3. CASE kind[r] # "dependency"
      <4>1. child'[c].priority = Target(r)'
        BY <2>4, <3>1, <3>3 DEF Target
      <4>. QED
        BY <1>2, <2>2, <4>1
    <3>. QED
      BY <3>2, <3>3
  <2>5. ASSUME r \in Linked, status'.priority = status.priority,
               NEW t \in Thread, Raiser(t), r \in Ahead(t),
               ~(r = frame[t].cur /\ WalkEscalate(t))
        PROVE  Raiser(t)' /\ r \in Ahead(t)'
    <3>1. ~WalkCancel(t) /\ ~WalkHandler(t)
      BY <2>5 DEF Raiser, WalkCancel, WalkHandler, Walking
    <3>2. r \in Ahead(t)' /\ frame'[t].op = frame[t].op /\ frame'[t].prio = frame[t].prio
      BY <1>1, <1>3, <2>5, <3>1 DEF AheadGoal
    <3>. QED
      BY <2>5, <3>2 DEF Raiser
  <2>6. CASE r \in Linked /\ status'.priority = status.priority /\ c \in children[r]
    <3>1. Target(r)' = Target(r) /\ Target(r) \in Nat /\ Target(r) <= status.priority
      BY <1>2, <2>1, <2>6, DowngradeLess DEF Target
    <3>2. CASE child[c].priority >= Target(r)
      BY <1>2, <1>3, <2>2, <2>6, <3>1, <3>2, PriorityKept
    <3>3. ASSUME NEW t \in Thread, Raiser(t), r \in Ahead(t)
          PROVE  \/ child'[c].priority >= Target(r)'
                 \/ \E u \in Thread : Raiser(u)' /\ r \in Ahead(u)'
      <4>1. CASE r = frame[t].cur /\ WalkEscalate(t)
        <5>1. child'[c] = Escalated(child[c], status.priority)
          BY <2>2, <2>6, <3>3, <4>1 DEF WalkEscalate, Raiser
        <5>2. child[c] \in [cancelled: BOOLEAN, priority: JobPriority \cup {UserInitiated}]
          BY <1>1, <2>2
        <5>3. child'[c].priority = Higher(child[c].priority, status.priority)
          BY <5>1, <5>2 DEF Escalated
        <5>. QED
          BY <1>2, <2>2, <3>1, <5>3 DEF Higher
      <4>2. CASE ~(r = frame[t].cur /\ WalkEscalate(t))
        BY <2>5, <2>6, <3>3, <4>2
      <4>. QED
        BY <4>1, <4>2
    <3>. QED
      BY <1>1, <2>6, <3>2, <3>3 DEF RaiseInv
  <2>7. CASE r \in Linked /\ status'.priority = status.priority /\ c \notin children[r]
    <3>1. /\ FnAttach(Owner) /\ f.op = "attach" /\ f.pc = "fn"
          /\ r = f.rec /\ c = f.kid /\ kind[r] = "group"
      BY <1>3, <2>7, NewKid
    <3>2. CASE f.old.priority = status.priority
      <4>1. child'[c].priority = withUserInteractivePriorityDowngrade(status.priority)
        <5>1. child'[c] = updateNewChild(f.old, isCancelled[f.rec])
          BY <1>1, <2>2, <3>1 DEF FnAttach
        <5>. QED
          BY <3>2, <5>1 DEF updateNewChild
      <4>2. child'[c].priority = Target(r)'
        BY <2>1, <2>7, <3>1, <4>1 DEF Target
      <4>. QED
        BY <1>2, <2>2, <4>2
    <3>3. ASSUME NEW t \in Thread, Raiser(t), frame[t].pc = "lock"
          PROVE  Raiser(t)' /\ r \in Ahead(t)'
      <4>1. FrameOk(t, frame[t])
        BY <1>1 DEF FrameInv
      <4>2. Ahead(t) = Linked
        BY <3>3, <4>1 DEF Raiser, FrameOk, Ahead, Place
      <4>3. ~WalkEscalate(t)
        BY <3>3 DEF WalkEscalate, Walking, At
      <4>. QED
        BY <2>5, <2>7, <3>3, <4>2, <4>3
    <3>. QED
      BY <1>1, <3>1, <3>2, <3>3 DEF RaiseInv
  <2>. QED
    BY <2>3, <2>4, <2>6, <2>7
<1>4. ASSUME g.op = "attach", g.pc = "fn"
      PROVE  \/ g.old.priority = status'.priority
             \/ \E t \in Thread : Raiser(t)' /\ frame'[t].pc = "lock"
  <2>1. CASE g.old = Load(status')
    BY <2>1 DEF Load
  <2>2. CASE f.op = "attach" /\ f.pc = "fn" /\ g.old = f.old
    <3>1. /\ status.record # Null
          /\ \A t \in Thread :
               frame[t].op \in Walkers /\ frame[t].pc = "lock" /\ ~frame[t].nested =>
                 /\ frame'[t].op = frame[t].op /\ frame'[t].prio = frame[t].prio
                 /\ frame'[t].pc = "lock"
      BY <1>4, AttachWaits
    <3>2. CASE status'.priority # status.priority
      <4>1. PICK t \in Thread, p \in JobPriority : Escalate(t, p) /\ status'.priority = p
        BY <1>1, <3>2, StatusStep DEF Status
      <4>. QED
        BY <3>1, <4>1, WalkBegins DEF Raiser
    <3>3. CASE status'.priority = status.priority
      <4>1. CASE f.old.priority = status.priority
        BY <2>2, <3>3, <4>1
      <4>2. ASSUME NEW t \in Thread, Raiser(t), frame[t].pc = "lock"
            PROVE  Raiser(t)' /\ frame'[t].pc = "lock"
        <5>1. FrameOk(t, frame[t])
          BY <1>1 DEF FrameInv
        <5>2. frame[t].op \in Walkers /\ ~frame[t].nested
          BY <4>2, <5>1 DEF Raiser, FrameOk, Walkers
        <5>. QED
          BY <3>1, <3>3, <4>2, <5>2 DEF Raiser
      <4>. QED
        BY <1>1, <2>2, <4>1, <4>2 DEF RaiseInv
    <3>. QED
      BY <3>2, <3>3
  <2>. QED
    BY <1>4, <2>1, <2>2, AttachWaits
<1>. QED
  BY <1>3, <1>4 DEF RaiseInv

-----------------------------------------------------------------------------
(* The invariant holds *)

\* The invariant holds of a new task,
LEMMA InitInvariant == Init => IInv
<1>. SUFFICES ASSUME Init
              PROVE  IInv
  OBVIOUS
<1>1. /\ frame = [t \in Thread |-> NoCall] /\ Owner \in Thread /\ Null \notin Thread
      /\ status = NewStatus /\ scopes = <<>> /\ parent \in Parents
      /\ kind = [r \in Record |-> "free"] /\ children = [r \in Record |-> {}]
      /\ isCancelled = [r \in Record |-> FALSE] /\ ran = [r \in Record |-> 0]
      /\ continuation = "none" /\ resumed = FALSE
      /\ job = [queued |-> FALSE, priority |-> BasePriority]
      /\ mutex = [holder |-> Null, depth |-> 0]
  BY TaskAssumption DEF Init, Thread, Parents
<1>2. status \in Status
  BY <1>1, TaskAssumption DEF NewStatus, Status
<1>3. NoCall \in Frame /\ \A t \in Thread : FrameOk(t, NoCall)
  BY NoCallOk
<1>4. FrameInv
  BY <1>1, <1>3 DEF FrameInv
<1>5. TypeOK
  <2>1. child = [c \in Child |-> NewChild]
    BY DEF Init
  <2>2. NewChild \in [cancelled: BOOLEAN, priority: JobPriority \cup {UserInitiated}]
    BY TaskAssumption DEF NewChild
  <2>3. child \in [Child -> [cancelled: BOOLEAN, priority: JobPriority \cup {UserInitiated}]]
    BY <2>1, <2>2
  <2>4. mutex \in [holder: Thread \cup {Null}, depth: 0..2]
    BY <1>1
  <2>5. adds \in 0..MaxAdds
    BY TaskAssumption DEF Init
  <2>6. kind \in [Record -> Kinds]
    BY <1>1 DEF Kinds
  <2>7. job \in [queued: BOOLEAN, priority: JobPriority]
    BY <1>1, TaskAssumption
  <2>8. frame \in [Thread -> Frame]
    BY <1>1, <1>3
  <2>9. parent \in [Record -> Record \cup {Null}]
    BY <1>1 DEF Parents
  <2>10. children \in [Record -> SUBSET Child]
    BY <1>1
  <2>11. isCancelled \in [Record -> BOOLEAN] /\ ran \in [Record -> Nat]
    BY <1>1
  <2>12. scopes \in Seq(Record)
    BY <1>1
  <2>13. continuation \in {"none", "Pending", "Awaited", "Resumed"} /\ resumed \in BOOLEAN
    BY <1>1
  <2>. QED
    BY <1>2, <2>3, <2>4, <2>5, <2>6, <2>7, <2>8, <2>9, <2>10, <2>11, <2>12, <2>13 DEF TypeOK
<1>6. \A t \in Thread : frame[t] = NoCall
  BY <1>1
<1>7. /\ NoCall.op = "none" /\ NoCall.pc = "idle" /\ ~NoCall.nested /\ Place(NoCall) = "none"
      /\ ~Unlinked(NoCall) /\ Depth(NoCall) = 0 /\ ~HasBit(NoCall)
  BY DEF NoCall, Place, Unlinked, Adding, Removing, Depth, HasBit
<1>8. Linked = {}
  BY <1>1, ChainNothing DEF Linked, NewStatus
<1>9. Height = 0
  BY <1>1, <1>6, <1>7 DEF Height
<1>10. MutexInv /\ BitInv
  BY <1>1, <1>6, <1>7 DEF MutexInv, BitInv, BitOk, NewStatus
<1>11. ScopeInv
  BY <1>1, <1>6, <1>7 DEF ScopeInv, StackInv, ScopeOk, Adding, Removing, InGroup
<1>12. LinkInv
  BY <1>1, <1>9 DEF LinkInv, NewStatus
<1>13. StateInv
  <2>1. ~Dependent
    BY <1>1 DEF Dependent
  <2>. QED
    BY <1>1, <1>6, <1>7, <2>1
    DEF StateInv, PhaseOk, ResumeInv, IsResumer, NewStatus, Working, InGroup
<1>14. PreferenceInv /\ WalkInv
  BY <1>1, <1>6, <1>7, <1>8 DEF PreferenceInv, WalkInv, NewStatus
<1>15. OnceInv /\ ChildInv
  BY <1>1, <1>6, <1>7 DEF OnceInv, ChildInv, Adding
<1>16. CancelInv /\ RaiseInv
  BY <1>1, <1>6, <1>7, <1>8 DEF CancelInv, RaiseInv
<1>. QED
  BY <1>4, <1>5, <1>10, <1>11, <1>12, <1>13, <1>14, <1>15, <1>16 DEF IInv

\* when nothing changes,
LEMMA StutterInvariant ==
  ASSUME IInv, UNCHANGED vars
  PROVE  IInv'
<1>1. /\ UNCHANGED <<status, mutex, kind, parent, children, isCancelled, child, ran>>
      /\ UNCHANGED <<scopes, continuation, resumed, job, frame, adds>>
  BY DEF vars
<1>2. Linked' = Linked /\ Height' = Height /\ \A t \in Thread : Ahead(t)' = Ahead(t)
  BY <1>1 DEF Linked, Height, Ahead
<1>3. TypeOK' /\ FrameInv' /\ MutexInv' /\ BitInv'
  BY <1>1 DEF IInv, TypeOK, FrameInv, MutexInv, BitInv
<1>4. ScopeInv' /\ LinkInv'
  BY <1>1, <1>2 DEF IInv, ScopeInv, StackInv, ScopeOk, LinkInv
<1>5. StateInv'
  BY <1>1 DEF IInv, StateInv, PhaseOk, ResumeInv, Dependent
<1>6. PreferenceInv' /\ WalkInv'
  BY <1>1, <1>2 DEF IInv, PreferenceInv, WalkInv
<1>7. OnceInv' /\ ChildInv'
  BY <1>1, <1>2 DEF IInv, OnceInv, ChildInv
<1>8. CancelInv'
  BY <1>1, <1>2 DEF IInv, CancelInv, AllCancelled
<1>9. RaiseInv'
  BY <1>1, <1>2 DEF IInv, RaiseInv, Target, Raiser
<1>. QED
  BY <1>3, <1>4, <1>5, <1>6, <1>7, <1>8, <1>9 DEF IInv

\* after every step,
LEMMA StepInvariant == IInv /\ [Next]_vars => IInv'
<1>1. ASSUME IInv, Next
      PROVE  IInv'
  BY <1>1, Basics, StateStep, PreferenceStep, WalkStep, OnceStep, ChildStep, CancelStep, RaiseStep
  DEF IInv
<1>. QED
  BY <1>1, StutterInvariant

\* and so always.
LEMMA Invariance == Spec => []IInv
BY InitInvariant, StepInvariant, PTL DEF Spec

-----------------------------------------------------------------------------
(* What follows from it *)

\* What the code reads without the lock, or asserts, agrees with the records, the mutex and
\* the threads that hold it, however many threads cancel, escalate and resume the task.
THEOREM StatusAgrees == Spec => []StatusIsConsistent
<1>1. IInv => StatusIsConsistent
  <2>. SUFFICES ASSUME IInv
                PROVE  StatusIsConsistent
    OBVIOUS
  <2>. DEFINE f == frame[Owner]
  <2>1. /\ TypeOK /\ FrameInv /\ MutexInv /\ BitInv /\ ScopeInv /\ LinkInv /\ StateInv
        /\ PreferenceInv
    BY DEF IInv
  <2>2. /\ ListIs /\ Owner \in Thread /\ f \in Frame /\ PhaseOk(f) /\ ScopeOk(f)
        /\ \A i \in 1..Len(scopes) : scopes[i] \in Record
        /\ Len(scopes) \in Nat
    BY <2>1, ListFacts DEF Thread, TypeOK, StateInv, ScopeInv
  <2>3. LockBitFollowsMutex
    BY <2>1 DEF LockBitFollowsMutex, MutexInv, BitInv, Depth, HasBit
  <2>4. status.dependency <=> \E r \in Linked : kind[r] = "dependency"
    <3>1. ASSUME status.dependency
          PROVE  \E r \in Linked : kind[r] = "dependency"
      BY <2>2, <3>1 DEF PhaseOk, Dependent, ListIs
    <3>2. ASSUME NEW r \in Linked, kind[r] = "dependency"
          PROVE  status.dependency
      <4>1. Dependent
        BY <2>2, <3>2 DEF Dependent, ListIs
      <4>2. ASSUME Unlinked(f)
            PROVE  FALSE
        <5>1. f.op \in Adding \cup Removing
          BY <4>2 DEF Unlinked
        <5>2. f.rec = scopes[Len(scopes)]
          BY <2>2, <5>1 DEF ScopeOk
        <5>3. PICK i \in 1..Len(scopes) : scopes[i] = r
          BY <2>1, <2>2 DEF ScopeInv, StackInv, ListIs
        <5>4. i = Len(scopes)
          BY <2>1, <3>2, <5>3 DEF ScopeInv, StackInv
        <5>. QED
          BY <2>2, <4>2, <5>2, <5>3, <5>4 DEF ListIs
      <4>. QED
        BY <2>2, <4>1, <4>2 DEF PhaseOk
    <3>. QED
      BY <3>1, <3>2
  <2>5. FlagsMatchRecords
    BY <2>1, <2>4 DEF FlagsMatchRecords, PreferenceInv
  <2>6. RemovalFindsInnermost
    <3>1. SUFFICES ASSUME f.op \in Removing,
                          f.pc \in {"remove", "lock", "setbit", "fn", "update"}
                   PROVE  status.record = f.rec
      BY DEF RemovalFindsInnermost, Removing
    <3>2. ~Unlinked(f)
      BY <3>1 DEF Unlinked, Adding, Removing
    <3>3. scopes # <<>> /\ f.rec = scopes[Len(scopes)]
      BY <2>2, <3>1 DEF ScopeOk
    <3>4. Len(scopes) # 0
      BY <2>1, <3>3 DEF TypeOK
    <3>. QED
      BY <2>1, <3>2, <3>3, <3>4 DEF LinkInv, Height
  <2>7. StateAsserts
    <3>1. ASSUME NEW t \in Thread, Op(t) = "resume",
                 frame[t].pc \in {"lock", "setbit", "update"}
          PROVE  /\ status.dependency /\ ~status.running /\ ~status.enqueued
                 /\ ~status.complete
      <4>1. IsResumer(frame[t])
        BY <3>1 DEF Op, IsResumer
      <4>2. continuation = "Awaited" /\ ~status.enqueued
        BY <2>1, <3>1, <4>1 DEF StateInv, ResumeInv
      <4>. QED
        BY <2>2, <4>2 DEF PhaseOk
    <3>2. ASSUME f.op = "run", f.pc \in {"remove", "lock", "setbit", "fn", "update"}
          PROVE  status.dependency /\ ~status.running /\ ~status.complete
      <4>1. kind[f.rec] = "dependency" /\ f.rec \in Record
        BY <2>2, <3>2 DEF ScopeOk, KindOf, Removing, InGroup, Frame
      <4>2. ~Unlinked(f) /\ Dependent
        BY <3>2, <4>1 DEF Unlinked, Adding, Dependent
      <4>. QED
        BY <2>2, <4>2 DEF PhaseOk
    <3>3. status.complete => status.record = Null
      <4>1. status.complete => scopes = <<>> /\ ~Unlinked(f)
        BY <2>2 DEF PhaseOk, Unlinked
      <4>. QED
        BY <2>1, <4>1 DEF LinkInv, Height
    <3>. QED
      BY <3>1, <3>2, <3>3 DEF StateAsserts
  <2>. QED
    BY <2>1, <2>3, <2>5, <2>6, <2>7 DEF StatusIsConsistent
<1>. QED
  BY <1>1, Invariance, PTL

\* Whoever goes through the list stands on a record that is allocated and linked, although the
\* task may leave a scope at any moment.
THEOREM WalksLiveRecords == Spec => []ReadsLiveRecords
<1>1. IInv => ReadsLiveRecords
  <2>. SUFFICES ASSUME IInv
                PROVE  ReadsLiveRecords
    OBVIOUS
  <2>1. ListIs
    BY ListFacts DEF IInv
  <2>. QED
    BY <2>1 DEF ReadsLiveRecords, IInv, WalkInv, ListIs
<1>. QED
  BY <1>1, Invariance, PTL

\* A cancellation handler runs at most once, whoever cancels the task and wherever the task is.
THEOREM HandlersRunOnce == Spec => []HandlerRunsOnce
<1>1. IInv => HandlerRunsOnce
  BY DEF IInv, OnceInv, HandlerRunsOnce
<1>. QED
  BY <1>1, Invariance, PTL

\* When no canceller is on its way, all handlers have run and all children are cancelled, those
\* included that the task took on while the canceller was between its bit and the lock.
THEOREM CancellationReaches == Spec => []CancelReachesAll
<1>1. IInv => CancelReachesAll
  <2>. SUFFICES ASSUME IInv, \A t \in Thread : ~Cancelling(t), NEW r \in Linked
                PROVE  /\ status.cancelled /\ kind[r] = "cancel" => ran[r] = 1
                       /\ kind[r] # "dependency" /\ (status.cancelled \/ isCancelled[r])
                            => AllCancelled(r)
    BY DEF CancelReachesAll, AllCancelled
  <2>1. FrameInv /\ CancelInv /\ Owner \in Thread /\ r \in Record
    BY DEF IInv, Thread, Linked, ChainFrom
  <2>2. \A t \in Thread : frame[t].op \notin {"cancel", "cancelAll"}
    <3>1. ASSUME NEW t \in Thread, frame[t].op \in {"cancel", "cancelAll"}
          PROVE  FALSE
      <4>1. FrameOk(t, frame[t]) /\ frame[t].pc = "idle"
        BY <2>1, <3>1 DEF FrameInv, Cancelling
      <4>. QED
        BY <3>1, <4>1 DEF FrameOk, NoCall
    <3>. QED
      BY <3>1
  <2>. QED
    BY <2>1, <2>2 DEF CancelInv
<1>. QED
  BY <1>1, Invariance, PTL

\* When no escalator is on its way, no child is below its parent's priority, and neither is a
\* task that the suspended task waits for.
THEOREM EscalationReaches == Spec => []EscalationReachesChildren
<1>1. IInv => EscalationReachesChildren
  <2>. SUFFICES ASSUME IInv, \A t \in Thread : ~Escalating(t),
                       NEW r \in Linked, NEW c \in children[r]
                PROVE  child[c].priority >= Target(r)
    BY DEF EscalationReachesChildren, Target
  <2>1. FrameInv /\ RaiseInv
    BY DEF IInv
  <2>2. \A t \in Thread : ~Raiser(t)
    <3>1. ASSUME NEW t \in Thread, frame[t].op = "escalate"
          PROVE  FALSE
      <4>1. FrameOk(t, frame[t]) /\ frame[t].pc = "idle"
        BY <2>1, <3>1 DEF FrameInv, Escalating
      <4>. QED
        BY <3>1, <4>1 DEF FrameOk, NoCall
    <3>. QED
      BY <3>1 DEF Raiser
  <2>. QED
    BY <2>1, <2>2 DEF RaiseInv
<1>. QED
  BY <1>1, Invariance, PTL
=============================================================================
