-------------------------- MODULE MainThreadProofs --------------------------
(***************************************************************************)
(* Theorems of the main thread: its queue, and the teardown that uses it.  *)
(***************************************************************************)
EXTENDS MainThreadQueue, HostTeardown, SequenceTheorems, TLAPS

-----------------------------------------------------------------------------
(***************************************************************************)
(* Theorems of MainThreadQueue, for any number of threads and of calls.    *)
(*                                                                         *)
(* The safety of run_sync rests on one inductive invariant, CallsMatch: a  *)
(* queued or batched synchronous task and a blocked caller determine each  *)
(* other, and the batch is empty whenever drain() is about to swap.        *)
(*                                                                         *)
(* The order of the work adds OrderIsKept: what ran, what is left of the   *)
(* batch and what is queued are, one behind the other, what was accepted.  *)
(* The refinement of SyncCalls adds Matched: each caller's phase is its    *)
(* call's, and only a closed queue skips work.                             *)
(***************************************************************************)

\* The task is the call its caller is blocked on.
Waiting(w) == w.by \in Callers /\ call[w.by] = "waiting" /\ w.n = calls[w.by]

\* Every synchronous task still held is somebody's current call.
HeldIsWaiting ==
  /\ \A i \in 1..Len(tasks) : tasks[i].sync => Waiting(tasks[i])
  /\ \A i \in 1..Len(pending) : pending[i].sync => Waiting(pending[i])

\* And it is held once.
HeldOnce ==
  /\ \A i, j \in 1..Len(tasks) :
       tasks[i].sync /\ tasks[j].sync /\ tasks[i].by = tasks[j].by => i = j
  /\ \A i, j \in 1..Len(pending) :
       pending[i].sync /\ pending[j].sync /\ pending[i].by = pending[j].by => i = j
  /\ \A i \in 1..Len(tasks), j \in 1..Len(pending) :
       tasks[i].sync /\ pending[j].sync => tasks[i].by # pending[j].by

\* The swap never overwrites a task of the batch before.
SwapIsClean == main \in {"outside", "swap", "wait"} => pending = <<>>

CallsMatch == TypeOK /\ HeldIsWaiting /\ HeldOnce /\ SwapIsClean /\ BlockedCallIsHeld

USE CallersAssumption, CallsAssumption

-----------------------------------------------------------------------------
(* TypeOK is inductive on its own. *)

\* An open, empty queue with no caller and no frame is well typed.
LEMMA InitType == Init => TypeOK
<1> SUFFICES ASSUME Init PROVE TypeOK
  OBVIOUS
<1>1. /\ call \in [Callers -> CallStates]
      /\ calls \in [Threads -> Nat]
  BY DEF Init, CallStates
<1>2. <<>> \in Seq(Task)
  BY EmptySeq
<1> QED
  BY <1>1, <1>2 DEF Init, TypeOK, MainStates

\* Every method of RNMainThreadQueue keeps the fields of its type, and a task in
\* progress at the head of the batch.
LEMMA NextType == TypeOK /\ [Next]_vars => TypeOK'
<1> SUFFICES ASSUME TypeOK, [Next]_vars PROVE TypeOK'
  OBVIOUS
<1> USE DEF TypeOK, Threads, MainStates, CallStates, drainVars
<1>1. ASSUME NEW t \in Threads, Post(t) PROVE TypeOK'
  <2>1. NewTask(t, FALSE) \in Task
    BY DEF NewTask, Task
  <2>2. /\ Append(tasks, NewTask(t, FALSE)) \in Seq(Task)
        /\ Append(accepted, NewTask(t, FALSE)) \in Seq(Task)
    BY <2>1, AppendProperties
  <2>3. calls' \in [Threads -> Nat]
    BY <1>1 DEF Post, Calling
  <2> QED
    BY <1>1, <2>2, <2>3 DEF Post, Enqueue
<1>2. ASSUME NEW t \in Callers, RunSync(t) PROVE TypeOK'
  <2>1. NewTask(t, TRUE) \in Task
    BY DEF NewTask, Task
  <2>2. /\ Append(tasks, NewTask(t, TRUE)) \in Seq(Task)
        /\ Append(accepted, NewTask(t, TRUE)) \in Seq(Task)
    BY <2>1, AppendProperties
  <2>3. calls' \in [Threads -> Nat]
    BY <1>2 DEF RunSync, Calling
  <2> QED
    BY <1>2, <2>2, <2>3 DEF RunSync, Enqueue
<1>3. ASSUME NEW t \in Callers, Return(t) PROVE TypeOK'
  BY <1>3 DEF Return
<1>4. CASE RunSyncInline
  BY <1>4 DEF RunSyncInline, Calling
<1>5. CASE Close
  <2>1. call' \in [Callers -> CallStates]
    BY <1>5 DEF Close
  <2> QED
    BY <1>5, <2>1, EmptySeq DEF Close
<1>6. CASE Drain
  <2>1. CASE DrainBegin
    BY <2>1 DEF DrainBegin
  <2>2. CASE SwapBatch
    BY <2>2, EmptySeq DEF SwapBatch
  <2>3. CASE StartTask
    <3>1. Head(pending) \in Task
      BY <2>3 DEF StartTask
    <3> QED
      BY <2>3, <3>1 DEF StartTask
  <2>4. CASE FinishTask
    BY <2>4 DEF FinishTask
  <2>5. CASE SkipTask
    BY <2>5 DEF SkipTask
  <2>6. CASE Answer
    <3>1. call' \in [Callers -> CallStates] /\ answered' \in BOOLEAN
      BY <2>6 DEF Answer
    <3>2. Tail(pending) \in Seq(Task)
      BY <2>6, HeadTailProperties DEF Answer
    <3> QED
      BY <2>6, <3>1, <3>2 DEF Answer
  <2>7. CASE EndBatch
    BY <2>7 DEF EndBatch
  <2>8. CASE WaitWake
    BY <2>8 DEF WaitWake
  <2>9. CASE WaitTimeout
    BY <2>9 DEF WaitTimeout
  <2> QED
    BY <1>6, <2>1, <2>2, <2>3, <2>4, <2>5, <2>6, <2>7, <2>8, <2>9 DEF Drain
<1>7. CASE UNCHANGED vars
  BY <1>7 DEF vars
<1> QED
  BY <1>1, <1>2, <1>3, <1>4, <1>5, <1>6, <1>7 DEF Next

\* Every state of the queue is well typed, and a task that is being worked on
\* or answered is still at the head of drain()'s batch.
THEOREM TypeCorrect == SafetySpec => []TypeOK
  BY InitType, NextType, PTL DEF SafetySpec
-----------------------------------------------------------------------------
(* The calls and the tasks match. *)

\* Before the first call nobody is blocked and nothing is held.
LEMMA InitCallsMatch == Init => CallsMatch
<1> SUFFICES ASSUME Init PROVE CallsMatch
  OBVIOUS
<1>1. Len(<<>>) = 0
  OBVIOUS
<1> QED
  BY <1>1, InitType
  DEF Init, CallsMatch, HeldIsWaiting, HeldOnce, SwapIsClean, BlockedCallIsHeld

\* What a caller's own steps may change: they append at most its own task, for
\* the call it becomes blocked on, and touch nobody else's call.
LEMMA CallerStep ==
  ASSUME CallsMatch, NEW t \in Threads, NEW n \in Nat, NEW sync \in BOOLEAN,
         NEW w \in Task, w = [by |-> t, n |-> n, sync |-> sync],
         t \in Callers => call[t] # "waiting",
         UNCHANGED <<pending, main>>,
         calls' = [calls EXCEPT ![t] = n],
         tasks' = Append(tasks, w),
         IF sync THEN t \in Callers /\ call' = [call EXCEPT ![t] = "waiting"]
                 ELSE call' = call
  PROVE  HeldIsWaiting' /\ HeldOnce' /\ SwapIsClean' /\ BlockedCallIsHeld'
<1> USE DEF CallsMatch, TypeOK, Threads, CallStates
<1>1. /\ Len(tasks') = Len(tasks) + 1
      /\ \A i \in 1..Len(tasks) : tasks'[i] = tasks[i]
      /\ tasks'[Len(tasks) + 1] = w
      /\ Len(tasks) \in Nat
  BY AppendProperties, LenProperties
<1>2. HeldIsWaiting'
  <2>1. ASSUME NEW v \in Task, Waiting(v)
        PROVE  v.by # t /\ call'[v.by] = "waiting" /\ v.n = calls'[v.by]
    BY <2>1 DEF Waiting
  <2>2. ASSUME NEW i \in 1..Len(tasks), tasks[i].sync
        PROVE  Waiting(tasks[i])'
    BY <1>1, <2>1, <2>2 DEF HeldIsWaiting, Waiting
  <2>3. ASSUME NEW i \in 1..Len(pending), pending[i].sync
        PROVE  Waiting(pending[i])'
    BY <2>1, <2>3 DEF HeldIsWaiting, Waiting
  <2>4. w.sync => Waiting(w)'
    BY DEF Waiting
  <2> QED
    BY <1>1, <2>2, <2>3, <2>4 DEF HeldIsWaiting
<1>3. HeldOnce'
  <2>1. /\ \A i \in 1..Len(tasks) : tasks[i].sync => tasks[i].by # t
        /\ \A i \in 1..Len(pending) : pending[i].sync => pending[i].by # t
    BY DEF HeldIsWaiting, Waiting
  <2>2. \A i, j \in 1..Len(tasks') :
          tasks'[i].sync /\ tasks'[j].sync /\ tasks'[i].by = tasks'[j].by => i = j
    <3> SUFFICES ASSUME NEW i \in 1..Len(tasks'), NEW j \in 1..Len(tasks'),
                        tasks'[i].sync, tasks'[j].sync, tasks'[i].by = tasks'[j].by
                 PROVE  i = j
      OBVIOUS
    <3>1. CASE i \in 1..Len(tasks) /\ j \in 1..Len(tasks)
      BY <1>1, <3>1 DEF HeldOnce
    <3>2. CASE i = Len(tasks) + 1 \/ j = Len(tasks) + 1
      BY <1>1, <2>1, <3>2
    <3> QED
      BY <1>1, <3>1, <3>2
  <2>3. \A i \in 1..Len(tasks'), j \in 1..Len(pending') :
          tasks'[i].sync /\ pending'[j].sync => tasks'[i].by # pending'[j].by
    <3> SUFFICES ASSUME NEW i \in 1..Len(tasks'), NEW j \in 1..Len(pending),
                        tasks'[i].sync, pending[j].sync
                 PROVE  tasks'[i].by # pending[j].by
      OBVIOUS
    <3>1. CASE i \in 1..Len(tasks)
      BY <1>1, <3>1 DEF HeldOnce
    <3>2. CASE i = Len(tasks) + 1
      BY <1>1, <2>1, <3>2
    <3> QED
      BY <1>1, <3>1, <3>2
  <2>4. \A i, j \in 1..Len(pending') :
          pending'[i].sync /\ pending'[j].sync /\ pending'[i].by = pending'[j].by => i = j
    BY DEF HeldOnce
  <2> QED
    BY <2>2, <2>3, <2>4 DEF HeldOnce
<1>4. SwapIsClean'
  BY DEF SwapIsClean
<1>5. BlockedCallIsHeld'
  <2> SUFFICES ASSUME NEW u \in Callers, call'[u] = "waiting"
               PROVE  \E q \in {tasks', pending'} : \E i \in 1..Len(q) :
                        q[i].sync /\ q[i].by = u /\ q[i].n = calls'[u]
    BY DEF BlockedCallIsHeld
  <2>1. CASE u = t
    <3>1. sync /\ calls'[u] = n
      BY <2>1
    <3>2. w.sync /\ w.by = u /\ w.n = calls'[u]
      BY <2>1, <3>1
    <3> QED
      BY <1>1, <3>2
  <2>2. CASE u # t
    <3>1. call[u] = "waiting" /\ calls'[u] = calls[u]
      BY <2>2
    <3>2. PICK q \in {tasks, pending} : \E i \in 1..Len(q) :
            q[i].sync /\ q[i].by = u /\ q[i].n = calls[u]
      BY <3>1 DEF BlockedCallIsHeld
    <3>3. CASE q = tasks
      <4>1. PICK i \in 1..Len(tasks) : tasks[i].sync /\ tasks[i].by = u /\ tasks[i].n = calls[u]
        BY <3>2, <3>3
      <4>2. i \in 1..Len(tasks') /\ tasks'[i] = tasks[i]
        BY <1>1
      <4> QED BY <3>1, <4>1, <4>2
    <3>4. CASE q = pending
      BY <3>1, <3>2, <3>4
    <3> QED
      BY <3>2, <3>3, <3>4
  <2> QED
    BY <2>1, <2>2
<1> QED
  BY <1>2, <1>3, <1>4, <1>5

\* A thread that is not blocked changes nothing of this by a step of its own.
LEMMA OtherStep ==
  ASSUME CallsMatch, NEW t \in Threads,
         t \in Callers => call[t] # "waiting",
         UNCHANGED <<tasks, pending, main>>,
         \A u \in Callers \ {t} : call'[u] = call[u] /\ calls'[u] = calls[u],
         t \in Callers => call'[t] # "waiting"
  PROVE  HeldIsWaiting' /\ HeldOnce' /\ SwapIsClean' /\ BlockedCallIsHeld'
<1>1. HeldIsWaiting'
  <2>1. \A w : Waiting(w) => Waiting(w)'
    BY DEF Waiting
  <2> QED BY <2>1 DEF CallsMatch, HeldIsWaiting
<1>2. HeldOnce' /\ SwapIsClean'
  BY DEF CallsMatch, HeldOnce, SwapIsClean
<1>3. BlockedCallIsHeld'
  BY DEF CallsMatch, BlockedCallIsHeld
<1> QED
  BY <1>1, <1>2, <1>3

\* A step of drain() that leaves the tasks and the calls alone.
LEMMA QuietStep ==
  ASSUME CallsMatch, UNCHANGED <<tasks, pending, call, calls>>,
         main' \in {"outside", "swap", "wait"} => pending = <<>>
  PROVE  HeldIsWaiting' /\ HeldOnce' /\ SwapIsClean' /\ BlockedCallIsHeld'
<1>1. HeldIsWaiting' /\ HeldOnce'
  BY DEF CallsMatch, HeldIsWaiting, HeldOnce, Waiting
<1>2. SwapIsClean'
  BY DEF SwapIsClean
<1>3. BlockedCallIsHeld'
  BY DEF CallsMatch, BlockedCallIsHeld
<1> QED
  BY <1>1, <1>2, <1>3

\* close() fails the queued calls, and their callers are not blocked any more;
\* the batch in progress keeps its own.
LEMMA CloseStep ==
  ASSUME CallsMatch, Close
  PROVE  HeldIsWaiting' /\ HeldOnce' /\ SwapIsClean' /\ BlockedCallIsHeld'
<1> USE DEF CallsMatch
<1>1. /\ tasks' = <<>> /\ Len(tasks') = 0
      /\ UNCHANGED <<pending, calls, main>>
  BY DEF Close, drainVars
<1>2. ASSUME NEW t \in Callers
      PROVE  call'[t] = IF \E i \in 1..Len(tasks) : tasks[i].sync /\ tasks[i].by = t
                          THEN "cancelled" ELSE call[t]
  BY DEF Close
<1>3. HeldIsWaiting'
  <2> SUFFICES ASSUME NEW j \in 1..Len(pending), pending[j].sync
               PROVE  call'[pending[j].by] = "waiting" /\ Waiting(pending[j])
    BY <1>1 DEF HeldIsWaiting, Waiting
  <2>1. Waiting(pending[j])
    BY DEF HeldIsWaiting
  <2>2. ~ \E i \in 1..Len(tasks) : tasks[i].sync /\ tasks[i].by = pending[j].by
    BY DEF HeldOnce
  <2> QED
    BY <1>2, <2>1, <2>2 DEF Waiting
<1>4. HeldOnce' /\ SwapIsClean'
  BY <1>1 DEF HeldOnce, SwapIsClean
<1>5. BlockedCallIsHeld'
  <2> SUFFICES ASSUME NEW t \in Callers, call'[t] = "waiting"
               PROVE  \E i \in 1..Len(pending) :
                        pending[i].sync /\ pending[i].by = t /\ pending[i].n = calls[t]
    BY <1>1 DEF BlockedCallIsHeld
  <2>1. /\ call[t] = "waiting"
        /\ ~ \E i \in 1..Len(tasks) : tasks[i].sync /\ tasks[i].by = t
    BY <1>2
  <2> QED
    BY <2>1 DEF BlockedCallIsHeld
<1> QED
  BY <1>3, <1>4, <1>5

\* drain() answers the head of the batch: its caller is released, and as a call is
\* held once, no other task belongs to it.
LEMMA AnswerStep ==
  ASSUME CallsMatch, Answer
  PROVE  HeldIsWaiting' /\ HeldOnce' /\ SwapIsClean' /\ BlockedCallIsHeld'
<1> USE DEF CallsMatch
<1> DEFINE w == Head(pending)
<1>1. pending \in Seq(Task) /\ pending # <<>>
  BY DEF Answer, TypeOK
<1>2. /\ Len(pending) \in Nat /\ Len(pending) >= 1
      /\ pending[1] = w
      /\ pending' = Tail(pending)
      /\ Len(pending') = Len(pending) - 1
      /\ \A i \in 1..Len(pending') : i + 1 \in 1..Len(pending) /\ pending'[i] = pending[i + 1]
  BY <1>1, HeadTailProperties, LenProperties DEF Answer
<1>3. UNCHANGED <<tasks, calls>> /\ main' = "batch"
  BY DEF Answer
<1>4. /\ w.sync => w.by \in Callers /\ call'[w.by] # "waiting"
      /\ \A t \in Callers : ~w.sync \/ t # w.by => call'[t] = call[t]
  <2>1. w.sync => Waiting(w)
    BY <1>2 DEF HeldIsWaiting
  <2>2. call \in [Callers -> CallStates]
    BY DEF TypeOK
  <2> QED
    BY <2>1, <2>2 DEF Answer, Waiting
<1>5. HeldIsWaiting'
  <2>1. ASSUME NEW i \in 1..Len(tasks), tasks[i].sync
        PROVE  call'[tasks[i].by] = "waiting" /\ Waiting(tasks[i])
    <3>1. Waiting(tasks[i])
      BY <2>1 DEF HeldIsWaiting
    <3>2. w.sync => tasks[i].by # w.by
      BY <1>2, <2>1 DEF HeldOnce
    <3> QED
      BY <1>4, <3>1, <3>2 DEF Waiting
  <2>2. ASSUME NEW i \in 1..Len(pending'), pending'[i].sync
        PROVE  call'[pending'[i].by] = "waiting" /\ Waiting(pending'[i])
    <3>1. Waiting(pending'[i])
      BY <1>2, <2>2 DEF HeldIsWaiting
    <3>2. w.sync => pending'[i].by # w.by
      <4>1. i + 1 # 1
        BY <1>2
      <4> QED
        BY <1>2, <2>2, <4>1 DEF HeldOnce
    <3> QED
      BY <1>4, <3>1, <3>2 DEF Waiting
  <2> QED
    BY <1>3, <2>1, <2>2 DEF HeldIsWaiting, Waiting
<1>6. HeldOnce'
  <2>1. \A i, j \in 1..Len(pending') :
          pending'[i].sync /\ pending'[j].sync /\ pending'[i].by = pending'[j].by => i = j
    <3> SUFFICES ASSUME NEW i \in 1..Len(pending'), NEW j \in 1..Len(pending'),
                        pending'[i].sync, pending'[j].sync, pending'[i].by = pending'[j].by
                 PROVE  i = j
      OBVIOUS
    <3>1. i + 1 = j + 1
      BY <1>2 DEF HeldOnce
    <3> QED
      BY <1>2, <3>1
  <2>2. \A i \in 1..Len(tasks), j \in 1..Len(pending') :
          tasks[i].sync /\ pending'[j].sync => tasks[i].by # pending'[j].by
    BY <1>2 DEF HeldOnce
  <2> QED
    BY <1>3, <2>1, <2>2 DEF HeldOnce
<1>7. SwapIsClean'
  BY <1>3 DEF SwapIsClean
<1>8. BlockedCallIsHeld'
  <2> SUFFICES ASSUME NEW t \in Callers, call'[t] = "waiting"
               PROVE  \E q \in {tasks, pending'} : \E i \in 1..Len(q) :
                        q[i].sync /\ q[i].by = t /\ q[i].n = calls[t]
    BY <1>3 DEF BlockedCallIsHeld
  <2>1. call[t] = "waiting" /\ (~w.sync \/ t # w.by)
    BY <1>4
  <2>2. PICK q \in {tasks, pending} : \E i \in 1..Len(q) :
          q[i].sync /\ q[i].by = t /\ q[i].n = calls[t]
    BY <2>1 DEF BlockedCallIsHeld
  <2>3. CASE q = tasks
    BY <2>2, <2>3
  <2>4. CASE q = pending
    <3>1. PICK i \in 1..Len(pending) :
            pending[i].sync /\ pending[i].by = t /\ pending[i].n = calls[t]
      BY <2>2, <2>4
    <3>2. i # 1
      BY <1>2, <2>1, <3>1
    <3>3. i - 1 \in 1..Len(pending') /\ pending'[i - 1] = pending[i]
      BY <1>2, <3>2
    <3> QED
      BY <3>1, <3>3
  <2> QED
    BY <2>2, <2>3, <2>4
<1> QED
  BY <1>5, <1>6, <1>7, <1>8

\* Every step of the queue, its callers and the main thread keeps calls and tasks
\* matched.
LEMMA NextCallsMatch == CallsMatch /\ [Next]_vars => CallsMatch'
<1> SUFFICES ASSUME CallsMatch, [Next]_vars
             PROVE  HeldIsWaiting' /\ HeldOnce' /\ SwapIsClean' /\ BlockedCallIsHeld'
  BY NextType DEF CallsMatch
<1>0. TypeOK
  BY DEF CallsMatch
<1>1. ASSUME NEW t \in Threads, Post(t)
      PROVE  HeldIsWaiting' /\ HeldOnce' /\ SwapIsClean' /\ BlockedCallIsHeld'
  <2>1. /\ t \in Callers => call[t] # "waiting"
        /\ calls' = [calls EXCEPT ![t] = calls[t] + 1] /\ call' = call
        /\ UNCHANGED <<pending, main>>
        /\ calls[t] + 1 \in Nat
    BY <1>0, <1>1, CallersAssumption DEF Post, Calling, drainVars, TypeOK
  <2>2. CASE closed
    BY <1>0, <1>1, <2>1, <2>2, OtherStep DEF Post, TypeOK, Threads
  <2>3. CASE ~closed
    <3>1. tasks' = Append(tasks, NewTask(t, FALSE)) /\ NewTask(t, FALSE) \in Task
      BY <1>1, <2>1, <2>3 DEF Post, Enqueue, NewTask, Task
    <3> QED
      BY <2>1, <3>1, CallerStep DEF NewTask
  <2> QED
    BY <2>2, <2>3
<1>2. ASSUME NEW t \in Callers, RunSync(t)
      PROVE  HeldIsWaiting' /\ HeldOnce' /\ SwapIsClean' /\ BlockedCallIsHeld'
  <2>1. /\ t \in Threads /\ call[t] # "waiting"
        /\ calls' = [calls EXCEPT ![t] = calls[t] + 1]
        /\ UNCHANGED <<pending, main>>
        /\ calls[t] + 1 \in Nat
    BY <1>0, <1>2, CallersAssumption DEF RunSync, Calling, drainVars, TypeOK, Threads
  <2>2. CASE closed
    BY <1>0, <1>2, <2>1, <2>2, OtherStep DEF RunSync, TypeOK, Threads
  <2>3. CASE ~closed
    <3>1. /\ tasks' = Append(tasks, NewTask(t, TRUE)) /\ NewTask(t, TRUE) \in Task
          /\ call' = [call EXCEPT ![t] = "waiting"]
      BY <1>2, <2>1, <2>3 DEF RunSync, Enqueue, NewTask, Task
    <3> QED
      BY <2>1, <3>1, CallerStep DEF NewTask
  <2> QED
    BY <2>2, <2>3
<1>3. ASSUME NEW t \in Callers, Return(t)
      PROVE  HeldIsWaiting' /\ HeldOnce' /\ SwapIsClean' /\ BlockedCallIsHeld'
  BY <1>0, <1>3, OtherStep DEF Return, TypeOK, Threads, drainVars
<1>4. ASSUME RunSyncInline
      PROVE  HeldIsWaiting' /\ HeldOnce' /\ SwapIsClean' /\ BlockedCallIsHeld'
  <2>1. Main \in Threads /\ Main \notin Callers
    BY CallersAssumption DEF Threads
  <2>2. \A u \in Callers : calls'[u] = calls[u]
    BY <1>0, <1>4, <2>1 DEF RunSyncInline, Calling, TypeOK, Threads
  <2> QED
    BY <1>4, <2>1, <2>2, OtherStep DEF RunSyncInline, drainVars
<1>5. CASE Close
  BY <1>5, CloseStep
<1>6. CASE Drain
  <2>1. CASE SwapBatch
    <3>1. pending = <<>>
      BY <2>1 DEF SwapBatch, CallsMatch, SwapIsClean
    <3>2. /\ tasks' = <<>> /\ pending' = tasks /\ main' = "batch"
          /\ UNCHANGED <<call, calls>> /\ Len(<<>>) = 0
      BY <2>1 DEF SwapBatch
    <3>3. HeldIsWaiting' /\ HeldOnce'
      BY <3>2 DEF CallsMatch, HeldIsWaiting, HeldOnce, Waiting
    <3>4. SwapIsClean'
      BY <3>2 DEF SwapIsClean
    <3>5. BlockedCallIsHeld'
      BY <3>1, <3>2 DEF CallsMatch, BlockedCallIsHeld
    <3> QED
      BY <3>3, <3>4, <3>5
  <2>2. CASE Answer
    BY <2>2, AnswerStep
  <2>3. CASE DrainBegin
    BY <2>3, QuietStep DEF DrainBegin, CallsMatch, SwapIsClean
  <2>4. CASE StartTask \/ FinishTask \/ SkipTask
    BY <2>4, QuietStep DEF StartTask, FinishTask, SkipTask
  <2>5. CASE EndBatch
    BY <2>5, QuietStep DEF EndBatch
  <2>6. CASE WaitWake \/ WaitTimeout
    BY <2>6, QuietStep DEF WaitWake, WaitTimeout, CallsMatch, SwapIsClean
  <2> QED
    BY <1>6, <2>1, <2>2, <2>3, <2>4, <2>5, <2>6 DEF Drain
<1>7. CASE UNCHANGED vars
  BY <1>7, QuietStep DEF vars, CallsMatch, SwapIsClean
<1> QED
  BY <1>1, <1>2, <1>3, <1>4, <1>5, <1>6, <1>7 DEF Next

\* Calls and tasks match in every reachable state.
LEMMA CallsMatchAlways == SafetySpec => []CallsMatch
  BY InitCallsMatch, NextCallsMatch, PTL DEF SafetySpec

\* A call can not be lost: whoever is blocked in run_sync is held by the queue
\* or by the batch in progress, however many threads call and close() races.
THEOREM BlockedCallsAreHeld == SafetySpec => []BlockedCallIsHeld
  BY CallsMatchAlways, PTL DEF CallsMatch

\* Work that refers to its caller's stack starts only while that caller is still
\* blocked on this very call.
THEOREM SyncWorkIsSafe == SafetySpec => SyncWorkOnlyWhileBlocked
<1>1. CallsMatch => [\A t \in Callers :
        (StartTask /\ Head(pending).sync /\ Head(pending).by = t)
          => call[t] = "waiting" /\ Head(pending).n = calls[t]]_vars
  <2> SUFFICES ASSUME CallsMatch, StartTask, Head(pending).sync
               PROVE  Waiting(Head(pending))
    BY DEF Waiting
  <2>1. pending \in Seq(Task) /\ pending # <<>>
    BY DEF CallsMatch, TypeOK, StartTask
  <2>2. 1 \in 1..Len(pending) /\ Head(pending) = pending[1]
    BY <2>1, HeadTailProperties, LenProperties
  <2> QED
    BY <2>2 DEF CallsMatch, HeldIsWaiting
<1> QED
  BY <1>1, CallsMatchAlways, PTL DEF SyncWorkOnlyWhileBlocked

\* Nothing runs against Godot after close(), for any number of callers.
THEOREM ClosedQueueRunsNothing == SafetySpec => NothingStartsAfterClose
<1>1. [Next]_vars => [closed => ran' = ran /\ inlined' = inlined]_vars
  <2> SUFFICES ASSUME Next, closed PROVE ran' = ran /\ inlined' = inlined
    OBVIOUS
  <2>1. CASE Drain
    BY <2>1 DEF Drain, DrainBegin, SwapBatch, StartTask, FinishTask, SkipTask,
                Answer, EndBatch, WaitWake, WaitTimeout
  <2>2. CASE RunSyncInline \/ Close
    BY <2>2 DEF RunSyncInline, Close
  <2>3. CASE (\E t \in Threads : Post(t)) \/ (\E t \in Callers : RunSync(t) \/ Return(t))
    BY <2>3 DEF Post, RunSync, Return
  <2> QED
    BY <2>1, <2>2, <2>3 DEF Next
<1> QED
  BY <1>1, PTL DEF SafetySpec, NothingStartsAfterClose
-----------------------------------------------------------------------------
(* What ran is a prefix of what was queued. *)

\* The head of the batch has begun, and is in `ran` already.
Begun == IF main \in {"working", "answer"} THEN 1 ELSE 0

\* While the queue is open, what has not run is the rest of the batch and then
\* the queue, in the order of `accepted`.
RestIsHeld ==
  LET before == Len(ran) - Begun
  IN /\ before >= 0
     /\ Len(accepted) = before + Len(pending) + Len(tasks)
     /\ \A i \in 1..Len(pending) : accepted[before + i] = pending[i]
     /\ \A i \in 1..Len(tasks) : accepted[before + Len(pending) + i] = tasks[i]

OrderIsKept == CallsMatch /\ RunsInOrder /\ (~closed => RestIsHeld)

\* The fields the order depends on are sequences of tasks of some length.
LEMMA Lengths ==
  ASSUME TypeOK
  PROVE  /\ Len(accepted) \in Nat /\ Len(ran) \in Nat /\ Len(pending) \in Nat
         /\ Len(tasks) \in Nat /\ Begun \in {0, 1}
         /\ main \in {"working", "answer"} => Len(pending) >= 1
BY LenProperties, EmptySeq DEF TypeOK, Begun

\* A task that is queued is the last of both.
LEMMA EnqueueKeepsOrder ==
  ASSUME OrderIsKept, ~closed, NEW w \in Task, Enqueue(w),
         UNCHANGED <<ran, pending, main>>
  PROVE  RunsInOrder' /\ RestIsHeld'
<1>1. /\ accepted' = Append(accepted, w) /\ tasks' = Append(tasks, w)
      /\ accepted \in Seq(Task) /\ tasks \in Seq(Task)
  BY DEF Enqueue, OrderIsKept, CallsMatch, TypeOK
<1>2. /\ Len(accepted') = Len(accepted) + 1 /\ accepted'[Len(accepted) + 1] = w
      /\ \A i \in 1..Len(accepted) : accepted'[i] = accepted[i]
      /\ Len(tasks') = Len(tasks) + 1 /\ tasks'[Len(tasks) + 1] = w
      /\ \A i \in 1..Len(tasks) : tasks'[i] = tasks[i]
  BY <1>1, AppendProperties
<1> DEFINE before == Len(ran) - Begun
<1>3. /\ Len(accepted) \in Nat /\ Len(ran) \in Nat /\ Len(pending) \in Nat /\ Len(tasks) \in Nat
      /\ before \in Nat /\ before' = before
  BY Lengths DEF OrderIsKept, CallsMatch, RestIsHeld, Begun
<1>4. /\ Len(accepted) = before + Len(pending) + Len(tasks)
      /\ \A i \in 1..Len(pending) : accepted[before + i] = pending[i]
      /\ \A i \in 1..Len(tasks) : accepted[before + Len(pending) + i] = tasks[i]
  BY DEF OrderIsKept, RestIsHeld
<1>5. RunsInOrder'
  BY <1>2, <1>3 DEF RunsInOrder, OrderIsKept
<1> HIDE DEF before
<1>6. /\ Len(accepted') = before + Len(pending) + Len(tasks')
      /\ \A i \in 1..Len(pending) : accepted'[before + i] = pending[i]
      /\ \A i \in 1..Len(tasks') : accepted'[before + Len(pending) + i] = tasks'[i]
  <2>1. Len(accepted') = before + Len(pending) + Len(tasks')
    BY <1>2, <1>3, <1>4
  <2>2. ASSUME NEW i \in 1..Len(pending) PROVE accepted'[before + i] = pending[i]
    <3>1. before + i \in 1..Len(accepted)
      BY <1>3, <1>4
    <3> QED BY <1>2, <1>4, <3>1
  <2>3. ASSUME NEW i \in 1..Len(tasks')
        PROVE  accepted'[before + Len(pending) + i] = tasks'[i]
    <3>1. CASE i \in 1..Len(tasks)
      <4>1. before + Len(pending) + i \in 1..Len(accepted)
        BY <1>3, <1>4, <3>1
      <4> QED BY <1>2, <1>4, <3>1, <4>1
    <3>2. CASE i = Len(tasks) + 1
      <4>1. before + Len(pending) + i = Len(accepted) + 1
        BY <1>3, <1>4, <3>2
      <4> QED BY <1>2, <3>2, <4>1
    <3> QED BY <1>2, <1>3, <3>1, <3>2
  <2> QED BY <2>1, <2>2, <2>3
<1>7. RestIsHeld'
  BY <1>3, <1>6 DEF RestIsHeld, before
<1> QED
  BY <1>5, <1>7

\* swap() makes the queue the batch, which was empty.
LEMMA SwapKeepsOrder ==
  ASSUME OrderIsKept, SwapBatch
  PROVE  RunsInOrder' /\ (~closed' => RestIsHeld')
<1>1. /\ pending = <<>> /\ pending' = tasks /\ tasks' = <<>>
      /\ UNCHANGED <<closed, ran, accepted>> /\ main = "swap" /\ main' = "batch"
  BY DEF SwapBatch, OrderIsKept, CallsMatch, SwapIsClean
<1>2. Len(<<>>) = 0
  BY EmptySeq
<1>3. RunsInOrder'
  BY <1>1 DEF OrderIsKept, RunsInOrder
<1>4. Len(ran) \in Nat /\ Len(tasks) \in Nat /\ Begun = 0 /\ Begun' = 0
  BY <1>1, Lengths DEF OrderIsKept, CallsMatch, Begun
<1>5. RestIsHeld => RestIsHeld'
  BY <1>1, <1>2, <1>4 DEF RestIsHeld
<1> QED
  BY <1>1, <1>3, <1>5 DEF OrderIsKept

\* The next task that starts is the next that was queued.
LEMMA StartKeepsOrder ==
  ASSUME OrderIsKept, StartTask
  PROVE  RunsInOrder' /\ RestIsHeld'
<1>1. /\ pending # <<>> /\ ran' = Append(ran, Head(pending)) /\ main = "batch" /\ main' = "working"
      /\ UNCHANGED <<accepted, pending, tasks>> /\ RestIsHeld
      /\ ran \in Seq(Task) /\ pending \in Seq(Task)
  BY DEF StartTask, OrderIsKept, CallsMatch, TypeOK
<1>2. Len(pending) \in Nat /\ Len(pending) >= 1 /\ Head(pending) = pending[1]
      /\ Head(pending) \in Task
  BY <1>1, HeadTailProperties, LenProperties
<1>3. /\ Len(ran') = Len(ran) + 1 /\ ran'[Len(ran) + 1] = pending[1]
      /\ \A i \in 1..Len(ran) : ran'[i] = ran[i]
  BY <1>1, <1>2, AppendProperties
<1>4. /\ Len(ran) \in Nat /\ Len(tasks) \in Nat /\ Len(accepted) \in Nat
      /\ Begun = 0 /\ Begun' = 1
  BY <1>1, Lengths DEF OrderIsKept, CallsMatch, Begun
<1>5. /\ Len(accepted) = Len(ran) + Len(pending) + Len(tasks)
      /\ accepted[Len(ran) + 1] = pending[1]
  BY <1>1, <1>2, <1>4 DEF RestIsHeld
<1>6. RunsInOrder'
  BY <1>1, <1>2, <1>3, <1>4, <1>5 DEF OrderIsKept, RunsInOrder
<1>7. RestIsHeld'
  BY <1>1, <1>2, <1>3, <1>4 DEF RestIsHeld
<1> QED
  BY <1>6, <1>7

\* A task that is answered is taken off the batch, which began with it.
LEMMA AnswerKeepsOrder ==
  ASSUME OrderIsKept, Answer
  PROVE  RunsInOrder' /\ (~closed' => RestIsHeld')
<1>1. /\ pending # <<>> /\ pending' = Tail(pending) /\ main = "answer" /\ main' = "batch"
      /\ UNCHANGED <<accepted, ran, tasks, closed>> /\ pending \in Seq(Task)
  BY DEF Answer, OrderIsKept, CallsMatch, TypeOK
<1>2. /\ Len(pending) \in Nat /\ Len(pending) >= 1 /\ Len(pending') = Len(pending) - 1
      /\ \A i \in 1..Len(pending') : i + 1 \in 1..Len(pending) /\ pending'[i] = pending[i + 1]
  BY <1>1, HeadTailProperties, LenProperties
<1>3. Len(ran) \in Nat /\ Len(tasks) \in Nat /\ Begun = 1 /\ Begun' = 0
  BY <1>1, Lengths DEF OrderIsKept, CallsMatch, Begun
<1>4. RunsInOrder'
  BY <1>1 DEF OrderIsKept, RunsInOrder
<1>5. RestIsHeld => RestIsHeld'
  <2> SUFFICES ASSUME RestIsHeld PROVE RestIsHeld'
    OBVIOUS
  <2> DEFINE before == Len(ran) - 1
  <2>1. /\ before \in Nat
        /\ Len(accepted) = before + Len(pending) + Len(tasks)
        /\ \A i \in 1..Len(pending) : accepted[before + i] = pending[i]
        /\ \A i \in 1..Len(tasks) : accepted[before + Len(pending) + i] = tasks[i]
    BY <1>3 DEF RestIsHeld
  <2>2. Len(ran) = before + 1 /\ Len(ran) + Len(pending') = before + Len(pending)
    BY <1>2, <1>3
  <2>3. \A i \in 1..Len(pending') : accepted[Len(ran) + i] = pending'[i]
    <3> SUFFICES ASSUME NEW i \in 1..Len(pending') PROVE accepted[Len(ran) + i] = pending'[i]
      OBVIOUS
    <3>1. Len(ran) + i = before + (i + 1)
      BY <1>2, <2>1, <2>2
    <3> QED BY <1>2, <2>1, <3>1
  <2>4. Len(accepted) = Len(ran) + Len(pending') + Len(tasks)
    BY <2>1, <2>2
  <2> HIDE DEF before
  <2> QED BY <1>1, <1>3, <2>1, <2>2, <2>3, <2>4 DEF RestIsHeld
<1> QED
  BY <1>1, <1>4, <1>5 DEF OrderIsKept

\* Steps that leave the order alone, and may close the queue.
LEMMA OrderUntouched ==
  ASSUME OrderIsKept, UNCHANGED <<accepted, ran>>,
         ~closed' => ~closed /\ UNCHANGED <<pending, tasks>> /\ Begun' = Begun
  PROVE  RunsInOrder' /\ (~closed' => RestIsHeld')
BY DEF OrderIsKept, RunsInOrder, RestIsHeld

\* Every step keeps the order: what ran and what is held are what was accepted.
LEMMA NextOrderIsKept == OrderIsKept /\ [Next]_vars => OrderIsKept'
<1> SUFFICES ASSUME OrderIsKept, [Next]_vars
             PROVE  RunsInOrder' /\ (~closed' => RestIsHeld')
  BY NextCallsMatch DEF OrderIsKept
<1>0. TypeOK
  BY DEF OrderIsKept, CallsMatch
<1>1. ASSUME NEW t \in Threads, NEW sync \in BOOLEAN, calls[t] \in Nat,
             Enqueue(NewTask(t, sync)), ~closed, UNCHANGED <<closed, ran, drainVars>>
      PROVE  RunsInOrder' /\ (~closed' => RestIsHeld')
  <2>1. NewTask(t, sync) \in Task
    BY <1>1 DEF NewTask, Task
  <2> QED BY <1>1, <2>1, EnqueueKeepsOrder DEF drainVars
<1>2. ASSUME NEW t \in Threads, Post(t) PROVE RunsInOrder' /\ (~closed' => RestIsHeld')
  BY <1>0, <1>1, <1>2, OrderUntouched DEF Post, drainVars, Begun, TypeOK
<1>3. ASSUME NEW t \in Callers, RunSync(t) PROVE RunsInOrder' /\ (~closed' => RestIsHeld')
  BY <1>0, <1>1, <1>3, OrderUntouched DEF RunSync, drainVars, Begun, TypeOK, Threads
<1>4. ASSUME NEW t \in Callers, Return(t) PROVE RunsInOrder' /\ (~closed' => RestIsHeld')
  BY <1>4, OrderUntouched DEF Return, drainVars, Begun
<1>5. CASE RunSyncInline \/ Close
  BY <1>5, OrderUntouched DEF RunSyncInline, Close, drainVars, Begun
<1>6. CASE SwapBatch
  BY <1>6, SwapKeepsOrder
<1>7. CASE StartTask
  BY <1>7, StartKeepsOrder
<1>8. CASE Answer
  BY <1>8, AnswerKeepsOrder
<1>9. CASE SkipTask
  BY <1>9, OrderUntouched DEF SkipTask
<1>10. CASE DrainBegin \/ FinishTask \/ EndBatch \/ WaitWake \/ WaitTimeout
  BY <1>10, OrderUntouched
  DEF DrainBegin, FinishTask, EndBatch, WaitWake, WaitTimeout, Begun
<1>11. CASE UNCHANGED vars
  BY <1>11, OrderUntouched DEF vars, Begun
<1> QED
  BY <1>2, <1>3, <1>4, <1>5, <1>6, <1>7, <1>8, <1>9, <1>10, <1>11 DEF Next, Drain

\* Work runs in the order it was queued and at most once, whatever is posted,
\* called or closed while a batch is in progress.
THEOREM WorkRunsInOrder == SafetySpec => []RunsInOrder
<1>1. Init => OrderIsKept
  <2> SUFFICES ASSUME Init PROVE RunsInOrder /\ RestIsHeld
    BY InitCallsMatch DEF OrderIsKept
  <2>1. Len(<<>>) = 0
    BY EmptySeq
  <2> QED BY <2>1 DEF Init, RunsInOrder, RestIsHeld, Begun
<1>2. OrderIsKept => RunsInOrder
  BY DEF OrderIsKept
<1> QED
  BY <1>1, <1>2, NextOrderIsKept, PTL DEF SafetySpec
-----------------------------------------------------------------------------
(* The queue implements SyncCalls, step by step. *)

\* A task is skipped only when one before it has closed the queue.
SkippedIsClosed == /\ main = "working" => open
                   /\ main = "answer" /\ ~open => closed

Matched == CallsMatch /\ SkippedIsClosed

\* What SyncCalls sees of the callers.
Seen == [t \in Callers |-> Phase(t)]

\* A task is in hand while its caller waits, and of one caller at most.
LEMMA InHandWaits ==
  ASSUME Matched, NEW t \in Callers, InHand(t)
  PROVE  /\ call[t] = "waiting" /\ \A u \in Callers : InHand(u) => u = t
         /\ \A i \in 1..Len(tasks) : tasks[i].sync => tasks[i].by # t
<1>1. /\ pending \in Seq(Task) /\ pending # <<>>
      /\ Head(pending).sync /\ Head(pending).by = t
  BY DEF InHand, Matched, CallsMatch, TypeOK
<1>2. 1 \in 1..Len(pending) /\ Head(pending) = pending[1]
  BY <1>1, HeadTailProperties, LenProperties
<1>3. Waiting(pending[1])
  BY <1>1, <1>2 DEF Matched, CallsMatch, HeldIsWaiting
<1>4. \A i \in 1..Len(tasks) : tasks[i].sync => tasks[i].by # t
  BY <1>1, <1>2 DEF Matched, CallsMatch, HeldOnce
<1> QED
  BY <1>1, <1>2, <1>3, <1>4 DEF InHand, Waiting

\* A task that starts or is answered is the one its caller is blocked on.
LEMMA HeadWaits ==
  ASSUME Matched, pending # <<>>, Head(pending).sync
  PROVE  Waiting(Head(pending))
<1>1. pending \in Seq(Task)
  BY DEF Matched, CallsMatch, TypeOK
<1>2. 1 \in 1..Len(pending) /\ Head(pending) = pending[1]
  BY <1>1, HeadTailProperties, LenProperties
<1> QED
  BY <1>2 DEF Matched, CallsMatch, HeldIsWaiting

\* When nothing of it changes, SyncCalls sees nothing.
LEMMA Stutter ==
  ASSUME UNCHANGED <<closed, call>>, \A t \in Callers : InHand(t)' <=> InHand(t)
  PROVE  UNCHANGED <<closed, Seen>>
<1>1. \A t \in Callers : Phase(t)' = Phase(t)
  BY DEF Phase
<1> QED
  BY <1>1 DEF Seen

\* One caller's request moves on, and the others stay.
LEMMA MoveOne ==
  ASSUME NEW t \in Callers, \A u \in Callers \ {t} : Phase(u)' = Phase(u)
  PROVE  Seen' = [Seen EXCEPT ![t] = Phase(t)']
BY DEF Seen

\* Work is skipped only by a queue that has been closed.
LEMMA NextSkippedIsClosed == Matched /\ [Next]_vars => Matched'
<1> SUFFICES ASSUME Matched, [Next]_vars PROVE SkippedIsClosed'
  BY NextCallsMatch DEF Matched
<1> USE DEF Matched, SkippedIsClosed
<1>1. CASE Drain
  BY <1>1 DEF Drain, DrainBegin, SwapBatch, StartTask, FinishTask, SkipTask, Answer, EndBatch,
              WaitWake, WaitTimeout
<1> QED
  BY <1>1 DEF Next, Post, RunSync, Return, RunSyncInline, Close, drainVars, vars

\* Steps of the callers.
LEMMA CallersRefine ==
  ASSUME Matched, NEW t \in Callers, RunSync(t) \/ Return(t)
  PROVE  Abstract!Ask(t) \/ Abstract!Leave(t)
<1>1. call \in [Callers -> CallStates]
  BY DEF Matched, CallsMatch, TypeOK
<1>2. ~InHand(t) /\ UNCHANGED <<pending, main, open, closed>>
  BY InHandWaits DEF RunSync, Return, Calling, drainVars
<1>3. \A u \in Callers : InHand(u)' <=> InHand(u)
  BY <1>2 DEF InHand
<1>4. \A u \in Callers \ {t} : call'[u] = call[u]
  BY <1>1 DEF RunSync, Return
<1>5. Seen' = [Seen EXCEPT ![t] = Phase(t)']
  BY <1>3, <1>4, MoveOne DEF Phase
<1>6. Seen[t] = Phase(t)
  BY DEF Seen
<1>7. CASE RunSync(t)
  <2>1. call[t] = "free" /\ call'[t] = IF closed THEN "cancelled" ELSE "waiting"
    BY <1>1, <1>7, CallersAssumption DEF RunSync, Calling
  <2>2. Phase(t) = "idle" /\ Phase(t)' = IF closed THEN "refused" ELSE "asked"
    BY <1>2, <1>3, <2>1 DEF Phase
  <2> QED BY <1>2, <1>5, <1>6, <2>2 DEF Abstract!Ask, Abstract!Move, Seen
<1>8. CASE Return(t)
  <2>1. call[t] \in {"done", "cancelled"} /\ call'[t] = "free"
    BY <1>1, <1>8 DEF Return
  <2>2. Phase(t) \in {"served", "refused"} /\ Phase(t)' = "idle"
    BY <2>1 DEF Phase
  <2> QED BY <1>2, <1>5, <1>6, <2>2 DEF Abstract!Leave, Abstract!Move, Seen
<1> QED BY <1>7, <1>8

\* close() fails the queued calls, never the one whose work runs.
LEMMA CloseRefines ==
  ASSUME Matched, Close
  PROVE  Abstract!Shut
<1> DEFINE R == {t \in Callers : \E i \in 1..Len(tasks) : tasks[i].sync /\ tasks[i].by = t}
<1>1. /\ closed' = TRUE /\ UNCHANGED <<pending, main, open>>
      /\ call' = [t \in Callers |-> IF t \in R THEN "cancelled" ELSE call[t]]
  BY DEF Close, drainVars
<1>2. \A t \in Callers : InHand(t)' <=> InHand(t)
  BY <1>1 DEF InHand
<1>3. \A t \in R : call[t] = "waiting" /\ ~InHand(t)
  BY InHandWaits DEF Matched, CallsMatch, HeldIsWaiting, Waiting
<1>4. R \in SUBSET {t \in Callers : Seen[t] = "asked"}
  BY <1>3 DEF Seen, Phase
<1>5. \A t \in Callers : Phase(t)' = IF t \in R THEN "refused" ELSE Seen[t]
  BY <1>1, <1>2 DEF Phase, Seen
<1>6. Seen' = [t \in Callers |-> IF t \in R THEN "refused" ELSE Seen[t]]
  BY <1>5 DEF Seen
<1> HIDE DEF R
<1> QED BY <1>1, <1>4, <1>6 DEF Abstract!Shut, Seen

\* An open queue runs the head of the batch, and no other work is in hand.
LEMMA StartRefines ==
  ASSUME Matched, StartTask
  PROVE  (\E t \in Callers : Abstract!Run(t)) \/ UNCHANGED <<closed, Seen>>
<1>1. /\ pending # <<>> /\ ~closed /\ UNCHANGED <<pending, call, closed>>
      /\ main' = "working" /\ open' = TRUE /\ \A u \in Callers : ~InHand(u)
  BY DEF StartTask, InHand
<1>2. CASE ~Head(pending).sync
  BY <1>1, <1>2, Stutter DEF InHand
<1>3. CASE Head(pending).sync
  <2>1. PICK t \in Callers : t = Head(pending).by /\ call[t] = "waiting"
    BY <1>1, <1>3, HeadWaits DEF Waiting
  <2>2. \A u \in Callers : InHand(u)' <=> u = t
    BY <1>1, <1>3, <2>1 DEF InHand
  <2>3. \A u \in Callers \ {t} : Phase(u)' = Phase(u)
    BY <1>1, <2>2 DEF Phase
  <2>4. Phase(t) = "asked" /\ Phase(t)' = "running" /\ Seen[t] = Phase(t)
    BY <1>1, <2>1, <2>2 DEF Phase, Seen
  <2>5. \A u \in Callers : Seen[u] # "running"
    BY <1>1 DEF Seen, Phase
  <2>6. Seen' = [Seen EXCEPT ![t] = "running"]
    BY <2>1, <2>3, <2>4, MoveOne
  <2> QED BY <1>1, <2>1, <2>4, <2>5, <2>6 DEF Abstract!Run, Abstract!Move, Seen
<1> QED BY <1>2, <1>3

\* The answer says whether the work ran: a task that is skipped is refused.
LEMMA AnswerRefines ==
  ASSUME Matched, Answer
  PROVE  (\E t \in Callers : Abstract!Serve(t) \/ Abstract!Refuse(t)) \/ UNCHANGED <<closed, Seen>>
<1>1. /\ pending # <<>> /\ main = "answer" /\ main' = "batch" /\ UNCHANGED closed
      /\ call \in [Callers -> CallStates] /\ (~open => closed)
  BY DEF Answer, Matched, CallsMatch, TypeOK, SkippedIsClosed
<1>2. \A u \in Callers : ~InHand(u)'
  BY <1>1 DEF InHand
<1>3. CASE ~Head(pending).sync
  <2>1. \A u \in Callers : ~InHand(u)
    BY <1>3 DEF InHand
  <2> QED BY <1>1, <1>2, <1>3, <2>1, Stutter DEF Answer
<1>4. CASE Head(pending).sync
  <2>1. PICK t \in Callers : t = Head(pending).by /\ call[t] = "waiting"
    BY <1>1, <1>4, HeadWaits DEF Waiting
  <2>2. /\ call'[t] = IF open THEN "done" ELSE "cancelled"
        /\ \A u \in Callers \ {t} : call'[u] = call[u]
    BY <1>1, <1>4, <2>1 DEF Answer
  <2>3. (InHand(t) <=> open) /\ \A u \in Callers \ {t} : ~InHand(u)
    BY <1>1, <1>4, <2>1 DEF InHand
  <2>4. \A u \in Callers \ {t} : Phase(u)' = Phase(u)
    BY <1>2, <2>2, <2>3 DEF Phase
  <2>5. /\ Seen[t] = IF open THEN "running" ELSE "asked"
        /\ Phase(t)' = IF open THEN "served" ELSE "refused"
    BY <1>2, <2>1, <2>2, <2>3 DEF Phase, Seen
  <2>6. Seen' = [Seen EXCEPT ![t] = Phase(t)']
    BY <2>1, <2>4, MoveOne
  <2>7. CASE open
    BY <1>1, <2>1, <2>5, <2>6, <2>7 DEF Abstract!Serve, Abstract!Move, Seen
  <2>8. CASE ~open
    BY <1>1, <2>1, <2>5, <2>6, <2>8 DEF Abstract!Refuse, Abstract!Move, Seen
  <2> QED BY <2>7, <2>8
<1> QED BY <1>3, <1>4

\* Every step of the queue is one of SyncCalls, or none.
LEMMA StepRefines ==
  ASSUME Matched, [Next]_vars
  PROVE  [Abstract!Next]_<<closed, Seen>>
<1>1. CASE UNCHANGED <<closed, call, pending, main, open>>
  BY <1>1, Stutter DEF InHand
<1>2. ASSUME NEW t \in Threads, Post(t) PROVE UNCHANGED <<closed, call, pending, main, open>>
  BY <1>2 DEF Post, drainVars
<1>3. CASE RunSyncInline
  BY <1>1, <1>3 DEF RunSyncInline, drainVars
<1>4. ASSUME NEW t \in Callers, RunSync(t) \/ Return(t) PROVE Abstract!Next
  BY <1>4, CallersRefine DEF Abstract!Next
<1>5. CASE Close
  BY <1>5, CloseRefines DEF Abstract!Next
<1>6. CASE StartTask
  BY <1>6, StartRefines DEF Abstract!Next
<1>7. CASE Answer
  BY <1>7, AnswerRefines DEF Abstract!Next
<1>8. CASE FinishTask
  BY <1>8, Stutter DEF FinishTask, InHand
<1>9. CASE DrainBegin \/ SwapBatch \/ SkipTask \/ EndBatch \/ WaitWake \/ WaitTimeout
  <2>1. /\ UNCHANGED <<closed, call>> /\ main \notin {"working", "answer"}
        /\ main' \in {"working", "answer"} => ~open'
    BY <1>9 DEF DrainBegin, SwapBatch, SkipTask, EndBatch, WaitWake, WaitTimeout
  <2> QED BY <2>1, Stutter DEF InHand
<1>10. CASE UNCHANGED vars
  BY <1>1, <1>10 DEF vars
<1> QED
  BY <1>1, <1>2, <1>3, <1>4, <1>5, <1>6, <1>7, <1>8, <1>9, <1>10 DEF Next, Drain

\* The queue, with its batches, its waits and its close(), gives every caller of
\* run_sync what SyncCalls promises, however many threads call it.
THEOREM QueueRefinesSyncCalls == SafetySpec => ImplementsSyncCalls
<1>1. Init => Matched
  BY InitCallsMatch DEF Init, Matched, SkippedIsClosed
<1>2. Init => Abstract!Init
  <2> SUFFICES ASSUME Init PROVE Abstract!Init
    OBVIOUS
  <2>1. \A t \in Callers : Phase(t) = "idle"
    BY DEF Init, Phase
  <2> QED BY <2>1 DEF Init, Abstract!Init
<1>3. Matched /\ [Next]_vars => [Abstract!Next]_<<closed, [t \in Callers |-> Phase(t)]>>
  BY StepRefines DEF Seen
<1> QED
  BY <1>1, <1>2, <1>3, NextSkippedIsClosed, PTL
  DEF SafetySpec, ImplementsSyncCalls, Abstract!Spec

-----------------------------------------------------------------------------
(***************************************************************************)
(* Theorems of HostTeardown, for any surfaces, timers, storage calls and   *)
(* chains of them.                                                         *)
(*                                                                         *)
(* What the teardown thread may rely on after a wait is what nothing can   *)
(* add behind its back any more: tasks of the application end with the     *)
(* timers, cleanups with the wait after each surface, and the storage calls*)
(* of both are ahead of the storage thread's marker.                       *)
(***************************************************************************)

USE TeardownBounds

Elems(q) == {q[i] : i \in 1..Len(q)}

Tasks == [kind : {"app", "unmount", "result"}, more : 0..MaxChain + 1]
Requests == [kind : {"call"}, more : 0..MaxChain + 1] \cup [kind : {"marker"}]

\* The teardown thread waits exactly while it has a marker that has not run, the marker
\* takes the interrupt of its wait with it, and timers end before the first wait.
WaitsAreMarked ==
  /\ shut <=> pc # "none"
  /\ pc \notin {"none", "quit"} => timerCalls = 0
  /\ pc = "wait" => marker.state # "none" /\ next \in {"stop", "destroy"}
  /\ pc # "wait" => marker.state \in {"none", "done"}
  /\ js.kind = "marker" <=> marker.state = "started"
  /\ armed => marker.interrupted /\ marker.state \in {"queued", "started"}

\* JavaScript that may still call the storage first-hand, and what may become it.
Asking == \/ js.kind \in {"app", "blocked", "unmount"}
          \/ \E t \in Elems(work) : t.kind \in {"app", "unmount"}
Unmounting == js.kind = "unmount" \/ \E t \in Elems(work) : t.kind = "unmount"
WaitsFor(step) == pc = "wait" /\ marker.state = "queued" /\ next = step

\* It runs before the timers end, or while the teardown thread waits for it.
AskingIsWaitedFor ==
  /\ Asking => pc \in {"none", "quit"} \/ WaitsFor("stop")
  /\ Unmounting => WaitsFor("stop")

\* Only calls that results make are deeper than the first.
ChainsGoDown ==
  /\ js.kind = "result" => js.more <= MaxChain
  /\ \A t \in Elems(work) : t.kind = "result" => t.more <= MaxChain
  /\ \A c \in Elems(storage) : c.kind = "call" => c.more <= MaxChain

FirstCalls == {c \in Elems(storage) : c.kind = "call" /\ c.more = MaxChain}
FirstResults == {t \in Elems(work) : t.kind = "result" /\ t.more = MaxChain}

\* The storage marker is behind all first-hand calls, and once it has run there are none;
\* their results are gone with the wait that follows.
StorageIsMarked ==
  /\ pc # "storage" => \A c \in Elems(storage) : c.kind = "call"
  /\ \A i, j \in 1..Len(storage) : storage[i].kind = "marker" /\ i < j =>
       storage[j].kind = "call" /\ storage[j].more < MaxChain
  /\ pc = "destroy" \/ (pc = "wait" /\ next = "destroy") => FirstCalls = {}
  /\ pc = "destroy" \/ (pc = "wait" /\ next = "destroy" /\ marker.state # "queued") =>
       FirstResults = {} /\ ~(js.kind = "result" /\ js.more = MaxChain)

TeardownInv ==
  TeardownTypeOK /\ WaitsAreMarked /\ AskingIsWaitedFor /\ ChainsGoDown /\ StorageIsMarked

-----------------------------------------------------------------------------
(* Sequences. *)

\* What a sequence holds when something is appended.
LEMMA ElemsAppend ==
  ASSUME NEW S, NEW q \in Seq(S), NEW e
  PROVE  Elems(Append(q, e)) = Elems(q) \cup {e}
<1>1. /\ Len(Append(q, e)) = Len(q) + 1 /\ Len(q) \in Nat
      /\ \A i \in 1..Len(q) : Append(q, e)[i] = q[i]
      /\ Append(q, e)[Len(q) + 1] = e
  OBVIOUS
<1>2. ASSUME NEW x \in Elems(Append(q, e)) PROVE x \in Elems(q) \cup {e}
  <2>1. PICK i \in 1..Len(Append(q, e)) : x = Append(q, e)[i]
    BY DEF Elems
  <2>2. CASE i = Len(q) + 1
    BY <1>1, <2>1, <2>2
  <2>3. CASE i \in 1..Len(q)
    BY <1>1, <2>1, <2>3 DEF Elems
  <2> QED BY <1>1, <2>1, <2>2, <2>3
<1>3. ASSUME NEW x \in Elems(q) PROVE x \in Elems(Append(q, e))
  <2>1. PICK i \in 1..Len(q) : x = q[i]
    BY DEF Elems
  <2>2. i \in 1..Len(Append(q, e)) /\ x = Append(q, e)[i]
    BY <1>1, <2>1
  <2> QED BY <2>2 DEF Elems
<1>4. e \in Elems(Append(q, e))
  <2>1. Len(q) + 1 \in 1..Len(Append(q, e))
    BY <1>1
  <2> QED BY <1>1, <2>1 DEF Elems
<1> QED BY <1>2, <1>3, <1>4

\* What a sequence holds when its head is taken.
LEMMA ElemsTail ==
  ASSUME NEW S, NEW q \in Seq(S), q # <<>>
  PROVE  /\ Elems(q) = Elems(Tail(q)) \cup {Head(q)} /\ Head(q) \in S /\ Tail(q) \in Seq(S)
<1>1. /\ Len(Tail(q)) = Len(q) - 1 /\ Len(q) \in Nat \ {0}
      /\ \A i \in 1..Len(Tail(q)) : Tail(q)[i] = q[i + 1]
      /\ Head(q) = q[1] /\ Head(q) \in S /\ Tail(q) \in Seq(S)
  OBVIOUS
<1>2. ASSUME NEW x \in Elems(q) PROVE x \in Elems(Tail(q)) \cup {Head(q)}
  <2>1. PICK i \in 1..Len(q) : x = q[i]
    BY DEF Elems
  <2>2. CASE i # 1
    <3>1. i - 1 \in 1..Len(Tail(q)) /\ Tail(q)[i - 1] = x
      BY <1>1, <2>1, <2>2
    <3> QED BY <3>1 DEF Elems
  <2> QED BY <1>1, <2>1, <2>2
<1>3. ASSUME NEW x \in Elems(Tail(q)) PROVE x \in Elems(q)
  <2>1. PICK i \in 1..Len(Tail(q)) : x = Tail(q)[i]
    BY DEF Elems
  <2>2. i + 1 \in 1..Len(q) /\ x = q[i + 1]
    BY <1>1, <2>1
  <2> QED BY <2>2 DEF Elems
<1>4. Head(q) \in Elems(q)
  BY <1>1 DEF Elems
<1> QED BY <1>1, <1>2, <1>3, <1>4

\* Nothing is in the empty sequence.
LEMMA ElemsNone == Elems(<<>>) = {}
BY DEF Elems

-----------------------------------------------------------------------------
(* JavaScript. *)

JSKinds == {"idle", "app", "busy", "blocked", "result", "unmount", "marker"}

\* What JavaScript becomes in a step.
LEMMA JSBecomes ==
  ASSUME TeardownTypeOK
  PROVE  /\ \A k \in JSKinds : /\ [js EXCEPT !.kind = k] \in [kind : JSKinds, more : 0..MaxChain + 1]
                               /\ [js EXCEPT !.kind = k].kind = k
                               /\ [js EXCEPT !.kind = k].more = js.more
         /\ \A k \in JSKinds : /\ JSTask(k) \in [kind : JSKinds, more : 0..MaxChain + 1]
                               /\ JSTask(k).kind = k
<1> DEFINE depths == 0..MaxChain + 1
<1>1. js \in [kind : JSKinds, more : depths]
  BY DEF TeardownTypeOK, JSKinds
<1>2. MaxChain + 1 \in depths
  OBVIOUS
<1> HIDE DEF depths
<1>3. ASSUME NEW k \in JSKinds
      PROVE  /\ [js EXCEPT !.kind = k] \in [kind : JSKinds, more : depths]
             /\ [js EXCEPT !.kind = k].kind = k /\ [js EXCEPT !.kind = k].more = js.more
             /\ JSTask(k) \in [kind : JSKinds, more : depths] /\ JSTask(k).kind = k
  BY <1>1, <1>2 DEF JSTask
<1> QED BY <1>3 DEF depths

\* JavaScript returns, is blocked, answered, or loops: it asks for no more than it did.
LEMMA JSQuiets ==
  ASSUME TeardownInv, js' \in [kind : JSKinds, more : 0..MaxChain + 1],
         js'.kind \in {"app", "blocked"} => js.kind \in {"app", "blocked"},
         js'.kind \notin {"unmount", "result", "marker"}, js.kind # "marker",
         armed' \in BOOLEAN, armed' => armed, pc # "finished",
         UNCHANGED <<mainPc, shut, timerCalls, work, asks, marker, storage, pc, surfaces, next>>
  PROVE  TeardownInv'
<1> USE DEF TeardownInv
<1>1. TeardownTypeOK'
  BY DEF TeardownTypeOK, JSKinds
<1>2. WaitsAreMarked'
  BY DEF WaitsAreMarked
<1>3. AskingIsWaitedFor'
  BY DEF AskingIsWaitedFor, Asking, Unmounting, WaitsFor
<1>4. ChainsGoDown'
  BY DEF ChainsGoDown
<1>5. StorageIsMarked'
  BY DEF StorageIsMarked, FirstCalls, FirstResults
<1> QED BY <1>1, <1>2, <1>3, <1>4, <1>5

\* The steps of JavaScript that ask for nothing.
LEMMA QuietSteps ==
  ASSUME TeardownInv, DrainQueue \/ ReturnTask \/ CallMain \/ Loop \/ Interrupted
  PROVE  TeardownInv'
<1>1. pc # "finished" \/ js.kind = "idle"
  BY DEF TeardownInv, TeardownTypeOK
<1>2. TeardownTypeOK /\ armed \in BOOLEAN
  BY DEF TeardownInv, TeardownTypeOK
<1>3. CASE DrainQueue
  BY <1>1, <1>2, <1>3, JSBecomes, JSQuiets DEF DrainQueue, teardown, JSKinds
<1>4. CASE ReturnTask
  BY <1>1, <1>2, <1>4, JSBecomes, JSQuiets DEF ReturnTask, teardown, JSKinds
<1>5. CASE CallMain
  BY <1>1, <1>2, <1>5, JSBecomes, JSQuiets DEF CallMain, teardown, JSKinds
<1>6. CASE Loop
  BY <1>1, <1>2, <1>6, JSBecomes, JSQuiets DEF Loop, teardown, JSKinds
<1>7. CASE Interrupted
  BY <1>1, <1>2, <1>7, JSBecomes, JSQuiets DEF Interrupted, teardown, JSKinds
<1> QED BY <1>3, <1>4, <1>5, <1>6, <1>7

\* The main thread joins the teardown, and knows when it has ended.
LEMMA JoinSteps ==
  ASSUME TeardownInv, FinishInstance \/ Joined
  PROVE  TeardownInv'
<1> USE DEF TeardownInv
<1>1. /\ mainPc' \in {"running", "joining", "done"}
      /\ UNCHANGED <<shut, timerCalls, js, work, asks, armed, marker, storage, pc, surfaces, next>>
  BY DEF FinishInstance, Joined, engine, teardown
<1>2. TeardownTypeOK' /\ WaitsAreMarked'
  BY <1>1 DEF TeardownTypeOK, WaitsAreMarked
<1>3. AskingIsWaitedFor' /\ ChainsGoDown'
  BY <1>1 DEF AskingIsWaitedFor, Asking, Unmounting, WaitsFor, ChainsGoDown
<1>4. StorageIsMarked'
  BY <1>1 DEF StorageIsMarked, FirstCalls, FirstResults
<1> QED BY <1>2, <1>3, <1>4

\* The runtime retires: a blocked call is answered, and the teardown begins.
LEMMA RetireInstanceStep ==
  ASSUME TeardownInv, RetireInstance
  PROVE  TeardownInv'
<1> USE DEF TeardownInv
<1>1. /\ ~shut /\ shut' = TRUE /\ js' = Unblocked /\ pc' = "quit"
      /\ UNCHANGED <<mainPc, timerCalls, work, asks, armed, marker, storage, surfaces, next>>
  BY DEF RetireInstance
<1>2. /\ js' \in [kind : JSKinds, more : 0..MaxChain + 1] /\ js'.more = js.more
      /\ js'.kind = js.kind \/ (js.kind = "blocked" /\ js'.kind = "app")
  <2>1. js \in [kind : JSKinds, more : 0..MaxChain + 1]
    BY DEF TeardownTypeOK, JSKinds
  <2>2. "app" \in JSKinds
    BY DEF JSKinds
  <2> QED BY <1>1, <2>1, <2>2, JSBecomes DEF Unblocked
<1>3. pc = "none"
  BY <1>1 DEF WaitsAreMarked
<1>4. TeardownTypeOK'
  BY <1>1, <1>2, <1>3 DEF TeardownTypeOK, JSKinds, Steps
<1>5. WaitsAreMarked'
  BY <1>1, <1>2, <1>3 DEF WaitsAreMarked
<1>6. AskingIsWaitedFor' /\ ChainsGoDown'
  BY <1>1, <1>2, <1>3 DEF AskingIsWaitedFor, Asking, Unmounting, WaitsFor, ChainsGoDown
<1>7. StorageIsMarked'
  BY <1>1, <1>2, <1>3 DEF StorageIsMarked, FirstCalls, FirstResults
<1> QED BY <1>4, <1>5, <1>6, <1>7

\* A timer calls, which it does until the teardown ends them all.
LEMMA TimerStep ==
  ASSUME TeardownInv, TimerFires
  PROVE  TeardownInv'
<1> USE DEF TeardownInv
<1>1. /\ timerCalls > 0 /\ timerCalls' = timerCalls - 1 /\ work' = Append(work, JSTask("app"))
      /\ UNCHANGED <<mainPc, shut, js, asks, armed, marker, storage, pc, surfaces, next>>
  BY DEF TimerFires, teardown
<1>2. pc \in {"none", "quit"}
  BY <1>1 DEF WaitsAreMarked
<1>3. JSTask("app") \in Tasks /\ JSTask("app").kind = "app"
  BY DEF JSTask, Tasks
<1>4. work \in Seq(Tasks)
  BY DEF TeardownTypeOK, Tasks
<1>5. work' \in Seq(Tasks) /\ Elems(work') = Elems(work) \cup {JSTask("app")}
  BY <1>1, <1>3, <1>4, ElemsAppend
<1>6. TeardownTypeOK'
  BY <1>1, <1>2, <1>5 DEF TeardownTypeOK, Tasks
<1>7. WaitsAreMarked'
  BY <1>1, <1>2 DEF WaitsAreMarked
<1>8. AskingIsWaitedFor' /\ ChainsGoDown'
  BY <1>1, <1>2, <1>3, <1>5 DEF AskingIsWaitedFor, Unmounting, WaitsFor, ChainsGoDown
<1>9. StorageIsMarked'
  BY <1>1, <1>2 DEF StorageIsMarked
<1> QED BY <1>6, <1>7, <1>8, <1>9

\* A task starts.
LEMMA StartStep ==
  ASSUME TeardownInv, StartNext
  PROVE  TeardownInv'
<1> USE DEF TeardownInv
<1>1. /\ js.kind = "idle" /\ work # <<>> /\ pc # "finished"
      /\ js' = Head(work) /\ work' = Tail(work)
      /\ UNCHANGED <<mainPc, shut, timerCalls, asks, armed, marker, storage, pc, surfaces, next>>
  BY DEF StartNext, teardown
<1>2. work \in Seq(Tasks)
  BY DEF TeardownTypeOK, Tasks
<1>3. /\ Elems(work) = Elems(work') \cup {js'} /\ js' \in Tasks /\ work' \in Seq(Tasks)
  BY <1>1, <1>2, ElemsTail
<1>4. js'.kind \in {"app", "unmount", "result"} /\ js' \in [kind : JSKinds, more : 0..MaxChain + 1]
  BY <1>3 DEF Tasks, JSKinds
<1>5. TeardownTypeOK'
  BY <1>1, <1>3, <1>4 DEF TeardownTypeOK, Tasks, JSKinds
<1>6. WaitsAreMarked'
  BY <1>1, <1>4 DEF WaitsAreMarked
<1>7. AskingIsWaitedFor'
  BY <1>1, <1>3, <1>4 DEF AskingIsWaitedFor, Asking, Unmounting, WaitsFor
<1>8. ChainsGoDown'
  BY <1>1, <1>3 DEF ChainsGoDown
<1>9. StorageIsMarked'
  <2>1. FirstResults' \subseteq FirstResults
    BY <1>3 DEF FirstResults
  <2>2. js'.kind = "result" /\ js'.more = MaxChain => js' \in FirstResults
    BY <1>3 DEF FirstResults
  <2> QED BY <1>1, <2>1, <2>2 DEF StorageIsMarked, FirstCalls
<1> QED BY <1>5, <1>6, <1>7, <1>8, <1>9

\* The idle marker starts when there is nothing else, and takes the interrupt with it.
LEMMA MarkerSteps ==
  ASSUME TeardownInv, StartMarker \/ EndMarker
  PROVE  TeardownInv'
<1> USE DEF TeardownInv
<1>t. /\ marker \in [state : {"none", "queued", "started", "done"}, interrupted : BOOLEAN]
      /\ armed \in BOOLEAN
  BY DEF TeardownTypeOK
<1>1. CASE StartMarker
  <2>1. /\ js.kind = "idle" /\ marker.state = "queued" /\ work = <<>>
        /\ js' = JSTask("marker") /\ marker' = [marker EXCEPT !.state = "started"]
        /\ UNCHANGED <<mainPc, shut, timerCalls, work, asks, armed, storage, pc, surfaces, next>>
    BY <1>1 DEF StartMarker, teardown
  <2>2. /\ js' \in [kind : JSKinds, more : 0..MaxChain + 1] /\ js'.kind = "marker"
        /\ marker' \in [state : {"none", "queued", "started", "done"}, interrupted : BOOLEAN]
        /\ marker'.state = "started" /\ marker'.interrupted = marker.interrupted
    BY <1>t, <2>1, JSBecomes DEF JSKinds
  <2>3. pc = "wait"
    BY <2>1 DEF WaitsAreMarked
  <2>4. TeardownTypeOK'
    BY <2>1, <2>2, <2>3 DEF TeardownTypeOK, JSKinds
  <2>5. WaitsAreMarked'
    BY <2>1, <2>2, <2>3 DEF WaitsAreMarked
  <2>6. Elems(work') = {}
    BY <2>1, ElemsNone
  <2>7. AskingIsWaitedFor' /\ ChainsGoDown'
    BY <2>1, <2>2, <2>6 DEF AskingIsWaitedFor, Asking, Unmounting, ChainsGoDown
  <2>8. StorageIsMarked'
    BY <2>1, <2>2, <2>3, <2>6 DEF StorageIsMarked, FirstCalls, FirstResults
  <2> QED BY <2>4, <2>5, <2>7, <2>8
<1>2. CASE EndMarker
  <2>1. /\ js.kind = "marker" /\ js' = JSTask("idle") /\ armed' = Consumed
        /\ marker' = [marker EXCEPT !.state = "done"]
        /\ UNCHANGED <<mainPc, shut, timerCalls, work, asks, storage, pc, surfaces, next>>
    BY <1>2 DEF EndMarker, teardown
  <2>2. /\ js' \in [kind : JSKinds, more : 0..MaxChain + 1] /\ js'.kind = "idle"
        /\ marker' \in [state : {"none", "queued", "started", "done"}, interrupted : BOOLEAN]
        /\ marker'.state = "done"
    BY <1>t, <2>1, JSBecomes DEF JSKinds
  <2>3. marker.state = "started" /\ pc = "wait"
    BY <2>1 DEF WaitsAreMarked
  <2>4. ~armed' /\ armed' \in BOOLEAN
    BY <1>t, <2>1 DEF WaitsAreMarked, Consumed
  <2>5. TeardownTypeOK'
    BY <2>1, <2>2, <2>3, <2>4 DEF TeardownTypeOK, JSKinds
  <2>6. WaitsAreMarked'
    BY <2>1, <2>2, <2>3, <2>4 DEF WaitsAreMarked
  <2>7. ~Asking' /\ ~Unmounting'
    BY <2>1, <2>2, <2>3 DEF AskingIsWaitedFor, Asking, Unmounting, WaitsFor
  <2>8. AskingIsWaitedFor' /\ ChainsGoDown'
    BY <2>1, <2>2, <2>7 DEF AskingIsWaitedFor, ChainsGoDown
  <2>9. StorageIsMarked'
    BY <2>1, <2>2, <2>3 DEF StorageIsMarked, FirstCalls, FirstResults
  <2> QED BY <2>5, <2>6, <2>8, <2>9
<1> QED BY <1>1, <1>2

-----------------------------------------------------------------------------
(* The storage. *)

\* JavaScript calls the storage: first-hand behind no marker, or deeper in a chain.
LEMMA CallStorageSteps ==
  ASSUME TeardownInv, CallStorage \/ CallStorageAgain
  PROVE  TeardownInv'
<1> USE DEF TeardownInv
<1>t. js \in [kind : JSKinds, more : 0..MaxChain + 1] /\ storage \in Seq(Requests)
  BY DEF TeardownTypeOK, JSKinds, Requests
<1>1. PICK m \in 0..MaxChain :
        /\ storage' = Append(storage, Call(m)) /\ js.kind \in {"app", "unmount", "result"}
        /\ m = MaxChain => Asking
        /\ \/ js' = js \/ js' = JSTask("idle")
        /\ asks' \in 0..MaxStorageCalls
        /\ UNCHANGED <<mainPc, shut, timerCalls, work, armed, marker, pc, surfaces, next>>
  <2>1. CASE CallStorage
    <3>1. MaxChain \in 0..MaxChain /\ asks' \in 0..MaxStorageCalls
      BY <2>1 DEF CallStorage, TeardownTypeOK
    <3> QED BY <2>1, <3>1 DEF CallStorage, teardown, Asking
  <2>2. CASE CallStorageAgain
    <3>1. /\ js.kind = "result" /\ js.more > 0 /\ js.more <= MaxChain /\ js.more \in 0..MaxChain + 1
      BY <1>t, <2>2 DEF CallStorageAgain, ChainsGoDown
    <3>2. js.more - 1 \in 0..MaxChain /\ js.more - 1 # MaxChain
      BY <3>1
    <3>3. asks' \in 0..MaxStorageCalls
      BY <2>2 DEF CallStorageAgain, TeardownTypeOK
    <3> QED BY <2>2, <3>1, <3>2, <3>3 DEF CallStorageAgain, teardown
  <2> QED BY <2>1, <2>2
<1>2. Call(m) \in Requests /\ Call(m).kind = "call" /\ Call(m).more = m
  BY DEF Call, Requests
<1>3. /\ storage' \in Seq(Requests) /\ Elems(storage') = Elems(storage) \cup {Call(m)}
      /\ Len(storage') = Len(storage) + 1 /\ Len(storage) \in Nat
      /\ \A i \in 1..Len(storage) : storage'[i] = storage[i]
      /\ storage'[Len(storage) + 1] = Call(m)
  BY <1>t, <1>1, <1>2, ElemsAppend
<1>4. /\ js' \in [kind : JSKinds, more : 0..MaxChain + 1]
      /\ js' = js \/ js'.kind = "idle"
  BY <1>t, <1>1, JSBecomes DEF JSKinds
<1>5. pc # "finished"
  BY <1>1 DEF TeardownTypeOK
<1>6. TeardownTypeOK'
  BY <1>1, <1>3, <1>4, <1>5 DEF TeardownTypeOK, JSKinds, Requests
<1>7. WaitsAreMarked'
  BY <1>1, <1>4 DEF WaitsAreMarked
<1>8. AskingIsWaitedFor'
  BY <1>1, <1>4 DEF AskingIsWaitedFor, Asking, Unmounting, WaitsFor
<1>9. ChainsGoDown'
  BY <1>1, <1>2, <1>3, <1>4 DEF ChainsGoDown
<1>10. m = MaxChain => pc \notin {"storage", "destroy"} /\ ~(pc = "wait" /\ next = "destroy")
  BY <1>1 DEF AskingIsWaitedFor, WaitsFor
<1>11. StorageIsMarked'
  <2>1. pc' # "storage" => \A c \in Elems(storage') : c.kind = "call"
    BY <1>1, <1>2, <1>3 DEF StorageIsMarked
  <2>2. ASSUME NEW i \in 1..Len(storage'), NEW j \in 1..Len(storage'),
               storage'[i].kind = "marker", i < j
        PROVE  storage'[j].kind = "call" /\ storage'[j].more < MaxChain
    <3>1. i \in 1..Len(storage) /\ storage[i].kind = "marker"
      BY <1>3, <2>2
    <3>2. CASE j \in 1..Len(storage)
      BY <1>3, <2>2, <3>1, <3>2 DEF StorageIsMarked
    <3>3. CASE j = Len(storage) + 1
      <4>1. pc = "storage"
        BY <3>1 DEF StorageIsMarked, Elems
      <4> QED BY <1>1, <1>2, <1>3, <1>10, <3>3, <4>1
    <3> QED BY <1>3, <3>2, <3>3
  <2>3. pc = "destroy" \/ (pc = "wait" /\ next = "destroy") => FirstCalls' = {}
    BY <1>1, <1>2, <1>3, <1>10 DEF StorageIsMarked, FirstCalls
  <2>4. FirstResults' = FirstResults
    BY <1>1 DEF FirstResults
  <2> QED BY <1>1, <1>4, <2>1, <2>2, <2>3, <2>4 DEF StorageIsMarked
<1> QED BY <1>6, <1>7, <1>8, <1>9, <1>11

\* What is behind the head of the storage's tasks keeps its order.
LEMMA StorageTail ==
  ASSUME TeardownInv, storage # <<>>, storage' = Tail(storage)
  PROVE  /\ storage' \in Seq(Requests)
         /\ Elems(storage) = Elems(storage') \cup {Head(storage)} /\ Head(storage) \in Requests
         /\ \A i, j \in 1..Len(storage') : storage'[i].kind = "marker" /\ i < j =>
              storage'[j].kind = "call" /\ storage'[j].more < MaxChain
         /\ \A j \in 1..Len(storage') : Head(storage).kind = "marker" =>
              storage'[j].kind = "call" /\ storage'[j].more < MaxChain
<1>1. storage \in Seq(Requests)
  BY DEF TeardownInv, TeardownTypeOK, Requests
<1>2. /\ Len(storage') = Len(storage) - 1 /\ Len(storage) \in Nat \ {0}
      /\ \A i \in 1..Len(storage') : storage'[i] = storage[i + 1]
      /\ Head(storage) = storage[1]
  BY <1>1
<1>3. /\ storage' \in Seq(Requests)
      /\ Elems(storage) = Elems(storage') \cup {Head(storage)} /\ Head(storage) \in Requests
  BY <1>1, ElemsTail
<1>4. ASSUME NEW i \in 1..Len(storage'), NEW j \in 1..Len(storage'),
             storage'[i].kind = "marker", i < j
      PROVE  storage'[j].kind = "call" /\ storage'[j].more < MaxChain
  <2>1. /\ i + 1 \in 1..Len(storage) /\ j + 1 \in 1..Len(storage) /\ i + 1 < j + 1
        /\ storage[i + 1].kind = "marker"
    BY <1>2, <1>4
  <2>2. storage[j + 1].kind = "call" /\ storage[j + 1].more < MaxChain
    BY <2>1 DEF TeardownInv, StorageIsMarked
  <2> QED BY <1>2, <2>2
<1>5. ASSUME NEW j \in 1..Len(storage'), Head(storage).kind = "marker"
      PROVE  storage'[j].kind = "call" /\ storage'[j].more < MaxChain
  <2>1. 1 \in 1..Len(storage) /\ j + 1 \in 1..Len(storage) /\ 1 < j + 1
    BY <1>2
  <2>2. storage[j + 1].kind = "call" /\ storage[j + 1].more < MaxChain
    BY <1>2, <1>5, <2>1 DEF TeardownInv, StorageIsMarked
  <2> QED BY <1>2, <2>2
<1> QED BY <1>3, <1>4, <1>5

\* The storage thread runs a call, and hands its result to the runtime.
LEMMA RunStorageStep ==
  ASSUME TeardownInv, RunStorage
  PROVE  TeardownInv'
<1> USE DEF TeardownInv
<1>1. /\ storage # <<>> /\ Head(storage).kind = "call" /\ storage' = Tail(storage)
      /\ work' = IF pc = "finished" THEN work ELSE Append(work, Result(Head(storage).more))
      /\ UNCHANGED <<mainPc, shut, timerCalls, js, asks, armed, marker, pc, surfaces, next>>
  BY DEF RunStorage, teardown
<1> DEFINE h == Head(storage)
<1>2. /\ storage' \in Seq(Requests) /\ Elems(storage) = Elems(storage') \cup {h} /\ h \in Requests
      /\ \A i, j \in 1..Len(storage') : storage'[i].kind = "marker" /\ i < j =>
           storage'[j].kind = "call" /\ storage'[j].more < MaxChain
  BY <1>1, StorageTail
<1>3. h.kind = "call" /\ h.more <= MaxChain /\ h.more \in 0..MaxChain + 1
  BY <1>1, <1>2 DEF ChainsGoDown, Requests
<1>4. h.more = MaxChain => h \in FirstCalls
  BY <1>1, <1>2 DEF FirstCalls
<1> HIDE DEF h
<1>5. /\ Result(h.more) \in Tasks
      /\ Result(h.more).kind = "result" /\ Result(h.more).more = h.more
  BY <1>3 DEF Result, Tasks
<1>6. work \in Seq(Tasks)
  BY DEF TeardownTypeOK, Tasks
<1>7. /\ work' \in Seq(Tasks)
      /\ work' = work \/ Elems(work') = Elems(work) \cup {Result(h.more)}
  BY <1>1, <1>5, <1>6, ElemsAppend DEF h
<1>8. TeardownTypeOK'
  BY <1>1, <1>2, <1>7 DEF TeardownTypeOK, Tasks, Requests
<1>9. WaitsAreMarked'
  BY <1>1 DEF WaitsAreMarked
<1>10. AskingIsWaitedFor'
  BY <1>1, <1>5, <1>7 DEF AskingIsWaitedFor, Asking, Unmounting, WaitsFor
<1>11. ChainsGoDown'
  BY <1>1, <1>2, <1>3, <1>5, <1>7 DEF ChainsGoDown
<1>12. StorageIsMarked'
  <2>1. pc' # "storage" => \A c \in Elems(storage') : c.kind = "call"
    BY <1>1, <1>2 DEF StorageIsMarked
  <2>2. FirstCalls' \subseteq FirstCalls
    BY <1>2 DEF FirstCalls
  <2>3. FirstCalls = {} => FirstResults' = FirstResults
    BY <1>4, <1>5, <1>7 DEF FirstResults
  <2> QED BY <1>1, <1>2, <2>1, <2>2, <2>3 DEF StorageIsMarked
<1> QED BY <1>8, <1>9, <1>10, <1>11, <1>12

-----------------------------------------------------------------------------
(* The teardown thread. *)

\* A wait begins with a marker of its own, and no interrupt is armed.
LEMMA WaitBegins ==
  ASSUME TeardownInv, pc # "wait", pc # "none", NEW step \in {"stop", "destroy"}, WaitThen(step),
         timerCalls' = 0, UNCHANGED <<shut, js, armed>>
  PROVE  WaitsAreMarked' /\ WaitsFor(step)' /\ marker' \in
           [state : {"none", "queued", "started", "done"}, interrupted : BOOLEAN]
<1>1. pc' = "wait" /\ next' = step /\ marker' = NewMarker
  BY DEF WaitThen
<1>2. marker'.state = "queued" /\ marker' \in
        [state : {"none", "queued", "started", "done"}, interrupted : BOOLEAN]
  BY <1>1 DEF NewMarker
<1>3. js.kind # "marker" /\ ~armed
  BY DEF TeardownInv, WaitsAreMarked
<1> QED BY <1>1, <1>2, <1>3 DEF TeardownInv, WaitsAreMarked, WaitsFor

\* The timers end, and what runs on is waited for.
LEMMA QuitStep ==
  ASSUME TeardownInv, Quit
  PROVE  TeardownInv'
<1> USE DEF TeardownInv
<1>1. /\ pc = "quit" /\ timerCalls' = 0 /\ WaitThen("stop") /\ pc' = "wait" /\ next' = "stop"
      /\ UNCHANGED <<mainPc, shut, js, work, asks, armed, storage, surfaces>>
  BY DEF Quit, TimersLeft, WaitThen, engine
<1>2. WaitsAreMarked' /\ WaitsFor("stop")' /\ marker' \in
        [state : {"none", "queued", "started", "done"}, interrupted : BOOLEAN]
  BY <1>1, WaitBegins
<1>3. TeardownTypeOK'
  BY <1>1, <1>2 DEF TeardownTypeOK, Steps
<1>4. AskingIsWaitedFor' /\ ChainsGoDown'
  BY <1>1, <1>2 DEF AskingIsWaitedFor, ChainsGoDown
<1>5. StorageIsMarked'
  BY <1>1 DEF StorageIsMarked
<1> QED BY <1>2, <1>3, <1>4, <1>5

\* A wait that lasts too long arms the interrupt, which its marker takes along.
LEMMA TriggerStep ==
  ASSUME TeardownInv, Trigger
  PROVE  TeardownInv'
<1> USE DEF TeardownInv
<1>1. /\ pc = "wait" /\ marker.state = "queued" /\ armed' = TRUE
      /\ marker' = [marker EXCEPT !.interrupted = TRUE]
      /\ UNCHANGED <<mainPc, shut, timerCalls, js, work, asks, storage, pc, surfaces, next>>
  BY DEF Trigger, teardown
<1>2. /\ marker'.state = marker.state /\ marker'.interrupted = TRUE
      /\ marker' \in [state : {"none", "queued", "started", "done"}, interrupted : BOOLEAN]
  BY <1>1 DEF TeardownTypeOK
<1>3. TeardownTypeOK'
  BY <1>1, <1>2 DEF TeardownTypeOK
<1>4. WaitsAreMarked'
  BY <1>1, <1>2 DEF WaitsAreMarked
<1>5. AskingIsWaitedFor' /\ ChainsGoDown'
  BY <1>1, <1>2 DEF AskingIsWaitedFor, Asking, Unmounting, WaitsFor, ChainsGoDown
<1>6. StorageIsMarked'
  BY <1>1, <1>2 DEF StorageIsMarked, FirstCalls, FirstResults
<1> QED BY <1>3, <1>4, <1>5, <1>6

\* A wait ends: what it waited for is gone.
LEMMA IsIdleStep ==
  ASSUME TeardownInv, IsIdle
  PROVE  TeardownInv'
<1> USE DEF TeardownInv
<1>1. /\ pc = "wait" /\ marker.state = "done" /\ pc' = next
      /\ UNCHANGED <<mainPc, shut, timerCalls, js, work, asks, armed, marker, storage, surfaces,
                     next>>
  BY DEF IsIdle, engine
<1>2. next \in {"stop", "destroy"}
  BY <1>1 DEF WaitsAreMarked
<1>3. TeardownTypeOK'
  BY <1>1, <1>2 DEF TeardownTypeOK, Steps
<1>4. WaitsAreMarked'
  BY <1>1, <1>2 DEF WaitsAreMarked
<1>5. ~Asking' /\ ~Unmounting'
  BY <1>1 DEF AskingIsWaitedFor, Asking, Unmounting, WaitsFor
<1>6. AskingIsWaitedFor' /\ ChainsGoDown'
  BY <1>1, <1>5 DEF AskingIsWaitedFor, ChainsGoDown
<1>7. StorageIsMarked'
  BY <1>1, <1>2 DEF StorageIsMarked, FirstCalls, FirstResults
<1> QED BY <1>3, <1>4, <1>6, <1>7

\* A surface stops, and its cleanups are waited for.
LEMMA StopSurfaceStep ==
  ASSUME TeardownInv, StopSurface
  PROVE  TeardownInv'
<1> USE DEF TeardownInv
<1>1. /\ pc = "stop" /\ surfaces # <<>> /\ surfaces' = Tail(surfaces)
      /\ work' = Append(work, JSTask("unmount"))
      /\ WaitThen("stop") /\ pc' = "wait" /\ next' = "stop"
      /\ UNCHANGED <<mainPc, shut, timerCalls, js, asks, armed, storage>>
  BY DEF StopSurface, AfterStop, WaitThen
<1>2. timerCalls = 0
  BY <1>1 DEF WaitsAreMarked
<1>3. WaitsAreMarked' /\ WaitsFor("stop")' /\ marker' \in
        [state : {"none", "queued", "started", "done"}, interrupted : BOOLEAN]
  BY <1>1, <1>2, WaitBegins
<1>4. JSTask("unmount") \in Tasks /\ JSTask("unmount").kind = "unmount"
  BY DEF JSTask, Tasks
<1>5. work \in Seq(Tasks) /\ surfaces \in Seq(Nat)
  BY DEF TeardownTypeOK, Tasks
<1>6. work' \in Seq(Tasks) /\ Elems(work') = Elems(work) \cup {JSTask("unmount")}
  BY <1>1, <1>4, <1>5, ElemsAppend
<1>7. surfaces' \in Seq(Nat)
  BY <1>1, <1>5
<1>8. TeardownTypeOK'
  BY <1>1, <1>3, <1>6, <1>7 DEF TeardownTypeOK, Steps, Tasks
<1>9. AskingIsWaitedFor' /\ ChainsGoDown'
  BY <1>1, <1>3, <1>4, <1>6 DEF AskingIsWaitedFor, ChainsGoDown
<1>10. StorageIsMarked'
  BY <1>1 DEF StorageIsMarked
<1> QED BY <1>3, <1>8, <1>9, <1>10

\* With no surface left the marker of the storage goes behind its calls.
LEMMA WaitForStorageStep ==
  ASSUME TeardownInv, WaitForStorage
  PROVE  TeardownInv'
<1> USE DEF TeardownInv
<1>1. /\ pc = "stop" /\ pc' = "storage" /\ storage' = Append(storage, [kind |-> "marker"])
      /\ UNCHANGED <<mainPc, shut, timerCalls, js, work, asks, armed, marker, surfaces, next>>
  BY DEF WaitForStorage, engine
<1> DEFINE mark == [kind |-> "marker"]
<1>2. mark \in Requests /\ mark.kind = "marker"
  BY DEF Requests
<1>3. storage \in Seq(Requests) /\ storage' = Append(storage, mark)
  BY <1>1 DEF TeardownTypeOK, Requests
<1> HIDE DEF mark
<1>4. /\ storage' \in Seq(Requests) /\ Elems(storage') = Elems(storage) \cup {mark}
      /\ Len(storage') = Len(storage) + 1 /\ Len(storage) \in Nat
      /\ \A i \in 1..Len(storage) : storage'[i] = storage[i]
  BY <1>2, <1>3, ElemsAppend
<1>5. TeardownTypeOK'
  BY <1>1, <1>4 DEF TeardownTypeOK, Steps, Requests
<1>6. WaitsAreMarked'
  BY <1>1 DEF WaitsAreMarked
<1>7. ~Asking' /\ ~Unmounting'
  BY <1>1 DEF AskingIsWaitedFor, Asking, Unmounting, WaitsFor
<1>8. AskingIsWaitedFor' /\ ChainsGoDown'
  BY <1>1, <1>2, <1>4, <1>7 DEF AskingIsWaitedFor, ChainsGoDown
<1>9. StorageIsMarked'
  <2>1. \A i \in 1..Len(storage) : storage[i].kind = "call"
    BY <1>1 DEF StorageIsMarked, Elems
  <2>2. \A i \in 1..Len(storage') : storage'[i].kind = "marker" => i = Len(storage')
    BY <1>4, <2>1
  <2> QED BY <1>1, <1>4, <2>2 DEF StorageIsMarked
<1> QED BY <1>5, <1>6, <1>8, <1>9

\* The marker of the storage runs: no first-hand call is left, only their results.
LEMMA StorageIsIdleStep ==
  ASSUME TeardownInv, StorageIsIdle
  PROVE  TeardownInv'
<1> USE DEF TeardownInv
<1>1. /\ pc = "storage" /\ storage # <<>> /\ Head(storage).kind = "marker"
      /\ storage' = Tail(storage)
      /\ WaitThen("destroy") /\ pc' = "wait" /\ next' = "destroy"
      /\ UNCHANGED <<mainPc, shut, timerCalls, js, work, asks, armed, surfaces>>
  BY DEF StorageIsIdle, WaitThen, engine
<1>2. timerCalls = 0
  BY <1>1 DEF WaitsAreMarked
<1>3. WaitsAreMarked' /\ WaitsFor("destroy")' /\ marker' \in
        [state : {"none", "queued", "started", "done"}, interrupted : BOOLEAN]
  BY <1>1, <1>2, WaitBegins
<1>4. /\ storage' \in Seq(Requests) /\ Elems(storage) = Elems(storage') \cup {Head(storage)}
      /\ \A j \in 1..Len(storage') : storage'[j].kind = "call" /\ storage'[j].more < MaxChain
  BY <1>1, StorageTail
<1>5. \A c \in Elems(storage') : c.kind = "call" /\ c.more < MaxChain
  BY <1>4 DEF Elems
<1>6. TeardownTypeOK'
  BY <1>1, <1>3, <1>4 DEF TeardownTypeOK, Steps, Requests
<1>7. ~Asking' /\ ~Unmounting'
  BY <1>1 DEF AskingIsWaitedFor, Asking, Unmounting, WaitsFor
<1>8. AskingIsWaitedFor' /\ ChainsGoDown'
  BY <1>1, <1>4, <1>7 DEF AskingIsWaitedFor, ChainsGoDown
<1>9. StorageIsMarked'
  <2>1. FirstCalls' = {}
    BY <1>5 DEF FirstCalls
  <2>2. marker'.state = "queued"
    BY <1>3 DEF WaitsFor
  <2>3. \A i \in 1..Len(storage') : storage'[i].kind # "marker"
    BY <1>4
  <2> QED BY <1>1, <1>5, <2>1, <2>2, <2>3 DEF StorageIsMarked
<1> QED BY <1>3, <1>6, <1>8, <1>9

\* The runtime is destroyed, and drops what was left to do.
LEMMA DestroyStep ==
  ASSUME TeardownInv, Destroy
  PROVE  TeardownInv'
<1> USE DEF TeardownInv
<1>1. /\ pc = "destroy" /\ js.kind = "idle" /\ pc' = "finished" /\ work' = <<>>
      /\ UNCHANGED <<mainPc, shut, timerCalls, js, asks, armed, marker, storage, surfaces, next>>
  BY DEF Destroy
<1>2. work' \in Seq(Tasks) /\ Elems(work') = {}
  BY <1>1, ElemsNone
<1>3. timerCalls = 0
  BY <1>1 DEF WaitsAreMarked
<1>4. TeardownTypeOK'
  BY <1>1, <1>2, <1>3 DEF TeardownTypeOK, Steps, Tasks
<1>5. WaitsAreMarked'
  BY <1>1 DEF WaitsAreMarked
<1>6. AskingIsWaitedFor' /\ ChainsGoDown'
  BY <1>1, <1>2 DEF AskingIsWaitedFor, Asking, Unmounting, ChainsGoDown
<1>7. StorageIsMarked'
  BY <1>1 DEF StorageIsMarked
<1> QED BY <1>4, <1>5, <1>6, <1>7

-----------------------------------------------------------------------------
(* The theorems. *)

\* The runtime is running, and nothing has been asked of it.
LEMMA InitTeardown == TeardownInit => TeardownInv
<1> SUFFICES ASSUME TeardownInit PROVE TeardownInv
  OBVIOUS
<1>1. /\ mainPc = "running" /\ shut = FALSE /\ timerCalls = MaxTimers /\ js = JSTask("idle")
      /\ work = <<>> /\ asks = MaxStorageCalls /\ armed = FALSE /\ marker = NoMarker
      /\ storage = <<>> /\ pc = "none" /\ surfaces = Surfaces /\ next = "none"
  BY DEF TeardownInit
<1>2. js \in [kind : JSKinds, more : 0..MaxChain + 1] /\ js.kind = "idle"
  BY <1>1 DEF JSTask, JSKinds
<1>3. /\ marker \in [state : {"none", "queued", "started", "done"}, interrupted : BOOLEAN]
      /\ marker.state = "none"
  BY <1>1 DEF NoMarker
<1>4. Elems(work) = {} /\ Elems(storage) = {} /\ Len(storage) = 0
  BY <1>1, ElemsNone
<1>5. work \in Seq(Tasks) /\ storage \in Seq(Requests)
  BY <1>1
<1>6. TeardownTypeOK
  <2>1. timerCalls \in 0..MaxTimers /\ asks \in 0..MaxStorageCalls /\ surfaces \in Seq(Nat)
    BY <1>1
  <2>2. mainPc \in {"running", "joining", "done"} /\ shut \in BOOLEAN /\ armed \in BOOLEAN
    BY <1>1
  <2>3. pc \in Steps /\ next \in Steps /\ pc # "finished"
    BY <1>1 DEF Steps
  <2> QED BY <1>2, <1>3, <1>5, <2>1, <2>2, <2>3 DEF TeardownTypeOK, JSKinds, Tasks, Requests
<1>7. WaitsAreMarked
  BY <1>1, <1>2, <1>3 DEF WaitsAreMarked
<1>8. AskingIsWaitedFor /\ ChainsGoDown
  BY <1>1, <1>2, <1>4 DEF AskingIsWaitedFor, Asking, Unmounting, ChainsGoDown
<1>9. StorageIsMarked
  BY <1>1, <1>4 DEF StorageIsMarked
<1> QED BY <1>6, <1>7, <1>8, <1>9 DEF TeardownInv

\* Every step of the program keeps the invariant.
LEMMA NextTeardown == TeardownInv /\ [TeardownNext]_teardownVars => TeardownInv'
<1> SUFFICES ASSUME TeardownInv, [TeardownNext]_teardownVars PROVE TeardownInv'
  OBVIOUS
<1>1. CASE DrainQueue \/ ReturnTask \/ CallMain \/ Loop \/ Interrupted
  BY <1>1, QuietSteps
<1>2. CASE FinishInstance \/ Joined
  BY <1>2, JoinSteps
<1>3. CASE RetireInstance \/ TimerFires \/ StartNext
  BY <1>3, RetireInstanceStep, TimerStep, StartStep
<1>4. CASE StartMarker \/ EndMarker
  BY <1>4, MarkerSteps
<1>5. CASE CallStorage \/ CallStorageAgain
  BY <1>5, CallStorageSteps
<1>6. CASE RunStorage
  BY <1>6, RunStorageStep
<1>7. CASE TeardownStep
  BY <1>7, QuitStep, TriggerStep, IsIdleStep, StopSurfaceStep, WaitForStorageStep,
     StorageIsIdleStep, DestroyStep DEF TeardownStep
<1>8. CASE UNCHANGED teardownVars
  <2>1. UNCHANGED <<mainPc, shut, timerCalls, js, work, asks, armed, marker, storage, pc,
                    surfaces, next>>
    BY <1>8 DEF teardownVars
  <2>2. TeardownTypeOK' /\ WaitsAreMarked'
    BY <2>1 DEF TeardownInv, TeardownTypeOK, WaitsAreMarked
  <2>3. AskingIsWaitedFor' /\ ChainsGoDown'
    BY <2>1 DEF TeardownInv, AskingIsWaitedFor, Asking, Unmounting, WaitsFor, ChainsGoDown
  <2>4. StorageIsMarked'
    BY <2>1 DEF TeardownInv, StorageIsMarked, FirstCalls, FirstResults
  <2> QED BY <2>2, <2>3, <2>4 DEF TeardownInv
<1> QED BY <1>1, <1>2, <1>3, <1>4, <1>5, <1>6, <1>7, <1>8 DEF TeardownNext, MainStep, JSStep

\* Nothing of a surface is left to clean up when the next one stops, and no first-hand
\* call of the storage is unanswered when the runtime is destroyed.
LEMMA CleanedUp ==
  ASSUME TeardownInv
  PROVE  (StopSurface => ~Cleaning) /\ (Destroy => ~Outstanding({MaxChain}))
<1> USE DEF TeardownInv
<1>1. ASSUME StopSurface PROVE ~Cleaning
  <2>1. pc = "stop"
    BY <1>1 DEF StopSurface
  <2>2. ~Unmounting
    BY <2>1 DEF AskingIsWaitedFor, WaitsFor
  <2> QED BY <2>2 DEF Unmounting, Cleaning, Elems
<1>2. ASSUME Destroy PROVE ~Outstanding({MaxChain})
  <2>1. pc = "destroy"
    BY <1>2 DEF Destroy
  <2>2. FirstCalls = {} /\ FirstResults = {} /\ ~(js.kind = "result" /\ js.more = MaxChain)
    BY <2>1 DEF StorageIsMarked
  <2>3. \A i \in 1..Len(work) : ~(work[i].kind = "result" /\ work[i].more = MaxChain)
    BY <2>2 DEF FirstResults, Elems
  <2>4. \A i \in 1..Len(storage) : ~(storage[i].kind = "call" /\ storage[i].more = MaxChain)
    BY <2>2 DEF FirstCalls, Elems
  <2> QED BY <2>2, <2>3, <2>4 DEF Outstanding
<1> QED BY <1>1, <1>2

\* The interrupt that _wait_until_idle() arms for JavaScript that runs away ends with
\* that wait: the work of the next step of the teardown is never cut short by it.
THEOREM InterruptsEndWithTheirWait == TeardownSafety => []InterruptEndsWithItsWait
<1>1. TeardownInv => InterruptEndsWithItsWait
  BY DEF TeardownInv, WaitsAreMarked, InterruptEndsWithItsWait
<1> QED BY <1>1, InitTeardown, NextTeardown, PTL DEF TeardownSafety

\* For any surfaces and any calls: React has cleaned up after one surface before
\* RNHostTeardown stops the next, and what tasks and cleanups asked of the storage has
\* been answered before it destroys the runtime.
THEOREM CleanupsAreAlwaysDone == TeardownSafety => CleanupsAreDone
<1>1. TeardownInv =>
        [(StopSurface => ~Cleaning) /\ (Destroy => ~Outstanding({MaxChain}))]_teardownVars
  BY CleanedUp
<1> QED BY <1>1, InitTeardown, NextTeardown, PTL DEF TeardownSafety, CleanupsAreDone
=============================================================================
