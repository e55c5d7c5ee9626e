---------------------------- MODULE MainThreadQueue ----------------------------
(***************************************************************************)
(* RNMainThreadQueue: the queue through which every thread of the module   *)
(* reaches Godot.  Threads other than the main one post work, or call      *)
(* run_sync and block until the main thread has run it.  The main thread   *)
(* empties the queue once per frame in drain(), and close() cuts a retired *)
(* runtime off.                                                            *)
(*                                                                         *)
(* A step is what one thread does under one acquisition of the queue's     *)
(* mutex, or one task's work, so every interleaving of the callers with    *)
(* the loop in drain() is explored.  The 200 microsecond wait and the      *)
(* 4 millisecond budget only decide when an empty-handed wait gives up;    *)
(* WaitTimeout may happen at any moment instead.                           *)
(***************************************************************************)
EXTENDS Naturals, Sequences

CONSTANTS Callers,    \* the threads that are not the main one
          Main,       \* the main thread
          MaxCalls    \* bound: how many calls each thread makes

ASSUME CallersAssumption == Main \notin Callers
ASSUME CallsAssumption == MaxCalls \in [Callers \cup {Main} -> Nat]

VARIABLES tasks,      \* RNMainThreadQueue::tasks
          closed,     \* RNMainThreadQueue::closed
          pending,    \* drain()'s local batch; its head is the current task
          open,       \* drain()'s local flag for the current task
          answered,   \* drain()'s answered_sync_call
          main,       \* where the main thread is in drain()
          call,       \* what each caller's run_sync is doing
          calls,      \* how many calls each thread made (bounded)
          accepted,   \* history: tasks in the order they were queued
          ran,        \* history: queued tasks in the order their work started
          inlined     \* history: run_sync calls the main thread ran in place

vars == <<tasks, closed, pending, open, answered, main, call, calls,
          accepted, ran, inlined>>
drainVars == <<pending, open, answered, main>>

Threads == Callers \cup {Main}
Task == [by : Threads, n : Nat, sync : BOOLEAN]
MainStates == {"outside", "swap", "batch", "working", "answer", "wait"}
CallStates == {"free", "waiting", "done", "cancelled"}

TypeOK ==
  /\ tasks \in Seq(Task)
  /\ closed \in BOOLEAN
  /\ pending \in Seq(Task)
  /\ open \in BOOLEAN
  /\ answered \in BOOLEAN
  /\ main \in MainStates
  /\ call \in [Callers -> CallStates]
  /\ calls \in [Threads -> Nat]
  /\ accepted \in Seq(Task)
  /\ ran \in Seq(Task)
  /\ inlined \in Nat
  /\ main \in {"working", "answer"} => pending # <<>>

Init ==
  /\ tasks = <<>>
  /\ closed = FALSE
  /\ pending = <<>>
  /\ open = FALSE
  /\ answered = FALSE
  /\ main = "outside"
  /\ call = [t \in Callers |-> "free"]
  /\ calls = [t \in Threads |-> 0]
  /\ accepted = <<>>
  /\ ran = <<>>
  /\ inlined = 0

(***************************************************************************)
(* The callers.                                                            *)
(***************************************************************************)

\* The main thread runs engine code, or a task's work, and can call the queue.
MainIsFree == main \in {"outside", "working"}
Calling(t) == /\ IF t = Main THEN MainIsFree ELSE call[t] = "free"
              /\ calls[t] < MaxCalls[t]
              /\ calls' = [calls EXCEPT ![t] = @ + 1]

NewTask(t, sync) == [by |-> t, n |-> calls[t] + 1, sync |-> sync]
Enqueue(w) == /\ tasks' = Append(tasks, w)
              /\ accepted' = Append(accepted, w)

\* post() from any thread: a closed queue drops the work silently.
Post(t) ==
  /\ Calling(t)
  /\ IF closed THEN UNCHANGED <<tasks, accepted>> ELSE Enqueue(NewTask(t, FALSE))
  /\ UNCHANGED <<closed, call, ran, inlined, drainVars>>

\* run_sync() from another thread: queue the work and block on its completion,
\* or fail at once on a closed queue.
RunSync(t) ==
  /\ Calling(t)
  /\ IF closed
       THEN /\ call' = [call EXCEPT ![t] = "cancelled"]
            /\ UNCHANGED <<tasks, accepted>>
       ELSE /\ call' = [call EXCEPT ![t] = "waiting"]
            /\ Enqueue(NewTask(t, TRUE))
  /\ UNCHANGED <<closed, ran, inlined, drainVars>>

\* completed.get() returns: the caller's stack frame, which the work refers to,
\* is gone after this step.
Return(t) ==
  /\ call[t] \in {"done", "cancelled"}
  /\ call' = [call EXCEPT ![t] = "free"]
  /\ UNCHANGED <<tasks, closed, calls, accepted, ran, inlined, drainVars>>

\* run_sync() on the main thread runs the work in place, ahead of the queue.
RunSyncInline ==
  /\ Calling(Main)
  /\ inlined' = IF closed THEN inlined ELSE inlined + 1
  /\ UNCHANGED <<tasks, closed, call, accepted, ran, drainVars>>

\* Mutant: close() drops the queued work and leaves its callers blocked.
CloseForgetsCallers ==
  /\ MainIsFree
  /\ closed' = TRUE
  /\ tasks' = <<>>
  /\ UNCHANGED <<call, calls, accepted, ran, inlined, drainVars>>

\* close(): the host retires its runtime on the main thread, between frames or
\* from inside a task.  Calls still queued fail, and queued work is dropped.
Close ==
  /\ MainIsFree
  /\ closed' = TRUE
  /\ call' = [t \in Callers |->
                IF \E i \in 1..Len(tasks) : tasks[i].sync /\ tasks[i].by = t
                  THEN "cancelled" ELSE call[t]]
  /\ tasks' = <<>>
  /\ UNCHANGED <<calls, accepted, ran, inlined, drainVars>>

(***************************************************************************)
(* drain() on the main thread.                                             *)
(***************************************************************************)

DrainBegin ==
  /\ main = "outside"
  /\ main' = "swap"
  /\ UNCHANGED <<tasks, closed, pending, open, answered, call, calls, accepted, ran, inlined>>

\* Mutant: the batch is a copy, and its tasks stay queued.
SwapBatchCopies ==
  /\ main = "swap"
  /\ pending' = tasks
  /\ answered' = FALSE
  /\ main' = "batch"
  /\ UNCHANGED <<tasks, closed, open, call, calls, accepted, ran, inlined>>

\* pending.swap(tasks) under the lock.
SwapBatch ==
  /\ main = "swap"
  /\ pending' = tasks
  /\ tasks' = <<>>
  /\ answered' = FALSE
  /\ main' = "batch"
  /\ UNCHANGED <<closed, open, call, calls, accepted, ran, inlined>>

\* Mutant: the rest of a batch runs although one of its tasks closed the queue.
StartTaskAfterClose ==
  /\ main = "batch" /\ pending # <<>>
  /\ open' = TRUE
  /\ ran' = Append(ran, Head(pending))
  /\ main' = "working"
  /\ UNCHANGED <<tasks, closed, pending, answered, call, calls, accepted, inlined>>

\* Mutant: the task leaves the batch before its work runs, not after.
StartTaskPopsFirst ==
  /\ main = "batch" /\ pending # <<>> /\ ~closed
  /\ open' = TRUE
  /\ ran' = Append(ran, Head(pending))
  /\ pending' = Tail(pending)
  /\ main' = "working"
  /\ UNCHANGED <<tasks, closed, answered, call, calls, accepted, inlined>>

\* An open queue starts the next task's work.
StartTask ==
  /\ main = "batch" /\ pending # <<>> /\ ~closed
  /\ open' = TRUE
  /\ ran' = Append(ran, Head(pending))
  /\ main' = "working"
  /\ UNCHANGED <<tasks, closed, pending, answered, call, calls, accepted, inlined>>

FinishTask ==
  /\ main = "working"
  /\ main' = "answer"
  /\ UNCHANGED <<tasks, closed, pending, open, answered, call, calls, accepted, ran, inlined>>

\* A task earlier in the batch closed the queue: the rest of it does not run.
SkipTask ==
  /\ main = "batch" /\ pending # <<>> /\ closed
  /\ open' = FALSE
  /\ main' = "answer"
  /\ UNCHANGED <<tasks, closed, pending, answered, call, calls, accepted, ran, inlined>>

\* task.completion->set_value(open)
Answer ==
  /\ main = "answer"
  /\ LET w == Head(pending) IN
       IF w.sync
         THEN /\ call' = [call EXCEPT ![w.by] = IF open THEN "done" ELSE "cancelled"]
              /\ answered' = TRUE
         ELSE UNCHANGED <<call, answered>>
  /\ pending' = Tail(pending)
  /\ main' = "batch"
  /\ UNCHANGED <<tasks, closed, open, calls, accepted, ran, inlined>>

\* The batch is done: return, or wait for the next call of a loop of them.
EndBatch ==
  /\ main = "batch" /\ pending = <<>>
  /\ main' = IF answered THEN "wait" ELSE "outside"
  /\ UNCHANGED <<tasks, closed, pending, open, answered, call, calls, accepted, ran, inlined>>

\* wait_until's predicate holds: take the new batch, or leave a closed queue.
WaitWake ==
  /\ main = "wait" /\ (closed \/ tasks # <<>>)
  /\ main' = IF closed THEN "outside" ELSE "swap"
  /\ UNCHANGED <<tasks, closed, pending, open, answered, call, calls, accepted, ran, inlined>>

WaitTimeout ==
  /\ main = "wait" /\ ~closed /\ tasks = <<>>
  /\ main' = "outside"
  /\ UNCHANGED <<tasks, closed, pending, open, answered, call, calls, accepted, ran, inlined>>

Drain == \/ DrainBegin \/ SwapBatch \/ StartTask \/ FinishTask \/ SkipTask
         \/ Answer \/ EndBatch \/ WaitWake \/ WaitTimeout

Next == \/ \E t \in Threads : Post(t)
        \/ \E t \in Callers : RunSync(t)
        \/ \E t \in Callers : Return(t)
        \/ RunSyncInline
        \/ Close
        \/ Drain

\* Godot emits process_frame every frame, so the main thread keeps entering and
\* working through drain(); a thread whose future is ready keeps running.
Fairness == WF_vars(Drain) /\ \A t \in Callers : WF_vars(Return(t))

SafetySpec == Init /\ [][Next]_vars
Spec == SafetySpec /\ Fairness

(***************************************************************************)
(* Properties.                                                             *)
(***************************************************************************)

\* A run_sync lambda captures its caller's locals by reference, so its work may
\* start only while that caller is still blocked on this very call: never after
\* run_sync returned, whatever close() and the batch in progress did meanwhile.
SyncWorkOnlyWhileBlocked ==
  [][\A t \in Callers :
       (StartTask /\ Head(pending).sync /\ Head(pending).by = t)
         => call[t] = "waiting" /\ Head(pending).n = calls[t]]_vars

\* A blocked caller's completion is still in somebody's hands, the queue's or
\* the batch's: a call can not be lost between swap(), close() and the answer.
BlockedCallIsHeld ==
  \A t \in Callers : call[t] = "waiting" =>
    \E q \in {tasks, pending} :
      \E i \in 1..Len(q) : q[i].sync /\ q[i].by = t /\ q[i].n = calls[t]

\* Work runs in the order it was queued and each task at most once: what ran is
\* a prefix of what was queued, across batches and across a close().
RunsInOrder ==
  /\ Len(ran) <= Len(accepted)
  /\ \A i \in 1..Len(ran) : ran[i] = accepted[i]

\* A retired runtime can not reach Godot: once the queue is closed no work
\* starts, neither the rest of a batch in progress nor a call in place.
NothingStartsAfterClose ==
  [][closed => ran' = ran /\ inlined' = inlined]_vars

\* A thread blocked in run_sync is always released, by an answer or by close():
\* JavaScript never hangs on the main thread.
BlockedCallReturns ==
  \A t \in Callers : call[t] = "waiting" ~> call[t] = "free"

\* What the queue implements: each caller's request as SyncCalls sees it.
InHand(t) == /\ main \in {"working", "answer"} /\ open
             /\ Head(pending).sync /\ Head(pending).by = t
Phase(t) ==
  IF call[t] = "waiting" THEN (IF InHand(t) THEN "running" ELSE "asked")
  ELSE IF call[t] = "free" THEN "idle"
  ELSE IF call[t] = "done" THEN "served" ELSE "refused"
Abstract == INSTANCE SyncCalls WITH shut <- closed,
                                    phase <- [t \in Callers |-> Phase(t)]

\* The queue, with its batches, its waits and its close(), gives every caller of
\* run_sync exactly what SyncCalls promises: one piece of work at a time, none
\* after the close, and an answer that says whether the work ran.
ImplementsSyncCalls == Abstract!Spec
================================================================================
