------------------------------ MODULE HostTeardown ------------------------------
(***************************************************************************)
(* How one runtime ends: RNHostInstance::retire() on the main thread closes*)
(* the task queue and starts RNHostTeardown, whose thread stops the timers,   *)
(* lets JavaScript run dry, stops the surfaces one at a time, waits for the*)
(* storage thread, and destroys the runtime, while JavaScript may be busy, *)
(* blocked in a synchronous call, or never come back.  The main thread     *)
(* joins the teardown thread in finish(), which a quitting game calls at   *)
(* once.                                                                   *)
(*                                                                         *)
(* ReactHost, its scheduler and Hermes are modelled from how this code uses*)
(* them: `work` runs in order, a LowPriority marker when there is nothing *)
(* else, and a triggered timeout stays armed until JavaScript next checks  *)
(* for it.  The marker also expires, after ten seconds; as every task that *)
(* overruns is interrupted after one, that takes ten of them, and is left  *)
(* out.                                                                    *)
(***************************************************************************)
EXTENDS Naturals, Sequences

CONSTANTS Surfaces,    \* the surfaces that retire with the runtime, in order
          MaxTimers,   \* bound: timer calls
          MaxStorageCalls,   \* bound: storage calls made outside a storage result
          MaxChain     \* how many more calls the result of a call makes in turn

ASSUME TeardownBounds ==
  Surfaces \in Seq(Nat) /\ MaxTimers \in Nat /\ MaxStorageCalls \in Nat /\ MaxChain \in Nat

VARIABLES mainPc,     \* the main thread: running, joining the teardown, done
          shut,       \* the main-thread queue is closed
          timerCalls, \* timer calls that may still come
          js,         \* what the JS thread does
          work,       \* what it has to do
          asks,       \* storage calls it may still make
          armed,      \* Hermes: the timeout that interrupts JavaScript
          marker,     \* the idle marker of _wait_until_idle()
          storage,    \* the tasks of the storage thread
          pc, surfaces, next   \* the teardown thread

teardownVars ==
  <<mainPc, shut, timerCalls, js, work, asks, armed, marker, storage, pc, surfaces, next>>
engine == <<js, work, asks, armed>>
teardown == <<pc, surfaces, next>>

(* more: how many storage calls deep the chain is that a result may continue;*)
(* a task that is no result has the whole chain before it.                   *)
JSTask(kind) == [kind |-> kind, more |-> MaxChain + 1]
Result(more) == [kind |-> "result", more |-> more]
Call(more) == [kind |-> "call", more |-> more]

NoMarker == [state |-> "none", interrupted |-> FALSE]
NewMarker == [state |-> "queued", interrupted |-> FALSE]

TeardownInit ==
  /\ mainPc = "running" /\ shut = FALSE
  /\ timerCalls = MaxTimers
  /\ js = JSTask("idle") /\ work = <<>> /\ asks = MaxStorageCalls /\ armed = FALSE
  /\ marker = NoMarker
  /\ storage = <<>>
  /\ pc = "none" /\ surfaces = Surfaces /\ next = "none"

(***************************************************************************)
(* The main thread.                                                        *)
(***************************************************************************)

\* Mutant of Unblocked: closing the queue leaves the caller waiting.
StaysBlocked == js

\* What closing the queue, or a frame that runs its task, does to a blocked call.
Unblocked == IF js.kind = "blocked" THEN [js EXCEPT !.kind = "app"] ELSE js

\* A frame drains the queue, and a blocked caller gets its answer.
DrainQueue ==
  /\ mainPc = "running" /\ ~shut /\ js.kind = "blocked"
  /\ js' = [js EXCEPT !.kind = "app"]
  /\ UNCHANGED <<mainPc, shut, timerCalls, work, asks, armed, marker, storage, teardown>>

RetireInstance ==
  /\ mainPc = "running" /\ ~shut
  /\ shut' = TRUE
  /\ js' = Unblocked
  /\ pc' = "quit"
  /\ UNCHANGED <<mainPc, timerCalls, work, asks, armed, marker, storage, surfaces, next>>

\* ReactNativeHost::shutdown() joins at once, a frame only a finished teardown.
FinishInstance ==
  /\ mainPc = "running" /\ shut
  /\ mainPc' = "joining"
  /\ UNCHANGED <<shut, timerCalls, engine, marker, storage, teardown>>

Joined ==
  /\ mainPc = "joining" /\ pc = "finished"
  /\ mainPc' = "done"
  /\ UNCHANGED <<shut, timerCalls, engine, marker, storage, teardown>>

(***************************************************************************)
(* The JS thread.                                                          *)
(***************************************************************************)
TimerFires ==
  /\ timerCalls > 0
  /\ timerCalls' = timerCalls - 1
  /\ work' = Append(work, JSTask("app"))
  /\ UNCHANGED <<mainPc, shut, js, asks, armed, marker, storage, teardown>>

\* An app task is any JavaScript, an unmount task runs the cleanups of a surface,
\* and a result continues whatever awaited the call.
StartNext ==
  /\ js.kind = "idle" /\ work # <<>> /\ pc # "finished"
  /\ js' = Head(work) /\ work' = Tail(work)
  /\ UNCHANGED <<mainPc, shut, timerCalls, asks, armed, marker, storage, teardown>>

ReturnTask ==
  /\ js.kind \in {"app", "result", "unmount"}
  /\ js' = JSTask("idle")
  /\ UNCHANGED <<mainPc, shut, timerCalls, work, asks, armed, marker, storage, teardown>>

\* run_sync(); after close it fails at once.
CallMain ==
  /\ js.kind = "app" /\ ~shut
  /\ js' = [js EXCEPT !.kind = "blocked"]
  /\ UNCHANGED <<mainPc, shut, timerCalls, work, asks, armed, marker, storage, teardown>>

\* RNAsyncStorageModule::_run()
CallStorage ==
  /\ js.kind \in {"app", "unmount"} /\ asks > 0
  /\ asks' = asks - 1
  /\ storage' = Append(storage, Call(MaxChain))
  /\ UNCHANGED <<mainPc, shut, timerCalls, js, work, armed, marker, teardown>>

\* What awaited a storage call makes the next one.
CallStorageAgain ==
  /\ js.kind = "result" /\ js.more > 0
  /\ storage' = Append(storage, Call(js.more - 1))
  /\ js' = JSTask("idle")
  /\ UNCHANGED <<mainPc, shut, timerCalls, work, asks, armed, marker, teardown>>

\* JavaScript that does not return by itself, and how it ends.
Loop ==
  /\ js.kind \in {"app", "result", "unmount"}
  /\ js' = [js EXCEPT !.kind = "busy"]
  /\ UNCHANGED <<mainPc, shut, timerCalls, work, asks, armed, marker, storage, teardown>>

Interrupted ==
  /\ js.kind \in {"app", "busy", "result", "unmount"} /\ armed
  /\ js' = JSTask("idle") /\ armed' = FALSE
  /\ UNCHANGED <<mainPc, shut, timerCalls, work, asks, marker, storage, teardown>>

StartMarker ==
  /\ js.kind = "idle" /\ marker.state = "queued" /\ work = <<>>
  /\ js' = JSTask("marker")
  /\ marker' = [marker EXCEPT !.state = "started"]
  /\ UNCHANGED <<mainPc, shut, timerCalls, work, asks, armed, storage, teardown>>

\* Mutant of Consumed: the marker leaves the timeout armed.
LeftArmed == armed

\* An interrupted marker runs a loop of its own, which uses the timeout up.
Consumed == IF marker.interrupted THEN FALSE ELSE armed

EndMarker ==
  /\ js.kind = "marker"
  /\ js' = JSTask("idle")
  /\ armed' = Consumed
  /\ marker' = [marker EXCEPT !.state = "done"]
  /\ UNCHANGED <<mainPc, shut, timerCalls, work, asks, storage, teardown>>

(***************************************************************************)
(* The storage thread, which outlives the runtime.                         *)
(***************************************************************************)
RunStorage ==
  /\ storage # <<>> /\ Head(storage).kind = "call"
  /\ storage' = Tail(storage)
  /\ work' = IF pc = "finished" THEN work ELSE Append(work, Result(Head(storage).more))
  /\ UNCHANGED <<mainPc, shut, timerCalls, js, asks, armed, marker, teardown>>

(***************************************************************************)
(* The teardown thread: _run() and _wait_until_idle().                     *)
(***************************************************************************)
WaitThen(step) == /\ pc' = "wait" /\ next' = step
                  /\ marker' = NewMarker

\* timers->quit() ends them.
TimersLeft == 0

Quit ==
  /\ pc = "quit"
  /\ timerCalls' = TimersLeft
  /\ WaitThen("stop")
  /\ UNCHANGED <<mainPc, shut, engine, storage, surfaces>>

\* A second has passed, and the marker has not started.
Trigger ==
  /\ pc = "wait" /\ marker.state = "queued" /\ ~armed
  /\ marker' = [marker EXCEPT !.interrupted = TRUE]
  /\ armed' = TRUE
  /\ UNCHANGED <<mainPc, shut, timerCalls, js, work, asks, storage, teardown>>

IsIdle ==
  /\ pc = "wait" /\ marker.state = "done"
  /\ pc' = next
  /\ UNCHANGED <<mainPc, shut, timerCalls, engine, marker, storage, surfaces, next>>

\* Mutant of AfterStop: the surfaces stop all at once.
StopAllAtOnce == pc' = "stop" /\ UNCHANGED <<next, marker>>
AfterStop == WaitThen("stop")

StopSurface ==
  /\ pc = "stop" /\ surfaces # <<>>
  /\ surfaces' = Tail(surfaces)
  /\ work' = Append(work, JSTask("unmount"))
  /\ AfterStop
  /\ UNCHANGED <<mainPc, shut, timerCalls, js, asks, armed, storage>>

WaitForStorage ==
  /\ pc = "stop" /\ surfaces = <<>>
  /\ pc' = "storage"
  /\ storage' = Append(storage, [kind |-> "marker"])
  /\ UNCHANGED <<mainPc, shut, timerCalls, engine, marker, surfaces, next>>

StorageIsIdle ==
  /\ pc = "storage" /\ storage # <<>> /\ Head(storage).kind = "marker"
  /\ storage' = Tail(storage)
  /\ WaitThen("destroy")
  /\ UNCHANGED <<mainPc, shut, timerCalls, engine, surfaces>>

\* react_host.reset() waits for the task in progress and drops the others.
Destroy ==
  /\ pc = "destroy" /\ js.kind = "idle"
  /\ pc' = "finished"
  /\ work' = <<>>
  /\ UNCHANGED <<mainPc, shut, timerCalls, js, asks, armed, marker, storage, surfaces, next>>

MainStep == DrainQueue \/ Joined
JSStep == StartNext \/ ReturnTask \/ CallStorageAgain \/ Interrupted \/ StartMarker \/ EndMarker
TeardownStep ==
  Quit \/ Trigger \/ IsIdle \/ StopSurface \/ WaitForStorage \/ StorageIsIdle \/ Destroy

TeardownNext ==
  \/ MainStep \/ RetireInstance \/ FinishInstance
  \/ JSStep \/ TimerFires \/ CallMain \/ CallStorage \/ Loop
  \/ RunStorage
  \/ TeardownStep

TeardownSafety == TeardownInit /\ [][TeardownNext]_teardownVars

\* The threads keep running.  Nothing makes JavaScript return from a loop.
TeardownSpec ==
  /\ TeardownSafety
  /\ WF_teardownVars(MainStep) /\ WF_teardownVars(JSStep) /\ WF_teardownVars(RunStorage)
  /\ WF_teardownVars(TeardownStep)

(***************************************************************************)
(* Properties.                                                             *)
(***************************************************************************)
Steps == {"none", "quit", "wait", "stop", "storage", "destroy", "finished"}

TeardownTypeOK ==
  /\ mainPc \in {"running", "joining", "done"}
  /\ shut \in BOOLEAN /\ armed \in BOOLEAN
  /\ timerCalls \in 0..MaxTimers /\ asks \in 0..MaxStorageCalls
  /\ js \in [kind : {"idle", "app", "busy", "blocked", "result", "unmount", "marker"},
             more : 0..MaxChain + 1]
  /\ work \in Seq([kind : {"app", "unmount", "result"}, more : 0..MaxChain + 1])
  /\ marker \in [state : {"none", "queued", "started", "done"}, interrupted : BOOLEAN]
  /\ storage \in Seq([kind : {"call"}, more : 0..MaxChain + 1] \cup [kind : {"marker"}])
  /\ pc \in Steps /\ next \in Steps
  /\ surfaces \in Seq(Nat)
  /\ (pc = "finished" => timerCalls = 0 /\ js.kind = "idle")

\* An interrupt meant for one wait cannot cut short the work that follows it,
\* whenever it arrives: none is armed once the marker has run.
InterruptEndsWithItsWait ==
  TeardownTypeOK /\ (armed => marker.state \in {"queued", "started"})

Cleaning == js.kind = "unmount" \/ \E i \in 1..Len(work) : work[i].kind = "unmount"
\* Storage calls of the runtime, not yet run or with a result not yet received.
Outstanding(kinds) ==
  \/ js.kind = "result" /\ js.more \in kinds
  \/ \E i \in 1..Len(work) : work[i].kind = "result" /\ work[i].more \in kinds
  \/ \E i \in 1..Len(storage) : storage[i].kind = "call" /\ storage[i].more \in kinds

\* React has cleaned up after one surface before the next one stops, and what tasks
\* and cleanups ask of the storage is done, and they have had the result, before the
\* runtime is destroyed.
CleanupsAreDone ==
  [][(StopSurface => ~Cleaning) /\ (Destroy => ~Outstanding({MaxChain}))]_teardownVars

\* The teardown promises that of every storage call of the runtime, of those that
\* the result of another one makes, too.
StorageCallsFinish == [][Destroy => ~Outstanding(0..MaxChain)]_teardownVars

\* Quitting does not hang, whatever JavaScript does: the main thread, which has
\* stopped draining, joins a teardown that ends.  Only the late result of a call
\* that another one's result made can still run away from the teardown.
RunsAway == pc = "destroy" /\ js.kind = "busy" /\ js.more < MaxChain
QuitReturns == mainPc = "joining" ~> mainPc = "done" \/ RunsAway
================================================================================
