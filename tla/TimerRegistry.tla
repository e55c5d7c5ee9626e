----------------------------- MODULE TimerRegistry -----------------------------
(***************************************************************************)
(* GodotTimerRegistry: JavaScript's timers.  The JS thread creates,        *)
(* deletes, pauses and resumes timers; the registry's own thread waits for *)
(* their delays and fires them; a fired timer becomes a task of the JS     *)
(* thread.  An interval keeps at most one such task, however busy          *)
(* JavaScript is, and a pause makes every tick that is still waiting stale.*)
(*                                                                         *)
(* A step is one acquisition of the registry's mutex, or one task of the   *)
(* JS thread.  Time is counted down where it is stored, in units of        *)
(* 1/Grain millisecond, so that it needs no bound.  Ticks are only ever    *)
(* compared with each other, so nextTick_++ is any tick no entry has.      *)
(***************************************************************************)
EXTENDS Naturals, Sequences, FiniteSets

CONSTANTS Timeouts, Intervals,  \* timer ids, each used once, as TimerManager numbers them
          Delays,               \* the delays JavaScript asks for, in units
          Grain,                \* units in the millisecond a delay is truncated to
          MaxScheduled          \* bound: entries in the timer thread's queue

Timers == Timeouts \cup Intervals

ASSUME TimersAssumption == Timeouts \cap Intervals = {} /\ "none" \notin Timers
ASSUME DelaysAssumption == Delays \subseteq Nat
ASSUME GrainAssumption == Grain \in Nat \ {0}
ASSUME ScheduledAssumption == MaxScheduled \in Nat

VARIABLES unused,     \* the ids TimerManager has not given out yet
          callbacks,  \* the ids whose callback TimerManager holds
          live,       \* the keys of timers_
          timers,     \* the values of timers_; Blank where there is none
          paused,     \* paused_
          scheduled,  \* what thread_.runAsync holds: ticks and their time left
          firing,     \* the tick the thread is firing, past the lock
          thread,     \* how far quit() has come
          jsTasks,         \* the JS thread's tasks of one priority, in order
          owed,       \* history: the running time each timer still has to wait
          cuts        \* history: resumes that cut a part of a millisecond

timerVars == <<unused, callbacks, live, timers, paused, scheduled, firing, thread,
          jsTasks, owed, cuts>>

Ticks == 1..MaxScheduled
NoTick == 0
Timer == [delay : Nat, queued : BOOLEAN, tick : Nat, due : Nat, remaining : Nat]
Blank == [delay |-> 0, queued |-> FALSE, tick |-> NoTick, due |-> 0, remaining |-> 0]
Idle == [timer |-> "none", called |-> FALSE]
TimerTask == [kind : {"call", "unqueue"}, timer : Timers]

\* static_cast<int32_t>(delayMs): whole milliseconds.
Truncated(d) == (d \div Grain) * Grain

TimersInit ==
  /\ unused = Timers
  /\ callbacks = {}
  /\ live = {}
  /\ timers = [t \in Timers |-> Blank]
  /\ paused = FALSE
  /\ scheduled = {}
  /\ firing = Idle
  /\ thread = "running"
  /\ jsTasks = <<>>
  /\ owed = [t \in Timers |-> 0]
  /\ cuts = [t \in Timers |-> 0]

(***************************************************************************)
(* schedule(), under the lock.  The new tick is the timer's only valid     *)
(* one; a paused timer has none.  A thread that quit takes no more work.   *)
(***************************************************************************)
Scheduled(timer, delay, tick, isPaused) ==
  IF isPaused THEN [timer EXCEPT !.tick = NoTick, !.remaining = delay]
              ELSE [timer EXCEPT !.tick = tick, !.due = Truncated(delay)]

Entries(t, delay, tick, isPaused) ==
  IF isPaused \/ thread # "running" THEN {}
  ELSE {[timer |-> t, tick |-> tick, left |-> Truncated(delay)]}

NewTicks(entries) == {n \in Ticks : \A e \in entries : e.tick # n}

(***************************************************************************)
(* The JS thread.                                                          *)
(***************************************************************************)

\* createTimer and createRecurringTimer.
Add(t, delay) ==
  /\ t \in unused
  /\ unused' = unused \ {t}
  /\ callbacks' = callbacks \cup {t}
  /\ live' = live \cup {t}
  /\ NewTicks(scheduled) # {}
  /\ LET tick == CHOOSE n \in NewTicks(scheduled) : TRUE IN
       /\ timers' = [timers EXCEPT
            ![t] = Scheduled([Blank EXCEPT !.delay = delay], delay, tick, paused)]
       /\ scheduled' = scheduled \cup Entries(t, delay, tick, paused)
  /\ owed' = [owed EXCEPT ![t] = Truncated(delay)]
  /\ UNCHANGED <<paused, firing, thread, jsTasks, cuts>>

\* clearTimeout and clearInterval: an entry that is waiting finds no timer.
DeleteTimer(t) ==
  /\ t \in callbacks
  /\ callbacks' = callbacks \ {t}
  /\ live' = live \ {t}
  /\ timers' = [timers EXCEPT ![t] = Blank]
  /\ UNCHANGED <<unused, paused, scheduled, firing, thread, jsTasks, owed, cuts>>

\* Mutant: a pause leaves the tick that is waiting valid.
PauseKeepsTick ==
  /\ ~paused
  /\ paused' = TRUE
  /\ timers' = [t \in Timers |-> IF t \notin live THEN timers[t] ELSE
                  [timers[t] EXCEPT !.remaining = timers[t].due]]
  /\ UNCHANGED <<unused, callbacks, live, scheduled, firing, thread, jsTasks, owed, cuts>>

\* setPaused(true) keeps what is left of every delay.
Pause ==
  /\ ~paused
  /\ paused' = TRUE
  /\ timers' = [t \in Timers |-> IF t \notin live THEN timers[t] ELSE
                  [timers[t] EXCEPT !.remaining = timers[t].due, !.tick = NoTick]]
  /\ UNCHANGED <<unused, callbacks, live, scheduled, firing, thread, jsTasks, owed, cuts>>

\* setPaused(false) schedules every timer again with what was left of it.
Resume ==
  /\ paused
  /\ paused' = FALSE
  /\ Cardinality(NewTicks(scheduled)) >= Cardinality(live)
  /\ LET tick == CHOOSE f \in [live -> NewTicks(scheduled)] :
                   \A t, u \in live : f[t] = f[u] => t = u
     IN /\ timers' = [t \in Timers |-> IF t \notin live THEN timers[t] ELSE
                        Scheduled(timers[t], timers[t].remaining, tick[t], FALSE)]
        /\ scheduled' = scheduled \cup
             UNION {Entries(t, timers[t].remaining, tick[t], FALSE) : t \in live}
  /\ cuts' = [t \in Timers |->
                IF t \in live /\ Truncated(timers[t].remaining) # timers[t].remaining
                  THEN cuts[t] + 1 ELSE cuts[t]]
  /\ UNCHANGED <<unused, callbacks, live, firing, thread, jsTasks, owed>>

\* The task of TimerManager::callTimer runs the callback, unless it was cleared,
\* and forgets a timeout's.
RunCall ==
  /\ jsTasks # <<>> /\ Head(jsTasks).kind = "call"
  /\ jsTasks' = Tail(jsTasks)
  /\ callbacks' = IF Head(jsTasks).timer \in Timeouts
                    THEN callbacks \ {Head(jsTasks).timer} ELSE callbacks
  /\ UNCHANGED <<unused, live, timers, paused, scheduled, firing, thread, owed, cuts>>

\* The task behind it runs unqueue().
RunUnqueue ==
  /\ jsTasks # <<>> /\ Head(jsTasks).kind = "unqueue"
  /\ jsTasks' = Tail(jsTasks)
  /\ LET t == Head(jsTasks).timer IN
       timers' = IF t \in live THEN [timers EXCEPT ![t].queued = FALSE] ELSE timers
  /\ UNCHANGED <<unused, callbacks, live, paused, scheduled, firing, thread, owed, cuts>>

(***************************************************************************)
(* The timer thread.  It fires one entry at a time, once its delay is over.*)
(***************************************************************************)

Due(t, e) == /\ thread = "running" /\ firing = Idle
             /\ e \in scheduled /\ e.timer = t /\ e.left = 0
\* Mutant: fire() does not compare ticks.
ValidIfLive(t, e) == t \in live
Valid(t, e) == t \in live /\ timers[t].tick = e.tick

\* fire() finds the timer gone, paused or rescheduled.
FireStale(t) ==
  \E e \in scheduled :
    /\ Due(t, e) /\ ~Valid(t, e)
    /\ scheduled' = scheduled \ {e}
    /\ UNCHANGED <<unused, callbacks, live, timers, paused, firing, thread, jsTasks, owed, cuts>>

\* fire() of a timeout takes it out.
FireTimeout(t) ==
  \E e \in scheduled :
    /\ t \in Timeouts /\ Due(t, e) /\ Valid(t, e)
    /\ scheduled' = scheduled \ {e}
    /\ live' = live \ {t}
    /\ timers' = [timers EXCEPT ![t] = Blank]
    /\ firing' = [timer |-> t, called |-> FALSE]
    /\ UNCHANGED <<unused, callbacks, paused, thread, jsTasks, owed, cuts>>

\* fire() of an interval schedules its next tick, and calls JavaScript unless an
\* earlier call is still waiting there.
FireInterval(t) ==
  \E e \in scheduled :
    /\ t \in Intervals /\ Due(t, e) /\ Valid(t, e)
    /\ LET rest == scheduled \ {e}
           delay == timers[t].delay
           tick == CHOOSE n \in NewTicks(rest) : TRUE
       IN /\ timers' = [timers EXCEPT ![t] =
               Scheduled([timers[t] EXCEPT !.queued = TRUE], delay, tick, paused)]
          /\ scheduled' = rest \cup Entries(t, delay, tick, paused)
          /\ owed' = [owed EXCEPT ![t] = Truncated(delay)]
          /\ cuts' = [cuts EXCEPT ![t] = 0]
    /\ firing' = IF timers[t].queued THEN Idle ELSE [timer |-> t, called |-> FALSE]
    /\ UNCHANGED <<unused, callbacks, live, paused, thread, jsTasks>>

Fire(t) == FireStale(t) \/ FireTimeout(t) \/ FireInterval(t)

\* Mutant: nothing clears the mark of an interval that was called.
CallNeverUnqueues ==
  /\ firing # Idle /\ ~firing.called
  /\ jsTasks' = Append(jsTasks, [kind |-> "call", timer |-> firing.timer])
  /\ firing' = Idle
  /\ UNCHANGED <<unused, callbacks, live, timers, paused, scheduled, thread, owed, cuts>>

\* timerManager->callTimer(timerId)
CallTimer ==
  /\ firing # Idle /\ ~firing.called
  /\ jsTasks' = Append(jsTasks, [kind |-> "call", timer |-> firing.timer])
  /\ firing' = IF firing.timer \in Intervals THEN [firing EXCEPT !.called = TRUE] ELSE Idle
  /\ UNCHANGED <<unused, callbacks, live, timers, paused, scheduled, thread, owed, cuts>>

\* scheduler->scheduleWork(... unqueue(timerId)), behind the call.
ScheduleUnqueue ==
  /\ firing # Idle /\ firing.called
  /\ jsTasks' = Append(jsTasks, [kind |-> "unqueue", timer |-> firing.timer])
  /\ firing' = Idle
  /\ UNCHANGED <<unused, callbacks, live, timers, paused, scheduled, thread, owed, cuts>>

(***************************************************************************)
(* The teardown thread, and time.                                          *)
(***************************************************************************)

\* quit(): thread_.quit() joins the thread, then the timers are cleared.
QuitThread ==
  /\ thread = "running" /\ firing = Idle
  /\ thread' = "joined"
  /\ scheduled' = {}
  /\ UNCHANGED <<unused, callbacks, live, timers, paused, firing, jsTasks, owed, cuts>>

QuitTimers ==
  /\ thread = "joined"
  /\ thread' = "quit"
  /\ live' = {}
  /\ timers' = [t \in Timers |-> Blank]
  /\ UNCHANGED <<unused, callbacks, paused, scheduled, firing, jsTasks, owed, cuts>>

Less(n) == IF n = 0 THEN 0 ELSE n - 1

Elapse ==
  /\ scheduled' = {[e EXCEPT !.left = Less(@)] : e \in scheduled}
  /\ timers' = [t \in Timers |-> [timers[t] EXCEPT !.due = Less(@)]]
  /\ owed' = [t \in Timers |-> IF paused THEN owed[t] ELSE Less(owed[t])]
  /\ UNCHANGED <<unused, callbacks, live, paused, firing, thread, jsTasks, cuts>>

TimerThread == (\E t \in Timers : Fire(t)) \/ CallTimer \/ ScheduleUnqueue
JsTasks == RunCall \/ RunUnqueue

TimersNext ==
  \/ \E t \in Timers, d \in Delays : Add(t, d)
  \/ \E t \in Timers : DeleteTimer(t)
  \/ Pause \/ Resume
  \/ RunCall \/ RunUnqueue
  \/ \E t \in Timers : FireStale(t)
  \/ \E t \in Timers : FireTimeout(t)
  \/ \E t \in Timers : FireInterval(t)
  \/ CallTimer \/ ScheduleUnqueue
  \/ QuitThread \/ QuitTimers
  \/ Elapse

\* Time passes, the JS thread runs its tasks, and TaskDispatchThread takes entries
\* in the order they are due, so an entry that is due is not passed over for ever
\* for later ones, although the thread is busy in between: strong fairness.
TimersFairness ==
  /\ WF_timerVars(Elapse)
  /\ \A t \in Timers : SF_timerVars(Fire(t))
  /\ WF_timerVars(CallTimer \/ ScheduleUnqueue)
  /\ WF_timerVars(JsTasks)

TimersSafety == TimersInit /\ [][TimersNext]_timerVars
TimersSpec == TimersSafety /\ TimersFairness

(***************************************************************************)
(* Properties.                                                             *)
(***************************************************************************)

TimersTypeOK ==
  /\ unused \subseteq Timers
  /\ callbacks \subseteq Timers \ unused
  /\ live \subseteq callbacks
  /\ timers \in [Timers -> Timer]
  /\ \A t \in Timers \ live : timers[t].tick = NoTick
  /\ paused \in BOOLEAN
  /\ scheduled \subseteq [timer : Timers, tick : Ticks, left : Nat]
  /\ firing = Idle \/ firing \in [timer : Timers, called : BOOLEAN]
  /\ thread \in {"running", "joined", "quit"}
  /\ jsTasks \in Seq(TimerTask)
  /\ owed \in [Timers -> Nat]
  /\ cuts \in [Timers -> Nat]

Calls(t) == {i \in 1..Len(jsTasks) : jsTasks[i] = [kind |-> "call", timer |-> t]}

\* However busy JavaScript is and whatever is paused, resumed or cleared meanwhile,
\* at most one tick of a timer waits for the JS thread, and no timer is lost or
\* doubled: a running registry has exactly one entry that can fire each timer, and
\* a paused one has none.
TicksAreKept ==
  /\ TimersTypeOK
  /\ \A t \in Timers :
       Cardinality(Calls(t)) + (IF firing.timer = t /\ ~firing.called THEN 1 ELSE 0) <= 1
  /\ thread = "running" =>
       \A t \in live :
         Cardinality({e \in scheduled : e.timer = t /\ e.tick = timers[t].tick})
           = IF paused THEN 0 ELSE 1

\* A timer never fires before it has run its delay, pauses not counted, and none
\* fires while the registry is paused.  Each resume may cut less than a millisecond,
\* as schedule() truncates what is left.
NeverEarly ==
  [][\A t \in Timers :
       FireTimeout(t) \/ FireInterval(t) => owed[t] <= cuts[t] * (Grain - 1) /\ ~paused]_timerVars

\* A timeout that is not cleared is run by JavaScript, and an interval keeps ticking,
\* unless the runtime is suspended or torn down first: a pause and a resume may not
\* lose the one, nor its queued mark silence the other.
TimersRun ==
  /\ \A t \in Timeouts :
       t \in callbacks ~> t \notin callbacks \/ paused \/ thread # "running"
  /\ \A t \in Intervals :
       t \in live ~> Calls(t) # {} \/ t \notin live \/ paused \/ thread # "running"
================================================================================
