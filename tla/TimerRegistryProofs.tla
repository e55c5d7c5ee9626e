-------------------------- MODULE TimerRegistryProofs --------------------------
(***************************************************************************)
(* Theorems of TimerRegistry, for any timers, delays, units and bounds.     *)
(*                                                                         *)
(* A timer that runs has one entry of its own tick in the thread's queue,   *)
(* with the time the timer has left; and what an interval has in the JS     *)
(* thread's queue is a call, or an unqueue, or the one before the other,    *)
(* while its queued mark keeps the next tick from adding to them.           *)
(***************************************************************************)
EXTENDS TimerRegistry, FunctionTheorems, FiniteSetTheorems, TLAPS

USE TimersAssumption, DelaysAssumption, GrainAssumption, ScheduledAssumption

\* The one entry that can fire a timer: of its tick, with the time it has left.
HasEntry(t) ==
  \E e \in scheduled : e.timer = t /\ e.tick = timers[t].tick /\ e.left = timers[t].due

\* A tick is of one entry only; a pause leaves none of them valid.
EntriesAreKept ==
  /\ \A e, f \in scheduled : e.tick = f.tick => e = f
  /\ thread = "running" /\ ~paused => \A t \in live : HasEntry(t)
  /\ paused => \A t \in live : timers[t].tick = NoTick

\* A timer that the next tick may call: nothing of it is on the way to JavaScript.
Resting(t) == t \in Timeouts \/ ~timers[t].queued

\* What waits for JavaScript is at most a call of each timer and its unqueue behind it.
CallsAreKept ==
  /\ \A i, j \in 1..Len(jsTasks) : jsTasks[i].timer = jsTasks[j].timer /\ i < j =>
       jsTasks[i].kind = "call" /\ jsTasks[j].kind = "unqueue"
  /\ \A i \in 1..Len(jsTasks) : jsTasks[i].timer = firing.timer =>
       firing.called /\ jsTasks[i].kind = "call"
  /\ \A t \in unused : firing.timer # t /\ \A i \in 1..Len(jsTasks) : jsTasks[i].timer # t
  /\ \A t \in live : Resting(t) =>
       firing.timer # t /\ \A i \in 1..Len(jsTasks) : jsTasks[i].timer # t

\* What a timer still owes is left of its delay, but for what resumes have cut.
DelaysAreRun ==
  \A t \in live :
    owed[t] <= cuts[t] * (Grain - 1) + (IF paused THEN timers[t].remaining ELSE timers[t].due)

TimerInv ==
  TimersTypeOK /\ IsFiniteSet(live) /\ EntriesAreKept /\ CallsAreKept /\ DelaysAreRun

EntrySet == [timer : Timers, tick : Ticks, left : Nat]

-----------------------------------------------------------------------------
(* Operators. *)

\* Truncation to whole milliseconds cuts less than one.
LEMMA Cut ==
  ASSUME NEW d \in Nat
  PROVE  Truncated(d) \in Nat /\ Truncated(d) <= d /\ d <= Truncated(d) + (Grain - 1)
<1>1. d \div Grain \in Nat /\ d % Grain \in 0..(Grain - 1)
  OBVIOUS
<1>2. d = Grain * (d \div Grain) + (d % Grain)
  OBVIOUS
<1>3. (d \div Grain) * Grain = Grain * (d \div Grain) /\ (d \div Grain) * Grain \in Nat
  BY <1>1
<1> QED BY <1>1, <1>2, <1>3 DEF Truncated

\* One resume more.
LEMMA OneMore ==
  ASSUME NEW a \in Nat, NEW b \in Nat
  PROVE  (a + 1) * b = a * b + b /\ a * b \in Nat
OBVIOUS

\* What is chosen of a set is in it.
LEMMA Chosen ==
  ASSUME NEW S, S # {}
  PROVE  (CHOOSE n \in S : TRUE) \in S
OBVIOUS

\* schedule() of a timer: what it changes of it.
LEMMA SchedulesTimer ==
  ASSUME NEW r \in Timer, NEW d \in Nat, NEW n \in Ticks, NEW p \in BOOLEAN
  PROVE  /\ Scheduled(r, d, n, p) \in Timer
         /\ Scheduled(r, d, n, p).queued = r.queued /\ Scheduled(r, d, n, p).delay = r.delay
         /\ p => Scheduled(r, d, n, p).tick = NoTick /\ Scheduled(r, d, n, p).remaining = d
         /\ ~p => /\ Scheduled(r, d, n, p).tick = n
                  /\ Scheduled(r, d, n, p).due = Truncated(d)
<1>1. Truncated(d) \in Nat /\ NoTick \in Nat /\ n \in Nat
  BY Cut DEF NoTick, Ticks
<1>2. CASE p
  BY <1>1, <1>2 DEF Scheduled, Timer
<1>3. CASE ~p
  BY <1>1, <1>3 DEF Scheduled, Timer
<1> QED BY <1>2, <1>3

\* schedule() of a timer: its entry.
LEMMA SchedulesEntry ==
  ASSUME NEW t \in Timers, NEW d \in Nat, NEW n \in Ticks, NEW p \in BOOLEAN
  PROVE  /\ Entries(t, d, n, p) \subseteq EntrySet
         /\ \A e \in Entries(t, d, n, p) : e.timer = t /\ e.tick = n /\ e.left = Truncated(d)
         /\ p \/ thread # "running" => Entries(t, d, n, p) = {}
         /\ ~p /\ thread = "running" => \E e \in Entries(t, d, n, p) : TRUE
<1>1. [timer |-> t, tick |-> n, left |-> Truncated(d)] \in EntrySet
  BY Cut DEF EntrySet
<1> QED BY <1>1 DEF Entries

\* The type, in the form the steps use.
LEMMA TypeFacts ==
  ASSUME TimersTypeOK
  PROVE  /\ \A t \in Timers : /\ timers[t] \in Timer /\ timers[t].delay \in Nat
                              /\ timers[t].queued \in BOOLEAN /\ timers[t].tick \in Nat
                              /\ timers[t].due \in Nat /\ timers[t].remaining \in Nat
                              /\ owed[t] \in Nat /\ cuts[t] \in Nat
         /\ \A e \in scheduled : /\ e \in EntrySet /\ e.timer \in Timers /\ e.tick \in Ticks
                                 /\ e.tick # NoTick /\ e.left \in Nat
         /\ live \subseteq Timers /\ live \cap unused = {}
         /\ Blank \in Timer /\ Blank.tick = NoTick /\ ~Blank.queued
         /\ firing = Idle => firing.timer \notin Timers
         /\ firing # Idle => firing.timer \in Timers /\ firing.called \in BOOLEAN
<1>1. \A t \in Timers : timers[t] \in Timer /\ owed[t] \in Nat /\ cuts[t] \in Nat
  BY DEF TimersTypeOK
<1>2. \A r \in Timer : /\ r.delay \in Nat /\ r.queued \in BOOLEAN /\ r.tick \in Nat
                       /\ r.due \in Nat /\ r.remaining \in Nat
  BY DEF Timer
<1>3. \A e \in scheduled : e \in EntrySet
  BY DEF TimersTypeOK, EntrySet
<1>4. \A e \in EntrySet : e.timer \in Timers /\ e.tick \in Ticks /\ e.tick # NoTick /\ e.left \in Nat
  BY DEF EntrySet, Ticks, NoTick
<1>5. live \subseteq Timers /\ live \cap unused = {}
  BY DEF TimersTypeOK
<1>6. Blank \in Timer /\ Blank.tick = NoTick /\ ~Blank.queued
  BY DEF Blank, Timer, NoTick
<1>7. /\ firing = Idle => firing.timer \notin Timers
      /\ firing # Idle => firing.timer \in Timers /\ firing.called \in BOOLEAN
  BY DEF TimersTypeOK, Idle
<1> QED BY <1>1, <1>2, <1>3, <1>4, <1>5, <1>6, <1>7

-----------------------------------------------------------------------------
(* The JS thread. *)

\* createTimer: a new timer, whose entry has a tick of its own.
LEMMA AddStep ==
  ASSUME TimerInv, NEW t \in Timers, NEW d \in Delays, Add(t, d)
  PROVE  TimerInv'
<1> USE DEF TimerInv
<1> DEFINE n == CHOOSE m \in NewTicks(scheduled) : TRUE
           blank == [Blank EXCEPT !.delay = d]
           r == Scheduled(blank, d, n, paused)
           new == Entries(t, d, n, paused)
<1>1. /\ t \in unused /\ unused' = unused \ {t}
      /\ callbacks' = callbacks \cup {t} /\ live' = live \cup {t}
      /\ NewTicks(scheduled) # {}
      /\ timers' = [timers EXCEPT ![t] = r] /\ scheduled' = scheduled \cup new
      /\ owed' = [owed EXCEPT ![t] = Truncated(d)]
      /\ UNCHANGED <<paused, firing, thread, jsTasks, cuts>>
  BY DEF Add
<1>2. n \in NewTicks(scheduled)
  BY <1>1, Chosen
<1>3. n \in Ticks /\ \A e \in scheduled : e.tick # n
  BY <1>2 DEF NewTicks
<1>4. d \in Nat /\ Truncated(d) \in Nat /\ Truncated(d) <= d /\ paused \in BOOLEAN
  BY Cut DEF TimersTypeOK
<1>5. blank \in Timer /\ ~blank.queued
  BY <1>4 DEF Blank, Timer, NoTick
<1> HIDE DEF n, blank
<1>6. /\ r \in Timer /\ ~r.queued
      /\ paused => r.tick = NoTick /\ r.remaining = d
      /\ ~paused => r.tick = n /\ r.due = Truncated(d)
  BY <1>3, <1>4, <1>5, SchedulesTimer
<1>7. /\ new \subseteq EntrySet
      /\ \A e \in new : e.timer = t /\ e.tick = n /\ e.left = Truncated(d)
      /\ paused \/ thread # "running" => new = {}
      /\ ~paused /\ thread = "running" => \E e \in new : TRUE
  BY <1>3, <1>4, SchedulesEntry
<1>8. \A e, f \in new : e = f
  BY DEF Entries
<1> HIDE DEF r, new
<1>9. t \notin live /\ timers'[t] = r /\ \A u \in Timers \ {t} : timers'[u] = timers[u]
  BY <1>1, TypeFacts DEF TimersTypeOK
<1>10. TimersTypeOK'
  <2>1. timers' \in [Timers -> Timer] /\ owed' \in [Timers -> Nat]
    BY <1>1, <1>4, <1>6 DEF TimersTypeOK
  <2>2. scheduled' \subseteq EntrySet
    BY <1>1, <1>7, TypeFacts
  <2> QED BY <1>1, <1>9, <2>1, <2>2 DEF TimersTypeOK, EntrySet
<1>11. IsFiniteSet(live')
  BY <1>1, FS_AddElement
<1>12. EntriesAreKept'
  <2>1. \A e, f \in scheduled' : e.tick = f.tick => e = f
    BY <1>1, <1>3, <1>7, <1>8 DEF EntriesAreKept
  <2>2. ASSUME thread' = "running", ~paused', NEW u \in live' PROVE HasEntry(u)'
    <3>1. CASE u = t
      BY <1>1, <1>6, <1>7, <1>9, <2>2, <3>1 DEF HasEntry
    <3>2. CASE u # t
      BY <1>1, <1>9, <2>2, <3>2, TypeFacts DEF HasEntry, EntriesAreKept
    <3> QED BY <3>1, <3>2
  <2>3. paused' => \A u \in live' : timers'[u].tick = NoTick
    BY <1>1, <1>6, <1>9, TypeFacts DEF EntriesAreKept
  <2> QED BY <2>1, <2>2, <2>3 DEF EntriesAreKept
<1>13. CallsAreKept'
  BY <1>1, <1>9, TypeFacts DEF CallsAreKept, Resting
<1>14. DelaysAreRun'
  <2>1. owed'[t] = Truncated(d) /\ \A u \in Timers \ {t} : owed'[u] = owed[u]
    BY <1>1 DEF TimersTypeOK
  <2>2. cuts[t] * (Grain - 1) \in Nat
    BY TypeFacts, OneMore
  <2>3. owed'[t] <= cuts'[t] * (Grain - 1)
                    + (IF paused' THEN timers'[t].remaining ELSE timers'[t].due)
    BY <1>1, <1>4, <1>6, <1>9, <2>1, <2>2
  <2> QED BY <1>1, <1>9, <2>1, <2>3, TypeFacts DEF DelaysAreRun
<1> QED BY <1>10, <1>11, <1>12, <1>13, <1>14

\* clearTimeout: what waits of the timer finds none.
LEMMA DeleteStep ==
  ASSUME TimerInv, NEW t \in Timers, DeleteTimer(t)
  PROVE  TimerInv'
<1> USE DEF TimerInv
<1>1. /\ t \in callbacks /\ callbacks' = callbacks \ {t} /\ live' = live \ {t}
      /\ timers' = [timers EXCEPT ![t] = Blank]
      /\ UNCHANGED <<unused, paused, scheduled, firing, thread, jsTasks, owed, cuts>>
  BY DEF DeleteTimer
<1>2. timers'[t] = Blank /\ \A u \in Timers \ {t} : timers'[u] = timers[u]
  BY <1>1 DEF TimersTypeOK
<1>3. timers' \in [Timers -> Timer]
  BY <1>1, TypeFacts DEF TimersTypeOK
<1>4. TimersTypeOK'
  BY <1>1, <1>2, <1>3, TypeFacts DEF TimersTypeOK
<1>5. IsFiniteSet(live')
  BY <1>1, FS_RemoveElement
<1>6. EntriesAreKept'
  BY <1>1, <1>2, TypeFacts DEF EntriesAreKept, HasEntry
<1>7. CallsAreKept'
  BY <1>1, <1>2, TypeFacts DEF CallsAreKept, Resting
<1>8. DelaysAreRun'
  BY <1>1, <1>2, TypeFacts DEF DelaysAreRun
<1> QED BY <1>4, <1>5, <1>6, <1>7, <1>8

\* setPaused(true): what is left is kept, and no entry is valid any more.
LEMMA PauseStep ==
  ASSUME TimerInv, Pause
  PROVE  TimerInv'
<1> USE DEF TimerInv
<1>1. /\ ~paused /\ paused' = TRUE
      /\ timers' = [t \in Timers |-> IF t \notin live THEN timers[t] ELSE
                      [timers[t] EXCEPT !.remaining = timers[t].due, !.tick = NoTick]]
      /\ UNCHANGED <<unused, callbacks, live, scheduled, firing, thread, jsTasks, owed, cuts>>
  BY DEF Pause
<1>2. ASSUME NEW t \in Timers
      PROVE  /\ timers'[t] \in Timer /\ timers'[t].queued = timers[t].queued
             /\ t \notin live => timers'[t] = timers[t]
             /\ t \in live => timers'[t].tick = NoTick /\ timers'[t].remaining = timers[t].due
  <2>1. timers[t] \in Timer /\ timers[t].due \in Nat
    BY TypeFacts
  <2> QED BY <1>1, <2>1 DEF Timer, NoTick
<1>3. timers' \in [Timers -> Timer]
  BY <1>1, <1>2
<1>4. TimersTypeOK'
  BY <1>1, <1>2, <1>3 DEF TimersTypeOK
<1>5. EntriesAreKept'
  BY <1>1, <1>2, TypeFacts DEF EntriesAreKept
<1>6. CallsAreKept'
  <2>1. \A t \in live : Resting(t)' => Resting(t)
    BY <1>2, TypeFacts DEF Resting
  <2> QED BY <1>1, <2>1 DEF CallsAreKept
<1>7. DelaysAreRun'
  BY <1>1, <1>2, TypeFacts DEF DelaysAreRun
<1> QED BY <1>1, <1>4, <1>5, <1>6, <1>7

\* There is a tick of its own for each timer that a resume schedules.
LEMMA TicksForAll ==
  ASSUME NEW S, IsFiniteSet(S), NEW N \in SUBSET Ticks, Cardinality(N) >= Cardinality(S)
  PROVE  LET tick == CHOOSE f \in [S -> N] : \A t, u \in S : f[t] = f[u] => t = u
         IN  tick \in [S -> N] /\ \A t, u \in S : tick[t] = tick[u] => t = u
<1>1. IsFiniteSet(N)
  <2>1. IsFiniteSet(Ticks)
    BY FS_Interval DEF Ticks
  <2> QED BY <2>1, FS_Subset
<1>2. /\ Cardinality(S) \in Nat /\ Cardinality(N) \in Nat
      /\ ExistsBijection(1..Cardinality(S), S) /\ ExistsBijection(1..Cardinality(N), N)
  BY <1>1, FS_CardinalityType
<1>3. ExistsInjection(S, 1..Cardinality(S)) /\ ExistsInjection(1..Cardinality(N), N)
  BY <1>2, Fun_ExistsBijEquiv
<1>4. ExistsInjection(1..Cardinality(S), 1..Cardinality(N))
  BY <1>2, Fun_NatInjLeq
<1>5. ExistsInjection(S, N)
  BY <1>3, <1>4, Fun_ExistsInjTransitive
<1>6. PICK f \in [S -> N] : \A t, u \in S : f[t] = f[u] => t = u
  BY <1>5 DEF ExistsInjection, Injection, IsInjective
<1> QED BY <1>6

\* setPaused(false): every timer has an entry again, with a tick of its own.
LEMMA ResumeStep ==
  ASSUME TimerInv, Resume
  PROVE  TimerInv'
<1> USE DEF TimerInv
<1> DEFINE tick == CHOOSE f \in [live -> NewTicks(scheduled)] :
                     \A t, u \in live : f[t] = f[u] => t = u
           r(t) == Scheduled(timers[t], timers[t].remaining, tick[t], FALSE)
           new(t) == Entries(t, timers[t].remaining, tick[t], FALSE)
<1>1. /\ paused /\ paused' = FALSE
      /\ Cardinality(NewTicks(scheduled)) >= Cardinality(live)
      /\ timers' = [t \in Timers |-> IF t \notin live THEN timers[t] ELSE r(t)]
      /\ scheduled' = scheduled \cup (UNION {new(t) : t \in live})
      /\ cuts' = [t \in Timers |->
                    IF t \in live /\ Truncated(timers[t].remaining) # timers[t].remaining
                      THEN cuts[t] + 1 ELSE cuts[t]]
      /\ UNCHANGED <<unused, callbacks, live, firing, thread, jsTasks, owed>>
  BY DEF Resume
<1>2. /\ tick \in [live -> NewTicks(scheduled)]
      /\ \A t, u \in live : tick[t] = tick[u] => t = u
  <2>1. NewTicks(scheduled) \in SUBSET Ticks /\ IsFiniteSet(live)
    BY DEF NewTicks
  <2> QED BY <1>1, <2>1, TicksForAll
<1> HIDE DEF tick
<1>3. \A t \in live : tick[t] \in Ticks /\ \A e \in scheduled : e.tick # tick[t]
  BY <1>2 DEF NewTicks
<1>4. ASSUME NEW t \in live
      PROVE  /\ r(t) \in Timer /\ r(t).queued = timers[t].queued
             /\ r(t).tick = tick[t] /\ r(t).due = Truncated(timers[t].remaining)
  <2>1. timers[t] \in Timer /\ timers[t].remaining \in Nat
    BY TypeFacts
  <2>2. tick[t] \in Nat /\ Truncated(timers[t].remaining) \in Nat
    BY <1>3, <2>1, Cut DEF Ticks
  <2> QED BY <2>1, <2>2 DEF Scheduled, Timer
<1>5. ASSUME NEW t \in live
      PROVE  /\ new(t) \subseteq EntrySet
             /\ \A e \in new(t) :
                  e.timer = t /\ e.tick = tick[t] /\ e.left = Truncated(timers[t].remaining)
             /\ thread = "running" => \E e \in new(t) : TRUE
             /\ \A e, f \in new(t) : e = f
  <2>1. timers[t].remaining \in Nat /\ t \in Timers
    BY TypeFacts
  <2>2. \A e, f \in new(t) : e = f
    BY DEF Entries
  <2> QED BY <1>3, <2>1, <2>2, SchedulesEntry
<1>6. /\ \A t \in live : timers'[t] = r(t)
      /\ \A t \in Timers \ live : timers'[t] = timers[t]
  BY <1>1, TypeFacts
<1>7. \A e \in scheduled' : e \in scheduled \/ \E t \in live : e \in new(t)
  BY <1>1
<1>8. scheduled \subseteq scheduled' /\ \A t \in live : new(t) \subseteq scheduled'
  BY <1>1
<1> HIDE DEF r, new
<1>9. timers' \in [Timers -> Timer]
  BY <1>1, <1>4, TypeFacts
<1>10. ASSUME NEW t \in live
       PROVE  LET rem == timers[t].remaining
              IN  /\ rem \in Nat /\ Truncated(rem) \in Nat /\ Truncated(rem) <= rem
                  /\ rem <= Truncated(rem) + (Grain - 1)
                  /\ cuts'[t] = IF Truncated(rem) # rem THEN cuts[t] + 1 ELSE cuts[t]
  BY <1>1, TypeFacts, Cut
<1>11. TimersTypeOK'
  <2>1. cuts' \in [Timers -> Nat]
    BY <1>1, TypeFacts
  <2>2. scheduled' \subseteq EntrySet
    BY <1>5, <1>7, TypeFacts
  <2>3. \A t \in Timers \ live' : timers'[t].tick = NoTick
    BY <1>1, <1>6 DEF TimersTypeOK
  <2> QED BY <1>1, <1>9, <2>1, <2>2, <2>3 DEF TimersTypeOK, EntrySet
<1>12. EntriesAreKept'
  <2>1. ASSUME NEW e \in scheduled', NEW f \in scheduled', e.tick = f.tick PROVE e = f
    <3>1. CASE e \in scheduled /\ f \in scheduled
      BY <2>1, <3>1 DEF EntriesAreKept
    <3>2. ASSUME NEW t \in live, e \in new(t) PROVE e = f
      <4>1. f \notin scheduled
        BY <1>3, <1>5, <2>1, <3>2
      <4>2. PICK u \in live : f \in new(u)
        BY <1>7, <4>1
      <4>3. t = u
        BY <1>2, <1>5, <2>1, <3>2, <4>2
      <4> QED BY <1>5, <3>2, <4>2, <4>3
    <3>3. ASSUME NEW t \in live, f \in new(t) PROVE e = f
      <4>1. e \notin scheduled
        BY <1>3, <1>5, <2>1, <3>3
      <4> QED BY <1>7, <3>2, <4>1
    <3> QED BY <1>7, <3>1, <3>2, <3>3
  <2>2. ASSUME thread' = "running", NEW u \in live' PROVE HasEntry(u)'
    <3>1. PICK e \in new(u) : TRUE
      BY <1>1, <1>5, <2>2
    <3>2. e \in scheduled' /\ u \in live
      BY <1>1, <1>8, <3>1
    <3>3. e.timer = u /\ e.tick = timers'[u].tick /\ e.left = timers'[u].due
      BY <1>4, <1>5, <1>6, <3>1, <3>2
    <3> QED BY <3>2, <3>3 DEF HasEntry
  <2> QED BY <1>1, <2>1, <2>2 DEF EntriesAreKept
<1>13. CallsAreKept'
  BY <1>1, <1>4, <1>6, TypeFacts DEF CallsAreKept, Resting
<1>14. DelaysAreRun'
  <2>1. SUFFICES ASSUME NEW t \in live
                 PROVE  owed[t] <= cuts'[t] * (Grain - 1) + timers'[t].due
    BY <1>1 DEF DelaysAreRun
  <2>2. owed[t] <= cuts[t] * (Grain - 1) + timers[t].remaining
    BY <1>1 DEF DelaysAreRun
  <2>3. (cuts[t] + 1) * (Grain - 1) = cuts[t] * (Grain - 1) + (Grain - 1)
        /\ cuts[t] * (Grain - 1) \in Nat /\ owed[t] \in Nat
    BY TypeFacts, OneMore
  <2>4. timers'[t].due = Truncated(timers[t].remaining)
    BY <1>4, <1>6
  <2> QED BY <1>10, <2>2, <2>3, <2>4
<1> QED BY <1>1, <1>11, <1>12, <1>13, <1>14

\* What a step leaves of the timers that it does not touch.
LEMMA SameTimers ==
  ASSUME TimerInv, UNCHANGED <<live, timers, paused, scheduled, thread, owed, cuts>>
  PROVE  IsFiniteSet(live') /\ EntriesAreKept' /\ DelaysAreRun'
<1> USE DEF TimerInv
<1>1. IsFiniteSet(live') /\ EntriesAreKept'
  BY DEF EntriesAreKept, HasEntry
<1>2. DelaysAreRun'
  BY DEF DelaysAreRun
<1> QED BY <1>1, <1>2

\* The tasks of JavaScript behind the first.
LEMMA TasksTail ==
  ASSUME TimersTypeOK, jsTasks # <<>>, jsTasks' = Tail(jsTasks)
  PROVE  /\ jsTasks' \in Seq(TimerTask) /\ 1 \in 1..Len(jsTasks)
         /\ Head(jsTasks) = jsTasks[1] /\ Head(jsTasks) \in TimerTask
         /\ Head(jsTasks).timer \in Timers
         /\ \A i \in 1..Len(jsTasks') :
              i + 1 \in 1..Len(jsTasks) /\ 1 < i + 1 /\ jsTasks'[i] = jsTasks[i + 1]
<1>1. jsTasks \in Seq(TimerTask)
  BY DEF TimersTypeOK
<1>2. Head(jsTasks) \in TimerTask
  BY <1>1
<1> QED BY <1>1, <1>2 DEF TimerTask

\* The callback of a timer runs, and that of a timeout is forgotten: no timeout whose
\* call is on the way is still in the registry.
LEMMA RunCallStep ==
  ASSUME TimerInv, RunCall
  PROVE  TimerInv'
<1> USE DEF TimerInv
<1>1. /\ jsTasks # <<>> /\ Head(jsTasks).kind = "call" /\ jsTasks' = Tail(jsTasks)
      /\ callbacks' = IF Head(jsTasks).timer \in Timeouts
                        THEN callbacks \ {Head(jsTasks).timer} ELSE callbacks
      /\ UNCHANGED <<unused, live, timers, paused, scheduled, firing, thread, owed, cuts>>
  BY DEF RunCall
<1>2. /\ jsTasks' \in Seq(TimerTask) /\ 1 \in 1..Len(jsTasks) /\ Head(jsTasks) = jsTasks[1]
      /\ \A i \in 1..Len(jsTasks') :
           i + 1 \in 1..Len(jsTasks) /\ 1 < i + 1 /\ jsTasks'[i] = jsTasks[i + 1]
  BY <1>1, TasksTail
<1>3. Head(jsTasks).timer \in Timeouts => Head(jsTasks).timer \notin live
  BY <1>2 DEF CallsAreKept, Resting
<1>4. TimersTypeOK'
  BY <1>1, <1>2, <1>3 DEF TimersTypeOK
<1>5. CallsAreKept'
  <2>1. ASSUME NEW i \in 1..Len(jsTasks'), NEW j \in 1..Len(jsTasks'),
               jsTasks'[i].timer = jsTasks'[j].timer, i < j
        PROVE  jsTasks'[i].kind = "call" /\ jsTasks'[j].kind = "unqueue"
    <3>1. /\ i + 1 \in 1..Len(jsTasks) /\ j + 1 \in 1..Len(jsTasks) /\ i + 1 < j + 1
          /\ jsTasks'[i] = jsTasks[i + 1] /\ jsTasks'[j] = jsTasks[j + 1]
      BY <1>2, <2>1
    <3>2. jsTasks[i + 1].timer = jsTasks[j + 1].timer
      BY <2>1, <3>1
    <3> QED BY <3>1, <3>2 DEF CallsAreKept
  <2>2. \A t \in live : Resting(t)' <=> Resting(t)
    BY <1>1 DEF Resting
  <2> QED BY <1>1, <1>2, <2>1, <2>2 DEF CallsAreKept
<1> QED BY <1>1, <1>4, <1>5, SameTimers

\* An interval may be called again: what was on the way of it has been run.
LEMMA RunUnqueueStep ==
  ASSUME TimerInv, RunUnqueue
  PROVE  TimerInv'
<1> USE DEF TimerInv
<1> DEFINE t == Head(jsTasks).timer
<1>1. /\ jsTasks # <<>> /\ Head(jsTasks).kind = "unqueue" /\ jsTasks' = Tail(jsTasks)
      /\ timers' = IF t \in live THEN [timers EXCEPT ![t].queued = FALSE] ELSE timers
      /\ UNCHANGED <<unused, callbacks, live, paused, scheduled, firing, thread, owed, cuts>>
  BY DEF RunUnqueue
<1>2. /\ jsTasks' \in Seq(TimerTask) /\ 1 \in 1..Len(jsTasks) /\ Head(jsTasks) = jsTasks[1]
      /\ t \in Timers
      /\ \A i \in 1..Len(jsTasks') :
           i + 1 \in 1..Len(jsTasks) /\ 1 < i + 1 /\ jsTasks'[i] = jsTasks[i + 1]
  BY <1>1, TasksTail
<1>3. jsTasks[1].kind = "unqueue" /\ jsTasks[1].timer = t
  BY <1>1, <1>2
<1> HIDE DEF t
<1>4. firing.timer # t /\ \A i \in 1..Len(jsTasks') : jsTasks'[i].timer # t
  <2>1. firing.timer # t
    BY <1>2, <1>3 DEF CallsAreKept
  <2>2. ASSUME NEW i \in 1..Len(jsTasks'), jsTasks'[i].timer = t PROVE FALSE
    <3>1. i + 1 \in 1..Len(jsTasks) /\ 1 < i + 1 /\ jsTasks[i + 1].timer = t
      BY <1>2, <2>2
    <3>2. jsTasks[1].kind = "call"
      BY <1>2, <1>3, <3>1 DEF CallsAreKept
    <3> QED BY <1>3, <3>2
  <2> QED BY <2>1, <2>2
<1>5. ASSUME NEW u \in Timers
      PROVE  /\ timers'[u] \in Timer /\ timers'[u].tick = timers[u].tick
             /\ timers'[u].due = timers[u].due /\ timers'[u].remaining = timers[u].remaining
             /\ u # t => timers'[u] = timers[u]
  <2>1. timers[u] \in Timer
    BY TypeFacts
  <2> QED BY <1>1, <2>1 DEF TimersTypeOK, Timer
<1>6. timers' \in [Timers -> Timer]
  BY <1>1, <1>5 DEF TimersTypeOK
<1>7. TimersTypeOK'
  BY <1>1, <1>2, <1>5, <1>6 DEF TimersTypeOK
<1>8. IsFiniteSet(live') /\ EntriesAreKept'
  BY <1>1, <1>5, TypeFacts DEF EntriesAreKept, HasEntry
<1>9. DelaysAreRun'
  BY <1>1, <1>5, TypeFacts DEF DelaysAreRun
<1>10. CallsAreKept'
  <2>1. ASSUME NEW i \in 1..Len(jsTasks'), NEW j \in 1..Len(jsTasks'),
               jsTasks'[i].timer = jsTasks'[j].timer, i < j
        PROVE  jsTasks'[i].kind = "call" /\ jsTasks'[j].kind = "unqueue"
    <3>1. /\ i + 1 \in 1..Len(jsTasks) /\ j + 1 \in 1..Len(jsTasks) /\ i + 1 < j + 1
          /\ jsTasks'[i] = jsTasks[i + 1] /\ jsTasks'[j] = jsTasks[j + 1]
      BY <1>2, <2>1
    <3>2. jsTasks[i + 1].timer = jsTasks[j + 1].timer
      BY <2>1, <3>1
    <3> QED BY <3>1, <3>2 DEF CallsAreKept
  <2>2. \A u \in live \ {t} : Resting(u)' <=> Resting(u)
    BY <1>5, TypeFacts DEF Resting
  <2>3. ASSUME NEW u \in live', Resting(u)'
        PROVE  firing'.timer # u /\ \A i \in 1..Len(jsTasks') : jsTasks'[i].timer # u
    <3>1. CASE u = t
      BY <1>1, <1>4, <3>1
    <3>2. CASE u # t
      BY <1>1, <1>2, <2>2, <2>3, <3>2 DEF CallsAreKept
    <3> QED BY <3>1, <3>2
  <2> QED BY <1>1, <1>2, <2>1, <2>3 DEF CallsAreKept
<1> QED BY <1>7, <1>8, <1>9, <1>10

-----------------------------------------------------------------------------
(* The timer thread. *)

\* What an entry that is due may fire: the timer is in the registry, nothing is paused,
\* and nothing is left of its delay.
LEMMA Fires ==
  ASSUME TimerInv, NEW t \in Timers, NEW e \in scheduled, Due(t, e), Valid(t, e)
  PROVE  /\ t \in live /\ ~paused /\ timers[t].due = 0 /\ owed[t] <= cuts[t] * (Grain - 1)
         /\ firing = Idle /\ thread = "running" /\ e.timer = t /\ e.tick = timers[t].tick
<1> USE DEF TimerInv
<1>1. /\ t \in live /\ e.tick = timers[t].tick /\ thread = "running" /\ firing = Idle
      /\ e.timer = t /\ e.left = 0
  BY DEF Due, Valid
<1>2. ~paused
  BY <1>1, TypeFacts DEF EntriesAreKept
<1>3. timers[t].due = 0
  <2>1. PICK f \in scheduled : f.timer = t /\ f.tick = timers[t].tick /\ f.left = timers[t].due
    BY <1>1, <1>2 DEF EntriesAreKept, HasEntry
  <2> QED BY <1>1, <2>1 DEF EntriesAreKept
<1>4. owed[t] <= cuts[t] * (Grain - 1)
  <2>1. cuts[t] * (Grain - 1) \in Nat
    BY TypeFacts, OneMore
  <2>2. owed[t] <= cuts[t] * (Grain - 1) + timers[t].due
    BY <1>1, <1>2 DEF DelaysAreRun
  <2> QED BY <1>3, <2>1, <2>2
<1> QED BY <1>1, <1>2, <1>3, <1>4

\* An entry of a timer that is gone, paused or rescheduled fires nothing.
LEMMA FireStaleStep ==
  ASSUME TimerInv, NEW t \in Timers, FireStale(t)
  PROVE  TimerInv'
<1> USE DEF TimerInv
<1>1. PICK e \in scheduled :
        /\ Due(t, e) /\ ~Valid(t, e) /\ scheduled' = scheduled \ {e}
        /\ UNCHANGED <<unused, callbacks, live, timers, paused, firing, thread, jsTasks, owed,
                       cuts>>
  BY DEF FireStale
<1>2. TimersTypeOK'
  BY <1>1 DEF TimersTypeOK
<1>3. EntriesAreKept'
  <2>1. ASSUME NEW u \in live, HasEntry(u) PROVE HasEntry(u)'
    <3>1. PICK f \in scheduled : f.timer = u /\ f.tick = timers[u].tick /\ f.left = timers[u].due
      BY <2>1 DEF HasEntry
    <3>2. f # e
      BY <1>1, <3>1 DEF Due, Valid
    <3> QED BY <1>1, <3>1, <3>2 DEF HasEntry
  <2> QED BY <1>1, <2>1 DEF EntriesAreKept
<1>4. CallsAreKept'
  BY <1>1 DEF CallsAreKept, Resting
<1>5. DelaysAreRun'
  BY <1>1 DEF DelaysAreRun
<1> QED BY <1>1, <1>2, <1>3, <1>4, <1>5

\* A timeout fires, and leaves the registry.
LEMMA FireTimeoutStep ==
  ASSUME TimerInv, NEW t \in Timers, FireTimeout(t)
  PROVE  TimerInv'
<1> USE DEF TimerInv
<1>1. PICK e \in scheduled :
        /\ t \in Timeouts /\ Due(t, e) /\ Valid(t, e) /\ scheduled' = scheduled \ {e}
        /\ live' = live \ {t} /\ timers' = [timers EXCEPT ![t] = Blank]
        /\ firing' = [timer |-> t, called |-> FALSE]
        /\ UNCHANGED <<unused, callbacks, paused, thread, jsTasks, owed, cuts>>
  BY DEF FireTimeout
<1>2. t \in live /\ firing = Idle /\ e.timer = t
  BY <1>1, Fires
<1>3. timers'[t] = Blank /\ \A u \in Timers \ {t} : timers'[u] = timers[u]
  BY <1>1 DEF TimersTypeOK
<1>4. timers' \in [Timers -> Timer]
  BY <1>1, TypeFacts DEF TimersTypeOK
<1>5. firing' \in [timer : Timers, called : BOOLEAN] /\ firing'.timer = t /\ firing'.called = FALSE
  BY <1>1
<1>6. TimersTypeOK'
  BY <1>1, <1>3, <1>4, <1>5, TypeFacts DEF TimersTypeOK
<1>7. IsFiniteSet(live')
  BY <1>1, FS_RemoveElement
<1>8. EntriesAreKept'
  <2>1. ASSUME NEW u \in live', HasEntry(u) PROVE HasEntry(u)'
    <3>1. u # t /\ u \in Timers
      BY <1>1, TypeFacts
    <3>2. PICK f \in scheduled : f.timer = u /\ f.tick = timers[u].tick /\ f.left = timers[u].due
      BY <2>1 DEF HasEntry
    <3> QED BY <1>1, <1>2, <1>3, <3>1, <3>2 DEF HasEntry
  <2> QED BY <1>1, <1>3, <2>1, TypeFacts DEF EntriesAreKept
<1>9. CallsAreKept'
  <2>1. \A i \in 1..Len(jsTasks) : jsTasks[i].timer # t
    BY <1>1, <1>2 DEF CallsAreKept, Resting
  <2>2. t \notin unused
    BY <1>2, TypeFacts
  <2>3. ASSUME NEW u \in live', Resting(u)' PROVE Resting(u) /\ u # t
    BY <1>1, <1>3, <2>3, TypeFacts DEF Resting
  <2> QED BY <1>1, <1>5, <2>1, <2>2, <2>3 DEF CallsAreKept
<1>10. DelaysAreRun'
  BY <1>1, <1>3, TypeFacts DEF DelaysAreRun
<1> QED BY <1>6, <1>7, <1>8, <1>9, <1>10

\* An interval fires: its next tick has an entry, and it calls JavaScript if nothing of it
\* is on the way there.
LEMMA FireIntervalStep ==
  ASSUME TimerInv, NEW t \in Timers, FireInterval(t)
  PROVE  TimerInv'
<1> USE DEF TimerInv
<1>1. PICK e \in scheduled :
        LET rest == scheduled \ {e}
            delay == timers[t].delay
            tick == CHOOSE n \in NewTicks(rest) : TRUE
        IN /\ t \in Intervals /\ Due(t, e) /\ Valid(t, e)
           /\ timers' = [timers EXCEPT ![t] =
                Scheduled([timers[t] EXCEPT !.queued = TRUE], delay, tick, paused)]
           /\ scheduled' = rest \cup Entries(t, delay, tick, paused)
           /\ owed' = [owed EXCEPT ![t] = Truncated(delay)]
           /\ cuts' = [cuts EXCEPT ![t] = 0]
           /\ firing' = IF timers[t].queued THEN Idle ELSE [timer |-> t, called |-> FALSE]
           /\ UNCHANGED <<unused, callbacks, live, paused, thread, jsTasks>>
  BY DEF FireInterval
<1> DEFINE rest == scheduled \ {e}
           delay == timers[t].delay
           n == CHOOSE m \in NewTicks(rest) : TRUE
           marked == [timers[t] EXCEPT !.queued = TRUE]
           r == Scheduled(marked, delay, n, paused)
           new == Entries(t, delay, n, paused)
<1>2. /\ t \in live /\ ~paused /\ firing = Idle /\ thread = "running"
      /\ e.timer = t /\ e.tick = timers[t].tick
  BY <1>1, Fires
<1>3. /\ t \in Intervals
      /\ timers' = [timers EXCEPT ![t] = r] /\ scheduled' = rest \cup new
      /\ owed' = [owed EXCEPT ![t] = Truncated(delay)] /\ cuts' = [cuts EXCEPT ![t] = 0]
      /\ firing' = IF timers[t].queued THEN Idle ELSE [timer |-> t, called |-> FALSE]
      /\ UNCHANGED <<unused, callbacks, live, paused, thread, jsTasks>>
  BY <1>1
<1>4. n \in Ticks /\ \A f \in rest : f.tick # n
  <2>1. e.tick \in NewTicks(rest)
    BY TypeFacts DEF NewTicks, EntriesAreKept
  <2>2. n \in NewTicks(rest)
    BY <2>1, Chosen
  <2> QED BY <2>2 DEF NewTicks
<1>5. marked \in Timer /\ marked.queued /\ delay \in Nat /\ Truncated(delay) \in Nat
  BY TypeFacts, Cut DEF Timer
<1>6. \A f \in rest : f \in scheduled /\ f # e
  OBVIOUS
<1> HIDE DEF n, marked, rest, delay
<1>7. /\ r \in Timer /\ r.queued /\ r.tick = n /\ r.due = Truncated(delay)
  <2>1. paused \in BOOLEAN
    BY DEF TimersTypeOK
  <2> QED BY <1>2, <1>4, <1>5, <2>1, SchedulesTimer
<1>8. /\ new \subseteq EntrySet
      /\ \A f \in new : f.timer = t /\ f.tick = n /\ f.left = Truncated(delay)
      /\ \E f \in new : TRUE
      /\ \A f, g \in new : f = g
  <2>1. \A f, g \in new : f = g
    BY DEF Entries
  <2>2. paused \in BOOLEAN
    BY DEF TimersTypeOK
  <2> QED BY <1>2, <1>4, <1>5, <2>1, <2>2, SchedulesEntry
<1> HIDE DEF r, new
<1>9. timers'[t] = r /\ \A u \in Timers \ {t} : timers'[u] = timers[u]
  BY <1>3 DEF TimersTypeOK
<1>10. firing' = Idle \/ firing' \in [timer : Timers, called : BOOLEAN]
  BY <1>3
<1>11. TimersTypeOK'
  <2>1. timers' \in [Timers -> Timer] /\ owed' \in [Timers -> Nat] /\ cuts' \in [Timers -> Nat]
    BY <1>3, <1>5, <1>7 DEF TimersTypeOK
  <2>2. scheduled' \subseteq EntrySet
    BY <1>3, <1>6, <1>8, TypeFacts
  <2>3. \A u \in Timers \ live' : timers'[u].tick = NoTick
    BY <1>2, <1>3, <1>9 DEF TimersTypeOK
  <2> QED BY <1>3, <1>10, <2>1, <2>2, <2>3 DEF TimersTypeOK, EntrySet
<1>12. EntriesAreKept'
  <2>1. \A f, g \in scheduled' : f.tick = g.tick => f = g
    BY <1>3, <1>4, <1>6, <1>8 DEF EntriesAreKept
  <2>2. ASSUME NEW u \in live' PROVE HasEntry(u)'
    <3>1. CASE u = t
      BY <1>3, <1>7, <1>8, <1>9, <3>1 DEF HasEntry
    <3>2. CASE u # t
      <4>1. PICK f \in scheduled :
              f.timer = u /\ f.tick = timers[u].tick /\ f.left = timers[u].due
        BY <1>2, <1>3 DEF EntriesAreKept, HasEntry
      <4>2. f \in rest
        BY <1>2, <3>2, <4>1 DEF rest
      <4>3. timers'[u] = timers[u]
        BY <1>3, <1>9, <3>2, TypeFacts
      <4> QED BY <1>3, <4>1, <4>2, <4>3 DEF HasEntry
    <3> QED BY <3>1, <3>2
  <2> QED BY <1>2, <1>3, <2>1, <2>2 DEF EntriesAreKept
<1>13. CallsAreKept'
  <2>1. ~timers[t].queued => \A i \in 1..Len(jsTasks) : jsTasks[i].timer # t
    BY <1>2 DEF CallsAreKept, Resting
  <2>2. firing'.timer = t \/ firing' = firing
    BY <1>2, <1>3
  <2>3. firing' # firing => ~timers[t].queued /\ firing'.timer = t
    BY <1>2, <1>3
  <2>4. t \notin unused /\ ~Resting(t)'
    BY <1>2, <1>3, <1>7, <1>9, TypeFacts DEF Resting
  <2>5. \A u \in live : u # t => (Resting(u)' <=> Resting(u))
    BY <1>9, TypeFacts DEF Resting
  <2> QED BY <1>3, <2>1, <2>3, <2>4, <2>5 DEF CallsAreKept
<1>14. DelaysAreRun'
  <2>1. /\ owed'[t] = Truncated(delay) /\ cuts'[t] = 0
        /\ \A u \in Timers \ {t} : owed'[u] = owed[u] /\ cuts'[u] = cuts[u]
    BY <1>3 DEF TimersTypeOK
  <2>2. owed'[t] <= cuts'[t] * (Grain - 1) + timers'[t].due
    BY <1>5, <1>7, <1>9, <2>1
  <2> QED BY <1>2, <1>3, <1>9, <2>1, <2>2, TypeFacts DEF DelaysAreRun
<1> QED BY <1>3, <1>11, <1>12, <1>13, <1>14

\* The tasks of JavaScript with one more behind them.
LEMMA TasksAppend ==
  ASSUME TimersTypeOK, NEW task \in TimerTask, jsTasks' = Append(jsTasks, task)
  PROVE  /\ jsTasks' \in Seq(TimerTask)
         /\ \A i \in 1..Len(jsTasks') : \/ i \in 1..Len(jsTasks) /\ jsTasks'[i] = jsTasks[i]
                                        \/ i = Len(jsTasks') /\ jsTasks'[i] = task
<1>1. jsTasks \in Seq(TimerTask)
  BY DEF TimersTypeOK
<1>2. /\ jsTasks' \in Seq(TimerTask)
      /\ Len(jsTasks') = Len(jsTasks) + 1 /\ Len(jsTasks) \in Nat
      /\ \A i \in 1..Len(jsTasks) : jsTasks'[i] = jsTasks[i]
      /\ jsTasks'[Len(jsTasks) + 1] = task
  BY <1>1
<1> QED BY <1>2

\* Every task of JavaScript is of a timer.
LEMMA TasksAreOfTimers ==
  ASSUME TimersTypeOK
  PROVE  \A i \in 1..Len(jsTasks) : jsTasks[i].timer \in Timers
<1>1. jsTasks \in Seq(TimerTask)
  BY DEF TimersTypeOK
<1>2. \A i \in 1..Len(jsTasks) : jsTasks[i] \in TimerTask
  BY <1>1
<1>3. \A task \in TimerTask : task.timer \in Timers
  BY DEF TimerTask
<1> QED BY <1>2, <1>3

\* The thread calls JavaScript for the timer that it is firing.
LEMMA CallTimerStep ==
  ASSUME TimerInv, CallTimer
  PROVE  TimerInv'
<1> USE DEF TimerInv
<1> DEFINE t == firing.timer
           task == [kind |-> "call", timer |-> t]
<1>1. /\ firing # Idle /\ ~firing.called /\ jsTasks' = Append(jsTasks, task)
      /\ firing' = IF t \in Intervals THEN [firing EXCEPT !.called = TRUE] ELSE Idle
      /\ UNCHANGED <<unused, callbacks, live, timers, paused, scheduled, thread, owed, cuts>>
  BY DEF CallTimer
<1>2. t \in Timers /\ firing \in [timer : Timers, called : BOOLEAN]
  BY <1>1, TypeFacts DEF TimersTypeOK
<1>3. task \in TimerTask /\ task.kind = "call" /\ task.timer = t
  BY <1>2 DEF TimerTask
<1>4. /\ firing' = Idle \/ (/\ firing' \in [timer : Timers, called : BOOLEAN]
                            /\ firing'.timer = t /\ firing'.called)
  BY <1>1, <1>2
<1>5. Idle.timer \notin Timers
  BY DEF Idle
<1>6. /\ \A i \in 1..Len(jsTasks) : jsTasks[i].timer # t
      /\ t \notin unused /\ \A u \in live : Resting(u) => u # t
  BY <1>1, <1>2 DEF CallsAreKept
<1> HIDE DEF task
<1>7. /\ jsTasks' \in Seq(TimerTask)
      /\ \A i \in 1..Len(jsTasks') : \/ i \in 1..Len(jsTasks) /\ jsTasks'[i] = jsTasks[i]
                                     \/ i = Len(jsTasks') /\ jsTasks'[i] = task
  BY <1>1, <1>3, TasksAppend
<1>8. \A i \in 1..Len(jsTasks) : jsTasks[i].timer \in Timers
  BY TasksAreOfTimers
<1> HIDE DEF t
<1>9. TimersTypeOK'
  BY <1>1, <1>4, <1>7 DEF TimersTypeOK
<1>10. CallsAreKept'
  <2>1. ASSUME NEW i \in 1..Len(jsTasks'), NEW j \in 1..Len(jsTasks'),
               jsTasks'[i].timer = jsTasks'[j].timer, i < j
        PROVE  jsTasks'[i].kind = "call" /\ jsTasks'[j].kind = "unqueue"
    <3>1. i # Len(jsTasks') /\ i \in 1..Len(jsTasks) /\ jsTasks'[i] = jsTasks[i]
      BY <1>7, <2>1
    <3>2. jsTasks'[j] # task
      BY <1>3, <1>6, <2>1, <3>1
    <3>3. j \in 1..Len(jsTasks) /\ jsTasks'[j] = jsTasks[j]
      BY <1>7, <3>2
    <3>4. jsTasks[i].timer = jsTasks[j].timer
      BY <2>1, <3>1, <3>3
    <3> QED BY <2>1, <3>1, <3>3, <3>4 DEF CallsAreKept
  <2>2. ASSUME NEW i \in 1..Len(jsTasks'), jsTasks'[i].timer = firing'.timer
        PROVE  firing'.called /\ jsTasks'[i].kind = "call"
    <3>1. jsTasks'[i].timer \in Timers
      BY <1>2, <1>3, <1>7, <1>8
    <3>2. firing'.timer = t /\ firing'.called
      BY <1>4, <1>5, <2>2, <3>1
    <3>3. jsTasks'[i] = task
      BY <1>6, <1>7, <2>2, <3>2
    <3> QED BY <1>3, <3>2, <3>3
  <2>3. ASSUME NEW u \in Timers, u # t, firing.timer # u,
               \A i \in 1..Len(jsTasks) : jsTasks[i].timer # u
        PROVE  firing'.timer # u /\ \A i \in 1..Len(jsTasks') : jsTasks'[i].timer # u
    BY <1>3, <1>4, <1>5, <1>7, <2>3
  <2>4. \A u \in live : Resting(u)' <=> Resting(u)
    BY <1>1 DEF Resting
  <2>5. \A u \in unused' :
          firing'.timer # u /\ \A i \in 1..Len(jsTasks') : jsTasks'[i].timer # u
    <3>1. unused \subseteq Timers
      BY DEF TimersTypeOK
    <3> QED BY <1>1, <1>6, <2>3, <3>1 DEF CallsAreKept
  <2>6. \A u \in live' : Resting(u)' =>
          firing'.timer # u /\ \A i \in 1..Len(jsTasks') : jsTasks'[i].timer # u
    BY <1>1, <1>6, <2>3, <2>4, TypeFacts DEF CallsAreKept
  <2> QED BY <2>1, <2>2, <2>5, <2>6 DEF CallsAreKept
<1> QED BY <1>1, <1>9, <1>10, SameTimers

\* Behind the call of an interval the thread schedules its unqueue.
LEMMA ScheduleUnqueueStep ==
  ASSUME TimerInv, ScheduleUnqueue
  PROVE  TimerInv'
<1> USE DEF TimerInv
<1> DEFINE t == firing.timer
           task == [kind |-> "unqueue", timer |-> t]
<1>1. /\ firing # Idle /\ firing.called /\ jsTasks' = Append(jsTasks, task) /\ firing' = Idle
      /\ UNCHANGED <<unused, callbacks, live, timers, paused, scheduled, thread, owed, cuts>>
  BY DEF ScheduleUnqueue
<1>2. t \in Timers
  BY <1>1, TypeFacts
<1>3. task \in TimerTask /\ task.kind = "unqueue" /\ task.timer = t
  BY <1>2 DEF TimerTask
<1>4. Idle.timer \notin Timers
  BY DEF Idle
<1>5. /\ \A i \in 1..Len(jsTasks) : jsTasks[i].timer = t => jsTasks[i].kind = "call"
      /\ t \notin unused /\ \A u \in live : Resting(u) => u # t
  BY <1>2 DEF CallsAreKept
<1> HIDE DEF task
<1>6. /\ jsTasks' \in Seq(TimerTask)
      /\ \A i \in 1..Len(jsTasks') : \/ i \in 1..Len(jsTasks) /\ jsTasks'[i] = jsTasks[i]
                                     \/ i = Len(jsTasks') /\ jsTasks'[i] = task
  BY <1>1, <1>3, TasksAppend
<1>7. \A i \in 1..Len(jsTasks) : jsTasks[i].timer \in Timers
  BY TasksAreOfTimers
<1> HIDE DEF t
<1>8. TimersTypeOK'
  BY <1>1, <1>6 DEF TimersTypeOK
<1>9. CallsAreKept'
  <2>1. ASSUME NEW i \in 1..Len(jsTasks'), NEW j \in 1..Len(jsTasks'),
               jsTasks'[i].timer = jsTasks'[j].timer, i < j
        PROVE  jsTasks'[i].kind = "call" /\ jsTasks'[j].kind = "unqueue"
    <3>1. i # Len(jsTasks') /\ i \in 1..Len(jsTasks) /\ jsTasks'[i] = jsTasks[i]
      BY <1>6, <2>1
    <3>2. CASE jsTasks'[j] = task
      BY <1>3, <1>5, <2>1, <3>1, <3>2
    <3>3. CASE j \in 1..Len(jsTasks) /\ jsTasks'[j] = jsTasks[j]
      <4>1. jsTasks[i].timer = jsTasks[j].timer
        BY <2>1, <3>1, <3>3
      <4> QED BY <2>1, <3>1, <3>3, <4>1 DEF CallsAreKept
    <3> QED BY <1>6, <3>2, <3>3
  <2>2. \A i \in 1..Len(jsTasks') : jsTasks'[i].timer # firing'.timer
    BY <1>1, <1>2, <1>3, <1>4, <1>6, <1>7
  <2>3. ASSUME NEW u \in Timers, u # t, \A i \in 1..Len(jsTasks) : jsTasks[i].timer # u
        PROVE  firing'.timer # u /\ \A i \in 1..Len(jsTasks') : jsTasks'[i].timer # u
    BY <1>1, <1>3, <1>4, <1>6, <2>3
  <2>4. \A u \in live : Resting(u)' <=> Resting(u)
    BY <1>1 DEF Resting
  <2>5. \A u \in unused' :
          firing'.timer # u /\ \A i \in 1..Len(jsTasks') : jsTasks'[i].timer # u
    <3>1. unused \subseteq Timers
      BY DEF TimersTypeOK
    <3> QED BY <1>1, <1>5, <2>3, <3>1 DEF CallsAreKept
  <2>6. \A u \in live' : Resting(u)' =>
          firing'.timer # u /\ \A i \in 1..Len(jsTasks') : jsTasks'[i].timer # u
    BY <1>1, <1>5, <2>3, <2>4, TypeFacts DEF CallsAreKept
  <2> QED BY <2>1, <2>2, <2>5, <2>6 DEF CallsAreKept
<1> QED BY <1>1, <1>8, <1>9, SameTimers

-----------------------------------------------------------------------------
(* The teardown thread, and time. *)

\* quit() ends the thread, and then the timers.
LEMMA QuitSteps ==
  ASSUME TimerInv, QuitThread \/ QuitTimers
  PROVE  TimerInv'
<1> USE DEF TimerInv
<1>1. CASE QuitThread
  <2>1. /\ thread' = "joined" /\ scheduled' = {}
        /\ UNCHANGED <<unused, callbacks, live, timers, paused, firing, jsTasks, owed, cuts>>
    BY <1>1 DEF QuitThread
  <2>2. TimersTypeOK' /\ IsFiniteSet(live')
    BY <2>1 DEF TimersTypeOK
  <2>3. EntriesAreKept' /\ DelaysAreRun'
    BY <2>1 DEF EntriesAreKept, DelaysAreRun
  <2>4. CallsAreKept'
    BY <2>1 DEF CallsAreKept, Resting
  <2> QED BY <2>2, <2>3, <2>4
<1>2. CASE QuitTimers
  <2>1. /\ thread' = "quit" /\ live' = {} /\ timers' = [t \in Timers |-> Blank]
        /\ UNCHANGED <<unused, callbacks, paused, scheduled, firing, jsTasks, owed, cuts>>
    BY <1>2 DEF QuitTimers
  <2>2. TimersTypeOK' /\ IsFiniteSet(live')
    BY <2>1, TypeFacts, FS_EmptySet DEF TimersTypeOK
  <2>3. EntriesAreKept' /\ DelaysAreRun'
    BY <2>1 DEF EntriesAreKept, DelaysAreRun
  <2>4. CallsAreKept'
    BY <2>1 DEF CallsAreKept
  <2> QED BY <2>2, <2>3, <2>4
<1> QED BY <1>1, <1>2

\* Time passes for the entries and for their timers alike.
LEMMA ElapseStep ==
  ASSUME TimerInv, Elapse
  PROVE  TimerInv'
<1> USE DEF TimerInv
<1> DEFINE later(e) == [e EXCEPT !.left = Less(@)]
<1>1. /\ scheduled' = {later(e) : e \in scheduled}
      /\ timers' = [t \in Timers |-> [timers[t] EXCEPT !.due = Less(@)]]
      /\ owed' = [t \in Timers |-> IF paused THEN owed[t] ELSE Less(owed[t])]
      /\ UNCHANGED <<unused, callbacks, live, paused, firing, thread, jsTasks, cuts>>
  BY DEF Elapse
<1>2. ASSUME NEW e \in EntrySet
      PROVE  /\ later(e) \in EntrySet /\ later(e).timer = e.timer /\ later(e).tick = e.tick
             /\ later(e).left = Less(e.left)
  BY DEF EntrySet, Less
<1>3. ASSUME NEW t \in Timers
      PROVE  /\ timers'[t] \in Timer /\ timers'[t].queued = timers[t].queued
             /\ timers'[t].tick = timers[t].tick /\ timers'[t].remaining = timers[t].remaining
             /\ timers'[t].due = Less(timers[t].due)
             /\ owed'[t] = IF paused THEN owed[t] ELSE Less(owed[t])
  <2>1. timers[t] \in Timer /\ timers[t].due \in Nat
    BY TypeFacts
  <2>2. timers'[t] = [timers[t] EXCEPT !.due = Less(timers[t].due)]
    BY <1>1
  <2>3. Less(timers[t].due) \in Nat
    BY <2>1 DEF Less
  <2>4. /\ timers'[t] \in Timer /\ timers'[t].queued = timers[t].queued
        /\ timers'[t].tick = timers[t].tick /\ timers'[t].remaining = timers[t].remaining
        /\ timers'[t].due = Less(timers[t].due)
    BY <2>1, <2>2, <2>3 DEF Timer
  <2>5. owed'[t] = IF paused THEN owed[t] ELSE Less(owed[t])
    BY <1>1
  <2> QED BY <2>4, <2>5
<1> HIDE DEF later
<1>4. TimersTypeOK'
  <2>1. timers' \in [Timers -> Timer]
    BY <1>1, <1>3
  <2>2. owed' \in [Timers -> Nat]
    <3>1. \A t \in Timers : owed[t] \in Nat /\ Less(owed[t]) \in Nat
      BY TypeFacts DEF Less
    <3>2. \A t \in Timers : (IF paused THEN owed[t] ELSE Less(owed[t])) \in Nat
      BY <3>1
    <3> QED BY <1>1, <3>2
  <2>3. scheduled' \subseteq EntrySet
    BY <1>1, <1>2, TypeFacts
  <2>4. \A t \in Timers \ live' : timers'[t].tick = NoTick
    BY <1>1, <1>3 DEF TimersTypeOK
  <2> QED BY <1>1, <2>1, <2>2, <2>3, <2>4 DEF TimersTypeOK, EntrySet
<1>5. EntriesAreKept'
  <2>1. ASSUME NEW e \in scheduled', NEW f \in scheduled', e.tick = f.tick PROVE e = f
    <3>1. PICK a \in scheduled, b \in scheduled : e = later(a) /\ f = later(b)
      BY <1>1
    <3>2. a.tick = b.tick
      BY <1>2, <2>1, <3>1, TypeFacts
    <3> QED BY <3>1, <3>2 DEF EntriesAreKept
  <2>2. ASSUME NEW t \in live, HasEntry(t) PROVE HasEntry(t)'
    <3>1. PICK e \in scheduled : e.timer = t /\ e.tick = timers[t].tick /\ e.left = timers[t].due
      BY <2>2 DEF HasEntry
    <3>2. later(e) \in scheduled'
      BY <1>1
    <3>3. /\ later(e).timer = t /\ later(e).tick = timers'[t].tick
          /\ later(e).left = timers'[t].due
      BY <1>2, <1>3, <3>1, TypeFacts
    <3> QED BY <3>2, <3>3 DEF HasEntry
  <2> QED BY <1>1, <1>3, <2>1, <2>2, TypeFacts DEF EntriesAreKept
<1>6. CallsAreKept'
  <2>1. \A t \in live : Resting(t)' <=> Resting(t)
    BY <1>3, TypeFacts DEF Resting
  <2> QED BY <1>1, <2>1 DEF CallsAreKept
<1>7. DelaysAreRun'
  <2>1. SUFFICES ASSUME NEW t \in live
                 PROVE  owed'[t] <= cuts[t] * (Grain - 1)
                          + (IF paused THEN timers'[t].remaining ELSE timers'[t].due)
    BY <1>1 DEF DelaysAreRun
  <2>2. /\ owed[t] \in Nat /\ timers[t].due \in Nat /\ t \in Timers
        /\ cuts[t] * (Grain - 1) \in Nat
    BY TypeFacts, OneMore
  <2>3. owed[t] <= cuts[t] * (Grain - 1)
          + (IF paused THEN timers[t].remaining ELSE timers[t].due)
    BY DEF DelaysAreRun
  <2>4. CASE paused
    BY <1>3, <2>2, <2>3, <2>4
  <2>5. CASE ~paused
    BY <1>3, <2>2, <2>3, <2>5 DEF Less
  <2> QED BY <2>4, <2>5
<1> QED BY <1>1, <1>4, <1>5, <1>6, <1>7

-----------------------------------------------------------------------------
(* The theorems. *)

\* No timer has been created.
LEMMA InitTimers == TimersInit => TimerInv
<1> SUFFICES ASSUME TimersInit PROVE TimerInv
  OBVIOUS
<1>1. /\ unused = Timers /\ callbacks = {} /\ live = {} /\ timers = [t \in Timers |-> Blank]
      /\ paused = FALSE /\ scheduled = {} /\ firing = Idle /\ thread = "running"
      /\ jsTasks = <<>> /\ owed = [t \in Timers |-> 0] /\ cuts = [t \in Timers |-> 0]
  BY DEF TimersInit
<1>2. Blank \in Timer /\ Blank.tick = NoTick /\ Idle.timer \notin Timers
  BY DEF Blank, Timer, NoTick, Idle
<1>3. TimersTypeOK
  <2>1. timers \in [Timers -> Timer] /\ owed \in [Timers -> Nat] /\ cuts \in [Timers -> Nat]
    BY <1>1, <1>2
  <2>2. \A t \in Timers : timers[t].tick = NoTick
    BY <1>1, <1>2
  <2>3. jsTasks \in Seq(TimerTask)
    BY <1>1
  <2> QED BY <1>1, <2>1, <2>2, <2>3 DEF TimersTypeOK
<1>4. IsFiniteSet(live)
  BY <1>1, FS_EmptySet
<1>5. EntriesAreKept /\ DelaysAreRun
  BY <1>1 DEF EntriesAreKept, DelaysAreRun
<1>6. CallsAreKept
  BY <1>1, <1>2 DEF CallsAreKept
<1> QED BY <1>3, <1>4, <1>5, <1>6 DEF TimerInv

\* Every step of the registry keeps the invariant.
LEMMA NextTimers == TimerInv /\ [TimersNext]_timerVars => TimerInv'
<1> SUFFICES ASSUME TimerInv, [TimersNext]_timerVars PROVE TimerInv'
  OBVIOUS
<1>1. ASSUME NEW t \in Timers, NEW d \in Delays, Add(t, d) PROVE TimerInv'
  BY <1>1, AddStep
<1>2. ASSUME NEW t \in Timers, DeleteTimer(t) PROVE TimerInv'
  BY <1>2, DeleteStep
<1>3. CASE Pause \/ Resume
  BY <1>3, PauseStep, ResumeStep
<1>4. CASE RunCall \/ RunUnqueue
  BY <1>4, RunCallStep, RunUnqueueStep
<1>5. ASSUME NEW t \in Timers, FireStale(t) \/ FireTimeout(t) \/ FireInterval(t) PROVE TimerInv'
  BY <1>5, FireStaleStep, FireTimeoutStep, FireIntervalStep
<1>6. CASE CallTimer \/ ScheduleUnqueue
  BY <1>6, CallTimerStep, ScheduleUnqueueStep
<1>7. CASE QuitThread \/ QuitTimers
  BY <1>7, QuitSteps
<1>8. CASE Elapse
  BY <1>8, ElapseStep
<1>9. CASE UNCHANGED timerVars
  <2>1. UNCHANGED <<unused, callbacks, live, timers, paused, scheduled, firing, thread, jsTasks,
                    owed, cuts>>
    BY <1>9 DEF timerVars
  <2>2. TimersTypeOK' /\ CallsAreKept'
    BY <2>1 DEF TimerInv, TimersTypeOK, CallsAreKept, Resting
  <2> QED BY <2>1, <2>2, SameTimers DEF TimerInv
<1> QED BY <1>1, <1>2, <1>3, <1>4, <1>5, <1>6, <1>7, <1>8, <1>9 DEF TimersNext

\* What the invariant says of the numbers of calls and entries.
LEMMA TimerInvKeepsTicks == TimerInv => TicksAreKept
<1> SUFFICES ASSUME TimerInv PROVE TicksAreKept
  OBVIOUS
<1> USE DEF TimerInv
<1>1. ASSUME NEW t \in Timers
      PROVE  Cardinality(Calls(t)) + (IF firing.timer = t /\ ~firing.called THEN 1 ELSE 0) <= 1
  <2>1. \A i \in Calls(t) :
          i \in 1..Len(jsTasks) /\ jsTasks[i].timer = t /\ jsTasks[i].kind = "call"
    BY DEF Calls
  <2>2. \A i, j \in Calls(t) : ~(i < j)
    BY <2>1 DEF CallsAreKept
  <2>3. \A i, j \in Calls(t) : i = j
    <3>1. \A i, j \in Calls(t) : i \in Nat /\ j \in Nat
      BY <2>1
    <3> QED BY <2>2, <3>1
  <2>4. CASE Calls(t) = {}
    BY <2>4, FS_EmptySet
  <2>5. CASE Calls(t) # {}
    <3>1. PICK i \in Calls(t) : TRUE
      BY <2>5
    <3>2. Calls(t) = {i}
      BY <2>3, <3>1
    <3>3. Cardinality(Calls(t)) = 1
      BY <3>2, FS_Singleton
    <3>4. ~(firing.timer = t /\ ~firing.called)
      BY <2>1, <3>1 DEF CallsAreKept
    <3> QED BY <3>3, <3>4
  <2> QED BY <2>4, <2>5
<1>2. ASSUME thread = "running", NEW t \in live
      PROVE  Cardinality({e \in scheduled : e.timer = t /\ e.tick = timers[t].tick})
               = IF paused THEN 0 ELSE 1
  <2> DEFINE valid == {e \in scheduled : e.timer = t /\ e.tick = timers[t].tick}
  <2>1. CASE paused
    <3>1. valid = {}
      BY <2>1, TypeFacts DEF EntriesAreKept
    <3> QED BY <2>1, <3>1, FS_EmptySet
  <2>2. CASE ~paused
    <3>1. PICK e \in valid : TRUE
      BY <1>2, <2>2 DEF EntriesAreKept, HasEntry
    <3>2. valid = {e}
      BY <3>1 DEF EntriesAreKept
    <3> HIDE DEF valid
    <3>3. Cardinality(valid) = 1
      BY <3>2, FS_Singleton
    <3> QED BY <2>2, <3>3 DEF valid
  <2> QED BY <2>1, <2>2
<1> QED BY <1>1, <1>2 DEF TicksAreKept

\* For any timers, whatever JavaScript creates, clears, pauses and resumes, and however
\* busy it is: GodotTimerRegistry never has two calls of a timer on the way to JavaScript,
\* and of every timer that runs its thread holds exactly one entry that can fire it.
THEOREM TicksAreAlwaysKept == TimersSafety => []TicksAreKept
<1> QED BY InitTimers, NextTimers, TimerInvKeepsTicks, PTL DEF TimersSafety

\* For any delays: no timer fires before it has run its delay, pauses not counted, but for
\* the part of a millisecond that each resume cuts, and none fires in a pause.
THEOREM TimersAreNeverEarly == TimersSafety => NeverEarly
<1>1. TimerInv => [\A t \in Timers : FireTimeout(t) \/ FireInterval(t) =>
                     owed[t] <= cuts[t] * (Grain - 1) /\ ~paused]_timerVars
  <2>1. ASSUME TimerInv, NEW t \in Timers, FireTimeout(t) \/ FireInterval(t)
        PROVE  owed[t] <= cuts[t] * (Grain - 1) /\ ~paused
    <3>1. PICK e \in scheduled : Due(t, e) /\ Valid(t, e)
      BY <2>1 DEF FireTimeout, FireInterval
    <3> QED BY <2>1, <3>1, Fires
  <2> QED BY <2>1
<1> QED BY <1>1, InitTimers, NextTimers, PTL DEF TimersSafety, NeverEarly
================================================================================
