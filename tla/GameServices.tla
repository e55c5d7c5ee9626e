------------------------------ MODULE GameServices ------------------------------
(***************************************************************************)
(* RNGameServices and the GodotInput module: JavaScript watches an action   *)
(* and captures events by tasks it posts; the node reports the presses and   *)
(* releases of _unhandled_input to the listeners JavaScript has.            *)
(*                                                                         *)
(* One action is modelled, with one event bound to it, whose device every   *)
(* capture asks for.  Echoes, strengths and the other services are left out. *)
(***************************************************************************)
EXTENDS Naturals, Sequences, FiniteSets

CONSTANTS Listeners,      \* bound: what useInputAction() may be used by
          Captures,       \* bound: the captures JavaScript asks for
          MaxInputTasks,  \* bound: tasks that wait in the queue
          MaxEvents       \* bound: events of the player

ASSUME InputBounds == IsFiniteSet(Listeners) /\ "none" \notin Captures

VARIABLES listener,    \* of each listener: "new", "on" or "removed"
          watch,       \* of each listener: is its watch in effect
          told,        \* history: was a listener told of a press, and of no release
                       \* since, while its own watch was in effect
          capture,     \* of each capture: "new", "posted", "started" or how it was settled
          inputTasks,
          watched,     \* watched_actions[action]
          pressed,     \* pressed_actions[action], FALSE when there is none
          current,     \* the capture in progress
          held,        \* Input::is_action_pressed()
          events,
          missed,      \* history: did the GUI consume a release since the last report
          unhandled    \* history: was the last event a press of the watched action
                       \* that _unhandled_input got, and was it reported

inputVars == <<listener, watch, told, capture, inputTasks, watched, pressed, current,
               held, events, missed, unhandled>>

NoCapture == "none"
Quiet == [kind |-> "none", reported |-> FALSE]

InputInit ==
  /\ listener = [l \in Listeners |-> "new"] /\ watch = [l \in Listeners |-> FALSE]
  /\ told = [l \in Listeners |-> FALSE]
  /\ capture = [c \in Captures |-> "new"] /\ inputTasks = <<>>
  /\ watched = 0 /\ pressed = FALSE /\ current = NoCapture
  /\ held = FALSE /\ events = 0 /\ missed = FALSE /\ unhandled = Quiet

(***************************************************************************)
(* JavaScript.                                                             *)
(***************************************************************************)
PostInput(op, of) ==
  /\ Len(inputTasks) < MaxInputTasks
  /\ inputTasks' = Append(inputTasks, <<op, of>>)
  /\ UNCHANGED <<watched, pressed, current, held, events, missed, unhandled>>

\* onAction() watches the action and listens.
OnAction(l) ==
  /\ listener[l] = "new" /\ PostInput("watch", l)
  /\ listener' = [listener EXCEPT ![l] = "on"]
  /\ UNCHANGED <<watch, told, capture>>

\* remove() of the subscription
RemoveListener(l) ==
  /\ listener[l] = "on" /\ PostInput("unwatch", l)
  /\ listener' = [listener EXCEPT ![l] = "removed"]
  /\ UNCHANGED <<watch, told, capture>>

\* captureNextEvent()
CaptureNext(c) ==
  /\ capture[c] = "new" /\ PostInput("capture", c)
  /\ capture' = [capture EXCEPT ![c] = "posted"]
  /\ UNCHANGED <<listener, watch, told>>

\* cancelCapture()
CancelCapture == PostInput("cancel", NoCapture) /\ UNCHANGED <<listener, watch, told, capture>>

(***************************************************************************)
(* The node, on the main thread.                                           *)
(***************************************************************************)
\* The capture in progress ends as given.
Settled(how) ==
  IF current = NoCapture THEN capture
  ELSE [capture EXCEPT ![current] = IF @ = "started" THEN how ELSE "twice"]

\* Mutant of StartCapture: the capture in progress is replaced and not told.
StartOver(c) ==
  /\ capture' = [capture EXCEPT ![c] = "started"]
  /\ current' = c

\* capture_next_event()
StartCapture(c) ==
  /\ capture' = [Settled("cancelled") EXCEPT ![c] = "started"]
  /\ current' = c

\* Mutant of Unwatch: the first listener that goes ends the watch of all.
UnwatchAll ==
  /\ watched' = 0 /\ pressed' = FALSE

\* unwatch_action()
Unwatch ==
  /\ watched' = IF watched > 0 THEN watched - 1 ELSE 0
  /\ pressed' = (watched' > 0 /\ pressed)

RunInputTask ==
  /\ inputTasks # <<>> /\ inputTasks' = Tail(inputTasks)
  /\ LET op == Head(inputTasks)[1]   of == Head(inputTasks)[2]
     IN \/ /\ op = "watch" /\ watched' = watched + 1 /\ watch' = [watch EXCEPT ![of] = TRUE]
           /\ UNCHANGED <<pressed, capture, current>>
        \/ /\ op = "unwatch" /\ Unwatch /\ watch' = [watch EXCEPT ![of] = FALSE]
           /\ UNCHANGED <<capture, current>>
        \/ op = "capture" /\ StartCapture(of) /\ UNCHANGED <<watched, watch, pressed>>
        \/ /\ op = "cancel" /\ capture' = Settled("cancelled") /\ current' = NoCapture
           /\ UNCHANGED <<watched, watch, pressed>>
  /\ UNCHANGED <<listener, told, held, events, missed, unhandled>>

\* action_changed(): the event reaches the listeners there are.
Report(now) == told' = [l \in Listeners |-> now /\ listener[l] = "on" /\ watch[l]]

\* _unhandled_input() of an event that leaves the action held or not.
UnhandledInput(now) ==
  LET report == watched > 0 /\ pressed # now
  IN /\ pressed' = IF report THEN now ELSE pressed
     /\ IF report THEN Report(now) ELSE UNCHANGED told
     /\ missed' = IF report THEN FALSE ELSE missed
     /\ unhandled' = [kind |-> IF watched > 0 /\ now THEN "press" ELSE "none", reported |-> report]

\* The player presses or releases it: Input notes that, a capture takes a press,
\* the GUI may consume the event, and _unhandled_input gets it otherwise.
PlayerEvent ==
  /\ events < MaxEvents /\ events' = events + 1
  /\ held' = ~held
  /\ \/ /\ held' /\ current # NoCapture                                \* input()
        /\ capture' = Settled("captured") /\ current' = NoCapture
        /\ unhandled' = Quiet /\ UNCHANGED <<told, pressed, missed>>
     \/ /\ ~(held' /\ current # NoCapture)
        /\ \/ UnhandledInput(held')
           \/ /\ missed' = (missed \/ ~held') /\ unhandled' = Quiet
              /\ UNCHANGED <<told, pressed>>
        /\ UNCHANGED <<capture, current>>
  /\ UNCHANGED <<listener, watch, inputTasks, watched>>

\* _release_pressed_actions()
ReleasePressed ==
  IF pressed /\ ~held' THEN pressed' = FALSE /\ missed' = FALSE /\ Report(FALSE)
                       ELSE UNCHANGED <<told, pressed, missed>>

\* The application loses focus: Input releases keys, a joypad's button may stay held.
FocusOut ==
  /\ events < MaxEvents /\ events' = events + 1
  /\ held' \in {FALSE, held}
  /\ ReleasePressed
  /\ unhandled' = Quiet
  /\ UNCHANGED <<listener, watch, capture, inputTasks, watched, current>>

InputNext == \/ \E l \in Listeners : OnAction(l) \/ RemoveListener(l)
             \/ \E c \in Captures : CaptureNext(c)
             \/ CancelCapture \/ RunInputTask \/ PlayerEvent \/ FocusOut
InputSpec == InputInit /\ [][InputNext]_inputVars

(***************************************************************************)
(* Properties.                                                             *)
(***************************************************************************)
(* A listener that was told the action is pressed is told when it no longer *)
(* is, however many others come and go and also when the application loses  *)
(* the focus, unless the GUI consumed the release.  A listener that was told *)
(* for another's watch, before its own was in effect, is excused.           *)
ReleaseIsTold ==
  \A l \in Listeners : listener[l] = "on" /\ told[l] => held \/ missed

(* A capture that has started is the one in progress until it is settled:   *)
(* the next capture, a cancellation or an event settles it, once, and none  *)
(* is forgotten.                                                           *)
CapturesAreSettled ==
  \A c \in Captures : /\ capture[c] # "twice"
                      /\ capture[c] = "started" <=> current = c

(* What the documentation says of useInputAction(): the presses of a watched *)
(* action that _unhandled_input gets are delivered.                         *)
UnhandledPressesArrive == unhandled.kind = "press" => unhandled.reported

=================================================================================
