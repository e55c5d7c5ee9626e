--------------------------------- MODULE Alerts ---------------------------------
(***************************************************************************)
(* GodotAlerts and the GodotAlert module: JavaScript asks for an alert, and *)
(* the request passes from a presenter in JavaScript to the root's handler, *)
(* the game's handler or a dialog, until one of them ends it.               *)
(*                                                                         *)
(* JavaScript's calls are tasks of its runtime's main-thread queue, which   *)
(* is closed when the runtime is retired; handlers and restored dialogs are *)
(* deferred calls of the engine.  Roots are known by the tag of the surface *)
(* they show, 0 stands for no root.  Titles, texts and buttons are left out,*)
(* and so are results that fail validation.                                 *)
(***************************************************************************)
EXTENDS Naturals, Sequences, FiniteSets

CONSTANTS Requests,      \* bound: the alerts JavaScript asks for
          Tags,          \* bound: the surfaces that run are 1..Tags
          Runtimes,      \* bound: runtimes are 1..Runtimes
          MaxPending,    \* the limit of pending requests, 128 in the code
          MaxCalls       \* bound: tasks that wait in the queue

ASSUME AlertBounds == /\ Tags \in Nat /\ Runtimes \in Nat /\ Runtimes > 0
                      /\ MaxPending \in Nat /\ MaxCalls \in Nat

VARIABLES alert,        \* of each request: see Alert
          started,      \* surfaces started so far
          shown,        \* tags of the running surfaces
          handlers,     \* tags of roots with a handler, and 0 for the game's
          runtime,      \* the running runtime
          presenters,   \* runtimes whose GodotAlert module is registered
          calls,        \* tasks JavaScript has posted
          deferredCalls \* deferred calls of the engine

alertVars == <<alert, started, shown, handlers, runtime, presenters, calls, deferredCalls>>

Modes == {"bubble", "native", "custom"}
Nobody == 0                  \* a null ObjectID
GameTag == Tags + 1             \* GodotAlerts itself: the game's handler and dialogs
(* knows, by: history.  Who was given the request, and who ended it.        *)
Alert == [state : {"none", "posted", "open", "ended"}, tag : 0..Tags, mode : Modes,
          cancelable : BOOLEAN, owner : 0..GameTag, bubbled : BOOLEAN,
          dialog : {"none", "visible", "hidden"},
          knows : SUBSET ({"presenter", "root", "game"} \X (0..Runtimes)),
          by : {"", "presenter", "root", "game", "player", "nobody"}]
Blank == [state |-> "none", tag |-> 0, mode |-> "bubble", cancelable |-> FALSE,
          owner |-> Nobody, bubbled |-> FALSE, dialog |-> "none", knows |-> {}, by |-> ""]

AlertsInit ==
  /\ alert = [r \in Requests |-> Blank]
  /\ started = 0 /\ shown = {} /\ handlers = {}
  /\ runtime = 1 /\ presenters = {}
  /\ calls = <<>> /\ deferredCalls = {}

Open(r) == alert[r].state = "open"
Pending == {r \in Requests : Open(r)}

\* A request leaves the map, its dialog is freed and its completion is called.
Ended(a, by) == [a EXCEPT !.state = "ended", !.dialog = "none", !.by = by]
Discarded(a) == Ended(a, "nobody")

\* _present_dialog()
WithDialog(a, inTree) ==
  IF inTree THEN [a EXCEPT !.owner = GameTag, !.dialog = "visible"] ELSE Discarded(a)

\* _bubble(): to the root's handler, the game's or a dialog.
Bubble(r, a) ==
  LET up == [a EXCEPT !.bubbled = TRUE]
  IN IF {a.tag, 0} \cap handlers # {}
       THEN /\ alert' = [alert EXCEPT ![r] =
                 [up EXCEPT !.owner = IF a.tag # 0 /\ a.tag \in handlers THEN a.tag ELSE GameTag]]
            /\ deferredCalls' = deferredCalls \cup {<<"handler", r>>}
       ELSE /\ alert' = [alert EXCEPT ![r] = WithDialog(up, TRUE)]
            /\ UNCHANGED deferredCalls

\* complete_for() ends the request for its owner only.
Complete(r, owner, by) ==
  IF Open(r) /\ alert[r].owner = owner
    THEN alert' = [alert EXCEPT ![r] = Ended(@, by)] ELSE UNCHANGED alert

(***************************************************************************)
(* JavaScript, whose calls are posted.                                     *)
(***************************************************************************)
surroundings == <<started, shown, handlers, runtime>>
CallPosted(call) == /\ Len(calls) < MaxCalls
                    /\ calls' = Append(calls, call)
                    /\ UNCHANGED <<surroundings, presenters, deferredCalls>>

\* GodotAlert.request() and, without a root, AlertManager.alertWithArgs()
AskPlayer(r) ==
  /\ alert[r].state = "none"
  /\ \E tag \in 0..started, mode \in Modes, cancelable \in BOOLEAN :
       /\ tag # 0 \/ (mode = "bubble" /\ ~cancelable)
       /\ alert' = [alert EXCEPT ![r] = [@ EXCEPT !.state = "posted", !.tag = tag,
                                                  !.mode = mode, !.cancelable = cancelable]]
  /\ CallPosted(<<"request", r>>)

\* reply() and decline() of a presenter that was given the request.
Answer(r) ==
  /\ <<"presenter", runtime>> \in alert[r].knows
  /\ \E op \in {"reply", "decline"} : CallPosted(<<op, r>>)
  /\ UNCHANGED alert

\* The provider creates the GodotAlert module.
CreateModule ==
  /\ runtime \notin presenters
  /\ \A i \in DOMAIN calls : calls[i][1] # "present"
  /\ CallPosted(<<"present", runtime>>)
  /\ UNCHANGED alert

(***************************************************************************)
(* The tasks, on the main thread.                                          *)
(***************************************************************************)
\* GodotAlerts::request()
Request(r) ==
  LET a == [alert[r] EXCEPT !.state = "open"]
         becomes(b) == alert' = [alert EXCEPT ![r] = b] /\ UNCHANGED deferredCalls
  IN IF Cardinality(Pending) >= MaxPending \/ (a.tag # 0 /\ a.tag \notin shown)
       THEN becomes(Discarded(a))
     ELSE IF a.mode = "native" THEN becomes(WithDialog(a, a.tag # 0))
     ELSE IF a.mode = "custom" /\ presenters # {}
       THEN becomes([a EXCEPT !.knows = {<<"presenter", g>> : g \in presenters}])
     ELSE Bubble(r, a)

\* Mutant of Reply: a presenter that has declined may still answer.
ReplyAlways(r) ==
  /\ alert' = IF Open(r) THEN [alert EXCEPT ![r] = Ended(@, "presenter")] ELSE alert
  /\ UNCHANGED deferredCalls

Reply(r) ==
  /\ alert' = IF Open(r) /\ ~alert[r].bubbled /\ alert[r].owner = Nobody
                THEN [alert EXCEPT ![r] = Ended(@, "presenter")] ELSE alert
  /\ UNCHANGED deferredCalls

Decline(r) ==
  IF Open(r) /\ ~alert[r].bubbled THEN Bubble(r, alert[r])
                                  ELSE UNCHANGED <<alert, deferredCalls>>

RunCall ==
  /\ calls # <<>>
  /\ calls' = Tail(calls)
  /\ LET op == Head(calls)[1]   of == Head(calls)[2]
     IN \/ op = "request" /\ Request(of) /\ UNCHANGED presenters
        \/ op = "reply" /\ Reply(of) /\ UNCHANGED presenters
        \/ op = "decline" /\ Decline(of) /\ UNCHANGED presenters
        \/ /\ op = "present" /\ presenters' = presenters \cup {of}   \* add_presenter()
           /\ UNCHANGED <<alert, deferredCalls>>
  /\ UNCHANGED surroundings

(***************************************************************************)
(* The engine and the player.                                              *)
(***************************************************************************)
\* A handler is told of the request; what it calls is the one chosen earlier.
CallHandler(r) ==
  /\ <<"handler", r>> \in deferredCalls
  /\ deferredCalls' = deferredCalls \ {<<"handler", r>>}
  /\ alert' = [alert EXCEPT ![r].knows =
                 @ \cup {<<IF alert[r].owner = GameTag THEN "game" ELSE "root", 0>>}]
  /\ UNCHANGED <<surroundings, presenters, calls>>

\* root.complete_alert() and GodotAlerts.complete_alert() of a handler.
HandlerAnswers(r) ==
  /\ \/ <<"root", 0>> \in alert[r].knows /\ Complete(r, alert[r].tag, "root")
     \/ <<"game", 0>> \in alert[r].knows /\ Complete(r, GameTag, "game")
  /\ UNCHANGED <<surroundings, presenters, calls, deferredCalls>>

\* _selected()
Select(r) ==
  /\ alert[r].dialog = "visible"
  /\ Complete(r, GameTag, "player")
  /\ UNCHANGED <<surroundings, presenters, calls, deferredCalls>>

\* _dismissed(): the dialog hides, and one that may not be dismissed is restored.
Dismiss(r) ==
  /\ alert[r].dialog = "visible"
  /\ IF alert[r].cancelable
       THEN Complete(r, GameTag, "player") /\ UNCHANGED deferredCalls
       ELSE /\ alert' = [alert EXCEPT ![r].dialog = "hidden"]
            /\ deferredCalls' = deferredCalls \cup {<<"restore", r>>}
  /\ UNCHANGED <<surroundings, presenters, calls>>

\* _restore_dialog()
Restore(r) ==
  /\ <<"restore", r>> \in deferredCalls
  /\ deferredCalls' = deferredCalls \ {<<"restore", r>>}
  /\ alert' = IF ~Open(r) THEN alert
              ELSE IF alert[r].dialog = "none" THEN [alert EXCEPT ![r] = Discarded(@)]
              ELSE [alert EXCEPT ![r].dialog = "visible"]
  /\ UNCHANGED <<surroundings, presenters, calls>>

\* set_alert_handler() of a root or of GodotAlerts.
SetHandler ==
  /\ \E t \in {0} \cup shown :
       handlers' = IF t \in handlers THEN handlers \ {t} ELSE handlers \cup {t}
  /\ UNCHANGED <<alert, started, shown, runtime, presenters, calls, deferredCalls>>

StartRoot ==
  /\ started < Tags
  /\ started' = started + 1 /\ shown' = shown \cup {started + 1}
  /\ UNCHANGED <<alert, handlers, runtime, presenters, calls, deferredCalls>>

\* close_surface() of each tag
Close(tags) == [r \in Requests |->
                  IF Open(r) /\ alert[r].tag \in tags THEN Discarded(alert[r]) ELSE alert[r]]

StopRootSurface ==
  /\ \E t \in shown : shown' = shown \ {t} /\ alert' = Close({t})
  /\ handlers' = handlers \cap ({0} \cup shown')
  /\ UNCHANGED <<started, runtime, presenters, calls, deferredCalls>>

\* Mutant of Presenters: the presenters of a retired runtime stay.
PresentersStay == presenters

\* clear_presenters()
Presenters == {}

\* ReactNativeHost::_retire(): roots stop, the queue closes and presenters go.
RetireRuntime ==
  /\ runtime < Runtimes
  /\ runtime' = runtime + 1
  /\ alert' = [r \in Requests |-> IF alert[r].state = "posted" THEN Discarded(alert[r])
                                  ELSE Close(shown)[r]]
  /\ shown' = {} /\ handlers' = handlers \cap {0}
  /\ calls' = <<>> /\ presenters' = Presenters
  /\ UNCHANGED <<started, deferredCalls>>

AlertsNext ==
  \/ CreateModule \/ RunCall \/ SetHandler \/ StartRoot \/ StopRootSurface \/ RetireRuntime
  \/ \E r \in Requests : \/ AskPlayer(r) \/ Answer(r) \/ CallHandler(r) \/ HandlerAnswers(r)
                         \/ Select(r) \/ Dismiss(r) \/ Restore(r)

AlertsSpec == AlertsInit /\ [][AlertsNext]_alertVars

(***************************************************************************)
(* Properties.                                                             *)
(***************************************************************************)
AlertsTypeOK ==
  /\ alert \in [Requests -> Alert]
  /\ started \in 0..Tags /\ shown \subseteq 1..started
  /\ handlers \subseteq {0} \cup shown
  /\ runtime \in 1..Runtimes /\ presenters \subseteq 1..runtime
  /\ calls \in Seq({"request", "reply", "decline"} \X Requests \cup {"present"} \X (1..Runtimes))
  /\ deferredCalls \subseteq {"handler", "restore"} \X Requests

(* An alert that is pending can always still be ended by someone: by a      *)
(* presenter of the running runtime, by a handler that was or is about to   *)
(* be told, or by the player, whose dialog is open or about to reopen.      *)
EveryAlertIsHeld ==
  /\ AlertsTypeOK
  /\ \A r \in Pending :
       \/ ~alert[r].bubbled /\ <<"presenter", runtime>> \in alert[r].knows
       \/ <<"handler", r>> \in deferredCalls
       \/ <<"root", 0>> \in alert[r].knows /\ alert[r].tag \in shown
       \/ <<"game", 0>> \in alert[r].knows
       \/ alert[r].dialog = "visible" \/ <<"restore", r>> \in deferredCalls

(* What ends an alert is the answer of the party it was last passed to: a   *)
(* presenter that declined, a handler that was passed over and a dialog of  *)
(* a request that ended answer nothing, and nothing ends twice.             *)
AnsweredByItsOwner ==
  [][\A r \in Requests : alert'[r].by # alert[r].by =>
       /\ alert[r].state \in {"posted", "open"} /\ alert[r].by = ""
       /\ alert'[r].by = "presenter" => ~alert[r].bubbled /\ alert[r].mode = "custom"
       /\ alert'[r].by = "root" => alert[r].owner = alert[r].tag /\ alert[r].tag \in shown
       /\ alert'[r].by \in {"game", "player"} => alert[r].owner = GameTag]_alertVars

=================================================================================
