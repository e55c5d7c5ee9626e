------------------------------- MODULE InputRouter -------------------------------
(***************************************************************************)
(* The touches of one root: RNInputRouter (input/rn_input_router.cpp) and    *)
(* the part of ReactNativeRootView that feeds it.  Godot gives presses,      *)
(* motions and releases to controls; a press may be taken over by a drag or  *)
(* a popup, views are destroyed under it, and the surface goes away.  What   *)
(* JavaScript was told to be down is kept beside it.  Positions, clicks,     *)
(* keys, the lists of other touches in an event, and rounded clips that give *)
(* a press to a view further up are left out.                                *)
(***************************************************************************)
EXTENDS Naturals

CONSTANTS
  Plain,      \* views that take part in JavaScript's touches
  Owning,     \* views whose control activates itself (owns_activation)
  Spans,      \* nested text, whose touches have a tag of their own
  Paragraph,  \* the view that the nested text is in
  Fingers,
  MaxTouches  \* bounds the presses and the fingers put down

ASSUME RouterViews ==
  /\ Paragraph \in Plain /\ Plain \cap (Owning \cup Spans) = {} /\ Owning \cap Spans = {}
  /\ "none" \notin Plain \cup Owning \cup Spans \cup Fingers
  /\ {"hover", "mouse"} \cap Fingers = {}
  /\ MaxTouches \in Nat

VARIABLES
  alive,   \* the views of the root
  godot,   \* whom Godot sends the mouse to, the buttons and fingers it holds down
  router,  \* RNInputRouter's fields; targets are tags
  told,    \* history: what JavaScript was told of and not of its end
  misled,  \* history: an event did not fit what JavaScript had been told
  lost,    \* history: pointers whose release Godot kept for itself
  presses  \* how many presses and fingers there have been
routerVars == <<alive, godot, router, told, misled, lost, presses>>

NoTarget == "none"
Tags == Plain \cup Owning \cup Spans
ViewOf(tag) == IF tag \in Spans THEN Paragraph ELSE tag
Touchable == {tag \in Tags : ViewOf(tag) \in alive}

Loose == [focus |-> NoTarget, held |-> {}, fingers |-> {}, check |-> FALSE, popup |-> FALSE]
Calm == [hover |-> NoTarget, pressed |-> NoTarget, active |-> NoTarget, buttons |-> {},
         touches |-> [f \in Fingers |-> NoTarget], primary |-> NoTarget]

RouterInit == /\ alive = Plain \cup Owning /\ godot = Loose /\ router = Calm
              /\ told = {} /\ misled = FALSE /\ lost = {} /\ presses = 0

(***************************************************************************)
(* What is down, and what JavaScript is told.                               *)
(***************************************************************************)
Entry(what, pointer, on, primary) ==
  IF on = NoTarget THEN {}
  ELSE {[what |-> what, pointer |-> pointer, on |-> on, primary |-> primary]}
Touch(pointer, on) == IF on \in Owning THEN {} ELSE Entry("touch", pointer, on, TRUE)

Over(r) == Entry("over", "hover", r.hover, TRUE)
MouseTouch(r) == Touch("mouse", r.active)
Contact(r, f) == Entry("pointer", f, r.touches[f], f = r.primary) \cup Touch(f, r.touches[f])
Down(r) == Over(r) \cup MouseTouch(r) \cup UNION {Contact(r, f) : f \in Fingers}

Same(a, b) == a.what = b.what /\ a.pointer = b.pointer
Fits(starts, moves, ends) ==
  /\ \A e \in moves \cup ends : e.pointer \in lost \/ e \in told
  /\ \A s \in starts, t \in told \ ends : ~Same(s, t) \/ s.pointer \in lost
Tell(starts, moves, ends) ==
  /\ told' = (told \ ends) \cup starts
  /\ misled' = (misled \/ ~Fits(starts, moves, ends))

Another == presses < MaxTouches /\ presses' = presses + 1

(***************************************************************************)
(* The mouse.                                                               *)
(***************************************************************************)
\* _mouse_motion, _hover.
MouseMotion(target) ==
  /\ router' = [router EXCEPT !.hover = target]
  /\ Tell(Over(router') \ Over(router), MouseTouch(router), Over(router) \ Over(router'))
  /\ UNCHANGED <<alive, godot, lost, presses>>

\* Godot sends all buttons to the control that got the first one.
Focusable(target) == godot.focus \in {NoTarget, ViewOf(target)}

\* _mouse_button, pressed.
MousePress(button, target) ==
  /\ button \notin godot.held /\ ~godot.popup /\ Focusable(target) /\ Another
  /\ godot' = [godot EXCEPT !.focus = ViewOf(target),
                            !.held = @ \cup {button}, !.check = TRUE]
  /\ router' = [router EXCEPT !.buttons = @ \cup {button}, !.pressed = target,
                              !.active = IF button = "left" THEN target ELSE @]
  /\ Tell(IF button = "left" THEN MouseTouch(router') ELSE {}, {}, {})
  /\ UNCHANGED <<alive, lost>>

\* _mouse_button, released or canceled: the touch ends where it started.
Ended(target) == IF router.active # NoTarget THEN router.active ELSE target
MouseRelease(button, target) ==
  /\ button \in godot.held /\ Focusable(target)
  /\ godot' = [godot EXCEPT !.held = @ \ {button},
                            !.focus = IF godot.held = {button} THEN NoTarget ELSE @]
  /\ router' = [router EXCEPT !.buttons = @ \ {button},
                              !.pressed = IF router.buttons \subseteq {button} THEN NoTarget ELSE @,
                              !.active = IF button = "left" THEN NoTarget ELSE @]
  /\ Tell({}, {}, IF button = "left" THEN Touch("mouse", Ended(target)) ELSE {})
  /\ UNCHANGED <<alive, lost, presses>>

\* cancel_mouse.
MouseCancelled(r) == [r EXCEPT !.active = NoTarget, !.pressed = NoTarget, !.buttons = {}]
CancelMouse == /\ router' = MouseCancelled(router)
               /\ Tell({}, {}, MouseTouch(router))

\* NOTIFICATION_DRAG_BEGIN.
DragBegin ==
  /\ godot' = [godot EXCEPT !.focus = NoTarget, !.held = {}]
  /\ IF router.buttons # {} THEN CancelMouse ELSE UNCHANGED <<router, told, misled>>
  /\ UNCHANGED <<alive, lost, presses>>

\* A popup that a press opened, and the root's deferred look for it.
OpenPopup ==
  /\ godot.held # {} /\ godot.check
  /\ godot' = [godot EXCEPT !.focus = NoTarget, !.held = {}, !.popup = TRUE]
  /\ UNCHANGED <<alive, router, told, misled, lost, presses>>
CancelMouseTakenByPopup ==
  /\ godot.check /\ godot' = [godot EXCEPT !.check = FALSE, !.popup = FALSE]
  /\ IF godot.popup /\ router.buttons # {} THEN CancelMouse
     ELSE UNCHANGED <<router, told, misled>>
  /\ UNCHANGED <<alive, lost, presses>>

(***************************************************************************)
(* Fingers.                                                                 *)
(***************************************************************************)
FingerDown(f, target) ==
  /\ f \notin godot.fingers /\ Another
  /\ godot' = [godot EXCEPT !.fingers = @ \cup {f}]
  /\ router' = [router EXCEPT
       !.touches[f] = target,
       !.primary = IF \A g \in Fingers : router.touches[g] = NoTarget THEN f ELSE @]
  /\ Tell(Contact(router', f), {}, {})
  /\ UNCHANGED <<alive, lost>>

FingerUp(f) ==
  /\ f \in godot.fingers /\ godot' = [godot EXCEPT !.fingers = @ \ {f}]
  /\ router' = IF router.touches[f] = NoTarget THEN router
               ELSE [router EXCEPT !.touches[f] = NoTarget,
                                   !.primary = IF @ = f THEN NoTarget ELSE @]
  /\ Tell({}, {}, Contact(router, f))
  /\ UNCHANGED <<alive, lost, presses>>

FingerDrag(f) ==
  /\ f \in godot.fingers
  /\ Tell({}, Contact(router, f), {})
  /\ UNCHANGED <<alive, godot, router, lost, presses>>

(* Godot sends no release to a control that is hidden, moved in the tree or paused *)
(* while it is pressed, or to one that a later popup covers.                       *)
LoseMouse ==
  /\ godot.held # {} /\ godot' = [godot EXCEPT !.focus = NoTarget, !.held = {}]
  /\ lost' = IF router.active = NoTarget THEN lost ELSE lost \cup {"mouse"}
  /\ UNCHANGED <<alive, router, told, misled, presses>>
LoseFinger(f) ==
  /\ f \in godot.fingers /\ godot' = [godot EXCEPT !.fingers = @ \ {f}]
  /\ lost' = IF router.touches[f] = NoTarget THEN lost ELSE lost \cup {f}
  /\ UNCHANGED <<alive, router, told, misled, presses>>

(***************************************************************************)
(* Views and surfaces.                                                      *)
(***************************************************************************)
Unless(view, tag) == IF tag = view THEN NoTarget ELSE tag
FingersOn(tags) == {f \in Fingers : router.touches[f] \in tags}

\* RNInputRouter::view_destroyed, the fields.
AfterDestroyed(r, view) ==
  LET one == IF r.active = view THEN [r EXCEPT !.active = NoTarget, !.buttons = {}] ELSE r
  IN [one EXCEPT !.hover = Unless(view, @), !.pressed = Unless(view, @),
                 !.touches = [f \in Fingers |-> Unless(view, @[f])],
                 !.primary = IF @ \in FingersOn({view}) THEN NoTarget ELSE @]

\* Mutant: a destroyed view's mouse touch is forgotten.
ViewEndsFingers(view) == UNION {Contact(router, f) : f \in FingersOn({view})}

\* RNInputRouter::view_destroyed, the events.
ViewEnds(view) == (UNION {Contact(router, f) : f \in FingersOn({view})})
                  \cup (IF router.active = view THEN MouseTouch(router) ELSE {})

(* A view's destruction: Godot forgets its control.  What was over a view that is  *)
(* gone needs no end, and a touch of its nested text gets none.                    *)
ViewDestroyed(view) ==
  LET inside == {tag \in Spans : ViewOf(tag) = view}
  IN /\ alive' = alive \ {view}
     /\ godot' = IF view # godot.focus THEN godot
                 ELSE [godot EXCEPT !.focus = NoTarget, !.held = {}]
     /\ router' = AfterDestroyed(router, view)
     /\ told' = told \ (ViewEnds(view) \cup Entry("over", "hover", view, TRUE))
     /\ misled' = (misled \/ ~Fits({}, {}, ViewEnds(view)))
     /\ lost' = lost \cup FingersOn(inside)
                \cup (IF router.active \in inside THEN {"mouse"} ELSE {})
     /\ UNCHANGED presses

\* _detach_surface: cancel_all, and the views are cleared.
DetachSurface ==
  /\ alive # {} /\ alive' = {}
  /\ godot' = [godot EXCEPT !.focus = NoTarget, !.held = {}]
  /\ router' = Calm
  /\ told' = {t \in told \ Down(router) : t.pointer \notin lost}
  /\ misled' = (misled \/ ~Fits({}, {}, Down(router)))
  /\ lost' = {} /\ UNCHANGED presses

AttachSurface ==
  /\ alive = {} /\ alive' = Plain \cup Owning
  /\ UNCHANGED <<godot, router, told, misled, lost, presses>>

RouterNext ==
  \/ \E target \in Touchable :
       \/ MouseMotion(target)
       \/ \E b \in {"left", "right"} : MousePress(b, target) \/ MouseRelease(b, target)
       \/ \E f \in Fingers : FingerDown(f, target)
  \/ MouseMotion(NoTarget) \/ DragBegin \/ OpenPopup \/ CancelMouseTakenByPopup \/ LoseMouse
  \/ \E f \in Fingers : FingerUp(f) \/ FingerDrag(f) \/ LoseFinger(f)
  \/ \E view \in alive : ViewDestroyed(view)
  \/ DetachSurface \/ AttachSurface
RouterSpec == RouterInit /\ [][RouterNext]_routerVars

(***************************************************************************)
(* Property.                                                               *)
(***************************************************************************)
(* Each touch that JavaScript is told of starts once and ends once, by a release  *)
(* or by a cancel, on the view it started on, and a finger stays primary or not,   *)
(* whatever is destroyed, dragged or opened under it (RNInputRouter's contacts),    *)
(* unless Godot keeps the release for itself.                                      *)
TouchesEndOnce ==
  /\ ~misled
  /\ {t \in told : t.pointer \notin lost} = {t \in Down(router) : t.pointer \notin lost}
==================================================================================
