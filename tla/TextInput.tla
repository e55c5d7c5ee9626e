-------------------------------- MODULE TextInput --------------------------------
(***************************************************************************)
(* A controlled TextInput: components/rn_text_input_control.cpp on the main  *)
(* thread, and useTextInputStateSynchronization of TextInput.godot.js on     *)
(* JavaScript's.  What the user types and the values JavaScript sets cross   *)
(* on their way, and the number of the last event that JavaScript has        *)
(* handled tells a stale value from a current one.  Props and commands reach *)
(* the editor in order (see Mounting), and so do events JavaScript.          *)
(* The editor is a LineEdit, which tells of a change at once, or a TextEdit, *)
(* which defers it; it may compose text with an input method.  Selections,   *)
(* max_length and switching multiline are left out.                          *)
(***************************************************************************)
EXTENDS Naturals, Sequences

CONSTANTS Texts, MaxEdits, MaxValues

ASSUME TextBounds ==
  Texts # {} /\ "nothing" \notin Texts /\ MaxEdits \in Nat /\ MaxValues \in Nat

VARIABLES
  editor,     \* RNTextInputControl, and the text of the view's props
  events,     \* topChange events on their way to JavaScript
  script,     \* the component's state in JavaScript
  updates,    \* props and commands on their way to the editor
  edits,      \* how often the user has changed the text
  values,     \* how often the game's code has set a value of its own accord
  overwrote   \* history: a value replaced text that its author had not heard of
textVars == <<editor, events, script, updates, edits, values, overwrote>>

Blank == "blank"
Nothing == [ack |-> 0, text |-> "nothing"]

TextInit ==
  /\ editor \in [text : {Blank}, observed : {Blank}, count : {0}, prop : {Blank},
                 multiline : BOOLEAN, composing : {FALSE}, deferred : {Nothing}]
  /\ script = [value |-> Blank, last |-> Blank, count |-> 0, dirty |-> FALSE]
  /\ events = <<>> /\ updates = <<>>
  /\ edits = 0 /\ values = 0 /\ overwrote = FALSE

(***************************************************************************)
(* RNTextInputControl.                                                      *)
(***************************************************************************)
HasNews(e) == ~e.composing /\ e.text # e.observed

\* _native_changed: the editor, and the event it emits.
NativeChanged(e) ==
  IF HasNews(e)
    THEN [e EXCEPT !.observed = e.text, !.count = @ + 1, !.deferred = Nothing] ELSE e
Emitted(e) ==
  IF HasNews(e) THEN Append(events, [text |-> e.text, count |-> e.count + 1]) ELSE events

\* reconcile() after its look for news: a stale value is dropped, and one that comes while
\* the user composes waits.
Replaced(e, update) ==
  IF update.ack # e.count THEN e
  ELSE IF e.composing THEN [e EXCEPT !.deferred = update]
  ELSE [e EXCEPT !.deferred = Nothing, !.text = update.text, !.observed = update.text]
Overwrites(e, update) ==
  /\ Replaced(e, update).text # e.text
  /\ e.text # e.observed \/ update.ack # e.count

\* Mutant: reconcile() forgets what a TextEdit has not told of yet.
ReconcileUnseen(e, update) ==
  /\ editor' = Replaced(e, update)
  /\ events' = events
  /\ overwrote' = (overwrote \/ Overwrites(e, update))

Reconcile(e, update) ==
  /\ editor' = Replaced(NativeChanged(e), update)
  /\ events' = Emitted(e)
  /\ overwrote' = (overwrote \/ Overwrites(NativeChanged(e), update))

\* The user types, or what an input method composed becomes text.
Edit(text) ==
  LET edited == [editor EXCEPT !.text = text, !.composing = FALSE]
  IN /\ edits < MaxEdits /\ edits' = edits + 1 /\ text # editor.text
     /\ editor' = IF editor.multiline THEN edited ELSE NativeChanged(edited)
     /\ events' = IF editor.multiline THEN events ELSE Emitted(edited)
     /\ UNCHANGED <<script, updates, values, overwrote>>

Compose ==
  /\ ~editor.composing /\ edits < MaxEdits
  /\ editor' = [editor EXCEPT !.composing = TRUE]
  /\ UNCHANGED <<events, script, updates, edits, values, overwrote>>
StopComposing ==
  /\ editor.composing
  /\ editor' = [editor EXCEPT !.composing = FALSE]
  /\ UNCHANGED <<events, script, updates, edits, values, overwrote>>

\* TextEdit's text_changed.
TextChanged ==
  /\ editor.multiline /\ HasNews(editor)
  /\ editor' = NativeChanged(editor) /\ events' = Emitted(editor)
  /\ UNCHANGED <<script, updates, edits, values, overwrote>>

\* NOTIFICATION_PROCESS.
ProcessDeferred ==
  /\ ~editor.composing /\ editor.deferred # Nothing
  /\ Reconcile([editor EXCEPT !.deferred = Nothing], editor.deferred)
  /\ UNCHANGED <<script, updates, edits, values>>

\* RNTextInputComponentView::update_props, and its command setTextAndSelection.
UpdateProps ==
  LET update == Head(updates)
      updated == [editor EXCEPT !.prop = update.text]
  IN /\ updates # <<>> /\ update.is = "props" /\ updates' = Tail(updates)
     /\ IF update.text # editor.prop
          THEN Reconcile(updated, [x \in DOMAIN Nothing |-> update[x]])
          ELSE editor' = updated /\ UNCHANGED <<events, overwrote>>
     /\ UNCHANGED <<script, edits, values>>
SetTextAndSelection ==
  LET update == Head(updates)
  IN /\ updates # <<>> /\ update.is = "command" /\ updates' = Tail(updates)
     /\ Reconcile(editor, [x \in DOMAIN Nothing |-> update[x]])
     /\ UNCHANGED <<script, edits, values>>

(***************************************************************************)
(* TextInput.godot.js.  Handlers set state, and a render commits it.        *)
(***************************************************************************)
SetValue(text) ==
  /\ values < MaxValues /\ values' = values + 1
  /\ script' = [script EXCEPT !.value = text, !.dirty = TRUE]
  /\ UNCHANGED <<editor, events, updates, edits, overwrote>>

\* _onChange, whose handler accepts the text, keeps its value or sets another.
OnChange(text) ==
  LET event == Head(events)
  IN /\ events # <<>> /\ events' = Tail(events)
     /\ script' = [value |-> text, last |-> event.text, count |-> event.count,
                   dirty |-> TRUE]
     /\ UNCHANGED <<editor, updates, edits, values, overwrote>>

\* A commit and its layout effect: native text that is not the value is replaced by it.
Update(is) == [is |-> is, text |-> script.value, ack |-> script.count]
Render ==
  /\ script.dirty
  /\ updates' = updates \o <<Update("props")>>
                \o (IF script.last # script.value THEN <<Update("command")>> ELSE <<>>)
  /\ script' = [script EXCEPT !.last = script.value, !.dirty = FALSE]
  /\ UNCHANGED <<editor, events, edits, values, overwrote>>

TextNext ==
  \/ \E t \in Texts : Edit(t) \/ SetValue(t) \/ OnChange(t)
  \/ Compose \/ StopComposing \/ TextChanged \/ ProcessDeferred
  \/ UpdateProps \/ SetTextAndSelection \/ Render
TextSpec == TextInit /\ [][TextNext]_textVars

(***************************************************************************)
(* Property.                                                               *)
(***************************************************************************)
Settled ==
  /\ events = <<>> /\ updates = <<>> /\ ~script.dirty
  /\ ~editor.composing /\ editor.deferred = Nothing /\ ~HasNews(editor)

(* What the user typed is never replaced by a value that was set before         *)
(* JavaScript heard of it (event_count), and once all that is under way has      *)
(* arrived, the input shows the value that JavaScript set.                       *)
InputShowsTheValue == ~overwrote /\ (Settled => editor.text = script.value)
==================================================================================
