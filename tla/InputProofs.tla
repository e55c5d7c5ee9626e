---------------------------- MODULE InputProofs -----------------------------
(***************************************************************************)
(* Theorems of text, of pointers and of the bindings that scripts hold.     *)
(***************************************************************************)
EXTENDS TextInput, InputRouter, SceneBindings, SumTheorems, SequenceTheorems, TLAPS

-----------------------------------------------------------------------------
(***************************************************************************)
(* Theorems of TextInput, for any texts, edits and values.                 *)
(*                                                                         *)
(* The events on their way are those that JavaScript has not counted, so a *)
(* value or a command with the editor's count was made when JavaScript knew*)
(* all that the editor told.  What the editor shows in the end is then what*)
(* JavaScript believes it shows (Believed): it shows it already, a command *)
(* on its way sees to that, or a value waits for the composition to end.   *)
(***************************************************************************)

TextShown == Texts \cup {Blank}
TextValue == [text : TextShown, ack : Nat]
Editor == [text : TextShown, observed : TextShown, count : Nat, prop : TextShown,
           multiline : BOOLEAN, composing : BOOLEAN, deferred : TextValue \cup {Nothing}]
TextEvent == [text : TextShown, count : Nat]
TextUpdate == [is : {"props", "command"}, text : TextShown, ack : Nat]
Script == [value : TextShown, last : TextShown, count : Nat, dirty : BOOLEAN]

\* The events on their way are those JavaScript has not counted, in order, and the last is
\* what the editor has told of.
Counted(e, sent, s) ==
  /\ e.count = s.count + Len(sent)
  /\ \A i \in 1..Len(sent) : sent[i].count = s.count + i
  /\ sent # <<>> => sent[Len(sent)].text = e.observed

\* No value is younger than the events JavaScript has handled.
AcksAreOld(e, coming, s) ==
  /\ \A i \in 1..Len(coming) : coming[i].ack <= s.count
  /\ e.deferred # Nothing => e.deferred.ack <= s.count

\* A value that the editor will take for current is the one JavaScript believes it shows.
Believable(e, update, s) == update.ack = e.count => update.text = s.last
Due(e, update, s) == update.ack = e.count /\ update.text = s.last

(* What the editor shows in the end, once no event is on its way, is what JavaScript       *)
(* believes it shows: a command on its way sees to that, or a value that waits for the    *)
(* end of a composition, or it does already.                                             *)
CommandComes(e, coming, s) ==
  \E k \in 1..Len(coming) : /\ coming[k].is = "command" /\ Due(e, coming[k], s)
                            /\ \A i \in k..Len(coming) : Believable(e, coming[i], s)
Settles(e, s) ==
  IF e.deferred = Nothing \/ e.deferred.ack # e.count
    THEN e.observed = s.last ELSE e.deferred.text = s.last
Believed(e, coming, s) ==
  e.count = s.count =>
    \/ CommandComes(e, coming, s)
    \/ Settles(e, s) /\ \A i \in 1..Len(coming) : Believable(e, coming[i], s)

InStep(e, sent, coming, s) ==
  /\ e \in Editor /\ sent \in Seq(TextEvent) /\ coming \in Seq(TextUpdate) /\ s \in Script
  /\ Counted(e, sent, s) /\ AcksAreOld(e, coming, s) /\ Believed(e, coming, s)

TextInv ==
  /\ InStep(editor, events, updates, script)
  /\ edits \in Nat /\ values \in Nat
  /\ script.dirty \/ script.last = script.value
  /\ ~overwrote

USE TextBounds

-----------------------------------------------------------------------------
(* The editor. *)

\* A value is no sentinel.
LEMMA ValueIsSomething == \A v \in TextValue : v # Nothing
BY DEF TextValue, TextShown, Blank, Nothing

\* Props and commands carry a value.
LEMMA ValueOf ==
  ASSUME NEW update \in TextUpdate
  PROVE  /\ [x \in DOMAIN Nothing |-> update[x]] = [ack |-> update.ack, text |-> update.text]
         /\ [ack |-> update.ack, text |-> update.text] \in TextValue
BY DEF Nothing, TextUpdate, TextValue

\* The editor tells of what it shows, and values that were on their way are stale.
LEMMA NewsAreCounted ==
  ASSUME NEW e, NEW coming, InStep(e, events, coming, script)
  PROVE  /\ InStep(NativeChanged(e), Emitted(e), coming, script)
         /\ ~e.composing => NativeChanged(e).text = NativeChanged(e).observed
         /\ NativeChanged(e).composing = e.composing
<1>1. CASE ~HasNews(e)
  BY <1>1 DEF NativeChanged, Emitted, HasNews
<1>2. CASE HasNews(e)
  <2> DEFINE n == NativeChanged(e)
             sent == Emitted(e)
  <2>1. /\ e \in Editor /\ events \in Seq(TextEvent)
        /\ coming \in Seq(TextUpdate) /\ script \in Script
        /\ Counted(e, events, script) /\ AcksAreOld(e, coming, script)
    BY DEF InStep
  <2>2. /\ n \in Editor /\ n.observed = e.text /\ n.count = e.count + 1 /\ n.deferred = Nothing
        /\ n.text = e.text /\ n.composing = e.composing
    <3>1. n = [e EXCEPT !.observed = e.text, !.count = e.count + 1, !.deferred = Nothing]
      BY <1>2, <2>1 DEF NativeChanged, Editor
    <3>2. e.text \in TextShown /\ e.count + 1 \in Nat
      BY <2>1 DEF Editor
    <3> QED BY <2>1, <3>1, <3>2 DEF Editor
  <2>3. sent = Append(events, [text |-> e.text, count |-> e.count + 1])
    BY <1>2 DEF Emitted
  <2>4. /\ sent \in Seq(TextEvent) /\ Len(sent) = Len(events) + 1 /\ sent # <<>>
        /\ \A i \in 1..Len(events) : sent[i] = events[i]
        /\ sent[Len(sent)] = [text |-> e.text, count |-> e.count + 1]
    BY <2>1, <2>3 DEF Editor, TextEvent
  <2> HIDE DEF n, sent
  <2>5. Counted(n, sent, script)
    <3>1. /\ e.count = script.count + Len(events) /\ e.count \in Nat /\ Len(events) \in Nat
          /\ \A i \in 1..Len(events) : events[i].count = script.count + i
          /\ script.count \in Nat
      BY <2>1 DEF Counted, Script, Editor
    <3>2. sent[Len(events) + 1].count = script.count + (Len(events) + 1)
      <4>1. sent[Len(events) + 1].count = e.count + 1
        BY <2>4
      <4> QED BY <3>1, <4>1
    <3>3. \A i \in 1..(Len(events) + 1) : i \in 1..Len(events) \/ i = Len(events) + 1
      BY <3>1
    <3>4. \A i \in 1..Len(sent) : sent[i].count = script.count + i
      BY <2>4, <3>1, <3>2, <3>3
    <3> QED BY <2>2, <2>4, <3>1, <3>4 DEF Counted
  <2>6. AcksAreOld(n, coming, script)
    BY <2>1, <2>2 DEF AcksAreOld
  <2>7. n.count # script.count
    BY <2>1, <2>2, <2>4 DEF Counted, Script, Editor
  <2> QED BY <2>1, <2>2, <2>4, <2>5, <2>6, <2>7 DEF InStep, Believed, n, sent
<1> QED BY <1>1, <1>2

\* A value for text that has changed since replaces nothing.
LEMMA StaleIsDropped ==
  ASSUME NEW e, NEW update, update.ack # e.count
  PROVE  Replaced(e, update) = e
BY DEF Replaced

\* Replacing the text by a current value.
LEMMA ReplacedFields ==
  ASSUME NEW e \in Editor, NEW update \in TextValue, update.ack = e.count
  PROVE  LET n == Replaced(e, update)
         IN /\ n \in Editor /\ n.count = e.count /\ n.composing = e.composing
            /\ n.deferred = IF e.composing THEN update ELSE Nothing
            /\ n.observed = IF e.composing THEN e.observed ELSE update.text
            /\ n.text = IF e.composing THEN e.text ELSE update.text
BY DEF Replaced, Editor, TextValue

\* No value replaces text that its author has not heard of.
LEMMA NothingIsOverwritten ==
  ASSUME NEW e, NEW update, e.composing \/ e.text = e.observed
  PROVE  e \in Editor => ~Overwrites(e, update)
BY DEF Overwrites, Replaced, Editor

\* The next update leaves the queue.
LEMMA TailOfUpdates ==
  ASSUME NEW coming \in Seq(TextUpdate), coming # <<>>
  PROVE  /\ Tail(coming) \in Seq(TextUpdate) /\ Len(Tail(coming)) = Len(coming) - 1
         /\ \A i \in 1..Len(Tail(coming)) : Tail(coming)[i] = coming[i + 1]
         /\ Head(coming) = coming[1] /\ Head(coming) \in TextUpdate
         /\ Len(coming) \in Nat /\ Len(coming) >= 1
OBVIOUS

\* A command further back in the queue is still there, and so is whatever it comes with.
LEMMA CommandStays ==
  ASSUME NEW e, NEW s, NEW coming \in Seq(TextUpdate), coming # <<>>,
         CommandComes(e, coming, s)
  PROVE  \/ CommandComes(e, Tail(coming), s)
         \/ /\ coming[1].is = "command" /\ Due(e, coming[1], s)
            /\ \A i \in 1..Len(coming) : Believable(e, coming[i], s)
<1>1. PICK k \in 1..Len(coming) :
        /\ coming[k].is = "command" /\ Due(e, coming[k], s)
        /\ \A i \in k..Len(coming) : Believable(e, coming[i], s)
  BY DEF CommandComes
<1>2. CASE k = 1
  BY <1>1, <1>2
<1>3. CASE k > 1
  <2>1. k - 1 \in 1..Len(Tail(coming)) /\ Tail(coming)[k - 1] = coming[k]
    BY <1>3, TailOfUpdates
  <2>2. \A i \in (k - 1)..Len(Tail(coming)) : Believable(e, Tail(coming)[i], s)
    <3> SUFFICES ASSUME NEW i \in (k - 1)..Len(Tail(coming))
                 PROVE  Believable(e, Tail(coming)[i], s)
      OBVIOUS
    <3>1. i + 1 \in k..Len(coming) /\ Tail(coming)[i] = coming[i + 1]
      BY <1>3, TailOfUpdates
    <3> QED BY <1>1, <3>1
  <2> QED BY <1>1, <2>1, <2>2 DEF CommandComes
<1> QED BY <1>2, <1>3, TailOfUpdates

\* An update that is dropped or does nothing, as it may be if it is no command or stale.
LEMMA UpdatePasses ==
  ASSUME NEW e, NEW sent, NEW coming, NEW s, InStep(e, sent, coming, s), coming # <<>>,
         Head(coming).is = "props" \/ Head(coming).ack # e.count
  PROVE  InStep(e, sent, Tail(coming), s)
<1>1. coming \in Seq(TextUpdate) /\ AcksAreOld(e, coming, s) /\ Believed(e, coming, s)
  BY DEF InStep
<1>2. AcksAreOld(e, Tail(coming), s)
  BY <1>1, TailOfUpdates DEF AcksAreOld
<1>3. ASSUME e.count = s.count
      PROVE  \/ CommandComes(e, Tail(coming), s)
             \/ /\ Settles(e, s)
                /\ \A i \in 1..Len(Tail(coming)) : Believable(e, Tail(coming)[i], s)
  <2>1. CASE CommandComes(e, coming, s)
    BY <1>1, <2>1, CommandStays, TailOfUpdates DEF Due
  <2>2. CASE Settles(e, s) /\ \A i \in 1..Len(coming) : Believable(e, coming[i], s)
    BY <1>1, <2>2, TailOfUpdates
  <2> QED BY <1>1, <1>3, <2>1, <2>2 DEF Believed
<1> QED BY <1>1, <1>2, <1>3, TailOfUpdates DEF InStep, Believed

\* An update is compared with the editor and may replace its text.
LEMMA UpdateIsTaken ==
  ASSUME NEW e, NEW sent, NEW coming, NEW s, InStep(e, sent, coming, s), coming # <<>>,
         NEW update, update = [ack |-> Head(coming).ack, text |-> Head(coming).text]
  PROVE  InStep(Replaced(e, update), sent, Tail(coming), s)
<1>1. CASE update.ack # e.count
  BY <1>1, StaleIsDropped, UpdatePasses
<1>2. CASE update.ack = e.count
  <2>1. /\ e \in Editor /\ coming \in Seq(TextUpdate) /\ s \in Script /\ sent \in Seq(TextEvent)
        /\ Counted(e, sent, s) /\ AcksAreOld(e, coming, s) /\ Believed(e, coming, s)
    BY DEF InStep
  <2>2. Head(coming) = coming[1] /\ Head(coming) \in TextUpdate /\ Len(coming) >= 1
    BY <2>1, TailOfUpdates
  <2>3. update \in TextValue /\ update.ack <= s.count
    BY <2>1, <2>2 DEF TextUpdate, TextValue, AcksAreOld
  <2>4. e.count = s.count /\ sent = <<>>
    BY <1>2, <2>1, <2>3 DEF Counted, Script
  <2> DEFINE n == Replaced(e, update)
  <2>5. /\ n \in Editor /\ n.count = e.count
        /\ n.deferred = IF e.composing THEN update ELSE Nothing
        /\ n.observed = IF e.composing THEN e.observed ELSE update.text
    BY <1>2, <2>1, <2>3, ReplacedFields
  <2> HIDE DEF n
  <2>6. Counted(n, sent, s)
    BY <2>1, <2>4, <2>5 DEF Counted
  <2>7. AcksAreOld(n, Tail(coming), s)
    BY <2>1, <2>3, <2>5, TailOfUpdates DEF AcksAreOld
  <2>8. \/ CommandComes(n, Tail(coming), s)
        \/ /\ update.text = s.last
           /\ \A i \in 1..Len(Tail(coming)) : Believable(n, Tail(coming)[i], s)
    <3>1. CASE CommandComes(e, coming, s)
      <4>1. CASE CommandComes(e, Tail(coming), s)
        BY <2>5, <4>1 DEF Due, Believable, CommandComes
      <4>2. CASE /\ Due(e, coming[1], s)
                 /\ \A i \in 1..Len(coming) : Believable(e, coming[i], s)
        BY <2>1, <2>2, <2>5, <4>2, TailOfUpdates DEF Due, Believable
      <4> QED BY <2>1, <3>1, <4>1, <4>2, CommandStays
    <3>2. CASE \A i \in 1..Len(coming) : Believable(e, coming[i], s)
      BY <2>1, <2>2, <2>5, <3>2, <1>2, TailOfUpdates DEF Believable
    <3> QED BY <2>1, <2>4, <3>1, <3>2 DEF Believed
  <2>9. update.text = s.last => Settles(n, s)
    BY <1>2, <2>3, <2>5, ValueIsSomething DEF Settles
  <2> QED BY <2>1, <2>5, <2>6, <2>7, <2>8, <2>9, TailOfUpdates DEF InStep, Believed, n
<1> QED BY <1>1, <1>2

-----------------------------------------------------------------------------
(* The steps. *)

\* Nothing has been typed or set.
LEMMA TextStarts == TextInit => TextInv
<1> SUFFICES ASSUME TextInit PROVE TextInv
  OBVIOUS
<1>1. /\ editor \in Editor /\ editor.count = 0 /\ editor.observed = Blank
      /\ editor.deferred = Nothing
  <2>1. Blank \in TextShown /\ 0 \in Nat
    BY DEF TextShown
  <2> QED BY <2>1 DEF TextInit, Editor
<1>2. /\ script \in Script /\ script.last = Blank /\ script.value = Blank /\ script.count = 0
  BY DEF TextInit, Script, TextShown
<1>3. events = <<>> /\ updates = <<>> /\ edits = 0 /\ values = 0 /\ ~overwrote
  BY DEF TextInit
<1>4. Counted(editor, events, script) /\ AcksAreOld(editor, updates, script)
  BY <1>1, <1>2, <1>3 DEF Counted, AcksAreOld
<1>5. Believed(editor, updates, script)
  BY <1>1, <1>2, <1>3 DEF Believed, Settles
<1> QED BY <1>1, <1>2, <1>3, <1>4, <1>5 DEF TextInv, InStep

\* What the editor shows and whether it composes, or what its props say, is its own affair.
LEMMA EditorIsFree ==
  ASSUME NEW e, NEW sent, NEW coming, NEW s, InStep(e, sent, coming, s),
         NEW n \in Editor, n.observed = e.observed, n.count = e.count, n.deferred = e.deferred
  PROVE  InStep(n, sent, coming, s)
<1>1. Counted(n, sent, s) /\ AcksAreOld(n, coming, s)
  BY DEF InStep, Counted, AcksAreOld
<1>2. Believed(n, coming, s)
  BY DEF InStep, Believed, CommandComes, Settles, Believable, Due
<1> QED BY <1>1, <1>2 DEF InStep

\* The user types: a LineEdit tells of it at once.
LEMMA EditStep ==
  ASSUME TextInv, NEW text \in Texts, Edit(text)
  PROVE  TextInv'
<1> DEFINE edited == [editor EXCEPT !.text = text, !.composing = FALSE]
<1>1. /\ edits' = edits + 1 /\ UNCHANGED <<script, updates, values, overwrote>>
      /\ editor' = IF editor.multiline THEN edited ELSE NativeChanged(edited)
      /\ events' = IF editor.multiline THEN events ELSE Emitted(edited)
  BY DEF Edit
<1>2. InStep(editor, events, updates, script) /\ editor \in Editor
  BY DEF TextInv, InStep
<1>3. /\ edited \in Editor /\ edited.observed = editor.observed
      /\ edited.count = editor.count /\ edited.deferred = editor.deferred
  BY <1>2 DEF Editor, TextShown
<1> HIDE DEF edited
<1>4. InStep(edited, events, updates, script)
  BY <1>2, <1>3, EditorIsFree
<1>5. InStep(editor', events', updates', script')
  BY <1>1, <1>4, NewsAreCounted
<1> QED BY <1>1, <1>5 DEF TextInv

\* An input method starts or stops composing.
LEMMA ComposeStep ==
  ASSUME TextInv, Compose \/ StopComposing
  PROVE  TextInv'
<1>1. PICK composing \in BOOLEAN :
        /\ editor' = [editor EXCEPT !.composing = composing]
        /\ UNCHANGED <<events, script, updates, edits, values, overwrote>>
  BY DEF Compose, StopComposing
<1>2. InStep(editor, events, updates, script) /\ editor \in Editor
  BY DEF TextInv, InStep
<1>3. /\ editor' \in Editor /\ editor'.observed = editor.observed
      /\ editor'.count = editor.count /\ editor'.deferred = editor.deferred
  BY <1>1, <1>2 DEF Editor
<1>4. InStep(editor', events, updates, script)
  BY <1>2, <1>3, EditorIsFree
<1> QED BY <1>1, <1>4 DEF TextInv

\* A TextEdit tells of its change.
LEMMA TextChangedStep ==
  ASSUME TextInv, TextChanged
  PROVE  TextInv'
BY NewsAreCounted DEF TextInv, TextChanged

\* reconcile() of an editor that is in step with what is still to come, and with a value that
\* leaves it so.
LEMMA ReconcileStep ==
  ASSUME TextInv, NEW e, NEW update, Reconcile(e, update),
         NEW coming, InStep(e, events, coming, script),
         NEW rest, InStep(Replaced(NativeChanged(e), update), Emitted(e), rest, script),
         updates' = rest, UNCHANGED <<script, edits, values>>
  PROVE  TextInv'
<1>1. InStep(NativeChanged(e), Emitted(e), coming, script)
  BY NewsAreCounted
<1>2. ~Overwrites(NativeChanged(e), update)
  BY <1>1, NewsAreCounted, NothingIsOverwritten DEF InStep
<1> QED BY <1>2 DEF Reconcile, TextInv

\* The next frame looks again at the value that came during a composition.
LEMMA ProcessDeferredStep ==
  ASSUME TextInv, ProcessDeferred
  PROVE  TextInv'
<1> DEFINE e == [editor EXCEPT !.deferred = Nothing]
           n == NativeChanged(e)
           update == editor.deferred
<1>1. /\ ~editor.composing /\ update # Nothing /\ Reconcile(e, update)
      /\ UNCHANGED <<script, updates, edits, values>>
  BY DEF ProcessDeferred
<1>2. /\ InStep(editor, events, updates, script) /\ editor \in Editor /\ script \in Script
      /\ events \in Seq(TextEvent) /\ updates \in Seq(TextUpdate)
      /\ Counted(editor, events, script) /\ AcksAreOld(editor, updates, script)
      /\ Believed(editor, updates, script)
  BY DEF TextInv, InStep
<1>3. update \in TextValue /\ update.ack <= script.count
  BY <1>1, <1>2 DEF AcksAreOld, Editor
<1>4. /\ e \in Editor /\ e.observed = editor.observed /\ e.count = editor.count
      /\ e.deferred = Nothing /\ e.text = editor.text /\ ~e.composing
  BY <1>1, <1>2 DEF Editor
<1>5. n = NativeChanged(e) /\ HasNews(e) = HasNews(editor)
  BY <1>4, <1>1 DEF HasNews
<1>6. CASE HasNews(editor)
  <2>1. NativeChanged(e) = NativeChanged(editor) /\ Emitted(e) = Emitted(editor)
    BY <1>2, <1>4, <1>5, <1>6 DEF NativeChanged, Emitted, Editor
  <2>2. InStep(n, Emitted(e), updates, script)
    BY <1>2, <2>1, NewsAreCounted
  <2>3. n.count = editor.count + 1
    BY <1>2, <1>6, <2>1 DEF NativeChanged, Editor
  <2>4. editor.count >= script.count /\ editor.count \in Nat /\ script.count \in Nat
    BY <1>2 DEF Counted, Editor, Script
  <2>5. update.ack # n.count
    BY <1>3, <2>3, <2>4 DEF TextValue
  <2>6. Replaced(n, update) = n
    BY <2>5, StaleIsDropped
  <2>7. n \in Editor /\ n.text = n.observed
    BY <1>1, <2>1, <2>2, <1>2, NewsAreCounted DEF InStep
  <2>8. ~Overwrites(n, update)
    BY <2>7, NothingIsOverwritten
  <2> QED BY <1>1, <2>2, <2>6, <2>8 DEF Reconcile, TextInv
<1>7. CASE ~HasNews(editor)
  <2>1. n = e /\ Emitted(e) = events /\ e.text = e.observed
    BY <1>1, <1>4, <1>5, <1>7 DEF NativeChanged, Emitted, HasNews
  <2> DEFINE m == Replaced(e, update)
  <2>2. /\ m \in Editor /\ m.count = e.count /\ m.deferred = Nothing
        /\ m.observed = IF update.ack = e.count THEN update.text ELSE e.observed
    <3>1. CASE update.ack = e.count
      BY <1>3, <1>4, <3>1, ReplacedFields
    <3>2. CASE update.ack # e.count
      <4>1. m = e
        BY <3>2, StaleIsDropped
      <4> QED BY <1>4, <3>2, <4>1
    <3> QED BY <3>1, <3>2
  <2> HIDE DEF m
  <2>3. Counted(m, events, script)
    BY <1>2, <1>3, <1>4, <2>2 DEF Counted, Script, Editor, TextValue
  <2>4. AcksAreOld(m, updates, script)
    BY <1>2, <2>2 DEF AcksAreOld
  <2>5. Settles(editor, script) => Settles(m, script)
    BY <1>1, <1>4, <2>2 DEF Settles
  <2>6. CommandComes(editor, updates, script) => CommandComes(m, updates, script)
    BY <1>4, <2>2 DEF CommandComes, Due, Believable
  <2>7. Believed(m, updates, script)
    BY <1>2, <1>4, <2>2, <2>5, <2>6 DEF Believed, Believable
  <2>8. ~Overwrites(e, update)
    BY <1>4, <2>1, NothingIsOverwritten
  <2> QED BY <1>1, <1>2, <2>1, <2>2, <2>3, <2>4, <2>7, <2>8 DEF Reconcile, TextInv, InStep, m
<1> QED BY <1>6, <1>7

\* New props: their text is looked at only if it differs from that of the old ones.
LEMMA UpdatePropsStep ==
  ASSUME TextInv, UpdateProps
  PROVE  TextInv'
<1> DEFINE update == Head(updates)
           typed == [ack |-> update.ack, text |-> update.text]
           e == [editor EXCEPT !.prop = update.text]
<1>1. /\ updates # <<>> /\ update.is = "props" /\ updates' = Tail(updates)
      /\ UNCHANGED <<script, edits, values>>
      /\ IF update.text # editor.prop
            THEN Reconcile(e, [x \in DOMAIN Nothing |-> update[x]])
            ELSE editor' = e /\ UNCHANGED <<events, overwrote>>
  BY DEF UpdateProps
<1>2. /\ InStep(editor, events, updates, script) /\ editor \in Editor
      /\ updates \in Seq(TextUpdate) /\ update \in TextUpdate
  BY <1>1, TailOfUpdates DEF TextInv, InStep
<1>3. /\ e \in Editor /\ e.observed = editor.observed /\ e.count = editor.count
      /\ e.deferred = editor.deferred
  BY <1>2 DEF Editor, TextUpdate
<1>4. [x \in DOMAIN Nothing |-> update[x]] = typed
  BY <1>2, ValueOf
<1> HIDE DEF e
<1>5. InStep(e, events, updates, script)
  BY <1>2, <1>3, EditorIsFree
<1>6. CASE update.text # editor.prop
  <2>1. InStep(NativeChanged(e), Emitted(e), updates, script)
    BY <1>5, NewsAreCounted
  <2>2. InStep(Replaced(NativeChanged(e), typed), Emitted(e), Tail(updates), script)
    BY <1>1, <2>1, UpdateIsTaken
  <2>3. Reconcile(e, typed)
    BY <1>1, <1>4, <1>6
  <2> QED BY <1>1, <1>5, <2>2, <2>3, ReconcileStep
<1>7. CASE update.text = editor.prop
  <2>1. InStep(e, events, Tail(updates), script)
    BY <1>1, <1>5, UpdatePasses
  <2> QED BY <1>1, <1>7, <2>1 DEF TextInv
<1> QED BY <1>6, <1>7

\* The command always looks.
LEMMA SetTextStep ==
  ASSUME TextInv, SetTextAndSelection
  PROVE  TextInv'
<1> DEFINE update == Head(updates)
           typed == [ack |-> update.ack, text |-> update.text]
<1>1. /\ updates # <<>> /\ updates' = Tail(updates)
      /\ UNCHANGED <<script, edits, values>>
      /\ Reconcile(editor, [x \in DOMAIN Nothing |-> update[x]])
  BY DEF SetTextAndSelection
<1>2. /\ InStep(editor, events, updates, script)
      /\ updates \in Seq(TextUpdate) /\ update \in TextUpdate
  BY <1>1, TailOfUpdates DEF TextInv, InStep
<1>3. Reconcile(editor, typed)
  BY <1>1, <1>2, ValueOf
<1>4. InStep(NativeChanged(editor), Emitted(editor), updates, script)
  BY <1>2, NewsAreCounted
<1>5. InStep(Replaced(NativeChanged(editor), typed), Emitted(editor), Tail(updates), script)
  BY <1>1, <1>4, UpdateIsTaken
<1> QED BY <1>1, <1>2, <1>3, <1>5, ReconcileStep

\* The game's code sets a value, which no commit has yet.
LEMMA SetValueStep ==
  ASSUME TextInv, NEW text \in Texts, SetValue(text)
  PROVE  TextInv'
<1>1. /\ values' = values + 1 /\ UNCHANGED <<editor, events, updates, edits, overwrote>>
      /\ script' = [script EXCEPT !.value = text, !.dirty = TRUE]
  BY DEF SetValue
<1>2. InStep(editor, events, updates, script) /\ script \in Script
  BY DEF TextInv, InStep
<1>3. /\ script' \in Script /\ script'.last = script.last /\ script'.count = script.count
      /\ script'.dirty
  BY <1>1, <1>2 DEF Script, TextShown
<1>4. InStep(editor, events, updates, script')
  BY <1>2, <1>3 DEF InStep, Counted, AcksAreOld, Believed, CommandComes, Settles, Due, Believable
<1> QED BY <1>1, <1>3, <1>4 DEF TextInv

\* JavaScript hears of a change: after the last one it believes what the editor shows, and
\* whatever is on its way to the editor is stale.
LEMMA OnChangeStep ==
  ASSUME TextInv, NEW text \in Texts, OnChange(text)
  PROVE  TextInv'
<1> DEFINE event == Head(events)
<1>1. /\ events # <<>> /\ events' = Tail(events)
      /\ script' = [value |-> text, last |-> event.text, count |-> event.count, dirty |-> TRUE]
      /\ UNCHANGED <<editor, updates, edits, values, overwrote>>
  BY DEF OnChange
<1>2. /\ editor \in Editor /\ script \in Script
      /\ events \in Seq(TextEvent) /\ updates \in Seq(TextUpdate)
      /\ Counted(editor, events, script) /\ AcksAreOld(editor, updates, script)
  BY DEF TextInv, InStep
<1>3. /\ event = events[1] /\ event \in TextEvent /\ Tail(events) \in Seq(TextEvent)
      /\ Len(events) \in Nat /\ Len(events) >= 1 /\ Len(Tail(events)) = Len(events) - 1
      /\ \A i \in 1..Len(Tail(events)) : Tail(events)[i] = events[i + 1]
  BY <1>1, <1>2
<1> HIDE DEF event
<1>4. script' \in Script /\ script'.count = script.count + 1 /\ script'.last = event.text
  BY <1>1, <1>2, <1>3 DEF Script, TextEvent, TextShown, Counted
<1>5. Counted(editor, events', script')
  <2>1. editor.count = script'.count + Len(events')
    BY <1>1, <1>2, <1>3, <1>4 DEF Counted, Script, Editor
  <2>2. ASSUME NEW i \in 1..Len(events') PROVE events'[i].count = script'.count + i
    <3>1. events'[i] = events[i + 1] /\ i + 1 \in 1..Len(events)
      BY <1>1, <1>3
    <3> QED BY <1>2, <1>4, <3>1 DEF Counted, Script
  <2>3. events' # <<>> => events'[Len(events')].text = editor.observed
    <3> SUFFICES ASSUME events' # <<>> PROVE events'[Len(events')].text = editor.observed
      OBVIOUS
    <3>1. Len(events') \in 1..Len(events')
      BY <1>1, <1>3
    <3> QED BY <1>1, <1>2, <1>3, <3>1 DEF Counted
  <2> QED BY <2>1, <2>2, <2>3 DEF Counted
<1>6. AcksAreOld(editor, updates, script')
  <2>1. ASSUME NEW i \in 1..Len(updates) PROVE updates[i].ack <= script'.count
    <3>1. updates[i] \in TextUpdate
      BY <1>2
    <3> QED BY <1>2, <1>4, <3>1 DEF AcksAreOld, TextUpdate, Script
  <2>2. editor.deferred # Nothing => editor.deferred.ack <= script'.count
    BY <1>2, <1>4 DEF AcksAreOld, Editor, TextValue, Script
  <2> QED BY <2>1, <2>2 DEF AcksAreOld
<1>7. ASSUME editor.count = script'.count PROVE Settles(editor, script')
  <2>1. Len(events) = 1 /\ event.text = editor.observed
    BY <1>1, <1>2, <1>3, <1>4, <1>7 DEF Counted, Script, Editor
  <2>2. editor.deferred # Nothing => editor.deferred.ack # editor.count
    BY <1>2, <1>4, <1>7 DEF AcksAreOld, Editor, TextValue, Script
  <2> QED BY <1>4, <2>1, <2>2 DEF Settles
<1>8. ASSUME editor.count = script'.count, NEW i \in 1..Len(updates)
      PROVE  Believable(editor, updates[i], script')
  <2>1. updates[i].ack \in Nat /\ updates[i].ack <= script.count
    <3>1. updates[i] \in TextUpdate
      BY <1>2
    <3> QED BY <1>2, <3>1 DEF AcksAreOld, TextUpdate
  <2> QED BY <1>2, <1>4, <1>8, <2>1 DEF Believable, Script
<1>9. Believed(editor, updates, script')
  BY <1>7, <1>8 DEF Believed
<1> QED BY <1>1, <1>2, <1>3, <1>4, <1>5, <1>6, <1>9 DEF TextInv, InStep

\* A commit sends the value, and a command with it if JavaScript believes the editor shows
\* another text.
LEMMA RenderStep ==
  ASSUME TextInv, Render
  PROVE  TextInv'
<1> DEFINE command == script.last # script.value
           tail == IF command THEN <<Update("command")>> ELSE <<>>
           n == Len(updates)
<1>1. /\ updates' = updates \o <<Update("props")>> \o tail
      /\ script' = [script EXCEPT !.last = script.value, !.dirty = FALSE]
      /\ UNCHANGED <<editor, events, edits, values, overwrote>>
  BY DEF Render
<1>2. /\ editor \in Editor /\ script \in Script
      /\ events \in Seq(TextEvent) /\ updates \in Seq(TextUpdate) /\ n \in Nat
      /\ Counted(editor, events, script) /\ AcksAreOld(editor, updates, script)
      /\ Believed(editor, updates, script)
  BY DEF TextInv, InStep
<1>3. /\ script' \in Script /\ script'.last = script.value /\ script'.value = script.value
      /\ script'.count = script.count
  BY <1>1, <1>2 DEF Script
<1>4. \A is \in {"props", "command"} :
        /\ Update(is) \in TextUpdate /\ Update(is).is = is /\ Update(is).ack = script.count
        /\ Update(is).text = script'.last
  BY <1>2, <1>3 DEF Update, TextUpdate, Script
<1>5. /\ updates' \in Seq(TextUpdate) /\ Len(updates') = IF command THEN n + 2 ELSE n + 1
      /\ \A i \in 1..n : updates'[i] = updates[i]
      /\ updates'[n + 1] = Update("props")
      /\ command => updates'[n + 2] = Update("command")
  BY <1>1, <1>2, <1>4
<1> HIDE DEF command, tail, n
<1>6. \A i \in 1..Len(updates') : i \in 1..n \/ i = n + 1 \/ (command /\ i = n + 2)
  BY <1>2, <1>5
<1>7. AcksAreOld(editor, updates', script')
  <2>1. \A i \in 1..Len(updates') : updates'[i].ack <= script'.count
    BY <1>2, <1>3, <1>4, <1>5, <1>6 DEF AcksAreOld, Script, n
  <2> QED BY <1>2, <1>3, <2>1 DEF AcksAreOld
<1>8. CASE command
  <2>1. n + 2 \in 1..Len(updates') /\ \A i \in (n + 2)..Len(updates') : i = n + 2
    BY <1>2, <1>5, <1>8
  <2>2. editor.count = script'.count => CommandComes(editor, updates', script')
    BY <1>3, <1>4, <1>5, <1>8, <2>1 DEF CommandComes, Due, Believable
  <2> QED BY <1>1, <1>2, <1>3, <1>5, <1>7, <2>2 DEF TextInv, InStep, Counted, Believed
<1>9. CASE ~command
  <2>1. script'.last = script.last
    BY <1>3, <1>9 DEF command
  <2>2. \A i \in (n + 1)..Len(updates') : Believable(editor, updates'[i], script')
    BY <1>2, <1>4, <1>5, <1>6, <1>9 DEF Believable
  <2>3. CommandComes(editor, updates, script) => CommandComes(editor, updates', script')
    <3> SUFFICES ASSUME CommandComes(editor, updates, script)
                 PROVE  CommandComes(editor, updates', script')
      OBVIOUS
    <3>1. PICK k \in 1..n : /\ updates[k].is = "command" /\ Due(editor, updates[k], script)
                            /\ \A i \in k..n : Believable(editor, updates[i], script)
      BY DEF CommandComes, n
    <3>2. k \in 1..Len(updates') /\ updates'[k] = updates[k]
      BY <1>2, <1>5, <1>9
    <3>3. \A i \in k..Len(updates') : i \in (n + 1)..Len(updates') \/ (i \in 1..n /\ i \in k..n)
      BY <1>2, <1>5, <1>9
    <3>4. \A i \in k..Len(updates') : Believable(editor, updates'[i], script')
      BY <1>5, <2>1, <2>2, <3>1, <3>3 DEF Believable
    <3> QED BY <2>1, <3>1, <3>2, <3>4 DEF CommandComes, Due
  <2>4. ASSUME Settles(editor, script),
               \A i \in 1..n : Believable(editor, updates[i], script)
        PROVE  /\ Settles(editor, script')
               /\ \A i \in 1..Len(updates') : Believable(editor, updates'[i], script')
    <3>1. \A i \in 1..Len(updates') : i \in 1..n \/ i \in (n + 1)..Len(updates')
      BY <1>2, <1>5, <1>9
    <3> QED BY <1>5, <2>1, <2>2, <2>4, <3>1 DEF Settles, Believable
  <2>5. Believed(editor, updates', script')
    BY <1>2, <1>3, <2>3, <2>4 DEF Believed, n
  <2> QED BY <1>1, <1>2, <1>3, <1>5, <1>7, <2>5 DEF TextInv, InStep, Counted
<1> QED BY <1>8, <1>9

\* Every step keeps the invariant.
LEMMA TextSteps == TextInv /\ [TextNext]_textVars => TextInv'
<1> SUFFICES ASSUME TextInv, [TextNext]_textVars PROVE TextInv'
  OBVIOUS
<1>1. CASE UNCHANGED textVars
  BY <1>1 DEF textVars, TextInv
<1>2. CASE TextNext
  BY <1>2, EditStep, SetValueStep, OnChangeStep, ComposeStep, TextChangedStep,
     ProcessDeferredStep, UpdatePropsStep, SetTextStep, RenderStep DEF TextNext
<1> QED BY <1>1, <1>2

\* What the user typed is never replaced by a value from before, and once all has arrived the
\* input shows the value that JavaScript set (event_count, reconcile()).
THEOREM InputShowsTheValueAlways == TextSpec => []InputShowsTheValue
<1>1. TextInv => InputShowsTheValue
  <2> SUFFICES ASSUME TextInv, Settled PROVE editor.text = script.value
    BY DEF TextInv, InputShowsTheValue
  <2>1. /\ InStep(editor, events, updates, script) /\ script.last = script.value
        /\ events = <<>> /\ updates = <<>> /\ editor.deferred = Nothing
        /\ editor.text = editor.observed
    BY DEF TextInv, Settled, HasNews
  <2>2. editor.count = script.count
    BY <2>1 DEF InStep, Counted, Editor, Script
  <2> QED BY <2>1, <2>2 DEF InStep, Believed, CommandComes, Settles
<1> QED BY <1>1, TextStarts, TextSteps, PTL DEF TextSpec

-----------------------------------------------------------------------------
(***************************************************************************)
(* Theorems of InputRouter, for any views, fingers and number of touches.  *)
(*                                                                         *)
(* What JavaScript was told is compared with what is down pointer by       *)
(* pointer: the hover, the mouse and each finger.  The comparison survives *)
(* a press only if nothing of that pointer is down yet, and a release only *)
(* if something is, so the invariant ties the buttons and fingers Godot    *)
(* holds to the router's targets (MouseIsTracked, FingersAreTracked).      *)
(***************************************************************************)

PointerTargets == Tags \cup {NoTarget}
Buttons == {"left", "right"}

RouterTypeOK ==
  /\ godot \in [focus : PointerTargets, held : SUBSET Buttons, fingers : SUBSET Fingers,
                check : BOOLEAN, popup : BOOLEAN]
  /\ router \in [hover : PointerTargets, pressed : PointerTargets, active : PointerTargets, buttons : SUBSET Buttons,
                 touches : [Fingers -> PointerTargets], primary : Fingers \cup {NoTarget}]
  /\ lost \subseteq {"mouse"} \cup Fingers

\* The router has a mouse target exactly while Godot holds the left button for it, but for
\* a popup that has taken the button and that the router has yet to find.
MouseIsTracked ==
  /\ router.active # NoTarget => "left" \in router.buttons
  /\ godot.popup => godot.held = {}
  /\ "mouse" \notin lost =>
       /\ "left" \in godot.held =>
            router.active # NoTarget /\ godot.focus = ViewOf(router.active)
       /\ router.active # NoTarget /\ ~godot.popup => "left" \in godot.held

\* A finger that Godot does not hold has no target.
FingersAreTracked ==
  \A f \in Fingers : f \notin godot.fingers /\ f \notin lost => router.touches[f] = NoTarget

\* TouchesEndOnce, entry by entry.
Agrees == \A e : e.pointer \notin lost => (e \in told <=> e \in Down(router))

RouterInv == RouterTypeOK /\ MouseIsTracked /\ FingersAreTracked /\ ~misled /\ Agrees

USE RouterViews

-----------------------------------------------------------------------------
(* What is down. *)

\* What is down is over a view, the mouse's touch or a finger's contact.
LEMMA InDown ==
  ASSUME NEW r, NEW e
  PROVE  e \in Down(r) <=> \/ e \in Over(r) \/ e \in MouseTouch(r)
                           \/ \E f \in Fingers : e \in Contact(r, f)
BY DEF Down

\* Each has its pointer.
LEMMA Pointers ==
  ASSUME NEW r
  PROVE  /\ \A e \in Over(r) : e.pointer = "hover" /\ e.what = "over"
         /\ \A e \in MouseTouch(r) : e.pointer = "mouse"
         /\ \A f \in Fingers : \A e \in Contact(r, f) : e.pointer = f
BY DEF Over, MouseTouch, Contact, Touch, Entry

\* Of one pointer, what is down depends on the fields for it.
LEMMA DownOf ==
  ASSUME NEW r, NEW q
  PROVE  /\ r.hover = q.hover => Over(r) = Over(q)
         /\ r.active = q.active => MouseTouch(r) = MouseTouch(q)
         /\ \A f \in Fingers :
              r.touches[f] = q.touches[f] /\ (f = r.primary <=> f = q.primary)
                => Contact(r, f) = Contact(q, f)
         /\ r.hover = NoTarget => Over(r) = {}
         /\ r.active = NoTarget => MouseTouch(r) = {}
         /\ \A f \in Fingers : r.touches[f] = NoTarget => Contact(r, f) = {}
BY DEF Over, MouseTouch, Contact, Touch, Entry, Tags, NoTarget

\* An event keeps told and down in step if what it ends and moves is down, what it starts
\* is not, and the router's fields change accordingly.
LEMMA TellStep ==
  ASSUME Agrees, ~misled, NEW starts, NEW moves, NEW ends, Tell(starts, moves, ends),
         lost' = lost,
         \A e \in moves \cup ends : e.pointer \in lost \/ e \in Down(router),
         \A s \in starts, t \in Down(router) \ ends : ~Same(s, t) \/ s.pointer \in lost,
         \A e : e.pointer \notin lost =>
           (e \in Down(router') <=> (e \in Down(router) /\ e \notin ends) \/ e \in starts)
  PROVE  ~misled' /\ Agrees'
<1>1. told' = (told \ ends) \cup starts /\ misled' = (misled \/ ~Fits(starts, moves, ends))
  BY DEF Tell
<1>2. Fits(starts, moves, ends)
  <2>1. \A e \in moves \cup ends : e.pointer \in lost \/ e \in told
    BY DEF Agrees
  <2>2. ASSUME NEW s \in starts, NEW t \in told \ ends
        PROVE  ~Same(s, t) \/ s.pointer \in lost
    BY DEF Agrees, Same
  <2> QED BY <2>1, <2>2 DEF Fits
<1>3. Agrees'
  BY <1>1 DEF Agrees
<1> QED BY <1>1, <1>2, <1>3
-----------------------------------------------------------------------------
(* The mouse. *)

\* A target of Godot's is a tag, and its view is no other tag but the paragraph.
LEMMA TargetTypes ==
  /\ \A tag \in Touchable : tag \in Tags /\ tag \in PointerTargets /\ tag # NoTarget
  /\ \A tag \in Tags : ViewOf(tag) \in Tags /\ ViewOf(tag) # NoTarget
  /\ NoTarget \in PointerTargets
BY DEF Touchable, PointerTargets, Tags, ViewOf, NoTarget

\* The hover moves: what it leaves ends, what it reaches starts, and the touch goes along.
LEMMA MotionStep ==
  ASSUME RouterInv, NEW target \in PointerTargets, MouseMotion(target)
  PROVE  RouterInv'
<1> USE DEF RouterInv
<1>1. /\ router' = [router EXCEPT !.hover = target]
      /\ UNCHANGED <<godot, lost>>
      /\ Tell(Over(router') \ Over(router), MouseTouch(router), Over(router) \ Over(router'))
  BY DEF MouseMotion
<1>2. RouterTypeOK'
  BY <1>1 DEF RouterTypeOK
<1>3. MouseIsTracked' /\ FingersAreTracked'
  BY <1>1 DEF RouterTypeOK, MouseIsTracked, FingersAreTracked
<1>4. /\ MouseTouch(router') = MouseTouch(router)
      /\ \A f \in Fingers : Contact(router', f) = Contact(router, f)
  BY <1>1, DownOf DEF RouterTypeOK
<1>5. \A s \in Over(router') \ Over(router), t \in Down(router) \ (Over(router) \ Over(router')) :
        ~Same(s, t)
  <2> SUFFICES ASSUME NEW s \in Over(router'), s \notin Over(router),
                      NEW t \in Down(router), ~(t \in Over(router) /\ t \notin Over(router')),
                      Same(s, t)
               PROVE  FALSE
    OBVIOUS
  <2>1. t.pointer = "hover"
    BY Pointers DEF Same
  <2>2. t \in Over(router) /\ t \in Over(router')
    BY <2>1, InDown, Pointers
  <2> QED BY <2>2 DEF Over, Entry
<1>6. \A e : e \in Down(router') <=>
               (e \in Down(router) /\ e \notin Over(router) \ Over(router'))
               \/ e \in Over(router') \ Over(router)
  <2> SUFFICES ASSUME NEW e
               PROVE e \in Down(router') <=>
                       (e \in Down(router) /\ e \notin Over(router) \ Over(router'))
                       \/ e \in Over(router') \ Over(router)
    OBVIOUS
  <2>1. e \in Over(router) => e \notin MouseTouch(router)
                              /\ \A f \in Fingers : e \notin Contact(router, f)
    BY Pointers
  <2> QED BY <1>4, <2>1, InDown
<1>7. \A e \in MouseTouch(router) \cup (Over(router) \ Over(router')) : e \in Down(router)
  BY InDown
<1>8. ~misled' /\ Agrees'
  BY <1>1, <1>5, <1>6, <1>7, TellStep
<1> QED BY <1>2, <1>3, <1>8

\* Godot gives a press to a control that holds none yet, or holds another button.
LEMMA PressStep ==
  ASSUME RouterInv, NEW button \in Buttons, NEW target \in Touchable, MousePress(button, target)
  PROVE  RouterInv'
<1> USE DEF RouterInv
<1> DEFINE starts == IF button = "left" THEN MouseTouch(router') ELSE {}
<1>1. /\ button \notin godot.held /\ ~godot.popup /\ Focusable(target)
      /\ godot' = [godot EXCEPT !.focus = ViewOf(target),
                                !.held = godot.held \cup {button}, !.check = TRUE]
      /\ router' = [router EXCEPT !.buttons = router.buttons \cup {button}, !.pressed = target,
                                  !.active = IF button = "left" THEN target ELSE router.active]
      /\ Tell(starts, {}, {}) /\ UNCHANGED lost
  BY DEF MousePress
<1>2. /\ ViewOf(target) \in PointerTargets /\ target \in PointerTargets /\ target # NoTarget
  BY TargetTypes DEF PointerTargets
<1>3. RouterTypeOK'
  BY <1>1, <1>2 DEF RouterTypeOK, Buttons
<1>4. /\ godot'.focus = ViewOf(target) /\ godot'.held = godot.held \cup {button}
      /\ godot'.popup = godot.popup /\ godot'.fingers = godot.fingers
      /\ router'.active = (IF button = "left" THEN target ELSE router.active)
      /\ router'.buttons = router.buttons \cup {button}
      /\ router'.touches = router.touches /\ router'.hover = router.hover
      /\ router'.primary = router.primary
  BY <1>1 DEF RouterTypeOK
<1>5. "mouse" \notin lost /\ button = "left" => router.active = NoTarget
  BY <1>1 DEF MouseIsTracked
<1>6. MouseIsTracked'
  <2>1. router'.active # NoTarget => "left" \in router'.buttons
    BY <1>4 DEF MouseIsTracked
  <2>2. ASSUME "mouse" \notin lost, "left" \in godot.held
        PROVE  router.active \in Tags /\ godot.focus = ViewOf(router.active)
               /\ ViewOf(target) = godot.focus
    <3>1. router.active \in Tags /\ godot.focus = ViewOf(router.active)
      BY <2>2 DEF MouseIsTracked, RouterTypeOK, PointerTargets
    <3> QED BY <1>1, <3>1, TargetTypes DEF Focusable
  <2> QED BY <1>1, <1>2, <1>4, <2>1, <2>2 DEF MouseIsTracked, Buttons
<1>7. FingersAreTracked'
  BY <1>1, <1>4 DEF FingersAreTracked
<1>8. /\ Over(router') = Over(router)
      /\ \A f \in Fingers : Contact(router', f) = Contact(router, f)
      /\ button # "left" => MouseTouch(router') = MouseTouch(router)
      /\ "mouse" \notin lost /\ button = "left" => MouseTouch(router) = {}
  BY <1>4, <1>5, DownOf
<1>9. \A e : e.pointer \notin lost =>
               (e \in Down(router') <=> (e \in Down(router) /\ e \notin {}) \/ e \in starts)
  BY <1>8, InDown, Pointers
<1>10. \A s \in starts, t \in Down(router) \ {} : ~Same(s, t) \/ s.pointer \in lost
  <2> SUFFICES ASSUME NEW s \in starts, NEW t \in Down(router), Same(s, t), s.pointer \notin lost
               PROVE  FALSE
    OBVIOUS
  <2>1. s.pointer = "mouse" /\ t.pointer = "mouse" /\ button = "left"
    BY Pointers DEF Same
  <2>2. t \in MouseTouch(router)
    BY <2>1, InDown, Pointers
  <2> QED BY <1>8, <2>1, <2>2
<1> HIDE DEF starts
<1>11. ~misled' /\ Agrees'
  BY <1>1, <1>9, <1>10, TellStep
<1> QED BY <1>3, <1>6, <1>7, <1>11

\* When the mouse's touch ends, and nothing else, told and down stay in step.
LEMMA MouseTouchEnds ==
  ASSUME RouterInv, Tell({}, {}, MouseTouch(router)), UNCHANGED lost,
         router'.active = NoTarget, router'.hover = router.hover,
         router'.touches = router.touches, router'.primary = router.primary
  PROVE  ~misled' /\ Agrees'
<1>1. /\ MouseTouch(router') = {} /\ Over(router') = Over(router)
      /\ \A f \in Fingers : Contact(router', f) = Contact(router, f)
  BY DownOf
<1>2. \A e \in MouseTouch(router) : e \in Down(router)
  BY InDown
<1>3. \A e : e \in Down(router') <=> (e \in Down(router) /\ e \notin MouseTouch(router)) \/ e \in {}
  BY <1>1, InDown, Pointers
<1> QED BY <1>2, <1>3, TellStep DEF RouterInv

\* Steps that leave what is down, and what was told, alone.
LEMMA NothingTold ==
  ASSUME RouterInv, UNCHANGED <<told, misled, lost>>, router'.hover = router.hover,
         router'.active = router.active, router'.touches = router.touches,
         router'.primary = router.primary
  PROVE  ~misled' /\ Agrees'
<1>1. /\ MouseTouch(router') = MouseTouch(router) /\ Over(router') = Over(router)
      /\ \A f \in Fingers : Contact(router', f) = Contact(router, f)
  BY DownOf
<1>2. Down(router') = Down(router)
  BY <1>1 DEF Down
<1> QED BY <1>2 DEF RouterInv, Agrees

\* The release of the left button ends the mouse's touch.
LEMMA ReleaseStep ==
  ASSUME RouterInv, NEW button \in Buttons, NEW target \in Touchable,
         MouseRelease(button, target)
  PROVE  RouterInv'
<1> USE DEF RouterInv
<1>1. /\ button \in godot.held
      /\ godot' = [godot EXCEPT !.held = godot.held \ {button},
                                !.focus = IF godot.held = {button} THEN NoTarget ELSE godot.focus]
      /\ router' = [router EXCEPT
           !.buttons = router.buttons \ {button},
           !.pressed = IF router.buttons \subseteq {button} THEN NoTarget ELSE router.pressed,
           !.active = IF button = "left" THEN NoTarget ELSE router.active]
      /\ UNCHANGED lost
  BY DEF MouseRelease
<1>2. RouterTypeOK'
  BY <1>1, TargetTypes DEF RouterTypeOK
<1>3. /\ godot'.focus = (IF godot.held = {button} THEN NoTarget ELSE godot.focus)
      /\ godot'.held = godot.held \ {button}
      /\ godot'.popup = godot.popup /\ godot'.fingers = godot.fingers
      /\ router'.active = (IF button = "left" THEN NoTarget ELSE router.active)
      /\ router'.buttons = router.buttons \ {button}
      /\ router'.touches = router.touches /\ router'.hover = router.hover
      /\ router'.primary = router.primary
  BY <1>1 DEF RouterTypeOK
<1>4. MouseIsTracked'
  <2>1. "left" \in godot'.held => button # "left" /\ godot'.focus = godot.focus
    BY <1>3 DEF Buttons
  <2>2. router'.active # NoTarget => button # "left" /\ router.active # NoTarget
    BY <1>3
  <2>3. ~godot.popup
    BY <1>1 DEF MouseIsTracked
  <2> QED BY <1>1, <1>3, <2>1, <2>2, <2>3 DEF MouseIsTracked
<1>5. FingersAreTracked'
  BY <1>1, <1>3 DEF FingersAreTracked
<1>6. CASE button # "left"
  <2>1. Tell({}, {}, {})
    BY <1>6 DEF MouseRelease
  <2>2. MouseTouch(router') = MouseTouch(router) /\ Over(router') = Over(router)
        /\ \A f \in Fingers : Contact(router', f) = Contact(router, f)
    BY <1>3, <1>6, DownOf
  <2>3. Down(router') = Down(router)
    BY <2>2 DEF Down
  <2>4. ~misled' /\ Agrees'
    BY <1>1, <2>1, <2>3, TellStep
  <2> QED BY <1>2, <1>4, <1>5, <2>4
<1>7. CASE button = "left" /\ router.active # NoTarget
  <2>1. Tell({}, {}, MouseTouch(router))
    BY <1>7 DEF MouseRelease, Ended, MouseTouch
  <2> QED BY <1>1, <1>2, <1>3, <1>4, <1>5, <1>7, <2>1, MouseTouchEnds
<1>8. CASE button = "left" /\ router.active = NoTarget
  <2> DEFINE ends == Touch("mouse", target)
  <2>1. Tell({}, {}, ends)
    BY <1>8 DEF MouseRelease, Ended
  <2>2. "mouse" \in lost
    BY <1>1, <1>8 DEF MouseIsTracked
  <2>3. \A e \in ends : e.pointer \in lost
    BY <2>2 DEF Touch, Entry
  <2>4. MouseTouch(router') = MouseTouch(router) /\ Over(router') = Over(router)
        /\ \A f \in Fingers : Contact(router', f) = Contact(router, f)
    BY <1>3, <1>8, DownOf
  <2>5. Down(router') = Down(router)
    BY <2>4 DEF Down
  <2> HIDE DEF ends
  <2>6. ~misled' /\ Agrees'
    BY <1>1, <2>1, <2>3, <2>5, TellStep
  <2> QED BY <1>2, <1>4, <1>5, <2>6
<1> QED BY <1>6, <1>7, <1>8

\* A drag takes the buttons, and the router gives up what they had started.
LEMMA DragStep ==
  ASSUME RouterInv, DragBegin
  PROVE  RouterInv'
<1> USE DEF RouterInv
<1>1. /\ godot' = [godot EXCEPT !.focus = NoTarget, !.held = {}] /\ UNCHANGED lost
      /\ IF router.buttons # {} THEN CancelMouse ELSE UNCHANGED <<router, told, misled>>
  BY DEF DragBegin
<1>2. /\ godot'.held = {} /\ godot'.fingers = godot.fingers /\ godot'.popup = godot.popup
      /\ godot' \in [focus : PointerTargets, held : SUBSET Buttons, fingers : SUBSET Fingers,
                     check : BOOLEAN, popup : BOOLEAN]
  BY <1>1, TargetTypes DEF RouterTypeOK
<1>3. CASE router.buttons = {}
  <2>1. router.active = NoTarget
    BY <1>3 DEF MouseIsTracked
  <2>2. RouterTypeOK' /\ MouseIsTracked' /\ FingersAreTracked'
    BY <1>1, <1>2, <1>3, <2>1 DEF RouterTypeOK, MouseIsTracked, FingersAreTracked
  <2> QED BY <1>1, <1>3, <2>2, NothingTold
<1>4. CASE router.buttons # {}
  <2>1. /\ router' = MouseCancelled(router) /\ Tell({}, {}, MouseTouch(router))
    BY <1>1, <1>4 DEF CancelMouse
  <2>2. /\ router'.active = NoTarget /\ router'.hover = router.hover
        /\ router'.touches = router.touches /\ router'.primary = router.primary
    BY <2>1 DEF MouseCancelled, RouterTypeOK
  <2>3. RouterTypeOK'
    BY <1>1, <1>2, <2>1, TargetTypes DEF MouseCancelled, RouterTypeOK
  <2>4. MouseIsTracked' /\ FingersAreTracked'
    BY <1>1, <1>2, <2>2 DEF MouseIsTracked, FingersAreTracked
  <2> QED BY <1>1, <2>1, <2>2, <2>3, <2>4, MouseTouchEnds
<1> QED BY <1>3, <1>4

\* A popup takes the buttons before the router knows.
LEMMA OpenPopupStep ==
  ASSUME RouterInv, OpenPopup
  PROVE  RouterInv'
<1>1. /\ godot' = [godot EXCEPT !.focus = NoTarget, !.held = {}, !.popup = TRUE]
      /\ UNCHANGED <<router, told, misled, lost>>
  BY DEF OpenPopup
<1>2. RouterTypeOK'
  BY <1>1, TargetTypes DEF RouterInv, RouterTypeOK
<1>3. godot'.held = {} /\ godot'.popup /\ godot'.fingers = godot.fingers
  BY <1>1 DEF RouterInv, RouterTypeOK
<1>4. MouseIsTracked' /\ FingersAreTracked'
  BY <1>1, <1>3 DEF RouterInv, MouseIsTracked, FingersAreTracked
<1> QED BY <1>1, <1>2, <1>4, NothingTold DEF RouterInv

\* The root's deferred look finds the popup, and the router gives up what is down.
LEMMA FindPopupStep ==
  ASSUME RouterInv, CancelMouseTakenByPopup
  PROVE  RouterInv'
<1> USE DEF RouterInv
<1>1. /\ godot' = [godot EXCEPT !.check = FALSE, !.popup = FALSE] /\ UNCHANGED lost
      /\ IF godot.popup /\ router.buttons # {} THEN CancelMouse
         ELSE UNCHANGED <<router, told, misled>>
  BY DEF CancelMouseTakenByPopup
<1>2. /\ godot'.held = godot.held /\ godot'.fingers = godot.fingers /\ ~godot'.popup
      /\ godot'.focus = godot.focus
      /\ godot' \in [focus : PointerTargets, held : SUBSET Buttons, fingers : SUBSET Fingers,
                     check : BOOLEAN, popup : BOOLEAN]
  BY <1>1 DEF RouterTypeOK
<1>3. CASE ~(godot.popup /\ router.buttons # {})
  <2>1. godot.popup => router.active = NoTarget
    BY <1>3 DEF MouseIsTracked
  <2>2. RouterTypeOK' /\ MouseIsTracked' /\ FingersAreTracked'
    BY <1>1, <1>2, <1>3, <2>1 DEF RouterTypeOK, MouseIsTracked, FingersAreTracked
  <2> QED BY <1>1, <1>3, <2>2, NothingTold
<1>4. CASE godot.popup /\ router.buttons # {}
  <2>1. /\ router' = MouseCancelled(router) /\ Tell({}, {}, MouseTouch(router))
    BY <1>1, <1>4 DEF CancelMouse
  <2>2. /\ router'.active = NoTarget /\ router'.hover = router.hover
        /\ router'.touches = router.touches /\ router'.primary = router.primary
    BY <2>1 DEF MouseCancelled, RouterTypeOK
  <2>3. RouterTypeOK'
    BY <1>1, <1>2, <2>1, TargetTypes DEF MouseCancelled, RouterTypeOK
  <2>4. godot'.held = {}
    BY <1>2, <1>4 DEF MouseIsTracked
  <2>5. MouseIsTracked' /\ FingersAreTracked'
    BY <1>1, <1>2, <2>2, <2>4 DEF MouseIsTracked, FingersAreTracked
  <2> QED BY <1>1, <2>1, <2>2, <2>3, <2>5, MouseTouchEnds
<1> QED BY <1>3, <1>4

\* Godot keeps a release for itself: the pointer is not compared any more.
LEMMA LoseStep ==
  ASSUME RouterInv, LoseMouse \/ \E f \in Fingers : LoseFinger(f)
  PROVE  RouterInv'
<1> USE DEF RouterInv
<1>1. UNCHANGED <<router, told, misled>> /\ lost \subseteq lost'
  BY DEF LoseMouse, LoseFinger
<1>2. ~misled' /\ Agrees'
  BY <1>1 DEF Agrees
<1>3. CASE LoseMouse
  <2>1. /\ godot' = [godot EXCEPT !.focus = NoTarget, !.held = {}]
        /\ lost' \subseteq lost \cup {"mouse"}
        /\ router.active # NoTarget => "mouse" \in lost'
    BY <1>3 DEF LoseMouse
  <2>2. RouterTypeOK'
    BY <1>1, <2>1, TargetTypes DEF RouterTypeOK
  <2>3. godot'.held = {} /\ godot'.fingers = godot.fingers
    BY <2>1 DEF RouterTypeOK
  <2>4. MouseIsTracked' /\ FingersAreTracked'
    BY <1>1, <2>1, <2>3 DEF MouseIsTracked, FingersAreTracked
  <2> QED BY <1>2, <2>2, <2>4
<1>4. ASSUME NEW f \in Fingers, LoseFinger(f) PROVE RouterInv'
  <2>1. /\ godot' = [godot EXCEPT !.fingers = godot.fingers \ {f}]
        /\ lost' \subseteq lost \cup {f}
        /\ router.touches[f] # NoTarget => f \in lost'
    BY <1>4 DEF LoseFinger
  <2>2. RouterTypeOK'
    BY <1>1, <2>1 DEF RouterTypeOK
  <2>3. /\ godot'.held = godot.held /\ godot'.focus = godot.focus /\ godot'.popup = godot.popup
        /\ godot'.fingers = godot.fingers \ {f}
    BY <2>1 DEF RouterTypeOK
  <2>4. MouseIsTracked' /\ FingersAreTracked'
    BY <1>1, <2>1, <2>3 DEF MouseIsTracked, FingersAreTracked
  <2> QED BY <1>2, <2>2, <2>4
<1> QED BY <1>3, <1>4
-----------------------------------------------------------------------------
(* Fingers. *)

\* A step of one finger leaves the rest of what is down alone.
LEMMA FingerStep ==
  ASSUME RouterInv, NEW f \in Fingers, router'.hover = router.hover,
         router'.active = router.active,
         \A g \in Fingers \ {f} : Contact(router', g) = Contact(router, g)
  PROVE  \A e : e \in Down(router') <=>
                  (e \in Down(router) /\ e \notin Contact(router, f)) \/ e \in Contact(router', f)
<1>1. Over(router') = Over(router) /\ MouseTouch(router') = MouseTouch(router)
  BY DownOf
<1>2. ASSUME NEW e PROVE e \in Contact(router, f) =>
        /\ e \notin Over(router) /\ e \notin MouseTouch(router)
        /\ \A g \in Fingers \ {f} : e \notin Contact(router, g)
  BY Pointers
<1> QED BY <1>1, <1>2, InDown

\* A finger that Godot did not hold has nothing down; the first one is primary.
LEMMA FingerDownStep ==
  ASSUME RouterInv, NEW f \in Fingers, NEW target \in Touchable, FingerDown(f, target)
  PROVE  RouterInv'
<1> USE DEF RouterInv
<1> DEFINE starts == Contact(router', f)
<1>1. /\ f \notin godot.fingers /\ godot' = [godot EXCEPT !.fingers = godot.fingers \cup {f}]
      /\ router' = [router EXCEPT
           !.touches[f] = target,
           !.primary = IF \A g \in Fingers : router.touches[g] = NoTarget THEN f
                       ELSE router.primary]
      /\ Tell(starts, {}, {}) /\ UNCHANGED lost
  BY DEF FingerDown
<1>2. RouterTypeOK'
  BY <1>1, TargetTypes DEF RouterTypeOK
<1>3. /\ godot'.focus = godot.focus /\ godot'.held = godot.held /\ godot'.popup = godot.popup
      /\ godot'.fingers = godot.fingers \cup {f}
      /\ router'.active = router.active /\ router'.buttons = router.buttons
      /\ router'.hover = router.hover
      /\ router'.primary = (IF \A g \in Fingers : router.touches[g] = NoTarget THEN f
                            ELSE router.primary)
      /\ \A g \in Fingers \ {f} : router'.touches[g] = router.touches[g]
  BY <1>1 DEF RouterTypeOK
<1>4. MouseIsTracked' /\ FingersAreTracked'
  BY <1>1, <1>3 DEF MouseIsTracked, FingersAreTracked
<1>5. ASSUME NEW g \in Fingers \ {f} PROVE Contact(router', g) = Contact(router, g)
  <2>1. CASE router.touches[g] = NoTarget
    BY <1>3, <2>1, DownOf
  <2>2. CASE router.touches[g] # NoTarget
    <3>1. router'.primary = router.primary
      BY <1>3, <2>2
    <3> QED BY <1>3, <3>1, DownOf
  <2> QED BY <2>1, <2>2
<1>6. f \notin lost => Contact(router, f) = {}
  BY <1>1, DownOf DEF FingersAreTracked
<1>7. \A e : e \in Down(router') <=>
               (e \in Down(router) /\ e \notin Contact(router, f)) \/ e \in Contact(router', f)
  BY <1>3, <1>5, FingerStep
<1>8. \A e : e.pointer \notin lost =>
        (e \in Down(router') <=>
           (e \in Down(router) /\ e \notin {}) \/ e \in starts)
  <2>1. ASSUME NEW e, e.pointer \notin lost PROVE e \notin Contact(router, f)
    BY <1>6, <2>1, Pointers
  <2> QED BY <1>7, <2>1
<1>9. ASSUME NEW s \in Contact(router', f), NEW t \in Down(router), Same(s, t)
      PROVE  s.pointer \in lost
  <2>1. s.pointer = f /\ t.pointer = f
    BY <1>9, Pointers DEF Same
  <2>2. t \in Contact(router, f)
    BY <2>1, InDown, Pointers
  <2> QED BY <1>6, <2>1, <2>2
<1>10. \A s \in starts, t \in Down(router) \ {} : ~Same(s, t) \/ s.pointer \in lost
  BY <1>9
<1> HIDE DEF starts
<1>11. ~misled' /\ Agrees'
  <2>1. \A e \in {} \cup {} : e.pointer \in lost \/ e \in Down(router)
    OBVIOUS
  <2>2. Tell(starts, {}, {}) /\ lost' = lost
    BY <1>1
  <2> QED BY <1>8, <1>10, <2>1, <2>2, TellStep
<1> QED BY <1>2, <1>4, <1>11

\* What a finger has down ends where it started, primary or not as it started.
LEMMA FingerUpStep ==
  ASSUME RouterInv, NEW f \in Fingers, FingerUp(f)
  PROVE  RouterInv'
<1> USE DEF RouterInv
<1>1. /\ godot' = [godot EXCEPT !.fingers = godot.fingers \ {f}]
      /\ router' = IF router.touches[f] = NoTarget THEN router
                   ELSE [router EXCEPT
                           !.touches[f] = NoTarget,
                           !.primary = IF router.primary = f THEN NoTarget ELSE router.primary]
      /\ Tell({}, {}, Contact(router, f)) /\ UNCHANGED lost
  BY DEF FingerUp
<1>2. RouterTypeOK'
  BY <1>1, TargetTypes DEF RouterTypeOK
<1>3. /\ godot'.focus = godot.focus /\ godot'.held = godot.held /\ godot'.popup = godot.popup
      /\ godot'.fingers = godot.fingers \ {f}
      /\ router'.active = router.active /\ router'.buttons = router.buttons
      /\ router'.hover = router.hover /\ router'.touches[f] = NoTarget
      /\ router'.primary = router.primary \/ (router.primary = f /\ router'.primary = NoTarget)
      /\ \A g \in Fingers \ {f} : router'.touches[g] = router.touches[g]
  BY <1>1 DEF RouterTypeOK
<1>4. MouseIsTracked' /\ FingersAreTracked'
  BY <1>1, <1>3 DEF MouseIsTracked, FingersAreTracked
<1>5. ASSUME NEW g \in Fingers \ {f} PROVE Contact(router', g) = Contact(router, g)
  <2>1. g = router'.primary <=> g = router.primary
    BY <1>3 DEF NoTarget
  <2> QED BY <1>3, <2>1, DownOf
<1>6. Contact(router', f) = {}
  BY <1>3, DownOf
<1>7. \A e : e \in Down(router') <=>
               (e \in Down(router) /\ e \notin Contact(router, f)) \/ e \in {}
  BY <1>3, <1>5, <1>6, FingerStep
<1>8. \A e \in Contact(router, f) : e \in Down(router)
  BY InDown
<1>9. ~misled' /\ Agrees'
  BY <1>1, <1>7, <1>8, TellStep
<1> QED BY <1>2, <1>4, <1>9

\* A drag moves what is down.
LEMMA FingerDragStep ==
  ASSUME RouterInv, NEW f \in Fingers, FingerDrag(f)
  PROVE  RouterInv'
<1> USE DEF RouterInv
<1>1. Tell({}, Contact(router, f), {}) /\ UNCHANGED <<godot, router, lost>>
  BY DEF FingerDrag
<1>2. \A e \in Contact(router, f) : e \in Down(router)
  BY InDown
<1>3. ~misled' /\ Agrees'
  BY <1>1, <1>2, TellStep
<1> QED BY <1>1, <1>3 DEF RouterTypeOK, MouseIsTracked, FingersAreTracked

-----------------------------------------------------------------------------
(* Views and surfaces. *)

\* What a destroyed view had down ends; what its nested text had is lost.
LEMMA DestroyStep ==
  ASSUME RouterInv, NEW view \in Plain \cup Owning, ViewDestroyed(view)
  PROVE  RouterInv'
<1> USE DEF RouterInv
<1> DEFINE inside == {tag \in Spans : ViewOf(tag) = view}
<1>1. /\ godot' = IF view # godot.focus THEN godot
                  ELSE [godot EXCEPT !.focus = NoTarget, !.held = {}]
      /\ router' = AfterDestroyed(router, view)
      /\ told' = told \ (ViewEnds(view) \cup Entry("over", "hover", view, TRUE))
      /\ misled' = (misled \/ ~Fits({}, {}, ViewEnds(view)))
      /\ lost' = lost \cup FingersOn(inside)
                 \cup (IF router.active \in inside THEN {"mouse"} ELSE {})
  BY DEF ViewDestroyed
<1>2. /\ view # NoTarget /\ view \in Tags /\ ViewOf(view) = view /\ view \notin Spans
  BY DEF Tags, NoTarget, ViewOf
<1>3. RouterTypeOK'
  <2>1. godot' \in [focus : PointerTargets, held : SUBSET Buttons, fingers : SUBSET Fingers,
                    check : BOOLEAN, popup : BOOLEAN]
    BY <1>1, TargetTypes DEF RouterTypeOK
  <2>2. router' \in [hover : PointerTargets, pressed : PointerTargets, active : PointerTargets,
                     buttons : SUBSET Buttons, touches : [Fingers -> PointerTargets],
                     primary : Fingers \cup {NoTarget}]
    <3> DEFINE one == IF router.active = view
                      THEN [router EXCEPT !.active = NoTarget, !.buttons = {}] ELSE router
               freed == [f \in Fingers |-> Unless(view, one.touches[f])]
               first == IF one.primary \in FingersOn({view}) THEN NoTarget ELSE one.primary
    <3>1. one \in [hover : PointerTargets, pressed : PointerTargets, active : PointerTargets,
                   buttons : SUBSET Buttons, touches : [Fingers -> PointerTargets],
                   primary : Fingers \cup {NoTarget}]
      BY TargetTypes DEF RouterTypeOK
    <3>2. router' = [one EXCEPT !.hover = Unless(view, one.hover),
                                !.pressed = Unless(view, one.pressed),
                                !.touches = freed, !.primary = first]
      BY <1>1 DEF AfterDestroyed
    <3> HIDE DEF one
    <3>3. freed \in [Fingers -> PointerTargets] /\ first \in Fingers \cup {NoTarget}
          /\ Unless(view, one.hover) \in PointerTargets /\ Unless(view, one.pressed) \in PointerTargets
      BY <3>1, TargetTypes DEF Unless
    <3> HIDE DEF freed, first
    <3> QED BY <3>1, <3>2, <3>3
  <2>3. lost' \subseteq {"mouse"} \cup Fingers
    BY <1>1 DEF RouterTypeOK, FingersOn
  <2> QED BY <2>1, <2>2, <2>3 DEF RouterTypeOK
<1>4. /\ router'.hover = Unless(view, router.hover)
      /\ router'.active = Unless(view, router.active)
      /\ router.active # view => router'.buttons = router.buttons
      /\ \A f \in Fingers : router'.touches[f] = Unless(view, router.touches[f])
      /\ router'.primary = (IF router.primary \in FingersOn({view}) THEN NoTarget
                            ELSE router.primary)
  BY <1>1 DEF RouterTypeOK, AfterDestroyed, Unless
<1>5. /\ godot'.popup = godot.popup /\ godot'.fingers = godot.fingers
      /\ view # godot.focus => godot'.focus = godot.focus /\ godot'.held = godot.held
      /\ view = godot.focus => godot'.held = {}
  BY <1>1 DEF RouterTypeOK
<1>6. /\ lost \subseteq lost'
      /\ "mouse" \notin lost' => "mouse" \notin lost /\ router.active \notin inside
  BY <1>1
<1>7. FingersAreTracked'
  BY <1>4, <1>5, <1>6 DEF FingersAreTracked, Unless
<1>8. MouseIsTracked'
  <2>1. router'.active # NoTarget => router'.active = router.active /\ router.active # view
    BY <1>4 DEF Unless
  <2>2. router.active # view => router'.active = router.active
    BY <1>4 DEF Unless
  <2>3. router'.active # NoTarget => "left" \in router'.buttons
    BY <1>4, <2>1 DEF MouseIsTracked
  <2>4. godot'.popup => godot'.held = {}
    BY <1>5 DEF MouseIsTracked
  <2>5. ASSUME "mouse" \notin lost', "left" \in godot'.held
        PROVE  router'.active # NoTarget /\ godot'.focus = ViewOf(router'.active)
    <3>1. view # godot.focus /\ "left" \in godot.held /\ godot'.focus = godot.focus
      BY <1>5, <2>5
    <3>2. router.active # NoTarget /\ godot.focus = ViewOf(router.active)
      BY <1>6, <2>5, <3>1 DEF MouseIsTracked
    <3>3. router.active # view
      BY <1>2, <3>1, <3>2
    <3> QED BY <2>2, <3>1, <3>2, <3>3
  <2>6. ASSUME "mouse" \notin lost', router'.active # NoTarget, ~godot'.popup
        PROVE  "left" \in godot'.held
    <3>1. router.active # NoTarget /\ router.active # view /\ router.active \in Tags
      BY <2>1, <2>6 DEF RouterTypeOK, PointerTargets
    <3>2. "left" \in godot.held /\ godot.focus = ViewOf(router.active)
      BY <1>5, <1>6, <2>6, <3>1 DEF MouseIsTracked
    <3>3. view # godot.focus
      <4>1. router.active \notin inside
        BY <1>6, <2>6
      <4> QED BY <3>1, <3>2, <4>1 DEF ViewOf
    <3> QED BY <1>5, <3>2, <3>3
  <2> QED BY <2>3, <2>4, <2>5, <2>6 DEF MouseIsTracked
<1>9. \A e : e \in ViewEnds(view) <=>
               \/ \E f \in Fingers : router.touches[f] = view /\ e \in Contact(router, f)
               \/ router.active = view /\ e \in MouseTouch(router)
  <2> SUFFICES ASSUME NEW e
               PROVE  e \in ViewEnds(view) <=>
                        \/ \E f \in Fingers : router.touches[f] = view /\ e \in Contact(router, f)
                        \/ router.active = view /\ e \in MouseTouch(router)
    OBVIOUS
  <2>1. e \in UNION {Contact(router, f) : f \in FingersOn({view})}
          <=> \E f \in FingersOn({view}) : e \in Contact(router, f)
    OBVIOUS
  <2>2. \A f : f \in FingersOn({view}) <=> f \in Fingers /\ router.touches[f] = view
    BY DEF FingersOn
  <2> DEFINE ofFingers == UNION {Contact(router, f) : f \in FingersOn({view})}
             ofMouse == IF router.active = view THEN MouseTouch(router) ELSE {}
  <2>3. ViewEnds(view) = ofFingers \cup ofMouse
    BY DEF ViewEnds
  <2>4. e \in ofMouse <=> router.active = view /\ e \in MouseTouch(router)
    OBVIOUS
  <2>5. e \in ofFingers <=> \E f \in FingersOn({view}) : e \in Contact(router, f)
    BY <2>1
  <2> HIDE DEF ofFingers, ofMouse
  <2> QED BY <2>2, <2>3, <2>4, <2>5
<1>10. Fits({}, {}, ViewEnds(view))
  <2>1. \A e \in ViewEnds(view) : e \in Down(router)
    BY <1>9, InDown
  <2> QED BY <2>1 DEF Fits, Agrees
<1>11. \A e : e \in Down(router') <=>
         e \in Down(router) /\ e \notin ViewEnds(view) \cup Entry("over", "hover", view, TRUE)
  <2> DEFINE over == Entry("over", "hover", view, TRUE)
  <2> SUFFICES ASSUME NEW e
               PROVE  e \in Down(router') <=>
                        e \in Down(router) /\ e \notin ViewEnds(view) /\ e \notin over
    OBVIOUS
  <2>1. e \in over <=> e = [what |-> "over", pointer |-> "hover", on |-> view, primary |-> TRUE]
    BY <1>2 DEF Entry
  <2>2. e \in Over(router') <=> e \in Over(router) /\ e \notin over
    BY <1>2, <1>4, <2>1 DEF Over, Entry, Unless
  <2>3. e \in MouseTouch(router')
          <=> e \in MouseTouch(router) /\ ~(router.active = view /\ e \in MouseTouch(router))
    <3>1. CASE router.active = view
      BY <1>4, <3>1, DownOf DEF Unless
    <3>2. CASE router.active # view
      BY <1>4, <3>2, DownOf DEF Unless
    <3> QED BY <3>1, <3>2
  <2>4. ASSUME NEW f \in Fingers
        PROVE  e \in Contact(router', f)
                 <=> e \in Contact(router, f) /\ router.touches[f] # view
    <3>1. CASE router.touches[f] = view
      BY <1>4, <3>1, DownOf DEF Unless
    <3>2. CASE router.touches[f] # view
      <4>1. router'.touches[f] = router.touches[f] /\ f \notin FingersOn({view})
        BY <1>4, <3>2 DEF Unless, FingersOn
      <4>2. f = router'.primary <=> f = router.primary
        BY <1>4, <4>1 DEF NoTarget
      <4> QED BY <3>2, <4>1, <4>2, DownOf
    <3> QED BY <3>1, <3>2
  <2>5. /\ e \in Over(router) => e.pointer = "hover"
        /\ e \in MouseTouch(router) => e.pointer = "mouse"
        /\ \A f \in Fingers : e \in Contact(router, f) => e.pointer = f
        /\ e \in over => e.pointer = "hover"
    <3>1. e \in over => e.pointer = "hover"
      BY DEF Entry
    <3> QED BY <3>1, Pointers
  <2> HIDE DEF over
  <2> QED BY <1>9, <2>2, <2>3, <2>4, <2>5, InDown
<1> HIDE DEF inside
<1>12. ~misled' /\ Agrees'
  <2>1. ~misled'
    BY <1>1, <1>10
  <2>2. Agrees'
    BY <1>1, <1>6, <1>11 DEF Agrees
  <2> QED BY <2>1, <2>2
<1> QED BY <1>3, <1>7, <1>8, <1>12

\* All that is down ends with the surface.
LEMMA DetachStep ==
  ASSUME RouterInv, DetachSurface
  PROVE  RouterInv'
<1> USE DEF RouterInv
<1>1. /\ godot' = [godot EXCEPT !.focus = NoTarget, !.held = {}]
      /\ router' = Calm
      /\ told' = {t \in told \ Down(router) : t.pointer \notin lost}
      /\ misled' = (misled \/ ~Fits({}, {}, Down(router)))
      /\ lost' = {}
  BY DEF DetachSurface
<1>2. RouterTypeOK'
  BY <1>1, TargetTypes DEF RouterTypeOK, Calm
<1>3. /\ godot'.held = {} /\ router'.active = NoTarget /\ router'.hover = NoTarget
      /\ \A f \in Fingers : router'.touches[f] = NoTarget
  BY <1>1 DEF RouterTypeOK, Calm
<1>4. MouseIsTracked' /\ FingersAreTracked'
  BY <1>3 DEF MouseIsTracked, FingersAreTracked
<1>5. Down(router') = {}
  BY <1>3, DownOf DEF Down
<1>6. told' = {}
  BY <1>1 DEF Agrees
<1>7. Fits({}, {}, Down(router))
  BY DEF Fits, Agrees
<1>8. ~misled'
  BY <1>1, <1>7
<1> QED BY <1>2, <1>4, <1>5, <1>6, <1>8 DEF Agrees

-----------------------------------------------------------------------------
(* The theorem. *)

\* Only views are destroyed; nested text goes with its paragraph.
ViewsAlive == alive \subseteq Plain \cup Owning

\* At first nothing is touched and every view is alive.
LEMMA InitRouter == RouterInit => RouterInv /\ ViewsAlive
<1> SUFFICES ASSUME RouterInit PROVE RouterInv /\ ViewsAlive
  OBVIOUS
<1>1. /\ godot = Loose /\ router = Calm /\ told = {} /\ misled = FALSE /\ lost = {}
      /\ alive = Plain \cup Owning
  BY DEF RouterInit
<1>2. RouterTypeOK
  BY <1>1, TargetTypes DEF RouterTypeOK, Loose, Calm
<1>3. MouseIsTracked /\ FingersAreTracked
  BY <1>1 DEF MouseIsTracked, FingersAreTracked, Loose, Calm
<1>4. Down(router) = {}
  <2>1. /\ router.hover = NoTarget /\ router.active = NoTarget
        /\ \A f \in Fingers : router.touches[f] = NoTarget
    BY <1>1 DEF Calm
  <2> QED BY <2>1, DownOf DEF Down
<1> QED BY <1>1, <1>2, <1>3, <1>4 DEF RouterInv, Agrees, ViewsAlive

\* Every step of the router keeps the invariant and destroys views only.
LEMMA NextRouter == RouterInv /\ ViewsAlive /\ [RouterNext]_routerVars => RouterInv' /\ ViewsAlive'
<1> SUFFICES ASSUME RouterInv, ViewsAlive, [RouterNext]_routerVars PROVE RouterInv' /\ ViewsAlive'
  OBVIOUS
<1>1. ASSUME NEW target \in Touchable,
             \/ MouseMotion(target)
             \/ \E b \in Buttons : MousePress(b, target) \/ MouseRelease(b, target)
             \/ \E f \in Fingers : FingerDown(f, target)
      PROVE  RouterInv' /\ ViewsAlive'
  <2>1. RouterInv'
    <3>1. CASE MouseMotion(target)
      BY <3>1, TargetTypes, MotionStep
    <3>2. CASE \E b \in Buttons : MousePress(b, target) \/ MouseRelease(b, target)
      BY <3>2, PressStep, ReleaseStep
    <3>3. CASE \E f \in Fingers : FingerDown(f, target)
      BY <3>3, FingerDownStep
    <3> QED BY <1>1, <3>1, <3>2, <3>3
  <2>2. alive' = alive
    BY <1>1, Zenon DEF MouseMotion, MousePress, MouseRelease, FingerDown
  <2> QED BY <2>1, <2>2 DEF ViewsAlive
<1>2. CASE MouseMotion(NoTarget) \/ DragBegin \/ OpenPopup \/ CancelMouseTakenByPopup \/ LoseMouse
  <2>1. RouterInv'
    BY <1>2, TargetTypes, MotionStep, DragStep, OpenPopupStep, FindPopupStep, LoseStep
  <2>2. alive' = alive
    BY <1>2 DEF MouseMotion, DragBegin, OpenPopup, CancelMouseTakenByPopup, LoseMouse
  <2> QED BY <2>1, <2>2 DEF ViewsAlive
<1>3. ASSUME NEW f \in Fingers, FingerUp(f) \/ FingerDrag(f) \/ LoseFinger(f)
      PROVE  RouterInv' /\ ViewsAlive'
  <2>1. RouterInv'
    BY <1>3, FingerUpStep, FingerDragStep, LoseStep
  <2>2. alive' = alive
    BY <1>3 DEF FingerUp, FingerDrag, LoseFinger
  <2> QED BY <2>1, <2>2 DEF ViewsAlive
<1>4. ASSUME NEW view \in alive, ViewDestroyed(view)
      PROVE  RouterInv' /\ ViewsAlive'
  <2>1. view \in Plain \cup Owning /\ ViewsAlive'
    BY <1>4 DEF ViewsAlive, ViewDestroyed
  <2> QED BY <1>4, <2>1, DestroyStep
<1>5. CASE DetachSurface
  BY <1>5, DetachStep DEF DetachSurface, ViewsAlive
<1>6. CASE AttachSurface
  <2>1. ViewsAlive' /\ UNCHANGED <<godot, router, told, misled, lost>>
    BY <1>6 DEF AttachSurface, ViewsAlive
  <2> QED BY <2>1 DEF RouterInv, RouterTypeOK, MouseIsTracked, FingersAreTracked, Agrees
<1>7. CASE UNCHANGED routerVars
  BY <1>7 DEF routerVars, RouterInv, RouterTypeOK, MouseIsTracked, FingersAreTracked, Agrees,
              ViewsAlive
<1> QED BY <1>1, <1>2, <1>3, <1>4, <1>5, <1>6, <1>7 DEF RouterNext, Buttons

\* For any tree of views, any number of fingers and any order of presses, drags, popups,
\* destructions and detachments: each touch JavaScript is told of starts once and ends once on
\* the view it started on (RNInputRouter's contacts), but for releases Godot keeps for itself.
THEOREM TouchesAlwaysEndOnce == RouterSpec => []TouchesEndOnce
<1>1. RouterInv => TouchesEndOnce
  BY DEF RouterInv, Agrees, TouchesEndOnce
<1>2. RouterSpec => [](RouterInv /\ ViewsAlive)
  BY InitRouter, NextRouter, PTL DEF RouterSpec
<1> QED BY <1>1, <1>2, PTL

-----------------------------------------------------------------------------
(***************************************************************************)
(* Theorems of SceneBindings, for any modules, targets and limits.          *)
(*                                                                         *)
(* A change of the game refreshes some scopes, one after the other.  What   *)
(* that does to all scopes is one relation, Moves, that adds up: a scope    *)
(* that was not refreshed is as it was, and one that was is as it was, or   *)
(* its hook has news, or the registry refused it.  Sound says what the      *)
(* registry and the bindings are together: a token names one handle, a      *)
(* binding's handle is its own, and none that was given up is there.        *)
(***************************************************************************)

Attached == [target : Targets, identity : Nat] \cup {None}
Bound == [attachment : Attached, handle : Nat] \cup {Missing}
Handle == [token : Nat \ {0}, scope : Scopes, object : Targets]
Change == [scope : Scopes, sequence : Nat]
NativeState ==
  [bindings : [Scopes -> Bound], handles : SUBSET Handle, next : Nat \ {0}, sequence : Nat,
   changes : Seq(Change), revoked : SUBSET Nat, refused : SUBSET Scopes]

\* The registry: no two handles have the same token, nor one that is still to come.
TableIs(T, next) ==
  /\ T \in SUBSET Handle /\ IsFiniteSet(T) /\ Cardinality(T) <= MaxHandles
  /\ \A h \in T : h.token < next
  /\ \A g, h \in T : g.token = h.token => g = h

\* The handle of a binding is its own, and resolves to its target while that is there.
BindingIs(b, s, T, next, at) ==
  b.handle # 0 =>
    /\ b.handle < next /\ b.attachment # None
    /\ ~Gone(b.attachment.target, at) =>
         [token |-> b.handle, scope |-> s, object |-> b.attachment.target] \in T
    /\ \A h \in T : h.token = b.handle => h.scope = s
Own(bs) == \A r, s \in Scopes : bs[r].handle = bs[s].handle /\ bs[s].handle # 0 => r = s
Numbered(n) == \A i \in 1..Len(n.changes) : n.changes[i].sequence <= n.sequence
Sound(n, at) ==
  /\ n \in NativeState /\ TableIs(n.handles, n.next) /\ Numbered(n)
  /\ \A k \in n.revoked : k < n.next /\ \A h \in n.handles : h.token # k
  /\ \A s \in Scopes : BindingIs(n.bindings[s], s, n.handles, n.next, at)
  /\ Own(n.bindings)

\* An event of a scope that is news to whoever read before.
News(coming, q, s) == \E i \in 1..Len(coming) : coming[i].scope = s /\ coming[i].sequence > q

USE SceneBounds

-----------------------------------------------------------------------------
(* Bindings and handles. *)

\* The fields of a binding.
LEMMA BoundFields ==
  /\ \A b \in Bound : b.handle \in Nat /\ b.attachment \in Attached
  /\ Missing \in Bound /\ Missing.handle = 0 /\ Missing.attachment = None
  /\ Unbound \in Bound /\ Unbound.handle = 0 /\ Unbound.attachment = None
  /\ \A a \in Attached, k \in Nat : [attachment |-> a, handle |-> k] \in Bound
BY DEF Bound, Attached, Missing, Unbound, None

\* A binding is there or not.
LEMMA BoundIsThere ==
  ASSUME NEW a, NEW k
  PROVE  [attachment |-> a, handle |-> k] # Missing
<1>1. DOMAIN Missing = {"attachment", "handle", "absent"}
  BY DEF Missing
<1>2. DOMAIN [attachment |-> a, handle |-> k] = {"attachment", "handle"}
  OBVIOUS
<1> QED BY <1>1, <1>2

\* What is attached is a target.
LEMMA AttachedIs ==
  /\ \A a \in Attached : a # None => a.target \in Targets /\ a.identity \in Nat
  /\ None \in Attached /\ None.target = "none"
BY DEF Attached, None

\* A part of the registry.
LEMMA TablePart ==
  ASSUME NEW T, NEW next, TableIs(T, next), NEW U \in SUBSET T
  PROVE  TableIs(U, next)
<1>1. IsFiniteSet(T) /\ Cardinality(T) \in Nat /\ IsFiniteSet(U) /\ Cardinality(U) \in Nat
  BY FS_Subset, FS_CardinalityType DEF TableIs
<1>2. Cardinality(U) <= Cardinality(T)
  BY <1>1, FS_Subset
<1> QED BY <1>1, <1>2 DEF TableIs

\* A handle more.
LEMMA TableGrows ==
  ASSUME NEW T, NEW next \in Nat \ {0}, TableIs(T, next), Cardinality(T) < MaxHandles,
         NEW s \in Scopes, NEW t \in Targets
  PROVE  TableIs(T \cup {[token |-> next, scope |-> s, object |-> t]}, next + 1)
<1> DEFINE h == [token |-> next, scope |-> s, object |-> t]
           U == T \cup {h}
<1>1. h \in Handle /\ h.token = next
  BY DEF Handle
<1>2. IsFiniteSet(T) /\ Cardinality(T) \in Nat /\ T \in SUBSET Handle
      /\ \A g \in T : g.token < next
  BY FS_CardinalityType DEF TableIs
<1>3. IsFiniteSet(U) /\ Cardinality(U) <= Cardinality(T) + 1 /\ Cardinality(U) \in Nat
  <2>1. IsFiniteSet(U)
    BY <1>2, FS_AddElement
  <2>2. Cardinality(U) = Cardinality(T) \/ Cardinality(U) = Cardinality(T) + 1
    BY <1>2, FS_AddElement
  <2> QED BY <1>2, <2>1, <2>2
<1>4. U \in SUBSET Handle /\ Cardinality(U) <= MaxHandles
  BY <1>1, <1>2, <1>3
<1>5. \A g \in T : g.token \in Nat
  BY <1>2 DEF Handle
<1> HIDE DEF h
<1>6. \A g \in U : g.token < next + 1
  BY <1>1, <1>2, <1>5
<1>7. \A f, g \in U : f.token = g.token => f = g
  BY <1>1, <1>2, <1>5 DEF TableIs
<1> QED BY <1>3, <1>4, <1>6, <1>7 DEF TableIs, h

\* register_object() finds a handle of the scope to the object, or makes one, or refuses; only
\* handles to objects that have ended are forgotten.
RegistersIn(r, T, next, s, t, at) ==
  /\ TableIs(r.table, r.next) /\ r.next \in Nat \ {0} /\ next <= r.next
  /\ \A h \in r.table : h \in T \/ (h.token = next /\ r.next = next + 1 /\ h.scope = s)
  /\ \A h \in T : ~Gone(h.object, at) => h \in r.table
  /\ r.token \in Nat
  /\ r.token = 0 => r.next = next
  /\ r.token # 0 => /\ ~Gone(t, at) /\ r.token < r.next
                    /\ [token |-> r.token, scope |-> s, object |-> t] \in r.table

LEMMA RegisteredDoes ==
  ASSUME NEW T, NEW next \in Nat \ {0}, TableIs(T, next), NEW s \in Scopes, NEW t \in Targets, NEW at
  PROVE  RegistersIn(Registered(T, next, s, t, at), T, next, s, t, at)
<1> DEFINE r == Registered(T, next, s, t, at)
           known == Of(T, s, t)
           kept == IF Cardinality(T) < MaxHandles THEN T ELSE {h \in T : ~Gone(h.object, at)}
           new == [token |-> next, scope |-> s, object |-> t]
<1> SUFFICES RegistersIn(r, T, next, s, t, at)
  OBVIOUS
<1>1. T \in SUBSET Handle /\ Cardinality(T) \in Nat /\ \A h \in T : h.token \in Nat /\ h.token < next
  BY FS_CardinalityType DEF TableIs, Handle
<1>2. kept \in SUBSET T /\ \A h \in T : ~Gone(h.object, at) => h \in kept
  OBVIOUS
<1>3. TableIs(kept, next)
  BY <1>2, TablePart
<1>4. CASE Gone(t, at)
  <2>1. r = [table |-> T, token |-> 0, next |-> next]
    BY <1>4 DEF Registered
  <2> QED BY <2>1 DEF RegistersIn
<1>5. CASE ~Gone(t, at) /\ known # {}
  <2>1. PICK h : h \in known /\ r = [table |-> T, token |-> h.token, next |-> next]
    BY <1>5 DEF Registered
  <2>2. h \in T /\ h.scope = s /\ h.object = t /\ h \in Handle
    BY <1>1, <2>1 DEF Of
  <2>3. h = [token |-> h.token, scope |-> s, object |-> t]
    BY <2>2 DEF Handle
  <2> HIDE DEF r
  <2> QED BY <1>1, <1>5, <2>1, <2>2, <2>3 DEF RegistersIn
<1>6. CASE ~Gone(t, at) /\ known = {} /\ Cardinality(kept) >= MaxHandles
  <2>1. r = [table |-> kept, token |-> 0, next |-> next]
    BY <1>6 DEF Registered
  <2> HIDE DEF r, kept
  <2> QED BY <1>2, <1>3, <2>1 DEF RegistersIn
<1>7. CASE ~Gone(t, at) /\ known = {} /\ ~(Cardinality(kept) >= MaxHandles)
  <2>1. r = [table |-> kept \cup {new}, token |-> next, next |-> next + 1]
    BY <1>7 DEF Registered
  <2>2. Cardinality(kept) < MaxHandles
    BY <1>3, <1>7, FS_CardinalityType DEF TableIs
  <2> HIDE DEF kept
  <2>3. TableIs(kept \cup {new}, next + 1)
    BY <1>3, <2>2, TableGrows
  <2> HIDE DEF r
  <2> QED BY <1>2, <1>7, <2>1, <2>3 DEF RegistersIn
<1> QED BY <1>4, <1>5, <1>6, <1>7

-----------------------------------------------------------------------------
(* RNSceneBindings. *)

\* The fields of the native state.
LEMMA NativeFields ==
  ASSUME NEW n \in NativeState
  PROVE  /\ n.bindings \in [Scopes -> Bound] /\ n.handles \in SUBSET Handle /\ n.next \in Nat \ {0}
         /\ n.sequence \in Nat /\ n.changes \in Seq(Change) /\ n.revoked \in SUBSET Nat
         /\ n.refused \in SUBSET Scopes
         /\ \A s \in Scopes : n.bindings[s] \in Bound /\ n.bindings[s].handle \in Nat
BY BoundFields DEF NativeState

\* A binding ends, or is made or forgotten without a handle.
LEMMA BindingGoes ==
  ASSUME NEW n, NEW at, Sound(n, at), NEW s \in Scopes, NEW b \in {Unbound, Missing}
  PROVE  Sound([n EXCEPT !.bindings[s] = b], at)
<1> DEFINE m == [n EXCEPT !.bindings[s] = b]
<1>1. b \in Bound /\ b.handle = 0
  BY BoundFields
<1>2. n.bindings \in [Scopes -> Bound] /\ n \in NativeState
  BY DEF Sound, NativeState
<1>3. /\ m \in NativeState /\ m.bindings[s] = b /\ \A r \in Scopes \ {s} : m.bindings[r] = n.bindings[r]
      /\ m.handles = n.handles /\ m.next = n.next /\ m.sequence = n.sequence
      /\ m.changes = n.changes /\ m.revoked = n.revoked
  BY <1>1, <1>2 DEF NativeState
<1> HIDE DEF m
<1>4. \A r \in Scopes : BindingIs(m.bindings[r], r, m.handles, m.next, at)
  BY <1>1, <1>3 DEF Sound, BindingIs
<1>5. Own(m.bindings)
  BY <1>1, <1>3 DEF Sound, Own
<1>6. Sound(m, at)
  BY <1>3, <1>4, <1>5 DEF Sound, Numbered
<1> QED BY <1>6 DEF m

\* Handles that no binding has go.
LEMMA HandlesGo ==
  ASSUME NEW n, NEW at, Sound(n, at), NEW U \in SUBSET n.handles,
         \A r \in Scopes :
           LET b == n.bindings[r]
           IN  b.handle # 0 => \A h \in n.handles : h.token = b.handle => h \in U
  PROVE  Sound([n EXCEPT !.handles = U], at)
<1> DEFINE m == [n EXCEPT !.handles = U]
<1>1. n \in NativeState /\ U \in SUBSET Handle
  BY DEF Sound, NativeState
<1>2. /\ m \in NativeState /\ m.bindings = n.bindings /\ m.handles = U /\ m.next = n.next
      /\ m.sequence = n.sequence /\ m.changes = n.changes /\ m.revoked = n.revoked
  BY <1>1 DEF NativeState
<1> HIDE DEF m
<1>3. TableIs(m.handles, m.next)
  BY <1>2, TablePart DEF Sound
<1>4. \A r \in Scopes : BindingIs(m.bindings[r], r, m.handles, m.next, at)
  BY <1>2 DEF Sound, BindingIs
<1>5. Sound(m, at)
  BY <1>2, <1>3, <1>4 DEF Sound, Numbered
<1> QED BY <1>5 DEF m

\* Handles come, and those to ended objects may go.
LEMMA HandlesCome ==
  ASSUME NEW n, NEW at, Sound(n, at), NEW s \in Scopes, NEW t \in Targets, NEW r,
         RegistersIn(r, n.handles, n.next, s, t, at)
  PROVE  Sound([n EXCEPT !.handles = r.table, !.next = r.next], at)
<1> DEFINE m == [n EXCEPT !.handles = r.table, !.next = r.next]
<1>1. n \in NativeState /\ r.table \in SUBSET Handle /\ r.next \in Nat \ {0} /\ n.next <= r.next
      /\ n.next \in Nat
  BY NativeFields DEF Sound, RegistersIn, TableIs
<1>2. /\ m \in NativeState /\ m.bindings = n.bindings /\ m.handles = r.table /\ m.next = r.next
      /\ m.sequence = n.sequence /\ m.changes = n.changes /\ m.revoked = n.revoked
  BY <1>1 DEF NativeState
<1> HIDE DEF m
<1>3. \A h \in r.table : h \in n.handles \/ h.token = n.next
  BY DEF RegistersIn
<1>4. ASSUME NEW k \in m.revoked PROVE k < m.next /\ \A h \in m.handles : h.token # k
  <2>1. k < n.next /\ k \in Nat /\ \A h \in n.handles : h.token # k
    BY <1>2, <1>4, NativeFields DEF Sound
  <2> QED BY <1>1, <1>2, <1>3, <2>1
<1>5. ASSUME NEW q \in Scopes PROVE BindingIs(m.bindings[q], q, m.handles, m.next, at)
  <2>1. BindingIs(n.bindings[q], q, n.handles, n.next, at) /\ n.bindings[q].handle \in Nat
    BY NativeFields DEF Sound
  <2>2. \A h \in n.handles : ~Gone(h.object, at) => h \in r.table
    BY DEF RegistersIn
  <2> QED BY <1>1, <1>2, <1>3, <2>1, <2>2 DEF BindingIs
<1>6. Sound(m, at)
  BY <1>2, <1>4, <1>5 DEF Sound, Numbered, RegistersIn
<1> QED BY <1>6 DEF m

\* A binding gets a handle of its scope to its target.
LEMMA BindingComes ==
  ASSUME NEW n, NEW at, Sound(n, at), NEW s \in Scopes, NEW a \in Attached, a # None,
         NEW k \in Nat \ {0}, k < n.next, [token |-> k, scope |-> s, object |-> a.target] \in n.handles
  PROVE  Sound([n EXCEPT !.bindings[s] = [attachment |-> a, handle |-> k]], at)
<1> DEFINE b == [attachment |-> a, handle |-> k]
           m == [n EXCEPT !.bindings[s] = b]
           own == [token |-> k, scope |-> s, object |-> a.target]
<1>1. b \in Bound /\ b.handle = k /\ b.attachment = a
  BY BoundFields
<1>2. n.bindings \in [Scopes -> Bound] /\ n \in NativeState
  BY DEF Sound, NativeState
<1> HIDE DEF b
<1>3. /\ m \in NativeState /\ m.bindings[s] = b /\ \A r \in Scopes \ {s} : m.bindings[r] = n.bindings[r]
      /\ m.handles = n.handles /\ m.next = n.next /\ m.sequence = n.sequence
      /\ m.changes = n.changes /\ m.revoked = n.revoked
  BY <1>1, <1>2 DEF NativeState
<1> HIDE DEF m
<1>4. \A h \in n.handles : h.token = k => h = own
  BY DEF Sound, TableIs
<1>5. ASSUME NEW r \in Scopes \ {s}
      PROVE  BindingIs(m.bindings[r], r, m.handles, m.next, at) /\ m.bindings[r].handle # k
  <2>1. BindingIs(n.bindings[r], r, n.handles, n.next, at)
    BY DEF Sound
  <2>2. own.scope = s /\ own.token = k /\ own \in n.handles
    OBVIOUS
  <2> HIDE DEF own
  <2> QED BY <1>3, <2>1, <2>2 DEF BindingIs
<1>6. BindingIs(m.bindings[s], s, m.handles, m.next, at)
  BY <1>1, <1>3, <1>4 DEF BindingIs
<1>7. Own(m.bindings)
  BY <1>1, <1>3, <1>5 DEF Sound, Own
<1>8. Sound(m, at)
  BY <1>3, <1>5, <1>6, <1>7 DEF Sound, Numbered
<1> QED BY <1>8 DEF m, b

\* A handle that is not in the registry is given up.
LEMMA HandleRevoked ==
  ASSUME NEW n, NEW at, Sound(n, at), NEW k \in Nat, k < n.next, \A h \in n.handles : h.token # k
  PROVE  Sound([n EXCEPT !.revoked = @ \cup {k}], at)
<1> DEFINE m == [n EXCEPT !.revoked = @ \cup {k}]
<1>1. /\ m \in NativeState /\ m.bindings = n.bindings /\ m.handles = n.handles /\ m.next = n.next
      /\ m.sequence = n.sequence /\ m.changes = n.changes /\ m.revoked = n.revoked \cup {k}
  BY DEF Sound, NativeState
<1> HIDE DEF m
<1>2. Sound(m, at)
  BY <1>1 DEF Sound, Numbered
<1> QED BY <1>2 DEF m

\* What is refused is only noted.
LEMMA RefusalNoted ==
  ASSUME NEW n, NEW at, Sound(n, at), NEW R \in SUBSET Scopes
  PROVE  Sound([n EXCEPT !.refused = R], at)
<1> DEFINE m == [n EXCEPT !.refused = R]
<1>1. /\ m \in NativeState /\ m.bindings = n.bindings /\ m.handles = n.handles /\ m.next = n.next
      /\ m.sequence = n.sequence /\ m.changes = n.changes /\ m.revoked = n.revoked
  BY DEF Sound, NativeState
<1> HIDE DEF m
<1>2. Sound(m, at)
  BY <1>1 DEF Sound, Numbered
<1> QED BY <1>2 DEF m

\* An event more.
LEMMA EventComes ==
  ASSUME NEW q \in Seq(Change), NEW c \in Change, NEW p, p = Append(q, c)
  PROVE  /\ p \in Seq(Change) /\ Len(p) = Len(q) + 1 /\ Len(q) \in Nat
         /\ \A i \in 1..Len(q) : p[i] = q[i]
         /\ p[Len(q) + 1] = c
OBVIOUS

\* It is news to all who read before, and what was news stays so.
LEMMA NewsComes ==
  ASSUME NEW q \in Seq(Change), NEW c \in Change, NEW p, p = Append(q, c)
  PROVE  /\ \A k, r : News(q, k, r) => News(p, k, r)
         /\ \A k : c.sequence > k => News(p, k, c.scope)
BY EventComes DEF News

\* _publish()
PublishesIn(m, n, s) ==
  /\ m.bindings = n.bindings /\ m.handles = n.handles /\ m.next = n.next
  /\ m.refused = n.refused \ {s} /\ m.sequence = n.sequence + 1
  /\ \A k, r : News(n.changes, k, r) => News(m.changes, k, r)
  /\ \A k \in 0..n.sequence : News(m.changes, k, s)

LEMMA PublishDoes ==
  ASSUME NEW n, NEW at, Sound(n, at), NEW s \in Scopes
  PROVE  Sound(Publish(n, s), at) /\ PublishesIn(Publish(n, s), n, s)
<1> DEFINE m == Publish(n, s)
           c == [scope |-> s, sequence |-> n.sequence + 1]
<1> SUFFICES Sound(m, at) /\ PublishesIn(m, n, s)
  OBVIOUS
<1>1. /\ n \in NativeState /\ n.sequence \in Nat /\ n.changes \in Seq(Change)
      /\ n.refused \in SUBSET Scopes
  BY NativeFields DEF Sound
<1>2. c \in Change /\ c.scope = s /\ c.sequence = n.sequence + 1
  BY <1>1 DEF Change
<1>3. /\ m.bindings = n.bindings /\ m.handles = n.handles /\ m.next = n.next
      /\ m.revoked = n.revoked /\ m.refused = n.refused \ {s}
      /\ m.sequence = n.sequence + 1 /\ m.changes = Append(n.changes, c)
      /\ m = [n EXCEPT !.sequence = n.sequence + 1, !.refused = n.refused \ {s},
                       !.changes = Append(n.changes, c)]
  BY <1>1 DEF Publish, NativeState
<1>4. /\ m.changes \in Seq(Change) /\ Len(m.changes) = Len(n.changes) + 1 /\ Len(n.changes) \in Nat
      /\ \A i \in 1..Len(n.changes) : m.changes[i] = n.changes[i]
      /\ m.changes[Len(n.changes) + 1] = c
      /\ \A k, r : News(n.changes, k, r) => News(m.changes, k, r)
      /\ \A k : c.sequence > k => News(m.changes, k, c.scope)
  <2>1. PICK q, p, e : q = n.changes /\ p = m.changes /\ e = c
    OBVIOUS
  <2> HIDE DEF m, c
  <2>2. q \in Seq(Change) /\ e \in Change /\ p = Append(q, e)
    BY <1>1, <1>2, <1>3, <2>1
  <2>3. /\ p \in Seq(Change) /\ Len(p) = Len(q) + 1 /\ Len(q) \in Nat
        /\ \A i \in 1..Len(q) : p[i] = q[i]
        /\ p[Len(q) + 1] = e
    BY <2>2, EventComes
  <2>4. (\A k, r : News(q, k, r) => News(p, k, r)) /\ \A k : e.sequence > k => News(p, k, e.scope)
    BY <2>2, NewsComes
  <2> QED BY <2>1, <2>3, <2>4
<1>5. m \in NativeState
  <2>1. PICK k, R, p : k = n.sequence + 1 /\ R = n.refused \ {s} /\ p = Append(n.changes, c)
    OBVIOUS
  <2>2. k \in Nat /\ R \in SUBSET Scopes /\ p \in Seq(Change)
    BY <1>1, <1>3, <1>4, <2>1
  <2>3. m = [n EXCEPT !.sequence = k, !.refused = R, !.changes = p]
    BY <1>3, <2>1
  <2> HIDE DEF m, c
  <2> QED BY <1>1, <2>2, <2>3 DEF NativeState
<1> HIDE DEF m, c
<1>6. Numbered(m)
  <2>1. ASSUME NEW i \in 1..Len(n.changes) PROVE n.changes[i].sequence <= n.sequence + 1
    <3>1. n.changes[i] \in Change /\ n.changes[i].sequence <= n.sequence
      BY <1>1 DEF Sound, Numbered
    <3>2. n.changes[i].sequence \in Nat
      BY <3>1 DEF Change
    <3> QED BY <1>1, <3>1, <3>2
  <2> QED BY <1>1, <1>2, <1>3, <1>4, <2>1 DEF Numbered
<1>7. Sound(m, at)
  BY <1>3, <1>5, <1>6 DEF Sound
<1>8. \A k \in 0..n.sequence : News(m.changes, k, s)
  BY <1>1, <1>2, <1>4
<1> QED BY <1>3, <1>4, <1>7, <1>8 DEF PublishesIn

\* _disconnect(), and close_scope() of the registry.
DisconnectsIn(d, n, s) ==
  /\ d.bindings[s] = Unbound /\ \A r \in Scopes \ {s} : d.bindings[r] = n.bindings[r]
  /\ d.handles \subseteq n.handles /\ d.next = n.next /\ d.sequence = n.sequence
  /\ d.changes = n.changes /\ d.refused = n.refused

LEMMA DisconnectedDoes ==
  ASSUME NEW n, NEW at, Sound(n, at), NEW s \in Scopes
  PROVE  Sound(Disconnected(n, s), at) /\ DisconnectsIn(Disconnected(n, s), n, s)
<1> DEFINE k == n.bindings[s].handle
           a == [n EXCEPT !.bindings[s] = Unbound]
           U == {h \in n.handles : h.token # k}
           b == [a EXCEPT !.handles = U]
           c == IF k = 0 THEN b ELSE [b EXCEPT !.revoked = @ \cup {k}]
<1>1. /\ n \in NativeState /\ k \in Nat /\ n.bindings \in [Scopes -> Bound]
      /\ BindingIs(n.bindings[s], s, n.handles, n.next, at)
  BY NativeFields DEF Sound
<1>2. Sound(a, at)
  BY BindingGoes
<1>3. /\ a.bindings[s] = Unbound /\ \A r \in Scopes \ {s} : a.bindings[r] = n.bindings[r]
      /\ a.handles = n.handles /\ a.next = n.next
  BY <1>1 DEF NativeState
<1>4. Disconnected(n, s) = c
  BY <1>1 DEF Disconnected, NativeState
<1>5. /\ c.bindings[s] = Unbound /\ \A r \in Scopes \ {s} : c.bindings[r] = n.bindings[r]
      /\ c.handles = U /\ c.next = n.next /\ c.sequence = n.sequence
      /\ c.changes = n.changes /\ c.refused = n.refused
  BY <1>1 DEF NativeState
<1>6. b.handles = U /\ b.next = n.next
  BY <1>1 DEF NativeState
<1>7. ASSUME NEW r \in Scopes, NEW h \in a.handles, a.bindings[r].handle # 0,
             h.token = a.bindings[r].handle
      PROVE  h \in U
  <2>1. r # s
    BY <1>3, <1>7, BoundFields
  <2>2. n.bindings[r].handle # k
    BY <1>3, <1>7, <2>1 DEF Sound, Own
  <2> QED BY <1>3, <1>7, <2>1, <2>2
<1>8. Sound(b, at)
  <2>1. U \in SUBSET a.handles
    BY <1>3
  <2>2. PICK g, V : g = a /\ V = U
    OBVIOUS
  <2> HIDE DEF a, U
  <2>3. Sound([g EXCEPT !.handles = V], at)
    BY <1>2, <1>7, <2>1, <2>2, HandlesGo
  <2> QED BY <2>2, <2>3
<1>9. Sound(c, at)
  <2>1. CASE k = 0
    BY <1>8, <2>1
  <2>2. CASE k # 0
    <3>1. k < b.next /\ \A h \in b.handles : h.token # k
      BY <1>1, <1>6, <2>2 DEF BindingIs
    <3>2. PICK g, j : g = b /\ j = k
      OBVIOUS
    <3> HIDE DEF b, k
    <3>3. Sound([g EXCEPT !.revoked = @ \cup {j}], at)
      BY <1>1, <1>8, <3>1, <3>2, HandleRevoked
    <3> QED BY <2>2, <3>2, <3>3
  <2> QED BY <2>1, <2>2
<1> QED BY <1>4, <1>5, <1>9 DEF DisconnectsIn

\* What a module gives up when its binding changes; nothing of other scopes.
LEMMA ScopeForgotten ==
  ASSUME NEW n, NEW at, Sound(n, at), NEW s \in Scopes, n.bindings[s].handle = 0
  PROVE  Sound([n EXCEPT !.handles = {h \in @ : h.scope # s}], at)
<1> DEFINE U == {h \in n.handles : h.scope # s}
<1>1. ASSUME NEW r \in Scopes, NEW h \in n.handles, n.bindings[r].handle # 0,
             h.token = n.bindings[r].handle
      PROVE  h \in U
  <2>1. h.scope = r /\ r # s
    BY <1>1 DEF Sound, BindingIs
  <2> QED BY <2>1
<1>2. n \in NativeState /\ [n EXCEPT !.handles = {h \in @ : h.scope # s}] = [n EXCEPT !.handles = U]
  BY DEF Sound, NativeState
<1>3. U \in SUBSET n.handles
  OBVIOUS
<1>4. PICK V : V = U
  OBVIOUS
<1> HIDE DEF U
<1>5. Sound([n EXCEPT !.handles = V], at)
  BY <1>1, <1>3, <1>4, HandlesGo
<1> QED BY <1>2, <1>4, <1>5

\* Bindings survive what happens to objects: none that has ended comes back.
LEMMA SoundLater ==
  ASSUME NEW n, NEW at, Sound(n, at), NEW then, \A t \in Targets : Gone(t, at) => Gone(t, then)
  PROVE  Sound(n, then)
<1>1. \A s \in Scopes : n.bindings[s].attachment # None => n.bindings[s].attachment.target \in Targets
  BY NativeFields, BoundFields, AttachedIs DEF Sound
<1>2. \A s \in Scopes : BindingIs(n.bindings[s], s, n.handles, n.next, then)
  BY <1>1 DEF Sound, BindingIs
<1> QED BY <1>2 DEF Sound

-----------------------------------------------------------------------------
(* What a refresh of some scopes does to all. *)

SameBinding(n, m, r) ==
  n.bindings[r].attachment = m.bindings[r].attachment /\ n.bindings[r].handle = m.bindings[r].handle
AllNews(n, m, r) == \A k \in 0..n.sequence : News(m.changes, k, r)

\* Scopes of S may have changed, and the hooks of those that have are told or refused.
Moves(n, m, S) ==
  /\ n.sequence \in Nat /\ m.sequence \in Nat /\ n.sequence <= m.sequence
  /\ \A k, r : News(n.changes, k, r) => News(m.changes, k, r)
  /\ \A r \in Scopes : n.bindings[r] # Missing => m.bindings[r] # Missing
  /\ \A r \in Scopes \ S : m.bindings[r] = n.bindings[r] /\ (r \in m.refused <=> r \in n.refused)
  /\ \A r \in S : \/ SameBinding(n, m, r) /\ (r \in n.refused => r \in m.refused)
                  \/ r \in m.refused \/ AllNews(n, m, r)

\* A scope whose binding nobody asked for is left alone.
Quiet(n, m, r) ==
  n.bindings[r] = Missing => m.bindings[r] = Missing /\ \A h \in m.handles : h.scope = r => h \in n.handles
Synced(m, r, at, given) == r \in m.refused \/ m.bindings[r].attachment = Current(r, at, given)
Unrefused(n) == \A r \in n.refused : n.bindings[r].attachment = None
Fit(n, at) == Sound(n, at) /\ Unrefused(n)

\* A step that does nothing moves nothing.
LEMMA NothingMoves ==
  ASSUME NEW n, NEW at, Sound(n, at), NEW S \in SUBSET Scopes
  PROVE  Moves(n, n, S) /\ \A r \in Scopes : Quiet(n, n, r)
<1>1. n.sequence \in Nat
  BY NativeFields DEF Sound
<1> QED BY <1>1 DEF Moves, Quiet, SameBinding

\* Moves add up.
LEMMA MovesAddUp ==
  ASSUME NEW n, NEW m, NEW o, NEW S \in SUBSET Scopes, NEW T \in SUBSET Scopes,
         Moves(n, m, S), Moves(m, o, T)
  PROVE  Moves(n, o, S \cup T)
<1>1. /\ n.sequence \in Nat /\ m.sequence \in Nat /\ o.sequence \in Nat
      /\ n.sequence <= m.sequence /\ m.sequence <= o.sequence /\ n.sequence <= o.sequence
  BY DEF Moves
<1>2. \A k, r : News(n.changes, k, r) => News(o.changes, k, r)
  BY DEF Moves
<1>3. \A r : AllNews(n, m, r) => AllNews(n, o, r)
  BY DEF Moves, AllNews
<1>4. \A r : AllNews(m, o, r) => AllNews(n, o, r)
  BY <1>1 DEF AllNews
<1>5. ASSUME NEW r \in S \cup T
      PROVE  \/ SameBinding(n, o, r) /\ (r \in n.refused => r \in o.refused)
             \/ r \in o.refused \/ AllNews(n, o, r)
  <2>1. CASE r \notin T
    <3>1. o.bindings[r] = m.bindings[r] /\ (r \in o.refused <=> r \in m.refused)
      BY <2>1 DEF Moves
    <3>2. \/ SameBinding(n, m, r) /\ (r \in n.refused => r \in m.refused)
          \/ r \in m.refused \/ AllNews(n, m, r)
      BY <1>5, <2>1 DEF Moves
    <3> QED BY <1>3, <3>1, <3>2 DEF SameBinding
  <2>2. CASE r \in T
    <3>1. \/ SameBinding(m, o, r) /\ (r \in m.refused => r \in o.refused)
          \/ r \in o.refused \/ AllNews(m, o, r)
      BY <2>2 DEF Moves
    <3>2. \/ SameBinding(n, m, r) /\ (r \in n.refused => r \in m.refused)
          \/ r \in m.refused \/ AllNews(n, m, r)
      BY <2>2 DEF Moves, SameBinding
    <3> QED BY <1>3, <1>4, <3>1, <3>2 DEF SameBinding
  <2> QED BY <2>1, <2>2
<1>6. ASSUME NEW r \in Scopes \ (S \cup T)
      PROVE  o.bindings[r] = n.bindings[r] /\ (r \in o.refused <=> r \in n.refused)
  BY DEF Moves
<1>7. \A r \in Scopes : n.bindings[r] # Missing => o.bindings[r] # Missing
  BY DEF Moves
<1> QED BY <1>1, <1>2, <1>5, <1>6, <1>7 DEF Moves

\* Quiet scopes stay quiet.
LEMMA QuietAddsUp ==
  ASSUME NEW n, NEW m, NEW o, NEW r, Quiet(n, m, r), Quiet(m, o, r)
  PROVE  Quiet(n, o, r)
BY DEF Quiet

Where == [Targets -> {"in", "out", "gone"}]

\* What the scope's binding should be.
LEMMA CurrentIs ==
  ASSUME NEW s \in Scopes, NEW at, NEW given \in [Scopes -> Attached]
  PROVE  /\ Current(s, at, given) \in Attached
         /\ Current(s, at, given) # None =>
              /\ Current(s, at, given) = given[s] /\ given[s].target \in Targets
              /\ at[given[s].target] = "in"
<1>1. given[s] \in Attached /\ None \in Attached
  BY AttachedIs
<1> QED BY <1>1, AttachedIs DEF Current

\* _refresh() of a binding that is there.
RefreshesIn(m, n, s, at, given) ==
  /\ Fit(m, at) /\ Moves(n, m, {s}) /\ Synced(m, s, at, given)
  /\ \A r \in Scopes : Quiet(n, m, r)

\* The binding is given up, with the handles of a module.
OffIs(o, n, s) ==
  /\ o.bindings[s] = Unbound /\ \A r \in Scopes \ {s} : o.bindings[r] = n.bindings[r]
  /\ o.handles \subseteq n.handles /\ o.next = n.next /\ o.sequence = n.sequence
  /\ o.changes = n.changes /\ o.refused = n.refused

LEMMA OffDoes ==
  ASSUME NEW n, NEW at, Sound(n, at), NEW s \in Scopes
  PROVE  LET d == Disconnected(n, s)
             o == IF s \in ModuleScopes THEN [d EXCEPT !.handles = {h \in @ : h.scope # s}] ELSE d
         IN  Sound(o, at) /\ OffIs(o, n, s)
<1> DEFINE d == Disconnected(n, s)
           f == [d EXCEPT !.handles = {h \in @ : h.scope # s}]
<1>1. Sound(d, at) /\ DisconnectsIn(d, n, s)
  BY DisconnectedDoes
<1>2. d.bindings[s].handle = 0 /\ d \in NativeState
  BY <1>1, BoundFields DEF DisconnectsIn, Sound
<1>3. OffIs(d, n, s)
  BY <1>1 DEF DisconnectsIn, OffIs
<1> HIDE DEF d
<1>4. Sound(f, at)
  BY <1>1, <1>2, ScopeForgotten
<1>5. /\ f.bindings = d.bindings /\ f.handles \subseteq d.handles /\ f.next = d.next
      /\ f.sequence = d.sequence /\ f.changes = d.changes /\ f.refused = d.refused
  BY <1>2 DEF NativeState
<1>6. OffIs(f, n, s)
  BY <1>3, <1>5 DEF OffIs
<1> QED BY <1>1, <1>3, <1>4, <1>6 DEF d

\* What stays of others when one scope's binding has changed.
LEMMA OthersStay ==
  ASSUME NEW n, NEW at, Fit(n, at), NEW s \in Scopes, NEW m, NEW o, OffIs(o, n, s),
         \A r \in Scopes \ {s} : m.bindings[r] = o.bindings[r],
         \A h \in m.handles : h \in o.handles \/ h.scope = s,
         m.refused \in SUBSET (o.refused \cup {s}), s \in m.refused => m.bindings[s] = o.bindings[s]
  PROVE  Unrefused(m) /\ \A r \in Scopes \ {s} : Quiet(n, m, r)
<1>1. n.refused \in SUBSET Scopes /\ \A r \in n.refused : n.bindings[r].attachment = None
  BY NativeFields DEF Fit, Sound, Unrefused
<1>2. ASSUME NEW r \in m.refused PROVE m.bindings[r].attachment = None
  <2>1. CASE r = s
    BY <2>1, BoundFields DEF OffIs
  <2>2. CASE r # s
    <3>1. r \in n.refused /\ r \in Scopes
      BY <1>1, <2>2 DEF OffIs
    <3> QED BY <1>1, <2>2, <3>1 DEF OffIs
  <2> QED BY <2>1, <2>2
<1>3. ASSUME NEW r \in Scopes \ {s} PROVE Quiet(n, m, r)
  BY DEF OffIs, Quiet
<1> QED BY <1>2, <1>3 DEF Unrefused

\* The binding becomes p's, and JavaScript is told.
LEMMA ToldDoes ==
  ASSUME NEW n, NEW at, Fit(n, at), NEW s \in Scopes, n.bindings[s] # Missing, NEW given,
         NEW o, OffIs(o, n, s), NEW p, Sound(p, at),
         \A r \in Scopes \ {s} : p.bindings[r] = o.bindings[r],
         \A h \in p.handles : h \in o.handles \/ h.scope = s,
         p.sequence = o.sequence, p.changes = o.changes, p.refused = o.refused,
         p.bindings[s] # Missing, p.bindings[s].attachment = Current(s, at, given)
  PROVE  RefreshesIn(Publish(p, s), n, s, at, given)
<1> DEFINE m == Publish(p, s)
<1> SUFFICES RefreshesIn(m, n, s, at, given)
  OBVIOUS
<1>1. Sound(m, at) /\ PublishesIn(m, p, s)
  BY PublishDoes
<1> HIDE DEF m
<1>2. /\ n.sequence \in Nat /\ m.sequence = n.sequence + 1 /\ m.sequence \in Nat
      /\ m.bindings = p.bindings /\ m.handles = p.handles /\ m.refused = n.refused \ {s}
  <2>1. n.sequence \in Nat
    BY NativeFields DEF Fit, Sound
  <2> QED BY <1>1, <2>1 DEF PublishesIn, OffIs
<1>3. Unrefused(m) /\ \A r \in Scopes \ {s} : Quiet(n, m, r)
  <2>1. \A r \in Scopes \ {s} : m.bindings[r] = o.bindings[r]
    BY <1>2
  <2>2. \A h \in m.handles : h \in o.handles \/ h.scope = s
    BY <1>2
  <2>3. m.refused \in SUBSET (o.refused \cup {s}) /\ s \notin m.refused
    BY <1>2 DEF OffIs
  <2> QED BY <2>1, <2>2, <2>3, OthersStay
<1>4. AllNews(n, m, s)
  BY <1>1 DEF PublishesIn, OffIs, AllNews
<1>5. \A k, r : News(n.changes, k, r) => News(m.changes, k, r)
  BY <1>1 DEF PublishesIn, OffIs
<1>6. \A r \in Scopes \ {s} : m.bindings[r] = n.bindings[r]
  BY <1>2 DEF OffIs
<1>7. Moves(n, m, {s})
  BY <1>2, <1>4, <1>5, <1>6 DEF Moves
<1> QED BY <1>1, <1>2, <1>3, <1>7 DEF RefreshesIn, Fit, Synced, Quiet

\* _refresh()
LEMMA RefreshedDoes ==
  ASSUME NEW n, NEW at, Fit(n, at), NEW s \in Scopes, n.bindings[s] # Missing,
         NEW given \in [Scopes -> Attached]
  PROVE  RefreshesIn(Refreshed(n, s, at, given), n, s, at, given)
<1> DEFINE now == Current(s, at, given)
           d == Disconnected(n, s)
           o == IF s \in ModuleScopes THEN [d EXCEPT !.handles = {h \in @ : h.scope # s}] ELSE d
           reg == Registered(o.handles, o.next, s, now.target, at)
           no == [o EXCEPT !.handles = reg.table, !.refused = @ \cup {s}]
           b == [attachment |-> now, handle |-> reg.token]
           p == [o EXCEPT !.handles = reg.table, !.next = reg.next, !.bindings[s] = b]
           m == Refreshed(n, s, at, given)
<1> SUFFICES RefreshesIn(m, n, s, at, given)
  OBVIOUS
<1>1. m = IF now = n.bindings[s].attachment THEN n
          ELSE IF now = None THEN Publish(o, s)
          ELSE IF reg.token = 0 THEN no ELSE Publish(p, s)
  BY DEF Refreshed
<1>2. Sound(n, at) /\ Sound(o, at) /\ OffIs(o, n, s)
  BY OffDoes DEF Fit
<1>3. now \in Attached /\ (now # None => now.target \in Targets /\ at[now.target] = "in")
  BY CurrentIs
<1> HIDE DEF m, o, now
<1>4. CASE now = n.bindings[s].attachment
  <2>1. m = n /\ Moves(n, n, {s}) /\ \A r \in Scopes : Quiet(n, n, r)
    BY <1>1, <1>2, <1>4, NothingMoves
  <2> QED BY <1>4, <2>1 DEF RefreshesIn, Synced, now
<1>5. CASE now # n.bindings[s].attachment /\ now = None
  <2>1. m = Publish(o, s)
    BY <1>1, <1>5
  <2>2. o.bindings[s] # Missing /\ o.bindings[s].attachment = None
    BY <1>2, BoundFields, BoundIsThere DEF OffIs, Unbound
  <2>3. RefreshesIn(Publish(o, s), n, s, at, given)
    <3>1. o.bindings[s].attachment = Current(s, at, given)
      BY <1>5, <2>2 DEF now
    <3> QED BY <1>2, <2>2, <3>1, ToldDoes
  <2> QED BY <2>1, <2>3
<1>6. CASE now # n.bindings[s].attachment /\ now # None
  <2>1. RegistersIn(reg, o.handles, o.next, s, now.target, at)
    <3>1. TableIs(o.handles, o.next) /\ o.next \in Nat \ {0} /\ now.target \in Targets
      BY <1>2, <1>3, <1>6, NativeFields DEF Sound
    <3> QED BY <3>1, RegisteredDoes
  <2>2. \A h \in reg.table : h \in o.handles \/ h.scope = s
    BY <2>1 DEF RegistersIn
  <2> HIDE DEF reg
  <2> DEFINE e == [o EXCEPT !.handles = reg.table, !.next = reg.next]
  <2>3. Sound(e, at)
    BY <1>2, <1>3, <1>6, <2>1, HandlesCome
  <2>4. o \in NativeState /\ o.bindings \in [Scopes -> Bound] /\ o.refused \in SUBSET Scopes
    BY <1>2, NativeFields DEF Sound
  <2>5. /\ e \in NativeState /\ e.bindings = o.bindings /\ e.handles = reg.table /\ e.next = reg.next
        /\ e.sequence = o.sequence /\ e.changes = o.changes /\ e.refused = o.refused
    BY <2>3, <2>4 DEF Sound, NativeState
  <2>6. CASE reg.token = 0
    <3>1. m = no
      BY <1>1, <1>6, <2>6
    <3>2. no = [e EXCEPT !.refused = o.refused \cup {s}]
      BY <2>1, <2>4, <2>6 DEF NativeState, RegistersIn
    <3>3. /\ no.bindings = o.bindings /\ no.handles = reg.table /\ no.refused = o.refused \cup {s}
          /\ no.sequence = o.sequence /\ no.changes = o.changes
      BY <2>4 DEF NativeState
    <3> HIDE DEF no, e
    <3>4. Sound(no, at)
      <4>1. o.refused \cup {s} \in SUBSET Scopes
        BY <2>4
      <4> QED BY <2>3, <3>2, <4>1, RefusalNoted
    <3>5. Unrefused(no) /\ \A r \in Scopes \ {s} : Quiet(n, no, r)
      <4>1. no.refused \in SUBSET (o.refused \cup {s})
        BY <3>3
      <4>2. \A h \in no.handles : h \in o.handles \/ h.scope = s
        BY <2>2, <3>3
      <4> QED BY <1>2, <3>3, <4>1, <4>2, OthersStay
    <3>6. o.bindings[s] # Missing
      BY <1>2, BoundIsThere DEF OffIs, Unbound
    <3>7. n.sequence \in Nat
      BY <1>2, NativeFields DEF Sound
    <3>8. Moves(n, no, {s})
      BY <1>2, <3>3, <3>6, <3>7 DEF Moves, OffIs
    <3>9. Synced(no, s, at, given) /\ Quiet(n, no, s)
      BY <3>3 DEF Synced, Quiet
    <3> QED BY <3>1, <3>4, <3>5, <3>8, <3>9 DEF RefreshesIn, Fit
  <2>7. CASE reg.token # 0
    <3>1. m = Publish(p, s)
      BY <1>1, <1>6, <2>7
    <3>2. p = [e EXCEPT !.bindings[s] = b]
      BY <2>4 DEF NativeState
    <3>3. /\ p.bindings[s] = b /\ (\A r \in Scopes \ {s} : p.bindings[r] = o.bindings[r])
          /\ p.handles = reg.table /\ p.sequence = o.sequence /\ p.changes = o.changes
          /\ p.refused = o.refused
      BY <2>4 DEF NativeState
    <3>4. Sound(p, at)
      <4>1. PICK k : k = reg.token
        OBVIOUS
      <4>2. k \in Nat \ {0} /\ k < e.next /\ [token |-> k, scope |-> s, object |-> now.target] \in e.handles
        BY <2>1, <2>5, <2>7, <4>1 DEF RegistersIn
      <4>3. p = [e EXCEPT !.bindings[s] = [attachment |-> now, handle |-> k]]
        BY <3>2, <4>1
      <4> HIDE DEF p, e
      <4>4. Sound([e EXCEPT !.bindings[s] = [attachment |-> now, handle |-> k]], at)
        BY <1>3, <1>6, <2>3, <4>2, BindingComes
      <4> QED BY <4>3, <4>4
    <3>5. b # Missing /\ b.attachment = now
      BY BoundIsThere
    <3> HIDE DEF p, e, b
    <3>6. p.bindings[s] # Missing /\ p.bindings[s].attachment = Current(s, at, given)
      BY <3>3, <3>5 DEF now
    <3>7. \A h \in p.handles : h \in o.handles \/ h.scope = s
      BY <2>2, <3>3
    <3>8. RefreshesIn(Publish(p, s), n, s, at, given)
      BY <1>2, <3>3, <3>4, <3>6, <3>7, ToldDoes
    <3> QED BY <3>1, <3>8
  <2> QED BY <2>6, <2>7
<1> QED BY <1>4, <1>5, <1>6

\* close_scope()
ClosesIn(m, n, s, at) ==
  /\ Fit(m, at) /\ m.bindings[s] = Missing /\ \A h \in m.handles : h.scope # s
  /\ \A r \in Scopes \ {s} : m.bindings[r] = n.bindings[r]
  /\ m.sequence = n.sequence /\ m.changes = n.changes /\ m.refused = n.refused

LEMMA ClosedDoes ==
  ASSUME NEW n, NEW at, Fit(n, at), NEW s \in Scopes
  PROVE  ClosesIn(Closed(n, s), n, s, at)
<1> DEFINE d == Disconnected(n, s)
           f == [d EXCEPT !.handles = {h \in @ : h.scope # s}]
           m == Closed(n, s)
<1> SUFFICES ClosesIn(m, n, s, at)
  OBVIOUS
<1>1. Sound(d, at) /\ DisconnectsIn(d, n, s)
  BY DisconnectedDoes DEF Fit
<1>2. d.bindings[s].handle = 0 /\ d \in NativeState /\ d.bindings \in [Scopes -> Bound]
  BY <1>1, BoundFields, NativeFields DEF DisconnectsIn, Sound
<1>3. m = [d EXCEPT !.bindings[s] = Missing, !.handles = {h \in @ : h.scope # s}]
  BY DEF Closed
<1> HIDE DEF d
<1>4. Sound(f, at)
  BY <1>1, <1>2, ScopeForgotten
<1>5. m = [f EXCEPT !.bindings[s] = Missing]
  BY <1>2, <1>3 DEF NativeState
<1>6. /\ m.bindings[s] = Missing /\ (\A r \in Scopes \ {s} : m.bindings[r] = n.bindings[r])
      /\ m.handles = {h \in d.handles : h.scope # s}
      /\ m.sequence = n.sequence /\ m.changes = n.changes /\ m.refused = n.refused
  BY <1>1, <1>2, <1>3 DEF NativeState, DisconnectsIn
<1> HIDE DEF m, f
<1>7. Sound(m, at)
  BY <1>4, <1>5, BindingGoes
<1>8. Unrefused(m)
  <2>1. n.refused \in SUBSET Scopes /\ \A r \in n.refused : n.bindings[r].attachment = None
    BY NativeFields DEF Fit, Sound, Unrefused
  <2> QED BY <1>6, <2>1, BoundFields DEF Unrefused
<1> QED BY <1>6, <1>7, <1>8 DEF ClosesIn, Fit

\* _binding()
AsksIn(m, s) ==
  /\ Fit(m, where) /\ Moves(Native, m, {s}) /\ \A r \in Scopes \ {s} : Quiet(Native, m, r)
  /\ IF s = RootScope /\ ~running THEN m = Native
     ELSE m.bindings[s] # Missing /\ Synced(m, s, where, attachment)

LEMMA AskedDoes ==
  ASSUME Fit(Native, where), attachment \in [Scopes -> Attached], NEW s \in Scopes
  PROVE  AsksIn(Asked(s), s)
<1> DEFINE N == Native
           g == [N EXCEPT !.bindings[s] = Unbound]
           n == IF N.bindings[s] = Missing THEN g ELSE N
           m == Asked(s)
<1> SUFFICES AsksIn(m, s)
  OBVIOUS
<1>1. N.bindings = bindings
  BY DEF Native
<1>2. m = IF s = RootScope /\ ~running THEN N ELSE Refreshed(n, s, where, attachment)
  BY <1>1 DEF Asked
<1> HIDE DEF m, N
<1>3. Fit(N, where) /\ Sound(N, where) /\ N = Native
  BY DEF Fit, N
<1>4. N \in NativeState /\ N.bindings \in [Scopes -> Bound] /\ N.sequence \in Nat /\ N.refused \in SUBSET Scopes
  BY <1>3, NativeFields DEF Sound
<1>5. Moves(N, N, {s}) /\ \A r \in Scopes : Quiet(N, N, r)
  BY <1>3, NothingMoves
<1>6. CASE s = RootScope /\ ~running
  BY <1>2, <1>3, <1>5, <1>6 DEF AsksIn
<1>7. CASE ~(s = RootScope /\ ~running)
  <2>1. Fit(n, where) /\ Moves(N, n, {s}) /\ (\A r \in Scopes \ {s} : Quiet(N, n, r)) /\ n.bindings[s] # Missing
    <3>1. CASE N.bindings[s] # Missing
      BY <1>3, <1>5, <3>1
    <3>2. CASE N.bindings[s] = Missing
      <4>1. n = g
        BY <3>2
      <4>2. /\ g.bindings[s] = Unbound /\ (\A r \in Scopes \ {s} : g.bindings[r] = N.bindings[r])
            /\ g.handles = N.handles /\ g.changes = N.changes /\ g.sequence = N.sequence
            /\ g.refused = N.refused
        BY <1>4 DEF NativeState
      <4>3. Sound(g, where)
        BY <1>3, BindingGoes
      <4> HIDE DEF g
      <4>4. Unrefused(g)
        BY <1>3, <1>4, <4>2, BoundFields DEF Unrefused, Fit
      <4>5. Unbound # Missing
        BY BoundIsThere DEF Unbound
      <4>6. SameBinding(N, g, s)
        BY <3>2, <4>2, BoundFields DEF SameBinding
      <4>7. Moves(N, g, {s})
        BY <1>4, <4>2, <4>5, <4>6 DEF Moves
      <4>8. \A r \in Scopes \ {s} : Quiet(N, g, r)
        BY <4>2 DEF Quiet
      <4> QED BY <4>1, <4>2, <4>3, <4>4, <4>5, <4>7, <4>8 DEF Fit
    <3> QED BY <3>1, <3>2
  <2> HIDE DEF n
  <2>2. m = Refreshed(n, s, where, attachment)
    BY <1>2, <1>7
  <2>3. RefreshesIn(Refreshed(n, s, where, attachment), n, s, where, attachment)
    BY <2>1, RefreshedDoes
  <2>4. RefreshesIn(m, n, s, where, attachment)
    BY <2>2, <2>3
  <2>5. Moves(n, m, {s})
    BY <2>4 DEF RefreshesIn
  <2>6. Moves(N, m, {s} \cup {s})
    <3>1. {s} \in SUBSET Scopes
      OBVIOUS
    <3>2. PICK S : S = {s}
      OBVIOUS
    <3>3. S \in SUBSET Scopes /\ Moves(N, n, S) /\ Moves(n, m, S)
      BY <2>1, <2>5, <3>1, <3>2
    <3>4. Moves(N, m, S \cup S)
      BY <3>3, MovesAddUp
    <3> QED BY <3>2, <3>4
  <2>7. {s} \cup {s} = {s}
    OBVIOUS
  <2>8. \A r \in Scopes \ {s} : Quiet(N, m, r)
    BY <2>1, <2>4, QuietAddsUp DEF RefreshesIn
  <2>9. m.bindings[s] # Missing
    BY <2>1, <2>5 DEF Moves
  <2>10. Fit(m, where) /\ Moves(N, m, {s}) /\ Synced(m, s, where, attachment)
    BY <2>4, <2>6, <2>7 DEF RefreshesIn
  <2> QED BY <1>3, <1>7, <2>8, <2>9, <2>10 DEF AsksIn
<1> QED BY <1>6, <1>7

-----------------------------------------------------------------------------
(* One scope after the other, in the order that FoldSet chooses: its          *)
(* recursive function exists, as that of a sum does.                          *)

Turn(k, at, given, s, n) ==
  IF k = "event" THEN Publish(n, s) ELSE IF n.bindings[s] = Missing THEN n ELSE Refreshed(n, s, at, given)
Turns(k, at, given, n, iter, s) ==
  IF s = {} THEN n ELSE Turn(k, at, given, Picked(s), iter[s \ {Picked(s)}])
Folds(k, at, given, n, iter, D) == iter = [s \in D |-> Turns(k, at, given, n, iter, s)]

\* The function exists.
LEMMA FoldsExist ==
  ASSUME NEW k, NEW at, NEW given, NEW base, NEW S, IsFiniteSet(S)
  PROVE  \E iter : Folds(k, at, given, base, iter, SUBSET S)
<1> DEFINE G(n) == {s \in SUBSET S : Cardinality(s) <= n}
           E(n) == \E iter : Folds(k, at, given, base, iter, G(n))
<1>1. \A s \in SUBSET S : IsFiniteSet(s) /\ Cardinality(s) \in Nat
  BY FS_Subset, FS_CardinalityType
<1>2. E(0)
  <2>1. G(0) = {{}}
    BY <1>1, FS_EmptySet
  <2> DEFINE iter == [s \in {{}} |-> base]
  <2>2. Folds(k, at, given, base, iter, G(0))
    BY <2>1 DEF Folds, Turns
  <2> QED BY <2>2
<1>3. ASSUME NEW n \in Nat, E(n) PROVE E(n + 1)
  <2>1. PICK iter : Folds(k, at, given, base, iter, G(n))
    BY <1>3
  <2> DEFINE next == [s \in G(n + 1) |-> Turns(k, at, given, base, iter, s)]
  <2>2. ASSUME NEW s \in G(n + 1), s # {} PROVE s \ {Picked(s)} \in G(n)
    <3>1. Picked(s) \in s /\ IsFiniteSet(s) /\ Cardinality(s) \in Nat
      BY <1>1, <2>2 DEF Picked
    <3>2. Cardinality(s \ {Picked(s)}) = Cardinality(s) - 1
      BY <3>1, FS_RemoveElement
    <3> QED BY <3>1, <3>2
  <2>3. G(n) \subseteq G(n + 1)
    BY <1>1
  <2>4. \A s \in G(n) : next[s] = iter[s]
    BY <2>1, <2>3 DEF Folds
  <2> HIDE DEF G
  <2>5. \A s \in G(n + 1) : Turns(k, at, given, base, iter, s) = Turns(k, at, given, base, next, s)
    BY <2>2, <2>4 DEF Turns
  <2>6. Folds(k, at, given, base, next, G(n + 1))
    BY <2>5 DEF Folds
  <2> HIDE DEF next
  <2> QED BY <2>6
<1> HIDE DEF E
<1>4. \A n \in Nat : E(n)
  <2> DEFINE T == {n \in Nat : ~E(n)}
  <2> SUFFICES ASSUME T # {} PROVE FALSE
    OBVIOUS
  <2>1. PICK n \in T : \A m \in T : n <= m
    BY LeastNatural
  <2>2. n \in Nat \ {0}
    BY <1>2
  <2>3. n - 1 \in Nat /\ E(n - 1) /\ (n - 1) + 1 = n
    BY <2>1, <2>2
  <2> QED BY <1>3, <2>3
<1> DEFINE c == Cardinality(S)
<1>5. c \in Nat /\ G(c) = SUBSET S
  BY FS_Subset, FS_CardinalityType
<1> QED BY <1>4, <1>5 DEF E

RefreshedAll(n, S, at, given) ==
  FoldSet(LAMBDA s, m : IF m.bindings[s] = Missing THEN m ELSE Refreshed(m, s, at, given), n, S)
PublishedAll(n, S) == FoldSet(LAMBDA s, m : Publish(m, s), n, S)

Folded(k, at, given, n, S) == CHOOSE iter : Folds(k, at, given, n, iter, SUBSET S)

\* binding_changed() of several scopes.
LEMMA FoldOfRefreshes ==
  ASSUME NEW at, NEW given, NEW n, NEW S, IsFiniteSet(S)
  PROVE  LET iter == Folded("refresh", at, given, n, S)
         IN  Folds("refresh", at, given, n, iter, SUBSET S) /\ RefreshedAll(n, S, at, given) = iter[S]
<1> DEFINE iter == Folded("refresh", at, given, n, S)
<1>1. Folds("refresh", at, given, n, iter, SUBSET S)
  BY FoldsExist DEF Folded
<1>2. RefreshedAll(n, S, at, given) = iter[S]
  BY DEF RefreshedAll, FoldSet, MapThenFoldSet, Folded, Folds, Turns, Turn, Picked
<1> QED BY <1>1, <1>2

\* The events of several scopes.
LEMMA FoldOfEvents ==
  ASSUME NEW n, NEW S, IsFiniteSet(S)
  PROVE  LET iter == Folded("event", where, attachment, n, S)
         IN  Folds("event", where, attachment, n, iter, SUBSET S) /\ PublishedAll(n, S) = iter[S]
<1> DEFINE iter == Folded("event", where, attachment, n, S)
<1>1. Folds("event", where, attachment, n, iter, SUBSET S)
  BY FoldsExist DEF Folded
<1>2. PublishedAll(n, S) = iter[S]
  BY DEF PublishedAll, FoldSet, MapThenFoldSet, Folded, Folds, Turns, Turn, Picked
<1> QED BY <1>1, <1>2

\* binding_changed() of several scopes refreshes each.
ChangesIn(m, n, S, at, given) ==
  /\ Fit(m, at) /\ Moves(n, m, S) /\ \A r \in Scopes : Quiet(n, m, r)
  /\ \A r \in S : m.bindings[r] = Missing \/ Synced(m, r, at, given)

LEMMA ChangeOfOneMore ==
  ASSUME NEW n, NEW at, NEW given \in [Scopes -> Attached], NEW T \in SUBSET Scopes,
         NEW x \in Scopes \ T, NEW i, ChangesIn(i, n, T, at, given)
  PROVE  ChangesIn(Turn("refresh", at, given, x, i), n, T \cup {x}, at, given)
<1> DEFINE m == Turn("refresh", at, given, x, i)
<1>1. /\ Fit(i, at) /\ Moves(n, i, T) /\ (\A r \in Scopes : Quiet(n, i, r))
      /\ \A r \in T : i.bindings[r] = Missing \/ Synced(i, r, at, given)
  BY DEF ChangesIn
<1>2. /\ Fit(m, at) /\ Moves(i, m, {x}) /\ (\A r \in Scopes : Quiet(i, m, r))
      /\ m.bindings[x] = Missing \/ Synced(m, x, at, given)
  <2>1. CASE i.bindings[x] = Missing
    <3>1. m = i
      BY <2>1 DEF Turn
    <3>2. Moves(i, i, {x}) /\ \A r \in Scopes : Quiet(i, i, r)
      BY <1>1, NothingMoves DEF Fit
    <3> QED BY <1>1, <2>1, <3>1, <3>2
  <2>2. CASE i.bindings[x] # Missing
    <3>1. m = Refreshed(i, x, at, given)
      BY <2>2 DEF Turn
    <3>2. RefreshesIn(Refreshed(i, x, at, given), i, x, at, given)
      BY <1>1, <2>2, RefreshedDoes
    <3> QED BY <3>1, <3>2 DEF RefreshesIn
  <2> QED BY <2>1, <2>2
<1> SUFFICES ChangesIn(m, n, T \cup {x}, at, given)
  OBVIOUS
<1> HIDE DEF m
<1>3. Moves(n, m, T \cup {x})
  <2>1. PICK S : S = {x}
    OBVIOUS
  <2>2. S \in SUBSET Scopes /\ Moves(i, m, S)
    BY <1>2, <2>1
  <2>3. Moves(n, m, T \cup S)
    BY <1>1, <2>2, MovesAddUp
  <2> QED BY <2>1, <2>3
<1>4. \A r \in Scopes : Quiet(n, m, r)
  BY <1>1, <1>2, QuietAddsUp
<1>5. \A r \in T : m.bindings[r] = i.bindings[r] /\ (r \in m.refused <=> r \in i.refused)
  BY <1>2 DEF Moves
<1>6. \A r \in T : m.bindings[r] = Missing \/ Synced(m, r, at, given)
  BY <1>1, <1>5 DEF Synced
<1> QED BY <1>2, <1>3, <1>4, <1>6 DEF ChangesIn

\* A subset of a finite set is itself without what is picked first, and that.
LEMMA PickedFirst ==
  ASSUME NEW s, s # {}
  PROVE  Picked(s) \in s /\ s = (s \ {Picked(s)}) \cup {Picked(s)} /\ Picked(s) \notin s \ {Picked(s)}
<1>1. Picked(s) \in s
  BY DEF Picked
<1> QED BY <1>1

\* binding_changed()
LEMMA ChangedDoes ==
  ASSUME NEW n, NEW at, Fit(n, at), NEW given \in [Scopes -> Attached], NEW S \in SUBSET Scopes
  PROVE  ChangesIn(RefreshedAll(n, S, at, given), n, S, at, given)
<1>1. IsFiniteSet(S)
  <2>1. IsFiniteSet(ModuleScopes \cup {RootScope})
    BY FS_AddElement
  <2> QED BY <2>1, FS_Subset DEF Scopes
<1>2. PICK iter : iter = Folded("refresh", at, given, n, S)
  OBVIOUS
<1>3. Folds("refresh", at, given, n, iter, SUBSET S) /\ RefreshedAll(n, S, at, given) = iter[S]
  BY <1>1, <1>2, FoldOfRefreshes
<1> DEFINE D == {s \in SUBSET S : ~ChangesIn(iter[s], n, s, at, given)}
<1>4. D = {}
  <2> SUFFICES ASSUME D # {} PROVE FALSE
    OBVIOUS
  <2>1. PICK s \in D : \A u \in D : u \subseteq s => u = s
    <3>1. D \in SUBSET SUBSET S
      OBVIOUS
    <3> HIDE DEF D
    <3> QED BY <1>1, <3>1, SmallestSet
  <2>2. iter[s] = Turns("refresh", at, given, n, iter, s)
    BY <1>3 DEF Folds
  <2>3. s # {}
    <3>1. ASSUME s = {} PROVE FALSE
      <4>1. iter[s] = n
        BY <2>2, <3>1 DEF Turns
      <4>2. {} \in SUBSET Scopes /\ Sound(n, at)
        BY DEF Fit
      <4>3. Moves(n, n, {}) /\ \A r \in Scopes : Quiet(n, n, r)
        BY <4>2, NothingMoves
      <4>4. ChangesIn(n, n, {}, at, given)
        BY <4>3 DEF ChangesIn
      <4> QED BY <3>1, <4>1, <4>4
    <3> QED BY <3>1
  <2>4. PICK x, T : x = Picked(s) /\ T = s \ {Picked(s)}
    OBVIOUS
  <2>5. x \in Scopes \ T /\ T \in SUBSET S /\ T \in SUBSET Scopes /\ s = T \cup {x} /\ T # s /\ T \subseteq s
    BY <2>3, <2>4, PickedFirst
  <2>6. ChangesIn(iter[T], n, T, at, given)
    BY <2>1, <2>5
  <2>7. iter[s] = Turn("refresh", at, given, x, iter[T])
    BY <2>2, <2>3, <2>4 DEF Turns
  <2>8. ~ChangesIn(iter[s], n, s, at, given)
    OBVIOUS
  <2> HIDE DEF D
  <2>9. ChangesIn(Turn("refresh", at, given, x, iter[T]), n, T \cup {x}, at, given)
    BY <2>5, <2>6, ChangeOfOneMore
  <2> QED BY <2>5, <2>7, <2>8, <2>9
<1> QED BY <1>3, <1>4

\* The events of several scopes: all their hooks have news, and nothing else changes.
EventsIn(m, n, S, at) ==
  /\ Fit(m, at) /\ Moves(n, m, S) /\ \A r \in S : AllNews(n, m, r)
  /\ m.bindings = n.bindings /\ m.handles = n.handles

LEMMA EventOfOneMore ==
  ASSUME NEW n, NEW at, NEW T \in SUBSET Scopes, NEW x \in Scopes \ T, NEW i, EventsIn(i, n, T, at)
  PROVE  EventsIn(Publish(i, x), n, T \cup {x}, at)
<1> DEFINE m == Publish(i, x)
<1> SUFFICES EventsIn(m, n, T \cup {x}, at)
  OBVIOUS
<1>1. Fit(i, at) /\ Moves(n, i, T) /\ (\A r \in T : AllNews(n, i, r))
      /\ i.bindings = n.bindings /\ i.handles = n.handles /\ i.sequence \in Nat
  BY DEF EventsIn, Moves
<1>2. Sound(m, at) /\ PublishesIn(m, i, x)
  BY <1>1, PublishDoes DEF Fit
<1> HIDE DEF m
<1>3. Unrefused(m)
  BY <1>1, <1>2 DEF PublishesIn, Unrefused, Fit
<1>4. Moves(i, m, {x}) /\ AllNews(i, m, x)
  BY <1>1, <1>2 DEF Moves, PublishesIn, AllNews
<1>5. Moves(n, m, T \cup {x})
  <2>1. PICK S : S = {x}
    OBVIOUS
  <2>2. S \in SUBSET Scopes /\ Moves(i, m, S)
    BY <1>4, <2>1
  <2>3. Moves(n, m, T \cup S)
    BY <1>1, <2>2, MovesAddUp
  <2> QED BY <2>1, <2>3
<1>6. \A r \in T : AllNews(n, m, r)
  BY <1>1, <1>4 DEF Moves, AllNews
<1>7. AllNews(n, m, x)
  BY <1>1, <1>4 DEF Moves, AllNews
<1> QED BY <1>1, <1>2, <1>3, <1>5, <1>6, <1>7 DEF EventsIn, Fit, PublishesIn

\* The signal that bindings to a target follow.
LEMMA EventsDo ==
  ASSUME NEW n, NEW at, Fit(n, at), NEW S \in SUBSET Scopes
  PROVE  EventsIn(PublishedAll(n, S), n, S, at)
<1>1. IsFiniteSet(S)
  <2>1. IsFiniteSet(ModuleScopes \cup {RootScope})
    BY FS_AddElement
  <2> QED BY <2>1, FS_Subset DEF Scopes
<1>2. PICK iter : iter = Folded("event", where, attachment, n, S)
  OBVIOUS
<1>3. Folds("event", where, attachment, n, iter, SUBSET S) /\ PublishedAll(n, S) = iter[S]
  BY <1>1, <1>2, FoldOfEvents
<1> DEFINE D == {s \in SUBSET S : ~EventsIn(iter[s], n, s, at)}
<1>4. D = {}
  <2> SUFFICES ASSUME D # {} PROVE FALSE
    OBVIOUS
  <2>1. PICK s \in D : \A u \in D : u \subseteq s => u = s
    <3>1. D \in SUBSET SUBSET S
      OBVIOUS
    <3> HIDE DEF D
    <3> QED BY <1>1, <3>1, SmallestSet
  <2>2. iter[s] = Turns("event", where, attachment, n, iter, s)
    BY <1>3 DEF Folds
  <2>3. s # {}
    <3>1. ASSUME s = {} PROVE FALSE
      <4>1. iter[s] = n
        BY <2>2, <3>1 DEF Turns
      <4>2. {} \in SUBSET Scopes /\ Sound(n, at)
        BY DEF Fit
      <4>3. Moves(n, n, {})
        BY <4>2, NothingMoves
      <4>4. EventsIn(n, n, {}, at)
        BY <4>3 DEF EventsIn
      <4> QED BY <3>1, <4>1, <4>4
    <3> QED BY <3>1
  <2>4. PICK x, T : x = Picked(s) /\ T = s \ {Picked(s)}
    OBVIOUS
  <2>5. x \in Scopes \ T /\ T \in SUBSET S /\ T \in SUBSET Scopes /\ s = T \cup {x} /\ T # s /\ T \subseteq s
    BY <2>3, <2>4, PickedFirst
  <2>6. EventsIn(iter[T], n, T, at)
    BY <2>1, <2>5
  <2>7. iter[s] = Publish(iter[T], x)
    BY <2>2, <2>3, <2>4 DEF Turns, Turn
  <2>8. ~EventsIn(iter[s], n, s, at)
    OBVIOUS
  <2> HIDE DEF D
  <2>9. EventsIn(Publish(iter[T], x), n, T \cup {x}, at)
    BY <2>5, <2>6, EventOfOneMore
  <2> QED BY <2>5, <2>7, <2>8, <2>9
<1> QED BY <1>3, <1>4

-----------------------------------------------------------------------------
(* The scene: the bindings, the game's attachments and the hooks. *)

HookState ==
  [pc : {"off", "bind", "read", "idle"}, asked : Nat, shown : Nat, value : Nat, sequence : Nat]

UpToDate(n, s, at, given) ==
  \/ Synced(n, s, at, given) \/ n.bindings[s] = Missing
  \/ n.bindings[s].attachment # None /\ Gone(n.bindings[s].attachment.target, at)

Shows(b, h, val) ==
  /\ h.pc = "read" => h.asked = b.handle
  /\ h.pc = "idle" => h.shown = b.handle /\ (h.shown # 0 => h.value = val[b.attachment.target])

\* A hook shows the binding, unless it is yet to be told.
Follows(n, h, s, run, val) ==
  \/ s \in n.refused \/ (s = RootScope /\ ~run) \/ News(n.changes, h.sequence, s)
  \/ Shows(n.bindings[s], h, val)

HookIs(n, h, s, run, val) ==
  /\ h \in HookState /\ h.sequence <= n.sequence /\ Follows(n, h, s, run, val)
  /\ (h.pc \in {"read", "idle"} /\ (s = RootScope => run)) => n.bindings[s] # Missing
  /\ h.pc = "read" => h.asked # 0

Stopped(n, run) ==
  ~run => n.bindings[RootScope] = Missing /\ \A h \in n.handles : h.scope # RootScope

Scene(n, at, val, run, given, hooks) ==
  /\ at \in Where /\ val \in [Targets -> Nat] /\ run \in BOOLEAN
  /\ given \in [Scopes -> Attached] /\ hooks \in [Scopes -> HookState]
  /\ Fit(n, at) /\ Stopped(n, run)
  /\ \A s \in Scopes : UpToDate(n, s, at, given) /\ HookIs(n, hooks[s], s, run, val)

SceneInv == Scene(Native, where, value, running, attachment, hook) /\ gameSteps \in Nat

\* A hook that showed its binding shows it still or has news.
LEMMA HookStays ==
  ASSUME NEW n, NEW m, NEW S \in SUBSET Scopes, Moves(n, m, S), NEW s \in Scopes, NEW h, NEW run,
         NEW val, HookIs(n, h, s, run, val)
  PROVE  HookIs(m, h, s, run, val)
<1>1. n.sequence \in Nat /\ m.sequence \in Nat /\ n.sequence <= m.sequence /\ h.sequence \in Nat
      /\ h.sequence <= n.sequence
  BY DEF Moves, HookIs, HookState
<1>2. h.sequence \in 0..n.sequence /\ h.sequence <= m.sequence
  BY <1>1
<1>3. n.bindings[s] # Missing => m.bindings[s] # Missing
  BY DEF Moves
<1>4. Follows(m, h, s, run, val)
  <2>1. AllNews(n, m, s) => News(m.changes, h.sequence, s)
    BY <1>2 DEF AllNews
  <2>2. News(n.changes, h.sequence, s) => News(m.changes, h.sequence, s)
    BY DEF Moves
  <2>3. \/ SameBinding(n, m, s) /\ (s \in n.refused => s \in m.refused)
        \/ s \in m.refused \/ AllNews(n, m, s)
    BY DEF Moves, SameBinding
  <2>4. SameBinding(n, m, s) /\ Shows(n.bindings[s], h, val) => Shows(m.bindings[s], h, val)
    BY DEF Shows, SameBinding
  <2> QED BY <2>1, <2>2, <2>3, <2>4 DEF Follows, HookIs
<1> QED BY <1>2, <1>3, <1>4 DEF HookIs

\* A binding that nobody touched is still what it should be, or its object has ended.
LEMMA UpToDateStays ==
  ASSUME NEW n \in NativeState, NEW m, NEW r \in Scopes, NEW at, NEW given, UpToDate(n, r, at, given),
         NEW then, NEW now, \A t \in Targets : Gone(t, at) => Gone(t, then),
         m.bindings[r] = n.bindings[r], r \in n.refused => r \in m.refused,
         \/ Current(r, then, now) = Current(r, at, given)
         \/ now = given /\ given[r] # None /\ Gone(given[r].target, then)
  PROVE  UpToDate(m, r, then, now)
<1>1. n.bindings[r].attachment # None => n.bindings[r].attachment.target \in Targets
  BY NativeFields, BoundFields, AttachedIs
<1>2. CASE Synced(n, r, at, given) /\ Current(r, then, now) = Current(r, at, given)
  BY <1>2 DEF Synced, UpToDate
<1>3. CASE Synced(n, r, at, given) /\ now = given /\ given[r] # None /\ Gone(given[r].target, then)
  <2>1. Current(r, then, now) = None
    BY <1>3 DEF Current, Gone
  <2>2. Current(r, at, given) = None \/ Current(r, at, given) = given[r]
    BY DEF Current
  <2> QED BY <1>3, <2>1, <2>2 DEF Synced, UpToDate
<1>4. CASE ~Synced(n, r, at, given)
  BY <1>1, <1>4 DEF UpToDate
<1> QED BY <1>2, <1>3, <1>4

\* The scopes that a change is about are told, and the others have nothing to follow.
LEMMA ChangeKeepsScene ==
  ASSUME NEW n, NEW at, NEW val, NEW run, NEW given, NEW hooks, Scene(n, at, val, run, given, hooks),
         NEW then \in Where, \A t \in Targets : Gone(t, at) => Gone(t, then),
         NEW now \in [Scopes -> Attached], NEW S \in SUBSET Scopes,
         \A r \in Scopes \ S : \/ Current(r, then, now) = Current(r, at, given)
                               \/ now = given /\ given[r] # None /\ Gone(given[r].target, then)
  PROVE  Scene(RefreshedAll(n, S, then, now), then, val, run, now, hooks)
<1> DEFINE m == RefreshedAll(n, S, then, now)
<1> SUFFICES Scene(m, then, val, run, now, hooks)
  OBVIOUS
<1>1. Fit(n, then) /\ n \in NativeState
  BY SoundLater DEF Scene, Fit, Sound
<1>2. ChangesIn(m, n, S, then, now)
  BY <1>1, ChangedDoes
<1> HIDE DEF m
<1>3. ASSUME NEW r \in Scopes PROVE UpToDate(m, r, then, now)
  <2>1. CASE r \in S
    BY <1>2, <2>1 DEF ChangesIn, UpToDate
  <2>2. CASE r \notin S
    <3>1. m.bindings[r] = n.bindings[r] /\ (r \in n.refused => r \in m.refused)
      BY <1>2, <2>2 DEF ChangesIn, Moves
    <3>2. UpToDate(n, r, at, given)
      BY DEF Scene
    <3> QED BY <1>1, <2>2, <3>1, <3>2, UpToDateStays
  <2> QED BY <2>1, <2>2
<1>4. \A s \in Scopes : HookIs(m, hooks[s], s, run, val)
  <2>1. Moves(n, m, S)
    BY <1>2 DEF ChangesIn
  <2> QED BY <2>1, HookStays DEF Scene
<1>5. Stopped(m, run)
  <2>1. Quiet(n, m, RootScope) /\ Stopped(n, run)
    BY <1>2 DEF ChangesIn, Scopes, Scene
  <2> QED BY <2>1 DEF Quiet, Stopped
<1> QED BY <1>2, <1>3, <1>4, <1>5 DEF Scene, ChangesIn

\* The record holds the native state's variables.
LEMMA NativeIs ==
  /\ Native.bindings = bindings /\ Native.handles = handles /\ Native.next = nextToken
  /\ Native.sequence = sequence /\ Native.changes = changes /\ Native.revoked = revoked
  /\ Native.refused = refused
BY DEF Native

\* The native state after a step.
LEMMA NativeThen ==
  ASSUME NEW m \in NativeState, NativeBecomes(m)
  PROVE  Native' = m
<1>1. m = [bindings |-> m.bindings, handles |-> m.handles, next |-> m.next, sequence |-> m.sequence,
           changes |-> m.changes, revoked |-> m.revoked, refused |-> m.refused]
  BY DEF NativeState
<1> QED BY <1>1 DEF Native, NativeBecomes

\* The scene begins.
LEMMA SceneBegins == SceneInit => SceneInv
<1> SUFFICES ASSUME SceneInit PROVE SceneInv
  OBVIOUS
<1>1. /\ bindings \in [Scopes -> Bound] /\ (\A s \in Scopes : bindings[s] = Missing)
      /\ attachment \in [Scopes -> Attached] /\ (\A s \in Scopes : attachment[s] = None)
  BY BoundFields, AttachedIs DEF SceneInit
<1>2. Native \in NativeState
  <2>1. changes \in Seq(Change) /\ Len(changes) = 0
    BY DEF SceneInit
  <2>2. handles \in SUBSET Handle /\ nextToken \in Nat \ {0} /\ sequence \in Nat
        /\ revoked \in SUBSET Nat /\ refused \in SUBSET Scopes
    BY DEF SceneInit
  <2> QED BY <1>1, <2>1, <2>2 DEF Native, NativeState
<1>3. TableIs({}, 1)
  BY FS_EmptySet DEF TableIs
<1>4. Native.handles = {} /\ Native.next = 1 /\ Native.changes = <<>> /\ Native.bindings = bindings
      /\ Native.revoked = {} /\ Native.refused = {} /\ Native.sequence = 0
  BY NativeIs DEF SceneInit
<1>5. Fit(Native, where)
  BY <1>1, <1>2, <1>3, <1>4, BoundFields DEF Fit, Unrefused, Sound, Numbered, BindingIs, Own
<1>6. \A s \in Scopes : UpToDate(Native, s, where, attachment)
  BY <1>1, <1>4 DEF UpToDate
<1>7. \A s \in Scopes : hook[s] \in HookState /\ hook[s].pc = "off" /\ hook[s].sequence = 0
  BY DEF SceneInit, HookState
<1>8. \A s \in Scopes : HookIs(Native, hook[s], s, running, value)
  BY <1>4, <1>7 DEF HookIs, Follows, Shows
<1>9. /\ where \in Where /\ value \in [Targets -> Nat] /\ hook \in [Scopes -> HookState]
      /\ running = TRUE /\ gameSteps \in Nat
  BY <1>7 DEF SceneInit, Where, HookState
<1> QED BY <1>1, <1>5, <1>6, <1>8, <1>9 DEF SceneInv, Scene, Stopped

\* What binding_changed() of some scopes makes of the scene.
LEMMA ChangedStep ==
  ASSUME SceneInv, where' \in Where, \A t \in Targets : Gone(t, where) => Gone(t, where'),
         attachment' \in [Scopes -> Attached], NEW S \in SUBSET Scopes,
         \A r \in Scopes \ S :
           \/ Current(r, where', attachment') = Current(r, where, attachment)
           \/ attachment' = attachment /\ attachment[r] # None /\ Gone(attachment[r].target, where'),
         Changed(S, where', attachment'), UNCHANGED <<running, value, hook>>, gameSteps' \in Nat
  PROVE  SceneInv'
<1>1. PICK m : m = RefreshedAll(Native, S, where', attachment')
  OBVIOUS
<1>2. NativeBecomes(m)
  BY <1>1 DEF Changed, RefreshedAll
<1>3. PICK n, at, val, run, given, hooks, then, now :
        /\ n = Native /\ at = where /\ val = value /\ run = running /\ given = attachment
        /\ hooks = hook /\ then = where' /\ now = attachment'
  OBVIOUS
<1>4. Scene(n, at, val, run, given, hooks)
  BY <1>3 DEF SceneInv
<1>5. /\ then \in Where /\ (\A t \in Targets : Gone(t, at) => Gone(t, then))
      /\ now \in [Scopes -> Attached]
      /\ \A r \in Scopes \ S : \/ Current(r, then, now) = Current(r, at, given)
                               \/ now = given /\ given[r] # None /\ Gone(given[r].target, then)
  BY <1>3
<1>6. Scene(RefreshedAll(n, S, then, now), then, val, run, now, hooks)
  BY <1>4, <1>5, ChangeKeepsScene
<1>7. Scene(m, where', value, running, attachment', hook)
  BY <1>1, <1>3, <1>6
<1>8. Native' = m
  BY <1>2, <1>7, NativeThen DEF Scene, Fit, Sound
<1> QED BY <1>7, <1>8 DEF SceneInv

-----------------------------------------------------------------------------
(* The game's steps. *)

\* What the scene says of the game's own state.
LEMMA SceneFacts ==
  ASSUME SceneInv
  PROVE  /\ where \in Where /\ value \in [Targets -> Nat] /\ running \in BOOLEAN /\ gameSteps \in Nat
         /\ attachment \in [Scopes -> Attached] /\ hook \in [Scopes -> HookState]
         /\ Fit(Native, where) /\ Sound(Native, where) /\ Native \in NativeState
         /\ \A s \in Scopes : /\ UpToDate(Native, s, where, attachment)
                              /\ HookIs(Native, hook[s], s, running, value)
BY DEF SceneInv, Scene, Fit, Sound

\* Attach: one scope gets an attachment.
LEMMA AttachKeeps ==
  ASSUME SceneInv, NEW s \in Scopes, NEW t \in Targets, Attach(s, t)
  PROVE  SceneInv'
<1>1. gameSteps' \in Nat /\ where' = where /\ where \in Where /\ attachment \in [Scopes -> Attached]
  BY SceneFacts DEF Attach, GameStep
<1>2. attachment' \in [Scopes -> Attached] /\ \A r \in Scopes \ {s} : attachment'[r] = attachment[r]
  BY <1>1 DEF Attach, Attached
<1>3. \A r \in Scopes \ {s} : Current(r, where', attachment') = Current(r, where, attachment)
  BY <1>1, <1>2 DEF Current
<1>4. Changed({s}, where', attachment') /\ UNCHANGED <<running, value, hook>>
  BY <1>1 DEF Attach
<1>5. {s} \in SUBSET Scopes
  OBVIOUS
<1> QED BY <1>1, <1>2, <1>3, <1>4, <1>5, ChangedStep

\* Detach: one scope loses it.
LEMMA DetachKeeps ==
  ASSUME SceneInv, NEW s \in Scopes, Detach(s)
  PROVE  SceneInv'
<1>1. gameSteps' \in Nat /\ where' = where /\ where \in Where /\ attachment \in [Scopes -> Attached]
  BY SceneFacts DEF Detach, GameStep
<1>2. attachment' \in [Scopes -> Attached] /\ \A r \in Scopes \ {s} : attachment'[r] = attachment[r]
  BY <1>1, AttachedIs DEF Detach
<1>3. \A r \in Scopes \ {s} : Current(r, where', attachment') = Current(r, where, attachment)
  BY <1>1, <1>2 DEF Current
<1>4. Changed({s}, where', attachment') /\ UNCHANGED <<running, value, hook>>
  BY <1>1 DEF Detach
<1>5. {s} \in SUBSET Scopes
  OBVIOUS
<1> QED BY <1>1, <1>2, <1>3, <1>4, <1>5, ChangedStep

\* Move: the scopes attached to the node are told.
LEMMA MoveKeeps ==
  ASSUME SceneInv, NEW t \in Targets, Move(t)
  PROVE  SceneInv'
<1>1. gameSteps' \in Nat /\ attachment' = attachment /\ where \in Where /\ attachment \in [Scopes -> Attached]
  BY SceneFacts DEF Move, GameStep
<1>2. where' \in Where /\ \A u \in Targets \ {t} : where'[u] = where[u]
  BY <1>1 DEF Move, Where
<1>3. \A u \in Targets : Gone(u, where) => Gone(u, where')
  BY <1>2 DEF Move, Gone
<1>4. \A r \in Scopes \ AttachedTo(t) : Current(r, where', attachment') = Current(r, where, attachment)
  <2>1. \A r \in Scopes : attachment[r] # None => attachment[r].target \in Targets
    BY <1>1, AttachedIs
  <2> QED BY <1>1, <1>2, <2>1 DEF Current, AttachedTo
<1>5. Changed(AttachedTo(t), where', attachment') /\ UNCHANGED <<running, value, hook>>
  BY <1>1 DEF Move
<1>6. AttachedTo(t) \in SUBSET Scopes
  BY DEF AttachedTo
<1> QED BY <1>1, <1>2, <1>3, <1>4, <1>5, <1>6, ChangedStep

\* Free: only the scopes of a node are told; of an object, nobody is.
LEMMA FreeKeeps ==
  ASSUME SceneInv, NEW t \in Targets, Free(t)
  PROVE  SceneInv'
<1> DEFINE S == IF t \in Nodes THEN AttachedTo(t) ELSE {}
<1>1. gameSteps' \in Nat /\ attachment' = attachment /\ where \in Where /\ attachment \in [Scopes -> Attached]
  BY SceneFacts DEF Free, GameStep
<1>2. where' \in Where /\ (\A u \in Targets \ {t} : where'[u] = where[u]) /\ where'[t] = "gone"
  BY <1>1 DEF Free, Where
<1>3. \A u \in Targets : Gone(u, where) => Gone(u, where')
  BY <1>2 DEF Gone
<1>4. \A r \in Scopes \ S :
        \/ Current(r, where', attachment') = Current(r, where, attachment)
        \/ attachment' = attachment /\ attachment[r] # None /\ Gone(attachment[r].target, where')
  <2>1. \A r \in Scopes : attachment[r] # None => attachment[r].target \in Targets
    BY <1>1, AttachedIs
  <2> QED BY <1>1, <1>2, <2>1 DEF Current, Gone
<1>5. Changed(S, where', attachment') /\ UNCHANGED <<running, value, hook>>
  BY <1>1 DEF Free
<1>6. S \in SUBSET Scopes
  BY DEF AttachedTo
<1> HIDE DEF S
<1> QED BY <1>1, <1>2, <1>3, <1>4, <1>5, <1>6, ChangedStep

\* process_frame(): the world is as it was.
LEMMA ProcessFrameKeeps ==
  ASSUME SceneInv, ProcessFrame
  PROVE  SceneInv'
<1> DEFINE S == {s \in Scopes : /\ bindings[s].attachment # None
                                /\ where[bindings[s].attachment.target] # "in"}
<1>1. /\ gameSteps' \in Nat /\ attachment' = attachment /\ where' = where /\ where \in Where
      /\ attachment \in [Scopes -> Attached]
  BY SceneFacts DEF ProcessFrame
<1>2. Changed(S, where', attachment') /\ UNCHANGED <<running, value, hook>>
  BY <1>1 DEF ProcessFrame
<1>3. S \in SUBSET Scopes
  OBVIOUS
<1> HIDE DEF S
<1>4. \A r \in Scopes \ S : Current(r, where', attachment') = Current(r, where, attachment)
  BY <1>1
<1> QED BY <1>1, <1>2, <1>3, <1>4, ChangedStep

\* A step that leaves a scene does not harm.
LEMMA SceneThen ==
  ASSUME NEW m, NativeBecomes(m), Scene(m, where', value', running', attachment', hook'),
         gameSteps' \in Nat
  PROVE  SceneInv'
<1>1. Native' = m
  BY NativeThen DEF Scene, Fit, Sound
<1> QED BY <1>1 DEF SceneInv

\* Emit: the hooks of the bindings to the target have news.
LEMMA EmitKeeps ==
  ASSUME SceneInv, NEW t \in Targets, Emit(t)
  PROVE  SceneInv'
<1> DEFINE S == {s \in Scopes : bindings[s].attachment.target = t}
<1>1. PICK m : m = PublishedAll(Native, S)
  OBVIOUS
<1>2. NativeBecomes(m) /\ UNCHANGED <<running, where, attachment, hook>> /\ gameSteps' \in Nat
  <2>1. NativeBecomes(m)
    BY <1>1 DEF Emit, PublishedAll
  <2>2. GameStep /\ gameSteps \in Nat
    BY SceneFacts DEF Emit
  <2>3. gameSteps' \in Nat
    BY <2>2 DEF GameStep
  <2> QED BY <2>1, <2>3 DEF Emit
<1>3. value' \in [Targets -> Nat] /\ \A u \in Targets \ {t} : value'[u] = value[u]
  <2>1. value \in [Targets -> Nat] /\ value' = [value EXCEPT ![t] = @ + 1]
    BY SceneFacts DEF Emit
  <2>2. value[t] + 1 \in Nat
    BY <2>1
  <2> QED BY <2>1, <2>2
<1>4. S \in SUBSET Scopes /\ \A r \in S : Native.bindings[r].attachment.target = t
  BY NativeIs
<1>5. \A r \in Scopes \ S : Native.bindings[r].attachment.target # t
  BY NativeIs
<1> HIDE DEF S
<1>6. EventsIn(m, Native, S, where)
  BY <1>1, <1>4, SceneFacts, EventsDo
<1>7. PICK n : n = Native
  OBVIOUS
<1>8. /\ Fit(m, where) /\ Moves(n, m, S) /\ (\A r \in S : AllNews(n, m, r))
      /\ m.bindings = n.bindings /\ m.handles = n.handles
      /\ Fit(n, where) /\ n \in NativeState /\ Scene(n, where, value, running, attachment, hook)
  BY <1>6, <1>7, SceneFacts DEF EventsIn, SceneInv
<1>9. ASSUME NEW r \in Scopes PROVE UpToDate(m, r, where, attachment)
  <2>1. UpToDate(n, r, where, attachment)
    BY <1>8 DEF Scene
  <2>2. r \in n.refused => r \in m.refused
    <3>1. ASSUME r \in n.refused, r \in S PROVE FALSE
      BY <1>4, <1>7, <1>8, <3>1, AttachedIs DEF Fit, Unrefused
    <3>2. r \notin S => (r \in n.refused => r \in m.refused)
      BY <1>8 DEF Moves
    <3> QED BY <3>1, <3>2
  <2> QED BY <1>8, <2>1, <2>2 DEF UpToDate, Synced
<1>10. ASSUME NEW r \in Scopes PROVE HookIs(m, hook[r], r, running, value')
  <2>1. PICK h : h = hook[r]
    OBVIOUS
  <2>2. HookIs(n, h, r, running, value)
    BY <1>8, <2>1 DEF Scene
  <2>3. HookIs(m, h, r, running, value)
    BY <1>4, <1>8, <2>2, HookStays
  <2>4. Follows(m, h, r, running, value')
    <3>1. CASE r \in S
      <4>1. n.sequence \in Nat /\ h.sequence \in Nat /\ h.sequence <= n.sequence
        BY <1>8, <2>2 DEF HookIs, HookState, Moves
      <4>2. h.sequence \in 0..n.sequence
        BY <4>1
      <4> QED BY <1>8, <3>1, <4>2 DEF AllNews, Follows
    <3>2. CASE r \notin S
      <4>1. m.bindings[r].attachment.target # t
        BY <1>5, <1>7, <1>8, <3>2
      <4>2. m.bindings[r].handle # 0 => m.bindings[r].attachment.target \in Targets
        <5>1. BindingIs(m.bindings[r], r, m.handles, m.next, where) /\ m.bindings[r] \in Bound
          BY <1>8, NativeFields DEF Fit, Sound
        <5> QED BY <5>1, BoundFields, AttachedIs DEF BindingIs
      <4>3. Shows(m.bindings[r], h, value) => Shows(m.bindings[r], h, value')
        BY <1>3, <4>1, <4>2 DEF Shows
      <4> QED BY <2>3, <4>3 DEF HookIs, Follows
    <3> QED BY <3>1, <3>2
  <2> QED BY <2>1, <2>3, <2>4 DEF HookIs
<1>11. Stopped(m, running)
  BY <1>8 DEF Scene, Stopped
<1>12. Scene(m, where', value', running', attachment', hook')
  BY <1>2, <1>3, <1>8, <1>9, <1>10, <1>11 DEF Scene
<1> QED BY <1>2, <1>12, SceneThen

\* The scope of a root that stops is as if nobody had asked.
LEMMA ClosedScene ==
  ASSUME NEW n, NEW at, NEW val, NEW run, NEW given, NEW hooks, Scene(n, at, val, run, given, hooks)
  PROVE  Scene(Closed(n, RootScope), at, val, FALSE, given, hooks)
<1>1. PICK m : m = Closed(n, RootScope)
  OBVIOUS
<1>2. RootScope \in Scopes
  BY DEF Scopes
<1>3. ClosesIn(Closed(n, RootScope), n, RootScope, at)
  BY <1>2, ClosedDoes DEF Scene
<1>4. ClosesIn(m, n, RootScope, at)
  BY <1>1, <1>3
<1>5. \A s \in Scopes : UpToDate(m, s, at, given)
  BY <1>4 DEF ClosesIn, Scene, UpToDate, Synced
<1>6. ASSUME NEW s \in Scopes PROVE HookIs(m, hooks[s], s, FALSE, val)
  <2>1. HookIs(n, hooks[s], s, run, val) /\ m.sequence = n.sequence /\ m.changes = n.changes
        /\ m.refused = n.refused
    BY <1>4 DEF ClosesIn, Scene
  <2>2. CASE s = RootScope
    BY <2>1, <2>2 DEF HookIs, Follows
  <2>3. CASE s # RootScope
    <3>1. m.bindings[s] = n.bindings[s]
      BY <1>4, <2>3 DEF ClosesIn
    <3> QED BY <2>1, <2>3, <3>1 DEF HookIs, Follows
  <2> QED BY <2>2, <2>3
<1>7. Stopped(m, FALSE)
  BY <1>4 DEF ClosesIn, Stopped
<1> QED BY <1>1, <1>4, <1>5, <1>6, <1>7 DEF Scene, ClosesIn

\* StopRoot
LEMMA StopRootKeeps ==
  ASSUME SceneInv, StopRoot
  PROVE  SceneInv'
<1>1. PICK n : n = Native
  OBVIOUS
<1>2. Scene(n, where, value, running, attachment, hook)
  BY <1>1 DEF SceneInv
<1>3. Scene(Closed(n, RootScope), where, value, FALSE, attachment, hook)
  BY <1>2, ClosedScene
<1>4. NativeBecomes(Closed(n, RootScope)) /\ gameSteps' \in Nat /\ running' = FALSE
      /\ UNCHANGED <<where, value, attachment, hook>>
  BY <1>1, SceneFacts DEF StopRoot, GameStep
<1>5. Scene(Closed(n, RootScope), where', value', running', attachment', hook')
  BY <1>3, <1>4
<1> QED BY <1>4, <1>5, SceneThen

-----------------------------------------------------------------------------
(* JavaScript's steps. *)

\* JavaScript asks for a binding: nothing it sees is wrong then.
LEMMA AskedScene ==
  ASSUME SceneInv, NEW s \in Scopes
  PROVE  /\ AsksIn(Asked(s), s)
         /\ Scene(Asked(s), where, value, running, attachment, hook)
<1>1. AsksIn(Asked(s), s)
  BY SceneFacts, AskedDoes
<1>2. PICK m, n : m = Asked(s) /\ n = Native
  OBVIOUS
<1>3. /\ Fit(m, where) /\ Moves(n, m, {s}) /\ (\A r \in Scopes \ {s} : Quiet(n, m, r))
      /\ IF s = RootScope /\ ~running THEN m = n
         ELSE m.bindings[s] # Missing /\ Synced(m, s, where, attachment)
  BY <1>1, <1>2 DEF AsksIn
<1>4. Scene(n, where, value, running, attachment, hook) /\ n \in NativeState
  BY <1>2, SceneFacts DEF SceneInv
<1>5. ASSUME NEW r \in Scopes PROVE UpToDate(m, r, where, attachment)
  <2>1. UpToDate(n, r, where, attachment)
    BY <1>4 DEF Scene
  <2>2. CASE r = s
    BY <1>3, <2>1, <2>2 DEF UpToDate
  <2>3. CASE r # s
    <3>1. m.bindings[r] = n.bindings[r] /\ (r \in n.refused => r \in m.refused)
      BY <1>3, <2>3 DEF Moves
    <3> QED BY <2>1, <3>1 DEF UpToDate, Synced
  <2> QED BY <2>2, <2>3
<1>6. \A r \in Scopes : HookIs(m, hook[r], r, running, value)
  <2>1. {s} \in SUBSET Scopes
    OBVIOUS
  <2>2. PICK S : S = {s}
    OBVIOUS
  <2>3. S \in SUBSET Scopes /\ Moves(n, m, S)
    BY <1>3, <2>1, <2>2
  <2> QED BY <1>4, <2>3, HookStays DEF Scene
<1>7. Stopped(m, running)
  <2>1. Stopped(n, running) /\ RootScope \in Scopes
    BY <1>4 DEF Scene, Scopes
  <2>2. CASE s = RootScope
    BY <1>3, <2>1, <2>2 DEF Stopped
  <2>3. CASE s # RootScope
    BY <1>3, <2>1, <2>3 DEF Stopped, Quiet
  <2> QED BY <2>2, <2>3
<1>8. Scene(m, where, value, running, attachment, hook)
  BY <1>3, <1>4, <1>5, <1>6, <1>7 DEF Scene
<1> QED BY <1>1, <1>2, <1>8

\* One hook goes on.
LEMMA OneHook ==
  ASSUME NEW m, NEW at, NEW val, NEW run, NEW given, NEW hooks, Scene(m, at, val, run, given, hooks),
         NEW s \in Scopes, NEW h, HookIs(m, h, s, run, val)
  PROVE  Scene(m, at, val, run, given, [hooks EXCEPT ![s] = h])
<1> DEFINE now == [hooks EXCEPT ![s] = h]
<1>1. hooks \in [Scopes -> HookState] /\ h \in HookState
  BY DEF Scene, HookIs
<1>2. now \in [Scopes -> HookState] /\ now[s] = h /\ \A r \in Scopes \ {s} : now[r] = hooks[r]
  BY <1>1
<1> HIDE DEF now
<1>3. Scene(m, at, val, run, given, now)
  BY <1>2 DEF Scene
<1> QED BY <1>3 DEF now

\* A hook that is about to read does not show anything that could be wrong.
LEMMA HookBinds ==
  ASSUME NEW m, NEW h, NEW s, NEW run, NEW val, HookIs(m, h, s, run, val),
         NEW pc \in {"off", "bind"}
  PROVE  HookIs(m, [h EXCEPT !.pc = pc], s, run, val)
<1> DEFINE g == [h EXCEPT !.pc = pc]
<1>1. h \in HookState
  BY DEF HookIs
<1>2. g \in HookState /\ g.pc = pc /\ g.sequence = h.sequence
  BY <1>1 DEF HookState
<1> HIDE DEF g
<1>3. HookIs(m, g, s, run, val)
  BY <1>2 DEF HookIs, Follows, Shows
<1> QED BY <1>3 DEF g

\* Subscribe
LEMMA SubscribeKeeps ==
  ASSUME SceneInv, NEW s \in Scopes, Subscribe(s)
  PROVE  SceneInv'
<1>1. PICK n : n = Native
  OBVIOUS
<1>2. Scene(n, where, value, running, attachment, hook) /\ HookIs(n, hook[s], s, running, value)
  BY <1>1 DEF SceneInv, Scene
<1>3. HookIs(n, [hook[s] EXCEPT !.pc = "bind"], s, running, value)
  BY <1>2, HookBinds
<1>4. PICK h : h = [hook[s] EXCEPT !.pc = "bind"]
  OBVIOUS
<1>5. Scene(n, where, value, running, attachment, [hook EXCEPT ![s] = h])
  BY <1>2, <1>3, <1>4, OneHook
<1>6. hook' = [hook EXCEPT ![s] = h]
  BY <1>4, SceneFacts DEF Subscribe
<1>7. Native' = n /\ UNCHANGED <<where, value, running, attachment, gameSteps>>
  BY <1>1 DEF Subscribe, gameVars, Native
<1> QED BY <1>5, <1>6, <1>7, SceneFacts DEF SceneInv

\* getBinding()
LEMMA GetBindingKeeps ==
  ASSUME SceneInv, NEW s \in Scopes, GetBinding(s)
  PROVE  SceneInv'
<1>1. PICK m : m = Asked(s)
  OBVIOUS
<1>2. AsksIn(m, s) /\ Scene(m, where, value, running, attachment, hook)
  BY <1>1, AskedScene
<1>3. NativeBecomes(m) /\ bindings' = m.bindings /\ UNCHANGED gameVars
  BY <1>1 DEF GetBinding, NativeBecomes
<1>4. PICK h, b : h = hook[s] /\ b = m.bindings[s].handle
  OBVIOUS
<1>5. h \in HookState /\ HookIs(m, h, s, running, value) /\ b \in Nat
  BY <1>2, <1>4, NativeFields DEF Scene, Fit, Sound
<1>6. PICK g : g = IF b = 0 THEN [h EXCEPT !.pc = "idle", !.shown = 0]
                   ELSE [h EXCEPT !.pc = "read", !.asked = b]
  OBVIOUS
<1>7. hook' = [hook EXCEPT ![s] = g]
  BY <1>3, <1>4, <1>6, SceneFacts DEF GetBinding
<1>8. HookIs(m, g, s, running, value)
  <2>1. g \in HookState /\ g.sequence = h.sequence
    BY <1>5, <1>6 DEF HookState
  <2>2. b = 0 => g.pc = "idle" /\ g.shown = 0
    BY <1>5, <1>6 DEF HookState
  <2>3. b # 0 => g.pc = "read" /\ g.asked = b
    BY <1>5, <1>6 DEF HookState
  <2>4. Shows(m.bindings[s], g, value)
    BY <1>4, <2>2, <2>3 DEF Shows
  <2>5. (s = RootScope => running) => m.bindings[s] # Missing
    BY <1>2 DEF AsksIn
  <2> QED BY <1>5, <2>1, <2>2, <2>3, <2>4, <2>5 DEF HookIs, Follows
<1>9. Scene(m, where, value, running, attachment, [hook EXCEPT ![s] = g])
  BY <1>2, <1>8, OneHook
<1>10. Scene(m, where', value', running', attachment', hook') /\ gameSteps' \in Nat
  BY <1>3, <1>7, <1>9, SceneFacts DEF gameVars
<1> QED BY <1>3, <1>10, SceneThen

\* What a handle reaches: the target of the binding, if the handle is the binding's.
LEMMA ReachedIs ==
  ASSUME NEW m, NEW at, Fit(m, at), NEW s \in Scopes, NEW k
  PROVE  LET b == m.bindings[s]
         IN  /\ Reached(m, s, k) = "none" \/ (Reached(m, s, k) = b.attachment.target /\ b.handle = k)
             /\ (b.handle = k /\ k # 0 /\ ~Gone(b.attachment.target, at)) =>
                  Reached(m, s, k) = b.attachment.target
<1>1. BindingIs(m.bindings[s], s, m.handles, m.next, at)
  BY DEF Fit, Sound
<1>2. ASSUME m.bindings[s].handle = k, k # 0, ~Gone(m.bindings[s].attachment.target, at)
      PROVE  \E h \in m.handles : h.token = k /\ h.scope = s
  BY <1>1, <1>2 DEF BindingIs
<1> QED BY <1>2 DEF Reached

\* read()
LEMMA ReadKeeps ==
  ASSUME SceneInv, NEW s \in Scopes, Read(s)
  PROVE  SceneInv'
<1>1. PICK m : m = Asked(s)
  OBVIOUS
<1>2. AsksIn(m, s) /\ Scene(m, where, value, running, attachment, hook)
  BY <1>1, AskedScene
<1>3. NativeBecomes(m) /\ sequence' = m.sequence /\ UNCHANGED gameVars
  BY <1>1 DEF Read, NativeBecomes
<1>4. PICK h, b, t : h = hook[s] /\ b = m.bindings[s] /\ t = Reached(m, s, hook[s].asked)
  OBVIOUS
<1>5. /\ h \in HookState /\ HookIs(m, h, s, running, value) /\ h.pc = "read" /\ h.asked # 0
      /\ Fit(m, where) /\ b \in Bound /\ m.sequence \in Nat
  <2>1. HookIs(m, h, s, running, value) /\ Fit(m, where) /\ h.pc = "read"
    BY <1>2, <1>4 DEF Scene, Read
  <2> QED BY <1>4, <2>1, NativeFields DEF HookIs, Fit, Sound
<1>6. PICK g : g = IF t = "none" THEN [h EXCEPT !.pc = "idle", !.shown = 0]
                   ELSE [pc |-> "idle", asked |-> 0, shown |-> h.asked, value |-> value[t],
                         sequence |-> m.sequence]
  OBVIOUS
<1>7. hook' = [hook EXCEPT ![s] = g]
  BY <1>1, <1>3, <1>4, <1>6, SceneFacts DEF Read
<1>8. /\ t = "none" \/ (t = b.attachment.target /\ b.handle = h.asked)
      /\ (b.handle = h.asked /\ h.asked # 0 /\ ~Gone(b.attachment.target, where)) => t = b.attachment.target
  BY <1>4, <1>5, ReachedIs
<1>9. (s = RootScope => running) => m.bindings[s] # Missing
  BY <1>2 DEF AsksIn
<1>10. b.handle # 0 => b.attachment # None /\ b.attachment.target \in Targets /\ "none" \notin Targets
  BY <1>4, <1>5, BoundFields, AttachedIs DEF Fit, Sound, BindingIs
<1>11. CASE t # "none"
  <2>1. b.handle # 0 /\ t \in Targets /\ value[t] \in Nat
    BY <1>5, <1>8, <1>10, <1>11, SceneFacts
  <2>2. g = [pc |-> "idle", asked |-> 0, shown |-> h.asked, value |-> value[t], sequence |-> m.sequence]
    BY <1>6, <1>11
  <2>3. g \in HookState /\ g.sequence = m.sequence /\ g.pc = "idle"
    BY <1>5, <2>1, <2>2 DEF HookState
  <2>4. Shows(b, g, value)
    BY <1>8, <1>11, <2>2 DEF Shows
  <2>5. HookIs(m, g, s, running, value)
    BY <1>4, <1>5, <1>9, <2>3, <2>4 DEF HookIs, Follows
  <2>6. Scene(m, where, value, running, attachment, [hook EXCEPT ![s] = g])
    BY <1>2, <2>5, OneHook
  <2>7. Scene(m, where', value', running', attachment', hook') /\ gameSteps' \in Nat
    BY <1>3, <1>7, <2>6, SceneFacts DEF gameVars
  <2> QED BY <1>3, <2>7, SceneThen
<1>12. CASE t = "none"
  <2>1. g = [h EXCEPT !.pc = "idle", !.shown = 0]
    BY <1>6, <1>12
  <2>2. g \in HookState /\ g.sequence = h.sequence /\ g.pc = "idle" /\ g.shown = 0
    BY <1>5, <2>1 DEF HookState
  <2>3. Follows(m, g, s, running, value)
    <3>1. CASE s \in m.refused \/ (s = RootScope /\ ~running) \/ News(m.changes, h.sequence, s)
      BY <2>2, <3>1 DEF Follows
    <3>2. CASE ~(s \in m.refused \/ (s = RootScope /\ ~running) \/ News(m.changes, h.sequence, s))
      <4>1. b.handle = h.asked
        BY <1>4, <1>5, <3>2 DEF HookIs, Follows, Shows
      <4>2. b.attachment = Current(s, where, attachment)
        BY <1>2, <1>4, <3>2 DEF AsksIn, Synced
      <4>3. b.attachment # None /\ b.attachment.target \in Targets
        BY <1>5, <1>10, <4>1
      <4>4. where[b.attachment.target] = "in"
        BY <4>2, <4>3, SceneFacts, CurrentIs
      <4>5. t = b.attachment.target
        BY <1>5, <1>8, <4>1, <4>4 DEF Gone
      <4> QED BY <1>10, <1>12, <4>1, <4>3, <4>5, <1>5
    <3> QED BY <3>1, <3>2
  <2>4. HookIs(m, g, s, running, value)
    BY <1>5, <1>9, <2>2, <2>3 DEF HookIs
  <2>5. Scene(m, where, value, running, attachment, [hook EXCEPT ![s] = g])
    BY <1>2, <2>4, OneHook
  <2>6. Scene(m, where', value', running', attachment', hook') /\ gameSteps' \in Nat
    BY <1>3, <1>7, <2>5, SceneFacts DEF gameVars
  <2> QED BY <1>3, <2>6, SceneThen
<1> QED BY <1>11, <1>12

\* An event is taken from those on their way.
LEMMA TailIs ==
  ASSUME NEW q \in Seq(Change), q # <<>>
  PROVE  /\ Tail(q) \in Seq(Change) /\ Len(q) \in Nat \ {0} /\ Len(Tail(q)) = Len(q) - 1
         /\ \A i \in 1..Len(Tail(q)) : Tail(q)[i] = q[i + 1]
         /\ Head(q) = q[1] /\ Head(q) \in Change
OBVIOUS

\* What was news and is not the first event is still news.
LEMMA NewsStays ==
  ASSUME NEW q \in Seq(Change), q # <<>>, NEW k, NEW s, News(q, k, s),
         ~(Head(q).scope = s /\ Head(q).sequence > k)
  PROVE  News(Tail(q), k, s)
<1>1. PICK i \in 1..Len(q) : q[i].scope = s /\ q[i].sequence > k
  BY DEF News
<1>2. PICK p, c : p = Tail(q) /\ c = Head(q)
  OBVIOUS
<1>3. /\ Len(q) \in Nat \ {0} /\ Len(p) = Len(q) - 1 /\ \A j \in 1..Len(p) : p[j] = q[j + 1]
      /\ c = q[1]
  BY <1>2, TailIs
<1>4. i # 1
  BY <1>1, <1>2, <1>3
<1>5. i - 1 \in 1..Len(p) /\ (i - 1) + 1 = i
  BY <1>3, <1>4
<1>6. p[i - 1] = q[i]
  BY <1>3, <1>5
<1> QED BY <1>1, <1>2, <1>5, <1>6 DEF News

\* onChanged(): the hook that the event is for reads again, if it is news to it.
LEMMA OnChangedKeeps ==
  ASSUME SceneInv, OnChanged
  PROVE  SceneInv'
<1> DEFINE n == Native
           m == [n EXCEPT !.changes = Tail(@)]
           s == Head(changes).scope
<1>1. n \in NativeState /\ changes \in Seq(Change) /\ changes # <<>> /\ n.changes = changes
  BY SceneFacts, NativeFields, NativeIs DEF OnChanged
<1>2. /\ Tail(changes) \in Seq(Change) /\ Len(changes) \in Nat \ {0}
      /\ Len(Tail(changes)) = Len(changes) - 1
      /\ \A i \in 1..Len(Tail(changes)) : Tail(changes)[i] = changes[i + 1]
      /\ Head(changes) = changes[1] /\ Head(changes) \in Change
  BY <1>1, TailIs
<1>3. s \in Scopes
  BY <1>2 DEF Change
<1>4. /\ m \in NativeState /\ m.bindings = n.bindings /\ m.handles = n.handles /\ m.next = n.next
      /\ m.sequence = n.sequence /\ m.revoked = n.revoked /\ m.refused = n.refused
      /\ m.changes = Tail(changes)
  BY <1>1, <1>2 DEF NativeState
<1>5. Native' = m
  <2>1. /\ changes' = Tail(changes)
        /\ UNCHANGED <<bindings, handles, nextToken, sequence, revoked, refused>>
    BY DEF OnChanged
  <2> HIDE DEF m
  <2>2. NativeBecomes(m)
    BY <1>4, <2>1, NativeIs DEF NativeBecomes
  <2> QED BY <1>4, <2>2, NativeThen
<1>6. Sound(n, where) /\ Unrefused(n) /\ Scene(n, where, value, running, attachment, hook)
  BY SceneFacts DEF SceneInv, Fit
<1> HIDE DEF n, m
<1>7. Numbered(m)
  <2>1. \A i \in 1..Len(changes) : changes[i].sequence <= n.sequence
    BY <1>1, <1>6 DEF Sound, Numbered
  <2>2. PICK p : p = Tail(changes)
    OBVIOUS
  <2>3. \A i \in 1..Len(p) : p[i].sequence <= n.sequence
    BY <1>2, <2>1, <2>2
  <2> QED BY <1>4, <2>2, <2>3 DEF Numbered
<1>8. Fit(m, where) /\ Stopped(m, running)
  BY <1>4, <1>6, <1>7 DEF Fit, Sound, Unrefused, Stopped, Scene
<1>9. \A r \in Scopes : UpToDate(m, r, where, attachment)
  BY <1>4, <1>6 DEF Scene, UpToDate, Synced
<1>10. /\ hook \in [Scopes -> HookState] /\ hook[s].pc \in {"off", "idle"}
       /\ hook' = IF Idle(s) /\ IsNews(s, Head(changes)) THEN [hook EXCEPT ![s].pc = "bind"] ELSE hook
  BY SceneFacts DEF OnChanged
<1> HIDE DEF s
<1>11. hook' \in [Scopes -> HookState]
  BY <1>3, <1>10 DEF HookState
<1>12. ASSUME NEW r \in Scopes PROVE HookIs(m, hook'[r], r, running, value)
  <2>1. PICK h, c : h = hook[r] /\ c = Head(changes)
    OBVIOUS
  <2>2. HookIs(n, h, r, running, value) /\ h \in HookState
    BY <1>6, <2>1 DEF Scene
  <2>3. c.scope = s
    BY <2>1 DEF s
  <2>4. CASE r = s /\ h.pc = "idle" /\ c.sequence > h.sequence
    <3>1. hook'[r] = [h EXCEPT !.pc = "bind"]
      BY <1>3, <1>10, <2>1, <2>4 DEF Idle, IsNews
    <3>2. PICK g : g = hook'[r]
      OBVIOUS
    <3>3. g \in HookState /\ g.pc = "bind" /\ g.sequence = h.sequence
      BY <2>2, <3>1, <3>2 DEF HookState
    <3>4. HookIs(m, g, r, running, value)
      BY <1>4, <2>2, <3>3 DEF HookIs, Follows, Shows
    <3> QED BY <3>2, <3>4
  <2>5. CASE ~(r = s /\ h.pc = "idle" /\ c.sequence > h.sequence)
    <3>1. hook'[r] = h
      BY <1>3, <1>10, <2>1, <2>5 DEF Idle, IsNews
    <3>2. Follows(m, h, r, running, value)
      <4>1. CASE News(n.changes, h.sequence, r) /\ ~(c.scope = r /\ c.sequence > h.sequence)
        <5>1. News(Tail(changes), h.sequence, r)
          BY <1>1, <2>1, <4>1, NewsStays
        <5> QED BY <1>4, <5>1 DEF Follows
      <4>2. CASE c.scope = r /\ c.sequence > h.sequence
        <5>1. h.pc = "off"
          BY <1>10, <2>1, <2>3, <2>5, <4>2
        <5> QED BY <5>1 DEF Follows, Shows
      <4>3. CASE ~News(n.changes, h.sequence, r)
        BY <1>4, <2>2, <4>3 DEF HookIs, Follows
      <4> QED BY <4>1, <4>2, <4>3
    <3>3. HookIs(m, h, r, running, value)
      BY <1>4, <2>2, <3>2 DEF HookIs
    <3> QED BY <3>1, <3>3
  <2> QED BY <2>4, <2>5
<1>13. UNCHANGED <<running, where, value, attachment, gameSteps>>
  BY DEF OnChanged, gameVars
<1>14. Scene(m, where', value', running', attachment', hook')
  BY <1>6, <1>8, <1>9, <1>11, <1>12, <1>13 DEF Scene
<1> QED BY <1>5, <1>13, <1>14, SceneFacts DEF SceneInv

\* An object that a script returns gets a handle of the scope, which nothing else sees.
LEMMA ReturnedScene ==
  ASSUME NEW m, NEW at, NEW val, NEW run, NEW given, NEW hooks, Scene(m, at, val, run, given, hooks),
         NEW s \in Scopes, NEW t \in Targets, run \/ s # RootScope
  PROVE  LET r == Registered(m.handles, m.next, s, t, at)
         IN  Scene([m EXCEPT !.handles = r.table, !.next = r.next], at, val, run, given, hooks)
<1> DEFINE r == Registered(m.handles, m.next, s, t, at)
           o == [m EXCEPT !.handles = r.table, !.next = r.next]
<1>1. Sound(m, at) /\ Unrefused(m) /\ m \in NativeState
  BY DEF Scene, Fit, Sound
<1>2. RegistersIn(r, m.handles, m.next, s, t, at)
  <2>1. TableIs(m.handles, m.next) /\ m.next \in Nat \ {0}
    BY <1>1, NativeFields DEF Sound
  <2> QED BY <2>1, RegisteredDoes
<1> HIDE DEF r
<1>3. Sound(o, at)
  BY <1>1, <1>2, HandlesCome
<1>4. /\ o.bindings = m.bindings /\ o.handles = r.table /\ o.sequence = m.sequence
      /\ o.changes = m.changes /\ o.refused = m.refused
  BY <1>1 DEF NativeState
<1> HIDE DEF o
<1>5. Fit(o, at)
  BY <1>1, <1>3, <1>4 DEF Fit, Unrefused
<1>6. \A h \in o.handles : h \in m.handles \/ h.scope = s
  BY <1>2, <1>4 DEF RegistersIn
<1>7. Stopped(o, run)
  BY <1>4, <1>6 DEF Stopped, Scene
<1>8. \A q \in Scopes : UpToDate(o, q, at, given) /\ HookIs(o, hooks[q], q, run, val)
  BY <1>4 DEF Scene, UpToDate, Synced, HookIs, Follows
<1>9. Scene(o, at, val, run, given, hooks)
  BY <1>5, <1>7, <1>8 DEF Scene
<1> QED BY <1>9 DEF o, r

\* A script may detach its own binding.
LEMMA DetachedScene ==
  ASSUME NEW n, NEW at, NEW val, NEW run, NEW given, NEW hooks, Scene(n, at, val, run, given, hooks),
         NEW s \in Scopes, n.bindings[s] # Missing
  PROVE  LET now == [given EXCEPT ![s] = None]
         IN  Scene(Refreshed(n, s, at, now), at, val, run, now, hooks)
<1> DEFINE now == [given EXCEPT ![s] = None]
           m == Refreshed(n, s, at, now)
<1>1. now \in [Scopes -> Attached] /\ \A r \in Scopes \ {s} : now[r] = given[r]
  BY AttachedIs DEF Scene
<1> HIDE DEF now
<1>2. Fit(n, at) /\ n \in NativeState
  BY DEF Scene, Fit, Sound
<1>3. RefreshesIn(m, n, s, at, now)
  BY <1>1, <1>2, RefreshedDoes
<1> HIDE DEF m
<1>4. ASSUME NEW r \in Scopes PROVE UpToDate(m, r, at, now)
  <2>1. CASE r = s
    BY <1>3, <2>1 DEF RefreshesIn, UpToDate
  <2>2. CASE r # s
    <3>1. m.bindings[r] = n.bindings[r] /\ (r \in n.refused => r \in m.refused)
      BY <1>3, <2>2 DEF RefreshesIn, Moves
    <3>2. Current(r, at, now) = Current(r, at, given)
      BY <1>1, <2>2 DEF Current
    <3> QED BY <3>1, <3>2 DEF Scene, UpToDate, Synced
  <2> QED BY <2>1, <2>2
<1>5. \A r \in Scopes : HookIs(m, hooks[r], r, run, val)
  <2>1. PICK S : S = {s}
    OBVIOUS
  <2>2. S \in SUBSET Scopes /\ Moves(n, m, S)
    BY <1>3, <2>1 DEF RefreshesIn
  <2> QED BY <2>2, HookStays DEF Scene
<1>6. Stopped(m, run)
  <2>1. Quiet(n, m, RootScope) /\ Stopped(n, run)
    BY <1>3 DEF RefreshesIn, Scopes, Scene
  <2> QED BY <2>1 DEF Quiet, Stopped
<1>7. Scene(m, at, val, run, now, hooks)
  BY <1>1, <1>3, <1>4, <1>5, <1>6 DEF Scene, RefreshesIn
<1> QED BY <1>7 DEF m, now

\* An object ends: what was attached to it has nothing to follow.
LEMMA EndedScene ==
  ASSUME NEW n, NEW at, NEW val, NEW run, NEW given, NEW hooks, Scene(n, at, val, run, given, hooks),
         NEW t \in Targets
  PROVE  Scene(n, [at EXCEPT ![t] = "gone"], val, run, given, hooks)
<1> DEFINE then == [at EXCEPT ![t] = "gone"]
<1>1. then \in Where /\ then[t] = "gone" /\ \A u \in Targets \ {t} : then[u] = at[u]
  BY DEF Scene, Where
<1> HIDE DEF then
<1>2. \A u \in Targets : Gone(u, at) => Gone(u, then)
  BY <1>1 DEF Gone
<1>3. Fit(n, then) /\ n \in NativeState
  BY <1>2, SoundLater DEF Scene, Fit, Sound
<1>4. ASSUME NEW r \in Scopes PROVE UpToDate(n, r, then, given)
  <2>1. given[r] # None => given[r].target \in Targets
    BY AttachedIs DEF Scene
  <2>2. \/ Current(r, then, given) = Current(r, at, given)
        \/ given[r] # None /\ Gone(given[r].target, then)
    BY <1>1, <2>1 DEF Current, Gone
  <2>3. UpToDate(n, r, at, given)
    BY DEF Scene
  <2> QED BY <1>2, <1>3, <2>2, <2>3, UpToDateStays
<1>5. Scene(n, then, val, run, given, hooks)
  BY <1>1, <1>3, <1>4 DEF Scene
<1> QED BY <1>5 DEF then

\* invoke() of a command.
LEMMA CallKeeps ==
  ASSUME SceneInv, NEW s \in Scopes, NEW t \in Targets, Call(s, t)
  PROVE  SceneInv'
<1> DEFINE Return(n, m, at) ==
             LET r == Registered(m.handles, m.next, s, t, at)
             IN  NativeBecomes(IF StillBound(n, m, s, at)
                   THEN [m EXCEPT !.handles = r.table, !.next = r.next] ELSE m)
<1>1. PICK n, mine : n = Asked(s) /\ mine = Reached(n, s, hook[s].shown)
  OBVIOUS
<1>2. AsksIn(n, s) /\ Scene(n, where, value, running, attachment, hook) /\ Fit(n, where)
  BY <1>1, AskedScene DEF Scene
<1>3. hook[s].shown # 0 /\ mine # "none" /\ hook' = hook
  BY <1>1 DEF Call
<1>4. mine = n.bindings[s].attachment.target /\ n.bindings[s].handle # 0
  BY <1>1, <1>2, <1>3, ReachedIs
<1>5. n.bindings[s] # Missing /\ (running \/ s # RootScope)
  <2>1. n.bindings[s] # Missing
    BY <1>4, BoundFields
  <2> QED BY <1>2, <2>1 DEF Scene, Stopped
<1>6. \/ Return(n, n, where) /\ UNCHANGED gameVars
      \/ /\ GameStep /\ s = RootScope
         /\ running' = FALSE /\ Return(n, Closed(n, s), where)
         /\ UNCHANGED <<where, value, attachment>>
      \/ /\ GameStep
         /\ attachment' = [attachment EXCEPT ![s] = None]
         /\ Return(n, Refreshed(n, s, where, attachment'), where)
         /\ UNCHANGED <<running, where, value>>
      \/ /\ GameStep /\ mine \in Objects
         /\ where' = [where EXCEPT ![mine] = "gone"] /\ Return(n, n, where')
         /\ UNCHANGED <<running, value, attachment>>
  BY <1>1 DEF Call
<1>7. ASSUME NEW m, NEW at, NEW val, NEW run, NEW given, NEW hooks,
             Scene(m, at, val, run, given, hooks), run \/ s # RootScope,
             Return(n, m, at), at = where', val = value', run = running', given = attachment',
             hooks = hook', gameSteps' \in Nat
      PROVE  SceneInv'
  <2>1. PICK o : o = IF StillBound(n, m, s, at)
                      THEN LET r == Registered(m.handles, m.next, s, t, at)
                           IN  [m EXCEPT !.handles = r.table, !.next = r.next]
                      ELSE m
    OBVIOUS
  <2>2. NativeBecomes(o)
    BY <1>7, <2>1
  <2>3. Scene(o, at, val, run, given, hooks)
    BY <1>7, <2>1, ReturnedScene
  <2> QED BY <1>7, <2>2, <2>3, SceneThen
<1>8. GameStep => gameSteps' \in Nat
  BY SceneFacts DEF GameStep
<1>9. CASE Return(n, n, where) /\ UNCHANGED gameVars
  <2>1. gameSteps' \in Nat /\ UNCHANGED <<running, where, value, attachment, hook>>
    BY <1>3, <1>9, SceneFacts DEF gameVars
  <2> HIDE DEF Return
  <2> QED BY <1>2, <1>5, <1>7, <1>9, <2>1
<1>10. CASE /\ GameStep /\ s = RootScope
            /\ running' = FALSE /\ Return(n, Closed(n, s), where)
            /\ UNCHANGED <<where, value, attachment>>
  <2>1. PICK m : m = Closed(n, RootScope)
    OBVIOUS
  <2>2. Scene(m, where, value, FALSE, attachment, hook)
    BY <1>2, <2>1, ClosedScene
  <2>3. m.bindings[s] = Missing
    <3>1. ClosesIn(Closed(n, s), n, s, where)
      BY <1>2, ClosedDoes
    <3> QED BY <1>10, <2>1, <3>1 DEF ClosesIn
  <2>4. NativeBecomes(m)
    <3>1. ~StillBound(n, m, s, where)
      BY <1>5, <2>3 DEF StillBound
    <3> QED BY <1>10, <2>1, <3>1
  <2>5. Scene(m, where', value', running', attachment', hook')
    BY <1>3, <1>10, <2>2
  <2> QED BY <1>8, <1>10, <2>4, <2>5, SceneThen
<1>11. CASE /\ GameStep
            /\ attachment' = [attachment EXCEPT ![s] = None]
            /\ Return(n, Refreshed(n, s, where, attachment'), where)
            /\ UNCHANGED <<running, where, value>>
  <2>1. PICK now, m : now = attachment' /\ m = Refreshed(n, s, where, attachment')
    OBVIOUS
  <2>2. Scene(m, where, value, running, now, hook)
    BY <1>2, <1>5, <1>11, <2>1, DetachedScene
  <2>3. Return(n, m, where)
    BY <1>11, <2>1
  <2> HIDE DEF Return
  <2> QED BY <1>3, <1>5, <1>7, <1>8, <1>11, <2>1, <2>2, <2>3
<1>12. CASE /\ GameStep /\ mine \in Objects
            /\ where' = [where EXCEPT ![mine] = "gone"] /\ Return(n, n, where')
            /\ UNCHANGED <<running, value, attachment>>
  <2>1. PICK then : then = where'
    OBVIOUS
  <2>2. mine \in Targets
    BY <1>12 DEF Targets
  <2>3. Scene(n, then, value, running, attachment, hook)
    BY <1>2, <1>12, <2>1, <2>2, EndedScene
  <2>4. Return(n, n, then)
    BY <1>12, <2>1
  <2> HIDE DEF Return
  <2> QED BY <1>3, <1>5, <1>7, <1>8, <1>12, <2>1, <2>3, <2>4
<1> QED BY <1>6, <1>9, <1>10, <1>11, <1>12

-----------------------------------------------------------------------------
(* The theorems. *)

\* Every step keeps the scene.
LEMMA SceneSteps == SceneInv /\ [SceneNext]_sceneVars => SceneInv'
<1> SUFFICES ASSUME SceneInv, [SceneNext]_sceneVars PROVE SceneInv'
  OBVIOUS
<1>1. CASE SceneNext
  <2>1. CASE StopRoot
    BY <2>1, StopRootKeeps
  <2>2. ASSUME NEW s \in Scopes, Detach(s) PROVE SceneInv'
    BY <2>2, DetachKeeps
  <2>3. ASSUME NEW s \in Scopes, NEW t \in Targets, Attach(s, t) PROVE SceneInv'
    BY <2>3, AttachKeeps
  <2>4. ASSUME NEW t \in Targets, Move(t) PROVE SceneInv'
    BY <2>4, MoveKeeps
  <2>5. ASSUME NEW t \in Targets, Free(t) PROVE SceneInv'
    BY <2>5, FreeKeeps
  <2>6. ASSUME NEW t \in Targets, Emit(t) PROVE SceneInv'
    BY <2>6, EmitKeeps
  <2>7. CASE ProcessFrame
    BY <2>7, ProcessFrameKeeps
  <2>8. CASE OnChanged
    BY <2>8, OnChangedKeeps
  <2>9. ASSUME NEW s \in Scopes, Subscribe(s) PROVE SceneInv'
    BY <2>9, SubscribeKeeps
  <2>10. ASSUME NEW s \in Scopes, GetBinding(s) PROVE SceneInv'
    BY <2>10, GetBindingKeeps
  <2>11. ASSUME NEW s \in Scopes, Read(s) PROVE SceneInv'
    BY <2>11, ReadKeeps
  <2>12. ASSUME NEW s \in Scopes, NEW t \in Targets, Call(s, t) PROVE SceneInv'
    BY <2>12, CallKeeps
  <2> QED BY <1>1, <2>1, <2>2, <2>3, <2>4, <2>5, <2>6, <2>7, <2>8, <2>9, <2>10, <2>11, <2>12
       DEF SceneNext, GameSteps, JavaScript
<1>2. CASE UNCHANGED sceneVars
  BY <1>2 DEF SceneInv, Native, sceneVars
<1> QED BY <1>1, <1>2

\* The invariant holds throughout.
THEOREM SceneAlwaysSound == SceneSpec => []SceneInv
<1>1. SceneInit => SceneInv
  BY SceneBegins
<1>2. SceneInv /\ [SceneNext]_sceneVars => SceneInv'
  BY SceneSteps
<1> QED BY <1>1, <1>2, PTL DEF SceneSpec

\* A handle that a binding gave up is never accepted again, whatever scripts return, objects end
\* and roots stop; and a binding's own handle reaches its own target.
THEOREM HandlesAlwaysStayRevoked == SceneSpec => []HandlesStayRevoked
<1>1. ASSUME SceneInv PROVE HandlesStayRevoked
  <2>1. Sound(Native, where) /\ Stopped(Native, running)
    BY <1>1 DEF SceneInv, Scene, Fit
  <2>2. TableIs(handles, nextToken) /\ (\A k \in revoked : \A h \in handles : h.token # k)
        /\ \A s \in Scopes : BindingIs(bindings[s], s, handles, nextToken, where)
    BY <2>1, NativeIs DEF Sound
  <2>3. ~running => \A h \in handles : h.scope # RootScope
    BY <2>1, NativeIs DEF Stopped
  <2> QED BY <2>2, <2>3 DEF HandlesStayRevoked, TableIs, BindingIs
<1> QED BY <1>1, SceneAlwaysSound, PTL

\* A hook whose binding was not refused is attached as the game says, and without an event on its
\* way or a read going on it shows the target's state and the handle that calls it.
THEOREM HooksAlwaysShowTheBinding == SceneSpec => []HookShowsTheBinding
<1>1. ASSUME SceneInv PROVE HookShowsTheBinding
  <2>1. ASSUME NEW s \in Scopes \ refused, Idle(s), s = RootScope => running
        PROVE  /\ \/ bindings[s].attachment = Current(s, where, attachment)
                  \/ bindings[s].attachment # None /\ Gone(bindings[s].attachment.target, where)
               /\ changes = <<>> =>
                    /\ hook[s].shown = bindings[s].handle
                    /\ hook[s].shown # 0 => hook[s].value = value[bindings[s].attachment.target]
    <3>1. PICK h, b : h = hook[s] /\ b = bindings[s]
      OBVIOUS
    <3>2. h.pc = "idle" /\ HookIs(Native, h, s, running, value) /\ UpToDate(Native, s, where, attachment)
      BY <1>1, <2>1, <3>1 DEF SceneInv, Scene, Idle
    <3>3. b # Missing
      BY <2>1, <3>1, <3>2, NativeIs DEF HookIs
    <3>4. b.attachment = Current(s, where, attachment)
          \/ (b.attachment # None /\ Gone(b.attachment.target, where))
      BY <2>1, <3>1, <3>2, <3>3, NativeIs DEF UpToDate, Synced
    <3>5. changes = <<>> => Shows(b, h, value)
      <4>1. changes = <<>> => ~News(changes, h.sequence, s)
        BY DEF News
      <4> QED BY <2>1, <3>1, <3>2, <4>1, NativeIs DEF HookIs, Follows
    <3> QED BY <3>1, <3>2, <3>4, <3>5 DEF Shows
  <2> QED BY <2>1 DEF HookShowsTheBinding
<1> QED BY <1>1, SceneAlwaysSound, PTL
=============================================================================
