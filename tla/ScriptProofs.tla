---------------------------- MODULE ScriptProofs ----------------------------
(***************************************************************************)
(* Theorems of what a script uses: the mouse and the alerts of the game,   *)
(* evaluations, and storage.                                               *)
(***************************************************************************)
EXTENDS GameServices, Alerts, HostEvaluations, AsyncStorage, SumTheorems,
        FiniteSetTheorems, SequenceTheorems, TLAPS

-----------------------------------------------------------------------------
(***************************************************************************)
(* Theorems of GameServices and Alerts, for any listeners, captures,       *)
(* alerts, surfaces and runtimes.                                          *)
(*                                                                         *)
(* Input: a release reaches a listener because its own watch keeps the     *)
(* counter up while the watches of others end, so the invariant counts the *)
(* watches in effect and follows each through the queue of tasks.          *)
(*                                                                         *)
(* Alerts: an alert is blank until it is shown, held by a runtime or a     *)
(* presenter until it is answered, and owes one call after that; the       *)
(* invariant says which of them each request is in, and who holds it.      *)
(***************************************************************************)

-----------------------------------------------------------------------------
(* Input. *)

InputOps == {"watch", "unwatch", "capture", "cancel"}
Settlements == {"captured", "cancelled"}
Waits(op, of) == \E i \in 1..Len(inputTasks) : inputTasks[i] = <<op, of>>

InputTypeOK ==
  /\ listener \in [Listeners -> {"new", "on", "removed"}]
  /\ watch \in [Listeners -> BOOLEAN] /\ told \in [Listeners -> BOOLEAN]
  /\ capture \in [Captures -> {"new", "posted", "started"} \cup Settlements]
  /\ inputTasks \in Seq({"watch", "unwatch"} \X Listeners \cup {"capture"} \X Captures
                        \cup {<<"cancel", NoCapture>>})
  /\ watched \in Nat /\ pressed \in BOOLEAN /\ held \in BOOLEAN /\ missed \in BOOLEAN
  /\ current \in Captures \cup {NoCapture}

\* A listener's watch is posted once and its end once, after it; the watch is in effect
\* between the two.
WatchesAreOrdered ==
  /\ \A i, j \in 1..Len(inputTasks) :
       inputTasks[i] = inputTasks[j] /\ inputTasks[i][1] \in {"watch", "unwatch"} => i = j
  /\ \A l \in Listeners, i, j \in 1..Len(inputTasks) :
       inputTasks[i] = <<"unwatch", l>> /\ inputTasks[j] = <<"watch", l>> => j < i
  /\ \A l \in Listeners :
       /\ Waits("watch", l) => listener[l] # "new"
       /\ Waits("unwatch", l) => listener[l] = "removed"
       /\ watch[l] <=> /\ listener[l] # "new" /\ ~Waits("watch", l)
                       /\ listener[l] = "on" \/ Waits("unwatch", l)
       /\ listener[l] = "removed" /\ Waits("watch", l) => Waits("unwatch", l)

Watching == {l \in Listeners : watch[l]}

\* The counter counts the watches in effect, and what a listener was told is what the
\* node noted.
PressesAreNoted ==
  /\ watched = Cardinality(Watching)
  /\ pressed => watched > 0 /\ (held \/ missed)
  /\ \A l \in Listeners : /\ told[l] => listener[l] # "new"
                          /\ told[l] /\ listener[l] = "on" => pressed /\ watch[l]

InputInv == InputTypeOK /\ WatchesAreOrdered /\ PressesAreNoted /\ CapturesAreSettled
TaskType == {"watch", "unwatch"} \X Listeners \cup {"capture"} \X Captures
            \cup {<<"cancel", NoCapture>>}

\* A queue without a task twice still has none twice with a task that was not in it.
LEMMA PostedOnce ==
  ASSUME NEW q, NEW p, Len(q) \in Nat, Len(p) = Len(q) + 1, NEW K,
         \A i \in 1..Len(q) : p[i] = q[i] /\ q[i] # p[Len(q) + 1],
         \A i, j \in 1..Len(q) : q[i] = q[j] /\ q[i][1] \in K => i = j
  PROVE  \A i, j \in 1..Len(p) : p[i] = p[j] /\ p[i][1] \in K => i = j
<1>1. \A i \in 1..Len(p) : i \in 1..Len(q) \/ i = Len(q) + 1
  OBVIOUS
<1>2. \A i, j \in 1..Len(q) : p[i] = p[j] /\ p[i][1] \in K => i = j
  OBVIOUS
<1>3. \A i \in 1..Len(q) : p[i] # p[Len(q) + 1]
  OBVIOUS
<1> QED BY <1>1, <1>2, <1>3

\* A task that is posted waits behind the others.
LEMMA PostedWaits ==
  ASSUME inputTasks \in Seq(TaskType), NEW op, NEW of, <<op, of>> \in TaskType,
         PostInput(op, of)
  PROVE  /\ inputTasks' \in Seq(TaskType) /\ Len(inputTasks') = Len(inputTasks) + 1
         /\ Len(inputTasks) \in Nat
         /\ \A i \in 1..Len(inputTasks) : inputTasks'[i] = inputTasks[i]
         /\ inputTasks'[Len(inputTasks) + 1] = <<op, of>>
         /\ \A o, l : Waits(o, l)' <=> Waits(o, l) \/ (o = op /\ l = of)
<1>1. inputTasks' = Append(inputTasks, <<op, of>>)
  BY DEF PostInput
<1>2. /\ inputTasks' \in Seq(TaskType) /\ Len(inputTasks') = Len(inputTasks) + 1
      /\ Len(inputTasks) \in Nat
      /\ \A i \in 1..Len(inputTasks) : inputTasks'[i] = inputTasks[i]
      /\ inputTasks'[Len(inputTasks) + 1] = <<op, of>>
  BY <1>1
<1>3. ASSUME NEW o, NEW l PROVE Waits(o, l)' <=> Waits(o, l) \/ (o = op /\ l = of)
  <2>1. ASSUME NEW i \in 1..Len(inputTasks), inputTasks[i] = <<o, l>> PROVE Waits(o, l)'
    <3>1. i \in 1..Len(inputTasks') /\ inputTasks'[i] = <<o, l>>
      BY <1>2, <2>1
    <3> QED BY <3>1 DEF Waits
  <2>2. ASSUME o = op, l = of PROVE Waits(o, l)'
    BY <1>2, <2>2 DEF Waits
  <2>3. ASSUME NEW i \in 1..Len(inputTasks'), inputTasks'[i] = <<o, l>>
        PROVE  Waits(o, l) \/ (o = op /\ l = of)
    <3>1. CASE i = Len(inputTasks) + 1
      BY <1>2, <2>3, <3>1
    <3>2. CASE i \in 1..Len(inputTasks)
      BY <1>2, <2>3, <3>2 DEF Waits
    <3> QED BY <1>2, <3>1, <3>2
  <2> QED BY <2>1, <2>2, <2>3 DEF Waits
<1> QED BY <1>2, <1>3

\* The order of the watches depends on these three alone.
LEMMA WatchesStay ==
  ASSUME WatchesAreOrdered, UNCHANGED <<listener, watch, inputTasks>>
  PROVE  WatchesAreOrdered' /\ Watching' = Watching
<1>1. \A o, l : Waits(o, l)' <=> Waits(o, l)
  BY DEF Waits
<1>2. /\ \A i, j \in 1..Len(inputTasks') :
           inputTasks'[i] = inputTasks'[j] /\ inputTasks'[i][1] \in {"watch", "unwatch"} => i = j
      /\ \A l \in Listeners, i, j \in 1..Len(inputTasks') :
           inputTasks'[i] = <<"unwatch", l>> /\ inputTasks'[j] = <<"watch", l>> => j < i
  BY DEF WatchesAreOrdered
<1>3. ASSUME NEW l \in Listeners
      PROVE  /\ Waits("watch", l)' => listener'[l] # "new"
             /\ Waits("unwatch", l)' => listener'[l] = "removed"
             /\ watch'[l] <=> /\ listener'[l] # "new" /\ ~Waits("watch", l)'
                              /\ listener'[l] = "on" \/ Waits("unwatch", l)'
             /\ listener'[l] = "removed" /\ Waits("watch", l)' => Waits("unwatch", l)'
  BY <1>1 DEF WatchesAreOrdered
<1> QED BY <1>2, <1>3 DEF WatchesAreOrdered, Watching

\* The task that runs is the one at the head.
LEMMA HeadRuns ==
  ASSUME inputTasks \in Seq(TaskType), inputTasks # <<>>, inputTasks' = Tail(inputTasks)
  PROVE  /\ inputTasks' \in Seq(TaskType) /\ Len(inputTasks') = Len(inputTasks) - 1
         /\ Len(inputTasks) \in Nat \ {0}
         /\ \A i \in 1..Len(inputTasks') : inputTasks'[i] = inputTasks[i + 1]
         /\ Head(inputTasks) = inputTasks[1] /\ inputTasks[1] \in TaskType
         /\ \A o, l : Waits(o, l) <=> Waits(o, l)' \/ inputTasks[1] = <<o, l>>
<1>1. /\ inputTasks' \in Seq(TaskType) /\ Len(inputTasks') = Len(inputTasks) - 1
      /\ Len(inputTasks) \in Nat \ {0}
      /\ \A i \in 1..Len(inputTasks') : inputTasks'[i] = inputTasks[i + 1]
      /\ Head(inputTasks) = inputTasks[1] /\ inputTasks[1] \in TaskType
  OBVIOUS
<1>2. ASSUME NEW o, NEW l PROVE Waits(o, l) <=> Waits(o, l)' \/ inputTasks[1] = <<o, l>>
  <2>1. ASSUME NEW i \in 1..Len(inputTasks'), inputTasks'[i] = <<o, l>> PROVE Waits(o, l)
    <3>1. i + 1 \in 1..Len(inputTasks) /\ inputTasks[i + 1] = <<o, l>>
      BY <1>1, <2>1
    <3> QED BY <3>1 DEF Waits
  <2>2. ASSUME NEW i \in 1..Len(inputTasks), inputTasks[i] = <<o, l>>
        PROVE  Waits(o, l)' \/ inputTasks[1] = <<o, l>>
    <3>1. CASE i # 1
      <4>1. i - 1 \in 1..Len(inputTasks') /\ inputTasks'[i - 1] = <<o, l>>
        BY <1>1, <2>2, <3>1
      <4> QED BY <4>1 DEF Waits
    <3> QED BY <2>2, <3>1
  <2>3. inputTasks[1] = <<o, l>> => Waits(o, l)
    BY <1>1 DEF Waits
  <2> QED BY <2>1, <2>2, <2>3 DEF Waits
<1> QED BY <1>1, <1>2

\* The number of watches in effect, when one starts or ends.
LEMMA WatchCount ==
  ASSUME InputTypeOK, NEW l \in Listeners
  PROVE  /\ Cardinality(Watching) \in Nat
         /\ \A m \in Listeners : watch[m] => Cardinality(Watching) > 0
         /\ \A m \in Listeners \ {l} : watch[l] /\ watch[m] => Cardinality(Watching) > 1
         /\ ~watch[l] /\ watch' = [watch EXCEPT ![l] = TRUE]
              => Cardinality(Watching') = Cardinality(Watching) + 1
         /\ watch[l] /\ watch' = [watch EXCEPT ![l] = FALSE]
              => Cardinality(Watching') = Cardinality(Watching) - 1
<1>1. IsFiniteSet(Watching)
  BY FS_Subset, InputBounds DEF Watching
<1>2. Cardinality(Watching) \in Nat
  BY <1>1, FS_CardinalityType
<1>3. ASSUME NEW m \in Listeners, watch[m] PROVE Cardinality(Watching) > 0
  BY <1>1, <1>2, <1>3, FS_EmptySet DEF Watching
<1>4. ASSUME NEW m \in Listeners \ {l}, watch[l], watch[m] PROVE Cardinality(Watching) > 1
  <2>1. /\ IsFiniteSet(Watching \ {l}) /\ m \in Watching \ {l}
        /\ Cardinality(Watching \ {l}) = Cardinality(Watching) - 1
    BY <1>1, <1>4, FS_RemoveElement DEF Watching
  <2>2. Cardinality(Watching \ {l}) \in Nat /\ Cardinality(Watching \ {l}) # 0
    BY <2>1, FS_CardinalityType, FS_EmptySet
  <2> QED BY <1>2, <2>1, <2>2
<1>5. ASSUME ~watch[l], watch' = [watch EXCEPT ![l] = TRUE]
      PROVE  Cardinality(Watching') = Cardinality(Watching) + 1
  <2>1. Watching' = Watching \cup {l} /\ l \notin Watching
    BY <1>5 DEF Watching, InputTypeOK
  <2> QED BY <1>1, <2>1, FS_AddElement
<1>6. ASSUME watch[l], watch' = [watch EXCEPT ![l] = FALSE]
      PROVE  Cardinality(Watching') = Cardinality(Watching) - 1
  <2>1. Watching' = Watching \ {l} /\ l \in Watching
    BY <1>6 DEF Watching, InputTypeOK
  <2> QED BY <1>1, <2>1, FS_RemoveElement
<1> QED BY <1>2, <1>3, <1>4, <1>5, <1>6

\* JavaScript's calls post a task and leave the node alone.
LEMMA PostStep ==
  ASSUME InputInv,
         \/ \E l \in Listeners : OnAction(l) \/ RemoveListener(l)
         \/ \E c \in Captures : CaptureNext(c)
         \/ CancelCapture
  PROVE  InputInv'
<1> USE DEF InputInv
<1>t. inputTasks \in Seq(TaskType)
  BY DEF InputTypeOK, TaskType
<1>1. ASSUME NEW l \in Listeners, OnAction(l) PROVE InputInv'
  <2>1. /\ listener[l] = "new" /\ listener' = [listener EXCEPT ![l] = "on"]
        /\ PostInput("watch", l) /\ UNCHANGED <<watch, told, capture>>
        /\ UNCHANGED <<watched, pressed, current, held, events, missed, unhandled>>
    BY <1>1 DEF OnAction, PostInput
  <2>2. <<"watch", l>> \in TaskType
    BY DEF TaskType
  <2>3. /\ inputTasks' \in Seq(TaskType) /\ Len(inputTasks') = Len(inputTasks) + 1
        /\ Len(inputTasks) \in Nat
        /\ \A i \in 1..Len(inputTasks) : inputTasks'[i] = inputTasks[i]
        /\ inputTasks'[Len(inputTasks) + 1] = <<"watch", l>>
        /\ \A o, m : Waits(o, m)' <=> Waits(o, m) \/ (o = "watch" /\ m = l)
    BY <1>t, <2>1, <2>2, PostedWaits
  <2>4. InputTypeOK'
    BY <2>1, <2>3 DEF InputTypeOK, TaskType
  <2>5. /\ listener'[l] = "on" /\ \A m \in Listeners \ {l} : listener'[m] = listener[m]
    BY <2>1 DEF InputTypeOK
  <2>6. ~Waits("watch", l) /\ ~Waits("unwatch", l) /\ ~watch[l]
    BY <2>1 DEF WatchesAreOrdered
  <2>7. \A i, j \in 1..Len(inputTasks') :
          inputTasks'[i] = inputTasks'[j] /\ inputTasks'[i][1] \in {"watch", "unwatch"} => i = j
    <3>1. \A i \in 1..Len(inputTasks) :
            inputTasks'[i] = inputTasks[i] /\ inputTasks[i] # inputTasks'[Len(inputTasks) + 1]
      BY <2>3, <2>6 DEF Waits
    <3>2. \A i, j \in 1..Len(inputTasks) :
            inputTasks[i] = inputTasks[j] /\ inputTasks[i][1] \in {"watch", "unwatch"} => i = j
      BY DEF WatchesAreOrdered
    <3>3. PICK q, p : q = inputTasks /\ p = inputTasks'
      OBVIOUS
    <3> QED BY <2>3, <3>1, <3>2, <3>3, PostedOnce
  <2>8. ASSUME NEW m \in Listeners, NEW i \in 1..Len(inputTasks'), NEW j \in 1..Len(inputTasks'),
               inputTasks'[i] = <<"unwatch", m>>, inputTasks'[j] = <<"watch", m>>
        PROVE  j < i
    <3>1. m # l
      BY <2>3, <2>6, <2>8 DEF Waits
    <3>2. i \in 1..Len(inputTasks) /\ j \in 1..Len(inputTasks)
      BY <2>3, <2>8, <3>1
    <3> QED BY <2>3, <2>8, <3>2 DEF WatchesAreOrdered
  <2>9. ASSUME NEW m \in Listeners
        PROVE  /\ Waits("watch", m)' => listener'[m] # "new"
               /\ Waits("unwatch", m)' => listener'[m] = "removed"
               /\ watch'[m] <=> /\ listener'[m] # "new" /\ ~Waits("watch", m)'
                                /\ listener'[m] = "on" \/ Waits("unwatch", m)'
               /\ listener'[m] = "removed" /\ Waits("watch", m)' => Waits("unwatch", m)'
    <3>1. CASE m = l
      BY <2>1, <2>3, <2>5, <2>6, <3>1
    <3>2. CASE m # l
      BY <2>1, <2>3, <2>5, <3>2 DEF WatchesAreOrdered
    <3> QED BY <3>1, <3>2
  <2>10. WatchesAreOrdered'
    BY <2>7, <2>8, <2>9 DEF WatchesAreOrdered
  <2>11. PressesAreNoted'
    <3>1. watched' = Cardinality(Watching)' /\ (pressed' => watched' > 0 /\ (held' \/ missed'))
      BY <2>1 DEF PressesAreNoted, Watching
    <3>2. ASSUME NEW m \in Listeners
          PROVE  /\ told'[m] => listener'[m] # "new"
                 /\ told'[m] /\ listener'[m] = "on" => pressed' /\ watch'[m]
      BY <2>1, <2>5 DEF PressesAreNoted
    <3> QED BY <3>1, <3>2 DEF PressesAreNoted
  <2> QED BY <2>1, <2>4, <2>10, <2>11 DEF CapturesAreSettled
<1>2. ASSUME NEW l \in Listeners, RemoveListener(l) PROVE InputInv'
  <2>1. /\ listener[l] = "on" /\ listener' = [listener EXCEPT ![l] = "removed"]
        /\ PostInput("unwatch", l) /\ UNCHANGED <<watch, told, capture>>
        /\ UNCHANGED <<watched, pressed, current, held, events, missed, unhandled>>
    BY <1>2 DEF RemoveListener, PostInput
  <2>2. <<"unwatch", l>> \in TaskType
    BY DEF TaskType
  <2>3. /\ inputTasks' \in Seq(TaskType) /\ Len(inputTasks') = Len(inputTasks) + 1
        /\ Len(inputTasks) \in Nat
        /\ \A i \in 1..Len(inputTasks) : inputTasks'[i] = inputTasks[i]
        /\ inputTasks'[Len(inputTasks) + 1] = <<"unwatch", l>>
        /\ \A o, m : Waits(o, m)' <=> Waits(o, m) \/ (o = "unwatch" /\ m = l)
    BY <1>t, <2>1, <2>2, PostedWaits
  <2>4. InputTypeOK'
    BY <2>1, <2>3 DEF InputTypeOK, TaskType
  <2>5. /\ listener'[l] = "removed" /\ \A m \in Listeners \ {l} : listener'[m] = listener[m]
    BY <2>1 DEF InputTypeOK
  <2>6. ~Waits("unwatch", l) /\ (watch[l] <=> ~Waits("watch", l))
    BY <2>1 DEF WatchesAreOrdered
  <2>7. \A i, j \in 1..Len(inputTasks') :
          inputTasks'[i] = inputTasks'[j] /\ inputTasks'[i][1] \in {"watch", "unwatch"} => i = j
    <3>1. \A i \in 1..Len(inputTasks) :
            inputTasks'[i] = inputTasks[i] /\ inputTasks[i] # inputTasks'[Len(inputTasks) + 1]
      BY <2>3, <2>6 DEF Waits
    <3>2. \A i, j \in 1..Len(inputTasks) :
            inputTasks[i] = inputTasks[j] /\ inputTasks[i][1] \in {"watch", "unwatch"} => i = j
      BY DEF WatchesAreOrdered
    <3>3. PICK q, p : q = inputTasks /\ p = inputTasks'
      OBVIOUS
    <3> QED BY <2>3, <3>1, <3>2, <3>3, PostedOnce
  <2>8. ASSUME NEW m \in Listeners, NEW i \in 1..Len(inputTasks'), NEW j \in 1..Len(inputTasks'),
               inputTasks'[i] = <<"unwatch", m>>, inputTasks'[j] = <<"watch", m>>
        PROVE  j < i
    <3>1. j \in 1..Len(inputTasks)
      BY <2>3, <2>8
    <3>2. CASE i \in 1..Len(inputTasks)
      BY <2>3, <2>8, <3>1, <3>2 DEF WatchesAreOrdered
    <3> QED BY <2>3, <3>1, <3>2
  <2>9. ASSUME NEW m \in Listeners
        PROVE  /\ Waits("watch", m)' => listener'[m] # "new"
               /\ Waits("unwatch", m)' => listener'[m] = "removed"
               /\ watch'[m] <=> /\ listener'[m] # "new" /\ ~Waits("watch", m)'
                                /\ listener'[m] = "on" \/ Waits("unwatch", m)'
               /\ listener'[m] = "removed" /\ Waits("watch", m)' => Waits("unwatch", m)'
    <3>1. CASE m = l
      BY <2>1, <2>3, <2>5, <2>6, <3>1
    <3>2. CASE m # l
      BY <2>1, <2>3, <2>5, <3>2 DEF WatchesAreOrdered
    <3> QED BY <3>1, <3>2
  <2>10. WatchesAreOrdered'
    BY <2>7, <2>8, <2>9 DEF WatchesAreOrdered
  <2>11. PressesAreNoted'
    <3>1. watched' = Cardinality(Watching)' /\ (pressed' => watched' > 0 /\ (held' \/ missed'))
      BY <2>1 DEF PressesAreNoted, Watching
    <3>2. ASSUME NEW m \in Listeners
          PROVE  /\ told'[m] => listener'[m] # "new"
                 /\ told'[m] /\ listener'[m] = "on" => pressed' /\ watch'[m]
      BY <2>1, <2>5 DEF PressesAreNoted
    <3> QED BY <3>1, <3>2 DEF PressesAreNoted
  <2> QED BY <2>1, <2>4, <2>10, <2>11 DEF CapturesAreSettled
<1>3. ASSUME (\E c \in Captures : CaptureNext(c)) \/ CancelCapture PROVE InputInv'
  <2>1. PICK op \in {"capture", "cancel"}, of \in Captures \cup {NoCapture} :
          <<op, of>> \in TaskType /\ PostInput(op, of)
    BY <1>3 DEF CaptureNext, CancelCapture, TaskType
  <2>2. /\ inputTasks' \in Seq(TaskType) /\ Len(inputTasks') = Len(inputTasks) + 1
        /\ Len(inputTasks) \in Nat
        /\ \A i \in 1..Len(inputTasks) : inputTasks'[i] = inputTasks[i]
        /\ inputTasks'[Len(inputTasks) + 1] = <<op, of>>
        /\ \A o, m : Waits(o, m)' <=> Waits(o, m) \/ (o = op /\ m = of)
    BY <1>t, <2>1, PostedWaits
  <2>3. /\ UNCHANGED <<listener, watch, told>>
        /\ UNCHANGED <<watched, pressed, current, held, events, missed, unhandled>>
    BY <1>3 DEF CaptureNext, CancelCapture, PostInput
  <2>4. /\ capture' \in [Captures -> {"new", "posted", "started"} \cup Settlements]
        /\ \A c \in Captures : capture'[c] = "started" <=> capture[c] = "started"
    BY <1>3 DEF InputTypeOK, CaptureNext, CancelCapture
  <2>5. InputTypeOK'
    BY <2>2, <2>3, <2>4 DEF InputTypeOK, TaskType
  <2>6. WatchesAreOrdered'
    <3>1. \A l \in Listeners : /\ Waits("watch", l)' <=> Waits("watch", l)
                               /\ Waits("unwatch", l)' <=> Waits("unwatch", l)
      BY <2>1, <2>2
    <3>2. \A i \in 1..Len(inputTasks') : inputTasks'[i][1] \in {"watch", "unwatch"} =>
            i \in 1..Len(inputTasks) /\ inputTasks'[i] = inputTasks[i]
      BY <2>1, <2>2
    <3>3. \A i, j \in 1..Len(inputTasks') :
            inputTasks'[i] = inputTasks'[j] /\ inputTasks'[i][1] \in {"watch", "unwatch"} => i = j
      BY <3>2 DEF WatchesAreOrdered
    <3>4. \A l \in Listeners, i, j \in 1..Len(inputTasks') :
            inputTasks'[i] = <<"unwatch", l>> /\ inputTasks'[j] = <<"watch", l>> => j < i
      BY <3>2 DEF WatchesAreOrdered
    <3> QED BY <2>3, <3>1, <3>3, <3>4 DEF WatchesAreOrdered
  <2>7. PressesAreNoted'
    BY <2>3 DEF PressesAreNoted, Watching
  <2>8. CapturesAreSettled'
    BY <2>3, <2>4 DEF CapturesAreSettled, Settlements
  <2> QED BY <2>5, <2>6, <2>7, <2>8
<1> QED BY <1>1, <1>2, <1>3
\* The capture in progress is settled, or there is none.
LEMMA SettledCaptures ==
  ASSUME InputTypeOK, CapturesAreSettled, NEW how \in Settlements
  PROVE  /\ Settled(how) \in [Captures -> {"new", "posted", "started"} \cup Settlements]
         /\ \A c \in Captures : Settled(how)[c] \notin {"started", "twice"}
BY InputBounds DEF InputTypeOK, CapturesAreSettled, Settled, Settlements, NoCapture

\* A task of JavaScript runs: a watch starts or ends, a capture starts or is cancelled.
LEMMA TaskStep ==
  ASSUME InputInv, RunInputTask
  PROVE  InputInv'
<1> USE DEF InputInv
<1>1. /\ inputTasks # <<>> /\ inputTasks' = Tail(inputTasks)
      /\ UNCHANGED <<listener, told, held, events, missed, unhandled>>
  BY DEF RunInputTask
<1>2. /\ inputTasks' \in Seq(TaskType) /\ Len(inputTasks') = Len(inputTasks) - 1
      /\ Len(inputTasks) \in Nat \ {0}
      /\ \A i \in 1..Len(inputTasks') : inputTasks'[i] = inputTasks[i + 1]
      /\ Head(inputTasks) = inputTasks[1] /\ inputTasks[1] \in TaskType
      /\ \A o, l : Waits(o, l) <=> Waits(o, l)' \/ inputTasks[1] = <<o, l>>
  BY <1>1, HeadRuns DEF InputTypeOK, TaskType
<1>3. \A i, j \in 1..Len(inputTasks') :
        inputTasks'[i] = inputTasks'[j] /\ inputTasks'[i][1] \in {"watch", "unwatch"} => i = j
  <2> SUFFICES ASSUME NEW i \in 1..Len(inputTasks'), NEW j \in 1..Len(inputTasks'),
                      inputTasks'[i] = inputTasks'[j],
                      inputTasks'[i][1] \in {"watch", "unwatch"}
               PROVE  i = j
    OBVIOUS
  <2>1. /\ i + 1 \in 1..Len(inputTasks) /\ j + 1 \in 1..Len(inputTasks)
        /\ inputTasks[i + 1] = inputTasks[j + 1]
        /\ inputTasks[i + 1][1] \in {"watch", "unwatch"}
    BY <1>2
  <2> QED BY <2>1 DEF WatchesAreOrdered
<1>4. \A l \in Listeners, i, j \in 1..Len(inputTasks') :
        inputTasks'[i] = <<"unwatch", l>> /\ inputTasks'[j] = <<"watch", l>> => j < i
  <2> SUFFICES ASSUME NEW l \in Listeners,
                      NEW i \in 1..Len(inputTasks'), NEW j \in 1..Len(inputTasks'),
                      inputTasks'[i] = <<"unwatch", l>>, inputTasks'[j] = <<"watch", l>>
               PROVE  j < i
    OBVIOUS
  <2>1. /\ i + 1 \in 1..Len(inputTasks) /\ j + 1 \in 1..Len(inputTasks)
        /\ inputTasks[i + 1] = <<"unwatch", l>> /\ inputTasks[j + 1] = <<"watch", l>>
    BY <1>2
  <2> QED BY <2>1 DEF WatchesAreOrdered
\* The task at the head is the only one of its watch.
<1>5. ASSUME NEW l \in Listeners, NEW op \in {"watch", "unwatch"}, inputTasks[1] = <<op, l>>
      PROVE  ~Waits(op, l)'
  <2> SUFFICES ASSUME NEW i \in 1..Len(inputTasks'), inputTasks'[i] = <<op, l>>
               PROVE  FALSE
    BY DEF Waits
  <2>1. /\ i + 1 \in 1..Len(inputTasks) /\ 1 \in 1..Len(inputTasks)
        /\ inputTasks[i + 1] = inputTasks[1] /\ inputTasks[1][1] = op
    BY <1>2, <1>5
  <2>2. i + 1 = 1
    BY <2>1 DEF WatchesAreOrdered
  <2> QED BY <1>2, <2>2
<1>6. ASSUME NEW l \in Listeners, inputTasks[1] = <<"watch", l>>,
             watched' = watched + 1, watch' = [watch EXCEPT ![l] = TRUE],
             UNCHANGED <<pressed, capture, current>>
      PROVE  InputInv'
  <2>1. Waits("watch", l) /\ ~Waits("watch", l)' /\ ~watch[l]
    BY <1>2, <1>5, <1>6 DEF WatchesAreOrdered
  <2>2. /\ watch'[l] /\ \A m \in Listeners \ {l} : watch'[m] = watch[m]
        /\ \A m \in Listeners : watch[m] => watch'[m]
    BY <1>6 DEF InputTypeOK
  <2>3. InputTypeOK'
    BY <1>1, <1>2, <1>6 DEF InputTypeOK, TaskType
  <2>4. ASSUME NEW m \in Listeners
        PROVE  /\ Waits("watch", m)' => listener'[m] # "new"
               /\ Waits("unwatch", m)' => listener'[m] = "removed"
               /\ watch'[m] <=> /\ listener'[m] # "new" /\ ~Waits("watch", m)'
                                /\ listener'[m] = "on" \/ Waits("unwatch", m)'
               /\ listener'[m] = "removed" /\ Waits("watch", m)' => Waits("unwatch", m)'
    <3>1. Waits("unwatch", m)' <=> Waits("unwatch", m)
      BY <1>2, <1>6
    <3>2. CASE m = l
      <4>1. listener[l] \in {"on", "removed"} /\ (listener[l] = "removed" => Waits("unwatch", l))
        BY <2>1 DEF WatchesAreOrdered, InputTypeOK
      <4> QED BY <1>1, <2>1, <2>2, <3>1, <3>2, <4>1 DEF WatchesAreOrdered
    <3>3. CASE m # l
      <4>1. Waits("watch", m)' <=> Waits("watch", m)
        BY <1>2, <1>6, <3>3
      <4> QED BY <1>1, <2>2, <3>1, <3>3, <4>1 DEF WatchesAreOrdered
    <3> QED BY <3>2, <3>3
  <2>5. WatchesAreOrdered'
    BY <1>3, <1>4, <2>4 DEF WatchesAreOrdered
  <2>6. watched' = Cardinality(Watching')
    BY <1>6, <2>1, WatchCount DEF PressesAreNoted
  <2>7. PressesAreNoted'
    BY <1>1, <1>6, <2>2, <2>6 DEF PressesAreNoted, InputTypeOK
  <2>8. CapturesAreSettled'
    BY <1>6 DEF CapturesAreSettled
  <2> QED BY <2>3, <2>5, <2>7, <2>8
<1>7. ASSUME NEW l \in Listeners, inputTasks[1] = <<"unwatch", l>>, Unwatch,
             watch' = [watch EXCEPT ![l] = FALSE], UNCHANGED <<capture, current>>
      PROVE  InputInv'
  <2>1. Waits("unwatch", l) /\ ~Waits("unwatch", l)' /\ listener[l] = "removed"
    BY <1>2, <1>5, <1>7 DEF WatchesAreOrdered
  <2>2. ~Waits("watch", l)
    <3> SUFFICES ASSUME NEW j \in 1..Len(inputTasks), inputTasks[j] = <<"watch", l>>
                 PROVE  FALSE
      BY DEF Waits
    <3>1. j < 1
      BY <1>2, <1>7 DEF WatchesAreOrdered
    <3> QED BY <3>1
  <2>3. watch[l]
    BY <2>1, <2>2 DEF WatchesAreOrdered
  <2>4. ~watch'[l] /\ \A m \in Listeners \ {l} : watch'[m] = watch[m]
    BY <1>7 DEF InputTypeOK
  <2>5. /\ watched' = Cardinality(Watching') /\ watched' = watched - 1
        /\ watched > 0 /\ pressed' = (watched' > 0 /\ pressed)
        /\ \A m \in Listeners \ {l} : watch[m] => watched' > 0
    <3>1. /\ Cardinality(Watching') = Cardinality(Watching) - 1
          /\ Cardinality(Watching) \in Nat /\ Cardinality(Watching) > 0
          /\ \A m \in Listeners \ {l} : watch[m] => Cardinality(Watching) > 1
      BY <1>7, <2>3, WatchCount
    <3>2. watched = Cardinality(Watching)
      BY DEF PressesAreNoted
    <3>3. /\ watched' = IF watched > 0 THEN watched - 1 ELSE 0
          /\ pressed' = (watched' > 0 /\ pressed)
      BY <1>7 DEF Unwatch
    <3>4. watched > 0 /\ watched' = watched - 1 /\ watched \in Nat
      BY <3>1, <3>2, <3>3
    <3> QED BY <3>1, <3>2, <3>3, <3>4
  <2>6. InputTypeOK'
    <3>1. watched' \in Nat /\ pressed' \in BOOLEAN
      BY <2>5 DEF InputTypeOK
    <3> QED BY <1>1, <1>2, <1>7, <3>1 DEF InputTypeOK, TaskType
  <2>7. ASSUME NEW m \in Listeners
        PROVE  /\ Waits("watch", m)' => listener'[m] # "new"
               /\ Waits("unwatch", m)' => listener'[m] = "removed"
               /\ watch'[m] <=> /\ listener'[m] # "new" /\ ~Waits("watch", m)'
                                /\ listener'[m] = "on" \/ Waits("unwatch", m)'
               /\ listener'[m] = "removed" /\ Waits("watch", m)' => Waits("unwatch", m)'
    <3>1. Waits("watch", m)' <=> Waits("watch", m)
      BY <1>2, <1>7
    <3>2. CASE m = l
      BY <1>1, <2>1, <2>2, <2>4, <3>1, <3>2
    <3>3. CASE m # l
      <4>1. Waits("unwatch", m)' <=> Waits("unwatch", m)
        BY <1>2, <1>7, <3>3
      <4> QED BY <1>1, <2>4, <3>1, <3>3, <4>1 DEF WatchesAreOrdered
    <3> QED BY <3>2, <3>3
  <2>8. WatchesAreOrdered'
    BY <1>3, <1>4, <2>7 DEF WatchesAreOrdered
  <2>9. ASSUME NEW m \in Listeners
        PROVE  /\ told'[m] => listener'[m] # "new"
               /\ told'[m] /\ listener'[m] = "on" => pressed' /\ watch'[m]
    <3>1. CASE m = l
      BY <1>1, <2>1, <3>1
    <3>2. CASE m # l
      BY <1>1, <2>4, <2>5, <3>2 DEF PressesAreNoted
    <3> QED BY <3>1, <3>2
  <2>10. PressesAreNoted'
    BY <1>1, <2>5, <2>9 DEF PressesAreNoted
  <2>11. CapturesAreSettled'
    BY <1>7 DEF CapturesAreSettled
  <2> QED BY <2>6, <2>8, <2>10, <2>11
<1>8. ASSUME NEW op \in {"capture", "cancel"}, NEW of, inputTasks[1] = <<op, of>>,
             UNCHANGED <<watched, watch, pressed>>,
             \/ op = "capture" /\ of \in Captures /\ StartCapture(of)
             \/ capture' = Settled("cancelled") /\ current' = NoCapture
      PROVE  InputInv'
  <2>1. \A o \in {"watch", "unwatch"}, m \in Listeners : Waits(o, m)' <=> Waits(o, m)
    BY <1>2, <1>8
  <2>2. /\ Settled("cancelled") \in [Captures -> {"new", "posted", "started"} \cup Settlements]
        /\ \A c \in Captures : Settled("cancelled")[c] \notin {"started", "twice"}
    BY SettledCaptures DEF Settlements
  <2>3. /\ capture' \in [Captures -> {"new", "posted", "started"} \cup Settlements]
        /\ current' \in Captures \cup {NoCapture} /\ CapturesAreSettled'
    BY <1>8, <2>2, InputBounds DEF StartCapture, CapturesAreSettled, Settlements, NoCapture
  <2>4. InputTypeOK'
    BY <1>1, <1>2, <1>8, <2>3 DEF InputTypeOK, TaskType
  <2>5. WatchesAreOrdered'
    BY <1>1, <1>3, <1>4, <1>8, <2>1 DEF WatchesAreOrdered
  <2>6. PressesAreNoted'
    BY <1>1, <1>8 DEF PressesAreNoted, Watching
  <2> QED BY <2>3, <2>4, <2>5, <2>6
<1>9. \/ \E l \in Listeners : inputTasks[1] = <<"watch", l>> \/ inputTasks[1] = <<"unwatch", l>>
      \/ \E c \in Captures : inputTasks[1] = <<"capture", c>>
      \/ inputTasks[1] = <<"cancel", NoCapture>>
  BY <1>2 DEF TaskType
<1> QED BY <1>2, <1>6, <1>7, <1>8, <1>9 DEF RunInputTask

\* An event of the player: a capture takes it, the GUI consumes it, or listeners are told.
LEMMA EventStep ==
  ASSUME InputInv, PlayerEvent
  PROVE  InputInv'
<1> USE DEF InputInv
<1>1. held' = ~held /\ UNCHANGED <<listener, watch, inputTasks, watched>>
  BY DEF PlayerEvent
<1>2. WatchesAreOrdered' /\ Watching' = Watching
  BY <1>1, WatchesStay
<1>3. CASE /\ held' /\ capture' = Settled("captured") /\ current' = NoCapture
           /\ UNCHANGED <<told, pressed, missed>>
  <2>1. /\ Settled("captured") \in [Captures -> {"new", "posted", "started"} \cup Settlements]
        /\ \A c \in Captures : Settled("captured")[c] \notin {"started", "twice"}
    BY SettledCaptures DEF Settlements
  <2>2. CapturesAreSettled'
    BY <1>3, <2>1, InputBounds DEF CapturesAreSettled, NoCapture
  <2>3. InputTypeOK'
    BY <1>1, <1>3, <2>1 DEF InputTypeOK
  <2>4. PressesAreNoted'
    BY <1>1, <1>2, <1>3 DEF PressesAreNoted
  <2> QED BY <1>2, <2>2, <2>3, <2>4
<1>4. CASE UnhandledInput(held') /\ UNCHANGED <<capture, current>>
  <2>1. CASE watched > 0 /\ pressed # held'
    <3>1. /\ pressed' = held' /\ ~missed'
          /\ told' = [l \in Listeners |-> held' /\ listener[l] = "on" /\ watch[l]]
          /\ missed' \in BOOLEAN
      BY <1>4, <2>1 DEF UnhandledInput, Report
    <3>2. InputTypeOK'
      BY <1>1, <1>4, <3>1 DEF InputTypeOK
    <3>3. PressesAreNoted'
      BY <1>1, <1>2, <2>1, <3>1 DEF PressesAreNoted
    <3>4. CapturesAreSettled'
      BY <1>4 DEF CapturesAreSettled
    <3> QED BY <1>2, <3>2, <3>3, <3>4
  <2>2. CASE ~(watched > 0 /\ pressed # held')
    <3>1. UNCHANGED <<told, pressed, missed>>
      BY <1>4, <2>2 DEF UnhandledInput
    <3>2. InputTypeOK'
      BY <1>1, <1>4, <3>1 DEF InputTypeOK
    <3>3. pressed => held'
      BY <2>2, <1>1 DEF PressesAreNoted, InputTypeOK
    <3>4. PressesAreNoted'
      BY <1>1, <1>2, <3>1, <3>3 DEF PressesAreNoted
    <3>5. CapturesAreSettled'
      BY <1>4 DEF CapturesAreSettled
    <3> QED BY <1>2, <3>2, <3>4, <3>5
  <2> QED BY <2>1, <2>2
<1>5. CASE missed' = (missed \/ ~held') /\ UNCHANGED <<told, pressed, capture, current>>
  <2>1. InputTypeOK'
    BY <1>1, <1>5 DEF InputTypeOK
  <2>2. held' \/ missed'
    BY <1>5
  <2>3. PressesAreNoted'
    BY <1>1, <1>2, <1>5, <2>2 DEF PressesAreNoted
  <2> QED BY <1>2, <1>5, <2>1, <2>3 DEF CapturesAreSettled
<1> QED BY <1>3, <1>4, <1>5 DEF PlayerEvent

\* The application loses the focus: what is no longer held is reported.
LEMMA FocusStep ==
  ASSUME InputInv, FocusOut
  PROVE  InputInv'
<1> USE DEF InputInv
<1>1. /\ held' \in {FALSE, held} /\ ReleasePressed
      /\ UNCHANGED <<listener, watch, capture, inputTasks, watched, current>>
  BY DEF FocusOut
<1>2. WatchesAreOrdered' /\ Watching' = Watching /\ CapturesAreSettled'
  BY <1>1, WatchesStay DEF CapturesAreSettled
<1>3. CASE pressed /\ ~held'
  <2>1. /\ ~pressed' /\ pressed' \in BOOLEAN /\ missed' \in BOOLEAN
        /\ told' = [l \in Listeners |-> FALSE]
    BY <1>1, <1>3 DEF ReleasePressed, Report
  <2>2. InputTypeOK'
    BY <1>1, <2>1 DEF InputTypeOK
  <2>3. PressesAreNoted'
    BY <1>1, <1>2, <2>1 DEF PressesAreNoted
  <2> QED BY <1>2, <2>2, <2>3
<1>4. CASE ~(pressed /\ ~held')
  <2>1. UNCHANGED <<told, pressed, missed>> /\ (pressed => held')
    BY <1>1, <1>4 DEF ReleasePressed
  <2>2. InputTypeOK'
    BY <1>1, <2>1 DEF InputTypeOK
  <2>3. PressesAreNoted'
    BY <1>1, <1>2, <2>1 DEF PressesAreNoted
  <2> QED BY <1>2, <2>2, <2>3
<1> QED BY <1>3, <1>4

\* At first no listener or capture exists and no task waits.
LEMMA InitInput == InputInit => InputInv
<1> SUFFICES ASSUME InputInit PROVE InputInv
  OBVIOUS
<1>1. /\ listener = [l \in Listeners |-> "new"] /\ watch = [l \in Listeners |-> FALSE]
      /\ told = [l \in Listeners |-> FALSE]
      /\ capture = [c \in Captures |-> "new"] /\ inputTasks = <<>>
      /\ watched = 0 /\ pressed = FALSE /\ current = NoCapture
      /\ held = FALSE /\ missed = FALSE
  BY DEF InputInit
<1>2. InputTypeOK
  <2>1. inputTasks \in Seq(TaskType)
    BY <1>1
  <2>2. /\ listener \in [Listeners -> {"new", "on", "removed"}]
        /\ watch \in [Listeners -> BOOLEAN] /\ told \in [Listeners -> BOOLEAN]
        /\ capture \in [Captures -> {"new", "posted", "started"} \cup Settlements]
    BY <1>1
  <2> QED BY <1>1, <2>1, <2>2 DEF InputTypeOK, TaskType
<1>3. WatchesAreOrdered
  BY <1>1 DEF WatchesAreOrdered, Waits
<1>4. Watching = {}
  BY <1>1 DEF Watching
<1>5. PressesAreNoted
  BY <1>1, <1>4, FS_EmptySet DEF PressesAreNoted
<1>6. CapturesAreSettled
  BY <1>1, InputBounds DEF CapturesAreSettled, NoCapture
<1> QED BY <1>2, <1>3, <1>5, <1>6 DEF InputInv

\* Each step of JavaScript, the node, the player and the application keeps the invariant.
LEMMA NextInput == InputInv /\ [InputNext]_inputVars => InputInv'
<1> SUFFICES ASSUME InputInv, [InputNext]_inputVars PROVE InputInv'
  OBVIOUS
<1>1. CASE InputNext
  BY <1>1, PostStep, TaskStep, EventStep, FocusStep DEF InputNext
<1>2. CASE UNCHANGED inputVars
  <2>1. UNCHANGED <<listener, watch, told, capture, inputTasks, watched, pressed, current, held,
                    missed>>
    BY <1>2 DEF inputVars
  <2>2. InputTypeOK'
    BY <2>1 DEF InputInv, InputTypeOK
  <2>3. WatchesAreOrdered'
    BY <2>1, WatchesStay DEF InputInv
  <2>4. PressesAreNoted'
    BY <2>1 DEF InputInv, PressesAreNoted, Watching
  <2> QED BY <2>1, <2>2, <2>3, <2>4 DEF InputInv, CapturesAreSettled
<1> QED BY <1>1, <1>2

\* For any listeners and any order of watches, removals and events: a listener that was told
\* of a press (action_changed()) is told of the release, but for one that the GUI consumes.
THEOREM ReleaseIsAlwaysTold == InputSpec => []ReleaseIsTold
<1>1. InputInv => ReleaseIsTold
  BY DEF InputInv, PressesAreNoted, ReleaseIsTold
<1>2. InputSpec => []InputInv
  BY InitInput, NextInput, PTL DEF InputSpec
<1> QED BY <1>1, <1>2, PTL

\* For any number of captures (capture_next_event()): the one in progress is the one that
\* started last, and the one before it was settled, once.
THEOREM CapturesSettleOnce == InputSpec => []CapturesAreSettled
<1>1. InputInv => CapturesAreSettled
  BY DEF InputInv
<1>2. InputSpec => []InputInv
  BY InitInput, NextInput, PTL DEF InputSpec
<1> QED BY <1>1, <1>2, PTL

-----------------------------------------------------------------------------
(* Alerts. *)

Called(op, of) == \E i \in 1..Len(calls) : calls[i] = <<op, of>>

\* What JavaScript posted: a request once, answers to requests of mode custom, and the
\* presenter of the running runtime, which is the only one.
CallsAreOwed ==
  /\ presenters \subseteq {runtime}
  /\ \A i, j \in 1..Len(calls) : calls[i] = calls[j] /\ calls[i][1] = "request" => i = j
  /\ \A r \in Requests :
       /\ Called("request", r) => alert[r].state = "posted"
       /\ Called("reply", r) \/ Called("decline", r) => alert[r].mode = "custom"
  /\ \A g \in 1..Runtimes : Called("present", g) => g = runtime

\* Who can still end a request: what EveryAlertIsHeld asks of a pending one.
HeldBySomeone(r) ==
  \/ ~alert[r].bubbled /\ <<"presenter", runtime>> \in alert[r].knows
  \/ <<"handler", r>> \in deferredCalls
  \/ <<"root", 0>> \in alert[r].knows /\ alert[r].tag \in shown
  \/ <<"game", 0>> \in alert[r].knows
  \/ alert[r].dialog = "visible" \/ <<"restore", r>> \in deferredCalls

\* A request that has not run is blank; one that is open is of no surface or of one that
\* runs, is held, and was passed up once, to the game or to the root it is of.
Kept(r) ==
  /\ alert[r].state \in {"none", "posted"} =>
       /\ alert[r].knows = {} /\ ~alert[r].bubbled /\ alert[r].owner = Nobody
       /\ alert[r].dialog = "none" /\ alert[r].by = "" /\ <<"handler", r>> \notin deferredCalls
  /\ \A g \in 0..Runtimes : <<"presenter", g>> \in alert[r].knows => alert[r].mode = "custom"
  /\ alert[r].mode = "custom" => alert[r].tag # 0
  /\ alert[r].state = "none" => alert[r].tag = 0
  /\ alert[r].state = "open" =>
       /\ alert[r].by = "" /\ (alert[r].tag = 0 \/ alert[r].tag \in shown)
       /\ <<"handler", r>> \in deferredCalls =>
            /\ alert[r].bubbled
            /\ alert[r].owner = GameTag \/ (alert[r].owner = alert[r].tag /\ alert[r].tag # 0)
       /\ <<"root", 0>> \in alert[r].knows => alert[r].tag # 0
       /\ HeldBySomeone(r)

AlertInv == AlertsTypeOK /\ CallsAreOwed /\ \A r \in Requests : Kept(r)

\* What AnsweredByItsOwner says of a step.
AnswerIsOwned ==
  \A r \in Requests : alert'[r].by # alert[r].by =>
    /\ alert[r].state \in {"posted", "open"} /\ alert[r].by = ""
    /\ alert'[r].by = "presenter" => ~alert[r].bubbled /\ alert[r].mode = "custom"
    /\ alert'[r].by = "root" => alert[r].owner = alert[r].tag /\ alert[r].tag \in shown
    /\ alert'[r].by \in {"game", "player"} => alert[r].owner = GameTag

CallType == {"request", "reply", "decline"} \X Requests \cup {"present"} \X (1..Runtimes)
Enders == {"presenter", "root", "game", "player", "nobody"}

Known == SUBSET ({"presenter", "root", "game"} \X (0..Runtimes))
Owners == 0..GameTag
RequestTags == 0..Tags

\* The type of a request, with the types of its fields named.
LEMMA AlertRecord ==
  /\ Alert = [state : {"none", "posted", "open", "ended"}, tag : RequestTags, mode : Modes,
              cancelable : BOOLEAN, owner : Owners, bubbled : BOOLEAN,
              dialog : {"none", "visible", "hidden"}, knows : Known, by : {""} \cup Enders]
  /\ GameTag \in Owners /\ Nobody \in Owners
  /\ \A tag \in RequestTags : tag \in Owners /\ tag # GameTag
<1>1. Alert = [state : {"none", "posted", "open", "ended"}, tag : RequestTags, mode : Modes,
               cancelable : BOOLEAN, owner : Owners, bubbled : BOOLEAN,
               dialog : {"none", "visible", "hidden"}, knows : Known, by : {""} \cup Enders]
  BY DEF Alert, Enders, RequestTags, Owners, Known
<1>2. /\ GameTag \in Owners /\ Nobody \in Owners
      /\ \A tag \in RequestTags : tag \in Owners /\ tag # GameTag
  BY AlertBounds DEF GameTag, Owners, Nobody, RequestTags
<1> QED BY <1>1, <1>2

\* The operators on a request give requests.
LEMMA AlertTypes ==
  ASSUME NEW a \in Alert
  PROVE  /\ \A by \in Enders : /\ Ended(a, by) \in Alert
                               /\ Ended(a, by).state = "ended" /\ Ended(a, by).by = by
                               /\ Ended(a, by).mode = a.mode /\ Ended(a, by).tag = a.tag
                               /\ Ended(a, by).knows = a.knows
         /\ [a EXCEPT !.owner = GameTag, !.dialog = "visible"] \in Alert
<1>3. ASSUME NEW by \in Enders
      PROVE  /\ Ended(a, by) \in Alert
             /\ Ended(a, by).state = "ended" /\ Ended(a, by).by = by
             /\ Ended(a, by).mode = a.mode /\ Ended(a, by).tag = a.tag
             /\ Ended(a, by).knows = a.knows
  BY AlertRecord DEF Ended
<1>4. [a EXCEPT !.owner = GameTag, !.dialog = "visible"] \in Alert
  BY AlertRecord
<1> QED BY <1>3, <1>4

\* What JavaScript posts waits behind the rest.
LEMMA PostedIsCalled ==
  ASSUME calls \in Seq(CallType), NEW op, NEW of, <<op, of>> \in CallType,
         calls' = Append(calls, <<op, of>>)
  PROVE  /\ calls' \in Seq(CallType) /\ Len(calls') = Len(calls) + 1
         /\ Len(calls) \in Nat
         /\ \A i \in 1..Len(calls) : calls'[i] = calls[i]
         /\ calls'[Len(calls) + 1] = <<op, of>>
         /\ \A o, l : Called(o, l)' <=> Called(o, l) \/ (o = op /\ l = of)
<1>1. /\ calls' \in Seq(CallType) /\ Len(calls') = Len(calls) + 1
      /\ Len(calls) \in Nat
      /\ \A i \in 1..Len(calls) : calls'[i] = calls[i]
      /\ calls'[Len(calls) + 1] = <<op, of>>
  OBVIOUS
<1>2. ASSUME NEW o, NEW l PROVE Called(o, l)' <=> Called(o, l) \/ (o = op /\ l = of)
  <2>1. ASSUME Called(o, l) PROVE Called(o, l)'
    BY <1>1, <2>1 DEF Called
  <2>2. ASSUME o = op, l = of PROVE Called(o, l)'
    BY <1>1, <2>2 DEF Called
  <2>3. ASSUME NEW i \in 1..Len(calls'), calls'[i] = <<o, l>>
        PROVE  Called(o, l) \/ (o = op /\ l = of)
    <3>1. CASE i = Len(calls) + 1
      BY <1>1, <2>3, <3>1
    <3>2. CASE i \in 1..Len(calls)
      BY <1>1, <2>3, <3>2 DEF Called
    <3> QED BY <1>1, <3>1, <3>2
  <2> QED BY <2>1, <2>2, <2>3 DEF Called
<1> QED BY <1>1, <1>2

\* The call that runs is the one at the head.
LEMMA HeadIsCalled ==
  ASSUME calls \in Seq(CallType), calls # <<>>, calls' = Tail(calls)
  PROVE  /\ calls' \in Seq(CallType) /\ Len(calls') = Len(calls) - 1
         /\ Len(calls) \in Nat \ {0}
         /\ \A i \in 1..Len(calls') : calls'[i] = calls[i + 1]
         /\ Head(calls) = calls[1] /\ calls[1] \in CallType
         /\ \A o, l : Called(o, l) <=> Called(o, l)' \/ calls[1] = <<o, l>>
<1>1. /\ calls' \in Seq(CallType) /\ Len(calls') = Len(calls) - 1
      /\ Len(calls) \in Nat \ {0}
      /\ \A i \in 1..Len(calls') : calls'[i] = calls[i + 1]
      /\ Head(calls) = calls[1] /\ calls[1] \in CallType
  OBVIOUS
<1>2. ASSUME NEW o, NEW l PROVE Called(o, l) <=> Called(o, l)' \/ calls[1] = <<o, l>>
  <2>1. ASSUME NEW i \in 1..Len(calls'), calls'[i] = <<o, l>> PROVE Called(o, l)
    <3>1. i + 1 \in 1..Len(calls) /\ calls[i + 1] = <<o, l>>
      BY <1>1, <2>1
    <3> QED BY <3>1 DEF Called
  <2>2. ASSUME NEW i \in 1..Len(calls), calls[i] = <<o, l>>
        PROVE  Called(o, l)' \/ calls[1] = <<o, l>>
    <3>1. CASE i # 1
      <4>1. i - 1 \in 1..Len(calls') /\ calls'[i - 1] = <<o, l>>
        BY <1>1, <2>2, <3>1
      <4> QED BY <4>1 DEF Called
    <3> QED BY <2>2, <3>1
  <2>3. calls[1] = <<o, l>> => Called(o, l)
    BY <1>1 DEF Called
  <2> QED BY <2>1, <2>2, <2>3 DEF Called
<1> QED BY <1>1, <1>2

\* A step that leaves a request, and what is deferred of it, alone keeps it.
LEMMA OtherIsKept ==
  ASSUME NEW m \in Requests, Kept(m), alert'[m] = alert[m], UNCHANGED <<shown, runtime>>,
         <<"handler", m>> \in deferredCalls' <=> <<"handler", m>> \in deferredCalls,
         <<"restore", m>> \in deferredCalls' <=> <<"restore", m>> \in deferredCalls
  PROVE  Kept(m)'
BY DEF Kept, HeldBySomeone

\* A request that ended is kept.
LEMMA EndedIsKept ==
  ASSUME NEW m \in Requests, NEW a \in Alert, NEW by \in Enders, alert'[m] = Ended(a, by),
         \A g \in 0..Runtimes : <<"presenter", g>> \in a.knows => a.mode = "custom",
         a.mode = "custom" => a.tag # 0
  PROVE  Kept(m)'
<1>1. /\ alert'[m].state = "ended" /\ alert'[m].knows = a.knows
      /\ alert'[m].mode = a.mode /\ alert'[m].tag = a.tag
  <2>1. /\ Ended(a, by).state = "ended" /\ Ended(a, by).knows = a.knows
        /\ Ended(a, by).mode = a.mode /\ Ended(a, by).tag = a.tag
    BY AlertTypes
  <2>2. alert'[m] = Ended(a, by)
    OBVIOUS
  <2> QED BY <2>1, <2>2
<1> QED BY <1>1 DEF Kept

\* The calls that wait are owed as long as posted requests stay so and modes do not change.
LEMMA CallsStay ==
  ASSUME CallsAreOwed, UNCHANGED <<calls, presenters, runtime>>,
         \A m \in Requests : /\ alert[m].state = "posted" => alert'[m].state = "posted"
                             /\ alert'[m].mode = alert[m].mode
  PROVE  CallsAreOwed'
BY DEF CallsAreOwed, Called

\* Complete() ends the request for its owner or does nothing.
LEMMA CompleteStep ==
  ASSUME AlertInv, NEW r \in Requests, NEW owner, NEW by \in {"root", "game", "player"},
         Complete(r, owner, by), by = "root" => owner = alert[r].tag /\ owner \in shown,
         by \in {"game", "player"} => owner = GameTag,
         UNCHANGED <<started, shown, handlers, runtime, presenters, calls, deferredCalls>>
  PROVE  AlertInv' /\ AnswerIsOwned
<1> USE DEF AlertInv
<1>1. CASE Open(r) /\ alert[r].owner = owner
  <2>1. /\ alert' = [alert EXCEPT ![r] = Ended(alert[r], by)] /\ alert[r].state = "open"
        /\ alert[r] \in Alert /\ by \in Enders
    BY <1>1 DEF Complete, Open, AlertsTypeOK, Enders
  <2>2. /\ alert'[r] = Ended(alert[r], by)
        /\ \A m \in Requests \ {r} : alert'[m] = alert[m]
        /\ alert' \in [Requests -> Alert]
        /\ alert'[r].mode = alert[r].mode /\ alert'[r].by = by
    BY <2>1, AlertTypes DEF AlertsTypeOK
  <2>3. AlertsTypeOK'
    BY <2>2 DEF AlertsTypeOK
  <2>4. CallsAreOwed'
    <3>1. \A m \in Requests : /\ alert[m].state = "posted" => alert'[m].state = "posted"
                              /\ alert'[m].mode = alert[m].mode
      BY <2>1, <2>2
    <3> QED BY <3>1, CallsStay
  <2>5. ASSUME NEW m \in Requests PROVE Kept(m)'
    <3>1. CASE m = r
      <4>1. /\ \A g \in 0..Runtimes :
                 <<"presenter", g>> \in alert[r].knows => alert[r].mode = "custom"
            /\ alert[r].mode = "custom" => alert[r].tag # 0
        BY DEF Kept
      <4> QED BY <2>1, <2>2, <3>1, <4>1, EndedIsKept
    <3>2. CASE m # r
      BY <2>2, <3>2, OtherIsKept
    <3> QED BY <3>1, <3>2
  <2>6. AnswerIsOwned
    <3>1. alert[r].by = ""
      BY <2>1 DEF Kept
    <3>2. \A m \in Requests : alert'[m].by # alert[m].by => m = r
      BY <2>2
    <3> QED BY <1>1, <2>1, <2>2, <3>1, <3>2 DEF AnswerIsOwned
  <2> QED BY <2>3, <2>4, <2>5, <2>6
<1>2. CASE ~(Open(r) /\ alert[r].owner = owner)
  <2>1. UNCHANGED alert
    BY <1>2 DEF Complete
  <2>2. AlertsTypeOK'
    BY <2>1 DEF AlertsTypeOK
  <2>3. CallsAreOwed'
    BY <2>1, CallsStay
  <2>4. \A m \in Requests : Kept(m)'
    BY <2>1, OtherIsKept
  <2> QED BY <2>1, <2>2, <2>3, <2>4 DEF AnswerIsOwned
<1> QED BY <1>1, <1>2

\* JavaScript's calls wait: a request, an answer, or the presenter of a new module.
LEMMA CallStep ==
  ASSUME AlertInv, CreateModule \/ \E r \in Requests : AskPlayer(r) \/ Answer(r)
  PROVE  AlertInv' /\ AnswerIsOwned
<1> USE DEF AlertInv
<1>t. /\ calls \in Seq(CallType) /\ alert \in [Requests -> Alert]
  BY DEF AlertsTypeOK, CallType
<1>1. ASSUME NEW r \in Requests, AskPlayer(r) PROVE AlertInv' /\ AnswerIsOwned
  <2>1. /\ alert[r].state = "none" /\ calls' = Append(calls, <<"request", r>>)
        /\ UNCHANGED <<started, shown, handlers, runtime, presenters, deferredCalls>>
    BY <1>1 DEF AskPlayer, CallPosted, surroundings
  <2>2. PICK tag \in 0..started, mode \in Modes, cancelable \in BOOLEAN :
          /\ tag # 0 \/ (mode = "bubble" /\ ~cancelable)
          /\ alert' = [alert EXCEPT ![r] = [alert[r] EXCEPT !.state = "posted", !.tag = tag,
                                               !.mode = mode, !.cancelable = cancelable]]
    BY <1>1 DEF AskPlayer
  <2>3. tag \in RequestTags
    BY AlertBounds DEF AlertsTypeOK, RequestTags
  <2>4. <<"request", r>> \in CallType
    BY DEF CallType
  <2>5. /\ calls' \in Seq(CallType) /\ Len(calls') = Len(calls) + 1 /\ Len(calls) \in Nat
        /\ \A i \in 1..Len(calls) : calls'[i] = calls[i]
        /\ calls'[Len(calls) + 1] = <<"request", r>>
        /\ \A o, l : Called(o, l)' <=> Called(o, l) \/ (o = "request" /\ l = r)
    BY <1>t, <2>1, <2>4, PostedIsCalled
  <2>6. /\ alert' \in [Requests -> Alert] /\ \A m \in Requests \ {r} : alert'[m] = alert[m]
        /\ alert'[r].state = "posted" /\ alert'[r].mode = mode /\ alert'[r].tag = tag
        /\ alert'[r].knows = alert[r].knows /\ alert'[r].bubbled = alert[r].bubbled
        /\ alert'[r].owner = alert[r].owner /\ alert'[r].dialog = alert[r].dialog
        /\ alert'[r].by = alert[r].by
    <3> DEFINE asking == [alert[r] EXCEPT !.state = "posted", !.tag = tag,
                                         !.mode = mode, !.cancelable = cancelable]
    <3>1. alert' = [alert EXCEPT ![r] = asking] /\ alert[r] \in Alert
      BY <1>t, <2>2
    <3>2. /\ asking \in Alert /\ asking.state = "posted" /\ asking.mode = mode /\ asking.tag = tag
          /\ asking.knows = alert[r].knows /\ asking.bubbled = alert[r].bubbled
          /\ asking.owner = alert[r].owner /\ asking.dialog = alert[r].dialog
          /\ asking.by = alert[r].by
      BY <2>3, <3>1, AlertRecord
    <3> HIDE DEF asking
    <3> QED BY <1>t, <3>1, <3>2
  <2>7. AlertsTypeOK'
    BY <2>1, <2>5, <2>6 DEF AlertsTypeOK, CallType
  <2>8. ~Called("request", r) /\ alert[r].knows = {}
    BY <2>1 DEF CallsAreOwed, Kept
  <2>9. CallsAreOwed'
    <3>1. \A i, j \in 1..Len(calls') :
            calls'[i] = calls'[j] /\ calls'[i][1] = "request" => i = j
      BY <2>5, <2>8 DEF CallsAreOwed, Called
    <3>2. ASSUME NEW m \in Requests
          PROVE  /\ Called("request", m)' => alert'[m].state = "posted"
                 /\ Called("reply", m)' \/ Called("decline", m)' => alert'[m].mode = "custom"
      <4>1. CASE m = r
        <5>1. ~Called("reply", r) /\ ~Called("decline", r)
          <6>1. alert[r].mode = "custom" => alert[r].tag # 0
            BY DEF Kept
          <6>2. alert[r].tag = 0
            BY <2>1 DEF Kept
          <6> QED BY <6>1, <6>2 DEF CallsAreOwed
        <5> QED BY <2>5, <2>6, <4>1, <5>1
      <4>2. CASE m # r
        BY <2>5, <2>6, <4>2 DEF CallsAreOwed
      <4> QED BY <4>1, <4>2
    <3>3. \A g \in 1..Runtimes : Called("present", g)' => g = runtime'
      BY <2>1, <2>5 DEF CallsAreOwed
    <3> QED BY <2>1, <3>1, <3>2, <3>3 DEF CallsAreOwed
  <2>10. ASSUME NEW m \in Requests PROVE Kept(m)'
    <3>1. CASE m = r
      BY <2>1, <2>2, <2>6, <2>8, <3>1 DEF Kept
    <3>2. CASE m # r
      BY <2>1, <2>6, <3>2, OtherIsKept
    <3> QED BY <3>1, <3>2
  <2> QED BY <2>6, <2>7, <2>9, <2>10 DEF AnswerIsOwned
<1>2. ASSUME NEW r \in Requests, Answer(r) PROVE AlertInv' /\ AnswerIsOwned
  <2>1. PICK op \in {"reply", "decline"} : calls' = Append(calls, <<op, r>>)
    BY <1>2 DEF Answer, CallPosted
  <2>2. /\ <<"presenter", runtime>> \in alert[r].knows
        /\ UNCHANGED <<alert, started, shown, handlers, runtime, presenters, deferredCalls>>
    BY <1>2 DEF Answer, CallPosted, surroundings
  <2>3. <<op, r>> \in CallType
    BY DEF CallType
  <2>4. /\ calls' \in Seq(CallType) /\ Len(calls') = Len(calls) + 1 /\ Len(calls) \in Nat
        /\ \A i \in 1..Len(calls) : calls'[i] = calls[i]
        /\ calls'[Len(calls) + 1] = <<op, r>>
        /\ \A o, l : Called(o, l)' <=> Called(o, l) \/ (o = op /\ l = r)
    BY <1>t, <2>1, <2>3, PostedIsCalled
  <2>5. AlertsTypeOK'
    BY <2>2, <2>4 DEF AlertsTypeOK, CallType
  <2>6. alert[r].mode = "custom"
    <3>1. runtime \in 0..Runtimes
      BY AlertBounds DEF AlertsTypeOK
    <3> QED BY <2>2, <3>1 DEF Kept
  <2>7. CallsAreOwed'
    <3>1. \A i \in 1..Len(calls') : calls'[i][1] = "request" =>
            i \in 1..Len(calls) /\ calls'[i] = calls[i]
      BY <2>4
    <3>2. \A i, j \in 1..Len(calls') :
            calls'[i] = calls'[j] /\ calls'[i][1] = "request" => i = j
      BY <3>1 DEF CallsAreOwed
    <3>3. ASSUME NEW m \in Requests
          PROVE  /\ Called("request", m)' => alert'[m].state = "posted"
                 /\ Called("reply", m)' \/ Called("decline", m)' => alert'[m].mode = "custom"
      BY <2>2, <2>4, <2>6 DEF CallsAreOwed
    <3>4. \A g \in 1..Runtimes : Called("present", g)' => g = runtime'
      BY <2>2, <2>4 DEF CallsAreOwed
    <3> QED BY <2>2, <3>2, <3>3, <3>4 DEF CallsAreOwed
  <2>8. \A m \in Requests : Kept(m)'
    BY <2>2, OtherIsKept
  <2> QED BY <2>2, <2>5, <2>7, <2>8 DEF AnswerIsOwned
<1>3. ASSUME CreateModule PROVE AlertInv' /\ AnswerIsOwned
  <2>1. /\ calls' = Append(calls, <<"present", runtime>>)
        /\ UNCHANGED <<alert, started, shown, handlers, runtime, presenters, deferredCalls>>
    BY <1>3 DEF CreateModule, CallPosted, surroundings
  <2>2. <<"present", runtime>> \in CallType
    BY DEF CallType, AlertsTypeOK
  <2>3. /\ calls' \in Seq(CallType) /\ Len(calls') = Len(calls) + 1 /\ Len(calls) \in Nat
        /\ \A i \in 1..Len(calls) : calls'[i] = calls[i]
        /\ calls'[Len(calls) + 1] = <<"present", runtime>>
        /\ \A o, l : Called(o, l)' <=> Called(o, l) \/ (o = "present" /\ l = runtime)
    BY <1>t, <2>1, <2>2, PostedIsCalled
  <2>4. AlertsTypeOK'
    BY <2>1, <2>3 DEF AlertsTypeOK, CallType
  <2>5. CallsAreOwed'
    BY <2>1, <2>3 DEF CallsAreOwed
  <2>6. \A m \in Requests : Kept(m)'
    BY <2>1, OtherIsKept
  <2> QED BY <2>1, <2>4, <2>5, <2>6 DEF AnswerIsOwned
<1> QED BY <1>1, <1>2, <1>3

\* A request that is passed up is held by the handler that is about to be told, or by a
\* dialog.
LEMMA BubbleStep ==
  ASSUME AlertInv, NEW r \in Requests, NEW a \in Alert, Bubble(r, a), UNCHANGED <<shown, runtime>>,
         a.state = "open", a.by = "", a.tag = 0 \/ a.tag \in shown,
         a.mode = "custom" => a.tag # 0, <<"root", 0>> \notin a.knows \/ a.tag # 0,
         \A g \in 0..Runtimes : <<"presenter", g>> \in a.knows => a.mode = "custom"
  PROVE  /\ alert' \in [Requests -> Alert] /\ \A m \in Requests \ {r} : alert'[m] = alert[m]
         /\ alert'[r].mode = a.mode /\ alert'[r].by = ""
         /\ deferredCalls' \subseteq {"handler", "restore"} \X Requests
         /\ \A m \in Requests : Kept(m)'
<1> DEFINE up == [a EXCEPT !.bubbled = TRUE]
<1>t. /\ alert \in [Requests -> Alert]
      /\ deferredCalls \subseteq {"handler", "restore"} \X Requests
  BY DEF AlertInv, AlertsTypeOK
<1>1. /\ up \in Alert /\ up.bubbled /\ up.state = a.state /\ up.tag = a.tag
      /\ up.mode = a.mode /\ up.knows = a.knows /\ up.by = a.by /\ up.owner = a.owner
  BY AlertRecord
<1>2. a.tag \in Owners /\ GameTag \in Owners
  BY AlertRecord
<1> HIDE DEF up
<1>3. CASE {a.tag, 0} \cap handlers # {}
  <2> DEFINE o == IF a.tag # 0 /\ a.tag \in handlers THEN a.tag ELSE GameTag
  <2>1. /\ alert' = [alert EXCEPT ![r] = [up EXCEPT !.owner = o]]
        /\ deferredCalls' = deferredCalls \cup {<<"handler", r>>}
    BY <1>3 DEF Bubble, up
  <2>2. o \in Owners /\ (o = GameTag \/ (o = a.tag /\ a.tag # 0))
    BY <1>2
  <2> HIDE DEF o
  <2>3. /\ alert' \in [Requests -> Alert] /\ \A m \in Requests \ {r} : alert'[m] = alert[m]
        /\ alert'[r].owner = o /\ alert'[r].bubbled /\ alert'[r].state = "open"
        /\ alert'[r].tag = a.tag /\ alert'[r].mode = a.mode /\ alert'[r].knows = a.knows
        /\ alert'[r].by = ""
    BY <1>t, <1>1, <2>1, <2>2, AlertRecord
  <2>4. ASSUME NEW m \in Requests PROVE Kept(m)'
    <3>1. CASE m = r
      <4>1. HeldBySomeone(r)'
        BY <2>1 DEF HeldBySomeone
      <4>2. \A g \in 0..Runtimes :
              <<"presenter", g>> \in alert'[r].knows => alert'[r].mode = "custom"
        BY <2>3
      <4>3. alert'[r].tag = 0 \/ alert'[r].tag \in shown'
        BY <2>3
      <4> QED BY <2>2, <2>3, <3>1, <4>1, <4>2, <4>3 DEF Kept
    <3>2. CASE m # r
      BY <2>1, <2>3, <3>2, OtherIsKept DEF AlertInv
    <3> QED BY <3>1, <3>2
  <2>5. deferredCalls' \subseteq {"handler", "restore"} \X Requests
    <3>1. <<"handler", r>> \in {"handler", "restore"} \X Requests
      OBVIOUS
    <3> QED BY <1>t, <2>1, <3>1
  <2> QED BY <2>3, <2>4, <2>5
<1>4. CASE {a.tag, 0} \cap handlers = {}
  <2>1. /\ alert' = [alert EXCEPT ![r] = [up EXCEPT !.owner = GameTag, !.dialog = "visible"]]
        /\ UNCHANGED deferredCalls
    BY <1>4 DEF Bubble, WithDialog, up
  <2>2. /\ alert' \in [Requests -> Alert] /\ \A m \in Requests \ {r} : alert'[m] = alert[m]
        /\ alert'[r].owner = GameTag /\ alert'[r].bubbled /\ alert'[r].state = "open"
        /\ alert'[r].tag = a.tag /\ alert'[r].mode = a.mode /\ alert'[r].knows = a.knows
        /\ alert'[r].by = "" /\ alert'[r].dialog = "visible"
    <3>1. [up EXCEPT !.owner = GameTag, !.dialog = "visible"] \in Alert
      BY <1>1, AlertTypes
    <3> QED BY <1>t, <1>1, <2>1, <3>1, AlertRecord
  <2>3. ASSUME NEW m \in Requests PROVE Kept(m)'
    <3>1. CASE m = r
      <4>1. HeldBySomeone(r)'
        BY <2>2 DEF HeldBySomeone
      <4>2. \A g \in 0..Runtimes :
              <<"presenter", g>> \in alert'[r].knows => alert'[r].mode = "custom"
        BY <2>2
      <4>3. alert'[r].tag = 0 \/ alert'[r].tag \in shown'
        BY <2>2
      <4> QED BY <2>1, <2>2, <3>1, <4>1, <4>2, <4>3 DEF Kept
    <3>2. CASE m # r
      BY <2>1, <2>2, <3>2, OtherIsKept DEF AlertInv
    <3> QED BY <3>1, <3>2
  <2> QED BY <1>t, <2>1, <2>2, <2>3
<1> QED BY <1>3, <1>4

\* The calls that wait behind the one that runs are owed, if it ends no other's wait.
LEMMA CallsRun ==
  ASSUME AlertInv, calls # <<>>, calls' = Tail(calls), UNCHANGED runtime,
         presenters' \subseteq {runtime},
         \A m \in Requests :
           /\ alert'[m].mode = alert[m].mode
           /\ alert[m].state = "posted"
                => alert'[m].state = "posted" \/ calls[1] = <<"request", m>>
  PROVE  CallsAreOwed'
<1>1. /\ calls' \in Seq(CallType) /\ Len(calls') = Len(calls) - 1
      /\ Len(calls) \in Nat \ {0}
      /\ \A i \in 1..Len(calls') : calls'[i] = calls[i + 1]
      /\ Head(calls) = calls[1] /\ calls[1] \in CallType
      /\ \A o, l : Called(o, l) <=> Called(o, l)' \/ calls[1] = <<o, l>>
  BY HeadIsCalled DEF AlertInv, AlertsTypeOK, CallType
<1>2. \A i, j \in 1..Len(calls') : calls'[i] = calls'[j] /\ calls'[i][1] = "request" => i = j
  <2> SUFFICES ASSUME NEW i \in 1..Len(calls'), NEW j \in 1..Len(calls'),
                      calls'[i] = calls'[j], calls'[i][1] = "request"
               PROVE  i = j
    OBVIOUS
  <2>1. /\ i + 1 \in 1..Len(calls) /\ j + 1 \in 1..Len(calls)
        /\ calls[i + 1] = calls[j + 1] /\ calls[i + 1][1] = "request"
    BY <1>1
  <2> QED BY <2>1 DEF AlertInv, CallsAreOwed
<1>3. ASSUME NEW m \in Requests
      PROVE  /\ Called("request", m)' => alert'[m].state = "posted"
             /\ Called("reply", m)' \/ Called("decline", m)' => alert'[m].mode = "custom"
  <2>1. ASSUME Called("request", m)', calls[1] = <<"request", m>> PROVE FALSE
    <3>1. PICK i \in 1..Len(calls') : calls'[i] = <<"request", m>>
      BY <2>1 DEF Called
    <3>2. /\ i + 1 \in 1..Len(calls) /\ 1 \in 1..Len(calls) /\ calls[i + 1] = calls[1]
          /\ calls[1][1] = "request"
      BY <1>1, <2>1, <3>1
    <3>3. i + 1 = 1
      BY <3>2 DEF AlertInv, CallsAreOwed
    <3> QED BY <1>1, <3>3
  <2>2. Called("request", m)' => Called("request", m)
    BY <1>1
  <2>3. Called("reply", m)' \/ Called("decline", m)' => Called("reply", m) \/ Called("decline", m)
    BY <1>1
  <2> QED BY <2>1, <2>2, <2>3 DEF AlertInv, CallsAreOwed
<1>4. \A g \in 1..Runtimes : Called("present", g)' => g = runtime'
  BY <1>1 DEF AlertInv, CallsAreOwed
<1> QED BY <1>2, <1>3, <1>4 DEF CallsAreOwed

\* A step that changes one request and nothing else but the calls keeps them all.
LEMMA OneIsKept ==
  ASSUME AlertInv, NEW r \in Requests, \A m \in Requests \ {r} : alert'[m] = alert[m],
         UNCHANGED <<shown, runtime, deferredCalls>>, Kept(r)'
  PROVE  \A m \in Requests : Kept(m)'
BY OtherIsKept DEF AlertInv

\* A posted request runs: it is refused, shown, given to presenters or passed up.
LEMMA RequestStep ==
  ASSUME AlertInv, NEW r \in Requests, alert[r].state = "posted", Request(r),
         UNCHANGED <<shown, runtime>>
  PROVE  /\ alert' \in [Requests -> Alert] /\ \A m \in Requests \ {r} : alert'[m] = alert[m]
         /\ alert'[r].mode = alert[r].mode /\ alert'[r].by \in {"", "nobody"}
         /\ deferredCalls' \subseteq {"handler", "restore"} \X Requests
         /\ \A m \in Requests : Kept(m)'
<1> DEFINE a == [alert[r] EXCEPT !.state = "open"]
<1>t. /\ alert \in [Requests -> Alert]
      /\ deferredCalls \subseteq {"handler", "restore"} \X Requests
  BY DEF AlertInv, AlertsTypeOK
<1>1. /\ a \in Alert /\ a.state = "open" /\ a.tag = alert[r].tag /\ a.mode = alert[r].mode
      /\ a.knows = {} /\ a.by = "" /\ ~a.bubbled /\ a.owner = Nobody
  <2>1. /\ a \in Alert /\ a.state = "open" /\ a.tag = alert[r].tag /\ a.mode = alert[r].mode
        /\ a.knows = alert[r].knows /\ a.by = alert[r].by /\ a.bubbled = alert[r].bubbled
        /\ a.owner = alert[r].owner
    <3>1. alert[r] \in Alert
      BY <1>t
    <3> QED BY <3>1, AlertRecord
  <2>2. alert[r].knows = {} /\ alert[r].by = "" /\ ~alert[r].bubbled /\ alert[r].owner = Nobody
    BY DEF AlertInv, Kept
  <2> QED BY <2>1, <2>2
<1>2. a.mode = "custom" => a.tag # 0
  BY <1>1 DEF AlertInv, Kept
<1>3. \/ /\ alert' = [alert EXCEPT ![r] = Discarded(a)] /\ UNCHANGED deferredCalls
      \/ /\ a.tag = 0 \/ a.tag \in shown
         /\ \/ a.mode = "native" /\ alert' = [alert EXCEPT ![r] = WithDialog(a, a.tag # 0)]
               /\ UNCHANGED deferredCalls
            \/ /\ a.mode = "custom" /\ presenters # {} /\ UNCHANGED deferredCalls
               /\ alert' = [alert EXCEPT ![r] =
                              [a EXCEPT !.knows = {<<"presenter", g>> : g \in presenters}]]
            \/ Bubble(r, a)
  BY DEF Request
<1>4. "nobody" \in Enders
  BY DEF Enders
<1> HIDE DEF a
<1>5. CASE alert' = [alert EXCEPT ![r] = Ended(a, "nobody")] /\ UNCHANGED deferredCalls
  <2>1. /\ Ended(a, "nobody") \in Alert /\ Ended(a, "nobody").by = "nobody"
        /\ Ended(a, "nobody").mode = a.mode
    BY <1>1, <1>4, AlertTypes
  <2>2. /\ alert' \in [Requests -> Alert] /\ \A m \in Requests \ {r} : alert'[m] = alert[m]
        /\ alert'[r] = Ended(a, "nobody")
    BY <1>t, <1>5, <2>1
  <2>3. Kept(r)'
    BY <1>1, <1>2, <1>4, <2>2, EndedIsKept
  <2> QED BY <1>t, <1>1, <1>5, <2>1, <2>2, <2>3, OneIsKept
<1>6. CASE /\ alert' = [alert EXCEPT ![r] = [a EXCEPT !.owner = GameTag, !.dialog = "visible"]]
           /\ UNCHANGED deferredCalls /\ (a.tag = 0 \/ a.tag \in shown)
  <2> DEFINE b == [a EXCEPT !.owner = GameTag, !.dialog = "visible"]
  <2>1. /\ b \in Alert /\ b.state = "open" /\ b.tag = a.tag /\ b.mode = a.mode /\ b.knows = {}
        /\ b.by = "" /\ ~b.bubbled /\ b.dialog = "visible"
    BY <1>1, AlertRecord
  <2> HIDE DEF b
  <2>2. /\ alert' \in [Requests -> Alert] /\ \A m \in Requests \ {r} : alert'[m] = alert[m]
        /\ alert'[r] = b
    BY <1>t, <1>6, <2>1 DEF b
  <2>3. <<"handler", r>> \notin deferredCalls'
    BY <1>6 DEF AlertInv, Kept
  <2>4. Kept(r)'
    <3>1. HeldBySomeone(r)'
      BY <2>1, <2>2 DEF HeldBySomeone
    <3>2. /\ alert'[r].state = "open" /\ alert'[r].by = "" /\ alert'[r].knows = {}
          /\ alert'[r].tag = a.tag /\ alert'[r].mode = a.mode
      BY <2>1, <2>2
    <3>3. alert'[r].tag = 0 \/ alert'[r].tag \in shown'
      <4>1. shown' = shown
        OBVIOUS
      <4>2. a.tag = 0 \/ a.tag \in shown
        BY <1>6
      <4> QED BY <3>2, <4>1, <4>2
    <3> QED BY <1>2, <2>3, <3>1, <3>2, <3>3 DEF Kept
  <2> QED BY <1>t, <1>1, <1>6, <2>1, <2>2, <2>4, OneIsKept
<1>7. CASE /\ a.mode = "custom" /\ presenters # {} /\ UNCHANGED deferredCalls
           /\ alert' = [alert EXCEPT ![r] =
                          [a EXCEPT !.knows = {<<"presenter", g>> : g \in presenters}]]
           /\ a.tag = 0 \/ a.tag \in shown
  <2> DEFINE b == [a EXCEPT !.knows = {<<"presenter", g>> : g \in presenters}]
  <2>1. presenters = {runtime} /\ runtime \in 0..Runtimes
    BY <1>7, AlertBounds DEF AlertInv, CallsAreOwed, AlertsTypeOK
  <2>2. {<<"presenter", g>> : g \in presenters} = {<<"presenter", runtime>>}
    BY <2>1
  <2>3. {<<"presenter", runtime>>} \in Known
    BY <2>1 DEF Known
  <2>4. /\ b \in Alert /\ b.state = "open" /\ b.tag = a.tag /\ b.mode = a.mode
        /\ b.knows = {<<"presenter", runtime>>} /\ b.by = "" /\ ~b.bubbled
    BY <1>1, <2>2, <2>3, AlertRecord
  <2> HIDE DEF b
  <2>5. /\ alert' \in [Requests -> Alert] /\ \A m \in Requests \ {r} : alert'[m] = alert[m]
        /\ alert'[r] = b
    BY <1>t, <1>7, <2>4 DEF b
  <2>6. <<"handler", r>> \notin deferredCalls'
    BY <1>7 DEF AlertInv, Kept
  <2>7. Kept(r)'
    <3>1. HeldBySomeone(r)'
      BY <2>4, <2>5 DEF HeldBySomeone
    <3>2. /\ alert'[r].state = "open" /\ alert'[r].by = ""
          /\ alert'[r].knows = {<<"presenter", runtime>>} /\ alert'[r].tag = a.tag
      BY <2>4, <2>5
    <3>3. alert'[r].mode = "custom" /\ a.mode = "custom"
      BY <1>7, <2>4, <2>5
    <3>4. alert'[r].tag # 0 /\ alert'[r].tag \in shown'
      <4>1. shown' = shown
        OBVIOUS
      <4>2. a.tag # 0 /\ a.tag \in shown
        BY <1>2, <1>7
      <4> QED BY <3>2, <4>1, <4>2
    <3>5. <<"root", 0>> \notin alert'[r].knows
      BY <3>2
    <3> QED BY <2>6, <3>1, <3>2, <3>3, <3>4, <3>5 DEF Kept
  <2> QED BY <1>t, <1>1, <1>7, <2>4, <2>5, <2>7, OneIsKept
<1>8. CASE Bubble(r, a) /\ (a.tag = 0 \/ a.tag \in shown)
  <2>1. <<"root", 0>> \notin a.knows /\ \A g \in 0..Runtimes : <<"presenter", g>> \notin a.knows
    BY <1>1
  <2> QED BY <1>1, <1>2, <1>8, <2>1, BubbleStep
<1> QED BY <1>3, <1>5, <1>6, <1>7, <1>8 DEF WithDialog, Discarded

\* A presenter's answer ends a request that it still has.
LEMMA ReplyStep ==
  ASSUME AlertInv, NEW r \in Requests, alert[r].mode = "custom", Reply(r),
         UNCHANGED <<shown, runtime>>
  PROVE  /\ alert' \in [Requests -> Alert] /\ \A m \in Requests \ {r} : alert'[m] = alert[m]
         /\ alert'[r].mode = alert[r].mode
         /\ alert[r].state = "posted" => alert'[r].state = "posted"
         /\ alert'[r].by # alert[r].by => /\ alert'[r].by = "presenter" /\ ~alert[r].bubbled
                                          /\ alert[r].state = "open" /\ alert[r].by = ""
         /\ UNCHANGED deferredCalls
         /\ \A m \in Requests : Kept(m)'
<1>t. alert \in [Requests -> Alert] /\ UNCHANGED deferredCalls
  BY DEF AlertInv, AlertsTypeOK, Reply
<1>1. CASE alert' = alert
  BY <1>t, <1>1, OtherIsKept DEF AlertInv
<1>2. CASE /\ Open(r) /\ ~alert[r].bubbled
           /\ alert' = [alert EXCEPT ![r] = Ended(alert[r], "presenter")]
  <2>1. "presenter" \in Enders /\ alert[r] \in Alert
    BY <1>t DEF Enders
  <2>2. /\ Ended(alert[r], "presenter") \in Alert /\ Ended(alert[r], "presenter").by = "presenter"
        /\ Ended(alert[r], "presenter").mode = alert[r].mode
    BY <2>1, AlertTypes
  <2>3. /\ alert' \in [Requests -> Alert] /\ \A m \in Requests \ {r} : alert'[m] = alert[m]
        /\ alert'[r] = Ended(alert[r], "presenter")
    BY <1>t, <1>2, <2>2
  <2>4. /\ \A g \in 0..Runtimes : <<"presenter", g>> \in alert[r].knows => alert[r].mode = "custom"
        /\ alert[r].mode = "custom" => alert[r].tag # 0
        /\ alert[r].state = "open" /\ alert[r].by = ""
    BY <1>2 DEF AlertInv, Kept, Open
  <2>5. Kept(r)'
    BY <2>1, <2>3, <2>4, EndedIsKept
  <2> QED BY <1>t, <1>2, <2>2, <2>3, <2>4, <2>5, OneIsKept
<1> QED BY <1>1, <1>2 DEF Reply

\* A presenter that declines passes a request that it still has up.
LEMMA DeclineStep ==
  ASSUME AlertInv, NEW r \in Requests, Decline(r), UNCHANGED <<shown, runtime>>
  PROVE  /\ alert' \in [Requests -> Alert] /\ \A m \in Requests \ {r} : alert'[m] = alert[m]
         /\ alert'[r].mode = alert[r].mode
         /\ alert[r].state = "posted" => alert'[r].state = "posted"
         /\ alert'[r].by = alert[r].by
         /\ deferredCalls' \subseteq {"handler", "restore"} \X Requests
         /\ \A m \in Requests : Kept(m)'
<1>t. /\ alert \in [Requests -> Alert] /\ alert[r] \in Alert
      /\ deferredCalls \subseteq {"handler", "restore"} \X Requests
  BY DEF AlertInv, AlertsTypeOK
<1>1. CASE UNCHANGED <<alert, deferredCalls>>
  BY <1>t, <1>1, OtherIsKept DEF AlertInv
<1>2. CASE Open(r) /\ Bubble(r, alert[r])
  <2>1. /\ alert[r].state = "open" /\ alert[r].by = ""
        /\ alert[r].tag = 0 \/ alert[r].tag \in shown
        /\ alert[r].mode = "custom" => alert[r].tag # 0
        /\ <<"root", 0>> \notin alert[r].knows \/ alert[r].tag # 0
        /\ \A g \in 0..Runtimes : <<"presenter", g>> \in alert[r].knows => alert[r].mode = "custom"
    BY <1>2 DEF AlertInv, Kept, Open
  <2> QED BY <1>t, <1>2, <2>1, BubbleStep
<1> QED BY <1>1, <1>2 DEF Decline

\* A call of JavaScript runs on the main thread.
LEMMA RunCallStep ==
  ASSUME AlertInv, RunCall
  PROVE  AlertInv' /\ AnswerIsOwned
<1> USE DEF AlertInv
<1>1. /\ calls # <<>> /\ calls' = Tail(calls) /\ UNCHANGED <<started, shown, handlers, runtime>>
  BY DEF RunCall, surroundings
<1>2. /\ calls' \in Seq(CallType) /\ Head(calls) = calls[1] /\ calls[1] \in CallType
      /\ \A o, l : Called(o, l) <=> Called(o, l)' \/ calls[1] = <<o, l>>
  BY <1>1, HeadIsCalled DEF AlertsTypeOK, CallType
<1>3. ASSUME NEW r \in Requests, calls[1] = <<"request", r>>, Request(r), UNCHANGED presenters
      PROVE  AlertInv' /\ AnswerIsOwned
  <2>1. alert[r].state = "posted" /\ alert[r].by = ""
    BY <1>2, <1>3 DEF CallsAreOwed, Kept
  <2>2. /\ alert' \in [Requests -> Alert] /\ \A m \in Requests \ {r} : alert'[m] = alert[m]
        /\ alert'[r].mode = alert[r].mode /\ alert'[r].by \in {"", "nobody"}
        /\ deferredCalls' \subseteq {"handler", "restore"} \X Requests
        /\ \A m \in Requests : Kept(m)'
    BY <1>1, <1>3, <2>1, RequestStep
  <2>3. AlertsTypeOK'
    BY <1>1, <1>2, <1>3, <2>2 DEF AlertsTypeOK, CallType
  <2>4. CallsAreOwed'
    <3>1. ASSUME NEW m \in Requests
          PROVE  /\ alert'[m].mode = alert[m].mode
                 /\ alert[m].state = "posted"
                      => alert'[m].state = "posted" \/ calls[1] = <<"request", m>>
      BY <1>3, <2>2
    <3>2. presenters' \subseteq {runtime}
      BY <1>3 DEF CallsAreOwed
    <3> QED BY <1>1, <3>1, <3>2, CallsRun
  <2>5. AnswerIsOwned
    BY <2>1, <2>2 DEF AnswerIsOwned
  <2> QED BY <2>2, <2>3, <2>4, <2>5
<1>4. ASSUME NEW r \in Requests, calls[1] = <<"reply", r>>, Reply(r), UNCHANGED presenters
      PROVE  AlertInv' /\ AnswerIsOwned
  <2>1. alert[r].mode = "custom"
    BY <1>2, <1>4 DEF CallsAreOwed
  <2>2. /\ alert' \in [Requests -> Alert] /\ \A m \in Requests \ {r} : alert'[m] = alert[m]
        /\ alert'[r].mode = alert[r].mode
        /\ alert[r].state = "posted" => alert'[r].state = "posted"
        /\ alert'[r].by # alert[r].by => /\ alert'[r].by = "presenter" /\ ~alert[r].bubbled
                                         /\ alert[r].state = "open" /\ alert[r].by = ""
        /\ UNCHANGED deferredCalls
        /\ \A m \in Requests : Kept(m)'
    BY <1>1, <1>4, <2>1, ReplyStep
  <2>3. AlertsTypeOK'
    BY <1>1, <1>2, <1>4, <2>2 DEF AlertsTypeOK, CallType
  <2>4. CallsAreOwed'
    <3>1. ASSUME NEW m \in Requests
          PROVE  /\ alert'[m].mode = alert[m].mode
                 /\ alert[m].state = "posted" => alert'[m].state = "posted"
      BY <2>2
    <3>2. presenters' \subseteq {runtime}
      BY <1>4 DEF CallsAreOwed
    <3> QED BY <1>1, <3>1, <3>2, CallsRun
  <2>5. AnswerIsOwned
    BY <2>1, <2>2 DEF AnswerIsOwned
  <2> QED BY <2>2, <2>3, <2>4, <2>5
<1>5. ASSUME NEW r \in Requests, calls[1] = <<"decline", r>>, Decline(r), UNCHANGED presenters
      PROVE  AlertInv' /\ AnswerIsOwned
  <2>2. /\ alert' \in [Requests -> Alert] /\ \A m \in Requests \ {r} : alert'[m] = alert[m]
        /\ alert'[r].mode = alert[r].mode
        /\ alert[r].state = "posted" => alert'[r].state = "posted"
        /\ alert'[r].by = alert[r].by
        /\ deferredCalls' \subseteq {"handler", "restore"} \X Requests
        /\ \A m \in Requests : Kept(m)'
    BY <1>1, <1>5, DeclineStep
  <2>3. AlertsTypeOK'
    BY <1>1, <1>2, <1>5, <2>2 DEF AlertsTypeOK, CallType
  <2>4. CallsAreOwed'
    <3>1. ASSUME NEW m \in Requests
          PROVE  /\ alert'[m].mode = alert[m].mode
                 /\ alert[m].state = "posted" => alert'[m].state = "posted"
      BY <2>2
    <3>2. presenters' \subseteq {runtime}
      BY <1>5 DEF CallsAreOwed
    <3> QED BY <1>1, <3>1, <3>2, CallsRun
  <2>5. AnswerIsOwned
    BY <2>2 DEF AnswerIsOwned
  <2> QED BY <2>2, <2>3, <2>4, <2>5
<1>6. ASSUME NEW g \in 1..Runtimes, calls[1] = <<"present", g>>, presenters' = presenters \cup {g},
             UNCHANGED <<alert, deferredCalls>>
      PROVE  AlertInv' /\ AnswerIsOwned
  <2>1. g = runtime
    BY <1>2, <1>6 DEF CallsAreOwed
  <2>2. presenters' \subseteq {runtime}
    BY <1>6, <2>1 DEF CallsAreOwed
  <2>3. CallsAreOwed'
    BY <1>1, <1>6, <2>2, CallsRun
  <2>4. AlertsTypeOK'
    BY <1>1, <1>2, <1>6, <2>1 DEF AlertsTypeOK, CallType
  <2>5. \A m \in Requests : Kept(m)'
    BY <1>1, <1>6, OtherIsKept
  <2> QED BY <1>6, <2>3, <2>4, <2>5 DEF AnswerIsOwned
<1>7. \/ \E r \in Requests : calls[1] = <<"request", r>> \/ calls[1] = <<"reply", r>>
                             \/ calls[1] = <<"decline", r>>
      \/ \E g \in 1..Runtimes : calls[1] = <<"present", g>>
  BY <1>2 DEF CallType
<1> QED BY <1>2, <1>3, <1>4, <1>5, <1>6, <1>7 DEF RunCall

\* A handler, the game or the player answers: Complete() is for the owner.
LEMMA AnswerStep ==
  ASSUME AlertInv, NEW r \in Requests, HandlerAnswers(r) \/ Select(r)
  PROVE  AlertInv' /\ AnswerIsOwned
<1>1. UNCHANGED <<started, shown, handlers, runtime, presenters, calls, deferredCalls>>
  BY DEF HandlerAnswers, Select, surroundings
<1>2. CASE <<"root", 0>> \in alert[r].knows /\ Complete(r, alert[r].tag, "root")
  <2>1. CASE Open(r)
    <3>1. alert[r].tag \in shown
      BY <1>2, <2>1 DEF AlertInv, Kept, Open
    <3> QED BY <1>1, <1>2, <3>1, CompleteStep
  <2>2. CASE ~Open(r)
    <3>1. UNCHANGED alert /\ Complete(r, GameTag, "game")
      BY <1>2, <2>2 DEF Complete
    <3> QED BY <1>1, <3>1, CompleteStep
  <2> QED BY <2>1, <2>2
<1>3. CASE Complete(r, GameTag, "game") \/ Complete(r, GameTag, "player")
  BY <1>1, <1>3, CompleteStep
<1> QED BY <1>2, <1>3 DEF HandlerAnswers, Select

\* A handler is told of the request it was chosen for.
LEMMA CallHandlerStep ==
  ASSUME AlertInv, NEW r \in Requests, CallHandler(r)
  PROVE  AlertInv' /\ AnswerIsOwned
<1> USE DEF AlertInv
<1> DEFINE who == IF alert[r].owner = GameTag THEN "game" ELSE "root"
           told_ == [alert[r] EXCEPT !.knows = alert[r].knows \cup {<<who, 0>>}]
<1>1. /\ <<"handler", r>> \in deferredCalls
      /\ deferredCalls' = deferredCalls \ {<<"handler", r>>}
      /\ alert' = [alert EXCEPT ![r] = told_]
      /\ UNCHANGED <<started, shown, handlers, runtime, presenters, calls>>
  BY DEF CallHandler, surroundings
<1>2. alert[r] \in Alert /\ alert \in [Requests -> Alert]
  BY DEF AlertsTypeOK
<1>3. alert[r].knows \cup {<<who, 0>>} \in Known
  <2>1. alert[r].knows \in Known
    BY <1>2, AlertRecord
  <2>2. 0 \in 0..Runtimes
    BY AlertBounds
  <2> QED BY <2>1, <2>2 DEF Known
<1>4. who \in {"game", "root"} /\ (who = "root" => alert[r].owner # GameTag)
  OBVIOUS
<1>5. /\ told_ \in Alert /\ told_.state = alert[r].state /\ told_.tag = alert[r].tag
      /\ told_.mode = alert[r].mode /\ told_.owner = alert[r].owner
      /\ told_.bubbled = alert[r].bubbled /\ told_.dialog = alert[r].dialog
      /\ told_.by = alert[r].by /\ told_.knows = alert[r].knows \cup {<<who, 0>>}
  BY <1>2, <1>3, AlertRecord
<1> HIDE DEF told_, who
<1>6. /\ alert' \in [Requests -> Alert] /\ \A m \in Requests \ {r} : alert'[m] = alert[m]
      /\ alert'[r] = told_
  BY <1>1, <1>2, <1>5
<1>7. AlertsTypeOK'
  BY <1>1, <1>6 DEF AlertsTypeOK
<1>8. CallsAreOwed'
  <2>1. \A m \in Requests : /\ alert[m].state = "posted" => alert'[m].state = "posted"
                            /\ alert'[m].mode = alert[m].mode
    BY <1>5, <1>6
  <2> QED BY <1>1, <2>1, CallsStay
<1>9. Kept(r)'
  <2>1. alert[r].state \notin {"none", "posted"}
    BY <1>1 DEF Kept
  <2>2. <<"handler", r>> \notin deferredCalls'
    BY <1>1
  <2>3. \A g \in 0..Runtimes :
          <<"presenter", g>> \in alert'[r].knows => alert'[r].mode = "custom"
    <3>1. \A g : <<"presenter", g>> \in alert'[r].knows => <<"presenter", g>> \in alert[r].knows
      BY <1>4, <1>5, <1>6
    <3>2. alert'[r].mode = alert[r].mode
      BY <1>5, <1>6
    <3> QED BY <3>1, <3>2 DEF Kept
  <2>4. ASSUME alert[r].state = "open"
        PROVE  /\ alert[r].by = "" /\ (alert[r].tag = 0 \/ alert[r].tag \in shown)
               /\ who = "root" => alert[r].tag # 0
               /\ <<"root", 0>> \in alert[r].knows => alert[r].tag # 0
    BY <1>1, <1>4, <2>4 DEF Kept
  <2>5. ASSUME alert[r].state = "open" PROVE HeldBySomeone(r)'
    <3>1. CASE who = "game"
      BY <1>5, <1>6, <3>1 DEF HeldBySomeone
    <3>2. CASE who = "root"
      <4>1. alert'[r].tag \in shown' /\ <<"root", 0>> \in alert'[r].knows
        BY <1>1, <1>5, <1>6, <2>4, <2>5, <3>2
      <4> QED BY <4>1 DEF HeldBySomeone
    <3> QED BY <1>4, <3>1, <3>2
  <2>6. ASSUME alert[r].state = "open"
        PROVE  /\ alert'[r].by = "" /\ (alert'[r].tag = 0 \/ alert'[r].tag \in shown')
               /\ <<"root", 0>> \in alert'[r].knows => alert'[r].tag # 0
    <3>1. alert'[r].by = "" /\ alert'[r].tag = alert[r].tag /\ shown' = shown
      BY <1>1, <1>5, <1>6, <2>4, <2>6
    <3>2. <<"root", 0>> \in alert'[r].knows => who = "root" \/ <<"root", 0>> \in alert[r].knows
      BY <1>5, <1>6
    <3> QED BY <2>4, <2>6, <3>1, <3>2
  <2>7. /\ alert'[r].state = alert[r].state /\ alert'[r].mode = alert[r].mode
        /\ alert[r].mode = "custom" => alert'[r].tag # 0
    BY <1>5, <1>6 DEF Kept
  <2> QED BY <2>1, <2>2, <2>3, <2>5, <2>6, <2>7 DEF Kept
<1>10. ASSUME NEW m \in Requests PROVE Kept(m)'
  <2>1. CASE m # r
    BY <1>1, <1>6, <2>1, OtherIsKept
  <2> QED BY <1>9, <2>1
<1>11. AnswerIsOwned
  BY <1>5, <1>6 DEF AnswerIsOwned
<1> QED BY <1>7, <1>8, <1>10, <1>11

\* A dialog shows or hides; one that hides without an end is about to be restored.
LEMMA DialogStep ==
  ASSUME AlertInv, NEW r \in Requests, NEW shows \in {"visible", "hidden"},
         alert' = [alert EXCEPT ![r].dialog = shows], alert[r].dialog # "none",
         shows = "hidden" => <<"restore", r>> \in deferredCalls',
         \A m \in Requests :
           <<"handler", m>> \in deferredCalls' <=> <<"handler", m>> \in deferredCalls,
         \A m \in Requests \ {r} :
           <<"restore", m>> \in deferredCalls' <=> <<"restore", m>> \in deferredCalls,
         deferredCalls' \subseteq {"handler", "restore"} \X Requests,
         UNCHANGED <<started, shown, handlers, runtime, presenters, calls>>
  PROVE  AlertInv' /\ AnswerIsOwned
<1> USE DEF AlertInv
<1> DEFINE a == [alert[r] EXCEPT !.dialog = shows]
<1>1. /\ alert \in [Requests -> Alert] /\ alert[r] \in Alert
      /\ alert' = [alert EXCEPT ![r] = a]
  BY DEF AlertsTypeOK
<1>2. /\ a \in Alert /\ a.state = alert[r].state /\ a.tag = alert[r].tag /\ a.mode = alert[r].mode
      /\ a.owner = alert[r].owner /\ a.bubbled = alert[r].bubbled /\ a.dialog = shows
      /\ a.by = alert[r].by /\ a.knows = alert[r].knows
  BY <1>1, AlertRecord
<1> HIDE DEF a
<1>3. /\ alert' \in [Requests -> Alert] /\ \A m \in Requests \ {r} : alert'[m] = alert[m]
      /\ alert'[r] = a
  BY <1>1, <1>2
<1>4. AlertsTypeOK'
  BY <1>3 DEF AlertsTypeOK
<1>5. CallsAreOwed'
  <2>1. \A m \in Requests : /\ alert[m].state = "posted" => alert'[m].state = "posted"
                            /\ alert'[m].mode = alert[m].mode
    BY <1>2, <1>3
  <2> QED BY <2>1, CallsStay
<1>6. Kept(r)'
  <2>1. HeldBySomeone(r)'
    BY <1>2, <1>3 DEF HeldBySomeone
  <2>2. alert[r].state \notin {"none", "posted"}
    BY DEF Kept
  <2>3. /\ alert'[r].state = alert[r].state /\ alert'[r].tag = alert[r].tag
        /\ alert'[r].mode = alert[r].mode /\ alert'[r].owner = alert[r].owner
        /\ alert'[r].bubbled = alert[r].bubbled /\ alert'[r].by = alert[r].by
        /\ alert'[r].knows = alert[r].knows
    BY <1>2, <1>3
  <2>4. shown' = shown
    OBVIOUS
  <2>5. <<"handler", r>> \in deferredCalls' <=> <<"handler", r>> \in deferredCalls
    OBVIOUS
  <2>6. /\ \A g \in 0..Runtimes :
             <<"presenter", g>> \in alert'[r].knows => alert'[r].mode = "custom"
        /\ alert'[r].mode = "custom" => alert'[r].tag # 0
    <3>1. /\ \A g \in 0..Runtimes :
               <<"presenter", g>> \in alert[r].knows => alert[r].mode = "custom"
          /\ alert[r].mode = "custom" => alert[r].tag # 0
      BY DEF Kept
    <3> QED BY <2>3, <3>1
  <2>7. ASSUME alert[r].state = "open"
        PROVE  /\ alert'[r].by = "" /\ (alert'[r].tag = 0 \/ alert'[r].tag \in shown')
               /\ <<"handler", r>> \in deferredCalls' =>
                    /\ alert'[r].bubbled
                    /\ \/ alert'[r].owner = GameTag
                       \/ alert'[r].owner = alert'[r].tag /\ alert'[r].tag # 0
               /\ <<"root", 0>> \in alert'[r].knows => alert'[r].tag # 0
    BY <2>3, <2>4, <2>5, <2>7 DEF Kept
  <2> QED BY <2>1, <2>2, <2>3, <2>6, <2>7 DEF Kept
<1>7. ASSUME NEW m \in Requests PROVE Kept(m)'
  <2>1. CASE m # r
    BY <1>3, <2>1, OtherIsKept
  <2> QED BY <1>6, <2>1
<1>8. AnswerIsOwned
  BY <1>2, <1>3 DEF AnswerIsOwned
<1> QED BY <1>4, <1>5, <1>7, <1>8

\* The player dismisses a dialog: the request ends if it may, or the dialog comes back.
LEMMA DismissStep ==
  ASSUME AlertInv, NEW r \in Requests, Dismiss(r)
  PROVE  AlertInv' /\ AnswerIsOwned
<1>1. UNCHANGED <<started, shown, handlers, runtime, presenters, calls>>
  BY DEF Dismiss, surroundings
<1>2. CASE Complete(r, GameTag, "player") /\ UNCHANGED deferredCalls
  BY <1>1, <1>2, CompleteStep
<1>3. CASE /\ alert' = [alert EXCEPT ![r].dialog = "hidden"]
           /\ deferredCalls' = deferredCalls \cup {<<"restore", r>>}
  <2>1. alert[r].dialog # "none"
    BY DEF Dismiss
  <2>2. deferredCalls' \subseteq {"handler", "restore"} \X Requests
    <3>1. <<"restore", r>> \in {"handler", "restore"} \X Requests
      OBVIOUS
    <3> QED BY <1>3, <3>1 DEF AlertInv, AlertsTypeOK
  <2>3. /\ \A m \in Requests :
             <<"handler", m>> \in deferredCalls' <=> <<"handler", m>> \in deferredCalls
        /\ \A m \in Requests \ {r} :
             <<"restore", m>> \in deferredCalls' <=> <<"restore", m>> \in deferredCalls
        /\ <<"restore", r>> \in deferredCalls'
    BY <1>3
  <2> QED BY <1>1, <1>3, <2>1, <2>2, <2>3, DialogStep
<1> QED BY <1>2, <1>3 DEF Dismiss

\* The deferred restoration of a dialog, or the end of a request whose dialog is gone.
LEMMA RestoreStep ==
  ASSUME AlertInv, NEW r \in Requests, Restore(r)
  PROVE  AlertInv' /\ AnswerIsOwned
<1> USE DEF AlertInv
<1>1. /\ deferredCalls' = deferredCalls \ {<<"restore", r>>}
      /\ UNCHANGED <<started, shown, handlers, runtime, presenters, calls>>
  BY DEF Restore, surroundings
<1>2. /\ deferredCalls' \subseteq {"handler", "restore"} \X Requests
      /\ \A m \in Requests :
           <<"handler", m>> \in deferredCalls' <=> <<"handler", m>> \in deferredCalls
      /\ \A m \in Requests \ {r} :
           <<"restore", m>> \in deferredCalls' <=> <<"restore", m>> \in deferredCalls
  BY <1>1 DEF AlertsTypeOK
<1>t. alert \in [Requests -> Alert] /\ alert[r] \in Alert
  BY DEF AlertsTypeOK
<1>3. CASE ~Open(r)
  <2>1. UNCHANGED alert
    BY <1>3 DEF Restore
  <2>2. Kept(r)'
    BY <1>2, <1>3, <2>1 DEF Kept, Open
  <2>3. ASSUME NEW m \in Requests PROVE Kept(m)'
    <3>1. CASE m # r
      BY <1>1, <1>2, <2>1, <3>1, OtherIsKept
    <3> QED BY <2>2, <3>1
  <2>4. AlertsTypeOK'
    BY <1>1, <1>2, <2>1 DEF AlertsTypeOK
  <2>5. CallsAreOwed'
    BY <1>1, <2>1, CallsStay
  <2> QED BY <2>1, <2>3, <2>4, <2>5 DEF AnswerIsOwned
<1>4. CASE Open(r) /\ alert[r].dialog = "none"
  <2>1. alert' = [alert EXCEPT ![r] = Ended(alert[r], "nobody")] /\ "nobody" \in Enders
    BY <1>4 DEF Restore, Discarded, Enders
  <2>2. /\ Ended(alert[r], "nobody") \in Alert /\ Ended(alert[r], "nobody").by = "nobody"
        /\ Ended(alert[r], "nobody").mode = alert[r].mode
    BY <1>t, <2>1, AlertTypes
  <2>3. /\ alert' \in [Requests -> Alert] /\ \A m \in Requests \ {r} : alert'[m] = alert[m]
        /\ alert'[r] = Ended(alert[r], "nobody")
    BY <1>t, <2>1, <2>2
  <2>4. /\ \A g \in 0..Runtimes : <<"presenter", g>> \in alert[r].knows => alert[r].mode = "custom"
        /\ alert[r].mode = "custom" => alert[r].tag # 0
        /\ alert[r].state = "open" /\ alert[r].by = ""
    BY <1>4 DEF Kept, Open
  <2>5. Kept(r)'
    BY <1>t, <2>1, <2>3, <2>4, EndedIsKept
  <2>6. ASSUME NEW m \in Requests PROVE Kept(m)'
    <3>1. CASE m # r
      BY <1>1, <1>2, <2>3, <3>1, OtherIsKept
    <3> QED BY <2>5, <3>1
  <2>7. AlertsTypeOK'
    BY <1>1, <1>2, <2>3 DEF AlertsTypeOK
  <2>8. CallsAreOwed'
    <3>1. \A m \in Requests : /\ alert[m].state = "posted" => alert'[m].state = "posted"
                              /\ alert'[m].mode = alert[m].mode
      BY <2>2, <2>3, <2>4
    <3> QED BY <1>1, <3>1, CallsStay
  <2>9. AnswerIsOwned
    BY <2>2, <2>3, <2>4 DEF AnswerIsOwned
  <2> QED BY <2>6, <2>7, <2>8, <2>9
<1>5. CASE Open(r) /\ alert[r].dialog # "none"
  <2>1. alert' = [alert EXCEPT ![r].dialog = "visible"]
    BY <1>5 DEF Restore
  <2> QED BY <1>1, <1>2, <1>5, <2>1, DialogStep
<1> QED BY <1>3, <1>4, <1>5

\* Handlers come and go, and roots start: no request loses its surface.
LEMMA RootStep ==
  ASSUME AlertInv, SetHandler \/ StartRoot
  PROVE  AlertInv' /\ AnswerIsOwned
<1> USE DEF AlertInv
<1>1. UNCHANGED <<alert, runtime, presenters, calls, deferredCalls>> /\ shown \subseteq shown'
  BY DEF SetHandler, StartRoot
<1>2. AlertsTypeOK'
  <2>1. CASE SetHandler
    BY <1>1, <2>1 DEF AlertsTypeOK, SetHandler
  <2>2. CASE StartRoot
    <3>1. /\ started < Tags /\ started' = started + 1 /\ shown' = shown \cup {started + 1}
          /\ UNCHANGED handlers
      BY <2>2 DEF StartRoot
    <3>2. started' \in 0..Tags /\ shown' \subseteq 1..started'
      BY <3>1, AlertBounds DEF AlertsTypeOK
    <3> QED BY <1>1, <3>1, <3>2 DEF AlertsTypeOK
  <2> QED BY <2>1, <2>2
<1>3. CallsAreOwed'
  BY <1>1, CallsStay
<1>4. ASSUME NEW m \in Requests PROVE Kept(m)'
  BY <1>1 DEF Kept, HeldBySomeone
<1> QED BY <1>1, <1>2, <1>3, <1>4 DEF AnswerIsOwned

\* A request of a surface that stops is discarded, and the others keep their holders.
LEMMA StopRootStep ==
  ASSUME AlertInv, StopRootSurface
  PROVE  AlertInv' /\ AnswerIsOwned
<1> USE DEF AlertInv
<1>1. PICK t \in shown : shown' = shown \ {t} /\ alert' = Close({t})
  BY DEF StopRootSurface
<1>2. /\ handlers' = handlers \cap ({0} \cup shown')
      /\ UNCHANGED <<started, runtime, presenters, calls, deferredCalls>>
  BY DEF StopRootSurface
<1>3. "nobody" \in Enders /\ alert \in [Requests -> Alert]
  BY DEF Enders, AlertsTypeOK
<1>4. ASSUME NEW m \in Requests
      PROVE  \/ alert[m].state = "open" /\ alert'[m] = Ended(alert[m], "nobody")
             \/ /\ alert'[m] = alert[m]
                /\ alert[m].state = "open" => alert[m].tag # t
  BY <1>1 DEF Close, Open, Discarded
<1>5. ASSUME NEW m \in Requests
      PROVE  /\ Ended(alert[m], "nobody") \in Alert /\ Ended(alert[m], "nobody").by = "nobody"
             /\ Ended(alert[m], "nobody").mode = alert[m].mode
  BY <1>3, AlertTypes
<1>6. alert' \in [Requests -> Alert]
  BY <1>1, <1>3, <1>5 DEF Close, Discarded
<1>7. AlertsTypeOK'
  BY <1>1, <1>2, <1>6 DEF AlertsTypeOK
<1>8. CallsAreOwed'
  <2>1. \A m \in Requests : /\ alert[m].state = "posted" => alert'[m].state = "posted"
                            /\ alert'[m].mode = alert[m].mode
    BY <1>4, <1>5
  <2> QED BY <1>2, <2>1, CallsStay
<1>9. ASSUME NEW m \in Requests PROVE Kept(m)'
  <2>1. /\ \A g \in 0..Runtimes : <<"presenter", g>> \in alert[m].knows => alert[m].mode = "custom"
        /\ alert[m].mode = "custom" => alert[m].tag # 0
    BY DEF Kept
  <2>2. CASE alert'[m] = Ended(alert[m], "nobody")
    BY <1>3, <2>1, <2>2, EndedIsKept
  <2>3. CASE alert'[m] = alert[m] /\ (alert[m].state = "open" => alert[m].tag # t)
    <3>1. alert[m].state = "open" /\ alert[m].tag \in shown => alert[m].tag \in shown'
      BY <1>1, <2>3
    <3>2. alert[m].state = "open" => HeldBySomeone(m)'
      BY <1>2, <2>3, <3>1 DEF Kept, HeldBySomeone
    <3> QED BY <1>2, <2>3, <3>1, <3>2 DEF Kept
  <2> QED BY <1>4, <2>2, <2>3
<1>10. AnswerIsOwned
  BY <1>4, <1>5 DEF AnswerIsOwned, Kept
<1> QED BY <1>7, <1>8, <1>9, <1>10

\* When the runtime retires, the requests of its surfaces and those it posted are discarded;
\* what remains is of no surface, so no presenter has it.
LEMMA RetireStep ==
  ASSUME AlertInv, RetireRuntime
  PROVE  AlertInv' /\ AnswerIsOwned
<1> USE DEF AlertInv
<1>1. /\ runtime < Runtimes /\ runtime' = runtime + 1
      /\ alert' = [r \in Requests |-> IF alert[r].state = "posted" THEN Discarded(alert[r])
                                      ELSE Close(shown)[r]]
      /\ shown' = {} /\ handlers' = handlers \cap {0}
      /\ calls' = <<>> /\ presenters' = {}
      /\ UNCHANGED <<started, deferredCalls>>
  BY DEF RetireRuntime, Presenters
<1>2. "nobody" \in Enders /\ alert \in [Requests -> Alert]
  BY DEF Enders, AlertsTypeOK
<1>3. ASSUME NEW m \in Requests
      PROVE  \/ /\ alert[m].state \in {"posted", "open"}
                /\ alert'[m] = Ended(alert[m], "nobody")
             \/ /\ alert'[m] = alert[m] /\ alert[m].state # "posted"
                /\ alert[m].state = "open" => alert[m].tag \notin shown
  BY <1>1 DEF Close, Open, Discarded
<1>4. ASSUME NEW m \in Requests
      PROVE  Ended(alert[m], "nobody") \in Alert /\ Ended(alert[m], "nobody").by = "nobody"
  BY <1>2, AlertTypes
<1>5. alert' \in [Requests -> Alert]
  BY <1>1, <1>2, <1>4 DEF Close, Discarded
<1>6. AlertsTypeOK'
  <2>1. /\ runtime' \in 1..Runtimes /\ shown' \subseteq 1..started'
        /\ presenters' \subseteq 1..runtime'
    BY <1>1, AlertBounds DEF AlertsTypeOK
  <2>2. calls' \in Seq(CallType)
    BY <1>1
  <2> QED BY <1>1, <1>5, <2>1, <2>2 DEF AlertsTypeOK, CallType
<1>7. CallsAreOwed'
  BY <1>1 DEF CallsAreOwed, Called
<1>8. ASSUME NEW m \in Requests PROVE Kept(m)'
  <2>1. /\ \A g \in 0..Runtimes : <<"presenter", g>> \in alert[m].knows => alert[m].mode = "custom"
        /\ alert[m].mode = "custom" => alert[m].tag # 0
    BY DEF Kept
  <2>2. CASE alert'[m] = Ended(alert[m], "nobody")
    BY <1>2, <2>1, <2>2, EndedIsKept
  <2>3. CASE /\ alert'[m] = alert[m] /\ alert[m].state # "posted"
             /\ alert[m].state = "open" => alert[m].tag \notin shown
    <3>1. alert[m].state = "open" => alert[m].tag = 0
      BY <2>3 DEF Kept
    <3>2. ASSUME alert[m].state = "open" PROVE HeldBySomeone(m)'
      <4>1. HeldBySomeone(m)
        BY <3>2 DEF Kept
      <4>2. alert[m].tag \notin shown
        BY <2>3, <3>2
      <4>3. <<"presenter", runtime>> \notin alert[m].knows
        <5>1. runtime \in 0..Runtimes
          BY AlertBounds DEF AlertsTypeOK
        <5> QED BY <2>1, <3>1, <3>2, <5>1
      <4> QED BY <1>1, <2>3, <4>1, <4>2, <4>3 DEF HeldBySomeone
    <3> QED BY <1>1, <2>3, <3>1, <3>2 DEF Kept
  <2> QED BY <1>3, <2>2, <2>3
<1>9. AnswerIsOwned
  BY <1>3, <1>4 DEF AnswerIsOwned, Kept
<1> QED BY <1>6, <1>7, <1>8, <1>9

\* At first every request is blank and no runtime, presenter or call knows of one.
LEMMA InitAlerts == AlertsInit => AlertInv
<1> SUFFICES ASSUME AlertsInit PROVE AlertInv
  OBVIOUS
<1>1. /\ alert = [r \in Requests |-> Blank] /\ started = 0 /\ shown = {} /\ handlers = {}
      /\ runtime = 1 /\ presenters = {} /\ calls = <<>> /\ deferredCalls = {}
  BY DEF AlertsInit
<1>2. Blank \in Alert
  <2>1. 0 \in RequestTags /\ {} \in Known /\ "bubble" \in Modes
    BY AlertBounds DEF Known, RequestTags, Modes
  <2> QED BY <2>1, AlertRecord DEF Blank
<1>3. AlertsTypeOK
  <2>1. calls \in Seq(CallType) /\ alert \in [Requests -> Alert]
    BY <1>1, <1>2
  <2>2. started \in 0..Tags /\ shown \subseteq 1..started /\ runtime \in 1..Runtimes
        /\ presenters \subseteq 1..runtime
    BY <1>1, AlertBounds
  <2> QED BY <1>1, <2>1, <2>2 DEF AlertsTypeOK, CallType
<1>4. CallsAreOwed
  BY <1>1 DEF CallsAreOwed, Called
<1>5. ASSUME NEW r \in Requests PROVE Kept(r)
  <2>1. alert[r] = Blank
    BY <1>1
  <2> QED BY <1>1, <2>1 DEF Kept, Blank
<1> QED BY <1>3, <1>4, <1>5 DEF AlertInv

\* Each step of JavaScript, the engine and the player keeps the invariant, and answers for
\* the owner only.
LEMMA NextAlerts == AlertInv /\ [AlertsNext]_alertVars => AlertInv' /\ [AnswerIsOwned]_alertVars
<1> SUFFICES ASSUME AlertInv, [AlertsNext]_alertVars
             PROVE  AlertInv' /\ [AnswerIsOwned]_alertVars
  OBVIOUS
<1>1. CASE AlertsNext
  <2>1. AlertInv' /\ AnswerIsOwned
    BY <1>1, CallStep, RunCallStep, CallHandlerStep, AnswerStep, DismissStep, RestoreStep,
       RootStep, StopRootStep, RetireStep DEF AlertsNext
  <2> QED BY <2>1
<1>2. CASE UNCHANGED alertVars
  <2>1. /\ UNCHANGED <<alert, started, shown, handlers, runtime, presenters, calls, deferredCalls>>
    BY <1>2 DEF alertVars
  <2>2. AlertsTypeOK' /\ CallsAreOwed'
    BY <2>1, CallsStay DEF AlertInv, AlertsTypeOK
  <2>3. \A m \in Requests : Kept(m)'
    BY <2>1, OtherIsKept DEF AlertInv
  <2> QED BY <1>2, <2>2, <2>3 DEF AlertInv
<1> QED BY <1>1, <1>2

\* For any number of alerts, surfaces and runtimes: an alert that is pending is always held
\* by someone who can end it (GodotAlerts), whatever declines, stops or retires.
THEOREM AlertsAreAlwaysHeld == AlertsSpec => []EveryAlertIsHeld
<1>1. AlertInv => EveryAlertIsHeld
  BY DEF AlertInv, EveryAlertIsHeld, Kept, HeldBySomeone, Pending, Open
<1>2. AlertsSpec => []AlertInv
  BY InitAlerts, NextAlerts, PTL DEF AlertsSpec
<1> QED BY <1>1, <1>2, PTL

\* For any of them: what ends an alert is the answer of the party it was last passed to
\* (complete_for(), reply(), decline()), and nothing ends twice.
THEOREM OnlyOwnersAnswer == AlertsSpec => AnsweredByItsOwner
<1>1. AlertsSpec => []AlertInv
  BY InitAlerts, NextAlerts, PTL DEF AlertsSpec
<1>2. AlertsSpec => [][AnswerIsOwned]_alertVars
  BY <1>1, NextAlerts, PTL DEF AlertsSpec
<1> QED BY <1>2 DEF AnsweredByItsOwner, AnswerIsOwned

-----------------------------------------------------------------------------
(***************************************************************************)
(* Proofs about HostEvaluations, for any segments and any bounds.          *)
(***************************************************************************)

(* What is kept for its signal was asked for and has not ended, and what    *)
(* was not asked for yet has not ended either.                              *)
EvaluationsKept ==
  /\ asked \in Seq(Segments \cup {Code})
  /\ ended \in [Ids -> Outcomes]
  /\ evaluations \subseteq {id \in Ids : id <= Len(asked) /\ ended[id] = "none"}
  /\ \A id \in Ids : id > Len(asked) => ended[id] = "none"

\* No evaluation that has ended ends again in this step.
EndsNoneAgain == \A id \in Ids : ended[id] # "none" => ended'[id] = ended[id]

\* Most steps leave alone what is asked, kept and ended.
LEMMA QuietStep ==
  ASSUME EvaluationsKept, UNCHANGED <<asked, evaluations, ended>>
  PROVE  EvaluationsKept' /\ EndsNoneAgain
BY DEF EvaluationsKept, EndsNoneAgain

\* A new evaluation has not ended.
LEMMA AskStep ==
  ASSUME EvaluationsKept, NEW path \in Segments \cup {Code}, Ask(path)
  PROVE  EvaluationsKept' /\ EndsNoneAgain
<1> DEFINE id == Len(asked) + 1
<1>1. /\ asked' = Append(asked, path)
      /\ evaluations' = evaluations \cup {id}
      /\ ended' = ended
      /\ Len(asked) < MaxEvaluations
  BY DEF Ask
<1>2. Len(asked) \in Nat /\ MaxEvaluations \in Nat
  BY EvaluationBounds DEF EvaluationsKept
<1>3. id \in Ids /\ ended[id] = "none"
  BY <1>1, <1>2 DEF Ids, EvaluationsKept
<1>4. asked' \in Seq(Segments \cup {Code}) /\ Len(asked') = id
  BY <1>1 DEF EvaluationsKept
<1>5. evaluations' \subseteq {k \in Ids : k <= Len(asked') /\ ended'[k] = "none"}
  <2> SUFFICES ASSUME NEW k \in evaluations \cup {id}
               PROVE  k \in Ids /\ k <= id /\ ended[k] = "none"
    BY <1>1, <1>4
  <2>1. CASE k = id
    BY <2>1, <1>2, <1>3
  <2>2. CASE k \in evaluations
    <3>1. k \in Ids /\ k <= Len(asked) /\ ended[k] = "none"
      BY <2>2 DEF EvaluationsKept
    <3> QED BY <3>1, <1>2 DEF Ids
  <2> QED BY <2>1, <2>2
<1>6. \A k \in Ids : k > Len(asked') => ended'[k] = "none"
  BY <1>1, <1>2, <1>4 DEF EvaluationsKept, Ids
<1> QED BY <1>1, <1>4, <1>5, <1>6 DEF EvaluationsKept, EndsNoneAgain

\* _finish_evaluation() ends what is kept, and forgets it.
LEMMA FinishStep ==
  ASSUME EvaluationsKept, NEW id, NEW ok, Finish(id, ok), asked' = asked
  PROVE  EvaluationsKept' /\ EndsNoneAgain
<1>1. CASE id \notin evaluations
  BY <1>1, QuietStep DEF Finish
<1>2. CASE id \in evaluations
  <2> DEFINE how == IF ok THEN "done" ELSE "failed"
  <2>1. /\ evaluations' = evaluations \ {id}
        /\ ended' = [ended EXCEPT ![id] = how]
    BY <1>2 DEF Finish
  <2>2. id \in Ids /\ id <= Len(asked) /\ ended[id] = "none"
    BY <1>2 DEF EvaluationsKept
  <2>3. how \in Outcomes
    BY DEF Outcomes
  <2>4. ended' \in [Ids -> Outcomes]
    BY <2>1, <2>3 DEF EvaluationsKept
  <2>5. \A k \in Ids : k # id => ended'[k] = ended[k]
    BY <2>1 DEF EvaluationsKept
  <2>6. evaluations' \subseteq {k \in Ids : k <= Len(asked) /\ ended'[k] = "none"}
    BY <2>1, <2>5 DEF EvaluationsKept
  <2>7. \A k \in Ids : k > Len(asked) => ended'[k] = "none"
    BY <2>2, <2>5 DEF EvaluationsKept
  <2> HIDE DEF how
  <2> QED BY <2>2, <2>4, <2>5, <2>6, <2>7 DEF EvaluationsKept, EndsNoneAgain
<1> QED BY <1>1, <1>2

\* shutdown() drops exactly what is kept.
LEMMA ShutdownStep ==
  ASSUME EvaluationsKept, Shutdown
  PROVE  EvaluationsKept' /\ EndsNoneAgain
<1>1. /\ evaluations' = {} /\ asked' = asked
      /\ ended' = [id \in Ids |-> IF id \in evaluations THEN "dropped" ELSE ended[id]]
  BY DEF Shutdown
<1>2. ended' \in [Ids -> Outcomes]
  BY <1>1 DEF EvaluationsKept, Outcomes
<1>3. \A id \in Ids : id \notin evaluations => ended'[id] = ended[id]
  BY <1>1
<1>4. \A id \in evaluations : id <= Len(asked) /\ ended[id] = "none"
  BY DEF EvaluationsKept
<1>5. \A id \in Ids : id > Len(asked) => id \notin evaluations
  BY <1>4, EvaluationBounds DEF EvaluationsKept, Ids
<1> QED BY <1>1, <1>2, <1>3, <1>4, <1>5 DEF EvaluationsKept, EndsNoneAgain

\* Every step keeps what is held, and ends no evaluation a second time.
LEMMA NextStep ==
  ASSUME EvaluationsKept, [EvaluationsNext]_evaluationVars
  PROVE  EvaluationsKept' /\ EndsNoneAgain
<1>1. CASE Evaluate
  BY <1>1, AskStep DEF Evaluate
<1>2. ASSUME NEW path \in Segments, LoadSegment(path) PROVE EvaluationsKept' /\ EndsNoneAgain
  BY <1>2, AskStep DEF LoadSegment
<1>3. CASE Deliver
  <2>1. Finish(Head(host.results).id, Head(host.results).ok) /\ asked' = asked
    BY <1>3 DEF Deliver
  <2> QED BY <2>1, FinishStep
<1>4. CASE Flush
  <2>1. Finish(Head(messages), FALSE) /\ asked' = asked
    BY <1>4 DEF Flush
  <2> QED BY <2>1, FinishStep
<1>5. CASE Shutdown
  BY <1>5, ShutdownStep
<1>6. CASE Reload \/ BundleChanged \/ PackLoads
  BY <1>6, QuietStep DEF Reload, BundleChanged, PackLoads, game
<1>7. CASE BundleArrives \/ Frame
  BY <1>7, QuietStep DEF BundleArrives, Frame, FrameBegin, RunDeferred, FrameEnd, game
<1>8. ASSUME NEW g \in Generations, RunTask(g) PROVE EvaluationsKept' /\ EndsNoneAgain
  BY <1>8, QuietStep DEF RunTask, game
<1>9. CASE UNCHANGED evaluationVars
  BY <1>9, QuietStep DEF evaluationVars
<1> QED BY <1>1, <1>2, <1>3, <1>4, <1>5, <1>6, <1>7, <1>8, <1>9 DEF EvaluationsNext

\* Whatever reloads, failed starts and late results there are, each evaluation's
\* signal is emitted at most once, for any number of evaluations and runtimes.
THEOREM EvaluationsEndOnce == EvaluationsSafety => EndsOnce
<1>1. EvaluationsInit => EvaluationsKept
  <2> SUFFICES ASSUME EvaluationsInit PROVE EvaluationsKept
    OBVIOUS
  <2>1. asked = <<>> /\ evaluations = {} /\ ended = [id \in Ids |-> "none"]
    BY DEF EvaluationsInit
  <2> QED BY <2>1 DEF EvaluationsKept, Outcomes
<1>2. EvaluationsKept /\ [EvaluationsNext]_evaluationVars => EvaluationsKept'
  BY NextStep
<1>3. EvaluationsKept /\ [EvaluationsNext]_evaluationVars => [EndsNoneAgain]_evaluationVars
  BY NextStep
<1>4. [EndsNoneAgain]_evaluationVars
      <=> [\A id \in Ids : ended[id] # "none" => ended'[id] = ended[id]]_evaluationVars
  BY DEF EndsNoneAgain
<1> QED BY <1>1, <1>2, <1>3, <1>4, PTL DEF EvaluationsSafety, EndsOnce

-----------------------------------------------------------------------------
(***************************************************************************)
(* SegmentsRunInOrder, for any segments and any bounds.                    *)
(*                                                                         *)
(* A runtime's segments form one line: what its thread ran, what waits on  *)
(* the thread, and what waits for the bundle or is being handed out.  Each *)
(* has a place in the line; a fold hands them out one after the other, and *)
(* what is left over keeps its place.  Beside that, an evaluation is held  *)
(* once, as a task, as a segment that waits or as a result, so a result    *)
(* that is delivered is of an evaluation that has not ended.               *)
(***************************************************************************)

(* The segments of a runtime.  R has what it ran, T the tasks of its thread, W what waits  *)
(* for its bundle or is being handed out, and D its own segments, in order.  Each of R, T  *)
(* and W has a place: one of its own the place of its path in D, one that the game asked   *)
(* for the place behind D.  Places go up from one to the next, but for that last one.      *)

Place(x, path, own, D) == IF own THEN x \in 1..Len(D) /\ D[x] = path ELSE x = Len(D) + 1
Upward(x, y, D) == x < y \/ y = Len(D) + 1

Placed(R, T, W, D, a, b, c) ==
  /\ a \in [1..Len(R) -> Nat] /\ b \in [1..Len(T) -> Nat] /\ c \in [1..Len(W) -> Nat]
  /\ \A i \in 1..Len(R) : Place(a[i], R[i].path, R[i].own, D)
  /\ \A i \in 1..Len(T) : T[i].path # Code => Place(b[i], T[i].path, T[i].id = 0, D)
  /\ \A i \in 1..Len(W) : Place(c[i], W[i].path, W[i].id = 0, D)
  /\ \A i, j \in 1..Len(R) : i < j => Upward(a[i], a[j], D)
  /\ \A i, j \in 1..Len(T) : i < j /\ T[i].path # Code /\ T[j].path # Code => Upward(b[i], b[j], D)
  /\ \A i, j \in 1..Len(W) : i < j => Upward(c[i], c[j], D)
  /\ \A i \in 1..Len(R), j \in 1..Len(T) : T[j].path # Code => Upward(a[i], b[j], D)
  /\ \A i \in 1..Len(R), j \in 1..Len(W) : Upward(a[i], c[j], D)
  /\ \A i \in 1..Len(T), j \in 1..Len(W) : T[i].path # Code => Upward(b[i], c[j], D)
InLine(R, T, W, D) == \E a, b, c : Placed(R, T, W, D, a, b, c)

Runs == [path : Segments, own : BOOLEAN]
Tasked == [path : Segments \cup {Code}, id : {0} \cup Ids]
Loads == [path : Segments, id : {0} \cup Ids]
Results == [id : Ids, ok : BOOLEAN]

\* A task removed.
LEMMA RemovedAt ==
  ASSUME NEW S, NEW q \in Seq(S), NEW k \in 1..Len(q)
  PROVE  /\ RemoveAt(q, k) \in Seq(S) /\ Len(RemoveAt(q, k)) = Len(q) - 1 /\ Len(q) \in Nat \ {0}
         /\ \A i \in 1..(Len(q) - 1) : RemoveAt(q, k)[i] = q[IF i < k THEN i ELSE i + 1]
<1> DEFINE s == SubSeq(q, 1, k - 1)
           t == SubSeq(q, k + 1, Len(q))
<1>1. Len(q) \in Nat \ {0} /\ k \in Nat /\ k - 1 \in Nat /\ 1 <= k /\ k <= Len(q)
  OBVIOUS
<1>2. s \in Seq(S) /\ Len(s) = k - 1 /\ \A i \in 1..(k - 1) : s[i] = q[i]
  BY <1>1
<1>3. t \in Seq(S) /\ Len(t) = Len(q) - k /\ \A i \in 1..(Len(q) - k) : t[i] = q[k + i]
  BY <1>1
<1> HIDE DEF s, t
<1>4. /\ s \o t \in Seq(S) /\ Len(s \o t) = Len(q) - 1
      /\ \A i \in 1..(Len(q) - 1) : (s \o t)[i] = IF i <= k - 1 THEN s[i] ELSE t[i - (k - 1)]
  <2>1. PICK u : u = s \o t
    OBVIOUS
  <2>2. /\ u \in Seq(S) /\ Len(u) = Len(s) + Len(t)
        /\ \A i \in 1..(Len(s) + Len(t)) : u[i] = IF i <= Len(s) THEN s[i] ELSE t[i - Len(s)]
    BY <1>2, <1>3, <2>1, ConcatProperties
  <2>3. Len(s) = k - 1 /\ Len(s) + Len(t) = Len(q) - 1
    BY <1>1, <1>2, <1>3
  <2>4. \A i \in 1..(Len(q) - 1) : u[i] = IF i <= k - 1 THEN s[i] ELSE t[i - (k - 1)]
    BY <2>2, <2>3
  <2> QED BY <2>1, <2>2, <2>3, <2>4
<1>5. ASSUME NEW i \in 1..(Len(q) - 1) PROVE (s \o t)[i] = q[IF i < k THEN i ELSE i + 1]
  <2>1. CASE i < k
    BY <1>1, <1>2, <1>4, <2>1
  <2>2. CASE ~(i < k)
    <3>1. i - (k - 1) \in 1..(Len(q) - k) /\ k + (i - (k - 1)) = i + 1 /\ ~(i <= k - 1)
      BY <1>1, <2>2
    <3> QED BY <1>3, <1>4, <2>2, <3>1
  <2> QED BY <2>1, <2>2
<1>6. RemoveAt(q, k) = s \o t
  BY DEF RemoveAt, s, t
<1> QED BY <1>1, <1>4, <1>5, <1>6

\* The thread runs its first segment.
LEMMA LineRuns ==
  ASSUME NEW R \in Seq(Runs), NEW T \in Seq(Tasked), NEW W \in Seq(Loads), NEW D \in Seq(Segments),
         InLine(R, T, W, D), NEW k \in 1..Len(T), T[k].path # Code,
         \A j \in 1..(k - 1) : T[j].path = Code, NEW x, x.path = T[k].path, x.own = (T[k].id = 0)
  PROVE  InLine(Append(R, x), RemoveAt(T, k), W, D)
<1>1. PICK a, b, c : Placed(R, T, W, D, a, b, c)
  BY DEF InLine
<1>2. PICK m, n, l : m = Len(R) /\ n = Len(T) /\ l = Len(W)
  OBVIOUS
<1>3. m \in Nat /\ n \in Nat \ {0} /\ l \in Nat /\ k \in 1..n
  BY <1>2
<1> DEFINE P == Append(R, x)
           Q == RemoveAt(T, k)
           at(i) == IF i < k THEN i ELSE i + 1
           e == [i \in 1..(m + 1) |-> IF i = m + 1 THEN b[k] ELSE a[i]]
           f == [i \in 1..(n - 1) |-> b[at(i)]]
<1>4. Len(P) = m + 1 /\ P[m + 1] = x /\ \A i \in 1..m : P[i] = R[i]
  BY <1>2
<1>5. Len(Q) = n - 1 /\ \A i \in 1..(n - 1) : Q[i] = T[at(i)]
  BY <1>2, RemovedAt
<1>6. \A i \in 1..(n - 1) : at(i) \in 1..n /\ at(i) # k
  BY <1>3
<1>7. \A i, j \in 1..(n - 1) : i < j => at(i) < at(j)
  BY <1>3
<1>8. \A i \in 1..(n - 1) : T[at(i)].path # Code => k < at(i)
  <2> SUFFICES ASSUME NEW i \in 1..(n - 1), T[at(i)].path # Code PROVE k < at(i)
    OBVIOUS
  <2>1. at(i) \in 1..n /\ at(i) # k
    BY <1>6
  <2>2. at(i) \notin 1..(k - 1)
    OBVIOUS
  <2> QED BY <1>3, <2>1, <2>2
<1> HIDE DEF at, P, Q
<1>9. e \in [1..(m + 1) -> Nat] /\ e[m + 1] = b[k] /\ \A i \in 1..m : e[i] = a[i]
  <2>1. a \in [1..m -> Nat] /\ b \in [1..n -> Nat]
    BY <1>1, <1>2 DEF Placed
  <2>2. b[k] \in Nat /\ m + 1 \in 1..(m + 1)
    BY <1>3, <2>1
  <2>3. \A i \in 1..(m + 1) : i # m + 1 => i \in 1..m
    BY <1>3
  <2> QED BY <1>3, <2>1, <2>2, <2>3
<1>10. f \in [1..(n - 1) -> Nat] /\ \A i \in 1..(n - 1) : f[i] = b[at(i)]
  BY <1>1, <1>2, <1>6 DEF Placed
<1> HIDE DEF e, f
<1>11. \A i \in 1..(m + 1) : i \in 1..m \/ i = m + 1
  BY <1>3
<1>12. \A i \in 1..(m + 1) : Place(e[i], P[i].path, P[i].own, D)
  <2>1. \A i \in 1..m : Place(a[i], R[i].path, R[i].own, D)
    BY <1>1, <1>2 DEF Placed
  <2>2. Place(b[k], T[k].path, T[k].id = 0, D)
    BY <1>1 DEF Placed
  <2>3. Place(e[m + 1], P[m + 1].path, P[m + 1].own, D)
    BY <1>4, <1>9, <2>2
  <2>4. \A i \in 1..m : Place(e[i], P[i].path, P[i].own, D)
    BY <1>4, <1>9, <2>1
  <2> QED BY <1>11, <2>3, <2>4
<1>13. \A i \in 1..(n - 1) : Q[i].path # Code => Place(f[i], Q[i].path, Q[i].id = 0, D)
  BY <1>1, <1>2, <1>5, <1>6, <1>10 DEF Placed
<1>14. \A i, j \in 1..(m + 1) : i < j => Upward(e[i], e[j], D)
  <2> SUFFICES ASSUME NEW i \in 1..(m + 1), NEW j \in 1..(m + 1), i < j PROVE Upward(e[i], e[j], D)
    OBVIOUS
  <2>1. i \in 1..m /\ e[i] = a[i]
    BY <1>3, <1>9
  <2>2. CASE j = m + 1
    <3>1. Upward(a[i], b[k], D)
      BY <1>1, <1>2, <2>1 DEF Placed
    <3> QED BY <1>9, <2>1, <2>2, <3>1
  <2>3. CASE j \in 1..m
    <3>1. Upward(a[i], a[j], D)
      BY <1>1, <1>2, <2>1, <2>3 DEF Placed
    <3> QED BY <1>9, <2>1, <2>3, <3>1
  <2> QED BY <1>11, <2>2, <2>3
<1>15. \A i, j \in 1..(n - 1) : i < j /\ Q[i].path # Code /\ Q[j].path # Code => Upward(f[i], f[j], D)
  <2> SUFFICES ASSUME NEW i \in 1..(n - 1), NEW j \in 1..(n - 1), i < j, Q[i].path # Code, Q[j].path # Code
               PROVE  Upward(f[i], f[j], D)
    OBVIOUS
  <2>1. at(i) \in 1..n /\ at(j) \in 1..n /\ at(i) < at(j)
    BY <1>6, <1>7
  <2>2. T[at(i)].path # Code /\ T[at(j)].path # Code /\ f[i] = b[at(i)] /\ f[j] = b[at(j)]
    BY <1>5, <1>10
  <2>3. Upward(b[at(i)], b[at(j)], D)
    BY <1>1, <1>2, <2>1, <2>2 DEF Placed
  <2> QED BY <2>2, <2>3
<1>16. \A i \in 1..(m + 1), j \in 1..(n - 1) : Q[j].path # Code => Upward(e[i], f[j], D)
  <2> SUFFICES ASSUME NEW i \in 1..(m + 1), NEW j \in 1..(n - 1), Q[j].path # Code PROVE Upward(e[i], f[j], D)
    OBVIOUS
  <2>1. at(j) \in 1..n /\ k < at(j) /\ T[at(j)].path # Code /\ f[j] = b[at(j)]
    BY <1>5, <1>6, <1>8, <1>10
  <2>2. CASE i = m + 1
    BY <1>1, <1>2, <1>3, <1>9, <2>1, <2>2 DEF Placed
  <2>3. CASE i \in 1..m
    BY <1>1, <1>2, <1>9, <2>1, <2>3 DEF Placed
  <2> QED BY <1>11, <2>2, <2>3
<1>17. \A i \in 1..(m + 1), j \in 1..l : Upward(e[i], c[j], D)
  BY <1>1, <1>2, <1>3, <1>9, <1>11 DEF Placed
<1>18. \A i \in 1..(n - 1), j \in 1..l : Q[i].path # Code => Upward(f[i], c[j], D)
  BY <1>1, <1>2, <1>5, <1>6, <1>10 DEF Placed
<1>19. Placed(P, Q, W, D, e, f, c)
  BY <1>1, <1>2, <1>4, <1>5, <1>9, <1>10, <1>12, <1>13, <1>14, <1>15, <1>16, <1>17, <1>18 DEF Placed
<1> QED BY <1>19 DEF InLine, P, Q

\* The thread runs code.
LEMMA LineEvaluates ==
  ASSUME NEW R \in Seq(Runs), NEW T \in Seq(Tasked), NEW W \in Seq(Loads), NEW D \in Seq(Segments),
         InLine(R, T, W, D), NEW k \in 1..Len(T)
  PROVE  InLine(R, RemoveAt(T, k), W, D)
<1>1. PICK a, b, c : Placed(R, T, W, D, a, b, c)
  BY DEF InLine
<1>2. PICK n : n = Len(T)
  OBVIOUS
<1>3. n \in Nat \ {0} /\ k \in 1..n
  BY <1>2
<1> DEFINE Q == RemoveAt(T, k)
           at(i) == IF i < k THEN i ELSE i + 1
           f == [i \in 1..(n - 1) |-> b[at(i)]]
<1>4. Len(Q) = n - 1 /\ \A i \in 1..(n - 1) : Q[i] = T[at(i)]
  BY <1>2, RemovedAt
<1>5. /\ \A i \in 1..(n - 1) : at(i) \in 1..n
      /\ \A i, j \in 1..(n - 1) : i < j => at(i) < at(j)
  BY <1>3
<1> HIDE DEF at, Q
<1>6. f \in [1..(n - 1) -> Nat] /\ \A i \in 1..(n - 1) : f[i] = b[at(i)]
  BY <1>1, <1>2, <1>5 DEF Placed
<1> HIDE DEF f
<1>7. \A i \in 1..(n - 1) : Q[i].path # Code =>
        /\ Place(f[i], Q[i].path, Q[i].id = 0, D)
        /\ (\A j \in 1..Len(R) : Upward(a[j], f[i], D)) /\ (\A j \in 1..Len(W) : Upward(f[i], c[j], D))
  <2> SUFFICES ASSUME NEW i \in 1..(n - 1), Q[i].path # Code
               PROVE  /\ Place(f[i], Q[i].path, Q[i].id = 0, D)
                      /\ (\A j \in 1..Len(R) : Upward(a[j], f[i], D))
                      /\ (\A j \in 1..Len(W) : Upward(f[i], c[j], D))
    OBVIOUS
  <2>1. PICK h : h = at(i)
    OBVIOUS
  <2>2. h \in 1..Len(T) /\ Q[i] = T[h] /\ f[i] = b[h] /\ T[h].path # Code
    BY <1>2, <1>4, <1>5, <1>6, <2>1
  <2>3. Place(b[h], T[h].path, T[h].id = 0, D)
    BY <1>1, <2>2 DEF Placed
  <2>4. \A j \in 1..Len(R) : Upward(a[j], b[h], D)
    BY <1>1, <2>2 DEF Placed
  <2>5. \A j \in 1..Len(W) : Upward(b[h], c[j], D)
    BY <1>1, <2>2 DEF Placed
  <2> QED BY <2>2, <2>3, <2>4, <2>5
<1>8. ASSUME NEW i \in 1..(n - 1), NEW j \in 1..(n - 1), i < j, Q[i].path # Code, Q[j].path # Code
      PROVE  Upward(f[i], f[j], D)
  <2>1. at(i) \in 1..n /\ at(j) \in 1..n /\ at(i) < at(j)
    BY <1>5, <1>8
  <2>2. T[at(i)].path # Code /\ T[at(j)].path # Code /\ f[i] = b[at(i)] /\ f[j] = b[at(j)]
    BY <1>4, <1>6, <1>8
  <2> QED BY <1>1, <1>2, <2>1, <2>2 DEF Placed
<1>9. Placed(R, Q, W, D, a, f, c)
  BY <1>1, <1>4, <1>6, <1>7, <1>8 DEF Placed
<1> QED BY <1>9 DEF InLine, Q

\* Code waits behind the other tasks.
LEMMA LineTakesCode ==
  ASSUME NEW R \in Seq(Runs), NEW T \in Seq(Tasked), NEW W \in Seq(Loads), NEW D \in Seq(Segments),
         InLine(R, T, W, D), NEW x, x.path = Code
  PROVE  InLine(R, Append(T, x), W, D)
<1>1. PICK a, b, c : Placed(R, T, W, D, a, b, c)
  BY DEF InLine
<1>2. PICK n : n = Len(T)
  OBVIOUS
<1> DEFINE Q == Append(T, x)
           f == [i \in 1..(n + 1) |-> IF i = n + 1 THEN 0 ELSE b[i]]
<1>3. n \in Nat /\ Len(Q) = n + 1 /\ Q[n + 1].path = Code /\ \A i \in 1..n : Q[i] = T[i]
  BY <1>2
<1> HIDE DEF Q
<1>4. \A i \in 1..(n + 1) : i \in 1..n \/ i = n + 1
  BY <1>3
<1>5. f \in [1..(n + 1) -> Nat] /\ \A i \in 1..n : f[i] = b[i]
  BY <1>1, <1>2, <1>3, <1>4 DEF Placed
<1> HIDE DEF f
<1>6. \A i \in 1..(n + 1) : Q[i].path # Code => i \in 1..n
  BY <1>3, <1>4
<1>7. Placed(R, Q, W, D, a, f, c)
  BY <1>1, <1>2, <1>3, <1>5, <1>6 DEF Placed
<1> QED BY <1>7 DEF InLine, Q

\* The first that waits is handed to the thread,
LEMMA LineHandsOut ==
  ASSUME NEW R \in Seq(Runs), NEW T \in Seq(Tasked), NEW W \in Seq(Loads), NEW D \in Seq(Segments),
         InLine(R, T, W, D), W # <<>>
  PROVE  InLine(R, Append(T, W[1]), Tail(W), D)
<1>1. PICK a, b, c : Placed(R, T, W, D, a, b, c)
  BY DEF InLine
<1>2. PICK m, n, l : m = Len(R) /\ n = Len(T) /\ l = Len(W) - 1
  OBVIOUS
<1>3. m \in Nat /\ n \in Nat /\ l \in Nat /\ Len(W) = l + 1 /\ W[1] \in Loads
  BY <1>2
<1> DEFINE P == Append(T, W[1])
           Q == Tail(W)
           e == [i \in 1..(n + 1) |-> IF i = n + 1 THEN c[1] ELSE b[i]]
           f == [i \in 1..l |-> c[i + 1]]
<1>4. Len(P) = n + 1 /\ P[n + 1] = W[1] /\ \A i \in 1..n : P[i] = T[i]
  BY <1>2, <1>3
<1>5. Len(Q) = l /\ \A i \in 1..l : Q[i] = W[i + 1]
  BY <1>2, <1>3
<1> HIDE DEF P, Q
<1>6. \A i \in 1..(n + 1) : i \in 1..n \/ i = n + 1
  BY <1>3
<1>7. /\ \A i \in 1..l : i + 1 \in 1..(l + 1) /\ 1 < i + 1
      /\ \A i, j \in 1..l : i < j => i + 1 < j + 1
      /\ 1 \in 1..(l + 1)
  BY <1>3
<1>8. e \in [1..(n + 1) -> Nat] /\ e[n + 1] = c[1] /\ \A i \in 1..n : e[i] = b[i]
  BY <1>1, <1>2, <1>3, <1>6, <1>7 DEF Placed
<1>9. f \in [1..l -> Nat] /\ \A i \in 1..l : f[i] = c[i + 1]
  BY <1>1, <1>3, <1>7 DEF Placed
<1> HIDE DEF e, f
<1>10. /\ \A i \in 1..m : Upward(a[i], c[1], D)
       /\ \A i \in 1..n : T[i].path # Code => Upward(b[i], c[1], D)
       /\ \A i \in 1..l : Upward(c[1], c[i + 1], D)
       /\ Place(c[1], W[1].path, W[1].id = 0, D)
  BY <1>1, <1>2, <1>3, <1>7 DEF Placed
<1>11. \A i \in 1..(n + 1) : P[i].path # Code => Place(e[i], P[i].path, P[i].id = 0, D)
  BY <1>1, <1>2, <1>4, <1>6, <1>8, <1>10 DEF Placed
<1>12. \A i \in 1..l : Place(f[i], Q[i].path, Q[i].id = 0, D)
  BY <1>1, <1>3, <1>5, <1>7, <1>9 DEF Placed
<1>13. \A i, j \in 1..(n + 1) : i < j /\ P[i].path # Code /\ P[j].path # Code => Upward(e[i], e[j], D)
  <2> SUFFICES ASSUME NEW i \in 1..(n + 1), NEW j \in 1..(n + 1), i < j, P[i].path # Code, P[j].path # Code
               PROVE  Upward(e[i], e[j], D)
    OBVIOUS
  <2>1. i \in 1..n
    BY <1>3
  <2>2. CASE j \in 1..n
    BY <1>1, <1>2, <1>4, <1>8, <2>1, <2>2 DEF Placed
  <2>3. CASE j = n + 1
    BY <1>4, <1>8, <1>10, <2>1, <2>3
  <2> QED BY <1>6, <2>2, <2>3
<1>14. \A i, j \in 1..l : i < j => Upward(f[i], f[j], D)
  BY <1>1, <1>3, <1>7, <1>9 DEF Placed
<1>15. \A i \in 1..m, j \in 1..(n + 1) : P[j].path # Code => Upward(a[i], e[j], D)
  <2> SUFFICES ASSUME NEW i \in 1..m, NEW j \in 1..(n + 1), P[j].path # Code PROVE Upward(a[i], e[j], D)
    OBVIOUS
  <2>1. CASE j \in 1..n
    BY <1>1, <1>2, <1>4, <1>8, <2>1 DEF Placed
  <2>2. CASE j = n + 1
    BY <1>8, <1>10, <2>2
  <2> QED BY <1>6, <2>1, <2>2
<1>16. \A i \in 1..m, j \in 1..l : Upward(a[i], f[j], D)
  BY <1>1, <1>2, <1>3, <1>7, <1>9 DEF Placed
<1>17. \A i \in 1..(n + 1), j \in 1..l : P[i].path # Code => Upward(e[i], f[j], D)
  <2> SUFFICES ASSUME NEW i \in 1..(n + 1), NEW j \in 1..l, P[i].path # Code PROVE Upward(e[i], f[j], D)
    OBVIOUS
  <2>1. j + 1 \in 1..(l + 1) /\ f[j] = c[j + 1]
    BY <1>7, <1>9
  <2>2. CASE i \in 1..n
    BY <1>1, <1>2, <1>3, <1>4, <1>8, <2>1, <2>2 DEF Placed
  <2>3. CASE i = n + 1
    BY <1>8, <1>10, <2>1, <2>3
  <2> QED BY <1>6, <2>2, <2>3
<1>18. Placed(R, P, Q, D, a, e, f)
  BY <1>1, <1>2, <1>4, <1>5, <1>8, <1>9, <1>11, <1>12, <1>13, <1>14, <1>15, <1>16, <1>17 DEF Placed
<1> QED BY <1>18 DEF InLine, P, Q

\* or left out.
LEMMA LineLeavesOut ==
  ASSUME NEW R \in Seq(Runs), NEW T \in Seq(Tasked), NEW W \in Seq(Loads), NEW D \in Seq(Segments),
         InLine(R, T, W, D), W # <<>>
  PROVE  InLine(R, T, Tail(W), D)
<1>1. PICK a, b, c : Placed(R, T, W, D, a, b, c)
  BY DEF InLine
<1>2. PICK l : l = Len(W) - 1
  OBVIOUS
<1>3. l \in Nat /\ Len(W) = l + 1
  BY <1>2
<1> DEFINE Q == Tail(W)
           f == [i \in 1..l |-> c[i + 1]]
<1>4. Len(Q) = l /\ \A i \in 1..l : Q[i] = W[i + 1]
  BY <1>2, <1>3
<1> HIDE DEF Q
<1>5. /\ \A i \in 1..l : i + 1 \in 1..(l + 1)
      /\ \A i, j \in 1..l : i < j => i + 1 < j + 1
  BY <1>3
<1>6. f \in [1..l -> Nat] /\ \A i \in 1..l : f[i] = c[i + 1]
  BY <1>1, <1>3, <1>5 DEF Placed
<1> HIDE DEF f
<1>7. \A i \in 1..l :
        /\ Place(f[i], Q[i].path, Q[i].id = 0, D)
        /\ (\A j \in 1..Len(R) : Upward(a[j], f[i], D))
        /\ (\A j \in 1..Len(T) : T[j].path # Code => Upward(b[j], f[i], D))
  <2> SUFFICES ASSUME NEW i \in 1..l
               PROVE  /\ Place(f[i], Q[i].path, Q[i].id = 0, D)
                      /\ (\A j \in 1..Len(R) : Upward(a[j], f[i], D))
                      /\ (\A j \in 1..Len(T) : T[j].path # Code => Upward(b[j], f[i], D))
    OBVIOUS
  <2>1. PICK h : h = i + 1
    OBVIOUS
  <2>2. h \in 1..Len(W) /\ Q[i] = W[h] /\ f[i] = c[h]
    BY <1>3, <1>4, <1>5, <1>6, <2>1
  <2>3. Place(c[h], W[h].path, W[h].id = 0, D)
    BY <1>1, <2>2 DEF Placed
  <2>4. \A j \in 1..Len(R) : Upward(a[j], c[h], D)
    BY <1>1, <2>2 DEF Placed
  <2>5. \A j \in 1..Len(T) : T[j].path # Code => Upward(b[j], c[h], D)
    BY <1>1, <2>2 DEF Placed
  <2> QED BY <2>2, <2>3, <2>4, <2>5
<1>8. \A i, j \in 1..l : i < j => Upward(f[i], f[j], D)
  BY <1>1, <1>3, <1>5, <1>6 DEF Placed
<1>9. Placed(R, T, Q, D, a, b, f)
  BY <1>1, <1>4, <1>6, <1>7, <1>8 DEF Placed
<1> QED BY <1>9 DEF InLine, Q

\* The game asks for a segment, which waits behind all others.
LEMMA LineWaits ==
  ASSUME NEW R \in Seq(Runs), NEW T \in Seq(Tasked), NEW W \in Seq(Loads), NEW D \in Seq(Segments),
         InLine(R, T, W, D), NEW x, x.id # 0
  PROVE  InLine(R, T, Append(W, x), D)
<1>1. PICK a, b, c : Placed(R, T, W, D, a, b, c)
  BY DEF InLine
<1>2. PICK l, z : l = Len(W) /\ z = Len(D) + 1
  OBVIOUS
<1>3. l \in Nat /\ z \in Nat
  BY <1>2
<1> DEFINE Q == Append(W, x)
           f == [i \in 1..(l + 1) |-> IF i = l + 1 THEN z ELSE c[i]]
<1>4. Len(Q) = l + 1 /\ Q[l + 1] = x /\ \A i \in 1..l : Q[i] = W[i]
  BY <1>2, <1>3
<1> HIDE DEF Q
<1>5. \A i \in 1..(l + 1) : i \in 1..l \/ i = l + 1
  BY <1>3
<1>6. f \in [1..(l + 1) -> Nat] /\ f[l + 1] = z /\ \A i \in 1..l : f[i] = c[i]
  BY <1>1, <1>2, <1>3, <1>5 DEF Placed
<1> HIDE DEF f
<1>7. \A y : Upward(y, z, D)
  BY <1>2 DEF Upward
<1>8. Place(z, x.path, x.id = 0, D)
  BY <1>2 DEF Place
<1>9. ASSUME NEW i \in 1..(l + 1)
      PROVE  /\ Place(f[i], Q[i].path, Q[i].id = 0, D)
             /\ (\A j \in 1..Len(R) : Upward(a[j], f[i], D))
             /\ (\A j \in 1..Len(T) : T[j].path # Code => Upward(b[j], f[i], D))
  <2>1. CASE i \in 1..l
    BY <1>1, <1>2, <1>4, <1>6, <2>1 DEF Placed
  <2>2. CASE i = l + 1
    BY <1>4, <1>6, <1>7, <1>8, <2>2
  <2> QED BY <1>5, <2>1, <2>2
<1>10. ASSUME NEW i \in 1..(l + 1), NEW j \in 1..(l + 1), i < j PROVE Upward(f[i], f[j], D)
  <2>1. i \in 1..l
    BY <1>3, <1>10
  <2>2. CASE j \in 1..l
    BY <1>1, <1>2, <1>6, <1>10, <2>1, <2>2 DEF Placed
  <2>3. CASE j = l + 1
    BY <1>6, <1>7, <2>3
  <2> QED BY <1>5, <2>2, <2>3
<1>11. Placed(R, T, Q, D, a, b, f)
  BY <1>1, <1>4, <1>6, <1>9, <1>10 DEF Placed
<1> QED BY <1>11 DEF InLine, Q

\* What waits is forgotten with its runtime.
LEMMA LineForgets ==
  ASSUME NEW R, NEW T, NEW W, NEW D, InLine(R, T, W, D)
  PROVE  InLine(R, T, <<>>, D)
<1>1. PICK a, b, c : Placed(R, T, W, D, a, b, c)
  BY DEF InLine
<1>2. Len(<<>>) = 0 /\ <<>> \in [1..0 -> Nat] /\ 1..0 = {}
  OBVIOUS
<1>3. Placed(R, T, <<>>, D, a, b, <<>>)
  BY <1>1, <1>2 DEF Placed
<1> QED BY <1>3 DEF InLine

\* A runtime starts with its own segments.
LEMMA LineStarts ==
  ASSUME NEW D \in Seq(Segments)
  PROVE  InLine(<<>>, <<>>, Again(D), D)
<1> DEFINE c == [i \in 1..Len(D) |-> i]
<1>1. Len(D) \in Nat
  OBVIOUS
<1>2. Again(D) = [k \in 1..Len(D) |-> [path |-> D[k], id |-> 0]]
  BY DEF Again
<1>3. Len(Again(D)) = Len(D) /\ \A i \in 1..Len(D) : Again(D)[i].path = D[i] /\ Again(D)[i].id = 0
  BY <1>1, <1>2
<1>4. c \in [1..Len(D) -> Nat] /\ \A i \in 1..Len(D) : c[i] = i
  BY <1>1
<1> HIDE DEF c
<1>5. Len(<<>>) = 0 /\ <<>> \in [1..0 -> Nat] /\ 1..0 = {}
  OBVIOUS
<1>6. \A i \in 1..Len(D) : Place(c[i], Again(D)[i].path, Again(D)[i].id = 0, D)
  BY <1>1, <1>3, <1>4 DEF Place
<1>7. \A i, j \in 1..Len(D) : i < j => Upward(c[i], c[j], D)
  BY <1>1, <1>4 DEF Upward
<1>8. Placed(<<>>, <<>>, Again(D), D, <<>>, <<>>, c)
  BY <1>3, <1>4, <1>5, <1>6, <1>7 DEF Placed
<1> QED BY <1>8 DEF InLine

(* A runtime's own segments come first, in their order. *)
InOrder(R, D, own) ==
  /\ \A k \in own : 1..k \subseteq own
  /\ \E at \in [own -> 1..Len(D)] :
       \A k \in own : R[k].path = D[at[k]] /\ \A j \in 1..(k - 1) : at[j] < at[k]

\* Of such a line the own segments ran first, in their order.
LEMMA LineIsInOrder ==
  ASSUME NEW R \in Seq(Runs), NEW T, NEW W, NEW D \in Seq(Segments), InLine(R, T, W, D),
         NEW own, own = {k \in 1..Len(R) : R[k].own}
  PROVE  InOrder(R, D, own)
<1>1. PICK a, b, c : Placed(R, T, W, D, a, b, c)
  BY DEF InLine
<1>2. Len(R) \in Nat /\ Len(D) \in Nat
  OBVIOUS
<1>3. \A k \in own : k \in 1..Len(R) /\ a[k] \in 1..Len(D) /\ D[a[k]] = R[k].path
  BY <1>1 DEF Placed, Place
<1>4. ASSUME NEW k \in own, NEW j \in 1..(k - 1) PROVE j \in own /\ a[j] < a[k]
  <2>1. j \in 1..Len(R) /\ k \in 1..Len(R) /\ j < k
    BY <1>2
  <2>2. Upward(a[j], a[k], D) /\ Place(a[j], R[j].path, R[j].own, D) /\ a[j] \in Nat
    BY <1>1, <2>1 DEF Placed
  <2>3. a[k] # Len(D) + 1
    BY <1>2, <1>3
  <2>4. a[j] < a[k]
    BY <2>2, <2>3 DEF Upward
  <2>5. a[j] # Len(D) + 1
    BY <1>2, <1>3, <2>2, <2>4
  <2>6. R[j].own
    BY <2>2, <2>5 DEF Place
  <2> QED BY <2>1, <2>4, <2>6
<1>5. ASSUME NEW k \in own PROVE 1..k \subseteq own
  <2> SUFFICES ASSUME NEW j \in 1..k PROVE j \in own
    OBVIOUS
  <2>1. k \in Nat /\ (j = k \/ j \in 1..(k - 1))
    BY <1>2, <1>3
  <2> QED BY <1>4, <2>1
<1> DEFINE at == [k \in own |-> a[k]]
<1>6. at \in [own -> 1..Len(D)] /\ \A k \in own : at[k] = a[k]
  BY <1>3
<1> HIDE DEF at
<1>7. \A k \in own : R[k].path = D[at[k]] /\ \A j \in 1..(k - 1) : at[j] < at[k]
  BY <1>3, <1>4, <1>6
<1>8. \E h \in [own -> 1..Len(D)] :
        \A k \in own : R[k].path = D[h[k]] /\ \A j \in 1..(k - 1) : h[j] < h[k]
  BY <1>6, <1>7
<1> QED BY <1>5, <1>8 DEF InOrder

-----------------------------------------------------------------------------
(* An evaluation that the runtime has is a result, a task or a segment that waits, once,   *)
(* has not ended, and nobody else is about to end it: E are the evaluations that have not, *)
(* and M those for which a message waits.                                                  *)

Held(q, id) == \E i \in 1..Len(q) : q[i].id = id
Single(q, id) == \A i, j \in 1..Len(q) : q[i].id = id /\ q[j].id = id => i = j
HeldOnce(res, T, W, E, M) ==
  \A id \in Ids :
    /\ Single(res, id) /\ Single(T, id) /\ Single(W, id)
    /\ ~(Held(res, id) /\ Held(T, id)) /\ ~(Held(res, id) /\ Held(W, id)) /\ ~(Held(T, id) /\ Held(W, id))
    /\ Held(res, id) \/ Held(T, id) \/ Held(W, id) => id \in E /\ id \notin M

\* One more in a sequence.
LEMMA HeldByMore ==
  ASSUME NEW S, NEW q \in Seq(S), NEW x \in S, NEW id
  PROVE  /\ Held(Append(q, x), id) <=> Held(q, id) \/ x.id = id
         /\ Single(q, id) /\ (x.id = id => ~Held(q, id)) => Single(Append(q, x), id)
<1>1. /\ Len(Append(q, x)) = Len(q) + 1 /\ Append(q, x)[Len(q) + 1] = x /\ Len(q) \in Nat
      /\ \A i \in 1..Len(q) : Append(q, x)[i] = q[i]
  OBVIOUS
<1>2. PICK n, s : n = Len(q) /\ s = Append(q, x)
  OBVIOUS
<1>3. \A i \in 1..(n + 1) : i \in 1..n \/ i = n + 1
  BY <1>1, <1>2
<1>4. 1..n \subseteq 1..(n + 1) /\ n + 1 \in 1..(n + 1)
  BY <1>1, <1>2
<1>5. Held(s, id) <=> Held(q, id) \/ x.id = id
  BY <1>1, <1>2, <1>3, <1>4 DEF Held
<1>6. ASSUME Single(q, id), x.id = id => ~Held(q, id) PROVE Single(s, id)
  <2> SUFFICES ASSUME NEW i \in 1..(n + 1), NEW j \in 1..(n + 1), s[i].id = id, s[j].id = id
               PROVE  i = j
    BY <1>1, <1>2 DEF Single
  <2>1. CASE i \in 1..n /\ j \in 1..n
    BY <1>1, <1>2, <1>6, <2>1 DEF Single
  <2>2. CASE i = n + 1 \/ j = n + 1
    BY <1>1, <1>2, <1>3, <1>6, <2>2 DEF Held
  <2> QED BY <1>3, <2>1, <2>2
<1> QED BY <1>2, <1>5, <1>6

\* One less.
LEMMA HeldByLess ==
  ASSUME NEW S, NEW q \in Seq(S), NEW k \in 1..Len(q), NEW s, NEW id,
         Len(s) = Len(q) - 1, \A i \in 1..(Len(q) - 1) : s[i] = q[IF i < k THEN i ELSE i + 1]
  PROVE  /\ Held(s, id) => Held(q, id)
         /\ Single(q, id) => Single(s, id) /\ (q[k].id = id => ~Held(s, id))
<1> DEFINE at(i) == IF i < k THEN i ELSE i + 1
<1>1. PICK n : n = Len(q)
  OBVIOUS
<1>2. n \in Nat \ {0} /\ k \in 1..n
  BY <1>1
<1>3. /\ \A i \in 1..(n - 1) : at(i) \in 1..n /\ at(i) # k
      /\ \A i, j \in 1..(n - 1) : at(i) = at(j) => i = j
  BY <1>2
<1>4. Len(s) = n - 1 /\ \A i \in 1..(n - 1) : s[i] = q[at(i)]
  BY <1>1
<1> HIDE DEF at
<1> QED BY <1>1, <1>2, <1>3, <1>4 DEF Held, Single

\* The first less.
LEMMA HeldByTail ==
  ASSUME NEW S, NEW q \in Seq(S), q # <<>>, NEW id
  PROVE  /\ Held(Tail(q), id) => Held(q, id)
         /\ Single(q, id) => Single(Tail(q), id) /\ (q[1].id = id => ~Held(Tail(q), id))
<1>1. 1 \in 1..Len(q) /\ Len(Tail(q)) = Len(q) - 1
  OBVIOUS
<1>2. \A i \in 1..(Len(q) - 1) : Tail(q)[i] = q[IF i < 1 THEN i ELSE i + 1]
  OBVIOUS
<1> QED BY <1>1, <1>2, HeldByLess

\* The first that waits becomes a task,
LEMMA OnceHandedOut ==
  ASSUME NEW res, NEW T \in Seq(Tasked), NEW W \in Seq(Loads), NEW E, NEW M,
         HeldOnce(res, T, W, E, M), W # <<>>
  PROVE  HeldOnce(res, Append(T, W[1]), Tail(W), E, M)
<1>1. W[1] \in Loads /\ W[1] \in Tasked /\ 1 \in 1..Len(W)
  <2>1. W[1] \in Loads /\ 1 \in 1..Len(W)
    OBVIOUS
  <2> QED BY <2>1 DEF Loads, Tasked
<1> SUFFICES ASSUME NEW id \in Ids
             PROVE  LET P == Append(T, W[1]) Q == Tail(W) IN
                    /\ Single(res, id) /\ Single(P, id) /\ Single(Q, id)
                    /\ ~(Held(res, id) /\ Held(P, id)) /\ ~(Held(res, id) /\ Held(Q, id)) /\ ~(Held(P, id) /\ Held(Q, id))
                    /\ Held(res, id) \/ Held(P, id) \/ Held(Q, id) => id \in E /\ id \notin M
  BY DEF HeldOnce
<1>2. /\ Held(Append(T, W[1]), id) <=> Held(T, id) \/ W[1].id = id
      /\ Single(T, id) /\ (W[1].id = id => ~Held(T, id)) => Single(Append(T, W[1]), id)
  BY <1>1, HeldByMore
<1>3. /\ Held(Tail(W), id) => Held(W, id)
      /\ Single(W, id) => Single(Tail(W), id) /\ (W[1].id = id => ~Held(Tail(W), id))
  BY HeldByTail
<1>4. W[1].id = id => Held(W, id)
  BY <1>1 DEF Held
<1> QED BY <1>2, <1>3, <1>4 DEF HeldOnce

\* or a result, or nothing.
LEMMA OnceLeftOut ==
  ASSUME NEW res \in Seq(Results), NEW T, NEW W \in Seq(Loads), NEW E, NEW M,
         HeldOnce(res, T, W, E, M), W # <<>>
  PROVE  /\ HeldOnce(res, T, Tail(W), E, M)
         /\ \A x \in Results : x.id = W[1].id => HeldOnce(Append(res, x), T, Tail(W), E, M)
<1>1. 1 \in 1..Len(W)
  OBVIOUS
<1>2. ASSUME NEW id \in Ids
      PROVE  /\ Held(Tail(W), id) => Held(W, id)
             /\ Single(W, id) => Single(Tail(W), id) /\ (W[1].id = id => ~Held(Tail(W), id))
             /\ W[1].id = id => Held(W, id)
  <2>1. W[1].id = id => Held(W, id)
    BY <1>1 DEF Held
  <2> QED BY <2>1, HeldByTail
<1>3. HeldOnce(res, T, Tail(W), E, M)
  BY <1>2 DEF HeldOnce
<1>4. ASSUME NEW x \in Results, x.id = W[1].id
      PROVE  HeldOnce(Append(res, x), T, Tail(W), E, M)
  <2> SUFFICES ASSUME NEW id \in Ids
               PROVE  LET P == Append(res, x) Q == Tail(W) IN
                      /\ Single(P, id) /\ Single(T, id) /\ Single(Q, id)
                      /\ ~(Held(P, id) /\ Held(T, id)) /\ ~(Held(P, id) /\ Held(Q, id)) /\ ~(Held(T, id) /\ Held(Q, id))
                      /\ Held(P, id) \/ Held(T, id) \/ Held(Q, id) => id \in E /\ id \notin M
    BY DEF HeldOnce
  <2>1. /\ Held(Append(res, x), id) <=> Held(res, id) \/ x.id = id
        /\ Single(res, id) /\ (x.id = id => ~Held(res, id)) => Single(Append(res, x), id)
    BY HeldByMore
  <2> QED BY <1>2, <1>4, <2>1 DEF HeldOnce
<1> QED BY <1>3, <1>4

\* A new evaluation waits for the bundle, or becomes a task,
LEMMA OnceAsked ==
  ASSUME NEW res, NEW T \in Seq(Tasked), NEW W \in Seq(Loads), NEW E, NEW M,
         HeldOnce(res, T, W, E, M), NEW id \in Ids, id \notin E, id \notin M
  PROVE  /\ \A x \in Loads : x.id = id => HeldOnce(res, T, Append(W, x), E \cup {id}, M)
         /\ \A x \in Tasked : x.id = id => HeldOnce(res, Append(T, x), W, E \cup {id}, M)
<1>1. ~Held(res, id) /\ ~Held(T, id) /\ ~Held(W, id)
  BY DEF HeldOnce
<1>2. ASSUME NEW x \in Loads, x.id = id PROVE HeldOnce(res, T, Append(W, x), E \cup {id}, M)
  <2>1. \A n \in Ids : /\ Held(Append(W, x), n) <=> Held(W, n) \/ x.id = n
                       /\ Single(W, n) /\ (x.id = n => ~Held(W, n)) => Single(Append(W, x), n)
    BY HeldByMore
  <2> QED BY <1>1, <1>2, <2>1 DEF HeldOnce
<1>3. ASSUME NEW x \in Tasked, x.id = id PROVE HeldOnce(res, Append(T, x), W, E \cup {id}, M)
  <2>1. \A n \in Ids : /\ Held(Append(T, x), n) <=> Held(T, n) \/ x.id = n
                       /\ Single(T, n) /\ (x.id = n => ~Held(T, n)) => Single(Append(T, x), n)
    BY HeldByMore
  <2> QED BY <1>1, <1>3, <2>1 DEF HeldOnce
<1> QED BY <1>2, <1>3

\* A task has run, and posts its result if someone waits for it.
LEMMA OnceRun ==
  ASSUME NEW res \in Seq(Results), NEW T \in Seq(Tasked), NEW W, NEW E, NEW M,
         HeldOnce(res, T, W, E, M), NEW k \in 1..Len(T)
  PROVE  /\ HeldOnce(res, RemoveAt(T, k), W, E, M)
         /\ \A x \in Results : x.id = T[k].id => HeldOnce(Append(res, x), RemoveAt(T, k), W, E, M)
<1> DEFINE Q == RemoveAt(T, k)
<1>1. Len(Q) = Len(T) - 1 /\ \A i \in 1..(Len(T) - 1) : Q[i] = T[IF i < k THEN i ELSE i + 1]
  BY RemovedAt
<1> HIDE DEF Q
<1>2. ASSUME NEW id \in Ids
      PROVE  /\ Held(Q, id) => Held(T, id)
             /\ Single(T, id) => Single(Q, id) /\ (T[k].id = id => ~Held(Q, id))
             /\ T[k].id = id => Held(T, id)
  <2>1. T[k].id = id => Held(T, id)
    BY DEF Held
  <2> QED BY <1>1, <2>1, HeldByLess
<1>3. HeldOnce(res, Q, W, E, M)
  BY <1>2 DEF HeldOnce
<1>4. ASSUME NEW x \in Results, x.id = T[k].id PROVE HeldOnce(Append(res, x), Q, W, E, M)
  <2>1. \A n \in Ids : /\ Held(Append(res, x), n) <=> Held(res, n) \/ x.id = n
                       /\ Single(res, n) /\ (x.id = n => ~Held(res, n)) => Single(Append(res, x), n)
    BY HeldByMore
  <2> QED BY <1>2, <1>4, <2>1 DEF HeldOnce
<1> QED BY <1>3, <1>4 DEF Q

\* The first result is delivered.
LEMMA OnceDelivered ==
  ASSUME NEW res \in Seq(Results), NEW T, NEW W, NEW E, NEW M,
         HeldOnce(res, T, W, E, M), res # <<>>
  PROVE  /\ res[1].id \in E /\ res[1].id \notin M
         /\ HeldOnce(Tail(res), T, W, E \ {res[1].id}, M)
<1>1. 1 \in 1..Len(res) /\ res[1] \in Results
  OBVIOUS
<1>2. PICK n \in Ids : n = res[1].id
  BY <1>1 DEF Results
<1>3. Held(res, n)
  BY <1>1, <1>2 DEF Held
<1>4. \A id \in Ids : /\ Held(Tail(res), id) => Held(res, id)
                      /\ Single(res, id) => Single(Tail(res), id) /\ (res[1].id = id => ~Held(Tail(res), id))
  BY HeldByTail
<1> QED BY <1>2, <1>3, <1>4 DEF HeldOnce

\* An evaluation of which nothing is left ends, as a message says.
LEMMA OnceEnded ==
  ASSUME NEW res, NEW T, NEW W, NEW E, NEW M, HeldOnce(res, T, W, E, M), NEW F, NEW N,
         \A id \in E \ M : id \in F \ N
  PROVE  HeldOnce(res, T, W, F, N)
BY DEF HeldOnce

\* A retired runtime has nothing.
LEMMA OnceNothing ==
  ASSUME NEW res, NEW T, NEW W, NEW E, NEW M, Len(res) = 0, Len(T) = 0, \A id \in Ids : ~Held(W, id)
  PROVE  HeldOnce(res, T, W, E, M)
<1>1. \A id \in Ids : Single(W, id)
  BY DEF Held, Single
<1> QED BY <1>1 DEF HeldOnce, Held, Single

-----------------------------------------------------------------------------
(* Segments are handed out one after the other: the recursive function of the fold exists. *)

Highest(S) == CHOOSE x \in S : \A y \in S : x >= y
Handed(k, p, segment) == IF k = "load" THEN InstanceLoads(p, segment) ELSE EvaluateSegment(p, segment)
Handling(k, q, first, iter, s) ==
  IF s = {} THEN first ELSE Handed(k, iter[s \ {Highest(s)}], q[Highest(s)])
Handles(k, q, first, iter, D) == iter = [s \in D |-> Handling(k, q, first, iter, s)]

\* A set of positions has a highest.
LEMMA HighestIsThere ==
  ASSUME NEW n \in Nat, NEW s \in SUBSET (1..n), s # {}
  PROVE  Highest(s) \in s
<1> DEFINE T == {m \in Nat : \E x \in s : n - x = m}
<1>1. T # {} /\ T \in SUBSET Nat
  <2>1. PICK x \in s : x \in 1..n
    OBVIOUS
  <2>2. n - x \in T
    BY <2>1
  <2> QED BY <2>2
<1>2. PICK m \in T : \A k \in T : m <= k
  BY <1>1, LeastNatural
<1>3. PICK x \in s : n - x = m
  BY <1>2
<1>4. ASSUME NEW y \in s PROVE x >= y
  <2>1. n - y \in T /\ y \in 1..n /\ x \in 1..n
    OBVIOUS
  <2>2. m <= n - y
    BY <1>2, <2>1
  <2> QED BY <1>3, <2>1, <2>2
<1> QED BY <1>4 DEF Highest

\* The function exists.
LEMMA HandlesExist ==
  ASSUME NEW k, NEW q, NEW first, NEW n \in Nat
  PROVE  \E iter : Handles(k, q, first, iter, SUBSET (1..n))
<1> DEFINE G(c) == {s \in SUBSET (1..n) : Cardinality(s) <= c}
           E(c) == \E iter : Handles(k, q, first, iter, G(c))
<1>1. IsFiniteSet(1..n) /\ Cardinality(1..n) = n
  BY FS_Interval
<1>2. \A s \in SUBSET (1..n) : IsFiniteSet(s) /\ Cardinality(s) \in Nat
  BY <1>1, FS_Subset, FS_CardinalityType
<1>3. \A s \in SUBSET (1..n) : s # {} => Highest(s) \in s
  BY HighestIsThere
<1>4. E(0)
  <2>1. G(0) = {{}}
    BY <1>2, FS_EmptySet
  <2> DEFINE iter == [s \in {{}} |-> first]
  <2>2. Handles(k, q, first, iter, G(0))
    BY <2>1 DEF Handles, Handling
  <2> QED BY <2>2
<1>5. ASSUME NEW c \in Nat, E(c) PROVE E(c + 1)
  <2>1. PICK iter : Handles(k, q, first, iter, G(c))
    BY <1>5
  <2> DEFINE next == [s \in G(c + 1) |-> Handling(k, q, first, iter, s)]
  <2>2. ASSUME NEW s \in G(c + 1), s # {} PROVE s \ {Highest(s)} \in G(c)
    <3>1. Highest(s) \in s /\ IsFiniteSet(s) /\ Cardinality(s) \in Nat
      BY <1>2, <1>3, <2>2
    <3>2. Cardinality(s \ {Highest(s)}) = Cardinality(s) - 1
      BY <3>1, FS_RemoveElement
    <3>3. s \ {Highest(s)} \in SUBSET (1..n) /\ Cardinality(s) <= c + 1
      OBVIOUS
    <3>4. Cardinality(s \ {Highest(s)}) <= c
      BY <3>1, <3>2, <3>3
    <3> QED BY <3>3, <3>4
  <2>3. G(c) \subseteq G(c + 1)
    BY <1>2
  <2>4. \A s \in G(c) : next[s] = iter[s]
    BY <2>1, <2>3 DEF Handles
  <2> HIDE DEF G
  <2>5. \A s \in G(c + 1) : Handling(k, q, first, iter, s) = Handling(k, q, first, next, s)
    BY <2>2, <2>4 DEF Handling
  <2>6. Handles(k, q, first, next, G(c + 1))
    BY <2>5 DEF Handles
  <2> HIDE DEF next
  <2> QED BY <2>6
<1> HIDE DEF E
<1>6. \A c \in Nat : E(c)
  <2> DEFINE T == {c \in Nat : ~E(c)}
  <2> SUFFICES ASSUME T # {} PROVE FALSE
    OBVIOUS
  <2>1. PICK c \in T : \A m \in T : c <= m
    BY LeastNatural
  <2>2. c \in Nat \ {0}
    BY <1>4
  <2>3. c - 1 \in Nat /\ E(c - 1) /\ (c - 1) + 1 = c
    BY <2>1, <2>2
  <2> QED BY <1>5, <2>3
<1>7. \A s \in SUBSET (1..n) : Cardinality(s) <= n
  BY <1>1, FS_Subset
<1>8. G(n) = SUBSET (1..n)
  BY <1>7
<1> QED BY <1>6, <1>8 DEF E

Handout(k, p, q) ==
  IF k = "load" THEN FoldLeft(InstanceLoads, p, q) ELSE FoldLeft(EvaluateSegment, p, q)
Handler(k, p, q) == CHOOSE iter : Handles(k, q, p, iter, SUBSET DOMAIN q)

\* The handler handles all of the list,
LEMMA HandlerHandles ==
  ASSUME NEW k, NEW p, NEW q, NEW n \in Nat, DOMAIN q = 1..n
  PROVE  Handles(k, q, p, Handler(k, p, q), SUBSET (1..n))
<1>1. \E iter : Handles(k, q, p, iter, SUBSET DOMAIN q)
  BY HandlesExist
<1>2. Handles(k, q, p, Handler(k, p, q), SUBSET DOMAIN q)
  BY <1>1 DEF Handler
<1> QED BY <1>2

\* as the folds do.
LEMMA HandoutHandles ==
  ASSUME NEW k \in {"load", "evaluate"}, NEW p, NEW q
  PROVE  Handout(k, p, q) = Handler(k, p, q)[DOMAIN q]
<1>1. CASE k = "load"
  <2>1. FoldLeft(InstanceLoads, p, q) = Handler(k, p, q)[DOMAIN q]
    BY <1>1 DEF FoldLeft, MapThenFoldSet, Max, Handler, Handles, Handling, Handed, Highest
  <2> QED BY <1>1, <2>1 DEF Handout
<1>2. CASE k # "load"
  <2>1. FoldLeft(EvaluateSegment, p, q) = Handler(k, p, q)[DOMAIN q]
    BY <1>2 DEF FoldLeft, MapThenFoldSet, Max, Handler, Handles, Handling, Handed, Highest
  <2> QED BY <1>2, <2>1 DEF Handout
<1> QED BY <1>1, <1>2

\* One after the other.
Reached(k, p, q, i) == Handler(k, p, q)[1..i]
LEMMA HandoutInSteps ==
  ASSUME NEW k \in {"load", "evaluate"}, NEW p, NEW q \in Seq(Loads)
  PROVE  /\ Reached(k, p, q, 0) = p /\ Handout(k, p, q) = Reached(k, p, q, Len(q))
         /\ \A i \in 1..Len(q) : Reached(k, p, q, i) = Handed(k, Reached(k, p, q, i - 1), q[i])
<1>1. DOMAIN q = 1..Len(q) /\ Len(q) \in Nat
  BY LenProperties
<1>2. PICK n \in Nat : n = Len(q)
  BY <1>1
<1>3. PICK iter : iter = Handler(k, p, q)
  OBVIOUS
<1>4. Handles(k, q, p, iter, SUBSET (1..n)) /\ Handout(k, p, q) = iter[1..n]
  <2>1. DOMAIN q = 1..n
    BY <1>1, <1>2
  <2>2. Handles(k, q, p, Handler(k, p, q), SUBSET (1..n))
    BY <2>1, HandlerHandles
  <2>3. Handout(k, p, q) = Handler(k, p, q)[1..n]
    BY <2>1, HandoutHandles
  <2> QED BY <1>3, <2>2, <2>3
<1>5. iter[{}] = p
  BY <1>4 DEF Handles, Handling
<1>6. Reached(k, p, q, 0) = p
  <2>1. 1..0 = {}
    OBVIOUS
  <2> QED BY <1>3, <1>5, <2>1 DEF Reached
<1>7. ASSUME NEW i \in 1..n PROVE Reached(k, p, q, i) = Handed(k, Reached(k, p, q, i - 1), q[i])
  <2>1. 1..i \in SUBSET (1..n) /\ i \in 1..i
    OBVIOUS
  <2>2. 1..i # {} /\ Highest(1..i) = i
    <3>1. \A y \in 1..i : i >= y
      OBVIOUS
    <3>2. PICK s : s = 1..i
      OBVIOUS
    <3>3. Highest(s) \in s /\ \A y \in s : Highest(s) >= y
      BY <2>1, <3>1, <3>2 DEF Highest
    <3>4. Highest(s) \in 1..i /\ Highest(s) >= i
      BY <2>1, <3>2, <3>3
    <3> QED BY <2>1, <3>2, <3>4
  <2>3. (1..i) \ {i} = 1..(i - 1)
    OBVIOUS
  <2>4. PICK s : s = 1..i
    OBVIOUS
  <2>5. iter[s] = Handling(k, q, p, iter, s)
    BY <1>4, <2>1, <2>4 DEF Handles
  <2>6. iter[s] = Handed(k, iter[s \ {i}], q[i])
    BY <2>2, <2>4, <2>5 DEF Handling
  <2> QED BY <1>3, <2>3, <2>4, <2>6 DEF Reached
<1> QED BY <1>2, <1>3, <1>4, <1>6, <1>7 DEF Reached

-----------------------------------------------------------------------------
(* The current runtime: R is what it ran, W what waits or is being handed out, D its own  *)
(* segments, E the evaluations that have not ended and M those a message will end.         *)

Hosts == [instance : 0..MaxGenerations, generation : 0..MaxGenerations, loaded : BOOLEAN,
          waiting : Seq(Loads), results : Seq(Results)]
States == [host : Hosts, threads : [Generations -> Seq(Tasked)], file : BOOLEAN]

Serves(p, R, W, D, E, M) ==
  /\ p \in States /\ p.host.instance \in Generations /\ W \in Seq(Loads)
  /\ InLine(R, p.threads[p.host.instance], W, D)
  /\ HeldOnce(p.host.results, p.threads[p.host.instance], W, E, M)
Beside(p, q) ==
  /\ q.host.instance = p.host.instance /\ q.host.generation = p.host.generation
  /\ q.host.loaded = p.host.loaded /\ q.host.waiting = p.host.waiting
  /\ \A g \in Generations : g # p.host.instance => q.threads[g] = p.threads[g]

\* The fields of a state.
LEMMA StateFields ==
  ASSUME NEW p \in States
  PROVE  /\ p.host \in Hosts /\ p.threads \in [Generations -> Seq(Tasked)] /\ p.file \in BOOLEAN
         /\ p.host.instance \in 0..MaxGenerations /\ p.host.generation \in 0..MaxGenerations
         /\ p.host.loaded \in BOOLEAN /\ p.host.waiting \in Seq(Loads) /\ p.host.results \in Seq(Results)
BY DEF States, Hosts

\* One more task, or result.
LEMMA StateTakesTask ==
  ASSUME NEW p \in States, p.host.instance \in Generations, NEW x \in Tasked
  PROVE  LET q == [p EXCEPT !.threads[p.host.instance] = Append(@, x)]
         IN  /\ q \in States /\ Beside(p, q) /\ q.host = p.host
             /\ q.threads[p.host.instance] = Append(p.threads[p.host.instance], x)
<1> DEFINE g == p.host.instance
           q == [p EXCEPT !.threads[p.host.instance] = Append(@, x)]
<1>1. PICK t : t = [p.threads EXCEPT ![g] = Append(@, x)]
  OBVIOUS
<1>2. t \in [Generations -> Seq(Tasked)] /\ t[g] = Append(p.threads[g], x)
      /\ \A h \in Generations : h # g => t[h] = p.threads[h]
  BY <1>1, StateFields
<1>3. q = [p EXCEPT !.threads = t]
  BY <1>1 DEF States
<1>4. q \in States /\ q.host = p.host /\ q.threads = t
  BY <1>2, <1>3 DEF States
<1> QED BY <1>2, <1>4 DEF Beside

LEMMA StateTakesResult ==
  ASSUME NEW p \in States, NEW x \in Results
  PROVE  LET q == [p EXCEPT !.host.results = Append(@, x)]
         IN  /\ q \in States /\ Beside(p, q) /\ q.threads = p.threads
             /\ q.host.results = Append(p.host.results, x)
<1> DEFINE q == [p EXCEPT !.host.results = Append(@, x)]
<1>1. PICK r : r = Append(p.host.results, x)
  OBVIOUS
<1>2. r \in Seq(Results)
  BY <1>1, StateFields
<1>3. PICK h : h = [p.host EXCEPT !.results = r]
  OBVIOUS
<1>4. /\ h \in Hosts /\ h.results = r /\ h.instance = p.host.instance
      /\ h.generation = p.host.generation /\ h.loaded = p.host.loaded /\ h.waiting = p.host.waiting
  BY <1>2, <1>3 DEF States, Hosts
<1>5. q = [p EXCEPT !.host = h]
  BY <1>1, <1>3 DEF States, Hosts
<1>6. q \in States /\ q.host = h /\ q.threads = p.threads
  BY <1>4, <1>5 DEF States
<1> QED BY <1>1, <1>4, <1>6 DEF Beside

\* The first that waits is handed out.
LEMMA HandOne ==
  ASSUME NEW p, NEW R \in Seq(Runs), NEW W \in Seq(Loads), NEW D \in Seq(Segments), NEW E, NEW M,
         Serves(p, R, W, D, E, M), W # <<>>
  PROVE  LET q == EvaluateSegment(p, W[1]) IN Serves(q, R, Tail(W), D, E, M) /\ Beside(p, q)
<1>1. PICK x, g, T, q : /\ x = W[1] /\ g = p.host.instance /\ T = p.threads[g]
                        /\ q = EvaluateSegment(p, x)
  OBVIOUS
<1>2. x \in Loads /\ x \in Tasked /\ Tail(W) \in Seq(Loads)
  <2>1. x \in Loads /\ Tail(W) \in Seq(Loads)
    BY <1>1
  <2> QED BY <2>1 DEF Loads, Tasked
<1>3. /\ p \in States /\ g \in Generations /\ T \in Seq(Tasked) /\ p.host.results \in Seq(Results)
      /\ InLine(R, T, W, D) /\ HeldOnce(p.host.results, T, W, E, M)
  BY <1>1, StateFields DEF Serves
<1>4. CASE x.path \in files
  <2>1. PICK u : u = [p EXCEPT !.threads[p.host.instance] = Append(@, x)]
    OBVIOUS
  <2>2. q = u
    BY <1>1, <1>4, <2>1 DEF EvaluateSegment
  <2>3. p.host.instance \in Generations
    BY <1>1, <1>3
  <2>4. u \in States /\ Beside(p, u) /\ u.host = p.host
        /\ u.threads[p.host.instance] = Append(p.threads[p.host.instance], x)
    BY <1>2, <1>3, <2>1, <2>3, StateTakesTask
  <2>5. q \in States /\ Beside(p, q) /\ q.host = p.host /\ q.threads[g] = Append(T, x)
    BY <1>1, <2>2, <2>4
  <2>6. InLine(R, Append(T, x), Tail(W), D) /\ HeldOnce(p.host.results, Append(T, x), Tail(W), E, M)
    <3>1. InLine(R, Append(T, x), Tail(W), D)
      BY <1>1, <1>3, LineHandsOut
    <3>2. HeldOnce(p.host.results, Append(T, x), Tail(W), E, M)
      BY <1>1, <1>3, OnceHandedOut
    <3> QED BY <3>1, <3>2
  <2>7. Serves(q, R, Tail(W), D, E, M)
    BY <1>1, <1>2, <1>3, <2>5, <2>6 DEF Serves
  <2> QED BY <1>1, <2>5, <2>7
<1>5. InLine(R, T, Tail(W), D)
  BY <1>3, LineLeavesOut
<1>6. CASE x.path \notin files /\ x.id = 0
  <2>1. q = p
    BY <1>1, <1>6 DEF EvaluateSegment
  <2>2. HeldOnce(p.host.results, T, Tail(W), E, M)
    BY <1>3, OnceLeftOut
  <2>3. Serves(q, R, Tail(W), D, E, M)
    BY <1>1, <1>2, <1>3, <1>5, <2>1, <2>2 DEF Serves
  <2> QED BY <1>1, <2>1, <2>3 DEF Beside
<1>7. CASE x.path \notin files /\ x.id # 0
  <2>1. PICK y : y = [id |-> x.id, ok |-> FALSE]
    OBVIOUS
  <2>2. y \in Results /\ y.id = W[1].id
    BY <1>1, <1>2, <1>7, <2>1 DEF Loads, Results
  <2>3. q = [p EXCEPT !.host.results = Append(@, y)]
    BY <1>1, <1>7, <2>1 DEF EvaluateSegment
  <2>4. q \in States /\ Beside(p, q) /\ q.threads = p.threads
        /\ q.host.results = Append(p.host.results, y)
    BY <1>3, <2>2, <2>3, StateTakesResult
  <2>5. HeldOnce(Append(p.host.results, y), T, Tail(W), E, M)
    BY <1>3, <2>2, OnceLeftOut
  <2>6. q.host.instance = g /\ q.threads[g] = T
    BY <1>1, <2>4 DEF Beside
  <2>7. Serves(q, R, Tail(W), D, E, M)
    BY <1>2, <1>3, <1>5, <2>4, <2>5, <2>6 DEF Serves
  <2> QED BY <1>1, <2>4, <2>7
<1> QED BY <1>4, <1>6, <1>7

\* What is left of a list.
Left(q, i) == SubSeq(q, i + 1, Len(q))

LEMMA LeftOf ==
  ASSUME NEW S, NEW q \in Seq(S)
  PROVE  /\ Left(q, 0) = q
         /\ \A i \in 0..Len(q) : Left(q, i) \in Seq(S)
         /\ \A i \in 1..Len(q) : /\ Left(q, i - 1) # <<>> /\ Left(q, i - 1)[1] = q[i]
                                 /\ Tail(Left(q, i - 1)) = Left(q, i)
<1>1. Len(q) \in Nat
  OBVIOUS
<1>2. Left(q, 0) = q
  BY <1>1 DEF Left
<1>3. ASSUME NEW i \in 0..Len(q) 
      PROVE  /\ Left(q, i) \in Seq(S) /\ Len(Left(q, i)) = Len(q) - i
             /\ \A j \in 1..(Len(q) - i) : Left(q, i)[j] = q[i + j]
  BY <1>1 DEF Left
<1>4. ASSUME NEW i \in 1..Len(q)
      PROVE  /\ Left(q, i - 1) # <<>> /\ Left(q, i - 1)[1] = q[i]
             /\ Tail(Left(q, i - 1)) = Left(q, i)
  <2>1. i - 1 \in 0..Len(q) /\ i \in 0..Len(q) /\ 1 \in 1..(Len(q) - (i - 1)) /\ (i - 1) + 1 = i
    BY <1>1
  <2>2. PICK s, t : s = Left(q, i - 1) /\ t = Left(q, i)
    OBVIOUS
  <2>3. s \in Seq(S) /\ Len(s) = Len(q) - (i - 1) /\ s[1] = q[i]
        /\ \A j \in 1..(Len(q) - (i - 1)) : s[j] = q[(i - 1) + j]
    BY <1>3, <2>1, <2>2
  <2>4. t \in Seq(S) /\ Len(t) = Len(q) - i /\ \A j \in 1..(Len(q) - i) : t[j] = q[i + j]
    BY <1>3, <2>1, <2>2
  <2>5. s # <<>>
    BY <1>1, <2>3
  <2>6. Tail(s) \in Seq(S) /\ Len(Tail(s)) = Len(q) - i
        /\ \A j \in 1..(Len(q) - i) : Tail(s)[j] = s[j + 1]
    BY <1>1, <2>3, <2>5
  <2>7. \A j \in 1..(Len(q) - i) : s[j + 1] = q[i + j]
    BY <1>1, <2>3
  <2>8. Tail(s) = t
    BY <2>4, <2>6, <2>7, SeqEqual
  <2> QED BY <2>2, <2>3, <2>5, <2>8
<1> QED BY <1>2, <1>3, <1>4

\* All of a list is handed out by a runtime whose bundle has loaded, or is loading now; what waits
\* behind the list, V, goes on waiting.
LEMMA HandAll ==
  ASSUME NEW k \in {"load", "evaluate"}, NEW p, NEW R \in Seq(Runs), NEW q \in Seq(Loads),
         NEW V \in Seq(Loads), NEW D \in Seq(Segments), NEW E, NEW M,
         Serves(p, R, q \o V, D, E, M), k = "load" => p.host.loaded
  PROVE  Serves(Handout(k, p, q), R, V, D, E, M) /\ Beside(p, Handout(k, p, q))
<1> DEFINE f(i) == Reached(k, p, q, i)
<1>1. /\ f(0) = p /\ Handout(k, p, q) = f(Len(q))
      /\ \A i \in 1..Len(q) : f(i) = Handed(k, f(i - 1), q[i])
  BY HandoutInSteps
<1> HIDE DEF f
<1>2. PICK n, s : n = Len(q) /\ s = q \o V
  OBVIOUS
<1>3. n \in Nat /\ s \in Seq(Loads) /\ Len(s) = n + Len(V) /\ n <= Len(s) /\ Len(V) \in Nat
      /\ \A i \in 1..n : s[i] = q[i]
  BY <1>2
<1> DEFINE G(i) == Serves(f(i), R, Left(s, i), D, E, M) /\ Beside(p, f(i))
<1>4. G(0)
  <2>1. Beside(p, p)
    BY DEF Beside
  <2> QED BY <1>1, <1>2, <1>3, <2>1, LeftOf
<1>5. ASSUME NEW i \in 1..n, G(i - 1) PROVE G(i)
  <2>1. i \in 1..Len(s)
    BY <1>3
  <2>2. PICK W, r, t : W = Left(s, i - 1) /\ r = f(i - 1) /\ t = f(i)
    OBVIOUS
  <2>3. W \in Seq(Loads) /\ W # <<>> /\ W[1] = q[i] /\ Tail(W) = Left(s, i)
    <3>1. i - 1 \in 0..Len(s)
      BY <1>3
    <3> QED BY <1>3, <2>1, <2>2, <3>1, LeftOf
  <2>4. t = Handed(k, r, W[1])
    BY <1>1, <1>2, <2>2, <2>3
  <2>5. Serves(r, R, W, D, E, M) /\ Beside(p, r)
    BY <1>5, <2>2
  <2>6. t = EvaluateSegment(r, W[1])
    <3>1. k = "load" => r.host.loaded
      BY <2>5 DEF Beside
    <3> QED BY <2>4, <3>1 DEF Handed, InstanceLoads
  <2>7. Serves(t, R, Tail(W), D, E, M) /\ Beside(r, t)
    BY <2>3, <2>5, <2>6, HandOne
  <2>8. Beside(p, t)
    BY <2>5, <2>7 DEF Beside
  <2> QED BY <2>2, <2>3, <2>7, <2>8
<1> HIDE DEF G
<1>6. \A i \in 0..n : G(i)
  <2> DEFINE T == {i \in 0..n : ~G(i)}
  <2> SUFFICES ASSUME T # {} PROVE FALSE
    OBVIOUS
  <2>1. T \in SUBSET Nat
    OBVIOUS
  <2>2. PICK i \in T : \A m \in T : i <= m
    BY <2>1, LeastNatural
  <2>3. i \in 1..n
    BY <1>3, <1>4
  <2>4. i - 1 \in 0..n /\ ~(i <= i - 1)
    BY <1>3, <2>3
  <2>5. i - 1 \notin T
    BY <2>2, <2>4
  <2>6. G(i - 1)
    BY <2>4, <2>5
  <2> QED BY <1>5, <2>3, <2>6
<1>7. G(n)
  BY <1>3, <1>6
<1>8. Left(s, n) = V
  <2>1. Left(s, n) \in Seq(Loads) /\ Len(Left(s, n)) = Len(V)
        /\ \A j \in 1..Len(V) : Left(s, n)[j] = s[n + j]
    BY <1>3 DEF Left
  <2>2. \A j \in 1..Len(V) : s[n + j] = V[j]
    BY <1>2, <1>3
  <2> QED BY <2>1, <2>2
<1> QED BY <1>1, <1>2, <1>7, <1>8 DEF G

\* One more of a list.
LEMMA OneMore ==
  ASSUME NEW x \in Seq(Loads), NEW q \in Seq(Loads)
  PROVE  /\ x \o SubSeq(q, 1, 0) = x /\ x \o SubSeq(q, 1, Len(q)) = x \o q
         /\ \A i \in 0..Len(q) : x \o SubSeq(q, 1, i) \in Seq(Loads)
         /\ \A i \in 1..Len(q) : x \o SubSeq(q, 1, i) = Append(x \o SubSeq(q, 1, i - 1), q[i])
<1>1. Len(q) \in Nat /\ Len(x) \in Nat
  OBVIOUS
<1>2. SubSeq(q, 1, Len(q)) = q
  BY <1>1
<1>3. x \o SubSeq(q, 1, 0) = x
  BY <1>1
<1>4. ASSUME NEW i \in 0..Len(q)
      PROVE  /\ x \o SubSeq(q, 1, i) \in Seq(Loads) /\ Len(x \o SubSeq(q, 1, i)) = Len(x) + i
             /\ \A k \in 1..(Len(x) + i) :
                  (x \o SubSeq(q, 1, i))[k] = IF k <= Len(x) THEN x[k] ELSE q[k - Len(x)]
  BY <1>1
<1>5. ASSUME NEW i \in 1..Len(q)
      PROVE  x \o SubSeq(q, 1, i) = Append(x \o SubSeq(q, 1, i - 1), q[i])
  <2>1. PICK s, t : s = x \o SubSeq(q, 1, i) /\ t = x \o SubSeq(q, 1, i - 1)
    OBVIOUS
  <2>2. i \in 0..Len(q) /\ i - 1 \in 0..Len(q) /\ q[i] \in Loads
    BY <1>1
  <2>3. PICK l : l = Len(x)
    OBVIOUS
  <2>4. /\ s \in Seq(Loads) /\ Len(s) = l + i
        /\ \A k \in 1..(l + i) : s[k] = IF k <= l THEN x[k] ELSE q[k - l]
    BY <1>4, <2>1, <2>2, <2>3
  <2>5. /\ t \in Seq(Loads) /\ Len(t) = l + (i - 1)
        /\ \A k \in 1..(l + (i - 1)) : t[k] = IF k <= l THEN x[k] ELSE q[k - l]
    BY <1>4, <2>1, <2>2, <2>3
  <2> DEFINE u == Append(t, q[i])
  <2>6. l \in Nat /\ i \in Nat \ {0} /\ l + (i - 1) = (l + i) - 1
    BY <1>1, <2>3
  <2>7. /\ u \in Seq(Loads) /\ Len(u) = Len(t) + 1 /\ u[Len(t) + 1] = q[i]
        /\ \A k \in 1..Len(t) : u[k] = t[k]
    BY <2>2, <2>5
  <2> HIDE DEF u
  <2>8. ASSUME NEW k \in 1..(l + i) PROVE s[k] = u[k]
    <3>1. CASE k = l + i
      <4>1. ~(k <= l) /\ k - l = i
        BY <2>6, <3>1
      <4> QED BY <2>4, <2>5, <2>6, <2>7, <3>1, <4>1
    <3>2. CASE k # l + i
      <4>1. k \in 1..(l + (i - 1))
        BY <2>6, <3>2
      <4> QED BY <2>4, <2>5, <2>7, <4>1
    <3> QED BY <3>1, <3>2
  <2>9. Len(u) = l + i
    BY <2>5, <2>6, <2>7
  <2>10. s = u
    BY <2>4, <2>7, <2>8, <2>9, SeqEqual
  <2> QED BY <2>1, <2>10 DEF u
<1> QED BY <1>2, <1>3, <1>4, <1>5

\* A runtime whose bundle has not loaded keeps them.
LEMMA KeepAll ==
  ASSUME NEW p \in States, NEW q \in Seq(Loads), ~p.host.loaded
  PROVE  Handout("load", p, q) = [p EXCEPT !.host.waiting = @ \o q]
<1>1. PICK k : k = "load"
  OBVIOUS
<1> DEFINE f(i) == Reached(k, p, q, i)
<1>2. /\ f(0) = p /\ Handout(k, p, q) = f(Len(q))
      /\ \A i \in 1..Len(q) : f(i) = Handed(k, f(i - 1), q[i])
  <2>1. k \in {"load", "evaluate"}
    BY <1>1
  <2> QED BY <2>1, HandoutInSteps
<1> HIDE DEF f
<1>3. Len(q) \in Nat /\ p.host.waiting \in Seq(Loads)
  BY StateFields
<1> DEFINE w(i) == p.host.waiting \o SubSeq(q, 1, i)
           G(i) == f(i) = [p EXCEPT !.host.waiting = w(i)]
<1>4. /\ w(0) = p.host.waiting /\ w(Len(q)) = p.host.waiting \o q
      /\ \A i \in 1..Len(q) : w(i) = Append(w(i - 1), q[i])
  BY <1>3, OneMore
<1> HIDE DEF w
<1>5. G(0)
  BY <1>2, <1>4 DEF States, Hosts
<1>6. ASSUME NEW i \in 1..Len(q), G(i - 1) PROVE G(i)
  <2>1. PICK r, t, u, v : r = f(i - 1) /\ t = f(i) /\ u = w(i - 1) /\ v = w(i)
    OBVIOUS
  <2>2. r = [p EXCEPT !.host.waiting = u] /\ v = Append(u, q[i])
    BY <1>4, <1>6, <2>1
  <2>3. ~r.host.loaded /\ r.host.waiting = u
    BY <2>2 DEF States, Hosts
  <2>4. t = [r EXCEPT !.host.waiting = v]
    BY <1>1, <1>2, <2>1, <2>2, <2>3 DEF Handed, InstanceLoads
  <2>5. t = [p EXCEPT !.host.waiting = v]
    BY <2>2, <2>4 DEF States, Hosts
  <2> QED BY <2>1, <2>5
<1> HIDE DEF G
<1>7. \A i \in 0..Len(q) : G(i)
  <2> DEFINE T == {i \in 0..Len(q) : ~G(i)}
  <2> SUFFICES ASSUME T # {} PROVE FALSE
    OBVIOUS
  <2>1. T \in SUBSET Nat
    BY <1>3
  <2>2. PICK i \in T : \A m \in T : i <= m
    BY <2>1, LeastNatural
  <2>3. i \in 1..Len(q)
    BY <1>3, <1>5
  <2>4. i - 1 \in 0..Len(q) /\ ~(i <= i - 1)
    BY <1>3, <2>3
  <2>5. i - 1 \notin T
    BY <2>2, <2>4
  <2>6. G(i - 1)
    BY <2>4, <2>5
  <2> QED BY <1>6, <2>3, <2>6
<1>8. G(Len(q))
  BY <1>3, <1>7
<1> QED BY <1>1, <1>2, <1>4, <1>8 DEF G

-----------------------------------------------------------------------------
(* Every runtime: h is the host and t its threads, r what runtimes ran and b what had      *)
(* loaded when they started.                                                              *)

Rest(h, g) == IF g # h.instance \/ h.loaded THEN <<>> ELSE Again(Startup) \o h.waiting

RuntimesAreServed(h, t, r, b, E, M) ==
  /\ h \in Hosts /\ t \in [Generations -> Seq(Tasked)]
  /\ r \in [Generations -> Seq(Runs)] /\ b \in [Generations -> Seq(Segments)]
  /\ h.instance \in {0, h.generation}
  /\ h.instance = 0 => h.results = <<>> /\ ~h.loaded
  /\ h.instance = 0 \/ h.loaded => h.waiting = <<>>
  /\ \A g \in Generations : /\ InLine(r[g], t[g], Rest(h, g), Startup \o b[g])
                            /\ g > h.generation => t[g] = <<>> /\ r[g] = <<>>
  /\ h.instance # 0 => HeldOnce(h.results, t[h.instance], Rest(h, h.instance), E, M)

\* What a list of segments becomes, when it loads again.
LEMMA AgainOf ==
  /\ \A D \in Seq(Segments) : Again(D) \in Seq(Loads) /\ Len(Again(D)) = Len(D)
                              /\ \A k \in 1..Len(D) : Again(D)[k].path = D[k] /\ Again(D)[k].id = 0
  /\ \A C, D \in Seq(Segments) : Again(C \o D) = Again(C) \o Again(D)
<1>1. ASSUME NEW D \in Seq(Segments)
      PROVE  Again(D) \in Seq(Loads) /\ Len(Again(D)) = Len(D)
             /\ \A k \in 1..Len(D) : Again(D)[k] = [path |-> D[k], id |-> 0]
  <2>1. Len(D) \in Nat /\ \A k \in 1..Len(D) : D[k] \in Segments
    OBVIOUS
  <2>2. \A k \in 1..Len(D) : [path |-> D[k], id |-> 0] \in Loads
    BY <2>1 DEF Loads
  <2> QED BY <2>1, <2>2 DEF Again
<1>2. ASSUME NEW C \in Seq(Segments), NEW D \in Seq(Segments) PROVE Again(C \o D) = Again(C) \o Again(D)
  <2>1. PICK c, d : c = Again(C) /\ d = Again(D)
    OBVIOUS
  <2>2. PICK x : x = Again(C \o D)
    OBVIOUS
  <2>3. /\ c \in Seq(Loads) /\ Len(c) = Len(C) /\ \A k \in 1..Len(C) : c[k] = [path |-> C[k], id |-> 0]
        /\ d \in Seq(Loads) /\ Len(d) = Len(D) /\ \A k \in 1..Len(D) : d[k] = [path |-> D[k], id |-> 0]
        /\ Len(C) \in Nat /\ Len(D) \in Nat
    BY <1>1, <2>1
  <2>4. C \o D \in Seq(Segments) /\ Len(C \o D) = Len(C) + Len(D)
    OBVIOUS
  <2>5. /\ x \in Seq(Loads) /\ Len(x) = Len(C) + Len(D)
        /\ \A k \in 1..(Len(C) + Len(D)) : x[k] = [path |-> (C \o D)[k], id |-> 0]
    BY <1>1, <2>2, <2>4
  <2>6. ASSUME NEW k \in 1..(Len(C) + Len(D)) PROVE x[k] = (c \o d)[k]
    <3>1. CASE k <= Len(C)
      BY <2>3, <2>5, <3>1
    <3>2. CASE k > Len(C)
      <4>1. k - Len(C) \in 1..Len(D)
        BY <2>3, <3>2
      <4> QED BY <2>3, <2>5, <3>2, <4>1
    <3> QED BY <2>3, <3>1, <3>2
  <2>7. c \o d \in Seq(Loads) /\ Len(c \o d) = Len(C) + Len(D)
    <3>1. c \in Seq(Loads) /\ d \in Seq(Loads)
      BY <2>3
    <3>2. c \o d \in Seq(Loads) /\ Len(c \o d) = Len(c) + Len(d)
      BY <3>1, ConcatProperties
    <3>3. Len(c) = Len(C) /\ Len(d) = Len(D)
      BY <2>3
    <3> QED BY <3>2, <3>3
  <2>8. x = c \o d
    BY <2>5, <2>6, <2>7, SeqEqual
  <2> QED BY <2>1, <2>2, <2>8
<1>3. ASSUME NEW D \in Seq(Segments), NEW k \in 1..Len(D) PROVE Again(D)[k].path = D[k] /\ Again(D)[k].id = 0
  <2>1. Again(D)[k] = [path |-> D[k], id |-> 0]
    BY <1>1
  <2> QED BY <2>1
<1> QED BY <1>1, <1>2, <1>3

\* One more behind two sequences.
LEMMA MoreBehind ==
  ASSUME NEW a \in Seq(Loads), NEW w \in Seq(Loads), NEW x \in Loads
  PROVE  a \o Append(w, x) = Append(a \o w, x)
<1>1. PICK e : e = <<x>>
  OBVIOUS
<1>2. e \in Seq(Loads) /\ a \o w \in Seq(Loads)
  BY <1>1, ConcatProperties
<1>3. Append(w, x) = w \o e /\ Append(a \o w, x) = (a \o w) \o e
  BY <1>1, <1>2, AppendIsConcat
<1>4. (a \o w) \o e = a \o (w \o e)
  BY <1>2, ConcatAssociative
<1> QED BY <1>3, <1>4

\* A bundle has loaded: all that waits for it is handed out, but for what comes behind.
LEMMA BundleLoads ==
  ASSUME NEW p \in States, NEW R \in Seq(Runs), NEW V \in Seq(Loads), NEW D \in Seq(Segments),
         NEW E, NEW M, Serves(p, R, (Again(Startup) \o p.host.waiting) \o V, D, E, M)
  PROVE  LET q == BundleLoaded(p)
         IN  /\ Serves(q, R, V, D, E, M) /\ q.host.loaded /\ q.host.waiting = <<>>
             /\ q.host.instance = p.host.instance /\ q.host.generation = p.host.generation
             /\ \A g \in Generations : g # p.host.instance => q.threads[g] = p.threads[g]
<1>1. PICK w : w = Again(Startup) \o p.host.waiting
  OBVIOUS
<1>2. w \in Seq(Loads)
  <2>1. Again(Startup) \in Seq(Loads) /\ p.host.waiting \in Seq(Loads)
    BY SegmentsAssumption, AgainOf, StateFields
  <2> QED BY <1>1, <2>1, ConcatProperties
<1>3. PICK k : k = "evaluate"
  OBVIOUS
<1>4. PICK r : r = Handout(k, p, w)
  OBVIOUS
<1>5. Serves(r, R, V, D, E, M) /\ Beside(p, r)
  BY <1>1, <1>2, <1>3, <1>4, HandAll
<1>6. r = FoldLeft(EvaluateSegment, p, w)
  BY <1>3, <1>4 DEF Handout
<1>7. PICK q : q = [r EXCEPT !.host.loaded = TRUE, !.host.waiting = <<>>]
  OBVIOUS
<1>8. q = BundleLoaded(p)
  BY <1>1, <1>6, <1>7 DEF BundleLoaded
<1>9. PICK none : none = <<>>
  OBVIOUS
<1>10. none \in Seq(Loads)
  BY <1>9
<1>11. r \in States
  BY <1>5 DEF Serves
<1>12. PICK h : h = [r.host EXCEPT !.loaded = TRUE, !.waiting = none]
  OBVIOUS
<1>13. /\ h \in Hosts /\ h.loaded /\ h.waiting = none /\ h.instance = r.host.instance
       /\ h.generation = r.host.generation /\ h.results = r.host.results
  BY <1>10, <1>11, <1>12 DEF States, Hosts
<1>14. q = [r EXCEPT !.host = h]
  BY <1>7, <1>9, <1>11, <1>12 DEF States, Hosts
<1>15. q \in States /\ q.host = h /\ q.threads = r.threads
  BY <1>11, <1>13, <1>14 DEF States
<1>16. Serves(q, R, V, D, E, M)
  BY <1>5, <1>13, <1>15 DEF Serves
<1> QED BY <1>5, <1>8, <1>9, <1>13, <1>15, <1>16 DEF Beside

\* A runtime begins with nothing but its own segments.
Begins(p, R, W, D, E, M) ==
  /\ p \in States /\ p.host.instance \in Generations /\ p.host.results = <<>>
  /\ p.threads[p.host.instance] = <<>> /\ R = <<>> /\ D \in Seq(Segments) /\ W = Again(D)
LEMMA BeginningServes ==
  ASSUME NEW p, NEW R, NEW W, NEW D, NEW E, NEW M, Begins(p, R, W, D, E, M)
  PROVE  Serves(p, R, W, D, E, M) /\ R \in Seq(Runs) /\ W \in Seq(Loads)
<1>1. PICK none : none = <<>>
  OBVIOUS
<1>2. Len(none) = 0 /\ none \in Seq(Runs)
  BY <1>1
<1>3. W \in Seq(Loads) /\ Len(W) = Len(D) /\ \A i \in 1..Len(D) : W[i].id = 0
  BY AgainOf DEF Begins
<1>4. \A id \in Ids : ~Held(W, id)
  BY <1>3 DEF Held, Ids
<1>5. HeldOnce(none, none, W, E, M)
  BY <1>2, <1>4, OnceNothing
<1>6. InLine(none, none, W, D)
  BY <1>1, LineStarts DEF Begins
<1> QED BY <1>1, <1>2, <1>3, <1>5, <1>6 DEF Begins, Serves

\* A runtime starts.
LEMMA Starts ==
  ASSUME NEW p \in States, NEW later, p.host.instance = 0, p.host.results = <<>>,
         p.host.waiting = <<>>, ~p.host.loaded, p.host.generation < MaxGenerations, CanStart(p),
         p.threads[p.host.generation + 1] = <<>>, loaded \in Seq(Segments), NEW E, NEW M
  PROVE  LET q == Start(p, later)
             next == p.host.generation + 1
         IN  /\ q \in States /\ q.host.instance = next /\ q.host.generation = next
             /\ q.host.loaded => q.host.waiting = <<>>
             /\ InLine(<<>>, q.threads[next], Rest(q.host, next), Startup \o loaded)
             /\ HeldOnce(q.host.results, q.threads[next], Rest(q.host, next), E, M)
             /\ \A g \in Generations : g # next => q.threads[g] = p.threads[g]
<1>1. PICK next, none, D : next = p.host.generation + 1 /\ none = <<>> /\ D = Startup \o loaded
  OBVIOUS
<1>2. next \in Generations /\ next # 0 /\ next \in 0..MaxGenerations
  <2>1. MaxGenerations \in Nat /\ p.host.generation \in 0..MaxGenerations
    BY EvaluationBounds, StateFields
  <2> QED BY <1>1, <2>1 DEF Generations
<1>3. none \in Seq(Loads) /\ none \in Seq(Runs) /\ Len(none) = 0
  BY <1>1
<1>4. PICK a, b : a = Again(Startup) /\ b = Again(loaded)
  OBVIOUS
<1>5. a \in Seq(Loads) /\ b \in Seq(Loads) /\ D \in Seq(Segments) /\ Again(D) = a \o b
  <2>1. Startup \in Seq(Segments) /\ loaded \in Seq(Segments)
    BY SegmentsAssumption
  <2>2. a \in Seq(Loads) /\ b \in Seq(Loads)
    BY <1>4, <2>1, AgainOf
  <2>3. D \in Seq(Segments)
    BY <1>1, <2>1, ConcatProperties
  <2>4. Again(Startup \o loaded) = Again(Startup) \o Again(loaded)
    BY <2>1, AgainOf
  <2> QED BY <1>1, <1>4, <2>2, <2>3, <2>4
<1>6. PICK fresh : fresh = [p EXCEPT !.host.instance = next, !.host.generation = next]
  OBVIOUS
<1>7. PICK q : q = Start(p, later)
  OBVIOUS
<1>8. q = FoldLeft(InstanceLoads, IF later THEN fresh ELSE BundleLoaded(fresh), b)
  BY <1>1, <1>4, <1>6, <1>7 DEF Start
<1>9. /\ fresh \in States /\ fresh.host.instance = next /\ fresh.host.generation = next
      /\ fresh.host.results = none /\ fresh.host.waiting = none /\ ~fresh.host.loaded
      /\ fresh.threads = p.threads
  BY <1>1, <1>2, <1>6 DEF States, Hosts
<1>10. Begins(fresh, none, a \o b, D, E, M)
  BY <1>1, <1>2, <1>5, <1>9 DEF Begins
<1>11. Serves(fresh, none, a \o b, D, E, M)
  BY <1>10, BeginningServes
<1>12. PICK k : k = "load"
  OBVIOUS
<1>13. CASE later
  <2>1. q = Handout(k, fresh, b)
    BY <1>8, <1>12, <1>13 DEF Handout
  <2>2. q = [fresh EXCEPT !.host.waiting = @ \o b]
    BY <1>5, <1>9, <1>12, <2>1, KeepAll
  <2>3. fresh.host.waiting \o b = b
    BY <1>1, <1>5, <1>9, ConcatEmptySeq
  <2>4. q = [fresh EXCEPT !.host.waiting = b]
    BY <2>2, <2>3 DEF States, Hosts
  <2>5. /\ q \in States /\ q.host.instance = next /\ q.host.generation = next
        /\ q.host.results = fresh.host.results /\ q.host.waiting = b /\ ~q.host.loaded
        /\ q.threads = fresh.threads
    BY <1>5, <1>9, <2>4 DEF States, Hosts
  <2>6. Rest(q.host, next) = a \o b
    BY <1>4, <2>5 DEF Rest
  <2> QED BY <1>1, <1>7, <1>9, <1>11, <2>5, <2>6 DEF Serves
<1>14. CASE ~later
  <2>1. PICK m : m = BundleLoaded(fresh)
    OBVIOUS
  <2>2. (a \o none) \o b = a \o b
    BY <1>1, <1>5, ConcatEmptySeq
  <2>3. Serves(fresh, none, (Again(Startup) \o fresh.host.waiting) \o b, D, E, M)
    BY <1>4, <1>9, <1>11, <2>2
  <2>4. /\ Serves(m, none, b, D, E, M) /\ m.host.loaded /\ m.host.waiting = <<>>
        /\ m.host.instance = next /\ m.host.generation = next
        /\ \A g \in Generations : g # next => m.threads[g] = fresh.threads[g]
    BY <1>3, <1>5, <1>9, <2>1, <2>3, BundleLoads
  <2>5. b \o none = b
    BY <1>1, <1>5, ConcatEmptySeq
  <2>6. q = Handout(k, m, b)
    BY <1>8, <1>12, <1>14, <2>1 DEF Handout
  <2>7. Serves(q, none, none, D, E, M) /\ Beside(m, q)
    <3>1. Serves(m, none, b \o none, D, E, M)
      BY <2>4, <2>5
    <3>2. k \in {"load", "evaluate"} /\ m.host.loaded
      BY <1>12, <2>4
    <3> QED BY <1>3, <1>5, <2>6, <3>1, <3>2, HandAll
  <2>8. q.host.loaded /\ q.host.waiting = none /\ q.host.instance = next /\ q.host.generation = next
        /\ \A g \in Generations : g # next => q.threads[g] = p.threads[g]
    BY <1>1, <1>9, <2>4, <2>7 DEF Beside
  <2>9. Rest(q.host, next) = none
    BY <1>1, <2>8 DEF Rest
  <2> QED BY <1>1, <1>7, <2>7, <2>8, <2>9 DEF Serves
<1> QED BY <1>13, <1>14

\* What the runtimes are, of one of them.
LEMMA RuntimeIs ==
  ASSUME NEW h, NEW t, NEW r, NEW b, NEW E, NEW M, RuntimesAreServed(h, t, r, b, E, M),
         NEW g \in Generations
  PROVE  /\ h \in Hosts /\ t[g] \in Seq(Tasked) /\ r[g] \in Seq(Runs) /\ b[g] \in Seq(Segments)
         /\ Startup \o b[g] \in Seq(Segments) /\ Rest(h, g) \in Seq(Loads)
         /\ InLine(r[g], t[g], Rest(h, g), Startup \o b[g])
         /\ g = h.instance => HeldOnce(h.results, t[g], Rest(h, g), E, M)
         /\ g # 0
<1>1. h \in Hosts /\ t[g] \in Seq(Tasked) /\ r[g] \in Seq(Runs) /\ b[g] \in Seq(Segments) /\ g # 0
  BY DEF RuntimesAreServed, Generations
<1>2. Startup \in Seq(Segments) /\ h.waiting \in Seq(Loads)
  BY <1>1, SegmentsAssumption DEF Hosts
<1>3. Startup \o b[g] \in Seq(Segments)
  BY <1>1, <1>2, ConcatProperties
<1>4. Again(Startup) \o h.waiting \in Seq(Loads)
  BY <1>2, AgainOf, ConcatProperties
<1>5. Rest(h, g) \in Seq(Loads)
  BY <1>4 DEF Rest
<1> QED BY <1>1, <1>3, <1>5 DEF RuntimesAreServed

\* Ends that are told of, or about to be.
LEMMA RuntimesLetGo ==
  ASSUME NEW h, NEW t, NEW r, NEW b, NEW E, NEW M, RuntimesAreServed(h, t, r, b, E, M),
         NEW F, NEW N, h.instance = 0 \/ \A id \in E \ M : id \in F \ N
  PROVE  RuntimesAreServed(h, t, r, b, F, N)
BY OnceEnded DEF RuntimesAreServed

\* A runtime starts, if it can.
LEMMA RuntimesStart ==
  ASSUME NEW p \in States, NEW r, NEW b, NEW E, NEW M, NEW later,
         RuntimesAreServed(p.host, p.threads, r, b, E, M), p.host.instance = 0,
         p.host.generation < MaxGenerations, loaded \in Seq(Segments)
  PROVE  LET q == Start(p, later)
             c == IF q.host.generation = p.host.generation THEN b
                  ELSE [b EXCEPT ![q.host.generation] = loaded]
         IN  /\ q \in States /\ RuntimesAreServed(q.host, q.threads, r, c, E, M)
             /\ q.host.generation <= p.host.generation + 1
             /\ CanStart(p) => q.host.instance # 0
<1>1. PICK q, next, n : q = Start(p, later) /\ n = p.host.generation /\ next = n + 1
  OBVIOUS
<1>2. CASE ~CanStart(p)
  <2>1. q = p
    BY <1>1, <1>2 DEF Start
  <2> QED BY <1>1, <1>2, <2>1, StateFields
<1>3. CASE CanStart(p)
  <2>1. n \in 0..MaxGenerations /\ next \in Generations /\ next > n /\ next # 0 /\ next # n
    BY <1>1, EvaluationBounds, StateFields DEF Generations
  <2>2. /\ p.host.results = <<>> /\ p.host.waiting = <<>> /\ ~p.host.loaded
        /\ p.threads[next] = <<>> /\ r[next] = <<>>
    BY <1>1, <2>1 DEF RuntimesAreServed
  <2>3. /\ q \in States /\ q.host.instance = next /\ q.host.generation = next
        /\ q.host.loaded => q.host.waiting = <<>>
        /\ InLine(<<>>, q.threads[next], Rest(q.host, next), Startup \o loaded)
        /\ HeldOnce(q.host.results, q.threads[next], Rest(q.host, next), E, M)
        /\ \A g \in Generations : g # next => q.threads[g] = p.threads[g]
    BY <1>1, <1>3, <2>2, Starts
  <2>4. PICK c : c = [b EXCEPT ![next] = loaded]
    OBVIOUS
  <2>5. /\ c \in [Generations -> Seq(Segments)] /\ c[next] = loaded
        /\ \A g \in Generations : g # next => c[g] = b[g]
    BY <2>1, <2>4 DEF RuntimesAreServed
  <2>6. /\ q.host \in Hosts /\ q.threads \in [Generations -> Seq(Tasked)]
        /\ r \in [Generations -> Seq(Runs)]
    BY <2>3, StateFields DEF RuntimesAreServed
  <2>7. ASSUME NEW g \in Generations
        PROVE  /\ InLine(r[g], q.threads[g], Rest(q.host, g), Startup \o c[g])
               /\ g > next => q.threads[g] = <<>> /\ r[g] = <<>>
    <3>1. CASE g = next
      <4>1. PICK none : none = <<>>
        OBVIOUS
      <4>2. InLine(none, q.threads[next], Rest(q.host, next), Startup \o loaded)
        BY <2>3, <4>1
      <4>3. r[next] = none
        BY <2>2, <4>1
      <4>4. next \in Nat /\ g \in Nat
        BY <2>1 DEF Generations
      <4>5. ~(g > next)
        BY <3>1, <4>4
      <4> QED BY <2>5, <3>1, <4>2, <4>3, <4>5
    <3>2. CASE g # next
      <4>1. g # 0 /\ (g > next => g > n)
        BY <1>1, <2>1 DEF Generations
      <4>2. Rest(q.host, g) = <<>> /\ Rest(p.host, g) = <<>>
        BY <2>3, <3>2, <4>1 DEF Rest
      <4>3. /\ InLine(r[g], p.threads[g], Rest(p.host, g), Startup \o b[g])
            /\ g > n => p.threads[g] = <<>> /\ r[g] = <<>>
        BY <1>1 DEF RuntimesAreServed
      <4> QED BY <2>3, <2>5, <3>2, <4>1, <4>2, <4>3
    <3> QED BY <3>1, <3>2
  <2>8. RuntimesAreServed(q.host, q.threads, r, c, E, M)
    BY <2>1, <2>3, <2>5, <2>6, <2>7 DEF RuntimesAreServed
  <2>9. q.host.generation <= p.host.generation + 1
    BY <1>1, <2>1, <2>3
  <2> QED BY <1>1, <2>1, <2>3, <2>4, <2>8, <2>9
<1> QED BY <1>2, <1>3

\* A runtime is retired.
LEMMA RuntimesRetire ==
  ASSUME NEW p \in States, NEW r, NEW b, NEW E, NEW M,
         RuntimesAreServed(p.host, p.threads, r, b, E, M), NEW F, NEW N
  PROVE  LET q == Retired(p)
         IN  /\ q \in States /\ RuntimesAreServed(q.host, q.threads, r, b, F, N)
             /\ q.host.instance = 0 /\ q.host.generation = p.host.generation /\ q.file = p.file
<1>1. PICK q, none : q = Retired(p) /\ none = <<>>
  OBVIOUS
<1>2. none \in Seq(Loads) /\ none \in Seq(Results) /\ 0 \in 0..MaxGenerations
  BY <1>1, EvaluationBounds
<1>3. q = [p EXCEPT !.host.instance = 0, !.host.loaded = FALSE,
                    !.host.waiting = none, !.host.results = none]
  BY <1>1 DEF Retired
<1>4. PICK h : h = [p.host EXCEPT !.instance = 0, !.loaded = FALSE, !.waiting = none, !.results = none]
  OBVIOUS
<1>5. /\ h \in Hosts /\ h.instance = 0 /\ ~h.loaded /\ h.waiting = none /\ h.results = none
      /\ h.generation = p.host.generation
  BY <1>2, <1>4 DEF States, Hosts
<1>6. q = [p EXCEPT !.host = h]
  BY <1>3, <1>4 DEF States, Hosts
<1>7. q \in States /\ q.host = h /\ q.threads = p.threads /\ q.file = p.file
  BY <1>5, <1>6 DEF States
<1>8. ASSUME NEW g \in Generations PROVE InLine(r[g], p.threads[g], Rest(h, g), Startup \o b[g])
  <2>1. g # 0
    BY DEF Generations
  <2>2. Rest(h, g) = <<>>
    BY <1>5, <2>1 DEF Rest
  <2>3. InLine(r[g], p.threads[g], Rest(p.host, g), Startup \o b[g])
    BY DEF RuntimesAreServed
  <2> QED BY <2>2, <2>3, LineForgets
<1>9. RuntimesAreServed(h, p.threads, r, b, F, N)
  BY <1>1, <1>5, <1>8 DEF RuntimesAreServed
<1> QED BY <1>1, <1>5, <1>7, <1>9

\* The bundle of a runtime arrives.
LEMMA RuntimesBundle ==
  ASSUME NEW p \in States, NEW r, NEW b, NEW E, NEW M,
         RuntimesAreServed(p.host, p.threads, r, b, E, M), p.host.instance # 0, ~p.host.loaded
  PROVE  LET q == BundleLoaded(p)
         IN  /\ q \in States /\ RuntimesAreServed(q.host, q.threads, r, b, E, M)
             /\ q.host.generation = p.host.generation
<1>1. PICK q, g, none, D : /\ q = BundleLoaded(p) /\ g = p.host.instance /\ none = <<>>
                           /\ D = Startup \o b[g]
  OBVIOUS
<1>2. g \in Generations /\ g = p.host.generation
  BY <1>1, StateFields DEF RuntimesAreServed, Generations
<1>3. /\ r[g] \in Seq(Runs) /\ D \in Seq(Segments) /\ Rest(p.host, g) \in Seq(Loads)
      /\ InLine(r[g], p.threads[g], Rest(p.host, g), D)
      /\ HeldOnce(p.host.results, p.threads[g], Rest(p.host, g), E, M)
  BY <1>1, <1>2, RuntimeIs
<1>4. Rest(p.host, g) = Again(Startup) \o p.host.waiting
  BY <1>1 DEF Rest
<1>5. Rest(p.host, g) \o none = Rest(p.host, g) /\ none \in Seq(Loads)
  BY <1>1, <1>3, ConcatEmptySeq
<1>6. Serves(p, r[g], (Again(Startup) \o p.host.waiting) \o none, D, E, M)
  BY <1>1, <1>2, <1>3, <1>4, <1>5 DEF Serves
<1>7. /\ Serves(q, r[g], none, D, E, M) /\ q.host.loaded /\ q.host.waiting = <<>>
      /\ q.host.instance = g /\ q.host.generation = p.host.generation
      /\ \A x \in Generations : x # g => q.threads[x] = p.threads[x]
  BY <1>1, <1>3, <1>5, <1>6, BundleLoads
<1>8. q \in States /\ q.host \in Hosts /\ q.threads \in [Generations -> Seq(Tasked)]
  BY <1>7, StateFields DEF Serves
<1>9. /\ InLine(r[g], q.threads[g], none, D) /\ HeldOnce(q.host.results, q.threads[g], none, E, M)
  BY <1>7 DEF Serves
<1>10. \A x \in Generations : Rest(q.host, x) = none /\ (x # g => Rest(p.host, x) = none)
  BY <1>1, <1>7 DEF Rest
<1>11. ASSUME NEW x \in Generations
       PROVE  /\ InLine(r[x], q.threads[x], Rest(q.host, x), Startup \o b[x])
              /\ x > g => q.threads[x] = <<>> /\ r[x] = <<>>
  <2>1. CASE x = g
    BY <1>1, <1>2, <1>9, <1>10, <2>1 DEF Generations
  <2>2. CASE x # g
    BY <1>2, <1>7, <1>10, <2>2 DEF RuntimesAreServed
  <2> QED BY <2>1, <2>2
<1>12. RuntimesAreServed(q.host, q.threads, r, b, E, M)
  <2>1. r \in [Generations -> Seq(Runs)] /\ b \in [Generations -> Seq(Segments)]
    BY DEF RuntimesAreServed
  <2>2. g # 0
    BY <1>1
  <2> QED BY <1>2, <1>7, <1>8, <1>9, <1>10, <1>11, <2>1, <2>2 DEF RuntimesAreServed
<1> QED BY <1>1, <1>7, <1>8, <1>12

\* The current runtime takes something of its own: what it ran and its line are another.
LEMMA RuntimesGoOn ==
  ASSUME NEW p \in States, NEW q \in States, NEW r, NEW b, NEW E, NEW M, NEW F, NEW N,
         RuntimesAreServed(p.host, p.threads, r, b, E, M), p.host.instance # 0,
         q.host.instance = p.host.instance, q.host.generation = p.host.generation,
         q.host.loaded => q.host.waiting = <<>>,
         \A g \in Generations : g # p.host.instance => q.threads[g] = p.threads[g],
         NEW i, i = p.host.instance,
         InLine(r[i], q.threads[i], Rest(q.host, i), Startup \o b[i]),
         HeldOnce(q.host.results, q.threads[i], Rest(q.host, i), F, N)
  PROVE  RuntimesAreServed(q.host, q.threads, r, b, F, N)
<1>1. i = p.host.instance
  OBVIOUS
<1>2. i \in Generations /\ i = p.host.generation /\ i # 0
  BY <1>1, StateFields DEF RuntimesAreServed, Generations
<1>3. q.host \in Hosts /\ q.threads \in [Generations -> Seq(Tasked)]
  BY StateFields
<1>4. ASSUME NEW x \in Generations
      PROVE  /\ InLine(r[x], q.threads[x], Rest(q.host, x), Startup \o b[x])
             /\ x > q.host.generation => q.threads[x] = <<>> /\ r[x] = <<>>
  <2>1. CASE x = i
    BY <1>1, <1>2, <2>1 DEF Generations
  <2>2. CASE x # i
    <3>1. Rest(q.host, x) = <<>> /\ Rest(p.host, x) = <<>>
      BY <1>1, <2>2 DEF Rest
    <3> QED BY <1>1, <1>2, <2>2, <3>1 DEF RuntimesAreServed
  <2> QED BY <2>1, <2>2
<1> QED BY <1>1, <1>2, <1>3, <1>4 DEF RuntimesAreServed

TakesCode(p, id) ==
  [p EXCEPT !.threads[p.host.instance] = Append(@, [path |-> Code, id |-> id])]

\* The game asks the current runtime for code,
LEMMA RuntimesTakeCode ==
  ASSUME NEW p \in States, NEW r, NEW b, NEW E, NEW M,
         RuntimesAreServed(p.host, p.threads, r, b, E, M), p.host.instance # 0,
         NEW id \in Ids, id \notin E, id \notin M
  PROVE  LET q == TakesCode(p, id)
         IN  q \in States /\ RuntimesAreServed(q.host, q.threads, r, b, E \cup {id}, M)
             /\ q.host.generation = p.host.generation
<1>1. PICK g, x, q, D : /\ g = p.host.instance /\ x = [path |-> Code, id |-> id]
                        /\ q = TakesCode(p, id) /\ D = Startup \o b[g]
  OBVIOUS
<1>2. g \in Generations /\ x \in Tasked /\ x.path = Code /\ x.id = id
  <2>1. p.host.instance \in 0..MaxGenerations
    BY StateFields
  <2>2. g \in Generations
    BY <1>1, <2>1 DEF Generations
  <2> QED BY <1>1, <2>2 DEF Tasked
<1>3. /\ q \in States /\ Beside(p, q) /\ q.host = p.host
      /\ q.threads[g] = Append(p.threads[g], x)
  BY <1>1, <1>2, StateTakesTask DEF TakesCode
<1>4. /\ r[g] \in Seq(Runs) /\ p.threads[g] \in Seq(Tasked) /\ Rest(p.host, g) \in Seq(Loads)
      /\ D \in Seq(Segments) /\ InLine(r[g], p.threads[g], Rest(p.host, g), D)
      /\ HeldOnce(p.host.results, p.threads[g], Rest(p.host, g), E, M)
  BY <1>1, <1>2, RuntimeIs
<1>5. InLine(r[g], q.threads[g], Rest(p.host, g), D)
  BY <1>2, <1>3, <1>4, LineTakesCode
<1>6. HeldOnce(p.host.results, q.threads[g], Rest(p.host, g), E \cup {id}, M)
  <2>1. PICK T, W, res : T = p.threads[g] /\ W = Rest(p.host, g) /\ res = p.host.results
    OBVIOUS
  <2>2. T \in Seq(Tasked) /\ W \in Seq(Loads) /\ HeldOnce(res, T, W, E, M)
    BY <1>4, <2>1
  <2>3. \A y \in Tasked : y.id = id => HeldOnce(res, Append(T, y), W, E \cup {id}, M)
    BY <2>2, OnceAsked
  <2>4. HeldOnce(res, Append(T, x), W, E \cup {id}, M)
    BY <1>2, <2>3
  <2> QED BY <1>3, <2>1, <2>4
<1>7. q.host.loaded => q.host.waiting = <<>>
  BY <1>3 DEF RuntimesAreServed
<1>8. /\ q.host.instance = p.host.instance /\ q.host.generation = p.host.generation
      /\ \A y \in Generations : y # p.host.instance => q.threads[y] = p.threads[y]
  BY <1>3 DEF Beside
<1>9. /\ InLine(r[g], q.threads[g], Rest(q.host, g), Startup \o b[g])
      /\ HeldOnce(q.host.results, q.threads[g], Rest(q.host, g), E \cup {id}, M)
  BY <1>1, <1>3, <1>5, <1>6
<1>10. RuntimesAreServed(q.host, q.threads, r, b, E \cup {id}, M)
  <2>1. q \in States /\ g = p.host.instance /\ p.host.instance # 0
    BY <1>1, <1>3
  <2> QED BY <2>1, <1>7, <1>8, <1>9, RuntimesGoOn
<1> QED BY <1>1, <1>3, <1>10

\* or for a segment.
LEMMA RuntimesTakeSegment ==
  ASSUME NEW p \in States, NEW r, NEW b, NEW E, NEW M,
         RuntimesAreServed(p.host, p.threads, r, b, E, M), p.host.instance # 0,
         NEW id \in Ids, id \notin E, id \notin M, NEW path \in Segments
  PROVE  LET q == InstanceLoads(p, [path |-> path, id |-> id])
         IN  q \in States /\ RuntimesAreServed(q.host, q.threads, r, b, E \cup {id}, M)
             /\ q.host.generation = p.host.generation
<1>1. PICK g, x, q, D : /\ g = p.host.instance /\ x = [path |-> path, id |-> id]
                        /\ q = InstanceLoads(p, x) /\ D = Startup \o b[g]
  OBVIOUS
<1>2. g \in Generations /\ x \in Loads /\ x.id = id /\ x.id # 0
  BY <1>1, StateFields DEF RuntimesAreServed, Generations, Loads, Ids
<1>3. PICK W, V : W = Rest(p.host, g) /\ V = Append(W, x)
  OBVIOUS
<1>4. /\ r[g] \in Seq(Runs) /\ p.threads[g] \in Seq(Tasked) /\ W \in Seq(Loads)
      /\ D \in Seq(Segments) /\ InLine(r[g], p.threads[g], W, D)
      /\ HeldOnce(p.host.results, p.threads[g], W, E, M)
  BY <1>1, <1>2, <1>3, RuntimeIs
<1>5. V \in Seq(Loads) /\ V # <<>> /\ InLine(r[g], p.threads[g], V, D)
  <2>1. V \in Seq(Loads) /\ V # <<>>
    BY <1>2, <1>3, <1>4
  <2>2. InLine(r[g], p.threads[g], V, D)
    BY <1>2, <1>3, <1>4, LineWaits
  <2> QED BY <2>1, <2>2
<1>6. HeldOnce(p.host.results, p.threads[g], V, E \cup {id}, M)
  <2>1. PICK T, res : T = p.threads[g] /\ res = p.host.results
    OBVIOUS
  <2>2. T \in Seq(Tasked) /\ HeldOnce(res, T, W, E, M)
    BY <1>4, <2>1
  <2>3. \A y \in Loads : y.id = id => HeldOnce(res, T, Append(W, y), E \cup {id}, M)
    BY <1>4, <2>2, OnceAsked
  <2>4. HeldOnce(res, T, Append(W, x), E \cup {id}, M)
    BY <1>2, <2>3
  <2> QED BY <1>3, <2>1, <2>4
<1>7. CASE p.host.loaded
  <2>1. q = EvaluateSegment(p, x)
    BY <1>1, <1>7 DEF InstanceLoads
  <2>2. W = <<>>
    BY <1>3, <1>7 DEF Rest
  <2>3. V[1] = x /\ Tail(V) = <<>>
    BY <1>2, <1>3, <1>4, <2>2
  <2>4. Serves(p, r[g], V, D, E \cup {id}, M)
    BY <1>1, <1>2, <1>5, <1>6 DEF Serves
  <2>5. Serves(q, r[g], <<>>, D, E \cup {id}, M) /\ Beside(p, q)
    BY <1>4, <1>5, <2>1, <2>3, <2>4, HandOne
  <2>6. Rest(q.host, g) = <<>> /\ q.host.instance = g /\ q.host.waiting = <<>>
    BY <1>1, <1>7, <2>5 DEF Beside, Rest, RuntimesAreServed
  <2>7. q \in States /\ InLine(r[g], q.threads[g], Rest(q.host, g), D)
        /\ HeldOnce(q.host.results, q.threads[g], Rest(q.host, g), E \cup {id}, M)
    BY <2>5, <2>6 DEF Serves
  <2>8. /\ q.host.generation = p.host.generation
        /\ \A y \in Generations : y # p.host.instance => q.threads[y] = p.threads[y]
    BY <2>5 DEF Beside
  <2>9. /\ InLine(r[g], q.threads[g], Rest(q.host, g), Startup \o b[g])
        /\ q.host.instance = p.host.instance /\ g = p.host.instance
        /\ q.host.loaded => q.host.waiting = <<>>
    BY <1>1, <2>6, <2>7
  <2>10. RuntimesAreServed(q.host, q.threads, r, b, E \cup {id}, M)
    BY <2>7, <2>8, <2>9, RuntimesGoOn
  <2> QED BY <1>1, <2>7, <2>8, <2>10
<1>8. CASE ~p.host.loaded
  <2>1. PICK w : w = Append(p.host.waiting, x)
    OBVIOUS
  <2>2. p.host.waiting \in Seq(Loads) /\ w \in Seq(Loads)
    BY <1>2, <2>1, StateFields
  <2>3. q = [p EXCEPT !.host.waiting = w]
    BY <1>1, <1>8, <2>1 DEF InstanceLoads, States, Hosts
  <2>4. /\ q \in States /\ q.host.instance = g /\ q.host.generation = p.host.generation
        /\ ~q.host.loaded /\ q.host.waiting = w /\ q.host.results = p.host.results
        /\ q.threads = p.threads
    BY <1>1, <1>8, <2>2, <2>3 DEF States, Hosts
  <2>5. Rest(q.host, g) = V
    <3>1. W = Again(Startup) \o p.host.waiting /\ Rest(q.host, g) = Again(Startup) \o w
      BY <1>1, <1>3, <1>8, <2>4 DEF Rest
    <3>2. Again(Startup) \in Seq(Loads)
      BY SegmentsAssumption, AgainOf
    <3>3. PICK a : a = Again(Startup)
      OBVIOUS
    <3>4. a \o Append(p.host.waiting, x) = Append(a \o p.host.waiting, x)
      BY <1>2, <2>2, <3>2, <3>3, MoreBehind
    <3> QED BY <1>3, <2>1, <3>1, <3>3, <3>4
  <2>6. /\ InLine(r[g], q.threads[g], Rest(q.host, g), Startup \o b[g])
        /\ HeldOnce(q.host.results, q.threads[g], Rest(q.host, g), E \cup {id}, M)
        /\ q.host.instance = p.host.instance /\ g = p.host.instance
    BY <1>1, <1>5, <1>6, <2>4, <2>5
  <2>7. \A y \in Generations : y # p.host.instance => q.threads[y] = p.threads[y]
    BY <2>4
  <2>8. RuntimesAreServed(q.host, q.threads, r, b, E \cup {id}, M)
    BY <2>4, <2>6, <2>7, RuntimesGoOn
  <2> QED BY <1>1, <2>4, <2>8
<1> QED BY <1>7, <1>8

\* What JavaScript posts.
IsFirstIn(q, k) == \A j \in 1..(k - 1) : (q[j].path = Code) # (q[k].path = Code)
Without(t, g, k) == [t EXCEPT ![g] = RemoveAt(@, k)]
Answers(h, g, x, ok) == IF g # h.instance THEN h.results ELSE Append(h.results, [id |-> x.id, ok |-> ok])

Answered(h, g, x, ok) ==
  IF x.id = 0 THEN h ELSE [h EXCEPT !.results = Answers(h, g, x, ok)]
Ran(r, g, x) ==
  IF x.path = Code THEN r ELSE [r EXCEPT ![g] = Append(@, [path |-> x.path, own |-> x.id = 0])]

\* The thread of a runtime runs a task that nothing like it is before.
LEMMA RuntimesRun ==
  ASSUME NEW h, NEW t, NEW r, NEW b, NEW E, NEW M, RuntimesAreServed(h, t, r, b, E, M),
         NEW g \in Generations, NEW k \in 1..Len(t[g]), NEW ok \in BOOLEAN,
         IsFirstIn(t[g], k), NEW x, x = t[g][k],
         NEW f, f = Answered(h, g, x, ok), NEW u, u = Without(t, g, k), NEW s, s = Ran(r, g, x)
  PROVE  RuntimesAreServed(f, u, s, b, E, M)
<1>1. PICK T, R, W, D, i : T = t[g] /\ R = r[g] /\ W = Rest(h, g) /\ D = Startup \o b[g] /\ i = h.instance
  OBVIOUS
<1>2. /\ h \in Hosts /\ T \in Seq(Tasked) /\ R \in Seq(Runs) /\ D \in Seq(Segments) /\ W \in Seq(Loads)
      /\ InLine(R, T, W, D) /\ g # 0 /\ k \in 1..Len(T)
      /\ g = i => HeldOnce(h.results, T, W, E, M)
  BY <1>1, RuntimeIs
<1>3. x = T[k] /\ x \in Tasked
  BY <1>1, <1>2
<1>4. PICK Q : Q = RemoveAt(T, k)
  OBVIOUS
<1>5. Q \in Seq(Tasked)
  BY <1>2, <1>4, RemovedAt
<1>6. u = [t EXCEPT ![g] = RemoveAt(@, k)]
  BY DEF Without
<1>7. t \in [Generations -> Seq(Tasked)] /\ r \in [Generations -> Seq(Runs)]
  BY DEF RuntimesAreServed
<1>8. u \in [Generations -> Seq(Tasked)] /\ u[g] = Q /\ \A y \in Generations : y # g => u[y] = t[y]
  BY <1>1, <1>4, <1>5, <1>6, <1>7
<1>9. s = IF x.path = Code THEN r
          ELSE [r EXCEPT ![g] = Append(@, [path |-> x.path, own |-> x.id = 0])]
  BY DEF Ran
<1>10. PICK m : m = [path |-> x.path, own |-> x.id = 0]
  OBVIOUS
<1>11. x.path # Code => m \in Runs
  BY <1>3, <1>10 DEF Tasked, Runs
<1>12. PICK P : P = IF x.path = Code THEN R ELSE Append(R, m)
  OBVIOUS
<1>13. P \in Seq(Runs)
  BY <1>2, <1>11, <1>12
<1>14. s \in [Generations -> Seq(Runs)] /\ s[g] = P /\ \A y \in Generations : y # g => s[y] = r[y]
  <2>1. CASE x.path = Code
    BY <1>1, <1>7, <1>9, <1>12, <2>1
  <2>2. CASE x.path # Code
    BY <1>1, <1>7, <1>9, <1>10, <1>12, <1>13, <2>2
  <2> QED BY <2>1, <2>2
<1>15. InLine(P, Q, W, D)
  <2>1. CASE x.path = Code
    BY <1>2, <1>4, <1>12, <2>1, LineEvaluates
  <2>2. CASE x.path # Code
    <3>1. T[k].path # Code /\ \A j \in 1..(k - 1) : T[j].path = Code
      BY <1>1, <1>3, <2>2 DEF IsFirstIn
    <3>2. m.path = T[k].path /\ m.own = (T[k].id = 0)
      BY <1>3, <1>10
    <3>3. InLine(Append(R, m), RemoveAt(T, k), W, D)
      BY <1>2, <3>1, <3>2, LineRuns
    <3> QED BY <1>4, <1>12, <2>2, <3>3
  <2> QED BY <2>1, <2>2
<1>16. PICK res, n : /\ n = Answers(h, g, x, ok)
                     /\ res = IF x.id = 0 THEN h.results ELSE n
  OBVIOUS
<1>17. f = IF x.id = 0 THEN h ELSE [h EXCEPT !.results = Answers(h, g, x, ok)]
  BY DEF Answered
<1>18. h.results \in Seq(Results) /\ (x.id # 0 => [id |-> x.id, ok |-> ok] \in Results)
  BY <1>2, <1>3 DEF Hosts, Tasked, Results
<1>19. res \in Seq(Results)
  BY <1>16, <1>18 DEF Answers
<1>20. /\ f \in Hosts /\ f.results = res /\ f.instance = i /\ f.generation = h.generation
       /\ f.loaded = h.loaded /\ f.waiting = h.waiting
  <2>1. CASE x.id = 0
    BY <1>1, <1>2, <1>16, <1>17, <2>1
  <2>2. CASE x.id # 0
    <3>1. f = [h EXCEPT !.results = res]
      BY <1>16, <1>17, <2>2
    <3> QED BY <1>1, <1>2, <1>19, <3>1 DEF Hosts
  <2> QED BY <2>1, <2>2
<1>21. g = i => HeldOnce(res, Q, W, E, M)
  <2> SUFFICES ASSUME g = i PROVE HeldOnce(res, Q, W, E, M)
    OBVIOUS
  <2>1. PICK old : old = h.results
    OBVIOUS
  <2>2. old \in Seq(Results) /\ HeldOnce(old, T, W, E, M)
    BY <1>2, <1>18, <2>1
  <2>3. /\ HeldOnce(old, RemoveAt(T, k), W, E, M)
        /\ \A y \in Results : y.id = T[k].id => HeldOnce(Append(old, y), RemoveAt(T, k), W, E, M)
    BY <1>2, <2>2, OnceRun
  <2>4. CASE x.id = 0
    BY <1>4, <1>16, <2>1, <2>3, <2>4
  <2>5. CASE x.id # 0
    <3>1. PICK y \in Results : y = [id |-> x.id, ok |-> ok]
      BY <1>18, <2>5
    <3>2. res = Append(old, y) /\ y.id = T[k].id
      BY <1>1, <1>3, <1>16, <2>1, <2>5, <3>1 DEF Answers
    <3> QED BY <1>4, <2>3, <3>1, <3>2
  <2> QED BY <2>4, <2>5
<1>22. \A y : Rest(f, y) = Rest(h, y)
  BY <1>1, <1>20 DEF Rest
<1>23. /\ i \in {0, h.generation}
       /\ i = 0 => h.results = <<>> /\ ~h.loaded
       /\ i = 0 \/ h.loaded => h.waiting = <<>>
       /\ b \in [Generations -> Seq(Segments)]
  BY <1>1 DEF RuntimesAreServed
<1>24. i = 0 => res = <<>>
  BY <1>1, <1>2, <1>16, <1>23 DEF Answers
<1>25. ASSUME NEW y \in Generations
       PROVE  /\ InLine(s[y], u[y], Rest(f, y), Startup \o b[y])
              /\ y > f.generation => u[y] = <<>> /\ s[y] = <<>>
  <2>1. CASE y = g
    <3>1. y > h.generation => T = <<>>
      BY <1>1, <2>1 DEF RuntimesAreServed
    <3>2. ~(y > h.generation)
      BY <1>2, <3>1
    <3> QED BY <1>1, <1>8, <1>14, <1>15, <1>20, <1>22, <2>1, <3>2
  <2>2. CASE y # g
    <3>1. /\ InLine(r[y], t[y], Rest(h, y), Startup \o b[y])
          /\ y > h.generation => t[y] = <<>> /\ r[y] = <<>>
      BY DEF RuntimesAreServed
    <3> QED BY <1>8, <1>14, <1>20, <1>22, <2>2, <3>1
  <2> QED BY <2>1, <2>2
<1>26. i # 0 => HeldOnce(res, u[i], Rest(f, i), E, M)
  <2> SUFFICES ASSUME i # 0 PROVE HeldOnce(res, u[i], Rest(f, i), E, M)
    OBVIOUS
  <2>1. CASE i = g
    BY <1>1, <1>8, <1>21, <1>22, <2>1
  <2>2. CASE i # g
    <3>1. i \in Generations
      BY <1>1, <1>2 DEF Hosts, Generations
    <3>2. res = h.results
      BY <1>1, <1>16, <2>2 DEF Answers
    <3>3. HeldOnce(h.results, t[i], Rest(h, i), E, M)
      BY <1>1 DEF RuntimesAreServed
    <3> QED BY <1>8, <1>22, <2>2, <3>1, <3>2, <3>3
  <2> QED BY <2>1, <2>2
<1>27. RuntimesAreServed(f, u, s, b, E, M)
  BY <1>8, <1>14, <1>20, <1>23, <1>24, <1>25, <1>26 DEF RuntimesAreServed
<1> QED BY <1>27

\* A result is delivered.
LEMMA RuntimesDeliver ==
  ASSUME NEW h, NEW t, NEW r, NEW b, NEW E, NEW M, RuntimesAreServed(h, t, r, b, E, M),
         h.results # <<>>
  PROVE  /\ Head(h.results) \in Results /\ Head(h.results).id \in E /\ Head(h.results).id \notin M
         /\ RuntimesAreServed([h EXCEPT !.results = Tail(@)], t, r, b, E \ {Head(h.results).id}, M)
<1>1. PICK i, res, T, W, f : /\ i = h.instance /\ res = h.results /\ T = t[i] /\ W = Rest(h, i)
                             /\ f = [h EXCEPT !.results = Tail(@)]
  OBVIOUS
<1>2. h \in Hosts /\ i # 0 /\ HeldOnce(res, T, W, E, M) /\ res # <<>>
  BY <1>1 DEF RuntimesAreServed
<1>3. res \in Seq(Results)
  BY <1>1, <1>2 DEF Hosts
<1>4. Head(res) = res[1] /\ res[1] \in Results /\ Tail(res) \in Seq(Results)
  BY <1>2, <1>3
<1>5. res[1].id \in E /\ res[1].id \notin M /\ HeldOnce(Tail(res), T, W, E \ {res[1].id}, M)
  BY <1>2, <1>3, OnceDelivered
<1>6. f = [h EXCEPT !.results = Tail(res)]
  BY <1>1
<1>7. /\ f \in Hosts /\ f.results = Tail(res) /\ f.instance = i /\ f.generation = h.generation
      /\ f.loaded = h.loaded /\ f.waiting = h.waiting
  BY <1>1, <1>2, <1>4, <1>6 DEF Hosts
<1>8. \A y : Rest(f, y) = Rest(h, y)
  BY <1>1, <1>7 DEF Rest
<1>9. HeldOnce(f.results, t[f.instance], Rest(f, f.instance), E \ {res[1].id}, M)
  BY <1>1, <1>5, <1>7, <1>8
<1>10. RuntimesAreServed(f, t, r, b, E \ {res[1].id}, M)
  BY <1>1, <1>2, <1>7, <1>8, <1>9 DEF RuntimesAreServed
<1> QED BY <1>1, <1>4, <1>5, <1>10

-----------------------------------------------------------------------------
(* The evaluations: a what each asked for, e how each ended, v those that have not, l the  *)
(* segments that loaded and m the messages that will end some.                             *)
EvaluationsAre(a, e, v, l, m) ==
  /\ a \in Seq(Segments \cup {Code}) /\ Len(a) <= MaxEvaluations
  /\ e \in [Ids -> Outcomes] /\ \A id \in Ids : id > Len(a) => e[id] = "none"
  /\ v = {id \in 1..Len(a) : e[id] = "none"}
  /\ l \in Seq(Segments) /\ IsInjective(l)
  /\ ToSet(l) = {a[id] : id \in {i \in 1..Len(a) : e[i] = "done"}} \ {Code}
  /\ m \in Seq(Ids) /\ \A i \in 1..Len(m) : m[i] <= Len(a)

\* The evaluations can be put in their order.
LEMMA InTheirOrder ==
  ASSUME NEW N \in Nat, NEW S \in SUBSET (1..N)
  PROVE  /\ Cardinality(S) \in Nat
         /\ \E q \in [1..Cardinality(S) -> S] : \A j, k \in DOMAIN q : j < k => q[j] < q[k]
<1> DEFINE U(n) == S \cap (1..n)
           Climbs(q) == \A j, k \in DOMAIN q : j < k => q[j] < q[k]
           G(n) == \E q \in [1..Cardinality(U(n)) -> U(n)] : Climbs(q)
<1>1. ASSUME NEW n \in 0..N PROVE IsFiniteSet(U(n)) /\ Cardinality(U(n)) \in Nat
  <2>1. U(n) \in SUBSET (1..n) /\ IsFiniteSet(1..n)
    BY FS_Interval
  <2>2. IsFiniteSet(U(n))
    BY <2>1, FS_Subset
  <2> QED BY <2>2, FS_CardinalityType
<1>2. G(0)
  <2>1. U(0) = {}
    OBVIOUS
  <2>2. Cardinality(U(0)) = 0
    BY <2>1, FS_EmptySet
  <2>3. PICK q : q = <<>>
    OBVIOUS
  <2>4. q \in [1..0 -> {}] /\ DOMAIN q = {}
    BY <2>3
  <2>5. Climbs(q)
    BY <2>4
  <2> QED BY <2>1, <2>2, <2>4, <2>5
<1>3. ASSUME NEW n \in 1..N, G(n - 1) PROVE G(n)
  <2>1. n - 1 \in 0..N /\ n \in Nat /\ n \notin U(n - 1)
    OBVIOUS
  <2>2. PICK V, c : V = U(n - 1) /\ c = Cardinality(V)
    OBVIOUS
  <2>3. c \in Nat /\ IsFiniteSet(V) /\ V \subseteq 1..(n - 1)
    BY <1>1, <2>1, <2>2
  <2>4. PICK q \in [1..c -> V] : Climbs(q)
    BY <1>3, <2>2
  <2>5. CASE n \in S
    <3>1. U(n) = V \cup {n}
      BY <2>1, <2>2, <2>5
    <3>2. Cardinality(U(n)) = c + 1
      <4>1. n \notin V
        BY <2>1, <2>2
      <4>2. Cardinality(V \cup {n}) = c + 1
        BY <2>2, <2>3, <4>1, FS_AddElement
      <4> QED BY <3>1, <4>2
    <3>3. PICK r : r = [i \in 1..(c + 1) |-> IF i = c + 1 THEN n ELSE q[i]]
      OBVIOUS
    <3>4. \A i \in 1..(c + 1) : i \in 1..c \/ i = c + 1
      BY <2>3
    <3>5. r \in [1..(c + 1) -> U(n)]
      BY <2>3, <3>1, <3>3, <3>4
    <3>6. ASSUME NEW j \in 1..(c + 1), NEW k \in 1..(c + 1), j < k PROVE r[j] < r[k]
      <4>1. j \in 1..c /\ r[j] = q[j] /\ q[j] \in V
        BY <2>3, <3>3, <3>4, <3>6
      <4>2. CASE k = c + 1
        <5>1. r[k] = n /\ q[j] \in 1..(n - 1)
          BY <2>3, <3>3, <4>1, <4>2
        <5> QED BY <2>1, <4>1, <5>1
      <4>3. CASE k # c + 1
        <5>1. k \in 1..c /\ r[k] = q[k]
          BY <2>3, <3>3, <3>4, <4>3
        <5> QED BY <2>4, <3>6, <4>1, <5>1
      <4> QED BY <4>2, <4>3
    <3>7. Climbs(r)
      BY <3>5, <3>6
    <3> QED BY <3>2, <3>5, <3>7
  <2>6. CASE n \notin S
    <3>1. U(n) = V
      BY <2>1, <2>2, <2>6
    <3> QED BY <2>2, <2>4, <3>1
  <2> QED BY <2>5, <2>6
<1> HIDE DEF G
<1>4. \A n \in 0..N : G(n)
  <2> DEFINE T == {n \in 0..N : ~G(n)}
  <2> SUFFICES ASSUME T # {} PROVE FALSE
    OBVIOUS
  <2>1. T \in SUBSET Nat
    OBVIOUS
  <2>2. PICK n \in T : \A m \in T : n <= m
    BY <2>1, LeastNatural
  <2>3. n \in 1..N
    BY <1>2
  <2>4. n - 1 \in 0..N /\ ~(n <= n - 1)
    BY <2>3
  <2>5. n - 1 \notin T
    BY <2>2, <2>4
  <2>6. G(n - 1)
    BY <2>4, <2>5
  <2> QED BY <1>3, <2>3, <2>6
<1>5. U(N) = S
  OBVIOUS
<1>6. N \in 0..N
  OBVIOUS
<1>7. G(N) /\ Cardinality(U(N)) \in Nat
  BY <1>1, <1>4, <1>6
<1> HIDE DEF U
<1>8. \E q \in [1..Cardinality(S) -> S] : Climbs(q)
  BY <1>5, <1>7 DEF G
<1> QED BY <1>5, <1>7, <1>8

\* Whoever a runtime that is retired has not answered.
LEMMA UnansweredIs ==
  ASSUME NEW N \in Nat, evaluations \in SUBSET (1..N)
  PROVE  Unanswered \in Seq(evaluations)
<1>1. /\ Cardinality(evaluations) \in Nat
      /\ \E q \in [1..Cardinality(evaluations) -> evaluations] :
           \A j, k \in DOMAIN q : j < k => q[j] < q[k]
  BY InTheirOrder
<1>2. Unanswered \in [1..Cardinality(evaluations) -> evaluations]
  BY <1>1 DEF Unanswered
<1> QED BY <1>1, <1>2, SeqDef

\* One more evaluation.
LEMMA KeptAsked ==
  ASSUME NEW a, NEW e, NEW v, NEW l, NEW m, EvaluationsAre(a, e, v, l, m), Len(a) < MaxEvaluations,
         NEW x \in Segments \cup {Code}, NEW id, id = Len(a) + 1
  PROVE  /\ id \in Ids /\ id \notin v /\ id \notin ToSet(m)
         /\ EvaluationsAre(Append(a, x), e, v \cup {id}, l, m)
         /\ EvaluationsAre(Append(a, x), e, v \cup {id}, l, Append(m, id))
<1>1. /\ a \in Seq(Segments \cup {Code}) /\ Len(a) \in Nat /\ id \in Ids /\ id \notin 1..Len(a)
      /\ MaxEvaluations \in Nat
  BY EvaluationBounds DEF EvaluationsAre, Ids
<1>2. m \in Seq(Ids) /\ \A i \in 1..Len(m) : m[i] <= Len(a)
  BY DEF EvaluationsAre
<1>3. id \notin ToSet(m)
  <2>1. ToSet(m) = {m[i] : i \in 1..Len(m)}
    BY <1>2 DEF ToSet
  <2> QED BY <1>1, <1>2, <2>1
<1>4. id \notin v
  BY <1>1 DEF EvaluationsAre
<1>5. PICK b : b = Append(a, x)
  OBVIOUS
<1>6. /\ b \in Seq(Segments \cup {Code}) /\ Len(b) = id /\ \A i \in 1..Len(a) : b[i] = a[i]
  BY <1>1, <1>5
<1>7. e[id] = "none" /\ e \in [Ids -> Outcomes] /\ \A n \in Ids : n > id => e[n] = "none"
  <2>1. \A n \in Ids : n > Len(a) => e[n] = "none"
    BY DEF EvaluationsAre
  <2>2. \A n \in Ids : n > id => n > Len(a)
    BY <1>1 DEF Ids
  <2>3. id > Len(a)
    BY <1>1
  <2> QED BY <1>1, <2>1, <2>2, <2>3 DEF EvaluationsAre
<1>8. 1..id = (1..Len(a)) \cup {id} /\ id <= MaxEvaluations
  BY <1>1
<1>9. v \cup {id} = {n \in 1..Len(b) : e[n] = "none"}
  BY <1>6, <1>7, <1>8 DEF EvaluationsAre
<1>10. {b[n] : n \in {i \in 1..Len(b) : e[i] = "done"}} = {a[n] : n \in {i \in 1..Len(a) : e[i] = "done"}}
  BY <1>6, <1>7, <1>8
<1>11. /\ l \in Seq(Segments) /\ IsInjective(l)
       /\ ToSet(l) = {b[n] : n \in {i \in 1..Len(b) : e[i] = "done"}} \ {Code}
  BY <1>10 DEF EvaluationsAre
<1>12. \A i \in 1..Len(m) : m[i] <= Len(b)
  BY <1>1, <1>2, <1>6 DEF Ids
<1>13. PICK k : k = Append(m, id)
  OBVIOUS
<1>14. k \in Seq(Ids) /\ \A i \in 1..Len(k) : k[i] <= Len(b)
  <2>1. /\ k \in Seq(Ids) /\ Len(k) = Len(m) + 1 /\ k[Len(m) + 1] = id /\ Len(m) \in Nat
        /\ \A i \in 1..Len(m) : k[i] = m[i]
    BY <1>1, <1>2, <1>13
  <2>2. \A i \in 1..Len(k) : i \in 1..Len(m) \/ i = Len(m) + 1
    BY <2>1
  <2>3. id <= Len(b)
    BY <1>1, <1>6
  <2> QED BY <1>12, <2>1, <2>2, <2>3
<1>15. Len(b) <= MaxEvaluations /\ \A n \in Ids : n > Len(b) => e[n] = "none"
  BY <1>6, <1>7, <1>8
<1>16. EvaluationsAre(b, e, v \cup {id}, l, m)
  BY <1>2, <1>6, <1>7, <1>9, <1>11, <1>12, <1>15 DEF EvaluationsAre
<1>17. EvaluationsAre(b, e, v \cup {id}, l, k)
  BY <1>6, <1>7, <1>9, <1>11, <1>14, <1>15 DEF EvaluationsAre
<1> QED BY <1>1, <1>3, <1>4, <1>5, <1>13, <1>16, <1>17

\* Messages that end what has not ended.
LEMMA KeptRetired ==
  ASSUME NEW a, NEW e, NEW v, NEW l, NEW m, EvaluationsAre(a, e, v, l, m), NEW q \in Seq(v)
  PROVE  EvaluationsAre(a, e, v, l, m \o q)
<1>1. m \in Seq(Ids) /\ Len(a) \in Nat /\ v \subseteq 1..Len(a) /\ 1..Len(a) \subseteq Ids
  BY EvaluationBounds DEF EvaluationsAre, Ids
<1>2. q \in Seq(Ids) /\ \A i \in 1..Len(q) : q[i] <= Len(a)
  <2>1. Len(q) \in Nat /\ q \in [1..Len(q) -> v]
    OBVIOUS
  <2>2. \A i \in 1..Len(q) : q[i] \in Ids /\ q[i] \in 1..Len(a)
    BY <1>1, <2>1
  <2>3. q \in [1..Len(q) -> Ids]
    BY <2>1, <2>2
  <2>4. q \in Seq(Ids)
    BY <2>1, <2>3, SeqDef
  <2>5. \A n \in 1..Len(a) : n <= Len(a)
    BY <1>1
  <2> QED BY <2>2, <2>4, <2>5
<1>3. PICK k : k = m \o q
  OBVIOUS
<1>4. k \in Seq(Ids) /\ Len(k) = Len(m) + Len(q) /\ Len(m) \in Nat /\ Len(q) \in Nat
  BY <1>1, <1>2, <1>3, ConcatProperties
<1>5. ASSUME NEW i \in 1..Len(k) PROVE k[i] <= Len(a)
  <2>1. CASE i <= Len(m)
    BY <1>1, <1>2, <1>3, <1>4, <2>1 DEF EvaluationsAre
  <2>2. CASE i > Len(m)
    <3>1. i - Len(m) \in 1..Len(q) /\ k[i] = q[i - Len(m)]
      BY <1>1, <1>2, <1>3, <1>4, <2>2
    <3> QED BY <1>2, <3>1
  <2> QED BY <1>4, <2>1, <2>2
<1> QED BY <1>3, <1>4, <1>5 DEF EvaluationsAre

\* A message taken.
LEMMA KeptTail ==
  ASSUME NEW a, NEW e, NEW v, NEW l, NEW m, EvaluationsAre(a, e, v, l, m), m # <<>>
  PROVE  /\ EvaluationsAre(a, e, v, l, Tail(m)) /\ Head(m) \in ToSet(m) /\ ToSet(Tail(m)) \subseteq ToSet(m)
<1>1. m \in Seq(Ids) /\ \A i \in 1..Len(m) : m[i] <= Len(a)
  BY DEF EvaluationsAre
<1>2. PICK k : k = Tail(m)
  OBVIOUS
<1>3. /\ k \in Seq(Ids) /\ Len(k) = Len(m) - 1 /\ Len(m) \in Nat \ {0} /\ Head(m) = m[1]
      /\ \A i \in 1..(Len(m) - 1) : k[i] = m[i + 1]
  BY <1>1, <1>2
<1>4. \A i \in 1..Len(k) : i + 1 \in 1..Len(m) /\ k[i] = m[i + 1]
  BY <1>3
<1>5. EvaluationsAre(a, e, v, l, k)
  BY <1>1, <1>3, <1>4 DEF EvaluationsAre
<1>6. ToSet(m) = {m[i] : i \in 1..Len(m)} /\ ToSet(k) = {k[i] : i \in 1..Len(k)}
  <2>1. DOMAIN m = 1..Len(m) /\ DOMAIN k = 1..Len(k)
    BY <1>1, <1>3
  <2> QED BY <2>1 DEF ToSet
<1>7. 1 \in 1..Len(m)
  BY <1>3
<1> QED BY <1>2, <1>3, <1>4, <1>5, <1>6, <1>7

\* One more segment in the list.
LEMMA LoadedOnce ==
  ASSUME NEW l \in Seq(Segments), IsInjective(l), NEW x \in Segments, x \notin ToSet(l)
  PROVE  /\ Append(l, x) \in Seq(Segments) /\ IsInjective(Append(l, x))
         /\ ToSet(Append(l, x)) = ToSet(l) \cup {x}
<1>1. PICK k, n : k = Append(l, x) /\ n = Len(l)
  OBVIOUS
<1>2. /\ k \in Seq(Segments) /\ Len(k) = n + 1 /\ k[n + 1] = x /\ n \in Nat
      /\ DOMAIN k = 1..(n + 1) /\ DOMAIN l = 1..n /\ \A i \in 1..n : k[i] = l[i]
  BY <1>1
<1>3. 1..(n + 1) = (1..n) \cup {n + 1} /\ n + 1 \notin 1..n
  BY <1>2
<1>4. ToSet(k) = ToSet(l) \cup {x}
  BY <1>2, <1>3 DEF ToSet
<1>5. \A i \in 1..n : k[i] # x
  BY <1>2 DEF ToSet
<1>6. \A i, j \in 1..n : k[i] = k[j] => i = j
  BY <1>2 DEF IsInjective
<1>7. \A i, j \in 1..(n + 1) : k[i] = k[j] => i = j
  BY <1>2, <1>3, <1>5, <1>6
<1>8. IsInjective(k)
  BY <1>2, <1>7 DEF IsInjective
<1> QED BY <1>1, <1>2, <1>4, <1>8

\* An evaluation ends: a segment that loaded joins the list.
LEMMA KeptEnds ==
  ASSUME NEW a, NEW e, NEW v, NEW l, NEW m, EvaluationsAre(a, e, v, l, m), NEW id \in v, NEW ok \in BOOLEAN
  PROVE  EvaluationsAre(a, [e EXCEPT ![id] = IF ok THEN "done" ELSE "failed"], v \ {id},
              IF ok /\ a[id] # Code /\ a[id] \notin ToSet(l) THEN Append(l, a[id]) ELSE l, m)
<1>1. /\ a \in Seq(Segments \cup {Code}) /\ Len(a) \in Nat /\ Len(a) <= MaxEvaluations
      /\ e \in [Ids -> Outcomes] /\ v = {n \in 1..Len(a) : e[n] = "none"}
      /\ l \in Seq(Segments) /\ IsInjective(l)
      /\ ToSet(l) = {a[n] : n \in {i \in 1..Len(a) : e[i] = "done"}} \ {Code}
  BY DEF EvaluationsAre
<1>2. id \in 1..Len(a) /\ id \in Ids /\ e[id] = "none" /\ a[id] \in Segments \cup {Code}
  BY <1>1, EvaluationBounds DEF Ids
<1>3. PICK f, o, k : /\ o = IF ok THEN "done" ELSE "failed"
                     /\ f = [e EXCEPT ![id] = IF ok THEN "done" ELSE "failed"]
                     /\ k = IF ok /\ a[id] # Code /\ a[id] \notin ToSet(l) THEN Append(l, a[id]) ELSE l
  OBVIOUS
<1>4. /\ f \in [Ids -> Outcomes] /\ f[id] = o /\ o # "none" /\ (o = "done" <=> ok)
      /\ \A n \in Ids : n # id => f[n] = e[n]
  BY <1>1, <1>2, <1>3 DEF Outcomes
<1>5. 1..Len(a) \subseteq Ids
  BY <1>1, EvaluationBounds DEF Ids
<1>6. v \ {id} = {n \in 1..Len(a) : f[n] = "none"}
  BY <1>1, <1>4, <1>5
<1>7. \A n \in Ids : n > Len(a) => f[n] = "none"
  <2>1. ~(id > Len(a))
    BY <1>1, <1>2
  <2> QED BY <1>4, <2>1 DEF EvaluationsAre
<1>8. PICK d : d = {i \in 1..Len(a) : e[i] = "done"}
  OBVIOUS
<1>9. {i \in 1..Len(a) : f[i] = "done"} = IF ok THEN d \cup {id} ELSE d
  BY <1>2, <1>4, <1>5, <1>8
<1>10. /\ k \in Seq(Segments) /\ IsInjective(k)
       /\ ToSet(k) = {a[n] : n \in {i \in 1..Len(a) : f[i] = "done"}} \ {Code}
  <2>1. CASE ~ok
    BY <1>1, <1>3, <1>8, <1>9, <2>1
  <2>2. CASE ok
    <3>1. {a[n] : n \in {i \in 1..Len(a) : f[i] = "done"}} = {a[n] : n \in d} \cup {a[id]}
      BY <1>9, <2>2
    <3>2. CASE a[id] = Code \/ a[id] \in ToSet(l)
      BY <1>1, <1>3, <1>8, <3>1, <3>2
    <3>3. CASE a[id] # Code /\ a[id] \notin ToSet(l)
      <4>1. a[id] \in Segments
        BY <1>2, <3>3
      <4>2. k = Append(l, a[id])
        BY <1>3, <2>2, <3>3
      <4>3. k \in Seq(Segments) /\ IsInjective(k) /\ ToSet(k) = ToSet(l) \cup {a[id]}
        BY <1>1, <3>3, <4>1, <4>2, LoadedOnce
      <4> QED BY <1>1, <1>8, <3>1, <3>3, <4>3
    <3> QED BY <3>2, <3>3
  <2> QED BY <2>1, <2>2
<1>11. m \in Seq(Ids) /\ \A i \in 1..Len(m) : m[i] <= Len(a)
  BY DEF EvaluationsAre
<1>12. EvaluationsAre(a, f, v \ {id}, k, m)
  BY <1>1, <1>4, <1>6, <1>7, <1>10, <1>11 DEF EvaluationsAre
<1> QED BY <1>3, <1>12

\* Nobody is told any more.
LEMMA KeptDropped ==
  ASSUME NEW a, NEW e, NEW v, NEW l, NEW m, EvaluationsAre(a, e, v, l, m)
  PROVE  EvaluationsAre(a, [id \in Ids |-> IF id \in v THEN "dropped" ELSE e[id]], {}, l, m)
<1>1. /\ e \in [Ids -> Outcomes] /\ v = {n \in 1..Len(a) : e[n] = "none"} /\ Len(a) \in Nat
      /\ \A id \in Ids : id > Len(a) => e[id] = "none"
  BY DEF EvaluationsAre
<1>2. PICK f : f = [id \in Ids |-> IF id \in v THEN "dropped" ELSE e[id]]
  OBVIOUS
<1>3. 1..Len(a) \subseteq Ids
  BY <1>1, EvaluationBounds DEF Ids, EvaluationsAre
<1>4. f \in [Ids -> Outcomes] /\ \A n \in Ids : f[n] = IF n \in v THEN "dropped" ELSE e[n]
  BY <1>1, <1>2 DEF Outcomes
<1>5. \A n \in Ids : n > Len(a) => n \notin v
  BY <1>1 DEF Ids
<1>6. \A n \in Ids : n > Len(a) => f[n] = "none"
  BY <1>1, <1>4, <1>5
<1>7. {} = {n \in 1..Len(a) : f[n] = "none"}
  BY <1>1, <1>3, <1>4
<1>8. {i \in 1..Len(a) : f[i] = "done"} = {i \in 1..Len(a) : e[i] = "done"}
  BY <1>1, <1>3, <1>4
<1>9. EvaluationsAre(a, f, {}, l, m)
  BY <1>4, <1>6, <1>7, <1>8 DEF EvaluationsAre
<1> QED BY <1>2, <1>9

-----------------------------------------------------------------------------
(* The frame: n runtimes have started, and each reload that was put off may start another. *)
Framed(n, fr, d, me, fi, fs) ==
  /\ fr \in {"between", "tasks", "processing", "closed"} /\ d \in 0..MaxDeferred
  /\ fr = "tasks" => d # 0
  /\ n \in Nat /\ n + d <= MaxGenerations
  /\ me \in BOOLEAN /\ fi \in BOOLEAN /\ fs \subseteq Segments

SegmentsInv ==
  /\ RuntimesAreServed(host, threads, ran, base, evaluations, ToSet(messages))
  /\ EvaluationsAre(asked, ended, evaluations, loaded, messages)
  /\ Framed(host.generation, frame, deferred, metro, hasFile, files)

\* The host, its threads and the bundle are a state.
LEMMA NowIsAState ==
  ASSUME SegmentsInv, NEW p, p \in {Now, [Now EXCEPT !.file = hasFile']}, p.file \in BOOLEAN
  PROVE  p \in States /\ p.host = host /\ p.threads = threads
<1>1. host \in Hosts /\ threads \in [Generations -> Seq(Tasked)]
  BY DEF SegmentsInv, RuntimesAreServed
<1>2. p = [host |-> host, threads |-> threads, file |-> p.file]
  BY DEF Now
<1> QED BY <1>1, <1>2 DEF States

\* Nothing has been asked, and nothing runs.
LEMMA SegmentsInit == EvaluationsInit => SegmentsInv
<1> SUFFICES ASSUME EvaluationsInit PROVE SegmentsInv
  OBVIOUS
<1>1. PICK none : none = <<>>
  OBVIOUS
<1>2. /\ none \in Seq(Segments) /\ none \in Seq(Loads) /\ none \in Seq(Results) /\ none \in Seq(Tasked)
      /\ none \in Seq(Runs) /\ none \in Seq(Segments \cup {Code}) /\ none \in Seq(Ids)
      /\ Len(none) = 0 /\ DOMAIN none = {}
  BY <1>1
<1>3. /\ host = [instance |-> 0, generation |-> 0, loaded |-> FALSE, waiting |-> none, results |-> none]
      /\ threads = [g \in Generations |-> none] /\ ran = [g \in Generations |-> none]
      /\ base = [g \in Generations |-> none] /\ asked = none /\ loaded = none /\ messages = none
      /\ ended = [id \in Ids |-> "none"] /\ evaluations = {}
  BY <1>1 DEF EvaluationsInit
<1>4. /\ host \in Hosts /\ host.instance = 0 /\ host.generation = 0 /\ ~host.loaded
      /\ host.waiting = none /\ host.results = none
  BY <1>2, <1>3, EvaluationBounds DEF Hosts
<1>5. ASSUME NEW g \in Generations
      PROVE  /\ InLine(ran[g], threads[g], Rest(host, g), Startup \o base[g])
             /\ threads[g] = none /\ ran[g] = none
  <2>1. threads[g] = none /\ ran[g] = none /\ base[g] = none /\ g # 0
    BY <1>3 DEF Generations
  <2>2. Rest(host, g) = none
    BY <1>1, <1>4, <2>1 DEF Rest
  <2>3. InLine(none, none, Again(Startup), Startup)
    BY <1>1, SegmentsAssumption, LineStarts
  <2>4. InLine(none, none, none, Startup)
    BY <1>1, <2>3, LineForgets
  <2>5. Startup \o none = Startup
    BY <1>1, SegmentsAssumption, ConcatEmptySeq
  <2> QED BY <2>1, <2>2, <2>4, <2>5
<1>6. RuntimesAreServed(host, threads, ran, base, evaluations, ToSet(messages))
  <2>1. /\ threads \in [Generations -> Seq(Tasked)] /\ ran \in [Generations -> Seq(Runs)]
        /\ base \in [Generations -> Seq(Segments)]
    BY <1>2, <1>3
  <2> QED BY <1>1, <1>4, <1>5, <2>1 DEF RuntimesAreServed
<1>7. EvaluationsAre(asked, ended, evaluations, loaded, messages)
  <2>1. ToSet(none) = {} /\ IsInjective(none)
    BY <1>2 DEF ToSet, IsInjective
  <2>2. Len(none) <= MaxEvaluations
    BY <1>2, EvaluationBounds
  <2> QED BY <1>2, <1>3, <2>1, <2>2 DEF EvaluationsAre, Outcomes
<1>8. files \subseteq Segments
  <2>1. ToSet(Startup) \subseteq Segments
    BY SegmentsAssumption DEF ToSet
  <2> QED BY <2>1 DEF EvaluationsInit
<1>9. Framed(host.generation, frame, deferred, metro, hasFile, files)
  BY <1>4, <1>8, EvaluationBounds DEF EvaluationsInit, Framed
<1> QED BY <1>6, <1>7, <1>9 DEF SegmentsInv

\* A reload.
LEMMA ReloadSteps ==
  ASSUME SegmentsInv, NEW p, p \in {Now, [Now EXCEPT !.file = hasFile']}, p.file \in BOOLEAN,
         ReloadNow(p), host.generation < MaxGenerations
  PROVE  /\ RuntimesAreServed(host', threads', ran, base', evaluations, ToSet(messages'))
         /\ EvaluationsAre(asked, ended, evaluations, loaded, messages')
         /\ host'.generation \in Nat /\ host'.generation <= host.generation + 1
<1>1. p \in States /\ p.host = host /\ p.threads = threads
  BY NowIsAState
<1>2. PICK later \in LoadDelays :
        /\ Becomes(Start(Retired(p), later)) /\ Remember(Start(Retired(p), later))
  BY DEF ReloadNow
<1>3. PICK q, s : q = Retired(p) /\ s = Start(q, later)
  OBVIOUS
<1>4. host' = s.host /\ threads' = s.threads
      /\ base' = IF s.host.generation = host.generation THEN base
                 ELSE [base EXCEPT ![s.host.generation] = loaded]
  BY <1>2, <1>3 DEF Becomes, Remember
<1>5. RuntimesAreServed(p.host, p.threads, ran, base, evaluations, ToSet(messages))
  BY <1>1 DEF SegmentsInv
<1>6. /\ q \in States /\ q.host.instance = 0 /\ q.host.generation = host.generation
      /\ RuntimesAreServed(q.host, q.threads, ran, base, evaluations, ToSet(messages'))
  BY <1>1, <1>3, <1>5, RuntimesRetire
<1>7. loaded \in Seq(Segments)
  BY DEF SegmentsInv, EvaluationsAre
<1>8. /\ s \in States /\ RuntimesAreServed(s.host, s.threads, ran, base', evaluations, ToSet(messages'))
      /\ s.host.generation <= host.generation + 1
  BY <1>3, <1>4, <1>6, <1>7, RuntimesStart
<1>9. EvaluationsAre(asked, ended, evaluations, loaded, messages')
  <2>1. EvaluationsAre(asked, ended, evaluations, loaded, messages)
    BY DEF SegmentsInv
  <2>2. messages' = IF host.instance = 0 THEN messages ELSE messages \o Unanswered
    BY DEF ReloadNow, Retire
  <2>3. Len(asked) \in Nat /\ evaluations \in SUBSET (1..Len(asked))
    BY <2>1 DEF EvaluationsAre
  <2>4. Unanswered \in Seq(evaluations)
    BY <2>3, UnansweredIs
  <2>5. EvaluationsAre(asked, ended, evaluations, loaded, messages \o Unanswered)
    BY <2>1, <2>4, KeptRetired
  <2> QED BY <2>1, <2>2, <2>5
<1>10. s.host.generation \in Nat
  BY <1>8, EvaluationBounds, StateFields
<1> QED BY <1>4, <1>8, <1>9, <1>10

\* reload(), in a frame or outside.
LEMMA ReloadSoonSteps ==
  ASSUME SegmentsInv, NEW p, p \in {Now, [Now EXCEPT !.file = hasFile']}, p.file \in BOOLEAN,
         ReloadSoon(p), UNCHANGED <<game, loaded, ended, ran, frame, metro, files>>, hasFile' \in BOOLEAN,
         frame # "tasks"
  PROVE  SegmentsInv'
<1>1. /\ asked' = asked /\ evaluations' = evaluations /\ loaded' = loaded /\ ended' = ended
      /\ ran' = ran /\ frame' = frame /\ metro' = metro /\ files' = files
  BY DEF game
<1>2. Framed(host.generation, frame, deferred, metro, hasFile, files)
  BY DEF SegmentsInv
<1>3. host.generation + deferred < MaxGenerations /\ host.generation \in Nat /\ deferred \in Nat
      /\ deferred <= MaxDeferred /\ MaxGenerations \in Nat /\ MaxDeferred \in Nat
  BY <1>2, EvaluationBounds DEF ReloadSoon, MayStart, Framed
<1>4. CASE frame = "between"
  <2>1. ReloadNow(p) /\ deferred' = deferred
    BY <1>4 DEF ReloadSoon
  <2>2. host.generation < MaxGenerations
    BY <1>3
  <2>3. /\ RuntimesAreServed(host', threads', ran, base', evaluations, ToSet(messages'))
        /\ EvaluationsAre(asked, ended, evaluations, loaded, messages')
        /\ host'.generation \in Nat /\ host'.generation <= host.generation + 1
    BY <2>1, <2>2, ReloadSteps
  <2>4. host'.generation + deferred <= MaxGenerations
    BY <1>3, <2>3
  <2>5. Framed(host'.generation, frame, deferred, metro, hasFile', files)
    BY <1>2, <2>3, <2>4 DEF Framed
  <2> QED BY <1>1, <2>1, <2>3, <2>5 DEF SegmentsInv
<1>5. CASE frame # "between"
  <2>1. /\ deferred < MaxDeferred /\ deferred' = deferred + 1
        /\ host' = host /\ threads' = threads /\ base' = base /\ messages' = messages
    BY <1>5 DEF ReloadSoon
  <2>2. host.generation + deferred' <= MaxGenerations /\ deferred' \in 0..MaxDeferred
    BY <1>3, <2>1
  <2>3. Framed(host.generation, frame, deferred', metro, hasFile', files)
    BY <1>2, <2>2 DEF Framed
  <2> QED BY <1>1, <2>1, <2>3 DEF SegmentsInv
<1> QED BY <1>4, <1>5

\* evaluate() and load_segment().
LEMMA AskSteps ==
  ASSUME SegmentsInv, NEW path \in Segments \cup {Code}, Ask(path)
  PROVE  SegmentsInv'
<1>1. PICK id, task : id = Len(asked) + 1 /\ task = [path |-> path, id |-> id]
  OBVIOUS
<1>2. /\ asked' = Append(asked, path) /\ evaluations' = evaluations \cup {id}
      /\ loaded' = loaded /\ ended' = ended /\ ran' = ran /\ frame' = frame /\ deferred' = deferred
      /\ metro' = metro /\ hasFile' = hasFile /\ files' = files /\ Len(asked) < MaxEvaluations
      /\ host.instance = 0 => MayStart
  BY <1>1 DEF Ask, world
<1>3. /\ RuntimesAreServed(host, threads, ran, base, evaluations, ToSet(messages))
      /\ EvaluationsAre(asked, ended, evaluations, loaded, messages)
      /\ Framed(host.generation, frame, deferred, metro, hasFile, files)
  BY DEF SegmentsInv
<1>4. /\ id \in Ids /\ id \notin evaluations /\ id \notin ToSet(messages)
      /\ EvaluationsAre(asked', ended', evaluations', loaded', messages)
      /\ EvaluationsAre(asked', ended', evaluations', loaded', Append(messages, id))
  BY <1>1, <1>2, <1>3, KeptAsked
<1>5. PICK p : p = Now
  OBVIOUS
<1>6. p \in States /\ p.host = host /\ p.threads = threads
  <2>1. p \in {Now, [Now EXCEPT !.file = hasFile']} /\ p.file \in BOOLEAN
    BY <1>3, <1>5 DEF Now, Framed
  <2> QED BY <2>1, NowIsAState
<1>7. CASE ~CanStart(p)
  <2>1. messages' = Append(messages, id) /\ host' = host /\ threads' = threads /\ base' = base
    BY <1>1, <1>5, <1>7 DEF Ask
  <2>2. host.instance = 0
    BY <1>6, <1>7 DEF CanStart
  <2>3. RuntimesAreServed(host, threads, ran, base, evaluations', ToSet(messages'))
    BY <1>3, <2>2, RuntimesLetGo
  <2> QED BY <1>2, <1>3, <1>4, <2>1, <2>3 DEF SegmentsInv
<1>8. CASE CanStart(p)
  <2>1. PICK later \in LoadDelays :
          LET s == Start(p, later) IN
            /\ Becomes(IF path = Code
                         THEN [s EXCEPT !.threads[s.host.instance] = Append(@, task)]
                         ELSE InstanceLoads(s, task))
            /\ Remember(s) /\ UNCHANGED messages
    BY <1>1, <1>5, <1>8 DEF Ask
  <2>2. PICK s, c : /\ s = Start(p, later)
                    /\ c = IF s.host.generation = host.generation THEN base
                           ELSE [base EXCEPT ![s.host.generation] = loaded]
    OBVIOUS
  <2>3. PICK q : q = IF path = Code
                       THEN [s EXCEPT !.threads[s.host.instance] = Append(@, task)]
                       ELSE InstanceLoads(s, task)
    OBVIOUS
  <2>4. host' = q.host /\ threads' = q.threads /\ base' = c /\ messages' = messages
    BY <2>1, <2>2, <2>3 DEF Becomes, Remember
  <2>5. /\ s \in States /\ s.host.instance # 0
        /\ RuntimesAreServed(s.host, s.threads, ran, c, evaluations, ToSet(messages))
        /\ s.host.generation + deferred <= MaxGenerations
    <3>1. loaded \in Seq(Segments) /\ host.generation + deferred <= MaxGenerations
          /\ host.generation \in Nat /\ deferred \in Nat /\ MaxGenerations \in Nat
      BY <1>3, EvaluationBounds DEF EvaluationsAre, Framed
    <3>2. CASE host.instance # 0
      <4>1. s = p
        BY <1>6, <2>2, <3>2 DEF Start
      <4>2. c = base
        BY <1>6, <2>2, <4>1
      <4> QED BY <1>3, <1>6, <3>1, <3>2, <4>1, <4>2
    <3>3. CASE host.instance = 0
      <4>1. host.generation + deferred < MaxGenerations
        BY <1>2, <3>3 DEF MayStart
      <4>2. host.generation < MaxGenerations
        BY <3>1, <4>1
      <4>3. /\ s \in States /\ RuntimesAreServed(s.host, s.threads, ran, c, evaluations, ToSet(messages))
            /\ s.host.generation <= host.generation + 1 /\ s.host.instance # 0
        BY <1>3, <1>6, <1>8, <2>2, <3>1, <3>3, <4>2, RuntimesStart
      <4>4. s.host.generation \in Nat
        BY <4>3, EvaluationBounds, StateFields
      <4>5. s.host.generation + deferred <= MaxGenerations
        BY <3>1, <4>1, <4>3, <4>4
      <4> QED BY <4>3, <4>5
    <3> QED BY <3>2, <3>3
  <2>6. /\ q \in States /\ q.host.generation = s.host.generation
        /\ RuntimesAreServed(q.host, q.threads, ran, c, evaluations \cup {id}, ToSet(messages))
    <3>1. PICK E, M : E = evaluations /\ M = ToSet(messages)
      OBVIOUS
    <3>2. /\ RuntimesAreServed(s.host, s.threads, ran, c, E, M) /\ s.host.instance # 0
          /\ s \in States /\ id \in Ids /\ id \notin E /\ id \notin M
      BY <1>4, <2>5, <3>1
    <3>3. CASE path = Code
      <4>1. q = TakesCode(s, id)
        BY <1>1, <2>3, <3>3 DEF TakesCode
      <4>2. q \in States /\ RuntimesAreServed(q.host, q.threads, ran, c, E \cup {id}, M)
            /\ q.host.generation = s.host.generation
        BY <3>2, <4>1, RuntimesTakeCode
      <4> QED BY <3>1, <4>2
    <3>4. CASE path # Code
      <4>1. q = InstanceLoads(s, [path |-> path, id |-> id]) /\ path \in Segments
        BY <1>1, <2>3, <3>4
      <4>2. q \in States /\ RuntimesAreServed(q.host, q.threads, ran, c, E \cup {id}, M)
            /\ q.host.generation = s.host.generation
        BY <3>2, <4>1, RuntimesTakeSegment
      <4> QED BY <3>1, <4>2
    <3> QED BY <3>3, <3>4
  <2>7. q.host.generation \in Nat
    BY <2>6, EvaluationBounds, StateFields
  <2>8. Framed(q.host.generation, frame, deferred, metro, hasFile, files)
    BY <1>3, <2>5, <2>6, <2>7 DEF Framed
  <2> QED BY <1>2, <1>4, <2>4, <2>6, <2>8 DEF SegmentsInv
<1> QED BY <1>5, <1>7, <1>8

\* The bundle arrives.
LEMMA BundleArrivesSteps == SegmentsInv /\ BundleArrives => SegmentsInv'
<1> SUFFICES ASSUME SegmentsInv, BundleArrives PROVE SegmentsInv'
  OBVIOUS
<1>1. PICK p, q : p = Now /\ q = BundleLoaded(p)
  OBVIOUS
<1>2. p \in States /\ p.host = host /\ p.threads = threads
  <2>1. p \in {Now, [Now EXCEPT !.file = hasFile']} /\ p.file \in BOOLEAN
    BY <1>1 DEF Now, Framed, SegmentsInv
  <2> QED BY <2>1, NowIsAState
<1>3. /\ host.instance # 0 /\ ~host.loaded /\ host' = q.host /\ threads' = q.threads
      /\ asked' = asked /\ evaluations' = evaluations /\ loaded' = loaded /\ ended' = ended
      /\ ran' = ran /\ base' = base /\ messages' = messages /\ frame' = frame /\ deferred' = deferred
      /\ metro' = metro /\ hasFile' = hasFile /\ files' = files
  BY <1>1 DEF BundleArrives, Becomes, game, history, world
<1>4. /\ RuntimesAreServed(q.host, q.threads, ran, base, evaluations, ToSet(messages))
      /\ q.host.generation = host.generation
  BY <1>1, <1>2, <1>3, RuntimesBundle DEF SegmentsInv
<1> QED BY <1>3, <1>4 DEF SegmentsInv

\* A thread runs a task.
LEMMA RunTaskSteps == ASSUME SegmentsInv, NEW g \in Generations, RunTask(g) PROVE SegmentsInv'
<1>1. PICK k \in 1..Len(threads[g]), ok \in BOOLEAN :
        LET task == threads[g][k] IN
        /\ IsFirst(g, k)
        /\ threads' = [threads EXCEPT ![g] = RemoveAt(@, k)]
        /\ ran' = IF task.path = Code THEN ran
                  ELSE [ran EXCEPT ![g] = Append(@, [path |-> task.path, own |-> task.id = 0])]
        /\ host' = IF task.id = 0 THEN host
                   ELSE [host EXCEPT !.results = Posted(g, task, ok)]
  BY DEF RunTask
<1>2. PICK x : x = threads[g][k]
  OBVIOUS
<1>3. IsFirstIn(threads[g], k)
  BY <1>1 DEF IsFirst, IsFirstIn
<1>4. /\ asked' = asked /\ evaluations' = evaluations /\ loaded' = loaded /\ ended' = ended
      /\ base' = base /\ messages' = messages /\ frame' = frame /\ deferred' = deferred
      /\ metro' = metro /\ hasFile' = hasFile /\ files' = files
  BY DEF RunTask, game, world
<1>5. Posted(g, x, ok) = Answers(host, g, x, ok)
  BY DEF Posted, Answers
<1>6. RuntimesAreServed(host', threads', ran', base, evaluations, ToSet(messages))
  <2>1. PICK f, u, s, M : f = host' /\ u = threads' /\ s = ran' /\ M = ToSet(messages)
    OBVIOUS
  <2>2. f = Answered(host, g, x, ok) /\ u = Without(threads, g, k) /\ s = Ran(ran, g, x)
    BY <1>1, <1>2, <1>5, <2>1 DEF Answered, Without, Ran
  <2>3. RuntimesAreServed(host, threads, ran, base, evaluations, M)
    BY <2>1 DEF SegmentsInv
  <2>4. RuntimesAreServed(f, u, s, base, evaluations, M)
    BY <1>2, <1>3, <2>2, <2>3, RuntimesRun
  <2> QED BY <2>1, <2>4
<1>7. host'.generation = host.generation
  <2>1. host \in Hosts
    BY DEF SegmentsInv, RuntimesAreServed
  <2> QED BY <1>1, <2>1 DEF Hosts
<1> QED BY <1>4, <1>6, <1>7 DEF SegmentsInv

\* A result is delivered.
LEMMA DeliverSteps == SegmentsInv /\ Deliver => SegmentsInv'
<1> SUFFICES ASSUME SegmentsInv, Deliver PROVE SegmentsInv'
  OBVIOUS
<1>1. PICK x, id, path : x = Head(host.results) /\ id = x.id /\ path = asked[id]
  OBVIOUS
<1>2. /\ host.results # <<>> /\ host' = [host EXCEPT !.results = Tail(@)]
      /\ loaded' = IF x.ok /\ path # Code /\ path \notin ToSet(loaded)
                     THEN Append(loaded, path) ELSE loaded
      /\ Finish(id, x.ok)
      /\ asked' = asked /\ threads' = threads /\ ran' = ran /\ base' = base /\ messages' = messages
      /\ frame' = frame /\ deferred' = deferred
      /\ metro' = metro /\ hasFile' = hasFile /\ files' = files
  BY <1>1 DEF Deliver, history, world
<1>3. /\ x \in Results /\ id \in evaluations
      /\ RuntimesAreServed(host', threads, ran, base, evaluations \ {id}, ToSet(messages))
  BY <1>1, <1>2, RuntimesDeliver DEF SegmentsInv
<1>4. evaluations' = evaluations \ {id}
      /\ ended' = [ended EXCEPT ![id] = IF x.ok THEN "done" ELSE "failed"]
  BY <1>2, <1>3 DEF Finish
<1>5. x.ok \in BOOLEAN
  BY <1>3 DEF Results
<1>6. EvaluationsAre(asked, ended', evaluations', loaded', messages)
  <2>1. EvaluationsAre(asked, [ended EXCEPT ![id] = IF x.ok THEN "done" ELSE "failed"], evaluations \ {id},
             IF x.ok /\ asked[id] # Code /\ asked[id] \notin ToSet(loaded)
               THEN Append(loaded, asked[id]) ELSE loaded, messages)
    BY <1>3, <1>5, KeptEnds DEF SegmentsInv
  <2> QED BY <1>1, <1>2, <1>4, <2>1
<1>7. host'.generation = host.generation
  <2>1. host \in Hosts
    BY DEF SegmentsInv, RuntimesAreServed
  <2> QED BY <1>2, <2>1 DEF Hosts
<1> QED BY <1>2, <1>3, <1>4, <1>6, <1>7 DEF SegmentsInv

\* A message is taken.
LEMMA FlushSteps == SegmentsInv /\ Flush => SegmentsInv'
<1> SUFFICES ASSUME SegmentsInv, Flush PROVE SegmentsInv'
  OBVIOUS
<1>1. PICK id : id = Head(messages)
  OBVIOUS
<1>2. /\ messages # <<>> /\ messages' = Tail(messages) /\ Finish(id, FALSE)
      /\ host' = host /\ loaded' = loaded /\ asked' = asked /\ threads' = threads /\ ran' = ran
      /\ base' = base /\ frame' = frame /\ deferred' = deferred
      /\ metro' = metro /\ hasFile' = hasFile /\ files' = files
  BY <1>1 DEF Flush, history, world
<1>3. /\ EvaluationsAre(asked, ended, evaluations, loaded, messages') /\ id \in ToSet(messages)
      /\ ToSet(messages') \subseteq ToSet(messages)
  BY <1>1, <1>2, KeptTail DEF SegmentsInv
<1>4. CASE id \notin evaluations
  <2>1. evaluations' = evaluations /\ ended' = ended
    BY <1>2, <1>4 DEF Finish
  <2>2. \A n \in evaluations \ ToSet(messages) : n \in evaluations \ ToSet(messages')
    BY <1>3
  <2>3. RuntimesAreServed(host, threads, ran, base, evaluations, ToSet(messages'))
    BY <2>2, RuntimesLetGo DEF SegmentsInv
  <2> QED BY <1>2, <1>3, <2>1, <2>3 DEF SegmentsInv
<1>5. CASE id \in evaluations
  <2>1. evaluations' = evaluations \ {id} /\ ended' = [ended EXCEPT ![id] = "failed"]
    BY <1>2, <1>5 DEF Finish
  <2>2. \A n \in evaluations \ ToSet(messages) : n \in evaluations' \ ToSet(messages')
    BY <1>3, <2>1
  <2>3. RuntimesAreServed(host, threads, ran, base, evaluations', ToSet(messages'))
    BY <2>2, RuntimesLetGo DEF SegmentsInv
  <2>4. PICK ok : ok = FALSE
    OBVIOUS
  <2>5. EvaluationsAre(asked, [ended EXCEPT ![id] = IF ok THEN "done" ELSE "failed"], evaluations \ {id},
             IF ok /\ asked[id] # Code /\ asked[id] \notin ToSet(loaded)
               THEN Append(loaded, asked[id]) ELSE loaded, messages')
    BY <1>3, <1>5, <2>4, KeptEnds
  <2>6. EvaluationsAre(asked, ended', evaluations', loaded, messages')
    BY <2>1, <2>4, <2>5
  <2> QED BY <1>2, <2>3, <2>6 DEF SegmentsInv
<1> QED BY <1>4, <1>5

\* A reload that was put off.
LEMMA RunDeferredSteps == SegmentsInv /\ RunDeferred => SegmentsInv'
<1> SUFFICES ASSUME SegmentsInv, RunDeferred PROVE SegmentsInv'
  OBVIOUS
<1>1. PICK p : p = Now
  OBVIOUS
<1>2. /\ frame = "tasks" /\ deferred' = deferred - 1 /\ ReloadNow(p)
      /\ frame' = IF deferred = 1 THEN "processing" ELSE "tasks"
      /\ asked' = asked /\ evaluations' = evaluations /\ loaded' = loaded /\ ended' = ended
      /\ ran' = ran /\ metro' = metro /\ hasFile' = hasFile /\ files' = files
  BY <1>1 DEF RunDeferred, game, world
<1>3. /\ host.generation + deferred <= MaxGenerations /\ host.generation \in Nat
      /\ deferred \in Nat /\ deferred # 0 /\ deferred <= MaxDeferred
      /\ MaxGenerations \in Nat /\ MaxDeferred \in Nat
  BY <1>2, EvaluationBounds DEF SegmentsInv, Framed
<1>4. host.generation < MaxGenerations
  BY <1>3
<1>5. /\ RuntimesAreServed(host', threads', ran, base', evaluations, ToSet(messages'))
      /\ EvaluationsAre(asked, ended, evaluations, loaded, messages')
      /\ host'.generation \in Nat /\ host'.generation <= host.generation + 1
  <2>1. p \in {Now, [Now EXCEPT !.file = hasFile']} /\ p.file \in BOOLEAN
    BY <1>1 DEF Now, Framed, SegmentsInv
  <2> QED BY <1>2, <1>4, <2>1, ReloadSteps
<1>6. host'.generation + deferred' <= MaxGenerations /\ deferred' \in 0..MaxDeferred
      /\ (frame' = "tasks" => deferred' # 0)
  BY <1>2, <1>3, <1>5
<1>7. Framed(host'.generation, frame', deferred', metro, hasFile, files)
  BY <1>2, <1>5, <1>6 DEF SegmentsInv, Framed
<1> QED BY <1>2, <1>5, <1>7 DEF SegmentsInv

\* shutdown().
LEMMA ShutdownSteps == SegmentsInv /\ Shutdown => SegmentsInv'
<1> SUFFICES ASSUME SegmentsInv, Shutdown PROVE SegmentsInv'
  OBVIOUS
<1>1. PICK p, q : p = Now /\ q = Retired(p)
  OBVIOUS
<1>2. /\ frame' = "closed" /\ host' = q.host /\ threads' = q.threads /\ messages' = Retire
      /\ evaluations' = {}
      /\ ended' = [id \in Ids |-> IF id \in evaluations THEN "dropped" ELSE ended[id]]
      /\ asked' = asked /\ loaded' = loaded /\ ran' = ran /\ base' = base /\ deferred' = deferred
      /\ metro' = metro /\ hasFile' = hasFile /\ files' = files
  BY <1>1 DEF Shutdown, Becomes, history, world
<1>3. p \in States /\ p.host = host /\ p.threads = threads
  <2>1. p \in {Now, [Now EXCEPT !.file = hasFile']} /\ p.file \in BOOLEAN
    BY <1>1 DEF Now, Framed, SegmentsInv
  <2> QED BY <2>1, NowIsAState
<1>4. /\ RuntimesAreServed(q.host, q.threads, ran, base, evaluations', ToSet(messages'))
      /\ q.host.generation = host.generation
  BY <1>1, <1>3, RuntimesRetire DEF SegmentsInv
<1>5. EvaluationsAre(asked, ended, evaluations, loaded, messages')
  <2>1. EvaluationsAre(asked, ended, evaluations, loaded, messages)
    BY DEF SegmentsInv
  <2>2. messages' = IF host.instance = 0 THEN messages ELSE messages \o Unanswered
    BY <1>2 DEF Retire
  <2>3. Len(asked) \in Nat /\ evaluations \in SUBSET (1..Len(asked))
    BY <2>1 DEF EvaluationsAre
  <2>4. Unanswered \in Seq(evaluations)
    BY <2>3, UnansweredIs
  <2>5. EvaluationsAre(asked, ended, evaluations, loaded, messages \o Unanswered)
    BY <2>1, <2>4, KeptRetired
  <2> QED BY <2>1, <2>2, <2>5
<1>6. EvaluationsAre(asked, ended', evaluations', loaded, messages')
  BY <1>2, <1>5, KeptDropped
<1>7. Framed(host.generation, frame', deferred, metro, hasFile, files)
  BY <1>2 DEF SegmentsInv, Framed
<1> QED BY <1>2, <1>4, <1>6, <1>7 DEF SegmentsInv

\* Every step keeps the invariant.
LEMMA SegmentsSteps == SegmentsInv /\ [EvaluationsNext]_evaluationVars => SegmentsInv'
<1> SUFFICES ASSUME SegmentsInv, [EvaluationsNext]_evaluationVars PROVE SegmentsInv'
  OBVIOUS
<1>1. CASE Evaluate
  BY <1>1, AskSteps DEF Evaluate
<1>2. CASE Reload
  <2>1. PICK p : p = Now
    OBVIOUS
  <2>2. p \in {Now, [Now EXCEPT !.file = hasFile']} /\ p.file \in BOOLEAN /\ hasFile \in BOOLEAN
    BY <2>1 DEF Now, Framed, SegmentsInv
  <2>3. /\ ReloadSoon(p) /\ frame # "tasks" /\ hasFile' = hasFile
        /\ UNCHANGED <<game, loaded, ended, ran, frame, metro, files>>
    BY <1>2, <2>1 DEF Reload, Calling, world
  <2> QED BY <2>2, <2>3, ReloadSoonSteps
<1>3. CASE BundleChanged
  <2>1. /\ hasFile' \in BOOLEAN /\ frame # "tasks"
        /\ UNCHANGED <<game, loaded, ended, ran, frame, metro, files>>
    BY <1>3 DEF BundleChanged, Calling
  <2>2. CASE ReloadSoon([Now EXCEPT !.file = hasFile'])
    <3>1. PICK p : p = [Now EXCEPT !.file = hasFile']
      OBVIOUS
    <3>2. p \in {Now, [Now EXCEPT !.file = hasFile']} /\ p.file \in BOOLEAN
      BY <2>1, <3>1 DEF Now
    <3> QED BY <2>1, <2>2, <3>1, <3>2, ReloadSoonSteps
  <2>3. CASE UNCHANGED <<host, threads, base, messages, deferred>>
    <3>1. Framed(host.generation, frame, deferred, metro, hasFile', files)
      BY <2>1 DEF SegmentsInv, Framed
    <3> QED BY <2>1, <2>3, <3>1 DEF SegmentsInv, game
  <2> QED BY <1>3, <2>2, <2>3 DEF BundleChanged
<1>4. CASE PackLoads
  <2>1. Framed(host.generation, frame, deferred, metro, hasFile, files')
    BY <1>4 DEF PackLoads, SegmentsInv, Framed
  <2> QED BY <1>4, <2>1 DEF PackLoads, SegmentsInv, game, history
<1>5. CASE \E path \in Segments : LoadSegment(path)
  BY <1>5, AskSteps DEF LoadSegment
<1>6. CASE \E g \in Generations : RunTask(g)
  BY <1>6, RunTaskSteps
<1>7. CASE BundleArrives
  BY <1>7, BundleArrivesSteps
<1>8. CASE Deliver
  BY <1>8, DeliverSteps
<1>9. CASE Flush
  BY <1>9, FlushSteps
<1>10. CASE FrameBegin
  <2>1. Framed(host.generation, frame', deferred, metro, hasFile, files)
    BY <1>10 DEF FrameBegin, SegmentsInv, Framed
  <2> QED BY <1>10, <2>1 DEF FrameBegin, SegmentsInv, game, history, world
<1>11. CASE RunDeferred
  BY <1>11, RunDeferredSteps
<1>12. CASE FrameEnd
  <2>1. Framed(host.generation, frame', deferred, metro, hasFile, files)
    BY <1>12 DEF FrameEnd, SegmentsInv, Framed
  <2> QED BY <1>12, <2>1 DEF FrameEnd, SegmentsInv, game, history, world
<1>13. CASE Shutdown
  BY <1>13, ShutdownSteps
<1>14. CASE UNCHANGED evaluationVars
  BY <1>14 DEF evaluationVars, SegmentsInv
<1> QED BY <1>1, <1>2, <1>3, <1>4, <1>5, <1>6, <1>7, <1>8, <1>9, <1>10, <1>11, <1>12, <1>13, <1>14
     DEF EvaluationsNext, Frame

\* The invariant is what the property says.
LEMMA SegmentsInvSays == SegmentsInv => SegmentsRunInOrder
<1> SUFFICES ASSUME SegmentsInv PROVE SegmentsRunInOrder
  OBVIOUS
<1>1. /\ RuntimesAreServed(host, threads, ran, base, evaluations, ToSet(messages))
      /\ EvaluationsAre(asked, ended, evaluations, loaded, messages)
      /\ Framed(host.generation, frame, deferred, metro, hasFile, files)
  BY DEF SegmentsInv
<1>2. host \in Hosts /\ threads \in [Generations -> Seq(Tasked)]
      /\ ran \in [Generations -> Seq(Runs)] /\ base \in [Generations -> Seq(Segments)]
  BY <1>1 DEF RuntimesAreServed
<1>3. \A id \in {0} \cup Ids : id \in Nat
  BY DEF Ids
<1>4. Loads \subseteq Segment /\ Tasked \subseteq ThreadTask
  BY <1>3 DEF Loads, Segment, Tasked, ThreadTask
<1>5. host \in Host
  <2>1. \A q \in Seq(Loads) : q \in Seq(Segment)
    BY <1>4, SeqDef
  <2> QED BY <1>2, <2>1 DEF Hosts, Host, Results
<1>6. threads \in [Generations -> Seq(ThreadTask)]
  <2>1. \A q \in Seq(Tasked) : q \in Seq(ThreadTask)
    BY <1>4, SeqDef
  <2> QED BY <1>2, <2>1
<1>7. EvaluationsTypeOK
  <2>1. /\ host.instance \in {0, host.generation}
        /\ host.instance = 0 => host.results = <<>> /\ ~host.loaded
        /\ host.instance = 0 \/ host.loaded => host.waiting = <<>>
    BY <1>1 DEF RuntimesAreServed
  <2>2. ran \in [Generations -> Seq([path : Segments, own : BOOLEAN])]
    BY <1>2 DEF Runs
  <2> QED BY <1>1, <1>2, <1>5, <1>6, <2>1, <2>2 DEF EvaluationsTypeOK, EvaluationsAre, Framed
<1>8. ASSUME NEW g \in Generations
      PROVE  LET due == Startup \o base[g]
             IN  /\ \A k \in Own(g) : 1..k \subseteq Own(g)
                 /\ \E at \in [Own(g) -> 1..Len(due)] :
                      \A k \in Own(g) : /\ ran[g][k].path = due[at[k]]
                                        /\ \A j \in 1..(k - 1) : at[j] < at[k]
  <2>1. PICK R, T, W, D : R = ran[g] /\ T = threads[g] /\ W = Rest(host, g) /\ D = Startup \o base[g]
    OBVIOUS
  <2>2. R \in Seq(Runs) /\ D \in Seq(Segments) /\ InLine(R, T, W, D)
    BY <1>1, <2>1, RuntimeIs
  <2>3. PICK own : own = {k \in 1..Len(R) : R[k].own}
    OBVIOUS
  <2>4. Own(g) = own
    BY <2>1, <2>3 DEF Own
  <2>5. InOrder(R, D, own)
    BY <2>2, <2>3, LineIsInOrder
  <2> QED BY <2>1, <2>4, <2>5 DEF InOrder
<1>9. ToSet(loaded) = {asked[id] : id \in {i \in 1..Len(asked) : ended[i] = "done"}} \ {Code}
  BY <1>1 DEF EvaluationsAre
<1> QED BY <1>7, <1>8, <1>9 DEF SegmentsRunInOrder

\* A runtime runs its own segments, in order, before anything the game asks of it, and what
\* loads again is what the game was told of.
THEOREM SegmentsAlwaysRunInOrder == EvaluationsSafety => []SegmentsRunInOrder
<1>1. EvaluationsInit => SegmentsInv
  BY SegmentsInit
<1>2. SegmentsInv /\ [EvaluationsNext]_evaluationVars => SegmentsInv'
  BY SegmentsSteps
<1>3. SegmentsInv => SegmentsRunInOrder
  BY SegmentsInvSays
<1> QED BY <1>1, <1>2, <1>3, PTL DEF EvaluationsSafety

-----------------------------------------------------------------------------
(***************************************************************************)
(* Theorems of AsyncStorage, for any keys and any number of calls and      *)
(* crashes.                                                                *)
(*                                                                         *)
(* What is promised holds because a write promises its values in memory    *)
(* before it touches the disk, and because the file is only ever replaced  *)
(* by a temporary one that holds those values: Progress says, for each     *)
(* place the storage thread may be at, what the temporary file and the     *)
(* memory hold there.                                                      *)
(***************************************************************************)

Values == [Keys -> Nat]
File == [is : {"absent", "corrupt"}, values : {Empty}] \cup [is : {"whole"}, values : Values]
Task == [does : {"write"}, key : Keys, value : Nat]
        \cup [does : {"clear", "read"}, key : {NoTask.key}, value : {None}]
Saving == {"open", "store", "read back", "rename", "resolve"}
Places == {"idle", "load", "work"} \cup Saving
Workings == [at : Places, task : Task \cup {NoTask}]

StorageTypeOK ==
  /\ disk \in [file : File, temporary : File]
  /\ memory \in [values : Values, loaded : BOOLEAN]
  /\ tasks \in Seq(Task)
  /\ working \in Workings
  /\ accesses \in Nat /\ crashes \in Nat
  /\ promised \in [Keys -> SUBSET Nat]

\* The keys that a write tells JavaScript about.
KnownToStorage(task) == IF task.does = "clear" THEN Keys ELSE {task.key}

(* Where the thread is, and what it relies on there.                        *)
Progress ==
  /\ ~At("idle") => working.task \in Task
  /\ At("work") \/ working.at \in Saving => working.task.does # "read"
  /\ At("work") => working.task.does = "clear" \/ memory.loaded
  /\ working.at \in Saving =>
       /\ memory.loaded
       /\ \A k \in KnownToStorage(working.task) : memory.values[k] = Written(Empty, working.task)[k]
  /\ At("store") => disk.temporary = Corrupt
  /\ At("read back") => disk.temporary \in {Corrupt, Whole(memory.values)}
  /\ At("rename") => disk.temporary = Whole(memory.values)
  /\ At("resolve") => disk.file = Whole(memory.values)

StorageInv == StorageTypeOK /\ Progress /\ AcknowledgedWritesSurvive

USE StorageBounds

\* What a task makes of values are values again.
LEMMA WrittenType ==
  ASSUME NEW values \in Values, NEW task \in Task, task.does # "read"
  PROVE  /\ Written(values, task) \in Values
         /\ \A k \in KnownToStorage(task) : Written(values, task)[k] = Written(Empty, task)[k]
<1>1. CASE task.does = "clear"
  BY <1>1 DEF Written, Empty, Values, None
<1>2. CASE task.does = "write"
  <2>1. task.key \in Keys /\ task.value \in Nat
    BY <1>2 DEF Task
  <2> QED BY <1>2, <2>1 DEF Written, Empty, Values, KnownToStorage, None
<1> QED BY <1>1, <1>2 DEF Task

\* Files that hold different things are different.
LEMMA Files ==
  /\ Absent \in File /\ Corrupt \in File /\ \A v \in Values : Whole(v) \in File
  /\ Absent # Corrupt /\ \A v : Whole(v) # Corrupt /\ Whole(v) # Absent
  /\ \A f \in File : f.values \in Values
  /\ Empty \in Values
BY DEF Absent, Corrupt, Whole, File, Empty, Values, None

\* Before anything is asked, memory and file agree and nothing is under way.
LEMMA InitStorage == StorageInit => StorageInv
<1> SUFFICES ASSUME StorageInit PROVE StorageInv
  OBVIOUS
<1>1. StorageTypeOK
  BY Files, EmptySeq DEF StorageInit, StorageTypeOK, NotLoaded, Resting, Workings, Places, None
<1>2. Progress
  BY DEF StorageInit, Progress, At, Resting, Saving
<1>3. AcknowledgedWritesSurvive
  BY DEF StorageInit, AcknowledgedWritesSurvive, NotLoaded, Whole, Absent, Empty
<1> QED BY <1>1, <1>2, <1>3 DEF StorageInv

\* Of any state that is well typed.
LEMMA Typed ==
  ASSUME StorageInv
  PROVE  /\ disk.file \in File /\ disk.temporary \in File
         /\ disk = [file |-> disk.file, temporary |-> disk.temporary]
         /\ memory.values \in Values /\ memory.loaded \in BOOLEAN
         /\ Whole(memory.values) \in File
BY Files DEF StorageInv, StorageTypeOK

\* The thread goes on with its task, or rests.
Goes(at) == working' \in Workings /\ working'.at = at /\ working'.task = working.task
Rests == working' \in Workings /\ working'.at = "idle"

\* Moving on in a save changes the place alone, and resting forgets the save.
LEMMA Going ==
  ASSUME StorageInv
  PROVE  (\A at \in Places : Go(at) => Goes(at)) /\ (working' = Resting => Rests)
<1>1. ASSUME NEW at \in Places, Go(at) PROVE Goes(at)
  BY <1>1 DEF StorageInv, StorageTypeOK, Workings, Go, Goes
<1>2. ASSUME working' = Resting PROVE Rests
  BY <1>2 DEF Rests, Resting, Workings, Places
<1> QED BY <1>1, <1>2

\* The temporary file changes, and the other does not.
LEMMA TemporaryChanges ==
  ASSUME StorageInv, NEW f \in File
  PROVE  LET changed == [disk EXCEPT !.temporary = f]
         IN /\ changed \in [file : File, temporary : File]
            /\ changed.file = disk.file /\ changed.temporary = f
BY DEF StorageInv, StorageTypeOK

\* JavaScript's calls wait behind the others.
LEMMA RunStep ==
  ASSUME StorageInv,
         NEW does \in {"write", "clear", "read"}, NEW k, NEW value, Run(does, k, value),
         [does |-> does, key |-> k, value |-> value] \in Task
  PROVE  StorageInv'
<1>1. tasks' \in Seq(Task) /\ accesses' \in Nat
  BY AppendProperties DEF Run, StorageInv, StorageTypeOK
<1>2. StorageTypeOK'
  BY <1>1 DEF Run, StorageInv, StorageTypeOK
<1>3. Progress' /\ AcknowledgedWritesSurvive'
  BY DEF Run, StorageInv, Progress, AcknowledgedWritesSurvive, At
<1> QED BY <1>2, <1>3 DEF StorageInv

\* A call of JavaScript only adds a task, so what the file holds stays true.
LEMMA StorageCallStep ==
  ASSUME StorageInv,
         (\E k \in Keys : SetValues(k) \/ RemoveValues(k)) \/ ClearStorage \/ GetValues
  PROVE  StorageInv'
<1>1. accesses + 1 \in Nat
  BY DEF StorageInv, StorageTypeOK
<1>2. ASSUME NEW k \in Keys, SetValues(k) \/ RemoveValues(k) PROVE StorageInv'
  BY <1>1, <1>2, RunStep DEF SetValues, RemoveValues, Task, None
<1>3. CASE ClearStorage \/ GetValues
  BY <1>3, RunStep DEF ClearStorage, GetValues, Task
<1> QED BY <1>2, <1>3

\* The storage thread takes the first task: setting, removing, clearing or getting.
LEMMA StartTaskStep ==
  ASSUME StorageInv, StartTask
  PROVE  StorageInv'
<1>1. Head(tasks) \in Task /\ tasks' \in Seq(Task)
  BY HeadTailProperties DEF StartTask, StorageInv, StorageTypeOK
<1>2. StorageTypeOK'
  BY <1>1 DEF StartTask, StorageInv, StorageTypeOK, Workings, Places
<1>3. Progress'
  BY <1>1 DEF StartTask, StorageInv, Progress, At, Saving
<1>4. AcknowledgedWritesSurvive'
  BY DEF StartTask, StorageInv, AcknowledgedWritesSurvive
<1> QED BY <1>2, <1>3, <1>4 DEF StorageInv

\* What is loaded was promised: a file that can be read, or none.
LEMMA LoadStep ==
  ASSUME StorageInv, Load
  PROVE  StorageInv'
<1>1. /\ UNCHANGED <<disk, tasks, accesses, crashes, promised>> /\ At("load")
      /\ working.task \in Task
  BY DEF Load, StorageInv, Progress, At
<1>2. \/ UNCHANGED memory
      \/ disk.file # Corrupt /\ memory' = [values |-> disk.file.values, loaded |-> TRUE]
  BY DEF Load
<1>3. memory' \in [values : Values, loaded : BOOLEAN]
  <2>1. CASE UNCHANGED memory
    BY <2>1 DEF StorageInv, StorageTypeOK
  <2>2. CASE memory' = [values |-> disk.file.values, loaded |-> TRUE]
    <3>1. disk.file.values \in Values
      BY Typed, Files
    <3> QED BY <2>2, <3>1
  <2> QED BY <1>2, <2>1, <2>2
<1>4. Rests \/ (Goes("work") /\ working.task.does # "read" /\ memory'.loaded)
  <2>1. working' = Resting \/ (Go("work") /\ working.task.does # "read" /\ memory'.loaded)
    BY DEF Load, Reject
  <2> QED BY <2>1, Going DEF Places
<1>5. StorageTypeOK'
  BY <1>1, <1>3, <1>4 DEF StorageInv, StorageTypeOK, Goes, Rests
<1>6. Progress'
  <2>1. CASE Rests
    BY <2>1 DEF Progress, At, Saving, Rests
  <2>2. CASE Goes("work") /\ working.task.does # "read" /\ memory'.loaded
    BY <1>1, <2>2 DEF Progress, At, Saving, Goes
  <2> QED BY <1>4, <2>1, <2>2
<1>7. AcknowledgedWritesSurvive'
  BY <1>1, <1>2 DEF StorageInv, AcknowledgedWritesSurvive
<1> QED BY <1>5, <1>6, <1>7 DEF StorageInv

\* A write promises its values before any of them is stored.
LEMMA WorkStep ==
  ASSUME StorageInv, Work
  PROVE  StorageInv'
<1> DEFINE values == Written(memory.values, working.task)
<1>1. /\ working.task \in Task /\ working.task.does # "read"
      /\ At("work") /\ UNCHANGED <<disk, tasks, accesses, crashes>>
      /\ memory' = [values |-> values, loaded |-> TRUE]
      /\ promised' = [k \in Keys |-> promised[k] \cup {values[k]}]
      /\ Goes("open")
  BY Going DEF Work, StorageInv, Progress, At, Places, Saving
<1>2. /\ values \in Values
      /\ \A k \in KnownToStorage(working.task) : values[k] = Written(Empty, working.task)[k]
  BY <1>1, WrittenType, Typed
<1> HIDE DEF values
<1>3. StorageTypeOK'
  <2>1. promised' \in [Keys -> SUBSET Nat]
    BY <1>1, <1>2 DEF StorageInv, StorageTypeOK, Values
  <2> QED BY <1>1, <1>2, <2>1 DEF StorageInv, StorageTypeOK, Goes
<1>4. Progress'
  <2>1. memory'.loaded /\ memory'.values = values
    BY <1>1
  <2> QED BY <1>1, <1>2, <2>1 DEF Progress, At, Saving, Goes
<1>5. AcknowledgedWritesSurvive'
  BY <1>1, <1>2 DEF StorageInv, AcknowledgedWritesSurvive, Values
<1> QED BY <1>3, <1>4, <1>5 DEF StorageInv

\* The steps of a save that change the temporary file only, or nothing.
LEMMA SaveStep ==
  ASSUME StorageInv, OpenTemporary \/ StoreString \/ ReadBack
  PROVE  StorageInv'
<1>1. /\ UNCHANGED <<memory, tasks, accesses, crashes, promised>>
      /\ working.at \in Saving
  BY DEF OpenTemporary, StoreString, ReadBack, At, Saving
<1>2. /\ disk'.file = disk.file
      /\ disk' \in [file : File, temporary : File]
  <2>1. disk' = disk \/ \E f \in {Corrupt, Absent, Whole(memory.values)} :
                          disk' = [disk EXCEPT !.temporary = f]
    BY DEF OpenTemporary, StoreString, ReadBack
  <2> QED BY <2>1, Typed, Files, TemporaryChanges DEF StorageInv, StorageTypeOK
<1>3. \/ Rests
      \/ Goes("store") /\ disk'.temporary = Corrupt
      \/ Goes("read back") /\ disk'.temporary \in {Corrupt, Whole(memory.values)}
      \/ Goes("rename") /\ disk'.temporary = Whole(memory.values)
  <2>1. CASE OpenTemporary
    BY <2>1, Files, Going, TemporaryChanges DEF OpenTemporary, Reject, Places, Saving
  <2>2. CASE StoreString
    BY <2>2, Typed, Going, TemporaryChanges
    DEF StoreString, StorageInv, Progress, At, Places, Saving
  <2>3. CASE ReadBack
    BY <2>3, Going DEF ReadBack, Reject, StorageInv, Progress, At, Places, Saving
  <2> QED BY <2>1, <2>2, <2>3
<1>4. StorageTypeOK'
  BY <1>1, <1>2, <1>3 DEF StorageInv, StorageTypeOK, Goes, Rests
<1>5. Progress'
  <2>1. CASE Rests
    BY <2>1 DEF Progress, At, Saving, Rests
  <2>2. CASE ~Rests
    <3>1. /\ working.task \in Task /\ working.task.does # "read" /\ memory'.loaded
          /\ \A k \in KnownToStorage(working.task) : memory'.values[k] = Written(Empty, working.task)[k]
      BY <1>1 DEF StorageInv, Progress, At, Saving
    <3> QED BY <1>1, <1>3, <2>2, <3>1 DEF Progress, At, Saving, Goes
  <2> QED BY <2>1, <2>2
<1>6. AcknowledgedWritesSurvive'
  BY <1>1, <1>2 DEF StorageInv, AcknowledgedWritesSurvive
<1> QED BY <1>4, <1>5, <1>6 DEF StorageInv

\* The file is replaced by one that holds the values in memory, which are promised.
LEMMA RenameStep ==
  ASSUME StorageInv, Rename
  PROVE  StorageInv'
<1>1. /\ UNCHANGED <<memory, tasks, accesses, crashes, promised>> /\ At("rename")
      /\ memory.loaded /\ disk.temporary = Whole(memory.values)
  BY DEF Rename, StorageInv, Progress, At, Saving
<1>2. \/ /\ disk' = [file |-> Whole(memory.values), temporary |-> Absent]
         /\ Goes("resolve")
      \/ UNCHANGED disk /\ Rests
  BY <1>1, Going DEF Rename, Reject, Places, Saving
<1>3. StorageTypeOK'
  <2>1. disk' \in [file : File, temporary : File]
    BY <1>2, Typed, Files DEF StorageInv, StorageTypeOK
  <2> QED BY <1>1, <1>2, <2>1 DEF StorageInv, StorageTypeOK, Goes, Rests
<1>4. Progress'
  <2>1. CASE Rests
    BY <2>1 DEF Progress, At, Saving, Rests
  <2>2. CASE Goes("resolve") /\ disk'.file = Whole(memory.values)
    BY <1>1, <2>2 DEF StorageInv, Progress, At, Saving, Goes
  <2> QED BY <1>2, <2>1, <2>2
<1>5. AcknowledgedWritesSurvive'
  BY <1>1, <1>2, Files, Typed DEF StorageInv, AcknowledgedWritesSurvive, Whole
<1> QED BY <1>3, <1>4, <1>5 DEF StorageInv

\* What the promise tells is in memory and in the file.
LEMMA ResolveStep ==
  ASSUME StorageInv, Resolve
  PROVE  StorageInv'
<1>1. /\ UNCHANGED <<disk, memory, tasks, accesses, crashes>>
      /\ Rests /\ disk.file = Whole(memory.values)
      /\ promised' = [k \in Keys |-> IF k \in KnownToStorage(working.task)
                                       THEN {Written(Empty, working.task)[k]} ELSE promised[k]]
      /\ \A k \in KnownToStorage(working.task) : memory.values[k] = Written(Empty, working.task)[k]
  BY Going DEF Resolve, KnownToStorage, StorageInv, Progress, At, Saving
<1>2. \A k \in Keys : promised'[k] = IF k \in KnownToStorage(working.task)
                                       THEN {memory.values[k]} ELSE promised[k]
  BY <1>1
<1>3. promised' \in [Keys -> SUBSET Nat]
  BY <1>1, <1>2, Typed DEF StorageInv, StorageTypeOK, Values
<1>4. StorageTypeOK'
  BY <1>1, <1>3 DEF StorageInv, StorageTypeOK, Rests
<1>5. Progress'
  BY <1>1 DEF Progress, At, Rests, Saving
<1>6. AcknowledgedWritesSurvive'
  BY <1>1, <1>2, Files, Typed DEF StorageInv, AcknowledgedWritesSurvive, Whole
<1> QED BY <1>4, <1>5, <1>6 DEF StorageInv

\* A crash leaves the files as they are, at whatever place it meets the thread.
LEMMA CrashStep ==
  ASSUME StorageInv, Crash
  PROVE  StorageInv'
<1>1. UNCHANGED <<disk, accesses, promised>> /\ Rests /\ ~memory'.loaded
  BY Going DEF Crash, NotLoaded
<1>2. StorageTypeOK'
  BY <1>1, Files, EmptySeq DEF Crash, StorageInv, StorageTypeOK, NotLoaded, Rests
<1>3. Progress' /\ AcknowledgedWritesSurvive'
  BY <1>1 DEF StorageInv, Progress, AcknowledgedWritesSurvive, At, Rests, Saving
<1> QED BY <1>2, <1>3 DEF StorageInv

\* Every step keeps the invariant: calls, tasks, each access of a save, failures, crashes.
LEMMA NextStorage == StorageInv /\ [StorageNext]_storageVars => StorageInv'
<1> SUFFICES ASSUME StorageInv, [StorageNext]_storageVars PROVE StorageInv'
  OBVIOUS
<1>1. CASE UNCHANGED storageVars
  BY <1>1 DEF storageVars, StorageInv, StorageTypeOK, Progress, AcknowledgedWritesSurvive, At
<1> QED
  BY <1>1, StorageCallStep, StartTaskStep, LoadStep, WorkStep, SaveStep, RenameStep, ResolveStep,
     CrashStep
  DEF StorageNext

\* What a promise said is stored stays stored, through failed steps, crashes and
\* rejected writes, for any database and any number of crashes.
THEOREM PromisesAreKept == StorageSpec => []AcknowledgedWritesSurvive
<1>1. StorageInv => AcknowledgedWritesSurvive
  BY DEF StorageInv
<1> QED BY <1>1, InitStorage, NextStorage, PTL DEF StorageSpec
=============================================================================
