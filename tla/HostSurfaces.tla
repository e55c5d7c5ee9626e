------------------------------ MODULE HostSurfaces ------------------------------
(***************************************************************************)
(* ReactNativeHost and the roots of the scene: every ReactNativeRootView   *)
(* that runs shows one surface of the one runtime, and the host starts,    *)
(* stops and restarts surfaces as roots come and go and the runtime is     *)
(* reloaded.                                                               *)
(*                                                                         *)
(* All of it happens on the main thread.  While the host processes a frame,*)
(* JavaScript's calls reach the game, whose handlers may call back into    *)
(* the host: register, restart and reload are put off to the next frame,   *)
(* unregister is not.                                                      *)
(*                                                                         *)
(* The host's fields are one record, and its methods functions of it.      *)
(* Surfaces are numbered 1, 2, 3 for the ids 1, 11, 21.  Settings that fail*)
(* validation, themes and layout are left out.                             *)
(***************************************************************************)
EXTENDS Naturals, SequencesExt, Functions

CONSTANTS Roots,
          Editor,          \* the editor, where editor_preview can stop a root
          Careful,         \* the game's handlers take no root out of the tree during
                           \* a frame, and reload no root that is not registered yet
          MaxGenerations,  \* bound: runtimes
          MaxSurfaces,     \* bound: surfaces when a call is made
          MaxDeferred      \* bound: calls put off to the next frame

ASSUME BoundsAssumption ==
  /\ Editor \in BOOLEAN /\ Careful \in BOOLEAN
  /\ MaxGenerations \in Nat /\ MaxSurfaces \in Nat /\ MaxDeferred \in Nat

VARIABLES host,        \* the fields of ReactNativeHost that follow roots
          inTree, preview, processing,   \* of each root: see _is_running, can_process
          hasFile,     \* ReactNativeFileSingleton has a bundle
          frame,       \* where the frame is
          deferred,    \* calls put off to the next frame
          pending      \* the calls this frame has taken over

vars == <<host, inTree, preview, processing, hasFile, frame, deferred, pending>>
scene == <<inTree, preview, processing>>
queues == <<frame, deferred, pending>>

Calls == [op : {"register", "restart"}, root : Roots] \cup [op : {"reload"}]

(* started: the surfaces JavaScript runs on the current runtime, which its  *)
(* teardown has to stop unless they are stopped before.                     *)
Host == [roots : Seq(Roots), tag : [Roots -> Nat], surfaces : SUBSET (Nat \X Roots),
         next : Nat, instance : Nat, generation : Nat, started : SUBSET Nat,
         suspended : BOOLEAN, connected : BOOLEAN]

Init ==
  /\ host = [roots |-> <<>>, tag |-> [r \in Roots |-> 0], surfaces |-> {}, next |-> 1,
             instance |-> 0, generation |-> 0, started |-> {}, suspended |-> FALSE,
             connected |-> FALSE]
  /\ inTree = [r \in Roots |-> FALSE]
  /\ preview = [r \in Roots |-> TRUE]
  /\ processing \in [Roots -> BOOLEAN]
  /\ hasFile \in BOOLEAN
  /\ frame = "between"
  /\ deferred = <<>> /\ pending = <<>>

(***************************************************************************)
(* The private methods.  w is what they see of the world around the host.  *)
(***************************************************************************)
World == [file |-> hasFile, able |-> {r \in Roots : inTree[r] /\ processing[r]}]
Has(h, r) == \E i \in 1..Len(h.roots) : h.roots[i] = r
Place(h, r) == CHOOSE i \in 1..Len(h.roots) : h.roots[i] = r

\* _update_suspension()
UpdateSuspension(h, w) ==
  IF h.instance = 0 THEN h
  ELSE [h EXCEPT !.suspended = h.roots # <<>> /\ \A r \in w.able : ~Has(h, r)]

\* _start()
Start(h, w) ==
  IF h.instance # 0 \/ ~w.file THEN h
  ELSE UpdateSuspension([h EXCEPT !.generation = @ + 1, !.instance = h.generation + 1,
                                  !.suspended = FALSE, !.connected = TRUE], w)

\* _start_surface() and RNHostInstance::start_surface()
StartSurface(h, r) ==
  [h EXCEPT !.tag[r] = h.next, !.surfaces = @ \cup {<<h.next, r>>},
            !.started = @ \cup {h.next}, !.next = @ + 1]

\* _stop_surface(): stop_surface() of the runtime, if there is one.
StopSurface(h, r) ==
  IF h.tag[r] = 0 THEN h
  ELSE [h EXCEPT !.tag[r] = 0, !.surfaces = {s \in @ : s[1] # h.tag[r]},
                 !.started = @ \ {h.tag[r]}]

\* The loops of _retire() and reload() over the registered roots.
StopAll(h) ==
  LET gone == {h.tag[r] : r \in {q \in Roots : Has(h, q)}}
  IN [h EXCEPT !.tag = [r \in Roots |-> IF Has(h, r) THEN 0 ELSE h.tag[r]],
               !.surfaces = {s \in @ : s[1] \notin gone}, !.started = @ \ gone]

StartAll(h) ==
  LET number(i) == h.next + i - 1
  IN [h EXCEPT !.tag = [r \in Roots |-> IF Has(h, r) THEN number(Place(h, r)) ELSE h.tag[r]],
               !.surfaces = @ \cup {<<number(i), h.roots[i]>> : i \in 1..Len(h.roots)},
               !.started = @ \cup {number(i) : i \in 1..Len(h.roots)},
               !.next = @ + Len(h.roots)]

\* Mutant of Retire: the roots keep showing what the old runtime mounted.
RetireQuietly(h) ==
  IF h.instance = 0 THEN h ELSE [h EXCEPT !.instance = 0, !.started = {}]

\* _retire(): the surfaces of the registered roots go with the runtime, which
\* stops them in its teardown.
Retire(h) ==
  IF h.instance = 0 THEN h
  ELSE [StopAll(h) EXCEPT !.instance = 0, !.started = {}]

\* The public methods, outside a frame.
Register(h, r, w) ==
  LET listed == IF Has(h, r) THEN h ELSE [h EXCEPT !.roots = Append(@, r)]
      ready  == IF h.tag[r] = 0 THEN Start(listed, w) ELSE listed
  IN UpdateSuspension(IF h.tag[r] = 0 /\ ready.instance # 0
                        THEN StartSurface(ready, r) ELSE ready, w)

Unregister(h, r, w) ==
  UpdateSuspension([StopSurface(h, r) EXCEPT !.roots =
                      IF Has(h, r) THEN RemoveAt(@, Place(h, r)) ELSE @], w)

RestartRoot(h, r, w) ==
  LET ready == Start(StopSurface(h, r), w)
  IN IF ready.instance # 0 THEN StartSurface(ready, r) ELSE ready

\* Mutant of ReloadAll: the new runtime starts with an empty screen.
ReloadRuntimeOnly(h, w) == Start(Retire(h), w)

ReloadAll(h, w) ==
  LET ready == Start(Retire(h), w)
  IN IF ready.instance # 0 THEN StartAll(ready) ELSE ready

(***************************************************************************)
(* Calls from the game, between two frames or from a handler inside one.   *)
(***************************************************************************)
InFrame == frame = "processing"
Calling == /\ frame # "tasks"
           /\ host.next <= MaxSurfaces /\ host.generation < MaxGenerations

\* _defer(): inside a frame the call waits, otherwise it is done now.
Deferrable(call, now) ==
  IF InFrame
    THEN /\ Len(deferred) < MaxDeferred
         /\ deferred' = Append(deferred, call)
         /\ UNCHANGED <<host, frame, pending>>
    ELSE host' = now /\ UNCHANGED queues

\* NOTIFICATION_ENTER_TREE; a root whose preview is off stays out.
EnterTree(r) ==
  /\ Calling /\ ~inTree[r]
  /\ inTree' = [inTree EXCEPT ![r] = TRUE]
  /\ UNCHANGED <<preview, processing, hasFile>>
  /\ IF preview[r] THEN Deferrable([op |-> "register", root |-> r], Register(host, r, World'))
                   ELSE UNCHANGED <<host, queues>>

\* NOTIFICATION_EXIT_TREE
ExitTree(r) ==
  /\ Calling /\ inTree[r] /\ (Careful => ~InFrame)
  /\ inTree' = [inTree EXCEPT ![r] = FALSE]
  /\ UNCHANGED <<preview, processing, hasFile>>
  /\ host' = Unregister(host, r, World')
  /\ UNCHANGED queues

\* set_editor_preview()
SetPreview(r) ==
  /\ Calling /\ Editor
  /\ preview' = [preview EXCEPT ![r] = ~@]
  /\ UNCHANGED <<inTree, processing, hasFile>>
  /\ IF ~inTree[r] THEN UNCHANGED <<host, queues>>
     ELSE IF preview'[r]
       THEN Deferrable([op |-> "register", root |-> r], Register(host, r, World))
       ELSE host' = Unregister(host, r, World) /\ UNCHANGED queues

\* ReactNativeRootView::reload(), for a new application key or new properties.
ReloadRoot(r) ==
  /\ Calling /\ inTree[r] /\ preview[r] /\ (Careful => Has(host, r))
  /\ Deferrable([op |-> "restart", root |-> r], RestartRoot(host, r, World))
  /\ UNCHANGED <<scene, hasFile>>

Reload ==
  /\ Calling
  /\ Deferrable([op |-> "reload"], ReloadAll(host, World))
  /\ UNCHANGED <<scene, hasFile>>

\* _bundle_changed(), when the watched file appears, changes or goes.
BundleChanged(exists) ==
  /\ Calling
  /\ hasFile' = exists
  /\ UNCHANGED scene
  /\ IF host.instance # 0 \/ host.roots # <<>>
       THEN Deferrable([op |-> "reload"], ReloadAll(host, World'))
       ELSE UNCHANGED <<host, queues>>

\* evaluate() and load_segment() start the runtime, inside a frame too.
Evaluate ==
  /\ Calling
  /\ host' = Start(host, World)
  /\ UNCHANGED <<scene, hasFile, queues>>

\* A root's process mode changes, or the tree is paused: root_state_changed().
RootStateChanged(r) ==
  /\ frame # "tasks"
  /\ processing' = [processing EXCEPT ![r] = ~@]
  /\ UNCHANGED <<inTree, preview, hasFile, queues>>
  /\ host' = IF inTree[r] THEN UpdateSuspension(host, World') ELSE host

(***************************************************************************)
(* _process_frame(): first the deferred calls, then the frame itself.      *)
(***************************************************************************)
FrameBegin ==
  /\ frame = "between" /\ host.connected
  /\ frame' = "tasks"
  /\ pending' = deferred /\ deferred' = <<>>
  /\ UNCHANGED <<host, scene, hasFile>>

\* Mutant of Run: a deferred call is lost when its root has moved meanwhile.
RunOnlyReloads(call) == IF call.op = "reload" THEN ReloadAll(host, World) ELSE host

\* A deferred register or restart looks at its root again.
Run(call) ==
  IF call.op = "reload" THEN ReloadAll(host, World)
  ELSE IF ~inTree[call.root] THEN host
  ELSE IF call.op = "register" THEN Register(host, call.root, World)
  ELSE RestartRoot(host, call.root, World)

RunDeferred ==
  /\ frame = "tasks" /\ pending # <<>>
  /\ host' = Run(Head(pending))
  /\ pending' = Tail(pending)
  /\ UNCHANGED <<scene, hasFile, frame, deferred>>

Process ==
  /\ frame = "tasks" /\ pending = <<>>
  /\ frame' = "processing"
  /\ UNCHANGED <<host, scene, hasFile, deferred, pending>>

FrameEnd ==
  /\ frame = "processing"
  /\ frame' = "between"
  /\ UNCHANGED <<host, scene, hasFile, deferred, pending>>

Frame == FrameBegin \/ RunDeferred \/ Process \/ FrameEnd

Next == \/ \E r \in Roots : \/ EnterTree(r) \/ ExitTree(r) \/ SetPreview(r)
                            \/ ReloadRoot(r) \/ RootStateChanged(r)
        \/ Reload \/ Evaluate
        \/ \E exists \in BOOLEAN : BundleChanged(exists)
        \/ Frame

SafetySpec == Init /\ [][Next]_vars

\* SceneTree emits process_frame again and again.
Spec == SafetySpec /\ WF_vars(Frame)

(***************************************************************************)
(* Properties.                                                             *)
(***************************************************************************)
TypeOK ==
  /\ host \in Host /\ IsInjective(host.roots)
  /\ inTree \in [Roots -> BOOLEAN] /\ preview \in [Roots -> BOOLEAN]
  /\ processing \in [Roots -> BOOLEAN]
  /\ hasFile \in BOOLEAN
  /\ frame \in {"between", "tasks", "processing"}
  /\ deferred \in Seq(Calls) /\ pending \in Seq(Calls)

Shown == {host.tag[r] : r \in Roots} \ {0}
Reloading == \E q \in {deferred, pending} : [op |-> "reload"] \in ToSet(q)

\* Every surface a root shows runs on the current runtime, and every surface the
\* runtime runs is shown: reloading restarts each one, a retired runtime leaves
\* none behind on the screen, its teardown stops all it has to stop, and
\* find_root() finds the root of each.
EverySurfaceIsServed ==
  /\ TypeOK
  /\ host.started = Shown
  /\ host.surfaces = {s \in Shown \X Roots : host.tag[s[2]] = s[1]}

\* Once there is a bundle and no reload is about to run, every registered root
\* shows a surface, those that registered while it was missing, too; and JavaScript
\* is suspended exactly while there are roots and none can process.
NoRootWaits ==
  /\ hasFile /\ ~Reloading => \A r \in Roots : Has(host, r) => host.tag[r] # 0
  /\ host.instance # 0 =>
       (host.suspended <=> host.roots # <<>> /\ \A r \in World.able : ~Has(host, r))

\* A root that entered the tree gets its surface, also when it entered during a
\* frame, unless it leaves, its preview is turned off, or there is no bundle.
Runs(r) == inTree[r] /\ preview[r]
EnteredRootStarts ==
  \A r \in Roots : Runs(r) ~> host.tag[r] # 0 \/ ~Runs(r) \/ ~hasFile
================================================================================
