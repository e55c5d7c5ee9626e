----------------------------- MODULE SceneBindings -----------------------------
(***************************************************************************)
(* RNSceneBindings and RNObjectRegistry: a root or a module of the game has *)
(* an attachment, the binding JavaScript is given follows it, and the hooks *)
(* useGodotScene() and useGodotModule() follow the binding by its events.   *)
(*                                                                         *)
(* The attachment's target is a node, which is there while it is in the     *)
(* tree, or another object, whose end nothing announces.  JavaScript's       *)
(* synchronous calls are single steps of the main thread, between which the  *)
(* game goes on.  All capabilities are one, so an object a script returns    *)
(* shares the handle of a binding to it.  Schemas are left out.              *)
(***************************************************************************)
EXTENDS Naturals, Sequences, SequencesExt

CONSTANTS ModuleScopes,   \* names of modules; the other scope is a root's tag
          Nodes, Objects, \* what bindings may be attached to
          MaxHandles,     \* the limit of object handles, 4096 in the code
          MaxGameSteps    \* bound: attachments, moves and changes by the game

RootScope == "root"
Scopes == ModuleScopes \cup {RootScope}
Targets == Nodes \cup Objects

ASSUME SceneBounds ==
  /\ IsFiniteSet(ModuleScopes) /\ RootScope \notin ModuleScopes /\ "none" \notin Targets
  /\ MaxHandles \in Nat /\ MaxGameSteps \in Nat

VARIABLES running,     \* does the root's surface run
          where,       \* of each target: "in" or "out" of the tree, or "gone"
          value,       \* of each target: how often its state changed
          attachment,  \* of each scope: the game's attachment
          bindings,    \* of each scope: the binding, once JavaScript asked for it
          handles,     \* the registry: token, scope and object of each handle
          nextToken,
          sequence,
          changes,     \* events on their way to JavaScript
          hook,        \* of each scope: the hook
          gameSteps,
          revoked,     \* history: the handles that bindings have given up
          refused      \* history: the scopes without a handle, since the registry was full

sceneVars == <<running, where, value, attachment, bindings, handles, nextToken, sequence, changes,
               hook, gameSteps, revoked, refused>>

None == [target |-> "none", identity |-> 0]
Unbound == [attachment |-> None, handle |-> 0]
Missing == [attachment |-> None, handle |-> 0, absent |-> TRUE]

SceneInit ==
  /\ running = TRUE
  /\ where = [t \in Targets |-> IF t \in Nodes THEN "out" ELSE "in"]
  /\ value = [t \in Targets |-> 0]
  /\ attachment = [s \in Scopes |-> None]
  /\ bindings = [s \in Scopes |-> Missing]
  /\ handles = {} /\ nextToken = 1 /\ sequence = 0 /\ changes = <<>>
  /\ hook = [s \in Scopes |-> [pc |-> "off", asked |-> 0, shown |-> 0, value |-> 0, sequence |-> 0]]
  /\ gameSteps = 0 /\ revoked = {} /\ refused = {}

(***************************************************************************)
(* RNObjectRegistry.                                                       *)
(***************************************************************************)
Gone(t, at) == at[t] = "gone"
Of(table, scope, t) == {h \in table : h.scope = scope /\ h.object = t}

\* register_object(): the table and the token, 0 when the table is full.
Registered(table, next, scope, t, at) ==
  LET known == Of(table, scope, t)
      kept  == IF Cardinality(table) < MaxHandles THEN table
               ELSE {h \in table : ~Gone(h.object, at)}
  IN IF Gone(t, at) THEN [table |-> table, token |-> 0, next |-> next]
     ELSE IF known # {}
       THEN [table |-> table, token |-> (CHOOSE h \in known : TRUE).token, next |-> next]
     ELSE IF Cardinality(kept) >= MaxHandles THEN [table |-> kept, token |-> 0, next |-> next]
     ELSE [table |-> kept \cup {[token |-> next, scope |-> scope, object |-> t]},
           token |-> next, next |-> next + 1]

(***************************************************************************)
(* RNSceneBindings.  A record holds what a refresh reads and changes.       *)
(***************************************************************************)
Native == [bindings |-> bindings, handles |-> handles, next |-> nextToken,
           sequence |-> sequence, changes |-> changes, revoked |-> revoked,
           refused |-> refused]

NativeBecomes(n) ==
  /\ bindings' = n.bindings /\ handles' = n.handles /\ nextToken' = n.next
  /\ sequence' = n.sequence /\ changes' = n.changes /\ revoked' = n.revoked
  /\ refused' = n.refused

\* Mutant of Publish: the event carries the sequence of the change before.
PublishLate(n, scope) ==
  [n EXCEPT !.sequence = @ + 1, !.refused = @ \ {scope},
            !.changes = Append(@, [scope |-> scope, sequence |-> n.sequence])]

\* _publish()
Publish(n, scope) ==
  [n EXCEPT !.sequence = @ + 1, !.refused = @ \ {scope},
            !.changes = Append(@, [scope |-> scope, sequence |-> n.sequence + 1])]

\* _disconnect()
Disconnected(n, scope) ==
  LET handle == n.bindings[scope].handle
  IN [n EXCEPT !.bindings[scope] = Unbound,
               !.handles = {h \in @ : h.token # handle},
               !.revoked = @ \cup ({handle} \ {0})]

\* _attachment() and live_target(): what the scope's binding should be.
Current(scope, at, given) ==
  IF given[scope] # None /\ at[given[scope].target] = "in" THEN given[scope] ELSE None

\* _refresh() of a binding JavaScript has asked for.
Refreshed(n, scope, at, given) ==
  LET now == Current(scope, at, given)
      off == LET d == Disconnected(n, scope)
             IN IF scope \in ModuleScopes
                  THEN [d EXCEPT !.handles = {h \in @ : h.scope # scope}] ELSE d
      reg == Registered(off.handles, off.next, scope, now.target, at)
  IN IF now = n.bindings[scope].attachment THEN n
     ELSE IF now = None THEN Publish(off, scope)
     ELSE IF reg.token = 0
       THEN [off EXCEPT !.handles = reg.table, !.refused = @ \cup {scope}]
     ELSE Publish([off EXCEPT !.handles = reg.table, !.next = reg.next,
                     !.bindings[scope] = [attachment |-> now, handle |-> reg.token]], scope)

\* close_scope()
Closed(n, scope) ==
  LET d == Disconnected(n, scope)
  IN [d EXCEPT !.bindings[scope] = Missing, !.handles = {h \in @ : h.scope # scope}]

\* binding_changed() of the scopes, at and given being the world as it has become.
Changed(scopes, at, given) ==
  NativeBecomes(FoldSet(
    LAMBDA s, n : IF n.bindings[s] = Missing THEN n ELSE Refreshed(n, s, at, given),
    Native, scopes))

\* _binding() creates the binding, unless its root does not run.
Asked(scope) ==
  LET n == IF bindings[scope] = Missing THEN [Native EXCEPT !.bindings[scope] = Unbound] ELSE Native
  IN IF scope = RootScope /\ ~running THEN Native ELSE Refreshed(n, scope, where, attachment)

(***************************************************************************)
(* The game.                                                               *)
(***************************************************************************)
GameStep == gameSteps < MaxGameSteps /\ gameSteps' = gameSteps + 1
AttachedTo(t) == {s \in Scopes : attachment[s] # None /\ attachment[s].target = t}

\* attach_scene_binding() and register_module()
Attach(scope, t) ==
  /\ GameStep /\ ~Gone(t, where)
  /\ attachment' = [attachment EXCEPT ![scope] = [target |-> t, identity |-> gameSteps']]
  /\ Changed({scope}, where, attachment')
  /\ UNCHANGED <<running, where, value, hook>>

\* detach_scene_binding() and unregister_module()
Detach(scope) ==
  /\ GameStep /\ attachment[scope] # None
  /\ attachment' = [attachment EXCEPT ![scope] = None]
  /\ Changed({scope}, where, attachment')
  /\ UNCHANGED <<running, where, value, hook>>

\* A node enters or leaves the tree, and its scopes are told.
Move(t) ==
  /\ GameStep /\ t \in Nodes /\ ~Gone(t, where)
  /\ where' = [where EXCEPT ![t] = IF @ = "in" THEN "out" ELSE "in"]
  /\ Changed(AttachedTo(t), where', attachment)
  /\ UNCHANGED <<running, value, attachment, hook>>

\* A target is freed: a node leaves the tree, an object ends without a word.
Free(t) ==
  /\ GameStep /\ ~Gone(t, where)
  /\ where' = [where EXCEPT ![t] = "gone"]
  /\ Changed(IF t \in Nodes THEN AttachedTo(t) ELSE {}, where', attachment)
  /\ UNCHANGED <<running, value, attachment, hook>>

\* The target's state changes and it emits the signal that bindings to it follow.
Emit(t) ==
  /\ GameStep /\ ~Gone(t, where)
  /\ value' = [value EXCEPT ![t] = @ + 1]
  /\ NativeBecomes(FoldSet(LAMBDA s, n : Publish(n, s), Native,
                     {s \in Scopes : bindings[s].attachment.target = t}))
  /\ UNCHANGED <<running, where, attachment, hook>>

\* The root's surface stops.
StopRoot ==
  /\ GameStep /\ running
  /\ running' = FALSE /\ NativeBecomes(Closed(Native, RootScope))
  /\ UNCHANGED <<where, value, attachment, hook>>

\* process_frame() of the bindings whose target has ended.
ProcessFrame ==
  /\ \E s \in Scopes : bindings[s].attachment # None
                       /\ where[bindings[s].attachment.target] # "in"
  /\ Changed({s \in Scopes : /\ bindings[s].attachment # None
                             /\ where[bindings[s].attachment.target] # "in"}, where, attachment)
  /\ UNCHANGED <<running, where, value, attachment, hook, gameSteps>>

(***************************************************************************)
(* JavaScript.                                                             *)
(***************************************************************************)
gameVars == <<running, where, value, attachment, gameSteps>>
Idle(scope) == hook[scope].pc = "idle"

\* The hook is mounted: it subscribes and reads.
Subscribe(scope) ==
  /\ hook[scope].pc = "off"
  /\ hook' = [hook EXCEPT ![scope].pc = "bind"]
  /\ UNCHANGED <<gameVars, bindings, handles, nextToken, sequence, changes, revoked, refused>>

\* update(): getBinding()
GetBinding(scope) ==
  /\ hook[scope].pc = "bind"
  /\ NativeBecomes(Asked(scope))
  /\ hook' = [hook EXCEPT ![scope] =
                IF bindings'[scope].handle = 0 THEN [@ EXCEPT !.pc = "idle", !.shown = 0]
                ELSE [@ EXCEPT !.pc = "read", !.asked = bindings'[scope].handle]]
  /\ UNCHANGED gameVars

\* invoke() with a handle: what it reaches.
Reached(n, scope, handle) ==
  IF n.bindings[scope].handle = handle /\ \E h \in n.handles : h.token = handle /\ h.scope = scope
    THEN n.bindings[scope].attachment.target ELSE "none"

\* ... and read() with the handle getBinding() gave.
Read(scope) ==
  /\ hook[scope].pc = "read"
  /\ NativeBecomes(Asked(scope))
  /\ LET t == Reached(Asked(scope), scope, hook[scope].asked)
     IN hook' = [hook EXCEPT ![scope] =
          IF t = "none" THEN [@ EXCEPT !.pc = "idle", !.shown = 0]
          ELSE [pc |-> "idle", asked |-> 0, shown |-> @.asked, value |-> value[t],
                sequence |-> sequence']]
  /\ UNCHANGED gameVars

IsNews(scope, change) == change.sequence > hook[scope].sequence

\* onChanged(): the hooks of the change's scope read again if it is news to them.
OnChanged ==
  /\ changes # <<>>
  /\ LET scope == Head(changes).scope
     IN /\ hook[scope].pc \in {"off", "idle"}
        /\ hook' = IF Idle(scope) /\ IsNews(scope, Head(changes))
                     THEN [hook EXCEPT ![scope].pc = "bind"] ELSE hook
  /\ changes' = Tail(changes)
  /\ UNCHANGED <<gameVars, bindings, handles, nextToken, sequence, revoked, refused>>

\* Mutant of StillBound: the binding is not looked at again after the script ran.
StillBoundBefore(before, after, scope, at) == TRUE

\* invoke() looks at the binding again when the script has run.
StillBound(before, after, scope, at) ==
  /\ after.bindings[scope] = before.bindings[scope]
  /\ at[before.bindings[scope].attachment.target] = "in"

\* A command, whose script may end the binding, returns an object, for which
\* JavaScript gets a handle.
Call(scope, t) ==
  LET n    == Asked(scope)
      mine == Reached(n, scope, hook[scope].shown)
      Return(m, at) ==
        LET r == Registered(m.handles, m.next, scope, t, at)
        IN NativeBecomes(IF StillBound(n, m, scope, at)
                     THEN [m EXCEPT !.handles = r.table, !.next = r.next] ELSE m)
  IN /\ hook[scope].shown # 0 /\ mine # "none"
     /\ \/ Return(n, where) /\ UNCHANGED gameVars
        \/ /\ GameStep /\ scope = RootScope
           /\ running' = FALSE /\ Return(Closed(n, scope), where)
           /\ UNCHANGED <<where, value, attachment>>
        \/ /\ GameStep
           /\ attachment' = [attachment EXCEPT ![scope] = None]
           /\ Return(Refreshed(n, scope, where, attachment'), where)
           /\ UNCHANGED <<running, where, value>>
        \/ /\ GameStep /\ mine \in Objects
           /\ where' = [where EXCEPT ![mine] = "gone"] /\ Return(n, where')
           /\ UNCHANGED <<running, value, attachment>>
     /\ UNCHANGED hook

GameSteps ==
  \/ StopRoot
  \/ \E s \in Scopes : Detach(s) \/ \E t \in Targets : Attach(s, t)
  \/ \E t \in Targets : Move(t) \/ Free(t) \/ Emit(t)
JavaScript ==
  \/ OnChanged
  \/ \E s \in Scopes : Subscribe(s) \/ GetBinding(s) \/ Read(s) \/ \E t \in Targets : Call(s, t)
SceneNext == GameSteps \/ ProcessFrame \/ JavaScript
SceneSpec == SceneInit /\ [][SceneNext]_sceneVars

(***************************************************************************)
(* Properties.                                                             *)
(***************************************************************************)
(* A handle that a binding gave up, since its target left, ended or was     *)
(* replaced, is never accepted again, even for a binding to the same object *)
(* and although objects that scripts return share a binding's handle.  The  *)
(* handle of a binding resolves to the binding's own target while that      *)
(* exists (a full registry forgets it before the next frame), and a root that *)
(* has stopped, though it be in a script JavaScript called, leaves none.    *)
HandlesStayRevoked ==
  /\ ~running => \A h \in handles : h.scope # RootScope
  /\ \A h \in handles : h.token \notin revoked
  /\ \A s \in Scopes :
       LET t == bindings[s].attachment.target
       IN (bindings[s].handle # 0 /\ ~Gone(t, where)) =>
            [token |-> bindings[s].handle, scope |-> s, object |-> t] \in handles
  /\ Cardinality(handles) <= MaxHandles

(* A binding of a hook that read is attached as the game says, until an       *)
(* object ends without a word; and when no event is on its way and no read is *)
(* going on, the hook shows the state that the binding's target has and the   *)
(* handle that calls it, or nothing if there is no binding: no order of       *)
(* attachments, moves, changes and reads leaves it with what it read before.  *)
(* What a full registry refuses is no event, though, and the hook stays.      *)
HookShowsTheBinding ==
  \A s \in Scopes \ refused :
    (Idle(s) /\ (s = RootScope => running)) =>
      /\ \/ bindings[s].attachment = Current(s, where, attachment)
         \/ bindings[s].attachment # None /\ Gone(bindings[s].attachment.target, where)
      /\ changes = <<>> =>
           /\ hook[s].shown = bindings[s].handle
           /\ hook[s].shown # 0 => hook[s].value = value[bindings[s].attachment.target]

=================================================================================
