-------------------------------- MODULE Mounting --------------------------------
(***************************************************************************)
(* RNMountingManager, RNComponentViewRegistry and RNComponentView: React    *)
(* commits transactions of mutations on JavaScript's thread, one posted     *)
(* flush hands them to the surface's views on the main thread, and the      *)
(* Godot tree must end as React's.  A view that is removed keeps its control *)
(* where it is, marked as detaching, until the transaction ends, since it   *)
(* may only be moving.                                                      *)
(*                                                                         *)
(* One surface is modelled; surfaces share nothing but the flush.  Props,   *)
(* layouts, states and emitters of views are left out, and so are controls  *)
(* that a container holds besides the views'.  React flattens views, which  *)
(* moves one to another parent but never above its own ancestor: a parent   *)
(* has a lower tag than its child.                                          *)
(***************************************************************************)
EXTENDS Naturals, Sequences, FiniteSets, SequencesExt

CONSTANTS Views,             \* bound: the tags of views are 1..Views
          MaxMutations,      \* bound: mutations of all transactions
          MaxTransactions,   \* bound: transactions committed
          MaxTasks           \* bound: tasks that wait in the queue

ASSUME MountingBounds == Views \in Nat /\ Views >= 2 /\ MaxTransactions \in Nat

Root == 0
ViewTags == 1..Views
Parents == {Root} \cup ViewTags
NoView == Views + 1

VARIABLES react,          \* React's tree: the views and the children of each
          building,       \* mutations of the transaction React is building
          mutations,      \* mutations so far
          commits,        \* transactions committed so far
          pending,        \* committed transactions that wait for a flush
          flushScheduled,
          mountTasks,     \* flushes and commands in the main thread's queue
          batch,          \* transactions a running flush has taken
          registry,       \* the surface's views and controls
          mounted,        \* history: the transactions applied or dropped, and
                          \* the last that was applied
          found,          \* history: did the last command find its view
          registered      \* is the surface registered

mountingVars == <<react, building, mutations, commits, pending, flushScheduled, mountTasks, batch,
                  registry, mounted, found, registered>>

\* A tree of views, and the registry that mirrors it.  nodes: the children of each
\* control in the Godot tree, of which those in detaching are marked.  freed: views whose
\* control was freed with another's.
NoTree == [views |-> {}, children |-> [p \in Parents |-> <<>>]]
Mirror(tree) == [views |-> tree.views, nodes |-> tree.children, detaching |-> {},
                 removed |-> <<>>, freed |-> {}]

\* The surface has mounted a view that holds another.
Tree0 == [views |-> {1, 2},
          children |-> [p \in Parents |-> IF p \in {0, 1} THEN <<p + 1>> ELSE <<>>]]

MountingInit ==
  /\ react = Tree0 /\ building = <<>> /\ mutations = 0 /\ commits = 0
  /\ pending = <<>> /\ flushScheduled = FALSE /\ mountTasks = <<>> /\ batch = <<>>
  /\ registry = Mirror(Tree0) /\ mounted = [count |-> 0, tree |-> Tree0]
  /\ found = TRUE /\ registered = TRUE

(***************************************************************************)
(* React, on JavaScript's thread.                                          *)
(***************************************************************************)
ParentIn(children, t) ==
  IF \E p \in Parents : t \in Range(children[p])
    THEN CHOOSE p \in Parents : t \in Range(children[p]) ELSE NoView

Mutations ==
     [op : {"create", "delete"}, tag : ViewTags]
  \cup [op : {"insert"}, parent : Parents, tag : ViewTags, index : 0..Views]
  \cup [op : {"remove"}, parent : Parents, tag : ViewTags]

\* What React's differ may emit next, and the tree it leaves.
Legal(tree, m) ==
  LET held == ParentIn(tree.children, m.tag)
  IN CASE m.op = "create" -> m.tag \notin tree.views
       [] m.op = "delete" -> /\ m.tag \in tree.views /\ held = NoView
                             /\ tree.children[m.tag] = <<>>
       [] m.op = "insert" -> /\ m.tag \in tree.views /\ held = NoView /\ m.parent < m.tag
                             /\ m.parent \in tree.views \cup {Root}
                             /\ m.index <= Len(tree.children[m.parent])
       [] OTHER -> held = m.parent

Diffed(tree, m) ==
  CASE m.op = "create" -> [tree EXCEPT !.views = @ \cup {m.tag}]
    [] m.op = "delete" -> [tree EXCEPT !.views = @ \ {m.tag}]
    [] m.op = "insert" -> [tree EXCEPT !.children[m.parent] = InsertAt(@, m.index + 1, m.tag)]
    [] OTHER -> [tree EXCEPT !.children[m.parent] = RemoveFirst(@, m.tag)]

Diff ==
  /\ commits < MaxTransactions /\ mutations < MaxMutations
  /\ \E m \in Mutations : /\ Legal(react, m)
                          /\ react' = Diffed(react, m)
                          /\ building' = Append(building, m)
  /\ mutations' = mutations + 1
  /\ UNCHANGED <<commits, pending, flushScheduled, mountTasks, batch, registry, mounted,
                 found, registered>>

\* History: a command of which a later transaction deletes the view may miss it.
Marked == [i \in DOMAIN mountTasks |->
  IF /\ mountTasks[i].op = "command"
     /\ \E j \in DOMAIN building : /\ building[j].op = "delete"
                                   /\ building[j].tag = mountTasks[i].tag
    THEN [mountTasks[i] EXCEPT !.deleted = TRUE] ELSE mountTasks[i]]

\* Mutant of ExecuteMount: the flush is scheduled again only when the last has ended.
ExecuteMountLate ==
  /\ pending' = Append(pending, [list |-> building, tree |-> react])
  /\ mountTasks' = IF flushScheduled \/ batch # <<>> THEN Marked
                   ELSE Append(Marked, [op |-> "flush"])
  /\ flushScheduled' = TRUE

\* executeMount(), under the mutex.
ExecuteMount ==
  /\ pending' = Append(pending, [list |-> building, tree |-> react])
  /\ mountTasks' = IF flushScheduled THEN Marked ELSE Append(Marked, [op |-> "flush"])
  /\ flushScheduled' = TRUE

\* React commits a transaction that leaves no view out of the tree.
Commit ==
  /\ building # <<>> /\ react.views = {t \in react.views : ParentIn(react.children, t) # NoView}
  /\ ExecuteMount
  /\ commits' = commits + 1 /\ building' = <<>>
  /\ UNCHANGED <<react, mutations, batch, registry, mounted, found, registered>>

\* dispatchCommand()
DispatchCommand ==
  /\ building = <<>> /\ Len(mountTasks) < MaxTasks
  /\ \E t \in react.views : 
       mountTasks' = Append(mountTasks, [op |-> "command", tag |-> t, deleted |-> FALSE])
  /\ UNCHANGED <<react, building, mutations, commits, pending, flushScheduled, batch, registry,
                 mounted, found, registered>>

(***************************************************************************)
(* The views, on the main thread.                                          *)
(***************************************************************************)
Holder(r, t) == ParentIn(r.nodes, t)

\* What a control holds, children and below.
Under(r, t) ==
  LET under[p \in Parents] == LET own == Range(r.nodes[p]) IN own \cup UNION {under[c] : c \in own}
  IN  under[t]

Unparented(r, t) ==
  IF Holder(r, t) = NoView THEN r ELSE [r EXCEPT !.nodes[Holder(r, t)] = RemoveFirst(@, t)]

\* finish_removal()
FinishRemoval(r, t) ==
  IF t \in r.views /\ t \in r.detaching
    THEN [Unparented(r, t) EXCEPT !.detaching = @ \ {t}] ELSE r

Create(r, t) == [r EXCEPT !.views = @ \cup {t}]

\* ~RNComponentView() frees the control with all it holds.
Freed(r, t) ==
  LET gone == Under(r, t) IN
  [Unparented(r, t) EXCEPT !.views = @ \ {t}, !.detaching = @ \ {t}, !.freed = @ \cup gone,
                           !.nodes = [p \in Parents |-> IF p \in gone \cup {t} THEN <<>> ELSE @[p]]]

\* Mutant of Destroy: children that wait to be detached are freed with their parent.
DestroyAll(r, t) == Freed(r, t)

\* destroy() first detaches the removed views this control still holds.
Destroy(r, t) ==
  Freed(FoldLeft(LAMBDA s, pair : IF pair[1] = t \/ pair[2] \in Under(s, t)
                                    THEN FinishRemoval(s, pair[2]) ELSE s, r, r.removed), t)

\* insert_child(): before the sibling that is at the index, detaching ones not counted.
Anchor(siblings, detaching, index) ==
  LET anchors == {i \in DOMAIN siblings :
                    /\ siblings[i] \notin detaching
                    /\ Cardinality({j \in 1..(i - 1) : siblings[j] \notin detaching}) = index}
  IN IF anchors = {} THEN Len(siblings) + 1 ELSE CHOOSE i \in anchors : TRUE

InsertChild(r, p, t, index) ==
  LET s == [Unparented(r, t) EXCEPT !.detaching = @ \ {t}]
  IN  [s EXCEPT !.nodes[p] = InsertAt(@, Anchor(@, s.detaching, index), t)]

\* remove_child()
RemoveChild(r, p, t) ==
  [r EXCEPT !.detaching = IF Holder(r, t) = p THEN @ \cup {t} ELSE @,
            !.removed = Append(@, <<p, t>>)]

Mutated(r, m) ==
  CASE m.op = "create" -> Create(r, m.tag)
    [] m.op = "delete" -> Destroy(r, m.tag)
    [] m.op = "insert" -> InsertChild(r, m.parent, m.tag, m.index)
    [] OTHER -> RemoveChild(r, m.parent, m.tag)

\* Mutant of TakePending: a flush takes one transaction and leaves the next to another.
TakeFirst ==
  /\ batch = <<>> /\ mountTasks # <<>> /\ Head(mountTasks).op = "flush"
  /\ batch' = <<Head(pending)>> /\ pending' = Tail(pending)
  /\ flushScheduled' = (pending' # <<>>)
  /\ mountTasks' = IF pending' = <<>> THEN Tail(mountTasks)
                   ELSE Append(Tail(mountTasks), [op |-> "flush"])
  /\ UNCHANGED <<react, building, mutations, commits, registry, mounted, found, registered>>

\* _flush() takes what is pending, under the mutex, when its task runs.
TakePending ==
  /\ batch = <<>> /\ mountTasks # <<>> /\ Head(mountTasks).op = "flush"
  /\ mountTasks' = Tail(mountTasks)
  /\ batch' = pending /\ pending' = <<>> /\ flushScheduled' = FALSE
  /\ UNCHANGED <<react, building, mutations, commits, registry, mounted, found, registered>>

Later == Tail(batch)
Current == Head(batch)

\* ... and apply() each in order: its mutations,
ApplyMutation ==
  /\ batch # <<>> /\ registered /\ Current.list # <<>>
  /\ registry' = Mutated(registry, Head(Current.list))
  /\ batch' = <<[Current EXCEPT !.list = Tail(@)]>> \o Later
  /\ UNCHANGED <<react, building, mutations, commits, pending, flushScheduled, mountTasks,
                 mounted, found, registered>>

\* then the removals that were no moves.  A stopped surface's transactions are dropped.
EndTransaction ==
  /\ batch # <<>> /\ (registered => Current.list = <<>>)
  /\ registry' = IF ~registered THEN registry
                 ELSE [FoldLeft(LAMBDA r, pair : FinishRemoval(r, pair[2]), registry,
                                registry.removed) EXCEPT !.removed = <<>>]
  /\ mounted' = [count |-> mounted.count + 1,
                 tree |-> IF registered THEN Current.tree ELSE mounted.tree]
  /\ batch' = Later
  /\ UNCHANGED <<react, building, mutations, commits, pending, flushScheduled, mountTasks,
                 found, registered>>

\* The command's task: it reaches the view or is dropped.
RunCommand ==
  /\ batch = <<>> /\ mountTasks # <<>> /\ Head(mountTasks).op = "command"
  /\ mountTasks' = Tail(mountTasks)
  /\ found' = (registered /\ Head(mountTasks).tag \in registry.views)
  /\ UNCHANGED <<react, building, mutations, commits, pending, flushScheduled, batch, registry,
                 mounted, registered>>

\* unregister_surface() and the root's views are cleared.
StopSurface ==
  /\ registered /\ batch = <<>>
  /\ registered' = FALSE /\ registry' = Mirror(NoTree)
  /\ mounted' = [mounted EXCEPT !.tree = NoTree]
  /\ UNCHANGED <<react, building, mutations, commits, pending, flushScheduled, mountTasks, batch,
                 found>>

Drained == TakePending \/ ApplyMutation \/ EndTransaction \/ RunCommand
MountingNext == Diff \/ Commit \/ DispatchCommand \/ Drained \/ StopSurface

\* The queue is drained every frame and a flush runs to its end.
MountingSpec == MountingInit /\ [][MountingNext]_mountingVars /\ WF_mountingVars(Drained)

(***************************************************************************)
(* Properties.                                                             *)
(***************************************************************************)
(* The views are React's at every mutation: no view that is still registered *)
(* loses its control to another's deletion, and when a transaction has ended *)
(* each container holds the controls of React's children in React's order,  *)
(* with none left behind marked as detaching.                               *)
TreeIsTheCommitted ==
  /\ registry.freed \cap registry.views = {}
  /\ registry.removed = <<>> => registry.detaching = {}
  /\ batch = <<>> => /\ registry.views = mounted.tree.views
                     /\ registry.nodes = mounted.tree.children
                     /\ registry.removed = <<>>

(* A command that React dispatched to a view it had committed reaches it,   *)
(* whatever was committed and flushed around it, unless the surface stopped *)
(* or a transaction committed after the command deleted the view.           *)
CommandFindsItsView ==
  [][RunCommand /\ registered /\ ~Head(mountTasks).deleted => found']_mountingVars

(* Mounting catches up with React, whose commits the bound ends: every       *)
(* transaction is mounted or dropped with its surface, also one that is     *)
(* committed while a flush is at work.                                      *)
EveryTransactionMounts == commits > mounted.count ~> commits = mounted.count

=================================================================================
