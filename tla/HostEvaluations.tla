---------------------------- MODULE HostEvaluations ----------------------------
(***************************************************************************)
(* ReactNativeHost.evaluate() and load_segment(): the game asks for code or*)
(* for a segment to run and awaits a signal.  The current runtime runs it  *)
(* on its JavaScript thread and posts the outcome to the runtime's queue,  *)
(* which the main thread drains in its frame.  A reload retires the        *)
(* runtime, with whatever it has not answered, and the next runtime loads  *)
(* the startup segments and the segments that had loaded.                  *)
(*                                                                         *)
(* Evaluations are numbered as next_evaluation numbers them.  A handler of *)
(* the signal may call the host again: the signal is the last thing its    *)
(* step does, so such a call is a step of its own.  What JavaScript runs   *)
(* is one step with the post of its outcome, before which nothing of it    *)
(* can be seen.  Settings are valid; errors, the values of evaluations and *)
(* roots, which HostSurfaces follows, are left out.                        *)
(***************************************************************************)
EXTENDS Naturals, FiniteSets, SequencesExt

CONSTANTS Segments,        \* the paths of segments
          Startup,         \* the setting react_native/bundle/segments
          Code,            \* what evaluate() runs, in the place of a path
          MaxGenerations,  \* bound: runtimes
          MaxEvaluations,  \* bound: calls of evaluate() and load_segment()
          MaxDeferred      \* bound: reloads put off to the next frame

Generations == 1..MaxGenerations
Ids == 1..MaxEvaluations

ASSUME SegmentsAssumption == Startup \in Seq(Segments) /\ Code \notin Segments
ASSUME EvaluationBounds ==
  MaxGenerations \in Nat /\ MaxEvaluations \in Nat /\ MaxDeferred \in Nat

VARIABLES host,         \* the fields of ReactNativeHost and its instance
          evaluations,  \* the ids whose signal has not been emitted
          loaded,       \* loaded_segments
          asked,        \* history: what each evaluation asked for
          ended,        \* history: how each evaluation ended
          threads,           \* the tasks of each runtime's JavaScript thread
          ran,          \* history: the segments each runtime ran
          base,         \* history: the segments that had loaded when it started
          messages,     \* Godot's message queue: deferred _finish_evaluation calls
          frame, deferred,   \* where the frame is, and reloads that wait for the next
          metro, hasFile, files   \* the developer server, the bundle, segment files

evaluationVars == <<host, evaluations, loaded, asked, ended, threads, ran, base, messages, frame,
          deferred, metro, hasFile, files>>
game == <<evaluations, asked>>
world == <<metro, hasFile, files>>
history == <<ran, base>>

(* A segment to load and the evaluation it is for, 0 if for none.           *)
Segment == [path : Segments, id : Nat]
ThreadTask == [path : Segments \cup {Code}, id : Nat]
Host == [instance : 0..MaxGenerations, generation : 0..MaxGenerations,
         loaded : BOOLEAN, waiting : Seq(Segment), results : Seq([id : Ids, ok : BOOLEAN])]
Outcomes == {"none", "done", "failed", "dropped"}

EvaluationsInit ==
  /\ host = [instance |-> 0, generation |-> 0, loaded |-> FALSE,
             waiting |-> <<>>, results |-> <<>>]
  /\ evaluations = {}
  /\ loaded = <<>>
  /\ asked = <<>>
  /\ ended = [id \in Ids |-> "none"]
  /\ threads = [g \in Generations |-> <<>>]
  /\ ran = [g \in Generations |-> <<>>]
  /\ base = [g \in Generations |-> <<>>]
  /\ messages = <<>>
  /\ frame = "between"
  /\ deferred = 0
  /\ metro \in BOOLEAN /\ hasFile \in BOOLEAN
  /\ files \in {ToSet(Startup), Segments}

(***************************************************************************)
(* The runtime instance.  Its methods are functions of the host, the tasks *)
(* of the JavaScript threads and whether there is a bundle.                *)
(***************************************************************************)
Now == [host |-> host, threads |-> threads, file |-> hasFile]
Becomes(p) == host' = p.host /\ threads' = p.threads

\* _evaluate_segment(): a file that is missing fails through the queue as well.
EvaluateSegment(p, segment) ==
  IF segment.path \in files
    THEN [p EXCEPT !.threads[p.host.instance] = Append(@, segment)]
  ELSE IF segment.id = 0 THEN p
  ELSE [p EXCEPT !.host.results = Append(@, [id |-> segment.id, ok |-> FALSE])]

Again(paths) == [k \in 1..Len(paths) |-> [path |-> paths[k], id |-> 0]]

\* _bundle_loaded()
BundleLoaded(p) ==
  [FoldLeft(EvaluateSegment, p, Again(Startup) \o p.host.waiting)
     EXCEPT !.host.loaded = TRUE, !.host.waiting = <<>>]

\* Mutant of InstanceLoads: a segment does not wait for the bundle.
InstanceLoadsNow(p, segment) == EvaluateSegment(p, segment)

\* RNHostInstance::load_segment()
InstanceLoads(p, segment) ==
  IF p.host.loaded THEN EvaluateSegment(p, segment)
  ELSE [p EXCEPT !.host.waiting = Append(@, segment)]

(***************************************************************************)
(* The host's private methods.                                             *)
(***************************************************************************)
\* _start(), with a file or the developer server.  Only a download, unless it
\* fails at once, leaves the bundle to arrive later.
CanStart(p) == p.host.instance # 0 \/ metro \/ p.file
Start(p, later) ==
  IF p.host.instance # 0 \/ ~CanStart(p) THEN p
  ELSE LET next    == p.host.generation + 1
           fresh   == [p EXCEPT !.host.instance = next, !.host.generation = next]
           started == IF later THEN fresh ELSE BundleLoaded(fresh)
       IN FoldLeft(InstanceLoads, started, Again(loaded))
LoadDelays == IF metro THEN BOOLEAN ELSE {FALSE}
Remember(p) == base' = IF p.host.generation = host.generation THEN base
                       ELSE [base EXCEPT ![p.host.generation] = loaded]

\* Mutant of Retire: who waits for the old runtime is not told.
RetireQuietly == messages

\* _retire() completes every evaluation, as failed, from the message queue, and
\* closes the runtime's queue.
Unanswered ==
  CHOOSE q \in [1..Cardinality(evaluations) -> evaluations] :
    \A j, k \in DOMAIN q : j < k => q[j] < q[k]
Retire == IF host.instance = 0 THEN messages ELSE messages \o Unanswered
Retired(p) == [p EXCEPT !.host.instance = 0, !.host.loaded = FALSE,
                        !.host.waiting = <<>>, !.host.results = <<>>]

(***************************************************************************)
(* Calls of the game, between two frames or from a handler inside one.     *)
(***************************************************************************)
Calling == frame \in {"between", "processing"}
MayStart == host.generation + deferred < MaxGenerations

\* evaluate() and load_segment() start the runtime if there is none; without
\* one the evaluation fails from the message queue.
Ask(path) ==
  /\ Calling /\ Len(asked) < MaxEvaluations
  /\ host.instance = 0 => MayStart
  /\ LET id == Len(asked) + 1
         task == [path |-> path, id |-> id]
     IN /\ asked' = Append(asked, path)
        /\ evaluations' = evaluations \cup {id}
        /\ IF ~CanStart(Now)
             THEN messages' = Append(messages, id) /\ UNCHANGED <<host, threads, base>>
             ELSE \E later \in LoadDelays :
                    LET p == Start(Now, later) IN
                      /\ Becomes(IF path = Code
                                   THEN [p EXCEPT !.threads[p.host.instance] = Append(@, task)]
                                   ELSE InstanceLoads(p, task))
                      /\ Remember(p)
                      /\ UNCHANGED messages
  /\ UNCHANGED <<loaded, ended, ran, frame, deferred, world>>

Evaluate == Ask(Code)
LoadSegment(path) == Ask(path)

\* What reload() does outside a frame.
ReloadNow(p) ==
  /\ messages' = Retire
  /\ \E later \in LoadDelays :
       LET q == Start(Retired(p), later) IN Becomes(q) /\ Remember(q)

\* reload(), by the game or the developer server: inside a frame it waits.
ReloadSoon(p) ==
  /\ MayStart
  /\ IF frame = "between" THEN ReloadNow(p) /\ UNCHANGED deferred
     ELSE /\ deferred < MaxDeferred
          /\ deferred' = deferred + 1
          /\ UNCHANGED <<host, threads, base, messages>>

Reload ==
  /\ Calling /\ ReloadSoon(Now)
  /\ UNCHANGED <<game, loaded, ended, ran, frame, world>>

\* _bundle_changed() reloads if there is a runtime or a root.
BundleChanged ==
  /\ Calling
  /\ hasFile' \in BOOLEAN
  /\ \/ ReloadSoon([Now EXCEPT !.file = hasFile'])
     \/ host.instance = 0 /\ UNCHANGED <<host, threads, base, messages, deferred>>
  /\ UNCHANGED <<game, loaded, ended, ran, frame, metro, files>>

\* load_resource_pack() brings the segments that were not shipped with the bundle.
PackLoads ==
  /\ files' = Segments /\ files # Segments
  /\ UNCHANGED <<host, game, loaded, ended, threads, history, messages, frame, deferred,
                 metro, hasFile>>

(***************************************************************************)
(* What the runtime does.                                                  *)
(***************************************************************************)
\* The downloads of the bundle and its startup segments end.
BundleArrives ==
  /\ Calling /\ host.instance # 0 /\ ~host.loaded
  /\ Becomes(BundleLoaded(Now))
  /\ UNCHANGED <<game, loaded, ended, history, messages, frame, deferred, world>>

\* What JavaScript posts reaches the main thread only through an open queue.
Posted(g, task, ok) ==
  IF g # host.instance THEN host.results
  ELSE Append(host.results, [id |-> task.id, ok |-> ok])

\* The thread of a runtime runs its first segment or its first evaluation: the
\* scheduler orders them by priority and age.  The runtime may be retired.
IsFirst(g, k) ==
  \A j \in 1..(k - 1) : (threads[g][j].path = Code) # (threads[g][k].path = Code)

RunTask(g) ==
  \E k \in 1..Len(threads[g]), ok \in BOOLEAN :
    /\ IsFirst(g, k)
    /\ threads[g][k].path = Code => ok
    /\ LET task == threads[g][k] IN
         /\ threads' = [threads EXCEPT ![g] = RemoveAt(@, k)]
         /\ ran' = IF task.path = Code THEN ran
                   ELSE [ran EXCEPT ![g] = Append(@, [path |-> task.path, own |-> task.id = 0])]
         /\ host' = IF task.id = 0 THEN host
                    ELSE [host EXCEPT !.results = Posted(g, task, ok)]
    /\ UNCHANGED <<game, loaded, ended, base, messages, frame, deferred, world>>

(***************************************************************************)
(* The main thread.                                                        *)
(***************************************************************************)
\* Mutant of Finish: the evaluation is kept for whoever finishes it next.
FinishKeeps(id, ok) ==
  /\ evaluations' = evaluations
  /\ ended' = [ended EXCEPT ![id] = IF ok THEN "done" ELSE "failed"]

\* _finish_evaluation(): it emits `completed`, unless it has before.
Finish(id, ok) ==
  IF id \notin evaluations THEN UNCHANGED <<evaluations, ended>>
  ELSE /\ evaluations' = evaluations \ {id}
       /\ ended' = [ended EXCEPT ![id] = IF ok THEN "done" ELSE "failed"]

\* A result that drain() delivers: a segment joins the list before its signal.
Deliver ==
  /\ frame = "processing" /\ host.results # <<>>
  /\ LET result == Head(host.results)
         path == asked[result.id]
     IN /\ host' = [host EXCEPT !.results = Tail(@)]
        /\ loaded' = IF result.ok /\ path # Code /\ path \notin ToSet(loaded)
                       THEN Append(loaded, path) ELSE loaded
        /\ Finish(result.id, result.ok)
  /\ UNCHANGED <<asked, threads, history, messages, frame, deferred, world>>

Flush ==
  /\ frame = "between" /\ messages # <<>>
  /\ messages' = Tail(messages)
  /\ Finish(Head(messages), FALSE)
  /\ UNCHANGED <<host, loaded, asked, threads, history, frame, deferred, world>>

\* _process_frame(): the calls put off run first, then the runtime's frame.
FrameBegin ==
  /\ frame = "between"
  /\ frame' = IF deferred = 0 THEN "processing" ELSE "tasks"
  /\ UNCHANGED <<host, game, loaded, ended, threads, history, messages, deferred, world>>

RunDeferred ==
  /\ frame = "tasks"
  /\ deferred' = deferred - 1
  /\ frame' = IF deferred = 1 THEN "processing" ELSE "tasks"
  /\ ReloadNow(Now)
  /\ UNCHANGED <<game, loaded, ended, ran, world>>

FrameEnd ==
  /\ frame = "processing"
  /\ frame' = "between"
  /\ UNCHANGED <<host, game, loaded, ended, threads, history, messages, deferred, world>>

\* shutdown(): nobody is told any more.
Shutdown ==
  /\ frame = "between"
  /\ frame' = "closed"
  /\ Becomes(Retired(Now))
  /\ messages' = Retire
  /\ evaluations' = {}
  /\ ended' = [id \in Ids |-> IF id \in evaluations THEN "dropped" ELSE ended[id]]
  /\ UNCHANGED <<loaded, asked, history, deferred, world>>

Frame == FrameBegin \/ RunDeferred \/ FrameEnd

EvaluationsNext ==
  \/ Evaluate \/ Reload \/ BundleChanged \/ PackLoads
  \/ \E path \in Segments : LoadSegment(path)
  \/ \E g \in Generations : RunTask(g)
  \/ BundleArrives \/ Deliver \/ Flush \/ Frame \/ Shutdown

EvaluationsSafety == EvaluationsInit /\ [][EvaluationsNext]_evaluationVars

(* Frames and flushes alternate.  The current runtime's JavaScript returns  *)
(* from what it runs and no task is passed over for ever; a download ends.  *)
EvaluationsSpec ==
  /\ EvaluationsSafety
  /\ WF_evaluationVars(Frame) /\ SF_evaluationVars(Deliver) /\ SF_evaluationVars(Flush)
  /\ SF_evaluationVars(BundleArrives)
  /\ \A g \in Generations : WF_evaluationVars(RunTask(g))

(***************************************************************************)
(* Properties.                                                             *)
(***************************************************************************)
\* Evaluations that have not ended are kept for their signal, results belong to
\* the runtime there is, and segments wait only for its bundle.
EvaluationsTypeOK ==
  /\ host \in Host
  /\ host.instance \in {0, host.generation}
  /\ host.instance = 0 => host.results = <<>> /\ ~host.loaded
  /\ host.instance = 0 \/ host.loaded => host.waiting = <<>>
  /\ asked \in Seq(Segments \cup {Code}) /\ Len(asked) <= MaxEvaluations
  /\ ended \in [Ids -> Outcomes]
  /\ evaluations = {id \in 1..Len(asked) : ended[id] = "none"}
  /\ loaded \in Seq(Segments) /\ IsInjective(loaded)
  /\ threads \in [Generations -> Seq(ThreadTask)]
  /\ ran \in [Generations -> Seq([path : Segments, own : BOOLEAN])]
  /\ base \in [Generations -> Seq(Segments)]
  /\ messages \in Seq(Ids)
  /\ frame \in {"between", "tasks", "processing", "closed"}
  /\ deferred \in 0..MaxDeferred
  /\ metro \in BOOLEAN /\ hasFile \in BOOLEAN /\ files \subseteq Segments

\* Each signal is emitted once, although a retired runtime, a start that failed
\* and a late result may all want to complete it.
EndsOnce == [][\A id \in Ids : ended[id] # "none" => ended'[id] = ended[id]]_evaluationVars

\* A runtime runs the startup segments and those that had loaded before anything
\* the game asks of it, in the order they first loaded, and leaves out only what
\* is missing.  The order holds also while the bundle is still being downloaded.
\* What loads again is exactly what the game was told of: a segment that a reload
\* interrupts has not loaded, although JavaScript may have run it.
Own(g) == {k \in 1..Len(ran[g]) : ran[g][k].own}
SegmentsRunInOrder ==
  /\ EvaluationsTypeOK
  /\ ToSet(loaded) = {asked[id] : id \in {i \in 1..Len(asked) : ended[i] = "done"}} \ {Code}
  /\ \A g \in Generations :
       LET due == Startup \o base[g]
       IN /\ \A k \in Own(g) : 1..k \subseteq Own(g)
          /\ \E at \in [Own(g) -> 1..Len(due)] :
               \A k \in Own(g) : /\ ran[g][k].path = due[at[k]]
                                 /\ \A j \in 1..(k - 1) : at[j] < at[k]

\* Every evaluation ends: whoever awaits its signal goes on, also when reloads
\* retire the runtime that runs it, or there is none.
EveryEvaluationEnds == \A id \in Ids : id \in evaluations ~> id \notin evaluations
================================================================================
