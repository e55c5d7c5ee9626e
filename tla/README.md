# A verification project for the React Native bindings of Godot

The repository hosts the C++ core of React Native inside the Godot engine: React components are
mounted as Godot controls, and JavaScript runs on a thread of its own beside Godot's main thread.
The code is under `src/modules/react_native_bindings`, called RNB below.  This directory holds TLA+
models of the parts of it where threads, frames, callbacks and teardowns meet, the TLC
configurations that check them, and proofs for TLAPS.

    tlc -workers 2 -config MCMainThread.cfg MCMainThread     # checks a run
    tlapm MainThreadProofs.tla                               # checks proofs, as of every *Proofs module

## 1. The system

### Threads, and how they meet

| thread | runs | reaches others by |
|---|---|---|
| Godot's main thread | frames (`process_frame`), the scene, all Godot API | calls into the runtime, which queue tasks for JavaScript |
| JavaScript's thread | one task of React's `RuntimeScheduler` at a time | `RNMainThreadQueue::post`, and `run_sync`, which blocks |
| the timer thread | `GodotTimerRegistry::fire` | `callTimer`, `scheduleWork` (tasks for JavaScript) |
| the storage thread | files of `RNAsyncStorageModule`, outlives a runtime | results as tasks for JavaScript |
| a teardown thread per retired runtime | `RNHostTeardown::_run` | everything above, in order |
| workers of Godot's `HTTPRequest` | one transfer each | `request_completed`, through the main thread's message queue |

The main thread drains the queue once per frame.  A frame calls JavaScript's requests into the game
and the game's handlers may call back into the host, so methods of the host run inside one another.

### Components

| component | state | operations | what is hard | correct when |
|---|---|---|---|---|
| main-thread queue (`host/rn_main_thread_queue.*`) | tasks, closed | post, run_sync, drain, close | callers on any thread against batches, waits and close | a blocked caller is released and told the truth, and no work runs after its caller left or after close |
| timers (`react_platform/.../GodotTimerRegistry.*`) | timers with ticks, paused | create, delete, pause, fire, quit | stale entries, the gap after an unlock, the queued mark | one entry per timer, never early, not lost, at most one tick waiting |
| HTTP service (`native_modules/rn_http_service.*`) | requests, queue, slots, budget | submit, cancel, frame, completion, drain, shutdown | completions that call back into the loop that runs them; answers that outlive their lease | every request ends once, with its own answer, and the budget is exact |
| host and roots (`host/react_native_host.*`, `root_view/*`) | roots, surfaces, runtime, deferred calls | register, restart, unregister, reload, frame | calls put off to a frame that finds another world | what is shown runs on the current runtime, and the reverse |
| teardown (`host/rn_host_teardown.*`, `rn_host_instance.*`) | marker, interrupt, surfaces | retire, run, wait until idle, finish | JavaScript that is busy, blocked or endless; an interrupt that comes late | quitting returns, surfaces stop in order, storage is finished |
| evaluations and segments (host) | pending evaluations, loaded segments, a runtime's waiting ones | evaluate, load_segment, retire, shutdown | completed by a result, a failed start or a reload | each completes once, and what loaded loads again in order |
| mounting (`mounting/*`) | pending transactions, view registry | executeMount, flush, dispatchCommand, create, delete, insert, remove | batches between two threads; deletes that hold what still moves | views follow transactions in order, commands find theirs |
| alerts (`turbomodules/rn_godot_alerts.*`) | requests with an owner | request, reply, decline, complete, dismiss, close | ownership passes between JavaScript, game and dialog | one owner, one completion |
| scene bindings, object registry (`rn_godot_scene_module`, `interop/*`) | bindings, handles, hooks | get, invoke, refresh, subscribe, close | a script that changes its own binding; a hook that reads before it listens | revoked handles stay revoked, hooks show what is bound |
| script and host modules (`rn_game_modules`, `rn_game_services`) | modules, watched actions, captures | watch, capture, cancel, input | listeners that come and go between a press and its release | releases are told, a capture settles once |
| network modules, WebSockets, blobs | ids, sockets, buffers | connect, send, close, poll; create, release, pin, collect | frames, releases and collections at once | JavaScript hears in order; bytes last as long as someone refers to them |
| image service, images | loads shared by key, cache, budget | request, cancel, decode, evict | last subscriber leaves as the result comes | one load, one release, the picture last asked for |
| async storage files | one file per database | get, set, remove, clear | a failure or a crash between any two accesses | what was acknowledged survives |
| text input | native text, event count, deferred value | type, compose, reconcile, props, command | values that cross the user's typing | nothing typed is lost unseen; the value wins in the end |
| input router | hover, mouse, fingers | press, move, release, cancel, destroy | whatever takes a touch away | each touch ends once where it started |
| resource requests | subscribers by path | request, cancel, poll | a completion that cancels its neighbour | no call after cancel |
| other components, layout, animation clock | controls | props, events, layout | mostly data | what is drawn follows the props |
| values, schemas, cookies, settings, logging, developer tools, editor, packages, generated code | little or none | conversions and I/O | large input spaces, no interleaving | unit tests |

`PROJECT.json` lists each component with its sources and status, and 40 hazards of this code at the
lines where they bite, with the properties that would catch them.

## 2. The modules

A definition of a module carries the name of the method it translates.  Every variable is a field
of the class, or a local variable of a method that is in progress, or the state of a thread; those
that only record history are marked.  The body of a definition named "Mutant of X" is X with a
plausible mistake; the properties are tried against them.

### MainThreadQueue, with SyncCalls

`tasks`, `closed` are the fields of `RNMainThreadQueue`; `pending`, `open`, `answered` the locals of
`drain()` and `main` its program counter; `call` is where each caller's `run_sync` is.  A step is
what one thread does under one acquisition of the mutex, or one task's work, so `close()` and
`post()` may come from inside a task.  The 200 µs wait and the 4 ms budget only decide when a wait
gives up; `WaitTimeout` may happen whenever there is nothing to take.  `SyncCalls` states what
`run_sync` promises without a queue: one piece of work at a time, none after the door is shut, the
truth about what ran.  `Abstract` is the refinement mapping.

### TimerRegistry

The registry's fields, the entries of `TaskDispatchThread` (`scheduled`), the timer whose `fire()`
is between its unlock and its last call (`firing`), and JavaScript's tasks (`js`).  Time is counted
in units of 1/`Grain` ms so that the truncation of `schedule()` shows.  `owed` and `cuts` are
history: what a timer still owes of its delay, and how often a resume cut it.

### HttpService

The fields of `RNHTTPService`.  Calls inside calls are kept on `stack`: the rest of a loop over
expired requests, the loop that starts requests, a callback, the trimming at the end of `_drained`.
`Settle` pushes a callback, in which the caller may submit and cancel before it returns; `MaxDepth`
bounds how deep.  `deferred` is the main thread's message queue with the completions of workers and
the service's own `_drained`; a message names the lease (`sent`) it was made for, which the code
does not know and `ResponseIsOwn` compares.

### HostSurfaces

The host's fields that follow roots are the record `host`; the private methods are functions of it,
so that `reload()` is the composition of `_retire()`, `_start()` and `_start_surface()` that the code
is.  `frame` is where `_process_frame()` is, `deferred` what is put off to the next one and `pending`
what this one has taken over.  `started` are the surfaces the current runtime runs.

### HostEvaluations

`host` holds the current instance, whether its bundle has loaded, the segments that wait for it and
the results in its queue; `threads` the tasks of every runtime's JavaScript thread, also of those retired,
which go on running what they had.  The queue of a runtime is empty and closed once it is retired, so
`Posted` drops what comes late.  An evaluation ends by `Deliver`, from the frame that drains the
queue, or by `Flush`, from the message queue in which `_retire()` and a failed start leave it.
`base` and `ran` are history: what had loaded when a runtime started, and what it ran.

### HostTeardown

Three threads: the main thread that retires and joins, JavaScript's thread with the tasks that
wait for it, and the teardown thread with `pc` in `_run()` or, between `wait` and `next`, in
`_wait_until_idle()`.  `marker` is the `IdleMarker`, `armed` Hermes' triggered timeout.  `more` of a
task is how much of a chain of storage calls, each made by the result of the one before, is left.

### Mounting

`react` is the tree React has committed and `building` the transaction it is at, one legal mutation
at a time, on JavaScript's thread; `pending` and `flushScheduled` are what `executeMount` guards with
its mutex; `mountTasks` the flushes and commands in the main thread's queue; `batch` what a running
flush has taken.  `registry` holds the views and, per control, the children in the Godot tree with
those marked as detaching.  `mounted` follows the transactions that were applied, so
`TreeIsTheCommitted` compares two trees that were built by different rules.

### Alerts

An `alert` has the mode of its presenter, its owner and its dialog; `calls` are JavaScript's tasks of a
runtime's queue, `deferredCalls` the handlers to be told and the dialogs to be reopened.  `knows` and
`by` are history: who was given a request, and who ended it.

### SceneBindings

The `attachment`s the game makes, the `bindings` of scopes with the `handles` of the registry, and the
`hook` of each scope in JavaScript: it reads, subscribes and applies the `changes` that the frame
publishes.  A script that JavaScript calls may attach, free or move its own target in the middle of
the call.

### GameServices

`watched`, `pressed` and `current` are the node's fields, `listener` and `capture` JavaScript's side;
`told`, `missed` and `unhandled` are history.

### Images

The service and its controls are one record, `images`, because nearly every method goes from one to the
other and back: a request that is answered from the cache ends inside the call that made it.  Bytes are
small numbers with the code's proportions; `Owned` are the textures somebody still holds.

### Sockets

`calls` are JavaScript's tasks, `polling` the sockets the frame under way has yet to poll, `reading` the
Blob that `send_blob` reads between two tasks, `storage` the Blob service and `wrappers` JavaScript's
Blob objects, which it may close at any time on its own thread or leave to its collector.

### AsyncStorage

`disk` is the file and its temporary neighbour, `memory` the `RNStorageFile`, `working` where the storage
thread is in its task.  Every access may fail and the process may crash between any two.  A value is
the number of the write that stored it; `promised` is, for each key, the set of values it may have by
what JavaScript was told.

### TextInput

`editor` is `RNTextInputControl` (a `LineEdit`, which tells of a change at once, or a `TextEdit`, which
defers it), `script` the state of the component in JavaScript, and `events` and `updates` what is on its
way between them.  `overwrote` is history: a value replaced text that its author had not heard of.

### InputRouter

`router` holds the fields of `RNInputRouter`, `godot` whom Godot sends the mouse to and which buttons and
fingers are down, `alive` the views.  `told` is what JavaScript was told of and not of its end.
`Lose...` are the releases that Godot keeps for itself: of a control that is hidden, moved in the tree
or paused while it is pressed, or that a later popup covers.  For such a pointer nothing is claimed until the
surface goes away.

### MC modules

Components that share no state are checked together: `MCMainThread`, `MCRoots`, `MCGame` and `MCServices`
choose one of their parts in the initial state and leave the others as they begin, so that a run has
the behaviours of every part and not their product.  Their fairness is that of the parts.

## 3. The runs

| run | module, cfg | instance | shows |
|---|---|---|---|
| `main_thread` | `MCMainThread` | two callers with two calls each, one call of the main thread; a teardown of two surfaces with three timer tasks and three storage calls in chains of two | 348 000 states: the queue's invariants, the refinement of `SyncCalls`, and that blocked calls return; no interrupt outlives its wait, cleanups are done, quitting returns |
| `timers` | `MCTimerRegistry` | a timeout and an interval of 1 ms in half milliseconds, three entries at once | 126 000 states: no tick is doubled, lost or early; timers run |
| `http` | `MCHttpService` | two slots, one idle node kept, two waiting, a budget of four, one redirect, three requests, servers that may stay silent | 210 000 states: exact budget, requests held and ended once, no stray response; a request with an answer or a deadline ends |
| `http_starved` | `MCHttpServiceStarved.cfg` | two or three uploads, budget of three | **fails**: requests that wait for ever |
| `roots` | `MCRoots` | two roots, four runtimes, six surfaces, a careful game; a node, an object and a module's scope with two handles; two image controls, a source of each kind; an input with three edits and two values; a paragraph with nested text, a native button, two buttons and two fingers | 983 000 states: surfaces, bindings, hooks, images, text and touches |
| `surfaces_any` | `MCHostSurfaces` (`...Any.cfg`) | two roots of any game in the editor, two runtimes, three surfaces | 224 000 states: roots that enter the tree start, none waits with a bundle there |
| `surfaces_stale` | `MCHostSurfacesStale.cfg` | roots of a game without the care | **fails**: a root on a retired runtime |
| `game` | `MCGame` | two evaluations or loads of two segments, two runtimes; an alert, two surfaces; two listeners and two captures; two keys, three calls, one crash | 214 000 states: evaluations, segments, alerts, input, storage |
| `input_presses` | `GameServices` (`MCGameServices.cfg`) | one listener, three events | **fails**: a press that is not reported |
| `services` | `MCServices` | three views, three transactions of four mutations in all; a socket, two Blobs of which one fits, a message | 282 000 states: mounting, commands, sockets, Blobs |
| `sockets_failed` | `Sockets` (`MCSocketsFailed.cfg`) | the same socket | **fails**: a failed socket that stays open |
| `teardown_chain` | `MCHostTeardownChain.cfg` | a teardown with one call and a chain of one | **fails**: a call that outlives its runtime |

### Bounds, and why they are enough

* **queue.** Two callers are what it takes for one to be in the batch and one in the queue; the
  second call of a thread is what it takes to come back while an older batch goes on.  The main
  thread's call is a post or a nested `run_sync` from a task.
* **timers.** The two kinds are independent but for the thread and JavaScript's order; three
  entries allow the current one and two stale ones.  A delay of two half milliseconds can be cut to
  a fraction once.
* **HTTP.** Two slots let one drain while the other works; one idle node makes trimming happen; three
  requests let one be on the wire, one wait and one be submitted from a completion.  All reserve the same
  response limit; two downloads have room on the wire at once, and an upload has to wait behind
  them, but never for ever.
* **surfaces.** A surface of the old runtime, one of the new, and a third that a deferred call starts;
  two roots let one be registered and the other not.  The bounds stop calls, never frames.
* **evaluations.** Two segments, one of them loaded at startup as well, are what it takes for an order;
  the second runtime is the one that loads again, and the game may ask it for something too.  The
  scheduler's order between a segment and an evaluation depends on their age and is left open.
* **teardown.** Two surfaces, so that one stops after another's cleanups; a timer task can be in
  progress, queued and still to come.
* **mounting.** Three views let one be deleted while its child moves to another; three transactions let one
  be mounted, one wait and one be committed while a flush is at work.
* **alerts.** Alerts meet only in the limit of pending requests, which one alert does not reach; two surfaces
  let the owner's root be another than the one that shows; two runtimes let an answer come late.
* **scene bindings.** Two handles fill the registry with the root's and the scope's, so a third is
  refused; four steps of the game attach, move, rebind and free.
* **input.** Two listeners share the count of an action; two captures replace one another.
* **images.** Eight bytes are the decode of the largest image beside one more request, so whatever else is
  held must go or the load fails; a cache of two holds one shared image or two small ones.
* **sockets.** One socket: sockets share only the limit of peers.  Two Blobs for one place let a second be
  refused while the first is still read.
* **storage.** Two keys, so that a write that fails can be saved by the next one of the other key; three
  calls with a crash let one be acknowledged, one fail and one be read back after the restart.
* **text.** Three edits and two values cross each other twice in both directions.
* **touches.** Three presses in all: two fingers and the mouse, or a finger that comes back while another
  stays.  Two of the mouse's three buttons; middle and right do the same.

Deadlock is checked for the timers and for roots of any game.  After `shutdown()` the HTTP service, after
`finish()` the teardown, and a host that was shut down, really stop, and so do the models whose bounds
are spent, so the other runs do not ask.

### Fairness, and why the code justifies it

* `MainThreadQueue`: weak fairness of `Drain`: Godot emits `process_frame` every frame, each step
  of `drain()` is enabled until taken, and `wait_until` has a deadline.  A thread whose future is ready
  returns.
* `TimerRegistry`: time passes; `TaskDispatchThread` takes entries in the order they are due, so one
  that is due is not passed over for ever although the thread is busy in between: strong fairness
  of `Fire`.  The JS thread runs its tasks.  Nothing obliges anybody to resume or to create.
* `HttpService`: frames and flushes of the message queue alternate, so `ProcessFrame` and `Deliver`,
  which a callback in progress disables, are strongly fair; the service enters the tree; deadlines
  pass.  Servers answer only where a property says so (`ServersAnswer`).
* `HostSurfaces`: frames, once connected, go on.  No root, game or file is fair.
* `HostEvaluations`: frames and flushes alternate, so `Deliver` and `Flush` are strongly fair; JavaScript
  returns from what it runs, and a download ends, as the HTTP service shows.
* `HostTeardown`: the threads run.  Nothing makes JavaScript return from a loop but an interrupt.
* `Mounting`: the main thread drains its queue and goes on with a flush it has begun; React owes nothing.
* `Sockets`: JavaScript handles its events; frames alternate with drains, so `BeginFrame` and `MainCall`,
  which a frame in progress disables, are strongly fair; the clock passes a close deadline.  No
  server answers.
* `SceneBindings`, `Alerts`, `GameServices`, `Images`, `AsyncStorage`, `TextInput`, `InputRouter`: safety only,
  without fairness; what a hook or an input ends with is stated for the states in which nothing is
  under way.

### What fails

Five runs state what a comment, a test or the documentation says and what the code does not do; each
has a finding in `PROJECT.json` with the quotation.

1. **Uploads before the tree** (`EveryRequestEnds`).  Outside the tree nothing is started, and waiting
   bodies count against the budget.  When they leave less than one response limit, no lease can ever
   be made, and none exists whose end would free room.  `RequestsEnd` shows that with one
   response limit for all and the tree first it cannot happen: then something is leased whenever
   something waits.  With different limits (`images/max_encoded_bytes` below
   `network/http/max_body_bytes`) small responses leave room to fill, so it may happen in the tree too.
2. **Restart before registration** (`EverySurfaceIsServed`).  A root can run without being registered
   for one frame; a reload in that frame replaces its runtime and not its surface.  `Careful` in the run
   that passes excludes this, and handlers that take a root out of the tree inside a frame and let
   its deferred calls meet the same gap.
3. **Chains of storage calls** (`StorageCallsFinish`).  One marker covers the calls made until JavaScript
   was idle, and the results of those may make others.  `CleanupsAreDone` is the part that holds.
4. **Presses after a consumed release** (`UnhandledPressesArrive`).  The state last reported is kept until an
   event reaches the node; when the GUI consumes a release, the next press is taken for no change.
5. **Sockets whose Blob is gone** (`FailedSocketIsReleased`).  `send_blob` reports the socket failed and keeps
   its peer, which goes on to receive until the server closes it.

Smaller observations, without a run of their own:

* Host: `get_last_error()` may return an error of a retired runtime, whose JavaScript looked at `retired`
  just before, when the next `_start()` found no bundle; the deferred registration and restart
  (`react_native_host.cpp:229`, `:253`) look at `is_inside_tree()` and not at `editor_preview`, so a
  preview turned off in between runs all the same.
* HTTP and timers: an expired request leaves its id in `waiting`, where it still counts against the length
  of the queue until it reaches the front; `schedule()` casts very long delays to 32 bits.
* Bindings: a full registry forgets the handle of a freed object before the next frame, so
  `HandlesStayRevoked` speaks of a binding's handle while its target exists.  `useLastInputDevice` and
  `useAudioBus` read their value before they subscribe.
* Input: a listener that is added while another's `unwatch` is still queued may miss a release.
* Images: a shared request that joins a load whose transport was just cancelled gets the cancellation's
  error (`rn_image_service.cpp:361`); a load that fails keeps the old picture.
* Storage: a write that is rejected stays in memory: it is read back, and the next write saves it.
  `clear` that fails leaves an empty database in memory.
* Text input: switching `multiline` (`_swap_editor`, `rn_text_input_control.cpp:210-234`) drops a
  replacement deferred by composing and text a `TextEdit` has not told of yet; `pending_native_event` is
  set and never read.
* Touches: a press on nested text has the tag of that text (`rn_paragraph_component_view.cpp:102-119`), so
  the paragraph's destruction does not cancel it; a right press on a view that is destroyed leaves
  `mouse_buttons` set; a control that is hidden or moved in the tree while pressed gets no release that
  the root would route, and the next press then starts a touch before the last has ended; mouse and
  first finger share identifier 0, and `touch_event` counts the mouse among the target touches of
  every view (`rn_input_router.cpp:170-174`).

## 4. The proofs

Thirty-three theorems in eight modules hold for every value of the constants: any callers, timers,
requests, roots, views, controls, texts, sockets, fingers, alerts or keys, and any bounds on them.
Each theorem about safety is of the form `Spec => []Inv` or `Spec => ActionProperty` and rests on an
inductive invariant: `Init => IInv`, `IInv /\ [Next]_vars => IInv'`, `IInv => Inv`.  None needs fairness,
so each is about the specification without it, or does not use what that adds.

| module | about | theorem | property | inductive invariant |
|---|---|---|---|---|
| `MainThreadProofs` | `MainThreadQueue` | `TypeCorrect` | `TypeOK` | itself |
| | | `BlockedCallsAreHeld` | `BlockedCallIsHeld` | `CallsMatch` |
| | | `SyncWorkIsSafe` | `SyncWorkOnlyWhileBlocked` | `CallsMatch` |
| | | `ClosedQueueRunsNothing` | the guards of `StartTask` and `RunSyncInline` | `TypeOK` |
| | | `WorkRunsInOrder` | `RunsInOrder` | `OrderIsKept` |
| | | `QueueRefinesSyncCalls` | `ImplementsSyncCalls` | `Matched` |
| | `HostTeardown` | `InterruptsEndWithTheirWait`, `CleanupsAreAlwaysDone` | `InterruptEndsWithItsWait`, `CleanupsAreDone` | `TeardownInv` |
| `TimerRegistryProofs` | `TimerRegistry` | `TicksAreAlwaysKept`, `TimersAreNeverEarly` | `TicksAreKept`, `NeverEarly` | `TimerInv` |
| `HttpServiceProofs` | `HttpService` | `RequestsAreHeldOnce`, `ResponsesAreOwn`, `RequestsEndOnce` | `RequestIsHeldOnce`, `ResponseIsOwn`, `EndsOnce` | `HttpInv` |
| | | `BudgetIsAlwaysExact` | `BudgetIsExact` | `BudgetInv`, beside `HttpInv` |
| `ScriptProofs` | `GameServices` | `ReleaseIsAlwaysTold`, `CapturesSettleOnce` | `ReleaseIsTold`, `CapturesAreSettled` | `InputInv` |
| | `Alerts` | `AlertsAreAlwaysHeld`, `OnlyOwnersAnswer` | `EveryAlertIsHeld`, `AnsweredByItsOwner` | `AlertInv` |
| | `HostEvaluations` | `EvaluationsEndOnce` | `EndsOnce` | `EvaluationsKept` |
| | | `SegmentsAlwaysRunInOrder` | `SegmentsRunInOrder` | `SegmentsInv` |
| | `AsyncStorage` | `PromisesAreKept` | `AcknowledgedWritesSurvive` | `StorageInv` |
| `InputProofs` | `TextInput` | `InputShowsTheValueAlways` | `InputShowsTheValue` | `TextInv` |
| | `InputRouter` | `TouchesAlwaysEndOnce` | `TouchesEndOnce` | `RouterInv /\ ViewsAlive` |
| | `SceneBindings` | `HandlesAlwaysStayRevoked`, `HooksAlwaysShowTheBinding` | `HandlesStayRevoked`, `HookShowsTheBinding` | `SceneInv` |
| `ServicesProofs` | `Sockets` | `BlobsAreKeptAlways`, `ToldInOrderAlways` | `BlobsAreKept`, `ToldInOrder` | `SocketsInv` |
| | `Mounting` | `CommandsAlwaysFindTheirViews` | `CommandFindsItsView` | `MountingInv` |
| | | `TreeIsAlwaysTheCommitted` | `TreeIsTheCommitted` | `TreesInv`, beside `MountingInv` |
| `ViewsProofs` | `HostSurfaces` | `NoRootEverWaits` | `NoRootWaits` | `RootsInv` |
| | | `SurfacesAreAlwaysServed` | `EverySurfaceIsServed` | `CarefulInv` |
| | `Images` | `BudgetIsAlwaysKept`, `ControlsShowWhatTheyAsked` | `BudgetIsKept`, `ShowsWhatItAsked` | `ImagesInv` |

`SumTheorems` is the eighth: what a sum over a finite set is, whatever order it is taken in.

### The invariants, and why they are needed

**Main-thread queue.**  `BlockedCallIsHeld` is not inductive: when `Answer` takes the head of the batch
away, one must know that no other caller's held task goes with it, and that the caller it releases is
the one it names.  `CallsMatch` adds that a synchronous task in the queue or the batch belongs to a
caller that is blocked on that very call (`HeldIsWaiting`), that no two of them belong to the same caller
(`HeldOnce`), and that where `drain()` is about to swap its batch is empty, so that a swap loses nothing
(`SwapIsClean`).  `OrderIsKept` adds that, while the queue is open, what ran, what is left of the batch
and the queue are, one behind the other, what was accepted.  `Matched` adds that only a closed queue
skips work; with it each step of the queue maps to one step of `SyncCalls`, or to none.  There is one
lemma for each kind of step of the refinement: callers, the drain, the answer, `close`.

**Evaluations.**  That `_finish_evaluation()` looks whether the id is still there is not enough by itself:
one must know that an id which is there has not ended, also a new one.  `EvaluationsKept` says so of every
id, the ones not given out yet included.

**Segments.**  What a runtime ran says nothing of what it will run, so `InLine` puts in one line what its
thread ran, the tasks of the thread and what waits for the bundle: each segment of its own has a place,
which is the place of its path among the startup segments and those that had loaded, what the game asked
for comes behind them, and places go up.  Handing the line out, segment by segment, keeps it, also
when a file is missing (`Serves`); a runtime that is retired keeps what its thread has
(`RuntimesAreServed`).  That what loads again is what the game was told of needs a result to find its
evaluation as it was: `HeldOnce` says that the current runtime holds each evaluation once, as a segment
that waits, a task or a result, and that no message is about to end it.

**HTTP service.**  Its loops call back into JavaScript, which may submit or cancel, so a call in progress
may find a world that it has not seen.  `HttpInv` is made of what survives that: two slots in use have
different requests, and a slot with a worker is leased (`PoolIsSound`); every live request waits or is
leased, once, and a cancelled one is held by a slot that drains (`RequestsAreHeld`); of a node that a
slot still has, a completion in Godot's queue is of the current lease, or ahead of the `_drained` call
that ends it (`MessagesAreOwn`); only the innermost call may hold a surplus node, which may be leased
again by the time it is looked at (`PoolIsTrimmed`); an ended id is not live (`OutcomesAreLast`).  They are
operators of values, not of states, so that `quarantine`, `lease` and `settle` have lemmas of their own that
the actions put together.

The budget is a sum, of the bodies that wait and of what the slots have reserved.  `BudgetInv` says so, and
that no part is more than the whole; each helper that takes from a slot or gives to it has a lemma that
says by how much the sum changes.

**Timers.**  At most one entry of the thread has a timer's tick, and exactly one while it runs; what waits
for JavaScript of a timer is a call, an unqueue, or the one before the other; what a timer still owes is
what is left of its delay, but for the truncations of its resumes (`EntriesAreKept`, `CallsAreKept`,
`DelaysAreRun`).

**Teardown.**  The teardown thread may rely on what nothing can add behind its back: JavaScript that may
still call the storage runs before the timers end or while the thread waits (`AskingIsWaitedFor`), the
storage's marker is behind all first-hand calls (`StorageIsMarked`), and only what results ask for comes
later (`ChainsGoDown`).

**Async storage.**  `Progress` says, for each place of a save, what the temporary file and the memory hold
there.  A crash may then take the thread from any place.

**Input router.**  What JavaScript was told agrees with what is down only if a press finds nothing of its
pointer down and a release finds something, so the invariant ties the buttons and fingers that Godot
holds to the router's targets (`MouseIsTracked`, `FingersAreTracked`).  A pointer whose release Godot kept
for itself is not compared.

**Input of the game.**  A listener's watch and its end wait in one queue, and the counter counts the watches
in effect (`WatchesAreOrdered`, `PressesAreNoted`).

**Alerts.**  A request that has not run is blank, an open one is held by someone who can end it, and what
JavaScript has posted is owed (`Kept`, `CallsAreOwed`).

**Text.**  JavaScript and the editor agree on nothing while values and events cross.  `TextInv` says what they
have in common all the same: the events on their way are exactly those JavaScript has not counted
(`Counted`), no value is younger than the events it has handled (`AcksAreOld`), and *if* none is on its
way then a command that comes, or the value that waits for the end of a composition, or the text there
is, makes the editor show what JavaScript believes it shows (`Believed`).

**Bindings.**  A script may end its own target in the middle of a call, and the frame refreshes any number of
bindings in any order, so an invariant between actions is not enough.  `Sound` is what every method of
the module keeps at every point inside: each handle was given out once and is some binding's own,
and one that a binding gave up is in nobody's hands.  `Moves` relates a module before and after any
number of such calls (tokens and sequence numbers only grow, a binding that changed has published), and
adds up, so the loops over bindings keep it in whatever order they run.  `SceneInv` adds the hooks: what a
hook shows is its binding's, unless an event is on its way (`Follows`).

**Sockets.**  `Tale` reads the history of one socket against where it is: until its one `connect` is handled
it is not in the hub and nothing was told, and the end was told exactly of what the hub let go.
`BlobsAreHeld` ties the bytes of each Blob to who still refers to it, be that a wrapper, a message on its
way or a read between two tasks.

**Mounting.**  That a view exists cannot be said of the registry alone, which lags behind.  A view is `Alive`
after a list of mutations; `MountingInv` says that what React shows is alive after everything outstanding,
in the order in which it will be applied (the running batch, what is pending, what is being built), and
that a command finds its view alive after the batches that run before it.  For that a flush must be in the
queue whenever something is pending (`FlushComes`).

`TreeIsTheCommitted` says something only between flushes, so it needs what holds at each mutation of one.
`TreesInv` names the tree that the views stand for, `now`: the registry `Mirrors` it, and the mutations
outstanding, in the order in which they will be applied, lead from it to React's tree, through the tree of
each transaction (`Leads`, `Linked`).  To mirror a tree is to have its views and, per control, its
children in its order once the detaching ones are left out; what detaches is on the list of removals
with the control that holds it (`Leaves`), which is why `destroy()` finds inside a deleted control all
that must not go with it.  Orders are compared by who comes before whom, so that a removal or an
insertion is a lemma about one list (`Removal`, `Insertion`), and a legal mutation takes a mirrored tree
to the mirror of the next (`MutatedKeeps`).  `Under` needs no induction: the
least closed sets show that the function exists, and below a control that holds nobody one unfolding
finds nobody.

**Roots.**  `RootsInv`: a registered root is in the tree, and what a frame has taken over is empty outside
it.  `CarefulInv` adds the calls put off: a root whose restart waits is still listed if it is in the tree
(`RestartsAreListed`), so the restart meets no surface that nobody shows.

**Images.**  One texture may be owned by the cache, controls, the decode in progress and somebody else at once,
and is counted once.  `Kept` is the account with what the step under way holds, so each helper of the
service is a function with a lemma; textures have the number of the load that made them (`Numbered`), at
most one request loads what requests share (`Apart`).  `Subs` says that a subscriber is a control that
waits, with its newest token and for the source it asked for last.

### Sums and loops without induction

The library's induction theorems take an operator for a parameter, which the provers cannot
instantiate, so the folds of the modules are reached another way: a non-empty set of naturals has a
least element (from `WellFoundedInduction`), hence a set of subsets of a finite set has a smallest one,
and what a fold does to the smallest set for which a statement about it is false is what it did to a
smaller one and one step more.  The recursive function that a fold is by its definition is first shown
to exist, level by level, in the same way (`SumsExist`).  `SumTheorems` states the results that the HTTP
service and the images need; the loops over bindings, mutations, detached views and the segments of
a runtime follow the same pattern in their own modules.

### What the proofs assume

The assumptions on constants are named in the modules that declare them, and TLC evaluates them in
each run.  They say that names differ and that bounds are numbers: the main thread is not one of the
callers, `"none"` is no timer, view, finger or capture, timeouts are not intervals, the kinds of views are
disjoint and nested text is in a view of its own, listeners are finitely many, the HTTP pool has
room for at least one active request and keeps no more idle nodes than active ones, controls and module
scopes are finitely many, no Blob is 0, and the clock's grain is not zero.  `SurfacesAreAlwaysServed` alone
assumes more, of the game: it is `Careful` (its handlers take no root out of the tree inside a frame and
reload no root that is not registered) and not in the editor.  Finding 2 is what happens otherwise.

### What is only model-checked

Liveness: fairness and ENABLED are beyond the prover.  Every invariant and every action property that a
passing run checks is stated by a theorem.

What the proofs taught about the model:

* `HookShowsTheBinding` did not hold as it was first stated.  When a binding's object ends, a full
  registry forgets its handle; when the replacement that the game attaches is then refused a handle
  (or one of its signals does not connect), `_refresh` returns before it publishes
  (`rn_godot_scene_module.cpp:227-230`, `:249-253`), and the following detach finds the binding as the
  attachment says and publishes nothing either.  The hook goes on showing a revoked handle, where
  `modules.js` promises "or null while it isn't registered".  It takes two objects, a registry of one handle
  and five steps of the game, more than the runs had.  The history variable `refused` now records the
  scopes this has happened to, and the property is about the others.
* `SegmentsRunInOrder` compared subsequences, which `SelectSeq` makes of sequences recursively; it now says
  the same of the positions in what a runtime ran.
* `Mounting`'s `Under`, all that a control holds, was a RECURSIVE operator; as a recursive function over the
  views it is the same and can be reasoned about.
* `InsertChild` found the sibling before which a child goes with `SelectSeq`, which is recursive.  `Anchor`
  now counts the siblings that stay, as the loop of `insert_child()` does (`rn_component_view.cpp:230-237`).

## 5. The plan

All modules of the plan are written, checked and proved about.  Left to prove: liveness only, which is
out of the prover's reach.

Left to model: `ResourceRequests` (completions of a copied list of subscribers), `BackPress` (the host's
handlers and the root's swallowed release), the networking module's table of requests, slices of Blobs,
and synchronous updates of views.

Abstract specifications worth stating next: a request that is asked once and ended once, which
`Alerts`, `HostEvaluations` and `HttpService` would implement.

## 6. Not modelled, and why

Rendering, layout and text shaping (pure functions of Godot's data), value conversions and schemas
(data without state), cookies (parsing), the editor plugin, developer tools and command line (I/O), the
JavaScript package (another language; its side of the protocols appears as free choices of the
JavaScript thread, but for the hooks and the TextInput that take part in them), and generated code,
which is more than a quarter of the sources.  Of the modelled classes: contents of requests and
responses, error messages, the ten seconds after which an idle marker gives up (every task that overruns
is interrupted after one), invalid settings, the theme, statistics and logging; props and states of
views; dialogs when the extension is unloaded; data URIs, image probing and `clear_cache`, which only
tests call; multi-key operations and merges of the legacy storage; selections and maximum lengths of
text; keys, gamepads and clicks of the input router, and rounded clips that give a press to another view.
