------------------------------ MODULE HttpService ------------------------------
(***************************************************************************)
(* RNHTTPService: every HTTP request of the module goes through a bounded  *)
(* pool of Godot HTTPRequest nodes.  Requests wait in order for a slot and *)
(* for room in the buffer budget; a slot that is done with a request is    *)
(* quarantined until whatever its node still has in Godot's message queue  *)
(* has been delivered.                                                     *)
(*                                                                         *)
(* All of it runs on the main thread, but settling a request calls its     *)
(* completion, which may submit and cancel again from inside the loop that *)
(* settles.  `stack` holds the loops in progress, innermost first, and an  *)
(* action is what the innermost one does up to the next such call.         *)
(*                                                                         *)
(* Requests are numbered as next_id numbers them.  A url, header, method or*)
(* timeout that fails validation changes nothing and is left out; so are   *)
(* the cookies and the headers a redirect rewrites.                        *)
(***************************************************************************)
EXTENDS Naturals, Sequences, FiniteSetsExt, Functions, SequencesExt

CONSTANTS MaxActive, MaxIdle, MaxQueued, MaxBuffered, MaxRedirects,  \* settings
          Specs,         \* the requests submitted: body size, response limit, deadline
          MaxRequests,   \* bound: requests submitted
          MaxDepth       \* bound: completions inside completions that still submit

Ids == 1..MaxRequests
SlotIds == 1..MaxActive

ASSUME SettingsAssumption ==
  /\ MaxActive \in Nat \ {0} /\ MaxIdle \in 0..MaxActive /\ MaxQueued \in Nat
  /\ MaxBuffered \in Nat /\ MaxRedirects \in Nat /\ MaxRequests \in Nat /\ MaxDepth \in Nat
ASSUME SpecsAssumption ==
  Specs \subseteq [body : Nat, limit : 0..MaxBuffered, timed : BOOLEAN]

VARIABLES requests,   \* requests, by id
          waiting,    \* the FIFO of ids; may hold ids that are gone
          slots,      \* the pool, in the order it grew
          nextId, buffered, closed, inTree,
          deferred,   \* Godot's message queue: completions and _drained calls
          stack,      \* the calls in progress on the main thread
          outcome     \* history: how each request ended

vars == <<requests, waiting, slots, nextId, buffered, closed, inTree, deferred,
          stack, outcome>>

(* The HTTPRequest node of a slot: which one it is (0: none), and the lease *)
(* whose request its worker is carrying out (0: none).                      *)
Slot == [node : Nat, wire : Nat, state : {"idle", "leased", "draining"},
         sequence : Nat, request : Nat, reservation : Nat]
NewSlot == [node |-> 0, wire |-> 0, state |-> "idle",
            sequence |-> 0, request |-> 0, reservation |-> 0]
Outcomes == {"none", "answered", "failed", "timed out", "cancelled", "dropped"}

Init ==
  /\ requests = [id \in {} |-> 0]
  /\ waiting = <<>>
  /\ slots = <<>>
  /\ nextId = 1
  /\ buffered = 0
  /\ closed = FALSE
  /\ inTree \in BOOLEAN
  /\ deferred = <<>>
  /\ stack = <<>>
  /\ outcome = [id \in Ids |-> "none"]

Live == DOMAIN requests
Without(id) == Restrict(requests, Live \ {id})
Room == MaxBuffered - buffered
FirstIdle(s) == Min({i \in 1..Len(s) : s[i].state = "idle"} \cup {Len(s) + 1})
SlotsOf(id) == {i \in 1..Len(slots) : slots[i].state # "idle" /\ slots[i].request = id}

(***************************************************************************)
(* The control stack.                                                      *)
(***************************************************************************)
Top == Head(stack)
Running(at) == stack # <<>> /\ Top.at = at
Callback(id) == [at |-> "callback", id |-> id]

\* Mutant of Expired: waiting in the queue does not count.
ExpiredOnWire(rs) == {id \in DOMAIN rs : rs[id].due /\ ~rs[id].cancelled /\ SlotsOf(id) # {}}

\* A call of process_requests(): its ids are collected before any completion
\* runs, and outside the tree requests only wait.
Expired(rs) == {id \in DOMAIN rs : rs[id].due /\ ~rs[id].cancelled}
Starting == IF inTree THEN <<[at |-> "start"]>> ELSE <<>>
ProcessRequests(rs) == IF Expired(rs) = {} THEN Starting
                       ELSE <<[at |-> "expire", ids |-> Expired(rs)]>>

\* The service is called between frames, or by a completion.
Callable == /\ ~closed
            /\ IF stack = <<>> THEN TRUE ELSE Top.at = "callback"
Depth == Cardinality({i \in 1..Len(stack) : stack[i].at = "callback"})

(***************************************************************************)
(* Parts of several operations.                                            *)
(***************************************************************************)

\* Mutant of Quarantined: a cancelled node is free at once.
FreedAtOnce(s, i) ==
  [s EXCEPT ![i].state = "idle", ![i].request = 0, ![i].wire = 0]

\* quarantine(): cancel the node's request and defer the end of the lease.
Quarantined(s, i) ==
  IF s[i].state = "draining" THEN s
  ELSE [s EXCEPT ![i].state = "draining", ![i].wire = 0]
Drainage(i) ==
  IF slots[i].state = "draining" THEN <<>>
  ELSE <<[kind |-> "drained", slot |-> i, sequence |-> slots[i].sequence]>>

\* Mutant of Settle: the request is still there when its completion runs.
SettleKeeps(id, how, rest) ==
  /\ requests' = requests
  /\ outcome' = [outcome EXCEPT ![id] = how]
  /\ stack' = <<Callback(id)>> \o rest

\* settle(): the request is gone before its completion runs.
Settle(id, how, rest) ==
  /\ requests' = Without(id)
  /\ outcome' = [outcome EXCEPT ![id] = how]
  /\ stack' = <<Callback(id)>> \o rest

(***************************************************************************)
(* submit() and cancel().                                                  *)
(***************************************************************************)
Accepts(spec) ==
  LET free == Len(slots) < MaxActive \/ \E i \in 1..Len(slots) : slots[i].state = "idle"
      immediate == waiting = <<>> /\ free /\ spec.body + spec.limit <= Room
  IN /\ Cardinality(Live) < MaxActive + MaxQueued
     /\ spec.body <= Room
     /\ spec.body + spec.limit <= MaxBuffered
     /\ immediate \/ Len(waiting) < MaxQueued

\* An accepted request joins the queue, and process_requests() runs at once.
Submit(spec) ==
  /\ Callable /\ nextId <= MaxRequests /\ Accepts(spec) /\ Depth <= MaxDepth
  /\ LET new == [body |-> spec.body, limit |-> spec.limit, timed |-> spec.timed,
                 due |-> FALSE, redirects |-> 0, cancelled |-> FALSE]
     IN requests' = [id \in Live \cup {nextId} |-> IF id = nextId THEN new ELSE requests[id]]
  /\ buffered' = buffered + spec.body
  /\ waiting' = Append(waiting, nextId)
  /\ nextId' = nextId + 1
  /\ stack' = ProcessRequests(requests') \o stack
  /\ UNCHANGED <<slots, closed, inTree, deferred, outcome>>

\* A request on the wire is settled as cancelled once its slot has drained.
CancelActive(id) ==
  /\ Callable /\ id \in Live /\ SlotsOf(id) # {}
  /\ LET i == Min(SlotsOf(id)) IN
       /\ slots' = Quarantined(slots, i)
       /\ deferred' = deferred \o Drainage(i)
  /\ requests' = [requests EXCEPT ![id].cancelled = TRUE]
  /\ UNCHANGED <<waiting, nextId, buffered, closed, inTree, stack, outcome>>

\* Mutant of CancelWaiting: its body stays on the books.
CancelKeepsBody(id) ==
  /\ Callable /\ id \in Live /\ SlotsOf(id) = {}
  /\ requests' = Without(id)
  /\ waiting' = RemoveFirst(waiting, id)
  /\ outcome' = [outcome EXCEPT ![id] = "dropped"]
  /\ UNCHANGED <<slots, nextId, buffered, closed, inTree, deferred, stack>>

\* A waiting one is gone at once, and its completion is never called.  The queue holds
\* no id twice, so that erasing all of them is erasing the first.
CancelWaiting(id) ==
  /\ Callable /\ id \in Live /\ SlotsOf(id) = {}
  /\ buffered' = buffered - requests[id].body
  /\ requests' = Without(id)
  /\ waiting' = RemoveFirst(waiting, id)
  /\ outcome' = [outcome EXCEPT ![id] = "dropped"]
  /\ UNCHANGED <<slots, nextId, closed, inTree, deferred, stack>>

(***************************************************************************)
(* process_requests(), from the host's frame, submit() and _drained().     *)
(***************************************************************************)
ProcessFrame ==
  /\ stack = <<>> /\ ~closed
  /\ stack' = ProcessRequests(requests)
  /\ UNCHANGED <<requests, waiting, slots, nextId, buffered, closed, inTree, deferred, outcome>>

\* One of the ids may be gone by now.
Expire ==
  /\ Running("expire") /\ Top.ids # {}
  /\ LET id == Min(Top.ids)
         rest == <<[Top EXCEPT !.ids = @ \ {id}]>> \o Tail(stack)
     IN IF id \notin Live
          THEN /\ stack' = rest
               /\ UNCHANGED <<requests, slots, buffered, deferred, outcome>>
          ELSE /\ IF SlotsOf(id) = {} THEN UNCHANGED <<slots, deferred>>
                  ELSE LET i == Min(SlotsOf(id)) IN
                         /\ slots' = Quarantined(slots, i)
                         /\ deferred' = deferred \o Drainage(i)
               /\ buffered' = buffered - requests[id].body
               /\ Settle(id, "timed out", rest)
  /\ UNCHANGED <<waiting, nextId, closed, inTree>>

ExpireDone ==
  /\ Running("expire") /\ Top.ids = {}
  /\ stack' = Starting \o Tail(stack)
  /\ UNCHANGED <<requests, waiting, slots, nextId, buffered, closed, inTree, deferred, outcome>>

\* Mutant of Blocked: a redirect does not wait for its own slot to drain.
BlockedByRoomOnly(id) == requests[id].limit > Room \/ FirstIdle(slots) > MaxActive

\* The front of the queue has to wait: behind its own redirect's drain, for
\* room in the budget, or for a slot.
Blocked(id) ==
  \/ SlotsOf(id) # {}
  \/ requests[id].limit > Room
  \/ FirstIdle(slots) > MaxActive

StartStop ==
  /\ Running("start")
  /\ waiting # <<>> => Head(waiting) \in Live /\ Blocked(Head(waiting))
  /\ stack' = Tail(stack)
  /\ UNCHANGED <<requests, waiting, slots, nextId, buffered, closed, inTree, deferred, outcome>>

StartSkip ==
  /\ Running("start") /\ waiting # <<>> /\ Head(waiting) \notin Live
  /\ waiting' = Tail(waiting)
  /\ UNCHANGED <<requests, slots, nextId, buffered, closed, inTree, deferred, stack, outcome>>

\* lease(): the slot gets a node if it has none, and the request goes out, or
\* fails at once and is settled while its slot drains.
Lease ==
  /\ Running("start") /\ waiting # <<>>
  /\ LET id == Head(waiting)
         i == FirstIdle(slots)
         pool == IF i > Len(slots) THEN Append(slots, NewSlot) ELSE slots
         lease == pool[i].sequence + 1
         leased == [pool EXCEPT ![i] =
           [node |-> IF @.node = 0 THEN lease ELSE @.node, wire |-> lease, state |-> "leased",
            sequence |-> lease, request |-> id, reservation |-> requests[id].limit]]
     IN /\ id \in Live /\ ~Blocked(id)
        /\ waiting' = Tail(waiting)
        /\ \/ /\ slots' = leased
              /\ buffered' = buffered + requests[id].limit
              /\ UNCHANGED <<requests, deferred, stack, outcome>>
           \/ /\ slots' = Quarantined(leased, i)
              /\ deferred' = Append(deferred, [kind |-> "drained", slot |-> i, sequence |-> lease])
              /\ buffered' = buffered + requests[id].limit - requests[id].body
              /\ Settle(id, "failed", stack)
  /\ UNCHANGED <<nextId, closed, inTree>>

\* A completion returns to the loop that settled its request.
Return ==
  /\ Running("callback")
  /\ stack' = Tail(stack)
  /\ UNCHANGED <<requests, waiting, slots, nextId, buffered, closed, inTree, deferred, outcome>>

(***************************************************************************)
(* Godot: the workers of the nodes, and the message queue that carries     *)
(* their completions and the deferred _drained calls, in order.            *)
(***************************************************************************)

\* The worker of a node is done: request_completed is emitted from the queue.
Respond(i) ==
  /\ i <= Len(slots) /\ slots[i].wire # 0
  /\ deferred' = Append(deferred, [kind |-> "done", slot |-> i, node |-> slots[i].node,
                                   sent |-> slots[i].wire])
  /\ slots' = [slots EXCEPT ![i].wire = 0]
  /\ UNCHANGED <<requests, waiting, nextId, buffered, closed, inTree, stack, outcome>>

Message == Head(deferred)
Delivering(kind) == /\ stack = <<>> /\ deferred # <<>> /\ Message.kind = kind
                    /\ Len(slots) >= Message.slot
Lessee(m) == slots[m.slot]

\* A completion reaches _completed only on the node it came from, through the
\* connection of that node's current lease, while the lease is not draining.
Reaches(m) == /\ Lessee(m).node = m.node
              /\ Lessee(m).state = "leased"

DropCompletion ==
  /\ Delivering("done") /\ ~Reaches(Message)
  /\ deferred' = Tail(deferred)
  /\ UNCHANGED <<requests, waiting, slots, nextId, buffered, closed, inTree, stack, outcome>>

\* _completed() of an answer, or of an error, which one redirect too many is.
Completed(how) ==
  /\ Delivering("done") /\ Reaches(Message)
  /\ LET i == Message.slot
         id == slots[i].request
     IN /\ slots' = Quarantined(slots, i)
        /\ deferred' = Tail(deferred) \o Drainage(i)
        /\ buffered' = buffered - requests[id].body
        /\ Settle(id, how, <<>>)
  /\ UNCHANGED <<waiting, nextId, closed, inTree>>

\* _completed() of a redirect: the request goes to the front of the queue, and
\* some redirects drop its body.
Redirected ==
  /\ Delivering("done") /\ Reaches(Message)
  /\ LET i == Message.slot
         id == slots[i].request
     IN /\ requests[id].redirects < MaxRedirects
        /\ \E dropped \in {0, requests[id].body} :
             /\ buffered' = buffered - dropped
             /\ requests' = [requests EXCEPT ![id].redirects = @ + 1, ![id].body = @ - dropped]
        /\ waiting' = <<id>> \o waiting
        /\ slots' = Quarantined(slots, i)
        /\ deferred' = Tail(deferred) \o Drainage(i)
  /\ UNCHANGED <<nextId, closed, inTree, stack, outcome>>

\* The end of _drained(): with too many idle nodes, this one is freed.
Trimmed(s, i, node) ==
  LET idle == {j \in 1..Len(s) : s[j].state = "idle" /\ s[j].node # 0}
  IN IF node # 0 /\ Cardinality(idle) > MaxIdle THEN [s EXCEPT ![i].node = 0, ![i].wire = 0] ELSE s

\* _drained(): the lease ends.  A cancelled request is settled now, and its
\* completion runs before the node is looked at again.
Drained ==
  /\ Delivering("drained")
  /\ LET i == Message.slot
         id == slots[i].request
         node == slots[i].node
         ended == [slots EXCEPT ![i].state = "idle", ![i].request = 0, ![i].reservation = 0]
         current == slots[i].sequence = Message.sequence /\ slots[i].state = "draining"
         cancelled == id \in Live /\ requests[id].cancelled
         freed == slots[i].reservation + IF cancelled THEN requests[id].body ELSE 0
     IN IF ~current
          THEN UNCHANGED <<requests, slots, buffered, stack, outcome>>
          ELSE /\ buffered' = buffered - freed
               /\ IF cancelled
                    THEN /\ slots' = ended
                         /\ Settle(id, "cancelled", <<[at |-> "trim", slot |-> i, node |-> node]>>)
                    ELSE /\ slots' = Trimmed(ended, i, node)
                         /\ stack' = ProcessRequests(requests)
                         /\ UNCHANGED <<requests, outcome>>
  /\ deferred' = Tail(deferred)
  /\ UNCHANGED <<waiting, nextId, closed, inTree>>

Trim ==
  /\ Running("trim")
  /\ slots' = Trimmed(slots, Top.slot, Top.node)
  /\ stack' = ProcessRequests(requests) \o Tail(stack)
  /\ UNCHANGED <<requests, waiting, nextId, buffered, closed, inTree, deferred, outcome>>

Deadline(id) ==
  /\ id \in Live /\ requests[id].timed /\ ~requests[id].due
  /\ requests' = [requests EXCEPT ![id].due = TRUE]
  /\ UNCHANGED <<waiting, slots, nextId, buffered, closed, inTree, deferred, stack, outcome>>

\* The host adds the service to the tree at the end of the frame that made it.
EnterTree ==
  /\ ~inTree /\ ~closed /\ stack = <<>>
  /\ inTree' = TRUE
  /\ UNCHANGED <<requests, waiting, slots, nextId, buffered, closed, deferred, stack, outcome>>

\* shutdown(), when the host retires its runtime.
Shutdown ==
  /\ ~closed /\ stack = <<>>
  /\ closed' = TRUE
  /\ slots' = [i \in 1..Len(slots) |->
                 [slots[i] EXCEPT !.node = 0, !.wire = 0, !.state = "idle"]]
  /\ requests' = [id \in {} |-> 0]
  /\ outcome' = [id \in Ids |-> IF id \in Live THEN "dropped" ELSE outcome[id]]
  /\ waiting' = <<>>
  /\ buffered' = 0
  /\ UNCHANGED <<nextId, inTree, deferred, stack>>

Unwind == Expire \/ ExpireDone \/ StartStop \/ StartSkip \/ Lease \/ Return \/ Trim
Deliver == \/ DropCompletion \/ Redirected \/ Drained
           \/ \E how \in {"answered", "failed"} : Completed(how)

Next == \/ \E spec \in Specs : Submit(spec)
        \/ \E id \in Ids : CancelActive(id) \/ CancelWaiting(id) \/ Deadline(id)
        \/ ProcessFrame \/ EnterTree \/ Shutdown
        \/ Unwind \/ Deliver
        \/ \E i \in SlotIds : Respond(i)

\* The main thread keeps running, Godot flushes its queue, a frame comes again,
\* and time passes.
Scheduling == /\ WF_vars(Unwind) /\ SF_vars(Deliver)
              /\ SF_vars(ProcessFrame) /\ WF_vars(EnterTree)
              /\ \A id \in Ids : WF_vars(Deadline(id))

\* Servers answer, or the connection fails.
ServersAnswer == \A i \in SlotIds : WF_vars(Respond(i))

SafetySpec == Init /\ [][Next]_vars
SilentSpec == SafetySpec /\ Scheduling
Spec == SilentSpec /\ ServersAnswer

(***************************************************************************)
(* Properties.                                                             *)
(***************************************************************************)
Frames == [at : {"expire"}, ids : SUBSET Ids] \cup [at : {"start"}]
          \cup [at : {"callback"}, id : Ids]
          \cup [at : {"trim"}, slot : SlotIds, node : Nat]
Messages == [kind : {"drained"}, slot : SlotIds, sequence : Nat]
            \cup [kind : {"done"}, slot : SlotIds, node : Nat, sent : Nat]

TypeOK ==
  /\ Live \subseteq Ids
  /\ \A id \in Live : requests[id] \in
       [body : Nat, limit : 0..MaxBuffered, timed : BOOLEAN, due : BOOLEAN,
        redirects : 0..MaxRedirects, cancelled : BOOLEAN]
  /\ waiting \in Seq(Ids)
  /\ slots \in Seq(Slot) /\ Len(slots) <= MaxActive
  /\ nextId \in 1..(MaxRequests + 1)
  /\ buffered \in 0..MaxBuffered
  /\ closed \in BOOLEAN /\ inTree \in BOOLEAN
  /\ deferred \in Seq(Messages)
  /\ stack \in Seq(Frames)
  /\ outcome \in [Ids -> Outcomes]

\* The budget is exact and kept: what is buffered is the bodies of the live
\* requests and the reservations of the leases, whoever submits or cancels in
\* the middle of a settlement, and the unsigned subtractions never wrap.
BudgetIsExact ==
  TypeOK /\ (~closed => buffered = SumFunction([id \in Live |-> requests[id].body])
                        + SumFunction([i \in 1..Len(slots) |-> slots[i].reservation]))

\* No request is lost or held twice: a live one is either queued once, or on the
\* wire, or cancelled and waiting for its slot to drain.  A slot in use keeps its
\* node, also when a completion run by _drained() leases that very slot again
\* before the surplus node is freed.
RequestIsHeldOnce ==
  /\ \A id \in Live :
       LET queued == Cardinality({k \in 1..Len(waiting) : waiting[k] = id})
           onWire == {i \in SlotsOf(id) : slots[i].state = "leased"}
       IN IF requests[id].cancelled THEN SlotsOf(id) # {} /\ onWire = {}
          ELSE queued + Cardinality(onWire) = 1
  /\ \A i \in 1..Len(slots) : slots[i].state # "idle" => slots[i].node # 0

\* A response settles the request it was sent for: a completion that is still in
\* the message queue when its lease ends is never taken for the next lease's.
ResponseIsOwn ==
  [][(\E how \in Outcomes : Completed(how)) \/ Redirected
       => Message.sent = slots[Message.slot].sequence]_vars

\* Every request ends once: no second completion, none after cancel() said it
\* was gone, and none after shutdown().
EndsOnce == [][\A id \in Ids : outcome[id] # "none" => outcome'[id] = outcome[id]]_vars

\* Every accepted request ends if servers answer: the queue promises it to the
\* requests that wait in it.
EveryRequestEnds == \A id \in Ids : id \in Live ~> id \notin Live

\* It is so when the service is in the tree first and all requests reserve the
\* same response limit: what the leases release is then room enough for the front.
\* A request with a deadline ends also when no server ever answers, and when the
\* queue it waits in is stuck.
RequestsEnd ==
  /\ inTree /\ ServersAnswer => EveryRequestEnds
  /\ \A id \in Ids : id \in Live /\ requests[id].timed ~> id \notin Live
================================================================================
