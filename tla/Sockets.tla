--------------------------------- MODULE Sockets --------------------------------
(***************************************************************************)
(* RNWebSocketHub, RNBlobService and the modules that give JavaScript its   *)
(* WebSockets and Blobs.  JavaScript posts its calls to the main thread,     *)
(* which polls the peers once a frame and emits events back; a Blob's bytes  *)
(* live natively until JavaScript closes it or its collector is collected.   *)
(*                                                                         *)
(* WebSocketPeer, upstream's WebSocket and BlobManager and the garbage       *)
(* collector are external.  Sockets have ids of their own, as JavaScript's   *)
(* counter gives them, messages are delivered one a frame, and every Blob    *)
(* takes one unit of max_blob_bytes.                                       *)
(***************************************************************************)
EXTENDS Naturals, Sequences, FiniteSets, SequencesExt

CONSTANTS Sockets,     \* ids of the sockets that JavaScript may connect
          Blobs,       \* ids of the Blobs that may be stored
          MaxBlobs,    \* max_blob_bytes
          MaxPeers,    \* peers the hub holds at most
          MaxPackets,  \* bound: messages the servers send
          MaxCalls     \* bound: calls that wait for the main thread

ASSUME SocketBounds == MaxBlobs \in Nat /\ MaxPeers \in Nat /\ 0 \notin Blobs

VARIABLES js,        \* JavaScript's sockets: their readyState
          calls,     \* JavaScript's calls that wait for the main thread
          hub,       \* the hub's sockets and their peers
          polling,   \* the sockets that the frame under way has yet to poll
          reading,   \* the Blob that send_blob reads, and for which socket
          storage,   \* the Blob service
          wrappers,  \* JavaScript's Blob objects and their collectors
          events,    \* events on their way to JavaScript, but for those of plain messages
          told,      \* history: what the hub has told of each socket
          packets    \* messages sent by servers so far

socketVars == <<js, calls, hub, polling, reading, storage, wrappers, events, told, packets>>

Absent == [peer |-> "absent", inbox |-> <<>>, opened |-> FALSE, closing |-> FALSE, late |-> FALSE,
           blobMessages |-> FALSE, failure |-> FALSE]
Idle == [socket |-> 0, blob |-> 0]

SocketsInit ==
  /\ js = [s \in Sockets |-> "unused"] /\ calls = <<>>
  /\ hub = [s \in Sockets |-> Absent] /\ polling = <<>> /\ reading = Idle
  /\ storage = [b \in Blobs |-> "unused"] /\ wrappers = [b \in Blobs |-> "unused"]
  /\ events = <<>> /\ told = [s \in Sockets |-> <<>>] /\ packets = 0

Held == {s \in Sockets : hub[s].peer # "absent"}

\* The storage of a Blob: owned by JavaScript, pinned by a reader, both, or gone.
Stored == {b \in Blobs : storage[b] \in {"owned", "pinned", "both"}}
\* Mutant: a release frees the bytes under a reader.
ReleasedAtOnce(b) == [storage EXCEPT ![b] = IF @ = "unused" THEN @ ELSE "gone"]
Released(b) ==
  [storage EXCEPT ![b] = IF @ = "owned" THEN "gone" ELSE IF @ = "both" THEN "pinned" ELSE @]
Unpinned(b) == [storage EXCEPT ![b] = IF @ = "both" THEN "owned" ELSE "gone"]

Told(s, what) == told' = [told EXCEPT ![s] = Append(@, what)]
Emit(s, what, b) == events' = Append(events, [socket |-> s, what |-> what, blob |-> b])

(***************************************************************************)
(* JavaScript.                                                             *)
(***************************************************************************)
Post(call) == Len(calls) < MaxCalls /\ calls' = Append(calls, call)
Call(op, s, b) == [op |-> op, socket |-> s, blob |-> b]

Connect(s) ==
  /\ js[s] = "unused" /\ js' = [js EXCEPT ![s] = "connecting"]
  /\ Post(Call("connect", s, 0))
  /\ UNCHANGED <<hub, polling, reading, storage, wrappers, events, told, packets>>

\* ws.binaryType = "blob", ws.send(...) of small or too large messages, ws.close().
UseBlobs(s) == js[s] \in {"connecting", "open"} /\ Post(Call("useBlobs", s, 0)) /\ UNCHANGED js
Send(s) == js[s] = "open" /\ Post(Call("sendTooMuch", s, 0)) /\ UNCHANGED js
CloseSocket(s) ==
  /\ js[s] \in {"connecting", "open"} /\ js' = [js EXCEPT ![s] = "closing"]
  /\ Post(Call("close", s, 0))
SendBlob(s, b) ==
  js[s] = "open" /\ wrappers[b] = "open" /\ Post(Call("sendBlob", s, b)) /\ UNCHANGED js
SocketCall(s) ==
  /\ UseBlobs(s) \/ Send(s) \/ CloseSocket(s) \/ (\E b \in Blobs : SendBlob(s, b))
  /\ UNCHANGED <<hub, polling, reading, storage, wrappers, events, told, packets>>

\* RNBlobModule::createFromParts and the wrapper that JavaScript makes, with its
\* collector; blob.close() releases the storage; an unreachable wrapper's collector
\* counts itself out, and reports that it was the last in a step of its own.
CreateBlob(b) ==
  /\ storage[b] = "unused" /\ Cardinality(Stored) < MaxBlobs
  /\ storage' = [storage EXCEPT ![b] = "owned"] /\ wrappers' = [wrappers EXCEPT ![b] = "open"]
  /\ UNCHANGED <<js, calls, hub, polling, reading, events, told, packets>>
CloseBlob(b) ==
  /\ wrappers[b] = "open"
  /\ storage' = Released(b) /\ wrappers' = [wrappers EXCEPT ![b] = "closed"]
  /\ UNCHANGED <<js, calls, hub, polling, reading, events, told, packets>>
Wrap(b) == wrappers[b] = "coming" /\ wrappers' = [wrappers EXCEPT ![b] = "open"]
Unreferenced(b) == wrappers[b] \in {"open", "closed"} /\ wrappers' = [wrappers EXCEPT ![b] = "lost"]
Collected(b) == wrappers[b] = "lost" /\ wrappers' = [wrappers EXCEPT ![b] = "collected"]
Collect(b) ==
  /\ Wrap(b) \/ Unreferenced(b) \/ Collected(b)
  /\ UNCHANGED <<js, calls, hub, polling, reading, storage, events, told, packets>>

\* JavaScript handles an event: a socket that has ended listens no more, and the Blob of a
\* message it does not hear of gets no wrapper.
Heard(e) ==
  IF e.what \in {"failed", "ended"} THEN "closed"
  ELSE IF e.what = "open" /\ js[e.socket] = "connecting" THEN "open" ELSE js[e.socket]
Handle ==
  /\ events # <<>>
  /\ LET e == Head(events)
     IN /\ js' = [js EXCEPT ![e.socket] = Heard(e)]
        /\ wrappers' = IF e.what = "blob" /\ js[e.socket] # "closed"
                         THEN [wrappers EXCEPT ![e.blob] = "open"] ELSE wrappers
  /\ events' = Tail(events)
  /\ UNCHANGED <<calls, hub, polling, reading, storage, told, packets>>

(***************************************************************************)
(* The main thread: the posted calls.                                       *)
(***************************************************************************)
MainIsFree == polling = <<>> /\ reading = Idle
Take(op) == MainIsFree /\ calls # <<>> /\ Head(calls).op = op /\ calls' = Tail(calls)
Socket == Head(calls).socket

\* RNWebSocketHub::connect.  A peer that refuses the URL leaves a failure for the next frame.
HubConnect ==
  /\ Take("connect")
  /\ IF Cardinality(Held) >= MaxPeers
       THEN Emit(Socket, "failed", 0) /\ Told(Socket, "end") /\ UNCHANGED hub
       ELSE /\ \E refused \in BOOLEAN :
                 hub' = [hub EXCEPT ![Socket] =
                   [Absent EXCEPT !.peer = IF refused THEN "closed" ELSE "connecting",
                                  !.failure = refused]]
            /\ UNCHANGED <<events, told>>
  /\ UNCHANGED <<js, polling, reading, storage, wrappers, packets>>

Accepts(s) == hub[s].peer = "open" /\ ~hub[s].closing

\* RNWebSocketHub::send of a message over one of its limits; others change nothing here.
SentTooMuch(s) ==
  IF Accepts(s) THEN [hub EXCEPT ![s].peer = "closed", ![s].failure = TRUE] ELSE hub
HubSendTooMuch ==
  /\ Take("sendTooMuch")
  /\ hub' = SentTooMuch(Socket)
  /\ UNCHANGED <<js, polling, reading, storage, wrappers, events, told, packets>>

HubUseBlobs ==
  /\ Take("useBlobs")
  /\ hub' = IF Socket \in Held THEN [hub EXCEPT ![Socket].blobMessages = TRUE] ELSE hub
  /\ UNCHANGED <<js, polling, reading, storage, wrappers, events, told, packets>>

\* RNWebSocketHub::send_blob: read_blob pins the storage, copies it in chunks and unpins it;
\* JavaScript may close the Blob in between.
HubSendBlob ==
  LET b == Head(calls).blob
  IN /\ Take("sendBlob")
     /\ IF b \in Stored
          THEN /\ storage' = [storage EXCEPT ![b] = "both"]
               /\ reading' = [socket |-> Socket, blob |-> b] /\ UNCHANGED <<events, told>>
          ELSE /\ Emit(Socket, "failed", 0) /\ Told(Socket, "blobFailed")
               /\ UNCHANGED <<storage, reading>>
     /\ UNCHANGED <<js, hub, polling, wrappers, packets>>
BlobRead ==
  /\ reading # Idle /\ reading' = Idle
  /\ storage' = Unpinned(reading.blob)
  /\ hub' \in {hub, SentTooMuch(reading.socket)}   \* send()
  /\ UNCHANGED <<js, calls, polling, wrappers, events, told, packets>>

HubClose ==
  /\ Take("close")
  /\ hub' = IF Socket \notin Held \/ hub[Socket].closing THEN hub
            ELSE [hub EXCEPT ![Socket].closing = TRUE,
                             ![Socket].peer = IF @ = "open" THEN "closing" ELSE "closed"]
  /\ UNCHANGED <<js, polling, reading, storage, wrappers, events, told, packets>>

\* RNNetworkingModule: the response of a fetch that asked for a Blob.  JavaScript wraps it
\* unless it has aborted the request since.
StoreResponse(b) ==
  /\ MainIsFree /\ storage[b] = "unused" /\ Cardinality(Stored) < MaxBlobs
  /\ storage' = [storage EXCEPT ![b] = "owned"] /\ wrappers' = [wrappers EXCEPT ![b] = "coming"]
  /\ UNCHANGED <<js, calls, hub, polling, reading, events, told, packets>>

(***************************************************************************)
(* The main thread: RNWebSocketHub::process_frame, one socket a step, then   *)
(* RNBlobService::drain_releases.                                           *)
(***************************************************************************)
BeginFrame ==
  /\ MainIsFree /\ Held # {} /\ polling' = SetToSeq(Held)
  /\ UNCHANGED <<js, calls, hub, reading, storage, wrappers, events, told, packets>>

\* Mutant: a socket whose failure was told stays in the hub.
FailedStays(s, what) ==
  /\ hub' = IF what = "failed" THEN hub ELSE [hub EXCEPT ![s] = Absent]
  /\ Told(s, "end") /\ Emit(s, what, 0) /\ UNCHANGED storage
\* The socket is erased when the frame has polled them all.
Ends(s, what) ==
  /\ hub' = [hub EXCEPT ![s] = Absent] /\ Told(s, "end") /\ Emit(s, what, 0)
  /\ UNCHANGED storage
Fails(s) ==
  /\ hub' = [hub EXCEPT ![s].failure = TRUE, ![s].peer = "closed"]
  /\ UNCHANGED <<events, told, storage>>

Opens(s) == hub[s].peer = "open" /\ ~hub[s].opened /\ ~hub[s].closing
Opened(s) ==
  /\ hub' = [hub EXCEPT ![s].opened = TRUE] /\ Told(s, "open") /\ Emit(s, "open", 0)
  /\ UNCHANGED storage

Message(s) == Head(hub[s].inbox)
Delivers(s) == hub' = [hub EXCEPT ![s].inbox = Tail(@)] /\ Told(s, "message")
\* Out of ids, the model fails to store as a full service does.
NewIds == {b \in Blobs : storage[b] = "unused"}
Receives(s) ==
  IF Message(s) = "tooLarge" THEN Fails(s)
  ELSE IF Message(s) = "text" \/ ~hub[s].blobMessages
    THEN Delivers(s) /\ UNCHANGED <<storage, events>>
  ELSE IF Cardinality(Stored) >= MaxBlobs \/ NewIds = {} THEN Fails(s)
  ELSE \E b \in NewIds :
         storage' = [storage EXCEPT ![b] = "owned"] /\ Delivers(s) /\ Emit(s, "blob", b)

HasMessage(s) == hub[s].peer = "open" /\ hub[s].inbox # <<>>
\* Mutant: the deadline is looked at only once the peer has closed.
OverdueIfClosed(s) == hub[s].closing /\ hub[s].late /\ hub[s].peer = "closed"
Overdue(s) == hub[s].closing /\ hub[s].late

\* What one socket may meet in a frame, in the order of the code: a failure left to
\* report, then opening and messages, then the end.
Poll ==
  /\ polling # <<>>
  /\ LET s == Head(polling)
     IN IF hub[s].failure THEN Ends(s, "failed") /\ polling' = Tail(polling)
        ELSE IF Opens(s) THEN Opened(s) /\ UNCHANGED polling
        ELSE /\ polling' = Tail(polling)
             /\ IF HasMessage(s) THEN Receives(s)
                ELSE IF hub[s].peer = "closed" \/ Overdue(s)
                  THEN Ends(s, IF hub[s].opened \/ hub[s].closing THEN "ended" ELSE "failed")
                ELSE UNCHANGED <<hub, storage, events, told>>
  /\ UNCHANGED <<js, calls, reading, wrappers, packets>>

DrainReleases ==
  /\ MainIsFree
  /\ \E b \in Blobs : /\ wrappers[b] = "collected" /\ b \in Stored
                      /\ storage' = Released(b)
                      /\ wrappers' = [wrappers EXCEPT ![b] = "drained"]
  /\ UNCHANGED <<js, calls, hub, polling, reading, events, told, packets>>

(***************************************************************************)
(* The servers, the network and the clock.                                  *)
(***************************************************************************)
Change(s, peer) == MainIsFree /\ hub' = [hub EXCEPT ![s].peer = peer]
Sends(s) ==
  /\ MainIsFree /\ hub[s].peer = "open" /\ packets < MaxPackets
  /\ \E m \in {"text", "binary", "tooLarge"} : hub' = [hub EXCEPT ![s].inbox = Append(@, m)]
  /\ packets' = packets + 1
RemotePeer(s) ==
  /\ \/ hub[s].peer = "connecting" /\ Change(s, "open") /\ UNCHANGED packets
     \/ hub[s].peer \notin {"absent", "closed"} /\ Change(s, "closed") /\ UNCHANGED packets
     \/ Sends(s)
  /\ UNCHANGED <<js, calls, polling, reading, storage, wrappers, events, told>>
CloseTimeout(s) ==
  /\ MainIsFree /\ hub[s].closing /\ ~hub[s].late
  /\ hub' = [hub EXCEPT ![s].late = TRUE]
  /\ UNCHANGED <<js, calls, polling, reading, storage, wrappers, events, told, packets>>

MainCall == HubConnect \/ HubSendTooMuch \/ HubUseBlobs \/ HubSendBlob \/ HubClose
SocketsNext ==
  \/ \E s \in Sockets : Connect(s) \/ SocketCall(s) \/ RemotePeer(s) \/ CloseTimeout(s)
  \/ \E b \in Blobs : CreateBlob(b) \/ CloseBlob(b) \/ Collect(b) \/ StoreResponse(b)
  \/ MainCall \/ BlobRead \/ BeginFrame \/ Poll \/ DrainReleases \/ Handle

SocketsFairness ==
  /\ SF_socketVars(MainCall) /\ WF_socketVars(BlobRead \/ Poll) /\ SF_socketVars(BeginFrame)
  /\ WF_socketVars(Handle) /\ \A s \in Sockets : SF_socketVars(CloseTimeout(s))
SocketsSpec == SocketsInit /\ [][SocketsNext]_socketVars /\ SocketsFairness

(***************************************************************************)
(* Properties.                                                             *)
(***************************************************************************)
\* A Blob that JavaScript can still use, or that is being read, has its bytes; one that it
\* closed or whose collector was drained has them only while they are read; and Blobs take no
\* more than max_blob_bytes (RNBlobService's owners, pins and collectors).
BlobsAreKept ==
  /\ \A b \in Blobs : wrappers[b] = "open" => storage[b] \in {"owned", "both"}
  /\ \A b \in Blobs : wrappers[b] \in {"closed", "drained"} => storage[b] \in {"pinned", "gone"}
  /\ \A b \in Blobs : storage[b] \in {"pinned", "both"} <=> reading # Idle /\ reading.blob = b
  /\ Cardinality(Stored) <= MaxBlobs

\* Of a socket the hub tells that it opened, at most once and before any message, and that
\* it ended, once and last; only then is it out of the hub (process_frame).
ToldInOrder ==
  \A s \in Sockets :
    LET t == told[s]
    IN /\ s \in Held => js[s] # "unused"
       /\ \A i \in 1..Len(t) :
            /\ t[i] = "open" => \A k \in 1..(i - 1) : t[k] = "blobFailed"
            /\ t[i] = "message" => \E k \in 1..(i - 1) : t[k] = "open"
            /\ t[i] = "end" => s \notin Held /\ \A k \in (i + 1)..Len(t) : t[k] = "blobFailed"

\* A socket that JavaScript closes is told to have ended, though the server never answers
\* (close_deadline).
ClosingSocketEnds == \A s \in Sockets : js[s] = "closing" ~> js[s] = "closed"

\* "Normal close, failure, cancellation and generation reset release native peers once"
\* (documentation/interop.md:211): a socket that JavaScript was told has failed has no peer.
\* send_blob tells it of a Blob it cannot read and keeps the peer.
FailedSocketIsReleased ==
  \A i \in DOMAIN events : events[i].what = "failed" => events[i].socket \notin Held
=================================================================================
