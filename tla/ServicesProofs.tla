----------------------------- MODULE ServicesProofs ----------------------------
(***************************************************************************)
(* Theorems of native parts between JavaScript's thread and the main       *)
(* thread: sockets with their Blobs, and mounting.                         *)
(***************************************************************************)
EXTENDS Sockets, Mounting, SumTheorems, FiniteSetTheorems, FunctionTheorems, SequenceTheorems, TLAPS

-----------------------------------------------------------------------------
(***************************************************************************)
(* Theorems of Sockets, for any sockets and Blobs and any number of events.*)
(*                                                                         *)
(* A Blob that JavaScript may still reach is owned by the storage: it is on*)
(* its way to JavaScript without a wrapper, or it has an open one; each is *)
(* told once, so no wrapper is given twice (BlobsAreHeld).  What is told   *)
(* of a socket is in order because the hub says of each peer what it told  *)
(* last, and forgets a peer as it tells the end (TalesAreTrue).            *)
(***************************************************************************)

States == {"unused", "connecting", "open", "closing", "closed"}
Peers == {"absent", "connecting", "open", "closing", "closed"}
Hubbed == [peer : Peers, inbox : Seq({"text", "binary", "tooLarge"}), opened : BOOLEAN,
           closing : BOOLEAN, late : BOOLEAN, blobMessages : BOOLEAN, failure : BOOLEAN]
HubCall == [op : {"connect", "useBlobs", "sendTooMuch", "close"}, socket : Sockets, blob : {0}]
           \cup [op : {"sendBlob"}, socket : Sockets, blob : Blobs]
HubEvent == [socket : Sockets, what : {"open", "failed", "ended"}, blob : {0}]
            \cup [socket : Sockets, what : {"blob"}, blob : Blobs]
Words == {"open", "message", "end", "blobFailed"}
Wrappers == {"unused", "coming", "open", "closed", "lost", "collected", "drained"}

SocketsTypeOK ==
  /\ js \in [Sockets -> States] /\ calls \in Seq(HubCall)
  /\ hub \in [Sockets -> Hubbed] /\ IsFiniteSet(Held)
  /\ polling \in Seq(Sockets) /\ reading \in {Idle} \cup [socket : Sockets, blob : Blobs]
  /\ storage \in [Blobs -> {"unused", "owned", "pinned", "both", "gone"}]
  /\ wrappers \in [Blobs -> Wrappers] /\ events \in Seq(HubEvent)
  /\ told \in [Sockets -> Seq(Words)] /\ packets \in Nat

\* What of a set of calls or events is in a queue, and whether it is so once.
Within(q, T) == \E i \in 1..Len(q) : q[i] \in T
Once(q, T) == \A i, j \in 1..Len(q) : q[i] \in T /\ q[j] \in T => i = j

ConnectOf(s) == {c \in HubCall : c.op = "connect" /\ c.socket = s}
MessageOf(b) == {e \in HubEvent : e.what = "blob" /\ e.blob = b}

Quiet(t) == \A i \in 1..Len(t) : t[i] = "blobFailed"
HasOpened(t) == \E i \in 1..Len(t) : t[i] = "open"
Ended(t) == \E i \in 1..Len(t) : t[i] = "end"
InOrder(t) ==
  \A i \in 1..Len(t) :
    /\ t[i] = "open" => \A k \in 1..(i - 1) : t[k] = "blobFailed"
    /\ t[i] = "message" => \E k \in 1..(i - 1) : t[k] = "open"
    /\ t[i] = "end" => \A k \in (i + 1)..Len(t) : t[k] = "blobFailed"

(* What is told of a socket, t, is in order; the hub has told that a peer opened exactly   *)
(* if it says so, and the end exactly of sockets it has let go.  Until its one connect is  *)
(* handled a socket is not in the hub and nothing but failed Blobs was told of it.         *)
Tale(j, q, h, t, s) ==
  /\ InOrder(t)
  /\ h.peer = "absent" => h = Absent
  /\ h.closing => h.peer \in {"closing", "closed"}
  /\ h.peer # "absent" => /\ j # "unused" /\ ~Within(q, ConnectOf(s))
                          /\ ~Ended(t) /\ (h.opened <=> HasOpened(t))
  /\ Within(q, ConnectOf(s)) => j # "unused" /\ Quiet(t)
  /\ j = "unused" => Quiet(t)
  /\ Once(q, ConnectOf(s))
TalesAreTrue == \A s \in Sockets : Tale(js[s], calls, hub[s], told[s], s)

(* A Blob on its way to JavaScript, which gives it a wrapper when it comes, is owned.       *)
Kept(w, st, q, b) ==
  /\ w \in {"open", "coming"} => st \in {"owned", "both"}
  /\ w \in {"closed", "drained"} => st \in {"pinned", "gone"}
  /\ Within(q, MessageOf(b)) => w = "unused" /\ st \in {"owned", "both"}
  /\ st = "unused" => w = "unused"
  /\ Once(q, MessageOf(b))
BlobsAreHeld ==
  /\ \A b \in Blobs : Kept(wrappers[b], storage[b], events, b)
  /\ \A b \in Blobs : storage[b] \in {"pinned", "both"} <=> reading # Idle /\ reading.blob = b
  /\ IsFiniteSet(Stored) /\ Cardinality(Stored) <= MaxBlobs

SocketsInv == SocketsTypeOK /\ TalesAreTrue /\ BlobsAreHeld

USE SocketBounds

-----------------------------------------------------------------------------
(* Queues. *)

\* What is in a queue that has grown, and whether it is there once.
LEMMA AppendWithin ==
  ASSUME NEW S, NEW T, NEW q \in Seq(S), NEW x
  PROVE  /\ Within(Append(q, x), T) <=> Within(q, T) \/ x \in T
         /\ Once(q, T) /\ (x \notin T \/ ~Within(q, T)) => Once(Append(q, x), T)
<1> DEFINE p == Append(q, x)
<1>1. /\ Len(p) = Len(q) + 1 /\ p[Len(q) + 1] = x /\ Len(q) \in Nat
      /\ \A i \in 1..Len(q) : p[i] = q[i]
  OBVIOUS
<1> HIDE DEF p
<1>2. \A i \in 1..Len(p) : i \in 1..Len(q) \/ i = Len(q) + 1
  BY <1>1
<1>3. \A i \in 1..Len(q) : i \in 1..Len(p)
  BY <1>1
<1>4. Len(q) + 1 \in 1..Len(p)
  BY <1>1
<1>5. Within(p, T) <=> Within(q, T) \/ x \in T
  BY <1>1, <1>2, <1>3, <1>4 DEF Within
<1>6. Once(q, T) /\ (x \notin T \/ ~Within(q, T)) => Once(p, T)
  BY <1>1, <1>2 DEF Within, Once
<1> QED BY <1>5, <1>6 DEF p

\* What is in a queue whose head has left.
LEMMA TailWithin ==
  ASSUME NEW S, NEW T, NEW q \in Seq(S), q # <<>>
  PROVE  /\ Within(Tail(q), T) => Within(q, T)
         /\ Head(q) \in T => Within(q, T)
         /\ Once(q, T) => Once(Tail(q), T)
         /\ Once(q, T) /\ Head(q) \in T => ~Within(Tail(q), T)
<1>1. /\ Len(Tail(q)) = Len(q) - 1 /\ Len(q) \in Nat /\ Len(q) >= 1 /\ Head(q) = q[1]
      /\ \A i \in 1..Len(Tail(q)) : Tail(q)[i] = q[i + 1] /\ i + 1 \in 1..Len(q)
  OBVIOUS
<1>2. (Within(Tail(q), T) => Within(q, T)) /\ (Head(q) \in T => Within(q, T))
  BY <1>1 DEF Within
<1>3. Once(q, T) => Once(Tail(q), T)
  <2> SUFFICES ASSUME Once(q, T), NEW i \in 1..Len(Tail(q)), NEW j \in 1..Len(Tail(q)),
                      Tail(q)[i] \in T, Tail(q)[j] \in T
               PROVE  i = j
    BY DEF Once
  <2>1. i + 1 = j + 1
    BY <1>1 DEF Once
  <2> QED BY <2>1, <1>1
<1>4. Once(q, T) /\ Head(q) \in T => ~Within(Tail(q), T)
  <2> SUFFICES ASSUME Once(q, T), Head(q) \in T, NEW i \in 1..Len(Tail(q)), Tail(q)[i] \in T
               PROVE  FALSE
    BY DEF Within
  <2>1. i + 1 = 1
    BY <1>1 DEF Once
  <2> QED BY <2>1, <1>1
<1> QED BY <1>2, <1>3, <1>4

\* The head of a queue and the rest of it.
LEMMA TailType ==
  ASSUME NEW S, NEW q \in Seq(S), q # <<>>
  PROVE  Tail(q) \in Seq(S) /\ Head(q) \in S
OBVIOUS

\* What may be told next.
MayTell(t, x) ==
  \/ x = "blobFailed"
  \/ x = "open" /\ Quiet(t)
  \/ x = "message" /\ HasOpened(t) /\ ~Ended(t)
  \/ x = "end" /\ ~Ended(t)

\* One more word about a socket.
LEMMA TellMore ==
  ASSUME NEW t \in Seq(Words), NEW x \in Words, InOrder(t)
  PROVE  LET u == Append(t, x)
         IN /\ u \in Seq(Words)
            /\ Ended(u) <=> Ended(t) \/ x = "end"
            /\ HasOpened(u) <=> HasOpened(t) \/ x = "open"
            /\ Quiet(u) <=> Quiet(t) /\ x = "blobFailed"
            /\ MayTell(t, x) => InOrder(u)
<1> DEFINE u == Append(t, x)
           n == Len(t)
<1>1. /\ u \in Seq(Words) /\ Len(u) = n + 1 /\ u[n + 1] = x /\ n \in Nat
      /\ \A i \in 1..n : u[i] = t[i]
  OBVIOUS
<1> HIDE DEF u
<1>2. \A i \in 1..Len(u) : i \in 1..n \/ i = n + 1
  BY <1>1
<1>3. \A i \in 1..n : i \in 1..Len(u)
  BY <1>1
<1>4. n + 1 \in 1..Len(u)
  BY <1>1
<1>5. /\ Ended(u) <=> Ended(t) \/ x = "end"
      /\ HasOpened(u) <=> HasOpened(t) \/ x = "open"
      /\ Quiet(u) <=> Quiet(t) /\ x = "blobFailed"
  BY <1>1, <1>2, <1>3, <1>4 DEF Ended, HasOpened, Quiet
<1>6. ASSUME MayTell(t, x), NEW i \in 1..Len(u)
      PROVE  /\ u[i] = "open" => \A k \in 1..(i - 1) : u[k] = "blobFailed"
             /\ u[i] = "message" => \E k \in 1..(i - 1) : u[k] = "open"
             /\ u[i] = "end" => \A k \in (i + 1)..Len(u) : u[k] = "blobFailed"
  <2>1. CASE i \in 1..n
    <3>1. /\ u[i] = t[i] /\ \A k \in 1..(i - 1) : k \in 1..n /\ u[k] = t[k]
          /\ \A k \in (i + 1)..n : k \in 1..n /\ u[k] = t[k]
          /\ \A k \in (i + 1)..Len(u) : k \in (i + 1)..n \/ k = n + 1
      BY <1>1, <2>1
    <3>2. t[i] = "end" => x = "blobFailed"
      BY <1>6, <2>1 DEF Ended, Quiet, MayTell
    <3> QED BY <1>1, <2>1, <3>1, <3>2 DEF InOrder
  <2>2. CASE i = n + 1
    <3>1. \A k : k \in 1..(i - 1) <=> k \in 1..n
      BY <1>1, <2>2
    <3>2. (i + 1)..Len(u) = {}
      BY <1>1, <2>2
    <3> QED BY <1>1, <1>6, <2>2, <3>1, <3>2 DEF Quiet, HasOpened, MayTell
  <2> QED BY <1>2, <2>1, <2>2
<1> QED BY <1>1, <1>5, <1>6 DEF u, InOrder

-----------------------------------------------------------------------------
(* What a step leaves as it was. *)

\* The hub holds finitely many sockets.
LEMMA HeldIsFinite ==
  ASSUME SocketsTypeOK, NEW s \in Sockets, NEW h \in Hubbed, hub' = [hub EXCEPT ![s] = h]
  PROVE  hub' \in [Sockets -> Hubbed] /\ IsFiniteSet(Held')
<1>1. hub' \in [Sockets -> Hubbed] /\ Held' \subseteq Held \cup {s}
  BY DEF SocketsTypeOK, Held
<1>2. IsFiniteSet(Held \cup {s})
  BY FS_AddElement DEF SocketsTypeOK
<1> QED BY <1>1, <1>2, FS_Subset

\* The queue of calls stays or loses its head, and no socket becomes unused.
Consumes == calls' = calls \/ (calls # <<>> /\ calls' = Tail(calls))
StaysUsed == \A s \in Sockets : js'[s] = "unused" => js[s] = "unused"

\* A step that tells nothing and leaves the hub alone.
LEMMA TalesStay ==
  ASSUME SocketsInv, Consumes, StaysUsed, UNCHANGED <<hub, told>>
  PROVE  TalesAreTrue'
<1> SUFFICES ASSUME NEW s \in Sockets PROVE Tale(js'[s], calls', hub[s], told[s], s)
  BY DEF TalesAreTrue
<1>1. Tale(js[s], calls, hub[s], told[s], s) /\ calls \in Seq(HubCall)
  BY DEF SocketsInv, TalesAreTrue, SocketsTypeOK
<1>2. /\ Within(calls', ConnectOf(s)) => Within(calls, ConnectOf(s))
      /\ Once(calls', ConnectOf(s))
  BY <1>1, TailWithin DEF Consumes, Tale
<1> QED BY <1>1, <1>2 DEF Tale, StaysUsed

\* A step that changes a socket in the hub, and keeps it there and whether it has opened.
LEMMA TalesOfChange ==
  ASSUME SocketsInv, Consumes, StaysUsed, UNCHANGED told,
         NEW s \in Sockets, NEW h \in Hubbed, hub' = [hub EXCEPT ![s] = h],
         hub[s].peer # "absent", h.peer # "absent", h.opened = hub[s].opened,
         h.closing => h.peer \in {"closing", "closed"}
  PROVE  TalesAreTrue'
<1> SUFFICES ASSUME NEW x \in Sockets PROVE Tale(js'[x], calls', hub'[x], told[x], x)
  BY DEF TalesAreTrue
<1>1. Tale(js[x], calls, hub[x], told[x], x) /\ calls \in Seq(HubCall)
  BY DEF SocketsInv, TalesAreTrue, SocketsTypeOK
<1>2. /\ Within(calls', ConnectOf(x)) => Within(calls, ConnectOf(x))
      /\ Once(calls', ConnectOf(x))
  BY <1>1, TailWithin DEF Consumes, Tale
<1>3. hub'[x] = IF x = s THEN h ELSE hub[x]
  BY DEF SocketsInv, SocketsTypeOK
<1> QED BY <1>1, <1>2, <1>3 DEF Tale, StaysUsed

\* A step that tells one word about a socket, after which its tale is true.
LEMMA TalesOfWord ==
  ASSUME SocketsInv, Consumes, StaysUsed,
         NEW s \in Sockets, NEW h \in Hubbed, hub' = [hub EXCEPT ![s] = h],
         NEW t, told' = [told EXCEPT ![s] = t], Tale(js'[s], calls', h, t, s)
  PROVE  TalesAreTrue'
<1> SUFFICES ASSUME NEW x \in Sockets PROVE Tale(js'[x], calls', hub'[x], told'[x], x)
  BY DEF TalesAreTrue
<1>1. Tale(js[x], calls, hub[x], told[x], x) /\ calls \in Seq(HubCall)
  BY DEF SocketsInv, TalesAreTrue, SocketsTypeOK
<1>2. /\ Within(calls', ConnectOf(x)) => Within(calls, ConnectOf(x))
      /\ Once(calls', ConnectOf(x))
  BY <1>1, TailWithin DEF Consumes, Tale
<1>3. /\ hub'[x] = IF x = s THEN h ELSE hub[x]
      /\ told'[x] = IF x = s THEN t ELSE told[x]
  BY DEF SocketsInv, SocketsTypeOK
<1> QED BY <1>1, <1>2, <1>3 DEF Tale, StaysUsed

\* No Blob is on its way that was not before.
NoBlobComes ==
  events' = events \/ \E e : e.what # "blob" /\ events' = Append(events, e)

\* A step that leaves Blobs alone.
LEMMA BlobsStay ==
  ASSUME SocketsInv, NoBlobComes, UNCHANGED <<storage, wrappers, reading>>
  PROVE  BlobsAreHeld'
<1>1. ASSUME NEW b \in Blobs PROVE Kept(wrappers[b], storage[b], events', b)
  <2>1. Kept(wrappers[b], storage[b], events, b) /\ events \in Seq(HubEvent)
    BY DEF SocketsInv, BlobsAreHeld, SocketsTypeOK
  <2>2. \A e : e.what # "blob" => e \notin MessageOf(b)
    BY DEF MessageOf
  <2>3. /\ Within(events', MessageOf(b)) <=> Within(events, MessageOf(b))
        /\ Once(events', MessageOf(b))
    <3>1. CASE events' = events
      BY <2>1, <3>1 DEF Kept
    <3>2. ASSUME NEW e, e.what # "blob", events' = Append(events, e)
          PROVE  /\ Within(events', MessageOf(b)) <=> Within(events, MessageOf(b))
                 /\ Once(events', MessageOf(b))
      <4>1. e \notin MessageOf(b) /\ Once(events, MessageOf(b))
        BY <2>1, <2>2, <3>2 DEF Kept
      <4> QED BY <2>1, <3>2, <4>1, AppendWithin
    <3> QED BY <3>1, <3>2 DEF NoBlobComes
  <2> QED BY <2>1, <2>3 DEF Kept
<1>2. Stored' = Stored
  BY DEF Stored
<1> QED BY <1>1, <1>2 DEF SocketsInv, BlobsAreHeld

-----------------------------------------------------------------------------
(* JavaScript's steps. *)

\* Nothing is connected or stored.
LEMMA SocketsStart == SocketsInit => SocketsInv
<1> SUFFICES ASSUME SocketsInit PROVE SocketsInv
  OBVIOUS
<1>1. Absent \in Hubbed /\ Absent.peer = "absent" /\ ~Absent.closing
  BY DEF Absent, Hubbed, Peers
<1>2. Held = {} /\ Stored = {}
  BY <1>1 DEF SocketsInit, Held, Stored
<1>3. SocketsTypeOK
  BY <1>1, <1>2, FS_EmptySet DEF SocketsInit, SocketsTypeOK, States, Wrappers
<1>4. ASSUME NEW s \in Sockets PROVE Tale(js[s], calls, hub[s], told[s], s)
  BY <1>1 DEF SocketsInit, Tale, InOrder, Quiet, Within, Once
<1>5. ASSUME NEW b \in Blobs PROVE Kept(wrappers[b], storage[b], events, b)
  BY DEF SocketsInit, Kept, Within, Once
<1>6. BlobsAreHeld
  BY <1>2, <1>5, FS_EmptySet DEF SocketsInit, BlobsAreHeld
<1> QED BY <1>3, <1>4, <1>6 DEF SocketsInv, TalesAreTrue

\* A socket is connected once, and before that nothing was told of it.
LEMMA ConnectStep ==
  ASSUME SocketsInv, NEW s \in Sockets, Connect(s)
  PROVE  SocketsInv'
<1> DEFINE call == Call("connect", s, 0)
<1>1. /\ js[s] = "unused" /\ js' = [js EXCEPT ![s] = "connecting"]
      /\ calls' = Append(calls, call)
      /\ UNCHANGED <<hub, polling, reading, storage, wrappers, events, told, packets>>
  BY DEF Connect, Post
<1>2. call \in HubCall /\ \A x \in Sockets : call \in ConnectOf(x) <=> x = s
  BY DEF Call, HubCall, ConnectOf
<1> HIDE DEF call
<1>3. SocketsTypeOK'
  BY <1>1, <1>2 DEF SocketsInv, SocketsTypeOK, States, Held
<1>4. ASSUME NEW x \in Sockets PROVE Tale(js'[x], calls', hub[x], told[x], x)
  <2>1. Tale(js[x], calls, hub[x], told[x], x) /\ calls \in Seq(HubCall)
    BY DEF SocketsInv, TalesAreTrue, SocketsTypeOK
  <2>2. js'[x] = IF x = s THEN "connecting" ELSE js[x]
    BY <1>1 DEF SocketsInv, SocketsTypeOK
  <2>3. /\ Within(calls', ConnectOf(x)) <=> Within(calls, ConnectOf(x)) \/ x = s
        /\ Once(calls, ConnectOf(x)) /\ (x # s \/ ~Within(calls, ConnectOf(x)))
             => Once(calls', ConnectOf(x))
    BY <1>1, <1>2, <2>1, AppendWithin
  <2> QED BY <1>1, <2>1, <2>2, <2>3 DEF Tale
<1>5. BlobsAreHeld'
  BY <1>1, BlobsStay DEF NoBlobComes
<1> QED BY <1>1, <1>3, <1>4, <1>5 DEF SocketsInv, TalesAreTrue

\* Its other calls wait their turn.
LEMMA SocketCallStep ==
  ASSUME SocketsInv, NEW s \in Sockets, SocketCall(s)
  PROVE  SocketsInv'
<1>1. UNCHANGED <<hub, polling, reading, storage, wrappers, events, told, packets>>
  BY DEF SocketCall
<1>2. PICK call : /\ calls' = Append(calls, call) /\ call \in HubCall /\ call.op # "connect"
                  /\ js' = js \/ js' = [js EXCEPT ![s] = "closing"]
  BY DEF SocketCall, UseBlobs, Send, CloseSocket, SendBlob, Post, Call, HubCall
<1>3. SocketsTypeOK'
  BY <1>1, <1>2 DEF SocketsInv, SocketsTypeOK, States, Held
<1>4. ASSUME NEW x \in Sockets PROVE Tale(js'[x], calls', hub[x], told[x], x)
  <2>1. Tale(js[x], calls, hub[x], told[x], x) /\ calls \in Seq(HubCall)
    BY DEF SocketsInv, TalesAreTrue, SocketsTypeOK
  <2>2. js'[x] = "unused" => js[x] = "unused"
    BY <1>2 DEF SocketsInv, SocketsTypeOK
  <2>3. call \notin ConnectOf(x)
    BY <1>2 DEF ConnectOf
  <2>4. /\ Within(calls', ConnectOf(x)) <=> Within(calls, ConnectOf(x))
        /\ Once(calls, ConnectOf(x)) => Once(calls', ConnectOf(x))
    BY <1>2, <2>1, <2>3, AppendWithin
  <2> QED BY <2>1, <2>2, <2>4 DEF Tale
<1>5. BlobsAreHeld'
  BY <1>1, BlobsStay DEF NoBlobComes
<1> QED BY <1>1, <1>3, <1>4, <1>5 DEF SocketsInv, TalesAreTrue

\* A step that changes the storage and the wrapper of one Blob, and what is read of it.
LEMMA BlobChanges ==
  ASSUME SocketsInv, UNCHANGED events, NEW b \in Blobs, NEW w \in Wrappers,
         NEW st \in {"unused", "owned", "pinned", "both", "gone"},
         storage' = [storage EXCEPT ![b] = st], wrappers' = [wrappers EXCEPT ![b] = w],
         Kept(w, st, events, b), UNCHANGED reading,
         st \in {"pinned", "both"} <=> storage[b] \in {"pinned", "both"},
         b \in Stored \/ st \notin {"owned", "pinned", "both"} \/ Cardinality(Stored) < MaxBlobs
  PROVE  /\ BlobsAreHeld'
         /\ storage' \in [Blobs -> {"unused", "owned", "pinned", "both", "gone"}]
         /\ wrappers' \in [Blobs -> Wrappers]
<1>1. /\ storage' \in [Blobs -> {"unused", "owned", "pinned", "both", "gone"}]
      /\ wrappers' \in [Blobs -> Wrappers]
      /\ \A x \in Blobs : /\ storage'[x] = IF x = b THEN st ELSE storage[x]
                          /\ wrappers'[x] = IF x = b THEN w ELSE wrappers[x]
  BY DEF SocketsInv, SocketsTypeOK
<1>2. ASSUME NEW x \in Blobs PROVE Kept(wrappers'[x], storage'[x], events', x)
  BY <1>1 DEF SocketsInv, BlobsAreHeld
<1>3. ASSUME NEW x \in Blobs
      PROVE  storage'[x] \in {"pinned", "both"} <=> reading # Idle /\ reading.blob = x
  BY <1>1 DEF SocketsInv, BlobsAreHeld
<1>4. IsFiniteSet(Stored) /\ Cardinality(Stored) <= MaxBlobs /\ Cardinality(Stored) \in Nat
  BY FS_CardinalityType DEF SocketsInv, BlobsAreHeld
<1>5. IsFiniteSet(Stored') /\ Cardinality(Stored') <= MaxBlobs
  <2>1. CASE b \in Stored \/ st \notin {"owned", "pinned", "both"}
    <3>1. Stored' \subseteq Stored
      BY <1>1, <2>1 DEF Stored
    <3>2. IsFiniteSet(Stored') /\ Cardinality(Stored') <= Cardinality(Stored)
      BY <1>4, <3>1, FS_Subset
    <3>3. Cardinality(Stored') \in Nat
      BY <3>2, FS_CardinalityType
    <3> QED BY <1>4, <3>2, <3>3
  <2>2. CASE Cardinality(Stored) < MaxBlobs
    <3>1. Stored' \subseteq Stored \cup {b}
      BY <1>1 DEF Stored
    <3>2. /\ IsFiniteSet(Stored \cup {b}) /\ Cardinality(Stored \cup {b}) \in Nat
          /\ Cardinality(Stored \cup {b}) <= Cardinality(Stored) + 1
      BY <1>4, FS_AddElement, FS_CardinalityType
    <3>3. IsFiniteSet(Stored') /\ Cardinality(Stored') <= Cardinality(Stored \cup {b})
      BY <3>1, <3>2, FS_Subset
    <3>4. Cardinality(Stored') \in Nat
      BY <3>3, FS_CardinalityType
    <3> QED BY <1>4, <2>2, <3>2, <3>3, <3>4
  <2> QED BY <2>1, <2>2
<1>6. BlobsAreHeld'
  BY <1>2, <1>3, <1>5 DEF BlobsAreHeld
<1> QED BY <1>1, <1>6

\* The storage of a Blob JavaScript lets go, and of one that was read.
LEMMA StorageOf ==
  ASSUME SocketsInv, NEW b \in Blobs
  PROVE  /\ Released(b) = [storage EXCEPT ![b] =
              IF storage[b] = "owned" THEN "gone"
              ELSE IF storage[b] = "both" THEN "pinned" ELSE storage[b]]
         /\ Unpinned(b) = [storage EXCEPT ![b] = IF storage[b] = "both" THEN "owned" ELSE "gone"]
         /\ storage[b] \in {"unused", "owned", "pinned", "both", "gone"}
         /\ wrappers[b] \in Wrappers
         /\ Kept(wrappers[b], storage[b], events, b)
         /\ b \in Stored <=> storage[b] \in {"owned", "pinned", "both"}
BY DEF SocketsInv, SocketsTypeOK, Released, Unpinned, BlobsAreHeld, Stored

\* The steps that concern a Blob of JavaScript's only: it is made or wanted by a response, closed,
\* wrapped, dropped, or its collector's report is drained.
LEMMA BlobSteps ==
  ASSUME SocketsInv, NEW b \in Blobs,
         \/ CreateBlob(b) \/ CloseBlob(b) \/ Collect(b) \/ StoreResponse(b)
         \/ /\ b \in Stored /\ wrappers[b] = "collected" /\ storage' = Released(b)
            /\ wrappers' = [wrappers EXCEPT ![b] = "drained"]
            /\ UNCHANGED <<js, calls, hub, polling, reading, events, told, packets>>
  PROVE  SocketsInv'
<1>1. UNCHANGED <<js, calls, hub, polling, reading, events, told, packets>>
  BY DEF CreateBlob, CloseBlob, Collect, StoreResponse
<1>2. PICK w \in Wrappers, st \in {"unused", "owned", "pinned", "both", "gone"} :
        /\ storage' = [storage EXCEPT ![b] = st] /\ wrappers' = [wrappers EXCEPT ![b] = w]
        /\ Kept(w, st, events, b)
        /\ st \in {"pinned", "both"} <=> storage[b] \in {"pinned", "both"}
        /\ \/ b \in Stored \/ st \notin {"owned", "pinned", "both"}
           \/ Cardinality(Stored) < MaxBlobs
  <2>1. CASE CreateBlob(b)
    BY <2>1, StorageOf DEF CreateBlob, Kept, Wrappers
  <2>2. CASE StoreResponse(b)
    BY <2>2, StorageOf DEF StoreResponse, Kept, Wrappers
  <2>3. CASE CloseBlob(b)
    BY <2>3, StorageOf DEF CloseBlob, Kept, Wrappers
  <2>4. CASE Collect(b)
    <3>1. storage' = [storage EXCEPT ![b] = storage[b]]
      BY <2>4 DEF Collect, SocketsInv, SocketsTypeOK
    <3>2. PICK w \in Wrappers : /\ wrappers' = [wrappers EXCEPT ![b] = w]
                                /\ \/ wrappers[b] = "coming" /\ w = "open"
                                   \/ wrappers[b] # "unused" /\ w \in {"lost", "collected"}
      BY <2>4 DEF Collect, Wrap, Unreferenced, Collected, Wrappers
    <3> QED BY <3>1, <3>2, StorageOf DEF Kept
  <2>5. CASE /\ b \in Stored /\ wrappers[b] = "collected" /\ storage' = Released(b)
             /\ wrappers' = [wrappers EXCEPT ![b] = "drained"]
    BY <2>5, StorageOf DEF Kept, Wrappers
  <2> QED BY <2>1, <2>2, <2>3, <2>4, <2>5
<1>3. /\ BlobsAreHeld' /\ wrappers' \in [Blobs -> Wrappers]
      /\ storage' \in [Blobs -> {"unused", "owned", "pinned", "both", "gone"}]
  <2>1. UNCHANGED events /\ UNCHANGED reading
    BY <1>1
  <2>2. storage' = [storage EXCEPT ![b] = st] /\ wrappers' = [wrappers EXCEPT ![b] = w]
    BY <1>2
  <2>3. Kept(w, st, events, b) /\ (st \in {"pinned", "both"} <=> storage[b] \in {"pinned", "both"})
    BY <1>2
  <2>4. b \in Stored \/ st \notin {"owned", "pinned", "both"} \/ Cardinality(Stored) < MaxBlobs
    BY <1>2
  <2> QED BY ONLY SocketsInv, <2>1, <2>2, <2>3, <2>4, BlobChanges
<1>4. SocketsTypeOK'
  BY <1>1, <1>3 DEF SocketsInv, SocketsTypeOK, Held
<1>5. TalesAreTrue'
  BY <1>1, TalesStay DEF Consumes, StaysUsed
<1> QED BY <1>3, <1>4, <1>5 DEF SocketsInv

\* JavaScript handles an event: a Blob of a message it still listens to gets its wrapper.
LEMMA HandleStep ==
  ASSUME SocketsInv, Handle
  PROVE  SocketsInv'
<1> DEFINE e == Head(events)
<1>1. /\ events # <<>> /\ events' = Tail(events) /\ js' = [js EXCEPT ![e.socket] = Heard(e)]
      /\ wrappers' = IF e.what = "blob" /\ js[e.socket] # "closed"
                       THEN [wrappers EXCEPT ![e.blob] = "open"] ELSE wrappers
      /\ UNCHANGED <<calls, hub, polling, reading, storage, told, packets>>
  BY DEF Handle
<1>2. e \in HubEvent /\ events \in Seq(HubEvent) /\ events' \in Seq(HubEvent)
  BY <1>1, TailType DEF SocketsInv, SocketsTypeOK
<1> HIDE DEF e
<1>3. /\ e.socket \in Sockets /\ Heard(e) \in States
      /\ Heard(e) = "unused" => js[e.socket] = "unused"
      /\ e.what = "blob" => e.blob \in Blobs
  BY <1>2 DEF HubEvent, Heard, SocketsInv, SocketsTypeOK, States
<1>4. SocketsTypeOK'
  BY <1>1, <1>2, <1>3 DEF SocketsInv, SocketsTypeOK, Held, Wrappers
<1>5. StaysUsed
  BY <1>1, <1>3 DEF SocketsInv, SocketsTypeOK, StaysUsed
<1>6. TalesAreTrue'
  BY <1>1, <1>5, TalesStay DEF Consumes
<1>7. ASSUME NEW b \in Blobs PROVE Kept(wrappers'[b], storage[b], events', b)
  <2>1. Kept(wrappers[b], storage[b], events, b)
    BY DEF SocketsInv, BlobsAreHeld
  <2>2. /\ Within(events', MessageOf(b)) => Within(events, MessageOf(b))
        /\ e \in MessageOf(b) => Within(events, MessageOf(b)) /\ ~Within(events', MessageOf(b))
        /\ Once(events', MessageOf(b))
    BY <1>1, <1>2, <2>1, TailWithin DEF Kept, e
  <2>3. \/ wrappers'[b] = wrappers[b]
        \/ wrappers'[b] = "open" /\ e \in MessageOf(b)
    BY <1>1, <1>2, <1>3 DEF MessageOf, SocketsInv, SocketsTypeOK
  <2> QED BY <2>1, <2>2, <2>3 DEF Kept
<1>8. BlobsAreHeld'
  <2>1. Stored' = Stored
    BY <1>1 DEF Stored
  <2> QED BY <1>1, <1>7, <2>1 DEF SocketsInv, BlobsAreHeld
<1> QED BY <1>4, <1>6, <1>8 DEF SocketsInv

-----------------------------------------------------------------------------
(* The main thread's steps. *)

\* The first call is taken off the queue.
LEMMA Taken ==
  ASSUME SocketsInv, NEW op, Take(op)
  PROVE  /\ calls # <<>> /\ calls' = Tail(calls) /\ calls' \in Seq(HubCall) /\ Consumes
         /\ Head(calls) \in HubCall /\ Head(calls).op = op /\ Socket \in Sockets
         /\ polling = <<>> /\ reading = Idle
         /\ Tale(js[Socket], calls, hub[Socket], told[Socket], Socket)
         /\ hub[Socket] \in Hubbed /\ told[Socket] \in Seq(Words)
         /\ calls \in Seq(HubCall) /\ events \in Seq(HubEvent)
<1>1. calls # <<>> /\ calls' = Tail(calls) /\ polling = <<>> /\ reading = Idle /\ Head(calls).op = op
  BY DEF Take, MainIsFree
<1>2. calls \in Seq(HubCall) /\ calls' \in Seq(HubCall) /\ Head(calls) \in HubCall
  BY <1>1, TailType DEF SocketsInv, SocketsTypeOK
<1>3. Socket \in Sockets
  BY <1>2 DEF Socket, HubCall
<1> QED BY <1>1, <1>2, <1>3 DEF Consumes, SocketsInv, SocketsTypeOK, TalesAreTrue

\* An event about the end of a socket, or that it opened, brings no Blob.
LEMMA PlainEvent ==
  ASSUME NEW s \in Sockets, NEW what \in {"open", "failed", "ended"}, Emit(s, what, 0),
         events \in Seq(HubEvent)
  PROVE  events' \in Seq(HubEvent) /\ NoBlobComes
<1> DEFINE e == [socket |-> s, what |-> what, blob |-> 0]
<1>1. e \in HubEvent /\ e.what # "blob" /\ events' = Append(events, e)
  BY DEF HubEvent, Emit
<1> QED BY <1>1 DEF NoBlobComes

\* One more word about a socket.
LEMMA Telling ==
  ASSUME SocketsInv, NEW s \in Sockets, NEW x \in Words, Told(s, x)
  PROVE  /\ told' = [told EXCEPT ![s] = Append(told[s], x)]
         /\ told' \in [Sockets -> Seq(Words)]
BY DEF Told, SocketsInv, SocketsTypeOK

\* connect(): the hub has heard nothing of the socket so far.
LEMMA HubConnectStep ==
  ASSUME SocketsInv, HubConnect
  PROVE  SocketsInv'
<1> DEFINE s == Socket
<1>1. Take("connect") /\ UNCHANGED <<js, polling, reading, storage, wrappers, packets>>
  BY DEF HubConnect
<1>2. /\ s \in Sockets /\ Consumes /\ calls' \in Seq(HubCall)
      /\ Tale(js[s], calls, hub[s], told[s], s) /\ told[s] \in Seq(Words)
      /\ hub[s] \in Hubbed /\ Head(calls) \in ConnectOf(s) /\ calls' = Tail(calls)
      /\ calls # <<>> /\ calls \in Seq(HubCall) /\ events \in Seq(HubEvent)
  BY <1>1, Taken DEF ConnectOf, Socket
<1> HIDE DEF s
<1>3. /\ hub[s] = Absent /\ Quiet(told[s]) /\ InOrder(told[s]) /\ js[s] # "unused"
      /\ ~Within(calls', ConnectOf(s)) /\ Once(calls', ConnectOf(s))
  BY <1>2, TailWithin DEF Tale
<1>4. ~Ended(told[s]) /\ ~HasOpened(told[s])
  BY <1>3 DEF Quiet, Ended, HasOpened
<1>5. StaysUsed
  BY <1>1 DEF StaysUsed
<1>6. CASE Emit(s, "failed", 0) /\ Told(s, "end") /\ UNCHANGED hub
  <2>1. told' = [told EXCEPT ![s] = Append(told[s], "end")] /\ told' \in [Sockets -> Seq(Words)]
    BY <1>2, <1>6, Telling DEF Words
  <2>2. hub' = [hub EXCEPT ![s] = hub[s]]
    BY <1>2, <1>6 DEF SocketsInv, SocketsTypeOK
  <2>3. InOrder(Append(told[s], "end"))
    BY <1>2, <1>3, <1>4, TellMore DEF Words, MayTell
  <2>4. Tale(js'[s], calls', hub[s], Append(told[s], "end"), s)
    BY <1>1, <1>3, <2>3 DEF Tale, Absent
  <2>5. TalesAreTrue'
    BY <1>2, <1>5, <2>1, <2>2, <2>4, TalesOfWord
  <2>6. events' \in Seq(HubEvent) /\ NoBlobComes
    BY <1>2, <1>6, PlainEvent
  <2>7. SocketsTypeOK'
    BY <1>1, <1>2, <1>6, <2>1, <2>6 DEF SocketsInv, SocketsTypeOK, Held
  <2> QED BY <1>1, <2>5, <2>6, <2>7, BlobsStay DEF SocketsInv
<1>7. ASSUME NEW refused \in BOOLEAN, UNCHANGED <<events, told>>,
             hub' = [hub EXCEPT ![s] =
                       [Absent EXCEPT !.peer = IF refused THEN "closed" ELSE "connecting",
                                      !.failure = refused]]
      PROVE  SocketsInv'
  <2> DEFINE h == [Absent EXCEPT !.peer = IF refused THEN "closed" ELSE "connecting",
                                 !.failure = refused]
  <2>1. h \in Hubbed /\ h.peer # "absent" /\ ~h.closing /\ ~h.opened
    <3>1. Absent \in Hubbed /\ ~Absent.closing /\ ~Absent.opened
      BY DEF Absent, Hubbed, Peers
    <3>2. /\ h \in Hubbed /\ h.peer \in {"closed", "connecting"}
          /\ h.closing = Absent.closing /\ h.opened = Absent.opened
      BY <3>1 DEF Hubbed, Peers
    <3> QED BY <3>1, <3>2
  <2>2. hub' = [hub EXCEPT ![s] = h]
    BY <1>7
  <2> HIDE DEF h
  <2>3. told' = [told EXCEPT ![s] = told[s]]
    BY <1>7 DEF SocketsInv, SocketsTypeOK
  <2>4. Tale(js'[s], calls', h, told[s], s)
    BY <1>1, <1>3, <1>4, <2>1 DEF Tale
  <2>5. TalesAreTrue'
    BY <1>2, <1>5, <2>1, <2>2, <2>3, <2>4, TalesOfWord
  <2>6. SocketsTypeOK'
    BY <1>1, <1>2, <1>7, <2>1, <2>2, HeldIsFinite DEF SocketsInv, SocketsTypeOK
  <2> QED BY <1>1, <1>7, <2>5, <2>6, BlobsStay DEF SocketsInv, NoBlobComes
<1> QED BY <1>6, <1>7 DEF HubConnect, s

\* A change of a socket in the hub that tells nothing, also as the end of a call or of a read.
LEMMA HubChanges ==
  ASSUME SocketsInv, Consumes, UNCHANGED <<js, events, told>>,
         NEW s \in Sockets, NEW h \in Hubbed, hub' = [hub EXCEPT ![s] = h],
         \/ h = hub[s]
         \/ /\ hub[s].peer # "absent" /\ h.peer # "absent" /\ h.opened = hub[s].opened
            /\ h.closing => h.peer \in {"closing", "closed"}
  PROVE  TalesAreTrue' /\ hub' \in [Sockets -> Hubbed] /\ IsFiniteSet(Held')
<1>1. hub' \in [Sockets -> Hubbed] /\ IsFiniteSet(Held')
  BY HeldIsFinite DEF SocketsInv
<1>2. StaysUsed
  BY DEF StaysUsed
<1>3. CASE h = hub[s]
  <2>1. hub' = hub
    BY <1>3 DEF SocketsInv, SocketsTypeOK
  <2> QED BY <1>1, <1>2, <2>1, TalesStay
<1>4. CASE /\ hub[s].peer # "absent" /\ h.peer # "absent" /\ h.opened = hub[s].opened
           /\ h.closing => h.peer \in {"closing", "closed"}
  BY <1>1, <1>2, <1>4, TalesOfChange
<1> QED BY <1>3, <1>4

\* A send over a limit fails an open socket; any other leaves the hub alone.
LEMMA SentTooMuchIs ==
  ASSUME SocketsInv, NEW s \in Sockets
  PROVE  \E h \in Hubbed :
           /\ SentTooMuch(s) = [hub EXCEPT ![s] = h]
           /\ \/ h = hub[s]
              \/ /\ hub[s].peer # "absent" /\ h.peer # "absent" /\ h.opened = hub[s].opened
                 /\ h.closing => h.peer \in {"closing", "closed"}
<1>1. hub \in [Sockets -> Hubbed] /\ hub[s] \in Hubbed
  BY DEF SocketsInv, SocketsTypeOK
<1>2. CASE Accepts(s)
  <2> DEFINE h == [hub[s] EXCEPT !.peer = "closed", !.failure = TRUE]
  <2>1. /\ h \in Hubbed /\ h.peer = "closed" /\ h.opened = hub[s].opened
        /\ hub[s].peer # "absent" /\ SentTooMuch(s) = [hub EXCEPT ![s] = h]
    BY <1>1, <1>2 DEF SentTooMuch, Accepts, Hubbed, Peers
  <2> HIDE DEF h
  <2> QED BY <2>1
<1>3. CASE ~Accepts(s)
  <2>1. SentTooMuch(s) = [hub EXCEPT ![s] = hub[s]]
    BY <1>1, <1>3 DEF SentTooMuch
  <2> QED BY <1>1, <2>1
<1> QED BY <1>2, <1>3

\* The calls that change a socket: send() over a limit, binaryType and close().
LEMMA HubCallStep ==
  ASSUME SocketsInv, HubSendTooMuch \/ HubUseBlobs \/ HubClose
  PROVE  SocketsInv'
<1> DEFINE s == Socket
<1>1. UNCHANGED <<js, polling, reading, storage, wrappers, events, told, packets>>
  BY DEF HubSendTooMuch, HubUseBlobs, HubClose
<1>2. /\ s \in Sockets /\ Consumes /\ calls' \in Seq(HubCall) /\ hub[s] \in Hubbed
      /\ hub \in [Sockets -> Hubbed] /\ Tale(js[s], calls, hub[s], told[s], s)
  BY Taken DEF HubSendTooMuch, HubUseBlobs, HubClose, SocketsInv, SocketsTypeOK
<1>3. \E h \in Hubbed :
         /\ hub' = [hub EXCEPT ![s] = h]
         /\ \/ h = hub[s]
            \/ /\ hub[s].peer # "absent" /\ h.peer # "absent" /\ h.opened = hub[s].opened
               /\ h.closing => h.peer \in {"closing", "closed"}
  <2>1. CASE HubSendTooMuch
    BY <1>2, <2>1, SentTooMuchIs DEF HubSendTooMuch
  <2>2. CASE hub' = hub
    <3>1. hub' = [hub EXCEPT ![s] = hub[s]]
      BY <1>2, <2>2
    <3> QED BY <1>2, <3>1
  <2>3. CASE HubUseBlobs /\ hub' # hub
    <3> DEFINE h == [hub[s] EXCEPT !.blobMessages = TRUE]
    <3>1. hub[s].peer # "absent" /\ hub' = [hub EXCEPT ![s] = h]
      BY <1>2, <2>3 DEF HubUseBlobs, Held
    <3>2. h \in Hubbed /\ h.peer = hub[s].peer /\ h.opened = hub[s].opened /\ h.closing = hub[s].closing
      BY <1>2 DEF Hubbed
    <3> HIDE DEF h
    <3> QED BY <1>2, <3>1, <3>2 DEF Tale
  <2>4. CASE HubClose /\ hub' # hub
    <3> DEFINE h == [hub[s] EXCEPT !.closing = TRUE,
                                   !.peer = IF hub[s].peer = "open" THEN "closing" ELSE "closed"]
    <3>1. hub[s].peer # "absent" /\ hub' = [hub EXCEPT ![s] = h]
      BY <1>2, <2>4 DEF HubClose, Held
    <3>2. h \in Hubbed /\ h.peer \in {"closing", "closed"} /\ h.opened = hub[s].opened
      BY <1>2 DEF Hubbed, Peers
    <3> HIDE DEF h
    <3> QED BY <1>2, <3>1, <3>2
  <2> QED BY <2>1, <2>2, <2>3, <2>4
<1>4. TalesAreTrue' /\ hub' \in [Sockets -> Hubbed] /\ IsFiniteSet(Held')
  BY <1>1, <1>2, <1>3, HubChanges
<1>5. SocketsTypeOK'
  BY <1>1, <1>2, <1>4 DEF SocketsInv, SocketsTypeOK
<1>6. BlobsAreHeld'
  BY <1>1, BlobsStay DEF NoBlobComes
<1> QED BY <1>4, <1>5, <1>6 DEF SocketsInv

\* The peers and the clock.
LEMMA PeerStep ==
  ASSUME SocketsInv, NEW s \in Sockets, RemotePeer(s) \/ CloseTimeout(s)
  PROVE  SocketsInv'
<1>1. UNCHANGED <<js, calls, polling, reading, storage, wrappers, events, told>>
  BY DEF RemotePeer, CloseTimeout
<1>2. /\ Consumes /\ hub[s] \in Hubbed /\ hub \in [Sockets -> Hubbed]
      /\ Tale(js[s], calls, hub[s], told[s], s) /\ packets \in Nat
  BY <1>1 DEF Consumes, SocketsInv, SocketsTypeOK, TalesAreTrue
<1>3. packets' \in Nat
  BY <1>2 DEF RemotePeer, CloseTimeout, Sends
<1>4. \E h \in Hubbed :
         /\ hub' = [hub EXCEPT ![s] = h]
         /\ hub[s].peer # "absent" /\ h.peer # "absent" /\ h.opened = hub[s].opened
         /\ h.closing => h.peer \in {"closing", "closed"}
  <2>1. ASSUME NEW peer \in {"open", "closed"}, Change(s, peer), hub[s].peer # "absent",
               peer = "open" => hub[s].peer = "connecting"
        PROVE  \E h \in Hubbed :
                 /\ hub' = [hub EXCEPT ![s] = h]
                 /\ hub[s].peer # "absent" /\ h.peer # "absent" /\ h.opened = hub[s].opened
                 /\ h.closing => h.peer \in {"closing", "closed"}
    <3> DEFINE h == [hub[s] EXCEPT !.peer = peer]
    <3>1. /\ hub' = [hub EXCEPT ![s] = h] /\ h \in Hubbed /\ h.peer = peer
          /\ h.opened = hub[s].opened /\ h.closing = hub[s].closing
      BY <1>2, <2>1 DEF Change, Hubbed, Peers
    <3> HIDE DEF h
    <3> QED BY <1>2, <2>1, <3>1 DEF Tale
  <2>2. CASE Sends(s)
    <3>1. PICK m \in {"text", "binary", "tooLarge"} :
            hub' = [hub EXCEPT ![s].inbox = Append(@, m)] /\ hub[s].peer = "open"
      BY <2>2 DEF Sends
    <3> DEFINE h == [hub[s] EXCEPT !.inbox = Append(hub[s].inbox, m)]
    <3>2. Append(hub[s].inbox, m) \in Seq({"text", "binary", "tooLarge"})
      BY <1>2 DEF Hubbed
    <3>3. /\ hub' = [hub EXCEPT ![s] = h] /\ h \in Hubbed /\ h.peer = hub[s].peer
          /\ h.opened = hub[s].opened /\ h.closing = hub[s].closing
      BY <1>2, <3>1, <3>2 DEF Hubbed
    <3> HIDE DEF h
    <3> QED BY <1>2, <3>1, <3>3 DEF Tale
  <2>3. CASE CloseTimeout(s)
    <3> DEFINE h == [hub[s] EXCEPT !.late = TRUE]
    <3>1. /\ hub' = [hub EXCEPT ![s] = h] /\ h \in Hubbed /\ h.peer = hub[s].peer
          /\ h.opened = hub[s].opened /\ h.closing = hub[s].closing /\ hub[s].closing
      BY <1>2, <2>3 DEF CloseTimeout, Hubbed
    <3> HIDE DEF h
    <3>2. hub[s] # Absent
      BY <3>1 DEF Absent
    <3> QED BY <1>2, <3>1, <3>2 DEF Tale
  <2> QED BY <2>1, <2>2, <2>3 DEF RemotePeer
<1>5. TalesAreTrue' /\ hub' \in [Sockets -> Hubbed] /\ IsFiniteSet(Held')
  BY <1>1, <1>2, <1>4, HubChanges
<1>6. SocketsTypeOK'
  BY <1>1, <1>3, <1>5 DEF SocketsInv, SocketsTypeOK
<1>7. BlobsAreHeld'
  BY <1>1, BlobsStay DEF NoBlobComes
<1> QED BY <1>5, <1>6, <1>7 DEF SocketsInv

\* Whether the Blob of a read is pinned changes with the read.
LEMMA ReadingChanges ==
  ASSUME SocketsInv, UNCHANGED <<wrappers, events>>, NEW b \in Blobs,
         NEW st \in {"owned", "pinned", "both", "gone"}, storage' = [storage EXCEPT ![b] = st],
         Kept(wrappers[b], st, events, b), b \in Stored,
         \/ /\ reading = Idle /\ reading' # Idle /\ reading'.blob = b /\ st = "both"
         \/ /\ reading' = Idle /\ reading # Idle /\ reading.blob = b /\ st \in {"owned", "gone"}
  PROVE  /\ BlobsAreHeld'
         /\ storage' \in [Blobs -> {"unused", "owned", "pinned", "both", "gone"}]
<1>1. /\ storage' \in [Blobs -> {"unused", "owned", "pinned", "both", "gone"}]
      /\ \A x \in Blobs : storage'[x] = IF x = b THEN st ELSE storage[x]
  BY DEF SocketsInv, SocketsTypeOK
<1>2. ASSUME NEW x \in Blobs PROVE Kept(wrappers'[x], storage'[x], events', x)
  BY <1>1 DEF SocketsInv, BlobsAreHeld
<1>3. ASSUME NEW x \in Blobs
      PROVE  storage'[x] \in {"pinned", "both"} <=> reading' # Idle /\ reading'.blob = x
  BY <1>1 DEF SocketsInv, BlobsAreHeld
<1>4. IsFiniteSet(Stored) /\ Cardinality(Stored) <= MaxBlobs /\ Cardinality(Stored) \in Nat
  BY FS_CardinalityType DEF SocketsInv, BlobsAreHeld
<1>5. Stored' \subseteq Stored
  BY <1>1 DEF Stored
<1>6. IsFiniteSet(Stored') /\ Cardinality(Stored') <= Cardinality(Stored)
  BY <1>4, <1>5, FS_Subset
<1>7. Cardinality(Stored') \in Nat
  BY <1>6, FS_CardinalityType
<1> QED BY <1>1, <1>2, <1>3, <1>4, <1>6, <1>7 DEF BlobsAreHeld

\* send_blob() pins what is stored, and tells of what is not.
LEMMA HubSendBlobStep ==
  ASSUME SocketsInv, HubSendBlob
  PROVE  SocketsInv'
<1> DEFINE s == Socket
           b == Head(calls).blob
<1>1. Take("sendBlob") /\ UNCHANGED <<js, hub, polling, wrappers, packets>>
  BY DEF HubSendBlob
<1>2. /\ s \in Sockets /\ Consumes /\ calls' \in Seq(HubCall) /\ b \in Blobs /\ reading = Idle
      /\ Tale(js[s], calls, hub[s], told[s], s) /\ told[s] \in Seq(Words)
      /\ hub[s] \in Hubbed /\ events \in Seq(HubEvent) /\ calls \in Seq(HubCall)
  BY <1>1, Taken DEF HubCall
<1>3. StaysUsed
  BY <1>1 DEF StaysUsed
<1> HIDE DEF b, s
<1>4. CASE b \in Stored
  <2>1. /\ storage' = [storage EXCEPT ![b] = "both"] /\ UNCHANGED <<events, told>>
        /\ reading' = [socket |-> s, blob |-> b]
    BY <1>4 DEF HubSendBlob, b, s
  <2>2. reading' # Idle /\ reading'.blob = b /\ reading' \in [socket : Sockets, blob : Blobs]
    BY <1>2, <2>1 DEF Idle
  <2>3. storage[b] = "owned" /\ Kept(wrappers[b], storage[b], events, b)
    BY <1>2, <1>4 DEF Stored, SocketsInv, BlobsAreHeld
  <2>4. Kept(wrappers[b], "both", events, b)
    BY <2>3 DEF Kept
  <2>5. /\ BlobsAreHeld'
        /\ storage' \in [Blobs -> {"unused", "owned", "pinned", "both", "gone"}]
    BY <1>1, <1>2, <1>4, <2>1, <2>2, <2>4, ReadingChanges
  <2>6. SocketsTypeOK'
    BY <1>1, <1>2, <2>1, <2>2, <2>5 DEF SocketsInv, SocketsTypeOK, Held
  <2>7. TalesAreTrue'
    BY <1>1, <1>2, <1>3, <2>1, TalesStay
  <2> QED BY <2>5, <2>6, <2>7 DEF SocketsInv
<1>5. CASE b \notin Stored
  <2>1. Emit(s, "failed", 0) /\ Told(s, "blobFailed") /\ UNCHANGED <<storage, reading>>
    BY <1>5 DEF HubSendBlob, b, s
  <2>2. /\ told' = [told EXCEPT ![s] = Append(told[s], "blobFailed")]
        /\ told' \in [Sockets -> Seq(Words)]
    BY <1>2, <2>1, Telling DEF Words
  <2>3. hub' = [hub EXCEPT ![s] = hub[s]]
    BY <1>1, <1>2 DEF SocketsInv, SocketsTypeOK
  <2> DEFINE u == Append(told[s], "blobFailed")
  <2>4. /\ InOrder(u) /\ (Ended(u) <=> Ended(told[s])) /\ (HasOpened(u) <=> HasOpened(told[s]))
        /\ (Quiet(u) <=> Quiet(told[s]))
    BY <1>2, TellMore DEF Words, MayTell, Tale
  <2> HIDE DEF u
  <2>5. /\ Within(calls', ConnectOf(s)) => Within(calls, ConnectOf(s))
        /\ Once(calls', ConnectOf(s))
    BY <1>2, TailWithin DEF Consumes, Tale
  <2>6. Tale(js'[s], calls', hub[s], u, s)
    BY <1>1, <1>2, <2>4, <2>5 DEF Tale
  <2>7. TalesAreTrue'
    BY <1>2, <1>3, <2>2, <2>3, <2>6, TalesOfWord DEF u
  <2>8. events' \in Seq(HubEvent) /\ NoBlobComes
    BY <1>2, <2>1, PlainEvent
  <2>9. SocketsTypeOK'
    BY <1>1, <1>2, <2>1, <2>2, <2>8 DEF SocketsInv, SocketsTypeOK, Held
  <2> QED BY <1>1, <2>1, <2>7, <2>8, <2>9, BlobsStay DEF SocketsInv
<1> QED BY <1>4, <1>5

\* The read ends: the Blob stays only if JavaScript still owns it.
LEMMA BlobReadStep ==
  ASSUME SocketsInv, BlobRead
  PROVE  SocketsInv'
<1> DEFINE s == reading.socket
           b == reading.blob
<1>1. /\ reading # Idle /\ reading' = Idle /\ storage' = Unpinned(b)
      /\ hub' \in {hub, SentTooMuch(s)}
      /\ UNCHANGED <<js, calls, polling, wrappers, events, told, packets>>
  BY DEF BlobRead
<1>2. s \in Sockets /\ b \in Blobs /\ hub \in [Sockets -> Hubbed] /\ hub[s] \in Hubbed
  BY <1>1 DEF SocketsInv, SocketsTypeOK
<1> HIDE DEF s
<1>3. storage[b] \in {"pinned", "both"}
  BY <1>1, <1>2 DEF SocketsInv, BlobsAreHeld
<1> DEFINE st == IF storage[b] = "both" THEN "owned" ELSE "gone"
<1>4. storage' = [storage EXCEPT ![b] = st] /\ Kept(wrappers[b], st, events, b) /\ b \in Stored
  BY <1>1, <1>2, <1>3, StorageOf DEF Kept
<1>5. BlobsAreHeld' /\ storage' \in [Blobs -> {"unused", "owned", "pinned", "both", "gone"}]
  BY <1>1, <1>2, <1>4, ReadingChanges
<1>6. \E h \in Hubbed :
         /\ hub' = [hub EXCEPT ![s] = h]
         /\ \/ h = hub[s]
            \/ /\ hub[s].peer # "absent" /\ h.peer # "absent" /\ h.opened = hub[s].opened
               /\ h.closing => h.peer \in {"closing", "closed"}
  <2>1. hub = [hub EXCEPT ![s] = hub[s]]
    BY <1>2
  <2> QED BY <1>1, <1>2, <2>1, SentTooMuchIs
<1>7. TalesAreTrue' /\ hub' \in [Sockets -> Hubbed] /\ IsFiniteSet(Held')
  BY <1>1, <1>2, <1>6, HubChanges DEF Consumes
<1>8. SocketsTypeOK'
  BY <1>1, <1>5, <1>7 DEF SocketsInv, SocketsTypeOK
<1> QED BY <1>5, <1>7, <1>8 DEF SocketsInv

-----------------------------------------------------------------------------
(* The frame. *)

\* A frame polls the sockets the hub holds.
LEMMA BeginFrameStep ==
  ASSUME SocketsInv, BeginFrame
  PROVE  SocketsInv'
<1>1. /\ polling' = SetToSeq(Held)
      /\ UNCHANGED <<js, calls, hub, reading, storage, wrappers, events, told, packets>>
  BY DEF BeginFrame
<1>2. SetToSeq(Held) \in Seq(Sockets)
  <2> DEFINE n == Cardinality(Held)
  <2>1. n \in Nat /\ ExistsBijection(1..n, Held)
    BY FS_CardinalityType DEF SocketsInv, SocketsTypeOK
  <2>2. \E f \in [1..n -> Held] : IsInjective(f)
    BY <2>1 DEF ExistsBijection, Bijection, Injection, IsInjective
  <2>3. SetToSeq(Held) \in [1..n -> Held]
    BY <2>2 DEF SetToSeq
  <2>4. Held \subseteq Sockets
    BY DEF Held
  <2> QED BY <2>1, <2>3, <2>4
<1>3. SocketsTypeOK'
  BY <1>1, <1>2 DEF SocketsInv, SocketsTypeOK, Held
<1>4. TalesAreTrue'
  BY <1>1, TalesStay DEF Consumes, StaysUsed
<1>5. BlobsAreHeld'
  BY <1>1, BlobsStay DEF NoBlobComes
<1> QED BY <1>3, <1>4, <1>5 DEF SocketsInv

\* What is known of the socket that is polled.
LEMMA Polled ==
  ASSUME SocketsInv, Poll
  PROVE  LET s == Head(polling)
         IN /\ s \in Sockets /\ hub[s] \in Hubbed /\ told[s] \in Seq(Words)
            /\ Tale(js[s], calls, hub[s], told[s], s)
            /\ polling' \in Seq(Sockets) /\ Consumes /\ StaysUsed
            /\ hub \in [Sockets -> Hubbed] /\ events \in Seq(HubEvent)
            /\ UNCHANGED <<js, calls, reading, wrappers, packets>>
<1>1. /\ polling # <<>> /\ polling' \in {polling, Tail(polling)}
      /\ UNCHANGED <<js, calls, reading, wrappers, packets>>
  BY DEF Poll
<1>2. polling \in Seq(Sockets)
  BY DEF SocketsInv, SocketsTypeOK
<1>3. Tail(polling) \in Seq(Sockets) /\ Head(polling) \in Sockets
  BY <1>1, <1>2, TailType
<1> QED BY <1>1, <1>2, <1>3 DEF SocketsInv, SocketsTypeOK, TalesAreTrue, Consumes, StaysUsed

\* A socket ends once: it leaves the hub as that is told.
LEMMA PollEnds ==
  ASSUME SocketsInv, Poll, NEW s, s = Head(polling), NEW what \in {"failed", "ended"},
         Ends(s, what), hub[s].peer # "absent"
  PROVE  SocketsInv'
<1>1. /\ s \in Sockets /\ hub[s] \in Hubbed /\ told[s] \in Seq(Words)
      /\ Tale(js[s], calls, hub[s], told[s], s)
      /\ polling' \in Seq(Sockets) /\ Consumes /\ StaysUsed /\ events \in Seq(HubEvent)
      /\ UNCHANGED <<js, calls, reading, wrappers, packets>>
  BY Polled
<1>2. hub' = [hub EXCEPT ![s] = Absent] /\ Told(s, "end") /\ Emit(s, what, 0) /\ UNCHANGED storage
  BY DEF Ends
<1>3. Absent \in Hubbed /\ Absent.peer = "absent" /\ ~Absent.closing
  BY DEF Absent, Hubbed, Peers
<1>4. told' = [told EXCEPT ![s] = Append(told[s], "end")] /\ told' \in [Sockets -> Seq(Words)]
  BY <1>1, <1>2, Telling DEF Words
<1>5. InOrder(Append(told[s], "end"))
  BY <1>1, TellMore DEF Words, MayTell, Tale
<1>6. Tale(js'[s], calls', Absent, Append(told[s], "end"), s)
  BY <1>1, <1>3, <1>5 DEF Tale
<1>7. TalesAreTrue'
  BY <1>1, <1>2, <1>3, <1>4, <1>6, TalesOfWord
<1>8. events' \in Seq(HubEvent) /\ NoBlobComes
  BY <1>1, <1>2, PlainEvent
<1>9. hub' \in [Sockets -> Hubbed] /\ IsFiniteSet(Held')
  BY <1>1, <1>2, <1>3, HeldIsFinite DEF SocketsInv
<1>10. SocketsTypeOK'
  BY <1>1, <1>2, <1>4, <1>8, <1>9 DEF SocketsInv, SocketsTypeOK
<1> QED BY <1>1, <1>2, <1>7, <1>8, <1>10, BlobsStay DEF SocketsInv

\* A peer opens, which is told before all else.
LEMMA PollOpened ==
  ASSUME SocketsInv, Poll, NEW s, s = Head(polling), Opens(s), Opened(s)
  PROVE  SocketsInv'
<1>1. /\ s \in Sockets /\ hub[s] \in Hubbed /\ told[s] \in Seq(Words)
      /\ Tale(js[s], calls, hub[s], told[s], s)
      /\ polling' \in Seq(Sockets) /\ Consumes /\ StaysUsed /\ events \in Seq(HubEvent)
      /\ UNCHANGED <<js, calls, reading, wrappers, packets>>
  BY Polled
<1> DEFINE h == [hub[s] EXCEPT !.opened = TRUE]
           u == Append(told[s], "open")
<1>2. hub' = [hub EXCEPT ![s] = h] /\ Told(s, "open") /\ Emit(s, "open", 0) /\ UNCHANGED storage
  BY <1>1 DEF Opened, SocketsInv, SocketsTypeOK
<1>3. /\ h \in Hubbed /\ h.peer = "open" /\ ~h.closing /\ h.opened
      /\ hub[s].peer = "open" /\ ~hub[s].opened
  BY <1>1 DEF Hubbed, Opens
<1> HIDE DEF h
<1>4. told' = [told EXCEPT ![s] = u] /\ told' \in [Sockets -> Seq(Words)]
  BY <1>1, <1>2, Telling DEF Words
<1>5. Quiet(told[s])
  <2> SUFFICES ASSUME NEW i \in 1..Len(told[s]), told[s][i] # "blobFailed" PROVE FALSE
    BY DEF Quiet
  <2>1. InOrder(told[s]) /\ ~Ended(told[s]) /\ ~HasOpened(told[s])
    BY <1>1, <1>3 DEF Tale
  <2>2. told[s][i] \in Words /\ told[s][i] # "open" /\ told[s][i] # "end"
    BY <1>1, <2>1 DEF Ended, HasOpened
  <2>3. \E k \in 1..(i - 1) : told[s][k] = "open"
    BY <2>1, <2>2 DEF Words, InOrder
  <2> QED BY <1>1, <2>1, <2>3 DEF HasOpened
<1>6. InOrder(u) /\ HasOpened(u) /\ ~Ended(u)
  BY <1>1, <1>3, <1>5, TellMore DEF Words, MayTell, Tale
<1> HIDE DEF u
<1>7. Tale(js'[s], calls', h, u, s)
  BY <1>1, <1>3, <1>6 DEF Tale
<1>8. TalesAreTrue'
  BY <1>1, <1>2, <1>3, <1>4, <1>7, TalesOfWord
<1>9. events' \in Seq(HubEvent) /\ NoBlobComes
  BY <1>1, <1>2, PlainEvent
<1>10. hub' \in [Sockets -> Hubbed] /\ IsFiniteSet(Held')
  BY <1>1, <1>2, <1>3, HeldIsFinite DEF SocketsInv
<1>11. SocketsTypeOK'
  BY <1>1, <1>2, <1>4, <1>9, <1>10 DEF SocketsInv, SocketsTypeOK
<1> QED BY <1>1, <1>2, <1>8, <1>9, <1>11, BlobsStay DEF SocketsInv

\* A message that cannot be taken fails its socket in the next frame.
LEMMA PollFails ==
  ASSUME SocketsInv, Poll, NEW s, s = Head(polling), Fails(s), hub[s].peer # "absent"
  PROVE  SocketsInv'
<1>1. /\ s \in Sockets /\ hub[s] \in Hubbed /\ polling' \in Seq(Sockets) /\ Consumes
      /\ hub \in [Sockets -> Hubbed] /\ UNCHANGED <<js, calls, reading, wrappers, packets>>
  BY Polled
<1> DEFINE h == [hub[s] EXCEPT !.failure = TRUE, !.peer = "closed"]
<1>2. hub' = [hub EXCEPT ![s] = h] /\ UNCHANGED <<events, told, storage>>
  BY <1>1 DEF Fails
<1>3. h \in Hubbed /\ h.peer = "closed" /\ h.opened = hub[s].opened
  BY <1>1 DEF Hubbed, Peers
<1> HIDE DEF h
<1>4. TalesAreTrue' /\ hub' \in [Sockets -> Hubbed] /\ IsFiniteSet(Held')
  BY <1>1, <1>2, <1>3, HubChanges
<1>5. SocketsTypeOK'
  BY <1>1, <1>2, <1>4 DEF SocketsInv, SocketsTypeOK
<1>6. BlobsAreHeld'
  BY <1>1, <1>2, BlobsStay DEF NoBlobComes
<1> QED BY <1>4, <1>5, <1>6 DEF SocketsInv

\* A message reaches JavaScript, which was told that the socket opened: one that closes
\* before that receives nothing.
LEMMA PollDelivers ==
  ASSUME SocketsInv, Poll, NEW s, s = Head(polling), HasMessage(s), ~Opens(s), Delivers(s)
  PROVE  /\ TalesAreTrue' /\ hub' \in [Sockets -> Hubbed] /\ IsFiniteSet(Held')
         /\ told' \in [Sockets -> Seq(Words)]
<1>1. /\ s \in Sockets /\ hub[s] \in Hubbed /\ told[s] \in Seq(Words)
      /\ Tale(js[s], calls, hub[s], told[s], s) /\ Consumes /\ StaysUsed
      /\ UNCHANGED <<js, calls>> /\ hub \in [Sockets -> Hubbed]
  BY Polled
<1> DEFINE h == [hub[s] EXCEPT !.inbox = Tail(hub[s].inbox)]
           u == Append(told[s], "message")
<1>2. hub' = [hub EXCEPT ![s] = h] /\ Told(s, "message") /\ hub[s].inbox # <<>> /\ hub[s].peer = "open"
  BY <1>1 DEF Delivers, HasMessage
<1>3. Tail(hub[s].inbox) \in Seq({"text", "binary", "tooLarge"})
  BY <1>1, <1>2, TailType DEF Hubbed
<1>4. h \in Hubbed /\ h.peer = "open" /\ h.closing = hub[s].closing /\ h.opened = hub[s].opened
  BY <1>1, <1>2, <1>3 DEF Hubbed
<1> HIDE DEF h
<1>5. ~hub[s].closing /\ hub[s].opened
  BY <1>1, <1>2 DEF Tale, Opens, Hubbed
<1>6. told' = [told EXCEPT ![s] = u] /\ told' \in [Sockets -> Seq(Words)]
  BY <1>1, <1>2, Telling DEF Words
<1>7. InOrder(u) /\ HasOpened(u) /\ ~Ended(u)
  BY <1>1, <1>2, <1>5, TellMore DEF Words, MayTell, Tale
<1> HIDE DEF u
<1>8. Tale(js'[s], calls', h, u, s)
  BY <1>1, <1>2, <1>4, <1>5, <1>7 DEF Tale
<1>9. TalesAreTrue'
  BY <1>1, <1>2, <1>4, <1>6, <1>8, TalesOfWord
<1> QED BY <1>1, <1>2, <1>4, <1>6, <1>9, HeldIsFinite DEF SocketsInv

\* A finite set and one more value.
LEMMA OneMore ==
  ASSUME NEW T, IsFiniteSet(T), NEW x
  PROVE  /\ IsFiniteSet(T \cup {x}) /\ Cardinality(T \cup {x}) \in Nat
         /\ Cardinality(T \cup {x}) <= Cardinality(T) + 1
<1>1. Cardinality(T) \in Nat
  BY FS_CardinalityType
<1>2. IsFiniteSet(T \cup {x})
  BY FS_AddElement
<1>3. Cardinality(T \cup {x}) = Cardinality(T) \/ Cardinality(T \cup {x}) = Cardinality(T) + 1
  BY FS_AddElement
<1> QED BY <1>1, <1>2, <1>3

\* The Blob of a message is stored, and its one event on its way, before JavaScript can know it.
LEMMA PollStores ==
  ASSUME SocketsInv, NEW s \in Sockets, NEW b \in NewIds, Cardinality(Stored) < MaxBlobs,
         storage' = [storage EXCEPT ![b] = "owned"], Emit(s, "blob", b),
         UNCHANGED <<wrappers, reading>>
  PROVE  /\ BlobsAreHeld' /\ events' \in Seq(HubEvent)
         /\ storage' \in [Blobs -> {"unused", "owned", "pinned", "both", "gone"}]
<1> DEFINE e == [socket |-> s, what |-> "blob", blob |-> b]
<1>1. /\ b \in Blobs /\ storage[b] = "unused" /\ e \in HubEvent /\ events' = Append(events, e)
      /\ \A x \in Blobs : e \in MessageOf(x) <=> x = b
  BY DEF NewIds, Emit, HubEvent, MessageOf
<1> HIDE DEF e
<1>2. /\ storage' \in [Blobs -> {"unused", "owned", "pinned", "both", "gone"}]
      /\ \A x \in Blobs : storage'[x] = IF x = b THEN "owned" ELSE storage[x]
      /\ events \in Seq(HubEvent)
  BY <1>1 DEF SocketsInv, SocketsTypeOK
<1>3. ASSUME NEW x \in Blobs PROVE Kept(wrappers'[x], storage'[x], events', x)
  <2>1. Kept(wrappers[x], storage[x], events, x)
    BY DEF SocketsInv, BlobsAreHeld
  <2>2. /\ Within(events', MessageOf(x)) <=> Within(events, MessageOf(x)) \/ x = b
        /\ Once(events, MessageOf(x)) /\ (x # b \/ ~Within(events, MessageOf(x)))
             => Once(events', MessageOf(x))
    BY <1>1, <1>2, AppendWithin
  <2> QED BY <1>1, <1>2, <2>1, <2>2 DEF Kept
<1>4. ASSUME NEW x \in Blobs
      PROVE  storage'[x] \in {"pinned", "both"} <=> reading' # Idle /\ reading'.blob = x
  BY <1>1, <1>2 DEF SocketsInv, BlobsAreHeld
<1>5. IsFiniteSet(Stored) /\ Cardinality(Stored) \in Nat
  BY FS_CardinalityType DEF SocketsInv, BlobsAreHeld
<1>6. Stored' \subseteq Stored \cup {b}
  BY <1>2 DEF Stored
<1>7. /\ IsFiniteSet(Stored \cup {b}) /\ Cardinality(Stored \cup {b}) \in Nat
      /\ Cardinality(Stored \cup {b}) <= Cardinality(Stored) + 1
  BY <1>5, OneMore
<1>8. IsFiniteSet(Stored') /\ Cardinality(Stored') <= Cardinality(Stored \cup {b})
  BY <1>6, <1>7, FS_Subset
<1>9. Cardinality(Stored') \in Nat
  BY <1>8, FS_CardinalityType
<1>10. Cardinality(Stored') <= MaxBlobs
  BY <1>5, <1>7, <1>8, <1>9
<1> QED BY <1>1, <1>2, <1>3, <1>4, <1>8, <1>10 DEF BlobsAreHeld

\* process_frame() of one socket.
LEMMA PollStep ==
  ASSUME SocketsInv, Poll
  PROVE  SocketsInv'
<1> DEFINE s == Head(polling)
<1>1. /\ s \in Sockets /\ hub[s] \in Hubbed /\ polling' \in Seq(Sockets)
      /\ Tale(js[s], calls, hub[s], told[s], s) /\ Consumes /\ StaysUsed
      /\ UNCHANGED <<js, calls, reading, wrappers, packets>>
      /\ events \in Seq(HubEvent)
  BY Polled
<1>2. /\ hub[s].failure => Ends(s, "failed")
      /\ ~hub[s].failure /\ Opens(s) => Opened(s)
      /\ ~hub[s].failure /\ ~Opens(s) =>
           IF HasMessage(s) THEN Receives(s)
           ELSE IF hub[s].peer = "closed" \/ Overdue(s)
             THEN Ends(s, IF hub[s].opened \/ hub[s].closing THEN "ended" ELSE "failed")
           ELSE UNCHANGED <<hub, storage, events, told>>
  BY DEF Poll
<1> HIDE DEF s
<1>3. hub[s].failure \/ Overdue(s) => hub[s].peer # "absent"
  BY <1>1 DEF Tale, Absent, Overdue
<1>4. CASE hub[s].failure
  BY <1>2, <1>3, <1>4, PollEnds DEF s
<1>5. CASE ~hub[s].failure /\ Opens(s)
  BY <1>2, <1>5, PollOpened DEF s
<1>6. CASE ~hub[s].failure /\ ~Opens(s) /\ ~HasMessage(s) /\ (hub[s].peer = "closed" \/ Overdue(s))
  BY <1>2, <1>3, <1>6, PollEnds DEF s
<1>7. CASE UNCHANGED <<hub, storage, events, told>>
  <2>1. TalesAreTrue'
    BY <1>1, <1>7, TalesStay
  <2>2. BlobsAreHeld'
    BY <1>1, <1>7, BlobsStay DEF NoBlobComes
  <2>3. SocketsTypeOK'
    BY <1>1, <1>7 DEF SocketsInv, SocketsTypeOK, Held
  <2> QED BY <2>1, <2>2, <2>3 DEF SocketsInv
<1>8. CASE ~hub[s].failure /\ ~Opens(s) /\ HasMessage(s) /\ Receives(s)
  <2>1. hub[s].peer # "absent"
    BY <1>8 DEF HasMessage
  <2>2. CASE Fails(s)
    BY <2>1, <2>2, PollFails DEF s
  <2>3. CASE Delivers(s) /\ UNCHANGED <<storage, events>>
    <3>1. /\ TalesAreTrue' /\ hub' \in [Sockets -> Hubbed] /\ IsFiniteSet(Held')
          /\ told' \in [Sockets -> Seq(Words)]
      BY <1>8, <2>3, PollDelivers DEF s
    <3>2. BlobsAreHeld'
      BY <1>1, <2>3, BlobsStay DEF NoBlobComes
    <3>3. SocketsTypeOK'
      BY <1>1, <2>3, <3>1 DEF SocketsInv, SocketsTypeOK
    <3> QED BY <3>1, <3>2, <3>3 DEF SocketsInv
  <2>4. ASSUME NEW b \in NewIds, storage' = [storage EXCEPT ![b] = "owned"], Delivers(s),
               Emit(s, "blob", b), ~(Cardinality(Stored) >= MaxBlobs)
        PROVE  SocketsInv'
    <3>1. /\ TalesAreTrue' /\ hub' \in [Sockets -> Hubbed] /\ IsFiniteSet(Held')
          /\ told' \in [Sockets -> Seq(Words)]
      BY <1>8, <2>4, PollDelivers DEF s
    <3>2. Cardinality(Stored) < MaxBlobs
      BY <2>4, FS_CardinalityType DEF SocketsInv, BlobsAreHeld
    <3>3. /\ BlobsAreHeld' /\ events' \in Seq(HubEvent)
          /\ storage' \in [Blobs -> {"unused", "owned", "pinned", "both", "gone"}]
      BY <1>1, <2>4, <3>2, PollStores
    <3>4. SocketsTypeOK'
      BY <1>1, <3>1, <3>3 DEF SocketsInv, SocketsTypeOK
    <3> QED BY <3>1, <3>3, <3>4 DEF SocketsInv
  <2> QED BY <1>8, <2>2, <2>3, <2>4 DEF Receives
<1> QED BY <1>2, <1>4, <1>5, <1>6, <1>7, <1>8

-----------------------------------------------------------------------------
(* The theorems. *)

\* Every step keeps the invariant.
LEMMA SocketsSteps == SocketsInv /\ [SocketsNext]_socketVars => SocketsInv'
<1> SUFFICES ASSUME SocketsInv, [SocketsNext]_socketVars PROVE SocketsInv'
  OBVIOUS
<1>1. CASE UNCHANGED socketVars
  <2>1. UNCHANGED socketVars
    BY <1>1
  <2>2. TalesAreTrue' /\ BlobsAreHeld'
    BY <2>1, TalesStay, BlobsStay DEF socketVars, Consumes, StaysUsed, NoBlobComes
  <2> QED BY <2>1, <2>2 DEF socketVars, SocketsInv, SocketsTypeOK, Held
<1>2. CASE \E s \in Sockets : Connect(s) \/ SocketCall(s) \/ RemotePeer(s) \/ CloseTimeout(s)
  BY <1>2, ConnectStep, SocketCallStep, PeerStep
<1>3. CASE \E b \in Blobs : CreateBlob(b) \/ CloseBlob(b) \/ Collect(b) \/ StoreResponse(b)
  BY <1>3, BlobSteps
<1>4. CASE MainCall
  BY <1>4, HubConnectStep, HubCallStep, HubSendBlobStep DEF MainCall
<1>5. CASE BlobRead \/ BeginFrame \/ Poll \/ Handle
  BY <1>5, BlobReadStep, BeginFrameStep, PollStep, HandleStep
<1>6. CASE DrainReleases
  BY <1>6, BlobSteps DEF DrainReleases
<1> QED BY <1>1, <1>2, <1>3, <1>4, <1>5, <1>6 DEF SocketsNext

\* The invariant holds in every state.
LEMMA SocketsAreSound == SocketsSpec => []SocketsInv
BY SocketsStart, SocketsSteps, PTL DEF SocketsSpec

\* A Blob's bytes last exactly as long as JavaScript or a reader needs them, within the limit
\* (RNBlobService's owners, pins and collectors).
THEOREM BlobsAreKeptAlways == SocketsSpec => []BlobsAreKept
<1>1. SocketsInv => BlobsAreKept
  BY DEF SocketsInv, BlobsAreHeld, Kept, BlobsAreKept
<1> QED BY <1>1, SocketsAreSound, PTL

\* JavaScript hears that a socket opened before its messages, and of its end once and last
\* (RNWebSocketHub::process_frame).
THEOREM ToldInOrderAlways == SocketsSpec => []ToldInOrder
<1>1. SocketsInv => ToldInOrder
  <2> SUFFICES ASSUME SocketsInv, NEW s \in Sockets
               PROVE  /\ s \in Held => js[s] # "unused"
                      /\ \A i \in 1..Len(told[s]) : told[s][i] = "end" => s \notin Held
                      /\ InOrder(told[s])
    BY DEF ToldInOrder, InOrder
  <2> QED BY DEF SocketsInv, TalesAreTrue, Tale, Held, Ended
<1> QED BY <1>1, SocketsAreSound, PTL

-----------------------------------------------------------------------------
(* Mounting.  L is a sequence of lists of mutations, and V the views that the first of     *)
(* them finds: t is alive after all of them if it is in V or created by one, and not       *)
(* deleted afterwards.                                                                     *)

Says(L, i, k, op, t) ==
  i \in 1..Len(L) /\ k \in 1..Len(L[i]) /\ L[i][k].op = op /\ L[i][k].tag = t
Alive(V, L, t) ==
  \/ t \in V /\ \A j, l \in Nat : ~Says(L, j, l, "delete", t)
  \/ \E i, k \in Nat : /\ Says(L, i, k, "create", t)
                       /\ \A j, l \in Nat : Says(L, j, l, "delete", t) => j < i \/ (j = i /\ l < k)
Scripts == Seq(Seq(Mutations))

\* Mutations have a name and a tag.
LEMMA MutationFields ==
  ASSUME NEW m \in Mutations
  PROVE  m.op \in {"create", "delete", "insert", "remove"} /\ m.tag \in ViewTags
BY DEF Mutations

\* Where no list is left, the views are what is alive.
LEMMA AliveNow == ASSUME NEW V, NEW t PROVE Alive(V, <<>>, t) <=> t \in V
BY DEF Alive, Says

\* What another list does not delete stays alive.
LEMMA AliveBehind ==
  ASSUME NEW V, NEW L \in Scripts, NEW t, NEW U \in Seq(Mutations), Alive(V, L, t),
         \A l \in 1..Len(U) : ~(U[l].op = "delete" /\ U[l].tag = t)
  PROVE  Alive(V, Append(L, U), t)
<1> DEFINE M == Append(L, U)
<1>1. /\ Len(M) = Len(L) + 1 /\ M[Len(M)] = U /\ Len(L) \in Nat /\ Len(U) \in Nat
      /\ \A i \in 1..Len(L) : M[i] = L[i]
  BY DEF Scripts
<1> HIDE DEF M
<1>2. \A j, l \in Nat : Says(M, j, l, "delete", t) => Says(L, j, l, "delete", t)
  BY <1>1 DEF Says
<1>3. \A j, l \in Nat : Says(L, j, l, "create", t) => Says(M, j, l, "create", t)
  BY <1>1 DEF Says
<1>4. Alive(V, M, t)
  BY <1>2, <1>3 DEF Alive
<1> QED BY <1>4 DEF M

\* An empty list changes nothing.
LEMMA AliveStill ==
  ASSUME NEW V, NEW L \in Scripts, NEW t, Alive(V, L, t)
  PROVE  Alive(V, Append(L, <<>>), t)
<1>1. PICK U : U = <<>>
  OBVIOUS
<1>2. U \in Seq(Mutations) /\ Len(U) = 0
  BY <1>1
<1>3. \A l \in 1..Len(U) : ~(U[l].op = "delete" /\ U[l].tag = t)
  BY <1>2
<1>4. Alive(V, Append(L, U), t)
  BY <1>2, <1>3, AliveBehind
<1> QED BY <1>1, <1>4

\* And what is alive behind an empty list was so before.
LEMMA AliveBefore ==
  ASSUME NEW V, NEW L \in Scripts, NEW t, Alive(V, Append(L, <<>>), t)
  PROVE  Alive(V, L, t)
<1> DEFINE M == Append(L, <<>>)
<1>1. /\ Len(M) = Len(L) + 1 /\ M[Len(M)] = <<>> /\ Len(L) \in Nat
      /\ \A i \in 1..Len(L) : M[i] = L[i]
  BY DEF Scripts
<1>2. Alive(V, M, t)
  OBVIOUS
<1> HIDE DEF M
<1>3. \A j, l \in Nat, op \in {"create", "delete"} : Says(M, j, l, op, t) <=> Says(L, j, l, op, t)
  BY <1>1 DEF Says
<1> QED BY <1>2, <1>3 DEF Alive

\* React goes on with the last list.
LEMMA AliveNext ==
  ASSUME NEW V, NEW L \in Scripts, NEW t, NEW U \in Seq(Mutations), NEW m \in Mutations,
         \/ Alive(V, Append(L, U), t) /\ ~(m.op = "delete" /\ m.tag = t)
         \/ m.op = "create" /\ m.tag = t
  PROVE  Alive(V, Append(L, Append(U, m)), t)
<1> DEFINE M == Append(L, U)
           W == Append(U, m)
           N == Append(L, W)
<1>1. /\ Len(W) = Len(U) + 1 /\ W[Len(W)] = m /\ Len(U) \in Nat
      /\ \A k \in 1..Len(U) : W[k] = U[k]
  OBVIOUS
<1>2. W \in Seq(Mutations)
  OBVIOUS
<1> HIDE DEF W
<1>3. /\ Len(M) = Len(L) + 1 /\ M[Len(M)] = U /\ Len(N) = Len(M) /\ N[Len(N)] = W /\ Len(L) \in Nat
      /\ \A i \in 1..Len(L) : M[i] = L[i] /\ N[i] = L[i]
  BY <1>2 DEF Scripts
<1>4. \/ Alive(V, M, t) /\ ~(m.op = "delete" /\ m.tag = t)
      \/ m.op = "create" /\ m.tag = t
  OBVIOUS
<1> HIDE DEF M, N
<1>5. \A j, l \in Nat : Says(N, j, l, "delete", t) =>
        \/ Says(M, j, l, "delete", t)
        \/ m.op = "delete" /\ m.tag = t /\ j = Len(N) /\ l = Len(W)
  BY <1>1, <1>3 DEF Says
<1>6. \A j, l \in Nat : Says(M, j, l, "create", t) => Says(N, j, l, "create", t)
  BY <1>1, <1>3 DEF Says
<1>7. CASE Alive(V, M, t) /\ ~(m.op = "delete" /\ m.tag = t)
  <2>1. Alive(V, N, t)
    BY <1>5, <1>6, <1>7 DEF Alive
  <2> QED BY <2>1 DEF N, W
<1>8. CASE m.op = "create" /\ m.tag = t
  <2>1. Says(N, Len(N), Len(W), "create", t) /\ Len(N) \in Nat /\ Len(W) \in Nat
    BY <1>1, <1>3, <1>8 DEF Says
  <2>2. \A j, l \in Nat : Says(N, j, l, "delete", t) => j < Len(N) \/ (j = Len(N) /\ l < Len(W))
    BY <1>1, <1>3, <1>8 DEF Says
  <2>3. Alive(V, N, t)
    BY <2>1, <2>2 DEF Alive
  <2> QED BY <2>3 DEF N, W
<1> QED BY <1>4, <1>7, <1>8

\* The views that a mutation leaves.
Applied(V, m) ==
  IF m.op = "create" THEN V \cup {m.tag} ELSE IF m.op = "delete" THEN V \ {m.tag} ELSE V

\* A mutation is applied and leaves the first list.
LEMMA AliveApplied ==
  ASSUME NEW V, NEW L \in Scripts, NEW t, L # <<>>, L[1] # <<>>, Alive(V, L, t)
  PROVE  Alive(Applied(V, L[1][1]), <<Tail(L[1])>> \o Tail(L), t)
<1> DEFINE M == <<Tail(L[1])>> \o Tail(L)
           N == Applied(V, L[1][1])
<1>1. L[1] \in Seq(Mutations) /\ Len(L) \in Nat \ {0} /\ Len(L[1]) \in Nat \ {0}
  BY DEF Scripts
<1>2. /\ Len(M) = Len(L) /\ M[1] = Tail(L[1]) /\ \A i \in 2..Len(L) : M[i] = L[i]
  BY <1>1 DEF Scripts
<1>3. Len(M[1]) = Len(L[1]) - 1 /\ \A k \in 1..Len(M[1]) : M[1][k] = L[1][k + 1]
  BY <1>1, <1>2
<1> HIDE DEF M
<1>4. \A j, l \in Nat, op \in {"create", "delete"} :
        /\ j = 1 => (Says(M, j, l, op, t) <=> l >= 1 /\ Says(L, 1, l + 1, op, t))
        /\ j # 1 => (Says(M, j, l, op, t) <=> Says(L, j, l, op, t))
  <2> SUFFICES ASSUME NEW j \in Nat, NEW l \in Nat, NEW op \in {"create", "delete"}
               PROVE  /\ j = 1 => (Says(M, j, l, op, t) <=> l >= 1 /\ Says(L, 1, l + 1, op, t))
                      /\ j # 1 => (Says(M, j, l, op, t) <=> Says(L, j, l, op, t))
    OBVIOUS
  <2>1. CASE j = 1
    <3>1. Says(M, 1, l, op, t) => l >= 1 /\ Says(L, 1, l + 1, op, t)
      BY <1>1, <1>2, <1>3 DEF Says
    <3>2. l >= 1 /\ Says(L, 1, l + 1, op, t) => Says(M, 1, l, op, t)
      BY <1>1, <1>2, <1>3 DEF Says
    <3> QED BY <2>1, <3>1, <3>2
  <2>2. CASE j # 1
    <3>1. j \in 1..Len(L) => j \in 2..Len(L)
      BY <1>1, <2>2
    <3> QED BY <1>1, <1>2, <2>2, <3>1 DEF Says
  <2> QED BY <2>1, <2>2
<1>5. \A op : Says(L, 1, 1, op, t) <=> L[1][1].op = op /\ L[1][1].tag = t
  BY <1>1 DEF Says
<1>6. \A j, l \in Nat, op \in {"create", "delete"} : Says(L, j, l, op, t) => j >= 1 /\ l >= 1
  BY DEF Says
<1>7. CASE t \in V /\ \A j, l \in Nat : ~Says(L, j, l, "delete", t)
  <2>1. t \in N
    BY <1>5, <1>7 DEF Applied
  <2> HIDE DEF N
  <2>2. \A j, l \in Nat : ~Says(M, j, l, "delete", t)
    BY <1>4, <1>7
  <2>3. Alive(N, M, t)
    BY <2>1, <2>2 DEF Alive
  <2> QED BY <2>3 DEF M, N
<1>8. CASE \E i, k \in Nat :
             /\ Says(L, i, k, "create", t)
             /\ \A j, l \in Nat : Says(L, j, l, "delete", t) => j < i \/ (j = i /\ l < k)
  <2>1. PICK i \in Nat, k \in Nat :
             /\ Says(L, i, k, "create", t)
             /\ \A j, l \in Nat : Says(L, j, l, "delete", t) => j < i \/ (j = i /\ l < k)
    BY <1>8
  <2>2. CASE i = 1 /\ k = 1
    <3>1. t \in N
      BY <1>5, <2>1, <2>2 DEF Applied
    <3> HIDE DEF N
    <3>2. \A j, l \in Nat : ~Says(M, j, l, "delete", t)
      BY <1>4, <1>6, <2>1, <2>2
    <3>3. Alive(N, M, t)
      BY <3>1, <3>2 DEF Alive
    <3> QED BY <3>3 DEF M, N
  <2>3. CASE ~(i = 1 /\ k = 1)
    <3> HIDE DEF N
    <3>1. PICK h \in Nat : h = IF i = 1 THEN k - 1 ELSE k
      BY <1>6, <2>1, <2>3
    <3>2. Says(M, i, h, "create", t)
      BY <1>4, <1>6, <2>1, <2>3, <3>1
    <3>3. \A j, l \in Nat : Says(M, j, l, "delete", t) => j < i \/ (j = i /\ l < h)
      BY <1>4, <1>6, <2>1, <2>3, <3>1
    <3>4. Alive(N, M, t)
      BY <3>2, <3>3 DEF Alive
    <3> QED BY <3>4 DEF M, N
  <2> QED BY <2>2, <2>3
<1> QED BY <1>7, <1>8 DEF Alive

\* A list that is done leaves.
LEMMA AliveEnded ==
  ASSUME NEW V, NEW L \in Scripts, NEW t, L # <<>>, L[1] = <<>>, Alive(V, L, t)
  PROVE  Alive(V, Tail(L), t)
<1> DEFINE M == Tail(L)
<1>1. Len(L) \in Nat \ {0} /\ Len(M) = Len(L) - 1 /\ \A i \in 1..Len(M) : M[i] = L[i + 1]
  BY DEF Scripts
<1>2. Len(L[1]) = 0
  OBVIOUS
<1> HIDE DEF M
<1>3. \A j, l \in Nat, op \in {"create", "delete"} :
        Says(M, j, l, op, t) <=> j >= 1 /\ Says(L, j + 1, l, op, t)
  BY <1>1 DEF Says
<1>4. \A j, l \in Nat, op \in {"create", "delete"} : Says(L, j, l, op, t) => j >= 2
  BY <1>2 DEF Says
<1>5. CASE t \in V /\ \A j, l \in Nat : ~Says(L, j, l, "delete", t)
  <2>1. Alive(V, M, t)
    BY <1>3, <1>5 DEF Alive
  <2> QED BY <2>1 DEF M
<1>6. CASE \E i, k \in Nat :
             /\ Says(L, i, k, "create", t)
             /\ \A j, l \in Nat : Says(L, j, l, "delete", t) => j < i \/ (j = i /\ l < k)
  <2>1. PICK i \in Nat, k \in Nat :
             /\ Says(L, i, k, "create", t)
             /\ \A j, l \in Nat : Says(L, j, l, "delete", t) => j < i \/ (j = i /\ l < k)
    BY <1>6
  <2>2. PICK h \in Nat : h + 1 = i /\ h >= 1
    BY <1>4, <2>1
  <2>3. Says(M, h, k, "create", t)
    BY <1>3, <2>1, <2>2
  <2>4. \A j, l \in Nat : Says(M, j, l, "delete", t) => j < h \/ (j = h /\ l < k)
    BY <1>3, <2>1, <2>2
  <2>5. Alive(V, M, t)
    BY <2>3, <2>4 DEF Alive
  <2> QED BY <2>5 DEF M
<1> QED BY <1>5, <1>6 DEF Alive

-----------------------------------------------------------------------------
(* Transactions, of which only the lists count here.                                       *)

IsTransaction(x) == "list" \in DOMAIN x /\ x.list \in Seq(Mutations)
Transactions(q) == \E S : q \in Seq(S) /\ \A x \in S : IsTransaction(x)
Scripted(q) == [i \in 1..Len(q) |-> q[i].list]

\* Their lists are lists of mutations.
LEMMA ScriptsType ==
  ASSUME NEW q, Transactions(q)
  PROVE  Scripted(q) \in Scripts /\ Len(Scripted(q)) = Len(q) /\ Len(q) \in Nat
<1>1. PICK S : q \in Seq(S) /\ \A x \in S : IsTransaction(x)
  BY DEF Transactions
<1>2. \A i \in 1..Len(q) : q[i] \in S
  BY <1>1
<1>3. Scripted(q) \in [1..Len(q) -> Seq(Mutations)]
  BY <1>1, <1>2 DEF Scripted, IsTransaction
<1> QED BY <1>1, <1>3 DEF Scripts, Scripted

\* None.
LEMMA NoTransactions == Transactions(<<>>) /\ Scripted(<<>>) = <<>>
<1>1. <<>> \in Seq({}) /\ Len(<<>>) = 0
  OBVIOUS
<1>2. Transactions(<<>>)
  <2> DEFINE None == {}
  <2>1. <<>> \in Seq(None) /\ \A x \in None : IsTransaction(x)
    BY <1>1
  <2> HIDE DEF None
  <2> QED BY <2>1 DEF Transactions
<1> QED BY <1>1, <1>2 DEF Scripted

\* One more.
LEMMA OneMoreTransaction ==
  ASSUME NEW q, Transactions(q), NEW l \in Seq(Mutations), NEW x, x.list = l, "list" \in DOMAIN x
  PROVE  Transactions(Append(q, x)) /\ Scripted(Append(q, x)) = Append(Scripted(q), l)
<1>1. PICK S : q \in Seq(S) /\ \A y \in S : IsTransaction(y)
  BY DEF Transactions
<1>2. PICK T : T = S \cup {x}
  OBVIOUS
<1>3. (\A y \in T : IsTransaction(y)) /\ x \in T /\ q \in Seq(T)
  BY <1>1, <1>2 DEF IsTransaction
<1>4. Append(q, x) \in Seq(T)
  BY <1>3
<1>5. /\ Len(Append(q, x)) = Len(q) + 1 /\ Append(q, x)[Len(q) + 1] = x /\ Len(q) \in Nat
      /\ \A i \in 1..Len(q) : Append(q, x)[i] = q[i]
  BY <1>3
<1>6. Scripted(q) \in Scripts /\ Len(Scripted(q)) = Len(q)
  BY ScriptsType
<1>7. Transactions(Append(q, x))
  BY <1>3, <1>4 DEF Transactions
<1>8. Scripted(Append(q, x)) \in Scripts /\ Len(Scripted(Append(q, x))) = Len(q) + 1
  BY <1>5, <1>7, ScriptsType
<1>9. Append(Scripted(q), l) \in Scripts /\ Len(Append(Scripted(q), l)) = Len(q) + 1
  BY <1>6 DEF Scripts
<1>10. \A i \in 1..(Len(q) + 1) : Scripted(Append(q, x))[i] = Append(Scripted(q), l)[i]
  <2> SUFFICES ASSUME NEW i \in 1..(Len(q) + 1)
               PROVE  Scripted(Append(q, x))[i] = Append(Scripted(q), l)[i]
    OBVIOUS
  <2>1. CASE i = Len(q) + 1
    BY <1>5, <1>6, <2>1 DEF Scripted, Scripts
  <2>2. CASE i # Len(q) + 1
    BY <1>5, <1>6, <2>2 DEF Scripted, Scripts
  <2> QED BY <2>1, <2>2
<1>11. Scripted(Append(q, x)) = Append(Scripted(q), l)
  BY <1>8, <1>9, <1>10, SeqEqual DEF Scripts
<1> QED BY <1>7, <1>11

\* The first has gone, or one of its mutations has.
LEMMA TransactionLeaves ==
  ASSUME NEW q, Transactions(q), q # <<>>
  PROVE  /\ IsTransaction(Head(q)) /\ Head(q).list = Scripted(q)[1] /\ Scripted(q) # <<>>
         /\ Transactions(Tail(q)) /\ Scripted(Tail(q)) = Tail(Scripted(q))
<1>1. PICK S : q \in Seq(S) /\ \A y \in S : IsTransaction(y)
  BY DEF Transactions
<1>2. /\ Len(q) \in Nat \ {0} /\ Tail(q) \in Seq(S) /\ Head(q) = q[1] /\ q[1] \in S
      /\ Len(Tail(q)) = Len(q) - 1 /\ \A i \in 1..(Len(q) - 1) : Tail(q)[i] = q[i + 1]
  BY <1>1
<1>3. Transactions(Tail(q))
  BY <1>1, <1>2 DEF Transactions
<1>4. Scripted(q) \in Scripts /\ Len(Scripted(q)) = Len(q) /\ Scripted(q) # <<>>
  BY <1>2, ScriptsType
<1>5. Scripted(Tail(q)) \in Scripts /\ Len(Scripted(Tail(q))) = Len(q) - 1
  BY <1>2, <1>3, ScriptsType, Zenon
<1>6. /\ Tail(Scripted(q)) \in Scripts /\ Len(Tail(Scripted(q))) = Len(q) - 1
      /\ \A i \in 1..(Len(q) - 1) : Tail(Scripted(q))[i] = Scripted(q)[i + 1]
  BY <1>4 DEF Scripts
<1>7. \A i \in 1..(Len(q) - 1) : Scripted(Tail(q))[i] = Tail(Scripted(q))[i]
  BY <1>2, <1>6 DEF Scripted
<1>8. Scripted(Tail(q)) = Tail(Scripted(q))
  BY <1>2, <1>5, <1>6, <1>7, SeqEqual DEF Scripts
<1>9. Head(q).list = Scripted(q)[1]
  BY <1>2 DEF Scripted
<1> QED BY <1>1, <1>2, <1>3, <1>4, <1>8, <1>9

\* The first is another.
LEMMA TransactionChanges ==
  ASSUME NEW q, Transactions(q), NEW l \in Seq(Mutations), NEW x, x.list = l, "list" \in DOMAIN x
  PROVE  Transactions(<<x>> \o q) /\ Scripted(<<x>> \o q) = <<l>> \o Scripted(q)
<1>1. PICK S : q \in Seq(S) /\ \A y \in S : IsTransaction(y)
  BY DEF Transactions
<1>2. PICK T : T = S \cup {x}
  OBVIOUS
<1>3. (\A y \in T : IsTransaction(y)) /\ x \in T /\ q \in Seq(T)
  BY <1>1, <1>2 DEF IsTransaction
<1>4. <<x>> \o q \in Seq(T)
  BY <1>3
<1>5. /\ Len(<<x>> \o q) = Len(q) + 1 /\ (<<x>> \o q)[1] = x /\ Len(q) \in Nat
      /\ \A i \in 2..(Len(q) + 1) : (<<x>> \o q)[i] = q[i - 1]
  BY <1>3
<1>6. Scripted(q) \in Scripts /\ Len(Scripted(q)) = Len(q)
  BY ScriptsType
<1>7. Transactions(<<x>> \o q)
  BY <1>3, <1>4 DEF Transactions
<1>8. Scripted(<<x>> \o q) \in Scripts /\ Len(Scripted(<<x>> \o q)) = Len(q) + 1
  BY <1>5, <1>7, ScriptsType
<1>9. /\ <<l>> \o Scripted(q) \in Scripts /\ Len(<<l>> \o Scripted(q)) = Len(q) + 1
      /\ (<<l>> \o Scripted(q))[1] = l
      /\ \A i \in 2..(Len(q) + 1) : (<<l>> \o Scripted(q))[i] = Scripted(q)[i - 1]
  BY <1>5, <1>6 DEF Scripts
<1>10. \A i \in 1..(Len(q) + 1) : Scripted(<<x>> \o q)[i] = (<<l>> \o Scripted(q))[i]
  <2> SUFFICES ASSUME NEW i \in 1..(Len(q) + 1)
               PROVE  Scripted(<<x>> \o q)[i] = (<<l>> \o Scripted(q))[i]
    OBVIOUS
  <2>1. Scripted(<<x>> \o q)[i] = (<<x>> \o q)[i].list
    BY <1>5 DEF Scripted
  <2>2. CASE i = 1
    BY <1>5, <1>9, <2>1, <2>2
  <2>3. CASE i # 1
    <3>1. i \in 2..(Len(q) + 1) /\ i - 1 \in 1..Len(q)
      BY <1>5, <2>3
    <3>2. Scripted(q)[i - 1] = q[i - 1].list
      BY <3>1 DEF Scripted
    <3> QED BY <1>5, <1>9, <2>1, <3>1, <3>2
  <2> QED BY <2>2, <2>3
<1>11. Scripted(<<x>> \o q) = <<l>> \o Scripted(q)
  BY <1>8, <1>9, <1>10, SeqEqual DEF Scripts
<1> QED BY <1>7, <1>11

-----------------------------------------------------------------------------
(* What a mutation does to the registered views.  A deletion first folds over the removed  *)
(* children; the recursive function of that fold exists, and no turn of it touches the     *)
(* registered views.                                                                       *)

Highest(S) == CHOOSE x \in S : \A y \in S : x >= y
Freeing(all, t, r, pair) ==
  IF all \/ pair[1] = t \/ pair[2] \in Under(r, t) THEN FinishRemoval(r, pair[2]) ELSE r
Freeings(all, t, q, base, iter, s) ==
  IF s = {} THEN base ELSE Freeing(all, t, iter[s \ {Highest(s)}], q[Highest(s)])
Frees(all, t, q, base, iter, D) == iter = [s \in D |-> Freeings(all, t, q, base, iter, s)]

\* A set of positions has a highest.
LEMMA HighestIsThere ==
  ASSUME NEW n \in Nat, NEW s \in SUBSET (1..n), s # {}
  PROVE  Highest(s) \in s
<1> DEFINE T == {m \in Nat : \E x \in s : n - x = m}
<1>1. T # {} /\ T \in SUBSET Nat
  <2>1. PICK x \in s : x \in 1..n
    OBVIOUS
  <2>2. n - x \in T
    BY <2>1
  <2> QED BY <2>2
<1>2. PICK m \in T : \A k \in T : m <= k
  BY <1>1, LeastNatural
<1>3. PICK x \in s : n - x = m
  BY <1>2
<1>4. ASSUME NEW y \in s PROVE x >= y
  <2>1. n - y \in T /\ y \in 1..n /\ x \in 1..n
    OBVIOUS
  <2>2. m <= n - y
    BY <1>2, <2>1
  <2> QED BY <1>3, <2>1, <2>2
<1> QED BY <1>4 DEF Highest

\* The function exists.
LEMMA FreesExist ==
  ASSUME NEW all, NEW t, NEW q, NEW base, NEW n \in Nat
  PROVE  \E iter : Frees(all, t, q, base, iter, SUBSET (1..n))
<1> DEFINE G(c) == {s \in SUBSET (1..n) : Cardinality(s) <= c}
           E(c) == \E iter : Frees(all, t, q, base, iter, G(c))
<1>1. IsFiniteSet(1..n) /\ Cardinality(1..n) = n
  BY FS_Interval
<1>2. \A s \in SUBSET (1..n) : IsFiniteSet(s) /\ Cardinality(s) \in Nat
  BY <1>1, FS_Subset, FS_CardinalityType
<1>3. \A s \in SUBSET (1..n) : s # {} => Highest(s) \in s
  BY HighestIsThere
<1>4. E(0)
  <2>1. G(0) = {{}}
    BY <1>2, FS_EmptySet
  <2> DEFINE iter == [s \in {{}} |-> base]
  <2>2. Frees(all, t, q, base, iter, G(0))
    BY <2>1 DEF Frees, Freeings
  <2> QED BY <2>2
<1>5. ASSUME NEW c \in Nat, E(c) PROVE E(c + 1)
  <2>1. PICK iter : Frees(all, t, q, base, iter, G(c))
    BY <1>5
  <2> DEFINE next == [s \in G(c + 1) |-> Freeings(all, t, q, base, iter, s)]
  <2>2. ASSUME NEW s \in G(c + 1), s # {} PROVE s \ {Highest(s)} \in G(c)
    <3>1. Highest(s) \in s /\ IsFiniteSet(s) /\ Cardinality(s) \in Nat
      BY <1>2, <1>3, <2>2
    <3>2. Cardinality(s \ {Highest(s)}) = Cardinality(s) - 1
      BY <3>1, FS_RemoveElement
    <3>3. s \ {Highest(s)} \in SUBSET (1..n) /\ Cardinality(s) <= c + 1
      OBVIOUS
    <3>4. Cardinality(s \ {Highest(s)}) <= c
      BY <3>1, <3>2, <3>3
    <3> QED BY <3>3, <3>4
  <2>3. G(c) \subseteq G(c + 1)
    BY <1>2
  <2>4. \A s \in G(c) : next[s] = iter[s]
    BY <2>1, <2>3 DEF Frees
  <2> HIDE DEF G
  <2>5. \A s \in G(c + 1) : Freeings(all, t, q, base, iter, s) = Freeings(all, t, q, base, next, s)
    BY <2>2, <2>4 DEF Freeings
  <2>6. Frees(all, t, q, base, next, G(c + 1))
    BY <2>5 DEF Frees
  <2> HIDE DEF next
  <2> QED BY <2>6
<1> HIDE DEF E
<1>6. \A c \in Nat : E(c)
  <2> DEFINE T == {c \in Nat : ~E(c)}
  <2> SUFFICES ASSUME T # {} PROVE FALSE
    OBVIOUS
  <2>1. PICK c \in T : \A m \in T : c <= m
    BY LeastNatural
  <2>2. c \in Nat \ {0}
    BY <1>4
  <2>3. c - 1 \in Nat /\ E(c - 1) /\ (c - 1) + 1 = c
    BY <2>1, <2>2
  <2> QED BY <1>5, <2>3
<1>7. \A s \in SUBSET (1..n) : Cardinality(s) <= n
  BY <1>1, FS_Subset
<1>8. G(n) = SUBSET (1..n)
  BY <1>7
<1> QED BY <1>6, <1>8 DEF E

AllFreed(r, t) ==
  FoldLeft(LAMBDA s, pair : IF pair[1] = t \/ pair[2] \in Under(s, t)
                              THEN FinishRemoval(s, pair[2]) ELSE s, r, r.removed)
Freedom(all, t, q, base) == CHOOSE iter : Frees(all, t, q, base, iter, SUBSET DOMAIN q)

AllFinished(r) ==
  FoldLeft(LAMBDA s, pair : FinishRemoval(s, pair[2]), r, r.removed)

\* The fold of a deletion is that function, of all of the list.
LEMMA FoldOfFreeings ==
  ASSUME NEW r, NEW t, NEW n \in Nat, DOMAIN r.removed = 1..n
  PROVE  LET iter == Freedom(FALSE, t, r.removed, r)
         IN  Frees(FALSE, t, r.removed, r, iter, SUBSET (1..n)) /\ AllFreed(r, t) = iter[1..n]
<1> DEFINE iter == Freedom(FALSE, t, r.removed, r)
<1>1. Frees(FALSE, t, r.removed, r, iter, SUBSET DOMAIN r.removed)
  BY FreesExist DEF Freedom
<1>2. AllFreed(r, t) = iter[DOMAIN r.removed]
  BY DEF AllFreed, FoldLeft, MapThenFoldSet, Max, Freedom, Frees, Freeings, Freeing, Highest
<1> QED BY <1>1, <1>2

\* So is that of the end of a transaction.
LEMMA FoldOfRemovals ==
  ASSUME NEW r, NEW n \in Nat, DOMAIN r.removed = 1..n
  PROVE  LET iter == Freedom(TRUE, 0, r.removed, r)
         IN  Frees(TRUE, 0, r.removed, r, iter, SUBSET (1..n)) /\ AllFinished(r) = iter[1..n]
<1> DEFINE iter == Freedom(TRUE, 0, r.removed, r)
<1>1. Frees(TRUE, 0, r.removed, r, iter, SUBSET DOMAIN r.removed)
  BY FreesExist DEF Freedom
<1>2. AllFinished(r) = iter[DOMAIN r.removed]
  BY DEF AllFinished, FoldLeft, MapThenFoldSet, Max, Freedom, Frees, Freeings, Freeing, Highest
<1> QED BY <1>1, <1>2

Fields == {"views", "nodes", "detaching", "removed", "freed"}
Same(r, s) == DOMAIN s = Fields /\ DOMAIN r = Fields /\ s.views = r.views /\ s.removed = r.removed

\* A removal touches neither the views nor the list.
LEMMA RemovalKeepsViews ==
  ASSUME NEW r, NEW t, DOMAIN r = Fields
  PROVE  Same(r, Unparented(r, t)) /\ Same(r, FinishRemoval(r, t))
<1>1. ASSUME NEW x PROVE Same(r, [r EXCEPT !.nodes = x])
  BY DEF Same, Fields
<1>2. Same(r, r)
  BY DEF Same
<1>3. Same(r, Unparented(r, t))
  <2>1. CASE Holder(r, t) = NoView
    BY <1>2, <2>1 DEF Unparented
  <2>2. CASE Holder(r, t) # NoView
    BY <2>2 DEF Unparented, Same, Fields
  <2> QED BY <2>1, <2>2
<1>4. PICK u : u = Unparented(r, t)
  OBVIOUS
<1>5. Same(r, [u EXCEPT !.detaching = @ \ {t}])
  BY <1>3, <1>4 DEF Same, Fields
<1> QED BY <1>2, <1>3, <1>4, <1>5 DEF FinishRemoval

\* Nor does a fold of them.
LEMMA FoldsKeepViews ==
  ASSUME NEW all, NEW t, NEW q, NEW r, DOMAIN r = Fields, NEW n \in Nat, NEW iter,
         Frees(all, t, q, r, iter, SUBSET (1..n))
  PROVE  Same(r, iter[1..n])
<1>1. IsFiniteSet(1..n) /\ \A s \in SUBSET (1..n) : IsFiniteSet(s) /\ Cardinality(s) \in Nat
  <2>1. IsFiniteSet(1..n)
    BY FS_Interval
  <2> QED BY <2>1, FS_Subset, FS_CardinalityType
<1> DEFINE T == {Cardinality(s) : s \in {x \in SUBSET (1..n) : ~Same(r, iter[x])}}
<1>2. SUFFICES ASSUME T # {} PROVE FALSE
  <2>1. 1..n \in SUBSET (1..n)
    OBVIOUS
  <2> QED BY <2>1
<1>3. T \in SUBSET Nat
  BY <1>1
<1>4. PICK c \in T : \A m \in T : c <= m
  BY <1>2, <1>3, LeastNatural
<1>5. PICK s \in SUBSET (1..n) : ~Same(r, iter[s]) /\ Cardinality(s) = c
  BY <1>4
<1>6. iter[s] = Freeings(all, t, q, r, iter, s)
  BY <1>5 DEF Frees
<1>7. Same(r, r)
  BY DEF Same
<1>8. s # {}
  BY <1>5, <1>6, <1>7 DEF Freeings
<1>9. PICK h : h = Highest(s)
  OBVIOUS
<1>10. h \in s
  BY <1>1, <1>5, <1>8, <1>9, HighestIsThere
<1>11. PICK w : w = s \ {h}
  OBVIOUS
<1>12. w \in SUBSET (1..n) /\ Cardinality(w) = Cardinality(s) - 1
  BY <1>1, <1>5, <1>10, <1>11, FS_RemoveElement
<1>13. Same(r, iter[w])
  <2>1. Cardinality(w) \in Nat /\ Cardinality(s) \in Nat /\ Cardinality(w) < c
    BY <1>1, <1>5, <1>12
  <2>2. c \in Nat
    BY <1>1, <1>5
  <2>3. Cardinality(w) \notin T
    <3>1. PICK d : d = Cardinality(w)
      OBVIOUS
    <3> HIDE DEF T
    <3> QED BY <1>4, <2>1, <2>2, <3>1
  <2> QED BY <1>12, <2>3
<1>14. iter[s] = Freeing(all, t, iter[w], q[h])
  BY <1>6, <1>8, <1>9, <1>11 DEF Freeings
<1>15. PICK v, pair : v = iter[w] /\ pair = q[h]
  OBVIOUS
<1>16. Same(v, Freeing(all, t, v, pair))
  BY <1>13, <1>15, RemovalKeepsViews DEF Freeing, Same
<1> QED BY <1>5, <1>13, <1>14, <1>15, <1>16 DEF Same

\* A mutation leaves the views that it should, and a list of removals.
LEMMA MutatedViews ==
  ASSUME NEW r, DOMAIN r = Fields, r.removed \in Seq(Parents \X ViewTags), NEW m \in Mutations
  PROVE  LET n == Mutated(r, m)
         IN  DOMAIN n = Fields /\ n.views = Applied(r.views, m) /\ n.removed \in Seq(Parents \X ViewTags)
<1> DEFINE Good(n) == /\ DOMAIN n = Fields /\ n.views = Applied(r.views, m)
                      /\ n.removed \in Seq(Parents \X ViewTags)
<1>1. m.op \in {"create", "delete", "insert", "remove"}
  BY MutationFields
<1>2. CASE m.op = "create"
  <2>1. Good(Create(r, m.tag))
    BY <1>2 DEF Create, Fields, Applied
  <2> QED BY <1>2, <2>1 DEF Mutated
<1>3. CASE m.op = "delete"
  <2>1. PICK s : s = AllFreed(r, m.tag)
    OBVIOUS
  <2>2. Same(r, s)
    <3>1. DOMAIN r.removed = 1..Len(r.removed) /\ Len(r.removed) \in Nat
      OBVIOUS
    <3>2. PICK n \in Nat : n = Len(r.removed)
      BY <3>1
    <3>3. PICK iter : iter = Freedom(FALSE, m.tag, r.removed, r)
      OBVIOUS
    <3>4. Frees(FALSE, m.tag, r.removed, r, iter, SUBSET (1..n)) /\ AllFreed(r, m.tag) = iter[1..n]
      BY <3>1, <3>2, <3>3, FoldOfFreeings
    <3> QED BY <2>1, <3>4, FoldsKeepViews
  <2>3. PICK u : u = Unparented(s, m.tag)
    OBVIOUS
  <2>4. Same(s, u)
    BY <2>2, <2>3, RemovalKeepsViews DEF Same
  <2>5. ASSUME NEW a, NEW b PROVE
          Good([u EXCEPT !.views = @ \ {m.tag}, !.detaching = @ \ {m.tag}, !.freed = a, !.nodes = b])
    BY <1>3, <2>2, <2>4 DEF Same, Fields, Applied
  <2>6. Good(Freed(s, m.tag))
    BY <2>3, <2>5 DEF Freed
  <2>7. Destroy(r, m.tag) = Freed(s, m.tag)
    BY <2>1 DEF Destroy, AllFreed
  <2> QED BY <1>3, <2>6, <2>7 DEF Mutated
<1>4. CASE m.op = "insert"
  <2>1. PICK u : u = Unparented(r, m.tag)
    OBVIOUS
  <2>2. Same(r, u)
    BY <2>1, RemovalKeepsViews
  <2>3. PICK s : s = [u EXCEPT !.detaching = @ \ {m.tag}]
    OBVIOUS
  <2>4. Same(r, s)
    BY <2>2, <2>3 DEF Same, Fields
  <2>5. ASSUME NEW a, NEW k PROVE Good([s EXCEPT !.nodes[k] = a])
    BY <1>4, <2>4 DEF Same, Fields, Applied
  <2>6. Good(InsertChild(r, m.parent, m.tag, m.index))
    BY <2>1, <2>3, <2>5 DEF InsertChild
  <2> QED BY <1>4, <2>6 DEF Mutated
<1>5. CASE m.op = "remove"
  <2>1. <<m.parent, m.tag>> \in Parents \X ViewTags
    BY <1>5 DEF Mutations
  <2>2. ASSUME NEW d PROVE Good([r EXCEPT !.detaching = d, !.removed = Append(@, <<m.parent, m.tag>>)])
    BY <1>5, <2>1 DEF Fields, Applied
  <2>3. Good(RemoveChild(r, m.parent, m.tag))
    BY <2>2 DEF RemoveChild
  <2> QED BY <1>5, <2>3 DEF Mutated
<1> QED BY <1>1, <1>2, <1>3, <1>4, <1>5

\* The end of a transaction leaves the views.
LEMMA EndKeepsViews ==
  ASSUME NEW r, DOMAIN r = Fields, r.removed \in Seq(Parents \X ViewTags)
  PROVE  LET n == [AllFinished(r) EXCEPT !.removed = <<>>]
         IN  DOMAIN n = Fields /\ n.views = r.views /\ n.removed \in Seq(Parents \X ViewTags)
<1>1. DOMAIN r.removed = 1..Len(r.removed) /\ Len(r.removed) \in Nat
  OBVIOUS
<1>2. PICK c \in Nat : c = Len(r.removed)
  BY <1>1
<1>3. PICK iter : iter = Freedom(TRUE, 0, r.removed, r)
  OBVIOUS
<1>4. Frees(TRUE, 0, r.removed, r, iter, SUBSET (1..c)) /\ AllFinished(r) = iter[1..c]
  BY <1>1, <1>2, <1>3, FoldOfRemovals
<1>5. PICK s : s = AllFinished(r)
  OBVIOUS
<1>6. Same(r, s)
  BY <1>4, <1>5, FoldsKeepViews
<1>7. LET n == [s EXCEPT !.removed = <<>>]
      IN  DOMAIN n = Fields /\ n.views = r.views /\ n.removed \in Seq(Parents \X ViewTags)
  BY <1>6 DEF Same, Fields
<1> QED BY <1>5, <1>7

-----------------------------------------------------------------------------
(* The invariant.  What React shows is alive after all that the views have not heard of    *)
(* yet; a view that a command is for is so too, unless it was deleted since, and if no     *)
(* flush comes before the command then the running one is the last that it waits for.      *)

Tasks == [op : {"flush"}] \cup [op : {"command"}, tag : ViewTags, deleted : BOOLEAN]

MountingTypeOK ==
  /\ "views" \in DOMAIN react /\ react.views \in SUBSET ViewTags /\ building \in Seq(Mutations)
  /\ Transactions(pending) /\ Transactions(batch) /\ mountTasks \in Seq(Tasks)
  /\ DOMAIN registry = Fields /\ registry.removed \in Seq(Parents \X ViewTags)
  /\ flushScheduled \in BOOLEAN /\ registered \in BOOLEAN

FlushComes ==
  /\ pending # <<>> => flushScheduled
  /\ flushScheduled => \E i \in 1..Len(mountTasks) : mountTasks[i].op = "flush"

Ahead(V, B, P, U, W) == \A t \in W : Alive(V, Append(B \o P, U), t)

Reaches(q, i, V, B, P) ==
  q[i].op = "command" /\ ~q[i].deleted =>
    /\ Alive(V, B \o P, q[i].tag)
    /\ (\A j \in 1..(i - 1) : q[j].op # "flush") => Alive(V, B, q[i].tag)
AllReach(q, V, B, P) == \A i \in 1..Len(q) : Reaches(q, i, V, B, P)

MountingInv ==
  /\ MountingTypeOK /\ FlushComes
  /\ registered => /\ Ahead(registry.views, Scripted(batch), Scripted(pending), building, react.views)
                   /\ AllReach(mountTasks, registry.views, Scripted(batch), Scripted(pending))

\* Tasks, by their kinds.
LEMMA TaskFields ==
  ASSUME NEW k \in Tasks
  PROVE  k.op \in {"flush", "command"} /\ (k.op = "command" => k.tag \in ViewTags /\ k.deleted \in BOOLEAN)
BY DEF Tasks

\* The first task leaves.
LEMMA TasksGoOn ==
  ASSUME NEW q \in Seq(Tasks), q # <<>>, NEW V, NEW B, NEW P, AllReach(q, V, B, P), Head(q).op = "command"
  PROVE  Tail(q) \in Seq(Tasks) /\ AllReach(Tail(q), V, B, P)
<1> DEFINE n == Tail(q)
<1>1. /\ n \in Seq(Tasks) /\ Len(n) = Len(q) - 1 /\ Len(q) \in Nat \ {0} /\ q[1].op = "command"
      /\ \A i \in 1..Len(n) : n[i] = q[i + 1]
  OBVIOUS
<1> HIDE DEF n
<1>2. ASSUME NEW i \in 1..Len(n) PROVE Reaches(n, i, V, B, P)
  <2>1. Reaches(q, i + 1, V, B, P) /\ n[i] = q[i + 1]
    BY <1>1 DEF AllReach
  <2>2. (\A j \in 1..(i - 1) : n[j].op # "flush") => \A j \in 1..i : q[j].op # "flush"
    <3> SUFFICES ASSUME \A j \in 1..(i - 1) : n[j].op # "flush", NEW j \in 1..i
                 PROVE  q[j].op # "flush"
      OBVIOUS
    <3>1. CASE j = 1
      BY <1>1, <3>1
    <3>2. CASE j # 1
      <4>1. j - 1 \in 1..(i - 1) /\ j - 1 \in 1..Len(n) /\ (j - 1) + 1 = j
        BY <1>1, <3>2
      <4> QED BY <1>1, <4>1
    <3> QED BY <3>1, <3>2
  <2>3. (i + 1) - 1 = i
    OBVIOUS
  <2> QED BY <2>1, <2>2, <2>3 DEF Reaches
<1>3. AllReach(n, V, B, P)
  BY <1>2 DEF AllReach
<1> QED BY <1>1, <1>3 DEF n

\* A task that waits behind the others changes nothing for them.
LEMMA TaskIsAdded ==
  ASSUME NEW q \in Seq(Tasks), NEW k \in Tasks, NEW V, NEW B, NEW P, AllReach(q, V, B, P),
         k.op = "command" /\ ~k.deleted =>
           /\ Alive(V, B \o P, k.tag)
           /\ (\A j \in 1..Len(q) : q[j].op # "flush") => Alive(V, B, k.tag)
  PROVE  Append(q, k) \in Seq(Tasks) /\ AllReach(Append(q, k), V, B, P)
<1> DEFINE n == Append(q, k)
<1>1. /\ n \in Seq(Tasks) /\ Len(n) = Len(q) + 1 /\ Len(q) \in Nat /\ n[Len(q) + 1] = k
      /\ \A i \in 1..Len(q) : n[i] = q[i]
  OBVIOUS
<1> HIDE DEF n
<1>2. ASSUME NEW i \in 1..Len(n) PROVE Reaches(n, i, V, B, P)
  <2>1. CASE i \in 1..Len(q)
    <3>1. Reaches(q, i, V, B, P) /\ n[i] = q[i] /\ \A j \in 1..(i - 1) : n[j] = q[j]
      BY <1>1, <2>1 DEF AllReach
    <3> QED BY <3>1 DEF Reaches
  <2>2. CASE i = Len(q) + 1
    <3>1. i - 1 = Len(q)
      BY <1>1, <2>2
    <3> QED BY <1>1, <2>2, <3>1 DEF Reaches
  <2> QED BY <1>1, <2>1, <2>2
<1>3. AllReach(n, V, B, P)
  BY <1>2 DEF AllReach
<1> QED BY <1>1, <1>3 DEF n

\* Flushing what was pending.
LEMMA FlushIsTaken ==
  ASSUME NEW q \in Seq(Tasks), q # <<>>, Head(q).op = "flush", NEW V, NEW P \in Scripts,
         AllReach(q, V, <<>>, P)
  PROVE  Tail(q) \in Seq(Tasks) /\ AllReach(Tail(q), V, P, <<>>)
<1> DEFINE n == Tail(q)
<1>1. /\ n \in Seq(Tasks) /\ Len(n) = Len(q) - 1 /\ Len(q) \in Nat \ {0}
      /\ \A i \in 1..Len(n) : n[i] = q[i + 1]
  OBVIOUS
<1> HIDE DEF n
<1>2. <<>> \o P = P /\ P \o <<>> = P
  BY DEF Scripts
<1>3. ASSUME NEW i \in 1..Len(n) PROVE Reaches(n, i, V, P, <<>>)
  <2>1. Reaches(q, i + 1, V, <<>>, P) /\ n[i] = q[i + 1]
    BY <1>1, <1>3 DEF AllReach
  <2> QED BY <1>2, <2>1 DEF Reaches
<1>4. AllReach(n, V, P, <<>>)
  BY <1>3 DEF AllReach
<1> QED BY <1>1, <1>4 DEF n

\* What the running flush has done, or dropped when it was empty.
LEMMA TasksLookOn ==
  ASSUME NEW q \in Seq(Tasks), NEW V, NEW B, NEW P, NEW W, NEW A, AllReach(q, V, B, P),
         \A t \in ViewTags : Alive(V, B \o P, t) => Alive(W, A \o P, t),
         \A t \in ViewTags : Alive(V, B, t) => Alive(W, A, t)
  PROVE  AllReach(q, W, A, P)
<1>1. ASSUME NEW i \in 1..Len(q) PROVE Reaches(q, i, W, A, P)
  <2>1. Reaches(q, i, V, B, P) /\ q[i] \in Tasks
    BY DEF AllReach
  <2>2. q[i].op = "command" => q[i].tag \in ViewTags
    BY <2>1, TaskFields
  <2> QED BY <2>1, <2>2 DEF Reaches
<1> QED BY <1>1 DEF AllReach

\* Lists that follow the running flush's do not matter to it.
LEMMA Concatenated ==
  ASSUME NEW B \in Scripts, NEW P \in Scripts, NEW U \in Seq(Mutations)
  PROVE  /\ B \o P \in Scripts /\ Append(P, U) \in Scripts /\ B \o Append(P, U) = Append(B \o P, U)
         /\ <<>> \in Scripts /\ <<>> \o P = P /\ P \o <<>> = P
BY DEF Scripts

\* The first of two sequences is the first of both.
LEMMA ConcatenatedFirst ==
  ASSUME NEW B \in Scripts, NEW P \in Scripts, B # <<>>
  PROVE  /\ B \o P # <<>> /\ (B \o P)[1] = B[1] /\ Tail(B \o P) = Tail(B) \o P
         /\ B[1] \in Seq(Mutations) /\ Tail(B) \in Scripts
<1>1. Len(B) \in Nat \ {0} /\ Len(P) \in Nat /\ Tail(B) \in Scripts /\ B[1] \in Seq(Mutations)
  BY DEF Scripts
<1>2. /\ B \o P \in Scripts /\ Len(B \o P) = Len(B) + Len(P)
      /\ \A i \in 1..(Len(B) + Len(P)) : (B \o P)[i] = IF i <= Len(B) THEN B[i] ELSE P[i - Len(B)]
  BY ConcatProperties DEF Scripts
<1>3. Tail(B \o P) \in Scripts /\ Tail(B) \o P \in Scripts
  BY <1>1, <1>2 DEF Scripts
<1>4. Len(Tail(B \o P)) = Len(B) + Len(P) - 1 /\ Len(Tail(B) \o P) = Len(B) + Len(P) - 1
  BY <1>1, <1>2 DEF Scripts
<1>5. \A i \in 1..(Len(B) + Len(P) - 1) : Tail(B \o P)[i] = (Tail(B) \o P)[i]
  BY <1>1, <1>2, <1>4 DEF Scripts
<1>6. Tail(B \o P) = Tail(B) \o P
  BY <1>3, <1>4, <1>5, SeqEqual DEF Scripts
<1> QED BY <1>1, <1>2, <1>6

\* A mutation of the running flush is applied.
LEMMA BatchApplied ==
  ASSUME NEW V, NEW B \in Scripts, NEW P \in Scripts, NEW t, B # <<>>, B[1] # <<>>, Alive(V, B \o P, t)
  PROVE  Alive(Applied(V, B[1][1]), (<<Tail(B[1])>> \o Tail(B)) \o P, t)
<1>1. /\ B \o P \in Scripts /\ B \o P # <<>> /\ (B \o P)[1] = B[1] /\ Tail(B \o P) = Tail(B) \o P
      /\ B[1] \in Seq(Mutations) /\ Tail(B) \in Scripts
  BY ConcatenatedFirst, Concatenated
<1>2. Alive(Applied(V, B[1][1]), <<Tail(B[1])>> \o (Tail(B) \o P), t)
  BY <1>1, AliveApplied
<1>3. <<Tail(B[1])>> \in Scripts
  BY <1>1 DEF Scripts
<1>4. (<<Tail(B[1])>> \o Tail(B)) \o P = <<Tail(B[1])>> \o (Tail(B) \o P)
  BY <1>1, <1>3, ConcatAssociative DEF Scripts
<1> QED BY <1>2, <1>4

\* Its first transaction ends.
LEMMA BatchEnded ==
  ASSUME NEW V, NEW B \in Scripts, NEW P \in Scripts, NEW t, B # <<>>, B[1] = <<>>, Alive(V, B \o P, t)
  PROVE  Alive(V, Tail(B) \o P, t)
<1>1. /\ B \o P \in Scripts /\ B \o P # <<>> /\ (B \o P)[1] = B[1] /\ Tail(B \o P) = Tail(B) \o P
  BY ConcatenatedFirst, Concatenated
<1> QED BY <1>1, AliveEnded

\* The tasks that a commit marks.
LEMMA MarkedTasks ==
  ASSUME MountingTypeOK
  PROVE  /\ Marked \in Seq(Tasks) /\ Len(Marked) = Len(mountTasks) /\ Len(Marked) \in Nat
         /\ \A i \in 1..Len(mountTasks) :
              /\ Marked[i].op = mountTasks[i].op
              /\ Marked[i].op = "command" /\ ~Marked[i].deleted =>
                   /\ Marked[i].tag = mountTasks[i].tag /\ ~mountTasks[i].deleted
                   /\ \A j \in 1..Len(building) :
                        ~(building[j].op = "delete" /\ building[j].tag = mountTasks[i].tag)
<1>1. mountTasks \in Seq(Tasks) /\ building \in Seq(Mutations)
  BY DEF MountingTypeOK
<1>2. DOMAIN mountTasks = 1..Len(mountTasks) /\ DOMAIN building = 1..Len(building)
  BY <1>1
<1> DEFINE lost(k) == k.op = "command" /\ \E j \in 1..Len(building) : building[j].op = "delete" /\ building[j].tag = k.tag
           mark(k) == IF lost(k) THEN [k EXCEPT !.deleted = TRUE] ELSE k
<1>3. Marked = [i \in 1..Len(mountTasks) |-> mark(mountTasks[i])]
  BY <1>2 DEF Marked
<1>4. ASSUME NEW k \in Tasks
      PROVE  /\ mark(k) \in Tasks /\ mark(k).op = k.op
             /\ mark(k).op = "command" /\ ~mark(k).deleted => k = mark(k) /\ ~lost(k)
  <2>1. CASE lost(k)
    <3>1. k \in [op : {"command"}, tag : ViewTags, deleted : BOOLEAN]
      BY <2>1 DEF Tasks
    <3>2. mark(k) = [k EXCEPT !.deleted = TRUE]
      BY <2>1
    <3> HIDE DEF mark, lost
    <3>3. mark(k) \in [op : {"command"}, tag : ViewTags, deleted : BOOLEAN]
      BY <3>1, <3>2
    <3>4. mark(k).op = k.op /\ mark(k).deleted = TRUE
      BY <3>1, <3>2
    <3> QED BY <3>3, <3>4 DEF Tasks
  <2>2. CASE ~lost(k)
    BY <2>2
  <2> QED BY <2>1, <2>2
<1> HIDE DEF mark
<1>5. \A i \in 1..Len(mountTasks) : mountTasks[i] \in Tasks
  BY <1>1
<1>6. Marked \in [1..Len(mountTasks) -> Tasks]
  BY <1>3, <1>4, <1>5
<1>7. Marked \in Seq(Tasks) /\ Len(Marked) = Len(mountTasks)
  BY <1>1, <1>6, IsASeq
<1> QED BY <1>1, <1>3, <1>4, <1>5, <1>7

-----------------------------------------------------------------------------
(* Every step keeps the invariant.                                                         *)

\* At first nothing is under way.
LEMMA MountingStarts == MountingInit => MountingInv
<1> SUFFICES ASSUME MountingInit PROVE MountingInv
  OBVIOUS
<1>1. /\ react = Tree0 /\ building = <<>> /\ pending = <<>> /\ flushScheduled = FALSE
      /\ mountTasks = <<>> /\ batch = <<>> /\ registry = Mirror(Tree0) /\ registered = TRUE
  BY DEF MountingInit
<1>2. "views" \in DOMAIN react /\ react.views = {1, 2} /\ {1, 2} \in SUBSET ViewTags
  BY <1>1, MountingBounds DEF Tree0, ViewTags
<1>3. DOMAIN registry = Fields /\ registry.removed = <<>> /\ registry.views = {1, 2}
  BY <1>1 DEF Mirror, Tree0, Fields
<1>4. MountingTypeOK
  <2>1. Transactions(batch) /\ Transactions(pending)
    BY <1>1, NoTransactions
  <2>2. building \in Seq(Mutations) /\ mountTasks \in Seq(Tasks)
    BY <1>1
  <2>3. flushScheduled \in BOOLEAN /\ registered \in BOOLEAN
    BY <1>1
  <2>4. registry.removed \in Seq(Parents \X ViewTags)
    BY <1>3
  <2> QED BY <1>2, <1>3, <2>1, <2>2, <2>3, <2>4 DEF MountingTypeOK
<1>5. Scripted(batch) = <<>> /\ Scripted(pending) = <<>> /\ <<>> \in Scripts /\ <<>> \o <<>> = <<>>
  BY <1>1, NoTransactions DEF Scripts
<1>6. Ahead(registry.views, Scripted(batch), Scripted(pending), building, react.views)
  <2> SUFFICES ASSUME NEW t \in {1, 2} PROVE Alive({1, 2}, Append(<<>>, <<>>), t)
    BY <1>1, <1>2, <1>3, <1>5 DEF Ahead
  <2>1. Alive({1, 2}, <<>>, t)
    BY AliveNow
  <2> QED BY <1>5, <2>1, AliveStill
<1>7. AllReach(mountTasks, registry.views, Scripted(batch), Scripted(pending))
  BY <1>1 DEF AllReach
<1> QED BY <1>1, <1>4, <1>6, <1>7 DEF MountingInv, FlushComes

\* React adds a mutation.
LEMMA DiffKeeps == MountingInv /\ Diff => MountingInv'
<1> SUFFICES ASSUME MountingInv, Diff PROVE MountingInv'
  OBVIOUS
<1> USE DEF MountingInv
<1>1. PICK m \in Mutations : react' = Diffed(react, m) /\ building' = Append(building, m)
  BY DEF Diff
<1>2. UNCHANGED <<commits, pending, flushScheduled, mountTasks, batch, registry, mounted, found, registered>>
  BY DEF Diff
<1>3. m.tag \in ViewTags /\ m.op \in {"create", "delete", "insert", "remove"}
  BY MutationFields
<1>4. "views" \in DOMAIN react' /\ react'.views = Applied(react.views, m)
  <2>1. "views" \in DOMAIN react
    BY DEF MountingTypeOK
  <2> QED BY <1>1, <1>3, <2>1 DEF Diffed, Applied
<1>5. react'.views \in SUBSET ViewTags
  BY <1>3, <1>4 DEF Applied, MountingTypeOK
<1>6. MountingTypeOK'
  <2>1. building' \in Seq(Mutations)
    BY <1>1 DEF MountingTypeOK
  <2> QED BY <1>2, <1>4, <1>5, <2>1 DEF MountingTypeOK
<1>7. ASSUME registered
      PROVE  Ahead(registry.views, Scripted(batch), Scripted(pending), building', react'.views)
  <2>1. Scripted(batch) \in Scripts /\ Scripted(pending) \in Scripts /\ building \in Seq(Mutations)
    BY ScriptsType DEF MountingTypeOK
  <2>2. PICK L : L = Scripted(batch) \o Scripted(pending)
    OBVIOUS
  <2>3. L \in Scripts
    BY <2>1, <2>2, Concatenated
  <2>4. \A t \in react.views : Alive(registry.views, Append(L, building), t)
    BY <1>7, <2>2 DEF Ahead
  <2>5. ASSUME NEW t \in react'.views PROVE Alive(registry.views, Append(L, building'), t)
    <3>1. (t \in react.views /\ ~(m.op = "delete" /\ m.tag = t)) \/ (m.op = "create" /\ m.tag = t)
      BY <1>4, <2>5 DEF Applied
    <3> QED BY <1>1, <2>1, <2>3, <2>4, <3>1, AliveNext
  <2> QED BY <2>2, <2>5 DEF Ahead
<1> QED BY <1>2, <1>6, <1>7 DEF FlushComes

\* React commits.
LEMMA CommitKeeps == MountingInv /\ Commit => MountingInv'
<1> SUFFICES ASSUME MountingInv, Commit PROVE MountingInv'
  OBVIOUS
<1> USE DEF MountingInv
<1>1. /\ pending' = Append(pending, [list |-> building, tree |-> react]) /\ building' = <<>>
      /\ mountTasks' = (IF flushScheduled THEN Marked ELSE Append(Marked, [op |-> "flush"]))
      /\ flushScheduled' = TRUE
      /\ UNCHANGED <<react, mutations, batch, registry, mounted, found, registered>>
  BY DEF Commit, ExecuteMount
<1>2. building \in Seq(Mutations) /\ Transactions(pending) /\ Transactions(batch) /\ mountTasks \in Seq(Tasks)
  BY DEF MountingTypeOK
<1>3. Transactions(pending') /\ Scripted(pending') = Append(Scripted(pending), building)
  <2>1. PICK x : x = [list |-> building, tree |-> react]
    OBVIOUS
  <2>2. x.list = building /\ "list" \in DOMAIN x
    BY <2>1
  <2> QED BY <1>1, <1>2, <2>1, <2>2, OneMoreTransaction
<1>4. Scripted(batch) \in Scripts /\ Scripted(pending) \in Scripts
  BY <1>2, ScriptsType
<1>5. PICK B, P, V : B = Scripted(batch) /\ P = Scripted(pending) /\ V = registry.views
  OBVIOUS
<1>6. /\ B \o P \in Scripts /\ Append(P, building) \in Scripts
      /\ B \o Append(P, building) = Append(B \o P, building)
  BY <1>2, <1>4, <1>5, Concatenated
<1>7. PICK q : q = Marked
  OBVIOUS
<1>8. /\ q \in Seq(Tasks) /\ Len(q) = Len(mountTasks) /\ Len(q) \in Nat
      /\ \A i \in 1..Len(mountTasks) :
           /\ q[i].op = mountTasks[i].op
           /\ q[i].op = "command" /\ ~q[i].deleted =>
                /\ q[i].tag = mountTasks[i].tag /\ ~mountTasks[i].deleted
                /\ \A j \in 1..Len(building) : ~(building[j].op = "delete" /\ building[j].tag = mountTasks[i].tag)
  BY <1>7, MarkedTasks
<1>9. PICK k : k = [op |-> "flush"]
  OBVIOUS
<1>10. k \in Tasks /\ k.op = "flush"
  BY <1>9 DEF Tasks
<1>11. mountTasks' = (IF flushScheduled THEN q ELSE Append(q, k))
  BY <1>1, <1>7, <1>9
<1>12. mountTasks' \in Seq(Tasks)
  BY <1>8, <1>10, <1>11
<1>13. MountingTypeOK'
  <2>1. building' \in Seq(Mutations) /\ flushScheduled' \in BOOLEAN
    BY <1>1
  <2> QED BY <1>1, <1>3, <1>12, <2>1 DEF MountingTypeOK
<1>14. FlushComes'
  <2>1. CASE flushScheduled
    <3>1. PICK i \in 1..Len(mountTasks) : mountTasks[i].op = "flush"
      BY <2>1 DEF FlushComes
    <3>2. mountTasks' = q /\ i \in 1..Len(q) /\ q[i].op = "flush"
      BY <1>8, <1>11, <2>1, <3>1
    <3> QED BY <1>1, <3>2 DEF FlushComes
  <2>2. CASE ~flushScheduled
    <3>1. mountTasks' = Append(q, k) /\ Len(Append(q, k)) = Len(q) + 1 /\ Append(q, k)[Len(q) + 1] = k
      BY <1>8, <1>10, <1>11, <2>2
    <3>2. Len(q) + 1 \in 1..Len(mountTasks') /\ mountTasks'[Len(q) + 1].op = "flush"
      BY <1>8, <1>10, <3>1
    <3> QED BY <1>1, <3>2 DEF FlushComes
  <2> QED BY <2>1, <2>2
<1>15. ASSUME registered
       PROVE  /\ Ahead(V, B, Append(P, building), <<>>, react.views)
              /\ AllReach(mountTasks', V, B, Append(P, building))
  <2>1. Ahead(V, B, P, building, react.views) /\ AllReach(mountTasks, V, B, P)
    BY <1>5, <1>15
  <2>2. ASSUME NEW t \in react.views PROVE Alive(V, Append(B \o Append(P, building), <<>>), t)
    <3>1. Alive(V, B \o Append(P, building), t)
      BY <1>6, <2>1 DEF Ahead
    <3>2. B \o Append(P, building) \in Scripts
      BY <1>2, <1>6 DEF Scripts
    <3> QED BY <3>1, <3>2, AliveStill
  <2>3. ASSUME NEW i \in 1..Len(q) PROVE Reaches(q, i, V, B, Append(P, building))
    <3> SUFFICES ASSUME q[i].op = "command", ~q[i].deleted
                 PROVE  /\ Alive(V, B \o Append(P, building), q[i].tag)
                        /\ (\A j \in 1..(i - 1) : q[j].op # "flush") => Alive(V, B, q[i].tag)
      BY DEF Reaches
    <3>1. Reaches(mountTasks, i, V, B, P)
      BY <1>8, <2>1 DEF AllReach
    <3>2. mountTasks[i].op = "command" /\ ~mountTasks[i].deleted /\ q[i].tag = mountTasks[i].tag
      BY <1>8
    <3>3. Alive(V, B \o P, q[i].tag)
      BY <3>1, <3>2 DEF Reaches
    <3>4. \A j \in 1..Len(building) : ~(building[j].op = "delete" /\ building[j].tag = q[i].tag)
      BY <1>8
    <3>5. Alive(V, B \o Append(P, building), q[i].tag)
      BY <1>2, <1>6, <3>3, <3>4, AliveBehind
    <3>6. \A j \in 1..(i - 1) : q[j].op = mountTasks[j].op
      BY <1>8
    <3> QED BY <3>1, <3>2, <3>5, <3>6 DEF Reaches
  <2>4. AllReach(q, V, B, Append(P, building))
    BY <2>3 DEF AllReach
  <2>5. AllReach(Append(q, k), V, B, Append(P, building))
    BY <1>8, <1>10, <2>4, TaskIsAdded
  <2> QED BY <1>11, <2>2, <2>4, <2>5 DEF Ahead
<1> QED BY <1>1, <1>3, <1>5, <1>13, <1>14, <1>15

\* JavaScript sends a command.
LEMMA DispatchKeeps == MountingInv /\ DispatchCommand => MountingInv'
<1> SUFFICES ASSUME MountingInv, DispatchCommand PROVE MountingInv'
  OBVIOUS
<1> USE DEF MountingInv
<1>1. PICK t \in react.views :
        mountTasks' = Append(mountTasks, [op |-> "command", tag |-> t, deleted |-> FALSE])
  BY DEF DispatchCommand
<1>2. /\ building = <<>>
      /\ UNCHANGED <<react, building, mutations, commits, pending, flushScheduled, batch, registry, mounted, registered>>
  BY DEF DispatchCommand
<1>3. PICK k : k = [op |-> "command", tag |-> t, deleted |-> FALSE]
  OBVIOUS
<1>4. k \in Tasks /\ k.op = "command" /\ k.tag = t
  BY <1>3 DEF Tasks, MountingTypeOK
<1>5. mountTasks \in Seq(Tasks) /\ mountTasks' = Append(mountTasks, k)
  BY <1>1, <1>3 DEF MountingTypeOK
<1>6. mountTasks' \in Seq(Tasks)
  BY <1>4, <1>5
<1>7. MountingTypeOK'
  BY <1>2, <1>6 DEF MountingTypeOK
<1>8. FlushComes'
  <2>1. /\ Len(mountTasks') = Len(mountTasks) + 1 /\ Len(mountTasks) \in Nat
        /\ \A i \in 1..Len(mountTasks) : mountTasks'[i] = mountTasks[i]
    BY <1>4, <1>5
  <2>2. \A i \in 1..Len(mountTasks) : i \in 1..Len(mountTasks')
    BY <2>1
  <2> QED BY <1>2, <2>1, <2>2 DEF FlushComes
<1>9. ASSUME registered PROVE AllReach(mountTasks', registry.views, Scripted(batch), Scripted(pending))
  <2>1. PICK B, P, V : B = Scripted(batch) /\ P = Scripted(pending) /\ V = registry.views
    OBVIOUS
  <2>2. B \in Scripts /\ P \in Scripts
    BY <2>1, ScriptsType DEF MountingTypeOK
  <2>3. B \o P \in Scripts /\ B \o <<>> = B
    BY <2>2 DEF Scripts
  <2>4. Alive(V, B \o P, t)
    BY <1>2, <1>9, <2>1, <2>3, AliveBefore DEF Ahead
  <2>5. (\A j \in 1..Len(mountTasks) : mountTasks[j].op # "flush") => Alive(V, B, t)
    <3> SUFFICES ASSUME \A j \in 1..Len(mountTasks) : mountTasks[j].op # "flush" PROVE Alive(V, B, t)
      OBVIOUS
    <3>1. pending = <<>>
      BY DEF FlushComes
    <3> QED BY <2>1, <2>3, <2>4, <3>1, NoTransactions
  <2> QED BY <1>4, <1>5, <1>9, <2>1, <2>4, <2>5, TaskIsAdded
<1> QED BY <1>2, <1>7, <1>8, <1>9

\* A flush takes what is pending.
LEMMA TakeKeeps == MountingInv /\ TakePending => MountingInv'
<1> SUFFICES ASSUME MountingInv, TakePending PROVE MountingInv'
  OBVIOUS
<1> USE DEF MountingInv
<1>1. /\ batch = <<>> /\ mountTasks # <<>> /\ Head(mountTasks).op = "flush"
      /\ mountTasks' = Tail(mountTasks) /\ batch' = pending /\ pending' = <<>> /\ flushScheduled' = FALSE
      /\ UNCHANGED <<react, building, mutations, commits, registry, mounted, found, registered>>
  BY DEF TakePending
<1>2. PICK P, V : P = Scripted(pending) /\ V = registry.views
  OBVIOUS
<1>3. P \in Scripts /\ Scripted(batch) = <<>> /\ Scripted(batch') = P /\ Scripted(pending') = <<>>
  BY <1>1, <1>2, ScriptsType, NoTransactions DEF MountingTypeOK
<1>4. mountTasks \in Seq(Tasks) /\ mountTasks' \in Seq(Tasks)
  BY <1>1 DEF MountingTypeOK
<1>5. MountingTypeOK'
  BY <1>1, <1>4, NoTransactions DEF MountingTypeOK
<1>6. <<>> \o P = P /\ P \o <<>> = P
  BY <1>3 DEF Scripts
<1>7. ASSUME registered
      PROVE  /\ Ahead(V, P, <<>>, building, react.views)
             /\ AllReach(mountTasks', V, P, <<>>)
  <2>1. Ahead(V, <<>>, P, building, react.views) /\ AllReach(mountTasks, V, <<>>, P)
    BY <1>2, <1>3, <1>7
  <2>2. Ahead(V, P, <<>>, building, react.views)
    BY <1>6, <2>1 DEF Ahead
  <2> QED BY <1>1, <1>3, <1>4, <2>1, <2>2, FlushIsTaken
<1> QED BY <1>1, <1>2, <1>3, <1>5, <1>7 DEF FlushComes

\* A flush applies a mutation.
LEMMA ApplyKeeps == MountingInv /\ ApplyMutation => MountingInv'
<1> SUFFICES ASSUME MountingInv, ApplyMutation PROVE MountingInv'
  OBVIOUS
<1> USE DEF MountingInv
<1>1. /\ batch # <<>> /\ registered /\ Current.list # <<>>
      /\ registry' = Mutated(registry, Head(Current.list))
      /\ batch' = <<[Current EXCEPT !.list = Tail(@)]>> \o Later
      /\ UNCHANGED <<react, building, mutations, commits, pending, flushScheduled, mountTasks, mounted, found, registered>>
  BY DEF ApplyMutation
<1>2. PICK B, P, V, x : B = Scripted(batch) /\ P = Scripted(pending) /\ V = registry.views /\ x = Current
  OBVIOUS
<1>3. B \in Scripts /\ P \in Scripts /\ B # <<>> /\ building \in Seq(Mutations)
  BY <1>1, <1>2, ScriptsType, TransactionLeaves DEF MountingTypeOK
<1>4. /\ IsTransaction(x) /\ x.list = B[1] /\ Transactions(Later) /\ Scripted(Later) = Tail(B)
  BY <1>1, <1>2, TransactionLeaves DEF MountingTypeOK, Current, Later
<1>5. B[1] # <<>> /\ B[1] \in Seq(Mutations) /\ Head(B[1]) = B[1][1] /\ Head(B[1]) \in Mutations
  BY <1>1, <1>2, <1>4 DEF IsTransaction
<1>6. PICK y : y = [x EXCEPT !.list = Tail(@)]
  OBVIOUS
<1>7. "list" \in DOMAIN y /\ y.list = Tail(B[1]) /\ Tail(B[1]) \in Seq(Mutations)
  BY <1>4, <1>5, <1>6 DEF IsTransaction
<1>8. Transactions(batch') /\ Scripted(batch') = <<Tail(B[1])>> \o Tail(B)
  BY <1>1, <1>2, <1>4, <1>6, <1>7, TransactionChanges
<1>9. PICK m \in Mutations : m = B[1][1]
  BY <1>5
<1>10. /\ DOMAIN registry' = Fields /\ registry'.views = Applied(V, m)
       /\ registry'.removed \in Seq(Parents \X ViewTags)
  <2>1. registry' = Mutated(registry, m)
    BY <1>1, <1>2, <1>4, <1>5, <1>9
  <2> QED BY <1>2, <2>1, MutatedViews DEF MountingTypeOK
<1>11. MountingTypeOK'
  BY <1>1, <1>8, <1>10 DEF MountingTypeOK
<1>12. PICK A : A = <<Tail(B[1])>> \o Tail(B)
  OBVIOUS
<1>13. ASSUME NEW Q \in Scripts, NEW t, Alive(V, B \o Q, t) PROVE Alive(Applied(V, m), A \o Q, t)
  BY <1>3, <1>5, <1>9, <1>12, <1>13, BatchApplied
<1>14. Ahead(Applied(V, m), A, P, building, react.views)
  <2>1. Ahead(V, B, P, building, react.views)
    BY <1>1, <1>2
  <2>2. Append(P, building) \in Scripts /\ B \o Append(P, building) = Append(B \o P, building)
    BY <1>3, Concatenated
  <2>3. A \in Scripts
    BY <1>3, <1>7, <1>12 DEF Scripts
  <2>4. A \o Append(P, building) = Append(A \o P, building)
    BY <1>3, <2>3, Concatenated
  <2> QED BY <1>13, <2>1, <2>2, <2>4 DEF Ahead
<1>15. AllReach(mountTasks, Applied(V, m), A, P)
  <2>1. AllReach(mountTasks, V, B, P) /\ mountTasks \in Seq(Tasks)
    BY <1>1, <1>2 DEF MountingTypeOK
  <2>2. \A t \in ViewTags : Alive(V, B \o P, t) => Alive(Applied(V, m), A \o P, t)
    BY <1>3, <1>13
  <2>3. <<>> \in Scripts /\ B \o <<>> = B /\ A \o <<>> = A
    BY <1>3, <1>7, <1>12 DEF Scripts
  <2>4. \A t \in ViewTags : Alive(V, B, t) => Alive(Applied(V, m), A, t)
    BY <1>13, <2>3
  <2> QED BY <2>1, <2>2, <2>4, TasksLookOn
<1>16. FlushComes'
  BY <1>1 DEF FlushComes
<1> QED BY <1>1, <1>2, <1>8, <1>10, <1>11, <1>12, <1>14, <1>15, <1>16

\* A transaction ends, or is dropped with its surface.
LEMMA EndKeeps == MountingInv /\ EndTransaction => MountingInv'
<1> SUFFICES ASSUME MountingInv, EndTransaction PROVE MountingInv'
  OBVIOUS
<1> USE DEF MountingInv
<1>1. /\ batch # <<>> /\ (registered => Current.list = <<>>) /\ batch' = Later
      /\ registry' = (IF ~registered THEN registry ELSE [AllFinished(registry) EXCEPT !.removed = <<>>])
      /\ UNCHANGED <<react, building, mutations, commits, pending, flushScheduled, mountTasks, found, registered>>
  BY DEF EndTransaction, AllFinished
<1>2. PICK B, P, V : B = Scripted(batch) /\ P = Scripted(pending) /\ V = registry.views
  OBVIOUS
<1>3. B \in Scripts /\ P \in Scripts /\ B # <<>> /\ building \in Seq(Mutations)
  BY <1>1, <1>2, ScriptsType, TransactionLeaves DEF MountingTypeOK
<1>4. /\ Current.list = B[1] /\ Transactions(batch') /\ Scripted(batch') = Tail(B)
  BY <1>1, <1>2, TransactionLeaves DEF MountingTypeOK, Current, Later
<1>5. DOMAIN registry' = Fields /\ registry'.views = V /\ registry'.removed \in Seq(Parents \X ViewTags)
  BY <1>1, <1>2, EndKeepsViews DEF MountingTypeOK
<1>6. MountingTypeOK'
  BY <1>1, <1>4, <1>5 DEF MountingTypeOK
<1>7. FlushComes'
  BY <1>1 DEF FlushComes
<1>8. ASSUME registered PROVE Ahead(V, Tail(B), P, building, react.views) /\ AllReach(mountTasks, V, Tail(B), P)
  <2>1. B[1] = <<>>
    BY <1>1, <1>4, <1>8
  <2>2. ASSUME NEW Q \in Scripts, NEW t, Alive(V, B \o Q, t) PROVE Alive(V, Tail(B) \o Q, t)
    BY <1>3, <2>1, <2>2, BatchEnded
  <2>3. Ahead(V, B, P, building, react.views) /\ AllReach(mountTasks, V, B, P) /\ mountTasks \in Seq(Tasks)
    BY <1>2, <1>8 DEF MountingTypeOK
  <2>4. Append(P, building) \in Scripts /\ B \o Append(P, building) = Append(B \o P, building)
    BY <1>3, Concatenated
  <2>5. Tail(B) \in Scripts
    BY <1>3, ConcatenatedFirst
  <2>6. Tail(B) \o Append(P, building) = Append(Tail(B) \o P, building)
    BY <1>3, <2>5, Concatenated
  <2>7. Ahead(V, Tail(B), P, building, react.views)
    BY <2>2, <2>3, <2>4, <2>6 DEF Ahead
  <2>8. <<>> \in Scripts /\ B \o <<>> = B /\ Tail(B) \o <<>> = Tail(B)
    BY <1>3, <2>5 DEF Scripts
  <2>9. \A t \in ViewTags : Alive(V, B \o P, t) => Alive(V, Tail(B) \o P, t)
    BY <1>3, <2>2
  <2>10. \A t \in ViewTags : Alive(V, B, t) => Alive(V, Tail(B), t)
    BY <2>2, <2>8
  <2> QED BY <2>3, <2>7, <2>9, <2>10, TasksLookOn
<1> QED BY <1>1, <1>2, <1>4, <1>5, <1>6, <1>7, <1>8

\* A command runs.
LEMMA RunKeeps == MountingInv /\ RunCommand => MountingInv'
<1> SUFFICES ASSUME MountingInv, RunCommand PROVE MountingInv'
  OBVIOUS
<1> USE DEF MountingInv
<1>1. /\ mountTasks # <<>> /\ Head(mountTasks).op = "command" /\ mountTasks' = Tail(mountTasks)
      /\ UNCHANGED <<react, building, mutations, commits, pending, flushScheduled, batch, registry, mounted, registered>>
  BY DEF RunCommand
<1>2. mountTasks \in Seq(Tasks) /\ mountTasks' \in Seq(Tasks)
  BY <1>1 DEF MountingTypeOK
<1>3. MountingTypeOK'
  BY <1>1, <1>2 DEF MountingTypeOK
<1>4. FlushComes'
  <2> SUFFICES ASSUME flushScheduled PROVE \E i \in 1..Len(mountTasks') : mountTasks'[i].op = "flush"
    BY <1>1 DEF FlushComes
  <2>1. PICK i \in 1..Len(mountTasks) : mountTasks[i].op = "flush"
    BY DEF FlushComes
  <2>2. i # 1 /\ Len(mountTasks') = Len(mountTasks) - 1
        /\ \A j \in 1..Len(mountTasks') : mountTasks'[j] = mountTasks[j + 1]
    BY <1>1, <1>2, <2>1
  <2>3. i - 1 \in 1..Len(mountTasks') /\ (i - 1) + 1 = i
    BY <1>2, <2>1, <2>2
  <2> QED BY <2>1, <2>2, <2>3
<1>5. ASSUME registered PROVE AllReach(mountTasks', registry.views, Scripted(batch), Scripted(pending))
  BY <1>1, <1>2, <1>5, TasksGoOn
<1> QED BY <1>1, <1>3, <1>4, <1>5

\* The surface stops.
LEMMA StopKeeps == MountingInv /\ StopSurface => MountingInv'
<1> SUFFICES ASSUME MountingInv, StopSurface PROVE MountingInv'
  OBVIOUS
<1> USE DEF MountingInv
<1>1. /\ registered' = FALSE /\ registry' = Mirror(NoTree)
      /\ UNCHANGED <<react, building, mutations, commits, pending, flushScheduled, mountTasks, batch, found>>
  BY DEF StopSurface
<1>2. DOMAIN registry' = Fields /\ registry'.removed \in Seq(Parents \X ViewTags)
  BY <1>1 DEF Mirror, Fields
<1>3. MountingTypeOK'
  BY <1>1, <1>2 DEF MountingTypeOK
<1> QED BY <1>1, <1>3 DEF FlushComes

\* What React shows is there when it has caught up, always.
LEMMA MountingSound == MountingSpec => []MountingInv
<1>1. MountingInv /\ [MountingNext]_mountingVars => MountingInv'
  <2> SUFFICES ASSUME MountingInv, [MountingNext]_mountingVars PROVE MountingInv'
    OBVIOUS
  <2>1. CASE MountingNext
    BY <2>1, DiffKeeps, CommitKeeps, DispatchKeeps, TakeKeeps, ApplyKeeps, EndKeeps, RunKeeps, StopKeeps
       DEF MountingNext, Drained
  <2>2. CASE UNCHANGED mountingVars
    BY <2>2 DEF mountingVars, MountingInv, MountingTypeOK, FlushComes
  <2> QED BY <2>1, <2>2
<1> QED BY <1>1, MountingStarts, PTL DEF MountingSpec

(* A command that React dispatched to a view it had committed reaches it, unless the surface *)
(* stopped or a transaction that it committed later deletes the view: dispatchCommand() and  *)
(* executeMount() post in order, and a flush leaves nothing that was pending behind.         *)
THEOREM CommandsAlwaysFindTheirViews == MountingSpec => CommandFindsItsView
<1>1. ASSUME MountingInv, RunCommand, registered, ~Head(mountTasks).deleted PROVE found'
  <2>1. /\ batch = <<>> /\ mountTasks # <<>> /\ Head(mountTasks).op = "command"
        /\ found' = (registered /\ Head(mountTasks).tag \in registry.views)
    BY <1>1 DEF RunCommand
  <2>2. mountTasks \in Seq(Tasks)
    BY <1>1 DEF MountingInv, MountingTypeOK
  <2>3. 1 \in 1..Len(mountTasks) /\ Head(mountTasks) = mountTasks[1]
    BY <2>1, <2>2
  <2>4. Reaches(mountTasks, 1, registry.views, <<>>, Scripted(pending))
    BY <1>1, <2>1, <2>3, NoTransactions DEF MountingInv, AllReach
  <2>5. Alive(registry.views, <<>>, Head(mountTasks).tag)
    BY <1>1, <2>1, <2>3, <2>4 DEF Reaches
  <2> QED BY <1>1, <2>1, <2>5, AliveNow
<1>2. MountingInv /\ [MountingNext]_mountingVars
        => [RunCommand /\ registered /\ ~Head(mountTasks).deleted => found']_mountingVars
  BY <1>1
<1> QED BY <1>2, MountingSound, PTL DEF MountingSpec, CommandFindsItsView

-----------------------------------------------------------------------------
(* Lists of children, in which nobody is twice: who is in them, and who comes before whom.   *)

Distinct(s) == \A i, j \in 1..Len(s) : s[i] = s[j] => i = j
Before(s, x, y) == \E i, j \in 1..Len(s) : i < j /\ s[i] = x /\ s[j] = y

\* Who is in a list has a place in it.
LEMMA Found ==
  ASSUME NEW S, NEW s \in Seq(S), NEW x
  PROVE  x \in Range(s) <=> \E i \in 1..Len(s) : s[i] = x
<1>1. DOMAIN s = 1..Len(s)
  OBVIOUS
<1> QED BY <1>1 DEF Range

\* One more.
LEMMA Inserted ==
  ASSUME NEW S, NEW s \in Seq(S), NEW i \in 1..(Len(s) + 1), NEW t \in S
  PROVE  /\ InsertAt(s, i, t) \in Seq(S) /\ Len(InsertAt(s, i, t)) = Len(s) + 1
         /\ InsertAt(s, i, t)[i] = t
         /\ \A j \in 1..(i - 1) : InsertAt(s, i, t)[j] = s[j]
         /\ \A j \in i..Len(s) : InsertAt(s, i, t)[j + 1] = s[j]
<1>1. PICK a, b, c : a = SubSeq(s, 1, i - 1) /\ b = <<t>> /\ c = SubSeq(s, i, Len(s))
  OBVIOUS
<1>2. Len(s) \in Nat /\ i \in Nat /\ \A j \in 1..Len(s) : s[j] \in S
  OBVIOUS
<1>3. a \in Seq(S) /\ Len(a) = i - 1 /\ \A j \in 1..(i - 1) : a[j] = s[j]
  <2>1. \A j \in 1..(i - 1) : s[j] \in S
    BY <1>2
  <2>2. /\ a \in Seq(S) /\ Len(a) = (IF 1 <= i - 1 THEN (i - 1) - 1 + 1 ELSE 0)
        /\ \A j \in 1..((i - 1) - 1 + 1) : a[j] = s[1 + j - 1]
    BY <1>1, <1>2, <2>1, SubSeqProperties
  <2> QED BY <1>2, <2>2
<1>4. c \in Seq(S) /\ Len(c) = Len(s) - i + 1 /\ \A j \in 1..(Len(s) - i + 1) : c[j] = s[i + j - 1]
  <2>1. \A j \in i..Len(s) : s[j] \in S
    BY <1>2
  <2>2. /\ c \in Seq(S) /\ Len(c) = (IF i <= Len(s) THEN Len(s) - i + 1 ELSE 0)
        /\ \A j \in 1..(Len(s) - i + 1) : c[j] = s[i + j - 1]
    BY <1>1, <1>2, <2>1, SubSeqProperties
  <2> QED BY <1>2, <2>2
<1>5. b \in Seq(S) /\ Len(b) = 1 /\ b[1] = t
  BY <1>1
<1>6. PICK d : d = a \o b
  OBVIOUS
<1>7. d \in Seq(S) /\ Len(d) = i /\ d[i] = t /\ \A j \in 1..(i - 1) : d[j] = s[j]
  <2>1. /\ d \in Seq(S) /\ Len(d) = Len(a) + Len(b)
        /\ \A j \in 1..(Len(a) + Len(b)) : d[j] = IF j <= Len(a) THEN a[j] ELSE b[j - Len(a)]
    BY <1>3, <1>5, <1>6, ConcatProperties
  <2>2. Len(d) = i /\ Len(a) = i - 1 /\ \A j \in 1..i : d[j] = IF j <= i - 1 THEN a[j] ELSE b[j - (i - 1)]
    BY <1>2, <1>3, <1>5, <2>1
  <2>3. d[i] = b[1]
    BY <1>2, <2>2
  <2>4. \A j \in 1..(i - 1) : d[j] = s[j]
    BY <1>2, <1>3, <2>2
  <2> QED BY <1>5, <2>1, <2>2, <2>3, <2>4
<1>8. PICK n : n = d \o c
  OBVIOUS
<1>9. InsertAt(s, i, t) = n
  BY <1>1, <1>6, <1>8 DEF InsertAt
<1>10. /\ n \in Seq(S) /\ Len(n) = Len(d) + Len(c)
       /\ \A j \in 1..(Len(d) + Len(c)) : n[j] = IF j <= Len(d) THEN d[j] ELSE c[j - Len(d)]
  BY <1>4, <1>7, <1>8, ConcatProperties
<1>11. n \in Seq(S) /\ Len(n) = Len(s) + 1 /\ n[i] = t /\ \A j \in 1..(i - 1) : n[j] = s[j]
  <2>1. Len(d) + Len(c) = Len(s) + 1
    BY <1>2, <1>4, <1>7
  <2>2. \A j \in 1..i : j \in 1..(Len(s) + 1) /\ j <= Len(d)
    BY <1>2, <1>7
  <2>3. \A j \in 1..i : n[j] = d[j]
    BY <1>10, <2>1, <2>2
  <2>4. i \in 1..i /\ \A j \in 1..(i - 1) : j \in 1..i
    BY <1>2
  <2> QED BY <1>7, <1>10, <2>1, <2>3, <2>4
<1>12. ASSUME NEW j \in i..Len(s) PROVE n[j + 1] = s[j]
  <2>1. j + 1 \in 1..(Len(d) + Len(c)) /\ ~(j + 1 <= Len(d)) /\ j + 1 - Len(d) \in 1..(Len(s) - i + 1)
    BY <1>2, <1>4, <1>7
  <2>2. n[j + 1] = c[j + 1 - Len(d)] /\ c[j + 1 - Len(d)] = s[i + (j + 1 - Len(d)) - 1]
    BY <1>4, <1>10, <2>1
  <2>3. i + (j + 1 - Len(d)) - 1 = j
    BY <1>2, <1>7
  <2> QED BY <2>2, <2>3
<1> QED BY <1>9, <1>11, <1>12

\* One less.
LEMMA TakenOut ==
  ASSUME NEW S, NEW s \in Seq(S), NEW i \in 1..Len(s)
  PROVE  /\ RemoveAt(s, i) \in Seq(S) /\ Len(RemoveAt(s, i)) = Len(s) - 1
         /\ \A j \in 1..(i - 1) : RemoveAt(s, i)[j] = s[j]
         /\ \A j \in (i + 1)..Len(s) : RemoveAt(s, i)[j - 1] = s[j]
<1>1. PICK a, c : a = SubSeq(s, 1, i - 1) /\ c = SubSeq(s, i + 1, Len(s))
  OBVIOUS
<1>2. Len(s) \in Nat /\ i \in Nat /\ \A j \in 1..Len(s) : s[j] \in S
  OBVIOUS
<1>3. a \in Seq(S) /\ Len(a) = i - 1 /\ \A j \in 1..(i - 1) : a[j] = s[j]
  <2>1. \A j \in 1..(i - 1) : s[j] \in S
    BY <1>2
  <2>2. /\ a \in Seq(S) /\ Len(a) = (IF 1 <= i - 1 THEN (i - 1) - 1 + 1 ELSE 0)
        /\ \A j \in 1..((i - 1) - 1 + 1) : a[j] = s[1 + j - 1]
    BY <1>1, <1>2, <2>1, SubSeqProperties
  <2> QED BY <1>2, <2>2
<1>4. c \in Seq(S) /\ Len(c) = Len(s) - i /\ \A j \in 1..(Len(s) - i) : c[j] = s[i + j]
  <2>1. \A j \in (i + 1)..Len(s) : s[j] \in S
    BY <1>2
  <2>2. /\ c \in Seq(S) /\ Len(c) = (IF i + 1 <= Len(s) THEN Len(s) - (i + 1) + 1 ELSE 0)
        /\ \A j \in 1..(Len(s) - (i + 1) + 1) : c[j] = s[(i + 1) + j - 1]
    BY <1>1, <1>2, <2>1, SubSeqProperties
  <2> QED BY <1>2, <2>2
<1>5. PICK n : n = a \o c
  OBVIOUS
<1>6. RemoveAt(s, i) = n
  BY <1>1, <1>5 DEF RemoveAt
<1>7. /\ n \in Seq(S) /\ Len(n) = Len(a) + Len(c)
      /\ \A j \in 1..(Len(a) + Len(c)) : n[j] = IF j <= Len(a) THEN a[j] ELSE c[j - Len(a)]
  BY <1>3, <1>4, <1>5, ConcatProperties
<1>8. n \in Seq(S) /\ Len(n) = Len(s) - 1 /\ \A j \in 1..(i - 1) : n[j] = s[j]
  <2>1. Len(a) = i - 1 /\ Len(a) + Len(c) = Len(s) - 1
    BY <1>2, <1>3, <1>4
  <2>2. \A j \in 1..(i - 1) : j \in 1..(Len(s) - 1) /\ j <= i - 1
    BY <1>2
  <2>3. \A j \in 1..(i - 1) : n[j] = a[j]
    BY <1>7, <2>1, <2>2
  <2> QED BY <1>3, <1>7, <2>1, <2>3
<1>9. ASSUME NEW j \in (i + 1)..Len(s) PROVE n[j - 1] = s[j]
  <2>1. j - 1 \in 1..(Len(a) + Len(c)) /\ ~(j - 1 <= Len(a)) /\ j - 1 - Len(a) \in 1..(Len(s) - i)
    BY <1>2, <1>3, <1>4
  <2>2. n[j - 1] = c[j - 1 - Len(a)] /\ c[j - 1 - Len(a)] = s[i + (j - 1 - Len(a))]
    BY <1>4, <1>7, <2>1
  <2>3. i + (j - 1 - Len(a)) = j
    BY <1>2, <1>3
  <2> QED BY <2>2, <2>3
<1> QED BY <1>6, <1>8, <1>9

\* The first of those who are in the list once is the one.
LEMMA FirstIs ==
  ASSUME NEW S, NEW s \in Seq(S), Distinct(s), NEW t
  PROVE  /\ \A i \in 1..Len(s) : s[i] = t => RemoveFirst(s, t) = RemoveAt(s, i)
         /\ t \notin Range(s) => RemoveFirst(s, t) = s
<1>1. t \notin Range(s) => RemoveFirst(s, t) = s
  BY Found DEF RemoveFirst
<1>2. ASSUME NEW i \in 1..Len(s), s[i] = t PROVE RemoveFirst(s, t) = RemoveAt(s, i)
  <2> DEFINE I == {j \in 1..Len(s) : s[j] = t}
  <2>1. I = {i}
    BY <1>2 DEF Distinct
  <2>2. Min({i}) = i
    BY DEF Min
  <2>3. SelectInSeq(s, LAMBDA v : v = t) = IF I # {} THEN Min(I) ELSE 0
    BY DEF SelectInSeq
  <2>4. SelectInSeq(s, LAMBDA v : v = t) = i
    <3> HIDE DEF I
    <3> QED BY <2>1, <2>2, <2>3
  <2>5. RemoveFirst(s, t) = RemoveAt(s, SelectInSeq(s, LAMBDA v : v = t))
    BY <1>2 DEF RemoveFirst
  <2> QED BY <2>4, <2>5
<1> QED BY <1>1, <1>2

\* A removal takes one out and leaves the others in order.
LEMMA Removal ==
  ASSUME NEW S, NEW s \in Seq(S), Distinct(s), NEW t
  PROVE  LET n == RemoveFirst(s, t)
         IN  /\ n \in Seq(S) /\ Distinct(n) /\ Range(n) = Range(s) \ {t}
             /\ \A x, y : x # t /\ y # t => (Before(n, x, y) <=> Before(s, x, y))
<1>1. CASE t \notin Range(s)
  <2>1. RemoveFirst(s, t) = s
    BY <1>1, FirstIs
  <2> QED BY <1>1, <2>1
<1>2. CASE t \in Range(s)
  <2>1. PICK k \in 1..Len(s) : s[k] = t
    BY <1>2, Found
  <2>2. PICK n : n = RemoveFirst(s, t)
    OBVIOUS
  <2>3. /\ n \in Seq(S) /\ Len(n) = Len(s) - 1 /\ Len(s) \in Nat /\ k \in Nat
        /\ \A j \in 1..(k - 1) : n[j] = s[j]
        /\ \A j \in (k + 1)..Len(s) : n[j - 1] = s[j]
    <3>1. n = RemoveAt(s, k)
      BY <2>1, <2>2, FirstIs
    <3>2. Len(s) \in Nat /\ k \in Nat
      BY <2>1
    <3> QED BY <3>1, <3>2, TakenOut
  <2> DEFINE old(j) == IF j < k THEN j ELSE j + 1
             new(j) == IF j < k THEN j ELSE j - 1
  <2>4. ASSUME NEW j \in 1..Len(n) PROVE old(j) \in 1..Len(s) /\ old(j) # k /\ n[j] = s[old(j)]
    <3>1. CASE j < k
      <4>1. old(j) = j /\ j \in 1..(k - 1) /\ j \in 1..Len(s) /\ j # k
        BY <2>1, <2>3, <3>1
      <4> QED BY <2>3, <4>1
    <3>2. CASE ~(j < k)
      <4>1. old(j) = j + 1 /\ j + 1 \in (k + 1)..Len(s) /\ (j + 1) - 1 = j
        BY <2>1, <2>3, <3>2
      <4>2. j + 1 \in 1..Len(s) /\ j + 1 # k
        BY <2>1, <2>3, <4>1
      <4>3. n[j] = s[j + 1]
        BY <2>3, <4>1
      <4> HIDE DEF old
      <4> QED BY <4>1, <4>2, <4>3
    <3> QED BY <3>1, <3>2
  <2>5. ASSUME NEW j \in 1..Len(s), j # k PROVE new(j) \in 1..Len(n) /\ n[new(j)] = s[j]
    <3>1. CASE j < k
      BY <2>1, <2>3, <3>1
    <3>2. CASE ~(j < k)
      BY <2>1, <2>3, <2>5, <3>2
    <3> QED BY <3>1, <3>2
  <2>6. /\ \A i, j \in 1..Len(n) : i < j <=> old(i) < old(j)
        /\ \A i, j \in 1..Len(s) : i # k /\ j # k => (i < j <=> new(i) < new(j))
    BY <2>1, <2>3
  <2> HIDE DEF old, new
  <2>7. Distinct(n)
    <3> SUFFICES ASSUME NEW i \in 1..Len(n), NEW j \in 1..Len(n), n[i] = n[j] PROVE i = j
      BY DEF Distinct
    <3>1. old(i) = old(j)
      <4>1. old(i) \in 1..Len(s) /\ old(j) \in 1..Len(s) /\ s[old(i)] = s[old(j)]
        BY <2>4
      <4> QED BY <4>1 DEF Distinct
    <3>2. ~(i < j) /\ ~(j < i)
      BY <2>3, <2>4, <2>6, <3>1
    <3> QED BY <2>3, <3>2
  <2>8. \A j \in 1..Len(s) : s[j] = t => j = k
    BY <2>1 DEF Distinct
  <2>9. ASSUME NEW x PROVE x \in Range(n) <=> x \in Range(s) /\ x # t
    <3>1. x \in Range(n) <=> \E i \in 1..Len(n) : n[i] = x
      BY <2>3, Found
    <3>2. x \in Range(s) <=> \E i \in 1..Len(s) : s[i] = x
      BY Found
    <3> QED BY <2>1, <2>4, <2>5, <2>8, <3>1, <3>2
  <2>10. ASSUME NEW x, NEW y, x # t, y # t PROVE Before(n, x, y) <=> Before(s, x, y)
    <3>1. ASSUME Before(n, x, y) PROVE Before(s, x, y)
      <4>1. PICK i \in 1..Len(n), j \in 1..Len(n) : i < j /\ n[i] = x /\ n[j] = y
        BY <3>1 DEF Before
      <4> QED BY <2>4, <2>6, <4>1 DEF Before
    <3>2. ASSUME Before(s, x, y) PROVE Before(n, x, y)
      <4>1. PICK i \in 1..Len(s), j \in 1..Len(s) : i < j /\ s[i] = x /\ s[j] = y
        BY <3>2 DEF Before
      <4>2. i # k /\ j # k
        BY <2>1, <2>10, <4>1
      <4> QED BY <2>5, <2>6, <4>1, <4>2 DEF Before
    <3> QED BY <3>1, <3>2
  <2>11. Range(n) = Range(s) \ {t}
    BY <2>9
  <2> QED BY <2>2, <2>3, <2>7, <2>10, <2>11
<1> QED BY <1>1, <1>2

\* An insertion puts one in its place and leaves the others in order.
LEMMA Insertion ==
  ASSUME NEW S, NEW s \in Seq(S), Distinct(s), NEW i \in 1..(Len(s) + 1), NEW t \in S, t \notin Range(s)
  PROVE  LET n == InsertAt(s, i, t)
         IN  /\ n \in Seq(S) /\ Distinct(n) /\ Range(n) = Range(s) \cup {t}
             /\ \A x, y : x # t /\ y # t => (Before(n, x, y) <=> Before(s, x, y))
             /\ \A x : Before(n, x, t) <=> \E j \in 1..(i - 1) : s[j] = x
             /\ \A y : Before(n, t, y) <=> \E j \in i..Len(s) : s[j] = y
<1>1. PICK n : n = InsertAt(s, i, t)
  OBVIOUS
<1>2. /\ n \in Seq(S) /\ Len(n) = Len(s) + 1 /\ n[i] = t /\ Len(s) \in Nat /\ i \in Nat
      /\ \A j \in 1..(i - 1) : n[j] = s[j]
      /\ \A j \in i..Len(s) : n[j + 1] = s[j]
  BY <1>1, Inserted
<1> DEFINE new(j) == IF j < i THEN j ELSE j + 1
           old(j) == IF j < i THEN j ELSE j - 1
<1>3. ASSUME NEW j \in 1..Len(s) PROVE new(j) \in 1..Len(n) /\ new(j) # i /\ n[new(j)] = s[j]
  <2>1. CASE j < i
    BY <1>2, <2>1
  <2>2. CASE ~(j < i)
    BY <1>2, <2>2
  <2> QED BY <2>1, <2>2
<1>4. ASSUME NEW j \in 1..Len(n), j # i PROVE old(j) \in 1..Len(s) /\ n[j] = s[old(j)]
  <2>1. CASE j < i
    BY <1>2, <2>1
  <2>2. CASE ~(j < i)
    <3>1. j - 1 \in i..Len(s) /\ (j - 1) + 1 = j
      BY <1>2, <1>4, <2>2
    <3> QED BY <1>2, <2>2, <3>1
  <2> QED BY <2>1, <2>2
<1>5. /\ \A j, k \in 1..Len(s) : j < k <=> new(j) < new(k)
      /\ \A j, k \in 1..Len(n) : j # i /\ k # i => (j < k <=> old(j) < old(k))
      /\ \A j \in 1..Len(s) : (new(j) < i <=> j < i) /\ (i < new(j) <=> i <= j)
      /\ \A j \in 1..Len(n) : j # i => (old(j) < i <=> j < i) /\ (i <= old(j) <=> i < j)
  BY <1>2
<1> HIDE DEF old, new
<1>6. \A j \in 1..Len(s) : s[j] # t
  BY Found
<1>7. \A j \in 1..Len(n) : n[j] = t <=> j = i
  BY <1>2, <1>4, <1>6
<1>8. Distinct(n)
  <2> SUFFICES ASSUME NEW j \in 1..Len(n), NEW k \in 1..Len(n), n[j] = n[k] PROVE j = k
    BY DEF Distinct
  <2>1. CASE j = i \/ k = i
    BY <1>7, <2>1
  <2>2. CASE j # i /\ k # i
    <3>1. old(j) = old(k)
      BY <1>4, <2>2 DEF Distinct
    <3>2. ~(j < k) /\ ~(k < j)
      BY <1>2, <1>4, <1>5, <2>2, <3>1
    <3> QED BY <1>2, <3>2
  <2> QED BY <2>1, <2>2
<1>9. ASSUME NEW x PROVE x \in Range(n) <=> x \in Range(s) \/ x = t
  <2>1. x \in Range(n) <=> \E j \in 1..Len(n) : n[j] = x
    BY <1>2, Found
  <2>2. x \in Range(s) <=> \E j \in 1..Len(s) : s[j] = x
    BY Found
  <2>3. i \in 1..Len(n) /\ n[i] = t
    BY <1>2
  <2>4. x \in Range(s) => x \in Range(n)
    BY <1>3, <2>1, <2>2
  <2>5. x \in Range(n) /\ x # t => x \in Range(s)
    BY <1>4, <2>1, <2>2, <2>3
  <2> QED BY <2>1, <2>3, <2>4, <2>5
<1>10. ASSUME NEW x, NEW y, x # t, y # t PROVE Before(n, x, y) <=> Before(s, x, y)
  <2>1. ASSUME Before(n, x, y) PROVE Before(s, x, y)
    <3>1. PICK j \in 1..Len(n), k \in 1..Len(n) : j < k /\ n[j] = x /\ n[k] = y
      BY <2>1 DEF Before
    <3>2. j # i /\ k # i
      BY <1>2, <1>10, <3>1
    <3> QED BY <1>4, <1>5, <3>1, <3>2 DEF Before
  <2>2. ASSUME Before(s, x, y) PROVE Before(n, x, y)
    <3>1. PICK j \in 1..Len(s), k \in 1..Len(s) : j < k /\ s[j] = x /\ s[k] = y
      BY <2>2 DEF Before
    <3> QED BY <1>3, <1>5, <3>1 DEF Before
  <2> QED BY <2>1, <2>2
<1>11. i \in 1..Len(n)
  BY <1>2
<1>12. ASSUME NEW x PROVE Before(n, x, t) <=> \E j \in 1..(i - 1) : s[j] = x
  <2>1. ASSUME Before(n, x, t) PROVE \E j \in 1..(i - 1) : s[j] = x
    <3>1. PICK j \in 1..Len(n), k \in 1..Len(n) : j < k /\ n[j] = x /\ n[k] = t
      BY <2>1 DEF Before
    <3>2. k = i /\ j \in 1..(i - 1)
      BY <1>2, <1>7, <3>1
    <3> QED BY <1>2, <3>1, <3>2
  <2>2. ASSUME NEW j \in 1..(i - 1), s[j] = x PROVE Before(n, x, t)
    <3>1. j \in 1..Len(n) /\ j < i /\ n[j] = x
      BY <1>2, <2>2
    <3> QED BY <1>2, <1>11, <3>1 DEF Before
  <2> QED BY <2>1, <2>2
<1>13. ASSUME NEW y PROVE Before(n, t, y) <=> \E j \in i..Len(s) : s[j] = y
  <2>1. ASSUME Before(n, t, y) PROVE \E j \in i..Len(s) : s[j] = y
    <3>1. PICK j \in 1..Len(n), k \in 1..Len(n) : j < k /\ n[j] = t /\ n[k] = y
      BY <2>1 DEF Before
    <3>2. j = i /\ k - 1 \in i..Len(s) /\ (k - 1) + 1 = k
      BY <1>2, <1>7, <3>1
    <3> QED BY <1>2, <3>1, <3>2
  <2>2. ASSUME NEW j \in i..Len(s), s[j] = y PROVE Before(n, t, y)
    <3>1. j + 1 \in 1..Len(n) /\ i < j + 1 /\ n[j + 1] = y
      BY <1>2, <2>2
    <3> QED BY <1>2, <1>11, <3>1 DEF Before
  <2> QED BY <2>1, <2>2
<1>14. Range(n) = Range(s) \cup {t}
  BY <1>9
<1> QED BY <1>1, <1>2, <1>8, <1>10, <1>12, <1>13, <1>14

-----------------------------------------------------------------------------
(* A control shows a view's children: those it holds, n, less the detaching ones, D, are     *)
(* React's, c, in their order.                                                              *)

Shows(n, D, c) ==
  /\ Range(c) = Range(n) \ D
  /\ \A x, y \in Range(c) : Before(c, x, y) <=> Before(n, x, y)

\* As many that count come before a child as React has before it.
LEMMA CountsBefore ==
  ASSUME NEW S, NEW n \in Seq(S), Distinct(n), NEW c \in Seq(S), Distinct(c), NEW D, Shows(n, D, c),
         NEW i \in 1..Len(n), NEW k \in 1..Len(c), n[i] = c[k]
  PROVE  Cardinality({j \in 1..(i - 1) : n[j] \notin D}) = k - 1
<1> DEFINE J == {j \in 1..(i - 1) : n[j] \notin D}
           at(m) == CHOOSE j \in 1..Len(n) : n[j] = c[m]
           f == [m \in 1..(k - 1) |-> at(m)]
<1>1. Len(n) \in Nat /\ Len(c) \in Nat /\ i \in Nat /\ k \in Nat
  OBVIOUS
<1>2. \A x : (x \in Range(n) <=> \E j \in 1..Len(n) : n[j] = x) /\ (x \in Range(c) <=> \E j \in 1..Len(c) : c[j] = x)
  BY Found
<1>3. ASSUME NEW m \in 1..Len(c) PROVE at(m) \in 1..Len(n) /\ n[at(m)] = c[m] /\ n[at(m)] \notin D
  <2>1. c[m] \in Range(n) /\ c[m] \notin D
    BY <1>2 DEF Shows
  <2>2. \E j \in 1..Len(n) : n[j] = c[m]
    BY <1>2, <2>1
  <2> QED BY <2>1, <2>2
<1> HIDE DEF at
<1>4. c[k] \in Range(c) /\ \A m \in 1..Len(c) : c[m] \in Range(c)
  BY <1>2
<1>5. ASSUME NEW m \in 1..(k - 1) PROVE at(m) \in J
  <2>1. m \in 1..Len(c) /\ m < k
    BY <1>1
  <2>2. Before(c, c[m], c[k])
    BY <2>1 DEF Before
  <2>3. Before(n, c[m], n[i])
    BY <1>4, <2>1, <2>2 DEF Shows
  <2>4. PICK j \in 1..Len(n), l \in 1..Len(n) : j < l /\ n[j] = c[m] /\ n[l] = n[i]
    BY <2>3 DEF Before
  <2>5. l = i /\ j = at(m)
    BY <1>3, <2>1, <2>4 DEF Distinct
  <2> QED BY <1>1, <1>3, <2>1, <2>4, <2>5
<1>6. ASSUME NEW a \in 1..(k - 1), NEW b \in 1..(k - 1), at(a) = at(b) PROVE a = b
  <2>1. a \in 1..Len(c) /\ b \in 1..Len(c)
    BY <1>1
  <2> QED BY <1>3, <1>6, <2>1 DEF Distinct
<1>7. ASSUME NEW j \in J PROVE \E m \in 1..(k - 1) : at(m) = j
  <2>1. j \in 1..Len(n) /\ j < i /\ n[j] \notin D
    BY <1>1
  <2>2. n[j] \in Range(c)
    BY <1>2, <2>1 DEF Shows
  <2>3. PICK m \in 1..Len(c) : c[m] = n[j]
    BY <1>2, <2>2
  <2>4. Before(n, n[j], n[i])
    BY <2>1 DEF Before
  <2>5. Before(c, c[m], c[k])
    BY <1>4, <2>2, <2>3, <2>4 DEF Shows
  <2>6. PICK a \in 1..Len(c), b \in 1..Len(c) : a < b /\ c[a] = c[m] /\ c[b] = c[k]
    BY <2>5 DEF Before
  <2>7. a = m /\ b = k
    BY <2>6 DEF Distinct
  <2>8. m \in 1..(k - 1)
    BY <1>1, <2>6, <2>7
  <2>9. at(m) = j
    <3>1. at(m) \in 1..Len(n) /\ n[at(m)] = n[j]
      BY <1>3, <2>3
    <3> QED BY <2>1, <3>1 DEF Distinct
  <2> QED BY <2>8, <2>9
<1> HIDE DEF J
<1>8. f \in [1..(k - 1) -> J]
  BY <1>5
<1>9. (\A a, b \in 1..(k - 1) : f[a] = f[b] => a = b) /\ \A j \in J : \E m \in 1..(k - 1) : f[m] = j
  BY <1>6, <1>7
<1> HIDE DEF f
<1>10. f \in Bijection(1..(k - 1), J)
  BY <1>8, <1>9, Fun_IsBij
<1>11. IsFiniteSet(1..(k - 1)) /\ Cardinality(1..(k - 1)) = k - 1
  <2>1. 1 \in Int /\ k - 1 \in Int /\ k - 1 >= 0
    BY <1>1
  <2>2. IsFiniteSet(1..(k - 1)) /\ Cardinality(1..(k - 1)) = (IF 1 > k - 1 THEN 0 ELSE (k - 1) - 1 + 1)
    BY <2>1, FS_Interval
  <2> QED BY <1>1, <2>1, <2>2
<1>12. Cardinality(J) = Cardinality(1..(k - 1))
  BY <1>10, <1>11, FS_Bijection DEF ExistsBijection
<1> QED BY <1>11, <1>12 DEF J

\* Where nobody is detaching the two lists are one.
LEMMA SameList ==
  ASSUME NEW S, NEW n \in Seq(S), Distinct(n), NEW c \in Seq(S), Distinct(c), Shows(n, {}, c)
  PROVE  n = c
<1>1. Len(n) \in Nat /\ Len(c) \in Nat
  OBVIOUS
<1>2. \A x : (x \in Range(n) <=> \E j \in 1..Len(n) : n[j] = x) /\ (x \in Range(c) <=> \E j \in 1..Len(c) : c[j] = x)
  BY Found
<1>3. Range(n) = Range(c)
  BY DEF Shows
<1>4. ASSUME NEW i \in 1..Len(n), NEW k \in 1..Len(c), n[i] = c[k] PROVE i = k
  <2>1. PICK D : D = {}
    OBVIOUS
  <2>2. Cardinality({j \in 1..(i - 1) : n[j] \notin D}) = k - 1
    BY <1>4, <2>1, CountsBefore
  <2>3. {j \in 1..(i - 1) : n[j] \notin D} = 1..(i - 1)
    BY <2>1
  <2>4. Cardinality(1..(i - 1)) = i - 1
    <3>1. 1 \in Int /\ i - 1 \in Int /\ i - 1 >= 0
      BY <1>1
    <3>2. Cardinality(1..(i - 1)) = (IF 1 > i - 1 THEN 0 ELSE (i - 1) - 1 + 1)
      BY <3>1, FS_Interval
    <3> QED BY <1>1, <3>1, <3>2
  <2>5. i - 1 = k - 1
    BY <2>2, <2>3, <2>4
  <2> QED BY <1>1, <2>5
<1>5. \A i \in 1..Len(n) : i \in 1..Len(c) /\ n[i] = c[i]
  BY <1>2, <1>3, <1>4
<1>6. ASSUME NEW k \in 1..Len(c) PROVE k \in 1..Len(n)
  <2>1. PICK i \in 1..Len(n) : n[i] = c[k]
    BY <1>2, <1>3
  <2> QED BY <1>4, <2>1
<1>7. Len(n) = Len(c)
  BY <1>1, <1>5, <1>6
<1> QED BY <1>5, <1>7, SeqEqual

\* Where a child goes is where React puts it.
LEMMA AnchorIs ==
  ASSUME NEW S, NEW n \in Seq(S), Distinct(n), NEW c \in Seq(S), Distinct(c), NEW D, Shows(n, D, c),
         NEW index \in 0..Len(c)
  PROVE  LET a == Anchor(n, D, index)
         IN  IF index < Len(c) THEN a \in 1..Len(n) /\ n[a] = c[index + 1] ELSE a = Len(n) + 1
<1> DEFINE before(i) == {j \in 1..(i - 1) : n[j] \notin D}
           A == {i \in 1..Len(n) : n[i] \notin D /\ Cardinality(before(i)) = index}
<1>1. Len(n) \in Nat /\ Len(c) \in Nat /\ index \in Nat /\ DOMAIN n = 1..Len(n)
  OBVIOUS
<1>2. \A x : (x \in Range(n) <=> \E j \in 1..Len(n) : n[j] = x) /\ (x \in Range(c) <=> \E j \in 1..Len(c) : c[j] = x)
  BY Found
<1>3. Anchor(n, D, index) = IF A = {} THEN Len(n) + 1 ELSE CHOOSE i \in A : TRUE
  BY <1>1 DEF Anchor
<1>4. \A i \in 1..Len(n), k \in 1..Len(c) : n[i] = c[k] => Cardinality(before(i)) = k - 1
  BY CountsBefore
<1> HIDE DEF before
<1>5. ASSUME NEW i \in A PROVE index < Len(c) /\ n[i] = c[index + 1]
  <2>1. PICK k \in 1..Len(c) : n[i] = c[k]
    <3>1. n[i] \in Range(c)
      BY <1>2 DEF Shows
    <3> QED BY <1>2, <3>1
  <2>2. k - 1 = index
    BY <1>4, <2>1
  <2> QED BY <1>1, <2>1, <2>2
<1>6. ASSUME index < Len(c) PROVE A # {}
  <2>1. index + 1 \in 1..Len(c)
    BY <1>1, <1>6
  <2>2. c[index + 1] \in Range(n) /\ c[index + 1] \notin D
    BY <1>2, <2>1 DEF Shows
  <2>3. PICK i \in 1..Len(n) : n[i] = c[index + 1]
    BY <1>2, <2>2
  <2>4. Cardinality(before(i)) = (index + 1) - 1
    BY <1>4, <2>1, <2>3
  <2> QED BY <1>1, <2>2, <2>3, <2>4
<1>7. A \subseteq 1..Len(n)
  OBVIOUS
<1> HIDE DEF A
<1>8. CASE A = {}
  BY <1>1, <1>3, <1>6, <1>8
<1>9. CASE A # {}
  <2>1. Anchor(n, D, index) \in A
    BY <1>3, <1>9
  <2> QED BY <1>5, <1>7, <2>1
<1> QED BY <1>8, <1>9

\* A control that shows no child of React's leaves.
LEMMA ShowsLess ==
  ASSUME NEW S, NEW n \in Seq(S), Distinct(n), NEW D, NEW c, Shows(n, D, c), NEW t, t \notin Range(c)
  PROVE  Shows(RemoveFirst(n, t), D \ {t}, c)
<1>1. /\ Range(RemoveFirst(n, t)) = Range(n) \ {t}
      /\ \A x, y : x # t /\ y # t => (Before(RemoveFirst(n, t), x, y) <=> Before(n, x, y))
  BY Removal
<1> QED BY <1>1 DEF Shows

\* A child that React removes is detaching.
LEMMA ShowsMarked ==
  ASSUME NEW S, NEW n, NEW D, NEW c \in Seq(S), Distinct(c), Shows(n, D, c), NEW t
  PROVE  Shows(n, D \cup {t}, RemoveFirst(c, t))
<1>1. /\ Range(RemoveFirst(c, t)) = Range(c) \ {t}
      /\ \A x, y : x # t /\ y # t => (Before(RemoveFirst(c, t), x, y) <=> Before(c, x, y))
  BY Removal
<1> QED BY <1>1 DEF Shows

\* A control takes a child where React does.
LEMMA ShowsPut ==
  ASSUME NEW S, NEW n \in Seq(S), Distinct(n), NEW c \in Seq(S), Distinct(c), NEW D, Shows(n, D, c),
         NEW t \in S, t \notin Range(n), t \notin D, NEW index \in 0..Len(c)
  PROVE  LET a == Anchor(n, D, index)
         IN  /\ a \in 1..(Len(n) + 1) /\ index + 1 \in 1..(Len(c) + 1) /\ t \notin Range(c)
             /\ Shows(InsertAt(n, a, t), D, InsertAt(c, index + 1, t))
<1>1. Len(n) \in Nat /\ Len(c) \in Nat /\ index \in Nat
  OBVIOUS
<1>2. PICK a : a = Anchor(n, D, index)
  OBVIOUS
<1>3. IF index < Len(c) THEN a \in 1..Len(n) /\ n[a] = c[index + 1] ELSE a = Len(n) + 1
  BY <1>2, AnchorIs
<1>4. a \in 1..(Len(n) + 1) /\ index + 1 \in 1..(Len(c) + 1)
  BY <1>1, <1>3
<1>5. t \notin Range(c)
  BY DEF Shows
<1>6. PICK N, C : N = InsertAt(n, a, t) /\ C = InsertAt(c, index + 1, t)
  OBVIOUS
<1>7. /\ Range(N) = Range(n) \cup {t}
      /\ \A x, y : x # t /\ y # t => (Before(N, x, y) <=> Before(n, x, y))
      /\ \A x : Before(N, x, t) <=> \E j \in 1..(a - 1) : n[j] = x
      /\ \A y : Before(N, t, y) <=> \E j \in a..Len(n) : n[j] = y
  BY <1>4, <1>6, Insertion
<1>8. /\ Range(C) = Range(c) \cup {t}
      /\ \A x, y : x # t /\ y # t => (Before(C, x, y) <=> Before(c, x, y))
      /\ \A x : Before(C, x, t) <=> \E j \in 1..index : c[j] = x
      /\ \A y : Before(C, t, y) <=> \E j \in (index + 1)..Len(c) : c[j] = y
  <2>1. PICK k : k = index + 1
    OBVIOUS
  <2>2. k \in 1..(Len(c) + 1) /\ k - 1 = index
    BY <1>1, <1>4, <2>1
  <2>3. C = InsertAt(c, k, t)
    BY <1>6, <2>1
  <2>4. /\ Range(C) = Range(c) \cup {t}
        /\ \A x, y : x # t /\ y # t => (Before(C, x, y) <=> Before(c, x, y))
        /\ \A x : Before(C, x, t) <=> \E j \in 1..(k - 1) : c[j] = x
        /\ \A y : Before(C, t, y) <=> \E j \in k..Len(c) : c[j] = y
    BY <1>5, <2>2, <2>3, Insertion
  <2> QED BY <2>1, <2>2, <2>4
<1>9. \A x : (x \in Range(n) <=> \E j \in 1..Len(n) : n[j] = x) /\ (x \in Range(c) <=> \E j \in 1..Len(c) : c[j] = x)
  BY Found
<1>10. ASSUME NEW k \in 1..Len(c), NEW i \in 1..Len(n), n[i] = c[k] PROVE i < a <=> k <= index
  <2>1. CASE index < Len(c)
    <3>1. a \in 1..Len(n) /\ n[a] = c[index + 1] /\ index + 1 \in 1..Len(c)
      BY <1>1, <1>3, <2>1
    <3>2. c[k] \in Range(c) /\ c[index + 1] \in Range(c)
      BY <1>9, <3>1
    <3>3. Before(c, c[k], c[index + 1]) <=> Before(n, c[k], c[index + 1])
      BY <3>2 DEF Shows
    <3>4. Before(c, c[k], c[index + 1]) <=> k < index + 1
      BY <3>1 DEF Before, Distinct
    <3>5. Before(n, n[i], n[a]) <=> i < a
      BY <3>1 DEF Before, Distinct
    <3> QED BY <1>1, <1>10, <3>1, <3>3, <3>4, <3>5
  <2>2. CASE ~(index < Len(c))
    BY <1>1, <1>3, <2>2
  <2> QED BY <2>1, <2>2
<1>11. ASSUME NEW x \in Range(c)
       PROVE  (Before(C, x, t) <=> Before(N, x, t)) /\ (Before(C, t, x) <=> Before(N, t, x))
  <2>1. PICK k \in 1..Len(c) : c[k] = x
    BY <1>9
  <2>2. x \in Range(n)
    BY DEF Shows
  <2>3. PICK i \in 1..Len(n) : n[i] = x
    BY <1>9, <2>2
  <2>4. i < a <=> k <= index
    BY <1>10, <2>1, <2>3
  <2>5. (\E j \in 1..(a - 1) : n[j] = x) <=> i < a
    <3>1. \A j \in 1..(a - 1) : j \in 1..Len(n)
      BY <1>1, <1>4
    <3>2. \A j \in 1..Len(n) : n[j] = x => j = i
      BY <2>3 DEF Distinct
    <3>3. i < a <=> i \in 1..(a - 1)
      BY <1>1, <1>4
    <3> QED BY <2>3, <3>1, <3>2, <3>3
  <2>6. (\E j \in a..Len(n) : n[j] = x) <=> ~(i < a)
    <3>1. \A j \in a..Len(n) : j \in 1..Len(n)
      BY <1>1, <1>4
    <3>2. \A j \in 1..Len(n) : n[j] = x => j = i
      BY <2>3 DEF Distinct
    <3>3. ~(i < a) <=> i \in a..Len(n)
      BY <1>1, <1>4
    <3> QED BY <2>3, <3>1, <3>2, <3>3
  <2>7. (\E j \in 1..index : c[j] = x) <=> k <= index
    <3>1. \A j \in 1..index : j \in 1..Len(c)
      BY <1>1, <1>4
    <3>2. \A j \in 1..Len(c) : c[j] = x => j = k
      BY <2>1 DEF Distinct
    <3>3. k <= index <=> k \in 1..index
      BY <1>1
    <3> QED BY <2>1, <3>1, <3>2, <3>3
  <2>8. (\E j \in (index + 1)..Len(c) : c[j] = x) <=> ~(k <= index)
    <3>1. \A j \in (index + 1)..Len(c) : j \in 1..Len(c)
      BY <1>1
    <3>2. \A j \in 1..Len(c) : c[j] = x => j = k
      BY <2>1 DEF Distinct
    <3>3. ~(k <= index) <=> k \in (index + 1)..Len(c)
      BY <1>1
    <3> QED BY <2>1, <3>1, <3>2, <3>3
  <2> QED BY <1>7, <1>8, <2>4, <2>5, <2>6, <2>7, <2>8
<1>12. Before(C, t, t) <=> Before(N, t, t)
  <2>1. ~\E j \in 1..(a - 1) : n[j] = t
    <3>1. \A j \in 1..(a - 1) : j \in 1..Len(n)
      BY <1>1, <1>4
    <3> QED BY <1>9, <3>1
  <2>2. ~\E j \in 1..index : c[j] = t
    <3>1. \A j \in 1..index : j \in 1..Len(c)
      BY <1>1, <1>4
    <3> QED BY <1>5, <1>9, <3>1
  <2> QED BY <1>7, <1>8, <2>1, <2>2
<1>13. Range(C) = Range(N) \ D
  BY <1>7, <1>8 DEF Shows
<1>14. ASSUME NEW x \in Range(C), NEW y \in Range(C) PROVE Before(C, x, y) <=> Before(N, x, y)
  <2>1. CASE x # t /\ y # t
    BY <1>7, <1>8, <2>1 DEF Shows
  <2>2. CASE x = t \/ y = t
    BY <1>8, <1>11, <1>12, <2>2
  <2> QED BY <2>1, <2>2
<1>15. Shows(N, D, C)
  BY <1>13, <1>14 DEF Shows
<1> QED BY <1>2, <1>4, <1>5, <1>6, <1>15

-----------------------------------------------------------------------------
(* Trees.  A child is in one place, and among the views.                                    *)

Forest(V, ch) ==
  /\ ch \in [Parents -> Seq(ViewTags)]
  /\ \A p \in Parents : /\ Distinct(ch[p])
                         /\ \A t \in Range(ch[p]) :
                              t \in V /\ \A q \in Parents : t \in Range(ch[q]) => q = p
Trees == {x \in [views : SUBSET ViewTags, children : [Parents -> Seq(ViewTags)]] :
            Forest(x.views, x.children)}

\* Who holds a view.
LEMMA HolderIs ==
  ASSUME NEW V, NEW ch, Forest(V, ch), NEW t
  PROVE  /\ ParentIn(ch, t) \in Parents \cup {NoView} /\ NoView \notin Parents
         /\ ParentIn(ch, t) = NoView <=> \A p \in Parents : t \notin Range(ch[p])
         /\ \A p \in Parents : ParentIn(ch, t) = p <=> t \in Range(ch[p])
<1>1. NoView \notin Parents
  BY MountingBounds DEF NoView, Parents, ViewTags, Root
<1>2. CASE \E p \in Parents : t \in Range(ch[p])
  <2>1. ParentIn(ch, t) = CHOOSE p \in Parents : t \in Range(ch[p])
    BY <1>2 DEF ParentIn
  <2>2. ParentIn(ch, t) \in Parents /\ t \in Range(ch[ParentIn(ch, t)])
    BY <1>2, <2>1
  <2>3. \A p \in Parents : t \in Range(ch[p]) => p = ParentIn(ch, t)
    BY <2>2 DEF Forest
  <2> QED BY <1>1, <2>2, <2>3
<1>3. CASE ~\E p \in Parents : t \in Range(ch[p])
  BY <1>1, <1>3 DEF ParentIn
<1> QED BY <1>2, <1>3

\* A view leaves its place.
Less(ch, t) == [p \in Parents |-> RemoveFirst(ch[p], t)]

\* A tree stays one when a child is taken from its place.
LEMMA ForestLess ==
  ASSUME NEW V, NEW ch, Forest(V, ch), NEW t
  PROVE  Forest(V \ {t}, Less(ch, t)) /\ Forest(V, Less(ch, t))
<1>1. PICK less : less = Less(ch, t)
  OBVIOUS
<1>2. /\ ch \in [Parents -> Seq(ViewTags)] /\ \A p \in Parents : Distinct(ch[p])
      /\ less = [p \in Parents |-> RemoveFirst(ch[p], t)]
  BY <1>1 DEF Forest, Less
<1>3. ASSUME NEW p \in Parents
      PROVE  less[p] \in Seq(ViewTags) /\ Distinct(less[p]) /\ Range(less[p]) = Range(ch[p]) \ {t}
  <2>1. ch[p] \in Seq(ViewTags) /\ Distinct(ch[p]) /\ less[p] = RemoveFirst(ch[p], t)
    BY <1>2
  <2> QED BY <2>1, Removal
<1>4. less \in [Parents -> Seq(ViewTags)]
  BY <1>2, <1>3
<1>5. Forest(V \ {t}, less) /\ Forest(V, less)
  BY <1>3, <1>4 DEF Forest
<1> QED BY <1>1, <1>5

\* It changes the one list that it is in.
LEMMA LessIs ==
  ASSUME NEW V, NEW ch, Forest(V, ch), NEW t
  PROVE  /\ \A p \in Parents : t \in Range(ch[p]) => Less(ch, t) = [ch EXCEPT ![p] = RemoveFirst(@, t)]
         /\ (\A p \in Parents : t \notin Range(ch[p])) => Less(ch, t) = ch
<1>1. PICK less : less = Less(ch, t)
  OBVIOUS
<1>2. /\ ch \in [Parents -> Seq(ViewTags)] /\ \A p \in Parents : Distinct(ch[p])
      /\ less = [p \in Parents |-> RemoveFirst(ch[p], t)]
  BY <1>1 DEF Forest, Less
<1>3. ASSUME NEW p \in Parents, t \notin Range(ch[p]) PROVE less[p] = ch[p]
  <2>1. ch[p] \in Seq(ViewTags) /\ Distinct(ch[p]) /\ less[p] = RemoveFirst(ch[p], t)
    BY <1>2
  <2> QED BY <1>3, <2>1, FirstIs
<1>4. ASSUME NEW p \in Parents, t \in Range(ch[p]) PROVE less = [ch EXCEPT ![p] = RemoveFirst(@, t)]
  <2>1. \A q \in Parents : q # p => t \notin Range(ch[q])
    BY <1>4 DEF Forest
  <2>2. \A q \in Parents : q # p => less[q] = ch[q]
    BY <1>3, <2>1
  <2>3. less[p] = RemoveFirst(ch[p], t)
    BY <1>2
  <2> QED BY <1>2, <2>2, <2>3
<1>5. ASSUME \A p \in Parents : t \notin Range(ch[p]) PROVE less = ch
  BY <1>2, <1>3, <1>5
<1> QED BY <1>1, <1>4, <1>5

\* A view that nobody holds gets a place.
More(ch, p, i, t) == [ch EXCEPT ![p] = InsertAt(@, i, t)]

\* A tree stays one when a child that had no place gets one.
LEMMA ForestMore ==
  ASSUME NEW V, NEW ch, Forest(V, ch), NEW t \in ViewTags, t \in V, NEW p \in Parents,
         \A q \in Parents : t \notin Range(ch[q]), NEW i \in 1..(Len(ch[p]) + 1)
  PROVE  LET more == More(ch, p, i, t)
         IN  /\ Forest(V, more) /\ more[p] = InsertAt(ch[p], i, t)
             /\ \A q \in Parents : q # p => more[q] = ch[q]
<1>0. PICK more : more = More(ch, p, i, t)
  OBVIOUS
<1>1. ch \in [Parents -> Seq(ViewTags)] /\ \A q \in Parents : Distinct(ch[q])
  BY DEF Forest
<1>2. /\ InsertAt(ch[p], i, t) \in Seq(ViewTags) /\ Distinct(InsertAt(ch[p], i, t))
      /\ Range(InsertAt(ch[p], i, t)) = Range(ch[p]) \cup {t}
  <2>1. ch[p] \in Seq(ViewTags)
    BY <1>1
  <2> QED BY <1>1, <2>1, Insertion
<1>3. /\ more \in [Parents -> Seq(ViewTags)] /\ more[p] = InsertAt(ch[p], i, t)
      /\ \A q \in Parents : q # p => more[q] = ch[q]
  BY <1>0, <1>1, <1>2 DEF More
<1>4. Forest(V, more)
  <2> SUFFICES ASSUME NEW q \in Parents
               PROVE  /\ Distinct(more[q])
                      /\ \A x \in Range(more[q]) : x \in V /\ \A w \in Parents : x \in Range(more[w]) => w = q
    BY <1>3 DEF Forest
  <2>1. Distinct(more[q])
    BY <1>1, <1>2, <1>3
  <2>2. ASSUME NEW x \in Range(more[q]), NEW w \in Parents
        PROVE  x \in V /\ (x \in Range(more[w]) => w = q)
    <3>1. \A v \in Parents : x \in Range(more[v]) <=> x \in Range(ch[v]) \/ (v = p /\ x = t)
      BY <1>2, <1>3
    <3> QED BY <2>2, <3>1 DEF Forest
  <2> QED BY <2>1, <2>2
<1> QED BY <1>0, <1>2, <1>3, <1>4

-----------------------------------------------------------------------------
(* A registry mirrors a tree of React's: the same views, and each control holds, besides     *)
(* detaching ones, the children in their order.  What detaches is on the list of removals,   *)
(* with the control that holds it.                                                          *)

Registries == [views : SUBSET ViewTags, nodes : [Parents -> Seq(ViewTags)], detaching : SUBSET ViewTags,
               removed : Seq(Parents \X ViewTags), freed : {{}}]
Leaves(r, t) ==
  \E i \in 1..Len(r.removed) : r.removed[i][2] = t /\ t \in Range(r.nodes[r.removed[i][1]])
Mirrors(r, x) ==
  /\ r \in Registries /\ x \in Trees /\ r.views = x.views /\ Forest(r.views, r.nodes)
  /\ \A p \in Parents : Shows(r.nodes[p], r.detaching, x.children[p])
  /\ \A t \in r.detaching : Leaves(r, t)

\* The pairs of the list.
LEMMA PairsOf ==
  ASSUME NEW r \in Registries, NEW i \in 1..Len(r.removed)
  PROVE  r.removed[i][1] \in Parents /\ r.removed[i][2] \in ViewTags
<1>1. r.removed \in Seq(Parents \X ViewTags)
  BY DEF Registries
<1>2. r.removed[i] \in Parents \X ViewTags
  BY <1>1
<1> QED BY <1>2

\* Taking a control from where it is.
LEMMA UnparentedIs ==
  ASSUME NEW r \in Registries, Forest(r.views, r.nodes), NEW t
  PROVE  /\ Unparented(r, t) = [r EXCEPT !.nodes = Less(@, t)]
         /\ Unparented(r, t) \in Registries
<1>1. PICK V, ch, less, h : V = r.views /\ ch = r.nodes /\ less = Less(ch, t) /\ h = Holder(r, t)
  OBVIOUS
<1>2. Forest(V, ch) /\ h = ParentIn(ch, t)
  BY <1>1 DEF Holder
<1>3. /\ less \in [Parents -> Seq(ViewTags)]
      /\ \A p \in Parents : t \in Range(ch[p]) => less = [ch EXCEPT ![p] = RemoveFirst(@, t)]
      /\ (\A p \in Parents : t \notin Range(ch[p])) => less = ch
  <2>1. /\ Forest(V, less)
        /\ \A p \in Parents : t \in Range(ch[p]) => less = [ch EXCEPT ![p] = RemoveFirst(@, t)]
        /\ (\A p \in Parents : t \notin Range(ch[p])) => less = ch
    BY <1>1, <1>2, ForestLess, LessIs
  <2> QED BY <2>1 DEF Forest
<1>4. /\ h = NoView => less = ch
      /\ h # NoView => less = [ch EXCEPT ![h] = RemoveFirst(@, t)]
  BY <1>2, <1>3, HolderIs
<1>5. [r EXCEPT !.nodes = ch] = r
  BY <1>1 DEF Registries
<1>6. [r EXCEPT !.nodes[h] = RemoveFirst(@, t)] = [r EXCEPT !.nodes = [ch EXCEPT ![h] = RemoveFirst(@, t)]]
  BY <1>1 DEF Registries
<1>7. Unparented(r, t) = IF h = NoView THEN r ELSE [r EXCEPT !.nodes[h] = RemoveFirst(@, t)]
  BY <1>1 DEF Unparented
<1>8. Unparented(r, t) = [r EXCEPT !.nodes = less]
  BY <1>4, <1>5, <1>6, <1>7
<1>9. [r EXCEPT !.nodes = less] \in Registries
  BY <1>3 DEF Registries
<1> QED BY <1>1, <1>8, <1>9

Behind(r, s) == s.removed = r.removed /\ s.detaching \subseteq r.detaching

\* A control that shows no child of React's may leave.
LEMMA Detached ==
  ASSUME NEW r, NEW x, Mirrors(r, x), NEW t, \A p \in Parents : t \notin Range(x.children[p])
  PROVE  LET s == [Unparented(r, t) EXCEPT !.detaching = @ \ {t}]
         IN  /\ Mirrors(s, x) /\ Behind(r, s) /\ t \notin s.detaching
             /\ \A p \in Parents : Range(s.nodes[p]) = Range(r.nodes[p]) \ {t}
<1>1. r \in Registries /\ x \in Trees /\ r.views = x.views /\ Forest(r.views, r.nodes)
  BY DEF Mirrors
<1>2. PICK u, less : u = Unparented(r, t) /\ less = Less(r.nodes, t)
  OBVIOUS
<1>3. u \in Registries /\ u = [r EXCEPT !.nodes = less]
  BY <1>1, <1>2, UnparentedIs
<1>4. PICK s : s = [u EXCEPT !.detaching = @ \ {t}]
  OBVIOUS
<1>5. /\ Forest(r.views, less) /\ \A p \in Parents : Range(less[p]) = Range(r.nodes[p]) \ {t}
      /\ \A p \in Parents : less[p] = RemoveFirst(r.nodes[p], t)
  <2>1. PICK V, ch : V = r.views /\ ch = r.nodes
    OBVIOUS
  <2>2. Forest(V, ch) /\ less = Less(ch, t)
    BY <1>1, <1>2, <2>1
  <2>3. Forest(V, less) /\ \A p \in Parents : Range(less[p]) = Range(ch[p]) \ {t}
    <3>1. Forest(V, less)
      BY <2>2, ForestLess
    <3>2. ASSUME NEW p \in Parents PROVE Range(less[p]) = Range(ch[p]) \ {t}
      <4>1. ch[p] \in Seq(ViewTags) /\ Distinct(ch[p]) /\ less[p] = RemoveFirst(ch[p], t)
        BY <2>2 DEF Forest, Less
      <4> QED BY <4>1, Removal
    <3> QED BY <3>1, <3>2
  <2> QED BY <1>2, <2>1, <2>3 DEF Less
<1>6. /\ s \in Registries /\ s.views = r.views /\ s.nodes = less /\ s.removed = r.removed
      /\ s.detaching = r.detaching \ {t}
  BY <1>1, <1>3, <1>4 DEF Registries
<1>7. ASSUME NEW p \in Parents PROVE Shows(s.nodes[p], s.detaching, x.children[p])
  <2>1. Shows(r.nodes[p], r.detaching, x.children[p]) /\ r.nodes[p] \in Seq(ViewTags) /\ Distinct(r.nodes[p])
    BY <1>1 DEF Mirrors, Forest
  <2> QED BY <1>5, <1>6, <2>1, ShowsLess
<1>8. ASSUME NEW y \in s.detaching PROVE Leaves(s, y)
  <2>1. Leaves(r, y) /\ y # t
    BY <1>6 DEF Mirrors
  <2>2. PICK i \in 1..Len(r.removed) : r.removed[i][2] = y /\ y \in Range(r.nodes[r.removed[i][1]])
    BY <2>1 DEF Leaves
  <2>3. r.removed[i][1] \in Parents
    BY <1>1, PairsOf
  <2> QED BY <1>5, <1>6, <2>1, <2>2, <2>3 DEF Leaves
<1>9. Mirrors(s, x)
  BY <1>1, <1>5, <1>6, <1>7, <1>8 DEF Mirrors
<1> QED BY <1>2, <1>4, <1>5, <1>6, <1>9 DEF Behind

\* What is detaching is registered, and no child of React's.
LEMMA LeavingIs ==
  ASSUME NEW r, NEW x, Mirrors(r, x), NEW t \in r.detaching
  PROVE  t \in r.views /\ \A p \in Parents : t \notin Range(x.children[p])
<1>1. PICK i \in 1..Len(r.removed) : r.removed[i][2] = t /\ t \in Range(r.nodes[r.removed[i][1]])
  BY DEF Mirrors, Leaves
<1>2. r.removed[i][1] \in Parents
  BY PairsOf DEF Mirrors
<1>3. t \in r.views
  BY <1>1, <1>2 DEF Mirrors, Forest
<1> QED BY <1>3 DEF Mirrors, Shows

\* A removal that ends.
LEMMA FinishMirrors ==
  ASSUME NEW r, NEW x, Mirrors(r, x), NEW t
  PROVE  LET s == FinishRemoval(r, t)
         IN  Mirrors(s, x) /\ Behind(r, s) /\ t \notin s.detaching
<1>1. CASE t \in r.detaching
  <2>1. t \in r.views /\ \A p \in Parents : t \notin Range(x.children[p])
    BY <1>1, LeavingIs
  <2>2. FinishRemoval(r, t) = [Unparented(r, t) EXCEPT !.detaching = @ \ {t}]
    BY <1>1, <2>1 DEF FinishRemoval
  <2> QED BY <2>1, <2>2, Detached
<1>2. CASE t \notin r.detaching
  <2>1. FinishRemoval(r, t) = r
    BY <1>2 DEF FinishRemoval
  <2> QED BY <1>2, <2>1 DEF Behind
<1> QED BY <1>1, <1>2

Finished(all, t, q, s, w) == \A i \in w : all \/ q[i][1] = t => q[i][2] \notin s.detaching

\* A fold of such ends keeps the mirror, and ends what it should.
LEMMA FoldsMirror ==
  ASSUME NEW all \in BOOLEAN, NEW t, NEW r, NEW x, Mirrors(r, x), NEW n \in Nat, n = Len(r.removed), NEW iter,
         Frees(all, t, r.removed, r, iter, SUBSET (1..n))
  PROVE  Mirrors(iter[1..n], x) /\ Behind(r, iter[1..n]) /\ Finished(all, t, r.removed, iter[1..n], 1..n)
<1> DEFINE q == r.removed
           Good(w) == Mirrors(iter[w], x) /\ Behind(r, iter[w]) /\ Finished(all, t, q, iter[w], w)
           T == {Cardinality(s) : s \in {w \in SUBSET (1..n) : ~Good(w)}}
<1>1. \A s \in SUBSET (1..n) : IsFiniteSet(s) /\ Cardinality(s) \in Nat
  <2>1. IsFiniteSet(1..n)
    BY FS_Interval
  <2> QED BY <2>1, FS_Subset, FS_CardinalityType
<1>2. SUFFICES ASSUME T # {} PROVE FALSE
  <2>1. 1..n \in SUBSET (1..n)
    OBVIOUS
  <2> QED BY <2>1
<1>3. T \in SUBSET Nat
  BY <1>1
<1>4. PICK c \in T : \A m \in T : c <= m
  BY <1>2, <1>3, LeastNatural
<1>5. PICK s \in SUBSET (1..n) : ~Good(s) /\ Cardinality(s) = c
  BY <1>4
<1>6. iter[s] = Freeings(all, t, q, r, iter, s)
  BY <1>5 DEF Frees
<1>7. s # {}
  <2> SUFFICES ASSUME s = {} PROVE FALSE
    OBVIOUS
  <2>1. iter[s] = r
    BY <1>6 DEF Freeings
  <2> QED BY <1>5, <2>1 DEF Behind, Finished
<1>8. PICK h : h = Highest(s)
  OBVIOUS
<1>9. h \in s /\ h \in 1..n
  BY <1>5, <1>7, <1>8, HighestIsThere
<1>10. PICK w : w = s \ {h}
  OBVIOUS
<1>11. w \in SUBSET (1..n) /\ Cardinality(w) = Cardinality(s) - 1 /\ s = w \cup {h}
  BY <1>1, <1>5, <1>9, <1>10, FS_RemoveElement
<1>12. Good(w)
  <2>1. Cardinality(w) \in Nat /\ Cardinality(s) \in Nat /\ Cardinality(w) < c
    BY <1>1, <1>5, <1>11
  <2>2. c \in Nat
    BY <1>1, <1>5
  <2>3. Cardinality(w) \notin T
    <3>1. PICK d : d = Cardinality(w)
      OBVIOUS
    <3> HIDE DEF T
    <3> QED BY <1>4, <2>1, <2>2, <3>1
  <2> HIDE DEF Good
  <2> QED BY <1>11, <2>3
<1>13. PICK v, pair : v = iter[w] /\ pair = q[h]
  OBVIOUS
<1>14. iter[s] = Freeing(all, t, v, pair)
  BY <1>6, <1>7, <1>8, <1>10, <1>13 DEF Freeings
<1>15. Mirrors(v, x) /\ Behind(r, v) /\ Finished(all, t, q, v, w)
  BY <1>12, <1>13
<1>16. PICK z : z = iter[s]
  OBVIOUS
<1>17. /\ Mirrors(z, x) /\ Behind(v, z)
       /\ all \/ pair[1] = t => pair[2] \notin z.detaching
  <2>1. CASE all \/ pair[1] = t \/ pair[2] \in Under(v, t)
    <3>1. z = FinishRemoval(v, pair[2])
      BY <1>14, <1>16, <2>1 DEF Freeing
    <3> QED BY <1>15, <3>1, FinishMirrors
  <2>2. CASE ~(all \/ pair[1] = t \/ pair[2] \in Under(v, t))
    <3>1. z = v
      BY <1>14, <1>16, <2>2 DEF Freeing
    <3> QED BY <1>15, <2>2, <3>1 DEF Behind
  <2> QED BY <2>1, <2>2
<1>18. Behind(r, z)
  BY <1>15, <1>17 DEF Behind
<1>19. Finished(all, t, q, z, s)
  BY <1>11, <1>13, <1>15, <1>17 DEF Finished, Behind
<1> QED BY <1>5, <1>16, <1>17, <1>18, <1>19

\* Under a control that holds nothing there is nothing.
LEMMA NobodyUnder ==
  ASSUME NEW r, r.nodes \in [Parents -> Seq(ViewTags)], NEW t \in Parents, r.nodes[t] = <<>>
  PROVE  Under(r, t) = {}
<1> DEFINE own(p) == Range(r.nodes[p])
           Closed(Y) == \A p \in Y : own(p) \subseteq Y
           below(p) == {y \in ViewTags : \A Y \in SUBSET ViewTags : own(p) \subseteq Y /\ Closed(Y) => y \in Y}
           Is(f) == f = [p \in Parents |-> own(p) \cup UNION {f[y] : y \in own(p)}]
           f0 == [p \in Parents |-> below(p)]
<1>1. ViewTags \subseteq Parents
  BY DEF Parents
<1>2. \A p \in Parents : own(p) \subseteq ViewTags
  <2> SUFFICES ASSUME NEW p \in Parents, NEW y \in own(p) PROVE y \in ViewTags
    OBVIOUS
  <2>1. r.nodes[p] \in Seq(ViewTags)
    OBVIOUS
  <2>2. PICK i \in 1..Len(r.nodes[p]) : r.nodes[p][i] = y
    BY <2>1, Found
  <2> QED BY <2>1, <2>2
<1>3. own(t) = {}
  BY DEF Range
<1> HIDE DEF own
<1>4. ASSUME NEW p \in Parents PROVE below(p) = own(p) \cup UNION {below(y) : y \in own(p)}
  <2> DEFINE Y0 == own(p) \cup UNION {below(y) : y \in own(p)}
  <2>1. ASSUME NEW y \in Y0 PROVE y \in below(p)
    <3>1. CASE y \in own(p)
      BY <1>2, <3>1
    <3>2. CASE \E z \in own(p) : y \in below(z)
      <4>1. PICK z \in own(p) : y \in below(z)
        BY <3>2
      <4>2. ASSUME NEW Y \in SUBSET ViewTags, own(p) \subseteq Y, Closed(Y) PROVE y \in Y
        <5>1. own(z) \subseteq Y
          BY <4>1, <4>2
        <5> QED BY <4>1, <4>2, <5>1
      <4> QED BY <4>1, <4>2
    <3> QED BY <3>1, <3>2
  <2>2. Y0 \subseteq ViewTags
    BY <1>2
  <2>3. \A z \in Parents : own(z) \subseteq below(z)
    BY <1>2
  <2>4. ASSUME NEW z \in ViewTags, NEW y \in below(z) PROVE own(y) \subseteq below(z)
    <3> SUFFICES ASSUME NEW v \in own(y) PROVE v \in below(z)
      OBVIOUS
    <3>1. y \in ViewTags /\ v \in ViewTags
      BY <1>1, <1>2
    <3>2. ASSUME NEW Y \in SUBSET ViewTags, own(z) \subseteq Y, Closed(Y) PROVE v \in Y
      BY <3>2
    <3> QED BY <3>1, <3>2
  <2>5. Closed(Y0)
    <3> SUFFICES ASSUME NEW y \in Y0 PROVE own(y) \subseteq Y0
      OBVIOUS
    <3>1. CASE y \in own(p)
      <4>1. y \in Parents
        BY <1>1, <1>2, <3>1
      <4>2. own(y) \subseteq below(y)
        BY <2>3, <4>1
      <4> QED BY <3>1, <4>2
    <3>2. CASE \E z \in own(p) : y \in below(z)
      <4>1. PICK z \in own(p) : y \in below(z)
        BY <3>2
      <4>2. z \in ViewTags
        BY <1>2, <4>1
      <4>3. own(y) \subseteq below(z)
        BY <2>4, <4>1, <4>2
      <4> QED BY <4>1, <4>3
    <3> QED BY <3>1, <3>2
  <2>6. own(p) \subseteq Y0
    OBVIOUS
  <2>7. \A y \in below(p) : y \in Y0
    <3> HIDE DEF Y0
    <3> QED BY <2>2, <2>5, <2>6
  <2> HIDE DEF Y0, below
  <2>8. below(p) = Y0
    BY <2>1, <2>7
  <2> QED BY <2>8 DEF Y0
<1> HIDE DEF below
<1>5. Is(f0)
  <2>1. \A p \in Parents : \A y \in own(p) : f0[y] = below(y)
    BY <1>1, <1>2
  <2>2. \A p \in Parents : {f0[y] : y \in own(p)} = {below(y) : y \in own(p)}
    BY <2>1
  <2>3. \A p \in Parents : f0[p] = own(p) \cup UNION {f0[y] : y \in own(p)}
    BY <1>4, <2>2
  <2> QED BY <2>3
<1> DEFINE f1 == CHOOSE f : Is(f)
<1>6. Is(f1)
  <2> HIDE DEF Is, f0
  <2> QED BY <1>5
<1>7. Under(r, t) = f1[t]
  BY DEF Under, own
<1> HIDE DEF f1
<1>8. f1[t] = own(t) \cup UNION {f1[y] : y \in own(t)}
  BY <1>6
<1> QED BY <1>3, <1>7, <1>8

-----------------------------------------------------------------------------
(* A mutation that React may emit takes a tree to a tree, and its mirror with it.           *)

\* Create: a view that no control holds yet, the same in the tree and in its mirror.
LEMMA CreateKeeps ==
  ASSUME NEW r, NEW x, Mirrors(r, x), NEW m \in Mutations, m.op = "create", Legal(x, m)
  PROVE  Diffed(x, m) \in Trees /\ Mirrors(Create(r, m.tag), Diffed(x, m))
<1>1. r \in Registries /\ x \in Trees /\ r.views = x.views /\ Forest(r.views, r.nodes)
  BY DEF Mirrors
<1>2. PICK t \in ViewTags : t = m.tag
  BY MutationFields
<1>3. PICK V, ch, W : V = x.views /\ ch = x.children /\ W = V \cup {t}
  OBVIOUS
<1>4. Forest(V, ch) /\ Forest(V, r.nodes)
  BY <1>1, <1>3 DEF Trees
<1>5. Forest(W, ch) /\ Forest(W, r.nodes)
  BY <1>3, <1>4 DEF Forest
<1>6. PICK y, s : y = [x EXCEPT !.views = @ \cup {t}] /\ s = [r EXCEPT !.views = @ \cup {t}]
  OBVIOUS
<1>7. y \in Trees /\ y.views = W /\ y.children = ch
  BY <1>1, <1>3, <1>5, <1>6 DEF Trees
<1>8. /\ s \in Registries /\ s.views = W /\ s.nodes = r.nodes /\ s.detaching = r.detaching
      /\ s.removed = r.removed
  BY <1>1, <1>3, <1>6 DEF Registries
<1>9. Mirrors(s, y)
  BY <1>3, <1>5, <1>7, <1>8 DEF Mirrors, Leaves
<1>10. Diffed(x, m) = y /\ Create(r, m.tag) = s
  BY <1>2, <1>6 DEF Diffed, Create
<1> QED BY <1>7, <1>9, <1>10

\* A deletion: the control holds nothing when it is freed, and nothing goes with it.
LEMMA DeleteKeeps ==
  ASSUME NEW r, NEW x, Mirrors(r, x), NEW m \in Mutations, m.op = "delete", Legal(x, m)
  PROVE  Diffed(x, m) \in Trees /\ Mirrors(Destroy(r, m.tag), Diffed(x, m))
<1>1. r \in Registries /\ x \in Trees
  BY DEF Mirrors
<1>2. PICK t \in ViewTags : t = m.tag
  BY MutationFields
<1>3. t \in x.views /\ ParentIn(x.children, t) = NoView /\ x.children[t] = <<>> /\ t \in Parents
  BY <1>2 DEF Legal, Parents
<1>4. \A p \in Parents : t \notin Range(x.children[p])
  <2>1. PICK V, ch : V = x.views /\ ch = x.children
    OBVIOUS
  <2>2. Forest(V, ch)
    BY <1>1, <2>1 DEF Trees
  <2> QED BY <1>3, <2>1, <2>2, HolderIs
<1>5. PICK s : s = AllFreed(r, t)
  OBVIOUS
<1>6. Mirrors(s, x) /\ Behind(r, s) /\ Finished(FALSE, t, r.removed, s, 1..Len(r.removed))
  <2>1. r.removed \in Seq(Parents \X ViewTags)
    BY <1>1 DEF Registries
  <2>2. PICK n : n = Len(r.removed)
    OBVIOUS
  <2>3. n \in Nat /\ DOMAIN r.removed = 1..n
    BY <2>1, <2>2
  <2>4. PICK iter : iter = Freedom(FALSE, t, r.removed, r)
    OBVIOUS
  <2>5. Frees(FALSE, t, r.removed, r, iter, SUBSET (1..n)) /\ s = iter[1..n]
    BY <1>5, <2>3, <2>4, FoldOfFreeings
  <2>6. FALSE \in BOOLEAN
    OBVIOUS
  <2>7. Mirrors(iter[1..n], x) /\ Behind(r, iter[1..n]) /\ Finished(FALSE, t, r.removed, iter[1..n], 1..n)
    BY <2>2, <2>3, <2>5, <2>6, FoldsMirror
  <2> QED BY <2>2, <2>5, <2>7
<1>7. s.nodes[t] = <<>>
  <2>1. s.nodes[t] \in Seq(ViewTags) /\ x.children[t] \in Seq(ViewTags)
    BY <1>1, <1>3, <1>6 DEF Mirrors, Registries, Trees
  <2>2. Range(x.children[t]) = {}
    BY <1>3 DEF Range
  <2> SUFFICES ASSUME NEW y \in Range(s.nodes[t]) PROVE FALSE
    <3>1. Range(s.nodes[t]) = {} => Len(s.nodes[t]) = 0
      <4> SUFFICES ASSUME Len(s.nodes[t]) # 0 PROVE Range(s.nodes[t]) # {}
        OBVIOUS
      <4>1. 1 \in 1..Len(s.nodes[t])
        BY <2>1
      <4> QED BY <2>1, <4>1, Found
    <3> QED BY <2>1, <3>1
  <2>3. y \in s.detaching
    BY <1>3, <1>6, <2>2 DEF Mirrors, Shows
  <2>4. PICK i \in 1..Len(s.removed) : s.removed[i][2] = y /\ y \in Range(s.nodes[s.removed[i][1]])
    BY <1>6, <2>3 DEF Mirrors, Leaves
  <2>5. s.removed[i][1] \in Parents
    BY <1>6, PairsOf DEF Mirrors
  <2>6. s.removed[i][1] = t
    BY <1>3, <1>6, <2>4, <2>5 DEF Mirrors, Forest
  <2>7. s.removed = r.removed
    BY <1>6 DEF Behind
  <2> QED BY <1>6, <2>3, <2>4, <2>6, <2>7 DEF Finished
<1>8. Under(s, t) = {}
  BY <1>3, <1>6, <1>7, NobodyUnder DEF Mirrors, Registries
<1>9. PICK u : u = Unparented(s, t)
  OBVIOUS
<1>10. u \in Registries /\ u = [s EXCEPT !.nodes = Less(@, t)]
  BY <1>6, <1>9, UnparentedIs DEF Mirrors
<1>11. PICK d : d = [u EXCEPT !.detaching = @ \ {t}]
  OBVIOUS
<1>12. /\ Mirrors(d, x) /\ t \notin d.detaching
       /\ \A p \in Parents : Range(d.nodes[p]) = Range(s.nodes[p]) \ {t}
  <2>1. Mirrors(s, x) /\ \A p \in Parents : t \notin Range(x.children[p])
    BY <1>4, <1>6
  <2>2. d = [Unparented(s, t) EXCEPT !.detaching = @ \ {t}]
    BY <1>9, <1>11
  <2> QED BY <2>1, <2>2, Detached
<1>13. d.nodes = u.nodes /\ d.nodes \in [Parents -> Seq(ViewTags)] /\ d.nodes[t] = <<>>
  <2>1. d.nodes = u.nodes /\ u.nodes = Less(s.nodes, t) /\ s \in Registries
    BY <1>6, <1>10, <1>11 DEF Registries, Mirrors
  <2>2. d.nodes[t] = RemoveFirst(s.nodes[t], t)
    BY <1>3, <2>1 DEF Less
  <2>3. <<>> \in Seq(ViewTags) /\ Distinct(<<>>) /\ t \notin Range(<<>>)
    BY DEF Distinct, Range
  <2>4. RemoveFirst(<<>>, t) = <<>>
    BY <2>3, FirstIs
  <2> QED BY <1>7, <1>10, <2>1, <2>2, <2>4 DEF Registries
<1>14. PICK e : e = [d EXCEPT !.views = @ \ {t}]
  OBVIOUS
<1>15. Destroy(r, t) = e
  <2>1. Destroy(r, t) = Freed(s, t)
    BY <1>5 DEF Destroy, AllFreed
  <2>2. Freed(s, t) = [u EXCEPT !.views = @ \ {t}, !.detaching = @ \ {t}, !.freed = @ \cup {},
                                !.nodes = [p \in Parents |-> IF p \in {} \cup {t} THEN <<>> ELSE @[p]]]
    BY <1>8, <1>9 DEF Freed
  <2>3. [p \in Parents |-> IF p \in {} \cup {t} THEN <<>> ELSE u.nodes[p]] = u.nodes
    BY <1>13
  <2>4. Freed(s, t) = [u EXCEPT !.views = @ \ {t}, !.detaching = @ \ {t}, !.freed = @ \cup {}, !.nodes = u.nodes]
    BY <2>2, <2>3
  <2>5. u \in Registries
    BY <1>10
  <2>6. ASSUME NEW a, NEW b, NEW f, f = u.freed, NEW n, n = u.nodes
        PROVE  [u EXCEPT !.views = a, !.detaching = b, !.freed = f, !.nodes = n]
                 = [[u EXCEPT !.detaching = b] EXCEPT !.views = a]
    BY <2>5, <2>6 DEF Registries
  <2>7. u.freed \cup {} = u.freed
    OBVIOUS
  <2>8. Freed(s, t) = [[u EXCEPT !.detaching = u.detaching \ {t}] EXCEPT !.views = u.views \ {t}]
    BY <2>4, <2>6, <2>7
  <2>9. d.views = u.views
    BY <1>11, <2>5 DEF Registries
  <2> QED BY <1>11, <1>14, <2>1, <2>8, <2>9
<1>16. PICK y : y = [x EXCEPT !.views = @ \ {t}]
  OBVIOUS
<1>17. Diffed(x, m) = y
  BY <1>2, <1>16 DEF Diffed
<1>18. PICK W : W = x.views \ {t}
  OBVIOUS
<1>19. Forest(W, x.children) /\ Forest(W, d.nodes)
  <2>1. Forest(x.views, x.children) /\ Forest(x.views, d.nodes)
    BY <1>1, <1>12 DEF Trees, Mirrors
  <2>2. \A p \in Parents : t \notin Range(d.nodes[p])
    BY <1>12
  <2> QED BY <1>4, <1>18, <2>1, <2>2 DEF Forest
<1>20. y \in Trees /\ y.views = W /\ y.children = x.children
  BY <1>1, <1>16, <1>18, <1>19 DEF Trees
<1>21. /\ e \in Registries /\ e.views = W /\ e.nodes = d.nodes /\ e.detaching = d.detaching
       /\ e.removed = d.removed
  BY <1>12, <1>14, <1>18 DEF Registries, Mirrors
<1>22. Mirrors(e, y)
  BY <1>12, <1>19, <1>20, <1>21 DEF Mirrors, Leaves
<1> QED BY <1>2, <1>15, <1>17, <1>20, <1>22

\* A removal marks the control.
LEMMA RemoveKeeps ==
  ASSUME NEW r, NEW x, Mirrors(r, x), NEW m \in Mutations, m.op = "remove", Legal(x, m)
  PROVE  Diffed(x, m) \in Trees /\ Mirrors(RemoveChild(r, m.parent, m.tag), Diffed(x, m))
<1>1. r \in Registries /\ x \in Trees /\ r.views = x.views
  BY DEF Mirrors
<1>2. PICK t \in ViewTags, p \in Parents : t = m.tag /\ p = m.parent
  BY DEF Mutations
<1>3. PICK V, ch, no : V = x.views /\ ch = x.children /\ no = r.nodes
  OBVIOUS
<1>4. Forest(V, ch) /\ Forest(V, no)
  BY <1>1, <1>3 DEF Trees, Mirrors
<1>5. t \in Range(ch[p])
  <2>1. ParentIn(ch, t) = p
    BY <1>2, <1>3 DEF Legal
  <2> QED BY <1>4, <2>1, HolderIs
<1>6. t \in Range(no[p]) /\ ParentIn(no, t) = p
  <2>1. t \in Range(no[p])
    BY <1>3, <1>5 DEF Mirrors, Shows
  <2> QED BY <1>4, <2>1, HolderIs
<1>7. PICK less : less = Less(ch, t)
  OBVIOUS
<1>8. Forest(V, less) /\ less = [ch EXCEPT ![p] = RemoveFirst(@, t)]
  <2>1. Forest(V, less)
    BY <1>4, <1>7, ForestLess
  <2>2. less = [ch EXCEPT ![p] = RemoveFirst(@, t)]
    BY <1>4, <1>5, <1>7, LessIs
  <2> QED BY <2>1, <2>2
<1>9. PICK y : y = [x EXCEPT !.children[p] = RemoveFirst(@, t)]
  OBVIOUS
<1>10. y \in Trees /\ y.views = V /\ y.children = less
  <2>1. y = [x EXCEPT !.children = less]
    BY <1>1, <1>3, <1>8, <1>9 DEF Trees
  <2>2. less \in [Parents -> Seq(ViewTags)]
    BY <1>8 DEF Forest
  <2> QED BY <1>1, <1>3, <1>8, <2>1, <2>2 DEF Trees
<1>11. Diffed(x, m) = y
  BY <1>2, <1>9 DEF Diffed
<1>12. PICK s, q : s = RemoveChild(r, p, t) /\ q = Append(r.removed, <<p, t>>)
  OBVIOUS
<1>13. /\ s \in Registries /\ s.views = V /\ s.nodes = no /\ s.detaching = r.detaching \cup {t}
       /\ s.removed = q
  <2>1. Holder(r, t) = p
    BY <1>3, <1>6 DEF Holder
  <2>2. s = [r EXCEPT !.detaching = @ \cup {t}, !.removed = q]
    BY <1>12, <2>1 DEF RemoveChild
  <2>3. <<p, t>> \in Parents \X ViewTags /\ q \in Seq(Parents \X ViewTags)
    BY <1>1, <1>12 DEF Registries
  <2> QED BY <1>1, <1>3, <2>2, <2>3 DEF Registries
<1>14. ASSUME NEW w \in Parents PROVE Shows(no[w], r.detaching \cup {t}, less[w])
  <2>1. Shows(no[w], r.detaching, ch[w])
    BY <1>3 DEF Mirrors
  <2>2. ch[w] \in Seq(ViewTags) /\ Distinct(ch[w]) /\ less[w] = RemoveFirst(ch[w], t)
    BY <1>4, <1>7 DEF Forest, Less
  <2> QED BY <2>1, <2>2, ShowsMarked
<1>15. ASSUME NEW d \in s.detaching PROVE Leaves(s, d)
  <2>1. /\ Len(q) = Len(r.removed) + 1 /\ Len(r.removed) \in Nat /\ q[Len(q)] = <<p, t>>
        /\ \A i \in 1..Len(r.removed) : i \in 1..Len(q) /\ q[i] = r.removed[i]
    <3>1. r.removed \in Seq(Parents \X ViewTags) /\ <<p, t>> \in Parents \X ViewTags
      BY <1>1 DEF Registries
    <3> QED BY <1>12, <3>1
  <2>2. CASE d = t
    <3>1. Len(q) \in 1..Len(q) /\ q[Len(q)][1] = p /\ q[Len(q)][2] = t
      BY <2>1
    <3> QED BY <1>6, <1>13, <2>2, <3>1 DEF Leaves
  <2>3. CASE d # t
    <3>1. Leaves(r, d)
      BY <1>13, <2>3 DEF Mirrors
    <3> QED BY <1>3, <1>13, <2>1, <3>1 DEF Leaves
  <2> QED BY <2>2, <2>3
<1>16. Mirrors(s, y)
  BY <1>4, <1>10, <1>13, <1>14, <1>15 DEF Mirrors
<1> QED BY <1>2, <1>10, <1>11, <1>12, <1>16

\* An insertion takes the control from where it was and puts it where React has the child.
LEMMA InsertKeeps ==
  ASSUME NEW r, NEW x, Mirrors(r, x), NEW m \in Mutations, m.op = "insert", Legal(x, m)
  PROVE  Diffed(x, m) \in Trees /\ Mirrors(InsertChild(r, m.parent, m.tag, m.index), Diffed(x, m))
<1>1. x \in Trees
  BY DEF Mirrors
<1>2. PICK t \in ViewTags, p \in Parents, k \in Nat : t = m.tag /\ p = m.parent /\ k = m.index
  <2>1. m \in [op : {"insert"}, parent : Parents, tag : ViewTags, index : 0..Views]
    BY DEF Mutations
  <2> QED BY <2>1, MountingBounds
<1>3. PICK V, ch : V = x.views /\ ch = x.children
  OBVIOUS
<1>4. Forest(V, ch) /\ t \in V /\ ParentIn(ch, t) = NoView /\ k <= Len(ch[p])
  BY <1>1, <1>2, <1>3 DEF Trees, Legal
<1>5. \A w \in Parents : t \notin Range(ch[w])
  BY <1>4, HolderIs
<1>6. PICK s : s = [Unparented(r, t) EXCEPT !.detaching = @ \ {t}]
  OBVIOUS
<1>7. Mirrors(s, x) /\ t \notin s.detaching /\ \A w \in Parents : t \notin Range(s.nodes[w])
  BY <1>3, <1>5, <1>6, Detached
<1>8. PICK no, D : no = s.nodes /\ D = s.detaching
  OBVIOUS
<1>9. s \in Registries /\ s.views = V /\ Forest(V, no)
  BY <1>3, <1>7, <1>8 DEF Mirrors
<1>10. /\ no[p] \in Seq(ViewTags) /\ Distinct(no[p]) /\ ch[p] \in Seq(ViewTags) /\ Distinct(ch[p])
       /\ Shows(no[p], D, ch[p])
  BY <1>3, <1>4, <1>7, <1>8, <1>9 DEF Mirrors, Forest
<1>11. k \in 0..Len(ch[p])
  BY <1>4, <1>10
<1>12. PICK a : a = Anchor(no[p], D, k)
  OBVIOUS
<1>13. /\ a \in 1..(Len(no[p]) + 1) /\ k + 1 \in 1..(Len(ch[p]) + 1)
       /\ Shows(InsertAt(no[p], a, t), D, InsertAt(ch[p], k + 1, t))
  BY <1>7, <1>8, <1>10, <1>11, <1>12, ShowsPut
<1>14. PICK more, new : more = More(ch, p, k + 1, t) /\ new = More(no, p, a, t)
  OBVIOUS
<1>15. /\ Forest(V, more) /\ more[p] = InsertAt(ch[p], k + 1, t)
       /\ \A q \in Parents : q # p => more[q] = ch[q]
  BY <1>4, <1>5, <1>13, <1>14, ForestMore
<1>16. /\ Forest(V, new) /\ new[p] = InsertAt(no[p], a, t) /\ Range(new[p]) = Range(no[p]) \cup {t}
       /\ \A q \in Parents : q # p => new[q] = no[q]
  <2>1. \A q \in Parents : t \notin Range(no[q])
    BY <1>7, <1>8
  <2>2. /\ Forest(V, new) /\ new[p] = InsertAt(no[p], a, t)
        /\ \A q \in Parents : q # p => new[q] = no[q]
    BY <1>4, <1>9, <1>13, <1>14, <2>1, ForestMore
  <2>3. Range(InsertAt(no[p], a, t)) = Range(no[p]) \cup {t}
    BY <1>10, <1>13, <2>1, Insertion
  <2> QED BY <2>2, <2>3
<1>17. PICK y, z : y = [x EXCEPT !.children[p] = InsertAt(@, k + 1, t)] /\ z = InsertChild(r, p, t, k)
  OBVIOUS
<1>18. y \in Trees /\ y.views = V /\ y.children = more /\ Diffed(x, m) = y
  <2>1. y = [x EXCEPT !.children = more]
    BY <1>1, <1>3, <1>14, <1>17 DEF Trees, More
  <2>2. more \in [Parents -> Seq(ViewTags)]
    BY <1>15 DEF Forest
  <2>3. Diffed(x, m) = y
    BY <1>2, <1>17 DEF Diffed
  <2> QED BY <1>1, <1>3, <1>15, <2>1, <2>2, <2>3 DEF Trees
<1>19. /\ z \in Registries /\ z.views = V /\ z.nodes = new /\ z.detaching = D /\ z.removed = s.removed
  <2>1. z = [s EXCEPT !.nodes[p] = InsertAt(@, Anchor(@, s.detaching, k), t)]
    BY <1>6, <1>17 DEF InsertChild
  <2>2. z = [s EXCEPT !.nodes = new]
    BY <1>8, <1>9, <1>12, <1>14, <2>1 DEF Registries, More
  <2>3. new \in [Parents -> Seq(ViewTags)]
    BY <1>16 DEF Forest
  <2> QED BY <1>8, <1>9, <2>2, <2>3 DEF Registries
<1>20. ASSUME NEW q \in Parents PROVE Shows(new[q], D, more[q])
  <2>1. CASE q = p
    BY <1>13, <1>15, <1>16, <2>1
  <2>2. CASE q # p
    <3>1. Shows(no[q], D, ch[q])
      BY <1>3, <1>7, <1>8 DEF Mirrors
    <3> QED BY <1>15, <1>16, <2>2, <3>1
  <2> QED BY <2>1, <2>2
<1>21. ASSUME NEW d \in D PROVE Leaves(z, d)
  <2>1. PICK i \in 1..Len(s.removed) : s.removed[i][2] = d /\ d \in Range(no[s.removed[i][1]])
    BY <1>7, <1>8 DEF Mirrors, Leaves
  <2>2. s.removed[i][1] \in Parents
    BY <1>9, PairsOf
  <2>3. d \in Range(new[s.removed[i][1]])
    <3>1. PICK w \in Parents : w = s.removed[i][1]
      BY <2>2
    <3>2. d \in Range(no[w])
      BY <2>1, <3>1
    <3>3. d \in Range(new[w])
      BY <1>16, <3>2
    <3> QED BY <3>1, <3>3
  <2> QED BY <1>19, <2>1, <2>3 DEF Leaves
<1>22. Mirrors(z, y)
  BY <1>15, <1>16, <1>18, <1>19, <1>20, <1>21 DEF Mirrors
<1> QED BY <1>2, <1>17, <1>18, <1>22

\* So does each mutation.
LEMMA MutatedKeeps ==
  ASSUME NEW r, NEW x, Mirrors(r, x), NEW m \in Mutations, Legal(x, m)
  PROVE  Diffed(x, m) \in Trees /\ Mirrors(Mutated(r, m), Diffed(x, m))
<1>1. m.op \in {"create", "delete", "insert", "remove"}
  BY MutationFields
<1>2. CASE m.op = "create"
  BY <1>2, CreateKeeps DEF Mutated
<1>3. CASE m.op = "delete"
  BY <1>3, DeleteKeeps DEF Mutated
<1>4. CASE m.op = "insert"
  BY <1>4, InsertKeeps DEF Mutated
<1>5. CASE m.op = "remove"
  BY <1>5, RemoveKeeps DEF Mutated
<1> QED BY <1>1, <1>2, <1>3, <1>4, <1>5

\* A tree and what mirrors it when nothing is removed are one.
Exact(r, x) == /\ r.views = x.views /\ r.nodes = x.children /\ r.removed = <<>>
               /\ r.detaching = {} /\ r.freed = {}

\* With no removal left, nothing detaches: the mirror is the tree itself.
LEMMA MirrorIsExact ==
  ASSUME NEW r, NEW x, Mirrors(r, x), r.removed = <<>>
  PROVE  Exact(r, x)
<1>1. r.detaching = {}
  BY DEF Mirrors, Leaves
<1>2. r.freed = {} /\ r.views = x.views
  BY DEF Mirrors, Registries
<1>3. PICK ch, no : ch = x.children /\ no = r.nodes
  OBVIOUS
<1>4. ch \in [Parents -> Seq(ViewTags)] /\ no \in [Parents -> Seq(ViewTags)]
  BY <1>3 DEF Mirrors, Registries, Trees
<1>5. ASSUME NEW p \in Parents PROVE no[p] = ch[p]
  <2>1. no[p] \in Seq(ViewTags) /\ Distinct(no[p]) /\ ch[p] \in Seq(ViewTags) /\ Distinct(ch[p])
    BY <1>3, <1>4 DEF Mirrors, Trees, Forest
  <2>2. Shows(no[p], {}, ch[p])
    BY <1>1, <1>3 DEF Mirrors
  <2> QED BY <2>1, <2>2, SameList
<1>6. no = ch
  BY <1>4, <1>5
<1> QED BY <1>1, <1>2, <1>3, <1>6 DEF Exact

\* When a transaction has ended nothing is detaching.
LEMMA EndMirrors ==
  ASSUME NEW r, NEW x, Mirrors(r, x)
  PROVE  LET n == [AllFinished(r) EXCEPT !.removed = <<>>]
         IN  Mirrors(n, x) /\ n.removed = <<>>
<1>1. r \in Registries /\ r.removed \in Seq(Parents \X ViewTags)
  BY DEF Mirrors, Registries
<1>2. PICK c : c = Len(r.removed)
  OBVIOUS
<1>3. c \in Nat /\ DOMAIN r.removed = 1..c
  BY <1>1, <1>2
<1>4. PICK iter, s : iter = Freedom(TRUE, 0, r.removed, r) /\ s = AllFinished(r)
  OBVIOUS
<1>5. Frees(TRUE, 0, r.removed, r, iter, SUBSET (1..c)) /\ s = iter[1..c]
  BY <1>3, <1>4, FoldOfRemovals
<1>6. TRUE \in BOOLEAN
  OBVIOUS
<1>7. Mirrors(s, x) /\ Behind(r, s) /\ Finished(TRUE, 0, r.removed, s, 1..c)
  BY <1>2, <1>3, <1>5, <1>6, FoldsMirror
<1>8. s.detaching = {}
  <2> SUFFICES ASSUME NEW t \in s.detaching PROVE FALSE
    OBVIOUS
  <2>1. PICK i \in 1..Len(s.removed) : s.removed[i][2] = t
    BY <1>7 DEF Mirrors, Leaves
  <2> QED BY <1>2, <1>7, <2>1 DEF Finished, Behind
<1>9. PICK n : n = [s EXCEPT !.removed = <<>>]
  OBVIOUS
<1>10. /\ n \in Registries /\ n.views = s.views /\ n.nodes = s.nodes /\ n.detaching = {}
       /\ n.removed = <<>>
  <2>1. <<>> \in Seq(Parents \X ViewTags) /\ s \in Registries
    BY <1>7 DEF Mirrors
  <2>2. PICK e \in Seq(Parents \X ViewTags) : e = <<>>
    BY <2>1
  <2>3. n = [s EXCEPT !.removed = e]
    BY <1>9, <2>2
  <2>4. /\ n \in Registries /\ n.views = s.views /\ n.nodes = s.nodes /\ n.detaching = s.detaching
        /\ n.removed = e
    BY <2>1, <2>3 DEF Registries
  <2> QED BY <1>8, <2>2, <2>4
<1>11. Mirrors(n, x)
  BY <1>7, <1>8, <1>10 DEF Mirrors
<1> QED BY <1>4, <1>9, <1>10, <1>11

\* A tree has a mirror, so what a mutation makes of it is a tree.
LEMMA MirrorOf ==
  ASSUME NEW x \in Trees
  PROVE  Mirrors(Mirror(x), x)
<1>1. PICK r : r = Mirror(x)
  OBVIOUS
<1>2. /\ r \in Registries /\ r.views = x.views /\ r.nodes = x.children /\ r.detaching = {}
  <2>1. PICK e : e = <<>>
    OBVIOUS
  <2>2. e \in Seq(Parents \X ViewTags)
    BY <2>1
  <2>3. r = [views |-> x.views, nodes |-> x.children, detaching |-> {}, removed |-> e, freed |-> {}]
    BY <1>1, <2>1 DEF Mirror
  <2> QED BY <2>2, <2>3 DEF Registries, Trees
<1>3. Forest(r.views, r.nodes)
  BY <1>2 DEF Trees
<1>4. \A p \in Parents : Shows(r.nodes[p], r.detaching, x.children[p])
  BY <1>2 DEF Shows
<1> QED BY <1>1, <1>2, <1>3, <1>4 DEF Mirrors

\* What React builds from a tree with a legal mutation is a tree.
LEMMA DiffedIsTree ==
  ASSUME NEW x \in Trees, NEW m \in Mutations, Legal(x, m)
  PROVE  Diffed(x, m) \in Trees
BY MirrorOf, MutatedKeeps

-----------------------------------------------------------------------------
(* A list of mutations leads from a tree to another if React may emit them one after the     *)
(* other; so do transactions, each from the tree that the one before it left.               *)

Path(f, a, L, b) ==
  /\ f \in [0..Len(L) -> Trees] /\ f[0] = a /\ f[Len(L)] = b
  /\ \A i \in 1..Len(L) : Legal(f[i - 1], L[i]) /\ f[i] = Diffed(f[i - 1], L[i])
Leads(a, L, b) == \E f : Path(f, a, L, b)

\* No mutation.
LEMMA LeadsNowhere ==
  ASSUME NEW a, NEW b
  PROVE  /\ a \in Trees => Leads(a, <<>>, a)
         /\ Leads(a, <<>>, b) => a = b
<1>1. PICK e : e = <<>>
  OBVIOUS
<1>2. Len(e) = 0
  BY <1>1
<1>3. ASSUME a \in Trees PROVE Leads(a, e, a)
  <2> DEFINE f == [i \in 0..0 |-> a]
  <2>1. f \in [0..Len(e) -> Trees] /\ f[0] = a /\ f[Len(e)] = a
    BY <1>2, <1>3
  <2>2. \A i \in 1..Len(e) : FALSE
    BY <1>2
  <2> HIDE DEF f
  <2> QED BY <2>1, <2>2 DEF Leads, Path
<1>4. Leads(a, e, b) => a = b
  BY <1>2 DEF Leads, Path
<1> QED BY <1>1, <1>3, <1>4

\* One more.
LEMMA LeadsOn ==
  ASSUME NEW a, NEW L \in Seq(Mutations), NEW b, Leads(a, L, b), NEW m \in Mutations, Legal(b, m)
  PROVE  Leads(a, Append(L, m), Diffed(b, m))
<1>1. PICK f : Path(f, a, L, b)
  BY DEF Leads
<1>2. PICK M, n, d : M = Append(L, m) /\ n = Len(L) /\ d = Diffed(b, m)
  OBVIOUS
<1>3. n \in Nat /\ Len(M) = n + 1 /\ M[n + 1] = m /\ \A i \in 1..n : M[i] = L[i]
  BY <1>2
<1>4. /\ f \in [0..n -> Trees] /\ f[0] = a /\ f[n] = b
      /\ \A i \in 1..n : Legal(f[i - 1], L[i]) /\ f[i] = Diffed(f[i - 1], L[i])
  BY <1>1, <1>2 DEF Path
<1>5. b \in Trees
  BY <1>3, <1>4
<1>6. d \in Trees
  BY <1>2, <1>5, DiffedIsTree
<1> DEFINE g == [i \in 0..(n + 1) |-> IF i = n + 1 THEN d ELSE f[i]]
<1>7. g \in [0..(n + 1) -> Trees]
  BY <1>3, <1>4, <1>6
<1>8. g[n + 1] = d /\ \A i \in 0..n : g[i] = f[i]
  BY <1>3
<1> HIDE DEF g
<1>9. g[0] = a /\ g[n] = b
  BY <1>3, <1>4, <1>8
<1>10. ASSUME NEW i \in 1..(n + 1) PROVE Legal(g[i - 1], M[i]) /\ g[i] = Diffed(g[i - 1], M[i])
  <2>1. CASE i = n + 1
    <3>1. g[i - 1] = b /\ M[i] = m /\ g[i] = d
      BY <1>3, <1>8, <1>9, <2>1
    <3> QED BY <1>2, <3>1
  <2>2. CASE i # n + 1
    <3>1. i \in 1..n /\ i - 1 \in 0..n
      BY <1>3, <2>2
    <3>2. g[i - 1] = f[i - 1] /\ M[i] = L[i] /\ g[i] = f[i]
      BY <1>3, <1>8, <3>1
    <3> QED BY <1>4, <3>1, <3>2
  <2> QED BY <2>1, <2>2
<1>11. Path(g, a, M, d)
  BY <1>3, <1>7, <1>8, <1>9, <1>10 DEF Path
<1> QED BY <1>2, <1>11 DEF Leads

\* The first one.
LEMMA LeadsFirst ==
  ASSUME NEW a, NEW L \in Seq(Mutations), L # <<>>, NEW b, Leads(a, L, b)
  PROVE  Legal(a, L[1]) /\ Leads(Diffed(a, L[1]), Tail(L), b)
<1>1. PICK f : Path(f, a, L, b)
  BY DEF Leads
<1>2. PICK M, n : M = Tail(L) /\ n = Len(L)
  OBVIOUS
<1>3. n \in Nat /\ n >= 1 /\ Len(M) = n - 1 /\ \A i \in 1..(n - 1) : M[i] = L[i + 1]
  BY <1>2
<1>4. /\ f \in [0..n -> Trees] /\ f[0] = a /\ f[n] = b
      /\ \A i \in 1..n : Legal(f[i - 1], L[i]) /\ f[i] = Diffed(f[i - 1], L[i])
  BY <1>1, <1>2 DEF Path
<1>5. Legal(a, L[1]) /\ f[1] = Diffed(a, L[1])
  <2>1. 1 \in 1..n /\ 1 - 1 = 0
    BY <1>3
  <2>2. Legal(f[1 - 1], L[1]) /\ f[1] = Diffed(f[1 - 1], L[1])
    BY <1>4, <2>1
  <2> QED BY <1>4, <2>1, <2>2
<1> DEFINE g == [i \in 0..(n - 1) |-> f[i + 1]]
<1>6. g \in [0..(n - 1) -> Trees]
  BY <1>3, <1>4
<1>7. \A i \in 0..(n - 1) : g[i] = f[i + 1]
  OBVIOUS
<1> HIDE DEF g
<1>8. g[0] = f[1] /\ g[n - 1] = b
  <2>1. 0 \in 0..(n - 1) /\ n - 1 \in 0..(n - 1) /\ (n - 1) + 1 = n
    BY <1>3
  <2>2. g[0] = f[0 + 1] /\ g[n - 1] = f[(n - 1) + 1] /\ 0 + 1 = 1
    BY <1>7, <2>1
  <2> QED BY <1>4, <2>1, <2>2
<1>9. ASSUME NEW i \in 1..(n - 1) PROVE Legal(g[i - 1], M[i]) /\ g[i] = Diffed(g[i - 1], M[i])
  <2>1. i + 1 \in 1..n /\ i - 1 \in 0..(n - 1) /\ i \in 0..(n - 1) /\ (i - 1) + 1 = i /\ (i + 1) - 1 = i
    BY <1>3
  <2>2. g[i - 1] = f[i] /\ g[i] = f[i + 1] /\ M[i] = L[i + 1]
    <3>1. g[i - 1] = f[(i - 1) + 1] /\ g[i] = f[i + 1]
      BY <1>7, <2>1
    <3> QED BY <1>3, <2>1, <3>1
  <2>3. Legal(f[(i + 1) - 1], L[i + 1]) /\ f[i + 1] = Diffed(f[(i + 1) - 1], L[i + 1])
    BY <1>4, <2>1
  <2> QED BY <2>1, <2>2, <2>3
<1>10. Path(g, f[1], M, b)
  BY <1>3, <1>6, <1>8, <1>9 DEF Path
<1> QED BY <1>2, <1>5, <1>10 DEF Leads

\* Where a path ends there is a tree.
LEMMA LeadsToTree ==
  ASSUME NEW a, NEW L \in Seq(Mutations), NEW b, Leads(a, L, b)
  PROVE  a \in Trees /\ b \in Trees
<1>1. PICK f : f \in [0..Len(L) -> Trees] /\ f[0] = a /\ f[Len(L)] = b
  BY DEF Leads, Path
<1>2. Len(L) \in Nat /\ 0 \in 0..Len(L) /\ Len(L) \in 0..Len(L)
  OBVIOUS
<1> QED BY <1>1, <1>2

Prior(a, q, i) == IF i = 1 THEN a ELSE q[i - 1].tree
LastOf(a, q) == IF q = <<>> THEN a ELSE q[Len(q)].tree
Linked(a, q) ==
  \A i \in 1..Len(q) : "tree" \in DOMAIN q[i] /\ Leads(Prior(a, q, i), q[i].list, q[i].tree)

\* No transaction.
LEMMA LinkedNone == ASSUME NEW a PROVE Linked(a, <<>>) /\ LastOf(a, <<>>) = a
<1>1. PICK e : e = <<>>
  OBVIOUS
<1>2. Len(e) = 0
  BY <1>1
<1>3. Linked(a, e)
  BY <1>2 DEF Linked
<1> QED BY <1>1, <1>3 DEF LastOf

\* One more.
LEMMA LinkedOn ==
  ASSUME NEW S, NEW q \in Seq(S), NEW a, Linked(a, q), NEW y, "tree" \in DOMAIN y,
         Leads(LastOf(a, q), y.list, y.tree)
  PROVE  Linked(a, Append(q, y)) /\ LastOf(a, Append(q, y)) = y.tree
<1>1. PICK U, w, n : U = S \cup {y} /\ w = Append(q, y) /\ n = Len(q)
  OBVIOUS
<1>2. q \in Seq(U) /\ y \in U
  BY <1>1
<1>3. /\ w \in Seq(U) /\ n \in Nat /\ Len(w) = n + 1 /\ w[n + 1] = y /\ w # <<>>
      /\ \A i \in 1..n : w[i] = q[i]
  BY <1>1, <1>2
<1>4. LastOf(a, w) = y.tree
  BY <1>3 DEF LastOf
<1>5. ASSUME NEW i \in 1..(n + 1)
      PROVE  "tree" \in DOMAIN w[i] /\ Leads(Prior(a, w, i), w[i].list, w[i].tree)
  <2>1. CASE i = n + 1
    <3>1. Prior(a, w, i) = LastOf(a, q)
      <4>1. CASE n = 0
        <5>1. Len(q) = 0
          BY <1>1, <4>1
        <5>2. q = <<>> /\ i = 1
          BY <2>1, <4>1, <5>1, EmptySeq
        <5> QED BY <5>2 DEF Prior, LastOf
      <4>2. CASE n # 0
        <5>1. q # <<>> /\ i # 1 /\ i - 1 = n /\ n \in 1..n
          BY <1>1, <1>3, <2>1, <4>2
        <5> QED BY <1>1, <1>3, <5>1 DEF Prior, LastOf
      <4> QED BY <4>1, <4>2
    <3> QED BY <1>3, <2>1, <3>1
  <2>2. CASE i # n + 1
    <3>1. i \in 1..n /\ (i # 1 => i - 1 \in 1..n)
      BY <1>3, <2>2
    <3>2. w[i] = q[i] /\ Prior(a, w, i) = Prior(a, q, i)
      BY <1>3, <3>1 DEF Prior
    <3> QED BY <1>1, <3>1, <3>2 DEF Linked
  <2> QED BY <2>1, <2>2
<1>6. Linked(a, w)
  BY <1>3, <1>5 DEF Linked
<1> QED BY <1>1, <1>4, <1>6

\* The first one.
LEMMA LinkedFirst ==
  ASSUME NEW S, NEW q \in Seq(S), q # <<>>, NEW a, Linked(a, q)
  PROVE  /\ "tree" \in DOMAIN Head(q) /\ Leads(a, Head(q).list, Head(q).tree)
         /\ Linked(Head(q).tree, Tail(q)) /\ LastOf(a, q) = LastOf(Head(q).tree, Tail(q))
<1>1. PICK y, w, n : y = Head(q) /\ w = Tail(q) /\ n = Len(q)
  OBVIOUS
<1>2. /\ n \in Nat /\ n >= 1 /\ w \in Seq(S) /\ Len(w) = n - 1 /\ y = q[1]
      /\ \A i \in 1..(n - 1) : w[i] = q[i + 1]
  BY <1>1
<1>3. "tree" \in DOMAIN y /\ Leads(a, y.list, y.tree)
  <2>1. 1 \in 1..n /\ Prior(a, q, 1) = a
    BY <1>2 DEF Prior
  <2> QED BY <1>1, <1>2, <2>1 DEF Linked
<1>4. ASSUME NEW i \in 1..(n - 1)
      PROVE  "tree" \in DOMAIN w[i] /\ Leads(Prior(y.tree, w, i), w[i].list, w[i].tree)
  <2>1. i + 1 \in 1..n /\ i + 1 # 1 /\ (i + 1) - 1 = i /\ w[i] = q[i + 1]
    BY <1>2
  <2>2. Prior(y.tree, w, i) = Prior(a, q, i + 1)
    <3>1. CASE i = 1
      BY <1>2, <2>1, <3>1 DEF Prior
    <3>2. CASE i # 1
      <4>1. i - 1 \in 1..(n - 1) /\ (i - 1) + 1 = i
        BY <1>2, <3>2
      <4>2. w[i - 1] = q[i]
        BY <1>2, <4>1
      <4> QED BY <2>1, <3>2, <4>2 DEF Prior
    <3> QED BY <3>1, <3>2
  <2> QED BY <1>1, <2>1, <2>2 DEF Linked
<1>5. Linked(y.tree, w)
  BY <1>2, <1>4 DEF Linked
<1>6. LastOf(a, q) = LastOf(y.tree, w)
  <2>1. CASE n = 1
    <3>1. w = <<>>
      BY <1>2, <2>1
    <3> QED BY <1>1, <1>2, <2>1, <3>1 DEF LastOf
  <2>2. CASE n # 1
    <3>1. w # <<>> /\ Len(w) \in 1..(n - 1) /\ Len(w) + 1 = n
      BY <1>2, <2>2
    <3>2. w[Len(w)] = q[n]
      BY <1>2, <3>1
    <3> QED BY <1>1, <3>1, <3>2 DEF LastOf
  <2> QED BY <2>1, <2>2
<1> QED BY <1>1, <1>3, <1>5, <1>6

\* One before.
LEMMA LinkedBefore ==
  ASSUME NEW S, NEW q \in Seq(S), NEW a, NEW y, "tree" \in DOMAIN y, Leads(a, y.list, y.tree),
         Linked(y.tree, q)
  PROVE  Linked(a, <<y>> \o q) /\ LastOf(a, <<y>> \o q) = LastOf(y.tree, q)
<1>1. PICK U, w, n, h : U = S \cup {y} /\ h = <<y>> /\ w = h \o q /\ n = Len(q)
  OBVIOUS
<1>2. q \in Seq(U) /\ h \in Seq(U) /\ Len(h) = 1 /\ h[1] = y
  BY <1>1
<1>3. /\ w \in Seq(U) /\ Len(w) = 1 + n
      /\ \A i \in 1..(1 + n) : w[i] = IF i <= 1 THEN h[i] ELSE q[i - 1]
  BY <1>1, <1>2, ConcatProperties
<1>4. n \in Nat /\ Len(w) = n + 1 /\ w[1] = y /\ w # <<>> /\ \A i \in 1..n : w[i + 1] = q[i]
  <2>1. n \in Nat
    BY <1>1
  <2>2. w[1] = y
    <3>1. 1 \in 1..(1 + n)
      BY <2>1
    <3> QED BY <1>2, <1>3, <3>1
  <2>3. ASSUME NEW i \in 1..n PROVE w[i + 1] = q[i]
    <3>1. i + 1 \in 1..(1 + n) /\ ~(i + 1 <= 1) /\ (i + 1) - 1 = i
      BY <2>1
    <3> QED BY <1>3, <3>1
  <2> QED BY <1>3, <2>1, <2>2, <2>3
<1>5. ASSUME NEW i \in 1..(n + 1)
      PROVE  "tree" \in DOMAIN w[i] /\ Leads(Prior(a, w, i), w[i].list, w[i].tree)
  <2>1. CASE i = 1
    BY <1>4, <2>1 DEF Prior
  <2>2. CASE i # 1
    <3>1. PICK k \in 1..n : k + 1 = i
      <4>1. i - 1 \in 1..n /\ (i - 1) + 1 = i
        BY <1>4, <2>2
      <4> QED BY <4>1
    <3>2. w[i] = q[k] /\ i - 1 = k
      BY <1>4, <3>1
    <3>3. Prior(a, w, i) = Prior(y.tree, q, k)
      <4>1. CASE k = 1
        BY <1>4, <2>2, <3>2, <4>1 DEF Prior
      <4>2. CASE k # 1
        <5>1. k - 1 \in 1..n /\ (k - 1) + 1 = k
          BY <1>4, <4>2
        <5>2. w[k] = q[k - 1]
          BY <1>4, <5>1
        <5> QED BY <2>2, <3>2, <4>2, <5>2 DEF Prior
      <4> QED BY <4>1, <4>2
    <3> QED BY <1>1, <3>2, <3>3 DEF Linked
  <2> QED BY <2>1, <2>2
<1>6. Linked(a, w)
  BY <1>4, <1>5 DEF Linked
<1>7. LastOf(a, w) = LastOf(y.tree, q)
  <2>1. CASE n = 0
    <3>1. Len(q) = 0
      BY <1>1, <2>1
    <3>2. q = <<>>
      BY <3>1, EmptySeq
    <3> QED BY <1>4, <2>1, <3>2 DEF LastOf
  <2>2. CASE n # 0
    <3>1. q # <<>> /\ n \in 1..n
      BY <1>1, <1>4, <2>2
    <3> QED BY <1>1, <1>4, <3>1 DEF LastOf
  <2> QED BY <2>1, <2>2
<1> QED BY <1>1, <1>6, <1>7

-----------------------------------------------------------------------------
(* The views mirror a tree, now, from which all that is outstanding leads to React's tree:   *)
(* the transactions of the running flush, those that wait, and the one React builds.        *)

Outstanding(now, B, P, U, x) ==
  /\ Linked(now, B) /\ Linked(LastOf(now, B), P) /\ Leads(LastOf(LastOf(now, B), P), U, x)
Stands(r, now, B, m) ==
  Mirrors(r, now) /\ (B = <<>> => now = m.tree /\ r.removed = <<>>)

TreesInv ==
  /\ "tree" \in DOMAIN mounted
  /\ registered => \E now : /\ Outstanding(now, batch, pending, building, react)
                            /\ Stands(registry, now, batch, mounted)
  /\ ~registered => registry = Mirror(NoTree) /\ mounted.tree = NoTree

\* At first.
LEMMA TreesStart == MountingInit => TreesInv
<1> SUFFICES ASSUME MountingInit PROVE TreesInv
  OBVIOUS
<1>1. /\ react = Tree0 /\ building = <<>> /\ pending = <<>> /\ batch = <<>>
      /\ registry = Mirror(Tree0) /\ registered = TRUE /\ mounted = [count |-> 0, tree |-> Tree0]
  BY DEF MountingInit
<1>2. 1 \in ViewTags /\ 2 \in ViewTags /\ {0, 1} \subseteq Parents
  BY MountingBounds DEF ViewTags, Parents, Root
<1>3. Tree0 \in Trees
  <2> DEFINE kids(p) == IF p \in {0, 1} THEN <<p + 1>> ELSE <<>>
  <2>1. ASSUME NEW p \in Parents
        PROVE  /\ kids(p) \in Seq(ViewTags) /\ Distinct(kids(p))
               /\ Range(kids(p)) = IF p \in {0, 1} THEN {p + 1} ELSE {}
    <3>1. CASE p \in {0, 1}
      <4>1. PICK v \in ViewTags : v = p + 1
        BY <1>2, <3>1
      <4>2. PICK s : s = <<v>>
        OBVIOUS
      <4>3. s \in Seq(ViewTags) /\ Len(s) = 1 /\ s[1] = v
        BY <4>2
      <4>4. Distinct(s)
        BY <4>3 DEF Distinct
      <4>5. Range(s) = {v}
        <5>1. \A x : x \in Range(s) <=> x = v
          BY <4>3, Found
        <5> QED BY <5>1
      <4> QED BY <3>1, <4>1, <4>2, <4>3, <4>4, <4>5
    <3>2. CASE p \notin {0, 1}
      <4>1. PICK s : s = <<>>
        OBVIOUS
      <4>2. s \in Seq(ViewTags) /\ Len(s) = 0
        BY <4>1
      <4>3. Distinct(s)
        BY <4>2 DEF Distinct
      <4>4. Range(s) = {}
        <5>1. \A x : x \notin Range(s)
          <6>1. ~\E i \in 1..Len(s) : TRUE
            BY <4>2
          <6>2. ASSUME NEW x PROVE x \notin Range(s)
            <7>1. x \in Range(s) <=> \E i \in 1..Len(s) : s[i] = x
              BY <4>2, Found
            <7> QED BY <6>1, <7>1
          <6> QED BY <6>2
        <5> QED BY <5>1
      <4> QED BY <3>2, <4>1, <4>2, <4>3, <4>4
    <3> QED BY <3>1, <3>2
  <2>2. PICK ch : ch = [p \in Parents |-> kids(p)]
    OBVIOUS
  <2> HIDE DEF kids
  <2>3. /\ ch \in [Parents -> Seq(ViewTags)]
        /\ \A p \in Parents : /\ Distinct(ch[p])
                               /\ Range(ch[p]) = IF p \in {0, 1} THEN {p + 1} ELSE {}
    BY <2>1, <2>2
  <2>4. Forest({1, 2}, ch)
    <3> SUFFICES ASSUME NEW p \in Parents, NEW t \in Range(ch[p]), NEW q \in Parents, t \in Range(ch[q])
                 PROVE  t \in {1, 2} /\ q = p
      <4>1. ASSUME NEW p \in Parents, NEW t \in Range(ch[p]) PROVE t \in {1, 2}
        BY <2>3, <4>1
      <4> QED BY <2>3, <4>1 DEF Forest
    <3>1. p \in {0, 1} /\ t = p + 1 /\ q \in {0, 1} /\ t = q + 1
      BY <2>3
    <3> QED BY <3>1
  <2>5. PICK x : x = Tree0
    OBVIOUS
  <2>6. x = [views |-> {1, 2}, children |-> ch]
    BY <2>2, <2>5 DEF Tree0, kids
  <2>7. x \in Trees
    BY <1>2, <2>3, <2>4, <2>6 DEF Trees
  <2> QED BY <2>5, <2>7
<1>4. Outstanding(Tree0, batch, pending, building, react)
  BY <1>1, <1>3, LinkedNone, LeadsNowhere DEF Outstanding
<1>5. Stands(registry, Tree0, batch, mounted)
  <2>1. Mirrors(registry, Tree0)
    BY <1>1, <1>3, MirrorOf
  <2>2. registry.removed = <<>> /\ mounted.tree = Tree0
    BY <1>1 DEF Mirror
  <2> QED BY <2>1, <2>2 DEF Stands
<1> QED BY <1>1, <1>4, <1>5 DEF TreesInv

\* React adds a mutation.
LEMMA DiffFollows == MountingInv /\ TreesInv /\ Diff => TreesInv'
<1> SUFFICES ASSUME MountingInv, TreesInv, Diff PROVE TreesInv'
  OBVIOUS
<1>1. PICK m \in Mutations : /\ Legal(react, m) /\ react' = Diffed(react, m) /\ building' = Append(building, m)
  BY DEF Diff
<1>2. UNCHANGED <<pending, batch, registry, mounted, registered>>
  BY DEF Diff
<1>3. ASSUME NEW now, Outstanding(now, batch, pending, building, react)
      PROVE  Outstanding(now, batch, pending, building', react')
  <2>1. building \in Seq(Mutations)
    BY DEF MountingInv, MountingTypeOK
  <2> QED BY <1>1, <1>3, <2>1, LeadsOn DEF Outstanding
<1> QED BY <1>2, <1>3 DEF TreesInv

\* React commits.
LEMMA CommitFollows == MountingInv /\ TreesInv /\ Commit => TreesInv'
<1> SUFFICES ASSUME MountingInv, TreesInv, Commit PROVE TreesInv'
  OBVIOUS
<1>1. /\ pending' = Append(pending, [list |-> building, tree |-> react]) /\ building' = <<>>
      /\ UNCHANGED <<react, batch, registry, mounted, registered>>
  BY DEF Commit, ExecuteMount
<1>2. PICK S : pending \in Seq(S)
  BY DEF MountingInv, MountingTypeOK, Transactions
<1>3. PICK y : y = [list |-> building, tree |-> react]
  OBVIOUS
<1>4. "tree" \in DOMAIN y /\ y.list = building /\ y.tree = react
  BY <1>3
<1>5. ASSUME NEW now, Outstanding(now, batch, pending, building, react)
      PROVE  Outstanding(now, batch, Append(pending, y), <<>>, react)
  <2>1. PICK b : b = LastOf(now, batch)
    OBVIOUS
  <2>2. Linked(b, pending) /\ Leads(LastOf(b, pending), y.list, y.tree)
    BY <1>4, <1>5, <2>1 DEF Outstanding
  <2>3. Linked(b, Append(pending, y)) /\ LastOf(b, Append(pending, y)) = react
    BY <1>2, <1>4, <2>2, LinkedOn
  <2>4. react \in Trees
    <3>1. building \in Seq(Mutations)
      BY DEF MountingInv, MountingTypeOK
    <3> QED BY <1>4, <2>2, <3>1, LeadsToTree
  <2>5. Leads(react, <<>>, react)
    BY <2>4, LeadsNowhere
  <2> QED BY <1>5, <2>1, <2>3, <2>5 DEF Outstanding
<1> QED BY <1>1, <1>3, <1>5 DEF TreesInv

\* A flush takes what is pending.
LEMMA TakeFollows == MountingInv /\ TreesInv /\ TakePending => TreesInv'
<1> SUFFICES ASSUME MountingInv, TreesInv, TakePending PROVE TreesInv'
  OBVIOUS
<1>1. /\ batch = <<>> /\ batch' = pending /\ pending' = <<>>
      /\ UNCHANGED <<react, building, registry, mounted, registered>>
  BY DEF TakePending
<1>2. ASSUME NEW now, Outstanding(now, batch, pending, building, react), Stands(registry, now, batch, mounted)
      PROVE  Outstanding(now, pending, <<>>, building, react) /\ Stands(registry, now, pending, mounted)
  <2>1. LastOf(now, batch) = now /\ Linked(now, pending) /\ Leads(LastOf(now, pending), building, react)
    BY <1>1, <1>2, LinkedNone DEF Outstanding
  <2>2. Linked(LastOf(now, pending), <<>>) /\ LastOf(LastOf(now, pending), <<>>) = LastOf(now, pending)
    BY LinkedNone
  <2> QED BY <1>1, <1>2, <2>1, <2>2 DEF Outstanding, Stands
<1> QED BY <1>1, <1>2 DEF TreesInv

\* A flush applies a mutation, and the views mirror the tree that React had after it.
LEMMA ApplyFollows == MountingInv /\ TreesInv /\ ApplyMutation => TreesInv'
<1> SUFFICES ASSUME MountingInv, TreesInv, ApplyMutation PROVE TreesInv'
  OBVIOUS
<1>1. /\ batch # <<>> /\ registered /\ Current.list # <<>>
      /\ registry' = Mutated(registry, Head(Current.list))
      /\ batch' = <<[Current EXCEPT !.list = Tail(@)]>> \o Later
      /\ UNCHANGED <<react, building, pending, mounted, registered>>
  BY DEF ApplyMutation
<1>2. PICK S : batch \in Seq(S) /\ \A y \in S : IsTransaction(y)
  BY DEF MountingInv, MountingTypeOK, Transactions
<1>3. PICK y, rest, L : y = Head(batch) /\ rest = Tail(batch) /\ L = y.list
  OBVIOUS
<1>4. y \in S /\ rest \in Seq(S) /\ Current = y /\ Later = rest /\ IsTransaction(y)
  BY <1>1, <1>2, <1>3 DEF Current, Later
<1>5. L \in Seq(Mutations) /\ L # <<>> /\ "list" \in DOMAIN y
  BY <1>1, <1>3, <1>4 DEF IsTransaction
<1>6. PICK m \in Mutations : m = L[1] /\ m = Head(L)
  BY <1>5
<1>7. PICK now : Outstanding(now, batch, pending, building, react) /\ Stands(registry, now, batch, mounted)
  BY <1>1 DEF TreesInv
<1>8. PICK next, z : next = Diffed(now, m) /\ z = [y EXCEPT !.list = Tail(@)]
  OBVIOUS
<1>9. /\ "tree" \in DOMAIN y /\ Leads(now, L, y.tree) /\ Linked(y.tree, rest)
      /\ LastOf(now, batch) = LastOf(y.tree, rest)
  BY <1>1, <1>2, <1>3, <1>7, LinkedFirst DEF Outstanding
<1>10. Legal(now, m) /\ Leads(next, Tail(L), y.tree)
  BY <1>5, <1>6, <1>8, <1>9, LeadsFirst
<1>11. "tree" \in DOMAIN z /\ z.list = Tail(L) /\ z.tree = y.tree
  BY <1>3, <1>5, <1>8, <1>9
<1>12. batch' = <<z>> \o rest
  BY <1>1, <1>4, <1>8
<1>13. Linked(next, batch') /\ LastOf(next, batch') = LastOf(now, batch)
  <2>1. Leads(next, z.list, z.tree) /\ Linked(z.tree, rest)
    BY <1>9, <1>10, <1>11
  <2>2. Linked(next, <<z>> \o rest) /\ LastOf(next, <<z>> \o rest) = LastOf(z.tree, rest)
    BY <1>4, <1>11, <2>1, LinkedBefore
  <2> QED BY <1>9, <1>11, <1>12, <2>2
<1>14. Outstanding(next, batch', pending', building', react')
  BY <1>1, <1>7, <1>13 DEF Outstanding
<1>15. Mirrors(registry', next)
  <2>1. Mirrors(registry, now) /\ registry' = Mutated(registry, m)
    BY <1>1, <1>3, <1>4, <1>6, <1>7 DEF Stands
  <2> QED BY <1>8, <1>10, <2>1, MutatedKeeps
<1>16. batch' # <<>>
  <2>1. PICK U, h : U = S \cup {z} /\ h = <<z>>
    OBVIOUS
  <2>2. rest \in Seq(U) /\ h \in Seq(U) /\ Len(h) = 1
    BY <1>4, <2>1
  <2>3. Len(rest) \in Nat
    BY <2>2, LenProperties
  <2>4. Len(h \o rest) = Len(h) + Len(rest)
    BY <2>2, ConcatProperties
  <2>5. Len(h \o rest) # Len(<<>>)
    BY <2>2, <2>3, <2>4
  <2>6. h \o rest # <<>>
    BY <2>5
  <2> QED BY <1>12, <2>1, <2>6
<1>17. Stands(registry', next, batch', mounted')
  BY <1>15, <1>16 DEF Stands
<1> QED BY <1>1, <1>14, <1>17 DEF TreesInv

\* A transaction ends: the views mirror the tree that it led to.
LEMMA EndFollows == MountingInv /\ TreesInv /\ EndTransaction => TreesInv'
<1> SUFFICES ASSUME MountingInv, TreesInv, EndTransaction PROVE TreesInv'
  OBVIOUS
<1>1. /\ batch # <<>> /\ (registered => Current.list = <<>>) /\ batch' = Later
      /\ registry' = (IF ~registered THEN registry ELSE [AllFinished(registry) EXCEPT !.removed = <<>>])
      /\ mounted' = [count |-> mounted.count + 1,
                     tree |-> IF registered THEN Current.tree ELSE mounted.tree]
      /\ UNCHANGED <<react, building, pending, registered>>
  BY DEF EndTransaction, AllFinished
<1>2. "tree" \in DOMAIN mounted' /\ mounted'.tree = IF registered THEN Current.tree ELSE mounted.tree
  BY <1>1
<1>3. CASE ~registered
  BY <1>1, <1>2, <1>3 DEF TreesInv
<1>4. CASE registered
  <2>1. PICK S : batch \in Seq(S)
    BY DEF MountingInv, MountingTypeOK, Transactions
  <2>2. PICK y, rest : y = Head(batch) /\ rest = Tail(batch)
    OBVIOUS
  <2>3. Current = y /\ Later = rest /\ y.list = <<>>
    BY <1>1, <1>4, <2>2 DEF Current, Later
  <2>4. PICK now : Outstanding(now, batch, pending, building, react) /\ Stands(registry, now, batch, mounted)
    BY <1>4 DEF TreesInv
  <2>5. Leads(now, <<>>, y.tree) /\ Linked(y.tree, rest) /\ LastOf(now, batch) = LastOf(y.tree, rest)
    BY <1>1, <2>1, <2>2, <2>3, <2>4, LinkedFirst DEF Outstanding
  <2>6. now = y.tree
    BY <2>5, LeadsNowhere
  <2>7. Outstanding(now, batch', pending', building', react')
    BY <1>1, <2>3, <2>4, <2>5, <2>6 DEF Outstanding
  <2>8. Mirrors(registry', now) /\ registry'.removed = <<>>
    BY <1>1, <1>4, <2>4, EndMirrors DEF Stands
  <2>9. Stands(registry', now, batch', mounted')
    BY <1>2, <1>4, <2>3, <2>6, <2>8 DEF Stands
  <2> QED BY <1>1, <1>2, <1>4, <2>7, <2>9 DEF TreesInv
<1> QED BY <1>3, <1>4

\* The surface stops.
LEMMA StopFollows == TreesInv /\ StopSurface => TreesInv'
<1> SUFFICES ASSUME TreesInv, StopSurface PROVE TreesInv'
  OBVIOUS
<1>1. registered' = FALSE /\ registry' = Mirror(NoTree) /\ mounted' = [mounted EXCEPT !.tree = NoTree]
  BY DEF StopSurface
<1>2. "tree" \in DOMAIN mounted' /\ mounted'.tree = NoTree
  BY <1>1 DEF TreesInv
<1> QED BY <1>1, <1>2 DEF TreesInv

\* The views follow React's trees, always.
LEMMA TreesFollow == MountingSpec => []TreesInv
<1>1. MountingInv /\ TreesInv /\ [MountingNext]_mountingVars => TreesInv'
  <2> SUFFICES ASSUME MountingInv, TreesInv, [MountingNext]_mountingVars PROVE TreesInv'
    OBVIOUS
  <2>1. CASE DispatchCommand \/ RunCommand \/ UNCHANGED mountingVars
    <3>1. UNCHANGED <<react, building, pending, batch, registry, mounted, registered>>
      BY <2>1 DEF DispatchCommand, RunCommand, mountingVars
    <3> QED BY <3>1 DEF TreesInv
  <2>2. CASE Diff \/ Commit \/ TakePending \/ ApplyMutation \/ EndTransaction \/ StopSurface
    BY <2>2, DiffFollows, CommitFollows, TakeFollows, ApplyFollows, EndFollows, StopFollows
  <2> QED BY <2>1, <2>2 DEF MountingNext, Drained
<1> QED BY <1>1, MountingSound, TreesStart, PTL DEF MountingSpec

(* The Godot tree is the one React committed last, in its order and with none left behind,  *)
(* whenever no flush is at work, and no view loses its control to another's deletion at any *)
(* mutation: destroy() first detaches what still waits inside the control, insert_child()   *)
(* counts only siblings that stay, and apply() ends the removals that were no moves.        *)
THEOREM TreeIsAlwaysTheCommitted == MountingSpec => []TreeIsTheCommitted
<1>1. TreesInv => TreeIsTheCommitted
  <2> SUFFICES ASSUME TreesInv PROVE TreeIsTheCommitted
    OBVIOUS
  <2>1. CASE registered
    <3>1. PICK now : Stands(registry, now, batch, mounted)
      BY <2>1 DEF TreesInv
    <3>2. registry.freed = {}
      BY <3>1 DEF Stands, Mirrors, Registries
    <3>3. registry.removed = <<>> => Exact(registry, now)
      BY <3>1, MirrorIsExact DEF Stands
    <3> QED BY <3>1, <3>2, <3>3 DEF TreeIsTheCommitted, Exact, Stands
  <2>2. CASE ~registered
    <3>1. registry = Mirror(NoTree) /\ mounted.tree = NoTree
      BY <2>2 DEF TreesInv
    <3>2. /\ registry.views = NoTree.views /\ registry.nodes = NoTree.children /\ registry.removed = <<>>
          /\ registry.detaching = {} /\ registry.freed = {}
      BY <3>1 DEF Mirror
    <3> QED BY <3>1, <3>2 DEF TreeIsTheCommitted
  <2> QED BY <2>1, <2>2
<1> QED BY <1>1, TreesFollow, PTL

================================================================================
