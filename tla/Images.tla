--------------------------------- MODULE Images ---------------------------------
(***************************************************************************)
(* RNImageService with its HTTP transport, and the controls that show its   *)
(* images.  Encoded bytes, decoding and textures are paid for out of one     *)
(* budget through reservations that live as long as their owners: a request  *)
(* until it ends, a texture until neither the cache nor a control holds it.  *)
(*                                                                         *)
(* Bytes are small numbers: a request reserves Input, a decode as much again *)
(* as twice the texture, of which the texture keeps its own.  A source is    *)
(* local, imported by Godot, remote without credentials (these share         *)
(* requests and results) or remote with them.  Only <Image> and its loader   *)
(* are callers here; a slot of RNTextureSources guards its loads as the      *)
(* control does.                                                           *)
(***************************************************************************)
EXTENDS Naturals, Sequences, FiniteSets, FiniteSetsExt, SequencesExt

CONSTANTS Controls,                          \* image controls
          Local, Imported, Shared, Private,  \* the sources of each kind
          MaximumBytes,                      \* total_bytes of the budget
          CacheBytes,                        \* cache_bytes
          MaxLoads                           \* bound: requests made

Sources == Local \cup Imported \cup Shared \cup Private
Remote == Shared \cup Private
NoSource == "none"

ASSUME ImageBounds ==
  /\ IsFiniteSet(Controls) /\ NoSource \notin Controls
  /\ {MaximumBytes, CacheBytes, MaxLoads} \subseteq Nat

NoImage == [id |-> 0, source |-> NoSource]
Input == 2           \* reserved for a request, and for reading a file
Encoded == 1         \* what is left of it after the decode
Bytes(source) == IF source \in Shared THEN 2 ELSE 1

VARIABLES images,  \* the service and the controls
          loads    \* requests made so far; the last is also the newest token

imageVars == <<images, loads>>

Fresh == [source |-> NoSource, token |-> 0, subscription |-> 0, image |-> NoImage,
          waiting |-> FALSE, failed |-> FALSE]   \* the last two: what JavaScript was told

\* result: the texture a call under way has loaded, and holds until it returns.
ImagesInit ==
  /\ images = [controls |-> [c \in Controls |-> Fresh], cache |-> <<>>, cached |-> 0,
               live |-> [s \in Sources |-> NoImage], works |-> {}, used |-> 0, result |-> NoImage]
  /\ loads = 0

(***************************************************************************)
(* The budget.  A texture is destroyed when its last owner lets go.         *)
(***************************************************************************)
Owned(s) == (ToSet(s.cache) \cup {s.result} \cup {s.controls[c].image : c \in Controls}) \ {NoImage}
Size(textures) == SumFunction([r \in textures |-> Bytes(r.source)])
Spare(s) == MaximumBytes - Min({s.used, MaximumBytes})
Release(s, bytes) == [s EXCEPT !.used = @ - Min({@, bytes})]
Dropped(s, t) == Release(t, Size(Owned(s) \ Owned(t)))

\* RNImageService::evict: the least recently used leave until both limits are met or the
\* cache is empty.
Without(s, k) ==
  Dropped(s, [s EXCEPT !.cache = SubSeq(@, k + 1, Len(@)),
                       !.cached = @ - Size(ToSet(SubSeq(s.cache, 1, k)))])
Evict(s, required) ==
  LET Enough(k) == required <= Spare(Without(s, k)) /\ Without(s, k).cached <= CacheBytes
  IN Without(s, Min({k \in 0..Len(s.cache) : Enough(k)} \cup {Len(s.cache)}))

\* A step of a load yields the service and what the request has reserved.
Failed(s, held) == [s |-> s, held |-> held]
Reserve(s, bytes) ==
  LET trimmed == Evict(s, bytes)
  IN IF bytes <= Spare(trimmed) THEN [s |-> [trimmed EXCEPT !.used = @ + bytes], held |-> bytes]
     ELSE Failed(trimmed, 0)

(***************************************************************************)
(* RNImageService::cached, remember, decode and the local loads.            *)
(***************************************************************************)
InCache(s, source) == {i \in DOMAIN s.cache : s.cache[i].source = source}
IsCached(s, source) ==
  source \notin Private /\ (InCache(s, source) # {} \/ s.live[source] \in Owned(s))
Cached(s, source) ==
  IF InCache(s, source) = {} THEN s.live[source] ELSE s.cache[Min(InCache(s, source))]
Accessed(s, source) ==
  IF InCache(s, source) = {} THEN s
  ELSE LET i == Min(InCache(s, source))
       IN [s EXCEPT !.cache = Append(RemoveAt(@, i), @[i])]

Remember(s, cacheable) ==
  LET texture == s.result
      live == [s EXCEPT !.live[texture.source] = texture]
  IN IF texture = NoImage \/ ~cacheable THEN s
     ELSE IF texture.source \in Private THEN s
     ELSE IF CacheBytes = 0 \/ Bytes(texture.source) > CacheBytes THEN live
     ELSE Evict([live EXCEPT !.cache = Append(@, texture), !.cached = @ + Bytes(texture.source)], 0)

\* Mutant: the request's reservation keeps the share that the texture has taken over.
DecodePaidTwice(s, source, id, held, decodes) ==
  LET needed == Input + 2 * Bytes(source)
      trimmed == Evict(s, needed - held)
      grown == [trimmed EXCEPT !.used = @ + needed - held]
      loaded == [grown EXCEPT !.result = [id |-> id, source |-> source]]
  IN IF needed - held > Spare(trimmed) THEN Failed(trimmed, held)
     ELSE IF ~decodes THEN Failed(grown, needed)
     ELSE [s |-> Release(loaded, needed - Encoded), held |-> Encoded]

\* The reservation grows for the decode; the texture then takes its share over and the
\* rest shrinks to the encoded bytes.
Decode(s, source, id, held, decodes) ==
  LET needed == Input + 2 * Bytes(source)
      trimmed == Evict(s, needed - held)
      grown == [trimmed EXCEPT !.used = @ + needed - held]
      loaded == [grown EXCEPT !.result = [id |-> id, source |-> source]]
  IN IF needed - held > Spare(trimmed) THEN Failed(trimmed, held)
     ELSE IF ~decodes THEN Failed(grown, needed)
     ELSE [s |-> Release(loaded, (needed - Bytes(source)) - Encoded), held |-> Encoded]

LoadLocal(s, source, id, decodes) ==
  LET whole == source \in Imported
      paid == Reserve(s, IF whole THEN Bytes(source) ELSE Input)
  IN IF paid.held = 0 THEN paid
     ELSE IF whole
       THEN [s |-> [paid.s EXCEPT !.result = [id |-> id, source |-> source]], held |-> 0]
     ELSE Decode(paid.s, source, id, paid.held, decodes)

(***************************************************************************)
(* RNImageControl::_loaded for each subscriber, after which the request and *)
(* what it held are gone.  A control that has asked for something else since *)
(* ignores its answer.                                                     *)
(***************************************************************************)
Loaded(control, isCurrent, result) ==
  IF ~isCurrent THEN control
  ELSE IF result = NoImage
    THEN [control EXCEPT !.subscription = 0, !.waiting = FALSE, !.failed = TRUE]
  ELSE [control EXCEPT !.subscription = 0, !.waiting = FALSE, !.image = result]

IsCurrent(c, control, subscribers) == [control |-> c, token |-> control.token] \in subscribers

Delivered(s, subscribers, held) ==
  LET shown == [c \in Controls |->
                  Loaded(s.controls[c], IsCurrent(c, s.controls[c], subscribers), s.result)]
  IN Release(Dropped(s, [s EXCEPT !.controls = shown, !.result = NoImage]), held)

(***************************************************************************)
(* RNImageService::request and cancel.                                      *)
(***************************************************************************)
Work(source, subscriber) ==
  [source |-> source, subscribers |-> {subscriber}, id |-> subscriber.token,
   active |-> FALSE, cancelled |-> FALSE]
Joinable(s, source) == {w \in s.works : source \in Shared /\ w.source = source}

\* The control stores the subscription that request returned.
Subscribed(s, subscriber) ==
  IF subscriber.control = NoSource THEN s
  ELSE [s EXCEPT !.controls[subscriber.control].subscription = subscriber.token]

RequestLocal(s, source, subscriber, decodes) ==
  LET loaded == LoadLocal(s, source, subscriber.token, decodes)
  IN Delivered(Remember(loaded.s, TRUE), {subscriber}, loaded.held)

\* A transport that refuses answers inside the call: the control then stores a
\* subscription that has ended.
RequestRemote(s, source, subscriber, starts) ==
  LET paid == Reserve(s, Input)
      joined == CHOOSE w \in Joinable(s, source) : TRUE
      Joining == [joined EXCEPT !.subscribers = @ \cup {subscriber}]
  IN IF Joinable(s, source) # {}
       THEN Subscribed([s EXCEPT !.works = (@ \ {joined}) \cup {Joining}], subscriber)
     ELSE IF paid.held = 0 THEN Delivered(paid.s, {subscriber}, 0)
     ELSE IF starts
       THEN Subscribed([paid.s EXCEPT !.works = @ \cup {Work(source, subscriber)}], subscriber)
     ELSE Subscribed(Delivered(paid.s, {subscriber}, Input), subscriber)

Request(s, source, subscriber, decodes, starts) ==
  IF IsCached(s, source)
    THEN Delivered([Accessed(s, source) EXCEPT !.result = Cached(s, source)], {subscriber}, 0)
  ELSE IF source \in Remote THEN RequestRemote(s, source, subscriber, starts)
  ELSE RequestLocal(s, source, subscriber, decodes)

\* Mutant: the first subscriber that leaves ends the request of the others.
CancelForAll(s, subscription) ==
  LET held == {w \in s.works : \E x \in w.subscribers : x.token = subscription}
  IN IF held = {} THEN s
     ELSE IF \E w \in held : w.active THEN s
     ELSE Release([s EXCEPT !.works = @ \ held], Input)

\* RNHTTPService::cancel returns TRUE for a request that still waits for a slot.
Cancel(s, subscription) ==
  LET held == {w \in s.works : \E x \in w.subscribers : x.token = subscription}
      work == CHOOSE w \in held : TRUE
      others == [work EXCEPT !.subscribers = {x \in @ : x.token # subscription}]
  IN IF subscription = 0 \/ held = {} THEN s
     ELSE IF others.subscribers # {} THEN [s EXCEPT !.works = (@ \ {work}) \cup {others}]
     ELSE IF work.active
       THEN [s EXCEPT !.works = (@ \ {work}) \cup {[others EXCEPT !.cancelled = TRUE]}]
     ELSE Release([s EXCEPT !.works = @ \ {work}], Input)

(***************************************************************************)
(* Actions.  All of them run on the main thread.                            *)
(***************************************************************************)
\* RNImageControl::load with a source.
Load(c, source) ==
  /\ loads < MaxLoads
  /\ images.controls[c].source # source
  /\ LET s == Cancel(images, images.controls[c].subscription)
         asked == [s EXCEPT !.controls[c] =
                    [@ EXCEPT !.source = source, !.token = loads + 1, !.subscription = 0,
                              !.waiting = TRUE, !.failed = FALSE]]
     IN \E decodes, starts \in BOOLEAN :
          images' = Request(asked, source, [control |-> c, token |-> loads + 1], decodes, starts)
  /\ loads' = loads + 1

\* RNImageControl::load without a source, and its destructor, after which the view's tag
\* may be mounted anew.
Unload(c) ==
  /\ images.controls[c].source # NoSource
  /\ LET s == Cancel(images, images.controls[c].subscription)
     IN images' = Dropped(s, [s EXCEPT !.controls[c] = Fresh])
  /\ UNCHANGED loads

\* RNImageLoader::loadImage, for getSize and prefetch: nobody cancels it.
LoadImage(source) ==
  /\ loads < MaxLoads
  /\ \E decodes, starts \in BOOLEAN :
       images' = Request(images, source, [control |-> NoSource, token |-> loads + 1],
                         decodes, starts)
  /\ loads' = loads + 1

\* RNImageLoader::getCacheStatus.
GetCacheStatus(source) ==
  /\ IsCached(images, source) /\ images' = Accessed(images, source)
  /\ UNCHANGED loads

\* RNHTTPService leases a slot to the request.
Lease(w) ==
  /\ ~w.active
  /\ images' = [images EXCEPT !.works = (@ \ {w}) \cup {[w EXCEPT !.active = TRUE]}]
  /\ UNCHANGED loads

\* RNImageService::finish, when the response arrives or the request ends otherwise.
Finish(w) ==
  /\ w.active
  /\ \E arrives, decodes, cacheable \in BOOLEAN :
       LET s == [images EXCEPT !.works = @ \ {w}]
           done == IF arrives THEN Decode(s, w.source, w.id, Input, decodes) ELSE Failed(s, Input)
       IN /\ arrives => ~w.cancelled
          /\ images' = IF w.subscribers = {} THEN Release(s, Input)
                       ELSE Delivered(Remember(done.s, cacheable), w.subscribers, done.held)
  /\ UNCHANGED loads

ImagesNext ==
  \/ \E c \in Controls : Unload(c) \/ (\E source \in Sources : Load(c, source))
  \/ \E source \in Sources : LoadImage(source) \/ GetCacheStatus(source)
  \/ \E w \in images.works : Lease(w) \/ Finish(w)

ImagesSpec == ImagesInit /\ [][ImagesNext]_imageVars

(***************************************************************************)
(* Properties.                                                             *)
(***************************************************************************)
\* What the budget says is used is what the requests under way and the textures somebody
\* owns have reserved, never more than there is; the cache counts its own share, keeps
\* within it and holds no image twice (RNImageReservation, evict).
BudgetIsKept ==
  /\ images.used = Size(Owned(images)) + Input * Cardinality(images.works)
  /\ images.used <= MaximumBytes
  /\ images.cached = Size(ToSet(images.cache)) /\ images.cached <= CacheBytes
  /\ \A i, j \in DOMAIN images.cache :
       images.cache[i].source = images.cache[j].source => i = j

\* A control that was told its load ended shows the source it asked for last, or was told
\* the load failed; one that waits is a subscriber of exactly one request (the tokens of
\* RNImageControl, and the subscribers of shared requests).
ShowsWhatItAsked ==
  \A c \in Controls :
    LET control == images.controls[c]
        me == [control |-> c, token |-> control.token]
    IN IF control.waiting
         THEN \E w \in images.works : \A v \in images.works :
                /\ control.subscription = control.token /\ w.source = control.source
                /\ me \in v.subscribers <=> v = w
         ELSE /\ \A w \in images.works : me \notin w.subscribers
              /\ control.failed \/ control.image.source = control.source
=================================================================================
