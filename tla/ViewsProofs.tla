---------------------------- MODULE ViewsProofs -----------------------------
(***************************************************************************)
(* Theorems of what is shown: the surfaces of the roots, and images.       *)
(***************************************************************************)
EXTENDS HostSurfaces, Images, SumTheorems, SequenceTheorems, TLAPS

-----------------------------------------------------------------------------
(***************************************************************************)
(* Theorems about the roots of the scene and the surfaces they show.       *)
(*                                                                         *)
(* A public method of the host is a function of its fields: a lemma for    *)
(* each says what it does to the list of roots, to the tag of each root and*)
(* to what is suspended, and that what Served says of the fields it keeps. *)
(* The steps then only follow the calls that wait for the next frame.      *)
(***************************************************************************)

\* The fields a method finds and leaves.
Sound(h) == h \in Host /\ IsInjective(h.roots) /\ h.next # 0

\* JavaScript is suspended exactly while there are roots and none can process.
Suspends(h, w) ==
  h.instance # 0 => (h.suspended <=> h.roots # <<>> /\ \A r \in w.able : ~Has(h, r))

Bundle(w) == w.file

\* The surfaces are those of the roots, one each; no root shows one that is not listed.
TagsAreOwn(h) ==
  \A r \in Roots : /\ h.tag[r] < h.next
                   /\ h.tag[r] # 0 => Has(h, r) /\ h.instance # 0
                   /\ \A q \in Roots : q # r /\ h.tag[q] = h.tag[r] => h.tag[r] = 0
Served(h) ==
  /\ TagsAreOwn(h)
  /\ \A n \in Nat : n \in h.started <=> n # 0 /\ \E r \in Roots : h.tag[r] = n
  /\ \A n \in Nat, r \in Roots : <<n, r>> \in h.surfaces <=> n # 0 /\ h.tag[r] = n

\* What all the methods leave alone when they only start the runtime.
Alike(g, h) == /\ g.roots = h.roots /\ g.tag = h.tag /\ g.surfaces = h.surfaces
               /\ g.next = h.next /\ g.started = h.started

(***************************************************************************)
(* The private methods.                                                    *)
(***************************************************************************)
\* _update_suspension() changes nothing else.
LEMMA UpdateSuspensionSets ==
  ASSUME NEW h \in Host, NEW w
  PROVE  LET g == UpdateSuspension(h, w)
         IN g \in Host /\ Alike(g, h) /\ g.instance = h.instance /\ Suspends(g, w)
<1> DEFINE g == UpdateSuspension(h, w)
<1>1. CASE h.instance = 0
  BY <1>1 DEF UpdateSuspension, Alike, Suspends
<1>2. CASE h.instance # 0
  <2> DEFINE stops == h.roots # <<>> /\ \A r \in w.able : ~Has(h, r)
  <2>1. g = [h EXCEPT !.suspended = stops]
    BY <1>2 DEF UpdateSuspension
  <2>2. stops \in BOOLEAN
    OBVIOUS
  <2> HIDE DEF stops
  <2>3. g \in Host /\ Alike(g, h) /\ g.instance = h.instance /\ g.suspended = stops
    BY <2>1, <2>2 DEF Host, Alike
  <2>4. \A r : Has(g, r) <=> Has(h, r)
    BY <2>3 DEF Has, Alike
  <2> QED BY <2>3, <2>4 DEF Suspends, Alike, stops
<1> QED BY <1>1, <1>2

\* _start() leaves every surface alone, and runs a runtime whenever there is a bundle.
LEMMA StartStarts ==
  ASSUME NEW h \in Host, NEW w
  PROVE  LET g == Start(h, w)
         IN /\ g \in Host /\ Alike(g, h) /\ (Bundle(w) => g.instance # 0)
            /\ h.instance # 0 => g = h
            /\ Suspends(h, w) => Suspends(g, w)
<1> DEFINE k == [h EXCEPT !.generation = @ + 1, !.instance = h.generation + 1,
                          !.suspended = FALSE, !.connected = TRUE]
<1>1. CASE h.instance # 0 \/ ~Bundle(w)
  BY <1>1 DEF Start, Alike, Bundle
<1>2. CASE ~(h.instance # 0 \/ ~Bundle(w))
  <2>1. h.generation + 1 \in Nat /\ h.generation + 1 # 0
    BY DEF Host
  <2>3. k \in Host /\ Alike(k, h) /\ k.instance = h.generation + 1
    BY <2>1 DEF Host, Alike
  <2>2. Start(h, w) = UpdateSuspension(k, w)
    BY <1>2 DEF Start, Bundle
  <2> HIDE DEF k
  <2> QED BY <1>2, <2>1, <2>2, <2>3, UpdateSuspensionSets DEF Alike
<1> QED BY <1>1, <1>2

\* _start_surface() and _stop_surface(), of one root.
LEMMA StartSurfaceShows ==
  ASSUME NEW h \in Host, NEW r \in Roots
  PROVE  LET g == StartSurface(h, r)
         IN /\ g \in Host /\ g.roots = h.roots /\ g.instance = h.instance
            /\ g.suspended = h.suspended /\ g.next = h.next + 1
            /\ \A q \in Roots : g.tag[q] = IF q = r THEN h.next ELSE h.tag[q]
            /\ g.surfaces = h.surfaces \cup {<<h.next, r>>} /\ g.started = h.started \cup {h.next}
<1> DEFINE g == StartSurface(h, r)
<1>1. /\ [h.tag EXCEPT ![r] = h.next] \in [Roots -> Nat] /\ h.next + 1 \in Nat
      /\ h.surfaces \cup {<<h.next, r>>} \in SUBSET (Nat \X Roots)
      /\ h.started \cup {h.next} \in SUBSET Nat
  BY DEF Host
<1>2. /\ g \in Host /\ g.tag = [h.tag EXCEPT ![r] = h.next]
      /\ g.roots = h.roots /\ g.instance = h.instance
      /\ g.suspended = h.suspended /\ g.next = h.next + 1
      /\ g.surfaces = h.surfaces \cup {<<h.next, r>>} /\ g.started = h.started \cup {h.next}
  BY <1>1 DEF StartSurface, Host
<1>3. \A q \in Roots : g.tag[q] = IF q = r THEN h.next ELSE h.tag[q]
  BY <1>2 DEF Host
<1> QED BY <1>2, <1>3

\* stop_surface(): the root shows nothing, and its surface and its start are gone.
LEMMA StopSurfaceHides ==
  ASSUME NEW h \in Host, NEW r \in Roots
  PROVE  LET g == StopSurface(h, r)
         IN /\ g \in Host /\ g.roots = h.roots /\ g.instance = h.instance
            /\ g.suspended = h.suspended /\ g.next = h.next
            /\ \A q \in Roots : g.tag[q] = IF q = r THEN 0 ELSE h.tag[q]
            /\ h.tag[r] # 0 => /\ g.surfaces = {s \in h.surfaces : s[1] # h.tag[r]}
                               /\ g.started = h.started \ {h.tag[r]}
            /\ h.tag[r] = 0 => g = h
<1>1. CASE h.tag[r] = 0
  BY <1>1 DEF StopSurface
<1>2. CASE h.tag[r] # 0
  BY <1>2 DEF StopSurface, Host
<1> QED BY <1>1, <1>2

\* A root that shows nothing is given a surface.
LEMMA StartSurfaceServes ==
  ASSUME NEW h, Sound(h), NEW r \in Roots, h.tag[r] = 0, h.instance # 0, Has(h, r), Served(h)
  PROVE  Served(StartSurface(h, r))
<1> DEFINE g == StartSurface(h, r)
<1>1. /\ g \in Host /\ g.roots = h.roots /\ g.instance = h.instance /\ g.next = h.next + 1
      /\ \A q \in Roots : g.tag[q] = IF q = r THEN h.next ELSE h.tag[q]
      /\ g.surfaces = h.surfaces \cup {<<h.next, r>>} /\ g.started = h.started \cup {h.next}
  BY StartSurfaceShows DEF Sound
<1> HIDE DEF g
<1>2. /\ h.next \in Nat \ {0} /\ \A q \in Roots : h.tag[q] \in Nat /\ g.tag[q] \in Nat
      /\ \A q : Has(g, q) <=> Has(h, q)
  BY <1>1 DEF Sound, Host, Has
<1>3. TagsAreOwn(g)
  BY <1>1, <1>2 DEF Served, TagsAreOwn
<1>4. \A q \in Roots : h.tag[q] # h.next
  BY <1>2 DEF Served, TagsAreOwn
<1>5. \A n \in Nat : n \in g.started <=> n # 0 /\ \E q \in Roots : g.tag[q] = n
  BY <1>1, <1>2, <1>4 DEF Served
<1>6. ASSUME NEW n \in Nat, NEW q \in Roots
      PROVE  <<n, q>> \in g.surfaces <=> n # 0 /\ g.tag[q] = n
  <2>1. <<n, q>> \in g.surfaces <=> <<n, q>> \in h.surfaces \/ (n = h.next /\ q = r)
    BY <1>1
  <2>2. <<n, q>> \in h.surfaces <=> n # 0 /\ h.tag[q] = n
    BY DEF Served
  <2> QED BY <1>1, <1>2, <1>4, <2>1, <2>2
<1> QED BY <1>3, <1>5, <1>6 DEF Served, g

\* A root gives up what it shows.
LEMMA StopSurfaceServes ==
  ASSUME NEW h, Sound(h), NEW r \in Roots, Served(h)
  PROVE  Served(StopSurface(h, r))
<1> DEFINE g == StopSurface(h, r)
<1>1. CASE h.tag[r] = 0
  BY <1>1 DEF StopSurface
<1>2. CASE h.tag[r] # 0
  <2>1. /\ g \in Host /\ g.roots = h.roots /\ g.instance = h.instance /\ g.next = h.next
        /\ \A q \in Roots : g.tag[q] = IF q = r THEN 0 ELSE h.tag[q]
        /\ g.surfaces = {s \in h.surfaces : s[1] # h.tag[r]}
        /\ g.started = h.started \ {h.tag[r]}
    BY <1>2, StopSurfaceHides DEF Sound
  <2> HIDE DEF g
  <2>2. /\ h.next \in Nat \ {0} /\ \A q \in Roots : h.tag[q] \in Nat /\ g.tag[q] \in Nat
        /\ \A q : Has(g, q) <=> Has(h, q)
    BY <2>1 DEF Sound, Host, Has
  <2>3. TagsAreOwn(g)
    BY <2>1, <2>2 DEF Served, TagsAreOwn
  <2>4. \A q \in Roots : q # r => h.tag[q] # h.tag[r]
    BY <1>2 DEF Served, TagsAreOwn
  <2>5. \A n \in Nat : n \in g.started <=> n # 0 /\ \E q \in Roots : g.tag[q] = n
    BY <1>2, <2>1, <2>2, <2>4 DEF Served
  <2>6. \A n \in Nat, q \in Roots :
          <<n, q>> \in g.surfaces <=> <<n, q>> \in h.surfaces /\ n # h.tag[r]
    BY <2>1
  <2>7. \A n \in Nat, q \in Roots : <<n, q>> \in h.surfaces <=> n # 0 /\ h.tag[q] = n
    BY DEF Served
  <2>8. \A n \in Nat, q \in Roots : <<n, q>> \in g.surfaces <=> n # 0 /\ g.tag[q] = n
    BY <1>2, <2>1, <2>2, <2>4, <2>6, <2>7
  <2> QED BY <2>3, <2>5, <2>8 DEF Served, g
<1> QED BY <1>1, <1>2

(***************************************************************************)
(* The loops over the registered roots.                                    *)
(***************************************************************************)
\* _retire() takes the surface of every registered root.
LEMMA StopAllHides ==
  ASSUME NEW h \in Host
  PROVE  LET g == StopAll(h)
         IN /\ g \in Host /\ g.roots = h.roots /\ g.instance = h.instance
            /\ g.next = h.next /\ g.surfaces \subseteq h.surfaces
            /\ \A q \in Roots : g.tag[q] = IF Has(h, q) THEN 0 ELSE h.tag[q]
            /\ \A n, q : <<n, q>> \in g.surfaces <=>
                 <<n, q>> \in h.surfaces /\ ~\E r \in Roots : Has(h, r) /\ h.tag[r] = n
<1> DEFINE g == StopAll(h)
           tags == [r \in Roots |-> IF Has(h, r) THEN 0 ELSE h.tag[r]]
           gone == {h.tag[r] : r \in {q \in Roots : Has(h, q)}}
           left == {s \in h.surfaces : s[1] \notin gone}
<1>1. /\ g = [h EXCEPT !.tag = tags, !.surfaces = left, !.started = @ \ gone]
  BY DEF StopAll
<1>2. tags \in [Roots -> Nat] /\ \A q \in Roots : tags[q] = IF Has(h, q) THEN 0 ELSE h.tag[q]
  BY DEF Host
<1>3. left \subseteq h.surfaces /\ left \in SUBSET (Nat \X Roots)
  BY DEF Host
<1>4. \A n, q : <<n, q>> \in left <=>
        <<n, q>> \in h.surfaces /\ ~\E r \in Roots : Has(h, r) /\ h.tag[r] = n
  OBVIOUS
<1>5. h.started \ gone \in SUBSET Nat
  BY DEF Host
<1> HIDE DEF tags, gone, left
<1>6. /\ g \in Host /\ g.tag = tags /\ g.surfaces = left /\ g.roots = h.roots
      /\ g.instance = h.instance /\ g.next = h.next
  BY <1>1, <1>2, <1>3, <1>5 DEF Host
<1> HIDE DEF g
<1> QED BY <1>2, <1>3, <1>4, <1>6 DEF g

\* reload() gives every registered root a surface, numbered in the order of the list.
LEMMA StartAllShows ==
  ASSUME NEW h, Sound(h)
  PROVE  LET g == StartAll(h)
         IN /\ g \in Host /\ g.roots = h.roots /\ g.instance = h.instance
            /\ g.suspended = h.suspended /\ g.next = h.next + Len(h.roots)
            /\ \A i \in 1..Len(h.roots) : g.tag[h.roots[i]] = h.next + i - 1
            /\ \A q \in Roots : ~Has(h, q) => g.tag[q] = h.tag[q]
            /\ g.surfaces = h.surfaces \cup
                 {<<h.next + i - 1, h.roots[i]>> : i \in 1..Len(h.roots)}
            /\ g.started = h.started \cup {h.next + i - 1 : i \in 1..Len(h.roots)}
<1> DEFINE g == StartAll(h)
           tags == [r \in Roots |-> IF Has(h, r) THEN h.next + Place(h, r) - 1 ELSE h.tag[r]]
           shows == {<<h.next + i - 1, h.roots[i]>> : i \in 1..Len(h.roots)}
           runs == {h.next + i - 1 : i \in 1..Len(h.roots)}
<1>1. g = [h EXCEPT !.tag = tags, !.surfaces = @ \cup shows, !.started = @ \cup runs,
                    !.next = @ + Len(h.roots)]
  BY DEF StartAll
<1>2. /\ h.roots \in Seq(Roots) /\ Len(h.roots) \in Nat /\ h.next \in Nat /\ h.next # 0
      /\ \A i \in 1..Len(h.roots) : h.roots[i] \in Roots
  BY DEF Sound, Host
<1>3. \A q : Has(h, q) => Place(h, q) \in 1..Len(h.roots) /\ h.roots[Place(h, q)] = q
  BY DEF Has, Place
<1>4. \A i \in 1..Len(h.roots) : Has(h, h.roots[i]) /\ Place(h, h.roots[i]) = i
  BY <1>2, <1>3 DEF Has, Sound, IsInjective
<1>5. tags \in [Roots -> Nat]
  BY <1>2, <1>3 DEF Sound, Host
<1>6. \A i \in 1..Len(h.roots) : tags[h.roots[i]] = h.next + i - 1
  BY <1>2, <1>4
<1>7. \A q \in Roots : ~Has(h, q) => tags[q] = h.tag[q]
  OBVIOUS
<1>8. \A i \in 1..Len(h.roots) : h.next + i - 1 \in Nat
  BY <1>2
<1>9. shows \in SUBSET (Nat \X Roots) /\ runs \in SUBSET Nat
  BY <1>2, <1>8
<1> HIDE DEF tags, shows, runs
<1>10. /\ h \in Host /\ h.surfaces \in SUBSET (Nat \X Roots) /\ h.started \in SUBSET Nat
       /\ h.next + Len(h.roots) \in Nat
  BY <1>2 DEF Sound, Host
<1>11. h.surfaces \cup shows \in SUBSET (Nat \X Roots)
  BY <1>9, <1>10
<1>12. h.started \cup runs \in SUBSET Nat
  BY <1>9, <1>10
<1>13. /\ g \in Host /\ g.roots = h.roots /\ g.instance = h.instance /\ g.tag = tags
       /\ g.suspended = h.suspended /\ g.next = h.next + Len(h.roots)
       /\ g.surfaces = h.surfaces \cup shows /\ g.started = h.started \cup runs
  BY <1>1, <1>5, <1>10, <1>11, <1>12 DEF Host
<1> QED BY <1>6, <1>7, <1>13 DEF shows, runs

\* After _retire() and _start() nothing is shown: then every listed root is.
LEMMA StartAllServes ==
  ASSUME NEW h, Sound(h), h.instance # 0, Served(h), \A q \in Roots : h.tag[q] = 0
  PROVE  Served(StartAll(h))
<1> DEFINE g == StartAll(h)
<1>1. /\ g \in Host /\ g.roots = h.roots /\ g.instance = h.instance
      /\ g.next = h.next + Len(h.roots)
      /\ \A i \in 1..Len(h.roots) : g.tag[h.roots[i]] = h.next + i - 1
      /\ \A q \in Roots : ~Has(h, q) => g.tag[q] = 0
      /\ g.surfaces = h.surfaces \cup {<<h.next + i - 1, h.roots[i]>> : i \in 1..Len(h.roots)}
      /\ g.started = h.started \cup {h.next + i - 1 : i \in 1..Len(h.roots)}
  BY StartAllShows
<1> HIDE DEF g
<1>2. /\ h.next \in Nat /\ h.next # 0 /\ Len(h.roots) \in Nat
      /\ \A i \in 1..Len(h.roots) : h.roots[i] \in Roots
      /\ \A q : Has(g, q) <=> Has(h, q)
  BY <1>1 DEF Sound, Host, Has
<1>3. \A i \in 1..Len(h.roots) : h.next + i - 1 \in Nat /\ h.next + i - 1 # 0
  BY <1>2
<1>4. ASSUME NEW q \in Roots
      PROVE  IF Has(h, q)
             THEN /\ g.tag[q] # 0 /\ g.tag[q] < g.next
                  /\ \E i \in 1..Len(h.roots) : h.roots[i] = q /\ g.tag[q] = h.next + i - 1
             ELSE g.tag[q] = 0
  <2>1. CASE Has(h, q)
    <3>1. PICK i \in 1..Len(h.roots) : h.roots[i] = q
      BY <2>1 DEF Has
    <3>2. g.tag[q] = h.next + i - 1 /\ i <= Len(h.roots) /\ 1 <= i
      BY <1>1, <3>1
    <3> QED BY <1>1, <1>2, <1>3, <2>1, <3>1, <3>2
  <2> QED BY <1>1, <2>1
<1>5. TagsAreOwn(g)
  <2>1. ASSUME NEW q \in Roots, NEW r \in Roots, q # r, g.tag[q] = g.tag[r] PROVE g.tag[r] = 0
    BY <1>2, <1>4, <2>1
  <2>2. 0 < g.next
    BY <1>1, <1>2
  <2> QED BY <1>1, <1>2, <1>4, <2>1, <2>2 DEF TagsAreOwn
<1>6. h.started \cap Nat = {} /\ \A n \in Nat, q \in Roots : <<n, q>> \notin h.surfaces
  BY DEF Served
<1>7. ASSUME NEW n \in Nat
      PROVE  n \in g.started <=> n # 0 /\ \E q \in Roots : g.tag[q] = n
  <2>1. n \in g.started <=> \E i \in 1..Len(h.roots) : n = h.next + i - 1
    BY <1>1, <1>6
  <2> QED BY <1>1, <1>2, <1>3, <1>4, <2>1
<1>8. ASSUME NEW n \in Nat, NEW q \in Roots
      PROVE  <<n, q>> \in g.surfaces <=> n # 0 /\ g.tag[q] = n
  <2>1. <<n, q>> \in g.surfaces <=> \E i \in 1..Len(h.roots) : n = h.next + i - 1 /\ q = h.roots[i]
    BY <1>1, <1>6
  <2> QED BY <1>1, <1>2, <1>3, <1>4, <2>1
<1> QED BY <1>5, <1>7, <1>8 DEF Served, g

(***************************************************************************)
(* The public methods.                                                     *)
(***************************************************************************)
\* Who is listed is all that Sound and Suspends see of the list.
LEMMA RootsJoin ==
  ASSUME NEW h, Sound(h), NEW r \in Roots
  PROVE  LET g == IF Has(h, r) THEN h ELSE [h EXCEPT !.roots = Append(@, r)]
         IN /\ Sound(g) /\ g.tag = h.tag /\ g.surfaces = h.surfaces /\ g.next = h.next
            /\ g.started = h.started /\ g.instance = h.instance
            /\ \A q : Has(g, q) <=> Has(h, q) \/ q = r
<1> DEFINE g == IF Has(h, r) THEN h ELSE [h EXCEPT !.roots = Append(@, r)]
<1>1. CASE Has(h, r)
  BY <1>1
<1>2. CASE ~Has(h, r)
  <2> DEFINE t == Append(h.roots, r)
  <2>1. /\ t \in Seq(Roots) /\ Len(t) = Len(h.roots) + 1 /\ Len(h.roots) \in Nat
        /\ \A i \in 1..Len(t) : t[i] = IF i <= Len(h.roots) THEN h.roots[i] ELSE r
    BY DEF Sound, Host
  <2>2. g = [h EXCEPT !.roots = t]
    BY <1>2
  <2>3. IsInjective(t)
    BY <1>2, <2>1 DEF IsInjective, Sound, Host, Has
  <2> HIDE DEF t
  <2>4. /\ g \in Host /\ g.roots = t /\ g.tag = h.tag /\ g.surfaces = h.surfaces
        /\ g.next = h.next /\ g.started = h.started /\ g.instance = h.instance
    BY <2>1, <2>2 DEF Sound, Host
  <2> HIDE DEF g
  <2>5. \A q : Has(g, q) <=> Has(h, q) \/ q = r
    BY <2>1, <2>4 DEF Has
  <2>6. Sound(g)
    BY <2>3, <2>4 DEF Sound
  <2> QED BY <2>4, <2>5, <2>6 DEF g
<1> QED BY <1>1, <1>2

\* What is left of a list when one of its elements is taken out.
LEMMA ConcatOf ==
  ASSUME NEW S, NEW a \in Seq(S), NEW b \in Seq(S)
  PROVE  /\ a \o b \in Seq(S) /\ Len(a \o b) = Len(a) + Len(b)
         /\ \A i \in 1..Len(a) + Len(b) : (a \o b)[i] = IF i <= Len(a) THEN a[i] ELSE b[i - Len(a)]
OBVIOUS

\* A sequence without one of its elements.
LEMMA RemovedAt ==
  ASSUME NEW S, NEW q \in Seq(S), NEW at \in 1..Len(q)
  PROVE  /\ RemoveAt(q, at) \in Seq(S) /\ Len(RemoveAt(q, at)) = Len(q) - 1
         /\ \A i \in 1..Len(q) - 1 : RemoveAt(q, at)[i] = IF i < at THEN q[i] ELSE q[i + 1]
<1> DEFINE n == Len(q)
           a == SubSeq(q, 1, at - 1)
           b == SubSeq(q, at + 1, n)
           t == RemoveAt(q, at)
<1>1. n \in Nat /\ at \in 1..n /\ at - 1 \in 0..n /\ at + 1 \in 1..n + 1
  OBVIOUS
<1>2. a \in Seq(S) /\ Len(a) = at - 1 /\ \A i \in 1..at - 1 : a[i] = q[i]
  BY <1>1, SubSeqProperties
<1>3. b \in Seq(S) /\ Len(b) = n - at /\ \A i \in 1..n - at : b[i] = q[at + i]
  BY <1>1, SubSeqProperties
<1>4. t = a \o b
  BY DEF RemoveAt
<1> HIDE DEF n, a, b, t
<1>5. t \in Seq(S) /\ Len(t) = (at - 1) + (n - at)
  <2>1. t \in Seq(S) /\ Len(t) = Len(a) + Len(b)
    BY <1>2, <1>3, <1>4, ConcatOf
  <2> QED BY <1>2, <1>3, <2>1
<1>6. ASSUME NEW i \in 1..n - 1 PROVE t[i] = IF i < at THEN q[i] ELSE q[i + 1]
  <2>1. i \in 1..(at - 1) + (n - at)
    BY <1>1
  <2>2. t[i] = IF i <= at - 1 THEN a[i] ELSE b[i - (at - 1)]
    BY <1>2, <1>3, <1>4, <2>1, ConcatOf
  <2>3. CASE i < at
    <3>1. i \in 1..at - 1
      BY <1>1, <2>3
    <3> QED BY <1>1, <1>2, <2>2, <2>3, <3>1
  <2>4. CASE ~(i < at)
    <3>1. i - (at - 1) \in 1..n - at /\ at + (i - (at - 1)) = i + 1 /\ ~(i <= at - 1)
      BY <1>1, <2>4
    <3> QED BY <1>3, <2>2, <2>4, <3>1
  <2> QED BY <2>3, <2>4
<1> QED BY <1>1, <1>5, <1>6 DEF n, t

\* A root leaves the list and the order of the others stays.
LEMMA RootsLeave ==
  ASSUME NEW h, Sound(h), NEW r \in Roots
  PROVE  LET g == [h EXCEPT !.roots = IF Has(h, r) THEN RemoveAt(@, Place(h, r)) ELSE @]
         IN /\ Sound(g) /\ g.tag = h.tag /\ g.surfaces = h.surfaces /\ g.next = h.next
            /\ g.started = h.started /\ g.instance = h.instance
            /\ \A q : Has(g, q) <=> Has(h, q) /\ q # r
<1> DEFINE t == RemoveAt(h.roots, Place(h, r))
           g == [h EXCEPT !.roots = IF Has(h, r) THEN RemoveAt(@, Place(h, r)) ELSE @]
<1>1. CASE ~Has(h, r)
  BY <1>1 DEF Sound, Host
<1>2. CASE Has(h, r)
  <2> DEFINE at == Place(h, r)
  <2>1. at \in 1..Len(h.roots) /\ h.roots[at] = r /\ h.roots \in Seq(Roots) /\ Len(h.roots) \in Nat
    <3>1. at \in 1..Len(h.roots) /\ h.roots[at] = r
      BY <1>2 DEF Has, Place
    <3> QED BY <3>1 DEF Sound, Host
  <2>2. /\ t \in Seq(Roots) /\ Len(t) = Len(h.roots) - 1
        /\ \A i \in 1..Len(h.roots) - 1 : t[i] = IF i < at THEN h.roots[i] ELSE h.roots[i + 1]
    BY <2>1, RemovedAt
  <2>3. g = [h EXCEPT !.roots = t]
    BY <1>2
  <2>4. \A i, j \in 1..Len(h.roots) : h.roots[i] = h.roots[j] => i = j
    BY <2>1 DEF Sound, IsInjective
  <2> HIDE DEF t, at
  <2>5. IsInjective(t)
    <3>1. DOMAIN t = 1..Len(h.roots) - 1
      BY <2>2
    <3>2. ASSUME NEW i \in DOMAIN t, NEW j \in DOMAIN t, t[i] = t[j] PROVE i = j
      <4> DEFINE p(m) == IF m < at THEN m ELSE m + 1
      <4>1. p(i) \in 1..Len(h.roots) /\ p(j) \in 1..Len(h.roots)
        BY <2>1, <3>1
      <4>2. h.roots[p(i)] = h.roots[p(j)]
        BY <2>2, <3>1, <3>2
      <4>3. p(i) = p(j)
        BY <2>4, <4>1, <4>2
      <4> QED BY <2>1, <3>1, <4>3
    <3> QED BY <3>2 DEF IsInjective
  <2>6. /\ g \in Host /\ g.roots = t /\ g.tag = h.tag /\ g.surfaces = h.surfaces
        /\ g.next = h.next /\ g.started = h.started /\ g.instance = h.instance
    BY <2>2, <2>3 DEF Sound, Host
  <2> HIDE DEF g
  <2>7. Sound(g)
    BY <2>5, <2>6 DEF Sound
  <2>8. ASSUME NEW q, Has(g, q) PROVE Has(h, q) /\ q # r
    <3>1. PICK i \in 1..Len(h.roots) - 1 : t[i] = q
      BY <2>2, <2>6, <2>8 DEF Has
    <3> QED BY <2>1, <2>2, <2>4, <3>1 DEF Has
  <2>9. ASSUME NEW q, Has(h, q), q # r PROVE Has(g, q)
    <3>1. PICK i \in 1..Len(h.roots) : h.roots[i] = q
      BY <2>9 DEF Has
    <3>2. CASE i < at
      BY <2>1, <2>2, <2>6, <3>1, <3>2 DEF Has
    <3>3. CASE i > at
      <4>1. i - 1 \in 1..Len(t) /\ t[i - 1] = h.roots[i]
        BY <2>1, <2>2, <3>3
      <4> QED BY <2>6, <3>1, <4>1 DEF Has
    <3> QED BY <2>1, <2>9, <3>1, <3>2, <3>3
  <2> QED BY <2>6, <2>7, <2>8, <2>9 DEF g
<1> QED BY <1>1, <1>2

\* Served and Sound see neither what is suspended nor which runtime it is.
LEMMA AlikeServes ==
  ASSUME NEW h, NEW g \in Host, Sound(h), Alike(g, h)
  PROVE  /\ Sound(g) /\ \A q : Has(g, q) <=> Has(h, q)
         /\ Served(h) /\ (h.instance # 0 => g.instance # 0) => Served(g)
BY DEF Alike, Sound, Has, Served, TagsAreOwn

\* register_root() outside a frame.
LEMMA RegisterDoes ==
  ASSUME NEW h, Sound(h), NEW r \in Roots, NEW w, NEW g, g = Register(h, r, w)
  PROVE  /\ Sound(g) /\ Suspends(g, w) /\ (Bundle(w) => g.tag[r] # 0)
         /\ \A q : Has(g, q) <=> Has(h, q) \/ q = r
         /\ \A q \in Roots : q # r => g.tag[q] = h.tag[q]
         /\ Served(h) => Served(g)
<1> DEFINE listed == IF Has(h, r) THEN h ELSE [h EXCEPT !.roots = Append(@, r)]
           ready == IF h.tag[r] = 0 THEN Start(listed, w) ELSE listed
           shown == IF h.tag[r] = 0 /\ ready.instance # 0 THEN StartSurface(ready, r) ELSE ready
<1>1. g = UpdateSuspension(shown, w)
  BY DEF Register
<1>2. /\ Sound(listed) /\ listed.tag = h.tag /\ listed.surfaces = h.surfaces
      /\ listed.next = h.next /\ listed.started = h.started /\ listed.instance = h.instance
      /\ \A q : Has(listed, q) <=> Has(h, q) \/ q = r
  BY RootsJoin
<1> HIDE DEF listed
<1>3. Served(h) => Served(listed)
  BY <1>2 DEF Served, TagsAreOwn
<1>4. /\ ready \in Host /\ Alike(ready, listed) /\ (listed.instance # 0 => ready.instance # 0)
      /\ h.tag[r] = 0 /\ Bundle(w) => ready.instance # 0
  BY <1>2, StartStarts DEF Sound, Alike
<1> HIDE DEF ready
<1>5. /\ Sound(ready) /\ ready.tag = h.tag /\ \A q : Has(ready, q) <=> Has(h, q) \/ q = r
      /\ Served(h) => Served(ready)
  BY <1>2, <1>3, <1>4, AlikeServes DEF Alike
<1>6. /\ Sound(shown) /\ (Bundle(w) => shown.tag[r] # 0)
      /\ \A q : Has(shown, q) <=> Has(h, q) \/ q = r
      /\ \A q \in Roots : q # r => shown.tag[q] = h.tag[q]
      /\ Served(h) => Served(shown)
  <2>1. CASE h.tag[r] = 0 /\ ready.instance # 0
    <3>1. Served(h) => Served(shown)
      BY <1>5, <2>1, StartSurfaceServes
    <3>2. /\ shown \in Host /\ shown.roots = ready.roots /\ shown.next = ready.next + 1
          /\ \A q \in Roots : shown.tag[q] = IF q = r THEN ready.next ELSE ready.tag[q]
      BY <1>4, <2>1, StartSurfaceShows
    <3> HIDE DEF shown
    <3>3. ready.next \in Nat \ {0} /\ \A q : Has(shown, q) <=> Has(ready, q)
      BY <1>5, <3>2 DEF Sound, Host, Has
    <3> QED BY <1>5, <3>1, <3>2, <3>3 DEF Sound
  <2>2. CASE ~(h.tag[r] = 0 /\ ready.instance # 0)
    BY <1>4, <1>5, <2>2
  <2> QED BY <2>1, <2>2
<1> HIDE DEF shown
<1>7. g \in Host /\ Alike(g, shown) /\ g.instance = shown.instance /\ Suspends(g, w)
  BY <1>1, <1>6, UpdateSuspensionSets DEF Sound
<1> QED BY <1>6, <1>7, AlikeServes DEF Alike

\* unregister_root(), which never waits.
LEMMA UnregisterDoes ==
  ASSUME NEW h, Sound(h), NEW r \in Roots, NEW w
  PROVE  LET g == Unregister(h, r, w)
         IN /\ Sound(g) /\ Suspends(g, w)
            /\ \A q : Has(g, q) <=> Has(h, q) /\ q # r
            /\ \A q \in Roots : q # r => g.tag[q] = h.tag[q]
            /\ Served(h) => Served(g)
<1> DEFINE k == StopSurface(h, r)
           l == [k EXCEPT !.roots = IF Has(k, r) THEN RemoveAt(@, Place(k, r)) ELSE @]
           g == Unregister(h, r, w)
<1>1. /\ k \in Host /\ k.roots = h.roots /\ k.instance = h.instance /\ k.next = h.next
      /\ \A q \in Roots : k.tag[q] = IF q = r THEN 0 ELSE h.tag[q]
  BY StopSurfaceHides DEF Sound
<1>2. Sound(k) /\ (Served(h) => Served(k)) /\ \A q : Has(k, q) <=> Has(h, q)
  BY <1>1, StopSurfaceServes DEF Sound, Has
<1>3. g = UpdateSuspension(l, w)
  BY <1>1 DEF Unregister, Has, Place
<1> HIDE DEF k
<1>4. /\ Sound(l) /\ l.tag = k.tag /\ l.surfaces = k.surfaces /\ l.next = k.next
      /\ l.started = k.started /\ l.instance = k.instance
      /\ \A q : Has(l, q) <=> Has(k, q) /\ q # r
  BY <1>2, RootsLeave
<1> HIDE DEF l
<1>5. Served(h) => Served(l)
  BY <1>1, <1>2, <1>4 DEF Served, TagsAreOwn
<1>6. g \in Host /\ Alike(g, l) /\ g.instance = l.instance /\ Suspends(g, w)
  BY <1>3, <1>4, UpdateSuspensionSets DEF Sound
<1> HIDE DEF g
<1> QED BY <1>1, <1>2, <1>4, <1>5, <1>6, AlikeServes DEF Alike, g

\* restart_root() outside a frame, of a root that is still in the tree.
LEMMA RestartRootDoes ==
  ASSUME NEW h, Sound(h), NEW r \in Roots, NEW w
  PROVE  LET g == RestartRoot(h, r, w)
         IN /\ Sound(g) /\ (Suspends(h, w) => Suspends(g, w)) /\ (Bundle(w) => g.tag[r] # 0)
            /\ \A q : Has(g, q) <=> Has(h, q)
            /\ \A q \in Roots : q # r => g.tag[q] = h.tag[q]
            /\ Served(h) /\ Has(h, r) => Served(g)
<1> DEFINE k == StopSurface(h, r)
           ready == Start(k, w)
           g == RestartRoot(h, r, w)
<1>1. /\ k \in Host /\ k.roots = h.roots /\ k.instance = h.instance
      /\ k.suspended = h.suspended /\ k.next = h.next
      /\ \A q \in Roots : k.tag[q] = IF q = r THEN 0 ELSE h.tag[q]
  BY StopSurfaceHides DEF Sound
<1>2. /\ Sound(k) /\ (Served(h) => Served(k)) /\ \A q : Has(k, q) <=> Has(h, q)
      /\ Suspends(h, w) => Suspends(k, w)
  BY <1>1, StopSurfaceServes DEF Sound, Has, Suspends
<1>3. g = IF ready.instance # 0 THEN StartSurface(ready, r) ELSE ready
  BY DEF RestartRoot
<1> HIDE DEF k
<1>4. /\ ready \in Host /\ Alike(ready, k) /\ (Bundle(w) => ready.instance # 0)
      /\ (k.instance # 0 => ready.instance # 0) /\ (Suspends(k, w) => Suspends(ready, w))
  BY <1>1, StartStarts
<1> HIDE DEF ready
<1>5. /\ Sound(ready) /\ ready.tag = k.tag /\ (Served(h) => Served(ready))
      /\ \A q : Has(ready, q) <=> Has(h, q)
  BY <1>2, <1>4, AlikeServes DEF Alike
<1>6. CASE ready.instance # 0
  <2>1. /\ g \in Host /\ g.roots = ready.roots /\ g.instance = ready.instance
        /\ g.suspended = ready.suspended /\ g.next = ready.next + 1
        /\ \A q \in Roots : g.tag[q] = IF q = r THEN ready.next ELSE ready.tag[q]
    BY <1>3, <1>4, <1>6, StartSurfaceShows
  <2>2. Served(h) /\ Has(h, r) => Served(g)
    BY <1>1, <1>3, <1>5, <1>6, StartSurfaceServes
  <2> HIDE DEF g
  <2>3. Sound(g) /\ g.tag[r] # 0 /\ \A q : Has(g, q) <=> Has(ready, q)
    BY <1>5, <2>1 DEF Sound, Host, Has
  <2>4. Suspends(ready, w) => Suspends(g, w)
    BY <2>1, <2>3 DEF Suspends
  <2> QED BY <1>1, <1>2, <1>4, <1>5, <2>1, <2>2, <2>3, <2>4 DEF g
<1>7. CASE ready.instance = 0
  BY <1>1, <1>2, <1>3, <1>4, <1>5, <1>7
<1> QED BY <1>6, <1>7 DEF Sound, Host

\* reload() outside a frame: every listed root is shown again as soon as there is a bundle.
LEMMA ReloadAllDoes ==
  ASSUME NEW h, Sound(h), NEW w
  PROVE  LET g == ReloadAll(h, w)
         IN /\ Sound(g) /\ (Suspends(h, w) => Suspends(g, w))
            /\ \A q \in Roots : Bundle(w) /\ Has(h, q) => g.tag[q] # 0
            /\ \A q : Has(g, q) <=> Has(h, q)
            /\ Served(h) => Served(g)
<1> DEFINE k == Retire(h)
           ready == Start(k, w)
           g == ReloadAll(h, w)
<1>1. /\ Sound(k) /\ (\A q : Has(k, q) <=> Has(h, q)) /\ k.instance = 0
      /\ Served(h) => Served(k) /\ \A q \in Roots : k.tag[q] = 0
  <2>1. CASE h.instance = 0
    BY <2>1 DEF Retire, Served, TagsAreOwn
  <2>2. CASE h.instance # 0
    <3> DEFINE l == StopAll(h)
    <3>1. k = [l EXCEPT !.instance = 0, !.started = {}]
      BY <2>2 DEF Retire
    <3>2. /\ l \in Host /\ l.roots = h.roots /\ l.next = h.next
          /\ \A q \in Roots : l.tag[q] = IF Has(h, q) THEN 0 ELSE h.tag[q]
          /\ \A n, q : <<n, q>> \in l.surfaces <=>
               <<n, q>> \in h.surfaces /\ ~\E r \in Roots : Has(h, r) /\ h.tag[r] = n
      BY StopAllHides DEF Sound
    <3> HIDE DEF l
    <3>3. /\ k \in Host /\ k.roots = l.roots /\ k.tag = l.tag /\ k.surfaces = l.surfaces
          /\ k.next = l.next /\ k.instance = 0 /\ k.started = {}
      <4> DEFINE none == {}
      <4>1. none \in SUBSET Nat /\ k = [l EXCEPT !.instance = 0, !.started = none]
        BY <3>1
      <4> HIDE DEF none, k
      <4>2. /\ k \in Host /\ k.roots = l.roots /\ k.tag = l.tag /\ k.surfaces = l.surfaces
            /\ k.next = l.next /\ k.instance = 0 /\ k.started = none
        BY <3>2, <4>1 DEF Host
      <4> QED BY <4>2 DEF none
    <3> HIDE DEF k
    <3>4. Sound(k) /\ \A q : Has(k, q) <=> Has(h, q)
      BY <3>2, <3>3 DEF Sound, Has
    <3>5. ASSUME Served(h) PROVE Served(k) /\ \A q \in Roots : k.tag[q] = 0
      <4>1. \A q \in Roots : k.tag[q] = 0
        BY <3>2, <3>3, <3>5 DEF Served, TagsAreOwn
      <4>2. ASSUME NEW n \in Nat, NEW q \in Roots PROVE <<n, q>> \notin k.surfaces
        <5>1. <<n, q>> \in h.surfaces => h.tag[q] = n /\ Has(h, q)
          BY <3>5 DEF Served, TagsAreOwn
        <5> QED BY <3>2, <3>3, <5>1
      <4>3. 0 < k.next
        BY <3>4 DEF Sound, Host
      <4> QED BY <3>3, <4>1, <4>2, <4>3 DEF Served, TagsAreOwn
    <3> QED BY <3>3, <3>4, <3>5 DEF k
  <2> QED BY <2>1, <2>2 DEF Sound, Host
<1>2. g = IF ready.instance # 0 THEN StartAll(ready) ELSE ready
  BY DEF ReloadAll
<1>3. Suspends(k, w)
  BY <1>1 DEF Suspends
<1> HIDE DEF k
<1>4. /\ ready \in Host /\ Alike(ready, k) /\ (Bundle(w) => ready.instance # 0)
      /\ Suspends(ready, w)
  BY <1>1, <1>3, StartStarts DEF Sound
<1> HIDE DEF ready
<1>5. /\ Sound(ready) /\ (\A q : Has(ready, q) <=> Has(h, q)) /\ ready.tag = k.tag
      /\ Served(h) => Served(ready) /\ \A q \in Roots : ready.tag[q] = 0
  BY <1>1, <1>4, AlikeServes DEF Alike
<1>6. CASE ready.instance # 0
  <2>1. /\ g \in Host /\ g.roots = ready.roots /\ g.instance = ready.instance
        /\ g.suspended = ready.suspended /\ g.next = ready.next + Len(ready.roots)
        /\ \A i \in 1..Len(ready.roots) : g.tag[ready.roots[i]] = ready.next + i - 1
    BY <1>2, <1>5, <1>6, StartAllShows
  <2>2. Served(h) => Served(g)
    BY <1>2, <1>5, <1>6, StartAllServes
  <2> HIDE DEF g
  <2>3. Sound(g) /\ \A q : Has(g, q) <=> Has(ready, q)
    <3>1. g.next # 0 /\ ready.next \in Nat \ {0}
      BY <1>5, <2>1 DEF Sound, Host
    <3> QED BY <1>5, <2>1, <3>1 DEF Sound, Has
  <2>4. \A q \in Roots : Has(h, q) => g.tag[q] # 0
    <3>1. ready.next \in Nat \ {0} /\ Len(ready.roots) \in Nat
      BY <1>5 DEF Sound, Host
    <3>2. \A i \in 1..Len(ready.roots) : g.tag[ready.roots[i]] # 0
      BY <2>1, <3>1
    <3> QED BY <1>5, <3>2 DEF Has
  <2>5. Suspends(g, w)
    BY <1>4, <2>1, <2>3 DEF Suspends
  <2> QED BY <1>5, <2>2, <2>3, <2>4, <2>5 DEF g
<1>7. CASE ready.instance = 0
  BY <1>2, <1>4, <1>5, <1>7
<1> QED BY <1>6, <1>7

(***************************************************************************)
(* The steps of any game.                                                  *)
(***************************************************************************)
\* A call put off to the next frame finds the list of calls of the last frame empty; a
\* listed root is in the tree; and then no root waits.
RootsInv ==
  /\ TypeOK /\ host.next # 0
  /\ frame # "tasks" => pending = <<>>
  /\ \A r \in Roots : Has(host, r) => inTree[r]
  /\ NoRootWaits

\* What NoRootWaits says, of the fields and of the lists of calls.
AllShown(h) == \A r \in Roots : Has(h, r) => h.tag[r] # 0
Reloads(q) == [op |-> "reload"] \in ToSet(q)

\* NoRootWaits, said of the fields and of what is deferred.
LEMMA WaitsOf ==
  /\ NoRootWaits <=> /\ hasFile /\ ~Reloads(deferred) /\ ~Reloads(pending) => AllShown(host)
                     /\ Suspends(host, World)
  /\ NoRootWaits' <=> /\ hasFile' /\ ~Reloads(deferred') /\ ~Reloads(pending') => AllShown(host')
                      /\ Suspends(host', World')
BY DEF NoRootWaits, Reloading, Reloads, AllShown, Suspends, World, Has

\* A call at the end of a list, or taken from its head.
LEMMA CallAppended ==
  ASSUME NEW q \in Seq(Calls), NEW call \in Calls
  PROVE  /\ Append(q, call) \in Seq(Calls)
         /\ \A c : c \in ToSet(Append(q, call)) <=> c \in ToSet(q) \/ c = call
<1>1. /\ Len(Append(q, call)) = Len(q) + 1 /\ Len(q) \in Nat /\ Append(q, call) \in Seq(Calls)
      /\ \A i \in 1..Len(q) + 1 : Append(q, call)[i] = IF i <= Len(q) THEN q[i] ELSE call
  OBVIOUS
<1> QED BY <1>1 DEF ToSet

\* And what was in the list is its head or still in it.
LEMMA CallTaken ==
  ASSUME NEW q \in Seq(Calls), q # <<>>
  PROVE  /\ Head(q) \in Calls /\ Tail(q) \in Seq(Calls)
         /\ \A c : c \in ToSet(q) <=> c = Head(q) \/ c \in ToSet(Tail(q))
<1>1. /\ Len(q) \in Nat \ {0} /\ Head(q) = q[1] /\ Tail(q) \in Seq(Calls) /\ Len(Tail(q)) = Len(q) - 1
      /\ \A i \in 1..Len(q) - 1 : Tail(q)[i] = q[i + 1]
  OBVIOUS
<1>2. ASSUME NEW c, c \in ToSet(q) PROVE c = Head(q) \/ c \in ToSet(Tail(q))
  <2>1. PICK i \in 1..Len(q) : q[i] = c
    BY <1>1, <1>2 DEF ToSet
  <2>2. CASE i # 1
    <3>1. i - 1 \in 1..Len(Tail(q)) /\ Tail(q)[i - 1] = c
      BY <1>1, <2>1, <2>2
    <3>2. DOMAIN Tail(q) = 1..Len(Tail(q))
      BY <1>1
    <3> QED BY <3>1, <3>2 DEF ToSet
  <2> QED BY <1>1, <2>1, <2>2
<1>3. ASSUME NEW c, c \in ToSet(Tail(q)) PROVE c \in ToSet(q)
  <2>1. PICK i \in 1..Len(q) - 1 : Tail(q)[i] = c
    BY <1>1, <1>3 DEF ToSet
  <2>2. i + 1 \in 1..Len(q) /\ q[i + 1] = c
    BY <1>1, <2>1
  <2> QED BY <1>1, <2>2 DEF ToSet
<1> QED BY <1>1, <1>2, <1>3 DEF ToSet

\* A scene without roots waits for nothing.
LEMMA RootsInvInit == Init => RootsInv
<1> SUFFICES ASSUME Init PROVE RootsInv
  OBVIOUS
<1>1. /\ host.roots = <<>> /\ host.next = 1 /\ host.instance = 0 /\ \A r : ~Has(host, r)
      /\ pending = <<>>
  BY DEF Init, Has
<1>2. host \in Host /\ IsInjective(host.roots)
  BY DEF Init, Host, IsInjective
<1>3. TypeOK
  BY <1>2 DEF Init, TypeOK
<1>4. NoRootWaits
  BY <1>1 DEF NoRootWaits
<1> QED BY <1>1, <1>3, <1>4 DEF RootsInv

\* A method is called now, or waits for the next frame.
LEMMA DeferrableDoes ==
  ASSUME RootsInv, NEW call \in Calls, NEW now, Deferrable(call, now)
  PROVE  /\ frame' = frame /\ pending' = pending /\ deferred' \in Seq(Calls)
         /\ \/ /\ InFrame /\ host' = host
               /\ \A c : c \in ToSet(deferred') <=> c \in ToSet(deferred) \/ c = call
            \/ ~InFrame /\ host' = now /\ deferred' = deferred
BY CallAppended DEF Deferrable, queues, RootsInv, TypeOK

\* The parts of the invariant that a step of the scene shows.
LEMMA RootsInvOf ==
  ASSUME Sound(host'), Suspends(host', World'),
         inTree' \in [Roots -> BOOLEAN], preview' \in [Roots -> BOOLEAN],
         processing' \in [Roots -> BOOLEAN], hasFile' \in BOOLEAN,
         frame' \in {"between", "tasks", "processing"},
         deferred' \in Seq(Calls), pending' \in Seq(Calls),
         frame' # "tasks" => pending' = <<>>,
         \A r \in Roots : Has(host', r) => inTree'[r],
         hasFile' /\ ~Reloads(deferred') /\ ~Reloads(pending') => AllShown(host')
  PROVE  RootsInv'
<1>1. TypeOK'
  BY DEF TypeOK, Sound
<1>2. NoRootWaits'
  BY WaitsOf
<1>3. \A r \in Roots : Has(host, r)' => inTree[r]'
  BY DEF Has
<1> QED BY <1>1, <1>2, <1>3 DEF RootsInv, Sound

\* What each step below starts from.
LEMMA RootsInvGives ==
  ASSUME RootsInv
  PROVE  /\ Sound(host) /\ Suspends(host, World) /\ TypeOK
         /\ hasFile /\ ~Reloads(deferred) /\ ~Reloads(pending) => AllShown(host)
         /\ frame # "tasks" => pending = <<>>
         /\ \A r \in Roots : Has(host, r) => inTree[r]
BY WaitsOf DEF RootsInv, TypeOK, Sound

\* Who can process matters only of the listed roots.
LEMMA SuspendsStill ==
  ASSUME NEW h, NEW v, NEW w, Suspends(h, v), v.able \subseteq Roots, w.able \subseteq Roots,
         \A r \in Roots : Has(h, r) => (r \in v.able <=> r \in w.able)
  PROVE  Suspends(h, w)
BY DEF Suspends

\* A root that is in the tree registers, now or in the next frame.
LEMMA RegisterStep ==
  ASSUME RootsInv, NEW r \in Roots, NEW w, host' = Register(host, r, w), w = World',
         inTree' \in [Roots -> BOOLEAN], preview' \in [Roots -> BOOLEAN], inTree'[r] = TRUE,
         \A q \in Roots : q # r => inTree'[q] = inTree[q],
         pending' \in Seq(Calls), frame # "tasks" => pending' = <<>>,
         Reloads(pending) => Reloads(pending'),
         UNCHANGED <<processing, hasFile, frame, deferred>>
  PROVE  RootsInv'
<1>1. /\ Sound(host) /\ TypeOK
      /\ hasFile /\ ~Reloads(deferred) /\ ~Reloads(pending) => AllShown(host)
      /\ \A q \in Roots : Has(host, q) => inTree[q]
  BY RootsInvGives
<1>2. /\ Sound(host') /\ Suspends(host', w) /\ (Bundle(w) => host'.tag[r] # 0)
      /\ \A q : Has(host', q) <=> Has(host, q) \/ q = r
      /\ \A q \in Roots : q # r => host'.tag[q] = host.tag[q]
  BY <1>1, RegisterDoes
<1>3. \A q \in Roots : Has(host', q) => inTree'[q]
  BY <1>1, <1>2
<1>4. Bundle(w) <=> hasFile'
  BY DEF World, Bundle
<1>5. hasFile' /\ ~Reloads(deferred') /\ ~Reloads(pending') => AllShown(host')
  BY <1>1, <1>2, <1>4 DEF AllShown
<1> QED BY <1>1, <1>2, <1>3, <1>5, RootsInvOf DEF TypeOK

\* A root that enters the tree registers, or its restart is deferred.
LEMMA EnterTreeStep ==
  ASSUME RootsInv, NEW r \in Roots, EnterTree(r)
  PROVE  RootsInv'
<1>1. /\ Sound(host) /\ Suspends(host, World) /\ TypeOK /\ frame # "tasks" /\ pending = <<>>
      /\ hasFile /\ ~Reloads(deferred) /\ ~Reloads(pending) => AllShown(host)
      /\ \A q \in Roots : Has(host, q) => inTree[q]
      /\ ~inTree[r] /\ inTree' = [inTree EXCEPT ![r] = TRUE]
      /\ UNCHANGED <<preview, processing, hasFile>>
  BY RootsInvGives DEF EnterTree, Calling
<1>2. /\ World'.file = hasFile' /\ World'.able \subseteq Roots /\ World.able \subseteq Roots
      /\ \A q \in Roots : q # r => (q \in World.able <=> q \in World'.able)
  BY <1>1 DEF World, TypeOK
<1>3. Suspends(host, World')
  BY <1>1, <1>2, SuspendsStill
<1>4. CASE preview[r]
  <2>1. Deferrable([op |-> "register", root |-> r], Register(host, r, World'))
    BY <1>4 DEF EnterTree
  <2>2. [op |-> "register", root |-> r] \in Calls
    BY DEF Calls
  <2>3. /\ frame' = frame /\ pending' = pending /\ deferred' \in Seq(Calls)
        /\ \/ host' = host /\ (Reloads(deferred) => Reloads(deferred'))
           \/ host' = Register(host, r, World') /\ deferred' = deferred
    BY <2>1, <2>2, DeferrableDoes DEF Reloads
  <2>4. CASE host' = host /\ (Reloads(deferred) => Reloads(deferred'))
    <3>1. \A q \in Roots : Has(host', q) => inTree'[q]
      BY <1>1, <2>4 DEF TypeOK
    <3>2. Sound(host') /\ Suspends(host', World')
      BY <1>1, <1>3, <2>4
    <3> QED BY <1>1, <2>3, <2>4, <3>1, <3>2, RootsInvOf DEF TypeOK
  <2>5. CASE host' = Register(host, r, World') /\ deferred' = deferred
    BY <1>1, <2>3, <2>5, RegisterStep DEF TypeOK
  <2> QED BY <2>3, <2>4, <2>5
<1>5. CASE ~preview[r]
  <2>1. UNCHANGED <<host, frame, deferred, pending>>
    BY <1>5 DEF EnterTree, queues
  <2>2. \A q \in Roots : Has(host', q) => inTree'[q]
    BY <1>1, <2>1 DEF TypeOK
  <2>3. Sound(host') /\ Suspends(host', World')
    BY <1>1, <1>3, <2>1
  <2> QED BY <1>1, <2>1, <2>2, <2>3, RootsInvOf DEF TypeOK
<1> QED BY <1>4, <1>5

\* A root leaves the list, whether it leaves the tree or its preview is turned off.
LEMMA UnregisterStep ==
  ASSUME RootsInv, NEW r \in Roots, NEW w, host' = Unregister(host, r, w), w = World',
         inTree' \in [Roots -> BOOLEAN], preview' \in [Roots -> BOOLEAN],
         \A q \in Roots : q # r => inTree'[q] = inTree[q],
         UNCHANGED <<processing, hasFile, frame, deferred, pending>>
  PROVE  RootsInv'
<1>1. /\ Sound(host) /\ TypeOK /\ (frame # "tasks" => pending = <<>>)
      /\ hasFile /\ ~Reloads(deferred) /\ ~Reloads(pending) => AllShown(host)
      /\ \A q \in Roots : Has(host, q) => inTree[q]
  BY RootsInvGives
<1>2. /\ Sound(host') /\ Suspends(host', w)
      /\ \A q : Has(host', q) <=> Has(host, q) /\ q # r
      /\ \A q \in Roots : q # r => host'.tag[q] = host.tag[q]
  BY <1>1, UnregisterDoes
<1>3. \A q \in Roots : Has(host', q) => inTree'[q]
  BY <1>1, <1>2
<1>4. hasFile' /\ ~Reloads(deferred') /\ ~Reloads(pending') => AllShown(host')
  BY <1>1, <1>2 DEF AllShown
<1> QED BY <1>1, <1>2, <1>3, <1>4, RootsInvOf DEF TypeOK

\* A root that leaves the tree is unregistered at once.
LEMMA ExitTreeStep ==
  ASSUME RootsInv, NEW r \in Roots, ExitTree(r)
  PROVE  RootsInv'
<1>1. /\ host' = Unregister(host, r, World') /\ inTree' = [inTree EXCEPT ![r] = FALSE]
      /\ UNCHANGED <<preview, processing, hasFile, frame, deferred, pending>> /\ TypeOK
  BY DEF ExitTree, queues, RootsInv
<1> QED BY <1>1, UnregisterStep DEF TypeOK

\* A root whose preview is switched registers or leaves.
LEMMA SetPreviewStep ==
  ASSUME RootsInv, NEW r \in Roots, SetPreview(r)
  PROVE  RootsInv'
<1>1. /\ Sound(host) /\ Suspends(host, World) /\ TypeOK /\ frame # "tasks" /\ pending = <<>>
      /\ hasFile /\ ~Reloads(deferred) /\ ~Reloads(pending) => AllShown(host)
      /\ \A q \in Roots : Has(host, q) => inTree[q]
      /\ preview' = [preview EXCEPT ![r] = ~@] /\ UNCHANGED <<inTree, processing, hasFile>>
  BY RootsInvGives DEF SetPreview, Calling
<1>2. World' = World
  BY <1>1 DEF World
<1>3. CASE inTree[r] /\ preview'[r]
  <2>1. Deferrable([op |-> "register", root |-> r], Register(host, r, World))
    BY <1>3 DEF SetPreview
  <2>2. [op |-> "register", root |-> r] \in Calls
    BY DEF Calls
  <2>3. /\ frame' = frame /\ pending' = pending /\ deferred' \in Seq(Calls)
        /\ \/ host' = host /\ (Reloads(deferred) => Reloads(deferred'))
           \/ host' = Register(host, r, World) /\ deferred' = deferred
    BY <2>1, <2>2, DeferrableDoes DEF Reloads
  <2>4. CASE host' = host /\ (Reloads(deferred) => Reloads(deferred'))
    BY <1>1, <1>2, <2>3, <2>4, RootsInvOf DEF TypeOK
  <2>5. CASE host' = Register(host, r, World) /\ deferred' = deferred
    BY <1>1, <1>2, <1>3, <2>3, <2>5, RegisterStep DEF TypeOK
  <2> QED BY <2>3, <2>4, <2>5
<1>4. CASE inTree[r] /\ ~preview'[r]
  <2>1. host' = Unregister(host, r, World) /\ UNCHANGED <<frame, deferred, pending>>
    BY <1>4 DEF SetPreview, queues
  <2> QED BY <1>1, <1>2, <2>1, UnregisterStep DEF TypeOK
<1>5. CASE ~inTree[r]
  <2>1. UNCHANGED <<host, frame, deferred, pending>>
    BY <1>5 DEF SetPreview, queues
  <2> QED BY <1>1, <1>2, <2>1, RootsInvOf DEF TypeOK
<1> QED BY <1>3, <1>4, <1>5

\* A root is restarted, now or in the next frame.
LEMMA RestartStep ==
  ASSUME RootsInv, NEW r \in Roots, host' = RestartRoot(host, r, World),
         pending' \in Seq(Calls), frame # "tasks" => pending' = <<>>,
         Reloads(pending) => Reloads(pending'),
         UNCHANGED <<inTree, preview, processing, hasFile, frame, deferred>>
  PROVE  RootsInv'
<1>1. /\ Sound(host) /\ TypeOK /\ Suspends(host, World)
      /\ hasFile /\ ~Reloads(deferred) /\ ~Reloads(pending) => AllShown(host)
      /\ \A q \in Roots : Has(host, q) => inTree[q]
  BY RootsInvGives
<1>2. World' = World /\ (Bundle(World) <=> hasFile)
  BY DEF World, Bundle
<1>3. /\ Sound(host') /\ Suspends(host', World) /\ (Bundle(World) => host'.tag[r] # 0)
      /\ \A q : Has(host', q) <=> Has(host, q)
      /\ \A q \in Roots : q # r => host'.tag[q] = host.tag[q]
  <2> DEFINE g == RestartRoot(host, r, World)
  <2>1. /\ Sound(g) /\ Suspends(g, World) /\ (Bundle(World) => g.tag[r] # 0)
        /\ \A q : Has(g, q) <=> Has(host, q)
        /\ \A q \in Roots : q # r => g.tag[q] = host.tag[q]
    BY <1>1, RestartRootDoes
  <2>2. host' = g
    OBVIOUS
  <2> HIDE DEF g
  <2> QED BY <2>1, <2>2
<1>4. hasFile' /\ ~Reloads(deferred') /\ ~Reloads(pending') => AllShown(host')
  BY <1>1, <1>2, <1>3 DEF AllShown
<1> QED BY <1>1, <1>2, <1>3, <1>4, RootsInvOf DEF TypeOK

\* A root is reloaded, at once or after the frame.
LEMMA ReloadRootStep ==
  ASSUME RootsInv, NEW r \in Roots, ReloadRoot(r)
  PROVE  RootsInv'
<1>1. /\ Sound(host) /\ Suspends(host, World) /\ TypeOK /\ frame # "tasks" /\ pending = <<>>
      /\ hasFile /\ ~Reloads(deferred) /\ ~Reloads(pending) => AllShown(host)
      /\ \A q \in Roots : Has(host, q) => inTree[q]
      /\ UNCHANGED <<inTree, preview, processing, hasFile>>
      /\ Deferrable([op |-> "restart", root |-> r], RestartRoot(host, r, World))
  BY RootsInvGives DEF ReloadRoot, Calling, scene
<1>2. World' = World /\ [op |-> "restart", root |-> r] \in Calls
  BY <1>1 DEF World, Calls
<1>3. /\ frame' = frame /\ pending' = pending /\ deferred' \in Seq(Calls)
      /\ \/ host' = host /\ (Reloads(deferred) => Reloads(deferred'))
         \/ host' = RestartRoot(host, r, World) /\ deferred' = deferred
  BY <1>1, <1>2, DeferrableDoes DEF Reloads
<1>4. CASE host' = host /\ (Reloads(deferred) => Reloads(deferred'))
  BY <1>1, <1>2, <1>3, <1>4, RootsInvOf DEF TypeOK
<1>5. CASE host' = RestartRoot(host, r, World) /\ deferred' = deferred
  BY <1>1, <1>2, <1>3, <1>5, RestartStep DEF TypeOK
<1> QED BY <1>3, <1>4, <1>5

\* The runtime is reloaded, now or in the next frame.
LEMMA ReloadsStep ==
  ASSUME RootsInv, NEW w, host' = ReloadAll(host, w), w = World', hasFile' \in BOOLEAN,
         pending' \in Seq(Calls), frame # "tasks" => pending' = <<>>,
         UNCHANGED <<inTree, preview, processing, frame, deferred>>
  PROVE  RootsInv'
<1>1. /\ Sound(host) /\ TypeOK /\ Suspends(host, World)
      /\ \A q \in Roots : Has(host, q) => inTree[q]
  BY RootsInvGives
<1>2. w.able = World.able /\ (Bundle(w) <=> hasFile')
  BY DEF World, Bundle
<1>3. Suspends(host, w)
  BY <1>1, <1>2 DEF Suspends
<1>4. /\ Sound(host') /\ Suspends(host', w)
      /\ \A q \in Roots : Bundle(w) /\ Has(host, q) => host'.tag[q] # 0
      /\ \A q : Has(host', q) <=> Has(host, q)
  BY <1>1, <1>3, ReloadAllDoes
<1>5. hasFile' => AllShown(host')
  BY <1>2, <1>4 DEF AllShown
<1>6. \A q \in Roots : Has(host', q) => inTree'[q]
  BY <1>1, <1>4
<1> QED BY <1>1, <1>4, <1>5, <1>6, RootsInvOf DEF TypeOK

\* All roots are reloaded, at once or after the frame; the bundle may have gone.
LEMMA ReloadStep ==
  ASSUME RootsInv, \/ Reload
                   \/ \E exists \in BOOLEAN : BundleChanged(exists)
  PROVE  RootsInv'
<1>1. /\ Sound(host) /\ Suspends(host, World) /\ TypeOK /\ frame # "tasks" /\ pending = <<>>
      /\ hasFile /\ ~Reloads(deferred) /\ ~Reloads(pending) => AllShown(host)
      /\ \A q \in Roots : Has(host, q) => inTree[q]
      /\ UNCHANGED <<inTree, preview, processing>> /\ hasFile' \in BOOLEAN
  BY RootsInvGives DEF Reload, BundleChanged, Calling, scene, TypeOK
<1>2. PICK w : w = World'
  OBVIOUS
<1>3. w.able = World.able /\ [op |-> "reload"] \in Calls
  BY <1>1, <1>2 DEF World, Calls
<1>4. Suspends(host, w)
  BY <1>1, <1>3 DEF Suspends
<1>5. \/ Deferrable([op |-> "reload"], ReloadAll(host, w))
      \/ host.roots = <<>> /\ UNCHANGED <<host, queues>>
  <2>1. CASE Reload
    <3>1. w = World
      BY <1>1, <1>2, <2>1 DEF World, Reload
    <3> QED BY <2>1, <3>1 DEF Reload
  <2>2. ASSUME NEW exists \in BOOLEAN, BundleChanged(exists)
        PROVE  \/ Deferrable([op |-> "reload"], ReloadAll(host, w))
               \/ host.roots = <<>> /\ UNCHANGED <<host, queues>>
    BY <1>2, <2>2 DEF BundleChanged
  <2> QED BY <2>1, <2>2
<1>6. CASE Deferrable([op |-> "reload"], ReloadAll(host, w))
  <2>1. /\ frame' = frame /\ pending' = pending /\ deferred' \in Seq(Calls)
        /\ \/ host' = host /\ Reloads(deferred')
           \/ host' = ReloadAll(host, w) /\ deferred' = deferred
    BY <1>3, <1>6, DeferrableDoes DEF Reloads
  <2>2. CASE host' = host /\ Reloads(deferred')
    BY <1>1, <1>2, <1>4, <2>1, <2>2, RootsInvOf DEF TypeOK
  <2>3. CASE host' = ReloadAll(host, w) /\ deferred' = deferred
    BY <1>1, <1>2, <2>1, <2>3, ReloadsStep DEF TypeOK
  <2> QED BY <2>1, <2>2, <2>3
<1>7. CASE host.roots = <<>> /\ UNCHANGED <<host, queues>>
  <2>1. AllShown(host') /\ UNCHANGED <<frame, deferred, pending>>
    BY <1>7 DEF AllShown, Has, queues
  <2> QED BY <1>1, <1>2, <1>4, <1>7, <2>1, RootsInvOf DEF TypeOK
<1> QED BY <1>5, <1>6, <1>7

\* The host starts when something is to be evaluated.
LEMMA EvaluateStep ==
  ASSUME RootsInv, Evaluate
  PROVE  RootsInv'
<1>1. /\ Sound(host) /\ Suspends(host, World) /\ TypeOK /\ (frame # "tasks" => pending = <<>>)
      /\ hasFile /\ ~Reloads(deferred) /\ ~Reloads(pending) => AllShown(host)
      /\ \A q \in Roots : Has(host, q) => inTree[q]
      /\ UNCHANGED <<inTree, preview, processing, hasFile, frame, deferred, pending>>
      /\ host' = Start(host, World)
  BY RootsInvGives DEF Evaluate, scene, queues
<1>2. World' = World
  BY <1>1 DEF World
<1>3. host' \in Host /\ Alike(host', host) /\ Suspends(host', World)
  BY <1>1, StartStarts DEF Sound
<1>4. /\ Sound(host') /\ (\A q : Has(host', q) <=> Has(host, q))
      /\ AllShown(host) => AllShown(host')
  BY <1>1, <1>3, AlikeServes DEF Alike, AllShown
<1> QED BY <1>1, <1>2, <1>3, <1>4, RootsInvOf DEF TypeOK

\* A root can process, or cannot any more.
LEMMA RootStateChangedStep ==
  ASSUME RootsInv, NEW r \in Roots, RootStateChanged(r)
  PROVE  RootsInv'
<1>1. /\ Sound(host) /\ Suspends(host, World) /\ TypeOK /\ (frame # "tasks" => pending = <<>>)
      /\ hasFile /\ ~Reloads(deferred) /\ ~Reloads(pending) => AllShown(host)
      /\ \A q \in Roots : Has(host, q) => inTree[q]
      /\ processing' = [processing EXCEPT ![r] = ~@]
      /\ UNCHANGED <<inTree, preview, hasFile, frame, deferred, pending>>
      /\ host' = IF inTree[r] THEN UpdateSuspension(host, World') ELSE host
  BY RootsInvGives DEF RootStateChanged, queues
<1>2. processing' \in [Roots -> BOOLEAN] /\ World.able \subseteq Roots /\ World'.able \subseteq Roots
  BY <1>1 DEF TypeOK, World
<1>3. CASE inTree[r]
  <2>1. PICK w : w = World'
    OBVIOUS
  <2>2. host' = UpdateSuspension(host, w)
    BY <1>1, <1>3, <2>1
  <2>3. host' \in Host /\ Alike(host', host) /\ Suspends(host', w)
    BY <1>1, <2>2, UpdateSuspensionSets DEF Sound
  <2>4. /\ Sound(host') /\ (\A q : Has(host', q) <=> Has(host, q))
        /\ AllShown(host) => AllShown(host')
    BY <1>1, <2>3, AlikeServes DEF Alike, AllShown
  <2> QED BY <1>1, <1>2, <2>1, <2>3, <2>4, RootsInvOf DEF TypeOK
<1>4. CASE ~inTree[r]
  <2>1. \A q \in Roots : Has(host, q) => (q \in World.able <=> q \in World'.able)
    BY <1>1, <1>4 DEF World, TypeOK
  <2>2. Suspends(host, World')
    BY <1>1, <1>2, <2>1, SuspendsStill
  <2> QED BY <1>1, <1>2, <1>4, <2>2, RootsInvOf DEF TypeOK
<1> QED BY <1>3, <1>4

\* The calls put off are done when the next frame begins, before the frame itself.
LEMMA FrameBeginStep ==
  ASSUME RootsInv, FrameBegin
  PROVE  RootsInv'
<1>1. /\ Sound(host) /\ Suspends(host, World) /\ TypeOK /\ pending = <<>>
      /\ hasFile /\ ~Reloads(deferred) /\ ~Reloads(pending) => AllShown(host)
      /\ \A q \in Roots : Has(host, q) => inTree[q]
      /\ UNCHANGED <<host, inTree, preview, processing, hasFile>>
      /\ frame' = "tasks" /\ pending' = deferred /\ deferred' = <<>>
  BY RootsInvGives DEF FrameBegin, scene
<1>2. World' = World /\ deferred' \in Seq(Calls)
  BY <1>1 DEF World
<1>3. ~Reloads(pending)
  BY <1>1 DEF Reloads, ToSet
<1> QED BY <1>1, <1>2, <1>3, RootsInvOf DEF TypeOK

\* A call that waited for the frame is made.
LEMMA RunDeferredStep ==
  ASSUME RootsInv, RunDeferred
  PROVE  RootsInv'
<1>1. /\ Sound(host) /\ Suspends(host, World) /\ TypeOK /\ frame = "tasks" /\ pending # <<>>
      /\ hasFile /\ ~Reloads(deferred) /\ ~Reloads(pending) => AllShown(host)
      /\ \A q \in Roots : Has(host, q) => inTree[q]
      /\ UNCHANGED <<inTree, preview, processing, hasFile, frame, deferred>>
      /\ host' = Run(Head(pending)) /\ pending' = Tail(pending)
  BY RootsInvGives DEF RunDeferred, scene
<1>2. PICK call \in Calls : call = Head(pending)
  BY <1>1, CallTaken DEF TypeOK
<1>3. pending' \in Seq(Calls) /\ (call.op # "reload" => (Reloads(pending) <=> Reloads(pending')))
  <2>1. \A c : c \in ToSet(pending) <=> c = call \/ c \in ToSet(pending')
    BY <1>1, <1>2, CallTaken DEF TypeOK
  <2> QED BY <1>1, <2>1, CallTaken DEF TypeOK, Reloads
<1>4. World' = World /\ host' = Run(call)
  BY <1>1, <1>2 DEF World
<1>5. CASE call.op = "reload"
  <2>1. host' = ReloadAll(host, World)
    BY <1>4, <1>5 DEF Run
  <2> QED BY <1>1, <1>3, <1>4, <2>1, ReloadsStep DEF TypeOK
<1>6. CASE call.op # "reload"
  <2>1. call.root \in Roots /\ call.op \in {"register", "restart"}
    BY <1>6 DEF Calls
  <2>2. CASE ~inTree[call.root]
    <3>1. host' = host
      BY <1>4, <1>6, <2>2 DEF Run
    <3> QED BY <1>1, <1>3, <1>4, <1>6, <3>1, RootsInvOf DEF TypeOK
  <2>3. CASE inTree[call.root] /\ call.op = "register"
    <3>1. host' = Register(host, call.root, World)
      BY <1>4, <2>3 DEF Run
    <3> QED BY <1>1, <1>3, <1>4, <1>6, <2>1, <2>3, <3>1, RegisterStep DEF TypeOK
  <2>4. CASE inTree[call.root] /\ call.op = "restart"
    <3>1. host' = RestartRoot(host, call.root, World)
      BY <1>4, <2>4 DEF Run
    <3> QED BY <1>1, <1>3, <1>6, <2>1, <3>1, RestartStep DEF TypeOK
  <2> QED BY <2>1, <2>2, <2>3, <2>4
<1> QED BY <1>5, <1>6

\* The frame goes on to processing, or ends.
LEMMA FrameStep ==
  ASSUME RootsInv, Process \/ FrameEnd
  PROVE  RootsInv'
<1>1. /\ Sound(host) /\ Suspends(host, World) /\ TypeOK /\ pending = <<>>
      /\ hasFile /\ ~Reloads(deferred) /\ ~Reloads(pending) => AllShown(host)
      /\ \A q \in Roots : Has(host, q) => inTree[q]
      /\ UNCHANGED <<host, inTree, preview, processing, hasFile, deferred, pending>>
      /\ frame' \in {"between", "tasks", "processing"}
  BY RootsInvGives DEF Process, FrameEnd, scene
<1>2. World' = World
  BY <1>1 DEF World
<1> QED BY <1>1, <1>2, RootsInvOf DEF TypeOK

\* No step lets a root wait.
LEMMA RootsInvNext == RootsInv /\ [Next]_vars => RootsInv'
<1> SUFFICES ASSUME RootsInv, [Next]_vars PROVE RootsInv'
  OBVIOUS
<1>1. CASE UNCHANGED vars
  BY <1>1 DEF vars, RootsInv, TypeOK, NoRootWaits, Reloading, World, Has
<1>2. ASSUME NEW r \in Roots, EnterTree(r) \/ ExitTree(r) \/ SetPreview(r)
                              \/ ReloadRoot(r) \/ RootStateChanged(r)
      PROVE  RootsInv'
  BY <1>2, EnterTreeStep, ExitTreeStep, SetPreviewStep, ReloadRootStep, RootStateChangedStep
<1>3. CASE Reload \/ \E exists \in BOOLEAN : BundleChanged(exists)
  BY <1>3, ReloadStep
<1>4. CASE Evaluate
  BY <1>4, EvaluateStep
<1>5. CASE Frame
  BY <1>5, FrameBeginStep, RunDeferredStep, FrameStep DEF Frame
<1> QED BY <1>1, <1>2, <1>3, <1>4, <1>5 DEF Next

\* Once there is a bundle and no reload is about to run, every registered root shows a
\* surface, whatever the game does with its roots and in whatever frame; and JavaScript is
\* suspended exactly while there are roots and none can process.
THEOREM NoRootEverWaits == SafetySpec => []NoRootWaits
<1>1. RootsInv => NoRootWaits
  BY DEF RootsInv
<1> QED BY <1>1, RootsInvInit, RootsInvNext, PTL DEF SafetySpec

(***************************************************************************)
(* The steps of a careful game.                                            *)
(***************************************************************************)
\* A root whose restart waits was listed when it was asked for.  If it is in the tree when
\* the restart is done it is still listed, or listed again: what leaves the tree leaves it
\* between two frames, and what enters it there registers at once.
Restarts(q, r) == [op |-> "restart", root |-> r] \in ToSet(q)
RestartsAreListed ==
  /\ frame = "tasks" => deferred = <<>>
  /\ \A r \in Roots :
       /\ (Restarts(deferred, r) \/ Restarts(pending, r)) /\ inTree[r] => Has(host, r)
       /\ frame = "processing" /\ Restarts(deferred, r) => inTree[r]

CarefulInv == RootsInv /\ Served(host) /\ RestartsAreListed /\ \A r \in Roots : preview[r]

\* A scene without roots serves all of its surfaces.
LEMMA CarefulInvInit == Init => CarefulInv
<1> SUFFICES ASSUME Init PROVE CarefulInv
  OBVIOUS
<1>1. /\ \A r \in Roots : host.tag[r] = 0
      /\ host.next = 1 /\ host.started = {} /\ host.surfaces = {}
  BY DEF Init
<1>2. Served(host)
  BY <1>1 DEF Served, TagsAreOwn
<1>3. ~(\E r : Restarts(deferred, r) \/ Restarts(pending, r)) /\ frame = "between"
  BY DEF Init, Restarts, ToSet
<1>4. \A r \in Roots : preview[r]
  BY DEF Init
<1> QED BY <1>2, <1>3, <1>4, RootsInvInit DEF CarefulInv, RestartsAreListed

\* What a step has to show: the invariant of any game is kept already.
LEMMA CarefulInvOf ==
  ASSUME RootsInv', Served(host'), \A r \in Roots : preview'[r],
         frame' = "tasks" => deferred' = <<>>,
         \A r \in Roots :
           /\ (Restarts(deferred', r) \/ Restarts(pending', r)) /\ inTree'[r] => Has(host', r)
           /\ frame' = "processing" /\ Restarts(deferred', r) => inTree'[r]
  PROVE  CarefulInv'
BY DEF CarefulInv, RestartsAreListed, Restarts, Served, TagsAreOwn, Has

\* What each step below starts from.
LEMMA CarefulInvGives ==
  ASSUME CarefulInv
  PROVE  /\ RootsInv /\ Sound(host) /\ TypeOK /\ Served(host) /\ (\A r \in Roots : preview[r])
         /\ frame # "tasks" => pending = <<>>
         /\ frame = "tasks" => deferred = <<>>
         /\ \A r \in Roots :
              /\ (Restarts(deferred, r) \/ Restarts(pending, r)) /\ inTree[r] => Has(host, r)
              /\ frame = "processing" /\ Restarts(deferred, r) => inTree[r]
BY RootsInvGives DEF CarefulInv, RestartsAreListed

\* No restart is added to the list by a register or a reload.
LEMMA NotARestart ==
  ASSUME RootsInv, NEW call \in Calls, call.op # "restart", NEW now, Deferrable(call, now)
  PROVE  /\ frame' = frame /\ pending' = pending
         /\ \A r : Restarts(deferred', r) <=> Restarts(deferred, r)
         /\ deferred = <<>> /\ ~InFrame => deferred' = <<>>
         /\ \/ InFrame /\ host' = host
            \/ ~InFrame /\ host' = now
<1>1. \A r : call # [op |-> "restart", root |-> r]
  OBVIOUS
<1> QED BY <1>1, DeferrableDoes DEF Restarts

\* A root that enters the tree is served.
LEMMA CarefulEnters ==
  ASSUME CarefulInv, NEW r \in Roots, EnterTree(r)
  PROVE  CarefulInv'
<1>1. /\ RootsInv /\ Sound(host) /\ TypeOK /\ Served(host) /\ (\A q \in Roots : preview[q])
      /\ frame # "tasks" /\ pending = <<>> /\ preview' = preview
      /\ \A q \in Roots :
           /\ (Restarts(deferred, q) \/ Restarts(pending, q)) /\ inTree[q] => Has(host, q)
           /\ frame = "processing" /\ Restarts(deferred, q) => inTree[q]
      /\ ~inTree[r] /\ inTree' = [inTree EXCEPT ![r] = TRUE]
      /\ Deferrable([op |-> "register", root |-> r], Register(host, r, World'))
  BY CarefulInvGives DEF EnterTree, Calling
<1>2. [op |-> "register", root |-> r] \in Calls /\ RootsInv'
  BY <1>1, EnterTreeStep DEF Calls
<1>3. /\ frame' = frame /\ pending' = pending
      /\ \A q : Restarts(deferred', q) <=> Restarts(deferred, q)
      /\ \/ InFrame /\ host' = host
         \/ ~InFrame /\ host' = Register(host, r, World')
  BY <1>1, <1>2, NotARestart
<1>4. ~\E q : Restarts(pending, q)
  BY <1>1 DEF Restarts, ToSet
<1>5. CASE InFrame /\ host' = host
  BY <1>1, <1>2, <1>3, <1>4, <1>5, CarefulInvOf DEF InFrame, TypeOK
<1>6. CASE ~InFrame /\ host' = Register(host, r, World')
  <2>1. PICK w : w = World'
    OBVIOUS
  <2>2. Served(host') /\ \A q : Has(host', q) <=> Has(host, q) \/ q = r
    BY <1>1, <1>6, <2>1, RegisterDoes
  <2> QED BY <1>1, <1>2, <1>3, <1>4, <1>6, <2>2, CarefulInvOf DEF InFrame, TypeOK
<1> QED BY <1>3, <1>5, <1>6

\* A root that leaves the tree between frames leaves no restart behind.
LEMMA CarefulExits ==
  ASSUME CarefulInv, Careful, NEW r \in Roots, ExitTree(r)
  PROVE  CarefulInv'
<1>1. /\ RootsInv /\ Sound(host) /\ TypeOK /\ Served(host) /\ (\A q \in Roots : preview[q])
      /\ frame # "tasks" /\ pending = <<>> /\ ~InFrame
      /\ \A q \in Roots :
           (Restarts(deferred, q) \/ Restarts(pending, q)) /\ inTree[q] => Has(host, q)
      /\ inTree' = [inTree EXCEPT ![r] = FALSE] /\ host' = Unregister(host, r, World')
      /\ UNCHANGED <<preview, frame, deferred, pending>>
  BY CarefulInvGives DEF ExitTree, Calling, queues
<1>2. PICK w : w = World'
  OBVIOUS
<1>3. Served(host') /\ \A q : Has(host', q) <=> Has(host, q) /\ q # r
  BY <1>1, <1>2, UnregisterDoes
<1> QED BY <1>1, <1>3, ExitTreeStep, CarefulInvOf DEF InFrame, TypeOK

\* The restart of a root is of one that is listed.
LEMMA CarefulReloadsRoot ==
  ASSUME CarefulInv, Careful, NEW r \in Roots, ReloadRoot(r)
  PROVE  CarefulInv'
<1>1. /\ RootsInv /\ Sound(host) /\ TypeOK /\ Served(host) /\ (\A q \in Roots : preview[q])
      /\ frame # "tasks" /\ Has(host, r) /\ inTree[r]
      /\ \A q \in Roots :
           /\ (Restarts(deferred, q) \/ Restarts(pending, q)) /\ inTree[q] => Has(host, q)
           /\ frame = "processing" /\ Restarts(deferred, q) => inTree[q]
      /\ UNCHANGED <<preview, inTree>>
      /\ Deferrable([op |-> "restart", root |-> r], RestartRoot(host, r, World))
  BY CarefulInvGives DEF ReloadRoot, Calling, scene
<1>2. [op |-> "restart", root |-> r] \in Calls /\ RootsInv'
  BY <1>1, ReloadRootStep DEF Calls
<1>3. /\ frame' = frame /\ pending' = pending
      /\ \/ host' = host /\ \A q : Restarts(deferred', q) <=> Restarts(deferred, q) \/ q = r
         \/ host' = RestartRoot(host, r, World) /\ deferred' = deferred
  <2>1. \A q : [op |-> "restart", root |-> q] = [op |-> "restart", root |-> r] <=> q = r
    OBVIOUS
  <2> QED BY <1>1, <1>2, <2>1, DeferrableDoes DEF Restarts
<1>4. CASE host' = host /\ \A q : Restarts(deferred', q) <=> Restarts(deferred, q) \/ q = r
  BY <1>1, <1>2, <1>3, <1>4, CarefulInvOf
<1>5. CASE host' = RestartRoot(host, r, World) /\ deferred' = deferred
  <2> DEFINE g == RestartRoot(host, r, World)
  <2>1. Served(g) /\ \A q : Has(g, q) <=> Has(host, q)
    BY <1>1, RestartRootDoes
  <2>2. host' = g
    BY <1>5
  <2> HIDE DEF g
  <2> QED BY <1>1, <1>2, <1>3, <1>5, <2>1, <2>2, CarefulInvOf
<1> QED BY <1>3, <1>4, <1>5

\* A reload serves every root.
LEMMA CarefulReloads ==
  ASSUME CarefulInv, \/ Reload
                     \/ \E exists \in BOOLEAN : BundleChanged(exists)
  PROVE  CarefulInv'
<1>1. /\ RootsInv /\ Sound(host) /\ TypeOK /\ Served(host) /\ (\A q \in Roots : preview[q])
      /\ frame # "tasks" /\ pending = <<>>
      /\ \A q \in Roots :
           /\ (Restarts(deferred, q) \/ Restarts(pending, q)) /\ inTree[q] => Has(host, q)
           /\ frame = "processing" /\ Restarts(deferred, q) => inTree[q]
      /\ UNCHANGED <<preview, inTree>>
  BY CarefulInvGives DEF Reload, BundleChanged, Calling, scene
<1>2. [op |-> "reload"] \in Calls /\ RootsInv'
  BY <1>1, ReloadStep DEF Calls
<1>3. PICK w : \/ Deferrable([op |-> "reload"], ReloadAll(host, w))
                \/ UNCHANGED <<host, queues>>
  BY DEF Reload, BundleChanged
<1>4. /\ frame' = frame /\ pending' = pending
      /\ \A q : Restarts(deferred', q) <=> Restarts(deferred, q)
      /\ host' = host \/ host' = ReloadAll(host, w)
  <2>1. CASE UNCHANGED <<host, queues>>
    BY <2>1 DEF queues
  <2>2. CASE Deferrable([op |-> "reload"], ReloadAll(host, w))
    BY <1>1, <1>2, <2>2, NotARestart
  <2> QED BY <1>3, <2>1, <2>2
<1>5. Served(host') /\ \A q : Has(host', q) <=> Has(host, q)
  BY <1>1, <1>4, ReloadAllDoes
<1> QED BY <1>1, <1>2, <1>4, <1>5, CarefulInvOf

\* What only starts or suspends the runtime leaves every surface alone.
LEMMA CarefulStarts ==
  ASSUME CarefulInv, Evaluate \/ \E r \in Roots : RootStateChanged(r)
  PROVE  CarefulInv'
<1>1. /\ RootsInv /\ Sound(host) /\ TypeOK /\ Served(host) /\ (\A q \in Roots : preview[q])
      /\ frame = "tasks" => deferred = <<>>
      /\ \A q \in Roots :
           /\ (Restarts(deferred, q) \/ Restarts(pending, q)) /\ inTree[q] => Has(host, q)
           /\ frame = "processing" /\ Restarts(deferred, q) => inTree[q]
      /\ UNCHANGED <<preview, inTree, frame, deferred, pending>>
  BY CarefulInvGives DEF Evaluate, RootStateChanged, scene, queues
<1>2. RootsInv'
  BY <1>1, EvaluateStep, RootStateChangedStep
<1>3. PICK w : host' \in {Start(host, w), UpdateSuspension(host, w), host}
  <2>1. CASE Evaluate
    BY <2>1 DEF Evaluate
  <2>2. ASSUME NEW r \in Roots, RootStateChanged(r)
        PROVE  host' \in {UpdateSuspension(host, World'), host}
    BY <2>2 DEF RootStateChanged
  <2> QED BY <2>1, <2>2
<1>4. CASE host' = host
  BY <1>1, <1>2, <1>4, CarefulInvOf
<1>5. CASE host' \in {Start(host, w), UpdateSuspension(host, w)}
  <2>1. host' \in Host /\ Alike(host', host) /\ (host.instance # 0 => host'.instance # 0)
    BY <1>1, <1>5, StartStarts, UpdateSuspensionSets DEF Sound
  <2>2. Served(host') /\ \A q : Has(host', q) <=> Has(host, q)
    BY <1>1, <2>1, AlikeServes
  <2> QED BY <1>1, <1>2, <2>2, CarefulInvOf
<1> QED BY <1>3, <1>4, <1>5

\* A restart that waited finds its root listed.
LEMMA CarefulRuns ==
  ASSUME CarefulInv, RunDeferred
  PROVE  CarefulInv'
<1>1. /\ RootsInv /\ Sound(host) /\ TypeOK /\ Served(host) /\ (\A q \in Roots : preview[q])
      /\ frame = "tasks" /\ deferred = <<>> /\ pending # <<>>
      /\ \A q \in Roots :
           (Restarts(deferred, q) \/ Restarts(pending, q)) /\ inTree[q] => Has(host, q)
      /\ UNCHANGED <<preview, inTree, frame, deferred>>
      /\ host' = Run(Head(pending)) /\ pending' = Tail(pending)
  BY CarefulInvGives DEF RunDeferred, scene
<1>2. PICK call \in Calls : call = Head(pending)
  BY <1>1, CallTaken DEF TypeOK
<1>3. /\ call \in ToSet(pending) /\ host' = Run(call) /\ RootsInv'
      /\ \A q : Restarts(pending', q) => Restarts(pending, q)
  BY <1>1, <1>2, CallTaken, RunDeferredStep DEF TypeOK, Restarts
<1>4. Served(host') /\ \A q : Has(host, q) => Has(host', q)
  <2>1. CASE call.op = "reload"
    BY <1>1, <1>3, <2>1, ReloadAllDoes DEF Run
  <2>2. CASE call.op # "reload"
    <3>1. /\ call.root \in Roots /\ call.op \in {"register", "restart"}
          /\ call.op = "restart" => call = [op |-> "restart", root |-> call.root]
      BY <2>2 DEF Calls
    <3>2. CASE ~inTree[call.root]
      BY <1>1, <1>3, <2>2, <3>2 DEF Run
    <3>3. CASE inTree[call.root] /\ call.op = "register"
      BY <1>1, <1>3, <3>1, <3>3, RegisterDoes DEF Run
    <3>4. CASE inTree[call.root] /\ call.op = "restart"
      <4>1. Has(host, call.root) /\ host' = RestartRoot(host, call.root, World)
        BY <1>1, <1>3, <3>1, <3>4 DEF Restarts, Run
      <4> DEFINE g == RestartRoot(host, call.root, World)
      <4>2. Served(g) /\ \A q : Has(g, q) <=> Has(host, q)
        BY <1>1, <3>1, <4>1, RestartRootDoes
      <4> HIDE DEF g
      <4> QED BY <4>1, <4>2 DEF g
    <3> QED BY <3>1, <3>2, <3>3, <3>4
  <2> QED BY <2>1, <2>2
<1> QED BY <1>1, <1>3, <1>4, CarefulInvOf

\* The deferred calls are those of the roots that are listed in the tree.
LEMMA CarefulFrames ==
  ASSUME CarefulInv, FrameBegin \/ Process \/ FrameEnd
  PROVE  CarefulInv'
<1>1. /\ RootsInv /\ Sound(host) /\ TypeOK /\ Served(host) /\ (\A q \in Roots : preview[q])
      /\ frame = "tasks" => deferred = <<>>
      /\ \A q \in Roots :
           /\ (Restarts(deferred, q) \/ Restarts(pending, q)) /\ inTree[q] => Has(host, q)
           /\ frame = "processing" /\ Restarts(deferred, q) => inTree[q]
      /\ UNCHANGED <<host, preview, inTree>>
  BY CarefulInvGives DEF FrameBegin, Process, FrameEnd, scene
<1>2. RootsInv' /\ ~\E q : Restarts(<<>>, q)
  BY <1>1, FrameBeginStep, FrameStep DEF Restarts, ToSet
<1>3. CASE FrameBegin
  BY <1>1, <1>2, <1>3, CarefulInvOf DEF FrameBegin
<1>4. CASE Process
  BY <1>1, <1>2, <1>4, CarefulInvOf DEF Process
<1>5. CASE FrameEnd
  BY <1>1, <1>2, <1>5, CarefulInvOf DEF FrameEnd
<1> QED BY <1>3, <1>4, <1>5

\* With a careful application every surface stays served.
LEMMA CarefulInvNext ==
  ASSUME Careful, ~Editor, CarefulInv, [Next]_vars
  PROVE  CarefulInv'
<1>1. CASE UNCHANGED vars
  <2>1. RootsInv'
    BY <1>1, RootsInvNext DEF CarefulInv
  <2> QED BY <1>1, <2>1, CarefulInvGives, CarefulInvOf DEF vars
<1>2. ASSUME NEW r \in Roots, EnterTree(r) \/ ExitTree(r) \/ SetPreview(r)
                              \/ ReloadRoot(r) \/ RootStateChanged(r)
      PROVE  CarefulInv'
  <2>1. ~SetPreview(r)
    BY DEF SetPreview
  <2> QED BY <1>2, <2>1, CarefulEnters, CarefulExits, CarefulReloadsRoot, CarefulStarts
<1>3. CASE Reload \/ \E exists \in BOOLEAN : BundleChanged(exists)
  BY <1>3, CarefulReloads
<1>4. CASE Evaluate
  BY <1>4, CarefulStarts
<1>5. CASE Frame
  BY <1>5, CarefulFrames, CarefulRuns DEF Frame
<1> QED BY <1>1, <1>2, <1>3, <1>4, <1>5 DEF Next

\* Outside the editor, when the game's handlers take no root out of the tree during a frame
\* and reload no root that is not registered, every surface a root shows runs on the current
\* runtime and every surface the runtime runs is shown, through every reload.
THEOREM SurfacesAreAlwaysServed ==
  ASSUME Careful, ~Editor
  PROVE  SafetySpec => []EverySurfaceIsServed
<1>1. CarefulInv => EverySurfaceIsServed
  <2> SUFFICES ASSUME CarefulInv PROVE EverySurfaceIsServed
    OBVIOUS
  <2>1. /\ TypeOK /\ Served(host) /\ host.started \subseteq Nat
        /\ host.surfaces \subseteq Nat \X Roots /\ Shown \subseteq Nat
    BY CarefulInvGives DEF TypeOK, Host, Shown
  <2>2. host.started = Shown
    BY <2>1 DEF Served, Shown
  <2>3. ASSUME NEW n \in Nat, NEW r \in Roots
        PROVE  <<n, r>> \in host.surfaces <=> n \in Shown /\ host.tag[r] = n
    BY <2>1 DEF Served, Shown
  <2>4. ASSUME NEW s \in Nat \X Roots
        PROVE  s \in host.surfaces <=> s \in {t \in Shown \X Roots : host.tag[t[2]] = t[1]}
    <3>1. PICK n \in Nat, r \in Roots : s = <<n, r>>
      OBVIOUS
    <3> QED BY <2>3, <3>1
  <2>5. host.surfaces = {s \in Shown \X Roots : host.tag[s[2]] = s[1]}
    BY <2>1, <2>4
  <2> QED BY <2>1, <2>2, <2>5 DEF EverySurfaceIsServed
<1>2. CarefulInv /\ [Next]_vars => CarefulInv'
  BY CarefulInvNext
<1> QED BY <1>1, <1>2, CarefulInvInit, PTL DEF SafetySpec

-----------------------------------------------------------------------------
(***************************************************************************)
(* Theorems of Images, for any controls, sources and budget.               *)
(*                                                                         *)
(* The budget is what the textures with an owner take and what the requests*)
(* under way have reserved, a sum over the owners (Kept): a helper of the  *)
(* service is a function of its fields, and a lemma says what it does to   *)
(* the account and to the owners.  A texture is released with its last     *)
(* owner, and is one texture wherever it is, as a load numbers it.         *)
(*                                                                         *)
(* A control shows what it asked because it waits exactly while a request  *)
(* has it for a subscriber, with its own token and its source (Subs).      *)
(***************************************************************************)

USE ImageBounds

Texture == [id : Nat \ {0}, source : Sources]
Control == [source : Sources \cup {NoSource}, token : Nat, subscription : Nat,
            image : Texture \cup {NoImage}, waiting : BOOLEAN, failed : BOOLEAN]
Subscriber == [control : Controls \cup {NoSource}, token : Nat]
WorkItem == [source : Sources, subscribers : SUBSET Subscriber, id : Nat \ {0}, active : BOOLEAN,
             cancelled : BOOLEAN]
Service == [controls : [Controls -> Control], cache : Seq(Texture), cached : Nat,
            live : [Sources -> Texture \cup {NoImage}], works : SUBSET WorkItem, used : Nat,
            result : Texture \cup {NoImage}]

\* No image is in the cache twice.
Distinct(cache) == \A i, j \in DOMAIN cache : cache[i].source = cache[j].source => i = j

\* The books of a service: a load under way has reserved `held`.
Kept(s, held) ==
  /\ s \in Service /\ IsFiniteSet(s.works) /\ Distinct(s.cache)
  /\ s.used = Size(Owned(s)) + Input * Cardinality(s.works) + held
  /\ s.used <= MaximumBytes
  /\ s.cached = Size(ToSet(s.cache))

\* A source that requests share is not in the cache.
Unseen(s, x) == x.source \notin Private => \A r \in ToSet(s.cache) : r.source # x.source

\* Textures are numbered by the load that made them; at most one request loads a source that
\* requests share, and only while the cache does not have it.
Numbered(s, n) ==
  /\ \A r \in Owned(s) : r.id <= n
  /\ \A w \in s.works : w.id <= n /\ \A r \in Owned(s) : r.id # w.id
  /\ \A v, w \in s.works : v.id = w.id => v = w
Apart(s) ==
  \A w \in s.works : /\ w.source \in Remote /\ Unseen(s, w)
                     /\ w.source \notin Private => \A v \in s.works : v.source = w.source => v = w
Named(s) == \A x \in Sources : s.live[x] = NoImage \/ s.live[x].source = x
Fits(s) == s.cached <= CacheBytes
Books(s, n) ==
  /\ Kept(s, 0) /\ Fits(s) /\ s.result = NoImage
  /\ Numbered(s, n) /\ Apart(s) /\ Named(s)

\* Who waits for which request: tokens are used once, a subscriber is a control that waits for
\* the source of the request, or nobody, and a control that waits is a subscriber.
Me(controls, c) == [control |-> c, token |-> controls[c].token]
Subs(controls, works, n) ==
  /\ \A w \in works : \A x \in w.subscribers :
       /\ x.token \in 1..n
       /\ x.control # NoSource =>
            /\ x.control \in Controls /\ controls[x.control].waiting
            /\ x.token = controls[x.control].token /\ w.source = controls[x.control].source
       /\ \A v \in works : \A y \in v.subscribers : x.token = y.token => v = w /\ x = y
       /\ \A c \in Controls : x.token = controls[c].token => x.control = c
  /\ \A c \in Controls :
       /\ controls[c].token <= n /\ controls[c].subscription \in {0, controls[c].token}
       /\ \A d \in Controls : controls[c].token = controls[d].token /\ controls[c].token # 0 => c = d
ShowsIt(controls, works, c) ==
  IF controls[c].waiting
    THEN /\ controls[c].subscription = controls[c].token
         /\ \E w \in works : Me(controls, c) \in w.subscribers
    ELSE controls[c].failed \/ controls[c].image.source = controls[c].source
Shows(controls, works) == \A c \in Controls : ShowsIt(controls, works, c)

ImagesInv ==
  /\ loads \in Nat /\ Books(images, loads)
  /\ Subs(images.controls, images.works, loads) /\ Shows(images.controls, images.works)

-----------------------------------------------------------------------------
(* Numbers and sums. *)

\* The smaller of two numbers.
LEMMA MinOfTwo ==
  ASSUME NEW a \in Nat, NEW b \in Nat
  PROVE  Min({a, b}) = IF a <= b THEN a ELSE b
<1> DEFINE m == IF a <= b THEN a ELSE b
<1>1. m \in {a, b} /\ \A y \in {a, b} : m <= y
  OBVIOUS
<1>2. \A x \in {a, b} : (\A y \in {a, b} : x <= y) => x = m
  OBVIOUS
<1> HIDE DEF m
<1> QED BY <1>1, <1>2 DEF Min

\* The least of numbers is one of them.
LEMMA MinIsLeast ==
  ASSUME NEW S \in SUBSET Nat, S # {}
  PROVE  Min(S) \in S /\ \A y \in S : Min(S) <= y
<1>1. \E x \in S : \A y \in S : x <= y
  BY LeastNatural
<1> QED BY <1>1 DEF Min

\* What is taken back of what is used.
LEMMA TakenBack ==
  ASSUME NEW a \in Nat, NEW b \in Nat
  PROVE  (a + b) - Min({a + b, b}) = a
<1>1. Min({a + b, b}) = b
  <2>1. a + b \in Nat /\ (a + b <= b => a + b = b)
    OBVIOUS
  <2> QED BY <2>1, MinOfTwo
<1> QED BY <1>1

\* A texture takes one or two.
LEMMA BytesAreNat == ASSUME NEW x PROVE Bytes(x) \in {1, 2}
BY DEF Bytes

\* The size of a part, and of the whole.
LEMMA SizeOfPart ==
  ASSUME NEW S, IsFiniteSet(S), NEW T, T \subseteq S
  PROVE  Size(T) = SumFunctionOnSet([r \in S |-> Bytes(r.source)], T) /\ IsFiniteSet(T)
<1> DEFINE f == [r \in S |-> Bytes(r.source)]
           g == [r \in T |-> Bytes(r.source)]
<1>1. IsFiniteSet(T) /\ \A r \in T : g[r] = f[r]
  BY FS_Subset
<1>2. Size(T) = SumFunctionOnSet(g, T)
  BY DEF Size, SumFunction
<1> HIDE DEF f, g
<1>3. SumFunctionOnSet(g, T) = SumFunctionOnSet(f, T)
  BY <1>1, SumSame
<1> QED BY <1>1, <1>2, <1>3 DEF f

\* Sizes are numbers, and add up.
LEMMA SizeSplits ==
  ASSUME NEW S, IsFiniteSet(S), NEW T, T \subseteq S
  PROVE  /\ Size(S) = Size(T) + Size(S \ T)
         /\ Size(S) \in Nat /\ Size(T) \in Nat /\ Size(S \ T) \in Nat
<1> DEFINE f == [r \in S |-> Bytes(r.source)]
<1>1. \A r \in S : f[r] \in Nat
  BY BytesAreNat
<1>2. S \subseteq S /\ S \ T \subseteq S
  OBVIOUS
<1>3. /\ Size(S) = SumFunctionOnSet(f, S) /\ Size(T) = SumFunctionOnSet(f, T)
      /\ Size(S \ T) = SumFunctionOnSet(f, S \ T)
  BY <1>2, SizeOfPart
<1>4. IsFiniteSet(T) /\ IsFiniteSet(S \ T)
  BY <1>2, FS_Subset
<1> HIDE DEF f
<1>5. SumFunctionOnSet(f, S) = SumFunctionOnSet(f, T) + SumFunctionOnSet(f, S \ T)
  BY <1>1, SumSplit
<1>6. \A U \in SUBSET S : IsFiniteSet(U) => SumFunctionOnSet(f, U) \in Nat
  BY <1>1, SumType
<1> QED BY <1>2, <1>3, <1>4, <1>5, <1>6

\* No textures take nothing, and one takes its bytes.
LEMMA SizeOfNone == Size({}) = 0
BY SumEmpty DEF Size, SumFunction

\* One more texture adds its bytes.
LEMMA SizeOfOne ==
  ASSUME NEW S, IsFiniteSet(S), NEW r, r \notin S
  PROVE  Size(S \cup {r}) = Size(S) + Bytes(r.source) /\ IsFiniteSet(S \cup {r})
<1> DEFINE T == S \cup {r}
           f == [x \in T |-> Bytes(x.source)]
<1>1. IsFiniteSet(T) /\ T \ {r} = S /\ r \in T /\ S \subseteq T /\ T \subseteq T
  BY FS_AddElement
<1>2. (\A x \in T : f[x] \in Nat) /\ f[r] = Bytes(r.source)
  BY BytesAreNat
<1>3. Size(T) = SumFunctionOnSet(f, T) /\ Size(S) = SumFunctionOnSet(f, S)
  BY <1>1, SizeOfPart
<1> HIDE DEF f, T
<1>4. SumFunctionOnSet(f, T) = f[r] + SumFunctionOnSet(f, T \ {r})
  BY <1>1, <1>2, SumRemove
<1>5. Size(S) \in Nat /\ f[r] \in Nat
  BY <1>1, <1>2, SizeSplits
<1>6. Size(T) = Size(S) + Bytes(r.source) /\ IsFiniteSet(T)
  BY <1>1, <1>2, <1>3, <1>4, <1>5
<1> QED BY <1>6 DEF T

-----------------------------------------------------------------------------
(* The cache. *)

\* What a function ranges over is finite with its domain.
LEMMA ImageIsFinite ==
  ASSUME NEW f, IsFiniteSet(DOMAIN f)
  PROVE  IsFiniteSet({f[x] : x \in DOMAIN f})
<1> DEFINE S == DOMAIN f
           T == {f[x] : x \in S}
           g == [x \in S |-> f[x]]
<1>1. g \in Surjection(S, T)
  BY DEF Surjection
<1> QED BY <1>1, FS_Surjection

\* The textures of a cache are finitely many.
LEMMA CacheIsFinite ==
  ASSUME NEW q \in Seq(Texture)
  PROVE  IsFiniteSet(ToSet(q)) /\ ToSet(q) \subseteq Texture
<1>1. DOMAIN q = 1..Len(q) /\ Len(q) \in Nat
  OBVIOUS
<1>2. IsFiniteSet(DOMAIN q)
  BY <1>1, FS_Interval
<1> QED BY <1>2, ImageIsFinite DEF ToSet

\* What a cut leaves.
LEMMA TailOf ==
  ASSUME NEW S, NEW q \in Seq(S), NEW k \in 0..Len(q)
  PROVE  /\ SubSeq(q, k + 1, Len(q)) \in Seq(S) /\ Len(SubSeq(q, k + 1, Len(q))) = Len(q) - k
         /\ \A i \in 1..Len(q) - k : SubSeq(q, k + 1, Len(q))[i] = q[k + i]
<1> DEFINE n == Len(q)
           b == SubSeq(q, k + 1, n)
<1>1. n \in Nat /\ k \in 0..n /\ k + 1 \in 1..n + 1
  OBVIOUS
<1>2. b \in Seq(S) /\ Len(b) = n - k /\ \A i \in 1..n - k : b[i] = q[k + i]
  BY <1>1, SubSeqProperties
<1> QED BY <1>2

\* The cache without its oldest.
LEMMA CacheCut ==
  ASSUME NEW q \in Seq(Texture), Distinct(q), NEW k \in 0..Len(q)
  PROVE  LET rest == SubSeq(q, k + 1, Len(q))
         IN  /\ rest \in Seq(Texture) /\ Distinct(rest)
             /\ ToSet(rest) \subseteq ToSet(q)
             /\ ToSet(SubSeq(q, 1, k)) = ToSet(q) \ ToSet(rest)
             /\ k = Len(q) => ToSet(rest) = {}
<1> DEFINE rest == SubSeq(q, k + 1, Len(q))
           first == SubSeq(q, 1, k)
           n == Len(q)
<1>1. n \in Nat /\ k \in Nat /\ k <= n /\ DOMAIN q = 1..n
  OBVIOUS
<1>2. /\ rest \in Seq(Texture) /\ Len(rest) = n - k /\ DOMAIN rest = 1..(n - k)
      /\ \A i \in 1..(n - k) : rest[i] = q[k + i]
  <2>1. rest \in Seq(Texture) /\ Len(rest) = n - k /\ \A i \in 1..n - k : rest[i] = q[k + i]
    BY TailOf
  <2> HIDE DEF rest
  <2> QED BY <1>1, <2>1
<1>3. /\ first \in Seq(Texture) /\ DOMAIN first = 1..k
      /\ \A i \in 1..k : first[i] = q[i]
  <2>1. first \in Seq(Texture) /\ Len(first) = k
    BY <1>1
  <2>2. \A i \in 1..k : first[i] = q[i]
    BY <1>1
  <2> HIDE DEF first
  <2> QED BY <1>1, <2>1, <2>2
<1> HIDE DEF rest, first, n
<1>4. \A i \in 1..(n - k) : k + i \in 1..n
  BY <1>1
<1>5. ToSet(rest) \subseteq ToSet(q)
  BY <1>1, <1>2, <1>4 DEF ToSet
<1>6. Distinct(rest)
  <2> SUFFICES ASSUME NEW i \in 1..(n - k), NEW j \in 1..(n - k), rest[i].source = rest[j].source
               PROVE  i = j
    BY <1>2 DEF Distinct
  <2>1. k + i \in DOMAIN q /\ k + j \in DOMAIN q
    BY <1>1, <1>4
  <2>2. q[k + i].source = q[k + j].source
    BY <1>2
  <2>3. k + i = k + j
    BY <2>1, <2>2 DEF Distinct
  <2> QED BY <1>1, <2>3
<1>7. ASSUME NEW r PROVE r \in ToSet(first) <=> r \in ToSet(q) /\ r \notin ToSet(rest)
  <2>1. ASSUME r \in ToSet(first) PROVE r \in ToSet(q) /\ r \notin ToSet(rest)
    <3>1. PICK i \in 1..k : r = q[i]
      BY <1>3, <2>1 DEF ToSet
    <3>2. i \in 1..n
      BY <1>1
    <3>3. ASSUME NEW j \in 1..(n - k), r = rest[j] PROVE FALSE
      <4>1. q[k + j].source = q[i].source /\ k + j \in 1..n
        BY <1>2, <1>4, <3>1, <3>3
      <4>2. k + j = i
        BY <1>1, <3>2, <4>1 DEF Distinct
      <4> QED BY <1>1, <4>2
    <3> QED BY <1>1, <1>2, <3>1, <3>2, <3>3 DEF ToSet
  <2>2. ASSUME r \in ToSet(q), r \notin ToSet(rest) PROVE r \in ToSet(first)
    <3>1. PICK i \in 1..n : r = q[i]
      BY <1>1, <2>2 DEF ToSet
    <3>2. CASE i <= k
      BY <1>3, <3>1, <3>2 DEF ToSet
    <3>3. CASE ~(i <= k)
      <4>1. i - k \in 1..(n - k) /\ k + (i - k) = i
        BY <1>1, <3>3
      <4>2. rest[i - k] = r
        BY <1>2, <3>1, <4>1
      <4> QED BY <1>2, <2>2, <4>1, <4>2 DEF ToSet
    <3> QED BY <3>2, <3>3
  <2> QED BY <2>1, <2>2
<1>8. ASSUME k = Len(q) PROVE ToSet(rest) = {}
  <2>1. 1..(n - k) = {}
    BY <1>1, <1>8 DEF n
  <2> QED BY <1>2, <2>1 DEF ToSet
<1> QED BY <1>2, <1>5, <1>6, <1>7, <1>8 DEF rest, first, n

-----------------------------------------------------------------------------
(* The budget: textures that go, reservations that end, and evict(). *)

SameButUsed(s, t) ==
  /\ t \in Service /\ t.controls = s.controls /\ t.cache = s.cache /\ t.cached = s.cached
  /\ t.live = s.live /\ t.works = s.works /\ t.result = s.result
Trims(s, t, result) ==
  /\ t.controls = s.controls /\ t.live = s.live /\ t.works = s.works /\ t.result = result
  /\ ToSet(t.cache) \subseteq ToSet(s.cache)

\* The parts of a service.
LEMMA ServiceParts ==
  ASSUME NEW s \in Service
  PROVE  /\ s.controls \in [Controls -> Control] /\ s.cache \in Seq(Texture) /\ s.cached \in Nat
         /\ s.live \in [Sources -> Texture \cup {NoImage}] /\ s.works \in SUBSET WorkItem
         /\ s.used \in Nat /\ s.result \in Texture \cup {NoImage}
         /\ \A c \in Controls : s.controls[c] \in Control /\ s.controls[c].image \in Texture \cup {NoImage}
         /\ \A w \in s.works : w \in WorkItem /\ w.id \in Nat \ {0} /\ w.source \in Sources
BY DEF Service, Control, WorkItem

\* NoImage is no texture.
LEMMA NoTexture == NoImage \notin Texture
BY DEF NoImage, Texture

\* Textures that somebody owns are finitely many.
LEMMA OwnedIsFinite ==
  ASSUME NEW s \in Service
  PROVE  IsFiniteSet(Owned(s)) /\ Owned(s) \subseteq Texture
<1> DEFINE f == [c \in Controls |-> s.controls[c].image]
           I == {s.controls[c].image : c \in Controls}
<1>1. /\ s.cache \in Seq(Texture) /\ s.result \in Texture \cup {NoImage}
      /\ \A c \in Controls : s.controls[c].image \in Texture \cup {NoImage}
  BY ServiceParts
<1>2. IsFiniteSet(ToSet(s.cache)) /\ ToSet(s.cache) \subseteq Texture
  BY <1>1, CacheIsFinite
<1>3. IsFiniteSet(I)
  <2>1. DOMAIN f = Controls /\ {f[x] : x \in DOMAIN f} = I
    OBVIOUS
  <2> HIDE DEF f, I
  <2> QED BY <2>1, ImageIsFinite
<1>4. IsFiniteSet(ToSet(s.cache) \cup {s.result} \cup I)
  <2>1. IsFiniteSet({s.result})
    BY FS_Singleton
  <2> HIDE DEF I
  <2>2. IsFiniteSet(ToSet(s.cache) \cup {s.result})
    BY <1>2, <2>1, FS_Union
  <2> QED BY <1>3, <2>2, FS_Union
<1>5. Owned(s) = (ToSet(s.cache) \cup {s.result} \cup I) \ {NoImage}
  BY DEF Owned
<1>6. IsFiniteSet(Owned(s))
  <2> HIDE DEF I
  <2> QED BY <1>4, <1>5, FS_Subset
<1>7. Owned(s) \subseteq Texture
  BY <1>1, <1>2, <1>5
<1> QED BY <1>6, <1>7

\* Ownership does not depend on the rest.
LEMMA SameOwned ==
  ASSUME NEW s, NEW t, t.controls = s.controls, t.cache = s.cache, t.result = s.result
  PROVE  Owned(t) = Owned(s)
BY DEF Owned

\* A service after only its account has changed.
LEMMA AccountChanges ==
  ASSUME NEW s \in Service, NEW u \in Nat
  PROVE  SameButUsed(s, [s EXCEPT !.used = u]) /\ [s EXCEPT !.used = u].used = u
BY DEF Service, SameButUsed

\* A reservation ends.
LEMMA ReleaseOf ==
  ASSUME NEW s \in Service, NEW a \in Nat, NEW b \in Nat, s.used = a + b
  PROVE  SameButUsed(s, Release(s, b)) /\ Release(s, b).used = a
<1>1. s.used - Min({s.used, b}) = a
  BY TakenBack
<1>2. Release(s, b) = [s EXCEPT !.used = a]
  BY <1>1 DEF Release
<1> QED BY <1>2, AccountChanges

\* Textures go with their last owners, and what they have reserved.
LEMMA DroppedOf ==
  ASSUME NEW s \in Service, NEW t \in Service, Owned(t) \subseteq Owned(s), t.used = s.used,
         NEW rest \in Nat, s.used = Size(Owned(s)) + rest
  PROVE  SameButUsed(t, Dropped(s, t)) /\ Dropped(s, t).used = Size(Owned(t)) + rest
<1>1. IsFiniteSet(Owned(s))
  BY OwnedIsFinite
<1>2. /\ Size(Owned(s)) = Size(Owned(t)) + Size(Owned(s) \ Owned(t))
      /\ Size(Owned(t)) \in Nat /\ Size(Owned(s) \ Owned(t)) \in Nat
  BY <1>1, SizeSplits
<1> DEFINE a == Size(Owned(t)) + rest
           b == Size(Owned(s) \ Owned(t))
<1>3. a \in Nat /\ b \in Nat /\ t.used = a + b
  BY <1>2
<1>4. Dropped(s, t) = Release(t, b)
  BY DEF Dropped
<1> HIDE DEF a, b
<1>5. SameButUsed(t, Release(t, b)) /\ Release(t, b).used = a
  BY <1>3, ReleaseOf
<1> QED BY <1>4, <1>5 DEF a

\* The parts of what is used.
LEMMA KeptNumbers ==
  ASSUME NEW s, NEW held \in Nat, Kept(s, held)
  PROVE  /\ s \in Service /\ s.used \in Nat /\ MaximumBytes \in Nat /\ s.used <= MaximumBytes
         /\ Size(Owned(s)) \in Nat /\ Input * Cardinality(s.works) \in Nat
         /\ s.used = Size(Owned(s)) + Input * Cardinality(s.works) + held
<1>1. s \in Service /\ IsFiniteSet(s.works)
  BY DEF Kept
<1>2. Cardinality(s.works) \in Nat
  BY <1>1, FS_CardinalityType
<1>3. Size(Owned(s)) \in Nat
  BY <1>1, OwnedIsFinite, SizeSplits
<1> QED BY <1>1, <1>2, <1>3, ServiceParts DEF Kept, Input

\* The same for a whole service, of which something else has changed too.
LEMMA DropKeeps ==
  ASSUME NEW s, NEW held \in Nat, Kept(s, held), NEW t \in Service, Owned(t) \subseteq Owned(s),
         t.used = s.used, t.works = s.works, Distinct(t.cache), t.cached = Size(ToSet(t.cache))
  PROVE  /\ Kept(Dropped(s, t), held) /\ SameButUsed(t, Dropped(s, t))
         /\ Owned(Dropped(s, t)) = Owned(t)
<1> DEFINE works == Input * Cardinality(s.works)
           u == Dropped(s, t)
<1>1. /\ s \in Service /\ s.used \in Nat /\ MaximumBytes \in Nat /\ s.used <= MaximumBytes
      /\ Size(Owned(s)) \in Nat /\ works \in Nat /\ s.used = Size(Owned(s)) + works + held
  BY KeptNumbers
<1> HIDE DEF works, u
<1>2. works + held \in Nat /\ s.used = Size(Owned(s)) + (works + held)
  BY <1>1
<1>3. SameButUsed(t, u) /\ u.used = Size(Owned(t)) + (works + held)
  BY <1>1, <1>2, DroppedOf DEF u
<1>4. Size(Owned(t)) \in Nat /\ u.used <= s.used
  <2>1. IsFiniteSet(Owned(s))
    BY <1>1, OwnedIsFinite
  <2>2. /\ Size(Owned(s)) = Size(Owned(t)) + Size(Owned(s) \ Owned(t))
        /\ Size(Owned(t)) \in Nat /\ Size(Owned(s) \ Owned(t)) \in Nat
    BY <2>1, SizeSplits
  <2> QED BY <1>2, <1>3, <2>2
<1>5. Owned(u) = Owned(t)
  BY <1>3, SameOwned DEF SameButUsed
<1>6. /\ u \in Service /\ u.works = s.works /\ u.cache = t.cache /\ u.cached = t.cached
      /\ IsFiniteSet(s.works)
  BY <1>3 DEF SameButUsed, Kept
<1>7. u.used \in Nat
  BY <1>6, ServiceParts
<1>8. u.used = Size(Owned(t)) + works + held /\ u.used <= MaximumBytes
  BY <1>1, <1>3, <1>4, <1>7
<1>9. Kept(u, held)
  BY <1>5, <1>6, <1>8 DEF Kept, works
<1> QED BY <1>3, <1>5, <1>9 DEF u

\* The oldest k leave the cache.
LEMMA WithoutKeeps ==
  ASSUME NEW s, NEW held \in Nat, Kept(s, held), NEW k \in 0..Len(s.cache)
  PROVE  /\ Kept(Without(s, k), held) /\ Trims(s, Without(s, k), s.result)
         /\ k = Len(s.cache) => Without(s, k).cached = 0
<1> DEFINE rest == SubSeq(s.cache, k + 1, Len(s.cache))
           size == s.cached - Size(ToSet(SubSeq(s.cache, 1, k)))
           t == [s EXCEPT !.cache = rest, !.cached = size]
<1>1. /\ s \in Service /\ s.cache \in Seq(Texture) /\ Distinct(s.cache)
      /\ s.cached = Size(ToSet(s.cache))
  BY ServiceParts DEF Kept
<1>2. /\ rest \in Seq(Texture) /\ Distinct(rest) /\ ToSet(rest) \subseteq ToSet(s.cache)
      /\ ToSet(SubSeq(s.cache, 1, k)) = ToSet(s.cache) \ ToSet(rest)
      /\ k = Len(s.cache) => ToSet(rest) = {}
  BY <1>1, CacheCut
<1>3. size = Size(ToSet(rest)) /\ size \in Nat
  <2> HIDE DEF rest
  <2>1. IsFiniteSet(ToSet(s.cache))
    BY <1>1, CacheIsFinite
  <2>2. /\ Size(ToSet(s.cache)) = Size(ToSet(rest)) + Size(ToSet(s.cache) \ ToSet(rest))
        /\ Size(ToSet(rest)) \in Nat /\ Size(ToSet(s.cache) \ ToSet(rest)) \in Nat
    BY <1>2, <2>1, SizeSplits
  <2>3. size = Size(ToSet(s.cache)) - Size(ToSet(s.cache) \ ToSet(rest))
    BY <1>1, <1>2
  <2> HIDE DEF size
  <2> QED BY <2>2, <2>3
<1>4. Without(s, k) = Dropped(s, t)
  BY DEF Without
<1> HIDE DEF rest, size
<1>5. /\ t \in Service /\ t.cache = rest /\ t.cached = size /\ t.controls = s.controls
      /\ t.live = s.live /\ t.works = s.works /\ t.result = s.result /\ t.used = s.used
  BY <1>1, <1>2, <1>3 DEF Service
<1> HIDE DEF t
<1>6. Owned(t) \subseteq Owned(s)
  BY <1>2, <1>5 DEF Owned
<1> DEFINE u == Dropped(s, t)
<1>7. Kept(u, held) /\ SameButUsed(t, u)
  BY <1>2, <1>3, <1>5, <1>6, DropKeeps
<1> HIDE DEF u
<1>8. k = Len(s.cache) => u.cached = 0
  BY <1>2, <1>3, <1>5, <1>7, SizeOfNone DEF SameButUsed
<1> QED BY <1>2, <1>4, <1>5, <1>7, <1>8 DEF Trims, u, SameButUsed

\* evict() stops when the cache is within its limit, at the latest when it is empty.
LEMMA EvictKeeps ==
  ASSUME NEW s, NEW held \in Nat, Kept(s, held), NEW required
  PROVE  /\ Kept(Evict(s, required), held) /\ Fits(Evict(s, required))
         /\ Trims(s, Evict(s, required), s.result)
<1> DEFINE Enough(k) == required <= Spare(Without(s, k)) /\ Without(s, k).cached <= CacheBytes
           n == Len(s.cache)
           S == {k \in 0..n : Enough(k)} \cup {n}
           k == Min(S)
<1>1. n \in Nat
  BY ServiceParts DEF Kept
<1>2. S \in SUBSET Nat /\ S # {}
  BY <1>1
<1>3. k \in S
  <2> HIDE DEF S
  <2> QED BY <1>2, MinIsLeast
<1>4. Evict(s, required) = Without(s, k)
  BY DEF Evict
<1>5. k \in 0..n /\ (k = n \/ Without(s, k).cached <= CacheBytes)
  <2> HIDE DEF k
  <2> QED BY <1>1, <1>3
<1> HIDE DEF k, S, Enough
<1>6. /\ Kept(Without(s, k), held) /\ Trims(s, Without(s, k), s.result)
      /\ k = n => Without(s, k).cached = 0
  BY <1>5, WithoutKeeps
<1>7. Fits(Without(s, k))
  BY <1>5, <1>6 DEF Fits
<1> QED BY <1>4, <1>6, <1>7

\* What is left of the budget.
LEMMA SpareIs ==
  ASSUME NEW s, NEW held \in Nat, Kept(s, held)
  PROVE  Spare(s) = MaximumBytes - s.used /\ s.used \in Nat /\ s.used <= MaximumBytes
<1>1. s.used \in Nat /\ s.used <= MaximumBytes /\ MaximumBytes \in Nat
  BY ServiceParts DEF Kept
<1>2. Min({s.used, MaximumBytes}) = s.used
  BY <1>1, MinOfTwo
<1> QED BY <1>1, <1>2 DEF Spare

\* The same, but for the account.
LEMMA KeptWithout ==
  ASSUME NEW s, NEW held \in Nat, Kept(s, held), NEW t, SameButUsed(s, t), NEW more \in Nat,
         t.used = Size(Owned(s)) + Input * Cardinality(s.works) + more, t.used <= MaximumBytes
  PROVE  Kept(t, more) /\ Trims(s, t, s.result) /\ (Fits(s) => Fits(t)) /\ Owned(t) = Owned(s)
<1>1. Owned(t) = Owned(s)
  BY SameOwned DEF SameButUsed
<1> QED BY <1>1 DEF Kept, SameButUsed, Trims, Fits

\* A reservation grows when there is room, and shrinks.
LEMMA GrowKeeps ==
  ASSUME NEW s, NEW held \in Nat, Kept(s, held), NEW bytes \in Nat, bytes <= Spare(s)
  PROVE  LET t == [s EXCEPT !.used = @ + bytes]
         IN  Kept(t, held + bytes) /\ Trims(s, t, s.result) /\ (Fits(s) => Fits(t)) /\ Owned(t) = Owned(s)
<1> DEFINE t == [s EXCEPT !.used = @ + bytes]
           own == Size(Owned(s))
           works == Input * Cardinality(s.works)
<1>1. /\ s \in Service /\ s.used \in Nat /\ MaximumBytes \in Nat /\ own \in Nat /\ works \in Nat
      /\ s.used = own + works + held
  BY KeptNumbers
<1>2. bytes <= MaximumBytes - s.used
  BY SpareIs
<1>3. SameButUsed(s, t) /\ t.used = s.used + bytes
  <2>1. s.used + bytes \in Nat
    BY <1>1
  <2>2. t = [s EXCEPT !.used = s.used + bytes]
    OBVIOUS
  <2> QED BY <1>1, <2>1, <2>2, AccountChanges
<1> HIDE DEF t, own, works
<1>4. t.used = own + works + (held + bytes) /\ t.used <= MaximumBytes /\ held + bytes \in Nat
  BY <1>1, <1>2, <1>3
<1>5. /\ Kept(t, held + bytes) /\ Trims(s, t, s.result) /\ (Fits(s) => Fits(t))
      /\ Owned(t) = Owned(s)
  BY <1>3, <1>4, KeptWithout DEF own, works
<1> QED BY <1>5 DEF t

\* A reservation shrinks.
LEMMA ShrinkKeeps ==
  ASSUME NEW s, NEW held \in Nat, NEW bytes \in Nat, Kept(s, held + bytes)
  PROVE  LET t == Release(s, bytes)
         IN  Kept(t, held) /\ Trims(s, t, s.result) /\ SameButUsed(s, t) /\ (Fits(s) => Fits(t))
             /\ Owned(t) = Owned(s)
<1> DEFINE t == Release(s, bytes)
           own == Size(Owned(s))
           works == Input * Cardinality(s.works)
           a == own + works + held
<1>1. held + bytes \in Nat
  OBVIOUS
<1>2. /\ s \in Service /\ s.used \in Nat /\ MaximumBytes \in Nat /\ own \in Nat /\ works \in Nat
      /\ s.used = own + works + (held + bytes) /\ s.used <= MaximumBytes
  BY <1>1, KeptNumbers
<1>3. a \in Nat /\ s.used = a + bytes /\ a <= MaximumBytes
  <2> HIDE DEF own, works
  <2> QED BY <1>2
<1>4. SameButUsed(s, t) /\ t.used = a
  <2> HIDE DEF a
  <2> QED BY <1>2, <1>3, ReleaseOf
<1> HIDE DEF t
<1>5. Kept(t, held) /\ Trims(s, t, s.result) /\ (Fits(s) => Fits(t)) /\ Owned(t) = Owned(s)
  BY <1>1, <1>3, <1>4, KeptWithout
<1> QED BY <1>4, <1>5 DEF t

-----------------------------------------------------------------------------
(* Loads: what they reserve, and the texture that takes its share over. *)

\* Trimming twice is trimming.
LEMMA TrimsTwice ==
  ASSUME NEW s, NEW t, NEW u, NEW a, NEW b, Trims(s, t, a), Trims(t, u, b)
  PROVE  Trims(s, u, b)
BY DEF Trims

\* What is owned after a trim was owned before, or is the result.
LEMMA TrimmedOwned ==
  ASSUME NEW s, NEW t, NEW r, Trims(s, t, r)
  PROVE  Owned(t) \subseteq Owned(s) \cup ({r} \ {NoImage})
BY DEF Trims, Owned

\* A reservation is made, or refused.
LEMMA ReserveKeeps ==
  ASSUME NEW s, Kept(s, 0), NEW bytes \in Nat
  PROVE  LET r == Reserve(s, bytes)
         IN  /\ r.held \in {0, bytes} /\ Kept(r.s, r.held) /\ Fits(r.s)
             /\ Trims(s, r.s, s.result)
<1> DEFINE trimmed == Evict(s, bytes)
           grown == [trimmed EXCEPT !.used = @ + bytes]
           r == Reserve(s, bytes)
<1>1. Kept(trimmed, 0) /\ Fits(trimmed) /\ Trims(s, trimmed, s.result)
  BY EvictKeeps
<1>2. \/ bytes <= Spare(trimmed) /\ r = [s |-> grown, held |-> bytes]
      \/ r = [s |-> trimmed, held |-> 0]
  BY DEF Reserve, Failed
<1> HIDE DEF trimmed, r
<1>3. CASE bytes <= Spare(trimmed) /\ r = [s |-> grown, held |-> bytes]
  <2>1. Kept(grown, 0 + bytes) /\ Trims(trimmed, grown, trimmed.result) /\ Fits(grown)
    BY <1>1, <1>3, GrowKeeps
  <2> HIDE DEF grown
  <2>2. 0 + bytes = bytes /\ trimmed.result = s.result
    BY <1>1 DEF Trims
  <2>3. Kept(grown, bytes) /\ Trims(s, grown, s.result)
    BY <1>1, <2>1, <2>2, TrimsTwice
  <2> QED BY <1>3, <2>1, <2>3 DEF r
<1>4. CASE r = [s |-> trimmed, held |-> 0]
  BY <1>1, <1>4 DEF r
<1> QED BY <1>2, <1>3, <1>4

\* A new texture takes over its share of what its load has reserved.
LEMMA TextureKeeps ==
  ASSUME NEW s, NEW r \in Texture, r \notin Owned(s), s.result = NoImage, NEW held \in Nat,
         Kept(s, held + Bytes(r.source))
  PROVE  LET t == [s EXCEPT !.result = r]
         IN  /\ Kept(t, held) /\ Trims(s, t, r) /\ (Fits(s) => Fits(t))
             /\ Owned(t) = Owned(s) \cup {r}
<1> DEFINE t == [s EXCEPT !.result = r]
<1>1. Bytes(r.source) \in Nat /\ held + Bytes(r.source) \in Nat
  BY BytesAreNat
<1>2. s \in Service /\ IsFiniteSet(Owned(s)) /\ r # NoImage
  BY OwnedIsFinite, NoTexture DEF Kept
<1>3. /\ t \in Service /\ t.controls = s.controls /\ t.cache = s.cache /\ t.cached = s.cached
      /\ t.live = s.live /\ t.works = s.works /\ t.used = s.used /\ t.result = r
  BY <1>2 DEF Service
<1> HIDE DEF t
<1>4. Owned(t) = Owned(s) \cup {r}
  BY <1>2, <1>3 DEF Owned
<1>5. Size(Owned(t)) = Size(Owned(s)) + Bytes(r.source)
  BY <1>2, <1>4, SizeOfOne
<1>6. /\ Size(Owned(s)) \in Nat /\ Input * Cardinality(s.works) \in Nat
      /\ s.used = Size(Owned(s)) + Input * Cardinality(s.works) + (held + Bytes(r.source))
  BY <1>1, KeptNumbers
<1>7. t.used = Size(Owned(t)) + Input * Cardinality(t.works) + held
  BY <1>1, <1>3, <1>5, <1>6
<1>8. Kept(t, held) /\ Trims(s, t, r) /\ (Fits(s) => Fits(t))
  BY <1>3, <1>7 DEF Kept, Trims, Fits
<1> QED BY <1>4, <1>8 DEF t

\* decode(): the reservation of the request grows, and what is left of it is held.
LEMMA DecodeKeeps ==
  ASSUME NEW s, Kept(s, Input), Fits(s), s.result = NoImage, NEW source \in Sources,
         NEW id \in Nat \ {0}, \A r \in Owned(s) : r.id # id, NEW decodes
  PROVE  LET d == Decode(s, source, id, Input, decodes)
         IN  /\ d.held \in Nat /\ Kept(d.s, d.held) /\ Fits(d.s) /\ Trims(s, d.s, d.s.result)
             /\ d.s.result \in {NoImage, [id |-> id, source |-> source]}
<1> DEFINE needed == Input + 2 * Bytes(source)
           more == needed - Input
           trimmed == Evict(s, more)
           grown == [trimmed EXCEPT !.used = @ + needed - Input]
           texture == [id |-> id, source |-> source]
           loaded == [grown EXCEPT !.result = texture]
           left == (needed - Bytes(source)) - Encoded
           d == Decode(s, source, id, Input, decodes)
<1>1. /\ Input \in Nat /\ needed \in Nat /\ more \in Nat /\ left \in Nat
      /\ Input + more = needed /\ needed = (Encoded + left) + Bytes(source)
      /\ Encoded \in Nat /\ Encoded + left \in Nat
  BY BytesAreNat DEF Input, Encoded
<1>2. \/ ~(more > Spare(trimmed)) /\ decodes /\ d = [s |-> Release(loaded, left), held |-> Encoded]
      \/ ~(more > Spare(trimmed)) /\ d = [s |-> grown, held |-> needed]
      \/ d = [s |-> trimmed, held |-> Input]
  BY DEF Decode, Failed
<1>3. Kept(trimmed, Input) /\ Fits(trimmed) /\ Trims(s, trimmed, NoImage) /\ trimmed.used \in Nat
  <2>1. Kept(trimmed, Input) /\ Fits(trimmed) /\ Trims(s, trimmed, s.result)
    BY <1>1, EvictKeeps
  <2> HIDE DEF trimmed
  <2>2. trimmed.used \in Nat
    BY <1>1, <2>1, KeptNumbers
  <2> QED BY <2>1, <2>2
<1>4. grown = [trimmed EXCEPT !.used = @ + more]
  <2>1. trimmed.used + needed - Input = trimmed.used + more
    BY <1>1, <1>3
  <2> HIDE DEF trimmed, needed, more
  <2> QED BY <2>1
<1>5. Spare(trimmed) \in Int
  <2>1. Spare(trimmed) = MaximumBytes - trimmed.used
    BY <1>1, <1>3, SpareIs
  <2> QED BY <1>3, <2>1
<1>6. ASSUME ~(more > Spare(trimmed))
      PROVE  Kept(grown, needed) /\ Trims(s, grown, NoImage) /\ Fits(grown)
  <2> HIDE DEF trimmed, grown, needed, more
  <2>1. more <= Spare(trimmed)
    BY <1>1, <1>5, <1>6
  <2>2. Kept(grown, Input + more) /\ Trims(trimmed, grown, trimmed.result) /\ Fits(grown)
    BY <1>1, <1>3, <1>4, <2>1, GrowKeeps
  <2>3. trimmed.result = NoImage
    BY <1>3 DEF Trims
  <2> QED BY <1>1, <1>3, <2>2, <2>3, TrimsTwice
<1> HIDE DEF d
<1>7. CASE d = [s |-> trimmed, held |-> Input]
  <2> HIDE DEF trimmed
  <2>1. d.s = trimmed /\ d.held = Input /\ trimmed.result = NoImage
    BY <1>3, <1>7 DEF Trims
  <2> QED BY <1>1, <1>3, <2>1 DEF d
<1>8. CASE ~(more > Spare(trimmed)) /\ d = [s |-> grown, held |-> needed]
  <2>1. Kept(grown, needed) /\ Trims(s, grown, NoImage) /\ Fits(grown)
    BY <1>6, <1>8
  <2> HIDE DEF grown, needed, more, trimmed
  <2>2. d.s = grown /\ d.held = needed /\ grown.result = NoImage
    BY <1>8, <2>1 DEF Trims
  <2> QED BY <1>1, <2>1, <2>2 DEF d
<1>9. CASE ~(more > Spare(trimmed)) /\ d = [s |-> Release(loaded, left), held |-> Encoded]
  <2>1. Kept(grown, needed) /\ Trims(s, grown, NoImage) /\ Fits(grown)
    BY <1>6, <1>9
  <2>2. d.s = Release(loaded, left) /\ d.held = Encoded
    BY <1>9
  <2>3. texture \in Texture /\ texture # NoImage /\ texture.source = source /\ texture.id = id
    BY NoTexture DEF Texture
  <2> HIDE DEF grown, needed, more, trimmed, left
  <2>4. grown.result = NoImage /\ Owned(grown) \subseteq Owned(s)
    <3>1. grown.result = NoImage
      BY <2>1 DEF Trims
    <3>2. Owned(grown) \subseteq Owned(s) \cup ({NoImage} \ {NoImage})
      BY <2>1, TrimmedOwned
    <3> QED BY <3>1, <3>2
  <2>5. texture \notin Owned(grown)
    BY <2>3, <2>4
  <2> HIDE DEF texture
  <2> DEFINE rest == Encoded + left
  <2>a. Kept(grown, rest + Bytes(texture.source)) /\ rest \in Nat
    BY <1>1, <2>1, <2>3
  <2> HIDE DEF rest
  <2>b. Kept(loaded, rest) /\ Trims(grown, loaded, texture) /\ (Fits(grown) => Fits(loaded))
    BY <2>3, <2>4, <2>5, <2>a, TextureKeeps
  <2>6. Kept(loaded, Encoded + left) /\ Trims(grown, loaded, texture) /\ Fits(loaded)
    BY <2>1, <2>b DEF rest
  <2> HIDE DEF loaded
  <2>7. Kept(d.s, Encoded) /\ Trims(loaded, d.s, loaded.result) /\ Fits(d.s)
    BY <1>1, <2>2, <2>6, ShrinkKeeps
  <2>8. loaded.result = texture /\ d.s.result = texture
    BY <2>6, <2>7 DEF Trims
  <2>9. Trims(s, d.s, texture)
    BY <2>1, <2>6, <2>7, <2>8, TrimsTwice
  <2> QED BY <1>1, <2>2, <2>7, <2>8, <2>9 DEF d, texture
<1> QED BY <1>2, <1>7, <1>8, <1>9

-----------------------------------------------------------------------------
(* What the cache gains, and the order it is used in. *)

\* A texture joins the cache.
LEMMA CacheGrows ==
  ASSUME NEW q \in Seq(Texture), Distinct(q), NEW r \in Texture,
         \A x \in ToSet(q) : x.source # r.source
  PROVE  /\ Append(q, r) \in Seq(Texture) /\ Distinct(Append(q, r))
         /\ ToSet(Append(q, r)) = ToSet(q) \cup {r} /\ r \notin ToSet(q)
<1> DEFINE a == Append(q, r)
           n == Len(q)
<1>1. /\ n \in Nat /\ DOMAIN q = 1..n /\ a \in Seq(Texture) /\ Len(a) = n + 1
      /\ DOMAIN a = 1..n + 1
  OBVIOUS
<1>2. \A i \in 1..n : a[i] = q[i]
  BY <1>1
<1>3. a[n + 1] = r
  BY <1>1
<1> HIDE DEF a, n
<1>4. \A i \in 1..n + 1 : i = n + 1 \/ i \in 1..n
  BY <1>1
<1>5. \A i \in 1..n : q[i] \in ToSet(q) /\ i \in 1..n + 1 /\ n + 1 \in 1..n + 1 /\ i # n + 1
  BY <1>1 DEF ToSet
<1>6. Distinct(a)
  <2> SUFFICES ASSUME NEW i \in 1..n + 1, NEW j \in 1..n + 1, a[i].source = a[j].source
               PROVE  i = j
    BY <1>1 DEF Distinct
  <2>1. CASE i \in 1..n /\ j \in 1..n
    BY <1>1, <1>2, <2>1 DEF Distinct
  <2>2. CASE i = n + 1 /\ j \in 1..n
    BY <1>2, <1>3, <1>5, <2>2
  <2>3. CASE j = n + 1 /\ i \in 1..n
    BY <1>2, <1>3, <1>5, <2>3
  <2> QED BY <1>4, <2>1, <2>2, <2>3
<1>7. ToSet(a) = ToSet(q) \cup {r}
  <2>1. ASSUME NEW x \in ToSet(a) PROVE x \in ToSet(q) \cup {r}
    <3>1. PICK i \in 1..n + 1 : x = a[i]
      BY <1>1, <2>1 DEF ToSet
    <3> QED BY <1>2, <1>3, <1>4, <1>5, <3>1
  <2>2. ASSUME NEW x \in ToSet(q) PROVE x \in ToSet(a)
    <3>1. PICK i \in 1..n : x = q[i]
      BY <1>1, <2>2 DEF ToSet
    <3> QED BY <1>1, <1>2, <1>5, <3>1 DEF ToSet
  <2>3. r \in ToSet(a)
    <3>1. n + 1 \in 1..n + 1
      BY <1>1
    <3> QED BY <1>1, <1>3, <3>1 DEF ToSet
  <2> QED BY <2>1, <2>2, <2>3
<1> QED BY <1>1, <1>6, <1>7 DEF a

\* A texture that leaves its place in the cache.
LEMMA CacheLoses ==
  ASSUME NEW q \in Seq(Texture), Distinct(q), NEW at \in 1..Len(q)
  PROVE  /\ RemoveAt(q, at) \in Seq(Texture) /\ Distinct(RemoveAt(q, at))
         /\ ToSet(RemoveAt(q, at)) \cup {q[at]} = ToSet(q)
         /\ \A x \in ToSet(RemoveAt(q, at)) : x.source # q[at].source
<1> DEFINE t == RemoveAt(q, at)
           n == Len(q)
           p(m) == IF m < at THEN m ELSE m + 1
<1>1. n \in Nat /\ at \in 1..n /\ DOMAIN q = 1..n
  OBVIOUS
<1>2. /\ t \in Seq(Texture) /\ Len(t) = n - 1
      /\ \A i \in 1..n - 1 : t[i] = IF i < at THEN q[i] ELSE q[i + 1]
  BY RemovedAt
<1> HIDE DEF t, n
<1>3. DOMAIN t = 1..n - 1
  BY <1>1, <1>2
<1>4. \A i \in 1..n - 1 : t[i] = q[p(i)] /\ p(i) \in 1..n /\ p(i) # at
  BY <1>1, <1>2
<1>5. \A i, j \in 1..n : q[i].source = q[j].source => i = j
  BY <1>1 DEF Distinct
<1>6. ASSUME NEW i \in 1..n - 1, NEW j \in 1..n - 1, t[i].source = t[j].source PROVE i = j
  <2>1. p(i) = p(j)
    <3> HIDE DEF p
    <3> QED BY <1>4, <1>5, <1>6
  <2> QED BY <1>1, <2>1
<1>7. Distinct(t)
  BY <1>3, <1>6 DEF Distinct
<1>8. ASSUME NEW x \in ToSet(t) PROVE x \in ToSet(q) /\ x.source # q[at].source
  <2>1. PICK i \in 1..n - 1 : x = t[i]
    BY <1>3, <1>8 DEF ToSet
  <2> HIDE DEF p
  <2> QED BY <1>1, <1>4, <1>5, <2>1 DEF ToSet
<1>9. ASSUME NEW x \in ToSet(q), x # q[at] PROVE x \in ToSet(t)
  <2>1. PICK i \in 1..n : x = q[i]
    BY <1>1, <1>9 DEF ToSet
  <2>2. i # at
    BY <1>9, <2>1
  <2>3. PICK j \in 1..n - 1 : p(j) = i
    <3>1. CASE i < at
      <4>1. i \in 1..n - 1 /\ p(i) = i
        BY <1>1, <3>1
      <4> HIDE DEF p
      <4> QED BY <4>1
    <3>2. CASE ~(i < at)
      <4>1. i - 1 \in 1..n - 1 /\ p(i - 1) = i
        BY <1>1, <2>2, <3>2
      <4> QED BY <4>1
    <3> QED BY <3>1, <3>2
  <2> HIDE DEF p
  <2> QED BY <1>3, <1>4, <2>1, <2>3 DEF ToSet
<1>10. q[at] \in ToSet(q)
  BY <1>1 DEF ToSet
<1> QED BY <1>2, <1>7, <1>8, <1>9, <1>10 DEF t

\* Where a cached source is.
LEMMA CachedAt ==
  ASSUME NEW s \in Service, NEW source, InCache(s, source) # {}
  PROVE  /\ Min(InCache(s, source)) \in 1..Len(s.cache)
         /\ s.cache[Min(InCache(s, source))].source = source
         /\ s.cache[Min(InCache(s, source))] \in ToSet(s.cache)
<1>1. s.cache \in Seq(Texture) /\ DOMAIN s.cache = 1..Len(s.cache) /\ Len(s.cache) \in Nat
  BY ServiceParts
<1>2. InCache(s, source) \in SUBSET Nat
  BY <1>1 DEF InCache
<1>3. Min(InCache(s, source)) \in InCache(s, source)
  BY <1>2, MinIsLeast
<1> QED BY <1>1, <1>3 DEF InCache, ToSet

\* A source that is not in the cache.
LEMMA NotCached ==
  ASSUME NEW s, NEW source
  PROVE  InCache(s, source) = {} <=> \A x \in ToSet(s.cache) : x.source # source
BY DEF InCache, ToSet

\* cached() moves a texture to the end of the cache.
LEMMA AccessKeeps ==
  ASSUME NEW s, Kept(s, 0), NEW source
  PROVE  LET t == Accessed(s, source)
         IN  /\ Kept(t, 0) /\ Trims(s, t, s.result) /\ (Fits(s) => Fits(t)) /\ Owned(t) = Owned(s)
             /\ ToSet(t.cache) = ToSet(s.cache)
<1> DEFINE t == Accessed(s, source)
           at == Min(InCache(s, source))
           q == RemoveAt(s.cache, at)
           r == s.cache[at]
<1>1. CASE InCache(s, source) = {}
  <2>1. t = s
    BY <1>1 DEF Accessed
  <2> QED BY <2>1 DEF Trims
<1>2. CASE InCache(s, source) # {}
  <2>1. s \in Service /\ s.cache \in Seq(Texture) /\ Distinct(s.cache)
    BY ServiceParts DEF Kept
  <2>2. at \in 1..Len(s.cache)
    BY <1>2, <2>1, CachedAt
  <2>3. t = [s EXCEPT !.cache = Append(q, r)]
    BY <1>2 DEF Accessed
  <2> HIDE DEF t, at
  <2>4. /\ q \in Seq(Texture) /\ Distinct(q) /\ ToSet(q) \cup {r} = ToSet(s.cache)
        /\ \A x \in ToSet(q) : x.source # r.source
    BY <2>1, <2>2, CacheLoses
  <2>5. r \in Texture
    BY <2>1, <2>2
  <2> HIDE DEF q, r
  <2>6. /\ Append(q, r) \in Seq(Texture) /\ Distinct(Append(q, r))
        /\ ToSet(Append(q, r)) = ToSet(s.cache)
    BY <2>4, <2>5, CacheGrows
  <2>7. PICK a : a = Append(q, r)
    OBVIOUS
  <2>8. /\ t \in Service /\ t.controls = s.controls /\ t.cache = a /\ t.cached = s.cached
        /\ t.live = s.live /\ t.works = s.works /\ t.used = s.used /\ t.result = s.result
    BY <2>1, <2>3, <2>6, <2>7 DEF Service
  <2>9. Owned(t) = Owned(s)
    BY <2>6, <2>7, <2>8 DEF Owned
  <2> QED BY <2>6, <2>7, <2>8, <2>9 DEF Kept, Trims, Fits, t
<1> QED BY <1>1, <1>2

\* remember() adds the result of a load to the cache, and to what is known to be live.
LEMMA RememberKeeps ==
  ASSUME NEW s, NEW held \in Nat, Kept(s, held), Fits(s), Named(s), NEW cacheable,
         s.result = NoImage \/ Unseen(s, s.result)
  PROVE  LET t == Remember(s, cacheable)
         IN  /\ Kept(t, held) /\ Fits(t) /\ Named(t)
             /\ t.controls = s.controls /\ t.works = s.works /\ t.result = s.result
             /\ Owned(t) \subseteq Owned(s)
             /\ \A x \in ToSet(t.cache) : x \in ToSet(s.cache) \/ x = s.result
<1> DEFINE t == Remember(s, cacheable)
           r == s.result
           live == [s EXCEPT !.live[r.source] = r]
           size == s.cached + Bytes(r.source)
           grown == [live EXCEPT !.cache = Append(@, r), !.cached = @ + Bytes(r.source)]
<1>1. /\ s \in Service /\ s.cache \in Seq(Texture) /\ Distinct(s.cache) /\ s.cached \in Nat
      /\ s.live \in [Sources -> Texture \cup {NoImage}]
      /\ r \in Texture \cup {NoImage}
  BY ServiceParts DEF Kept
<1>2. \/ t = s
      \/ r # NoImage /\ t = live
      \/ r # NoImage /\ r.source \notin Private /\ t = Evict(grown, 0)
  BY DEF Remember
<1> HIDE DEF t
<1>3. CASE t = s
  BY <1>3 DEF t
<1>4. ASSUME r # NoImage
      PROVE  /\ Kept(live, held) /\ Fits(live) /\ Named(live) /\ live \in Service
             /\ live.controls = s.controls /\ live.works = s.works /\ live.result = s.result
             /\ live.cache = s.cache /\ live.cached = s.cached /\ live.used = s.used
             /\ Owned(live) = Owned(s)
  <2>1. r \in Texture /\ r.source \in Sources
    BY <1>1, <1>4 DEF Texture
  <2>2. PICK l : l = [s.live EXCEPT ![r.source] = r]
    OBVIOUS
  <2>3. l \in [Sources -> Texture \cup {NoImage}]
    BY <1>1, <2>1, <2>2
  <2>4. live = [s EXCEPT !.live = l]
    BY <2>2
  <2> HIDE DEF live
  <2>5. /\ live \in Service /\ live.controls = s.controls /\ live.cache = s.cache
        /\ live.cached = s.cached /\ live.works = s.works /\ live.used = s.used
        /\ live.result = s.result /\ live.live = l
    BY <1>1, <2>3, <2>4 DEF Service
  <2>6. Owned(live) = Owned(s)
    BY <2>5, SameOwned
  <2>7. Named(live)
    BY <1>1, <2>1, <2>2, <2>5 DEF Named
  <2> QED BY <2>5, <2>6, <2>7 DEF Kept, Fits
<1>5. CASE r # NoImage /\ t = live
  <2>1. /\ Kept(t, held) /\ Fits(t) /\ Named(t) /\ Owned(t) = Owned(s) /\ t.cache = s.cache
        /\ t.controls = s.controls /\ t.works = s.works /\ t.result = s.result
    BY <1>4, <1>5
  <2> QED BY <2>1 DEF t
<1>6. CASE r # NoImage /\ r.source \notin Private /\ t = Evict(grown, 0)
  <2>1. r \in Texture /\ \A x \in ToSet(s.cache) : x.source # r.source
    BY <1>1, <1>6 DEF Unseen
  <2>2. PICK a : a = Append(s.cache, r)
    OBVIOUS
  <2>3. a \in Seq(Texture) /\ Distinct(a) /\ ToSet(a) = ToSet(s.cache) \cup {r} /\ r \notin ToSet(s.cache)
    BY <1>1, <2>1, <2>2, CacheGrows
  <2>4. /\ Kept(live, held) /\ Named(live) /\ live \in Service
        /\ live.controls = s.controls /\ live.works = s.works /\ live.result = s.result
        /\ live.cache = s.cache /\ live.cached = s.cached /\ live.used = s.used
        /\ Owned(live) = Owned(s)
    BY <1>4, <1>6
  <2>5. size \in Nat /\ size = Size(ToSet(a))
    <3>1. Bytes(r.source) \in Nat
      BY BytesAreNat
    <3>2. IsFiniteSet(ToSet(s.cache)) /\ s.cached = Size(ToSet(s.cache))
      BY <1>1, CacheIsFinite DEF Kept
    <3>3. Size(ToSet(a)) = Size(ToSet(s.cache)) + Bytes(r.source)
      BY <2>3, <3>2, SizeOfOne
    <3> QED BY <1>1, <3>1, <3>2, <3>3
  <2>6. grown = [live EXCEPT !.cache = a, !.cached = size]
    <3>1. live.cache = s.cache /\ live.cached = s.cached
      BY <2>4
    <3> HIDE DEF live
    <3> QED BY <2>2, <3>1
  <2> HIDE DEF live, grown, size
  <2>7. /\ grown \in Service /\ grown.controls = s.controls /\ grown.cache = a
        /\ grown.cached = size /\ grown.works = s.works /\ grown.used = s.used
        /\ grown.result = r /\ grown.live = live.live
    BY <2>3, <2>4, <2>5, <2>6 DEF Service
  <2>8. Owned(grown) = Owned(s)
    BY <1>6, <2>3, <2>7 DEF Owned
  <2>9. Kept(grown, held)
    BY <2>3, <2>5, <2>7, <2>8 DEF Kept
  <2>10. Kept(t, held) /\ Fits(t) /\ Trims(grown, t, grown.result)
    BY <1>6, <2>9, EvictKeeps
  <2>11. /\ t.controls = s.controls /\ t.works = s.works /\ t.result = r /\ t.live = live.live
         /\ ToSet(t.cache) \subseteq ToSet(s.cache) \cup {r}
    BY <2>3, <2>7, <2>10 DEF Trims
  <2>12. Named(t)
    BY <2>4, <2>11 DEF Named
  <2>13. Owned(t) \subseteq Owned(s)
    BY <2>11 DEF Owned
  <2> QED BY <2>10, <2>11, <2>12, <2>13 DEF t
<1> QED BY <1>2, <1>3, <1>5, <1>6

\* A local source is read and decoded, or loaded whole when it is imported.
LEMMA LocalKeeps ==
  ASSUME NEW s, Kept(s, 0), Fits(s), s.result = NoImage, NEW source \in Sources,
         NEW id \in Nat \ {0}, \A r \in Owned(s) : r.id # id, NEW decodes
  PROVE  LET d == LoadLocal(s, source, id, decodes)
         IN  /\ d.held \in Nat /\ Kept(d.s, d.held) /\ Fits(d.s) /\ Trims(s, d.s, d.s.result)
             /\ d.s.result \in {NoImage, [id |-> id, source |-> source]}
<1> DEFINE whole == source \in Imported
           bytes == IF whole THEN Bytes(source) ELSE Input
           paid == Reserve(s, bytes)
           p == paid.s
           texture == [id |-> id, source |-> source]
           loaded == [p EXCEPT !.result = texture]
           d == LoadLocal(s, source, id, decodes)
<1>1. bytes \in Nat /\ bytes # 0 /\ Bytes(source) \in Nat
  BY BytesAreNat DEF Input
<1>2. \/ d = paid /\ paid.held = 0
      \/ paid.held # 0 /\ whole /\ d = [s |-> loaded, held |-> 0]
      \/ paid.held # 0 /\ ~whole /\ d = Decode(p, source, id, paid.held, decodes)
  BY DEF LoadLocal
<1>3. paid.held \in {0, bytes} /\ Kept(p, paid.held) /\ Fits(p) /\ Trims(s, p, NoImage)
  <2> HIDE DEF bytes
  <2> QED BY <1>1, ReserveKeeps
<1>4. bytes = IF whole THEN Bytes(source) ELSE Input
  OBVIOUS
<1> HIDE DEF d, p, bytes
<1>5. p.result = NoImage /\ \A r \in Owned(p) : r.id # id
  <2>1. p.result = NoImage
    BY <1>3 DEF Trims
  <2>2. Owned(p) \subseteq Owned(s) \cup ({NoImage} \ {NoImage})
    BY <1>3, TrimmedOwned
  <2> QED BY <2>1, <2>2
<1>6. CASE d = paid /\ paid.held = 0
  <2>1. d.s = p /\ d.held = 0
    BY <1>6 DEF p
  <2>2. Kept(p, 0) /\ Trims(s, p, p.result) /\ 0 \in Nat
    BY <1>3, <1>5, <1>6
  <2>3. Kept(d.s, d.held) /\ Fits(d.s) /\ Trims(s, d.s, d.s.result) /\ d.s.result = NoImage
    BY <1>3, <1>5, <2>1, <2>2
  <2> HIDE DEF texture
  <2> QED BY <2>1, <2>3 DEF d, texture
<1>7. CASE paid.held # 0 /\ whole /\ d = [s |-> loaded, held |-> 0]
  <2>1. paid.held = Bytes(source)
    BY <1>3, <1>4, <1>7
  <2>2. texture \in Texture /\ texture.source = source /\ texture.id = id
    BY DEF Texture
  <2>3. texture \notin Owned(p)
    BY <1>5, <2>2
  <2>4. Kept(p, 0 + Bytes(texture.source))
    BY <1>1, <1>3, <2>1, <2>2
  <2> HIDE DEF texture
  <2>5. Kept(loaded, 0) /\ Trims(p, loaded, texture) /\ (Fits(p) => Fits(loaded))
    BY <1>5, <2>2, <2>3, <2>4, TextureKeeps
  <2>6. d.s = loaded /\ d.held = 0
    BY <1>7
  <2> HIDE DEF loaded
  <2>7. Trims(s, loaded, texture) /\ loaded.result = texture
    BY <1>3, <2>5, TrimsTwice DEF Trims
  <2> QED BY <1>3, <2>5, <2>6, <2>7 DEF d, texture
<1>8. CASE paid.held # 0 /\ ~whole /\ d = Decode(p, source, id, paid.held, decodes)
  <2>1. paid.held = Input
    BY <1>3, <1>4, <1>8
  <2>2. Kept(p, Input) /\ d = Decode(p, source, id, Input, decodes)
    BY <1>3, <1>8, <2>1
  <2>3. /\ d.held \in Nat /\ Kept(d.s, d.held) /\ Fits(d.s) /\ Trims(p, d.s, d.s.result)
        /\ d.s.result \in {NoImage, texture}
    BY <1>3, <1>5, <2>2, DecodeKeeps
  <2>4. Trims(s, d.s, d.s.result)
    BY <1>3, <2>3, TrimsTwice
  <2> QED BY <2>3, <2>4 DEF d
<1> QED BY <1>2, <1>6, <1>7, <1>8

-----------------------------------------------------------------------------
(* Requests begin and end: their answers, and the reservations they hold. *)

Answers(controls, subscribers, r) ==
  [c \in Controls |-> Loaded(controls[c], IsCurrent(c, controls[c], subscribers), r)]

\* A control that is answered is a control, and shows what it showed or the answer.
LEMMA AnswersAre ==
  ASSUME NEW controls \in [Controls -> Control], NEW subscribers, NEW r \in Texture \cup {NoImage}
  PROVE  /\ Answers(controls, subscribers, r) \in [Controls -> Control]
         /\ \A c \in Controls :
              Answers(controls, subscribers, r)[c].image \in {controls[c].image} \cup ({r} \ {NoImage})
<1>1. ASSUME NEW control \in Control, NEW now \in BOOLEAN
      PROVE  Loaded(control, now, r) \in Control
  BY <1>1 DEF Loaded, Control
<1>2. ASSUME NEW control \in Control, NEW now \in BOOLEAN
      PROVE  Loaded(control, now, r).image \in {control.image} \cup ({r} \ {NoImage})
  BY <1>2 DEF Loaded, Control
<1>3. \A c \in Controls : IsCurrent(c, controls[c], subscribers) \in BOOLEAN /\ controls[c] \in Control
  BY DEF IsCurrent
<1> QED BY <1>1, <1>2, <1>3 DEF Answers

\* The answer: the controls own what they show, and the request what it held no longer.
LEMMA DeliverKeeps ==
  ASSUME NEW s, NEW held \in Nat, Kept(s, held), NEW subscribers
  PROVE  LET t == Delivered(s, subscribers, held)
         IN  /\ Kept(t, 0) /\ (Fits(s) => Fits(t)) /\ t.result = NoImage
             /\ Owned(t) \subseteq Owned(s) /\ t.works = s.works /\ t.cache = s.cache
             /\ t.live = s.live /\ t.controls = Answers(s.controls, subscribers, s.result)
<1> DEFINE shown == Answers(s.controls, subscribers, s.result)
           u == [s EXCEPT !.controls = shown, !.result = NoImage]
           t == Delivered(s, subscribers, held)
<1>1. /\ s \in Service /\ s.controls \in [Controls -> Control] /\ s.cache \in Seq(Texture)
      /\ s.result \in Texture \cup {NoImage} /\ Distinct(s.cache) /\ s.cached = Size(ToSet(s.cache))
  BY ServiceParts DEF Kept
<1>2. /\ shown \in [Controls -> Control]
      /\ \A c \in Controls : shown[c].image \in {s.controls[c].image} \cup ({s.result} \ {NoImage})
  BY <1>1, AnswersAre
<1>3. t = Release(Dropped(s, u), held)
  BY DEF Delivered, Answers
<1> HIDE DEF shown, t
<1>4. /\ u \in Service /\ u.controls = shown /\ u.cache = s.cache /\ u.cached = s.cached
      /\ u.live = s.live /\ u.works = s.works /\ u.used = s.used /\ u.result = NoImage
  BY <1>1, <1>2 DEF Service
<1> HIDE DEF u
<1>5. Owned(u) \subseteq Owned(s)
  <2>1. ASSUME NEW c \in Controls, shown[c].image # NoImage PROVE shown[c].image \in Owned(s)
    BY <1>2, <2>1 DEF Owned
  <2> QED BY <1>4, <2>1 DEF Owned
<1> DEFINE v == Dropped(s, u)
<1>6. Kept(v, held) /\ SameButUsed(u, v) /\ Owned(v) = Owned(u)
  BY <1>1, <1>4, <1>5, DropKeeps
<1> HIDE DEF v
<1>7. Kept(v, 0 + held)
  BY <1>6
<1>8. Kept(t, 0) /\ SameButUsed(v, t) /\ (Fits(v) => Fits(t)) /\ Owned(t) = Owned(v)
  BY <1>3, <1>7, ShrinkKeeps DEF v
<1>9. Fits(s) => Fits(t)
  BY <1>4, <1>6, <1>8 DEF Fits, SameButUsed
<1> QED BY <1>4, <1>5, <1>6, <1>8, <1>9 DEF SameButUsed, shown, t

\* Another set of requests, and what they hold.
LEMMA WorksChange ==
  ASSUME NEW s, NEW held \in Nat, Kept(s, held), NEW W \in SUBSET WorkItem, IsFiniteSet(W),
         NEW more \in Nat, Input * Cardinality(W) + more = Input * Cardinality(s.works) + held
  PROVE  LET t == [s EXCEPT !.works = W]
         IN  /\ Kept(t, more) /\ Fits(t) = Fits(s) /\ Owned(t) = Owned(s) /\ t.works = W
             /\ t.controls = s.controls /\ t.cache = s.cache /\ t.live = s.live
             /\ t.result = s.result
<1> DEFINE t == [s EXCEPT !.works = W]
<1>1. /\ s \in Service /\ Size(Owned(s)) \in Nat /\ Input * Cardinality(s.works) \in Nat
      /\ s.used = Size(Owned(s)) + Input * Cardinality(s.works) + held
  BY KeptNumbers
<1>2. /\ t \in Service /\ t.works = W /\ t.controls = s.controls /\ t.cache = s.cache
      /\ t.cached = s.cached /\ t.live = s.live /\ t.result = s.result /\ t.used = s.used
  BY <1>1 DEF Service
<1> HIDE DEF t
<1>3. Owned(t) = Owned(s)
  BY <1>2, SameOwned
<1>4. Input * Cardinality(W) \in Nat
  BY FS_CardinalityType DEF Input
<1>5. t.used = Size(Owned(t)) + Input * Cardinality(t.works) + more
  BY <1>1, <1>2, <1>3, <1>4
<1>6. Kept(t, more)
  BY <1>2, <1>3, <1>5 DEF Kept
<1> QED BY <1>2, <1>3, <1>6 DEF t, Fits

\* Requests are counted.
LEMMA WorksCount ==
  ASSUME NEW s, NEW held \in Nat, Kept(s, held), NEW w \in s.works
  PROVE  /\ s.works \in SUBSET WorkItem /\ s.works \ {w} \in SUBSET WorkItem
         /\ IsFiniteSet(s.works \ {w}) /\ Cardinality(s.works \ {w}) \in Nat
         /\ Cardinality(s.works) = Cardinality(s.works \ {w}) + 1
<1>1. IsFiniteSet(s.works) /\ s.works \in SUBSET WorkItem
  BY ServiceParts DEF Kept
<1>2. IsFiniteSet(s.works \ {w}) /\ Cardinality(s.works) \in Nat /\ Cardinality(s.works \ {w}) \in Nat
  BY <1>1, FS_RemoveElement, FS_CardinalityType
<1>3. Cardinality(s.works \ {w}) = Cardinality(s.works) - 1
  BY <1>1, FS_RemoveElement
<1> QED BY <1>1, <1>2, <1>3

\* A request ends: its reservation is still held.
LEMMA WorkLeaves ==
  ASSUME NEW s, NEW held \in Nat, Kept(s, held), NEW w \in s.works
  PROVE  LET t == [s EXCEPT !.works = @ \ {w}]
         IN  /\ Kept(t, held + Input) /\ Fits(t) = Fits(s) /\ Owned(t) = Owned(s)
             /\ t.works = s.works \ {w} /\ t.controls = s.controls /\ t.cache = s.cache
             /\ t.live = s.live /\ t.result = s.result
<1>1. PICK W : W = s.works \ {w}
  OBVIOUS
<1>2. /\ W \in SUBSET WorkItem /\ IsFiniteSet(W) /\ Cardinality(W) \in Nat
      /\ Cardinality(s.works) = Cardinality(W) + 1
  BY <1>1, WorksCount
<1>3. held + Input \in Nat
  BY DEF Input
<1>4. Input * Cardinality(W) + (held + Input) = Input * Cardinality(s.works) + held
  BY <1>2 DEF Input
<1> QED BY <1>1, <1>2, <1>3, <1>4, WorksChange

\* A request joins: it takes over the reservation made for it.
LEMMA WorkJoins ==
  ASSUME NEW s, NEW held \in Nat, Kept(s, held + Input), NEW w \in WorkItem, w \notin s.works
  PROVE  LET t == [s EXCEPT !.works = @ \cup {w}]
         IN  /\ Kept(t, held) /\ Fits(t) = Fits(s) /\ Owned(t) = Owned(s)
             /\ t.works = s.works \cup {w} /\ t.controls = s.controls /\ t.cache = s.cache
             /\ t.live = s.live /\ t.result = s.result
<1>1. PICK W : W = s.works \cup {w}
  OBVIOUS
<1>2. held + Input \in Nat
  BY DEF Input
<1>3. IsFiniteSet(s.works) /\ s.works \in SUBSET WorkItem
  BY <1>2, ServiceParts DEF Kept
<1>4. W \in SUBSET WorkItem /\ IsFiniteSet(W)
  BY <1>1, <1>3, FS_AddElement
<1>5. Cardinality(s.works) \in Nat /\ Cardinality(W) = Cardinality(s.works) + 1
  BY <1>1, <1>3, FS_AddElement, FS_CardinalityType
<1>6. Input * Cardinality(W) + held = Input * Cardinality(s.works) + (held + Input)
  BY <1>5 DEF Input
<1> DEFINE t == [s EXCEPT !.works = W]
<1>7. /\ Kept(t, held) /\ Fits(t) = Fits(s) /\ Owned(t) = Owned(s) /\ t.works = W
      /\ t.controls = s.controls /\ t.cache = s.cache /\ t.live = s.live /\ t.result = s.result
  BY <1>2, <1>4, <1>6, WorksChange
<1> QED BY <1>1, <1>7

\* A request changes, and stays the request it is.
LEMMA WorkReplaced ==
  ASSUME NEW s, NEW held \in Nat, Kept(s, held), NEW w \in s.works, NEW v \in WorkItem,
         v \in s.works => v = w, NEW W, W = (s.works \ {w}) \cup {v}
  PROVE  LET t == [s EXCEPT !.works = W]
         IN  /\ Kept(t, held) /\ Fits(t) = Fits(s) /\ Owned(t) = Owned(s) /\ t.works = W
             /\ t.controls = s.controls /\ t.cache = s.cache /\ t.live = s.live
             /\ t.result = s.result
<1>1. PICK V : V = s.works \ {w}
  OBVIOUS
<1>2. v \notin V /\ W = V \cup {v}
  BY <1>1
<1>3. /\ V \in SUBSET WorkItem /\ IsFiniteSet(V) /\ Cardinality(V) \in Nat
      /\ Cardinality(s.works) = Cardinality(V) + 1
  BY <1>1, WorksCount
<1>4. W \in SUBSET WorkItem /\ IsFiniteSet(W) /\ Cardinality(W) = Cardinality(V) + 1
  BY <1>2, <1>3, FS_AddElement
<1>5. Input * Cardinality(W) + held = Input * Cardinality(s.works) + held
  BY <1>3, <1>4
<1>6. PICK X : X = W
  OBVIOUS
<1> DEFINE t == [s EXCEPT !.works = X]
<1>7. /\ Kept(t, held) /\ Fits(t) = Fits(s) /\ Owned(t) = Owned(s) /\ t.works = X
      /\ t.controls = s.controls /\ t.cache = s.cache /\ t.live = s.live /\ t.result = s.result
  <2>1. /\ X \in SUBSET WorkItem /\ IsFiniteSet(X)
        /\ Input * Cardinality(X) + held = Input * Cardinality(s.works) + held
    BY <1>4, <1>5, <1>6
  <2> QED BY <2>1, WorksChange
<1> QED BY <1>6, <1>7

-----------------------------------------------------------------------------
(* The books, request by request. *)

\* The books after a load that changed neither the requests under way nor what the controls show.
LEMMA BooksOf ==
  ASSUME NEW s, NEW n \in Nat, NEW m \in Nat, n <= m, Numbered(s, n), Apart(s),
         s.works \in SUBSET WorkItem,
         NEW t, Kept(t, 0), Fits(t), t.result = NoImage, Named(t), t.works = s.works, NEW r,
         Owned(t) \subseteq Owned(s) \cup ({r} \ {NoImage}),
         r = NoImage \/ r \in Owned(s) \/ (r.id <= m /\ \A w \in s.works : r.id # w.id),
         \A x \in ToSet(t.cache) : x \in ToSet(s.cache)
            \/ \A w \in s.works : w.source \notin Private => x.source # w.source
  PROVE  Books(t, m)
<1>1. Owned(t) \subseteq Texture /\ \A x \in Owned(t) : x.id \in Nat
  <2>1. Owned(t) \subseteq Texture
    BY OwnedIsFinite DEF Kept
  <2> QED BY <2>1 DEF Texture
<1>2. ASSUME NEW x \in Owned(t) PROVE x.id <= m /\ \A w \in s.works : x.id # w.id
  <2>1. CASE x \in Owned(s)
    <3>1. x.id <= n /\ \A w \in s.works : x.id # w.id
      BY <2>1 DEF Numbered
    <3> QED BY <1>1, <3>1
  <2>2. CASE x = r /\ r # NoImage /\ r \notin Owned(s)
    BY <2>2
  <2> QED BY <2>1, <2>2
<1>3. \A w \in s.works : w.id <= m
  <2>1. \A w \in s.works : w.id \in Nat /\ w.id <= n
    BY DEF Numbered, WorkItem
  <2> QED BY <2>1
<1>4. Numbered(t, m)
  BY <1>2, <1>3 DEF Numbered
<1>5. Apart(t)
  <2> SUFFICES ASSUME NEW w \in s.works
               PROVE  /\ w.source \in Remote /\ Unseen(t, w)
                      /\ w.source \notin Private => \A v \in s.works : v.source = w.source => v = w
    BY DEF Apart
  <2>1. /\ w.source \in Remote /\ Unseen(s, w)
        /\ w.source \notin Private => \A v \in s.works : v.source = w.source => v = w
    BY DEF Apart
  <2>2. ASSUME w.source \notin Private, NEW x \in ToSet(t.cache) PROVE x.source # w.source
    <3>1. CASE x \in ToSet(s.cache)
      BY <2>1, <2>2, <3>1 DEF Unseen
    <3>2. CASE \A v \in s.works : v.source \notin Private => x.source # v.source
      BY <2>2, <3>2
    <3> QED BY <3>1, <3>2
  <2> QED BY <2>1, <2>2 DEF Unseen
<1> QED BY <1>4, <1>5 DEF Books

\* The books after an answer.
LEMMA AnswerKeeps ==
  ASSUME NEW s, NEW n \in Nat, NEW m \in Nat, n <= m, Numbered(s, n), Apart(s),
         NEW held \in Nat, NEW u, Kept(u, held), Fits(u), Named(u),
         u.works = s.works, u.controls = s.controls, NEW r, u.result = r,
         Owned(u) \subseteq Owned(s) \cup ({r} \ {NoImage}),
         r = NoImage \/ r \in Owned(s) \/ (r.id <= m /\ \A w \in s.works : r.id # w.id),
         \A x \in ToSet(u.cache) : x \in ToSet(s.cache)
            \/ \A w \in s.works : w.source \notin Private => x.source # w.source,
         NEW subscribers
  PROVE  LET t == Delivered(u, subscribers, held)
         IN  /\ Books(t, m) /\ t.works = s.works
             /\ t.controls = Answers(s.controls, subscribers, r)
<1> DEFINE t == Delivered(u, subscribers, held)
<1>1. /\ Kept(t, 0) /\ Fits(t) /\ t.result = NoImage /\ Owned(t) \subseteq Owned(u)
      /\ t.works = u.works /\ t.cache = u.cache /\ t.live = u.live
      /\ t.controls = Answers(u.controls, subscribers, u.result)
  BY DeliverKeeps
<1> HIDE DEF t
<1>2. Named(t)
  BY <1>1 DEF Named
<1>3. s.works \in SUBSET WorkItem
  BY ServiceParts DEF Kept
<1>4. Books(t, m)
  <2>1. Owned(t) \subseteq Owned(s) \cup ({r} \ {NoImage})
    BY <1>1
  <2>2. t.works = s.works
    BY <1>1
  <2>3. \A x \in ToSet(t.cache) : x \in ToSet(s.cache)
            \/ \A w \in s.works : w.source \notin Private => x.source # w.source
    BY <1>1
  <2> QED BY <1>1, <1>2, <1>3, <2>1, <2>2, <2>3, BooksOf
<1> QED BY <1>1, <1>4 DEF t

\* The requests of a service, and their ids.
LEMMA BooksGive ==
  ASSUME NEW s, NEW n, Books(s, n)
  PROVE  /\ Kept(s, 0) /\ Fits(s) /\ s.result = NoImage /\ Numbered(s, n) /\ Apart(s) /\ Named(s)
         /\ s \in Service /\ s.works \in SUBSET WorkItem /\ s.controls \in [Controls -> Control]
         /\ Owned(s) \subseteq Texture
BY ServiceParts, OwnedIsFinite DEF Books, Kept

\* A request that ends leaves the books of the others as they are.
LEMMA BooksWithout ==
  ASSUME NEW s, NEW n, Books(s, n), NEW w \in s.works
  PROVE  LET t == [s EXCEPT !.works = @ \ {w}]
         IN  /\ Kept(t, Input) /\ Fits(t) /\ t.result = NoImage
             /\ Numbered(t, n) /\ Apart(t) /\ Named(t) /\ Owned(t) = Owned(s) /\ Unseen(t, w)
             /\ t.works = s.works \ {w} /\ t.controls = s.controls
             /\ w.id <= n /\ (\A r \in Owned(t) : r.id # w.id)
             /\ \A v \in t.works : /\ v.id # w.id
                                   /\ v.source \notin Private => v.source # w.source
<1> DEFINE t == [s EXCEPT !.works = @ \ {w}]
<1>1. Kept(s, 0) /\ Fits(s) /\ s.result = NoImage /\ Numbered(s, n) /\ Apart(s) /\ Named(s)
  BY BooksGive
<1>2. /\ Kept(t, 0 + Input) /\ Fits(t) = Fits(s) /\ Owned(t) = Owned(s) /\ t.works = s.works \ {w}
      /\ t.controls = s.controls /\ t.cache = s.cache /\ t.live = s.live /\ t.result = s.result
  BY <1>1, WorkLeaves
<1> HIDE DEF t
<1>3. 0 + Input = Input
  BY DEF Input
<1>4. Numbered(t, n) /\ w.id <= n /\ (\A r \in Owned(t) : r.id # w.id) /\ \A v \in t.works : v.id # w.id
  BY <1>1, <1>2 DEF Numbered
<1>5. /\ Apart(t) /\ Named(t) /\ Unseen(t, w)
      /\ \A v \in t.works : v.source \notin Private => v.source # w.source
  <2>1. \A x : Unseen(t, x) <=> Unseen(s, x)
    BY <1>2 DEF Unseen
  <2>2. Apart(t) /\ Unseen(t, w)
    BY <1>1, <1>2, <2>1 DEF Apart
  <2>3. \A v \in t.works : v.source \notin Private => v.source # w.source
    BY <1>1, <1>2 DEF Apart
  <2>4. Named(t)
    BY <1>1, <1>2 DEF Named
  <2> QED BY <2>2, <2>3, <2>4
<1>6. Kept(t, Input) /\ Fits(t) /\ t.result = NoImage
  BY <1>1, <1>2, <1>3
<1> QED BY <1>2, <1>4, <1>5, <1>6 DEF t

\* A request that gains or loses a subscriber, gets its slot or is cancelled.
LEMMA BooksReplace ==
  ASSUME NEW s, NEW n, Books(s, n), NEW w \in s.works, NEW v \in WorkItem,
         v.id = w.id, v.source = w.source
  PROVE  LET t == [s EXCEPT !.works = (@ \ {w}) \cup {v}]
         IN  /\ Books(t, n) /\ t.works = (s.works \ {w}) \cup {v} /\ t.controls = s.controls
<1> DEFINE t == [s EXCEPT !.works = (@ \ {w}) \cup {v}]
<1>1. Kept(s, 0) /\ Fits(s) /\ s.result = NoImage /\ Numbered(s, n) /\ Apart(s) /\ Named(s)
  BY BooksGive
<1>2. v \in s.works => v = w
  BY <1>1 DEF Numbered
<1>3. PICK W : W = (s.works \ {w}) \cup {v}
  OBVIOUS
<1>4. t = [s EXCEPT !.works = W]
  BY <1>3
<1> HIDE DEF t
<1>5. /\ Kept(t, 0) /\ Fits(t) = Fits(s) /\ Owned(t) = Owned(s) /\ t.works = W
      /\ t.controls = s.controls /\ t.cache = s.cache /\ t.live = s.live /\ t.result = s.result
  <2>1. Kept(s, 0) /\ 0 \in Nat
    BY <1>1
  <2>2. PICK x : x = v
    OBVIOUS
  <2>3. PICK y : y = w
    OBVIOUS
  <2>4. /\ x \in WorkItem /\ y \in s.works /\ (x \in s.works => x = y)
        /\ W = (s.works \ {y}) \cup {x}
    BY <1>2, <1>3, <2>2, <2>3
  <2> QED BY <2>1, <2>4, <1>4, WorkReplaced
<1>6. Numbered(t, n)
  BY <1>1, <1>3, <1>5 DEF Numbered
<1>7. Apart(t) /\ Named(t)
  BY <1>1, <1>3, <1>5 DEF Apart, Unseen, Named
<1>8. Books(t, n)
  BY <1>1, <1>3, <1>5, <1>6, <1>7 DEF Books
<1> QED BY <1>3, <1>5, <1>8 DEF t

\* A request that ends unanswered.
LEMMA BooksDrop ==
  ASSUME NEW s, NEW n, Books(s, n), NEW w \in s.works
  PROVE  LET t == Release([s EXCEPT !.works = @ \ {w}], Input)
         IN  Books(t, n) /\ t.works = s.works \ {w} /\ t.controls = s.controls
<1> DEFINE u == [s EXCEPT !.works = @ \ {w}]
           t == Release(u, Input)
<1>1. /\ Kept(u, Input) /\ Fits(u) /\ u.result = NoImage /\ Numbered(u, n) /\ Apart(u) /\ Named(u)
      /\ u.works = s.works \ {w} /\ u.controls = s.controls
  BY BooksWithout
<1> HIDE DEF u
<1>2. Kept(u, 0 + Input) /\ Input \in Nat
  BY <1>1 DEF Input
<1>3. Kept(t, 0) /\ SameButUsed(u, t) /\ Fits(t) /\ Owned(t) = Owned(u)
  BY <1>1, <1>2, ShrinkKeeps
<1> HIDE DEF t
<1>4. Books(t, n) /\ t.works = s.works \ {w} /\ t.controls = s.controls
  BY <1>1, <1>3 DEF Books, SameButUsed, Numbered, Apart, Unseen, Named
<1> QED BY <1>4 DEF t, u

\* Only what the controls have asked for changes.
LEMMA BooksAsked ==
  ASSUME NEW s, NEW n, Books(s, n), NEW k \in [Controls -> Control],
         \A c \in Controls : k[c].image = s.controls[c].image
  PROVE  LET t == [s EXCEPT !.controls = k]
         IN  Books(t, n) /\ t.works = s.works /\ t.controls = k
<1> DEFINE t == [s EXCEPT !.controls = k]
<1>1. /\ Kept(s, 0) /\ Fits(s) /\ s.result = NoImage /\ Numbered(s, n) /\ Apart(s) /\ Named(s)
      /\ s \in Service
  BY BooksGive
<1>2. /\ t \in Service /\ t.controls = k /\ t.cache = s.cache /\ t.cached = s.cached
      /\ t.live = s.live /\ t.works = s.works /\ t.used = s.used /\ t.result = s.result
  BY <1>1 DEF Service
<1> HIDE DEF t
<1>3. Owned(t) = Owned(s)
  BY <1>2 DEF Owned
<1>4. Kept(t, 0)
  BY <1>1, <1>2, <1>3 DEF Kept
<1>5. Books(t, n)
  BY <1>1, <1>2, <1>3, <1>4 DEF Books, Fits, Numbered, Apart, Unseen, Named
<1> QED BY <1>2, <1>5 DEF t

-----------------------------------------------------------------------------
(* Subscriptions. *)

\* The requests that remain keep their subscribers.
LEMMA SubsSubset ==
  ASSUME NEW controls, NEW works, NEW n, Subs(controls, works, n), NEW W \in SUBSET works
  PROVE  Subs(controls, W, n)
BY DEF Subs

\* A request that changes may lose subscribers.
LEMMA SubsReplace ==
  ASSUME NEW controls, NEW works, NEW n, Subs(controls, works, n), NEW w \in works, NEW v,
         v.source = w.source, v.subscribers \subseteq w.subscribers
  PROVE  Subs(controls, (works \ {w}) \cup {v}, n)
<1> DEFINE W == (works \ {w}) \cup {v}
<1>1. ASSUME NEW u \in W, NEW x \in u.subscribers
      PROVE  \E o \in works : x \in o.subscribers /\ o.source = u.source /\ (u = o \/ (u = v /\ o = w))
  BY <1>1
<1>2. \A u \in W : u = v \/ (u \in works /\ u # w)
  OBVIOUS
<1> HIDE DEF W
<1>3. ASSUME NEW u \in W, NEW x \in u.subscribers
      PROVE  /\ x.token \in 1..n
             /\ x.control # NoSource =>
                  /\ x.control \in Controls /\ controls[x.control].waiting
                  /\ x.token = controls[x.control].token /\ u.source = controls[x.control].source
             /\ \A c \in Controls : x.token = controls[c].token => x.control = c
  <2>1. PICK o \in works : x \in o.subscribers /\ o.source = u.source
    BY <1>1, <1>3
  <2> QED BY <2>1 DEF Subs
<1>4. ASSUME NEW u \in W, NEW x \in u.subscribers, NEW t \in W, NEW y \in t.subscribers,
             x.token = y.token
      PROVE  t = u /\ x = y
  <2>1. PICK o \in works : x \in o.subscribers /\ (u = o \/ (u = v /\ o = w))
    BY <1>1, <1>4
  <2>2. PICK p \in works : y \in p.subscribers /\ (t = p \/ (t = v /\ p = w))
    BY <1>1, <1>4
  <2>3. o = p /\ x = y
    BY <1>4, <2>1, <2>2 DEF Subs
  <2> QED BY <1>2, <2>1, <2>2, <2>3
<1>5. Subs(controls, W, n)
  BY <1>3, <1>4 DEF Subs
<1> QED BY <1>5 DEF W

\* cancel(): a subscriber leaves, and with the last one the request.
LEMMA CancelDoes ==
  ASSUME NEW s, NEW n \in Nat, Books(s, n), Subs(s.controls, s.works, n), NEW subscription
  PROVE  LET t == Cancel(s, subscription)
         IN  /\ Books(t, n) /\ t.controls = s.controls /\ Subs(s.controls, t.works, n)
             /\ \A w \in t.works : \A x \in w.subscribers : x.token # subscription
             /\ \A w \in s.works : \A x \in w.subscribers :
                  x.token = subscription \/ \E v \in t.works : x \in v.subscribers
<1> DEFINE t == Cancel(s, subscription)
           held == {w \in s.works : \E x \in w.subscribers : x.token = subscription}
           work == CHOOSE w \in held : TRUE
           left == {x \in work.subscribers : x.token # subscription}
           others == [work EXCEPT !.subscribers = left]
           cancelled == [others EXCEPT !.cancelled = TRUE]
<1>1. \A w \in s.works : \A x \in w.subscribers : x.token \in 1..n
  BY DEF Subs
<1>2. CASE subscription = 0 \/ held = {}
  <2>1. t = s
    BY <1>2 DEF Cancel
  <2>2. ASSUME NEW w \in s.works, NEW x \in w.subscribers PROVE x.token # subscription
    <3>1. x.token # 0
      BY <1>1
    <3> QED BY <1>2, <3>1
  <2> HIDE DEF t
  <2> QED BY <2>1, <2>2 DEF t
<1>3. CASE subscription # 0 /\ held # {}
  <2>1. work \in held
    BY <1>3
  <2>2. work \in s.works /\ \E x \in work.subscribers : x.token = subscription
    BY <2>1
  <2>3. \/ left # {} /\ t = [s EXCEPT !.works = (@ \ {work}) \cup {others}]
        \/ left = {} /\ t = [s EXCEPT !.works = (@ \ {work}) \cup {cancelled}]
        \/ left = {} /\ t = Release([s EXCEPT !.works = @ \ {work}], Input)
    <3>1. work \in WorkItem
      BY <2>2, BooksGive
    <3>2. others.subscribers = left /\ others = [work EXCEPT !.subscribers = {x \in @ : x.token # subscription}]
      BY <3>1 DEF WorkItem
    <3>3. ~(subscription = 0 \/ held = {})
      BY <1>3
    <3> DEFINE o == [work EXCEPT !.subscribers = {x \in @ : x.token # subscription}]
    <3>4. t = IF o.subscribers # {} THEN [s EXCEPT !.works = (@ \ {work}) \cup {o}]
              ELSE IF work.active
                THEN [s EXCEPT !.works = (@ \ {work}) \cup {[o EXCEPT !.cancelled = TRUE]}]
              ELSE Release([s EXCEPT !.works = @ \ {work}], Input)
      BY <3>3 DEF Cancel
    <3>5. o = others
      BY <3>2
    <3> HIDE DEF o, t, work, others, left
    <3> QED BY <3>2, <3>4, <3>5 DEF t
  <2>4. ASSUME NEW v, v \in {others, cancelled}
        PROVE  v \in WorkItem /\ v.id = work.id /\ v.source = work.source /\ v.subscribers = left
    <3>1. work \in WorkItem
      BY <2>2, BooksGive
    <3> HIDE DEF work
    <3>2. left \in SUBSET Subscriber
      BY <3>1 DEF WorkItem
    <3> HIDE DEF left
    <3> QED BY <2>4, <3>1, <3>2 DEF WorkItem
  <2>5. /\ \A w \in s.works : \A x \in w.subscribers : x.token = subscription => w = work
        /\ \A x \in left : x \in work.subscribers /\ x.token # subscription
        /\ \A x \in work.subscribers : x.token = subscription \/ x \in left
    <3> HIDE DEF work
    <3> QED BY <2>2 DEF Subs
  <2> HIDE DEF t, work, others, cancelled, left, held
  <2>6. ASSUME NEW v \in {others, cancelled}, t = [s EXCEPT !.works = (@ \ {work}) \cup {v}]
        PROVE  /\ Books(t, n) /\ t.controls = s.controls /\ Subs(s.controls, t.works, n)
               /\ \A w \in t.works : \A x \in w.subscribers : x.token # subscription
               /\ \A w \in s.works : \A x \in w.subscribers :
                    x.token = subscription \/ \E u \in t.works : x \in u.subscribers
    <3>1. v \in WorkItem /\ v.id = work.id /\ v.source = work.source /\ v.subscribers = left
      BY <2>4, <2>6
    <3>2. Books(t, n) /\ t.works = (s.works \ {work}) \cup {v} /\ t.controls = s.controls
      BY <2>2, <2>6, <3>1, BooksReplace
    <3>3. v.subscribers \subseteq work.subscribers
      BY <2>5, <3>1
    <3>4. Subs(s.controls, (s.works \ {work}) \cup {v}, n)
      BY <2>2, <3>1, <3>3, SubsReplace
    <3>5. \A w \in t.works : \A x \in w.subscribers : x.token # subscription
      BY <2>5, <3>1, <3>2
    <3>6. ASSUME NEW w \in s.works, NEW x \in w.subscribers, x.token # subscription
          PROVE  \E u \in t.works : x \in u.subscribers
      <4>1. CASE w = work
        BY <2>5, <3>1, <3>2, <3>6, <4>1
      <4>2. CASE w # work
        BY <3>2, <4>2
      <4> QED BY <4>1, <4>2
    <3> QED BY <3>2, <3>4, <3>5, <3>6
  <2>7. ASSUME left = {}, t = Release([s EXCEPT !.works = @ \ {work}], Input)
        PROVE  /\ Books(t, n) /\ t.controls = s.controls /\ Subs(s.controls, t.works, n)
               /\ \A w \in t.works : \A x \in w.subscribers : x.token # subscription
               /\ \A w \in s.works : \A x \in w.subscribers :
                    x.token = subscription \/ \E u \in t.works : x \in u.subscribers
    <3>1. Books(t, n) /\ t.works = s.works \ {work} /\ t.controls = s.controls
      BY <2>2, <2>7, BooksDrop
    <3>2. s.works \ {work} \in SUBSET s.works
      OBVIOUS
    <3>3. Subs(s.controls, s.works \ {work}, n)
      BY <3>2, SubsSubset
    <3>4. \A w \in t.works : \A x \in w.subscribers : x.token # subscription
      BY <2>5, <3>1
    <3>5. ASSUME NEW w \in s.works, NEW x \in w.subscribers, x.token # subscription
          PROVE  \E u \in t.works : x \in u.subscribers
      <4>1. w # work
        BY <2>5, <2>7, <3>5
      <4> QED BY <3>1, <4>1
    <3> QED BY <3>1, <3>3, <3>4, <3>5
  <2> QED BY <2>3, <2>6, <2>7 DEF t
<1> QED BY <1>2, <1>3

\* The answer reaches those that still wait for it: they stop waiting, and show it or have
\* failed.
LEMMA AnswerTells ==
  ASSUME NEW controls \in [Controls -> Control], NEW works, NEW n, Subs(controls, works, n),
         NEW subscribers, NEW r,
         \A w \in works : \A x \in w.subscribers : \A y \in subscribers : x.token # y.token,
         \A c \in Controls : Me(controls, c) \in subscribers \/ ShowsIt(controls, works, c),
         \A c \in Controls : Me(controls, c) \in subscribers =>
           r = NoImage \/ r.source = controls[c].source
  PROVE  LET k == Answers(controls, subscribers, r)
         IN  Subs(k, works, n) /\ Shows(k, works)
<1> DEFINE k == Answers(controls, subscribers, r)
<1>1. ASSUME NEW c \in Controls
      PROVE  /\ k[c].token = controls[c].token /\ k[c].source = controls[c].source
             /\ Me(controls, c) \in subscribers =>
                  /\ k[c].waiting = FALSE /\ k[c].subscription = 0
                  /\ k[c].failed \/ k[c].image.source = k[c].source
             /\ Me(controls, c) \notin subscribers => k[c] = controls[c]
  <2>1. k[c] = Loaded(controls[c], IsCurrent(c, controls[c], subscribers), r)
    BY DEF Answers
  <2>2. IsCurrent(c, controls[c], subscribers) <=> Me(controls, c) \in subscribers
    BY DEF IsCurrent, Me
  <2>3. controls[c] \in Control
    OBVIOUS
  <2> HIDE DEF k
  <2>4. CASE Me(controls, c) \notin subscribers
    BY <2>1, <2>2, <2>4 DEF Loaded
  <2>5. CASE Me(controls, c) \in subscribers /\ r = NoImage
    <3>1. k[c] = [controls[c] EXCEPT !.subscription = 0, !.waiting = FALSE, !.failed = TRUE]
      BY <2>1, <2>2, <2>5 DEF Loaded
    <3> QED BY <2>3, <2>5, <3>1 DEF Control
  <2>6. CASE Me(controls, c) \in subscribers /\ r # NoImage
    <3>1. k[c] = [controls[c] EXCEPT !.subscription = 0, !.waiting = FALSE, !.image = r]
      BY <2>1, <2>2, <2>6 DEF Loaded
    <3>2. r.source = controls[c].source
      BY <2>6
    <3> QED BY <2>3, <2>6, <3>1, <3>2 DEF Control
  <2> QED BY <2>4, <2>5, <2>6
<1> HIDE DEF k
<1>2. ASSUME NEW w \in works, NEW x \in w.subscribers, NEW c \in Controls, x.token = controls[c].token
      PROVE  Me(controls, c) \notin subscribers
  BY <1>2 DEF Me
<1>3. ASSUME NEW w \in works, NEW x \in w.subscribers, x.control # NoSource
      PROVE  /\ x.control \in Controls /\ k[x.control].waiting
             /\ x.token = k[x.control].token /\ w.source = k[x.control].source
  <2>1. /\ x.control \in Controls /\ controls[x.control].waiting
        /\ x.token = controls[x.control].token /\ w.source = controls[x.control].source
    BY <1>3 DEF Subs
  <2> QED BY <1>1, <1>2, <2>1
<1>4. ASSUME NEW c \in Controls
      PROVE  /\ k[c].token <= n /\ k[c].subscription \in {0, k[c].token}
             /\ \A d \in Controls : k[c].token = k[d].token /\ k[c].token # 0 => c = d
  <2>1. /\ controls[c].token <= n /\ controls[c].subscription \in {0, controls[c].token}
        /\ \A d \in Controls : controls[c].token = controls[d].token /\ controls[c].token # 0 => c = d
    BY DEF Subs
  <2> QED BY <1>1, <2>1
<1>5. ASSUME NEW w \in works, NEW x \in w.subscribers
      PROVE  /\ x.token \in 1..n
             /\ \A v \in works : \A y \in v.subscribers : x.token = y.token => v = w /\ x = y
             /\ \A c \in Controls : x.token = k[c].token => x.control = c
  <2>1. /\ x.token \in 1..n
        /\ \A v \in works : \A y \in v.subscribers : x.token = y.token => v = w /\ x = y
        /\ \A c \in Controls : x.token = controls[c].token => x.control = c
    BY <1>5 DEF Subs
  <2> QED BY <1>1, <2>1
<1>6. Subs(k, works, n)
  BY <1>3, <1>4, <1>5 DEF Subs
<1>7. ASSUME NEW c \in Controls PROVE ShowsIt(k, works, c)
  <2>1. CASE Me(controls, c) \in subscribers
    BY <1>1, <2>1 DEF ShowsIt
  <2>2. CASE Me(controls, c) \notin subscribers
    <3>1. ShowsIt(controls, works, c)
      BY <2>2
    <3>2. k[c] = controls[c] /\ Me(k, c) = Me(controls, c)
      BY <1>1, <2>2 DEF Me
    <3> QED BY <3>1, <3>2 DEF ShowsIt
  <2> QED BY <2>1, <2>2
<1> QED BY <1>6, <1>7 DEF k, Shows

\* A control, or nobody, asks for a source with the next token.
Asking(controls, works, n, c, source) ==
  /\ controls \in [Controls -> Control] /\ c \in Controls \cup {NoSource} /\ n \in Nat
  /\ Subs(controls, works, n + 1)
  /\ \A w \in works : \A x \in w.subscribers : x.token \in 1..n
  /\ c # NoSource => controls[c].token = n + 1 /\ controls[c].source = source /\ controls[c].waiting
  /\ \A d \in Controls : d # c => controls[d].token <= n /\ ShowsIt(controls, works, d)
Asker(n, c) == [control |-> c, token |-> n + 1]
Subscribing(controls, c, token) ==
  IF c = NoSource THEN controls ELSE [controls EXCEPT ![c].subscription = token]

\* The answer inside the call.
LEMMA AnswerAsked ==
  ASSUME NEW controls, NEW works, NEW n, NEW c, NEW source, Asking(controls, works, n, c, source),
         NEW r, r = NoImage \/ r.source = source
  PROVE  LET k == Answers(controls, {Asker(n, c)}, r)
         IN  Subs(k, works, n + 1) /\ Shows(k, works)
<1>1. ASSUME NEW d \in Controls
      PROVE  /\ d = c => Me(controls, d) = Asker(n, c)
             /\ Me(controls, d) = Asker(n, c) => d = c
  BY DEF Me, Asker, Asking
<1>2. controls \in [Controls -> Control] /\ Subs(controls, works, n + 1) /\ n \in Nat
  BY DEF Asking
<1>3. ASSUME NEW w \in works, NEW x \in w.subscribers PROVE x.token # Asker(n, c).token
  <2>1. x.token \in 1..n
    BY DEF Asking
  <2> QED BY <1>2, <2>1 DEF Asker
<1>4. ASSUME NEW d \in Controls
      PROVE  /\ Me(controls, d) \in {Asker(n, c)} \/ ShowsIt(controls, works, d)
             /\ Me(controls, d) \in {Asker(n, c)} => r = NoImage \/ r.source = controls[d].source
  <2>1. d # c => ShowsIt(controls, works, d)
    BY DEF Asking
  <2>2. d = c => controls[d].source = source
    BY DEF Asking
  <2> QED BY <1>1, <2>1, <2>2
<1> QED BY <1>2, <1>3, <1>4, AnswerTells

\* A control stores the subscription; the request may have been answered already.
LEMMA SubscribingAre ==
  ASSUME NEW controls \in [Controls -> Control], NEW c \in Controls \cup {NoSource}, NEW token \in Nat
  PROVE  LET k == Subscribing(controls, c, token)
         IN  /\ k \in [Controls -> Control]
             /\ \A d \in Controls :
                  /\ k[d].image = controls[d].image /\ k[d].token = controls[d].token
                  /\ k[d].source = controls[d].source /\ k[d].waiting = controls[d].waiting
                  /\ k[d].failed = controls[d].failed
                  /\ k[d].subscription = IF d = c THEN token ELSE controls[d].subscription
<1> DEFINE k == Subscribing(controls, c, token)
<1>1. CASE c = NoSource
  BY <1>1 DEF Subscribing
<1>2. CASE c # NoSource
  <2>1. c \in Controls /\ controls[c] \in Control
    BY <1>2
  <2>2. PICK control : control = [controls[c] EXCEPT !.subscription = token]
    OBVIOUS
  <2>3. /\ control \in Control /\ control.image = controls[c].image
        /\ control.token = controls[c].token /\ control.source = controls[c].source
        /\ control.waiting = controls[c].waiting /\ control.failed = controls[c].failed
        /\ control.subscription = token
    BY <2>1, <2>2 DEF Control
  <2>4. k = [controls EXCEPT ![c] = control]
    BY <1>2, <2>2 DEF Subscribing
  <2>5. \A d \in Controls : k[d] = IF d = c THEN control ELSE controls[d]
    BY <2>1, <2>4
  <2>6. k \in [Controls -> Control]
    BY <2>1, <2>3, <2>4
  <2> HIDE DEF k
  <2>7. \A d \in Controls :
          /\ k[d].image = controls[d].image /\ k[d].token = controls[d].token
          /\ k[d].source = controls[d].source /\ k[d].waiting = controls[d].waiting
          /\ k[d].failed = controls[d].failed
          /\ k[d].subscription = IF d = c THEN token ELSE controls[d].subscription
    BY <2>3, <2>5
  <2> QED BY <2>6, <2>7 DEF k
<1> QED BY <1>1, <1>2

\* A subscription that is stored after the answer.
LEMMA SubscribeLate ==
  ASSUME NEW controls \in [Controls -> Control], NEW works, NEW m \in Nat, Subs(controls, works, m),
         Shows(controls, works), NEW c \in Controls \cup {NoSource}, NEW token \in Nat,
         c # NoSource => controls[c].token = token /\ ~controls[c].waiting
  PROVE  LET k == Subscribing(controls, c, token)
         IN  Subs(k, works, m) /\ Shows(k, works)
<1> DEFINE k == Subscribing(controls, c, token)
<1>1. \A d \in Controls :
        /\ k[d].image = controls[d].image /\ k[d].token = controls[d].token
        /\ k[d].source = controls[d].source /\ k[d].waiting = controls[d].waiting
        /\ k[d].failed = controls[d].failed
        /\ k[d].subscription = IF d = c THEN token ELSE controls[d].subscription
  BY SubscribingAre
<1> HIDE DEF k
<1>2. \A d \in Controls : Me(k, d) = Me(controls, d)
  BY <1>1 DEF Me
<1>3. \A d \in Controls : d = c => c # NoSource
  OBVIOUS
<1>4. \A d \in Controls : k[d].subscription \in {0, k[d].token}
  BY <1>1, <1>3 DEF Subs
<1>5. Subs(k, works, m)
  BY <1>1, <1>4 DEF Subs
<1>6. ASSUME NEW d \in Controls PROVE ShowsIt(k, works, d)
  <2>1. ShowsIt(controls, works, d)
    BY DEF Shows
  <2>2. controls[d].waiting => d # c
    BY <1>3
  <2> QED BY <1>1, <1>2, <2>1, <2>2 DEF ShowsIt
<1> QED BY <1>5, <1>6 DEF Shows, k

\* A request gains a subscriber, or is made for it: v is the request that was j, or j is new.
Gains(works, W, j, v, x) ==
  /\ \A u \in W : \A y \in u.subscribers :
       \/ u = v /\ y = x
       \/ \E o \in works : y \in o.subscribers /\ o.source = u.source /\ (u = o \/ (u = v /\ o = j))
  /\ \A o \in works : \A y \in o.subscribers : \E u \in W : y \in u.subscribers
  /\ v \in W /\ x \in v.subscribers /\ (j \in W => j = v)

\* The control that asked waits for that request.
LEMMA JoinTells ==
  ASSUME NEW controls, NEW works, NEW n, NEW c, NEW source, Asking(controls, works, n, c, source),
         NEW W, NEW j, NEW v, Gains(works, W, j, v, Asker(n, c)), v.source = source
  PROVE  LET k == Subscribing(controls, c, n + 1)
         IN  Subs(k, W, n + 1) /\ Shows(k, W)
<1> DEFINE k == Subscribing(controls, c, n + 1)
           me == Asker(n, c)
<1>1. /\ controls \in [Controls -> Control] /\ c \in Controls \cup {NoSource} /\ n \in Nat
      /\ n + 1 \in Nat /\ n + 1 \in 1..n + 1 /\ Subs(controls, works, n + 1)
      /\ \A w \in works : \A x \in w.subscribers : x.token \in 1..n /\ x.token # n + 1
      /\ \A d \in Controls : d # c => controls[d].token <= n
      /\ c # NoSource => controls[c].token = n + 1 /\ controls[c].source = source /\ controls[c].waiting
  BY DEF Asking
<1>2. \A d \in Controls :
        /\ k[d].image = controls[d].image /\ k[d].token = controls[d].token
        /\ k[d].source = controls[d].source /\ k[d].waiting = controls[d].waiting
        /\ k[d].failed = controls[d].failed
        /\ k[d].subscription = IF d = c THEN n + 1 ELSE controls[d].subscription
  <2>1. PICK m : m = n + 1
    OBVIOUS
  <2>2. m \in Nat /\ k = Subscribing(controls, c, m)
    BY <1>1, <2>1
  <2> HIDE DEF k
  <2>3. \A d \in Controls :
          /\ k[d].image = controls[d].image /\ k[d].token = controls[d].token
          /\ k[d].source = controls[d].source /\ k[d].waiting = controls[d].waiting
          /\ k[d].failed = controls[d].failed
          /\ k[d].subscription = IF d = c THEN m ELSE controls[d].subscription
    BY <1>1, <2>2, SubscribingAre
  <2> QED BY <2>1, <2>3
<1>3. me.control = c /\ me.token = n + 1
  BY DEF Asker
<1> HIDE DEF k, me
<1>4. ASSUME NEW u \in W, NEW x \in u.subscribers
      PROVE  \/ u = v /\ x = me
             \/ \E o \in works : x \in o.subscribers /\ o.source = u.source
                                   /\ (u = o \/ (u = v /\ o = j))
  BY <1>4 DEF Gains, me
<1>5. \A d \in Controls : d = c => c # NoSource
  OBVIOUS
<1>6. ASSUME NEW u \in W, NEW x \in u.subscribers
      PROVE  /\ x.token \in 1..n + 1
             /\ x.control # NoSource =>
                  /\ x.control \in Controls /\ k[x.control].waiting
                  /\ x.token = k[x.control].token /\ u.source = k[x.control].source
             /\ \A d \in Controls : x.token = k[d].token => x.control = d
  <2>1. CASE u = v /\ x = me
    <3>1. ASSUME c # NoSource
          PROVE  c \in Controls /\ k[c].waiting /\ n + 1 = k[c].token /\ v.source = k[c].source
      BY <1>1, <1>2, <3>1
    <3>2. ASSUME NEW d \in Controls, n + 1 = k[d].token PROVE c = d
      <4>1. controls[d].token = n + 1 /\ ~(n + 1 <= n)
        BY <1>1, <1>2, <3>2
      <4> QED BY <1>1, <4>1
    <3> QED BY <1>1, <1>3, <2>1, <3>1, <3>2
  <2>2. CASE \E o \in works : x \in o.subscribers /\ o.source = u.source
    <3>1. PICK o \in works : x \in o.subscribers /\ o.source = u.source
      BY <2>2
    <3>2. /\ x.token \in 1..n + 1
          /\ x.control # NoSource =>
               /\ x.control \in Controls /\ controls[x.control].waiting
               /\ x.token = controls[x.control].token /\ o.source = controls[x.control].source
          /\ \A d \in Controls : x.token = controls[d].token => x.control = d
      BY <1>1, <3>1 DEF Subs
    <3> QED BY <1>2, <3>1, <3>2
  <2> QED BY <1>4, <2>1, <2>2
<1>7. ASSUME NEW u \in W, NEW x \in u.subscribers, NEW t \in W, NEW y \in t.subscribers,
             x.token = y.token
      PROVE  t = u /\ x = y
  <2>1. CASE u = v /\ x = me
    <3>1. ~(\E o \in works : y \in o.subscribers)
      BY <1>1, <1>3, <1>7, <2>1
    <3> QED BY <1>4, <2>1, <3>1
  <2>2. CASE t = v /\ y = me
    <3>1. ~(\E o \in works : x \in o.subscribers)
      BY <1>1, <1>3, <1>7, <2>2
    <3> QED BY <1>4, <2>2, <3>1
  <2>3. ASSUME NEW o \in works, x \in o.subscribers, u = o \/ (u = v /\ o = j),
               NEW p \in works, y \in p.subscribers, t = p \/ (t = v /\ p = j)
        PROVE  t = u /\ x = y
    <3>1. o = p /\ x = y
      BY <1>1, <1>7, <2>3 DEF Subs
    <3>2. j \in W => j = v
      BY DEF Gains
    <3> QED BY <2>3, <3>1, <3>2
  <2> QED BY <1>4, <2>1, <2>2, <2>3
<1>8. ASSUME NEW d \in Controls
      PROVE  /\ k[d].token <= n + 1 /\ k[d].subscription \in {0, k[d].token}
             /\ \A e \in Controls : k[d].token = k[e].token /\ k[d].token # 0 => d = e
  <2>1. /\ controls[d].token <= n + 1 /\ controls[d].subscription \in {0, controls[d].token}
        /\ \A e \in Controls : controls[d].token = controls[e].token /\ controls[d].token # 0 => d = e
    BY <1>1 DEF Subs
  <2> QED BY <1>1, <1>2, <1>5, <2>1
<1>9. Subs(k, W, n + 1)
  BY <1>6, <1>7, <1>8 DEF Subs
<1>10. ASSUME NEW d \in Controls PROVE ShowsIt(k, W, d)
  <2>1. Me(k, d) = Me(controls, d)
    BY <1>2 DEF Me
  <2>2. CASE d = c
    <3>1. Me(controls, c) = me
      BY <1>1, <1>5, <2>2 DEF Me, me, Asker
    <3>2. v \in W /\ me \in v.subscribers
      BY DEF Gains, me
    <3>3. k[c].subscription = k[c].token /\ k[c].waiting
      BY <1>1, <1>2, <1>5, <2>2
    <3> QED BY <2>1, <2>2, <3>1, <3>2, <3>3 DEF ShowsIt
  <2>3. CASE d # c
    <3>1. ShowsIt(controls, works, d)
      BY <2>3 DEF Asking
    <3>2. \A o \in works : Me(controls, d) \in o.subscribers => \E u \in W : Me(controls, d) \in u.subscribers
      BY DEF Gains
    <3> QED BY <1>2, <2>1, <2>3, <3>1, <3>2 DEF ShowsIt
  <2> QED BY <2>2, <2>3
<1> QED BY <1>9, <1>10 DEF Shows, k

-----------------------------------------------------------------------------
(* Requests. *)

Well(s, n) == Books(s, n) /\ Subs(s.controls, s.works, n) /\ Shows(s.controls, s.works)

\* A load that ends, well or not, is remembered and answered.
LEMMA LoadDoes ==
  ASSUME NEW s, NEW n \in Nat, NEW m \in Nat, n <= m, Numbered(s, n), Apart(s), Named(s),
         NEW source \in Sources, NEW id \in Nat \ {0}, id <= m,
         \A w \in s.works : id # w.id /\ (w.source \notin Private => w.source # source),
         source \notin Private => \A x \in ToSet(s.cache) : x.source # source,
         NEW p, NEW held \in Nat, Kept(p, held), Fits(p), Trims(s, p, p.result),
         p.result \in {NoImage, [id |-> id, source |-> source]},
         NEW cacheable, NEW subscribers
  PROVE  LET t == Delivered(Remember(p, cacheable), subscribers, held)
         IN  /\ Books(t, m) /\ t.works = s.works
             /\ t.controls = Answers(s.controls, subscribers, p.result)
             /\ p.result = NoImage \/ p.result.source = source
<1> DEFINE u == Remember(p, cacheable)
           texture == [id |-> id, source |-> source]
<1>1. PICK r : r = p.result
  OBVIOUS
<1>2. r = NoImage \/ (r = texture /\ r.id = id /\ r.source = source)
  BY <1>1
<1> HIDE DEF texture
<1>3. /\ p.controls = s.controls /\ p.live = s.live /\ p.works = s.works
      /\ ToSet(p.cache) \subseteq ToSet(s.cache)
  BY DEF Trims
<1>4. Named(p)
  BY <1>3 DEF Named
<1>5. r = NoImage \/ Unseen(p, r)
  BY <1>2, <1>3 DEF Unseen
<1>6. /\ Kept(u, held) /\ Fits(u) /\ Named(u)
      /\ u.controls = p.controls /\ u.works = p.works /\ u.result = p.result
      /\ Owned(u) \subseteq Owned(p)
      /\ \A x \in ToSet(u.cache) : x \in ToSet(p.cache) \/ x = p.result
  BY <1>1, <1>4, <1>5, RememberKeeps
<1> HIDE DEF u
<1>7. Owned(u) \subseteq Owned(s) \cup ({r} \ {NoImage})
  <2>1. Owned(p) \subseteq Owned(s) \cup ({r} \ {NoImage})
    BY <1>1, TrimmedOwned
  <2> QED BY <1>6, <2>1
<1>8. NoImage \notin ToSet(u.cache)
  <2>1. u.cache \in Seq(Texture)
    BY <1>6, ServiceParts DEF Kept
  <2> QED BY <2>1, CacheIsFinite, NoTexture
<1>9. \A x \in ToSet(u.cache) : x \in ToSet(s.cache)
         \/ \A w \in s.works : w.source \notin Private => x.source # w.source
  BY <1>1, <1>2, <1>3, <1>6, <1>8
<1>10. r = NoImage \/ r \in Owned(s) \/ (r.id <= m /\ \A w \in s.works : r.id # w.id)
  BY <1>2
<1>11. u.works = s.works /\ u.controls = s.controls /\ u.result = r
  BY <1>1, <1>3, <1>6
<1> DEFINE t == Delivered(u, subscribers, held)
<1>12. Books(t, m) /\ t.works = s.works /\ t.controls = Answers(s.controls, subscribers, r)
  BY <1>6, <1>7, <1>9, <1>10, <1>11, AnswerKeeps
<1> QED BY <1>1, <1>2, <1>12 DEF u

\* A texture that is already owned, in the hands of one more.
LEMMA ResultOwned ==
  ASSUME NEW s, NEW held \in Nat, Kept(s, held), NEW r, r \in Owned(s), s.result = NoImage
  PROVE  LET t == [s EXCEPT !.result = r]
         IN  /\ Kept(t, held) /\ Trims(s, t, r) /\ (Fits(s) => Fits(t)) /\ Owned(t) = Owned(s)
             /\ t.cache = s.cache
<1> DEFINE t == [s EXCEPT !.result = r]
<1>1. s \in Service /\ r \in Texture /\ r # NoImage
  BY OwnedIsFinite, NoTexture DEF Kept
<1>2. /\ t \in Service /\ t.controls = s.controls /\ t.cache = s.cache /\ t.cached = s.cached
      /\ t.live = s.live /\ t.works = s.works /\ t.used = s.used /\ t.result = r
  BY <1>1 DEF Service
<1> HIDE DEF t
<1>3. Owned(t) = Owned(s)
  BY <1>1, <1>2 DEF Owned
<1> QED BY <1>2, <1>3 DEF Kept, Trims, Fits, t

\* What is cached is owned, and of the source that is asked for.
LEMMA CachedIs ==
  ASSUME NEW s \in Service, Named(s), NEW source \in Sources, IsCached(s, source)
  PROVE  Cached(s, source) \in Owned(s) /\ Cached(s, source).source = source
<1>1. CASE InCache(s, source) # {}
  <2>1. PICK r : r = s.cache[Min(InCache(s, source))]
    OBVIOUS
  <2>2. r \in ToSet(s.cache) /\ r.source = source
    BY <1>1, <2>1, CachedAt
  <2>3. r # NoImage
    BY <2>2, CacheIsFinite, NoTexture, ServiceParts
  <2>4. Cached(s, source) = r
    BY <1>1, <2>1 DEF Cached
  <2> QED BY <2>2, <2>3, <2>4 DEF Owned
<1>2. CASE InCache(s, source) = {}
  <2>1. s.live[source] \in Owned(s) /\ Cached(s, source) = s.live[source]
    BY <1>2 DEF IsCached, Cached
  <2>2. s.live[source] # NoImage
    BY <2>1, OwnedIsFinite, NoTexture
  <2> QED BY <2>1, <2>2 DEF Named
<1> QED BY <1>1, <1>2

\* A cached image answers the request inside the call.
LEMMA CachedDoes ==
  ASSUME NEW s, NEW n \in Nat, Books(s, n), NEW c, NEW source \in Sources,
         Asking(s.controls, s.works, n, c, source), IsCached(s, source), NEW decodes, NEW starts
  PROVE  Well(Request(s, source, Asker(n, c), decodes, starts), n + 1)
<1> DEFINE a == Accessed(s, source)
           u == [a EXCEPT !.result = Cached(s, source)]
           t == Delivered(u, {Asker(n, c)}, 0)
<1>1. Request(s, source, Asker(n, c), decodes, starts) = t
  BY DEF Request
<1>2. PICK r : r = Cached(s, source)
  OBVIOUS
<1>3. /\ Kept(s, 0) /\ Fits(s) /\ s.result = NoImage /\ Numbered(s, n) /\ Apart(s) /\ Named(s)
      /\ s \in Service
  BY BooksGive
<1>4. r \in Owned(s) /\ r.source = source
  BY <1>2, <1>3, CachedIs
<1>5. /\ Kept(a, 0) /\ Trims(s, a, NoImage) /\ Fits(a) /\ Owned(a) = Owned(s)
      /\ ToSet(a.cache) = ToSet(s.cache) /\ a.result = NoImage
  <2>1. /\ Kept(a, 0) /\ Trims(s, a, s.result) /\ Fits(a) /\ Owned(a) = Owned(s)
        /\ ToSet(a.cache) = ToSet(s.cache)
    BY <1>3, AccessKeeps
  <2> HIDE DEF a
  <2> QED BY <1>3, <2>1 DEF Trims
<1>6. u = [a EXCEPT !.result = r]
  BY <1>2
<1> HIDE DEF a, u
<1>7. Kept(u, 0) /\ Trims(a, u, r) /\ Fits(u) /\ Owned(u) = Owned(a) /\ u.cache = a.cache
  BY <1>4, <1>5, <1>6, ResultOwned
<1>8. /\ u.works = s.works /\ u.controls = s.controls /\ u.live = s.live /\ u.result = r
      /\ ToSet(u.cache) = ToSet(s.cache)
  BY <1>5, <1>7 DEF Trims
<1>9. Named(u)
  BY <1>3, <1>8 DEF Named
<1>10. Books(t, n + 1) /\ t.works = s.works /\ t.controls = Answers(s.controls, {Asker(n, c)}, r)
  <2>1. Owned(u) \subseteq Owned(s) \cup ({r} \ {NoImage})
    BY <1>5, <1>7
  <2>2. \A x \in ToSet(u.cache) : x \in ToSet(s.cache)
           \/ \A w \in s.works : w.source \notin Private => x.source # w.source
    BY <1>8
  <2>3. n + 1 \in Nat /\ n <= n + 1
    OBVIOUS
  <2>4. PICK m : m = n + 1
    OBVIOUS
  <2>5. Books(t, m) /\ t.works = s.works /\ t.controls = Answers(s.controls, {Asker(n, c)}, r)
    BY <1>3, <1>4, <1>7, <1>8, <1>9, <2>1, <2>2, <2>3, <2>4, AnswerKeeps
  <2> QED BY <2>4, <2>5
<1> HIDE DEF t
<1>11. Subs(t.controls, t.works, n + 1) /\ Shows(t.controls, t.works)
  BY <1>4, <1>10, AnswerAsked
<1> QED BY <1>1, <1>10, <1>11 DEF Well

\* A local source is loaded inside the call.
LEMMA LocalDoes ==
  ASSUME NEW s, NEW n \in Nat, Books(s, n), NEW c, NEW source \in Sources,
         Asking(s.controls, s.works, n, c, source), ~IsCached(s, source), source \notin Remote,
         NEW decodes, NEW starts
  PROVE  Well(Request(s, source, Asker(n, c), decodes, starts), n + 1)
<1> DEFINE d == LoadLocal(s, source, n + 1, decodes)
           t == Delivered(Remember(d.s, TRUE), {Asker(n, c)}, d.held)
<1>1. Request(s, source, Asker(n, c), decodes, starts) = t
  BY DEF Request, RequestLocal, Asker
<1>2. /\ Kept(s, 0) /\ Fits(s) /\ s.result = NoImage /\ Numbered(s, n) /\ Apart(s) /\ Named(s)
      /\ s.works \in SUBSET WorkItem /\ Owned(s) \subseteq Texture
  BY BooksGive
<1>3. PICK m : m = n + 1
  OBVIOUS
<1>4. m \in Nat \ {0} /\ n <= m /\ m <= m /\ ~(m <= n)
  BY <1>3
<1>5. (\A r \in Owned(s) : r.id # m) /\ \A w \in s.works : m # w.id
  BY <1>2, <1>4 DEF Numbered
<1>6. /\ d.held \in Nat /\ Kept(d.s, d.held) /\ Fits(d.s) /\ Trims(s, d.s, d.s.result)
      /\ d.s.result \in {NoImage, [id |-> m, source |-> source]}
  BY <1>2, <1>3, <1>4, <1>5, LocalKeeps
<1>7. \A x \in ToSet(s.cache) : x.source # source
  <2>1. source \notin Private /\ InCache(s, source) = {}
    BY DEF IsCached, Remote
  <2> QED BY <2>1, NotCached
<1>8. \A w \in s.works : m # w.id /\ (w.source \notin Private => w.source # source)
  BY <1>2, <1>5 DEF Apart
<1>9. PICK p : p = d.s
  OBVIOUS
<1>10. PICK held : held = d.held
  OBVIOUS
<1>11. t = Delivered(Remember(p, TRUE), {Asker(n, c)}, held)
  BY <1>9, <1>10
<1> HIDE DEF d, t
<1>12. /\ Books(t, m) /\ t.works = s.works
       /\ t.controls = Answers(s.controls, {Asker(n, c)}, p.result)
       /\ p.result = NoImage \/ p.result.source = source
  <2>1. /\ held \in Nat /\ Kept(p, held) /\ Fits(p) /\ Trims(s, p, p.result)
        /\ p.result \in {NoImage, [id |-> m, source |-> source]}
    BY <1>6, <1>9, <1>10
  <2>2. source \notin Private => \A x \in ToSet(s.cache) : x.source # source
    BY <1>7
  <2>3. /\ m \in Nat \ {0} /\ m \in Nat /\ n <= m /\ m <= m /\ Numbered(s, n) /\ Apart(s) /\ Named(s)
    BY <1>2, <1>4
  <2>4. PICK yes : yes = TRUE
    OBVIOUS
  <2>5. PICK us : us = {Asker(n, c)}
    OBVIOUS
  <2> DEFINE z == Delivered(Remember(p, yes), us, held)
  <2>6. /\ Books(z, m) /\ z.works = s.works /\ z.controls = Answers(s.controls, us, p.result)
        /\ p.result = NoImage \/ p.result.source = source
    BY <1>8, <2>1, <2>2, <2>3, LoadDoes
  <2>7. z = t
    BY <1>11, <2>4, <2>5
  <2> HIDE DEF z
  <2> QED BY <2>5, <2>6, <2>7
<1>13. PICK r : r = p.result
  OBVIOUS
<1>14. Subs(t.controls, t.works, n + 1) /\ Shows(t.controls, t.works)
  BY <1>12, <1>13, AnswerAsked
<1> QED BY <1>1, <1>3, <1>12, <1>14 DEF Well

\* The control stores its subscription.
LEMMA SubscribedDoes ==
  ASSUME NEW s, NEW m, Books(s, m), NEW n \in Nat, NEW c \in Controls \cup {NoSource}
  PROVE  LET t == Subscribed(s, Asker(n, c))
         IN  Books(t, m) /\ t.works = s.works /\ t.controls = Subscribing(s.controls, c, n + 1)
<1> DEFINE t == Subscribed(s, Asker(n, c))
<1>1. PICK k : k = Subscribing(s.controls, c, n + 1)
  OBVIOUS
<1>2. s.controls \in [Controls -> Control] /\ s \in Service
  BY BooksGive
<1>3. k \in [Controls -> Control] /\ \A d \in Controls : k[d].image = s.controls[d].image
  <2>1. PICK token : token = n + 1
    OBVIOUS
  <2>2. PICK controls : controls = s.controls
    OBVIOUS
  <2>3. token \in Nat /\ controls \in [Controls -> Control] /\ k = Subscribing(controls, c, token)
    BY <1>1, <1>2, <2>1, <2>2
  <2>4. k \in [Controls -> Control] /\ \A d \in Controls : k[d].image = controls[d].image
    BY <2>3, SubscribingAre
  <2> QED BY <2>2, <2>4
<1>4. t = [s EXCEPT !.controls = k]
  <2>1. CASE c = NoSource
    BY <1>1, <1>2, <2>1 DEF Subscribed, Subscribing, Asker, Service
  <2>2. CASE c # NoSource
    BY <1>1, <2>2 DEF Subscribed, Subscribing, Asker
  <2> QED BY <2>1, <2>2
<1> HIDE DEF t
<1>5. Books(t, m) /\ t.works = s.works /\ t.controls = k
  BY <1>3, <1>4, BooksAsked
<1> QED BY <1>1, <1>5 DEF t

\* Books are kept for more loads than were made.
LEMMA BooksGrow ==
  ASSUME NEW s, NEW n \in Nat, Books(s, n), NEW m \in Nat, n <= m
  PROVE  Books(s, m)
<1>1. /\ Kept(s, 0) /\ Fits(s) /\ s.result = NoImage /\ Numbered(s, n) /\ Apart(s) /\ Named(s)
      /\ s.works \in SUBSET WorkItem
  BY BooksGive
<1>2. PICK r : r = NoImage
  OBVIOUS
<1> QED BY <1>1, <1>2, BooksOf

\* A request for a source that is being loaded joins the one that loads it.
LEMMA JoinDoes ==
  ASSUME NEW s, NEW n \in Nat, Books(s, n), NEW c, NEW source \in Sources,
         Asking(s.controls, s.works, n, c, source), ~IsCached(s, source), source \in Remote,
         Joinable(s, source) # {}, NEW decodes, NEW starts
  PROVE  Well(Request(s, source, Asker(n, c), decodes, starts), n + 1)
<1> DEFINE j == CHOOSE w \in Joinable(s, source) : TRUE
           me == Asker(n, c)
           v == [j EXCEPT !.subscribers = @ \cup {me}]
           u == [s EXCEPT !.works = (@ \ {j}) \cup {v}]
           t == Subscribed(u, me)
<1>1. Request(s, source, Asker(n, c), decodes, starts) = t
  BY DEF Request, RequestRemote
<1>2. j \in Joinable(s, source)
  OBVIOUS
<1>3. j \in s.works /\ j.source = source
  BY <1>2 DEF Joinable
<1>4. c \in Controls \cup {NoSource} /\ me \in Subscriber
  BY DEF Asking, Asker, Subscriber
<1> HIDE DEF j, me
<1>5. /\ v \in WorkItem /\ v.id = j.id /\ v.source = source
      /\ v.subscribers = j.subscribers \cup {me}
  <2>1. j \in WorkItem
    BY <1>3, BooksGive
  <2>2. PICK subs : subs = j.subscribers \cup {me}
    OBVIOUS
  <2>3. subs \in SUBSET Subscriber
    BY <1>4, <2>1, <2>2 DEF WorkItem
  <2>4. v = [j EXCEPT !.subscribers = subs]
    BY <2>2
  <2> HIDE DEF v
  <2> QED BY <1>3, <2>1, <2>2, <2>3, <2>4 DEF WorkItem
<1> HIDE DEF v
<1>6. Books(u, n) /\ u.works = (s.works \ {j}) \cup {v} /\ u.controls = s.controls
  BY <1>3, <1>5, BooksReplace
<1> HIDE DEF u
<1>7. Books(u, n + 1)
  BY <1>6, BooksGrow
<1>8. Books(t, n + 1) /\ t.works = u.works /\ t.controls = Subscribing(u.controls, c, n + 1)
  BY <1>4, <1>7, SubscribedDoes DEF me
<1> HIDE DEF t
<1>9. PICK W : W = (s.works \ {j}) \cup {v}
  OBVIOUS
<1>10. Gains(s.works, W, j, v, Asker(n, c))
  <2>1. ASSUME NEW o \in W, NEW y \in o.subscribers
        PROVE  \/ o = v /\ y = me
               \/ \E p \in s.works : y \in p.subscribers /\ p.source = o.source
                                       /\ (o = p \/ (o = v /\ p = j))
    BY <1>3, <1>5, <1>9, <2>1
  <2>2. ASSUME NEW o \in s.works, NEW y \in o.subscribers PROVE \E p \in W : y \in p.subscribers
    BY <1>5, <1>9, <2>2
  <2>3. v \in W /\ me \in v.subscribers /\ (j \in W => j = v)
    BY <1>5, <1>9
  <2> QED BY <2>1, <2>2, <2>3 DEF Gains, me
<1>11. Subs(t.controls, t.works, n + 1) /\ Shows(t.controls, t.works)
  BY <1>5, <1>6, <1>8, <1>9, <1>10, JoinTells
<1> QED BY <1>1, <1>8, <1>11 DEF Well

\* A request that could not be reserved for, or that the transport refuses, is answered
\* inside the call.
LEMMA RefusedDoes ==
  ASSUME NEW s, NEW n \in Nat, Books(s, n), NEW c, NEW source \in Sources,
         Asking(s.controls, s.works, n, c, source),
         NEW p, NEW held \in Nat, Kept(p, held), Fits(p), Trims(s, p, NoImage)
  PROVE  LET t == Delivered(p, {Asker(n, c)}, held)
         IN  /\ Well(t, n + 1) /\ Well(Subscribed(t, Asker(n, c)), n + 1)
<1> DEFINE t == Delivered(p, {Asker(n, c)}, held)
<1>1. /\ Kept(s, 0) /\ s.result = NoImage /\ Numbered(s, n) /\ Apart(s) /\ Named(s)
      /\ s.controls \in [Controls -> Control]
  BY BooksGive
<1>2. /\ p.controls = s.controls /\ p.live = s.live /\ p.works = s.works /\ p.result = NoImage
      /\ ToSet(p.cache) \subseteq ToSet(s.cache)
  BY DEF Trims
<1>3. PICK r : r = NoImage
  OBVIOUS
<1>4. Owned(p) \subseteq Owned(s) \cup ({r} \ {NoImage})
  BY <1>3, TrimmedOwned
<1>5. Named(p)
  BY <1>1, <1>2 DEF Named
<1>6. PICK m : m = n + 1
  OBVIOUS
<1>7. m \in Nat /\ n <= m
  BY <1>6
<1>8. Books(t, m) /\ t.works = s.works /\ t.controls = Answers(s.controls, {Asker(n, c)}, r)
  BY <1>1, <1>2, <1>3, <1>4, <1>5, <1>7, AnswerKeeps
<1> HIDE DEF t
<1>9. Subs(t.controls, t.works, n + 1) /\ Shows(t.controls, t.works)
  BY <1>3, <1>8, AnswerAsked
<1>10. c \in Controls \cup {NoSource} /\ m \in Nat /\ t.controls \in [Controls -> Control]
  BY <1>7, <1>8, BooksGive DEF Asking
<1>11. c # NoSource => t.controls[c].token = m /\ ~t.controls[c].waiting
  <2>1. ASSUME c # NoSource PROVE t.controls[c].token = m /\ ~t.controls[c].waiting
    <3>1. c \in Controls /\ s.controls[c].token = n + 1 /\ s.controls[c] \in Control
      BY <1>1, <1>10, <2>1 DEF Asking
    <3>2. IsCurrent(c, s.controls[c], {Asker(n, c)})
      BY <3>1 DEF IsCurrent, Asker
    <3>3. t.controls[c] = [s.controls[c] EXCEPT !.subscription = 0, !.waiting = FALSE, !.failed = TRUE]
      BY <1>3, <1>8, <3>1, <3>2 DEF Answers, Loaded
    <3> QED BY <1>6, <3>1, <3>3 DEF Control
  <2> QED BY <2>1
<1> DEFINE u == Subscribed(t, Asker(n, c))
<1>12. Books(u, m) /\ u.works = t.works /\ u.controls = Subscribing(t.controls, c, n + 1)
  BY <1>8, <1>10, SubscribedDoes
<1> HIDE DEF u
<1>13. u.controls = Subscribing(t.controls, c, m)
  BY <1>6, <1>12
<1>14. Subs(t.controls, t.works, m) /\ Shows(t.controls, t.works)
  BY <1>6, <1>9
<1>15. Subs(u.controls, t.works, m) /\ Shows(u.controls, t.works)
  BY <1>10, <1>11, <1>13, <1>14, SubscribeLate
<1>16. Well(t, m) /\ Well(u, m)
  BY <1>8, <1>12, <1>14, <1>15 DEF Well
<1> QED BY <1>6, <1>16 DEF t, u

\* A request of its own, for which the input has been reserved.
LEMMA StartDoes ==
  ASSUME NEW s, NEW n \in Nat, Books(s, n), NEW c, NEW source \in Sources,
         Asking(s.controls, s.works, n, c, source), ~IsCached(s, source), source \in Remote,
         Joinable(s, source) = {},
         NEW p, Kept(p, Input), Fits(p), Trims(s, p, NoImage)
  PROVE  LET u == [p EXCEPT !.works = @ \cup {Work(source, Asker(n, c))}]
         IN  Well(Subscribed(u, Asker(n, c)), n + 1)
<1> DEFINE v == Work(source, Asker(n, c))
           me == Asker(n, c)
           u == [p EXCEPT !.works = @ \cup {v}]
           t == Subscribed(u, me)
<1>1. PICK m : m = n + 1
  OBVIOUS
<1>2. /\ c \in Controls \cup {NoSource} /\ me \in Subscriber /\ m \in Nat \ {0} /\ n <= m
      /\ ~(m <= n)
  BY <1>1 DEF Asking, Asker, Subscriber
<1>3. /\ v \in WorkItem /\ v.id = m /\ v.source = source /\ v.subscribers = {me}
  BY <1>1, <1>2 DEF Work, WorkItem, Asker
<1> HIDE DEF v, me
<1>4. /\ Kept(s, 0) /\ s.result = NoImage /\ Numbered(s, n) /\ Apart(s) /\ Named(s)
      /\ s.works \in SUBSET WorkItem /\ Owned(s) \subseteq Texture
  BY BooksGive
<1>5. /\ p.controls = s.controls /\ p.live = s.live /\ p.works = s.works /\ p.result = NoImage
      /\ ToSet(p.cache) \subseteq ToSet(s.cache)
  BY DEF Trims
<1>6. (\A r \in Owned(s) : r.id # m) /\ \A w \in s.works : m # w.id
  BY <1>2, <1>4 DEF Numbered
<1>7. v \notin p.works /\ Kept(p, 0 + Input)
  BY <1>3, <1>5, <1>6 DEF Input
<1>8. /\ Kept(u, 0) /\ Fits(u) = Fits(p) /\ Owned(u) = Owned(p) /\ u.works = p.works \cup {v}
      /\ u.controls = p.controls /\ u.cache = p.cache /\ u.live = p.live /\ u.result = p.result
  BY <1>3, <1>7, WorkJoins
<1> HIDE DEF u
<1>9. Owned(u) \subseteq Owned(s)
  <2>1. PICK r : r = NoImage
    OBVIOUS
  <2>2. Owned(p) \subseteq Owned(s) \cup ({r} \ {NoImage})
    BY <2>1, TrimmedOwned
  <2> QED BY <1>8, <2>1, <2>2
<1>10. Numbered(u, m)
  <2>1. ASSUME NEW r \in Owned(u) PROVE r.id <= m /\ r.id # m /\ \A w \in s.works : r.id # w.id
    <3>1. r \in Owned(s) /\ r \in Texture
      BY <1>4, <1>9
    <3>2. r.id \in Nat /\ r.id <= n /\ \A w \in s.works : r.id # w.id
      BY <1>4, <3>1 DEF Numbered, Texture
    <3> QED BY <1>2, <1>6, <3>1, <3>2
  <2>2. ASSUME NEW w \in s.works PROVE w.id <= m
    <3>1. w.id \in Nat /\ w.id <= n
      BY <1>4 DEF Numbered, WorkItem
    <3> QED BY <1>2, <3>1
  <2>3. \A w, x \in s.works : w.id = x.id => w = x
    BY <1>4 DEF Numbered
  <2>4. u.works = s.works \cup {v}
    BY <1>5, <1>8
  <2> QED BY <1>2, <1>3, <1>6, <2>1, <2>2, <2>3, <2>4 DEF Numbered
<1>11. Apart(u)
  <2>1. source \notin Private => /\ \A x \in ToSet(s.cache) : x.source # source
                                 /\ \A w \in s.works : w.source # source
    <3>1. source \notin Private => InCache(s, source) = {} /\ source \in Shared
      BY DEF IsCached, Remote
    <3> QED BY <3>1, NotCached DEF Joinable
  <2>2. \A x : Unseen(s, x) => Unseen(u, x)
    BY <1>5, <1>8 DEF Unseen
  <2>3. Unseen(u, v)
    BY <1>3, <1>5, <1>8, <2>1 DEF Unseen
  <2>4. ASSUME NEW w \in s.works
        PROVE  /\ w.source \in Remote /\ Unseen(u, w)
               /\ w.source \notin Private => \A x \in s.works \cup {v} : x.source = w.source => x = w
    BY <1>3, <1>4, <2>1, <2>2 DEF Apart
  <2>5. v.source \notin Private => \A x \in s.works \cup {v} : x.source = v.source => x = v
    BY <1>3, <2>1
  <2>6. u.works = s.works \cup {v}
    BY <1>5, <1>8
  <2> QED BY <1>3, <2>3, <2>4, <2>5, <2>6 DEF Apart
<1>12. Books(u, m)
  BY <1>4, <1>5, <1>8, <1>10, <1>11 DEF Books, Named
<1>13. Books(t, m) /\ t.works = u.works /\ t.controls = Subscribing(u.controls, c, n + 1)
  BY <1>2, <1>12, SubscribedDoes DEF me
<1> HIDE DEF t
<1>14. PICK W : W = s.works \cup {v}
  OBVIOUS
<1>15. Gains(s.works, W, v, v, Asker(n, c))
  BY <1>3, <1>14 DEF Gains, me
<1>16. Subs(t.controls, t.works, n + 1) /\ Shows(t.controls, t.works)
  BY <1>3, <1>5, <1>8, <1>13, <1>14, <1>15, JoinTells
<1> QED BY <1>1, <1>13, <1>16 DEF Well, t, u, v, me

\* request(), whatever becomes of it.
LEMMA RequestDoes ==
  ASSUME NEW s, NEW n \in Nat, Books(s, n), NEW c, NEW source \in Sources,
         Asking(s.controls, s.works, n, c, source), NEW decodes, NEW starts
  PROVE  Well(Request(s, source, Asker(n, c), decodes, starts), n + 1)
<1> DEFINE t == Request(s, source, Asker(n, c), decodes, starts)
           paid == Reserve(s, Input)
<1>1. CASE IsCached(s, source)
  BY <1>1, CachedDoes
<1>2. CASE ~IsCached(s, source) /\ source \notin Remote
  BY <1>2, LocalDoes
<1>3. CASE ~IsCached(s, source) /\ source \in Remote /\ Joinable(s, source) # {}
  BY <1>3, JoinDoes
<1>4. CASE ~IsCached(s, source) /\ source \in Remote /\ Joinable(s, source) = {}
  <2>1. \/ paid.held = 0 /\ t = Delivered(paid.s, {Asker(n, c)}, 0)
        \/ /\ paid.held # 0
           /\ t = Subscribed([paid.s EXCEPT !.works = @ \cup {Work(source, Asker(n, c))}],
                             Asker(n, c))
        \/ /\ paid.held # 0
           /\ t = Subscribed(Delivered(paid.s, {Asker(n, c)}, Input), Asker(n, c))
    BY <1>4 DEF Request, RequestRemote
  <2>2. Kept(s, 0) /\ s.result = NoImage /\ Input \in Nat
    BY BooksGive DEF Input
  <2>3. paid.held \in {0, Input} /\ Kept(paid.s, paid.held) /\ Fits(paid.s) /\ Trims(s, paid.s, NoImage)
    BY <2>2, ReserveKeeps
  <2>4. PICK p : p = paid.s
    OBVIOUS
  <2> HIDE DEF t, paid
  <2>5. Fits(p) /\ Trims(s, p, NoImage) /\ 0 \in Nat
    BY <2>3, <2>4
  <2>6. CASE paid.held = 0 /\ t = Delivered(paid.s, {Asker(n, c)}, 0)
    <3>1. Kept(p, 0) /\ t = Delivered(p, {Asker(n, c)}, 0)
      BY <2>3, <2>4, <2>6
    <3>2. Well(Delivered(p, {Asker(n, c)}, 0), n + 1)
      BY <2>5, <3>1, RefusedDoes
    <3> QED BY <3>1, <3>2 DEF t
  <2>7. CASE /\ paid.held # 0
             /\ t = Subscribed([paid.s EXCEPT !.works = @ \cup {Work(source, Asker(n, c))}],
                               Asker(n, c))
    <3>1. Kept(p, Input)
      BY <2>3, <2>4, <2>7
    <3> DEFINE u == [p EXCEPT !.works = @ \cup {Work(source, Asker(n, c))}]
    <3>2. Well(Subscribed(u, Asker(n, c)), n + 1)
      BY <1>4, <2>5, <3>1, StartDoes
    <3>3. t = Subscribed(u, Asker(n, c))
      BY <2>4, <2>7
    <3> HIDE DEF u
    <3> QED BY <3>2, <3>3 DEF t
  <2>8. CASE /\ paid.held # 0
             /\ t = Subscribed(Delivered(paid.s, {Asker(n, c)}, Input), Asker(n, c))
    <3>1. Kept(p, Input) /\ t = Subscribed(Delivered(p, {Asker(n, c)}, Input), Asker(n, c))
      BY <2>3, <2>4, <2>8
    <3>2. Well(Subscribed(Delivered(p, {Asker(n, c)}, Input), Asker(n, c)), n + 1)
      BY <2>2, <2>5, <3>1, RefusedDoes
    <3> QED BY <3>1, <3>2 DEF t
  <2> QED BY <2>1, <2>6, <2>7, <2>8
<1> QED BY <1>1, <1>2, <1>3, <1>4

-----------------------------------------------------------------------------
(* The invariant. *)

\* Nothing has been asked for.
LEMMA ImagesInvInit == ImagesInit => ImagesInv
<1> SUFFICES ASSUME ImagesInit PROVE ImagesInv
  OBVIOUS
<1>1. PICK s : s = images
  OBVIOUS
<1>2. s = [controls |-> [c \in Controls |-> Fresh], cache |-> <<>>, cached |-> 0,
           live |-> [x \in Sources |-> NoImage], works |-> {}, used |-> 0, result |-> NoImage]
  BY <1>1 DEF ImagesInit
<1>3. s \in Service
  <2>1. Fresh \in Control
    BY DEF Fresh, Control
  <2>2. <<>> \in Seq(Texture)
    OBVIOUS
  <2> QED BY <1>2, <2>1, <2>2 DEF Service
<1>4. /\ s.controls = [c \in Controls |-> Fresh] /\ s.cache = <<>> /\ s.cached = 0
      /\ s.live = [x \in Sources |-> NoImage] /\ s.works = {} /\ s.used = 0 /\ s.result = NoImage
  BY <1>2
<1>5. ToSet(s.cache) = {} /\ Distinct(s.cache)
  BY <1>4 DEF ToSet, Distinct
<1>6. \A c \in Controls : s.controls[c].image = NoImage
  BY <1>4 DEF Fresh
<1>7. Owned(s) = {}
  BY <1>4, <1>5, <1>6 DEF Owned
<1>8. IsFiniteSet(s.works) /\ Cardinality(s.works) = 0
  BY <1>4, FS_EmptySet
<1>9. Kept(s, 0)
  <2>1. s.used = Size(Owned(s)) + Input * Cardinality(s.works) + 0 /\ s.used <= MaximumBytes
    BY <1>4, <1>7, <1>8, SizeOfNone DEF Input
  <2>2. s.cached = Size(ToSet(s.cache))
    BY <1>4, <1>5, SizeOfNone
  <2> QED BY <1>3, <1>5, <1>8, <2>1, <2>2 DEF Kept
<1>10. Fits(s) /\ Numbered(s, 0) /\ Apart(s) /\ Named(s)
  BY <1>4, <1>7 DEF Fits, Numbered, Apart, Named
<1>11. Books(s, 0)
  BY <1>4, <1>9, <1>10 DEF Books
<1>12. Subs(s.controls, s.works, 0) /\ Shows(s.controls, s.works)
  BY <1>4 DEF Subs, Shows, ShowsIt, Fresh, NoImage
<1>13. loads = 0
  BY DEF ImagesInit
<1> QED BY <1>1, <1>11, <1>12, <1>13 DEF ImagesInv

\* Asking anew ends the earlier subscription of a control.
LEMMA AskedIs ==
  ASSUME NEW s, NEW n \in Nat, Well(s, n), NEW c \in Controls,
         NEW k \in [Controls -> Control], \A d \in Controls : d # c => k[d] = s.controls[d],
         k[c].subscription \in {0, k[c].token}, k[c].token \in {0, n + 1}
  PROVE  LET u == Cancel(s, s.controls[c].subscription)
         IN  /\ Books(u, n) /\ u.controls = s.controls
             /\ Subs(k, u.works, n + 1) /\ (k[c].token = 0 => Subs(k, u.works, n))
             /\ \A w \in u.works : \A x \in w.subscribers : x.token \in 1..n
             /\ \A d \in Controls : d # c => k[d].token <= n /\ ShowsIt(k, u.works, d)
<1> DEFINE u == Cancel(s, s.controls[c].subscription)
<1>1. PICK sub : sub = s.controls[c].subscription
  OBVIOUS
<1>2. Books(s, n) /\ Subs(s.controls, s.works, n) /\ Shows(s.controls, s.works)
  BY DEF Well
<1>3. /\ Books(u, n) /\ u.controls = s.controls /\ Subs(s.controls, u.works, n)
      /\ \A w \in u.works : \A x \in w.subscribers : x.token # sub
      /\ \A w \in s.works : \A x \in w.subscribers :
           x.token = sub \/ \E v \in u.works : x \in v.subscribers
  BY <1>1, <1>2, CancelDoes
<1> HIDE DEF u
<1>4. s.controls \in [Controls -> Control]
  BY <1>2, BooksGive
<1>5. ASSUME NEW w \in u.works, NEW x \in w.subscribers
      PROVE  x.token \in 1..n /\ x.control # c
  <2>1. x.token \in 1..n
    BY <1>3 DEF Subs
  <2>2. ASSUME x.control = c PROVE FALSE
    <3>1. c # NoSource
      OBVIOUS
    <3>2. s.controls[c].waiting /\ x.token = s.controls[c].token
      BY <1>3, <2>2, <3>1 DEF Subs
    <3>3. sub = s.controls[c].token
      BY <1>1, <1>2, <3>2 DEF Shows, ShowsIt
    <3> QED BY <1>3, <3>2, <3>3
  <2> QED BY <2>1, <2>2
<1>6. ASSUME NEW d \in Controls, d # c
      PROVE  /\ k[d] = s.controls[d] /\ k[d].token \in Nat /\ k[d].token <= n
             /\ k[d].subscription \in {0, k[d].token}
  <2>1. s.controls[d].token <= n /\ s.controls[d].subscription \in {0, s.controls[d].token}
    BY <1>2 DEF Subs
  <2>2. s.controls[d].token \in Nat
    BY <1>4 DEF Control
  <2> QED BY <1>6, <2>1, <2>2
<1>7. ASSUME NEW w \in u.works, NEW x \in w.subscribers
      PROVE  /\ x.control # NoSource =>
                  /\ x.control \in Controls /\ k[x.control].waiting
                  /\ x.token = k[x.control].token /\ w.source = k[x.control].source
             /\ \A v \in u.works : \A y \in v.subscribers : x.token = y.token => v = w /\ x = y
             /\ \A d \in Controls : x.token = k[d].token => x.control = d
  <2>1. /\ x.control # NoSource =>
             /\ x.control \in Controls /\ s.controls[x.control].waiting
             /\ x.token = s.controls[x.control].token /\ w.source = s.controls[x.control].source
        /\ \A v \in u.works : \A y \in v.subscribers : x.token = y.token => v = w /\ x = y
        /\ \A d \in Controls : x.token = s.controls[d].token => x.control = d
    BY <1>3 DEF Subs
  <2>2. x.token # k[c].token
    BY <1>5
  <2> QED BY <1>5, <1>6, <2>1, <2>2
<1>8. \A m \in {n, n + 1} : k[c].token <= m => Subs(k, u.works, m)
  <2> SUFFICES ASSUME NEW m \in {n, n + 1}, k[c].token <= m PROVE Subs(k, u.works, m)
    OBVIOUS
  <2>1. \A w \in u.works : \A x \in w.subscribers : x.token \in 1..m
    BY <1>5
  <2>2. ASSUME NEW d \in Controls
        PROVE  k[d].token <= m /\ k[d].subscription \in {0, k[d].token}
    <3>1. CASE d = c
      BY <3>1
    <3>2. CASE d # c
      BY <1>6, <3>2
    <3> QED BY <3>1, <3>2
  <2>3. ASSUME NEW d \in Controls, NEW e \in Controls, k[d].token = k[e].token, k[d].token # 0
        PROVE  d = e
    <3>1. CASE d # c /\ e # c
      BY <1>2, <1>6, <2>3, <3>1 DEF Subs
    <3>2. CASE d = c /\ e # c
      <4>1. k[c].token = n + 1 /\ k[e].token <= n /\ k[e].token \in Nat
        BY <1>6, <2>3, <3>2
      <4> QED BY <2>3, <3>2, <4>1
    <3>3. CASE d # c /\ e = c
      <4>1. k[c].token = n + 1 /\ k[d].token <= n /\ k[d].token \in Nat
        BY <1>6, <2>3, <3>3
      <4> QED BY <2>3, <3>3, <4>1
    <3> QED BY <3>1, <3>2, <3>3
  <2> QED BY <1>7, <2>1, <2>2, <2>3 DEF Subs
<1>9. Subs(k, u.works, n + 1) /\ (k[c].token = 0 => Subs(k, u.works, n))
  <2>1. k[c].token <= n + 1 /\ (k[c].token = 0 => k[c].token <= n)
    OBVIOUS
  <2> QED BY <1>8, <2>1
<1>10. ASSUME NEW d \in Controls, d # c PROVE k[d].token <= n /\ ShowsIt(k, u.works, d)
  <2>1. ShowsIt(s.controls, s.works, d)
    BY <1>2 DEF Shows
  <2>2. k[d] = s.controls[d] /\ Me(k, d) = Me(s.controls, d)
    BY <1>6, <1>10 DEF Me
  <2>3. ASSUME NEW w \in s.works, Me(s.controls, d) \in w.subscribers
        PROVE  \E v \in u.works : Me(s.controls, d) \in v.subscribers
    <3>1. Me(s.controls, d).token = s.controls[d].token /\ s.controls[d].token \in 1..n
      BY <1>2, <2>3 DEF Me, Subs
    <3>2. s.controls[d].token # sub
      <4>1. sub \in {0, s.controls[c].token}
        BY <1>1, <1>2 DEF Subs
      <4>2. s.controls[d].token = s.controls[c].token /\ s.controls[d].token # 0 => d = c
        BY <1>2 DEF Subs
      <4>3. s.controls[d].token # 0
        BY <3>1
      <4> QED BY <1>10, <4>1, <4>2, <4>3
    <3> QED BY <1>3, <2>3, <3>1, <3>2
  <2> QED BY <1>6, <1>10, <2>1, <2>2, <2>3 DEF ShowsIt
<1> QED BY <1>3, <1>5, <1>9, <1>10 DEF u

\* A control asks for another source.
LEMMA LoadStep ==
  ASSUME ImagesInv, NEW c \in Controls, NEW source \in Sources, Load(c, source)
  PROVE  ImagesInv'
<1>1. PICK s : s = images
  OBVIOUS
<1>2. PICK n : n = loads
  OBVIOUS
<1>3. n \in Nat /\ Well(s, n) /\ Books(s, n)
  BY <1>1, <1>2 DEF ImagesInv, Well
<1>4. PICK control : control = [s.controls[c] EXCEPT
                        !.source = source, !.token = n + 1, !.subscription = 0,
                        !.waiting = TRUE, !.failed = FALSE]
  OBVIOUS
<1>5. PICK k : k = [s.controls EXCEPT ![c] = control]
  OBVIOUS
<1>6. s.controls \in [Controls -> Control] /\ s.controls[c] \in Control
  BY <1>3, BooksGive
<1>7. /\ control \in Control /\ control.image = s.controls[c].image /\ control.token = n + 1
      /\ control.source = source /\ control.subscription = 0 /\ control.waiting = TRUE
  <2>1. PICK old : old = s.controls[c]
    OBVIOUS
  <2>2. PICK token : token = n + 1
    OBVIOUS
  <2>3. old \in Control /\ token \in Nat
    BY <1>3, <1>6, <2>1, <2>2
  <2>4. control = [old EXCEPT !.source = source, !.token = token, !.subscription = 0,
                              !.waiting = TRUE, !.failed = FALSE]
    BY <1>4, <2>1, <2>2
  <2> QED BY <2>1, <2>2, <2>3, <2>4 DEF Control
<1>8. k \in [Controls -> Control] /\ k[c] = control /\ \A d \in Controls : d # c => k[d] = s.controls[d]
  BY <1>5, <1>6, <1>7
<1> DEFINE u == Cancel(s, s.controls[c].subscription)
<1>9. /\ Books(u, n) /\ u.controls = s.controls
      /\ Subs(k, u.works, n + 1)
      /\ \A w \in u.works : \A x \in w.subscribers : x.token \in 1..n
      /\ \A d \in Controls : d # c => k[d].token <= n /\ ShowsIt(k, u.works, d)
  BY <1>3, <1>7, <1>8, AskedIs
<1> DEFINE asked == [u EXCEPT !.controls[c] =
                       [@ EXCEPT !.source = source, !.token = loads + 1, !.subscription = 0,
                                 !.waiting = TRUE, !.failed = FALSE]]
<1>10. PICK decodes, starts \in BOOLEAN :
         images' = Request(asked, source, [control |-> c, token |-> loads + 1], decodes, starts)
  BY <1>1 DEF Load
<1>11. asked = [u EXCEPT !.controls = k]
  <2> HIDE DEF u
  <2> QED BY <1>2, <1>4, <1>5, <1>9
<1>12. images' = Request(asked, source, Asker(n, c), decodes, starts)
  BY <1>2, <1>10 DEF Asker
<1> HIDE DEF u, asked
<1>13. \A d \in Controls : k[d].image = u.controls[d].image
  BY <1>7, <1>8, <1>9
<1>14. Books(asked, n) /\ asked.works = u.works /\ asked.controls = k
  BY <1>8, <1>9, <1>11, <1>13, BooksAsked
<1>15. Asking(asked.controls, asked.works, n, c, source)
  BY <1>3, <1>7, <1>8, <1>9, <1>14 DEF Asking
<1>16. Well(images', n + 1)
  BY <1>3, <1>12, <1>14, <1>15, RequestDoes
<1>17. loads' = n + 1 /\ loads' \in Nat
  BY <1>2, <1>3 DEF Load
<1> QED BY <1>16, <1>17 DEF ImagesInv, Well

\* A control that shows nothing any more.
LEMMA UnloadStep ==
  ASSUME ImagesInv, NEW c \in Controls, Unload(c)
  PROVE  ImagesInv'
<1>1. PICK s : s = images
  OBVIOUS
<1>2. PICK n : n = loads
  OBVIOUS
<1>3. n \in Nat /\ Well(s, n) /\ Books(s, n)
  BY <1>1, <1>2 DEF ImagesInv, Well
<1>4. PICK k : k = [s.controls EXCEPT ![c] = Fresh]
  OBVIOUS
<1>5. s.controls \in [Controls -> Control]
  BY <1>3, BooksGive
<1>6. Fresh \in Control /\ Fresh.token = 0 /\ Fresh.subscription = 0
  BY DEF Fresh, Control
<1>7. k \in [Controls -> Control] /\ k[c] = Fresh /\ \A d \in Controls : d # c => k[d] = s.controls[d]
  BY <1>4, <1>5, <1>6
<1> DEFINE u == Cancel(s, s.controls[c].subscription)
<1>8. /\ Books(u, n) /\ u.controls = s.controls /\ Subs(k, u.works, n)
      /\ \A d \in Controls : d # c => ShowsIt(k, u.works, d)
  BY <1>3, <1>6, <1>7, AskedIs
<1> DEFINE v == [u EXCEPT !.controls[c] = Fresh]
           t == Dropped(u, v)
<1>9. images' = t
  BY <1>1 DEF Unload
<1> HIDE DEF u
<1>10. v = [u EXCEPT !.controls = k]
  BY <1>4, <1>8
<1>11. /\ Kept(u, 0) /\ Fits(u) /\ u.result = NoImage /\ Numbered(u, n) /\ Apart(u) /\ Named(u)
       /\ u \in Service /\ u.works \in SUBSET WorkItem
  BY <1>8, BooksGive
<1>12. /\ v \in Service /\ v.controls = k /\ v.cache = u.cache /\ v.cached = u.cached
       /\ v.live = u.live /\ v.works = u.works /\ v.used = u.used /\ v.result = u.result
  BY <1>7, <1>10, <1>11 DEF Service
<1> HIDE DEF v
<1>13. Owned(v) \subseteq Owned(u)
  <2>1. \A d \in Controls : k[d].image \in {u.controls[d].image, NoImage}
    BY <1>7, <1>8 DEF Fresh
  <2> QED BY <1>12, <2>1 DEF Owned
<1>14. Kept(t, 0) /\ SameButUsed(v, t) /\ Owned(t) = Owned(v)
  <2>1. Distinct(v.cache) /\ v.cached = Size(ToSet(v.cache))
    BY <1>11, <1>12 DEF Kept
  <2> QED BY <1>11, <1>12, <1>13, <2>1, DropKeeps
<1> HIDE DEF t
<1>15. /\ t.controls = k /\ t.cache = u.cache /\ t.cached = u.cached /\ t.live = u.live
       /\ t.works = u.works /\ t.result = u.result
  BY <1>12, <1>14 DEF SameButUsed
<1>16. Books(t, n)
  BY <1>11, <1>13, <1>14, <1>15 DEF Books, Fits, Numbered, Apart, Unseen, Named
<1>17. Shows(k, u.works)
  <2>1. ShowsIt(k, u.works, c)
    BY <1>7 DEF ShowsIt, Fresh, NoImage
  <2> QED BY <1>8, <2>1 DEF Shows
<1>18. loads' = n
  BY <1>2 DEF Unload
<1> QED BY <1>3, <1>8, <1>9, <1>15, <1>16, <1>17, <1>18 DEF ImagesInv

\* The loader asks for a source, and nobody waits for it.
LEMMA LoadImageStep ==
  ASSUME ImagesInv, NEW source \in Sources, LoadImage(source)
  PROVE  ImagesInv'
<1>1. PICK s : s = images
  OBVIOUS
<1>2. PICK n : n = loads
  OBVIOUS
<1>3. n \in Nat /\ Books(s, n) /\ Subs(s.controls, s.works, n) /\ Shows(s.controls, s.works)
  BY <1>1, <1>2 DEF ImagesInv
<1>4. s.controls \in [Controls -> Control]
  BY <1>3, BooksGive
<1>5. Subs(s.controls, s.works, n + 1)
  <2>1. \A d \in Controls : s.controls[d].token <= n + 1
    BY <1>3, <1>4 DEF Subs, Control
  <2>2. \A x \in 1..n : x \in 1..n + 1
    BY <1>3
  <2> QED BY <1>3, <2>1, <2>2 DEF Subs
<1>6. Asking(s.controls, s.works, n, NoSource, source)
  BY <1>3, <1>4, <1>5 DEF Asking, Subs, Shows
<1>7. PICK decodes, starts \in BOOLEAN :
        images' = Request(s, source, Asker(n, NoSource), decodes, starts)
  BY <1>1, <1>2 DEF LoadImage, Asker
<1>8. Well(images', n + 1)
  BY <1>3, <1>6, <1>7, RequestDoes
<1>9. loads' = n + 1 /\ loads' \in Nat
  BY <1>2, <1>3 DEF LoadImage
<1> QED BY <1>8, <1>9 DEF ImagesInv, Well

\* The status of a source touches what is cached.
LEMMA GetCacheStatusStep ==
  ASSUME ImagesInv, NEW source \in Sources, GetCacheStatus(source)
  PROVE  ImagesInv'
<1>1. PICK s : s = images
  OBVIOUS
<1>2. PICK n : n = loads
  OBVIOUS
<1>3. PICK t : t = images'
  OBVIOUS
<1>4. n \in Nat /\ Books(s, n) /\ Subs(s.controls, s.works, n) /\ Shows(s.controls, s.works)
  BY <1>1, <1>2 DEF ImagesInv
<1>5. t = Accessed(s, source) /\ loads' = n
  BY <1>1, <1>2, <1>3 DEF GetCacheStatus
<1>6. /\ Kept(s, 0) /\ Fits(s) /\ s.result = NoImage /\ Numbered(s, n) /\ Apart(s) /\ Named(s)
      /\ s.works \in SUBSET WorkItem
  BY <1>4, BooksGive
<1>7. /\ Kept(t, 0) /\ Trims(s, t, s.result) /\ Fits(t) /\ Owned(t) = Owned(s)
      /\ ToSet(t.cache) = ToSet(s.cache)
  BY <1>5, <1>6, AccessKeeps
<1>8. /\ t.controls = s.controls /\ t.live = s.live /\ t.works = s.works /\ t.result = NoImage
  BY <1>6, <1>7 DEF Trims
<1>9. Books(t, n)
  BY <1>6, <1>7, <1>8 DEF Books, Numbered, Apart, Unseen, Named
<1> QED BY <1>3, <1>4, <1>5, <1>8, <1>9 DEF ImagesInv

\* A request gets its slot.
LEMMA LeaseStep ==
  ASSUME ImagesInv, NEW w \in images.works, Lease(w)
  PROVE  ImagesInv'
<1>1. PICK s : s = images
  OBVIOUS
<1>2. PICK n : n = loads
  OBVIOUS
<1>3. n \in Nat /\ Books(s, n) /\ Subs(s.controls, s.works, n) /\ Shows(s.controls, s.works)
  BY <1>1, <1>2 DEF ImagesInv
<1>4. PICK v : v = [w EXCEPT !.active = TRUE]
  OBVIOUS
<1>5. w \in s.works /\ w \in WorkItem
  BY <1>1, <1>3, BooksGive
<1>6. v \in WorkItem /\ v.id = w.id /\ v.source = w.source /\ v.subscribers = w.subscribers
  BY <1>4, <1>5 DEF WorkItem
<1> DEFINE t == [s EXCEPT !.works = (@ \ {w}) \cup {v}]
<1>7. images' = t /\ loads' = n
  BY <1>1, <1>2, <1>4 DEF Lease
<1>8. Books(t, n) /\ t.works = (s.works \ {w}) \cup {v} /\ t.controls = s.controls
  BY <1>3, <1>5, <1>6, BooksReplace
<1> HIDE DEF t
<1>9. Subs(s.controls, (s.works \ {w}) \cup {v}, n)
  <2>1. v.subscribers \subseteq w.subscribers
    BY <1>6
  <2> QED BY <1>3, <1>5, <1>6, <2>1, SubsReplace
<1>10. Shows(s.controls, (s.works \ {w}) \cup {v})
  <2>1. \A o \in s.works : \A x \in o.subscribers : \E u \in (s.works \ {w}) \cup {v} : x \in u.subscribers
    BY <1>6
  <2>2. PICK W : W = (s.works \ {w}) \cup {v}
    OBVIOUS
  <2> QED BY <1>3, <2>1, <2>2 DEF Shows, ShowsIt
<1> QED BY <1>3, <1>7, <1>8, <1>9, <1>10 DEF ImagesInv

\* A request ends.
LEMMA FinishStep ==
  ASSUME ImagesInv, NEW w \in images.works, Finish(w)
  PROVE  ImagesInv'
<1>1. PICK i : i = images
  OBVIOUS
<1>2. PICK n : n = loads
  OBVIOUS
<1>3. n \in Nat /\ Books(i, n) /\ Subs(i.controls, i.works, n) /\ Shows(i.controls, i.works)
  BY <1>1, <1>2 DEF ImagesInv
<1>4. PICK s : s = [i EXCEPT !.works = @ \ {w}]
  OBVIOUS
<1>5. PICK arrives, decodes, cacheable \in BOOLEAN :
        LET done == IF arrives THEN Decode(s, w.source, w.id, Input, decodes) ELSE Failed(s, Input)
        IN  images' = IF w.subscribers = {} THEN Release(s, Input)
                      ELSE Delivered(Remember(done.s, cacheable), w.subscribers, done.held)
  BY <1>1, <1>4 DEF Finish
<1>6. loads' = n
  BY <1>2 DEF Finish
<1>7. w \in i.works /\ w \in WorkItem /\ w.id \in Nat \ {0} /\ w.source \in Sources
  BY <1>1, <1>3, BooksGive DEF WorkItem
<1>8. s.works \in SUBSET i.works /\ \A v \in i.works : v = w \/ v \in s.works
  <2>1. s.works = i.works \ {w}
    BY <1>3, <1>4, <1>7, BooksWithout
  <2> QED BY <2>1
<1>9. Subs(i.controls, s.works, n)
  BY <1>3, <1>8, SubsSubset
<1>10. CASE w.subscribers = {}
  <2>1. images' = Release([i EXCEPT !.works = @ \ {w}], Input)
    BY <1>4, <1>5, <1>10
  <2>2. Books(images', n) /\ images'.works = i.works \ {w} /\ images'.controls = i.controls
    BY <1>3, <1>7, <2>1, BooksDrop
  <2>3. images'.works = s.works
    BY <1>3, <1>4, <1>7, <2>2, BooksWithout
  <2>4. Shows(i.controls, s.works)
    BY <1>3, <1>8, <1>10 DEF Shows, ShowsIt
  <2> QED BY <1>3, <1>6, <1>9, <2>2, <2>3, <2>4 DEF ImagesInv
<1>11. CASE w.subscribers # {}
  <2> DEFINE done == IF arrives THEN Decode(s, w.source, w.id, Input, decodes) ELSE Failed(s, Input)
  <2>1. images' = Delivered(Remember(done.s, cacheable), w.subscribers, done.held)
    BY <1>5, <1>11
  <2>2. /\ Kept(s, Input) /\ Fits(s) /\ s.result = NoImage
        /\ Numbered(s, n) /\ Apart(s) /\ Named(s) /\ Unseen(s, w)
        /\ s.works = i.works \ {w} /\ s.controls = i.controls
        /\ w.id <= n /\ (\A r \in Owned(s) : r.id # w.id)
        /\ \A v \in s.works : /\ v.id # w.id
                              /\ v.source \notin Private => v.source # w.source
    BY <1>3, <1>4, <1>7, BooksWithout
  <2>3. /\ done.held \in Nat /\ Kept(done.s, done.held) /\ Fits(done.s)
        /\ Trims(s, done.s, done.s.result)
        /\ done.s.result \in {NoImage, [id |-> w.id, source |-> w.source]}
    <3>1. CASE arrives
      <4>1. PICK id : id = w.id
        OBVIOUS
      <4>2. PICK source : source = w.source
        OBVIOUS
      <4>3. done = Decode(s, source, id, Input, decodes)
        BY <3>1, <4>1, <4>2
      <4> HIDE DEF done
      <4> QED BY <1>7, <2>2, <4>1, <4>2, <4>3, DecodeKeeps
    <3>2. CASE ~arrives
      <4>1. done.s = s /\ done.held = Input
        BY <3>2 DEF Failed
      <4> HIDE DEF done
      <4> QED BY <2>2, <4>1 DEF Trims, Input
    <3> QED BY <3>1, <3>2
  <2> HIDE DEF done
  <2>4. PICK p : p = done.s
    OBVIOUS
  <2>5. PICK held : held = done.held
    OBVIOUS
  <2>6. PICK id : id = w.id
    OBVIOUS
  <2>7. PICK source : source = w.source
    OBVIOUS
  <2>8. PICK subscribers : subscribers = w.subscribers
    OBVIOUS
  <2> DEFINE t == Delivered(Remember(p, cacheable), subscribers, held)
  <2>9. /\ Books(t, n) /\ t.works = s.works
        /\ t.controls = Answers(s.controls, subscribers, p.result)
        /\ p.result = NoImage \/ p.result.source = source
    <3>1. /\ held \in Nat /\ Kept(p, held) /\ Fits(p) /\ Trims(s, p, p.result)
          /\ p.result \in {NoImage, [id |-> id, source |-> source]}
      BY <2>3, <2>4, <2>5, <2>6, <2>7
    <3>2. /\ Numbered(s, n) /\ Apart(s) /\ Named(s) /\ source \in Sources /\ id \in Nat \ {0}
          /\ id <= n /\ n <= n
      BY <1>3, <1>7, <2>2, <2>6, <2>7
    <3>3. \A v \in s.works : id # v.id /\ (v.source \notin Private => v.source # source)
      BY <2>2, <2>6, <2>7
    <3>4. source \notin Private => \A x \in ToSet(s.cache) : x.source # source
      BY <2>2, <2>7 DEF Unseen
    <3> QED BY <1>3, <3>1, <3>2, <3>3, <3>4, LoadDoes
  <2>10. images' = t
    BY <2>1, <2>4, <2>5, <2>8
  <2> HIDE DEF t
  <2>11. PICK r : r = p.result
    OBVIOUS
  <2>12. PICK controls : controls = i.controls
    OBVIOUS
  <2>13. controls \in [Controls -> Control] /\ Subs(controls, s.works, n)
    BY <1>3, <1>9, <2>12, BooksGive
  <2>14. \A v \in s.works : \A x \in v.subscribers : \A y \in subscribers : x.token # y.token
    BY <1>3, <1>7, <1>8, <2>2, <2>8 DEF Subs
  <2>15. ASSUME NEW c \in Controls
         PROVE  /\ Me(controls, c) \in subscribers \/ ShowsIt(controls, s.works, c)
                /\ Me(controls, c) \in subscribers => r = NoImage \/ r.source = controls[c].source
    <3>1. ShowsIt(controls, i.works, c)
      BY <1>3, <2>12 DEF Shows
    <3>2. Me(controls, c) \in subscribers \/ ShowsIt(controls, s.works, c)
      BY <1>8, <2>8, <3>1 DEF ShowsIt
    <3>3. ASSUME Me(controls, c) \in subscribers PROVE controls[c].source = source
      <4>1. Me(controls, c).control = c /\ c # NoSource
        BY DEF Me
      <4> QED BY <1>3, <1>7, <2>7, <2>8, <2>12, <3>3, <4>1 DEF Subs
    <3> QED BY <2>9, <2>11, <3>2, <3>3
  <2>16. t.controls = Answers(controls, subscribers, r)
    BY <2>2, <2>9, <2>11, <2>12
  <2>17. Subs(t.controls, s.works, n) /\ Shows(t.controls, s.works)
    BY <2>13, <2>14, <2>15, <2>16, AnswerTells
  <2> QED BY <1>3, <1>6, <2>9, <2>10, <2>17 DEF ImagesInv
<1> QED BY <1>10, <1>11

\* The invariant is inductive.
LEMMA ImagesInvNext == ImagesInv /\ [ImagesNext]_imageVars => ImagesInv'
<1> SUFFICES ASSUME ImagesInv, [ImagesNext]_imageVars PROVE ImagesInv'
  OBVIOUS
<1>1. CASE \E c \in Controls : Unload(c)
  BY <1>1, UnloadStep
<1>2. CASE \E c \in Controls : \E source \in Sources : Load(c, source)
  BY <1>2, LoadStep
<1>3. CASE \E source \in Sources : LoadImage(source)
  BY <1>3, LoadImageStep
<1>4. CASE \E source \in Sources : GetCacheStatus(source)
  BY <1>4, GetCacheStatusStep
<1>5. CASE \E w \in images.works : Lease(w)
  BY <1>5, LeaseStep
<1>6. CASE \E w \in images.works : Finish(w)
  BY <1>6, FinishStep
<1>7. CASE UNCHANGED imageVars
  BY <1>7 DEF ImagesInv, imageVars
<1> QED BY <1>1, <1>2, <1>3, <1>4, <1>5, <1>6, <1>7 DEF ImagesNext

\* The books say what a service reserves and what its cache holds.
LEMMA BooksAreKept == ImagesInv => BudgetIsKept
<1> SUFFICES ASSUME ImagesInv PROVE BudgetIsKept
  OBVIOUS
<1>1. Kept(images, 0) /\ Fits(images)
  BY DEF ImagesInv, Books
<1>2. /\ images.used \in Nat /\ Size(Owned(images)) \in Nat
      /\ Input * Cardinality(images.works) \in Nat
      /\ images.used = Size(Owned(images)) + Input * Cardinality(images.works) + 0
  BY <1>1, KeptNumbers
<1>3. images.used = Size(Owned(images)) + Input * Cardinality(images.works)
  BY <1>2
<1> QED BY <1>1, <1>3 DEF BudgetIsKept, Kept, Fits, Distinct

\* A control that waits is a subscriber of one request, of its source.
LEMMA SubscribersAreShown == ImagesInv => ShowsWhatItAsked
<1> SUFFICES ASSUME ImagesInv, NEW c \in Controls
             PROVE  LET control == images.controls[c]
                        me == [control |-> c, token |-> control.token]
                    IN  IF control.waiting
                        THEN \E w \in images.works : \A v \in images.works :
                               /\ control.subscription = control.token
                               /\ w.source = control.source
                               /\ me \in v.subscribers <=> v = w
                        ELSE /\ \A w \in images.works : me \notin w.subscribers
                             /\ control.failed \/ control.image.source = control.source
  BY DEF ShowsWhatItAsked
<1> DEFINE me == Me(images.controls, c)
<1>1. /\ Subs(images.controls, images.works, loads) /\ ShowsIt(images.controls, images.works, c)
      /\ me.control = c /\ me.token = images.controls[c].token /\ c # NoSource
  BY DEF ImagesInv, Shows, Me
<1>2. me = [control |-> c, token |-> images.controls[c].token]
  BY DEF Me
<1> HIDE DEF me
<1>3. ASSUME NEW w \in images.works, me \in w.subscribers
      PROVE  /\ images.controls[c].waiting /\ w.source = images.controls[c].source
             /\ \A v \in images.works : me \in v.subscribers => v = w
  BY <1>1, <1>3 DEF Subs
<1>4. CASE images.controls[c].waiting
  <2>1. PICK w \in images.works : me \in w.subscribers
    BY <1>1, <1>4 DEF ShowsIt, me
  <2>2. images.controls[c].subscription = images.controls[c].token
    BY <1>1, <1>4 DEF ShowsIt
  <2> QED BY <1>2, <1>3, <1>4, <2>1, <2>2
<1>5. CASE ~images.controls[c].waiting
  BY <1>1, <1>2, <1>3, <1>5 DEF ShowsIt
<1> QED BY <1>4, <1>5

\* The budget counts what the requests under way and the textures somebody owns have reserved,
\* and never more than there is, and the cache keeps within its share (RNImageReservation and
\* RNImageService::evict, decode and finish).
THEOREM BudgetIsAlwaysKept == ImagesSpec => []BudgetIsKept
<1>1. ImagesSpec => []ImagesInv
  BY ImagesInvInit, ImagesInvNext, PTL DEF ImagesSpec
<1> QED BY <1>1, BooksAreKept, PTL

\* A control that waits is a subscriber of exactly one request, for the source it asked for
\* last; one that does not was told of a failure or shows that source (RNImageControl::load and
\* _loaded, RNImageService::cancel).
THEOREM ControlsShowWhatTheyAsked == ImagesSpec => []ShowsWhatItAsked
<1>1. ImagesSpec => []ImagesInv
  BY ImagesInvInit, ImagesInvNext, PTL DEF ImagesSpec
<1> QED BY <1>1, SubscribersAreShown, PTL
=============================================================================
