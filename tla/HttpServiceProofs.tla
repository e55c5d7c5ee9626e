--------------------------- MODULE HttpServiceProofs ---------------------------
(***************************************************************************)
(* Theorems of HttpService, for any settings and any requests.              *)
(*                                                                         *)
(* The invariants are stated of values, as operators of the pool, the       *)
(* requests, the queue and Godot's messages, and proved of the helpers that *)
(* change them (quarantine, lease, settle); an action puts them together.   *)
(***************************************************************************)
EXTENDS HttpService, SumTheorems, FunctionTheorems, TLAPS

USE SettingsAssumption, SpecsAssumption

Request == [body : Nat, limit : 0..MaxBuffered, timed : BOOLEAN, due : BOOLEAN,
            redirects : 0..MaxRedirects, cancelled : BOOLEAN]

\* The types of all but the budget.
HttpTypes ==
  /\ requests \in [Live -> Request]
  /\ waiting \in Seq(Ids)
  /\ slots \in Seq(Slot) /\ Len(slots) <= MaxActive
  /\ nextId \in 1..(MaxRequests + 1)
  /\ closed \in BOOLEAN /\ inTree \in BOOLEAN
  /\ deferred \in Seq(Messages)
  /\ stack \in Seq(Frames)
  /\ outcome \in [Ids -> Outcomes]

InUse(slot) == slot.state # "idle"
Leased(slot) == slot.state = "leased"
Waits(w, id) == \E k \in 1..Len(w) : w[k] = id
Distinct(w) == \A k, l \in 1..Len(w) : w[k] = w[l] => k = l

\* The pool: no two slots in use have a request in common, and each has its node; a worker
\* that carries a request out does so for the slot's lease.
PoolIsSound(s) ==
  /\ \A i, j \in 1..Len(s) :
       InUse(s[i]) /\ InUse(s[j]) /\ s[i].request = s[j].request => i = j
  /\ \A i \in 1..Len(s) : /\ InUse(s[i]) => s[i].node # 0
                          /\ s[i].wire # 0 => Leased(s[i]) /\ s[i].wire = s[i].sequence
                          /\ s[i].node <= s[i].sequence

\* Requests: a leased one is live, and neither cancelled nor in the queue as well; a live one
\* waits or is leased, and a cancelled one has a slot that drains.
RequestsAreHeld(rs, w, s, n) ==
  /\ \A id \in DOMAIN rs : id \in Ids /\ id < n
  /\ Distinct(w) /\ \A k \in 1..Len(w) : w[k] < n
  /\ \A i \in 1..Len(s) : InUse(s[i]) => s[i].request < n
  /\ \A i \in 1..Len(s) : Leased(s[i]) =>
       /\ s[i].request \in DOMAIN rs /\ ~rs[s[i].request].cancelled
       /\ ~Waits(w, s[i].request)
  /\ \A id \in DOMAIN rs :
       IF rs[id].cancelled THEN \E i \in 1..Len(s) : InUse(s[i]) /\ s[i].request = id
       ELSE Waits(w, id) \/ \E i \in 1..Len(s) : Leased(s[i]) /\ s[i].request = id

\* Messages: of a node that its slot still has, a completion is of the current lease, and
\* while that one drains it is ahead of the _drained call that ends it.
MessagesAreOwn(s, d) ==
  /\ \A k \in 1..Len(d) : d[k].slot \in 1..Len(s)
  /\ \A k \in 1..Len(d) : d[k].kind = "drained" =>
       /\ d[k].sequence <= s[d[k].slot].sequence
       /\ Leased(s[d[k].slot]) => d[k].sequence # s[d[k].slot].sequence
       /\ \A l \in 1..Len(d) :
            d[l].kind = "drained" /\ d[l].slot = d[k].slot /\ d[l].sequence = d[k].sequence => k = l
  /\ \A k \in 1..Len(d) : d[k].kind = "done" =>
       /\ d[k].node # 0 /\ d[k].node <= s[d[k].slot].sequence
       /\ d[k].node = s[d[k].slot].node =>
            /\ InUse(s[d[k].slot]) /\ d[k].sent = s[d[k].slot].sequence
            /\ Leased(s[d[k].slot]) \/ \E l \in 1..Len(d) :
                 /\ k < l /\ d[l].kind = "drained" /\ d[l].slot = d[k].slot
                 /\ d[l].sequence = s[d[k].slot].sequence

\* Idle slots that keep a node; one that was drained a moment ago is still to be looked at.
IdleNodes(s) == {i \in 1..Len(s) : s[i].state = "idle" /\ s[i].node # 0}
Drainees(st) == {st[k].slot : k \in {l \in 1..Len(st) : st[l].at = "trim"}}
TrimIsLast(st) == \A k \in 1..Len(st) : st[k].at = "trim" => k = Len(st) /\ st[k].node # 0
PoolIsTrimmed(s, st) ==
  /\ TrimIsLast(st)
  /\ Cardinality(IdleNodes(s) \ Drainees(st)) <= MaxIdle

\* A request that has not ended has no outcome.
OutcomesAreLast ==
  \A id \in Ids : id \in Live \/ id >= nextId => outcome[id] = "none"

HttpInv ==
  /\ HttpTypes
  /\ PoolIsSound(slots)
  /\ RequestsAreHeld(requests, waiting, slots, nextId)
  /\ MessagesAreOwn(slots, deferred)
  /\ PoolIsTrimmed(slots, stack)
  /\ OutcomesAreLast

-----------------------------------------------------------------------------
(* Sequences and numbers. *)

\* The least number of a set is in it.
LEMMA MinIsIn ==
  ASSUME NEW S \in SUBSET Nat, S # {}
  PROVE  Min(S) \in S /\ \A y \in S : Min(S) <= y
<1>1. IsWellFoundedOn(OpToRel(<, Nat), Nat)
  BY NatLessThanWellFounded
<1>2. PICK x \in S : \A y \in S : ~(<<y, x>> \in OpToRel(<, Nat))
  BY <1>1, WFMin
<1>3. \A y \in S : ~(y < x)
  BY <1>2 DEF OpToRel
<1>4. \A y \in S : x <= y
  BY <1>3
<1> QED BY <1>4 DEF Min

\* A sequence with one more behind it, or with nothing.
LEMMA WithLast ==
  ASSUME NEW S, NEW d \in Seq(S), NEW m \in S
  PROVE  /\ d \o <<>> = d /\ Append(d, m) = d \o <<m>>
         /\ d \o <<m>> \in Seq(S) /\ Len(d \o <<m>>) = Len(d) + 1 /\ Len(d) \in Nat
         /\ \A k \in 1..Len(d) : (d \o <<m>>)[k] = d[k]
         /\ (d \o <<m>>)[Len(d) + 1] = m
OBVIOUS

\* A sequence without its first.
LEMMA WithoutFirst ==
  ASSUME NEW S, NEW d \in Seq(S), d # <<>>
  PROVE  /\ Tail(d) \in Seq(S) /\ Len(Tail(d)) = Len(d) - 1 /\ Len(d) \in Nat \ {0}
         /\ \A k \in 1..Len(Tail(d)) : k + 1 \in 1..Len(d) /\ Tail(d)[k] = d[k + 1]
         /\ Head(d) = d[1] /\ d[1] \in S
OBVIOUS

\* A sequence with one more in front.
LEMMA WithFirst ==
  ASSUME NEW S, NEW d \in Seq(S), NEW m \in S
  PROVE  /\ <<m>> \o d \in Seq(S) /\ Len(<<m>> \o d) = Len(d) + 1 /\ Len(d) \in Nat
         /\ (<<m>> \o d)[1] = m
         /\ \A k \in 1..Len(d) : (<<m>> \o d)[k + 1] = d[k]
OBVIOUS

\* Two sequences, one behind the other.
LEMMA Joined ==
  ASSUME NEW S, NEW a \in Seq(S), NEW b \in Seq(S)
  PROVE  /\ a \o b \in Seq(S) /\ Len(a \o b) = Len(a) + Len(b)
         /\ \A k \in 1..(Len(a) + Len(b)) :
              (a \o b)[k] = IF k <= Len(a) THEN a[k] ELSE b[k - Len(a)]
OBVIOUS

\* A slot is replaced.
LEMMA SlotUpdate ==
  ASSUME NEW s \in Seq(Slot), NEW i \in 1..Len(s), NEW r \in Slot
  PROVE  /\ [s EXCEPT ![i] = r] \in Seq(Slot) /\ Len([s EXCEPT ![i] = r]) = Len(s)
         /\ [s EXCEPT ![i] = r][i] = r
         /\ \A j \in 1..Len(s) : j # i => [s EXCEPT ![i] = r][j] = s[j]
OBVIOUS

\* What a slot is made of.
LEMMA SlotFields ==
  ASSUME NEW s \in Seq(Slot), NEW i \in 1..Len(s)
  PROVE  /\ s[i] \in Slot /\ s[i].node \in Nat /\ s[i].wire \in Nat /\ s[i].sequence \in Nat
         /\ s[i].request \in Nat /\ s[i].reservation \in Nat
         /\ s[i].state \in {"idle", "leased", "draining"}
<1>1. s[i] \in Slot
  OBVIOUS
<1> QED BY <1>1 DEF Slot

-----------------------------------------------------------------------------
(* quarantine(). *)

\* What it does to the slots.
LEMMA QuarantinedSlots ==
  ASSUME NEW s \in Seq(Slot), NEW i \in 1..Len(s), InUse(s[i]), PoolIsSound(s)
  PROVE  LET q == Quarantined(s, i)
         IN  /\ q \in Seq(Slot) /\ Len(q) = Len(s)
             /\ \A j \in 1..Len(s) : j # i => q[j] = s[j]
             /\ q[i].state = "draining" /\ q[i].wire = 0
             /\ q[i].node = s[i].node /\ q[i].sequence = s[i].sequence
             /\ q[i].request = s[i].request /\ q[i].reservation = s[i].reservation
<1> DEFINE r == [s[i] EXCEPT !.state = "draining", !.wire = 0]
<1>1. s[i] \in Slot /\ s[i].state \in {"leased", "draining"}
  BY SlotFields DEF InUse
<1>2. /\ r \in Slot /\ r.state = "draining" /\ r.wire = 0
      /\ r.node = s[i].node /\ r.sequence = s[i].sequence /\ r.request = s[i].request
      /\ r.reservation = s[i].reservation
  BY <1>1 DEF Slot
<1>3. CASE s[i].state = "draining"
  <2>1. Quarantined(s, i) = s
    BY <1>3 DEF Quarantined
  <2>2. s[i].wire = 0
    BY <1>1, <1>3 DEF PoolIsSound, Leased
  <2> QED BY <1>3, <2>1, <2>2
<1>4. CASE s[i].state # "draining"
  <2>1. Quarantined(s, i) = [s EXCEPT ![i] = r]
    BY <1>4 DEF Quarantined
  <2> HIDE DEF r
  <2> QED BY <1>2, <2>1, SlotUpdate
<1> QED BY <1>3, <1>4

\* The pool stays sound.
LEMMA QuarantineKeepsPool ==
  ASSUME NEW s \in Seq(Slot), NEW i \in 1..Len(s), InUse(s[i]), PoolIsSound(s)
  PROVE  PoolIsSound(Quarantined(s, i))
<1> DEFINE q == Quarantined(s, i)
<1>1. /\ Len(q) = Len(s) /\ \A j \in 1..Len(s) : j # i => q[j] = s[j]
      /\ q[i].state = "draining" /\ q[i].wire = 0
      /\ q[i].node = s[i].node /\ q[i].sequence = s[i].sequence /\ q[i].request = s[i].request
  BY QuarantinedSlots
<1> HIDE DEF q
<1>2. \A j \in 1..Len(s) : /\ InUse(q[j]) <=> InUse(s[j])
                           /\ q[j].request = s[j].request /\ q[j].node = s[j].node
                           /\ q[j].sequence = s[j].sequence
                           /\ q[j].wire # 0 => Leased(q[j]) /\ q[j].wire = q[j].sequence
  BY <1>1 DEF InUse, PoolIsSound
<1>3. PoolIsSound(q)
  BY <1>1, <1>2 DEF PoolIsSound
<1> QED BY <1>3 DEF q

\* quarantine() posts the end of the lease unless it has before.
Draining(s, i) == IF s[i].state = "draining" THEN <<>>
                  ELSE <<[kind |-> "drained", slot |-> i, sequence |-> s[i].sequence]>>

\* The messages stay with their leases.
LEMMA QuarantineKeepsMessages ==
  ASSUME NEW s \in Seq(Slot), Len(s) <= MaxActive, NEW i \in 1..Len(s), InUse(s[i]),
         PoolIsSound(s), NEW d \in Seq(Messages), MessagesAreOwn(s, d)
  PROVE  /\ d \o Draining(s, i) \in Seq(Messages)
         /\ MessagesAreOwn(Quarantined(s, i), d \o Draining(s, i))
<1> DEFINE q == Quarantined(s, i)
           m == [kind |-> "drained", slot |-> i, sequence |-> s[i].sequence]
<1>1. /\ q \in Seq(Slot) /\ Len(q) = Len(s) /\ \A j \in 1..Len(s) : j # i => q[j] = s[j]
      /\ q[i].state = "draining"
      /\ q[i].node = s[i].node /\ q[i].sequence = s[i].sequence /\ q[i].request = s[i].request
  BY QuarantinedSlots
<1>2. m \in Messages /\ m.kind = "drained" /\ m.slot = i /\ m.sequence = s[i].sequence
  <2>1. i \in SlotIds /\ s[i].sequence \in Nat
    BY SlotFields DEF SlotIds
  <2> QED BY <2>1 DEF Messages
<1>3. CASE s[i].state = "draining"
  <2>1. Quarantined(s, i) = s /\ d \o Draining(s, i) = d
    BY <1>3, <1>2, WithLast DEF Quarantined, Draining
  <2> QED BY <2>1
<1>4. CASE s[i].state # "draining"
  <2> DEFINE e == d \o <<m>>
  <2>1. Leased(s[i])
    BY <1>4, SlotFields DEF InUse, Leased
  <2>2. d \o Draining(s, i) = e
    BY <1>4 DEF Draining
  <2> HIDE DEF q, m
  <2>3. /\ e \in Seq(Messages) /\ Len(e) = Len(d) + 1 /\ Len(d) \in Nat
        /\ \A k \in 1..Len(d) : e[k] = d[k]
        /\ e[Len(d) + 1] = m
    BY <1>2, WithLast
  <2> HIDE DEF e
  <2>4. \A j \in 1..Len(s) : /\ q[j].node = s[j].node /\ q[j].sequence = s[j].sequence
                             /\ InUse(q[j]) <=> InUse(s[j])
                             /\ Leased(q[j]) <=> Leased(s[j]) /\ j # i
    BY <1>1, <2>1 DEF InUse, Leased
  <2>5. ASSUME NEW k \in 1..Len(e) PROVE e[k].slot \in 1..Len(q)
    <3>1. CASE k \in 1..Len(d)
      BY <1>1, <2>3, <3>1 DEF MessagesAreOwn
    <3>2. CASE k = Len(d) + 1
      BY <1>1, <1>2, <2>3, <3>2
    <3> QED BY <2>3, <3>1, <3>2
  <2>6. \A k \in 1..Len(d) : d[k].kind = "drained" =>
          ~(d[k].slot = i /\ d[k].sequence = s[i].sequence)
    BY <2>1 DEF MessagesAreOwn
  <2>7. ASSUME NEW k \in 1..Len(e), e[k].kind = "drained"
        PROVE  /\ e[k].sequence <= q[e[k].slot].sequence
               /\ Leased(q[e[k].slot]) => e[k].sequence # q[e[k].slot].sequence
               /\ \A l \in 1..Len(e) :
                    e[l].kind = "drained" /\ e[l].slot = e[k].slot
                      /\ e[l].sequence = e[k].sequence => k = l
    <3>1. CASE k = Len(d) + 1
      <4>1. s[i].sequence \in Nat /\ e[k] = m
        BY SlotFields, <2>3, <3>1
      <4>2. e[k].slot = i /\ e[k].sequence = q[i].sequence /\ ~Leased(q[i])
        BY <1>1, <1>2, <2>4, <4>1
      <4>3. ASSUME NEW l \in 1..Len(e), e[l].kind = "drained", e[l].slot = e[k].slot,
                   e[l].sequence = e[k].sequence
            PROVE  k = l
        <5>1. l \notin 1..Len(d)
          <6>1. e[l].kind = "drained" /\ e[l].slot = i /\ e[l].sequence = s[i].sequence
            BY <1>1, <4>2, <4>3
          <6> QED BY <2>3, <2>6, <6>1
        <5> QED BY <2>3, <3>1, <5>1
      <4> QED BY <1>1, <4>1, <4>2, <4>3
    <3>2. CASE k \in 1..Len(d)
      <4>1. d[k].slot \in 1..Len(s) /\ e[k] = d[k]
        BY <2>3, <3>2 DEF MessagesAreOwn
      <4>2. /\ d[k].sequence <= s[d[k].slot].sequence
            /\ Leased(s[d[k].slot]) => d[k].sequence # s[d[k].slot].sequence
        BY <2>7, <3>2, <4>1 DEF MessagesAreOwn
      <4>3. ASSUME NEW l \in 1..Len(e), e[l].kind = "drained", e[l].slot = e[k].slot,
                   e[l].sequence = e[k].sequence
            PROVE  k = l
        <5>1. l # Len(d) + 1
          BY <1>2, <2>3, <2>6, <2>7, <3>2, <4>1, <4>3
        <5>2. l \in 1..Len(d) /\ e[l] = d[l]
          BY <2>3, <5>1
        <5> QED BY <2>7, <3>2, <4>1, <4>3, <5>2 DEF MessagesAreOwn
      <4> QED BY <2>4, <4>1, <4>2, <4>3
    <3> QED BY <2>3, <3>1, <3>2
  <2>8. ASSUME NEW k \in 1..Len(e), e[k].kind = "done"
        PROVE  /\ e[k].node # 0 /\ e[k].node <= q[e[k].slot].sequence
               /\ e[k].node = q[e[k].slot].node =>
                    /\ InUse(q[e[k].slot]) /\ e[k].sent = q[e[k].slot].sequence
                    /\ Leased(q[e[k].slot]) \/ \E l \in 1..Len(e) :
                         /\ k < l /\ e[l].kind = "drained" /\ e[l].slot = e[k].slot
                         /\ e[l].sequence = q[e[k].slot].sequence
    <3>1. k \in 1..Len(d) /\ e[k] = d[k] /\ d[k].slot \in 1..Len(s) /\ d[k].kind = "done"
      BY <1>2, <2>3, <2>8 DEF MessagesAreOwn
    <3>2. /\ d[k].node # 0 /\ d[k].node <= s[d[k].slot].sequence
          /\ d[k].node = s[d[k].slot].node =>
               InUse(s[d[k].slot]) /\ d[k].sent = s[d[k].slot].sequence
      BY <3>1 DEF MessagesAreOwn
    <3>3. CASE d[k].slot = i
      <4>1. /\ Len(d) + 1 \in 1..Len(e) /\ k < Len(d) + 1 /\ e[Len(d) + 1].kind = "drained"
            /\ e[Len(d) + 1].slot = e[k].slot /\ e[Len(d) + 1].sequence = q[e[k].slot].sequence
        BY <1>1, <1>2, <2>3, <3>1, <3>3
      <4> QED BY <2>4, <3>1, <3>2, <4>1
    <3>4. CASE d[k].slot # i
      <4>1. d[k].node = s[d[k].slot].node =>
              Leased(s[d[k].slot]) \/ \E l \in 1..Len(d) :
                /\ k < l /\ d[l].kind = "drained" /\ d[l].slot = d[k].slot
                /\ d[l].sequence = s[d[k].slot].sequence
        BY <3>1 DEF MessagesAreOwn
      <4>2. \A l \in 1..Len(d) : l \in 1..Len(e) /\ e[l] = d[l]
        BY <2>3
      <4>3. ASSUME d[k].node = s[d[k].slot].node
            PROVE  Leased(s[d[k].slot]) \/ \E l \in 1..Len(e) :
                     /\ k < l /\ e[l].kind = "drained" /\ e[l].slot = d[k].slot
                     /\ e[l].sequence = s[d[k].slot].sequence
        BY <4>1, <4>2, <4>3
      <4>4. /\ q[d[k].slot].node = s[d[k].slot].node
            /\ q[d[k].slot].sequence = s[d[k].slot].sequence
            /\ InUse(q[d[k].slot]) <=> InUse(s[d[k].slot])
            /\ Leased(q[d[k].slot]) <=> Leased(s[d[k].slot])
        BY <2>4, <3>1, <3>4
      <4> QED BY <3>1, <3>2, <4>3, <4>4
    <3> QED BY <3>3, <3>4
  <2>9. MessagesAreOwn(q, e)
    BY <2>5, <2>7, <2>8 DEF MessagesAreOwn
  <2> QED BY <2>2, <2>3, <2>9 DEF q
<1> QED BY <1>3, <1>4

\* No slot becomes idle.
LEMMA QuarantineKeepsIdle ==
  ASSUME NEW s \in Seq(Slot), NEW i \in 1..Len(s), InUse(s[i]), PoolIsSound(s)
  PROVE  IdleNodes(Quarantined(s, i)) = IdleNodes(s)
<1> DEFINE q == Quarantined(s, i)
<1>1. /\ Len(q) = Len(s) /\ \A j \in 1..Len(s) : j # i => q[j] = s[j]
      /\ q[i].state = "draining"
  BY QuarantinedSlots
<1> HIDE DEF q
<1>2. IdleNodes(q) = IdleNodes(s)
  BY <1>1 DEF IdleNodes, InUse
<1> QED BY <1>2 DEF q

-----------------------------------------------------------------------------
(* The other changes of a slot. *)

\* A message that is delivered leaves the others with their leases.
LEMMA DeliveryKeepsMessages ==
  ASSUME NEW s \in Seq(Slot), NEW d \in Seq(Messages), d # <<>>, MessagesAreOwn(s, d)
  PROVE  Tail(d) \in Seq(Messages) /\ MessagesAreOwn(s, Tail(d))
<1> DEFINE e == Tail(d)
<1>1. /\ e \in Seq(Messages) /\ Len(e) = Len(d) - 1 /\ Len(d) \in Nat
      /\ \A k \in 1..Len(e) : k + 1 \in 1..Len(d) /\ e[k] = d[k + 1]
  BY WithoutFirst
<1> HIDE DEF e
<1>2. \A l \in 1..Len(d) : l > 1 => l - 1 \in 1..Len(e) /\ e[l - 1] = d[l]
  BY <1>1
<1>3. ASSUME NEW k \in 1..Len(e) PROVE e[k].slot \in 1..Len(s)
  <2>1. k + 1 \in 1..Len(d) /\ e[k] = d[k + 1]
    BY <1>1
  <2> QED BY <2>1 DEF MessagesAreOwn
<1>4. ASSUME NEW k \in 1..Len(e), e[k].kind = "drained"
      PROVE  /\ e[k].sequence <= s[e[k].slot].sequence
             /\ Leased(s[e[k].slot]) => e[k].sequence # s[e[k].slot].sequence
             /\ \A l \in 1..Len(e) :
                  e[l].kind = "drained" /\ e[l].slot = e[k].slot
                    /\ e[l].sequence = e[k].sequence => k = l
  <2>1. k + 1 \in 1..Len(d) /\ e[k] = d[k + 1]
    BY <1>1
  <2>2. ASSUME NEW l \in 1..Len(e), e[l].kind = "drained", e[l].slot = e[k].slot,
               e[l].sequence = e[k].sequence
        PROVE  k = l
    <3>1. l + 1 \in 1..Len(d) /\ e[l] = d[l + 1]
      BY <1>1
    <3>2. k + 1 = l + 1
      BY <1>4, <2>1, <2>2, <3>1 DEF MessagesAreOwn
    <3> QED BY <3>2
  <2> QED BY <1>4, <2>1, <2>2 DEF MessagesAreOwn
<1>5. ASSUME NEW k \in 1..Len(e), e[k].kind = "done"
      PROVE  /\ e[k].node # 0 /\ e[k].node <= s[e[k].slot].sequence
             /\ e[k].node = s[e[k].slot].node =>
                  /\ InUse(s[e[k].slot]) /\ e[k].sent = s[e[k].slot].sequence
                  /\ Leased(s[e[k].slot]) \/ \E l \in 1..Len(e) :
                       /\ k < l /\ e[l].kind = "drained" /\ e[l].slot = e[k].slot
                       /\ e[l].sequence = s[e[k].slot].sequence
  <2>1. k + 1 \in 1..Len(d) /\ e[k] = d[k + 1]
    BY <1>1
  <2>2. /\ e[k].node # 0 /\ e[k].node <= s[e[k].slot].sequence
        /\ e[k].node = s[e[k].slot].node =>
             InUse(s[e[k].slot]) /\ e[k].sent = s[e[k].slot].sequence
    BY <1>5, <2>1 DEF MessagesAreOwn
  <2>3. ASSUME e[k].node = s[e[k].slot].node, ~Leased(s[e[k].slot])
        PROVE  \E l \in 1..Len(e) : /\ k < l /\ e[l].kind = "drained" /\ e[l].slot = e[k].slot
                                    /\ e[l].sequence = s[e[k].slot].sequence
    <3>1. PICK l \in 1..Len(d) : /\ k + 1 < l /\ d[l].kind = "drained" /\ d[l].slot = e[k].slot
                                 /\ d[l].sequence = s[e[k].slot].sequence
      BY <1>5, <2>1, <2>3 DEF MessagesAreOwn
    <3>2. l - 1 \in 1..Len(e) /\ k < l - 1 /\ e[l - 1] = d[l]
      BY <1>2, <3>1
    <3> QED BY <3>1, <3>2
  <2> QED BY <2>2, <2>3
<1>6. MessagesAreOwn(s, e)
  BY <1>3, <1>4, <1>5 DEF MessagesAreOwn
<1> QED BY <1>1, <1>6 DEF e

\* A slot that is not leased becomes idle, or is idle and loses its node.
SlotEnds(s, t, i) ==
  Len(t) = Len(s) /\ t[i].state = "idle" /\ \A j \in 1..Len(s) : j # i => t[j] = s[j]

\* A lease ends: the _drained call that ends it was behind every completion of its node.
LEMMA EndKeepsMessages ==
  ASSUME NEW s \in Seq(Slot), NEW d \in Seq(Messages), d # <<>>, MessagesAreOwn(s, d),
         NEW i, Head(d).kind = "drained", Head(d).slot = i, s[i].state = "draining",
         s[i].sequence = Head(d).sequence,
         NEW t \in Seq(Slot), SlotEnds(s, t, i),
         t[i].node = s[i].node, t[i].sequence = s[i].sequence
  PROVE  MessagesAreOwn(t, Tail(d))
<1> DEFINE e == Tail(d)
<1>10. /\ Len(t) = Len(s) /\ t[i].state = "idle"
       /\ \A j \in 1..Len(s) : j # i => t[j] = s[j]
  BY DEF SlotEnds
<1>1. e \in Seq(Messages) /\ MessagesAreOwn(s, e)
  BY DeliveryKeepsMessages
<1>2. /\ Len(e) = Len(d) - 1 /\ Len(d) \in Nat \ {0} /\ Head(d) = d[1]
      /\ \A k \in 1..Len(e) : k + 1 \in 1..Len(d) /\ e[k] = d[k + 1]
  BY WithoutFirst
<1> HIDE DEF e
<1>3. ASSUME NEW k \in 1..Len(e), e[k].kind = "done", e[k].slot = i PROVE e[k].node # s[i].node
  <2>1. SUFFICES ASSUME e[k].node = s[i].node PROVE FALSE
    OBVIOUS
  <2>2. k + 1 \in 1..Len(d) /\ e[k] = d[k + 1] /\ ~Leased(s[i]) /\ 1 \in 1..Len(d)
    BY <1>2 DEF Leased
  <2>5. d[k + 1].kind = "done" /\ d[k + 1].slot = i /\ d[k + 1].node = s[i].node
    BY <1>3, <2>1, <2>2
  <2>6. Leased(s[i]) \/ \E l \in 1..Len(d) :
          k + 1 < l /\ d[l].kind = "drained" /\ d[l].slot = i /\ d[l].sequence = s[i].sequence
    <3>1. Leased(s[d[k + 1].slot]) \/ \E l \in 1..Len(d) :
            /\ k + 1 < l /\ d[l].kind = "drained" /\ d[l].slot = d[k + 1].slot
            /\ d[l].sequence = s[d[k + 1].slot].sequence
      <4>1. k + 1 \in 1..Len(d) /\ d[k + 1].kind = "done"
            /\ d[k + 1].node = s[d[k + 1].slot].node
        BY <2>2, <2>5
      <4> DEFINE x == k + 1
      <4> HIDE DEF x
      <4> QED BY <4>1 DEF MessagesAreOwn, x
    <3> QED BY <2>5, <3>1
  <2>3. PICK l \in 1..Len(d) : /\ k + 1 < l /\ d[l].kind = "drained" /\ d[l].slot = i
                               /\ d[l].sequence = s[i].sequence
    BY <2>2, <2>5, <2>6
  <2>4. l = 1
    <3>1. \A x, y \in 1..Len(d) :
            d[x].kind = "drained" /\ d[y].kind = "drained"
              /\ d[y].slot = d[x].slot /\ d[y].sequence = d[x].sequence => x = y
      BY DEF MessagesAreOwn
    <3> QED BY <1>2, <2>2, <2>3, <3>1
  <2> QED BY <2>3, <2>4
<1>4. ~Leased(t[i]) /\ ~Leased(s[i])
  BY <1>10 DEF Leased
<1>5. \A j \in 1..Len(s) : /\ t[j].node = s[j].node /\ t[j].sequence = s[j].sequence
                           /\ Leased(t[j]) <=> Leased(s[j])
  BY <1>4, <1>10
<1>6. \A k \in 1..Len(e) : e[k].slot \in 1..Len(s) /\ e[k].slot \in 1..Len(t)
  BY <1>1, <1>10 DEF MessagesAreOwn
<1>7. ASSUME NEW k \in 1..Len(e), e[k].kind = "drained"
      PROVE  /\ e[k].sequence <= t[e[k].slot].sequence
             /\ Leased(t[e[k].slot]) => e[k].sequence # t[e[k].slot].sequence
             /\ \A l \in 1..Len(e) :
                  e[l].kind = "drained" /\ e[l].slot = e[k].slot
                    /\ e[l].sequence = e[k].sequence => k = l
  BY <1>1, <1>5, <1>6, <1>7 DEF MessagesAreOwn
<1>8. ASSUME NEW k \in 1..Len(e), e[k].kind = "done"
      PROVE  /\ e[k].node # 0 /\ e[k].node <= t[e[k].slot].sequence
             /\ e[k].node = t[e[k].slot].node =>
                  /\ InUse(t[e[k].slot]) /\ e[k].sent = t[e[k].slot].sequence
                  /\ Leased(t[e[k].slot]) \/ \E l \in 1..Len(e) :
                       /\ k < l /\ e[l].kind = "drained" /\ e[l].slot = e[k].slot
                       /\ e[l].sequence = t[e[k].slot].sequence
  <2>1. CASE e[k].slot = i
    BY <1>1, <1>3, <1>5, <1>6, <1>8, <2>1 DEF MessagesAreOwn
  <2>2. CASE e[k].slot # i
    <3>1. t[e[k].slot] = s[e[k].slot]
      BY <1>6, <1>10, <2>2
    <3>2. /\ e[k].node # 0 /\ e[k].node <= s[e[k].slot].sequence
          /\ e[k].node = s[e[k].slot].node =>
               /\ InUse(s[e[k].slot]) /\ e[k].sent = s[e[k].slot].sequence
               /\ Leased(s[e[k].slot]) \/ \E l \in 1..Len(e) :
                    /\ k < l /\ e[l].kind = "drained" /\ e[l].slot = e[k].slot
                    /\ e[l].sequence = s[e[k].slot].sequence
      BY <1>1, <1>8 DEF MessagesAreOwn
    <3> QED BY <3>1, <3>2
  <2> QED BY <2>1, <2>2
<1>9. MessagesAreOwn(t, e)
  BY <1>6, <1>7, <1>8 DEF MessagesAreOwn
<1> QED BY <1>9 DEF e

\* The pool with an idle slot in the place of one that drains, or without the node of an
\* idle slot, or with a worker that is done.
LEMMA SlotKeepsPool ==
  ASSUME NEW s \in Seq(Slot), PoolIsSound(s), NEW i \in 1..Len(s),
         NEW t \in Seq(Slot), Len(t) = Len(s),
         \A j \in 1..Len(s) : j # i => t[j] = s[j],
         t[i].wire = 0, t[i].node \in {0, s[i].node}, t[i].sequence = s[i].sequence,
         InUse(t[i]) => InUse(s[i]) /\ t[i].request = s[i].request /\ t[i].node = s[i].node
  PROVE  PoolIsSound(t)
<1>1. t[i].node <= t[i].sequence
  BY SlotFields DEF PoolIsSound
<1>2. \A j \in 1..Len(s) : InUse(t[j]) => InUse(s[j]) /\ t[j].request = s[j].request
  OBVIOUS
<1> QED BY <1>1, <1>2 DEF PoolIsSound

\* The number of the lease that comes next.
NextLease(s) ==
  LET i == FirstIdle(s) IN (IF i > Len(s) THEN Append(s, NewSlot) ELSE s)[i].sequence + 1

\* lease(): the pool grows if no slot is idle.
LeasedFor(s, id, limit) ==
  LET i == FirstIdle(s)
      pool == IF i > Len(s) THEN Append(s, NewSlot) ELSE s
      lease == pool[i].sequence + 1
  IN [pool EXCEPT ![i] =
       [node |-> IF @.node = 0 THEN lease ELSE @.node, wire |-> lease, state |-> "leased",
        sequence |-> lease, request |-> id, reservation |-> limit]]

\* What it does to the slots.
LEMMA LeasedSlots ==
  ASSUME NEW s \in Seq(Slot), NEW id \in Nat, NEW limit \in Nat, PoolIsSound(s)
  PROVE  LET i == FirstIdle(s)
             t == LeasedFor(s, id, limit)
         IN  /\ t \in Seq(Slot) /\ i \in 1..Len(t) /\ Len(t) = (IF i > Len(s) THEN i ELSE Len(s))
             /\ i \in 1..Len(s) + 1 /\ (i <= Len(s) => s[i].state = "idle")
             /\ \A j \in 1..Len(s) : j # i => t[j] = s[j]
             /\ t[i].state = "leased" /\ t[i].request = id /\ t[i].wire = t[i].sequence
             /\ t[i].sequence \in Nat \ {0} /\ t[i].node # 0 /\ t[i].node <= t[i].sequence
             /\ i <= Len(s) => /\ t[i].sequence = s[i].sequence + 1
                               /\ t[i].node = s[i].node \/ t[i].node = t[i].sequence
             /\ t[i].sequence = NextLease(s)
<1> DEFINE i == FirstIdle(s)
           pool == IF i > Len(s) THEN Append(s, NewSlot) ELSE s
           lease == pool[i].sequence + 1
           r == [node |-> IF pool[i].node = 0 THEN lease ELSE pool[i].node, wire |-> lease,
                 state |-> "leased", sequence |-> lease, request |-> id, reservation |-> limit]
<1>1. i \in 1..Len(s) + 1 /\ (i <= Len(s) => s[i].state = "idle")
  <2> DEFINE S == {k \in 1..Len(s) : s[k].state = "idle"} \cup {Len(s) + 1}
  <2>1. S \in SUBSET Nat /\ S # {} /\ i = Min(S)
    BY DEF FirstIdle
  <2>3. \A k \in S : k \in 1..Len(s) + 1 /\ (k <= Len(s) => s[k].state = "idle")
    OBVIOUS
  <2> HIDE DEF S, i
  <2>2. i \in S
    BY <2>1, MinIsIn
  <2> QED BY <2>2, <2>3
<1>2. NewSlot \in Slot /\ NewSlot.sequence = 0 /\ NewSlot.node = 0
  BY DEF NewSlot, Slot
<1> HIDE DEF i
<1>3. /\ pool \in Seq(Slot) /\ i \in 1..Len(pool) /\ Len(s) \in Nat
      /\ Len(pool) = (IF i > Len(s) THEN i ELSE Len(s))
      /\ \A j \in 1..Len(s) : pool[j] = s[j]
      /\ i > Len(s) => pool[i] = NewSlot
  BY <1>1, <1>2
<1>4. /\ pool[i].sequence \in Nat /\ pool[i].node \in Nat
      /\ pool[i].node <= pool[i].sequence
  <2>1. CASE i > Len(s)
    BY <1>2, <1>3, <2>1
  <2>2. CASE i <= Len(s)
    <3>1. i \in 1..Len(s)
      BY <1>1, <2>2
    <3> QED BY <1>3, <2>2, <3>1, SlotFields DEF PoolIsSound
  <2> QED BY <1>1, <2>1, <2>2
<1>5. LeasedFor(s, id, limit) = [pool EXCEPT ![i] = r]
  BY <1>3 DEF LeasedFor, i
<1>6. i <= Len(s) => i \in 1..Len(s) /\ pool[i] = s[i]
  BY <1>1, <1>3
<1> HIDE DEF pool
<1>7. /\ lease \in Nat \ {0} /\ lease = pool[i].sequence + 1
  BY <1>4
<1> HIDE DEF lease
<1>8. /\ r \in Slot /\ r.state = "leased" /\ r.request = id /\ r.wire = r.sequence
      /\ r.sequence = lease /\ r.node # 0 /\ r.node <= r.sequence
      /\ r.node = pool[i].node \/ r.node = r.sequence
  BY <1>4, <1>7 DEF Slot
<1> HIDE DEF r
<1>9. /\ [pool EXCEPT ![i] = r] \in Seq(Slot) /\ Len([pool EXCEPT ![i] = r]) = Len(pool)
      /\ [pool EXCEPT ![i] = r][i] = r
      /\ \A j \in 1..Len(pool) : j # i => [pool EXCEPT ![i] = r][j] = pool[j]
  BY <1>3, <1>8, SlotUpdate
<1> DEFINE t == LeasedFor(s, id, limit)
<1>10. /\ t \in Seq(Slot) /\ Len(t) = Len(pool) /\ t[i] = r
       /\ \A j \in 1..Len(pool) : j # i => t[j] = pool[j]
  BY <1>5, <1>9
<1> HIDE DEF t
<1>11. /\ t[i].state = "leased" /\ t[i].request = id /\ t[i].wire = t[i].sequence
       /\ t[i].sequence \in Nat \ {0} /\ t[i].node # 0 /\ t[i].node <= t[i].sequence
  BY <1>7, <1>8, <1>10
<1>12. i <= Len(s) => /\ t[i].sequence = s[i].sequence + 1
                      /\ t[i].node = s[i].node \/ t[i].node = t[i].sequence
  BY <1>6, <1>7, <1>8, <1>10
<1>13. \A j \in 1..Len(s) : j # i => t[j] = s[j]
  BY <1>1, <1>3, <1>10
<1>14. t[i].sequence = NextLease(s)
  <2>1. t[i].sequence = pool[i].sequence + 1
    BY <1>7, <1>8, <1>10
  <2> QED BY <2>1 DEF NextLease, pool, i
<1> QED BY <1>1, <1>3, <1>10, <1>11, <1>12, <1>13, <1>14 DEF i, t

\* A lease is of a request that no slot has, on a node that has no completion in the queue.
LEMMA LeaseKeepsPool ==
  ASSUME NEW s \in Seq(Slot), NEW id \in Nat, NEW limit \in Nat, PoolIsSound(s),
         \A j \in 1..Len(s) : InUse(s[j]) => s[j].request # id,
         NEW d \in Seq(Messages), MessagesAreOwn(s, d)
  PROVE  /\ PoolIsSound(LeasedFor(s, id, limit))
         /\ MessagesAreOwn(LeasedFor(s, id, limit), d)
         /\ IdleNodes(LeasedFor(s, id, limit)) \subseteq IdleNodes(s)
<1> DEFINE i == FirstIdle(s)
           t == LeasedFor(s, id, limit)
<1>1. /\ t \in Seq(Slot) /\ i \in 1..Len(t) /\ Len(t) = (IF i > Len(s) THEN i ELSE Len(s))
      /\ i \in 1..Len(s) + 1 /\ (i <= Len(s) => s[i].state = "idle")
      /\ \A j \in 1..Len(s) : j # i => t[j] = s[j]
      /\ t[i].state = "leased" /\ t[i].request = id /\ t[i].wire = t[i].sequence
      /\ t[i].sequence \in Nat \ {0} /\ t[i].node # 0 /\ t[i].node <= t[i].sequence
      /\ i <= Len(s) => /\ t[i].sequence = s[i].sequence + 1
                        /\ t[i].node = s[i].node \/ t[i].node = t[i].sequence
  BY LeasedSlots
<1> HIDE DEF i, t
<1>2. ASSUME NEW j \in 1..Len(t), j # i PROVE j \in 1..Len(s) /\ t[j] = s[j]
  <2>1. Len(s) \in Nat /\ i \in Nat
    BY <1>1
  <2>2. j \in 1..Len(s)
    BY <1>1, <1>2, <2>1
  <2> QED BY <1>1, <1>2, <2>2
<1>10. ASSUME NEW j \in 1..Len(t), NEW l \in 1..Len(t), InUse(t[j]), InUse(t[l]),
             t[j].request = t[l].request
       PROVE  j = l
  <2>1. CASE j # i /\ l # i
    BY <1>2, <1>10, <2>1 DEF PoolIsSound
  <2>2. CASE j = i /\ l # i
    BY <1>1, <1>2, <1>10, <2>2
  <2>3. CASE j # i /\ l = i
    BY <1>1, <1>2, <1>10, <2>3
  <2> QED BY <2>1, <2>2, <2>3
<1>11. ASSUME NEW j \in 1..Len(t)
       PROVE  /\ InUse(t[j]) => t[j].node # 0
              /\ t[j].wire # 0 => Leased(t[j]) /\ t[j].wire = t[j].sequence
              /\ t[j].node <= t[j].sequence
  <2>1. CASE j = i
    BY <1>1, <2>1 DEF Leased
  <2>2. CASE j # i
    BY <1>2, <2>2 DEF PoolIsSound
  <2> QED BY <2>1, <2>2
<1>3. PoolIsSound(t)
  BY <1>10, <1>11 DEF PoolIsSound
<1>4. IdleNodes(t) \subseteq IdleNodes(s)
  BY <1>1, <1>2 DEF IdleNodes
<1>5. \A k \in 1..Len(d) : d[k].slot \in 1..Len(s) /\ d[k].slot \in 1..Len(t)
  BY <1>1 DEF MessagesAreOwn
<1>6. ASSUME NEW k \in 1..Len(d), d[k].slot = i
      PROVE  /\ i \in 1..Len(s) /\ s[i].state = "idle" /\ t[i].sequence = s[i].sequence + 1
             /\ s[i].sequence \in Nat
             /\ t[i].node = s[i].node \/ t[i].node = t[i].sequence
  <2>1. i \in 1..Len(s)
    BY <1>5, <1>6
  <2> QED BY <1>1, <2>1, SlotFields
<1>7. ASSUME NEW k \in 1..Len(d), d[k].kind = "drained"
      PROVE  /\ d[k].sequence <= t[d[k].slot].sequence
             /\ Leased(t[d[k].slot]) => d[k].sequence # t[d[k].slot].sequence
             /\ \A l \in 1..Len(d) :
                  d[l].kind = "drained" /\ d[l].slot = d[k].slot
                    /\ d[l].sequence = d[k].sequence => k = l
  <2>1. d[k].sequence <= s[d[k].slot].sequence /\ d[k].sequence \in Nat
    <3>1. d[k] \in Messages
      OBVIOUS
    <3>2. d[k].sequence \in Nat
      BY <1>7, <3>1 DEF Messages
    <3> QED BY <1>7, <3>2 DEF MessagesAreOwn
  <2>2. CASE d[k].slot = i
    BY <1>6, <1>7, <2>1, <2>2 DEF MessagesAreOwn
  <2>3. CASE d[k].slot # i
    BY <1>2, <1>5, <1>7, <2>3 DEF MessagesAreOwn
  <2> QED BY <2>2, <2>3
<1>8. ASSUME NEW k \in 1..Len(d), d[k].kind = "done"
      PROVE  /\ d[k].node # 0 /\ d[k].node <= t[d[k].slot].sequence
             /\ d[k].node = t[d[k].slot].node =>
                  /\ InUse(t[d[k].slot]) /\ d[k].sent = t[d[k].slot].sequence
                  /\ Leased(t[d[k].slot]) \/ \E l \in 1..Len(d) :
                       /\ k < l /\ d[l].kind = "drained" /\ d[l].slot = d[k].slot
                       /\ d[l].sequence = t[d[k].slot].sequence
  <2>1. d[k].node # 0 /\ d[k].node <= s[d[k].slot].sequence /\ d[k].node \in Nat
    <3>1. d[k] \in Messages
      OBVIOUS
    <3>2. d[k].node \in Nat
      BY <1>8, <3>1 DEF Messages
    <3> QED BY <1>8, <3>2 DEF MessagesAreOwn
  <2>2. CASE d[k].slot = i
    <3>1. d[k].node # s[i].node
      BY <1>6, <1>8, <2>2 DEF MessagesAreOwn, InUse
    <3>2. d[k].node # t[i].node
      BY <1>6, <2>1, <2>2, <3>1
    <3> QED BY <1>6, <2>1, <2>2, <3>2
  <2>3. CASE d[k].slot # i
    BY <1>2, <1>5, <1>8, <2>3 DEF MessagesAreOwn
  <2> QED BY <2>2, <2>3
<1>9. MessagesAreOwn(t, d)
  BY <1>5, <1>7, <1>8 DEF MessagesAreOwn
<1> QED BY <1>3, <1>4, <1>9 DEF t

-----------------------------------------------------------------------------
(* The calls in progress, and the nodes that idle. *)

\* A call that does not look at a node again is made, or is over.
LEMMA CallKeepsStack ==
  ASSUME NEW st \in Seq(Frames), TrimIsLast(st), NEW f \in Frames, f.at # "trim"
  PROVE  /\ <<f>> \o st \in Seq(Frames) /\ TrimIsLast(<<f>> \o st)
         /\ Drainees(<<f>> \o st) = Drainees(st)
<1> DEFINE e == <<f>> \o st
<1>1. /\ e \in Seq(Frames) /\ Len(e) = Len(st) + 1 /\ Len(st) \in Nat /\ e[1] = f
      /\ \A k \in 1..Len(st) : e[k + 1] = st[k]
  BY WithFirst
<1> HIDE DEF e
<1>2. ASSUME NEW k \in 1..Len(e), e[k].at = "trim"
      PROVE  k - 1 \in 1..Len(st) /\ e[k] = st[k - 1]
  <2>1. k # 1
    BY <1>1, <1>2
  <2>2. k - 1 \in 1..Len(st) /\ (k - 1) + 1 = k
    BY <1>1, <2>1
  <2> QED BY <1>1, <2>2
<1>3. \A k \in 1..Len(st) : k + 1 \in 1..Len(e) /\ e[k + 1] = st[k]
  BY <1>1
<1>4. TrimIsLast(e)
  <2>1. ASSUME NEW k \in 1..Len(e), e[k].at = "trim" PROVE k = Len(e) /\ e[k].node # 0
    <3>1. k - 1 = Len(st) /\ st[k - 1].node # 0
      BY <1>2, <2>1 DEF TrimIsLast
    <3> QED BY <1>1, <1>2, <2>1, <3>1
  <2> QED BY <2>1 DEF TrimIsLast
<1>5. Drainees(e) = Drainees(st)
  <2>1. Drainees(e) \subseteq Drainees(st)
    BY <1>2 DEF Drainees
  <2>2. Drainees(st) \subseteq Drainees(e)
    BY <1>3 DEF Drainees
  <2> QED BY <2>1, <2>2
<1> QED BY <1>1, <1>4, <1>5 DEF e

\* The innermost call is over.
LEMMA ReturnKeepsStack ==
  ASSUME NEW st \in Seq(Frames), TrimIsLast(st), st # <<>>
  PROVE  /\ Tail(st) \in Seq(Frames) /\ TrimIsLast(Tail(st))
         /\ Head(st).at # "trim" => Drainees(Tail(st)) = Drainees(st)
         /\ Head(st).at = "trim" => Tail(st) = <<>> /\ Drainees(st) = {Head(st).slot}
         /\ Head(st).at = "trim" => Head(st).node # 0
<1> DEFINE e == Tail(st)
<1>1. /\ e \in Seq(Frames) /\ Len(e) = Len(st) - 1 /\ Len(st) \in Nat \ {0} /\ Head(st) = st[1]
      /\ \A k \in 1..Len(e) : k + 1 \in 1..Len(st) /\ e[k] = st[k + 1]
  BY WithoutFirst
<1> HIDE DEF e
<1>2. ASSUME NEW k \in 1..Len(st), k # 1 PROVE k - 1 \in 1..Len(e) /\ e[k - 1] = st[k]
  <2>1. k - 1 \in 1..Len(e) /\ (k - 1) + 1 = k
    BY <1>1, <1>2
  <2> QED BY <1>1, <2>1
<1>3. TrimIsLast(e)
  <2>1. ASSUME NEW k \in 1..Len(e), e[k].at = "trim" PROVE k = Len(e) /\ e[k].node # 0
    <3>1. k + 1 \in 1..Len(st) /\ e[k] = st[k + 1]
      BY <1>1
    <3>2. k + 1 = Len(st) /\ st[k + 1].node # 0
      BY <2>1, <3>1 DEF TrimIsLast
    <3> QED BY <1>1, <3>1, <3>2
  <2> QED BY <2>1 DEF TrimIsLast
<1>4. ASSUME Head(st).at # "trim" PROVE Drainees(e) = Drainees(st)
  <2>1. Drainees(e) \subseteq Drainees(st)
    <3>1. ASSUME NEW k \in 1..Len(e), e[k].at = "trim" PROVE e[k].slot \in Drainees(st)
      <4>1. k + 1 \in 1..Len(st) /\ st[k + 1] = e[k]
        BY <1>1
      <4> QED BY <3>1, <4>1 DEF Drainees
    <3> QED BY <3>1 DEF Drainees
  <2>2. ASSUME NEW k \in 1..Len(st), st[k].at = "trim" PROVE st[k].slot \in Drainees(e)
    <3>1. k # 1
      BY <1>1, <1>4, <2>2
    <3> QED BY <1>2, <2>2, <3>1 DEF Drainees
  <2>3. Drainees(st) \subseteq Drainees(e)
    BY <2>2 DEF Drainees
  <2> QED BY <2>1, <2>3
<1>5. ASSUME Head(st).at = "trim"
      PROVE  e = <<>> /\ Drainees(st) = {Head(st).slot} /\ Head(st).node # 0
  <2>1. 1 \in 1..Len(st) /\ st[1].at = "trim"
    BY <1>1, <1>5
  <2>2. Len(st) = 1 /\ st[1].node # 0
    BY <2>1 DEF TrimIsLast
  <2>3. ASSUME NEW k \in 1..Len(st) PROVE k = 1
    BY <2>2
  <2>4. Drainees(st) = {st[1].slot}
    BY <2>1, <2>3 DEF Drainees
  <2> QED BY <1>1, <2>2, <2>4
<1> QED BY <1>1, <1>3, <1>4, <1>5 DEF e

\* process_requests() is called: it settles what has expired, or starts what waits.
LEMMA ProcessKeepsStack ==
  ASSUME NEW st \in Seq(Frames), TrimIsLast(st), NEW rs, DOMAIN rs \subseteq Ids
  PROVE  /\ ProcessRequests(rs) \o st \in Seq(Frames) /\ TrimIsLast(ProcessRequests(rs) \o st)
         /\ Drainees(ProcessRequests(rs) \o st) = Drainees(st)
         /\ Starting \o st \in Seq(Frames) /\ TrimIsLast(Starting \o st)
         /\ Drainees(Starting \o st) = Drainees(st)
<1> DEFINE f == [at |-> "start"]
           g == [at |-> "expire", ids |-> Expired(rs)]
<1>1. f \in Frames /\ f.at # "trim" /\ g \in Frames /\ g.at # "trim"
  BY DEF Frames, Expired
<1>2. Starting = <<>> \/ Starting = <<f>>
  BY DEF Starting
<1>3. ProcessRequests(rs) = Starting \/ ProcessRequests(rs) = <<g>>
  BY DEF ProcessRequests
<1>4. <<>> \o st = st
  OBVIOUS
<1> HIDE DEF f, g
<1> QED BY <1>1, <1>2, <1>3, <1>4, CallKeepsStack

\* Fewer idle nodes are not too many.
LEMMA FewerNodesIdle ==
  ASSUME NEW s \in Seq(Slot), NEW t \in Seq(Slot), NEW st \in Seq(Frames),
         NEW su \in Seq(Frames), PoolIsTrimmed(s, st), TrimIsLast(su),
         IdleNodes(t) \ Drainees(su) \subseteq IdleNodes(s) \ Drainees(st)
  PROVE  PoolIsTrimmed(t, su)
<1>1. IsFiniteSet(1..Len(s))
  BY FS_Interval
<1>2. IsFiniteSet(IdleNodes(s) \ Drainees(st))
  BY <1>1, FS_Subset DEF IdleNodes
<1>3. /\ Cardinality(IdleNodes(t) \ Drainees(su)) <= Cardinality(IdleNodes(s) \ Drainees(st))
      /\ Cardinality(IdleNodes(t) \ Drainees(su)) \in Nat
      /\ Cardinality(IdleNodes(s) \ Drainees(st)) \in Nat
  BY <1>2, FS_Subset, FS_CardinalityType
<1> QED BY <1>3 DEF PoolIsTrimmed

\* The node of an idle slot is freed, or the pool stays as it is.
Freed(s, t, i) ==
  \/ t = s
  \/ /\ Len(t) = Len(s) /\ i \in 1..Len(s) /\ s[i].state = "idle" /\ t[i].state = "idle"
     /\ t[i].node = 0 /\ t[i].wire = 0 /\ t[i].sequence = s[i].sequence
     /\ \A j \in 1..Len(s) : j # i => t[j] = s[j]

\* A surplus node is idle when it is freed: a completion that ran before may have leased its
\* slot again, and then there are not too many.
LEMMA SurplusIsIdle ==
  ASSUME NEW s \in Seq(Slot), NEW i, NEW node, node # 0,
         Cardinality(IdleNodes(s) \ {i}) <= MaxIdle
  PROVE  /\ Trimmed(s, i, node) \in Seq(Slot) /\ Freed(s, Trimmed(s, i, node), i)
         /\ Cardinality(IdleNodes(Trimmed(s, i, node))) <= MaxIdle
<1> DEFINE r == [s[i] EXCEPT !.node = 0, !.wire = 0]
           t == Trimmed(s, i, node)
<1>1. IdleNodes(s) \subseteq 1..Len(s) /\ IsFiniteSet(IdleNodes(s)) /\ Len(s) \in Nat
  <2>1. IdleNodes(s) \subseteq 1..Len(s) /\ Len(s) \in Nat
    BY DEF IdleNodes
  <2>2. IsFiniteSet(1..Len(s))
    BY <2>1, FS_Interval
  <2> QED BY <2>1, <2>2, FS_Subset
<1>2. CASE Cardinality(IdleNodes(s)) > MaxIdle
  <2>1. i \in IdleNodes(s)
    <3>1. SUFFICES ASSUME i \notin IdleNodes(s) PROVE FALSE
      OBVIOUS
    <3>2. IdleNodes(s) \ {i} = IdleNodes(s)
      BY <3>1
    <3>3. Cardinality(IdleNodes(s)) \in Nat
      BY <1>1, FS_CardinalityType
    <3>4. Cardinality(IdleNodes(s)) <= MaxIdle
      BY <3>2
    <3> QED BY <1>2, <3>3, <3>4
  <2>2. i \in 1..Len(s) /\ s[i].state = "idle" /\ s[i] \in Slot
    BY <1>1, <2>1 DEF IdleNodes
  <2>3. /\ r \in Slot /\ r.state = "idle" /\ r.node = 0 /\ r.wire = 0
        /\ r.sequence = s[i].sequence
    BY <2>2 DEF Slot
  <2>4. t = [s EXCEPT ![i] = r]
    BY <1>2 DEF Trimmed, IdleNodes
  <2> HIDE DEF r, t
  <2>5. /\ t \in Seq(Slot) /\ Len(t) = Len(s) /\ t[i] = r
        /\ \A j \in 1..Len(s) : j # i => t[j] = s[j]
    BY <2>2, <2>3, <2>4, SlotUpdate
  <2>6. IdleNodes(t) = IdleNodes(s) \ {i}
    BY <2>3, <2>5 DEF IdleNodes
  <2>7. Cardinality(IdleNodes(t)) <= MaxIdle
    BY <2>6
  <2>8. Freed(s, t, i)
    BY <2>2, <2>3, <2>5 DEF Freed
  <2> QED BY <2>5, <2>7, <2>8 DEF t
<1>3. CASE ~(Cardinality(IdleNodes(s)) > MaxIdle)
  <2>1. t = s
    BY <1>3 DEF Trimmed, IdleNodes
  <2>2. Cardinality(IdleNodes(s)) \in Nat
    BY <1>1, FS_CardinalityType
  <2> HIDE DEF t
  <2>3. Cardinality(IdleNodes(t)) <= MaxIdle
    BY <1>3, <2>1, <2>2
  <2>4. Freed(s, t, i)
    BY <2>1 DEF Freed
  <2> QED BY <2>1, <2>3, <2>4 DEF t
<1> QED BY <1>2, <1>3

-----------------------------------------------------------------------------
(* The queue. *)

\* The front leaves.
LEMMA FrontLeaves ==
  ASSUME NEW w \in Seq(Ids), Distinct(w), w # <<>>
  PROVE  /\ Tail(w) \in Seq(Ids) /\ Distinct(Tail(w)) /\ Head(w) \in Ids
         /\ Waits(w, Head(w)) /\ ~Waits(Tail(w), Head(w))
         /\ \A x : Waits(Tail(w), x) <=> Waits(w, x) /\ x # Head(w)
<1> DEFINE v == Tail(w)
<1>1. /\ v \in Seq(Ids) /\ Len(v) = Len(w) - 1 /\ Len(w) \in Nat \ {0}
      /\ Head(w) = w[1] /\ w[1] \in Ids
      /\ \A k \in 1..Len(v) : k + 1 \in 1..Len(w) /\ v[k] = w[k + 1]
  BY WithoutFirst
<1> HIDE DEF v
<1>2. ASSUME NEW k \in 1..Len(w), k # 1 PROVE k - 1 \in 1..Len(v) /\ v[k - 1] = w[k]
  <2>1. k - 1 \in 1..Len(v) /\ (k - 1) + 1 = k
    BY <1>1, <1>2
  <2> QED BY <1>1, <2>1
<1>3. Distinct(v)
  <2>1. ASSUME NEW k \in 1..Len(v), NEW l \in 1..Len(v), v[k] = v[l] PROVE k = l
    <3>1. k + 1 \in 1..Len(w) /\ l + 1 \in 1..Len(w) /\ w[k + 1] = w[l + 1]
      BY <1>1, <2>1
    <3>2. k + 1 = l + 1
      BY <3>1 DEF Distinct
    <3> QED BY <3>2
  <2> QED BY <2>1 DEF Distinct
<1>4. 1 \in 1..Len(w)
  BY <1>1
<1>5. ASSUME NEW k \in 1..Len(v) PROVE v[k] # w[1]
  <2>1. k + 1 \in 1..Len(w) /\ v[k] = w[k + 1] /\ k + 1 # 1
    BY <1>1
  <2> QED BY <1>4, <2>1 DEF Distinct
<1>6. ASSUME NEW x PROVE Waits(v, x) <=> Waits(w, x) /\ x # Head(w)
  <2>1. ASSUME Waits(v, x) PROVE Waits(w, x) /\ x # Head(w)
    <3>1. PICK k \in 1..Len(v) : v[k] = x
      BY <2>1 DEF Waits
    <3> QED BY <1>1, <1>5, <3>1 DEF Waits
  <2>2. ASSUME Waits(w, x), x # Head(w) PROVE Waits(v, x)
    <3>1. PICK k \in 1..Len(w) : w[k] = x
      BY <2>2 DEF Waits
    <3>2. k # 1
      BY <1>1, <2>2, <3>1
    <3> QED BY <1>2, <3>1, <3>2 DEF Waits
  <2> QED BY <2>1, <2>2
<1>7. Waits(w, Head(w)) /\ ~Waits(v, Head(w))
  BY <1>1, <1>4, <1>5 DEF Waits
<1> QED BY <1>1, <1>3, <1>6, <1>7 DEF v

\* One that is cancelled leaves, if it waits.
LEMMA OneLeaves ==
  ASSUME NEW w \in Seq(Ids), Distinct(w), NEW id
  PROVE  LET v == RemoveFirst(w, id)
         IN  /\ v \in Seq(Ids) /\ Distinct(v)
             /\ \A x : Waits(v, x) <=> Waits(w, x) /\ x # id
<1> DEFINE v == RemoveFirst(w, id)
<1>1. CASE ~Waits(w, id)
  <2>1. v = w
    BY <1>1 DEF RemoveFirst, Waits
  <2> QED BY <1>1, <2>1
<1>2. CASE Waits(w, id)
  <2> DEFINE S == {k \in 1..Len(w) : w[k] = id}
             m == Min(S)
  <2>1. S \in SUBSET Nat /\ S # {} /\ Len(w) \in Nat
    BY <1>2 DEF Waits
  <2>2. v = RemoveAt(w, m)
    BY <1>2, <2>1 DEF RemoveFirst, SelectInSeq, Waits
  <2>3. \A k \in S : k \in 1..Len(w) /\ w[k] = id
    OBVIOUS
  <2> HIDE DEF S
  <2>4. m \in S
    BY <2>1, MinIsIn
  <2>5. m \in 1..Len(w) /\ w[m] = id
    BY <2>3, <2>4
  <2> HIDE DEF m
  <2>6. v = SubSeq(w, 1, m - 1) \o SubSeq(w, m + 1, Len(w))
    BY <2>2 DEF RemoveAt
  <2> HIDE DEF v
  <2>7. /\ SubSeq(w, 1, m - 1) \in Seq(Ids) /\ Len(SubSeq(w, 1, m - 1)) = m - 1
        /\ \A k \in 1..(m - 1) : SubSeq(w, 1, m - 1)[k] = w[k]
    BY <2>1, <2>5
  <2>8. /\ SubSeq(w, m + 1, Len(w)) \in Seq(Ids)
        /\ Len(SubSeq(w, m + 1, Len(w))) = Len(w) - m
        /\ \A k \in 1..(Len(w) - m) : SubSeq(w, m + 1, Len(w))[k] = w[k + m]
    BY <2>1, <2>5
  <2> DEFINE a == SubSeq(w, 1, m - 1)
             b == SubSeq(w, m + 1, Len(w))
  <2> HIDE DEF a, b
  <2>9. /\ v \in Seq(Ids) /\ Len(v) = Len(w) - 1
        /\ \A k \in 1..Len(v) : v[k] = IF k < m THEN a[k] ELSE b[k - (m - 1)]
    <3>1. /\ v = a \o b /\ a \in Seq(Ids) /\ b \in Seq(Ids) /\ Len(a) = m - 1
          /\ Len(b) = Len(w) - m
      BY <2>6, <2>7, <2>8 DEF a, b
    <3>2. /\ v \in Seq(Ids) /\ Len(v) = Len(a) + Len(b)
          /\ \A k \in 1..(Len(a) + Len(b)) : v[k] = IF k <= Len(a) THEN a[k] ELSE b[k - Len(a)]
      BY <3>1, Joined
    <3>3. Len(a) + Len(b) = Len(w) - 1
      BY <2>1, <2>5, <3>1
    <3>4. ASSUME NEW k \in 1..Len(v) PROVE v[k] = IF k < m THEN a[k] ELSE b[k - (m - 1)]
      <4>1. k <= Len(a) <=> k < m
        BY <2>5, <3>1
      <4> QED BY <3>1, <3>2, <4>1
    <3> QED BY <3>2, <3>3, <3>4
  <2>10. ASSUME NEW k \in 1..Len(v)
         PROVE  IF k < m THEN k \in 1..Len(w) /\ v[k] = w[k]
                ELSE k + 1 \in 1..Len(w) /\ v[k] = w[k + 1]
    <3>1. CASE k < m
      <4>1. k \in 1..(m - 1) /\ k \in 1..Len(w)
        BY <2>1, <2>5, <2>9, <3>1
      <4> QED BY <2>7, <2>9, <3>1, <4>1 DEF a
    <3>2. CASE ~(k < m)
      <4>1. k - (m - 1) \in 1..(Len(w) - m) /\ (k - (m - 1)) + m = k + 1 /\ k + 1 \in 1..Len(w)
        BY <2>1, <2>5, <2>9, <3>2
      <4> QED BY <2>8, <2>9, <3>2, <4>1 DEF b
    <3> QED BY <3>1, <3>2
  <2>11. ASSUME NEW k \in 1..Len(w), k # m
         PROVE  IF k < m THEN k \in 1..Len(v) ELSE k - 1 \in 1..Len(v) /\ ~(k - 1 < m)
    BY <2>1, <2>5, <2>9, <2>11
  <2>12. ASSUME NEW k \in 1..Len(v), NEW l \in 1..Len(v), v[k] = v[l] PROVE k = l
    <3> DEFINE p == IF k < m THEN k ELSE k + 1
               q == IF l < m THEN l ELSE l + 1
    <3>1. p \in 1..Len(w) /\ q \in 1..Len(w) /\ w[p] = w[q]
      BY <2>10, <2>12
    <3>2. p = q
      BY <3>1 DEF Distinct
    <3> QED BY <2>5, <3>2
  <2>13. ASSUME NEW x, Waits(v, x) PROVE Waits(w, x) /\ x # id
    <3>1. PICK k \in 1..Len(v) : v[k] = x
      BY <2>13 DEF Waits
    <3> DEFINE p == IF k < m THEN k ELSE k + 1
    <3>2. p \in 1..Len(w) /\ w[p] = x
      BY <2>10, <3>1
    <3>3. p # m
      BY <2>5
    <3>4. x # id
      BY <2>5, <3>2, <3>3 DEF Distinct
    <3> QED BY <3>2, <3>4 DEF Waits
  <2>14. ASSUME NEW x, Waits(w, x), x # id PROVE Waits(v, x)
    <3>1. PICK k \in 1..Len(w) : w[k] = x
      BY <2>14 DEF Waits
    <3>2. k # m
      BY <2>5, <2>14, <3>1
    <3>3. CASE k < m
      <4>1. k \in 1..Len(v)
        BY <2>11, <3>2, <3>3
      <4>2. v[k] = x
        BY <2>10, <3>1, <3>3, <4>1
      <4> QED BY <4>1, <4>2 DEF Waits
    <3>4. CASE ~(k < m)
      <4>1. k - 1 \in 1..Len(v) /\ ~(k - 1 < m) /\ (k - 1) + 1 = k
        BY <2>11, <3>2, <3>4
      <4>2. v[k - 1] = x
        BY <2>10, <3>1, <4>1
      <4> QED BY <4>1, <4>2 DEF Waits
    <3> QED BY <3>3, <3>4
  <2> QED BY <2>9, <2>12, <2>13, <2>14 DEF v, Distinct
<1> QED BY <1>1, <1>2

-----------------------------------------------------------------------------
(* Requests that go, and requests that come. *)

\* Requests leave the service, the queue or their slots, and the others stay where they are.
LEMMA RequestsStayHeld ==
  ASSUME NEW rs, NEW w, NEW s, NEW n, RequestsAreHeld(rs, w, s, n),
         NEW rt, NEW v, NEW t, DOMAIN rt \subseteq DOMAIN rs, Len(t) = Len(s),
         Distinct(v), \A x : Waits(v, x) => Waits(w, x),
         \A j \in 1..Len(s) : InUse(t[j]) => InUse(s[j]) /\ t[j].request = s[j].request,
         \A j \in 1..Len(s) : Leased(t[j]) =>
           Leased(s[j]) /\ s[j].request \in DOMAIN rt /\ ~rt[s[j].request].cancelled,
         \A x \in DOMAIN rt :
           IF rt[x].cancelled THEN \E j \in 1..Len(s) : InUse(t[j]) /\ s[j].request = x
           ELSE /\ ~rs[x].cancelled /\ (Waits(w, x) => Waits(v, x))
                /\ \A j \in 1..Len(s) : Leased(s[j]) /\ s[j].request = x => Leased(t[j])
  PROVE  RequestsAreHeld(rt, v, t, n)
<1>1. \A x \in DOMAIN rt : x \in Ids /\ x < n
  BY DEF RequestsAreHeld
<1>2. ASSUME NEW k \in 1..Len(v) PROVE v[k] < n
  <2>1. Waits(w, v[k])
    BY DEF Waits
  <2> QED BY <2>1 DEF Waits, RequestsAreHeld
<1>3. \A j \in 1..Len(t) : InUse(t[j]) => t[j].request < n
  BY DEF RequestsAreHeld
<1>4. \A j : Leased(t[j]) => InUse(t[j])
  BY DEF Leased, InUse
<1>5. ASSUME NEW j \in 1..Len(t), Leased(t[j])
      PROVE  /\ t[j].request \in DOMAIN rt /\ ~rt[t[j].request].cancelled
             /\ ~Waits(v, t[j].request)
  <2>1. t[j].request = s[j].request /\ Leased(s[j]) /\ j \in 1..Len(s)
    BY <1>4, <1>5
  <2>2. ~Waits(w, s[j].request)
    BY <2>1 DEF RequestsAreHeld
  <2> QED BY <1>5, <2>1, <2>2
<1>6. ASSUME NEW x \in DOMAIN rt
      PROVE  IF rt[x].cancelled THEN \E j \in 1..Len(t) : InUse(t[j]) /\ t[j].request = x
             ELSE Waits(v, x) \/ \E j \in 1..Len(t) : Leased(t[j]) /\ t[j].request = x
  <2>1. CASE rt[x].cancelled
    BY <2>1
  <2>2. CASE ~rt[x].cancelled
    <3>1. x \in DOMAIN rs /\ ~rs[x].cancelled
      BY <2>2
    <3>2. Waits(w, x) \/ \E j \in 1..Len(s) : Leased(s[j]) /\ s[j].request = x
      BY <3>1 DEF RequestsAreHeld
    <3>3. CASE Waits(w, x)
      BY <2>2, <3>3
    <3>4. CASE \E j \in 1..Len(s) : Leased(s[j]) /\ s[j].request = x
      <4>1. PICK j \in 1..Len(s) : Leased(s[j]) /\ s[j].request = x
        BY <3>4
      <4>2. Leased(t[j]) /\ InUse(t[j])
        BY <1>4, <2>2, <4>1
      <4> QED BY <2>2, <4>1, <4>2
    <3> QED BY <3>2, <3>3, <3>4
  <2> QED BY <2>1, <2>2
<1> QED BY <1>1, <1>2, <1>3, <1>5, <1>6 DEF RequestsAreHeld

\* Nodes leave the pool, and what they still have in Godot's queue is nobody's.
LEMMA FreedNodesKeepMessages ==
  ASSUME NEW s, NEW d, MessagesAreOwn(s, d), NEW t, Len(t) = Len(s),
         \A j \in 1..Len(s) :
           \/ t[j] = s[j]
           \/ t[j].node = 0 /\ t[j].state = "idle" /\ t[j].sequence = s[j].sequence
  PROVE  MessagesAreOwn(t, d)
<1>1. \A j \in 1..Len(s) : t[j].sequence = s[j].sequence /\ (Leased(t[j]) => Leased(s[j]))
  BY DEF Leased
<1>2. \A k \in 1..Len(d) : d[k].slot \in 1..Len(s) /\ d[k].slot \in 1..Len(t)
  BY DEF MessagesAreOwn
<1>3. ASSUME NEW k \in 1..Len(d), d[k].kind = "drained"
      PROVE  /\ d[k].sequence <= t[d[k].slot].sequence
             /\ Leased(t[d[k].slot]) => d[k].sequence # t[d[k].slot].sequence
             /\ \A l \in 1..Len(d) :
                  d[l].kind = "drained" /\ d[l].slot = d[k].slot
                    /\ d[l].sequence = d[k].sequence => k = l
  <2>1. /\ d[k].sequence <= s[d[k].slot].sequence
        /\ Leased(s[d[k].slot]) => d[k].sequence # s[d[k].slot].sequence
    BY <1>3 DEF MessagesAreOwn
  <2>2. \A l \in 1..Len(d) :
          d[l].kind = "drained" /\ d[l].slot = d[k].slot /\ d[l].sequence = d[k].sequence => k = l
    BY <1>3 DEF MessagesAreOwn
  <2>3. /\ t[d[k].slot].sequence = s[d[k].slot].sequence
        /\ Leased(t[d[k].slot]) => Leased(s[d[k].slot])
    BY <1>1, <1>2
  <2> QED BY <2>1, <2>2, <2>3
<1>4. ASSUME NEW k \in 1..Len(d), d[k].kind = "done"
      PROVE  /\ d[k].node # 0 /\ d[k].node <= t[d[k].slot].sequence
             /\ d[k].node = t[d[k].slot].node =>
                  /\ InUse(t[d[k].slot]) /\ d[k].sent = t[d[k].slot].sequence
                  /\ Leased(t[d[k].slot]) \/ \E l \in 1..Len(d) :
                       /\ k < l /\ d[l].kind = "drained" /\ d[l].slot = d[k].slot
                       /\ d[l].sequence = t[d[k].slot].sequence
  <2>1. d[k].node # 0 /\ d[k].node <= t[d[k].slot].sequence
    BY <1>1, <1>2, <1>4 DEF MessagesAreOwn
  <2>2. CASE t[d[k].slot] = s[d[k].slot]
    BY <1>4, <2>1, <2>2 DEF MessagesAreOwn
  <2>3. CASE t[d[k].slot].node = 0
    BY <2>1, <2>3
  <2> QED BY <1>2, <2>2, <2>3
<1> QED BY <1>2, <1>3, <1>4 DEF MessagesAreOwn

\* A worker is done: its completion is of the lease it carried out.
LEMMA ResponseKeepsMessages ==
  ASSUME NEW s \in Seq(Slot), Len(s) <= MaxActive, PoolIsSound(s),
         NEW d \in Seq(Messages), MessagesAreOwn(s, d), NEW i \in 1..Len(s), s[i].wire # 0,
         NEW t \in Seq(Slot), Len(t) = Len(s), t[i] = [s[i] EXCEPT !.wire = 0],
         \A j \in 1..Len(s) : j # i => t[j] = s[j],
         NEW m, m = [kind |-> "done", slot |-> i, node |-> s[i].node, sent |-> s[i].wire]
  PROVE  Append(d, m) \in Seq(Messages) /\ MessagesAreOwn(t, Append(d, m))
<1>1. /\ s[i] \in Slot /\ Leased(s[i]) /\ s[i].wire = s[i].sequence /\ s[i].node # 0
      /\ s[i].node <= s[i].sequence
  BY SlotFields DEF PoolIsSound, InUse, Leased
<1>2. /\ m \in Messages /\ m.kind = "done" /\ m.slot = i /\ m.node = s[i].node
      /\ m.sent = s[i].sequence
  <2>1. i \in SlotIds /\ s[i].node \in Nat /\ s[i].wire \in Nat
    BY SlotFields DEF SlotIds
  <2> QED BY <1>1, <2>1 DEF Messages
<1>3. \A j \in 1..Len(s) : /\ t[j].node = s[j].node /\ t[j].sequence = s[j].sequence
                           /\ Leased(t[j]) <=> Leased(s[j])
                           /\ InUse(t[j]) <=> InUse(s[j])
  BY <1>1 DEF Slot, Leased, InUse
<1> DEFINE e == Append(d, m)
<1>4. /\ e \in Seq(Messages) /\ Len(e) = Len(d) + 1 /\ Len(d) \in Nat
      /\ \A k \in 1..Len(d) : e[k] = d[k]
      /\ e[Len(d) + 1] = m
  BY <1>2, WithLast
<1> HIDE DEF e
<1>5. ASSUME NEW k \in 1..Len(e)
      PROVE  (k = Len(d) + 1 /\ e[k] = m) \/ (k \in 1..Len(d) /\ e[k] = d[k])
  BY <1>4
<1>6. \A k \in 1..Len(e) : e[k].slot \in 1..Len(s) /\ e[k].slot \in 1..Len(t)
  <2>1. \A k \in 1..Len(d) : d[k].slot \in 1..Len(s)
    BY DEF MessagesAreOwn
  <2> QED BY <1>2, <1>5, <2>1
<1>7. ASSUME NEW k \in 1..Len(e), e[k].kind = "drained"
      PROVE  /\ e[k].sequence <= t[e[k].slot].sequence
             /\ Leased(t[e[k].slot]) => e[k].sequence # t[e[k].slot].sequence
             /\ \A l \in 1..Len(e) :
                  e[l].kind = "drained" /\ e[l].slot = e[k].slot
                    /\ e[l].sequence = e[k].sequence => k = l
  <2>1. k \in 1..Len(d) /\ e[k] = d[k] /\ d[k].kind = "drained" /\ d[k].slot \in 1..Len(s)
    BY <1>2, <1>5, <1>7 DEF MessagesAreOwn
  <2>2. /\ d[k].sequence <= s[d[k].slot].sequence
        /\ Leased(s[d[k].slot]) => d[k].sequence # s[d[k].slot].sequence
    BY <2>1 DEF MessagesAreOwn
  <2>3. ASSUME NEW l \in 1..Len(e), e[l].kind = "drained", e[l].slot = e[k].slot,
               e[l].sequence = e[k].sequence
        PROVE  k = l
    <3>1. l \in 1..Len(d) /\ e[l] = d[l]
      BY <1>2, <1>5, <2>3
    <3>2. \A x \in 1..Len(d) : d[x].kind = "drained" /\ d[x].slot = d[k].slot
                               /\ d[x].sequence = d[k].sequence => k = x
      BY <2>1 DEF MessagesAreOwn
    <3> QED BY <2>1, <2>3, <3>1, <3>2
  <2> QED BY <1>3, <2>1, <2>2, <2>3
<1>8. ASSUME NEW k \in 1..Len(e), e[k].kind = "done"
      PROVE  /\ e[k].node # 0 /\ e[k].node <= t[e[k].slot].sequence
             /\ e[k].node = t[e[k].slot].node =>
                  /\ InUse(t[e[k].slot]) /\ e[k].sent = t[e[k].slot].sequence
                  /\ Leased(t[e[k].slot]) \/ \E l \in 1..Len(e) :
                       /\ k < l /\ e[l].kind = "drained" /\ e[l].slot = e[k].slot
                       /\ e[l].sequence = t[e[k].slot].sequence
  <2>1. CASE e[k] = m
    <3>1. InUse(s[i])
      BY <1>1 DEF InUse, Leased
    <3> QED BY <1>1, <1>2, <1>3, <2>1, <3>1
  <2>2. CASE k \in 1..Len(d) /\ e[k] = d[k]
    <3>1. d[k].slot \in 1..Len(s) /\ d[k].kind = "done"
      BY <1>8, <2>2 DEF MessagesAreOwn
    <3>2. /\ d[k].node # 0 /\ d[k].node <= s[d[k].slot].sequence
          /\ d[k].node = s[d[k].slot].node =>
               /\ InUse(s[d[k].slot]) /\ d[k].sent = s[d[k].slot].sequence
               /\ Leased(s[d[k].slot]) \/ \E l \in 1..Len(d) :
                    /\ k < l /\ d[l].kind = "drained" /\ d[l].slot = d[k].slot
                    /\ d[l].sequence = s[d[k].slot].sequence
      BY <2>2, <3>1 DEF MessagesAreOwn
    <3>3. \A l \in 1..Len(d) : l \in 1..Len(e) /\ e[l] = d[l]
      BY <1>4
    <3> DEFINE j == d[k].slot
    <3>4. /\ t[j].node = s[j].node /\ t[j].sequence = s[j].sequence
          /\ Leased(t[j]) <=> Leased(s[j])
          /\ InUse(t[j]) <=> InUse(s[j])
      BY <1>3, <3>1
    <3>5. e[k].slot = j /\ e[k].node = d[k].node /\ e[k].sent = d[k].sent
      BY <2>2
    <3> HIDE DEF j
    <3>6. ASSUME e[k].node = t[j].node
          PROVE  /\ InUse(t[j]) /\ e[k].sent = t[j].sequence
                 /\ Leased(t[j]) \/ \E l \in 1..Len(e) :
                      k < l /\ e[l].kind = "drained" /\ e[l].slot = j /\ e[l].sequence = t[j].sequence
      <4>1. /\ InUse(s[j]) /\ d[k].sent = s[j].sequence
            /\ Leased(s[j]) \/ \E l \in 1..Len(d) :
                 k < l /\ d[l].kind = "drained" /\ d[l].slot = j /\ d[l].sequence = s[j].sequence
        BY <3>2, <3>4, <3>5, <3>6 DEF j
      <4> QED BY <3>3, <3>4, <3>5, <4>1
    <3> QED BY <3>2, <3>4, <3>5, <3>6 DEF j
  <2> QED BY <1>5, <2>1, <2>2
<1>9. MessagesAreOwn(t, e)
  BY <1>6, <1>7, <1>8 DEF MessagesAreOwn
<1> QED BY <1>4, <1>9 DEF e

-----------------------------------------------------------------------------
(* The steps that only call and return. *)

\* A step that changes the stack alone.
LEMMA StackStep ==
  ASSUME HttpInv, stack' \in Seq(Frames), TrimIsLast(stack'),
         Drainees(stack') = Drainees(stack),
         UNCHANGED <<requests, waiting, slots, nextId, closed, inTree, deferred, outcome>>
  PROVE  HttpInv'
<1>1. HttpTypes'
  BY DEF HttpInv, HttpTypes, Live
<1>2. PoolIsTrimmed(slots', stack')
  BY DEF HttpInv, PoolIsTrimmed
<1>3. OutcomesAreLast'
  BY DEF HttpInv, OutcomesAreLast, Live
<1> QED BY <1>1, <1>2, <1>3 DEF HttpInv

\* Calls of process_requests(), and returns from it and from completions.
LEMMA CallStep ==
  ASSUME HttpInv, ProcessFrame \/ ExpireDone \/ StartStop \/ Return
  PROVE  HttpInv'
<1>1. stack \in Seq(Frames) /\ TrimIsLast(stack) /\ Live \subseteq Ids
  BY DEF HttpInv, HttpTypes, PoolIsTrimmed, RequestsAreHeld, Live
<1>2. CASE ProcessFrame
  <2>1. stack' = ProcessRequests(requests) \o stack
    BY <1>2 DEF ProcessFrame, ProcessRequests, Starting
  <2>2. /\ stack' \in Seq(Frames) /\ TrimIsLast(stack')
        /\ Drainees(stack') = Drainees(stack)
    BY <1>1, <2>1, ProcessKeepsStack DEF Live
  <2> QED BY <1>2, <2>2, StackStep DEF ProcessFrame
<1>3. CASE ExpireDone
  <2>1. stack # <<>> /\ Head(stack).at # "trim" /\ stack' = Starting \o Tail(stack)
    BY <1>3 DEF ExpireDone, Running, Top
  <2>2. /\ Tail(stack) \in Seq(Frames) /\ TrimIsLast(Tail(stack))
        /\ Drainees(Tail(stack)) = Drainees(stack)
    BY <1>1, <2>1, ReturnKeepsStack
  <2>3. /\ stack' \in Seq(Frames) /\ TrimIsLast(stack')
        /\ Drainees(stack') = Drainees(stack)
    BY <1>1, <2>1, <2>2, ProcessKeepsStack DEF Live
  <2> QED BY <1>3, <2>3, StackStep DEF ExpireDone
<1>4. CASE StartStop \/ Return
  <2>1. stack # <<>> /\ Head(stack).at # "trim" /\ stack' = Tail(stack)
    BY <1>4 DEF StartStop, Return, Running, Top
  <2>2. /\ stack' \in Seq(Frames) /\ TrimIsLast(stack')
        /\ Drainees(stack') = Drainees(stack)
    BY <1>1, <2>1, ReturnKeepsStack
  <2> QED BY <1>4, <2>2, StackStep DEF StartStop, Return
<1> QED BY <1>2, <1>3, <1>4

\* The service enters the tree.
LEMMA EnterTreeStep ==
  ASSUME HttpInv, EnterTree
  PROVE  HttpInv'
<1>1. HttpTypes'
  BY DEF HttpInv, HttpTypes, Live, EnterTree
<1>2. OutcomesAreLast'
  BY DEF HttpInv, OutcomesAreLast, Live, EnterTree
<1> QED BY <1>1, <1>2 DEF HttpInv, EnterTree

\* Time passes.
LEMMA DeadlineStep ==
  ASSUME HttpInv, NEW id, Deadline(id)
  PROVE  HttpInv'
<1>1. /\ Live' = Live /\ \A x \in Live : requests'[x].cancelled = requests[x].cancelled
      /\ requests' \in [Live' -> Request]
  <2>1. requests \in [Live -> Request] /\ id \in Live
    BY DEF HttpInv, HttpTypes, Deadline
  <2>2. requests' = [requests EXCEPT ![id] = [requests[id] EXCEPT !.due = TRUE]]
    BY DEF Deadline
  <2>3. /\ [requests[id] EXCEPT !.due = TRUE] \in Request
        /\ [requests[id] EXCEPT !.due = TRUE].cancelled = requests[id].cancelled
    BY <2>1 DEF Request
  <2>4. Live' = Live
    BY <2>1, <2>2 DEF Live
  <2> QED BY <2>1, <2>2, <2>3, <2>4
<1>2. UNCHANGED <<waiting, slots, nextId, closed, inTree, deferred, stack, outcome>>
  BY DEF Deadline
<1>3. HttpTypes'
  BY <1>1, <1>2 DEF HttpInv, HttpTypes
<1>4. RequestsAreHeld(requests', waiting', slots', nextId')
  <2>1. /\ Distinct(waiting) /\ RequestsAreHeld(requests, waiting, slots, nextId)
        /\ DOMAIN requests' = DOMAIN requests
    BY <1>1 DEF HttpInv, RequestsAreHeld, Live
  <2>2. \A j \in 1..Len(slots) : Leased(slots[j]) =>
          slots[j].request \in DOMAIN requests /\ ~requests[slots[j].request].cancelled
    BY <2>1 DEF RequestsAreHeld
  <2>3. \A x \in DOMAIN requests : requests[x].cancelled =>
          \E j \in 1..Len(slots) : InUse(slots[j]) /\ slots[j].request = x
    BY <2>1 DEF RequestsAreHeld
  <2>4. RequestsAreHeld(requests', waiting, slots, nextId)
    BY <1>1, <2>1, <2>2, <2>3, RequestsStayHeld DEF Live
  <2> QED BY <1>2, <2>4
<1>5. OutcomesAreLast'
  BY <1>1, <1>2 DEF HttpInv, OutcomesAreLast
<1> QED BY <1>2, <1>3, <1>4, <1>5 DEF HttpInv

-----------------------------------------------------------------------------
(* The steps on requests that wait. *)

\* submit(): the new request waits.
LEMMA SubmitStep ==
  ASSUME HttpInv, NEW spec \in Specs, Submit(spec)
  PROVE  HttpInv'
<1> DEFINE n == nextId
           new == [body |-> spec.body, limit |-> spec.limit, timed |-> spec.timed,
                   due |-> FALSE, redirects |-> 0, cancelled |-> FALSE]
<1>1. /\ requests \in [Live -> Request] /\ n \in Ids /\ n \in Nat /\ n + 1 \in 1..(MaxRequests + 1)
      /\ Live \subseteq Ids /\ \A x \in Live : x < n
  <2>1. /\ requests \in [Live -> Request] /\ nextId \in 1..(MaxRequests + 1)
        /\ RequestsAreHeld(requests, waiting, slots, nextId)
    BY DEF HttpInv, HttpTypes
  <2>2. nextId <= MaxRequests
    BY DEF Submit
  <2>3. \A x \in Live : x \in Ids /\ x < nextId
    BY <2>1 DEF RequestsAreHeld, Live
  <2> QED BY <2>1, <2>2, <2>3 DEF Ids
<1>2. /\ requests' = [x \in Live \cup {n} |-> IF x = n THEN new ELSE requests[x]]
      /\ waiting' = Append(waiting, n) /\ nextId' = n + 1
      /\ stack' = ProcessRequests(requests') \o stack
      /\ UNCHANGED <<slots, closed, inTree, deferred, outcome>>
  BY DEF Submit
<1>3. new \in Request /\ ~new.cancelled
  BY DEF Request
<1> HIDE DEF new, n
<1>4. /\ Live' = Live \cup {n} /\ requests'[n] = new /\ n \notin Live
      /\ \A x \in Live : requests'[x] = requests[x]
      /\ requests' \in [Live' -> Request]
  BY <1>1, <1>2, <1>3 DEF Live
<1>5. /\ waiting \in Seq(Ids) /\ slots \in Seq(Slot)
      /\ RequestsAreHeld(requests, waiting, slots, nextId)
  BY DEF HttpInv, HttpTypes
<1>6. /\ waiting' \in Seq(Ids) /\ Len(waiting') = Len(waiting) + 1 /\ Len(waiting) \in Nat
      /\ \A k \in 1..Len(waiting) : waiting'[k] = waiting[k]
      /\ waiting'[Len(waiting) + 1] = n
  BY <1>1, <1>2, <1>5, WithLast
<1>7. ASSUME NEW k \in 1..Len(waiting')
      PROVE  \/ k = Len(waiting) + 1 /\ waiting'[k] = n
             \/ k \in 1..Len(waiting) /\ waiting'[k] = waiting[k] /\ waiting[k] < n
                  /\ waiting[k] \in Nat
  <2>1. \A m \in 1..Len(waiting) : waiting[m] < n /\ waiting[m] \in Nat
    BY <1>5 DEF RequestsAreHeld, n, Ids
  <2>2. k = Len(waiting) + 1 \/ k \in 1..Len(waiting)
    BY <1>6
  <2> QED BY <1>6, <2>1, <2>2
<1>8. stack' \in Seq(Frames) /\ TrimIsLast(stack') /\ Drainees(stack') = Drainees(stack)
  <2>1. stack \in Seq(Frames) /\ TrimIsLast(stack) /\ DOMAIN requests' \subseteq Ids
    BY <1>1, <1>4 DEF HttpInv, HttpTypes, PoolIsTrimmed, Live
  <2> QED BY <1>2, <2>1, ProcessKeepsStack
<1>9. HttpTypes'
  BY <1>1, <1>2, <1>4, <1>6, <1>8 DEF HttpInv, HttpTypes
<1>10. PoolIsTrimmed(slots', stack')
  BY <1>2, <1>8 DEF HttpInv, PoolIsTrimmed
<1>11. OutcomesAreLast'
  BY <1>1, <1>2, <1>4 DEF HttpInv, OutcomesAreLast, n, Ids
<1>12. RequestsAreHeld(requests', waiting', slots', nextId')
  <2>1. \A x \in DOMAIN requests' : x \in Ids /\ x < n + 1
    BY <1>1, <1>4 DEF Live, Ids
  <2>2. Distinct(waiting')
    <3>1. ASSUME NEW k \in 1..Len(waiting'), NEW l \in 1..Len(waiting'), waiting'[k] = waiting'[l]
          PROVE  k = l
      <4>1. Distinct(waiting)
        BY <1>5 DEF RequestsAreHeld
      <4>2. CASE k \in 1..Len(waiting) /\ l \in 1..Len(waiting)
        BY <1>6, <3>1, <4>1, <4>2 DEF Distinct
      <4>3. CASE k = Len(waiting) + 1 \/ l = Len(waiting) + 1
        <5>1. waiting'[k] = n /\ waiting'[l] = n
          BY <1>6, <3>1, <4>3
        <5>2. ~(n < n)
          BY <1>1
        <5> QED BY <1>7, <5>1, <5>2
      <4> QED BY <1>7, <4>2, <4>3
    <3> QED BY <3>1 DEF Distinct
  <2>3. ASSUME NEW k \in 1..Len(waiting') PROVE waiting'[k] < n + 1
    <3>1. waiting'[k] = n \/ (waiting'[k] \in Nat /\ waiting'[k] < n)
      BY <1>7
    <3> QED BY <1>1, <3>1
  <2>4. ASSUME NEW j \in 1..Len(slots), InUse(slots[j])
        PROVE  slots[j].request < n + 1 /\ slots[j].request # n
    <3>1. slots[j].request < n
      BY <1>5, <2>4 DEF RequestsAreHeld, n
    <3>2. slots[j].request \in Nat
      BY <1>5, SlotFields
    <3> QED BY <1>1, <3>1, <3>2
  <2>5. \A x : Waits(waiting', x) <=> Waits(waiting, x) \/ x = n
    <3>1. Len(waiting) + 1 \in 1..Len(waiting') /\ \A k \in 1..Len(waiting) : k \in 1..Len(waiting')
      BY <1>6
    <3> QED BY <1>6, <1>7, <3>1 DEF Waits
  <2>6. ASSUME NEW j \in 1..Len(slots), Leased(slots[j])
        PROVE  /\ slots[j].request \in DOMAIN requests' /\ ~requests'[slots[j].request].cancelled
               /\ ~Waits(waiting', slots[j].request)
    <3>1. /\ slots[j].request \in Live /\ ~requests[slots[j].request].cancelled
          /\ ~Waits(waiting, slots[j].request)
      BY <1>5, <2>6 DEF RequestsAreHeld, Live
    <3> QED BY <1>4, <2>5, <3>1 DEF Live
  <2>7. ASSUME NEW x \in DOMAIN requests'
        PROVE  IF requests'[x].cancelled
               THEN \E j \in 1..Len(slots) : InUse(slots[j]) /\ slots[j].request = x
               ELSE \/ Waits(waiting', x)
                    \/ \E j \in 1..Len(slots) : Leased(slots[j]) /\ slots[j].request = x
    <3>1. CASE x = n
      BY <1>3, <1>4, <2>5, <3>1
    <3>2. CASE x \in Live
      BY <1>4, <1>5, <2>5, <3>2 DEF RequestsAreHeld, Live
    <3> QED BY <1>4, <2>7, <3>1, <3>2 DEF Live
  <2> QED BY <1>2, <2>1, <2>2, <2>3, <2>4, <2>6, <2>7, Zenon DEF RequestsAreHeld
<1> QED BY <1>2, <1>9, <1>10, <1>11, <1>12 DEF HttpInv

\* The queue's front is gone by the time it is looked at.
LEMMA StartSkipStep ==
  ASSUME HttpInv, StartSkip
  PROVE  HttpInv'
<1>1. /\ waiting # <<>> /\ Head(waiting) \notin Live /\ waiting' = Tail(waiting)
      /\ UNCHANGED <<requests, slots, nextId, closed, inTree, deferred, stack, outcome>>
  BY DEF StartSkip
<1>2. /\ waiting \in Seq(Ids) /\ RequestsAreHeld(requests, waiting, slots, nextId)
      /\ Distinct(waiting)
  BY DEF HttpInv, HttpTypes, RequestsAreHeld
<1>3. /\ waiting' \in Seq(Ids) /\ Distinct(waiting')
      /\ \A x : Waits(waiting', x) <=> Waits(waiting, x) /\ x # Head(waiting)
  BY <1>1, <1>2, FrontLeaves
<1>4. HttpTypes'
  BY <1>1, <1>3 DEF HttpInv, HttpTypes, Live
<1>5. OutcomesAreLast'
  BY <1>1 DEF HttpInv, OutcomesAreLast, Live
<1>6. RequestsAreHeld(requests, waiting', slots, nextId)
  <2>1. \A j \in 1..Len(slots) : Leased(slots[j]) =>
          slots[j].request \in DOMAIN requests /\ ~requests[slots[j].request].cancelled
    BY <1>2 DEF RequestsAreHeld
  <2>2. \A x \in DOMAIN requests :
          /\ requests[x].cancelled =>
               \E j \in 1..Len(slots) : InUse(slots[j]) /\ slots[j].request = x
          /\ Waits(waiting, x) => Waits(waiting', x)
    BY <1>1, <1>2, <1>3 DEF RequestsAreHeld, Live
  <2> QED BY <1>2, <1>3, <2>1, <2>2, RequestsStayHeld
<1> QED BY <1>1, <1>4, <1>5, <1>6 DEF HttpInv

-----------------------------------------------------------------------------
(* The steps that settle a request, or cancel it. *)

\* A request that is settled is gone, and the others have not ended.
LEMMA RequestGoes ==
  ASSUME HttpInv, NEW id \in Live, NEW how \in Outcomes, requests' = Without(id),
         outcome' = [outcome EXCEPT ![id] = how], nextId' = nextId
  PROVE  /\ Live' = Live \ {id} /\ DOMAIN requests' = DOMAIN requests \ {id}
         /\ \A x \in Live' : requests'[x] = requests[x]
         /\ requests' \in [Live' -> Request] /\ outcome' \in [Ids -> Outcomes]
         /\ OutcomesAreLast' /\ Live' \subseteq Ids /\ id \in Ids
<1>1. /\ requests \in [Live -> Request] /\ outcome \in [Ids -> Outcomes]
      /\ Live \subseteq Ids /\ id < nextId /\ nextId \in Nat /\ OutcomesAreLast
  BY DEF HttpInv, HttpTypes, RequestsAreHeld, Live
<1>2. requests' = [x \in Live \ {id} |-> requests[x]]
  BY DEF Without, Restrict
<1>3. /\ Live' = Live \ {id} /\ DOMAIN requests' = DOMAIN requests \ {id}
      /\ \A x \in Live' : requests'[x] = requests[x]
      /\ requests' \in [Live' -> Request]
  BY <1>1, <1>2 DEF Live
<1>4. outcome' \in [Ids -> Outcomes] /\ \A x \in Ids : x # id => outcome'[x] = outcome[x]
  BY <1>1
<1>5. OutcomesAreLast'
  <2>1. ASSUME NEW x \in Ids, x \in Live' \/ x >= nextId PROVE outcome'[x] = "none"
    <3>1. x # id /\ (x \in Live \/ x >= nextId)
      BY <1>1, <1>3, <2>1 DEF Ids
    <3> QED BY <1>1, <1>4, <3>1 DEF OutcomesAreLast
  <2> QED BY <2>1 DEF OutcomesAreLast
<1> QED BY <1>1, <1>3, <1>4, <1>5

\* quarantine() of a slot in use, with what it does to the pool, the messages and the leases.
LEMMA QuarantineStep ==
  ASSUME NEW s \in Seq(Slot), Len(s) <= MaxActive, NEW i \in 1..Len(s), InUse(s[i]),
         PoolIsSound(s), NEW d \in Seq(Messages), MessagesAreOwn(s, d)
  PROVE  /\ Quarantined(s, i) \in Seq(Slot) /\ Len(Quarantined(s, i)) = Len(s)
         /\ PoolIsSound(Quarantined(s, i)) /\ d \o Draining(s, i) \in Seq(Messages)
         /\ MessagesAreOwn(Quarantined(s, i), d \o Draining(s, i))
         /\ IdleNodes(Quarantined(s, i)) = IdleNodes(s)
         /\ \A j \in 1..Len(s) :
              /\ InUse(Quarantined(s, i)[j]) <=> InUse(s[j])
              /\ Quarantined(s, i)[j].request = s[j].request
              /\ Leased(Quarantined(s, i)[j]) <=> Leased(s[j]) /\ s[j].request # s[i].request
<1> DEFINE q == Quarantined(s, i)
<1>1. /\ q \in Seq(Slot) /\ Len(q) = Len(s) /\ \A j \in 1..Len(s) : j # i => q[j] = s[j]
      /\ q[i].state = "draining" /\ q[i].request = s[i].request
  BY QuarantinedSlots
<1> HIDE DEF q
<1>2. ASSUME NEW j \in 1..Len(s)
      PROVE  /\ InUse(q[j]) <=> InUse(s[j])
             /\ q[j].request = s[j].request
             /\ Leased(q[j]) <=> Leased(s[j]) /\ s[j].request # s[i].request
  <2>1. CASE j = i
    BY <1>1, <2>1 DEF InUse, Leased
  <2>2. CASE j # i
    <3>1. q[j] = s[j]
      BY <1>1, <2>2
    <3>2. Leased(s[j]) => InUse(s[j])
      BY DEF InUse, Leased
    <3>3. InUse(s[j]) => s[j].request # s[i].request
      BY <2>2 DEF PoolIsSound
    <3> QED BY <3>1, <3>2, <3>3
  <2> QED BY <2>1, <2>2
<1> QED BY <1>1, <1>2, QuarantineKeepsPool, QuarantineKeepsMessages, QuarantineKeepsIdle DEF q

\* The slot that a request has.
LEMMA SlotOfRequest ==
  ASSUME NEW id, SlotsOf(id) # {}
  PROVE  /\ Min(SlotsOf(id)) \in 1..Len(slots) /\ InUse(slots[Min(SlotsOf(id))])
         /\ slots[Min(SlotsOf(id))].request = id
<1>1. SlotsOf(id) \in SUBSET Nat
  BY DEF SlotsOf
<1>2. Min(SlotsOf(id)) \in SlotsOf(id)
  BY <1>1, MinIsIn
<1>3. \A i \in SlotsOf(id) : i \in 1..Len(slots) /\ InUse(slots[i]) /\ slots[i].request = id
  BY DEF SlotsOf, InUse
<1> QED BY <1>2, <1>3

\* cancel() of a request that waits: it is gone.
LEMMA CancelWaitingStep ==
  ASSUME HttpInv, NEW id, CancelWaiting(id)
  PROVE  HttpInv'
<1>1. /\ id \in Live /\ SlotsOf(id) = {} /\ requests' = Without(id)
      /\ waiting' = RemoveFirst(waiting, id) /\ outcome' = [outcome EXCEPT ![id] = "dropped"]
      /\ UNCHANGED <<slots, nextId, closed, inTree, deferred, stack>>
  BY DEF CancelWaiting
<1>2. /\ Live' = Live \ {id} /\ DOMAIN requests' = DOMAIN requests \ {id}
      /\ \A x \in Live' : requests'[x] = requests[x]
      /\ requests' \in [Live' -> Request] /\ outcome' \in [Ids -> Outcomes]
      /\ OutcomesAreLast'
  <2>1. "dropped" \in Outcomes
    BY DEF Outcomes
  <2> QED BY <1>1, <2>1, RequestGoes
<1>3. /\ waiting \in Seq(Ids) /\ RequestsAreHeld(requests, waiting, slots, nextId)
      /\ Distinct(waiting)
  BY DEF HttpInv, HttpTypes, RequestsAreHeld
<1>4. /\ waiting' \in Seq(Ids) /\ Distinct(waiting')
      /\ \A x : Waits(waiting', x) <=> Waits(waiting, x) /\ x # id
  BY <1>1, <1>3, OneLeaves
<1>5. HttpTypes'
  BY <1>1, <1>2, <1>4 DEF HttpInv, HttpTypes
<1>6. RequestsAreHeld(requests', waiting', slots, nextId)
  <2>1. ASSUME NEW j \in 1..Len(slots), Leased(slots[j])
        PROVE  slots[j].request \in DOMAIN requests' /\ ~requests'[slots[j].request].cancelled
    <3>1. slots[j].request \in Live /\ ~requests[slots[j].request].cancelled
      BY <1>3, <2>1 DEF RequestsAreHeld, Live
    <3>2. slots[j].request # id
      BY <1>1, <2>1 DEF SlotsOf, Leased
    <3> QED BY <1>2, <3>1, <3>2 DEF Live
  <2>2. ASSUME NEW x \in DOMAIN requests'
        PROVE  /\ requests'[x] = requests[x] /\ (Waits(waiting, x) => Waits(waiting', x))
               /\ requests'[x].cancelled =>
                    \E j \in 1..Len(slots) : InUse(slots[j]) /\ slots[j].request = x
    <3>1. x \in DOMAIN requests /\ x # id /\ requests'[x] = requests[x]
      BY <1>2, <2>2 DEF Live
    <3> QED BY <1>3, <1>4, <3>1 DEF RequestsAreHeld
  <2> QED BY <1>2, <1>3, <1>4, <2>1, <2>2, RequestsStayHeld
<1> QED BY <1>1, <1>2, <1>5, <1>6 DEF HttpInv

\* A request that is cancelled on the wire keeps its slot, which drains.
LEMMA CancelledRequestStays ==
  ASSUME NEW rs, NEW w, NEW s, NEW n, RequestsAreHeld(rs, w, s, n), NEW rt, NEW t,
         NEW i \in 1..Len(s), NEW id, InUse(s[i]), s[i].request = id,
         DOMAIN rt = DOMAIN rs, rt[id].cancelled, \A x \in DOMAIN rs : x # id => rt[x] = rs[x],
         Len(t) = Len(s),
         \A j \in 1..Len(s) :
           /\ InUse(t[j]) <=> InUse(s[j])
           /\ t[j].request = s[j].request
           /\ Leased(t[j]) <=> Leased(s[j]) /\ s[j].request # id
  PROVE  RequestsAreHeld(rt, w, t, n)
<1>1. Distinct(w)
  BY DEF RequestsAreHeld
<1>2. ASSUME NEW j \in 1..Len(s), Leased(t[j])
      PROVE  Leased(s[j]) /\ s[j].request \in DOMAIN rt /\ ~rt[s[j].request].cancelled
  <2>1. Leased(s[j]) /\ s[j].request # id
    BY <1>2
  <2>2. s[j].request \in DOMAIN rs /\ ~rs[s[j].request].cancelled
    BY <2>1 DEF RequestsAreHeld
  <2> QED BY <2>1, <2>2
<1>3. ASSUME NEW x \in DOMAIN rt
      PROVE  IF rt[x].cancelled THEN \E j \in 1..Len(s) : InUse(t[j]) /\ s[j].request = x
             ELSE /\ ~rs[x].cancelled
                  /\ \A j \in 1..Len(s) : Leased(s[j]) /\ s[j].request = x => Leased(t[j])
  <2>1. CASE x = id
    BY <2>1
  <2>2. CASE x # id
    <3>1. x \in DOMAIN rs /\ rt[x] = rs[x]
      BY <2>2
    <3>2. rs[x].cancelled => \E j \in 1..Len(s) : InUse(s[j]) /\ s[j].request = x
      BY <3>1 DEF RequestsAreHeld
    <3> QED BY <2>2, <3>1, <3>2
  <2> QED BY <2>1, <2>2
<1> QED BY <1>1, <1>2, <1>3, RequestsStayHeld

\* cancel() of a request that has a slot: it is settled when the slot has drained.
LEMMA CancelActiveStep ==
  ASSUME HttpInv, NEW id, CancelActive(id)
  PROVE  HttpInv'
<1> DEFINE i == Min(SlotsOf(id))
<1>1. /\ id \in Live /\ slots' = Quarantined(slots, i) /\ deferred' = deferred \o Draining(slots, i)
      /\ requests' = [requests EXCEPT ![id].cancelled = TRUE]
      /\ UNCHANGED <<waiting, nextId, closed, inTree, stack, outcome>>
  BY DEF CancelActive, Drainage, Draining
<1>2. i \in 1..Len(slots) /\ InUse(slots[i]) /\ slots[i].request = id
  BY SlotOfRequest DEF CancelActive
<1> HIDE DEF i
<1>3. /\ slots \in Seq(Slot) /\ Len(slots) <= MaxActive /\ PoolIsSound(slots)
      /\ deferred \in Seq(Messages) /\ MessagesAreOwn(slots, deferred) /\ Distinct(waiting)
      /\ RequestsAreHeld(requests, waiting, slots, nextId) /\ requests \in [Live -> Request]
      /\ stack \in Seq(Frames) /\ PoolIsTrimmed(slots, stack) /\ TrimIsLast(stack)
  BY DEF HttpInv, HttpTypes, RequestsAreHeld, PoolIsTrimmed
<1>4. /\ slots' \in Seq(Slot) /\ Len(slots') = Len(slots)
      /\ PoolIsSound(slots') /\ deferred' \in Seq(Messages) /\ MessagesAreOwn(slots', deferred')
      /\ IdleNodes(slots') = IdleNodes(slots)
      /\ \A j \in 1..Len(slots) :
           /\ InUse(slots'[j]) <=> InUse(slots[j])
           /\ slots'[j].request = slots[j].request
           /\ Leased(slots'[j]) <=> Leased(slots[j]) /\ slots[j].request # id
  <2> DEFINE q == Quarantined(slots, i)
             e == deferred \o Draining(slots, i)
  <2>1. /\ q \in Seq(Slot) /\ Len(q) = Len(slots)
        /\ PoolIsSound(q) /\ e \in Seq(Messages) /\ MessagesAreOwn(q, e)
        /\ IdleNodes(q) = IdleNodes(slots)
        /\ \A j \in 1..Len(slots) :
             /\ InUse(q[j]) <=> InUse(slots[j])
             /\ q[j].request = slots[j].request
             /\ Leased(q[j]) <=> Leased(slots[j]) /\ slots[j].request # slots[i].request
    BY <1>2, <1>3, QuarantineStep
  <2>2. slots' = q /\ deferred' = e
    BY <1>1
  <2> HIDE DEF q, e
  <2> QED BY <1>2, <2>1, <2>2
<1>5. /\ Live' = Live /\ requests' \in [Live' -> Request] /\ requests'[id].cancelled
      /\ \A x \in Live : x # id => requests'[x] = requests[x]
  <2> DEFINE r == [requests[id] EXCEPT !.cancelled = TRUE]
  <2>1. r \in Request /\ r.cancelled
    BY <1>1, <1>3 DEF Request
  <2>2. requests' = [requests EXCEPT ![id] = r]
    BY <1>1
  <2> HIDE DEF r
  <2> QED BY <1>1, <1>3, <2>1, <2>2 DEF Live
<1>6. HttpTypes'
  BY <1>1, <1>3, <1>4, <1>5 DEF HttpInv, HttpTypes
<1>7. RequestsAreHeld(requests', waiting, slots', nextId)
  <2>1. /\ DOMAIN requests' = DOMAIN requests
        /\ \A x \in DOMAIN requests : x # id => requests'[x] = requests[x]
    BY <1>5 DEF Live
  <2> DEFINE t == slots'
             rt == requests'
  <2>2. /\ DOMAIN rt = DOMAIN requests /\ rt[id].cancelled
        /\ \A x \in DOMAIN requests : x # id => rt[x] = requests[x]
    BY <1>5, <2>1
  <2>3. /\ Len(t) = Len(slots)
        /\ \A j \in 1..Len(slots) :
             /\ InUse(t[j]) <=> InUse(slots[j])
             /\ t[j].request = slots[j].request
             /\ Leased(t[j]) <=> Leased(slots[j]) /\ slots[j].request # id
    BY <1>4
  <2>4. RequestsAreHeld(requests, waiting, slots, nextId)
    BY <1>3
  <2> HIDE DEF t, rt
  <2>5. RequestsAreHeld(rt, waiting, t, nextId)
    BY <1>2, <2>2, <2>3, <2>4, CancelledRequestStays
  <2> QED BY <2>5 DEF t, rt
<1>8. PoolIsTrimmed(slots', stack)
  BY <1>3, <1>4 DEF PoolIsTrimmed
<1>9. OutcomesAreLast'
  BY <1>1, <1>5 DEF HttpInv, OutcomesAreLast
<1> QED BY <1>1, <1>4, <1>6, <1>7, <1>8, <1>9 DEF HttpInv

\* A request has gone from the service, and from the pool, where its slot may drain.
GoneFrom(rs, rt, id) == DOMAIN rt = DOMAIN rs \ {id} /\ \A x \in DOMAIN rt : rt[x] = rs[x]
GoneFromPool(s, t, id) ==
  /\ Len(t) = Len(s)
  /\ \A j \in 1..Len(s) :
       /\ InUse(t[j]) => InUse(s[j]) /\ t[j].request = s[j].request
       /\ InUse(s[j]) /\ s[j].request # id => InUse(t[j])
       /\ Leased(t[j]) <=> Leased(s[j]) /\ s[j].request # id

\* A request that is settled leaves its slot behind, if it has one.
LEMMA SettledRequestGoes ==
  ASSUME NEW rs, NEW w, NEW s, NEW n, RequestsAreHeld(rs, w, s, n), NEW id, NEW rt, NEW t,
         GoneFrom(rs, rt, id), GoneFromPool(s, t, id)
  PROVE  RequestsAreHeld(rt, w, t, n)
<1> USE DEF GoneFrom, GoneFromPool
<1>1. Distinct(w) /\ DOMAIN rt \subseteq DOMAIN rs
  BY DEF RequestsAreHeld
<1>2. ASSUME NEW j \in 1..Len(s), Leased(t[j])
      PROVE  Leased(s[j]) /\ s[j].request \in DOMAIN rt /\ ~rt[s[j].request].cancelled
  <2>1. Leased(s[j]) /\ s[j].request # id
    BY <1>2
  <2>2. s[j].request \in DOMAIN rs /\ ~rs[s[j].request].cancelled
    BY <2>1 DEF RequestsAreHeld
  <2> QED BY <2>1, <2>2
<1>3. ASSUME NEW x \in DOMAIN rt
      PROVE  IF rt[x].cancelled THEN \E j \in 1..Len(s) : InUse(t[j]) /\ s[j].request = x
             ELSE /\ ~rs[x].cancelled
                  /\ \A j \in 1..Len(s) : Leased(s[j]) /\ s[j].request = x => Leased(t[j])
  <2>1. x \in DOMAIN rs /\ x # id /\ rt[x] = rs[x]
    OBVIOUS
  <2>2. rs[x].cancelled => \E j \in 1..Len(s) : InUse(s[j]) /\ s[j].request = x
    BY <2>1 DEF RequestsAreHeld
  <2> QED BY <2>1, <2>2
<1> QED BY <1>1, <1>2, <1>3, RequestsStayHeld

\* settle(), with what its caller does to the pool and to Godot's queue.
LEMMA SettleStep ==
  ASSUME HttpInv, NEW id \in Live, NEW how \in Outcomes, requests' = Without(id),
         outcome' = [outcome EXCEPT ![id] = how],
         UNCHANGED <<waiting, nextId, closed, inTree>>,
         slots' \in Seq(Slot), Len(slots') <= MaxActive, PoolIsSound(slots'),
         deferred' \in Seq(Messages), MessagesAreOwn(slots', deferred'),
         stack' \in Seq(Frames), TrimIsLast(stack'),
         IdleNodes(slots') \ Drainees(stack') \subseteq IdleNodes(slots) \ Drainees(stack),
         GoneFromPool(slots, slots', id)
  PROVE  HttpInv'
<1>1. /\ Live' = Live \ {id} /\ DOMAIN requests' = DOMAIN requests \ {id}
      /\ \A x \in Live' : requests'[x] = requests[x]
      /\ requests' \in [Live' -> Request] /\ outcome' \in [Ids -> Outcomes]
      /\ OutcomesAreLast'
  BY RequestGoes
<1>2. HttpTypes'
  BY <1>1 DEF HttpInv, HttpTypes
<1>3. PoolIsTrimmed(slots', stack')
  BY FewerNodesIdle DEF HttpInv, HttpTypes
<1>4. RequestsAreHeld(requests', waiting, slots', nextId)
  <2>1. GoneFrom(requests, requests', id)
    BY <1>1 DEF GoneFrom, Live
  <2>2. RequestsAreHeld(requests, waiting, slots, nextId)
    BY DEF HttpInv
  <2> QED BY <2>1, <2>2, SettledRequestGoes
<1> QED BY <1>1, <1>2, <1>3, <1>4 DEF HttpInv

\* The next of the requests that have expired is settled, if it is still there.
LEMMA ExpireStep ==
  ASSUME HttpInv, Expire
  PROVE  HttpInv'
<1> DEFINE id == Min(Top.ids)
           f == [Top EXCEPT !.ids = @ \ {id}]
           rest == <<f>> \o Tail(stack)
           i == Min(SlotsOf(id))
<1>1. /\ stack \in Seq(Frames) /\ TrimIsLast(stack) /\ stack # <<>> /\ Top.at = "expire"
      /\ Top.ids # {} /\ Top = Head(stack)
  BY DEF HttpInv, HttpTypes, PoolIsTrimmed, Expire, Running, Top
<1>2. Top \in [at : {"expire"}, ids : SUBSET Ids]
  <2>1. Top \in Frames
    BY <1>1, WithoutFirst
  <2> QED BY <1>1, <2>1 DEF Frames
<1>3. id \in Top.ids /\ id \in Ids
  <2>1. Top.ids \in SUBSET Nat /\ Top.ids # {} /\ Top.ids \in SUBSET Ids
    BY <1>1, <1>2 DEF Ids
  <2> QED BY <2>1, MinIsIn
<1> HIDE DEF id
<1>4. f \in Frames /\ f.at # "trim"
  <2>1. f \in [at : {"expire"}, ids : SUBSET Ids]
    BY <1>2
  <2> QED BY <2>1 DEF Frames
<1> HIDE DEF f
<1>5. /\ Tail(stack) \in Seq(Frames) /\ TrimIsLast(Tail(stack))
      /\ Drainees(Tail(stack)) = Drainees(stack)
  BY <1>1, ReturnKeepsStack
<1>6. rest \in Seq(Frames) /\ TrimIsLast(rest) /\ Drainees(rest) = Drainees(stack)
  BY <1>4, <1>5, CallKeepsStack
<1> HIDE DEF rest
<1>7. CASE id \notin Live
  <2>1. /\ stack' = rest
        /\ UNCHANGED <<requests, waiting, slots, nextId, closed, inTree, deferred, outcome>>
    BY <1>7 DEF Expire, rest, f, id
  <2> QED BY <1>6, <2>1, StackStep
<1>8. CASE id \in Live
  <2>1. /\ Settle(id, "timed out", rest) /\ UNCHANGED <<waiting, nextId, closed, inTree>>
        /\ IF SlotsOf(id) = {} THEN UNCHANGED <<slots, deferred>>
           ELSE slots' = Quarantined(slots, i) /\ deferred' = deferred \o Draining(slots, i)
    BY <1>8 DEF Expire, rest, f, id, Drainage, Draining
  <2>2. /\ requests' = Without(id) /\ outcome' = [outcome EXCEPT ![id] = "timed out"]
        /\ stack' = <<Callback(id)>> \o rest /\ "timed out" \in Outcomes
    BY <2>1 DEF Settle, Outcomes
  <2>3. stack' \in Seq(Frames) /\ TrimIsLast(stack') /\ Drainees(stack') = Drainees(stack)
    <3>1. Callback(id) \in Frames /\ Callback(id).at # "trim"
      BY <1>3 DEF Callback, Frames
    <3> QED BY <1>6, <2>2, <3>1, CallKeepsStack
  <2>4. /\ slots \in Seq(Slot) /\ Len(slots) <= MaxActive /\ PoolIsSound(slots)
        /\ deferred \in Seq(Messages) /\ MessagesAreOwn(slots, deferred)
    BY DEF HttpInv, HttpTypes
  <2>5. CASE SlotsOf(id) = {}
    <3>1. slots' = slots /\ deferred' = deferred
      BY <2>1, <2>5
    <3>2. \A j \in 1..Len(slots) :
            /\ InUse(slots[j]) => slots[j].request # id
            /\ Leased(slots[j]) <=> Leased(slots[j]) /\ slots[j].request # id
      BY <2>5 DEF SlotsOf, InUse, Leased
    <3>3. GoneFromPool(slots, slots', id)
      BY <3>1, <3>2 DEF GoneFromPool
    <3> QED BY <1>8, <2>1, <2>2, <2>3, <2>4, <3>1, <3>3, SettleStep
  <2>6. CASE SlotsOf(id) # {}
    <3> DEFINE q == Quarantined(slots, i)
               e == deferred \o Draining(slots, i)
    <3>1. i \in 1..Len(slots) /\ InUse(slots[i]) /\ slots[i].request = id
      BY <2>6, SlotOfRequest
    <3>2. /\ q \in Seq(Slot) /\ Len(q) = Len(slots)
          /\ PoolIsSound(q) /\ e \in Seq(Messages) /\ MessagesAreOwn(q, e)
          /\ IdleNodes(q) = IdleNodes(slots)
          /\ \A j \in 1..Len(slots) :
               /\ InUse(q[j]) <=> InUse(slots[j])
               /\ q[j].request = slots[j].request
               /\ Leased(q[j]) <=> Leased(slots[j]) /\ slots[j].request # slots[i].request
      BY <2>4, <3>1, QuarantineStep
    <3>3. slots' = q /\ deferred' = e
      BY <2>1, <2>6
    <3> HIDE DEF q, e
    <3>4. GoneFromPool(slots, q, id)
      BY <3>1, <3>2 DEF GoneFromPool
    <3> QED BY <1>8, <2>1, <2>2, <2>3, <2>4, <3>2, <3>3, <3>4, SettleStep
  <2> QED BY <2>5, <2>6
<1> QED BY <1>7, <1>8

-----------------------------------------------------------------------------
(* The steps that deliver Godot's messages. *)

\* The message that is delivered next, and the slot it is for.
LEMMA NextMessage ==
  ASSUME HttpInv, NEW kind, Delivering(kind)
  PROVE  /\ stack = <<>> /\ deferred # <<>> /\ Message = deferred[1] /\ 1 \in 1..Len(deferred)
         /\ Message \in Messages /\ Message.kind = kind /\ Message.slot \in 1..Len(slots)
         /\ Tail(deferred) \in Seq(Messages) /\ MessagesAreOwn(slots, Tail(deferred))
<1>1. /\ deferred \in Seq(Messages) /\ deferred # <<>> /\ stack = <<>> /\ Message.kind = kind
      /\ MessagesAreOwn(slots, deferred) /\ slots \in Seq(Slot)
  BY DEF HttpInv, HttpTypes, Delivering
<1>2. Message = deferred[1] /\ 1 \in 1..Len(deferred) /\ Message \in Messages
  BY <1>1, WithoutFirst DEF Message
<1>3. Message.slot \in 1..Len(slots)
  BY <1>1, <1>2 DEF MessagesAreOwn
<1> QED BY <1>1, <1>2, <1>3, DeliveryKeepsMessages

\* A completion reaches the request it was sent for, which is live and not cancelled.
LEMMA ReachedRequest ==
  ASSUME HttpInv, Delivering("done"), Reaches(Message)
  PROVE  /\ Message.sent = slots[Message.slot].sequence /\ InUse(slots[Message.slot])
         /\ Leased(slots[Message.slot]) /\ slots[Message.slot].request \in Live
         /\ ~requests[slots[Message.slot].request].cancelled
         /\ ~Waits(waiting, slots[Message.slot].request)
<1>1. /\ Message = deferred[1] /\ 1 \in 1..Len(deferred) /\ Message.kind = "done"
      /\ Message.slot \in 1..Len(slots)
  BY NextMessage
<1>2. slots[Message.slot].node = Message.node /\ Leased(slots[Message.slot])
  BY DEF Reaches, Lessee, Leased
<1>3. MessagesAreOwn(slots, deferred) /\ RequestsAreHeld(requests, waiting, slots, nextId)
  BY DEF HttpInv
<1>4. InUse(slots[Message.slot]) /\ Message.sent = slots[Message.slot].sequence
  BY <1>1, <1>2, <1>3 DEF MessagesAreOwn
<1> QED BY <1>1, <1>2, <1>3, <1>4 DEF RequestsAreHeld, Live

\* A message that comes too late is dropped.
LEMMA DropStep ==
  ASSUME HttpInv, NEW kind, Delivering(kind), deferred' = Tail(deferred),
         UNCHANGED <<requests, waiting, slots, nextId, closed, inTree, stack, outcome>>
  PROVE  HttpInv'
<1>1. deferred' \in Seq(Messages) /\ MessagesAreOwn(slots, deferred')
  BY NextMessage
<1>2. HttpTypes'
  BY <1>1 DEF HttpInv, HttpTypes, Live
<1>3. OutcomesAreLast'
  BY DEF HttpInv, OutcomesAreLast, Live
<1> QED BY <1>1, <1>2, <1>3 DEF HttpInv

\* _completed() settles the request.
LEMMA CompletedStep ==
  ASSUME HttpInv, NEW how \in {"answered", "failed"}, Completed(how)
  PROVE  HttpInv'
<1> DEFINE i == Message.slot
           id == slots[i].request
           q == Quarantined(slots, i)
           e == Tail(deferred) \o Draining(slots, i)
<1>1. /\ slots' = q /\ deferred' = e /\ Settle(id, how, <<>>)
      /\ UNCHANGED <<waiting, nextId, closed, inTree>>
  BY DEF Completed, Drainage, Draining
<1>2. /\ stack = <<>> /\ i \in 1..Len(slots) /\ Tail(deferred) \in Seq(Messages)
      /\ MessagesAreOwn(slots, Tail(deferred))
  BY NextMessage DEF Completed
<1>3. id \in Live /\ InUse(slots[i])
  BY ReachedRequest DEF Completed
<1>4. /\ slots \in Seq(Slot) /\ Len(slots) <= MaxActive /\ PoolIsSound(slots)
      /\ stack \in Seq(Frames) /\ TrimIsLast(stack) /\ Live \subseteq Ids
  BY DEF HttpInv, HttpTypes, PoolIsTrimmed, RequestsAreHeld, Live
<1> HIDE DEF i
<1>5. /\ q \in Seq(Slot) /\ Len(q) = Len(slots)
      /\ PoolIsSound(q) /\ e \in Seq(Messages) /\ MessagesAreOwn(q, e)
      /\ IdleNodes(q) = IdleNodes(slots)
      /\ \A j \in 1..Len(slots) :
           /\ InUse(q[j]) <=> InUse(slots[j])
           /\ q[j].request = slots[j].request
           /\ Leased(q[j]) <=> Leased(slots[j]) /\ slots[j].request # slots[i].request
  BY <1>2, <1>3, <1>4, QuarantineStep
<1>6. /\ requests' = Without(id) /\ outcome' = [outcome EXCEPT ![id] = how]
      /\ stack' = <<Callback(id)>> \o stack /\ how \in Outcomes
  BY <1>1, <1>2 DEF Settle, Outcomes
<1>7. stack' \in Seq(Frames) /\ TrimIsLast(stack') /\ Drainees(stack') = Drainees(stack)
  <2>1. Callback(id) \in Frames /\ Callback(id).at # "trim"
    BY <1>3, <1>4 DEF Callback, Frames
  <2> QED BY <1>4, <1>6, <2>1, CallKeepsStack
<1> HIDE DEF q, e
<1>8. GoneFromPool(slots, q, id)
  BY <1>5 DEF GoneFromPool
<1> QED BY <1>1, <1>3, <1>4, <1>5, <1>6, <1>7, <1>8, SettleStep

\* The slot of a request starts to drain; what is known of cancelled requests is the same.
Drains(s, t, id) ==
  /\ Len(t) = Len(s)
  /\ \A j \in 1..Len(s) : /\ InUse(t[j]) <=> InUse(s[j])
                          /\ t[j].request = s[j].request
                          /\ Leased(t[j]) <=> Leased(s[j]) /\ s[j].request # id
SameCancelled(rs, rt) ==
  DOMAIN rt = DOMAIN rs /\ \A x \in DOMAIN rs : rt[x].cancelled = rs[x].cancelled

\* A request that is redirected leaves its slot, which drains, for the front of the queue.
LEMMA RedirectedRequestWaits ==
  ASSUME NEW rs, NEW w \in Seq(Ids), NEW s, NEW n, RequestsAreHeld(rs, w, s, n), NEW id \in Ids,
         id \in DOMAIN rs, ~rs[id].cancelled, ~Waits(w, id), NEW rt, NEW t,
         SameCancelled(rs, rt), Drains(s, t, id)
  PROVE  <<id>> \o w \in Seq(Ids) /\ RequestsAreHeld(rt, <<id>> \o w, t, n)
<1> DEFINE v == <<id>> \o w
<1>1. /\ v \in Seq(Ids) /\ Len(v) = Len(w) + 1 /\ Len(w) \in Nat /\ v[1] = id
      /\ \A k \in 1..Len(w) : v[k + 1] = w[k]
  BY WithFirst
<1> HIDE DEF v
<1>2. ASSUME NEW k \in 1..Len(v), k # 1 PROVE k - 1 \in 1..Len(w) /\ v[k] = w[k - 1]
  <2>1. k - 1 \in 1..Len(w) /\ (k - 1) + 1 = k
    BY <1>1, <1>2
  <2> QED BY <1>1, <2>1
<1>3. \A x : Waits(v, x) <=> Waits(w, x) \/ x = id
  <2> SUFFICES ASSUME NEW x PROVE Waits(v, x) <=> Waits(w, x) \/ x = id
    OBVIOUS
  <2>1. ASSUME NEW k \in 1..Len(v), v[k] = x PROVE Waits(w, x) \/ x = id
    <3>1. CASE k = 1
      BY <1>1, <2>1, <3>1
    <3>2. CASE k # 1
      BY <1>2, <2>1, <3>2 DEF Waits
    <3> QED BY <3>1, <3>2
  <2>2. ASSUME NEW k \in 1..Len(w), w[k] = x PROVE Waits(v, x)
    <3>1. k + 1 \in 1..Len(v) /\ v[k + 1] = x
      BY <1>1, <2>2
    <3> QED BY <3>1 DEF Waits
  <2>3. Waits(v, id)
    <3>1. 1 \in 1..Len(v) /\ v[1] = id
      BY <1>1
    <3> QED BY <3>1 DEF Waits
  <2> QED BY <2>1, <2>2, <2>3 DEF Waits
<1>4. Distinct(w) /\ \A k \in 1..Len(w) : w[k] < n
  BY DEF RequestsAreHeld
<1>5. Distinct(v)
  <2>1. ASSUME NEW k \in 1..Len(v), k # 1 PROVE v[k] # id
    BY <1>2, <2>1 DEF Waits
  <2>2. ASSUME NEW k \in 1..Len(v), NEW l \in 1..Len(v), v[k] = v[l] PROVE k = l
    <3>1. CASE k = 1 \/ l = 1
      BY <1>1, <2>1, <2>2, <3>1
    <3>2. CASE k # 1 /\ l # 1
      <4>1. k - 1 = l - 1
        BY <1>2, <1>4, <2>2, <3>2 DEF Distinct
      <4> QED BY <4>1
    <3> QED BY <3>1, <3>2
  <2> QED BY <2>2 DEF Distinct
<1>6. ASSUME NEW k \in 1..Len(v) PROVE v[k] < n
  <2>1. CASE k = 1
    BY <1>1, <2>1 DEF RequestsAreHeld
  <2>2. CASE k # 1
    BY <1>2, <1>4, <2>2
  <2> QED BY <2>1, <2>2
<1>7. \A x \in DOMAIN rt : x \in Ids /\ x < n
  BY DEF RequestsAreHeld, SameCancelled
<1>8. \A j \in 1..Len(t) : InUse(t[j]) => t[j].request < n
  BY DEF RequestsAreHeld, Drains
<1>9. ASSUME NEW j \in 1..Len(t), Leased(t[j])
      PROVE  /\ t[j].request \in DOMAIN rt /\ ~rt[t[j].request].cancelled
             /\ ~Waits(v, t[j].request)
  <2>1. j \in 1..Len(s) /\ Leased(s[j]) /\ s[j].request # id /\ t[j].request = s[j].request
    BY <1>9 DEF Drains
  <2>2. /\ s[j].request \in DOMAIN rs /\ ~rs[s[j].request].cancelled
        /\ ~Waits(w, s[j].request)
    BY <2>1 DEF RequestsAreHeld
  <2> QED BY <1>3, <2>1, <2>2 DEF SameCancelled
<1>10. ASSUME NEW x \in DOMAIN rt
       PROVE  IF rt[x].cancelled THEN \E j \in 1..Len(t) : InUse(t[j]) /\ t[j].request = x
              ELSE Waits(v, x) \/ \E j \in 1..Len(t) : Leased(t[j]) /\ t[j].request = x
  <2>1. x \in DOMAIN rs /\ rt[x].cancelled = rs[x].cancelled
    BY DEF SameCancelled
  <2>2. IF rs[x].cancelled THEN \E j \in 1..Len(s) : InUse(s[j]) /\ s[j].request = x
        ELSE Waits(w, x) \/ \E j \in 1..Len(s) : Leased(s[j]) /\ s[j].request = x
    BY <2>1 DEF RequestsAreHeld
  <2>3. CASE x = id
    BY <1>3, <2>1, <2>3
  <2>4. CASE x # id
    BY <1>3, <2>1, <2>2, <2>4 DEF Drains
  <2> QED BY <2>3, <2>4
<1>11. RequestsAreHeld(rt, v, t, n)
  BY <1>5, <1>6, <1>7, <1>8, <1>9, <1>10 DEF RequestsAreHeld
<1> QED BY <1>1, <1>11 DEF v

\* _completed() of a redirect: the request waits again, ahead of the others.
LEMMA RedirectedStep ==
  ASSUME HttpInv, Redirected
  PROVE  HttpInv'
<1> DEFINE i == Message.slot
           id == slots[i].request
           q == Quarantined(slots, i)
           e == Tail(deferred) \o Draining(slots, i)
<1>1. /\ slots' = q /\ deferred' = e /\ waiting' = <<id>> \o waiting
      /\ requests[id].redirects < MaxRedirects
      /\ \E dropped \in {0, requests[id].body} :
           requests' = [requests EXCEPT ![id].redirects = @ + 1, ![id].body = @ - dropped]
      /\ UNCHANGED <<nextId, closed, inTree, stack, outcome>>
  BY Zenon DEF Redirected, Drainage, Draining
<1>2. /\ stack = <<>> /\ i \in 1..Len(slots) /\ Tail(deferred) \in Seq(Messages)
      /\ MessagesAreOwn(slots, Tail(deferred))
  BY NextMessage DEF Redirected
<1>3. id \in Live /\ InUse(slots[i]) /\ ~requests[id].cancelled /\ ~Waits(waiting, id)
  BY ReachedRequest DEF Redirected
<1>4. /\ slots \in Seq(Slot) /\ Len(slots) <= MaxActive /\ PoolIsSound(slots)
      /\ PoolIsTrimmed(slots, stack) /\ Live \subseteq Ids /\ waiting \in Seq(Ids)
      /\ RequestsAreHeld(requests, waiting, slots, nextId) /\ requests \in [Live -> Request]
  BY DEF HttpInv, HttpTypes, RequestsAreHeld, Live
<1> HIDE DEF i
<1>5. /\ q \in Seq(Slot) /\ Len(q) = Len(slots)
      /\ PoolIsSound(q) /\ e \in Seq(Messages) /\ MessagesAreOwn(q, e)
      /\ IdleNodes(q) = IdleNodes(slots)
      /\ \A j \in 1..Len(slots) :
           /\ InUse(q[j]) <=> InUse(slots[j])
           /\ q[j].request = slots[j].request
           /\ Leased(q[j]) <=> Leased(slots[j]) /\ slots[j].request # slots[i].request
  BY <1>2, <1>3, <1>4, QuarantineStep
<1> HIDE DEF q, e
<1>6. Drains(slots, q, id)
  BY <1>5 DEF Drains
<1>7. SameCancelled(requests, requests') /\ Live' = Live /\ requests' \in [Live' -> Request]
  <2>1. PICK dropped \in {0, requests[id].body} :
          requests' = [requests EXCEPT ![id].redirects = @ + 1, ![id].body = @ - dropped]
    BY <1>1
  <2> DEFINE r == [requests[id] EXCEPT !.redirects = @ + 1, !.body = @ - dropped]
  <2>2. requests[id] \in Request /\ requests[id].redirects < MaxRedirects
    BY <1>1, <1>3, <1>4
  <2>3. requests[id].redirects + 1 \in 0..MaxRedirects /\ requests[id].body - dropped \in Nat
    BY <2>2 DEF Request
  <2>4. r \in Request /\ r.cancelled = requests[id].cancelled
    BY <2>2, <2>3 DEF Request
  <2>5. requests' = [requests EXCEPT ![id] = r]
    BY <2>1
  <2> HIDE DEF r
  <2>6. /\ DOMAIN requests' = DOMAIN requests /\ requests'[id] = r
        /\ \A x \in DOMAIN requests : x # id => requests'[x] = requests[x]
    BY <1>3, <2>5 DEF Live
  <2>7. SameCancelled(requests, requests')
    BY <2>4, <2>6 DEF SameCancelled
  <2>8. Live' = Live /\ requests' \in [Live' -> Request]
    BY <1>4, <2>4, <2>5, <2>6 DEF Live
  <2> QED BY <2>7, <2>8, Zenon
<1>8. waiting' \in Seq(Ids) /\ RequestsAreHeld(requests', waiting', q, nextId)
  <2> DEFINE rt == requests'
  <2>1. id \in Ids /\ id \in DOMAIN requests /\ SameCancelled(requests, rt)
    BY <1>3, <1>4, <1>7 DEF Live
  <2> HIDE DEF id, rt
  <2>2. <<id>> \o waiting \in Seq(Ids) /\ RequestsAreHeld(rt, <<id>> \o waiting, q, nextId)
    BY <1>3, <1>4, <1>6, <2>1, RedirectedRequestWaits
  <2> QED BY <1>1, <2>2 DEF id, rt
<1>9. HttpTypes'
  BY <1>1, <1>4, <1>5, <1>7, <1>8, Zenon DEF HttpInv, HttpTypes
<1>10. PoolIsTrimmed(q, stack)
  BY <1>4, <1>5 DEF PoolIsTrimmed
<1>11. OutcomesAreLast'
  BY <1>1, <1>7 DEF HttpInv, OutcomesAreLast
<1> QED BY <1>1, <1>5, <1>8, <1>9, <1>10, <1>11, Zenon DEF HttpInv

\* A slot that ends is of no request, unless of one that is cancelled.
LEMMA EndedSlotIsNobodys ==
  ASSUME NEW rs, NEW w, NEW s, NEW n, RequestsAreHeld(rs, w, s, n), NEW i, ~Leased(s[i]),
         InUse(s[i]) => ~(s[i].request \in DOMAIN rs /\ rs[s[i].request].cancelled),
         NEW t, SlotEnds(s, t, i)
  PROVE  RequestsAreHeld(rs, w, t, n)
<1>1. Distinct(w) /\ Len(t) = Len(s)
  BY DEF RequestsAreHeld, SlotEnds
<1>2. \A j \in 1..Len(s) : InUse(t[j]) => t[j] = s[j] /\ InUse(s[j])
  BY DEF SlotEnds, InUse
<1>3. \A j \in 1..Len(s) : Leased(t[j]) => t[j] = s[j] /\ Leased(s[j])
  BY DEF SlotEnds, Leased
<1>4. ASSUME NEW j \in 1..Len(s), Leased(t[j])
      PROVE  Leased(s[j]) /\ s[j].request \in DOMAIN rs /\ ~rs[s[j].request].cancelled
  BY <1>3, <1>4 DEF RequestsAreHeld
<1>5. ASSUME NEW x \in DOMAIN rs, rs[x].cancelled
      PROVE  \E j \in 1..Len(s) : InUse(t[j]) /\ s[j].request = x
  <2>1. PICK j \in 1..Len(s) : InUse(s[j]) /\ s[j].request = x
    BY <1>5 DEF RequestsAreHeld
  <2>2. j # i
    BY <1>5, <2>1
  <2>3. t[j] = s[j]
    BY <2>2 DEF SlotEnds
  <2> QED BY <2>1, <2>3
<1>6. ASSUME NEW x \in DOMAIN rs, NEW j \in 1..Len(s), Leased(s[j]) PROVE Leased(t[j])
  <2>1. j # i
    BY <1>6
  <2> QED BY <1>6, <2>1 DEF SlotEnds
<1> QED BY <1>1, <1>2, <1>4, <1>5, <1>6, RequestsStayHeld

\* A part of the nodes that are not too many.
LEMMA FewerIdle ==
  ASSUME NEW s \in Seq(Slot), NEW X, Cardinality(IdleNodes(s) \ X) <= MaxIdle,
         NEW Y \in SUBSET (IdleNodes(s) \ X)
  PROVE  Cardinality(Y) <= MaxIdle
<1>1. IsFiniteSet(1..Len(s))
  BY FS_Interval
<1>2. IsFiniteSet(IdleNodes(s) \ X)
  BY <1>1, FS_Subset DEF IdleNodes
<1>3. /\ Cardinality(Y) <= Cardinality(IdleNodes(s) \ X)
      /\ Cardinality(Y) \in Nat /\ Cardinality(IdleNodes(s) \ X) \in Nat
  BY <1>2, FS_Subset, FS_CardinalityType
<1> QED BY <1>3

\* _drained(): the lease ends, and a cancelled request with it.
LEMMA DrainedStep ==
  ASSUME HttpInv, Drained
  PROVE  HttpInv'
<1> DEFINE i == Message.slot
           id == slots[i].request
           node == slots[i].node
           r == [slots[i] EXCEPT !.state = "idle", !.request = 0, !.reservation = 0]
           ended == [slots EXCEPT ![i].state = "idle", ![i].request = 0, ![i].reservation = 0]
           current == slots[i].sequence = Message.sequence /\ slots[i].state = "draining"
           cancelled == id \in Live /\ requests[id].cancelled
           e == Tail(deferred)
<1>1. /\ Delivering("drained") /\ deferred' = e /\ UNCHANGED <<waiting, nextId, closed, inTree>>
      /\ IF ~current THEN UNCHANGED <<requests, slots, stack, outcome>>
         ELSE IF cancelled
              THEN /\ slots' = ended
                   /\ Settle(id, "cancelled", <<[at |-> "trim", slot |-> i, node |-> node]>>)
              ELSE /\ slots' = Trimmed(ended, i, node) /\ stack' = ProcessRequests(requests)
                   /\ UNCHANGED <<requests, outcome>>
  BY DEF Drained
<1>2. CASE ~current
  <2>1. UNCHANGED <<requests, slots, stack, outcome>>
    BY <1>1, <1>2
  <2> QED BY <1>1, <2>1, DropStep
<1>3. CASE current
  <2>1. /\ stack = <<>> /\ i \in 1..Len(slots) /\ e \in Seq(Messages) /\ deferred # <<>>
        /\ Message = Head(deferred) /\ Message.kind = "drained"
    BY <1>1, NextMessage DEF Message
  <2>2. /\ slots \in Seq(Slot) /\ Len(slots) <= MaxActive /\ PoolIsSound(slots)
        /\ deferred \in Seq(Messages) /\ MessagesAreOwn(slots, deferred)
        /\ PoolIsTrimmed(slots, stack) /\ Live \subseteq Ids /\ stack \in Seq(Frames)
        /\ RequestsAreHeld(requests, waiting, slots, nextId)
    BY DEF HttpInv, HttpTypes, RequestsAreHeld, Live
  <2>3. /\ InUse(slots[i]) /\ ~Leased(slots[i]) /\ slots[i] \in Slot /\ slots[i].wire = 0
        /\ node # 0 /\ node \in Nat
    BY <1>3, <2>1, <2>2, SlotFields DEF InUse, Leased, PoolIsSound
  <2>4. /\ r \in Slot /\ r.state = "idle" /\ r.node = slots[i].node /\ r.wire = 0
        /\ r.sequence = slots[i].sequence
    BY <2>3 DEF Slot
  <2>5. ended = [slots EXCEPT ![i] = r]
    OBVIOUS
  <2> HIDE DEF r, ended, i, e
  <2>6. /\ ended \in Seq(Slot) /\ Len(ended) = Len(slots) /\ ended[i] = r
        /\ \A j \in 1..Len(slots) : j # i => ended[j] = slots[j]
    BY <2>1, <2>2, <2>4, <2>5, SlotUpdate
  <2>7. ~InUse(ended[i]) /\ SlotEnds(slots, ended, i)
    BY <2>4, <2>6 DEF InUse, SlotEnds
  <2>8. PoolIsSound(ended)
    BY <2>1, <2>2, <2>4, <2>6, <2>7, SlotKeepsPool
  <2>9. MessagesAreOwn(ended, e)
    <3>1. /\ Head(deferred).kind = "drained" /\ Head(deferred).slot = i
          /\ slots[i].state = "draining" /\ slots[i].sequence = Head(deferred).sequence
      BY <1>3, <2>1 DEF i
    <3> QED BY <2>1, <2>2, <2>4, <2>6, <2>7, <3>1, EndKeepsMessages DEF e
  <2>10. IdleNodes(ended) \ {i} \subseteq IdleNodes(slots)
    BY <2>6 DEF IdleNodes
  <2>11. Drainees(stack) = {}
    BY <2>1 DEF Drainees
  <2>12. CASE cancelled
    <3> DEFINE f == [at |-> "trim", slot |-> i, node |-> node]
    <3>1. /\ slots' = ended /\ requests' = Without(id)
          /\ outcome' = [outcome EXCEPT ![id] = "cancelled"]
          /\ stack' = <<Callback(id)>> \o <<f>> /\ id \in Live /\ "cancelled" \in Outcomes
      BY <1>1, <1>3, <2>12 DEF Settle, Outcomes
    <3>2. f \in Frames /\ f.at = "trim" /\ f.node # 0 /\ f.slot = i
      <4>1. i \in SlotIds
        BY <2>1, <2>2 DEF SlotIds
      <4>2. f \in [at : {"trim"}, slot : SlotIds, node : Nat]
        BY <2>3, <4>1
      <4> QED BY <2>3, <4>2 DEF Frames
    <3> HIDE DEF f
    <3>3. /\ <<f>> \in Seq(Frames) /\ TrimIsLast(<<f>>) /\ Drainees(<<f>>) = {i}
      <4>1. Len(<<f>>) = 1 /\ <<f>>[1] = f
        OBVIOUS
      <4>2. \A k \in 1..Len(<<f>>) : k = 1
        BY <4>1
      <4>3. 1 \in 1..Len(<<f>>)
        BY <4>1
      <4>4. TrimIsLast(<<f>>)
        BY <3>2, <4>1, <4>2 DEF TrimIsLast
      <4>5. Drainees(<<f>>) = {i}
        BY <3>2, <4>1, <4>2, <4>3 DEF Drainees
      <4> QED BY <3>2, <4>4, <4>5
    <3>4. Callback(id) \in Frames /\ Callback(id).at # "trim"
      BY <2>2, <3>1 DEF Callback, Frames
    <3>5. stack' \in Seq(Frames) /\ TrimIsLast(stack') /\ Drainees(stack') = {i}
      BY <3>1, <3>3, <3>4, CallKeepsStack
    <3>6. GoneFromPool(slots, ended, id)
      <4>1. ASSUME NEW j \in 1..Len(slots)
            PROVE  /\ InUse(ended[j]) => InUse(slots[j]) /\ ended[j].request = slots[j].request
                   /\ InUse(slots[j]) /\ slots[j].request # id => InUse(ended[j])
                   /\ Leased(ended[j]) <=> Leased(slots[j]) /\ slots[j].request # id
        <5>1. CASE j = i
          BY <2>3, <2>4, <2>6, <2>7, <5>1 DEF Leased
        <5>2. CASE j # i
          <6>1. ended[j] = slots[j]
            BY <2>6, <5>2
          <6>2. InUse(slots[j]) => slots[j].request # id
            BY <2>1, <2>2, <2>3, <5>2 DEF PoolIsSound
          <6>3. Leased(slots[j]) => InUse(slots[j])
            BY DEF Leased, InUse
          <6> QED BY <6>1, <6>2, <6>3
        <5> QED BY <5>1, <5>2
      <4> QED BY <2>6, <4>1 DEF GoneFromPool
    <3>7. IdleNodes(ended) \ {i} \subseteq IdleNodes(slots) \ Drainees(stack)
      BY <2>10, <2>11
    <3> HIDE DEF id
    <3> QED BY <1>1, <2>1, <2>2, <2>6, <2>8, <2>9, <3>1, <3>5, <3>6, <3>7, SettleStep
  <2>13. CASE ~cancelled
    <3> DEFINE t == Trimmed(ended, i, node)
    <3>1. /\ slots' = t /\ stack' = ProcessRequests(requests) \o stack
          /\ UNCHANGED <<requests, outcome>>
      BY <1>1, <1>3, <2>1, <2>13 DEF ProcessRequests, Starting
    <3>2. Cardinality(IdleNodes(ended) \ {i}) <= MaxIdle
      <4>1. Cardinality(IdleNodes(slots) \ {}) <= MaxIdle
        BY <2>2, <2>11 DEF PoolIsTrimmed
      <4>2. IdleNodes(ended) \ {i} \in SUBSET (IdleNodes(slots) \ {})
        BY <2>10
      <4> QED BY <2>2, <4>1, <4>2, FewerIdle
    <3> HIDE DEF node
    <3>12. t \in Seq(Slot) /\ Cardinality(IdleNodes(t)) <= MaxIdle /\ Freed(ended, t, i)
      BY <2>3, <2>6, <3>2, SurplusIsIdle
    <3> HIDE DEF t
    <3>3. /\ Len(t) = Len(ended)
          /\ \/ t = ended
             \/ /\ i \in 1..Len(ended) /\ ended[i].state = "idle" /\ t[i].state = "idle"
                /\ t[i].node = 0 /\ t[i].wire = 0 /\ t[i].sequence = ended[i].sequence
                /\ \A j \in 1..Len(ended) : j # i => t[j] = ended[j]
      BY <3>12 DEF Freed
    <3>4. PoolIsSound(t)
      <4>1. CASE t = ended
        BY <2>8, <4>1
      <4>2. CASE t # ended
        <5>1. ~InUse(t[i])
          BY <3>3, <3>12, <4>2 DEF InUse
        <5> QED BY <2>6, <2>8, <3>3, <3>12, <4>2, <5>1, SlotKeepsPool
      <4> QED BY <4>1, <4>2
    <3>5. MessagesAreOwn(t, e)
      BY <2>6, <2>9, <3>3, <3>12, FreedNodesKeepMessages
    <3>6. SlotEnds(slots, t, i)
      BY <2>4, <2>6, <3>3 DEF SlotEnds
    <3>7. RequestsAreHeld(requests, waiting, t, nextId)
      BY <2>2, <2>3, <2>13, <3>6, EndedSlotIsNobodys DEF Live
    <3>8. stack' \in Seq(Frames) /\ TrimIsLast(stack') /\ Drainees(stack') = {}
      BY <2>2, <2>11, <3>1, ProcessKeepsStack DEF PoolIsTrimmed, Live
    <3>9. PoolIsTrimmed(t, stack')
      <4>1. IdleNodes(t) \ Drainees(stack') = IdleNodes(t)
        BY <3>8
      <4> QED BY <3>3, <3>12, <3>8, <4>1 DEF PoolIsTrimmed
    <3>10. HttpTypes'
      BY <1>1, <2>1, <2>2, <2>6, <3>1, <3>3, <3>12, <3>8 DEF HttpInv, HttpTypes, Live
    <3>11. OutcomesAreLast'
      BY <1>1, <3>1 DEF HttpInv, OutcomesAreLast, Live
    <3> QED BY <1>1, <3>1, <3>4, <3>5, <3>7, <3>9, <3>10, <3>11 DEF HttpInv
  <2> QED BY <2>12, <2>13
<1> QED BY <1>2, <1>3

-----------------------------------------------------------------------------
(* The steps of the pool: leases, workers, surplus nodes. *)

\* The node of a cancelled request is looked at again.
LEMMA TrimStep ==
  ASSUME HttpInv, Trim
  PROVE  HttpInv'
<1> DEFINE i == Top.slot
           node == Top.node
           t == Trimmed(slots, i, node)
<1>1. /\ stack # <<>> /\ Head(stack).at = "trim" /\ i = Head(stack).slot /\ node = Head(stack).node
      /\ slots' = t /\ stack' = ProcessRequests(requests) \o Tail(stack)
      /\ UNCHANGED <<requests, waiting, nextId, closed, inTree, deferred, outcome>>
  BY DEF Trim, Running, Top
<1>2. /\ slots \in Seq(Slot) /\ Len(slots) <= MaxActive /\ PoolIsSound(slots)
      /\ MessagesAreOwn(slots, deferred)
      /\ PoolIsTrimmed(slots, stack) /\ Live \subseteq Ids /\ stack \in Seq(Frames)
      /\ TrimIsLast(stack) /\ RequestsAreHeld(requests, waiting, slots, nextId)
  BY DEF HttpInv, HttpTypes, RequestsAreHeld, PoolIsTrimmed, Live
<1>3. Tail(stack) = <<>> /\ Drainees(stack) = {i} /\ node # 0
  BY <1>1, <1>2, ReturnKeepsStack
<1>4. Cardinality(IdleNodes(slots) \ {i}) <= MaxIdle
  BY <1>2, <1>3 DEF PoolIsTrimmed
<1> HIDE DEF node, i
<1>5. t \in Seq(Slot) /\ Cardinality(IdleNodes(t)) <= MaxIdle /\ Freed(slots, t, i)
  <2>1. slots \in Seq(Slot) /\ node # 0
    BY <1>2, <1>3
  <2> QED BY <2>1, <1>4, SurplusIsIdle
<1> HIDE DEF t
<1>6. /\ Len(t) = Len(slots)
      /\ \/ t = slots
         \/ /\ i \in 1..Len(slots) /\ slots[i].state = "idle" /\ t[i].state = "idle"
            /\ t[i].node = 0 /\ t[i].wire = 0 /\ t[i].sequence = slots[i].sequence
            /\ \A j \in 1..Len(slots) : j # i => t[j] = slots[j]
  BY <1>5 DEF Freed
<1>7. PoolIsSound(t) /\ RequestsAreHeld(requests, waiting, t, nextId)
  <2>1. CASE t = slots
    BY <1>2, <2>1
  <2>2. CASE t # slots
    <3>1. ~InUse(t[i]) /\ ~InUse(slots[i]) /\ ~Leased(slots[i]) /\ SlotEnds(slots, t, i)
      BY <1>5, <1>6, <2>2 DEF InUse, Leased, SlotEnds
    <3>2. PoolIsSound(t)
      BY <1>2, <1>5, <1>6, <2>2, <3>1, SlotKeepsPool
    <3>3. RequestsAreHeld(requests, waiting, t, nextId)
      BY <1>2, <3>1, EndedSlotIsNobodys
    <3> QED BY <3>2, <3>3
  <2> QED BY <2>1, <2>2
<1>8. MessagesAreOwn(t, deferred)
  BY <1>2, <1>5, <1>6, FreedNodesKeepMessages
<1>9. stack' \in Seq(Frames) /\ TrimIsLast(stack') /\ Drainees(stack') = {}
  <2>1. Tail(stack) \in Seq(Frames) /\ TrimIsLast(Tail(stack)) /\ Drainees(Tail(stack)) = {}
    <3>1. <<>> \in Seq(Frames) /\ \A k : k \notin 1..Len(<<>>)
      OBVIOUS
    <3>2. TrimIsLast(<<>>) /\ Drainees(<<>>) = {}
      BY <3>1 DEF TrimIsLast, Drainees
    <3> QED BY <1>3, <3>1, <3>2
  <2> QED BY <1>1, <1>2, <2>1, ProcessKeepsStack DEF Live
<1>10. PoolIsTrimmed(t, stack')
  <2>1. IdleNodes(t) \ Drainees(stack') = IdleNodes(t)
    BY <1>9
  <2> QED BY <1>5, <1>6, <1>9, <2>1 DEF PoolIsTrimmed
<1>11. HttpTypes'
  BY <1>1, <1>2, <1>5, <1>6, <1>9 DEF HttpInv, HttpTypes, Live
<1>12. OutcomesAreLast'
  BY <1>1 DEF HttpInv, OutcomesAreLast, Live
<1> QED BY <1>1, <1>7, <1>8, <1>10, <1>11, <1>12 DEF HttpInv

\* The slots keep their requests and their leases.
SameLeases(s, t) ==
  /\ Len(t) = Len(s)
  /\ \A j \in 1..Len(s) : /\ InUse(t[j]) <=> InUse(s[j])
                          /\ Leased(t[j]) <=> Leased(s[j])
                          /\ t[j].request = s[j].request

\* Then the requests are where they were.
LEMMA RequestsStay ==
  ASSUME NEW rs, NEW w, NEW s, NEW n, RequestsAreHeld(rs, w, s, n), NEW rt, SameCancelled(rs, rt),
         NEW t, SameLeases(s, t)
  PROVE  RequestsAreHeld(rt, w, t, n)
<1>1. Distinct(w) /\ Len(t) = Len(s) /\ DOMAIN rt = DOMAIN rs
  BY DEF RequestsAreHeld, SameLeases, SameCancelled
<1>2. \A j \in 1..Len(s) : Leased(t[j]) =>
        Leased(s[j]) /\ s[j].request \in DOMAIN rt /\ ~rt[s[j].request].cancelled
  BY DEF RequestsAreHeld, SameLeases, SameCancelled
<1>3. \A x \in DOMAIN rt :
        IF rt[x].cancelled THEN \E j \in 1..Len(s) : InUse(t[j]) /\ s[j].request = x
        ELSE ~rs[x].cancelled
  BY DEF RequestsAreHeld, SameLeases, SameCancelled
<1>4. \A j \in 1..Len(s) : /\ InUse(t[j]) => InUse(s[j]) /\ t[j].request = s[j].request
                           /\ Leased(s[j]) => Leased(t[j])
  BY DEF SameLeases
<1> QED BY <1>1, <1>2, <1>3, <1>4, RequestsStayHeld

\* The worker of a node is done.
LEMMA RespondStep ==
  ASSUME HttpInv, NEW i \in SlotIds, Respond(i)
  PROVE  HttpInv'
<1> DEFINE m == [kind |-> "done", slot |-> i, node |-> slots[i].node, sent |-> slots[i].wire]
           r == [slots[i] EXCEPT !.wire = 0]
           t == [slots EXCEPT ![i] = r]
<1>1. /\ i <= Len(slots) /\ slots[i].wire # 0 /\ deferred' = Append(deferred, m) /\ slots' = t
      /\ UNCHANGED <<requests, waiting, nextId, closed, inTree, stack, outcome>>
  BY DEF Respond
<1>2. /\ slots \in Seq(Slot) /\ Len(slots) <= MaxActive /\ PoolIsSound(slots)
      /\ MessagesAreOwn(slots, deferred) /\ deferred \in Seq(Messages)
      /\ PoolIsTrimmed(slots, stack) /\ RequestsAreHeld(requests, waiting, slots, nextId)
  BY DEF HttpInv, HttpTypes
<1>3. i \in 1..Len(slots)
  BY <1>1 DEF SlotIds
<1>4. slots[i] \in Slot /\ r \in Slot
  BY <1>2, <1>3, SlotFields DEF Slot
<1>5. /\ r.wire = 0 /\ r.node = slots[i].node /\ r.sequence = slots[i].sequence
      /\ r.state = slots[i].state /\ r.request = slots[i].request
  BY <1>4 DEF Slot
<1>6. r = [slots[i] EXCEPT !.wire = 0] /\ m = [kind |-> "done", slot |-> i,
                                               node |-> slots[i].node, sent |-> slots[i].wire]
  OBVIOUS
<1> HIDE DEF m, r
<1>7. /\ t \in Seq(Slot) /\ Len(t) = Len(slots) /\ t[i] = r
      /\ \A j \in 1..Len(slots) : j # i => t[j] = slots[j]
  BY <1>2, <1>3, <1>4, SlotUpdate
<1> HIDE DEF t
<1>8. PoolIsSound(t)
  BY <1>2, <1>3, <1>5, <1>7, SlotKeepsPool DEF InUse
<1>9. Append(deferred, m) \in Seq(Messages) /\ MessagesAreOwn(t, Append(deferred, m))
  BY <1>1, <1>2, <1>3, <1>6, <1>7, ResponseKeepsMessages
<1>10. SameLeases(slots, t) /\ IdleNodes(t) = IdleNodes(slots)
  BY <1>5, <1>7 DEF SameLeases, InUse, Leased, IdleNodes
<1>11. RequestsAreHeld(requests, waiting, t, nextId)
  BY <1>2, <1>10, RequestsStay DEF SameCancelled
<1>12. PoolIsTrimmed(t, stack)
  BY <1>2, <1>10 DEF PoolIsTrimmed
<1>13. HttpTypes'
  BY <1>1, <1>2, <1>7, <1>9 DEF HttpInv, HttpTypes, Live
<1>14. OutcomesAreLast'
  BY <1>1 DEF HttpInv, OutcomesAreLast, Live
<1> QED BY <1>1, <1>8, <1>9, <1>11, <1>12, <1>13, <1>14 DEF HttpInv

\* shutdown(): nothing is left but what Godot still has to deliver.
LEMMA ShutdownStep ==
  ASSUME HttpInv, Shutdown
  PROVE  HttpInv'
<1> DEFINE t == [j \in 1..Len(slots) |->
                   [slots[j] EXCEPT !.node = 0, !.wire = 0, !.state = "idle"]]
<1>1. /\ slots' = t /\ requests' = [x \in {} |-> 0] /\ waiting' = <<>> /\ closed' = TRUE
      /\ outcome' = [x \in Ids |-> IF x \in Live THEN "dropped" ELSE outcome[x]]
      /\ UNCHANGED <<nextId, inTree, deferred, stack>>
  BY DEF Shutdown
<1>2. /\ slots \in Seq(Slot) /\ Len(slots) <= MaxActive /\ PoolIsSound(slots)
      /\ MessagesAreOwn(slots, deferred) /\ stack \in Seq(Frames)
      /\ PoolIsTrimmed(slots, stack) /\ outcome \in [Ids -> Outcomes]
  BY DEF HttpInv, HttpTypes
<1>3. ASSUME NEW j \in 1..Len(slots)
      PROVE  /\ t[j] \in Slot /\ t[j].node = 0 /\ t[j].wire = 0 /\ t[j].state = "idle"
             /\ t[j].sequence = slots[j].sequence /\ t[j].sequence \in Nat
  <2>1. slots[j] \in Slot
    BY <1>2
  <2> QED BY <2>1 DEF Slot
<1>4. t \in Seq(Slot) /\ Len(t) = Len(slots)
  <2>1. Len(slots) \in Nat /\ DOMAIN t = 1..Len(slots)
    BY <1>2
  <2>2. t \in [1..Len(slots) -> Slot]
    BY <1>3
  <2> HIDE DEF t
  <2> QED BY <2>1, <2>2
<1> HIDE DEF t
<1>5. PoolIsSound(t)
  BY <1>3, <1>4 DEF PoolIsSound, InUse
<1>6. MessagesAreOwn(t, deferred)
  BY <1>2, <1>3, <1>4, FreedNodesKeepMessages
<1>7. IdleNodes(t) = {}
  BY <1>3, <1>4 DEF IdleNodes
<1>8. PoolIsTrimmed(t, stack)
  BY <1>2, <1>4, <1>7, FewerNodesIdle DEF PoolIsTrimmed
<1>9. Live' = {} /\ requests' \in [Live' -> Request]
  BY <1>1 DEF Live
<1>10. RequestsAreHeld(requests', <<>>, t, nextId)
  BY <1>1, <1>3, <1>4 DEF RequestsAreHeld, Distinct, InUse, Leased
<1>11. outcome' \in [Ids -> Outcomes]
  BY <1>1, <1>2 DEF Outcomes
<1>12. HttpTypes'
  BY <1>1, <1>2, <1>4, <1>9, <1>11 DEF HttpInv, HttpTypes
<1>13. OutcomesAreLast'
  <2>1. ASSUME NEW x \in Ids, x >= nextId PROVE outcome'[x] = "none"
    <3>1. x \notin Live
      BY <2>1 DEF HttpInv, HttpTypes, RequestsAreHeld, Live, Ids
    <3> QED BY <1>1, <2>1, <3>1 DEF HttpInv, OutcomesAreLast
  <2> QED BY <1>1, <1>9, <2>1 DEF OutcomesAreLast
<1> QED BY <1>1, <1>5, <1>6, <1>8, <1>10, <1>12, <1>13 DEF HttpInv

\* An idle slot, or a new one, is leased to a request.
Leases(s, t, i, id) ==
  /\ i \in 1..Len(t) /\ t[i].state = "leased" /\ t[i].request = id
  /\ \A j \in 1..Len(t) : j # i => j \in 1..Len(s) /\ t[j] = s[j]
  /\ \A j \in 1..Len(s) : InUse(s[j]) => j # i /\ j \in 1..Len(t) /\ t[j] = s[j]

\* The front of the queue goes out on the slot.
LEMMA LeasedRequestGoesOut ==
  ASSUME NEW rs, NEW w \in Seq(Ids), w # <<>>, NEW s, NEW n, RequestsAreHeld(rs, w, s, n),
         Head(w) \in DOMAIN rs, \A j \in 1..Len(s) : InUse(s[j]) => s[j].request # Head(w),
         NEW t, NEW i, Leases(s, t, i, Head(w))
  PROVE  RequestsAreHeld(rs, Tail(w), t, n)
<1> DEFINE v == Tail(w)
           id == Head(w)
<1>1. Distinct(w) /\ \A k \in 1..Len(w) : w[k] < n
  BY DEF RequestsAreHeld
<1>2. /\ Distinct(v) /\ ~Waits(v, id)
      /\ \A x : Waits(v, x) <=> Waits(w, x) /\ x # id
  BY <1>1, FrontLeaves
<1> HIDE DEF v, id
<1>3. ASSUME NEW k \in 1..Len(v) PROVE v[k] < n
  <2>1. Waits(w, v[k])
    BY <1>2 DEF Waits
  <2> QED BY <1>1, <2>1 DEF Waits
<1>4. id \in DOMAIN rs /\ id < n /\ ~rs[id].cancelled
  BY DEF RequestsAreHeld, id
<1>5. /\ i \in 1..Len(t) /\ Leased(t[i]) /\ t[i].request = id
      /\ \A j \in 1..Len(t) : j # i => j \in 1..Len(s) /\ t[j] = s[j]
      /\ \A j \in 1..Len(s) : InUse(s[j]) => j # i /\ j \in 1..Len(t) /\ t[j] = s[j]
  BY DEF Leases, Leased, id
<1>6. \A j : Leased(s[j]) => InUse(s[j])
  BY DEF Leased, InUse
<1>7. ASSUME NEW j \in 1..Len(t), InUse(t[j]) PROVE t[j].request < n
  <2>1. CASE j = i
    BY <1>4, <1>5, <2>1
  <2>2. CASE j # i
    BY <1>5, <1>7, <2>2 DEF RequestsAreHeld
  <2> QED BY <2>1, <2>2
<1>8. ASSUME NEW j \in 1..Len(t), Leased(t[j])
      PROVE  /\ t[j].request \in DOMAIN rs /\ ~rs[t[j].request].cancelled
             /\ ~Waits(v, t[j].request)
  <2>1. CASE j = i
    BY <1>2, <1>4, <1>5, <2>1
  <2>2. CASE j # i
    <3>1. j \in 1..Len(s) /\ t[j] = s[j] /\ Leased(s[j])
      BY <1>5, <1>8, <2>2
    <3>2. /\ s[j].request \in DOMAIN rs /\ ~rs[s[j].request].cancelled
          /\ ~Waits(w, s[j].request)
      BY <3>1 DEF RequestsAreHeld
    <3> QED BY <1>2, <3>1, <3>2
  <2> QED BY <2>1, <2>2
<1>9. ASSUME NEW x \in DOMAIN rs
      PROVE  IF rs[x].cancelled THEN \E j \in 1..Len(t) : InUse(t[j]) /\ t[j].request = x
             ELSE Waits(v, x) \/ \E j \in 1..Len(t) : Leased(t[j]) /\ t[j].request = x
  <2>1. IF rs[x].cancelled THEN \E j \in 1..Len(s) : InUse(s[j]) /\ s[j].request = x
        ELSE Waits(w, x) \/ \E j \in 1..Len(s) : Leased(s[j]) /\ s[j].request = x
    BY DEF RequestsAreHeld
  <2>2. CASE rs[x].cancelled
    BY <1>5, <2>1, <2>2
  <2>3. CASE ~rs[x].cancelled
    <3>1. CASE x = id
      BY <1>5, <2>3, <3>1
    <3>2. CASE x # id
      BY <1>2, <1>5, <1>6, <2>1, <2>3, <3>2
    <3> QED BY <3>1, <3>2
  <2> QED BY <2>2, <2>3
<1>10. \A x \in DOMAIN rs : x \in Ids /\ x < n
  BY DEF RequestsAreHeld
<1> QED BY <1>2, <1>3, <1>7, <1>8, <1>9, <1>10 DEF RequestsAreHeld, v

\* lease(): the front of the queue goes out, or fails at once.
LEMMA LeaseStep ==
  ASSUME HttpInv, Lease
  PROVE  HttpInv'
<1> DEFINE id == Head(waiting)
           i == FirstIdle(slots)
           limit == requests[id].limit
           lease == NextLease(slots)
           t == LeasedFor(slots, id, limit)
           q == Quarantined(t, i)
           m == [kind |-> "drained", slot |-> i, sequence |-> lease]
<1>1. /\ waiting # <<>> /\ id \in Live /\ ~Blocked(id) /\ waiting' = Tail(waiting)
      /\ \/ slots' = t /\ UNCHANGED <<requests, deferred, stack, outcome>>
         \/ slots' = q /\ deferred' = Append(deferred, m) /\ Settle(id, "failed", stack)
      /\ UNCHANGED <<nextId, closed, inTree>>
  BY DEF Lease, LeasedFor, NextLease
<1>2. /\ slots \in Seq(Slot) /\ Len(slots) <= MaxActive /\ PoolIsSound(slots)
      /\ MessagesAreOwn(slots, deferred) /\ deferred \in Seq(Messages) /\ waiting \in Seq(Ids)
      /\ PoolIsTrimmed(slots, stack) /\ RequestsAreHeld(requests, waiting, slots, nextId)
      /\ requests \in [Live -> Request] /\ stack \in Seq(Frames) /\ TrimIsLast(stack)
      /\ Distinct(waiting)
  BY DEF HttpInv, HttpTypes, PoolIsTrimmed, RequestsAreHeld
<1>3. id \in Nat /\ limit \in Nat /\ id \in Ids
  <2>1. id \in Ids
    BY <1>1, <1>2, FrontLeaves
  <2>2. requests[id] \in Request
    BY <1>1, <1>2
  <2> QED BY <2>1, <2>2 DEF Request, Ids
<1>4. ~(i > MaxActive) /\ \A j \in 1..Len(slots) : InUse(slots[j]) => slots[j].request # id
  BY <1>1 DEF Blocked, SlotsOf, InUse
<1>5. /\ t \in Seq(Slot) /\ i \in 1..Len(t) /\ Len(t) = (IF i > Len(slots) THEN i ELSE Len(slots))
      /\ i \in 1..Len(slots) + 1 /\ (i <= Len(slots) => slots[i].state = "idle")
      /\ \A j \in 1..Len(slots) : j # i => t[j] = slots[j]
      /\ t[i].state = "leased" /\ t[i].request = id /\ t[i].sequence \in Nat \ {0}
      /\ t[i].sequence = lease
  <2>1. slots \in Seq(Slot) /\ PoolIsSound(slots) /\ id \in Nat /\ limit \in Nat
    BY <1>2, <1>3
  <2> HIDE DEF id, limit
  <2> QED BY <2>1, LeasedSlots, SMTT(20)
<1>6. /\ PoolIsSound(t) /\ MessagesAreOwn(t, deferred) /\ IdleNodes(t) \subseteq IdleNodes(slots)
  BY <1>2, <1>3, <1>4, LeaseKeepsPool
<1>15. q = Quarantined(t, i) /\ m = [kind |-> "drained", slot |-> i, sequence |-> lease]
  OBVIOUS
<1> HIDE DEF t, i, lease, q, m
<1>7. Len(t) <= MaxActive /\ Len(slots) \in Nat
  BY <1>2, <1>4, <1>5
<1>8. Leases(slots, t, i, id)
  <2>1. ASSUME NEW j \in 1..Len(t), j # i PROVE j \in 1..Len(slots) /\ t[j] = slots[j]
    <3>1. j \in 1..Len(slots)
      BY <1>5, <1>7, <2>1
    <3> QED BY <1>5, <2>1, <3>1
  <2>2. ASSUME NEW j \in 1..Len(slots), InUse(slots[j])
        PROVE  j # i /\ j \in 1..Len(t) /\ t[j] = slots[j]
    <3>1. j # i
      BY <1>5, <2>2 DEF InUse
    <3>2. j \in 1..Len(t)
      BY <1>5, <1>7
    <3> QED BY <1>5, <3>1, <3>2
  <2> QED BY <1>5, <2>1, <2>2 DEF Leases
<1>9. RequestsAreHeld(requests, Tail(waiting), t, nextId)
  <2>1. Head(waiting) \in DOMAIN requests
    BY <1>1 DEF Live
  <2> QED BY <1>1, <1>2, <1>4, <1>8, <2>1, LeasedRequestGoesOut
<1>10. Tail(waiting) \in Seq(Ids)
  BY <1>1, <1>2, FrontLeaves
<1> HIDE DEF id, limit
<1>11. CASE slots' = t /\ UNCHANGED <<requests, deferred, stack, outcome>>
  <2>1. HttpTypes'
    BY <1>1, <1>2, <1>5, <1>7, <1>10, <1>11 DEF HttpInv, HttpTypes, Live
  <2>2. OutcomesAreLast'
    BY <1>1, <1>11 DEF HttpInv, OutcomesAreLast, Live
  <2>3. PoolIsTrimmed(t, stack)
    BY <1>2, <1>5, <1>6, FewerNodesIdle
  <2> QED BY <1>1, <1>6, <1>9, <1>11, <2>1, <2>2, <2>3 DEF HttpInv
<1>12. CASE slots' = q /\ deferred' = Append(deferred, m) /\ Settle(id, "failed", stack)
  <2> DEFINE e == deferred \o Draining(t, i)
  <2>1. InUse(t[i])
    BY <1>5 DEF InUse
  <2>2. /\ q \in Seq(Slot) /\ Len(q) = Len(t)
        /\ PoolIsSound(q) /\ e \in Seq(Messages) /\ MessagesAreOwn(q, e)
        /\ IdleNodes(q) = IdleNodes(t)
        /\ \A j \in 1..Len(t) :
             /\ InUse(q[j]) <=> InUse(t[j])
             /\ q[j].request = t[j].request
             /\ Leased(q[j]) <=> Leased(t[j]) /\ t[j].request # t[i].request
    BY <1>2, <1>5, <1>6, <1>7, <2>1, QuarantineStep DEF q
  <2>3. deferred' = e
    <3>1. m \in Messages /\ Draining(t, i) = <<m>>
      <4>1. i \in SlotIds
        BY <1>5, <1>7 DEF SlotIds
      <4>2. m = [kind |-> "drained", slot |-> i, sequence |-> t[i].sequence]
        BY <1>5, <1>15
      <4> QED BY <1>5, <4>1, <4>2 DEF Messages, Draining
    <3> QED BY <1>2, <1>12, <3>1, WithLast
  <2>4. /\ requests' = Without(id) /\ outcome' = [outcome EXCEPT ![id] = "failed"]
        /\ stack' = <<Callback(id)>> \o stack /\ "failed" \in Outcomes
    BY <1>12 DEF Settle, Outcomes
  <2>5. /\ Live' = Live \ {id} /\ DOMAIN requests' = DOMAIN requests \ {id}
        /\ \A x \in Live' : requests'[x] = requests[x]
        /\ requests' \in [Live' -> Request] /\ outcome' \in [Ids -> Outcomes]
        /\ OutcomesAreLast'
    BY <1>1, <2>4, RequestGoes
  <2> HIDE DEF e
  <2>6. RequestsAreHeld(requests', Tail(waiting), q, nextId)
    <3>1. GoneFrom(requests, requests', id)
      BY <2>5 DEF GoneFrom, Live
    <3>2. GoneFromPool(t, q, id)
      BY <1>5, <2>2 DEF GoneFromPool
    <3> QED BY <1>9, <3>1, <3>2, SettledRequestGoes
  <2>7. stack' \in Seq(Frames) /\ TrimIsLast(stack') /\ Drainees(stack') = Drainees(stack)
    <3>1. Callback(id) \in Frames /\ Callback(id).at # "trim"
      BY <1>3 DEF Callback, Frames
    <3> QED BY <1>2, <2>4, <3>1, CallKeepsStack
  <2>8. PoolIsTrimmed(q, stack')
    BY <1>2, <1>6, <2>2, <2>7, FewerNodesIdle
  <2>9. HttpTypes'
    BY <1>1, <1>7, <1>10, <1>12, <2>2, <2>3, <2>5, <2>7 DEF HttpInv, HttpTypes
  <2> QED BY <1>1, <1>12, <2>2, <2>3, <2>5, <2>6, <2>8, <2>9 DEF HttpInv
<1> QED BY <1>1, <1>11, <1>12

-----------------------------------------------------------------------------
(* The invariant. *)

\* An empty service has it.
LEMMA InitHttp ==
  ASSUME Init
  PROVE  HttpInv
<1>1. Live = {} /\ requests \in [Live -> Request]
  BY DEF Init, Live
<1>2. /\ waiting \in Seq(Ids) /\ slots \in Seq(Slot)
      /\ deferred \in Seq(Messages) /\ stack \in Seq(Frames)
  BY DEF Init
<1>3. /\ Len(slots) = 0 /\ nextId \in 1..(MaxRequests + 1)
      /\ closed \in BOOLEAN /\ inTree \in BOOLEAN
      /\ outcome \in [Ids -> Outcomes]
  <2>1. outcome \in [Ids -> Outcomes]
    BY DEF Init, Outcomes
  <2>2. closed \in BOOLEAN /\ inTree \in BOOLEAN
    BY DEF Init
  <2>3. Len(slots) = 0 /\ nextId = 1 /\ 1 \in 1..(MaxRequests + 1)
    BY DEF Init
  <2> QED BY <2>1, <2>2, <2>3
<1>4. HttpTypes
  BY <1>1, <1>2, <1>3 DEF HttpTypes
<1>5. /\ \A k : k \notin 1..Len(waiting) /\ k \notin 1..Len(slots) /\ k \notin 1..Len(deferred)
      /\ \A k : k \notin 1..Len(stack)
  BY DEF Init
<1>6. PoolIsSound(slots) /\ MessagesAreOwn(slots, deferred)
  BY <1>5 DEF PoolIsSound, MessagesAreOwn
<1>7. RequestsAreHeld(requests, waiting, slots, nextId)
  BY <1>1, <1>5 DEF RequestsAreHeld, Distinct, Live
<1>8. PoolIsTrimmed(slots, stack)
  <2>1. IdleNodes(slots) \ Drainees(stack) = {}
    BY <1>5 DEF IdleNodes
  <2>2. Cardinality({}) = 0
    BY FS_EmptySet
  <2>3. Cardinality(IdleNodes(slots) \ Drainees(stack)) = 0 /\ 0 <= MaxIdle
    BY <2>1, <2>2
  <2> QED BY <1>5, <2>3 DEF PoolIsTrimmed, TrimIsLast
<1>9. OutcomesAreLast
  BY DEF OutcomesAreLast, Init
<1> QED BY <1>4, <1>6, <1>7, <1>8, <1>9 DEF HttpInv

\* Every step keeps it.
LEMMA NextHttp ==
  ASSUME HttpInv, [Next]_vars
  PROVE  HttpInv'
<1>1. CASE UNCHANGED vars
  <2>1. HttpTypes' /\ OutcomesAreLast'
    BY <1>1 DEF vars, HttpInv, HttpTypes, OutcomesAreLast, Live
  <2> QED BY <1>1, <2>1 DEF vars, HttpInv
<1>2. CASE \E spec \in Specs : Submit(spec)
  BY <1>2, SubmitStep
<1>3. CASE \E id \in Ids : CancelActive(id) \/ CancelWaiting(id) \/ Deadline(id)
  BY <1>3, CancelActiveStep, CancelWaitingStep, DeadlineStep
<1>4. CASE ProcessFrame \/ EnterTree \/ Shutdown
  BY <1>4, CallStep, EnterTreeStep, ShutdownStep
<1>5. CASE Unwind
  BY <1>5, CallStep, ExpireStep, StartSkipStep, LeaseStep, TrimStep DEF Unwind
<1>6. CASE Deliver
  <2>1. CASE DropCompletion
    BY <2>1, DropStep DEF DropCompletion
  <2>2. CASE Redirected \/ Drained
    BY <2>2, RedirectedStep, DrainedStep
  <2>3. CASE \E how \in {"answered", "failed"} : Completed(how)
    BY <2>3, CompletedStep
  <2> QED BY <1>6, <2>1, <2>2, <2>3 DEF Deliver
<1>7. CASE \E i \in SlotIds : Respond(i)
  BY <1>7, RespondStep
<1> QED BY <1>1, <1>2, <1>3, <1>4, <1>5, <1>6, <1>7 DEF Next

\* The invariant holds in every reachable state, for any settings.
LEMMA HttpInvariant == SafetySpec => []HttpInv
<1>1. Init => HttpInv
  BY InitHttp
<1>2. HttpInv /\ [Next]_vars => HttpInv'
  BY NextHttp
<1> QED BY <1>1, <1>2, PTL DEF SafetySpec

-----------------------------------------------------------------------------
(* The theorems. *)

\* No request is lost or held twice, whoever submits and cancels inside completions, and a slot
\* in use keeps its node, also when a completion run by _drained() leases it again.
THEOREM RequestsAreHeldOnce == SafetySpec => []RequestIsHeldOnce
<1>1. HttpInv => RequestIsHeldOnce
  <2> SUFFICES ASSUME HttpInv PROVE RequestIsHeldOnce
    OBVIOUS
  <2>1. /\ PoolIsSound(slots) /\ RequestsAreHeld(requests, waiting, slots, nextId)
        /\ Distinct(waiting)
    BY DEF HttpInv, RequestsAreHeld
  <2>2. \A i \in 1..Len(slots) : slots[i].state # "idle" => slots[i].node # 0
    BY <2>1 DEF PoolIsSound, InUse
  <2>3. ASSUME NEW id \in Live
        PROVE  LET queued == Cardinality({k \in 1..Len(waiting) : waiting[k] = id})
                   onWire == {i \in SlotsOf(id) : slots[i].state = "leased"}
               IN IF requests[id].cancelled THEN SlotsOf(id) # {} /\ onWire = {}
                  ELSE queued + Cardinality(onWire) = 1
    <3> DEFINE Q == {k \in 1..Len(waiting) : waiting[k] = id}
               W == {i \in SlotsOf(id) : slots[i].state = "leased"}
    <3>1. /\ \A i \in W : i \in 1..Len(slots) /\ Leased(slots[i]) /\ slots[i].request = id
          /\ \A i \in 1..Len(slots) : Leased(slots[i]) /\ slots[i].request = id => i \in W
          /\ \A i \in 1..Len(slots) : InUse(slots[i]) /\ slots[i].request = id => i \in SlotsOf(id)
      BY DEF SlotsOf, Leased, InUse
    <3>2. /\ \A k \in Q : k \in 1..Len(waiting) /\ waiting[k] = id
          /\ Waits(waiting, id) <=> Q # {}
      BY DEF Waits
    <3> HIDE DEF Q, W
    <3>3. CASE requests[id].cancelled
      <4>1. \E i \in 1..Len(slots) : InUse(slots[i]) /\ slots[i].request = id
        BY <2>1, <3>3 DEF RequestsAreHeld, Live
      <4>2. SlotsOf(id) # {}
        BY <3>1, <4>1
      <4>3. W = {}
        BY <2>1, <3>1, <3>3 DEF RequestsAreHeld
      <4> QED BY <3>3, <4>2, <4>3 DEF W
    <3>4. CASE ~requests[id].cancelled
      <4>1. Q # {} \/ W # {}
        BY <2>1, <3>1, <3>2, <3>4 DEF RequestsAreHeld, Live
      <4>2. Q = {} \/ W = {}
        BY <2>1, <3>1, <3>2 DEF RequestsAreHeld
      <4>3. ASSUME NEW k \in Q PROVE Q = {k}
        BY <2>1, <3>2 DEF Distinct
      <4>4. ASSUME NEW i \in W PROVE W = {i}
        <5>1. ASSUME NEW j \in W PROVE j = i
          BY <2>1, <3>1 DEF PoolIsSound, InUse, Leased
        <5> QED BY <5>1
      <4>5. /\ Cardinality({}) = 0
            /\ \A x : Cardinality({x}) = 1
        BY FS_EmptySet, FS_Singleton
      <4>6. Cardinality(Q) + Cardinality(W) = 1
        <5>1. CASE Q = {}
          <6>1. PICK i : i \in W
            BY <4>1, <5>1
          <6>2. W = {i}
            BY <4>4, <6>1
          <6>3. Cardinality(Q) = 0 /\ Cardinality(W) = 1
            BY <4>5, <5>1, <6>2
          <6> QED BY <6>3
        <5>2. CASE W = {}
          <6>1. PICK k : k \in Q
            BY <4>1, <5>2
          <6>2. Q = {k}
            BY <4>3, <6>1
          <6>3. Cardinality(Q) = 1 /\ Cardinality(W) = 0
            BY <4>5, <5>2, <6>2
          <6> QED BY <6>3
        <5> QED BY <4>2, <5>1, <5>2
      <4> QED BY <3>4, <4>6 DEF Q, W
    <3> QED BY <3>3, <3>4
  <2> QED BY <2>2, <2>3 DEF RequestIsHeldOnce
<1> QED BY <1>1, HttpInvariant, PTL

\* A response settles, or redirects, the request it was sent for: a completion that waits in
\* Godot's queue while its lease ends is never taken for the next lease's.
THEOREM ResponsesAreOwn == SafetySpec => ResponseIsOwn
<1>1. ASSUME HttpInv, [Next]_vars
      PROVE  [(\E how \in Outcomes : Completed(how)) \/ Redirected
                => Message.sent = slots[Message.slot].sequence]_vars
  <2> SUFFICES ASSUME (\E how \in Outcomes : Completed(how)) \/ Redirected
               PROVE  Message.sent = slots[Message.slot].sequence
    BY Zenon
  <2>1. Delivering("done") /\ Reaches(Message)
    BY Zenon DEF Completed, Redirected
  <2> QED BY <1>1, <2>1, ReachedRequest
<1> QED BY <1>1, HttpInvariant, PTL DEF SafetySpec, ResponseIsOwn

\* A request that is live has not ended, so that settling it ends it for the first time.
LEMMA SettlingEndsOnce ==
  ASSUME HttpInv, NEW id \in Live, NEW how, outcome' = [outcome EXCEPT ![id] = how]
  PROVE  \A x \in Ids : outcome[x] # "none" => outcome'[x] = outcome[x]
<1>1. outcome \in [Ids -> Outcomes] /\ id \in Ids /\ outcome[id] = "none"
  BY DEF HttpInv, HttpTypes, OutcomesAreLast, RequestsAreHeld, Live
<1> QED BY <1>1

\* Every request ends once: no second completion, none after cancel() said it was gone, and none
\* after shutdown().
THEOREM RequestsEndOnce == SafetySpec => EndsOnce
<1>1. ASSUME HttpInv, [Next]_vars
      PROVE  [\A id \in Ids : outcome[id] # "none" => outcome'[id] = outcome[id]]_vars
  <2> DEFINE P == \A id \in Ids : outcome[id] # "none" => outcome'[id] = outcome[id]
  <2>1. CASE outcome' = outcome
    BY <2>1
  <2>2. ASSUME NEW id \in Ids, CancelWaiting(id) PROVE P
    <3>1. id \in Live /\ outcome' = [outcome EXCEPT ![id] = "dropped"]
      BY <2>2 DEF CancelWaiting
    <3> HIDE DEF P
    <3> QED BY <1>1, <3>1, SettlingEndsOnce DEF P
  <2>3. ASSUME Shutdown PROVE P
    <3>1. outcome' = [x \in Ids |-> IF x \in Live THEN "dropped" ELSE outcome[x]]
      BY <2>3 DEF Shutdown
    <3>2. \A x \in Ids : outcome[x] # "none" => x \notin Live
      BY <1>1 DEF HttpInv, OutcomesAreLast
    <3> QED BY <3>1, <3>2
  <2>4. ASSUME Expire PROVE P
    <3> DEFINE id == Min(Top.ids)
    <3>1. CASE id \notin Live
      <4>1. outcome' = outcome
        BY <2>4, <3>1 DEF Expire
      <4> QED BY <4>1
    <3>2. CASE id \in Live
      <4>1. outcome' = [outcome EXCEPT ![id] = "timed out"]
        BY <2>4, <3>2 DEF Expire, Settle
      <4> HIDE DEF id, P
      <4> QED BY <1>1, <3>2, <4>1, SettlingEndsOnce DEF P
    <3> QED BY <3>1, <3>2
  <2>5. ASSUME Lease PROVE P
    <3> DEFINE id == Head(waiting)
    <3>1. id \in Live /\ (outcome' = outcome \/ outcome' = [outcome EXCEPT ![id] = "failed"])
      BY <2>5 DEF Lease, Settle
    <3> HIDE DEF id, P
    <3> QED BY <1>1, <2>1, <3>1, SettlingEndsOnce DEF P
  <2>6. ASSUME NEW how \in {"answered", "failed"}, Completed(how) PROVE P
    <3> DEFINE id == slots[Message.slot].request
    <3>1. id \in Live
      BY <1>1, <2>6, ReachedRequest DEF Completed
    <3>2. outcome' = [outcome EXCEPT ![id] = how]
      BY <2>6 DEF Completed, Settle
    <3> HIDE DEF id, P
    <3> QED BY <1>1, <3>1, <3>2, SettlingEndsOnce DEF P
  <2>7. ASSUME Drained PROVE P
    <3> DEFINE id == slots[Message.slot].request
    <3>1. outcome' = outcome \/ (id \in Live /\ outcome' = [outcome EXCEPT ![id] = "cancelled"])
      BY <2>7, Zenon DEF Drained, Settle
    <3> HIDE DEF id, P
    <3> QED BY <1>1, <2>1, <3>1, SettlingEndsOnce DEF P
  <2>8. ASSUME \/ UNCHANGED vars \/ ProcessFrame \/ EnterTree \/ Redirected \/ DropCompletion
               \/ ExpireDone \/ StartStop \/ StartSkip \/ Return \/ Trim
               \/ (\E spec \in Specs : Submit(spec)) \/ (\E i \in SlotIds : Respond(i))
               \/ \E id \in Ids : CancelActive(id) \/ Deadline(id)
        PROVE  P
    BY <2>8, Zenon
    DEF vars, ProcessFrame, EnterTree, Redirected, DropCompletion, ExpireDone, StartStop,
        StartSkip, Return, Trim, Submit, Respond, CancelActive, Deadline
  <2> HIDE DEF P
  <2>9. P
    BY <1>1, <2>2, <2>3, <2>4, <2>5, <2>6, <2>7, <2>8 DEF Next, Unwind, Deliver
  <2> QED BY <2>9 DEF P
<1> QED BY <1>1, HttpInvariant, PTL DEF SafetySpec, EndsOnce

-----------------------------------------------------------------------------
(* The budget. *)

Bodies(rs) == SumFunctionOnSet([id \in DOMAIN rs |-> rs[id].body], DOMAIN rs)
Reserved(s) == SumFunctionOnSet([i \in 1..Len(s) |-> s[i].reservation], 1..Len(s))

\* What is buffered is what the requests and the leases hold; a slot without a lease holds
\* nothing.
Balanced(b, rs, s) ==
  /\ b = Bodies(rs) + Reserved(s)
  /\ \A i \in 1..Len(s) : InUse(s[i]) \/ s[i].reservation = 0

\* Once closed, the service has nothing under way.
BudgetInv ==
  /\ HttpInv
  /\ buffered \in 0..MaxBuffered
  /\ IF closed THEN stack = <<>> /\ \A i \in 1..Len(slots) : ~InUse(slots[i])
     ELSE Balanced(buffered, requests, slots)

Charged(rs) == DOMAIN rs \subseteq Ids /\ \A id \in DOMAIN rs : rs[id].body \in Nat

\* The bodies add up to a number.
LEMMA BodiesAreNat ==
  ASSUME NEW rs, Charged(rs)
  PROVE  Bodies(rs) \in Nat /\ IsFiniteSet(DOMAIN rs)
<1> DEFINE f == [id \in DOMAIN rs |-> rs[id].body]
<1>1. IsFiniteSet(Ids)
  BY FS_Interval DEF Ids
<1>2. IsFiniteSet(DOMAIN rs) /\ \A x \in DOMAIN rs : f[x] \in Nat
  BY <1>1, FS_Subset DEF Charged
<1> HIDE DEF f
<1>3. SumFunctionOnSet(f, DOMAIN rs) \in Nat
  BY <1>2, SumType
<1> QED BY <1>2, <1>3 DEF Bodies, f

\* A request that goes takes its body with it, and one that comes brings its own.
LEMMA BodyGoes ==
  ASSUME NEW rs, Charged(rs), NEW id \in DOMAIN rs, NEW rt, GoneFrom(rs, rt, id)
  PROVE  Bodies(rs) = rs[id].body + Bodies(rt) /\ Bodies(rt) \in Nat /\ rs[id].body \in Nat
<1> DEFINE f == [x \in DOMAIN rs |-> rs[x].body]
           g == [x \in DOMAIN rt |-> rt[x].body]
<1>1. Charged(rt) /\ DOMAIN rt = DOMAIN rs \ {id}
  BY DEF Charged, GoneFrom
<1>2. /\ \A x \in DOMAIN rs : f[x] \in Nat /\ f[id] = rs[id].body
      /\ \A x \in DOMAIN rt : f[x] = g[x]
  BY DEF Charged, GoneFrom
<1>3. IsFiniteSet(DOMAIN rs) /\ IsFiniteSet(DOMAIN rt) /\ Bodies(rt) \in Nat
  BY <1>1, BodiesAreNat
<1> HIDE DEF f, g
<1>4. SumFunctionOnSet(f, DOMAIN rs) = f[id] + SumFunctionOnSet(f, DOMAIN rs \ {id})
  BY <1>2, <1>3, SumRemove
<1>5. SumFunctionOnSet(f, DOMAIN rt) = SumFunctionOnSet(g, DOMAIN rt)
  BY <1>2, <1>3, SumSame
<1> QED BY <1>1, <1>2, <1>3, <1>4, <1>5 DEF Bodies, f, g, Charged

\* The body of one request changes.
LEMMA BodyChanges ==
  ASSUME NEW rs, Charged(rs), NEW id \in DOMAIN rs, NEW rt, Charged(rt), DOMAIN rt = DOMAIN rs,
         \A x \in DOMAIN rs : x # id => rt[x].body = rs[x].body
  PROVE  /\ Bodies(rt) + rs[id].body = Bodies(rs) + rt[id].body
         /\ rs[id].body \in Nat /\ rt[id].body \in Nat
<1> DEFINE f == [x \in DOMAIN rs |-> rs[x].body]
           g == [x \in DOMAIN rt |-> rt[x].body]
<1>1. /\ \A x \in DOMAIN rs : f[x] \in Nat /\ g[x] \in Nat
      /\ \A x \in DOMAIN rs : x = id \/ f[x] = g[x]
      /\ f[id] = rs[id].body /\ g[id] = rt[id].body
  BY DEF Charged
<1>2. IsFiniteSet(DOMAIN rs)
  BY BodiesAreNat
<1> HIDE DEF f, g
<1>3. SumFunctionOnSet(g, DOMAIN rs) + f[id] = SumFunctionOnSet(f, DOMAIN rs) + g[id]
  BY <1>1, <1>2, SumChange
<1> QED BY <1>1, <1>3 DEF Bodies, f, g

\* The reservations add up to a number.
LEMMA ReservedIsNat ==
  ASSUME NEW s \in Seq(Slot)
  PROVE  Reserved(s) \in Nat /\ IsFiniteSet(1..Len(s))
<1> DEFINE f == [i \in 1..Len(s) |-> s[i].reservation]
<1>1. IsFiniteSet(1..Len(s)) /\ \A i \in 1..Len(s) : f[i] \in Nat
  BY FS_Interval, SlotFields
<1> HIDE DEF f
<1>2. SumFunctionOnSet(f, 1..Len(s)) \in Nat
  BY <1>1, SumType
<1> QED BY <1>1, <1>2 DEF Reserved, f

\* They are the same in a pool whose slots reserve the same.
LEMMA ReservedSame ==
  ASSUME NEW s \in Seq(Slot), NEW t \in Seq(Slot), Len(t) = Len(s),
         \A i \in 1..Len(s) : t[i].reservation = s[i].reservation
  PROVE  Reserved(t) = Reserved(s)
<1> DEFINE f == [i \in 1..Len(s) |-> s[i].reservation]
           g == [i \in 1..Len(s) |-> t[i].reservation]
<1>1. IsFiniteSet(1..Len(s)) /\ \A i \in 1..Len(s) : f[i] = g[i]
  BY FS_Interval
<1> HIDE DEF f, g
<1>2. SumFunctionOnSet(f, 1..Len(s)) = SumFunctionOnSet(g, 1..Len(s))
  BY <1>1, SumSame
<1> QED BY <1>2 DEF Reserved, f, g

\* One slot reserves something else.
LEMMA ReservedChanges ==
  ASSUME NEW s \in Seq(Slot), NEW t \in Seq(Slot), Len(t) = Len(s), NEW i \in 1..Len(s),
         \A j \in 1..Len(s) : j # i => t[j] = s[j]
  PROVE  /\ Reserved(t) + s[i].reservation = Reserved(s) + t[i].reservation
         /\ s[i].reservation \in Nat /\ t[i].reservation \in Nat
<1> DEFINE f == [j \in 1..Len(s) |-> s[j].reservation]
           g == [j \in 1..Len(s) |-> t[j].reservation]
           D == 1..Len(s)
<1>1. PICK y : y = i
  OBVIOUS
<1>2. \A j \in D : s[j].reservation \in Nat /\ t[j].reservation \in Nat
  BY SlotFields
<1>3. /\ \A j \in D : f[j] \in Nat /\ g[j] \in Nat
      /\ \A j \in D : j = y \/ f[j] = g[j]
      /\ f[i] = s[i].reservation /\ g[i] = t[i].reservation
  BY <1>1, <1>2
<1>4. IsFiniteSet(D) /\ y \in D
  BY <1>1, FS_Interval
<1> HIDE DEF f, g, D
<1>5. SumFunctionOnSet(g, D) + f[y] = SumFunctionOnSet(f, D) + g[y]
  BY <1>3, <1>4, SumChange
<1>6. s[i].reservation \in Nat /\ t[i].reservation \in Nat
  BY SlotFields
<1> QED BY <1>1, <1>3, <1>5, <1>6 DEF Reserved, f, g, D

\* The pool grows by a slot.
LEMMA ReservedGrows ==
  ASSUME NEW s \in Seq(Slot), NEW t \in Seq(Slot), Len(t) = Len(s) + 1,
         \A j \in 1..Len(s) : t[j] = s[j]
  PROVE  Reserved(t) = t[Len(t)].reservation + Reserved(s)
<1> DEFINE f == [j \in 1..Len(s) |-> s[j].reservation]
           g == [j \in 1..Len(t) |-> t[j].reservation]
           n == Len(t)
<1>1. /\ n \in 1..Len(t) /\ 1..Len(s) = (1..Len(t)) \ {n}
      /\ IsFiniteSet(1..Len(s)) /\ IsFiniteSet(1..Len(t))
  <2>1. Len(s) \in Nat /\ n = Len(s) + 1
    OBVIOUS
  <2>2. IsFiniteSet(1..Len(s)) /\ IsFiniteSet(1..Len(t))
    BY <2>1, FS_Interval
  <2> QED BY <2>1, <2>2
<1>2. /\ \A j \in 1..Len(t) : g[j] \in Nat
      /\ \A j \in 1..Len(s) : g[j] = f[j]
      /\ g[n] = t[n].reservation
  BY <1>1, SlotFields
<1> HIDE DEF f, g, n
<1>3. SumFunctionOnSet(g, 1..Len(t)) = g[n] + SumFunctionOnSet(g, (1..Len(t)) \ {n})
  BY <1>1, <1>2, SumRemove
<1>4. SumFunctionOnSet(g, 1..Len(s)) = SumFunctionOnSet(f, 1..Len(s))
  BY <1>1, <1>2, SumSame
<1> QED BY <1>1, <1>2, <1>3, <1>4 DEF Reserved, f, g, n

\* quarantine() leaves the reservation to the end of the lease.
LEMMA QuarantineReserves ==
  ASSUME NEW b, NEW rs, NEW s \in Seq(Slot), PoolIsSound(s), NEW i \in 1..Len(s), InUse(s[i]),
         Balanced(b, rs, s)
  PROVE  Balanced(b, rs, Quarantined(s, i)) /\ Reserved(Quarantined(s, i)) = Reserved(s)
<1> DEFINE q == Quarantined(s, i)
<1>1. /\ q \in Seq(Slot) /\ Len(q) = Len(s) /\ \A j \in 1..Len(s) : j # i => q[j] = s[j]
      /\ q[i].state = "draining" /\ q[i].reservation = s[i].reservation
  BY QuarantinedSlots
<1> HIDE DEF q
<1>2. \A j \in 1..Len(s) : q[j].reservation = s[j].reservation
  BY <1>1
<1>3. Reserved(q) = Reserved(s)
  BY <1>1, <1>2, ReservedSame
<1>4. \A j \in 1..Len(q) : InUse(q[j]) \/ q[j].reservation = 0
  BY <1>1 DEF Balanced, InUse
<1> QED BY <1>3, <1>4 DEF Balanced, q

\* settle(): the request that goes pays its body back.
LEMMA SettlementBalances ==
  ASSUME NEW b \in Nat, NEW rs, Charged(rs), NEW s \in Seq(Slot), Balanced(b, rs, s),
         NEW id \in DOMAIN rs, NEW rt, GoneFrom(rs, rt, id)
  PROVE  Balanced(b - rs[id].body, rt, s) /\ b - rs[id].body \in 0..b
<1>1. Bodies(rs) = rs[id].body + Bodies(rt) /\ Bodies(rt) \in Nat /\ rs[id].body \in Nat
  BY BodyGoes
<1>2. Reserved(s) \in Nat
  BY ReservedIsNat
<1>3. b - rs[id].body = Bodies(rt) + Reserved(s) /\ b - rs[id].body \in 0..b
  BY <1>1, <1>2 DEF Balanced
<1> QED BY <1>3 DEF Balanced

\* The requests and their bodies, in every state.
LEMMA RequestsAreCharged ==
  ASSUME BudgetInv
  PROVE  /\ Charged(requests) /\ slots \in Seq(Slot) /\ PoolIsSound(slots) /\ Live = DOMAIN requests
         /\ buffered \in Nat /\ buffered <= MaxBuffered /\ MaxBuffered \in Nat /\ closed \in BOOLEAN
<1>1. requests \in [Live -> Request] /\ Live \subseteq Ids
  BY DEF BudgetInv, HttpInv, HttpTypes, RequestsAreHeld, Live
<1>2. Charged(requests)
  BY <1>1 DEF Charged, Request, Live
<1> QED BY <1>2 DEF BudgetInv, HttpInv, HttpTypes, Live

\* A request that goes is gone.
LEMMA WithoutIsGone ==
  ASSUME NEW id \in Live, requests' = Without(id)
  PROVE  GoneFrom(requests, requests', id)
<1>1. requests' = [x \in Live \ {id} |-> requests[x]]
  BY DEF Without, Restrict
<1> QED BY <1>1 DEF GoneFrom, Live

\* Steps that leave the budget alone.
LEMMA BudgetStays ==
  ASSUME BudgetInv, HttpInv', UNCHANGED <<buffered, requests, slots, closed>>,
         closed => stack' = <<>>
  PROVE  BudgetInv'
BY DEF BudgetInv

\* submit().
LEMMA SubmitBudget ==
  ASSUME BudgetInv, HttpInv', NEW spec \in Specs, Submit(spec)
  PROVE  BudgetInv'
<1>1. /\ Charged(requests) /\ slots \in Seq(Slot) /\ Live = DOMAIN requests
      /\ buffered \in Nat /\ buffered <= MaxBuffered /\ MaxBuffered \in Nat
  BY RequestsAreCharged
<1>2. spec.body \in Nat /\ nextId \in Ids /\ nextId \notin Live
  <2>1. spec.body \in Nat
    OBVIOUS
  <2>2. nextId \in Nat \ {0} /\ nextId <= MaxRequests /\ MaxRequests \in Nat
    BY DEF BudgetInv, HttpInv, HttpTypes, Submit
  <2>3. nextId \notin Live
    BY <2>2 DEF BudgetInv, HttpInv, RequestsAreHeld, Live, Ids
  <2> QED BY <2>1, <2>2, <2>3 DEF Ids
<1>3. ~closed /\ ~closed' /\ Balanced(buffered, requests, slots)
  BY DEF Submit, Callable, BudgetInv
<1>4. /\ DOMAIN requests' = Live \cup {nextId} /\ requests'[nextId].body = spec.body
      /\ \A x \in Live : requests'[x] = requests[x]
  BY <1>2 DEF Submit
<1>5. Charged(requests') /\ GoneFrom(requests', requests, nextId)
  <2>1. \A x \in DOMAIN requests' : requests'[x].body \in Nat
    BY <1>1, <1>2, <1>4 DEF Charged
  <2>2. DOMAIN requests = DOMAIN requests' \ {nextId}
    BY <1>1, <1>2, <1>4
  <2>3. GoneFrom(requests', requests, nextId)
    BY <1>1, <1>4, <2>2 DEF GoneFrom
  <2> QED BY <1>1, <1>2, <1>4, <2>1, <2>3 DEF Charged
<1>6. Bodies(requests') = spec.body + Bodies(requests) /\ Bodies(requests) \in Nat
  BY <1>4, <1>5, BodyGoes
<1>7. buffered' = buffered + spec.body /\ spec.body <= MaxBuffered - buffered /\ slots' = slots
  BY DEF Submit, Accepts, Room
<1>8. Reserved(slots) \in Nat
  BY <1>1, ReservedIsNat
<1>9. Balanced(buffered', requests', slots')
  BY <1>1, <1>2, <1>3, <1>6, <1>7, <1>8 DEF Balanced
<1>10. buffered' \in 0..MaxBuffered
  BY <1>1, <1>2, <1>7
<1> QED BY <1>3, <1>9, <1>10 DEF BudgetInv

\* A request is cancelled on the wire, or its deadline passes.
LEMMA FlagBudget ==
  ASSUME BudgetInv, HttpInv', NEW id, CancelActive(id) \/ Deadline(id)
  PROVE  BudgetInv'
<1>1. /\ Charged(requests) /\ slots \in Seq(Slot) /\ Live = DOMAIN requests /\ PoolIsSound(slots)
      /\ buffered \in Nat /\ buffered <= MaxBuffered /\ MaxBuffered \in Nat
  BY RequestsAreCharged
<1>2. /\ DOMAIN requests' = Live /\ \A x \in Live : requests'[x].body = requests[x].body
      /\ id \in Live /\ buffered' = buffered /\ closed' = closed /\ stack' = stack
  <2>1. requests \in [Live -> Request]
    BY DEF BudgetInv, HttpInv, HttpTypes
  <2>2. CASE CancelActive(id)
    <3>1. requests' = [requests EXCEPT ![id].cancelled = TRUE] /\ id \in Live
      BY <2>2 DEF CancelActive
    <3> QED BY <2>1, <2>2, <3>1 DEF CancelActive, Request, Live
  <2>3. CASE Deadline(id)
    <3>1. requests' = [requests EXCEPT ![id].due = TRUE] /\ id \in Live
      BY <2>3 DEF Deadline
    <3> QED BY <2>1, <2>3, <3>1 DEF Deadline, Request, Live
  <2> QED BY <2>2, <2>3
<1>3. Charged(requests') /\ Bodies(requests') = Bodies(requests)
  <2>1. Charged(requests')
    BY <1>1, <1>2 DEF Charged
  <2>2. Bodies(requests') + requests[id].body = Bodies(requests) + requests'[id].body
    BY <1>1, <1>2, <2>1, BodyChanges
  <2>3. Bodies(requests') \in Nat /\ Bodies(requests) \in Nat /\ requests[id].body \in Nat
    BY <1>1, <1>2, <2>1, BodiesAreNat DEF Charged
  <2> QED BY <1>2, <2>1, <2>2, <2>3
<1>4. /\ closed => \A i \in 1..Len(slots') : ~InUse(slots'[i])
      /\ ~closed => Balanced(buffered, requests, slots')
  <2>1. CASE slots' = slots
    BY <2>1 DEF BudgetInv
  <2>2. CASE slots' # slots
    <3>1. CancelActive(id) /\ SlotsOf(id) # {} /\ ~closed
      BY <2>2 DEF Deadline, CancelActive, Callable
    <3>2. PICK i \in 1..Len(slots) : InUse(slots[i]) /\ slots' = Quarantined(slots, i)
      BY <3>1, SlotOfRequest DEF CancelActive
    <3> QED BY <1>1, <3>1, <3>2, QuarantineReserves DEF BudgetInv
  <2> QED BY <2>1, <2>2
<1>5. ~closed => Balanced(buffered', requests', slots')
  BY <1>2, <1>3, <1>4 DEF Balanced
<1> QED BY <1>2, <1>4, <1>5 DEF BudgetInv

\* A request leaves: cancelled while it waits, expired, or answered.  Its slot, if it has one,
\* starts to drain.
LEMMA SettledBudget ==
  ASSUME BudgetInv, HttpInv', NEW id \in Live, requests' = Without(id), ~closed, ~closed',
         buffered' = buffered - requests[id].body,
         \/ slots' = slots
         \/ \E i \in 1..Len(slots) : InUse(slots[i]) /\ slots' = Quarantined(slots, i)
  PROVE  BudgetInv'
<1>1. /\ Charged(requests) /\ slots \in Seq(Slot) /\ Live = DOMAIN requests /\ PoolIsSound(slots)
      /\ buffered \in Nat /\ buffered <= MaxBuffered /\ MaxBuffered \in Nat
      /\ Balanced(buffered, requests, slots)
  BY RequestsAreCharged DEF BudgetInv
<1>2. slots' \in Seq(Slot) /\ Balanced(buffered, requests, slots')
  <2>1. slots' \in Seq(Slot)
    BY DEF HttpInv, HttpTypes
  <2> QED BY <1>1, <2>1, QuarantineReserves
<1>3. GoneFrom(requests, requests', id)
  BY WithoutIsGone
<1>4. Balanced(buffered - requests[id].body, requests', slots') /\ buffered - requests[id].body \in 0..buffered
  BY <1>1, <1>2, <1>3, SettlementBalances
<1>5. buffered' \in 0..MaxBuffered
  BY <1>1, <1>4
<1> QED BY <1>4, <1>5 DEF BudgetInv

\* The pool changes, and none of its leases.
LEMMA PoolBudget ==
  ASSUME BudgetInv, HttpInv', UNCHANGED <<buffered, requests, closed>>, closed => stack' = <<>>,
         Len(slots') = Len(slots),
         \A i \in 1..Len(slots) : /\ slots'[i].reservation = slots[i].reservation
                                  /\ InUse(slots'[i]) <=> InUse(slots[i])
  PROVE  BudgetInv'
<1>1. slots \in Seq(Slot) /\ slots' \in Seq(Slot)
  BY DEF BudgetInv, HttpInv, HttpTypes
<1>2. Reserved(slots') = Reserved(slots)
  BY <1>1, ReservedSame
<1>3. ~closed => Balanced(buffered', requests', slots')
  BY <1>2 DEF BudgetInv, Balanced
<1> QED BY <1>3 DEF BudgetInv

\* A worker is done with its request, and a node that is not needed is freed.
LEMMA NodeBudget ==
  ASSUME BudgetInv, HttpInv', (\E i \in SlotIds : Respond(i)) \/ Trim
  PROVE  BudgetInv'
<1>1. slots \in Seq(Slot)
  BY DEF BudgetInv, HttpInv, HttpTypes
<1>2. ASSUME NEW i \in SlotIds, Respond(i) PROVE BudgetInv'
  <2>1. slots' = [slots EXCEPT ![i].wire = 0] /\ UNCHANGED <<buffered, requests, closed, stack>>
    BY <1>2 DEF Respond
  <2>2. /\ Len(slots') = Len(slots)
        /\ \A j \in 1..Len(slots) : slots[j] \in Slot /\ slots'[j] =
             IF j = i THEN [slots[j] EXCEPT !.wire = 0] ELSE slots[j]
    BY <1>1, <2>1
  <2>3. \A j \in 1..Len(slots) : /\ slots'[j].reservation = slots[j].reservation
                                 /\ InUse(slots'[j]) <=> InUse(slots[j])
    BY <2>2 DEF Slot, InUse
  <2> QED BY <2>1, <2>2, <2>3, PoolBudget DEF BudgetInv
<1>3. CASE Trim
  <2>1. /\ slots' = Trimmed(slots, Top.slot, Top.node)
        /\ stack # <<>> /\ UNCHANGED <<buffered, requests, closed>>
    BY <1>3 DEF Trim, Running
  <2>2. /\ Len(slots') = Len(slots)
        /\ \A j \in 1..Len(slots) : /\ slots[j] \in Slot
                                    /\ \/ slots'[j] = slots[j]
                                       \/ slots'[j] = [slots[j] EXCEPT !.node = 0, !.wire = 0]
    <3> DEFINE i == Top.slot
               r == [slots[i] EXCEPT !.node = 0, !.wire = 0]
    <3>1. slots' = slots \/ slots' = [slots EXCEPT ![i] = r]
      BY <2>1 DEF Trimmed
    <3>2. i \in 1..Len(slots) => r = [slots[i] EXCEPT !.node = 0, !.wire = 0]
      OBVIOUS
    <3> HIDE DEF i, r
    <3>3. /\ Len(slots') = Len(slots)
          /\ \A j \in 1..Len(slots) : slots'[j] = slots[j] \/ (j = i /\ slots'[j] = r)
      BY <1>1, <3>1
    <3>4. ASSUME NEW j \in 1..Len(slots)
          PROVE  /\ slots[j] \in Slot
                 /\ \/ slots'[j] = slots[j]
                    \/ slots'[j] = [slots[j] EXCEPT !.node = 0, !.wire = 0]
      <4>1. CASE slots'[j] = slots[j]
        BY <1>1, <4>1
      <4>2. CASE j = i /\ slots'[j] = r
        BY <1>1, <3>2, <4>2
      <4> QED BY <3>3, <4>1, <4>2
    <3> QED BY <3>3, <3>4
  <2>3. ASSUME NEW j \in 1..Len(slots)
        PROVE  /\ slots'[j].reservation = slots[j].reservation
               /\ InUse(slots'[j]) <=> InUse(slots[j])
    <3>1. slots[j] \in Slot
      BY <2>2
    <3>2. \/ slots'[j] = slots[j]
          \/ slots'[j] = [slots[j] EXCEPT !.node = 0, !.wire = 0]
      BY <2>2
    <3> QED BY <3>1, <3>2 DEF Slot, InUse
  <2> QED BY <2>1, <2>2, <2>3, PoolBudget DEF BudgetInv
<1> QED BY <1>2, <1>3

\* Requests that leave.
LEMMA LeavingBudget ==
  ASSUME BudgetInv, HttpInv',
         (\E id \in Ids : CancelWaiting(id)) \/ Expire \/ (\E how \in {"answered", "failed"} : Completed(how))
  PROVE  BudgetInv'
<1>1. ASSUME NEW id \in Ids, CancelWaiting(id) PROVE BudgetInv'
  BY <1>1, SettledBudget DEF CancelWaiting, Callable
<1>2. CASE Expire
  <2> DEFINE id == Min(Top.ids)
  <2>1. stack # <<>> /\ ~closed /\ closed' = closed
    BY <1>2 DEF Expire, Running, BudgetInv
  <2>2. CASE id \notin Live
    BY <1>2, <2>1, <2>2, BudgetStays DEF Expire
  <2>3. CASE id \in Live
    <3>1. /\ requests' = Without(id) /\ buffered' = buffered - requests[id].body
          /\ IF SlotsOf(id) = {} THEN slots' = slots ELSE slots' = Quarantined(slots, Min(SlotsOf(id)))
      BY <1>2, <2>3 DEF Expire, Settle
    <3> HIDE DEF id
    <3>2. \/ slots' = slots
          \/ \E i \in 1..Len(slots) : InUse(slots[i]) /\ slots' = Quarantined(slots, i)
      BY <3>1, SlotOfRequest
    <3> QED BY <2>1, <2>3, <3>1, <3>2, SettledBudget
  <2> QED BY <2>2, <2>3
<1>3. ASSUME NEW how \in {"answered", "failed"}, Completed(how) PROVE BudgetInv'
  <2> DEFINE i == Message.slot
             id == slots[i].request
  <2>1. /\ HttpInv /\ Delivering("done") /\ Reaches(Message) /\ slots' = Quarantined(slots, i)
        /\ requests' = Without(id) /\ buffered' = buffered - requests[id].body /\ closed' = closed
    BY <1>3 DEF Completed, Settle, BudgetInv
  <2>2. id \in Live /\ InUse(slots[i]) /\ i \in 1..Len(slots)
    BY <2>1, ReachedRequest, NextMessage
  <2>3. ~closed
    BY <2>2 DEF BudgetInv
  <2> HIDE DEF i, id
  <2> QED BY <2>1, <2>2, <2>3, SettledBudget
<1> QED BY <1>1, <1>2, <1>3

\* A redirect may drop the body.
LEMMA RedirectedBudget ==
  ASSUME BudgetInv, HttpInv', Redirected
  PROVE  BudgetInv'
<1> DEFINE i == Message.slot
           id == slots[i].request
<1>1. /\ Charged(requests) /\ slots \in Seq(Slot) /\ Live = DOMAIN requests /\ PoolIsSound(slots)
      /\ buffered \in Nat /\ buffered <= MaxBuffered /\ MaxBuffered \in Nat
  BY RequestsAreCharged
<1>2. HttpInv /\ Delivering("done") /\ Reaches(Message)
  BY DEF BudgetInv, Redirected
<1>3. id \in Live /\ InUse(slots[i]) /\ i \in 1..Len(slots)
  <2>1. id \in Live /\ InUse(slots[i])
    BY <1>2, ReachedRequest
  <2>2. i \in 1..Len(slots)
    BY <1>2, NextMessage
  <2> QED BY <2>1, <2>2
<1>4. PICK dropped \in {0, requests[id].body} :
         /\ buffered' = buffered - dropped
         /\ requests' = [requests EXCEPT ![id].redirects = @ + 1, ![id].body = @ - dropped]
  BY Zenon DEF Redirected
<1>5. slots' = Quarantined(slots, i) /\ closed' = closed /\ ~closed
  BY <1>3 DEF Redirected, BudgetInv
<1> HIDE DEF i, id
<1>6. /\ DOMAIN requests' = Live /\ requests'[id].body = requests[id].body - dropped
      /\ \A x \in Live : x # id => requests'[x] = requests[x]
  <2>1. requests \in [Live -> Request] /\ requests[id] \in Request
    BY <1>3 DEF BudgetInv, HttpInv, HttpTypes
  <2> QED BY <1>3, <1>4, <2>1 DEF Request, Live
<1>7. requests[id].body \in Nat /\ dropped \in 0..requests[id].body
  BY <1>1, <1>3 DEF Charged
<1>8. Charged(requests')
  <2>1. requests'[id].body \in Nat
    BY <1>6, <1>7
  <2>2. \A x \in Live : requests'[x].body \in Nat
    BY <1>1, <1>6, <2>1 DEF Charged
  <2> QED BY <1>1, <1>6, <2>2 DEF Charged
<1>9. Bodies(requests') + requests[id].body = Bodies(requests) + requests'[id].body
  BY <1>1, <1>3, <1>6, <1>8, BodyChanges
<1>10. Bodies(requests') \in Nat /\ Bodies(requests) \in Nat /\ Reserved(slots) \in Nat
  BY <1>1, <1>8, BodiesAreNat, ReservedIsNat
<1>11. Balanced(buffered, requests, Quarantined(slots, i))
  BY <1>1, <1>3, <1>5, QuarantineReserves DEF BudgetInv
<1>12. Reserved(slots') \in Nat
  BY ReservedIsNat DEF HttpInv, HttpTypes
<1>13. Balanced(buffered', requests', slots') /\ buffered' \in 0..MaxBuffered
  <2>1. buffered = Bodies(requests) + Reserved(slots')
    BY <1>5, <1>11 DEF Balanced
  <2>2. dropped \in Nat /\ dropped <= requests[id].body /\ requests'[id].body = requests[id].body - dropped
    BY <1>6, <1>7
  <2>3. Bodies(requests') = Bodies(requests) - dropped
    BY <1>7, <1>9, <1>10, <2>2
  <2>4. buffered' = Bodies(requests') + Reserved(slots')
    BY <1>4, <1>10, <1>12, <2>1, <2>2, <2>3
  <2>5. buffered' \in 0..MaxBuffered
    <3>1. buffered' \in Nat
      BY <1>10, <1>12, <2>4
    <3>2. buffered' <= buffered
      BY <1>1, <1>4, <2>2
    <3> QED BY <1>1, <3>1, <3>2
  <2> QED BY <1>5, <1>11, <2>4, <2>5 DEF Balanced
<1> QED BY <1>5, <1>13 DEF BudgetInv

\* _drained(): the reservation ends with the lease, and the body with a cancelled request.
LEMMA DrainedBudget ==
  ASSUME BudgetInv, HttpInv', Drained
  PROVE  BudgetInv'
<1> DEFINE i == Message.slot
           id == slots[i].request
           r == [slots[i] EXCEPT !.state = "idle", !.request = 0, !.reservation = 0]
           ended == [slots EXCEPT ![i].state = "idle", ![i].request = 0, ![i].reservation = 0]
           current == slots[i].sequence = Message.sequence /\ slots[i].state = "draining"
           cancelled == id \in Live /\ requests[id].cancelled
           body == IF cancelled THEN requests[id].body ELSE 0
<1>1. /\ Charged(requests) /\ slots \in Seq(Slot) /\ Live = DOMAIN requests /\ PoolIsSound(slots)
      /\ buffered \in Nat /\ buffered <= MaxBuffered /\ MaxBuffered \in Nat
  BY RequestsAreCharged
<1>2. /\ Delivering("drained") /\ closed' = closed
      /\ IF ~current THEN UNCHANGED <<requests, slots, stack, buffered>>
         ELSE /\ buffered' = buffered - (slots[i].reservation + body)
              /\ IF cancelled THEN slots' = ended /\ requests' = Without(id)
                 ELSE slots' = Trimmed(ended, i, slots[i].node) /\ requests' = requests
  BY DEF Drained, Settle
<1>3. HttpInv /\ i \in 1..Len(slots) /\ stack = <<>>
  BY <1>2, NextMessage DEF BudgetInv
<1>4. CASE ~current
  <2>1. UNCHANGED <<requests, slots, stack, buffered, closed>>
    BY <1>2, <1>4
  <2> QED BY <1>3, <2>1, BudgetStays
<1>5. CASE current
  <2>1. InUse(slots[i]) /\ slots[i] \in Slot
    BY <1>1, <1>3, <1>5 DEF InUse
  <2>2. ~closed /\ Balanced(buffered, requests, slots)
    BY <1>3, <2>1 DEF BudgetInv
  <2>3. r \in Slot /\ r.state = "idle" /\ r.reservation = 0
    BY <2>1 DEF Slot
  <2>4. ended = [slots EXCEPT ![i] = r]
    OBVIOUS
  <2>5. /\ buffered' = buffered - (slots[i].reservation + body)
        /\ IF cancelled THEN slots' = ended /\ requests' = Without(id)
           ELSE slots' = Trimmed(ended, i, slots[i].node) /\ requests' = requests
    BY <1>2, <1>5
  <2> HIDE DEF r, ended, i
  <2>6. /\ ended \in Seq(Slot) /\ Len(ended) = Len(slots) /\ ended[i] = r
        /\ \A j \in 1..Len(slots) : j # i => ended[j] = slots[j]
    BY <1>1, <1>3, <2>3, <2>4, SlotUpdate
  <2>7. /\ Len(slots') = Len(slots) /\ slots' \in Seq(Slot)
        /\ \A j \in 1..Len(slots) : slots'[j].reservation = ended[j].reservation
        /\ \A j \in 1..Len(slots) : slots'[j].state = ended[j].state
    <3>1. slots' \in Seq(Slot)
      BY DEF HttpInv, HttpTypes
    <3>2. CASE slots' = ended
      BY <2>6, <3>1, <3>2
    <3>3. CASE slots' # ended
      <4> DEFINE w == [ended[i] EXCEPT !.node = 0, !.wire = 0]
      <4>1. slots' = [ended EXCEPT ![i] = w]
        BY <2>5, <3>3 DEF Trimmed
      <4>2. w \in Slot /\ w.reservation = ended[i].reservation /\ w.state = ended[i].state
        BY <2>3, <2>6 DEF Slot
      <4> HIDE DEF w
      <4>3. /\ Len(slots') = Len(slots) /\ slots'[i] = w
            /\ \A j \in 1..Len(slots) : j # i => slots'[j] = ended[j]
        BY <1>3, <2>6, <4>1, <4>2, SlotUpdate
      <4> QED BY <3>1, <4>2, <4>3
    <3> QED BY <3>2, <3>3
  <2>8. Reserved(slots') = Reserved(ended)
    BY <2>6, <2>7, ReservedSame
  <2>9. Reserved(ended) + slots[i].reservation = Reserved(slots) + 0 /\ slots[i].reservation \in Nat
    BY <1>1, <1>3, <2>3, <2>6, ReservedChanges
  <2>10. Reserved(ended) \in Nat /\ Reserved(slots) \in Nat /\ Bodies(requests) \in Nat
    BY <1>1, <2>6, BodiesAreNat, ReservedIsNat
  <2>11. Bodies(requests) = body + Bodies(requests') /\ Bodies(requests') \in Nat /\ body \in Nat
    <3>1. CASE cancelled
      <4>1. GoneFrom(requests, requests', id) /\ id \in Live
        BY <2>5, <3>1, WithoutIsGone
      <4> QED BY <1>1, <3>1, <4>1, BodyGoes
    <3>2. CASE ~cancelled
      BY <2>5, <2>10, <3>2
    <3> QED BY <3>1, <3>2
  <2> HIDE DEF body
  <2>12. buffered' = Bodies(requests') + Reserved(slots') /\ buffered' \in 0..buffered
    <3>1. buffered = Bodies(requests) + Reserved(slots)
      BY <2>2 DEF Balanced
    <3>2. /\ buffered = (body + Bodies(requests')) + (Reserved(slots') + slots[i].reservation)
          /\ Reserved(slots') \in Nat
      BY <2>8, <2>9, <2>10, <2>11, <3>1
    <3>3. buffered' = buffered - (slots[i].reservation + body)
      BY <2>5
    <3>4. /\ body \in Nat /\ Bodies(requests') \in Nat /\ slots[i].reservation \in Nat
          /\ buffered \in Nat
      BY <1>1, <2>9, <2>11
    <3> QED BY <3>2, <3>3, <3>4
  <2>13. \A j \in 1..Len(slots') : InUse(slots'[j]) \/ slots'[j].reservation = 0
    <3> SUFFICES ASSUME NEW j \in 1..Len(slots), ~InUse(slots'[j]) PROVE slots'[j].reservation = 0
      BY <2>7
    <3>1. CASE j = i
      BY <2>3, <2>6, <2>7, <3>1
    <3>2. CASE j # i
      BY <2>2, <2>6, <2>7, <3>2 DEF Balanced, InUse
    <3> QED BY <3>1, <3>2
  <2>14. buffered' \in 0..MaxBuffered
    BY <1>1, <2>12
  <2> QED BY <1>2, <2>2, <2>12, <2>13, <2>14 DEF BudgetInv, Balanced
<1> QED BY <1>4, <1>5

\* lease(): the slot reserves what the answer may take; one that fails at once keeps that until
\* it has drained.
LEMMA LeaseBudget ==
  ASSUME BudgetInv, HttpInv', Lease
  PROVE  BudgetInv'
<1> DEFINE id == Head(waiting)
           i == FirstIdle(slots)
           limit == requests[id].limit
           t == LeasedFor(slots, id, limit)
<1>1. /\ Charged(requests) /\ slots \in Seq(Slot) /\ Live = DOMAIN requests /\ PoolIsSound(slots)
      /\ buffered \in Nat /\ buffered <= MaxBuffered /\ MaxBuffered \in Nat
  BY RequestsAreCharged
<1>2. /\ id \in Live /\ ~(limit > Room) /\ stack # <<>> /\ closed' = closed
      /\ \/ slots' = t /\ buffered' = buffered + limit /\ requests' = requests
         \/ /\ slots' = Quarantined(t, i) /\ buffered' = buffered + limit - requests[id].body
            /\ requests' = Without(id)
  BY DEF Lease, LeasedFor, Settle, Blocked, Running
<1>3. id \in Nat /\ limit \in Nat
  <2>1. requests \in [Live -> Request] /\ RequestsAreHeld(requests, waiting, slots, nextId)
    BY DEF BudgetInv, HttpInv, HttpTypes
  <2>2. requests[id] \in Request
    BY <1>2, <2>1
  <2> QED BY <1>2, <2>1, <2>2 DEF Request, RequestsAreHeld, Live, Ids
<1>4. ~closed /\ Balanced(buffered, requests, slots)
  BY <1>2 DEF BudgetInv
<1> HIDE DEF id, limit, i, t
<1>5. /\ t \in Seq(Slot) /\ i \in 1..Len(t) /\ Len(t) = (IF i > Len(slots) THEN i ELSE Len(slots))
      /\ i \in 1..Len(slots) + 1 /\ (i <= Len(slots) => slots[i].state = "idle")
      /\ \A j \in 1..Len(slots) : j # i => t[j] = slots[j]
      /\ t[i].state = "leased"
  <2>1. slots \in Seq(Slot) /\ PoolIsSound(slots) /\ id \in Nat /\ limit \in Nat
    BY <1>1, <1>3
  <2> QED BY <2>1, LeasedSlots, SMTT(20) DEF i, t
<1>6. t[i].reservation = limit
  <2> DEFINE pool == IF i > Len(slots) THEN Append(slots, NewSlot) ELSE slots
             lease == pool[i].sequence + 1
             r == [node |-> IF pool[i].node = 0 THEN lease ELSE pool[i].node, wire |-> lease,
                   state |-> "leased", sequence |-> lease, request |-> id, reservation |-> limit]
  <2>1. t = [pool EXCEPT ![i] = r] /\ r.reservation = limit
    BY DEF t, LeasedFor, i
  <2>2. i \in DOMAIN pool
    BY <1>1, <1>5
  <2> HIDE DEF pool, r
  <2> QED BY <2>1, <2>2
<1>7. Reserved(t) = Reserved(slots) + limit /\ Reserved(slots) \in Nat
  <2>1. Reserved(slots) \in Nat /\ Reserved(t) \in Nat
    BY <1>1, <1>5, ReservedIsNat
  <2>2. CASE i <= Len(slots)
    <3>1. i \in 1..Len(slots) /\ Len(t) = Len(slots) /\ slots[i].reservation = 0
      BY <1>1, <1>4, <1>5, <2>2 DEF Balanced, InUse
    <3>2. Reserved(t) + 0 = Reserved(slots) + limit
      BY <1>1, <1>5, <1>6, <3>1, ReservedChanges
    <3> QED BY <2>1, <3>2
  <2>3. CASE ~(i <= Len(slots))
    <3>1. i = Len(slots) + 1 /\ Len(t) = Len(slots) + 1 /\ \A j \in 1..Len(slots) : t[j] = slots[j]
      BY <1>1, <1>5, <2>3
    <3>2. Reserved(t) = t[Len(t)].reservation + Reserved(slots)
      BY <1>1, <1>5, <3>1, ReservedGrows
    <3> QED BY <1>3, <1>6, <2>1, <3>1, <3>2
  <2> QED BY <2>2, <2>3
<1>8. \A j \in 1..Len(t) : InUse(t[j]) \/ t[j].reservation = 0
  <2> SUFFICES ASSUME NEW j \in 1..Len(t), ~InUse(t[j]) PROVE t[j].reservation = 0
    OBVIOUS
  <2>1. j # i
    BY <1>5 DEF InUse
  <2>2. j \in 1..Len(slots) /\ t[j] = slots[j]
    BY <1>1, <1>5, <2>1
  <2> QED BY <1>4, <2>2 DEF Balanced
<1>9. Balanced(buffered + limit, requests, t) /\ buffered + limit \in 0..MaxBuffered
  <2>1. buffered = Bodies(requests) + Reserved(slots) /\ Bodies(requests) \in Nat
    BY <1>1, <1>4, BodiesAreNat DEF Balanced
  <2>2. buffered + limit = Bodies(requests) + Reserved(t)
    BY <1>3, <1>7, <2>1
  <2>3. buffered + limit \in 0..MaxBuffered
    BY <1>1, <1>2, <1>3 DEF Room
  <2> QED BY <1>8, <2>2, <2>3 DEF Balanced
<1>10. CASE slots' = t /\ buffered' = buffered + limit /\ requests' = requests
  BY <1>2, <1>4, <1>9, <1>10 DEF BudgetInv
<1>11. CASE /\ slots' = Quarantined(t, i) /\ buffered' = buffered + limit - requests[id].body
            /\ requests' = Without(id)
  <2>1. PoolIsSound(t)
    <3>1. HttpInv /\ ~(i > MaxActive) /\ \A j \in 1..Len(slots) : InUse(slots[j]) => slots[j].request # id
      BY DEF Lease, Blocked, SlotsOf, InUse, id, i, BudgetInv
    <3> QED BY <1>1, <1>3, <3>1, LeaseKeepsPool DEF HttpInv, HttpTypes, t
  <2>2. InUse(t[i])
    BY <1>5 DEF InUse
  <2>3. Balanced(buffered + limit, requests, Quarantined(t, i))
    BY <1>5, <1>9, <2>1, <2>2, QuarantineReserves
  <2>4. GoneFrom(requests, requests', id)
    BY <1>2, <1>11, WithoutIsGone
  <2>5. slots' \in Seq(Slot)
    BY DEF HttpInv, HttpTypes
  <2> DEFINE b == buffered + limit
  <2>6. b \in Nat /\ Balanced(b, requests, slots') /\ buffered' = b - requests[id].body
    <3>1. b \in Nat
      BY <1>1, <1>9
    <3>2. buffered' = b - requests[id].body
      <4>1. requests[id].body \in Nat
        BY <1>1, <1>2 DEF Charged
      <4>2. buffered' = buffered + limit - requests[id].body
        BY <1>11
      <4> QED BY <1>1, <1>3, <4>1, <4>2
    <3>3. Balanced(b, requests, slots')
      BY <1>11, <2>3
    <3> QED BY <3>1, <3>2, <3>3
  <2> HIDE DEF b
  <2>7. Balanced(b - requests[id].body, requests', slots') /\ b - requests[id].body \in 0..b
    BY <1>1, <1>2, <2>4, <2>5, <2>6, SettlementBalances
  <2>8. buffered' \in 0..MaxBuffered
    BY <1>1, <1>9, <2>6, <2>7 DEF b
  <2> QED BY <1>2, <1>4, <2>6, <2>7, <2>8 DEF BudgetInv
<1> QED BY <1>2, <1>10, <1>11

\* shutdown() empties the books with everything else.
LEMMA ShutdownBudget ==
  ASSUME BudgetInv, HttpInv', Shutdown
  PROVE  BudgetInv'
<1> DEFINE t == [j \in 1..Len(slots) |->
                   [slots[j] EXCEPT !.node = 0, !.wire = 0, !.state = "idle"]]
<1>1. slots \in Seq(Slot) /\ MaxBuffered \in Nat
  BY RequestsAreCharged
<1>2. closed' = TRUE /\ stack' = <<>> /\ buffered' = 0 /\ slots' = t
  BY DEF Shutdown
<1>3. \A j \in 1..Len(slots) : t[j].state = "idle"
  <2>1. \A j \in 1..Len(slots) : slots[j] \in Slot
    BY <1>1
  <2> QED BY <2>1 DEF Slot
<1>4. Len(t) = Len(slots)
  <2>1. Len(slots) \in Nat /\ DOMAIN t = 1..Len(slots)
    BY <1>1
  <2>2. t \in Seq(Slot)
    BY <1>2 DEF HttpInv, HttpTypes
  <2> HIDE DEF t
  <2> QED BY <2>1, <2>2
<1> HIDE DEF t
<1>5. \A j \in 1..Len(slots') : ~InUse(slots'[j])
  BY <1>2, <1>3, <1>4 DEF InUse
<1> QED BY <1>1, <1>2, <1>5 DEF BudgetInv

\* An empty service owes nothing.
LEMMA InitBudget ==
  ASSUME Init
  PROVE  BudgetInv
<1>1. HttpInv
  BY InitHttp
<1>2. DOMAIN requests = {} /\ 1..Len(slots) = {}
  BY DEF Init
<1>3. Bodies(requests) = 0 /\ Reserved(slots) = 0
  BY <1>2, SumEmpty DEF Bodies, Reserved
<1>4. buffered = 0 /\ ~closed /\ 0 \in 0..MaxBuffered
  BY DEF Init
<1> QED BY <1>1, <1>2, <1>3, <1>4 DEF BudgetInv, Balanced

\* Every step keeps the books.
LEMMA NextBudget ==
  ASSUME BudgetInv, [Next]_vars
  PROVE  BudgetInv'
<1>1. HttpInv'
  BY NextHttp DEF BudgetInv
<1>2. CASE UNCHANGED vars
  BY <1>1, <1>2, BudgetStays DEF vars, BudgetInv
<1>3. CASE \E spec \in Specs : Submit(spec)
  BY <1>1, <1>3, SubmitBudget
<1>4. CASE \E id \in Ids : CancelActive(id) \/ CancelWaiting(id) \/ Deadline(id)
  BY <1>1, <1>4, FlagBudget, LeavingBudget
<1>5. CASE ProcessFrame \/ EnterTree
  BY <1>1, <1>5, BudgetStays DEF ProcessFrame, EnterTree
<1>6. CASE Shutdown
  BY <1>1, <1>6, ShutdownBudget
<1>7. CASE ExpireDone \/ StartStop \/ StartSkip \/ Return
  <2>1. UNCHANGED <<buffered, requests, slots, closed>> /\ stack # <<>>
    BY <1>7 DEF ExpireDone, StartStop, StartSkip, Return, Running
  <2> QED BY <1>1, <2>1, BudgetStays DEF BudgetInv
<1>8. CASE Expire \/ \E how \in {"answered", "failed"} : Completed(how)
  BY <1>1, <1>8, LeavingBudget
<1>9. CASE Lease
  BY <1>1, <1>9, LeaseBudget
<1>10. CASE Trim \/ \E i \in SlotIds : Respond(i)
  BY <1>1, <1>10, NodeBudget
<1>11. CASE DropCompletion
  BY <1>1, <1>11, BudgetStays DEF DropCompletion, BudgetInv
<1>12. CASE Redirected
  BY <1>1, <1>12, RedirectedBudget
<1>13. CASE Drained
  BY <1>1, <1>13, DrainedBudget
<1> QED BY <1>2, <1>3, <1>4, <1>5, <1>6, <1>7, <1>8, <1>9, <1>10, <1>11, <1>12, <1>13
        DEF Next, Unwind, Deliver

\* What is buffered is the bodies of the live requests and the reservations of the leases,
\* whoever submits or cancels in the middle of a settlement; the subtractions never wrap.
THEOREM BudgetIsAlwaysExact == SafetySpec => []BudgetIsExact
<1>1. Init => BudgetInv
  BY InitBudget
<1>2. BudgetInv /\ [Next]_vars => BudgetInv'
  BY NextBudget
<1>3. BudgetInv => BudgetIsExact
  <2> SUFFICES ASSUME BudgetInv PROVE BudgetIsExact
    OBVIOUS
  <2>1. TypeOK
    <3>1. HttpTypes /\ RequestsAreHeld(requests, waiting, slots, nextId) /\ buffered \in 0..MaxBuffered
      BY DEF BudgetInv, HttpInv
    <3>2. Live \subseteq Ids /\ \A id \in Live : requests[id] \in Request
      BY <3>1 DEF HttpTypes, RequestsAreHeld, Live
    <3> QED BY <3>1, <3>2 DEF TypeOK, HttpTypes, Request
  <2>2. /\ SumFunction([id \in Live |-> requests[id].body]) = Bodies(requests)
        /\ SumFunction([i \in 1..Len(slots) |-> slots[i].reservation]) = Reserved(slots)
    BY DEF SumFunction, Bodies, Reserved, Live
  <2> QED BY <2>1, <2>2 DEF BudgetIsExact, BudgetInv, Balanced
<1> QED BY <1>1, <1>2, <1>3, PTL DEF SafetySpec
=============================================================================
