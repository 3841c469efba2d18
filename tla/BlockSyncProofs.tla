--------------------------- MODULE BlockSyncProofs --------------------------
(***************************************************************************)
(* The invariants of BlockSync for any chain, any ranges and payloads that *)
(* consensus and peers ask for, any number of peers and any limit on the   *)
(* payload requests in flight.                                             *)
(*                                                                         *)
(* The handlers of a node's own requests are shown to preserve SelfInv one *)
(* after the other, as an event runs through several of them.              *)
(***************************************************************************)
EXTENDS BlockSync, Integers, FiniteSetTheorems, TLAPS

\* The chain is finite, and ranges have a last block and a length.
Requestable ==
  /\ IsFiniteSet(Blocks)
  /\ \A r \in PeerRanges : r.last \in Nat /\ r.num \in Nat
  /\ BLOCKSYNC_MAX_PAYLOAD_REQUESTS \in Nat

Bodies == {BodyId[b] : b \in Blocks}

\* What the ledger may be asked for.
Fetchable ==
  {Headers(r) : r \in SelfRanges \cup [last : Int, num : Int]}
    \cup {Payload(p) : p \in Bodies \cup PeerPayloads}

\* Items are told apart by their kind and by what they ask for.
LEMMA ItemFacts ==
  /\ \A r, q : Headers(r) = Headers(q) => r = q
  /\ \A p, q : Payload(p) = Payload(q) => p = q
  /\ \A r, p : Headers(r) # Payload(p)
  /\ \A r : Headers(r).kind = "Headers" /\ Headers(r).range = r
  /\ \A p : Payload(p).kind = "Payload" /\ Payload(p).id = p
BY DEF Headers, Payload

LEMMA EmptyFacts == DOMAIN <<>> = {} /\ \A I : <<>> \in Seq(I)
OBVIOUS

LEMMA BodiesFinite == ASSUME Requestable PROVE IsFiniteSet(Bodies)
<1> DEFINE f == [b \in Blocks |-> BodyId[b]]
<1>1. f \in Surjection(Blocks, Bodies)
  BY DEF Surjection, Bodies
<1> QED BY <1>1, FS_Surjection DEF Requestable

LEMMA InRange ==
  ASSUME NEW f, NEW x
  PROVE  x \in Range(f) <=> \E i \in DOMAIN f : x = f[i]
BY DEF Range

LEMMA RangeFacts ==
  ASSUME NEW I, NEW s \in Seq(I)
  PROVE  /\ \A e \in I : Append(s, e) \in Seq(I) /\ Range(Append(s, e)) = Range(s) \cup {e}
         /\ \A t \in Seq(I) : s \o t \in Seq(I) /\ Range(s \o t) = Range(s) \cup Range(t)
         /\ s # <<>> => /\ Head(s) \in I /\ Tail(s) \in Seq(I)
                        /\ Range(s) = {Head(s)} \cup Range(Tail(s))
<1>1. ASSUME NEW e \in I
      PROVE  Append(s, e) \in Seq(I) /\ Range(Append(s, e)) = Range(s) \cup {e}
  <2>1. /\ Append(s, e) \in Seq(I) /\ Len(Append(s, e)) = Len(s) + 1 /\ Len(s) \in Nat
        /\ DOMAIN s = 1..Len(s) /\ DOMAIN Append(s, e) = 1..(Len(s) + 1)
        /\ Append(s, e)[Len(s) + 1] = e /\ \A i \in 1..Len(s) : Append(s, e)[i] = s[i]
    OBVIOUS
  <2>2. 1..(Len(s) + 1) = 1..Len(s) \cup {Len(s) + 1}
    BY <2>1
  <2>3. \A x : x \in Range(Append(s, e)) <=> x \in Range(s) \/ x = e
    <3>1. ASSUME NEW x, x \in Range(Append(s, e)) PROVE x \in Range(s) \/ x = e
      <4>1. PICK i \in DOMAIN Append(s, e) : x = Append(s, e)[i]
        BY <3>1 DEF Range
      <4> QED BY Zenon, <2>1, <2>2, <4>1, InRange
    <3>2. ASSUME NEW x \in Range(s) PROVE x \in Range(Append(s, e))
      <4>1. PICK i \in DOMAIN s : x = s[i]
        BY DEF Range
      <4> QED BY Zenon, <2>1, <2>2, <4>1, InRange
    <3>3. e \in Range(Append(s, e))
      BY Zenon, <2>1, <2>2, InRange
    <3> QED BY Zenon, <3>1, <3>2, <3>3
  <2> QED BY Zenon, <2>1, <2>3
<1>2. ASSUME NEW t \in Seq(I)
      PROVE  s \o t \in Seq(I) /\ Range(s \o t) = Range(s) \cup Range(t)
  <2>1. /\ s \o t \in Seq(I) /\ Len(s) \in Nat /\ Len(t) \in Nat
        /\ DOMAIN s = 1..Len(s) /\ DOMAIN t = 1..Len(t) /\ DOMAIN (s \o t) = 1..(Len(s) + Len(t))
        /\ \A i \in 1..(Len(s) + Len(t)) : (s \o t)[i] = IF i <= Len(s) THEN s[i] ELSE t[i - Len(s)]
    OBVIOUS
  <2>2. ASSUME NEW i \in DOMAIN s PROVE i \in DOMAIN (s \o t) /\ (s \o t)[i] = s[i]
    BY <2>1
  <2>3. ASSUME NEW i \in DOMAIN t PROVE \E j \in DOMAIN (s \o t) : (s \o t)[j] = t[i]
    <3>1. Len(s) + i \in 1..(Len(s) + Len(t)) /\ ~ (Len(s) + i <= Len(s)) /\ (Len(s) + i) - Len(s) = i
      BY <2>1
    <3> QED BY <2>1, <3>1
  <2>4. ASSUME NEW j \in DOMAIN (s \o t)
        PROVE  (\E i \in DOMAIN s : (s \o t)[j] = s[i]) \/ (\E i \in DOMAIN t : (s \o t)[j] = t[i])
    BY <2>1
  <2> HIDE DEF Range
  <2>5. \A x : x \in Range(s \o t) <=> x \in Range(s) \/ x \in Range(t)
    <3>1. ASSUME NEW x, x \in Range(s \o t) PROVE x \in Range(s) \/ x \in Range(t)
      <4>1. PICK j \in DOMAIN (s \o t) : x = (s \o t)[j]
        BY <3>1 DEF Range
      <4> QED BY Zenon, <2>4, <4>1, InRange
    <3>2. ASSUME NEW x \in Range(s) PROVE x \in Range(s \o t)
      <4>1. PICK i \in DOMAIN s : x = s[i]
        BY DEF Range
      <4> QED BY Zenon, <2>2, <4>1, InRange
    <3>3. ASSUME NEW x \in Range(t) PROVE x \in Range(s \o t)
      <4>1. PICK i \in DOMAIN t : x = t[i]
        BY DEF Range
      <4> QED BY Zenon, <2>3, <4>1, InRange
    <3> QED BY Zenon, <3>1, <3>2, <3>3
  <2> QED BY <2>1, <2>5
<1>3. ASSUME s # <<>>
      PROVE  /\ Head(s) \in I /\ Tail(s) \in Seq(I)
             /\ Range(s) = {Head(s)} \cup Range(Tail(s))
  <2>1. /\ Head(s) \in I /\ Head(s) = s[1] /\ Tail(s) \in Seq(I) /\ Len(s) \in Nat /\ Len(s) >= 1
        /\ DOMAIN s = 1..Len(s) /\ DOMAIN Tail(s) = 1..(Len(s) - 1)
        /\ \A i \in 1..(Len(s) - 1) : Tail(s)[i] = s[i + 1]
    BY <1>3
  <2>2. ASSUME NEW i \in DOMAIN Tail(s) PROVE \E j \in DOMAIN s : Tail(s)[i] = s[j]
    BY <2>1
  <2>3. ASSUME NEW j \in DOMAIN s PROVE s[j] = Head(s) \/ \E i \in DOMAIN Tail(s) : Tail(s)[i] = s[j]
    <3>1. CASE j = 1
      BY <2>1, <3>1
    <3>2. CASE j # 1
      <4>1. j - 1 \in 1..(Len(s) - 1) /\ (j - 1) + 1 = j
        BY <2>1, <3>2
      <4> QED BY <2>1, <4>1
    <3> QED BY <3>1, <3>2
  <2>4. 1 \in DOMAIN s
    BY <2>1
  <2>5. \A x : x \in Range(s) <=> x = Head(s) \/ x \in Range(Tail(s))
    <3>1. ASSUME NEW x \in Range(s) PROVE x = Head(s) \/ x \in Range(Tail(s))
      <4>1. PICK j \in DOMAIN s : x = s[j]
        BY DEF Range
      <4> QED BY Zenon, <2>3, <4>1, InRange
    <3>2. ASSUME NEW x \in Range(Tail(s)) PROVE x \in Range(s)
      <4>1. PICK i \in DOMAIN Tail(s) : x = Tail(s)[i]
        BY DEF Range
      <4> QED BY Zenon, <2>2, <4>1, InRange
    <3>3. Head(s) \in Range(s)
      BY Zenon, <2>1, <2>4, InRange
    <3> QED BY Zenon, <3>1, <3>2, <3>3
  <2> QED BY <2>1, <2>5
<1> QED BY <1>1, <1>2, <1>3

LEMMA OrderedFacts ==
  ASSUME NEW I, NEW S \in SUBSET I, IsFiniteSet(S)
  PROVE  Ordered(S) \in Seq(I) /\ Range(Ordered(S)) = S
<1> DEFINE n == Cardinality(S)
           f == Ordered(S)
<1>1. n \in Nat /\ \E g : g \in Bijection(1..n, S)
  BY FS_CardinalityType DEF ExistsBijection
<1>2. \E g \in [1..n -> S] : IsInjective(g)
  BY <1>1 DEF Bijection, Injection, IsInjective
<1>3. f \in [1..n -> S] /\ IsInjective(f)
  BY Zenon, <1>2 DEF Ordered
<1>4. f \in Injection(1..n, S)
  BY <1>3 DEF Injection, IsInjective
<1>5. IsFiniteSet(1..n) /\ Cardinality(1..n) = n
  BY <1>1, FS_Interval
<1>6. f \in Surjection(1..n, S)
  BY <1>4, <1>5, FS_Injection
<1> HIDE DEF f, n
<1>7. f \in Seq(I)
  BY <1>1, <1>3
<1>8. Range(f) = S
  BY <1>3, <1>6 DEF Range, Surjection
<1> QED BY <1>7, <1>8 DEF f

\* What a handler works on is a record with these fields.
IsSelf(s) ==
  DOMAIN s = {"headers", "payloads", "in_flight", "completed", "fetches", "timers", "wanted"}

SelfTyped(s) ==
  /\ IsSelf(s)
  /\ DOMAIN s.headers \subseteq SelfRanges
  /\ \A r \in DOMAIN s.headers : s.headers[r] \in {"ledger", "peer"}
  /\ DOMAIN s.payloads \subseteq Bodies
  /\ \A p \in DOMAIN s.payloads : s.payloads[p] \in {"none", "ledger", "peer"}
  /\ DOMAIN s.completed \subseteq SelfRanges
  /\ \A r \in DOMAIN s.completed : s.completed[r] \subseteq BodiesOf(r)
  /\ s.fetches \in Seq(Fetchable) /\ s.timers \subseteq Items

Tracked(s) ==
  /\ DOMAIN s.headers \cap DOMAIN s.completed = {}
  /\ s.wanted = DOMAIN s.headers \cup DOMAIN s.completed

Requested(s) == \A r \in DOMAIN s.completed : BodiesOf(r) \ s.completed[r] \subseteq DOMAIN s.payloads

Going(s) == {p \in DOMAIN s.payloads : s.payloads[p] # "none"}

Counted(s) ==
  /\ s.in_flight \in Nat /\ s.in_flight <= BLOCKSYNC_MAX_PAYLOAD_REQUESTS
  /\ Cardinality(Going(s)) <= s.in_flight

\* Every request but those in X has somebody to answer it.
Driven(s, X) ==
  /\ \A r \in DOMAIN s.headers :
       /\ s.headers[r] = "ledger" => Headers(r) \in Range(s.fetches) \cup X
       /\ s.headers[r] = "peer" => Headers(r) \in s.timers
  /\ \A p \in DOMAIN s.payloads :
       /\ s.payloads[p] = "ledger" => Payload(p) \in Range(s.fetches) \cup X
       /\ s.payloads[p] = "peer" => Payload(p) \in s.timers

\* The states a handler goes through while the ledger owes answers to F and
\* the requests in X are being answered.
SelfInv(s, X, F) ==
  /\ SelfTyped(s) /\ Tracked(s) /\ Requested(s) /\ Counted(s) /\ Driven(s, X)
  /\ F \subseteq Range(s.fetches)

LEMMA GoingFinite ==
  ASSUME Requestable, NEW s, SelfTyped(s)
  PROVE  IsFiniteSet(Going(s)) /\ Cardinality(Going(s)) \in Nat
<1>1. Going(s) \in SUBSET Bodies
  BY DEF Going, SelfTyped
<1> QED BY <1>1, BodiesFinite, FS_Subset, FS_CardinalityType

\* handle_completed_ranges emits ranges that need nothing any more.
LEMMA EmitStep ==
  ASSUME NEW s, NEW X, NEW F, SelfInv(s, X, F)
  PROVE  SelfInv(handle_completed_ranges(s), X, F)
<1> DEFINE done == {r \in DOMAIN s.completed : s.completed[r] = BodiesOf(r)}
           x == handle_completed_ranges(s)
<1>1. IsSelf(s)
  BY DEF SelfInv, SelfTyped
<1>2. /\ IsSelf(x) /\ x.headers = s.headers /\ x.payloads = s.payloads /\ x.in_flight = s.in_flight
      /\ x.fetches = s.fetches /\ x.timers = s.timers
      /\ x.completed = Without(s.completed, done) /\ x.wanted = s.wanted \ done
  BY <1>1 DEF IsSelf, handle_completed_ranges, EmitRanges
<1> HIDE DEF x
<1>3. /\ DOMAIN x.completed = DOMAIN s.completed \ done
      /\ \A r \in DOMAIN s.completed \ done : x.completed[r] = s.completed[r]
  BY <1>2 DEF Without
<1>4. SelfTyped(x)
  BY ZenonT(30), <1>2, <1>3 DEF SelfInv, SelfTyped
<1>5. Tracked(x) /\ Requested(x)
  BY ZenonT(30), <1>2, <1>3 DEF SelfInv, Tracked, Requested
<1>6. Counted(x) /\ Driven(x, X) /\ F \subseteq Range(x.fetches)
  BY <1>2 DEF SelfInv, Counted, Going, Driven
<1> QED BY <1>4, <1>5, <1>6 DEF SelfInv, x

\* Payloads in P that have arrived are given to every range that needs them
\* and are not requested any more; n slots become free.
LEMMA FillStep ==
  ASSUME Requestable, NEW s, NEW X, NEW F, SelfInv(s, X, F), NEW P, NEW x, NEW n \in Nat,
         n <= s.in_flight, Cardinality(Going(s) \ P) <= s.in_flight - n,
         IsSelf(x), x.headers = s.headers, x.payloads = Without(s.payloads, P),
         x.in_flight = s.in_flight - n,
         x.completed = [r \in DOMAIN s.completed |-> s.completed[r] \cup (P \cap BodiesOf(r))],
         x.fetches = s.fetches, x.wanted = s.wanted, x.timers \subseteq s.timers,
         \A e \in s.timers \ x.timers : \E p \in P : e = Payload(p)
  PROVE  SelfInv(x, X, F)
<1>1. /\ DOMAIN x.payloads = DOMAIN s.payloads \ P
      /\ \A p \in DOMAIN s.payloads \ P : x.payloads[p] = s.payloads[p]
  BY DEF Without
<1>2. /\ DOMAIN x.completed = DOMAIN s.completed
      /\ \A r \in DOMAIN s.completed : x.completed[r] = s.completed[r] \cup (P \cap BodiesOf(r))
  OBVIOUS
<1>3. SelfTyped(x)
  BY <1>1, <1>2 DEF SelfInv, SelfTyped
<1>4. Tracked(x)
  BY <1>2 DEF SelfInv, Tracked
<1>5. Requested(x)
  BY <1>1, <1>2 DEF SelfInv, Requested
<1>6. Going(x) = Going(s) \ P
  BY <1>1 DEF Going
<1>7. Counted(x)
  <2>1. /\ s.in_flight \in Nat /\ s.in_flight <= BLOCKSYNC_MAX_PAYLOAD_REQUESTS
        /\ BLOCKSYNC_MAX_PAYLOAD_REQUESTS \in Nat
    BY DEF SelfInv, Counted, Requestable
  <2>2. x.in_flight \in Nat /\ x.in_flight <= BLOCKSYNC_MAX_PAYLOAD_REQUESTS
    BY <2>1
  <2> QED BY <1>6, <2>2 DEF Counted
<1>8. Driven(x, X)
  <2>1. ASSUME NEW r \in DOMAIN x.headers
        PROVE  /\ x.headers[r] = "ledger" => Headers(r) \in Range(x.fetches) \cup X
               /\ x.headers[r] = "peer" => Headers(r) \in x.timers
    BY ItemFacts DEF SelfInv, Driven
  <2>2. ASSUME NEW p \in DOMAIN x.payloads
        PROVE  /\ x.payloads[p] = "ledger" => Payload(p) \in Range(x.fetches) \cup X
               /\ x.payloads[p] = "peer" => Payload(p) \in x.timers
    BY <1>1, ItemFacts DEF SelfInv, Driven
  <2> QED BY <2>1, <2>2 DEF Driven
<1> QED BY <1>3, <1>4, <1>5, <1>7, <1>8 DEF SelfInv

\* Payloads from the cache: their slots stay taken until the answer comes.
LEMMA ServeStep ==
  ASSUME Requestable, NEW s, NEW X, NEW F, SelfInv(s, X, F), NEW P
  PROVE  SelfInv(serve_from_cache(s, P), X, F)
<1> DEFINE x == serve_from_cache(s, P)
<1>1. IsSelf(s) /\ SelfTyped(s) /\ Counted(s)
  BY DEF SelfInv, SelfTyped
<1>2. /\ IsSelf(x) /\ x.headers = s.headers /\ x.payloads = Without(s.payloads, P)
      /\ x.in_flight = s.in_flight /\ x.fetches = s.fetches /\ x.wanted = s.wanted /\ x.timers = s.timers
      /\ x.completed = [r \in DOMAIN s.completed |-> s.completed[r] \cup (P \cap BodiesOf(r))]
  BY <1>1 DEF IsSelf, serve_from_cache, Fill
<1>3. Cardinality(Going(s) \ P) <= s.in_flight
  <2>1. IsFiniteSet(Going(s)) /\ Cardinality(Going(s)) \in Nat
    BY <1>1, GoingFinite
  <2>2. /\ Cardinality(Going(s) \ P) <= Cardinality(Going(s))
        /\ Cardinality(Going(s) \ P) \in Nat
    BY <2>1, FS_Subset, FS_CardinalityType
  <2> QED BY <1>1, <2>1, <2>2 DEF Counted
<1> HIDE DEF x
<1>4. /\ 0 \in Nat /\ 0 <= s.in_flight /\ s.in_flight - 0 = s.in_flight
  BY <1>1 DEF Counted
<1>5. SelfInv(x, X, F)
  BY <1>2, <1>3, <1>4, FillStep
<1> QED BY <1>5 DEF x

\* The payloads C are fetched from the ledger: there are free slots for them.
LEMMA StartStep ==
  ASSUME Requestable, NEW s, NEW X, NEW F, SelfInv(s, X, F), NEW C \in Startable(s)
  PROVE  SelfInv(Start(s, C), X, F)
<1> DEFINE x == Start(s, C)
           D == {Payload(p) : p \in C}
           max == BLOCKSYNC_MAX_PAYLOAD_REQUESTS
           free == IF s.in_flight < max THEN max - s.in_flight ELSE 0
           N == NotInitiated(s)
<1>1. IsSelf(s) /\ SelfTyped(s) /\ Counted(s) /\ max \in Nat
  BY DEF SelfInv, SelfTyped, Requestable
<1>2. C \subseteq N /\ Cardinality(C) <= free
  BY DEF Startable
<1>3. N \in SUBSET Bodies /\ C \in SUBSET Bodies
  BY <1>1, <1>2 DEF NotInitiated, SelfTyped
<1>4. IsFiniteSet(C) /\ Cardinality(C) \in Nat /\ Cardinality(N) \in Nat
  BY <1>3, BodiesFinite, FS_Subset, FS_CardinalityType
<1>5. IsFiniteSet(D) /\ D \in SUBSET Fetchable
  <2> DEFINE f == [p \in C |-> Payload(p)]
  <2>1. f \in Surjection(C, D)
    BY DEF Surjection
  <2>2. IsFiniteSet(D)
    BY <1>4, <2>1, FS_Surjection
  <2> QED BY <1>3, <2>2 DEF Fetchable
<1>6. Ordered(D) \in Seq(Fetchable) /\ Range(Ordered(D)) = D
  BY ZenonT(30), <1>5, OrderedFacts
<1>7. /\ IsSelf(x) /\ x.headers = s.headers /\ x.payloads = With(s.payloads, C, "ledger")
      /\ x.in_flight = s.in_flight + Cardinality(C) /\ x.completed = s.completed
      /\ x.fetches = s.fetches \o Ordered(D) /\ x.timers = s.timers /\ x.wanted = s.wanted
  BY <1>1 DEF IsSelf, Start
<1> HIDE DEF x, D
<1>8. x.fetches \in Seq(Fetchable) /\ Range(x.fetches) = Range(s.fetches) \cup D
  BY <1>1, <1>6, <1>7, RangeFacts DEF SelfTyped
<1>9. /\ DOMAIN x.payloads = DOMAIN s.payloads /\ C \subseteq DOMAIN s.payloads
      /\ \A p \in C : x.payloads[p] = "ledger" /\ s.payloads[p] = "none"
      /\ \A p \in DOMAIN s.payloads \ C : x.payloads[p] = s.payloads[p]
  BY <1>2, <1>7 DEF NotInitiated, With
<1>10. SelfTyped(x)
  BY <1>7, <1>8, <1>9 DEF SelfInv, SelfTyped
<1>11. Tracked(x) /\ Requested(x)
  BY <1>7, <1>9 DEF SelfInv, Tracked, Requested
<1>12. Counted(x)
  <2>1. Going(x) = Going(s) \cup C /\ Going(s) \cap C = {}
    BY <1>9 DEF Going
  <2>2. IsFiniteSet(Going(s)) /\ Cardinality(Going(s)) \in Nat
    BY <1>1, GoingFinite
  <2>3. Cardinality(Going(x)) = Cardinality(Going(s)) + Cardinality(C)
    <3>1. Cardinality(Going(s) \cup C)
            = Cardinality(Going(s)) + Cardinality(C) - Cardinality(Going(s) \cap C)
      BY <1>4, <2>2, FS_Union
    <3>2. Cardinality(Going(s) \cap C) = 0
      BY <2>1, FS_EmptySet
    <3> QED BY <1>4, <2>1, <2>2, <3>1, <3>2
  <2> QED BY <1>1, <1>2, <1>4, <1>7, <2>2, <2>3 DEF Counted
<1>13. Driven(x, X)
  <2>1. \A p \in C : Payload(p) \in Range(x.fetches)
    BY <1>8 DEF D
  <2>2. \A p \in DOMAIN x.payloads :
          /\ x.payloads[p] = "ledger" => Payload(p) \in Range(x.fetches) \cup X
          /\ x.payloads[p] = "peer" => Payload(p) \in x.timers
    BY <1>7, <1>8, <1>9, <2>1 DEF SelfInv, Driven
  <2> QED BY <1>7, <1>8, <2>2 DEF SelfInv, Driven
<1>14. F \subseteq Range(x.fetches)
  BY <1>8 DEF SelfInv
<1> QED BY <1>10, <1>11, <1>12, <1>13, <1>14 DEF SelfInv, x

\* A handler ends by storing what it worked on.
LEMMA BecomeState ==
  ASSUME NEW s, NEW X, NEW F, SelfInv(s, X, F), Become(s)
  PROVE  SelfInv(State', X, F)
<1> DEFINE x == State'
<1>1. /\ IsSelf(x) /\ x.headers = s.headers /\ x.payloads = s.payloads /\ x.in_flight = s.in_flight
      /\ x.completed = s.completed /\ x.fetches = s.fetches /\ x.timers = s.timers /\ x.wanted = s.wanted
  BY DEF IsSelf, State, Become
<1> HIDE DEF x
<1>2. SelfTyped(x) /\ Tracked(x) /\ Requested(x)
  BY <1>1 DEF SelfInv, SelfTyped, Tracked, Requested
<1>3. Counted(x) /\ Driven(x, X) /\ F \subseteq Range(x.fetches)
  BY <1>1 DEF SelfInv, Counted, Going, Driven
<1> QED BY <1>2, <1>3 DEF SelfInv, x

\* try_initiate_payload_requests_for_self, both loops.
LEMMA InitiateStep ==
  ASSUME Requestable, NEW s, NEW X, NEW F, SelfInv(s, X, F), Initiate(s)
  PROVE  SelfInv(State', X, F)
<1> DEFINE y == ServeCached(s)
<1>1. SelfInv(y, X, F)
  BY ServeStep DEF ServeCached
<1>2. PICK C \in Startable(y) : Become(handle_completed_ranges(Start(y, C)))
  BY Zenon DEF Initiate, try_initiate_payload_requests_for_self
<1> HIDE DEF y
<1> DEFINE x == handle_completed_ranges(Start(y, C))
<1>3. SelfInv(x, X, F)
  BY Zenon, <1>1, StartStep, EmitStep
<1>4. Become(x)
  BY <1>2
<1> HIDE DEF x
<1> QED BY Zenon, <1>3, <1>4, BecomeState

\* A request is sent to a peer, with a timeout.
LEMMA AskPeerStep ==
  ASSUME NEW s, NEW X, NEW F, SelfInv(s, X, F), NEW item,
         \/ \E r \in DOMAIN s.headers : item = Headers(r)
         \/ \E p \in Going(s) : item = Payload(p)
  PROVE  SelfInv(ask_peer(s, item), X \ {item}, F)
<1> DEFINE x == ask_peer(s, item)
<1>1. IsSelf(s) /\ SelfTyped(s)
  BY DEF SelfInv, SelfTyped
<1>2. /\ IsSelf(x) /\ x.in_flight = s.in_flight /\ x.completed = s.completed
      /\ x.fetches = s.fetches /\ x.timers = s.timers \cup {item} /\ x.wanted = s.wanted
      /\ x.headers = IF item.kind = "Headers" THEN With(s.headers, {item.range}, "peer") ELSE s.headers
      /\ x.payloads = IF item.kind = "Payload" THEN With(s.payloads, {item.id}, "peer") ELSE s.payloads
  BY <1>1 DEF IsSelf, ask_peer
<1> HIDE DEF x
<1>3. CASE \E r \in DOMAIN s.headers : item = Headers(r)
  <2>1. PICK r \in DOMAIN s.headers : item = Headers(r)
    BY <1>3
  <2>2. item.kind = "Headers" /\ item.range = r /\ "Headers" # "Payload"
    BY <2>1, ItemFacts
  <2>3. /\ x.payloads = s.payloads /\ DOMAIN x.headers = DOMAIN s.headers /\ x.headers[r] = "peer"
        /\ \A q \in DOMAIN s.headers \ {r} : x.headers[q] = s.headers[q]
    BY <1>2, <2>2 DEF With
  <2>4. item \in Items
    BY <1>1, <2>1 DEF SelfTyped, Items
  <2>5. SelfTyped(x)
    BY ZenonT(30), <1>1, <1>2, <2>3, <2>4 DEF SelfTyped
  <2>6. Tracked(x) /\ Requested(x) /\ Counted(x)
    BY ZenonT(30), <1>2, <2>3 DEF SelfInv, Tracked, Requested, Counted, Going
  <2>7. Driven(x, X \ {item})
    BY ZenonT(30), <1>2, <2>1, <2>3, ItemFacts DEF SelfInv, Driven
  <2> QED BY <1>2, <2>5, <2>6, <2>7 DEF SelfInv, x
<1>4. CASE \E p \in Going(s) : item = Payload(p)
  <2>1. PICK p \in Going(s) : item = Payload(p)
    BY <1>4
  <2>2. item.kind = "Payload" /\ item.id = p /\ p \in DOMAIN s.payloads /\ s.payloads[p] # "none"
    BY <2>1, ItemFacts DEF Going
  <2>3. /\ x.headers = s.headers /\ DOMAIN x.payloads = DOMAIN s.payloads /\ x.payloads[p] = "peer"
        /\ \A q \in DOMAIN s.payloads \ {p} : x.payloads[q] = s.payloads[q]
    BY <1>2, <2>2 DEF With
  <2>4. item \in Items
    BY ZenonT(30), <1>1, <2>1, <2>2 DEF SelfTyped, Items, Bodies
  <2>5. SelfTyped(x)
    BY ZenonT(30), <1>1, <1>2, <2>3, <2>4 DEF SelfTyped
  <2>6. Going(x) = Going(s)
    BY <2>2, <2>3 DEF Going
  <2>7. Tracked(x) /\ Requested(x) /\ Counted(x)
    BY ZenonT(30), <1>2, <2>3, <2>6 DEF SelfInv, Tracked, Requested, Counted
  <2>8. Driven(x, X \ {item})
    BY ZenonT(30), <1>2, <2>1, <2>3, ItemFacts DEF SelfInv, Driven
  <2> QED BY <1>2, <2>5, <2>7, <2>8 DEF SelfInv, x
<1> QED BY <1>3, <1>4

\* Headers that verify: the range needs its payloads now.
LEMMA HeadersFoundStep ==
  ASSUME NEW s, NEW F, NEW r \in DOMAIN s.headers, SelfInv(s, {Headers(r)}, F),
         NEW sender
  PROVE  SelfInv(headers_found(s, r, sender), {}, F)
<1> DEFINE x == headers_found(s, r, sender)
           new == BodiesOf(r) \ DOMAIN s.payloads
<1>1. IsSelf(s) /\ SelfTyped(s)
  BY DEF SelfInv, SelfTyped
<1>2. /\ IsSelf(x) /\ x.in_flight = s.in_flight /\ x.fetches = s.fetches /\ x.wanted = s.wanted
      /\ x.headers = Without(s.headers, {r}) /\ x.payloads = With(s.payloads, new, "none")
      /\ x.completed = With(s.completed, {r}, {})
      /\ x.timers = s.timers \/ x.timers = s.timers \ {Headers(r)}
  BY <1>1 DEF IsSelf, headers_found, reset_timeout
<1> HIDE DEF x
<1>3. /\ DOMAIN x.headers = DOMAIN s.headers \ {r}
      /\ \A q \in DOMAIN s.headers \ {r} : x.headers[q] = s.headers[q]
  BY <1>2 DEF Without
<1>4. /\ DOMAIN x.payloads = DOMAIN s.payloads \cup new
      /\ \A p \in new : x.payloads[p] = "none"
      /\ \A p \in DOMAIN s.payloads : x.payloads[p] = s.payloads[p]
  BY <1>2 DEF With
<1>5. /\ DOMAIN x.completed = DOMAIN s.completed \cup {r} /\ x.completed[r] = {}
      /\ \A q \in DOMAIN s.completed \ {r} : x.completed[q] = s.completed[q]
  BY <1>2 DEF With
<1>6. BodiesOf(r) \subseteq Bodies
  BY DEF BodiesOf, BlocksOf, Bodies
<1>7. SelfTyped(x)
  BY ZenonT(30), <1>1, <1>2, <1>3, <1>4, <1>5, <1>6 DEF SelfTyped
<1>8. Tracked(x)
  BY <1>2, <1>3, <1>5 DEF SelfInv, Tracked
<1>9. Requested(x)
  BY <1>4, <1>5 DEF SelfInv, Requested
<1>10. Counted(x)
  <2>1. Going(x) = Going(s)
    BY <1>4 DEF Going
  <2> QED BY <1>2, <2>1 DEF SelfInv, Counted
<1>11. Driven(x, {})
  <2>1. ASSUME NEW q \in DOMAIN x.headers
        PROVE  /\ x.headers[q] = "ledger" => Headers(q) \in Range(x.fetches)
               /\ x.headers[q] = "peer" => Headers(q) \in x.timers
    <3>1. q \in DOMAIN s.headers /\ q # r /\ x.headers[q] = s.headers[q]
      BY <1>3
    <3>2. Headers(q) # Headers(r)
      BY <3>1, ItemFacts
    <3>3. /\ s.headers[q] = "ledger" => Headers(q) \in Range(s.fetches) \cup {Headers(r)}
          /\ s.headers[q] = "peer" => Headers(q) \in s.timers
      BY <3>1 DEF SelfInv, Driven
    <3> QED BY ZenonT(30), <1>2, <3>1, <3>2, <3>3
  <2>2. ASSUME NEW p \in DOMAIN x.payloads
        PROVE  /\ x.payloads[p] = "ledger" => Payload(p) \in Range(x.fetches)
               /\ x.payloads[p] = "peer" => Payload(p) \in x.timers
    BY ZenonT(30), <1>2, <1>4, ItemFacts DEF SelfInv, Driven
  <2> QED BY ZenonT(30), <2>1, <2>2 DEF Driven
<1> QED BY <1>2, <1>7, <1>8, <1>9, <1>10, <1>11 DEF SelfInv, x

\* A payload that was in flight: its slot becomes free.
LEMMA PayloadFoundStep ==
  ASSUME Requestable, NEW s, NEW F, NEW p \in Going(s), SelfInv(s, {Payload(p)}, F), NEW sender
  PROVE  SelfInv(payload_found(s, p, sender), {}, F)
<1> DEFINE y == [reset_timeout(s, Payload(p), sender) EXCEPT
                   !.in_flight = @ - 1, !.payloads = Without(@, {p})]
           x == Fill(y, {p})
<1>1. IsSelf(s) /\ SelfTyped(s) /\ Counted(s) /\ p \in DOMAIN s.payloads
  BY DEF SelfInv, SelfTyped, Going
<1>2. /\ IsSelf(x) /\ x.headers = s.headers /\ x.payloads = Without(s.payloads, {p})
      /\ x.in_flight = s.in_flight - 1 /\ x.fetches = s.fetches /\ x.wanted = s.wanted
      /\ x.completed = [r \in DOMAIN s.completed |-> s.completed[r] \cup ({p} \cap BodiesOf(r))]
      /\ x.timers = s.timers \/ x.timers = s.timers \ {Payload(p)}
  BY <1>1 DEF IsSelf, Fill, reset_timeout
<1>3. 1 <= s.in_flight /\ Cardinality(Going(s) \ {p}) <= s.in_flight - 1
  <2>1. IsFiniteSet(Going(s)) /\ Cardinality(Going(s)) \in Nat
    BY <1>1, GoingFinite
  <2>2. Cardinality(Going(s) \ {p}) = Cardinality(Going(s)) - 1
    BY <2>1, FS_RemoveElement
  <2>3. Cardinality(Going(s)) # 0
    BY <2>1, FS_EmptySet
  <2> QED BY <1>1, <2>1, <2>2, <2>3 DEF Counted
<1>4. payload_found(s, p, sender) = handle_completed_ranges(x)
  BY DEF payload_found
<1> HIDE DEF x
<1>5. SelfInv(x, {Payload(p)}, F)
  <2>1. x.timers \subseteq s.timers /\ \A e \in s.timers \ x.timers : \E q \in {p} : e = Payload(q)
    BY <1>2
  <2>2. 1 \in Nat
    OBVIOUS
  <2> QED BY Zenon, <1>2, <1>3, <2>1, <2>2, FillStep
<1>6. DOMAIN x.payloads = DOMAIN s.payloads \ {p}
  BY <1>2 DEF Without
<1>7. SelfInv(x, {}, F)
  BY <1>5, <1>6, ItemFacts DEF SelfInv, Driven
<1> QED BY <1>4, <1>7, EmitStep

\* An answer of the ledger, which owes none for the item any more, or of a
\* peer.
LEMMA ResponseStep ==
  ASSUME Requestable, NEW s, NEW F, NEW item \in Fetchable \cup Items, NEW sender, NEW found,
         SelfInv(s, {item}, F), sender = "ledger" \/ Driven(s, {}),
         ResponseForSelf(s, item, sender, found)
  PROVE  SelfInv(State', {}, F)
<1>1. ASSUME Driven(s, {}) PROVE SelfInv(s, {}, F)
  BY <1>1 DEF SelfInv
<1>2. CASE \E r : item = Headers(r)
  <2>1. PICK r : item = Headers(r)
    BY <1>2
  <2>2. handle_headers_response_for_self(s, r, sender, found)
    BY <2>1, ItemFacts DEF ResponseForSelf
  <2>3. CASE r \notin DOMAIN s.headers
    <3>1. Driven(s, {})
      BY <2>1, <2>3, ItemFacts DEF SelfInv, Driven
    <3>2. Become(s)
      BY <2>2, <2>3 DEF handle_headers_response_for_self
    <3> QED BY ZenonT(30), <1>1, <3>1, <3>2, BecomeState
  <2>4. CASE r \in DOMAIN s.headers /\ found
    <3> DEFINE x == headers_found(s, r, sender)
    <3>1. SelfInv(x, {}, F)
      BY <2>1, <2>4, HeadersFoundStep
    <3>2. Initiate(x)
      BY ZenonT(30), <2>2, <2>4 DEF handle_headers_response_for_self
    <3> HIDE DEF x
    <3> QED BY <3>1, <3>2, InitiateStep
  <2>5. CASE r \in DOMAIN s.headers /\ ~ found
    <3> DEFINE x == headers_failed(s, r, sender)
    <3>1. SelfInv(x, {}, F)
      <4>1. CASE sender = "ledger" /\ s.headers[r] = "ledger"
        <5>1. x = ask_peer(s, item)
          BY <2>1, <4>1 DEF headers_failed
        <5>2. {item} \ {item} = {}
          OBVIOUS
        <5> QED BY <2>1, <2>5, <5>1, <5>2, AskPeerStep
      <4>2. CASE ~ (sender = "ledger" /\ s.headers[r] = "ledger")
        <5>1. x = s
          BY ZenonT(30), <4>2 DEF headers_failed
        <5>2. Driven(s, {})
          BY <2>1, <2>5, <4>2, ItemFacts DEF SelfInv, Driven
        <5> QED BY <1>1, <5>1, <5>2
      <4> QED BY <4>1, <4>2
    <3>2. Initiate(x)
      BY <2>2, <2>5 DEF handle_headers_response_for_self
    <3> HIDE DEF x
    <3> QED BY <3>1, <3>2, InitiateStep
  <2> QED BY <2>3, <2>4, <2>5
<1>3. CASE \E p : item = Payload(p)
  <2>1. PICK p : item = Payload(p)
    BY <1>3
  <2>2. handle_payload_response_for_self(s, p, sender, found)
    BY ZenonT(30), <2>1, ItemFacts DEF ResponseForSelf
  <2>3. CASE p \notin Going(s)
    <3>1. Driven(s, {})
      BY ZenonT(30), <2>1, <2>3, ItemFacts DEF SelfInv, Driven, Going
    <3>2. Become(s)
      BY <2>2, <2>3 DEF handle_payload_response_for_self, NotInitiated, Going
    <3> QED BY <1>1, <3>1, <3>2, BecomeState
  <2>4. CASE p \in Going(s) /\ found
    <3> DEFINE x == payload_found(s, p, sender)
    <3>1. SelfInv(x, {}, F)
      BY <2>1, <2>4, PayloadFoundStep
    <3>2. Initiate(x)
      BY <2>2, <2>4 DEF handle_payload_response_for_self, NotInitiated, Going
    <3> HIDE DEF x
    <3> QED BY <3>1, <3>2, InitiateStep
  <2>5. CASE p \in Going(s) /\ ~ found
    <3> DEFINE x == payload_failed(s, p, sender)
    <3>1. SelfInv(x, {}, F)
      <4>1. CASE sender = "ledger" /\ s.payloads[p] = "ledger"
        <5>1. x = ask_peer(s, item)
          BY <2>1, <4>1 DEF payload_failed
        <5>2. {item} \ {item} = {}
          OBVIOUS
        <5> QED BY <2>1, <2>5, <5>1, <5>2, AskPeerStep
      <4>2. CASE ~ (sender = "ledger" /\ s.payloads[p] = "ledger")
        <5>1. x = s
          BY ZenonT(30), <4>2 DEF payload_failed
        <5>2. Driven(s, {})
          BY ZenonT(30), <2>1, <2>5, <4>2, ItemFacts DEF SelfInv, Driven
        <5> QED BY <1>1, <5>1, <5>2
      <4> QED BY <4>1, <4>2
    <3>2. Initiate(handle_completed_ranges(x))
      BY <2>2, <2>5 DEF handle_payload_response_for_self, NotInitiated, Going
    <3> HIDE DEF x
    <3>3. SelfInv(handle_completed_ranges(x), {}, F)
      BY <3>1, EmitStep
    <3> QED BY Zenon, <3>2, <3>3, InitiateStep
  <2> QED BY <2>3, <2>4, <2>5
<1> QED BY <1>2, <1>3 DEF Fetchable, Items

\* The peers that wait for the ledger.
Waiting == {Headers(e.range) : e \in peer_headers} \cup {Payload(e[1]) : e \in peer_payloads}

SyncInv == mode \in {"StateSync", "Consensus"} /\ SelfInv(State, {}, Waiting)

\* A new request replaces those of the other requester.
LEMMA SelfRequestStep ==
  ASSUME Requestable, SyncInv, NEW requester \in {"StateSync", "Consensus"}, NEW r \in SelfRanges,
         handle_self_request(requester, r)
  PROVE  SyncInv'
<1> DEFINE s == IF requester = mode THEN State ELSE clear_self_requests(State)
           x == Ask(s, r)
<1>1. SelfInv(s, {}, Waiting)
  <2>1. CASE requester = mode
    BY <2>1 DEF SyncInv
  <2>2. CASE requester # mode
    <3>1. IsSelf(State)
      BY DEF SyncInv, SelfInv, SelfTyped
    <3>2. /\ IsSelf(s) /\ DOMAIN s.headers = {} /\ DOMAIN s.payloads = {} /\ s.in_flight = 0
          /\ DOMAIN s.completed = {} /\ s.wanted = {} /\ s.fetches = State.fetches
          /\ s.timers = State.timers
      <4>1. s = clear_self_requests(State)
        BY ZenonT(30), <2>2
      <4> HIDE DEF s
      <4> QED BY <3>1, <4>1 DEF IsSelf, clear_self_requests
    <3> HIDE DEF s
    <3>3. SelfTyped(s) /\ Tracked(s) /\ Requested(s) /\ Driven(s, {}) /\ Waiting \subseteq Range(s.fetches)
      BY <3>2 DEF SyncInv, SelfInv, SelfTyped, Tracked, Requested, Driven
    <3>4. Counted(s)
      <4>1. Going(s) = {}
        BY <3>2 DEF Going
      <4>2. 0 <= BLOCKSYNC_MAX_PAYLOAD_REQUESTS
        BY DEF Requestable
      <4> QED BY <3>2, <4>1, <4>2, FS_EmptySet DEF Counted
    <3> QED BY <3>3, <3>4 DEF SelfInv
  <2> QED BY <2>1, <2>2
<1>2. Become(x) /\ mode' = requester /\ UNCHANGED <<peer_headers, peer_payloads>>
  BY DEF handle_self_request
<1> HIDE DEF s
<1>3. SelfInv(x, {}, Waiting)
  <2>1. CASE self_request_exists(s, r)
    BY <1>1, <2>1 DEF Ask
  <2>2. CASE ~ self_request_exists(s, r)
    <3>1. IsSelf(s) /\ SelfTyped(s)
      BY <1>1 DEF SelfInv, SelfTyped
    <3>2. /\ IsSelf(x) /\ x.headers = With(s.headers, {r}, "ledger") /\ x.payloads = s.payloads
          /\ x.in_flight = s.in_flight /\ x.completed = s.completed /\ x.timers = s.timers
          /\ x.fetches = Append(s.fetches, Headers(r)) /\ x.wanted = s.wanted \cup {r}
      BY <2>2, <3>1 DEF IsSelf, Ask
    <3> HIDE DEF x
    <3>3. /\ DOMAIN x.headers = DOMAIN s.headers \cup {r} /\ x.headers[r] = "ledger"
          /\ \A q \in DOMAIN s.headers \ {r} : x.headers[q] = s.headers[q]
          /\ r \notin DOMAIN s.headers /\ r \notin DOMAIN s.completed
      BY ZenonT(30), <2>2, <3>2 DEF self_request_exists, With
    <3>4. /\ x.fetches \in Seq(Fetchable)
          /\ Range(x.fetches) = Range(s.fetches) \cup {Headers(r)}
      <4>1. Headers(r) \in Fetchable
        BY ZenonT(30) DEF Fetchable
      <4> QED BY <3>1, <3>2, <4>1, RangeFacts DEF SelfTyped
    <3>5. SelfTyped(x)
      BY ZenonT(30), <3>1, <3>2, <3>3, <3>4 DEF SelfTyped
    <3>6. Tracked(x) /\ Requested(x)
      BY ZenonT(30), <1>1, <3>2, <3>3 DEF SelfInv, Tracked, Requested
    <3>7. Counted(x)
      BY <1>1, <3>2 DEF SelfInv, Counted, Going
    <3>8. Driven(x, {}) /\ Waiting \subseteq Range(x.fetches)
      BY ZenonT(30), <1>1, <3>2, <3>3, <3>4 DEF SelfInv, Driven
    <3> QED BY ZenonT(30), <3>5, <3>6, <3>7, <3>8 DEF SelfInv
  <2> QED BY <2>1, <2>2
<1> HIDE DEF x
<1>4. SelfInv(State', {}, Waiting)
  BY <1>2, <1>3, BecomeState
<1>5. Waiting' = Waiting
  BY <1>2 DEF Waiting
<1> QED BY <1>2, <1>4, <1>5 DEF SyncInv

LEMMA CancelStep ==
  ASSUME SyncInv, NEW r \in SelfRanges, handle_self_cancel_request(r)
  PROVE  SyncInv'
<1> DEFINE s == State
           x == [s EXCEPT !.headers = Without(@, {r}), !.completed = Without(@, {r}),
                          !.wanted = @ \ {r}]
<1>1. SelfInv(s, {}, Waiting) /\ IsSelf(s)
  BY DEF SyncInv, SelfInv, SelfTyped
<1>2. Become(x) /\ UNCHANGED <<mode, peer_headers, peer_payloads>>
  BY DEF handle_self_cancel_request, cancel
<1> HIDE DEF s
<1>3. /\ IsSelf(x) /\ x.headers = Without(s.headers, {r}) /\ x.payloads = s.payloads
      /\ x.in_flight = s.in_flight /\ x.completed = Without(s.completed, {r})
      /\ x.fetches = s.fetches /\ x.timers = s.timers /\ x.wanted = s.wanted \ {r}
  BY <1>1 DEF IsSelf
<1> HIDE DEF x
<1>4. /\ DOMAIN x.headers = DOMAIN s.headers \ {r} /\ DOMAIN x.completed = DOMAIN s.completed \ {r}
      /\ \A q \in DOMAIN s.headers \ {r} : x.headers[q] = s.headers[q]
      /\ \A q \in DOMAIN s.completed \ {r} : x.completed[q] = s.completed[q]
  BY ZenonT(30), <1>3 DEF Without
<1>5. SelfTyped(x)
  BY ZenonT(30), <1>1, <1>3, <1>4 DEF SelfInv, SelfTyped
<1>6. Tracked(x) /\ Requested(x)
  BY ZenonT(30), <1>1, <1>3, <1>4 DEF SelfInv, Tracked, Requested
<1>7. Counted(x) /\ Driven(x, {}) /\ Waiting \subseteq Range(x.fetches)
  BY ZenonT(30), <1>1, <1>3, <1>4 DEF SelfInv, Counted, Going, Driven
<1>8. SelfInv(State', {}, Waiting)
  BY <1>2, <1>5, <1>6, <1>7, BecomeState DEF SelfInv
<1>9. Waiting' = Waiting
  BY <1>2 DEF Waiting
<1> QED BY <1>2, <1>8, <1>9 DEF SyncInv

\* The ledger answers the oldest fetch, for this node and for the peers that
\* wait for it.
LEMMA LedgerStep ==
  ASSUME Requestable, SyncInv, NEW found \in BOOLEAN, handle_ledger_response(found)
  PROVE  SyncInv'
<1> DEFINE item == Head(fetches)
           s == [State EXCEPT !.fetches = Tail(@)]
           F == Waiting \ {item}
<1>1. SelfInv(State, {}, Waiting) /\ IsSelf(State) /\ fetches # <<>>
  BY ZenonT(30) DEF SyncInv, SelfInv, SelfTyped, handle_ledger_response
<1>2. /\ fetches = State.fetches /\ fetches \in Seq(Fetchable)
  BY ZenonT(30), <1>1 DEF SelfInv, SelfTyped, State
<1>3. /\ item \in Fetchable /\ Tail(fetches) \in Seq(Fetchable)
      /\ Range(fetches) = {item} \cup Range(Tail(fetches))
  BY <1>1, <1>2, RangeFacts
<1>4. /\ ResponseForSelf(s, item, "ledger", found)
      /\ peer_headers' = {e \in peer_headers : Headers(e.range) # item}
      /\ peer_payloads' = {e \in peer_payloads : Payload(e[1]) # item} /\ mode' = mode
  BY DEF handle_ledger_response
<1> HIDE DEF item
<1>5. /\ IsSelf(s) /\ s.headers = State.headers /\ s.payloads = State.payloads
      /\ s.in_flight = State.in_flight /\ s.completed = State.completed
      /\ s.timers = State.timers /\ s.wanted = State.wanted /\ s.fetches = Tail(fetches)
  BY <1>1, <1>2 DEF IsSelf
<1> HIDE DEF s
<1>6. SelfInv(s, {item}, F)
  <2>1. SelfTyped(s)
    BY ZenonT(30), <1>1, <1>3, <1>5 DEF SelfInv, SelfTyped
  <2>2. Tracked(s) /\ Requested(s) /\ Counted(s)
    BY ZenonT(30), <1>1, <1>5 DEF SelfInv, Tracked, Requested, Counted, Going
  <2>3. Driven(s, {item}) /\ F \subseteq Range(s.fetches)
    BY <1>1, <1>2, <1>3, <1>5 DEF SelfInv, Driven
  <2> QED BY ZenonT(30), <2>1, <2>2, <2>3 DEF SelfInv
<1>7. SelfInv(State', {}, F)
  BY <1>3, <1>4, <1>6, ResponseStep
<1>8. Waiting' \subseteq F
  BY <1>4 DEF Waiting
<1> QED BY <1>4, <1>7, <1>8 DEF SyncInv, SelfInv

LEMMA PeerStep ==
  ASSUME Requestable, SyncInv, NEW item \in Items, NEW found \in BOOLEAN,
         handle_peer_response(item, found)
  PROVE  SyncInv'
<1>1. /\ ResponseForSelf(State, item, "peer", found)
      /\ UNCHANGED <<mode, peer_headers, peer_payloads>>
  BY ZenonT(30) DEF handle_peer_response
<1>2. SelfInv(State, {item}, Waiting) /\ Driven(State, {})
  BY DEF SyncInv, SelfInv, Driven
<1>3. SelfInv(State', {}, Waiting)
  BY <1>1, <1>2, ResponseStep
<1>4. Waiting' = Waiting
  BY <1>1 DEF Waiting
<1> QED BY <1>1, <1>3, <1>4 DEF SyncInv

\* A timeout is for a request that a peer has not answered, or for nothing.
LEMMA TimeoutStep ==
  ASSUME SyncInv, NEW item \in Items, handle_timeout(item)
  PROVE  SyncInv'
<1> DEFINE s == State
           x == IF IsAskedOfPeer(item) THEN ask_peer(s, item) ELSE [s EXCEPT !.timers = @ \ {item}]
<1>1. Become(x) /\ UNCHANGED <<mode, peer_headers, peer_payloads>>
  BY ZenonT(30) DEF handle_timeout, retry
<1>2. SelfInv(s, {}, Waiting) /\ IsSelf(s) /\ s.headers = headers /\ s.payloads = payloads
  BY ZenonT(30) DEF SyncInv, SelfInv, SelfTyped, State
<1>3. (\E r : item = Headers(r)) \/ (\E p : item = Payload(p))
  BY DEF Items
<1> HIDE DEF s
<1>4. SelfInv(x, {}, Waiting)
  <2>1. CASE IsAskedOfPeer(item)
    <3>1. \/ \E r \in DOMAIN s.headers : item = Headers(r)
          \/ \E p \in Going(s) : item = Payload(p)
      BY <1>2, <1>3, <2>1, ItemFacts DEF IsAskedOfPeer, Going
    <3>2. {} \ {item} = {}
      OBVIOUS
    <3>3. x = ask_peer(s, item)
      BY <2>1
    <3> HIDE DEF x
    <3> QED BY ZenonT(30), <1>2, <3>1, <3>2, <3>3, AskPeerStep
  <2>2. CASE ~ IsAskedOfPeer(item)
    <3>1. /\ IsSelf(x) /\ x.headers = s.headers /\ x.payloads = s.payloads /\ x.in_flight = s.in_flight
          /\ x.completed = s.completed /\ x.fetches = s.fetches /\ x.timers = s.timers \ {item}
          /\ x.wanted = s.wanted
      BY ZenonT(30), <1>2, <2>2 DEF IsSelf
    <3> HIDE DEF x
    <3>2. /\ \A r \in DOMAIN s.headers : s.headers[r] = "peer" => item # Headers(r)
          /\ \A p \in DOMAIN s.payloads : s.payloads[p] = "peer" => item # Payload(p)
      <4>1. ASSUME NEW r \in DOMAIN s.headers, s.headers[r] = "peer", item = Headers(r) PROVE FALSE
        <5>1. item.kind = "Headers" /\ item.range = r
          BY ZenonT(30), <4>1, ItemFacts
        <5> QED BY ZenonT(30), <1>2, <2>2, <4>1, <5>1 DEF IsAskedOfPeer
      <4>2. ASSUME NEW p \in DOMAIN s.payloads, s.payloads[p] = "peer", item = Payload(p) PROVE FALSE
        <5>1. item.kind = "Payload" /\ item.id = p
          BY ZenonT(30), <4>2, ItemFacts
        <5> QED BY ZenonT(30), <1>2, <2>2, <4>2, <5>1 DEF IsAskedOfPeer
      <4> QED BY ZenonT(30), <4>1, <4>2
    <3>3. SelfTyped(x)
      BY ZenonT(30), <1>2, <3>1 DEF SelfInv, SelfTyped
    <3>4. Tracked(x) /\ Requested(x) /\ Counted(x) /\ Waiting \subseteq Range(x.fetches)
      BY ZenonT(30), <1>2, <3>1 DEF SelfInv, Tracked, Requested, Counted, Going
    <3>5. Driven(x, {})
      BY <1>2, <3>1, <3>2 DEF SelfInv, Driven
    <3> QED BY <3>3, <3>4, <3>5 DEF SelfInv
  <2> QED BY <2>1, <2>2
<1> HIDE DEF x
<1>5. SelfInv(State', {}, Waiting)
  BY <1>1, <1>4, BecomeState
<1>6. Waiting' = Waiting
  BY <1>1 DEF Waiting
<1> QED BY <1>1, <1>5, <1>6 DEF SyncInv

\* The ledger is asked on behalf of a peer.
LEMMA FetchStep ==
  ASSUME SyncInv, NEW item \in Fetchable, fetches' = Append(fetches, item), Waiting' \subseteq Waiting \cup {item},
         UNCHANGED <<mode, headers, payloads, in_flight, completed, timers, wanted>>
  PROVE  SyncInv'
<1> DEFINE s == State
           x == State'
<1>1. /\ IsSelf(x) /\ x.headers = s.headers /\ x.payloads = s.payloads /\ x.in_flight = s.in_flight
      /\ x.completed = s.completed /\ x.timers = s.timers /\ x.wanted = s.wanted
      /\ s.fetches = fetches /\ x.fetches = Append(fetches, item)
  BY DEF IsSelf, State
<1>2. SelfInv(s, {}, Waiting) /\ SelfTyped(s)
  BY ZenonT(30) DEF SyncInv, SelfInv
<1> HIDE DEF s, x
<1>3. /\ x.fetches \in Seq(Fetchable)
      /\ Range(x.fetches) = Range(s.fetches) \cup {item}
  <2>1. fetches \in Seq(Fetchable)
    BY ZenonT(30), <1>1, <1>2 DEF SelfTyped
  <2>2. /\ Append(fetches, item) \in Seq(Fetchable)
        /\ Range(Append(fetches, item)) = Range(fetches) \cup {item}
    BY <2>1, RangeFacts
  <2> QED BY ZenonT(30), <1>1, <2>2
<1>4. SelfTyped(x)
  BY ZenonT(30), <1>1, <1>2, <1>3 DEF SelfTyped
<1>5. Tracked(x) /\ Requested(x) /\ Counted(x)
  BY ZenonT(30), <1>1, <1>2 DEF SelfInv, Tracked, Requested, Counted, Going
<1>6. Driven(x, {}) /\ Waiting' \subseteq Range(x.fetches)
  BY <1>1, <1>2, <1>3 DEF SelfInv, Driven
<1>7. SelfInv(x, {}, Waiting')
  BY <1>4, <1>5, <1>6 DEF SelfInv
<1> QED BY ZenonT(30), <1>7 DEF SyncInv, x

LEMMA PeerHeadersStep ==
  ASSUME Requestable, SyncInv, NEW peer \in Peers, NEW r \in PeerRanges,
         handle_peer_headers_request(peer, r)
  PROVE  SyncInv'
<1> DEFINE cached == CachedChain(r)
           k == Cardinality(cached)
           rest == [last |-> r.last - k, num |-> r.num - k]
<1>1. k \in Nat
  <2>1. cached \in SUBSET Blocks
    BY DEF CachedChain, BlocksOf
  <2> QED BY <2>1, FS_Subset, FS_CardinalityType DEF Requestable
<1>2. UNCHANGED <<mode, headers, payloads, in_flight, completed, peer_payloads, timers, wanted>>
  BY DEF handle_peer_headers_request
<1>3. CASE rest.num = 0
  <2>1. UNCHANGED <<peer_headers, fetches>>
    BY <1>3 DEF handle_peer_headers_request
  <2>2. Waiting' = Waiting /\ State' = State
    BY <1>2, <2>1 DEF Waiting, State
  <2> QED BY ZenonT(30), <1>2, <2>2 DEF SyncInv
<1>4. CASE rest.num # 0
  <2>1. /\ fetches' = Append(fetches, Headers(rest))
        /\ peer_headers' = {e \in peer_headers : e.range # rest \/ e.peer # peer}
                             \cup {[range |-> rest, peer |-> peer, cached |-> k]}
    BY <1>4 DEF handle_peer_headers_request, Fetch
  <2>2. rest \in [last : Int, num : Int]
    BY <1>1 DEF Requestable
  <2> HIDE DEF rest, k
  <2>3. Waiting' \subseteq Waiting \cup {Headers(rest)}
    BY <1>2, <2>1 DEF Waiting
  <2>4. Headers(rest) \in Fetchable
    BY <2>2 DEF Fetchable
  <2> QED BY ZenonT(30), <1>2, <2>1, <2>3, <2>4, FetchStep
<1> QED BY <1>3, <1>4

LEMMA PeerPayloadStep ==
  ASSUME SyncInv, NEW peer \in Peers, NEW p \in PeerPayloads, handle_peer_payload_request(peer, p)
  PROVE  SyncInv'
<1>1. UNCHANGED <<mode, headers, payloads, in_flight, completed, peer_headers, timers, wanted>>
  BY DEF handle_peer_payload_request
<1>2. CASE UNCHANGED <<peer_payloads, fetches>>
  <2>1. Waiting' = Waiting /\ State' = State
    BY <1>1, <1>2 DEF Waiting, State
  <2> QED BY <1>1, <2>1 DEF SyncInv
<1>3. CASE peer_payloads' = peer_payloads \cup {<<p, peer>>} /\ fetches' = Append(fetches, Payload(p))
  <2>1. Waiting' \subseteq Waiting \cup {Payload(p)}
    BY <1>1, <1>3 DEF Waiting
  <2>2. Payload(p) \in Fetchable
    BY ZenonT(30) DEF Fetchable
  <2> QED BY <1>1, <1>3, <2>1, <2>2, FetchStep
<1> QED BY <1>2, <1>3 DEF handle_peer_payload_request, Fetch

LEMMA SyncInit == ASSUME Requestable PROVE Init => SyncInv
<1> SUFFICES ASSUME Init PROVE SyncInv
  BY ZenonT(30)
<1> DEFINE s == State
<1>1. /\ IsSelf(s) /\ s.headers = <<>> /\ s.payloads = <<>> /\ s.completed = <<>> /\ s.in_flight = 0
      /\ s.fetches = <<>> /\ s.timers = {} /\ s.wanted = {} /\ mode = "StateSync" /\ Waiting = {}
  BY ZenonT(30) DEF IsSelf, State, Init, Waiting
<1> HIDE DEF s
<1>2. DOMAIN s.headers = {} /\ DOMAIN s.payloads = {} /\ DOMAIN s.completed = {} /\ s.fetches \in Seq(Fetchable)
  BY ZenonT(30), <1>1, EmptyFacts
<1>3. SelfTyped(s) /\ Tracked(s) /\ Requested(s) /\ Driven(s, {})
  BY ZenonT(30), <1>1, <1>2 DEF SelfTyped, Tracked, Requested, Driven
<1>4. Counted(s)
  <2>1. Going(s) = {}
    BY <1>2 DEF Going
  <2> QED BY <1>1, <2>1, FS_EmptySet DEF Counted, Requestable
<1> QED BY ZenonT(30), <1>1, <1>3, <1>4 DEF SelfInv, SyncInv, s

LEMMA SyncStep == ASSUME Requestable PROVE SyncInv /\ [Next]_vars => SyncInv'
<1> SUFFICES ASSUME SyncInv, [Next]_vars PROVE SyncInv'
  OBVIOUS
<1>1. CASE ChangeTree
  <2>1. Waiting' = Waiting /\ State' = State /\ mode' = mode
    BY ZenonT(30), <1>1 DEF Waiting, State, ChangeTree
  <2> QED BY ZenonT(30), <2>1 DEF SyncInv
<1>2. CASE UNCHANGED vars
  <2>1. Waiting' = Waiting /\ State' = State /\ mode' = mode
    BY <1>2 DEF Waiting, State, vars
  <2> QED BY <2>1 DEF SyncInv
<1> QED
  BY Zenon, <1>1, <1>2, SelfRequestStep, CancelStep, LedgerStep, PeerStep, TimeoutStep, PeerHeadersStep,
     PeerPayloadStep DEF Next

LEMMA SyncInvariance == ASSUME Requestable PROVE Spec => []SyncInv
BY SyncInit, SyncStep, PTL DEF Spec

\* A range is worked on exactly while its requester wants it, and a range
\* whose headers are known has or requests each of its payloads: although
\* ranges share payloads and are cancelled, replaced and emitted one by one.
THEOREM RangesAreTracked ==
  ASSUME Requestable
  PROVE  Spec => [](TypeOK /\ TracksWantedRanges /\ MissingPayloadIsRequested)
<1>1. SyncInv => TypeOK /\ TracksWantedRanges /\ MissingPayloadIsRequested
  <2> SUFFICES ASSUME SyncInv PROVE TypeOK /\ TracksWantedRanges /\ MissingPayloadIsRequested
    OBVIOUS
  <2> DEFINE s == State
  <2>1. /\ s.headers = headers /\ s.payloads = payloads /\ s.completed = completed /\ s.wanted = wanted
        /\ s.in_flight = in_flight /\ s.timers = timers
    BY DEF State
  <2> HIDE DEF s
  <2>2. SelfTyped(s) /\ Tracked(s) /\ Requested(s) /\ Counted(s) /\ mode \in {"StateSync", "Consensus"}
    BY ZenonT(30) DEF SyncInv, SelfInv, s
  <2>3. TypeOK
    BY <2>1, <2>2 DEF TypeOK, SelfTyped, Counted
  <2> QED BY <2>1, <2>2, <2>3
          DEF Tracked, Requested, TracksWantedRanges, MissingPayloadIsRequested
<1> QED BY <1>1, SyncInvariance, PTL

\* No request waits for nothing: the ledger has its fetch or a timeout is set,
\* whatever answers come late, twice or after the request was made again, and
\* the ledger has the fetch of every peer that waits.
THEOREM RequestsAreDriven ==
  ASSUME Requestable
  PROVE  Spec => [](EveryRequestIsDriven /\ PeersAreAnswered)
<1>1. SyncInv => EveryRequestIsDriven /\ PeersAreAnswered
  <2> SUFFICES ASSUME SyncInv PROVE EveryRequestIsDriven /\ PeersAreAnswered
    OBVIOUS
  <2> DEFINE s == State
  <2>1. s.headers = headers /\ s.payloads = payloads /\ s.fetches = fetches /\ s.timers = timers
    BY DEF State
  <2> HIDE DEF s
  <2>2. SelfTyped(s) /\ Driven(s, {}) /\ Waiting \subseteq Range(s.fetches)
    BY ZenonT(30) DEF SyncInv, SelfInv, s
  <2>3. EveryRequestIsDriven
    BY <2>1, <2>2 DEF SelfTyped, Driven, EveryRequestIsDriven, Initiated
  <2> QED BY <2>1, <2>2, <2>3 DEF Waiting, PeersAreAnswered
<1> QED BY <1>1, SyncInvariance, PTL

\* The number of payload requests in flight does not exceed its limit, and its
\* decrement does not underflow.
THEOREM SlotsAreCounted == ASSUME Requestable PROVE Spec => []InFlightWithinBounds
<1>1. SyncInv => InFlightWithinBounds
  BY DEF SyncInv, SelfInv, Counted, Going, State, InFlightWithinBounds, Initiated
<1> QED BY <1>1, SyncInvariance, PTL
=============================================================================
