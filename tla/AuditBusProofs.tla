---------------------------- MODULE AuditBusProofs ----------------------------
(* Theorems about the dispatcher and the audit trail that publishes on it, for *)
(* any listeners, details, depth of publications and length of the trail.      *)
EXTENDS AuditBus, ListProofs, FiniteSetTheorems, TLAPS

-------------------------------------------------------------------------------
(* Lemmas about sequences and sets                                             *)

\* A sequence without its i-th element.
Cut(s, i) == SubSeq(s, 1, i - 1) \o SubSeq(s, i + 1, Len(s))

LEMMA CutProperties ==
  ASSUME NEW S, NEW s \in Seq(S), NEW i \in 1..Len(s)
  PROVE  /\ Cut(s, i) \in Seq(S)
         /\ Len(s) \in Nat
         /\ Len(Cut(s, i)) = Len(s) - 1
         /\ \A j \in 1..Len(s) - 1 : Cut(s, i)[j] = IF j < i THEN s[j] ELSE s[j + 1]
<1> DEFINE n == Len(s)
           a == SubSeq(s, 1, i - 1)
           b == SubSeq(s, i + 1, n)
<1>1. n \in Nat /\ i \in Nat /\ 1 <= i /\ i <= n /\ \A j \in 1..n : s[j] \in S
  OBVIOUS
<1> HIDE DEF n
<1>2. /\ a \in Seq(S)
      /\ Len(a) = i - 1
      /\ \A j \in 1..i - 1 : a[j] = s[j]
  <2>1. /\ a \in Seq(S)
        /\ Len(a) = IF 1 <= i - 1 THEN i - 1 - 1 + 1 ELSE 0
        /\ \A j \in 1..i - 1 - 1 + 1 : a[j] = s[1 + j - 1]
    BY <1>1, SubSeqProperties
  <2> HIDE DEF a
  <2> QED BY <1>1, <2>1
<1>3. /\ b \in Seq(S)
      /\ Len(b) = n - i
      /\ \A j \in 1..n - i : b[j] = s[i + j]
  <2>1. /\ b \in Seq(S)
        /\ Len(b) = IF i + 1 <= n THEN n - (i + 1) + 1 ELSE 0
        /\ \A j \in 1..n - (i + 1) + 1 : b[j] = s[i + 1 + j - 1]
    BY <1>1, SubSeqProperties
  <2> HIDE DEF b
  <2> QED BY <1>1, <2>1
<1> HIDE DEF a, b
<1>4. /\ a \o b \in Seq(S)
      /\ Len(a \o b) = Len(a) + Len(b)
      /\ \A j \in 1..Len(a) + Len(b) : (a \o b)[j] = IF j <= Len(a) THEN a[j] ELSE b[j - Len(a)]
  BY <1>2, <1>3, ConcatProperties
<1> DEFINE c == a \o b
<1>5. c = Cut(s, i)
  BY DEF a, b, n, Cut
<1> HIDE DEF c
<1>6. Len(c) = n - 1
  BY <1>1, <1>2, <1>3, <1>4 DEF c
<1>7. ASSUME NEW j \in 1..n - 1 PROVE c[j] = IF j < i THEN s[j] ELSE s[j + 1]
  <2>1. c[j] = IF j <= i - 1 THEN a[j] ELSE b[j - (i - 1)]
    BY <1>1, <1>2, <1>3, <1>4 DEF c
  <2>2. CASE j < i
    BY <1>1, <1>2, <2>1, <2>2
  <2>3. CASE ~(j < i)
    <3>1. j - (i - 1) \in 1..n - i /\ i + (j - (i - 1)) = j + 1
      BY <1>1, <2>3
    <3>2. b[j - (i - 1)] = s[i + (j - (i - 1))]
      BY <1>3, <3>1
    <3> QED BY <1>1, <2>1, <2>3, <3>1, <3>2
  <2> QED BY <2>2, <2>3
<1> QED BY <1>1, <1>4, <1>5, <1>6, <1>7 DEF n, c

\* The cardinality that the dispatcher speaks of.
LEMMA SameSets ==
  /\ \A S : Bus!Cardinality(S) = Cardinality(S)
  /\ \A S : Bus!IsFiniteSet(S) <=> IsFiniteSet(S)
BY DEF Bus!Cardinality, Cardinality, Bus!IsFiniteSet, IsFiniteSet

LEMMA ListenersFinite ==
  ASSUME NEW A \in SUBSET Listeners
  PROVE  IsFiniteSet(A) /\ Cardinality(A) \in Nat
<1>1. IsFiniteSet(Listeners)
  BY AuditBusAssumption, SameSets DEF Bus!BusAssumption
<1> QED BY <1>1, FS_Subset, FS_CardinalityType

\* A set that is the other one but for one element has one element more at most.
LEMMA OneMore ==
  ASSUME NEW A \in SUBSET Listeners, NEW B \in SUBSET Listeners
  PROVE  /\ A \subseteq B => Cardinality(A) <= Cardinality(B)
         /\ \A l : A \subseteq B \cup {l} => Cardinality(A) <= Cardinality(B) + 1
<1>1. IsFiniteSet(B) /\ Cardinality(B) \in Nat
  BY ListenersFinite
<1>2. A \subseteq B => Cardinality(A) <= Cardinality(B)
  BY <1>1, FS_Subset
<1>3. ASSUME NEW l, A \subseteq B \cup {l} PROVE Cardinality(A) <= Cardinality(B) + 1
  <2>1. /\ IsFiniteSet(B \cup {l})
        /\ Cardinality(B \cup {l}) = IF l \in B THEN Cardinality(B) ELSE Cardinality(B) + 1
    BY <1>1, FS_AddElement
  <2>2. Cardinality(A) <= Cardinality(B \cup {l})
    BY <1>3, <2>1, FS_Subset
  <2>3. Cardinality(A) \in Nat
    BY ListenersFinite
  <2> QED BY <1>1, <2>1, <2>2, <2>3
<1> QED BY <1>2, <1>3

-------------------------------------------------------------------------------
(* One walk of a list                                                          *)

\* The listeners that stand before the walk's position and were not called.
Skipped(w, s) ==
  {l \in Listeners : /\ \E i \in 1..Len(s) : i <= w.position /\ s[i] = l
                     /\ \A i \in 1..Len(w.called) : w.called[i] # l}

\* How far removals have moved the end of the list back behind the position.
Behind(w, s) == IF w.position > Len(s) THEN w.position - Len(s) ELSE 0

\* Without a removal the walk called what stands before its position; and what it
\* skipped and what it is behind the end are paid for by removals.
FollowsList(w, s) ==
  w.removals = 0 =>
    /\ w.position <= Len(s)
    /\ Len(w.called) = w.position
    /\ \A i \in 1..Len(w.called) : w.called[i] = s[i]

SkipsArePaidFor(w, s) == Cardinality(Skipped(w, s)) + Behind(w, s) <= w.removals

WalkSound(w, s) == FollowsList(w, s) /\ SkipsArePaidFor(w, s)

LEMMA WalkNumbers ==
  ASSUME NEW w \in Bus!Walk, NEW s \in Seq(Listeners)
  PROVE  /\ w.position \in Nat /\ w.removals \in Nat /\ Len(s) \in Nat
         /\ w.called \in Seq(Listeners) /\ Len(w.called) \in Nat
         /\ Skipped(w, s) \in SUBSET Listeners
         /\ Cardinality(Skipped(w, s)) \in Nat
         /\ Behind(w, s) \in Nat
<1>1. /\ w.position \in Nat /\ w.removals \in Nat /\ w.called \in Seq(Listeners)
      /\ Len(s) \in Nat
  BY DEF Bus!Walk
<1>2. Len(w.called) \in Nat
  BY <1>1
<1>3. Skipped(w, s) \in SUBSET Listeners
  BY DEF Skipped
<1>4. Behind(w, s) \in Nat
  BY <1>1 DEF Behind
<1> QED BY <1>1, <1>2, <1>3, <1>4, ListenersFinite

\* A walk begins with nothing skipped.
LEMMA WalkStart ==
  ASSUME NEW s \in Seq(Listeners), NEW F \in SUBSET Listeners
  PROVE  LET w == [position |-> 0, stage |-> "walking", found |-> F, called |-> <<>>,
                   removals |-> 0]
         IN  w \in Bus!Walk /\ WalkSound(w, s)
<1> DEFINE w == [position |-> 0, stage |-> "walking", found |-> F, called |-> <<>>,
                 removals |-> 0]
<1>1. w \in Bus!Walk
  BY DEF Bus!Walk
<1>2. w.position = 0 /\ w.removals = 0 /\ w.called = <<>> /\ Len(w.called) = 0
  OBVIOUS
<1> HIDE DEF w
<1>3. Len(s) \in Nat
  OBVIOUS
<1>4. FollowsList(w, s)
  BY <1>2, <1>3 DEF FollowsList
<1>5. Skipped(w, s) = {}
  BY <1>2 DEF Skipped
<1>6. Cardinality(Skipped(w, s)) = 0
  BY <1>5, FS_EmptySet
<1>7. SkipsArePaidFor(w, s)
  BY <1>2, <1>3, <1>6 DEF SkipsArePaidFor, Behind
<1> QED BY <1>1, <1>4, <1>7 DEF WalkSound, w

\* Only position, calls and removals matter.
LEMMA SameWalk ==
  ASSUME NEW w, NEW v, NEW s, WalkSound(w, s),
         v.position = w.position, v.called = w.called, v.removals = w.removals
  PROVE  WalkSound(v, s)
BY DEF WalkSound, FollowsList, SkipsArePaidFor, Skipped, Behind

\* The next listener is called.
LEMMA WalkCalls ==
  ASSUME NEW w \in Bus!Walk, NEW v \in Bus!Walk, NEW s \in Seq(Listeners), WalkSound(w, s),
         w.position < Len(s),
         v.position = w.position + 1, v.removals = w.removals,
         v.called = Append(w.called, s[w.position + 1])
  PROVE  WalkSound(v, s)
<1> DEFINE p == w.position
           n == Len(w.called)
<1>1. /\ p \in Nat /\ Len(s) \in Nat /\ n \in Nat /\ w.removals \in Nat
      /\ w.called \in Seq(Listeners)
  BY WalkNumbers
<1>2. s[p + 1] \in Listeners
  BY <1>1
<1>3. /\ Len(v.called) = n + 1
      /\ v.called[n + 1] = s[p + 1]
      /\ \A i \in 1..n : v.called[i] = w.called[i]
  BY <1>1, <1>2, StackPush
<1>4. FollowsList(v, s)
  <2> SUFFICES ASSUME w.removals = 0
               PROVE  /\ p + 1 <= Len(s)
                      /\ n + 1 = p + 1
                      /\ \A i \in 1..n + 1 : v.called[i] = s[i]
    BY <1>3 DEF FollowsList
  <2>1. n = p /\ \A i \in 1..n : w.called[i] = s[i]
    BY DEF WalkSound, FollowsList
  <2>2. ASSUME NEW i \in 1..n + 1 PROVE v.called[i] = s[i]
    <3>1. i \in 1..n \/ i = n + 1
      BY <1>1
    <3> QED BY <1>3, <2>1, <3>1
  <2> QED BY <1>1, <2>1, <2>2
<1>5. Skipped(v, s) \subseteq Skipped(w, s)
  <2> SUFFICES ASSUME NEW l \in Skipped(v, s) PROVE l \in Skipped(w, s)
    OBVIOUS
  <2>1. PICK i \in 1..Len(s) : i <= p + 1 /\ s[i] = l
    BY DEF Skipped
  <2>2. l \in Listeners /\ \A j \in 1..Len(v.called) : v.called[j] # l
    BY DEF Skipped
  <2>3. n + 1 \in 1..Len(v.called) /\ 1..n \subseteq 1..Len(v.called)
    BY <1>1, <1>3
  <2>4. i # p + 1
    BY <1>3, <2>1, <2>2, <2>3
  <2>5. i <= p
    BY <1>1, <2>1, <2>4
  <2>6. \A j \in 1..n : w.called[j] # l
    BY <1>3, <2>2, <2>3
  <2> QED BY <2>1, <2>2, <2>5, <2>6 DEF Skipped
<1>6. Behind(v, s) = 0 /\ Behind(w, s) = 0
  BY <1>1 DEF Behind
<1>7. Cardinality(Skipped(v, s)) <= Cardinality(Skipped(w, s))
  BY <1>5, WalkNumbers, OneMore
<1>8. SkipsArePaidFor(v, s)
  <2>1. /\ Cardinality(Skipped(v, s)) \in Nat
        /\ Cardinality(Skipped(w, s)) \in Nat
        /\ Cardinality(Skipped(w, s)) + Behind(w, s) <= w.removals
    BY WalkNumbers DEF WalkSound, SkipsArePaidFor
  <2> QED BY <1>1, <1>6, <1>7, <2>1 DEF SkipsArePaidFor
<1> QED BY <1>4, <1>8 DEF WalkSound

\* A listener is added at the end: it is passed only by a walk behind the end.
LEMMA WalkGrows ==
  ASSUME NEW w \in Bus!Walk, NEW s \in Seq(Listeners), NEW l \in Listeners, WalkSound(w, s)
  PROVE  WalkSound(w, Append(s, l))
<1> DEFINE a == Append(s, l)
           p == w.position
<1>1. /\ p \in Nat /\ Len(s) \in Nat /\ w.removals \in Nat /\ Len(w.called) \in Nat
      /\ Cardinality(Skipped(w, s)) \in Nat /\ Behind(w, s) \in Nat
  BY WalkNumbers
<1>2. /\ a \in Seq(Listeners)
      /\ Len(a) = Len(s) + 1
      /\ a[Len(s) + 1] = l
      /\ \A i \in 1..Len(s) : a[i] = s[i]
  BY StackPush
<1> HIDE DEF a
<1>3. Cardinality(Skipped(w, a)) \in Nat
  BY <1>2, WalkNumbers
<1>4. FollowsList(w, a)
  <2> SUFFICES ASSUME w.removals = 0
               PROVE  /\ p <= Len(a)
                      /\ Len(w.called) = p
                      /\ \A i \in 1..Len(w.called) : w.called[i] = a[i]
    BY DEF FollowsList
  <2>1. /\ p <= Len(s)
        /\ Len(w.called) = p
        /\ \A i \in 1..Len(w.called) : w.called[i] = s[i]
    BY DEF WalkSound, FollowsList
  <2> QED BY <1>1, <1>2, <2>1
<1>5. \A i \in 1..Len(a) : i \in 1..Len(s) \/ i = Len(s) + 1
  BY <1>1, <1>2
<1>6. ASSUME p <= Len(s) PROVE WalkSound(w, a)
  <2>1. Skipped(w, a) \subseteq Skipped(w, s)
    BY <1>1, <1>2, <1>5, <1>6 DEF Skipped
  <2>2. Cardinality(Skipped(w, a)) <= Cardinality(Skipped(w, s))
    BY <1>2, <2>1, WalkNumbers, OneMore
  <2>3. Behind(w, a) = 0 /\ Behind(w, s) = 0
    BY <1>1, <1>2, <1>6 DEF Behind
  <2>4. Cardinality(Skipped(w, s)) + Behind(w, s) <= w.removals
    BY DEF WalkSound, SkipsArePaidFor
  <2>5. SkipsArePaidFor(w, a)
    BY <1>1, <1>3, <2>2, <2>3, <2>4 DEF SkipsArePaidFor
  <2> QED BY <1>4, <2>5 DEF WalkSound
<1>7. ASSUME ~(p <= Len(s)) PROVE WalkSound(w, a)
  <2>1. Skipped(w, a) \subseteq Skipped(w, s) \cup {l}
    BY <1>2, <1>5 DEF Skipped
  <2>2. Cardinality(Skipped(w, a)) <= Cardinality(Skipped(w, s)) + 1
    BY <1>2, <2>1, WalkNumbers, OneMore
  <2>3. Behind(w, a) + 1 = Behind(w, s) /\ Behind(w, a) \in Nat
    BY <1>1, <1>2, <1>7 DEF Behind
  <2>4. Cardinality(Skipped(w, s)) + Behind(w, s) <= w.removals
    BY DEF WalkSound, SkipsArePaidFor
  <2>5. SkipsArePaidFor(w, a)
    BY <1>1, <1>3, <2>2, <2>3, <2>4 DEF SkipsArePaidFor
  <2> QED BY <1>4, <2>5 DEF WalkSound
<1> QED BY <1>6, <1>7 DEF a

\* An entry is removed: one listener moves up past the position, or the walk gets
\* one further behind the end.
LEMMA WalkShrinks ==
  ASSUME NEW w \in Bus!Walk, NEW v \in Bus!Walk, NEW s \in Seq(Listeners),
         NEW i \in 1..Len(s), WalkSound(w, s),
         v.position = w.position, v.called = w.called, v.removals = w.removals + 1
  PROVE  WalkSound(v, Cut(s, i))
<1> DEFINE r == Cut(s, i)
           p == w.position
<1>1. /\ p \in Nat /\ Len(s) \in Nat /\ w.removals \in Nat /\ Len(w.called) \in Nat
      /\ Cardinality(Skipped(w, s)) \in Nat /\ Behind(w, s) \in Nat
      /\ i \in Nat /\ 1 <= i /\ i <= Len(s)
  BY WalkNumbers
<1>2. /\ r \in Seq(Listeners)
      /\ Len(r) = Len(s) - 1
      /\ \A j \in 1..Len(s) - 1 : r[j] = IF j < i THEN s[j] ELSE s[j + 1]
  BY CutProperties
<1> HIDE DEF r
<1>3. Cardinality(Skipped(v, r)) \in Nat
  BY <1>2, WalkNumbers
<1>4. FollowsList(v, r)
  BY <1>1 DEF FollowsList
<1>5. Skipped(v, r) \subseteq Skipped(w, s) \cup (IF p < Len(s) THEN {s[p + 1]} ELSE {})
  <2> SUFFICES ASSUME NEW l \in Skipped(v, r), l \notin Skipped(w, s)
               PROVE  p < Len(s) /\ l = s[p + 1]
    OBVIOUS
  <2>1. PICK j \in 1..Len(r) : j <= p /\ r[j] = l
    BY DEF Skipped
  <2>2. \A k \in 1..Len(s) : k <= p => s[k] # l
    BY DEF Skipped
  <2>3. j \in 1..Len(s) - 1 /\ j \in 1..Len(s) /\ j + 1 \in 1..Len(s)
    BY <1>1, <1>2
  <2>4. r[j] = s[j] \/ r[j] = s[j + 1]
    BY <1>2, <2>3
  <2>5. s[j] # l
    BY <2>1, <2>2, <2>3
  <2>6. s[j + 1] = l /\ ~(j + 1 <= p)
    BY <2>1, <2>2, <2>3, <2>4, <2>5
  <2>7. j = p
    BY <1>1, <2>1, <2>3, <2>6
  <2> QED BY <1>1, <2>3, <2>6, <2>7
<1>6. ASSUME p < Len(s) PROVE WalkSound(v, r)
  <2>1. Cardinality(Skipped(v, r)) <= Cardinality(Skipped(w, s)) + 1
    BY <1>2, <1>5, <1>6, WalkNumbers, OneMore
  <2>2. Behind(v, r) = 0 /\ Behind(w, s) = 0
    BY <1>1, <1>2, <1>6 DEF Behind
  <2>3. Cardinality(Skipped(w, s)) + Behind(w, s) <= w.removals
    BY DEF WalkSound, SkipsArePaidFor
  <2>4. SkipsArePaidFor(v, r)
    BY <1>1, <1>3, <2>1, <2>2, <2>3 DEF SkipsArePaidFor
  <2> QED BY <1>4, <2>4 DEF WalkSound
<1>7. ASSUME ~(p < Len(s)) PROVE WalkSound(v, r)
  <2>1. Cardinality(Skipped(v, r)) <= Cardinality(Skipped(w, s))
    BY <1>2, <1>5, <1>7, WalkNumbers, OneMore
  <2>2. Behind(v, r) = Behind(w, s) + 1
    BY <1>1, <1>2, <1>7 DEF Behind
  <2>3. Cardinality(Skipped(w, s)) + Behind(w, s) <= w.removals
    BY DEF WalkSound, SkipsArePaidFor
  <2>4. SkipsArePaidFor(v, r)
    BY <1>1, <1>3, <2>1, <2>2, <2>3 DEF SkipsArePaidFor
  <2> QED BY <1>4, <2>4 DEF WalkSound
<1> QED BY <1>6, <1>7 DEF r

-------------------------------------------------------------------------------
(* The dispatcher                                                              *)

\* Every publication in progress is a sound walk of the list.
BusInv ==
  /\ Bus!TypeOK
  /\ \A k \in 1..Len(walks) : WalkSound(walks[k], listeners)

LEMMA BusInit == Bus!Init => BusInv
BY DEF Bus!Init, BusInv, Bus!TypeOK

LEMMA SubscribeInv ==
  ASSUME BusInv, NEW l \in Listeners, Bus!Subscribe(l)
  PROVE  BusInv'
<1>1. listeners' = Append(listeners, l) /\ walks' = walks
  BY DEF Bus!Subscribe, Bus!With
<1>2. listeners \in Seq(Listeners) /\ walks \in Seq(Bus!Walk)
  BY DEF BusInv, Bus!TypeOK
<1>3. ASSUME NEW k \in 1..Len(walks) PROVE WalkSound(walks[k], listeners')
  <2>1. walks[k] \in Bus!Walk
    BY <1>2
  <2>2. WalkSound(walks[k], listeners)
    BY DEF BusInv
  <2> QED BY <1>1, <1>2, <2>1, <2>2, WalkGrows
<1>4. listeners' \in Seq(Listeners)
  BY <1>1, <1>2
<1> QED BY <1>1, <1>2, <1>3, <1>4 DEF BusInv, Bus!TypeOK

LEMMA UnsubscribeInv ==
  ASSUME BusInv, NEW l \in Listeners, Bus!Unsubscribe(l)
  PROVE  BusInv'
<1> DEFINE Fewer(k) == [walks[k] EXCEPT !.removals = @ + 1]
<1>1. PICK i \in 1..Len(listeners) : listeners' = Cut(listeners, i)
  BY DEF Bus!Unsubscribe, Cut
<1>2. walks' = [k \in 1..Len(walks) |-> Fewer(k)]
  BY DEF Bus!Unsubscribe
<1>3. listeners \in Seq(Listeners) /\ walks \in Seq(Bus!Walk) /\ Len(walks) \in Nat
  BY DEF BusInv, Bus!TypeOK
<1>4. ASSUME NEW k \in 1..Len(walks)
      PROVE  Fewer(k) \in Bus!Walk /\ WalkSound(Fewer(k), listeners')
  <2>1. walks[k] \in Bus!Walk
    BY <1>3
  <2>2. /\ Fewer(k) \in Bus!Walk
        /\ Fewer(k).position = walks[k].position
        /\ Fewer(k).called = walks[k].called
        /\ Fewer(k).removals = walks[k].removals + 1
    BY <2>1 DEF Bus!Walk
  <2>3. WalkSound(walks[k], listeners)
    BY DEF BusInv
  <2> HIDE DEF Fewer
  <2> QED BY <1>1, <1>3, <2>1, <2>2, <2>3, WalkShrinks
<1> HIDE DEF Fewer
<1>5. /\ walks' \in Seq(Bus!Walk)
      /\ Len(walks') = Len(walks)
      /\ \A k \in 1..Len(walks) : walks'[k] = Fewer(k)
  BY <1>2, <1>3, <1>4
<1>6. listeners' \in Seq(Listeners)
  BY <1>1, <1>3, CutProperties
<1> QED BY <1>4, <1>5, <1>6 DEF BusInv, Bus!TypeOK

LEMMA PublishInv ==
  ASSUME BusInv, Bus!Publish
  PROVE  BusInv'
<1> DEFINE w == [position |-> 0, stage |-> "walking", found |-> Bus!Elements(listeners),
                 called |-> <<>>, removals |-> 0]
<1>1. walks' = Append(walks, w) /\ listeners' = listeners
  BY DEF Bus!Publish
<1>2. listeners \in Seq(Listeners) /\ walks \in Seq(Bus!Walk)
  BY DEF BusInv, Bus!TypeOK
<1>3. Bus!Elements(listeners) \in SUBSET Listeners
  BY <1>2 DEF Bus!Elements
<1>4. w \in Bus!Walk /\ WalkSound(w, listeners)
  BY <1>2, <1>3, WalkStart
<1> HIDE DEF w
<1>5. /\ walks' \in Seq(Bus!Walk)
      /\ Len(walks) \in Nat
      /\ Len(walks') = Len(walks) + 1
      /\ walks'[Len(walks) + 1] = w
      /\ \A k \in 1..Len(walks) : walks'[k] = walks[k]
  BY <1>1, <1>2, <1>4, StackPush
<1>6. ASSUME NEW k \in 1..Len(walks') PROVE WalkSound(walks'[k], listeners)
  <2>1. k \in 1..Len(walks) \/ k = Len(walks) + 1
    BY <1>5
  <2> QED BY <1>4, <1>5, <2>1 DEF BusInv
<1> QED BY <1>1, <1>2, <1>5, <1>6 DEF BusInv, Bus!TypeOK

\* The innermost publication goes on as the walk w.
LEMMA TopInv ==
  ASSUME BusInv, walks # <<>>, NEW w \in Bus!Walk, WalkSound(w, listeners),
         walks' = [walks EXCEPT ![Len(walks)] = w], listeners' = listeners
  PROVE  BusInv'
<1>1. walks \in Seq(Bus!Walk) /\ Len(walks) \in Nat
  BY DEF BusInv, Bus!TypeOK
<1>2. /\ walks' \in Seq(Bus!Walk)
      /\ Len(walks') = Len(walks)
      /\ walks'[Len(walks)] = w
      /\ \A k \in 1..Len(walks) - 1 : walks'[k] = walks[k]
  BY <1>1, StackReplace
<1>3. ASSUME NEW k \in 1..Len(walks') PROVE WalkSound(walks'[k], listeners)
  <2>1. k \in 1..Len(walks) - 1 \/ k = Len(walks)
    <3>1. Len(walks) \in Nat /\ k \in 1..Len(walks)
      BY <1>1, <1>2
    <3> QED BY <3>1
  <2>2. k \in 1..Len(walks) /\ WalkSound(walks[k], listeners)
    BY <1>2 DEF BusInv
  <2> QED BY <1>2, <2>1, <2>2
<1> QED BY <1>2, <1>3 DEF BusInv, Bus!TypeOK

LEMMA CallListenerInv ==
  ASSUME BusInv, Bus!CallListener
  PROVE  BusInv'
<1> DEFINE top == walks[Len(walks)]
           p == top.position + 1
           calls == Append(top.called, listeners[p])
           w == [top EXCEPT !.position = p, !.stage = "listener", !.called = calls]
<1>1. walks # <<>> /\ top.position < Len(listeners) /\ listeners' = listeners
  BY DEF Bus!CallListener, Bus!InWalk, Bus!Top
<1>2. listeners \in Seq(Listeners) /\ walks \in Seq(Bus!Walk)
  BY DEF BusInv, Bus!TypeOK
<1>3. Len(walks) \in 1..Len(walks) /\ top \in Bus!Walk
  BY <1>1, <1>2, StackTop
<1>4. walks' = [walks EXCEPT ![Len(walks)] = w]
  BY DEF Bus!CallListener, Bus!Top, Bus!Advance
<1>5. p \in 1..Len(listeners) /\ calls \in Seq(Listeners) /\ p \in Nat
  <2>1. top.position \in Nat /\ top.called \in Seq(Listeners) /\ Len(listeners) \in Nat
    BY <1>2, <1>3, WalkNumbers
  <2>2. p \in 1..Len(listeners) /\ p \in Nat
    BY <1>1, <2>1
  <2>3. listeners[p] \in Listeners
    BY <1>2, <2>2
  <2> QED BY <2>1, <2>2, <2>3, StackPush
<1>6. WalkSound(top, listeners)
  BY <1>3 DEF BusInv
<1>7. /\ w \in Bus!Walk
      /\ w.position = top.position + 1
      /\ w.removals = top.removals
      /\ w.called = Append(top.called, listeners[top.position + 1])
  <2>1. /\ w.position = p /\ w.removals = top.removals /\ w.called = calls
        /\ w \in Bus!Walk
    <3> HIDE DEF top, p, calls
    <3> QED BY <1>3, <1>5 DEF Bus!Walk
  <2> QED BY <2>1
<1> HIDE DEF top, w
<1>8. WalkSound(w, listeners)
  BY <1>1, <1>2, <1>3, <1>6, <1>7, WalkCalls
<1> QED BY <1>1, <1>4, <1>7, <1>8, TopInv

LEMMA ListenerReturnsInv ==
  ASSUME BusInv, Bus!ListenerReturns
  PROVE  BusInv'
<1> DEFINE top == walks[Len(walks)]
           w == [top EXCEPT !.stage = "walking"]
<1>1. walks \in Seq(Bus!Walk)
  BY DEF BusInv, Bus!TypeOK
<1>2. /\ walks # <<>>
      /\ listeners' = listeners
  BY DEF Bus!ListenerReturns, Bus!InWalk
<1>3. Len(walks) \in 1..Len(walks) /\ top \in Bus!Walk
  BY <1>1, <1>2, StackTop
<1>4. walks' = [walks EXCEPT ![Len(walks)] = w]
  BY <1>3 DEF Bus!ListenerReturns
<1>5. /\ w \in Bus!Walk
      /\ w.position = top.position /\ w.called = top.called /\ w.removals = top.removals
  BY <1>3 DEF Bus!Walk
<1>6. WalkSound(top, listeners)
  BY <1>3 DEF BusInv
<1> HIDE DEF top, w
<1>7. WalkSound(w, listeners)
  BY <1>5, <1>6, SameWalk
<1> QED BY <1>2, <1>4, <1>5, <1>7, TopInv

LEMMA LeaveInv ==
  ASSUME BusInv, walks # <<>>, Bus!Leave, listeners' = listeners
  PROVE  BusInv'
<1>1. walks \in Seq(Bus!Walk) /\ Len(walks) \in Nat
  BY DEF BusInv, Bus!TypeOK
<1>2. /\ walks' \in Seq(Bus!Walk)
      /\ Len(walks') = Len(walks) - 1
      /\ \A k \in 1..Len(walks') : walks'[k] = walks[k]
  BY <1>1, StackPop DEF Bus!Leave
<1>3. 1..Len(walks') \subseteq 1..Len(walks)
  BY <1>1, <1>2
<1> QED BY <1>2, <1>3 DEF BusInv, Bus!TypeOK

\* The dispatcher's part of every step.
LEMMA BusStepInv ==
  ASSUME BusInv, [Next]_vars
  PROVE  BusInv'
<1>1. ASSUME NEW d \in Details, RecordEvent(d) PROVE BusInv'
  BY <1>1, PublishInv DEF RecordEvent
<1>2. ASSUME UNCHANGED busVars PROVE BusInv'
  BY <1>2 DEF busVars, BusInv, Bus!TypeOK
<1>3. ASSUME NEW l \in Listeners, Bus!Subscribe(l) PROVE BusInv'
  BY <1>3, SubscribeInv
<1>4. ASSUME NEW l \in Listeners, Bus!Unsubscribe(l) PROVE BusInv'
  BY <1>4, UnsubscribeInv
<1>5. ASSUME Bus!ListenerRaises \/ Bus!PublishReturns PROVE BusInv'
  BY <1>5, LeaveInv DEF Bus!ListenerRaises, Bus!PublishReturns, Bus!InWalk
<1> QED BY <1>1, <1>2, <1>3, <1>4, <1>5, CallListenerInv, ListenerReturnsInv
        DEF Next, ClearTrail, TamperTrail, BusStep, vars

\* What the invariant says of the calls made and missed.
LEMMA BusConsequences ==
  ASSUME BusInv
  PROVE  CallsFollowTheList /\ MissesAtMostRemovals
<1>1. listeners \in Seq(Listeners) /\ walks \in Seq(Bus!Walk)
  BY DEF BusInv, Bus!TypeOK
<1>2. ASSUME NEW k \in 1..Len(walks)
      PROVE  walks[k] \in Bus!Walk /\ WalkSound(walks[k], listeners)
  BY <1>1 DEF BusInv
<1>3. ASSUME NEW k \in 1..Len(walks), walks[k].removals = 0
      PROVE  walks[k].called = SubSeq(listeners, 1, walks[k].position)
  <2> DEFINE w == walks[k]
             p == w.position
             sub == SubSeq(listeners, 1, p)
  <2>1. /\ p \in Nat /\ w.called \in Seq(Listeners) /\ Len(listeners) \in Nat
    BY <1>1, <1>2, WalkNumbers
  <2>2. /\ p <= Len(listeners)
        /\ Len(w.called) = p
        /\ \A i \in 1..Len(w.called) : w.called[i] = listeners[i]
    BY <1>2, <1>3 DEF WalkSound, FollowsList
  <2>3. \A i \in 1..p : listeners[i] \in Listeners
    BY <1>1, <2>1, <2>2
  <2> HIDE DEF w, p
  <2>4. /\ sub \in Seq(Listeners)
        /\ Len(sub) = IF 1 <= p THEN p - 1 + 1 ELSE 0
        /\ \A i \in 1..p - 1 + 1 : sub[i] = listeners[1 + i - 1]
    BY <2>1, <2>3, SubSeqProperties
  <2> HIDE DEF sub
  <2>5. Len(sub) = p /\ \A i \in 1..p : sub[i] = listeners[i]
    BY <2>1, <2>4
  <2>6. w.called = sub
    BY <2>1, <2>2, <2>4, <2>5, SeqEqual
  <2> QED BY <2>6 DEF w, p, sub
<1>4. ASSUME NEW k \in 1..Len(walks), Bus!AtEnd(walks[k])
      PROVE  Bus!Cardinality(Bus!Missed(walks[k])) <= walks[k].removals
  <2> DEFINE w == walks[k]
  <2>1. /\ w \in Bus!Walk /\ WalkSound(w, listeners) /\ w.position >= Len(listeners)
    BY <1>2, <1>4 DEF Bus!AtEnd
  <2>2. /\ w.position \in Nat /\ Len(listeners) \in Nat /\ w.removals \in Nat
        /\ Cardinality(Skipped(w, listeners)) \in Nat /\ Behind(w, listeners) \in Nat
        /\ Skipped(w, listeners) \in SUBSET Listeners
    BY <1>1, <2>1, WalkNumbers
  <2> HIDE DEF w
  <2>3. Bus!Missed(w) \subseteq Skipped(w, listeners)
    <3> SUFFICES ASSUME NEW l \in Bus!Missed(w) PROVE l \in Skipped(w, listeners)
      OBVIOUS
    <3>1. PICK i \in 1..Len(listeners) : listeners[i] = l
      BY DEF Bus!Missed, Bus!Elements
    <3>2. l \in Listeners
      BY <1>1, <3>1
    <3>3. \A j \in 1..Len(w.called) : w.called[j] # l
      BY DEF Bus!Missed, Bus!Elements
    <3>4. i <= w.position
      BY <2>1, <2>2
    <3> QED BY <3>1, <3>2, <3>3, <3>4 DEF Skipped
  <2>4. Bus!Missed(w) \in SUBSET Listeners
    BY <2>2, <2>3
  <2>5. /\ Cardinality(Bus!Missed(w)) <= Cardinality(Skipped(w, listeners))
        /\ Cardinality(Bus!Missed(w)) \in Nat
    BY <2>2, <2>3, <2>4, OneMore, ListenersFinite
  <2>6. Cardinality(Skipped(w, listeners)) + Behind(w, listeners) <= w.removals
    BY <2>1 DEF WalkSound, SkipsArePaidFor
  <2>7. Cardinality(Bus!Missed(w)) <= w.removals
    BY <2>2, <2>5, <2>6
  <2> QED BY <2>7, SameSets DEF w
<1> QED BY <1>3, <1>4 DEF CallsFollowTheList, MissesAtMostRemovals, Bus!CallsFollowTheList,
                          Bus!MissesAtMostRemovals

-------------------------------------------------------------------------------
(* The audit trail                                                             *)

TrailRecord == [content : Trail!Content, previous : Seq(Trail!Content), hash : Seq(Trail!Content)]

\* h is the first n contents of what was recorded.
PrefixOf(h, s, n) == Len(h) = n /\ \A j \in 1..n : h[j] = s[j]

\* A record was chained at the place that its serial number tells, whatever has
\* become of its details and of its place in the list.
RecordSound(r, s) ==
  /\ r.content.serial \in 1..Len(s)
  /\ PrefixOf(r.hash, s, r.content.serial)
  /\ PrefixOf(r.previous, s, r.content.serial - 1)

TrailInv ==
  /\ recorded \in Seq(Trail!Content)
  /\ lastHash = recorded
  /\ auditRecords \in Seq(TrailRecord)
  /\ \A j \in 1..Len(recorded) : recorded[j].serial = j
  /\ \A i \in 1..Len(auditRecords) : RecordSound(auditRecords[i], recorded)

LEMMA TrailInit == Trail!Init => TrailInv
BY DEF Trail!Init, Trail!Genesis, TrailInv

LEMMA RecordInv ==
  ASSUME TrailInv, NEW d \in Details, Trail!Record(d)
  PROVE  TrailInv'
<1> DEFINE n == Len(recorded)
           c == [serial |-> n + 1, details |-> d]
           r == [content |-> c, previous |-> recorded, hash |-> Append(recorded, c)]
<1>1. recorded \in Seq(Trail!Content) /\ auditRecords \in Seq(TrailRecord) /\ n \in Nat
  BY DEF TrailInv
<1>2. /\ recorded' = Append(recorded, c)
      /\ lastHash' = Append(recorded, c)
      /\ auditRecords' = Append(auditRecords, r)
  BY DEF TrailInv, Trail!Record, Trail!Chained, Trail!Hash, Trail!Previous
<1>3. c \in Trail!Content /\ c.serial = n + 1
  BY <1>1 DEF Trail!Content
<1> HIDE DEF c
<1>4. /\ recorded' \in Seq(Trail!Content)
      /\ Len(recorded') = n + 1
      /\ recorded'[n + 1] = c
      /\ \A j \in 1..n : recorded'[j] = recorded[j]
  BY <1>1, <1>2, <1>3, StackPush
<1>5. /\ r \in TrailRecord
      /\ r.content = c /\ r.previous = recorded /\ r.hash = recorded'
  <2>1. Append(recorded, c) \in Seq(Trail!Content)
    BY <1>2, <1>4
  <2> QED BY <1>1, <1>2, <1>3, <2>1 DEF TrailRecord
<1> HIDE DEF r
<1>6. /\ auditRecords' \in Seq(TrailRecord)
      /\ Len(auditRecords) \in Nat
      /\ Len(auditRecords') = Len(auditRecords) + 1
      /\ auditRecords'[Len(auditRecords) + 1] = r
      /\ \A i \in 1..Len(auditRecords) : auditRecords'[i] = auditRecords[i]
  BY <1>1, <1>2, <1>5, StackPush
<1>7. ASSUME NEW j \in 1..Len(recorded') PROVE recorded'[j].serial = j
  <2>1. j \in 1..n \/ j = n + 1
    BY <1>1, <1>4
  <2> QED BY <1>3, <1>4, <2>1 DEF TrailInv
<1>8. ASSUME NEW i \in 1..Len(auditRecords) PROVE RecordSound(auditRecords[i], recorded')
  <2> DEFINE a == auditRecords[i]
             k == a.content.serial
  <2>1. /\ k \in 1..n
        /\ Len(a.hash) = k /\ \A j \in 1..k : a.hash[j] = recorded[j]
        /\ Len(a.previous) = k - 1 /\ \A j \in 1..k - 1 : a.previous[j] = recorded[j]
    BY DEF TrailInv, RecordSound, PrefixOf
  <2> HIDE DEF a
  <2>2. k \in 1..Len(recorded') /\ 1..k \subseteq 1..n /\ 1..k - 1 \subseteq 1..n
    BY <1>1, <1>4, <2>1
  <2>3. RecordSound(a, recorded')
    BY <1>4, <2>1, <2>2 DEF RecordSound, PrefixOf
  <2> QED BY <2>3 DEF a
<1>9. RecordSound(r, recorded')
  <2>1. n + 1 \in 1..Len(recorded') /\ n + 1 - 1 = n /\ c.serial = n + 1
    BY <1>1, <1>3, <1>4
  <2>2. PrefixOf(recorded', recorded', n + 1) /\ PrefixOf(recorded, recorded', n)
    BY <1>1, <1>4 DEF PrefixOf
  <2> QED BY <1>5, <2>1, <2>2 DEF RecordSound
<1>10. ASSUME NEW i \in 1..Len(auditRecords') PROVE RecordSound(auditRecords'[i], recorded')
  <2>1. i \in 1..Len(auditRecords) \/ i = Len(auditRecords) + 1
    <3>1. Len(auditRecords) \in Nat /\ i \in 1..Len(auditRecords) + 1
      BY <1>6
    <3> QED BY <3>1
  <2> QED BY <1>6, <1>8, <1>9, <2>1
<1> QED BY <1>2, <1>4, <1>6, <1>7, <1>10 DEF TrailInv

\* Others may exchange the records for any others that were chained: sound ones.
LEMMA ExchangeInv ==
  ASSUME TrailInv, auditRecords' \in Seq(TrailRecord), UNCHANGED <<lastHash, recorded>>,
         \A i \in 1..Len(auditRecords') : RecordSound(auditRecords'[i], recorded)
  PROVE  TrailInv'
BY DEF TrailInv

LEMMA ChangeInv ==
  ASSUME TrailInv, NEW i \in 1..Len(auditRecords), NEW d \in Details, Trail!ChangeDetails(i, d)
  PROVE  TrailInv'
<1> DEFINE a == auditRecords[i]
           c == [a.content EXCEPT !.details = d]
           r == [a EXCEPT !.content = c]
<1>1. auditRecords \in Seq(TrailRecord) /\ a \in TrailRecord
  BY DEF TrailInv
<1>2. auditRecords' = [auditRecords EXCEPT ![i] = r] /\ UNCHANGED <<lastHash, recorded>>
  BY <1>1 DEF Trail!ChangeDetails
<1>3. c \in Trail!Content /\ c.serial = a.content.serial
  BY <1>1 DEF TrailRecord, Trail!Content
<1> HIDE DEF c
<1>4. /\ r \in TrailRecord
      /\ r.content = c /\ r.previous = a.previous /\ r.hash = a.hash
  BY <1>1, <1>3 DEF TrailRecord
<1>5. RecordSound(a, recorded)
  BY DEF TrailInv
<1> HIDE DEF a, r
<1>6. RecordSound(r, recorded)
  BY <1>3, <1>4, <1>5 DEF RecordSound
<1>7. /\ auditRecords' \in Seq(TrailRecord)
      /\ Len(auditRecords') = Len(auditRecords)
      /\ \A j \in 1..Len(auditRecords) : auditRecords'[j] = IF j = i THEN r ELSE auditRecords[j]
  BY <1>1, <1>2, <1>4, ExceptSeq
<1> QED BY <1>2, <1>6, <1>7, ExchangeInv DEF TrailInv

LEMMA RemoveInv ==
  ASSUME TrailInv, NEW i \in 1..Len(auditRecords), Trail!Remove(i)
  PROVE  TrailInv'
<1>1. auditRecords \in Seq(TrailRecord)
  BY DEF TrailInv
<1>2. auditRecords' = Cut(auditRecords, i) /\ UNCHANGED <<lastHash, recorded>>
  BY DEF Trail!Remove, Cut
<1>3. /\ auditRecords' \in Seq(TrailRecord)
      /\ Len(auditRecords) \in Nat
      /\ Len(auditRecords') = Len(auditRecords) - 1
      /\ \A j \in 1..Len(auditRecords) - 1 :
           auditRecords'[j] = IF j < i THEN auditRecords[j] ELSE auditRecords[j + 1]
  BY <1>1, <1>2, CutProperties
<1>4. ASSUME NEW j \in 1..Len(auditRecords') PROVE RecordSound(auditRecords'[j], recorded)
  <2>1. /\ j \in 1..Len(auditRecords) - 1
        /\ j \in 1..Len(auditRecords) /\ j + 1 \in 1..Len(auditRecords)
    BY <1>3
  <2> QED BY <1>3, <2>1 DEF TrailInv
<1> QED BY <1>2, <1>3, <1>4, ExchangeInv

LEMMA SwapInv ==
  ASSUME TrailInv, NEW i \in 1..Len(auditRecords), Trail!Swap(i)
  PROVE  TrailInv'
<1> DEFINE a == auditRecords[i]
           b == auditRecords[i + 1]
           n == Len(auditRecords)
<1>1. auditRecords \in Seq(TrailRecord) /\ n \in Nat
  BY DEF TrailInv
<1>2. /\ auditRecords' = [auditRecords EXCEPT ![i] = b, ![i + 1] = a]
      /\ i + 1 \in 1..n
      /\ UNCHANGED <<lastHash, recorded>>
  BY <1>1 DEF Trail!Swap
<1>3. a \in TrailRecord /\ b \in TrailRecord /\ RecordSound(a, recorded) /\ RecordSound(b, recorded)
  BY <1>1, <1>2 DEF TrailInv
<1> HIDE DEF a, b
<1> DEFINE half == [auditRecords EXCEPT ![i] = b]
<1>4. /\ half \in Seq(TrailRecord)
      /\ Len(half) = n
      /\ \A j \in 1..n : half[j] = IF j = i THEN b ELSE auditRecords[j]
  BY <1>1, <1>3, ExceptSeq
<1>5. auditRecords' = [half EXCEPT ![i + 1] = a]
  BY <1>2
<1> HIDE DEF half
<1>6. /\ auditRecords' \in Seq(TrailRecord)
      /\ Len(auditRecords') = n
      /\ \A j \in 1..n : auditRecords'[j] = IF j = i + 1 THEN a ELSE half[j]
  <2>1. i + 1 \in 1..Len(half)
    BY <1>2, <1>4
  <2>2. \A j \in 1..Len(half) : [half EXCEPT ![i + 1] = a][j] = IF j = i + 1 THEN a ELSE half[j]
    BY <1>3, <1>4, <2>1, ExceptSeq
  <2>3. /\ [half EXCEPT ![i + 1] = a] \in Seq(TrailRecord)
        /\ Len([half EXCEPT ![i + 1] = a]) = Len(half)
    BY <1>3, <1>4, <2>1, ExceptSeq
  <2> QED BY <1>4, <1>5, <2>2, <2>3
<1>7. \A j \in 1..n : RecordSound(auditRecords'[j], recorded)
  BY <1>3, <1>4, <1>6 DEF TrailInv
<1> QED BY <1>2, <1>6, <1>7, ExchangeInv

\* The trail's part of every step.
LEMMA TrailStepInv ==
  ASSUME TrailInv, [Next]_vars
  PROVE  TrailInv'
<1>1. ASSUME NEW d \in Details, RecordEvent(d) PROVE TrailInv'
  BY <1>1, RecordInv DEF RecordEvent
<1>2. ASSUME ClearTrail PROVE TrailInv'
  BY <1>2 DEF ClearTrail, Trail!Clear, Trail!Genesis, TrailInv
<1>3. ASSUME TamperTrail PROVE TrailInv'
  BY <1>3, ChangeInv, RemoveInv, SwapInv DEF TamperTrail, Trail!Tamper
<1>4. ASSUME UNCHANGED trailVars PROVE TrailInv'
  BY <1>4 DEF trailVars, TrailInv
<1> QED BY <1>1, <1>2, <1>3, <1>4 DEF Next, BusStep, vars

\* Sequences of the same length that begin alike are the same.
LEMMA SamePrefix ==
  ASSUME NEW g \in Seq(Trail!Content), NEW h \in Seq(Trail!Content), NEW s, NEW n \in Nat,
         PrefixOf(g, s, n), PrefixOf(h, s, n)
  PROVE  g = h
BY SeqEqual DEF PrefixOf

\* In a valid trail every record stands at its own place.
LEMMA ValidInPlace ==
  ASSUME TrailInv, Trail!Valid, NEW i \in 1..Len(auditRecords)
  PROVE  auditRecords[i].content.serial = i
<1> DEFINE Displaced == {j \in 1..Len(auditRecords) : auditRecords[j].content.serial # j}
<1>1. auditRecords \in Seq(TrailRecord) /\ Len(auditRecords) \in Nat
  BY DEF TrailInv
<1>2. SUFFICES ASSUME Displaced # {} PROVE FALSE
  OBVIOUS
<1>3. PICK k \in Displaced : \A j \in Displaced : k <= j
  <2>1. Displaced \subseteq Nat
    BY <1>1
  <2> HIDE DEF Displaced
  <2> QED BY <1>2, <2>1, LeastNat
<1> DEFINE r == auditRecords[k]
           n == r.content.serial
<1>4. k \in 1..Len(auditRecords) /\ n # k /\ r \in TrailRecord
  BY <1>1
<1>5. /\ n \in Nat /\ n >= 1
      /\ Len(r.previous) = n - 1
      /\ r.previous = Trail!ExpectedPrevious(k)
  <2>1. RecordSound(r, recorded) /\ recorded \in Seq(Trail!Content)
    BY <1>4 DEF TrailInv
  <2>2. n \in 1..Len(recorded) /\ Len(r.previous) = n - 1
    BY <2>1 DEF RecordSound, PrefixOf
  <2>3. r.previous = Trail!ExpectedPrevious(k)
    BY <1>4 DEF Trail!Valid
  <2> QED BY <2>1, <2>2, <2>3
<1>6. CASE k = 1
  <2>1. Len(r.previous) = 0
    BY <1>5, <1>6 DEF Trail!ExpectedPrevious, Trail!Genesis
  <2> QED BY <1>4, <1>5, <1>6, <2>1
<1>7. CASE k # 1
  <2> DEFINE q == auditRecords[k - 1]
  <2>1. k - 1 \in 1..Len(auditRecords) /\ ~(k <= k - 1)
    BY <1>1, <1>4, <1>7
  <2>2. q.content.serial = k - 1
    BY <1>3, <2>1
  <2>3. Len(q.hash) = k - 1
    BY <2>1, <2>2 DEF TrailInv, RecordSound, PrefixOf
  <2>4. Len(r.previous) = k - 1
    BY <1>5, <1>7, <2>3 DEF Trail!ExpectedPrevious
  <2> QED BY <1>4, <1>5, <2>4
<1> QED BY <1>6, <1>7

\* A trail is valid exactly when its records are the first that were recorded, each
\* with the content it was recorded with.
LEMMA ValidMeansKept ==
  ASSUME TrailInv
  PROVE  Trail!Valid <=> /\ Len(auditRecords) <= Len(recorded)
                         /\ \A i \in 1..Len(auditRecords) :
                              auditRecords[i].content = recorded[i]
<1> DEFINE n == Len(auditRecords)
<1>1. /\ auditRecords \in Seq(TrailRecord) /\ n \in Nat
      /\ recorded \in Seq(Trail!Content) /\ Len(recorded) \in Nat
  BY DEF TrailInv
<1>2. ASSUME NEW i \in 1..n
      PROVE  /\ auditRecords[i].content \in Trail!Content
             /\ auditRecords[i].previous \in Seq(Trail!Content)
             /\ auditRecords[i].hash \in Seq(Trail!Content)
             /\ RecordSound(auditRecords[i], recorded)
  <2>1. auditRecords[i] \in TrailRecord
    BY <1>1
  <2>2. RecordSound(auditRecords[i], recorded)
    BY DEF TrailInv
  <2> QED BY <2>1, <2>2 DEF TrailRecord
<1>3. ASSUME Trail!Valid
      PROVE  n <= Len(recorded) /\ \A i \in 1..n : auditRecords[i].content = recorded[i]
  <2>1. ASSUME NEW i \in 1..n
        PROVE  i \in 1..Len(recorded) /\ auditRecords[i].content = recorded[i]
    <3> DEFINE r == auditRecords[i]
    <3>1. r.content.serial = i
      BY <1>3, ValidInPlace
    <3>2. i \in 1..Len(recorded) /\ PrefixOf(r.hash, recorded, i) /\ PrefixOf(r.previous, recorded, i - 1)
      BY <1>2, <3>1 DEF RecordSound
    <3>3. r.hash = Append(r.previous, r.content)
      BY <1>3 DEF Trail!Valid, Trail!Hash
    <3>4. Append(r.previous, r.content)[Len(r.previous) + 1] = r.content
      BY <1>2, StackPush
    <3>5. Len(r.previous) + 1 = i /\ i \in 1..i
      BY <1>1, <3>2 DEF PrefixOf
    <3>6. r.hash[i] = recorded[i]
      BY <3>2, <3>5 DEF PrefixOf
    <3> HIDE DEF r
    <3>7. r.content = recorded[i]
      BY <3>3, <3>4, <3>5, <3>6
    <3> QED BY <3>2, <3>7 DEF r
  <2>2. n <= Len(recorded)
    <3>1. CASE n = 0
      BY <1>1, <3>1
    <3>2. CASE n # 0
      <4>1. n \in 1..n
        BY <1>1, <3>2
      <4>2. n \in 1..Len(recorded)
        BY <2>1, <4>1
      <4> QED BY <1>1, <4>2
    <3> QED BY <3>1, <3>2
  <2> QED BY <2>1, <2>2
<1>4. ASSUME n <= Len(recorded), \A i \in 1..n : auditRecords[i].content = recorded[i]
      PROVE  Trail!Valid
  <2>1. ASSUME NEW i \in 1..n
        PROVE  /\ PrefixOf(auditRecords[i].hash, recorded, i)
               /\ PrefixOf(auditRecords[i].previous, recorded, i - 1)
    <3>1. i \in 1..Len(recorded)
      BY <1>1, <1>4
    <3>2. auditRecords[i].content.serial = i
      BY <1>4, <3>1 DEF TrailInv
    <3> QED BY <1>2, <3>2 DEF RecordSound
  <2>2. ASSUME NEW i \in 1..n PROVE auditRecords[i].previous = Trail!ExpectedPrevious(i)
    <3>1. CASE i = 1
      <4>1. PrefixOf(auditRecords[i].previous, recorded, 0)
        BY <2>1, <3>1
      <4>2. PrefixOf(<<>>, recorded, 0) /\ <<>> \in Seq(Trail!Content)
        BY DEF PrefixOf
      <4>3. auditRecords[i].previous = <<>>
        BY <1>2, <4>1, <4>2, SamePrefix
      <4> QED BY <3>1, <4>3 DEF Trail!ExpectedPrevious, Trail!Genesis
    <3>2. CASE i # 1
      <4>1. i - 1 \in 1..n /\ i - 1 \in Nat
        BY <1>1, <3>2
      <4>2. auditRecords[i].previous = auditRecords[i - 1].hash
        BY <1>2, <2>1, <4>1, SamePrefix
      <4> QED BY <3>2, <4>2 DEF Trail!ExpectedPrevious
    <3> QED BY <3>1, <3>2
  <2>3. ASSUME NEW i \in 1..n
        PROVE  auditRecords[i].hash = Append(auditRecords[i].previous, auditRecords[i].content)
    <3> DEFINE c == auditRecords[i].content
               p == auditRecords[i].previous
               h == Append(p, c)
    <3>1. /\ p \in Seq(Trail!Content) /\ c \in Trail!Content /\ c = recorded[i]
          /\ Len(p) = i - 1 /\ \A j \in 1..i - 1 : p[j] = recorded[j]
      BY <1>2, <1>4, <2>1 DEF PrefixOf
    <3> HIDE DEF c, p
    <3>2. /\ h \in Seq(Trail!Content)
          /\ Len(h) = Len(p) + 1
          /\ h[Len(p) + 1] = c
          /\ \A j \in 1..Len(p) : h[j] = p[j]
      BY <3>1, StackPush
    <3> HIDE DEF h
    <3>3. i \in Nat /\ Len(h) = i /\ h[i] = recorded[i] /\ \A j \in 1..i - 1 : h[j] = recorded[j]
      BY <1>1, <3>1, <3>2
    <3>4. \A j \in 1..i : j \in 1..i - 1 \/ j = i
      BY <3>3
    <3>5. PrefixOf(h, recorded, i)
      BY <3>3, <3>4 DEF PrefixOf
    <3>6. auditRecords[i].hash = h
      BY <1>2, <2>1, <3>2, <3>3, <3>5, SamePrefix
    <3> QED BY <3>6 DEF h, p, c
  <2> QED BY <2>2, <2>3 DEF Trail!Valid, Trail!Hash
<1> QED BY <1>3, <1>4

\* The same in the terms of the trail.
LEMMA TrailConsequence ==
  ASSUME TrailInv
  PROVE  ValidIsPrefix
<1> DEFINE n == Len(auditRecords)
           c == [i \in 1..n |-> auditRecords[i].content]
           sub == SubSeq(recorded, 1, n)
<1>1. /\ auditRecords \in Seq(TrailRecord) /\ n \in Nat
      /\ recorded \in Seq(Trail!Content) /\ Len(recorded) \in Nat
  BY DEF TrailInv
<1>2. \A i \in 1..n : auditRecords[i].content \in Trail!Content
  <2>1. \A i \in 1..n : auditRecords[i] \in TrailRecord
    BY <1>1
  <2> HIDE DEF n
  <2> QED BY <2>1 DEF TrailRecord
<1>3. c \in Seq(Trail!Content) /\ Len(c) = n /\ \A i \in 1..n : c[i] = auditRecords[i].content
  BY <1>1, <1>2
<1>4. Trail!Contents = c
  BY DEF Trail!Contents
<1> HIDE DEF c
<1>5. ASSUME n <= Len(recorded)
      PROVE  c = sub <=> \A i \in 1..n : c[i] = recorded[i]
  <2>1. \A i \in 1..n : recorded[i] \in Trail!Content
    BY <1>1, <1>5
  <2> HIDE DEF n
  <2>2. /\ sub \in Seq(Trail!Content)
        /\ Len(sub) = IF 1 <= n THEN n - 1 + 1 ELSE 0
        /\ \A i \in 1..n - 1 + 1 : sub[i] = recorded[1 + i - 1]
    BY <1>1, <2>1, SubSeqProperties
  <2> HIDE DEF sub
  <2>3. Len(sub) = n
    BY <1>1, <2>2
  <2>4. ASSUME NEW i \in 1..n PROVE sub[i] = recorded[i]
    <3>1. i \in 1..n - 1 + 1 /\ 1 + i - 1 = i
      BY <1>1
    <3>2. sub[i] = recorded[1 + i - 1]
      BY <2>2, <3>1
    <3> QED BY <3>1, <3>2
  <2> QED BY <1>3, <2>2, <2>3, <2>4, SeqEqual
<1>6. Trail!ValidIsPrefix <=> (Trail!Valid <=> n <= Len(recorded) /\ c = sub)
  BY <1>3, <1>4 DEF Trail!ValidIsPrefix
<1> HIDE DEF sub
<1> QED BY <1>3, <1>5, <1>6, ValidMeansKept DEF ValidIsPrefix

LEMMA TrailTypes == TrailInv => Trail!TypeOK
BY DEF TrailInv, Trail!TypeOK, TrailRecord

-------------------------------------------------------------------------------
(* The theorems                                                                *)

IInv == BusInv /\ TrailInv

LEMMA InitInv == Init => IInv
BY BusInit, TrailInit DEF Init, IInv

LEMMA NextInv == IInv /\ [Next]_vars => IInv'
BY BusStepInv, TrailStepInv DEF IInv

LEMMA InvConsequences ==
  IInv => TypeOK /\ CallsFollowTheList /\ MissesAtMostRemovals /\ ValidIsPrefix
BY BusConsequences, TrailConsequence, TrailTypes DEF IInv, BusInv, TypeOK

\* The list, the publications in progress and the trail are well typed.
THEOREM TypeCorrect == Spec => []TypeOK
BY InitInv, NextInv, InvConsequences, PTL DEF Spec

\* A publication that nobody unsubscribes from calls the listeners in the order of
\* the list, each once, whatever its listeners subscribe, record and publish.
THEOREM CallsAreInOrder == Spec => []CallsFollowTheList
BY InitInv, NextInv, InvConsequences, PTL DEF Spec

\* A publication that has come to its end missed no more subscribers than entries
\* were removed meanwhile.
THEOREM RemovalsBoundMisses == Spec => []MissesAtMostRemovals
BY InitInv, NextInv, InvConsequences, PTL DEF Spec

\* verify_integrity accepts a trail exactly when it is the beginning of what was
\* recorded, however its records were changed, removed and exchanged.
THEOREM IntegrityIsPrefix == Spec => []ValidIsPrefix
BY InitInv, NextInv, InvConsequences, PTL DEF Spec
===============================================================================
