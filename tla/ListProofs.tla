------------------------------ MODULE ListProofs ------------------------------
(* What the proofs about the components share: the least of some numbers,      *)
(* stacks of calls in progress, which the models of the components that run    *)
(* the user's handlers and listeners keep, and the list comprehension.         *)
EXTENDS Lists, SequenceTheorems, WellFoundedInduction, TLAPS

-------------------------------------------------------------------------------
(* Numbers                                                                     *)

\* A set of natural numbers that is not empty has a least one.
LEMMA LeastNat ==
  ASSUME NEW T, T \subseteq Nat, T # {}
  PROVE  \E n \in T : \A k \in T : n <= k
<1> DEFINE R == {p \in Nat \X Nat : p[1] < p[2]}
<1>1. \A x, y \in Nat : <<y, x>> \in R <=> y < x
  OBVIOUS
<1>2. IsWellFoundedOn(R, Nat)
  BY NatLessThanWellFounded DEF OpToRel
<1> HIDE DEF R
<1>3. PICK n \in T : \A k \in T : ~(<<k, n>> \in R)
  BY <1>2, WFMin
<1>4. \A k \in T : ~(k < n)
  BY <1>1, <1>3
<1> QED BY <1>4

\* Induction up to n.
LEMMA UpTo ==
  ASSUME NEW n \in Nat, NEW T, 0 \in T, \A i \in 1..n : i - 1 \in T => i \in T
  PROVE  0..n \subseteq T
<1> SUFFICES ASSUME ~(0..n \subseteq T) PROVE FALSE
  OBVIOUS
<1>1. PICK m \in (0..n) \ T : \A k \in (0..n) \ T : m <= k
  <2>1. (0..n) \ T \subseteq Nat /\ (0..n) \ T # {}
    OBVIOUS
  <2> QED BY <2>1, LeastNat
<1>2. m \in 1..n /\ m - 1 \in 0..n /\ ~(m <= m - 1)
  BY <1>1
<1> QED BY <1>1, <1>2

\* The elements of a sequence over a set.
LEMMA SeqElements ==
  ASSUME NEW S, NEW s \in Seq(S)
  PROVE  Len(s) \in Nat /\ \A i \in 1..Len(s) : s[i] \in S
OBVIOUS

-------------------------------------------------------------------------------
(* Stacks                                                                      *)

\* A new innermost call leaves the calls around it as they are.
LEMMA StackPush ==
  ASSUME NEW F, NEW s \in Seq(F), NEW f \in F
  PROVE  /\ Append(s, f) \in Seq(F)
         /\ Len(s) \in Nat
         /\ Len(Append(s, f)) = Len(s) + 1
         /\ Append(s, f)[Len(s) + 1] = f
         /\ \A i \in 1..Len(s) : Append(s, f)[i] = s[i]
OBVIOUS

\* The innermost call is one of the calls.
LEMMA StackTop ==
  ASSUME NEW F, NEW s \in Seq(F), s # <<>>
  PROVE  /\ Len(s) \in Nat /\ Len(s) >= 1 /\ Len(s) \in 1..Len(s)
         /\ s[Len(s)] \in F
         /\ \A i \in 1..Len(s) : s[i] \in F
OBVIOUS

\* When the innermost call returns, the calls around it are as they were.
LEMMA StackPop ==
  ASSUME NEW F, NEW s \in Seq(F), s # <<>>
  PROVE  LET p == SubSeq(s, 1, Len(s) - 1)
         IN  /\ p \in Seq(F)
             /\ Len(p) = Len(s) - 1
             /\ \A i \in 1..Len(p) : p[i] = s[i]
<1>1. Len(s) \in Nat /\ Len(s) >= 1 /\ \A i \in 1..Len(s) - 1 : s[i] \in F
  OBVIOUS
<1> DEFINE n == Len(s) - 1
           p == SubSeq(s, 1, n)
<1>2. /\ p \in Seq(F)
      /\ Len(p) = IF 1 <= n THEN n - 1 + 1 ELSE 0
      /\ \A i \in 1..n - 1 + 1 : p[i] = s[1 + i - 1]
  BY <1>1, SubSeqProperties
<1>3. n \in Nat
  BY <1>1
<1>4. Len(p) = n /\ \A i \in 1..n : p[i] = s[i]
  <2> HIDE DEF n, p
  <2> QED BY <1>2, <1>3
<1> QED BY <1>2, <1>4

\* A call that goes on as another one leaves the calls around it as they are.
LEMMA StackReplace ==
  ASSUME NEW F, NEW s \in Seq(F), s # <<>>, NEW f \in F
  PROVE  LET p == [s EXCEPT ![Len(s)] = f]
         IN  /\ p \in Seq(F)
             /\ Len(p) = Len(s)
             /\ p[Len(s)] = f
             /\ \A i \in 1..Len(s) - 1 : p[i] = s[i]
<1>1. Len(s) \in 1..Len(s)
  OBVIOUS
<1> QED BY <1>1, ExceptSeq

\* A sequence that grows holds what it held and the new element.
LEMMA AppendRange ==
  ASSUME NEW S, NEW s \in Seq(S), NEW e \in S
  PROVE  {Append(s, e)[i] : i \in 1..Len(Append(s, e))} = {s[i] : i \in 1..Len(s)} \cup {e}
<1>1. /\ Len(s) \in Nat
      /\ Len(Append(s, e)) = Len(s) + 1
      /\ Append(s, e)[Len(s) + 1] = e
      /\ \A i \in 1..Len(s) : Append(s, e)[i] = s[i]
  BY StackPush
<1>2. 1..Len(Append(s, e)) = 1..Len(s) \cup {Len(s) + 1}
  BY <1>1
<1> QED BY <1>1, <1>2

-------------------------------------------------------------------------------
(* Sublists                                                                    *)

\* A sublist grows by the elements taken, from nothing.
IsSublists(s, P, n, f) ==
  f = [i \in 0..n |->
        IF i = 0 THEN <<>> ELSE IF i \in P THEN Append(f[i - 1], s[i]) ELSE f[i - 1]]

LEMMA SublistsExist ==
  ASSUME NEW s, NEW P, NEW m \in Nat
  PROVE  \E f : IsSublists(s, P, m, f)
<1> SUFFICES ASSUME ~\E f : IsSublists(s, P, m, f) PROVE FALSE
  OBVIOUS
<1> DEFINE Bad == {n \in Nat : ~\E f : IsSublists(s, P, n, f)}
<1>1. PICK n \in Bad : \A k \in Bad : n <= k
  <2>1. Bad \subseteq Nat /\ Bad # {}
    OBVIOUS
  <2> HIDE DEF Bad
  <2> QED BY <2>1, LeastNat
<1>2. n # 0
  <2> DEFINE f == [i \in 0..0 |-> <<>>]
  <2>1. IsSublists(s, P, 0, f)
    BY DEF IsSublists
  <2> QED BY <1>1, <2>1
<1>3. PICK f : IsSublists(s, P, n - 1, f)
  BY <1>1, <1>2
<1> DEFINE last == IF n \in P THEN Append(f[n - 1], s[n]) ELSE f[n - 1]
           g == [i \in 0..n |-> IF i = n THEN last ELSE f[i]]
           h == [i \in 0..n |->
                  IF i = 0 THEN <<>> ELSE IF i \in P THEN Append(g[i - 1], s[i]) ELSE g[i - 1]]
<1>4. \A i \in 0..n - 1 :
        f[i] = IF i = 0 THEN <<>> ELSE IF i \in P THEN Append(f[i - 1], s[i]) ELSE f[i - 1]
  BY <1>3 DEF IsSublists
<1>5. ASSUME NEW i \in 0..n PROVE g[i] = h[i]
  <2>1. CASE i = 0
    BY <1>1, <1>2, <1>4, <2>1
  <2>2. CASE i \in 1..n - 1
    <3>1. i - 1 \in 0..n /\ i - 1 # n /\ i \in 0..n - 1 /\ i # n /\ i # 0
      BY <1>1, <2>2
    <3>2. g[i - 1] = f[i - 1] /\ g[i] = f[i]
      BY <3>1
    <3> HIDE DEF g
    <3> QED BY <1>4, <3>1, <3>2
  <2>3. CASE i = n
    <3>1. n - 1 \in 0..n /\ n - 1 # n
      BY <1>1, <1>2
    <3>2. g[n - 1] = f[n - 1] /\ g[n] = last
      BY <1>1, <3>1
    <3> HIDE DEF g
    <3> QED BY <1>1, <1>2, <2>3, <3>2
  <2> QED BY <1>1, <2>1, <2>2, <2>3
<1>6. g = h
  <2>1. DOMAIN g = 0..n /\ DOMAIN h = 0..n
    OBVIOUS
  <2>2. g = [i \in 0..n |-> g[i]] /\ h = [i \in 0..n |-> h[i]]
    OBVIOUS
  <2> HIDE DEF g, h
  <2> QED BY <1>5, <2>2
<1>7. IsSublists(s, P, n, g)
  BY <1>6 DEF IsSublists
<1> QED BY <1>1, <1>7

\* The sublists of the prefixes of s, each the one before with one element or none.
LEMMA SublistSteps ==
  ASSUME NEW S, NEW s \in Seq(S), NEW P
  PROVE  \E f : /\ Sublist(s, P) = f[Len(s)]
                /\ f[0] = <<>>
                /\ \A i \in 1..Len(s) :
                     f[i] = IF i \in P THEN Append(f[i - 1], s[i]) ELSE f[i - 1]
                /\ \A i \in 0..Len(s) : f[i] \in Seq(S)
<1> DEFINE n == Len(s)
           f == CHOOSE g : IsSublists(s, P, n, g)
<1>1. n \in Nat
  OBVIOUS
<1>2. Sublist(s, P) = f[n]
  BY DEF Sublist, IsSublists
<1>3. IsSublists(s, P, n, f)
  <2> HIDE DEF n
  <2> QED BY <1>1, SublistsExist
<1> HIDE DEF f
<1>4. \A i \in 0..n :
        f[i] = IF i = 0 THEN <<>> ELSE IF i \in P THEN Append(f[i - 1], s[i]) ELSE f[i - 1]
  BY <1>3 DEF IsSublists
<1>5. f[0] = <<>> /\ \A i \in 1..n : f[i] = IF i \in P THEN Append(f[i - 1], s[i]) ELSE f[i - 1]
  BY <1>1, <1>4
<1>6. 0..n \subseteq {i \in 0..n : f[i] \in Seq(S)}
  <2> DEFINE T == {i \in 0..n : f[i] \in Seq(S)}
  <2>1. 0 \in T
    <3>1. <<>> \in Seq(S) /\ 0 \in 0..n
      BY <1>1
    <3> QED BY <1>5, <3>1
  <2>2. ASSUME NEW i \in 1..n, i - 1 \in T PROVE i \in T
    <3>1. s[i] \in S /\ f[i - 1] \in Seq(S) /\ i \in 0..n
      BY <1>1, <2>2
    <3>2. Append(f[i - 1], s[i]) \in Seq(S)
      BY <3>1
    <3> QED BY <1>5, <3>1, <3>2
  <2> HIDE DEF T
  <2>3. 0..n \subseteq T
    BY <1>1, <2>1, <2>2, UpTo
  <2> QED BY <2>3 DEF T
<1> QED BY <1>2, <1>5, <1>6

\* A sublist is no longer than the list, and has the elements at the positions.
LEMMA SublistProperties ==
  ASSUME NEW S, NEW s \in Seq(S), NEW P
  PROVE  /\ Sublist(s, P) \in Seq(S)
         /\ Len(Sublist(s, P)) \in Nat
         /\ Len(Sublist(s, P)) <= Len(s)
         /\ \A j \in 1..Len(Sublist(s, P)) :
              \E i \in 1..Len(s) : i \in P /\ Sublist(s, P)[j] = s[i]
         /\ \A i \in 1..Len(s) : i \in P =>
              \E j \in 1..Len(Sublist(s, P)) : Sublist(s, P)[j] = s[i]
<1> DEFINE n == Len(s)
<1>1. n \in Nat /\ \A i \in 1..n : s[i] \in S
  OBVIOUS
<1>2. PICK f : /\ Sublist(s, P) = f[n]
               /\ f[0] = <<>>
               /\ \A i \in 1..n : f[i] = IF i \in P THEN Append(f[i - 1], s[i]) ELSE f[i - 1]
  BY SublistSteps
<1> DEFINE Holds(i) == /\ f[i] \in Seq(S)
                       /\ Len(f[i]) <= i
                       /\ \A j \in 1..Len(f[i]) : \E k \in 1..i : k \in P /\ f[i][j] = s[k]
                       /\ \A k \in 1..i : k \in P => \E j \in 1..Len(f[i]) : f[i][j] = s[k]
           T == {i \in 0..n : Holds(i)}
<1> HIDE DEF n
<1>3. Holds(0)
  BY <1>2
<1>4. ASSUME NEW i \in 1..n, Holds(i - 1) PROVE Holds(i)
  <2>1. CASE i \in P
    <3> DEFINE t == f[i - 1]
               u == f[i]
    <3>1. /\ t \in Seq(S) /\ u = Append(t, s[i]) /\ s[i] \in S
          /\ Len(t) <= i - 1
          /\ \A j \in 1..Len(t) : \E k \in 1..i - 1 : k \in P /\ t[j] = s[k]
          /\ \A k \in 1..i - 1 : k \in P => \E j \in 1..Len(t) : t[j] = s[k]
      BY <1>1, <1>2, <1>4, <2>1
    <3> HIDE DEF t, u
    <3>2. /\ u \in Seq(S) /\ Len(t) \in Nat /\ Len(u) = Len(t) + 1 /\ u[Len(t) + 1] = s[i]
          /\ \A j \in 1..Len(t) : u[j] = t[j]
      BY <3>1, StackPush
    <3>3. i \in Nat /\ Len(u) <= i
      BY <3>1, <3>2
    <3>4. ASSUME NEW j \in 1..Len(u) PROVE \E k \in 1..i : k \in P /\ u[j] = s[k]
      <4>1. CASE j \in 1..Len(t)
        <5>1. PICK k \in 1..i - 1 : k \in P /\ t[j] = s[k]
          BY <3>1, <4>1
        <5> QED BY <3>2, <3>3, <4>1, <5>1
      <4>2. CASE j = Len(t) + 1
        BY <2>1, <3>2, <3>3, <4>2
      <4> QED BY <3>2, <4>1, <4>2
    <3>5. ASSUME NEW k \in 1..i, k \in P PROVE \E j \in 1..Len(u) : u[j] = s[k]
      <4>1. CASE k \in 1..i - 1
        <5>1. PICK j \in 1..Len(t) : t[j] = s[k]
          BY <3>1, <3>5, <4>1
        <5> QED BY <3>2, <5>1
      <4>2. CASE k = i
        BY <3>2, <4>2
      <4> QED BY <3>3, <4>1, <4>2
    <3> QED BY <3>2, <3>3, <3>4, <3>5 DEF u
  <2>2. CASE i \notin P
    <3>1. f[i] = f[i - 1]
      BY <1>2, <2>2
    <3>2. i \in Nat /\ 1..i - 1 \subseteq 1..i /\ \A k \in 1..i : k \in 1..i - 1 \/ k = i
      OBVIOUS
    <3>3. Len(f[i]) \in Nat
      BY <1>4, <3>1
    <3> QED BY <1>4, <2>2, <3>1, <3>2, <3>3
  <2> QED BY <2>1, <2>2
<1>5. 0..n \subseteq T
  <2>1. 0 \in T
    BY <1>1, <1>3
  <2>2. \A i \in 1..n : i - 1 \in T => i \in T
    BY <1>1, <1>4
  <2> HIDE DEF T
  <2> QED BY <1>1, <2>1, <2>2, UpTo
<1>6. Holds(n)
  <2> HIDE DEF Holds
  <2> QED BY <1>1, <1>5
<1>7. Len(s) = n /\ Len(f[n]) \in Nat
  BY <1>6 DEF n
<1> QED BY <1>2, <1>6, <1>7

\* If the last a elements are taken, they are the last a of the sublist.
LEMMA SublistSuffix ==
  ASSUME NEW S, NEW s \in Seq(S), NEW P, NEW a \in 0..Len(s),
         \A i \in Len(s) - a + 1..Len(s) : i \in P
  PROVE  /\ a <= Len(Sublist(s, P))
         /\ \A j \in 0..a - 1 : Sublist(s, P)[Len(Sublist(s, P)) - j] = s[Len(s) - j]
<1> DEFINE n == Len(s)
<1>1. n \in Nat /\ a \in Nat /\ a <= n /\ \A i \in 1..n : s[i] \in S
  OBVIOUS
<1>2. PICK f : /\ Sublist(s, P) = f[n]
               /\ \A i \in 1..n : f[i] = IF i \in P THEN Append(f[i - 1], s[i]) ELSE f[i - 1]
               /\ \A i \in 0..n : f[i] \in Seq(S)
  BY SublistSteps
<1> DEFINE m == n - a
           Holds(i) == /\ i - m <= Len(f[i])
                       /\ \A k \in m + 1..i : f[i][Len(f[i]) - (i - k)] = s[k]
           T == {i \in 0..n : Holds(i)}
<1>3. m \in 0..n /\ n - m = a /\ \A i \in m + 1..n : i \in P
  BY <1>1
<1> HIDE DEF n, m
<1>4. Holds(0)
  <2>1. Len(f[0]) \in Nat
    BY <1>1, <1>2
  <2> QED BY <1>1, <1>3, <2>1
<1>5. ASSUME NEW i \in 1..n, Holds(i - 1) PROVE Holds(i)
  <2> DEFINE t == f[i - 1]
             u == f[i]
  <2>1. i \in Nat /\ i - 1 \in 0..n /\ i \in 0..n
    BY <1>1
  <2>2. t \in Seq(S) /\ u \in Seq(S) /\ s[i] \in S /\ Len(u) \in Nat
    BY <1>1, <1>2, <2>1
  <2>3. CASE i <= m
    BY <1>1, <1>3, <2>1, <2>2, <2>3
  <2>4. CASE i > m
    <3>1. i \in P /\ u = Append(t, s[i])
      <4>1. i \in m + 1..n
        BY <1>1, <1>3, <2>1, <2>4
      <4> QED BY <1>2, <1>3, <4>1
    <3>2. i - 1 - m <= Len(t) /\ \A k \in m + 1..i - 1 : t[Len(t) - (i - 1 - k)] = s[k]
      BY <1>5
    <3> HIDE DEF t, u
    <3>3. /\ Len(t) \in Nat /\ Len(u) = Len(t) + 1 /\ u[Len(t) + 1] = s[i]
          /\ \A j \in 1..Len(t) : u[j] = t[j]
      BY <2>2, <3>1, StackPush
    <3>4. ASSUME NEW k \in m + 1..i PROVE u[Len(u) - (i - k)] = s[k]
      <4>1. CASE k = i
        BY <2>1, <3>3, <4>1
      <4>2. CASE k # i
        <5>1. k \in m + 1..i - 1 /\ Len(u) - (i - k) = Len(t) - (i - 1 - k)
          BY <1>3, <2>1, <3>3, <4>2
        <5>2. Len(t) - (i - 1 - k) \in 1..Len(t)
          BY <1>3, <2>1, <3>2, <3>3, <5>1
        <5> QED BY <3>2, <3>3, <5>1, <5>2
      <4> QED BY <4>1, <4>2
    <3>5. i - m <= Len(u)
      BY <1>3, <2>1, <3>2, <3>3
    <3> QED BY <3>4, <3>5 DEF u
  <2> QED BY <1>3, <2>1, <2>3, <2>4
<1>6. 0..n \subseteq T
  <2> HIDE DEF Holds
  <2>1. 0 \in T
    BY <1>1, <1>4
  <2>2. \A i \in 1..n : i - 1 \in T => i \in T
    BY <1>1, <1>5
  <2> HIDE DEF T
  <2> QED BY <1>1, <2>1, <2>2, UpTo
<1>7. Holds(n)
  <2> HIDE DEF Holds
  <2> QED BY <1>1, <1>6
<1>8. ASSUME NEW j \in 0..a - 1 PROVE f[n][Len(f[n]) - j] = s[n - j]
  <2>1. n - j \in m + 1..n /\ n - (n - j) = j
    BY <1>1, <1>3
  <2> QED BY <1>7, <2>1
<1> QED BY <1>1, <1>2, <1>3, <1>7, <1>8 DEF n

\* A list is the sublist of all its positions.
LEMMA SublistWhole ==
  ASSUME NEW S, NEW s \in Seq(S), NEW P, \A i \in 1..Len(s) : i \in P
  PROVE  Sublist(s, P) = s
<1> DEFINE n == Len(s)
           t == Sublist(s, P)
<1>1. n \in Nat
  OBVIOUS
<1>2. t \in Seq(S) /\ Len(t) \in Nat /\ Len(t) <= n
  BY SublistProperties
<1>3. n <= Len(t) /\ \A j \in 0..n - 1 : t[Len(t) - j] = s[n - j]
  <2>1. n \in 0..n /\ \A i \in n - n + 1..n : i \in P
    BY <1>1
  <2> QED BY <2>1, SublistSuffix
<1> HIDE DEF n, t
<1>4. Len(t) = n
  BY <1>1, <1>2, <1>3
<1>5. ASSUME NEW i \in 1..n PROVE t[i] = s[i]
  <2>1. n - i \in 0..n - 1 /\ n - (n - i) = i
    BY <1>1
  <2> QED BY <1>3, <1>4, <2>1
<1> QED BY <1>2, <1>4, <1>5, SeqEqual DEF n, t

\* A sublist of fewer positions is shorter.
LEMMA SublistShorter ==
  ASSUME NEW S, NEW s \in Seq(S), NEW P, NEW Q, \A i \in 1..Len(s) : i \in Q => i \in P
  PROVE  /\ Len(Sublist(s, Q)) <= Len(Sublist(s, P))
         /\ (\E i \in 1..Len(s) : i \in P /\ i \notin Q)
              => Len(Sublist(s, Q)) < Len(Sublist(s, P))
<1> DEFINE n == Len(s)
<1>1. n \in Nat /\ \A i \in 1..n : s[i] \in S
  OBVIOUS
<1>2. PICK f : /\ Sublist(s, P) = f[n]
               /\ f[0] = <<>>
               /\ \A i \in 1..n : f[i] = IF i \in P THEN Append(f[i - 1], s[i]) ELSE f[i - 1]
               /\ \A i \in 0..n : f[i] \in Seq(S)
  BY SublistSteps
<1>3. PICK g : /\ Sublist(s, Q) = g[n]
               /\ g[0] = <<>>
               /\ \A i \in 1..n : g[i] = IF i \in Q THEN Append(g[i - 1], s[i]) ELSE g[i - 1]
               /\ \A i \in 0..n : g[i] \in Seq(S)
  BY SublistSteps
<1> DEFINE Holds(i) == /\ Len(g[i]) <= Len(f[i])
                       /\ (\E k \in 1..i : k \in P /\ k \notin Q) => Len(g[i]) < Len(f[i])
           T == {i \in 0..n : Holds(i)}
<1>4. \A i \in 1..n : i \in Q => i \in P
  OBVIOUS
<1> HIDE DEF n
<1>5. Holds(0)
  BY <1>2, <1>3
<1>6. ASSUME NEW i \in 1..n, Holds(i - 1) PROVE Holds(i)
  <2>1. i \in Nat /\ i - 1 \in 0..n /\ \A k \in 1..i : k \in 1..i - 1 \/ k = i
    BY <1>1
  <2>2. f[i - 1] \in Seq(S) /\ g[i - 1] \in Seq(S) /\ s[i] \in S
    BY <1>1, <1>2, <1>3, <2>1
  <2>3. /\ Len(f[i - 1]) \in Nat /\ Len(Append(f[i - 1], s[i])) = Len(f[i - 1]) + 1
        /\ Len(g[i - 1]) \in Nat /\ Len(Append(g[i - 1], s[i])) = Len(g[i - 1]) + 1
    BY <2>2, StackPush
  <2>4. CASE i \in Q
    <3>1. Len(f[i]) = Len(f[i - 1]) + 1 /\ Len(g[i]) = Len(g[i - 1]) + 1
      BY <1>2, <1>3, <1>4, <2>3, <2>4
    <3> QED BY <1>6, <2>1, <2>3, <2>4, <3>1
  <2>5. CASE i \notin Q /\ i \in P
    <3>1. Len(f[i]) = Len(f[i - 1]) + 1 /\ Len(g[i]) = Len(g[i - 1])
      BY <1>2, <1>3, <2>3, <2>5
    <3> QED BY <1>6, <2>3, <3>1
  <2>6. CASE i \notin Q /\ i \notin P
    <3>1. Len(f[i]) = Len(f[i - 1]) /\ Len(g[i]) = Len(g[i - 1])
      BY <1>2, <1>3, <2>6
    <3> QED BY <1>6, <2>1, <2>6, <3>1
  <2> QED BY <2>4, <2>5, <2>6
<1>7. 0..n \subseteq T
  <2>1. 0 \in T
    BY <1>1, <1>5
  <2>2. \A i \in 1..n : i - 1 \in T => i \in T
    BY <1>1, <1>6
  <2> HIDE DEF T
  <2> QED BY <1>1, <2>1, <2>2, UpTo
<1>8. Holds(n)
  <2> HIDE DEF Holds
  <2> QED BY <1>1, <1>7
<1> QED BY <1>2, <1>3, <1>8 DEF n
===============================================================================
