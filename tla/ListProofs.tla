------------------------------ MODULE ListProofs ------------------------------
(***************************************************************************)
(* What the two changes of a list in Lists do to it, and the induction     *)
(* over the natural numbers that this rests on.                            *)
(***************************************************************************)
EXTENDS Lists, FiniteSetTheorems, WellFoundedInduction, NaturalsInduction, TLAPS

(* A set of numbers has a least one. Stated of sets, so that it can be     *)
(* used without an operator for a parameter.                               *)
LEMMA LeastNumber ==
  ASSUME NEW T \in SUBSET Nat, T # {}
  PROVE  \E x \in T : \A y \in T : x <= y
<1>1. IsWellFoundedOn(OpToRel(<, Nat), Nat)
  BY NatLessThanWellFounded, Zenon
<1>2. PICK x \in T : \A y \in T : ~ (<<y, x>> \in OpToRel(<, Nat))
  BY <1>1, WFMin, Zenon
<1>3. \A y \in T : y < x => <<y, x>> \in OpToRel(<, Nat)
  BY DEF OpToRel
<1>4. \A y \in T : ~(y < x)
  BY <1>2, <1>3, Zenon
<1>5. \A y \in T : x <= y
  BY ONLY <1>4, T \in SUBSET Nat, x \in T
<1> QED BY <1>5, Zenon

LEMMA NumberInduction ==
  ASSUME NEW T, 0 \in T, \A n \in Nat : n \in T => n + 1 \in T
  PROVE  Nat \subseteq T
<1> SUFFICES ASSUME Nat \ T # {} PROVE FALSE
  OBVIOUS
<1>1. PICK x \in Nat \ T : \A y \in Nat \ T : x <= y
  BY LeastNumber
<1>2. x # 0 /\ x - 1 \in Nat /\ x - 1 \in T
  BY <1>1
<1>3. (x - 1) + 1 \in T
  BY <1>2
<1> QED BY <1>1, <1>3

-----------------------------------------------------------------------------
(* Without.                                                                *)

Loop(s, D, f, i) ==
  IF i = 0 THEN << >> ELSE IF s[i] \in D THEN f[i - 1] ELSE Append(f[i - 1], s[i])

LEMMA KeptIsLoop ==
  ASSUME NEW S, NEW s \in Seq(S), NEW D
  PROVE  Kept(s, D) = [i \in 0..Len(s) |-> Loop(s, D, Kept(s, D), i)]
<1> DEFINE Fits(f, n) == f = [i \in 0..n |-> Loop(s, D, f, i)]
           T == {n \in Nat : \E f : Fits(f, n)}
<1>1. 0 \in T
  <2> DEFINE f == [i \in 0..0 |-> << >>]
  <2>1. \A i \in 0..0 : Loop(s, D, f, i) = << >>
    BY DEF Loop
  <2>2. Fits(f, 0)
    BY <2>1
  <2> QED BY <2>2
<1>2. ASSUME NEW n \in Nat, n \in T PROVE n + 1 \in T
  <2>1. PICK f : Fits(f, n)
    BY <1>2
  <2> DEFINE last == Loop(s, D, f, n + 1)
             g == [i \in 0..(n + 1) |-> IF i = n + 1 THEN last ELSE f[i]]
  <2>2. ASSUME NEW i \in 0..(n + 1) PROVE g[i] = Loop(s, D, g, i)
    <3>1. i # 0 => i - 1 \in 0..n /\ g[i - 1] = f[i - 1]
      OBVIOUS
    <3>2. Loop(s, D, g, i) = Loop(s, D, f, i)
      BY <3>1 DEF Loop
    <3>3. i # n + 1 => i \in 0..n /\ f[i] = Loop(s, D, f, i)
      BY <2>1
    <3> QED BY <3>2, <3>3
  <2>3. Fits(g, n + 1)
    BY <2>2
  <2> HIDE DEF Fits, g
  <2> QED BY <2>3
<1>3. Len(s) \in T
  <2> HIDE DEF T
  <2>1. Nat \subseteq T
    BY <1>1, <1>2, NumberInduction
  <2> QED BY <2>1
<1>4. \E f : f = [i \in 0..Len(s) |-> Loop(s, D, f, i)]
  BY <1>3
<1> QED BY <1>4 DEF Kept, Loop

(* The places that are kept, in their order.                               *)
KeptAt(s, D, n, t, at) ==
  /\ at \in [1..Len(t) -> 1..n]
  /\ \A j, k \in 1..Len(t) : j < k => at[j] < at[k]
  /\ \A k \in 1..Len(t) : t[k] = s[at[k]] /\ t[k] \notin D
  /\ \A i \in 1..n : s[i] \notin D => \E k \in 1..Len(t) : at[k] = i

LEMMA KeptInOrder ==
  ASSUME NEW S, NEW s \in Seq(S), NEW D, NEW n \in 0..Len(s)
  PROVE  Kept(s, D)[n] \in Seq(S) /\ \E at : KeptAt(s, D, n, Kept(s, D)[n], at)
<1> DEFINE kept == Kept(s, D)
           T == {m \in Nat : m <= Len(s) => kept[m] \in Seq(S) /\ \E at : KeptAt(s, D, m, kept[m], at)}
<1>0. \A i \in 0..Len(s) : kept[i] = Loop(s, D, kept, i)
  BY KeptIsLoop
<1> HIDE DEF kept
<1>1. 0 \in T
  <2>1. 0 \in 0..Len(s) /\ Loop(s, D, kept, 0) = << >>
    BY DEF Loop
  <2>2. kept[0] = << >>
    BY <1>0, <2>1
  <2>3. KeptAt(s, D, 0, << >>, << >>)
    BY DEF KeptAt
  <2>4. kept[0] \in Seq(S) /\ KeptAt(s, D, 0, kept[0], << >>)
    BY <2>2, <2>3
  <2> QED BY <2>4
<1>2. ASSUME NEW m \in Nat, m \in T PROVE m + 1 \in T
  <2> SUFFICES ASSUME m + 1 <= Len(s)
               PROVE  kept[m + 1] \in Seq(S) /\ \E at : KeptAt(s, D, m + 1, kept[m + 1], at)
    OBVIOUS
  <2>1. kept[m] \in Seq(S) /\ m + 1 \in 1..Len(s) /\ s[m + 1] \in S
    BY <1>2
  <2>2. PICK at : KeptAt(s, D, m, kept[m], at)
    BY <1>2
  <2>3. kept[m + 1] = IF s[m + 1] \in D THEN kept[m] ELSE Append(kept[m], s[m + 1])
    BY <1>0, <2>1 DEF Loop
  <2>4. CASE s[m + 1] \in D
    <3>1. KeptAt(s, D, m + 1, kept[m], at)
      BY <2>1, <2>2, <2>4 DEF KeptAt
    <3> QED BY <2>1, <2>3, <2>4, <3>1
  <2>5. CASE s[m + 1] \notin D
    <3> DEFINE t == kept[m]
               u == Append(t, s[m + 1])
               now == [k \in 1..(Len(t) + 1) |-> IF k = Len(t) + 1 THEN m + 1 ELSE at[k]]
    <3>1. u \in Seq(S) /\ Len(u) = Len(t) + 1 /\ Len(t) \in Nat
          /\ u[Len(t) + 1] = s[m + 1] /\ \A k \in 1..Len(t) : u[k] = t[k]
      BY <2>1
    <3> HIDE DEF u
    <3>2. now \in [1..Len(u) -> 1..(m + 1)]
      BY <2>2, <3>1 DEF KeptAt
    <3>3. \A j, k \in 1..Len(u) : j < k => now[j] < now[k]
      <4> SUFFICES ASSUME NEW j \in 1..Len(u), NEW k \in 1..Len(u), j < k PROVE now[j] < now[k]
        OBVIOUS
      <4>1. j \in 1..Len(t) /\ at[j] \in 1..m /\ now[j] = at[j]
        BY <2>2, <3>1 DEF KeptAt
      <4>2. CASE k = Len(t) + 1
        BY <3>1, <4>1, <4>2
      <4>3. CASE k # Len(t) + 1
        BY <2>2, <3>1, <4>1, <4>3 DEF KeptAt
      <4> QED BY <4>2, <4>3
    <3>4. ASSUME NEW k \in 1..Len(u) PROVE u[k] = s[now[k]] /\ u[k] \notin D
      <4>1. CASE k = Len(t) + 1
        BY <2>5, <3>1, <4>1
      <4>2. CASE k # Len(t) + 1
        <5>1. k \in 1..Len(t) /\ now[k] = at[k]
          BY <3>1, <4>2
        <5> QED BY <2>2, <3>1, <5>1 DEF KeptAt
      <4> QED BY <4>1, <4>2
    <3>5. ASSUME NEW i \in 1..(m + 1), s[i] \notin D PROVE \E k \in 1..Len(u) : now[k] = i
      <4>1. CASE i = m + 1
        <5>1. Len(t) + 1 \in 1..Len(u) /\ now[Len(t) + 1] = i
          BY <3>1, <4>1
        <5> QED BY <5>1
      <4>2. CASE i # m + 1
        <5>1. i \in 1..m
          BY <4>2
        <5>2. PICK k \in 1..Len(t) : at[k] = i
          BY <2>2, <3>5, <5>1 DEF KeptAt
        <5>3. k \in 1..Len(u) /\ now[k] = i
          BY <3>1, <5>2
        <5> QED BY <5>3
      <4> QED BY <4>1, <4>2
    <3> HIDE DEF now
    <3>6. KeptAt(s, D, m + 1, u, now)
      BY <3>2, <3>3, <3>4, <3>5 DEF KeptAt
    <3> QED BY <2>3, <2>5, <3>1, <3>6 DEF u
  <2> QED BY <2>4, <2>5
<1>3. n \in T
  <2> HIDE DEF T
  <2>1. Nat \subseteq T
    BY <1>1, <1>2, NumberInduction
  <2> QED BY <2>1
<1> QED BY <1>3 DEF kept

LEMMA DroppingInOrder ==
  ASSUME NEW S, NEW s \in Seq(S), NEW D
  PROVE  Dropping(s, D) \in Seq(S) /\ \E at : KeptAt(s, D, Len(s), Dropping(s, D), at)
<1>1. Len(s) \in 0..Len(s)
  OBVIOUS
<1> QED BY <1>1, KeptInOrder DEF Dropping

LEMMA DroppingElements ==
  ASSUME NEW S, NEW s \in Seq(S), NEW D
  PROVE  /\ Dropping(s, D) \in Seq(S)
         /\ Range(Dropping(s, D)) = Range(s) \ D
         /\ IsInjective(s) => IsInjective(Dropping(s, D))
<1> DEFINE t == Dropping(s, D)
<1>1. t \in Seq(S)
  BY DroppingInOrder
<1>2. PICK at : KeptAt(s, D, Len(s), t, at)
  BY DroppingInOrder
<1> HIDE DEF t
<1>3. DOMAIN s = 1..Len(s) /\ DOMAIN t = 1..Len(t) /\ Len(t) \in Nat
  BY <1>1
<1>4. /\ \A k \in 1..Len(t) : at[k] \in 1..Len(s) /\ t[k] = s[at[k]] /\ t[k] \notin D
      /\ \A i \in 1..Len(s) : s[i] \notin D => \E k \in 1..Len(t) : at[k] = i
      /\ \A j, k \in 1..Len(t) : j < k => at[j] < at[k]
  BY <1>2 DEF KeptAt
<1>5. Range(t) = Range(s) \ D
  <2>1. \A x \in Range(t) : x \in Range(s) \ D
    BY <1>3, <1>4 DEF Range
  <2>2. ASSUME NEW x \in Range(s) \ D PROVE x \in Range(t)
    <3>1. PICK i \in 1..Len(s) : s[i] = x
      BY <1>3 DEF Range
    <3>2. PICK k \in 1..Len(t) : at[k] = i
      BY <1>4, <3>1
    <3> QED BY <1>3, <1>4, <3>1, <3>2 DEF Range
  <2> QED BY <2>1, <2>2
<1>6. IsInjective(s) => IsInjective(t)
  <2> SUFFICES ASSUME IsInjective(s), NEW j \in 1..Len(t), NEW k \in 1..Len(t), t[j] = t[k]
               PROVE  j = k
    BY <1>3 DEF IsInjective
  <2>1. at[j] = at[k]
    BY <1>3, <1>4 DEF IsInjective
  <2>2. at[j] \in Nat /\ j \in Nat /\ k \in Nat
    BY <1>3, <1>4
  <2>3. ~(j < k) /\ ~(k < j)
    BY <1>4, <2>1, <2>2
  <2> QED BY <2>2, <2>3
<1> QED BY <1>1, <1>5, <1>6 DEF t

LEMMA WithoutElement ==
  ASSUME NEW S, NEW s \in Seq(S), NEW e
  PROVE  /\ Without(s, e) \in Seq(S)
         /\ Range(Without(s, e)) = Range(s) \ {e}
         /\ IsInjective(s) => IsInjective(Without(s, e))
BY DroppingElements DEF Without

(* Nothing is kept twice, and every element that is dropped is missing.    *)
LEMMA DroppingShortens ==
  ASSUME NEW S, NEW s \in Seq(S), NEW D
  PROVE  /\ Len(Dropping(s, D)) <= Len(s)
         /\ Range(s) \cap D # {} => Len(Dropping(s, D)) < Len(s)
<1> DEFINE kept == Kept(s, D)
           T == {m \in Nat : m <= Len(s) =>
                   /\ Len(kept[m]) <= m
                   /\ (\E i \in 1..m : s[i] \in D) => Len(kept[m]) < m}
<1>0. /\ \A i \in 0..Len(s) : kept[i] = Loop(s, D, kept, i)
      /\ \A i \in 0..Len(s) : kept[i] \in Seq(S)
  BY KeptIsLoop, KeptInOrder
<1> HIDE DEF kept
<1>1. 0 \in T
  <2>1. kept[0] = << >>
    BY <1>0 DEF Loop
  <2> QED BY <2>1
<1>2. ASSUME NEW m \in Nat, m \in T PROVE m + 1 \in T
  <2> SUFFICES ASSUME m + 1 <= Len(s)
               PROVE  /\ Len(kept[m + 1]) <= m + 1
                      /\ (\E i \in 1..(m + 1) : s[i] \in D) => Len(kept[m + 1]) < m + 1
    OBVIOUS
  <2>1. kept[m + 1] = IF s[m + 1] \in D THEN kept[m] ELSE Append(kept[m], s[m + 1])
    BY <1>0 DEF Loop
  <2>2. kept[m] \in Seq(S) /\ Len(kept[m]) \in Nat /\ Len(kept[m]) <= m
        /\ ((\E i \in 1..m : s[i] \in D) => Len(kept[m]) < m)
    BY <1>0, <1>2
  <2>3. s[m + 1] \notin D => Len(kept[m + 1]) = Len(kept[m]) + 1
    BY <2>1, <2>2
  <2>4. \A i \in 1..(m + 1) : i \in 1..m \/ i = m + 1
    OBVIOUS
  <2> QED BY <2>1, <2>2, <2>3, <2>4
<1>3. Len(s) \in T
  <2> HIDE DEF T
  <2>1. Nat \subseteq T
    BY <1>1, <1>2, NumberInduction
  <2> QED BY <2>1
<1>4. Range(s) \cap D # {} => \E i \in 1..Len(s) : s[i] \in D
  BY DEF Range
<1> QED BY <1>3, <1>4 DEF kept, Dropping

(* Nothing to drop, nothing dropped.                                       *)
LEMMA DroppingNothing ==
  ASSUME NEW S, NEW s \in Seq(S), NEW D, Range(s) \cap D = {}
  PROVE  Dropping(s, D) = s
<1> DEFINE kept == Kept(s, D)
           T == {m \in Nat : m <= Len(s) =>
                   kept[m] \in Seq(S) /\ Len(kept[m]) = m /\ \A i \in 1..m : kept[m][i] = s[i]}
<1>0. \A i \in 0..Len(s) : kept[i] = Loop(s, D, kept, i)
  BY KeptIsLoop
<1>1. \A i \in 1..Len(s) : s[i] \notin D
  BY DEF Range
<1> HIDE DEF kept
<1>2. 0 \in T
  <2>1. 0 \in 0..Len(s) /\ Loop(s, D, kept, 0) = << >>
    BY DEF Loop
  <2>2. kept[0] = << >>
    BY <1>0, <2>1
  <2>3. kept[0] \in Seq(S) /\ Len(kept[0]) = 0
    BY <2>2
  <2> QED BY <2>3
<1>3. ASSUME NEW m \in Nat, m \in T PROVE m + 1 \in T
  <2> SUFFICES ASSUME m + 1 <= Len(s)
               PROVE  /\ kept[m + 1] \in Seq(S) /\ Len(kept[m + 1]) = m + 1
                      /\ \A i \in 1..(m + 1) : kept[m + 1][i] = s[i]
    OBVIOUS
  <2>1. /\ kept[m] \in Seq(S) /\ Len(kept[m]) = m /\ s[m + 1] \in S
        /\ \A i \in 1..m : kept[m][i] = s[i]
    BY <1>3
  <2>2. kept[m + 1] = Append(kept[m], s[m + 1])
    <3>1. m + 1 \in 0..Len(s) /\ m + 1 # 0 /\ (m + 1) - 1 = m /\ m + 1 \in 1..Len(s)
      OBVIOUS
    <3>2. kept[m + 1] = Loop(s, D, kept, m + 1)
      BY <1>0, <3>1
    <3> QED BY <1>1, <3>1, <3>2 DEF Loop
  <2> QED BY <2>1, <2>2
<1> HIDE DEF T
<1>4. Len(s) \in T
  BY <1>2, <1>3, NumberInduction
<1>5. kept[Len(s)] \in Seq(S) /\ Len(kept[Len(s)]) = Len(s) /\ \A i \in 1..Len(s) : kept[Len(s)][i] = s[i]
  BY <1>4 DEF T
<1>6. kept[Len(s)] = s
  BY <1>5
<1> QED BY <1>6 DEF Dropping, kept

(* The last m elements.                                                    *)
LEMMA LastElements ==
  ASSUME NEW S, NEW s \in Seq(S), NEW m \in 0..Len(s)
  PROVE  LET t == SubSeq(s, Len(s) - m + 1, Len(s)) IN
         /\ t \in Seq(S) /\ Len(t) = m
         /\ Range(t) \subseteq Range(s)
         /\ IsInjective(s) => IsInjective(t)
<1> DEFINE n == Len(s)
           t == SubSeq(s, n - m + 1, n)
<1>1. t \in Seq(S) /\ Len(t) = m /\ \A k \in 1..m : t[k] = s[n - m + k]
  OBVIOUS
<1>2. DOMAIN t = 1..m /\ DOMAIN s = 1..n /\ n \in Nat /\ m \in Nat /\ m <= n
  BY <1>1
<1> HIDE DEF t, n
<1>3. \A k \in 1..m : n - m + k \in 1..n
  BY <1>2
<1>4. Range(t) \subseteq Range(s)
  BY <1>1, <1>2, <1>3 DEF Range
<1>5. IsInjective(s) => IsInjective(t)
  <2> SUFFICES ASSUME IsInjective(s), NEW j \in 1..m, NEW k \in 1..m, t[j] = t[k]
               PROVE  j = k
    BY <1>2 DEF IsInjective
  <2>1. n - m + j = n - m + k
    BY <1>1, <1>2, <1>3 DEF IsInjective
  <2> QED BY <1>2, <2>1
<1> QED BY <1>1, <1>4, <1>5 DEF t, n

-----------------------------------------------------------------------------
(* Append and With.                                                        *)

LEMMA AppendElement ==
  ASSUME NEW S, NEW s \in Seq(S), NEW e \in S
  PROVE  /\ Append(s, e) \in Seq(S) /\ Len(Append(s, e)) = Len(s) + 1
         /\ Range(Append(s, e)) = Range(s) \cup {e}
         /\ IsInjective(s) /\ e \notin Range(s) => IsInjective(Append(s, e))
<1> DEFINE t == Append(s, e)
<1>1. /\ t \in Seq(S) /\ Len(t) = Len(s) + 1 /\ t[Len(s) + 1] = e
      /\ \A k \in 1..Len(s) : t[k] = s[k]
  OBVIOUS
<1> HIDE DEF t
<1>2. DOMAIN s = 1..Len(s) /\ DOMAIN t = 1..(Len(s) + 1) /\ Len(s) \in Nat
  BY <1>1
<1>3. Range(t) = Range(s) \cup {e}
  <2>1. ASSUME NEW x \in Range(t) PROVE x \in Range(s) \cup {e}
    <3>1. PICK k \in 1..(Len(s) + 1) : t[k] = x
      BY <1>2 DEF Range
    <3> QED BY <1>1, <1>2, <3>1 DEF Range
  <2>2. ASSUME NEW x \in Range(s) PROVE x \in Range(t)
    <3>1. PICK k \in 1..Len(s) : s[k] = x
      BY <1>2 DEF Range
    <3>2. k \in DOMAIN t /\ t[k] = x
      BY <1>1, <1>2, <3>1
    <3> QED BY <3>2 DEF Range
  <2>3. Len(s) + 1 \in DOMAIN t
    BY <1>2
  <2>4. e \in Range(t)
    BY <1>1, <2>3 DEF Range
  <2> QED BY <2>1, <2>2, <2>4
<1>4. IsInjective(s) /\ e \notin Range(s) => IsInjective(t)
  <2> SUFFICES ASSUME IsInjective(s), e \notin Range(s),
                      NEW j \in 1..(Len(s) + 1), NEW k \in 1..(Len(s) + 1), t[j] = t[k]
               PROVE  j = k
    BY <1>2 DEF IsInjective
  <2>1. \A i \in 1..Len(s) : s[i] # e
    BY <1>2 DEF Range
  <2> QED BY <1>1, <1>2, <2>1 DEF IsInjective
<1> QED BY <1>1, <1>3, <1>4 DEF t

LEMMA WithElement ==
  ASSUME NEW S, NEW s \in Seq(S), NEW e \in S
  PROVE  /\ With(s, e) \in Seq(S)
         /\ Range(With(s, e)) = Range(s) \cup {e}
         /\ IsInjective(s) => IsInjective(With(s, e))
BY AppendElement DEF With

LEMMA HeadTailElements ==
  ASSUME NEW S, NEW s \in Seq(S), s # << >>
  PROVE  /\ Head(s) \in S /\ Tail(s) \in Seq(S)
         /\ Range(s) = {Head(s)} \cup Range(Tail(s))
<1> DEFINE n == Len(s)
           t == Tail(s)
<1>1. /\ n \in Nat \ {0} /\ Head(s) = s[1] /\ t \in Seq(S)
      /\ DOMAIN t = 1..(n - 1) /\ DOMAIN s = 1..n
      /\ \A i \in 1..(n - 1) : t[i] = s[i + 1]
  OBVIOUS
<1> HIDE DEF n, t
<1>2. 1 \in DOMAIN s /\ \A i \in DOMAIN t : i + 1 \in DOMAIN s
  BY <1>1
<1>3. {Head(s)} \cup Range(t) \subseteq Range(s)
  BY <1>1, <1>2 DEF Range
<1>4. ASSUME NEW i \in DOMAIN s PROVE s[i] = Head(s) \/ s[i] \in Range(t)
  <2>1. CASE i = 1
    BY <1>1, <2>1
  <2>2. CASE i # 1
    <3>1. i - 1 \in DOMAIN t /\ t[i - 1] = s[i]
      BY <1>1, <2>2
    <3> QED BY <3>1 DEF Range
  <2> QED BY <2>1, <2>2
<1>5. Range(s) \subseteq {Head(s)} \cup Range(t)
  BY <1>4 DEF Range
<1> QED BY <1>1, <1>2, <1>3, <1>5 DEF t

(* One list behind another.                                                *)
LEMMA JoinedElements ==
  ASSUME NEW S, NEW s \in Seq(S), NEW t \in Seq(S)
  PROVE  /\ s \o t \in Seq(S)
         /\ Range(s \o t) = Range(s) \cup Range(t)
         /\ IsInjective(s) /\ IsInjective(t) /\ Range(s) \cap Range(t) = {} => IsInjective(s \o t)
<1> DEFINE n == Len(s)
           m == Len(t)
           u == s \o t
<1>1. /\ u \in Seq(S) /\ DOMAIN u = 1..(n + m) /\ n \in Nat /\ m \in Nat
      /\ DOMAIN s = 1..n /\ DOMAIN t = 1..m
      /\ \A k \in 1..n : u[k] = s[k]
      /\ \A k \in 1..m : u[n + k] = t[k]
  OBVIOUS
<1> HIDE DEF u, n, m
<1>2. \A k \in 1..(n + m) : k \in 1..n \/ \E j \in 1..m : k = n + j
  <2> SUFFICES ASSUME NEW k \in 1..(n + m), k \notin 1..n PROVE \E j \in 1..m : k = n + j
    OBVIOUS
  <2>1. k - n \in 1..m /\ k = n + (k - n)
    BY <1>1
  <2> QED BY <2>1
<1>3. \A j \in 1..m : n + j \in 1..(n + m)
  BY <1>1
<1>4. Range(u) = Range(s) \cup Range(t)
  <2>1. \A k \in 1..(n + m) : u[k] \in Range(s) \cup Range(t)
    BY <1>1, <1>2 DEF Range
  <2>2. \A k \in 1..n : k \in 1..(n + m)
    BY <1>1
  <2>3. Range(s) \subseteq Range(u)
    BY <1>1, <2>2 DEF Range
  <2>4. Range(t) \subseteq Range(u)
    BY <1>1, <1>3 DEF Range
  <2> QED BY <1>1, <2>1, <2>3, <2>4 DEF Range
<1>5. ASSUME IsInjective(s), IsInjective(t), Range(s) \cap Range(t) = {},
             NEW a \in 1..(n + m), NEW b \in 1..(n + m), u[a] = u[b]
      PROVE  a = b
  <2>1. CASE a \in 1..n /\ b \in 1..n
    BY <1>1, <1>5, <2>1 DEF IsInjective
  <2>2. CASE a \in 1..n /\ b \notin 1..n
    <3>1. PICK j \in 1..m : b = n + j
      BY <1>2, <2>2
    <3>2. u[a] \in Range(s) /\ u[b] \in Range(t)
      BY <1>1, <2>2, <3>1 DEF Range
    <3> QED BY <1>5, <3>2
  <2>3. CASE a \notin 1..n /\ b \in 1..n
    <3>1. PICK j \in 1..m : a = n + j
      BY <1>2, <2>3
    <3>2. u[b] \in Range(s) /\ u[a] \in Range(t)
      BY <1>1, <2>3, <3>1 DEF Range
    <3> QED BY <1>5, <3>2
  <2>4. CASE a \notin 1..n /\ b \notin 1..n
    <3>1. PICK i \in 1..m, j \in 1..m : a = n + i /\ b = n + j
      BY <1>2, <2>4
    <3>2. t[i] = t[j]
      BY <1>1, <1>5, <3>1
    <3>3. i = j
      BY <1>1, <1>5, <3>2 DEF IsInjective
    <3> QED BY <3>1, <3>3
  <2> QED BY <2>1, <2>2, <2>3, <2>4
<1>6. IsInjective(s) /\ IsInjective(t) /\ Range(s) \cap Range(t) = {} => IsInjective(u)
  BY <1>1, <1>5 DEF IsInjective
<1> QED BY <1>1, <1>4, <1>6 DEF u

LEMMA CountingList ==
  ASSUME NEW n \in Nat
  PROVE  LET t == [i \in 1..n |-> i] IN t \in Seq(Nat) /\ Range(t) = 1..n
<1> DEFINE t == [i \in 1..n |-> i]
<1>1. t \in Seq(Nat)
  OBVIOUS
<1>2. Range(t) = 1..n
  BY DEF Range
<1> QED BY <1>1, <1>2

LEMMA ReplacedElement ==
  ASSUME NEW S, NEW s \in Seq(S), NEW i \in DOMAIN s, NEW e \in S
  PROVE  LET t == [s EXCEPT ![i] = e] IN
         /\ t \in Seq(S) /\ DOMAIN t = DOMAIN s /\ Len(t) = Len(s)
         /\ t[i] = e /\ \A k \in DOMAIN s \ {i} : t[k] = s[k]
OBVIOUS

(* A list that names nobody twice is as long as there are names in it.     *)
LEMMA InjectiveLength ==
  ASSUME NEW S, NEW s \in Seq(S)
  PROVE  /\ IsFiniteSet(Range(s)) /\ Cardinality(Range(s)) \in Nat
         /\ IsInjective(s) <=> Len(s) = Cardinality(Range(s))
<1>1. Len(s) \in Nat /\ DOMAIN s = 1..Len(s) /\ IsFiniteSet(1..Len(s)) /\ Cardinality(1..Len(s)) = Len(s)
  <2>1. Len(s) \in Nat /\ DOMAIN s = 1..Len(s) /\ 1 \in Int /\ Len(s) \in Int
    OBVIOUS
  <2>2. IsFiniteSet(1..Len(s)) /\ Cardinality(1..Len(s)) = IF 1 > Len(s) THEN 0 ELSE Len(s) - 1 + 1
    BY ONLY <2>1, FS_Interval
  <2> QED BY <2>1, <2>2
<1>2. s \in [1..Len(s) -> Range(s)]
  BY <1>1 DEF Range
<1>3. s \in Surjection(1..Len(s), Range(s))
  BY <1>1, <1>2 DEF Surjection, Range
<1>4. /\ IsFiniteSet(Range(s))
      /\ Cardinality(Range(s)) = Len(s) <=> s \in Injection(1..Len(s), Range(s))
  BY <1>1, <1>3, FS_Surjection
<1>5. s \in Injection(1..Len(s), Range(s)) <=> IsInjective(s)
  BY <1>1, <1>2 DEF Injection, IsInjective
<1> QED BY <1>4, <1>5, FS_CardinalityType

-----------------------------------------------------------------------------
(* Sums.                                                                   *)

LEMMA SumsAre ==
  ASSUME NEW f, NEW n \in Nat
  PROVE  Sums(f, n) = [i \in 0..n |-> IF i = 0 THEN 0 ELSE Sums(f, n)[i - 1] + f[i]]
<1> DEFINE Fits(g, m) == g = [i \in 0..m |-> IF i = 0 THEN 0 ELSE g[i - 1] + f[i]]
           T == {m \in Nat : \E g : Fits(g, m)}
<1>1. 0 \in T
  <2> DEFINE g == [i \in 0..0 |-> 0]
  <2>1. Fits(g, 0)
    OBVIOUS
  <2> QED BY <2>1
<1>2. ASSUME NEW m \in Nat, m \in T PROVE m + 1 \in T
  <2>1. PICK g : Fits(g, m)
    BY <1>2
  <2> DEFINE last == g[m] + f[m + 1]
             h == [i \in 0..(m + 1) |-> IF i = m + 1 THEN last ELSE g[i]]
  <2>2. ASSUME NEW i \in 0..(m + 1) PROVE h[i] = IF i = 0 THEN 0 ELSE h[i - 1] + f[i]
    <3>1. i # 0 => i - 1 \in 0..m /\ h[i - 1] = g[i - 1]
      OBVIOUS
    <3>2. i # m + 1 => i \in 0..m /\ g[i] = IF i = 0 THEN 0 ELSE g[i - 1] + f[i]
      BY <2>1
    <3>3. (m + 1) - 1 = m /\ m + 1 # 0
      OBVIOUS
    <3> QED BY <3>1, <3>2, <3>3
  <2>3. Fits(h, m + 1)
    BY <2>2
  <2> HIDE DEF Fits, h
  <2> QED BY <2>3
<1>3. n \in T
  <2> HIDE DEF T
  <2>1. Nat \subseteq T
    BY <1>1, <1>2, NumberInduction
  <2> QED BY <2>1
<1> QED BY <1>3 DEF Sums

(* Up to b, g differs from f by c at k.                                    *)
Differs(f, g, b, k, c) ==
  \A i \in 1..b : f[i] \in Nat /\ g[i] = IF i = k THEN f[i] + c ELSE f[i]

Shows(f, g, n, m, b, k, c) ==
  /\ Sums(f, n)[b] \in Nat
  /\ Sums(g, m)[b] = IF 1 <= k /\ k <= b THEN Sums(f, n)[b] + c ELSE Sums(f, n)[b]

(* A change of c at k shows in the sums from k on; with c = 0, sums of     *)
(* functions that agree are the same.                                      *)
LEMMA SumsChange ==
  ASSUME NEW f, NEW g, NEW n \in Nat, NEW m \in Nat, NEW k \in Nat, NEW c \in Int, NEW b \in Nat,
         b <= n, b <= m, Differs(f, g, b, k, c)
  PROVE  Shows(f, g, n, m, b, k, c)
<1> DEFINE F == Sums(f, n)
           G == Sums(g, m)
           T == {i \in Nat : i <= b => /\ F[i] \in Nat
                                       /\ G[i] = IF 1 <= k /\ k <= i THEN F[i] + c ELSE F[i]}
<1>1. /\ \A i \in 0..n : F[i] = IF i = 0 THEN 0 ELSE F[i - 1] + f[i]
      /\ \A i \in 0..m : G[i] = IF i = 0 THEN 0 ELSE G[i - 1] + g[i]
  <2>1. F = [i \in 0..n |-> IF i = 0 THEN 0 ELSE F[i - 1] + f[i]]
    BY SumsAre
  <2>2. G = [i \in 0..m |-> IF i = 0 THEN 0 ELSE G[i - 1] + g[i]]
    BY SumsAre
  <2> HIDE DEF F, G
  <2> QED BY <2>1, <2>2
<1> HIDE DEF F, G
<1>2. 0 \in T
  <2>1. F[0] = 0 /\ G[0] = 0
    BY <1>1
  <2> QED BY <2>1
<1>3. ASSUME NEW i \in Nat, i \in T PROVE i + 1 \in T
  <2> SUFFICES ASSUME i + 1 <= b
               PROVE  /\ F[i + 1] \in Nat
                      /\ G[i + 1] = IF 1 <= k /\ k <= i + 1 THEN F[i + 1] + c ELSE F[i + 1]
    OBVIOUS
  <2>1. F[i] \in Nat /\ G[i] = IF 1 <= k /\ k <= i THEN F[i] + c ELSE F[i]
    BY <1>3
  <2>2. /\ i + 1 \in 0..n /\ i + 1 \in 0..m /\ i + 1 # 0 /\ (i + 1) - 1 = i /\ i + 1 \in 1..b
    OBVIOUS
  <2>3. F[i + 1] = F[i] + f[i + 1] /\ G[i + 1] = G[i] + g[i + 1]
    BY <1>1, <2>2
  <2>4. f[i + 1] \in Nat /\ g[i + 1] = IF i + 1 = k THEN f[i + 1] + c ELSE f[i + 1]
    BY <2>2 DEF Differs
  <2> QED BY <2>1, <2>3, <2>4
<1>4. b \in T
  <2> HIDE DEF T
  <2>1. Nat \subseteq T
    BY <1>2, <1>3, NumberInduction
  <2> QED BY <2>1
<1> QED BY <1>4 DEF F, G, Shows

Shifts(f, g, n, k, c) ==
  /\ SumOf(f, n) \in Nat
  /\ SumOf(g, n) = IF 1 <= k /\ k <= n THEN SumOf(f, n) + c ELSE SumOf(f, n)

LEMMA SumChange ==
  ASSUME NEW f, NEW g, NEW n \in Nat, NEW k \in Nat, NEW c \in Int, Differs(f, g, n, k, c)
  PROVE  Shifts(f, g, n, k, c)
<1>1. n <= n
  OBVIOUS
<1>2. Shows(f, g, n, n, n, k, c)
  BY <1>1, SumsChange
<1> QED BY <1>2 DEF SumOf, Shows, Shifts

LEMMA SumExtend ==
  ASSUME NEW f, NEW g, NEW n \in Nat,
         \A i \in 1..n : f[i] \in Nat /\ g[i] = f[i]
  PROVE  SumOf(g, n + 1) = SumOf(f, n) + g[n + 1]
<1>1. Sums(g, n + 1)[n] = Sums(f, n)[n]
  <2> PICK m \in Nat : m = n + 1
    OBVIOUS
  <2> PICK k \in Nat : k = 0
    OBVIOUS
  <2>1. Differs(f, g, n, k, k)
    BY DEF Differs
  <2>2. k \in Int /\ n <= m /\ n <= n
    OBVIOUS
  <2>3. Shows(f, g, n, m, n, k, k)
    BY <2>1, <2>2, SumsChange
  <2>4. Sums(g, m)[n] = Sums(f, n)[n]
    BY <2>3 DEF Shows
  <2> QED BY <2>4
<1>2. Sums(g, n + 1) = [i \in 0..(n + 1) |-> IF i = 0 THEN 0 ELSE Sums(g, n + 1)[i - 1] + g[i]]
  BY SumsAre
<1>3. Sums(g, n + 1)[n + 1] = Sums(g, n + 1)[n] + g[n + 1]
  <2> PICK G : G = Sums(g, n + 1)
    OBVIOUS
  <2>1. G = [i \in 0..(n + 1) |-> IF i = 0 THEN 0 ELSE G[i - 1] + g[i]]
    BY <1>2
  <2>2. n + 1 \in 0..(n + 1) /\ n + 1 # 0 /\ (n + 1) - 1 = n
    OBVIOUS
  <2>3. G[n + 1] = G[n] + g[n + 1]
    BY <2>1, <2>2
  <2> QED BY <2>3
<1> QED BY <1>1, <1>3 DEF SumOf

LEMMA SumOfNothing ==
  ASSUME NEW f PROVE SumOf(f, 0) = 0
<1>1. Sums(f, 0) = [i \in 0..0 |-> IF i = 0 THEN 0 ELSE Sums(f, 0)[i - 1] + f[i]]
  BY SumsAre
<1>2. Sums(f, 0)[0] = 0
  BY <1>1
<1> QED BY <1>2 DEF SumOf

LEMMA SumOfZeros ==
  ASSUME NEW f, NEW n \in Nat, \A i \in 1..n : f[i] = 0
  PROVE  SumOf(f, n) = 0
<1> DEFINE F == Sums(f, n)
           T == {i \in Nat : i <= n => F[i] = 0}
<1>1. \A i \in 0..n : F[i] = IF i = 0 THEN 0 ELSE F[i - 1] + f[i]
  <2>1. F = [i \in 0..n |-> IF i = 0 THEN 0 ELSE F[i - 1] + f[i]]
    BY SumsAre
  <2> HIDE DEF F
  <2> QED BY <2>1
<1> HIDE DEF F
<1>2. 0 \in T
  BY <1>1
<1>3. ASSUME NEW i \in Nat, i \in T PROVE i + 1 \in T
  BY <1>1, <1>3
<1>4. n \in T
  <2> HIDE DEF T
  <2>1. Nat \subseteq T
    BY <1>2, <1>3, NumberInduction
  <2> QED BY <2>1
<1> QED BY <1>4 DEF F, SumOf

=============================================================================
