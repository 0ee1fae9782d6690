---------------------------- MODULE RouterProofs ----------------------------
(* Three promises of the LLM router, for every configuration: a request     *)
(* that fails has overlooked no candidate, an ensemble that fails had no    *)
(* answer it could have used, and the daily budget is overrun by what was   *)
(* under way at most.  The first two rest on one invariant of the requests  *)
(* and the completions in flight; it follows each candidate from the        *)
(* configuration through the sorts and filters of a request, so it needs    *)
(* the facts about sequences with which the module begins.  The third       *)
(* counts, for each caller, what he may still add to the total.             *)
EXTENDS Router, TLAPS, FiniteSetTheorems, WellFoundedInduction, NaturalsInduction

-----------------------------------------------------------------------------
(* Induction and recursion over the numbers, and sequences. *)

\* A set of numbers has a least element, which is what induction rests on below.
LEMMA LeastNat ==
    ASSUME NEW X \in SUBSET Nat, X # {}
    PROVE  \E m \in X : \A k \in X : m <= k
<1> DEFINE R == OpToRel(<, Nat)
<1>1. IsWellFoundedOn(R, Nat)
  BY NatLessThanWellFounded
<1>2. \E x \in X : \A y \in X : ~(<<y, x>> \in R)
  <2> HIDE DEF R
  <2>1. X \subseteq Nat
    OBVIOUS
  <2> QED BY <1>1, <2>1, WFMin, Zenon
<1>3. PICK m \in X : \A y \in X : ~(<<y, m>> \in R)
  BY <1>2
<1>4. \A y \in X : ~(y < m)
  BY <1>3, X \subseteq Nat DEF OpToRel
<1>5. \A k \in X : m <= k
  BY <1>4
<1> QED BY <1>5, Zenon

\* A set of numbers that holds 0 and every successor of a member holds them all.
LEMMA Induction ==
    ASSUME NEW S \in SUBSET Nat, 0 \in S, \A n \in S : n + 1 \in S
    PROVE  S = Nat
<1> DEFINE X == Nat \ S
<1> SUFFICES ASSUME X # {} PROVE FALSE
  OBVIOUS
<1>1. X \in SUBSET Nat
  OBVIOUS
<1>2. PICK m \in X : \A k \in X : m <= k
  <2> HIDE DEF X
  <2> QED BY <1>1, LeastNat
<1>3. m \in Nat /\ m # 0
  OBVIOUS
<1>4. m - 1 \in Nat /\ ~(m <= m - 1)
  BY <1>3
<1>5. m - 1 \in S
  BY <1>2, <1>4
<1>6. (m - 1) + 1 \in S
  BY <1>5
<1> QED BY <1>6, <1>3

\* Primitive recursion with values in S has a solution, and every solution has its values in S.
Solves(f, b, step, n) == f = [k \in 0..n |-> IF k = 0 THEN b ELSE step[f[k - 1]][k]]

\* The recursion has a solution whose values are in S.
LEMMA RecursionExists ==
    ASSUME NEW S, NEW b \in S, NEW n \in Nat, NEW step \in [S -> [Nat -> S]]
    PROVE  \E f \in [0..n -> S] : Solves(f, b, step, n)
<1> DEFINE M == {m \in Nat : \E f \in [0..m -> S] : Solves(f, b, step, m)}
<1>1. 0 \in M
  <2> DEFINE f == [k \in 0..0 |-> b]
  <2>1. f \in [0..0 -> S] /\ Solves(f, b, step, 0)
    BY DEF Solves
  <2> HIDE DEF f
  <2> QED BY <2>1
<1>2. ASSUME NEW m \in M PROVE m + 1 \in M
  <2>0. m \in Nat /\ \E f \in [0..m -> S] : Solves(f, b, step, m)
    OBVIOUS
  <2> HIDE DEF M
  <2> PICK f \in [0..m -> S] : Solves(f, b, step, m)
    BY <2>0
  <2> DEFINE g == [k \in 0..(m + 1) |-> IF k <= m THEN f[k] ELSE step[f[m]][m + 1]]
  <2>1. m \in Nat /\ f[m] \in S /\ step[f[m]][m + 1] \in S
    BY <2>0
  <2>2. g \in [0..(m + 1) -> S]
    BY <2>1
  <2>3. \A k \in 0..m : f[k] = IF k = 0 THEN b ELSE step[f[k - 1]][k]
    BY DEF Solves
  <2>4. ASSUME NEW k \in 0..(m + 1) PROVE g[k] = IF k = 0 THEN b ELSE step[g[k - 1]][k]
    <3>1. CASE k = 0
      BY <2>1, <2>3, <3>1
    <3>2. CASE k # 0 /\ k <= m
      BY <2>1, <2>3, <3>2
    <3>3. CASE k = m + 1
      BY <2>1, <3>3
    <3> QED BY <2>1, <3>1, <3>2, <3>3
  <2>5. g = [k \in 0..(m + 1) |-> g[k]]
    OBVIOUS
  <2> HIDE DEF g
  <2>6. Solves(g, b, step, m + 1)
    BY <2>4, <2>5 DEF Solves
  <2>7. \E h \in [0..(m + 1) -> S] : Solves(h, b, step, m + 1)
    BY <2>2, <2>6
  <2> QED BY <2>1, <2>7 DEF M
<1>3. M \in SUBSET Nat
  OBVIOUS
<1>4. n \in M
  <2> HIDE DEF M
  <2> QED BY <1>1, <1>2, <1>3, Induction
<1> QED BY <1>4

\* What holds of the first value and passes from each to the next holds of all of them.
LEMMA RecursionTyped ==
    ASSUME NEW S, NEW b \in S, NEW n \in Nat, NEW f,
           DOMAIN f = 0..n, f[0] = b, \A k \in 1..n : f[k - 1] \in S => f[k] \in S
    PROVE  \A k \in 0..n : f[k] \in S
<1> DEFINE M == {m \in Nat : m <= n => f[m] \in S}
<1>1. 0 \in M /\ M \in SUBSET Nat
  OBVIOUS
<1>2. ASSUME NEW m \in M PROVE m + 1 \in M
  <2> SUFFICES ASSUME m + 1 <= n PROVE f[m + 1] \in S
    OBVIOUS
  <2>1. m + 1 \in 1..n /\ (m + 1) - 1 = m /\ f[m] \in S
    OBVIOUS
  <2> QED BY <2>1
<1>3. M = Nat
  <2> HIDE DEF M
  <2> QED BY <1>1, <1>2, Induction
<1> QED BY <1>3

-----------------------------------------------------------------------------
(* Sequences. *)

\* The partial results of Selected.
Upto(s, I) == CHOOSE u : u = [n \in 0..Len(s) |-> IF n = 0 THEN <<>> ELSE IF n \in I THEN Append(u[n - 1], s[n]) ELSE u[n - 1]]

\* Selected is the last of its partial results, each of which extends the one before.
LEMMA UptoExists ==
    ASSUME NEW S, NEW s \in Seq(S), NEW I
    PROVE  /\ Selected(s, I) = Upto(s, I)[Len(s)]
           /\ Upto(s, I)[0] = <<>>
           /\ \A n \in 1..Len(s) : Upto(s, I)[n] = IF n \in I THEN Append(Upto(s, I)[n - 1], s[n]) ELSE Upto(s, I)[n - 1]
           /\ \A n \in 0..Len(s) : Upto(s, I)[n] \in Seq(S)
<1> DEFINE L == Len(s)
           T == Seq(S)
           step == [t \in T |-> [n \in Nat |-> IF n \in I /\ n \in 1..L THEN Append(t, s[n]) ELSE t]]
           Is(u) == u = [n \in 0..L |-> IF n = 0 THEN <<>> ELSE IF n \in I THEN Append(u[n - 1], s[n]) ELSE u[n - 1]]
<1>1. L \in Nat /\ <<>> \in T
  OBVIOUS
<1>2. step \in [T -> [Nat -> T]]
  OBVIOUS
<1>3. \A t \in T, n \in 1..L : step[t][n] = IF n \in I THEN Append(t, s[n]) ELSE t
  OBVIOUS
<1> HIDE DEF step, L, T
<1>4. PICK f \in [0..L -> T] : Solves(f, <<>>, step, L)
  BY <1>1, <1>2, RecursionExists
<1>5. \A n \in 0..L : f[n] = IF n = 0 THEN <<>> ELSE IF n \in I THEN Append(f[n - 1], s[n]) ELSE f[n - 1]
  <2> SUFFICES ASSUME NEW n \in 0..L
               PROVE  f[n] = IF n = 0 THEN <<>> ELSE IF n \in I THEN Append(f[n - 1], s[n]) ELSE f[n - 1]
    OBVIOUS
  <2>1. f[n] = IF n = 0 THEN <<>> ELSE step[f[n - 1]][n]
    BY <1>4 DEF Solves
  <2>2. CASE n = 0
    BY <2>1, <2>2
  <2>3. CASE n # 0
    <3>1. n \in 1..L /\ n - 1 \in 0..L
      BY <1>1, <2>3
    <3> QED BY <1>3, <2>1, <2>3, <3>1
  <2> QED BY <2>2, <2>3
<1>6. Is(f)
  BY <1>5
<1>7. Is(Upto(s, I))
  BY <1>6 DEF Upto, L
<1> DEFINE u == Upto(s, I)
<1> HIDE DEF u
<1>8. DOMAIN u = 0..L /\ \A n \in 0..L : u[n] = IF n = 0 THEN <<>> ELSE IF n \in I THEN Append(u[n - 1], s[n]) ELSE u[n - 1]
  BY <1>7 DEF u
<1>9. u[0] = <<>>
  BY <1>1, <1>8
<1>10. \A n \in 1..L : u[n] = IF n \in I THEN Append(u[n - 1], s[n]) ELSE u[n - 1]
  <2>1. \A n \in 1..L : n \in 0..L /\ n # 0
    BY <1>1
  <2> QED BY <1>8, <2>1
<1>11. ASSUME NEW n \in 1..L, u[n - 1] \in T PROVE u[n] \in T
  <2>1. s[n] \in S
    BY DEF L
  <2>2. Append(u[n - 1], s[n]) \in T
    BY <1>11, <2>1 DEF T
  <2> QED BY <1>10, <1>11, <2>2
<1>12. \A n \in 0..L : u[n] \in T
  BY <1>1, <1>8, <1>9, <1>11, RecursionTyped
<1>13. Selected(s, I) = Upto(s, I)[L]
  BY DEF Selected, Upto, L
<1> QED BY <1>9, <1>10, <1>12, <1>13 DEF u, L, T

\* What Selected picks: some of the elements, and one of them for each position asked for.
LEMMA SelectedTyped ==
    ASSUME NEW S, NEW s \in Seq(S), NEW I
    PROVE  Selected(s, I) \in Seq(S)
BY UptoExists

\* What is selected comes from a position asked for, and something is when there is one.
LEMMA SelectedPicks ==
    ASSUME NEW S, NEW s \in Seq(S), NEW I
    PROVE  /\ \A k \in DOMAIN Selected(s, I) : \E i \in DOMAIN s : i \in I /\ Selected(s, I)[k] = s[i]
           /\ (\E i \in DOMAIN s : i \in I) => Selected(s, I) # <<>>
<1> DEFINE L == Len(s)
           u == Upto(s, I)
           Good(n) == /\ \A k \in 1..Len(u[n]) : \E i \in 1..L : i \in I /\ u[n][k] = s[i]
                      /\ (\E i \in 1..n : i \in I) => Len(u[n]) > 0
           M == {n \in Nat : n <= L => Good(n)}
<1>1. /\ L \in Nat /\ u[0] = <<>> /\ \A n \in 0..L : u[n] \in Seq(S)
      /\ \A n \in 1..L : u[n] = IF n \in I THEN Append(u[n - 1], s[n]) ELSE u[n - 1]
      /\ Selected(s, I) = u[L]
  BY UptoExists
<1> HIDE DEF u, L
<1>2. 0 \in M /\ M \in SUBSET Nat
  BY <1>1
<1>3. ASSUME NEW n \in M PROVE n + 1 \in M
  <2> SUFFICES ASSUME n + 1 <= L PROVE Good(n + 1)
    OBVIOUS
  <2>1. Good(n) /\ n + 1 \in 1..L /\ (n + 1) - 1 = n /\ u[n] \in Seq(S) /\ n \in Nat
    BY <1>1
  <2>2. CASE n + 1 \in I
    <3>1. u[n + 1] = Append(u[n], s[n + 1])
      BY <1>1, <2>1, <2>2
    <3>2. Len(u[n + 1]) = Len(u[n]) + 1 /\ Len(u[n]) \in Nat /\ u[n + 1][Len(u[n]) + 1] = s[n + 1]
          /\ \A k \in 1..Len(u[n]) : u[n + 1][k] = u[n][k]
      BY <2>1, <3>1
    <3>3. \A k \in 1..Len(u[n + 1]) : k \in 1..Len(u[n]) \/ k = Len(u[n]) + 1
      BY <3>2
    <3> QED BY <2>1, <2>2, <3>2, <3>3
  <2>3. CASE n + 1 \notin I
    <3>1. u[n + 1] = u[n]
      BY <1>1, <2>1, <2>3
    <3>2. \A i \in 1..(n + 1) : i \in I => i \in 1..n
      BY <2>1, <2>3
    <3> QED BY <2>1, <3>1, <3>2
  <2> QED BY <2>2, <2>3
<1>4. L \in M
  <2> HIDE DEF M
  <2> QED BY <1>1, <1>2, <1>3, Induction
<1>5. Good(L) /\ u[L] \in Seq(S) /\ DOMAIN s = 1..L
  BY <1>1, <1>4 DEF L
<1>6. DOMAIN u[L] = 1..Len(u[L]) /\ (Len(u[L]) > 0 => u[L] # <<>>)
  BY <1>5
<1> QED BY <1>1, <1>5, <1>6

\* The concatenation of sequences over S is one.
LEMMA FlattenTyped ==
    ASSUME NEW S, NEW ss \in Seq(Seq(S))
    PROVE  FlattenSeq(ss) \in Seq(S)
<1> DEFINE n == Len(ss)
           T == Seq(S)
           Is(f) == f = [i \in 1..n |-> IF i = 1 THEN ss[i] ELSE f[i - 1] \o ss[i]]
           flat == CHOOSE f : Is(f)
           step == [t \in T |-> [k \in Nat |-> IF k + 1 \in 1..n THEN t \o ss[k + 1] ELSE t]]
<1>1. n \in Nat /\ DOMAIN ss = 1..n /\ \A i \in 1..n : ss[i] \in T
  OBVIOUS
<1>2. CASE n = 0
  <2>1. ss = <<>>
    BY <1>2
  <2> QED BY <1>2, <2>1 DEF FlattenSeq
<1>3. CASE n # 0
  <2>1. n - 1 \in Nat /\ ss[1] \in T
    BY <1>1, <1>3
  <2>2. step \in [T -> [Nat -> T]] /\ \A t \in T, k \in Nat : k + 1 \in 1..n => step[t][k] = t \o ss[k + 1]
    BY <1>1
  <2> HIDE DEF step, n, T
  <2>3. PICK g \in [0..(n - 1) -> T] : Solves(g, ss[1], step, n - 1)
    BY <2>1, <2>2, RecursionExists
  <2> DEFINE f == [i \in 1..n |-> g[i - 1]]
  <2>4. \A k \in 0..(n - 1) : g[k] \in T /\ g[k] = IF k = 0 THEN ss[1] ELSE step[g[k - 1]][k]
    BY <2>3 DEF Solves
  <2>5. ASSUME NEW i \in 1..n PROVE f[i] = IF i = 1 THEN ss[i] ELSE f[i - 1] \o ss[i]
    <3>0. i \in Int /\ 1 <= i /\ i <= n
      BY <1>1
    <3>1. i - 1 \in 0..(n - 1) /\ f[i] = g[i - 1]
      BY <1>1, <3>0
    <3>2. CASE i = 1
      <4>1. g[0] = ss[1] /\ i - 1 = 0
        BY <2>1, <2>4, <3>2
      <4> QED BY <3>1, <3>2, <4>1
    <3>3. CASE i # 1
      <4>1. /\ i - 1 # 0 /\ (i - 1) - 1 \in 0..(n - 1) /\ i - 1 \in 1..n /\ i - 1 \in Nat
            /\ (i - 1) + 1 = i
        BY <1>1, <3>0, <3>3
      <4>2. g[i - 1] = step[g[(i - 1) - 1]][i - 1] /\ g[(i - 1) - 1] \in T
        BY <2>4, <3>1, <4>1
      <4>3. f[i - 1] = g[(i - 1) - 1]
        BY <4>1
      <4>4. step[g[(i - 1) - 1]][i - 1] = g[(i - 1) - 1] \o ss[i]
        BY <2>2, <4>1, <4>2
      <4> HIDE DEF f
      <4> QED BY <3>1, <3>3, <4>2, <4>3, <4>4
    <3> QED BY <3>2, <3>3
  <2>6. f = [i \in 1..n |-> f[i]]
    OBVIOUS
  <2> HIDE DEF f
  <2>7. Is(f)
    BY <2>5, <2>6
  <2>8. Is(flat)
    <3> HIDE DEF Is
    <3> QED BY <2>7
  <2> HIDE DEF flat
  <2> DEFINE h == [k \in 0..(n - 1) |-> flat[k + 1]]
  <2>9. \A i \in 1..n : flat[i] = IF i = 1 THEN ss[i] ELSE flat[i - 1] \o ss[i]
    BY <2>8
  <2>10. DOMAIN h = 0..(n - 1) /\ h[0] = ss[1]
    <3>1. 0 \in 0..(n - 1) /\ 0 + 1 = 1 /\ 1 \in 1..n
      BY <1>1, <1>3
    <3> QED BY <2>9, <3>1
  <2>11. ASSUME NEW k \in 1..(n - 1), h[k - 1] \in T PROVE h[k] \in T
    <3>1. k \in 0..(n - 1) /\ k - 1 \in 0..(n - 1) /\ k + 1 \in 1..n /\ k + 1 # 1 /\ (k + 1) - 1 = k /\ (k - 1) + 1 = k
      BY <1>1
    <3>2. h[k] = flat[k + 1] /\ h[k - 1] = flat[k]
      BY <3>1
    <3>3. flat[k + 1] = flat[k] \o ss[k + 1]
      BY <2>9, <3>1
    <3>4. flat[k] \o ss[k + 1] \in T
      BY <1>1, <2>11, <3>1, <3>2 DEF T
    <3> QED BY <3>2, <3>3, <3>4
  <2>12. \A k \in 0..(n - 1) : h[k] \in T
    <3> HIDE DEF h
    <3> QED BY <2>1, <2>10, <2>11, RecursionTyped
  <2>13. n - 1 \in 0..(n - 1) /\ (n - 1) + 1 = n
    BY <1>1, <1>3
  <2>14. flat[n] \in T
    <3>1. h[n - 1] = flat[(n - 1) + 1]
      BY <2>13
    <3> QED BY <2>12, <2>13, <3>1
  <2>15. FlattenSeq(ss) = flat[n]
    BY <1>3 DEF FlattenSeq, flat, n
  <2> QED BY <2>14, <2>15 DEF T
<1> QED BY <1>2, <1>3

\* Of the elements of a sequence at the positions in I one is first in a total preorder.
TotalPreorder(R, S) ==
    /\ \A a, b \in S : <<a, b>> \in R \/ <<b, a>> \in R
    /\ \A a, b, c \in S : <<a, b>> \in R /\ <<b, c>> \in R => <<a, c>> \in R

\* Such an element exists, which is what the sorts of the candidates rest on.
LEMMA FirstExists ==
    ASSUME NEW S, NEW R, TotalPreorder(R, S), NEW s \in Seq(S), NEW I, I \subseteq DOMAIN s, I # {}
    PROVE  \E i \in I : \A j \in I : <<s[i], s[j]>> \in R
<1> DEFINE L == Len(s)
           First(m) == (\E i \in I : i <= m) => \E i \in I : i <= m /\ \A j \in I : j <= m => <<s[i], s[j]>> \in R
           M == {m \in Nat : First(m)}
<1> USE DEF TotalPreorder
<1>1. L \in Nat /\ I \subseteq 1..L /\ \A i \in 1..L : s[i] \in S
  OBVIOUS
<1>2. 0 \in M /\ M \in SUBSET Nat
  BY <1>1
<1>3. ASSUME NEW m \in M PROVE m + 1 \in M
  <2>1. m \in Nat /\ m + 1 \in Nat /\ First(m)
    OBVIOUS
  <2>2. \A j \in I : j \in Int /\ s[j] \in S
    BY <1>1
  <2>3. CASE m + 1 \notin I
    <3>1. \A j \in I : j <= m + 1 <=> j <= m
      BY <2>1, <2>2, <2>3
    <3> QED BY <2>1, <3>1
  <2>4. CASE m + 1 \in I /\ ~\E i \in I : i <= m
    <3>1. \A j \in I : j <= m + 1 => j = m + 1
      BY <2>1, <2>2, <2>4
    <3>2. <<s[m + 1], s[m + 1]>> \in R
      BY <2>2, <2>4
    <3> QED BY <2>1, <2>4, <3>1, <3>2
  <2>5. CASE m + 1 \in I /\ \E i \in I : i <= m
    <3>1. PICK i \in I : i <= m /\ \A j \in I : j <= m => <<s[i], s[j]>> \in R
      BY <2>1, <2>5
    <3>2. \A j \in I : j <= m + 1 => j <= m \/ j = m + 1
      BY <2>1, <2>2
    <3>3. CASE <<s[i], s[m + 1]>> \in R
      <4>1. i <= m + 1 /\ \A j \in I : j <= m + 1 => <<s[i], s[j]>> \in R
        BY <2>1, <2>2, <3>1, <3>2, <3>3
      <4>2. First(m + 1)
        BY <4>1
      <4> QED BY <2>1, <4>2
    <3>4. CASE <<s[m + 1], s[i]>> \in R
      <4>1. \A j \in I : j <= m + 1 => <<s[m + 1], s[j]>> \in R
        BY <2>2, <2>5, <3>1, <3>2, <3>4
      <4>2. First(m + 1)
        BY <2>1, <2>5, <4>1
      <4> QED BY <2>1, <4>2
    <3> QED BY <2>2, <2>5, <3>3, <3>4
  <2> QED BY <2>3, <2>4, <2>5
<1>4. L \in M
  <2> HIDE DEF M
  <2> QED BY <1>1, <1>2, <1>3, Induction
<1>5. \A j \in I : j <= L
  BY <1>1
<1> QED BY <1>4, <1>5

\* The least and the greatest of numbers.
LEMMA MinIn ==
    ASSUME NEW X \in SUBSET Nat, X # {}
    PROVE  Min(X) \in X
<1>1. \E m \in X : \A k \in X : m <= k
  BY LeastNat
<1> QED BY <1>1 DEF Min

\* The greatest of finitely many numbers is one of them.
LEMMA MaxIn ==
    ASSUME NEW n \in Nat, NEW X \in SUBSET (0..n), X # {}
    PROVE  Max(X) \in X
<1> DEFINE Y == {n - k : k \in X}
<1>0. \A k \in X : k \in Int /\ n - k \in Nat
  OBVIOUS
<1>1. Y \in SUBSET Nat /\ Y # {}
  BY <1>0
<1>2. PICK y \in Y : \A k \in Y : y <= k
  <2> HIDE DEF Y
  <2> QED BY <1>1, LeastNat
<1>3. PICK m \in X : y = n - m
  OBVIOUS
<1>4. \A k \in X : n - k \in Y /\ k \in Int /\ m \in Int
  OBVIOUS
<1>5. ASSUME NEW k \in X PROVE m >= k
  <2>1. n - m <= n - k /\ k \in Int /\ m \in Int
    BY <1>2, <1>3, <1>4
  <2> QED BY <2>1
<1> QED BY <1>5 DEF Max

\* The greater of two numbers.
LEMMA MaxPair ==
    ASSUME NEW a \in Int, NEW b \in Int
    PROVE  Max({a, b}) = IF a >= b THEN a ELSE b
<1> DEFINE m == IF a >= b THEN a ELSE b
<1>1. m \in {a, b} /\ m >= a /\ m >= b
  OBVIOUS
<1>2. \A x \in {a, b} : x >= a /\ x >= b => x = m
  OBVIOUS
<1> HIDE DEF m
<1> QED BY <1>1, <1>2 DEF Max, m

\* The lesser of two numbers.
LEMMA MinPair ==
    ASSUME NEW a \in Int, NEW b \in Int
    PROVE  Min({a, b}) = IF a <= b THEN a ELSE b
<1> DEFINE m == IF a <= b THEN a ELSE b
<1>1. m \in {a, b} /\ m <= a /\ m <= b
  OBVIOUS
<1>2. \A x \in {a, b} : x <= a /\ x <= b => x = m
  OBVIOUS
<1> HIDE DEF m
<1> QED BY <1>1, <1>2 DEF Min, m

-----------------------------------------------------------------------------
(* Ensembles: scores and orders of answers. *)

\* The actions of an answer, and the answers of the first n members.
Turns == Seq(Actions)
GotOf(n) == [i : 1..n, acts : Turns]

\* The score of an answer is a number, so that answers can be compared.
LEMMA ScoreTyped ==
    ASSUME NEW acts \in Turns
    PROVE  ScoreCodeResponse(acts) \in Int
<1> DEFINE n == Len(acts)
           score(a) ==
             IF a.tool \notin Writes THEN 0
             ELSE IF "empty" \in a.marks THEN -200
             ELSE (IF "long" \in a.marks THEN -100 ELSE 20)
                  - 50 * Cardinality(a.marks \cap Stubs)
                  + (IF "broken_go" \in a.marks THEN -150 ELSE IF "go" \in a.marks THEN 50 ELSE 0)
                  + 5 * a.asserts
           Is(f) == f = [k \in 0..n |-> IF k = 0 THEN 0 ELSE f[k - 1] + score(acts[k])]
           sum == CHOOSE f : Is(f)
           step == [t \in Int |-> [k \in Nat |-> IF k \in 1..n THEN t + score(acts[k]) ELSE t]]
<1>1. n \in Nat /\ \A k \in 1..n : acts[k] \in Actions
  BY DEF Turns
<1>2. ASSUME NEW a \in Actions PROVE score(a) \in Int
  <2>1. IsFiniteSet(Stubs)
    <3>1. IsFiniteSet({"todo"}) /\ IsFiniteSet({"panic"}) /\ IsFiniteSet({"pass"}) /\ IsFiniteSet({"elided"})
      BY FS_Singleton
    <3>2. IsFiniteSet({"todo"} \cup {"panic"}) /\ IsFiniteSet({"pass"} \cup {"elided"})
      BY <3>1, FS_Union
    <3>3. IsFiniteSet(({"todo"} \cup {"panic"}) \cup ({"pass"} \cup {"elided"}))
      BY <3>2, FS_Union
    <3>4. Stubs = ({"todo"} \cup {"panic"}) \cup ({"pass"} \cup {"elided"})
      BY DEF Stubs
    <3> QED BY <3>3, <3>4
  <2>2. IsFiniteSet(a.marks \cap Stubs)
    BY <2>1, FS_Subset
  <2>3. Cardinality(a.marks \cap Stubs) \in Nat
    BY <2>2, FS_CardinalityType
  <2> DEFINE card == Cardinality(a.marks \cap Stubs)
  <2>4. a.asserts \in Nat
    BY DEF Actions
  <2> HIDE DEF card
  <2> QED BY <2>3, <2>4 DEF card
<1> HIDE DEF score, n
<1>3. step \in [Int -> [Nat -> Int]] /\ \A t \in Int, k \in 1..n : step[t][k] = t + score(acts[k])
  BY <1>1, <1>2
<1> HIDE DEF step
<1>4. PICK f \in [0..n -> Int] : Solves(f, 0, step, n)
  BY <1>1, <1>3, 0 \in Int, RecursionExists
<1>5. ASSUME NEW k \in 0..n PROVE f[k] = IF k = 0 THEN 0 ELSE f[k - 1] + score(acts[k])
  <2>1. f[k] = IF k = 0 THEN 0 ELSE step[f[k - 1]][k]
    BY <1>4 DEF Solves
  <2>2. k # 0 => k \in 1..n /\ f[k - 1] \in Int
    BY <1>1
  <2> QED BY <1>3, <2>1, <2>2
<1>6. Is(f)
  BY <1>5
<1>7. Is(sum)
  <2> HIDE DEF Is
  <2> QED BY <1>6
<1> HIDE DEF sum
<1>8. DOMAIN sum = 0..n /\ \A k \in 0..n : sum[k] = IF k = 0 THEN 0 ELSE sum[k - 1] + score(acts[k])
  BY <1>7
<1>9. ASSUME NEW k \in 1..n, sum[k - 1] \in Int PROVE sum[k] \in Int
  <2>1. k \in 0..n /\ k # 0 /\ score(acts[k]) \in Int
    BY <1>1, <1>2
  <2> QED BY <1>8, <1>9, <2>1
<1>10. sum[0] = 0
  BY <1>1, <1>8
<1>11. sum[n] \in Int
  <2>1. n \in 0..n /\ 0 \in Int
    BY <1>1
  <2>2. \A k \in 0..n : sum[k] \in Int
    <3> HIDE DEF Is
    <3> QED BY <1>1, <1>8, <1>9, <1>10, <2>1, RecursionTyped
  <2> QED BY <2>1, <2>2
<1>12. ScoreCodeResponse(acts) = IF acts = <<>> THEN -1000 ELSE 100 + sum[n]
  BY DEF ScoreCodeResponse, sum, score, n
<1> QED BY <1>11, <1>12

\* The best of some answers is one of them.
LEMMA PromoteTyped ==
    ASSUME NEW S, NEW got \in Seq(S), got # <<>>, \A g \in S : g.acts \in Turns
    PROVE  promoteBestResult(got) \in Turns
<1> DEFINE score(i) == ScoreCodeResponse(got[i].acts)
           R == {p \in S \X S : ScoreCodeResponse(p[2].acts) <= ScoreCodeResponse(p[1].acts)}
           best == {i \in DOMAIN got : \A j \in DOMAIN got : score(j) <= score(i)}
<1>1. \A g \in S : ScoreCodeResponse(g.acts) \in Int
  BY ScoreTyped
<1>2. \A g, h \in S : <<g, h>> \in R <=> ScoreCodeResponse(h.acts) <= ScoreCodeResponse(g.acts)
  OBVIOUS
<1>3. 1 \in DOMAIN got /\ \A i \in DOMAIN got : got[i] \in S /\ i \in Nat
  OBVIOUS
<1> HIDE DEF R
<1>4. PICK i \in DOMAIN got : \A j \in DOMAIN got : <<got[i], got[j]>> \in R
  <2>1. ASSUME NEW a \in S, NEW b \in S PROVE <<a, b>> \in R \/ <<b, a>> \in R
    <3>1. ScoreCodeResponse(b.acts) <= ScoreCodeResponse(a.acts) \/ ScoreCodeResponse(a.acts) <= ScoreCodeResponse(b.acts)
      BY <1>1
    <3> QED BY <1>2, <3>1
  <2>2. ASSUME NEW a \in S, NEW b \in S, NEW c \in S, <<a, b>> \in R, <<b, c>> \in R PROVE <<a, c>> \in R
    <3>1. ScoreCodeResponse(b.acts) <= ScoreCodeResponse(a.acts) /\ ScoreCodeResponse(c.acts) <= ScoreCodeResponse(b.acts)
      BY <1>2, <2>2
    <3>2. ScoreCodeResponse(c.acts) <= ScoreCodeResponse(a.acts)
      BY <1>1, <3>1
    <3> QED BY <1>2, <3>2
  <2>3. TotalPreorder(R, S)
    BY <2>1, <2>2 DEF TotalPreorder
  <2> QED BY <1>3, <2>3, FirstExists
<1>5. best # {} /\ best \in SUBSET Nat
  BY <1>2, <1>3, <1>4
<1>6. Min(best) \in DOMAIN got
  BY <1>5, MinIn
<1> HIDE DEF best
<1>7. promoteBestResult(got) = got[Min(best)].acts
  BY DEF promoteBestResult, best
<1> QED BY <1>3, <1>6, <1>7

\* The answers in the order of the members: the same answers, and none is lost when there is one.
LEMMA InOrderPicks ==
    ASSUME NEW x, NEW n \in Nat, x.n = n, x.got \in Seq(GotOf(n))
    PROVE  /\ InOrder(x) \in Seq(Range(x.got))
           /\ x.got # <<>> => InOrder(x) # <<>>
<1> DEFINE ids == [i \in 1..n |-> i]
           I == {x.got[k].i : k \in DOMAIN x.got}
           who == Selected(ids, I)
           pick(j) == CHOOSE g \in Range(x.got) : g.i = j
<1>1. ids \in Seq(1..n) /\ DOMAIN ids = 1..n
  OBVIOUS
<1>2. ASSUME NEW k \in DOMAIN x.got PROVE x.got[k].i \in 1..n /\ x.got[k] \in Range(x.got)
  <2>1. x.got[k] \in GotOf(n)
    OBVIOUS
  <2>2. x.got[k] \in Range(x.got)
    BY DEF Range
  <2> QED BY <2>1, <2>2 DEF GotOf
<1> HIDE DEF ids, I
<1>3. /\ who \in Seq(1..n)
      /\ \A k \in DOMAIN who : \E i \in 1..n : i \in I /\ who[k] = ids[i]
      /\ (\E i \in 1..n : i \in I) => who # <<>>
  BY <1>1, SelectedTyped, SelectedPicks
<1>4. InOrder(x) = [k \in DOMAIN who |-> pick(who[k])]
  BY DEF InOrder, ids, I
<1> HIDE DEF who
<1>5. ASSUME NEW k \in DOMAIN who PROVE pick(who[k]) \in Range(x.got)
  <2>1. PICK j \in DOMAIN x.got : who[k] = x.got[j].i
    BY <1>3 DEF ids, I
  <2> QED BY <1>2, <2>1
<1>6. DOMAIN who = 1..Len(who) /\ Len(who) \in Nat
  BY <1>3
<1> HIDE DEF pick
<1>7. InOrder(x) \in Seq(Range(x.got))
  BY <1>4, <1>5, <1>6
<1>8. ASSUME x.got # <<>> PROVE InOrder(x) # <<>>
  <2>1. 1 \in DOMAIN x.got
    BY <1>8
  <2>2. who # <<>>
    BY <1>2, <1>3, <2>1 DEF I
  <2>3. Len(who) # 0
    BY <1>3, <2>2
  <2>4. DOMAIN InOrder(x) = 1..Len(who)
    BY <1>4, <1>6
  <2>5. DOMAIN <<>> = 1..0
    OBVIOUS
  <2> QED BY <1>6, <2>3, <2>4, <2>5
<1> QED BY <1>7, <1>8

-----------------------------------------------------------------------------
(* Ensembles: what each strategy makes of the answers. *)

EnsFields == {"strategy", "n", "open", "min", "extra", "armed", "fallback", "early", "again", "phase", "got", "last", "result"}

\* The strategies an ensemble can follow once it has chosen.
Courses == (EnsembleStrategies \ {"adaptive"}) \cup {"single"}

\* None of the answers so far is fit for use.
NoneFit(x) == \A k \in DOMAIN x.got : ~ValidateCodeResponse(x.got[k].acts)

\* The ensemble may give up.
Spent(x) == (x.strategy # "serial" \/ x.fallback) => NoneFit(x)

\* The state of an ensemble.
EnsType(x) ==
    /\ DOMAIN x = EnsFields
    /\ x.strategy \in Courses /\ x.n \in Nat
    /\ x.got \in Seq(GotOf(x.n)) /\ IsError(x.last) /\ IsResult(x.result)

\* An ensemble that is done has an answer, or an error and no answer fit for use.
EnsInv(x) ==
    /\ EnsType(x) /\ x.phase \in {"members", "extra", "standard", "done"}
    /\ x.phase = "members" => /\ x.open \subseteq 1..x.n
                              /\ x.strategy \in {"race", "single"} => NoneFit(x)
    /\ x.phase = "standard" => Spent(x)
    /\ x.phase = "done" /\ ~x.result.ok => Spent(x)

\* An error is a result that is not ok, and a result is an error or holds the actions of an answer.
LEMMA ErrorsTyped ==
    /\ IsError(PlainError) /\ IsError(DeadlineExceeded) /\ IsError(Canceled)
    /\ \A e : IsError(e) => ~e.ok /\ IsResult(e) /\ IsError([e EXCEPT !.code = 0, !.wraps = {}])
    /\ \A r : IsResult(r) => (~r.ok /\ IsError(r)) \/ (r.ok /\ r.acts \in Turns)
<1>1. IsError(PlainError) /\ IsError(DeadlineExceeded) /\ IsError(Canceled)
  BY DEF PlainError, DeadlineExceeded, Canceled, Err, IsError
<1>2. ASSUME NEW e, IsError(e) PROVE ~e.ok /\ IsResult(e) /\ IsError([e EXCEPT !.code = 0, !.wraps = {}])
  BY <1>2 DEF IsError, IsResult
<1>3. ASSUME NEW r, IsResult(r) PROVE (~r.ok /\ IsError(r)) \/ (r.ok /\ r.acts \in Turns)
  BY <1>3 DEF IsResult, Turns
<1> QED BY <1>1, <1>2, <1>3

\* An ensemble may end with an answer at any time.
LEMMA WinKeeps ==
    ASSUME NEW x, EnsType(x), NEW acts \in Turns
    PROVE  EnsInv(Win(x, acts))
<1> DEFINE y == Win(x, acts)
<1>1. /\ DOMAIN y = EnsFields /\ y.strategy = x.strategy /\ y.n = x.n /\ y.open = {} /\ y.got = x.got /\ y.last = x.last
      /\ y.phase = "done" /\ y.result = [ok |-> TRUE, acts |-> acts]
  BY DEF EnsType, EnsFields, Win
<1>2. IsResult(y.result) /\ y.result.ok
  BY <1>1 DEF IsResult, Turns
<1> HIDE DEF y
<1>3. EnsType(y)
  BY <1>1, <1>2 DEF EnsType
<1> QED BY <1>1, <1>2, <1>3 DEF EnsInv, y

\* It may end with an error only when it is spent.
LEMMA FailKeeps ==
    ASSUME NEW x, EnsType(x), Spent(x), NEW e, IsError(e)
    PROVE  EnsInv(Fail(x, e))
<1> DEFINE y == Fail(x, e)
<1>1. /\ DOMAIN y = EnsFields /\ y.strategy = x.strategy /\ y.n = x.n /\ y.open = {} /\ y.got = x.got /\ y.last = x.last
      /\ y.fallback = x.fallback
      /\ (y.phase = "standard" /\ y.result = x.result) \/ (y.phase = "done" /\ y.result = e)
  <2>1. CASE x.again
    BY <2>1 DEF EnsType, EnsFields, Fail
  <2>2. CASE ~x.again
    BY <2>2 DEF EnsType, EnsFields, Fail
  <2> QED BY <2>1, <2>2
<1>2. IsResult(y.result)
  BY <1>1, ErrorsTyped DEF EnsType
<1> HIDE DEF y
<1>3. EnsType(y)
  BY <1>1, <1>2 DEF EnsType
<1>4. Spent(y)
  BY <1>1 DEF Spent, NoneFit
<1> QED BY <1>1, <1>3, <1>4 DEF EnsInv, y

\* It may ask its synthesizer or its tie-breaker next.
LEMMA AskExtraKeeps ==
    ASSUME NEW x, EnsType(x)
    PROVE  EnsInv(AskExtra(x))
<1> DEFINE y == AskExtra(x)
<1>1. /\ DOMAIN y = EnsFields /\ y.strategy = x.strategy /\ y.n = x.n /\ y.open = {} /\ y.got = x.got /\ y.last = x.last
      /\ y.phase = "extra" /\ y.result = x.result
  BY DEF EnsType, EnsFields, AskExtra
<1> HIDE DEF y
<1>2. EnsType(y)
  BY <1>1 DEF EnsType
<1> QED BY <1>1, <1>2 DEF EnsInv, y

\* Without answers, or with answers that hold no action, it is spent.
LEMMA NothingFits ==
    ASSUME NEW x, x.got = <<>> \/ NoActions(x)
    PROVE  Spent(x)
BY DEF Spent, NoneFit, NoActions, ValidateCodeResponse

\* The answers it has got are answers of its members.
LEMMA GotTyped ==
    ASSUME NEW x, EnsType(x)
    PROVE  /\ \A k \in DOMAIN x.got : x.got[k].acts \in Turns /\ x.got[k].i \in Nat
           /\ \A g \in Range(x.got) : g.acts \in Turns /\ g.i \in Nat
<1>1. ASSUME NEW k \in DOMAIN x.got PROVE x.got[k].acts \in Turns /\ x.got[k].i \in Nat
  <2>1. x.got[k] \in GotOf(x.n) /\ x.n \in Nat
    BY DEF EnsType
  <2> QED BY <2>1 DEF GotOf
<1> QED BY <1>1 DEF Range

\* ParallelClient returns its best answer, has the answers synthesized, or has none.
LEMMA SynthesizeKeeps ==
    ASSUME NEW x, EnsType(x)
    PROVE  EnsInv(Synthesize(x))
<1>1. CASE x.got = <<>>
  BY <1>1, NothingFits, AskExtraKeeps, FailKeeps, ErrorsTyped DEF Synthesize
<1>2. CASE x.got # <<>>
  <2>1. promoteBestResult(x.got) \in Turns
    <3>1. \A g \in GotOf(x.n) : g.acts \in Turns
      BY DEF GotOf
    <3> QED BY <1>2, <3>1, PromoteTyped DEF EnsType
  <2> QED BY <1>2, <2>1, WinKeeps, AskExtraKeeps DEF Synthesize
<1> QED BY <1>1, <1>2

\* ConsensusClient returns an answer of a member, asks the tie-breaker, or has no answer.
LEMMA VoteKeeps ==
    ASSUME NEW x, EnsType(x)
    PROVE  EnsInv(Vote(x))
<1> DEFINE got == InOrder(x)
<1>1. got \in Seq(Range(x.got)) /\ (x.got # <<>> => got # <<>>)
  BY InOrderPicks DEF EnsType
<1> HIDE DEF got
<1>2. CASE got = <<>>
  BY <1>1, <1>2, NothingFits, AskExtraKeeps, FailKeeps, ErrorsTyped DEF Vote, got
<1>3. CASE got # <<>>
  <2>1. got[1] \in Range(x.got)
    BY <1>1, <1>3
  <2>2. EnsInv(Win(x, got[1].acts))
    BY <2>1, GotTyped, WinKeeps
  <2> DEFINE y == [x EXCEPT !.got = got]
  <2>3. /\ DOMAIN y = EnsFields /\ y.strategy = x.strategy /\ y.n = x.n /\ y.open = x.open /\ y.got = got /\ y.last = x.last
        /\ y.result = x.result
    BY DEF EnsType, EnsFields
  <2>4. Range(x.got) \subseteq GotOf(x.n)
    BY DEF EnsType, Range
  <2>5. got \in Seq(GotOf(x.n))
    BY <1>1, <2>4
  <2> HIDE DEF y
  <2>6. EnsType(y)
    BY <2>3, <2>5 DEF EnsType
  <2>7. EnsInv(AskExtra(y))
    BY <2>6, AskExtraKeeps
  <2> QED BY <1>3, <2>2, <2>7 DEF Vote, got, y
<1> QED BY <1>2, <1>3

\* ScoredClient returns the answer of the highest score among those with an action.
LEMMA PickScoredKeeps ==
    ASSUME NEW x, EnsType(x)
    PROVE  EnsInv(PickScored(x))
<1>1. CASE NoActions(x)
  BY <1>1, NothingFits, FailKeeps DEF PickScored, EnsType
<1>2. CASE ~NoActions(x)
  <2> DEFINE fit == {g \in Range(x.got) : g.acts # <<>>}
             sc(g) == ScoreCodeResponse(g.acts)
             before(g, h) == sc(g) > sc(h) \/ (sc(g) = sc(h) /\ g.i <= h.i)
             S == GotOf(x.n)
             R == {p \in S \X S : before(p[1], p[2])}
             I == {k \in DOMAIN x.got : x.got[k].acts # <<>>}
  <2>1. \A g \in S : sc(g) \in Int /\ g.i \in Int
    BY ScoreTyped DEF GotOf, EnsType
  <2>2. \A g, h \in S : <<g, h>> \in R <=> before(g, h)
    OBVIOUS
  <2>3. x.got \in Seq(S) /\ I # {} /\ I \in SUBSET (DOMAIN x.got)
    BY <1>2 DEF EnsType, NoActions
  <2> HIDE DEF sc, R, S
  <2>4. ASSUME NEW a \in S, NEW b \in S PROVE <<a, b>> \in R \/ <<b, a>> \in R
    <3>1. before(a, b) \/ before(b, a)
      BY <2>1
    <3> QED BY <2>2, <3>1
  <2>5. ASSUME NEW a \in S, NEW b \in S, NEW c \in S, <<a, b>> \in R, <<b, c>> \in R PROVE <<a, c>> \in R
    <3>1. before(a, b) /\ before(b, c)
      BY <2>2, <2>5
    <3>2. before(a, c)
      BY <2>1, <3>1
    <3> QED BY <2>2, <3>2
  <2> HIDE DEF I
  <2>6. PICK i \in I : \A j \in I : <<x.got[i], x.got[j]>> \in R
    <3> DEFINE got == x.got
    <3>1. got \in Seq(S) /\ I \subseteq DOMAIN got /\ I # {}
      BY <2>3
    <3> HIDE DEF got
    <3>2. TotalPreorder(R, S)
      BY <2>4, <2>5 DEF TotalPreorder
    <3>4. \E i \in I : \A j \in I : <<got[i], got[j]>> \in R
      BY <3>1, <3>2, FirstExists
    <3> QED BY <3>4 DEF got
  <2>7. \A j \in DOMAIN x.got : x.got[j] \in S
    BY <2>3
  <2> HIDE DEF before
  <2>8. x.got[i] \in fit /\ \A h \in fit : before(x.got[i], h)
    <3>1. i \in DOMAIN x.got /\ x.got[i].acts # <<>>
      BY DEF I
    <3>2. ASSUME NEW h \in fit PROVE before(x.got[i], h)
      <4>1. PICK j \in DOMAIN x.got : h = x.got[j]
        BY DEF Range
      <4>2. j \in I
        BY <4>1 DEF I
      <4> QED BY <2>2, <2>6, <2>7, <3>1, <4>1, <4>2
    <3> QED BY <3>1, <3>2 DEF Range
  <2> DEFINE best == CHOOSE g \in fit : \A h \in fit : before(g, h)
  <2>9. best \in Range(x.got)
    BY <2>8
  <2>10. EnsInv(Win(x, best.acts))
    <3> HIDE DEF best
    <3> QED BY <2>9, GotTyped, WinKeeps
  <2>11. PickScored(x) = Win(x, best.acts)
    BY <1>2 DEF PickScored, before, sc
  <2> QED BY <2>10, <2>11
<1> QED BY <1>1, <1>2

\* DecomposedClient returns the merged actions, or there are none.
LEMMA MergeKeeps ==
    ASSUME NEW x, EnsType(x)
    PROVE  EnsInv(Merge(x))
<1> DEFINE got == InOrder(x)
           lists == [k \in DOMAIN got |-> got[k].acts]
<1>1. CASE NoActions(x)
  BY <1>1, NothingFits, FailKeeps, ErrorsTyped DEF Merge, EnsType
<1>2. CASE ~NoActions(x)
  <2>1. got \in Seq(Range(x.got))
    BY InOrderPicks DEF EnsType
  <2> HIDE DEF got
  <2>2. lists \in Seq(Seq(Actions))
    <3>1. DOMAIN got = 1..Len(got) /\ Len(got) \in Nat /\ \A k \in DOMAIN got : got[k] \in Range(x.got)
      BY <2>1
    <3>2. \A k \in DOMAIN got : got[k].acts \in Seq(Actions)
      BY <3>1, GotTyped DEF Turns
    <3> QED BY <3>1, <3>2
  <2> HIDE DEF lists
  <2>3. MergeActions(lists) \in Turns
    BY <2>2, FlattenTyped, SelectedTyped DEF MergeActions, Turns
  <2>4. EnsInv(Win(x, MergeActions(lists)))
    BY <2>3, WinKeeps
  <2> QED BY <1>2, <2>4 DEF Merge, got, lists
<1> QED BY <1>1, <1>2

\* SerialClient and CascadeClient return the last answer, or have none.
LEMMA LastStageKeeps ==
    ASSUME NEW x, EnsType(x)
    PROVE  EnsInv(LastStage(x))
<1>1. CASE x.got = <<>>
  BY <1>1, NothingFits, FailKeeps DEF LastStage, EnsType
<1>2. CASE x.got # <<>>
  <2>1. Len(x.got) \in DOMAIN x.got
    BY <1>2 DEF EnsType
  <2>2. Last(x.got).acts \in Turns
    BY <2>1, GotTyped DEF Last
  <2> QED BY <1>2, <2>2, WinKeeps DEF LastStage
<1> QED BY <1>1, <1>2

\* Whatever the strategy makes of the answers it has: no answer fit for use is lost.
LEMMA DecideKeeps ==
    ASSUME NEW x, EnsType(x), x.strategy \in {"race", "single"} => NoneFit(x)
    PROVE  EnsInv(Decide(x))
<1>1. CASE x.strategy = "parallel"
  BY <1>1, SynthesizeKeeps DEF Decide
<1>2. CASE x.strategy = "consensus"
  BY <1>2, VoteKeeps DEF Decide
<1>3. CASE x.strategy = "best_of_n_scored"
  BY <1>3, PickScoredKeeps DEF Decide
<1>4. CASE x.strategy = "decomposed"
  BY <1>4, MergeKeeps DEF Decide
<1>5. CASE x.strategy \in {"serial", "cascade"}
  BY <1>5, LastStageKeeps DEF Decide
<1>6. CASE x.strategy \in {"race", "single"}
  <2>1. Decide(x) = Fail(x, x.last)
    BY <1>6 DEF Decide
  <2>2. Spent(x) /\ IsError(x.last)
    BY <1>6 DEF Spent, EnsType
  <2> QED BY <2>1, <2>2, FailKeeps
<1>7. x.strategy \in {"parallel", "consensus", "best_of_n_scored", "decomposed", "serial", "cascade", "race", "single"}
  BY DEF EnsType, Courses, EnsembleStrategies
<1> QED BY <1>1, <1>2, <1>3, <1>4, <1>5, <1>6, <1>7

-----------------------------------------------------------------------------
(* Ensembles: answers, failures and timers. *)

\* An ensemble begins with no answers and its members yet to be heard.
LEMMA BeginKeeps ==
    ASSUME NEW cfg \in EnsembleConfigs, cfg.strategy \in EnsembleStrategies
    PROVE  EnsInv(Begin(buildEnsembleCandidate(cfg)))
<1> DEFINE x == buildEnsembleCandidate(cfg)
<1>1. /\ DOMAIN x = EnsFields /\ x.got = <<>> /\ x.last = PlainError /\ x.result = PlainError /\ x.phase = "members"
      /\ x.open = IF x.strategy \in {"serial", "cascade"} THEN {1} ELSE 1..x.n
  BY DEF buildEnsembleCandidate, EnsFields
<1>2. TierSize(cfg, classifyAndSelect(cfg)) \in Nat
  BY DEF EnsembleConfigs, TierSize
<1>3. x.n \in Nat
  BY <1>2 DEF buildEnsembleCandidate, EnsembleConfigs
<1>4. x.strategy \in Courses
  <2>1. (x.strategy = cfg.strategy /\ cfg.strategy # "adaptive") \/ x.strategy \in {"single", "parallel", "race"}
    BY DEF buildEnsembleCandidate
  <2> QED BY <2>1 DEF Courses, EnsembleStrategies
<1> HIDE DEF x
<1>5. EnsType(x)
  <2>1. IsError(x.last) /\ IsResult(x.result)
    BY <1>1, ErrorsTyped
  <2>2. x.got \in Seq(GotOf(x.n))
    BY <1>1
  <2> QED BY <1>1, <1>3, <1>4, <2>1, <2>2 DEF EnsType
<1>6. CASE x.n > 0
  <2>1. Begin(x) = x
    BY <1>6 DEF Begin
  <2>2. x.open \subseteq 1..x.n
    BY <1>1, <1>3, <1>6
  <2>3. NoneFit(x)
    BY <1>1 DEF NoneFit
  <2>4. EnsInv(x)
    BY <1>1, <1>5, <2>2, <2>3 DEF EnsInv
  <2> QED BY <2>1, <2>4 DEF x
<1>7. CASE ~(x.n > 0)
  <2>1. EnsInv(AskExtra(x)) /\ EnsInv(Fail(x, PlainError))
    BY <1>1, <1>5, AskExtraKeeps, FailKeeps, NothingFits, ErrorsTyped
  <2> QED BY <1>7, <2>1 DEF Begin, x
<1> QED BY <1>6, <1>7

\* A member answers or fails.
LEMMA ArriveKeeps ==
    ASSUME NEW x, EnsInv(x), x.phase = "members", NEW i \in x.open, NEW r, IsResult(r)
    PROVE  EnsInv(Arrive(x, i, r))
<1> DEFINE y == [x EXCEPT !.open = @ \ {i}, !.got = IF r.ok THEN Append(@, [i |-> i, acts |-> r.acts]) ELSE @,
                          !.last = IF r.ok THEN @ ELSE r]
           valid == r.ok /\ ValidateCodeResponse(r.acts)
<1>1. EnsType(x) /\ x.open \subseteq 1..x.n /\ (x.strategy \in {"race", "single"} => NoneFit(x))
  BY DEF EnsInv
<1>2. /\ DOMAIN y = EnsFields /\ y.strategy = x.strategy /\ y.n = x.n /\ y.open = x.open \ {i} /\ y.phase = "members"
      /\ y.got = IF r.ok THEN Append(x.got, [i |-> i, acts |-> r.acts]) ELSE x.got
      /\ y.last = IF r.ok THEN x.last ELSE r
      /\ y.result = x.result /\ y.fallback = x.fallback
  BY <1>1 DEF EnsType, EnsFields
<1> HIDE DEF y
<1>3. y.got \in Seq(GotOf(x.n))
  <2>1. CASE r.ok
    <3>1. [i |-> i, acts |-> r.acts] \in GotOf(x.n)
      BY <1>1, <2>1 DEF IsResult, GotOf, Turns
    <3> QED BY <1>1, <1>2, <2>1, <3>1 DEF EnsType
  <2>2. CASE ~r.ok
    BY <1>1, <1>2, <2>2 DEF EnsType
  <2> QED BY <2>1, <2>2
<1>4. EnsType(y)
  <2>1. IsError(y.last)
    BY <1>1, <1>2, ErrorsTyped DEF EnsType
  <2> QED BY <1>1, <1>2, <1>3, <2>1 DEF EnsType
<1>5. r.ok => r.acts \in Turns
  BY DEF IsResult, Turns
<1>6. x.strategy = "race" /\ ~valid => NoneFit(y)
  <2> SUFFICES ASSUME x.strategy = "race", ~valid, NEW k \in DOMAIN y.got PROVE ~ValidateCodeResponse(y.got[k].acts)
    BY DEF NoneFit
  <2>1. CASE r.ok
    <3>1. y.got = Append(x.got, [i |-> i, acts |-> r.acts])
      BY <1>2, <2>1
    <3>2. x.got \in Seq(GotOf(x.n)) /\ Len(x.got) \in Nat
      BY <1>1 DEF EnsType
    <3>3. (k \in DOMAIN x.got /\ y.got[k] = x.got[k]) \/ y.got[k] = [i |-> i, acts |-> r.acts]
      BY <3>1, <3>2
    <3> QED BY <1>1, <2>1, <3>3 DEF NoneFit
  <2>2. CASE ~r.ok
    BY <1>1, <1>2, <2>2 DEF NoneFit
  <2> QED BY <2>1, <2>2
<1>7. CASE x.strategy = "single"
  <2>1. CASE r.ok
    BY <1>4, <1>5, <1>7, <2>1, WinKeeps DEF Arrive, y
  <2>2. CASE ~r.ok
    <3>1. Spent(y)
      BY <1>1, <1>2, <1>7, <2>2 DEF Spent, NoneFit
    <3>2. IsError(r)
      BY <2>2 DEF IsResult
    <3>3. Arrive(x, i, r) = Fail(y, r)
      BY <1>7, <2>2 DEF Arrive, y
    <3> QED BY <1>4, <3>1, <3>2, <3>3, FailKeeps
  <2> QED BY <2>1, <2>2
<1>8. CASE x.strategy # "single"
  <2>1. CASE Arrive(x, i, r) = Win(y, r.acts) /\ valid
    BY <1>4, <1>5, <2>1, WinKeeps
  <2>2. CASE Arrive(x, i, r) = Fail(y, r) /\ x.strategy = "serial" /\ ~x.fallback /\ ~r.ok
    <3>1. Spent(y) /\ IsError(r)
      BY <1>2, <2>2 DEF Spent, IsResult
    <3> QED BY <1>4, <2>2, <3>1, FailKeeps
  <2>3. CASE Arrive(x, i, r) = [y EXCEPT !.open = {i + 1}] /\ x.strategy \in {"serial", "cascade"} /\ i < x.n
    <3> DEFINE z == [y EXCEPT !.open = {i + 1}]
    <3>1. /\ DOMAIN z = EnsFields /\ z.strategy = y.strategy /\ z.n = y.n /\ z.open = {i + 1} /\ z.phase = "members"
          /\ z.got = y.got /\ z.last = y.last /\ z.result = y.result
      BY <1>2 DEF EnsFields
    <3>2. i \in 1..x.n /\ x.n \in Nat
      BY <1>1 DEF EnsType
    <3>3. z.open \subseteq 1..z.n
      BY <1>2, <2>3, <3>1, <3>2
    <3> HIDE DEF z
    <3>4. EnsType(z)
      BY <1>4, <3>1 DEF EnsType
    <3> QED BY <1>2, <2>3, <3>1, <3>3, <3>4 DEF EnsInv, z
  <2>4. CASE (x.strategy = "race" => ~valid) /\ Arrive(x, i, r) = Decide(y)
    BY <1>2, <1>4, <1>6, <1>8, <2>4, DecideKeeps
  <2>5. CASE (x.strategy = "race" => ~valid) /\ Arrive(x, i, r) = y
    BY <1>1, <1>2, <1>4, <1>6, <1>8, <2>5 DEF EnsInv
  <2>6. \/ Arrive(x, i, r) = Win(y, r.acts) /\ valid
        \/ Arrive(x, i, r) = Fail(y, r) /\ x.strategy = "serial" /\ ~x.fallback /\ ~r.ok
        \/ Arrive(x, i, r) = [y EXCEPT !.open = {i + 1}] /\ x.strategy \in {"serial", "cascade"} /\ i < x.n
        \/ (x.strategy = "race" => ~valid) /\ Arrive(x, i, r) = Decide(y)
        \/ (x.strategy = "race" => ~valid) /\ Arrive(x, i, r) = y
    <3>1. Arrive(x, i, r) =
            IF x.strategy = "race" /\ valid THEN Win(y, r.acts)
            ELSE IF x.strategy = "cascade" /\ valid THEN Win(y, r.acts)
            ELSE IF x.strategy = "serial" /\ ~r.ok /\ ~x.fallback THEN Fail(y, r)
            ELSE IF x.strategy = "serial" /\ x.early /\ i < x.n /\ valid THEN Win(y, r.acts)
            ELSE IF x.strategy \in {"serial", "cascade"} /\ i < x.n THEN [y EXCEPT !.open = {i + 1}]
            ELSE IF x.strategy = "parallel" /\ Len(y.got) >= x.min THEN Decide(y)
            ELSE IF y.open = {} THEN Decide(y)
            ELSE y
      BY <1>8 DEF Arrive, y
    <3> HIDE DEF valid
    <3> QED BY <3>1, Zenon
  <2> QED BY <2>1, <2>2, <2>3, <2>4, <2>5, <2>6
<1> QED BY <1>7, <1>8

\* The synthesizer or the tie-breaker answers, or what the members said stands.
LEMMA ExtraArrivesKeeps ==
    ASSUME NEW x, EnsInv(x), NEW r, IsResult(r)
    PROVE  EnsInv(ExtraArrives(x, r))
<1>1. EnsType(x)
  BY DEF EnsInv
<1>2. CASE r.ok
  <2>1. r.acts \in Turns
    BY <1>2, ErrorsTyped
  <2> QED BY <1>1, <1>2, <2>1, WinKeeps DEF ExtraArrives
<1>3. CASE ~r.ok /\ x.got = <<>>
  <2>1. IsError(r)
    BY <1>3, ErrorsTyped
  <2> QED BY <1>1, <1>3, <2>1, NothingFits, FailKeeps DEF ExtraArrives
<1>4. CASE ~r.ok /\ x.got # <<>>
  <2>1. promoteBestResult(x.got) \in Turns
    <3>1. \A g \in GotOf(x.n) : g.acts \in Turns
      BY DEF GotOf
    <3> QED BY <1>1, <1>4, <3>1, PromoteTyped DEF EnsType
  <2>2. x.got[1].acts \in Turns
    <3>1. 1 \in DOMAIN x.got
      BY <1>1, <1>4 DEF EnsType
    <3> QED BY <1>1, <3>1, GotTyped
  <2> QED BY <1>1, <1>4, <2>1, <2>2, WinKeeps DEF ExtraArrives
<1> QED BY <1>2, <1>3, <1>4

\* The fallback tier of the adaptive strategy has the last word.
LEMMA StandardArrivesKeeps ==
    ASSUME NEW x, EnsInv(x), x.phase = "standard", NEW r, IsResult(r)
    PROVE  EnsInv(StandardArrives(x, r))
<1> DEFINE y == StandardArrives(x, r)
<1>1. /\ DOMAIN y = EnsFields /\ y.strategy = x.strategy /\ y.n = x.n /\ y.got = x.got /\ y.last = x.last
      /\ y.phase = "done" /\ y.result = r /\ y.fallback = x.fallback
  BY DEF EnsInv, EnsType, EnsFields, StandardArrives
<1> HIDE DEF y
<1>2. EnsType(y)
  BY <1>1 DEF EnsInv, EnsType
<1>3. Spent(y)
  BY <1>1 DEF EnsInv, Spent, NoneFit
<1> QED BY <1>1, <1>2, <1>3 DEF EnsInv, y

\* The soft timer and the deadline of an ensemble decide over what has arrived.
LEMMA TimersKeep ==
    ASSUME NEW x, EnsInv(x), x.phase = "members"
    PROVE  EnsInv(SoftTimer(x)) /\ EnsInv(Expire(x))
<1> DEFINE y == [x EXCEPT !.armed = FALSE]
           z == [x EXCEPT !.open = {}, !.last = DeadlineExceeded]
<1>1. EnsType(x) /\ x.open \subseteq 1..x.n /\ (x.strategy \in {"race", "single"} => NoneFit(x))
  BY DEF EnsInv
<1>2. /\ DOMAIN y = EnsFields /\ y.strategy = x.strategy /\ y.n = x.n /\ y.got = x.got /\ y.last = x.last
      /\ y.phase = "members" /\ y.result = x.result /\ y.open = x.open
  BY <1>1 DEF EnsType, EnsFields
<1>3. /\ DOMAIN z = EnsFields /\ z.strategy = x.strategy /\ z.n = x.n /\ z.got = x.got /\ z.last = DeadlineExceeded
      /\ z.result = x.result
  BY <1>1 DEF EnsType, EnsFields
<1> HIDE DEF y, z
<1>4. EnsType(y) /\ EnsType(z)
  BY <1>1, <1>2, <1>3, ErrorsTyped DEF EnsType
<1>5. EnsInv(y)
  BY <1>1, <1>2, <1>4 DEF EnsInv, NoneFit
<1>6. EnsInv(Decide(y)) /\ EnsInv(Decide(z))
  BY <1>1, <1>2, <1>3, <1>4, DecideKeeps DEF NoneFit
<1>7. EnsInv(SoftTimer(x))
  BY <1>5, <1>6 DEF SoftTimer, y
<1>8. CASE x.strategy = "serial" /\ ~x.fallback
  <2>1. Spent(x)
    BY <1>8 DEF Spent
  <2> QED BY <1>1, <1>7, <1>8, <2>1, FailKeeps, ErrorsTyped DEF Expire
<1>9. CASE ~(x.strategy = "serial" /\ ~x.fallback)
  BY <1>6, <1>7, <1>9 DEF Expire, z
<1> QED BY <1>8, <1>9

\* An ensemble that gave up had no answer fit for use.
LEMMA InvKept ==
    ASSUME NEW x, EnsInv(x)
    PROVE  Kept(x)
BY DEF EnsInv, Kept, Spent, NoneFit

-----------------------------------------------------------------------------
(* The ladder of retries of a single client. *)

LadFields == {"name", "phase", "model", "key", "first", "attempt", "fallbacks", "credit", "calls", "reminded", "pc", "result"}

\* The ladder of a single client.
LadFrame(l) == DOMAIN l = LadFields /\ l.name \in DOMAIN Clients

\* An answer is the result of a ladder that is done; one that goes on has at most an error to remember.
LadInv(l) == LadFrame(l) /\ IsResult(l.result) /\ (l.phase # "done" => IsError(l.result))

\* A ladder may end with any result.
LEMMA FinishKeeps ==
    ASSUME NEW l, LadFrame(l), NEW r, IsResult(r)
    PROVE  LadInv(Finish(l, r))
BY DEF LadFrame, LadFields, LadInv, Finish

\* It may call once more as long as it has no answer.
LEMMA CallAgainKeeps ==
    ASSUME NEW l, LadFrame(l), IsError(l.result), NEW caps
    PROVE  LadInv(CallAgain(l, caps)) /\ CallAgain(l, caps).phase = "call"
<1> DEFINE y == CallAgain(l, caps)
<1>1. DOMAIN y = LadFields /\ y.name = l.name /\ y.result = l.result /\ y.phase = "call"
  BY DEF LadFrame, LadFields, CallAgain
<1> HIDE DEF y
<1> QED BY <1>1, ErrorsTyped DEF LadInv, LadFrame, y

\* It begins with no answer.
LEMMA LadderKeeps ==
    ASSUME NEW name \in DOMAIN Clients, NEW index, NEW caps
    PROVE  LadInv(Ladder(name, index, caps))
<1> DEFINE y == Ladder(name, index, caps)
<1>1. DOMAIN y = LadFields /\ y.name = name /\ y.result = PlainError
  BY DEF LadFields, Ladder
<1> HIDE DEF y
<1> QED BY <1>1, ErrorsTyped DEF LadInv, LadFrame, y

\* The error it reports when it runs out of attempts is an error.
LEMMA LastErrorTyped ==
    ASSUME NEW l, NEW e, IsError(e)
    PROVE  IsResult(LastError(l, e))
<1>1. IsError(ErrCreditExhausted(e)) /\ IsError([e EXCEPT !.says = @ \cup {"rate limit"}])
  BY DEF IsError, ErrCreditExhausted, Err
<1> QED BY <1>1, ErrorsTyped DEF LastError

\* It has run out of attempts: it looks for another model or ends with an error.
LEMMA ExhaustedKeeps ==
    ASSUME NEW l, LadFrame(l), NEW e, IsError(e)
    PROVE  LadInv(Exhausted(l, e))
<1> DEFINE y == [l EXCEPT !.phase = "catalog", !.result = e]
<1>1. DOMAIN y = LadFields /\ y.name = l.name /\ y.result = e
  BY DEF LadFrame, LadFields
<1> HIDE DEF y
<1>2. LadInv(y)
  BY <1>1, ErrorsTyped DEF LadInv, LadFrame
<1>3. LadInv(Finish(l, LastError(l, e)))
  BY FinishKeeps, LastErrorTyped
<1>4. Exhausted(l, e) = y \/ Exhausted(l, e) = Finish(l, LastError(l, e))
  BY DEF Exhausted, y
<1> QED BY <1>2, <1>3, <1>4

\* A request failed: a retry, another model or the end.
LEMMA FailedKeeps ==
    ASSUME NEW l, LadFrame(l), IsError(l.result), NEW e, IsError(e), NEW index, NEW caps
    PROVE  LadInv(Failed(l, e, index, caps))
<1> DEFINE k == [l EXCEPT !.credit = @ \/ isCreditExhausted(e)]
           again == [k EXCEPT !.attempt = @ + 1, !.key = getNextAPIKey(Clients[l.name], index)]
           wait == [k EXCEPT !.phase = "backoff"]
<1>1. DOMAIN k = LadFields /\ k.name = l.name /\ k.result = l.result
  BY DEF LadFrame, LadFields
<1>2. /\ DOMAIN again = LadFields /\ again.name = l.name /\ again.result = l.result
      /\ DOMAIN wait = LadFields /\ wait.name = l.name /\ wait.result = l.result
  <2> HIDE DEF k
  <2> QED BY <1>1 DEF LadFields
<1>3. \/ Failed(l, e, index, caps) = Exhausted(l, e)
      \/ Failed(l, e, index, caps) = Exhausted(k, e)
      \/ Failed(l, e, index, caps) = CallAgain(again, caps)
      \/ Failed(l, e, index, caps) = wait
  BY DEF Failed
<1> HIDE DEF k, again, wait
<1>4. LadFrame(k) /\ LadFrame(again) /\ IsError(again.result)
  BY <1>1, <1>2 DEF LadFrame
<1>5. LadInv(Exhausted(l, e)) /\ LadInv(Exhausted(k, e)) /\ LadInv(CallAgain(again, caps))
  BY <1>4, ExhaustedKeeps, CallAgainKeeps
<1>6. LadInv(wait)
  BY <1>2, ErrorsTyped DEF LadInv, LadFrame
<1> QED BY <1>3, <1>5, <1>6

\* Reading the answer of a model.
LEMMA ParseTyped ==
    ASSUME NEW body \in Seq(Pieces)
    PROVE  IsResult(parseAndUnmarshal(body))
<1> DEFINE found == ExtractJSONBlock(body)
<1>1. CASE found = {} \/ ~body[Max(found)].valid
  BY <1>1, ErrorsTyped DEF parseAndUnmarshal
<1>2. CASE found # {} /\ body[Max(found)].valid
  <2>1. Len(body) \in Nat /\ DOMAIN body = 1..Len(body)
    OBVIOUS
  <2>2. found \in SUBSET (DOMAIN body)
    BY DEF ExtractJSONBlock, stripFencedCodeBlocks
  <2>3. found \in SUBSET (0..Len(body))
    BY <2>1, <2>2
  <2> HIDE DEF found
  <2>4. Max(found) \in DOMAIN body
    BY <1>2, <2>1, <2>2, <2>3, MaxIn
  <2> DEFINE s == body[Max(found)]
  <2>5. s \in Pieces
    BY <2>4
  <2>6. s.acts \in Seq(Actions)
    BY <2>5 DEF Pieces
  <2> HIDE DEF s
  <2>7. IsResult(LenientUnmarshal(s))
    BY <2>6, SelectedTyped DEF LenientUnmarshal, IsResult
  <2>8. parseAndUnmarshal(body) = LenientUnmarshal(s)
    BY <1>2 DEF parseAndUnmarshal, found, s
  <2> QED BY <2>7, <2>8
<1> QED BY <1>1, <1>2

\* A request was answered: the answer is read, refused or asked for again.
LEMMA AdvanceKeeps ==
    ASSUME NEW l, LadFrame(l), IsError(l.result), NEW r, IsAnswer(r), NEW index, NEW caps
    PROVE  LadInv(Advance(l, r, index, caps))
<1>1. CASE r.ok
  <2> DEFINE p == parseAndUnmarshal(r.body)
             again == [l EXCEPT !.key = l.first, !.reminded = TRUE]
             next == CallAgain(again, caps)
             left == [next EXCEPT !.result = p]
  <2>1. IsResult(p)
    BY <1>1, ParseTyped DEF IsAnswer
  <2> HIDE DEF p
  <2>2. DOMAIN again = LadFields /\ again.name = l.name /\ again.result = l.result
    BY DEF LadFrame, LadFields
  <2>3. CASE p.ok \/ l.reminded
    BY <1>1, <2>1, <2>3, FinishKeeps DEF Advance, Answered, p
  <2>4. CASE ~(p.ok \/ l.reminded)
    <3> HIDE DEF again
    <3>1. LadInv(next) /\ next.phase = "call"
      BY <2>2, CallAgainKeeps DEF LadFrame
    <3> HIDE DEF next
    <3>2. DOMAIN left = LadFields /\ left.name = next.name /\ left.result = p
      BY <3>1 DEF LadInv, LadFrame, LadFields
    <3> HIDE DEF left
    <3>3. IsError(p)
      BY <2>1, <2>4, ErrorsTyped
    <3>4. LadInv(left)
      BY <2>1, <3>1, <3>2, <3>3 DEF LadInv, LadFrame
    <3> QED BY <1>1, <2>4, <3>4 DEF Advance, Answered, left, next, again, p
  <2> QED BY <2>3, <2>4
<1>2. CASE ~r.ok /\ l.reminded
  BY <1>2, FinishKeeps, ErrorsTyped DEF Advance
<1>3. CASE ~r.ok /\ ~l.reminded
  <2>1. IsError(r)
    BY <1>3 DEF IsAnswer
  <2> QED BY <1>3, <2>1, FailedKeeps DEF Advance
<1> QED BY <1>1, <1>2, <1>3

\* One request: nothing yet, or an answer of the provider or an error made of it.
LEMMA SendTyped ==
    ASSUME NEW pc, NEW a, IsAnswer(a), NEW caps
    PROVE  LET s == Send(pc, a, caps) IN s.result = <<>> \/ IsAnswer(s.result[1])
<1>1. IsAnswer(PlainError)
  BY ErrorsTyped DEF IsAnswer
<1>2. IsAnswer(parseResponse(pc, a))
  BY <1>1 DEF parseResponse
<1>3. \/ Send(pc, a, caps).result = <<>>
      \/ Send(pc, a, caps).result = <<parseResponse(pc, a)>>
      \/ Send(pc, a, caps).result = <<PlainError>>
      \/ Send(pc, a, caps).result = <<a>>
  BY DEF Send
<1> QED BY <1>1, <1>2, <1>3

\* The catalogue of models was read, before the first call or for a fallback.
LEMMA CatalogKeeps ==
    ASSUME NEW l, LadFrame(l), IsError(l.result), NEW read, NEW caps, NEW blacklist
    PROVE  LadInv(Resolved(l, read, caps)) /\ LadInv(FellBack(l, read, caps, blacklist))
<1> DEFINE model == IF read THEN resolveLatestModel(Catalogs[l.name]) ELSE "latest"
           a == [l EXCEPT !.model = model]
           m == IF read THEN selectFallbackModel(Clients[l.name].model, l.model, Catalogs[l.name], blacklist) ELSE <<>>
           b == [l EXCEPT !.model = m[1], !.fallbacks = @ + 1, !.attempt = 0, !.key = l.first, !.credit = FALSE]
<1>1. LadFrame(a) /\ a.result = l.result
  <2> HIDE DEF model
  <2> QED BY DEF LadFrame, LadFields
<1>2. LadFrame(b) /\ b.result = l.result
  <2> HIDE DEF m
  <2> QED BY DEF LadFrame, LadFields
<1> HIDE DEF model, m, a, b
<1>3. LadInv(CallAgain(a, caps)) /\ LadInv(CallAgain(b, caps)) /\ LadInv(Finish(l, LastError(l, l.result)))
  BY <1>1, <1>2, CallAgainKeeps, FinishKeeps, LastErrorTyped
<1>4. Resolved(l, read, caps) = CallAgain(a, caps)
  BY DEF Resolved, a, model
<1>5. FellBack(l, read, caps, blacklist) = IF m = <<>> THEN Finish(l, LastError(l, l.result)) ELSE CallAgain(b, caps)
  BY DEF FellBack, b, m
<1> QED BY <1>3, <1>4, <1>5

-----------------------------------------------------------------------------
(* The candidates of a request. *)

\* The references of a role setting.
RefSet == [name : STRING, models : Seq(STRING), inline : BOOLEAN]

IsSetting(s) ==
    /\ s.ensemble \in Seq(EnsembleConfigs) /\ s.providers \in Seq(RefSet)
    /\ \A i \in DOMAIN s.providers :
         Found(mode, s.providers[i]) =>
           /\ s.providers[i].name \in Names
           /\ \A k \in DOMAIN ModelsOfRef(mode, s.providers[i]) :
                <<s.providers[i].name, ModelsOfRef(mode, s.providers[i])[k]>> \in DOMAIN Clients

\* A sequence is one over its own elements.
LEMMA OfRange ==
    ASSUME NEW S, NEW s \in Seq(S)
    PROVE  s \in Seq(Range(s)) /\ \A t \in Range(s) : t \in S
<1>1. DOMAIN s = 1..Len(s) /\ Len(s) \in Nat /\ \A i \in DOMAIN s : s[i] \in Range(s) /\ s[i] \in S
  BY DEF Range
<1>2. s = [i \in 1..Len(s) |-> s[i]]
  BY <1>1
<1>3. s \in Seq(Range(s))
  BY <1>1, <1>2
<1> QED BY <1>3 DEF Range

\* The chains of a role are sequences, whatever their elements.
LEMMA ChainsAreSequences ==
    ASSUME NEW role
    PROVE  \E S : AgentChain(role) \in Seq(S) /\ RoleChain(role) \in Seq(S)
<1> DEFINE S == {role, "auditor", "qa", "product_manager", "sovereign_rescue", "fallback", "orchestrator", "last_resort", "unblocker"}
<1>1. /\ role \in S /\ "auditor" \in S /\ "qa" \in S /\ "product_manager" \in S /\ "sovereign_rescue" \in S
      /\ "fallback" \in S /\ "orchestrator" \in S /\ "last_resort" \in S /\ "unblocker" \in S
  OBVIOUS
<1> HIDE DEF S
<1>2. /\ <<>> \in Seq(S)
      /\ \A a, b, c \in S : <<a>> \in Seq(S) /\ <<a, b>> \in Seq(S) /\ <<a, b, c>> \in Seq(S)
  OBVIOUS
<1>3. \/ AgentChain(role) = <<"auditor", "qa", "product_manager">>
      \/ AgentChain(role) = <<"sovereign_rescue", "fallback">>
      \/ AgentChain(role) = <<role>>
  BY DEF AgentChain
<1>4. \/ RoleChain(role) = <<"qa", "orchestrator">>
      \/ RoleChain(role) = <<"fallback", "last_resort", "unblocker">>
      \/ RoleChain(role) = <<>>
      \/ RoleChain(role) = <<role>>
  BY DEF RoleChain
<1>5. AgentChain(role) \in Seq(S)
  BY <1>1, <1>2, <1>3
<1>6. RoleChain(role) \in Seq(S)
  BY <1>1, <1>2, <1>4
<1> QED BY <1>5, <1>6

\* The setting of a role has the fields the router reads.
LEMMA SettingFound ==
    ASSUME mode \in Modes
    PROVE  IsSetting(getRoleSetting(mode.role))
<1> DEFINE ok(block, chain) == {k \in DOMAIN chain : chain[k] \in DOMAIN block /\ Configured(block[chain[k]])}
           found(block, chain) == Selected(chain, ok(block, chain))
           in(block, chain) == IF found(block, chain) = <<>> THEN <<>> ELSE <<block[found(block, chain)[1]]>>
           a == in(mode.agents, AgentChain(mode.role))
           r == in(mode.roles, RoleChain(mode.role))
<1>1. WellFormed(mode)
  BY ConfigAssumption
<1>2. ASSUME NEW block \in {mode.agents, mode.roles}, NEW role \in DOMAIN block PROVE IsSetting(block[role])
  BY <1>1 DEF WellFormed, IsSetting, RefSet
<1>3. IsSetting(NoSetting)
  BY DEF IsSetting, NoSetting
<1>4. ASSUME NEW block \in {mode.agents, mode.roles}, NEW S, NEW chain \in Seq(S)
      PROVE  in(block, chain) = <<>> \/ \E t : IsSetting(t) /\ in(block, chain) = <<t>>
  <2> DEFINE J == ok(block, chain)
             f == Selected(chain, J)
  <2> HIDE DEF J
  <2>1. f \in Seq(S) /\ \A k \in DOMAIN f : \E i \in DOMAIN chain : i \in J /\ f[k] = chain[i]
    BY SelectedTyped, SelectedPicks
  <2> HIDE DEF f
  <2>2. CASE f # <<>>
    <3>1. 1 \in DOMAIN f
      BY <2>1, <2>2
    <3>2. f[1] \in DOMAIN block
      BY <2>1, <3>1 DEF J
    <3>3. in(block, chain) = <<block[f[1]]>>
      BY <2>2 DEF f, J
    <3> QED BY <1>2, <3>2, <3>3
  <2>3. CASE f = <<>>
    BY <2>3 DEF f, J
  <2> QED BY <2>2, <2>3
<1>5. PICK S : AgentChain(mode.role) \in Seq(S) /\ RoleChain(mode.role) \in Seq(S)
  BY ChainsAreSequences
<1>6. /\ a = <<>> \/ \E t : IsSetting(t) /\ a = <<t>>
      /\ r = <<>> \/ \E t : IsSetting(t) /\ r = <<t>>
  <2> HIDE DEF in
  <2> QED BY <1>4, <1>5
<1>7. getRoleSetting(mode.role) = IF a \o r = <<>> THEN NoSetting ELSE (a \o r)[1]
  BY DEF getRoleSetting
<1> HIDE DEF a, r
<1>8. CASE a = <<>> /\ r = <<>>
  BY <1>3, <1>7, <1>8
<1>9. CASE a = <<>> /\ r # <<>>
  <2>1. PICK t : IsSetting(t) /\ r = <<t>>
    BY <1>6, <1>9
  <2> QED BY <1>7, <1>9, <2>1
<1>10. CASE a # <<>>
  <2>1. PICK t : IsSetting(t) /\ a = <<t>>
    BY <1>6, <1>10
  <2>2. CASE r = <<>>
    BY <1>7, <2>1, <2>2
  <2>3. CASE r # <<>>
    <3>1. PICK u : r = <<u>>
      BY <1>6, <2>3
    <3> QED BY <1>7, <2>1, <3>1
  <2> QED BY <2>2, <2>3
<1> QED BY <1>8, <1>9, <1>10

\* A candidate can be asked: it has a client, or the ensemble of its role is configured.
Askable(cand) ==
    /\ cand.name \in Names
    /\ IsEnsemble(cand) => /\ getRoleSetting(mode.role).ensemble[1] \in EnsembleConfigs
                           /\ getRoleSetting(mode.role).ensemble[1].strategy \in EnsembleStrategies
    /\ ~IsEnsemble(cand) => cand.client \in DOMAIN Clients

\* A candidate that has a client can be asked.
LEMMA PlainAskable ==
    ASSUME NEW name \in Names, NEW spec, NEW model, <<name, model>> \in DOMAIN Clients
    PROVE  Askable(Candidate(name, spec, model))
<1> DEFINE cand == Candidate(name, spec, model)
<1>1. cand.name = name /\ cand.client = <<name, model>>
  BY DEF Candidate
<1>2. <<name, model>> # <<"ensemble">>
  OBVIOUS
<1> HIDE DEF cand
<1> QED BY <1>1, <1>2 DEF Askable, IsEnsemble, cand

\* The priority list, which is also the list of FailoverClient.
LEMMA GlobalAskable ==
    ASSUME mode \in Modes
    PROVE  /\ BuildFailoverClient \in Seq(Range(BuildFailoverClient))
           /\ \A cand \in Range(BuildFailoverClient) : Askable(cand)
<1> DEFINE g == BuildFailoverClient
           p == mode.priority
           of(i) == Candidate(p[i], SpecOf(p[i]), SpecOf(p[i]).model)
<1>1. WellFormed(mode)
  BY ConfigAssumption
<1>2. p \in Seq(Names) /\ \A i \in DOMAIN p : p[i] \in Names /\ <<p[i], SpecOf(p[i]).model>> \in DOMAIN Clients
  BY <1>1 DEF WellFormed, SpecOf
<1>3. g = [i \in DOMAIN p |-> of(i)] /\ DOMAIN p = 1..Len(p) /\ Len(p) \in Nat
  BY <1>2 DEF BuildFailoverClient
<1>4. \A i \in DOMAIN p : Askable(of(i))
  BY <1>2, PlainAskable
<1> HIDE DEF of, p, g
<1>5. DOMAIN g = 1..Len(p) /\ \A i \in DOMAIN g : g[i] \in Range(g) /\ g[i] = of(i)
  BY <1>3 DEF Range
<1>6. g \in Seq(Range(g))
  BY <1>3, <1>5
<1>7. \A cand \in Range(g) : Askable(cand)
  BY <1>3, <1>4, <1>5 DEF Range
<1> QED BY <1>6, <1>7 DEF g

\* So can every candidate resolved for the role.
LEMMA RoleAskable ==
    ASSUME mode \in Modes
    PROVE  /\ ResolveCandidatesForRole(mode.role) \in Seq(Range(ResolveCandidatesForRole(mode.role)))
           /\ \A cand \in Range(ResolveCandidatesForRole(mode.role)) : Askable(cand)
<1> DEFINE setting == getRoleSetting(mode.role)
           I == {i \in DOMAIN setting.providers : Found(mode, setting.providers[i])}
           refs == Selected(setting.providers, I)
           ofRef(ref) == [i \in DOMAIN ModelsOfRef(mode, ref) |-> Candidate(ref.name, SpecOfRef(mode, ref), ModelsOfRef(mode, ref)[i])]
           lists == [i \in DOMAIN refs |-> ofRef(refs[i])]
           named == FlattenSeq(lists)
           global == BuildFailoverClient
           ensemble == setting.ensemble # <<>> /\ setting.ensemble[1].strategy \in EnsembleStrategies
           one == EnsembleCandidate(setting.ensemble[1])
           first == IF ensemble THEN <<one>> ELSE <<>>
           all == first \o Deduplicated(named \o global)
           default == Candidate("default", SpecOf("default"), "")
           C == UNION {Range(ofRef(refs[i])) : i \in DOMAIN refs}
           D == C \cup Range(global) \cup {one : b \in {b \in {TRUE} : ensemble}} \cup {default}
<1>1. IsSetting(setting)
  BY SettingFound
<1> HIDE DEF setting, I
<1>2. refs \in Seq(RefSet) /\ \A k \in DOMAIN refs : \E i \in DOMAIN setting.providers : i \in I /\ refs[k] = setting.providers[i]
  <2> DEFINE p == setting.providers
  <2>1. p \in Seq(RefSet)
    BY <1>1 DEF IsSetting
  <2> HIDE DEF p
  <2>2. Selected(p, I) \in Seq(RefSet) /\ \A k \in DOMAIN Selected(p, I) : \E i \in DOMAIN p : i \in I /\ Selected(p, I)[k] = p[i]
    BY <2>1, SelectedTyped, SelectedPicks
  <2> QED BY <2>2 DEF p
<1> HIDE DEF refs
<1>3. ASSUME NEW k \in DOMAIN refs
      PROVE  /\ DOMAIN ofRef(refs[k]) = 1..Len(ModelsOfRef(mode, refs[k])) /\ Len(ModelsOfRef(mode, refs[k])) \in Nat
             /\ \A i \in DOMAIN ofRef(refs[k]) : Askable(ofRef(refs[k])[i])
  <2> DEFINE ref == refs[k]
             models == ModelsOfRef(mode, ref)
  <2>1. ref \in RefSet /\ ref.name \in Names /\ \A i \in DOMAIN models : <<ref.name, models[i]>> \in DOMAIN Clients
    <3>1. PICK i \in DOMAIN setting.providers : Found(mode, setting.providers[i]) /\ refs[k] = setting.providers[i]
      BY <1>2 DEF I
    <3>2. refs[k] \in RefSet
      BY <1>2
    <3> QED BY <1>1, <3>1, <3>2 DEF IsSetting
  <2>2. DOMAIN models = 1..Len(models) /\ Len(models) \in Nat
    <3>1. ref.models \in Seq(STRING)
      BY <2>1 DEF RefSet
    <3>2. models = ref.models \/ models = <<SpecOfRef(mode, ref).model>>
      BY DEF ModelsOfRef
    <3> HIDE DEF models
    <3> QED BY <3>1, <3>2
  <2> HIDE DEF ref, models
  <2>3. \A i \in DOMAIN models : Askable(Candidate(ref.name, SpecOfRef(mode, ref), models[i]))
    BY <2>1, PlainAskable
  <2> QED BY <2>2, <2>3 DEF ref, models
<1> HIDE DEF ofRef
<1>4. ASSUME NEW k \in DOMAIN refs PROVE ofRef(refs[k]) \in Seq(C)
  <2> DEFINE s == ofRef(refs[k])
  <2>1. \A i \in DOMAIN s : s[i] \in C
    BY DEF Range
  <2>2. DOMAIN s = 1..Len(ModelsOfRef(mode, refs[k])) /\ Len(ModelsOfRef(mode, refs[k])) \in Nat
    BY <1>3
  <2>3. s = [i \in DOMAIN s |-> s[i]]
    BY DEF ofRef
  <2> HIDE DEF s, C
  <2>4. s \in Seq(C)
    BY <2>1, <2>2, <2>3
  <2> QED BY <2>4 DEF s
<1>5. \A cand \in C : Askable(cand)
  BY <1>3 DEF Range
<1> HIDE DEF C
<1>6. named \in Seq(C)
  <2>1. lists \in Seq(Seq(C))
    <3>1. DOMAIN refs = 1..Len(refs) /\ Len(refs) \in Nat
      BY <1>2
    <3> QED BY <1>4, <3>1
  <2> HIDE DEF lists
  <2> QED BY <2>1, FlattenTyped
<1> HIDE DEF named
<1>7. global \in Seq(Range(global)) /\ \A cand \in Range(global) : Askable(cand)
  BY GlobalAskable
<1>8. ensemble => Askable(one)
  <2> SUFFICES ASSUME ensemble PROVE Askable(one)
    OBVIOUS
  <2>1. 1 \in DOMAIN setting.ensemble /\ setting.ensemble[1] \in EnsembleConfigs
    BY <1>1 DEF IsSetting
  <2>2. one.name = "ensemble" /\ one.client = <<"ensemble">> /\ "ensemble" \in Names
    BY ConfigAssumption DEF EnsembleCandidate
  <2> HIDE DEF one
  <2> QED BY <2>1, <2>2 DEF Askable, IsEnsemble, setting
<1>9. Askable(default)
  BY ConfigAssumption, PlainAskable
<1> HIDE DEF ensemble, one, default, global
<1>10. \A cand \in D : Askable(cand)
  BY <1>5, <1>7, <1>8, <1>9
<1>11. named \o global \in Seq(D)
  <2>1. C \subseteq D /\ Range(global) \subseteq D
    OBVIOUS
  <2> HIDE DEF D
  <2>2. named \in Seq(D) /\ global \in Seq(D)
    BY <1>6, <1>7, <2>1
  <2> QED BY <2>2
<1>12. first \in Seq(D) /\ <<default>> \in Seq(D)
  <2>1. ensemble => one \in D
    OBVIOUS
  <2>2. default \in D
    OBVIOUS
  <2> HIDE DEF D
  <2> QED BY <2>1, <2>2
<1> HIDE DEF D, first
<1>13. all \in Seq(D)
  <2>1. Deduplicated(named \o global) \in Seq(D)
    BY <1>11, SelectedTyped DEF Deduplicated
  <2> QED BY <1>12, <2>1
<1>14. buildCandidatesForRole(mode.role) = IF all = <<>> /\ mode.default THEN <<default>> ELSE all
  BY DEF buildCandidatesForRole, BuildFailoverClient, all, first, named, lists, refs, I, setting, ofRef, global, ensemble, one, default
<1> HIDE DEF all
<1>15. ResolveCandidatesForRole(mode.role) \in Seq(D)
  BY <1>12, <1>13, <1>14 DEF ResolveCandidatesForRole
<1> QED BY <1>10, <1>15, OfRange

-----------------------------------------------------------------------------
(* Ordering and filtering the candidates. *)

\* Moving one element back is a permutation as far as elements and length go.
LEMMA DemoteTyped ==
    ASSUME NEW S, NEW s \in Seq(S), NEW i \in 1..Len(s), NEW by \in Nat
    PROVE  Demote(s, i, by) \in Seq(S) /\ Len(Demote(s, i, by)) = Len(s)
<1> DEFINE n == Len(s)
           to == Min({i + by, n})
<1>1. n \in Nat /\ DOMAIN s = 1..n /\ (\A k \in 1..n : s[k] \in S) /\ i \in 1..n
  OBVIOUS
<1> HIDE DEF n
<1>2. to \in i..n
  <2>1. to = IF i + by <= n THEN i + by ELSE n
    BY <1>1, MinPair
  <2> QED BY <1>1, <2>1
<1>3. Demote(s, i, by) = [k \in 1..n |-> CASE k = to -> s[i] [] k >= i /\ k < to -> s[k + 1] [] OTHER -> s[k]]
  BY <1>1 DEF Demote, n
<1> HIDE DEF to
<1>4. ASSUME NEW k \in 1..n PROVE (CASE k = to -> s[i] [] k >= i /\ k < to -> s[k + 1] [] OTHER -> s[k]) \in S
  <2>1. k >= i /\ k < to => k + 1 \in 1..n
    BY <1>1, <1>2
  <2>2. CASE k = to
    BY <1>1, <2>2
  <2>3. CASE k # to /\ k >= i /\ k < to
    BY <1>1, <2>1, <2>3
  <2>4. CASE k # to /\ ~(k >= i /\ k < to)
    BY <1>1, <2>4
  <2> QED BY <2>2, <2>3, <2>4
<1>5. Demote(s, i, by) \in [1..n -> S]
  BY <1>3, <1>4
<1>6. Demote(s, i, by) \in Seq(S) /\ Len(Demote(s, i, by)) = n
  <2> DEFINE d == Demote(s, i, by)
  <2> HIDE DEF d
  <2>1. d \in [1..n -> S]
    BY <1>5 DEF d
  <2> QED BY <1>1, <2>1 DEF d
<1> QED BY <1>6 DEF n

\* Demotion only moves candidates.
LEMMA DemotionTyped ==
    ASSUME NEW S, \A cand \in S : cand.name \in Names, penalty \in [Names -> Nat], NEW cands \in Seq(S)
    PROVE  ApplyDynamicDemotion(cands) \in Seq(S)
<1> DEFINE n == Len(cands)
           W == [list : {l \in Seq(S) : Len(l) = n}, seen : SUBSET Names]
           b == [list |-> cands, seen |-> {}]
           next(t, i) == IF t.list[i].name \in t.seen THEN t
                         ELSE [list |-> Demote(t.list, i, penalty[t.list[i].name]), seen |-> t.seen \cup {t.list[i].name}]
           Is(f) == f = [i \in 0..n |-> IF i = 0 THEN b ELSE next(f[i - 1], i)]
           acc == CHOOSE f : Is(f)
           step == [t \in W |-> [k \in Nat |-> IF k \in 1..n THEN next(t, k) ELSE t]]
<1>1. n \in Nat /\ b \in W
  OBVIOUS
<1>2. ASSUME NEW t \in W, NEW k \in 1..n PROVE next(t, k) \in W
  <2> DEFINE l == t.list
  <2>1. l \in Seq(S) /\ Len(l) = n /\ t.seen \in SUBSET Names
    OBVIOUS
  <2> HIDE DEF n
  <2>2. l[k] \in S
    BY <2>1
  <2> DEFINE m == l[k].name
  <2>3. m \in Names /\ penalty[m] \in Nat
    BY <2>2
  <2> HIDE DEF l, m
  <2>4. Demote(l, k, penalty[m]) \in Seq(S) /\ Len(Demote(l, k, penalty[m])) = n
    BY <2>1, <2>3, DemoteTyped
  <2>5. [list |-> Demote(l, k, penalty[m]), seen |-> t.seen \cup {m}] \in W
    BY <2>1, <2>3, <2>4
  <2> QED BY <2>5 DEF l, m
<1> HIDE DEF W, next, b, n
<1>3. step \in [W -> [Nat -> W]] /\ \A t \in W, k \in 1..n : step[t][k] = next(t, k)
  BY <1>1, <1>2
<1> HIDE DEF step
<1>4. PICK f \in [0..n -> W] : Solves(f, b, step, n)
  BY <1>1, <1>3, RecursionExists
<1>5. ASSUME NEW k \in 0..n PROVE f[k] = IF k = 0 THEN b ELSE next(f[k - 1], k)
  <2>1. f[k] = IF k = 0 THEN b ELSE step[f[k - 1]][k]
    BY <1>4 DEF Solves
  <2>2. k # 0 => k \in 1..n /\ f[k - 1] \in W
    BY <1>1
  <2> QED BY <1>3, <2>1, <2>2
<1>6. Is(f)
  BY <1>5
<1>7. Is(acc)
  <2> HIDE DEF Is
  <2> QED BY <1>6
<1> HIDE DEF acc
<1>8. DOMAIN acc = 0..n /\ \A k \in 0..n : acc[k] = IF k = 0 THEN b ELSE next(acc[k - 1], k)
  BY <1>7
<1>9. ASSUME NEW k \in 1..n, acc[k - 1] \in W PROVE acc[k] \in W
  <2>1. k \in 0..n /\ k # 0
    BY <1>1
  <2> QED BY <1>2, <1>8, <1>9, <2>1
<1>10. acc[0] = b
  BY <1>1, <1>8
<1>11. acc[n] \in W
  <2>1. n \in 0..n
    BY <1>1
  <2>2. \A k \in 0..n : acc[k] \in W
    <3> HIDE DEF Is
    <3> QED BY <1>1, <1>8, <1>9, <1>10, RecursionTyped
  <2> QED BY <2>1, <2>2
<1>12. ApplyDynamicDemotion(cands) = acc[n].list
  BY DEF ApplyDynamicDemotion, acc, next, b, n
<1> QED BY <1>11, <1>12 DEF W

\* Nor does the context window add a candidate to the list,
LEMMA ContextTyped ==
    ASSUME NEW S, NEW cands \in Seq(S), NEW tokens
    PROVE  FilterAndPrioritizeCandidatesByContext(cands, tokens) \in Seq(S)
<1> DEFINE window(c) == IF c.window > 0 THEN c.window ELSE GetModelContextWindow(c.provider, c.model)
           I == {i \in DOMAIN cands : tokens + 512 <= window(cands[i])}
           fitting == Selected(cands, I)
           score(c) == IF window(c) >= 1048576 THEN 300
                       ELSE IF window(c) >= 200000 THEN 200
                       ELSE IF window(c) >= 128000 THEN 100
                       ELSE 10
           J(n) == {i \in DOMAIN fitting : score(fitting[i]) = n}
           of(n) == Selected(fitting, J(n))
           sorted == of(300) \o of(200) \o of(100) \o of(10)
<1> HIDE DEF I, J
<1>1. fitting \in Seq(S)
  BY SelectedTyped
<1> HIDE DEF fitting
<1>2. \A n : of(n) \in Seq(S)
  BY <1>1, SelectedTyped
<1> HIDE DEF of
<1>3. sorted \in Seq(S)
  BY <1>2
<1> HIDE DEF sorted
<1>4. FilterAndPrioritizeCandidatesByContext(cands, tokens) =
        IF Len(cands) <= 1 \/ tokens = 0 \/ fitting = <<>> THEN cands
        ELSE IF mode.adaptive /\ tokens > 40000 THEN sorted
        ELSE fitting
  BY DEF FilterAndPrioritizeCandidatesByContext, sorted, of, J, fitting, I, window, score
<1> QED BY <1>1, <1>3, <1>4

\* nor do the token limits, the preferred model and the evictions.
LEMMA FiltersTyped ==
    ASSUME NEW S, NEW cands \in Seq(S), NEW read, NEW model
    PROVE  /\ filterByProviderTokenLimit(cands, read) \in Seq(S)
           /\ PrioritizeCandidatesByModel(cands, model) \in Seq(S)
           /\ filterEligibleCandidates(cands) \in Seq(S)
<1>1. \A I : Selected(cands, I) \in Seq(S)
  BY SelectedTyped
<1>2. filterByProviderTokenLimit(cands, read) \in Seq(S) /\ filterEligibleCandidates(cands) \in Seq(S)
  BY <1>1 DEF filterByProviderTokenLimit, filterEligibleCandidates
<1> DEFINE match == {i \in DOMAIN cands : cands[i].model \in {model, ""}}
           a == Selected(cands, match)
           b == Selected(cands, DOMAIN cands \ match)
<1>3. PrioritizeCandidatesByModel(cands, model) = IF model = "" THEN cands ELSE a \o b
  BY DEF PrioritizeCandidatesByModel
<1>4. a \in Seq(S) /\ b \in Seq(S)
  BY <1>1
<1> HIDE DEF a, b
<1>5. a \o b \in Seq(S)
  BY <1>4
<1> QED BY <1>2, <1>3, <1>5

\* The candidates of the configuration.
Fits == Range(ResolveCandidatesForRole(mode.role)) \cup Range(BuildFailoverClient)

\* All of them can be asked.
LEMMA FitsAskable ==
    ASSUME mode \in Modes
    PROVE  \A cand \in Fits : Askable(cand)
BY RoleAskable, GlobalAskable DEF Fits

\* The candidates of a request are candidates of the configuration.
LEMMA OrderedTyped ==
    ASSUME mode \in Modes, penalty \in [Names -> Nat], NEW read
    PROVE  OrderedCandidates(read) \in Seq(Fits) /\ filterEligibleCandidates(OrderedCandidates(read)) \in Seq(Fits)
<1>1. \A cand \in Fits : cand.name \in Names
  BY FitsAskable DEF Askable
<1>2. ResolveCandidatesForRole(mode.role) \in Seq(Fits)
  <2> DEFINE R == Range(ResolveCandidatesForRole(mode.role))
  <2>1. ResolveCandidatesForRole(mode.role) \in Seq(R) /\ R \subseteq Fits
    BY RoleAskable DEF Fits
  <2> HIDE DEF R
  <2> QED BY <2>1
<1> DEFINE a == FilterAndPrioritizeCandidatesByContext(ResolveCandidatesForRole(mode.role), mode.prompt)
           b == ApplyDynamicDemotion(a)
           c == filterByProviderTokenLimit(b, read)
<1>3. a \in Seq(Fits)
  BY <1>2, ContextTyped
<1> HIDE DEF a
<1>4. b \in Seq(Fits)
  BY <1>1, <1>3, DemotionTyped
<1> HIDE DEF b
<1>5. c \in Seq(Fits)
  BY <1>4, FiltersTyped
<1> HIDE DEF c
<1>6. PrioritizeCandidatesByModel(c, mode.override) \in Seq(Fits)
  BY <1>5, FiltersTyped
<1>7. OrderedCandidates(read) = PrioritizeCandidatesByModel(c, mode.override)
  BY DEF OrderedCandidates, a, b, c
<1> QED BY <1>6, <1>7, FiltersTyped

\* So are the backends of FailoverClient.
LEMMA BackendsTyped ==
    ASSUME mode \in Modes
    PROVE  BuildFailoverClient \in Seq(Fits)
<1> DEFINE R == Range(BuildFailoverClient)
<1>1. BuildFailoverClient \in Seq(R) /\ R \subseteq Fits
  BY GlobalAskable DEF Fits
<1> HIDE DEF R
<1> QED BY <1>1

\* The one chosen for the emergency is one of the list.
LEMMA RescueTyped ==
    ASSUME NEW S, \A cand \in S : cand.name \in Names, cooling \in [Names -> Nat], NEW cands \in Seq(S)
    PROVE  LET rescue == selectEmergencyRecoveryCandidate(cands) IN rescue = <<>> \/ rescue[1] \in S

<1> DEFINE open == {i \in DOMAIN cands : evicted[cands[i].name] = 0}
           wait(i) == cooling[cands[i].name]
           first == {i \in open : \A j \in open : wait(i) <= wait(j)}
           X == {wait(i) : i \in open}
<1>1. \A i \in DOMAIN cands : i \in Nat /\ cands[i] \in S /\ wait(i) \in Nat
  OBVIOUS
<1>2. CASE open = {}
  BY <1>2 DEF selectEmergencyRecoveryCandidate
<1>3. CASE open # {}
  <2>1. X \in SUBSET Nat /\ X # {}
    BY <1>1, <1>3
  <2>2. PICK m \in X : \A k \in X : m <= k
    <3> HIDE DEF X
    <3> QED BY <2>1, LeastNat
  <2>3. PICK i \in open : m = wait(i)
    OBVIOUS
  <2>4. i \in first
    BY <2>2, <2>3
  <2>5. first \in SUBSET Nat
    BY <1>1
  <2>6. Min(first) \in first
    <3> HIDE DEF first
    <3> QED BY <2>4, <2>5, MinIn
  <2>7. selectEmergencyRecoveryCandidate(cands) = <<cands[Min(first)]>>
    BY <1>3 DEF selectEmergencyRecoveryCandidate
  <2> HIDE DEF first
  <2>8. Min(first) \in DOMAIN cands
    BY <2>6 DEF first
  <2> QED BY <1>1, <2>7, <2>8
<1> QED BY <1>2, <1>3

-----------------------------------------------------------------------------
(* The requests and their completions. *)

\* A completion in flight, of a candidate in F.
FlightOf(cand, x, F) == cand \in F /\ (IsEnsemble(cand) => EnsInv(x)) /\ (~IsEnsemble(cand) => LadInv(x))
InSlot(v, F) == v = <<>> \/ \E cand, x : v = <<[cand |-> cand, x |-> x]>> /\ FlightOf(cand, x, F)

\* Every slot of every caller is empty or holds a completion in flight.
CallsOK(cs, F) ==
    /\ cs = [c \in Callers |-> [s \in Slots |-> cs[c][s]]]
    /\ \A c \in Callers, s \in Slots : InSlot(cs[c][s], F)

ReqFields == {"pc", "left", "cands", "queue", "at", "launched", "failures", "errored", "dead", "tried", "skipped", "outcome"}

\* Those a request has dealt with, and those from place k of its queue on.
Asked(q) == q.tried \cup q.skipped
From(q, k) == {q.queue[i] : i \in k..Len(q.queue)}

\* Nobody has been overlooked so far: who has not been asked or found barred has his turn still to come.
Covered(q) ==
    /\ q.pc = "hedge" => /\ Len(q.queue) >= 2 /\ q.at = 1 /\ q.queue[1] \in q.tried
                         /\ q.launched => q.queue[2] \in q.tried
                         /\ Range(q.cands) \subseteq q.skipped \cup From(q, 1)
    /\ q.pc \in {"next", "backend"} => Range(q.cands) \subseteq Asked(q) \cup From(q, q.at)
    /\ q.pc \in {"call", "backend call"} => Range(q.cands) \subseteq Asked(q) \cup From(q, q.at + 1)
    /\ q.pc = "emergency" => Range(q.cands) \subseteq Asked(q)
    /\ q.outcome = "failed" => q.pc = "idle" /\ Range(q.cands) \subseteq Asked(q)

\* A request in order.
ReqOK(q, F) ==
    /\ DOMAIN q = ReqFields
    /\ q.pc \in {"idle", "hedge", "next", "call", "emergency", "backend", "backend call"}
    /\ q.left \in Int /\ q.at \in Nat \ {0} /\ q.failures \in Nat
    /\ q.cands \in Seq(F) /\ q.queue \in Seq(F)
    /\ Covered(q)

ReqsOK(rs, F) == rs = [c \in Callers |-> rs[c]] /\ \A c \in Callers : ReqOK(rs[c], F)

\* What the callers share.
SharedInv == mode \in Modes /\ penalty \in [Names -> Nat] /\ cooling \in [Names -> Nat]

\* The inductive invariant of the router.
RouterInv == SharedInv /\ CallsOK(calls, Fits) /\ ReqsOK(req, Fits)

\* Replacing one completion leaves the others as they are.
LEMMA SlotSet ==
    ASSUME NEW cs, NEW F, CallsOK(cs, F), NEW c \in Callers, NEW s \in Slots, NEW v, InSlot(v, F)
    PROVE  /\ CallsOK([cs EXCEPT ![c][s] = v], F)
           /\ [cs EXCEPT ![c][s] = v][c][s] = v
           /\ \A d \in Callers, t \in Slots : <<d, t>> # <<c, s>> => [cs EXCEPT ![c][s] = v][d][t] = cs[d][t]
<1> DEFINE ds == [cs EXCEPT ![c][s] = v]
<1>1. /\ ds[c][s] = v
      /\ \A d \in Callers, t \in Slots : d # c \/ t # s => ds[d][t] = cs[d][t]
      /\ ds = [d \in Callers |-> [t \in Slots |-> ds[d][t]]]
  BY DEF CallsOK
<1> HIDE DEF ds
<1>2. \A d \in Callers, t \in Slots : InSlot(ds[d][t], F)
  BY <1>1 DEF CallsOK
<1>3. CallsOK(ds, F)
  BY <1>1, <1>2 DEF CallsOK
<1> QED BY <1>1, <1>3 DEF ds

\* So does dropping those of one caller.
LEMMA SlotsCleared ==
    ASSUME CallsOK(calls, Fits), NEW c \in Callers, NEW s \in Slots
    PROVE  /\ CallsOK(Idle(c), Fits) /\ CallsOK(Cleared(c, s), Fits)
           /\ \A d \in Callers, t \in Slots : /\ d # c => Idle(c)[d][t] = calls[d][t] /\ Cleared(c, s)[d][t] = calls[d][t]
                                              /\ Idle(c)[c][t] = <<>>
<1>1. InSlot(<<>>, Fits)
  BY DEF InSlot
<1>2. /\ CallsOK(Cleared(c, s), Fits)
      /\ \A d \in Callers, t \in Slots : d # c => Cleared(c, s)[d][t] = calls[d][t]
  BY <1>1, SlotSet DEF Cleared
<1> DEFINE ds == Idle(c)
<1>3. /\ \A t \in Slots : ds[c][t] = <<>>
      /\ \A d \in Callers, t \in Slots : d # c => ds[d][t] = calls[d][t]
      /\ ds = [d \in Callers |-> [t \in Slots |-> ds[d][t]]]
  BY DEF CallsOK, Idle
<1> HIDE DEF ds
<1>4. \A d \in Callers, t \in Slots : InSlot(ds[d][t], Fits)
  BY <1>1, <1>3 DEF CallsOK
<1>5. CallsOK(ds, Fits)
  BY <1>3, <1>4 DEF CallsOK
<1> QED BY <1>2, <1>3, <1>5 DEF ds

\* Replacing one request leaves the others as they are.
LEMMA ReqSet ==
    ASSUME NEW F, ReqsOK(req, F), NEW c \in Callers, NEW q, ReqOK(q, F)
    PROVE  ReqsOK([req EXCEPT ![c] = q], F)
BY DEF ReqsOK

\* The configuration does not change.
LEMMA FitsConstant == UNCHANGED mode => Fits' = Fits
BY DEF Fits, ResolveCandidatesForRole, buildCandidatesForRole, BuildFailoverClient, getRoleSetting, SpecOf

\* A completion begins.
LEMMA LaunchKeeps ==
    ASSUME SharedInv, NEW cs, CallsOK(cs, Fits), NEW c \in Callers, NEW s \in Slots, NEW cand \in Fits, Launch(cs, c, s, cand)
    PROVE  /\ CallsOK(calls', Fits)
           /\ \E x : calls' = [cs EXCEPT ![c][s] = <<[cand |-> cand, x |-> x]>>]
<1>1. Askable(cand)
  BY FitsAskable DEF SharedInv
<1>2. CASE IsEnsemble(cand)
  <2> DEFINE x == Begin(buildEnsembleCandidate(getRoleSetting(mode.role).ensemble[1]))
  <2>1. EnsInv(x)
    BY <1>1, <1>2, BeginKeeps DEF Askable
  <2>2. calls' = [cs EXCEPT ![c][s] = <<[cand |-> cand, x |-> x]>>]
    BY <1>2 DEF Launch
  <2> HIDE DEF x
  <2>3. InSlot(<<[cand |-> cand, x |-> x]>>, Fits)
    BY <1>2, <2>1 DEF InSlot, FlightOf
  <2> QED BY <2>2, <2>3, SlotSet
<1>3. CASE ~IsEnsemble(cand)
  <2> DEFINE x == Ladder(cand.client, clients.index[cand.client], clients.caps)
  <2>1. LadInv(x)
    BY <1>1, <1>3, LadderKeeps DEF Askable
  <2>2. calls' = [cs EXCEPT ![c][s] = <<[cand |-> cand, x |-> x]>>]
    BY <1>3 DEF Launch
  <2> HIDE DEF x
  <2>3. InSlot(<<[cand |-> cand, x |-> x]>>, Fits)
    BY <1>3, <2>1 DEF InSlot, FlightOf
  <2> QED BY <2>2, <2>3, SlotSet
<1> QED BY <1>2, <1>3

-----------------------------------------------------------------------------
(* Completions in flight. *)

\* A completion goes on to a state that keeps its invariant.
LEMMA UpdateKeeps ==
    ASSUME CallsOK(calls, Fits), NEW c \in Callers, NEW s \in Slots, calls[c][s] # <<>>, NEW x,
           IsEnsemble(calls[c][s][1].cand) => EnsInv(x), ~IsEnsemble(calls[c][s][1].cand) => LadInv(x), Update(c, s, x)
    PROVE  CallsOK(calls', Fits)
<1>1. PICK cand, y : calls[c][s] = <<[cand |-> cand, x |-> y]>> /\ FlightOf(cand, y, Fits)
  BY DEF CallsOK, InSlot
<1>2. calls' = [calls EXCEPT ![c][s] = <<[cand |-> cand, x |-> x]>>]
  <2>1. calls' = [calls EXCEPT ![c][s] = <<[calls[c][s][1] EXCEPT !.x = x]>>]
    BY DEF Update
  <2>2. [calls[c][s][1] EXCEPT !.x = x] = [cand |-> cand, x |-> x]
    BY <1>1
  <2> QED BY <2>1, <2>2
<1>3. InSlot(<<[cand |-> cand, x |-> x]>>, Fits)
  BY <1>1 DEF InSlot, FlightOf
<1> QED BY <1>2, <1>3, SlotSet

\* A step of a single client,
LEMMA ClientStepKeeps ==
    ASSUME RouterInv, NEW c \in Callers, NEW s \in Slots, calls[c][s] # <<>>, NEW l,
           ~IsEnsemble(calls[c][s][1].cand), LadInv(l), ClientStep(c, s, l)
    PROVE  CallsOK(calls', Fits)
<1>0. CallsOK(calls, Fits) /\ mode \in Modes /\ LadFrame(l)
  BY DEF RouterInv, SharedInv, LadInv
<1>1. CASE l.phase = "call" /\ ProviderAnswers(c, s, l)
  <2>1. IsError(l.result)
    BY <1>1 DEF LadInv
  <2>2. PICK a \in IF req[c].dead THEN {Canceled}
                   ELSE IF l.key \in mode.spent THEN {HTTPError(429, {})} ELSE mode.answers[l.name] :
             LET r == Send(l.pc, a, clients.caps)
                 sent == [l EXCEPT !.pc = r.pc]
             IN  IF r.result = <<>> THEN Update(c, s, sent)
                 ELSE Update(c, s, Advance(sent, r.result[1], clients.index[l.name], r.caps))
    BY <1>1 DEF ProviderAnswers
  <2>3. IsAnswer(a)
    <3>1. IsAnswer(Canceled) /\ IsAnswer(HTTPError(429, {}))
      BY ErrorsTyped DEF IsAnswer, HTTPError, Err, IsError
    <3>2. \A b \in mode.answers[l.name] : IsAnswer(b)
      BY <1>0, ConfigAssumption DEF WellFormed, LadFrame
    <3> QED BY <3>1, <3>2
  <2> DEFINE r == Send(l.pc, a, clients.caps)
             sent == [l EXCEPT !.pc = r.pc]
  <2>4. r.result = <<>> \/ IsAnswer(r.result[1])
    BY <2>3, SendTyped
  <2>5. IF r.result = <<>> THEN Update(c, s, sent) ELSE Update(c, s, Advance(sent, r.result[1], clients.index[l.name], r.caps))
    BY <2>2
  <2> HIDE DEF r
  <2>6. LadFrame(sent) /\ sent.result = l.result
    BY <1>0 DEF LadFrame, LadFields
  <2> HIDE DEF sent
  <2>7. LadInv(sent)
    BY <2>1, <2>6, ErrorsTyped DEF LadInv
  <2>8. CASE r.result = <<>>
    BY <1>0, <2>5, <2>7, <2>8, UpdateKeeps
  <2>9. CASE r.result # <<>>
    <3>1. LadInv(Advance(sent, r.result[1], clients.index[l.name], r.caps))
      BY <2>1, <2>4, <2>6, <2>9, AdvanceKeeps
    <3> QED BY <1>0, <2>5, <2>9, <3>1, UpdateKeeps
  <2> QED BY <2>8, <2>9
<1>2. CASE l.phase = "backoff" /\ Wakes(c, s, l)
  <2> DEFINE next == [l EXCEPT !.attempt = @ + 1]
  <2>1. IsError(l.result)
    BY <1>2 DEF LadInv
  <2>2. LadFrame(next) /\ next.result = l.result
    BY <1>0 DEF LadFrame, LadFields
  <2> HIDE DEF next
  <2>3. LadInv(Finish(l, Canceled)) /\ LadInv(CallAgain(next, clients.caps))
    BY <1>0, <2>1, <2>2, FinishKeeps, CallAgainKeeps, ErrorsTyped
  <2>4. Update(c, s, Finish(l, Canceled)) \/ Update(c, s, CallAgain(next, clients.caps))
    BY <1>2 DEF Wakes, next
  <2> QED BY <1>0, <2>3, <2>4, UpdateKeeps
<1>3. CASE l.phase \in {"latest", "catalog"} /\ CatalogRead(c, s, l)
  <2>1. IsError(l.result)
    BY <1>3 DEF LadInv
  <2>2. \E read : Update(c, s, Resolved(l, read, clients.caps)) \/ Update(c, s, FellBack(l, read, clients.caps, clients.blacklist))
    BY <1>3 DEF CatalogRead
  <2>3. PICK read : Update(c, s, Resolved(l, read, clients.caps)) \/ Update(c, s, FellBack(l, read, clients.caps, clients.blacklist))
    BY <2>2
  <2>4. LadInv(Resolved(l, read, clients.caps)) /\ LadInv(FellBack(l, read, clients.caps, clients.blacklist))
    BY <1>0, <2>1, CatalogKeeps
  <2> QED BY <1>0, <2>3, <2>4, UpdateKeeps
<1> QED BY <1>1, <1>2, <1>3 DEF ClientStep

\* and one of an ensemble.
LEMMA EnsembleStepKeeps ==
    ASSUME RouterInv, NEW c \in Callers, NEW s \in Slots, calls[c][s] # <<>>, NEW x,
           IsEnsemble(calls[c][s][1].cand), EnsInv(x), EnsembleStep(c, s, x)
    PROVE  CallsOK(calls', Fits)
<1>0. CallsOK(calls, Fits) /\ mode \in Modes
  BY DEF RouterInv, SharedInv
<1>1. \A r \in MemberResults(c) : IsResult(r)
  <2>1. \A r \in mode.members : IsResult(r)
    BY <1>0, ConfigAssumption DEF WellFormed
  <2> QED BY <2>1, ErrorsTyped DEF MemberResults
<1>2. CASE x.phase = "members" /\ \E i \in x.open, r \in MemberResults(c) : Update(c, s, Arrive(x, i, r))
  <2>1. PICK i \in x.open, r \in MemberResults(c) : Update(c, s, Arrive(x, i, r))
    BY <1>2
  <2> QED BY <1>0, <1>1, <1>2, <2>1, ArriveKeeps, UpdateKeeps
<1>3. CASE x.phase = "members" /\ (Update(c, s, SoftTimer(x)) \/ Update(c, s, Expire(x)))
  BY <1>0, <1>3, TimersKeep, UpdateKeeps
<1>4. CASE x.phase = "extra" /\ \E r \in MemberResults(c) : Update(c, s, ExtraArrives(x, r))
  BY <1>0, <1>1, <1>4, ExtraArrivesKeeps, UpdateKeeps
<1>5. CASE x.phase = "standard" /\ \E r \in MemberResults(c) : Update(c, s, StandardArrives(x, r))
  BY <1>0, <1>1, <1>5, StandardArrivesKeeps, UpdateKeeps
<1> QED BY <1>2, <1>3, <1>4, <1>5 DEF EnsembleStep

\* Every step of a completion in flight keeps the completions in order.
LEMMA CallStepKeeps ==
    ASSUME RouterInv, NEW c \in Callers, NEW s \in Slots, CallStep(c, s)
    PROVE  CallsOK(calls', Fits)
<1>1. calls[c][s] # <<>> /\ CallsOK(calls, Fits)
  BY DEF CallStep, RouterInv
<1>2. PICK cand, x : calls[c][s] = <<[cand |-> cand, x |-> x]>> /\ FlightOf(cand, x, Fits)
  BY <1>1 DEF CallsOK, InSlot
<1>3. calls[c][s][1].cand = cand /\ calls[c][s][1].x = x
  BY <1>2
<1>4. CASE IsEnsemble(cand)
  BY <1>1, <1>2, <1>3, <1>4, EnsembleStepKeeps DEF CallStep, FlightOf
<1>5. CASE ~IsEnsemble(cand)
  BY <1>1, <1>2, <1>3, <1>5, ClientStepKeeps DEF CallStep, FlightOf
<1> QED BY <1>4, <1>5

-----------------------------------------------------------------------------
(* What happens to one request. *)

\* A request may end; it may fail only when everybody was asked or found barred.
LEMMA EndKeeps ==
    ASSUME NEW F, NEW q, ReqOK(q, F), NEW o, o = "failed" => Range(q.cands) \subseteq Asked(q)
    PROVE  ReqOK([q EXCEPT !.pc = "idle", !.left = @ - 1, !.outcome = o], F)
<1> DEFINE y == [q EXCEPT !.pc = "idle", !.left = @ - 1, !.outcome = o]
<1>0. y.left = q.left - 1 /\ q.left \in Int
  BY DEF ReqOK, ReqFields
<1>5. y.left \in Int
  BY <1>0
<1>1. /\ DOMAIN y = ReqFields /\ y.pc = "idle" /\ y.at = q.at /\ y.failures = q.failures
      /\ y.cands = q.cands /\ y.queue = q.queue /\ y.tried = q.tried /\ y.skipped = q.skipped /\ y.outcome = o
  BY DEF ReqOK, ReqFields
<1> HIDE DEF y
<1>2. Covered(y)
  BY <1>1 DEF Covered, Asked
<1>3. ReqOK(y, F)
  BY <1>1, <1>2, <1>5 DEF ReqOK
<1> QED BY <1>3 DEF y

\* The same for the requests of all callers.
LEMMA EndsKeeps ==
    ASSUME NEW F, ReqsOK(req, F), NEW c \in Callers, NEW o, o = "failed" => Range(req[c].cands) \subseteq Asked(req[c]), Ends(c, o)
    PROVE  ReqsOK(req', F)
<1>1. ReqOK(req[c], F)
  BY DEF ReqsOK
<1>2. ReqOK([req[c] EXCEPT !.pc = "idle", !.left = @ - 1, !.outcome = o], F)
  BY <1>1, EndKeeps
<1>3. req' = [req EXCEPT ![c] = [req[c] EXCEPT !.pc = "idle", !.left = @ - 1, !.outcome = o]]
  BY DEF Ends
<1> QED BY <1>2, <1>3, ReqSet

\* The three ways a request begins.
LEMMA HedgeBegins ==
    ASSUME NEW F, NEW left \in Int, NEW cands \in Seq(F), NEW elig \in Seq(F), Len(elig) >= 2
    PROVE  ReqOK([[NoReq EXCEPT !.left = left, !.cands = cands] EXCEPT
                     !.pc = "hedge", !.queue = elig, !.tried = {elig[1]}, !.skipped = Range(cands) \ Range(elig)], F)
<1> DEFINE y == [[NoReq EXCEPT !.left = left, !.cands = cands] EXCEPT
                     !.pc = "hedge", !.queue = elig, !.tried = {elig[1]}, !.skipped = Range(cands) \ Range(elig)]
<1>1. /\ DOMAIN y = ReqFields /\ y.pc = "hedge" /\ y.left = left /\ y.at = 1 /\ y.failures = 0 /\ y.launched = FALSE
      /\ y.cands = cands /\ y.queue = elig /\ y.tried = {elig[1]} /\ y.skipped = Range(cands) \ Range(elig)
      /\ y.outcome = "none"
  BY DEF NoReq, ReqFields
<1>2. Range(elig) = {elig[i] : i \in 1..Len(elig)}
  BY DEF Range
<1> HIDE DEF y
<1>3. Covered(y)
  BY <1>1, <1>2 DEF Covered, From
<1>4. ReqOK(y, F)
  BY <1>1, <1>3 DEF ReqOK
<1> QED BY <1>4 DEF y

\* Both loops begin with all candidates in the queue.
LEMMA SequentialBegins ==
    ASSUME NEW F, NEW left \in Int, NEW cands \in Seq(F)
    PROVE  /\ ReqOK([[NoReq EXCEPT !.left = left, !.cands = cands] EXCEPT !.pc = "next", !.queue = cands], F)
           /\ ReqOK([NoReq EXCEPT !.pc = "backend", !.left = left, !.cands = cands, !.queue = cands], F)
<1>0. Range(cands) = {cands[i] : i \in 1..Len(cands)}
  BY DEF Range
<1> DEFINE y == [[NoReq EXCEPT !.left = left, !.cands = cands] EXCEPT !.pc = "next", !.queue = cands]
           z == [NoReq EXCEPT !.pc = "backend", !.left = left, !.cands = cands, !.queue = cands]
<1>1. /\ DOMAIN y = ReqFields /\ y.pc = "next" /\ y.left = left /\ y.at = 1 /\ y.failures = 0
      /\ y.cands = cands /\ y.queue = cands /\ y.outcome = "none"
  BY DEF NoReq, ReqFields
<1>2. /\ DOMAIN z = ReqFields /\ z.pc = "backend" /\ z.left = left /\ z.at = 1 /\ z.failures = 0
      /\ z.cands = cands /\ z.queue = cands /\ z.outcome = "none"
  BY DEF NoReq, ReqFields
<1> HIDE DEF y, z
<1>3. Covered(y) /\ Covered(z)
  BY <1>0, <1>1, <1>2 DEF Covered, From
<1> QED BY <1>1, <1>2, <1>3 DEF ReqOK, y, z

\* The rest of a sequence is its next element and what follows it.
LEMMA Splits ==
    ASSUME NEW F, NEW s \in Seq(F), NEW k \in Nat \ {0}
    PROVE  /\ k <= Len(s) => {s[i] : i \in k..Len(s)} = {s[k]} \cup {s[i] : i \in (k + 1)..Len(s)}
           /\ k > Len(s) => {s[i] : i \in k..Len(s)} = {}
<1>1. Len(s) \in Nat
  OBVIOUS
<1>2. k <= Len(s) => k..Len(s) = {k} \cup ((k + 1)..Len(s))
  BY <1>1
<1>3. k > Len(s) => k..Len(s) = {}
  BY <1>1
<1> QED BY <1>2, <1>3

\* So whoever waits has his turn now or later,
LEMMA Turn ==
    ASSUME NEW F, NEW q, ReqOK(q, F)
    PROVE  /\ q.at <= Len(q.queue) => From(q, q.at) = {q.queue[q.at]} \cup From(q, q.at + 1)
           /\ q.at > Len(q.queue) => From(q, q.at) = {}
<1> DEFINE s == q.queue
           k == q.at
<1>1. s \in Seq(F) /\ k \in Nat \ {0}
  BY DEF ReqOK
<1>2. \A i : From(q, i) = {s[j] : j \in i..Len(s)}
  BY DEF From
<1> HIDE DEF s, k
<1>3. /\ k <= Len(s) => From(q, k) = {s[k]} \cup From(q, k + 1)
      /\ k > Len(s) => From(q, k) = {}
  BY <1>1, <1>2, Splits
<1> QED BY <1>3 DEF s, k

\* and whose turn it is is one of the candidates.
LEMMA TurnTyped ==
    ASSUME NEW F, NEW q, ReqOK(q, F)
    PROVE  /\ q.at <= Len(q.queue) => q.queue[q.at] \in F
           /\ ~(q.at <= Len(q.queue)) => q.at > Len(q.queue)
           /\ q.queue \in Seq(F)
<1> DEFINE s == q.queue
           k == q.at
<1>1. s \in Seq(F) /\ k \in Nat \ {0}
  BY DEF ReqOK
<1> HIDE DEF s, k
<1>2. Len(s) \in Nat /\ \A i \in 1..Len(s) : s[i] \in F
  BY <1>1
<1>3. /\ k <= Len(s) => s[k] \in F
      /\ ~(k <= Len(s)) => k > Len(s)
  BY <1>1, <1>2
<1> QED BY <1>1, <1>3 DEF s, k

\* A barred candidate is passed over.
LEMMA SkipKeeps ==
    ASSUME NEW F, NEW q, ReqOK(q, F), q.pc \in {"next", "backend"}, q.at <= Len(q.queue)
    PROVE  ReqOK([q EXCEPT !.at = @ + 1, !.skipped = @ \cup {q.queue[q.at]}], F)
<1> DEFINE y == [q EXCEPT !.at = @ + 1, !.skipped = @ \cup {q.queue[q.at]}]
<1>0. y.at = q.at + 1
  BY DEF ReqOK, ReqFields
<1>1. /\ DOMAIN y = ReqFields /\ y.pc = q.pc /\ y.left = q.left /\ y.failures = q.failures
      /\ y.cands = q.cands /\ y.queue = q.queue /\ y.tried = q.tried /\ y.skipped = q.skipped \cup {q.queue[q.at]}
      /\ y.outcome = q.outcome
  BY DEF ReqOK, ReqFields
<1> HIDE DEF y
<1>2. From(q, q.at) = {q.queue[q.at]} \cup From(y, y.at)
  <2>1. From(q, q.at) = {q.queue[q.at]} \cup From(q, q.at + 1)
    BY Turn
  <2> QED BY <1>0, <1>1, <2>1 DEF From
<1>3. Covered(y)
  BY <1>1, <1>2 DEF Covered, Asked, ReqOK
<1>4. y.at \in Nat \ {0}
  <2>1. q.at \in Nat \ {0}
    BY DEF ReqOK
  <2> QED BY <1>0, <2>1
<1>5. ReqOK(y, F)
  BY <1>1, <1>3, <1>4 DEF ReqOK
<1> QED BY <1>5 DEF y

\* The candidate whose turn it is is asked.
LEMMA CallKeeps ==
    ASSUME NEW F, NEW q, ReqOK(q, F), q.pc \in {"next", "backend"}, q.at <= Len(q.queue), NEW pc \in {"call", "backend call"}
    PROVE  ReqOK([q EXCEPT !.pc = pc, !.tried = @ \cup {q.queue[q.at]}], F)
<1> DEFINE y == [q EXCEPT !.pc = pc, !.tried = @ \cup {q.queue[q.at]}]
<1>1. /\ DOMAIN y = ReqFields /\ y.pc = pc /\ y.left = q.left /\ y.at = q.at /\ y.failures = q.failures
      /\ y.cands = q.cands /\ y.queue = q.queue /\ y.tried = q.tried \cup {q.queue[q.at]} /\ y.skipped = q.skipped
      /\ y.outcome = q.outcome
  BY DEF ReqOK, ReqFields
<1> HIDE DEF y
<1>2. From(q, q.at) = {q.queue[q.at]} \cup From(y, y.at + 1)
  <2>1. From(q, q.at) = {q.queue[q.at]} \cup From(q, q.at + 1)
    BY Turn
  <2> QED BY <1>1, <2>1 DEF From
<1>3. Covered(y)
  BY <1>1, <1>2 DEF Covered, Asked, ReqOK
<1>4. ReqOK(y, F)
  BY <1>1, <1>3 DEF ReqOK
<1> QED BY <1>4 DEF y

\* Everyone had his turn: whoever is asked now, or nobody.
LEMMA AllAsked ==
    ASSUME NEW F, NEW q, ReqOK(q, F), q.pc \in {"next", "backend"}, q.at > Len(q.queue)
    PROVE  /\ Range(q.cands) \subseteq Asked(q)
           /\ \A cand : ReqOK([q EXCEPT !.pc = "emergency", !.tried = @ \cup {cand}], F)
<1>1. From(q, q.at) = {}
  BY Turn
<1>2. Range(q.cands) \subseteq Asked(q)
  BY <1>1 DEF Covered, ReqOK
<1>3. ASSUME NEW cand PROVE ReqOK([q EXCEPT !.pc = "emergency", !.tried = @ \cup {cand}], F)
  <2> DEFINE y == [q EXCEPT !.pc = "emergency", !.tried = @ \cup {cand}]
  <2>1. /\ DOMAIN y = ReqFields /\ y.pc = "emergency" /\ y.left = q.left /\ y.at = q.at /\ y.failures = q.failures
        /\ y.cands = q.cands /\ y.queue = q.queue /\ y.tried = q.tried \cup {cand} /\ y.skipped = q.skipped
        /\ y.outcome = q.outcome
    BY DEF ReqOK, ReqFields
  <2> HIDE DEF y
  <2>2. Covered(y)
    BY <1>2, <2>1 DEF Covered, Asked, ReqOK
  <2> QED BY <2>1, <2>2 DEF ReqOK, y
<1> QED BY <1>2, <1>3

\* The place after a place in the queue is one.
LEMMA Successor == \A n \in Nat \ {0} : n + 1 \in Nat \ {0}
OBVIOUS

\* A candidate failed: the next one has his turn.
LEMMA NextTurn ==
    ASSUME NEW F, NEW q, ReqOK(q, F), NEW pc \in {"next", "backend"},
           q.pc = IF pc = "next" THEN "call" ELSE "backend call"
    PROVE  ReqOK([q EXCEPT !.pc = pc, !.at = @ + 1, !.errored = TRUE], F)
<1> DEFINE y == [q EXCEPT !.pc = pc, !.at = @ + 1, !.errored = TRUE]
<1>0. y.at = q.at + 1
  BY DEF ReqOK, ReqFields
<1>1. /\ DOMAIN y = ReqFields /\ y.pc = pc /\ y.left = q.left /\ y.failures = q.failures
      /\ y.cands = q.cands /\ y.queue = q.queue /\ y.tried = q.tried /\ y.skipped = q.skipped /\ y.outcome = q.outcome
  BY DEF ReqOK, ReqFields
<1> HIDE DEF y
<1>2. From(y, y.at) = From(q, q.at + 1)
  BY <1>0, <1>1 DEF From
<1>3. Covered(y)
  BY <1>1, <1>2 DEF Covered, Asked, ReqOK
<1>4. y.at \in Nat \ {0}
  <2>1. q.at \in Nat \ {0}
    BY DEF ReqOK
  <2> QED BY <1>0, <2>1, Successor, Zenon
<1>5. ReqOK(y, F)
  BY <1>1, <1>3, <1>4 DEF ReqOK
<1> QED BY <1>5 DEF y

\* The hedge: a failure is counted, the secondary is launched, both have failed.
LEMMA HedgeFails ==
    ASSUME NEW F, NEW q, ReqOK(q, F), q.pc = "hedge"
    PROVE  LET y == [q EXCEPT !.failures = @ + 1] IN ReqOK(y, F) /\ y.pc = "hedge" /\ y.launched = q.launched /\ y.queue = q.queue
<1> DEFINE y == [q EXCEPT !.failures = @ + 1]
<1>1. /\ DOMAIN y = ReqFields /\ y.pc = q.pc /\ y.left = q.left /\ y.at = q.at /\ y.failures = q.failures + 1 /\ y.launched = q.launched
      /\ y.cands = q.cands /\ y.queue = q.queue /\ y.tried = q.tried /\ y.skipped = q.skipped /\ y.outcome = q.outcome
  BY DEF ReqOK, ReqFields
<1> HIDE DEF y
<1>2. From(y, 1) = From(q, 1)
  BY <1>1 DEF From
<1>3. Covered(y)
  BY <1>1, <1>2 DEF Covered, ReqOK
<1>4. ReqOK(y, F)
  BY <1>1, <1>3 DEF ReqOK
<1> QED BY <1>1, <1>4 DEF y

\* The secondary is the second of the queue.
LEMMA HedgeLaunches ==
    ASSUME NEW F, NEW q, ReqOK(q, F), q.pc = "hedge"
    PROVE  /\ ReqOK([q EXCEPT !.launched = TRUE, !.tried = @ \cup {q.queue[2]}], F)
           /\ q.queue[2] \in F
<1> DEFINE y == [q EXCEPT !.launched = TRUE, !.tried = @ \cup {q.queue[2]}]
<1>1. /\ DOMAIN y = ReqFields /\ y.pc = q.pc /\ y.left = q.left /\ y.at = q.at /\ y.failures = q.failures
      /\ y.cands = q.cands /\ y.queue = q.queue /\ y.tried = q.tried \cup {q.queue[2]} /\ y.skipped = q.skipped
      /\ y.outcome = q.outcome
  BY DEF ReqOK, ReqFields
<1> HIDE DEF y
<1>2. From(y, 1) = From(q, 1)
  BY <1>1 DEF From
<1>3. Covered(y)
  BY <1>1, <1>2 DEF Covered, ReqOK
<1>4. q.queue[2] \in F
  BY DEF Covered, ReqOK
<1> QED BY <1>1, <1>3, <1>4 DEF ReqOK, y

\* Both have failed: the loop takes over from the third, or there is no third.
LEMMA HedgeLost ==
    ASSUME NEW F, NEW q, ReqOK(q, F), q.pc = "hedge", q.launched
    PROVE  /\ Len(q.queue) > 2 => ReqOK([q EXCEPT !.pc = "next", !.queue = AfterHedge(@)], F)
           /\ Len(q.queue) <= 2 => Range(q.cands) \subseteq Asked(q)
<1>1. /\ q.queue \in Seq(F) /\ Len(q.queue) \in Nat /\ Len(q.queue) >= 2 /\ q.queue[1] \in q.tried /\ q.queue[2] \in q.tried
      /\ Range(q.cands) \subseteq q.skipped \cup From(q, 1) /\ q.at = 1 /\ q.outcome # "failed"
  BY DEF ReqOK, Covered
<1>2. From(q, 1) = {q.queue[1], q.queue[2]} \cup From(q, 3)
  BY <1>1, Splits DEF From
<1>3. ASSUME Len(q.queue) <= 2 PROVE Range(q.cands) \subseteq Asked(q)
  <2>1. From(q, 3) = {}
    BY <1>1, <1>3, Splits DEF From
  <2> QED BY <1>1, <1>2, <2>1 DEF Asked
<1>4. ASSUME Len(q.queue) > 2 PROVE ReqOK([q EXCEPT !.pc = "next", !.queue = AfterHedge(@)], F)
  <2> DEFINE y == [q EXCEPT !.pc = "next", !.queue = AfterHedge(@)]
             s == AfterHedge(q.queue)
  <2>1. s \in Seq(F) /\ Len(s) = Len(q.queue) - 2 /\ \A i \in 1..Len(s) : s[i] = q.queue[i + 2]
    BY <1>1, <1>4 DEF AfterHedge
  <2>2. /\ DOMAIN y = ReqFields /\ y.pc = "next" /\ y.left = q.left /\ y.at = q.at /\ y.failures = q.failures
        /\ y.cands = q.cands /\ y.queue = s /\ y.tried = q.tried /\ y.skipped = q.skipped /\ y.outcome = q.outcome
    BY DEF ReqOK, ReqFields
  <2> HIDE DEF y, s
  <2>3. From(q, 3) \subseteq From(y, 1)
    <3> SUFFICES ASSUME NEW i \in 3..Len(q.queue) PROVE q.queue[i] \in From(y, 1)
      BY DEF From
    <3>1. i - 2 \in 1..Len(s) /\ s[i - 2] = q.queue[i]
      BY <1>1, <2>1
    <3> QED BY <2>2, <3>1 DEF From
  <2>4. Covered(y)
    BY <1>1, <1>2, <2>2, <2>3 DEF Covered, Asked
  <2> QED BY <2>1, <2>2, <2>4 DEF ReqOK, y
<1> QED BY <1>3, <1>4

\* A dead context changes nothing but that.
LEMMA DeadKeeps ==
    ASSUME NEW F, NEW q, ReqOK(q, F)
    PROVE  ReqOK([q EXCEPT !.dead = TRUE], F)
<1> DEFINE y == [q EXCEPT !.dead = TRUE]
<1>1. /\ DOMAIN y = ReqFields /\ y.pc = q.pc /\ y.left = q.left /\ y.at = q.at /\ y.failures = q.failures /\ y.launched = q.launched
      /\ y.cands = q.cands /\ y.queue = q.queue /\ y.tried = q.tried /\ y.skipped = q.skipped /\ y.outcome = q.outcome
  BY DEF ReqOK, ReqFields
<1> HIDE DEF y
<1>2. \A k : From(y, k) = From(q, k)
  BY <1>1 DEF From
<1>3. Covered(y)
  BY <1>1, <1>2 DEF Covered, Asked, ReqOK
<1>4. ReqOK(y, F)
  BY <1>1, <1>3 DEF ReqOK
<1> QED BY <1>4 DEF y

-----------------------------------------------------------------------------
(* Actions: requests begin, loop, hedge and are cancelled. *)

\* The parts of the invariant after a step make the invariant.
LEMMA Together ==
    ASSUME RouterInv, UNCHANGED mode, penalty' \in [Names -> Nat], cooling' \in [Names -> Nat],
           CallsOK(calls', Fits), ReqsOK(req', Fits)
    PROVE  RouterInv'
<1>1. Fits' = Fits
  BY FitsConstant
<1>2. SharedInv'
  BY DEF RouterInv, SharedInv
<1>3. CallsOK(calls', Fits') /\ ReqsOK(req', Fits')
  BY <1>1
<1>4. CallsOK(calls, Fits)' /\ ReqsOK(req, Fits)'
  BY <1>3 DEF CallsOK, ReqsOK, InSlot, FlightOf, ReqOK
<1> QED BY <1>2, <1>4 DEF RouterInv

\* The parts of the invariant, and what they say of every request and candidate.
LEMMA Opened == RouterInv => /\ mode \in Modes /\ penalty \in [Names -> Nat] /\ cooling \in [Names -> Nat]
                             /\ SharedInv /\ CallsOK(calls, Fits) /\ ReqsOK(req, Fits)
                             /\ \A c \in Callers : ReqOK(req[c], Fits) /\ req[c].left \in Int
                             /\ \A cand \in Fits : Askable(cand) /\ cand.name \in Names
<1> SUFFICES ASSUME RouterInv PROVE /\ \A c \in Callers : ReqOK(req[c], Fits) /\ req[c].left \in Int
                                    /\ \A cand \in Fits : Askable(cand) /\ cand.name \in Names
  BY DEF RouterInv, SharedInv
<1>1. \A c \in Callers : ReqOK(req[c], Fits)
  BY DEF RouterInv, ReqsOK
<1>2. \A c \in Callers : req[c].left \in Int
  BY <1>1 DEF ReqOK
<1>3. \A cand \in Fits : Askable(cand)
  BY FitsAskable DEF RouterInv, SharedInv
<1>4. \A cand \in Fits : cand.name \in Names
  BY <1>3 DEF Askable
<1> QED BY <1>1, <1>2, <1>3, <1>4

\* Router.Complete starts with a hedge, with the loop or with the emergency candidate.
LEMMA CompleteKeeps ==
    ASSUME RouterInv, NEW c \in Callers, Complete(c)
    PROVE  RouterInv'
<1>0. /\ mode \in Modes /\ penalty \in [Names -> Nat] /\ cooling \in [Names -> Nat]
      /\ SharedInv /\ CallsOK(calls, Fits) /\ ReqsOK(req, Fits) /\ req[c].left \in Int
  BY Opened
<1>1. PICK read \in mode.reads :
         LET cands == OrderedCandidates(read)
             eligible == filterEligibleCandidates(cands)
             fresh == [NoReq EXCEPT !.left = req[c].left, !.cands = cands]
             hedged == Len(cands) >= 2 /\ Len(eligible) >= 2 /\ hedgeDelayFor(eligible[1].name)
         IN  IF BudgetSpent(read) THEN Ends(c, "budget") /\ UNCHANGED <<calls, clients>>
             ELSE IF cands = <<>> THEN Ends(c, "none left") /\ UNCHANGED <<calls, clients>>
             ELSE IF hedged
                  THEN /\ req' = [req EXCEPT ![c] = [fresh EXCEPT !.pc = "hedge", !.queue = eligible, !.tried = {eligible[1]},
                                                     !.skipped = Range(cands) \ Range(eligible)]]
                       /\ Launch(calls, c, "p", eligible[1])
             ELSE /\ req' = [req EXCEPT ![c] = [fresh EXCEPT !.pc = "next", !.queue = cands]]
                  /\ UNCHANGED <<calls, clients>>
  BY DEF Complete
<1> DEFINE cands == OrderedCandidates(read)
           elig == filterEligibleCandidates(cands)
<1>2. cands \in Seq(Fits) /\ elig \in Seq(Fits)
  BY <1>0, OrderedTyped
<1>3. UNCHANGED <<mode, penalty, cooling>>
  BY DEF Complete
<1>4. \/ \E o \in {"budget", "none left"} : Ends(c, o) /\ UNCHANGED <<calls, clients>>
      \/ /\ Len(elig) >= 2
         /\ req' = [req EXCEPT ![c] = [[NoReq EXCEPT !.left = req[c].left, !.cands = cands] EXCEPT
                                         !.pc = "hedge", !.queue = elig, !.tried = {elig[1]}, !.skipped = Range(cands) \ Range(elig)]]
         /\ Launch(calls, c, "p", elig[1])
      \/ /\ req' = [req EXCEPT ![c] = [[NoReq EXCEPT !.left = req[c].left, !.cands = cands] EXCEPT !.pc = "next", !.queue = cands]]
         /\ UNCHANGED <<calls, clients>>
  BY <1>1
<1> HIDE DEF elig, cands
<1>5. CASE \E o \in {"budget", "none left"} : Ends(c, o) /\ UNCHANGED <<calls, clients>>
  <2>1. ReqsOK(req', Fits) /\ calls' = calls
    BY <1>0, <1>5, EndsKeeps
  <2> QED BY <1>0, <1>3, <2>1, Together
<1>6. CASE /\ Len(elig) >= 2
           /\ req' = [req EXCEPT ![c] = [[NoReq EXCEPT !.left = req[c].left, !.cands = cands] EXCEPT
                                         !.pc = "hedge", !.queue = elig, !.tried = {elig[1]}, !.skipped = Range(cands) \ Range(elig)]]
           /\ Launch(calls, c, "p", elig[1])
  <2>1. ReqsOK(req', Fits)
    BY <1>0, <1>2, <1>6, HedgeBegins, ReqSet
  <2>2. elig[1] \in Fits /\ "p" \in Slots
    BY <1>2, <1>6 DEF Slots
  <2>3. CallsOK(calls', Fits)
    BY <1>0, <1>6, <2>2, LaunchKeeps
  <2> QED BY <1>0, <1>3, <2>1, <2>3, Together
<1>7. CASE /\ req' = [req EXCEPT ![c] = [[NoReq EXCEPT !.left = req[c].left, !.cands = cands] EXCEPT !.pc = "next", !.queue = cands]]
           /\ UNCHANGED <<calls, clients>>
  <2>1. ReqsOK(req', Fits)
    BY <1>0, <1>2, <1>7, SequentialBegins, ReqSet
  <2> QED BY <1>0, <1>3, <1>7, <2>1, Together
<1> QED BY <1>4, <1>5, <1>6, <1>7

\* FailoverClient.Complete starts with its first backend.
LEMMA FailoverCompleteKeeps ==
    ASSUME RouterInv, NEW c \in Callers, FailoverComplete(c)
    PROVE  RouterInv'
<1>0. /\ mode \in Modes /\ penalty \in [Names -> Nat] /\ cooling \in [Names -> Nat]
      /\ CallsOK(calls, Fits) /\ ReqsOK(req, Fits) /\ req[c].left \in Int
  BY Opened
<1>1. UNCHANGED <<mode, penalty, cooling, calls>>
  BY DEF FailoverComplete
<1>2. BuildFailoverClient \in Seq(Fits)
  BY <1>0, BackendsTyped
<1>3. \/ Ends(c, "budget")
      \/ req' = [req EXCEPT ![c] = [NoReq EXCEPT !.pc = "backend", !.left = req[c].left,
                                                 !.cands = BuildFailoverClient, !.queue = BuildFailoverClient]]
  BY DEF FailoverComplete
<1>4. ReqsOK(req', Fits)
  <2>1. CASE Ends(c, "budget")
    BY <1>0, <2>1, EndsKeeps
  <2>2. CASE req' = [req EXCEPT ![c] = [NoReq EXCEPT !.pc = "backend", !.left = req[c].left,
                                                     !.cands = BuildFailoverClient, !.queue = BuildFailoverClient]]
    <3>1. ReqOK([NoReq EXCEPT !.pc = "backend", !.left = req[c].left,
                              !.cands = BuildFailoverClient, !.queue = BuildFailoverClient], Fits)
      BY <1>0, <1>2, SequentialBegins
    <3> QED BY <1>0, <2>2, <3>1, ReqSet
  <2> QED BY <1>3, <2>1, <2>2
<1> QED BY <1>0, <1>1, <1>4, Together

\* A candidate passed over is recorded as found barred,
LEMMA SkipStep ==
    ASSUME RouterInv, NEW c \in Callers, req[c].pc \in {"next", "backend"}, req[c].at <= Len(req[c].queue), Skip(c)
    PROVE  ReqsOK(req', Fits) /\ calls' = calls
<1>1. ReqOK(req[c], Fits) /\ ReqsOK(req, Fits)
  BY Opened
<1>2. req' = [req EXCEPT ![c] = [req[c] EXCEPT !.at = @ + 1, !.skipped = @ \cup {req[c].queue[req[c].at]}]] /\ calls' = calls
  BY DEF Skip, At
<1>3. ReqOK([req[c] EXCEPT !.at = @ + 1, !.skipped = @ \cup {req[c].queue[req[c].at]}], Fits)
  BY <1>1, SkipKeeps
<1> QED BY <1>1, <1>2, <1>3, ReqSet

\* one that is asked as asked.
LEMMA CallsStep ==
    ASSUME RouterInv, NEW c \in Callers, req[c].pc \in {"next", "backend"}, req[c].at <= Len(req[c].queue),
           NEW pc \in {"call", "backend call"}, Call(c, At(c), pc)
    PROVE  ReqsOK(req', Fits) /\ CallsOK(calls', Fits) /\ At(c) \in Fits
<1>1. ReqOK(req[c], Fits) /\ ReqsOK(req, Fits) /\ SharedInv /\ CallsOK(calls, Fits)
  BY Opened
<1>2. /\ req' = [req EXCEPT ![c] = [req[c] EXCEPT !.pc = pc, !.tried = @ \cup {req[c].queue[req[c].at]}]]
      /\ Launch(calls, c, "p", At(c))
  BY DEF Call, At
<1>3. ReqOK([req[c] EXCEPT !.pc = pc, !.tried = @ \cup {req[c].queue[req[c].at]}], Fits)
  BY <1>1, CallKeeps
<1>4. At(c) \in Fits /\ "p" \in Slots
  BY <1>1, TurnTyped DEF At, Slots
<1>5. CallsOK(calls', Fits)
  BY <1>1, <1>2, <1>4, LaunchKeeps
<1>6. ReqsOK(req', Fits)
  BY <1>1, <1>2, <1>3, ReqSet
<1> QED BY <1>4, <1>5, <1>6

\* One round of the sequential loop, or its end in the emergency candidate.
LEMMA NextCandidateKeeps ==
    ASSUME RouterInv, NEW c \in Callers, NextCandidate(c)
    PROVE  RouterInv'
<1>0. /\ penalty \in [Names -> Nat] /\ cooling \in [Names -> Nat] /\ SharedInv
      /\ CallsOK(calls, Fits) /\ ReqsOK(req, Fits) /\ ReqOK(req[c], Fits) /\ \A cand \in Fits : cand.name \in Names
  BY Opened
<1>1. UNCHANGED <<mode, penalty, cooling>> /\ req[c].pc \in {"next", "backend"}
  BY DEF NextCandidate
<1>2. CASE req[c].at <= Len(req[c].queue)
  <2>1. Skip(c) \/ Call(c, At(c), "call")
    BY <1>2 DEF NextCandidate
  <2>2. CASE Skip(c)
    BY <1>0, <1>1, <1>2, <2>2, SkipStep, Together
  <2>3. CASE Call(c, At(c), "call")
    BY <1>0, <1>1, <1>2, <2>3, CallsStep, Together
  <2> QED BY <2>1, <2>2, <2>3
<1>3. CASE ~(req[c].at <= Len(req[c].queue))
  <2> DEFINE rescue == selectEmergencyRecoveryCandidate(req[c].queue)
  <2>1. req[c].at > Len(req[c].queue) /\ req[c].queue \in Seq(Fits)
    BY <1>0, <1>3, TurnTyped
  <2>2. rescue = <<>> \/ rescue[1] \in Fits
    BY <1>0, <2>1, RescueTyped
  <2>3. (Ends(c, "failed") /\ UNCHANGED <<calls, clients>>) \/ (rescue # <<>> /\ Call(c, rescue[1], "emergency"))
    BY <1>3 DEF NextCandidate
  <2> HIDE DEF rescue
  <2>4. CASE Ends(c, "failed") /\ UNCHANGED <<calls, clients>>
    <3>1. ReqsOK(req', Fits) /\ calls' = calls
      BY <1>0, <1>1, <2>1, <2>4, AllAsked, EndsKeeps
    <3> QED BY <1>0, <1>1, <3>1, Together
  <2>5. CASE rescue # <<>> /\ Call(c, rescue[1], "emergency")
    <3>1. /\ req' = [req EXCEPT ![c] = [req[c] EXCEPT !.pc = "emergency", !.tried = @ \cup {rescue[1]}]]
          /\ Launch(calls, c, "p", rescue[1]) /\ "p" \in Slots
      BY <2>5 DEF Call, Slots
    <3>2. ReqOK([req[c] EXCEPT !.pc = "emergency", !.tried = @ \cup {rescue[1]}], Fits)
      BY <1>0, <1>1, <2>1, AllAsked
    <3>3. ReqsOK(req', Fits) /\ CallsOK(calls', Fits)
      BY <1>0, <2>2, <2>5, <3>1, <3>2, ReqSet, LaunchKeeps
    <3> QED BY <1>0, <1>1, <3>3, Together
  <2> QED BY <2>3, <2>4, <2>5
<1> QED BY <1>2, <1>3

\* One round of the loop of FailoverClient.
LEMMA NextBackendKeeps ==
    ASSUME RouterInv, NEW c \in Callers, NextBackend(c)
    PROVE  RouterInv'
<1>0. /\ penalty \in [Names -> Nat] /\ cooling \in [Names -> Nat] /\ SharedInv
      /\ CallsOK(calls, Fits) /\ ReqsOK(req, Fits) /\ ReqOK(req[c], Fits)
  BY Opened
<1>1. UNCHANGED <<mode, penalty, cooling>> /\ req[c].pc \in {"next", "backend"}
  BY DEF NextBackend
<1>2. CASE req[c].at > Len(req[c].queue)
  <2>1. Ends(c, "failed") /\ UNCHANGED <<calls, clients>>
    BY <1>2 DEF NextBackend
  <2>2. ReqsOK(req', Fits) /\ calls' = calls
    BY <1>0, <1>1, <1>2, <2>1, AllAsked, EndsKeeps
  <2> QED BY <1>0, <1>1, <2>2, Together
<1>3. CASE ~(req[c].at > Len(req[c].queue))
  <2>1. Skip(c) \/ Call(c, At(c), "backend call")
    BY <1>3 DEF NextBackend
  <2>2. req[c].at <= Len(req[c].queue)
    BY <1>0, <1>3, TurnTyped
  <2>3. CASE Skip(c)
    BY <1>0, <1>1, <2>2, <2>3, SkipStep, Together
  <2>4. CASE Call(c, At(c), "backend call")
    BY <1>0, <1>1, <2>2, <2>4, CallsStep, Together
  <2> QED BY <2>1, <2>3, <2>4
<1> QED BY <1>2, <1>3

\* The secondary of a hedge is launched, at the timer or when the primary fails early.
LEMMA LaunchSecondaryKeeps ==
    ASSUME RouterInv, NEW c \in Callers, NEW cs, CallsOK(cs, Fits), NEW q, ReqOK(q, Fits), q.pc = "hedge", LaunchSecondary(cs, c, q)
    PROVE  ReqsOK(req', Fits) /\ CallsOK(calls', Fits)
<1>0. SharedInv /\ ReqsOK(req, Fits) /\ "s" \in Slots
  BY Opened DEF Slots
<1>1. /\ req' = [req EXCEPT ![c] = [q EXCEPT !.launched = TRUE, !.tried = @ \cup {q.queue[2]}]]
      /\ Launch(cs, c, "s", q.queue[2])
  BY DEF LaunchSecondary
<1>2. ReqOK([q EXCEPT !.launched = TRUE, !.tried = @ \cup {q.queue[2]}], Fits) /\ q.queue[2] \in Fits
  BY HedgeLaunches
<1>3. CallsOK(calls', Fits)
  BY <1>0, <1>1, <1>2, LaunchKeeps
<1> QED BY <1>0, <1>1, <1>2, <1>3, ReqSet

\* The hedge timer fires.
LEMMA HedgeTimerKeeps ==
    ASSUME RouterInv, NEW c \in Callers, HedgeTimer(c)
    PROVE  RouterInv'
<1>0. penalty \in [Names -> Nat] /\ cooling \in [Names -> Nat] /\ CallsOK(calls, Fits) /\ ReqOK(req[c], Fits)
  BY Opened
<1>1. UNCHANGED <<mode, penalty, cooling>> /\ req[c].pc = "hedge" /\ LaunchSecondary(calls, c, req[c])
  BY DEF HedgeTimer
<1>2. ReqsOK(req', Fits) /\ CallsOK(calls', Fits)
  BY <1>0, <1>1, LaunchSecondaryKeeps
<1> QED BY <1>0, <1>1, <1>2, Together

\* The context of a request is cancelled: it ends at once or with its next look at it.
LEMMA CancelKeeps ==
    ASSUME RouterInv, NEW c \in Callers, Cancel(c)
    PROVE  RouterInv'
<1>0. /\ penalty \in [Names -> Nat] /\ cooling \in [Names -> Nat] /\ CallsOK(calls, Fits) /\ ReqsOK(req, Fits)
      /\ ReqOK(req[c], Fits)
  BY Opened
<1>1. UNCHANGED <<mode, penalty, cooling>>
  BY DEF Cancel
<1>2. CASE req[c].pc = "hedge"
  <2>1. Ends(c, "canceled") /\ calls' = Idle(c)
    BY <1>2 DEF Cancel
  <2>2. CallsOK(calls', Fits)
    BY <1>0, <2>1, SlotsCleared DEF Slots
  <2>3. ReqsOK(req', Fits)
    BY <1>0, <2>1, EndsKeeps
  <2> QED BY <1>0, <1>1, <2>2, <2>3, Together
<1>3. CASE req[c].pc # "hedge"
  <2>1. req' = [req EXCEPT ![c] = [req[c] EXCEPT !.dead = TRUE]] /\ calls' = calls
    BY <1>3 DEF Cancel
  <2>2. ReqsOK(req', Fits)
    BY <1>0, <2>1, DeadKeeps, ReqSet
  <2> QED BY <1>0, <1>1, <2>1, <2>2, Together
<1> QED BY <1>2, <1>3

\* Time passes: evictions and cooldowns run out.
LEMMA TickKeeps ==
    ASSUME RouterInv, Tick
    PROVE  RouterInv'
<1>0. penalty \in [Names -> Nat] /\ cooling \in [Names -> Nat] /\ CallsOK(calls, Fits) /\ ReqsOK(req, Fits)
  BY Opened
<1>1. UNCHANGED <<mode, penalty, req, calls>> /\ cooling' = [n \in Names |-> Max({cooling[n] - 1, 0})]
  BY DEF Tick
<1>2. \A n \in Names : Max({cooling[n] - 1, 0}) \in Nat
  <2> SUFFICES ASSUME NEW n \in Names PROVE Max({cooling[n] - 1, 0}) \in Nat
    OBVIOUS
  <2>1. cooling[n] \in Nat
    BY <1>0
  <2> QED BY <2>1, MaxPair
<1>3. cooling' \in [Names -> Nat]
  BY <1>1, <1>2
<1> QED BY <1>0, <1>1, <1>3, Together

-----------------------------------------------------------------------------
(* Actions: results. *)

\* What is in flight is a completion of a candidate, whose result is a result.
LEMMA FlightTyped ==
    ASSUME CallsOK(calls, Fits), NEW c \in Callers, NEW s \in Slots, calls[c][s] # <<>>
    PROVE  /\ calls[c][s][1].cand \in Fits /\ IsResult(calls[c][s][1].x.result)
           /\ IsEnsemble(calls[c][s][1].cand) => Kept(calls[c][s][1].x)
<1>1. PICK cand, x : calls[c][s] = <<[cand |-> cand, x |-> x]>> /\ FlightOf(cand, x, Fits)
  BY DEF CallsOK, InSlot
<1>2. calls[c][s][1].cand = cand /\ calls[c][s][1].x = x
  BY <1>1
<1>3. cand \in Fits /\ IsResult(x.result)
  BY <1>1 DEF FlightOf, EnsInv, EnsType, LadInv
<1>4. IsEnsemble(cand) => Kept(x)
  BY <1>1, InvKept DEF FlightOf
<1> QED BY <1>2, <1>3, <1>4

\* Recording an outcome keeps penalties and cooldowns numbers.
LEMMA OutcomeTyped ==
    ASSUME penalty \in [Names -> Nat], cooling \in [Names -> Nat], NEW name \in Names, NEW r, IsResult(r),
           recordCandidateOutcome(name, r)
    PROVE  penalty' \in [Names -> Nat] /\ cooling' \in [Names -> Nat]
<1>1. ASSUME NEW p \in Nat, NEW d PROVE RecordOutcome(p, r, d) \in Nat
  <2>1. Min({p + 1, 3}) \in Nat /\ Max({p, 1}) \in Nat /\ Max({p - 1, 0}) \in Nat
    BY <1>1, MinPair, MaxPair
  <2> QED BY <1>1, <2>1, Zenon DEF RecordOutcome
<1>2. PICK d \in mode.durations : penalty' = [penalty EXCEPT ![name] = RecordOutcome(@, r, d)]
  BY DEF recordCandidateOutcome
<1>3. penalty' \in [Names -> Nat]
  <2> DEFINE p == RecordOutcome(penalty[name], r, d)
  <2>1. p \in Nat
    BY <1>1
  <2>2. penalty' = [penalty EXCEPT ![name] = p]
    BY <1>2
  <2> HIDE DEF p
  <2> QED BY <2>1, <2>2
<1>4. ASSUME ~r.ok PROVE handleRateLimitRotation(r) \in Nat
  <2>1. r.after \in Nat
    BY <1>4 DEF IsResult, IsError
  <2> QED BY <2>1, ConfigAssumption DEF handleRateLimitRotation, parseRetryDelay
<1>5. \/ cooling' = cooling
      \/ ~r.ok /\ cooling' = [cooling EXCEPT ![name] = handleRateLimitRotation(r)]
      \/ cooling' = [cooling EXCEPT ![name] = CooldownTicks]
  BY DEF recordCandidateOutcome, Bar
<1>6. CooldownTicks \in Nat
  BY ConfigAssumption
<1>7. cooling' \in [Names -> Nat]
  BY <1>4, <1>5, <1>6
<1> QED BY <1>3, <1>7

\* The hedge takes the first answer, and waits for the other one after a failure.
LEMMA HedgeCollectKeeps ==
    ASSUME RouterInv, NEW c \in Callers, NEW s \in Slots, NEW cand \in Fits, NEW r, IsResult(r), req[c].pc = "hedge",
           HedgeCollect(c, s, cand, r), UNCHANGED mode
    PROVE  RouterInv'
<1>0. /\ penalty \in [Names -> Nat] /\ cooling \in [Names -> Nat] /\ CallsOK(calls, Fits) /\ ReqsOK(req, Fits)
      /\ ReqOK(req[c], Fits) /\ cand.name \in Names
  BY Opened
<1> DEFINE q == [req[c] EXCEPT !.failures = @ + 1]
<1>1. ReqOK(q, Fits) /\ q.pc = "hedge" /\ q.launched = req[c].launched /\ q.queue = req[c].queue
  BY <1>0, HedgeFails
<1>2. recordCandidateOutcome(cand.name, r)
  BY DEF HedgeCollect
<1>3. penalty' \in [Names -> Nat] /\ cooling' \in [Names -> Nat]
  BY <1>0, <1>2, OutcomeTyped
<1>4. \/ Ends(c, "ok") /\ calls' = Idle(c)
      \/ LaunchSecondary(Cleared(c, s), c, q)
      \/ /\ q.launched /\ calls' = Cleared(c, s)
         /\ \/ req' = [req EXCEPT ![c] = q]
            \/ Len(q.queue) > 2 /\ req' = [req EXCEPT ![c] = [q EXCEPT !.pc = "next", !.queue = AfterHedge(@)]]
            \/ ~(q.failures < 2) /\ ~(q.failures >= 2 /\ Len(q.queue) > 2) /\ Ends(c, "failed")
  BY DEF HedgeCollect, PrimaryFailed
<1>5. q.failures \in Nat /\ q.queue \in Seq(Fits)
  BY <1>1 DEF ReqOK
<1>6. q.cands = req[c].cands /\ Asked(q) = Asked(req[c])
  BY <1>0 DEF ReqOK, ReqFields, Asked
<1> HIDE DEF q
<1>7. CallsOK(Idle(c), Fits) /\ CallsOK(Cleared(c, s), Fits)
  BY <1>0, SlotsCleared
<1>8. CASE Ends(c, "ok") /\ calls' = Idle(c)
  <2>1. ReqsOK(req', Fits) /\ CallsOK(calls', Fits)
    BY <1>0, <1>7, <1>8, EndsKeeps
  <2> QED BY <1>3, <2>1, Together
<1>9. CASE LaunchSecondary(Cleared(c, s), c, q)
  BY <1>1, <1>3, <1>7, <1>9, LaunchSecondaryKeeps, Together
<1>10. CASE q.launched /\ calls' = Cleared(c, s) /\ req' = [req EXCEPT ![c] = q]
  <2>1. ReqsOK(req', Fits) /\ CallsOK(calls', Fits)
    BY <1>0, <1>1, <1>7, <1>10, ReqSet
  <2> QED BY <1>3, <2>1, Together
<1>11. CASE /\ q.launched /\ calls' = Cleared(c, s) /\ Len(q.queue) > 2
            /\ req' = [req EXCEPT ![c] = [q EXCEPT !.pc = "next", !.queue = AfterHedge(@)]]
  <2>1. ReqOK([q EXCEPT !.pc = "next", !.queue = AfterHedge(@)], Fits)
    BY <1>1, <1>11, HedgeLost
  <2>2. ReqsOK(req', Fits) /\ CallsOK(calls', Fits)
    BY <1>0, <1>7, <1>11, <2>1, ReqSet
  <2> QED BY <1>3, <2>2, Together
<1>12. CASE /\ q.launched /\ calls' = Cleared(c, s)
            /\ ~(q.failures < 2) /\ ~(q.failures >= 2 /\ Len(q.queue) > 2) /\ Ends(c, "failed")
  <2>1. Len(q.queue) <= 2
    BY <1>5, <1>12
  <2>2. Range(req[c].cands) \subseteq Asked(req[c])
    BY <1>1, <1>6, <1>12, <2>1, HedgeLost
  <2>3. ReqsOK(req', Fits) /\ CallsOK(calls', Fits)
    BY <1>0, <1>7, <1>12, <2>2, EndsKeeps
  <2> QED BY <1>3, <2>3, Together
<1> QED BY <1>4, <1>8, <1>9, <1>10, <1>11, <1>12

\* After a failure the next candidate has his turn.
LEMMA NextTurnStep ==
    ASSUME RouterInv, NEW c \in Callers, NEW pc \in {"next", "backend"}, req[c].pc = IF pc = "next" THEN "call" ELSE "backend call",
           req' = [req EXCEPT ![c] = [req[c] EXCEPT !.pc = pc, !.at = @ + 1, !.errored = TRUE]]
    PROVE  ReqsOK(req', Fits)
<1>1. ReqOK(req[c], Fits) /\ ReqsOK(req, Fits)
  BY Opened
<1>2. ReqOK([req[c] EXCEPT !.pc = pc, !.at = @ + 1, !.errored = TRUE], Fits)
  BY <1>1, NextTurn
<1> QED BY <1>1, <1>2, ReqSet

\* The loop returns an answer, gives up on a dead context or goes on.
LEMMA SequentialCollectKeeps ==
    ASSUME RouterInv, NEW c \in Callers, NEW cand \in Fits, NEW r, IsResult(r), req[c].pc = "call",
           SequentialCollect(c, cand, r), UNCHANGED mode
    PROVE  RouterInv'
<1>0. /\ penalty \in [Names -> Nat] /\ cooling \in [Names -> Nat] /\ CallsOK(calls, Fits) /\ ReqsOK(req, Fits)
      /\ cand.name \in Names
  BY Opened
<1>1. recordCandidateOutcome(cand.name, r) /\ calls' = Idle(c)
  BY DEF SequentialCollect
<1>2. penalty' \in [Names -> Nat] /\ cooling' \in [Names -> Nat]
  BY <1>0, <1>1, OutcomeTyped
<1>3. CallsOK(calls', Fits)
  BY <1>0, <1>1, SlotsCleared DEF Slots
<1>4. Ends(c, "ok") \/ req' = [req EXCEPT ![c] = [req[c] EXCEPT !.pc = "next", !.at = @ + 1, !.errored = TRUE]]
  BY DEF SequentialCollect
<1>5. ReqsOK(req', Fits)
  <2>1. CASE Ends(c, "ok")
    BY <1>0, <2>1, EndsKeeps
  <2>2. CASE req' = [req EXCEPT ![c] = [req[c] EXCEPT !.pc = "next", !.at = @ + 1, !.errored = TRUE]]
    BY <2>2, NextTurnStep
  <2> QED BY <1>4, <2>1, <2>2
<1> QED BY <1>2, <1>3, <1>5, Together

\* The emergency candidate answers or fails, when all others were asked or barred.
LEMMA EmergencyCollectKeeps ==
    ASSUME RouterInv, NEW c \in Callers, NEW cand \in Fits, NEW r, req[c].pc = "emergency",
           EmergencyCollect(c, cand, r), UNCHANGED mode
    PROVE  RouterInv'
<1>0. /\ penalty \in [Names -> Nat] /\ cooling \in [Names -> Nat] /\ CallsOK(calls, Fits) /\ ReqsOK(req, Fits)
      /\ cand.name \in Names /\ ReqOK(req[c], Fits)
  BY Opened
<1>1. /\ calls' = Idle(c) /\ penalty' = penalty /\ (cooling' = cooling \/ cooling' = [cooling EXCEPT ![cand.name] = 0])
      /\ Ends(c, "ok") \/ Ends(c, "failed")
  BY DEF EmergencyCollect
<1>2. Range(req[c].cands) \subseteq Asked(req[c])
  BY <1>0 DEF ReqOK, Covered
<1>3. CallsOK(calls', Fits)
  BY <1>0, <1>1, SlotsCleared DEF Slots
<1>4. ReqsOK(req', Fits)
  BY <1>0, <1>1, <1>2, EndsKeeps
<1>5. penalty' \in [Names -> Nat] /\ cooling' \in [Names -> Nat]
  BY <1>0, <1>1
<1> QED BY <1>3, <1>4, <1>5, Together

\* FailoverClient returns an answer or goes on to its next backend.
LEMMA FailoverCollectKeeps ==
    ASSUME RouterInv, NEW c \in Callers, NEW cand \in Fits, NEW r, req[c].pc = "backend call",
           FailoverCollect(c, cand, r), UNCHANGED mode
    PROVE  RouterInv'
<1>0. /\ penalty \in [Names -> Nat] /\ cooling \in [Names -> Nat] /\ CallsOK(calls, Fits) /\ ReqsOK(req, Fits)
      /\ cand.name \in Names /\ CooldownTicks \in Nat
  BY Opened, ConfigAssumption
<1>1. /\ calls' = Idle(c) /\ penalty' = penalty /\ (cooling' = cooling \/ cooling' = [cooling EXCEPT ![cand.name] = CooldownTicks])
      /\ \/ Ends(c, "ok") \/ Ends(c, "lost")
         \/ req' = [req EXCEPT ![c] = [req[c] EXCEPT !.pc = "backend", !.at = @ + 1, !.errored = TRUE]]
  BY DEF FailoverCollect
<1>2. CallsOK(calls', Fits)
  BY <1>0, <1>1, SlotsCleared DEF Slots
<1>3. penalty' \in [Names -> Nat] /\ cooling' \in [Names -> Nat]
  BY <1>0, <1>1
<1>4. ReqsOK(req', Fits)
  <2>1. CASE Ends(c, "ok") \/ Ends(c, "lost")
    BY <1>0, <2>1, EndsKeeps
  <2>2. CASE req' = [req EXCEPT ![c] = [req[c] EXCEPT !.pc = "backend", !.at = @ + 1, !.errored = TRUE]]
    BY <2>2, NextTurnStep
  <2> QED BY <1>1, <2>1, <2>2
<1> QED BY <1>2, <1>3, <1>4, Together

\* The result of a completion reaches the request that waits for it.
LEMMA CollectKeeps ==
    ASSUME RouterInv, NEW c \in Callers, NEW s \in Slots, Collect(c, s)
    PROVE  RouterInv'
<1> DEFINE cand == calls[c][s][1].cand
           r == calls[c][s][1].x.result
<1>1. CallsOK(calls, Fits) /\ calls[c][s] # <<>> /\ UNCHANGED mode
  BY DEF Collect, RouterInv
<1>2. cand \in Fits /\ IsResult(r)
  BY <1>1, FlightTyped
<1>3. \/ req[c].pc = "hedge" /\ HedgeCollect(c, s, cand, r)
      \/ req[c].pc = "call" /\ SequentialCollect(c, cand, r)
      \/ req[c].pc = "emergency" /\ EmergencyCollect(c, cand, r)
      \/ req[c].pc = "backend call" /\ FailoverCollect(c, cand, r)
  BY DEF Collect
<1> HIDE DEF cand, r
<1> QED BY <1>1, <1>2, <1>3, HedgeCollectKeeps, SequentialCollectKeeps, EmergencyCollectKeeps, FailoverCollectKeeps

\* Nobody has asked yet.
LEMMA RouterInvInit == Init => RouterInv
<1> SUFFICES ASSUME Init PROVE RouterInv
  OBVIOUS
<1>1. SharedInv
  BY DEF Init, SharedInv
<1>2. CallsOK(calls, Fits)
  BY DEF Init, CallsOK, InSlot
<1>3. ReqsOK(req, Fits)
  <2>1. req = [c \in Callers |-> [NoReq EXCEPT !.left = IF c \in mode.callers THEN mode.rounds ELSE 0]]
    BY DEF Init
  <2>2. mode.rounds \in Nat
    BY ConfigAssumption DEF Init, WellFormed
  <2>3. ASSUME NEW n \in Int PROVE ReqOK([NoReq EXCEPT !.left = n], Fits)
    <3> DEFINE y == [NoReq EXCEPT !.left = n]
    <3>1. /\ DOMAIN y = ReqFields /\ y.pc = "idle" /\ y.left = n /\ y.at = 1 /\ y.failures = 0
          /\ y.cands = <<>> /\ y.queue = <<>> /\ y.outcome = "none"
      BY DEF NoReq, ReqFields
    <3> HIDE DEF y
    <3>2. Covered(y)
      BY <3>1 DEF Covered
    <3>3. ReqOK(y, Fits)
      BY <2>3, <3>1, <3>2 DEF ReqOK
    <3> QED BY <3>3 DEF y
  <2>4. ASSUME NEW c \in Callers PROVE ReqOK(req[c], Fits)
    <3>1. (IF c \in mode.callers THEN mode.rounds ELSE 0) \in Int
      BY <2>2
    <3>2. req[c] = [NoReq EXCEPT !.left = IF c \in mode.callers THEN mode.rounds ELSE 0]
      BY <2>1
    <3> QED BY <2>3, <3>1, <3>2
  <2> QED BY <2>1, <2>4 DEF ReqsOK
<1> QED BY <1>1, <1>2, <1>3 DEF RouterInv

\* The invariant is inductive.
LEMMA RouterInvNext == RouterInv /\ [Next]_vars => RouterInv'
<1> SUFFICES ASSUME RouterInv, [Next]_vars PROVE RouterInv'
  OBVIOUS
<1>1. CASE UNCHANGED vars
  BY <1>1, Opened, Together DEF vars
<1>2. ASSUME NEW c \in Callers, NEW s \in Slots, CallStep(c, s) PROVE RouterInv'
  <2>1. UNCHANGED <<mode, penalty, cooling, req>>
    BY <1>2 DEF CallStep
  <2> QED BY <1>2, <2>1, CallStepKeeps, Opened, Together
<1>3. CASE Tick
  BY <1>3, TickKeeps
<1>4. ASSUME NEW c \in Callers,
             Complete(c) \/ FailoverComplete(c) \/ NextCandidate(c) \/ NextBackend(c) \/ HedgeTimer(c) \/ Cancel(c)
      PROVE  RouterInv'
  BY <1>4, CompleteKeeps, FailoverCompleteKeeps, NextCandidateKeeps, NextBackendKeeps, HedgeTimerKeeps, CancelKeeps
<1> QED BY <1>1, <1>2, <1>3, <1>4, CollectKeeps DEF Next

\* The invariant holds in every state the router can reach.
LEMMA RouterInvariant == Spec => []RouterInv
<1> QED BY RouterInvInit, RouterInvNext, PTL DEF Spec

\* A request that ends in failure has asked every candidate of its list, or found it evicted,
\* cooling down or over its budget when its turn came, for every configuration of roles,
\* clients and ensembles and every interleaving of the callers: the hedged pair, the
\* sequential loop after it and FailoverClient leave no gap between each other.
THEOREM NobodyIsOverlooked == Spec => []NobodyOverlooked
<1>1. RouterInv => NobodyOverlooked
  BY DEF RouterInv, ReqsOK, ReqOK, Covered, Asked, NobodyOverlooked
<1> QED BY <1>1, RouterInvariant, PTL

\* An ensemble that ends in an error has no answer of a member that is valid code, whatever
\* its strategy, the order of the answers, its timers and the failures of its synthesizer or
\* tie-breaker: no usable answer is thrown away.  (A serial ensemble without
\* fallbackOnStageFailure is told to give up at the first failing stage, and is excepted.)
THEOREM AnswersKept == Spec => []AnswerKept
<1>1. RouterInv => AnswerKept
  <2> SUFFICES ASSUME RouterInv, NEW c \in Callers, NEW s \in Slots, calls[c][s] # <<>>, IsEnsemble(calls[c][s][1].cand)
               PROVE  Kept(calls[c][s][1].x)
    BY DEF AnswerKept, InFlight
  <2> QED BY FlightTyped DEF RouterInv
<1> QED BY <1>1, RouterInvariant, PTL

-----------------------------------------------------------------------------
(* The budget: room under a limit. *)

\* Multiplication is monotone.
LEMMA Product ==
    ASSUME NEW m \in Nat, NEW w \in Nat, NEW v \in Nat, w <= v
    PROVE  m * w \in Nat /\ m * v \in Nat /\ m * w <= m * v /\ (m + 1) * v = m * v + v
<1>1. PICK d \in Nat : v = w + d
  <2>1. v - w \in Nat /\ v = w + (v - w)
    OBVIOUS
  <2> QED BY <2>1
<1>2. m * v = m * w + m * d /\ m * d \in Nat /\ m * w \in Nat /\ m * v \in Nat
  BY <1>1
<1>3. (m + 1) * v = m * v + v
  OBVIOUS
<1> QED BY <1>2, <1>3

\* Of the members C of a group those in B have yet to pay, each at most w more.
Room(total, base, C, B, w) == total <= base + (Cardinality(C) - Cardinality(B)) * w

\* The cardinality of a subset, and of one with an element less.
LEMMA Counts ==
    ASSUME NEW C, IsFiniteSet(C), NEW B \in SUBSET C
    PROVE  /\ IsFiniteSet(B) /\ Cardinality(B) \in Nat /\ Cardinality(C) \in Nat /\ Cardinality(B) <= Cardinality(C)
           /\ Cardinality(C) - Cardinality(B) \in Nat
           /\ \A c \in B : /\ Cardinality(B \ {c}) = Cardinality(B) - 1
                           /\ Cardinality(C) - Cardinality(B \ {c}) = (Cardinality(C) - Cardinality(B)) + 1
<1>1. IsFiniteSet(B) /\ Cardinality(B) <= Cardinality(C)
  BY FS_Subset
<1>2. Cardinality(B) \in Nat /\ Cardinality(C) \in Nat
  BY <1>1, FS_CardinalityType
<1>3. \A c \in B : Cardinality(B \ {c}) = Cardinality(B) - 1
  BY <1>1, FS_RemoveElement
<1>4. Cardinality(C) - Cardinality(B) \in Nat
  BY <1>1, <1>2
<1>5. \A c \in B : Cardinality(C) - Cardinality(B \ {c}) = (Cardinality(C) - Cardinality(B)) + 1
  BY <1>2, <1>3
<1> QED BY <1>1, <1>2, <1>3, <1>4, <1>5

\* Before anyone has paid there is room.
LEMMA RoomAtStart ==
    ASSUME NEW C, IsFiniteSet(C), NEW B \in SUBSET C, NEW total \in Nat, NEW w \in Nat, NEW base \in Int, total <= base
    PROVE  Room(total, base, C, B, w)
<1> DEFINE m == Cardinality(C) - Cardinality(B)
<1>1. m \in Nat
  BY Counts
<1> HIDE DEF m
<1>2. m * w \in Nat
  BY <1>1, Product
<1>3. total <= base + m * w
  BY <1>2
<1> QED BY <1>3 DEF Room, m

\* There still is when members stop without paying or the price goes up,
LEMMA RoomKept ==
    ASSUME NEW C, IsFiniteSet(C), NEW B \in SUBSET C, NEW D \in SUBSET B, NEW total \in Nat, NEW w \in Nat, NEW v \in Nat, w <= v,
           NEW base \in Int, Room(total, base, C, B, w)
    PROVE  Room(total, base, C, D, v)
<1> DEFINE m == Cardinality(C) - Cardinality(B)
           n == Cardinality(C) - Cardinality(D)
<1>1. m \in Nat /\ n \in Nat
  BY Counts
<1>2. m <= n
  <2>1. IsFiniteSet(B) /\ Cardinality(B) \in Nat /\ Cardinality(C) \in Nat
    BY Counts
  <2>2. Cardinality(D) \in Nat /\ Cardinality(D) <= Cardinality(B)
    BY <2>1, Counts
  <2> QED BY <2>1, <2>2
<1>3. total <= base + m * w
  BY DEF Room
<1> HIDE DEF m, n
<1>4. m * w <= m * v /\ m * w \in Nat /\ m * v \in Nat
  BY <1>1, Product
<1>5. v * m <= v * n /\ m * v = v * m /\ n * v = v * n /\ v * n \in Nat
  BY <1>1, <1>2, Product
<1>6. total <= base + n * v
  BY <1>3, <1>4, <1>5
<1> QED BY <1>6 DEF Room, n

\* and when one of those who have yet to pay pays no more than the price.
LEMMA RoomPaid ==
    ASSUME NEW C, IsFiniteSet(C), NEW B \in SUBSET C, NEW c \in B, NEW total \in Nat, NEW w \in Nat, NEW v \in Nat, w <= v,
           NEW base \in Int, Room(total, base, C, B, w), NEW paid \in Nat, paid <= total + v
    PROVE  Room(paid, base, C, B \ {c}, v)
<1> DEFINE m == Cardinality(C) - Cardinality(B)
<1>1. m \in Nat /\ Cardinality(C) - Cardinality(B \ {c}) = m + 1
  BY Counts
<1>2. total <= base + m * w
  BY DEF Room
<1> HIDE DEF m
<1>3. m * w \in Nat /\ m * v \in Nat /\ m * w <= m * v /\ (m + 1) * v = m * v + v
  BY <1>1, Product
<1>4. paid <= base + (m + 1) * v
  BY <1>2, <1>3
<1> QED BY <1>1, <1>4 DEF Room

-----------------------------------------------------------------------------
(* The budget: what is recorded. *)

\* The store of the tokens used.
UsageOK(u) ==
    /\ DOMAIN u = {"total", "named", "models", "longest"}
    /\ u.total \in Nat /\ u.longest \in Nat
    /\ DOMAIN u.models = Models /\ \A k \in Models : u.models[k] \in Nat

\* An answer is no longer than the longest one, itself included.
LEMMA TokensTyped ==
    ASSUME UsageOK(usage), NEW r, IsResult(r), r.ok
    PROVE  /\ estimateCompletionTokens(r) \in Nat /\ Longest(r) \in Nat
           /\ estimateCompletionTokens(r) <= Longest(r) /\ usage.longest <= Longest(r)
<1>1. Len(r.acts) \in Nat
  <2>1. r.acts \in Seq(Actions)
    BY DEF IsResult
  <2> HIDE DEF Actions
  <2> QED BY <2>1
<1> DEFINE t == estimateCompletionTokens(r)
<1>2. t \in Nat
  BY <1>1, MaxPair DEF estimateCompletionTokens
<1>3. usage.longest \in Nat
  BY DEF UsageOK
<1> HIDE DEF t
<1>4. Max({usage.longest, t}) = IF usage.longest >= t THEN usage.longest ELSE t
  BY <1>2, <1>3, MaxPair
<1>5. Longest(r) = Max({usage.longest, t})
  BY DEF Longest, t
<1>6. Longest(r) \in Nat /\ t <= Longest(r) /\ usage.longest <= Longest(r)
  BY <1>2, <1>3, <1>4, <1>5
<1> QED BY <1>2, <1>6 DEF t

\* incrementUsage adds the tokens to the total.
LEMMA IncrementTyped ==
    ASSUME NEW u, UsageOK(u), NEW name, NEW t \in Nat
    PROVE  LET v == incrementUsage(u, name, t)
           IN  UsageOK(v) /\ v.total = u.total + t /\ v.longest = u.longest /\ v.models = u.models
<1> DEFINE v == incrementUsage(u, name, t)
<1>1. /\ DOMAIN v = {"total", "named", "models", "longest"} /\ v.longest = u.longest /\ v.models = u.models
      /\ v.total = u.total + t
  BY DEF UsageOK, incrementUsage
<1> HIDE DEF v
<1>2. u.total \in Nat
  BY DEF UsageOK
<1>3. v.total \in Nat
  BY <1>1, <1>2
<1>4. UsageOK(v)
  BY <1>1, <1>3 DEF UsageOK
<1> QED BY <1>1, <1>4 DEF v

\* A request of the router adds two prompts and one answer at most.
LEMMA Recorded ==
    ASSUME UsageOK(usage), mode.prompt \in Nat, NEW r, IsResult(r), r.ok, NEW cand, NEW others, recordTokenUsage(r, cand, others)
    PROVE  /\ UsageOK(usage') /\ usage.longest <= usage'.longest
           /\ usage'.total <= usage.total + (2 * mode.prompt + usage'.longest)
<1> DEFINE t == estimateCompletionTokens(r)
           L == Longest(r)
           u == [usage EXCEPT !.longest = L]
           cost == mode.prompt + t
           own == incrementUsage(u, cand.name, cost)
<1>1. t \in Nat /\ L \in Nat /\ t <= L /\ usage.longest <= L
  BY TokensTyped
<1>2. usage' = IF others = <<>> THEN own ELSE incrementUsage(own, others[1].name, mode.prompt)
  BY DEF recordTokenUsage, estimateUsageTokens
<1>3. usage.total \in Nat
  BY DEF UsageOK
<1> HIDE DEF t, L
<1>4. DOMAIN u = {"total", "named", "models", "longest"} /\ u.longest = L /\ u.models = usage.models /\ u.total = usage.total
  BY DEF UsageOK
<1> HIDE DEF u
<1>5. UsageOK(u)
  BY <1>1, <1>4 DEF UsageOK
<1>6. cost \in Nat /\ cost = mode.prompt + t
  BY <1>1
<1> HIDE DEF cost
<1>7. UsageOK(own) /\ own.total = u.total + cost /\ own.longest = u.longest
  BY <1>5, <1>6, IncrementTyped
<1> HIDE DEF own
<1>8. CASE others = <<>>
  <2>1. usage' = own
    BY <1>2, <1>8
  <2>2. own.total = usage.total + (mode.prompt + t) /\ own.longest = L
    BY <1>4, <1>6, <1>7
  <2>3. own.total <= usage.total + (2 * mode.prompt + own.longest)
    BY <1>1, <1>3, <2>2
  <2> QED BY <1>1, <1>7, <2>1, <2>2, <2>3
<1>9. CASE others # <<>>
  <2> DEFINE v == incrementUsage(own, others[1].name, mode.prompt)
  <2>1. usage' = v
    BY <1>2, <1>9
  <2>2. UsageOK(v) /\ v.total = own.total + mode.prompt /\ v.longest = own.longest
    BY <1>7, IncrementTyped
  <2> HIDE DEF v
  <2>3. v.total = (usage.total + (mode.prompt + t)) + mode.prompt /\ v.longest = L
    BY <1>4, <1>6, <1>7, <2>2
  <2>4. v.total <= usage.total + (2 * mode.prompt + v.longest)
    BY <1>1, <1>3, <2>3
  <2> QED BY <1>1, <2>1, <2>2, <2>3, <2>4
<1> QED BY <1>8, <1>9

\* What FailoverClient records of an answer.
LEMMA BackendRecorded ==
    ASSUME UsageOK(usage), mode.prompt \in Nat, NEW r, IsResult(r), r.ok, NEW cand,
           usage' = [usage EXCEPT !.models[cand.model] = @ + estimateUsageTokens(r), !.longest = Longest(r)]
    PROVE  /\ UsageOK(usage') /\ usage.longest <= usage'.longest /\ usage'.total = usage.total
           /\ \A k \in Models :
                 /\ k # cand.model => usage'.models[k] = usage.models[k]
                 /\ k = cand.model => usage'.models[k] <= usage.models[k] + (mode.prompt + usage'.longest)
<1> DEFINE t == estimateCompletionTokens(r)
           L == Longest(r)
           cost == mode.prompt + t
<1>1. t \in Nat /\ L \in Nat /\ t <= L /\ usage.longest <= L
  BY TokensTyped
<1>2. usage' = [usage EXCEPT !.models[cand.model] = usage.models[cand.model] + cost, !.longest = L]
  BY DEF estimateUsageTokens
<1> HIDE DEF t, L
<1>3. cost \in Nat /\ cost = mode.prompt + t
  BY <1>1
<1> HIDE DEF cost
<1>4. /\ DOMAIN usage' = {"total", "named", "models", "longest"} /\ usage'.longest = L /\ usage'.total = usage.total
      /\ usage'.models = [usage.models EXCEPT ![cand.model] = usage.models[cand.model] + cost]
  BY <1>2 DEF UsageOK
<1>5. /\ DOMAIN usage'.models = Models
      /\ \A k \in Models : usage'.models[k] = IF k = cand.model THEN usage.models[k] + cost ELSE usage.models[k]
  BY <1>4 DEF UsageOK
<1>6. \A k \in Models : usage.models[k] \in Nat
  BY DEF UsageOK
<1>7. \A k \in Models : usage'.models[k] \in Nat
  BY <1>3, <1>5, <1>6
<1>8. UsageOK(usage')
  BY <1>1, <1>4, <1>5, <1>7 DEF UsageOK
<1>9. \A k \in Models : usage.models[k] + cost <= usage.models[k] + (mode.prompt + L)
  BY <1>1, <1>3, <1>6
<1> QED BY <1>1, <1>4, <1>5, <1>8, <1>9

-----------------------------------------------------------------------------
(* The budget: the total, step by step. *)

\* A limit is set and the store can be read.
IsMetered == mode.limit > 0 /\ mode.reads = {TRUE}

\* One caller's step, as far as the total is concerned.
Moved(c) ==
    /\ \A d \in Callers \ {c} : req'[d] = req[d]
    /\ UsageOK(usage') /\ usage.longest <= usage'.longest
    /\ \/ /\ req[c].pc = "idle" /\ req[c].left > 0 /\ usage' = usage
          /\ IsMetered /\ mode.kind = "router" /\ req'[c].pc # "idle" => usage.total < mode.limit
       \/ req[c].pc # "idle" /\ req'[c].pc # "idle" /\ usage'.total = usage.total
       \/ /\ req[c].pc # "idle" /\ req'[c].pc = "idle"
          /\ usage'.total <= usage.total + (2 * mode.prompt + usage'.longest)

\* A step of one caller changes his request only.
LEMMA OnlyOne ==
    ASSUME NEW F, ReqsOK(req, F), NEW c \in Callers, NEW y, req' = [req EXCEPT ![c] = y]
    PROVE  req'[c] = y /\ \A d \in Callers \ {c} : req'[d] = req[d]
BY DEF ReqsOK

\* A request that ends leaves its caller idle.
LEMMA EndsIdle ==
    ASSUME NEW F, ReqsOK(req, F), NEW c \in Callers, NEW o, Ends(c, o)
    PROVE  req'[c].pc = "idle" /\ \A d \in Callers \ {c} : req'[d] = req[d]
<1> DEFINE y == [req[c] EXCEPT !.pc = "idle", !.left = @ - 1, !.outcome = o]
<1>1. req' = [req EXCEPT ![c] = y]
  BY DEF Ends
<1>2. DOMAIN req[c] = ReqFields
  BY DEF ReqsOK, ReqOK
<1>3. y.pc = "idle"
  BY <1>2 DEF ReqFields
<1> HIDE DEF y
<1> QED BY <1>1, <1>3, OnlyOne

\* A request that goes on or ends without an answer costs nothing.
LEMMA MovedFree ==
    ASSUME UsageOK(usage), mode.prompt \in Nat, NEW c \in Callers, \A d \in Callers \ {c} : req'[d] = req[d],
           req[c].pc # "idle", usage' = usage
    PROVE  Moved(c)
<1>1. usage.total \in Nat /\ usage.longest \in Nat
  BY DEF UsageOK
<1>2. usage.total <= usage.total + (2 * mode.prompt + usage.longest)
  BY <1>1
<1> QED BY <1>1, <1>2 DEF Moved

\* A request of the router starts under the limit,
LEMMA CompleteMoves ==
    ASSUME RouterInv, UsageOK(usage), NEW c \in Callers, Complete(c)
    PROVE  Moved(c)
<1>0. ReqsOK(req, Fits) /\ mode \in Modes /\ usage' = usage /\ req[c].pc = "idle" /\ req[c].left > 0
  BY Opened DEF Complete
<1>1. usage.longest \in Nat /\ usage.total \in Nat /\ mode.limit \in Nat
  BY <1>0, ConfigAssumption DEF UsageOK, WellFormed
<1>2. PICK read \in mode.reads :
         \/ \E o : Ends(c, o)
         \/ ~BudgetSpent(read) /\ \E y : req' = [req EXCEPT ![c] = y]
  BY DEF Complete
<1>3. \A d \in Callers \ {c} : req'[d] = req[d]
  BY <1>0, <1>2, EndsIdle, OnlyOne
<1>4. ASSUME IsMetered, req'[c].pc # "idle" PROVE usage.total < mode.limit
  <2>1. ~BudgetSpent(read) /\ read
    BY <1>0, <1>2, <1>4, EndsIdle DEF IsMetered
  <2>2. ~(usage.total >= mode.limit)
    BY <1>4, <2>1 DEF BudgetSpent, IsMetered
  <2> QED BY <1>1, <2>2
<1> QED BY <1>0, <1>1, <1>3, <1>4 DEF Moved

\* one of FailoverClient at no cost,
LEMMA FailoverCompleteMoves ==
    ASSUME RouterInv, UsageOK(usage), NEW c \in Callers, FailoverComplete(c)
    PROVE  Moved(c)
<1>0. /\ ReqsOK(req, Fits) /\ usage' = usage /\ req[c].pc = "idle" /\ req[c].left > 0 /\ mode.kind = "failover"
  BY Opened DEF FailoverComplete
<1>1. usage.longest \in Nat
  BY DEF UsageOK
<1>2. (\E o : Ends(c, o)) \/ \E y : req' = [req EXCEPT ![c] = y]
  BY DEF FailoverComplete
<1>3. \A d \in Callers \ {c} : req'[d] = req[d]
  BY <1>0, <1>2, EndsIdle, OnlyOne
<1> QED BY <1>0, <1>1, <1>3 DEF Moved

\* the loops, the hedge timer and a cancellation cost nothing,
LEMMA LoopsMove ==
    ASSUME RouterInv, UsageOK(usage), mode.prompt \in Nat, NEW c \in Callers,
           NextCandidate(c) \/ NextBackend(c) \/ HedgeTimer(c) \/ Cancel(c)
    PROVE  Moved(c)
<1>0. ReqsOK(req, Fits) /\ usage' = usage /\ req[c].pc # "idle"
  BY Opened DEF NextCandidate, NextBackend, HedgeTimer, Cancel
<1>1. (\E o : Ends(c, o)) \/ \E y : req' = [req EXCEPT ![c] = y]
  <2>1. CASE NextCandidate(c)
    BY <2>1 DEF NextCandidate, Skip, Call
  <2>2. CASE NextBackend(c)
    BY <2>2 DEF NextBackend, Skip, Call
  <2>3. CASE HedgeTimer(c)
    BY <2>3 DEF HedgeTimer, LaunchSecondary
  <2>4. CASE Cancel(c)
    <3>1. Ends(c, "canceled") \/ req' = [req EXCEPT ![c] = [req[c] EXCEPT !.dead = TRUE]]
      BY <2>4 DEF Cancel
    <3> QED BY <3>1
  <2> QED BY <2>1, <2>2, <2>3, <2>4
<1>2. \A d \in Callers \ {c} : req'[d] = req[d]
  BY <1>0, <1>1, EndsIdle, OnlyOne
<1> QED BY <1>0, <1>2, MovedFree

\* and a result costs one request at most, after which its caller is idle.
LEMMA CollectMoves ==
    ASSUME RouterInv, UsageOK(usage), mode.prompt \in Nat, NEW c \in Callers, NEW s \in Slots, Collect(c, s)
    PROVE  Moved(c)
<1> DEFINE cand == calls[c][s][1].cand
           r == calls[c][s][1].x.result
<1>1. CallsOK(calls, Fits) /\ calls[c][s] # <<>> /\ UNCHANGED mode /\ ReqsOK(req, Fits)
  BY Opened DEF Collect
<1>2. IsResult(r)
  BY <1>1, FlightTyped
<1>3. \/ req[c].pc = "hedge" /\ HedgeCollect(c, s, cand, r)
      \/ req[c].pc = "call" /\ SequentialCollect(c, cand, r)
      \/ req[c].pc = "emergency" /\ EmergencyCollect(c, cand, r)
      \/ req[c].pc = "backend call" /\ FailoverCollect(c, cand, r)
  BY DEF Collect
<1> HIDE DEF cand, r
<1>4. req[c].pc # "idle"
  BY <1>3
<1>5. ASSUME usage' = usage, (\E o : Ends(c, o)) \/ (\E y : req' = [req EXCEPT ![c] = y]) PROVE Moved(c)
  <2>1. \A d \in Callers \ {c} : req'[d] = req[d]
    BY <1>1, <1>5, EndsIdle, OnlyOne
  <2> QED BY <1>4, <1>5, <2>1, MovedFree
<1>6. ASSUME NEW others, r.ok, recordTokenUsage(r, cand, others), Ends(c, "ok") PROVE Moved(c)
  BY <1>1, <1>2, <1>4, <1>6, EndsIdle, Recorded DEF Moved
<1>7. CASE req[c].pc = "hedge" /\ HedgeCollect(c, s, cand, r)
  <2>1. \/ r.ok /\ (\E others : recordTokenUsage(r, cand, others)) /\ Ends(c, "ok")
        \/ usage' = usage /\ ((\E o : Ends(c, o)) \/ (\E y : req' = [req EXCEPT ![c] = y]))
    BY <1>7 DEF HedgeCollect, PrimaryFailed, LaunchSecondary
  <2> QED BY <1>5, <1>6, <2>1
<1>8. CASE req[c].pc = "call" /\ SequentialCollect(c, cand, r)
  <2>1. \/ r.ok /\ (\E others : recordTokenUsage(r, cand, others)) /\ Ends(c, "ok")
        \/ usage' = usage /\ (\E y : req' = [req EXCEPT ![c] = y])
    BY <1>8 DEF SequentialCollect
  <2> QED BY <1>5, <1>6, <2>1
<1>9. CASE req[c].pc = "emergency" /\ EmergencyCollect(c, cand, r)
  BY <1>5, <1>9 DEF EmergencyCollect
<1>10. CASE req[c].pc = "backend call" /\ FailoverCollect(c, cand, r)
  <2>1. \/ /\ r.ok /\ usage' = [usage EXCEPT !.models[cand.model] = @ + estimateUsageTokens(r), !.longest = Longest(r)]
           /\ \E o : Ends(c, o)
        \/ usage' = usage /\ ((\E o : Ends(c, o)) \/ (\E y : req' = [req EXCEPT ![c] = y]))
    BY <1>10 DEF FailoverCollect
  <2>2. CASE /\ r.ok /\ usage' = [usage EXCEPT !.models[cand.model] = @ + estimateUsageTokens(r), !.longest = Longest(r)]
             /\ \E o : Ends(c, o)
    <3>1. UsageOK(usage') /\ usage.longest <= usage'.longest /\ usage'.total = usage.total
      BY <1>2, <2>2, BackendRecorded
    <3>2. usage.total \in Nat /\ usage'.longest \in Nat
      BY <3>1 DEF UsageOK
    <3>3. usage.total <= usage.total + (2 * mode.prompt + usage'.longest)
      BY <3>2
    <3> QED BY <1>1, <1>4, <2>2, <3>1, <3>3, EndsIdle DEF Moved
  <2> QED BY <1>5, <2>1, <2>2
<1> QED BY <1>3, <1>7, <1>8, <1>9, <1>10

-----------------------------------------------------------------------------
(* FailoverClient. *)

\* A caller of FailoverClient has one completion at a time.
OneBackend(q, slots) ==
    /\ q.pc \in {"idle", "backend", "backend call"} /\ slots["s"] = <<>>
    /\ q.pc # "backend call" => slots["p"] = <<>>

BusyOn(q, slots, k) == q.pc = "backend call" /\ slots["p"] # <<>> /\ slots["p"][1].cand.model = k

\* One caller's step, as far as the tokens of the models are concerned.
MovedBackend(c) ==
    /\ \A d \in Callers \ {c} : calls'[d] = calls[d]
    /\ OneBackend(req'[c], calls'[c])
    /\ \A k \in Models :
         \/ (BusyOn(req'[c], calls'[c], k) => BusyOn(req[c], calls[c], k)) /\ usage'.models[k] = usage.models[k]
         \/ usage'.models[k] = usage.models[k] /\ usage.models[k] <= mode.limit - mode.prompt
         \/ /\ BusyOn(req[c], calls[c], k) /\ ~BusyOn(req'[c], calls'[c], k)
            /\ usage'.models[k] <= usage.models[k] + (mode.prompt + usage'.longest)

\* A completion of one caller leaves those of the others as they are.
LEMMA OneCaller ==
    ASSUME NEW cs, NEW F, CallsOK(cs, F), NEW c \in Callers, NEW s \in Slots, NEW v
    PROVE  /\ \A d \in Callers \ {c} : [cs EXCEPT ![c][s] = v][d] = cs[d]
           /\ [cs EXCEPT ![c][s] = v][c][s] = v
           /\ \A t \in Slots \ {s} : [cs EXCEPT ![c][s] = v][c][t] = cs[c][t]
BY DEF CallsOK

\* So does dropping his.
LEMMA IdleCaller ==
    ASSUME NEW F, CallsOK(calls, F), NEW c \in Callers
    PROVE  /\ \A d \in Callers \ {c} : Idle(c)[d] = calls[d]
           /\ Idle(c)[c]["p"] = <<>> /\ Idle(c)[c]["s"] = <<>>
BY DEF CallsOK, Idle, Slots

\* FailoverClient starts without a completion.
LEMMA BackendStarts ==
    ASSUME RouterInv, NEW c \in Callers, OneBackend(req[c], calls[c]), FailoverComplete(c)
    PROVE  MovedBackend(c)
<1>1. ReqsOK(req, Fits) /\ usage' = usage /\ calls' = calls /\ req[c].pc = "idle"
  BY Opened DEF FailoverComplete
<1>2. (\E o : Ends(c, o)) \/ \E y : y.pc = "backend" /\ req' = [req EXCEPT ![c] = y]
  <2> DEFINE y == [NoReq EXCEPT !.pc = "backend", !.left = req[c].left, !.cands = BuildFailoverClient, !.queue = BuildFailoverClient]
  <2>1. y.pc = "backend"
    BY DEF NoReq
  <2>2. Ends(c, "budget") \/ req' = [req EXCEPT ![c] = y]
    BY DEF FailoverComplete
  <2> HIDE DEF y
  <2> QED BY <2>1, <2>2
<1>3. req'[c].pc \in {"idle", "backend"}
  BY <1>1, <1>2, EndsIdle, OnlyOne
<1> QED BY <1>1, <1>3 DEF MovedBackend, OneBackend, BusyOn

\* It asks a backend only when the prompt fits under the limit of its model.
LEMMA BackendNext ==
    ASSUME RouterInv, UsageOK(usage), NEW c \in Callers, OneBackend(req[c], calls[c]), IsMetered, NextBackend(c)
    PROVE  MovedBackend(c)
<1>1. /\ ReqsOK(req, Fits) /\ CallsOK(calls, Fits) /\ usage' = usage /\ req[c].pc = "backend" /\ ReqOK(req[c], Fits)
      /\ mode \in Modes /\ SharedInv /\ mode.limit \in Nat /\ mode.prompt \in Nat
  BY Opened, ConfigAssumption DEF NextBackend, WellFormed
<1>2. DOMAIN req[c] = ReqFields
  BY <1>1 DEF ReqOK
<1>3. ASSUME calls' = calls, req'[c].pc \in {"idle", "backend"} PROVE MovedBackend(c)
  BY <1>1, <1>3 DEF MovedBackend, OneBackend, BusyOn
<1>4. CASE req[c].at > Len(req[c].queue)
  <2>1. Ends(c, "failed") /\ calls' = calls
    BY <1>4 DEF NextBackend
  <2> QED BY <1>1, <1>3, <2>1, EndsIdle
<1>5. CASE ~(req[c].at > Len(req[c].queue))
  <2>1. req[c].at <= Len(req[c].queue)
    BY <1>1, <1>5, TurnTyped
  <2>2. Skip(c) \/ (checkBudget(At(c), TRUE) /\ Call(c, At(c), "backend call"))
    BY <1>5 DEF NextBackend, IsMetered
  <2>3. CASE Skip(c)
    <3> DEFINE y == [req[c] EXCEPT !.at = @ + 1, !.skipped = @ \cup {At(c)}]
    <3>1. y.pc = "backend"
      BY <1>1, <1>2 DEF ReqFields
    <3>2. req' = [req EXCEPT ![c] = y] /\ calls' = calls
      BY <2>3 DEF Skip
    <3> HIDE DEF y
    <3>3. req'[c].pc = "backend"
      BY <1>1, <3>1, <3>2, OnlyOne
    <3> QED BY <1>3, <3>2, <3>3
  <2>4. CASE checkBudget(At(c), TRUE) /\ Call(c, At(c), "backend call")
    <3> DEFINE y == [req[c] EXCEPT !.pc = "backend call", !.tried = @ \cup {At(c)}]
    <3>1. y.pc = "backend call"
      BY <1>2 DEF ReqFields
    <3>2. req' = [req EXCEPT ![c] = y] /\ Launch(calls, c, "p", At(c))
      BY <2>4 DEF Call
    <3> HIDE DEF y
    <3>3. req'[c].pc = "backend call"
      BY <1>1, <3>1, <3>2, OnlyOne
    <3>4. At(c) \in Fits /\ "p" \in Slots /\ "s" \in Slots
      BY <1>1, <2>1, TurnTyped DEF At, Slots
    <3>5. PICK x : calls' = [calls EXCEPT ![c]["p"] = <<[cand |-> At(c), x |-> x]>>]
      BY <1>1, <3>2, <3>4, LaunchKeeps
    <3>6. /\ \A d \in Callers \ {c} : calls'[d] = calls[d]
          /\ calls'[c]["p"] = <<[cand |-> At(c), x |-> x]>> /\ calls'[c]["s"] = calls[c]["s"]
      BY <1>1, <3>4, <3>5, OneCaller
    <3>7. calls'[c]["p"] # <<>> /\ calls'[c]["p"][1].cand = At(c)
      BY <3>6
    <3>8. OneBackend(req'[c], calls'[c])
      BY <3>3, <3>6 DEF OneBackend
    <3>9. ASSUME NEW k \in Models, k = At(c).model PROVE usage.models[k] <= mode.limit - mode.prompt
      <4>1. usage.models[k] \in Nat
        BY DEF UsageOK
      <4>2. mode.limit # 0
        BY <1>1 DEF IsMetered
      <4>3. usage.models[At(c).model] + mode.prompt <= mode.limit
        BY <2>4, <4>2 DEF checkBudget
      <4> QED BY <1>1, <3>9, <4>1, <4>3
    <3>10. \A k : BusyOn(req'[c], calls'[c], k) => k = At(c).model
      BY <3>7 DEF BusyOn
    <3> QED BY <1>1, <3>6, <3>8, <3>9, <3>10 DEF MovedBackend
  <2> QED BY <2>2, <2>3, <2>4
<1> QED BY <1>4, <1>5

\* A cancellation drops the completion.
LEMMA BackendCanceled ==
    ASSUME RouterInv, NEW c \in Callers, OneBackend(req[c], calls[c]), Cancel(c)
    PROVE  MovedBackend(c)
<1>1. ReqsOK(req, Fits) /\ usage' = usage /\ ReqOK(req[c], Fits)
  BY Opened DEF Cancel
<1> DEFINE y == [req[c] EXCEPT !.dead = TRUE]
<1>2. y.pc = req[c].pc
  BY <1>1 DEF ReqOK, ReqFields
<1>3. req' = [req EXCEPT ![c] = y] /\ calls' = calls
  BY DEF Cancel, OneBackend
<1> HIDE DEF y
<1>4. req'[c].pc = req[c].pc
  BY <1>1, <1>2, <1>3, OnlyOne
<1> QED BY <1>1, <1>3, <1>4 DEF MovedBackend, OneBackend, BusyOn

\* A completion that goes on is replaced by its next state,
LEMMA StepUpdates ==
    ASSUME NEW c \in Callers, NEW s \in Slots, CallStep(c, s)
    PROVE  \E x : Update(c, s, x)
<1> DEFINE call == calls[c][s][1]
<1>1. EnsembleStep(c, s, call.x) \/ ClientStep(c, s, call.x)
  BY DEF CallStep
<1> HIDE DEF call
<1>2. CASE EnsembleStep(c, s, call.x)
  BY <1>2 DEF EnsembleStep
<1>3. CASE ClientStep(c, s, call.x)
  <2>1. CASE ProviderAnswers(c, s, call.x)
    BY <2>1 DEF ProviderAnswers
  <2>2. CASE Wakes(c, s, call.x)
    BY <2>2 DEF Wakes
  <2>3. CASE CatalogRead(c, s, call.x)
    BY <2>3 DEF CatalogRead
  <2> QED BY <1>3, <2>1, <2>2, <2>3 DEF ClientStep
<1> QED BY <1>1, <1>2, <1>3

BackendStays(c) ==
    /\ \A d \in Callers \ {c} : calls'[d] = calls[d]
    /\ OneBackend(req[c], calls'[c])
    /\ \A k : BusyOn(req[c], calls'[c], k) <=> BusyOn(req[c], calls[c], k)

\* which is one of the same model.
LEMMA BackendGoesOn ==
    ASSUME RouterInv, NEW c \in Callers, NEW s \in Slots, OneBackend(req[c], calls[c]), CallStep(c, s)
    PROVE  BackendStays(c)
<1>1. CallsOK(calls, Fits) /\ usage' = usage /\ req' = req /\ calls[c][s] # <<>>
  BY Opened DEF CallStep
<1>2. s = "p" /\ "s" \in Slots
  BY <1>1 DEF OneBackend, Slots
<1>3. PICK x : Update(c, s, x)
  BY StepUpdates
<1>4. PICK cand, y : calls[c][s] = <<[cand |-> cand, x |-> y]>> /\ FlightOf(cand, y, Fits)
  BY <1>1 DEF CallsOK, InSlot
<1>5. calls' = [calls EXCEPT ![c][s] = <<[cand |-> cand, x |-> x]>>]
  <2>1. calls' = [calls EXCEPT ![c][s] = <<[calls[c][s][1] EXCEPT !.x = x]>>]
    BY <1>3 DEF Update
  <2>2. [calls[c][s][1] EXCEPT !.x = x] = [cand |-> cand, x |-> x]
    BY <1>4
  <2> QED BY <2>1, <2>2
<1>6. /\ \A d \in Callers \ {c} : calls'[d] = calls[d]
      /\ calls'[c]["p"] = <<[cand |-> cand, x |-> x]>> /\ calls'[c]["s"] = calls[c]["s"]
  BY <1>1, <1>2, <1>5, OneCaller
<1>7. calls'[c]["p"] # <<>> /\ calls'[c]["p"][1].cand = calls[c]["p"][1].cand
  BY <1>2, <1>4, <1>6
<1> QED BY <1>1, <1>2, <1>6, <1>7 DEF BackendStays, OneBackend, BusyOn

\* An answer adds its tokens and the prompt to the model that was asked.
LEMMA BackendAnswers ==
    ASSUME RouterInv, UsageOK(usage), mode.prompt \in Nat, NEW c \in Callers, NEW s \in Slots, OneBackend(req[c], calls[c]), Collect(c, s)
    PROVE  MovedBackend(c)
<1> DEFINE cand == calls[c][s][1].cand
           r == calls[c][s][1].x.result
<1>1. CallsOK(calls, Fits) /\ calls[c][s] # <<>> /\ ReqsOK(req, Fits) /\ ReqOK(req[c], Fits)
  BY Opened DEF Collect
<1>2. s = "p"
  BY <1>1 DEF OneBackend, Slots
<1>3. IsResult(r)
  BY <1>1, FlightTyped
<1>4. req[c].pc = "backend call" /\ FailoverCollect(c, cand, r)
  BY DEF Collect, OneBackend
<1>5. \A k : k = cand.model => BusyOn(req[c], calls[c], k)
  BY <1>1, <1>2, <1>4 DEF BusyOn
<1> HIDE DEF cand, r
<1>6. calls' = Idle(c)
  BY <1>4 DEF FailoverCollect
<1>7. (\A d \in Callers \ {c} : calls'[d] = calls[d]) /\ calls'[c]["p"] = <<>> /\ calls'[c]["s"] = <<>>
  BY <1>1, <1>6, IdleCaller
<1>8. req'[c].pc \in {"idle", "backend"}
  <2> DEFINE y == [req[c] EXCEPT !.pc = "backend", !.at = @ + 1, !.errored = TRUE]
  <2>1. y.pc = "backend"
    BY <1>1 DEF ReqOK, ReqFields
  <2>2. (\E o : Ends(c, o)) \/ req' = [req EXCEPT ![c] = y]
    BY <1>4 DEF FailoverCollect
  <2> HIDE DEF y
  <2> QED BY <1>1, <2>1, <2>2, EndsIdle, OnlyOne
<1>9. OneBackend(req'[c], calls'[c]) /\ \A k : ~BusyOn(req'[c], calls'[c], k)
  BY <1>7, <1>8 DEF OneBackend, BusyOn
<1>10. \/ r.ok /\ usage' = [usage EXCEPT !.models[cand.model] = @ + estimateUsageTokens(r), !.longest = Longest(r)]
       \/ usage' = usage
  BY <1>4 DEF FailoverCollect
<1>11. CASE usage' = usage
  BY <1>7, <1>9, <1>11 DEF MovedBackend
<1>12. CASE r.ok /\ usage' = [usage EXCEPT !.models[cand.model] = @ + estimateUsageTokens(r), !.longest = Longest(r)]
  <2>1. \A k \in Models :
             /\ k # cand.model => usage'.models[k] = usage.models[k]
             /\ k = cand.model => usage'.models[k] <= usage.models[k] + (mode.prompt + usage'.longest)
    BY <1>3, <1>12, BackendRecorded
  <2> QED BY <1>5, <1>7, <1>9, <2>1 DEF MovedBackend
<1> QED BY <1>10, <1>11, <1>12

-----------------------------------------------------------------------------
(* The budget: the invariant. *)

\* The callers with a request under way, and those whose request runs on client k.
Active == {c \in Callers : req[c].pc # "idle"}
Busy(k) == {c \in Callers : BusyOn(req[c], calls[c], k)}

\* The total leaves room for a hedged request of every active caller,
TotalInv ==
    IsMetered /\ mode.kind = "router" =>
        \/ Active = {} /\ usage.total = mode.used
        \/ Room(usage.total, mode.limit - 1, mode.callers, Active, 2 * mode.prompt + usage.longest)

\* and each model for an answer of everyone who is on it.
ModelsInv ==
    IsMetered /\ mode.kind = "failover" =>
        /\ \A c \in Callers : OneBackend(req[c], calls[c])
        /\ \A k \in Models :
             Room(usage.models[k], mode.limit - mode.prompt, mode.callers, Busy(k), mode.prompt + usage.longest)

\* Who is not among the callers of the configuration never asks.
Absent == \A c \in Callers \ mode.callers : req[c].pc = "idle" /\ ~(req[c].left > 0)

\* The inductive invariant of the budget.
BudgetInv == RouterInv /\ UsageOK(usage) /\ Absent /\ TotalInv /\ ModelsInv

\* The bounds of the configuration are numbers and its callers finitely many.
LEMMA CallersFinite ==
    ASSUME mode \in Modes
    PROVE  /\ IsFiniteSet(mode.callers) /\ mode.callers \subseteq Callers /\ mode.callers # {}
           /\ mode.prompt \in Nat /\ mode.limit \in Nat /\ mode.used \in Nat /\ mode.rounds \in Nat
<1>1. WellFormed(mode) /\ IsFiniteSet(Callers)
  BY ConfigAssumption
<1>2. /\ mode.callers \subseteq Callers /\ mode.callers # {}
      /\ mode.prompt \in Nat /\ mode.limit \in Nat /\ mode.used \in Nat /\ mode.rounds \in Nat
  BY <1>1 DEF WellFormed
<1>3. IsFiniteSet(mode.callers)
  BY <1>1, <1>2, FS_Subset
<1> QED BY <1>2, <1>3

\* Whoever has a request under way is a caller of the configuration.
LEMMA AbsentIdle ==
    ASSUME Absent
    PROVE  Active \subseteq mode.callers /\ \A k : Busy(k) \subseteq mode.callers
BY DEF Absent, Active, Busy, BusyOn

\* So is whoever moves.
LEMMA MovedAbsent ==
    ASSUME Absent, UNCHANGED mode, NEW c \in Callers, Moved(c)
    PROVE  c \in mode.callers /\ Absent'
<1>1. c \in mode.callers
  BY DEF Absent, Moved
<1>2. \A d \in Callers \ mode.callers : req'[d] = req[d]
  BY <1>1 DEF Moved
<1> QED BY <1>1, <1>2 DEF Absent

\* A step of one caller keeps the room under the total,
LEMMA MovedTotal ==
    ASSUME mode \in Modes, UsageOK(usage), Absent, TotalInv, UNCHANGED mode, NEW c \in Callers, Moved(c)
    PROVE  TotalInv'
<1> SUFFICES ASSUME IsMetered, mode.kind = "router"
             PROVE  \/ Active' = {} /\ usage'.total = mode.used
                    \/ Room(usage'.total, mode.limit - 1, mode.callers, Active', 2 * mode.prompt + usage'.longest)
  BY DEF TotalInv, IsMetered, Room
<1> DEFINE w == 2 * mode.prompt + usage.longest
           v == 2 * mode.prompt + usage'.longest
           base == mode.limit - 1
<1>1. /\ usage.total \in Nat /\ usage'.total \in Nat /\ w \in Nat /\ v \in Nat /\ w <= v /\ base \in Int
      /\ IsFiniteSet(mode.callers)
  <2>1. mode.prompt \in Nat /\ mode.limit \in Nat /\ IsFiniteSet(mode.callers)
    BY CallersFinite
  <2>2. usage.total \in Nat /\ usage'.total \in Nat /\ usage.longest \in Nat /\ usage'.longest \in Nat /\ usage.longest <= usage'.longest
    BY DEF UsageOK, Moved
  <2> QED BY <2>1, <2>2
<1>2. Active \subseteq mode.callers
  BY AbsentIdle
<1>3. Active' \subseteq mode.callers
  <2>1. Absent'
    BY MovedAbsent
  <2> QED BY <2>1 DEF Absent, Active
<1>4. (Active = {} /\ usage.total = mode.used) \/ Room(usage.total, base, mode.callers, Active, w)
  BY DEF TotalInv
<1>5. \A d \in Callers \ {c} : d \in Active' <=> d \in Active
  BY DEF Moved, Active
<1>6. Active \subseteq Callers /\ Active' \subseteq Callers /\ (c \in Active <=> req[c].pc # "idle") /\ (c \in Active' <=> req'[c].pc # "idle")
  BY DEF Active
<1>7. \/ c \notin Active /\ usage' = usage /\ (c \in Active' => usage.total < mode.limit)
      \/ c \in Active /\ c \in Active' /\ usage'.total = usage.total
      \/ c \in Active /\ c \notin Active' /\ usage'.total <= usage.total + v
  BY <1>6 DEF Moved
<1>8. mode.limit \in Nat
  BY CallersFinite
<1> HIDE DEF w, v, Active
<1>9. CASE c \notin Active /\ usage' = usage /\ c \in Active'
  <2>1. usage.total <= base
    BY <1>1, <1>7, <1>8, <1>9
  <2> HIDE DEF base
  <2>2. Room(usage'.total, base, mode.callers, Active', v)
    BY <1>1, <1>3, <1>9, <2>1, RoomAtStart
  <2> QED BY <2>2 DEF v, base
<1>10. CASE usage'.total = usage.total /\ (c \in Active' <=> c \in Active)
  <2>1. Active' = Active
    BY <1>5, <1>6, <1>10
  <2> HIDE DEF base
  <2>2. (Active = {} /\ usage.total = mode.used) \/ Room(usage.total, base, mode.callers, Active, v)
    BY <1>1, <1>2, <1>4, RoomKept
  <2> QED BY <1>10, <2>1, <2>2 DEF v, base
<1>11. CASE c \in Active /\ c \notin Active' /\ usage'.total <= usage.total + v
  <2>1. Active' = Active \ {c} /\ Active # {}
    BY <1>5, <1>6, <1>11
  <2> HIDE DEF base
  <2>2. Room(usage'.total, base, mode.callers, Active \ {c}, v)
    BY <1>1, <1>2, <1>4, <1>11, <2>1, RoomPaid
  <2> QED BY <2>1, <2>2 DEF v, base
<1>12. c \notin Active /\ usage' = usage /\ c \notin Active' => usage'.total = usage.total
  OBVIOUS
<1> QED BY <1>7, <1>9, <1>10, <1>11, <1>12

\* and the room under the limit of each model.
LEMMA MovedModels ==
    ASSUME mode \in Modes, UsageOK(usage), Absent, ModelsInv, UNCHANGED mode, NEW c \in Callers, Moved(c),
           IsMetered /\ mode.kind = "failover" => MovedBackend(c)
    PROVE  ModelsInv'
<1> SUFFICES ASSUME IsMetered, mode.kind = "failover"
             PROVE  /\ \A d \in Callers : OneBackend(req'[d], calls'[d])
                    /\ \A k \in Models :
                         Room(usage'.models[k], mode.limit - mode.prompt, mode.callers, Busy(k)', mode.prompt + usage'.longest)
  BY DEF ModelsInv, IsMetered, Room, OneBackend
<1>1. MovedBackend(c)
  OBVIOUS
<1>2. ASSUME NEW d \in Callers PROVE OneBackend(req'[d], calls'[d])
  <2>1. CASE d = c
    BY <1>1, <2>1 DEF MovedBackend
  <2>2. CASE d # c
    BY <1>1, <2>2 DEF MovedBackend, Moved, ModelsInv
  <2> QED BY <2>1, <2>2
<1>3. ASSUME NEW k \in Models
      PROVE  Room(usage'.models[k], mode.limit - mode.prompt, mode.callers, Busy(k)', mode.prompt + usage'.longest)
  <2> DEFINE w == mode.prompt + usage.longest
             v == mode.prompt + usage'.longest
             base == mode.limit - mode.prompt
             B == Busy(k)
             D == Busy(k)'
             t == usage.models[k]
             u == usage'.models[k]
  <2>1. t \in Nat /\ u \in Nat /\ w \in Nat /\ v \in Nat /\ w <= v /\ base \in Int /\ IsFiniteSet(mode.callers)
    <3>1. mode.prompt \in Nat /\ mode.limit \in Nat /\ IsFiniteSet(mode.callers)
      BY CallersFinite
    <3>2. t \in Nat /\ u \in Nat /\ usage.longest \in Nat /\ usage'.longest \in Nat /\ usage.longest <= usage'.longest
      BY DEF UsageOK, Moved
    <3> HIDE DEF t, u
    <3> QED BY <3>1, <3>2
  <2>2. B \subseteq mode.callers
    BY AbsentIdle
  <2>3. D \subseteq mode.callers
    <3>1. Absent'
      BY MovedAbsent
    <3> QED BY <3>1 DEF Absent, Busy, BusyOn
  <2>4. Room(t, base, mode.callers, B, w)
    BY DEF ModelsInv
  <2>5. \A d \in Callers \ {c} : d \in D <=> d \in B
    BY <1>1 DEF Busy, BusyOn, Moved, MovedBackend
  <2>6. /\ B \subseteq Callers /\ D \subseteq Callers /\ (c \in B <=> BusyOn(req[c], calls[c], k))
        /\ (c \in D <=> BusyOn(req'[c], calls'[c], k))
    BY DEF Busy, BusyOn
  <2>7. \/ (c \in D => c \in B) /\ u = t
        \/ u = t /\ t <= base
        \/ c \in B /\ c \notin D /\ u <= t + v
    BY <1>1, <2>6 DEF MovedBackend
  <2> HIDE DEF w, v, base, B, D, t, u
  <2>8. CASE (c \in D => c \in B) /\ u = t
    <3>1. D \subseteq B
      BY <2>5, <2>6, <2>8
    <3> QED BY <2>1, <2>2, <2>4, <2>8, <3>1, RoomKept DEF u, v, base, D
  <2>9. CASE u = t /\ t <= base
    BY <2>1, <2>3, <2>9, RoomAtStart DEF u, v, base, D
  <2>10. CASE c \in B /\ c \notin D /\ u <= t + v
    <3>1. D = B \ {c}
      BY <2>5, <2>6, <2>10
    <3>2. Room(u, base, mode.callers, B \ {c}, v)
      BY <2>1, <2>2, <2>4, <2>10, RoomPaid
    <3> QED BY <3>1, <3>2 DEF u, v, base, D
  <2> QED BY <2>7, <2>8, <2>9, <2>10
<1> QED BY <1>2, <1>3

\* What changes neither the requests' places nor the store keeps the budget.
LEMMA BudgetSame ==
    ASSUME BudgetInv, UNCHANGED <<mode, usage, req>>,
           IsMetered /\ mode.kind = "failover" =>
             \A c \in Callers : OneBackend(req[c], calls'[c]) /\ \A k : BusyOn(req[c], calls'[c], k) <=> BusyOn(req[c], calls[c], k)
    PROVE  Absent' /\ TotalInv' /\ ModelsInv' /\ UsageOK(usage')
<1>1. Active' = Active
  BY DEF Active
<1>2. Absent' /\ UsageOK(usage')
  BY DEF BudgetInv, Absent
<1>3. TotalInv'
  BY <1>1 DEF BudgetInv, TotalInv, IsMetered, Room
<1>4. ASSUME IsMetered, mode.kind = "failover"
      PROVE  /\ \A c \in Callers : OneBackend(req'[c], calls'[c])
             /\ \A k \in Models : Busy(k)' = Busy(k)
  BY <1>4 DEF Busy, BusyOn
<1>5. ModelsInv'
  BY <1>4 DEF BudgetInv, ModelsInv, IsMetered, Room, OneBackend
<1> QED BY <1>2, <1>3, <1>5

\* At the start there is room: nobody has asked.
LEMMA BudgetInit == Init => BudgetInv
<1> SUFFICES ASSUME Init PROVE BudgetInv
  OBVIOUS
<1>1. RouterInv /\ mode \in Modes
  BY RouterInvInit DEF Init
<1>2. /\ IsFiniteSet(mode.callers) /\ mode.callers # {} /\ mode.prompt \in Nat /\ mode.limit \in Nat /\ mode.used \in Nat
  BY <1>1, CallersFinite
<1>3. /\ DOMAIN usage = {"total", "named", "models", "longest"} /\ usage.total = mode.used /\ usage.longest = 0
      /\ usage.models = [k \in Models |-> 0]
  BY DEF Init
<1>4. UsageOK(usage)
  BY <1>2, <1>3 DEF UsageOK
<1>5. \A c \in Callers : req[c].pc = "idle" /\ (c \notin mode.callers => req[c].left = 0)
  BY DEF Init, NoReq
<1>6. Absent
  BY <1>5 DEF Absent
<1>7. Active = {} /\ \A k : Busy(k) = {}
  BY <1>5 DEF Active, Busy, BusyOn
<1>8. TotalInv
  BY <1>3, <1>7 DEF TotalInv
<1>9. \A c \in Callers : OneBackend(req[c], calls[c])
  BY <1>5 DEF OneBackend, Init, Slots
<1>10. ASSUME NEW k \in Models
       PROVE  Room(usage.models[k], mode.limit - mode.prompt, mode.callers, Busy(k), mode.prompt + usage.longest)
  <2> DEFINE n == Cardinality(mode.callers)
  <2>1. n \in Nat /\ n # 0
    BY <1>2, FS_CardinalityType, FS_EmptySet
  <2> HIDE DEF n
  <2>2. PICK m \in Nat : n = m + 1
    <3>1. n - 1 \in Nat /\ n = (n - 1) + 1
      BY <2>1
    <3> QED BY <3>1
  <2>3. (m + 1) * mode.prompt = m * mode.prompt + mode.prompt /\ m * mode.prompt \in Nat
    BY <1>2, Product
  <2>4. 0 <= (mode.limit - mode.prompt) + (m + 1) * mode.prompt
    BY <1>2, <2>3
  <2>5. Cardinality({}) = 0
    BY FS_EmptySet
  <2>6. n - 0 = m + 1 /\ mode.prompt + 0 = mode.prompt
    BY <1>2, <2>2
  <2>7. usage.models[k] = 0 /\ usage.longest = 0 /\ Busy(k) = {}
    BY <1>3, <1>7
  <2>8. 0 <= (mode.limit - mode.prompt) + (n - Cardinality({})) * (mode.prompt + 0)
    BY <2>4, <2>5, <2>6
  <2> QED BY <2>7, <2>8 DEF Room, n
<1>11. ModelsInv
  BY <1>9, <1>10 DEF ModelsInv
<1> QED BY <1>1, <1>4, <1>6, <1>8, <1>11 DEF BudgetInv

\* The invariant is inductive.
LEMMA BudgetNext == BudgetInv /\ [Next]_vars => BudgetInv'
<1> SUFFICES ASSUME BudgetInv, [Next]_vars PROVE BudgetInv'
  OBVIOUS
<1>0. /\ RouterInv /\ UsageOK(usage) /\ Absent /\ TotalInv /\ ModelsInv
  BY DEF BudgetInv
<1>1. RouterInv' /\ mode \in Modes /\ mode.prompt \in Nat
  BY <1>0, RouterInvNext, Opened, CallersFinite
<1>2. SUFFICES Absent' /\ TotalInv' /\ ModelsInv' /\ UsageOK(usage')
  <2>1. UsageOK(usage)' <=> UsageOK(usage')
    BY DEF UsageOK
  <2> QED BY <1>1, <1>2, <2>1 DEF BudgetInv
<1>3. ASSUME IsMetered, mode.kind = "failover" PROVE \A c \in Callers : OneBackend(req[c], calls[c])
  BY <1>0, <1>3 DEF ModelsInv
<1>4. ASSUME UNCHANGED mode, NEW c \in Callers, Moved(c), IsMetered /\ mode.kind = "failover" => MovedBackend(c)
      PROVE  Absent' /\ TotalInv' /\ ModelsInv' /\ UsageOK(usage')
  <2>1. Absent'
    BY <1>0, <1>4, MovedAbsent
  <2>2. TotalInv'
    BY <1>0, <1>1, <1>4, MovedTotal
  <2>3. ModelsInv'
    BY <1>0, <1>1, <1>4, MovedModels
  <2>4. UsageOK(usage')
    BY <1>4 DEF Moved
  <2> QED BY <2>1, <2>2, <2>3, <2>4
<1>5. CASE UNCHANGED vars \/ Tick
  <2>1. UNCHANGED <<mode, usage, req, calls>>
    BY <1>5 DEF vars, Tick
  <2>2. \A c \in Callers : calls'[c] = calls[c]
    BY <2>1
  <2> QED BY <1>3, <2>1, <2>2, BudgetSame
<1>6. ASSUME NEW c \in Callers, NEW s \in Slots, CallStep(c, s) PROVE Absent' /\ TotalInv' /\ ModelsInv' /\ UsageOK(usage')
  <2>1. UNCHANGED <<mode, usage, req>>
    BY <1>6 DEF CallStep
  <2>2. ASSUME IsMetered, mode.kind = "failover", NEW d \in Callers
        PROVE  OneBackend(req[d], calls'[d]) /\ \A k : BusyOn(req[d], calls'[d], k) <=> BusyOn(req[d], calls[d], k)
    <3>1. OneBackend(req[c], calls[c]) /\ OneBackend(req[d], calls[d])
      BY <1>3, <2>2
    <3>2. BackendStays(c)
      BY <1>0, <1>6, <3>1, BackendGoesOn
    <3>3. CASE d = c
      BY <3>2, <3>3 DEF BackendStays
    <3>4. CASE d # c
      <4>1. calls'[d] = calls[d]
        BY <3>2, <3>4 DEF BackendStays
      <4> QED BY <3>1, <4>1
    <3> QED BY <3>3, <3>4
  <2> QED BY <2>1, <2>2, BudgetSame
<1>7. ASSUME NEW c \in Callers, Complete(c) PROVE Absent' /\ TotalInv' /\ ModelsInv' /\ UsageOK(usage')
  <2>1. UNCHANGED mode /\ mode.kind # "failover"
    BY <1>7 DEF Complete
  <2>2. Moved(c)
    BY <1>0, <1>7, CompleteMoves
  <2> QED BY <1>4, <2>1, <2>2
<1>8. ASSUME NEW c \in Callers, FailoverComplete(c) PROVE Absent' /\ TotalInv' /\ ModelsInv' /\ UsageOK(usage')
  <2>1. UNCHANGED mode /\ Moved(c)
    BY <1>0, <1>8, FailoverCompleteMoves DEF FailoverComplete
  <2>2. IsMetered /\ mode.kind = "failover" => MovedBackend(c)
    BY <1>0, <1>3, <1>8, BackendStarts
  <2> QED BY <1>4, <2>1, <2>2
<1>9. ASSUME NEW c \in Callers, NextCandidate(c) \/ NextBackend(c) \/ HedgeTimer(c) \/ Cancel(c)
      PROVE  Absent' /\ TotalInv' /\ ModelsInv' /\ UsageOK(usage')
  <2>1. UNCHANGED mode /\ Moved(c)
    BY <1>0, <1>1, <1>9, LoopsMove DEF NextCandidate, NextBackend, HedgeTimer, Cancel
  <2>2. ASSUME IsMetered, mode.kind = "failover" PROVE MovedBackend(c)
    <3>1. OneBackend(req[c], calls[c])
      BY <1>3, <2>2
    <3>2. ~NextCandidate(c) /\ ~HedgeTimer(c)
      BY <3>1 DEF OneBackend, NextCandidate, HedgeTimer
    <3> QED BY <1>0, <1>9, <2>2, <3>1, <3>2, BackendNext, BackendCanceled
  <2> QED BY <1>4, <2>1, <2>2
<1>10. ASSUME NEW c \in Callers, NEW s \in Slots, Collect(c, s) PROVE Absent' /\ TotalInv' /\ ModelsInv' /\ UsageOK(usage')
  <2>1. UNCHANGED mode /\ Moved(c)
    BY <1>0, <1>1, <1>10, CollectMoves DEF Collect
  <2>2. IsMetered /\ mode.kind = "failover" => MovedBackend(c)
    BY <1>0, <1>1, <1>3, <1>10, BackendAnswers
  <2> QED BY <1>4, <2>1, <2>2
<1> QED BY <1>5, <1>6, <1>7, <1>8, <1>9, <1>10 DEF Next

\* The daily token limit is overrun at most by what was under way when it was reached, for any
\* number of callers, any prompt and any answers: the router's total by one hedged request of
\* each caller, the tokens of a model behind FailoverClient by one answer of each caller and
\* one prompt of each but the last.  The limit is checked before a request and charged after it,
\* so nothing tighter holds once two callers race.
THEOREM BudgetIsBounded == Spec => []BudgetBounded
<1>1. BudgetInv => BudgetBounded
  <2> SUFFICES ASSUME BudgetInv, IsMetered PROVE BudgetBounded
    BY DEF BudgetBounded, IsMetered
  <2> DEFINE n == Cardinality(mode.callers)
             P == mode.prompt
             L == usage.longest
  <2>1. mode \in Modes /\ UsageOK(usage) /\ Absent /\ TotalInv /\ ModelsInv
    BY Opened DEF BudgetInv
  <2>2. IsFiniteSet(mode.callers) /\ P \in Nat /\ mode.limit \in Nat /\ mode.used \in Nat /\ L \in Nat /\ n \in Nat
    BY <2>1, CallersFinite, FS_CardinalityType DEF UsageOK
  <2>3. ASSUME mode.kind = "router" PROVE usage.total <= Max({mode.used, mode.limit - 1 + n * (2 * P + L)})
    <3> DEFINE most == mode.limit - 1 + n * (2 * P + L)
    <3>1. 2 * P + L \in Nat /\ usage.total \in Nat /\ mode.limit - 1 \in Int
      BY <2>1, <2>2 DEF UsageOK
    <3>2. n * (2 * P + L) \in Nat
      BY <2>2, <3>1, Product
    <3>3. most \in Int
      BY <3>1, <3>2
    <3>4. usage.total = mode.used \/ usage.total <= most
      <4>1. CASE Room(usage.total, mode.limit - 1, mode.callers, Active, 2 * P + L)
        <5>1. Active \in SUBSET mode.callers
          BY <2>1, AbsentIdle
        <5>2. {} \in SUBSET Active
          OBVIOUS
        <5> HIDE DEF Active
        <5>3. Room(usage.total, mode.limit - 1, mode.callers, {}, 2 * P + L)
          BY <2>2, <3>1, <4>1, <5>1, <5>2, RoomKept
        <5>4. Cardinality({}) = 0 /\ n - 0 = n
          BY <2>2, FS_EmptySet
        <5> QED BY <5>3, <5>4 DEF Room
      <4>2. CASE ~Room(usage.total, mode.limit - 1, mode.callers, Active, 2 * P + L)
        BY <2>1, <2>3, <4>2 DEF TotalInv
      <4> QED BY <4>1, <4>2
    <3> HIDE DEF most
    <3>5. Max({mode.used, most}) = IF mode.used >= most THEN mode.used ELSE most
      BY <2>2, <3>3, MaxPair
    <3>6. usage.total <= Max({mode.used, most})
      BY <2>2, <3>1, <3>3, <3>4, <3>5
    <3> QED BY <3>6 DEF most
  <2>4. ASSUME mode.kind = "failover", NEW k \in Models PROVE usage.models[k] <= mode.limit + n * L + (n - 1) * P
    <3>1. P + L \in Nat /\ usage.models[k] \in Nat /\ mode.limit - P \in Int
      BY <2>1, <2>2 DEF UsageOK
    <3>2. Room(usage.models[k], mode.limit - P, mode.callers, Busy(k), P + L)
      BY <2>1, <2>4 DEF ModelsInv
    <3>3. Busy(k) \in SUBSET mode.callers
      BY <2>1, AbsentIdle
    <3> DEFINE B == Busy(k)
    <3>4. {} \in SUBSET B /\ B \in SUBSET mode.callers /\ Room(usage.models[k], mode.limit - P, mode.callers, B, P + L)
      BY <3>2, <3>3
    <3> HIDE DEF B
    <3>5. Room(usage.models[k], mode.limit - P, mode.callers, {}, P + L)
      BY <2>2, <3>1, <3>4, RoomKept
    <3>6. Cardinality({}) = 0 /\ n - 0 = n
      BY <2>2, FS_EmptySet
    <3>7. usage.models[k] <= (mode.limit - P) + n * (P + L)
      BY <3>5, <3>6 DEF Room
    <3> DEFINE t == usage.models[k]
               lim == mode.limit
    <3>8. t \in Nat /\ lim \in Nat /\ t <= (lim - P) + n * (P + L)
      BY <2>2, <3>1, <3>7
    <3> HIDE DEF t, lim, n, P, L
    <3>9. n * (P + L) = n * P + n * L /\ (n - 1) * P = n * P - P /\ n * P \in Nat /\ n * L \in Nat
      BY <2>2
    <3>10. t <= lim + n * L + (n - 1) * P
      BY <2>2, <3>8, <3>9
    <3> QED BY <3>10 DEF t, lim
  <2> QED BY <2>3, <2>4 DEF BudgetBounded
<1>2. Spec => []BudgetInv
  BY BudgetInit, BudgetNext, PTL DEF Spec
<1> QED BY <1>1, <1>2, PTL
=============================================================================
