--------------------------- MODULE DowntimeProofs ---------------------------
(***************************************************************************)
(* For any set of objects, any number of downtimes of any kind, any        *)
(* windows and any number of restarts:                                     *)
(*   - scheduled_downtime_depth is exact (DepthAlwaysExact), from the      *)
(*     counting of the downtimes in effect alone;                          *)
(*   - the state keeps its shape (TypeCorrect) and pending_flex_downtime   *)
(*     never misses a downtime that waits (WaitingCounted), from an        *)
(*     inductive invariant about the calls that are still to be made:      *)
(*     every handle and stop in `work' is for a downtime of its own, and   *)
(*     triggers are followed away from the downtime they start with.       *)
(* The first sections are about what the recursive definitions of the      *)
(* module compute over lists of any length.                                *)
(***************************************************************************)
EXTENDS Downtime, FiniteSetTheorems, SequenceTheorems, WellFoundedInduction, TLAPS

-----------------------------------------------------------------------------
(* What the recursive definitions over lists compute.                        *)

\* A set of numbers with zero and every successor has them all.
LEMMA Induction ==
  ASSUME NEW X \in SUBSET Nat, 0 \in X, \A n \in X : n + 1 \in X
  PROVE  Nat \subseteq X
<1> DEFINE R == {ss \in Nat \X Nat : ss[1] < ss[2]}
           T == Nat \ X
<1>1. IsWellFoundedOn(R, Nat)
  BY NatLessThanWellFounded DEF OpToRel
<1>2. T # {} => \E x \in T : \A y \in T : ~(<<y, x>> \in R)
  <2> HIDE DEF R
  <2> QED
    BY <1>1, WFMin
<1>3. ASSUME NEW x \in T, \A y \in T : ~(y < x) PROVE FALSE
  <2>1. x - 1 \in Nat /\ x - 1 \notin T
    BY <1>3
  <2> QED
    BY <2>1
<1> QED
  BY <1>2, <1>3

\* What a recursion over the places of a list asks of its solution f.
Solution(n, A, base, step, f) ==
  f \in [0..n -> A] /\ f[0] = base /\ \A i \in 1..n : f[i] = step[i][f[i - 1]]

LEMMA Recursion ==
  ASSUME NEW n \in Nat, NEW A, NEW base \in A, NEW step,
         \A i \in 1..n, a \in A : step[i][a] \in A
  PROVE  \E f : Solution(n, A, base, step, f)
<1> DEFINE Solved(m) == \E f : Solution(m, A, base, step, f)
           X == {m \in Nat : m <= n => Solved(m)}
<1>1. Solved(0)
  <2> DEFINE f == [i \in 0..0 |-> base]
  <2>1. f \in [0..0 -> A] /\ f[0] = base /\ \A i \in 1..0 : FALSE
    OBVIOUS
  <2> HIDE DEF f
  <2>2. Solution(0, A, base, step, f)
    BY <2>1 DEF Solution
  <2> QED
    BY <2>2
<1>2. ASSUME NEW m \in Nat, m + 1 <= n, Solved(m) PROVE Solved(m + 1)
  <2>0. PICK f : Solution(m, A, base, step, f)
    BY <1>2
  <2> DEFINE last == step[m + 1][f[m]]
             g == [i \in 0..m + 1 |-> IF i = m + 1 THEN last ELSE f[i]]
  <2>1. f \in [0..m -> A] /\ f[0] = base /\ \A i \in 1..m : f[i] = step[i][f[i - 1]]
    BY <2>0 DEF Solution
  <2>2. m + 1 \in 1..n /\ f[m] \in A
    BY <1>2, <2>1
  <2>3. last \in A
    BY <2>2
  <2>4. g \in [0..m + 1 -> A]
    BY <2>1, <2>3
  <2>5. g[0] = base /\ g[m + 1] = last /\ \A i \in 0..m : g[i] = f[i]
    BY <2>1
  <2> HIDE DEF g
  <2>6. ASSUME NEW i \in 1..m + 1 PROVE g[i] = step[i][g[i - 1]]
    <3>1. CASE i = m + 1
      <4>1. i - 1 = m /\ g[m] = f[m]
        BY <2>5, <3>1
      <4> QED
        BY <2>5, <3>1, <4>1
    <3>2. CASE i # m + 1
      <4>1. i \in 1..m /\ i \in 0..m /\ i - 1 \in 0..m
        BY <3>2
      <4>2. g[i] = f[i] /\ g[i - 1] = f[i - 1]
        BY <2>5, <4>1
      <4> QED
        BY <2>1, <4>1, <4>2
    <3> QED
      BY <3>1, <3>2
  <2>7. Solution(m + 1, A, base, step, g)
    BY <2>4, <2>5, <2>6 DEF Solution
  <2> QED
    BY <2>7
<1> HIDE DEF Solved
<1>3. Nat \subseteq X
  <2>1. X \in SUBSET Nat
    OBVIOUS
  <2>2. \A m \in X : m + 1 \in X
    BY <1>2
  <2>3. 0 \in X
    BY <1>1
  <2> HIDE DEF X
  <2> QED
    BY <2>1, <2>2, <2>3, Induction
<1>4. Solved(n)
  BY <1>3
<1> QED
  BY <1>4 DEF Solved

\* No entry is listed twice.
Once(s) == \A i, j \in DOMAIN s : s[i] = s[j] => i = j

LEMMA SetOf ==
  ASSUME NEW T, NEW s \in Seq(T)
  PROVE  /\ DOMAIN s = 1..Len(s) /\ ToSet(s) \subseteq T
         /\ \A x : x \in ToSet(s) <=> \E i \in 1..Len(s) : s[i] = x
BY DEF ToSet

LEMMA AppendFacts ==
  ASSUME NEW T, NEW s \in Seq(T), NEW e \in T
  PROVE  /\ Append(s, e) \in Seq(T) /\ ToSet(Append(s, e)) = ToSet(s) \cup {e}
         /\ Once(s) /\ e \notin ToSet(s) => Once(Append(s, e))
<1> DEFINE a == Append(s, e)
<1>1. /\ a \in Seq(T) /\ Len(a) = Len(s) + 1 /\ Len(s) \in Nat /\ a[Len(s) + 1] = e
      /\ \A i \in 1..Len(s) : a[i] = s[i]
  BY AppendProperties
<1> HIDE DEF a
<1>2. /\ DOMAIN a = 1..Len(a) /\ DOMAIN s = 1..Len(s)
      /\ \A x : x \in ToSet(s) <=> \E i \in 1..Len(s) : s[i] = x
      /\ \A x : x \in ToSet(a) <=> \E i \in 1..Len(a) : a[i] = x
  BY <1>1, SetOf
<1>3. \A i \in 1..Len(a) : i \in 1..Len(s) \/ i = Len(s) + 1
  BY <1>1
<1>4. \A i \in 1..Len(s) : i \in 1..Len(a)
  BY <1>1
<1>5. Len(s) + 1 \in 1..Len(a)
  BY <1>1
<1>6. ToSet(a) = ToSet(s) \cup {e}
  BY <1>1, <1>2, <1>3, <1>4, <1>5
<1>7. ASSUME Once(s), e \notin ToSet(s) PROVE Once(a)
  <2>1. ASSUME NEW i \in 1..Len(a), NEW j \in 1..Len(a), a[i] = a[j] PROVE i = j
    BY <1>1, <1>2, <1>3, <1>7, <2>1 DEF Once
  <2> QED
    BY <1>2, <2>1 DEF Once
<1> QED
  BY <1>1, <1>6, <1>7 DEF a

LEMMA KeptFacts ==
  ASSUME NEW T, NEW s \in Seq(T), NEW S
  PROVE  /\ Kept(s, S) \in Seq(T) /\ ToSet(Kept(s, S)) = ToSet(s) \cap S
         /\ Once(s) => Once(Kept(s, S))
<1> DEFINE Is(h) == h = [i \in 0..Len(s) |->
                           IF i = 0 THEN <<>>
                           ELSE IF s[i] \in S THEN Append(h[i - 1], s[i]) ELSE h[i - 1]]
           kept == CHOOSE h : Is(h)
           step == [i \in 1..Len(s) |->
                      [a \in Seq(T) |-> IF s[i] \in S THEN Append(a, s[i]) ELSE a]]
<1>1. Kept(s, S) = kept[Len(s)]
  BY DEF Kept
<1>2. Len(s) \in Nat
  OBVIOUS
<1>3. \E g : Is(g)
  <2> DEFINE n == Len(s)
             A == Seq(T)
             base == <<>>
  <2>1. n \in Nat /\ base \in A
    BY <1>2
  <2>2. ASSUME NEW i \in 1..n, NEW a \in A
        PROVE  step[i][a] = (IF s[i] \in S THEN Append(a, s[i]) ELSE a) /\ step[i][a] \in A
    OBVIOUS
  <2> HIDE DEF step, n, A, base
  <2>3. PICK g : Solution(n, A, base, step, g)
    BY <2>1, <2>2, Recursion
  <2>4. ASSUME NEW i \in 0..Len(s)
        PROVE  g[i] = IF i = 0 THEN <<>>
                      ELSE IF s[i] \in S THEN Append(g[i - 1], s[i]) ELSE g[i - 1]
    <3>0. g \in [0..n -> A] /\ g[0] = base /\ \A k \in 1..n : g[k] = step[k][g[k - 1]]
      BY <2>3 DEF Solution
    <3>1. CASE i = 0
      BY <3>0, <3>1 DEF base
    <3>2. CASE i # 0
      <4>1. i \in 1..n /\ g[i - 1] \in A
        BY <1>2, <3>0, <3>2 DEF n
      <4> QED
        BY <2>2, <3>0, <3>2, <4>1
    <3> QED
      BY <3>1, <3>2
  <2>5. g = [i \in 0..Len(s) |-> IF i = 0 THEN <<>>
                      ELSE IF s[i] \in S THEN Append(g[i - 1], s[i]) ELSE g[i - 1]]
    BY <2>3, <2>4, Zenon DEF Solution, n
  <2> QED
    BY <2>5
<1>4. Is(kept)
  BY <1>3
<1> HIDE DEF kept
<1> DEFINE Good(i) ==
             /\ kept[i] \in Seq(T)
             /\ \A x : x \in ToSet(kept[i]) <=> x \in S /\ \E q \in 1..i : s[q] = x
             /\ Once(s) => Once(kept[i])
           X == {i \in Nat : i <= Len(s) => Good(i)}
<1>5. 0 \in X
  <2>1. kept[0] = <<>>
    BY <1>2, <1>4
  <2>2. kept[0] \in Seq(T) /\ ToSet(kept[0]) = {} /\ Once(kept[0])
    BY <2>1 DEF ToSet, Once
  <2>3. 1..0 = {}
    OBVIOUS
  <2> QED
    BY <2>2, <2>3
<1>6. ASSUME NEW i \in Nat, i + 1 <= Len(s), Good(i) PROVE Good(i + 1)
  <2> DEFINE e == s[i + 1]
             a == kept[i]
             b == kept[i + 1]
  <2>1. b = (IF e \in S THEN Append(a, e) ELSE a) /\ i + 1 \in 1..Len(s) /\ e \in T
    <3>1. i + 1 \in 0..Len(s) /\ i + 1 # 0 /\ (i + 1) - 1 = i /\ i + 1 \in 1..Len(s)
      BY <1>2, <1>6
    <3>2. kept[i + 1] = IF s[i + 1] \in S THEN Append(kept[i], s[i + 1]) ELSE kept[i]
      BY <1>4, <3>1
    <3> QED
      BY <3>1, <3>2
  <2>2. a \in Seq(T)
    BY <1>6
  <2>3. \A q \in 1..i + 1 : q \in 1..i \/ q = i + 1
    OBVIOUS
  <2>4. \A q \in 1..i : q \in 1..i + 1 /\ q \in 1..Len(s) /\ q # i + 1
    BY <1>2, <1>6
  <2>5. \A x : x \in ToSet(a) <=> x \in S /\ \E q \in 1..i : s[q] = x
    BY <1>6
  <2>6. Once(s) => Once(a)
    BY <1>6
  <2>7. Once(s) => e \notin ToSet(a)
    BY <2>1, <2>4, <2>5 DEF Once
  <2>8. i + 1 \in 1..i + 1 /\ s[i + 1] = e
    OBVIOUS
  <2> HIDE DEF a, e, b
  <2>9. b \in Seq(T)
    BY <2>1, <2>2, AppendFacts
  <2>10. \A x : x \in ToSet(b) <=> x \in S /\ \E q \in 1..i + 1 : s[q] = x
    <3>1. \A x : (\E q \in 1..i + 1 : s[q] = x) <=> x = e \/ \E q \in 1..i : s[q] = x
      BY <2>3, <2>4, <2>8
    <3>2. CASE e \in S
      <4>1. ToSet(b) = ToSet(a) \cup {e}
        BY <2>1, <2>2, <3>2, AppendFacts
      <4> QED
        BY <2>5, <3>1, <3>2, <4>1
    <3>3. CASE e \notin S
      <4>1. ToSet(b) = ToSet(a)
        BY <2>1, <3>3
      <4> QED
        BY <2>5, <3>1, <3>3, <4>1
    <3> QED
      BY <3>2, <3>3
  <2>11. Once(s) => Once(b)
    BY <2>1, <2>2, <2>6, <2>7, AppendFacts
  <2> QED
    BY <2>9, <2>10, <2>11 DEF b
<1>7. Nat \subseteq X
  <2>1. X \in SUBSET Nat
    OBVIOUS
  <2>2. \A i \in X : i + 1 \in X
    <3> HIDE DEF Good
    <3> SUFFICES ASSUME NEW i \in X PROVE i + 1 \in X
      OBVIOUS
    <3>1. i \in Nat /\ i + 1 \in Nat
      OBVIOUS
    <3>2. i + 1 <= Len(s) => Good(i)
      BY <1>2
    <3>3. i + 1 <= Len(s) => Good(i + 1)
      BY <1>6, <3>1, <3>2
    <3> QED
      BY <3>1, <3>3
  <2> HIDE DEF X
  <2> QED
    BY <1>5, <2>1, <2>2, Induction
<1>8. Good(Len(s))
  <2> HIDE DEF Good
  <2> QED
    BY <1>2, <1>7
<1>9. \A x : x \in ToSet(s) <=> \E q \in 1..Len(s) : s[q] = x
  BY SetOf
<1>10. ToSet(Kept(s, S)) = ToSet(s) \cap S
  BY <1>1, <1>8, <1>9
<1> QED
  BY <1>1, <1>8, <1>10

LEMMA InsertFacts ==
  ASSUME NEW T, NEW s \in Seq(T), NEW e \in T, NEW p \in 1..Len(s) + 1
  PROVE  /\ InsertAt(s, p, e) \in Seq(T) /\ ToSet(InsertAt(s, p, e)) = ToSet(s) \cup {e}
         /\ Once(s) /\ e \notin ToSet(s) => Once(InsertAt(s, p, e))
<1> DEFINE u == SubSeq(s, 1, p - 1)
           v == SubSeq(s, p, Len(s))
           w == InsertAt(s, p, e)
<1>1. Len(s) \in Nat /\ p \in Nat /\ p >= 1 /\ p - 1 <= Len(s)
  OBVIOUS
<1>2. u \in Seq(T) /\ Len(u) = p - 1 /\ \A i \in 1..p - 1 : u[i] = s[i]
  <2>1. \A i \in 1..p - 1 : s[i] \in T
    BY <1>1
  <2> QED
    BY <1>1, <2>1, SubSeqProperties
<1>3. v \in Seq(T) /\ Len(v) = Len(s) - p + 1 /\ \A i \in 1..Len(s) - p + 1 : v[i] = s[p + i - 1]
  <2>1. \A i \in p..Len(s) : s[i] \in T
    BY <1>1
  <2> QED
    BY <1>1, <2>1, SubSeqProperties
<1>4. w = (u \o <<e>>) \o v
  BY DEF InsertAt
<1> HIDE DEF u, v, w
<1> DEFINE ue == u \o <<e>>
<1>5. /\ ue \in Seq(T) /\ Len(ue) = p /\ ue[p] = e
      /\ \A i \in 1..p - 1 : ue[i] = s[i]
  BY <1>1, <1>2
<1> HIDE DEF ue
<1>6. /\ w \in Seq(T) /\ Len(w) = Len(s) + 1
      /\ \A i \in 1..Len(s) + 1 : w[i] = IF i <= p THEN ue[i] ELSE v[i - p]
  <2>1. w = ue \o v
    BY <1>4 DEF ue
  <2>2. /\ ue \o v \in Seq(T) /\ Len(ue \o v) = Len(ue) + Len(v)
        /\ \A i \in 1..Len(ue) + Len(v) : (ue \o v)[i] = IF i <= Len(ue) THEN ue[i] ELSE v[i - Len(ue)]
    BY <1>3, <1>5, ConcatProperties
  <2>3. Len(ue) + Len(v) = Len(s) + 1
    BY <1>1, <1>3, <1>5
  <2> QED
    BY <1>5, <2>1, <2>2, <2>3
<1>7. \A i \in 1..Len(s) + 1 : w[i] = IF i < p THEN s[i] ELSE IF i = p THEN e ELSE s[i - 1]
  <2> TAKE i \in 1..Len(s) + 1
  <2>1. CASE i < p
    <3>1. i \in 1..p - 1
      BY <1>1, <2>1
    <3> QED
      BY <1>5, <1>6, <2>1, <3>1
  <2>2. CASE i = p
    BY <1>5, <1>6, <2>2
  <2>3. CASE i > p
    <3>1. i - p \in 1..Len(s) - p + 1 /\ p + (i - p) - 1 = i - 1 /\ ~(i <= p)
      BY <1>1, <2>3
    <3>2. v[i - p] = s[p + (i - p) - 1]
      BY <1>3, <3>1
    <3> QED
      BY <1>6, <2>3, <3>1, <3>2
  <2> QED
    BY <1>1, <2>1, <2>2, <2>3
<1>8. /\ DOMAIN w = 1..Len(s) + 1 /\ DOMAIN s = 1..Len(s)
      /\ \A x : x \in ToSet(s) <=> \E i \in 1..Len(s) : s[i] = x
      /\ \A x : x \in ToSet(w) <=> \E i \in 1..Len(s) + 1 : w[i] = x
  BY <1>6, SetOf
<1>9. ToSet(w) = ToSet(s) \cup {e}
  <2>1. ASSUME NEW x \in ToSet(w) PROVE x \in ToSet(s) \cup {e}
    <3>1. PICK i \in 1..Len(s) + 1 : w[i] = x
      BY <1>8, <2>1
    <3>2. i < p => i \in 1..Len(s)
      BY <1>1
    <3>3. i > p => i - 1 \in 1..Len(s)
      BY <1>1
    <3> QED
      BY <1>1, <1>7, <1>8, <3>1, <3>2, <3>3
  <2>2. e \in ToSet(w)
    BY <1>1, <1>7, <1>8
  <2>3. ASSUME NEW i \in 1..Len(s) PROVE s[i] \in ToSet(w)
    <3>1. CASE i < p
      <4>1. i \in 1..Len(s) + 1 /\ w[i] = s[i]
        BY <1>1, <1>7, <3>1
      <4> QED
        BY <1>8, <4>1
    <3>2. CASE ~(i < p)
      <4>1. i + 1 \in 1..Len(s) + 1 /\ ~(i + 1 < p) /\ i + 1 # p /\ (i + 1) - 1 = i
        BY <1>1, <3>2
      <4>2. w[i + 1] = s[i]
        BY <1>7, <4>1
      <4> QED
        BY <1>8, <4>1, <4>2
    <3> QED
      BY <3>1, <3>2
  <2> QED
    BY <1>8, <2>1, <2>2, <2>3
<1>10. ASSUME Once(s), e \notin ToSet(s) PROVE Once(w)
  <2>1. ASSUME NEW i \in 1..Len(s) + 1, NEW j \in 1..Len(s) + 1, w[i] = w[j], i < j
        PROVE  FALSE
    <3>1. \A k \in 1..Len(s) : s[k] # e
      BY <1>8, <1>10
    <3>2. \A k, l \in 1..Len(s) : s[k] = s[l] => k = l
      BY <1>8, <1>10 DEF Once
    <3>3. i < p => i \in 1..Len(s)
      BY <1>1
    <3>4. j < p => j \in 1..Len(s)
      BY <1>1
    <3>5. i > p => i - 1 \in 1..Len(s)
      BY <1>1
    <3>6. j > p => j - 1 \in 1..Len(s)
      BY <1>1
    <3>7. i \in Int /\ j \in Int /\ p \in Int /\ i < j
      BY <1>1, <2>1
    <3>8. w[i] = IF i < p THEN s[i] ELSE IF i = p THEN e ELSE s[i - 1]
      BY <1>7
    <3>9. w[j] = IF j < p THEN s[j] ELSE IF j = p THEN e ELSE s[j - 1]
      BY <1>7
    <3>10. CASE j < p
      <4>1. i < p /\ w[i] = s[i] /\ w[j] = s[j]
        BY <3>7, <3>8, <3>9, <3>10
      <4>2. i = j
        BY <2>1, <3>2, <3>3, <3>4, <3>10, <4>1
      <4> QED
        BY <2>1, <3>7, <4>2
    <3>11. CASE j = p
      <4>1. i < p /\ w[i] = s[i] /\ w[j] = e
        BY <3>7, <3>8, <3>9, <3>11
      <4> QED
        BY <2>1, <3>1, <3>3, <4>1
    <3>12. CASE p < j /\ i < p
      <4>1. w[i] = s[i] /\ w[j] = s[j - 1] /\ j - 1 # i
        BY <3>7, <3>8, <3>9, <3>12
      <4> QED
        BY <2>1, <3>2, <3>3, <3>6, <3>12, <4>1
    <3>13. CASE p < j /\ i = p
      <4>1. w[i] = e /\ w[j] = s[j - 1]
        BY <3>7, <3>8, <3>9, <3>13
      <4> QED
        BY <2>1, <3>1, <3>6, <3>13, <4>1
    <3>14. CASE p < i
      <4>1. w[i] = s[i - 1] /\ w[j] = s[j - 1] /\ j - 1 # i - 1 /\ p < j
        BY <3>7, <3>8, <3>9, <3>14
      <4> QED
        BY <2>1, <3>2, <3>5, <3>6, <3>14, <4>1
    <3> QED
      BY <2>1, <3>7, <3>10, <3>11, <3>12, <3>13, <3>14
  <2>2. ASSUME NEW i \in 1..Len(s) + 1, NEW j \in 1..Len(s) + 1, w[i] = w[j]
        PROVE  i = j
    <3>1. ~(i < j) /\ ~(j < i)
      BY <2>1, <2>2
    <3> QED
      BY <3>1
  <2> QED
    BY <1>8, <2>2 DEF Once
<1> QED
  BY <1>6, <1>9, <1>10 DEF w

-----------------------------------------------------------------------------
(* What the operators over the list and the events give back.                *)

LEMMA EnqueueType ==
  ASSUME NEW queue \in Seq(Event), NEW t \in Nat, NEW d \in 0..MaxId, MaxTime \in Nat
  PROVE  Enqueue(queue, t, d) \in Seq(Event)
<1> DEFINE e == [time |-> IF t > MaxTime THEN MaxTime ELSE t, id |-> d]
           earlier == {i \in DOMAIN queue : queue[i].time <= e.time}
           p == Cardinality(earlier) + 1
<1>1. e \in Event
  BY DEF Event
<1>2. p \in 1..Len(queue) + 1
  <2> DEFINE n == Len(queue)
  <2>0. n \in Nat /\ earlier \in SUBSET (1..n)
    OBVIOUS
  <2>1. IsFiniteSet(1..n) /\ Cardinality(1..n) = n
    <3> HIDE DEF n
    <3> QED
      BY <2>0, FS_Interval
  <2>2. Cardinality(earlier) \in Nat /\ Cardinality(earlier) <= n
    <3> HIDE DEF earlier, n
    <3> QED
      BY <2>0, <2>1, FS_Subset, FS_CardinalityType
  <2> HIDE DEF earlier
  <2> QED
    BY <2>0, <2>2
<1>3. Enqueue(queue, t, d) = queue \/ Enqueue(queue, t, d) = InsertAt(queue, p, e)
  BY DEF Enqueue
<1> HIDE DEF e, p
<1> QED
  BY <1>1, <1>2, <1>3, InsertFacts

LEMMA ListedFacts ==
  ASSUME list \in Seq(Ids), NEW d \in Ids, NEW start
  PROVE  /\ Listed(d, start) \in Seq(Ids) /\ ToSet(Listed(d, start)) = Live \cup {d}
         /\ Once(list) /\ d \notin Live => Once(Listed(d, start))
<1> DEFINE earlier == {i \in DOMAIN list : info[list[i]].start <= start}
           p == Cardinality(earlier) + 1
<1>1. p \in 1..Len(list) + 1
  <2> DEFINE n == Len(list)
  <2>0. n \in Nat /\ earlier \in SUBSET (1..n)
    OBVIOUS
  <2>1. IsFiniteSet(1..n) /\ Cardinality(1..n) = n
    <3> HIDE DEF n
    <3> QED
      BY <2>0, FS_Interval
  <2>2. Cardinality(earlier) \in Nat /\ Cardinality(earlier) <= n
    <3> HIDE DEF earlier, n
    <3> QED
      BY <2>0, <2>1, FS_Subset, FS_CardinalityType
  <2> HIDE DEF earlier
  <2> QED
    BY <2>0, <2>2
<1>2. Listed(d, start) = InsertAt(list, p, d)
  BY DEF Listed
<1> HIDE DEF p
<1> QED
  BY <1>1, <1>2, InsertFacts DEF Live

\* What is read again was in the list, each entry once.
LEMMA LoadedFacts ==
  ASSUME list \in Seq(Ids)
  PROVE  /\ Loaded \in Seq(Ids) /\ ToSet(Loaded) \subseteq Live
         /\ Once(list) => Once(Loaded)
<1> DEFINE Is(h) == h = [i \in 0..Len(list) |->
                           IF i = 0 THEN <<>>
                           ELSE IF info[list[i]].by \in {0} \cup ToSet(h[i - 1])
                                THEN Append(h[i - 1], list[i]) ELSE h[i - 1]]
           read == CHOOSE h : Is(h)
           step == [i \in 1..Len(list) |->
                      [a \in Seq(Ids) |-> IF info[list[i]].by \in {0} \cup ToSet(a)
                                          THEN Append(a, list[i]) ELSE a]]
<1>1. Loaded = read[Len(list)]
  BY DEF Loaded
<1>2. Len(list) \in Nat
  OBVIOUS
<1>3. \E g : Is(g)
  <2> DEFINE n == Len(list)
             A == Seq(Ids)
             base == <<>>
  <2>1. n \in Nat /\ base \in A
    BY <1>2
  <2>2. ASSUME NEW i \in 1..n, NEW a \in A
        PROVE  /\ step[i][a] = (IF info[list[i]].by \in {0} \cup ToSet(a)
                                THEN Append(a, list[i]) ELSE a)
               /\ step[i][a] \in A
    OBVIOUS
  <2> HIDE DEF step, n, A, base
  <2>3. PICK g : Solution(n, A, base, step, g)
    BY <2>1, <2>2, Recursion
  <2>4. ASSUME NEW i \in 0..Len(list)
        PROVE  g[i] = IF i = 0 THEN <<>>
                      ELSE IF info[list[i]].by \in {0} \cup ToSet(g[i - 1])
                           THEN Append(g[i - 1], list[i]) ELSE g[i - 1]
    <3>0. g \in [0..n -> A] /\ g[0] = base /\ \A k \in 1..n : g[k] = step[k][g[k - 1]]
      BY <2>3 DEF Solution
    <3>1. CASE i = 0
      BY <3>0, <3>1 DEF base
    <3>2. CASE i # 0
      <4>1. i \in 1..n /\ g[i - 1] \in A
        BY <1>2, <3>0, <3>2 DEF n
      <4> QED
        BY <2>2, <3>0, <3>2, <4>1
    <3> QED
      BY <3>1, <3>2
  <2>5. g = [i \in 0..Len(list) |->
               IF i = 0 THEN <<>>
               ELSE IF info[list[i]].by \in {0} \cup ToSet(g[i - 1])
                    THEN Append(g[i - 1], list[i]) ELSE g[i - 1]]
    BY <2>3, <2>4, Zenon DEF Solution, n
  <2> QED
    BY <2>5
<1>4. Is(read)
  BY <1>3
<1> HIDE DEF read
<1> DEFINE Good(i) ==
             /\ read[i] \in Seq(Ids)
             /\ \A x \in ToSet(read[i]) : \E q \in 1..i : list[q] = x
             /\ Once(list) => Once(read[i])
           X == {i \in Nat : i <= Len(list) => Good(i)}
<1>5. 0 \in X
  <2>1. read[0] = <<>>
    BY <1>2, <1>4
  <2>2. read[0] \in Seq(Ids) /\ ToSet(read[0]) = {} /\ Once(read[0])
    BY <2>1 DEF ToSet, Once
  <2> QED
    BY <2>2
<1>6. ASSUME NEW i \in Nat, i + 1 <= Len(list), Good(i) PROVE Good(i + 1)
  <2> DEFINE e == list[i + 1]
             a == read[i]
             b == read[i + 1]
  <2>1. b \in {a, Append(a, e)} /\ i + 1 \in 1..Len(list) /\ e \in Ids
    <3>1. i + 1 \in 0..Len(list) /\ i + 1 # 0 /\ (i + 1) - 1 = i /\ i + 1 \in 1..Len(list)
      BY <1>2, <1>6
    <3>2. read[i + 1] = IF info[list[i + 1]].by \in {0} \cup ToSet(read[i])
                        THEN Append(read[i], list[i + 1]) ELSE read[i]
      BY <1>4, <3>1
    <3> QED
      BY <3>1, <3>2
  <2>2. a \in Seq(Ids) /\ (Once(list) => Once(a))
    BY <1>6
  <2>3. \A x \in ToSet(a) : \E q \in 1..i : list[q] = x
    BY <1>6
  <2>4. \A q \in 1..i : q \in 1..i + 1 /\ q \in 1..Len(list) /\ q # i + 1
    BY <1>2, <1>6
  <2>5. Once(list) => e \notin ToSet(a)
    BY <2>1, <2>3, <2>4 DEF Once
  <2>6. i + 1 \in 1..i + 1 /\ list[i + 1] = e
    OBVIOUS
  <2> HIDE DEF a, e, b
  <2>7. CASE b = Append(a, e)
    <3>1. /\ b \in Seq(Ids) /\ ToSet(b) = ToSet(a) \cup {e}
          /\ Once(a) /\ e \notin ToSet(a) => Once(b)
      BY <2>1, <2>2, <2>7, AppendFacts
    <3>2. \A x \in ToSet(b) : \E q \in 1..i + 1 : list[q] = x
      BY <2>3, <2>4, <2>6, <3>1
    <3> QED
      BY <2>2, <2>5, <3>1, <3>2 DEF b
  <2>8. CASE b = a
    <3>1. \A x \in ToSet(b) : \E q \in 1..i + 1 : list[q] = x
      BY <2>3, <2>4, <2>8
    <3> QED
      BY <2>2, <2>8, <3>1 DEF b
  <2> QED
    BY <2>1, <2>7, <2>8
<1> HIDE DEF Good
<1>7. Nat \subseteq X
  <2>1. X \in SUBSET Nat
    OBVIOUS
  <2>2. \A i \in X : i + 1 \in X
    <3> SUFFICES ASSUME NEW i \in X PROVE i + 1 \in X
      OBVIOUS
    <3>1. i \in Nat /\ i + 1 \in Nat
      OBVIOUS
    <3>2. i + 1 <= Len(list) => Good(i)
      BY <1>2
    <3>3. i + 1 <= Len(list) => Good(i + 1)
      BY <1>6, <3>1, <3>2
    <3> QED
      BY <3>1, <3>3
  <2> HIDE DEF X
  <2> QED
    BY <1>5, <2>1, <2>2, Induction
<1>8. Good(Len(list))
  BY <1>2, <1>7
<1>9. \A x : x \in Live <=> \E q \in 1..Len(list) : list[q] = x
  BY SetOf DEF Live
<1> QED
  BY <1>1, <1>8, <1>9 DEF Good

\* The start events queued for what was read are events.
LEMMA RequeuedType ==
  ASSUME Loaded \in Seq(Ids), info \in [Ids -> Request], MaxTime \in Nat, MaxId \in Nat
  PROVE  Requeued \in Seq(Event)
<1> DEFINE Is(h) == h = [i \in 0..Len(Loaded) |->
                           IF i = 0 THEN <<>>
                           ELSE IF info[Loaded[i]].by = 0
                                THEN Enqueue(h[i - 1], info[Loaded[i]].start, Loaded[i])
                                ELSE h[i - 1]]
           queued == CHOOSE h : Is(h)
           step == [i \in 1..Len(Loaded) |->
                      [a \in Seq(Event) |->
                         IF info[Loaded[i]].by = 0
                         THEN Enqueue(a, info[Loaded[i]].start, Loaded[i]) ELSE a]]
<1>1. Requeued = queued[Len(Loaded)]
  BY DEF Requeued
<1> DEFINE n == Len(Loaded)
           A == Seq(Event)
           base == <<>>
<1>2. n \in Nat /\ base \in A
  OBVIOUS
<1>3. ASSUME NEW i \in 1..n, NEW a \in A
      PROVE  Enqueue(a, info[Loaded[i]].start, Loaded[i]) \in A
  <2>1. Loaded[i] \in Ids
    OBVIOUS
  <2>2. Loaded[i] \in 0..MaxId
    BY <2>1 DEF Ids
  <2>3. info[Loaded[i]].start \in Nat
    BY <2>1 DEF Request
  <2> DEFINE t == info[Loaded[i]].start
             d == Loaded[i]
  <2>4. t \in Nat /\ d \in 0..MaxId
    BY <2>2, <2>3
  <2> HIDE DEF t, d
  <2>5. Enqueue(a, t, d) \in A
    BY <2>4, EnqueueType
  <2> QED
    BY <2>5 DEF t, d
<1>4. \E g : Is(g)
  <2>2. ASSUME NEW i \in 1..n, NEW a \in A
        PROVE  /\ step[i][a] = (IF info[Loaded[i]].by = 0
                                THEN Enqueue(a, info[Loaded[i]].start, Loaded[i]) ELSE a)
               /\ step[i][a] \in A
    BY <1>3
  <2> HIDE DEF step, n, A, base
  <2>3. PICK g : Solution(n, A, base, step, g)
    BY <1>2, <2>2, Recursion
  <2>4. ASSUME NEW i \in 0..Len(Loaded)
        PROVE  g[i] = IF i = 0 THEN <<>>
                      ELSE IF info[Loaded[i]].by = 0
                           THEN Enqueue(g[i - 1], info[Loaded[i]].start, Loaded[i])
                           ELSE g[i - 1]
    <3>0. g \in [0..n -> A] /\ g[0] = base /\ \A k \in 1..n : g[k] = step[k][g[k - 1]]
      BY <2>3 DEF Solution
    <3>1. CASE i = 0
      BY <3>0, <3>1 DEF base
    <3>2. CASE i # 0
      <4>1. i \in 1..n /\ g[i - 1] \in A
        BY <1>2, <3>0, <3>2 DEF n
      <4> QED
        BY <2>2, <3>0, <3>2, <4>1
    <3> QED
      BY <3>1, <3>2
  <2>5. g = [i \in 0..Len(Loaded) |->
               IF i = 0 THEN <<>>
               ELSE IF info[Loaded[i]].by = 0
                    THEN Enqueue(g[i - 1], info[Loaded[i]].start, Loaded[i])
                    ELSE g[i - 1]]
    BY <2>3, <2>4, Zenon DEF Solution, n
  <2> QED
    BY <2>5
<1>5. Is(queued)
  BY <1>4
<1> HIDE DEF queued
<1> DEFINE Good(i) == queued[i] \in Seq(Event)
           X == {i \in Nat : i <= n => Good(i)}
<1>6. Good(0)
  BY <1>2, <1>5
<1>7. ASSUME NEW i \in Nat, i + 1 <= n, Good(i) PROVE Good(i + 1)
  <2>1. i + 1 \in 0..n /\ i + 1 # 0 /\ (i + 1) - 1 = i /\ i + 1 \in 1..n
    BY <1>2, <1>7
  <2>2. queued[i + 1] = IF info[Loaded[i + 1]].by = 0
                        THEN Enqueue(queued[i], info[Loaded[i + 1]].start, Loaded[i + 1])
                        ELSE queued[i]
    BY <1>5, <2>1
  <2>3. Enqueue(queued[i], info[Loaded[i + 1]].start, Loaded[i + 1]) \in Seq(Event)
    BY <1>3, <1>7, <2>1
  <2> QED
    BY <1>7, <2>2, <2>3
<1> HIDE DEF Good, n
<1>8. Nat \subseteq X
  <2>1. X \in SUBSET Nat /\ 0 \in X
    BY <1>6
  <2>2. \A i \in X : i + 1 \in X
    BY <1>2, <1>7
  <2> HIDE DEF X
  <2> QED
    BY <2>1, <2>2, Induction
<1> QED
  BY <1>1, <1>2, <1>8 DEF Good, n

\* A list sorted again has the same entries, each as often as before: once.
LEMMA SortedFacts ==
  ASSUME NEW s \in Seq(Ids), Once(s), NEW t \in Sorted(s)
  PROVE  t \in Seq(Ids) /\ ToSet(t) = ToSet(s) /\ Once(t)
<1> DEFINE n == Len(s)
           D == 1..n
           R == ToSet(s)
<1>1. n \in Nat /\ DOMAIN s = D /\ R \subseteq Ids
  BY SetOf
<1>2. t \in [D -> R] /\ ToSet(t) = R
  BY <1>1, Zenon DEF Sorted
<1>3. t \in Seq(Ids)
  <2>1. t \in [1..n -> Ids]
    BY <1>1, <1>2
  <2> HIDE DEF n
  <2> QED
    BY <1>1, <2>1
<1>4. \A x : x \in R <=> \E i \in D : s[i] = x
  BY SetOf
<1>5. \A x : x \in R <=> \E i \in D : t[i] = x
  BY <1>2 DEF ToSet
<1>6. IsFiniteSet(D) /\ Cardinality(D) = n
  BY <1>1, FS_Interval
<1>7. s \in [D -> R]
  BY <1>1, <1>4
<1>8. \A i, j \in D : s[i] = s[j] => i = j
  BY <1>1 DEF Once
<1> HIDE DEF n, D, R
<1>9. s \in Bijection(D, R)
  BY <1>4, <1>7, <1>8 DEF Bijection, Injection, Surjection, IsInjective
<1>10. Cardinality(R) = Cardinality(D)
  <2>1. ExistsBijection(D, R)
    BY <1>9 DEF ExistsBijection
  <2> QED
    BY <1>6, <2>1, FS_Bijection
<1>11. t \in Surjection(D, R)
  BY <1>2, <1>5 DEF Surjection
<1>12. t \in Injection(D, R)
  BY <1>6, <1>10, <1>11, FS_SurjSameCardinalityImpliesInj
<1>13. \A i, j \in D : t[i] = t[j] => i = j
  BY <1>12 DEF Injection, IsInjective
<1>14. DOMAIN t = D
  BY <1>2
<1> QED
  BY <1>2, <1>3, <1>13, <1>14 DEF Once, R

LEMMA ValidatedFacts ==
  ASSUME NEW s \in Seq(Ids), Once(s)
  PROVE  Validated(s) \in Seq(Ids) /\ ToSet(Validated(s)) \subseteq ToSet(s) /\ Once(Validated(s))
<1> DEFINE Y == {d \in Ids : info[d].end >= now}
           young == Kept(s, Y)
<1>1. \E L : Validated(s) = Kept(young, L)
  BY DEF Validated
<1>2. PICK L : Validated(s) = Kept(young, L)
  BY <1>1
<1> HIDE DEF Y
<1>3. young \in Seq(Ids) /\ ToSet(young) \subseteq ToSet(s) /\ Once(young)
  BY KeptFacts
<1> HIDE DEF young
<1>4. /\ Kept(young, L) \in Seq(Ids) /\ ToSet(Kept(young, L)) \subseteq ToSet(young)
      /\ Once(Kept(young, L))
  BY <1>3, KeptFacts
<1> QED
  BY <1>2, <1>3, <1>4

-----------------------------------------------------------------------------
(* The downtimes in effect are counted.                                      *)

\* What the counting needs to know of the types.
Typed ==
  /\ depth \in [Objects -> Int] /\ told \in [Objects -> BOOLEAN]
  /\ nextId \in 1 .. MaxId + 1
  /\ info \in [Ids -> Request] /\ inEffect \in [Ids -> BOOLEAN]

\* Only downtimes that were scheduled take effect.
GivenOnly == \A d \in Ids : inEffect[d] => d < nextId

Inv == Typed /\ GivenOnly /\ DepthExact

counted == <<depth, told, nextId, info, inEffect>>

USE DowntimeAssumption

LEMMA GivenIds == Typed => Given \subseteq Ids
BY DEF Typed, Given, Ids

LEMMA Finite == \A o : IsFiniteSet(InEffect(o))
<1>1. IsFiniteSet(Ids)
  BY FS_Interval DEF Ids
<1>2. \A o : InEffect(o) \in SUBSET Ids
  BY DEF InEffect, On
<1> QED
  BY <1>1, <1>2, FS_Subset

LEMMA InitInv == Init => Inv
<1> SUFFICES ASSUME Init PROVE Inv
  OBVIOUS
<1>1. Typed
  <2> DEFINE any == CHOOSE o \in Objects : TRUE
             none == [obj |-> any, fixed |-> TRUE, by |-> 0, start |-> 0, end |-> 0]
  <2>1. info \in [Ids -> {none}]
    BY DEF Init
  <2>2. info \in [Ids -> Request]
    <3>1. any \in Objects
      OBVIOUS
    <3> HIDE DEF any
    <3>2. none \in Request
      BY <3>1 DEF Request
    <3> HIDE DEF none
    <3> QED
      BY <2>1, <3>2
  <2> QED
    BY <2>2 DEF Init, Typed
<1>2. GivenOnly
  BY DEF Init, GivenOnly
<1>3. ASSUME NEW o \in Objects
      PROVE  depth[o] = Cardinality(InEffect(o)) /\ (told[o] <=> InEffect(o) # {})
  <2>1. InEffect(o) = {}
    BY DEF Init, InEffect, On
  <2> QED
    BY <2>1, FS_EmptySet DEF Init
<1> QED
  BY <1>1, <1>2, <1>3 DEF Inv, DepthExact

-----------------------------------------------------------------------------
(* A downtime takes effect: the set of one object grows by it.               *)
LEMMA TakesEffect ==
  ASSUME Inv, NEW d \in Given, ~inEffect[d],
         UNCHANGED <<nextId, info>>,
         inEffect' = [inEffect EXCEPT ![d] = TRUE],
         depth' = [depth EXCEPT ![info[d].obj] = @ + 1],
         told' = [told EXCEPT ![info[d].obj] = @ \/ depth[info[d].obj] = 0]
  PROVE  Inv'
<1>1. d \in Ids /\ d < nextId
  BY GivenIds DEF Inv, Typed, Given
<1>2. info[d].obj \in Objects
  BY <1>1 DEF Inv, Typed, Request
<1>3. Typed'
  <2>1. depth' \in [Objects -> Int] /\ told' \in [Objects -> BOOLEAN]
    BY <1>2 DEF Inv, Typed
  <2>2. inEffect' \in [Ids -> BOOLEAN]
    BY DEF Inv, Typed
  <2> QED
    BY <2>1, <2>2 DEF Inv, Typed
<1>4. GivenOnly'
  BY <1>1 DEF Inv, Typed, GivenOnly
<1>5. ASSUME NEW o \in Objects
      PROVE  depth'[o] = Cardinality(InEffect(o)') /\ (told'[o] <=> InEffect(o)' # {})
  <2>1. CASE info[d].obj = o
    <3>1. InEffect(o)' = InEffect(o) \cup {d} /\ d \notin InEffect(o)
      BY <1>1, <2>1 DEF InEffect, On, Inv, Typed
    <3>2. Cardinality(InEffect(o)') = Cardinality(InEffect(o)) + 1
      BY <3>1, Finite, FS_AddElement
    <3>3. depth'[o] = depth[o] + 1 /\ (told'[o] <=> told[o] \/ depth[o] = 0)
      BY <2>1 DEF Inv, Typed
    <3>4. depth[o] = Cardinality(InEffect(o)) /\ (told[o] <=> InEffect(o) # {})
      BY DEF Inv, DepthExact
    <3>5. told'[o]
      BY <3>3, <3>4, Finite, FS_EmptySet
    <3> QED
      BY <3>1, <3>2, <3>3, <3>4, <3>5
  <2>2. CASE info[d].obj # o
    <3>1. InEffect(o)' = InEffect(o)
      BY <1>1, <2>2 DEF InEffect, On, Inv, Typed
    <3>2. depth'[o] = depth[o] /\ told'[o] = told[o]
      BY <2>2 DEF Inv, Typed
    <3> QED
      BY <3>1, <3>2 DEF Inv, DepthExact
  <2> QED
    BY <2>1, <2>2
<1> QED
  BY <1>3, <1>4, <1>5 DEF Inv, DepthExact

(* A downtime is no longer in effect: the set of one object loses it.        *)
LEMMA LosesEffect ==
  ASSUME Inv, NEW d \in Given, inEffect[d],
         UNCHANGED <<nextId, info>>,
         inEffect' = [inEffect EXCEPT ![d] = FALSE],
         depth' = [depth EXCEPT ![info[d].obj] = @ - 1],
         told' = [told EXCEPT ![info[d].obj] = @ /\ depth'[info[d].obj] # 0]
  PROVE  Inv'
<1>1. d \in Ids
  BY GivenIds DEF Inv
<1>2. info[d].obj \in Objects
  BY <1>1 DEF Inv, Typed, Request
<1>3. Typed'
  <2>1. depth' \in [Objects -> Int]
    BY <1>2 DEF Inv, Typed
  <2>2. told' \in [Objects -> BOOLEAN]
    BY <1>2, ZenonT(60) DEF Inv, Typed
  <2>3. inEffect' \in [Ids -> BOOLEAN]
    BY DEF Inv, Typed
  <2> QED
    BY <2>1, <2>2, <2>3 DEF Inv, Typed
<1>4. GivenOnly'
  BY DEF Inv, Typed, GivenOnly
<1>5. ASSUME NEW o \in Objects
      PROVE  depth'[o] = Cardinality(InEffect(o)') /\ (told'[o] <=> InEffect(o)' # {})
  <2>1. CASE info[d].obj = o
    <3>1. InEffect(o)' = InEffect(o) \ {d} /\ d \in InEffect(o)
      BY <1>1, <2>1 DEF InEffect, On, Inv, Typed
    <3>2. Cardinality(InEffect(o)') = Cardinality(InEffect(o)) - 1
      <4>1. IsFiniteSet(InEffect(o))
        BY Finite
      <4>2. Cardinality(InEffect(o) \ {d}) = Cardinality(InEffect(o)) - 1
        BY ONLY <4>1, <3>1, FS_RemoveElement
      <4> QED
        BY ONLY <3>1, <4>2
    <3>3. depth'[o] = depth[o] - 1 /\ (told'[o] <=> told[o] /\ depth'[o] # 0)
      BY <2>1 DEF Inv, Typed
    <3>4. depth[o] = Cardinality(InEffect(o)) /\ (told[o] <=> InEffect(o) # {})
      BY DEF Inv, DepthExact
    <3>5. depth'[o] = Cardinality(InEffect(o)')
      BY <3>2, <3>3, <3>4
    <3>6. IsFiniteSet(InEffect(o)')
      BY <3>1, Finite, FS_RemoveElement
    <3>7. depth'[o] = 0 <=> InEffect(o)' = {}
      BY <3>5, <3>6, FS_EmptySet
    <3>8. told[o]
      BY <3>1, <3>4
    <3> QED
      BY <3>3, <3>5, <3>7, <3>8
  <2>2. CASE info[d].obj # o
    <3>1. InEffect(o)' = InEffect(o)
      BY <1>1, <2>2 DEF InEffect, On, Inv, Typed
    <3>2. depth'[o] = depth[o] /\ told'[o] = told[o]
      BY <2>2 DEF Inv, Typed
    <3> QED
      BY <3>1, <3>2 DEF Inv, DepthExact
  <2> QED
    BY <2>1, <2>2
<1> QED
  BY <1>3, <1>4, <1>5 DEF Inv, DepthExact

LEMMA NothingCounted == Inv /\ UNCHANGED counted => Inv'
<1> SUFFICES ASSUME Inv, UNCHANGED counted PROVE Inv'
  OBVIOUS
<1>1. \A o : InEffect(o)' = InEffect(o)
  BY DEF InEffect, On, counted
<1> QED
  BY <1>1 DEF Inv, Typed, GivenOnly, DepthExact, counted

-----------------------------------------------------------------------------
LEMMA HandleInv == Inv /\ (\E d \in Given : HandleStart(d) \/ HandleEnd(d)) => Inv'
<1> SUFFICES ASSUME Inv, NEW d \in Given, HandleStart(d) \/ HandleEnd(d) PROVE Inv'
  OBVIOUS
<1>1. CASE HandleStart(d)
  BY <1>1, TakesEffect DEF HandleStart
<1>2. CASE HandleEnd(d)
  BY <1>2, LosesEffect DEF HandleEnd
<1> QED
  BY <1>1, <1>2

LEMMA UnscheduleInv == Inv /\ (\E d \in Given : Unschedule(d)) => Inv'
<1> SUFFICES ASSUME Inv, NEW d \in Given, Unschedule(d) PROVE Inv'
  OBVIOUS
<1>0. d \in Ids
  BY GivenIds DEF Inv
<1>1. CASE d \in Live /\ inEffect[d]
  <2>1. /\ UNCHANGED <<nextId, info>>
        /\ inEffect' = [inEffect EXCEPT ![d] = FALSE]
        /\ depth' = [depth EXCEPT ![info[d].obj] = @ - 1]
    BY <1>1 DEF Unschedule
  <2>2. told' = [told EXCEPT ![info[d].obj] = @ /\ depth'[info[d].obj] # 0]
    BY <1>1, ZenonT(60) DEF Unschedule
  <2> QED
    BY <1>1, <2>1, <2>2, LosesEffect
<1>2. CASE d \in Live /\ ~inEffect[d]
  <2>1. inEffect' = inEffect
    <3>1. inEffect \in [Ids -> BOOLEAN] /\ inEffect[d] = FALSE
      BY <1>0, <1>2 DEF Inv, Typed
    <3>2. inEffect' = [inEffect EXCEPT ![d] = FALSE]
      BY <1>2 DEF Unschedule
    <3> QED
      BY <3>1, <3>2
  <2>2. depth' = depth
    BY <1>2 DEF Unschedule, Inv, Typed
  <2>3. told' = told
    <3>1. told \in [Objects -> BOOLEAN]
      BY DEF Inv, Typed
    <3>2. told' = [told EXCEPT ![info[d].obj] = told[info[d].obj]]
      <4>1. (told[info[d].obj] /\ ~(inEffect[d] /\ depth'[info[d].obj] = 0))
              = told[info[d].obj]
        BY <1>0, <1>2, <3>1, ZenonT(60) DEF Inv, Typed, Request
      <4>2. told' = [told EXCEPT ![info[d].obj] =
                       @ /\ ~(inEffect[d] /\ depth'[info[d].obj] = 0)]
        BY <1>2 DEF Unschedule
      <4> QED
        BY <4>1, <4>2, Zenon
    <3> QED
      BY <3>1, <3>2
  <2> QED
    BY <1>2, <2>1, <2>2, <2>3, NothingCounted DEF Unschedule, counted
<1>3. CASE d \notin Live
  BY <1>3, NothingCounted DEF Unschedule, counted, objectVars
<1> QED
  BY <1>1, <1>2, <1>3

LEMMA ScheduleInv ==
  ASSUME Inv, NEW o \in Objects, NEW fixed \in BOOLEAN, NEW by \in 0 .. MaxId,
         NEW w \in Windows, Schedule(o, fixed, by, w)
  PROVE  Inv'
<1>0. nextId \in Ids /\ nextId' = nextId + 1 /\ w[1] \in Nat /\ w[2] \in Nat
      /\ UNCHANGED <<depth, told, inEffect>>
  BY DEF Schedule, objectVars
<1>1. ~inEffect[nextId]
  BY <1>0 DEF Inv, GivenOnly, Ids
<1>2. info' \in [Ids -> Request]
      /\ \A d \in Ids \ {nextId} : info'[d] = info[d]
  <2>1. [obj |-> o, fixed |-> fixed, by |-> by, start |-> w[1], end |-> w[2]] \in Request
    BY <1>0 DEF Request
  <2> QED
    BY <1>0, <2>1 DEF Schedule, Inv, Typed
<1>3. \A x : InEffect(x)' = InEffect(x)
  BY <1>0, <1>1, <1>2 DEF InEffect, On
<1>4. Typed'
  BY <1>0, <1>2 DEF Inv, Typed, Ids
<1>5. GivenOnly'
  BY <1>0 DEF Inv, Typed, GivenOnly, Ids
<1>6. DepthExact'
  BY <1>0, <1>3 DEF Inv, DepthExact
<1> QED
  BY <1>4, <1>5, <1>6 DEF Inv

LEMMA RestartInv == Inv /\ Restart => Inv'
<1> SUFFICES ASSUME Inv, Restart PROVE Inv'
  OBVIOUS
<1>1. Typed' /\ GivenOnly'
  <2>1. /\ depth' = [o \in Objects |-> 0] /\ told' = [o \in Objects |-> FALSE]
        /\ inEffect' = [d \in Ids |-> FALSE] /\ UNCHANGED <<nextId, info>>
    BY Zenon DEF Restart
  <2>2. depth' \in [Objects -> Int] /\ told' \in [Objects -> BOOLEAN]
        /\ inEffect' \in [Ids -> BOOLEAN]
    BY <2>1
  <2> QED
    BY <2>1, <2>2 DEF Inv, Typed, GivenOnly
<1>2. \A o : InEffect(o)' = {}
  BY Zenon DEF Restart, InEffect, On
<1>3. DepthExact'
  BY <1>2, FS_EmptySet, Zenon DEF DepthExact, Restart
<1> QED
  BY <1>1, <1>3 DEF Inv

(* The other steps touch nothing that is counted.                            *)
LEMMA OtherSteps ==
  ASSUME \/ \E d \in Given : HandleWait(d) \/ HandleStopTriggered(d) \/ HandleStopped(d)
         \/ Sweep
         \/ \E d \in Given : Cancel(d)
         \/ \E o \in Objects : CancelAll(o)
         \/ \E o \in Objects : Recover(o) \/ \E hard \in BOOLEAN : Problem(o, hard)
         \/ Tick \/ RunDowntimeEvent \/ RunExpireEvent
  PROVE  UNCHANGED counted
<1> USE DEF counted, objectVars, downtimeVars
<1>1. ASSUME NEW d, HandleWait(d) PROVE UNCHANGED counted
  BY <1>1 DEF HandleWait
<1>2. ASSUME NEW d, HandleStopTriggered(d) \/ HandleStopped(d) PROVE UNCHANGED counted
  BY <1>2 DEF HandleStopTriggered, HandleStopped
<1>3. CASE Sweep
  BY <1>3 DEF Sweep
<1>4. ASSUME NEW d, Cancel(d) \/ CancelAll(d) PROVE UNCHANGED counted
  BY <1>4 DEF Cancel, CancelAll
<1>5. ASSUME NEW o, NEW hard, Recover(o) \/ Problem(o, hard) PROVE UNCHANGED counted
  BY <1>5 DEF Recover, Problem
<1>6. CASE Tick \/ RunDowntimeEvent \/ RunExpireEvent
  BY <1>6 DEF Tick, RunDowntimeEvent, RunExpireEvent
<1> QED
  BY <1>1, <1>2, <1>3, <1>4, <1>5, <1>6

LEMMA StepInv == Inv /\ [Next]_vars => Inv'
<1> SUFFICES ASSUME Inv, [Next]_vars PROVE Inv'
  OBVIOUS
<1>1. CASE \E d \in Given : HandleStart(d) \/ HandleEnd(d)
  BY <1>1, HandleInv
<1>2. CASE \E d \in Given : Unschedule(d)
  BY <1>2, UnscheduleInv
<1>3. CASE \E o \in Objects, k \in Kinds, w \in Windows :
             \E by \in IF k.triggered THEN Given ELSE {0} :
               Schedule(o, k.fixed, by, w)
  <2>1. PICK o \in Objects, k \in Kinds, w \in Windows :
             \E by \in IF k.triggered THEN Given ELSE {0} : Schedule(o, k.fixed, by, w)
    BY <1>3
  <2>2. PICK by \in IF k.triggered THEN Given ELSE {0} : Schedule(o, k.fixed, by, w)
    BY <2>1
  <2>3. k.fixed \in BOOLEAN /\ by \in 0 .. MaxId
    BY GivenIds DEF Inv, Ids
  <2> QED
    BY <2>2, <2>3, ScheduleInv
<1>4. CASE Restart
  BY <1>4, RestartInv
<1>5. CASE UNCHANGED counted
  BY <1>5, NothingCounted
<1>6. CASE UNCHANGED vars
  BY <1>6, NothingCounted DEF vars, counted
<1> QED
  BY <1>1, <1>2, <1>3, <1>4, <1>5, <1>6, OtherSteps DEF Next, Calling, Users, World

(* The depth of every object is the number of its downtimes in effect, and   *)
(* contacts were last told of a start if and only if there is one.           *)
THEOREM DepthAlwaysExact == Spec => []DepthExact
<1>1. Init => Inv
  BY InitInv
<1>2. Inv /\ [Next]_vars => Inv'
  BY StepInv
<1>3. Inv => DepthExact
  BY DEF Inv
<1> QED
  BY <1>1, <1>2, <1>3, PTL DEF Spec

HIDE DowntimeAssumption

-----------------------------------------------------------------------------
(* The calls to be made: either a downtime is being started or ended, with   *)
(* the downtimes it triggers, or downtimes are being cancelled.  Every call  *)
(* of the first kind is for a downtime of its own, and it comes before those *)
(* that its downtime could still cause: the chains of triggers are followed  *)
(* away from the downtime they begin with.                                   *)

\* What the call c is for: all that comes before it was caused by that or later.
Rank(c) == IF c.op = "handle" THEN info[c.id].by ELSE c.id
Above(b, c) == b.id # c.id /\ info[b.id].by >= Rank(c)

Handling ==
  \A j \in 1 .. Len(work) :
    /\ work[j].op \in {"handle", "stop"} /\ work[j].id \in Live
    /\ \A i \in 1 .. j - 1 : Above(work[i], work[j])
Cancelling == \A j \in 1 .. Len(work) : work[j].op \in {"cancel", "sweep"}

\* A downtime that has been ended, and waits for those it triggers to be ended.
Stopping(d) == \E j \in 1 .. Len(work) : work[j].op = "stop" /\ work[j].id = d
Waiting(o) == {d \in Live \cap On(o) : waiting[d] /\ ~Stopping(d)}

Covers == \A o \in Objects : pending[o] >= Cardinality(Waiting(o))

IInv ==
  /\ TypeOK
  /\ Once(list)
  /\ \A d \in Ids : info[d].by < d
  /\ \A d \in Ids : waiting[d] => d < nextId
  /\ Handling \/ Cancelling
  /\ Covers

LEMMA FirstCall ==
  ASSUME NEW s \in Seq(Call), s # <<>>
  PROVE  /\ Len(s) \in Nat /\ Len(s) >= 1 /\ Head(s) = s[1] /\ s[1] \in Call
         /\ Tail(s) \in Seq(Call) /\ Len(Tail(s)) = Len(s) - 1
         /\ \A i \in 1 .. Len(s) - 1 : Tail(s)[i] = s[i + 1]
<1> HIDE DEF Call
<1>1. Len(s) \in Nat /\ Len(s) >= 1 /\ Head(s) = s[1]
  OBVIOUS
<1>2. s[1] \in Call
  BY <1>1
<1>3. Tail(s) \in Seq(Call) /\ Len(Tail(s)) = Len(s) - 1
      /\ \A i \in 1 .. Len(s) - 1 : Tail(s)[i] = s[i + 1]
  OBVIOUS
<1> QED
  BY <1>1, <1>2, <1>3

LEMMA Replaced ==
  ASSUME NEW s \in Seq(Call), s # <<>>, NEW pre \in Seq(Call), NEW w, w = pre \o Tail(s)
  PROVE  /\ w \in Seq(Call) /\ Len(w) = Len(pre) + Len(s) - 1
         /\ Len(pre) \in Nat /\ Len(s) \in Nat /\ Len(s) >= 1
         /\ \A i \in 1 .. Len(pre) : w[i] = pre[i]
         /\ \A i \in Len(pre) + 1 .. Len(w) : w[i] = s[i - Len(pre) + 1]
<1> DEFINE rest == Tail(s)
<1>1. /\ Len(s) \in Nat /\ Len(s) >= 1
      /\ rest \in Seq(Call) /\ Len(rest) = Len(s) - 1
      /\ \A i \in 1 .. Len(s) - 1 : rest[i] = s[i + 1]
  BY FirstCall
<1> HIDE DEF rest
<1>2. /\ pre \o rest \in Seq(Call) /\ Len(pre \o rest) = Len(pre) + Len(rest)
      /\ \A i \in 1 .. Len(pre) + Len(rest) :
           (pre \o rest)[i] = IF i <= Len(pre) THEN pre[i] ELSE rest[i - Len(pre)]
  BY <1>1, ConcatProperties
<1>3. w = pre \o rest /\ Len(pre) \in Nat
  BY DEF rest
<1>4. Len(w) = Len(pre) + Len(s) - 1
  BY <1>1, <1>2, <1>3
<1>5. ASSUME NEW i \in 1 .. Len(pre) PROVE w[i] = pre[i]
  BY <1>1, <1>2, <1>3, <1>5
<1>6. ASSUME NEW i \in Len(pre) + 1 .. Len(w) PROVE w[i] = s[i - Len(pre) + 1]
  <2>1. w[i] = rest[i - Len(pre)] /\ i - Len(pre) \in 1 .. Len(s) - 1
    BY <1>1, <1>2, <1>3, <1>4, <1>6
  <2> QED
    BY <1>1, <2>1
<1> QED
  BY <1>1, <1>2, <1>3, <1>4, <1>5, <1>6

LEMMA CallsFacts ==
  ASSUME NEW op \in {"handle", "cancel"}, NEW ids \in Seq(Ids)
  PROVE  /\ Calls(op, ids) \in Seq(Call) /\ Len(Calls(op, ids)) = Len(ids)
         /\ \A i \in 1 .. Len(ids) : Calls(op, ids)[i].op = op /\ Calls(op, ids)[i].id = ids[i]
<1> DEFINE n == Len(ids)
<1>1. n \in Nat /\ DOMAIN ids = 1 .. n
  OBVIOUS
<1>2. \A i \in 1 .. n : [op |-> op, id |-> ids[i]] \in Call
  BY DEF Call
<1>3. Calls(op, ids) = [i \in 1 .. n |-> [op |-> op, id |-> ids[i]]]
  BY <1>1 DEF Calls
<1> HIDE DEF n, Call
<1>4. Calls(op, ids) \in [1 .. n -> Call]
  BY <1>2, <1>3
<1>5. Calls(op, ids) \in Seq(Call) /\ Len(Calls(op, ids)) = n
  BY <1>1, <1>4
<1> QED
  BY <1>3, <1>5 DEF n

(* The calls that replace the first one, for its downtime or for those that  *)
(* are triggered by it, keep the order.                                      *)
LEMMA HandlingKept ==
  ASSUME Handling, \A x \in Ids : info[x].by < x, info \in [Ids -> Request],
         work \in Seq(Call), work # <<>>, NEW d \in Ids, work[1].id = d,
         Live \subseteq Ids, Live' \subseteq Ids,
         NEW pre \in Seq(Call), work' = pre \o Tail(work), UNCHANGED info,
         \A j \in 1 .. Len(pre) :
           /\ pre[j].op \in {"handle", "stop"} /\ pre[j].id \in Live'
           /\ pre[j].id = d \/ info[pre[j].id].by = d
           /\ \A i \in 1 .. j - 1 : Above(pre[i], pre[j]),
         \A x \in Live : x \in Live' \/ x = d
  PROVE  Handling' /\ work' \in Seq(Call)
<1> DEFINE m == Len(pre)
           w == work'
           n == Len(work)
<1>1. /\ w \in Seq(Call) /\ Len(w) = m + n - 1
      /\ m \in Nat /\ n \in Nat /\ n >= 1
      /\ \A i \in 1 .. m : w[i] = pre[i]
      /\ \A i \in m + 1 .. Len(w) : w[i] = work[i - m + 1]
  BY Replaced
<1>2. \A x \in Ids : info[x].by \in Int /\ x \in Int
  BY DEF Request, Ids
<1>3. \A j \in 1 .. n : work[j].op \in {"handle", "stop"} /\ work[j].id \in Live
  BY DEF Handling
<1>4. \A j \in 2 .. n : work[j].id # d /\ info[d].by >= Rank(work[j])
  BY <1>1 DEF Handling, Above
<1>5. \A i, j \in 1 .. n : i < j => Above(work[i], work[j])
  BY <1>1 DEF Handling
<1>6. \A j \in 1 .. m :
        /\ pre[j].op \in {"handle", "stop"} /\ pre[j].id \in Live'
        /\ pre[j].id = d \/ info[pre[j].id].by = d
  OBVIOUS
<1>7. \A i, j \in 1 .. m : i < j => Above(pre[i], pre[j])
  BY <1>1
<1> HIDE DEF w, m, n
<1>8. \A j \in m + 1 .. Len(w) : j - m + 1 \in 2 .. n
  BY <1>1
<1>9. ASSUME NEW j \in 1 .. Len(w) PROVE w[j].op \in {"handle", "stop"} /\ w[j].id \in Live'
  <2>1. CASE j \in 1 .. m
    BY <1>1, <1>6, <2>1
  <2>2. CASE j \notin 1 .. m
    <3>1. j \in m + 1 .. Len(w)
      BY <1>1, <2>2
    <3>2. w[j] = work[j - m + 1] /\ j - m + 1 \in 2 .. n /\ j - m + 1 \in 1 .. n
      BY <1>1, <1>8, <3>1
    <3> QED
      BY <1>3, <1>4, <3>2
  <2> QED
    BY <2>1, <2>2
<1>10. ASSUME NEW i \in 1 .. Len(w), NEW j \in 1 .. Len(w), i < j
       PROVE  Above(w[i], w[j])
  <2>1. CASE j \in 1 .. m
    <3>1. i \in 1 .. m
      BY <1>1, <1>10, <2>1
    <3> QED
      BY <1>1, <1>7, <1>10, <2>1, <3>1
  <2>2. CASE i \in 1 .. m /\ j \notin 1 .. m
    <3>1. j \in m + 1 .. Len(w)
      BY <1>1, <2>2
    <3> DEFINE k == j - m + 1
               c == work[k]
               b == pre[i]
    <3>2. w[j] = c /\ k \in 2 .. n /\ k \in 1 .. n /\ w[i] = b
      BY <1>1, <1>8, <2>2, <3>1
    <3>3. c.id \in Live /\ c.id # d /\ info[d].by >= Rank(c) /\ c.op \in {"handle", "stop"}
      BY <1>3, <1>4, <3>2
    <3>4. b.id \in Ids /\ (b.id = d \/ info[b.id].by = d) /\ c.id \in Ids
      BY <1>6, <2>2, <3>3
    <3> HIDE DEF b, c
    <3>5. CASE b.id = d
      BY <3>2, <3>3, <3>5 DEF Above
    <3>6. CASE info[b.id].by = d
      <4>1. info[d].by < d /\ info[b.id].by < b.id
        BY <3>4
      <4>2. Rank(c) < d
        BY <1>2, <3>3, <3>4, <4>1 DEF Rank
      <4>3. b.id # c.id
        BY <1>2, <3>3, <3>4, <3>6, <4>1, <4>2 DEF Rank
      <4>4. info[b.id].by >= Rank(c)
        BY <1>2, <3>3, <3>4, <3>6, <4>2 DEF Rank
      <4> QED
        BY <3>2, <4>3, <4>4 DEF Above
    <3> QED
      BY <3>4, <3>5, <3>6
  <2>3. CASE i \notin 1 .. m
    <3>1. i \in m + 1 .. Len(w) /\ j \in m + 1 .. Len(w)
      BY <1>1, <1>10, <2>3
    <3>2. /\ w[i] = work[i - m + 1] /\ w[j] = work[j - m + 1]
          /\ i - m + 1 \in 1 .. n /\ j - m + 1 \in 1 .. n /\ i - m + 1 < j - m + 1
      BY <1>1, <1>8, <1>10, <3>1
    <3> QED
      BY <1>5, <3>2
  <2> QED
    BY <2>1, <2>2, <2>3
<1>11. ASSUME NEW j \in 1 .. Len(w), NEW i \in 1 .. j - 1 PROVE Above(w[i], w[j])
  <2>1. i \in 1 .. Len(w) /\ i < j
    BY <1>1
  <2> QED
    BY <1>10, <2>1
<1> QED
  BY <1>1, <1>9, <1>11, ZenonT(60) DEF Handling, w, Above, Rank

LEMMA StoppingKept ==
  ASSUME work \in Seq(Call), work # <<>>,
         NEW pre \in Seq(Call), work' = pre \o Tail(work), NEW x, Stopping(x),
         work[1].op = "stop" /\ work[1].id = x =>
           \E j \in 1 .. Len(pre) : pre[j].op = "stop" /\ pre[j].id = x
  PROVE  Stopping(x)'
<1> DEFINE m == Len(pre)
           w == work'
           n == Len(work)
<1>1. /\ w \in Seq(Call) /\ Len(w) = m + n - 1
      /\ m \in Nat /\ n \in Nat /\ n >= 1
      /\ \A i \in 1 .. m : w[i] = pre[i]
      /\ \A i \in m + 1 .. Len(w) : w[i] = work[i - m + 1]
  BY Replaced
<1>2. PICK j \in 1 .. n : work[j].op = "stop" /\ work[j].id = x
  BY DEF Stopping
<1>3. j = 1 => \E k \in 1 .. m : pre[k].op = "stop" /\ pre[k].id = x
  BY <1>2
<1> HIDE DEF m, w, n
<1>4. \E k \in 1 .. Len(w) : w[k].op = "stop" /\ w[k].id = x
  <2>1. CASE j = 1
    <3>1. PICK k \in 1 .. m : pre[k].op = "stop" /\ pre[k].id = x
      BY <1>3, <2>1
    <3>2. k \in 1 .. Len(w) /\ w[k] = pre[k]
      BY <1>1, <3>1
    <3> QED
      BY <3>1, <3>2
  <2>2. CASE j # 1
    <3>1. j + m - 1 \in m + 1 .. Len(w) /\ j + m - 1 \in 1 .. Len(w) /\ (j + m - 1) - m + 1 = j
      BY <1>1, <2>2
    <3>2. w[j + m - 1] = work[j]
      BY <1>1, <3>1
    <3> QED
      BY <1>2, <3>1, <3>2
  <2> QED
    BY <2>1, <2>2
<1> QED
  BY <1>4 DEF Stopping, w

LEMMA NoCalls ==
  /\ work = <<>> => Handling /\ \A x : ~Stopping(x)
  /\ (work = <<>>)' => Handling'
<1>1. ASSUME work = <<>> PROVE Handling /\ \A x : ~Stopping(x)
  <2>1. 1 .. Len(work) = {}
    BY <1>1
  <2> QED
    BY <2>1 DEF Handling, Stopping
<1>2. ASSUME (work = <<>>)' PROVE Handling'
  <2>1. 1 .. Len(work') = {}
    BY <1>2
  <2> QED
    BY <2>1 DEF Handling
<1> QED
  BY <1>1, <1>2

\* One call: nothing comes before it.
LEMMA OneCall ==
  ASSUME NEW c \in Call, work' = <<c>>
  PROVE  /\ work' \in Seq(Call)
         /\ c.op \in {"handle", "stop"} /\ c.id \in Live' => Handling'
         /\ c.op \in {"cancel", "sweep"} => Cancelling'
<1>1. /\ <<c>> \in Seq(Call) /\ Len(<<c>>) = 1 /\ <<c>>[1] = c
  OBVIOUS
<1>2. \A j \in 1 .. 1 : j = 1 /\ 1 .. j - 1 = {}
  OBVIOUS
<1> QED
  BY <1>1, <1>2 DEF Handling, Cancelling

LEMMA WaitingFinite ==
  ASSUME NEW o, MaxId \in Nat
  PROVE  /\ IsFiniteSet(Waiting(o)) /\ Cardinality(Waiting(o)) \in Nat
         /\ Cardinality(Waiting(o)) <= MaxId
         /\ IsFiniteSet(Waiting(o)') /\ Cardinality(Waiting(o)') \in Nat
         /\ Cardinality(Waiting(o)') <= MaxId
<1>1. IsFiniteSet(Ids) /\ Cardinality(Ids) = MaxId
  BY FS_Interval DEF Ids
<1>2. Waiting(o) \in SUBSET Ids /\ Waiting(o)' \in SUBSET Ids
  BY DEF Waiting, On
<1> QED
  BY <1>1, <1>2, FS_Subset, FS_CardinalityType

(* Most steps let no downtime wait that did not wait before.                 *)
LEMMA Preserved ==
  ASSUME IInv, MaxId \in Nat, TypeOK', Once(list)',
         UNCHANGED <<info, pending, nextId, waiting>>,
         Live' \subseteq Live, Handling' \/ Cancelling',
         \A x \in Live' : Stopping(x) => Stopping(x)'
  PROVE  IInv'
<1>1. \A o : Waiting(o)' \subseteq Waiting(o)
  BY DEF Waiting, On
<1>2. ASSUME NEW o \in Objects PROVE pending'[o] >= Cardinality(Waiting(o)')
  <2>1. pending[o] >= Cardinality(Waiting(o)) /\ pending[o] \in Int
    BY DEF IInv, Covers, TypeOK
  <2>2. Cardinality(Waiting(o)') <= Cardinality(Waiting(o))
    BY <1>1, WaitingFinite, FS_Subset
  <2> QED
    BY <2>1, <2>2, WaitingFinite
<1>3. Covers'
  BY <1>2 DEF Covers
<1> QED
  BY <1>3 DEF IInv

-----------------------------------------------------------------------------
LEMMA CancelSteps ==
  ASSUME IInv, NEW d, Cancel(d) \/ CancelAll(d), d \in Objects \/ Cancel(d)
  PROVE  IInv'
<1>1. MaxId \in Nat /\ work = <<>>
  BY DowntimeAssumption DEF Cancel, CancelAll, Idle
<1>2. /\ UNCHANGED <<now, problem, restarts, depth, pending, told, list, nextId, info,
                     inEffect, startFlex, waiting, events>>
  BY DEF Cancel, CancelAll, outside, objectVars, downtimeVars
<1>3. list \in Seq(Ids) /\ Live \subseteq Ids
  BY SetOf DEF IInv, TypeOK, Live
<1>4. \E c \in Call : work' = <<c>> /\ c.op \in {"cancel", "sweep"}
  <2>1. CASE Cancel(d)
    <3>1. d \in Ids /\ work' = <<[op |-> "cancel", id |-> d]>>
      BY <1>3, <2>1 DEF Cancel
    <3>2. [op |-> "cancel", id |-> d] \in Call
      BY <3>1 DEF Call
    <3> QED
      BY <3>1, <3>2
  <2>2. CASE ~Cancel(d)
    <3>1. First(list) \in 0 .. MaxId
      BY <1>1, <1>3 DEF First, Ids
    <3>2. d \in Objects /\ work' = <<[op |-> "sweep", id |-> First(list), obj |-> d]>>
      BY <2>2 DEF CancelAll
    <3>3. [op |-> "sweep", id |-> First(list), obj |-> d] \in Call
      BY <3>1, <3>2 DEF Call
    <3> QED
      BY <3>2, <3>3
  <2> QED
    BY <2>1, <2>2
<1>5. work' \in Seq(Call) /\ Cancelling'
  BY <1>4, OneCall
<1>6. TypeOK' /\ Once(list)' /\ Live' = Live
  BY <1>2, <1>5 DEF IInv, TypeOK, Live
<1> QED
  BY <1>1, <1>2, <1>5, <1>6, NoCalls, Preserved

LEMMA QuietSteps ==
  ASSUME IInv, (\E o : Recover(o)) \/ Tick PROVE IInv'
<1>1. MaxId \in Nat /\ work = <<>> /\ work' = work
  BY DowntimeAssumption DEF Recover, Tick, Idle
<1>2. UNCHANGED <<restarts, depth, pending, told, list, nextId, info,
                  inEffect, startFlex, waiting, events>>
  BY DEF Recover, Tick, objectVars, downtimeVars
<1>3. now' \in Nat /\ problem' \in [Objects -> BOOLEAN]
  <2>1. now \in Nat /\ problem \in [Objects -> BOOLEAN]
    BY DEF IInv, TypeOK
  <2>2. CASE Tick
    BY <2>1, <2>2 DEF Tick
  <2>3. CASE \E o : Recover(o)
    BY <2>1, <2>3 DEF Recover, outside
  <2> QED
    BY <2>2, <2>3
<1>4. TypeOK' /\ Once(list)' /\ Live' = Live
  BY <1>1, <1>2, <1>3 DEF IInv, TypeOK, Live
<1> QED
  BY <1>1, <1>2, <1>4, NoCalls, Preserved

\* The flexible downtimes a problem starts are handled one after the other.
LEMMA ProblemStep ==
  ASSUME IInv, NEW o \in Objects, NEW hard \in BOOLEAN, Problem(o, hard) PROVE IInv'
<1>1. MaxId \in Nat /\ work = <<>>
  BY DowntimeAssumption DEF Problem, Idle
<1>2. UNCHANGED <<now, restarts, depth, pending, told, list, nextId, info,
                  inEffect, waiting, events>>
  BY DEF Problem, objectVars
<1>3. problem' \in [Objects -> BOOLEAN]
  BY DEF IInv, TypeOK, Problem
<1>4. startFlex' \in [Ids -> BOOLEAN]
  <2>1. startFlex \in [Ids -> BOOLEAN]
    BY DEF IInv, TypeOK
  <2>2. \/ startFlex' = [d \in Ids |-> startFlex[d] \/ d \in ToSet(Startable(o))]
        \/ startFlex' = startFlex
    BY Zenon DEF Problem
  <2> QED
    BY <2>1, <2>2, Zenon
<1>5. \/ work' = Calls("handle", Startable(o))
      \/ work' = <<>>
  BY <1>1 DEF Problem
<1>6. work' \in Seq(Call) /\ Handling'
  <2>1. CASE work' = <<>>
    BY <2>1, NoCalls
  <2>2. CASE work' = Calls("handle", Startable(o))
    <3> DEFINE s == Startable(o)
               S == {d \in On(o) :
                       /\ ~info[d].fixed /\ info[d].by = 0 /\ ~inEffect[d]
                       /\ info[d].start <= now /\ now <= info[d].end}
    <3>1. s = Kept(list, S) /\ list \in Seq(Ids) /\ Once(list)
      BY DEF Startable, IInv, TypeOK
    <3>2. \A d \in S : info[d].by = 0
      OBVIOUS
    <3> HIDE DEF S, s
    <3>3. s \in Seq(Ids) /\ ToSet(s) = Live \cap S /\ Once(s)
      BY <3>1, KeptFacts DEF Live
    <3>4. Len(s) \in Nat /\ \A i, j \in 1 .. Len(s) : s[i] = s[j] => i = j
      BY <3>3 DEF Once
    <3>5. \A i \in 1 .. Len(s) : s[i] \in Live /\ info[s[i]].by = 0
      BY <3>2, <3>3, SetOf
    <3>6. /\ work' \in Seq(Call) /\ Len(work') = Len(s)
          /\ \A i \in 1 .. Len(s) : work'[i].op = "handle" /\ work'[i].id = s[i]
      BY <2>2, <3>3, CallsFacts DEF s
    <3>7. ASSUME NEW j \in 1 .. Len(s), NEW i \in 1 .. j - 1
          PROVE  i \in 1 .. Len(s) /\ work'[i].id # work'[j].id
                 /\ info'[work'[i].id].by >= info'[work'[j].id].by
      <4>1. i \in 1 .. Len(s) /\ i # j
        BY <3>4
      <4> QED
        BY <1>2, <3>4, <3>5, <3>6, <4>1
    <3>8. Live' = Live
      BY <1>2 DEF Live
    <3> QED
      BY <3>5, <3>6, <3>7, <3>8 DEF Handling, Above, Rank
  <2> QED
    BY <1>5, <2>1, <2>2
<1>7. TypeOK' /\ Once(list)' /\ Live' = Live
  BY <1>2, <1>3, <1>4, <1>6 DEF IInv, TypeOK, Live
<1> QED
  BY <1>1, <1>2, <1>6, <1>7, NoCalls, Preserved

LEMMA EventSteps ==
  ASSUME IInv, RunDowntimeEvent \/ RunExpireEvent PROVE IInv'
<1>1. MaxId \in Nat /\ work = <<>>
  BY DowntimeAssumption DEF RunDowntimeEvent, RunExpireEvent, Idle
<1>2. UNCHANGED <<now, problem, restarts, depth, pending, told, nextId, info,
                  inEffect, startFlex, waiting>>
  BY DEF RunDowntimeEvent, RunExpireEvent, outside, objectVars, downtimeVars
<1>3. events' \in Seq(Event)
  <2>1. events \in Seq(Event) /\ events # <<>> /\ events' = Tail(events)
    BY DEF RunDowntimeEvent, RunExpireEvent, IInv, TypeOK
  <2> HIDE DEF Event
  <2> QED
    BY <2>1
<1>4. list \in Seq(Ids) /\ Live \subseteq Ids /\ Once(list)
  BY SetOf DEF IInv, TypeOK, Live
<1>5. list' \in Seq(Ids) /\ Once(list') /\ Live' \subseteq Live
  <2>1. CASE RunDowntimeEvent
    BY <1>4, <2>1 DEF RunDowntimeEvent, downtimeVars, Live
  <2>2. CASE RunExpireEvent
    <3> DEFINE S == {d \in Ids : inEffect[d] \/ info[d].end >= now}
    <3>1. list' = Kept(list, S)
      BY <2>2 DEF RunExpireEvent
    <3> HIDE DEF S
    <3> QED
      BY <1>4, <3>1, KeptFacts DEF Live
  <2> QED
    BY <2>1, <2>2
<1>6. work' \in Seq(Call) /\ Handling'
  <2>1. CASE work' = <<>>
    BY <2>1, NoCalls
  <2>2. CASE work' # <<>>
    <3> DEFINE d == Head(events).id
               c == [op |-> "handle", id |-> d]
    <3>1. d \in Live /\ work' = <<c>> /\ Live' = Live
      BY <1>1, <2>2 DEF RunDowntimeEvent, RunExpireEvent, downtimeVars, Live
    <3> HIDE DEF d
    <3>2. c \in Call /\ c.op = "handle" /\ c.id = d
      BY <1>4, <3>1 DEF Call
    <3> HIDE DEF c
    <3> QED
      BY <3>1, <3>2, OneCall
  <2> QED
    BY <2>1, <2>2
<1>7. TypeOK'
  BY <1>2, <1>3, <1>5, <1>6 DEF IInv, TypeOK
<1> QED
  BY <1>1, <1>2, <1>5, <1>6, <1>7, NoCalls, Preserved

-----------------------------------------------------------------------------
(* What a call that is due tells of the calls.                               *)
LEMMA DueFacts ==
  ASSUME IInv, NEW d, NEW op, Due(op, d), op \in {"handle", "stop", "cancel"}
  PROVE  /\ work \in Seq(Call) /\ work # <<>> /\ Head(work) = work[1]
         /\ work[1] \in Call /\ work[1].op = op /\ work[1].id = d
         /\ 1 \in 1 .. Len(work) /\ d \in Ids
         /\ op \in {"handle", "stop"} => Handling /\ d \in Live
         /\ op = "cancel" => Cancelling
         /\ Tail(work) \in Seq(Call) /\ Tail(work) = <<>> \o Tail(work)
<1>1. work \in Seq(Call) /\ work # <<>> /\ Head(work).op = op /\ Head(work).id = d
  BY DEF Due, Idle, IInv, TypeOK
<1>2. /\ Len(work) \in Nat /\ Len(work) >= 1 /\ Head(work) = work[1] /\ work[1] \in Call
      /\ Tail(work) \in Seq(Call)
  BY <1>1, FirstCall
<1>3. 1 \in 1 .. Len(work) /\ work[1].op = op /\ work[1].id = d
  BY <1>1, <1>2
<1>4. d \in Ids
  BY <1>2, <1>3 DEF Call
<1>5. op \in {"handle", "stop"} => Handling /\ d \in Live
  BY <1>3 DEF IInv, Handling, Cancelling
<1>6. op = "cancel" => Cancelling
  BY <1>3 DEF IInv, Handling, Cancelling
<1>7. Tail(work) = <<>> \o Tail(work)
  <2> DEFINE rest == Tail(work)
  <2>1. rest \in Seq(Call)
    BY <1>2
  <2> HIDE DEF rest, Call
  <2>2. rest = <<>> \o rest
    BY <2>1
  <2> QED
    BY <2>2 DEF rest
<1> QED
  BY <1>1, <1>2, <1>3, <1>4, <1>5, <1>6, <1>7

LEMMA Typing ==
  ASSUME IInv
  PROVE  /\ list \in Seq(Ids) /\ Live \subseteq Ids /\ Once(list)
         /\ info \in [Ids -> Request]
         /\ \A x \in Ids : /\ info[x].obj \in Objects /\ info[x].start \in Nat
                           /\ info[x].end \in Nat /\ info[x].by \in 0 .. MaxId
                           /\ info[x].by < x
         /\ work \in Seq(Call) /\ events \in Seq(Event) /\ Event # {}
         /\ now \in Nat /\ MaxId \in Nat /\ MaxTime \in Nat /\ Duration \in Nat
<1>1. MaxId \in Nat /\ MaxTime \in Nat /\ Duration \in Nat
  BY DowntimeAssumption
<1>2. list \in Seq(Ids) /\ Live \subseteq Ids /\ Once(list)
  BY SetOf DEF IInv, TypeOK, Live
<1>3. info \in [Ids -> Request] /\ \A x \in Ids : info[x].by < x
  BY DEF IInv, TypeOK
<1>4. \A x \in Ids : /\ info[x].obj \in Objects /\ info[x].start \in Nat
                     /\ info[x].end \in Nat /\ info[x].by \in 0 .. MaxId
  BY <1>3 DEF Request
<1>5. [time |-> 0, id |-> 0] \in Event
  BY <1>1 DEF Event
<1> QED
  BY <1>1, <1>2, <1>3, <1>4, <1>5 DEF IInv, TypeOK

LEMMA TriggeredFacts ==
  ASSUME IInv, NEW d \in Ids
  PROVE  /\ Triggered(d) \in Seq(Ids) /\ Once(Triggered(d))
         /\ \A i \in 1 .. Len(Triggered(d)) :
              Triggered(d)[i] \in Live /\ info[Triggered(d)[i]].by = d
<1> DEFINE S == {k \in Ids : info[k].by = d}
           s == Triggered(d)
<1>1. s = Kept(list, S)
  BY DEF Triggered
<1>2. \A k \in S : info[k].by = d
  OBVIOUS
<1> HIDE DEF S, s
<1>3. s \in Seq(Ids) /\ ToSet(s) = Live \cap S /\ Once(s)
  BY <1>1, Typing, KeptFacts DEF Live
<1>4. \A i \in 1 .. Len(s) : s[i] \in Live /\ info[s[i]].by = d
  BY <1>2, <1>3, SetOf
<1> QED
  BY <1>3, <1>4 DEF s

\* A downtime waits once more: its object counts it.
LEMMA HandleWaitStep ==
  ASSUME IInv, NEW d, HandleWait(d) PROVE IInv'
<1> DEFINE o == info[d].obj
<1>1. Due("handle", d)
  BY DEF HandleWait
<1>2. /\ work \in Seq(Call) /\ work # <<>> /\ work[1].op = "handle" /\ work[1].id = d
      /\ d \in Ids /\ Handling /\ d \in Live /\ Tail(work) = <<>> \o Tail(work)
  BY <1>1, DueFacts
<1>3. /\ list \in Seq(Ids) /\ Live \subseteq Ids /\ Once(list)
      /\ info \in [Ids -> Request] /\ o \in Objects /\ info[d].end \in Nat
      /\ \A x \in Ids : info[x].by < x
      /\ MaxId \in Nat /\ MaxTime \in Nat /\ events \in Seq(Event)
  BY <1>2, Typing
<1>4. UNCHANGED <<now, problem, restarts, depth, told, list, nextId, info, inEffect, startFlex>>
  BY DEF HandleWait, outside
<1>5. Live' = Live
  BY <1>4 DEF Live
<1>6. <<>> \in Seq(Call) /\ Len(<<>>) = 0 /\ 1 .. 0 = {} /\ work' = <<>> \o Tail(work)
  BY <1>2 DEF HandleWait
<1>7. Handling' /\ work' \in Seq(Call)
  BY <1>2, <1>3, <1>4, <1>5, <1>6, HandlingKept
<1>8. events' \in Seq(Event)
  <2> DEFINE t == info[d].end + 1
             e == 0
  <2>1. t \in Nat /\ e \in 0 .. MaxId
    BY <1>3
  <2>2. events' = Enqueue(events, t, e)
    BY DEF HandleWait, Expire
  <2> HIDE DEF t, e
  <2> QED
    BY <1>3, <2>1, <2>2, EnqueueType
<1>9. /\ pending \in [Objects -> Int] /\ waiting \in [Ids -> BOOLEAN]
      /\ \A x \in Live : x < nextId
  BY DEF IInv, TypeOK
<1>10. /\ pending' \in [Objects -> Int] /\ pending'[o] = (IF pending[o] < MaxPending THEN pending[o] + 1 ELSE pending[o])
       /\ \A x \in Objects \ {o} : pending'[x] = pending[x]
  <2>1. pending' = [pending EXCEPT ![o] = IF @ < MaxPending THEN @ + 1 ELSE @]
    BY DEF HandleWait
  <2> HIDE DEF o
  <2> QED
    BY <1>3, <1>9, <2>1
<1>11. /\ waiting' \in [Ids -> BOOLEAN] /\ \A x \in Ids \ {d} : waiting'[x] = waiting[x]
  BY <1>2, <1>9 DEF HandleWait
<1>12. TypeOK'
  BY <1>4, <1>5, <1>7, <1>8, <1>10, <1>11 DEF IInv, TypeOK
<1>13. \A x : Stopping(x) => Stopping(x)'
  BY <1>2, <1>6, StoppingKept
<1>14. ASSUME NEW x \in Objects PROVE Waiting(x)' \subseteq Waiting(x) \cup {d}
  BY <1>3, <1>4, <1>5, <1>11, <1>13 DEF Waiting, On
<1>15. ASSUME NEW x \in Objects, x # o PROVE d \notin Waiting(x)'
  BY <1>4, <1>15 DEF Waiting, On
<1> HIDE DEF o
<1>16. ASSUME NEW x \in Objects PROVE pending'[x] >= Cardinality(Waiting(x)')
  <2>1. pending[x] >= Cardinality(Waiting(x)) /\ pending[x] \in Int
    BY <1>9 DEF IInv, Covers
  <2>2. /\ IsFiniteSet(Waiting(x)) /\ Cardinality(Waiting(x)) \in Nat
        /\ Cardinality(Waiting(x)') \in Nat /\ Cardinality(Waiting(x)') <= MaxId
    BY <1>3, WaitingFinite
  <2>3. CASE x = o
    <3>1. /\ IsFiniteSet(Waiting(x) \cup {d})
          /\ Cardinality(Waiting(x) \cup {d}) \in Nat
          /\ Cardinality(Waiting(x) \cup {d}) <= Cardinality(Waiting(x)) + 1
      <4> DEFINE W == Waiting(x)
      <4>1. IsFiniteSet(W) /\ Cardinality(W) \in Nat
        BY <2>2
      <4> HIDE DEF W
      <4>2. /\ IsFiniteSet(W \cup {d})
            /\ Cardinality(W \cup {d}) = IF d \in W THEN Cardinality(W) ELSE Cardinality(W) + 1
        BY <4>1, FS_AddElement
      <4>3. Cardinality(W \cup {d}) \in Nat /\ Cardinality(W \cup {d}) <= Cardinality(W) + 1
        BY <4>1, <4>2
      <4> QED
        BY <4>2, <4>3 DEF W
    <3>2. Cardinality(Waiting(x)') <= Cardinality(Waiting(x) \cup {d})
      BY <1>14, <3>1, FS_Subset
    <3>3. MaxPending \in Nat /\ MaxPending >= MaxId
      BY DowntimeAssumption
    <3> QED
      BY <1>3, <1>10, <2>1, <2>2, <2>3, <3>1, <3>2, <3>3
  <2>4. CASE x # o
    <3>1. Waiting(x)' \subseteq Waiting(x)
      BY <1>14, <1>15, <2>4
    <3>2. Cardinality(Waiting(x)') <= Cardinality(Waiting(x))
      BY <2>2, <3>1, FS_Subset
    <3> QED
      BY <1>10, <2>1, <2>2, <2>4, <3>2
  <2> QED
    BY <2>3, <2>4
<1>17. Covers'
  BY <1>16 DEF Covers
<1>18. \A x \in Ids : waiting'[x] => x < nextId
  BY <1>2, <1>9, <1>11 DEF IInv
<1> QED
  BY <1>4, <1>7, <1>12, <1>17, <1>18 DEF IInv

\* A downtime that starts has those it triggers handled before what is left.
LEMMA HandleStartStep ==
  ASSUME IInv, NEW d, HandleStart(d) PROVE IInv'
<1> DEFINE o == info[d].obj
           s == Triggered(d)
           pre == Calls("handle", s)
<1>1. Due("handle", d)
  BY DEF HandleStart
<1>2. /\ work \in Seq(Call) /\ work # <<>> /\ work[1].op = "handle" /\ work[1].id = d
      /\ d \in Ids /\ Handling /\ d \in Live
  BY <1>1, DueFacts
<1>3. /\ list \in Seq(Ids) /\ Live \subseteq Ids /\ Once(list)
      /\ info \in [Ids -> Request] /\ o \in Objects /\ info[d].end \in Nat
      /\ \A x \in Ids : info[x].by < x /\ info[x].by \in 0 .. MaxId
      /\ MaxId \in Nat /\ MaxTime \in Nat /\ events \in Seq(Event)
      /\ now \in Nat /\ Duration \in Nat
  BY <1>2, Typing
<1>4. UNCHANGED <<now, problem, restarts, pending, list, nextId, info, startFlex, waiting>>
  BY DEF HandleStart, outside
<1>5. Live' = Live
  BY <1>4 DEF Live
<1>6. s \in Seq(Ids) /\ Once(s) /\ \A i \in 1 .. Len(s) : s[i] \in Live /\ info[s[i]].by = d
  BY <1>2, TriggeredFacts
<1>7. work' = pre \o Tail(work)
  BY DEF HandleStart
<1> HIDE DEF s
<1>8. /\ pre \in Seq(Call) /\ Len(pre) = Len(s)
      /\ \A i \in 1 .. Len(s) : pre[i].op = "handle" /\ pre[i].id = s[i]
  BY <1>6, CallsFacts
<1>9. Len(s) \in Nat /\ \A i, j \in 1 .. Len(s) : s[i] = s[j] => i = j
  BY <1>6 DEF Once
<1> HIDE DEF pre
<1>10. ASSUME NEW j \in 1 .. Len(pre)
       PROVE  /\ pre[j].op \in {"handle", "stop"} /\ pre[j].id \in Live'
              /\ info[pre[j].id].by = d
              /\ \A i \in 1 .. j - 1 : Above(pre[i], pre[j])
  <2>1. ASSUME NEW i \in 1 .. j - 1
        PROVE  i \in 1 .. Len(s) /\ pre[i].id # pre[j].id
               /\ info[pre[i].id].by = info[pre[j].id].by
    <3>1. i \in 1 .. Len(s) /\ j \in 1 .. Len(s) /\ i # j
      BY <1>8, <1>9
    <3> QED
      BY <1>6, <1>8, <1>9, <3>1
  <2>2. pre[j].op = "handle" /\ pre[j].id \in Live /\ info[pre[j].id].by = d
    BY <1>6, <1>8
  <2>3. d >= d
    BY <1>2 DEF Ids
  <2> QED
    BY <1>5, <2>1, <2>2, <2>3 DEF Above, Rank
<1>11. Handling' /\ work' \in Seq(Call)
  BY <1>2, <1>3, <1>4, <1>5, <1>7, <1>8, <1>10, HandlingKept
<1>12. \A x : Stopping(x) => Stopping(x)'
  BY <1>2, <1>7, <1>8, StoppingKept
<1>13. events' \in Seq(Event)
  <2> DEFINE t == IF info[d].fixed THEN info[d].end ELSE now + Duration
  <2>1. t \in Nat /\ d \in 0 .. MaxId
    BY <1>2, <1>3 DEF Ids
  <2>2. events' = Enqueue(events, t, d)
    BY DEF HandleStart
  <2> HIDE DEF t
  <2> QED
    BY <1>3, <2>1, <2>2, EnqueueType
<1>14. depth' \in [Objects -> Int]
  <2>1. depth \in [Objects -> Int] /\ depth' = [depth EXCEPT ![o] = @ + 1]
    BY DEF IInv, TypeOK, HandleStart
  <2> QED
    BY <1>3, <2>1
<1>15. told' \in [Objects -> BOOLEAN]
  <2>1. told \in [Objects -> BOOLEAN] /\ told' = [told EXCEPT ![o] = @ \/ depth[o] = 0]
    BY DEF IInv, TypeOK, HandleStart
  <2> QED
    BY <1>3, <2>1, ZenonT(60)
<1>16. inEffect' \in [Ids -> BOOLEAN]
  <2>1. inEffect \in [Ids -> BOOLEAN] /\ inEffect' = [inEffect EXCEPT ![d] = TRUE]
    BY DEF IInv, TypeOK, HandleStart
  <2> QED
    BY <2>1
<1>17. TypeOK' /\ Once(list)'
  BY <1>4, <1>5, <1>11, <1>13, <1>14, <1>15, <1>16 DEF IInv, TypeOK
<1> QED
  BY <1>3, <1>4, <1>5, <1>11, <1>12, <1>17, Preserved

\* A downtime that ends no longer waits for a problem, if it did.
LEMMA HandleEndStep ==
  ASSUME IInv, NEW d, HandleEnd(d) PROVE IInv'
<1> DEFINE o == info[d].obj
           stop == [op |-> "stop", id |-> d]
           pre == <<stop>>
<1>1. Due("handle", d)
  BY DEF HandleEnd
<1>2. /\ work \in Seq(Call) /\ work # <<>> /\ work[1].op = "handle" /\ work[1].id = d
      /\ 1 \in 1 .. Len(work)
      /\ d \in Ids /\ Handling /\ d \in Live
  BY <1>1, DueFacts
<1>3. /\ list \in Seq(Ids) /\ Live \subseteq Ids /\ Once(list)
      /\ info \in [Ids -> Request] /\ o \in Objects
      /\ \A x \in Ids : info[x].by < x
      /\ MaxId \in Nat
  BY <1>2, Typing
<1>4. UNCHANGED <<now, problem, restarts, list, nextId, info, startFlex, waiting, events>>
  BY DEF HandleEnd, outside
<1>5. Live' = Live
  BY <1>4 DEF Live
<1>6. stop \in Call /\ stop.op = "stop" /\ stop.id = d
  BY <1>2 DEF Call
<1>7. work' = pre \o Tail(work)
  BY DEF HandleEnd
<1> HIDE DEF stop
<1>8. pre \in Seq(Call) /\ Len(pre) = 1 /\ pre[1] = stop /\ 1 .. 1 - 1 = {}
      /\ \A j \in 1 .. 1 : j = 1
  BY <1>6
<1> HIDE DEF pre
<1>9. Handling' /\ work' \in Seq(Call)
  BY <1>2, <1>3, <1>4, <1>5, <1>6, <1>7, <1>8, HandlingKept
<1>10. \A x : Stopping(x) => Stopping(x)'
  BY <1>2, <1>7, <1>8, StoppingKept
<1>11. Stopping(d)'
  <2>1. /\ Len(work') = 1 + Len(work) - 1 /\ Len(work) \in Nat /\ Len(work) >= 1
        /\ work'[1] = pre[1]
    <3> DEFINE w == work'
    <3>1. /\ w \in Seq(Call) /\ Len(w) = Len(pre) + Len(work) - 1
          /\ Len(pre) \in Nat /\ Len(work) \in Nat /\ Len(work) >= 1
          /\ \A i \in 1 .. Len(pre) : w[i] = pre[i]
          /\ \A i \in Len(pre) + 1 .. Len(w) : w[i] = work[i - Len(pre) + 1]
      <4>1. w = pre \o Tail(work) /\ work \in Seq(Call) /\ work # <<>> /\ pre \in Seq(Call)
        BY <1>2, <1>7, <1>8
      <4> HIDE DEF w
      <4> QED
        BY <4>1, Replaced
    <3> HIDE DEF w
    <3>2. w[1] = pre[1]
      BY <1>8, <3>1
    <3> QED
      BY <1>8, <3>1, <3>2 DEF w
  <2>2. 1 \in 1 .. Len(work')
    BY <2>1
  <2> QED
    BY <1>6, <1>8, <2>1, <2>2 DEF Stopping
<1>12. ~Stopping(d)
  <2>1. \A j \in 2 .. Len(work) : work[j].id # d
    BY <1>2 DEF Handling, Above
  <2>2. \A j \in 1 .. Len(work) : j = 1 \/ j \in 2 .. Len(work)
    OBVIOUS
  <2> QED
    BY <1>2, <2>1, <2>2 DEF Stopping
<1>13. ASSUME NEW x \in Objects
       PROVE  Waiting(x)' \subseteq Waiting(x) /\ d \notin Waiting(x)'
  BY <1>3, <1>4, <1>5, <1>10, <1>11 DEF Waiting, On
<1>14. waiting[d] => d \in Waiting(o)
  BY <1>2, <1>12 DEF Waiting, On
<1>15. pending \in [Objects -> Int] /\ depth \in [Objects -> Int]
       /\ told \in [Objects -> BOOLEAN] /\ inEffect \in [Ids -> BOOLEAN]
  BY DEF IInv, TypeOK
<1>16. /\ pending' \in [Objects -> Int] /\ \A x \in Objects \ {o} : pending'[x] = pending[x]
       /\ \/ pending'[o] = pending[o]
          \/ pending'[o] = pending[o] - 1 /\ waiting[d]
  <2>1. pending' = [pending EXCEPT ![o] =
          IF ~info[d].fixed /\ waiting[d] /\ @ > 0 THEN @ - 1 ELSE @]
    BY DEF HandleEnd
  <2> HIDE DEF o
  <2> QED
    BY <1>3, <1>15, <2>1
<1>17. depth' \in [Objects -> Int]
  BY <1>3, <1>15 DEF HandleEnd
<1>18. told' \in [Objects -> BOOLEAN]
  <2>1. told' = [told EXCEPT ![o] = @ /\ depth'[o] # 0]
    BY DEF HandleEnd
  <2> QED
    BY <1>3, <1>15, <2>1, ZenonT(60)
<1>19. inEffect' \in [Ids -> BOOLEAN]
  BY <1>15 DEF HandleEnd
<1>20. TypeOK'
  BY <1>4, <1>5, <1>9, <1>16, <1>17, <1>18, <1>19 DEF IInv, TypeOK
<1>21. ASSUME NEW x \in Objects PROVE pending'[x] >= Cardinality(Waiting(x)')
  <2>1. pending[x] >= Cardinality(Waiting(x)) /\ pending[x] \in Int
    BY <1>15 DEF IInv, Covers
  <2>2. /\ IsFiniteSet(Waiting(x)) /\ Cardinality(Waiting(x)) \in Nat
        /\ Cardinality(Waiting(x)') \in Nat
    BY <1>3, WaitingFinite
  <2>3. Cardinality(Waiting(x)') <= Cardinality(Waiting(x))
    BY <1>13, <2>2, FS_Subset
  <2>4. CASE x = o /\ waiting[d]
    <3>1. d \in Waiting(x) /\ Waiting(x)' \subseteq Waiting(x) \ {d}
      BY <1>13, <1>14, <2>4
    <3>2. /\ IsFiniteSet(Waiting(x) \ {d})
          /\ Cardinality(Waiting(x) \ {d}) = Cardinality(Waiting(x)) - 1
      BY <2>2, <3>1, FS_RemoveElement
    <3>3. Cardinality(Waiting(x)') <= Cardinality(Waiting(x) \ {d})
      BY <3>1, <3>2, FS_Subset
    <3> QED
      BY <1>16, <2>1, <2>2, <2>3, <2>4, <3>2, <3>3
  <2>5. CASE ~(x = o /\ waiting[d])
    <3>1. pending'[x] = pending[x]
      BY <1>16, <2>5
    <3> QED
      BY <2>1, <2>2, <2>3, <3>1
  <2> QED
    BY <2>4, <2>5
<1>22. Covers'
  BY <1>21 DEF Covers
<1> QED
  BY <1>4, <1>9, <1>20, <1>22 DEF IInv

LEMMA Pushed ==
  ASSUME NEW s \in Seq(Call), s # <<>>, NEW c \in Call
  PROVE  <<c>> \o s = <<c, Head(s)>> \o Tail(s)
<1> DEFINE a == Head(s)
           rest == Tail(s)
<1>1. /\ a \in Call /\ rest \in Seq(Call) /\ Len(s) \in Nat /\ Len(s) >= 1
      /\ Len(rest) = Len(s) - 1 /\ a = s[1]
      /\ \A i \in 1 .. Len(s) - 1 : rest[i] = s[i + 1]
  BY FirstCall
<1> HIDE DEF a, rest, Call
<1> DEFINE p == <<c>>
           q == <<c, a>>
<1>2. p \in Seq(Call) /\ Len(p) = 1 /\ p[1] = c
  OBVIOUS
<1>3. q \in Seq(Call) /\ Len(q) = 2 /\ q[1] = c /\ q[2] = a
  BY <1>1
<1> HIDE DEF p, q
<1>4. /\ p \o s \in Seq(Call) /\ Len(p \o s) = 1 + Len(s)
      /\ \A i \in 1 .. 1 + Len(s) : (p \o s)[i] = IF i <= 1 THEN p[i] ELSE s[i - 1]
  <2>1. /\ p \o s \in Seq(Call) /\ Len(p \o s) = Len(p) + Len(s)
        /\ \A i \in 1 .. Len(p) + Len(s) :
             (p \o s)[i] = IF i <= Len(p) THEN p[i] ELSE s[i - Len(p)]
    BY <1>2, ConcatProperties
  <2> QED
    BY <1>2, <2>1
<1>5. /\ q \o rest \in Seq(Call) /\ Len(q \o rest) = 2 + Len(rest)
      /\ \A i \in 1 .. 2 + Len(rest) : (q \o rest)[i] = IF i <= 2 THEN q[i] ELSE rest[i - 2]
  <2>1. /\ q \o rest \in Seq(Call) /\ Len(q \o rest) = Len(q) + Len(rest)
        /\ \A i \in 1 .. Len(q) + Len(rest) :
             (q \o rest)[i] = IF i <= Len(q) THEN q[i] ELSE rest[i - Len(q)]
    BY <1>1, <1>3, ConcatProperties
  <2> QED
    BY <1>3, <2>1
<1>6. ASSUME NEW i \in 1 .. 1 + Len(s) PROVE (p \o s)[i] = (q \o rest)[i]
  <2>0. i \in 1 .. 2 + Len(rest) /\ i \in Int /\ i >= 1
    BY <1>1
  <2>1. CASE i = 1
    BY <1>2, <1>3, <1>4, <1>5, <2>0, <2>1
  <2>2. CASE i = 2
    <3>1. (p \o s)[i] = s[1]
      BY <1>4, <2>0, <2>2
    <3>2. (q \o rest)[i] = a
      BY <1>3, <1>5, <2>0, <2>2
    <3> QED
      BY <1>1, <3>1, <3>2
  <2>3. CASE i > 2
    <3>1. i - 2 \in 1 .. Len(s) - 1 /\ (i - 2) + 1 = i - 1
      BY <1>1, <2>0, <2>3
    <3>2. rest[i - 2] = s[i - 1]
      BY <1>1, <3>1
    <3>3. (p \o s)[i] = s[i - 1]
      BY <1>4, <2>0, <2>3
    <3>4. (q \o rest)[i] = rest[i - 2]
      BY <1>5, <2>0, <2>3
    <3> QED
      BY <3>2, <3>3, <3>4
  <2>4. i = 1 \/ i = 2 \/ i > 2
    BY <2>0
  <2> QED
    BY <2>1, <2>2, <2>3, <2>4
<1>7. p \o s = q \o rest
  <2> DEFINE u == p \o s
             v == q \o rest
  <2>1. u \in Seq(Call) /\ v \in Seq(Call) /\ Len(u) = Len(v) /\ Len(u) = 1 + Len(s)
    BY <1>1, <1>4, <1>5
  <2>2. \A i \in 1 .. Len(u) : u[i] = v[i]
    BY <1>6, <2>1
  <2> HIDE DEF u, v
  <2>3. u = v
    BY <2>1, <2>2, SeqEqual
  <2> QED
    BY <2>3 DEF u, v
<1> QED
  BY <1>7 DEF p, q, a, rest

\* The stop of a downtime has a triggered one handled before it goes on.
LEMMA StopTriggeredStep ==
  ASSUME IInv, NEW d, HandleStopTriggered(d) PROVE IInv'
<1> DEFINE s == Triggered(d)
           k == s[1]
           c == [op |-> "handle", id |-> k]
           b == Head(work)
           pre == <<c, b>>
<1>1. Due("stop", d)
  BY DEF HandleStopTriggered
<1>2. /\ work \in Seq(Call) /\ work # <<>> /\ work[1].op = "stop" /\ work[1].id = d
      /\ work[1] = b /\ b \in Call /\ d \in Ids /\ Handling /\ d \in Live
  BY <1>1, DueFacts
<1>3. /\ list \in Seq(Ids) /\ Live \subseteq Ids /\ Once(list)
      /\ info \in [Ids -> Request] /\ MaxId \in Nat
      /\ \A x \in Ids : info[x].by < x /\ info[x].by \in 0 .. MaxId
  BY Typing
<1>4. UNCHANGED <<now, problem, restarts, depth, pending, told, list, nextId, info,
                  inEffect, startFlex, waiting, events>>
  BY DEF HandleStopTriggered, outside, objectVars, downtimeVars
<1>5. Live' = Live
  BY <1>4 DEF Live
<1>6. k \in Live /\ info[k].by = d /\ Head(s) = k
  <2>1. /\ s \in Seq(Ids)
        /\ \A i \in 1 .. Len(s) : s[i] \in Live /\ info[s[i]].by = d
    BY <1>2, TriggeredFacts
  <2>2. s # <<>>
    BY DEF HandleStopTriggered
  <2> HIDE DEF s
  <2>3. 1 \in 1 .. Len(s) /\ Head(s) = s[1]
    BY <2>1, <2>2
  <2> QED
    BY <2>1, <2>3
<1>7. work' = <<c>> \o work
  BY <1>6 DEF HandleStopTriggered
<1> HIDE DEF k, s
<1>8. c \in Call /\ c.op = "handle" /\ c.id = k
  BY <1>3, <1>6 DEF Call
<1> HIDE DEF c
<1>9. work' = pre \o Tail(work)
  BY <1>2, <1>7, <1>8, Pushed
<1> HIDE DEF b
<1>10. pre \in Seq(Call) /\ Len(pre) = 2 /\ pre[1] = c /\ pre[2] = b
  BY <1>2, <1>8
<1> HIDE DEF pre
<1>11. Above(c, b)
  <2>1. info[d].by < d /\ info[k].by < k /\ d \in Int /\ k \in Int /\ k \in Ids
    BY <1>2, <1>3, <1>6 DEF Ids
  <2> QED
    BY <1>2, <1>6, <1>8, <2>1 DEF Above, Rank
<1>12. ASSUME NEW j \in 1 .. Len(pre)
       PROVE  /\ pre[j].op \in {"handle", "stop"} /\ pre[j].id \in Live'
              /\ pre[j].id = d \/ info[pre[j].id].by = d
              /\ \A i \in 1 .. j - 1 : Above(pre[i], pre[j])
  <2>1. CASE j = 1
    BY <1>5, <1>6, <1>8, <1>10, <2>1
  <2>2. CASE j = 2
    <3>1. \A i \in 1 .. j - 1 : i = 1
      BY <2>2
    <3> QED
      BY <1>2, <1>5, <1>10, <1>11, <2>2, <3>1
  <2> QED
    BY <1>10, <2>1, <2>2
<1>13. Handling' /\ work' \in Seq(Call)
  BY <1>2, <1>3, <1>4, <1>5, <1>9, <1>10, <1>12, HandlingKept
<1>14. ASSUME NEW x, Stopping(x) PROVE Stopping(x)'
  <2>1. work[1].op = "stop" /\ work[1].id = x =>
          \E j \in 1 .. Len(pre) : pre[j].op = "stop" /\ pre[j].id = x
    BY <1>2, <1>10
  <2> QED
    BY <1>2, <1>9, <1>10, <1>14, <2>1, StoppingKept
<1>15. TypeOK' /\ Once(list)'
  BY <1>4, <1>5, <1>13 DEF IInv, TypeOK
<1> QED
  BY <1>3, <1>4, <1>5, <1>13, <1>14, <1>15, Preserved

LEMMA StoppedStep ==
  ASSUME IInv, NEW d, HandleStopped(d) PROVE IInv'
<1> DEFINE pre == <<>>
<1>1. Due("stop", d)
  BY DEF HandleStopped
<1>2. /\ work \in Seq(Call) /\ work # <<>> /\ work[1].op = "stop" /\ work[1].id = d
      /\ d \in Ids /\ Handling /\ d \in Live /\ Tail(work) = <<>> \o Tail(work)
  BY <1>1, DueFacts
<1>3. /\ list \in Seq(Ids) /\ Live \subseteq Ids /\ Once(list)
      /\ info \in [Ids -> Request] /\ MaxId \in Nat
      /\ \A x \in Ids : info[x].by < x
  BY Typing
<1>4. UNCHANGED <<now, problem, restarts, depth, pending, told, nextId, info,
                  inEffect, startFlex, waiting, events>>
  BY DEF HandleStopped, outside, objectVars
<1>5. list' \in Seq(Ids) /\ Once(list') /\ Live' = Live \ {d}
  <2> DEFINE S == Ids \ {d}
  <2>1. list' = Kept(list, S)
    BY DEF HandleStopped, Without
  <2>2. Live' = Live \cap S /\ list' \in Seq(Ids) /\ Once(list')
    <3> HIDE DEF S
    <3> QED
      BY <1>3, <2>1, KeptFacts DEF Live
  <2> QED
    BY <1>3, <2>2
<1>6. pre \in Seq(Call) /\ Len(pre) = 0 /\ 1 .. 0 = {} /\ work' = pre \o Tail(work)
  BY <1>2 DEF HandleStopped
<1> HIDE DEF pre
<1>7. Live' \subseteq Ids /\ \A x \in Live : x \in Live' \/ x = d
  BY <1>3, <1>5
<1>8. Handling' /\ work' \in Seq(Call)
  BY <1>2, <1>3, <1>4, <1>6, <1>7, HandlingKept
<1>9. \A x : x # d /\ Stopping(x) => Stopping(x)'
  BY <1>2, <1>6, StoppingKept
<1>10. \A x \in Live' : Stopping(x) => Stopping(x)'
  BY <1>5, <1>9
<1>11. TypeOK' /\ Once(list)'
  BY <1>4, <1>5, <1>8 DEF IInv, TypeOK
<1> QED
  BY <1>3, <1>4, <1>5, <1>8, <1>10, <1>11, Preserved

\* Cancelled calls are never stops.
LEMMA NoneStopping ==
  ASSUME Cancelling, NEW x
  PROVE  ~Stopping(x)
BY DEF Cancelling, Stopping

LEMMA CancellingKept ==
  ASSUME Cancelling, work \in Seq(Call), work # <<>>,
         NEW pre \in Seq(Call), work' = pre \o Tail(work),
         \A j \in 1 .. Len(pre) : pre[j].op \in {"cancel", "sweep"}
  PROVE  Cancelling' /\ work' \in Seq(Call)
<1> DEFINE m == Len(pre)
           w == work'
           n == Len(work)
<1>1. /\ w \in Seq(Call) /\ Len(w) = m + n - 1
      /\ m \in Nat /\ n \in Nat /\ n >= 1
      /\ \A i \in 1 .. m : w[i] = pre[i]
      /\ \A i \in m + 1 .. Len(w) : w[i] = work[i - m + 1]
  BY Replaced
<1>2. \A j \in 1 .. m : pre[j].op \in {"cancel", "sweep"}
  OBVIOUS
<1>3. \A j \in 1 .. n : work[j].op \in {"cancel", "sweep"}
  BY DEF Cancelling
<1> HIDE DEF m, w, n
<1>4. ASSUME NEW j \in 1 .. Len(w) PROVE w[j].op \in {"cancel", "sweep"}
  <2>1. CASE j \in 1 .. m
    BY <1>1, <1>2, <2>1
  <2>2. CASE j \notin 1 .. m
    <3>1. j \in m + 1 .. Len(w) /\ j - m + 1 \in 1 .. n
      BY <1>1, <2>2
    <3> QED
      BY <1>1, <1>3, <3>1
  <2> QED
    BY <2>1, <2>2
<1> QED
  BY <1>1, <1>4 DEF Cancelling, w

\* A downtime that is cancelled leaves the list, and its object's count.
LEMMA UnscheduleStep ==
  ASSUME IInv, NEW d, Unschedule(d) PROVE IInv'
<1> DEFINE o == info[d].obj
           s == Triggered(d)
           calls == Calls("cancel", s)
           none == <<>>
<1>1. Due("cancel", d)
  BY DEF Unschedule
<1>2. /\ work \in Seq(Call) /\ work # <<>> /\ d \in Ids /\ Cancelling
      /\ Tail(work) = none \o Tail(work)
  BY <1>1, DueFacts
<1>3. /\ list \in Seq(Ids) /\ Live \subseteq Ids /\ Once(list)
      /\ info \in [Ids -> Request] /\ MaxId \in Nat /\ o \in Objects
      /\ \A x \in Ids : info[x].by < x
  BY <1>2, Typing
<1>4. UNCHANGED <<now, problem, restarts, nextId, info, startFlex, waiting, events>>
  BY DEF Unschedule, outside
<1>5. none \in Seq(Call) /\ Len(none) = 0 /\ 1 .. 0 = {}
  OBVIOUS
<1>6. /\ calls \in Seq(Call)
      /\ \A i \in 1 .. Len(calls) : calls[i].op = "cancel"
  <2>1. s \in Seq(Ids)
    BY <1>2, TriggeredFacts
  <2> HIDE DEF s
  <2>2. /\ Calls("cancel", s) \in Seq(Call) /\ Len(Calls("cancel", s)) = Len(s)
        /\ \A i \in 1 .. Len(s) :
             Calls("cancel", s)[i].op = "cancel" /\ Calls("cancel", s)[i].id = s[i]
    BY <2>1, CallsFacts
  <2> QED
    BY <2>2
<1>7. \A x : ~Stopping(x)
  BY <1>2, NoneStopping
<1>8. CASE d \notin Live
  <2>1. UNCHANGED <<depth, pending, told, inEffect, list>> /\ work' = none \o Tail(work)
    BY <1>2, <1>8 DEF Unschedule, objectVars
  <2>2. \A j \in 1 .. Len(none) : none[j].op \in {"cancel", "sweep"}
    BY <1>5
  <2> HIDE DEF none
  <2>3. Cancelling' /\ work' \in Seq(Call)
    BY <1>2, <1>5, <2>1, <2>2, CancellingKept
  <2>4. TypeOK' /\ Once(list)' /\ Live' = Live
    BY <1>4, <2>1, <2>3 DEF IInv, TypeOK, Live
  <2> QED
    BY <1>3, <1>4, <1>7, <2>1, <2>3, <2>4, Preserved
<1>9. CASE d \in Live
  <2>1. work' = calls \o Tail(work)
    BY <1>9 DEF Unschedule
  <2>2. list' \in Seq(Ids) /\ Once(list') /\ Live' = Live \ {d}
    <3> DEFINE S == Ids \ {d}
    <3>1. list' = Kept(list, S)
      BY <1>9 DEF Unschedule, Without
    <3>2. Live' = Live \cap S /\ list' \in Seq(Ids) /\ Once(list')
      <4> HIDE DEF S
      <4> QED
        BY <1>3, <3>1, KeptFacts DEF Live
    <3> QED
      BY <1>3, <3>2
  <2>3. Cancelling' /\ work' \in Seq(Call)
    <3> HIDE DEF calls
    <3> QED
      BY <1>2, <1>6, <2>1, CancellingKept
  <2>4. pending \in [Objects -> Int] /\ depth \in [Objects -> Int]
         /\ told \in [Objects -> BOOLEAN] /\ inEffect \in [Ids -> BOOLEAN]
    BY DEF IInv, TypeOK
  <2>5. /\ pending' \in [Objects -> Int] /\ \A x \in Objects \ {o} : pending'[x] = pending[x]
        /\ \/ pending'[o] = pending[o]
           \/ pending'[o] = pending[o] - 1 /\ waiting[d]
    <3>1. pending' = [pending EXCEPT ![o] =
            IF ~info[d].fixed /\ waiting[d] THEN @ - 1 ELSE @]
      BY <1>9 DEF Unschedule
    <3> HIDE DEF o
    <3> QED
      BY <1>3, <2>4, <3>1
  <2>6. depth' \in [Objects -> Int]
    <3>1. depth' = [depth EXCEPT ![o] = IF inEffect[d] THEN @ - 1 ELSE @]
      BY <1>9 DEF Unschedule
    <3> HIDE DEF o
    <3> QED
      BY <1>3, <2>4, <3>1
  <2>7. told' \in [Objects -> BOOLEAN]
    <3>1. told' = [told EXCEPT ![o] = @ /\ ~(inEffect[d] /\ depth'[o] = 0)]
      BY <1>9 DEF Unschedule
    <3> HIDE DEF o
    <3> QED
      BY <1>3, <2>4, <3>1, ZenonT(60)
  <2>8. inEffect' \in [Ids -> BOOLEAN]
    BY <1>9, <2>4 DEF Unschedule
  <2>9. TypeOK'
    BY <1>4, <2>2, <2>3, <2>5, <2>6, <2>7, <2>8 DEF IInv, TypeOK
  <2>10. ASSUME NEW x \in Objects
         PROVE  Waiting(x)' \subseteq Waiting(x) /\ d \notin Waiting(x)'
    BY <1>3, <1>4, <1>7, <2>2 DEF Waiting, On
  <2>11. waiting[d] => d \in Waiting(o)
    BY <1>2, <1>7, <1>9 DEF Waiting, On
  <2>12. ASSUME NEW x \in Objects PROVE pending'[x] >= Cardinality(Waiting(x)')
    <3>1. pending[x] >= Cardinality(Waiting(x)) /\ pending[x] \in Int
      BY <2>4 DEF IInv, Covers
    <3>2. /\ IsFiniteSet(Waiting(x)) /\ Cardinality(Waiting(x)) \in Nat
          /\ Cardinality(Waiting(x)') \in Nat
      BY <1>3, WaitingFinite
    <3>3. Cardinality(Waiting(x)') <= Cardinality(Waiting(x))
      BY <2>10, <3>2, FS_Subset
    <3>4. CASE x = o /\ waiting[d]
      <4>1. d \in Waiting(x) /\ Waiting(x)' \subseteq Waiting(x) \ {d}
        BY <2>10, <2>11, <3>4
      <4>2. /\ IsFiniteSet(Waiting(x) \ {d})
            /\ Cardinality(Waiting(x) \ {d}) = Cardinality(Waiting(x)) - 1
        BY <3>2, <4>1, FS_RemoveElement
      <4>3. Cardinality(Waiting(x)') <= Cardinality(Waiting(x) \ {d})
        BY <4>1, <4>2, FS_Subset
      <4> QED
        BY <2>5, <3>1, <3>2, <3>3, <3>4, <4>2, <4>3
    <3>5. CASE ~(x = o /\ waiting[d])
      <4>1. pending'[x] = pending[x]
        BY <2>5, <3>5
      <4> QED
        BY <3>1, <3>2, <3>3, <4>1
    <3> QED
      BY <3>4, <3>5
  <2>13. Covers'
    BY <2>12 DEF Covers
  <2> QED
    BY <1>4, <2>2, <2>3, <2>9, <2>13 DEF IInv
<1> QED
  BY <1>8, <1>9

\* The walk that cancels the downtimes of an object calls only for cancels.
LEMMA SweepStep == ASSUME IInv, Sweep PROVE IInv'
<1> DEFINE o == work[1].obj
           d == work[1].id
           Onward(next) == [op |-> "sweep", id |-> next, obj |-> o]
<1>1. work \in Seq(Call) /\ work # <<>> /\ Head(work).op = "sweep"
  BY DEF Sweep, Idle, IInv, TypeOK
<1>2. /\ Len(work) \in Nat /\ Len(work) >= 1 /\ Head(work) = work[1] /\ work[1] \in Call
      /\ Tail(work) \in Seq(Call)
  BY <1>1, FirstCall
<1>3. 1 \in 1 .. Len(work) /\ work[1].op = "sweep"
  BY <1>1, <1>2
<1>4. Cancelling
  BY <1>3 DEF IInv, Handling
<1>5. o \in Objects /\ d \in 0 .. MaxId
  BY <1>2, <1>3 DEF Call
<1>6. /\ list \in Seq(Ids) /\ Live \subseteq Ids /\ MaxId \in Nat
  BY Typing
<1>7. UNCHANGED <<now, problem, restarts, depth, pending, told, list, nextId, info,
                  inEffect, startFlex, waiting, events>>
  BY DEF Sweep, outside, objectVars, downtimeVars
<1>8. \A next \in 0 .. MaxId : Onward(next) \in Call /\ Onward(next).op = "sweep"
  BY <1>5 DEF Call
<1>9. ASSUME d \in Live PROVE After(d) \in 0 .. MaxId
  <2> DEFINE place == CHOOSE i \in DOMAIN list : list[i] = d
             left == SubSeq(list, place + 1, Len(list))
  <2>1. After(d) = First(left)
    BY DEF After
  <2>2. place \in 1 .. Len(list) /\ Len(list) \in Nat
    <3>1. DOMAIN list = 1 .. Len(list) /\ \E i \in DOMAIN list : list[i] = d
      BY <1>6, <1>9, SetOf DEF Live
    <3> QED
      BY <1>6, <3>1
  <2> HIDE DEF place
  <2>3. left \in Seq(Ids)
    <3>1. \A i \in place + 1 .. Len(list) : list[i] \in Ids
      BY <1>6, <2>2
    <3> QED
      BY <2>2, <3>1, SubSeqProperties
  <2> HIDE DEF left
  <2>4. left # <<>> => Head(left) \in Ids
    BY <2>3
  <2> QED
    BY <1>6, <2>1, <2>4 DEF First, Ids
<1> HIDE DEF o, d
<1>10. \E pre \in Seq(Call) :
         /\ work' = pre \o Tail(work)
         /\ \A j \in 1 .. Len(pre) : pre[j].op \in {"cancel", "sweep"}
  <2>0. IF d = 0 THEN work' = Tail(work)
        ELSE IF d \notin Live
        THEN \E next \in Live \cup {0} : work' = <<Onward(next)>> \o Tail(work)
        ELSE work' = (IF info[d].obj = o THEN <<[op |-> "cancel", id |-> d]>> ELSE <<>>)
                     \o <<Onward(After(d))>> \o Tail(work)
    BY <1>2 DEF Sweep, d, o
  <2> HIDE DEF Onward
  <2>1. CASE d = 0
    <3> DEFINE none == <<>>
    <3>1. none \in Seq(Call) /\ Len(none) = 0 /\ 1 .. 0 = {}
      OBVIOUS
    <3>2. work' = none \o Tail(work)
      BY <1>2, <2>0, <2>1
    <3> QED
      BY <3>1, <3>2
  <2>2. CASE d # 0 /\ d \notin Live
    <3>1. PICK next \in Live \cup {0} : work' = <<Onward(next)>> \o Tail(work)
      BY <2>0, <2>2
    <3>2. next \in 0 .. MaxId
      BY <1>6 DEF Ids
    <3>3. Onward(next) \in Call /\ Onward(next).op = "sweep"
      BY <1>8, <3>2
    <3>4. <<Onward(next)>> \in Seq(Call)
          /\ \A j \in 1 .. Len(<<Onward(next)>>) : <<Onward(next)>>[j].op \in {"cancel", "sweep"}
      BY <3>3
    <3> QED
      BY <3>1, <3>4
  <2>3. CASE d # 0 /\ d \in Live
    <3> DEFINE c == [op |-> "cancel", id |-> d]
               a == Onward(After(d))
    <3>1. c \in Call /\ c.op = "cancel"
      BY <1>6, <2>3 DEF Call
    <3>2. a \in Call /\ a.op = "sweep"
      BY <1>8, <1>9, <2>3
    <3>3. work' = (IF info[d].obj = o THEN <<c>> ELSE <<>>) \o <<a>> \o Tail(work)
      BY <2>0, <2>3
    <3> HIDE DEF c, a, Call
    <3>4. CASE info[d].obj = o
      <4> DEFINE pre == <<c>> \o <<a>>
                 p == <<c>>
                 q == <<a>>
      <4>1. p \in Seq(Call) /\ q \in Seq(Call) /\ Len(p) = 1 /\ Len(q) = 1 /\ p[1] = c /\ q[1] = a
        BY <3>1, <3>2
      <4>2. pre \in Seq(Call) /\ \A j \in 1 .. Len(pre) : pre[j].op \in {"cancel", "sweep"}
        <5> HIDE DEF p, q
        <5>1. /\ p \o q \in Seq(Call) /\ Len(p \o q) = Len(p) + Len(q)
              /\ \A i \in 1 .. Len(p) + Len(q) :
                   (p \o q)[i] = IF i <= Len(p) THEN p[i] ELSE q[i - Len(p)]
          BY <4>1, ConcatProperties
        <5>2. \A j \in 1 .. 2 : (p \o q)[j] \in {c, a}
          BY <4>1, <5>1
        <5>3. p \o q = pre
          BY DEF p, q
        <5> HIDE DEF pre
        <5> QED
          BY <3>1, <3>2, <4>1, <5>1, <5>2, <5>3
      <4>3. work' = pre \o Tail(work)
        BY <3>3, <3>4
      <4> QED
        BY <4>2, <4>3
    <3>5. CASE info[d].obj # o
      <4> DEFINE pre == <<>> \o <<a>>
      <4>1. pre = <<a>>
        BY <3>2
      <4>2. pre \in Seq(Call) /\ \A j \in 1 .. Len(pre) : pre[j].op \in {"cancel", "sweep"}
        BY <3>2, <4>1
      <4>3. work' = pre \o Tail(work)
        BY <3>3, <3>5
      <4> QED
        BY <4>2, <4>3
    <3> QED
      BY <3>4, <3>5
  <2> QED
    BY <2>1, <2>2, <2>3
<1>11. Cancelling' /\ work' \in Seq(Call)
  BY <1>1, <1>4, <1>10, CancellingKept
<1>12. TypeOK' /\ Once(list)' /\ Live' = Live
  BY <1>7, <1>11 DEF IInv, TypeOK, Live
<1> QED
  BY <1>4, <1>6, <1>7, <1>11, <1>12, NoneStopping, Preserved

-----------------------------------------------------------------------------
\* A new downtime has a fresh id, higher than that of what triggers it.
LEMMA ScheduleStep ==
  ASSUME IInv, NEW o \in Objects, NEW fixed \in BOOLEAN,
         NEW by \in 0 .. MaxId, by < nextId,
         NEW w \in Windows, Schedule(o, fixed, by, w)
  PROVE  IInv'
<1> DEFINE d == nextId
           r == [obj |-> o, fixed |-> fixed, by |-> by, start |-> w[1], end |-> w[2]]
<1>1. work = <<>> /\ d \in Ids /\ nextId' = d + 1 /\ w[1] \in Nat /\ w[2] \in Nat
  BY DowntimeAssumption DEF Schedule, Idle
<1>2. UNCHANGED <<now, problem, restarts, depth, pending, told, inEffect, startFlex,
                  waiting, work>>
  BY DEF Schedule, outside, objectVars
<1>3. /\ list \in Seq(Ids) /\ Live \subseteq Ids /\ Once(list)
      /\ info \in [Ids -> Request] /\ MaxId \in Nat /\ MaxTime \in Nat
      /\ events \in Seq(Event)
      /\ \A x \in Ids : info[x].by < x
  BY Typing
<1>4. /\ d \in 1 .. MaxId /\ d \notin Live /\ ~waiting[d]
      /\ \A x \in Live : x < d
      /\ \A x \in Ids : waiting[x] => x < d
  BY <1>1 DEF IInv, TypeOK, Ids
<1>5. r \in Request /\ r.by = by /\ r.obj = o
  BY <1>1 DEF Request
<1> HIDE DEF r
<1>6. /\ info' \in [Ids -> Request]
      /\ \A x \in Ids \ {d} : info'[x] = info[x]
      /\ info'[d] \in {info[d], r}
  <2>1. info' = info \/ info' = [info EXCEPT ![d] = r]
    BY DEF Schedule, r
  <2> HIDE DEF d
  <2> QED
    BY <1>1, <1>3, <1>5, <2>1
<1>7. \A x \in Ids : info'[x].by < x
  BY <1>3, <1>5, <1>6
<1>8. list' \in Seq(Ids) /\ Once(list') /\ Live' \subseteq Live \cup {d}
  <2>1. CASE list' = list
    BY <1>3, <2>1 DEF Live
  <2>2. CASE list' = Listed(d, w[1])
    <3> DEFINE t == w[1]
    <3>1. list' = Listed(d, t)
      BY <2>2
    <3> HIDE DEF d, t
    <3> QED
      BY <1>1, <1>3, <1>4, <3>1, ListedFacts DEF Live
  <2> QED
    BY <2>1, <2>2 DEF Schedule
<1>9. events' \in Seq(Event)
  <2>1. CASE events' = events
    BY <1>3, <2>1
  <2>2. CASE events' = Enqueue(events, w[1], d)
    <3> DEFINE t == w[1]
    <3>1. t \in Nat /\ d \in 0 .. MaxId /\ events' = Enqueue(events, t, d)
      BY <1>1, <1>4, <2>2
    <3> HIDE DEF t, d
    <3> QED
      BY <1>3, <3>1, EnqueueType
  <2> QED
    BY <2>1, <2>2 DEF Schedule
<1>10. work' = <<>> /\ Handling'
  BY <1>1, <1>2, NoCalls
<1>11. nextId' \in 1 .. MaxId + 1
  BY <1>1, <1>3, <1>4
<1>12. \A x \in Live' : x < nextId'
  <2>1. d < d + 1 /\ \A x \in Ids : x < d => x < d + 1
    BY <1>4 DEF Ids
  <2> QED
    BY <1>1, <1>3, <1>4, <1>8, <2>1
<1>13. TypeOK'
  BY <1>2, <1>6, <1>8, <1>9, <1>11, <1>12 DEF IInv, TypeOK
<1>14. \A x : ~Stopping(x)
  BY <1>1, NoCalls
<1>15. ASSUME NEW x \in Objects PROVE Waiting(x)' \subseteq Waiting(x)
  BY <1>2, <1>4, <1>6, <1>8, <1>14 DEF Waiting, On
<1>16. ASSUME NEW x \in Objects PROVE pending'[x] >= Cardinality(Waiting(x)')
  <2>1. pending[x] >= Cardinality(Waiting(x)) /\ pending[x] \in Int /\ pending' = pending
    BY <1>2 DEF IInv, Covers, TypeOK
  <2>2. Cardinality(Waiting(x)') <= Cardinality(Waiting(x))
    BY <1>3, <1>15, WaitingFinite, FS_Subset
  <2> QED
    BY <1>3, <2>1, <2>2, WaitingFinite
<1>17. Covers'
  BY <1>16 DEF Covers
<1>18. \A x \in Ids : waiting'[x] => x < nextId'
  <2>1. \A x \in Ids : x < d => x < d + 1
    BY <1>4 DEF Ids
  <2> QED
    BY <1>1, <1>2, <1>4, <2>1
<1> QED
  BY <1>7, <1>8, <1>10, <1>13, <1>17, <1>18 DEF IInv

\* A restart reads what the list held; nothing waits for a problem.
LEMMA RestartStep == ASSUME IInv, Restart PROVE IInv'
<1>1. /\ list \in Seq(Ids) /\ Live \subseteq Ids /\ Once(list)
      /\ info \in [Ids -> Request] /\ MaxId \in Nat /\ MaxTime \in Nat
      /\ \A x \in Ids : info[x].by < x
  BY Typing
<1>2. work = <<>> /\ UNCHANGED <<now, problem, nextId, info, work>>
  BY Zenon DEF Restart, Idle
<1>3. Loaded \in Seq(Ids) /\ ToSet(Loaded) \subseteq Live /\ Once(Loaded)
  BY <1>1, LoadedFacts
<1>4. list' \in Seq(Ids) /\ Once(list') /\ Live' \subseteq Live
  <2>1. PICK s \in Sorted(Loaded) : list' = Validated(s)
    BY Zenon DEF Restart
  <2>2. s \in Seq(Ids) /\ ToSet(s) = ToSet(Loaded) /\ Once(s)
    <3> DEFINE l == Loaded
    <3>1. l \in Seq(Ids) /\ Once(l) /\ s \in Sorted(l)
      BY <1>3, <2>1
    <3> HIDE DEF l
    <3>2. s \in Seq(Ids) /\ ToSet(s) = ToSet(l) /\ Once(s)
      BY <3>1, SortedFacts
    <3> QED
      BY <3>2 DEF l
  <2>3. Validated(s) \in Seq(Ids) /\ ToSet(Validated(s)) \subseteq ToSet(s) /\ Once(Validated(s))
    BY <2>2, ValidatedFacts
  <2> QED
    BY <1>3, <2>1, <2>2, <2>3, Zenon DEF Live
<1>5. events' \in Seq(Event)
  <2>1. Requeued \in Seq(Event)
    BY <1>1, <1>3, RequeuedType
  <2> QED
    BY <2>1, Zenon DEF Restart
<1>6. /\ depth' = [o \in Objects |-> 0] /\ pending' = [o \in Objects |-> 0]
      /\ told' = [o \in Objects |-> FALSE]
      /\ inEffect' = [d \in Ids |-> FALSE] /\ startFlex' = [d \in Ids |-> FALSE]
      /\ waiting' = [d \in Ids |-> FALSE] /\ restarts' = restarts + 1
  BY Zenon DEF Restart
<1>7. /\ depth' \in [Objects -> Int] /\ pending' \in [Objects -> Int]
      /\ told' \in [Objects -> BOOLEAN]
      /\ inEffect' \in [Ids -> BOOLEAN] /\ startFlex' \in [Ids -> BOOLEAN]
      /\ waiting' \in [Ids -> BOOLEAN]
  BY <1>6
<1>8. restarts' \in Nat /\ work' = <<>> /\ work' \in Seq(Call)
  BY <1>2, <1>6 DEF IInv, TypeOK
<1>9. TypeOK'
  BY <1>2, <1>4, <1>5, <1>7, <1>8 DEF IInv, TypeOK
<1>10. Handling'
  BY <1>8, NoCalls
<1>11. ASSUME NEW o \in Objects PROVE pending'[o] >= Cardinality(Waiting(o)')
  <2>1. Waiting(o)' = {}
    BY <1>6, Zenon DEF Waiting, On
  <2> QED
    BY <1>6, <2>1, FS_EmptySet
<1>12. Covers'
  BY <1>11 DEF Covers
<1>13. \A x \in Ids : ~waiting'[x]
  BY <1>6
<1> QED
  BY <1>1, <1>2, <1>4, <1>9, <1>10, <1>12, <1>13 DEF IInv

LEMMA InitIInv == Init => IInv
<1> SUFFICES ASSUME Init PROVE IInv
  OBVIOUS
<1>1. MaxId \in Nat /\ MaxTime \in Nat /\ Objects # {}
  BY DowntimeAssumption
<1> DEFINE any == CHOOSE o \in Objects : TRUE
           none == [obj |-> any, fixed |-> TRUE, by |-> 0, start |-> 0, end |-> 0]
<1>2. any \in Objects
  BY <1>1
<1> HIDE DEF any
<1>3. none \in Request /\ none.by = 0
  BY <1>1, <1>2 DEF Request
<1>4. info \in [Ids -> {none}]
  BY DEF Init, any
<1> HIDE DEF none
<1>5. info \in [Ids -> Request] /\ \A d \in Ids : info[d].by < d
  BY <1>3, <1>4 DEF Ids
<1>6. list = <<>> /\ work = <<>> /\ events = <<>> /\ Live = {} /\ nextId = 1
  BY DEF Init, Live, ToSet
<1>7. /\ now \in Nat /\ problem \in [Objects -> BOOLEAN] /\ restarts \in Nat
      /\ depth = [o \in Objects |-> 0] /\ pending = [o \in Objects |-> 0]
      /\ told = [o \in Objects |-> FALSE]
      /\ inEffect = [d \in Ids |-> FALSE] /\ startFlex = [d \in Ids |-> FALSE]
      /\ waiting = [d \in Ids |-> FALSE]
  BY DEF Init
<1>8. /\ depth \in [Objects -> Int] /\ pending \in [Objects -> Int]
      /\ told \in [Objects -> BOOLEAN]
      /\ inEffect \in [Ids -> BOOLEAN] /\ startFlex \in [Ids -> BOOLEAN]
      /\ waiting \in [Ids -> BOOLEAN]
  BY <1>7
<1>9. list \in Seq(Ids) /\ events \in Seq(Event) /\ work \in Seq(Call) /\ Once(list)
      /\ nextId \in 1 .. MaxId + 1
  BY <1>1, <1>6 DEF Once
<1>10. TypeOK
  BY <1>5, <1>6, <1>7, <1>8, <1>9 DEF TypeOK
<1>11. Covers
  <2>1. ASSUME NEW o \in Objects PROVE pending[o] >= Cardinality(Waiting(o))
    <3>1. Waiting(o) = {}
      BY <1>6 DEF Waiting
    <3> QED
      BY <1>7, <3>1, FS_EmptySet
  <2> QED
    BY <2>1 DEF Covers
<1> QED
  BY <1>5, <1>6, <1>7, <1>9, <1>10, <1>11, NoCalls DEF IInv

LEMMA IInvStep == IInv /\ [Next]_vars => IInv'
<1> SUFFICES ASSUME IInv, [Next]_vars PROVE IInv'
  OBVIOUS
<1>1. ASSUME NEW d, HandleWait(d) \/ HandleStart(d) \/ HandleEnd(d)
                    \/ HandleStopTriggered(d) \/ HandleStopped(d) \/ Unschedule(d)
      PROVE  IInv'
  BY <1>1, HandleWaitStep, HandleStartStep, HandleEndStep, StopTriggeredStep,
     StoppedStep, UnscheduleStep
<1>2. CASE Sweep
  BY <1>2, SweepStep
<1>3. ASSUME NEW o \in Objects, NEW k \in Kinds, NEW w \in Windows,
             NEW by \in IF k.triggered THEN Given ELSE {0}, Schedule(o, k.fixed, by, w)
      PROVE  IInv'
  <2>1. k.fixed \in BOOLEAN /\ MaxId \in Nat
    BY DowntimeAssumption
  <2>2. nextId \in 1 .. MaxId + 1
    BY DEF IInv, TypeOK
  <2>3. by \in 0 .. MaxId /\ by < nextId
    BY <2>1, <2>2 DEF Given
  <2> DEFINE fixed == k.fixed
  <2>4. fixed \in BOOLEAN /\ Schedule(o, fixed, by, w)
    BY <1>3, <2>1
  <2> HIDE DEF fixed
  <2> QED
    BY <2>3, <2>4, ScheduleStep
<1>4. ASSUME NEW d, Cancel(d) PROVE IInv'
  BY <1>4, CancelSteps
<1>5. ASSUME NEW o \in Objects, CancelAll(o) PROVE IInv'
  BY <1>5, CancelSteps
<1>6. ASSUME NEW o, Recover(o) PROVE IInv'
  BY <1>6, QuietSteps
<1>7. ASSUME NEW o \in Objects, NEW hard \in BOOLEAN, Problem(o, hard) PROVE IInv'
  BY <1>7, ProblemStep
<1>8. CASE Restart
  BY <1>8, RestartStep
<1>9. CASE Tick
  BY <1>9, QuietSteps
<1>10. CASE RunDowntimeEvent \/ RunExpireEvent
  BY <1>10, EventSteps
<1>11. CASE UNCHANGED vars
  <2>1. UNCHANGED <<now, problem, depth, pending, told, list, nextId, info, inEffect,
                    startFlex, waiting, events, work, restarts>>
    BY <1>11 DEF vars
  <2>2. Live' = Live /\ TypeOK' /\ Once(list)' /\ (Handling' <=> Handling)
        /\ (Cancelling' <=> Cancelling)
    BY <2>1 DEF IInv, TypeOK, Live, Handling, Cancelling, Above, Rank
  <2>3. \A x : Stopping(x)' <=> Stopping(x)
    BY <2>1 DEF Stopping
  <2> QED
    BY <2>1, <2>2, <2>3, Typing, Preserved DEF IInv
<1>12. CASE Calling
  BY <1>1, <1>2, <1>12 DEF Calling
<1>13. CASE Users
  BY <1>3, <1>4, <1>5, <1>13 DEF Users
<1>14. CASE World
  BY <1>6, <1>7, <1>8, <1>14 DEF World
<1> QED
  BY <1>9, <1>10, <1>11, <1>12, <1>13, <1>14 DEF Next

(* The variables keep their shape, and an id in use was given out, for any   *)
(* number of objects, downtimes and restarts.                                *)
THEOREM TypeCorrect == Spec => []TypeOK
<1>1. IInv => TypeOK
  BY DEF IInv
<1> QED
  BY <1>1, InitIInv, IInvStep, PTL DEF Spec

(* pending_flex_downtime, which decides whether a problem of a service looks *)
(* for flexible downtimes to start, is never less than the number of those   *)
(* that wait on the object, however they are triggered, cancelled, expired   *)
(* or read back.                                                             *)
THEOREM WaitingCounted == Spec => []PendingCovers
<1>1. ASSUME IInv PROVE PendingCovers
  <2>1. SUFFICES ASSUME NEW o \in Objects, Idle
                 PROVE  pending[o] >= Cardinality({d \in Live \cap On(o) : waiting[d] /\ ~inEffect[d]})
    BY DEF PendingCovers
  <2> DEFINE W == {d \in Live \cap On(o) : waiting[d] /\ ~inEffect[d]}
  <2>2. W \subseteq Waiting(o)
    BY <2>1, NoCalls DEF Waiting, Idle
  <2> HIDE DEF W
  <2>3. /\ IsFiniteSet(Waiting(o)) /\ Cardinality(Waiting(o)) \in Nat
    BY <1>1, Typing, WaitingFinite
  <2>4. Cardinality(W) \in Nat /\ Cardinality(W) <= Cardinality(Waiting(o))
    BY <2>2, <2>3, FS_Subset, FS_CardinalityType
  <2>5. pending[o] >= Cardinality(Waiting(o)) /\ pending[o] \in Int
    BY <1>1 DEF IInv, TypeOK, Covers
  <2>6. pending[o] >= Cardinality(W)
    BY <2>3, <2>4, <2>5
  <2> QED
    BY <2>6 DEF W
<1> QED
  BY <1>1, InitIInv, IInvStep, PTL DEF Spec

=============================================================================
