--------------------------- MODULE EventListProofs ---------------------------
(***************************************************************************)
(* Proofs about EventList, for any number of addresses and services, any   *)
(* clock and whether services are acknowledged again or not.               *)
(*                                                                         *)
(* A list is the sequence its pointers spell (a chain): LinkedWalks says   *)
(* that following them reads it, LinkedInserted and LinkedWithout that the *)
(* few pointers the code sets insert or remove one event.  With these,     *)
(* AddEventFacts, RemoveEventFacts, PopHeadFacts and ResortFacts describe  *)
(* the four queue operations by what they do to one chain; QueueOK says    *)
(* of both chains and the index together what these operations need and    *)
(* keep (AddOK, RemovedOK, ScheduleOK, ResortOK), and Keeps what EventQueue *)
(* asks of the order.  Every handler composes them: Evolves is that notion *)
(* of composition, and there is one lemma per action.  The invariant IInv   *)
(* adds the event being run, which is in no list, and that no event is     *)
(* left of a service that is gone.                                         *)
(***************************************************************************)
EXTENDS EventList, SequenceTheorems, FiniteSetTheorems, WellFoundedInduction,
        TLAPS

-----------------------------------------------------------------------------
(* Natural numbers.                                                         *)

\* A set of numbers with zero and every successor has them all.
LEMMA Induction ==
  ASSUME NEW X \in SUBSET Nat, 0 \in X, \A n \in X : n + 1 \in X
  PROVE  Nat \subseteq X
<1> DEFINE R == {ss \in Nat \X Nat : ss[1] < ss[2]}
           T == Nat \ X
<1>1. IsWellFoundedOn(R, Nat)
  BY NatLessThanWellFounded DEF OpToRel
<1>2. T # {} => \E x \in T : \A y \in T : ~(<<y, x>> \in R)
  <2> HIDE DEF R
  <2> QED
    BY <1>1, WFMin
<1>3. ASSUME NEW x \in T, \A y \in T : ~(y < x) PROVE FALSE
  <2>1. x - 1 \in Nat /\ x - 1 \notin T
    BY <1>3
  <2> QED
    BY <2>1
<1> QED
  BY <1>2, <1>3

\* First is the least number of a set.
LEMMA FirstIsLeast ==
  ASSUME NEW S \in SUBSET Nat, S # {}
  PROVE  First(S) \in S /\ \A j \in S : First(S) <= j
<1> DEFINE R == {ss \in Nat \X Nat : ss[1] < ss[2]}
<1>1. IsWellFoundedOn(R, Nat)
  BY NatLessThanWellFounded DEF OpToRel
<1>2. \E x \in S : \A y \in S : ~(<<y, x>> \in R)
  <2> HIDE DEF R
  <2> QED
    BY <1>1, WFMin
<1>3. PICK x \in S : \A y \in S : ~(y < x)
  BY <1>2
<1>4. \A j \in S : x <= j
  BY <1>3
<1> QED
  BY <1>3, <1>4 DEF First

-----------------------------------------------------------------------------
(* Lists of events, as sequences without repetition.                        *)

Rng(s) == {s[i] : i \in DOMAIN s}

Single(s) == \A i, j \in 1 .. Len(s) : s[i] = s[j] => i = j

Chains == {s \in Seq(Nodes) : Single(s)}

\* s with n behind its first j events, and s without the j-th
Inserted(s, j, n) ==
  [i \in 1 .. Len(s) + 1 |-> IF i <= j THEN s[i] ELSE IF i = j + 1 THEN n ELSE s[i - 1]]
Without(s, j) == [i \in 1 .. Len(s) - 1 |-> IF i < j THEN s[i] ELSE s[i + 1]]
Reversed(s) == [i \in 1 .. Len(s) |-> s[Len(s) + 1 - i]]

\* what a chain is made of
LEMMA ChainFacts ==
  ASSUME NEW s \in Chains
  PROVE  /\ s \in Seq(Nodes) /\ Len(s) \in Nat /\ DOMAIN s = 1 .. Len(s)
         /\ Single(s) /\ s = [i \in 1 .. Len(s) |-> s[i]]
         /\ \A i \in 1 .. Len(s) : s[i] \in Nodes
         /\ Rng(s) \subseteq Nodes
         /\ \A x : x \in Rng(s) <=> \E i \in 1 .. Len(s) : s[i] = x
         /\ s = <<>> <=> Len(s) = 0
         /\ Rng(s) = {} <=> Len(s) = 0
<1>1. /\ s \in Seq(Nodes) /\ Len(s) \in Nat /\ DOMAIN s = 1 .. Len(s)
      /\ Single(s) /\ s \in [1 .. Len(s) -> Nodes]
  BY DEF Chains
<1>2. \A i \in 1 .. Len(s) : s[i] \in Nodes
  BY <1>1
<1>3. \A x : x \in Rng(s) <=> \E i \in 1 .. Len(s) : s[i] = x
  BY <1>1 DEF Rng
<1>4. s = <<>> <=> Len(s) = 0
  BY <1>1, EmptySeq
<1>5. Rng(s) = {} <=> Len(s) = 0
  <2>1. Len(s) > 0 => s[1] \in Rng(s)
    BY <1>1, <1>3
  <2>2. Len(s) = 0 => \A i \in 1 .. Len(s) : FALSE
    BY <1>1
  <2> QED
    BY <1>1, <1>3, <2>1, <2>2
<1>6. Rng(s) \subseteq Nodes
  BY <1>2, <1>3
<1>7. s = [i \in 1 .. Len(s) |-> s[i]]
  BY <1>1
<1> QED
  BY <1>1, <1>2, <1>3, <1>4, <1>5, <1>6, <1>7

\* the chain of an empty list
LEMMA EmptyChain == <<>> \in Chains /\ Len(<<>>) = 0 /\ Rng(<<>>) = {}
BY DEF Chains, Single, Rng

\* a function on 1 .. m is a sequence
LEMMA FunctionIsSeq ==
  ASSUME NEW T, NEW m \in Nat, NEW f \in [1 .. m -> T]
  PROVE  f \in Seq(T) /\ Len(f) = m
OBVIOUS

\* an event joins a chain behind its j-th event
LEMMA InsertedFacts ==
  ASSUME NEW s \in Chains, NEW j \in 0 .. Len(s), NEW n \in Nodes, n \notin Rng(s)
  PROVE  LET q == Inserted(s, j, n) IN
         /\ q \in Chains /\ Len(q) = Len(s) + 1 /\ Rng(q) = Rng(s) \cup {n}
         /\ q[j + 1] = n
         /\ \A i \in 1 .. j : q[i] = s[i]
         /\ \A i \in j + 1 .. Len(s) : q[i + 1] = s[i]
<1> DEFINE q == Inserted(s, j, n)
<1>0. /\ s \in Seq(Nodes) /\ Len(s) \in Nat /\ Single(s)
      /\ \A i \in 1 .. Len(s) : s[i] \in Nodes
      /\ \A x : x \in Rng(s) <=> \E i \in 1 .. Len(s) : s[i] = x
  BY ChainFacts
<1>1. q \in [1 .. Len(s) + 1 -> Nodes]
  BY <1>0 DEF Inserted
<1>2. q \in Seq(Nodes) /\ Len(q) = Len(s) + 1
  <2> HIDE DEF q
  <2> QED
    BY <1>0, <1>1, FunctionIsSeq
<1>3. /\ q[j + 1] = n
      /\ \A i \in 1 .. j : q[i] = s[i]
      /\ \A i \in j + 1 .. Len(s) : q[i + 1] = s[i]
      /\ \A i \in j + 2 .. Len(s) + 1 : q[i] = s[i - 1]
  BY <1>0 DEF Inserted
<1> HIDE DEF q
<1>4. \A i \in 1 .. Len(q) : i \in 1 .. j \/ i = j + 1 \/ i \in j + 2 .. Len(s) + 1
  BY <1>0, <1>2
<1>5. \A i \in j + 2 .. Len(s) + 1 : i - 1 \in 1 .. Len(s)
  BY <1>0
<1>6. Single(q)
  <2> SUFFICES ASSUME NEW a \in 1 .. Len(q), NEW b \in 1 .. Len(q), q[a] = q[b]
               PROVE  a = b
    BY DEF Single
  <2> DEFINE At(i) == IF i <= j THEN i ELSE i - 1
  <2>1. \A i \in 1 .. Len(q) : i # j + 1 => At(i) \in 1 .. Len(s) /\ q[i] = s[At(i)]
    BY <1>0, <1>2, <1>3, SMTT(60)
  <2>2. \A i \in 1 .. Len(q) : i # j + 1 => q[i] # n
    <3>1. \A i \in 1 .. Len(s) : s[i] # n
      BY <1>0
    <3> HIDE DEF At
    <3> QED
      BY <2>1, <3>1
  <2>3. CASE a = j + 1 \/ b = j + 1
    BY <1>3, <2>2, <2>3
  <2>4. CASE a # j + 1 /\ b # j + 1
    <3>1. At(a) = At(b)
      <4>1. /\ At(a) \in 1 .. Len(s) /\ At(b) \in 1 .. Len(s)
            /\ s[At(a)] = s[At(b)]
        BY <2>1, <2>4
      <4> HIDE DEF At
      <4> QED
        BY <1>0, <4>1 DEF Single
    <3> QED
      BY <1>0, <1>2, <2>4, <3>1
  <2> QED
    BY <2>3, <2>4
<1>7. q \in Chains /\ DOMAIN q = 1 .. Len(q)
  BY <1>2, <1>6 DEF Chains
<1>8. Rng(q) = Rng(s) \cup {n}
  <2>1. \A x : x \in Rng(q) <=> \E i \in 1 .. Len(q) : q[i] = x
    BY <1>7 DEF Rng
  <2>2. ASSUME NEW x \in Rng(q) PROVE x \in Rng(s) \cup {n}
    <3>1. PICK i \in 1 .. Len(q) : q[i] = x
      BY <2>1, <2>2
    <3>2. i \in 1 .. j => i \in 1 .. Len(s)
      BY <1>0
    <3> QED
      BY <1>0, <1>3, <1>4, <1>5, <3>1, <3>2
  <2>3. ASSUME NEW x \in Rng(s) PROVE x \in Rng(q)
    <3>1. PICK i \in 1 .. Len(s) : s[i] = x
      BY <1>0, <2>3
    <3>2. CASE i <= j
      BY <1>0, <1>2, <1>3, <2>1, <3>1, <3>2
    <3>3. CASE i > j
      <4>1. i \in j + 1 .. Len(s) /\ i + 1 \in 1 .. Len(q)
        BY <1>0, <1>2, <3>3
      <4> QED
        BY <1>3, <2>1, <3>1, <4>1
    <3> QED
      BY <1>0, <3>2, <3>3
  <2>4. n \in Rng(q)
    <3>1. j + 1 \in 1 .. Len(q)
      BY <1>0, <1>2
    <3> QED
      BY <1>3, <2>1, <3>1
  <2> QED
    BY <2>2, <2>3, <2>4
<1> QED
  BY <1>2, <1>3, <1>7, <1>8 DEF q

\* the j-th event leaves a chain
LEMMA WithoutFacts ==
  ASSUME NEW s \in Chains, NEW j \in 1 .. Len(s)
  PROVE  LET q == Without(s, j) IN
         /\ q \in Chains /\ Len(q) = Len(s) - 1 /\ Rng(q) = Rng(s) \ {s[j]}
         /\ \A i \in 1 .. j - 1 : q[i] = s[i]
         /\ \A i \in j .. Len(s) - 1 : q[i] = s[i + 1]
<1> DEFINE q == Without(s, j)
<1>0. /\ s \in Seq(Nodes) /\ Len(s) \in Nat /\ Single(s)
      /\ \A i \in 1 .. Len(s) : s[i] \in Nodes
      /\ \A x : x \in Rng(s) <=> \E i \in 1 .. Len(s) : s[i] = x
  BY ChainFacts
<1>1. q \in [1 .. Len(s) - 1 -> Nodes] /\ Len(s) - 1 \in Nat
  BY <1>0 DEF Without
<1>2. q \in Seq(Nodes) /\ Len(q) = Len(s) - 1
  <2> HIDE DEF q
  <2> QED
    BY <1>0, <1>1, FunctionIsSeq
<1>3. /\ \A i \in 1 .. j - 1 : q[i] = s[i]
      /\ \A i \in j .. Len(s) - 1 : q[i] = s[i + 1]
  BY <1>0 DEF Without
<1> DEFINE At(i) == IF i < j THEN i ELSE i + 1
<1>4. \A i \in 1 .. Len(q) : At(i) \in 1 .. Len(s) \ {j} /\ q[i] = s[At(i)]
  <2> HIDE DEF q
  <2> SUFFICES ASSUME NEW i \in 1 .. Len(q)
               PROVE  At(i) \in 1 .. Len(s) \ {j} /\ q[i] = s[At(i)]
    OBVIOUS
  <2>1. CASE i < j
    <3>1. i \in 1 .. j - 1 /\ i \in 1 .. Len(s) /\ i # j
      BY <1>0, <2>1
    <3> QED
      BY <1>3, <2>1, <3>1
  <2>2. CASE ~(i < j)
    <3>1. i \in j .. Len(s) - 1 /\ i + 1 \in 1 .. Len(s) /\ i + 1 # j
      BY <1>0, <1>2, <2>2
    <3> QED
      BY <1>3, <2>2, <3>1
  <2> QED
    BY <2>1, <2>2
<1> HIDE DEF q
<1>6. Single(q)
  <2> SUFFICES ASSUME NEW a \in 1 .. Len(q), NEW b \in 1 .. Len(q), q[a] = q[b]
               PROVE  a = b
    BY DEF Single
  <2>1. At(a) = At(b)
    BY <1>0, <1>4 DEF Single
  <2> QED
    BY <1>0, <1>2, <2>1
<1>7. q \in Chains /\ DOMAIN q = 1 .. Len(q)
  BY <1>2, <1>6 DEF Chains
<1>8. Rng(q) = Rng(s) \ {s[j]}
  <2>1. \A x : x \in Rng(q) <=> \E i \in 1 .. Len(q) : q[i] = x
    BY <1>7 DEF Rng
  <2>2. ASSUME NEW x \in Rng(q) PROVE x \in Rng(s) \ {s[j]}
    <3>1. PICK i \in 1 .. Len(q) : q[i] = x
      BY <2>1, <2>2
    <3>2. At(i) \in 1 .. Len(s) /\ At(i) # j /\ x = s[At(i)]
      BY <1>4, <3>1
    <3> HIDE DEF At
    <3> QED
      BY <1>0, <3>2 DEF Single
  <2>3. ASSUME NEW x \in Rng(s) \ {s[j]} PROVE x \in Rng(q)
    <3>1. PICK i \in 1 .. Len(s) : s[i] = x
      BY <1>0, <2>3
    <3>2. CASE i < j
      BY <1>0, <1>2, <1>3, <2>1, <3>1, <3>2
    <3>3. CASE i > j
      <4>1. i - 1 \in j .. Len(s) - 1 /\ i - 1 \in 1 .. Len(q) /\ i - 1 + 1 = i
        BY <1>0, <1>2, <3>3
      <4> QED
        BY <1>3, <2>1, <3>1, <4>1
    <3>4. i # j
      BY <2>3, <3>1
    <3> QED
      BY <1>0, <3>2, <3>3, <3>4
  <2> QED
    BY <2>2, <2>3
<1> QED
  BY <1>2, <1>3, <1>7, <1>8 DEF q

\* the chain the other way round
LEMMA ReversedFacts ==
  ASSUME NEW s \in Chains
  PROVE  LET q == Reversed(s) IN
         /\ q \in Chains /\ Len(q) = Len(s)
         /\ \A i \in 1 .. Len(s) : q[i] = s[Len(s) + 1 - i]
<1> DEFINE q == Reversed(s)
<1>0. /\ s \in Seq(Nodes) /\ Len(s) \in Nat /\ Single(s)
      /\ \A i \in 1 .. Len(s) : s[i] \in Nodes
  BY ChainFacts
<1>1. q \in [1 .. Len(s) -> Nodes] /\ \A i \in 1 .. Len(s) : q[i] = s[Len(s) + 1 - i]
  BY <1>0 DEF Reversed
<1> HIDE DEF q
<1>2. q \in Seq(Nodes) /\ Len(q) = Len(s)
  BY <1>0, <1>1, FunctionIsSeq
<1>3. Single(q)
  <2> SUFFICES ASSUME NEW a \in 1 .. Len(q), NEW b \in 1 .. Len(q), q[a] = q[b]
               PROVE  a = b
    BY DEF Single
  <2>1. Len(s) + 1 - a \in 1 .. Len(s) /\ Len(s) + 1 - b \in 1 .. Len(s)
    BY <1>0, <1>2
  <2>2. Len(s) + 1 - a = Len(s) + 1 - b
    BY <1>0, <1>1, <1>2, <2>1 DEF Single
  <2> QED
    BY <1>0, <1>2, <2>2
<1> QED
  BY <1>1, <1>2, <1>3 DEF Chains, q

-----------------------------------------------------------------------------
(* Following the pointers.                                                  *)

\* link leads from start through s, and no further
Follows(link, start, s) ==
  /\ start = IF Len(s) = 0 THEN NULL ELSE s[1]
  /\ \A i \in 1 .. Len(s) : link[s[i]] = IF i = Len(s) THEN NULL ELSE s[i + 1]

\* a chain is no longer than there are addresses
LEMMA ChainShort ==
  ASSUME NEW s \in Chains
  PROVE  Cardinality(Nodes) \in Nat /\ Len(s) <= Cardinality(Nodes)
<1>1. /\ s \in [1 .. Len(s) -> Nodes] /\ Len(s) \in Nat
      /\ \A a, b \in 1 .. Len(s) : s[a] = s[b] => a = b
  BY ChainFacts DEF Single
<1>2. s \in Injection(1 .. Len(s), Nodes)
  BY <1>1 DEF Injection, IsInjective
<1>3. Cardinality(1 .. Len(s)) <= Cardinality(Nodes)
  BY <1>2, FS_Injection, EventListAssumption DEF EventListAssumption
<1>4. Cardinality(1 .. Len(s)) = Len(s)
  <2>1. Cardinality(1 .. Len(s)) = IF 1 > Len(s) THEN 0 ELSE Len(s) - 1 + 1
    BY <1>1, FS_Interval
  <2> QED
    BY <1>1, <2>1
<1> QED
  BY <1>3, <1>4, FS_CardinalityType, EventListAssumption DEF EventListAssumption

\* Walk reads the chain that the links spell.
LEMMA WalkFollows ==
  ASSUME NEW s \in Chains, NEW link, NEW start, Follows(link, start, s)
  PROVE  Walk(link, start) = s
<1> DEFINE N == Cardinality(Nodes)
           Is(h) == h = [k \in 0 .. N |->
                           IF k = 0 THEN start
                           ELSE IF h[k - 1] = NULL THEN NULL ELSE link[h[k - 1]]]
           at == CHOOSE h : Is(h)
           g == [k \in 0 .. N |-> IF k < Len(s) THEN s[k + 1] ELSE NULL]
           steps == {k \in DOMAIN at : at[k] # NULL}
<1>0. /\ Len(s) \in Nat /\ N \in Nat /\ Len(s) <= N /\ NULL \notin Nodes
      /\ \A i \in 1 .. Len(s) : s[i] \in Nodes
      /\ s = [i \in 1 .. Len(s) |-> s[i]]
  BY ChainFacts, ChainShort, EventListAssumption DEF EventListAssumption
<1>1. Walk(link, start) = [i \in 1 .. Cardinality(steps) |-> at[i - 1]]
  BY DEF Walk
<1>2. Is(g)
  <2>1. ASSUME NEW k \in 0 .. N
        PROVE  g[k] = IF k = 0 THEN start
                      ELSE IF g[k - 1] = NULL THEN NULL ELSE link[g[k - 1]]
    <3>1. CASE k = 0
      <4>1. g[0] = IF 0 < Len(s) THEN s[1] ELSE NULL
        BY <1>0
      <4> QED
        BY <1>0, <3>1, <4>1 DEF Follows
    <3>2. CASE k # 0 /\ k < Len(s)
      <4>1. k \in 1 .. Len(s) /\ k # Len(s) /\ k - 1 \in 0 .. N /\ k - 1 < Len(s) /\ k - 1 + 1 = k
        BY <1>0, <3>2
      <4>2. g[k - 1] = s[k] /\ g[k] = s[k + 1]
        BY <3>2, <4>1
      <4>3. g[k - 1] # NULL /\ link[s[k]] = s[k + 1]
        BY <1>0, <4>1, <4>2 DEF Follows
      <4> QED
        BY <3>2, <4>2, <4>3
    <3>3. CASE k # 0 /\ k = Len(s)
      <4>1. k \in 1 .. Len(s) /\ k - 1 \in 0 .. N /\ k - 1 < Len(s) /\ k - 1 + 1 = k
        BY <1>0, <3>3
      <4>2. g[k - 1] = s[k] /\ g[k] = NULL
        BY <3>3, <4>1
      <4>3. g[k - 1] # NULL /\ link[s[k]] = NULL
        BY <1>0, <3>3, <4>1, <4>2 DEF Follows
      <4> QED
        BY <3>3, <4>2, <4>3
    <3>4. CASE k # 0 /\ k > Len(s)
      <4>1. k - 1 \in 0 .. N /\ ~(k - 1 < Len(s)) /\ ~(k < Len(s))
        BY <1>0, <3>4
      <4>2. g[k - 1] = NULL /\ g[k] = NULL
        BY <4>1
      <4> QED
        BY <3>4, <4>2
    <3> QED
      BY <1>0, <3>1, <3>2, <3>3, <3>4
  <2>2. g = [k \in 0 .. N |-> g[k]]
    OBVIOUS
  <2> HIDE DEF g, N
  <2> QED
    BY <2>1, <2>2, Zenon
<1>3. Is(at)
  <2> HIDE DEF Is
  <2> QED
    BY <1>2
<1>4. at = g
  <2> DEFINE X == {k \in Nat : k <= N => at[k] = g[k]}
  <2>1. \A k \in 0 .. N : at[k] = IF k = 0 THEN start
                                  ELSE IF at[k - 1] = NULL THEN NULL ELSE link[at[k - 1]]
    <3> HIDE DEF at, N
    <3> QED
      BY <1>3
  <2>2. \A k \in 0 .. N : g[k] = IF k = 0 THEN start
                                 ELSE IF g[k - 1] = NULL THEN NULL ELSE link[g[k - 1]]
    <3> HIDE DEF g, N
    <3> QED
      BY <1>2
  <2>3. DOMAIN at = 0 .. N /\ DOMAIN g = 0 .. N
    <3> HIDE DEF at
    <3> QED
      BY <1>3
  <2>4. at = [k \in 0 .. N |-> at[k]] /\ g = [k \in 0 .. N |-> g[k]]
    <3> HIDE DEF at
    <3> QED
      BY <1>3, <2>3
  <2> HIDE DEF at, g, N
  <2>5. 0 \in X
    BY <1>0, <2>1, <2>2
  <2>6. ASSUME NEW k \in X PROVE k + 1 \in X
    <3> SUFFICES ASSUME k + 1 <= N PROVE at[k + 1] = g[k + 1]
      OBVIOUS
    <3>1. k + 1 \in 0 .. N /\ k + 1 # 0 /\ k + 1 - 1 = k /\ k <= N
      BY <1>0
    <3>2. at[k] = g[k]
      BY <3>1
    <3> QED
      BY <2>1, <2>2, <3>1, <3>2
  <2>7. Nat \subseteq X
    <3>1. X \in SUBSET Nat
      OBVIOUS
    <3> HIDE DEF X
    <3> QED
      BY <2>5, <2>6, <3>1, Induction
  <2>8. \A k \in 0 .. N : at[k] = g[k]
    BY <1>0, <2>7
  <2> QED
    BY <2>4, <2>8, Zenon
<1>5. steps = 0 .. Len(s) - 1
  <2>1. DOMAIN g = 0 .. N /\ \A k \in 0 .. N : g[k] # NULL <=> k < Len(s)
    <3> SUFFICES ASSUME NEW k \in 0 .. N PROVE g[k] # NULL <=> k < Len(s)
      OBVIOUS
    <3>1. k < Len(s) => k + 1 \in 1 .. Len(s)
      BY <1>0
    <3> QED
      BY <1>0, <3>1
  <2> HIDE DEF g, N, at
  <2> QED
    BY <1>0, <1>4, <2>1
<1>6. Cardinality(steps) = Len(s)
  <2> HIDE DEF steps
  <2>1. 0 \in Int /\ Len(s) - 1 \in Int
    BY <1>0
  <2>2. Cardinality(0 .. Len(s) - 1) = IF 0 > Len(s) - 1 THEN 0 ELSE Len(s) - 1 - 0 + 1
    BY <2>1, FS_Interval
  <2> QED
    BY <1>0, <1>5, <2>2
<1>7. \A i \in 1 .. Len(s) : at[i - 1] = s[i]
  <2> SUFFICES ASSUME NEW i \in 1 .. Len(s) PROVE g[i - 1] = s[i]
    BY <1>4
  <2>1. i - 1 \in 0 .. N /\ i - 1 < Len(s) /\ i - 1 + 1 = i
    BY <1>0
  <2> QED
    BY <2>1
<1> HIDE DEF at, steps
<1> QED
  BY <1>0, <1>1, <1>6, <1>7

\* The list with the ends e is s, by the links of both directions.
Linked(nx, pv, e, s) ==
  /\ e.head = IF Len(s) = 0 THEN NULL ELSE s[1]
  /\ Len(s) > 0 => e.tail = s[Len(s)]
  /\ \A i \in 1 .. Len(s) : /\ nx[s[i]] = IF i = Len(s) THEN NULL ELSE s[i + 1]
                            /\ pv[s[i]] = IF i = 1 THEN NULL ELSE s[i - 1]

\* Both walks read a list that is well linked.
LEMMA LinkedWalks ==
  ASSUME NEW s \in Chains, NEW nx, NEW pv, NEW e, Linked(nx, pv, e, s)
  PROVE  /\ Walk(nx, e.head) = s
         /\ Len(s) > 0 => Walk(pv, e.tail) = Reversed(s)
<1>0. Len(s) \in Nat
  BY ChainFacts
<1>1. Follows(nx, e.head, s)
  BY DEF Linked, Follows
<1>2. ASSUME Len(s) > 0 PROVE Follows(pv, e.tail, Reversed(s))
  <2> DEFINE r == Reversed(s)
  <2>1. r \in Chains /\ Len(r) = Len(s) /\ \A i \in 1 .. Len(s) : r[i] = s[Len(s) + 1 - i]
    BY ReversedFacts
  <2> HIDE DEF r
  <2>2. e.tail = r[1]
    <3>1. 1 \in 1 .. Len(s) /\ Len(s) + 1 - 1 = Len(s)
      BY <1>0, <1>2
    <3> QED
      BY <1>2, <2>1, <3>1 DEF Linked
  <2>3. ASSUME NEW i \in 1 .. Len(r)
        PROVE  pv[r[i]] = IF i = Len(r) THEN NULL ELSE r[i + 1]
    <3>1. Len(s) + 1 - i \in 1 .. Len(s) /\ r[i] = s[Len(s) + 1 - i]
      BY <1>0, <2>1
    <3>2. pv[r[i]] = IF Len(s) + 1 - i = 1 THEN NULL ELSE s[Len(s) + 1 - i - 1]
      BY <3>1 DEF Linked
    <3>3. CASE i = Len(r)
      BY <1>0, <2>1, <3>2, <3>3
    <3>4. CASE i # Len(r)
      <4>1. i + 1 \in 1 .. Len(s) /\ Len(s) + 1 - (i + 1) = Len(s) + 1 - i - 1
            /\ Len(s) + 1 - i # 1
        BY <1>0, <2>1, <3>4
      <4> QED
        BY <2>1, <3>2, <3>4, <4>1
    <3> QED
      BY <3>3, <3>4
  <2>4. Len(r) # 0
    BY <1>2, <2>1
  <2> QED
    BY <2>2, <2>3, <2>4 DEF Follows, r
<1>3. Reversed(s) \in Chains
  BY ReversedFacts
<1> QED
  BY <1>1, <1>2, <1>3, WalkFollows

\* A list whose members keep their links is the same.
LEMMA LinkedKept ==
  ASSUME NEW s \in Chains, NEW nx, NEW pv, NEW e, NEW nx2, NEW pv2,
         Linked(nx, pv, e, s),
         \A m \in Rng(s) : nx2[m] = nx[m] /\ pv2[m] = pv[m]
  PROVE  Linked(nx2, pv2, e, s)
<1>1. \A i \in 1 .. Len(s) : s[i] \in Rng(s)
  BY ChainFacts
<1> QED
  BY <1>1 DEF Linked

\* the links and ends once n is behind the j-th event of s
LinksIn(nx, pv, e, s, j, n, nx2, pv2, e2) ==
  /\ nx2[n] = IF j = Len(s) THEN NULL ELSE s[j + 1]
  /\ pv2[n] = IF j = 0 THEN NULL ELSE s[j]
  /\ \A i \in 1 .. Len(s) : nx2[s[i]] = IF i = j THEN n ELSE nx[s[i]]
  /\ \A i \in 1 .. Len(s) : pv2[s[i]] = IF i = j + 1 THEN n ELSE pv[s[i]]
  /\ e2.head = IF j = 0 THEN n ELSE e.head
  /\ e2.tail = IF j = Len(s) THEN n ELSE e.tail

LEMMA LinkedInserted ==
  ASSUME NEW s \in Chains, NEW nx, NEW pv, NEW e, NEW nx2, NEW pv2, NEW e2,
         NEW j \in 0 .. Len(s), NEW n \in Nodes \ Rng(s),
         Linked(nx, pv, e, s), LinksIn(nx, pv, e, s, j, n, nx2, pv2, e2)
  PROVE  Linked(nx2, pv2, e2, Inserted(s, j, n))
<1> USE DEF LinksIn
<1> DEFINE q == Inserted(s, j, n)
<1>0. Len(s) \in Nat /\ 0 <= j /\ j <= Len(s) /\ j \in Nat
  BY ChainFacts
<1>1. /\ q \in Chains /\ Len(q) = Len(s) + 1 /\ q[j + 1] = n
      /\ \A i \in 1 .. j : q[i] = s[i]
      /\ \A i \in j + 1 .. Len(s) : q[i + 1] = s[i]
  BY InsertedFacts
<1> HIDE DEF q
<1>2. e2.head = q[1]
  <2>1. CASE j = 0
    BY <1>1, <2>1
  <2>2. CASE j # 0
    <3>1. 1 \in 1 .. j /\ Len(s) # 0
      BY <1>0, <2>2
    <3> QED
      BY <1>1, <2>2, <3>1 DEF Linked
  <2> QED
    BY <2>1, <2>2
<1>3. e2.tail = q[Len(q)]
  <2>1. CASE j = Len(s)
    BY <1>1, <2>1
  <2>2. CASE j # Len(s)
    <3>1. Len(s) \in j + 1 .. Len(s) /\ Len(s) > 0
      BY <1>0, <2>2
    <3> QED
      BY <1>1, <2>2, <3>1 DEF Linked
  <2> QED
    BY <2>1, <2>2
<1>4. ASSUME NEW i \in 1 .. Len(q)
      PROVE  /\ nx2[q[i]] = IF i = Len(q) THEN NULL ELSE q[i + 1]
             /\ pv2[q[i]] = IF i = 1 THEN NULL ELSE q[i - 1]
  <2>1. CASE i = j + 1
    <3>1. nx2[n] = IF i = Len(q) THEN NULL ELSE q[i + 1]
      <4>1. j + 1 # Len(q) => j + 1 \in j + 1 .. Len(s)
        BY <1>0, <1>1
      <4> QED
        BY <1>0, <1>1, <2>1, <4>1
    <3>2. pv2[n] = IF i = 1 THEN NULL ELSE q[i - 1]
      <4>1. j # 0 => j \in 1 .. j
        BY <1>0
      <4>2. i - 1 = j /\ (i = 1 <=> j = 0)
        BY <1>0, <2>1
      <4> QED
        BY <1>1, <4>1, <4>2
    <3> QED
      BY <1>1, <2>1, <3>1, <3>2
  <2>2. CASE i \in 1 .. j
    <3>1. i \in 1 .. Len(s) /\ q[i] = s[i] /\ i # Len(q) /\ i # j + 1
      BY <1>0, <1>1, <2>2
    <3>2. nx2[s[i]] = q[i + 1]
      <4>1. i # j => i + 1 \in 1 .. j /\ i # Len(s)
        BY <1>0, <2>2
      <4> QED
        BY <1>1, <3>1, <4>1 DEF Linked
    <3>3. pv2[s[i]] = IF i = 1 THEN NULL ELSE q[i - 1]
      <4>1. i # 1 => i - 1 \in 1 .. j
        BY <1>0, <2>2
      <4> QED
        BY <1>1, <3>1, <4>1 DEF Linked
    <3> QED
      BY <3>1, <3>2, <3>3
  <2>3. CASE i \in j + 2 .. Len(s) + 1
    <3> DEFINE k == i - 1
    <3>1. /\ k \in j + 1 .. Len(s) /\ k \in 1 .. Len(s) /\ k + 1 = i /\ k # j
          /\ i # 1 /\ (k = Len(s) <=> i = Len(q))
      BY <1>0, <1>1, <2>3
    <3> HIDE DEF k
    <3>2. q[i] = s[k]
      BY <1>1, <3>1
    <3>3. nx2[s[k]] = IF i = Len(q) THEN NULL ELSE q[i + 1]
      <4>1. k # Len(s) => k + 1 \in j + 1 .. Len(s)
        BY <1>0, <3>1
      <4>2. nx2[s[k]] = IF k = Len(s) THEN NULL ELSE s[k + 1]
        BY <3>1 DEF Linked
      <4> QED
        BY <1>1, <3>1, <4>1, <4>2
    <3>4. pv2[s[k]] = q[k]
      <4>1. CASE k = j + 1
        BY <1>1, <3>1, <4>1
      <4>2. CASE k # j + 1
        <5>1. k - 1 \in j + 1 .. Len(s) /\ k - 1 + 1 = k /\ k # 1
          BY <1>0, <3>1, <4>2
        <5>2. pv2[s[k]] = s[k - 1]
          BY <3>1, <4>2, <5>1 DEF Linked
        <5> QED
          BY <1>1, <5>1, <5>2
      <4> QED
        BY <4>1, <4>2
    <3> QED
      BY <3>1, <3>2, <3>3, <3>4 DEF k
  <2> QED
    BY <1>0, <1>1, <2>1, <2>2, <2>3
<1>5. Len(q) # 0
  BY <1>0, <1>1
<1> QED
  BY <1>2, <1>3, <1>4, <1>5 DEF Linked, q

\* the links and ends once the j-th event of s is out
LinksOut(nx, pv, e, s, j, nx2, pv2, e2) ==
  /\ \A i \in 1 .. Len(s) : i # j => nx2[s[i]] = IF i + 1 = j THEN nx[s[j]] ELSE nx[s[i]]
  /\ \A i \in 1 .. Len(s) : i # j => pv2[s[i]] = IF i = j + 1 THEN pv[s[j]] ELSE pv[s[i]]
  /\ e2.head = IF j = 1 THEN nx[s[j]] ELSE e.head
  /\ Len(s) > 1 => e2.tail = IF j = Len(s) THEN pv[s[j]] ELSE e.tail

LEMMA LinkedWithout ==
  ASSUME NEW s \in Chains, NEW nx, NEW pv, NEW e, NEW nx2, NEW pv2, NEW e2,
         NEW j \in 1 .. Len(s),
         Linked(nx, pv, e, s), LinksOut(nx, pv, e, s, j, nx2, pv2, e2)
  PROVE  Linked(nx2, pv2, e2, Without(s, j))
<1> USE DEF LinksOut
<1> DEFINE q == Without(s, j)
<1>0. Len(s) \in Nat /\ 1 <= j /\ j <= Len(s) /\ j \in Nat
  BY ChainFacts
<1>1. /\ q \in Chains /\ Len(q) = Len(s) - 1
      /\ \A i \in 1 .. j - 1 : q[i] = s[i]
      /\ \A i \in j .. Len(s) - 1 : q[i] = s[i + 1]
  BY WithoutFacts
<1> HIDE DEF q
<1>2. e2.head = IF Len(q) = 0 THEN NULL ELSE q[1]
  <2>1. CASE j = 1
    <3>0. 1 \in 1 .. Len(s)
      BY <1>0
    <3>1. e2.head = IF 1 = Len(s) THEN NULL ELSE s[1 + 1]
      BY <2>1, <3>0 DEF Linked
    <3>2. Len(q) # 0 => 1 \in j .. Len(s) - 1
      BY <1>0, <1>1, <2>1
    <3>3. Len(q) = 0 <=> 1 = Len(s)
      BY <1>0, <1>1
    <3> QED
      BY <1>1, <3>1, <3>2, <3>3
  <2>2. CASE j # 1
    <3>1. 1 \in 1 .. j - 1 /\ Len(q) # 0 /\ Len(s) # 0
      BY <1>0, <1>1, <2>2
    <3> QED
      BY <1>1, <2>2, <3>1 DEF Linked
  <2> QED
    BY <2>1, <2>2
<1>3. Len(q) > 0 => e2.tail = q[Len(q)]
  <2> SUFFICES ASSUME Len(q) > 0 PROVE e2.tail = q[Len(q)]
    OBVIOUS
  <2>0. Len(s) > 1
    BY <1>0, <1>1
  <2>1. CASE j = Len(s)
    <3>1. Len(s) - 1 \in 1 .. j - 1
      BY <1>0, <2>0, <2>1
    <3>2. e2.tail = s[Len(s) - 1]
      BY <1>0, <2>0, <2>1 DEF Linked
    <3> QED
      BY <1>1, <3>1, <3>2
  <2>2. CASE j # Len(s)
    <3>1. Len(s) - 1 \in j .. Len(s) - 1 /\ Len(s) - 1 + 1 = Len(s)
      BY <1>0, <2>2
    <3>2. e2.tail = s[Len(s)]
      BY <1>0, <2>0, <2>2 DEF Linked
    <3> QED
      BY <1>1, <3>1, <3>2
  <2> QED
    BY <2>1, <2>2
<1>4. ASSUME NEW i \in 1 .. Len(q)
      PROVE  /\ nx2[q[i]] = IF i = Len(q) THEN NULL ELSE q[i + 1]
             /\ pv2[q[i]] = IF i = 1 THEN NULL ELSE q[i - 1]
  <2>1. CASE i < j
    <3>1. i \in 1 .. j - 1 /\ i \in 1 .. Len(s) /\ q[i] = s[i] /\ i # j /\ i # j + 1
      BY <1>0, <1>1, <2>1
    <3>2. pv2[s[i]] = IF i = 1 THEN NULL ELSE q[i - 1]
      <4>1. i # 1 => i - 1 \in 1 .. j - 1
        BY <1>0, <2>1
      <4>2. pv2[s[i]] = IF i = 1 THEN NULL ELSE s[i - 1]
        BY <3>1 DEF Linked
      <4> QED
        BY <1>1, <4>1, <4>2
    <3>3. nx2[s[i]] = IF i = Len(q) THEN NULL ELSE q[i + 1]
      <4>1. CASE i + 1 = j
        <5>1. nx2[s[i]] = IF j = Len(s) THEN NULL ELSE s[j + 1]
          BY <3>1, <4>1 DEF Linked
        <5>2. j # Len(s) => i + 1 \in j .. Len(s) - 1
          BY <1>0, <4>1
        <5>3. j = Len(s) <=> i = Len(q)
          BY <1>0, <1>1, <4>1
        <5> QED
          BY <1>1, <4>1, <5>1, <5>2, <5>3
      <4>2. CASE i + 1 # j
        <5>1. i + 1 \in 1 .. j - 1 /\ i # Len(s) /\ i # Len(q)
          BY <1>0, <1>1, <2>1, <4>2
        <5>2. nx2[s[i]] = s[i + 1]
          BY <3>1, <4>2, <5>1 DEF Linked
        <5> QED
          BY <1>1, <5>1, <5>2
      <4> QED
        BY <4>1, <4>2
    <3> QED
      BY <3>1, <3>2, <3>3
  <2>2. CASE ~(i < j)
    <3> DEFINE k == i + 1
    <3>1. /\ i \in j .. Len(s) - 1 /\ k \in 1 .. Len(s) /\ k # j /\ k + 1 # j
          /\ k # 1 /\ k - 1 = i /\ (k = Len(s) <=> i = Len(q))
      BY <1>0, <1>1, <2>2
    <3>2. q[i] = s[k]
      BY <1>1, <3>1
    <3> HIDE DEF k
    <3>3. nx2[s[k]] = IF i = Len(q) THEN NULL ELSE q[i + 1]
      <4>1. nx2[s[k]] = IF k = Len(s) THEN NULL ELSE s[k + 1]
        BY <3>1 DEF Linked
      <4>2. k # Len(s) => k \in j .. Len(s) - 1 /\ k = i + 1
        BY <1>0, <3>1 DEF k
      <4> QED
        BY <1>1, <3>1, <4>1, <4>2
    <3>4. pv2[s[k]] = IF i = 1 THEN NULL ELSE q[i - 1]
      <4>1. CASE i = j
        <5>1. pv2[s[k]] = IF j = 1 THEN NULL ELSE s[j - 1]
          BY <3>1, <4>1 DEF Linked, k
        <5>2. j # 1 => j - 1 \in 1 .. j - 1
          BY <1>0
        <5> QED
          BY <1>1, <4>1, <5>1, <5>2
      <4>2. CASE i # j
        <5>1. i - 1 \in j .. Len(s) - 1 /\ i - 1 + 1 = i /\ i # 1 /\ k # j + 1
          BY <1>0, <2>2, <3>1, <4>2
        <5>2. pv2[s[k]] = s[i]
          BY <3>1, <5>1 DEF Linked
        <5> QED
          BY <1>1, <5>1, <5>2
      <4> QED
        BY <4>1, <4>2
    <3> QED
      BY <3>2, <3>3, <3>4
  <2> QED
    BY <2>1, <2>2
<1> QED
  BY <1>2, <1>3, <1>4 DEF Linked, q

-----------------------------------------------------------------------------
(* The queue operations, on a queue whose lists are well linked.            *)

QueueType ==
  [list : [Priorities -> [head : Pointers, tail : Pointers]],
   next : [Nodes -> Pointers], prev : [Nodes -> Pointers],
   when : [Nodes -> Times], kind : [Nodes -> Kinds],
   data : [Nodes -> Objects \cup {NULL}], forced : [Nodes -> BOOLEAN],
   freed : SUBSET Nodes, index : [Indexed -> [Objects -> Pointers]]]

\* what a queue operation does not change
Attributes(Q) == <<Q.when, Q.kind, Q.data, Q.forced, Q.freed>>

LinkedAs(Q, p, s) == Linked(Q.next, Q.prev, Q.list[p], s)

\* run times do not decrease
Sorted(s, w) == \A i, j \in 1 .. Len(s) : i < j => w[s[i]] <= w[s[j]]

\* n goes behind the events of s that are not later, which are its first j
Place(s, w, n, j) ==
  /\ j \in 0 .. Len(s)
  /\ \A i \in 1 .. Len(s) : w[s[i]] <= w[n] <=> i <= j

\* R differs from Q in the list p and the links of members of s and n only
Local(Q, R, p, S) ==
  /\ Attributes(R) = Attributes(Q)
  /\ \A q \in Priorities : q # p => R.list[q] = Q.list[q]
  /\ \A m \in Nodes : m \notin S => R.next[m] = Q.next[m] /\ R.prev[m] = Q.prev[m]

\* an index operation changes the index only
LEMMA IndexPutFacts ==
  ASSUME NEW Q \in QueueType, NEW n \in Nodes, NEW entry \in Pointers
  PROVE  LET R == IndexPut(Q, n, entry) IN
         /\ R \in QueueType
         /\ R.list = Q.list /\ R.next = Q.next /\ R.prev = Q.prev
         /\ Attributes(R) = Attributes(Q)
         /\ R.index = IF Q.kind[n] \in Indexed
                      THEN [Q.index EXCEPT ![Q.kind[n]][Q.data[n]] = entry]
                      ELSE Q.index
<1> DEFINE R == IndexPut(Q, n, entry)
           x == [Q.index EXCEPT ![Q.kind[n]][Q.data[n]] = entry]
<1>1. CASE Q.kind[n] \in Indexed
  <2>1. R = [Q EXCEPT !.index = x]
    BY <1>1 DEF IndexPut, QueueType
  <2>2. x \in [Indexed -> [Objects -> Pointers]]
    <3>1. Q.index \in [Indexed -> [Objects -> Pointers]]
      BY DEF QueueType
    <3> QED
      BY <1>1, <3>1
  <2> HIDE DEF x, R
  <2>3. R \in QueueType /\ R.index = x
    BY <2>1, <2>2 DEF QueueType
  <2>4. /\ R.list = Q.list /\ R.next = Q.next /\ R.prev = Q.prev
        /\ Attributes(R) = Attributes(Q)
    BY <2>1 DEF QueueType, Attributes
  <2> QED
    BY <1>1, <2>3, <2>4 DEF x, R
<1>2. CASE Q.kind[n] \notin Indexed
  BY <1>2 DEF IndexPut
<1> QED
  BY <1>1, <1>2

\* A queue with other links and ends is a queue.
Relinked(Q, R, l, nx, pv) ==
  /\ R.list = l /\ R.next = nx /\ R.prev = pv
  /\ R.index = Q.index /\ Attributes(R) = Attributes(Q)

LEMMA Relinking ==
  ASSUME NEW Q \in QueueType,
         NEW l \in [Priorities -> [head : Pointers, tail : Pointers]],
         NEW nx \in [Nodes -> Pointers], NEW pv \in [Nodes -> Pointers]
  PROVE  LET R == [Q EXCEPT !.list = l, !.next = nx, !.prev = pv] IN
         R \in QueueType /\ Relinked(Q, R, l, nx, pv)
<1> DEFINE R == [Q EXCEPT !.list = l, !.next = nx, !.prev = pv]
<1>1. R \in QueueType
  BY DEF QueueType
<1>2. R.list = l /\ R.next = nx /\ R.prev = pv /\ R.index = Q.index
  BY DEF QueueType
<1>3. Attributes(R) = Attributes(Q)
  BY DEF QueueType, Attributes
<1> QED
  BY <1>1, <1>2, <1>3 DEF Relinked

\* add_event
LEMMA AddEventFacts ==
  ASSUME NEW Q \in QueueType, NEW p \in Priorities, NEW s \in Chains,
         LinkedAs(Q, p, s), Sorted(s, Q.when), NEW n \in Nodes \ Rng(s)
  PROVE  LET R == AddEvent(Q, p, n) IN
         /\ R \in QueueType
         /\ R.index = IndexInsert(Q, n).index
         /\ Local(Q, R, p, Rng(s) \cup {n})
         /\ \E j \in 0 .. Len(s) : /\ Place(s, Q.when, n, j)
                                   /\ LinkedAs(R, p, Inserted(s, j, n))
<1> DEFINE B == [Q EXCEPT !.next[n] = NULL, !.prev[n] = NULL]
           P == IndexInsert(B, n)
           head == Q.list[p].head
           back == Backward(P, p)
           hit == {i \in DOMAIN back : Q.when[back[i]] <= Q.when[n]}
           spot == back[First(hit)]
           succ == P.next[spot]
           last == back[Len(back)]
           R == AddEvent(Q, p, n)
<1>1. R = IF head = NULL
          THEN [P EXCEPT !.list[p] = [head |-> n, tail |-> n]]
          ELSE IF Q.when[n] < Q.when[head]
          THEN [P EXCEPT !.prev[head] = n, !.next[n] = head, !.list[p].head = n]
          ELSE IF hit = {}
          THEN [P EXCEPT !.prev[last] = n, !.next[n] = last, !.list[p].head = n]
          ELSE IF succ = NULL
          THEN [P EXCEPT !.prev[n] = spot, !.next[spot] = n, !.list[p].tail = n]
          ELSE [P EXCEPT !.next[n] = succ, !.prev[n] = spot,
                         !.next[spot] = n, !.prev[succ] = n]
  BY DEF AddEvent
<1>2. /\ P \in QueueType /\ P.list = Q.list
      /\ P.next = [Q.next EXCEPT ![n] = NULL] /\ P.prev = [Q.prev EXCEPT ![n] = NULL]
      /\ P.index = IndexInsert(Q, n).index
      /\ Attributes(P) = Attributes(Q)
  <2> DEFINE nx == [Q.next EXCEPT ![n] = NULL]
             pv == [Q.prev EXCEPT ![n] = NULL]
  <2>1. nx \in [Nodes -> Pointers] /\ pv \in [Nodes -> Pointers]
    BY DEF QueueType, Pointers
  <2>2. B = [Q EXCEPT !.list = Q.list, !.next = nx, !.prev = pv]
    BY DEF QueueType
  <2> HIDE DEF nx, pv, B
  <2>3. B \in QueueType /\ Relinked(Q, B, Q.list, nx, pv)
    <3>1. Q.list \in [Priorities -> [head : Pointers, tail : Pointers]]
      BY DEF QueueType
    <3> QED
      BY <2>1, <2>2, <3>1, Relinking
  <2>4. /\ P \in QueueType /\ P.list = B.list /\ P.next = B.next /\ P.prev = B.prev
        /\ Attributes(P) = Attributes(B)
        /\ P.index = IF B.kind[n] \in Indexed
                     THEN [B.index EXCEPT ![B.kind[n]][B.data[n]] = n] ELSE B.index
    <3>1. n \in Pointers
      BY DEF Pointers
    <3> QED
      BY <2>3, <3>1, IndexPutFacts DEF IndexInsert
  <2>5. IndexInsert(Q, n).index = IF Q.kind[n] \in Indexed
                                  THEN [Q.index EXCEPT ![Q.kind[n]][Q.data[n]] = n]
                                  ELSE Q.index
    <3>1. n \in Pointers
      BY DEF Pointers
    <3> QED
      BY <3>1, IndexPutFacts DEF IndexInsert
  <2> HIDE DEF P
  <2> QED
    BY <2>3, <2>4, <2>5 DEF Relinked, Attributes, nx, pv
<1>3. /\ Len(s) \in Nat /\ \A i \in 1 .. Len(s) : s[i] \in Nodes /\ s[i] \in Rng(s) /\ s[i] # n
      /\ NULL \notin Nodes
      /\ \A i, j \in 1 .. Len(s) : s[i] = s[j] => i = j
      /\ s \in Chains
      /\ Q.when \in [Nodes -> Times] /\ \A m \in Nodes : Q.when[m] \in Nat
      /\ P.next \in [Nodes -> Pointers] /\ P.prev \in [Nodes -> Pointers]
      /\ P.list \in [Priorities -> [head : Pointers, tail : Pointers]]
  <2>1. P.next \in [Nodes -> Pointers] /\ P.prev \in [Nodes -> Pointers]
        /\ P.list \in [Priorities -> [head : Pointers, tail : Pointers]]
    <3> HIDE DEF P
    <3> QED
      BY <1>2 DEF QueueType
  <2>2. Q.when \in [Nodes -> Times] /\ \A m \in Nodes : Q.when[m] \in Nat
    BY EventListAssumption DEF QueueType, Times, EventListAssumption
  <2>3. Len(s) \in Nat /\ \A i \in 1 .. Len(s) : s[i] \in Nodes /\ s[i] \in Rng(s)
    BY ChainFacts
  <2>4. \A i \in 1 .. Len(s) : s[i] # n
    BY <2>3
  <2>5. NULL \notin Nodes
    BY EventListAssumption DEF EventListAssumption
  <2>6. \A i, j \in 1 .. Len(s) : s[i] = s[j] => i = j
    BY ChainFacts DEF Single
  <2> HIDE DEF P
  <2> QED
    BY <2>1, <2>2, <2>3, <2>4, <2>5, <2>6
<1>4. Linked(Q.next, Q.prev, Q.list[p], s) /\ Linked(P.next, P.prev, P.list[p], s)
  <2> HIDE DEF P
  <2>1. \A m \in Rng(s) : P.next[m] = Q.next[m] /\ P.prev[m] = Q.prev[m]
    <3>1. Rng(s) \subseteq Nodes
      BY ChainFacts
    <3> QED
      BY <1>2, <3>1 DEF QueueType
  <2>2. Linked(Q.next, Q.prev, Q.list[p], s)
    BY DEF LinkedAs
  <2>3. Linked(P.next, P.prev, Q.list[p], s)
    BY <2>1, <2>2, LinkedKept
  <2> QED
    BY <1>2, <2>2, <2>3
<1>5. head = (IF Len(s) = 0 THEN NULL ELSE s[1]) /\ (Len(s) > 0 => Q.list[p].tail = s[Len(s)])
  BY <1>4 DEF Linked
<1>6. Q.list[p] \in [head : Pointers, tail : Pointers] /\ P.list[p] = Q.list[p]
  BY <1>2 DEF QueueType
<1> DEFINE Goal(j) == /\ R \in QueueType /\ R.index = P.index
                      /\ Local(Q, R, p, Rng(s) \cup {n})
                      /\ Place(s, Q.when, n, j)
                      /\ LinkedAs(R, p, Inserted(s, j, n))
           Fits(j, l, nx, pv) ==
             /\ Place(s, Q.when, n, j)
             /\ R = [P EXCEPT !.list = l, !.next = nx, !.prev = pv]
             /\ \A q \in Priorities : q # p => l[q] = Q.list[q]
             /\ nx[n] = IF j = Len(s) THEN NULL ELSE s[j + 1]
             /\ pv[n] = IF j = 0 THEN NULL ELSE s[j]
             /\ \A m \in Nodes : m # n =>
                  nx[m] = IF j # 0 /\ m = s[j] THEN n ELSE P.next[m]
             /\ \A m \in Nodes : m # n =>
                  pv[m] = IF j # Len(s) /\ m = s[j + 1] THEN n ELSE P.prev[m]
             /\ l[p].head = IF j = 0 THEN n ELSE Q.list[p].head
             /\ l[p].tail = IF j = Len(s) THEN n ELSE Q.list[p].tail
<1>7. ASSUME NEW j \in 0 .. Len(s),
             NEW l \in [Priorities -> [head : Pointers, tail : Pointers]],
             NEW nx \in [Nodes -> Pointers], NEW pv \in [Nodes -> Pointers],
             Fits(j, l, nx, pv)
      PROVE  Goal(j)
  <2> HIDE DEF R, P
  <2>0. R \in QueueType /\ Relinked(P, R, l, nx, pv)
    BY <1>2, <1>7, Relinking
  <2>1. Attributes(R) = Attributes(Q) /\ R.index = P.index
        /\ R.next = nx /\ R.prev = pv /\ R.list = l
    BY <1>2, <2>0 DEF Relinked
  <2>2. Local(Q, R, p, Rng(s) \cup {n})
    <3>1. ASSUME NEW m \in Nodes, m \notin Rng(s) \cup {n}
          PROVE  nx[m] = Q.next[m] /\ pv[m] = Q.prev[m]
      <4>1. m # n /\ (j # 0 => m # s[j]) /\ (j # Len(s) => m # s[j + 1])
        <5>1. (j # 0 => j \in 1 .. Len(s)) /\ (j # Len(s) => j + 1 \in 1 .. Len(s))
          BY <1>3
        <5> QED
          BY <1>3, <3>1, <5>1
      <4>2. nx[m] = P.next[m] /\ pv[m] = P.prev[m]
        BY <1>7, <4>1
      <4>3. P.next[m] = Q.next[m] /\ P.prev[m] = Q.prev[m]
        BY <1>2, <4>1 DEF QueueType
      <4> QED
        BY <4>2, <4>3
    <3> QED
      BY <1>7, <2>1, <3>1 DEF Local
  <2>3. LinkedAs(R, p, Inserted(s, j, n))
    <3>1. \A i \in 1 .. Len(s) : nx[s[i]] = IF i = j THEN n ELSE P.next[s[i]]
      <4> SUFFICES ASSUME NEW i \in 1 .. Len(s) PROVE nx[s[i]] = IF i = j THEN n ELSE P.next[s[i]]
        OBVIOUS
      <4>1. j # 0 => j \in 1 .. Len(s)
        BY <1>3
      <4>2. (j # 0 /\ s[i] = s[j]) <=> i = j
        BY <1>3, <4>1
      <4> QED
        BY <1>3, <1>7, <4>2
    <3>2. \A i \in 1 .. Len(s) : pv[s[i]] = IF i = j + 1 THEN n ELSE P.prev[s[i]]
      <4> SUFFICES ASSUME NEW i \in 1 .. Len(s) PROVE pv[s[i]] = IF i = j + 1 THEN n ELSE P.prev[s[i]]
        OBVIOUS
      <4>1. j # Len(s) => j + 1 \in 1 .. Len(s)
        BY <1>3
      <4>2. (j # Len(s) /\ s[i] = s[j + 1]) <=> i = j + 1
        BY <1>3, <4>1
      <4> QED
        BY <1>3, <1>7, <4>2
    <3>3. l[p].head = (IF j = 0 THEN n ELSE Q.list[p].head)
          /\ l[p].tail = (IF j = Len(s) THEN n ELSE Q.list[p].tail)
          /\ nx[n] = (IF j = Len(s) THEN NULL ELSE s[j + 1])
          /\ pv[n] = (IF j = 0 THEN NULL ELSE s[j])
      BY <1>7
    <3>4. Linked(P.next, P.prev, Q.list[p], s)
      BY <1>4, <1>6
    <3>5. LinksIn(P.next, P.prev, Q.list[p], s, j, n, nx, pv, l[p])
      BY <3>1, <3>2, <3>3 DEF LinksIn
    <3>6. Linked(nx, pv, l[p], Inserted(s, j, n))
      BY <3>4, <3>5, LinkedInserted
    <3> QED
      BY <2>1, <3>6 DEF LinkedAs
  <2> QED
    BY <1>7, <2>0, <2>1, <2>2, <2>3
<1> HIDE DEF P, R, Goal, Fits
<1>8. CASE head = NULL
  <2>1. Len(s) = 0
    <3>1. Len(s) # 0 => s[1] # NULL
      BY <1>3
    <3> QED
      BY <1>5, <1>8, <3>1
  <2> DEFINE l == [P.list EXCEPT ![p] = [head |-> n, tail |-> n]]
  <2>2. R = [P EXCEPT !.list = l, !.next = P.next, !.prev = P.prev]
    BY <1>1, <1>2, <1>8 DEF QueueType
  <2>3. l \in [Priorities -> [head : Pointers, tail : Pointers]]
        /\ l[p].head = n /\ l[p].tail = n
        /\ \A q \in Priorities : q # p => l[q] = Q.list[q]
    BY <1>2, <1>3 DEF Pointers
  <2>4. Place(s, Q.when, n, 0)
    BY <2>1 DEF Place
  <2>5. P.next[n] = NULL /\ P.prev[n] = NULL
    BY <1>2 DEF QueueType
  <2> HIDE DEF l
  <2>6. Fits(0, l, P.next, P.prev)
    BY <1>3, <2>1, <2>2, <2>3, <2>4, <2>5 DEF Fits
  <2>7. Goal(0)
    <3>1. 0 \in 0 .. Len(s)
      BY <1>3
    <3>2. P.next \in [Nodes -> Pointers] /\ P.prev \in [Nodes -> Pointers]
      BY <1>3
    <3>3. l \in [Priorities -> [head : Pointers, tail : Pointers]]
      BY <2>3
    <3> QED
      BY <1>7, <2>6, <3>1, <3>2, <3>3
  <2> QED
    BY <1>2, <2>1, <2>7 DEF Goal, R
<1>9. CASE head # NULL /\ Q.when[n] < Q.when[head]
  <2>1. Len(s) > 0 /\ head = s[1] /\ 1 \in 1 .. Len(s)
    BY <1>3, <1>5, <1>9
  <2> DEFINE l == [P.list EXCEPT ![p] = [@ EXCEPT !.head = n]]
             nx == [P.next EXCEPT ![n] = head]
             pv == [P.prev EXCEPT ![head] = n]
  <2>2. R = [P EXCEPT !.list = l, !.next = nx, !.prev = pv]
    BY <1>1, <1>2, <1>9 DEF QueueType
  <2>3. l \in [Priorities -> [head : Pointers, tail : Pointers]]
        /\ l[p].head = n /\ l[p].tail = Q.list[p].tail
        /\ \A q \in Priorities : q # p => l[q] = Q.list[q]
    <3> DEFINE e == [Q.list[p] EXCEPT !.head = n]
    <3>1. e \in [head : Pointers, tail : Pointers] /\ e.head = n /\ e.tail = Q.list[p].tail
      BY <1>6 DEF Pointers
    <3>2. l = [P.list EXCEPT ![p] = e]
      BY <1>6
    <3>3. \A q \in Priorities : P.list[q] = Q.list[q]
      BY <1>2
    <3> HIDE DEF e, l
    <3> QED
      BY <1>3, <3>1, <3>2, <3>3
  <2>4. nx \in [Nodes -> Pointers] /\ pv \in [Nodes -> Pointers]
    BY <1>3, <2>1 DEF Pointers
  <2>5. Place(s, Q.when, n, 0)
    <3>1. \A i \in 1 .. Len(s) : Q.when[s[1]] <= Q.when[s[i]]
      BY <1>3, <2>1 DEF Sorted
    <3>2. \A i \in 1 .. Len(s) : ~(Q.when[s[i]] <= Q.when[n]) /\ ~(i <= 0)
      BY <1>3, <1>9, <2>1, <3>1
    <3> QED
      BY <1>3, <3>2 DEF Place
  <2>6. /\ nx[n] = s[1] /\ pv[n] = NULL
        /\ \A m \in Nodes : m # n => nx[m] = P.next[m]
        /\ \A m \in Nodes : m # n => pv[m] = IF m = s[1] THEN n ELSE P.prev[m]
    <3>1. P.prev[n] = NULL
      BY <1>2 DEF QueueType
    <3>2. s[1] \in Nodes /\ s[1] # n
      BY <1>3, <2>1
    <3> QED
      BY <1>3, <2>1, <3>1, <3>2
  <2> HIDE DEF l, nx, pv
  <2>7. Goal(0)
    <3>1. 0 \in 0 .. Len(s) /\ 0 # Len(s) /\ 0 + 1 = 1
      BY <1>3, <2>1
    <3>2. Fits(0, l, nx, pv)
      BY <2>2, <2>3, <2>5, <2>6, <3>1 DEF Fits
    <3> QED
      BY <1>7, <2>3, <2>4, <3>1, <3>2
  <2> QED
    BY <1>2, <1>3, <2>1, <2>7 DEF Goal, R
<1>10. CASE head # NULL /\ ~(Q.when[n] < Q.when[head])
  <2>1. Len(s) > 0 /\ head = s[1] /\ 1 \in 1 .. Len(s)
    BY <1>3, <1>5, <1>10
  <2>2. /\ back = Reversed(s) /\ Len(back) = Len(s) /\ DOMAIN back = 1 .. Len(s)
        /\ \A i \in 1 .. Len(s) : back[i] = s[Len(s) + 1 - i]
    <3>1. back = Reversed(s)
      BY <1>4, <2>1, LinkedWalks DEF Backward
    <3>2. LET q == Reversed(s) IN
            /\ q \in Chains /\ Len(q) = Len(s)
            /\ \A i \in 1 .. Len(s) : q[i] = s[Len(s) + 1 - i]
      BY ReversedFacts
    <3>3. Reversed(s) \in Chains => DOMAIN Reversed(s) = 1 .. Len(Reversed(s))
      BY ChainFacts
    <3> HIDE DEF back
    <3> QED
      BY <3>1, <3>2, <3>3
  <2> HIDE DEF back
  <2>3. hit \in SUBSET Nat /\ Len(s) \in hit
    <3>1. Len(s) \in 1 .. Len(s) /\ Len(s) + 1 - Len(s) = 1
      BY <1>3, <2>1
    <3>2. back[Len(s)] = s[1]
      BY <2>2, <3>1
    <3>3. Q.when[s[1]] <= Q.when[n]
      BY <1>3, <1>10, <2>1
    <3> QED
      BY <1>3, <2>2, <3>1, <3>2, <3>3
  <2> DEFINE f == First(hit)
             j == Len(s) + 1 - f
  <2>4. f \in hit /\ \A i \in hit : f <= i
    BY <2>3, FirstIsLeast
  <2>5. /\ f \in 1 .. Len(s) /\ j \in 1 .. Len(s) /\ back[f] = s[j]
        /\ Q.when[s[j]] <= Q.when[n]
    <3>1. f \in 1 .. Len(s) /\ Q.when[back[f]] <= Q.when[n]
      BY <2>2, <2>4
    <3> HIDE DEF f
    <3> QED
      BY <1>3, <2>2, <3>1
  <2>6. Place(s, Q.when, n, j)
    <3> HIDE DEF f
    <3>1. ASSUME NEW i \in 1 .. Len(s), i <= j PROVE Q.when[s[i]] <= Q.when[n]
      <4> HIDE DEF j
      <4>1. i = j \/ i < j
        BY <1>3, <2>5, <3>1
      <4>2. Q.when[s[i]] <= Q.when[s[j]]
        BY <1>3, <2>5, <4>1 DEF Sorted
      <4> QED
        BY <1>3, <2>5, <4>2
    <3>2. ASSUME NEW i \in 1 .. Len(s), Q.when[s[i]] <= Q.when[n] PROVE i <= j
      <4> DEFINE k == Len(s) + 1 - i
      <4>1. k \in 1 .. Len(s) /\ Len(s) + 1 - k = i
        BY <1>3
      <4> HIDE DEF k
      <4>2. k \in hit
        BY <2>2, <3>2, <4>1
      <4>3. f <= k
        BY <2>4, <4>2
      <4> QED
        BY <1>3, <2>5, <4>1, <4>3
    <3>3. j \in 0 .. Len(s)
      BY <1>3, <2>5
    <3> HIDE DEF j
    <3> QED
      BY <3>1, <3>2, <3>3 DEF Place
  <2>7. hit # {} /\ spot = s[j] /\ s[j] \in Nodes /\ s[j] # n
    BY <1>3, <2>3, <2>5
  <2>8. succ = IF j = Len(s) THEN NULL ELSE s[j + 1]
    <3>1. P.next[s[j]] = IF j = Len(s) THEN NULL ELSE s[j + 1]
      <4> HIDE DEF j
      <4> QED
        BY <1>4, <2>5 DEF Linked
    <3> QED
      BY <2>7, <3>1
  <2> HIDE DEF hit, spot, succ, j, f
  <2>9. P.next[n] = NULL /\ P.prev[n] = NULL
    BY <1>2 DEF QueueType
  <2>10. Goal(j)
    <3>1. CASE j = Len(s)
      <4> DEFINE l == [P.list EXCEPT ![p] = [@ EXCEPT !.tail = n]]
                 nx == [P.next EXCEPT ![spot] = n]
                 pv == [P.prev EXCEPT ![n] = spot]
      <4>1. R = [P EXCEPT !.list = l, !.next = nx, !.prev = pv]
        BY <1>1, <1>2, <1>10, <2>7, <2>8, <3>1 DEF QueueType
      <4>2. l \in [Priorities -> [head : Pointers, tail : Pointers]]
            /\ l[p].tail = n /\ l[p].head = Q.list[p].head
            /\ \A q \in Priorities : q # p => l[q] = Q.list[q]
        <5> DEFINE e == [Q.list[p] EXCEPT !.tail = n]
        <5>1. e \in [head : Pointers, tail : Pointers] /\ e.tail = n /\ e.head = Q.list[p].head
          BY <1>6 DEF Pointers
        <5>2. l = [P.list EXCEPT ![p] = e]
          BY <1>6
        <5>3. \A q \in Priorities : P.list[q] = Q.list[q]
          BY <1>2
        <5> HIDE DEF e, l
        <5> QED
          BY <1>3, <5>1, <5>2, <5>3
      <4>3. nx \in [Nodes -> Pointers] /\ pv \in [Nodes -> Pointers]
        BY <1>3, <2>7 DEF Pointers
      <4>4. /\ nx[n] = NULL /\ pv[n] = s[j]
            /\ \A m \in Nodes : m # n => nx[m] = IF m = s[j] THEN n ELSE P.next[m]
            /\ \A m \in Nodes : m # n => pv[m] = P.prev[m]
        BY <1>3, <2>7, <2>9
      <4>5. j \in 0 .. Len(s) /\ j # 0
        BY <1>3, <2>5
      <4> HIDE DEF l, nx, pv
      <4>6. Fits(j, l, nx, pv)
        BY <2>6, <3>1, <4>1, <4>2, <4>4, <4>5 DEF Fits
      <4> QED
        BY <1>7, <4>2, <4>3, <4>5, <4>6
    <3>2. CASE j # Len(s)
      <4> DEFINE nx == [[P.next EXCEPT ![n] = succ] EXCEPT ![spot] = n]
                 pv == [[P.prev EXCEPT ![n] = spot] EXCEPT ![succ] = n]
      <4>0. j + 1 \in 1 .. Len(s) /\ succ = s[j + 1] /\ succ \in Nodes /\ succ # n
            /\ succ # NULL /\ succ # spot
        <5>1. j + 1 \in 1 .. Len(s) /\ j + 1 # j
          BY <1>3, <2>5, <3>2
        <5> QED
          BY <1>3, <2>5, <2>7, <2>8, <3>2, <5>1
      <4>1. R = [P EXCEPT !.list = P.list, !.next = nx, !.prev = pv]
        <5>1. R = [P EXCEPT !.next[n] = succ, !.prev[n] = spot,
                            !.next[spot] = n, !.prev[succ] = n]
          BY <1>1, <1>10, <2>7, <4>0
        <5> QED
          BY <1>2, <5>1 DEF QueueType
      <4>2. P.list \in [Priorities -> [head : Pointers, tail : Pointers]]
            /\ P.list[p] = Q.list[p]
            /\ \A q \in Priorities : q # p => P.list[q] = Q.list[q]
        BY <1>2, <1>3
      <4>3. nx \in [Nodes -> Pointers] /\ pv \in [Nodes -> Pointers]
        BY <1>3, <2>7, <4>0 DEF Pointers
      <4>4. /\ nx[n] = s[j + 1] /\ pv[n] = s[j]
            /\ \A m \in Nodes : m # n => nx[m] = IF m = s[j] THEN n ELSE P.next[m]
            /\ \A m \in Nodes : m # n => pv[m] = IF m = s[j + 1] THEN n ELSE P.prev[m]
        BY <1>3, <2>7, <4>0
      <4>5. j \in 0 .. Len(s) /\ j # 0
        BY <1>3, <2>5
      <4> HIDE DEF nx, pv
      <4>6. Fits(j, P.list, nx, pv)
        BY <2>6, <3>2, <4>1, <4>2, <4>4, <4>5 DEF Fits
      <4> QED
        BY <1>7, <4>2, <4>3, <4>5, <4>6
    <3> QED
      BY <3>1, <3>2
  <2>11. j \in 0 .. Len(s)
    BY <2>6 DEF Place
  <2> QED
    BY <1>2, <2>10, <2>11 DEF Goal, R
<1> QED
  BY <1>8, <1>9, <1>10

\* What unlinking the j-th event of s comes down to, its own links aside.
Unlinks(Q, p, s, j, l, nx, pv) ==
  /\ \A q \in Priorities : q # p => l[q] = Q.list[q]
  /\ \A m \in Nodes : m # s[j] =>
       nx[m] = IF j # 1 /\ m = s[j - 1] THEN Q.next[s[j]] ELSE Q.next[m]
  /\ \A m \in Nodes : m # s[j] =>
       pv[m] = IF j # Len(s) /\ m = s[j + 1] THEN Q.prev[s[j]] ELSE Q.prev[m]
  /\ l[p].head = IF j = 1 THEN Q.next[s[j]] ELSE Q.list[p].head
  /\ Len(s) > 1 => l[p].tail = IF j = Len(s) THEN Q.prev[s[j]] ELSE Q.list[p].tail

LEMMA Unlinking ==
  ASSUME NEW Q \in QueueType, NEW p \in Priorities, NEW s \in Chains,
         LinkedAs(Q, p, s), NEW j \in 1 .. Len(s),
         NEW l \in [Priorities -> [head : Pointers, tail : Pointers]],
         NEW nx \in [Nodes -> Pointers], NEW pv \in [Nodes -> Pointers],
         Unlinks(Q, p, s, j, l, nx, pv)
  PROVE  LET P == IndexErase(Q, s[j])
             R == [P EXCEPT !.list = l, !.next = nx, !.prev = pv]
         IN  /\ R \in QueueType /\ R.index = P.index
             /\ Local(Q, R, p, Rng(s))
             /\ LinkedAs(R, p, Without(s, j))
<1> DEFINE P == IndexErase(Q, s[j])
           R == [P EXCEPT !.list = l, !.next = nx, !.prev = pv]
<1>1. /\ Len(s) \in Nat /\ \A i \in 1 .. Len(s) : s[i] \in Nodes /\ s[i] \in Rng(s)
      /\ \A a, b \in 1 .. Len(s) : s[a] = s[b] => a = b
  BY ChainFacts DEF Single
<1>2. P \in QueueType /\ Attributes(P) = Attributes(Q)
  <2>1. NULL \in Pointers
    BY DEF Pointers
  <2> QED
    BY <1>1, <2>1, IndexPutFacts DEF IndexErase
<1> HIDE DEF P
<1>3. R \in QueueType /\ Relinked(P, R, l, nx, pv)
  BY <1>2, Relinking
<1> HIDE DEF R
<1>4. Attributes(R) = Attributes(Q) /\ R.index = P.index
      /\ R.list = l /\ R.next = nx /\ R.prev = pv
  BY <1>2, <1>3 DEF Relinked
<1>5. Local(Q, R, p, Rng(s))
  <2>1. ASSUME NEW m \in Nodes, m \notin Rng(s)
        PROVE  nx[m] = Q.next[m] /\ pv[m] = Q.prev[m]
    <3>1. m # s[j] /\ (j # 1 => m # s[j - 1]) /\ (j # Len(s) => m # s[j + 1])
      <4>1. (j # 1 => j - 1 \in 1 .. Len(s)) /\ (j # Len(s) => j + 1 \in 1 .. Len(s))
        BY <1>1
      <4> QED
        BY <1>1, <2>1, <4>1
    <3> QED
      BY <3>1 DEF Unlinks
  <2> QED
    BY <1>4, <2>1 DEF Local, Unlinks
<1>6. LinkedAs(R, p, Without(s, j))
  <2>1. \A i \in 1 .. Len(s) : i # j =>
          nx[s[i]] = IF i + 1 = j THEN Q.next[s[j]] ELSE Q.next[s[i]]
    <3> SUFFICES ASSUME NEW i \in 1 .. Len(s), i # j
                 PROVE  nx[s[i]] = IF i + 1 = j THEN Q.next[s[j]] ELSE Q.next[s[i]]
      OBVIOUS
    <3>1. j # 1 => j - 1 \in 1 .. Len(s)
      BY <1>1
    <3>2. s[i] # s[j] /\ ((j # 1 /\ s[i] = s[j - 1]) <=> i + 1 = j)
      BY <1>1, <3>1
    <3> QED
      BY <1>1, <3>2 DEF Unlinks
  <2>2. \A i \in 1 .. Len(s) : i # j =>
          pv[s[i]] = IF i = j + 1 THEN Q.prev[s[j]] ELSE Q.prev[s[i]]
    <3> SUFFICES ASSUME NEW i \in 1 .. Len(s), i # j
                 PROVE  pv[s[i]] = IF i = j + 1 THEN Q.prev[s[j]] ELSE Q.prev[s[i]]
      OBVIOUS
    <3>1. j # Len(s) => j + 1 \in 1 .. Len(s)
      BY <1>1
    <3>2. s[i] # s[j] /\ ((j # Len(s) /\ s[i] = s[j + 1]) <=> i = j + 1)
      BY <1>1, <3>1
    <3> QED
      BY <1>1, <3>2 DEF Unlinks
  <2>3. /\ l[p].head = IF j = 1 THEN Q.next[s[j]] ELSE Q.list[p].head
        /\ Len(s) > 1 => l[p].tail = IF j = Len(s) THEN Q.prev[s[j]] ELSE Q.list[p].tail
    BY DEF Unlinks
  <2>4. Linked(Q.next, Q.prev, Q.list[p], s)
    BY DEF LinkedAs
  <2>5. LinksOut(Q.next, Q.prev, Q.list[p], s, j, nx, pv, l[p])
    BY <2>1, <2>2, <2>3 DEF LinksOut
  <2>6. Linked(nx, pv, l[p], Without(s, j))
    BY <2>4, <2>5, LinkedWithout
  <2> QED
    BY <1>4, <2>6 DEF LinkedAs
<1> QED
  BY <1>3, <1>4, <1>5, <1>6 DEF R, P

\* remove_event, of an event that is in the list
LEMMA RemoveEventFacts ==
  ASSUME NEW Q \in QueueType, NEW p \in Priorities, NEW s \in Chains,
         LinkedAs(Q, p, s), NEW j \in 1 .. Len(s)
  PROVE  LET R == RemoveEvent(Q, p, s[j]) IN
         /\ R \in QueueType /\ R.index = IndexErase(Q, s[j]).index
         /\ Local(Q, R, p, Rng(s))
         /\ LinkedAs(R, p, Without(s, j))
<1> DEFINE n == s[j]
           P == IndexErase(Q, n)
           head == Q.list[p].head
           succ == Q.next[n]
           preds == {m \in Members(Q, p) : Q.next[m] = n}
           pred == CHOOSE m \in preds : TRUE
           R == RemoveEvent(Q, p, n)
           Goal == /\ R \in QueueType /\ R.index = P.index
                   /\ Local(Q, R, p, Rng(s))
                   /\ LinkedAs(R, p, Without(s, j))
<1> SUFFICES Goal
  OBVIOUS
<1>1. R = IF head = NULL THEN Q
          ELSE IF head = n /\ succ = NULL
          THEN [P EXCEPT !.prev[n] = NULL,
                         !.list[p] = [head |-> NULL, tail |-> NULL]]
          ELSE IF head = n
          THEN [P EXCEPT !.prev[n] = NULL, !.prev[succ] = NULL,
                         !.list[p].head = succ]
          ELSE IF preds = {} THEN P
          ELSE IF succ = NULL
          THEN [P EXCEPT !.next[pred] = NULL, !.prev[n] = NULL,
                         !.list[p].tail = pred]
          ELSE [P EXCEPT !.next[pred] = succ, !.prev[succ] = pred,
                         !.next[n] = NULL, !.prev[n] = NULL]
  BY DEF RemoveEvent
<1>2. /\ Len(s) \in Nat /\ \A i \in 1 .. Len(s) : s[i] \in Nodes
      /\ \A a, b \in 1 .. Len(s) : s[a] = s[b] => a = b
      /\ NULL \notin Nodes /\ n \in Nodes
  BY ChainFacts, EventListAssumption DEF Single, EventListAssumption
<1>3. P \in QueueType /\ P.list = Q.list /\ P.next = Q.next /\ P.prev = Q.prev
  <2>1. NULL \in Pointers
    BY DEF Pointers
  <2> QED
    BY <1>2, <2>1, IndexPutFacts DEF IndexErase
<1>4. /\ Q.next \in [Nodes -> Pointers] /\ Q.prev \in [Nodes -> Pointers]
      /\ Q.list \in [Priorities -> [head : Pointers, tail : Pointers]]
      /\ NULL \in Pointers /\ Nodes \subseteq Pointers
  BY DEF QueueType, Pointers
<1> HIDE DEF P
<1>5. /\ head = s[1] /\ Q.list[p].tail = s[Len(s)] /\ head # NULL
      /\ succ = (IF j = Len(s) THEN NULL ELSE s[j + 1])
      /\ Q.prev[n] = (IF j = 1 THEN NULL ELSE s[j - 1])
      /\ head = n <=> j = 1
      /\ succ = NULL <=> j = Len(s)
      /\ Q.list[p] \in [head : Pointers, tail : Pointers]
  <2>1. 1 \in 1 .. Len(s) /\ Len(s) > 0 /\ (j # Len(s) => j + 1 \in 1 .. Len(s))
    BY <1>2
  <2>2. head = s[1] /\ Q.list[p].tail = s[Len(s)]
        /\ succ = (IF j = Len(s) THEN NULL ELSE s[j + 1])
        /\ Q.prev[n] = (IF j = 1 THEN NULL ELSE s[j - 1])
    BY <2>1 DEF LinkedAs, Linked
  <2> QED
    BY <1>2, <1>4, <2>1, <2>2
<1>6. ASSUME j # 1 PROVE preds = {s[j - 1]} /\ pred = s[j - 1]
  <2>1. Members(Q, p) = Rng(s)
    <3>1. Forward(Q, p) = s
      BY LinkedWalks DEF LinkedAs, Forward
    <3> QED
      BY <3>1 DEF Members, Rng
  <2>2. \A m : m \in Rng(s) <=> \E i \in 1 .. Len(s) : s[i] = m
    BY ChainFacts
  <2>3. \A i \in 1 .. Len(s) : Q.next[s[i]] = IF i = Len(s) THEN NULL ELSE s[i + 1]
    BY DEF LinkedAs, Linked
  <2>4. j - 1 \in 1 .. Len(s) /\ j - 1 # Len(s) /\ j - 1 + 1 = j
    BY <1>2, <1>6
  <2>5. s[j - 1] \in preds
    BY <2>1, <2>2, <2>3, <2>4
  <2>6. ASSUME NEW m \in preds PROVE m = s[j - 1]
    <3>1. PICK i \in 1 .. Len(s) : s[i] = m
      BY <2>1, <2>2
    <3>2. i # Len(s) /\ s[i + 1] = n
      BY <1>2, <2>3, <3>1
    <3>3. i + 1 \in 1 .. Len(s)
      BY <1>2, <3>2
    <3>4. i + 1 = j
      BY <1>2, <3>2, <3>3
    <3> QED
      BY <1>2, <3>1, <3>4
  <2>7. preds = {s[j - 1]}
    BY <2>5, <2>6
  <2> HIDE DEF preds
  <2> QED
    BY <2>7
<1>7. ASSUME NEW l \in [Priorities -> [head : Pointers, tail : Pointers]],
             NEW nx \in [Nodes -> Pointers], NEW pv \in [Nodes -> Pointers],
             R = [P EXCEPT !.list = l, !.next = nx, !.prev = pv],
             Unlinks(Q, p, s, j, l, nx, pv)
      PROVE  Goal
  <2> HIDE DEF R
  <2>1. LET P0 == IndexErase(Q, s[j])
            R0 == [P0 EXCEPT !.list = l, !.next = nx, !.prev = pv]
        IN  /\ R0 \in QueueType /\ R0.index = P0.index
            /\ Local(Q, R0, p, Rng(s))
            /\ LinkedAs(R0, p, Without(s, j))
    BY <1>7, Unlinking
  <2> QED
    BY <1>7, <2>1 DEF P
<1> HIDE DEF R, Goal
<1>8. CASE j = 1 /\ Len(s) = 1
  <2> DEFINE l == [Q.list EXCEPT ![p] = [head |-> NULL, tail |-> NULL]]
             pv == [Q.prev EXCEPT ![n] = NULL]
  <2>1. R = [P EXCEPT !.list = l, !.next = Q.next, !.prev = pv]
    <3>1. R = [P EXCEPT !.prev[n] = NULL, !.list[p] = [head |-> NULL, tail |-> NULL]]
      BY <1>1, <1>5, <1>8
    <3> QED
      BY <1>3, <3>1 DEF QueueType
  <2>2. l \in [Priorities -> [head : Pointers, tail : Pointers]] /\ pv \in [Nodes -> Pointers]
    BY <1>4
  <2>3. Unlinks(Q, p, s, j, l, Q.next, pv)
    <3>1. l[p].head = NULL /\ \A q \in Priorities : q # p => l[q] = Q.list[q]
      BY <1>4
    <3>2. \A m \in Nodes : m # n => pv[m] = Q.prev[m]
      BY <1>4
    <3> HIDE DEF l, pv
    <3> QED
      BY <1>5, <1>8, <3>1, <3>2 DEF Unlinks
  <2> HIDE DEF l, pv
  <2> QED
    BY <1>4, <1>7, <2>1, <2>2, <2>3
<1>9. CASE j = 1 /\ Len(s) # 1
  <2>0. j # Len(s) /\ Len(s) > 1 /\ j + 1 \in 1 .. Len(s)
    <3>1. Len(s) \in Nat /\ j \in Nat /\ 1 <= j /\ j <= Len(s)
      BY <1>2
    <3>2. j # Len(s)
      BY <1>9
    <3> QED
      BY <3>1, <3>2
  <2>1. succ = s[j + 1] /\ succ \in Nodes /\ succ # NULL /\ succ # n
    <3>1. j + 1 # j
      BY <1>2
    <3> QED
      BY <1>2, <1>5, <2>0, <3>1
  <2> DEFINE l == [Q.list EXCEPT ![p] = [@ EXCEPT !.head = succ]]
             pv == [[Q.prev EXCEPT ![n] = NULL] EXCEPT ![succ] = NULL]
  <2>2. R = [P EXCEPT !.list = l, !.next = Q.next, !.prev = pv]
    <3>1. R = [P EXCEPT !.prev[n] = NULL, !.prev[succ] = NULL, !.list[p].head = succ]
      BY <1>1, <1>5, <1>9, <2>1
    <3> QED
      BY <1>3, <3>1 DEF QueueType
  <2>3. l \in [Priorities -> [head : Pointers, tail : Pointers]] /\ pv \in [Nodes -> Pointers]
    BY <1>4, <1>5, <2>1
  <2>4. Unlinks(Q, p, s, j, l, Q.next, pv)
    <3>1. l[p].head = succ /\ l[p].tail = Q.list[p].tail
          /\ \A q \in Priorities : q # p => l[q] = Q.list[q]
      BY <1>4, <1>5
    <3>2. \A m \in Nodes : m # n => pv[m] = IF m = s[j + 1] THEN NULL ELSE Q.prev[m]
      BY <1>4, <2>1
    <3> HIDE DEF l, pv
    <3> QED
      BY <1>5, <1>9, <2>0, <3>1, <3>2 DEF Unlinks
  <2> HIDE DEF l, pv
  <2> QED
    BY <1>4, <1>7, <2>2, <2>3, <2>4
<1>10. CASE j # 1 /\ j = Len(s)
  <2>0. j - 1 \in 1 .. Len(s) /\ j - 1 # j
    BY <1>2, <1>10
  <2>1. pred = s[j - 1] /\ pred \in Nodes /\ pred # n /\ preds # {}
    BY <1>2, <1>6, <1>10, <2>0
  <2> HIDE DEF pred, preds
  <2> DEFINE l == [Q.list EXCEPT ![p] = [@ EXCEPT !.tail = pred]]
             nx == [Q.next EXCEPT ![pred] = NULL]
             pv == [Q.prev EXCEPT ![n] = NULL]
  <2>2. R = [P EXCEPT !.list = l, !.next = nx, !.prev = pv]
    <3>1. R = [P EXCEPT !.next[pred] = NULL, !.prev[n] = NULL, !.list[p].tail = pred]
      BY <1>1, <1>5, <1>10, <2>1
    <3> QED
      BY <1>3, <3>1 DEF QueueType
  <2>3. l \in [Priorities -> [head : Pointers, tail : Pointers]]
        /\ nx \in [Nodes -> Pointers] /\ pv \in [Nodes -> Pointers]
    BY <1>4, <1>5, <2>1
  <2>4. Unlinks(Q, p, s, j, l, nx, pv)
    <3>1. l[p].head = head /\ l[p].tail = s[j - 1]
          /\ \A q \in Priorities : q # p => l[q] = Q.list[q]
      BY <1>4, <1>5, <2>1
    <3>2. /\ \A m \in Nodes : m # n => pv[m] = Q.prev[m]
          /\ \A m \in Nodes : m # n => nx[m] = IF m = s[j - 1] THEN NULL ELSE Q.next[m]
      BY <1>4, <2>1
    <3> HIDE DEF l, pv, nx
    <3> QED
      BY <1>5, <1>10, <3>1, <3>2 DEF Unlinks
  <2> HIDE DEF l, pv, nx
  <2> QED
    BY <1>4, <1>7, <2>2, <2>3, <2>4
<1>11. CASE j # 1 /\ j # Len(s)
  <2>0. j - 1 \in 1 .. Len(s) /\ j - 1 # j /\ j + 1 \in 1 .. Len(s) /\ j + 1 # j
    BY <1>2, <1>11
  <2>1. /\ pred = s[j - 1] /\ pred \in Nodes /\ pred # n /\ preds # {}
        /\ succ = s[j + 1] /\ succ \in Nodes /\ succ # n /\ succ # NULL
    BY <1>2, <1>5, <1>6, <1>11, <2>0
  <2> HIDE DEF pred, preds
  <2> DEFINE nx == [[Q.next EXCEPT ![pred] = succ] EXCEPT ![n] = NULL]
             pv == [[Q.prev EXCEPT ![succ] = pred] EXCEPT ![n] = NULL]
  <2>2. R = [P EXCEPT !.list = Q.list, !.next = nx, !.prev = pv]
    <3>1. R = [P EXCEPT !.next[pred] = succ, !.prev[succ] = pred,
                        !.next[n] = NULL, !.prev[n] = NULL]
      BY <1>1, <1>5, <1>11, <2>1
    <3> QED
      BY <1>3, <3>1 DEF QueueType
  <2>3. nx \in [Nodes -> Pointers] /\ pv \in [Nodes -> Pointers]
    BY <1>4, <1>5, <2>1
  <2>4. Unlinks(Q, p, s, j, Q.list, nx, pv)
    <3>1. /\ \A m \in Nodes : m # n => pv[m] = IF m = s[j + 1] THEN s[j - 1] ELSE Q.prev[m]
          /\ \A m \in Nodes : m # n => nx[m] = IF m = s[j - 1] THEN s[j + 1] ELSE Q.next[m]
      BY <1>4, <2>1
    <3> HIDE DEF pv, nx
    <3> QED
      BY <1>5, <1>11, <2>1, <3>1 DEF Unlinks
  <2> HIDE DEF pv, nx
  <2> QED
    BY <1>4, <1>7, <2>2, <2>3, <2>4
<1> QED
  BY <1>8, <1>9, <1>10, <1>11

\* The loop takes the head of a list that is not empty.
LEMMA PopHeadFacts ==
  ASSUME NEW Q \in QueueType, NEW p \in Priorities, NEW s \in Chains,
         LinkedAs(Q, p, s), Len(s) > 0
  PROVE  LET R == PopHead(Q, p) IN
         /\ Q.list[p].head = s[1]
         /\ R \in QueueType /\ R.index = IndexErase(Q, s[1]).index
         /\ Local(Q, R, p, Rng(s))
         /\ LinkedAs(R, p, Without(s, 1))
<1> DEFINE n == Q.list[p].head
           P == IndexErase(Q, s[1])
           succ == Q.next[n]
           R == PopHead(Q, p)
<1>1. /\ Len(s) \in Nat /\ \A i \in 1 .. Len(s) : s[i] \in Nodes
      /\ \A a, b \in 1 .. Len(s) : s[a] = s[b] => a = b
      /\ NULL \notin Nodes /\ 1 \in 1 .. Len(s)
  BY ChainFacts, EventListAssumption DEF Single, EventListAssumption
<1>2. /\ n = s[1]
      /\ succ = (IF 1 = Len(s) THEN NULL ELSE s[1 + 1])
      /\ Q.prev[s[1]] = NULL
  <2>1. n = s[1]
    BY <1>1 DEF LinkedAs, Linked
  <2> HIDE DEF n
  <2> QED
    BY <1>1, <2>1 DEF LinkedAs, Linked
<1>3. P \in QueueType /\ P.list = Q.list /\ P.next = Q.next /\ P.prev = Q.prev
  <2>1. NULL \in Pointers
    BY DEF Pointers
  <2> QED
    BY <1>1, <2>1, IndexPutFacts DEF IndexErase
<1>4. /\ Q.next \in [Nodes -> Pointers] /\ Q.prev \in [Nodes -> Pointers]
      /\ Q.list \in [Priorities -> [head : Pointers, tail : Pointers]]
      /\ NULL \in Pointers /\ Nodes \subseteq Pointers
      /\ Q.list[p] \in [head : Pointers, tail : Pointers]
  BY DEF QueueType, Pointers
<1>5. R = IF succ = NULL THEN [P EXCEPT !.list[p].head = NULL]
          ELSE [P EXCEPT !.list[p].head = succ, !.prev[succ] = NULL]
  BY <1>2 DEF PopHead
<1> HIDE DEF P, R, n
<1> DEFINE l == [Q.list EXCEPT ![p] = [@ EXCEPT !.head = succ]]
           pv == IF succ = NULL THEN Q.prev ELSE [Q.prev EXCEPT ![succ] = NULL]
<1>6. succ \in Pointers /\ (succ # NULL => succ \in Nodes)
  BY <1>1, <1>2, <1>4 DEF Pointers
<1>7. R = [P EXCEPT !.list = l, !.next = Q.next, !.prev = pv]
  <2> HIDE DEF succ
  <2>1. CASE succ = NULL
    <3>1. R = [P EXCEPT !.list[p].head = NULL]
      BY <1>5, <2>1
    <3> QED
      BY <1>3, <2>1, <3>1 DEF QueueType
  <2>2. CASE succ # NULL
    <3>1. R = [P EXCEPT !.list[p].head = succ, !.prev[succ] = NULL]
      BY <1>5, <2>2
    <3> QED
      BY <1>3, <2>2, <3>1 DEF QueueType
  <2> QED
    BY <2>1, <2>2
<1>8. l \in [Priorities -> [head : Pointers, tail : Pointers]]
      /\ l[p].head = succ /\ l[p].tail = Q.list[p].tail
      /\ \A q \in Priorities : q # p => l[q] = Q.list[q]
  <2> HIDE DEF succ
  <2> QED
    BY <1>4, <1>6
<1>9. pv \in [Nodes -> Pointers]
      /\ \A m \in Nodes : pv[m] = IF m = succ THEN NULL ELSE Q.prev[m]
  <2> HIDE DEF succ
  <2> QED
    BY <1>1, <1>4, <1>6
<1>10. Unlinks(Q, p, s, 1, l, Q.next, pv)
  <2>1. \A m \in Nodes : (1 # Len(s) /\ m = s[1 + 1]) <=> m = succ
    BY <1>1, <1>2
  <2>2. succ = Q.next[s[1]]
    BY <1>2
  <2> HIDE DEF l, pv, succ
  <2>3. \A m \in Nodes : m # s[1] =>
          pv[m] = IF 1 # Len(s) /\ m = s[1 + 1] THEN Q.prev[s[1]] ELSE Q.prev[m]
    BY <1>2, <1>9, <2>1
  <2>4. Len(s) > 1 => l[p].tail = IF 1 = Len(s) THEN Q.prev[s[1]] ELSE Q.list[p].tail
    BY <1>1, <1>8
  <2> QED
    BY <1>8, <2>2, <2>3, <2>4 DEF Unlinks
<1> HIDE DEF l, pv
<1>11. LET P0 == IndexErase(Q, s[1])
           R0 == [P0 EXCEPT !.list = l, !.next = Q.next, !.prev = pv]
       IN  /\ R0 \in QueueType /\ R0.index = P0.index
           /\ Local(Q, R0, p, Rng(s))
           /\ LinkedAs(R0, p, Without(s, 1))
  BY <1>1, <1>4, <1>8, <1>9, <1>10, Unlinking
<1> QED
  BY <1>2, <1>7, <1>11 DEF P, R, n

-----------------------------------------------------------------------------
(* Order.                                                                   *)

Before(s, a, b) == \E i, j \in 1 .. Len(s) : i < j /\ s[i] = a /\ s[j] = b

\* a new event leaves the order of the others alone
LEMMA InsertedOrder ==
  ASSUME NEW s \in Chains, NEW j \in 0 .. Len(s), NEW n \in Nodes \ Rng(s)
  PROVE  LET q == Inserted(s, j, n) IN
         /\ \A a, b : Before(s, a, b) => Before(q, a, b)
         /\ \A i \in 1 .. j : Before(q, s[i], n)
         /\ \A i \in j + 1 .. Len(s) : Before(q, n, s[i])
<1> DEFINE q == Inserted(s, j, n)
<1>0. Len(s) \in Nat
  BY ChainFacts
<1>1. /\ Len(q) = Len(s) + 1 /\ q[j + 1] = n
      /\ \A i \in 1 .. j : q[i] = s[i]
      /\ \A i \in j + 1 .. Len(s) : q[i + 1] = s[i]
  BY InsertedFacts
<1> DEFINE At(i) == IF i <= j THEN i ELSE i + 1
<1>2. \A i \in 1 .. Len(s) : At(i) \in 1 .. Len(q) /\ q[At(i)] = s[i] /\ At(i) # j + 1
  <2> HIDE DEF q
  <2> SUFFICES ASSUME NEW i \in 1 .. Len(s)
               PROVE  At(i) \in 1 .. Len(q) /\ q[At(i)] = s[i] /\ At(i) # j + 1
    OBVIOUS
  <2>1. CASE i <= j
    <3>1. i \in 1 .. j /\ i \in 1 .. Len(q)
      BY <1>0, <1>1, <2>1
    <3> QED
      BY <1>0, <1>1, <2>1, <3>1
  <2>2. CASE ~(i <= j)
    <3>1. i \in j + 1 .. Len(s) /\ i + 1 \in 1 .. Len(q) /\ i + 1 # j + 1
      BY <1>0, <1>1, <2>2
    <3> QED
      BY <1>1, <2>2, <3>1
  <2> QED
    BY <2>1, <2>2
<1>3. \A i, k \in 1 .. Len(s) : i < k => At(i) < At(k)
  BY <1>0
<1>4. /\ j + 1 \in 1 .. Len(q)
      /\ \A i \in 1 .. j : i \in 1 .. Len(s) /\ At(i) < j + 1
      /\ \A i \in j + 1 .. Len(s) : i \in 1 .. Len(s) /\ j + 1 < At(i)
  BY <1>0, <1>1
<1> HIDE DEF q, At
<1> SUFFICES /\ \A a, b : Before(s, a, b) => Before(q, a, b)
             /\ \A i \in 1 .. j : Before(q, s[i], n)
             /\ \A i \in j + 1 .. Len(s) : Before(q, n, s[i])
  BY DEF q
<1>5. ASSUME NEW a, NEW b, Before(s, a, b) PROVE Before(q, a, b)
  <2>1. PICK i \in 1 .. Len(s), k \in 1 .. Len(s) : i < k /\ s[i] = a /\ s[k] = b
    BY <1>5 DEF Before
  <2>2. /\ At(i) \in 1 .. Len(q) /\ At(k) \in 1 .. Len(q) /\ At(i) < At(k)
        /\ q[At(i)] = a /\ q[At(k)] = b
    BY <1>2, <1>3, <2>1
  <2> QED
    BY <2>2 DEF Before
<1>6. ASSUME NEW i \in 1 .. j PROVE Before(q, s[i], n)
  <2>1. At(i) \in 1 .. Len(q) /\ j + 1 \in 1 .. Len(q) /\ At(i) < j + 1 /\ q[At(i)] = s[i]
    BY <1>2, <1>4
  <2> QED
    BY <1>1, <2>1 DEF Before, q
<1>7. ASSUME NEW i \in j + 1 .. Len(s) PROVE Before(q, n, s[i])
  <2>1. At(i) \in 1 .. Len(q) /\ j + 1 \in 1 .. Len(q) /\ j + 1 < At(i) /\ q[At(i)] = s[i]
    BY <1>2, <1>4
  <2> QED
    BY <1>1, <2>1 DEF Before, q
<1> QED
  BY <1>5, <1>6, <1>7

\* An event put in its place keeps the list sorted.
LEMMA InsertedSorted ==
  ASSUME NEW s \in Chains, NEW n \in Nodes \ Rng(s), NEW w, NEW j,
         \A m \in Nodes : w[m] \in Nat, Sorted(s, w), Place(s, w, n, j)
  PROVE  Sorted(Inserted(s, j, n), w)
<1> DEFINE q == Inserted(s, j, n)
<1>0. Len(s) \in Nat /\ j \in 0 .. Len(s) /\ \A i \in 1 .. Len(s) : s[i] \in Nodes
  BY ChainFacts DEF Place
<1>1. /\ Len(q) = Len(s) + 1 /\ q[j + 1] = n
      /\ \A i \in 1 .. j : q[i] = s[i]
      /\ \A i \in j + 1 .. Len(s) : q[i + 1] = s[i]
  BY <1>0, InsertedFacts
<1> HIDE DEF q
<1> DEFINE At(i) == IF i <= j THEN i ELSE i - 1
<1>2. ASSUME NEW i \in 1 .. Len(q), i # j + 1
      PROVE  At(i) \in 1 .. Len(s) /\ q[i] = s[At(i)]
  <2>1. CASE i <= j
    <3>1. i \in 1 .. j /\ i \in 1 .. Len(s)
      BY <1>0, <2>1
    <3> QED
      BY <1>1, <2>1, <3>1
  <2>2. CASE ~(i <= j)
    <3>1. i - 1 \in j + 1 .. Len(s) /\ i - 1 + 1 = i /\ i - 1 \in 1 .. Len(s)
      BY <1>0, <1>1, <1>2, <2>2
    <3> QED
      BY <1>1, <2>2, <3>1
  <2> QED
    BY <2>1, <2>2
<1>3. ASSUME NEW i \in 1 .. Len(q), NEW k \in 1 .. Len(q), i < k PROVE w[q[i]] <= w[q[k]]
  <2>1. CASE i # j + 1 /\ k # j + 1
    <3>1. At(i) < At(k)
      BY <1>0, <1>3, <2>1
    <3>2. At(i) \in 1 .. Len(s) /\ q[i] = s[At(i)] /\ At(k) \in 1 .. Len(s) /\ q[k] = s[At(k)]
      BY <1>2, <2>1
    <3> HIDE DEF At
    <3> QED
      BY <3>1, <3>2 DEF Sorted
  <2>2. CASE i = j + 1
    <3>1. k # j + 1 /\ At(k) = k - 1 /\ ~(k - 1 <= j)
      BY <1>0, <1>3, <2>2
    <3>2. k - 1 \in 1 .. Len(s) /\ q[k] = s[k - 1]
      BY <1>2, <3>1
    <3>3. ~(w[s[k - 1]] <= w[n])
      BY <3>1, <3>2 DEF Place
    <3>4. s[k - 1] \in Nodes
      BY <1>0, <3>2
    <3> QED
      BY <1>1, <2>2, <3>2, <3>3, <3>4
  <2>3. CASE k = j + 1
    <3>1. i # j + 1 /\ At(i) = i /\ i <= j
      BY <1>0, <1>3, <2>3
    <3>2. i \in 1 .. Len(s) /\ q[i] = s[i]
      BY <1>2, <3>1
    <3> QED
      BY <1>1, <2>3, <3>1, <3>2 DEF Place
  <2> QED
    BY <2>1, <2>2, <2>3
<1> QED
  BY <1>3 DEF Sorted, q

\* and so does one that leaves
LEMMA WithoutOrder ==
  ASSUME NEW s \in Chains, NEW j \in 1 .. Len(s)
  PROVE  LET q == Without(s, j) IN
         /\ \A a, b : Before(s, a, b) /\ a # s[j] /\ b # s[j] => Before(q, a, b)
         /\ \A w : Sorted(s, w) => Sorted(q, w)
<1> DEFINE q == Without(s, j)
<1>0. Len(s) \in Nat
  BY ChainFacts
<1>1. /\ Len(q) = Len(s) - 1
      /\ \A i \in 1 .. j - 1 : q[i] = s[i]
      /\ \A i \in j .. Len(s) - 1 : q[i] = s[i + 1]
  BY WithoutFacts
<1> SUFFICES /\ \A a, b : Before(s, a, b) /\ a # s[j] /\ b # s[j] => Before(q, a, b)
             /\ \A w : Sorted(s, w) => Sorted(q, w)
  OBVIOUS
<1> HIDE DEF q
<1>2. ASSUME NEW a, NEW b, Before(s, a, b), a # s[j], b # s[j] PROVE Before(q, a, b)
  <2> DEFINE At(i) == IF i < j THEN i ELSE i - 1
  <2>1. PICK i \in 1 .. Len(s), k \in 1 .. Len(s) : i < k /\ s[i] = a /\ s[k] = b
    BY <1>2 DEF Before
  <2>2. ASSUME NEW x \in 1 .. Len(s), x # j PROVE At(x) \in 1 .. Len(q) /\ q[At(x)] = s[x]
    <3>1. CASE x < j
      <4>1. x \in 1 .. j - 1 /\ x \in 1 .. Len(q)
        BY <1>0, <1>1, <3>1
      <4> QED
        BY <1>1, <3>1, <4>1
    <3>2. CASE ~(x < j)
      <4>1. x - 1 \in j .. Len(s) - 1 /\ x - 1 + 1 = x /\ x - 1 \in 1 .. Len(q)
        BY <1>0, <1>1, <2>2, <3>2
      <4> QED
        BY <1>1, <3>2, <4>1
    <3> QED
      BY <3>1, <3>2
  <2>3. i # j /\ k # j
    BY <1>2, <2>1
  <2>4. At(i) < At(k)
    BY <1>0, <2>1, <2>3
  <2>5. /\ At(i) \in 1 .. Len(q) /\ q[At(i)] = a
        /\ At(k) \in 1 .. Len(q) /\ q[At(k)] = b
    BY <2>1, <2>2, <2>3
  <2> HIDE DEF At
  <2> QED
    BY <2>4, <2>5 DEF Before
<1>3. ASSUME NEW w, Sorted(s, w) PROVE Sorted(q, w)
  <2> DEFINE At(i) == IF i < j THEN i ELSE i + 1
  <2>1. ASSUME NEW i \in 1 .. Len(q) PROVE At(i) \in 1 .. Len(s) /\ q[i] = s[At(i)]
    <3>1. CASE i < j
      <4>1. i \in 1 .. j - 1 /\ i \in 1 .. Len(s)
        BY <1>0, <1>1, <3>1
      <4> QED
        BY <1>1, <3>1, <4>1
    <3>2. CASE ~(i < j)
      <4>1. i \in j .. Len(s) - 1 /\ i + 1 \in 1 .. Len(s)
        BY <1>0, <1>1, <3>2
      <4> QED
        BY <1>1, <3>2, <4>1
    <3> QED
      BY <3>1, <3>2
  <2>2. \A i, k \in 1 .. Len(q) : i < k => At(i) < At(k)
    BY <1>0, <1>1
  <2> HIDE DEF At
  <2> QED
    BY <1>3, <2>1, <2>2 DEF Sorted
<1> QED
  BY <1>2, <1>3

-----------------------------------------------------------------------------
(* Sorting a list again.                                                    *)

\* the index x with an entry for the event n, if it is of a kind that has one
Noted(x, Q, n, entry) ==
  IF Q.kind[n] \in Indexed THEN [x EXCEPT ![Q.kind[n]][Q.data[n]] = entry] ELSE x

\* events of one run time keep their order
Stable(s, t, w) ==
  \A a, b \in Rng(t) : Before(s, a, b) /\ w[a] = w[b] => Before(t, a, b)

\* The first k events of s have been added again; the index keeps what every
\* new entry keeps.
Resorted(Q, p, s, I, R, k) ==
  /\ R \in QueueType /\ R.index \in I
  /\ Local(Q, R, p, Rng(s))
  /\ \E t \in Chains : /\ LinkedAs(R, p, t) /\ Sorted(t, Q.when) /\ Stable(s, t, Q.when)
                       /\ Rng(t) = {s[i] : i \in 1 .. k}

\* one more event is added again
LEMMA ResortStep ==
  ASSUME NEW Q \in QueueType, NEW p \in Priorities, NEW s \in Chains,
         NEW I, \A x \in I, n \in Rng(s) : Noted(x, Q, n, n) \in I,
         NEW k \in Nat, k < Len(s), NEW R, Resorted(Q, p, s, I, R, k)
  PROVE  Resorted(Q, p, s, I, AddEvent(R, p, s[k + 1]), k + 1)
<1> DEFINE n == s[k + 1]
           N == AddEvent(R, p, n)
           w == Q.when
<1>0. /\ Len(s) \in Nat /\ k + 1 \in 1 .. Len(s) /\ n \in Nodes /\ n \in Rng(s)
      /\ \A a, b \in 1 .. Len(s) : s[a] = s[b] => a = b
      /\ Rng(s) \subseteq Nodes
  BY ChainFacts DEF Single
<1>1. /\ R \in QueueType /\ R.index \in I /\ Local(Q, R, p, Rng(s))
      /\ R.when = Q.when /\ R.kind = Q.kind /\ R.data = Q.data
  BY DEF Resorted, Local, Attributes
<1>2. PICK t \in Chains : /\ LinkedAs(R, p, t) /\ Sorted(t, w) /\ Stable(s, t, w)
                          /\ Rng(t) = {s[i] : i \in 1 .. k}
  BY DEF Resorted
<1>3. n \notin Rng(t)
  BY <1>0, <1>2
<1>4. Rng(t) \cup {n} = {s[i] : i \in 1 .. k + 1}
  <2>1. \A i \in 1 .. k + 1 : i \in 1 .. k \/ i = k + 1
    OBVIOUS
  <2>2. \A i \in 1 .. k : i \in 1 .. k + 1
    OBVIOUS
  <2>3. k + 1 \in 1 .. k + 1
    OBVIOUS
  <2> QED
    BY <1>2, <2>1, <2>2, <2>3
<1>5. Rng(t) \cup {n} \subseteq Rng(s)
  <2>1. \A i \in 1 .. k : i \in 1 .. Len(s)
    BY <1>0
  <2>2. \A i \in 1 .. Len(s) : s[i] \in Rng(s)
    BY ChainFacts
  <2> QED
    BY <1>0, <1>2, <2>1, <2>2
<1>6. /\ N \in QueueType /\ N.index = IndexInsert(R, n).index
      /\ Local(R, N, p, Rng(t) \cup {n})
      /\ \E j \in 0 .. Len(t) : Place(t, w, n, j) /\ LinkedAs(N, p, Inserted(t, j, n))
  <2>1. Sorted(t, R.when) /\ n \in Nodes \ Rng(t)
    BY <1>0, <1>1, <1>2, <1>3
  <2>2. LET Z == AddEvent(R, p, n) IN
         /\ Z \in QueueType
         /\ Z.index = IndexInsert(R, n).index
         /\ Local(R, Z, p, Rng(t) \cup {n})
         /\ \E j \in 0 .. Len(t) : /\ Place(t, R.when, n, j)
                                   /\ LinkedAs(Z, p, Inserted(t, j, n))
    <3> HIDE DEF n
    <3> QED
      BY <1>1, <1>2, <2>1, AddEventFacts
  <2> QED
    BY <1>1, <2>2
<1> HIDE DEF n, N
<1>7. N.index \in I
  <2>1. IndexInsert(R, n).index = Noted(R.index, Q, n, n)
    <3>1. n \in Pointers
      BY <1>0 DEF Pointers
    <3> QED
      BY <1>0, <1>1, <3>1, IndexPutFacts DEF IndexInsert, Noted
  <2> QED
    BY <1>0, <1>1, <1>6, <2>1
<1>8. Local(Q, N, p, Rng(s))
  <2>1. Attributes(N) = Attributes(Q)
    BY <1>1, <1>6 DEF Local
  <2>2. \A q \in Priorities : q # p => N.list[q] = Q.list[q]
    BY <1>1, <1>6 DEF Local
  <2>3. \A m \in Nodes : m \notin Rng(s) => N.next[m] = Q.next[m] /\ N.prev[m] = Q.prev[m]
    BY <1>1, <1>5, <1>6 DEF Local
  <2> QED
    BY <2>1, <2>2, <2>3 DEF Local
<1>9. PICK j \in 0 .. Len(t) : Place(t, w, n, j) /\ LinkedAs(N, p, Inserted(t, j, n))
  BY <1>6
<1> DEFINE u == Inserted(t, j, n)
<1>10. /\ u \in Chains /\ Rng(u) = Rng(t) \cup {n}
       /\ \A a, b : Before(t, a, b) => Before(u, a, b)
       /\ \A i \in 1 .. j : Before(u, t[i], n)
  <2>1. LET q == Inserted(t, j, n) IN
         /\ q \in Chains /\ Len(q) = Len(t) + 1 /\ Rng(q) = Rng(t) \cup {n}
         /\ q[j + 1] = n
         /\ \A i \in 1 .. j : q[i] = t[i]
         /\ \A i \in j + 1 .. Len(t) : q[i + 1] = t[i]
    BY <1>0, <1>3, InsertedFacts
  <2>2. LET q == Inserted(t, j, n) IN
         /\ \A a, b : Before(t, a, b) => Before(q, a, b)
         /\ \A i \in 1 .. j : Before(q, t[i], n)
         /\ \A i \in j + 1 .. Len(t) : Before(q, n, t[i])
    BY <1>0, <1>3, InsertedOrder
  <2> QED
    BY <2>1, <2>2
<1>11. \A m \in Nodes : w[m] \in Nat
  BY EventListAssumption DEF QueueType, Times, EventListAssumption
<1>12. Sorted(u, w)
  <2>1. n \in Nodes \ Rng(t)
    BY <1>0, <1>3
  <2> HIDE DEF w
  <2> QED
    BY <1>2, <1>9, <1>11, <2>1, InsertedSorted
<1> HIDE DEF u
<1>13. Stable(s, u, w)
  <2> SUFFICES ASSUME NEW a \in Rng(u), NEW b \in Rng(u), Before(s, a, b), w[a] = w[b]
               PROVE  Before(u, a, b)
    BY DEF Stable
  <2>1. PICK x \in 1 .. Len(s), y \in 1 .. Len(s) : x < y /\ s[x] = a /\ s[y] = b
    BY DEF Before
  <2>2. CASE a \in Rng(t) /\ b \in Rng(t)
    BY <1>2, <1>10, <2>2 DEF Stable
  <2>3. CASE b = n
    <3>1. a # b
      BY <1>0, <2>1
    <3>2. a \in Rng(t)
      BY <1>10, <2>3, <3>1
    <3>3. PICK i \in 1 .. Len(t) : t[i] = a
      BY <3>2, ChainFacts
    <3>4. w[t[i]] <= w[n]
      <4>1. a \in Nodes
        BY <3>2, ChainFacts
      <4> QED
        BY <1>0, <1>11, <2>3, <3>3, <4>1
    <3>5. i <= j
      BY <1>9, <3>4 DEF Place
    <3>6. i \in 1 .. j
      BY <3>5, ChainFacts
    <3> QED
      BY <1>10, <2>3, <3>3, <3>6
  <2>4. CASE a = n
    <3>1. x = k + 1
      BY <1>0, <2>1, <2>4 DEF n
    <3>2. b \in {s[i] : i \in 1 .. k + 1}
      BY <1>4, <1>10
    <3>3. PICK i \in 1 .. k + 1 : b = s[i]
      BY <3>2
    <3>4. i \in 1 .. Len(s)
      BY <1>0
    <3>5. i = y
      BY <1>0, <2>1, <3>3, <3>4
    <3> QED
      BY <1>0, <2>1, <3>1, <3>5
  <2> QED
    BY <1>10, <2>2, <2>3, <2>4
<1>14. Rng(u) = {s[i] : i \in 1 .. k + 1}
  BY <1>4, <1>10
<1>15. LinkedAs(N, p, u)
  BY <1>9 DEF u
<1>16. Resorted(Q, p, s, I, N, k + 1)
  BY <1>6, <1>7, <1>8, <1>10, <1>12, <1>13, <1>14, <1>15 DEF Resorted
<1> QED
  BY <1>16 DEF N, n

\* resort_event_list
LEMMA ResortFacts ==
  ASSUME NEW Q \in QueueType, NEW p \in Priorities, NEW s \in Chains, LinkedAs(Q, p, s),
         NEW I, Q.index \in I, \A x \in I, n \in Rng(s) : Noted(x, Q, n, n) \in I
  PROVE  Resorted(Q, p, s, I, Resort(Q, p), Len(s))
<1> DEFINE base == [Q EXCEPT !.list[p].head = NULL]
           Is(h) == h = [k \in 0 .. Len(s) |->
                           IF k = 0 THEN base ELSE AddEvent(h[k - 1], p, s[k])]
           S == CHOOSE h : Is(h)
           Done(k, f) == /\ f \in [0 .. k -> QueueType] /\ f[0] = base
                         /\ \A i \in 1 .. k : f[i] = AddEvent(f[i - 1], p, s[i])
                         /\ Resorted(Q, p, s, I, f[k], k)
           Good(k) == \E f : Done(k, f)
<1>0. Len(s) \in Nat
  BY ChainFacts
<1>1. Resort(Q, p) = S[Len(s)]
  <2>1. Forward(Q, p) = s
    BY LinkedWalks DEF LinkedAs, Forward
  <2> QED
    BY <2>1 DEF Resort
<1>2. Good(0)
  <2> DEFINE l == [Q.list EXCEPT ![p] = [@ EXCEPT !.head = NULL]]
  <2>1. /\ Q.list \in [Priorities -> [head : Pointers, tail : Pointers]]
        /\ Q.next \in [Nodes -> Pointers] /\ Q.prev \in [Nodes -> Pointers]
    BY DEF QueueType
  <2>2. /\ l \in [Priorities -> [head : Pointers, tail : Pointers]]
        /\ l[p].head = NULL /\ \A q \in Priorities : q # p => l[q] = Q.list[q]
    BY <2>1 DEF Pointers
  <2>3. base = [Q EXCEPT !.list = l, !.next = Q.next, !.prev = Q.prev]
    BY DEF QueueType
  <2> HIDE DEF l, base
  <2>4. base \in QueueType /\ Relinked(Q, base, l, Q.next, Q.prev)
    BY <2>1, <2>2, <2>3, Relinking
  <2>5. Local(Q, base, p, Rng(s)) /\ base.index \in I
    BY <2>2, <2>4 DEF Local, Relinked
  <2>6. LinkedAs(base, p, <<>>)
    BY <2>2, <2>4, EmptyChain DEF LinkedAs, Linked, Relinked
  <2>7. Sorted(<<>>, Q.when) /\ Stable(s, <<>>, Q.when) /\ Rng(<<>>) = {s[i] : i \in 1 .. 0}
    BY EmptyChain DEF Sorted, Stable
  <2>8. Resorted(Q, p, s, I, base, 0)
    BY <2>4, <2>5, <2>6, <2>7, EmptyChain DEF Resorted
  <2> DEFINE f == [k \in 0 .. 0 |-> base]
  <2>9. f \in [0 .. 0 -> QueueType] /\ f[0] = base /\ \A i \in 1 .. 0 : FALSE
    BY <2>4
  <2> HIDE DEF f
  <2>10. Done(0, f)
    BY <2>8, <2>9
  <2> QED
    BY <2>10
<1> HIDE DEF base
<1>3. ASSUME NEW k \in Nat, k + 1 <= Len(s), Good(k) PROVE Good(k + 1)
  <2>1. PICK f : Done(k, f)
    BY <1>3
  <2> DEFINE last == AddEvent(f[k], p, s[k + 1])
             g == [i \in 0 .. k + 1 |-> IF i = k + 1 THEN last ELSE f[i]]
  <2>2. Resorted(Q, p, s, I, last, k + 1)
    <3>1. k < Len(s)
      BY <1>0, <1>3
    <3>2. Resorted(Q, p, s, I, f[k], k)
      BY <2>1
    <3> QED
      BY <3>1, <3>2, ResortStep
  <2>3. last \in QueueType
    BY <2>2 DEF Resorted
  <2>4. /\ f \in [0 .. k -> QueueType] /\ f[0] = base
        /\ \A i \in 1 .. k : f[i] = AddEvent(f[i - 1], p, s[i])
    BY <2>1
  <2>5. g \in [0 .. k + 1 -> QueueType]
    <3> HIDE DEF last
    <3> QED
      BY <2>3, <2>4
  <2>6. g[0] = base /\ g[k + 1] = last /\ \A i \in 0 .. k : g[i] = f[i]
    BY <2>4
  <2> HIDE DEF g
  <2>7. ASSUME NEW i \in 1 .. k + 1 PROVE g[i] = AddEvent(g[i - 1], p, s[i])
    <3>1. CASE i = k + 1
      <4>1. i - 1 = k /\ k \in 0 .. k
        BY <3>1
      <4> QED
        BY <2>6, <3>1, <4>1
    <3>2. CASE i # k + 1
      <4>1. i \in 1 .. k /\ i \in 0 .. k /\ i - 1 \in 0 .. k
        BY <3>2
      <4>2. g[i] = f[i] /\ g[i - 1] = f[i - 1] /\ f[i] = AddEvent(f[i - 1], p, s[i])
        BY <2>4, <2>6, <4>1
      <4> QED
        BY <4>2
    <3> QED
      BY <3>1, <3>2
  <2>8. Done(k + 1, g)
    <3> HIDE DEF last
    <3> QED
      BY <2>2, <2>5, <2>6, <2>7
  <2> QED
    BY <2>8
<1>4. Good(Len(s))
  <2> DEFINE X == {k \in Nat : k <= Len(s) => Good(k)}
  <2> HIDE DEF Good
  <2>1. Nat \subseteq X
    <3>1. X \in SUBSET Nat
      OBVIOUS
    <3>2. 0 \in X
      BY <1>2
    <3>3. ASSUME NEW k \in X PROVE k + 1 \in X
      <4>1. k + 1 <= Len(s) => k <= Len(s)
        BY <1>0
      <4> QED
        BY <1>3, <4>1
    <3> HIDE DEF X
    <3> QED
      BY <3>1, <3>2, <3>3, Induction
  <2> QED
    BY <1>0, <2>1
<1>5. PICK f : Done(Len(s), f)
  BY <1>4
<1>6. Is(f)
  <2>1. \A k \in 0 .. Len(s) : f[k] = IF k = 0 THEN base ELSE AddEvent(f[k - 1], p, s[k])
    <3> SUFFICES ASSUME NEW k \in 0 .. Len(s)
                 PROVE  f[k] = IF k = 0 THEN base ELSE AddEvent(f[k - 1], p, s[k])
      OBVIOUS
    <3>1. k # 0 => k \in 1 .. Len(s)
      BY <1>0
    <3> QED
      BY <1>5, <3>1
  <2>2. f = [k \in 0 .. Len(s) |-> f[k]]
    BY <1>5
  <2> QED
    BY <2>1, <2>2, Zenon
<1>7. Is(S)
  <2> HIDE DEF Is
  <2> QED
    BY <1>6
<1>8. S[Len(s)] = f[Len(s)]
  <2> HIDE DEF S
  <2>1. \A k \in 0 .. Len(s) : S[k] = IF k = 0 THEN base ELSE AddEvent(S[k - 1], p, s[k])
    BY <1>7
  <2>2. \A k \in 0 .. Len(s) : f[k] = IF k = 0 THEN base ELSE AddEvent(f[k - 1], p, s[k])
    BY <1>6
  <2> DEFINE X == {k \in Nat : k <= Len(s) => S[k] = f[k]}
  <2>3. Nat \subseteq X
    <3>1. X \in SUBSET Nat
      OBVIOUS
    <3>2. 0 \in X
      <4>1. 0 \in 0 .. Len(s)
        BY <1>0
      <4> QED
        BY <2>1, <2>2, <4>1
    <3>3. ASSUME NEW k \in X PROVE k + 1 \in X
      <4> SUFFICES ASSUME k + 1 <= Len(s) PROVE S[k + 1] = f[k + 1]
        OBVIOUS
      <4>1. k + 1 \in 0 .. Len(s) /\ k + 1 # 0 /\ k + 1 - 1 = k /\ k <= Len(s)
        BY <1>0
      <4>2. S[k] = f[k]
        BY <4>1
      <4> QED
        BY <2>1, <2>2, <4>1, <4>2
    <3> HIDE DEF X
    <3> QED
      BY <3>1, <3>2, <3>3, Induction
  <2> QED
    BY <1>0, <2>3
<1> QED
  BY <1>1, <1>5, <1>8

-----------------------------------------------------------------------------
(* Both lists together, with the index.                                     *)

\* the kinds of which an object has one event at most
Sole(k) == k = "check" \/ ~Reack

\* An entry of the index x is an event of S of its kind and object, and the
\* events of S that are the only ones of their kind are in it.
IndexOK(x, Q, S) ==
  /\ \A k \in Indexed, o \in Objects : x[k][o] # NULL =>
       x[k][o] \in S /\ Q.kind[x[k][o]] = k /\ Q.data[x[k][o]] = o
  /\ \A n \in S : Sole(Q.kind[n]) => x[Q.kind[n]][Q.data[n]] = n

\* the events of the low list have an object and an entry
Owned(Q, S) == \A n \in S : Q.kind[n] \in Indexed /\ Q.data[n] \in Objects

QueueOK(Q, s) ==
  /\ Q \in QueueType /\ s \in [Priorities -> Chains]
  /\ \A p \in Priorities : LinkedAs(Q, p, s[p])
  /\ \A p, q \in Priorities : p # q => Rng(s[p]) \cap Rng(s[q]) = {}
  /\ \A p \in Priorities : \A n \in Rng(s[p]) : n \notin Q.freed /\ PriorityOf(Q.kind[n]) = p
  /\ Owned(Q, Rng(s["low"])) /\ IndexOK(Q.index, Q, Rng(s["low"]))

InOrder(Q, s) == \A p \in Priorities : Sorted(s[p], Q.when)

Outside(s, n) == \A p \in Priorities : n \notin Rng(s[p])

\* From the list s to t, with the run times v and then w: but for the events of F,
\* those of t were there before, at the same run time and in the same order, and
\* go before those of F that are due at the same time.
KeepsList(s, v, t, w, F) ==
  /\ Rng(t) \ F \subseteq Rng(s)
  /\ \A a \in Rng(t) \ F : w[a] = v[a]
  /\ \A a, b \in Rng(t) \ F : Before(s, a, b) => Before(t, a, b)
  /\ \A a \in Rng(t) \ F, b \in F \cap Rng(t) : w[a] = w[b] => Before(t, a, b)

Keeps(Q, s, R, t, F) ==
  \A p \in Priorities : KeepsList(s[p], Q.when, t[p], R.when, F)

\* one change after another
LEMMA KeepsChain ==
  ASSUME NEW Q, NEW s, NEW R, NEW t, NEW S, NEW u, NEW F, NEW G,
         Keeps(Q, s, R, t, F), Keeps(R, t, S, u, G)
  PROVE  Keeps(Q, s, S, u, F \cup G)
<1> SUFFICES ASSUME NEW p \in Priorities
             PROVE  /\ Rng(u[p]) \ (F \cup G) \subseteq Rng(s[p])
                    /\ \A a \in Rng(u[p]) \ (F \cup G) : S.when[a] = Q.when[a]
                    /\ \A a, b \in Rng(u[p]) \ (F \cup G) :
                         Before(s[p], a, b) => Before(u[p], a, b)
                    /\ \A a \in Rng(u[p]) \ (F \cup G), b \in (F \cup G) \cap Rng(u[p]) :
                         S.when[a] = S.when[b] => Before(u[p], a, b)
  BY DEF Keeps, KeepsList
<1>1. /\ Rng(t[p]) \ F \subseteq Rng(s[p])
      /\ \A a \in Rng(t[p]) \ F : R.when[a] = Q.when[a]
      /\ \A a, b \in Rng(t[p]) \ F : Before(s[p], a, b) => Before(t[p], a, b)
      /\ \A a \in Rng(t[p]) \ F, b \in F \cap Rng(t[p]) :
           R.when[a] = R.when[b] => Before(t[p], a, b)
  BY DEF Keeps, KeepsList
<1>2. /\ Rng(u[p]) \ G \subseteq Rng(t[p])
      /\ \A a \in Rng(u[p]) \ G : S.when[a] = R.when[a]
      /\ \A a, b \in Rng(u[p]) \ G : Before(t[p], a, b) => Before(u[p], a, b)
      /\ \A a \in Rng(u[p]) \ G, b \in G \cap Rng(u[p]) :
           S.when[a] = S.when[b] => Before(u[p], a, b)
  BY DEF Keeps, KeepsList
<1>3. \A a \in Rng(u[p]) \ (F \cup G) : a \in Rng(u[p]) \ G /\ a \in Rng(t[p]) \ F
  BY <1>2
<1>4. ASSUME NEW a \in Rng(u[p]) \ (F \cup G), NEW b \in (F \cup G) \cap Rng(u[p]),
             S.when[a] = S.when[b]
      PROVE  Before(u[p], a, b)
  <2>1. CASE b \in G
    BY <1>2, <1>3, <1>4, <2>1
  <2>2. CASE b \notin G
    <3>1. b \in F \cap Rng(t[p]) /\ b \in Rng(u[p]) \ G
      BY <1>2, <2>2
    <3>2. R.when[a] = R.when[b]
      BY <1>2, <1>3, <1>4, <3>1
    <3> QED
      BY <1>1, <1>2, <1>3, <3>1, <3>2
  <2> QED
    BY <2>1, <2>2
<1> QED
  BY <1>1, <1>2, <1>3, <1>4

\* what is done to one list leaves the other well linked
LEMMA OtherList ==
  ASSUME NEW Q, NEW R, NEW s, QueueOK(Q, s), NEW p \in Priorities, NEW q \in Priorities,
         p # q, NEW S, S \cap Rng(s[q]) = {}, Local(Q, R, p, S)
  PROVE  LinkedAs(R, q, s[q])
<1>1. s[q] \in Chains /\ Linked(Q.next, Q.prev, Q.list[q], s[q])
  BY DEF QueueOK, LinkedAs
<1>2. \A m \in Rng(s[q]) : R.next[m] = Q.next[m] /\ R.prev[m] = Q.prev[m]
  <2>1. Rng(s[q]) \subseteq Nodes
    BY <1>1, ChainFacts
  <2> QED
    BY <2>1 DEF Local
<1>3. Linked(R.next, R.prev, Q.list[q], s[q])
  BY <1>1, <1>2, LinkedKept
<1> QED
  BY <1>3 DEF Local, LinkedAs

\* What happens to an event outside the lists.
LEMMA SetOutside ==
  ASSUME NEW Q, NEW s, QueueOK(Q, s), InOrder(Q, s), NEW n \in Nodes, Outside(s, n),
         NEW R \in QueueType,
         R.list = Q.list, R.next = Q.next, R.prev = Q.prev, R.index = Q.index,
         R.freed \subseteq Q.freed \cup {n},
         \A m \in Nodes : m # n =>
            R.when[m] = Q.when[m] /\ R.kind[m] = Q.kind[m] /\ R.data[m] = Q.data[m]
  PROVE  QueueOK(R, s) /\ InOrder(R, s) /\ Keeps(Q, s, R, s, {})
<1>1. \A p \in Priorities : s[p] \in Chains
  BY DEF QueueOK
<1>2. \A p \in Priorities : \A m \in Rng(s[p]) : m \in Nodes /\ m # n
  BY <1>1, ChainFacts DEF Outside
<1>3. \A p \in Priorities : \A i \in 1 .. Len(s[p]) : s[p][i] \in Rng(s[p])
  BY <1>1, ChainFacts
<1>4. InOrder(R, s)
  <2>1. \A p \in Priorities : \A i \in 1 .. Len(s[p]) : R.when[s[p][i]] = Q.when[s[p][i]]
    BY <1>2, <1>3
  <2> QED
    BY <2>1 DEF InOrder, Sorted
<1>5. Keeps(Q, s, R, s, {})
  BY <1>2 DEF Keeps, KeepsList
<1>6. \A p \in Priorities : LinkedAs(R, p, s[p])
  BY DEF QueueOK, LinkedAs
<1>7. \A p \in Priorities : \A m \in Rng(s[p]) : m \notin R.freed /\ PriorityOf(R.kind[m]) = p
  BY <1>2 DEF QueueOK
<1>8. "low" \in Priorities
  BY DEF Priorities
<1>9. Owned(R, Rng(s["low"]))
  BY <1>2, <1>8 DEF QueueOK, Owned
<1>10. IndexOK(R.index, R, Rng(s["low"]))
  <2>1. IndexOK(Q.index, Q, Rng(s["low"]))
    BY DEF QueueOK
  <2>2. \A m \in Rng(s["low"]) : R.kind[m] = Q.kind[m] /\ R.data[m] = Q.data[m]
    BY <1>2, <1>8
  <2>3. ASSUME NEW k \in Indexed, NEW o \in Objects, Q.index[k][o] # NULL
        PROVE  /\ Q.index[k][o] \in Rng(s["low"])
               /\ R.kind[Q.index[k][o]] = k /\ R.data[Q.index[k][o]] = o
    <3>1. /\ Q.index[k][o] \in Rng(s["low"])
          /\ Q.kind[Q.index[k][o]] = k /\ Q.data[Q.index[k][o]] = o
      BY <2>1, <2>3 DEF IndexOK
    <3> QED
      BY <2>2, <3>1
  <2>4. ASSUME NEW m \in Rng(s["low"]), Sole(R.kind[m])
        PROVE  Q.index[R.kind[m]][R.data[m]] = m
    BY <2>1, <2>2, <2>4 DEF IndexOK
  <2> QED
    BY <2>3, <2>4 DEF IndexOK
<1> QED
  BY <1>4, <1>5, <1>6, <1>7, <1>9, <1>10 DEF QueueOK

\* A new entry, for an event n that joins S and is alone of its kind if it must be.
LEMMA NotedOK ==
  ASSUME NEW Q \in QueueType, NEW S \in SUBSET Nodes, NEW n \in Nodes,
         NEW x \in [Indexed -> [Objects -> Pointers]], IndexOK(x, Q, S),
         Owned(Q, S \cup {n}),
         Sole(Q.kind[n]) => x[Q.kind[n]][Q.data[n]] \in {NULL, n}
  PROVE  /\ Noted(x, Q, n, n) \in [Indexed -> [Objects -> Pointers]]
         /\ IndexOK(Noted(x, Q, n, n), Q, S \cup {n})
<1> DEFINE k0 == Q.kind[n]
           o0 == Q.data[n]
           y == [x EXCEPT ![k0][o0] = n]
<1>1. k0 \in Indexed /\ o0 \in Objects /\ n # NULL /\ n \in Pointers
  BY EventListAssumption DEF Owned, EventListAssumption, Pointers
<1>2. Noted(x, Q, n, n) = y
  BY <1>1 DEF Noted
<1> HIDE DEF k0, o0
<1>3. /\ y \in [Indexed -> [Objects -> Pointers]]
      /\ \A k \in Indexed, o \in Objects : y[k][o] = IF k = k0 /\ o = o0 THEN n ELSE x[k][o]
  BY <1>1
<1> HIDE DEF y
<1>4. ASSUME NEW k \in Indexed, NEW o \in Objects, y[k][o] # NULL
      PROVE  y[k][o] \in S \cup {n} /\ Q.kind[y[k][o]] = k /\ Q.data[y[k][o]] = o
  <2>1. CASE k = k0 /\ o = o0
    BY <1>3, <2>1 DEF k0, o0
  <2>2. CASE ~(k = k0 /\ o = o0)
    BY <1>3, <1>4, <2>2 DEF IndexOK
  <2> QED
    BY <2>1, <2>2
<1>5. ASSUME NEW m \in S \cup {n}, Sole(Q.kind[m]) PROVE y[Q.kind[m]][Q.data[m]] = m
  <2>0. Q.kind[m] \in Indexed /\ Q.data[m] \in Objects
    BY DEF Owned
  <2>1. CASE m = n
    BY <1>1, <1>3, <2>1 DEF k0, o0
  <2>2. CASE m # n
    <3>1. x[Q.kind[m]][Q.data[m]] = m
      BY <1>5, <2>2 DEF IndexOK
    <3>2. m # NULL
      BY <2>2, EventListAssumption DEF EventListAssumption
    <3>3. ~(Q.kind[m] = k0 /\ Q.data[m] = o0)
      BY <1>5, <2>2, <3>1, <3>2 DEF k0, o0
    <3> QED
      BY <1>3, <2>0, <3>1, <3>3
  <2> QED
    BY <2>1, <2>2
<1> QED
  BY <1>2, <1>3, <1>4, <1>5 DEF IndexOK

\* The entry of an event that leaves S is erased.
LEMMA ErasedOK ==
  ASSUME NEW Q \in QueueType, NEW S \in SUBSET Nodes, NEW n \in S,
         NEW x \in [Indexed -> [Objects -> Pointers]], IndexOK(x, Q, S), Owned(Q, S)
  PROVE  /\ Noted(x, Q, n, NULL) \in [Indexed -> [Objects -> Pointers]]
         /\ IndexOK(Noted(x, Q, n, NULL), Q, S \ {n})
         /\ Noted(x, Q, n, NULL)[Q.kind[n]][Q.data[n]] = NULL
<1> DEFINE k0 == Q.kind[n]
           o0 == Q.data[n]
           y == [x EXCEPT ![k0][o0] = NULL]
<1>1. k0 \in Indexed /\ o0 \in Objects /\ NULL \in Pointers
  BY DEF Owned, Pointers
<1>2. Noted(x, Q, n, NULL) = y
  BY <1>1 DEF Noted
<1> HIDE DEF k0, o0
<1>3. /\ y \in [Indexed -> [Objects -> Pointers]]
      /\ \A k \in Indexed, o \in Objects : y[k][o] = IF k = k0 /\ o = o0 THEN NULL ELSE x[k][o]
  BY <1>1
<1> HIDE DEF y
<1>4. ASSUME NEW k \in Indexed, NEW o \in Objects, y[k][o] # NULL
      PROVE  y[k][o] \in S \ {n} /\ Q.kind[y[k][o]] = k /\ Q.data[y[k][o]] = o
  <2>1. ~(k = k0 /\ o = o0) /\ y[k][o] = x[k][o]
    BY <1>3, <1>4
  <2>2. x[k][o] \in S /\ Q.kind[x[k][o]] = k /\ Q.data[x[k][o]] = o
    BY <1>4, <2>1 DEF IndexOK
  <2> QED
    BY <2>1, <2>2 DEF k0, o0
<1>5. ASSUME NEW m \in S \ {n}, Sole(Q.kind[m]) PROVE y[Q.kind[m]][Q.data[m]] = m
  <2>0. Q.kind[m] \in Indexed /\ Q.data[m] \in Objects
    BY DEF Owned
  <2>1. x[Q.kind[m]][Q.data[m]] = m
    BY <1>5 DEF IndexOK
  <2>2. ~(Q.kind[m] = k0 /\ Q.data[m] = o0)
    <3>1. Q.kind[m] = k0 /\ Q.data[m] = o0 => x[k0][o0] = n /\ x[k0][o0] = m
      BY <1>5, <2>1 DEF IndexOK, k0, o0
    <3> QED
      BY <3>1
  <2> QED
    BY <1>3, <2>0, <2>1, <2>2
<1>6. y[k0][o0] = NULL
  BY <1>1, <1>3
<1> QED
  BY <1>2, <1>3, <1>4, <1>5, <1>6 DEF IndexOK, k0, o0

-----------------------------------------------------------------------------
(* The operations on a queue that is in order.                              *)

\* Q with the chains s became R with the chains u; the events of F are new.
Change(Q, s, R, u, F) == QueueOK(R, u) /\ InOrder(R, u) /\ Keeps(Q, s, R, u, F)

\* the list p became the chain t
LEMMA ListChanged ==
  ASSUME NEW Q, NEW s, QueueOK(Q, s), NEW p \in Priorities, NEW R \in QueueType,
         NEW t \in Chains, LinkedAs(R, p, t), Local(Q, R, p, Rng(s[p]) \cup Rng(t)),
         \A n \in Rng(t) : n \notin Q.freed /\ PriorityOf(Q.kind[n]) = p,
         \A q \in Priorities : q # p => Rng(t) \cap Rng(s[q]) = {},
         Owned(Q, Rng([s EXCEPT ![p] = t]["low"])),
         IndexOK(R.index, Q, Rng([s EXCEPT ![p] = t]["low"]))
  PROVE  QueueOK(R, [s EXCEPT ![p] = t])
<1> DEFINE u == [s EXCEPT ![p] = t]
<1>1. /\ s \in [Priorities -> Chains] /\ u \in [Priorities -> Chains]
      /\ u[p] = t /\ \A q \in Priorities : q # p => u[q] = s[q]
  BY DEF QueueOK
<1>2. Owned(Q, Rng(u["low"])) /\ IndexOK(R.index, Q, Rng(u["low"]))
  OBVIOUS
<1> HIDE DEF u
<1>3. R.kind = Q.kind /\ R.data = Q.data /\ R.freed = Q.freed
  BY DEF Local, Attributes
<1>4. \A q \in Priorities : LinkedAs(R, q, u[q])
  <2> SUFFICES ASSUME NEW q \in Priorities, q # p PROVE LinkedAs(R, q, s[q])
    BY <1>1
  <2>1. (Rng(s[p]) \cup Rng(t)) \cap Rng(s[q]) = {}
    BY DEF QueueOK
  <2> QED
    BY <2>1, OtherList
<1>5. \A q, r \in Priorities : q # r => Rng(u[q]) \cap Rng(u[r]) = {}
  <2> SUFFICES ASSUME NEW q \in Priorities, NEW r \in Priorities, q # r
               PROVE  Rng(u[q]) \cap Rng(u[r]) = {}
    OBVIOUS
  <2>1. Rng(s[q]) \cap Rng(s[r]) = {}
    BY DEF QueueOK
  <2> QED
    BY <1>1, <2>1
<1>6. \A q \in Priorities : \A n \in Rng(u[q]) : n \notin R.freed /\ PriorityOf(R.kind[n]) = q
  <2> SUFFICES ASSUME NEW q \in Priorities, NEW n \in Rng(u[q])
               PROVE  n \notin Q.freed /\ PriorityOf(Q.kind[n]) = q
    BY <1>3
  <2> QED
    BY <1>1 DEF QueueOK
<1>7. Owned(R, Rng(u["low"])) /\ IndexOK(R.index, R, Rng(u["low"]))
  BY <1>2, <1>3 DEF Owned, IndexOK
<1> QED
  BY <1>1, <1>4, <1>5, <1>6, <1>7 DEF QueueOK, u

\* Checks and expirations are the events of the low list.
LEMMA PriorityFacts ==
  /\ "low" \in Priorities /\ "high" \in Priorities
  /\ \A k : PriorityOf(k) \in Priorities /\ (PriorityOf(k) = "low" <=> k \in Indexed)
BY DEF PriorityOf, Priorities

\* The lists that did not change are in order and keep everything.
LEMMA OneList ==
  ASSUME NEW Q, NEW s, QueueOK(Q, s), InOrder(Q, s), NEW p \in Priorities, NEW R,
         R.when = Q.when, NEW t, NEW F, NEW u, u = [s EXCEPT ![p] = t],
         \A q \in Priorities : q # p => F \cap Rng(s[q]) = {},
         Sorted(t, Q.when), KeepsList(s[p], Q.when, t, Q.when, F)
  PROVE  InOrder(R, u) /\ Keeps(Q, s, R, u, F)
<1>1. /\ u[p] = t /\ \A q \in Priorities : q # p => u[q] = s[q]
  BY DEF QueueOK
<1>2. InOrder(R, u)
  BY <1>1 DEF InOrder
<1>3. ASSUME NEW q \in Priorities
      PROVE  KeepsList(s[q], Q.when, u[q], R.when, F)
  <2>1. CASE q = p
    BY <1>1, <2>1
  <2>2. CASE q # p
    BY <1>1, <2>2 DEF KeepsList
  <2> QED
    BY <2>1, <2>2
<1> QED
  BY <1>2, <1>3 DEF Keeps

\* add_event of an event that is in no list
Addable(Q, s, n) ==
  /\ n \in Nodes /\ Outside(s, n) /\ n \notin Q.freed
  /\ Q.kind[n] \in Indexed =>
       /\ Q.data[n] \in Objects
       /\ Sole(Q.kind[n]) => Q.index[Q.kind[n]][Q.data[n]] = NULL

LEMMA AddOK ==
  ASSUME NEW Q, NEW s, QueueOK(Q, s), InOrder(Q, s), NEW n, Addable(Q, s, n),
         NEW p, p = PriorityOf(Q.kind[n])
  PROVE  LET R == AddEvent(Q, p, n) IN
         /\ R.index = Noted(Q.index, Q, n, n) /\ Attributes(R) = Attributes(Q)
         /\ \E u : Change(Q, s, R, u, {n})
<1> DEFINE R == AddEvent(Q, p, n)
<1>0. n \in Nodes /\ Q \in QueueType /\ p \in Priorities /\ s[p] \in Chains /\ n \notin Rng(s[p])
      /\ LinkedAs(Q, p, s[p]) /\ Sorted(s[p], Q.when) /\ n \in Nodes \ Rng(s[p])
  BY PriorityFacts DEF Addable, QueueOK, Outside, InOrder
<1>1. /\ R \in QueueType
      /\ R.index = IndexInsert(Q, n).index
      /\ Local(Q, R, p, Rng(s[p]) \cup {n})
      /\ \E j \in 0 .. Len(s[p]) : /\ Place(s[p], Q.when, n, j)
                                   /\ LinkedAs(R, p, Inserted(s[p], j, n))
  BY <1>0, AddEventFacts
<1>2. R.index = Noted(Q.index, Q, n, n)
  <2>1. n \in Pointers
    BY <1>0 DEF Pointers
  <2>2. IndexInsert(Q, n).index = Noted(Q.index, Q, n, n)
    BY <1>0, <2>1, IndexPutFacts DEF IndexInsert, Noted
  <2> QED
    BY <1>1, <2>2
<1> HIDE DEF R
<1>3. PICK j \in 0 .. Len(s[p]) : /\ Place(s[p], Q.when, n, j)
                                  /\ LinkedAs(R, p, Inserted(s[p], j, n))
  BY <1>1
<1> DEFINE t == Inserted(s[p], j, n)
           u == [s EXCEPT ![p] = t]
<1>4. /\ t \in Chains /\ Rng(t) = Rng(s[p]) \cup {n}
  BY <1>0, InsertedFacts
<1>5. Sorted(t, Q.when)
  <2>1. \A m \in Nodes : Q.when[m] \in Nat
    BY <1>0, EventListAssumption DEF QueueType, Times, EventListAssumption
  <2> QED
    BY <1>0, <1>3, <2>1, InsertedSorted
<1>6. /\ \A a, b : Before(s[p], a, b) => Before(t, a, b)
      /\ \A i \in 1 .. j : Before(t, s[p][i], n)
  BY <1>0, InsertedOrder
<1> HIDE DEF t
<1>7. u[p] = t /\ \A q \in Priorities : q # p => u[q] = s[q]
  BY <1>0 DEF QueueOK
<1>8. \A q \in Priorities : q # p => Rng(t) \cap Rng(s[q]) = {} /\ {n} \cap Rng(s[q]) = {}
  <2> SUFFICES ASSUME NEW q \in Priorities, q # p
               PROVE  Rng(t) \cap Rng(s[q]) = {} /\ {n} \cap Rng(s[q]) = {}
    OBVIOUS
  <2>1. Rng(s[p]) \cap Rng(s[q]) = {} /\ n \notin Rng(s[q])
    BY <1>0 DEF QueueOK, Addable, Outside
  <2> QED
    BY <1>4, <2>1
<1>9. Local(Q, R, p, Rng(s[p]) \cup Rng(t))
  <2>1. Rng(s[p]) \cup Rng(t) = Rng(s[p]) \cup {n}
    BY <1>4
  <2> QED
    BY <1>1, <2>1
<1>10. \A m \in Rng(t) : m \notin Q.freed /\ PriorityOf(Q.kind[m]) = p
  BY <1>0, <1>4 DEF Addable, QueueOK
<1>11. Owned(Q, Rng(u["low"])) /\ IndexOK(R.index, Q, Rng(u["low"]))
  <2>0. Owned(Q, Rng(s["low"])) /\ IndexOK(Q.index, Q, Rng(s["low"]))
    BY DEF QueueOK
  <2>1. CASE p = "low"
    <3>1. Q.kind[n] \in Indexed /\ Q.data[n] \in Objects
          /\ (Sole(Q.kind[n]) => Q.index[Q.kind[n]][Q.data[n]] \in {NULL, n})
      BY <2>1, PriorityFacts DEF Addable
    <3>2. Rng(u["low"]) = Rng(s["low"]) \cup {n} /\ Rng(s["low"]) \in SUBSET Nodes
      BY <1>0, <1>4, <1>7, <2>1, ChainFacts
    <3>3. Owned(Q, Rng(s["low"]) \cup {n})
      BY <2>0, <3>1 DEF Owned
    <3>4. Q.index \in [Indexed -> [Objects -> Pointers]]
      BY <1>0 DEF QueueType
    <3>5. IndexOK(Noted(Q.index, Q, n, n), Q, Rng(s["low"]) \cup {n})
      <4> HIDE DEF u
      <4> QED
        BY <1>0, <2>0, <3>1, <3>2, <3>3, <3>4, NotedOK
    <3> QED
      BY <1>2, <3>2, <3>3, <3>5
  <2>2. CASE p # "low"
    <3>1. u["low"] = s["low"] /\ Q.kind[n] \notin Indexed
      BY <1>7, <2>2, PriorityFacts
    <3> QED
      BY <1>2, <2>0, <3>1 DEF Noted
  <2> QED
    BY <2>1, <2>2
<1>12. QueueOK(R, u)
  BY <1>0, <1>1, <1>3, <1>4, <1>8, <1>9, <1>10, <1>11, ListChanged DEF t
<1>13. InOrder(R, u) /\ Keeps(Q, s, R, u, {n})
  <2>1. R.when = Q.when
    BY <1>1 DEF Local, Attributes
  <2> DEFINE F == {n}
  <2>2. ASSUME NEW a \in Rng(t) \ F, NEW b \in F \cap Rng(t), Q.when[a] = Q.when[b]
        PROVE  Before(t, a, b)
    <3>1. PICK i \in 1 .. Len(s[p]) : s[p][i] = a
      BY <1>0, <1>4, ChainFacts
    <3>2. Q.when[a] \in Nat
      <4>1. a \in Nodes
        BY <1>4, ChainFacts
      <4> QED
        BY <1>0, <4>1, EventListAssumption DEF QueueType, Times, EventListAssumption
    <3>3. i <= j
      BY <1>3, <2>2, <3>1, <3>2 DEF Place
    <3>4. i \in 1 .. j
      BY <1>0, <3>1, <3>3, ChainFacts
    <3> QED
      BY <1>6, <3>1, <3>4
  <2>3. Rng(t) \ F \subseteq Rng(s[p])
    BY <1>4
  <2>4. \A a, b \in Rng(t) \ F : Before(s[p], a, b) => Before(t, a, b)
    BY <1>6
  <2>5. KeepsList(s[p], Q.when, t, Q.when, F)
    BY <2>2, <2>3, <2>4 DEF KeepsList
  <2>6. \A q \in Priorities : q # p => F \cap Rng(s[q]) = {}
    BY <1>8
  <2>7. u = [s EXCEPT ![p] = t]
    OBVIOUS
  <2>0. QueueOK(Q, s) /\ InOrder(Q, s) /\ p \in Priorities /\ Sorted(t, Q.when)
    BY <1>0, <1>5
  <2> HIDE DEF u, F
  <2>8. InOrder(R, u) /\ Keeps(Q, s, R, u, F)
    BY ONLY <2>0, <2>1, <2>5, <2>6, <2>7, OneList
  <2> QED
    BY <2>8 DEF F
<1>14. Change(Q, s, R, u, {n})
  BY <1>12, <1>13 DEF Change
<1> QED
  BY <1>1, <1>2, <1>14 DEF R, Local
\* An event that leaves its list leaves the index too.
LEMMA RemovedOK ==
  ASSUME NEW Q, NEW s, QueueOK(Q, s), InOrder(Q, s), NEW p \in Priorities,
         NEW j \in 1 .. Len(s[p]), NEW R \in QueueType,
         R.index = IndexErase(Q, s[p][j]).index,
         Local(Q, R, p, Rng(s[p])), LinkedAs(R, p, Without(s[p], j))
  PROVE  LET u == [s EXCEPT ![p] = Without(s[p], j)] IN
         /\ Change(Q, s, R, u, {}) /\ Attributes(R) = Attributes(Q)
         /\ R.index = Noted(Q.index, Q, s[p][j], NULL)
         /\ Outside(u, s[p][j])
<1> DEFINE n == s[p][j]
           t == Without(s[p], j)
           u == [s EXCEPT ![p] = t]
<1>0. Q \in QueueType /\ s[p] \in Chains /\ n \in Nodes /\ n \in Rng(s[p])
      /\ Sorted(s[p], Q.when) /\ \A q \in Priorities : s[q] \in Chains
  <2>1. s[p] \in Chains
    BY DEF QueueOK
  <2> QED
    BY <2>1, ChainFacts DEF QueueOK, InOrder
<1>1. R.index = Noted(Q.index, Q, n, NULL)
  <2>1. NULL \in Pointers
    BY DEF Pointers
  <2>2. IndexErase(Q, n).index = Noted(Q.index, Q, n, NULL)
    BY <1>0, <2>1, IndexPutFacts DEF IndexErase, Noted
  <2> QED
    BY <2>2
<1>2. t \in Chains /\ Rng(t) = Rng(s[p]) \ {n}
  BY <1>0, WithoutFacts
<1>3. /\ \A a, b : Before(s[p], a, b) /\ a # n /\ b # n => Before(t, a, b)
      /\ Sorted(t, Q.when)
  BY <1>0, WithoutOrder
<1> HIDE DEF t
<1>4. u[p] = t /\ \A q \in Priorities : q # p => u[q] = s[q]
  BY DEF QueueOK
<1>5. \A q \in Priorities : q # p => Rng(s[p]) \cap Rng(s[q]) = {}
  BY DEF QueueOK
<1>6. Local(Q, R, p, Rng(s[p]) \cup Rng(t))
  <2>1. Rng(s[p]) \cup Rng(t) = Rng(s[p])
    BY <1>2
  <2> QED
    BY <2>1
<1>7. /\ \A m \in Rng(t) : m \notin Q.freed /\ PriorityOf(Q.kind[m]) = p
      /\ \A q \in Priorities : q # p => Rng(t) \cap Rng(s[q]) = {}
  BY <1>2, <1>5 DEF QueueOK
<1>8. Owned(Q, Rng(u["low"])) /\ IndexOK(R.index, Q, Rng(u["low"]))
  <2>0. Owned(Q, Rng(s["low"])) /\ IndexOK(Q.index, Q, Rng(s["low"]))
    BY DEF QueueOK
  <2>1. CASE p = "low"
    <3>1. Rng(u["low"]) = Rng(s["low"]) \ {n} /\ Rng(s["low"]) \in SUBSET Nodes
          /\ n \in Rng(s["low"])
      BY <1>0, <1>2, <1>4, <2>1, ChainFacts
    <3>2. Owned(Q, Rng(s["low"]) \ {n})
      BY <2>0 DEF Owned
    <3>3. Q.index \in [Indexed -> [Objects -> Pointers]]
      BY <1>0 DEF QueueType
    <3>4. IndexOK(Noted(Q.index, Q, n, NULL), Q, Rng(s["low"]) \ {n})
      <4> HIDE DEF u, n
      <4> QED
        BY <1>0, <2>0, <3>1, <3>2, <3>3, ErasedOK
    <3> QED
      BY <1>1, <3>1, <3>2, <3>4
  <2>2. CASE p # "low"
    <3>1. u["low"] = s["low"]
      BY <1>4, <2>2, PriorityFacts
    <3>2. Q.kind[n] \notin Indexed
      <4>1. PriorityOf(Q.kind[n]) = p
        BY <1>0 DEF QueueOK
      <4> QED
        BY <2>2, <4>1, PriorityFacts
    <3> QED
      BY <1>1, <2>0, <3>1, <3>2 DEF Noted
  <2> QED
    BY <2>1, <2>2
<1>9. QueueOK(R, u)
  BY <1>2, <1>6, <1>7, <1>8, ListChanged DEF t
<1>10. InOrder(R, u) /\ Keeps(Q, s, R, u, {})
  <2> DEFINE F == {}
  <2>1. KeepsList(s[p], Q.when, t, Q.when, F)
    BY <1>2, <1>3 DEF KeepsList
  <2>2. R.when = Q.when
    BY DEF Local, Attributes
  <2>3. \A q \in Priorities : q # p => F \cap Rng(s[q]) = {}
    OBVIOUS
  <2>4. u = [s EXCEPT ![p] = t]
    OBVIOUS
  <2>0. QueueOK(Q, s) /\ InOrder(Q, s) /\ p \in Priorities /\ Sorted(t, Q.when)
    BY <1>3
  <2> HIDE DEF u, F
  <2>5. InOrder(R, u) /\ Keeps(Q, s, R, u, F)
    BY ONLY <2>0, <2>1, <2>2, <2>3, <2>4, OneList
  <2> QED
    BY <2>5 DEF F
<1>11. Outside(u, n)
  <2>1. \A q \in Priorities : q # p => n \notin Rng(s[q])
    BY <1>0, <1>5
  <2> QED
    BY <1>2, <1>4, <2>1 DEF Outside
<1>12. Attributes(R) = Attributes(Q)
  BY DEF Local
<1> QED
  BY <1>1, <1>9, <1>10, <1>11, <1>12 DEF Change, t

\* remove_event of an event of the low list
LEMMA RemoveOK ==
  ASSUME NEW Q, NEW s, QueueOK(Q, s), InOrder(Q, s), NEW n \in Rng(s["low"])
  PROVE  LET R == RemoveEvent(Q, "low", n) IN
         /\ Attributes(R) = Attributes(Q) /\ R.index = Noted(Q.index, Q, n, NULL)
         /\ \E u : Change(Q, s, R, u, {}) /\ Outside(u, n)
<1> DEFINE p == "low"
           R == RemoveEvent(Q, p, n)
<1>0. p \in Priorities /\ s[p] \in Chains /\ Q \in QueueType /\ LinkedAs(Q, p, s[p])
  BY PriorityFacts DEF QueueOK
<1> HIDE DEF p
<1>1. PICK j \in 1 .. Len(s[p]) : s[p][j] = n
  BY <1>0, ChainFacts DEF p
<1>2. LET V == RemoveEvent(Q, p, s[p][j]) IN
         /\ V \in QueueType /\ V.index = IndexErase(Q, s[p][j]).index
         /\ Local(Q, V, p, Rng(s[p]))
         /\ LinkedAs(V, p, Without(s[p], j))
  BY <1>0, RemoveEventFacts
<1>3. R \in QueueType /\ R.index = IndexErase(Q, s[p][j]).index
      /\ Local(Q, R, p, Rng(s[p])) /\ LinkedAs(R, p, Without(s[p], j))
  BY <1>1, <1>2
<1> HIDE DEF R
<1> DEFINE u == [s EXCEPT ![p] = Without(s[p], j)]
<1>4. /\ Change(Q, s, R, u, {}) /\ Attributes(R) = Attributes(Q)
      /\ R.index = Noted(Q.index, Q, s[p][j], NULL)
      /\ Outside(u, s[p][j])
  BY <1>0, <1>3, RemovedOK
<1> QED
  BY <1>1, <1>4 DEF R, p

\* the loop takes the head of a list
LEMMA PopOK ==
  ASSUME NEW Q, NEW s, QueueOK(Q, s), InOrder(Q, s), NEW p \in Priorities, Len(s[p]) > 0
  PROVE  LET R == PopHead(Q, p)
             u == [s EXCEPT ![p] = Without(s[p], 1)]
         IN  /\ Q.list[p].head = s[p][1]
             /\ Change(Q, s, R, u, {}) /\ Attributes(R) = Attributes(Q)
             /\ R.index = Noted(Q.index, Q, s[p][1], NULL)
             /\ Outside(u, s[p][1])
<1> DEFINE R == PopHead(Q, p)
<1>0. s[p] \in Chains /\ Q \in QueueType /\ LinkedAs(Q, p, s[p]) /\ 1 \in 1 .. Len(s[p])
  <2>1. s[p] \in Chains /\ Q \in QueueType /\ LinkedAs(Q, p, s[p])
    BY DEF QueueOK
  <2>2. Len(s[p]) \in Nat
    BY <2>1, ChainFacts
  <2> QED
    BY <2>1, <2>2
<1>1. /\ Q.list[p].head = s[p][1]
      /\ R \in QueueType /\ R.index = IndexErase(Q, s[p][1]).index
      /\ Local(Q, R, p, Rng(s[p]))
      /\ LinkedAs(R, p, Without(s[p], 1))
  BY <1>0, PopHeadFacts
<1> HIDE DEF R
<1> DEFINE u == [s EXCEPT ![p] = Without(s[p], 1)]
<1>2. /\ Change(Q, s, R, u, {}) /\ Attributes(R) = Attributes(Q)
      /\ R.index = Noted(Q.index, Q, s[p][1], NULL)
      /\ Outside(u, s[p][1])
  BY <1>0, <1>1, RemovedOK
<1> QED
  BY <1>1, <1>2 DEF R

\* the kinds and objects of the events outside F are the same
Same(Q, R, F) ==
  \A m \in Nodes \ F : R.kind[m] = Q.kind[m] /\ R.data[m] = Q.data[m]

\* remove_event and delete
LEMMA DropOK ==
  ASSUME NEW Q, NEW s, QueueOK(Q, s), InOrder(Q, s), NEW n \in Rng(s["low"])
  PROVE  LET R == Drop(Q, n) IN
         /\ Same(Q, R, {}) /\ R.freed = Q.freed \cup {n}
         /\ R.index = Noted(Q.index, Q, n, NULL)
         /\ \E u : Change(Q, s, R, u, {}) /\ Outside(u, n)
<1> DEFINE P == RemoveEvent(Q, "low", n)
           R == Drop(Q, n)
<1>0. n \in Nodes /\ Q \in QueueType
  <2>1. s["low"] \in Chains
    BY PriorityFacts DEF QueueOK
  <2> QED
    BY <2>1, ChainFacts DEF QueueOK
<1>1. /\ Attributes(P) = Attributes(Q) /\ P.index = Noted(Q.index, Q, n, NULL)
      /\ \E u : Change(Q, s, P, u, {}) /\ Outside(u, n)
  BY RemoveOK
<1>2. R = [P EXCEPT !.freed = P.freed \cup {n}]
  BY DEF Drop
<1> HIDE DEF P, R
<1>3. PICK u : Change(Q, s, P, u, {}) /\ Outside(u, n)
  BY <1>1
<1>4. P \in QueueType /\ QueueOK(P, u) /\ InOrder(P, u)
  BY <1>3 DEF Change, QueueOK
<1>5. R \in QueueType /\ R.freed = P.freed \cup {n}
      /\ R.list = P.list /\ R.next = P.next /\ R.prev = P.prev /\ R.index = P.index
      /\ R.when = P.when /\ R.kind = P.kind /\ R.data = P.data
  BY <1>0, <1>2, <1>4 DEF QueueType
<1>6. QueueOK(R, u) /\ InOrder(R, u) /\ Keeps(P, u, R, u, {})
  BY <1>0, <1>3, <1>4, <1>5, SetOutside
<1>7. Keeps(Q, s, R, u, {} \cup {})
  <2>1. Keeps(Q, s, P, u, {})
    BY <1>3 DEF Change
  <2> QED
    BY <1>6, <2>1, KeepsChain
<1>8. Keeps(Q, s, R, u, {})
  <2>1. {} \cup {} = {}
    OBVIOUS
  <2> QED
    BY <1>7, <2>1, Zenon
<1>9. Change(Q, s, R, u, {}) /\ Outside(u, n)
  BY <1>3, <1>6, <1>8 DEF Change
<1> QED
  BY <1>1, <1>5, <1>9 DEF Attributes, Same, R
\* A new event, at an address that holds none.
Schedulable(Q, n, k, o, t, f) ==
  /\ n \in Q.freed /\ k \in Kinds /\ t \in Times /\ f \in BOOLEAN
  /\ o \in Objects \cup {NULL}
  /\ k \in Indexed => o \in Objects /\ (Sole(k) => Q.index[k][o] = NULL)

LEMMA ScheduleOK ==
  ASSUME NEW Q, NEW s, QueueOK(Q, s), InOrder(Q, s),
         NEW n, NEW k, NEW o, NEW t, NEW f, Schedulable(Q, n, k, o, t, f)
  PROVE  LET R == Schedule(Q, n, k, o, t, f) IN
         /\ n \in Nodes /\ R.freed = Q.freed \ {n}
         /\ Same(Q, R, {n}) /\ R.kind[n] = k /\ R.data[n] = o
         /\ R.index = Noted(Q.index, R, n, n)
         /\ \E u : Change(Q, s, R, u, {n})
<1> DEFINE P == [Q EXCEPT !.when[n] = t, !.kind[n] = k, !.data[n] = o,
                          !.forced[n] = f, !.freed = Q.freed \ {n}]
           R == AddEvent(P, PriorityOf(k), n)
<1>0. Q \in QueueType /\ n \in Nodes /\ Outside(s, n)
  <2>1. Q \in QueueType
    BY DEF QueueOK
  <2>2. n \in Nodes
    BY <2>1 DEF QueueType, Schedulable
  <2>3. Outside(s, n)
    BY DEF QueueOK, Schedulable, Outside
  <2> QED
    BY <2>1, <2>2, <2>3
<1>1. Schedule(Q, n, k, o, t, f) = R
  BY DEF Schedule
<1>2. P = [Q EXCEPT !.when = [Q.when EXCEPT ![n] = t], !.kind = [Q.kind EXCEPT ![n] = k],
                    !.data = [Q.data EXCEPT ![n] = o], !.forced = [Q.forced EXCEPT ![n] = f],
                    !.freed = Q.freed \ {n}]
  OBVIOUS
<1>3. /\ [Q.when EXCEPT ![n] = t] \in [Nodes -> Times]
      /\ [Q.kind EXCEPT ![n] = k] \in [Nodes -> Kinds]
      /\ [Q.data EXCEPT ![n] = o] \in [Nodes -> Objects \cup {NULL}]
      /\ [Q.forced EXCEPT ![n] = f] \in [Nodes -> BOOLEAN]
      /\ Q.freed \ {n} \in SUBSET Nodes
  BY <1>0 DEF QueueType, Schedulable
<1> HIDE DEF P, R
<1>4. /\ P \in QueueType /\ P.freed = Q.freed \ {n}
      /\ P.list = Q.list /\ P.next = Q.next /\ P.prev = Q.prev /\ P.index = Q.index
      /\ P.when = [Q.when EXCEPT ![n] = t] /\ P.kind = [Q.kind EXCEPT ![n] = k]
      /\ P.data = [Q.data EXCEPT ![n] = o]
  BY <1>0, <1>2, <1>3 DEF QueueType
<1>5. /\ P.kind[n] = k /\ P.data[n] = o
      /\ \A m \in Nodes : m # n =>
           P.when[m] = Q.when[m] /\ P.kind[m] = Q.kind[m] /\ P.data[m] = Q.data[m]
  BY <1>0, <1>4 DEF QueueType
<1>6. QueueOK(P, s) /\ InOrder(P, s) /\ Keeps(Q, s, P, s, {})
  <2>1. P.freed \subseteq Q.freed \cup {n}
    BY <1>4
  <2> QED
    BY <1>0, <1>4, <1>5, <2>1, SetOutside
<1>7. Addable(P, s, n)
  BY <1>0, <1>4, <1>5 DEF Addable, Schedulable
<1>8. /\ R.index = Noted(P.index, P, n, n) /\ Attributes(R) = Attributes(P)
      /\ \E u : Change(P, s, R, u, {n})
  BY <1>5, <1>6, <1>7, AddOK DEF R
<1>9. PICK u : Change(P, s, R, u, {n})
  BY <1>8
<1>10. Keeps(Q, s, R, u, {} \cup {n})
  <2>1. Keeps(P, s, R, u, {n})
    BY <1>9 DEF Change
  <2> QED
    BY <1>6, <2>1, KeepsChain
<1>11. {} \cup {n} = {n}
  OBVIOUS
<1>12. Change(Q, s, R, u, {n})
  BY <1>9, <1>10, <1>11 DEF Change
<1>13. R.when = P.when /\ R.kind = P.kind /\ R.data = P.data /\ R.freed = P.freed
  BY <1>8 DEF Attributes
<1>14. R.index = Noted(Q.index, R, n, n)
  BY <1>4, <1>8, <1>13 DEF Noted
<1> QED
  BY <1>0, <1>1, <1>4, <1>5, <1>12, <1>13, <1>14 DEF Same

\* resort_event_list, of a list that need not be in order
LEMMA ResortOK ==
  ASSUME NEW Q, NEW s, QueueOK(Q, s), NEW p \in Priorities
  PROVE  LET R == Resort(Q, p) IN
         /\ Attributes(R) = Attributes(Q)
         /\ \E t \in Chains : /\ QueueOK(R, [s EXCEPT ![p] = t]) /\ Sorted(t, Q.when)
                              /\ Rng(t) = Rng(s[p]) /\ Stable(s[p], t, Q.when)
<1> DEFINE R == Resort(Q, p)
           X == [Indexed -> [Objects -> Pointers]]
           I == {x \in X : IndexOK(x, Q, Rng(s["low"]))}
<1>0. /\ Q \in QueueType /\ s[p] \in Chains /\ LinkedAs(Q, p, s[p])
      /\ Owned(Q, Rng(s["low"])) /\ IndexOK(Q.index, Q, Rng(s["low"]))
      /\ Rng(s[p]) \subseteq Nodes /\ Rng(s["low"]) \subseteq Nodes
  <2>1. s[p] \in Chains /\ s["low"] \in Chains
    BY PriorityFacts DEF QueueOK
  <2>2. Rng(s[p]) \subseteq Nodes /\ Rng(s["low"]) \subseteq Nodes
    BY <2>1, ChainFacts
  <2> QED
    BY <2>1, <2>2 DEF QueueOK
<1>1. Q.index \in I
  BY <1>0 DEF QueueType
<1>2. ASSUME NEW x \in I, NEW n \in Rng(s[p]) PROVE Noted(x, Q, n, n) \in I
  <2>1. CASE Q.kind[n] \in Indexed
    <3>1. PriorityOf(Q.kind[n]) = p
      BY DEF QueueOK
    <3>2. n \in Rng(s["low"]) /\ Rng(s["low"]) \cup {n} = Rng(s["low"]) /\ n \in Nodes
      BY <1>0, <2>1, <3>1, PriorityFacts
    <3>3. Sole(Q.kind[n]) => x[Q.kind[n]][Q.data[n]] \in {NULL, n}
      BY <3>2 DEF IndexOK
    <3>4. Owned(Q, Rng(s["low"]) \cup {n})
      BY <1>0, <3>2
    <3>5. /\ Noted(x, Q, n, n) \in [Indexed -> [Objects -> Pointers]]
          /\ IndexOK(Noted(x, Q, n, n), Q, Rng(s["low"]) \cup {n})
      <4>1. x \in [Indexed -> [Objects -> Pointers]] /\ IndexOK(x, Q, Rng(s["low"]))
        OBVIOUS
      <4> QED
        BY <1>0, <3>2, <3>3, <3>4, <4>1, NotedOK
    <3> QED
      BY <3>2, <3>5
  <2>2. CASE Q.kind[n] \notin Indexed
    BY <2>2 DEF Noted
  <2> QED
    BY <2>1, <2>2
<1> HIDE DEF I
<1>3. Resorted(Q, p, s[p], I, R, Len(s[p]))
  BY <1>0, <1>1, <1>2, ResortFacts
<1> HIDE DEF R
<1>4. R \in QueueType /\ R.index \in I /\ Local(Q, R, p, Rng(s[p]))
  BY <1>3 DEF Resorted
<1>5. PICK t \in Chains : /\ LinkedAs(R, p, t) /\ Sorted(t, Q.when)
                          /\ Stable(s[p], t, Q.when)
                          /\ Rng(t) = {s[p][i] : i \in 1 .. Len(s[p])}
  BY <1>3 DEF Resorted
<1>6. Rng(t) = Rng(s[p])
  BY <1>0, <1>5, ChainFacts
<1>7. IndexOK(R.index, Q, Rng(s["low"]))
  BY <1>4 DEF I
<1> DEFINE u == [s EXCEPT ![p] = t]
<1>8. Rng(u["low"]) = Rng(s["low"])
  BY <1>6 DEF QueueOK
<1>9. Owned(Q, Rng(u["low"])) /\ IndexOK(R.index, Q, Rng(u["low"]))
  BY <1>0, <1>7, <1>8
<1>10. QueueOK(R, u)
  <2>1. /\ \A n \in Rng(t) : n \notin Q.freed /\ PriorityOf(Q.kind[n]) = p
        /\ \A q \in Priorities : q # p => Rng(t) \cap Rng(s[q]) = {}
    BY <1>6 DEF QueueOK
  <2>2. Local(Q, R, p, Rng(s[p]) \cup Rng(t))
    <3>1. Rng(s[p]) \cup Rng(t) = Rng(s[p])
      BY <1>6
    <3> QED
      BY <1>4, <3>1
  <2> QED
    BY <1>4, <1>5, <1>9, <2>1, <2>2, ListChanged
<1> QED
  BY <1>4, <1>5, <1>6, <1>10 DEF R, Local
-----------------------------------------------------------------------------
(* What a handler makes of the queue.                                       *)

\* From Q with the chains s to R with the chains u: the events of F, for o if they
\* are checks or expirations, are new, at addresses that were free or became so.
Evolves(Q, s, R, u, F, o) ==
  /\ Change(Q, s, R, u, F) /\ Same(Q, R, F)
  /\ F \subseteq Q.freed \cup Rng(s["low"])
  /\ R.freed \subseteq Q.freed \cup Rng(s["low"])
  /\ \A n \in F : n \in Nodes /\ (R.kind[n] \in Indexed => R.data[n] = o)

\* doing nothing
LEMMA EvolvesNot ==
  ASSUME NEW Q, NEW s, QueueOK(Q, s), InOrder(Q, s), NEW o
  PROVE  Evolves(Q, s, Q, s, {}, o)
BY DEF Evolves, Change, Same, Keeps, KeepsList

\* one operation after another
LEMMA EvolvesChain ==
  ASSUME NEW Q, NEW s, NEW R, NEW u, NEW S, NEW v, NEW F, NEW G, NEW o,
         Evolves(Q, s, R, u, F, o), Evolves(R, u, S, v, G, o)
  PROVE  Evolves(Q, s, S, v, F \cup G, o)
<1>1. Change(Q, s, S, v, F \cup G)
  BY KeepsChain DEF Evolves, Change
<1>2. Same(Q, S, F \cup G)
  BY DEF Evolves, Same
<1>3. Rng(u["low"]) \subseteq Rng(s["low"]) \cup F
  BY PriorityFacts DEF Evolves, Change, Keeps, KeepsList
<1>4. /\ F \cup G \subseteq Q.freed \cup Rng(s["low"])
      /\ S.freed \subseteq Q.freed \cup Rng(s["low"])
  BY <1>3 DEF Evolves
<1>5. \A n \in F \cup G : n \in Nodes /\ (S.kind[n] \in Indexed => S.data[n] = o)
  BY DEF Evolves, Same
<1> QED
  BY <1>1, <1>2, <1>4, <1>5 DEF Evolves

\* an event is dropped
LEMMA DropEvolves ==
  ASSUME NEW Q, NEW s, QueueOK(Q, s), InOrder(Q, s), NEW n \in Rng(s["low"]), NEW o
  PROVE  \E u : Evolves(Q, s, Drop(Q, n), u, {}, o)
<1>1. LET R == Drop(Q, n) IN
      /\ Same(Q, R, {}) /\ R.freed = Q.freed \cup {n}
      /\ R.index = Noted(Q.index, Q, n, NULL)
      /\ \E u : Change(Q, s, R, u, {}) /\ Outside(u, n)
  BY DropOK
<1> QED
  BY <1>1 DEF Evolves

\* an event is scheduled
LEMMA ScheduleEvolves ==
  ASSUME NEW Q, NEW s, QueueOK(Q, s), InOrder(Q, s),
         NEW n, NEW k, NEW o, NEW t, NEW f, Schedulable(Q, n, k, o, t, f)
  PROVE  \E u : Evolves(Q, s, Schedule(Q, n, k, o, t, f), u, {n}, o)
<1>1. LET R == Schedule(Q, n, k, o, t, f) IN
      /\ n \in Nodes /\ R.freed = Q.freed \ {n}
      /\ Same(Q, R, {n}) /\ R.kind[n] = k /\ R.data[n] = o
      /\ R.index = Noted(Q.index, R, n, n)
      /\ \E u : Change(Q, s, R, u, {n})
  BY ScheduleOK
<1> QED
  BY <1>1 DEF Evolves, Schedulable

\* the index entry of an object is an event of the low list; once it is dropped
\* the object has none, and the other kind's entry is as before
LEMMA DropEntry ==
  ASSUME NEW Q, NEW s, QueueOK(Q, s), InOrder(Q, s), NEW k \in Indexed, NEW o \in Objects,
         NEW R, R = IF Q.index[k][o] = NULL THEN Q ELSE Drop(Q, Q.index[k][o])
  PROVE  /\ \E u : Evolves(Q, s, R, u, {}, o)
         /\ R.index[k][o] = NULL
         /\ \A l \in Indexed : l # k => R.index[l][o] = Q.index[l][o]
<1> DEFINE n == Q.index[k][o]
<1>1. CASE n = NULL
  BY <1>1, EvolvesNot
<1>2. CASE n # NULL
  <2>1. n \in Rng(s["low"]) /\ Q.kind[n] = k /\ Q.data[n] = o
    BY <1>2 DEF QueueOK, IndexOK
  <2>2. R = Drop(Q, n) /\ Q.index \in [Indexed -> [Objects -> Pointers]]
    BY <1>2 DEF QueueOK, QueueType
  <2> HIDE DEF n
  <2>3. LET V == Drop(Q, n) IN
        /\ Same(Q, V, {}) /\ V.freed = Q.freed \cup {n}
        /\ V.index = Noted(Q.index, Q, n, NULL)
        /\ \E u : Change(Q, s, V, u, {}) /\ Outside(u, n)
    BY <2>1, DropOK
  <2>4. R.index = [Q.index EXCEPT ![k][o] = NULL]
    BY <2>1, <2>2, <2>3 DEF Noted
  <2>5. \E u : Evolves(Q, s, R, u, {}, o)
    BY <2>1, <2>2, DropEvolves
  <2> QED
    BY <2>2, <2>4, <2>5
<1> QED
  BY <1>1, <1>2

-----------------------------------------------------------------------------
(* The inductive invariant.                                                 *)

\* the event being run is in no list, and its memory is not free
Held(Q, s, r) == r # NULL => r \notin Q.freed /\ Outside(s, r)

\* no event for a service that left
NoneGone(Q, s, st) == ~Reack => \A n \in Rng(s["low"]) : st[Q.data[n]] # "gone"

InvAt(s) ==
  /\ QueueOK(Queue, s) /\ InOrder(Queue, s)
  /\ Held(Queue, s, running) /\ NoneGone(Queue, s, state)

IInv == TypeOK /\ \E s : InvAt(s)

\* the types, with the queue as a value
LEMMA TypeFacts ==
  TypeOK <=> /\ Queue \in QueueType /\ running \in Pointers
             /\ now \in Times /\ lastTime \in Times
             /\ state \in [Objects -> {"new", "live", "gone"}]
BY DEF TypeOK, Queue, QueueType

\* the queue of the next state
LEMMA BecomesQueue ==
  ASSUME NEW Q \in QueueType, Becomes(Q)
  PROVE  Queue' = Q
BY DEF Becomes, Queue, QueueType

\* The step changes the queue as EventQueue's Update does, and keeps the invariant.
Updates(s) ==
  /\ TypeOK'
  /\ \E u, F : InvAt(u)' /\ Change(Queue, s, Queue', u, F)
  /\ \A p \in Priorities : RunningFrom(p)' \in {RunningFrom(p), NULL}

\* A handler that evolves the queue keeps the invariant.
LEMMA EvolvedInv ==
  ASSUME TypeOK, NEW s, InvAt(s), NEW R, NEW u, NEW F, NEW o,
         Evolves(Queue, s, R, u, F, o), Becomes(R),
         running' = running, now' = now, lastTime' = lastTime,
         state' \in [Objects -> {"new", "live", "gone"}],
         ~Reack /\ (\E n \in F : R.kind[n] \in Indexed) => state'[o] # "gone",
         \A x \in Objects : state'[x] = "gone" /\ ~Reack =>
            state[x] = "gone" \/ \A n \in Rng(u["low"]) : R.data[n] # x
  PROVE  Updates(s)
<1>1. QueueOK(R, u) /\ InOrder(R, u) /\ R \in QueueType /\ QueueOK(Queue, s)
  BY DEF Evolves, Change, QueueOK, InvAt
<1>2. Queue' = R
  BY <1>1, BecomesQueue
<1>3. TypeOK'
  <2>1. Queue' \in QueueType
    BY <1>1, <1>2
  <2>2. /\ running' \in Pointers /\ now' \in Times /\ lastTime' \in Times
        /\ state' \in [Objects -> {"new", "live", "gone"}]
    BY DEF TypeOK
  <2> QED
    BY <2>1, <2>2 DEF TypeOK, Queue, QueueType
<1>4. \A p \in Priorities : Rng(u[p]) \subseteq Rng(s[p]) \cup F
  BY DEF Evolves, Change, Keeps, KeepsList
<1>5. Held(R, u, running)
  <2> SUFFICES ASSUME running # NULL PROVE running \notin R.freed /\ Outside(u, running)
    BY DEF Held
  <2>1. running \notin Queue.freed /\ Outside(s, running)
    BY DEF InvAt, Held
  <2>2. running \notin Queue.freed \cup Rng(s["low"])
    BY <2>1, PriorityFacts DEF Outside
  <2>3. running \notin F /\ running \notin R.freed
    BY <2>2 DEF Evolves
  <2> QED
    BY <1>4, <2>1, <2>3 DEF Outside
<1>6. NoneGone(R, u, state')
  <2> SUFFICES ASSUME ~Reack, NEW n \in Rng(u["low"]), state'[R.data[n]] = "gone"
               PROVE  FALSE
    BY DEF NoneGone
  <2>1. R.kind[n] \in Indexed /\ R.data[n] \in Objects /\ n \in Nodes
    <3>1. u["low"] \in Chains
      BY <1>1, PriorityFacts DEF QueueOK
    <3> QED
      BY <1>1, <3>1, ChainFacts DEF QueueOK, Owned
  <2>2. n \notin F
    BY <2>1 DEF Evolves
  <2>3. n \in Rng(s["low"]) /\ R.data[n] = Queue.data[n]
    BY <1>4, <2>1, <2>2, PriorityFacts DEF Evolves, Same
  <2>4. state[R.data[n]] # "gone"
    BY <2>3 DEF InvAt, NoneGone
  <2> QED
    BY <2>1, <2>4
<1> QED
  <2>1. InvAt(u)'
    BY <1>1, <1>2, <1>5, <1>6 DEF InvAt
  <2>2. Change(Queue, s, Queue', u, F)
    BY <1>2 DEF Evolves
  <2>3. ASSUME running # NULL PROVE kind'[running] = kind[running]
    <3>1. running \in Nodes
      BY <2>3 DEF TypeOK, Pointers
    <3>2. running \notin F
      BY <2>3, PriorityFacts DEF InvAt, Held, Evolves, Outside
    <3>3. Queue'.kind[running] = Queue.kind[running]
      BY <1>2, <3>1, <3>2 DEF Evolves, Same
    <3> QED
      BY <3>3 DEF Queue
  <2>4. \A p \in Priorities : RunningFrom(p)' = RunningFrom(p)
    BY <2>3 DEF RunningFrom
  <2> QED
    BY <1>3, <2>1, <2>2, <2>4 DEF Updates
-----------------------------------------------------------------------------
(* The actions.                                                             *)

\* Both lists are empty at the start.
LEMMA Initially ==
  ASSUME Init
  PROVE  TypeOK /\ InvAt([p \in Priorities |-> <<>>])
<1> DEFINE s == [p \in Priorities |-> <<>>]
<1>1. TypeOK
  BY EventListAssumption
     DEF Init, TypeOK, EventListAssumption, Pointers, Times, Kinds
<1>2. Queue \in QueueType
  BY <1>1, TypeFacts
<1>3. /\ s \in [Priorities -> Chains]
      /\ \A p \in Priorities : s[p] = <<>> /\ Len(s[p]) = 0 /\ Rng(s[p]) = {}
  BY EmptyChain
<1> HIDE DEF s
<1>4. \A p \in Priorities : LinkedAs(Queue, p, s[p])
  <2>1. \A p \in Priorities : Queue.list[p].head = NULL
    BY DEF Init, Queue
  <2> QED
    BY <1>3, <2>1 DEF LinkedAs, Linked
<1>5. Owned(Queue, Rng(s["low"])) /\ IndexOK(Queue.index, Queue, Rng(s["low"]))
  <2>1. \A k \in Indexed, o \in Objects : Queue.index[k][o] = NULL
    BY DEF Init, Queue
  <2> QED
    BY <1>3, <2>1, PriorityFacts DEF Owned, IndexOK
<1>6. QueueOK(Queue, s) /\ InOrder(Queue, s)
  BY <1>2, <1>3, <1>4, <1>5 DEF QueueOK, InOrder, Sorted
<1>7. Held(Queue, s, running) /\ NoneGone(Queue, s, state)
  BY <1>3, PriorityFacts DEF Init, Held, NoneGone
<1> QED
  BY <1>1, <1>6, <1>7 DEF InvAt, s

\* schedule_service_check: the old check goes, the new one comes
LEMMA ScheduleCheckStep ==
  ASSUME TypeOK, NEW s, InvAt(s), NEW o \in Objects, NEW t \in Times, NEW f \in BOOLEAN,
         ScheduleCheck(o, t, f)
  PROVE  Updates(s)
<1> DEFINE Q == IF index["check"][o] = NULL THEN Queue ELSE Drop(Queue, index["check"][o])
<1>1. PICK n \in Q.freed : Becomes(Schedule(Q, n, "check", o, t, f))
  BY DEF ScheduleCheck
<1> DEFINE R == Schedule(Q, n, "check", o, t, f)
<1>2. QueueOK(Queue, s) /\ InOrder(Queue, s) /\ "check" \in Indexed
  BY DEF InvAt, Indexed
<1>3. Q = IF Queue.index["check"][o] = NULL THEN Queue
          ELSE Drop(Queue, Queue.index["check"][o])
  BY DEF Queue
<1> HIDE DEF Q
<1>4. /\ \E u : Evolves(Queue, s, Q, u, {}, o)
      /\ Q.index["check"][o] = NULL
  BY <1>2, <1>3, DropEntry
<1>5. PICK u : Evolves(Queue, s, Q, u, {}, o)
  BY <1>4
<1>6. PICK v : Evolves(Q, u, R, v, {n}, o)
  <2>1. QueueOK(Q, u) /\ InOrder(Q, u)
    BY <1>5 DEF Evolves, Change
  <2>2. Schedulable(Q, n, "check", o, t, f)
    BY <1>2, <1>4 DEF Schedulable, Kinds
  <2> QED
    BY <2>1, <2>2, ScheduleEvolves
<1> HIDE DEF R
<1>7. Evolves(Queue, s, R, v, {} \cup {n}, o)
  BY <1>5, <1>6, EvolvesChain
<1>8. Becomes(R)
  BY <1>1 DEF R
<1>9. /\ running' = running /\ now' = now /\ lastTime' = lastTime /\ state' = state
      /\ state[o] # "gone" /\ state \in [Objects -> {"new", "live", "gone"}]
  BY DEF ScheduleCheck, clocks, TypeOK
<1> QED
  BY <1>7, <1>8, <1>9, EvolvedInv

\* schedule_acknowledgement_expiration
LEMMA ScheduleAckStep ==
  ASSUME TypeOK, NEW s, InvAt(s), NEW o \in Objects, NEW t \in Times,
         ScheduleAckExpiration(o, t)
  PROVE  Updates(s)
<1>1. PICK n \in freed : Becomes(Schedule(Queue, n, "ack", o, t, FALSE))
  BY DEF ScheduleAckExpiration
<1> DEFINE R == Schedule(Queue, n, "ack", o, t, FALSE)
<1>2. QueueOK(Queue, s) /\ InOrder(Queue, s)
  BY DEF InvAt
<1>3. Schedulable(Queue, n, "ack", o, t, FALSE)
  BY DEF Schedulable, Kinds, Indexed, Sole, ScheduleAckExpiration, Queue
<1>4. PICK v : Evolves(Queue, s, R, v, {n}, o)
  BY <1>2, <1>3, ScheduleEvolves
<1> HIDE DEF R
<1>5. Becomes(R)
  BY <1>1 DEF R
<1>6. /\ running' = running /\ now' = now /\ lastTime' = lastTime /\ state' = state
      /\ state[o] # "gone" /\ state \in [Objects -> {"new", "live", "gone"}]
  BY DEF ScheduleAckExpiration, clocks, TypeOK
<1> QED
  BY <1>4, <1>5, <1>6, EvolvedInv

\* schedule_new_event
LEMMA ScheduleOtherStep ==
  ASSUME TypeOK, NEW s, InvAt(s), NEW k \in {"misc", "once"}, NEW t \in Times,
         ScheduleOther(k, t)
  PROVE  Updates(s)
<1>1. PICK n \in freed : Becomes(Schedule(Queue, n, k, NULL, t, FALSE))
  BY DEF ScheduleOther
<1> DEFINE R == Schedule(Queue, n, k, NULL, t, FALSE)
<1>2. QueueOK(Queue, s) /\ InOrder(Queue, s) /\ k \notin Indexed
  BY DEF InvAt, Indexed
<1>3. Schedulable(Queue, n, k, NULL, t, FALSE)
  BY <1>2 DEF Schedulable, Kinds, Queue
<1>4. PICK v : Evolves(Queue, s, R, v, {n}, NULL)
  BY <1>2, <1>3, ScheduleEvolves
<1>5. R.kind[n] = k
  <2>1. LET V == Schedule(Queue, n, k, NULL, t, FALSE) IN
        /\ n \in Nodes /\ V.freed = Queue.freed \ {n}
        /\ Same(Queue, V, {n}) /\ V.kind[n] = k /\ V.data[n] = NULL
        /\ V.index = Noted(Queue.index, V, n, n)
        /\ \E u : Change(Queue, s, V, u, {n})
    BY <1>2, <1>3, ScheduleOK
  <2> QED
    BY <2>1
<1> HIDE DEF R
<1>6. Becomes(R)
  BY <1>1 DEF R
<1>7. /\ running' = running /\ now' = now /\ lastTime' = lastTime /\ state' = state
      /\ state \in [Objects -> {"new", "live", "gone"}]
  BY DEF ScheduleOther, clocks, TypeOK
<1> QED
  BY <1>2, <1>4, <1>5, <1>6, <1>7, EvolvedInv

\* _unschedule_service_events leaves no entry
LEMMA UnscheduledFacts ==
  ASSUME NEW s, QueueOK(Queue, s), InOrder(Queue, s), NEW o \in Objects
  PROVE  /\ \E u : Evolves(Queue, s, Unscheduled(o), u, {}, o)
         /\ \A k \in Indexed : Unscheduled(o).index[k][o] = NULL
<1> DEFINE P == IF Queue.index["check"][o] = NULL THEN Queue
                ELSE Drop(Queue, Queue.index["check"][o])
           R == IF P.index["ack"][o] = NULL THEN P ELSE Drop(P, P.index["ack"][o])
<1>1. Unscheduled(o) = R
  BY DEF Unscheduled
<1>2. Indexed = {"check", "ack"}
  BY DEF Indexed
<1>3. /\ \E u : Evolves(Queue, s, P, u, {}, o)
      /\ P.index["check"][o] = NULL
  BY <1>2, DropEntry
<1> HIDE DEF P
<1>4. PICK u : Evolves(Queue, s, P, u, {}, o)
  BY <1>3
<1>5. /\ \E v : Evolves(P, u, R, v, {}, o)
      /\ R.index["ack"][o] = NULL
      /\ R.index["check"][o] = P.index["check"][o]
  <2>1. QueueOK(P, u) /\ InOrder(P, u)
    BY <1>4 DEF Evolves, Change
  <2> HIDE DEF R
  <2>2. R = IF P.index["ack"][o] = NULL THEN P ELSE Drop(P, P.index["ack"][o])
    BY DEF R
  <2> QED
    BY <1>2, <2>1, <2>2, DropEntry
<1> HIDE DEF R
<1>6. PICK v : Evolves(P, u, R, v, {}, o)
  BY <1>5
<1>7. Evolves(Queue, s, R, v, {} \cup {}, o)
  BY <1>4, <1>6, EvolvesChain
<1>8. Evolves(Queue, s, R, v, {}, o)
  <2>1. {} \cup {} = {}
    OBVIOUS
  <2> QED
    BY <1>7, <2>1, Zenon
<1> QED
  BY <1>1, <1>2, <1>3, <1>5, <1>8

\* a service leaves: with no entry left it has no event left either
LEMMA ReloadDeletedStep ==
  ASSUME TypeOK, NEW s, InvAt(s), NEW o \in Objects, ReloadDeleted(o)
  PROVE  Updates(s)
<1> DEFINE R == Unscheduled(o)
<1>1. QueueOK(Queue, s) /\ InOrder(Queue, s)
  BY DEF InvAt
<1>2. /\ \E u : Evolves(Queue, s, R, u, {}, o)
      /\ \A k \in Indexed : R.index[k][o] = NULL
  BY <1>1, UnscheduledFacts
<1> HIDE DEF R
<1>3. PICK u : Evolves(Queue, s, R, u, {}, o)
  BY <1>2
<1>4. ASSUME ~Reack, NEW n \in Rng(u["low"]), R.data[n] = o PROVE FALSE
  <2>1. QueueOK(R, u) /\ u["low"] \in Chains
    BY <1>3, PriorityFacts DEF Evolves, Change, QueueOK
  <2>2. R.kind[n] \in Indexed /\ R.index[R.kind[n]][R.data[n]] = n
    BY <1>4, <2>1 DEF QueueOK, Owned, IndexOK, Sole
  <2>3. n # NULL
    BY <2>1, ChainFacts, EventListAssumption DEF EventListAssumption
  <2> QED
    BY <1>2, <1>4, <2>2, <2>3
<1>5. /\ Becomes(R) /\ running' = running /\ now' = now /\ lastTime' = lastTime
      /\ state' = [state EXCEPT ![o] = "gone"]
      /\ state \in [Objects -> {"new", "live", "gone"}]
  BY DEF ReloadDeleted, clocks, TypeOK, R
<1>6. state' \in [Objects -> {"new", "live", "gone"}]
  BY <1>5
<1>7. \A x \in Objects : state'[x] = "gone" /\ ~Reack =>
         state[x] = "gone" \/ \A n \in Rng(u["low"]) : R.data[n] # x
  BY <1>4, <1>5
<1> QED
  BY <1>3, <1>5, <1>6, <1>7, EvolvedInv
\* A service is unscheduled and scheduled again, its expiration too.
LEMMA ReloadScheduledStep ==
  ASSUME TypeOK, NEW s, InvAt(s), NEW o \in Objects, NEW t \in Times,
         NEW acked \in BOOLEAN, ReloadScheduled(o, t, acked)
  PROVE  Updates(s)
<1> DEFINE Q == IF index["check"][o] # NULL THEN Unscheduled(o) ELSE Queue
<1>1. PICK n \in Q.freed :
        LET R == Schedule(Q, n, "check", o, t, FALSE)
        IN  IF acked
            THEN \E m \in R.freed : Becomes(Schedule(R, m, "ack", o, t, FALSE))
            ELSE Becomes(R)
  BY DEF ReloadScheduled
<1>2. acked => Reack \/ Q.index["ack"][o] = NULL
  BY DEF ReloadScheduled
<1>3. QueueOK(Queue, s) /\ InOrder(Queue, s) /\ "check" \in Indexed /\ "ack" \in Indexed
  BY DEF InvAt, Indexed
<1>4. /\ \E u : Evolves(Queue, s, Q, u, {}, o)
      /\ Q.index["check"][o] = NULL
  <2>1. CASE index["check"][o] # NULL
    BY <1>3, <2>1, UnscheduledFacts
  <2>2. CASE index["check"][o] = NULL
    BY <1>3, <2>2, EvolvesNot DEF Queue
  <2> QED
    BY <2>1, <2>2
<1> HIDE DEF Q
<1>5. PICK u : Evolves(Queue, s, Q, u, {}, o)
  BY <1>4
<1> DEFINE R == Schedule(Q, n, "check", o, t, FALSE)
<1>6. QueueOK(Q, u) /\ InOrder(Q, u)
  BY <1>5 DEF Evolves, Change
<1>7. Schedulable(Q, n, "check", o, t, FALSE)
  BY <1>3, <1>4 DEF Schedulable, Kinds
<1>8. PICK v : Evolves(Q, u, R, v, {n}, o)
  BY <1>6, <1>7, ScheduleEvolves
<1>9. R.index["ack"][o] = Q.index["ack"][o]
  <2>1. LET V == Schedule(Q, n, "check", o, t, FALSE) IN
        /\ n \in Nodes /\ V.freed = Q.freed \ {n}
        /\ Same(Q, V, {n}) /\ V.kind[n] = "check" /\ V.data[n] = o
        /\ V.index = Noted(Q.index, V, n, n)
        /\ \E w : Change(Q, u, V, w, {n})
    BY <1>6, <1>7, ScheduleOK
  <2>2. R.index = [Q.index EXCEPT !["check"][o] = n]
    <3> HIDE DEF R
    <3>1. R.kind[n] = "check" /\ R.data[n] = o /\ R.index = Noted(Q.index, R, n, n)
      BY <2>1 DEF R
    <3> QED
      BY <1>3, <3>1 DEF Noted
  <2>3. Q.index \in [Indexed -> [Objects -> Pointers]]
    BY <1>6 DEF QueueOK, QueueType
  <2> HIDE DEF R
  <2> QED
    BY <1>3, <2>2, <2>3
<1> HIDE DEF R
<1>10. Evolves(Queue, s, R, v, {} \cup {n}, o)
  BY <1>5, <1>8, EvolvesChain
<1>11. /\ running' = running /\ now' = now /\ lastTime' = lastTime
       /\ state' = [state EXCEPT ![o] = "live"]
       /\ state \in [Objects -> {"new", "live", "gone"}]
  BY DEF ReloadScheduled, clocks, TypeOK
<1>12. /\ state' \in [Objects -> {"new", "live", "gone"}] /\ state'[o] # "gone"
       /\ \A x \in Objects : state'[x] = "gone" => state[x] = "gone"
  BY <1>11
<1>13. CASE ~acked
  <2>1. Becomes(R)
    BY <1>1, <1>13 DEF R
  <2> QED
    BY <1>10, <1>11, <1>12, <2>1, EvolvedInv
<1>14. CASE acked
  <2>1. PICK m \in R.freed : Becomes(Schedule(R, m, "ack", o, t, FALSE))
    BY <1>1, <1>14 DEF R
  <2>2. QueueOK(R, v) /\ InOrder(R, v)
    BY <1>8 DEF Evolves, Change
  <2>3. Schedulable(R, m, "ack", o, t, FALSE)
    BY <1>2, <1>3, <1>9, <1>14 DEF Schedulable, Kinds, Sole
  <2> DEFINE S == Schedule(R, m, "ack", o, t, FALSE)
  <2>4. PICK w : Evolves(R, v, S, w, {m}, o)
    BY <2>2, <2>3, ScheduleEvolves
  <2> HIDE DEF S
  <2>5. Evolves(Queue, s, S, w, ({} \cup {n}) \cup {m}, o)
    BY <1>10, <2>4, EvolvesChain
  <2>6. Becomes(S)
    BY <2>1 DEF S
  <2> QED
    BY <1>11, <1>12, <2>5, <2>6, EvolvedInv
<1> QED
  BY <1>13, <1>14

\* a check that may not run now is put back behind those due before it
LEMMA NudgeStep ==
  ASSUME TypeOK, NEW s, InvAt(s), NEW d \in 1 .. 2, Nudge(d)
  PROVE  Updates(s)
<1> DEFINE n == list["low"].head
           P == RemoveEvent(Queue, "low", n)
           Q == [P EXCEPT !.when[n] = Cap(@ + d)]
           R == AddEvent(Q, "low", n)
<1>0. QueueOK(Queue, s) /\ InOrder(Queue, s)
      /\ list["low"].head # NULL /\ kind[n] = "check" /\ Becomes(R)
      /\ running' = running /\ now' = now /\ lastTime' = lastTime /\ state' = state
      /\ state \in [Objects -> {"new", "live", "gone"}]
      /\ "low" \in Priorities /\ "check" \in Indexed
  BY PriorityFacts DEF InvAt, Nudge, Due, clocks, TypeOK, Indexed
<1>1. n \in Rng(s["low"]) /\ n \in Nodes
  <2>1. LinkedAs(Queue, "low", s["low"]) /\ s["low"] \in Chains
    BY <1>0 DEF QueueOK
  <2>2. n = IF Len(s["low"]) = 0 THEN NULL ELSE s["low"][1]
    BY <2>1 DEF LinkedAs, Linked, Queue
  <2>3. 1 \in 1 .. Len(s["low"]) /\ n = s["low"][1]
    BY <1>0, <2>1, <2>2, ChainFacts
  <2> QED
    BY <2>1, <2>3, ChainFacts
<1>2. /\ Attributes(P) = Attributes(Queue) /\ P.index = Noted(Queue.index, Queue, n, NULL)
      /\ \E u : Change(Queue, s, P, u, {}) /\ Outside(u, n)
  <2> HIDE DEF n
  <2> QED
    BY <1>0, <1>1, RemoveOK
<1> HIDE DEF n, P, R
<1>3. PICK u : Change(Queue, s, P, u, {}) /\ Outside(u, n)
  BY <1>2
<1>4. QueueOK(P, u) /\ InOrder(P, u) /\ P \in QueueType
  BY <1>3 DEF Change, QueueOK
<1>5. /\ Q \in QueueType /\ Q.list = P.list /\ Q.next = P.next /\ Q.prev = P.prev
      /\ Q.index = P.index /\ Q.kind = P.kind /\ Q.data = P.data /\ Q.freed = P.freed
      /\ \A m \in Nodes : m # n => Q.when[m] = P.when[m]
  <2> DEFINE w == [P.when EXCEPT ![n] = Cap(@ + d)]
  <2>1. Q = [P EXCEPT !.when = w]
    OBVIOUS
  <2>2. w \in [Nodes -> Times] /\ \A m \in Nodes : m # n => w[m] = P.when[m]
    <3>1. P.when \in [Nodes -> Times]
      BY <1>4 DEF QueueType
    <3>2. Cap(P.when[n] + d) \in Times
      BY <1>1, <3>1, EventListAssumption DEF Cap, Times, EventListAssumption
    <3> QED
      BY <3>1, <3>2
  <2> HIDE DEF w, Q
  <2> QED
    BY <1>4, <2>1, <2>2 DEF QueueType
<1> HIDE DEF Q
<1>6. QueueOK(Q, u) /\ InOrder(Q, u) /\ Keeps(P, u, Q, u, {})
  BY <1>1, <1>3, <1>4, <1>5, SetOutside
<1>7. P.kind = Queue.kind /\ P.data = Queue.data /\ P.freed = Queue.freed
  BY <1>2 DEF Attributes
<1>8. Q.kind[n] = "check" /\ PriorityOf(Q.kind[n]) = "low"
  BY <1>0, <1>5, <1>7, PriorityFacts DEF Queue, n
<1>9. Addable(Q, u, n)
  <2>1. n \notin Q.freed /\ Queue.data[n] \in Objects
    BY <1>0, <1>1, <1>5, <1>7 DEF QueueOK, Owned
  <2>2. Q.index["check"][Q.data[n]] = NULL
    <3>1. Queue.kind[n] = "check"
      BY <1>5, <1>7, <1>8
    <3>2. Q.index = [Queue.index EXCEPT !["check"][Queue.data[n]] = NULL]
      BY <1>0, <1>2, <1>5, <3>1 DEF Noted
    <3>3. Queue.index \in [Indexed -> [Objects -> Pointers]]
      BY <1>0 DEF QueueOK, QueueType
    <3> QED
      BY <1>0, <1>5, <1>7, <2>1, <3>2, <3>3
  <2> QED
    BY <1>1, <1>3, <1>5, <1>7, <1>8, <2>1, <2>2 DEF Addable
<1>10. /\ Attributes(R) = Attributes(Q) /\ \E v : Change(Q, u, R, v, {n})
  BY <1>6, <1>8, <1>9, AddOK DEF R
<1>11. PICK v : Change(Q, u, R, v, {n})
  BY <1>10
<1>12. Keeps(Queue, s, R, v, ({} \cup {}) \cup {n})
  <2>1. Keeps(Queue, s, P, u, {}) /\ Keeps(Q, u, R, v, {n})
    BY <1>3, <1>11 DEF Change
  <2>2. Keeps(Queue, s, Q, u, {} \cup {})
    BY <1>6, <2>1, KeepsChain
  <2> QED
    BY <2>1, <2>2, KeepsChain
<1>13. Evolves(Queue, s, R, v, {n}, Queue.data[n])
  <2>1. ({} \cup {}) \cup {n} = {n}
    OBVIOUS
  <2>2. Change(Queue, s, R, v, {n})
    BY <1>11, <1>12, <2>1 DEF Change
  <2>3. R.kind = Queue.kind /\ R.data = Queue.data /\ R.freed = Queue.freed
    BY <1>5, <1>7, <1>10 DEF Attributes
  <2> QED
    BY <1>1, <2>2, <2>3 DEF Evolves, Same
<1>14. ~Reack => state'[Queue.data[n]] # "gone"
  BY <1>0, <1>1 DEF InvAt, NoneGone
<1> QED
  BY <1>0, <1>13, <1>14, EvolvedInv
\* A step after which the queue is R, with the chains u, keeps the invariant.
LEMMA Closing ==
  ASSUME NEW R, NEW u, QueueOK(R, u), InOrder(R, u), Becomes(R),
         running' \in Pointers, now' \in Times, lastTime' \in Times,
         state' \in [Objects -> {"new", "live", "gone"}],
         Held(R, u, running'), NoneGone(R, u, state')
  PROVE  TypeOK' /\ InvAt(u)' /\ Queue' = R
<1>1. R \in QueueType
  BY DEF QueueOK
<1>2. Queue' = R
  BY <1>1, BecomesQueue
<1>3. TypeOK'
  <2>1. Queue' \in QueueType
    BY <1>1, <1>2
  <2> QED
    BY <2>1 DEF TypeOK, Queue, QueueType
<1> QED
  BY <1>2, <1>3 DEF InvAt

\* an event recurs, or is freed
LEMMA FinishEventStep ==
  ASSUME TypeOK, NEW s, InvAt(s), FinishEvent
  PROVE  Updates(s)
<1> DEFINE n == running
           t == Cap(when[n] + Interval)
           w == IF t < now THEN now ELSE t
<1>0. /\ QueueOK(Queue, s) /\ InOrder(Queue, s) /\ Queue \in QueueType
      /\ n \in Nodes /\ n \notin Queue.freed /\ Outside(s, n)
      /\ n \in Pointers /\ now \in Times /\ lastTime \in Times
      /\ state \in [Objects -> {"new", "live", "gone"}] /\ NoneGone(Queue, s, state)
  BY DEF FinishEvent, InvAt, QueueOK, TypeOK, Pointers, Held
<1>1. running' = NULL /\ now' = now /\ lastTime' = lastTime /\ state' = state
  BY DEF FinishEvent, clocks
<1>2. \A R, u : Held(R, u, running') /\ running' \in Pointers
  BY <1>1 DEF Held, Pointers
<1>3. \A p \in Priorities : RunningFrom(p)' = NULL
  BY <1>1 DEF RunningFrom
<1>4. CASE Recurring(n)
  <2> DEFINE Q == [Queue EXCEPT !.when[n] = w]
             R == AddEvent(Q, "high", n)
  <2>1. kind[n] = "misc" /\ Becomes(R)
    BY <1>4 DEF Recurring, FinishEvent
  <2>2. /\ Q \in QueueType /\ Q.list = Queue.list /\ Q.next = Queue.next
        /\ Q.prev = Queue.prev /\ Q.index = Queue.index /\ Q.kind = Queue.kind
        /\ Q.data = Queue.data /\ Q.freed = Queue.freed
        /\ \A m \in Nodes : m # n => Q.when[m] = Queue.when[m]
    <3> DEFINE v == [Queue.when EXCEPT ![n] = w]
    <3>1. Q = [Queue EXCEPT !.when = v]
      OBVIOUS
    <3>2. v \in [Nodes -> Times] /\ \A m \in Nodes : m # n => v[m] = Queue.when[m]
      <4>1. Queue.when \in [Nodes -> Times] /\ Queue.when = when
        BY <1>0 DEF QueueType, Queue
      <4>2. t \in Times
        BY <1>0, <4>1, EventListAssumption DEF Cap, Times, EventListAssumption
      <4>3. w \in Times
        BY <1>0, <4>2
      <4> QED
        BY <4>1, <4>3
    <3> HIDE DEF v, Q
    <3> QED
      BY <1>0, <3>1, <3>2 DEF QueueType
  <2> HIDE DEF Q, n
  <2>3. QueueOK(Q, s) /\ InOrder(Q, s) /\ Keeps(Queue, s, Q, s, {})
    BY <1>0, <2>2, SetOutside
  <2>4. Q.kind[n] = "misc" /\ Q.kind[n] \notin Indexed /\ PriorityOf(Q.kind[n]) = "high"
    BY <2>1, <2>2 DEF Queue, PriorityOf, Indexed
  <2>5. Addable(Q, s, n)
    BY <1>0, <2>2, <2>4 DEF Addable
  <2>6. /\ Attributes(R) = Attributes(Q) /\ \E v : Change(Q, s, R, v, {n})
    BY <2>3, <2>4, <2>5, AddOK
  <2> HIDE DEF R
  <2>7. PICK v : Change(Q, s, R, v, {n})
    BY <2>6
  <2>8. Keeps(Queue, s, R, v, {n})
    <3>1. Keeps(Q, s, R, v, {n})
      BY <2>7 DEF Change
    <3>2. Keeps(Queue, s, R, v, {} \cup {n})
      BY <2>3, <3>1, KeepsChain
    <3>3. {} \cup {n} = {n}
      OBVIOUS
    <3> QED
      BY <3>2, <3>3
  <2>9. QueueOK(R, v) /\ InOrder(R, v)
    BY <2>7 DEF Change
  <2>10. NoneGone(R, v, state')
    <3>1. R.data = Queue.data /\ R.kind[n] \notin Indexed
      BY <2>2, <2>4, <2>6 DEF Attributes
    <3>2. n \notin Rng(v["low"])
      BY <2>9, <3>1 DEF QueueOK, Owned
    <3>3. Rng(v["low"]) \subseteq Rng(s["low"])
      BY <2>8, <3>2, PriorityFacts DEF Keeps, KeepsList
    <3> QED
      BY <1>0, <1>1, <3>1, <3>3 DEF NoneGone
  <2>11. TypeOK' /\ InvAt(v)' /\ Queue' = R
    BY <1>0, <1>1, <1>2, <2>1, <2>9, <2>10, Closing
  <2>12. Change(Queue, s, Queue', v, {n})
    BY <2>8, <2>9, <2>11 DEF Change
  <2> QED
    BY <1>3, <2>11, <2>12 DEF Updates
<1>5. CASE ~Recurring(n)
  <2> DEFINE R == [Queue EXCEPT !.freed = Queue.freed \cup {n}]
  <2>1. Becomes(R)
    BY <1>5 DEF FinishEvent, Becomes, Queue
  <2>2. /\ R \in QueueType /\ R.list = Queue.list /\ R.next = Queue.next
        /\ R.prev = Queue.prev /\ R.index = Queue.index /\ R.kind = Queue.kind
        /\ R.data = Queue.data /\ R.freed = Queue.freed \cup {n} /\ R.when = Queue.when
    BY <1>0 DEF QueueType
  <2> HIDE DEF R, n
  <2>3. QueueOK(R, s) /\ InOrder(R, s) /\ Keeps(Queue, s, R, s, {})
    BY <1>0, <2>2, SetOutside
  <2>4. NoneGone(R, s, state')
    BY <1>0, <1>1, <2>2 DEF NoneGone
  <2>5. TypeOK' /\ InvAt(s)' /\ Queue' = R
    BY <1>0, <1>1, <1>2, <2>1, <2>3, <2>4, Closing
  <2>6. Change(Queue, s, Queue', s, {})
    BY <2>3, <2>5 DEF Change
  <2> QED
    BY <1>3, <2>5, <2>6 DEF Updates
<1> QED
  BY <1>4, <1>5

\* The loop runs the first event of the list p.
Runs(s, p) ==
  /\ TypeOK' /\ running = NULL /\ Len(s[p]) > 0
  /\ InvAt([s EXCEPT ![p] = Without(s[p], 1)])'
  /\ running' = s[p][1] /\ when' = when
  /\ \A q \in Priorities : RunningFrom(q)' = IF q = p THEN running' ELSE NULL

LEMMA DispatchStep ==
  ASSUME TypeOK, NEW s, InvAt(s), NEW p \in Priorities, Dispatch(p)
  PROVE  Runs(s, p)
<1> DEFINE R == PopHead(Queue, p)
           u == [s EXCEPT ![p] = Without(s[p], 1)]
           n == s[p][1]
<1>0. /\ QueueOK(Queue, s) /\ InOrder(Queue, s) /\ NoneGone(Queue, s, state)
      /\ running = NULL /\ list[p].head # NULL /\ running' = list[p].head /\ Becomes(R)
      /\ now' \in Times /\ lastTime' \in Times
      /\ state' = state /\ state \in [Objects -> {"new", "live", "gone"}]
  BY DEF InvAt, Dispatch, Due, clocks, TypeOK
<1>1. Len(s[p]) > 0 /\ s[p] \in Chains /\ 1 \in 1 .. Len(s[p])
  <2>1. LinkedAs(Queue, p, s[p]) /\ s[p] \in Chains
    BY <1>0 DEF QueueOK
  <2>2. list[p].head = IF Len(s[p]) = 0 THEN NULL ELSE s[p][1]
    BY <2>1 DEF LinkedAs, Linked, Queue
  <2> QED
    BY <1>0, <2>1, <2>2, ChainFacts
<1>2. /\ Queue.list[p].head = n
      /\ Change(Queue, s, R, u, {}) /\ Attributes(R) = Attributes(Queue)
      /\ R.index = Noted(Queue.index, Queue, n, NULL)
      /\ Outside(u, n)
  BY <1>0, <1>1, PopOK
<1> HIDE DEF R, u
<1>3. n \in Rng(s[p]) /\ n \in Nodes /\ n # NULL /\ n \in Pointers
  BY <1>1, ChainFacts, EventListAssumption DEF EventListAssumption, Pointers
<1>4. running' = n
  BY <1>0, <1>2 DEF Queue
<1>5. R.when = Queue.when /\ R.freed = Queue.freed /\ R.kind = Queue.kind /\ R.data = Queue.data
  BY <1>2 DEF Attributes
<1>6. n \notin Queue.freed /\ PriorityOf(Queue.kind[n]) = p
  BY <1>0, <1>3 DEF QueueOK
<1>7. Held(R, u, running')
  BY <1>2, <1>4, <1>5, <1>6 DEF Held
<1>8. NoneGone(R, u, state')
  <2>1. Rng(u["low"]) \subseteq Rng(s["low"])
    BY <1>2, PriorityFacts DEF Change, Keeps, KeepsList
  <2> QED
    BY <1>0, <1>5, <2>1 DEF NoneGone
<1>9. QueueOK(R, u) /\ InOrder(R, u)
  BY <1>2 DEF Change
<1>10. TypeOK' /\ InvAt(u)' /\ Queue' = R
  BY <1>0, <1>3, <1>4, <1>7, <1>8, <1>9, Closing
<1>11. when' = when /\ kind' = kind
  BY <1>5, <1>10 DEF Queue
<1>12. \A q \in Priorities : RunningFrom(q)' = IF q = p THEN running' ELSE NULL
  <2>1. PriorityOf(kind[n]) = p
    BY <1>6 DEF Queue
  <2> QED
    BY <1>3, <1>4, <1>11, <2>1 DEF RunningFrom, PriorityOf
<1> QED
  BY <1>0, <1>1, <1>4, <1>10, <1>11, <1>12 DEF Runs, u
\* Only the order of a list depends on run times.
LEMMA Moved ==
  ASSUME NEW Q, NEW s, QueueOK(Q, s), NEW w \in [Nodes -> Times]
  PROVE  LET R == [Q EXCEPT !.when = w] IN
         /\ QueueOK(R, s) /\ R.when = w /\ R.kind = Q.kind /\ R.data = Q.data
         /\ R.freed = Q.freed
<1> DEFINE R == [Q EXCEPT !.when = w]
<1>1. /\ R \in QueueType /\ R.list = Q.list /\ R.next = Q.next
      /\ R.prev = Q.prev /\ R.index = Q.index /\ R.kind = Q.kind
      /\ R.data = Q.data /\ R.freed = Q.freed /\ R.when = w
  BY DEF QueueOK, QueueType
<1> HIDE DEF R
<1>2. QueueOK(R, s)
  BY <1>1 DEF QueueOK, LinkedAs, Owned, IndexOK
<1> QED
  BY <1>1, <1>2 DEF R

\* The loop sorts the lists again for other run times.
Retimes(s) ==
  /\ TypeOK' /\ running' = running /\ kind' = kind
  /\ \E u : /\ InvAt(u)'
            /\ \A p \in Priorities : /\ Rng(u[p]) = Rng(s[p])
                                     /\ Stable(s[p], u[p], when')

\* a jump of the clock moves run times and sorts both lists again
LEMMA ReadClockStep ==
  ASSUME TypeOK, NEW s, InvAt(s), ReadClock
  PROVE  Retimes(s)
<1> DEFINE jumped == now < lastTime \/ now - lastTime >= Threshold
           queued == Members(Queue, "high") \cup Members(Queue, "low")
           w == [n \in Nodes |-> IF n \in queued /\ Compensated(n)
                                 THEN Adjusted(when[n]) ELSE when[n]]
           M == [Queue EXCEPT !.when = w]
           H == Resort(M, "high")
           R == Resort(H, "low")
<1>0. /\ QueueOK(Queue, s) /\ InOrder(Queue, s) /\ NoneGone(Queue, s, state)
      /\ running' = running /\ running = NULL /\ running' \in Pointers
      /\ now' \in Times /\ lastTime' \in Times
      /\ state' = state /\ state' \in [Objects -> {"new", "live", "gone"}]
      /\ Queue \in QueueType /\ "low" \in Priorities /\ "high" \in Priorities
  BY PriorityFacts DEF InvAt, ReadClock, TypeOK, QueueOK
<1>1. \A V, u : Held(V, u, running')
  BY <1>0 DEF Held
<1>2. CASE ~jumped
  <2>1. Becomes(Queue)
    BY <1>2 DEF ReadClock
  <2>2. TypeOK' /\ InvAt(s)' /\ Queue' = Queue
    BY <1>0, <1>1, <2>1, Closing
  <2>3. kind' = kind
    BY <2>2 DEF Queue
  <2> QED
    BY <1>0, <2>2, <2>3 DEF Retimes, Stable
<1>3. CASE jumped
  <2>1. Becomes(R)
    BY <1>3 DEF ReadClock
  <2>2. w \in [Nodes -> Times]
    <3>1. when \in [Nodes -> Times] /\ now \in Times /\ lastTime \in Times
      BY DEF TypeOK
    <3>2. \A t \in Times : Adjusted(t) \in Times
      BY <3>1, EventListAssumption DEF Adjusted, Cap, Times, EventListAssumption
    <3> HIDE DEF queued
    <3> QED
      BY <3>1, <3>2
  <2> HIDE DEF w
  <2>3. QueueOK(M, s) /\ M.when = w /\ M.kind = Queue.kind /\ M.data = Queue.data
        /\ M.freed = Queue.freed
    BY <1>0, <2>2, Moved
  <2> HIDE DEF M
  <2>4. /\ Attributes(H) = Attributes(M)
        /\ \E t \in Chains : /\ QueueOK(H, [s EXCEPT !["high"] = t]) /\ Sorted(t, M.when)
                             /\ Rng(t) = Rng(s["high"]) /\ Stable(s["high"], t, M.when)
    BY <1>0, <2>3, ResortOK
  <2> HIDE DEF H
  <2>5. PICK t \in Chains : /\ QueueOK(H, [s EXCEPT !["high"] = t]) /\ Sorted(t, M.when)
                            /\ Rng(t) = Rng(s["high"]) /\ Stable(s["high"], t, M.when)
    BY <2>4
  <2> DEFINE v == [s EXCEPT !["high"] = t]
  <2>6. QueueOK(H, v) /\ v["high"] = t /\ v["low"] = s["low"]
    BY <1>0, <2>5 DEF QueueOK
  <2> HIDE DEF v
  <2>7. /\ Attributes(R) = Attributes(H)
        /\ \E z \in Chains : /\ QueueOK(R, [v EXCEPT !["low"] = z]) /\ Sorted(z, H.when)
                             /\ Rng(z) = Rng(v["low"]) /\ Stable(v["low"], z, H.when)
    BY <1>0, <2>6, ResortOK
  <2> HIDE DEF R
  <2>8. PICK z \in Chains : /\ QueueOK(R, [v EXCEPT !["low"] = z]) /\ Sorted(z, H.when)
                            /\ Rng(z) = Rng(v["low"]) /\ Stable(v["low"], z, H.when)
    BY <2>7
  <2> DEFINE u == [v EXCEPT !["low"] = z]
  <2>9. QueueOK(R, u) /\ u["high"] = t /\ u["low"] = z
    BY <1>0, <2>6, <2>8 DEF QueueOK
  <2> HIDE DEF u
  <2>10. H.when = w /\ R.when = w /\ R.kind = Queue.kind /\ R.data = Queue.data
    BY <2>3, <2>4, <2>7 DEF Attributes
  <2>11. \A p \in Priorities : p = "high" \/ p = "low"
    BY DEF Priorities
  <2>12. InOrder(R, u)
    BY <2>3, <2>5, <2>8, <2>9, <2>10, <2>11 DEF InOrder
  <2>13. \A p \in Priorities : Rng(u[p]) = Rng(s[p]) /\ Stable(s[p], u[p], w)
    BY <2>3, <2>5, <2>6, <2>8, <2>9, <2>10, <2>11
  <2>14. NoneGone(R, u, state')
    BY <1>0, <2>10, <2>13 DEF NoneGone
  <2>15. TypeOK' /\ InvAt(u)' /\ Queue' = R
    BY <1>0, <1>1, <2>1, <2>9, <2>12, <2>14, Closing
  <2>16. when' = w /\ kind' = kind
    BY <2>10, <2>15 DEF Queue
  <2> QED
    BY <1>0, <2>13, <2>15, <2>16 DEF Retimes
<1> QED
  BY <1>2, <1>3

\* The queue stays as it is.
LEMMA IdleStep ==
  ASSUME TypeOK, NEW s, InvAt(s),
         (\E t \in Times : SetClock(t)) \/ UNCHANGED vars
  PROVE  Retimes(s) /\ UNCHANGED queue
<1>0. /\ QueueOK(Queue, s) /\ InOrder(Queue, s)
      /\ Held(Queue, s, running) /\ NoneGone(Queue, s, state)
  BY DEF InvAt
<1>1. /\ UNCHANGED queue /\ running' = running /\ running' \in Pointers
      /\ now' \in Times /\ lastTime' \in Times
      /\ state' = state /\ state' \in [Objects -> {"new", "live", "gone"}]
  BY DEF SetClock, vars, clocks, TypeOK
<1>2. Becomes(Queue)
  BY <1>1 DEF Becomes, Queue, queue
<1>3. TypeOK' /\ InvAt(s)' /\ Queue' = Queue
  BY <1>0, <1>1, <1>2, Closing
<1>4. kind' = kind
  BY <1>3 DEF Queue
<1> QED
  BY <1>1, <1>3, <1>4 DEF Retimes, Stable

\* Every step does one of four things to the lists.
LEMMA EveryStep ==
  ASSUME TypeOK, NEW s, InvAt(s), [Next]_vars
  PROVE  \/ Updates(s)
         \/ \E p \in Priorities : Runs(s, p)
         \/ Retimes(s)
<1>0. \A t \in Later : t \in Times
  BY DEF Later
<1>1. CASE \E o \in Objects, t \in Later, f \in BOOLEAN : ScheduleCheck(o, t, f)
  BY <1>0, <1>1, ScheduleCheckStep
<1>2. CASE \E o \in Objects, t \in Later : ScheduleAckExpiration(o, t)
  BY <1>0, <1>2, ScheduleAckStep
<1>3. CASE \E k \in {"misc", "once"}, t \in Later : ScheduleOther(k, t)
  BY <1>0, <1>3, ScheduleOtherStep
<1>4. CASE ReadClock
  BY <1>4, ReadClockStep
<1>5. CASE \E p \in Priorities : Dispatch(p)
  BY <1>5, DispatchStep
<1>6. CASE \E d \in 1 .. 2 : Nudge(d)
  BY <1>6, NudgeStep
<1>7. CASE FinishEvent
  BY <1>7, FinishEventStep
<1>8. CASE \E o \in Objects : ReloadDeleted(o)
  BY <1>8, ReloadDeletedStep
<1>9. CASE \E o \in Objects, t \in Later, a \in BOOLEAN : ReloadScheduled(o, t, a)
  BY <1>0, <1>9, ReloadScheduledStep
<1>10. CASE (\E t \in Times : SetClock(t)) \/ UNCHANGED vars
  BY <1>10, IdleStep
<1> QED
  BY <1>1, <1>2, <1>3, <1>4, <1>5, <1>6, <1>7, <1>8, <1>9, <1>10 DEF Next

\* IInv is inductive.
LEMMA Invariance == Spec => []IInv
<1>1. Init => IInv
  BY Initially DEF IInv
<1>2. IInv /\ [Next]_vars => IInv'
  <2> SUFFICES ASSUME IInv, [Next]_vars PROVE IInv'
    OBVIOUS
  <2>1. PICK s : TypeOK /\ InvAt(s)
    BY DEF IInv
  <2>2. TypeOK' /\ \E u : InvAt(u)'
    BY <2>1, EveryStep DEF Updates, Runs, Retimes
  <2> QED
    BY <2>2 DEF IInv
<1> QED
  BY <1>1, <1>2, PTL DEF Spec
-----------------------------------------------------------------------------
(* What the invariant says.                                                 *)

\* What the definitions of the properties read are the chains.
LEMMA ListsRead ==
  ASSUME NEW Q, NEW s, QueueOK(Q, s), NEW p \in Priorities
  PROVE  /\ s[p] \in Chains
         /\ Forward(Q, p) = s[p] /\ Members(Q, p) = Rng(s[p])
         /\ Len(s[p]) > 0 => Backward(Q, p) = Reversed(s[p])
<1>1. s[p] \in Chains /\ Linked(Q.next, Q.prev, Q.list[p], s[p])
  BY DEF QueueOK, LinkedAs
<1>2. Forward(Q, p) = s[p]
      /\ (Len(s[p]) > 0 => Backward(Q, p) = Reversed(s[p]))
  BY <1>1, LinkedWalks DEF Forward, Backward
<1>3. Members(Q, p) = Rng(s[p])
  BY <1>2 DEF Members, Rng
<1> QED
  BY <1>1, <1>2, <1>3

(* The variables keep their types: the links are addresses or NULL, the     *)
(* index has an entry or NULL for every service.                            *)
THEOREM TypeCorrect == Spec => []TypeOK
<1>1. IInv => TypeOK
  BY DEF IInv
<1> QED
  BY <1>1, Invariance, PTL

(* Whatever is added, removed, popped by hand or sorted again, both lists   *)
(* are well linked in both directions, share no event and hold none that is *)
(* freed or being run.                                                      *)
THEOREM ListsWellLinked == Spec => []WellLinked
<1>1. ASSUME IInv PROVE WellLinked
  <2>1. PICK s : InvAt(s)
    BY <1>1 DEF IInv
  <2>2. QueueOK(Queue, s) /\ Held(Queue, s, running)
    BY <2>1 DEF InvAt
  <2>3. ASSUME NEW p \in Priorities, Forward(Queue, p) # <<>>
        PROVE  /\ Len(Backward(Queue, p)) = Len(Forward(Queue, p))
               /\ \A i \in DOMAIN Forward(Queue, p) :
                    Backward(Queue, p)[Len(Forward(Queue, p)) + 1 - i] = Forward(Queue, p)[i]
    <3>1. s[p] \in Chains /\ Forward(Queue, p) = s[p] /\ s[p] # <<>>
          /\ (Len(s[p]) > 0 => Backward(Queue, p) = Reversed(s[p]))
      BY <2>2, <2>3, ListsRead
    <3>2. Len(s[p]) \in Nat /\ DOMAIN s[p] = 1 .. Len(s[p]) /\ Len(s[p]) > 0
      BY <3>1, ChainFacts
    <3>3. LET q == Reversed(s[p]) IN
          /\ q \in Chains /\ Len(q) = Len(s[p])
          /\ \A i \in 1 .. Len(s[p]) : q[i] = s[p][Len(s[p]) + 1 - i]
      BY <3>1, ReversedFacts
    <3>4. \A i \in 1 .. Len(s[p]) : /\ Len(s[p]) + 1 - i \in 1 .. Len(s[p])
                                    /\ Len(s[p]) + 1 - (Len(s[p]) + 1 - i) = i
      BY <3>2
    <3> QED
      BY <3>1, <3>2, <3>3, <3>4
  <2>4. /\ Members(Queue, "high") = Rng(s["high"]) /\ Members(Queue, "low") = Rng(s["low"])
        /\ Rng(s["high"]) \cap Rng(s["low"]) = {}
    <3>1. "high" # "low"
      OBVIOUS
    <3> QED
      BY <2>2, <3>1, ListsRead, PriorityFacts DEF QueueOK
  <2>5. \A n \in Rng(s["high"]) \cup Rng(s["low"]) : n \notin freed /\ n # running
    <3> SUFFICES ASSUME NEW p \in Priorities, NEW n \in Rng(s[p])
                 PROVE  n \notin freed /\ n # running
      BY PriorityFacts
    <3>1. n \notin freed
      BY <2>2 DEF QueueOK, Queue
    <3>2. n # NULL
      <4>1. s[p] \in Chains
        BY <2>2 DEF QueueOK
      <4> QED
        BY <4>1, ChainFacts, EventListAssumption DEF EventListAssumption
    <3> QED
      BY <2>2, <3>1, <3>2 DEF Held, Outside
  <2> QED
    BY <2>3, <2>4, <2>5 DEF WellLinked
<1> QED
  BY <1>1, Invariance, PTL

(* quick_timed_event is exact for checks: its entry for a service is the    *)
(* one check of the service in the low list, or there is none of either.    *)
THEOREM CheckIndexAlwaysExact == Spec => []CheckIndexExact
<1>1. ASSUME IInv PROVE CheckIndexExact
  <2>1. PICK s : InvAt(s)
    BY <1>1 DEF IInv
  <2>2. QueueOK(Queue, s)
    BY <2>1 DEF InvAt
  <2> SUFFICES ASSUME NEW o \in Objects
               PROVE  {n \in Members(Queue, "low") : kind[n] = "check" /\ data[n] = o}
                        = {index["check"][o]} \ {NULL}
    BY DEF CheckIndexExact
  <2>3. Members(Queue, "low") = Rng(s["low"])
    BY <2>2, ListsRead, PriorityFacts
  <2>4. "check" \in Indexed /\ IndexOK(index, Queue, Rng(s["low"]))
        /\ Queue.kind = kind /\ Queue.data = data
    BY <2>2 DEF QueueOK, Queue, Indexed
  <2>5. index["check"][o] # NULL =>
          /\ index["check"][o] \in Rng(s["low"])
          /\ kind[index["check"][o]] = "check" /\ data[index["check"][o]] = o
    BY <2>4 DEF IndexOK
  <2>6. ASSUME NEW n \in Rng(s["low"]), kind[n] = "check", data[n] = o
        PROVE  index["check"][o] = n /\ n # NULL
    <3>1. index["check"][o] = n
      BY <2>4, <2>6 DEF IndexOK, Sole
    <3>2. s["low"] \in Chains
      BY <2>2, ListsRead, PriorityFacts
    <3> QED
      BY <3>1, <3>2, ChainFacts, EventListAssumption DEF EventListAssumption
  <2> QED
    BY <2>3, <2>5, <2>6
<1> QED
  BY <1>1, Invariance, PTL

(* A reload leaves no queued event of a service it deletes, as long as no    *)
(* service is acknowledged again while an expiration is still queued.       *)
THEOREM NoEventOfGone ==
  ASSUME Reack = FALSE
  PROVE  Spec => []NoEventOfGoneService
<1>1. ASSUME IInv PROVE NoEventOfGoneService
  <2>1. PICK s : InvAt(s)
    BY <1>1 DEF IInv
  <2>2. Members(Queue, "low") = Rng(s["low"])
    BY <2>1, ListsRead, PriorityFacts DEF InvAt
  <2> QED
    BY <2>1, <2>2 DEF InvAt, NoneGone, NoEventOfGoneService, Queue
<1> QED
  BY <1>1, Invariance, PTL

-----------------------------------------------------------------------------
(* Each list implements EventQueue.                                         *)

\* the order of EventQueue, on chains
LEMMA HighReading ==
  /\ \A s \in Chains : \A a, b : HighQueue!Precedes(s, a, b) <=> Before(s, a, b)
  /\ \A s \in Chains : \A w : HighQueue!Ordered(s, w) <=> Sorted(s, w)
  /\ \A s \in Chains : HighQueue!NoDuplicate(s)
<1>1. \A s \in Chains : DOMAIN s = 1 .. Len(s) /\ Single(s)
  BY ChainFacts
<1>2. ASSUME NEW s \in Chains, NEW a, NEW b
      PROVE  HighQueue!Precedes(s, a, b) <=> Before(s, a, b)
  BY <1>1 DEF HighQueue!Precedes, Before
<1>3. ASSUME NEW s \in Chains, NEW w
      PROVE  HighQueue!Ordered(s, w) <=> Sorted(s, w)
  BY <1>1 DEF HighQueue!Ordered, Sorted
<1>4. ASSUME NEW s \in Chains PROVE HighQueue!NoDuplicate(s)
  BY <1>1 DEF HighQueue!NoDuplicate, Single
<1> QED
  BY <1>2, <1>3, <1>4

\* Every step is one of EventQueue on the high list, or leaves it alone.
LEMMA HighStep ==
  ASSUME TypeOK, NEW s, InvAt(s), [Next]_vars
  PROVE  [HighQueue!Next]_HighQueue!qvars
<1> DEFINE p == "high"
           a == Forward(Queue, p)
           r == RunningFrom(p)
<1>0. p \in Priorities /\ TypeOK /\ InvAt(s) /\ QueueOK(Queue, s)
  BY PriorityFacts DEF InvAt
<1>1. a = s[p] /\ s[p] \in Chains
  BY <1>0, ListsRead
<1>2. ASSUME NEW u, InvAt(u)' PROVE a' = u[p] /\ u[p] \in Chains /\ Sorted(u[p], when')
  <2>1. QueueOK(Queue', u) /\ InOrder(Queue', u)
    BY <1>2 DEF InvAt
  <2>2. Queue'.when = when'
    BY DEF Queue
  <2> QED
    BY <1>0, <2>1, <2>2, ListsRead DEF InOrder
<1>3. CASE Updates(s)
  <2>1. PICK u, F : InvAt(u)' /\ Change(Queue, s, Queue', u, F)
    BY <1>3 DEF Updates
  <2>2. KeepsList(s[p], when, u[p], when', F)
    BY <1>0, <2>1 DEF Change, Keeps, Queue
  <2>3. a' = u[p] /\ u[p] \in Chains /\ Sorted(u[p], when')
    BY <1>2, <2>1
  <2>4. r' \in {r, NULL}
    BY <1>0, <1>3 DEF Updates
  <2> DEFINE fresh == F \cap Rng(u[p])
             kept == Rng(u[p]) \ fresh
  <2>5. HighQueue!Queued = Rng(s[p]) /\ HighQueue!Queued' = Rng(u[p])
    BY <1>1, <2>3 DEF HighQueue!Queued, Rng
  <2>6. kept = Rng(u[p]) \ F /\ fresh \in SUBSET Rng(u[p])
    OBVIOUS
  <2>7. /\ kept \subseteq Rng(s[p])
        /\ \A x \in kept : when'[x] = when[x]
        /\ \A x, y \in kept : HighQueue!Precedes(s[p], x, y) => HighQueue!Precedes(u[p], x, y)
        /\ \A x \in kept, y \in fresh :
             when'[x] = when'[y] => HighQueue!Precedes(u[p], x, y)
    <3>1. \A x, y : /\ HighQueue!Precedes(s[p], x, y) <=> Before(s[p], x, y)
                    /\ HighQueue!Precedes(u[p], x, y) <=> Before(u[p], x, y)
      BY <1>1, <2>3, HighReading
    <3> HIDE DEF a, r, p
    <3> QED
      BY <2>2, <2>6, <3>1 DEF KeepsList
  <2>8. HighQueue!Ordered(u[p], when') /\ HighQueue!NoDuplicate(u[p])
    BY <2>3, HighReading
  <2> HIDE DEF fresh
  <2>9. HighQueue!Update
    BY <1>1, <2>3, <2>4, <2>5, <2>6, <2>7, <2>8 DEF HighQueue!Update
  <2> QED
    BY <2>9 DEF HighQueue!Next
<1>4. CASE \E q \in Priorities : Runs(s, q)
  <2>1. PICK q \in Priorities : Runs(s, q)
    BY <1>4
  <2> DEFINE u == [s EXCEPT ![q] = Without(s[q], 1)]
  <2>2. /\ InvAt(u)' /\ running = NULL /\ when' = when /\ r = NULL
        /\ r' = (IF q = p THEN running' ELSE NULL)
        /\ running' = s[q][1] /\ Len(s[q]) > 0
    BY <1>0, <2>1 DEF Runs, RunningFrom
  <2>3. u[q] = Without(s[q], 1) /\ (q # p => u[p] = s[p])
    BY <1>0 DEF QueueOK
  <2> HIDE DEF u
  <2>4. a' = u[p]
    BY <1>2, <2>2
  <2>5. CASE q = p
    <3>1. s[p] # <<>> /\ Head(s[p]) = s[p][1] /\ Tail(s[p]) = Without(s[p], 1)
      <4>1. Len(s[p]) > 0
        BY <2>2, <2>5
      <4> HIDE DEF p
      <4>2. s[p] \in Seq(Nodes)
        BY <1>1 DEF Chains
      <4> QED
        BY <4>1, <4>2 DEF Without
    <3>2. HighQueue!Run
      BY <1>1, <2>2, <2>3, <2>4, <2>5, <3>1 DEF HighQueue!Run
    <3> QED
      BY <3>2 DEF HighQueue!Next
  <2>6. CASE q # p
    <3>1. UNCHANGED HighQueue!qvars
      BY <1>1, <2>2, <2>3, <2>4, <2>6 DEF HighQueue!qvars
    <3> QED
      BY <3>1
  <2> QED
    BY <2>5, <2>6
<1>5. CASE Retimes(s)
  <2>1. PICK u : InvAt(u)' /\ Rng(u[p]) = Rng(s[p]) /\ Stable(s[p], u[p], when')
    BY <1>0, <1>5 DEF Retimes
  <2>2. a' = u[p] /\ u[p] \in Chains /\ Sorted(u[p], when')
    BY <1>2, <2>1
  <2>3. r' = r
    BY <1>5 DEF Retimes, RunningFrom
  <2>4. HighQueue!Queued = Rng(s[p]) /\ HighQueue!Queued' = Rng(u[p])
    BY <1>1, <2>2 DEF HighQueue!Queued, Rng
  <2>5. HighQueue!Ordered(u[p], when') /\ HighQueue!NoDuplicate(u[p])
    BY <2>2, HighReading
  <2>6. \A x, y \in Rng(s[p]) :
          HighQueue!Precedes(s[p], x, y) /\ when'[x] = when'[y] =>
            HighQueue!Precedes(u[p], x, y)
    <3>1. \A x, y : /\ HighQueue!Precedes(s[p], x, y) <=> Before(s[p], x, y)
                    /\ HighQueue!Precedes(u[p], x, y) <=> Before(u[p], x, y)
      BY <1>1, <2>2, HighReading
    <3> HIDE DEF a, r, p
    <3> QED
      BY <2>1, <3>1 DEF Stable
  <2>7. HighQueue!Retime
    BY <1>1, <2>1, <2>2, <2>3, <2>4, <2>5, <2>6 DEF HighQueue!Retime
  <2> QED
    BY <2>7 DEF HighQueue!Next
<1> QED
  BY <1>3, <1>4, <1>5, EveryStep

\* the order of EventQueue, on chains
LEMMA LowReading ==
  /\ \A s \in Chains : \A a, b : LowQueue!Precedes(s, a, b) <=> Before(s, a, b)
  /\ \A s \in Chains : \A w : LowQueue!Ordered(s, w) <=> Sorted(s, w)
  /\ \A s \in Chains : LowQueue!NoDuplicate(s)
<1>1. \A s \in Chains : DOMAIN s = 1 .. Len(s) /\ Single(s)
  BY ChainFacts
<1>2. ASSUME NEW s \in Chains, NEW a, NEW b
      PROVE  LowQueue!Precedes(s, a, b) <=> Before(s, a, b)
  BY <1>1 DEF LowQueue!Precedes, Before
<1>3. ASSUME NEW s \in Chains, NEW w
      PROVE  LowQueue!Ordered(s, w) <=> Sorted(s, w)
  BY <1>1 DEF LowQueue!Ordered, Sorted
<1>4. ASSUME NEW s \in Chains PROVE LowQueue!NoDuplicate(s)
  BY <1>1 DEF LowQueue!NoDuplicate, Single
<1> QED
  BY <1>2, <1>3, <1>4

\* Every step is one of EventQueue on the low list, or leaves it alone.
LEMMA LowStep ==
  ASSUME TypeOK, NEW s, InvAt(s), [Next]_vars
  PROVE  [LowQueue!Next]_LowQueue!qvars
<1> DEFINE p == "low"
           a == Forward(Queue, p)
           r == RunningFrom(p)
<1>0. p \in Priorities /\ TypeOK /\ InvAt(s) /\ QueueOK(Queue, s)
  BY PriorityFacts DEF InvAt
<1>1. a = s[p] /\ s[p] \in Chains
  BY <1>0, ListsRead
<1>2. ASSUME NEW u, InvAt(u)' PROVE a' = u[p] /\ u[p] \in Chains /\ Sorted(u[p], when')
  <2>1. QueueOK(Queue', u) /\ InOrder(Queue', u)
    BY <1>2 DEF InvAt
  <2>2. Queue'.when = when'
    BY DEF Queue
  <2> QED
    BY <1>0, <2>1, <2>2, ListsRead DEF InOrder
<1>3. CASE Updates(s)
  <2>1. PICK u, F : InvAt(u)' /\ Change(Queue, s, Queue', u, F)
    BY <1>3 DEF Updates
  <2>2. KeepsList(s[p], when, u[p], when', F)
    BY <1>0, <2>1 DEF Change, Keeps, Queue
  <2>3. a' = u[p] /\ u[p] \in Chains /\ Sorted(u[p], when')
    BY <1>2, <2>1
  <2>4. r' \in {r, NULL}
    BY <1>0, <1>3 DEF Updates
  <2> DEFINE fresh == F \cap Rng(u[p])
             kept == Rng(u[p]) \ fresh
  <2>5. LowQueue!Queued = Rng(s[p]) /\ LowQueue!Queued' = Rng(u[p])
    BY <1>1, <2>3 DEF LowQueue!Queued, Rng
  <2>6. kept = Rng(u[p]) \ F /\ fresh \in SUBSET Rng(u[p])
    OBVIOUS
  <2>7. /\ kept \subseteq Rng(s[p])
        /\ \A x \in kept : when'[x] = when[x]
        /\ \A x, y \in kept : LowQueue!Precedes(s[p], x, y) => LowQueue!Precedes(u[p], x, y)
        /\ \A x \in kept, y \in fresh :
             when'[x] = when'[y] => LowQueue!Precedes(u[p], x, y)
    <3>1. \A x, y : /\ LowQueue!Precedes(s[p], x, y) <=> Before(s[p], x, y)
                    /\ LowQueue!Precedes(u[p], x, y) <=> Before(u[p], x, y)
      BY <1>1, <2>3, LowReading
    <3> HIDE DEF a, r, p
    <3> QED
      BY <2>2, <2>6, <3>1 DEF KeepsList
  <2>8. LowQueue!Ordered(u[p], when') /\ LowQueue!NoDuplicate(u[p])
    BY <2>3, LowReading
  <2> HIDE DEF fresh
  <2>9. LowQueue!Update
    BY <1>1, <2>3, <2>4, <2>5, <2>6, <2>7, <2>8 DEF LowQueue!Update
  <2> QED
    BY <2>9 DEF LowQueue!Next
<1>4. CASE \E q \in Priorities : Runs(s, q)
  <2>1. PICK q \in Priorities : Runs(s, q)
    BY <1>4
  <2> DEFINE u == [s EXCEPT ![q] = Without(s[q], 1)]
  <2>2. /\ InvAt(u)' /\ running = NULL /\ when' = when /\ r = NULL
        /\ r' = (IF q = p THEN running' ELSE NULL)
        /\ running' = s[q][1] /\ Len(s[q]) > 0
    BY <1>0, <2>1 DEF Runs, RunningFrom
  <2>3. u[q] = Without(s[q], 1) /\ (q # p => u[p] = s[p])
    BY <1>0 DEF QueueOK
  <2> HIDE DEF u
  <2>4. a' = u[p]
    BY <1>2, <2>2
  <2>5. CASE q = p
    <3>1. s[p] # <<>> /\ Head(s[p]) = s[p][1] /\ Tail(s[p]) = Without(s[p], 1)
      <4>1. Len(s[p]) > 0
        BY <2>2, <2>5
      <4> HIDE DEF p
      <4>2. s[p] \in Seq(Nodes)
        BY <1>1 DEF Chains
      <4> QED
        BY <4>1, <4>2 DEF Without
    <3>2. LowQueue!Run
      BY <1>1, <2>2, <2>3, <2>4, <2>5, <3>1 DEF LowQueue!Run
    <3> QED
      BY <3>2 DEF LowQueue!Next
  <2>6. CASE q # p
    <3>1. UNCHANGED LowQueue!qvars
      BY <1>1, <2>2, <2>3, <2>4, <2>6 DEF LowQueue!qvars
    <3> QED
      BY <3>1
  <2> QED
    BY <2>5, <2>6
<1>5. CASE Retimes(s)
  <2>1. PICK u : InvAt(u)' /\ Rng(u[p]) = Rng(s[p]) /\ Stable(s[p], u[p], when')
    BY <1>0, <1>5 DEF Retimes
  <2>2. a' = u[p] /\ u[p] \in Chains /\ Sorted(u[p], when')
    BY <1>2, <2>1
  <2>3. r' = r
    BY <1>5 DEF Retimes, RunningFrom
  <2>4. LowQueue!Queued = Rng(s[p]) /\ LowQueue!Queued' = Rng(u[p])
    BY <1>1, <2>2 DEF LowQueue!Queued, Rng
  <2>5. LowQueue!Ordered(u[p], when') /\ LowQueue!NoDuplicate(u[p])
    BY <2>2, LowReading
  <2>6. \A x, y \in Rng(s[p]) :
          LowQueue!Precedes(s[p], x, y) /\ when'[x] = when'[y] =>
            LowQueue!Precedes(u[p], x, y)
    <3>1. \A x, y : /\ LowQueue!Precedes(s[p], x, y) <=> Before(s[p], x, y)
                    /\ LowQueue!Precedes(u[p], x, y) <=> Before(u[p], x, y)
      BY <1>1, <2>2, LowReading
    <3> HIDE DEF a, r, p
    <3> QED
      BY <2>1, <3>1 DEF Stable
  <2>7. LowQueue!Retime
    BY <1>1, <2>1, <2>2, <2>3, <2>4, <2>5, <2>6 DEF LowQueue!Retime
  <2> QED
    BY <2>7 DEF LowQueue!Next
<1> QED
  BY <1>3, <1>4, <1>5, EveryStep

(* Both lists implement EventQueue: events are withdrawn and join, each      *)
(* behind those due no later, the first one is run, and a jump of the clock  *)
(* sorts the same events again.                                             *)
THEOREM QueuesImplemented == Spec => QueuesSpec
<1>1. Init => HighQueue!Init /\ LowQueue!Init
  <2> SUFFICES ASSUME Init PROVE HighQueue!Init /\ LowQueue!Init
    OBVIOUS
  <2> DEFINE s == [p \in Priorities |-> <<>>]
  <2>1. TypeOK /\ InvAt(s)
    BY Initially
  <2>2. s["high"] = <<>> /\ s["low"] = <<>>
    BY PriorityFacts
  <2> HIDE DEF s
  <2>3. Forward(Queue, "high") = <<>> /\ Forward(Queue, "low") = <<>>
    BY <2>1, <2>2, ListsRead, PriorityFacts DEF InvAt
  <2>4. RunningFrom("high") = NULL /\ RunningFrom("low") = NULL
    BY DEF Init, RunningFrom
  <2>5. when \in [Nodes -> Times] /\ HighQueue!Times = Times /\ LowQueue!Times = Times
    BY <2>1 DEF TypeOK, HighQueue!Times, LowQueue!Times, Times
  <2> QED
    BY <2>3, <2>4, <2>5 DEF HighQueue!Init, LowQueue!Init
<1>2. IInv /\ [Next]_vars => [HighQueue!Next]_HighQueue!qvars /\ [LowQueue!Next]_LowQueue!qvars
  BY HighStep, LowStep DEF IInv
<1> QED
  BY <1>1, <1>2, Invariance, PTL DEF Spec, QueuesSpec, HighQueue!Spec, LowQueue!Spec
=============================================================================
