-------------------------- MODULE HostChecksProofs --------------------------
(***************************************************************************)
(* Proofs about HostChecks, for all its features together: types, that no   *)
(* regular check of a host gets lost, that problems are confirmed by all    *)
(* their attempts and retried until they are.                              *)
(*                                                                         *)
(* The invariant IInv says of the stack of handlers that those under the    *)
(* innermost one wait for the check of a parent, each about a descendant of *)
(* the host the next one is about (so, there being no cycles of parents, a  *)
(* check that is made meanwhile never touches a host that waits in the      *)
(* middle of its own result), and of each host (Good) how its event, its    *)
(* checks in flight, its attempts and its results in a row belong together. *)
(* OneHost reduces a step to the one host it is about.                      *)
(***************************************************************************)
EXTENDS HostChecks, SequenceTheorems, TLAPS

-----------------------------------------------------------------------------
(* Sequences that grow and shrink at their head.                            *)

LEMMA PushProperties ==
  ASSUME NEW S, NEW s \in Seq(S), NEW x \in S
  PROVE  LET q == <<x>> \o s IN
         /\ q \in Seq(S) /\ q # <<>> /\ Len(q) = Len(s) + 1
         /\ q[1] = x /\ \A i \in 1 .. Len(s) : q[i + 1] = s[i]
         /\ Head(q) = x /\ Tail(q) = s
<1> DEFINE q == <<x>> \o s
<1>1. <<x>> \in Seq(S) /\ Len(<<x>>) = 1 /\ <<x>>[1] = x /\ Len(s) \in Nat
  BY LenProperties
<1>2. /\ q \in Seq(S) /\ Len(q) = 1 + Len(s)
      /\ \A i \in 1 .. 1 + Len(s) : q[i] = IF i <= 1 THEN <<x>>[i] ELSE s[i - 1]
  BY <1>1, ConcatProperties
<1> HIDE DEF q
<1>3. q[1] = x
  BY <1>1, <1>2
<1>4. \A i \in 1 .. Len(s) : q[i + 1] = s[i]
  BY <1>1, <1>2
<1>5. q # <<>> /\ Head(q) = x
  BY <1>1, <1>2, <1>3, HeadTailProperties, EmptySeq
<1>6. Tail(q) = s
  <2>1. /\ Tail(q) \in Seq(S) /\ Len(Tail(q)) = Len(s)
        /\ \A i \in 1 .. Len(s) : Tail(q)[i] = q[i + 1]
    BY <1>1, <1>2, <1>5, HeadTailProperties
  <2> QED
    BY <1>4, <2>1, SeqEqual
<1> QED
  BY <1>1, <1>2, <1>3, <1>4, <1>5, <1>6 DEF q

LEMMA EmptyPush ==
  ASSUME NEW S, NEW s \in Seq(S)
  PROVE  <<>> \o s = s
BY ConcatEmptySeq

LEMMA HeadPushed ==
  ASSUME NEW S, NEW s \in Seq(S), s # <<>>
  PROVE  /\ Head(s) \in S /\ Tail(s) \in Seq(S)
         /\ s = <<Head(s)>> \o Tail(s)
<1>1. /\ Head(s) \in S /\ Tail(s) \in Seq(S) /\ Head(s) = s[1]
      /\ Len(Tail(s)) = Len(s) - 1 /\ Len(s) \in Nat
      /\ \A i \in 1 .. Len(Tail(s)) : Tail(s)[i] = s[i + 1]
  BY HeadTailProperties, LenProperties
<1>2. Len(s) # 0
  BY EmptySeq
<1> DEFINE q == <<Head(s)>> \o Tail(s)
<1>3. /\ q \in Seq(S) /\ q # <<>> /\ Len(q) = Len(Tail(s)) + 1
      /\ q[1] = Head(s) /\ \A i \in 1 .. Len(Tail(s)) : q[i + 1] = Tail(s)[i]
      /\ Head(q) = Head(s) /\ Tail(q) = Tail(s)
  BY <1>1, PushProperties
<1> HIDE DEF q
<1>4. Len(q) = Len(s)
  BY <1>1, <1>2, <1>3
<1>5. \A i \in 1 .. Len(s) : q[i] = s[i]
  <2> TAKE i \in 1 .. Len(s)
  <2>1. CASE i = 1
    BY <1>1, <1>3, <2>1
  <2>2. CASE i # 1
    <3>1. i - 1 \in 1 .. Len(Tail(s)) /\ (i - 1) + 1 = i
      BY <1>1, <2>2
    <3> QED
      BY <1>1, <1>3, <3>1
  <2> QED
    BY <2>1, <2>2
<1>6. q = s
  BY <1>3, <1>4, <1>5, SeqEqual
<1> QED
  BY <1>1, <1>6 DEF q

-----------------------------------------------------------------------------
(* The stack of handlers.                                                   *)
(*                                                                         *)
(* Only the innermost handler does anything; those under it wait for the    *)
(* synchronous check of a parent.  Each of them is about a descendant of the *)
(* host the one above it is about: no host waits for itself.                *)
Rank == CHOOSE rank \in [Hosts -> 0 .. Cardinality(Hosts)] :
          \A h \in Hosts : \A p \in ParentsOf(h) : rank[p] < rank[h]

LEMMA RankProperties ==
  \A h \in Hosts : /\ Rank[h] \in Int
                   /\ \A p \in ParentsOf(h) : p \in Hosts /\ Rank[p] < Rank[h]
<1>1. /\ Rank \in [Hosts -> 0 .. Cardinality(Hosts)]
      /\ \A h \in Hosts : \A p \in ParentsOf(h) : Rank[p] < Rank[h]
  BY NoCycles DEF Rank, ParentsOf
<1>2. \A h \in Hosts : ParentsOf(h) \subseteq Hosts
  <2> TAKE h \in Hosts
  <2>1. Parents[h] \in Seq(Hosts)
    BY HostChecksAssumption
  <2>2. \A i \in DOMAIN Parents[h] : Parents[h][i] \in Hosts
    BY <2>1, LenProperties, ElementOfSeq
  <2> QED
    BY <2>2 DEF ParentsOf, ToSet
<1> QED
  BY <1>1, <1>2

Waits(c) == c.at \in {"parents", "asked"}
Parked(h, q) == \E i \in 1 .. Len(q) : Waits(q[i]) /\ q[i].host = h

\* h is no descendant of a host that something on the stack q is about
Above(h, q) == \A i \in 1 .. Len(q) : Waits(q[i]) => Rank[h] < Rank[q[i].host]
Sound(c) == Waits(c) => ToSet(c.parents) \subseteq ParentsOf(c.host)
Asking(c) == c.at = "asked" /\ c.parents # <<>>

Suspended(q) ==
  /\ q \in Seq(Frame)
  /\ \A i \in 1 .. Len(q) : Asking(q[i]) /\ Sound(q[i])
  /\ \A i, j \in 1 .. Len(q) : i < j => Rank[q[i].host] < Rank[q[j].host]

Stack(q) ==
  q # <<>> =>
    /\ q \in Seq(Frame) /\ Suspended(Tail(q))
    /\ Sound(Head(q)) /\ (Head(q).at = "asked" => Asking(Head(q)))
    /\ Waits(Head(q)) => Above(Head(q).host, Tail(q))

LEMMA EmptyStack ==
  Suspended(<<>>) /\ Stack(<<>>) /\ \A h : ~Parked(h, <<>>)
BY EmptySeq DEF Suspended, Stack, Parked

LEMMA SuspendedStack ==
  ASSUME NEW q, Suspended(q)
  PROVE  q \in Seq(Frame) /\ Stack(q)
<1>1. q \in Seq(Frame)
  BY DEF Suspended
<1>2. CASE q # <<>>
  <2>1. /\ Head(q) = q[1] /\ Tail(q) \in Seq(Frame) /\ Len(Tail(q)) = Len(q) - 1
        /\ Len(q) \in Nat \ {0} /\ \A i \in 1 .. Len(Tail(q)) : Tail(q)[i] = q[i + 1]
    BY <1>1, <1>2, HeadTailProperties, EmptySeq
  <2>2. \A i \in 1 .. Len(Tail(q)) : i + 1 \in 1 .. Len(q)
    BY <2>1
  <2>3. \A i, j \in 1 .. Len(Tail(q)) : i < j => i + 1 < j + 1
    OBVIOUS
  <2>4. Suspended(Tail(q))
    <3>1. \A i \in 1 .. Len(Tail(q)) : Asking(Tail(q)[i]) /\ Sound(Tail(q)[i])
      BY <2>1, <2>2 DEF Suspended
    <3>2. \A i, j \in 1 .. Len(Tail(q)) : i < j =>
            Rank[Tail(q)[i].host] < Rank[Tail(q)[j].host]
      BY <2>1, <2>2, <2>3 DEF Suspended
    <3> QED
      BY <2>1, <3>1, <3>2 DEF Suspended
  <2>5. 1 \in 1 .. Len(q)
    BY <2>1
  <2>6. Asking(q[1]) /\ Sound(q[1])
    BY <2>5 DEF Suspended
  <2>7. Above(Head(q).host, Tail(q))
    <3> SUFFICES ASSUME NEW i \in 1 .. Len(Tail(q))
                 PROVE  Rank[Head(q).host] < Rank[Tail(q)[i].host]
      BY DEF Above
    <3>1. i + 1 \in 1 .. Len(q) /\ 1 < i + 1
      BY <2>2
    <3> QED
      BY <2>1, <2>5, <3>1 DEF Suspended
  <2> QED
    BY <1>1, <2>1, <2>4, <2>6, <2>7 DEF Stack
<1> QED
  BY <1>1, <1>2 DEF Stack

\* What a new handler makes of the stack.
LEMMA PushStack ==
  ASSUME NEW q, Suspended(q), NEW c \in Frame, Sound(c), c.at = "asked" => Asking(c),
         Waits(c) => Above(c.host, q)
  PROVE  LET s == <<c>> \o q IN
         /\ s \in Seq(Frame) /\ s # <<>> /\ Head(s) = c /\ Tail(s) = q
         /\ Stack(s)
         /\ Asking(c) => Suspended(s)
         /\ \A h : Parked(h, s) <=> (Waits(c) /\ c.host = h) \/ Parked(h, q)
<1> DEFINE s == <<c>> \o q
<1>0. q \in Seq(Frame) /\ Len(q) \in Nat
  BY LenProperties DEF Suspended
<1>1. /\ s \in Seq(Frame) /\ s # <<>> /\ Len(s) = Len(q) + 1
      /\ s[1] = c /\ \A i \in 1 .. Len(q) : s[i + 1] = q[i]
      /\ Head(s) = c /\ Tail(s) = q
  BY <1>0, PushProperties
<1> HIDE DEF s
<1>2. Stack(s)
  BY <1>1 DEF Stack
<1>3. \A i \in 1 .. Len(s) : i = 1 \/ (i - 1 \in 1 .. Len(q) /\ s[i] = q[i - 1])
  <2> TAKE i \in 1 .. Len(s)
  <2>1. i # 1 => i - 1 \in 1 .. Len(q) /\ (i - 1) + 1 = i
    BY <1>0, <1>1
  <2> QED
    BY <1>1, <2>1
<1>4. ASSUME Asking(c)
      PROVE  Suspended(s)
  <2>1. \A i \in 1 .. Len(s) : Asking(s[i]) /\ Sound(s[i])
    BY <1>1, <1>3, <1>4 DEF Suspended
  <2>2. ASSUME NEW i \in 1 .. Len(s), NEW j \in 1 .. Len(s), i < j
        PROVE  Rank[s[i].host] < Rank[s[j].host]
    <3>1. j - 1 \in 1 .. Len(q) /\ s[j] = q[j - 1] /\ j # 1
      BY <1>3, <2>2
    <3>2. CASE i = 1
      <4>1. Waits(c) /\ Waits(q[j - 1])
        BY <1>4, <3>1 DEF Asking, Waits, Suspended
      <4> QED
        BY <1>1, <3>1, <3>2, <4>1 DEF Above
    <3>3. CASE i # 1
      <4>1. i - 1 \in 1 .. Len(q) /\ s[i] = q[i - 1] /\ i - 1 < j - 1
        BY <1>3, <2>2, <3>3
      <4> QED
        BY <3>1, <4>1 DEF Suspended
    <3> QED
      BY <3>2, <3>3
  <2> QED
    BY <1>1, <2>1, <2>2 DEF Suspended
<1>5. ASSUME NEW h
      PROVE  Parked(h, s) <=> (Waits(c) /\ c.host = h) \/ Parked(h, q)
  <2>1. ASSUME Parked(h, s)
        PROVE  (Waits(c) /\ c.host = h) \/ Parked(h, q)
    <3>1. PICK i \in 1 .. Len(s) : Waits(s[i]) /\ s[i].host = h
      BY <2>1 DEF Parked
    <3> QED
      BY <1>1, <1>3, <3>1 DEF Parked
  <2>2. ASSUME Waits(c) /\ c.host = h
        PROVE  Parked(h, s)
    <3>1. 1 \in 1 .. Len(s)
      BY <1>0, <1>1
    <3> QED
      BY <1>1, <2>2, <3>1 DEF Parked
  <2>3. ASSUME Parked(h, q)
        PROVE  Parked(h, s)
    <3>1. PICK i \in 1 .. Len(q) : Waits(q[i]) /\ q[i].host = h
      BY <2>3 DEF Parked
    <3>2. i + 1 \in 1 .. Len(s) /\ s[i + 1] = q[i]
      BY <1>0, <1>1, <3>1
    <3> QED
      BY <3>1, <3>2 DEF Parked
  <2> QED
    BY <2>1, <2>2, <2>3
<1> QED
  BY <1>1, <1>2, <1>4, <1>5 DEF s

\* The innermost handler, and those under it.
LEMMA TopProperties ==
  ASSUME Stack(calls), calls # <<>>
  PROVE  /\ Top \in Frame /\ Suspended(Tail(calls)) /\ Stack(Tail(calls))
         /\ Tail(calls) \in Seq(Frame)
         /\ Sound(Top) /\ (Top.at = "asked" => Asking(Top))
         /\ Waits(Top) => Above(Top.host, Tail(calls))
         /\ \A h : Parked(h, calls) <=>
                     (Waits(Top) /\ Top.host = h) \/ Parked(h, Tail(calls))
<1>1. /\ calls \in Seq(Frame) /\ Suspended(Tail(calls))
      /\ Sound(Top) /\ (Top.at = "asked" => Asking(Top))
      /\ Waits(Top) => Above(Top.host, Tail(calls))
  BY DEF Stack, Top
<1>2. /\ Top \in Frame /\ Tail(calls) \in Seq(Frame)
      /\ calls = <<Top>> \o Tail(calls)
  BY <1>1, HeadPushed DEF Top
<1>3. LET s == <<Top>> \o Tail(calls) IN
      /\ s \in Seq(Frame) /\ s # <<>> /\ Head(s) = Top /\ Tail(s) = Tail(calls)
      /\ Stack(s)
      /\ Asking(Top) => Suspended(s)
      /\ \A h : Parked(h, s) <=> (Waits(Top) /\ Top.host = h) \/ Parked(h, Tail(calls))
  BY <1>1, <1>2, PushStack
<1>4. Stack(Tail(calls))
  BY <1>1, SuspendedStack
<1> QED
  BY <1>1, <1>2, <1>3, <1>4

\* A host that the stack is about is not above it.
LEMMA AboveApart ==
  ASSUME NEW q, NEW h, Suspended(q), Above(h, q)
  PROVE  ~Parked(h, q)
<1> SUFFICES ASSUME NEW i \in 1 .. Len(q), Waits(q[i]), q[i].host = h
             PROVE  FALSE
  BY DEF Parked
<1>1. q[i] \in Frame
  BY ElementOfSeq DEF Suspended
<1>2. q[i].host \in Hosts
  BY <1>1 DEF Frame
<1>3. Rank[h] \in Int /\ Rank[h] < Rank[h]
  BY <1>2, RankProperties DEF Above
<1> QED
  BY <1>3

-----------------------------------------------------------------------------
(* The bag of checks in flight.                                             *)

\* no more than one check of h in the bag
Solo(h, bag) == \A f, g \in Of(bag, h) : f = g /\ bag[f] = 1
Flying(bag) == IsABag(bag) /\ BagToSet(bag) \subseteq Flight

\* what a step on the checks of h leaves of those of other hosts
SameChecks(h, bag, new) ==
  Of(new, h) = Of(bag, h) /\ \A f \in Of(bag, h) : new[f] = bag[f]

LEMMA SameSolo ==
  ASSUME NEW h, NEW bag, NEW new, SameChecks(h, bag, new)
  PROVE  Solo(h, new) = Solo(h, bag)
BY DEF SameChecks, Solo

LEMMA AddFlight ==
  ASSUME NEW bag, Flying(bag), NEW f \in Flight
  PROVE  LET new == BagAdd(bag, f) IN
         /\ Flying(new)
         /\ Of(new, f.host) = Of(bag, f.host) \cup {f}
         /\ Of(bag, f.host) = {} => Solo(f.host, new)
         /\ \A h : h # f.host => SameChecks(h, bag, new)
<1> DEFINE new == BagAdd(bag, f)
<1>1. \A g \in DOMAIN bag : bag[g] \in Nat /\ bag[g] > 0
  BY DEF Flying, IsABag
<1>2. /\ DOMAIN new = DOMAIN bag \cup {f}
      /\ \A g \in DOMAIN bag : g # f => new[g] = bag[g]
      /\ f \notin DOMAIN bag => new[f] = 1
      /\ f \in DOMAIN bag => new[f] = bag[f] + 1
      /\ new = [g \in DOMAIN new |-> new[g]]
  BY DEF BagAdd
<1> HIDE DEF new
<1>3. \A g \in DOMAIN new : new[g] \in Nat /\ new[g] > 0
  BY <1>1, <1>2
<1>4. Flying(new)
  <2>1. IsABag(new)
    BY <1>2, <1>3 DEF IsABag
  <2> QED
    BY <1>2, <2>1 DEF Flying, BagToSet
<1>5. Of(new, f.host) = Of(bag, f.host) \cup {f}
  BY <1>2 DEF Of, BagToSet
<1>6. Of(bag, f.host) = {} => Solo(f.host, new)
  <2> SUFFICES ASSUME Of(bag, f.host) = {}
               PROVE  Solo(f.host, new)
    OBVIOUS
  <2>1. f \notin DOMAIN bag /\ Of(new, f.host) = {f}
    BY <1>5 DEF Of, BagToSet
  <2> QED
    BY <1>2, <2>1 DEF Solo
<1>7. \A h : h # f.host => SameChecks(h, bag, new)
  BY <1>2 DEF SameChecks, Of, BagToSet
<1> QED
  BY <1>4, <1>5, <1>6, <1>7 DEF new

LEMMA RemoveFlight ==
  ASSUME NEW bag, Flying(bag), NEW f \in BagToSet(bag)
  PROVE  LET new == BagRemove(bag, f) IN
         /\ Flying(new)
         /\ Of(new, f.host) \subseteq Of(bag, f.host)
         /\ Solo(f.host, bag) => Of(new, f.host) = {}
         /\ \A h : h # f.host => SameChecks(h, bag, new)
<1> DEFINE new == BagRemove(bag, f)
<1>1. /\ \A g \in DOMAIN bag : bag[g] \in Nat /\ bag[g] > 0
      /\ f \in DOMAIN bag
  BY DEF Flying, IsABag, BagToSet
<1>2. /\ DOMAIN new = IF bag[f] = 1 THEN DOMAIN bag \ {f} ELSE DOMAIN bag
      /\ \A g \in DOMAIN new : new[g] = IF g = f THEN bag[g] - 1 ELSE bag[g]
      /\ new = [g \in DOMAIN new |-> new[g]]
  BY <1>1 DEF BagRemove
<1> HIDE DEF new
<1>3. \A g \in DOMAIN new : new[g] \in Nat /\ new[g] > 0
  <2> TAKE g \in DOMAIN new
  <2>1. g \in DOMAIN bag /\ (g = f => bag[f] # 1)
    BY <1>2
  <2>2. bag[g] \in Nat /\ bag[g] > 0
    BY <1>1, <2>1
  <2> QED
    BY <1>2, <2>1, <2>2
<1>4. Flying(new)
  <2>1. IsABag(new)
    BY <1>2, <1>3 DEF IsABag
  <2> QED
    BY <1>2, <2>1 DEF Flying, BagToSet
<1>5. Of(new, f.host) \subseteq Of(bag, f.host)
  BY <1>2 DEF Of, BagToSet
<1>6. Solo(f.host, bag) => Of(new, f.host) = {}
  <2> SUFFICES ASSUME Solo(f.host, bag), NEW g \in Of(new, f.host)
               PROVE  FALSE
    OBVIOUS
  <2>1. f \in Of(bag, f.host) /\ g \in Of(bag, f.host)
    BY <1>5 DEF Of
  <2>2. f = g /\ bag[f] = 1
    BY <2>1 DEF Solo
  <2>3. f \notin DOMAIN new
    BY <1>2, <2>2
  <2> QED
    BY <2>2, <2>3 DEF Of, BagToSet
<1>7. \A h : h # f.host => SameChecks(h, bag, new)
  BY <1>2 DEF SameChecks, Of, BagToSet
<1> QED
  BY <1>4, <1>5, <1>6, <1>7 DEF new

\* a check in flight that gets its answer
LEMMA AnswerFlight ==
  ASSUME NEW bag, Flying(bag), NEW f \in BagToSet(bag), NEW g \in Flight,
         g.host = f.host
  PROVE  LET new == BagAdd(BagRemove(bag, f), g) IN
         /\ Flying(new)
         /\ Of(bag, f.host) # {} /\ Of(new, f.host) # {}
         /\ Solo(f.host, bag) => Solo(f.host, new)
         /\ \A h : h # f.host => SameChecks(h, bag, new)
<1> DEFINE rest == BagRemove(bag, f)
           new == BagAdd(rest, g)
<1>1. /\ Flying(rest)
      /\ Of(rest, f.host) \subseteq Of(bag, f.host)
      /\ Solo(f.host, bag) => Of(rest, f.host) = {}
      /\ \A h : h # f.host => SameChecks(h, bag, rest)
  BY RemoveFlight
<1> HIDE DEF rest
<1>2. /\ Flying(new)
      /\ Of(new, g.host) = Of(rest, g.host) \cup {g}
      /\ Of(rest, g.host) = {} => Solo(g.host, new)
      /\ \A h : h # g.host => SameChecks(h, rest, new)
  BY <1>1, AddFlight
<1> HIDE DEF new
<1>3. f \in Of(bag, f.host)
  BY DEF Of
<1>4. \A h : h # f.host => SameChecks(h, bag, new)
  BY <1>1, <1>2 DEF SameChecks
<1>5. Of(bag, f.host) # {} /\ Of(new, f.host) # {}
  BY <1>2, <1>3
<1>6. Solo(f.host, bag) => Solo(f.host, new)
  BY <1>1, <1>2
<1>7. Flying(new)
  BY <1>2
<1> QED
  BY <1>4, <1>5, <1>6, <1>7 DEF new, rest

-----------------------------------------------------------------------------
(* What a result makes of a host.                                           *)

LEMMA ScheduledProperties ==
  ASSUME NEW v \in Host, NEW kind \in Events \ {"none"}, NEW w \in Scheduled(v, kind)
  PROVE  /\ w \in Host /\ w = [v EXCEPT !.event = w.event]
         /\ v.event # "none" => w.event # "none"
         /\ kind # "normal" => w.event # "none"
         /\ v.enabled => w.event # "none"
<1>1. CASE kind = "normal" /\ ~v.enabled
  <2>1. w = v
    BY <1>1 DEF Scheduled
  <2> QED
    BY <1>1, <2>1 DEF Host
<1>2. CASE kind = "normal" /\ v.enabled
  <2> DEFINE e == IF v.event = "none" THEN kind ELSE v.event
  <2>1. w = [v EXCEPT !.event = e]
    BY <1>2 DEF Scheduled
  <2>2. e \in Events /\ e # "none"
    BY DEF Host
  <2> HIDE DEF e
  <2> QED
    BY <1>2, <2>1, <2>2 DEF Host
<1>3. CASE kind # "normal"
  <2> DEFINE E == IF v.event \in {"forced", "fresh"} THEN {v.event, kind} ELSE {kind}
  <2>1. PICK e \in E : w = [v EXCEPT !.event = e]
    BY <1>3 DEF Scheduled
  <2>2. e \in Events /\ e # "none"
    BY DEF Host
  <2> HIDE DEF E
  <2> QED
    BY <1>3, <2>1, <2>2 DEF Host
<1> QED
  BY <1>1, <1>2, <1>3 DEF Host

Counts(h, v) == v \in Host /\ v.attempt \in 1 .. Attempts[h]

LEMMA AdjustedProperties ==
  ASSUME NEW h \in Hosts, NEW v, Counts(h, v)
  PROVE  LET w == Adjusted(h, v) IN
         /\ Counts(h, w) /\ w = [v EXCEPT !.attempt = w.attempt]
         /\ w.attempt = IF v.type = "HARD" \/ v.state = "UP" THEN 1
                        ELSE IF v.attempt < Attempts[h] THEN v.attempt + 1
                        ELSE v.attempt
<1> DEFINE a == IF v.type = "HARD" \/ v.state = "UP" THEN 1
                ELSE IF v.attempt < Attempts[h] THEN v.attempt + 1
                ELSE v.attempt
<1>1. a \in 1 .. Attempts[h] /\ a \in Nat
  <2>1. Attempts[h] \in Nat \ {0} /\ v.attempt \in 1 .. Attempts[h]
    BY HostChecksAssumption DEF Counts
  <2> QED
    BY <2>1
<1>2. Adjusted(h, v) = [v EXCEPT !.attempt = a]
  BY DEF Adjusted
<1> HIDE DEF a
<1>3. [v EXCEPT !.attempt = a] \in Host /\ [v EXCEPT !.attempt = a].attempt = a
  BY <1>1 DEF Counts, Host
<1> QED
  BY <1>1, <1>2, <1>3 DEF Counts, a

LEMMA ResumedProperties ==
  ASSUME NEW v \in Host, NEW reschedule \in BOOLEAN, NEW w \in Resumed(v, reschedule)
  PROVE  /\ w \in Host
         /\ w = [v EXCEPT !.event = w.event, !.should = w.should]
         /\ v.event # "none" => w.event # "none"
         /\ w.should \in {v.should,
                          v.enabled /\ (v.regular \/ (v.type = "SOFT" /\ v.state # "UP"))}
         /\ reschedule /\ v.enabled /\ (v.regular \/ (v.type = "SOFT" /\ v.state # "UP"))
              => w.event # "none" /\ w.should
<1> DEFINE should == v.enabled /\ (v.regular \/ (v.type = "SOFT" /\ v.state # "UP"))
           x == [v EXCEPT !.should = should]
<1>0. should \in BOOLEAN /\ v.enabled \in BOOLEAN
  BY DEF Host
<1>1. /\ ~reschedule => w = v
      /\ reschedule /\ should => w \in Scheduled(x, "normal")
      /\ reschedule /\ ~should => w = x
  BY DEF Resumed
<1>2. should => v.enabled
  OBVIOUS
<1> HIDE DEF should
<1>3. /\ x \in Host /\ x.should = should /\ x.event = v.event /\ x.enabled = v.enabled
      /\ x = [v EXCEPT !.event = x.event, !.should = x.should]
  BY <1>0 DEF Host
<1>4. v = [v EXCEPT !.event = v.event, !.should = v.should]
  BY DEF Host
<1>5. CASE ~reschedule
  BY <1>1, <1>4, <1>5 DEF should
<1>6. CASE reschedule /\ ~should
  BY <1>1, <1>3, <1>6 DEF should
<1>7. CASE reschedule /\ should
  <2> HIDE DEF x
  <2>1. w \in Scheduled(x, "normal") /\ x.enabled = TRUE
    BY <1>0, <1>1, <1>2, <1>3, <1>7
  <2>2. "normal" \in Events \ {"none"}
    BY DEF Events
  <2>3. /\ w \in Host /\ w = [x EXCEPT !.event = w.event]
        /\ x.event # "none" => w.event # "none"
        /\ "normal" # "normal" => w.event # "none"
        /\ x.enabled => w.event # "none"
    BY <1>3, <2>1, <2>2, ScheduledProperties
  <2>4. w.should = x.should
    BY <1>3, <2>3 DEF Host
  <2>5. w = [v EXCEPT !.event = w.event, !.should = w.should]
    BY <1>3, <2>3, <2>4 DEF Host
  <2> QED
    BY <1>3, <1>7, <2>1, <2>3, <2>4, <2>5 DEF should
<1> QED
  BY <1>5, <1>6, <1>7

LEMMA FinishProperties ==
  ASSUME NEW h \in Hosts, NEW v \in Host, NEW reschedule \in BOOLEAN,
         NEW neighbours \in SUBSET Hosts, NEW rest, Suspended(rest),
         Finish(h, v, reschedule, neighbours, rest)
  PROVE  /\ \E w \in Resumed(v, reschedule) : hosts' = [hosts EXCEPT ![h] = w]
         /\ calls' \in Seq(Frame) /\ Stack(calls')
         /\ \A g : Parked(g, calls') <=> Parked(g, rest)
<1>1. \E w \in Resumed(v, reschedule) : hosts' = [hosts EXCEPT ![h] = w]
  BY DEF Finish
<1>2. CASE calls' = rest
  BY <1>1, <1>2, SuspendedStack
<1>3. CASE calls' # rest
  <2> DEFINE c == [at |-> "spread", host |-> h, parents |-> <<>>,
                   verdict |-> "UP", spread |-> neighbours]
  <2>1. calls' = <<c>> \o rest
    BY <1>3 DEF Finish
  <2>2. c \in Frame
    BY EmptySeq DEF Frame, States
  <2>3. c.at = "spread"
    OBVIOUS
  <2> HIDE DEF c
  <2>4. Sound(c) /\ ~Waits(c) /\ c.at # "asked"
    BY <2>3 DEF Sound, Waits
  <2>5. LET s == <<c>> \o rest IN
        /\ s \in Seq(Frame) /\ s # <<>> /\ Head(s) = c /\ Tail(s) = rest
        /\ Stack(s)
        /\ Asking(c) => Suspended(s)
        /\ \A g : Parked(g, s) <=> (Waits(c) /\ c.host = g) \/ Parked(g, rest)
    BY <2>2, <2>4, PushStack
  <2> QED
    BY <1>1, <2>1, <2>4, <2>5
<1> QED
  BY <1>2, <1>3

\* The fields that a result does not touch.
Kept(v, w) ==
  /\ w.regular = v.regular /\ w.enabled = v.enabled
  /\ w.executing = v.executing /\ w.again = v.again
Retried(v) == v.type = "SOFT" /\ v.state # "UP"

\* A host whose fields were v, handled to the end with a result.
Handled(h, v, new, active, reschedule, w) ==
  /\ Counts(h, w) /\ Kept(v, w)
  /\ v.event # "none" => w.event # "none"
  /\ w.should \in {v.should, v.enabled /\ (v.regular \/ Retried(w))}
  /\ reschedule /\ v.enabled /\ v.regular => w.event # "none"
  /\ /\ v.enabled /\ Retried(w) /\ active
     /\ v.state = "UP" \/ v.type = "SOFT"
     => w.should /\ w.event # "none"
  /\ new = "UP" => w.state = "UP" /\ w.attempt \in {1, v.attempt}
  /\ new # "UP" /\ active =>
       /\ w.state # "UP" /\ w.attempt = v.attempt
       /\ IF v.state = "UP" THEN Attempts[h] > 1 /\ w.type = "SOFT"
          ELSE w.type = "HARD" <=> v.attempt \in {1, Attempts[h]}

\* One that waits for its parents.
AtOnce(h, v, new, active, w) ==
  /\ active /\ new # "UP" /\ v.state = "UP" /\ Attempts[h] = 1
  /\ w = [v EXCEPT !.type = "HARD"]

LEMMA ReachProperties ==
  ASSUME NEW h
  PROVE  Reach(h) \in States /\ Reach(h) # "UP"
BY DEF Reach, States

\* A host in another state, of another type, at another attempt.
Restated(v, s, t, a) == [v EXCEPT !.state = s, !.type = t, !.attempt = a]
LEMMA RestatedProperties ==
  ASSUME NEW h \in Hosts, NEW v, Counts(h, v), NEW s \in States,
         NEW t \in {"HARD", "SOFT"}, NEW a \in 1 .. Attempts[h],
         NEW x, x = Restated(v, s, t, a)
  PROVE  /\ Counts(h, x) /\ Kept(v, x) /\ x.event = v.event /\ x.should = v.should
         /\ x.state = s /\ x.type = t /\ x.attempt = a
<1>1. v \in Host /\ a \in Nat
  BY HostChecksAssumption DEF Counts
<1>2. x \in Host
  BY <1>1 DEF Host, Restated
<1>3. x.state = s /\ x.type = t /\ x.attempt = a
  BY <1>1 DEF Host, Restated
<1>4. x.event = v.event /\ x.should = v.should
  BY <1>1 DEF Host, Restated
<1>5. Kept(v, x)
  BY <1>1 DEF Kept, Host, Restated
<1> QED
  BY <1>2, <1>3, <1>4, <1>5 DEF Counts

\* A host as process_host_check_result_3x leaves it before the end.
LEMMA HandledByFinish ==
  ASSUME NEW h \in Hosts, NEW v, Counts(h, v), NEW new \in States,
         NEW active \in BOOLEAN, NEW reschedule \in BOOLEAN,
         NEW x, Counts(h, x), NEW again \in BOOLEAN,
         Kept(v, x), x.event = v.event, x.should = v.should,
         reschedule => again,
         v.enabled /\ Retried(x) /\ active /\ (v.state = "UP" \/ v.type = "SOFT") => again,
         new = "UP" => x.state = "UP" /\ x.attempt \in {1, v.attempt},
         new # "UP" /\ active =>
           /\ x.state # "UP" /\ x.attempt = v.attempt
           /\ IF v.state = "UP" THEN Attempts[h] > 1 /\ x.type = "SOFT"
              ELSE x.type = "HARD" <=> v.attempt \in {1, Attempts[h]},
         NEW w \in Resumed(x, again)
  PROVE  Handled(h, v, new, active, reschedule, w)
<1>0. x \in Host /\ x.event \in Events /\ x.should \in BOOLEAN
  BY DEF Counts, Host
<1>1. /\ w \in Host
      /\ w = [x EXCEPT !.event = w.event, !.should = w.should]
      /\ x.event # "none" => w.event # "none"
      /\ w.should \in {x.should,
                       x.enabled /\ (x.regular \/ (x.type = "SOFT" /\ x.state # "UP"))}
      /\ again /\ x.enabled /\ (x.regular \/ (x.type = "SOFT" /\ x.state # "UP"))
           => w.event # "none" /\ w.should
  BY ONLY <1>0, again \in BOOLEAN, w \in Resumed(x, again), ResumedProperties
<1>2. /\ w.state = x.state /\ w.type = x.type /\ w.attempt = x.attempt
      /\ w.regular = x.regular /\ w.enabled = x.enabled
      /\ w.executing = x.executing /\ w.again = x.again
  BY <1>0, <1>1 DEF Host
<1>3. Counts(h, w) /\ Kept(v, w)
  BY <1>1, <1>2 DEF Counts, Kept
<1>4. Retried(w) <=> Retried(x)
  BY <1>2 DEF Retried
<1>5. w.should \in {v.should, v.enabled /\ (v.regular \/ Retried(w))}
  BY <1>1, <1>4 DEF Kept, Retried
<1>6. reschedule /\ v.enabled /\ v.regular => w.event # "none"
  BY <1>1 DEF Kept
<1>7. /\ v.enabled /\ Retried(w) /\ active
      /\ v.state = "UP" \/ v.type = "SOFT"
      => w.should /\ w.event # "none"
  BY <1>1, <1>4 DEF Kept, Retried
<1> QED
  BY <1>1, <1>2, <1>3, <1>5, <1>6, <1>7 DEF Handled

\* the problems in a row, k before the result
Counted(h, k, new) ==
  IF new = "UP" THEN 0 ELSE IF k < Attempts[h] THEN k + 1 ELSE k

LEMMA ProcessProperties ==
  ASSUME NEW h \in Hosts, NEW v, Counts(h, v), NEW new \in States,
         NEW active \in BOOLEAN, NEW reschedule \in BOOLEAN,
         NEW rest, Suspended(rest), Above(h, rest),
         Process(h, v, new, active, reschedule, rest)
  PROVE  /\ streak' = [streak EXCEPT ![h] = Counted(h, streak[h], new)]
         /\ calls' \in Seq(Frame) /\ Stack(calls')
         /\ \E w : /\ hosts' = [hosts EXCEPT ![h] = w] /\ Counts(h, w)
                   /\ \/ /\ Handled(h, v, new, active, reschedule, w)
                         /\ \A g : Parked(g, calls') <=> Parked(g, rest)
                      \/ /\ AtOnce(h, v, new, active, w)
                         /\ \A g : Parked(g, calls') <=> g = h \/ Parked(g, rest)
<1>0. /\ v \in Host /\ v.attempt \in 1 .. Attempts[h]
      /\ Attempts[h] \in Nat /\ Attempts[h] > 0
      /\ v.state \in States /\ v.type \in {"HARD", "SOFT"}
      /\ ParentsOf(h) \subseteq Hosts /\ ChildrenOf(h) \subseteq Hosts
  <2>1. ParentsOf(h) \subseteq Hosts
    BY RankProperties
  <2>2. ChildrenOf(h) \subseteq Hosts
    BY DEF ChildrenOf
  <2> QED
    BY <2>1, <2>2, HostChecksAssumption DEF Counts, Host
<1>reach. Reach(h) \in States /\ Reach(h) # "UP"
  BY ReachProperties
<1>streak. streak' = [streak EXCEPT ![h] = Counted(h, streak[h], new)]
  BY DEF Process, Counted
\* what is left to show when Finish ends the step
<1>finish. ASSUME NEW x, Counts(h, x), NEW again \in BOOLEAN,
                  NEW neighbours \in SUBSET Hosts,
                  Finish(h, x, again, neighbours, rest),
                  Kept(v, x), x.event = v.event, x.should = v.should,
                  reschedule => again,
                  v.enabled /\ Retried(x) /\ active
                    /\ (v.state = "UP" \/ v.type = "SOFT") => again,
                  new = "UP" => x.state = "UP" /\ x.attempt \in {1, v.attempt},
                  new # "UP" /\ active =>
                    /\ x.state # "UP" /\ x.attempt = v.attempt
                    /\ IF v.state = "UP" THEN Attempts[h] > 1 /\ x.type = "SOFT"
                       ELSE x.type = "HARD" <=> v.attempt \in {1, Attempts[h]}
           PROVE  /\ calls' \in Seq(Frame) /\ Stack(calls')
                  /\ \E w : /\ hosts' = [hosts EXCEPT ![h] = w] /\ Counts(h, w)
                            /\ Handled(h, v, new, active, reschedule, w)
                            /\ \A g : Parked(g, calls') <=> Parked(g, rest)
  <2>0. x \in Host
    BY <1>finish DEF Counts
  <2>1. /\ \E w \in Resumed(x, again) : hosts' = [hosts EXCEPT ![h] = w]
        /\ calls' \in Seq(Frame) /\ Stack(calls')
        /\ \A g : Parked(g, calls') <=> Parked(g, rest)
    BY <1>finish, <2>0, FinishProperties
  <2>2. PICK w \in Resumed(x, again) : hosts' = [hosts EXCEPT ![h] = w]
    BY <2>1
  <2>3. Handled(h, v, new, active, reschedule, w)
    BY <1>finish, <2>2, HandledByFinish
  <2>4. Counts(h, w)
    BY <2>3 DEF Handled
  <2> QED
    BY <2>1, <2>2, <2>3, <2>4
<1>1. CASE new = "UP" /\ TakeUp(h, v, active, reschedule, rest)
  <2> DEFINE back == v.state # "UP"
             t == IF ~back \/ v.type = "HARD" \/ ~active THEN "HARD" ELSE "SOFT"
             a == IF back THEN 1 ELSE v.attempt
             x == [v EXCEPT !.state = "UP", !.type = t, !.attempt = a]
             N == IF back THEN NotUp(ParentsOf(h) \cup ChildrenOf(h)) ELSE {}
  <2>1. Finish(h, x, reschedule \/ back, N, rest)
    BY <1>1 DEF TakeUp
  <2>2. N \in SUBSET Hosts /\ (reschedule \/ back) \in BOOLEAN
    BY <1>0 DEF NotUp
  <2>3. t \in {"HARD", "SOFT"} /\ a \in {1, v.attempt} /\ a \in 1 .. Attempts[h]
    BY <1>0
  <2> HIDE DEF t, a, N, back
  <2>x. x = Restated(v, "UP", t, a) /\ "UP" \in States
    BY DEF Restated, States
  <2> HIDE DEF x
  <2>4. /\ Counts(h, x) /\ Kept(v, x) /\ x.event = v.event /\ x.should = v.should
        /\ x.state = "UP" /\ x.type = t /\ x.attempt = a
    BY <2>3, <2>x, RestatedProperties
  <2>5. ~Retried(x)
    BY <2>4 DEF Retried
  <2> QED
    BY <1>1, <1>streak, <2>1, <2>2, <2>3, <2>4, <2>5, <1>finish
<1>2. CASE new # "UP" /\ v.state # "UP" /\ TakeStillDown(h, v, new, active, reschedule, rest)
  <2> DEFINE s == IF active THEN Reach(h) ELSE new
             t == IF ~active \/ v.attempt \in {1, Attempts[h]} THEN "HARD" ELSE "SOFT"
             a == IF active THEN v.attempt ELSE 1
             x == [v EXCEPT !.state = s, !.type = t, !.attempt = a]
             again == reschedule \/ v.type = "SOFT" \/ s # v.state
  <2>1. Finish(h, x, again, {}, rest)
    BY <1>2 DEF TakeStillDown
  <2>2. again \in BOOLEAN /\ {} \in SUBSET Hosts
    OBVIOUS
  <2>3. /\ s \in States /\ s # "UP" /\ t \in {"HARD", "SOFT"} /\ a \in 1 .. Attempts[h]
        /\ active => a = v.attempt /\ (t = "HARD" <=> v.attempt \in {1, Attempts[h]})
    BY <1>0, <1>2, <1>reach
  <2>4. reschedule => again
    OBVIOUS
  <2>5. v.type = "SOFT" => again
    OBVIOUS
  <2> HIDE DEF s, t, a, again
  <2>x. x = Restated(v, s, t, a)
    BY DEF Restated
  <2> HIDE DEF x
  <2>6. /\ Counts(h, x) /\ Kept(v, x) /\ x.event = v.event /\ x.should = v.should
        /\ x.state = s /\ x.type = t /\ x.attempt = a
    BY <2>3, <2>x, RestatedProperties
  <2> QED
    BY <1>2, <1>streak, <2>1, <2>2, <2>3, <2>4, <2>5, <2>6, <1>finish
<1>3. CASE new # "UP" /\ v.state = "UP" /\ Attempts[h] = 1 /\ TakeDownAtOnce(h, v, new, active, rest)
  <2> DEFINE w == [v EXCEPT !.type = "HARD"]
  <2>0. w \in Host /\ Counts(h, w) /\ w.attempt = v.attempt
    BY <1>0 DEF Counts, Host
  <2>1. CASE active
    <3> DEFINE c == [at |-> "parents", host |-> h, parents |-> Parents[h],
                     verdict |-> "UP", spread |-> {}]
    <3>1. hosts' = [hosts EXCEPT ![h] = w] /\ calls' = <<c>> \o rest
      BY <1>3, <2>1 DEF TakeDownAtOnce
    <3>2. c \in Frame
      BY HostChecksAssumption DEF Frame, States
    <3>3. c.at = "parents" /\ c.host = h /\ ToSet(c.parents) = ParentsOf(h)
      BY DEF ParentsOf
    <3> HIDE DEF c
    <3>4. Sound(c) /\ Waits(c) /\ c.at # "asked"
      BY <3>3 DEF Sound, Waits
    <3>5. LET s == <<c>> \o rest IN
          /\ s \in Seq(Frame) /\ s # <<>> /\ Head(s) = c /\ Tail(s) = rest
          /\ Stack(s)
          /\ Asking(c) => Suspended(s)
          /\ \A g : Parked(g, s) <=> (Waits(c) /\ c.host = g) \/ Parked(g, rest)
      BY <3>2, <3>3, <3>4, PushStack
    <3>6. AtOnce(h, v, new, active, w)
      BY <1>3, <2>1 DEF AtOnce
    <3>7. \A g : Parked(g, calls') <=> g = h \/ Parked(g, rest)
      BY <3>1, <3>3, <3>4, <3>5
    <3> HIDE DEF w
    <3> QED
      BY <1>streak, <2>0, <3>1, <3>5, <3>6, <3>7
  <2>2. CASE ~active
    <3> DEFINE x == [w EXCEPT !.state = new]
    <3>1. Finish(h, x, TRUE, Reachable(ChildrenOf(h)), rest)
      BY <1>3, <2>2 DEF TakeDownAtOnce
    <3>2. Reachable(ChildrenOf(h)) \in SUBSET Hosts
      BY <1>0 DEF Reachable
    <3>3. /\ Counts(h, x) /\ Kept(v, x) /\ x.event = v.event /\ x.should = v.should
      BY <1>0 DEF Counts, Kept, Host
    <3> HIDE DEF x
    <3> QED
      BY <1>3, <1>streak, <2>2, <3>1, <3>2, <3>3, <1>finish
  <2> QED
    BY <2>1, <2>2
<1>4. CASE new # "UP" /\ v.state = "UP" /\ Attempts[h] > 1 /\ TakeDown(h, v, new, active, rest)
  <2> DEFINE s == IF active THEN Reach(h) ELSE new
             t == IF active THEN "SOFT" ELSE "HARD"
             a == IF active THEN v.attempt ELSE 1
             x == [v EXCEPT !.state = s, !.type = t, !.attempt = a]
             N == Up(ParentsOf(h)) \cup Reachable(ChildrenOf(h))
  <2>1. Finish(h, x, TRUE, N, rest)
    BY <1>4 DEF TakeDown
  <2>2. N \in SUBSET Hosts
    BY <1>0 DEF Up, Reachable
  <2>3. /\ s \in States /\ s # "UP" /\ t \in {"HARD", "SOFT"} /\ a \in 1 .. Attempts[h]
        /\ active => a = v.attempt /\ t = "SOFT"
    BY <1>0, <1>4, <1>reach
  <2> HIDE DEF s, t, a, N
  <2>x. x = Restated(v, s, t, a)
    BY DEF Restated
  <2> HIDE DEF x
  <2>4. /\ Counts(h, x) /\ Kept(v, x) /\ x.event = v.event /\ x.should = v.should
        /\ x.state = s /\ x.type = t /\ x.attempt = a
    BY <2>3, <2>x, RestatedProperties
  <2> QED
    BY <1>4, <1>streak, <2>1, <2>2, <2>3, <2>4, <1>finish
<1> QED
  BY <1>1, <1>2, <1>3, <1>4 DEF Process

-----------------------------------------------------------------------------
(* The invariant: what holds of a host with the fields v, whose last k       *)
(* results were problems, whose record is clean if c, with the checks in     *)
(* flight of bag, and which waits for its parents if parked.                 *)

\* The count of attempts says how many problems there were, if the record is
\* clean: it is counted up when the check starts, and the retries go on.
Earned(h, v, k, bag, parked) ==
  /\ Solo(h, bag) /\ v.enabled
  /\ v.state = "UP" => (parked \/ k = 0) /\ (Of(bag, h) # {} => v.attempt = 1)
  /\ Retried(v) =>
       /\ k \in 1 .. Attempts[h] - 1
       /\ v.attempt = IF Of(bag, h) = {} THEN k ELSE k + 1
       /\ v.should /\ (v.event # "none" \/ v.executing)
  /\ v.state # "UP" /\ v.type = "HARD" =>
       /\ k = Attempts[h] /\ v.attempt \in {1, Attempts[h]}
       /\ Of(bag, h) # {} => v.attempt = 1

\* A regular check is queued, or comes back through the one in flight.
Continued(h, v, bag) ==
  v.regular /\ v.enabled /\ v.event = "none" =>
    v.executing /\ (Of(bag, h) = {} \/ v.again)

Good(h, v, k, c, bag, parked) ==
  /\ Counts(h, v) /\ k \in 0 .. Attempts[h] /\ c \in BOOLEAN
  /\ v.regular /\ v.enabled => v.should
  /\ parked \/ Continued(h, v, bag)
  /\ parked => v.state = "UP" /\ v.type = "HARD" /\ Attempts[h] = 1 /\ k = 1
  /\ c => Earned(h, v, k, bag, parked)

HostOK(h) == Good(h, hosts[h], streak[h], clean[h], flights, Parked(h, calls))

Bare == /\ hosts \in [Hosts -> Host] /\ Flying(flights)
        /\ calls \in Seq(Frame) /\ Stack(calls)
        /\ alive \in [Hosts -> BOOLEAN] /\ clean \in [Hosts -> BOOLEAN]
        /\ streak \in [Hosts -> Nat] /\ disturbances \in 0 .. MaxDisturbances
IInv == Bare /\ \A h \in Hosts : HostOK(h)

LEMMA InvTypeOK == IInv => TypeOK
BY DEF IInv, Bare, HostOK, Good, Counts, Flying, TypeOK

\* A step that is about one host.
LEMMA OneHost ==
  ASSUME IInv, NEW h \in Hosts, NEW w, NEW k, NEW c,
         hosts' = [hosts EXCEPT ![h] = w],
         streak' = [streak EXCEPT ![h] = k],
         clean' = [clean EXCEPT ![h] = c],
         Flying(flights'), \A g : g # h => SameChecks(g, flights, flights'),
         calls' \in Seq(Frame), Stack(calls'),
         \A g : g # h => (Parked(g, calls') <=> Parked(g, calls)),
         alive' \in [Hosts -> BOOLEAN], disturbances' \in 0 .. MaxDisturbances,
         Good(h, w, k, c, flights', Parked(h, calls'))
  PROVE  IInv'
<1>0. w \in Host /\ k \in Nat /\ c \in BOOLEAN
  BY HostChecksAssumption DEF Good, Counts
<1>1. /\ hosts' \in [Hosts -> Host] /\ streak' \in [Hosts -> Nat]
      /\ clean' \in [Hosts -> BOOLEAN]
      /\ hosts'[h] = w /\ streak'[h] = k /\ clean'[h] = c
      /\ \A g \in Hosts : g # h => /\ hosts'[g] = hosts[g] /\ streak'[g] = streak[g]
                                   /\ clean'[g] = clean[g]
  BY <1>0 DEF IInv, Bare
<1>2. Bare'
  BY <1>1 DEF Bare
<1>3. HostOK(h)'
  BY <1>1 DEF HostOK
<1>4. ASSUME NEW g \in Hosts, g # h
      PROVE  HostOK(g)'
  <2>1. /\ Good(g, hosts[g], streak[g], clean[g], flights, Parked(g, calls))
        /\ SameChecks(g, flights, flights')
        /\ Parked(g, calls') <=> Parked(g, calls)
    BY <1>4 DEF IInv, HostOK
  <2>2. Of(flights', g) = Of(flights, g) /\ (Solo(g, flights') <=> Solo(g, flights))
    BY <2>1, SameSolo DEF SameChecks
  <2>3. Good(g, hosts[g], streak[g], clean[g], flights', Parked(g, calls'))
    BY <2>1, <2>2 DEF Good, Continued, Earned
  <2> QED
    BY <1>1, <1>4, <2>3 DEF HostOK
<1> QED
  BY <1>2, <1>3, <1>4 DEF IInv

\* A step that leaves hosts, checks and histories alone.
LEMMA NoHost ==
  ASSUME IInv, UNCHANGED <<hosts, flights, history>>,
         calls' \in Seq(Frame), Stack(calls'),
         \A g : Parked(g, calls') <=> Parked(g, calls),
         alive' \in [Hosts -> BOOLEAN], disturbances' \in 0 .. MaxDisturbances
  PROVE  IInv'
<1>1. Bare'
  BY DEF IInv, Bare, history, Flying
<1>2. ASSUME NEW g \in Hosts
      PROVE  HostOK(g)'
  <2>1. Good(g, hosts[g], streak[g], clean[g], flights, Parked(g, calls))
    BY DEF IInv, HostOK
  <2>2. Good(g, hosts[g], streak[g], clean[g], flights, Parked(g, calls'))
    BY <2>1 DEF Good, Earned
  <2> QED
    BY <2>2 DEF HostOK, history
<1> QED
  BY <1>1, <1>2 DEF IInv

\* What is left alone is as good as replaced by itself.
LEMMA Unchanged ==
  ASSUME IInv, NEW h \in Hosts
  PROVE  /\ hosts = [hosts EXCEPT ![h] = hosts[h]]
         /\ streak = [streak EXCEPT ![h] = streak[h]]
         /\ clean = [clean EXCEPT ![h] = clean[h]]
         /\ Flying(flights) /\ \A g : SameChecks(g, flights, flights)
         /\ calls \in Seq(Frame) /\ Stack(calls)
         /\ alive \in [Hosts -> BOOLEAN] /\ disturbances \in 0 .. MaxDisturbances
         /\ Good(h, hosts[h], streak[h], clean[h], flights, Parked(h, calls))
         /\ hosts[h] \in Host /\ clean[h] \in BOOLEAN
BY DEF IInv, Bare, HostOK, SameChecks

LEMMA IdleApart == Idle => calls = <<>> /\ \A g : ~Parked(g, calls)
BY EmptyStack DEF Idle

-----------------------------------------------------------------------------
(* What results do to the invariant.                                         *)

\* The fields of a host whose check is being handled: they say how many
\* problems there were before it.
Due(h, v, k) ==
  /\ v.enabled
  /\ v.state = "UP" => k = 0
  /\ Retried(v) => /\ k \in 1 .. Attempts[h] - 1 /\ v.attempt = k + 1
                   /\ v.should
  /\ v.state # "UP" /\ v.type = "HARD" => k = Attempts[h]
  /\ v.state = "UP" \/ v.type = "HARD" => v.attempt = 1

LEMMA CountedProperties ==
  ASSUME NEW h \in Hosts, NEW k \in 0 .. Attempts[h], NEW new
  PROVE  Counted(h, k, new) \in 0 .. Attempts[h]
BY HostChecksAssumption DEF Counted

\* An active result that is handled to the end.
LEMMA AnsweredEarned ==
  ASSUME NEW h \in Hosts, NEW v, Counts(h, v), NEW k \in 0 .. Attempts[h],
         NEW new \in States, NEW reschedule \in BOOLEAN, NEW bag, NEW w,
         Handled(h, v, new, TRUE, reschedule, w),
         v.enabled = TRUE, Of(bag, h) = {}, new = "UP" \/ Due(h, v, k)
  PROVE  Earned(h, w, Counted(h, k, new), bag, FALSE)
<1>0. /\ Attempts[h] \in Nat /\ Attempts[h] > 0
      /\ k \in Nat /\ k <= Attempts[h]
      /\ v.attempt \in Nat /\ v.type \in {"HARD", "SOFT"}
      /\ w.type \in {"HARD", "SOFT"} /\ w.enabled = TRUE
  BY HostChecksAssumption DEF Counts, Handled, Kept, Host
<1>1. Solo(h, bag)
  BY DEF Solo
<1>2. CASE new = "UP"
  <2>1. w.state = "UP" /\ Counted(h, k, new) = 0
    BY <1>2 DEF Handled, Counted
  <2> QED
    BY <1>0, <1>1, <2>1 DEF Earned, Retried
<1>3. CASE new # "UP"
  <2> DEFINE n == Counted(h, k, new)
  <2>0. n = IF k < Attempts[h] THEN k + 1 ELSE k
    BY <1>3 DEF Counted
  <2>1. Due(h, v, k)
    BY <1>3
  <2>2. /\ w.state # "UP" /\ w.attempt = v.attempt
        /\ IF v.state = "UP" THEN Attempts[h] > 1 /\ w.type = "SOFT"
           ELSE w.type = "HARD" <=> v.attempt \in {1, Attempts[h]}
        /\ Retried(w) /\ (v.state = "UP" \/ v.type = "SOFT")
             => w.should /\ w.event # "none"
    BY <1>3 DEF Handled
  <2> HIDE DEF n
  <2>3. CASE v.state = "UP"
    <3>1. n = 1 /\ w.attempt = 1 /\ w.type = "SOFT" /\ Attempts[h] > 1
      BY <1>0, <2>0, <2>1, <2>2, <2>3 DEF Due
    <3>2. w.should /\ w.event # "none"
      BY <2>2, <2>3, <3>1 DEF Retried
    <3>3. n \in 1 .. Attempts[h] - 1
      BY <1>0, <3>1
    <3> QED
      BY <1>0, <1>1, <2>2, <3>1, <3>2, <3>3 DEF Earned, n
  <2>4. CASE v.state # "UP" /\ v.type = "SOFT"
    <3>1. k \in 1 .. Attempts[h] - 1 /\ v.attempt = k + 1
      BY <2>1, <2>4 DEF Due, Retried
    <3>2. n = k + 1 /\ w.attempt = n /\ n > 1 /\ n <= Attempts[h] /\ n \in Nat
      BY <1>0, <2>0, <2>2, <3>1
    <3>3. w.type = "HARD" <=> n = Attempts[h]
      BY <2>2, <2>4, <3>2
    <3>4. w.type = "SOFT" => n \in 1 .. Attempts[h] - 1
      BY <1>0, <3>2, <3>3
    <3>5. w.type = "SOFT" => w.should /\ w.event # "none"
      BY <2>2, <2>4 DEF Retried
    <3> QED
      BY <1>0, <1>1, <2>2, <3>2, <3>3, <3>4, <3>5 DEF Earned, Retried, n
  <2>5. CASE v.state # "UP" /\ v.type = "HARD"
    <3>1. k = Attempts[h] /\ v.attempt = 1
      BY <2>1, <2>5 DEF Due
    <3>2. n = Attempts[h] /\ w.attempt = 1 /\ w.type = "HARD"
      BY <1>0, <2>0, <2>2, <2>5, <3>1
    <3> QED
      BY <1>0, <1>1, <2>2, <3>2 DEF Earned, Retried, n
  <2> QED
    BY <1>0, <2>3, <2>4, <2>5
<1> QED
  BY <1>2, <1>3

LEMMA Answered ==
  ASSUME NEW h \in Hosts, NEW v, Counts(h, v), NEW k \in 0 .. Attempts[h],
         NEW new \in States, NEW reschedule \in BOOLEAN, NEW bag, NEW w,
         Counts(h, w), NEW c \in BOOLEAN,
         c => v.enabled = TRUE /\ Of(bag, h) = {} /\ (new = "UP" \/ Due(h, v, k)),
         v.regular /\ v.enabled => v.should,
         reschedule \/ Continued(h, v, bag)
  PROVE  /\ Handled(h, v, new, TRUE, reschedule, w)
              => Good(h, w, Counted(h, k, new), c, bag, FALSE)
         /\ AtOnce(h, v, new, TRUE, w)
              => Good(h, w, Counted(h, k, new), c, bag, TRUE)
<1>0. /\ Attempts[h] \in Nat /\ Attempts[h] > 0
      /\ Counted(h, k, new) \in 0 .. Attempts[h]
  BY HostChecksAssumption, CountedProperties
<1>1. ASSUME Handled(h, v, new, TRUE, reschedule, w)
      PROVE  Good(h, w, Counted(h, k, new), c, bag, FALSE)
  <2>1. w.regular /\ w.enabled => w.should
    BY <1>1 DEF Handled, Kept
  <2>2. Continued(h, w, bag)
    BY <1>1 DEF Handled, Kept, Continued
  <2>3. c => Earned(h, w, Counted(h, k, new), bag, FALSE)
    BY <1>1, AnsweredEarned
  <2> QED
    BY <1>0, <2>1, <2>2, <2>3 DEF Good
<1>2. ASSUME AtOnce(h, v, new, TRUE, w)
      PROVE  Good(h, w, Counted(h, k, new), c, bag, TRUE)
  <2>1. /\ new # "UP" /\ v.state = "UP" /\ Attempts[h] = 1
        /\ w = [v EXCEPT !.type = "HARD"] /\ v \in Host
    BY <1>2 DEF AtOnce, Counts
  <2>2. /\ w.type = "HARD" /\ w.state = "UP" /\ w.regular = v.regular
        /\ w.enabled = v.enabled /\ w.should = v.should
    BY <2>1 DEF Host
  <2>3. Counted(h, k, new) = 1
    BY <2>1 DEF Counted
  <2>4. w.attempt = 1
    BY <2>1 DEF Counts
  <2>5. c => Earned(h, w, Counted(h, k, new), bag, TRUE)
    BY <2>2, <2>4 DEF Earned, Retried, Solo
  <2> QED
    BY <1>0, <2>1, <2>2, <2>3, <2>5 DEF Good
<1> QED
  BY <1>1, <1>2

-----------------------------------------------------------------------------
(* The steps that handle results.                                            *)

LEMMA FlightProperties ==
  ASSUME IInv, NEW h \in Hosts, NEW f \in InFlight(h)
  PROVE  /\ f \in BagToSet(flights) /\ f.host = h /\ f \in Of(flights, h)
         /\ f \in Flight /\ f.fresh \in BOOLEAN /\ f.reschedule \in BOOLEAN
         /\ f.answer \in {None, "UP", "DOWN"}
BY DEF IInv, Bare, Flying, InFlight, Of, Flight

\* The host of a check in flight that is being handled.
LEMMA EarnedDue ==
  ASSUME NEW h \in Hosts, NEW v, Counts(h, v), NEW k, NEW bag,
         Earned(h, v, k, bag, FALSE), Of(bag, h) # {}
  PROVE  Due(h, v, k)
BY DEF Earned, Due, Counts, Host, States

Marked(h, c) == clean' = [clean EXCEPT ![h] = c]
\* A step that handles an active result of h.
LEMMA ActiveInv ==
  ASSUME IInv, NEW h \in Hosts, NEW v, Counts(h, v), NEW new \in States,
         NEW reschedule \in BOOLEAN, NEW rest, Suspended(rest), Above(h, rest),
         \A g : Parked(g, rest) <=> Parked(g, calls),
         Process(h, v, new, TRUE, reschedule, rest),
         NEW c \in BOOLEAN, Marked(h, c),
         Flying(flights'), \A g : g # h => SameChecks(g, flights, flights'),
         alive' \in [Hosts -> BOOLEAN], disturbances' \in 0 .. MaxDisturbances,
         c => v.enabled = TRUE /\ Of(flights', h) = {} /\ (new = "UP" \/ Due(h, v, streak[h])),
         v.regular /\ v.enabled => v.should,
         reschedule \/ Continued(h, v, flights')
  PROVE  IInv'
<1> DEFINE active == TRUE
           k == streak[h]
<1>1. active \in BOOLEAN /\ Process(h, v, new, active, reschedule, rest)
  OBVIOUS
<1>2. k \in 0 .. Attempts[h]
  BY DEF IInv, HostOK, Good
<1> HIDE DEF active, k
<1>3. /\ streak' = [streak EXCEPT ![h] = Counted(h, streak[h], new)]
      /\ calls' \in Seq(Frame) /\ Stack(calls')
      /\ \E w : /\ hosts' = [hosts EXCEPT ![h] = w] /\ Counts(h, w)
                /\ \/ /\ Handled(h, v, new, active, reschedule, w)
                      /\ \A g : Parked(g, calls') <=> Parked(g, rest)
                   \/ /\ AtOnce(h, v, new, active, w)
                      /\ \A g : Parked(g, calls') <=> g = h \/ Parked(g, rest)
  BY <1>1, ProcessProperties
<1>4. PICK w : /\ hosts' = [hosts EXCEPT ![h] = w] /\ Counts(h, w)
               /\ \/ /\ Handled(h, v, new, active, reschedule, w)
                     /\ \A g : Parked(g, calls') <=> Parked(g, rest)
                  \/ /\ AtOnce(h, v, new, active, w)
                     /\ \A g : Parked(g, calls') <=> g = h \/ Parked(g, rest)
  BY <1>3
<1>5. /\ Handled(h, v, new, TRUE, reschedule, w)
           => Good(h, w, Counted(h, k, new), c, flights', FALSE)
      /\ AtOnce(h, v, new, TRUE, w)
           => Good(h, w, Counted(h, k, new), c, flights', TRUE)
  BY <1>2, <1>4, Answered DEF k
<1>6. \A g : g # h => (Parked(g, calls') <=> Parked(g, calls))
  BY <1>4
<1>7. ~Parked(h, rest)
  BY AboveApart
<1>8. Good(h, w, Counted(h, k, new), c, flights', Parked(h, calls'))
  <2>1. CASE Handled(h, v, new, active, reschedule, w) /\ ~Parked(h, calls')
    BY <1>5, <2>1 DEF Good, Earned, active
  <2>2. CASE AtOnce(h, v, new, active, w) /\ Parked(h, calls')
    BY <1>5, <2>2 DEF Good, Earned, active
  <2> QED
    BY <1>4, <1>7, <2>1, <2>2
<1> QED
  BY <1>3, <1>4, <1>6, <1>8, OneHost DEF k, Marked

LEMMA ResultInv ==
  ASSUME IInv, NEW h \in Hosts, NEW f \in InFlight(h), Result(f)
  PROVE  IInv'
<1> DEFINE u == hosts[h]
           v == [u EXCEPT !.freshening = @ /\ ~f.fresh, !.executing = FALSE,
                          !.again = FALSE, !.recent = TRUE]
           again == f.reschedule \/ u.again
           c == IF f.answer = "UP" THEN v.enabled /\ Of(flights', h) = {} ELSE clean[h]
           k == streak[h]
<1>1. /\ f \in BagToSet(flights) /\ f.host = h /\ f \in Of(flights, h)
      /\ f \in Flight /\ f.fresh \in BOOLEAN /\ f.reschedule \in BOOLEAN
      /\ f.answer \in {None, "UP", "DOWN"}
  BY FlightProperties
<1>2. /\ Idle /\ f.answer # None
      /\ flights' = BagRemove(flights, f)
      /\ Process(h, v, f.answer, TRUE, again, <<>>)
      /\ clean' = [clean EXCEPT ![h] = c]
      /\ alive' = alive /\ disturbances' = disturbances
  BY <1>1 DEF Result, network
<1>3. /\ hosts = [hosts EXCEPT ![h] = hosts[h]]
      /\ streak = [streak EXCEPT ![h] = streak[h]]
      /\ clean = [clean EXCEPT ![h] = clean[h]]
      /\ Flying(flights) /\ \A g : SameChecks(g, flights, flights)
      /\ calls \in Seq(Frame) /\ Stack(calls)
      /\ alive \in [Hosts -> BOOLEAN] /\ disturbances \in 0 .. MaxDisturbances
      /\ Good(h, hosts[h], streak[h], clean[h], flights, Parked(h, calls))
      /\ hosts[h] \in Host /\ clean[h] \in BOOLEAN
  BY Unchanged
<1>4. calls = <<>> /\ \A g : ~Parked(g, calls)
  BY <1>2, IdleApart
<1>5. /\ Flying(flights')
      /\ Of(flights', f.host) \subseteq Of(flights, f.host)
      /\ Solo(f.host, flights) => Of(flights', f.host) = {}
      /\ \A g : g # f.host => SameChecks(g, flights, flights')
  BY <1>1, <1>2, <1>3, RemoveFlight
<1>6. /\ Counts(h, u) /\ k \in 0 .. Attempts[h]
      /\ u.regular /\ u.enabled => u.should
      /\ Continued(h, u, flights)
      /\ clean[h] => Earned(h, u, k, flights, FALSE)
  BY <1>3, <1>4 DEF Good, Earned
<1>7. clean[h] => Due(h, u, k) /\ Of(flights', h) = {} /\ u.enabled = TRUE
  BY <1>1, <1>5, <1>6, EarnedDue DEF Earned
<1>8. v \in Host /\ again \in BOOLEAN
  BY <1>1, <1>3, ZenonT(60) DEF Host
<1>9. /\ v.state = u.state /\ v.type = u.type /\ v.attempt = u.attempt
      /\ v.regular = u.regular /\ v.enabled = u.enabled /\ v.should = u.should
      /\ v.event = u.event
  BY <1>3 DEF Host
<1> HIDE DEF u, v
<1>10. Counts(h, v) /\ (v.regular /\ v.enabled => v.should)
  BY <1>6, <1>8, <1>9 DEF Counts
<1>11. again \/ Continued(h, v, flights')
  BY <1>1, <1>6, <1>9 DEF Continued
<1>12. Due(h, u, k) => Due(h, v, k)
  BY <1>9 DEF Due, Retried
<1>13. /\ c \in BOOLEAN
       /\ c => /\ v.enabled = TRUE /\ Of(flights', h) = {}
               /\ f.answer = "UP" \/ Due(h, v, k)
  BY <1>3, <1>7, <1>8, <1>9, <1>12 DEF Host
<1>14. f.answer \in States /\ Suspended(<<>>) /\ Above(h, <<>>)
  BY <1>1, <1>2, EmptyStack, EmptySeq DEF States, Above
<1> DEFINE empty == <<>>
           new == f.answer
<1>15. /\ Suspended(empty) /\ Above(h, empty)
       /\ \A g : Parked(g, empty) <=> Parked(g, calls)
       /\ Process(h, v, new, TRUE, again, empty)
       /\ new \in States /\ Marked(h, c)
       /\ c => v.enabled = TRUE /\ Of(flights', h) = {} /\ (new = "UP" \/ Due(h, v, streak[h]))
  BY <1>2, <1>4, <1>13, <1>14 DEF Marked
<1>16. \A g : g # h => SameChecks(g, flights, flights')
  BY <1>1, <1>5
<1> HIDE DEF c, again, k, empty, new
<1> QED
  BY <1>2, <1>3, <1>5, <1>8, <1>10, <1>11, <1>13, <1>15, <1>16, ActiveInv

\* A check that a handler waits for.
LEMMA SyncInv ==
  ASSUME IInv, NEW h \in Hosts, NEW rest, Suspended(rest), Above(h, rest),
         \A g : Parked(g, rest) <=> Parked(g, calls), Sync(h, rest),
         alive' \in [Hosts -> BOOLEAN], disturbances' \in 0 .. MaxDisturbances
  PROVE  IInv'
<1> DEFINE u == hosts[h]
           a == Adjusted(h, u)
           v == [a EXCEPT !.freshening = FALSE, !.recent = TRUE]
           new == IF Responds[h] THEN "UP" ELSE "DOWN"
           c == InFlight(h) = {} /\ (clean[h] \/ Responds[h])
           reschedule == FALSE
<1>1. /\ Viable(u) /\ Process(h, v, new, TRUE, reschedule, rest)
      /\ clean' = [clean EXCEPT ![h] = c] /\ flights' = flights
  BY DEF Sync
<1>2. /\ hosts = [hosts EXCEPT ![h] = hosts[h]]
      /\ streak = [streak EXCEPT ![h] = streak[h]]
      /\ clean = [clean EXCEPT ![h] = clean[h]]
      /\ Flying(flights) /\ \A g : SameChecks(g, flights, flights)
      /\ calls \in Seq(Frame) /\ Stack(calls)
      /\ alive \in [Hosts -> BOOLEAN] /\ disturbances \in 0 .. MaxDisturbances
      /\ Good(h, hosts[h], streak[h], clean[h], flights, Parked(h, calls))
      /\ hosts[h] \in Host /\ clean[h] \in BOOLEAN
  BY Unchanged
<1>3. ~Parked(h, rest)
  BY AboveApart
<1>4. /\ Counts(h, u) /\ (u.regular /\ u.enabled => u.should)
      /\ Continued(h, u, flights) /\ u.enabled
      /\ clean[h] => Earned(h, u, streak[h], flights, FALSE)
  BY <1>1, <1>2, <1>3 DEF Good, Earned, Viable
<1>5. /\ Counts(h, a) /\ a = [u EXCEPT !.attempt = a.attempt]
      /\ a.attempt = IF u.type = "HARD" \/ u.state = "UP" THEN 1
                     ELSE IF u.attempt < Attempts[h] THEN u.attempt + 1
                     ELSE u.attempt
  BY <1>4, AdjustedProperties
<1> HIDE DEF a
<1>6. /\ a.state = u.state /\ a.type = u.type
      /\ a.regular = u.regular /\ a.enabled = u.enabled /\ a.should = u.should
      /\ a.event = u.event /\ a.executing = u.executing /\ a.again = u.again
  BY <1>2, <1>5 DEF Host
<1>7. v \in Host
  BY <1>5 DEF Counts, Host
<1>8. /\ v.state = a.state /\ v.type = a.type /\ v.attempt = a.attempt
      /\ v.regular = a.regular /\ v.enabled = a.enabled /\ v.should = a.should
  BY <1>5 DEF Counts, Host
<1>9. v.event = a.event /\ v.executing = a.executing /\ v.again = a.again
  BY <1>5 DEF Counts, Host
<1>10. Viable(u) => u.enabled = TRUE
  BY <1>2 DEF Viable, Host
<1> HIDE DEF v, u
<1>11. /\ Counts(h, v) /\ (v.regular /\ v.enabled => v.should)
       /\ Continued(h, v, flights)
  BY <1>4, <1>5, <1>6, <1>7, <1>8, <1>9 DEF Counts, Continued
<1>12. v.enabled = TRUE
  BY <1>1, <1>6, <1>8, <1>10
<1>13. ASSUME clean[h], Of(flights, h) = {}
       PROVE  Due(h, v, streak[h])
  <2>1. Earned(h, u, streak[h], flights, FALSE)
    BY <1>4, <1>13
  <2>2. /\ u.state = "UP" => streak[h] = 0
        /\ Retried(u) => /\ streak[h] \in 1 .. Attempts[h] - 1
                         /\ u.attempt = streak[h] /\ u.should
        /\ u.state # "UP" /\ u.type = "HARD" => streak[h] = Attempts[h]
    BY <1>13, <2>1 DEF Earned
  <2>3. /\ Attempts[h] \in Nat
        /\ Retried(u) => u.type = "SOFT" /\ u.state # "UP"
    BY HostChecksAssumption DEF Retried
  <2>4. Retried(u) => v.attempt = streak[h] + 1
    BY <1>5, <1>8, <2>2, <2>3
  <2>5. v.state = "UP" \/ v.type = "HARD" => v.attempt = 1
    BY <1>5, <1>6, <1>8
  <2> QED
    BY <1>6, <1>8, <1>12, <2>2, <2>4, <2>5 DEF Due, Retried
<1>14. /\ c => v.enabled = TRUE /\ Of(flights', h) = {}
               /\ (new = "UP" \/ Due(h, v, streak[h]))
       /\ c \in BOOLEAN /\ Marked(h, c)
  <2>1. Of(flights', h) = InFlight(h) /\ InFlight(h) = Of(flights, h)
    BY <1>1 DEF InFlight
  <2>2. c => Of(flights', h) = {} /\ (new = "UP" \/ Due(h, v, streak[h]))
    BY <1>13, <2>1
  <2>3. c \in BOOLEAN /\ Marked(h, c)
    BY <1>1 DEF Marked
  <2> HIDE DEF c
  <2> QED
    BY <1>12, <2>2, <2>3
<1>15. new \in States /\ reschedule \in BOOLEAN
  BY DEF States
<1>16. Continued(h, v, flights') /\ Flying(flights')
  BY <1>1, <1>2, <1>11
<1>17. \A g : g # h => SameChecks(g, flights, flights')
  BY <1>1, <1>2
<1>18. Process(h, v, new, TRUE, reschedule, rest)
  BY <1>1
<1> HIDE DEF c, new, reschedule
<1> QED
  BY <1>11, <1>14, <1>15, <1>16, <1>17, <1>18, ActiveInv

\* A passive result: it may find checks in flight.
LEMMA PassiveInv ==
  ASSUME IInv, NEW h \in Hosts, NEW new \in States, Passive(h, new)
  PROVE  IInv'
<1> DEFINE u == hosts[h]
           v == [u EXCEPT !.again = FALSE, !.recent = TRUE]
           again == u.again
           c == new = "UP" /\ v.enabled /\ InFlight(h) = {}
           k == Counted(h, streak[h], new)
           active == FALSE
           empty == <<>>
<1>1. /\ Idle /\ Process(h, v, new, active, again, empty)
      /\ clean' = [clean EXCEPT ![h] = c] /\ flights' = flights /\ alive' = alive
      /\ disturbances < MaxDisturbances /\ disturbances' = disturbances + 1
  BY DEF Passive, Disturb
<1>2. /\ hosts = [hosts EXCEPT ![h] = hosts[h]]
      /\ streak = [streak EXCEPT ![h] = streak[h]]
      /\ clean = [clean EXCEPT ![h] = clean[h]]
      /\ Flying(flights) /\ \A g : SameChecks(g, flights, flights)
      /\ calls \in Seq(Frame) /\ Stack(calls)
      /\ alive \in [Hosts -> BOOLEAN] /\ disturbances \in 0 .. MaxDisturbances
      /\ Good(h, hosts[h], streak[h], clean[h], flights, Parked(h, calls))
      /\ hosts[h] \in Host /\ clean[h] \in BOOLEAN
  BY Unchanged
<1>3. calls = <<>> /\ \A g : ~Parked(g, calls)
  BY <1>1, IdleApart
<1>4. /\ Counts(h, u) /\ (u.regular /\ u.enabled => u.should)
      /\ Continued(h, u, flights) /\ streak[h] \in 0 .. Attempts[h]
  BY <1>2, <1>3 DEF Good
<1>5. v \in Host /\ again \in BOOLEAN /\ u.enabled \in BOOLEAN
  BY <1>2 DEF Host
<1>6. /\ v.attempt = u.attempt
      /\ v.regular = u.regular /\ v.enabled = u.enabled /\ v.should = u.should
      /\ v.event = u.event /\ v.executing = u.executing
  BY <1>2 DEF Host
<1> HIDE DEF v, u
<1>7. /\ Counts(h, v) /\ (v.regular /\ v.enabled => v.should)
      /\ again \/ Continued(h, v, flights)
  BY <1>4, <1>5, <1>6 DEF Counts, Continued
<1>8. /\ active \in BOOLEAN /\ Suspended(empty) /\ Above(h, empty)
      /\ \A g : ~Parked(g, empty)
  BY EmptyStack, EmptySeq DEF Above
<1>9. disturbances' \in 0 .. MaxDisturbances
  BY <1>1, <1>2, HostChecksAssumption
<1>10. c \in BOOLEAN /\ (c => new = "UP" /\ v.enabled = TRUE /\ Of(flights, h) = {})
  BY <1>5, <1>6 DEF InFlight
<1>11. k \in 0 .. Attempts[h] /\ (new = "UP" => k = 0)
  BY <1>4, CountedProperties DEF Counted
<1> HIDE DEF active, empty, c, again
<1>12. /\ streak' = [streak EXCEPT ![h] = k]
       /\ calls' \in Seq(Frame) /\ Stack(calls')
       /\ \E w : /\ hosts' = [hosts EXCEPT ![h] = w] /\ Counts(h, w)
                 /\ \/ /\ Handled(h, v, new, active, again, w)
                       /\ \A g : Parked(g, calls') <=> Parked(g, empty)
                    \/ /\ AtOnce(h, v, new, active, w)
                       /\ \A g : Parked(g, calls') <=> g = h \/ Parked(g, empty)
  BY <1>1, <1>5, <1>7, <1>8, ProcessProperties
<1>13. PICK w : /\ hosts' = [hosts EXCEPT ![h] = w] /\ Counts(h, w)
                /\ Handled(h, v, new, active, again, w)
                /\ \A g : Parked(g, calls') <=> Parked(g, empty)
  BY <1>12 DEF AtOnce, active
<1> HIDE DEF k
<1>14. (w.regular /\ w.enabled => w.should) /\ Continued(h, w, flights)
  BY <1>7, <1>13 DEF Handled, Kept, Continued
<1>15. c => Earned(h, w, k, flights, FALSE)
  <2> SUFFICES ASSUME c
               PROVE  Earned(h, w, k, flights, FALSE)
    OBVIOUS
  <2>1. /\ w.state = "UP" /\ w.enabled = TRUE /\ Of(flights, h) = {} /\ k = 0
    BY <1>10, <1>11, <1>13 DEF Handled, Kept
  <2> QED
    BY <2>1 DEF Earned, Retried, Solo
<1>16. Good(h, w, k, c, flights, Parked(h, calls'))
  BY <1>8, <1>10, <1>11, <1>13, <1>14, <1>15 DEF Good, Earned
<1>17. /\ \A g : g # h => (Parked(g, calls') <=> Parked(g, calls))
       /\ Flying(flights') /\ \A g : g # h => SameChecks(g, flights, flights')
       /\ alive' \in [Hosts -> BOOLEAN]
       /\ Good(h, w, k, c, flights', Parked(h, calls'))
  BY <1>1, <1>2, <1>3, <1>8, <1>13, <1>16
<1> QED
  BY <1>1, <1>9, <1>12, <1>13, <1>17, OneHost

\* The parents have been checked, if need be: the host is down.
LEMMA ConcludeInv ==
  ASSUME IInv, Conclude
  PROVE  IInv'
<1> DEFINE h == Top.host
           u == hosts[h]
           s == IF Top.verdict = "UP" \/ Parents[h] = <<>> THEN "DOWN" ELSE "UNREACHABLE"
           x == [u EXCEPT !.state = s]
           rest == Tail(calls)
           N == Reachable(ChildrenOf(h))
           reschedule == TRUE
<1>1. /\ calls # <<>> /\ Top.at = "parents"
      /\ Finish(h, x, reschedule, N, rest)
      /\ flights' = flights /\ streak' = streak /\ clean' = clean
      /\ alive' = alive /\ disturbances' = disturbances
  BY DEF Conclude, history, network
<1>2. Stack(calls)
  BY DEF IInv, Bare
<1>3. /\ Top \in Frame /\ Suspended(Tail(calls)) /\ Stack(Tail(calls))
      /\ Tail(calls) \in Seq(Frame)
      /\ Sound(Top) /\ (Top.at = "asked" => Asking(Top))
      /\ Waits(Top) => Above(Top.host, Tail(calls))
      /\ \A g : Parked(g, calls) <=>
                  (Waits(Top) /\ Top.host = g) \/ Parked(g, Tail(calls))
  BY <1>1, <1>2, TopProperties
<1>4. h \in Hosts
  BY <1>3 DEF Frame
<1>5. Waits(Top)
  BY <1>1 DEF Waits
<1> HIDE DEF h
<1>6. /\ hosts = [hosts EXCEPT ![h] = hosts[h]]
      /\ streak = [streak EXCEPT ![h] = streak[h]]
      /\ clean = [clean EXCEPT ![h] = clean[h]]
      /\ Flying(flights) /\ \A g : SameChecks(g, flights, flights)
      /\ calls \in Seq(Frame) /\ Stack(calls)
      /\ alive \in [Hosts -> BOOLEAN] /\ disturbances \in 0 .. MaxDisturbances
      /\ Good(h, hosts[h], streak[h], clean[h], flights, Parked(h, calls))
      /\ hosts[h] \in Host /\ clean[h] \in BOOLEAN
  BY <1>4, Unchanged
<1>7. /\ Parked(h, calls) /\ ~Parked(h, rest) /\ Suspended(rest) /\ Above(h, rest)
      /\ \A g : g # h => (Parked(g, calls) <=> Parked(g, rest))
  <2>1. Suspended(rest) /\ Above(h, rest)
    BY <1>3, <1>5 DEF h
  <2>2. ~Parked(h, rest)
    BY <2>1, AboveApart
  <2> QED
    BY <1>3, <1>5, <2>1, <2>2 DEF h
<1>8. /\ Counts(h, u) /\ (u.regular /\ u.enabled => u.should)
      /\ u.type = "HARD" /\ Attempts[h] = 1 /\ streak[h] = 1
      /\ clean[h] => Solo(h, flights) /\ u.enabled
  BY <1>6, <1>7 DEF Good, Earned
<1>9. s \in States /\ s # "UP" /\ N \in SUBSET Hosts /\ reschedule \in BOOLEAN
  BY DEF States, Reachable, ChildrenOf
<1> HIDE DEF s, N
<1>10. x \in Host
  BY <1>6, <1>9 DEF Host
<1>11. /\ x.state = s /\ x.type = u.type /\ x.attempt = u.attempt
       /\ x.regular = u.regular /\ x.enabled = u.enabled /\ x.should = u.should
  BY <1>6 DEF Host
<1> HIDE DEF x, rest, reschedule
<1>12. /\ \E w \in Resumed(x, reschedule) : hosts' = [hosts EXCEPT ![h] = w]
       /\ calls' \in Seq(Frame) /\ Stack(calls')
       /\ \A g : Parked(g, calls') <=> Parked(g, rest)
  BY <1>1, <1>4, <1>7, <1>9, <1>10, FinishProperties, ZenonT(60)
<1>13. PICK w \in Resumed(x, reschedule) : hosts' = [hosts EXCEPT ![h] = w]
  BY <1>12
<1>14. /\ w \in Host
       /\ w = [x EXCEPT !.event = w.event, !.should = w.should]
       /\ x.event # "none" => w.event # "none"
       /\ w.should \in {x.should,
                        x.enabled /\ (x.regular \/ (x.type = "SOFT" /\ x.state # "UP"))}
       /\ reschedule /\ x.enabled /\ (x.regular \/ (x.type = "SOFT" /\ x.state # "UP"))
            => w.event # "none" /\ w.should
  BY <1>9, <1>10, <1>13, ResumedProperties
<1>15. /\ w.state = s /\ w.type = "HARD" /\ w.attempt = u.attempt
       /\ w.regular = x.regular /\ w.enabled = x.enabled
  BY <1>8, <1>10, <1>11, <1>14 DEF Host
<1>16. /\ w.regular /\ w.enabled => w.should
       /\ Continued(h, w, flights)
  BY <1>14, <1>15 DEF Continued, reschedule
<1>17. Counts(h, w) /\ w.attempt = 1
  BY <1>8, <1>14, <1>15 DEF Counts
<1>18. clean[h] => Earned(h, w, streak[h], flights, FALSE)
  BY <1>8, <1>9, <1>11, <1>15, <1>17 DEF Earned, Retried
<1>19. ~Parked(h, calls') /\ streak[h] \in 0 .. Attempts[h]
  BY <1>7, <1>8, <1>12
<1>20. Good(h, w, streak[h], clean[h], flights, Parked(h, calls'))
  BY <1>6, <1>16, <1>17, <1>18, <1>19 DEF Good, Earned
<1>21. /\ \A g : g # h => (Parked(g, calls') <=> Parked(g, calls))
       /\ Flying(flights') /\ \A g : g # h => SameChecks(g, flights, flights')
       /\ alive' \in [Hosts -> BOOLEAN] /\ disturbances' \in 0 .. MaxDisturbances
       /\ Good(h, w, streak[h], clean[h], flights', Parked(h, calls'))
       /\ streak' = [streak EXCEPT ![h] = streak[h]]
       /\ clean' = [clean EXCEPT ![h] = clean[h]]
  BY <1>1, <1>6, <1>7, <1>12, <1>20
<1> QED
  BY <1>4, <1>12, <1>13, <1>21, OneHost

-----------------------------------------------------------------------------
(* The steps that launch checks.                                             *)

Like(v, u) ==
  /\ v.state = u.state /\ v.type = u.type /\ v.attempt = u.attempt
  /\ v.regular = u.regular /\ v.enabled = u.enabled /\ v.should = u.should

LEMMA LaunchInv ==
  ASSUME IInv, NEW h \in Hosts, NEW v \in Host, Like(v, hosts[h]),
         NEW fresh \in BOOLEAN, NEW reschedule \in BOOLEAN,
         Launch(h, v, fresh, reschedule),
         v.again = TRUE \/ v.event # "none" \/ Parked(h, calls)
           \/ ~(v.regular /\ v.enabled),
         calls' \in Seq(Frame), Stack(calls'),
         \A g : Parked(g, calls') <=> Parked(g, calls),
         alive' \in [Hosts -> BOOLEAN], disturbances' \in 0 .. MaxDisturbances
  PROVE  IInv'
<1> DEFINE u == hosts[h]
           f == [host |-> h, fresh |-> fresh, reschedule |-> reschedule, answer |-> None]
           a == Adjusted(h, v)
           w == [a EXCEPT !.executing = TRUE]
           c == clean[h] /\ InFlight(h) = {}
           k == streak[h]
<1>1. /\ flights' = BagAdd(flights, f) /\ hosts' = [hosts EXCEPT ![h] = w]
      /\ clean' = [clean EXCEPT ![h] = c] /\ streak' = streak
  BY DEF Launch
<1>2. /\ hosts = [hosts EXCEPT ![h] = hosts[h]]
      /\ streak = [streak EXCEPT ![h] = streak[h]]
      /\ clean = [clean EXCEPT ![h] = clean[h]]
      /\ Flying(flights) /\ \A g : SameChecks(g, flights, flights)
      /\ calls \in Seq(Frame) /\ Stack(calls)
      /\ alive \in [Hosts -> BOOLEAN] /\ disturbances \in 0 .. MaxDisturbances
      /\ Good(h, hosts[h], streak[h], clean[h], flights, Parked(h, calls))
      /\ hosts[h] \in Host /\ clean[h] \in BOOLEAN
  BY Unchanged
<1>3. f \in Flight /\ f.host = h
  BY DEF Flight
<1> HIDE DEF f
<1>4. /\ Flying(flights')
      /\ Of(flights', f.host) = Of(flights, f.host) \cup {f}
      /\ Of(flights, f.host) = {} => Solo(f.host, flights')
      /\ \A g : g # f.host => SameChecks(g, flights, flights')
  BY <1>1, <1>2, <1>3, AddFlight
<1>5. /\ Of(flights', h) # {} /\ (Of(flights, h) = {} => Solo(h, flights'))
      /\ \A g : g # h => SameChecks(g, flights, flights')
  BY <1>3, <1>4
<1>6. /\ Counts(h, u) /\ k \in 0 .. Attempts[h]
      /\ u.regular /\ u.enabled => u.should
      /\ Parked(h, calls) =>
           u.state = "UP" /\ u.type = "HARD" /\ Attempts[h] = 1 /\ k = 1
      /\ clean[h] => Earned(h, u, k, flights, Parked(h, calls))
  BY <1>2 DEF Good
<1>7. Counts(h, v)
  BY <1>6 DEF Counts, Like
<1>8. /\ Counts(h, a) /\ a = [v EXCEPT !.attempt = a.attempt]
      /\ a.attempt = IF v.type = "HARD" \/ v.state = "UP" THEN 1
                     ELSE IF v.attempt < Attempts[h] THEN v.attempt + 1
                     ELSE v.attempt
  BY <1>7, AdjustedProperties
<1> HIDE DEF a
<1>9. /\ a.state = v.state /\ a.type = v.type
      /\ a.regular = v.regular /\ a.enabled = v.enabled /\ a.should = v.should
      /\ a.event = v.event /\ a.again = v.again
  BY <1>8 DEF Counts, Host
<1>10. w \in Host
  BY <1>8 DEF Counts, Host
<1>11. /\ w.state = a.state /\ w.type = a.type /\ w.attempt = a.attempt
       /\ w.regular = a.regular /\ w.enabled = a.enabled /\ w.should = a.should
  BY <1>8 DEF Counts, Host
<1>12. w.event = a.event /\ w.again = a.again /\ w.executing = TRUE
  BY <1>8 DEF Counts, Host
<1> HIDE DEF w
<1>13. Like(v, u)
  OBVIOUS
<1> HIDE DEF u
<1>14. /\ w.state = u.state /\ w.type = u.type /\ w.regular = u.regular
       /\ w.enabled = u.enabled /\ w.should = u.should
       /\ w.attempt = IF u.type = "HARD" \/ u.state = "UP" THEN 1
                      ELSE IF u.attempt < Attempts[h] THEN u.attempt + 1
                      ELSE u.attempt
  BY <1>8, <1>9, <1>11, <1>13 DEF Like
<1>15. Counts(h, w) /\ (w.regular /\ w.enabled => w.should)
  BY <1>6, <1>8, <1>10, <1>11, <1>14 DEF Counts
<1>16. Parked(h, calls) \/ Continued(h, w, flights')
  BY <1>9, <1>11, <1>12 DEF Continued
<1>17. c => Earned(h, w, k, flights', Parked(h, calls))
  <2> SUFFICES ASSUME c
               PROVE  Earned(h, w, k, flights', Parked(h, calls))
    OBVIOUS
  <2>1. /\ Solo(h, flights') /\ Of(flights', h) # {} /\ Of(flights, h) = {}
        /\ Earned(h, u, k, flights, Parked(h, calls))
    BY <1>5, <1>6 DEF InFlight
  <2>2. /\ Attempts[h] \in Nat /\ k \in Nat
        /\ Retried(u) => u.type = "SOFT" /\ u.state # "UP"
        /\ Retried(w) <=> Retried(u)
    BY <1>6, <1>14, HostChecksAssumption DEF Retried
  <2>3. u.enabled /\ (u.state = "UP" => Parked(h, calls) \/ k = 0)
    BY <2>1 DEF Earned
  <2>4. Retried(u) => /\ k \in 1 .. Attempts[h] - 1 /\ u.attempt = k /\ u.should
    BY <2>1 DEF Earned
  <2>5. u.state # "UP" /\ u.type = "HARD" => k = Attempts[h]
    BY <2>1 DEF Earned
  <2>6. Retried(u) => w.attempt = k + 1
    BY <1>14, <2>2, <2>4
  <2>7. u.state = "UP" \/ u.type = "HARD" => w.attempt = 1
    BY <1>14
  <2> QED
    BY <1>12, <1>14, <2>1, <2>2, <2>3, <2>4, <2>5, <2>6, <2>7 DEF Earned
<1>18. c \in BOOLEAN
  BY <1>2
<1> HIDE DEF c
<1>19. Good(h, w, k, c, flights', Parked(h, calls))
  BY <1>6, <1>14, <1>15, <1>16, <1>17, <1>18 DEF Good
<1>20. Good(h, w, k, c, flights', Parked(h, calls'))
  BY <1>19 DEF Good, Earned
<1>21. streak' = [streak EXCEPT ![h] = k]
  BY <1>1, <1>2
<1> QED
  BY <1>1, <1>4, <1>5, <1>20, <1>21, OneHost

LEMMA RunEventInv ==
  ASSUME IInv, NEW h \in Hosts, RunEvent(h)
  PROVE  IInv'
<1> DEFINE u == hosts[h]
           v == [u EXCEPT !.event = "none", !.again = TRUE]
           fresh == u.event = "fresh"
           reschedule == TRUE
<1>1. /\ Launch(h, v, fresh, reschedule)
      /\ calls' = calls /\ alive' = alive /\ disturbances' = disturbances
  BY DEF RunEvent, network
<1>2. /\ hosts = [hosts EXCEPT ![h] = hosts[h]]
      /\ streak = [streak EXCEPT ![h] = streak[h]]
      /\ clean = [clean EXCEPT ![h] = clean[h]]
      /\ Flying(flights) /\ \A g : SameChecks(g, flights, flights)
      /\ calls \in Seq(Frame) /\ Stack(calls)
      /\ alive \in [Hosts -> BOOLEAN] /\ disturbances \in 0 .. MaxDisturbances
      /\ Good(h, hosts[h], streak[h], clean[h], flights, Parked(h, calls))
      /\ hosts[h] \in Host /\ clean[h] \in BOOLEAN
  BY Unchanged
<1>3. v \in Host
  BY <1>2 DEF Host, Events
<1>4. Like(v, u) /\ v.again = TRUE
  BY <1>2 DEF Like, Host
<1>5. fresh \in BOOLEAN /\ reschedule \in BOOLEAN
  OBVIOUS
<1>6. /\ calls' \in Seq(Frame) /\ Stack(calls')
      /\ \A g : Parked(g, calls') <=> Parked(g, calls)
      /\ alive' \in [Hosts -> BOOLEAN] /\ disturbances' \in 0 .. MaxDisturbances
  BY <1>1, <1>2
<1> HIDE DEF v, fresh, reschedule
<1> QED
  BY <1>1, <1>3, <1>4, <1>5, <1>6, LaunchInv

\* A check of a host as it is, none being under way.
LEMMA LaunchAside ==
  ASSUME IInv, NEW h \in Hosts, Launch(h, hosts[h], FALSE, FALSE), ~hosts[h].executing,
         calls' \in Seq(Frame), Stack(calls'),
         \A g : Parked(g, calls') <=> Parked(g, calls),
         alive' \in [Hosts -> BOOLEAN], disturbances' \in 0 .. MaxDisturbances
  PROVE  IInv'
<1> DEFINE v == hosts[h]
           fresh == FALSE
           reschedule == FALSE
<1>1. Launch(h, v, fresh, reschedule)
  OBVIOUS
<1>2. v \in Host /\ Like(v, v) /\ fresh \in BOOLEAN /\ reschedule \in BOOLEAN
  BY Unchanged DEF Like
<1>3. v.again = TRUE \/ v.event # "none" \/ Parked(h, calls)
           \/ ~(v.regular /\ v.enabled)
  BY DEF IInv, HostOK, Good, Continued
<1> HIDE DEF fresh, reschedule
<1> QED
  BY <1>1, <1>2, <1>3, LaunchInv

-----------------------------------------------------------------------------
(* The other steps leave states and attempts alone.                          *)

LEMMA QuietInv ==
  ASSUME IInv, NEW h \in Hosts, NEW w \in Host, NEW c \in BOOLEAN, Marked(h, c),
         hosts' = [hosts EXCEPT ![h] = w],
         w.state = hosts[h].state, w.type = hosts[h].type,
         w.attempt = hosts[h].attempt,
         UNCHANGED <<calls, streak>>,
         alive' \in [Hosts -> BOOLEAN], disturbances' \in 0 .. MaxDisturbances,
         Flying(flights'), \A g : g # h => SameChecks(g, flights, flights'),
         w.regular /\ w.enabled => w.should,
         Parked(h, calls) \/ Continued(h, w, flights'),
         c => /\ clean[h] /\ Like(w, hosts[h])
              /\ Retried(w) => w.event # "none" \/ w.executing
              /\ Solo(h, flights) => Solo(h, flights')
              /\ Of(flights, h) = {} <=> Of(flights', h) = {}
  PROVE  IInv'
<1> DEFINE u == hosts[h]
           k == streak[h]
<1>2. /\ hosts = [hosts EXCEPT ![h] = hosts[h]]
      /\ streak = [streak EXCEPT ![h] = streak[h]]
      /\ clean = [clean EXCEPT ![h] = clean[h]]
      /\ Flying(flights) /\ \A g : SameChecks(g, flights, flights)
      /\ calls \in Seq(Frame) /\ Stack(calls)
      /\ alive \in [Hosts -> BOOLEAN] /\ disturbances \in 0 .. MaxDisturbances
      /\ Good(h, hosts[h], streak[h], clean[h], flights, Parked(h, calls))
      /\ hosts[h] \in Host /\ clean[h] \in BOOLEAN
  BY Unchanged
<1>3. Counts(h, w) /\ k \in 0 .. Attempts[h]
  BY <1>2 DEF Good, Counts
<1>4. Parked(h, calls) =>
        w.state = "UP" /\ w.type = "HARD" /\ Attempts[h] = 1 /\ k = 1
  BY <1>2 DEF Good
<1>5. c => Earned(h, w, k, flights', Parked(h, calls))
  <2> SUFFICES ASSUME c
               PROVE  Earned(h, w, k, flights', Parked(h, calls))
    OBVIOUS
  <2>1. Earned(h, u, k, flights, Parked(h, calls)) /\ (Retried(u) <=> Retried(w))
    BY <1>2 DEF Good, Retried
  <2> QED
    BY <2>1 DEF Earned, Like
<1>6. Good(h, w, k, c, flights', Parked(h, calls))
  BY <1>3, <1>4, <1>5 DEF Good
<1>7. /\ calls' = calls /\ streak' = [streak EXCEPT ![h] = k]
      /\ clean' = [clean EXCEPT ![h] = c]
  BY <1>2 DEF Marked
<1>8. Good(h, w, k, c, flights', Parked(h, calls'))
  BY <1>6, <1>7 DEF Good, Earned
<1>9. /\ calls' \in Seq(Frame) /\ Stack(calls')
      /\ \A g : g # h => (Parked(g, calls') <=> Parked(g, calls))
  BY <1>2, <1>7
<1>10. /\ Flying(flights') /\ \A g : g # h => SameChecks(g, flights, flights')
       /\ alive' \in [Hosts -> BOOLEAN] /\ disturbances' \in 0 .. MaxDisturbances
       /\ hosts' = [hosts EXCEPT ![h] = w]
  OBVIOUS
<1> HIDE DEF u, k
<1> QED
  BY ONLY IInv, h \in Hosts, <1>7, <1>8, <1>9, <1>10, OneHost

\* ... and most of them the checks in flight and the history.
LEMMA EventInv ==
  ASSUME IInv, NEW h \in Hosts, NEW w \in Host,
         hosts' = [hosts EXCEPT ![h] = w],
         w.state = hosts[h].state, w.type = hosts[h].type,
         w.attempt = hosts[h].attempt,
         UNCHANGED <<calls, flights, history>>,
         alive' \in [Hosts -> BOOLEAN], disturbances' \in 0 .. MaxDisturbances,
         w.regular /\ w.enabled => w.should,
         Parked(h, calls) \/ Continued(h, w, flights),
         clean[h] => /\ Like(w, hosts[h])
                     /\ Retried(w) => w.event # "none" \/ w.executing
  PROVE  IInv'
<1> DEFINE c == clean[h]
<1>1. /\ hosts = [hosts EXCEPT ![h] = hosts[h]]
      /\ streak = [streak EXCEPT ![h] = streak[h]]
      /\ clean = [clean EXCEPT ![h] = clean[h]]
      /\ Flying(flights) /\ \A g : SameChecks(g, flights, flights)
      /\ calls \in Seq(Frame) /\ Stack(calls)
      /\ alive \in [Hosts -> BOOLEAN] /\ disturbances \in 0 .. MaxDisturbances
      /\ Good(h, hosts[h], streak[h], clean[h], flights, Parked(h, calls))
      /\ hosts[h] \in Host /\ clean[h] \in BOOLEAN
  BY Unchanged
<1>2. c \in BOOLEAN /\ Marked(h, c)
  BY <1>1 DEF Marked, history
<1>3. /\ flights' = flights /\ Flying(flights')
      /\ \A g : g # h => SameChecks(g, flights, flights')
      /\ UNCHANGED <<calls, streak>>
  BY <1>1 DEF history
<1>4. c => /\ clean[h] /\ Like(w, hosts[h])
           /\ Retried(w) => w.event # "none" \/ w.executing
           /\ Solo(h, flights) => Solo(h, flights')
           /\ Of(flights, h) = {} <=> Of(flights', h) = {}
  BY <1>3
<1>5. Parked(h, calls) \/ Continued(h, w, flights')
  BY <1>3
<1> HIDE DEF c
<1> QED
  BY <1>2, <1>3, <1>4, <1>5, QuietInv

\* Facts about a host that such a step starts from.
LEMMA Before ==
  ASSUME IInv, NEW h \in Hosts
  PROVE  /\ hosts[h] \in Host
         /\ hosts[h].enabled \in BOOLEAN /\ hosts[h].should \in BOOLEAN
         /\ hosts[h].regular \in BOOLEAN /\ hosts[h].again \in BOOLEAN
         /\ hosts[h].executing \in BOOLEAN
         /\ hosts[h].event \in Events
         /\ hosts[h].regular /\ hosts[h].enabled => hosts[h].should
         /\ Parked(h, calls) \/ Continued(h, hosts[h], flights)
         /\ clean[h] => /\ hosts[h].enabled
                        /\ Retried(hosts[h]) =>
                             /\ hosts[h].should
                             /\ hosts[h].event # "none" \/ hosts[h].executing
         /\ alive \in [Hosts -> BOOLEAN] /\ disturbances \in 0 .. MaxDisturbances
BY DEF IInv, Bare, HostOK, Good, Earned, Counts, Host

LEMMA Disturbed ==
  ASSUME disturbances \in 0 .. MaxDisturbances, Disturb
  PROVE  disturbances' \in 0 .. MaxDisturbances
BY HostChecksAssumption DEF Disturb

\* An event is queued for a host with the fields v.
LEMMA ScheduledInv ==
  ASSUME IInv, NEW h \in Hosts, NEW v \in Host, NEW kind \in Events \ {"none"},
         NEW w \in Scheduled(v, kind), hosts' = [hosts EXCEPT ![h] = w],
         Like(v, hosts[h]) \/ ~clean[h],
         v.state = hosts[h].state, v.type = hosts[h].type,
         v.attempt = hosts[h].attempt,
         v.regular /\ v.enabled => v.should,
         UNCHANGED <<calls, flights, history>>,
         alive' \in [Hosts -> BOOLEAN], disturbances' \in 0 .. MaxDisturbances
  PROVE  IInv'
<1>1. /\ w \in Host /\ w = [v EXCEPT !.event = w.event]
      /\ v.event # "none" => w.event # "none"
      /\ kind # "normal" => w.event # "none"
      /\ v.enabled => w.event # "none"
  BY ScheduledProperties
<1>2. /\ w.state = v.state /\ w.type = v.type /\ w.attempt = v.attempt
      /\ w.regular = v.regular /\ w.enabled = v.enabled /\ w.should = v.should
  BY <1>1 DEF Host
<1>3. Continued(h, w, flights)
  BY <1>1, <1>2 DEF Continued
<1>4. clean[h] => /\ Like(w, hosts[h])
                  /\ Retried(w) => w.event # "none" \/ w.executing
  <2> SUFFICES ASSUME clean[h]
               PROVE  /\ Like(w, hosts[h]) /\ w.event # "none"
    OBVIOUS
  <2>1. Like(w, hosts[h])
    BY <1>2 DEF Like
  <2>2. hosts[h].enabled
    BY Before
  <2>3. v.enabled
    BY <2>2 DEF Like
  <2> QED
    BY <1>1, <2>1, <2>3
<1> QED
  BY <1>1, <1>2, <1>3, <1>4, EventInv

LEMMA RunDroppedInv ==
  ASSUME IInv, NEW h \in Hosts, RunDropped(h)
  PROVE  IInv'
<1> DEFINE u == hosts[h]
           w == [u EXCEPT !.event = "none", !.again = TRUE]
<1>1. /\ u \in Host /\ (u.regular /\ u.enabled => u.should)
      /\ alive \in [Hosts -> BOOLEAN] /\ disturbances \in 0 .. MaxDisturbances
      /\ hosts \in [Hosts -> Host]
  BY Before DEF IInv, Bare
<1>2. /\ hosts' = [hosts EXCEPT ![h] = w] /\ u.executing
      /\ UNCHANGED <<calls, flights, history>>
      /\ alive' = alive /\ disturbances' = disturbances
  BY <1>1 DEF RunDropped, network
<1>3. w \in Host
  BY <1>1 DEF Host, Events
<1>4. /\ w.state = u.state /\ w.type = u.type /\ w.attempt = u.attempt
      /\ w.regular = u.regular /\ w.enabled = u.enabled /\ w.should = u.should
  BY <1>1 DEF Host
<1>5. w.executing = u.executing /\ w.again = TRUE
  BY <1>1 DEF Host
<1> HIDE DEF w
<1>6. Continued(h, w, flights) /\ Like(w, u)
  BY <1>2, <1>4, <1>5 DEF Continued, Like
<1> QED
  BY <1>1, <1>2, <1>3, <1>4, <1>5, <1>6, EventInv

LEMMA RunFailsInv ==
  ASSUME IInv, NEW h \in Hosts, RunFails(h)
  PROVE  IInv'
<1> DEFINE u == hosts[h]
           v == [u EXCEPT !.event = "none"]
           kind == u.event
<1>1. /\ u \in Host /\ u.event \in Events /\ (u.regular /\ u.enabled => u.should)
      /\ clean[h] => /\ u.enabled
                     /\ Retried(u) => u.should /\ (u.event # "none" \/ u.executing)
      /\ alive \in [Hosts -> BOOLEAN] /\ disturbances \in 0 .. MaxDisturbances
  BY Before
<1>2. /\ kind # "none"
      /\ \E w \in IF v.should THEN Scheduled(v, kind) ELSE {v} :
           hosts' = [hosts EXCEPT ![h] = w]
      /\ UNCHANGED <<calls, flights, history>>
      /\ alive' = alive /\ disturbances' = disturbances
  BY DEF RunFails, network
<1>3. v \in Host
  BY <1>1 DEF Host, Events
<1>4. /\ v.state = u.state /\ v.type = u.type /\ v.attempt = u.attempt
      /\ v.regular = u.regular /\ v.enabled = u.enabled /\ v.should = u.should
  BY <1>1 DEF Host
<1>5. kind \in Events \ {"none"}
  BY <1>1, <1>2
<1> HIDE DEF v, kind
<1>6. Like(v, u)
  BY <1>4 DEF Like
<1>7. alive' \in [Hosts -> BOOLEAN] /\ disturbances' \in 0 .. MaxDisturbances
  BY <1>1, <1>2
<1>8. CASE v.should
  <2>1. PICK w \in Scheduled(v, kind) : hosts' = [hosts EXCEPT ![h] = w]
    BY <1>2, <1>8
  <2> QED
    BY <1>1, <1>2, <1>3, <1>4, <1>5, <1>6, <1>7, <2>1, ScheduledInv
<1>9. CASE ~v.should
  <2>1. hosts' = [hosts EXCEPT ![h] = v]
    BY <1>2, <1>9
  <2>2. Continued(h, v, flights)
    BY <1>1, <1>4, <1>9 DEF Continued
  <2>3. clean[h] => ~Retried(v)
    BY <1>1, <1>4, <1>9 DEF Retried
  <2> QED
    BY <1>1, <1>2, <1>3, <1>4, <1>6, <1>7, <2>1, <2>2, <2>3, EventInv
<1> QED
  BY <1>8, <1>9

LEMMA OrphanInv ==
  ASSUME IInv, NEW h \in Hosts, Orphan(h)
  PROVE  IInv'
<1> DEFINE u == hosts[h]
           v == [u EXCEPT !.executing = FALSE]
           kind == "normal"
<1>1. /\ u \in Host /\ (u.regular /\ u.enabled => u.should)
      /\ alive \in [Hosts -> BOOLEAN] /\ disturbances \in 0 .. MaxDisturbances
  BY Before
<1>2. /\ \E w \in Scheduled(v, kind) : hosts' = [hosts EXCEPT ![h] = w]
      /\ UNCHANGED <<calls, flights, history>>
      /\ alive' = alive
      /\ disturbances' = disturbances \/ Disturb
  BY DEF Orphan
<1>3. v \in Host /\ kind \in Events \ {"none"}
  BY <1>1 DEF Host, Events
<1>4. /\ v.state = u.state /\ v.type = u.type /\ v.attempt = u.attempt
      /\ v.regular = u.regular /\ v.enabled = u.enabled /\ v.should = u.should
  BY <1>1 DEF Host
<1>5. disturbances' \in 0 .. MaxDisturbances /\ alive' \in [Hosts -> BOOLEAN]
  BY <1>1, <1>2, Disturbed
<1> HIDE DEF v, kind
<1>6. Like(v, u)
  BY <1>4 DEF Like
<1>7. PICK w \in Scheduled(v, kind) : hosts' = [hosts EXCEPT ![h] = w]
  BY <1>2
<1> QED
  BY <1>1, <1>2, <1>3, <1>4, <1>5, <1>6, <1>7, ScheduledInv

LEMMA FreshnessInv ==
  ASSUME IInv, NEW h \in Hosts, Freshness(h)
  PROVE  IInv'
<1> DEFINE u == hosts[h]
           v == [u EXCEPT !.freshening = TRUE]
           kind == "fresh"
<1>1. /\ u \in Host /\ (u.regular /\ u.enabled => u.should)
      /\ alive \in [Hosts -> BOOLEAN] /\ disturbances \in 0 .. MaxDisturbances
  BY Before
<1>2. /\ \E w \in Scheduled(v, kind) : hosts' = [hosts EXCEPT ![h] = w]
      /\ UNCHANGED <<calls, flights, history>>
      /\ alive' = alive /\ Disturb
  BY DEF Freshness
<1>3. v \in Host /\ kind \in Events \ {"none"}
  BY <1>1 DEF Host, Events
<1>4. /\ v.state = u.state /\ v.type = u.type /\ v.attempt = u.attempt
      /\ v.regular = u.regular /\ v.enabled = u.enabled /\ v.should = u.should
  BY <1>1 DEF Host
<1>5. disturbances' \in 0 .. MaxDisturbances /\ alive' \in [Hosts -> BOOLEAN]
  BY <1>1, <1>2, Disturbed
<1> HIDE DEF v, kind
<1>6. Like(v, u)
  BY <1>4 DEF Like
<1>7. PICK w \in Scheduled(v, kind) : hosts' = [hosts EXCEPT ![h] = w]
  BY <1>2
<1> QED
  BY <1>1, <1>2, <1>3, <1>4, <1>5, <1>6, <1>7, ScheduledInv

LEMMA ForceCheckInv ==
  ASSUME IInv, NEW h \in Hosts, ForceCheck(h)
  PROVE  IInv'
<1> DEFINE v == hosts[h]
           kind == "forced"
<1>1. /\ v \in Host /\ (v.regular /\ v.enabled => v.should)
      /\ alive \in [Hosts -> BOOLEAN] /\ disturbances \in 0 .. MaxDisturbances
  BY Before
<1>2. /\ \E w \in Scheduled(v, kind) : hosts' = [hosts EXCEPT ![h] = w]
      /\ UNCHANGED <<calls, flights, history>>
      /\ alive' = alive /\ Disturb
  BY DEF ForceCheck
<1>3. kind \in Events \ {"none"} /\ Like(v, v)
  BY DEF Events, Like
<1>4. disturbances' \in 0 .. MaxDisturbances /\ alive' \in [Hosts -> BOOLEAN]
  BY <1>1, <1>2, Disturbed
<1> HIDE DEF kind
<1>5. PICK w \in Scheduled(v, kind) : hosts' = [hosts EXCEPT ![h] = w]
  BY <1>2
<1> QED
  BY <1>1, <1>2, <1>3, <1>4, <1>5, ScheduledInv

LEMMA EnableInv ==
  ASSUME IInv, NEW h \in Hosts, Enable(h)
  PROVE  IInv'
<1> DEFINE u == hosts[h]
           should == u.regular
           v == [u EXCEPT !.enabled = TRUE, !.should = should]
           kind == "normal"
<1>1. /\ u \in Host /\ should \in BOOLEAN /\ (clean[h] => u.enabled)
      /\ alive \in [Hosts -> BOOLEAN] /\ disturbances \in 0 .. MaxDisturbances
  BY Before
<1>2. /\ \E w \in IF v.should THEN Scheduled(v, kind) ELSE {v} :
           hosts' = [hosts EXCEPT ![h] = w]
      /\ UNCHANGED <<calls, flights, history>> /\ ~u.enabled
      /\ alive' = alive /\ disturbances' = disturbances
  BY DEF Enable, network
<1> HIDE DEF should
<1>3. v \in Host /\ kind \in Events \ {"none"}
  BY <1>1 DEF Host, Events
<1>4. /\ v.state = u.state /\ v.type = u.type /\ v.attempt = u.attempt
      /\ v.regular = u.regular /\ v.enabled = TRUE /\ v.should = should
  BY <1>1 DEF Host
<1> HIDE DEF v, kind
<1>5. v.regular = v.should
  BY <1>4 DEF should
<1>6. alive' \in [Hosts -> BOOLEAN] /\ disturbances' \in 0 .. MaxDisturbances
  BY <1>1, <1>2
<1>7. ~clean[h]
  BY <1>1, <1>2
<1>8. CASE v.should
  <2>1. PICK w \in Scheduled(v, kind) : hosts' = [hosts EXCEPT ![h] = w]
    BY <1>2, <1>8
  <2> QED
    BY <1>2, <1>3, <1>4, <1>5, <1>6, <1>7, <2>1, ScheduledInv
<1>9. CASE ~v.should
  <2>1. hosts' = [hosts EXCEPT ![h] = v]
    BY <1>2, <1>9
  <2>2. Continued(h, v, flights)
    BY <1>5, <1>9 DEF Continued
  <2> QED
    BY <1>2, <1>3, <1>4, <1>5, <1>6, <1>7, <1>9, <2>1, <2>2, EventInv
<1> QED
  BY <1>8, <1>9

LEMMA DisableInv ==
  ASSUME IInv, NEW h \in Hosts, Disable(h)
  PROVE  IInv'
<1> DEFINE u == hosts[h]
           w == [u EXCEPT !.enabled = FALSE, !.should = FALSE]
           c == FALSE
<1>1. /\ u \in Host /\ Flying(flights) /\ \A g : SameChecks(g, flights, flights)
      /\ alive \in [Hosts -> BOOLEAN] /\ disturbances \in 0 .. MaxDisturbances
      /\ hosts \in [Hosts -> Host]
  BY Unchanged DEF IInv, Bare
<1>2. /\ hosts' = [hosts EXCEPT ![h] = w] /\ clean' = [clean EXCEPT ![h] = c]
      /\ UNCHANGED <<calls, streak>> /\ flights' = flights
      /\ alive' = alive /\ Disturb
  BY <1>1 DEF Disable
<1>3. w \in Host
  BY <1>1 DEF Host
<1>4. /\ w.state = u.state /\ w.type = u.type /\ w.attempt = u.attempt
      /\ w.enabled = FALSE
  BY <1>1 DEF Host
<1> HIDE DEF w, u
<1>5. /\ c \in BOOLEAN /\ Marked(h, c) /\ ~c
      /\ Continued(h, w, flights') /\ (w.regular /\ w.enabled => w.should)
  BY <1>2, <1>4 DEF Marked, Continued
<1>6. /\ disturbances' \in 0 .. MaxDisturbances /\ alive' \in [Hosts -> BOOLEAN]
      /\ Flying(flights') /\ \A g : g # h => SameChecks(g, flights, flights')
  BY <1>1, <1>2, Disturbed
<1> HIDE DEF c
<1> QED
  BY <1>2, <1>3, <1>4, <1>5, <1>6, QuietInv DEF u

LEMMA AgeInv ==
  ASSUME IInv, NEW h \in Hosts, Age(h)
  PROVE  IInv'
<1> DEFINE u == hosts[h]
           w == [u EXCEPT !.recent = FALSE]
<1>1. /\ u \in Host /\ (u.regular /\ u.enabled => u.should)
      /\ Parked(h, calls) \/ Continued(h, u, flights)
      /\ clean[h] => (Retried(u) => u.event # "none" \/ u.executing)
      /\ alive \in [Hosts -> BOOLEAN] /\ disturbances \in 0 .. MaxDisturbances
      /\ hosts \in [Hosts -> Host]
  BY Before DEF IInv, Bare
<1>2. /\ hosts' = [hosts EXCEPT ![h] = w]
      /\ UNCHANGED <<calls, flights, history>>
      /\ alive' = alive /\ disturbances' = disturbances
  BY <1>1 DEF Age, network
<1>3. w \in Host
  BY <1>1 DEF Host
<1>4. /\ w.state = u.state /\ w.type = u.type /\ w.attempt = u.attempt
      /\ w.regular = u.regular /\ w.enabled = u.enabled /\ w.should = u.should
  BY <1>1 DEF Host
<1>5. w.executing = u.executing /\ w.again = u.again /\ w.event = u.event
  BY <1>1 DEF Host
<1> HIDE DEF w, u
<1>6. Parked(h, calls) \/ Continued(h, w, flights)
  BY <1>1, <1>4, <1>5 DEF Continued
<1>7. Like(w, u) /\ (clean[h] => (Retried(w) => w.event # "none" \/ w.executing))
  BY <1>1, <1>4, <1>5 DEF Like, Retried
<1>8. /\ disturbances' \in 0 .. MaxDisturbances /\ alive' \in [Hosts -> BOOLEAN]
      /\ w.regular /\ w.enabled => w.should
  BY <1>1, <1>2, <1>4
<1> QED
  BY <1>2, <1>3, <1>4, <1>6, <1>7, <1>8, EventInv DEF u

-----------------------------------------------------------------------------
(* Checks in flight that are lost, discarded or answered.                    *)

\* A check in flight is gone: its record is not clean any more.
LEMMA GoneInv ==
  ASSUME IInv, NEW h \in Hosts, NEW f \in InFlight(h), NEW w \in Host,
         hosts' = [hosts EXCEPT ![h] = w],
         Like(w, hosts[h]), w.event = hosts[h].event,
         w.executing = hosts[h].executing, w.again = hosts[h].again,
         flights' = BagRemove(flights, f),
         clean' = [clean EXCEPT ![h] = FALSE],
         UNCHANGED <<calls, streak>>,
         alive' \in [Hosts -> BOOLEAN], disturbances' \in 0 .. MaxDisturbances
  PROVE  IInv'
<1> DEFINE u == hosts[h]
           c == FALSE
<1>1. /\ u \in Host /\ (u.regular /\ u.enabled => u.should)
      /\ Parked(h, calls) \/ Continued(h, u, flights)
      /\ Flying(flights)
  BY Before DEF IInv, Bare
<1>2. f \in BagToSet(flights) /\ f.host = h /\ f \in Of(flights, h)
  BY FlightProperties
<1>3. /\ Flying(flights')
      /\ Of(flights', f.host) \subseteq Of(flights, f.host)
      /\ Solo(f.host, flights) => Of(flights', f.host) = {}
      /\ \A g : g # f.host => SameChecks(g, flights, flights')
  BY <1>1, <1>2, RemoveFlight
<1>4. Parked(h, calls) \/ Continued(h, w, flights')
  BY <1>1, <1>2 DEF Continued, Like
<1>5. /\ c \in BOOLEAN /\ Marked(h, c) /\ ~c
      /\ w.regular /\ w.enabled => w.should
      /\ w.state = u.state /\ w.type = u.type /\ w.attempt = u.attempt
  BY <1>1 DEF Marked, Like
<1>6. \A g : g # h => SameChecks(g, flights, flights')
  BY <1>2, <1>3
<1> HIDE DEF c
<1> QED
  BY <1>3, <1>4, <1>5, <1>6, QuietInv

LEMMA DiscardInv ==
  ASSUME IInv, NEW h \in Hosts, NEW f \in InFlight(h), Discard(f)
  PROVE  IInv'
<1> DEFINE u == hosts[h]
           w == [u EXCEPT !.freshening = FALSE]
<1>1. /\ u \in Host /\ hosts \in [Hosts -> Host] /\ f.host = h
      /\ alive \in [Hosts -> BOOLEAN] /\ disturbances \in 0 .. MaxDisturbances
  BY Before, FlightProperties DEF IInv, Bare
<1>2. /\ hosts' = [hosts EXCEPT ![h] = w] /\ flights' = BagRemove(flights, f)
      /\ clean' = [clean EXCEPT ![h] = FALSE] /\ UNCHANGED <<calls, streak>>
      /\ alive' = alive /\ disturbances' = disturbances
  BY <1>1 DEF Discard, network
<1>3. w \in Host
  BY <1>1 DEF Host
<1>4. Like(w, u)
  BY <1>1 DEF Host, Like
<1>5. w.event = u.event /\ w.executing = u.executing /\ w.again = u.again
  BY <1>1 DEF Host
<1> HIDE DEF w
<1> QED
  BY <1>1, <1>2, <1>3, <1>4, <1>5, GoneInv

LEMMA LoseInv ==
  ASSUME IInv, NEW h \in Hosts, NEW f \in InFlight(h), Lose(f)
  PROVE  IInv'
<1> DEFINE w == hosts[h]
<1>1. /\ w \in Host /\ hosts = [hosts EXCEPT ![h] = w] /\ f.host = h
      /\ alive \in [Hosts -> BOOLEAN] /\ disturbances \in 0 .. MaxDisturbances
  BY Before, Unchanged, FlightProperties
<1>2. /\ hosts' = [hosts EXCEPT ![h] = w] /\ flights' = BagRemove(flights, f)
      /\ clean' = [clean EXCEPT ![h] = FALSE] /\ UNCHANGED <<calls, streak>>
      /\ alive' = alive /\ Disturb
  BY <1>1 DEF Lose
<1>3. disturbances' \in 0 .. MaxDisturbances /\ Like(w, w)
  BY <1>1, <1>2, Disturbed DEF Like
<1> QED
  BY <1>1, <1>2, <1>3, GoneInv

LEMMA AnswerInv ==
  ASSUME IInv, NEW h \in Hosts, NEW f \in InFlight(h), Answer(f)
  PROVE  IInv'
<1> DEFINE w == hosts[h]
           c == clean[h]
           answer == IF Responds[f.host] THEN "UP" ELSE "DOWN"
           g == [f EXCEPT !.answer = answer]
<1>1. /\ w \in Host /\ (w.regular /\ w.enabled => w.should)
      /\ Parked(h, calls) \/ Continued(h, w, flights)
      /\ clean[h] => (Retried(w) => w.event # "none" \/ w.executing)
      /\ alive \in [Hosts -> BOOLEAN] /\ disturbances \in 0 .. MaxDisturbances
  BY Before
<1>2. /\ hosts = [hosts EXCEPT ![h] = w] /\ clean = [clean EXCEPT ![h] = c]
      /\ c \in BOOLEAN /\ Flying(flights)
  BY Unchanged
<1>3. f \in BagToSet(flights) /\ f.host = h /\ f \in Of(flights, h) /\ f \in Flight
  BY FlightProperties
<1>4. /\ flights' = BagAdd(BagRemove(flights, f), g)
      /\ hosts' = hosts /\ clean' = clean /\ UNCHANGED <<calls, streak>>
      /\ alive' = alive /\ disturbances' = disturbances
  BY DEF Answer, history, network
<1>5. answer \in {None, "UP", "DOWN"}
  OBVIOUS
<1> HIDE DEF answer
<1>6. g \in Flight /\ g.host = f.host
  BY <1>3, <1>5 DEF Flight
<1> HIDE DEF g
<1>7. /\ Flying(flights')
      /\ Of(flights, f.host) # {} /\ Of(flights', f.host) # {}
      /\ Solo(f.host, flights) => Solo(f.host, flights')
      /\ \A i : i # f.host => SameChecks(i, flights, flights')
  BY <1>2, <1>3, <1>4, <1>6, AnswerFlight
<1>8. c => /\ clean[h] /\ Like(w, w)
           /\ Retried(w) => w.event # "none" \/ w.executing
           /\ Solo(h, flights) => Solo(h, flights')
           /\ Of(flights, h) = {} <=> Of(flights', h) = {}
  BY <1>1, <1>3, <1>7 DEF Like
<1>9. Parked(h, calls) \/ Continued(h, w, flights')
  BY <1>1, <1>3, <1>7 DEF Continued
<1>10. /\ Marked(h, c) /\ hosts' = [hosts EXCEPT ![h] = w]
       /\ alive' \in [Hosts -> BOOLEAN] /\ disturbances' \in 0 .. MaxDisturbances
       /\ \A i : i # h => SameChecks(i, flights, flights')
  BY <1>1, <1>2, <1>3, <1>4, <1>7 DEF Marked
<1> HIDE DEF c
<1> QED
  BY <1>1, <1>2, <1>4, <1>7, <1>8, <1>9, <1>10, QuietInv

-----------------------------------------------------------------------------
(* Handlers that go on.                                                      *)

\* the frame of a handler is replaced by another one that is about the same host
LEMMA ReplaceTop ==
  ASSUME Stack(calls), calls # <<>>, NEW c \in Frame, Sound(c),
         c.at = "asked" => Asking(c), Waits(c) <=> Waits(Top), c.host = Top.host
  PROVE  LET s == <<c>> \o Tail(calls) IN
         /\ s \in Seq(Frame) /\ Stack(s) /\ Head(s) = c /\ Tail(s) = Tail(calls)
         /\ Asking(c) => Suspended(s)
         /\ \A g : Parked(g, s) <=> Parked(g, calls)
<1> DEFINE rest == Tail(calls)
           s == <<c>> \o rest
<1>1. /\ Top \in Frame /\ Suspended(rest) /\ Stack(rest)
      /\ rest \in Seq(Frame)
      /\ Sound(Top) /\ (Top.at = "asked" => Asking(Top))
      /\ Waits(Top) => Above(Top.host, rest)
      /\ \A h : Parked(h, calls) <=> (Waits(Top) /\ Top.host = h) \/ Parked(h, rest)
  BY TopProperties
<1>2. Waits(c) => Above(c.host, rest)
  BY <1>1
<1> HIDE DEF rest
<1>3. /\ s \in Seq(Frame) /\ s # <<>> /\ Head(s) = c /\ Tail(s) = rest
      /\ Stack(s)
      /\ Asking(c) => Suspended(s)
      /\ \A h : Parked(h, s) <=> (Waits(c) /\ c.host = h) \/ Parked(h, rest)
  BY <1>1, <1>2, PushStack
<1>4. \A g : Parked(g, s) <=> Parked(g, calls)
  BY <1>1, <1>3
<1> QED
  BY <1>3, <1>4 DEF rest

\* the frame that goes on once a parent has been judged
LEMMA JudgedInv ==
  ASSUME IInv, calls # <<>>, Waits(Top), Top.parents # <<>>,
         NEW verdict \in States, calls' = <<Judged(Top, verdict)>> \o Tail(calls),
         UNCHANGED <<hosts, flights, history>>, UNCHANGED network
  PROVE  IInv'
<1> DEFINE parents == IF verdict = "UP" THEN <<>> ELSE Tail(Top.parents)
           c == [Top EXCEPT !.at = "parents", !.verdict = verdict, !.parents = parents]
<1>0. /\ Stack(calls) /\ calls \in Seq(Frame)
      /\ alive \in [Hosts -> BOOLEAN] /\ disturbances \in 0 .. MaxDisturbances
  BY DEF IInv, Bare
<1>1. Top \in Frame /\ Sound(Top)
  BY <1>0, TopProperties
<1>2. Top.parents \in Seq(Hosts)
  BY <1>1 DEF Frame
<1>3. parents \in Seq(Hosts) /\ ToSet(parents) \subseteq ToSet(Top.parents)
  <2>1. CASE verdict = "UP"
    BY <2>1, EmptySeq DEF ToSet
  <2>2. CASE verdict # "UP"
    <3>1. /\ Tail(Top.parents) \in Seq(Hosts)
          /\ Len(Tail(Top.parents)) = Len(Top.parents) - 1
          /\ \A i \in 1 .. Len(Tail(Top.parents)) :
               Tail(Top.parents)[i] = Top.parents[i + 1]
          /\ Len(Top.parents) \in Nat
      BY <1>2, HeadTailProperties, LenProperties
    <3>2. /\ DOMAIN Tail(Top.parents) = 1 .. Len(Tail(Top.parents))
          /\ DOMAIN Top.parents = 1 .. Len(Top.parents)
      BY <1>2, <3>1, LenProperties
    <3>3. \A i \in DOMAIN Tail(Top.parents) :
            i + 1 \in DOMAIN Top.parents /\ Tail(Top.parents)[i] = Top.parents[i + 1]
      BY <3>1, <3>2
    <3> QED
      BY <2>2, <3>1, <3>3 DEF ToSet
  <2> QED
    BY <2>1, <2>2
<1>4. calls' = <<c>> \o Tail(calls)
  BY DEF Judged
<1> HIDE DEF parents
<1>5. c \in Frame
  BY <1>1, <1>3 DEF Frame
<1>6. c.at = "parents" /\ c.host = Top.host /\ c.parents = parents
  BY <1>1 DEF Frame
<1> HIDE DEF c
<1>7. Sound(c) /\ c.at # "asked" /\ Waits(c)
  BY <1>1, <1>3, <1>6 DEF Sound, Waits
<1>8. LET s == <<c>> \o Tail(calls) IN
      /\ s \in Seq(Frame) /\ Stack(s) /\ Head(s) = c /\ Tail(s) = Tail(calls)
      /\ Asking(c) => Suspended(s)
      /\ \A g : Parked(g, s) <=> Parked(g, calls)
  BY <1>0, <1>5, <1>6, <1>7, ReplaceTop
<1> QED
  BY <1>0, <1>4, <1>8, NoHost DEF network

LEMMA AskedProperties ==
  ASSUME IInv, calls # <<>>, Waits(Top), Top.parents # <<>>
  PROVE  /\ Head(Top.parents) \in Hosts
         /\ Head(Top.parents) \in ParentsOf(Top.host)
         /\ hosts[Head(Top.parents)].state \in States /\ Top.verdict \in States
<1>0. Stack(calls) /\ hosts \in [Hosts -> Host]
  BY DEF IInv, Bare
<1>1. Top \in Frame /\ Sound(Top)
  BY <1>0, TopProperties
<1>2. Top.parents \in Seq(Hosts) /\ Top.host \in Hosts /\ Top.verdict \in States
  BY <1>1 DEF Frame
<1>3. /\ Head(Top.parents) = Top.parents[1] /\ 1 \in DOMAIN Top.parents
  BY <1>2, LenProperties, EmptySeq, HeadTailProperties
<1>4. Head(Top.parents) \in ToSet(Top.parents)
  BY <1>3 DEF ToSet
<1>5. Head(Top.parents) \in ParentsOf(Top.host)
  BY <1>1, <1>4 DEF Sound
<1>6. Head(Top.parents) \in Hosts
  BY <1>2, <1>5, RankProperties
<1>7. hosts[Head(Top.parents)] \in Host
  BY <1>0, <1>6
<1> QED
  BY <1>2, <1>5, <1>6, <1>7 DEF Host

LEMMA AskParentInv ==
  ASSUME IInv, AskParent
  PROVE  IInv'
<1> DEFINE p == Head(Top.parents)
           c == [Top EXCEPT !.at = "asked"]
           rest == <<c>> \o Tail(calls)
<1>0. /\ Stack(calls) /\ calls \in Seq(Frame)
      /\ alive \in [Hosts -> BOOLEAN] /\ disturbances \in 0 .. MaxDisturbances
  BY DEF IInv, Bare
<1>1. calls # <<>> /\ Top.at = "parents" /\ Top.parents # <<>> /\ Waits(Top)
  BY DEF AskParent, Waits
<1>2. /\ p \in Hosts /\ p \in ParentsOf(Top.host)
      /\ hosts[p].state \in States /\ Top.verdict \in States
  BY <1>1, AskedProperties
<1>3. CASE Sync(p, rest) /\ UNCHANGED network
  <2>1. /\ Top \in Frame /\ Sound(Top) /\ Suspended(Tail(calls))
        /\ Waits(Top) => Above(Top.host, Tail(calls))
    BY <1>0, <1>1, TopProperties
  <2>2. c \in Frame
    BY <2>1 DEF Frame
  <2>3. c.at = "asked" /\ c.host = Top.host /\ c.parents = Top.parents
    BY <2>1 DEF Frame
  <2> HIDE DEF c
  <2>4. Sound(c) /\ Asking(c) /\ Waits(c)
    BY <1>1, <2>1, <2>3 DEF Sound, Asking, Waits
  <2>5. LET s == <<c>> \o Tail(calls) IN
        /\ s \in Seq(Frame) /\ Stack(s) /\ Head(s) = c /\ Tail(s) = Tail(calls)
        /\ Asking(c) => Suspended(s)
        /\ \A g : Parked(g, s) <=> Parked(g, calls)
    BY <1>0, <1>1, <2>2, <2>3, <2>4, ReplaceTop
  <2>6. Suspended(rest) /\ \A g : Parked(g, rest) <=> Parked(g, calls)
    BY <2>4, <2>5
  <2>7. Above(p, rest)
    <3>1. Above(Top.host, Tail(calls)) /\ Rank[p] < Rank[Top.host]
          /\ Rank[p] \in Int /\ Rank[Top.host] \in Int
      <4>1. Top.host \in Hosts
        BY <2>1 DEF Frame
      <4> QED
        BY <1>1, <1>2, <2>1, <4>1, RankProperties
    <3>2. /\ rest[1] = c /\ Len(rest) = Len(Tail(calls)) + 1
          /\ Len(Tail(calls)) \in Nat
          /\ \A i \in 1 .. Len(Tail(calls)) : rest[i + 1] = Tail(calls)[i]
      <4>1. Tail(calls) \in Seq(Frame)
        BY <2>1 DEF Suspended
      <4> QED
        BY <2>2, <4>1, PushProperties, LenProperties
    <3> HIDE DEF rest
    <3>3. ASSUME NEW i \in 1 .. Len(rest), Waits(rest[i])
          PROVE  Rank[p] < Rank[rest[i].host]
      <4>1. CASE i = 1
        BY <2>3, <3>1, <3>2, <4>1
      <4>2. CASE i # 1
        <5>1. i - 1 \in 1 .. Len(Tail(calls)) /\ rest[i] = Tail(calls)[i - 1]
          BY <3>2, <4>2
        <5>2. Rank[Top.host] < Rank[rest[i].host]
          BY <3>1, <3>3, <5>1 DEF Above
        <5>3. Tail(calls)[i - 1] \in Frame
          <6>1. Tail(calls) \in Seq(Frame)
            BY <2>1 DEF Suspended
          <6> QED
            BY <5>1, <6>1, ElementOfSeq
        <5>4. rest[i].host \in Hosts
          BY <5>1, <5>3 DEF Frame
        <5>5. Rank[rest[i].host] \in Int
          BY <5>4, RankProperties
        <5> QED
          BY <3>1, <5>2, <5>5
      <4> QED
        BY <4>1, <4>2
    <3> QED
      BY <3>3 DEF Above
  <2>8. alive' \in [Hosts -> BOOLEAN] /\ disturbances' \in 0 .. MaxDisturbances
    BY <1>0, <1>3 DEF network
  <2> HIDE DEF rest
  <2> QED
    BY <1>2, <1>3, <2>6, <2>7, <2>8, SyncInv
<1>4. CASE /\ calls' = <<Judged(Top, IF p \in NoCommand THEN Top.verdict
                                                        ELSE hosts[p].state)>>
                       \o Tail(calls)
           /\ UNCHANGED <<hosts, flights, history, network>>
  <2> DEFINE verdict == IF p \in NoCommand THEN Top.verdict ELSE hosts[p].state
  <2>1. verdict \in States
    BY <1>2
  <2>2. calls' = <<Judged(Top, verdict)>> \o Tail(calls)
    BY <1>4
  <2> HIDE DEF verdict
  <2> QED
    BY <1>1, <1>4, <2>1, <2>2, JudgedInv
<1> QED
  BY <1>3, <1>4 DEF AskParent

LEMMA ParentAnswersInv ==
  ASSUME IInv, ParentAnswers
  PROVE  IInv'
<1>0. Stack(calls)
  BY DEF IInv, Bare
<1>1. calls # <<>> /\ Top.at = "asked" /\ Waits(Top)
  BY DEF ParentAnswers, Waits
<1>2. Top.parents # <<>>
  BY <1>0, <1>1, TopProperties DEF Asking
<1>3. hosts[Head(Top.parents)].state \in States
  BY <1>1, <1>2, AskedProperties
<1> QED
  BY <1>1, <1>2, <1>3, JudgedInv DEF ParentAnswers

LEMMA SpreadInv ==
  ASSUME IInv, NEW g \in Hosts, Spread(g)
  PROVE  IInv'
<1> DEFINE rest == Tail(calls)
           N == Top.spread \ {g}
           c == [Top EXCEPT !.spread = N]
<1>0. /\ Stack(calls) /\ calls \in Seq(Frame)
      /\ alive \in [Hosts -> BOOLEAN] /\ disturbances \in 0 .. MaxDisturbances
  BY DEF IInv, Bare
<1>1. calls # <<>> /\ Top.at = "spread" /\ ~Waits(Top)
  BY DEF Spread, Waits
<1>2. /\ Top \in Frame /\ Suspended(rest) /\ Stack(rest) /\ rest \in Seq(Frame)
      /\ \A h : Parked(h, calls) <=> (Waits(Top) /\ Top.host = h) \/ Parked(h, rest)
  BY <1>0, <1>1, TopProperties
<1>3. calls' = rest \/ calls' = <<c>> \o rest
  <2>1. CASE Top.spread = {g}
    <3>1. calls' = <<>> \o rest
      BY <2>1 DEF Spread
    <3> QED
      BY <1>2, <3>1, EmptyPush
  <2>2. CASE Top.spread # {g}
    BY <2>2 DEF Spread
  <2> QED
    BY <2>1, <2>2
<1>4. /\ calls' \in Seq(Frame) /\ Stack(calls')
      /\ \A h : Parked(h, calls') <=> Parked(h, calls)
  <2>1. CASE calls' = rest
    BY <1>1, <1>2, <2>1
  <2>2. CASE calls' = <<c>> \o rest
    <3>1. c \in Frame
      BY <1>2 DEF Frame
    <3>2. c.at = "spread" /\ c.host = Top.host
      BY <1>1, <1>2 DEF Frame
    <3> HIDE DEF c
    <3>3. Sound(c) /\ c.at # "asked" /\ ~Waits(c)
      BY <3>2 DEF Sound, Waits
    <3>4. LET s == <<c>> \o Tail(calls) IN
          /\ s \in Seq(Frame) /\ Stack(s) /\ Head(s) = c /\ Tail(s) = Tail(calls)
          /\ Asking(c) => Suspended(s)
          /\ \A h : Parked(h, s) <=> Parked(h, calls)
      BY <1>0, <1>1, <3>1, <3>2, <3>3, ReplaceTop
    <3> QED
      BY <2>2, <3>4
  <2> QED
    BY <1>3, <2>1, <2>2
<1>5. CASE /\ ~hosts[g].executing /\ Launch(g, hosts[g], FALSE, FALSE)
           /\ UNCHANGED network
  <2>1. alive' \in [Hosts -> BOOLEAN] /\ disturbances' \in 0 .. MaxDisturbances
    BY <1>0, <1>5 DEF network
  <2> QED
    BY <1>4, <1>5, <2>1, LaunchAside
<1>6. CASE UNCHANGED <<hosts, flights, history, network>>
  BY <1>0, <1>4, <1>6, NoHost DEF network
<1> QED
  BY <1>5, <1>6 DEF Spread

LEMMA OnDemandInv ==
  ASSUME IInv, NEW h \in Hosts, OnDemand(h)
  PROVE  IInv'
<1>0. /\ Stack(calls) /\ calls \in Seq(Frame)
      /\ alive \in [Hosts -> BOOLEAN] /\ disturbances \in 0 .. MaxDisturbances
  BY DEF IInv, Bare
<1>1. /\ Launch(h, hosts[h], FALSE, FALSE) /\ ~hosts[h].executing
      /\ calls' = calls /\ alive' = alive /\ Disturb
  BY DEF OnDemand
<1>2. /\ calls' \in Seq(Frame) /\ Stack(calls')
      /\ \A g : Parked(g, calls') <=> Parked(g, calls)
      /\ alive' \in [Hosts -> BOOLEAN] /\ disturbances' \in 0 .. MaxDisturbances
  BY <1>0, <1>1, Disturbed
<1> QED
  BY <1>1, <1>2, LaunchAside

LEMMA OnDemandSyncInv ==
  ASSUME IInv, NEW h \in Hosts, OnDemandSync(h)
  PROVE  IInv'
<1> DEFINE rest == <<>>
<1>0. alive \in [Hosts -> BOOLEAN] /\ disturbances \in 0 .. MaxDisturbances
  BY DEF IInv, Bare
<1>1. /\ Idle /\ Sync(h, rest) /\ alive' = alive /\ Disturb
  BY DEF OnDemandSync
<1>2. /\ Suspended(rest) /\ Above(h, rest) /\ \A g : ~Parked(g, rest)
  BY EmptyStack, EmptySeq DEF Above
<1>3. \A g : Parked(g, rest) <=> Parked(g, calls)
  BY <1>1, <1>2, IdleApart
<1>4. alive' \in [Hosts -> BOOLEAN] /\ disturbances' \in 0 .. MaxDisturbances
  BY <1>0, <1>1, Disturbed
<1> HIDE DEF rest
<1> QED
  BY <1>1, <1>2, <1>3, <1>4, SyncInv

LEMMA ChangeInv ==
  ASSUME IInv, NEW h \in Hosts, Change(h)
  PROVE  IInv'
<1>0. /\ Stack(calls) /\ calls \in Seq(Frame)
      /\ alive \in [Hosts -> BOOLEAN] /\ disturbances \in 0 .. MaxDisturbances
  BY DEF IInv, Bare
<1>1. /\ alive' = [alive EXCEPT ![h] = ~@] /\ Disturb
      /\ UNCHANGED <<hosts, flights, calls, history>>
  BY DEF Change
<1>2. alive' \in [Hosts -> BOOLEAN] /\ disturbances' \in 0 .. MaxDisturbances
  BY <1>0, <1>1, Disturbed
<1>3. /\ calls' \in Seq(Frame) /\ Stack(calls')
      /\ \A g : Parked(g, calls') <=> Parked(g, calls)
  BY <1>0, <1>1
<1> QED
  BY <1>1, <1>2, <1>3, NoHost

-----------------------------------------------------------------------------
(* The theorems.                                                             *)

LEMMA InitInv ==
  ASSUME Init
  PROVE  IInv
<1>1. PICK S \in OnDemandOnly : hosts = [h \in Hosts |->
       [state |-> "UP", type |-> "HARD", attempt |-> 1, regular |-> h \notin S,
        event |-> IF h \in S THEN "none" ELSE "normal", should |-> h \notin S,
        enabled |-> TRUE, executing |-> FALSE, again |-> FALSE,
        freshening |-> FALSE, recent |-> FALSE]]
  BY DEF Init
<1>2. /\ flights = EmptyBag /\ calls = <<>>
      /\ alive = [h \in Hosts |-> TRUE] /\ disturbances = 0
      /\ streak = [h \in Hosts |-> 0] /\ clean = [h \in Hosts |-> TRUE]
  BY DEF Init
<1>3. Flying(flights) /\ \A h : Of(flights, h) = {}
  BY <1>2 DEF Flying, IsABag, EmptyBag, SetToBag, Of, BagToSet
<1>4. /\ calls \in Seq(Frame) /\ Stack(calls) /\ \A h : ~Parked(h, calls)
  BY <1>2, EmptyStack DEF Suspended
<1>5. ASSUME NEW h \in Hosts
      PROVE  HostOK(h) /\ hosts[h] \in Host
  <2> DEFINE e == IF h \in S THEN "none" ELSE "normal"
             r == h \notin S
             v == [state |-> "UP", type |-> "HARD", attempt |-> 1, regular |-> r,
                   event |-> e, should |-> r,
                   enabled |-> TRUE, executing |-> FALSE, again |-> FALSE,
                   freshening |-> FALSE, recent |-> FALSE]
  <2>1. hosts[h] = v
    BY <1>1
  <2>2. e \in Events /\ r \in BOOLEAN /\ (r => e # "none")
    BY DEF Events
  <2> HIDE DEF e, r
  <2>3. v \in Host
    BY <2>2 DEF Host, States
  <2>4. /\ v.state = "UP" /\ v.type = "HARD" /\ v.attempt = 1 /\ v.regular = r
        /\ v.event = e /\ v.should = r /\ v.enabled = TRUE
    OBVIOUS
  <2> HIDE DEF v
  <2>5. Attempts[h] \in Nat /\ Attempts[h] > 0
    BY HostChecksAssumption
  <2>6. Counts(h, v) /\ 0 \in 0 .. Attempts[h]
    BY <2>3, <2>4, <2>5 DEF Counts
  <2>7. Continued(h, v, flights) /\ (v.regular /\ v.enabled => v.should)
    BY <2>2, <2>4 DEF Continued
  <2>8. Earned(h, v, 0, flights, Parked(h, calls))
    BY <1>3, <1>4, <2>4 DEF Earned, Solo, Retried
  <2>9. streak[h] = 0 /\ clean[h] = TRUE
    BY <1>2
  <2>10. Good(h, v, 0, TRUE, flights, Parked(h, calls))
    BY <1>4, <2>6, <2>7, <2>8 DEF Good
  <2> QED
    BY <2>1, <2>3, <2>9, <2>10 DEF HostOK
<1>6. hosts \in [Hosts -> Host]
  BY <1>1, <1>5
<1>7. Bare
  BY <1>2, <1>3, <1>4, <1>6, HostChecksAssumption DEF Bare
<1> QED
  BY <1>5, <1>7 DEF IInv

LEMMA NextInv ==
  ASSUME IInv, [Next]_vars
  PROVE  IInv'
<1>1. CASE UNCHANGED vars
  <2>1. /\ Stack(calls) /\ calls \in Seq(Frame)
        /\ alive \in [Hosts -> BOOLEAN] /\ disturbances \in 0 .. MaxDisturbances
    BY DEF IInv, Bare
  <2>2. /\ UNCHANGED <<hosts, flights, history>>
        /\ calls' = calls /\ alive' = alive /\ disturbances' = disturbances
    BY <1>1 DEF vars, history
  <2>3. /\ calls' \in Seq(Frame) /\ Stack(calls')
        /\ \A g : Parked(g, calls') <=> Parked(g, calls)
        /\ alive' \in [Hosts -> BOOLEAN] /\ disturbances' \in 0 .. MaxDisturbances
    BY <2>1, <2>2
  <2> QED
    BY <2>2, <2>3, NoHost
<1>2. CASE Handling
  <2>1. CASE AskParent
    BY <2>1, AskParentInv
  <2>2. CASE ParentAnswers
    BY <2>2, ParentAnswersInv
  <2>3. CASE Conclude
    BY <2>3, ConcludeInv
  <2>4. CASE \E g \in Hosts : Spread(g)
    BY <2>4, SpreadInv
  <2> QED
    BY <1>2, <2>1, <2>2, <2>3, <2>4 DEF Handling
<1>3. ASSUME NEW h \in Hosts,
             \/ RunDropped(h) \/ RunEvent(h) \/ RunFails(h)
             \/ OnDemand(h) \/ OnDemandSync(h) \/ Orphan(h) \/ Freshness(h)
             \/ ForceCheck(h) \/ Disable(h) \/ Enable(h) \/ Change(h) \/ Age(h)
      PROVE  IInv'
  <2>1. CASE RunDropped(h)
    BY <2>1, RunDroppedInv
  <2>2. CASE RunEvent(h)
    BY <2>2, RunEventInv
  <2>3. CASE RunFails(h)
    BY <2>3, RunFailsInv
  <2>4. CASE OnDemand(h)
    BY <2>4, OnDemandInv
  <2>5. CASE OnDemandSync(h)
    BY <2>5, OnDemandSyncInv
  <2>6. CASE Orphan(h)
    BY <2>6, OrphanInv
  <2>7. CASE Freshness(h)
    BY <2>7, FreshnessInv
  <2>8. CASE ForceCheck(h)
    BY <2>8, ForceCheckInv
  <2>9. CASE Disable(h)
    BY <2>9, DisableInv
  <2>10. CASE Enable(h)
    BY <2>10, EnableInv
  <2>11. CASE Change(h)
    BY <2>11, ChangeInv
  <2>12. CASE Age(h)
    BY <2>12, AgeInv
  <2> QED
    BY <1>3, <2>1, <2>2, <2>3, <2>4, <2>5, <2>6, <2>7, <2>8, <2>9, <2>10, <2>11, <2>12
<1>4. ASSUME NEW h \in Hosts, NEW new \in States, Passive(h, new)
      PROVE  IInv'
  BY <1>4, PassiveInv
<1>5. ASSUME NEW h \in Hosts, NEW f \in InFlight(h),
             Result(f) \/ Discard(f) \/ Answer(f) \/ Lose(f)
      PROVE  IInv'
  <2>1. CASE Result(f)
    BY <2>1, ResultInv
  <2>2. CASE Discard(f)
    BY <2>2, DiscardInv
  <2>3. CASE Answer(f)
    BY <2>3, AnswerInv
  <2>4. CASE Lose(f)
    BY <2>4, LoseInv
  <2> QED
    BY <1>5, <2>1, <2>2, <2>3, <2>4
<1> QED
  BY <1>1, <1>2, <1>3, <1>4, <1>5 DEF Next

\* Every step of the loop, the reaper, the threads and the users keeps the
\* invariant of the stack of handlers and of the hosts.
THEOREM Invariance == Spec => []IInv
<1>1. Init => IInv
  BY InitInv
<1>2. IInv /\ [Next]_vars => IInv'
  BY NextInv
<1> QED
  BY <1>1, <1>2, PTL DEF Spec

\* Every state is of the right type, and no host gets past its last attempt,
\* however results, synchronous checks and adjustments of attempts overlap.
THEOREM TypeCorrect == Spec => []TypeOK
<1>1. IInv => TypeOK
  BY InvTypeOK
<1> QED
  BY <1>1, Invariance, PTL

\* No regular check gets lost: whenever the main thread is back in its loop, a
\* host that is to be checked has a check queued, or one in flight that will
\* schedule the next one, or is left to the orphan watchdog.
THEOREM NoCheckDropped == Spec => []NeverDropped
<1>1. IInv => NeverDropped
  <2> SUFFICES ASSUME IInv, Idle, NEW h \in Hosts,
                      hosts[h].regular, hosts[h].enabled, hosts[h].event = "none"
               PROVE  hosts[h].executing /\ (InFlight(h) = {} \/ hosts[h].again)
    BY DEF NeverDropped
  <2>1. ~Parked(h, calls)
    BY IdleApart
  <2> QED
    BY <2>1 DEF IInv, HostOK, Good, Continued, InFlight
<1> QED
  BY <1>1, Invariance, PTL

\* A host that is checked on demand only is not left alone with a problem that
\* is still to be confirmed.
THEOREM RetriesStayQueued == Spec => []RetriesQueued
<1>1. IInv => RetriesQueued
  BY DEF IInv, HostOK, Good, Earned, Retried, RetriesQueued
<1> QED
  BY <1>1, Invariance, PTL

\* A hard problem was seen by as many results in a row as there are attempts.
THEOREM HardProblemsEarned == Spec => []HardEarned
<1>1. IInv => HardEarned
  BY DEF IInv, HostOK, Good, Earned, HardEarned
<1> QED
  BY <1>1, Invariance, PTL
=============================================================================
