------------------------- MODULE CommandFileProofs -------------------------
(* The way of an external command, for any number of slots and any commands: *)
(* the circular buffer is a bounded queue (BufferIsQueue), and what is       *)
(* written is executed once and in order (OrderKept), because the stages it  *)
(* passes, put one behind the other, never change but at their ends.         *)
EXTENDS CommandFile, SequenceTheorems, WellFoundedInduction, TLAPS

-----------------------------------------------------------------------------
(* The subsequence Of is defined by recursion on its argument.               *)

\* A set of numbers with zero and every successor has them all.
LEMMA Induction ==
  ASSUME NEW X \in SUBSET Nat, 0 \in X, \A n \in X : n + 1 \in X
  PROVE  Nat \subseteq X
<1> DEFINE R == {ss \in Nat \X Nat : ss[1] < ss[2]}
           T == Nat \ X
<1>1. IsWellFoundedOn(R, Nat)
  BY NatLessThanWellFounded DEF OpToRel
<1>2. T # {} => \E x \in T : \A y \in T : ~(<<y, x>> \in R)
  <2> HIDE DEF R
  <2> QED
    BY <1>1, WFMin
<1>3. ASSUME NEW x \in T, \A y \in T : ~(y < x) PROVE FALSE
  <2>1. x - 1 \in Nat /\ x - 1 \notin T
    BY <1>3
  <2> QED
    BY <2>1
<1> QED
  BY <1>2, <1>3

\* The prefixes of a filtered sequence.
Steps(s, S, f, n) ==
  /\ f[0] = <<>>
  /\ \A i \in 1..n : f[i] = IF s[i] \in S THEN Append(f[i - 1], s[i]) ELSE f[i - 1]

LEMMA StepsExist ==
  ASSUME NEW T, NEW s \in Seq(T), NEW S
  PROVE  \E f \in [0..Len(s) -> Seq(T)] : Steps(s, S, f, Len(s))
<1> DEFINE X == {n \in Nat : n <= Len(s) => \E f \in [0..n -> Seq(T)] : Steps(s, S, f, n)}
<1>1. 0 \in X
  <2>1. [i \in 0..0 |-> <<>>] \in [0..0 -> Seq(T)]
    OBVIOUS
  <2>2. Steps(s, S, [i \in 0..0 |-> <<>>], 0)
    BY DEF Steps
  <2> QED
    BY <2>1, <2>2
<1>2. ASSUME NEW n \in Nat, n + 1 <= Len(s), NEW f \in [0..n -> Seq(T)], Steps(s, S, f, n)
      PROVE  \E g \in [0..n + 1 -> Seq(T)] : Steps(s, S, g, n + 1)
  <2>1. Steps(s, S, f, n)
    BY <1>2
  <2>2. s[n + 1] \in T /\ n \in Nat /\ f[n] \in Seq(T)
    BY <1>2
  <2> DEFINE last == IF s[n + 1] \in S THEN Append(f[n], s[n + 1]) ELSE f[n]
             g == [i \in 0..n + 1 |-> IF i = n + 1 THEN last ELSE f[i]]
  <2>3. last \in Seq(T)
    BY <2>2
  <2>4. g \in [0..n + 1 -> Seq(T)]
    BY <2>2, <2>3
  <2>5. g[0] = <<>> /\ g[n + 1] = last /\ \A i \in 0..n : g[i] = f[i]
    BY <2>1, <2>2 DEF Steps
  <2> HIDE DEF g
  <2>6. ASSUME NEW i \in 1..n + 1
        PROVE  g[i] = IF s[i] \in S THEN Append(g[i - 1], s[i]) ELSE g[i - 1]
    <3>1. CASE i = n + 1
      <4>1. i - 1 = n /\ g[n] = f[n]
        BY <2>2, <2>5, <3>1
      <4> QED
        BY <2>5, <3>1, <4>1
    <3>2. CASE i # n + 1
      <4>1. i \in 1..n /\ i \in 0..n /\ i - 1 \in 0..n
        BY <2>2, <3>2
      <4>2. g[i] = f[i] /\ g[i - 1] = f[i - 1]
        BY <2>5, <4>1
      <4> QED
        BY <2>1, <4>1, <4>2 DEF Steps
    <3> QED
      BY <3>1, <3>2
  <2>7. Steps(s, S, g, n + 1)
    BY <2>5, <2>6 DEF Steps
  <2> QED
    BY <2>4, <2>7
<1>3. ASSUME NEW n \in X PROVE n + 1 \in X
  <2>1. n \in Nat /\ n + 1 \in Nat
    OBVIOUS
  <2>2. ASSUME n + 1 <= Len(s)
        PROVE  \E g \in [0..n + 1 -> Seq(T)] : Steps(s, S, g, n + 1)
    <3>1. n <= Len(s)
      BY <2>1, <2>2
    <3>2. PICK f \in [0..n -> Seq(T)] : Steps(s, S, f, n)
      BY <3>1
    <3> QED
      BY <1>2, <2>1, <2>2, <3>2
  <2> QED
    BY <2>1, <2>2
<1>4. Nat \subseteq X
  <2> HIDE DEF X
  <2>1. X \in SUBSET Nat
    BY DEF X
  <2> QED
    BY <1>1, <1>3, <2>1, Induction
<1>5. Len(s) \in X
  BY <1>4
<1> QED
  BY <1>5

LEMMA StepsAgree ==
  ASSUME NEW s, NEW t, NEW S, NEW f, NEW g, NEW m \in Nat,
         Steps(s, S, f, m), Steps(t, S, g, m), \A i \in 1..m : s[i] = t[i]
  PROVE  f[m] = g[m]
<1> DEFINE X == {n \in Nat : n <= m => f[n] = g[n]}
<1>1. 0 \in X
  BY DEF Steps
<1>2. ASSUME NEW n \in Nat, n <= m => f[n] = g[n], n + 1 <= m
      PROVE  f[n + 1] = g[n + 1]
  <2>1. n + 1 \in 1..m /\ (n + 1) - 1 = n /\ f[n] = g[n]
    BY <1>2
  <2>2. f[n + 1] = IF s[n + 1] \in S THEN Append(f[(n + 1) - 1], s[n + 1]) ELSE f[(n + 1) - 1]
    BY <2>1 DEF Steps
  <2>3. g[n + 1] = IF t[n + 1] \in S THEN Append(g[(n + 1) - 1], t[n + 1]) ELSE g[(n + 1) - 1]
    BY <2>1 DEF Steps
  <2> QED
    BY <2>1, <2>2, <2>3
<1>3. Nat \subseteq X
  <2>1. X \in SUBSET Nat /\ \A n \in X : n + 1 \in X
    BY <1>2
  <2> HIDE DEF X
  <2> QED
    BY <1>1, <2>1, Induction
<1> QED
  BY <1>3

LEMMA OfIs ==
  ASSUME NEW T, NEW s \in Seq(T), NEW S, NEW f, Steps(s, S, f, Len(s))
  PROVE  Of(s, S) = f[Len(s)]
<1> DEFINE Is(h) == h = [n \in 0..Len(s) |->
                          IF n = 0 THEN <<>>
                          ELSE IF s[n] \in S THEN Append(h[n - 1], s[n]) ELSE h[n - 1]]
<1>1. Of(s, S) = (CHOOSE h : Is(h))[Len(s)]
  BY DEF Of
<1>2. PICK g \in [0..Len(s) -> Seq(T)] : Steps(s, S, g, Len(s))
  BY StepsExist
<1>3. Is(g)
  <2>1. ASSUME NEW n \in 0..Len(s)
        PROVE  g[n] = IF n = 0 THEN <<>>
                      ELSE IF s[n] \in S THEN Append(g[n - 1], s[n]) ELSE g[n - 1]
    <3>1. CASE n = 0
      BY <1>2, <3>1 DEF Steps
    <3>2. CASE n # 0
      <4>1. n \in 1..Len(s)
        BY <3>2
      <4> QED
        BY <1>2, <3>2, <4>1 DEF Steps
    <3> QED
      BY <3>1, <3>2
  <2> QED
    BY <2>1
<1> DEFINE of == CHOOSE h : Is(h)
<1>4. Is(of)
  BY <1>3
<1> HIDE DEF of
<1>5. Steps(s, S, of, Len(s))
  <2>1. Len(s) \in Nat
    OBVIOUS
  <2>2. of[0] = <<>>
    BY <1>4, <2>1
  <2>3. ASSUME NEW i \in 1..Len(s)
        PROVE  of[i] = IF s[i] \in S THEN Append(of[i - 1], s[i]) ELSE of[i - 1]
    <3>1. i \in 0..Len(s) /\ i # 0
      BY <2>1
    <3> QED
      BY <1>4, <3>1
  <2> QED
    BY <2>2, <2>3 DEF Steps
<1>6. of[Len(s)] = f[Len(s)]
  BY <1>5, StepsAgree
<1> QED
  BY <1>1, <1>6 DEF of

LEMMA OfEmpty == ASSUME NEW S PROVE Of(<<>>, S) = <<>>
<1>1. <<>> \in Seq(S) /\ Len(<<>>) = 0
  OBVIOUS
<1>2. Steps(<<>>, S, [i \in 0..0 |-> <<>>], 0)
  BY DEF Steps
<1> QED
  BY <1>1, <1>2, OfIs

LEMMA OfType ==
  ASSUME NEW T, NEW s \in Seq(T), NEW S
  PROVE  Of(s, S) \in Seq(T)
<1>1. PICK f \in [0..Len(s) -> Seq(T)] : Steps(s, S, f, Len(s))
  BY StepsExist
<1>2. Of(s, S) = f[Len(s)]
  BY <1>1, OfIs
<1>3. Len(s) \in 0..Len(s)
  OBVIOUS
<1> QED
  BY <1>2, <1>3

LEMMA OfAppend ==
  ASSUME NEW T, NEW s \in Seq(T), NEW c \in T, NEW S
  PROVE  Of(Append(s, c), S) = IF c \in S THEN Append(Of(s, S), c) ELSE Of(s, S)
<1> DEFINE a == Append(s, c)
<1>1. /\ a \in Seq(T) /\ Len(a) = Len(s) + 1 /\ Len(s) \in Nat
      /\ a[Len(s) + 1] = c /\ \A i \in 1..Len(s) : a[i] = s[i]
  OBVIOUS
<1> HIDE DEF a
<1>2. PICK f \in [0..Len(a) -> Seq(T)] : Steps(a, S, f, Len(a))
  BY <1>1, StepsExist
<1>3. Steps(s, S, f, Len(s))
  <2>1. \A i \in 1..Len(s) : i \in 1..Len(a)
    BY <1>1
  <2> QED
    BY <1>1, <1>2, <2>1 DEF Steps
<1>4. Of(s, S) = f[Len(s)]
  BY <1>3, OfIs
<1>5. Of(a, S) = f[Len(s) + 1]
  BY <1>1, <1>2, OfIs
<1>6. f[Len(s) + 1] = IF c \in S THEN Append(f[Len(s)], c) ELSE f[Len(s)]
  <2>1. Len(s) + 1 \in 1..Len(a) /\ (Len(s) + 1) - 1 = Len(s)
    BY <1>1
  <2> QED
    BY <1>1, <1>2, <2>1 DEF Steps
<1> QED
  BY <1>4, <1>5, <1>6 DEF a

LEMMA ConcatAppend ==
  ASSUME NEW T, NEW s \in Seq(T), NEW u \in Seq(T), NEW c \in T
  PROVE  s \o Append(u, c) = Append(s \o u, c)
<1>1. Append(u, c) = u \o <<c>> /\ <<c>> \in Seq(T)
  BY AppendIsConcat
<1>2. s \o u \in Seq(T)
  BY ConcatProperties
<1>3. Append(s \o u, c) = (s \o u) \o <<c>>
  BY <1>2, AppendIsConcat
<1> QED
  BY <1>1, <1>3, ConcatAssociative

LEMMA OfConcat ==
  ASSUME NEW T, NEW s \in Seq(T), NEW t \in Seq(T), NEW S
  PROVE  Of(s \o t, S) = Of(s, S) \o Of(t, S)
<1> DEFINE X == {n \in Nat : \A u \in Seq(T) : Len(u) = n =>
                    Of(s \o u, S) = Of(s, S) \o Of(u, S)}
<1>1. 0 \in X
  <2> SUFFICES ASSUME NEW u \in Seq(T), Len(u) = 0
               PROVE  Of(s \o u, S) = Of(s, S) \o Of(u, S)
    OBVIOUS
  <2>1. u = <<>> /\ s \o <<>> = s
    OBVIOUS
  <2>2. Of(s, S) \o <<>> = Of(s, S)
    BY OfType, ConcatEmptySeq
  <2> QED
    BY <2>1, <2>2, OfEmpty
<1>2. ASSUME NEW n \in Nat,
             \A u \in Seq(T) : Len(u) = n => Of(s \o u, S) = Of(s, S) \o Of(u, S),
             NEW v \in Seq(T), Len(v) = n + 1
      PROVE  Of(s \o v, S) = Of(s, S) \o Of(v, S)
  <2>1. PICK u \in Seq(T), c \in T : v = Append(u, c)
    <3>1. v # <<>>
      BY <1>2
    <3> QED
      BY <3>1, SequenceEmptyOrAppend
  <2>2. Len(u) = n
    BY <1>2, <2>1
  <2>3. s \o v = Append(s \o u, c) /\ s \o u \in Seq(T)
    BY <2>1, ConcatAppend, ConcatProperties
  <2>4. Of(s \o u, S) = Of(s, S) \o Of(u, S)
    BY <1>2, <2>2
  <2> DEFINE w == s \o u
  <2>5. Of(s \o v, S) = IF c \in S THEN Append(Of(w, S), c) ELSE Of(w, S)
    <3>1. w \in Seq(T) /\ s \o v = Append(w, c)
      BY <2>3
    <3> HIDE DEF w
    <3> QED
      BY <3>1, OfAppend
  <2>6. Of(v, S) = IF c \in S THEN Append(Of(u, S), c) ELSE Of(u, S)
    BY <2>1, OfAppend
  <2>7. Of(s, S) \in Seq(T) /\ Of(u, S) \in Seq(T)
    BY OfType
  <2>8. CASE c \in S
    <3>1. Of(s, S) \o Append(Of(u, S), c) = Append(Of(s, S) \o Of(u, S), c)
      BY <2>7, ConcatAppend
    <3> QED
      BY <2>4, <2>5, <2>6, <2>8, <3>1
  <2>9. CASE c \notin S
    BY <2>4, <2>5, <2>6, <2>9
  <2> QED
    BY <2>8, <2>9
<1>3. Nat \subseteq X
  <2>1. X \in SUBSET Nat
    OBVIOUS
  <2>2. \A n \in X : n + 1 \in X
    <3> SUFFICES ASSUME NEW n \in Nat,
               \A u \in Seq(T) : Len(u) = n => Of(s \o u, S) = Of(s, S) \o Of(u, S),
               NEW v \in Seq(T), Len(v) = n + 1
        PROVE  Of(s \o v, S) = Of(s, S) \o Of(v, S)
      BY SMTT(60)
    <3> QED
      BY <1>2
  <2> HIDE DEF X
  <2> QED
    BY <1>1, <2>1, <2>2, Induction
<1>4. Len(t) \in X
  BY <1>3
<1> QED
  BY <1>4

-----------------------------------------------------------------------------
\* The part of TypeOK the buffer and its two threads need.
Typed ==
  /\ fifo \in Seq(Commands) /\ stream \in Seq(Commands)
  /\ line \in Commands \cup {None}
  /\ worker = "line" => line # None
  /\ ring \in [0..(Slots - 1) -> Commands \cup {None}]
  /\ head \in 0..(Slots - 1) /\ tail \in 0..(Slots - 1) /\ items \in 0..Slots

\* The indices are items apart.
Apart == head = (tail + items) % Slots

Inv == Typed /\ Apart

USE CommandFileAssumption

\* Indices wrap at most once.
LEMMA Wrap == ASSUME NEW i \in 0..(2 * Slots - 1)
              PROVE  i % Slots = IF i < Slots THEN i ELSE i - Slots
<1>1. Slots \in Nat /\ Slots > 0
  OBVIOUS
<1>2. CASE i < Slots
  BY <1>1, <1>2, SMT
<1>3. CASE i >= Slots
  BY <1>1, <1>3, SMT
<1> QED
  BY <1>1, <1>2, <1>3

\* The i-th command waits in a slot of the buffer.
LEMMA SlotOf ==
  ASSUME NEW t \in 0..(Slots - 1), NEW n \in 0..Slots, NEW i \in 1..n
  PROVE  (t + i - 1) % Slots \in 0..(Slots - 1)
<1>1. t + i - 1 \in 0..(2 * Slots - 1)
  OBVIOUS
<1> QED
  BY <1>1, Wrap

LEMMA InitInv == Init => Inv
<1> SUFFICES ASSUME Init PROVE Inv
  OBVIOUS
<1>1. (tail + items) % Slots = 0
  BY Wrap DEF Init
<1> QED
  BY <1>1 DEF Init, Inv, Typed, Apart

\* A step that leaves the buffer alone keeps the lines typed.
LEMMA LinesTyped ==
  ASSUME Typed, UNCHANGED buffer, Poll \/ Count \/ GetLine \/ NoLine \/ Execute
  PROVE  Typed'
<1>1. CASE Poll
  BY <1>1 DEF Poll, Typed, buffer
<1>2. CASE Count
  BY <1>2 DEF Count, Typed, buffer
<1>3. CASE GetLine
  <2>1. Head(stream) \in Commands /\ Tail(stream) \in Seq(Commands)
    BY <1>3 DEF GetLine, Typed
  <2> QED
    BY <1>3, <2>1 DEF GetLine, Typed, buffer
<1>4. CASE NoLine
  BY <1>4 DEF NoLine, Typed, buffer
<1>5. CASE Execute
  BY <1>5 DEF Execute, Typed, buffer
<1> QED
  BY <1>1, <1>2, <1>3, <1>4, <1>5

LEMMA FillTyped ==
  ASSUME Typed, NEW n \in 1..Len(fifo), Fill(n)
  PROVE  Typed'
<1>1. SubSeq(fifo, 1, n) \in Seq(Commands)
  BY SubSeqProperties DEF Typed
<1>2. SubSeq(fifo, n + 1, Len(fifo)) \in Seq(Commands)
  <2>1. fifo \in Seq(Commands) /\ Len(fifo) \in Nat
    BY DEF Typed
  <2>2. n + 1 \in 1..Len(fifo) + 1
    BY <2>1
  <2> QED
    BY <2>1, <2>2, SubSeqProperties
<1> QED
  BY <1>1, <1>2 DEF Fill, Typed, buffer

LEMMA WriteTyped ==
  ASSUME Typed, NEW c \in Commands, Write(c)
  PROVE  Typed'
BY DEF Write, Typed, buffer

LEMMA MainTyped ==
  ASSUME Typed, UNCHANGED <<input, buffer>>
  PROVE  Typed'
BY DEF Typed, buffer, input

\* What a sequence of values is, told by its elements.
LEMMA ListIsSeq ==
  ASSUME NEW n \in Nat, NEW S, NEW f \in [1..n -> S]
  PROVE  f \in Seq(S) /\ Len(f) = n
<1>1. f \in Seq(S)
  BY SeqDef
<1> QED
  BY <1>1, LenProperties

LEMMA ContentsSeq ==
  ASSUME Typed
  PROVE  Contents \in Seq(Commands \cup {None}) /\ Len(Contents) = items
<1>1. \A i \in 1..items : ring[(tail + i - 1) % Slots] \in Commands \cup {None}
  <2> TAKE i \in 1..items
  <2>1. (tail + i - 1) % Slots \in 0..(Slots - 1)
    BY Wrap DEF Typed
  <2> QED
    BY <2>1 DEF Typed
<1>2. Contents \in [1..items -> Commands \cup {None}]
  BY <1>1 DEF Contents
<1> QED
  BY <1>2, ListIsSeq DEF Typed

LEMMA ContentsSeqNext ==
  ASSUME Typed'
  PROVE  Contents' \in Seq(Commands \cup {None}) /\ Len(Contents') = items'
<1>1. \A i \in 1..items' : ring'[(tail' + i - 1) % Slots] \in Commands \cup {None}
  <2> TAKE i \in 1..items'
  <2>0. tail' \in 0..(Slots - 1) /\ items' \in 0..Slots
    BY DEF Typed
  <2>1. (tail' + i - 1) % Slots \in 0..(Slots - 1)
    BY <2>0, SlotOf
  <2> QED
    BY <2>1 DEF Typed
<1>2. Contents' \in [1..items' -> Commands \cup {None}]
  BY <1>1 DEF Contents
<1> QED
  BY <1>2, ListIsSeq DEF Typed

\* What submit_external_command and check_for_external_commands do to the
\* buffer is what the queue promises.
LEMMA SubmitPuts ==
  ASSUME Inv, Submit
  PROVE  /\ Inv' /\ Contents' = Append(Contents, line)
         /\ \E c \in Commands : Queue!Put(c)
<1>1. head' = (head + 1) % Slots /\ items' = items + 1 /\ tail' = tail
      /\ ring' = [ring EXCEPT ![head] = line] /\ line \in Commands
      /\ items < Slots /\ line' = None /\ worker' # "line"
      /\ fifo' = fifo /\ stream' = stream
  <2>1. line \in Commands
    <3>1. worker = "line"
      BY DEF Submit
    <3> QED
      BY <3>1 DEF Inv, Typed
  <2>2. worker' # "line"
    BY DEF Submit
  <2> QED
    BY <2>1, <2>2 DEF Submit
<1>2. head \in 0..(Slots - 1) /\ tail \in 0..(Slots - 1) /\ items \in 0..Slots
  BY DEF Inv, Typed
<1>3. (head + 1) % Slots \in 0..(Slots - 1)
  BY <1>2, Wrap
<1>4. Typed'
  BY <1>1, <1>2, <1>3 DEF Inv, Typed
<1>5. Apart'
  <2>1. head = IF tail + items < Slots THEN tail + items ELSE tail + items - Slots
    BY <1>2, Wrap DEF Inv, Apart
  <2>2. head' = IF head + 1 < Slots THEN head + 1 ELSE head + 1 - Slots
    BY <1>1, <1>2, Wrap
  <2>3. tail' + items' = tail + items + 1 /\ tail + items + 1 \in 0..(2 * Slots - 1)
    BY <1>1, <1>2
  <2> DEFINE sum == tail + items + 1
  <2> HIDE DEF sum
  <2>4. sum % Slots = IF sum < Slots THEN sum ELSE sum - Slots
    BY <2>3, Wrap DEF sum
  <2>5. tail' + items' = sum /\ sum = tail + items + 1
    BY <2>3 DEF sum
  <2>6. head' = sum % Slots
    BY <1>1, <1>2, <2>1, <2>2, <2>4, <2>5
  <2> QED
    BY <2>5, <2>6 DEF Apart
<1>6. Len(Contents) = items /\ Contents \in Seq(Commands \cup {None})
  BY ContentsSeq DEF Inv
<1>7. Contents' = Append(Contents, line)
  <2>1. Contents' = [i \in 1..(items + 1) |-> ring'[(tail + i - 1) % Slots]]
    BY <1>1 DEF Contents
  <2>2. ASSUME NEW i \in 1..items
        PROVE  ring'[(tail + i - 1) % Slots] = Contents[i]
    <3>1. (tail + i - 1) % Slots # head
      <4>1. (tail + i - 1) % Slots = IF tail + i - 1 < Slots THEN tail + i - 1
                                     ELSE tail + i - 1 - Slots
        BY <1>2, Wrap
      <4>2. head = IF tail + items < Slots THEN tail + items ELSE tail + items - Slots
        BY <1>2, Wrap DEF Inv, Apart
      <4> QED
        BY <1>1, <1>2, <4>1, <4>2
    <3>2. (tail + i - 1) % Slots \in 0..(Slots - 1)
      BY <1>2, Wrap
    <3> QED
      BY <1>1, <3>1, <3>2 DEF Inv, Typed, Contents
  <2>3. ring'[(tail + (items + 1) - 1) % Slots] = line
    <3>1. (tail + (items + 1) - 1) % Slots = head
      BY <1>2 DEF Inv, Apart
    <3> QED
      BY <1>1, <1>2, <3>1 DEF Inv, Typed
  <2>4. Contents' \in Seq(Commands \cup {None}) /\ Len(Contents') = items + 1
    BY <1>1, <1>4, ContentsSeqNext
  <2>5. \A i \in 1..items + 1 : Contents'[i] = ring'[(tail + i - 1) % Slots]
    BY <2>1
  <2>6. ASSUME NEW i \in 1..items + 1 PROVE Contents'[i] = Append(Contents, line)[i]
    <3>0. \A j \in 1..items + 1 : Append(Contents, line)[j] =
                               IF j = items + 1 THEN line ELSE Contents[j]
      <4>1. line \in Commands \cup {None}
        BY <1>1
      <4> QED
        BY <1>6, <4>1, AppendProperties
    <3>1. CASE i \in 1..items
      <4>1. ring'[(tail + i - 1) % Slots] = Contents[i]
        BY <2>2, <3>1
      <4>2. i # items + 1
        BY <1>2, <3>1
      <4> QED
        BY <2>5, <2>6, <3>0, <4>1, <4>2
    <3>2. CASE i = items + 1
      <4>1. Contents'[items + 1] = ring'[(tail + (items + 1) - 1) % Slots]
        BY <1>2, <2>5
      <4> QED
        BY <2>3, <2>6, <3>0, <3>2, <4>1
    <3>3. i \in 1..items \/ i = items + 1
      BY <1>2, <2>6
    <3> QED
      BY <3>1, <3>2, <3>3
  <2>7. /\ Append(Contents, line) \in Seq(Commands \cup {None})
        /\ Len(Append(Contents, line)) = items + 1
    BY <1>1, <1>6, AppendProperties
  <2> QED
    BY <2>4, <2>6, <2>7, SeqEqual
<1>8. Queue!Put(line)
  BY <1>1, <1>6, <1>7 DEF Queue!Put
<1> QED
  BY <1>1, <1>4, <1>5, <1>7, <1>8 DEF Inv

LEMMA TakeTakes ==
  ASSUME Inv, Take
  PROVE  Inv' /\ Queue!Take
<1>1. tail' = (tail + 1) % Slots /\ items' = items - 1 /\ items > 0 /\ head' = head
      /\ ring' = [ring EXCEPT ![tail] = None] /\ UNCHANGED input
  BY DEF Take
<1>2. head \in 0..(Slots - 1) /\ tail \in 0..(Slots - 1) /\ items \in 1..Slots
  BY <1>1 DEF Inv, Typed
<1>3. tail' = IF tail + 1 < Slots THEN tail + 1 ELSE tail + 1 - Slots
  BY <1>1, <1>2, Wrap
<1>4. Typed'
  <2>1. tail' \in 0..(Slots - 1)
    BY <1>2, <1>3
  <2> QED
    BY <1>1, <1>2, <2>1 DEF Inv, Typed, input
<1>5. Apart'
  <2>1. head = IF tail + items < Slots THEN tail + items ELSE tail + items - Slots
    BY <1>2, Wrap DEF Inv, Apart
  <2>2. tail' + items' \in 0..(2 * Slots - 1)
    BY <1>1, <1>2, <1>3
  <2> DEFINE sum == tail' + items'
  <2> HIDE DEF sum
  <2>3. sum % Slots = IF sum < Slots THEN sum ELSE sum - Slots
    BY <2>2, Wrap DEF sum
  <2>4. sum = tail' + items' /\ sum % Slots = (tail' + items') % Slots
    BY DEF sum
  <2>5. head' = sum % Slots
    BY <1>1, <1>2, <1>3, <2>1, <2>3, <2>4
  <2> QED
    BY <2>4, <2>5 DEF Apart
<1>6. Len(Contents) = items /\ Contents \in Seq(Commands \cup {None})
  BY ContentsSeq DEF Inv
<1>7. Contents' = Tail(Contents)
  <2>1. Contents' = [i \in 1..(items - 1) |-> ring'[(tail' + i - 1) % Slots]]
    BY <1>1 DEF Contents
  <2>2. ASSUME NEW i \in 1..(items - 1)
        PROVE  ring'[(tail' + i - 1) % Slots] = Contents[i + 1]
    <3>1. (tail' + i - 1) % Slots = IF tail' + i - 1 < Slots THEN tail' + i - 1
                                    ELSE tail' + i - 1 - Slots
      BY <1>2, <1>3, Wrap
    <3>2. (tail + (i + 1) - 1) % Slots = IF tail + i < Slots THEN tail + i
                                         ELSE tail + i - Slots
      BY <1>2, Wrap
    <3>3. (tail' + i - 1) % Slots = (tail + (i + 1) - 1) % Slots
      BY <1>2, <1>3, <3>1, <3>2
    <3>4. (tail + (i + 1) - 1) % Slots # tail
      BY <1>2, <3>2
    <3>5. (tail + (i + 1) - 1) % Slots \in 0..(Slots - 1)
      BY <1>2, <3>2
    <3>6. Contents[i + 1] = ring[(tail + (i + 1) - 1) % Slots]
      BY <1>2 DEF Contents
    <3> QED
      BY <1>1, <3>3, <3>4, <3>5, <3>6 DEF Inv, Typed
  <2>3. /\ Tail(Contents) \in Seq(Commands \cup {None}) /\ Len(Tail(Contents)) = items - 1
        /\ \A i \in 1..items - 1 : Tail(Contents)[i] = Contents[i + 1]
    BY <1>2, <1>6, HeadTailProperties
  <2>4. Contents' \in Seq(Commands \cup {None}) /\ Len(Contents') = items - 1
    BY <1>1, <1>4, ContentsSeqNext
  <2>5. \A i \in 1..items - 1 : Contents'[i] = Tail(Contents)[i]
    BY <2>1, <2>2, <2>3
  <2> QED
    BY <2>3, <2>4, <2>5, SeqEqual
<1>8. Contents # <<>>
  BY <1>2, <1>6
<1> QED
  BY <1>4, <1>5, <1>7, <1>8 DEF Inv, Queue!Take

LEMMA NextQueue == ASSUME Inv, [Next]_vars
                   PROVE  Inv' /\ [Queue!Next]_Contents
<1>1. CASE Submit
  BY <1>1, SubmitPuts DEF Queue!Next
<1>2. CASE Take
  BY <1>2, TakeTakes DEF Queue!Next
<1>3. ASSUME UNCHANGED buffer, Typed'
      PROVE  Inv' /\ Contents' = Contents
  BY <1>3 DEF Inv, Apart, Contents, buffer
<1>4. CASE Poll \/ Count \/ GetLine \/ NoLine \/ Execute
  <2>1. UNCHANGED buffer
    BY <1>4 DEF Poll, Count, GetLine, NoLine, Execute
  <2> QED
    BY <1>3, <1>4, <2>1, LinesTyped DEF Inv
<1>5. ASSUME NEW n \in 1..Len(fifo), Fill(n)
      PROVE  Inv' /\ [Queue!Next]_Contents
  BY <1>3, <1>5, FillTyped DEF Inv, Fill
<1>6. ASSUME NEW c \in Commands, Write(c)
      PROVE  Inv' /\ [Queue!Next]_Contents
  BY <1>3, <1>6, WriteTyped DEF Inv, Write
<1>7. CASE \/ CheckCommands \/ NoItem \/ Process \/ StartReaping
           \/ Reap \/ NoResult \/ UNCHANGED vars
  <2>1. UNCHANGED <<input, buffer>>
    BY <1>7 DEF CheckCommands, NoItem, Process, StartReaping, Reap, NoResult,
                vars, input, buffer
  <2> QED
    BY <1>3, <2>1, MainTyped DEF Inv
<1> QED
  BY <1>1, <1>2, <1>4, <1>5, <1>6, <1>7 DEF Next, Worker, Main

-----------------------------------------------------------------------------
(* The lines on their way, in order.                                         *)
Other == Commands \ Safe
Passive == Safe \ Refused
Read == Opt(line) \o stream \o fifo

\* What was written is what passed the worker, and what it still has to read.
Way(S, passed) == Of(sent, S) = passed \o Of(Read, S)
PassedOther == Of(done, Other) \o Opt(command) \o Contents
PassedResults == Of(done, Passive) \o results

\* Each kind of command keeps to its own way.
Kinds ==
  /\ Contents \in Seq(Other) /\ results \in Seq(Passive)
  /\ command \in Other \cup {None}

IInv == /\ TypeOK /\ Inv /\ Kinds
        /\ Way(Other, PassedOther) /\ Way(Passive, PassedResults)

LEMMA OptSeq ==
  ASSUME NEW S \in SUBSET Commands, NEW x \in S \cup {None}
  PROVE  /\ Opt(x) \in Seq(S)
         /\ x = None => Opt(x) = <<>>
         /\ x # None => Opt(x) = <<x>>
BY DEF Opt

LEMMA OfOne ==
  ASSUME NEW c \in Commands, NEW S
  PROVE  Of(<<c>>, S) = IF c \in S THEN <<c>> ELSE <<>>
<1>1. <<>> \in Seq(Commands) /\ <<c>> = Append(<<>>, c)
  OBVIOUS
<1>2. Of(Append(<<>>, c), S) = IF c \in S THEN Append(Of(<<>>, S), c) ELSE Of(<<>>, S)
  BY <1>1, OfAppend
<1> QED
  BY <1>1, <1>2, OfEmpty

LEMMA ReadSeq ==
  ASSUME TypeOK
  PROVE  Read \in Seq(Commands)
<1>1. Opt(line) \in Seq(Commands)
  BY OptSeq DEF TypeOK
<1> QED
  BY <1>1, ConcatProperties DEF Read, TypeOK

LEMMA PassedSeq ==
  ASSUME TypeOK, Kinds
  PROVE  PassedOther \in Seq(Commands) /\ PassedResults \in Seq(Commands)
<1>1. Of(done, Other) \in Seq(Commands) /\ Of(done, Passive) \in Seq(Commands)
  BY OfType DEF TypeOK
<1>2. Opt(command) \in Seq(Commands)
  BY OptSeq DEF TypeOK
<1>3. Contents \in Seq(Commands) /\ results \in Seq(Commands)
  BY SeqMonotonic DEF Kinds, Other, Passive
<1> QED
  BY <1>1, <1>2, <1>3, ConcatProperties DEF PassedOther, PassedResults

LEMMA InitWay == Init => IInv
<1> SUFFICES ASSUME Init PROVE IInv
  OBVIOUS
<1>1. Inv
  BY InitInv
<1>2. TypeOK
  BY <1>1 DEF Init, TypeOK, Inv, Typed
<1>3. Contents = <<>> /\ Kinds
  <2>1. Contents = <<>>
    BY DEF Init, Contents
  <2> QED
    BY <2>1 DEF Init, Kinds
<1>4. Opt(line) = <<>> /\ Opt(command) = <<>>
  BY DEF Init, Opt
<1>5. ASSUME NEW S PROVE Of(sent, S) = <<>> /\ Of(done, S) = <<>> /\ Of(Read, S) = <<>>
  <2>1. Read = <<>>
    BY <1>4 DEF Init, Read
  <2> QED
    BY <2>1, OfEmpty DEF Init
<1>6. Way(Other, PassedOther) /\ Way(Passive, PassedResults)
  <2>1. <<>> \o <<>> = <<>> /\ results = <<>>
    BY ConcatEmptySeq DEF Init
  <2>2. PassedOther = <<>> /\ PassedResults = <<>>
    BY <1>3, <1>4, <1>5, <2>1 DEF PassedOther, PassedResults
  <2> QED
    BY <1>5, <2>1, <2>2 DEF Way
<1> QED
  BY <1>1, <1>2, <1>3, <1>6 DEF IInv

\* A line that is written joins what has to be read.
LEMMA WriteWay ==
  ASSUME TypeOK, NEW c \in Commands, Write(c), NEW S,
         NEW passed \in Seq(Commands), Way(S, passed)
  PROVE  Of(sent', S) = passed \o Of(Read', S)
<1>1. sent' = Append(sent, c) /\ fifo' = Append(fifo, c) /\ UNCHANGED <<line, stream>>
  BY DEF Write
<1>2. Read' = Append(Read, c)
  <2> DEFINE pre == Opt(line) \o stream
  <2>1. pre \in Seq(Commands)
    BY OptSeq, ConcatProperties DEF TypeOK
  <2>2. Read = pre \o fifo /\ Read' = pre \o Append(fifo, c)
    BY <1>1 DEF Read
  <2>3. fifo \in Seq(Commands)
    BY DEF TypeOK
  <2> HIDE DEF pre
  <2>4. pre \o Append(fifo, c) = Append(pre \o fifo, c)
    BY ONLY c \in Commands, <2>1, <2>3, ConcatAppend
  <2> QED
    BY <2>2, <2>4
<1>3. Read \in Seq(Commands) /\ sent \in Seq(Commands)
  BY ReadSeq DEF TypeOK
<1>4. Of(sent', S) = IF c \in S THEN Append(Of(sent, S), c) ELSE Of(sent, S)
  BY <1>1, <1>3, OfAppend
<1>5. Of(Read', S) = IF c \in S THEN Append(Of(Read, S), c) ELSE Of(Read, S)
  BY <1>2, <1>3, OfAppend
<1>6. passed \o Append(Of(Read, S), c) = Append(passed \o Of(Read, S), c)
  <2>1. Of(Read, S) \in Seq(Commands)
    BY <1>3, OfType
  <2> QED
    BY <2>1, ConcatAppend
<1> QED
  BY <1>4, <1>5, <1>6 DEF Way

\* fgets moves lines towards the worker.
LEMMA ReadKept ==
  ASSUME TypeOK, GetLine \/ NoLine \/ \E n \in 1..Len(fifo) : Fill(n)
  PROVE  Read' = Read
<1>1. line = None /\ Opt(line) = <<>>
  <2>1. worker = "read"
    BY DEF GetLine, NoLine, Fill
  <2> QED
    BY <2>1 DEF TypeOK, Opt
<1>2. CASE GetLine
  <2>1. stream \in Seq(Commands) /\ stream # <<>> /\ fifo' = fifo
        /\ line' = Head(stream) /\ stream' = Tail(stream)
    BY <1>2 DEF GetLine, TypeOK
  <2>2. line' \in Commands
    BY <2>1
  <2>3. Opt(line') = <<line'>>
    BY <2>2, OptSeq
  <2>4. stream = <<line'>> \o stream'
    BY <2>1
  <2>5. Opt(line) \o stream = Opt(line') \o stream'
    <3>1. <<>> \o stream = stream
      BY <2>1, ConcatEmptySeq
    <3> QED
      BY <1>1, <2>3, <2>4, <3>1
  <2> QED
    BY <2>1, <2>5 DEF Read
<1>3. CASE NoLine
  BY <1>3 DEF NoLine, Read
<1>4. ASSUME NEW n \in 1..Len(fifo), Fill(n) PROVE Read' = Read
  <2>1. stream' = SubSeq(fifo, 1, n) /\ fifo' = SubSeq(fifo, n + 1, Len(fifo))
        /\ line' = line /\ stream = <<>> /\ fifo \in Seq(Commands) /\ Len(fifo) \in Nat
    BY <1>4 DEF Fill, TypeOK
  <2>2. SubSeq(fifo, 1, n) \o SubSeq(fifo, n + 1, Len(fifo)) = SubSeq(fifo, 1, Len(fifo))
    <3>1. 1 \in 1..Len(fifo) + 1 /\ n \in 1 - 1..Len(fifo) /\ Len(fifo) \in n..Len(fifo)
      BY <2>1
    <3> QED
      BY <2>1, <3>1, ConcatAdjacentSubSeq
  <2>3. SubSeq(fifo, 1, Len(fifo)) = fifo
    BY <2>1, SubSeqFull
  <2>4. stream' \in Seq(Commands)
    BY <2>1, SubSeqProperties
  <2>5. Opt(line) \o stream = <<>> /\ Opt(line') \o stream' = stream'
    BY <1>1, <2>1, <2>4, ConcatEmptySeq
  <2>6. <<>> \o fifo = fifo
    BY <2>1, ConcatEmptySeq
  <2> QED
    BY <2>1, <2>2, <2>3, <2>5, <2>6 DEF Read
<1> QED
  BY <1>2, <1>3, <1>4

\* The worker has dealt with a line: it has passed, if it is of the kind.
LEMMA LinePassed ==
  ASSUME TypeOK, line # None, line' = None, UNCHANGED <<sent, stream, fifo>>, NEW S,
         NEW passed \in Seq(Commands), Way(S, passed)
  PROVE  Of(sent', S) = (IF line \in S THEN Append(passed, line) ELSE passed) \o Of(Read', S)
<1>1. line \in Commands /\ Opt(line) = <<line>> /\ Opt(line') = <<>>
  BY DEF TypeOK, Opt
<1>2. Read' = stream \o fifo /\ Read' \in Seq(Commands)
  <2>1. Read' = (<<>> \o stream) \o fifo
    BY <1>1 DEF Read
  <2> QED
    BY <2>1, ConcatEmptySeq, ConcatProperties DEF TypeOK
<1>3. Read = <<line>> \o Read' /\ <<line>> \in Seq(Commands)
  <2>1. Read = (<<line>> \o stream) \o fifo
    BY <1>1 DEF Read
  <2> QED
    BY <1>1, <1>2, <2>1, ConcatAssociative, SMTT(60) DEF TypeOK
<1>4. Of(Read, S) = Of(<<line>>, S) \o Of(Read', S)
  <2> DEFINE rest == Read'
             one == <<line>>
  <2>1. rest \in Seq(Commands) /\ one \in Seq(Commands) /\ Read = one \o rest
    BY <1>2, <1>3
  <2> HIDE DEF rest, one
  <2>2. Of(one \o rest, S) = Of(one, S) \o Of(rest, S)
    BY <2>1, OfConcat
  <2> QED
    BY <2>1, <2>2 DEF rest, one
<1>5. Of(Read', S) \in Seq(Commands)
  BY <1>2, OfType
<1>6. CASE line \in S
  <2>1. Of(<<line>>, S) = <<line>>
    BY <1>1, <1>6, OfOne
  <2>2. (passed \o <<line>>) \o Of(Read', S) = passed \o (<<line>> \o Of(Read', S))
    BY <1>3, <1>5, ConcatAssociative
  <2>3. Append(passed, line) = passed \o <<line>>
    BY <1>1, AppendIsConcat
  <2> QED
    BY <1>4, <1>6, <2>1, <2>2, <2>3 DEF Way
<1>7. CASE line \notin S
  <2>1. Of(<<line>>, S) = <<>>
    BY <1>1, <1>7, OfOne
  <2>2. <<>> \o Of(Read', S) = Of(Read', S)
    BY <1>5, ConcatEmptySeq
  <2> QED
    BY <1>4, <1>7, <2>1, <2>2 DEF Way
<1> QED
  BY <1>6, <1>7

\* A step that leaves the way of the lines alone.
LEMMA StillWay ==
  ASSUME IInv, TypeOK', Inv', Read' = Read, Contents' = Contents,
         UNCHANGED <<sent, results, done, command>>
  PROVE  IInv'
<1>1. PassedOther' = PassedOther /\ PassedResults' = PassedResults /\ Kinds'
  BY DEF PassedOther, PassedResults, Kinds, IInv
<1>2. Way(Other, PassedOther)' /\ Way(Passive, PassedResults)'
  BY <1>1 DEF IInv, Way
<1> QED
  BY <1>1, <1>2 DEF IInv

LEMMA QuietWay ==
  ASSUME IInv, Inv', Contents' = Contents,
         \/ Poll \/ Count \/ GetLine \/ NoLine \/ \E n \in 1..Len(fifo) : Fill(n)
         \/ CheckCommands \/ NoItem \/ StartReaping \/ NoResult \/ UNCHANGED vars
  PROVE  IInv'
<1> USE DEF buffer, handling, input
<1>1. CASE Poll \/ Count
  <2>1. TypeOK'
    BY <1>1 DEF Poll, Count, TypeOK, IInv, Inv, Typed
  <2>2. Read' = Read /\ UNCHANGED <<sent, results, done, command>>
    BY <1>1 DEF Poll, Count, Read
  <2> QED
    BY <2>1, <2>2, StillWay
<1>2. CASE GetLine \/ NoLine \/ \E n \in 1..Len(fifo) : Fill(n)
  <2>1. /\ UNCHANGED <<sent, ring, head, tail, items, main, command, results, done>>
        /\ worker' = "line" <=> line' # None
        /\ worker' \in {"poll", "count", "read", "line"}
    <3>1. CASE GetLine
      <4>1. Head(stream) # None
        BY <3>1 DEF GetLine, IInv, TypeOK
      <4> QED
        BY <3>1, <4>1 DEF GetLine
    <3>2. CASE NoLine \/ \E n \in 1..Len(fifo) : Fill(n)
      BY <3>2 DEF NoLine, Fill, IInv, TypeOK
    <3> QED
      BY <1>2, <3>1, <3>2
  <2>2. fifo' \in Seq(Commands) /\ stream' \in Seq(Commands) /\ line' \in Commands \cup {None}
    BY DEF Inv, Typed
  <2>3. TypeOK'
    BY <2>1, <2>2 DEF IInv, TypeOK
  <2>4. Read' = Read
    BY <1>2, ReadKept DEF IInv
  <2> QED
    BY <2>1, <2>3, <2>4, StillWay
<1>3. CASE CheckCommands \/ NoItem \/ StartReaping \/ NoResult
  <2>1. TypeOK'
    BY <1>3 DEF CheckCommands, NoItem, StartReaping, NoResult, TypeOK, IInv
  <2>2. Read' = Read /\ UNCHANGED <<sent, results, done, command>>
    BY <1>3 DEF CheckCommands, NoItem, StartReaping, NoResult, Read
  <2> QED
    BY <2>1, <2>2, StillWay
<1>4. CASE UNCHANGED vars
  <2>1. TypeOK' /\ Read' = Read /\ UNCHANGED <<sent, results, done, command>>
    BY <1>4 DEF vars, TypeOK, IInv, Read
  <2> QED
    BY <2>1, StillWay
<1> QED
  BY <1>1, <1>2, <1>3, <1>4

LEMMA WrittenWay ==
  ASSUME IInv, NEW c \in Commands, Write(c), Inv', Contents' = Contents
  PROVE  IInv'
<1>1. TypeOK'
  BY DEF Write, IInv, TypeOK, buffer, handling
<1>2. UNCHANGED <<results, done, command>>
  BY DEF Write, handling
<1>3. PassedOther' = PassedOther /\ PassedResults' = PassedResults /\ Kinds'
  BY <1>2 DEF PassedOther, PassedResults, Kinds, IInv
<1>4. PassedOther \in Seq(Commands) /\ PassedResults \in Seq(Commands)
  BY PassedSeq DEF IInv
<1>5. Way(Other, PassedOther)'
  BY <1>3, <1>4, WriteWay DEF IInv, Way
<1>6. Way(Passive, PassedResults)'
  BY <1>3, <1>4, WriteWay DEF IInv, Way
<1> QED
  BY <1>1, <1>3, <1>5, <1>6 DEF IInv

\* The worker executes the line, or puts it into the buffer.
LEMMA LineWay ==
  ASSUME IInv, Inv', \/ Execute /\ Contents' = Contents
                     \/ Submit /\ Contents' = Append(Contents, line)
  PROVE  IInv'
<1>1. /\ line \in Commands /\ line # None /\ line' = None
      /\ UNCHANGED <<sent, stream, fifo, main, command, done>>
  BY DEF Execute, Submit, handling, IInv, TypeOK
<1>2. CASE Execute
  <2>1. /\ line \in Safe /\ line \notin Other /\ Contents' = Contents /\ worker' = "read"
        /\ results' = IF line \in Passive THEN Append(results, line) ELSE results
    <3>1. ~Submit
      BY <1>2 DEF Execute, Submit
    <3> QED
      BY <1>2, <3>1 DEF Execute, Passive, Other
  <2>2. results' \in Seq(Passive) /\ results' \in Seq(Commands)
    <3>1. results \in Seq(Passive) /\ results \in Seq(Commands)
      BY DEF IInv, Kinds, TypeOK
    <3> QED
      BY <1>1, <2>1, <3>1
  <2>3. TypeOK'
    BY <1>1, <2>1, <2>2 DEF IInv, TypeOK, Inv, Typed
  <2>4. PassedOther' = PassedOther /\ Kinds'
    BY <1>1, <2>1, <2>2 DEF PassedOther, Kinds, IInv
  <2>5. PassedResults' = IF line \in Passive THEN Append(PassedResults, line)
                         ELSE PassedResults
    <3>1. Of(done, Passive) \in Seq(Commands) /\ results \in Seq(Commands)
      BY OfType DEF IInv, TypeOK
    <3>2. line \in Passive => Of(done, Passive) \o Append(results, line)
                               = Append(Of(done, Passive) \o results, line)
      BY <1>1, <3>1, ConcatAppend
    <3> QED
      BY <1>1, <2>1, <3>2 DEF PassedResults
  <2>6. PassedOther \in Seq(Commands) /\ PassedResults \in Seq(Commands)
    BY PassedSeq DEF IInv
  <2>7. Way(Other, PassedOther)'
    <3>1. Of(sent', Other) = (IF line \in Other THEN Append(PassedOther, line) ELSE PassedOther)
                               \o Of(Read', Other)
      BY <1>1, <2>6, LinePassed DEF IInv
    <3> QED
      BY <2>1, <2>4, <3>1 DEF Way
  <2>8. Way(Passive, PassedResults)'
    <3>1. Of(sent', Passive) = (IF line \in Passive THEN Append(PassedResults, line)
                                ELSE PassedResults) \o Of(Read', Passive)
      BY <1>1, <2>6, LinePassed DEF IInv
    <3> QED
      BY <2>5, <3>1 DEF Way
  <2> QED
    BY <2>3, <2>4, <2>7, <2>8 DEF IInv
<1>3. CASE Submit
  <2>1. /\ line \in Other /\ line \notin Passive /\ results' = results
        /\ Contents' = Append(Contents, line) /\ worker' \in {"poll", "read"}
    <3>1. ~Execute
      BY <1>3 DEF Execute, Submit
    <3> QED
      BY <1>1, <1>3, <3>1 DEF Submit, Other, Passive
  <2>2. Contents' \in Seq(Other)
    BY <2>1 DEF IInv, Kinds
  <2>3. TypeOK'
    BY <1>1, <2>1 DEF IInv, TypeOK, Inv, Typed
  <2>4. PassedResults' = PassedResults /\ Kinds'
    BY <1>1, <2>1, <2>2 DEF PassedResults, Kinds, IInv
  <2>5. PassedOther' = Append(PassedOther, line)
    <3> DEFINE pre == Of(done, Other) \o Opt(command)
    <3>1. pre \in Seq(Commands)
      BY OfType, OptSeq, ConcatProperties DEF IInv, TypeOK
    <3>2. Contents \in Seq(Commands)
      BY SeqMonotonic DEF IInv, Kinds, Other
    <3>3. PassedOther = pre \o Contents /\ PassedOther' = pre \o Append(Contents, line)
      BY <1>1, <2>1 DEF PassedOther
    <3> HIDE DEF pre
    <3> QED
      BY <1>1, <3>1, <3>2, <3>3, ConcatAppend
  <2>6. PassedOther \in Seq(Commands) /\ PassedResults \in Seq(Commands)
    BY PassedSeq DEF IInv
  <2>7. Way(Other, PassedOther)'
    <3>1. Of(sent', Other) = (IF line \in Other THEN Append(PassedOther, line) ELSE PassedOther)
                               \o Of(Read', Other)
      BY <1>1, <2>6, LinePassed DEF IInv
    <3> QED
      BY <2>1, <2>5, <3>1 DEF Way
  <2>8. Way(Passive, PassedResults)'
    <3>1. Of(sent', Passive) = (IF line \in Passive THEN Append(PassedResults, line)
                                ELSE PassedResults) \o Of(Read', Passive)
      BY <1>1, <2>6, LinePassed DEF IInv
    <3> QED
      BY <2>1, <2>4, <3>1 DEF Way
  <2> QED
    BY <2>3, <2>4, <2>7, <2>8 DEF IInv
<1> QED
  BY <1>2, <1>3

\* What the main thread does to the lines that passed the worker.
LEMMA MainWay ==
  ASSUME IInv, Inv', TypeOK', Kinds', UNCHANGED <<sent, input>>,
         PassedOther' = PassedOther, PassedResults' = PassedResults
  PROVE  IInv'
<1>1. Read' = Read /\ sent' = sent
  BY DEF Read, input
<1>2. Way(Other, PassedOther)' /\ Way(Passive, PassedResults)'
  BY <1>1 DEF Way, IInv
<1> QED
  BY <1>2 DEF IInv

LEMMA TakeWay ==
  ASSUME IInv, Inv', Take, Contents' = Tail(Contents)
  PROVE  IInv'
<1>1. /\ Len(Contents) = items /\ items \in Nat /\ items > 0
      /\ Contents \in Seq(Other) /\ Contents # <<>>
  <2>1. Len(Contents) = items
    BY ContentsSeq DEF IInv, Inv
  <2>2. items \in Nat /\ items > 0 /\ Contents \in Seq(Other)
    BY DEF Take, IInv, Kinds, TypeOK
  <2> QED
    BY <2>1, <2>2
<1>2. command' = Head(Contents)
  <2>1. Contents[1] = ring[(tail + 1 - 1) % Slots]
    BY <1>1 DEF Contents
  <2>2. tail + 1 - 1 = tail /\ tail \in 0..(2 * Slots - 1) /\ tail < Slots
    BY DEF IInv, TypeOK
  <2>3. tail % Slots = tail
    BY <2>2, Wrap
  <2>4. Head(Contents) = Contents[1]
    BY <1>1
  <2> QED
    BY <2>1, <2>2, <2>3, <2>4 DEF Take
<1>3. command' \in Other /\ command' # None /\ Contents' \in Seq(Other)
  BY <1>1, <1>2 DEF Other
<1>4. command = None /\ UNCHANGED <<sent, fifo, stream, line, worker, results, done>>
      /\ main' = "process"
  BY DEF Take, input, IInv, TypeOK
<1>5. TypeOK'
  BY <1>3, <1>4 DEF IInv, TypeOK, Inv, Typed, Other
<1>6. PassedOther' = PassedOther /\ PassedResults' = PassedResults
  <2> DEFINE d == Of(done, Other)
             rest == Contents'
             x == command'
  <2>1. d \in Seq(Commands) /\ Contents \in Seq(Commands) /\ rest \in Seq(Commands)
        /\ x \in Commands
    BY <1>1, <1>3, OfType, SeqMonotonic DEF IInv, TypeOK, Other
  <2>2. Opt(command) = <<>> /\ Opt(x) = <<x>>
    BY <1>3, <1>4 DEF Opt
  <2>3. Contents = <<x>> \o rest
    BY <1>1, <1>2
  <2>4. PassedOther = (d \o <<>>) \o Contents /\ PassedOther' = (d \o <<x>>) \o rest
    BY <1>4, <2>2 DEF PassedOther
  <2> HIDE DEF d, rest, x
  <2>5. d \o <<>> = d
    BY <2>1, ConcatEmptySeq
  <2>6. (d \o <<x>>) \o rest = d \o (<<x>> \o rest)
    <3>1. <<x>> \in Seq(Commands)
      BY <2>1
    <3> QED
      BY <2>1, <3>1, ConcatAssociative
  <2> QED
    BY <1>4, <2>3, <2>4, <2>5, <2>6 DEF PassedResults
<1>7. Kinds'
  BY <1>3, <1>4 DEF Kinds, IInv
<1> QED
  BY <1>4, <1>5, <1>6, <1>7, MainWay DEF input

\* A command that was executed or a result that was reaped.
LEMMA DoneWay ==
  ASSUME IInv, Inv', Contents' = Contents, Process \/ Reap
  PROVE  IInv'
<1>1. UNCHANGED <<sent, fifo, stream, line, worker, ring, head, tail, items>>
  BY DEF Process, Reap, input, buffer
<1>2. CASE Process
  <2>1. /\ command \in Other /\ command \in Commands /\ command \notin Passive
        /\ command # None /\ command' = None /\ main' = "commands"
        /\ done' = Append(done, command) /\ results' = results
    BY <1>2 DEF Process, IInv, TypeOK, Kinds, Other, Passive
  <2>2. TypeOK'
    BY <1>1, <2>1 DEF IInv, TypeOK
  <2>3. Kinds'
    BY <2>1 DEF Kinds, IInv
  <2>4. Of(done', Other) = Append(Of(done, Other), command) /\ Of(done', Passive) = Of(done, Passive)
    BY <2>1, OfAppend DEF IInv, TypeOK
  <2>5. PassedOther' = PassedOther
    <3>1. Opt(command) = <<command>> /\ Opt(command') = <<>>
      BY <2>1 DEF Opt
    <3>2. Of(done, Other) \in Seq(Commands) /\ Of(done', Other) \in Seq(Commands)
      BY <2>2, OfType DEF IInv, TypeOK
    <3>3. Append(Of(done, Other), command) = Of(done, Other) \o <<command>>
      BY <2>1, <3>2, AppendIsConcat
    <3>4. Of(done', Other) \o <<>> = Of(done', Other)
      BY <3>2, ConcatEmptySeq
    <3> QED
      BY <2>4, <3>1, <3>3, <3>4 DEF PassedOther
  <2>6. PassedResults' = PassedResults
    BY <2>1, <2>4 DEF PassedResults
  <2> QED
    BY <1>1, <2>2, <2>3, <2>5, <2>6, MainWay DEF input
<1>3. CASE Reap
  <2> DEFINE x == Head(results)
  <2>1. /\ x \in Passive /\ x \in Commands /\ x \notin Other
        /\ results = <<x>> \o results' /\ results' \in Seq(Passive)
        /\ results' \in Seq(Commands)
        /\ done' = Append(done, x) /\ command' = command
    <3>1. results \in Seq(Passive) /\ results \in Seq(Commands) /\ results # <<>>
          /\ results' = Tail(results)
      BY <1>3 DEF Reap, IInv, Kinds, TypeOK
    <3>2. x \in Passive /\ results = <<x>> \o results' /\ results' \in Seq(Passive)
          /\ results' \in Seq(Commands)
      BY <3>1
    <3> QED
      BY <1>3, <3>2 DEF Reap, Other, Passive
  <2> HIDE DEF x
  <2>2. main' \in {"reap", "loop"} /\ main # "process"
    BY <1>3 DEF Reap
  <2>3. TypeOK'
    BY <1>1, <2>1, <2>2 DEF IInv, TypeOK
  <2>4. Kinds'
    BY <2>1 DEF Kinds, IInv
  <2>5. Of(done', Passive) = Append(Of(done, Passive), x) /\ Of(done', Other) = Of(done, Other)
    BY <2>1, OfAppend DEF IInv, TypeOK
  <2>6. PassedResults' = PassedResults
    <3> DEFINE d == Of(done, Passive)
               rest == results'
    <3>1. d \in Seq(Commands) /\ <<x>> \in Seq(Commands) /\ rest \in Seq(Commands)
      BY <2>1, OfType DEF IInv, TypeOK
    <3>2. PassedResults = d \o (<<x>> \o rest) /\ PassedResults' = Append(d, x) \o rest
      BY <2>1, <2>5 DEF PassedResults
    <3> HIDE DEF d, rest
    <3>3. Append(d, x) = d \o <<x>>
      BY <2>1, <3>1, AppendIsConcat
    <3>4. (d \o <<x>>) \o rest = d \o (<<x>> \o rest)
      BY <3>1, ConcatAssociative
    <3> QED
      BY <3>2, <3>3, <3>4
  <2>7. PassedOther' = PassedOther
    BY <2>1, <2>5 DEF PassedOther
  <2> QED
    BY <1>1, <2>3, <2>4, <2>6, <2>7, MainWay DEF input
<1> QED
  BY <1>2, <1>3

LEMMA NextWay ==
  ASSUME IInv, [Next]_vars
  PROVE  IInv'
<1>1. Inv' /\ (Contents' = Contents \/ Submit \/ Take)
  <2>1. Inv' /\ [Queue!Next]_Contents
    BY NextQueue DEF IInv
  <2>2. CASE Submit \/ Take
    BY <2>1, <2>2
  <2>3. CASE ~(Submit \/ Take)
    <3>1. UNCHANGED buffer
      BY <2>3 DEF Next, Worker, Main, Poll, Count, GetLine, Fill, NoLine, Execute, Write,
             CheckCommands, NoItem, Process, StartReaping, Reap, NoResult, vars, buffer
    <3> QED
      BY <2>1, <3>1 DEF Contents, buffer
  <2> QED
    BY <2>2, <2>3
<1>2. CASE Submit
  BY <1>2, LineWay, SubmitPuts DEF IInv
<1>3. CASE Take
  BY <1>3, TakeWay, TakeTakes DEF IInv, Queue!Take
<1>4. CASE ~(Submit \/ Take)
  <2>1. Inv' /\ Contents' = Contents
    BY <1>1, <1>4
  <2>2. CASE Execute
    BY <2>1, <2>2, LineWay
  <2>3. CASE \E c \in Commands : Write(c)
    BY <2>1, <2>3, WrittenWay
  <2>4. CASE Process \/ Reap
    BY <2>1, <2>4, DoneWay
  <2>5. CASE \/ Poll \/ Count \/ GetLine \/ NoLine \/ \E n \in 1..Len(fifo) : Fill(n)
             \/ CheckCommands \/ NoItem \/ StartReaping \/ NoResult \/ UNCHANGED vars
    BY <2>1, <2>5, QuietWay
  <2> QED
    BY <1>4, <2>2, <2>3, <2>4, <2>5 DEF Next, Worker, Main
<1> QED
  BY <1>2, <1>3, <1>4

LEMMA Invariance == Spec => []IInv
BY InitWay, NextWay, PTL DEF Spec

\* The variables keep their types: the main thread never takes a slot that is
\* empty, and no line is lost between two states of the worker.
THEOREM TypeCorrect == Spec => []TypeOK
<1>1. IInv => TypeOK
  BY DEF IInv
<1> QED
  BY <1>1, Invariance, PTL

\* Every line written is executed, or on its way, exactly once, and the lines of
\* each kind keep their order, whatever the number of slots and however the
\* worker and the main thread interleave.
THEOREM OrderKept == Spec => []InOrder
<1>1. IInv => InOrder
  <2> SUFFICES ASSUME IInv PROVE InOrder
    OBVIOUS
  <2>1. Of(sent, Commands \ Safe) =
          ((Of(done, Commands \ Safe) \o Opt(command)) \o Contents)
             \o Of(Opt(line) \o stream \o fifo, Commands \ Safe)
    BY DEF IInv, Way, PassedOther, Read, Other
  <2>2. Of(sent, Safe \ Refused) = (Of(done, Safe \ Refused) \o results)
                            \o Of(Opt(line) \o stream \o fifo, Safe \ Refused)
    BY DEF IInv, Way, PassedResults, Read, Passive
  <2> QED
    BY <2>1, <2>2 DEF InOrder
<1> QED
  BY <1>1, Invariance, PTL

-----------------------------------------------------------------------------
\* For any number of slots and any commands, the circular buffer under its two
\* threads, utils.cc:378-412 and commands.cc:73-92, implements a bounded queue:
\* no interleaving loses, repeats or reorders a command.
THEOREM BufferIsQueue == Spec => QueueSpec
<1>1. Init => Queue!Init
  BY DEF Init, Queue!Init, Contents
<1>2. Spec => []Inv
  BY InitInv, NextQueue, PTL DEF Spec
<1> QED
  BY <1>1, <1>2, NextQueue, PTL DEF Spec, QueueSpec, Queue!Spec
=============================================================================
