----------------------------- MODULE TextProofs ------------------------------
(***************************************************************************)
(* Theorems about TextEdits, for every text, position and plan of edits:   *)
(* the server and the write path understand a position alike, and a plan   *)
(* of edits is the edits made at once, for the file and for the server.    *)
(* The first two sections hold the facts about numbers, folds and          *)
(* sequences that they and LibraryProofs rest on.                          *)
(*                                                                         *)
(* Instead of an induction an argument takes the least counterexample: the *)
(* natural numbers are well founded.  A fold has a trace, the value behind *)
(* each element, and what is true of the fold is read off the trace.       *)
(***************************************************************************)
EXTENDS TextEdits, FiniteSetTheorems, SequenceTheorems, TLAPS

-----------------------------------------------------------------------------
(* Numbers.                                                                *)

\* A non-empty set of natural numbers has a least one.
LEMMA LeastNumber ==
  ASSUME NEW T \in SUBSET Nat, T # {}
  PROVE  \E x \in T : \A y \in T : x <= y
<1>1. PICK x \in T : \A y \in T : <<y, x>> \notin OpToRel(<, Nat)
  BY NatLessThanWellFounded, WFMin
<1>2. \A y \in T : ~(y < x)
  BY <1>1 DEF OpToRel
<1> QED
  BY <1>2

\* What Min returns.
LEMMA SmallestOf ==
  ASSUME NEW T \in SUBSET Nat, T # {}
  PROVE  Min(T) \in T /\ \A y \in T : Min(T) <= y
BY LeastNumber DEF Min

\* What Max returns, of a set with a bound.
LEMMA LargestOf ==
  ASSUME NEW n \in Nat, NEW T \in SUBSET (0 .. n), T # {}
  PROVE  Max(T) \in T /\ \A y \in T : y <= Max(T)
<1> DEFINE below == {n - x : x \in T}
<1>1. below \in SUBSET Nat /\ below # {}
  OBVIOUS
<1>2. \A y \in T : n - y \in below
  OBVIOUS
<1>3. \A d \in below : \E x \in T : d = n - x
  OBVIOUS
<1> HIDE DEF below
<1>4. PICK d \in below : \A e \in below : d <= e
  BY <1>1, LeastNumber
<1>5. PICK x \in T : d = n - x
  BY <1>3
<1>6. \A y \in T : x >= y
  <2> SUFFICES ASSUME NEW y \in T PROVE x >= y
    OBVIOUS
  <2>1. d <= n - y
    BY <1>2, <1>4
  <2> QED
    BY <1>5, <2>1
<1>7. \E z \in T : \A y \in T : z >= y
  BY <1>6
<1>8. Max(T) \in T /\ \A y \in T : Max(T) >= y
  BY <1>7 DEF Max
<1> QED
  BY <1>8

-----------------------------------------------------------------------------
(* Folds over sequences.                                                   *)

\* A set with 0 that goes on from each number to the next has all of the first numbers.
LEMMA CountUp ==
  ASSUME NEW n \in Nat, NEW S, 0 \in S, \A k \in 1 .. n : k - 1 \in S => k \in S
  PROVE  \A k \in 0 .. n : k \in S
<1> DEFINE bad == (0 .. n) \ S
<1> SUFFICES ASSUME bad # {} PROVE FALSE
  OBVIOUS
<1>1. bad \in SUBSET Nat /\ \A k : k \in bad <=> k \in 0 .. n /\ k \notin S
  OBVIOUS
<1> HIDE DEF bad
<1>2. PICK m \in bad : \A y \in bad : m <= y
  BY <1>1, SmallestOf
<1>3. m \in 1 .. n /\ m - 1 \in 0 .. n /\ m - 1 \notin bad
  BY <1>1, <1>2
<1> QED
  BY <1>1, <1>3

\* The largest of some of the first numbers, and what is left without it.
LEMMA LastOfThese ==
  ASSUME NEW n \in Nat, NEW s \in SUBSET (1 .. n), s # {}
  PROVE  /\ Max(s) \in s /\ Max(s) \in 1 .. n /\ s \ {Max(s)} \in SUBSET (1 .. n)
         /\ n \in s => Max(s) = n /\ s \ {n} \in SUBSET (1 .. (n - 1))
         /\ n \notin s => s \in SUBSET (1 .. (n - 1)) /\ n - 1 \in Nat
<1>1. Max(s) \in s /\ \A y \in s : y <= Max(s)
  <2>1. s \in SUBSET (0 .. n)
    OBVIOUS
  <2> QED
    BY <2>1, LargestOf
<1> DEFINE m == Max(s)
<1>2. m \in s /\ (\A y \in s : y <= m) /\ \A y \in s : y \in 1 .. n
  BY <1>1
<1> HIDE DEF m
<1>3. n \in s => m = n
  BY <1>2
<1>4. s \ {n} \in SUBSET (1 .. (n - 1))
  <2>1. \A y \in s \ {n} : y \in 1 .. (n - 1)
    BY <1>2
  <2> QED
    BY <2>1
<1>5. n \notin s => s \in SUBSET (1 .. (n - 1)) /\ n - 1 \in Nat
  <2>1. n \notin s => \A y \in s : y \in 1 .. (n - 1)
    BY <1>2
  <2> QED
    BY <1>2, <2>1
<1> QED
  BY <1>2, <1>3, <1>4, <1>5 DEF m

\* A table of a fold: what it makes of each set of places.
IsFold(g, n, base, Op) ==
  \A s \in SUBSET (1 .. n) : g[s] = IF s = {} THEN base ELSE Op[<<g[s \ {Max(s)}], Max(s)>>]

\* There is such a table.
LEMMA FoldExists ==
  ASSUME NEW n \in Nat, NEW V, NEW base \in V, NEW Op \in [V \X (1 .. n) -> V]
  PROVE  \E g \in [SUBSET (1 .. n) -> V] : IsFold(g, n, base, Op)
<1> DEFINE done(k) == \E g \in [SUBSET (1 .. k) -> V] : IsFold(g, k, base, Op)
<1>1. done(0)
  <2> DEFINE g == [s \in SUBSET (1 .. 0) |-> base]
  <2>1. g \in [SUBSET (1 .. 0) -> V] /\ SUBSET (1 .. 0) = {{}}
    OBVIOUS
  <2> QED
    BY <2>1 DEF IsFold
<1>2. ASSUME NEW k \in 1 .. n, done(k - 1) PROVE done(k)
  <2>1. PICK h \in [SUBSET (1 .. (k - 1)) -> V] : IsFold(h, k - 1, base, Op)
    BY <1>2
  <2> DEFINE g == [s \in SUBSET (1 .. k) |-> IF k \in s THEN Op[<<h[s \ {k}], k>>] ELSE h[s]]
  <2>2. ASSUME NEW s \in SUBSET (1 .. k)
        PROVE  g[s] \in V /\ g[s] = IF s = {} THEN base ELSE Op[<<g[s \ {Max(s)}], Max(s)>>]
    <3>1. k \in Nat /\ k \in 1 .. n
      OBVIOUS
    <3>2. CASE k \in s
      <4>1. Max(s) = k /\ s \ {k} \in SUBSET (1 .. (k - 1)) /\ s \ {k} \in SUBSET (1 .. k) /\ k \notin s \ {k}
        BY <3>1, <3>2, LastOfThese
      <4>2. g[s] = Op[<<h[s \ {k}], k>>] /\ g[s \ {k}] = h[s \ {k}] /\ h[s \ {k}] \in V
        BY <3>2, <4>1
      <4> QED
        BY <3>1, <3>2, <4>1, <4>2
    <3>3. CASE k \notin s /\ s # {}
      <4>1. s \in SUBSET (1 .. (k - 1)) /\ k - 1 \in Nat
        BY <3>1, <3>3
      <4>2. Max(s) \in 1 .. (k - 1) /\ s \ {Max(s)} \in SUBSET (1 .. (k - 1)) /\ s \ {Max(s)} \in SUBSET (1 .. k) /\ k \notin s \ {Max(s)}
        BY <3>3, <4>1, LastOfThese
      <4>3. g[s] = h[s] /\ g[s \ {Max(s)}] = h[s \ {Max(s)}] /\ h[s] \in V
        BY <3>3, <4>1, <4>2
      <4>4. h[s] = Op[<<h[s \ {Max(s)}], Max(s)>>]
        BY <2>1, <3>3, <4>1 DEF IsFold
      <4> QED
        BY <3>3, <4>3, <4>4
    <3>4. CASE s = {}
      <4>1. h[{}] = base
        BY <2>1 DEF IsFold
      <4> QED
        BY <3>4, <4>1
    <3> QED
      BY <3>2, <3>3, <3>4
  <2>3. g \in [SUBSET (1 .. k) -> V]
    BY <2>2
  <2> HIDE DEF g
  <2> QED
    BY <2>2, <2>3 DEF IsFold
<1> HIDE DEF done
<1> DEFINE S == {k \in 0 .. n : done(k)}
<1>3. \A k : k \in S <=> k \in 0 .. n /\ done(k)
  OBVIOUS
<1> HIDE DEF S
<1>4. 0 \in S /\ \A k \in 1 .. n : k - 1 \in S => k \in S
  BY <1>1, <1>2, <1>3
<1> QED
  <2>1. n \in S
    BY <1>4, CountUp
  <2> QED
    BY <1>3, <2>1 DEF done

\* The steps of a fold, one place after the other.
Traces(f, n, V, base, Op) ==
  /\ f \in [0 .. n -> V] /\ f[0] = base
  /\ \A i \in 1 .. n : f[i] = Op[<<f[i - 1], i>>]

\* The value is at the end of a trace.
FoldsTo(v, n, V, base, Op) == \E f : Traces(f, n, V, base, Op) /\ f[n] = v

\* A table that is one of the fold wherever the fold stays among these values.
Tabulates(g, n, V, base, Op) ==
  /\ g[{}] = base
  /\ \A s \in SUBSET (1 .. n) : s # {} /\ g[s \ {Max(s)}] \in V => g[s] = Op[<<g[s \ {Max(s)}], Max(s)>>]

\* What a fold over a sequence makes is at the end of a trace.
LEMMA FoldTraced ==
  ASSUME NEW n \in Nat, NEW V, NEW base \in V, NEW Op \in [V \X (1 .. n) -> V], NEW g, Tabulates(g, n, V, base, Op)
  PROVE  FoldsTo(g[1 .. n], n, V, base, Op)
<1> DEFINE typed(k) == g[1 .. k] \in V
           f   == [k \in 0 .. n |-> g[1 .. k]]
<1>1. typed(0)
  BY (1 .. 0) = {} DEF Tabulates
<1>2. ASSUME NEW k \in 1 .. n, typed(k - 1) PROVE g[1 .. k] = Op[<<g[1 .. (k - 1)], k>>] /\ typed(k)
  <2> DEFINE s == 1 .. k
  <2>1. s \in SUBSET (1 .. n) /\ s # {} /\ s \in SUBSET (1 .. k) /\ k \in s /\ k \in Nat
    OBVIOUS
  <2>2. s \ {k} = 1 .. (k - 1)
    OBVIOUS
  <2> HIDE DEF s
  <2>3. Max(s) = k
    BY <2>1, LastOfThese
  <2>4. g[s] = Op[<<g[1 .. (k - 1)], k>>]
    BY <1>2, <2>1, <2>2, <2>3 DEF Tabulates
  <2> QED
    BY <1>2, <2>4 DEF s
<1>3. \A k \in 1 .. n : typed(k - 1) => typed(k)
  BY <1>2
<1>4. \A k \in 0 .. n : typed(k)
  <2> HIDE DEF typed
  <2> DEFINE S == {k \in 0 .. n : typed(k)}
  <2>1. \A k : k \in S <=> k \in 0 .. n /\ typed(k)
    OBVIOUS
  <2> HIDE DEF S
  <2>2. 0 \in S /\ \A k \in 1 .. n : k - 1 \in S => k \in S
    BY <1>1, <1>3, <2>1
  <2> QED
    BY <2>1, <2>2, CountUp
<1>5. f \in [0 .. n -> V] /\ f[0] = base /\ f[n] = g[1 .. n]
  <2>1. 1 .. 0 = {} /\ 0 \in 0 .. n /\ n \in 0 .. n
    OBVIOUS
  <2> QED
    BY <1>4, <2>1 DEF Tabulates
<1>6. ASSUME NEW i \in 1 .. n PROVE f[i] = Op[<<f[i - 1], i>>]
  <2>1. i - 1 \in 0 .. n /\ i \in 0 .. n
    OBVIOUS
  <2> QED
    BY <1>2, <1>4, <2>1
<1> HIDE DEF f
<1> QED
  BY <1>5, <1>6 DEF Traces, FoldsTo

-----
\* The first elements of a sequence.
LEMMA FirstOf ==
  ASSUME NEW T, NEW s \in Seq(T), NEW m \in 0 .. Len(s)
  PROVE  /\ SubSeq(s, 1, m) \in Seq(T) /\ Len(SubSeq(s, 1, m)) = m
         /\ \A i \in 1 .. m : SubSeq(s, 1, m)[i] = s[i]
OBVIOUS

\* The place before another.
LEMMA AndBefore ==
  ASSUME NEW n \in Nat, NEW i \in 1 .. n
  PROVE  /\ i \in Nat /\ i \in 0 .. n /\ i - 1 \in 0 .. n /\ i - 1 \in Nat /\ i \in 1 .. i /\ i # 0
         /\ i # 1 => i - 1 \in 1 .. n
         /\ i = 1 => i - 1 = 0
         /\ \A j \in 1 .. i : j = i \/ j \in 1 .. (i - 1)
         /\ \A j \in 1 .. (i - 1) : j \in 1 .. i
OBVIOUS

\* Steps of this kind can be made one after the other.
LEMMA TraceExists ==
  ASSUME NEW n \in Nat, NEW V, NEW base \in V, NEW Op \in [V \X (1 .. n) -> V]
  PROVE  \E f : Traces(f, n, V, base, Op)
<1> DEFINE done(k) == \E f : Traces(f, k, V, base, Op)
<1>1. done(0)
  <2> DEFINE f == [i \in 0 .. 0 |-> base]
  <2>1. Traces(f, 0, V, base, Op)
    BY DEF Traces
  <2> QED
    BY <2>1
<1>2. ASSUME NEW k \in 1 .. n, done(k - 1) PROVE done(k)
  <2>1. PICK h : Traces(h, k - 1, V, base, Op)
    BY <1>2
  <2> DEFINE f == [i \in 0 .. k |-> IF i = k THEN Op[<<h[k - 1], k>>] ELSE h[i]]
  <2>2. k \in Nat /\ k - 1 \in 0 .. (k - 1) /\ (\A i \in 0 .. k : i # k => i \in 0 .. (k - 1)) /\ \A i \in 1 .. k : i - 1 \in 0 .. (k - 1) /\ i - 1 # k
    OBVIOUS
  <2>3. h \in [0 .. (k - 1) -> V] /\ h[0] = base /\ \A i \in 1 .. (k - 1) : h[i] = Op[<<h[i - 1], i>>]
    BY <2>1 DEF Traces
  <2>4. f \in [0 .. k -> V]
    BY <2>2, <2>3
  <2>5. f[0] = base
    BY <2>3
  <2>6. \A i \in 1 .. k : f[i] = Op[<<f[i - 1], i>>]
    <3> SUFFICES ASSUME NEW i \in 1 .. k PROVE f[i] = Op[<<f[i - 1], i>>]
      OBVIOUS
    <3>1. f[i - 1] = h[i - 1] /\ (i # k => i \in 1 .. (k - 1))
      BY <2>2
    <3>2. CASE i = k
      <4>1. f[k] = Op[<<h[k - 1], k>>] /\ f[k - 1] = h[k - 1]
        BY <2>2, <3>1, <3>2
      <4> QED
        BY <3>2, <4>1
    <3>3. CASE i # k
      BY <2>3, <3>1, <3>3
    <3> QED
      BY <3>2, <3>3
  <2> HIDE DEF f
  <2> QED
    BY <2>4, <2>5, <2>6 DEF Traces
<1> HIDE DEF done
<1> DEFINE S == {k \in 0 .. n : done(k)}
<1>3. \A k : k \in S <=> k \in 0 .. n /\ done(k)
  OBVIOUS
<1> HIDE DEF S
<1>4. 0 \in S /\ \A k \in 1 .. n : k - 1 \in S => k \in S
  BY <1>1, <1>2, <1>3
<1> QED
  <2>1. n \in S
    BY <1>4, CountUp
  <2> QED
    BY <1>3, <2>1 DEF done

\* A sequence of sequences is joined from left to right.
LEMMA FlattenTraced ==
  ASSUME NEW T, NEW s \in Seq(Seq(T))
  PROVE  \E f : /\ f \in [0 .. Len(s) -> Seq(T)] /\ f[0] = <<>> /\ f[Len(s)] = FlattenSeq(s)
                /\ \A i \in 1 .. Len(s) : f[i] = f[i - 1] \o s[i]
<1> DEFINE n == Len(s)
           V == Seq(T)
           Op == [x \in V \X (1 .. n) |-> x[1] \o s[x[2]]]
           is(g) == g = [i \in 1 .. n |-> IF i = 1 THEN s[i] ELSE g[i - 1] \o s[i]]
           c == CHOOSE g : is(g)
<1>1. n \in Nat /\ (\A i \in 1 .. n : s[i] \in V) /\ <<>> \in V /\ \A v \in V : <<>> \o v = v
  OBVIOUS
<1>2. \A v \in V, i \in 1 .. n : Op[<<v, i>>] = v \o s[i] /\ v \o s[i] \in V
  <2> SUFFICES ASSUME NEW v \in V, NEW i \in 1 .. n PROVE Op[<<v, i>>] = v \o s[i] /\ v \o s[i] \in V
    OBVIOUS
  <2>1. <<v, i>> \in V \X (1 .. n) /\ <<v, i>>[1] = v /\ <<v, i>>[2] = i
    OBVIOUS
  <2>2. v \o s[i] \in V
    BY <1>1
  <2> HIDE DEF V, n
  <2>3. Op[<<v, i>>] = v \o s[i]
    BY <2>1
  <2> QED
    BY <2>2, <2>3
<1>3. Op \in [V \X (1 .. n) -> V]
  BY <1>2
<1> HIDE DEF n, V, Op
<1>4. is(c)
  <2>1. PICK f : Traces(f, n, V, <<>>, Op)
    BY <1>1, <1>3, TraceExists
  <2> DEFINE g == [i \in 1 .. n |-> f[i]]
  <2>2. ASSUME NEW i \in 1 .. n PROVE g[i] = IF i = 1 THEN s[i] ELSE g[i - 1] \o s[i]
    <3>1. i - 1 \in 0 .. n /\ (i # 1 => i - 1 \in 1 .. n) /\ f[i - 1] \in V /\ f[0] = <<>> /\ f[i] = Op[<<f[i - 1], i>>]
      BY <1>1, <2>1 DEF Traces
    <3>2. f[i] = f[i - 1] \o s[i]
      BY <1>2, <3>1
    <3>3. i = 1 => f[i] = s[i]
      <4>1. i = 1 => f[i - 1] = <<>> /\ f[i] = <<>> \o s[i]
        BY <1>1, <3>1, <3>2, AndBefore
      <4> QED
        BY <1>1, <4>1 DEF V
    <3> QED
      BY <3>1, <3>2, <3>3
  <2>3. is(g)
    BY <2>2
  <2> HIDE DEF g
  <2> QED
    BY <2>3
<1>5. n # 0 => FlattenSeq(s) = c[n]
  BY DEF FlattenSeq, n
<1> HIDE DEF c
<1> DEFINE f == [i \in 0 .. n |-> IF i = 0 THEN <<>> ELSE c[i]]
<1>6. ASSUME NEW i \in 1 .. n PROVE f[i] = f[i - 1] \o s[i]
  <2>1. i \in 0 .. n /\ i - 1 \in 0 .. n /\ (i # 1 => i - 1 \in 1 .. n) /\ i # 0 /\ 0 \in 0 .. n /\ (i = 1 => i - 1 = 0)
    BY <1>1
  <2>2. f[i] = c[i] /\ f[0] = <<>> /\ (i # 1 => f[i - 1] = c[i - 1])
    BY <2>1
  <2>3. c[i] = IF i = 1 THEN s[i] ELSE c[i - 1] \o s[i]
    BY <1>4
  <2> HIDE DEF f
  <2>4. CASE i = 1
    BY <1>1, <2>1, <2>2, <2>3, <2>4 DEF V
  <2> QED
    BY <2>2, <2>3, <2>4
<1>7. f[0] = <<>> /\ DOMAIN f = 0 .. n /\ f = [i \in 0 .. n |-> f[i]]
  BY <1>1
<1> HIDE DEF f
<1> DEFINE S == {k \in 0 .. n : f[k] \in V}
<1>8. \A k : k \in S <=> k \in 0 .. n /\ f[k] \in V
  OBVIOUS
<1> HIDE DEF S
<1>9. 0 \in S /\ \A k \in 1 .. n : k - 1 \in S => k \in S
  BY <1>1, <1>2, <1>6, <1>7, <1>8
<1>10. f \in [0 .. n -> V]
  BY <1>1, <1>7, <1>8, <1>9, CountUp
<1>11. f[n] = FlattenSeq(s)
  <2>1. CASE n = 0
    BY <1>7, <2>1 DEF n, FlattenSeq
  <2>2. CASE n # 0
    BY <1>1, <1>5, <2>2 DEF f
  <2> QED
    BY <2>1, <2>2
<1> QED
  BY <1>6, <1>7, <1>10, <1>11 DEF n, V

\* One more element behind the others.
LEMMA JoinOne ==
  ASSUME NEW T, NEW a \in Seq(T), NEW b \in Seq(T), Len(b) = 1
  PROVE  /\ a \o b \in Seq(T) /\ Len(a \o b) = Len(a) + 1 /\ (a \o b)[Len(a) + 1] = b[1]
         /\ \A i \in 1 .. Len(a) : (a \o b)[i] = a[i]
<1>1. a \o b \in Seq(T) /\ Len(a \o b) = Len(a) + 1 /\ Len(a) \in Nat
  <2>1. Len(a) \in Nat
    OBVIOUS
  <2>2. a \o b \in Seq(T) /\ Len(a \o b) = Len(a) + Len(b)
    BY ConcatProperties
  <2> QED
    BY <2>1, <2>2
<1>2. \A i \in 1 .. Len(a) : (a \o b)[i] = a[i]
  OBVIOUS
<1>3. (a \o b)[Len(a) + 1] = b[1]
  <2>1. (a \o b)[Len(a) + 1] = b[(Len(a) + 1) - Len(a)]
    BY ConcatProperties
  <2>2. (Len(a) + 1) - Len(a) = 1
    BY <1>1
  <2> QED
    BY <2>1, <2>2
<1> QED
  BY <1>1, <1>2, <1>3

\* What is joined is empty exactly when every part is, and parts of one element each keep their places.
LEMMA Flattened ==
  ASSUME NEW T, NEW s \in Seq(Seq(T))
  PROVE  /\ FlattenSeq(s) \in Seq(T)
         /\ FlattenSeq(s) = <<>> <=> \A i \in 1 .. Len(s) : s[i] = <<>>
         /\ (\A i \in 1 .. Len(s) : Len(s[i]) = 1) => FlattenSeq(s) = [i \in 1 .. Len(s) |-> s[i][1]]
<1> DEFINE n == Len(s)
<1>1. PICK f : /\ f \in [0 .. n -> Seq(T)] /\ f[0] = <<>> /\ f[n] = FlattenSeq(s)
               /\ \A i \in 1 .. n : f[i] = f[i - 1] \o s[i]
  BY FlattenTraced
<1>2. n \in Nat /\ \A i \in 1 .. n : s[i] \in Seq(T)
  OBVIOUS
<1> HIDE DEF n
<1>3. ASSUME NEW i \in 1 .. n
      PROVE  /\ f[i] = <<>> <=> f[i - 1] = <<>> /\ s[i] = <<>>
             /\ i - 1 \in 0 .. n
  <2>1. f[i - 1] \in Seq(T) /\ s[i] \in Seq(T) /\ f[i] = f[i - 1] \o s[i] /\ i - 1 \in 0 .. n
    <3>1. i - 1 \in 0 .. n
      BY <1>2
    <3> QED
      BY <1>1, <1>2, <3>1
  <2> QED
    BY <2>1
<1>4. f[n] = <<>> <=> \A i \in 1 .. n : s[i] = <<>>
  <2> DEFINE S == {k \in 0 .. n : f[k] = <<>> <=> \A i \in 1 .. k : s[i] = <<>>}
  <2>1. \A k : k \in S <=> k \in 0 .. n /\ (f[k] = <<>> <=> \A i \in 1 .. k : s[i] = <<>>)
    OBVIOUS
  <2> HIDE DEF S
  <2>2. 0 \in S
    <3>1. 0 \in 0 .. n /\ ~(\E i : i \in 1 .. 0)
      BY <1>2
    <3> QED
      BY <1>1, <2>1, <3>1
  <2>3. ASSUME NEW k \in 1 .. n, k - 1 \in S PROVE k \in S
    <3>1. /\ k \in 0 .. n /\ k \in 1 .. k
          /\ \A j \in 1 .. k : j = k \/ j \in 1 .. (k - 1)
          /\ \A j \in 1 .. (k - 1) : j \in 1 .. k
      BY <1>2, AndBefore
    <3> QED
      BY <1>3, <2>1, <2>3, <3>1
  <2>4. 0 \in S /\ (\A k \in 1 .. n : k - 1 \in S => k \in S) /\ n \in 0 .. n
    BY <1>2, <2>2, <2>3
  <2>5. n \in S
    BY <1>2, <2>4, CountUp
  <2> QED
    BY <2>1, <2>5
<1>5. ASSUME \A i \in 1 .. n : Len(s[i]) = 1
      PROVE  f[n] = [i \in 1 .. n |-> s[i][1]]
  <2> DEFINE P(k) == f[k] = [i \in 1 .. k |-> s[i][1]]
             S == {k \in 0 .. n : P(k)}
  <2>1. P(0)
    BY <1>1
  <2>2. ASSUME NEW k \in 1 .. n, P(k - 1) PROVE P(k)
    <3> DEFINE a == f[k - 1]
               b == s[k]
               c == f[k]
    <3>1. a \in Seq(T) /\ b \in Seq(T) /\ c = a \o b /\ Len(b) = 1 /\ a = [i \in 1 .. (k - 1) |-> s[i][1]]
      <4>1. k - 1 \in 0 .. n
        BY <1>2
      <4> QED
        BY <1>1, <1>2, <1>5, <2>2, <4>1
    <3>2. Len(a) = k - 1 /\ k \in Nat /\ k # 0
      BY <1>2, <3>1, AndBefore
    <3> HIDE DEF a, b, c
    <3>3. Len(c) = k /\ c \in Seq(T) /\ c[k] = b[1] /\ \A i \in 1 .. (k - 1) : c[i] = a[i]
      <4>1. Len(a) + 1 = k
        BY <3>2
      <4>2. /\ a \o b \in Seq(T) /\ Len(a \o b) = Len(a) + 1 /\ (a \o b)[Len(a) + 1] = b[1]
            /\ \A i \in 1 .. Len(a) : (a \o b)[i] = a[i]
        BY <3>1, JoinOne
      <4> QED
        BY <3>1, <3>2, <4>1, <4>2
    <3>4. \A i \in 1 .. k : c[i] = s[i][1]
      BY <3>1, <3>3 DEF b
    <3>5. c = [i \in 1 .. k |-> s[i][1]]
      BY <3>3, <3>4
    <3> QED
      BY <3>5 DEF c
  <2> HIDE DEF P
  <2>3. \A k : k \in S <=> k \in 0 .. n /\ P(k)
    OBVIOUS
  <2> HIDE DEF S
  <2>4. 0 \in S /\ (\A k \in 1 .. n : k - 1 \in S => k \in S) /\ 0 \in 0 .. n /\ n \in 0 .. n
    BY <1>2, <2>1, <2>2, <2>3, AndBefore
  <2>5. n \in S
    BY <1>2, <2>4, CountUp
  <2> QED
    BY <2>3, <2>5 DEF P
<1>6. f[n] \in Seq(T)
  BY <1>1, <1>2
<1> QED
  BY <1>1, <1>4, <1>5, <1>6 DEF n

-----------------------------------------------------------------------------
(* Positions (TextEdits).                                                  *)

\* From a rune of a line on, Advance stays on the line and stops between two runes.
LEMMA AdvanceStays ==
  ASSUME NEW text, NEW end \in Nat, NEW from \in 0 .. end, NEW char, Boundary(text, from)
  PROVE  Advance(text, from, end, char) \in from .. end /\ Boundary(text, Advance(text, from, end, char))
<1> DEFINE reach == {from} \cup {o \in from .. end : Boundary(text, o) /\ Units(text, from, o) <= char}
<1>1. reach \in SUBSET (0 .. end) /\ reach # {} /\ \A o \in reach : o \in from .. end /\ Boundary(text, o)
  OBVIOUS
<1>2. Advance(text, from, end, char) = Max(reach)
  BY DEF Advance
<1> HIDE DEF reach
<1> QED
  BY <1>1, <1>2, LargestOf

\* A line begins on a rune, and ends not before it begins, for the server.
LEMMA LineBegins ==
  ASSUME NEW Byte, NEW text \in Seq(Byte), WellFormed(text), NEW starts, Starts(text, starts), NEW l \in 1 .. Len(starts)
  PROVE  /\ starts[l] \in 0 .. Len(text) /\ Boundary(text, starts[l])
         /\ LineBreak(text, starts, l) \in starts[l] .. Len(text)
<1>1. Len(text) \in Nat /\ Len(starts) \in Nat /\ starts[l] \in 0 .. Len(text)
  BY DEF Starts
<1>2. Boundary(text, starts[l])
  <2>1. CASE starts[l] = 0
    BY <1>1, <2>1 DEF Boundary, WellFormed
  <2>2. CASE starts[l] > 0
    <3>1. text[starts[l]] = "n"
      BY <1>1, <2>2 DEF Starts
    <3>2. CASE starts[l] = Len(text)
      BY <3>2 DEF Boundary
    <3>3. CASE starts[l] # Len(text)
      <4> DEFINE i == starts[l] + 1
      <4>1. i \in 1 .. Len(text) /\ i - 1 = starts[l]
        BY <1>1, <3>3
      <4> HIDE DEF i
      <4>2. text[i - 1] = "n"
        BY <3>1, <4>1
      <4>3. text[i] # "~"
        BY <4>1, <4>2 DEF WellFormed
      <4> QED
        BY <4>3 DEF Boundary, i
    <3> QED
      BY <3>2, <3>3
  <2> QED
    BY <1>1, <2>1, <2>2
<1>3. LineBreak(text, starts, l) \in starts[l] .. Len(text)
  <2>1. CASE l = Len(starts)
    BY <1>1, <2>1 DEF LineBreak
  <2>2. CASE l # Len(starts)
    <3> DEFINE s == starts[l + 1]
    <3>1. s \in 0 .. Len(text) /\ s > starts[l]
      <4>1. l + 1 \in 1 .. Len(starts) /\ l + 1 > 1 /\ l + 1 - 1 = l
        BY <1>1, <2>2
      <4> QED
        BY <4>1 DEF Starts
    <3> QED
      BY <1>1, <2>2, <3>1 DEF LineBreak
  <2> QED
    BY <2>1, <2>2
<1> QED
  BY <1>1, <1>2, <1>3

\* The same of the write path.
LEMMA LineEnds ==
  ASSUME NEW text, Len(text) \in Nat, NEW from \in 0 .. Len(text)
  PROVE  LineEnd(text, from) \in from .. Len(text)
<1> DEFINE ends == {Len(text)} \cup {o \in from .. Len(text) - 1 :
                      text[o + 1] = "n" \/ (text[o + 1] = "r" /\ o + 2 <= Len(text) /\ text[o + 2] = "n")}
<1>1. ends \in SUBSET (from .. Len(text)) /\ ends \in SUBSET Nat /\ ends # {}
  OBVIOUS
<1>2. LineEnd(text, from) = Min(ends)
  BY DEF LineEnd
<1> HIDE DEF ends
<1> QED
  BY <1>1, <1>2, SmallestOf

\* Whatever position a client sends, the server and the write path resolve it to an offset in the text
\* that splits no rune; the write path may refuse it instead.
THEOREM OffsetsBetweenRunes ==
  ASSUME NEW Byte, NEW text \in Seq(Byte), WellFormed(text), Starts(text, LineStarts(text)), NEW pos \in [line : Int, char : Int]
  PROVE  /\ OffsetAt(text, pos) \in 0 .. Len(text) /\ Boundary(text, OffsetAt(text, pos))
         /\ ByteOffset(text, pos) # NoOffset => ByteOffset(text, pos) \in 0 .. Len(text) /\ Boundary(text, ByteOffset(text, pos))
<1> DEFINE starts == LineStarts(text)
           l      == pos.line + 1
<1>1. Len(text) \in Nat /\ Len(starts) \in Nat \ {0} /\ Starts(text, starts) /\ pos.line \in Int
  BY DEF Starts
<1>2. Boundary(text, Len(text)) /\ Boundary(text, 0)
  BY <1>1 DEF Boundary, WellFormed
<1> HIDE DEF starts
<1>3. CASE ~(pos.line \in 0 .. Len(starts) - 1)
  <2>1. OffsetAt(text, pos) \in {0, Len(text)}
    BY <1>1, <1>3 DEF OffsetAt, offsetAt, starts
  <2>2. ByteOffset(text, pos) = NoOffset
    BY <1>1, <1>3 DEF ByteOffset, starts
  <2> QED
    BY <1>1, <1>2, <2>1, <2>2
<1>4. CASE pos.line \in 0 .. Len(starts) - 1
  <2>1. l \in 1 .. Len(starts)
    BY <1>1, <1>4
  <2>2. /\ starts[l] \in 0 .. Len(text) /\ Boundary(text, starts[l])
        /\ LineBreak(text, starts, l) \in starts[l] .. Len(text)
        /\ LineEnd(text, starts[l]) \in starts[l] .. Len(text)
    BY <1>1, <2>1, LineBegins, LineEnds
  <2>3. OffsetAt(text, pos) = Advance(text, starts[l], LineBreak(text, starts, l), pos.char)
    BY <1>1, <1>4 DEF OffsetAt, offsetAt, starts
  <2>4. ByteOffset(text, pos) \in {NoOffset, Advance(text, starts[l], LineEnd(text, starts[l]), pos.char)}
    BY DEF ByteOffset, starts
  <2> DEFINE from == starts[l]
  <2> HIDE DEF from
  <2>5. ASSUME NEW end \in from .. Len(text)
        PROVE  Advance(text, from, end, pos.char) \in 0 .. Len(text) /\ Boundary(text, Advance(text, from, end, pos.char))
    <3>1. end \in Nat /\ from \in 0 .. end /\ Boundary(text, from)
      BY <1>1, <2>2 DEF from
    <3>2. Advance(text, from, end, pos.char) \in from .. end /\ Boundary(text, Advance(text, from, end, pos.char))
      BY <3>1, AdvanceStays
    <3> QED
      BY <1>1, <3>1, <3>2
  <2> QED
    BY <2>2, <2>3, <2>4, <2>5 DEF from
<1> QED
  BY <1>3, <1>4

\* How many newlines there are up to an offset: one more with each.
LEMMA NewlinesUpTo ==
  ASSUME NEW text
  PROVE  /\ LineOf(text, 0) = 0
         /\ \A o \in Nat : LineOf(text, o) \in Nat /\ LineOf(text, o) <= o
         /\ \A o \in Nat \ {0} : LineOf(text, o) = LineOf(text, o - 1) + (IF text[o] = "n" THEN 1 ELSE 0)
         /\ \A o \in Nat, p \in Nat : o <= p => LineOf(text, o) <= LineOf(text, p)
<1> DEFINE N(o) == {i \in 1 .. o : text[i] = "n"}
<1>1. \A o \in Nat : LineOf(text, o) = Cardinality(N(o)) /\ N(o) \in SUBSET (1 .. o)
  BY DEF LineOf
<1>2. \A o \in Nat : IsFiniteSet(1 .. o) /\ Cardinality(1 .. o) = o
  <2> SUFFICES ASSUME NEW o \in Nat PROVE IsFiniteSet(1 .. o) /\ Cardinality(1 .. o) = o
    OBVIOUS
  <2>1. 1 \in Int /\ o \in Int /\ (1 > o <=> o = 0)
    OBVIOUS
  <2>2. IsFiniteSet(1 .. o) /\ Cardinality(1 .. o) = IF 1 > o THEN 0 ELSE o - 1 + 1
    BY <2>1, FS_Interval
  <2> QED
    BY <2>1, <2>2
<1>3. \A o \in Nat : IsFiniteSet(N(o)) /\ Cardinality(N(o)) \in Nat /\ Cardinality(N(o)) <= o
  <2> SUFFICES ASSUME NEW o \in Nat PROVE IsFiniteSet(N(o)) /\ Cardinality(N(o)) \in Nat /\ Cardinality(N(o)) <= o
    OBVIOUS
  <2> HIDE DEF N
  <2>1. IsFiniteSet(N(o)) /\ Cardinality(N(o)) <= o
    BY <1>1, <1>2, FS_Subset
  <2> QED
    BY <2>1, FS_CardinalityType
<1>4. N(0) = {} /\ \A o \in Nat \ {0} : N(o) = IF text[o] = "n" THEN N(o - 1) \cup {o} ELSE N(o - 1)
  <2>1. N(0) = {}
    OBVIOUS
  <2>2. ASSUME NEW o \in Nat \ {0} PROVE N(o) = IF text[o] = "n" THEN N(o - 1) \cup {o} ELSE N(o - 1)
    <3>1. 1 .. o = (1 .. (o - 1)) \cup {o}
      OBVIOUS
    <3> QED
      BY <3>1
  <2> QED
    BY <2>1, <2>2
<1>5. \A o \in Nat \ {0} : o - 1 \in Nat /\ o \notin N(o - 1)
  OBVIOUS
<1>6. \A o \in Nat, p \in Nat : o <= p => N(o) \in SUBSET N(p)
  OBVIOUS
<1> HIDE DEF N
<1>7. LineOf(text, 0) = 0
  BY <1>1, <1>4, FS_EmptySet
<1>8. ASSUME NEW o \in Nat \ {0}
      PROVE  LineOf(text, o) = LineOf(text, o - 1) + (IF text[o] = "n" THEN 1 ELSE 0)
  <2>1. /\ IsFiniteSet(N(o - 1)) /\ Cardinality(N(o - 1)) \in Nat /\ o \notin N(o - 1)
        /\ LineOf(text, o) = Cardinality(N(o)) /\ LineOf(text, o - 1) = Cardinality(N(o - 1))
    BY <1>1, <1>3, <1>5
  <2>2. Cardinality(N(o - 1) \cup {o}) = Cardinality(N(o - 1)) + 1
    BY <2>1, FS_AddElement
  <2>3. N(o) = IF text[o] = "n" THEN N(o - 1) \cup {o} ELSE N(o - 1)
    BY <1>4
  <2> DEFINE c == Cardinality(N(o - 1))
  <2>4. Cardinality(N(o)) = c + (IF text[o] = "n" THEN 1 ELSE 0) /\ c \in Nat
    <3>1. CASE text[o] = "n"
      BY <2>1, <2>2, <2>3, <3>1
    <3>2. CASE text[o] # "n"
      BY <2>1, <2>3, <3>2
    <3> QED
      BY <3>1, <3>2
  <2> QED
    BY <2>1, <2>4
<1>9. ASSUME NEW o \in Nat, NEW p \in Nat, o <= p PROVE LineOf(text, o) <= LineOf(text, p)
  <2>1. IsFiniteSet(N(p)) /\ N(o) \in SUBSET N(p)
    BY <1>3, <1>6, <1>9
  <2>2. Cardinality(N(o)) <= Cardinality(N(p))
    BY <2>1, FS_Subset
  <2> QED
    BY <1>1, <2>2
<1>10. \A o \in Nat : LineOf(text, o) \in Nat /\ LineOf(text, o) <= o
  BY <1>1, <1>3
<1> QED
  BY <1>7, <1>8, <1>9, <1>10

\* Every line up to the last one begins somewhere: at the first offset behind enough newlines.
LEMMA LinesBegin ==
  ASSUME NEW text, NEW n \in Nat
  PROVE  \A k \in 0 .. LineOf(text, n) : \E o \in 0 .. n : LineOf(text, o) = k
<1> DEFINE P(m) == \A k \in 0 .. LineOf(text, m) : \E o \in 0 .. m : LineOf(text, o) = k
           S    == {m \in 0 .. n : P(m)}
<1>1. P(0)
  BY NewlinesUpTo
<1>2. ASSUME NEW m \in 1 .. n, P(m - 1) PROVE P(m)
  <2> SUFFICES ASSUME NEW k \in 0 .. LineOf(text, m) PROVE \E o \in 0 .. m : LineOf(text, o) = k
    OBVIOUS
  <2>1. /\ m \in Nat \ {0} /\ m - 1 \in Nat /\ LineOf(text, m) \in Nat /\ LineOf(text, m - 1) \in Nat
        /\ LineOf(text, m) = LineOf(text, m - 1) + (IF text[m] = "n" THEN 1 ELSE 0)
    BY NewlinesUpTo
  <2>2. CASE k = LineOf(text, m)
    BY <2>1, <2>2
  <2>3. CASE k # LineOf(text, m)
    <3>1. k \in 0 .. LineOf(text, m - 1)
      BY <2>1, <2>3
    <3>2. PICK o \in 0 .. (m - 1) : LineOf(text, o) = k
      BY <1>2, <3>1
    <3> QED
      BY <2>1, <3>2
  <2> QED
    BY <2>2, <2>3
<1> HIDE DEF P
<1>3. 0 \in S /\ (\A m \in 1 .. n : m - 1 \in S => m \in S) /\ n \in 0 .. n
  BY <1>1, <1>2
<1> HIDE DEF S
<1>4. n \in S
  BY <1>3, CountUp
<1> QED
  BY <1>4 DEF S, P

\* What LineStarts lists: for each line the first offset behind as many newlines.
LEMMA LineStartsAt ==
  ASSUME NEW text, Len(text) \in Nat
  PROVE  /\ Len(LineStarts(text)) = LineOf(text, Len(text)) + 1 /\ Len(LineStarts(text)) \in Nat \ {0}
         /\ DOMAIN LineStarts(text) = 1 .. Len(LineStarts(text))
         /\ \A l \in 1 .. Len(LineStarts(text)) :
              /\ LineStarts(text)[l] \in 0 .. Len(text)
              /\ LineOf(text, LineStarts(text)[l]) = l - 1
              /\ \A o \in 0 .. Len(text) : LineOf(text, o) = l - 1 => LineStarts(text)[l] <= o
<1> DEFINE n == Len(text)
           S == LineStarts(text)
           m == LineOf(text, n) + 1
           at(l) == {o \in 0 .. n : LineOf(text, o) = l - 1}
<1>1. n \in Nat /\ LineOf(text, n) \in Nat /\ m \in Nat \ {0}
  <2>1. \A o \in Nat : LineOf(text, o) \in Nat
    BY NewlinesUpTo
  <2> QED
    BY <2>1
<1>2. S = [l \in 1 .. m |-> Min(at(l))]
  BY DEF LineStarts
<1>3. Len(S) = m /\ DOMAIN S = 1 .. m
  BY <1>1, <1>2
<1>4. ASSUME NEW l \in 1 .. m
      PROVE  S[l] \in 0 .. n /\ LineOf(text, S[l]) = l - 1 /\ \A o \in 0 .. n : LineOf(text, o) = l - 1 => S[l] <= o
  <2>1. l - 1 \in 0 .. LineOf(text, n)
    BY <1>1
  <2>2. at(l) # {} /\ at(l) \in SUBSET Nat
    <3>1. \A k \in 0 .. LineOf(text, n) : \E o \in 0 .. n : LineOf(text, o) = k
      BY <1>1, LinesBegin
    <3>2. PICK o \in 0 .. n : LineOf(text, o) = l - 1
      BY <2>1, <3>1
    <3> QED
      BY <1>1, <3>2
  <2>3. S[l] = Min(at(l))
    BY <1>2
  <2>4. \A o : o \in at(l) <=> o \in 0 .. n /\ LineOf(text, o) = l - 1
    OBVIOUS
  <2> HIDE DEF at, S
  <2>5. S[l] \in at(l) /\ \A o \in at(l) : S[l] <= o
    BY <2>2, <2>3, SmallestOf
  <2> QED
    BY <2>4, <2>5
<1> QED
  BY <1>1, <1>3, <1>4

\* They are the offsets behind the newlines, in their order.
LEMMA LineStartsInOrder ==
  ASSUME NEW text, Len(text) \in Nat
  PROVE  Starts(text, LineStarts(text))
<1> DEFINE S == LineStarts(text)
<1>1. /\ Len(S) = LineOf(text, Len(text)) + 1 /\ Len(S) \in Nat \ {0}
      /\ \A l \in 1 .. Len(S) : /\ S[l] \in 0 .. Len(text) /\ LineOf(text, S[l]) = l - 1
                                /\ \A o \in 0 .. Len(text) : LineOf(text, o) = l - 1 => S[l] <= o
  BY LineStartsAt
<1> HIDE DEF S
<1>2. S[1] = 0
  <2>1. 1 \in 1 .. Len(S) /\ LineOf(text, 0) = 1 - 1 /\ 0 \in 0 .. Len(text)
    BY <1>1, NewlinesUpTo
  <2>2. S[1] <= 0 /\ S[1] \in Nat
    BY <1>1, <2>1
  <2> QED
    BY <2>2
<1>3. ASSUME NEW i \in 1 .. Len(S), i > 1 PROVE S[i] > S[i - 1] /\ text[S[i]] = "n"
  <2> DEFINE a == S[i - 1]
             b == S[i]
  <2>1. /\ i - 1 \in 1 .. Len(S) /\ i \in Nat
        /\ a \in Nat /\ b \in Nat /\ b <= Len(text) /\ LineOf(text, a) = i - 2 /\ LineOf(text, b) = i - 1
        /\ \A o \in 0 .. Len(text) : LineOf(text, o) = i - 1 => b <= o
    <3>1. i - 1 \in 1 .. Len(S) /\ i - 1 - 1 = i - 2
      BY <1>1, <1>3
    <3> QED
      BY <1>1, <3>1
  <2> HIDE DEF a, b
  <2>2. b > a
    <3>1. b <= a => i - 1 <= i - 2
      BY <2>1, NewlinesUpTo
    <3> QED
      BY <2>1, <3>1
  <2>3. b - 1 \in 0 .. Len(text) /\ b \in Nat \ {0}
    BY <2>1, <2>2
  <2>4. LineOf(text, b - 1) # i - 1
    BY <2>1, <2>3
  <2>5. LineOf(text, b) = LineOf(text, b - 1) + (IF text[b] = "n" THEN 1 ELSE 0) /\ LineOf(text, b - 1) \in Nat
    BY <2>3, NewlinesUpTo
  <2>6. text[b] = "n"
    BY <2>1, <2>4, <2>5
  <2> QED
    BY <2>2, <2>6 DEF a, b
<1> QED
  BY <1>1, <1>2, <1>3 DEF Starts, S

\* The line of an offset begins where StartOf says.
LEMMA LineOfOffset ==
  ASSUME NEW text, Len(text) \in Nat, NEW o \in 0 .. Len(text)
  PROVE  /\ LineOf(text, o) + 1 \in 1 .. Len(LineStarts(text))
         /\ StartOf(text, o) \in 0 .. o
         /\ LineStarts(text)[LineOf(text, o) + 1] = StartOf(text, o)
<1>1. /\ LineOf(text, 0) = 0
      /\ \A p \in Nat : LineOf(text, p) \in Nat
      /\ \A p \in Nat \ {0} : LineOf(text, p) = LineOf(text, p - 1) + (IF text[p] = "n" THEN 1 ELSE 0)
      /\ \A p \in Nat, q \in Nat : p <= q => LineOf(text, p) <= LineOf(text, q)
  BY NewlinesUpTo
<1> DEFINE S == LineStarts(text)
           k == LineOf(text, o)
           l == k + 1
           N == {0} \cup {i \in 1 .. o : text[i] = "n"}
           m == StartOf(text, o)
<1>2. o \in Nat /\ o <= Len(text) /\ k \in Nat /\ k <= LineOf(text, Len(text))
  BY <1>1
<1>3. /\ Len(S) = LineOf(text, Len(text)) + 1
      /\ \A i \in 1 .. Len(S) : /\ S[i] \in 0 .. Len(text) /\ LineOf(text, S[i]) = i - 1
                                /\ \A p \in 0 .. Len(text) : LineOf(text, p) = i - 1 => S[i] <= p
  BY LineStartsAt
<1> HIDE DEF S, k
<1>4. l \in 1 .. Len(S) /\ l - 1 = k
  <2>1. LineOf(text, Len(text)) \in Nat
    BY <1>1
  <2> QED
    BY <1>2, <1>3, <2>1
<1>5. m \in N /\ \A i \in N : i <= m
  <2>1. N \in SUBSET (0 .. o) /\ N # {} /\ m = Max(N)
    BY <1>2 DEF StartOf
  <2> HIDE DEF N, m
  <2> QED
    BY <1>2, <2>1, LargestOf
<1>6. \A i : i \in N <=> i = 0 \/ (i \in 1 .. o /\ text[i] = "n")
  BY <1>2
<1> HIDE DEF N, m, S, k, l
<1>7. m \in 0 .. o /\ m \in 0 .. Len(text)
  BY <1>2, <1>5, <1>6
\* No line begins behind m up to o.
<1>8. LineOf(text, m) = k
  <2> DEFINE T == {j \in 0 .. (o - m) : LineOf(text, m + j) = LineOf(text, m)}
  <2>1. o - m \in Nat /\ \A j : j \in T <=> j \in 0 .. (o - m) /\ LineOf(text, m + j) = LineOf(text, m)
    BY <1>2, <1>7
  <2> HIDE DEF T
  <2>2. 0 \in T
    <3>1. m + 0 = m /\ 0 \in 0 .. (o - m)
      BY <1>7, <2>1
    <3> QED
      BY <2>1, <3>1
  <2>3. ASSUME NEW j \in 1 .. (o - m), j - 1 \in T PROVE j \in T
    <3>1. j \in 0 .. (o - m) /\ m + j \in Nat \ {0} /\ m + j - 1 = m + (j - 1) /\ m + j \in 1 .. o /\ ~(m + j <= m)
      BY <1>2, <1>7, <2>1
    <3>2. text[m + j] # "n"
      BY <1>5, <1>6, <3>1
    <3>3. LineOf(text, m + j) = LineOf(text, m + (j - 1))
      <4> DEFINE q == m + j
      <4>1. q \in Nat \ {0} /\ q - 1 \in Nat /\ text[q] # "n" /\ q - 1 = m + (j - 1)
        <5>1. m \in Nat /\ j \in Nat /\ j # 0
          BY <1>7
        <5>2. text[q] # "n"
          BY <3>2
        <5> QED
          BY <5>1, <5>2
      <4> HIDE DEF q
      <4>2. LineOf(text, q) = LineOf(text, q - 1) + 0 /\ LineOf(text, q - 1) \in Nat
        BY <1>1, <4>1
      <4>3. LineOf(text, q) = LineOf(text, m + (j - 1))
        BY <4>1, <4>2
      <4> QED
        BY <4>3 DEF q
    <3> QED
      BY <2>1, <2>3, <3>1, <3>3
  <2>4. o - m \in T
    <3>1. o - m \in 0 .. (o - m)
      BY <2>1
    <3> QED
      BY <2>1, <2>2, <2>3, <3>1, CountUp
  <2>5. m + (o - m) = o
    BY <1>2, <1>7
  <2> QED
    BY <2>1, <2>4, <2>5 DEF k
<1>9. S[l] <= m /\ S[l] \in Nat /\ LineOf(text, S[l]) = k
  BY <1>3, <1>4, <1>7, <1>8
<1>10. S[l] >= m
  <2> DEFINE s == S[l]
  <2>1. s \in Nat /\ LineOf(text, s) = k
    BY <1>9
  <2> HIDE DEF s
  <2>2. CASE m = 0
    BY <2>1, <2>2 DEF s
  <2>3. CASE m # 0
    <3>1. m \in Nat \ {0} /\ m - 1 \in Nat /\ text[m] = "n"
      BY <1>5, <1>6, <1>7, <2>3
    <3>2. LineOf(text, m) = LineOf(text, m - 1) + 1 /\ LineOf(text, m - 1) \in Nat
      BY <1>1, <3>1
    <3>3. s <= m - 1 => LineOf(text, s) <= LineOf(text, m - 1)
      BY <1>1, <2>1, <3>1
    <3>4. ~(s <= m - 1)
      BY <1>2, <1>8, <2>1, <3>2, <3>3
    <3> QED
      BY <2>1, <3>1, <3>4 DEF s
  <2> QED
    BY <2>2, <2>3
<1>11. S[l] = m
  BY <1>7, <1>9, <1>10
<1> QED
  BY <1>4, <1>7, <1>11 DEF S, k, l, m

\* The UTF-16 units of a line count its runes: more of them from one rune on.
LEMMA UnitsGrow ==
  ASSUME NEW text, Len(text) \in Nat, NEW from \in 0 .. Len(text), NEW o \in from .. Len(text), NEW p \in from .. Len(text), o <= p
  PROVE  /\ Units(text, from, o) \in Nat /\ Units(text, from, p) \in Nat
         /\ Units(text, from, o) <= Units(text, from, p)
         /\ o < p /\ Boundary(text, o) => Units(text, from, o) < Units(text, from, p)
<1> DEFINE R(q) == {i \in (from + 1) .. q : text[i] # "~"}
           F(q) == {i \in (from + 1) .. q : text[i] = "4"}
<1>1. ASSUME NEW q \in from .. Len(text)
      PROVE  /\ IsFiniteSet(R(q)) /\ IsFiniteSet(F(q)) /\ Cardinality(R(q)) \in Nat /\ Cardinality(F(q)) \in Nat
             /\ Units(text, from, q) = Cardinality(R(q)) + Cardinality(F(q))
  <2>1. IsFiniteSet((from + 1) .. q)
    <3>1. from + 1 \in Int /\ q \in Int
      OBVIOUS
    <3> QED
      BY <3>1, FS_Interval
  <2>2. R(q) \in SUBSET ((from + 1) .. q) /\ F(q) \in SUBSET ((from + 1) .. q)
    OBVIOUS
  <2>3. Units(text, from, q) = Cardinality(R(q)) + Cardinality(F(q))
    BY DEF Units
  <2> HIDE DEF R, F
  <2>4. IsFiniteSet(R(q)) /\ IsFiniteSet(F(q))
    BY <2>1, <2>2, FS_Subset
  <2> QED
    BY <2>3, <2>4, FS_CardinalityType
<1>2. R(o) \in SUBSET R(p) /\ F(o) \in SUBSET F(p)
  OBVIOUS
<1>3. o < p /\ Boundary(text, o) => o + 1 \in R(p) /\ o + 1 \notin R(o)
  BY DEF Boundary
<1> HIDE DEF R, F
<1>4. Cardinality(R(o)) <= Cardinality(R(p)) /\ Cardinality(F(o)) <= Cardinality(F(p))
  BY <1>1, <1>2, FS_Subset
<1>5. o < p /\ Boundary(text, o) => Cardinality(R(o)) # Cardinality(R(p))
  <2>1. Cardinality(R(p)) = Cardinality(R(o)) => R(p) = R(o)
    BY <1>1, <1>2, FS_Subset
  <2> QED
    BY <1>3, <2>1
<1>6. /\ Cardinality(R(o)) \in Nat /\ Cardinality(F(o)) \in Nat /\ Units(text, from, o) = Cardinality(R(o)) + Cardinality(F(o))
      /\ Cardinality(R(p)) \in Nat /\ Cardinality(F(p)) \in Nat /\ Units(text, from, p) = Cardinality(R(p)) + Cardinality(F(p))
  BY <1>1
<1> QED
  BY <1>4, <1>5, <1>6

\* As many units from a rune of a line as there are up to another rune lead to that one, or to the end
\* of the line in front of it.
LEMMA AdvanceReaches ==
  ASSUME NEW text, Len(text) \in Nat, NEW from \in 0 .. Len(text), NEW end \in from .. Len(text),
         NEW o \in from .. Len(text), Boundary(text, from), Boundary(text, end), Boundary(text, o)
  PROVE  Advance(text, from, end, Units(text, from, o)) = IF o <= end THEN o ELSE end
<1> DEFINE u == Units(text, from, o)
           reach == {from} \cup {p \in from .. end : Boundary(text, p) /\ Units(text, from, p) <= u}
           t == IF o <= end THEN o ELSE end
           a == Max(reach)
<1>0. from \in Nat /\ end \in Nat /\ o \in Nat /\ from <= end /\ from <= o /\ t \in from .. end /\ t \in Nat /\ t <= o
      /\ Boundary(text, t) /\ t \in from .. Len(text)
  OBVIOUS
<1>1. \A p : p \in reach <=> p = from \/ (p \in from .. end /\ Boundary(text, p) /\ Units(text, from, p) <= u)
  OBVIOUS
<1>2. reach \in SUBSET (0 .. end) /\ reach # {}
  BY <1>0
<1>3. Advance(text, from, end, u) = a
  BY DEF Advance
<1> HIDE DEF reach, t
<1>4. a \in reach /\ \A p \in reach : p <= a
  BY <1>0, <1>2, LargestOf
<1> HIDE DEF a, u
<1>5. t \in reach
  <2>1. Units(text, from, t) <= u
    BY <1>0, UnitsGrow DEF u
  <2> QED
    BY <1>0, <1>1, <2>1
<1>6. t <= a
  BY <1>4, <1>5
<1>7. a <= t
  <2> SUFFICES ASSUME ~(a <= t) PROVE FALSE
    OBVIOUS
  <2>1. a \in from .. end /\ a \in Nat /\ t < a /\ a # from
    BY <1>0, <1>1, <1>4
  <2>2. Units(text, from, a) <= u
    BY <1>1, <1>4, <2>1
  <2>3. t = o /\ a \in from .. Len(text) /\ o < a
    BY <1>0, <2>1 DEF t
  <2>4. u < Units(text, from, a) /\ u \in Nat /\ Units(text, from, a) \in Nat
    BY <1>0, <2>3, UnitsGrow DEF u
  <2> QED
    BY <2>2, <2>4
<1>8. a \in Nat
  BY <1>0, <1>2, <1>4
<1>9. a = t
  BY <1>0, <1>6, <1>7, <1>8
<1> QED
  BY <1>3, <1>9 DEF t, u

\* Where a line ends: for the server, and for the write path, which looks for the line end itself.
\* Behind the last line there is no newline; another line ends in front of the next one's start.
LEMMA LineEndsAlike ==
  ASSUME NEW text, Len(text) \in Nat, NEW l \in 1 .. Len(LineStarts(text)),
         NEW from, from = LineStarts(text)[l]
  PROVE  LineEnd(text, from) = LineBreak(text, LineStarts(text), l)
<1>1. /\ \A p \in Nat : LineOf(text, p) \in Nat
      /\ \A p \in Nat \ {0} : LineOf(text, p) = LineOf(text, p - 1) + (IF text[p] = "n" THEN 1 ELSE 0)
      /\ \A p \in Nat, q \in Nat : p <= q => LineOf(text, p) <= LineOf(text, q)
  BY NewlinesUpTo
<1> DEFINE S == LineStarts(text)
           n == Len(text)
<1>2. /\ Len(S) = LineOf(text, n) + 1 /\ Len(S) \in Nat /\ n \in Nat
      /\ \A i \in 1 .. Len(S) : /\ S[i] \in 0 .. n /\ LineOf(text, S[i]) = i - 1
                                /\ \A p \in 0 .. n : LineOf(text, p) = i - 1 => S[i] <= p
  BY LineStartsAt
<1>3. from \in 0 .. n /\ LineOf(text, from) = l - 1 /\ l \in Nat \ {0} /\ from \in Nat
  BY <1>2
<1> DEFINE ends == {n} \cup {o \in from .. n - 1 : text[o + 1] = "n" \/ (text[o + 1] = "r" /\ o + 2 <= n /\ text[o + 2] = "n")}
           e == LineEnd(text, from)
<1>4. e \in ends /\ \A o \in ends : e <= o
  <2>1. ends \in SUBSET Nat /\ ends # {} /\ e = Min(ends)
    BY <1>2, <1>3 DEF LineEnd
  <2> HIDE DEF ends, e
  <2> QED
    BY <2>1, SmallestOf
<1>5. \A o : o \in ends <=> o = n \/ (o \in from .. n - 1 /\ (text[o + 1] = "n" \/ (text[o + 1] = "r" /\ o + 2 <= n /\ text[o + 2] = "n")))
  OBVIOUS
\* A newline behind `from` is counted.
<1>6. ASSUME NEW o \in Nat, from < o, o <= n, text[o] = "n"
      PROVE  LineOf(text, o) >= l /\ LineOf(text, o) <= LineOf(text, n)
  <2>1. o - 1 \in Nat /\ o \in Nat \ {0} /\ from <= o - 1
    BY <1>3, <1>6
  <2>2. LineOf(text, o) = LineOf(text, o - 1) + 1 /\ LineOf(text, o - 1) \in Nat /\ LineOf(text, from) <= LineOf(text, o - 1)
    BY <1>1, <1>3, <1>6, <2>1
  <2>3. LineOf(text, o) <= LineOf(text, n)
    BY <1>1, <1>2, <1>6
  <2> QED
    BY <1>3, <2>2, <2>3
<1> HIDE DEF S, n, ends, e
<1>7. CASE l = Len(S)
  <2>1. LineOf(text, n) = l - 1 /\ l \in Nat
    <3>1. LineOf(text, n) \in Nat
      BY <1>1, <1>2
    <3> QED
      BY <1>2, <1>3, <1>7, <3>1
  <2>2. ASSUME e # n PROVE FALSE
    <3>1. e \in from .. n - 1 /\ (text[e + 1] = "n" \/ (text[e + 1] = "r" /\ e + 2 <= n /\ text[e + 2] = "n"))
      BY <1>4, <1>5, <2>2
    <3>2. PICK o \in {e + 1, e + 2} : o <= n /\ text[o] = "n"
      <4>1. e + 1 <= n
        BY <1>2, <1>3, <3>1
      <4> QED
        BY <3>1, <4>1
    <3>3. o \in Nat /\ from < o
      BY <1>2, <1>3, <3>1, <3>2
    <3>4. LineOf(text, o) >= l /\ LineOf(text, o) <= LineOf(text, n) /\ LineOf(text, o) \in Nat
      BY <1>1, <1>6, <3>2, <3>3
    <3> QED
      BY <2>1, <3>4
  <2>3. LineBreak(text, S, l) = n
    BY <1>7 DEF LineBreak, n
  <2> QED
    BY <2>2, <2>3 DEF S, e
<1>8. CASE l # Len(S)
  <2> DEFINE j == l + 1
             s == S[j]
  <2>1. j \in 1 .. Len(S) /\ j - 1 = l
    BY <1>2, <1>3, <1>8 DEF S
  <2> HIDE DEF j
  <2>2. s \in Nat /\ s <= n /\ LineOf(text, s) = l /\ \A p \in 0 .. n : LineOf(text, p) = l => s <= p
    BY <1>2, <2>1
  <2> HIDE DEF s
  <2>3. from < s
    <3>1. s <= from => LineOf(text, s) <= LineOf(text, from)
      BY <1>1, <1>3, <2>2
    <3> QED
      BY <1>3, <2>2, <3>1
  <2>4. s \in Nat \ {0} /\ s - 1 \in 0 .. n /\ text[s] = "n"
    <3>1. s \in Nat \ {0} /\ s - 1 \in 0 .. n /\ ~(s <= s - 1)
      BY <1>2, <1>3, <2>2, <2>3
    <3>2. LineOf(text, s - 1) # l
      BY <2>2, <3>1
    <3>3. LineOf(text, s) = LineOf(text, s - 1) + (IF text[s] = "n" THEN 1 ELSE 0) /\ LineOf(text, s - 1) \in Nat
      BY <1>1, <3>1
    <3> QED
      BY <2>2, <3>1, <3>2, <3>3
\* No newline stands between the two starts.
  <2>5. ASSUME NEW o \in Nat, from < o, o <= n, text[o] = "n" PROVE s <= o
    <3>1. LineOf(text, o) >= l /\ LineOf(text, o) \in Nat
      BY <1>1, <1>6, <2>5
    <3>2. o <= s => LineOf(text, o) <= LineOf(text, s)
      BY <1>1, <2>2
    <3>3. o <= s => LineOf(text, o) = l
      BY <1>3, <2>2, <3>1, <3>2
    <3> QED
      BY <1>2, <2>2, <2>5, <3>3
  <2> DEFINE x == s - 1
  <2>6. x \in Nat /\ x + 1 = s /\ from <= x /\ x <= n - 1 /\ text[x + 1] = "n"
    BY <1>2, <1>3, <2>2, <2>3, <2>4
  <2>7. LineBreak(text, S, l) = IF x > from /\ text[x] = "r" THEN x - 1 ELSE x
    BY <1>8 DEF LineBreak, S, s, j
  <2> HIDE DEF x
  <2>8. x \in ends
    <3>1. x \in from .. n - 1
      BY <1>2, <1>3, <2>6
    <3> QED
      BY <1>5, <2>6, <3>1
  <2>9. e <= x /\ e \in from .. n - 1 /\ e \in Nat /\ e # n
    BY <1>2, <1>3, <1>4, <1>5, <2>6, <2>8
  <2>10. e = x \/ (e = x - 1 /\ text[x] = "r" /\ x > from)
    <3>1. text[e + 1] = "n" \/ (text[e + 1] = "r" /\ e + 2 <= n /\ text[e + 2] = "n")
      BY <1>4, <1>5, <2>9
    <3>2. CASE text[e + 1] = "n"
      <4>1. e + 1 \in Nat /\ from < e + 1 /\ e + 1 <= n
        BY <1>2, <1>3, <2>9
      <4>2. s <= e + 1
        BY <2>5, <3>2, <4>1
      <4> QED
        BY <2>2, <2>6, <2>9, <4>2
    <3>3. CASE text[e + 1] = "r" /\ e + 2 <= n /\ text[e + 2] = "n"
      <4>1. e + 2 \in Nat /\ from < e + 2 /\ e + 2 <= n
        BY <1>2, <1>3, <2>9, <3>3
      <4>2. s <= e + 2
        BY <2>5, <3>3, <4>1
      <4>3. e = x \/ e = x - 1
        BY <2>2, <2>6, <2>9, <4>2
      <4>4. e = x - 1 => e + 1 = x /\ x > from
        BY <1>3, <2>6, <2>9
      <4>5. e = x - 1 => text[x] = "r"
        BY <3>3, <4>4
      <4> QED
        BY <4>3, <4>4, <4>5
    <3> QED
      BY <3>1, <3>2, <3>3
  <2>11. x > from /\ text[x] = "r" => x - 1 \in ends
    <3>1. SUFFICES ASSUME x > from, text[x] = "r" PROVE x - 1 \in ends
      OBVIOUS
    <3> DEFINE y == x - 1
    <3>2. y + 1 = x /\ y + 2 = x + 1 /\ y \in from .. n - 1 /\ y + 2 <= n
      BY <1>2, <1>3, <2>6, <3>1
    <3> HIDE DEF y
    <3>3. y \in ends
      BY <1>5, <2>6, <3>1, <3>2
    <3> QED
      BY <3>3 DEF y
  <2>12. x > from /\ text[x] = "r" => e <= x - 1
    BY <1>4, <2>11
  <2>13. e = LineBreak(text, S, l)
    BY <2>6, <2>7, <2>9, <2>10, <2>12
  <2> QED
    BY <2>13 DEF e, S
<1> QED
  BY <1>7, <1>8

\* A rune boundary has a position that leads back to it; between the two bytes of a line end, it
\* leads in front of them.
LEMMA PositionLeadsBack ==
  ASSUME NEW Byte, NEW text \in Seq(Byte), WellFormed(text), NEW o \in 0 .. Len(text), Boundary(text, o)
  PROVE  OffsetAt(text, [line |-> LineOf(text, o), char |-> Units(text, StartOf(text, o), o)]) =
           IF o \in 1 .. Len(text) - 1 /\ text[o] = "r" /\ text[o + 1] = "n" THEN o - 1 ELSE o
<1>1. /\ \A p \in Nat : LineOf(text, p) \in Nat
      /\ \A p \in Nat \ {0} : LineOf(text, p) = LineOf(text, p - 1) + (IF text[p] = "n" THEN 1 ELSE 0)
      /\ \A p \in Nat, q \in Nat : p <= q => LineOf(text, p) <= LineOf(text, q)
  BY NewlinesUpTo
<1> DEFINE S    == LineStarts(text)
           n    == Len(text)
           k    == LineOf(text, o)
           l    == k + 1
           from == StartOf(text, o)
           end  == LineBreak(text, S, l)
           pos  == [line |-> k, char |-> Units(text, from, o)]
           inCR == o \in 1 .. n - 1 /\ text[o] = "r" /\ text[o + 1] = "n"
<1>0. ASSUME o + 1 <= Len(text), text[o + 1] = "n" PROVE LineOf(text, o + 1) = LineOf(text, o) + 1
  <2> DEFINE q == o + 1
  <2>1. q \in Nat \ {0} /\ q - 1 = o /\ text[q] = "n"
    BY <1>0
  <2> HIDE DEF q
  <2>2. LineOf(text, q) = LineOf(text, q - 1) + 1
    BY <1>1, <2>1
  <2> QED
    BY <2>1, <2>2 DEF q
<1>2. /\ Len(S) = LineOf(text, n) + 1 /\ Len(S) \in Nat /\ n \in Nat
      /\ \A i \in 1 .. Len(S) : /\ S[i] \in 0 .. n /\ LineOf(text, S[i]) = i - 1
                                /\ \A p \in 0 .. n : LineOf(text, p) = i - 1 => S[i] <= p
  <2>1. Len(text) \in Nat
    OBVIOUS
  <2> QED
    BY <2>1, LineStartsAt
<1>3. /\ l \in 1 .. Len(S) /\ from \in 0 .. o /\ S[l] = from
  BY <1>2, LineOfOffset
<1>4. /\ Boundary(text, from) /\ end \in from .. n
  <2>1. Starts(text, S)
    BY <1>2, LineStartsInOrder
  <2> QED
    BY <1>3, <2>1, LineBegins
<1>5. k \in Nat /\ l = k + 1 /\ o \in Nat /\ from \in Nat /\ end \in Nat /\ from <= o /\ o <= n /\ n \in Nat
  <2>1. o \in Nat
    OBVIOUS
  <2>2. k \in Nat
    BY <1>1, <2>1
  <2> QED
    BY <1>2, <1>3, <1>4, <2>2
<1>6. OffsetAt(text, pos) = Advance(text, from, end, Units(text, from, o))
  <2>1. pos.line = k /\ pos.char = Units(text, from, o) /\ ~(k < 0) /\ ~(k >= Len(S))
    BY <1>2, <1>3, <1>5
  <2> HIDE DEF pos, k, from
  <2>2. OffsetAt(text, pos) = Advance(text, S[k + 1], LineBreak(text, S, k + 1), pos.char)
    BY <2>1 DEF OffsetAt, offsetAt
  <2> QED
    BY <1>3, <2>1, <2>2
\* How the end of the line lies to the offset.
<1>7. IF inCR THEN end = o - 1 ELSE o <= end
  <2> HIDE DEF S, k, from, n
  <2>1. CASE l = Len(S)
    <3>1. end = n
      BY <2>1 DEF LineBreak, n
    <3>2. ~inCR
      <4> SUFFICES ASSUME inCR PROVE FALSE
        OBVIOUS
      <4>1. o + 1 \in Nat \ {0} /\ o + 1 - 1 = o /\ o + 1 <= n /\ text[o + 1] = "n"
        BY <1>5
      <4>2. LineOf(text, o + 1) = LineOf(text, o) + 1
        BY <1>0, <4>1 DEF n
      <4>3. LineOf(text, o + 1) <= LineOf(text, n)
        BY <1>1, <1>5, <4>1
      <4>4. LineOf(text, n) = k
        <5>1. LineOf(text, n) \in Nat
          BY <1>1, <1>5
        <5> QED
          BY <1>2, <1>5, <2>1, <5>1
      <4> QED
        BY <1>5, <4>2, <4>3, <4>4 DEF k
    <3> QED
      BY <1>5, <3>1, <3>2
  <2>2. CASE l # Len(S)
    <3> DEFINE j == l + 1
               s == S[j]
               x == s - 1
    <3>1. j \in 1 .. Len(S) /\ j - 1 = l
      BY <1>2, <1>3, <1>5, <2>2
    <3> HIDE DEF j
    <3>2. s \in Nat /\ s <= n /\ LineOf(text, s) = l /\ \A p \in 0 .. n : LineOf(text, p) = l => s <= p
      BY <1>2, <3>1
    <3> HIDE DEF s
    <3>3. o < s
      <4>1. s <= o => LineOf(text, s) <= LineOf(text, o)
        BY <1>1, <1>5, <3>2
      <4> QED
        BY <1>5, <3>2, <4>1 DEF k
    <3>4. text[s] = "n"
      <4>1. s \in Nat \ {0} /\ s - 1 \in 0 .. n /\ ~(s <= s - 1)
        BY <1>5, <3>2, <3>3
      <4>2. LineOf(text, s - 1) # l
        BY <3>2, <4>1
      <4>3. LineOf(text, s - 1) <= LineOf(text, s) /\ LineOf(text, s) = LineOf(text, s - 1) + (IF text[s] = "n" THEN 1 ELSE 0)
            /\ LineOf(text, s - 1) \in Nat
        BY <1>1, <3>2, <4>1
      <4> QED
        BY <3>2, <4>2, <4>3
    <3>5. x \in Nat /\ x + 1 = s /\ o <= x /\ x <= n - 1 /\ text[x + 1] = "n"
      BY <1>5, <3>2, <3>3, <3>4
    <3>6. end = IF x > from /\ text[x] = "r" THEN x - 1 ELSE x
      <4>1. S[l] = from
        BY <1>3
      <4> QED
        BY <2>2, <4>1 DEF LineBreak, s, j
    <3> HIDE DEF x, end
    <3>7. inCR => x = o /\ x > from
      <4> SUFFICES ASSUME inCR PROVE x = o /\ x > from
        OBVIOUS
      <4>1. o + 1 \in Nat \ {0} /\ o + 1 - 1 = o /\ o + 1 \in 0 .. n /\ text[o + 1] = "n" /\ o # 0 /\ text[o] = "r"
        BY <1>5
      <4>2. LineOf(text, o + 1) = l
        BY <1>0, <1>5, <4>1 DEF k, n
      <4>3. s <= o + 1
        BY <3>2, <4>1, <4>2
      <4>4. x = o
        BY <1>5, <3>5, <4>3
      <4>5. from # o
        <5> SUFFICES ASSUME from = o PROVE FALSE
          OBVIOUS
        <5>1. from = 0 \/ text[from] = "n"
          <6> DEFINE N == {0} \cup {i \in 1 .. o : text[i] = "n"}
          <6>1. N \in SUBSET (0 .. o) /\ N # {} /\ from = Max(N) /\ \A i \in N : i = 0 \/ text[i] = "n"
            BY <1>5 DEF StartOf, from
          <6> HIDE DEF N
          <6>2. from \in N
            BY <1>5, <6>1, LargestOf
          <6> QED
            BY <6>1, <6>2
        <5> QED
          BY <4>1, <5>1
      <4> QED
        BY <1>5, <3>5, <4>4, <4>5
    <3>8. x = o /\ text[x] = "r" /\ x > from => inCR
      BY <1>5, <3>5
    <3>9. CASE inCR
      <4>1. text[o] = "r"
        BY <3>9
      <4> QED
        BY <3>6, <3>7, <3>9, <4>1
    <3>10. CASE ~inCR
      <4>1. ~(x = o /\ text[x] = "r" /\ x > from)
        BY <3>8, <3>10
      <4>2. o <= end
        BY <1>5, <3>5, <3>6, <4>1
      <4> QED
        BY <3>10, <4>2
    <3> QED
      BY <3>9, <3>10
  <2> QED
    BY <2>1, <2>2
<1>8. Boundary(text, end)
  <2>1. CASE inCR
    <3>1. end = o - 1 /\ end + 1 = o /\ text[o] = "r"
      BY <1>5, <1>7, <2>1
    <3> HIDE DEF end
    <3> QED
      BY <3>1 DEF Boundary
  <2>2. CASE end = o
    <3> HIDE DEF end
    <3> QED
      BY <2>2
  <2>3. CASE end # n /\ text[end + 1] \in {"n", "r"}
    <3> HIDE DEF end
    <3> QED
      BY <2>3 DEF Boundary
  <2>4. CASE end = n
    <3> HIDE DEF end
    <3> QED
      BY <2>4 DEF Boundary
  <2>5. end = n \/ text[end + 1] \in {"n", "r"}
    <3>1. CASE l = Len(S)
      <4>1. end = n
        BY <3>1 DEF LineBreak
      <4> QED
        BY <4>1
    <3>2. CASE l # Len(S)
      <4> DEFINE j == l + 1
                 s == S[j]
                 x == s - 1
      <4>1. j \in 1 .. Len(S) /\ j > 1
        BY <1>2, <1>3, <1>5, <3>2
      <4>2. Starts(text, S)
        BY <1>2, LineStartsInOrder
      <4>3. S[j] \in 0 .. n /\ text[S[j]] = "n"
        BY <4>1, <4>2 DEF Starts
      <4>4. x + 1 = s /\ text[x + 1] = "n" /\ x \in Int
        BY <4>3
      <4>5. end = IF x > from /\ text[x] = "r" THEN x - 1 ELSE x
        BY <1>3, <3>2 DEF LineBreak
      <4> HIDE DEF x, end
      <4>6. CASE end = x
        BY <4>4, <4>6
      <4>7. CASE end = x - 1 /\ text[x] = "r"
        <5>1. end + 1 = x
          BY <4>4, <4>7
        <5> QED
          BY <4>7, <5>1
      <4> QED
        BY <4>5, <4>6, <4>7
    <3> QED
      BY <3>1, <3>2
  <2> QED
    BY <2>3, <2>4, <2>5
<1>9. Advance(text, from, end, Units(text, from, o)) = IF o <= end THEN o ELSE end
  <2>1. from \in 0 .. n /\ end \in from .. n /\ o \in from .. n
    BY <1>4, <1>5
  <2> HIDE DEF from, end
  <2> QED
    BY <1>4, <1>5, <1>8, <2>1, AdvanceReaches
<1>10. (IF o <= end THEN o ELSE end) = IF inCR THEN o - 1 ELSE o
  <2> HIDE DEF end, inCR
  <2> QED
    BY <1>5, <1>7
<1> QED
  BY <1>6, <1>9, <1>10

\* Whatever the text: the server's two conversions are inverse to each other, no position
\* splits a rune, and the write path finds the place that the server finds.
THEOREM PositionsMeanTheSame ==
  ASSUME NEW Byte, NEW text \in Seq(Byte), WellFormed(text), NEW positions \in SUBSET [line : Int, char : Int]
  PROVE  PositionsAgree(text, positions)
<1> DEFINE S == LineStarts(text)
           n == Len(text)
<1>1. n \in Nat /\ Starts(text, S) /\ Len(S) = LineOf(text, n) + 1 /\ Len(S) \in Nat \ {0} /\ LineOf(text, n) \in Nat
  <2>1. Len(text) \in Nat
    OBVIOUS
  <2>2. LineOf(text, n) \in Nat
    BY <2>1, NewlinesUpTo
  <2> QED
    BY <2>1, <2>2, LineStartsInOrder, LineStartsAt
<1>2. ASSUME NEW o \in -1 .. Len(text) + 1
      PROVE  LET p    == PositionAt(text, o)
                 rune == Max({q \in 0 .. Clamp(o, 0, Len(text)) : Boundary(text, q)})
                 inCR == rune \in 1 .. Len(text) - 1 /\ text[rune] = "r" /\ text[rune + 1] = "n"
             IN OffsetAt(text, p) = IF inCR THEN rune - 1 ELSE rune
  <2> DEFINE c == Clamp(o, 0, Len(text))
             R == {q \in 0 .. c : Boundary(text, q)}
             r == Max(R)
  <2>1. c \in 0 .. n /\ c \in Nat
    BY <1>1 DEF Clamp
  <2>2. Boundary(text, 0)
    BY <1>1 DEF Boundary, WellFormed
  <2>3. R \in SUBSET (0 .. c) /\ R # {} /\ \A q \in R : Boundary(text, q)
    BY <2>1, <2>2
  <2> HIDE DEF c, R
  <2>4. r \in 0 .. c /\ Boundary(text, r)
    BY <2>1, <2>3, LargestOf
  <2>5. r \in 0 .. n
    BY <2>1, <2>4
  <2>6. PositionAt(text, o) = [line |-> LineOf(text, r), char |-> Units(text, StartOf(text, r), r)]
    BY DEF PositionAt, R, c
  <2> HIDE DEF r
  <2>7. OffsetAt(text, PositionAt(text, o)) = IF r \in 1 .. n - 1 /\ text[r] = "r" /\ text[r + 1] = "n" THEN r - 1 ELSE r
    BY <2>4, <2>5, <2>6, PositionLeadsBack
  <2> QED
    BY <2>7 DEF r, R, c
<1>3. ASSUME NEW p \in positions
      PROVE  /\ Boundary(text, OffsetAt(text, p))
             /\ ByteOffset(text, p) # NoOffset => ByteOffset(text, p) = OffsetAt(text, p)
             /\ ByteOffset(text, p) = NoOffset <=> p.line < 0 \/ p.char < 0 \/ p.line > LineOf(text, Len(text))
  <2>1. p \in [line : Int, char : Int] /\ p.line \in Int /\ p.char \in Int
    OBVIOUS
  <2>2. Boundary(text, OffsetAt(text, p))
    BY <1>1, <2>1, OffsetsBetweenRunes
  <2> DEFINE l    == p.line + 1
             from == S[l]
             out  == p.line < 0 \/ p.char < 0 \/ p.line >= Len(S)
  <2>3. out <=> p.line < 0 \/ p.char < 0 \/ p.line > LineOf(text, Len(text))
    BY <1>1, <2>1
  <2>4. CASE out
    <3>1. ByteOffset(text, p) = NoOffset
      BY <2>4 DEF ByteOffset
    <3> QED
      BY <2>2, <2>3, <2>4, <3>1
  <2>5. CASE ~out
    <3>1. l \in 1 .. Len(S)
      BY <1>1, <2>1, <2>5
    <3>2. ByteOffset(text, p) = Advance(text, from, LineEnd(text, from), p.char)
      BY <2>5 DEF ByteOffset
    <3>3. OffsetAt(text, p) = Advance(text, from, LineBreak(text, S, l), p.char)
      BY <1>1, <2>1, <2>5 DEF OffsetAt, offsetAt
    <3>4. LineEnd(text, from) = LineBreak(text, S, l)
      BY <1>1, <3>1, LineEndsAlike
    <3>5. ByteOffset(text, p) = OffsetAt(text, p)
      BY <3>2, <3>3, <3>4
    <3>6. OffsetAt(text, p) \in 0 .. n
      BY <1>1, <2>1, OffsetsBetweenRunes
    <3>7. ByteOffset(text, p) # NoOffset
      BY <1>1, <3>5, <3>6 DEF NoOffset
    <3> QED
      BY <2>2, <2>3, <2>5, <3>5, <3>7
  <2> QED
    BY <2>4, <2>5
<1> QED
  BY <1>1, <1>2, <1>3 DEF PositionsAgree

-----------------------------------------------------------------------------
(* Plans of edits (TextEdits).                                             *)

\* If no edit reaches into the one before it in the list, none reaches into any before it.
LEMMA EachAbove ==
  ASSUME NEW edits, Ranges(edits), NonOverlapping(edits)
  PROVE  \A i, j \in DOMAIN edits : i < j => edits[j].end <= edits[i].start
<1> SUFFICES ASSUME NEW i \in DOMAIN edits,
                    {j \in DOMAIN edits : i < j /\ ~(edits[j].end <= edits[i].start)} # {}
             PROVE  FALSE
  OBVIOUS
<1> DEFINE wrong == {j \in DOMAIN edits : i < j /\ ~(edits[j].end <= edits[i].start)}
<1>0. wrong \in SUBSET Nat /\ wrong # {}
  BY DEF Ranges
<1> HIDE DEF wrong
<1>1. PICK j \in wrong : \A k \in wrong : j <= k
  BY <1>0, LeastNumber
<1>2. /\ i \in 1 .. Len(edits) /\ j \in 2 .. Len(edits) /\ i < j /\ Len(edits) \in Nat
      /\ ~(edits[j].end <= edits[i].start)
      /\ edits[j].end <= edits[j - 1].start
  BY <1>1 DEF Ranges, NonOverlapping, wrong
<1>3. i # j - 1
  BY <1>2
<1>4. j - 1 \in DOMAIN edits /\ i < j - 1 /\ j - 1 \notin wrong
  BY <1>1, <1>2, <1>3 DEF Ranges
<1>5. edits[j - 1].end <= edits[i].start
  BY <1>4 DEF wrong
<1>6. /\ edits[j].end \in Nat /\ edits[i].start \in Nat
      /\ edits[j - 1].start \in Nat /\ edits[j - 1].end \in Nat /\ edits[j - 1].start <= edits[j - 1].end
  BY SMTT(30), <1>2, <1>4 DEF Ranges
<1> QED
  BY SMTT(30), <1>2, <1>5, <1>6

\* In the order of sortDescending, each edit is checked against the one before it only; the plan is
\* refused all the same exactly if any two of its edits overlap.
THEOREM NeighboursSuffice ==
  ASSUME NEW edits, Ranges(edits), Descending(edits)
  PROVE  NonOverlapping(edits) <=> \A i, j \in DOMAIN edits : i # j => ~Overlap(edits[i], edits[j])
<1>1. ASSUME NonOverlapping(edits), NEW i \in DOMAIN edits, NEW j \in DOMAIN edits, i # j
      PROVE  ~Overlap(edits[i], edits[j])
  <2>1. i \in Nat /\ j \in Nat
    BY DEF Ranges
  <2>2. edits[j].end <= edits[i].start \/ edits[i].end <= edits[j].start
    BY <1>1, <2>1, EachAbove
  <2> QED
    BY <2>2 DEF Overlap, Ranges
<1>2. ASSUME \A i, j \in DOMAIN edits : i # j => ~Overlap(edits[i], edits[j]), NEW i \in 2 .. Len(edits)
      PROVE  edits[i].end <= edits[i - 1].start
  <2> DEFINE e == edits[i]
             f == edits[i - 1]
  <2>1. i \in DOMAIN edits /\ i - 1 \in DOMAIN edits /\ i - 1 < i
    BY DEF Ranges
  <2>2. /\ e.start \in Nat /\ e.end \in Nat /\ e.start <= e.end
        /\ f.start \in Nat /\ f.end \in Nat /\ f.start <= f.end
    BY <2>1 DEF Ranges
  <2>3. ~Before(e, f) /\ ~Overlap(e, f)
    BY <1>2, <2>1 DEF Descending
  <2> HIDE DEF e, f
  <2>4. e.end <= f.start
    BY <2>2, <2>3 DEF Before, Overlap
  <2> QED
    BY <2>4 DEF e, f
<1> QED
  BY <1>1, <1>2 DEF NonOverlapping

\* What two sequences give that are joined.
LEMMA Joined ==
  ASSUME NEW Byte, NEW s \in Seq(Byte), NEW t \in Seq(Byte)
  PROVE  /\ s \o t \in Seq(Byte) /\ Len(s \o t) = Len(s) + Len(t)
         /\ \A i \in 1 .. Len(s) : (s \o t)[i] = s[i]
OBVIOUS

\* An edit gives a text, of the length it should have, and keeps what is in front of it.
LEMMA SpliceParts ==
  ASSUME NEW Byte, NEW text \in Seq(Byte), NEW new \in Seq(Byte),
         NEW from \in Nat, NEW to \in Nat, from <= to, to <= Len(text)
  PROVE  /\ Splice(text, from, to, new) \in Seq(Byte)
         /\ Len(Splice(text, from, to, new)) = Len(text) - (to - from) + Len(new)
         /\ \A i \in 1 .. from : Splice(text, from, to, new)[i] = text[i]
<1> DEFINE head == SubSeq(text, 1, from)
           tail == SubSeq(text, to + 1, Len(text))
<1>1. head \in Seq(Byte) /\ Len(head) = from /\ \A i \in 1 .. from : head[i] = text[i]
  OBVIOUS
<1>2. tail \in Seq(Byte) /\ Len(tail) = Len(text) - to
  OBVIOUS
<1>3. Splice(text, from, to, new) = head \o new \o tail
  BY DEF Splice
<1> HIDE DEF head, tail
<1>4. /\ head \o new \in Seq(Byte) /\ Len(head \o new) = Len(head) + Len(new)
      /\ \A i \in 1 .. Len(head) : (head \o new)[i] = head[i]
  BY <1>1, Joined
<1> DEFINE front == head \o new
<1> HIDE DEF front
<1>5. /\ front \o tail \in Seq(Byte) /\ Len(front \o tail) = Len(front) + Len(tail)
      /\ \A i \in 1 .. Len(front) : (front \o tail)[i] = front[i]
  <2>1. front \in Seq(Byte)
    BY <1>4 DEF front
  <2> QED
    BY <1>2, <2>1, Joined
<1>6. Len(head) = from /\ Len(front) = from + Len(new) /\ Len(new) \in Nat
  BY <1>1, <1>4 DEF front
<1>7. Len(Splice(text, from, to, new)) = Len(text) - (to - from) + Len(new)
  BY SMTT(30), <1>2, <1>3, <1>5, <1>6 DEF front
<1>8. ASSUME NEW i \in 1 .. from PROVE Splice(text, from, to, new)[i] = text[i]
  <2>1. i \in 1 .. Len(head) /\ i \in 1 .. Len(front)
    BY <1>1, <1>6
  <2>2. front[i] = text[i]
    BY <1>1, <1>4, <2>1 DEF front
  <2>3. (front \o tail)[i] = text[i]
    BY <1>5, <2>1, <2>2
  <2> QED
    BY <1>3, <2>3 DEF front
<1> QED
  BY <1>3, <1>5, <1>7, <1>8 DEF front

\* Two texts that agree up to an offset have the same row and column there.
LEMMA SamePoint ==
  ASSUME NEW Byte, NEW text \in Seq(Byte), NEW other \in Seq(Byte),
         NEW o \in Nat, o <= Len(text), o <= Len(other), \A i \in 1 .. o : other[i] = text[i]
  PROVE  PointAt(other, o) = PointAt(text, o)
<1>1. Clamp(o, 0, Len(text)) = o /\ Clamp(o, 0, Len(other)) = o
  BY DEF Clamp
<1>2. {i \in 1 .. o : other[i] = "n"} = {i \in 1 .. o : text[i] = "n"}
  OBVIOUS
<1>3. LineOf(other, o) = LineOf(text, o) /\ StartOf(other, o) = StartOf(text, o)
  BY <1>2 DEF LineOf, StartOf
<1> QED
  BY <1>1, <1>3 DEF PointAt

\* Applied from the bottom up, every edit of a plan finds its range as it was in the original text,
\* and so do the parser's rows and columns: it needs no correction for the edits before it.
THEOREM EditsFindTheirText ==
  ASSUME NEW Byte, NEW text \in Seq(Byte), NEW edits, Ranges(edits), NonOverlapping(edits),
         \A i \in DOMAIN edits : edits[i].end <= Len(text) /\ edits[i].new \in Seq(Byte),
         NEW out, out[0] = text,
         \A i \in DOMAIN edits : out[i] = Splice(out[i - 1], edits[i].start, edits[i].end, edits[i].new)
  PROVE  \A i \in DOMAIN edits, o \in Nat : o <= edits[i].end =>
           /\ o <= Len(out[i - 1])
           /\ \A b \in 1 .. o : out[i - 1][b] = text[b]
           /\ PointAt(out[i - 1], o) = PointAt(text, o)
<1> DEFINE Above(i)  == IF i = 0 THEN Len(text) ELSE edits[i].start
           Kept(i)   == /\ out[i] \in Seq(Byte) /\ Above(i) <= Len(out[i])
                        /\ \A b \in 1 .. Above(i) : out[i][b] = text[b]
           n         == Len(edits)
<1>1. /\ n \in Nat /\ Len(text) \in Nat
      /\ \A i \in 1 .. n : /\ edits[i].start \in Nat /\ edits[i].end \in Nat /\ edits[i].start <= edits[i].end
                           /\ edits[i].end <= Len(text) /\ edits[i].new \in Seq(Byte)
                           /\ out[i] = Splice(out[i - 1], edits[i].start, edits[i].end, edits[i].new)
  BY DEF Ranges
<1>2. \A i \in 1 .. n : edits[i].end <= Above(i - 1)
  BY <1>1 DEF NonOverlapping
<1>3. Kept(0)
  BY <1>1
<1>4. ASSUME NEW i \in 1 .. n, Kept(i - 1) PROVE Kept(i)
  <2>1. i # 0 /\ Above(i - 1) \in Nat
    <3>1. CASE i = 1
      BY <1>1, <3>1
    <3>2. CASE i # 1
      <4>1. i - 1 \in 1 .. n
        BY <1>1, <3>2
      <4> QED
        BY <1>1, <4>1
    <3> QED
      BY <1>1, <3>1, <3>2
  <2> DEFINE a == edits[i].start
             z == edits[i].end
             before == out[i - 1]
             new    == edits[i].new
  <2>2. /\ before \in Seq(Byte) /\ new \in Seq(Byte) /\ a \in Nat /\ z \in Nat /\ a <= z
        /\ Len(before) \in Nat /\ z <= Len(before)
        /\ out[i] = Splice(before, a, z, new)
    BY <1>1, <1>2, <1>4, <2>1
  <2>3. \A b \in 1 .. a : before[b] = text[b]
    <3> SUFFICES ASSUME NEW b \in 1 .. a PROVE before[b] = text[b]
      OBVIOUS
    <3>0. z <= Above(i - 1) /\ b \in Nat /\ 1 <= b /\ b <= a
      BY <1>2, <2>2
    <3> HIDE DEF Above, a, z
    <3>1. b \in 1 .. Above(i - 1)
      BY <2>1, <2>2, <3>0
    <3> QED
      BY <1>4, <3>1
  <2> HIDE DEF a, z, before, new
  <2>4. /\ out[i] \in Seq(Byte) /\ Len(out[i]) = Len(before) - (z - a) + Len(new)
        /\ \A b \in 1 .. a : out[i][b] = before[b]
    <3>1. Splice(before, a, z, new) \in Seq(Byte)
      BY <2>2, SpliceParts
    <3>2. Len(Splice(before, a, z, new)) = Len(before) - (z - a) + Len(new)
      BY <2>2, SpliceParts
    <3>3. \A b \in 1 .. a : Splice(before, a, z, new)[b] = before[b]
      BY <2>2, SpliceParts
    <3> QED
      BY <2>2, <3>1, <3>2, <3>3
  <2>5. Len(new) \in Nat
    BY <2>2
  <2>6. a <= Len(out[i])
    BY <2>2, <2>4, <2>5
  <2> QED
    BY <2>1, <2>3, <2>4, <2>6 DEF a
<1> HIDE DEF Kept
<1>5. \A i \in 0 .. n : Kept(i)
  <2> SUFFICES ASSUME {i \in 0 .. n : ~Kept(i)} # {} PROVE FALSE
    OBVIOUS
  <2> DEFINE wrong == {i \in 0 .. n : ~Kept(i)}
  <2>0. wrong \in SUBSET Nat /\ wrong # {}
    BY <1>1
  <2> HIDE DEF wrong
  <2>1. PICK i \in wrong : \A k \in wrong : i <= k
    BY <2>0, LeastNumber
  <2>2. i \in 1 .. n /\ ~Kept(i)
    BY <1>1, <1>3, <2>1 DEF wrong
  <2>3. Kept(i - 1)
    BY <1>1, <2>1, <2>2 DEF wrong
  <2> QED
    BY <1>4, <2>1, <2>2, <2>3
<1> SUFFICES ASSUME NEW i \in 1 .. n, NEW o \in Nat, o <= edits[i].end
             PROVE  /\ o <= Len(out[i - 1])
                    /\ \A b \in 1 .. o : out[i - 1][b] = text[b]
                    /\ PointAt(out[i - 1], o) = PointAt(text, o)
  BY <1>1 DEF Ranges
<1>6. /\ out[i - 1] \in Seq(Byte) /\ Above(i - 1) <= Len(out[i - 1])
      /\ \A b \in 1 .. Above(i - 1) : out[i - 1][b] = text[b]
  BY <1>1, <1>5 DEF Kept
<1>7. Above(i - 1) \in Nat /\ o <= Above(i - 1) /\ o <= Len(text) /\ Len(out[i - 1]) \in Nat
  BY SMTT(30), <1>1, <1>2, <1>6
<1> HIDE DEF Above
<1>8. o <= Len(out[i - 1]) /\ \A b \in 1 .. o : out[i - 1][b] = text[b]
  BY <1>6, <1>7
<1> QED
  BY <1>6, <1>7, <1>8, SamePoint

\* A set of some of the first numbers is finite, and one without them all is smaller.
LEMMA FewerOf ==
  ASSUME NEW n \in Nat, NEW T \in SUBSET (1 .. n)
  PROVE  /\ IsFiniteSet(T) /\ Cardinality(T) \in 0 .. n
         /\ \A x \in 1 .. n : x \notin T => Cardinality(T) < n
         /\ \A s \in SUBSET T : Cardinality(s) <= Cardinality(T) /\ (Cardinality(s) = Cardinality(T) => s = T)
<1>1. IsFiniteSet(1 .. n) /\ Cardinality(1 .. n) = n
  <2>1. IsFiniteSet(1 .. n) /\ Cardinality(1 .. n) = IF 1 > n THEN 0 ELSE n - 1 + 1
    BY FS_Interval
  <2> QED
    BY <2>1
<1>2. IsFiniteSet(T) /\ Cardinality(T) <= n /\ (Cardinality(T) = n => T = 1 .. n)
  BY <1>1, FS_Subset
<1>3. Cardinality(T) \in Nat
  BY <1>2, FS_CardinalityType
<1>4. \A s \in SUBSET T : Cardinality(s) <= Cardinality(T) /\ (Cardinality(s) = Cardinality(T) => s = T)
  BY <1>2, FS_Subset
<1> QED
  BY <1>2, <1>3, <1>4

\* The edits are in one order: each two of them go one in front of the other.
LEMMA OneOrder ==
  ASSUME NEW edits, Len(edits) \in Nat, DOMAIN edits = 1 .. Len(edits),
         \A i \in DOMAIN edits : edits[i].start \in Int /\ edits[i].end \in Int
  PROVE  /\ \A i \in DOMAIN edits : ~Precedes(edits, i, i)
         /\ \A i, j \in DOMAIN edits : i # j => Precedes(edits, i, j) \/ Precedes(edits, j, i)
         /\ \A i, j, k \in DOMAIN edits : Precedes(edits, i, j) /\ Precedes(edits, j, k) => Precedes(edits, i, k)
<1> DEFINE a(i) == edits[i].start
           b(i) == edits[i].end
<1>1. \A i, j \in DOMAIN edits :
        Precedes(edits, i, j) <=> \/ a(i) > a(j)
                                  \/ a(i) = a(j) /\ b(i) > b(j)
                                  \/ a(i) = a(j) /\ b(i) = b(j) /\ i < j
  <2> SUFFICES ASSUME NEW i \in DOMAIN edits, NEW j \in DOMAIN edits
               PROVE  Precedes(edits, i, j) <=> \/ a(i) > a(j)
                                                \/ a(i) = a(j) /\ b(i) > b(j)
                                                \/ a(i) = a(j) /\ b(i) = b(j) /\ i < j
    OBVIOUS
  <2>1. /\ Before(edits[i], edits[j]) <=> a(i) > a(j) \/ (a(i) = a(j) /\ b(i) > b(j))
        /\ Before(edits[j], edits[i]) <=> a(j) > a(i) \/ (a(j) = a(i) /\ b(j) > b(i))
    BY DEF Before
  <2>2. a(i) \in Int /\ a(j) \in Int /\ b(i) \in Int /\ b(j) \in Int /\ i \in Int /\ j \in Int
    OBVIOUS
  <2> HIDE DEF a, b
  <2> QED
    BY <2>1, <2>2 DEF Precedes
<1>2. \A i \in DOMAIN edits : a(i) \in Int /\ b(i) \in Int /\ i \in Int
  OBVIOUS
<1> HIDE DEF a, b
<1>3. \A i \in DOMAIN edits : ~Precedes(edits, i, i)
  BY <1>1, <1>2
<1>4. \A i, j \in DOMAIN edits : i # j => Precedes(edits, i, j) \/ Precedes(edits, j, i)
  BY <1>1, <1>2
<1>5. \A i, j, k \in DOMAIN edits : Precedes(edits, i, j) /\ Precedes(edits, j, k) => Precedes(edits, i, k)
  BY <1>1, <1>2
<1> QED
  BY <1>3, <1>4, <1>5

\* Each place of the sorted list has one edit, and each edit one place.
LEMMA RanksAreOnce ==
  ASSUME NEW edits, Len(edits) \in Nat, DOMAIN edits = 1 .. Len(edits),
         \A i \in DOMAIN edits : edits[i].start \in Int /\ edits[i].end \in Int
  PROVE  /\ \A i, j \in DOMAIN edits : Precedes(edits, i, j) <=> Rank(edits, i) < Rank(edits, j)
         /\ \A i \in DOMAIN edits : Rank(edits, i) \in 0 .. Len(edits) - 1
         /\ \A i, j \in DOMAIN edits : Rank(edits, i) = Rank(edits, j) => i = j
         /\ \A k \in DOMAIN edits : \E i \in DOMAIN edits : Rank(edits, i) = k - 1
<1> DEFINE n == Len(edits)
           D == 1 .. n
           F(i) == {j \in D : Precedes(edits, j, i)}
<1>1. /\ \A i \in D : ~Precedes(edits, i, i)
      /\ \A i, j \in D : i # j => Precedes(edits, i, j) \/ Precedes(edits, j, i)
      /\ \A i, j, k \in D : Precedes(edits, i, j) /\ Precedes(edits, j, k) => Precedes(edits, i, k)
  BY OneOrder
<1>2. \A i \in D : /\ Rank(edits, i) = Cardinality(F(i)) /\ F(i) \in SUBSET D
                   /\ \A j : j \in F(i) <=> j \in D /\ Precedes(edits, j, i)
  BY DEF Rank
<1> HIDE DEF F
<1>3. ASSUME NEW i \in D PROVE Rank(edits, i) \in 0 .. n - 1
  <2>1. i \notin F(i)
    BY <1>1, <1>2
  <2>2. Cardinality(F(i)) \in 0 .. n /\ Cardinality(F(i)) < n
    BY <1>2, <2>1, FewerOf
  <2> QED
    BY <1>2, <2>2
<1>4. ASSUME NEW i \in D, NEW j \in D, Precedes(edits, i, j) PROVE Rank(edits, i) < Rank(edits, j)
  <2>1. F(i) \in SUBSET F(j) /\ i \in F(j) /\ i \notin F(i)
    BY <1>1, <1>2, <1>4
  <2>2. Cardinality(F(i)) <= Cardinality(F(j)) /\ Cardinality(F(i)) # Cardinality(F(j))
    BY <1>2, <2>1, FewerOf
  <2> QED
    BY <1>2, <1>3, <2>2
<1>5. \A i, j \in D : Rank(edits, i) = Rank(edits, j) => i = j
  <2> SUFFICES ASSUME NEW i \in D, NEW j \in D, Rank(edits, i) = Rank(edits, j), i # j PROVE FALSE
    OBVIOUS
  <2>1. Rank(edits, i) < Rank(edits, j) \/ Rank(edits, j) < Rank(edits, i)
    BY <1>1, <1>4
  <2> QED
    BY <1>3, <2>1
<1>6. \A i, j \in D : Precedes(edits, i, j) <=> Rank(edits, i) < Rank(edits, j)
  <2> SUFFICES ASSUME NEW i \in D, NEW j \in D, Rank(edits, i) < Rank(edits, j), ~Precedes(edits, i, j) PROVE FALSE
    BY <1>4
  <2>1. i = j \/ Precedes(edits, j, i)
    BY <1>1
  <2>2. Rank(edits, j) <= Rank(edits, i)
    BY <1>3, <1>4, <2>1
  <2> QED
    BY <1>3, <2>2
<1>7. ASSUME NEW k \in D PROVE \E i \in D : Rank(edits, i) = k - 1
  <2> DEFINE f == [i \in D |-> Rank(edits, i)]
             R == 0 .. n - 1
  <2>1. f \in [D -> R] /\ \A i, j \in D : f[i] = f[j] => i = j
    BY <1>3, <1>5
  <2>2. f \in Injection(D, R)
    BY <2>1 DEF Injection, IsInjective
  <2>3. n \in Nat /\ n > 0 /\ k - 1 \in R
    OBVIOUS
  <2>4. IsFiniteSet(R) /\ Cardinality(R) = n /\ Cardinality(D) = n
    <3>1. 0 \in Int /\ n - 1 \in Int /\ 1 \in Int /\ n \in Int /\ ~(0 > n - 1) /\ ~(1 > n)
      BY <2>3
    <3>2. IsFiniteSet(R) /\ Cardinality(R) = n - 1 - 0 + 1
      BY <3>1, FS_Interval
    <3>3. Cardinality(D) = n - 1 + 1
      BY <3>1, FS_Interval
    <3> QED
      BY <2>3, <3>2, <3>3
  <2> HIDE DEF R
  <2>5. f \in Surjection(D, R)
    BY <2>2, <2>4, FS_Injection
  <2>6. \A y \in R : \E i \in D : f[i] = y
    BY <2>5 DEF Surjection
  <2> QED
    BY <2>3, <2>6
<1> QED
  BY <1>3, <1>5, <1>6, <1>7

\* What sortDescending gives: the same edits, each once, the highest first.
LEMMA SortedOnce ==
  ASSUME NEW edits, Len(edits) \in Nat, DOMAIN edits = 1 .. Len(edits),
         \A i \in DOMAIN edits : edits[i].start \in Int /\ edits[i].end \in Int
  PROVE  /\ DOMAIN SortDescending(edits) = 1 .. Len(edits) /\ Len(SortDescending(edits)) = Len(edits)
         /\ Descending(SortDescending(edits))
         /\ \E p \in [1 .. Len(edits) -> 1 .. Len(edits)] :
              /\ \A k \in 1 .. Len(edits) : SortDescending(edits)[k] = edits[p[k]]
              /\ \A i, j \in 1 .. Len(edits) : p[i] = p[j] => i = j
              /\ \A i, j \in 1 .. Len(edits) : i < j => Precedes(edits, p[i], p[j])
              /\ \A i \in 1 .. Len(edits) : \E k \in 1 .. Len(edits) : p[k] = i
<1> DEFINE n == Len(edits)
           D == 1 .. n
           p == [k \in D |-> CHOOSE i \in DOMAIN edits : Rank(edits, i) = k - 1]
           sorted == SortDescending(edits)
<1>1. /\ \A i, j \in D : Precedes(edits, i, j) <=> Rank(edits, i) < Rank(edits, j)
      /\ \A i \in D : Rank(edits, i) \in 0 .. n - 1
      /\ \A i, j \in D : Rank(edits, i) = Rank(edits, j) => i = j
      /\ \A k \in D : \E i \in D : Rank(edits, i) = k - 1
  BY RanksAreOnce
<1>2. \A k \in D : p[k] \in D /\ Rank(edits, p[k]) = k - 1
  <2> SUFFICES ASSUME NEW k \in D PROVE p[k] \in D /\ Rank(edits, p[k]) = k - 1
    OBVIOUS
  <2>1. \E i \in DOMAIN edits : Rank(edits, i) = k - 1
    BY <1>1
  <2>2. p[k] = CHOOSE i \in DOMAIN edits : Rank(edits, i) = k - 1
    OBVIOUS
  <2> HIDE DEF p
  <2> QED
    BY <2>1, <2>2
<1>3. sorted = [k \in D |-> edits[p[k]]]
  BY DEF SortDescending
<1>4. p \in [D -> D]
  BY <1>2
<1> HIDE DEF p, sorted
<1>5. \A i, j \in D : p[i] = p[j] => i = j
  BY <1>2
<1>9. ASSUME NEW i \in D, NEW j \in D, i < j PROVE Precedes(edits, p[i], p[j])
  <2>1. p[i] \in D /\ p[j] \in D /\ Rank(edits, p[i]) = i - 1 /\ Rank(edits, p[j]) = j - 1
    BY <1>2
  <2>2. Rank(edits, p[i]) < Rank(edits, p[j])
    BY <1>9, <2>1
  <2> QED
    BY <1>1, <2>1, <2>2
<1>6. ASSUME NEW i \in D PROVE \E k \in D : p[k] = i
  <2>1. Rank(edits, i) \in 0 .. n - 1
    BY <1>1
  <2> DEFINE k == Rank(edits, i) + 1
  <2>2. k \in D /\ k - 1 = Rank(edits, i)
    BY <2>1
  <2> HIDE DEF k
  <2>3. p[k] \in D /\ Rank(edits, p[k]) = Rank(edits, i)
    BY <1>2, <2>2
  <2> QED
    BY <1>1, <2>2, <2>3
<1>7. DOMAIN sorted = D /\ Len(sorted) = n
  BY <1>3
<1>8. Descending(sorted)
  <2> SUFFICES ASSUME NEW i \in D, NEW j \in D, i < j, Before(sorted[j], sorted[i]) PROVE FALSE
    BY <1>7 DEF Descending
  <2>1. sorted[i] = edits[p[i]] /\ sorted[j] = edits[p[j]] /\ p[i] \in D /\ p[j] \in D
    BY <1>2, <1>3
  <2>2. Precedes(edits, p[j], p[i])
    BY <2>1 DEF Precedes
  <2>3. Rank(edits, p[j]) < Rank(edits, p[i]) /\ Rank(edits, p[j]) = j - 1 /\ Rank(edits, p[i]) = i - 1
    BY <1>1, <1>2, <2>1, <2>2
  <2> QED
    BY <2>3
<1> QED
  BY <1>3, <1>4, <1>5, <1>6, <1>7, <1>8, <1>9 DEF sorted

\* What joining keeps: the parts, wherever the brackets are.
LEMMA JoinLaws ==
  ASSUME NEW T, NEW a \in Seq(T), NEW b \in Seq(T), NEW c \in Seq(T)
  PROVE  /\ a \o b \in Seq(T) /\ Len(a \o b) = Len(a) + Len(b)
         /\ a \o (b \o c) = (a \o b) \o c
         /\ <<>> \o a = a /\ a \o <<>> = a
         /\ SubSeq(a \o b, 1, Len(a)) = a
         /\ SubSeq(a \o b, Len(a) + 1, Len(a \o b)) = b
<1>1. a \o b \in Seq(T) /\ Len(a \o b) = Len(a) + Len(b) /\ Len(a) \in Nat /\ Len(b) \in Nat
  BY ConcatProperties
<1>2. a \o (b \o c) = (a \o b) \o c /\ <<>> \o a = a /\ a \o <<>> = a
  BY ConcatAssociative, ConcatEmptySeq
<1>3. SubSeq(a \o b, 1, Len(a)) = a
  <2>1. \A i \in 1 .. Len(a) : (a \o b)[i] = a[i]
    OBVIOUS
  <2> DEFINE s == SubSeq(a \o b, 1, Len(a))
  <2>2. s = [i \in 1 .. Len(a) |-> (a \o b)[i]]
    BY <1>1
  <2>3. a = [i \in 1 .. Len(a) |-> a[i]]
    OBVIOUS
  <2> HIDE DEF s
  <2>4. s = a
    BY <2>1, <2>2, <2>3
  <2> QED
    BY <2>4 DEF s
<1>4. SubSeq(a \o b, Len(a) + 1, Len(a \o b)) = b
  <2> DEFINE m == Len(a)
             s == SubSeq(a \o b, m + 1, Len(a \o b))
  <2>1. s \in Seq(T) /\ Len(s) = Len(b) /\ \A i \in 1 .. Len(s) : s[i] = (a \o b)[m + i]
    BY <1>1, SubSeqProperties
  <2>2. \A i \in 1 .. Len(b) : (a \o b)[m + i] = b[i]
    BY <1>1
  <2> HIDE DEF s
  <2>3. \A i \in 1 .. Len(b) : s[i] = b[i]
    BY <2>1, <2>2
  <2>4. s = b
    BY <2>1, <2>3, SeqEqual
  <2> QED
    BY <2>4 DEF s
<1> QED
  BY <1>1, <1>2, <1>3, <1>4

\* The one behind the other.
Cat(a, b) == a \o b

\* What a set of sequences keeps that are joined.
Closed(V) == \A a, b \in V : Cat(a, b) \in V
Adds(V) == \A a, b \in V : Len(Cat(a, b)) = Len(a) + Len(b)
Regroups(V) == \A a, b, c \in V : Cat(a, Cat(b, c)) = Cat(Cat(a, b), c)
EmptyJoins(V) == <<>> \in V /\ Len(<<>>) = 0 /\ \A a \in V : Cat(a, <<>>) = a /\ Cat(<<>>, a) = a
SplicesParts(V) ==
  \A a, p, q, w \in V : Splice(Cat(Cat(a, p), q), Len(a), Len(Cat(a, p)), w) = Cat(Cat(a, w), q)
Joins(V) == Closed(V) /\ Adds(V) /\ Regroups(V) /\ EmptyJoins(V) /\ SplicesParts(V)

\* What the first of the parts make, for each number of them.
Made(f, s, n, V) ==
  /\ \A j \in 1 .. n : s[j] \in V
  /\ \A j \in 0 .. n : f[j] \in V
  /\ f[0] = <<>>
  /\ \A j \in 1 .. n : f[j] = Cat(f[j - 1], s[j])

\* Two rows of parts that differ in one, and nothing is in front of it: in the second row it is w.
InFront(s, t, n, i, w) ==
  /\ Len(s) = n /\ Len(t) = n /\ i \in 1 .. n /\ t[i] = w
  /\ \A j \in 1 .. i : s[j] = <<>>
  /\ \A j \in 1 .. n : j # i => t[j] = s[j]

\* Joined one by one, the second row has w in front of what the first one makes.
LEMMA JoinedInFront ==
  ASSUME NEW V, Joins(V), NEW n \in Nat, NEW s, NEW t, NEW i, NEW w \in V, InFront(s, t, n, i, w),
         NEW f, Made(f, s, n, V), NEW g, Made(g, t, n, V)
  PROVE  g[n] = Cat(w, f[n])
<1>1. i \in 1 .. n /\ i \in Nat
  BY DEF InFront
<1>2. <<>> \in V /\ Cat(w, <<>>) = w /\ Cat(<<>>, <<>>) = <<>> /\ Cat(<<>>, w) = w
  BY DEF Joins, EmptyJoins
<1>3. ASSUME NEW k \in 1 .. n
      PROVE  /\ k - 1 \in 0 .. n /\ k \in Nat /\ k - 1 \in Nat /\ f[k] = Cat(f[k - 1], s[k]) /\ g[k] = Cat(g[k - 1], t[k])
             /\ f[k - 1] \in V /\ g[k - 1] \in V /\ s[k] \in V /\ t[k] \in V
             /\ k <= i => s[k] = <<>>
             /\ k # i => t[k] = s[k]
             /\ k = i => t[k] = w
  <2>1. k - 1 \in 0 .. n /\ k \in Nat /\ k - 1 \in Nat /\ (k <= i => k \in 1 .. i)
    BY <1>1
  <2>2. /\ f[k] = Cat(f[k - 1], s[k]) /\ g[k] = Cat(g[k - 1], t[k])
        /\ f[k - 1] \in V /\ g[k - 1] \in V /\ s[k] \in V /\ t[k] \in V
    BY <2>1 DEF Made
  <2>3. (k <= i => s[k] = <<>>) /\ (k # i => t[k] = s[k]) /\ (k = i => t[k] = w)
    BY <2>1 DEF InFront
  <2> QED
    BY <2>1, <2>2, <2>3
<1> DEFINE P(k) == IF k < i THEN f[k] = <<>> /\ g[k] = <<>> ELSE g[k] = Cat(w, f[k])
           S    == {k \in 0 .. n : P(k)}
<1>4. P(0)
  <2>1. f[0] = <<>> /\ g[0] = <<>>
    BY DEF Made
  <2> QED
    BY <1>1, <2>1
<1>5. ASSUME NEW k \in 1 .. n, P(k - 1) PROVE P(k)
  <2> DEFINE h == k - 1
  <2>1. /\ h \in 0 .. n /\ h \in Nat /\ k \in Nat /\ k = h + 1 /\ f[k] = Cat(f[h], s[k]) /\ g[k] = Cat(g[h], t[k])
        /\ f[h] \in V /\ g[h] \in V /\ s[k] \in V /\ t[k] \in V
        /\ (k <= i => s[k] = <<>>) /\ (k # i => t[k] = s[k]) /\ (k = i => t[k] = w)
    BY <1>3
  <2>2. P(h)
    BY <1>5
  <2> HIDE DEF h
  <2>3. CASE k < i
    <3>1. h < i /\ k <= i /\ k # i
      BY <1>1, <2>1, <2>3
    <3> QED
      BY <1>2, <2>1, <2>2, <2>3, <3>1
  <2>4. CASE k = i
    <3>1. h < i /\ k <= i /\ ~(k < i)
      BY <1>1, <2>1, <2>4
    <3> QED
      BY <1>2, <2>1, <2>2, <2>4, <3>1
  <2>5. CASE k > i
    <3>1. ~(h < i) /\ ~(k < i) /\ k # i
      BY <1>1, <2>1, <2>5
    <3>2. g[k] = Cat(Cat(w, f[h]), s[k])
      BY <2>1, <2>2, <3>1
    <3>3. Cat(w, Cat(f[h], s[k])) = Cat(Cat(w, f[h]), s[k])
      BY <2>1 DEF Joins, Regroups
    <3> QED
      BY <2>1, <3>1, <3>2, <3>3
  <2> QED
    BY <1>1, <2>1, <2>3, <2>4, <2>5
<1> HIDE DEF P
<1>6. \A k : k \in S <=> k \in 0 .. n /\ P(k)
  OBVIOUS
<1> HIDE DEF S
<1>7. 0 \in S /\ (\A k \in 1 .. n : k - 1 \in S => k \in S) /\ n \in 0 .. n
  <2>1. 0 \in 0 .. n /\ n \in 0 .. n /\ \A k \in 1 .. n : k - 1 \in 0 .. n /\ k \in 0 .. n
    OBVIOUS
  <2> QED
    BY <1>4, <1>5, <1>6, <2>1
<1>8. n \in S
  BY <1>7, CountUp
<1> QED
  BY <1>1, <1>6, <1>8 DEF P

\* Parts for each place of a text: those of the text from a to z are replaced by w.
Replaced(s, t, n, a, z, w) ==
  /\ Len(s) = n + 1 /\ Len(t) = n + 1
  /\ \A k \in 1 .. z : Len(s[k]) = 1
  /\ \A k \in 1 .. a : t[k] = s[k]
  /\ t[a + 1] = IF a = z THEN Cat(w, s[a + 1]) ELSE w
  /\ \A k \in (a + 2) .. z : t[k] = <<>>
  /\ \A k \in (z + 1) .. (n + 1) : k # a + 1 => t[k] = s[k]

\* Two rows of parts joined one by one, where the second has w for a stretch of the first.
LEMMA JoinedBeside ==
  ASSUME NEW V, Joins(V), NEW n \in Nat, NEW s, NEW t, NEW a \in 0 .. n, NEW z \in a .. n, NEW w \in V,
         Replaced(s, t, n, a, z, w), NEW f, Made(f, s, n + 1, V), NEW g, Made(g, t, n + 1, V)
  PROVE  g[n + 1] = Splice(f[n + 1], a, z, w)
<1> DEFINE m == n + 1
<1>3. /\ m \in Nat /\ m = n + 1 /\ a \in Nat /\ z \in Nat /\ a <= z /\ z < m 
  OBVIOUS
<1>1. f[0] = <<>> /\ g[0] = <<>> /\ (\A k \in 0 .. m : f[k] \in V /\ g[k] \in V) /\ Len(<<>>) = 0 /\ <<>> \in V /\ w \in V
  BY DEF Joins, EmptyJoins, Made
<1>4. ASSUME NEW k \in 1 .. m
      PROVE  /\ k - 1 \in 0 .. m /\ k \in Nat /\ k - 1 \in Nat /\ f[k] = Cat(f[k - 1], s[k]) /\ g[k] = Cat(g[k - 1], t[k])
             /\ f[k - 1] \in V /\ g[k - 1] \in V /\ s[k] \in V /\ t[k] \in V
  BY <1>3 DEF Made
<1> HIDE DEF m
\* Up to the stretch nothing changes, and each part is one element.
<1> DEFINE P(k) == /\ k <= z => Len(f[k]) = k
                   /\ k <= a => g[k] = f[k]
                   /\ a <= k /\ k <= z => \E p \in V : f[k] = Cat(f[a], p)
                   /\ a < k /\ k <= z => g[k] = Cat(f[a], w)
                   /\ z <= k /\ a < k => \E q \in V : f[k] = Cat(f[z], q) /\ g[k] = Cat(Cat(f[a], w), q)
           S    == {k \in 0 .. m : P(k)}
<1>5. f[a] \in V /\ f[z] \in V /\ Cat(f[a], w) \in V /\ \A k \in 0 .. m : f[k] \in V /\ Cat(f[k], <<>>) = f[k]
  <2>1. a \in 0 .. m /\ z \in 0 .. m /\ \A k \in 0 .. m : f[k] \in V
    BY <1>1, <1>3
  <2>2. Cat(f[a], w) \in V
    BY <1>1, <2>1 DEF Joins, Closed
  <2>3. \A k \in 0 .. m : Cat(f[k], <<>>) = f[k]
    BY <2>1 DEF Joins, EmptyJoins
  <2> QED
    BY <2>1, <2>2, <2>3
<1>6. P(0)
  <2>1. Len(f[0]) = 0 /\ g[0] = f[0] /\ 0 \in 0 .. m
    BY <1>1, <1>3
  <2>2. a <= 0 => f[0] = Cat(f[a], <<>>)
    BY <1>3, <1>5, <2>1
  <2>3. ~(0 > 0) /\ ~(a < 0) /\ (z <= 0 => a = 0)
    BY <1>3
  <2> QED
    BY <1>1, <2>1, <2>2, <2>3
<1>7. ASSUME NEW k \in 1 .. m, P(k - 1) PROVE P(k)
  <2> DEFINE j == k - 1
  <2>1. /\ j \in 0 .. m /\ j \in Nat /\ k \in Nat /\ k = j + 1 /\ f[k] = Cat(f[j], s[k]) /\ g[k] = Cat(g[j], t[k])
        /\ f[j] \in V /\ g[j] \in V /\ s[k] \in V /\ t[k] \in V
    BY <1>4
  <2>2. P(j)
    BY <1>7
  <2> HIDE DEF j
  <2>8. /\ k <= z => Len(s[k]) = 1
        /\ k <= a => t[k] = s[k]
        /\ k = a + 1 /\ a = z => t[k] = Cat(w, s[k])
        /\ k = a + 1 /\ a # z => t[k] = w
        /\ a + 1 < k /\ k <= z => t[k] = <<>>
        /\ z < k /\ k # a + 1 => t[k] = s[k]
    <3>1. /\ k <= z => k \in 1 .. z
          /\ k <= a => k \in 1 .. a
          /\ a + 1 < k /\ k <= z => k \in (a + 2) .. z
          /\ z < k => k \in (z + 1) .. (n + 1)
      BY <1>3, <2>1
    <3> QED
      BY <3>1 DEF Replaced
  <2>3. k <= z => Len(f[k]) = k
    <3> SUFFICES ASSUME k <= z PROVE Len(f[k]) = k
      OBVIOUS
    <3>1. Len(f[j]) = j /\ Len(s[k]) = 1
      BY <1>3, <2>1, <2>2, <2>8
    <3>2. Len(f[k]) = Len(f[j]) + Len(s[k])
      BY <2>1 DEF Joins, Adds
    <3> QED
      BY <2>1, <3>1, <3>2
  <2>4. k <= a => g[k] = f[k]
    <3> SUFFICES ASSUME k <= a PROVE g[k] = f[k]
      OBVIOUS
    <3>1. j <= a
      BY <1>3, <2>1
    <3>2. g[j] = f[j] /\ t[k] = s[k]
      BY <2>2, <2>8, <3>1
    <3> QED
      BY <2>1, <3>2
  <2>5. a <= k /\ k <= z => \E p \in V : f[k] = Cat(f[a], p)
    <3> SUFFICES ASSUME a <= k, k <= z PROVE \E p \in V : f[k] = Cat(f[a], p)
      OBVIOUS
    <3>1. CASE a = k
      BY <1>1, <1>5, <3>1
    <3>2. CASE a # k
      <4>1. a <= j /\ j <= z
        BY <1>3, <2>1, <3>2
      <4>2. PICK p \in V : f[j] = Cat(f[a], p)
        BY <2>2, <4>1
      <4>3. Cat(p, s[k]) \in V
        BY <2>1 DEF Joins, Closed
      <4>4. Cat(f[a], Cat(p, s[k])) = Cat(Cat(f[a], p), s[k])
        BY <1>5, <2>1 DEF Joins, Regroups
      <4> QED
        BY <2>1, <4>2, <4>3, <4>4
    <3> QED
      BY <3>1, <3>2
  <2>6. a < k /\ k <= z => g[k] = Cat(f[a], w)
    <3> SUFFICES ASSUME a < k, k <= z PROVE g[k] = Cat(f[a], w)
      OBVIOUS
    <3>1. CASE k = a + 1
      <4>1. j = a /\ a # z /\ t[k] = w
        BY <1>3, <2>1, <2>8, <3>1
      <4>2. g[j] = f[a]
        BY <1>3, <2>2, <4>1
      <4> QED
        BY <2>1, <4>1, <4>2
    <3>2. CASE k # a + 1
      <4>1. a < j /\ j <= z /\ a + 1 < k
        BY <1>3, <2>1, <3>2
      <4>2. g[j] = Cat(f[a], w) /\ t[k] = <<>>
        BY <2>2, <2>8, <4>1
      <4> QED
        BY <1>5, <2>1, <4>2 DEF Joins, EmptyJoins
    <3> QED
      BY <3>1, <3>2
  <2>7. z <= k /\ a < k => \E q \in V : f[k] = Cat(f[z], q) /\ g[k] = Cat(Cat(f[a], w), q)
    <3> SUFFICES ASSUME z <= k, a < k PROVE \E q \in V : f[k] = Cat(f[z], q) /\ g[k] = Cat(Cat(f[a], w), q)
      OBVIOUS
    <3>1. CASE k = z
      <4>1. g[k] = Cat(f[a], w)
        BY <1>3, <2>6, <3>1
      <4>2. Cat(Cat(f[a], w), <<>>) = Cat(f[a], w) /\ Cat(f[z], <<>>) = f[z]
        BY <1>5 DEF Joins, EmptyJoins
      <4> QED
        BY <1>1, <3>1, <4>1, <4>2
    <3>2. CASE k # z /\ k = a + 1
      <4>1. j = a /\ a = z /\ t[k] = Cat(w, s[k])
        BY <1>3, <2>1, <2>8, <3>2
      <4>2. g[j] = f[a]
        BY <1>3, <2>2, <4>1
      <4>3. Cat(f[a], Cat(w, s[k])) = Cat(Cat(f[a], w), s[k])
        BY <1>1, <1>5, <2>1 DEF Joins, Regroups
      <4> QED
        BY <2>1, <4>1, <4>2, <4>3
    <3>3. CASE k # z /\ k # a + 1
      <4>1. z <= j /\ a < j /\ z < k
        BY <1>3, <2>1, <3>3
      <4>2. PICK q \in V : f[j] = Cat(f[z], q) /\ g[j] = Cat(Cat(f[a], w), q)
        BY <2>2, <4>1
      <4>3. t[k] = s[k]
        BY <2>8, <3>3, <4>1
      <4>4. Cat(q, s[k]) \in V
        BY <2>1 DEF Joins, Closed
      <4>5. Cat(f[z], Cat(q, s[k])) = Cat(Cat(f[z], q), s[k])
        BY <1>5, <2>1 DEF Joins, Regroups
      <4>6. Cat(Cat(f[a], w), Cat(q, s[k])) = Cat(Cat(Cat(f[a], w), q), s[k])
        BY <1>5, <2>1 DEF Joins, Regroups
      <4>7. f[k] = Cat(f[z], Cat(q, s[k])) /\ g[k] = Cat(Cat(f[a], w), Cat(q, s[k]))
        BY <2>1, <4>2, <4>3, <4>5, <4>6
      <4> QED
        BY <4>4, <4>7
    <3> QED
      BY <3>1, <3>2, <3>3
  <2> QED
    BY <2>3, <2>4, <2>5, <2>6, <2>7
<1> HIDE DEF P
<1>8. \A k : k \in S <=> k \in 0 .. m /\ P(k)
  OBVIOUS
<1> HIDE DEF S
<1>9. 0 \in S /\ (\A k \in 1 .. m : k - 1 \in S => k \in S)
  <2>1. 0 \in 0 .. m /\ \A k \in 1 .. m : k - 1 \in 0 .. m /\ k \in 0 .. m
    BY <1>3
  <2> QED
    BY <1>6, <1>7, <1>8, <2>1
<1>10. P(m) /\ P(a) /\ P(z)
  <2>1. \A k \in 0 .. m : k \in S
    BY <1>3, <1>9, CountUp
  <2>2. a \in 0 .. m /\ z \in 0 .. m /\ m \in 0 .. m
    BY <1>3
  <2> QED
    BY <1>8, <2>1, <2>2
<1>11. PICK q \in V : f[m] = Cat(f[z], q) /\ g[m] = Cat(Cat(f[a], w), q)
  <2>1. z <= m /\ a < m
    BY <1>3
  <2>2. \E q \in V : f[m] = Cat(f[z], q) /\ g[m] = Cat(Cat(f[a], w), q)
    BY <1>10, <2>1 DEF P
  <2> QED
    BY <2>2
<1>12. PICK p \in V : f[z] = Cat(f[a], p)
  <2>1. a <= z /\ z <= z
    BY <1>3
  <2>2. \E p \in V : f[z] = Cat(f[a], p)
    BY <1>10, <2>1 DEF P
  <2> QED
    BY <2>2
<1>13. Len(f[a]) = a /\ Len(f[z]) = z
  BY <1>3, <1>10 DEF P
<1>16. Splice(Cat(Cat(f[a], p), q), Len(f[a]), Len(Cat(f[a], p)), w) = Cat(Cat(f[a], w), q)
  <2>1. SplicesParts(V)
    BY DEF Joins
  <2> DEFINE u == f[a]
  <2>2. u \in V
    BY <1>5
  <2> HIDE DEF u
  <2>3. Splice(Cat(Cat(u, p), q), Len(u), Len(Cat(u, p)), w) = Cat(Cat(u, w), q)
    BY <2>1, <2>2 DEF SplicesParts
  <2> QED
    BY <2>3 DEF u
<1> QED
  BY <1>11, <1>12, <1>13, <1>16 DEF m

\* Sequences are joined like this.
LEMMA SequencesJoin ==
  ASSUME NEW T
  PROVE  Joins(Seq(T))
<1>1. Closed(Seq(T)) /\ Adds(Seq(T))
  BY ConcatProperties DEF Closed, Adds, Cat
<1>2. Regroups(Seq(T))
  <2> SUFFICES ASSUME NEW a \in Seq(T), NEW b \in Seq(T), NEW c \in Seq(T) PROVE (a \o b) \o c = a \o (b \o c)
    BY DEF Regroups, Cat
  <2> QED
    BY ConcatAssociative
<1>3. EmptyJoins(Seq(T))
  BY ConcatEmptySeq DEF EmptyJoins, Cat
<1>4. SplicesParts(Seq(T))
  <2> SUFFICES ASSUME NEW a \in Seq(T), NEW p \in Seq(T), NEW q \in Seq(T), NEW w \in Seq(T)
               PROVE  Splice((a \o p) \o q, Len(a), Len(a \o p), w) = (a \o w) \o q
    BY DEF SplicesParts, Cat
  <2>1. a \o p \in Seq(T) /\ p \o q \in Seq(T) /\ (a \o p) \o q = a \o (p \o q)
    BY ConcatProperties, ConcatAssociative
  <2>2. SubSeq(a \o (p \o q), 1, Len(a)) = a
    BY <2>1, JoinLaws
  <2> DEFINE b == a \o p
  <2>3. b \in Seq(T)
    BY <2>1
  <2> HIDE DEF b
  <2>4. SubSeq(b \o q, Len(b) + 1, Len(b \o q)) = q
    BY <2>3, JoinLaws
  <2>5. Splice(b \o q, Len(a), Len(b), w) = SubSeq(b \o q, 1, Len(a)) \o w \o SubSeq(b \o q, Len(b) + 1, Len(b \o q))
    BY DEF Splice
  <2> QED
    BY <2>1, <2>2, <2>4, <2>5 DEF b
<1> QED
  BY <1>1, <1>2, <1>3, <1>4 DEF Joins

\* A sequence of sequences is joined from left to right.
LEMMA FlattenMade ==
  ASSUME NEW T, NEW s \in Seq(Seq(T))
  PROVE  \E f : Made(f, s, Len(s), Seq(T)) /\ f[Len(s)] = FlattenSeq(s)
<1>1. PICK f : /\ f \in [0 .. Len(s) -> Seq(T)] /\ f[0] = <<>> /\ f[Len(s)] = FlattenSeq(s)
               /\ \A j \in 1 .. Len(s) : f[j] = f[j - 1] \o s[j]
  BY FlattenTraced
<1>2. \A j \in 1 .. Len(s) : s[j] \in Seq(T)
  OBVIOUS
<1>3. \A j \in 0 .. Len(s) : f[j] \in Seq(T)
  BY <1>1
<1>4. Made(f, s, Len(s), Seq(T))
  BY <1>1, <1>2, <1>3 DEF Made, Cat
<1> QED
  BY <1>1, <1>4

\* More text in one part, with nothing in front of it, is more text in front of the whole.
LEMMA FlattenOneMore ==
  ASSUME NEW T, NEW n \in Nat, NEW s \in Seq(Seq(T)), NEW t \in Seq(Seq(T)), NEW i, NEW w \in Seq(T), InFront(s, t, n, i, w)
  PROVE  FlattenSeq(t) = w \o FlattenSeq(s)
<1> DEFINE V == Seq(T)
<1>1. Len(s) = n /\ Len(t) = n
  BY DEF InFront
<1>2. \E f : Made(f, s, n, V) /\ f[n] = FlattenSeq(s)
  BY <1>1, FlattenMade
<1>3. \E g : Made(g, t, n, V) /\ g[n] = FlattenSeq(t)
  BY <1>1, FlattenMade
<1>4. Joins(V) /\ w \in V
  BY SequencesJoin
<1> HIDE DEF V
<1>5. PICK f : Made(f, s, n, V) /\ f[n] = FlattenSeq(s)
  BY <1>2
<1>6. PICK g : Made(g, t, n, V) /\ g[n] = FlattenSeq(t)
  BY <1>3
<1>7. g[n] = Cat(w, f[n])
  BY <1>4, <1>5, <1>6, JoinedInFront
<1> QED
  BY <1>5, <1>6, <1>7 DEF Cat

\* Where one stretch of the parts is replaced, so is the text that they make.
LEMMA FlattenSpliced ==
  ASSUME NEW T, NEW n \in Nat, NEW s \in Seq(Seq(T)), NEW t \in Seq(Seq(T)), NEW a \in 0 .. n, NEW z \in a .. n,
         NEW w \in Seq(T), Replaced(s, t, n, a, z, w)
  PROVE  FlattenSeq(t) = Splice(FlattenSeq(s), a, z, w)
<1> DEFINE V == Seq(T)
<1>1. Len(s) = n + 1 /\ Len(t) = n + 1
  BY DEF Replaced
<1>2. \E f : Made(f, s, n + 1, V) /\ f[n + 1] = FlattenSeq(s)
  BY <1>1, FlattenMade
<1>3. \E g : Made(g, t, n + 1, V) /\ g[n + 1] = FlattenSeq(t)
  BY <1>1, FlattenMade
<1>4. Joins(V) /\ w \in V
  BY SequencesJoin
<1> HIDE DEF V
<1>5. PICK f : Made(f, s, n + 1, V) /\ f[n + 1] = FlattenSeq(s)
  BY <1>2
<1>6. PICK g : Made(g, t, n + 1, V) /\ g[n + 1] = FlattenSeq(t)
  BY <1>3
<1>7. g[n + 1] = Splice(f[n + 1], a, z, w)
  BY <1>4, <1>5, <1>6, JoinedBeside
<1> QED
  BY <1>5, <1>6, <1>7

\* The edits of a plan for a text of a length: ranges of it, and what goes there.
EditsOf(edits, length, Byte) ==
  /\ Len(edits) \in Nat /\ DOMAIN edits = 1 .. Len(edits) /\ length \in Nat
  /\ \A i \in 1 .. Len(edits) : /\ edits[i].start \in Nat /\ edits[i].end \in Nat /\ edits[i].new \in Seq(Byte)
                                /\ edits[i].start <= edits[i].end /\ edits[i].end <= length

\* AtOnce with some of the edits only.
Puts(e, o, kind) == e.start = o /\ (e.end = o <=> kind = "inserts")
SlotsOf(edits, some, o, kind) ==
  [j \in 1 .. Len(edits) |-> IF Len(edits) - j + 1 \in some /\ Puts(edits[Len(edits) - j + 1], o, kind)
                             THEN edits[Len(edits) - j + 1].new ELSE <<>>]
NewOf(edits, some, o, kind) == FlattenSeq(SlotsOf(edits, some, o, kind))
StayOf(text, edits, some, o) == o < Len(text) /\ ~\E i \in some : edits[i].start <= o /\ o < edits[i].end
ByteOf(text, edits, some, o) == IF StayOf(text, edits, some, o) THEN <<text[o + 1]>> ELSE <<>>
PartOf(text, edits, some, o) ==
  NewOf(edits, some, o, "inserts") \o NewOf(edits, some, o, "replaces") \o ByteOf(text, edits, some, o)
PartsOf(text, edits, some) == [k \in 1 .. Len(text) + 1 |-> PartOf(text, edits, some, k - 1)]

With(some, i) == some \cup {i}

\* What the edits have for an offset, one for each of them.
LEMMA SlotsTyped ==
  ASSUME NEW Byte, NEW length, NEW edits, EditsOf(edits, length, Byte), NEW some, NEW o, NEW kind
  PROVE  /\ SlotsOf(edits, some, o, kind) \in Seq(Seq(Byte)) /\ Len(SlotsOf(edits, some, o, kind)) = Len(edits)
         /\ \A j \in 1 .. Len(edits) :
              /\ Len(edits) - j + 1 \in 1 .. Len(edits)
              /\ SlotsOf(edits, some, o, kind)[j] =
                   IF Len(edits) - j + 1 \in some /\ Puts(edits[Len(edits) - j + 1], o, kind)
                   THEN edits[Len(edits) - j + 1].new ELSE <<>>
         /\ NewOf(edits, some, o, kind) \in Seq(Byte)
<1> DEFINE n == Len(edits)
           slots == SlotsOf(edits, some, o, kind)
           slot(j) == IF n - j + 1 \in some /\ Puts(edits[n - j + 1], o, kind) THEN edits[n - j + 1].new ELSE <<>>
           V == Seq(Byte)
<1>1. n \in Nat /\ (\A j \in 1 .. n : n - j + 1 \in 1 .. n) /\ (\A i \in 1 .. n : edits[i].new \in V) /\ <<>> \in V
  BY DEF EditsOf
<1>2. slots = [j \in 1 .. n |-> slot(j)]
  BY DEF SlotsOf
<1> HIDE DEF n, slots, V
<1>3. \A j \in 1 .. n : slot(j) \in V
  BY <1>1
<1> HIDE DEF slot
<1>4. slots \in Seq(V) /\ Len(slots) = n /\ \A j \in 1 .. n : slots[j] = slot(j)
  BY <1>1, <1>2, <1>3
<1>5. FlattenSeq(slots) \in V
  BY <1>4, Flattened DEF V
<1> QED
  BY <1>1, <1>4, <1>5 DEF NewOf, slot, slots, n, V

\* Where none of them begins, nothing is new.
LEMMA NothingNew ==
  ASSUME NEW Byte, NEW length, NEW edits, EditsOf(edits, length, Byte), NEW some, NEW o, NEW kind,
         \A i \in some : ~Puts(edits[i], o, kind)
  PROVE  NewOf(edits, some, o, kind) = <<>>
<1> DEFINE slots == SlotsOf(edits, some, o, kind)
<1>1. slots \in Seq(Seq(Byte)) /\ Len(slots) = Len(edits) /\ \A j \in 1 .. Len(edits) : slots[j] = <<>>
  BY SlotsTyped
<1> HIDE DEF slots
<1>2. FlattenSeq(slots) = <<>>
  BY <1>1, Flattened
<1> QED
  BY <1>2 DEF slots, NewOf

\* An edit that has nothing for an offset changes nothing there.
LEMMA NothingMore ==
  ASSUME NEW edits, NEW some, NEW i, NEW o, NEW kind, ~Puts(edits[i], o, kind)
  PROVE  NewOf(edits, With(some, i), o, kind) = NewOf(edits, some, o, kind)
<1>1. SlotsOf(edits, With(some, i), o, kind) = SlotsOf(edits, some, o, kind)
  BY DEF SlotsOf, With
<1> QED
  BY <1>1 DEF NewOf

\* One more edit that begins at an offset, and none of those behind it does.
Leads(edits, some, i, o, kind, length, Byte) ==
  /\ EditsOf(edits, length, Byte) /\ some \in SUBSET (1 .. Len(edits)) /\ i \in 1 .. Len(edits) /\ i \notin some
  /\ Puts(edits[i], o, kind) /\ \A j \in some : j > i => ~Puts(edits[j], o, kind)

\* Its text goes in front.
LEMMA NewInFront ==
  ASSUME NEW Byte, NEW length, NEW edits, NEW some, NEW i, NEW o, NEW kind, Leads(edits, some, i, o, kind, length, Byte)
  PROVE  NewOf(edits, With(some, i), o, kind) = edits[i].new \o NewOf(edits, some, o, kind)
<1> DEFINE n == Len(edits)
           place == n - i + 1
           more == With(some, i)
           s == SlotsOf(edits, some, o, kind)
           t == SlotsOf(edits, more, o, kind)
<1>1. n \in Nat /\ i \in 1 .. n /\ place \in 1 .. n /\ n - place + 1 = i /\ edits[i].new \in Seq(Byte)
  BY DEF Leads, EditsOf
<1>2. /\ s \in Seq(Seq(Byte)) /\ Len(s) = n
      /\ \A j \in 1 .. n : /\ n - j + 1 \in 1 .. n
                           /\ s[j] = IF n - j + 1 \in some /\ Puts(edits[n - j + 1], o, kind)
                                     THEN edits[n - j + 1].new ELSE <<>>
  BY SlotsTyped DEF Leads
<1>4. \A j : j \in more <=> j \in some \/ j = i
  BY DEF With
<1> HIDE DEF more
<1>3. /\ t \in Seq(Seq(Byte)) /\ Len(t) = n
      /\ \A j \in 1 .. n : t[j] = IF n - j + 1 \in more /\ Puts(edits[n - j + 1], o, kind)
                                  THEN edits[n - j + 1].new ELSE <<>>
  BY SlotsTyped DEF Leads
<1> HIDE DEF n, place, s, t
<1>5. t[place] = edits[i].new
  BY <1>1, <1>3, <1>4 DEF Leads
<1>6. ASSUME NEW j \in 1 .. place PROVE s[j] = <<>>
  <2>1. j \in 1 .. n /\ n - j + 1 \in 1 .. n /\ (n - j + 1 = i \/ n - j + 1 > i)
    BY <1>1 DEF place
  <2> QED
    BY <1>2, <2>1 DEF Leads
<1>7. ASSUME NEW j \in 1 .. n, j # place PROVE t[j] = s[j]
  <2>1. n - j + 1 # i
    BY <1>1, <1>7 DEF place
  <2> QED
    BY <1>2, <1>3, <1>4, <2>1
<1>8. InFront(s, t, n, place, edits[i].new)
  BY <1>1, <1>2, <1>3, <1>5, <1>6, <1>7 DEF InFront
<1>9. FlattenSeq(t) = edits[i].new \o FlattenSeq(s)
  <2> DEFINE w == edits[i].new
  <2>1. w \in Seq(Byte) /\ n \in Nat /\ s \in Seq(Seq(Byte)) /\ t \in Seq(Seq(Byte)) /\ InFront(s, t, n, place, w)
    BY <1>1, <1>2, <1>3, <1>8
  <2> HIDE DEF w
  <2>2. FlattenSeq(t) = w \o FlattenSeq(s)
    BY <2>1, FlattenOneMore
  <2> QED
    BY <2>2 DEF w
<1> QED
  BY <1>9 DEF s, t, more, NewOf

\* What is made of each offset.
LEMMA PartsTyped ==
  ASSUME NEW Byte, NEW text \in Seq(Byte), NEW edits, EditsOf(edits, Len(text), Byte), NEW some
  PROVE  /\ PartsOf(text, edits, some) \in Seq(Seq(Byte)) /\ Len(PartsOf(text, edits, some)) = Len(text) + 1
         /\ \A k \in 1 .. Len(text) + 1 : PartsOf(text, edits, some)[k] = PartOf(text, edits, some, k - 1)
         /\ \A o \in 0 .. Len(text) : PartOf(text, edits, some, o) \in Seq(Byte) /\ ByteOf(text, edits, some, o) \in Seq(Byte)
<1> DEFINE V == Seq(Byte)
           m == Len(text) + 1
<1>1. m \in Nat /\ \A k \in 1 .. m : k - 1 \in 0 .. Len(text)
  OBVIOUS
<1>2. ASSUME NEW o \in 0 .. Len(text) PROVE PartOf(text, edits, some, o) \in V /\ ByteOf(text, edits, some, o) \in V
  <2> DEFINE a == NewOf(edits, some, o, "inserts")
             b == NewOf(edits, some, o, "replaces")
             c == ByteOf(text, edits, some, o)
  <2>1. a \in Seq(Byte) /\ b \in Seq(Byte)
    BY SlotsTyped
  <2>2. c \in Seq(Byte)
    <3>1. o < Len(text) => text[o + 1] \in Byte
      OBVIOUS
    <3> QED
      BY <3>1 DEF ByteOf, StayOf
  <2>3. PartOf(text, edits, some, o) = a \o b \o c
    BY DEF PartOf
  <2> HIDE DEF a, b, c
  <2>4. a \o b \o c \in Seq(Byte)
    BY <2>1, <2>2
  <2> QED
    BY <2>2, <2>3, <2>4 DEF c
<1> HIDE DEF V
<1>3. PartsOf(text, edits, some) = [k \in 1 .. m |-> PartOf(text, edits, some, k - 1)]
  BY DEF PartsOf
<1> HIDE DEF m
<1>4. PartsOf(text, edits, some) \in Seq(V) /\ Len(PartsOf(text, edits, some)) = m
      /\ \A k \in 1 .. m : PartsOf(text, edits, some)[k] = PartOf(text, edits, some, k - 1)
  BY <1>1, <1>2, <1>3
<1> QED
  BY <1>2, <1>4 DEF m, V

\* Below all the edits, each byte is what it was.
LEMMA PartBelow ==
  ASSUME NEW Byte, NEW text \in Seq(Byte), NEW edits, EditsOf(edits, Len(text), Byte),
         NEW some \in SUBSET (1 .. Len(edits)), NEW o \in 0 .. Len(text), o < Len(text), \A j \in some : edits[j].start > o
  PROVE  PartOf(text, edits, some, o) = <<text[o + 1]>>
<1>1. \A j \in some : edits[j].start \in Nat /\ edits[j].start # o /\ ~(edits[j].start <= o)
  BY DEF EditsOf
<1>2. NewOf(edits, some, o, "inserts") = <<>> /\ NewOf(edits, some, o, "replaces") = <<>>
  <2>1. \A j \in some : ~Puts(edits[j], o, "inserts") /\ ~Puts(edits[j], o, "replaces")
    BY <1>1 DEF Puts
  <2> QED
    BY <2>1, NothingNew
<1>3. ByteOf(text, edits, some, o) = <<text[o + 1]>>
  BY <1>1 DEF ByteOf, StayOf
<1>4. PartOf(text, edits, some, o) = <<>> \o <<>> \o <<text[o + 1]>>
  BY <1>2, <1>3 DEF PartOf
<1>5. <<>> \o <<>> \o <<text[o + 1]>> = <<text[o + 1]>>
  OBVIOUS
<1> QED
  BY <1>4, <1>5

\* Of a byte that an edit replaces, and where none begins, nothing is left.
LEMMA PartGone ==
  ASSUME NEW Byte, NEW text \in Seq(Byte), NEW edits, EditsOf(edits, Len(text), Byte),
         NEW some \in SUBSET (1 .. Len(edits)), NEW o \in 0 .. Len(text), \A j \in some : edits[j].start # o,
         NEW i \in some, edits[i].start <= o, o < edits[i].end
  PROVE  PartOf(text, edits, some, o) = <<>>
<1>1. NewOf(edits, some, o, "inserts") = <<>> /\ NewOf(edits, some, o, "replaces") = <<>>
  <2>1. \A j \in some : ~Puts(edits[j], o, "inserts") /\ ~Puts(edits[j], o, "replaces")
    BY DEF Puts
  <2> QED
    BY <2>1, NothingNew
<1>2. ByteOf(text, edits, some, o) = <<>>
  BY DEF ByteOf, StayOf
<1>3. PartOf(text, edits, some, o) = <<>> \o <<>> \o <<>>
  BY <1>1, <1>2 DEF PartOf
<1>4. <<>> \o <<>> \o <<>> = <<>>
  OBVIOUS
<1> QED
  BY <1>3, <1>4

\* An edit changes nothing outside of its range.
LEMMA PartOutside ==
  ASSUME NEW text, NEW edits, NEW some, NEW i, NEW o, edits[i].start # o, ~(edits[i].start <= o /\ o < edits[i].end)
  PROVE  PartOf(text, edits, With(some, i), o) = PartOf(text, edits, some, o)
<1>1. ~Puts(edits[i], o, "inserts") /\ ~Puts(edits[i], o, "replaces")
  BY DEF Puts
<1>2. StayOf(text, edits, With(some, i), o) <=> StayOf(text, edits, some, o)
  BY DEF StayOf, With
<1>3. /\ NewOf(edits, With(some, i), o, "inserts") = NewOf(edits, some, o, "inserts")
      /\ NewOf(edits, With(some, i), o, "replaces") = NewOf(edits, some, o, "replaces")
  BY <1>1, NothingMore
<1>4. ByteOf(text, edits, With(some, i), o) = ByteOf(text, edits, some, o)
  BY <1>2 DEF ByteOf
<1> QED
  BY <1>3, <1>4 DEF PartOf

\* An edit that comes next in the order of a plan, behind some others: they begin behind its
\* end, and of those with its range it has the last place.
Follows(edits, some, i) ==
  /\ some \in SUBSET (1 .. Len(edits)) /\ i \in 1 .. Len(edits) /\ i \notin some
  /\ \A j \in some : edits[j].start >= edits[i].end
  /\ \A j \in some : j > i => ~(edits[j].start = edits[i].start /\ edits[j].end = edits[i].end)

\* An insertion goes in front of what its place has so far.
LEMMA PartInserted ==
  ASSUME NEW Byte, NEW text \in Seq(Byte), NEW edits, EditsOf(edits, Len(text), Byte),
         NEW some, NEW i, Follows(edits, some, i), NEW o, Puts(edits[i], o, "inserts")
  PROVE  PartOf(text, edits, With(some, i), o) = edits[i].new \o PartOf(text, edits, some, o)
<1> DEFINE w == edits[i].new
           a == NewOf(edits, some, o, "inserts")
           b == NewOf(edits, some, o, "replaces")
           c == ByteOf(text, edits, some, o)
<1>1. o \in Nat /\ o \in 0 .. Len(text) /\ w \in Seq(Byte) /\ edits[i].start = o /\ edits[i].end = o /\ ~(o < o)
  BY DEF EditsOf, Follows, Puts
<1>2. Puts(edits[i], o, "inserts") /\ ~Puts(edits[i], o, "replaces") /\ \A j \in some : j > i => ~Puts(edits[j], o, "inserts")
  BY <1>1 DEF Puts, Follows
<1>3. NewOf(edits, With(some, i), o, "inserts") = w \o a
  <2>1. Leads(edits, some, i, o, "inserts", Len(text), Byte)
    BY <1>2 DEF Leads, Follows
  <2> QED
    BY <2>1, NewInFront
<1>4. NewOf(edits, With(some, i), o, "replaces") = b
  BY <1>2, NothingMore
<1>5. ByteOf(text, edits, With(some, i), o) = c
  <2>1. StayOf(text, edits, With(some, i), o) <=> StayOf(text, edits, some, o)
    BY <1>1 DEF StayOf, With
  <2> QED
    BY <2>1 DEF ByteOf
<1>6. a \in Seq(Byte) /\ b \in Seq(Byte) /\ c \in Seq(Byte)
  BY <1>1, SlotsTyped, PartsTyped
<1>7. PartOf(text, edits, some, o) = a \o b \o c
  BY DEF PartOf
<1>8. PartOf(text, edits, With(some, i), o) = (w \o a) \o b \o c
  BY <1>3, <1>4, <1>5 DEF PartOf
<1> HIDE DEF a, b, c, w
<1>9. ((w \o a) \o b) \o c = w \o ((a \o b) \o c)
  <2>1. Closed(Seq(Byte)) /\ Regroups(Seq(Byte))
    BY SequencesJoin DEF Joins
  <2> DEFINE V == Seq(Byte)
  <2>2. a \in V /\ b \in V /\ c \in V /\ w \in V /\ Closed(V) /\ Regroups(V)
    BY <1>1, <1>6, <2>1
  <2> HIDE DEF V
  <2>3. Cat(a, b) \in V
    BY <2>2 DEF Closed
  <2>4. Cat(w, Cat(a, b)) = Cat(Cat(w, a), b)
    BY <2>2 DEF Regroups
  <2>5. Cat(w, Cat(Cat(a, b), c)) = Cat(Cat(w, Cat(a, b)), c)
    BY <2>2, <2>3 DEF Regroups
  <2> QED
    BY <2>4, <2>5 DEF Cat
<1> QED
  BY <1>7, <1>8, <1>9 DEF w

\* Where a replacement begins below the other edits, its text is all there is.
LEMMA PartReplaced ==
  ASSUME NEW Byte, NEW text \in Seq(Byte), NEW edits, EditsOf(edits, Len(text), Byte),
         NEW some \in SUBSET (1 .. Len(edits)), NEW i \in 1 .. Len(edits), i \notin some,
         edits[i].start < edits[i].end, \A j \in some : edits[j].start # edits[i].start
  PROVE  PartOf(text, edits, With(some, i), edits[i].start) = edits[i].new
<1> DEFINE o == edits[i].start
           w == edits[i].new
<1>1. o \in Nat /\ o \in 0 .. Len(text) /\ w \in Seq(Byte) /\ edits[i].end # o /\ o <= o /\ o < edits[i].end /\ edits[i].start = o
  BY DEF EditsOf
<1>2. /\ ~Puts(edits[i], o, "inserts") /\ Puts(edits[i], o, "replaces")
      /\ \A j \in some : ~Puts(edits[j], o, "inserts") /\ ~Puts(edits[j], o, "replaces")
  BY <1>1 DEF Puts
<1> HIDE DEF o
<1>3. NewOf(edits, some, o, "inserts") = <<>> /\ NewOf(edits, some, o, "replaces") = <<>>
  BY <1>2, NothingNew
<1>4. NewOf(edits, With(some, i), o, "inserts") = <<>>
  BY <1>2, <1>3, NothingMore
<1>5. NewOf(edits, With(some, i), o, "replaces") = w \o <<>>
  <2>1. Leads(edits, some, i, o, "replaces", Len(text), Byte)
    BY <1>2 DEF Leads
  <2>2. NewOf(edits, With(some, i), o, "replaces") = w \o NewOf(edits, some, o, "replaces")
    BY <2>1, NewInFront
  <2> QED
    BY <1>3, <2>2
<1>6. ByteOf(text, edits, With(some, i), o) = <<>>
  <2>1. i \in With(some, i) /\ edits[i].start <= o /\ o < edits[i].end
    BY <1>1 DEF With
  <2> QED
    BY <2>1 DEF ByteOf, StayOf
<1>7. PartOf(text, edits, With(some, i), o) = <<>> \o (w \o <<>>) \o <<>>
  BY <1>4, <1>5, <1>6 DEF PartOf
<1> HIDE DEF w
<1>8. <<>> \o (w \o <<>>) \o <<>> = w
  BY <1>1, ConcatEmptySeq
<1> QED
  BY <1>7, <1>8 DEF o, w

\* What one more edit does at once is what it does to the text that the others made.
LEMMA OneMoreEdit ==
  ASSUME NEW Byte, NEW text \in Seq(Byte), NEW edits, EditsOf(edits, Len(text), Byte), NEW some, NEW i, Follows(edits, some, i)
  PROVE  FlattenSeq(PartsOf(text, edits, With(some, i))) =
           Splice(FlattenSeq(PartsOf(text, edits, some)), edits[i].start, edits[i].end, edits[i].new)
<1> DEFINE n == Len(text)
           a == edits[i].start
           z == edits[i].end
           w == edits[i].new
           more == With(some, i)
           s == PartsOf(text, edits, some)
           t == PartsOf(text, edits, more)
<1>1. /\ n \in Nat /\ a \in 0 .. n /\ z \in a .. n /\ a \in Nat /\ z \in Nat /\ a <= z /\ z <= n /\ w \in Seq(Byte)
      /\ some \in SUBSET (1 .. Len(edits)) /\ i \in 1 .. Len(edits) /\ i \notin some /\ i \in more
      /\ \A j \in some : edits[j].start \in Nat /\ edits[j].start >= z
  BY DEF EditsOf, Follows, With
<1>2. more \in SUBSET (1 .. Len(edits)) /\ \A j : j \in more <=> j \in some \/ j = i
  BY <1>1 DEF With
<1>3. /\ s \in Seq(Seq(Byte)) /\ Len(s) = n + 1 /\ \A k \in 1 .. n + 1 : s[k] = PartOf(text, edits, some, k - 1)
  BY PartsTyped
<1>4. /\ t \in Seq(Seq(Byte)) /\ Len(t) = n + 1 /\ \A k \in 1 .. n + 1 : t[k] = PartOf(text, edits, more, k - 1)
  BY PartsTyped
<1> HIDE DEF more, s, t
<1>5. ASSUME NEW k \in 1 .. z PROVE Len(s[k]) = 1
  <2>1. k \in 1 .. n + 1 /\ k - 1 \in 0 .. n /\ k - 1 < n /\ \A j \in some : edits[j].start > k - 1
    BY <1>1
  <2> DEFINE o == k - 1
  <2> HIDE DEF o
  <2>2. PartOf(text, edits, some, o) = <<text[o + 1]>>
    BY <1>1, <2>1, PartBelow DEF o
  <2> QED
    BY <1>3, <2>1, <2>2 DEF o
<1>6. ASSUME NEW k \in 1 .. n + 1, k - 1 # a, ~(a <= k - 1 /\ k - 1 < z) PROVE t[k] = s[k]
  <2>1. PartOf(text, edits, more, k - 1) = PartOf(text, edits, some, k - 1)
    <3> DEFINE o == k - 1
    <3>1. edits[i].start # o /\ ~(edits[i].start <= o /\ o < edits[i].end)
      BY <1>6
    <3> HIDE DEF o
    <3>2. PartOf(text, edits, With(some, i), o) = PartOf(text, edits, some, o)
      BY <3>1, PartOutside
    <3> QED
      BY <3>2 DEF o, more
  <2> QED
    BY <1>3, <1>4, <2>1
<1>7. a + 1 \in 1 .. n + 1 /\ (a + 1) - 1 = a
  BY <1>1
<1>8. CASE a = z
  <2>1. PartOf(text, edits, more, a) = w \o PartOf(text, edits, some, a)
    <3>1. Puts(edits[i], a, "inserts")
      BY <1>8 DEF Puts
    <3> HIDE DEF a
    <3>2. PartOf(text, edits, With(some, i), a) = edits[i].new \o PartOf(text, edits, some, a)
      BY <3>1, PartInserted
    <3> QED
      BY <3>2 DEF more
  <2>2. t[a + 1] = Cat(w, s[a + 1])
    <3>1. s[a + 1] = PartOf(text, edits, some, a) /\ t[a + 1] = PartOf(text, edits, more, a)
      BY <1>3, <1>4, <1>7
    <3> QED
      BY <2>1, <3>1 DEF Cat
  <2>3. ASSUME NEW k \in 1 .. n + 1, k # a + 1 PROVE t[k] = s[k]
    <3>1. k - 1 # a /\ ~(a <= k - 1 /\ k - 1 < z)
      BY <1>1, <1>8, <2>3
    <3> QED
      BY <1>6, <3>1
  <2> HIDE DEF a, z, w, n
  <2>4. /\ \A k \in 1 .. a : k \in 1 .. n + 1 /\ k # a + 1
        /\ \A k \in (a + 2) .. z : FALSE
        /\ \A k \in (z + 1) .. (n + 1) : k \in 1 .. n + 1
    BY <1>1, <1>8
  <2>5. Replaced(s, t, n, a, z, w)
    BY <1>3, <1>4, <1>5, <1>8, <2>2, <2>3, <2>4 DEF Replaced
  <2>6. FlattenSeq(t) = Splice(FlattenSeq(s), a, z, w)
    BY <1>1, <1>3, <1>4, <2>5, FlattenSpliced
  <2> QED
    BY <2>6 DEF a, z, w, s, t, more
<1>9. CASE a # z
  <2>1. PartOf(text, edits, more, a) = w
    <3>1. edits[i].start < edits[i].end /\ \A j \in some : edits[j].start # edits[i].start
      BY <1>1, <1>9
    <3>2. PartOf(text, edits, With(some, i), edits[i].start) = edits[i].new
      BY <1>1, <3>1, PartReplaced
    <3> QED
      BY <3>2 DEF more
  <2>2. t[a + 1] = w
    BY <1>4, <1>7, <2>1
  <2>3. ASSUME NEW k \in (a + 2) .. z PROVE t[k] = <<>>
    <3> DEFINE o == k - 1
    <3>1. k \in 1 .. n + 1 /\ o \in 0 .. n /\ a <= o /\ o < z /\ o # a /\ \A j \in some : edits[j].start # o
      BY <1>1
    <3>2. (\A j \in more : edits[j].start # o) /\ edits[i].start <= o /\ o < edits[i].end
      BY <1>2, <3>1
    <3> HIDE DEF o
    <3>3. PartOf(text, edits, more, o) = <<>>
      BY <1>1, <1>2, <3>1, <3>2, PartGone
    <3> QED
      BY <1>4, <3>1, <3>3 DEF o
  <2>4. ASSUME NEW k \in 1 .. n + 1, k < a + 1 \/ k > z PROVE t[k] = s[k]
    <3>1. k - 1 # a /\ ~(a <= k - 1 /\ k - 1 < z)
      BY <1>1, <1>9, <2>4
    <3> QED
      BY <1>6, <3>1
  <2> HIDE DEF a, z, w, n
  <2>5. /\ \A k \in 1 .. a : k \in 1 .. n + 1 /\ k < a + 1
        /\ \A k \in (z + 1) .. (n + 1) : k \in 1 .. n + 1 /\ k > z
    BY <1>1, <1>9
  <2>6. Replaced(s, t, n, a, z, w)
    BY <1>3, <1>4, <1>5, <1>9, <2>2, <2>3, <2>4, <2>5 DEF Replaced
  <2>7. FlattenSeq(t) = Splice(FlattenSeq(s), a, z, w)
    BY <1>1, <1>3, <1>4, <2>6, FlattenSpliced
  <2> QED
    BY <2>7 DEF a, z, w, s, t, more
<1> QED
  BY <1>8, <1>9

\* The order of a plan: the k-th of the sorted edits is the p[k]-th.
Orders(p, sorted, edits) ==
  /\ DOMAIN sorted = 1 .. Len(edits) /\ Len(sorted) = Len(edits)
  /\ p \in [1 .. Len(edits) -> 1 .. Len(edits)]
  /\ \A k \in 1 .. Len(edits) : sorted[k] = edits[p[k]]
  /\ \A i, j \in 1 .. Len(edits) : p[i] = p[j] => i = j
  /\ \A i, j \in 1 .. Len(edits) : i < j => Precedes(edits, p[i], p[j])
  /\ \A i \in 1 .. Len(edits) : \E k \in 1 .. Len(edits) : p[k] = i

\* The first of them.
Done(p, k) == {p[j] : j \in 1 .. k}

\* The k-th edit of a plan is applied behind the ones in front of it.
LEMMA OneByOne ==
  ASSUME NEW Byte, NEW length, NEW edits, EditsOf(edits, length, Byte), NEW sorted, NEW p, Orders(p, sorted, edits),
         NonOverlapping(sorted), NEW k \in 1 .. Len(edits)
  PROVE  Follows(edits, Done(p, k - 1), p[k]) /\ Done(p, k) = With(Done(p, k - 1), p[k])
<1> DEFINE n == Len(edits)
           some == Done(p, k - 1)
<1>1. /\ n \in Nat /\ k \in 1 .. n /\ k \in Nat /\ DOMAIN sorted = 1 .. n /\ Len(sorted) = n
      /\ \A i \in 1 .. n : edits[i].start \in Nat /\ edits[i].end \in Nat /\ edits[i].start <= edits[i].end
      /\ \A i \in 1 .. n : p[i] \in 1 .. n /\ sorted[i] = edits[p[i]]
  <2>1. /\ n \in Nat /\ \A i \in 1 .. n : edits[i].start \in Nat /\ edits[i].end \in Nat /\ edits[i].start <= edits[i].end
    BY DEF EditsOf
  <2>2. DOMAIN sorted = 1 .. n /\ Len(sorted) = n /\ p \in [1 .. n -> 1 .. n] /\ \A i \in 1 .. n : sorted[i] = edits[p[i]]
    BY DEF Orders
  <2>3. k \in 1 .. n
    OBVIOUS
  <2> HIDE DEF n
  <2>4. k \in Nat /\ \A i \in 1 .. n : p[i] \in 1 .. n
    BY <2>1, <2>2, <2>3
  <2> QED
    BY <2>1, <2>2, <2>3, <2>4
<1> HIDE DEF n
<1>2. Ranges(sorted)
  <2>1. \A i \in 1 .. n : sorted[i].start \in Nat /\ sorted[i].end \in Nat /\ sorted[i].start <= sorted[i].end
    BY <1>1
  <2> QED
    BY <1>1, <2>1 DEF Ranges
<1>3. \A i, j \in 1 .. n : i < j => sorted[j].end <= sorted[i].start
  BY <1>1, <1>2, EachAbove
<1>4. \A i : i \in some <=> \E j \in 1 .. (k - 1) : i = p[j]
  BY DEF Done
<1>5. \A i : i \in Done(p, k) <=> \E j \in 1 .. k : i = p[j]
  BY DEF Done
<1>6. \A j : j \in 1 .. k <=> j \in 1 .. (k - 1) \/ j = k
  BY <1>1
<1>7. Done(p, k) = With(some, p[k])
  BY <1>4, <1>5, <1>6 DEF With
<1> HIDE DEF some
<1>8. \A j \in 1 .. (k - 1) : j \in 1 .. n /\ j < k /\ j # k
  BY <1>1
<1>9. some \in SUBSET (1 .. n) /\ p[k] \in 1 .. n /\ p[k] \notin some
  <2>1. \A i, j \in 1 .. n : p[i] = p[j] => i = j
    BY DEF Orders, n
  <2>2. p[k] \in 1 .. n
    BY <1>1
  <2>3. ASSUME NEW i \in some PROVE i \in 1 .. n /\ i # p[k]
    <3>1. PICK j \in 1 .. (k - 1) : i = p[j]
      BY <1>4
    <3>2. j \in 1 .. n /\ j # k
      BY <1>8
    <3> QED
      BY <1>1, <2>1, <3>1, <3>2
  <2> QED
    BY <2>2, <2>3
<1>10. ASSUME NEW i \in some PROVE edits[i].start >= edits[p[k]].end
  <2>1. PICK j \in 1 .. (k - 1) : i = p[j]
    BY <1>4
  <2>2. sorted[k].end <= sorted[j].start /\ sorted[k] = edits[p[k]] /\ sorted[j] = edits[i] /\ p[k] \in 1 .. n /\ p[j] \in 1 .. n
    BY <1>1, <1>3, <1>8, <2>1
  <2>3. edits[p[k]].end \in Nat /\ edits[i].start \in Nat
    BY <1>1, <2>1, <2>2
  <2> QED
    BY <2>2, <2>3
<1>11. ASSUME NEW i \in some, i > p[k] PROVE ~(edits[i].start = edits[p[k]].start /\ edits[i].end = edits[p[k]].end)
  <2>1. PICK j \in 1 .. (k - 1) : i = p[j]
    BY <1>4
  <2>2. Precedes(edits, p[j], p[k])
    BY <1>1, <1>8 DEF Orders, n
  <2>3. p[j] \in 1 .. n /\ p[k] \in 1 .. n /\ ~(p[j] < p[k])
    BY <1>1, <1>8, <1>11, <2>1
  <2>4. Before(edits[i], edits[p[k]])
    BY <2>1, <2>2, <2>3 DEF Precedes
  <2>5. /\ edits[i].start \in Nat /\ edits[i].end \in Nat
        /\ edits[p[k]].start \in Nat /\ edits[p[k]].end \in Nat
    BY <1>1, <2>1, <2>3
  <2> QED
    BY <2>4, <2>5 DEF Before
<1> QED
  BY <1>7, <1>9, <1>10, <1>11 DEF Follows, some, n

\* Parts of one element each, and nothing behind them.
Letters(s, text) ==
  Len(s) = Len(text) + 1 /\ s[Len(text) + 1] = <<>> /\ \A k \in 1 .. Len(text) : s[k] = <<text[k]>>

\* They are put together to the text they are parts of.
LEMMA FlattenBytes ==
  ASSUME NEW T, NEW text \in Seq(T), NEW s \in Seq(Seq(T)), Letters(s, text)
  PROVE  FlattenSeq(s) = text
<1> DEFINE n == Len(text)
<1>1. PICK f : Made(f, s, n + 1, Seq(T)) /\ f[n + 1] = FlattenSeq(s)
  <2>1. \E f : Made(f, s, Len(s), Seq(T)) /\ f[Len(s)] = FlattenSeq(s)
    BY FlattenMade
  <2>2. Len(s) = n + 1
    BY DEF Letters
  <2> QED
    BY <2>1, <2>2
<1>2. /\ n \in Nat /\ f[0] = <<>> /\ \A k \in 0 .. n + 1 : f[k] \in Seq(T)
      /\ \A k \in 1 .. n + 1 : f[k] = f[k - 1] \o s[k] /\ s[k] \in Seq(T)
  <2>1. n \in Nat
    OBVIOUS
  <2> HIDE DEF n
  <2> DEFINE V == Seq(T)
  <2>2. Made(f, s, n + 1, V)
    BY <1>1
  <2> HIDE DEF V
  <2>3. /\ f[0] = <<>> /\ \A k \in 0 .. n + 1 : f[k] \in V
        /\ \A k \in 1 .. n + 1 : f[k] = Cat(f[k - 1], s[k]) /\ s[k] \in V
    BY <2>2 DEF Made
  <2> QED
    BY <2>1, <2>3 DEF V, Cat
<1>3. s[n + 1] = <<>> /\ \A k \in 1 .. n : s[k] = <<text[k]>> /\ text[k] \in T
  <2>1. s[n + 1] = <<>> /\ \A k \in 1 .. n : s[k] = <<text[k]>>
    BY DEF Letters
  <2>2. \A k \in 1 .. n : text[k] \in T
    OBVIOUS
  <2> QED
    BY <2>1, <2>2
<1> HIDE DEF n
<1> DEFINE P(k) == Len(f[k]) = k /\ \A i \in 1 .. k : f[k][i] = text[i]
           S    == {k \in 0 .. n : P(k)}
<1>4. P(0)
  BY <1>2
<1>5. ASSUME NEW k \in 1 .. n, P(k - 1) PROVE P(k)
  <2> DEFINE a == f[k - 1]
             b == s[k]
             c == f[k]
  <2>1. k \in Nat /\ k - 1 \in 0 .. n + 1 /\ k \in 1 .. n + 1 /\ \A i \in 1 .. k : i = k \/ i \in 1 .. (k - 1)
    BY <1>2
  <2>2. a \in Seq(T) /\ b \in Seq(T) /\ c = a \o b /\ b = <<text[k]>> /\ Len(a) = k - 1 /\ \A i \in 1 .. (k - 1) : a[i] = text[i]
    BY <1>2, <1>3, <1>5, <2>1
  <2> HIDE DEF a, b, c
  <2>3. Len(b) = 1 /\ b[1] = text[k]
    BY <2>2
  <2>4. c \in Seq(T) /\ Len(c) = Len(a) + 1 /\ c[Len(a) + 1] = b[1] /\ \A i \in 1 .. Len(a) : c[i] = a[i]
    <3>1. a \in Seq(T) /\ b \in Seq(T) /\ Len(b) = 1 /\ c = a \o b
      BY <2>2, <2>3
    <3>2. /\ a \o b \in Seq(T) /\ Len(a \o b) = Len(a) + 1 /\ (a \o b)[Len(a) + 1] = b[1]
          /\ \A i \in 1 .. Len(a) : (a \o b)[i] = a[i]
      BY <3>1, JoinOne
    <3> QED
      BY <3>1, <3>2
  <2>5. Len(a) + 1 = k
    BY <2>1, <2>2
  <2>6. Len(c) = k /\ c[k] = text[k] /\ \A i \in 1 .. (k - 1) : c[i] = text[i]
    <3>1. Len(c) = k /\ c[k] = text[k]
      BY <2>3, <2>4, <2>5
    <3>2. \A i \in 1 .. (k - 1) : c[i] = text[i]
      BY <2>2, <2>4
    <3> QED
      BY <3>1, <3>2
  <2>7. \A i \in 1 .. k : c[i] = text[i]
    BY <2>1, <2>6
  <2> QED
    BY <2>6, <2>7 DEF c
<1> HIDE DEF P
<1>6. \A k : k \in S <=> k \in 0 .. n /\ P(k)
  OBVIOUS
<1> HIDE DEF S
<1>7. 0 \in S /\ (\A k \in 1 .. n : k - 1 \in S => k \in S) /\ n \in 0 .. n
  <2>1. 0 \in 0 .. n /\ n \in 0 .. n /\ \A k \in 1 .. n : k - 1 \in 0 .. n /\ k \in 0 .. n
    BY <1>2
  <2> QED
    BY <1>4, <1>5, <1>6, <2>1
<1>8. n \in S
  BY <1>2, <1>7, CountUp
<1>9. f[n] \in Seq(T) /\ Len(f[n]) = n /\ \A i \in 1 .. n : f[n][i] = text[i]
  BY <1>2, <1>6, <1>8 DEF P
<1>10. f[n] = text
  <2>1. Len(text) = n /\ text \in Seq(T)
    BY DEF n
  <2> DEFINE u == f[n]
  <2>2. u \in Seq(T) /\ Len(u) = n /\ \A i \in 1 .. n : u[i] = text[i]
    BY <1>9
  <2> HIDE DEF u
  <2>3. u = text
    BY <2>1, <2>2, SeqEqual
  <2> QED
    BY <2>3 DEF u
<1>11. f[n + 1] = f[n]
  <2>1. n + 1 \in 1 .. n + 1 /\ (n + 1) - 1 = n
    BY <1>2
  <2>2. f[n + 1] = f[n] \o <<>>
    BY <1>2, <1>3, <2>1
  <2> QED
    BY <1>9, <2>2, ConcatEmptySeq
<1> QED
  BY <1>1, <1>10, <1>11

\* The edits one after the other, in the order of the plan, make what all at once make.
LEMMA OneByOneIsAtOnce ==
  ASSUME NEW Byte, NEW text \in Seq(Byte), NEW edits, EditsOf(edits, Len(text), Byte), NEW sorted, NEW p, Orders(p, sorted, edits),
         NonOverlapping(sorted),
         NEW f, f[0] = text, \A k \in 1 .. Len(edits) : f[k] = Splice(f[k - 1], sorted[k].start, sorted[k].end, sorted[k].new)
  PROVE  f[Len(edits)] = FlattenSeq(PartsOf(text, edits, 1 .. Len(edits)))
<1> DEFINE n == Len(edits)
           out(some) == FlattenSeq(PartsOf(text, edits, some))
           P(k) == f[k] = out(Done(p, k))
           S == {k \in 0 .. n : P(k)}
<1>1. n \in Nat
  BY DEF EditsOf
<1>2. P(0)
  <2> DEFINE s == PartsOf(text, edits, {})
             m == Len(text)
  <2>1. /\ s \in Seq(Seq(Byte)) /\ Len(s) = m + 1 /\ m \in Nat
        /\ \A k \in 1 .. m + 1 : s[k] = PartOf(text, edits, {}, k - 1)
    BY PartsTyped
  <2>2. ASSUME NEW o PROVE PartOf(text, edits, {}, o) = <<>> \o <<>> \o (IF o < m THEN <<text[o + 1]>> ELSE <<>>)
    <3>1. NewOf(edits, {}, o, "inserts") = <<>> /\ NewOf(edits, {}, o, "replaces") = <<>>
      <4>1. \A j \in {} : ~Puts(edits[j], o, "inserts") /\ ~Puts(edits[j], o, "replaces")
        OBVIOUS
      <4> QED
        BY <4>1, NothingNew
    <3> QED
      BY <3>1 DEF PartOf, ByteOf, StayOf
  <2>3. ASSUME NEW k \in 1 .. m PROVE s[k] = <<text[k]>>
    <3>1. k \in 1 .. m + 1 /\ k - 1 < m /\ (k - 1) + 1 = k
      BY <2>1
    <3>2. s[k] = <<>> \o <<>> \o <<text[k]>>
      BY <2>1, <2>2, <3>1
    <3> QED
      BY <3>2
  <2>4. s[m + 1] = <<>>
    <3>1. m + 1 \in 1 .. m + 1 /\ (m + 1) - 1 = m /\ ~(m < m)
      BY <2>1
    <3>2. s[m + 1] = <<>> \o <<>> \o <<>>
      BY <2>1, <2>2, <3>1
    <3> QED
      BY <3>2
  <2> HIDE DEF s
  <2>5. FlattenSeq(s) = text
    BY <2>1, <2>3, <2>4, FlattenBytes DEF Letters
  <2>6. Done(p, 0) = {}
    BY DEF Done
  <2> QED
    BY <2>5, <2>6 DEF s
<1>3. ASSUME NEW k \in 1 .. n, P(k - 1) PROVE P(k)
  <2>1. Follows(edits, Done(p, k - 1), p[k]) /\ Done(p, k) = With(Done(p, k - 1), p[k])
    BY OneByOne
  <2> DEFINE some == Done(p, k - 1)
             i == p[k]
  <2>2. sorted[k] = edits[i] /\ f[k] = Splice(f[k - 1], edits[i].start, edits[i].end, edits[i].new)
    BY DEF Orders
  <2> HIDE DEF some, i
  <2>3. Follows(edits, some, i)
    BY <2>1 DEF some, i
  <2>4. FlattenSeq(PartsOf(text, edits, With(some, i))) =
           Splice(FlattenSeq(PartsOf(text, edits, some)), edits[i].start, edits[i].end, edits[i].new)
    BY <2>3, OneMoreEdit
  <2> QED
    BY <1>3, <2>1, <2>2, <2>4 DEF some, i
<1> HIDE DEF P
<1>4. \A k : k \in S <=> k \in 0 .. n /\ P(k)
  OBVIOUS
<1> HIDE DEF S
<1>5. 0 \in S /\ (\A k \in 1 .. n : k - 1 \in S => k \in S) /\ n \in 0 .. n
  <2>1. 0 \in 0 .. n /\ n \in 0 .. n /\ \A k \in 1 .. n : k - 1 \in 0 .. n /\ k \in 0 .. n
    BY <1>1
  <2> QED
    BY <1>2, <1>3, <1>4, <2>1
<1>6. n \in S
  BY <1>1, <1>5, CountUp
<1>7. P(n)
  BY <1>4, <1>6
<1>8. Done(p, n) = 1 .. n
  <2>1. /\ \A i \in 1 .. n : p[i] \in 1 .. n
        /\ \A i \in 1 .. n : \E k \in 1 .. n : p[k] = i
    BY DEF Orders
  <2> QED
    BY <2>1 DEF Done
<1> QED
  BY <1>7, <1>8 DEF P

\* Edits from the bottom up, none of which reaches into the one above it.
Stacked(S, length, Byte) ==
  EditsOf(S, length, Byte) /\ \A i, j \in 1 .. Len(S) : i < j => S[j].end <= S[i].start

\* FileEdit.Apply makes its edits one after the other.
LEMMA AppliedOneByOne ==
  ASSUME NEW Byte, NEW text \in Seq(Byte), NEW S, Stacked(S, Len(text), Byte)
  PROVE  \E f : /\ f[0] = text /\ \A k \in 1 .. Len(S) : f[k] = Splice(f[k - 1], S[k].start, S[k].end, S[k].new)
                /\ f[Len(S)] = FoldLeft(LAMBDA out, e : Splice(out, e.start, e.end, e.new), text, S)
<1> DEFINE n     == Len(S)
           m     == Len(text)
           V     == Seq(Byte)
           step(v, k) == Splice(v, S[k].start, S[k].end, S[k].new)
           Op    == [x \in V \X (1 .. n) |-> IF S[x[2]].end <= Len(x[1]) THEN step(x[1], x[2]) ELSE text]
           is(g) == g = [s \in SUBSET (1 .. n) |-> IF s = {} THEN text ELSE step(g[s \ {Max(s)}], Max(s))]
<1>1. /\ n \in Nat /\ m \in Nat /\ DOMAIN S = 1 .. n /\ text \in V /\ Len(text) = m
      /\ \A k \in 1 .. n : /\ S[k].start \in Nat /\ S[k].end \in Nat /\ S[k].new \in V
                           /\ S[k].start <= S[k].end /\ S[k].end <= m
      /\ \A i, j \in 1 .. n : i < j => S[j].end <= S[i].start
  BY DEF Stacked, EditsOf
<1>2. FoldLeft(LAMBDA out, e : Splice(out, e.start, e.end, e.new), text, S) = (CHOOSE g : is(g))[1 .. n]
  BY <1>1 DEF FoldLeft, MapThenFoldSet
<1> HIDE DEF n, m
<1>3. \A v \in V, k \in 1 .. n : S[k].end <= Len(v) => step(v, k) \in V /\ Len(step(v, k)) \in Nat /\ Len(step(v, k)) >= S[k].start
  <2> SUFFICES ASSUME NEW v \in V, NEW k \in 1 .. n, S[k].end <= Len(v)
               PROVE  step(v, k) \in V /\ Len(step(v, k)) \in Nat /\ Len(step(v, k)) >= S[k].start
    OBVIOUS
  <2> DEFINE a == S[k].start
             z == S[k].end
             w == S[k].new
  <2>1. a \in 0 .. Len(v) /\ z \in a .. Len(v) /\ w \in Seq(Byte) /\ v \in Seq(Byte) /\ Len(v) \in Nat
    BY <1>1
  <2> HIDE DEF a, z, w
  <2>2. /\ Splice(v, a, z, w) \in Seq(Byte) /\ Len(Splice(v, a, z, w)) = Len(v) - (z - a) + Len(w)
        /\ a \in Nat /\ z \in Nat /\ z <= Len(v) /\ Len(w) \in Nat
    BY <2>1, SpliceParts
  <2>3. Splice(v, a, z, w) \in Seq(Byte) /\ Len(Splice(v, a, z, w)) \in Nat /\ Len(Splice(v, a, z, w)) >= a
    BY <2>1, <2>2
  <2> QED
    BY <2>3 DEF a, z, w
<1> HIDE DEF V, step
<1>4. \A v \in V, k \in 1 .. n : Op[<<v, k>>] = IF S[k].end <= Len(v) THEN step(v, k) ELSE text
  OBVIOUS
<1>5. Op \in [V \X (1 .. n) -> V]
  BY <1>1, <1>3
<1> HIDE DEF Op
<1>6. \E g : is(g)
  <2>1. PICK g \in [SUBSET (1 .. n) -> V] : IsFold(g, n, text, Op)
    BY <1>1, <1>5, FoldExists
  <2>2. ASSUME NEW s \in SUBSET (1 .. n), s # {} PROVE g[s] \in V /\ Max(s) \in 1 .. n /\ Len(g[s]) >= S[Max(s)].start
    <3> DEFINE k == Max(s)
               v == g[s \ {k}]
    <3>1. k \in 1 .. n /\ s \ {k} \in SUBSET (1 .. n)
      BY <1>1, <2>2, LastOfThese
    <3>2. v \in V /\ g[s] \in V
      BY <2>1, <3>1
    <3>3. g[s] = Op[<<v, k>>]
      BY <2>1, <2>2 DEF IsFold
    <3> HIDE DEF k, v
    <3>4. g[s] = IF S[k].end <= Len(v) THEN step(v, k) ELSE text
      BY <1>4, <3>1, <3>2, <3>3
    <3>5. Len(text) \in Nat /\ Len(text) >= S[k].start
      BY <1>1, <3>1
    <3>6. Len(g[s]) >= S[k].start
      BY <1>3, <3>1, <3>2, <3>4, <3>5
    <3> QED
      BY <3>1, <3>2, <3>6 DEF k
  <2>3. ASSUME NEW s \in SUBSET (1 .. n) PROVE g[s] = IF s = {} THEN text ELSE step(g[s \ {Max(s)}], Max(s))
    <3>1. CASE s = {}
      BY <2>1, <3>1 DEF IsFold
    <3>2. CASE s # {}
      <4> DEFINE k == Max(s)
                 r == s \ {k}
                 v == g[r]
      <4>1. k \in 1 .. n /\ r \in SUBSET (1 .. n) /\ k \in s /\ \A y \in s : y <= k
        <5>1. s \in SUBSET (0 .. n)
          OBVIOUS
        <5> QED
          BY <1>1, <3>2, <5>1, LastOfThese, LargestOf
      <4>2. v \in V
        BY <2>1, <4>1
      <4>3. g[s] = Op[<<v, k>>]
        BY <2>1, <3>2 DEF IsFold
      <4>4. S[k].end <= Len(v)
        <5>1. CASE r = {}
          <6>1. v = text
            BY <2>1, <4>1, <5>1 DEF IsFold
          <6> QED
            BY <1>1, <4>1, <6>1
        <5>2. CASE r # {}
          <6>1. Max(r) \in r
            BY <1>1, <4>1, <5>2, LastOfThese
          <6>2. Max(r) \in 1 .. n /\ Max(r) < k
            BY <1>1, <4>1, <6>1
          <6>3. Len(v) >= S[Max(r)].start
            BY <2>2, <4>1, <5>2
          <6>4. S[k].end <= S[Max(r)].start /\ S[k].end \in Nat /\ S[Max(r)].start \in Nat
            BY <1>1, <4>1, <6>2
          <6>5. Len(v) \in Nat
            BY <4>2 DEF V
          <6> QED
            BY <6>3, <6>4, <6>5
        <5> QED
          BY <5>1, <5>2
      <4> HIDE DEF k, r, v
      <4>5. g[s] = step(v, k)
        BY <1>4, <4>1, <4>2, <4>3, <4>4
      <4> QED
        BY <3>2, <4>5 DEF k, r, v
    <3> QED
      BY <3>1, <3>2
  <2>4. is(g)
    BY <2>1, <2>3
  <2> QED
    BY <2>4
<1> DEFINE g == CHOOSE h : is(h)
<1>7. is(g)
  BY <1>6
<1>8. \A s \in SUBSET (1 .. n) : g[s] = IF s = {} THEN text ELSE step(g[s \ {Max(s)}], Max(s))
  BY <1>7
<1> HIDE DEF g
<1> DEFINE f == [k \in 0 .. n |-> g[1 .. k]]
<1>9. f[0] = text /\ f[n] = g[1 .. n]
  <2>1. {} \in SUBSET (1 .. n) /\ 1 .. 0 = {} /\ 0 \in 0 .. n /\ n \in 0 .. n
    BY <1>1
  <2> QED
    BY <1>8, <2>1
<1>10. ASSUME NEW k \in 1 .. n PROVE f[k] = step(f[k - 1], k)
  <2>1. k \in Nat /\ k \in 0 .. n /\ k - 1 \in 0 .. n /\ 1 .. k \in SUBSET (1 .. n) /\ 1 .. k \in SUBSET (1 .. k)
        /\ 1 .. k # {} /\ k \in 1 .. k /\ (1 .. k) \ {k} = 1 .. (k - 1)
    BY <1>1
  <2>2. Max(1 .. k) = k
    BY <2>1, LastOfThese
  <2> QED
    BY <1>8, <2>1, <2>2
<1> HIDE DEF f
<1>11. f[n] = FoldLeft(LAMBDA out, e : Splice(out, e.start, e.end, e.new), text, S)
  BY <1>2, <1>9 DEF g
<1> QED
  BY <1>9, <1>10, <1>11 DEF n, step

\* All edits at once, as the parts they make of the text.
LEMMA AtOnceInParts ==
  ASSUME NEW Byte, NEW text \in Seq(Byte), NEW edits, EditsOf(edits, Len(text), Byte)
  PROVE  AtOnce(text, Reverse(edits)) = FlattenSeq(PartsOf(text, edits, 1 .. Len(edits)))
<1> DEFINE n == Len(edits)
           m == Len(text)
           R == Reverse(edits)
<1>1. n \in Nat /\ m \in Nat
  BY DEF EditsOf
<1>2. R = [i \in 1 .. n |-> edits[n - i + 1]]
  BY DEF Reverse
<1> HIDE DEF n, m, R
<1>3. DOMAIN R = 1 .. n /\ \A i \in 1 .. n : R[i] = edits[n - i + 1] /\ n - i + 1 \in 1 .. n /\ n - (n - i + 1) + 1 = i
  BY <1>1, <1>2
<1>4. ASSUME NEW o, NEW kind PROVE NewAt(R, o, kind) = NewOf(edits, 1 .. n, o, kind)
  <2> DEFINE s == [i \in DOMAIN R |-> IF R[i].start = o /\ (R[i].end = o <=> kind = "inserts") THEN R[i].new ELSE <<>>]
             t == SlotsOf(edits, 1 .. n, o, kind)
  <2>1. t = [j \in 1 .. n |-> IF n - j + 1 \in 1 .. n /\ Puts(edits[n - j + 1], o, kind) THEN edits[n - j + 1].new ELSE <<>>]
    BY DEF SlotsOf, n
  <2>2. s = t
    <3> HIDE DEF t
    <3>1. ASSUME NEW j \in 1 .. n
          PROVE  (IF R[j].start = o /\ (R[j].end = o <=> kind = "inserts") THEN R[j].new ELSE <<>>) =
                 (IF n - j + 1 \in 1 .. n /\ Puts(edits[n - j + 1], o, kind) THEN edits[n - j + 1].new ELSE <<>>)
      BY <1>3 DEF Puts
    <3> QED
      BY <1>3, <2>1, <3>1
  <2>3. NewAt(R, o, kind) = FlattenSeq(s)
    BY DEF NewAt
  <2> HIDE DEF s, t
  <2> QED
    BY <2>2, <2>3 DEF NewOf, t
<1>5. ASSUME NEW o PROVE Stays(text, R, o) <=> StayOf(text, edits, 1 .. n, o)
  <2>1. (\E i \in DOMAIN R : R[i].start <= o /\ o < R[i].end) <=> \E i \in 1 .. n : edits[i].start <= o /\ o < edits[i].end
    <3>1. ASSUME NEW i \in 1 .. n, edits[i].start <= o, o < edits[i].end
          PROVE  \E j \in DOMAIN R : R[j].start <= o /\ o < R[j].end
      <4> DEFINE j == n - i + 1
      <4>1. j \in DOMAIN R /\ R[j] = edits[i]
        BY <1>3
      <4> QED
        BY <3>1, <4>1
    <3> QED
      BY <1>3, <3>1
  <2> QED
    BY <2>1 DEF Stays, StayOf
<1> DEFINE s == [o \in 1 .. m + 1 |->
                  NewAt(R, o - 1, "inserts") \o NewAt(R, o - 1, "replaces")
                    \o (IF Stays(text, R, o - 1) THEN <<text[o]>> ELSE <<>>)]
<1>6. AtOnce(text, R) = FlattenSeq(s)
  BY DEF AtOnce, m
<1>7. PartsOf(text, edits, 1 .. n) = [k \in 1 .. m + 1 |-> PartOf(text, edits, 1 .. n, k - 1)]
  BY DEF PartsOf, m
<1>8. s = PartsOf(text, edits, 1 .. n)
  <2>1. ASSUME NEW k \in 1 .. m + 1
        PROVE  NewAt(R, k - 1, "inserts") \o NewAt(R, k - 1, "replaces") \o (IF Stays(text, R, k - 1) THEN <<text[k]>> ELSE <<>>)
                 = PartOf(text, edits, 1 .. n, k - 1)
    <3>1. (k - 1) + 1 = k
      BY <1>1
    <3> QED
      BY <1>4, <1>5, <3>1 DEF PartOf, ByteOf
  <2> QED
    BY <1>7, <2>1
<1> HIDE DEF s
<1> QED
  BY <1>6, <1>8 DEF n, R

\* The ranges of a text edit, resolved in its text.
LEMMA ResolvedInText ==
  ASSUME NEW Byte, NEW text \in Seq(Byte), WellFormed(text),
         NEW textEdits \in Seq(TextEdit(Byte)),
         Legal(Resolved(text, textEdits))
  PROVE  EditsOf(Resolved(text, textEdits), Len(text), Byte) /\ Len(Resolved(text, textEdits)) = Len(textEdits)
<1> DEFINE n == Len(textEdits)
           E == Resolved(text, textEdits)
           Pos == [line : Int, char : Int]
<1>1. n \in Nat /\ DOMAIN textEdits = 1 .. n /\ \A i \in 1 .. n : textEdits[i] \in TextEdit(Byte)
  OBVIOUS
<1>2. \A i \in 1 .. n : textEdits[i].start \in Pos /\ textEdits[i].end \in Pos /\ textEdits[i].new \in Seq(Byte)
  <2> DEFINE V == Seq(Byte)
  <2>1. \A i \in 1 .. n : textEdits[i] \in [start : Pos, end : Pos, new : V]
    BY <1>1 DEF TextEdit
  <2> HIDE DEF V, Pos, n
  <2>2. \A i \in 1 .. n : textEdits[i].start \in Pos /\ textEdits[i].end \in Pos /\ textEdits[i].new \in V
    BY <2>1
  <2> QED
    BY <2>2 DEF V
<1>3. Len(text) \in Nat /\ Starts(text, LineStarts(text))
  <2>1. Len(text) \in Nat
    OBVIOUS
  <2> QED
    BY <2>1, LineStartsInOrder
<1>4. \A pos \in Pos : ByteOffset(text, pos) # NoOffset => ByteOffset(text, pos) \in 0 .. Len(text)
  BY <1>3, OffsetsBetweenRunes
<1> HIDE DEF n, Pos
<1>5. E = [i \in 1 .. n |-> [start |-> ByteOffset(text, textEdits[i].start),
                             end   |-> ByteOffset(text, textEdits[i].end),
                             new   |-> textEdits[i].new]]
  BY <1>1 DEF Resolved
<1>6. DOMAIN E = 1 .. n /\ \A i \in 1 .. n : E[i].start # NoOffset /\ E[i].end # NoOffset /\ E[i].start <= E[i].end
  BY <1>5 DEF Legal
<1> HIDE DEF E
<1>7. Len(E) = n
  BY <1>1, <1>5
<1>8. ASSUME NEW i \in 1 .. n
      PROVE  E[i].start \in Nat /\ E[i].end \in Nat /\ E[i].new \in Seq(Byte) /\ E[i].start <= E[i].end /\ E[i].end <= Len(text)
  <2>1. E[i].start = ByteOffset(text, textEdits[i].start) /\ E[i].end = ByteOffset(text, textEdits[i].end) /\ E[i].new = textEdits[i].new
    BY <1>5
  <2>2. E[i].start \in 0 .. Len(text) /\ E[i].end \in 0 .. Len(text)
    BY <1>2, <1>4, <1>6, <2>1
  <2>3. E[i].new \in Seq(Byte)
    BY <1>2, <2>1
  <2> QED
    BY <1>3, <1>6, <2>2, <2>3
<1>9. EditsOf(E, Len(text), Byte)
  BY <1>1, <1>3, <1>6, <1>7, <1>8 DEF EditsOf
<1> QED
  BY <1>7, <1>9 DEF E, n

\* What the order of a plan leaves of its edits: their ranges and their texts.
LEMMA SortedInText ==
  ASSUME NEW Byte, NEW length, NEW edits, EditsOf(edits, length, Byte), NEW sorted, NEW p, Orders(p, sorted, edits)
  PROVE  /\ EditsOf(sorted, length, Byte) /\ Ranges(sorted) /\ Len(sorted) = Len(edits)
         /\ (\A i, j \in DOMAIN sorted : i # j => ~Overlap(sorted[i], sorted[j]))
              <=> \A i, j \in DOMAIN edits : i # j => ~Overlap(edits[i], edits[j])
<1> DEFINE n == Len(edits)
           V == Seq(Byte)
<1>1. /\ n \in Nat /\ DOMAIN edits = 1 .. n /\ length \in Nat
      /\ \A i \in 1 .. n : /\ edits[i].start \in Nat /\ edits[i].end \in Nat /\ edits[i].new \in V
                           /\ edits[i].start <= edits[i].end /\ edits[i].end <= length
  BY DEF EditsOf
<1>2. /\ DOMAIN sorted = 1 .. n /\ Len(sorted) = n /\ \A k \in 1 .. n : sorted[k] = edits[p[k]]
      /\ \A i, j \in 1 .. n : p[i] = p[j] => i = j
      /\ \A i \in 1 .. n : \E k \in 1 .. n : p[k] = i
  BY DEF Orders
<1>3. \A k \in 1 .. n : p[k] \in 1 .. n
  BY DEF Orders
<1> HIDE DEF n, V
<1>4. \A i \in 1 .. n : /\ sorted[i].start \in Nat /\ sorted[i].end \in Nat /\ sorted[i].new \in V
                        /\ sorted[i].start <= sorted[i].end /\ sorted[i].end <= length
  <2> SUFFICES ASSUME NEW i \in 1 .. n
               PROVE  /\ sorted[i].start \in Nat /\ sorted[i].end \in Nat /\ sorted[i].new \in V
                      /\ sorted[i].start <= sorted[i].end /\ sorted[i].end <= length
    OBVIOUS
  <2>1. sorted[i] = edits[p[i]] /\ p[i] \in 1 .. n
    BY <1>2, <1>3
  <2> QED
    BY <1>1, <2>1
<1>5. EditsOf(sorted, length, Byte)
  BY <1>1, <1>2, <1>4 DEF EditsOf, V
<1>6. Ranges(sorted)
  BY <1>1, <1>2, <1>4 DEF Ranges
<1>7. ASSUME \A i, j \in 1 .. n : i # j => ~Overlap(edits[i], edits[j]), NEW i \in 1 .. n, NEW j \in 1 .. n, i # j
      PROVE  ~Overlap(sorted[i], sorted[j])
  <2>1. p[i] \in 1 .. n /\ p[j] \in 1 .. n /\ p[i] # p[j] /\ sorted[i] = edits[p[i]] /\ sorted[j] = edits[p[j]]
    <3>1. p[i] # p[j]
      BY <1>2, <1>7
    <3> QED
      BY <1>2, <1>3, <3>1
  <2> QED
    BY <1>7, <2>1
<1>8. ASSUME \A i, j \in 1 .. n : i # j => ~Overlap(sorted[i], sorted[j]), NEW i \in 1 .. n, NEW j \in 1 .. n, i # j
      PROVE  ~Overlap(edits[i], edits[j])
  <2>1. PICK k \in 1 .. n : p[k] = i
    BY <1>2
  <2>2. PICK l \in 1 .. n : p[l] = j
    BY <1>2
  <2>3. k # l /\ sorted[k] = edits[i] /\ sorted[l] = edits[j]
    BY <1>2, <1>8, <2>1, <2>2
  <2> QED
    BY <1>8, <2>3
<1> QED
  BY <1>1, <1>2, <1>5, <1>6, <1>7, <1>8 DEF n

\* sortDescending puts the edits of a plan in an order.
LEMMA PlanInOrder ==
  ASSUME NEW Byte, NEW length, NEW edits, EditsOf(edits, length, Byte)
  PROVE  Descending(SortDescending(edits)) /\ \E p : Orders(p, SortDescending(edits), edits)
<1> DEFINE n == Len(edits)
           S == SortDescending(edits)
<1>1. n \in Nat /\ DOMAIN edits = 1 .. n /\ \A i \in DOMAIN edits : edits[i].start \in Int /\ edits[i].end \in Int
  <2>1. n \in Nat /\ DOMAIN edits = 1 .. n /\ \A i \in 1 .. n : edits[i].start \in Nat /\ edits[i].end \in Nat
    BY DEF EditsOf
  <2> QED
    BY <2>1
<1>2. /\ DOMAIN S = 1 .. n /\ Len(S) = n /\ Descending(S)
      /\ \E p \in [1 .. n -> 1 .. n] :
           /\ \A k \in 1 .. n : S[k] = edits[p[k]]
           /\ \A i, j \in 1 .. n : p[i] = p[j] => i = j
           /\ \A i, j \in 1 .. n : i < j => Precedes(edits, p[i], p[j])
           /\ \A i \in 1 .. n : \E k \in 1 .. n : p[k] = i
  BY <1>1, SortedOnce
<1> HIDE DEF S, n
<1> QED
  BY <1>2 DEF Orders, S, n

\* Edits that do not overlap are stacked by it.
LEMMA PlanStacked ==
  ASSUME NEW Byte, NEW length, NEW edits, EditsOf(edits, length, Byte), NEW sorted, NEW p, Orders(p, sorted, edits),
         NonOverlapping(sorted)
  PROVE  Stacked(sorted, length, Byte)
<1>1. EditsOf(sorted, length, Byte) /\ Ranges(sorted)
  BY SortedInText
<1>2. \A i, j \in DOMAIN sorted : i < j => sorted[j].end <= sorted[i].start
  BY <1>1, EachAbove
<1>3. DOMAIN sorted = 1 .. Len(sorted)
  BY <1>1 DEF EditsOf
<1> QED
  BY <1>1, <1>2, <1>3 DEF Stacked

\* FileEdit.Apply takes edits that are stacked.
LEMMA PlanIsApplied ==
  ASSUME NEW Byte, NEW text \in Seq(Byte), NEW S, Stacked(S, Len(text), Byte)
  PROVE  PlanApply(text, S) = [ok |-> TRUE, text |-> FoldLeft(LAMBDA o, e : Splice(o, e.start, e.end, e.new), text, S)]
<1> DEFINE n == Len(S)
           m == Len(text)
<1>1. /\ n \in Nat /\ DOMAIN S = 1 .. n
      /\ \A j \in 1 .. n : S[j].start \in Nat /\ S[j].end \in Nat /\ S[j].start <= S[j].end /\ S[j].end <= m
  BY DEF Stacked, EditsOf
<1>2. \A i, j \in 1 .. n : i < j => S[j].end <= S[i].start
  BY DEF Stacked
<1>3. ASSUME NEW i \in 1 .. n
      PROVE  /\ 0 <= S[i].start /\ S[i].start <= S[i].end /\ S[i].end <= m
             /\ i > 1 => S[i].start <= S[i - 1].start /\ S[i].end <= S[i - 1].start
  <2>1. i > 1 => i - 1 \in 1 .. n /\ i - 1 < i
    BY <1>1
  <2>2. i > 1 => S[i].end <= S[i - 1].start
    BY <1>2, <2>1
  <2> HIDE DEF n, m
  <2> QED
    BY <1>1, <2>1, <2>2
<1> QED
  BY <1>1, <1>3 DEF PlanApply

\* A plan is sorted from the bottom up, is refused exactly when two of its edits overlap,
\* and its application is that of all edits at once on the text they were made for.
THEOREM PlanIsExact ==
  ASSUME NEW Byte, NEW text \in Seq(Byte), WellFormed(text),
         NEW textEdits \in Seq(TextEdit(Byte)),
         Legal(Resolved(text, textEdits))
  PROVE  PlanExact(text, Resolved(text, textEdits), FilePlan(text, textEdits))
<1> DEFINE E == Resolved(text, textEdits)
           S == SortDescending(E)
           n == Len(E)
           m == Len(text)
           plan == FilePlan(text, textEdits)
<1>1. EditsOf(E, m, Byte)
  BY ResolvedInText
<1>2. plan = IF NonOverlapping(S) THEN FileEdit(S) ELSE Refused
  BY DEF FilePlan
<1> HIDE DEF E, plan
<1>4. Descending(S) /\ \E p : Orders(p, S, E)
  BY <1>1, PlanInOrder
<1> HIDE DEF S
<1>5. PICK p : Orders(p, S, E)
  BY <1>4
<1>6. /\ EditsOf(S, m, Byte) /\ Ranges(S) /\ Len(S) = n
      /\ (\A i, j \in DOMAIN S : i # j => ~Overlap(S[i], S[j])) <=> \A i, j \in DOMAIN E : i # j => ~Overlap(E[i], E[j])
  BY <1>1, <1>5, SortedInText
<1>7. NonOverlapping(S) <=> \A i, j \in DOMAIN E : i # j => ~Overlap(E[i], E[j])
  BY <1>4, <1>6, NeighboursSuffice
<1>8. plan.ok <=> NonOverlapping(S)
  BY <1>2 DEF FileEdit, Refused
<1>9. ASSUME plan.ok PROVE PlanApply(text, plan.edits) = [ok |-> TRUE, text |-> AtOnce(text, Reverse(E))]
  <2>1. NonOverlapping(S) /\ plan.edits = S
    BY <1>2, <1>8, <1>9 DEF FileEdit
  <2>2. \A i, j \in DOMAIN S : i < j => S[j].end <= S[i].start
    BY <1>6, <2>1, EachAbove
  <2>3. DOMAIN S = 1 .. n
    BY <1>6 DEF EditsOf
  <2>4. Stacked(S, m, Byte)
    BY <1>1, <1>5, <2>1, PlanStacked
  <2> DEFINE out == FoldLeft(LAMBDA o, e : Splice(o, e.start, e.end, e.new), text, S)
  <2>5. PICK f : /\ f[0] = text /\ \A k \in 1 .. Len(S) : f[k] = Splice(f[k - 1], S[k].start, S[k].end, S[k].new)
                 /\ f[Len(S)] = out
    BY <2>4, AppliedOneByOne
  <2> HIDE DEF out
  <2>6. out = FlattenSeq(PartsOf(text, E, 1 .. n))
    <3>1. \A k \in 1 .. n : f[k] = Splice(f[k - 1], S[k].start, S[k].end, S[k].new)
      BY <1>6, <2>5
    <3>2. f[n] = FlattenSeq(PartsOf(text, E, 1 .. n))
      BY <1>1, <1>5, <2>1, <2>5, <3>1, OneByOneIsAtOnce
    <3> QED
      BY <1>6, <2>5, <3>2
  <2>7. out = AtOnce(text, Reverse(E))
    BY <1>1, <2>6, AtOnceInParts
  <2>9. PlanApply(text, S) = [ok |-> TRUE, text |-> out]
    BY <2>4, PlanIsApplied DEF out
  <2> QED
    BY <2>1, <2>7, <2>9
<1> QED
  BY <1>4, <1>6, <1>7, <1>8, <1>9 DEF PlanExact, S, E, plan

\* What stands in a text behind an edit of it.
LEMMA SpliceBehind ==
  ASSUME NEW Byte, NEW text \in Seq(Byte), NEW new \in Seq(Byte),
         NEW from \in Nat, NEW to \in Nat, from <= to, to <= Len(text)
  PROVE  /\ \A i \in 1 .. Len(new) : Splice(text, from, to, new)[from + i] = new[i]
         /\ \A i \in 1 .. Len(text) - to : Splice(text, from, to, new)[from + Len(new) + i] = text[to + i]
<1> DEFINE head == SubSeq(text, 1, from)
           tail == SubSeq(text, to + 1, Len(text))
           front == head \o new
<1>1. head \in Seq(Byte) /\ Len(head) = from
  OBVIOUS
<1>2. tail \in Seq(Byte) /\ Len(tail) = Len(text) - to /\ \A i \in 1 .. Len(text) - to : tail[i] = text[to + i]
  OBVIOUS
<1>3. Splice(text, from, to, new) = front \o tail
  BY DEF Splice
<1> HIDE DEF head, tail
<1>4. front \in Seq(Byte) /\ Len(front) = from + Len(new) /\ \A i \in 1 .. Len(new) : front[from + i] = new[i]
  BY <1>1
<1> HIDE DEF front
<1>5. /\ \A i \in 1 .. Len(front) : (front \o tail)[i] = front[i]
      /\ \A i \in 1 .. Len(tail) : (front \o tail)[Len(front) + i] = tail[i]
  <2>1. front \in Seq(Byte) /\ tail \in Seq(Byte)
    BY <1>2, <1>4
  <2>2. \A i \in 1 .. Len(front) : (front \o tail)[i] = front[i]
    BY <2>1
  <2>3. \A i \in 1 .. Len(tail) : (front \o tail)[Len(front) + i] = tail[i]
    BY <2>1
  <2> QED
    BY <2>2, <2>3
<1>6. ASSUME NEW i \in 1 .. Len(new) PROVE (front \o tail)[from + i] = new[i]
  <2>1. from + i \in 1 .. Len(front)
    BY <1>4
  <2> QED
    BY <1>4, <1>5, <2>1
<1>7. ASSUME NEW i \in 1 .. Len(text) - to PROVE (front \o tail)[from + Len(new) + i] = text[to + i]
  BY <1>2, <1>4, <1>5
<1> QED
  BY <1>3, <1>6, <1>7

\* A text of whole runes stays one if runes take the place of runes.
LEMMA SpliceWhole ==
  ASSUME NEW Byte, NEW text \in Seq(Byte), NEW new \in Seq(Byte), WellFormed(text), WellFormed(new),
         NEW from \in Nat, NEW to \in Nat, from <= to, to <= Len(text), Boundary(text, from), Boundary(text, to)
  PROVE  /\ WellFormed(Splice(text, from, to, new))
         /\ \A o \in 0 .. from : Boundary(text, o) => Boundary(Splice(text, from, to, new), o)
<1> DEFINE s == Splice(text, from, to, new)
           n == Len(text)
           w == Len(new)
           m == Len(s)
<1>1. n \in Nat /\ w \in Nat /\ m = n - (to - from) + w /\ m \in Nat /\ from \in Nat /\ to \in Nat /\ from <= to /\ to <= n
  <2>1. n \in Nat /\ w \in Nat /\ from \in Nat /\ to \in Nat /\ from <= to /\ to <= n
    OBVIOUS
  <2>2. m = n - (to - from) + w
    BY SpliceParts
  <2> HIDE DEF n, w, m
  <2> QED
    BY <2>1, <2>2
<1>2. \A i \in 1 .. from : s[i] = text[i]
  BY SpliceParts
<1>3. (\A i \in 1 .. w : s[from + i] = new[i]) /\ \A i \in 1 .. n - to : s[from + w + i] = text[to + i]
  <2>1. \A i \in 1 .. w : s[from + i] = new[i]
    BY SpliceBehind
  <2>2. \A i \in 1 .. n - to : s[from + w + i] = text[to + i]
    BY SpliceBehind
  <2> QED
    BY <2>1, <2>2
<1>4. /\ \A i \in 1 .. n : text[i] = "~" => i > 1 /\ text[i - 1] \in {"2", "4", "~"}
      /\ \A i \in 1 .. w : new[i] = "~" => i > 1 /\ new[i - 1] \in {"2", "4", "~"}
  BY DEF WellFormed
<1>5. (from = n \/ text[from + 1] # "~") /\ (to = n \/ text[to + 1] # "~")
  BY DEF Boundary
<1> HIDE DEF s, n, w, m
<1>6. ASSUME NEW i \in 1 .. m, s[i] = "~" PROVE i > 1 /\ s[i - 1] \in {"2", "4", "~"}
  <2>1. CASE i <= from
    <3>1. i \in 1 .. from /\ i \in 1 .. n /\ (i > 1 => i - 1 \in 1 .. from)
      BY <1>1, <2>1
    <3> QED
      BY <1>2, <1>4, <1>6, <3>1
  <2>2. CASE i > from /\ i <= from + w
    <3> DEFINE j == i - from
    <3>1. j \in 1 .. w /\ i = from + j /\ (j > 1 => j - 1 \in 1 .. w /\ from + (j - 1) = i - 1) /\ (j > 1 => i > 1)
      BY <1>1, <2>2
    <3> HIDE DEF j
    <3>2. new[j] = "~"
      BY <1>3, <1>6, <3>1
    <3>3. j > 1 /\ new[j - 1] \in {"2", "4", "~"}
      BY <1>4, <3>1, <3>2
    <3>4. s[i - 1] = new[j - 1]
      BY <1>3, <3>1, <3>3
    <3> QED
      BY <3>1, <3>3, <3>4
  <2>3. CASE i > from + w
    <3> DEFINE j == i - from - w
    <3>1. /\ j \in 1 .. n - to /\ i = from + w + j /\ to + j \in 1 .. n /\ to + j - 1 = to + (j - 1)
          /\ (j > 1 => j - 1 \in 1 .. n - to /\ from + w + (j - 1) = i - 1) /\ (j > 1 => i > 1)
          /\ to # n /\ (j # 1 => j > 1)
      BY <1>1, <2>3
    <3> HIDE DEF j
    <3>2. text[to + j] = "~"
      BY <1>3, <1>6, <3>1
    <3>3. j > 1
      BY <1>5, <3>1, <3>2
    <3>4. text[to + (j - 1)] \in {"2", "4", "~"}
      BY <1>4, <3>1, <3>2
    <3>5. s[i - 1] = text[to + (j - 1)]
      BY <1>3, <3>1, <3>3
    <3> QED
      BY <3>1, <3>3, <3>4, <3>5
  <2> QED
    BY <1>1, <2>1, <2>2, <2>3
<1>7. ASSUME NEW o \in 0 .. from, o = n \/ text[o + 1] # "~" PROVE o = m \/ s[o + 1] # "~"
  <2>1. CASE o < from
    <3>1. o + 1 \in 1 .. from /\ o # n
      BY <1>1, <2>1
    <3> QED
      BY <1>2, <1>7, <3>1
  <2>2. CASE o = from /\ w > 0
    <3>1. 1 \in 1 .. w
      BY <1>1, <2>2
    <3> QED
      BY <1>3, <1>4, <2>2, <3>1
  <2>3. CASE o = from /\ ~(w > 0)
    <3>1. w = 0 /\ (to = n => m = from) /\ (to # n => 1 \in 1 .. n - to /\ from + w + 1 = o + 1)
      BY <1>1, <2>3
    <3>2. to # n => s[o + 1] = text[to + 1]
      BY <1>3, <3>1
    <3> QED
      BY <1>5, <2>3, <3>1, <3>2
  <2> QED
    BY <1>1, <2>1, <2>2, <2>3
<1>8. WellFormed(s)
  BY <1>6 DEF WellFormed, m
<1>9. \A o \in 0 .. from : Boundary(text, o) => Boundary(s, o)
  BY <1>7 DEF Boundary, m, n
<1> QED
  BY <1>8, <1>9 DEF s

\* An edit is never put behind a carriage return, if each belongs to a line end of two bytes.
LEMMA NotBehindReturn ==
  ASSUME NEW Byte, NEW text \in Seq(Byte), WellFormed(text), WholeLineEnds(text), NEW pos \in [line : Int, char : Int],
         NEW o, o = ByteOffset(text, pos), o # NoOffset
  PROVE  o \in 0 .. Len(text) /\ Boundary(text, o) /\ (o # 0 => text[o] # "r")
<1> DEFINE n == Len(text)
           S == LineStarts(text)
           l == pos.line + 1
           from == S[l]
           end == LineEnd(text, from)
           ends == {q \in from .. n - 1 : text[q + 1] = "n" \/ (text[q + 1] = "r" /\ q + 2 <= n /\ text[q + 2] = "n")}
<1>1. n \in Nat /\ Starts(text, S)
  <2>1. Len(text) \in Nat
    OBVIOUS
  <2> QED
    BY <2>1, LineStartsInOrder
<1>2. o \in 0 .. n /\ Boundary(text, o)
  BY <1>1, OffsetsBetweenRunes
<1>3. pos.line \in Int /\ ~(pos.line < 0) /\ ~(pos.line >= Len(S)) /\ o = Advance(text, from, end, pos.char)
  BY DEF ByteOffset
<1>4. l \in 1 .. Len(S) /\ from \in 0 .. n /\ (from = 0 \/ text[from] = "n")
  <2>1. Len(S) \in Nat /\ l \in 1 .. Len(S)
    BY <1>1, <1>3 DEF Starts
  <2> HIDE DEF S, l
  <2>2. S[1] = 0 /\ S[l] \in 0 .. n /\ (l > 1 => text[S[l]] = "n")
    BY <1>1, <2>1 DEF Starts
  <2> QED
    BY <2>1, <2>2
<1> HIDE DEF S, l, from
<1>5. ends \in SUBSET (0 .. n) /\ end = Min({n} \cup ends)
  BY <1>1, <1>4 DEF LineEnd
<1>6. end \in {n} \cup ends /\ \A q \in {n} \cup ends : end <= q
  <2> DEFINE T == {n} \cup ends
  <2>1. T \in SUBSET Nat /\ T # {}
    BY <1>1, <1>5
  <2> HIDE DEF T, ends, end
  <2>2. Min(T) \in T /\ \A q \in T : Min(T) <= q
    BY <2>1, SmallestOf
  <2> QED
    BY <1>5, <2>2 DEF T
<1>7. ASSUME o # 0, text[o] = "r" PROVE FALSE
  <2>1. o \in 1 .. n /\ o < n /\ text[o + 1] = "n"
    BY <1>1, <1>2, <1>7 DEF WholeLineEnds
  <2>2. o \in from .. end
    <3>1. end \in from .. n
      BY <1>1, <1>4, <1>6
    <3> HIDE DEF end
    <3>2. from \in 0 .. end /\ end \in Nat
      BY <1>1, <1>4, <3>1
    <3>4. Boundary(text, from)
      <4>1. from # n => from + 1 \in 1 .. n /\ (from + 1 > 1 => text[(from + 1) - 1] = "n")
        BY <1>1, <1>4
      <4> QED
        BY <1>1, <1>4, <4>1 DEF Boundary, WellFormed
    <3>3. Advance(text, from, end, pos.char) \in from .. end
      BY <3>2, <3>4, AdvanceStays
    <3> QED
      BY <1>3, <3>3
  <2>3. o # from
    BY <1>4, <1>7
  <2>4. o - 1 \in ends
    <3>1. o - 1 \in from .. n - 1 /\ (o - 1) + 1 = o /\ (o - 1) + 2 = o + 1 /\ o + 1 <= n
      BY <1>1, <1>4, <2>1, <2>2, <2>3
    <3> QED
      BY <1>7, <2>1, <3>1
  <2>5. end <= o - 1
    BY <1>6, <2>4
  <2> HIDE DEF ends, end
  <2>6. end \in Nat
    <3>1. end \in {n} \cup ends /\ ends \in SUBSET (0 .. n) /\ n \in Nat
      BY <1>1, <1>5, <1>6
    <3> HIDE DEF n
    <3> QED
      BY <3>1
  <2> QED
    BY <1>4, <2>1, <2>2, <2>5, <2>6
<1> QED
  BY <1>2, <1>7

\* The position of an offset leads back to it in every text that is the same up to there.
LEMMA PositionFindsOffset ==
  ASSUME NEW Byte, NEW text \in Seq(Byte), NEW other \in Seq(Byte), WellFormed(other),
         NEW o \in 0 .. Len(text), o <= Len(other), \A b \in 1 .. o : other[b] = text[b],
         Boundary(text, o), Boundary(other, o), o # 0 => text[o] # "r"
  PROVE  OffsetAt(other, PositionAt(text, o)) = o
<1>1. Len(text) \in Nat /\ Len(other) \in Nat /\ o \in Nat /\ o \in 0 .. Len(other)
  OBVIOUS
<1> DEFINE R == {p \in 0 .. o : Boundary(text, p)}
<1>2. Clamp(o, 0, Len(text)) = o
  BY <1>1 DEF Clamp
<1>3. Max(R) = o
  <2>1. R \in SUBSET (0 .. o) /\ o \in R
    BY <1>1
  <2> HIDE DEF R
  <2>2. Max(R) \in R /\ \A y \in R : y <= Max(R)
    BY <1>1, <2>1, LargestOf
  <2> DEFINE r == Max(R)
  <2>3. r \in 0 .. o /\ o <= r
    BY <2>1, <2>2
  <2> HIDE DEF r
  <2>4. r = o
    BY <1>1, <2>3
  <2> QED
    BY <2>4 DEF r
<1>4. PositionAt(text, o) = [line |-> LineOf(text, o), char |-> Units(text, StartOf(text, o), o)]
  BY <1>2, <1>3 DEF PositionAt
<1>5. LineOf(text, o) = LineOf(other, o) /\ StartOf(text, o) = StartOf(other, o)
  <2>1. {i \in 1 .. o : other[i] = "n"} = {i \in 1 .. o : text[i] = "n"}
    OBVIOUS
  <2> QED
    BY <2>1 DEF LineOf, StartOf
<1>6. StartOf(text, o) \in 0 .. o
  BY <1>1, LineOfOffset
<1> DEFINE from == StartOf(text, o)
<1>7. Units(text, from, o) = Units(other, from, o)
  <2> HIDE DEF from
  <2>1. \A i \in (from + 1) .. o : i \in 1 .. o
    BY <1>1, <1>6 DEF from
  <2>2. \A i \in (from + 1) .. o : other[i] = text[i]
    BY <2>1
  <2>3. /\ {i \in (from + 1) .. o : other[i] # "~"} = {i \in (from + 1) .. o : text[i] # "~"}
        /\ {i \in (from + 1) .. o : other[i] = "4"} = {i \in (from + 1) .. o : text[i] = "4"}
    BY <2>2
  <2> QED
    BY <2>3 DEF Units
<1>8. OffsetAt(other, [line |-> LineOf(other, o), char |-> Units(other, StartOf(other, o), o)]) =
        IF o \in 1 .. Len(other) - 1 /\ other[o] = "r" /\ other[o + 1] = "n" THEN o - 1 ELSE o
  BY <1>1, PositionLeadsBack
<1>9. ~(o \in 1 .. Len(other) - 1 /\ other[o] = "r")
  BY <1>1
<1> QED
  BY <1>4, <1>5, <1>7, <1>8, <1>9

\* A text of whole runes that is another one up to an offset.
Keeps(t, text, top, Byte) ==
  /\ t \in Seq(Byte) /\ WellFormed(t) /\ top \in Nat /\ top <= Len(t) /\ \A b \in 1 .. top : t[b] = text[b]
  /\ \A o \in 0 .. top : Boundary(text, o) => Boundary(t, o)

\* An edit below the offset leaves such a text.
LEMMA SpliceKeeps ==
  ASSUME NEW Byte, NEW text, NEW t, NEW top, Keeps(t, text, top, Byte), NEW new \in Seq(Byte), WellFormed(new),
         NEW a \in Nat, NEW z \in Nat, a <= z, z <= top, Boundary(text, a), Boundary(text, z)
  PROVE  Keeps(t, text, z, Byte) /\ Keeps(Splice(t, a, z, new), text, a, Byte)
<1> DEFINE s == Splice(t, a, z, new)
<1>1. /\ t \in Seq(Byte) /\ WellFormed(t) /\ top \in Nat /\ top <= Len(t) /\ \A b \in 1 .. top : t[b] = text[b]
      /\ \A o \in 0 .. top : Boundary(text, o) => Boundary(t, o)
  BY DEF Keeps
<1>2. z <= Len(t) /\ a \in 0 .. top /\ z \in 0 .. top /\ Len(t) \in Nat /\ Len(new) \in Nat
  BY <1>1
<1>3. Boundary(t, a) /\ Boundary(t, z)
  BY <1>1, <1>2
<1>4. (\A b \in 1 .. z : b \in 1 .. top) /\ (\A o \in 0 .. z : o \in 0 .. top) /\ (\A b \in 1 .. a : b \in 1 .. top) /\ \A o \in 0 .. a : o \in 0 .. top
  BY <1>1
<1>5. Keeps(t, text, z, Byte)
  BY <1>1, <1>2, <1>4 DEF Keeps
<1>6. s \in Seq(Byte) /\ Len(s) = Len(t) - (z - a) + Len(new) /\ \A b \in 1 .. a : s[b] = t[b]
  BY <1>1, <1>2, SpliceParts
<1>7. WellFormed(s) /\ \A o \in 0 .. a : Boundary(t, o) => Boundary(s, o)
  BY <1>1, <1>2, <1>3, SpliceWhole
<1> HIDE DEF s
<1>8. a <= Len(s)
  BY <1>2, <1>6
<1>9. (\A b \in 1 .. a : s[b] = text[b]) /\ \A o \in 0 .. a : Boundary(text, o) => Boundary(s, o)
  BY <1>1, <1>4, <1>6, <1>7
<1>10. Keeps(s, text, a, Byte)
  BY <1>6, <1>7, <1>8, <1>9 DEF Keeps
<1> QED
  BY <1>5, <1>10 DEF s

\* The edits of a plan, each between runes of its text.
Between(S, text, Byte) ==
  /\ Stacked(S, Len(text), Byte)
  /\ \A i \in 1 .. Len(S) : WellFormed(S[i].new) /\ Boundary(text, S[i].start) /\ Boundary(text, S[i].end)

\* Applied from the bottom up, each edit finds its range between the runes where it was.
LEMMA EditsFindRunes ==
  ASSUME NEW Byte, NEW text \in Seq(Byte), WellFormed(text), NEW S, Between(S, text, Byte),
         NEW f, f[0] = text, \A k \in 1 .. Len(S) : f[k] = Splice(f[k - 1], S[k].start, S[k].end, S[k].new),
         NEW k \in 1 .. Len(S)
  PROVE  Keeps(f[k - 1], text, S[k].end, Byte)
<1> DEFINE n == Len(S)
           m == Len(text)
           top == [i \in 0 .. n |-> IF i = 0 THEN m ELSE S[i].start]
           P(i) == Keeps(f[i], text, top[i], Byte)
           T == {i \in 0 .. n : P(i)}
<1>1. /\ n \in Nat /\ m \in Nat
      /\ \A i \in 1 .. n : S[i].start \in Nat /\ S[i].end \in Nat /\ S[i].new \in Seq(Byte) /\ S[i].start <= S[i].end /\ S[i].end <= m
  BY DEF Between, Stacked, EditsOf
<1>2. /\ \A i, j \in 1 .. n : i < j => S[j].end <= S[i].start
      /\ \A i \in 1 .. n : WellFormed(S[i].new) /\ Boundary(text, S[i].start) /\ Boundary(text, S[i].end)
  BY DEF Between, Stacked
<1>3. P(0)
  <2>1. top[0] = m
    BY <1>1
  <2> QED
    BY <1>1, <2>1 DEF Keeps
<1> HIDE DEF n, m
<1>4. \A i \in 1 .. n : top[i] = S[i].start /\ S[i].end <= top[i - 1] /\ i - 1 \in 0 .. n
  <2> SUFFICES ASSUME NEW i \in 1 .. n PROVE top[i] = S[i].start /\ S[i].end <= top[i - 1] /\ i - 1 \in 0 .. n
    OBVIOUS
  <2>1. i \in 0 .. n /\ i # 0 /\ i - 1 \in 0 .. n /\ (i - 1 # 0 => i - 1 \in 1 .. n /\ i - 1 < i)
    BY <1>1
  <2> QED
    BY <1>1, <1>2, <2>1
<1> HIDE DEF top
<1>5. ASSUME NEW i \in 1 .. n, P(i - 1) PROVE P(i) /\ Keeps(f[i - 1], text, S[i].end, Byte)
  <2> DEFINE a == S[i].start
             z == S[i].end
             w == S[i].new
             t == f[i - 1]
             h == top[i - 1]
  <2>1. /\ a \in Nat /\ z \in Nat /\ w \in Seq(Byte) /\ a <= z /\ z <= h /\ WellFormed(w) /\ Boundary(text, a) /\ Boundary(text, z)
        /\ f[i] = Splice(t, a, z, w) /\ Keeps(t, text, h, Byte) /\ top[i] = a
    BY <1>1, <1>2, <1>4, <1>5 DEF n
  <2> HIDE DEF a, z, w, t, h
  <2>2. Keeps(t, text, z, Byte) /\ Keeps(Splice(t, a, z, w), text, a, Byte)
    BY <2>1, SpliceKeeps
  <2> QED
    BY <2>1, <2>2 DEF z, t
<1> HIDE DEF P
<1>6. \A i : i \in T <=> i \in 0 .. n /\ P(i)
  OBVIOUS
<1> HIDE DEF T
<1>7. 0 \in T /\ (\A i \in 1 .. n : i - 1 \in T => i \in T) /\ k - 1 \in 0 .. n /\ k \in 1 .. n
  <2>1. 0 \in 0 .. n /\ k \in 1 .. n /\ \A i \in 1 .. n : i - 1 \in 0 .. n /\ i \in 0 .. n
    BY <1>1 DEF n
  <2> QED
    BY <1>3, <1>5, <1>6, <2>1
<1>8. k - 1 \in T
  BY <1>1, <1>7, CountUp
<1>9. P(k - 1)
  BY <1>6, <1>8
<1> QED
  BY <1>5, <1>7, <1>9

\* The first numbers, one after the other.
LEMMA FirstNumbers ==
  ASSUME NEW n \in Nat, NEW k \in 1 .. n
  PROVE  k \in Nat /\ k \in 0 .. n /\ k - 1 \in 0 .. n /\ 1 .. k \in SUBSET (1 .. n) /\ 1 .. k \in SUBSET (1 .. k)
         /\ 1 .. k # {} /\ k \in 1 .. k /\ (1 .. k) \ {k} = 1 .. (k - 1)
<1>1. k \in Nat /\ k \in 0 .. n /\ k - 1 \in 0 .. n /\ k \in 1 .. k
  OBVIOUS
<1>2. \A i : i \in 1 .. k => i \in 1 .. n
  OBVIOUS
<1>3. \A i : i \in (1 .. k) \ {k} <=> i \in 1 .. (k - 1)
  BY <1>1
<1> QED
  BY <1>1, <1>2, <1>3

NewDoc(text) == [text |-> text, full |-> FALSE, edits |-> <<>>]

\* Store.Apply makes the changes one after the other.
LEMMA StoreApplied ==
  ASSUME NEW text, NEW changes, Len(changes) \in Nat, DOMAIN changes = 1 .. Len(changes)
  PROVE  \E h : /\ h[0] = NewDoc(text) /\ \A k \in 1 .. Len(changes) : h[k] = Changed(h[k - 1], changes[k])
                /\ h[Len(changes)] = StoreApply(text, changes)
<1> DEFINE n == Len(changes)
           base == NewDoc(text)
           step(v, k) == Changed(v, changes[k])
           is(g, k) == g = [s \in SUBSET (1 .. k) |-> IF s = {} THEN base ELSE step(g[s \ {Max(s)}], Max(s))]
           T == {k \in 0 .. n : \E g : is(g, k)}
<1>1. n \in Nat /\ DOMAIN changes = 1 .. n
  OBVIOUS
<1>2. StoreApply(text, changes) = (CHOOSE g : is(g, n))[1 .. n]
  BY <1>1 DEF StoreApply, FoldLeft, MapThenFoldSet, NewDoc
<1> HIDE DEF n, base, step
<1>3. \E g : is(g, 0)
  <2> DEFINE g == [s \in SUBSET (1 .. 0) |-> base]
  <2>1. SUBSET (1 .. 0) = {{}}
    OBVIOUS
  <2>2. is(g, 0)
    BY <2>1
  <2> QED
    BY <2>2
<1>4. ASSUME NEW k \in 1 .. n, \E g : is(g, k - 1) PROVE \E g : is(g, k)
  <2>1. PICK h : is(h, k - 1)
    BY <1>4
  <2>2. \A s \in SUBSET (1 .. (k - 1)) : h[s] = IF s = {} THEN base ELSE step(h[s \ {Max(s)}], Max(s))
    BY <2>1
  <2> DEFINE g == [s \in SUBSET (1 .. k) |-> IF k \in s THEN step(h[s \ {k}], k) ELSE h[s]]
  <2>3. k \in Nat /\ k \in 1 .. k
    BY <1>1
  <2>4. ASSUME NEW s \in SUBSET (1 .. k) PROVE g[s] = IF s = {} THEN base ELSE step(g[s \ {Max(s)}], Max(s))
    <3>1. CASE k \in s
      <4>1. Max(s) = k /\ s \ {k} \in SUBSET (1 .. (k - 1)) /\ s \ {k} \in SUBSET (1 .. k) /\ k \notin s \ {k}
        BY <2>3, <3>1, LastOfThese
      <4>2. g[s] = step(h[s \ {k}], k) /\ g[s \ {k}] = h[s \ {k}]
        BY <3>1, <4>1
      <4> QED
        BY <3>1, <4>1, <4>2
    <3>2. CASE k \notin s /\ s # {}
      <4>1. s \in SUBSET (1 .. (k - 1)) /\ k - 1 \in Nat
        BY <2>3, <3>2
      <4>2. Max(s) \in 1 .. (k - 1) /\ s \ {Max(s)} \in SUBSET (1 .. (k - 1)) /\ s \ {Max(s)} \in SUBSET (1 .. k) /\ k \notin s \ {Max(s)}
        BY <3>2, <4>1, LastOfThese
      <4>3. g[s] = h[s] /\ g[s \ {Max(s)}] = h[s \ {Max(s)}]
        BY <3>2, <4>1, <4>2
      <4>4. h[s] = step(h[s \ {Max(s)}], Max(s))
        BY <2>2, <3>2, <4>1
      <4> QED
        BY <3>2, <4>3, <4>4
    <3>3. CASE s = {}
      <4>1. {} \in SUBSET (1 .. (k - 1)) /\ k \notin {}
        OBVIOUS
      <4>2. g[s] = h[{}] /\ h[{}] = base
        BY <2>2, <3>3, <4>1
      <4> QED
        BY <3>3, <4>2
    <3> QED
      BY <3>1, <3>2, <3>3
  <2>5. is(g, k)
    <3>1. g = [s \in SUBSET (1 .. k) |-> g[s]]
      OBVIOUS
    <3> HIDE DEF g
    <3> QED
      BY <2>4, <3>1
  <2> QED
    BY <2>5
<1>5. \A k : k \in T <=> k \in 0 .. n /\ \E g : is(g, k)
  OBVIOUS
<1> HIDE DEF T
<1>6. 0 \in T /\ (\A k \in 1 .. n : k - 1 \in T => k \in T) /\ n \in 0 .. n
  <2>1. 0 \in 0 .. n /\ n \in 0 .. n /\ \A k \in 1 .. n : k - 1 \in 0 .. n /\ k \in 0 .. n
    BY <1>1
  <2>2. 0 \in T
    BY <1>3, <1>5, <2>1
  <2>3. ASSUME NEW k \in 1 .. n, k - 1 \in T PROVE k \in T
    <3>1. \E g : is(g, k - 1)
      BY <1>5, <2>3
    <3>2. \E g : is(g, k)
      BY <1>4, <3>1
    <3> HIDE DEF is
    <3> QED
      BY <1>5, <2>1, <3>2
  <2> QED
    BY <2>1, <2>2, <2>3
<1>7. \E g : is(g, n)
  <2>1. n \in T
    BY <1>1, <1>6, CountUp
  <2> QED
    BY <1>5, <2>1
<1> DEFINE g == CHOOSE x : is(x, n)
<1>8. is(g, n)
  BY <1>7
<1>9. \A s \in SUBSET (1 .. n) : g[s] = IF s = {} THEN base ELSE step(g[s \ {Max(s)}], Max(s))
  BY <1>8
<1> HIDE DEF g
<1> DEFINE h == [k \in 0 .. n |-> g[1 .. k]]
<1>10. h[0] = base /\ h[n] = g[1 .. n]
  <2>1. {} \in SUBSET (1 .. n) /\ 1 .. 0 = {} /\ 0 \in 0 .. n /\ n \in 0 .. n
    BY <1>1
  <2> QED
    BY <1>9, <2>1
<1>11. ASSUME NEW k \in 1 .. n PROVE h[k] = step(h[k - 1], k)
  <2>1. k \in Nat /\ k \in 0 .. n /\ k - 1 \in 0 .. n /\ 1 .. k \in SUBSET (1 .. n) /\ 1 .. k \in SUBSET (1 .. k)
        /\ 1 .. k # {} /\ k \in 1 .. k /\ (1 .. k) \ {k} = 1 .. (k - 1)
    BY <1>1, FirstNumbers
  <2>2. Max(1 .. k) = k
    BY <2>1, LastOfThese
  <2> QED
    BY <1>9, <2>1, <2>2
<1> HIDE DEF h
<1>12. h[n] = StoreApply(text, changes)
  BY <1>2, <1>10 DEF g
<1> QED
  BY <1>10, <1>11, <1>12 DEF n, base, step

\* What the parser is told of an edit.
EditOf(t, a, z, w) ==
  [start |-> a, oldEnd |-> z, newEnd |-> a + Len(w),
   points |-> <<PointAt(t, a), PointAt(t, z), PointAt(Splice(t, a, z, w), a + Len(w))>>]

\* An offset between runes that is not behind a carriage return.
Clear(text, o) == Boundary(text, o) /\ (o # 0 => text[o] # "r")

\* A change that is reported with the positions of an older text is made where it was meant,
\* if the text is still that one up to there.
LEMMA ReportedChange ==
  ASSUME NEW Byte, NEW text \in Seq(Byte), NEW a \in Nat, NEW z \in Nat, a <= z, z <= Len(text), Clear(text, a), Clear(text, z),
         NEW t, Keeps(t, text, z, Byte), NEW w, NEW log
  PROVE  Changed([text |-> t, full |-> FALSE, edits |-> log],
                 [whole |-> FALSE, start |-> PositionAt(text, a), end |-> PositionAt(text, z), new |-> w])
           = [text |-> Splice(t, a, z, w), full |-> FALSE, edits |-> Append(log, EditOf(t, a, z, w))]
<1> DEFINE doc == [text |-> t, full |-> FALSE, edits |-> log]
           c   == [whole |-> FALSE, start |-> PositionAt(text, a), end |-> PositionAt(text, z), new |-> w]
<1>1. /\ t \in Seq(Byte) /\ WellFormed(t) /\ z <= Len(t) /\ \A b \in 1 .. z : t[b] = text[b]
      /\ \A o \in 0 .. z : Boundary(text, o) => Boundary(t, o)
  BY DEF Keeps
<1>2. /\ Boundary(text, a) /\ Boundary(text, z) /\ (a # 0 => text[a] # "r") /\ (z # 0 => text[z] # "r")
  BY DEF Clear
<1>3. /\ Len(text) \in Nat /\ Len(t) \in Nat /\ a \in 0 .. z /\ z \in 0 .. z /\ a \in 0 .. Len(text) /\ z \in 0 .. Len(text) /\ a <= Len(t)
      /\ \A b \in 1 .. a : b \in 1 .. z
  BY <1>1
<1>4. OffsetAt(t, PositionAt(text, a)) = a
  BY <1>1, <1>2, <1>3, PositionFindsOffset
<1>5. OffsetAt(t, PositionAt(text, z)) = z
  BY <1>1, <1>2, <1>3, PositionFindsOffset
<1>6. Min({a, z}) = a /\ Max({a, z}) = z
  <2> DEFINE T == {a, z}
  <2>1. T \in SUBSET Nat /\ T # {} /\ T \in SUBSET (0 .. z) /\ a \in T /\ z \in T /\ \A x \in T : x = a \/ x = z
    BY <1>3
  <2> HIDE DEF T
  <2>2. Min(T) \in T /\ \A q \in T : Min(T) <= q
    BY <2>1, SmallestOf
  <2>3. Max(T) \in T /\ \A q \in T : q <= Max(T)
    BY <2>1, LargestOf
  <2>4. Min(T) = a /\ Max(T) = z
    <3> DEFINE x == Min(T)
               y == Max(T)
    <3>1. (x = a \/ x = z) /\ x <= a /\ (y = a \/ y = z) /\ z <= y
      BY <2>1, <2>2, <2>3
    <3> HIDE DEF x, y
    <3>2. x = a /\ y = z
      BY <3>1
    <3> QED
      BY <3>2 DEF x, y
  <2> QED
    BY <2>4 DEF T
<1>7. doc.text = t /\ doc.full = FALSE /\ doc.edits = log /\ c.whole = FALSE /\ c.start = PositionAt(text, a) /\ c.end = PositionAt(text, z) /\ c.new = w
  OBVIOUS
<1>8. Changed(doc, c) = [doc EXCEPT !.text = Splice(t, a, z, w), !.edits = Append(@, EditOf(t, a, z, w))]
  <2> HIDE DEF doc, c
  <2>1. {OffsetAt(doc.text, c.start), OffsetAt(doc.text, c.end)} = {a, z}
    BY <1>4, <1>5, <1>7
  <2> QED
    BY <1>6, <1>7, <2>1 DEF Changed, EditOf
<1>9. Changed(doc, c) = [text |-> Splice(t, a, z, w), full |-> FALSE, edits |-> Append(log, EditOf(t, a, z, w))]
  BY <1>8
<1> QED
  BY <1>9

\* A client that reports the edits of a plan one after the other leaves the server with their text,
\* and the parser with their ranges.
LEMMA ServerHoldsPlan ==
  ASSUME NEW Byte, NEW text \in Seq(Byte), WellFormed(text), NEW S, Between(S, text, Byte),
         \A i \in 1 .. Len(S) : Clear(text, S[i].start) /\ Clear(text, S[i].end),
         NEW f, f[0] = text, \A k \in 1 .. Len(S) : f[k] = Splice(f[k - 1], S[k].start, S[k].end, S[k].new)
  PROVE  /\ StoreApply(text, Reported(text, S)).text = f[Len(S)]
         /\ \A i \in 1 .. Len(S) : LET e == StoreApply(text, Reported(text, S)).edits[i]
                                   IN e.start = S[i].start /\ e.oldEnd = S[i].end /\ e.points[2] = PointAt(text, S[i].end)
<1> DEFINE n == Len(S)
           C == Reported(text, S)
           R == [k \in 1 .. n |-> EditOf(f[k - 1], S[k].start, S[k].end, S[k].new)]
           V == {R[k] : k \in 1 .. n}
           Log(s, k) == s \in Seq(V) /\ Len(s) = k /\ \A i \in 1 .. k : s[i] = R[i]
           Doc(k, s) == [text |-> f[k], full |-> FALSE, edits |-> s]
<1>1. /\ n \in Nat /\ DOMAIN S = 1 .. n /\ text \in Seq(Byte)
      /\ \A i \in 1 .. n : S[i].start \in Nat /\ S[i].end \in Nat /\ S[i].start <= S[i].end /\ S[i].end <= Len(text)
  BY DEF Between, Stacked, EditsOf
<1>2. C = [i \in 1 .. n |-> [whole |-> FALSE, start |-> PositionAt(text, S[i].start), end |-> PositionAt(text, S[i].end), new |-> S[i].new]]
  BY <1>1 DEF Reported
<1> HIDE DEF C
<1>3. \A k \in 1 .. n : Keeps(f[k - 1], text, S[k].end, Byte)
  BY EditsFindRunes
<1>4. Len(C) = n /\ DOMAIN C = 1 .. n
  <2> HIDE DEF n
  <2> QED
    BY <1>1, <1>2
<1>5. PICK h : /\ h[0] = NewDoc(text) /\ \A k \in 1 .. n : h[k] = Changed(h[k - 1], C[k])
               /\ h[n] = StoreApply(text, C)
  <2> HIDE DEF n
  <2> QED
    BY <1>1, <1>4, StoreApplied
<1> DEFINE P(k) == \E s : h[k] = Doc(k, s) /\ Log(s, k)
           T == {k \in 0 .. n : P(k)}
<1>6. P(0)
  <2>1. h[0] = Doc(0, <<>>)
    BY <1>5 DEF NewDoc
  <2>2. Log(<<>>, 0)
    OBVIOUS
  <2> QED
    BY <2>1, <2>2
<1>7. ASSUME NEW k \in 1 .. n, P(k - 1) PROVE P(k)
  <2>1. PICK s : h[k - 1] = Doc(k - 1, s) /\ Log(s, k - 1)
    BY <1>7
  <2> DEFINE a == S[k].start
             z == S[k].end
             w == S[k].new
             t == f[k - 1]
  <2>2. /\ a \in Nat /\ z \in Nat /\ a <= z /\ z <= Len(text) /\ Clear(text, a) /\ Clear(text, z) /\ Keeps(t, text, z, Byte)
        /\ f[k] = Splice(t, a, z, w) /\ R[k] = EditOf(t, a, z, w)
        /\ h[k - 1] = [text |-> t, full |-> FALSE, edits |-> s]
        /\ C[k] = [whole |-> FALSE, start |-> PositionAt(text, a), end |-> PositionAt(text, z), new |-> w]
        /\ h[k] = Changed(h[k - 1], C[k])
    BY <1>1, <1>2, <1>3, <1>5, <2>1
  <2>3. R[k] \in V
    OBVIOUS
  <2>4. k \in Nat /\ k - 1 \in Nat /\ \A i \in 1 .. k : i \in 1 .. (k - 1) \/ i = k
    BY <1>1
  <2> HIDE DEF a, z, w, t, R, V, n
  <2>5. h[k] = Doc(k, Append(s, R[k]))
    BY <2>2, ReportedChange
  <2>6. Log(Append(s, R[k]), k)
    <3>1. s \in Seq(V) /\ Len(s) = k - 1 /\ \A i \in 1 .. (k - 1) : s[i] = R[i]
      BY <2>1
    <3>2. /\ Append(s, R[k]) \in Seq(V) /\ Len(Append(s, R[k])) = Len(s) + 1 /\ Append(s, R[k])[Len(s) + 1] = R[k]
          /\ \A i \in 1 .. Len(s) : Append(s, R[k])[i] = s[i]
      BY <2>3, <3>1
    <3> QED
      BY <2>4, <3>1, <3>2
  <2> QED
    BY <2>5, <2>6
<1> HIDE DEF P
<1>8. \A k : k \in T <=> k \in 0 .. n /\ P(k)
  OBVIOUS
<1> HIDE DEF T
<1>9. 0 \in T /\ (\A k \in 1 .. n : k - 1 \in T => k \in T) /\ n \in 0 .. n
  <2>1. 0 \in 0 .. n /\ n \in 0 .. n /\ \A k \in 1 .. n : k - 1 \in 0 .. n /\ k \in 0 .. n
    BY <1>1
  <2> QED
    BY <1>6, <1>7, <1>8, <2>1
<1>10. n \in T
  BY <1>1, <1>9, CountUp
<1>11. P(n)
  BY <1>8, <1>10
<1>12. PICK s : h[n] = Doc(n, s) /\ Log(s, n)
  BY <1>11 DEF P
<1>13. StoreApply(text, C).text = f[n] /\ StoreApply(text, C).edits = s
  BY <1>5, <1>12
<1>14. ASSUME NEW i \in 1 .. n
       PROVE  s[i].start = S[i].start /\ s[i].oldEnd = S[i].end /\ s[i].points[2] = PointAt(text, S[i].end)
  <2>1. s[i] = EditOf(f[i - 1], S[i].start, S[i].end, S[i].new)
    BY <1>12
  <2>2. s[i].start = S[i].start /\ s[i].oldEnd = S[i].end /\ s[i].points[2] = PointAt(f[i - 1], S[i].end)
    BY <2>1 DEF EditOf
  <2> DEFINE t == f[i - 1]
             z == S[i].end
  <2>3. /\ t \in Seq(Byte) /\ z \in Nat /\ z <= Len(t) /\ z <= Len(text) /\ \A b \in 1 .. z : t[b] = text[b]
    BY <1>1, <1>3 DEF Keeps
  <2> HIDE DEF t, z
  <2>4. PointAt(t, z) = PointAt(text, z)
    BY <2>3, SamePoint
  <2> QED
    BY <2>2, <2>4 DEF t, z
<1> QED
  BY <1>13, <1>14 DEF C

\* A sequence in two parts.
LEMMA TwoParts ==
  ASSUME NEW X, NEW s \in Seq(X), NEW h \in 0 .. Len(s)
  PROVE  /\ SubSeq(s, 1, h) \in Seq(X) /\ Len(SubSeq(s, 1, h)) = h
         /\ SubSeq(s, h + 1, Len(s)) \in Seq(X) /\ SubSeq(s, 1, h) \o SubSeq(s, h + 1, Len(s)) = s
<1> DEFINE n == Len(s)
           a == SubSeq(s, 1, h)
           b == SubSeq(s, h + 1, n)
<1>1. a \in Seq(X) /\ Len(a) = h /\ \A i \in 1 .. h : a[i] = s[i]
  OBVIOUS
<1>2. b \in Seq(X) /\ Len(b) = n - h /\ \A i \in 1 .. n - h : b[i] = s[h + i]
  OBVIOUS
<1>3. n \in Nat /\ h \in Nat /\ h <= n
  OBVIOUS
<1> HIDE DEF a, b
<1> DEFINE c == a \o b
<1>4. c \in Seq(X) /\ Len(c) = Len(a) + Len(b) /\ \A i \in 1 .. Len(a) : c[i] = a[i]
  <2>1. a \in Seq(X) /\ b \in Seq(X)
    BY <1>1, <1>2
  <2>2. c \in Seq(X) /\ Len(c) = Len(a) + Len(b)
    BY <2>1
  <2>3. \A i \in 1 .. Len(a) : c[i] = a[i]
    BY <2>1
  <2> QED
    BY <2>2, <2>3
<1>5. \A i \in 1 .. Len(b) : c[Len(a) + i] = b[i]
  <2>1. a \in Seq(X) /\ b \in Seq(X)
    BY <1>1, <1>2
  <2> QED
    BY <2>1
<1> HIDE DEF c
<1>6. Len(c) = n
  BY <1>1, <1>2, <1>3, <1>4
<1>7. ASSUME NEW i \in 1 .. n PROVE c[i] = s[i]
  <2>1. CASE i <= h
    <3>1. i \in 1 .. h
      BY <2>1, <1>3
    <3> QED
      BY <1>1, <1>4, <3>1
  <2>2. CASE i > h
    <3>1. i - h \in 1 .. n - h /\ h + (i - h) = i
      BY <2>2, <1>3
    <3> QED
      BY <1>1, <1>2, <1>5, <3>1
  <2> QED
    BY <1>3, <2>1, <2>2
<1>8. c = s
  BY <1>4, <1>6, <1>7, SeqEqual
<1> QED
  BY <1>1, <1>2, <1>8 DEF a, b, c

\* The two wire forms of edits make one list.
OneDocument(uri, edits) == [u \in {uri} |-> edits]
SecondForm(None, uri, edits) == <<[uri |-> None, edits |-> <<>>], [uri |-> uri, edits |-> edits]>>

\* Whatever part of the edits comes in the first form.
LEMMA WireFormsFold ==
  ASSUME NEW None, NEW uri, uri # None, NEW early, NEW rest, NEW all, early \o rest = all, rest = <<>> => early = all
  PROVE  Folded(OneDocument(uri, early), SecondForm(None, uri, rest), None) = OneDocument(uri, all)
<1> DEFINE entries == <<[uri |-> None, edits |-> <<>>], [uri |-> uri, edits |-> rest]>>
           before  == [u \in {uri} |-> early]
           after   == [u \in {uri} |-> all]
           step(v, k) == IF entries[k].uri = None \/ entries[k].edits = <<>> THEN v
                         ELSE [v EXCEPT ![entries[k].uri] = @ \o entries[k].edits]
           is(g) == g = [s \in SUBSET (1 .. 2) |-> IF s = {} THEN before ELSE step(g[s \ {Max(s)}], Max(s))]
<1>1. DOMAIN entries = 1 .. 2
  OBVIOUS
<1>2. Folded(before, entries, None) = (CHOOSE g : is(g))[1 .. 2]
  BY <1>1 DEF Folded, FoldLeft, MapThenFoldSet
<1>3. \A v : step(v, 1) = v
  OBVIOUS
<1>4. step(before, 2) = after
  <2>1. entries[2].uri = uri /\ entries[2].edits = rest
    OBVIOUS
  <2>2. CASE rest = <<>>
    BY <2>1, <2>2
  <2>3. CASE rest # <<>>
    <3>1. step(before, 2) = [before EXCEPT ![uri] = @ \o rest]
      BY <2>1, <2>3
    <3>2. [before EXCEPT ![uri] = @ \o rest] = [u \in {uri} |-> early \o rest]
      OBVIOUS
    <3> QED
      BY <3>1, <3>2
  <2> QED
    BY <2>2, <2>3
<1> HIDE DEF entries, before, after, step
<1>5. ASSUME NEW s \in SUBSET (1 .. 2), s # {}
      PROVE  /\ Max(s) \in 1 .. 2 /\ s \ {Max(s)} \in SUBSET (1 .. 2) /\ (2 \in s => Max(s) = 2)
             /\ (2 \notin s => Max(s) = 1 /\ s \ {Max(s)} = {}) /\ 2 \notin s \ {Max(s)}
  <2>1. 2 \in Nat /\ Max(s) \in s /\ Max(s) \in 1 .. 2 /\ s \ {Max(s)} \in SUBSET (1 .. 2) /\ (2 \in s => Max(s) = 2)
    BY <1>5, LastOfThese
  <2>2. 2 \notin s => s = {1} /\ Max(s) = 1
    BY <1>5, <2>1
  <2> QED
    BY <2>1, <2>2
<1>6. \E g : is(g)
  <2> DEFINE g == [s \in SUBSET (1 .. 2) |-> IF 2 \in s THEN after ELSE before]
  <2>1. ASSUME NEW s \in SUBSET (1 .. 2) PROVE g[s] = IF s = {} THEN before ELSE step(g[s \ {Max(s)}], Max(s))
    <3>1. CASE s = {}
      BY <3>1
    <3>2. CASE s # {}
      <4>1. g[s \ {Max(s)}] = before
        BY <1>5, <3>2
      <4> QED
        BY <1>3, <1>4, <1>5, <3>2, <4>1
    <3> QED
      BY <3>1, <3>2
  <2>2. g = [s \in SUBSET (1 .. 2) |-> g[s]]
    OBVIOUS
  <2> HIDE DEF g
  <2>3. is(g)
    BY <2>1, <2>2
  <2> QED
    BY <2>3
<1> DEFINE g == CHOOSE x : is(x)
<1>7. is(g)
  BY <1>6
<1>8. \A s \in SUBSET (1 .. 2) : g[s] = IF s = {} THEN before ELSE step(g[s \ {Max(s)}], Max(s))
  BY <1>7
<1> HIDE DEF g
<1>9. g[1 .. 2] = after
  <2>1. 1 .. 2 \in SUBSET (1 .. 2) /\ 1 .. 2 # {} /\ 2 \in 1 .. 2 /\ (1 .. 2) \ {2} = {1} /\ {1} \in SUBSET (1 .. 2) /\ {1} # {}
        /\ {} \in SUBSET (1 .. 2) /\ 2 \notin {1}
    OBVIOUS
  <2>2. Max(1 .. 2) = 2 /\ Max({1}) = 1 /\ {1} \ {Max({1})} = {}
    BY <1>5, <2>1
  <2>3. g[{}] = before
    BY <1>8, <2>1
  <2>4. g[{1}] = before
    BY <1>3, <1>8, <2>1, <2>2, <2>3
  <2>5. g[1 .. 2] = step(g[(1 .. 2) \ {2}], 2)
    BY <1>8, <2>1, <2>2
  <2> QED
    BY <1>4, <2>1, <2>4, <2>5
<1> QED
  BY <1>2, <1>9 DEF g, entries, before, after, OneDocument, SecondForm

\* Edits are resolved between runes, and never behind a carriage return.
LEMMA ResolvedClear ==
  ASSUME NEW Byte, NEW text \in Seq(Byte), WellFormed(text), NEW textEdits \in Seq(TextEdit(Byte)), Legal(Resolved(text, textEdits)),
         NEW i \in 1 .. Len(textEdits)
  PROVE  LET e == Resolved(text, textEdits)[i]
         IN /\ Boundary(text, e.start) /\ Boundary(text, e.end) /\ e.new = textEdits[i].new
            /\ WholeLineEnds(text) => Clear(text, e.start) /\ Clear(text, e.end)
<1> DEFINE p == textEdits[i].start
           q == textEdits[i].end
           E == Resolved(text, textEdits)
           Pos == [line : Int, char : Int]
<1>1. DOMAIN textEdits = 1 .. Len(textEdits) /\ textEdits[i] \in TextEdit(Byte)
  OBVIOUS
<1>2. p \in Pos /\ q \in Pos
  <2> DEFINE V == Seq(Byte)
             e == textEdits[i]
  <2>1. e \in [start : Pos, end : Pos, new : V]
    BY <1>1 DEF TextEdit
  <2> HIDE DEF V, Pos, e
  <2>2. e.start \in Pos /\ e.end \in Pos
    BY <2>1
  <2> QED
    BY <2>2 DEF e
<1>3. E[i] = [start |-> ByteOffset(text, p), end |-> ByteOffset(text, q), new |-> textEdits[i].new] /\ i \in DOMAIN E
  BY <1>1 DEF Resolved
<1>4. ByteOffset(text, p) # NoOffset /\ ByteOffset(text, q) # NoOffset
  BY <1>3 DEF Legal
<1>5. Starts(text, LineStarts(text))
  <2>1. Len(text) \in Nat
    OBVIOUS
  <2> QED
    BY <2>1, LineStartsInOrder
<1> HIDE DEF E, p, q
<1>6. Boundary(text, ByteOffset(text, p)) /\ Boundary(text, ByteOffset(text, q))
  BY <1>2, <1>4, <1>5, OffsetsBetweenRunes
<1>7. ASSUME WholeLineEnds(text) PROVE Clear(text, ByteOffset(text, p)) /\ Clear(text, ByteOffset(text, q))
  <2>1. ASSUME NEW r \in Pos, ByteOffset(text, r) # NoOffset PROVE Clear(text, ByteOffset(text, r))
    <3> DEFINE o == ByteOffset(text, r)
    <3>1. o # NoOffset
      BY <2>1
    <3> HIDE DEF o
    <3>2. Boundary(text, o) /\ (o # 0 => text[o] # "r")
      BY <1>7, <3>1, NotBehindReturn DEF o
    <3> QED
      BY <3>2 DEF Clear, o
  <2> QED
    BY <1>2, <1>4, <2>1
<1>8. E[i].start = ByteOffset(text, p) /\ E[i].end = ByteOffset(text, q) /\ E[i].new = textEdits[i].new
  BY <1>3
<1> QED
  BY <1>6, <1>7, <1>8 DEF E

\* Whatever the text and the edits of it: a plan is refused exactly when two of them overlap, it is
\* applied as all of them at once, a client that reports them one after the other leaves the server
\* with the text that was written, and either wire form gives the same plan.
THEOREM EditsMakeOneText ==
  ASSUME NEW Byte, NEW text \in Seq(Byte), WellFormed(text), NEW textEdits \in Seq(TextEdit(Byte)),
         \A i \in 1 .. Len(textEdits) : WellFormed(textEdits[i].new)
  PROVE  EditsAgree(text, textEdits)
<1> DEFINE E     == Resolved(text, textEdits)
           n     == Len(textEdits)
           S     == SortDescending(E)
           plan  == FilePlan(text, textEdits)
           early == SubSeq(textEdits, 1, n \div 2)
           rest  == SubSeq(textEdits, Len(early) + 1, n)
           entries == <<[uri |-> "none", edits |-> <<>>], [uri |-> "doc", edits |-> rest]>>
<1>1. Folded([u \in {"doc"} |-> early], entries, "none") = [u \in {"doc"} |-> textEdits]
  <2> DEFINE h == n \div 2
  <2>1. h \in 0 .. n
    <3>1. n \in Nat
      OBVIOUS
    <3> HIDE DEF n
    <3> QED
      BY <3>1
  <2> HIDE DEF h
  <2>2. /\ SubSeq(textEdits, 1, h) \in Seq(TextEdit(Byte)) /\ Len(SubSeq(textEdits, 1, h)) = h
        /\ SubSeq(textEdits, 1, h) \o SubSeq(textEdits, h + 1, n) = textEdits
    BY <2>1, TwoParts
  <2>3. early \in Seq(TextEdit(Byte)) /\ early \o rest = textEdits
    BY <2>2 DEF h
  <2> HIDE DEF early, rest
  <2>4. rest = <<>> => early = textEdits
    <3>1. early \o <<>> = early
      BY <2>3, ConcatEmptySeq
    <3> QED
      BY <2>3, <3>1
  <2>5. "doc" # "none"
    OBVIOUS
  <2>6. Folded(OneDocument("doc", early), SecondForm("none", "doc", rest), "none") = OneDocument("doc", textEdits)
    BY <2>3, <2>4, <2>5, WireFormsFold
  <2> QED
    BY <2>6 DEF OneDocument, SecondForm
<1>2. ASSUME Legal(E) PROVE PlanExact(text, E, plan)
  BY <1>2, PlanIsExact
<1>3. ASSUME Legal(E), plan.ok, WholeLineEnds(text)
      PROVE  ServerFollows(text, plan.edits, StoreApply(text, Reported(text, plan.edits)))
  <2>1. EditsOf(E, Len(text), Byte) /\ Len(E) = n
    BY <1>3, ResolvedInText
  <2>2. plan = IF NonOverlapping(S) THEN FileEdit(S) ELSE Refused
    BY <1>3 DEF FilePlan
  <2>3. NonOverlapping(S) /\ plan.edits = S
    BY <1>3, <2>2 DEF FileEdit, Refused
  <2>4. PICK p : Orders(p, S, E)
    BY <2>1, PlanInOrder
  <2>5. Stacked(S, Len(text), Byte) /\ Len(S) = n
    <3> HIDE DEF S, E
    <3> QED
      BY <2>1, <2>3, <2>4, PlanStacked, SortedInText
  <2>6. ASSUME NEW k \in 1 .. Len(S)
        PROVE  /\ WellFormed(S[k].new) /\ Boundary(text, S[k].start) /\ Boundary(text, S[k].end)
               /\ Clear(text, S[k].start) /\ Clear(text, S[k].end)
    <3> HIDE DEF S, E
    <3>1. S[k] = E[p[k]] /\ p[k] \in 1 .. n
      BY <2>1, <2>4, <2>5 DEF Orders
    <3> DEFINE i == p[k]
    <3>2. i \in 1 .. n /\ S[k] = E[i]
      BY <3>1
    <3> HIDE DEF i
    <3>3. /\ Boundary(text, E[i].start) /\ Boundary(text, E[i].end) /\ E[i].new = textEdits[i].new
          /\ Clear(text, E[i].start) /\ Clear(text, E[i].end)
      BY <1>3, <3>2, ResolvedClear DEF E
    <3> QED
      BY <3>2, <3>3
  <2> HIDE DEF S, E
  <2>7. Between(S, text, Byte)
    BY <2>5, <2>6 DEF Between
  <2> DEFINE out == FoldLeft(LAMBDA o, e : Splice(o, e.start, e.end, e.new), text, S)
  <2>8. PICK f : /\ f[0] = text /\ \A k \in 1 .. Len(S) : f[k] = Splice(f[k - 1], S[k].start, S[k].end, S[k].new)
                 /\ f[Len(S)] = out
    BY <2>5, AppliedOneByOne
  <2>9. PlanApply(text, S).text = out
    <3>1. PlanApply(text, S) = [ok |-> TRUE, text |-> out]
      BY <2>5, PlanIsApplied
    <3> HIDE DEF out
    <3> QED
      BY <3>1
  <2> HIDE DEF out
  <2> DEFINE server == StoreApply(text, Reported(text, S))
  <2>10. /\ server.text = f[Len(S)]
         /\ \A i \in 1 .. Len(S) : LET e == server.edits[i]
                                   IN e.start = S[i].start /\ e.oldEnd = S[i].end /\ e.points[2] = PointAt(text, S[i].end)
    BY <2>6, <2>7, <2>8, ServerHoldsPlan
  <2> HIDE DEF server
  <2>11. DOMAIN S = 1 .. Len(S)
    BY <2>5 DEF Stacked, EditsOf
  <2>12. ServerFollows(text, S, server)
    BY <2>8, <2>9, <2>10, <2>11 DEF ServerFollows
  <2> QED
    BY <2>3, <2>12 DEF server
<1> QED
  BY <1>1, <1>2, <1>3 DEF EditsAgree

=============================================================================
