------------------------------ MODULE ConnProofs ------------------------------
(* Theorems about Conn, for any calls, notifications and capacity of the   *)
(* pipes: its invariants and action properties, and that it implements     *)
(* Rpc.                                                                    *)
EXTENDS Conn, TLAPS

-----------------------------------------------------------------------------
(* What is on a wire.                                                      *)

Has(s, f) == \E i \in 1 .. Len(s) : s[i] = f

\* Every g is preceded by an f.
Precedes(s, f, g) == \A i \in 1 .. Len(s) : s[i] = g => \E j \in 1 .. i - 1 : s[j] = f

\* Of these kinds a frame about one call or notification is sent once.
Single == {"request", "note"} \cup Answers

Distinct(s) ==
  \A i, j \in 1 .. Len(s) : s[i] = s[j] /\ s[i].kind \in Single => i = j

\* A frame goes to the end that serves or awaits what it is about.
Addressed(f, e) ==
  /\ f.kind \in Answers => From[f.of] = e
  /\ f.kind \in {"request", "cancel", "note"} => To(f.of) = e

-----------------------------------------------------------------------------
(* The inductive invariant, in named parts.                                *)

WireInv ==
  \A e \in Ends :
    /\ Distinct(wire[e])
    /\ \A f \in Frames : Has(wire[e], f) => Addressed(f, e)
    /\ lpc[e] = "deliver" => frame[e].kind \in Answers /\ frame[e].of \in Calls /\ From[frame[e].of] = e
    /\ lpc[e] = "echo" => frame[e].kind = "note" /\ frame[e].of \in Notes

\* The response to c has been read and looked up, and is about to be sent on its channel.
InHand(c) == lpc[From[c]] = "deliver" /\ frame[From[c]].of = c

\* The request of a call is sent, read and served once.
RequestInv(c) ==
  /\ Has(wire[To(c)], F("request", c)) => hpc[c] = "none" /\ cpc[c] \notin {"idle", "write"}
  /\ hpc[c] # "none" => cpc[c] \notin {"idle", "write"}
  /\ cpc[c] = "wait" \/ result[c] = "withdrawn" =>
       hpc[c] # "none" \/ Has(wire[To(c)], F("request", c))
  /\ c \in inflight <=> hpc[c] \in {"run", "reply", "release"}
  /\ hpc[c] = "reply" => reply[c] \in Answers

\* Its response is in one place: on the wire, in hand, in the channel, or gone.
AnswerInv(c) ==
  /\ \A k \in Answers : Has(wire[From[c]], F(k, c)) =>
       hpc[c] \in {"release", "done"} /\ k = reply[c] /\ ~InHand(c) /\ box[c] = "none"
  /\ InHand(c) => hpc[c] \in {"release", "done"} /\ frame[From[c]].kind = reply[c] /\ box[c] = "none"
  /\ box[c] # "none" => hpc[c] \in {"release", "done"} /\ box[c] = reply[c]

\* Nothing about a cancellation exists before its caller has withdrawn, and then the
\* request went out before it.
CancelInv(c) ==
  /\ cpc[c] \in {"idle", "write", "wait"} => result[c] = "none"
  /\ kpc[c] = "write" \/ hcancel[c] \/ Has(wire[To(c)], F("cancel", c)) \/ reply[c] = "cancelled" =>
       result[c] = "withdrawn"
  /\ hpc[c] = "none" => Precedes(wire[To(c)], F("request", c), F("cancel", c))
  /\ result[c] # "cancelled"

CallInv == \A c \in Calls : RequestInv(c) /\ AnswerInv(c) /\ CancelInv(c)

\* How many of the notifications written to e it has begun to handle.
Taken(e) == Len(seen[e]) + (IF lpc[e] = "echo" THEN 1 ELSE 0)

\* The notifications of q after the first m are on the wire w, in the order of q, and
\* no others.
InOrder(w, q, m) ==
  /\ \A i \in 1 .. Len(w) : w[i].kind = "note" => \E k \in 1 .. Len(q) : k > m /\ w[i] = F("note", q[k])
  /\ \A k \in 1 .. Len(q) : k > m => Has(w, F("note", q[k]))
  /\ \A i, j \in 1 .. Len(w), k, l \in 1 .. Len(q) :
       i < j /\ w[i] = F("note", q[k]) /\ w[j] = F("note", q[l]) => k < l

Once(q) == \A k, l \in 1 .. Len(q) : q[k] = q[l] => k = l

\* They are on the wire in the order they were written; those before them have been
\* handled, but for the one in hand.
NoteInv(e) ==
  /\ \A k \in 1 .. Len(written[e]) : npc[written[e][k]] = "done" /\ To(written[e][k]) = e
  /\ Once(written[e])
  /\ \A k \in 1 .. Len(seen[e]) : seen[e][k] = written[e][k]
  /\ Taken(e) <= Len(written[e])
  /\ lpc[e] = "echo" => frame[e].of = written[e][Len(seen[e]) + 1]
  /\ InOrder(wire[e], written[e], Taken(e))

\* The request of c, where it is on w, is behind the first b notifications of q.
Behind(w, q, c, b) ==
  \A i, j \in 1 .. Len(w), k \in 1 .. Len(q) :
    i < j /\ w[i] = F("request", c) /\ w[j] = F("note", q[k]) => b < k

\* A request on the wire is behind the notifications written before it.
BeforeInv(c) ==
  /\ before[c] <= Len(written[To(c)])
  /\ hpc[c] # "none" => before[c] <= Len(seen[To(c)])
  /\ Behind(wire[To(c)], written[To(c)], c, before[c])

OrderInv == (\A e \in Ends : NoteInv(e)) /\ \A c \in Calls : BeforeInv(c)

IInv == TypeOK /\ WireInv /\ CallInv /\ OrderInv

-----------------------------------------------------------------------------
(* Lemmas about sequences.                                                 *)

\* Appending adds the last element and moves nothing.
LEMMA AppendHas ==
  ASSUME NEW S, NEW s \in Seq(S), NEW f \in S
  PROVE  /\ \A g : Has(Append(s, f), g) <=> Has(s, g) \/ g = f
         /\ Distinct(s) /\ (f.kind \in Single => ~Has(s, f)) => Distinct(Append(s, f))
         /\ \A g, h : Precedes(s, g, h) /\ (f = h => Has(s, g)) => Precedes(Append(s, f), g, h)
<1> DEFINE t == Append(s, f)
<1>1. /\ Len(t) = Len(s) + 1 /\ Len(s) \in Nat /\ t[Len(s) + 1] = f
      /\ \A i \in 1 .. Len(s) : t[i] = s[i]
  OBVIOUS
<1>2. \A i \in 1 .. Len(t) : i \in 1 .. Len(s) \/ i = Len(s) + 1
  BY <1>1
<1> HIDE DEF t
<1>3. ASSUME NEW g PROVE Has(t, g) <=> Has(s, g) \/ g = f
  BY <1>1, <1>2 DEF Has
<1>4. ASSUME Distinct(s), f.kind \in Single => ~Has(s, f) PROVE Distinct(t)
  BY <1>1, <1>2, <1>4 DEF Distinct, Has
<1>5. ASSUME NEW g, NEW h, Precedes(s, g, h), f = h => Has(s, g) PROVE Precedes(t, g, h)
  <2> SUFFICES ASSUME NEW i \in 1 .. Len(t), t[i] = h PROVE \E j \in 1 .. i - 1 : t[j] = g
    BY DEF Precedes
  <2>1. CASE i \in 1 .. Len(s)
    BY <1>1, <1>5, <2>1 DEF Precedes
  <2>2. CASE i = Len(s) + 1
    BY <1>1, <1>5, <2>2 DEF Has
  <2> QED
    BY <1>2, <2>1, <2>2
<1> QED
  BY <1>3, <1>4, <1>5 DEF t

\* Taking the head moves the rest up.
LEMMA TailHas ==
  ASSUME NEW S, NEW s \in Seq(S), s # <<>>
  PROVE  /\ Has(s, Head(s)) /\ Head(s) \in S
         /\ \A g : Has(Tail(s), g) => Has(s, g)
         /\ \A g : Has(s, g) /\ g # Head(s) => Has(Tail(s), g)
         /\ Distinct(s) => Distinct(Tail(s)) /\ (Head(s).kind \in Single => ~Has(Tail(s), Head(s)))
         /\ \A g, h : Precedes(s, g, h) => Head(s) # h /\ (Head(s) # g => Precedes(Tail(s), g, h))
<1> DEFINE t == Tail(s)
<1>1. /\ Len(t) = Len(s) - 1 /\ Len(s) \in Nat \ {0} /\ Head(s) = s[1] /\ s[1] \in S
      /\ \A i \in 1 .. Len(t) : t[i] = s[i + 1] /\ i + 1 \in 1 .. Len(s) /\ i # i + 1
  OBVIOUS
<1> HIDE DEF t
<1>2. \A i \in 1 .. Len(s) : i = 1 \/ (i - 1 \in 1 .. Len(t) /\ s[i] = t[i - 1])
  <2> TAKE i \in 1 .. Len(s)
  <2>1. i # 1 => i - 1 \in 1 .. Len(t) /\ (i - 1) + 1 = i
    BY <1>1
  <2> QED
    BY <1>1, <2>1
<1>3. Has(s, Head(s)) /\ Head(s) \in S
  BY <1>1 DEF Has
<1>4. ASSUME NEW g PROVE (Has(t, g) => Has(s, g)) /\ (Has(s, g) /\ g # Head(s) => Has(t, g))
  <2>1. Has(t, g) => Has(s, g)
    BY <1>1 DEF Has
  <2>2. Has(s, g) /\ g # Head(s) => Has(t, g)
    BY <1>1, <1>2 DEF Has
  <2> QED
    BY <2>1, <2>2
<1>5. ASSUME Distinct(s) PROVE Distinct(t) /\ (Head(s).kind \in Single => ~Has(t, Head(s)))
  <2>1. Distinct(t)
    <3> SUFFICES ASSUME NEW i \in 1 .. Len(t), NEW j \in 1 .. Len(t), t[i] = t[j], t[i].kind \in Single
                 PROVE  i = j
      BY DEF Distinct
    <3>1. i + 1 = j + 1
      BY <1>1, <1>5 DEF Distinct
    <3> QED
      BY <3>1
  <2>2. ASSUME Head(s).kind \in Single, Has(t, Head(s)) PROVE FALSE
    <3>1. PICK i \in 1 .. Len(t) : t[i] = Head(s)
      BY <2>2 DEF Has
    <3>2. i + 1 = 1
      BY <1>1, <1>5, <2>2, <3>1 DEF Distinct
    <3> QED
      BY <3>2
  <2> QED
    BY <2>1, <2>2
<1>6. ASSUME NEW g, NEW h, Precedes(s, g, h)
      PROVE  Head(s) # h /\ (Head(s) # g => Precedes(t, g, h))
  <2>1. Head(s) # h
    BY <1>1, <1>6 DEF Precedes
  <2>2. ASSUME Head(s) # g, NEW i \in 1 .. Len(t), t[i] = h PROVE \E j \in 1 .. i - 1 : t[j] = g
    <3>1. PICK j \in 1 .. i : s[j] = g
      BY <1>1, <1>6, <2>2 DEF Precedes
    <3>2. j - 1 \in 1 .. i - 1 /\ t[j - 1] = g
      BY <1>1, <1>2, <2>2, <3>1
    <3> QED
      BY <3>2
  <2> QED
    BY <2>1, <2>2 DEF Precedes
<1> QED
  BY <1>3, <1>4, <1>5, <1>6 DEF t

-----------------------------------------------------------------------------
(* Lemmas about frames and ends.                                           *)

\* There are two ends, and a frame goes from one to the other.
LEMMA TwoEnds ==
  /\ \A e \in Ends : Other(e) \in Ends /\ Other(e) # e /\ Other(Other(e)) = e
  /\ \A e, d \in Ends : d = e \/ d = Other(e)
  /\ \A x \in Calls \cup Notes : From[x] \in Ends /\ To(x) \in Ends /\ To(x) = Other(From[x]) /\ To(x) # From[x]
BY ConnAssumption DEF ConnAssumption, Ends, Other, To

\* A frame is made of its kind and of what it is about.
LEMMA FrameParts ==
  /\ \A k, x, l, y : F(k, x) = F(l, y) <=> k = l /\ x = y
  /\ \A k, x : F(k, x).kind = k /\ F(k, x).of = x
  /\ \A f \in Frames : f = F(f.kind, f.of)
  /\ \A f \in Frames : IF f.kind \in {"note", "echo"} THEN f.of \in Notes
                       ELSE f.of \in Calls /\ f.kind \in {"request", "cancel"} \cup Answers
  /\ \A c \in Calls, k \in {"request", "cancel"} \cup Answers : F(k, c) \in Frames
  /\ \A n \in Notes, k \in {"note", "echo"} : F(k, n) \in Frames
<1>1. \A k, x, l, y : F(k, x) = F(l, y) <=> k = l /\ x = y
  BY DEF F
<1>2. \A k, x : F(k, x).kind = k /\ F(k, x).of = x
  BY DEF F
<1>3. \A f \in Frames : f = F(f.kind, f.of)
  BY DEF F, Frames
<1>4. \A f \in Frames : IF f.kind \in {"note", "echo"} THEN f.of \in Notes
                       ELSE f.of \in Calls /\ f.kind \in {"request", "cancel"} \cup Answers
  BY DEF Frames, Answers
<1>5. \A c \in Calls, k \in {"request", "cancel"} \cup Answers : F(k, c) \in Frames
  BY DEF F, Frames
<1>6. \A n \in Notes, k \in {"note", "echo"} : F(k, n) \in Frames
  BY DEF F, Frames
<1> QED
  BY <1>1, <1>2, <1>3, <1>4, <1>5, <1>6

-----------------------------------------------------------------------------
(* Lemmas about the notifications on a wire.                               *)

\* Where the elements are after an Append and after a Tail.
LEMMA AppendAt ==
  ASSUME NEW S, NEW s \in Seq(S), NEW f \in S
  PROVE  /\ Append(s, f) \in Seq(S) /\ Len(Append(s, f)) = Len(s) + 1 /\ Len(s) \in Nat
         /\ Append(s, f)[Len(s) + 1] = f
         /\ \A i \in 1 .. Len(s) : Append(s, f)[i] = s[i] /\ i < Len(s) + 1 /\ i \in 1 .. Len(Append(s, f))
         /\ \A i \in 1 .. Len(Append(s, f)) : i \in 1 .. Len(s) \/ i = Len(s) + 1
OBVIOUS

\* Where the elements are after a Tail.
LEMMA TailAt ==
  ASSUME NEW S, NEW s \in Seq(S), s # <<>>
  PROVE  /\ Tail(s) \in Seq(S) /\ Len(Tail(s)) = Len(s) - 1 /\ Len(s) \in Nat
         /\ 1 \in 1 .. Len(s) /\ Head(s) = s[1] /\ s[1] \in S
         /\ \A i \in 1 .. Len(Tail(s)) : Tail(s)[i] = s[i + 1] /\ i + 1 \in 1 .. Len(s) /\ 1 < i + 1
         /\ \A i \in 1 .. Len(s) : i = 1 \/ (1 < i /\ i - 1 \in 1 .. Len(Tail(s)) /\ Tail(s)[i - 1] = s[i])
<1>1. /\ Tail(s) \in Seq(S) /\ Len(Tail(s)) = Len(s) - 1 /\ Len(s) \in Nat
      /\ 1 \in 1 .. Len(s) /\ Head(s) = s[1] /\ s[1] \in S
      /\ \A i \in 1 .. Len(Tail(s)) : Tail(s)[i] = s[i + 1] /\ i + 1 \in 1 .. Len(s) /\ 1 < i + 1
  OBVIOUS
<1>2. ASSUME NEW i \in 1 .. Len(s), i # 1
      PROVE  1 < i /\ i - 1 \in 1 .. Len(Tail(s)) /\ Tail(s)[i - 1] = s[i]
  <2>1. 1 < i /\ i - 1 \in 1 .. Len(Tail(s)) /\ (i - 1) + 1 = i
    BY <1>1, <1>2
  <2> QED
    BY <1>1, <2>1
<1> QED
  BY <1>1, <1>2

\* A frame of another kind changes nothing about the notifications.
LEMMA PutOther ==
  ASSUME NEW w \in Seq(Frames), NEW q \in Seq(Notes), NEW m \in Nat,
         NEW f \in Frames, f.kind # "note", InOrder(w, q, m)
  PROVE  InOrder(Append(w, f), q, m)
<1> DEFINE v == Append(w, f)
<1>1. /\ Len(v) = Len(w) + 1 /\ Len(w) \in Nat /\ v[Len(w) + 1] = f
      /\ \A i \in 1 .. Len(w) : v[i] = w[i]
      /\ \A i \in 1 .. Len(v) : i \in 1 .. Len(w) \/ i = Len(w) + 1
  BY AppendAt
<1>2. \A x : f # F("note", x)
  BY FrameParts
<1>3. \A g : Has(v, g) <=> Has(w, g) \/ g = f
  BY AppendHas
<1> HIDE DEF v
<1>4. \A i \in 1 .. Len(v) : v[i].kind = "note" => i \in 1 .. Len(w)
  BY <1>1
<1>5. \A x : \A i \in 1 .. Len(v) : v[i] = F("note", x) => i \in 1 .. Len(w)
  BY <1>1, <1>2
<1>6. \A i \in 1 .. Len(v) : v[i].kind = "note" => \E k \in 1 .. Len(q) : k > m /\ v[i] = F("note", q[k])
  BY <1>1, <1>4 DEF InOrder
<1>7. \A k \in 1 .. Len(q) : k > m => Has(v, F("note", q[k]))
  BY <1>3 DEF InOrder
<1>8. \A i, j \in 1 .. Len(v), k, l \in 1 .. Len(q) :
       i < j /\ v[i] = F("note", q[k]) /\ v[j] = F("note", q[l]) => k < l
  BY <1>1, <1>5 DEF InOrder
<1>9. InOrder(v, q, m)
  BY <1>6, <1>7, <1>8 DEF InOrder
<1> QED
  BY <1>9 DEF v

\* Neither does taking one.
LEMMA GotOther ==
  ASSUME NEW w \in Seq(Frames), NEW q \in Seq(Notes), NEW m \in Nat,
         w # <<>>, Head(w).kind # "note", InOrder(w, q, m)
  PROVE  InOrder(Tail(w), q, m)
<1> DEFINE v == Tail(w)
<1>1. /\ Len(v) = Len(w) - 1 /\ Len(w) \in Nat
      /\ \A i \in 1 .. Len(v) : v[i] = w[i + 1] /\ i + 1 \in 1 .. Len(w)
  BY TailAt
<1>2. \A x : Head(w) # F("note", x)
  BY FrameParts
<1>3. \A g : Has(w, g) /\ g # Head(w) => Has(v, g)
  BY TailHas
<1> HIDE DEF v
<1>4. \A i \in 1 .. Len(v) : v[i].kind = "note" => \E k \in 1 .. Len(q) : k > m /\ v[i] = F("note", q[k])
  BY <1>1 DEF InOrder
<1>5. \A k \in 1 .. Len(q) : k > m => Has(v, F("note", q[k]))
  BY <1>2, <1>3 DEF InOrder
<1>6. \A i, j \in 1 .. Len(v) : i < j => i + 1 < j + 1
  BY <1>1
<1>7. ASSUME NEW i \in 1 .. Len(v), NEW j \in 1 .. Len(v), NEW k \in 1 .. Len(q), NEW l \in 1 .. Len(q),
             i < j, v[i] = F("note", q[k]), v[j] = F("note", q[l])
      PROVE  k < l
  <2>1. w[i + 1] = F("note", q[k]) /\ w[j + 1] = F("note", q[l]) /\ i + 1 < j + 1
    BY <1>1, <1>6, <1>7
  <2> QED
    BY <1>1, <2>1 DEF InOrder
<1>8. InOrder(v, q, m)
  BY <1>4, <1>5, <1>7 DEF InOrder
<1> QED
  BY <1>8 DEF v

\* A notification written to the wire is the last that was written, and the last on it.
LEMMA PutNote ==
  ASSUME NEW w \in Seq(Frames), NEW q \in Seq(Notes), NEW m \in Nat, m <= Len(q),
         NEW n \in Notes, \A k \in 1 .. Len(q) : q[k] # n, Once(q), InOrder(w, q, m)
  PROVE  InOrder(Append(w, F("note", n)), Append(q, n), m) /\ Once(Append(q, n))
<1> DEFINE f == F("note", n)
           v == Append(w, f)
           p == Append(q, n)
<1>0. f \in Frames /\ (\A x : f = F("note", x) <=> x = n) /\ \A x : F("note", x).kind = "note"
  BY FrameParts
<1>1. /\ Len(v) = Len(w) + 1 /\ Len(w) \in Nat /\ v[Len(w) + 1] = f
      /\ \A i \in 1 .. Len(w) : v[i] = w[i] /\ i < Len(w) + 1
      /\ \A i \in 1 .. Len(v) : i \in 1 .. Len(w) \/ i = Len(w) + 1
  BY <1>0, AppendAt
<1>2. /\ Len(p) = Len(q) + 1 /\ Len(q) \in Nat /\ p[Len(q) + 1] = n
      /\ \A k \in 1 .. Len(q) : p[k] = q[k] /\ k < Len(q) + 1 /\ k \in 1 .. Len(p)
      /\ \A k \in 1 .. Len(p) : k \in 1 .. Len(q) \/ k = Len(q) + 1
  BY AppendAt
<1>3. \A g : Has(v, g) <=> Has(w, g) \/ g = f
  BY <1>0, AppendHas
<1> HIDE DEF f, v, p
<1>4. \A k \in 1 .. Len(p) : p[k] = n <=> k = Len(q) + 1
  BY <1>2
<1>5. Once(p)
  BY <1>2, <1>4 DEF Once
<1>6. \A i \in 1 .. Len(w) : w[i] # f
  BY <1>0 DEF InOrder, f
<1>7. \A i \in 1 .. Len(v), k \in 1 .. Len(p) :
        v[i] = F("note", p[k]) => (i \in 1 .. Len(w) /\ k \in 1 .. Len(q)) \/ (i = Len(w) + 1 /\ k = Len(q) + 1)
  BY <1>0, <1>1, <1>2, <1>4, <1>6
<1>8. \A i \in 1 .. Len(v) : v[i].kind = "note" => \E k \in 1 .. Len(p) : k > m /\ v[i] = F("note", p[k])
  <2> SUFFICES ASSUME NEW i \in 1 .. Len(v), v[i].kind = "note"
               PROVE  \E k \in 1 .. Len(p) : k > m /\ v[i] = F("note", p[k])
    OBVIOUS
  <2>1. CASE i \in 1 .. Len(w)
    <3>1. PICK k \in 1 .. Len(q) : k > m /\ w[i] = F("note", q[k])
      BY <1>1, <2>1 DEF InOrder
    <3> QED
      BY <1>1, <1>2, <2>1, <3>1
  <2>2. CASE i = Len(w) + 1
    <3>1. Len(q) + 1 \in 1 .. Len(p) /\ Len(q) + 1 > m /\ v[i] = F("note", p[Len(q) + 1])
      BY <1>1, <1>2, <2>2 DEF f
    <3> QED
      BY <3>1
  <2> QED
    BY <1>1, <2>1, <2>2
<1>9. \A k \in 1 .. Len(p) : k > m => Has(v, F("note", p[k]))
  BY <1>2, <1>3 DEF InOrder, f
<1>10. \A i, j \in 1 .. Len(v), k, l \in 1 .. Len(p) :
        i < j /\ v[i] = F("note", p[k]) /\ v[j] = F("note", p[l]) => k < l
  <2> SUFFICES ASSUME NEW i \in 1 .. Len(v), NEW j \in 1 .. Len(v), NEW k \in 1 .. Len(p), NEW l \in 1 .. Len(p),
                      i < j, v[i] = F("note", p[k]), v[j] = F("note", p[l])
               PROVE  k < l
    OBVIOUS
  <2>1. i \in 1 .. Len(w) /\ k \in 1 .. Len(q)
    BY <1>1, <1>7
  <2>2. CASE j \in 1 .. Len(w) /\ l \in 1 .. Len(q)
    BY <1>1, <1>2, <2>1, <2>2 DEF InOrder
  <2>3. CASE l = Len(q) + 1
    BY <1>2, <2>1, <2>3
  <2> QED
    BY <1>7, <2>2, <2>3
<1>11. InOrder(v, p, m)
  BY <1>8, <1>9, <1>10 DEF InOrder
<1> QED
  BY <1>5, <1>11 DEF f, v, p

\* The first notification on the wire is the first not yet begun.
LEMMA GotNote ==
  ASSUME NEW w \in Seq(Frames), NEW q \in Seq(Notes), NEW m \in Nat,
         w # <<>>, Head(w).kind = "note", Once(q), Distinct(w), InOrder(w, q, m)
  PROVE  m < Len(q) /\ Head(w) = F("note", q[m + 1]) /\ InOrder(Tail(w), q, m + 1)
<1> DEFINE v == Tail(w)
<1>0. \A x, y : F("note", x) = F("note", y) <=> x = y
  BY FrameParts
<1>1. /\ Len(v) = Len(w) - 1 /\ Len(w) \in Nat /\ Len(q) \in Nat
      /\ 1 \in 1 .. Len(w) /\ Head(w) = w[1]
      /\ \A i \in 1 .. Len(v) : v[i] = w[i + 1] /\ i + 1 \in 1 .. Len(w) /\ 1 < i + 1
      /\ \A i \in 1 .. Len(w) : i = 1 \/ 1 < i
  BY TailAt
<1>2. \A g : Has(w, g) /\ g # Head(w) => Has(v, g)
  BY TailHas
<1> HIDE DEF v
<1>3. PICK k \in 1 .. Len(q) : k > m /\ w[1] = F("note", q[k])
  BY <1>1 DEF InOrder
<1>4. k = m + 1
  <2> SUFFICES ASSUME k > m + 1 PROVE FALSE
    BY <1>3
  <2>1. m + 1 \in 1 .. Len(q) /\ m + 1 > m /\ m + 1 # k
    BY <1>1, <1>3
  <2>2. PICK i \in 1 .. Len(w) : w[i] = F("note", q[m + 1])
    BY <2>1 DEF InOrder, Has
  <2>3. i # 1
    BY <1>0, <1>3, <2>1, <2>2 DEF Once
  <2>4. k < m + 1
    BY <1>1, <1>3, <2>1, <2>2, <2>3 DEF InOrder
  <2> QED
    BY <1>3, <2>4
<1>5. \A i \in 1 .. Len(v) : v[i].kind = "note" => \E l \in 1 .. Len(q) : l > m + 1 /\ v[i] = F("note", q[l])
  <2> SUFFICES ASSUME NEW i \in 1 .. Len(v), v[i].kind = "note"
               PROVE  \E l \in 1 .. Len(q) : l > m + 1 /\ v[i] = F("note", q[l])
    OBVIOUS
  <2>1. PICK l \in 1 .. Len(q) : l > m /\ w[i + 1] = F("note", q[l])
    BY <1>1 DEF InOrder
  <2>2. k < l
    BY <1>1, <1>3, <2>1 DEF InOrder
  <2> QED
    BY <1>1, <1>4, <2>1, <2>2
<1>6. \A l \in 1 .. Len(q) : l > m + 1 => Has(v, F("note", q[l]))
  <2> SUFFICES ASSUME NEW l \in 1 .. Len(q), l > m + 1 PROVE Has(v, F("note", q[l]))
    OBVIOUS
  <2>1. l > m /\ l # k
    BY <1>4
  <2>2. F("note", q[l]) # Head(w)
    BY <1>0, <1>1, <1>3, <2>1 DEF Once
  <2> QED
    BY <1>2, <2>1, <2>2 DEF InOrder
<1>7. \A i, j \in 1 .. Len(v) : i < j => i + 1 < j + 1
  BY <1>1
<1>8. \A i, j \in 1 .. Len(v), x, l \in 1 .. Len(q) :
       i < j /\ v[i] = F("note", q[x]) /\ v[j] = F("note", q[l]) => x < l
  <2> SUFFICES ASSUME NEW i \in 1 .. Len(v), NEW j \in 1 .. Len(v), NEW x \in 1 .. Len(q), NEW l \in 1 .. Len(q),
                      i < j, v[i] = F("note", q[x]), v[j] = F("note", q[l])
               PROVE  x < l
    OBVIOUS
  <2>1. /\ i + 1 \in 1 .. Len(w) /\ w[i + 1] = F("note", q[x])
        /\ j + 1 \in 1 .. Len(w) /\ w[j + 1] = F("note", q[l])
    BY <1>1
  <2>2. i + 1 < j + 1
    BY <1>7
  <2>3. \A a, b \in 1 .. Len(w), y, z \in 1 .. Len(q) :
          a < b /\ w[a] = F("note", q[y]) /\ w[b] = F("note", q[z]) => y < z
    BY DEF InOrder
  <2> QED
    BY <2>1, <2>2, <2>3
<1>9. InOrder(v, q, m + 1)
  BY <1>5, <1>6, <1>8 DEF InOrder
<1> QED
  BY <1>1, <1>3, <1>4, <1>9 DEF v

\* A request stays behind the notifications written before it, and is read after them.
LEMMA BehindStays ==
  ASSUME NEW w \in Seq(Frames), NEW q \in Seq(Notes), NEW c, NEW b \in Nat, Behind(w, q, c, b)
  PROVE  /\ \A f \in Frames : f.kind # "note" => Behind(Append(w, f), q, c, b)
         /\ w # <<>> => Behind(Tail(w), q, c, b)
<1>1. ASSUME NEW f \in Frames, f.kind # "note" PROVE Behind(Append(w, f), q, c, b)
  <2> DEFINE v == Append(w, f)
  <2>1. /\ Len(v) = Len(w) + 1 /\ Len(w) \in Nat /\ v[Len(w) + 1] = f
        /\ \A i \in 1 .. Len(w) : v[i] = w[i]
        /\ \A i \in 1 .. Len(v) : i \in 1 .. Len(w) \/ i = Len(w) + 1
    BY AppendAt
  <2>2. \A x : f # F("note", x)
    BY <1>1, FrameParts
  <2> HIDE DEF v
  <2>3. \A x : \A i, j \in 1 .. Len(v) : i < j /\ v[j] = F("note", x) => i \in 1 .. Len(w) /\ j \in 1 .. Len(w)
    BY <2>1, <2>2
  <2>4. Behind(v, q, c, b)
    BY <2>1, <2>3 DEF Behind
  <2> QED
    BY <2>4 DEF v
<1>2. ASSUME w # <<>> PROVE Behind(Tail(w), q, c, b)
  <2> DEFINE v == Tail(w)
  <2>1. /\ Len(v) = Len(w) - 1 /\ Len(w) \in Nat
        /\ \A i \in 1 .. Len(v) : v[i] = w[i + 1] /\ i + 1 \in 1 .. Len(w)
    BY <1>2, TailAt
  <2> HIDE DEF v
  <2>2. \A i, j \in 1 .. Len(v) : i < j => i + 1 < j + 1
    BY <2>1
  <2>3. Behind(v, q, c, b)
    BY <2>1, <2>2 DEF Behind
  <2> QED
    BY <2>3 DEF v
<1> QED
  BY <1>1, <1>2

\* It is behind them still when another notification is written.
LEMMA BehindNewNote ==
  ASSUME NEW w \in Seq(Frames), NEW q \in Seq(Notes), NEW c, NEW b \in Nat, Behind(w, q, c, b), b <= Len(q),
         NEW n \in Notes, \A k \in 1 .. Len(q) : q[k] # n, ~Has(w, F("note", n))
  PROVE  Behind(Append(w, F("note", n)), Append(q, n), c, b)
<1> DEFINE f == F("note", n)
           v == Append(w, f)
           p == Append(q, n)
<1>0. f \in Frames /\ \A x : f = F("note", x) <=> x = n
  BY FrameParts
<1>1. /\ Len(v) = Len(w) + 1 /\ Len(w) \in Nat /\ v[Len(w) + 1] = f
      /\ \A i \in 1 .. Len(w) : v[i] = w[i] /\ v[i] # f
      /\ \A i \in 1 .. Len(v) : i \in 1 .. Len(w) \/ i = Len(w) + 1
  BY <1>0, AppendAt DEF Has
<1>2. /\ Len(p) = Len(q) + 1 /\ Len(q) \in Nat /\ p[Len(q) + 1] = n
      /\ \A k \in 1 .. Len(q) : p[k] = q[k]
      /\ \A k \in 1 .. Len(p) : k \in 1 .. Len(q) \/ k = Len(q) + 1
  BY AppendAt
<1> HIDE DEF f, v, p
<1> SUFFICES ASSUME NEW i \in 1 .. Len(v), NEW j \in 1 .. Len(v), NEW k \in 1 .. Len(p),
                    i < j, v[i] = F("request", c), v[j] = F("note", p[k])
             PROVE  b < k
  BY DEF f, v, p, Behind
<1>3. CASE k \in 1 .. Len(q)
  <2>1. v[j] # f
    BY <1>0, <1>2, <1>3
  <2>2. i \in 1 .. Len(w) /\ j \in 1 .. Len(w)
    BY <1>1, <2>1
  <2> QED
    BY <1>1, <1>2, <1>3, <2>2 DEF Behind
<1>4. CASE k = Len(q) + 1
  BY <1>2, <1>4
<1> QED
  BY <1>2, <1>3, <1>4

\* When it comes to the head of the wire, none of them is left.
LEMMA ReadBehind ==
  ASSUME NEW w \in Seq(Frames), NEW q \in Seq(Notes), NEW c, NEW b \in Nat, Behind(w, q, c, b), b <= Len(q),
         NEW m \in Nat, InOrder(w, q, m), w # <<>>, Head(w) = F("request", c)
  PROVE  b <= m
<1> SUFFICES ASSUME b > m PROVE FALSE
  OBVIOUS
<1>1. b \in 1 .. Len(q)
  OBVIOUS
<1>2. PICK j \in 1 .. Len(w) : w[j] = F("note", q[b])
  BY <1>1 DEF InOrder, Has
<1>3. 1 \in 1 .. Len(w) /\ w[1] = F("request", c) /\ (j = 1 \/ 1 < j)
  BY TailAt
<1>4. j # 1
  BY <1>2, <1>3, FrameParts
<1>5. b < b
  BY <1>1, <1>2, <1>3, <1>4 DEF Behind
<1> QED
  BY <1>5

-----------------------------------------------------------------------------
(* What writing and reading a frame does to the wires.                     *)

WireType == wire \in [Ends -> Seq(Frames)] /\ \A e \in Ends : Len(wire[e]) <= Capacity

\* The frame f went on the wire to e.
Put(e, f) ==
  /\ WireType'
  /\ wire'[e] = Append(wire[e], f)
  /\ \A d \in Ends \ {e} : wire'[d] = wire[d]
  /\ \A g : Has(wire'[e], g) <=> Has(wire[e], g) \/ g = f
  /\ Distinct(wire[e]) /\ (f.kind \in Single => ~Has(wire[e], f)) => Distinct(wire'[e])
  /\ \A g, h : Precedes(wire[e], g, h) /\ (f = h => Has(wire[e], g)) => Precedes(wire'[e], g, h)

\* The frame f was taken from the wire to e.
Got(e, f) ==
  /\ WireType'
  /\ f \in Frames /\ f = Head(wire[e]) /\ f = F(f.kind, f.of)
  /\ wire[e] # <<>> /\ wire'[e] = Tail(wire[e])
  /\ \A d \in Ends \ {e} : wire'[d] = wire[d]
  /\ Has(wire[e], f)
  /\ \A g : Has(wire'[e], g) => Has(wire[e], g)
  /\ \A g : Has(wire[e], g) /\ g # f => Has(wire'[e], g)
  /\ Distinct(wire[e]) => Distinct(wire'[e]) /\ (f.kind \in Single => ~Has(wire'[e], f))
  /\ \A g, h : Precedes(wire[e], g, h) => f # h /\ (f # g => Precedes(wire'[e], g, h))

\* writeMessage puts its frame on the other end's wire or, when it fails, on none.
LEMMA WritePuts ==
  ASSUME TypeOK, NEW e \in Ends, NEW f \in Frames, Write(e, f)
  PROVE  Put(Other(e), f)
<1> DEFINE d == Other(e)
<1>1. /\ wire \in [Ends -> Seq(Frames)] /\ \A x \in Ends : Len(wire[x]) <= Capacity
      /\ d \in Ends /\ wire[d] \in Seq(Frames) /\ Len(wire[d]) < Capacity
      /\ wire' = [wire EXCEPT ![d] = Append(wire[d], f)]
  BY TwoEnds DEF Write, TypeOK
<1> HIDE DEF d
<1>2. /\ Append(wire[d], f) \in Seq(Frames) /\ Len(Append(wire[d], f)) <= Capacity
      /\ wire'[d] = Append(wire[d], f) /\ \A x \in Ends \ {d} : wire'[x] = wire[x]
      /\ wire' \in [Ends -> Seq(Frames)]
  BY <1>1, ConnAssumption DEF ConnAssumption
<1>3. WireType'
  BY <1>1, <1>2 DEF WireType
<1>4. Put(d, f)
  BY <1>1, <1>2, <1>3, AppendHas DEF Put
<1> QED
  BY <1>4 DEF d

\* A write that may fail.
LEMMA WriteOrFail ==
  ASSUME TypeOK, NEW e \in Ends, NEW f \in Frames, Write(e, f) \/ WriteFails(e)
  PROVE  WireType' /\ (Put(Other(e), f) \/ UNCHANGED wire)
<1>1. CASE Write(e, f)
  BY <1>1, WritePuts DEF Put
<1>2. CASE WriteFails(e)
  BY <1>2 DEF WriteFails, WireType, TypeOK
<1> QED
  BY <1>1, <1>2

\* Taking a frame removes the head of the wire.
LEMMA TakeGets ==
  ASSUME TypeOK, NEW e \in Ends, NEW kinds, Take(e, kinds)
  PROVE  Got(e, Head(wire[e])) /\ Head(wire[e]).kind \in kinds /\ lpc[e] = "read"
<1>1. /\ wire \in [Ends -> Seq(Frames)] /\ \A x \in Ends : Len(wire[x]) <= Capacity
      /\ wire[e] \in Seq(Frames) /\ wire[e] # <<>>
      /\ wire' = [wire EXCEPT ![e] = Tail(wire[e])]
  BY DEF Take, TypeOK
<1>2. /\ Tail(wire[e]) \in Seq(Frames) /\ Len(Tail(wire[e])) <= Capacity
      /\ wire'[e] = Tail(wire[e]) /\ \A x \in Ends \ {e} : wire'[x] = wire[x]
      /\ wire' \in [Ends -> Seq(Frames)]
  BY <1>1, ConnAssumption DEF ConnAssumption
<1>3. WireType'
  BY <1>1, <1>2 DEF WireType
<1>4. Head(wire[e]) \in Frames
  BY <1>1
<1>5. Got(e, Head(wire[e]))
  BY <1>1, <1>2, <1>3, <1>4, TailHas, FrameParts DEF Got
<1> QED
  BY <1>5 DEF Take

\* Each read of the loop takes a frame of its kind.
Reads(e, h) == Got(e, h) /\ h \in Frames /\ lpc[e] = "read"

\* What each read of the loop has taken.
LEMMA ReadGets ==
  ASSUME TypeOK, NEW e \in Ends
  PROVE  LET h == Head(wire[e])
         IN  /\ ReadResponse(e) => Reads(e, h) /\ h.kind \in Answers /\ h.of \in Calls
             /\ ReadRequest(e) => Reads(e, h) /\ h = F("request", h.of) /\ h.of \in Calls
             /\ ReadCancel(e) => Reads(e, h) /\ h = F("cancel", h.of) /\ h.of \in Calls
             /\ ReadNote(e) => Reads(e, h) /\ h = F("note", h.of) /\ h.of \in Notes
             /\ ReadEcho(e) => Reads(e, h) /\ h = F("echo", h.of) /\ h.of \in Notes
<1> DEFINE h == Head(wire[e])
<1> HIDE DEF h
<1>0. ASSUME NEW kinds, Take(e, kinds) PROVE Reads(e, h) /\ h.kind \in kinds
  BY <1>0, TakeGets DEF Got, Reads, h
<1>1. Reads(e, h) => /\ h = F(h.kind, h.of)
                     /\ IF h.kind \in {"note", "echo"} THEN h.of \in Notes ELSE h.of \in Calls
  BY FrameParts DEF Reads
<1>2. ReadResponse(e) => Reads(e, h) /\ h.kind \in Answers /\ h.of \in Calls
  <2>1. ReadResponse(e) => Reads(e, h) /\ h.kind \in Answers
    BY <1>0 DEF ReadResponse
  <2> QED
    BY <1>1, <2>1 DEF Answers
<1>3. ReadRequest(e) => Reads(e, h) /\ h = F("request", h.of) /\ h.of \in Calls
  <2>1. ReadRequest(e) => Reads(e, h) /\ h.kind \in {"request"}
    BY <1>0 DEF ReadRequest
  <2> QED
    BY <1>1, <2>1
<1>4. ReadCancel(e) => Reads(e, h) /\ h = F("cancel", h.of) /\ h.of \in Calls
  <2>1. ReadCancel(e) => Reads(e, h) /\ h.kind \in {"cancel"}
    BY <1>0 DEF ReadCancel
  <2> QED
    BY <1>1, <2>1
<1>5. ReadNote(e) => Reads(e, h) /\ h = F("note", h.of) /\ h.of \in Notes
  <2>1. ReadNote(e) => Reads(e, h) /\ h.kind \in {"note"}
    BY <1>0 DEF ReadNote
  <2> QED
    BY <1>1, <2>1
<1>6. ReadEcho(e) => Reads(e, h) /\ h = F("echo", h.of) /\ h.of \in Notes
  <2>1. ReadEcho(e) => Reads(e, h) /\ h.kind \in {"echo"}
    BY <1>0 DEF ReadEcho
  <2> QED
    BY <1>1, <2>1
<1> QED
  BY <1>2, <1>3, <1>4, <1>5, <1>6 DEF h

-----------------------------------------------------------------------------
(* Every step keeps the types.                                             *)

\* All of TypeOK but the wires.
RestType ==
  /\ closed \in [Ends -> BOOLEAN]
  /\ cause \in [Ends -> {"none"} \cup Causes]
  /\ \A e \in Ends : closed[e] <=> cause[e] # "none"
  /\ closing \in [Ends -> BOOLEAN]
  /\ cut \in [Ends -> BOOLEAN]
  /\ lpc \in [Ends -> {"read", "deliver", "echo", "over"}]
  /\ frame \in [Ends -> Frames \cup {NoFrame}]
  /\ cpc \in [Calls -> {"idle", "write", "wait", "unregister", "done"}]
  /\ pending \subseteq Calls
  /\ box \in [Calls -> {"none"} \cup Answers]
  /\ gaveUp \in [Calls -> BOOLEAN]
  /\ result \in [Calls -> {"none", "writeError", "withdrawn"} \cup Answers \cup Causes]
  /\ kpc \in [Calls -> {"none", "write", "done"}]
  /\ hpc \in [Calls -> {"none", "run", "reply", "release", "done"}]
  /\ inflight \subseteq Calls
  /\ hcancel \in [Calls -> BOOLEAN]
  /\ reply \in [Calls -> {"none"} \cup Answers]
  /\ npc \in [Notes -> {"idle", "done"}]
  /\ written \in [Ends -> Seq(Notes)]
  /\ seen \in [Ends -> Seq(Notes)]
  /\ before \in [Calls -> Nat]

\* The types, after the steps of a call.
LEMMA CallTypes ==
  ASSUME RestType, NEW c \in Calls,
         Register(c) \/ SendRequest(c) \/ ReturnAnswer(c) \/ ReturnWithdrawn(c) \/ ReturnClosed(c)
           \/ Unregister(c) \/ SendCancel(c) \/ GiveUp(c)
  PROVE  RestType'
<1>0. From[c] \in Ends /\ To(c) \in Ends
  BY TwoEnds
<1>1. CASE Register(c)
  <2>1. closed[From[c]] => cause[From[c]] \in Causes
    BY <1>0 DEF RestType
  <2>2. result' \in [Calls -> {"none", "writeError", "withdrawn"} \cup Answers \cup Causes]
    BY ZenonT(60), <1>1, <2>1 DEF Register, RestType
  <2>3. /\ cpc' = [cpc EXCEPT ![c] = "done"] \/ cpc' = [cpc EXCEPT ![c] = "write"]
        /\ pending' = pending \/ pending' = pending \cup {c}
    BY <1>1 DEF Register, CallTo
  <2>4. UNCHANGED <<streamVars, loopVars, box, gaveUp, kpc, handlerVars, noteVars>>
    BY <1>1 DEF Register
  <2> QED
    BY <2>2, <2>3, <2>4 DEF RestType, streamVars, loopVars, handlerVars, noteVars
<1>2. CASE SendRequest(c)
  <2>1. Len(written[To(c)]) \in Nat
    BY <1>0 DEF RestType
  <2>2. result' \in [Calls -> {"none", "writeError", "withdrawn"} \cup Answers \cup Causes]
    BY <1>2 DEF SendRequest, Settle, RestType
  <2>3. cpc' \in [Calls -> {"idle", "write", "wait", "unregister", "done"}]
    BY ZenonT(60), <1>2 DEF SendRequest, CallTo, Settle, RestType
  <2>4. before' \in [Calls -> Nat]
    BY ZenonT(60), <1>2, <2>1 DEF SendRequest, RestType
  <2>5. UNCHANGED <<closed, cause, closing, cut, loopVars, pending, box, gaveUp, kpc, handlerVars,
                    npc, written, seen>>
    BY <1>2 DEF SendRequest
  <2> QED
    BY <2>2, <2>3, <2>4, <2>5 DEF RestType, loopVars, handlerVars
<1>3. CASE ReturnAnswer(c)
  BY <1>3 DEF ReturnAnswer, CallTo, Settle, RestType, streamVars, loopVars, handlerVars, noteVars
<1>4. CASE ReturnWithdrawn(c)
  BY <1>4 DEF ReturnWithdrawn, CallTo, Settle, RestType, streamVars, loopVars, handlerVars, noteVars
<1>5. CASE ReturnClosed(c)
  <2>1. cause[From[c]] \in Causes
    BY <1>0, <1>5 DEF ReturnClosed, RestType
  <2> QED
    BY <1>5, <2>1 DEF ReturnClosed, CallTo, Settle, RestType, streamVars, loopVars, handlerVars, noteVars
<1>6. CASE Unregister(c)
  BY <1>6 DEF Unregister, CallTo, RestType, streamVars, loopVars, handlerVars, noteVars
<1>7. CASE SendCancel(c)
  BY <1>7 DEF SendCancel, RestType, loopVars, handlerVars, noteVars
<1>8. CASE GiveUp(c)
  BY <1>8 DEF GiveUp, RestType, streamVars, loopVars, handlerVars, noteVars
<1> QED
  BY <1>1, <1>2, <1>3, <1>4, <1>5, <1>6, <1>7, <1>8

\* The types, after the steps of a handler.
LEMMA ServeTypes ==
  ASSUME RestType, NEW c \in Calls, ServeStep(c)
  PROVE  RestType'
<1>1. CASE HandlerReturns(c)
  BY <1>1 DEF HandlerReturns, Answers, RestType, streamVars, loopVars, callVars, noteVars
<1>2. CASE SendReply(c)
  BY <1>2 DEF SendReply, RestType, loopVars, callVars, noteVars
<1>3. CASE Release(c)
  BY <1>3 DEF Release, RestType, streamVars, loopVars, callVars, noteVars
<1> QED
  BY <1>1, <1>2, <1>3 DEF ServeStep

\* The types, after the steps of a read loop.
LEMMA LoopTypes ==
  ASSUME TypeOK, WireInv, NEW e \in Ends,
         LoopStep(e) \/ CloseStream(e) \/ Close(e)
  PROVE  RestType'
<1>0. RestType
  BY DEF TypeOK, RestType
<1> DEFINE h == Head(wire[e])
<1> HIDE DEF h
<1>1. \A x : Reads(e, x) => x \in Frames
  BY DEF Reads
<1>2. CASE ReadResponse(e)
  <2>1. h \in Frames
    BY <1>1, <1>2, ReadGets DEF h
  <2> QED
    BY ZenonT(60), <1>0, <1>2, <2>1 DEF ReadResponse, Hold, h, RestType, loopVars, callVars, handlerVars, noteVars
<1>3. CASE Deliver(e)
  <2>1. frame[e].of \in Calls /\ frame[e].kind \in Answers
    BY <1>3 DEF Deliver, WireInv
  <2> QED
    BY <1>0, <1>3, <2>1 DEF Deliver, LetGo, RestType, streamVars, handlerVars, noteVars
<1>4. CASE ReadRequest(e)
  <2>1. Subject(e) \in Calls
    BY <1>4, ReadGets DEF Subject
  <2> QED
    BY <1>0, <1>4, <2>1 DEF ReadRequest, RestType, loopVars, callVars, noteVars
<1>5. CASE ReadCancel(e)
  <2>1. (Subject(e) \in inflight) \in BOOLEAN
    OBVIOUS
  <2>2. hcancel' \in [Calls -> BOOLEAN]
    BY <1>0, <1>5, <2>1 DEF ReadCancel, RestType
  <2> QED
    BY <1>0, <1>5, <2>2 DEF ReadCancel, RestType, loopVars, callVars, noteVars
<1>6. CASE ReadNote(e)
  <2>1. h \in Frames /\ h.of \in Notes
    BY <1>1, <1>6, ReadGets DEF h
  <2>2. CASE Hold(e, "echo") /\ UNCHANGED seen
    BY <1>0, <1>6, <2>1, <2>2 DEF ReadNote, Hold, h, RestType, callVars, handlerVars
  <2>3. CASE Handled(e, h.of) /\ UNCHANGED loopVars
    <3>1. Append(seen[e], h.of) \in Seq(Notes)
      BY <1>0, <2>1 DEF RestType
    <3> QED
      BY <1>0, <1>6, <2>3, <3>1 DEF ReadNote, Handled, RestType, loopVars, callVars, handlerVars
  <2> QED
    BY <1>6, <2>2, <2>3 DEF ReadNote, Subject, h
<1>7. CASE SendEcho(e)
  <2>1. frame[e].of \in Notes
    BY <1>7 DEF SendEcho, WireInv
  <2>2. Append(seen[e], frame[e].of) \in Seq(Notes)
    BY <1>0, <2>1 DEF RestType
  <2> QED
    BY <1>0, <1>7, <2>2 DEF SendEcho, LetGo, Handled, RestType, callVars, handlerVars
<1>8. CASE ReadEcho(e)
  BY <1>0, <1>8 DEF ReadEcho, RestType, loopVars, callVars, handlerVars, noteVars
<1>9. CASE ReadEnd(e)
  BY <1>0, <1>9 DEF ReadEnd, FailWith, Causes, RestType, callVars, handlerVars, noteVars
<1>10. CASE CloseStream(e)
  BY <1>0, <1>10 DEF CloseStream, RestType, loopVars, callVars, handlerVars, noteVars
<1>11. CASE Close(e)
  BY <1>0, <1>11 DEF Close, FailWith, Causes, RestType, loopVars, callVars, handlerVars, noteVars
<1> QED
  BY <1>2, <1>3, <1>4, <1>5, <1>6, <1>7, <1>8, <1>9, <1>10, <1>11 DEF LoopStep

\* The types, after a notification.
LEMMA NotifyTypes ==
  ASSUME RestType, NEW n \in Notes, Notify(n)
  PROVE  RestType'
<1>1. Append(written[To(n)], n) \in Seq(Notes)
  BY TwoEnds DEF RestType
<1> QED
  BY ZenonT(60), <1>1 DEF Notify, RestType, loopVars, callVars, handlerVars

\* What is about to be written to e goes there, and is not on its way already if it is
\* sent only once.
New(e, f) == Addressed(f, e) /\ (f.kind \in Single => ~Has(wire[e], f))

\* Requests, responses and notifications are written once.
LEMMA WhatIsNew ==
  ASSUME CallInv, OrderInv
  PROVE  /\ \A c \in Calls : /\ cpc[c] = "write" => New(To(c), F("request", c))
                             /\ New(To(c), F("cancel", c))
                             /\ hpc[c] = "reply" => New(From[c], F(reply[c], c))
         /\ \A e \in Ends, n \in Notes : New(e, F("echo", n))
         /\ \A n \in Notes : npc[n] = "idle" => New(To(n), F("note", n))
<1>1. ASSUME NEW c \in Calls
      PROVE  /\ cpc[c] = "write" => New(To(c), F("request", c))
             /\ New(To(c), F("cancel", c))
             /\ hpc[c] = "reply" => New(From[c], F(reply[c], c))
  <2>1. RequestInv(c) /\ AnswerInv(c)
    BY DEF CallInv
  <2>2. cpc[c] = "write" => New(To(c), F("request", c))
    BY <2>1, FrameParts DEF New, Addressed, RequestInv, Answers
  <2>3. New(To(c), F("cancel", c))
    BY FrameParts DEF New, Addressed, Single, Answers
  <2>4. hpc[c] = "reply" => New(From[c], F(reply[c], c))
    BY <2>1, FrameParts DEF New, Addressed, RequestInv, AnswerInv, Answers
  <2> QED
    BY <2>2, <2>3, <2>4
<1>2. \A e \in Ends, n \in Notes : New(e, F("echo", n))
  BY FrameParts DEF New, Addressed, Single, Answers
<1>3. ASSUME NEW n \in Notes, npc[n] = "idle" PROVE New(To(n), F("note", n))
  <2>1. To(n) \in Ends /\ NoteInv(To(n))
    BY TwoEnds DEF OrderInv
  <2>2. ASSUME Has(wire[To(n)], F("note", n)) PROVE FALSE
    <3>1. PICK i \in 1 .. Len(wire[To(n)]) : wire[To(n)][i] = F("note", n)
      BY <2>2 DEF Has
    <3>2. PICK k \in 1 .. Len(written[To(n)]) : wire[To(n)][i] = F("note", written[To(n)][k])
      BY <2>1, <3>1, FrameParts DEF NoteInv, InOrder
    <3>3. n = written[To(n)][k]
      BY <3>1, <3>2, FrameParts
    <3> QED
      BY <1>3, <2>1, <3>3 DEF NoteInv
  <2> QED
    BY <2>2, FrameParts DEF New, Addressed, Answers
<1> QED
  BY <1>1, <1>2, <1>3

\* Every step leaves the wires alone, puts one new frame on one of them or takes one from it.
LEMMA WireSteps ==
  ASSUME TypeOK, WireInv, CallInv, OrderInv, [Next]_vars
  PROVE  \/ UNCHANGED wire
         \/ \E e \in Ends, f \in Frames : (Put(e, f) /\ New(e, f)) \/ Got(e, f)
<1> DEFINE Moves == \/ UNCHANGED wire
                    \/ \E e \in Ends, f \in Frames : (Put(e, f) /\ New(e, f)) \/ Got(e, f)
<1>1. ASSUME NEW e \in Ends, NEW f \in Frames, New(Other(e), f), Write(e, f) \/ WriteFails(e) PROVE Moves
  BY <1>1, TwoEnds, WriteOrFail
<1>2. ASSUME NEW c \in Calls, CallStep(c) \/ SendCancel(c) \/ ServeStep(c) PROVE Moves
  <2>0. From[c] \in Ends /\ To(c) \in Ends /\ To(c) = Other(From[c]) /\ From[c] = Other(To(c))
    BY TwoEnds
  <2>1. CASE SendRequest(c)
    <3>1. (Write(From[c], F("request", c)) \/ WriteFails(From[c])) /\ cpc[c] = "write"
      BY <2>1 DEF SendRequest
    <3> QED
      BY <1>1, <2>0, <3>1, FrameParts, WhatIsNew
  <2>2. CASE SendCancel(c)
    <3>1. Write(From[c], F("cancel", c)) \/ WriteFails(From[c])
      BY <2>2 DEF SendCancel
    <3> QED
      BY <1>1, <2>0, <3>1, FrameParts, WhatIsNew
  <2>3. CASE SendReply(c)
    <3>1. /\ Write(To(c), F(reply[c], c)) \/ WriteFails(To(c))
          /\ reply[c] \in Answers /\ hpc[c] = "reply"
      BY <2>3 DEF SendReply, CallInv, RequestInv
    <3>2. F(reply[c], c) \in Frames
      BY <3>1, FrameParts
    <3>3. New(Other(To(c)), F(reply[c], c))
      BY <2>0, <3>1, WhatIsNew
    <3> QED
      BY <1>1, <2>0, <3>1, <3>2, <3>3
  <2> QED
    BY <1>2, <2>1, <2>2, <2>3 DEF CallStep, ServeStep, ReturnAnswer, ReturnWithdrawn, ReturnClosed,
       Unregister, HandlerReturns, Release, streamVars
<1>3. ASSUME NEW e \in Ends, LoopStep(e) \/ CloseStream(e) \/ Close(e) PROVE Moves
  <2>1. CASE SendEcho(e)
    <3>1. /\ Write(e, F("echo", frame[e].of)) \/ WriteFails(e)
          /\ frame[e].of \in Notes /\ Other(e) \in Ends
      BY <2>1, TwoEnds DEF SendEcho, WireInv
    <3> QED
      BY <1>1, <3>1, FrameParts, WhatIsNew
  <2>2. CASE ReadResponse(e) \/ ReadRequest(e) \/ ReadCancel(e) \/ ReadNote(e) \/ ReadEcho(e)
    BY <2>2, ReadGets DEF Reads
  <2> QED
    BY <1>3, <2>1, <2>2 DEF LoopStep, Deliver, ReadEnd, CloseStream, Close, streamVars
<1>4. ASSUME NEW n \in Notes, Notify(n) PROVE Moves
  <2>1. (Write(From[n], F("note", n)) \/ WriteFails(From[n])) /\ npc[n] = "idle"
    BY <1>4 DEF Notify
  <2>2. F("note", n) \in Frames /\ New(Other(From[n]), F("note", n)) /\ From[n] \in Ends
    BY <2>1, FrameParts, TwoEnds, WhatIsNew
  <2> QED
    BY <1>1, <2>1, <2>2
<1>5. CASE UNCHANGED vars \/ \E c \in Calls : Register(c) \/ GiveUp(c)
  BY <1>5 DEF vars, streamVars, Register, GiveUp
<1> QED
  BY <1>2, <1>3, <1>4, <1>5 DEF Next, Run, Ask

\* Every step keeps the types.
LEMMA StepTypeOK ==
  ASSUME TypeOK, WireInv, CallInv, OrderInv, [Next]_vars
  PROVE  TypeOK'
<1>0. RestType /\ WireType
  BY DEF TypeOK, RestType, WireType
<1>1. WireType'
  <2>1. CASE UNCHANGED wire
    BY <1>0, <2>1 DEF WireType
  <2> QED
    BY <2>1, WireSteps DEF Put, Got
<1>2. RestType'
  <2>1. CASE UNCHANGED vars
    BY <1>0, <2>1 DEF vars, streamVars, loopVars, callVars, handlerVars, noteVars, RestType
  <2>2. CASE Run
    BY <1>0, <2>2, CallTypes, ServeTypes, LoopTypes DEF Run, CallStep
  <2>3. CASE Ask
    BY <1>0, <2>3, CallTypes, LoopTypes, NotifyTypes DEF Ask
  <2> QED
    BY <2>1, <2>2, <2>3 DEF Next
<1> QED
  BY <1>1, <1>2 DEF TypeOK, RestType, WireType

-----------------------------------------------------------------------------
(* Every step keeps what is said of the calls.                             *)

\* What is said of one call looks at the frames about it, and at its own state.
OwnVars(c) == <<cpc[c], box[c], result[c], kpc[c], hpc[c], hcancel[c], reply[c], c \in inflight>>

CallStays(c) == RequestInv(c)' /\ AnswerInv(c)' /\ CancelInv(c)'

\* A step that changes neither keeps what is said of the call.
LEMMA CallLeftAlone ==
  ASSUME TypeOK, CallInv, NEW c \in Calls, UNCHANGED OwnVars(c),
         InHand(c)' <=> InHand(c), InHand(c) => frame'[From[c]] = frame[From[c]],
         \A e \in Ends, k \in {"request", "cancel"} \cup Answers :
           Has(wire'[e], F(k, c)) <=> Has(wire[e], F(k, c)),
         hpc[c] = "none" /\ Precedes(wire[To(c)], F("request", c), F("cancel", c)) =>
           Precedes(wire'[To(c)], F("request", c), F("cancel", c))
  PROVE  CallStays(c)
<1>1. From[c] \in Ends /\ To(c) \in Ends
  BY TwoEnds
<1>2. RequestInv(c) /\ AnswerInv(c) /\ CancelInv(c)
  BY DEF CallInv
<1>3. RequestInv(c)'
  BY <1>1, <1>2 DEF RequestInv, OwnVars
<1>4. AnswerInv(c)'
  BY <1>1, <1>2 DEF AnswerInv, OwnVars
<1>5. CancelInv(c)'
  BY <1>1, <1>2 DEF CancelInv, OwnVars
<1> QED
  BY <1>3, <1>4, <1>5 DEF CallStays

\* Frames about other things, or none, do not concern a call.
LEMMA OtherFrames ==
  ASSUME NEW c \in Calls, NEW e \in Ends, NEW f \in Frames, f.of # c, Put(e, f) \/ Got(e, f) \/ UNCHANGED wire
  PROVE  /\ \A d \in Ends, k \in {"request", "cancel"} \cup Answers :
              Has(wire'[d], F(k, c)) <=> Has(wire[d], F(k, c))
         /\ \A d \in Ends : Precedes(wire[d], F("request", c), F("cancel", c)) =>
                            Precedes(wire'[d], F("request", c), F("cancel", c))
<1>1. \A k : F(k, c) # f
  BY FrameParts
<1>2. CASE Put(e, f)
  <2>1. \A d \in Ends \ {e} : wire'[d] = wire[d]
    BY <1>2 DEF Put
  <2>2. \A k : Has(wire'[e], F(k, c)) <=> Has(wire[e], F(k, c))
    BY <1>1, <1>2 DEF Put
  <2>3. Precedes(wire[e], F("request", c), F("cancel", c)) => Precedes(wire'[e], F("request", c), F("cancel", c))
    BY <1>1, <1>2 DEF Put
  <2> QED
    BY <2>1, <2>2, <2>3
<1>3. CASE Got(e, f)
  <2>1. \A d \in Ends \ {e} : wire'[d] = wire[d]
    BY <1>3 DEF Got
  <2>2. \A k : Has(wire'[e], F(k, c)) <=> Has(wire[e], F(k, c))
    BY <1>1, <1>3 DEF Got
  <2>3. Precedes(wire[e], F("request", c), F("cancel", c)) => Precedes(wire'[e], F("request", c), F("cancel", c))
    BY <1>1, <1>3 DEF Got
  <2> QED
    BY <2>1, <2>2, <2>3
<1> QED
  BY <1>2, <1>3

\* A step that is about c and not about the read loops leaves other calls alone.
AboutCall(c) ==
  /\ UNCHANGED loopVars
  /\ \A b \in Calls \ {c} : UNCHANGED OwnVars(b)
  /\ UNCHANGED wire \/ \E e \in Ends, f \in Frames : f.of = c /\ Put(e, f)

\* What is said of those other calls stays true.
LEMMA OtherCallsStay ==
  ASSUME TypeOK, CallInv, NEW c \in Calls, AboutCall(c), NEW b \in Calls \ {c}
  PROVE  CallStays(b)
<1>1. UNCHANGED OwnVars(b) /\ (InHand(b)' <=> InHand(b)) /\ frame'[From[b]] = frame[From[b]]
  BY DEF AboutCall, InHand, loopVars
<1>2. CASE UNCHANGED wire
  BY <1>1, <1>2, CallLeftAlone
<1>3. CASE \E e \in Ends, f \in Frames : f.of = c /\ Put(e, f)
  <2>1. PICK e \in Ends, f \in Frames : f.of = c /\ Put(e, f)
    BY <1>3
  <2>2. f.of # b /\ b \in Calls /\ To(b) \in Ends
    BY <2>1, TwoEnds
  <2> QED
    BY <1>1, <2>1, <2>2, OtherFrames, CallLeftAlone
<1> QED
  BY <1>2, <1>3 DEF AboutCall

\* What each of these steps is about.
LEMMA StepsAboutCall ==
  ASSUME TypeOK, WireInv, CallInv, NEW c \in Calls,
         Register(c) \/ CallStep(c) \/ SendCancel(c) \/ ServeStep(c) \/ GiveUp(c)
  PROVE  AboutCall(c)
<1>0. ASSUME NEW e \in Ends, NEW k, F(k, c) \in Frames, Write(e, F(k, c)) \/ WriteFails(e)
      PROVE  UNCHANGED wire \/ \E d \in Ends, f \in Frames : f.of = c /\ Put(d, f)
  <2>1. Put(Other(e), F(k, c)) \/ UNCHANGED wire
    BY <1>0, WriteOrFail
  <2>2. Other(e) \in Ends /\ F(k, c).of = c
    BY TwoEnds, FrameParts
  <2> QED
    BY <1>0, <2>1, <2>2
<1>1. UNCHANGED loopVars
  BY DEF Register, CallStep, SendCancel, ServeStep, GiveUp, SendRequest, ReturnAnswer, ReturnWithdrawn,
     ReturnClosed, Unregister, HandlerReturns, SendReply, Release
<1>2. ASSUME NEW b \in Calls \ {c} PROVE UNCHANGED OwnVars(b)
  <2> USE DEF OwnVars, TypeOK, CallTo, Settle, callVars, handlerVars
  <2>1. CASE Register(c) \/ GiveUp(c)
    BY <2>1 DEF Register, GiveUp
  <2>2. CASE SendRequest(c) \/ SendCancel(c)
    BY <2>2 DEF SendRequest, SendCancel
  <2>3. CASE ReturnAnswer(c) \/ ReturnWithdrawn(c) \/ ReturnClosed(c) \/ Unregister(c)
    BY <2>3 DEF ReturnAnswer, ReturnWithdrawn, ReturnClosed, Unregister
  <2>4. CASE HandlerReturns(c) \/ SendReply(c) \/ Release(c)
    BY <2>4 DEF HandlerReturns, SendReply, Release
  <2> QED
    BY <2>1, <2>2, <2>3, <2>4 DEF CallStep, ServeStep
<1>3. UNCHANGED wire \/ \E e \in Ends, f \in Frames : f.of = c /\ Put(e, f)
  <2>0. /\ From[c] \in Ends /\ To(c) \in Ends
        /\ F("request", c) \in Frames /\ F("cancel", c) \in Frames
        /\ \A k \in Answers : F(k, c) \in Frames
    BY TwoEnds, FrameParts
  <2>1. CASE SendRequest(c)
    BY <1>0, <2>0, <2>1 DEF SendRequest
  <2>2. CASE SendCancel(c)
    BY <1>0, <2>0, <2>2 DEF SendCancel
  <2>3. CASE SendReply(c)
    <3>1. F(reply[c], c) \in Frames
      BY <2>0, <2>3 DEF SendReply, CallInv, RequestInv
    <3> QED
      BY <1>0, <2>0, <2>3, <3>1 DEF SendReply
  <2> QED
    BY <2>1, <2>2, <2>3 DEF Register, CallStep, ServeStep, GiveUp, ReturnAnswer, ReturnWithdrawn,
       ReturnClosed, Unregister, HandlerReturns, Release, streamVars
<1> QED
  BY <1>1, <1>2, <1>3 DEF AboutCall

\* What a call's own steps do to what is said of it.
LEMMA OwnCallStays ==
  ASSUME TypeOK, WireInv, CallInv, NEW c \in Calls,
         Register(c) \/ CallStep(c) \/ SendCancel(c) \/ GiveUp(c)
  PROVE  CallStays(c)
<1>0. From[c] \in Ends /\ To(c) \in Ends /\ To(c) = Other(From[c]) /\ To(c) # From[c]
  BY TwoEnds
<1>1. RequestInv(c) /\ AnswerInv(c) /\ CancelInv(c)
  BY DEF CallInv
<1>2. UNCHANGED loopVars
  BY StepsAboutCall DEF AboutCall
<1>3. (InHand(c)' <=> InHand(c)) /\ frame'[From[c]] = frame[From[c]]
  BY <1>2 DEF InHand, loopVars
<1> USE <1>0, <1>1, <1>3 DEF CallStays
<1>4. CASE Register(c)
  <2>1. /\ cpc[c] = "idle" /\ cpc'[c] \in {"done", "write"}
        /\ result'[c] \in {result[c]} \cup Causes \cup {"none"} /\ (cpc'[c] = "write" => result'[c] = result[c])
        /\ UNCHANGED <<wire, hpc, inflight, hcancel, reply, box, kpc>>
    BY <1>4 DEF Register, CallTo, TypeOK, streamVars, handlerVars
  <2>2. hpc[c] = "none" /\ ~Has(wire[To(c)], F("request", c)) /\ result[c] = "none"
    BY <2>1 DEF RequestInv, CancelInv
  <2>3. result'[c] \notin {"withdrawn", "cancelled"}
    BY <2>1, <2>2 DEF Causes
  <2> QED
    BY <2>1, <2>2, <2>3 DEF RequestInv, AnswerInv, CancelInv
<1>5. CASE SendRequest(c)
  <2>1. /\ cpc[c] = "write" /\ UNCHANGED <<hpc, inflight, hcancel, reply, box, kpc>>
        /\ Write(From[c], F("request", c)) \/ WriteFails(From[c])
    BY <1>5 DEF SendRequest, handlerVars
  <2>2. hpc[c] = "none" /\ ~Has(wire[To(c)], F("request", c)) /\ result[c] = "none"
    BY <2>1 DEF RequestInv, CancelInv
  <2>3. CASE Write(From[c], F("request", c)) /\ cpc'[c] = "wait" /\ UNCHANGED result
    <3>1. Put(To(c), F("request", c))
      BY <2>3, WritePuts, FrameParts
    <3>2. /\ \A k : k # "request" => (Has(wire'[To(c)], F(k, c)) <=> Has(wire[To(c)], F(k, c)))
          /\ wire'[From[c]] = wire[From[c]] /\ Has(wire'[To(c)], F("request", c))
          /\ ~Has(wire[To(c)], F("cancel", c))
          /\ Precedes(wire'[To(c)], F("request", c), F("cancel", c))
      BY <2>2, <3>1, FrameParts DEF Put, CancelInv
    <3> QED
      BY <2>1, <2>2, <2>3, <3>2 DEF RequestInv, AnswerInv, CancelInv
  <2>4. CASE UNCHANGED wire /\ cpc'[c] = "unregister" /\ result'[c] = "writeError"
    BY <2>1, <2>2, <2>4 DEF RequestInv, AnswerInv, CancelInv
  <2> QED
    BY <1>5, <2>3, <2>4 DEF SendRequest, CallTo, Settle, WriteFails, TypeOK
<1>6. CASE ReturnAnswer(c)
  <2>1. /\ cpc[c] = "wait" /\ cpc'[c] = "unregister" /\ result'[c] = box[c] /\ box[c] # "none" /\ box'[c] = "none"
        /\ UNCHANGED <<wire, hpc, inflight, hcancel, reply, kpc>>
    BY <1>6 DEF ReturnAnswer, CallTo, Settle, TypeOK, streamVars, handlerVars
  <2>2. result[c] = "none" /\ box[c] = reply[c] /\ reply[c] # "cancelled" /\ box[c] \in Answers
    BY <2>1 DEF AnswerInv, CancelInv, TypeOK
  <2>3. result'[c] = "ok"
    BY <2>1, <2>2 DEF Answers
  <2> QED
    BY <2>1, <2>2, <2>3 DEF RequestInv, AnswerInv, CancelInv
<1>7. CASE ReturnWithdrawn(c)
  <2>1. /\ cpc[c] = "wait" /\ cpc'[c] = "unregister" /\ result'[c] = "withdrawn" /\ kpc'[c] = "write"
        /\ UNCHANGED <<wire, hpc, inflight, hcancel, reply, box>>
    BY <1>7 DEF ReturnWithdrawn, CallTo, Settle, TypeOK, streamVars, handlerVars
  <2> QED
    BY <2>1 DEF RequestInv, AnswerInv, CancelInv
<1>8. CASE ReturnClosed(c)
  <2>1. /\ cpc[c] = "wait" /\ cpc'[c] = "unregister" /\ result'[c] = cause[From[c]]
        /\ UNCHANGED <<wire, hpc, inflight, hcancel, reply, box, kpc>>
    BY <1>8 DEF ReturnClosed, CallTo, Settle, TypeOK, streamVars, handlerVars
  <2>2. result'[c] \in {"none", "ErrClosed", "EOF"} /\ result[c] = "none"
    BY <2>1 DEF TypeOK, Causes, CancelInv
  <2> QED
    BY <2>1, <2>2 DEF RequestInv, AnswerInv, CancelInv
<1>9. CASE Unregister(c)
  <2>1. /\ cpc[c] = "unregister" /\ cpc'[c] = "done"
        /\ UNCHANGED <<wire, hpc, inflight, hcancel, reply, box, kpc, result>>
    BY <1>9 DEF Unregister, CallTo, TypeOK, streamVars, handlerVars
  <2> QED
    BY <2>1 DEF RequestInv, AnswerInv, CancelInv
<1>10. CASE SendCancel(c)
  <2>1. /\ kpc[c] = "write" /\ kpc'[c] = "done" /\ UNCHANGED <<hpc, inflight, hcancel, reply, box, cpc, result>>
        /\ Write(From[c], F("cancel", c)) \/ WriteFails(From[c])
    BY <1>10 DEF SendCancel, TypeOK, handlerVars
  <2>2. result[c] = "withdrawn"
    BY <2>1 DEF CancelInv
  <2>3. CASE Write(From[c], F("cancel", c))
    <3>1. Put(To(c), F("cancel", c))
      BY <2>3, WritePuts, FrameParts
    <3>2. /\ \A k : k # "cancel" => (Has(wire'[To(c)], F(k, c)) <=> Has(wire[To(c)], F(k, c)))
          /\ wire'[From[c]] = wire[From[c]]
      BY <3>1, FrameParts DEF Put
    <3>3. hpc[c] = "none" => Has(wire[To(c)], F("request", c))
      BY <2>2 DEF RequestInv
    <3>4. hpc[c] = "none" => Precedes(wire'[To(c)], F("request", c), F("cancel", c))
      BY <3>1, <3>3 DEF Put, CancelInv
    <3> QED
      BY <2>1, <2>2, <3>2, <3>4 DEF RequestInv, AnswerInv, CancelInv
  <2>4. CASE UNCHANGED wire
    BY <2>1, <2>2, <2>4 DEF RequestInv, AnswerInv, CancelInv
  <2> QED
    BY <2>1, <2>3, <2>4 DEF WriteFails
<1>11. CASE GiveUp(c)
  <2>1. UNCHANGED <<wire, hpc, inflight, hcancel, reply, box, kpc, result, cpc>>
    BY <1>11 DEF GiveUp, streamVars, handlerVars
  <2> QED
    BY <2>1 DEF RequestInv, AnswerInv, CancelInv
<1> QED
  BY <1>4, <1>5, <1>6, <1>7, <1>8, <1>9, <1>10, <1>11 DEF CallStep

\* What the handler's goroutine does to what is said of its call.
LEMMA OwnServeStays ==
  ASSUME TypeOK, WireInv, CallInv, NEW c \in Calls, ServeStep(c)
  PROVE  CallStays(c)
<1>0. From[c] \in Ends /\ To(c) \in Ends /\ To(c) = Other(From[c]) /\ From[c] = Other(To(c)) /\ To(c) # From[c]
  BY TwoEnds
<1>1. RequestInv(c) /\ AnswerInv(c) /\ CancelInv(c)
  BY DEF CallInv
<1>2. UNCHANGED loopVars
  BY StepsAboutCall DEF AboutCall
<1>3. (InHand(c)' <=> InHand(c)) /\ frame'[From[c]] = frame[From[c]]
  BY <1>2 DEF InHand, loopVars
<1> USE <1>0, <1>1, <1>3 DEF CallStays
<1>4. CASE HandlerReturns(c)
  <2>1. /\ hpc[c] = "run" /\ hpc'[c] = "reply" /\ reply'[c] \in Answers
        /\ (reply'[c] = "cancelled" => hcancel[c])
        /\ UNCHANGED <<wire, cpc, box, result, kpc, inflight, hcancel>>
    BY <1>4 DEF HandlerReturns, TypeOK, Answers, streamVars, callVars
  <2> QED
    BY <2>1 DEF RequestInv, AnswerInv, CancelInv
<1>5. CASE SendReply(c)
  <2>1. /\ hpc[c] = "reply" /\ hpc'[c] = "release"
        /\ UNCHANGED <<cpc, box, result, kpc, inflight, hcancel, reply>>
        /\ Write(To(c), F(reply[c], c)) \/ WriteFails(To(c))
    BY <1>5 DEF SendReply, TypeOK, callVars
  <2>2. reply[c] \in Answers
    BY <2>1 DEF RequestInv
  <2>3. CASE Write(To(c), F(reply[c], c))
    <3>1. F(reply[c], c) \in Frames
      BY <2>2, FrameParts
    <3>2. Put(From[c], F(reply[c], c))
      BY <2>3, <3>1, WritePuts
    <3>3. /\ \A k : Has(wire'[From[c]], F(k, c)) <=> Has(wire[From[c]], F(k, c)) \/ k = reply[c]
          /\ wire'[To(c)] = wire[To(c)]
      BY <3>2, FrameParts DEF Put
    <3> QED
      BY <2>1, <2>2, <3>3 DEF RequestInv, AnswerInv, CancelInv
  <2>4. CASE UNCHANGED wire
    BY <2>1, <2>4 DEF RequestInv, AnswerInv, CancelInv
  <2> QED
    BY <2>1, <2>3, <2>4 DEF WriteFails
<1>6. CASE Release(c)
  <2>1. /\ hpc[c] = "release" /\ hpc'[c] = "done" /\ inflight' = inflight \ {c}
        /\ UNCHANGED <<wire, cpc, box, result, kpc, hcancel, reply>>
    BY <1>6 DEF Release, TypeOK, streamVars, callVars
  <2> QED
    BY <2>1 DEF RequestInv, AnswerInv, CancelInv
<1> QED
  BY <1>4, <1>5, <1>6 DEF ServeStep

\* A read that is about another call or notification, and leaves this call's frame in
\* hand where it is.
AboutOther(e, c) ==
  /\ UNCHANGED OwnVars(c)
  /\ \E f \in Frames : f.of # c /\ Got(e, f)
  /\ \A d \in Ends : /\ lpc[d] = "deliver" => UNCHANGED <<lpc[d], frame[d]>>
                     /\ lpc[d] # "deliver" /\ lpc'[d] = "deliver" => frame'[d].of # c

\* What is said of this call stays true.
LEMMA OtherReadsStay ==
  ASSUME TypeOK, CallInv, NEW e \in Ends, NEW c \in Calls, AboutOther(e, c)
  PROVE  CallStays(c)
<1>1. From[c] \in Ends /\ To(c) \in Ends
  BY TwoEnds
<1>2. (InHand(c)' <=> InHand(c)) /\ (InHand(c) => frame'[From[c]] = frame[From[c]])
  BY <1>1 DEF AboutOther, InHand
<1>3. PICK f \in Frames : f.of # c /\ Got(e, f)
  BY DEF AboutOther
<1> QED
  BY <1>1, <1>2, <1>3, OtherFrames, CallLeftAlone DEF AboutOther

\* Calls and notifications are told apart.
LEMMA NoNoteIsACall == \A n \in Notes, c \in Calls : n # c
BY ConnAssumption DEF ConnAssumption

\* What the read loops do to what is said of the calls.
LEMMA LoopStays ==
  ASSUME TypeOK, WireInv, CallInv, NEW e \in Ends, LoopStep(e) \/ CloseStream(e) \/ Close(e),
         NEW c \in Calls
  PROVE  CallStays(c)
<1>0. From[c] \in Ends /\ To(c) \in Ends /\ To(c) = Other(From[c]) /\ From[c] = Other(To(c)) /\ To(c) # From[c]
  BY TwoEnds
<1>1. RequestInv(c) /\ AnswerInv(c) /\ CancelInv(c)
  BY DEF CallInv
<1> DEFINE h == Head(wire[e])
<1> HIDE DEF h
<1>2. CASE ReadResponse(e)
  <2>1. Reads(e, h) /\ h.kind \in Answers /\ h.of \in Calls /\ h = F(h.kind, h.of)
    BY <1>2, ReadGets DEF h, Reads, Got
  <2>2. /\ UNCHANGED OwnVars(c)
        /\ (lpc' = [lpc EXCEPT ![e] = "deliver"] /\ frame' = [frame EXCEPT ![e] = h]) \/ UNCHANGED loopVars
    BY <1>2 DEF ReadResponse, Hold, h, OwnVars, callVars, handlerVars
  <2>3. CASE h.of # c
    <3>1. AboutOther(e, c)
      BY <2>1, <2>2, <2>3 DEF AboutOther, Reads, loopVars, TypeOK
    <3> QED
      BY <3>1, OtherReadsStay
  <2>4. CASE h.of = c
    <3>1. /\ Has(wire[e], h) /\ e = From[c] /\ h = F(h.kind, c)
      BY <2>1, <2>4 DEF Reads, Got, WireInv, Addressed
    <3>2. hpc[c] \in {"release", "done"} /\ h.kind = reply[c] /\ ~InHand(c) /\ box[c] = "none"
      BY <1>1, <2>1, <3>1 DEF AnswerInv
    <3>3. /\ wire'[To(c)] = wire[To(c)]
          /\ \A k \in Answers : ~Has(wire'[From[c]], F(k, c))
      <4>1. ~Has(wire'[e], h) /\ \A g : Has(wire'[e], g) => Has(wire[e], g)
        BY <2>1 DEF Reads, Got, WireInv, Single
      <4>2. \A k \in Answers : Has(wire'[e], F(k, c)) => k = reply[c]
        BY <1>1, <3>1, <4>1 DEF AnswerInv
      <4> QED
        BY <1>0, <2>1, <3>1, <3>2, <4>1, <4>2 DEF Reads, Got
    <3>4. InHand(c)' => frame'[From[c]] = h
      BY <2>1, <2>2, <3>1, <3>2 DEF InHand, Reads, loopVars, TypeOK
    <3> QED
      BY <1>1, <2>2, <3>2, <3>3, <3>4 DEF CallStays, OwnVars, RequestInv, AnswerInv, CancelInv
  <2> QED
    BY <2>3, <2>4
<1>3. CASE Deliver(e)
  <2>1. /\ lpc[e] = "deliver" /\ lpc' = [lpc EXCEPT ![e] = "read"] /\ frame' = [frame EXCEPT ![e] = NoFrame]
        /\ box' = [box EXCEPT ![frame[e].of] = frame[e].kind]
        /\ UNCHANGED <<wire, cpc, result, kpc, hpc, inflight, hcancel, reply>>
        /\ frame[e].kind \in Answers /\ frame[e].of \in Calls /\ From[frame[e].of] = e
    BY <1>3 DEF Deliver, LetGo, streamVars, handlerVars, WireInv
  <2>2. CASE frame[e].of = c
    <3>1. InHand(c) /\ ~InHand(c)'
      BY <2>1, <2>2 DEF InHand, TypeOK
    <3>2. /\ hpc[c] \in {"release", "done"} /\ frame[e].kind = reply[c]
          /\ \A k \in Answers : ~Has(wire[From[c]], F(k, c))
      BY <1>1, <2>1, <2>2, <3>1 DEF AnswerInv
    <3>3. box'[c] = reply[c]
      BY <2>1, <2>2, <3>2 DEF TypeOK
    <3> QED
      BY <1>1, <2>1, <3>1, <3>2, <3>3 DEF CallStays, RequestInv, AnswerInv, CancelInv
  <2>3. CASE frame[e].of # c
    <3>1. UNCHANGED OwnVars(c)
      BY <2>1, <2>3 DEF OwnVars, TypeOK
    <3>2. ~(From[c] = e /\ InHand(c)) /\ lpc'[e] = "read"
      BY <2>1, <2>3 DEF InHand, TypeOK
    <3>3. (InHand(c)' <=> InHand(c)) /\ (InHand(c) => frame'[From[c]] = frame[From[c]])
      BY <1>0, <2>1, <3>2 DEF InHand, TypeOK
    <3> QED
      BY <2>1, <3>1, <3>3, CallLeftAlone
  <2> QED
    BY <2>2, <2>3
<1>4. CASE ReadRequest(e)
  <2>1. Reads(e, h) /\ h = F("request", h.of) /\ h.of \in Calls /\ h.kind = "request"
    BY <1>4, ReadGets, FrameParts DEF h
  <2>2. /\ UNCHANGED <<loopVars, callVars, hcancel, reply>>
        /\ inflight' = inflight \cup {h.of} /\ hpc' = [hpc EXCEPT ![h.of] = "run"]
    BY <1>4 DEF ReadRequest, Subject, h
  <2>3. CASE h.of # c
    <3>1. UNCHANGED OwnVars(c)
      BY <2>1, <2>2, <2>3 DEF OwnVars, TypeOK, callVars
    <3>2. AboutOther(e, c)
      BY <2>1, <2>2, <2>3, <3>1 DEF AboutOther, Reads, loopVars
    <3> QED
      BY <3>2, OtherReadsStay
  <2>4. CASE h.of = c
    <3>1. Has(wire[e], F("request", c)) /\ e = To(c) /\ h = F("request", c)
      BY <2>1, <2>4 DEF Reads, Got, WireInv, Addressed
    <3>2. hpc[c] = "none" /\ cpc[c] \notin {"idle", "write"}
      BY <1>1, <3>1 DEF RequestInv
    <3>3. /\ wire'[From[c]] = wire[From[c]] /\ ~Has(wire'[To(c)], F("request", c))
          /\ Has(wire'[To(c)], F("cancel", c)) => Has(wire[To(c)], F("cancel", c))
      BY <1>0, <2>1, <3>1 DEF Reads, Got, WireInv, Single
    <3>4. /\ hpc'[c] = "run" /\ (InHand(c)' <=> InHand(c)) /\ frame' = frame
          /\ UNCHANGED <<cpc, box, result, kpc, hcancel, reply>>
      BY <2>1, <2>2, <2>4 DEF TypeOK, InHand, loopVars, callVars
    <3> QED
      BY <1>1, <2>2, <2>4, <3>2, <3>3, <3>4 DEF CallStays, RequestInv, AnswerInv, CancelInv
  <2> QED
    BY <2>3, <2>4
<1>5. CASE ReadCancel(e)
  <2>1. Reads(e, h) /\ h = F("cancel", h.of) /\ h.of \in Calls /\ h.kind = "cancel"
    BY <1>5, ReadGets, FrameParts DEF h
  <2>2. /\ UNCHANGED <<loopVars, callVars, hpc, inflight, reply>>
        /\ hcancel' = [hcancel EXCEPT ![h.of] = h.of \in inflight]
    BY <1>5 DEF ReadCancel, Subject, h
  <2>3. CASE h.of # c
    <3>1. UNCHANGED OwnVars(c)
      BY <2>1, <2>2, <2>3 DEF OwnVars, TypeOK, callVars
    <3>2. AboutOther(e, c)
      BY <2>1, <2>2, <2>3, <3>1 DEF AboutOther, Reads, loopVars
    <3> QED
      BY <3>2, OtherReadsStay
  <2>4. CASE h.of = c
    <3>1. Has(wire[e], F("cancel", c)) /\ e = To(c) /\ h = F("cancel", c)
      BY <2>1, <2>4 DEF Reads, Got, WireInv, Addressed
    <3>2. result[c] = "withdrawn"
      BY <1>1, <3>1 DEF CancelInv
    <3>3. /\ wire'[From[c]] = wire[From[c]]
          /\ Has(wire'[To(c)], F("request", c)) <=> Has(wire[To(c)], F("request", c))
          /\ hpc[c] = "none" => Precedes(wire'[To(c)], F("request", c), F("cancel", c))
      BY <1>0, <1>1, <2>1, <3>1, FrameParts DEF Reads, Got, CancelInv
    <3>4. (InHand(c)' <=> InHand(c)) /\ frame' = frame /\ UNCHANGED <<cpc, box, result, kpc, hpc, reply, inflight>>
      BY <2>2 DEF InHand, loopVars, callVars
    <3> QED
      BY <1>1, <3>2, <3>3, <3>4 DEF CallStays, RequestInv, AnswerInv, CancelInv
  <2> QED
    BY <2>3, <2>4
<1>6. CASE ReadNote(e)
  <2>1. Reads(e, h) /\ h.of \in Notes
    BY <1>6, ReadGets DEF h
  <2>2. /\ UNCHANGED OwnVars(c)
        /\ (lpc' = [lpc EXCEPT ![e] = "echo"] /\ frame' = [frame EXCEPT ![e] = h]) \/ UNCHANGED loopVars
    BY <1>6 DEF ReadNote, Hold, h, OwnVars, callVars, handlerVars
  <2>3. AboutOther(e, c)
    BY <2>1, <2>2, NoNoteIsACall DEF AboutOther, Reads, loopVars, TypeOK
  <2> QED
    BY <2>3, OtherReadsStay
<1>7. CASE ReadEcho(e)
  <2>1. Reads(e, h) /\ h.of \in Notes
    BY <1>7, ReadGets DEF h
  <2>2. UNCHANGED OwnVars(c) /\ UNCHANGED loopVars
    BY <1>7 DEF ReadEcho, OwnVars, callVars, handlerVars
  <2>3. AboutOther(e, c)
    BY <2>1, <2>2, NoNoteIsACall DEF AboutOther, Reads, loopVars
  <2> QED
    BY <2>3, OtherReadsStay
<1>8. CASE SendEcho(e)
  <2>1. /\ lpc[e] = "echo" /\ lpc' = [lpc EXCEPT ![e] = "read"] /\ frame' = [frame EXCEPT ![e] = NoFrame]
        /\ UNCHANGED OwnVars(c) /\ frame[e].of \in Notes
        /\ Write(e, F("echo", frame[e].of)) \/ WriteFails(e)
    BY <1>8 DEF SendEcho, LetGo, OwnVars, callVars, handlerVars, WireInv
  <2>2. (InHand(c)' <=> InHand(c)) /\ (InHand(c) => frame'[From[c]] = frame[From[c]])
    BY <1>0, <2>1 DEF InHand, TypeOK
  <2>3. F("echo", frame[e].of) \in Frames /\ F("echo", frame[e].of).of # c /\ Other(e) \in Ends
    BY <2>1, FrameParts, NoNoteIsACall, TwoEnds
  <2>4. Put(Other(e), F("echo", frame[e].of)) \/ UNCHANGED wire
    BY <2>1, <2>3, WriteOrFail
  <2> QED
    BY <1>0, <2>1, <2>2, <2>3, <2>4, OtherFrames, CallLeftAlone
<1>9. CASE ReadEnd(e)
  <2>1. /\ lpc[e] = "read" /\ lpc' = [lpc EXCEPT ![e] = "over"] /\ UNCHANGED <<wire, frame>>
        /\ UNCHANGED OwnVars(c)
    BY <1>9 DEF ReadEnd, OwnVars, callVars, handlerVars
  <2>2. InHand(c)' <=> InHand(c)
    BY <1>0, <2>1 DEF InHand, TypeOK
  <2> QED
    BY <2>1, <2>2, CallLeftAlone
<1>10. CASE CloseStream(e) \/ Close(e)
  <2>1. UNCHANGED <<wire, lpc, frame>> /\ UNCHANGED OwnVars(c)
    BY <1>10 DEF CloseStream, Close, OwnVars, loopVars, callVars, handlerVars
  <2> QED
    BY <2>1, CallLeftAlone DEF InHand
<1> QED
  BY <1>2, <1>3, <1>4, <1>5, <1>6, <1>7, <1>8, <1>9, <1>10 DEF LoopStep

\* Every step keeps what is said of the calls.
LEMMA StepCallInv ==
  ASSUME TypeOK, WireInv, CallInv, [Next]_vars
  PROVE  CallInv'
<1> SUFFICES ASSUME NEW b \in Calls PROVE CallStays(b)
  BY DEF CallInv, CallStays
<1>1. ASSUME NEW c \in Calls, Register(c) \/ CallStep(c) \/ SendCancel(c) \/ ServeStep(c) \/ GiveUp(c)
      PROVE  CallStays(b)
  <2>1. CASE b = c
    BY <1>1, <2>1, OwnCallStays, OwnServeStays
  <2>2. CASE b # c
    BY <1>1, <2>2, StepsAboutCall, OtherCallsStay
  <2> QED
    BY <2>1, <2>2
<1>2. ASSUME NEW e \in Ends, LoopStep(e) \/ CloseStream(e) \/ Close(e) PROVE CallStays(b)
  BY <1>2, LoopStays
<1>3. ASSUME NEW n \in Notes, Notify(n) PROVE CallStays(b)
  <2>1. UNCHANGED <<lpc, frame>> /\ UNCHANGED OwnVars(b) /\ (Write(From[n], F("note", n)) \/ WriteFails(From[n]))
    BY <1>3 DEF Notify, OwnVars, loopVars, callVars, handlerVars
  <2>2. F("note", n) \in Frames /\ F("note", n).of # b /\ From[n] \in Ends /\ Other(From[n]) \in Ends /\ To(b) \in Ends
    BY FrameParts, NoNoteIsACall, TwoEnds
  <2>3. Put(Other(From[n]), F("note", n)) \/ UNCHANGED wire
    BY <2>1, <2>2, WriteOrFail
  <2> QED
    BY <2>1, <2>2, <2>3, OtherFrames, CallLeftAlone DEF InHand
<1>4. CASE UNCHANGED vars
  <2>1. UNCHANGED <<wire, lpc, frame>> /\ UNCHANGED OwnVars(b)
    BY <1>4 DEF vars, streamVars, loopVars, callVars, handlerVars, OwnVars
  <2> QED
    BY <2>1, CallLeftAlone DEF InHand
<1> QED
  BY <1>1, <1>2, <1>3, <1>4 DEF Next, Run, Ask

-----------------------------------------------------------------------------
(* Every step keeps what is said of the wires.                             *)

\* What the read loop of e holds is a response to one of its calls, or a notification.
HeldInv(e) ==
  /\ lpc[e] = "deliver" => frame[e].kind \in Answers /\ frame[e].of \in Calls /\ From[frame[e].of] = e
  /\ lpc[e] = "echo" => frame[e].kind = "note" /\ frame[e].of \in Notes

\* A loop comes to hold only what it has read.
LEMMA LoopHolds ==
  ASSUME TypeOK, WireInv, NEW e \in Ends, LoopStep(e)
  PROVE  HeldInv(e)' /\ \A d \in Ends \ {e} : UNCHANGED <<lpc[d], frame[d]>>
<1> DEFINE h == Head(wire[e])
           Now(pc, f) == lpc' = [lpc EXCEPT ![e] = pc] /\ frame' = [frame EXCEPT ![e] = f]
<1> HIDE DEF h
<1>0. /\ lpc \in [Ends -> {"read", "deliver", "echo", "over"}]
      /\ frame \in [Ends -> Frames \cup {NoFrame}]
      /\ HeldInv(e)
  BY DEF TypeOK, WireInv, HeldInv
<1>1. CASE ReadResponse(e)
  <2>1. Now("deliver", h) \/ UNCHANGED loopVars
    BY <1>1 DEF ReadResponse, Hold, h
  <2>2. h.kind \in Answers /\ h.of \in Calls /\ From[h.of] = e
    BY <1>1, ReadGets DEF h, Reads, Got, WireInv, Addressed
  <2> QED
    BY <1>0, <2>1, <2>2 DEF HeldInv, loopVars
<1>2. CASE ReadNote(e)
  <2>1. Now("echo", h) \/ UNCHANGED loopVars
    BY <1>2 DEF ReadNote, Hold, h
  <2>2. h.kind = "note" /\ h.of \in Notes
    BY <1>2, ReadGets, FrameParts DEF h
  <2> QED
    BY <1>0, <2>1, <2>2 DEF HeldInv, loopVars
<1>3. CASE Deliver(e) \/ SendEcho(e)
  <2>1. Now("read", NoFrame)
    BY <1>3 DEF Deliver, SendEcho, LetGo
  <2> QED
    BY <1>0, <2>1 DEF HeldInv
<1>4. CASE ReadEnd(e)
  <2>1. lpc' = [lpc EXCEPT ![e] = "over"] /\ UNCHANGED frame
    BY <1>4 DEF ReadEnd
  <2> QED
    BY <1>0, <2>1 DEF HeldInv
<1>5. CASE ReadRequest(e) \/ ReadCancel(e) \/ ReadEcho(e)
  <2>1. UNCHANGED loopVars
    BY <1>5 DEF ReadRequest, ReadCancel, ReadEcho
  <2> QED
    BY <1>0, <2>1 DEF HeldInv, loopVars
<1> QED
  BY <1>1, <1>2, <1>3, <1>4, <1>5 DEF LoopStep

\* Every step keeps what is said of the wires.
LEMMA StepWireInv ==
  ASSUME TypeOK, WireInv, CallInv, OrderInv, [Next]_vars
  PROVE  WireInv'
<1>1. ASSUME NEW d \in Ends PROVE Distinct(wire'[d]) /\ \A f \in Frames : Has(wire'[d], f) => Addressed(f, d)
  <2>1. Distinct(wire[d]) /\ \A f \in Frames : Has(wire[d], f) => Addressed(f, d)
    BY DEF WireInv
  <2>2. ASSUME NEW e \in Ends, NEW f \in Frames, Put(e, f), New(e, f)
        PROVE  Distinct(wire'[d]) /\ \A g \in Frames : Has(wire'[d], g) => Addressed(g, d)
    BY <2>1, <2>2 DEF Put, New
  <2>3. ASSUME NEW e \in Ends, NEW f \in Frames, Got(e, f)
        PROVE  Distinct(wire'[d]) /\ \A g \in Frames : Has(wire'[d], g) => Addressed(g, d)
    BY <2>1, <2>3 DEF Got
  <2> QED
    BY <2>1, <2>2, <2>3, WireSteps
<1>2. ASSUME NEW d \in Ends PROVE HeldInv(d)'
  <2>1. HeldInv(d)
    BY DEF WireInv, HeldInv
  <2>2. CASE UNCHANGED loopVars
    BY <2>1, <2>2 DEF loopVars, HeldInv
  <2>3. ASSUME NEW e \in Ends, LoopStep(e) PROVE HeldInv(d)'
    <3>1. CASE d = e
      BY <2>3, <3>1, LoopHolds
    <3>2. CASE d # e
      BY <2>1, <2>3, <3>2, LoopHolds DEF HeldInv
    <3> QED
      BY <3>1, <3>2
  <2> QED
    BY <2>2, <2>3 DEF Next, Run, Ask, Register, CallStep, SendCancel, ServeStep, GiveUp, SendRequest,
       ReturnAnswer, ReturnWithdrawn, ReturnClosed, Unregister, HandlerReturns, SendReply, Release,
       Notify, CloseStream, Close, vars
<1> QED
  BY <1>1, <1>2 DEF WireInv, HeldInv

-----------------------------------------------------------------------------
(* Every step keeps the order of the notifications.                        *)

\* The wire to d stays, takes a frame that is no notification, or loses its first.
WireMoves(d) ==
  \/ wire'[d] = wire[d]
  \/ \E f \in Frames : f.kind # "note" /\ wire'[d] = Append(wire[d], f)
  \/ wire[d] # <<>> /\ wire'[d] = Tail(wire[d])

\* Nothing happens to the notifications written to d.
NotesLeft(d) ==
  /\ written'[d] = written[d] /\ seen'[d] = seen[d]
  /\ lpc'[d] = "echo" <=> lpc[d] = "echo"
  /\ lpc[d] = "echo" => frame'[d].of = frame[d].of
  /\ \A n \in Notes : npc[n] = "done" => npc'[n] = "done"
  /\ WireMoves(d)
  /\ wire[d] # <<>> /\ wire'[d] = Tail(wire[d]) => Head(wire[d]).kind # "note"

\* The types these proofs need.
LEMMA NoteTypes ==
  ASSUME TypeOK, NEW e \in Ends
  PROVE  /\ wire[e] \in Seq(Frames) /\ written[e] \in Seq(Notes) /\ seen[e] \in Seq(Notes)
         /\ Len(written[e]) \in Nat /\ Len(seen[e]) \in Nat /\ Taken(e) \in Nat
         /\ lpc[e] # "echo" => Taken(e) = Len(seen[e])
         /\ lpc[e] = "echo" => Taken(e) = Len(seen[e]) + 1
         /\ \A k \in 1 .. Len(written[e]) : written[e][k] \in Notes
         /\ \A c \in Calls : before[c] \in Nat
<1>1. wire[e] \in Seq(Frames) /\ written[e] \in Seq(Notes) /\ seen[e] \in Seq(Notes)
  BY DEF TypeOK
<1>2. \A c \in Calls : before[c] \in Nat
  BY DEF TypeOK
<1>3. /\ Len(written[e]) \in Nat /\ Len(seen[e]) \in Nat
      /\ \A k \in 1 .. Len(written[e]) : written[e][k] \in Notes
  BY <1>1
<1>4. /\ Taken(e) \in Nat
      /\ lpc[e] # "echo" => Taken(e) = Len(seen[e])
      /\ lpc[e] = "echo" => Taken(e) = Len(seen[e]) + 1
  <2>1. CASE lpc[e] = "echo"
    BY <1>3, <2>1 DEF Taken
  <2>2. CASE lpc[e] # "echo"
    BY <1>3, <2>2 DEF Taken
  <2> QED
    BY <2>1, <2>2
<1> QED
  BY <1>1, <1>2, <1>3, <1>4

\* What is said of the notifications written to d stays true.
LEMMA NotesStay ==
  ASSUME TypeOK, NEW d \in Ends, NoteInv(d), NotesLeft(d)
  PROVE  NoteInv(d)'
<1>1. /\ wire[d] \in Seq(Frames) /\ written[d] \in Seq(Notes) /\ Taken(d) \in Nat
      /\ \A k \in 1 .. Len(written[d]) : written[d][k] \in Notes
  BY NoteTypes
<1>2. Taken(d)' = Taken(d)
  BY DEF NotesLeft, Taken
<1>3. InOrder(wire[d], written[d], Taken(d))
  BY DEF NoteInv
<1>4. InOrder(wire'[d], written[d], Taken(d))
  BY <1>1, <1>3, PutOther, GotOther DEF NotesLeft, WireMoves
<1>5. InOrder(wire[d], written[d], Taken(d))'
  BY <1>2, <1>4 DEF NotesLeft
<1> QED
  BY <1>1, <1>2, <1>5 DEF NoteInv, NotesLeft, Once

\* What is said of a request and the notifications written before it stays true.
LEMMA BeforeStays ==
  ASSUME TypeOK, NEW c \in Calls, BeforeInv(c), WireMoves(To(c)),
         before'[c] = before[c], written'[To(c)] = written[To(c)],
         seen'[To(c)] = seen[To(c)] \/ \E n \in Notes : seen'[To(c)] = Append(seen[To(c)], n),
         hpc'[c] # "none" => hpc[c] # "none" \/ before[c] <= Len(seen[To(c)])
  PROVE  BeforeInv(c)'
<1> DEFINE d == To(c)
<1>1. d \in Ends
  BY TwoEnds
<1>2. /\ wire[d] \in Seq(Frames) /\ written[d] \in Seq(Notes) /\ seen[d] \in Seq(Notes)
      /\ Len(seen[d]) \in Nat /\ before[c] \in Nat
  BY <1>1, NoteTypes
<1>3. Behind(wire'[d], written[d], c, before[c])
  BY <1>2, BehindStays DEF WireMoves, BeforeInv
<1>4. Len(seen'[d]) \in Nat /\ Len(seen[d]) <= Len(seen'[d])
  BY <1>2, AppendAt
<1>5. hpc'[c] # "none" => before[c] <= Len(seen'[d])
  BY <1>2, <1>4 DEF BeforeInv
<1> QED
  BY <1>3, <1>5 DEF BeforeInv

\* A wire that does not move has not lost its first frame.
LEMMA TailMoves ==
  ASSUME TypeOK, NEW d \in Ends, wire[d] # <<>>
  PROVE  Tail(wire[d]) # wire[d]
<1>1. Len(Tail(wire[d])) # Len(wire[d])
  BY NoteTypes
<1> QED
  BY <1>1

\* What a Put of another frame is to the wire of any end.
LEMMA MovesOf ==
  ASSUME NEW e \in Ends, NEW f \in Frames, f.kind # "note", Put(e, f) \/ UNCHANGED wire, TypeOK, NEW d \in Ends
  PROVE  WireMoves(d) /\ ~(wire[d] # <<>> /\ wire'[d] = Tail(wire[d]))
<1>1. wire[d] \in Seq(Frames)
  BY NoteTypes
<1>2. wire[d] # <<>> => Tail(wire[d]) # wire[d] /\ Tail(wire[d]) # Append(wire[d], f)
  <2>1. wire[d] # <<>> => /\ Len(Tail(wire[d])) = Len(wire[d]) - 1 /\ Len(wire[d]) \in Nat
                          /\ Len(Append(wire[d], f)) = Len(wire[d]) + 1
    BY <1>1
  <2>2. ASSUME wire[d] # <<>> PROVE Len(Tail(wire[d])) # Len(wire[d]) /\ Len(Tail(wire[d])) # Len(Append(wire[d], f))
    BY <2>1, <2>2
  <2> QED
    BY <2>2
<1>3. wire'[d] = wire[d] \/ wire'[d] = Append(wire[d], f)
  BY DEF Put
<1> QED
  BY <1>2, <1>3 DEF WireMoves

\* The steps of calls and their handlers.
LEMMA CallsOrder ==
  ASSUME TypeOK, WireInv, CallInv, OrderInv, NEW c \in Calls,
         Register(c) \/ CallStep(c) \/ SendCancel(c) \/ ServeStep(c) \/ GiveUp(c)
  PROVE  OrderInv'
<1>1. AboutCall(c)
  BY StepsAboutCall
<1>2. UNCHANGED <<npc, written, seen>>
  BY DEF Register, CallStep, SendCancel, ServeStep, GiveUp, SendRequest, ReturnAnswer, ReturnWithdrawn,
     ReturnClosed, Unregister, HandlerReturns, SendReply, Release, noteVars
<1>3. ASSUME NEW d \in Ends PROVE WireMoves(d) /\ ~(wire[d] # <<>> /\ wire'[d] = Tail(wire[d]))
  <2>1. \A f \in Frames : f.of = c => f.kind # "note"
    BY FrameParts, NoNoteIsACall
  <2>2. F("request", c) \in Frames /\ F("request", c).of = c
    BY FrameParts
  <2>3. PICK e \in Ends, f \in Frames : f.of = c /\ (Put(e, f) \/ UNCHANGED wire)
    BY <1>1, <2>2 DEF AboutCall
  <2> QED
    BY <2>1, <2>3, MovesOf
<1>4. \A d \in Ends : NotesLeft(d)
  BY <1>1, <1>2, <1>3 DEF NotesLeft, AboutCall, loopVars
<1>5. \A d \in Ends : NoteInv(d)'
  BY <1>4, NotesStay DEF OrderInv
<1>6. ASSUME NEW b \in Calls, before'[b] = before[b], hpc'[b] # "none" => hpc[b] # "none" PROVE BeforeInv(b)'
  <2>1. BeforeInv(b) /\ WireMoves(To(b))
    BY <1>3, TwoEnds DEF OrderInv
  <2> QED
    BY <1>2, <1>6, <2>1, BeforeStays
<1>7. \A b \in Calls \ {c} : hpc'[b] = hpc[b]
  BY <1>1 DEF AboutCall, OwnVars
<1>8. hpc'[c] # "none" => hpc[c] # "none"
  BY DEF Register, CallStep, SendCancel, ServeStep, GiveUp, SendRequest, ReturnAnswer, ReturnWithdrawn,
     ReturnClosed, Unregister, HandlerReturns, SendReply, Release, handlerVars
<1>9. CASE UNCHANGED before
  BY <1>5, <1>6, <1>7, <1>8, <1>9 DEF OrderInv
<1>10. CASE /\ cpc[c] = "write" /\ Write(From[c], F("request", c))
            /\ before' = [before EXCEPT ![c] = Len(written[To(c)])] /\ UNCHANGED hpc
  <2> DEFINE d == To(c)
  <2>0. From[c] \in Ends /\ d \in Ends /\ d = Other(From[c]) /\ F("request", c) \in Frames
    BY TwoEnds, FrameParts
  <2>1. /\ wire[d] \in Seq(Frames) /\ written[d] \in Seq(Notes) /\ Len(written[d]) \in Nat
        /\ before \in [Calls -> Nat]
    BY <2>0, NoteTypes DEF TypeOK
  <2>2. hpc[c] = "none" /\ ~Has(wire[d], F("request", c))
    BY <1>10 DEF CallInv, RequestInv
  <2>3. before'[c] = Len(written[d]) /\ \A b \in Calls \ {c} : before'[b] = before[b]
    BY <1>10, <2>1
  <2>4. wire'[d] = Append(wire[d], F("request", c))
    BY <1>10, <2>0, WritePuts DEF Put
  <2>5. Behind(wire'[d], written[d], c, Len(written[d]))
    <3>1. /\ Len(wire'[d]) = Len(wire[d]) + 1 /\ Len(wire[d]) \in Nat
          /\ \A i \in 1 .. Len(wire[d]) : wire'[d][i] = wire[d][i]
          /\ \A i \in 1 .. Len(wire'[d]) : i \in 1 .. Len(wire[d]) \/ i = Len(wire[d]) + 1
      BY <2>0, <2>1, <2>4, AppendAt
    <3>2. \A i \in 1 .. Len(wire'[d]) : wire'[d][i] = F("request", c) => i = Len(wire[d]) + 1
      BY <2>2, <3>1 DEF Has
    <3> QED
      BY <3>1, <3>2 DEF Behind
  <2>6. BeforeInv(c)'
    BY <1>2, <1>10, <2>1, <2>2, <2>3, <2>5 DEF BeforeInv
  <2>7. \A b \in Calls \ {c} : BeforeInv(b)'
    BY <1>6, <1>7, <2>3
  <2> QED
    BY <1>5, <2>6, <2>7 DEF OrderInv
<1>11. UNCHANGED before \/ SendRequest(c)
  BY DEF Register, CallStep, SendCancel, ServeStep, GiveUp, ReturnAnswer, ReturnWithdrawn,
     ReturnClosed, Unregister, HandlerReturns, SendReply, Release, noteVars
<1> QED
  BY <1>9, <1>10, <1>11 DEF SendRequest, handlerVars

\* A read loop that begins no notification and ends none.
LEMMA LoopElsewhere ==
  ASSUME TypeOK, OrderInv, NEW e \in Ends,
         UNCHANGED <<npc, written, seen, before>>,
         \A d \in Ends : WireMoves(d),
         \A d \in Ends : wire[d] # <<>> /\ wire'[d] = Tail(wire[d]) => Head(wire[d]).kind # "note",
         \A d \in Ends : (lpc[d] = "echo" \/ lpc'[d] = "echo") => UNCHANGED <<lpc[d], frame[d]>>,
         \A c \in Calls : hpc'[c] # "none" => hpc[c] # "none" \/ before[c] <= Len(seen[To(c)])
  PROVE  OrderInv'
<1>1. \A d \in Ends : NotesLeft(d)
  BY DEF NotesLeft
<1>2. \A d \in Ends : NoteInv(d)'
  BY <1>1, NotesStay DEF OrderInv
<1>3. ASSUME NEW c \in Calls PROVE BeforeInv(c)'
  <2>1. BeforeInv(c) /\ WireMoves(To(c))
    BY TwoEnds DEF OrderInv
  <2> QED
    BY <2>1, BeforeStays
<1> QED
  BY <1>2, <1>3 DEF OrderInv

\* The loop has begun the notification at the head of its wire; it handles it now, or has
\* it in hand.
LEMMA NoteTaken ==
  ASSUME TypeOK, WireInv, OrderInv, NEW e \in Ends, NEW n \in Notes,
         Reads(e, F("note", n)), UNCHANGED <<npc, written, before, hpc>>,
         \A d \in Ends \ {e} : UNCHANGED <<lpc[d], frame[d], seen[d]>>,
         \/ lpc'[e] = "echo" /\ frame'[e] = F("note", n) /\ UNCHANGED seen[e]
         \/ lpc'[e] = lpc[e] /\ seen'[e] = Append(seen[e], n)
  PROVE  OrderInv'
<1> DEFINE m == Len(seen[e])
           q == written[e]
<1>0. F("note", n) \in Frames /\ F("note", n).kind = "note" /\ F("note", n).of = n
      /\ \A x : F("note", n) = F("note", x) <=> n = x
  BY FrameParts
<1>1. /\ wire[e] \in Seq(Frames) /\ q \in Seq(Notes) /\ seen[e] \in Seq(Notes) /\ m \in Nat /\ Len(q) \in Nat
      /\ Taken(e) = m /\ lpc[e] = "read"
  BY NoteTypes DEF Reads
<1>2. NoteInv(e) /\ Distinct(wire[e])
  BY DEF OrderInv, WireInv
<1>3. wire[e] # <<>> /\ Head(wire[e]) = F("note", n) /\ wire'[e] = Tail(wire[e])
      /\ \A d \in Ends \ {e} : wire'[d] = wire[d]
  BY DEF Reads, Got
<1>4. m < Len(q) /\ F("note", n) = F("note", q[m + 1]) /\ InOrder(Tail(wire[e]), q, m + 1)
  BY <1>0, <1>1, <1>2, <1>3, GotNote DEF NoteInv
<1>5. n = q[m + 1] /\ m + 1 <= Len(q)
  BY <1>0, <1>1, <1>4
<1>6. Taken(e)' = m + 1
  <2>1. CASE lpc'[e] = "echo" /\ UNCHANGED seen[e]
    BY <1>1, <2>1 DEF Taken
  <2>2. CASE lpc'[e] = lpc[e] /\ seen'[e] = Append(seen[e], n)
    BY <1>1, <2>2 DEF Taken
  <2> QED
    BY <2>1, <2>2
<1>7. InOrder(wire[e], written[e], Taken(e))'
  BY <1>3, <1>4, <1>6
<1>8. /\ \A k \in 1 .. Len(seen'[e]) : seen'[e][k] = q[k]
      /\ lpc'[e] = "echo" => frame'[e].of = q[Len(seen'[e]) + 1]
  <2>1. CASE lpc'[e] = "echo" /\ frame'[e] = F("note", n) /\ UNCHANGED seen[e]
    BY <1>0, <1>2, <1>5, <2>1 DEF NoteInv
  <2>2. CASE lpc'[e] = lpc[e] /\ seen'[e] = Append(seen[e], n)
    BY <1>1, <1>2, <1>5, <2>2 DEF NoteInv
  <2> QED
    BY <2>1, <2>2
<1>9. NoteInv(e)'
  BY <1>2, <1>5, <1>6, <1>7, <1>8 DEF NoteInv, Once
<1>10. ASSUME NEW d \in Ends \ {e} PROVE NoteInv(d)'
  <2>1. NotesLeft(d)
    BY <1>3, TailMoves DEF NotesLeft, WireMoves
  <2> QED
    BY <2>1, NotesStay DEF OrderInv
<1>11. ASSUME NEW c \in Calls PROVE BeforeInv(c)'
  <2>1. BeforeInv(c) /\ To(c) \in Ends
    BY TwoEnds DEF OrderInv
  <2>2. WireMoves(To(c))
    BY <1>3, <2>1 DEF WireMoves
  <2>3. seen'[To(c)] = seen[To(c)] \/ \E x \in Notes : seen'[To(c)] = Append(seen[To(c)], x)
    BY <2>1
  <2> QED
    BY <2>1, <2>2, <2>3, BeforeStays
<1> QED
  BY <1>9, <1>10, <1>11 DEF OrderInv

\* The handler that sent a notification of its own has returned.
LEMMA NoteEnded ==
  ASSUME TypeOK, WireInv, OrderInv, NEW e \in Ends, SendEcho(e)
  PROVE  OrderInv'
<1> DEFINE n == frame[e].of
           m == Len(seen[e])
           q == written[e]
<1>0. /\ lpc[e] = "echo" /\ lpc' = [lpc EXCEPT ![e] = "read"] /\ frame' = [frame EXCEPT ![e] = NoFrame]
      /\ seen' = [seen EXCEPT ![e] = Append(seen[e], n)]
      /\ UNCHANGED <<npc, written, before, hpc>>
      /\ Write(e, F("echo", n)) \/ WriteFails(e)
      /\ n \in Notes
  BY DEF SendEcho, LetGo, Handled, handlerVars, WireInv
<1>1. /\ seen[e] \in Seq(Notes) /\ q \in Seq(Notes) /\ m \in Nat /\ Len(q) \in Nat /\ Taken(e) = m + 1
      /\ lpc \in [Ends -> {"read", "deliver", "echo", "over"}] /\ seen \in [Ends -> Seq(Notes)]
      /\ frame \in [Ends -> Frames \cup {NoFrame}]
  BY <1>0, NoteTypes DEF TypeOK
<1>2. /\ Other(e) \in Ends /\ F("echo", n) \in Frames /\ F("echo", n).kind = "echo"
      /\ Other(e) # e
  BY <1>0, FrameParts, TwoEnds
<1>3. Put(Other(e), F("echo", n)) \/ UNCHANGED wire
  BY <1>0, <1>2, WriteOrFail
<1>4. \A d \in Ends : WireMoves(d) /\ ~(wire[d] # <<>> /\ wire'[d] = Tail(wire[d]))
  BY <1>2, <1>3, MovesOf
<1>5. wire'[e] = wire[e]
  BY <1>2, <1>3 DEF Put
<1>6. NoteInv(e) /\ n = q[m + 1]
  BY <1>0 DEF OrderInv, NoteInv
<1>7. /\ seen'[e] = Append(seen[e], n) /\ lpc'[e] = "read"
      /\ \A d \in Ends \ {e} : UNCHANGED <<lpc[d], frame[d], seen[d]>>
  BY <1>0, <1>1
<1>8. Taken(e)' = m + 1 /\ \A k \in 1 .. Len(seen'[e]) : seen'[e][k] = q[k]
  <2>1. Len(seen'[e]) = m + 1
    BY <1>1, <1>7, <1>0
  <2>2. Taken(e)' = m + 1
    BY <1>1, <1>7, <2>1 DEF Taken
  <2>3. \A k \in 1 .. Len(seen'[e]) : seen'[e][k] = q[k]
    BY <1>0, <1>1, <1>6, <1>7 DEF NoteInv
  <2> QED
    BY <2>2, <2>3
<1>9. NoteInv(e)'
  <2>1. InOrder(wire[e], written[e], Taken(e))'
    BY <1>0, <1>1, <1>5, <1>6, <1>8 DEF NoteInv
  <2>2. Taken(e)' <= Len(written'[e])
    BY <1>0, <1>1, <1>6, <1>8 DEF NoteInv
  <2> QED
    BY <1>0, <1>6, <1>7, <1>8, <2>1, <2>2 DEF NoteInv, Once
<1>10. ASSUME NEW d \in Ends \ {e} PROVE NoteInv(d)'
  <2>1. NotesLeft(d)
    BY <1>0, <1>4, <1>7 DEF NotesLeft
  <2> QED
    BY <2>1, NotesStay DEF OrderInv
<1>11. ASSUME NEW c \in Calls PROVE BeforeInv(c)'
  <2>1. BeforeInv(c) /\ To(c) \in Ends
    BY TwoEnds DEF OrderInv
  <2>2. seen'[To(c)] = seen[To(c)] \/ \E x \in Notes : seen'[To(c)] = Append(seen[To(c)], x)
    BY <1>0, <1>7, <2>1
  <2> QED
    BY <1>0, <1>4, <2>1, <2>2, BeforeStays
<1> QED
  BY <1>9, <1>10, <1>11 DEF OrderInv

\* The steps of the read loops.
LEMMA LoopsOrder ==
  ASSUME TypeOK, WireInv, CallInv, OrderInv, NEW e \in Ends, LoopStep(e) \/ CloseStream(e) \/ Close(e)
  PROVE  OrderInv'
<1> DEFINE h == Head(wire[e])
           Now(pc, f) == lpc' = [lpc EXCEPT ![e] = pc] /\ frame' = [frame EXCEPT ![e] = f]
           Rest == UNCHANGED <<npc, written, seen, before>>
           Loops == \A d \in Ends : lpc[d] = "echo" \/ lpc'[d] = "echo" => UNCHANGED <<lpc[d], frame[d]>>
           Wires == \A d \in Ends : /\ WireMoves(d)
                                    /\ wire[d] # <<>> /\ wire'[d] = Tail(wire[d]) => Head(wire[d]).kind # "note"
           Handlers == \A c \in Calls : hpc'[c] # "none" => hpc[c] # "none" \/ before[c] <= Len(seen[To(c)])
<1> HIDE DEF h
<1>0. /\ lpc \in [Ends -> {"read", "deliver", "echo", "over"}]
      /\ frame \in [Ends -> Frames \cup {NoFrame}]
  BY DEF TypeOK
<1>1. ASSUME Reads(e, h), h.kind # "note" PROVE Wires
  <2>1. /\ wire[e] # <<>> /\ wire'[e] = Tail(wire[e]) /\ Head(wire[e]).kind # "note"
        /\ \A d \in Ends \ {e} : wire'[d] = wire[d]
    BY <1>1 DEF Reads, Got, h
  <2> QED
    BY <2>1, TailMoves DEF WireMoves
<1>2. ASSUME UNCHANGED wire PROVE Wires
  BY <1>2, TailMoves DEF WireMoves
<1>3. ASSUME Rest, Loops, Wires, Handlers PROVE OrderInv'
  BY <1>3, LoopElsewhere
<1>4. CASE ReadResponse(e)
  <2>1. Reads(e, h) /\ h.kind # "note"
    BY <1>4, ReadGets DEF h, Answers
  <2>2. Rest /\ UNCHANGED hpc /\ (Now("deliver", h) \/ UNCHANGED loopVars)
    BY <1>4 DEF ReadResponse, Hold, h, noteVars, handlerVars
  <2>3. Loops
    BY <1>0, <2>1, <2>2 DEF Reads, loopVars
  <2> QED
    BY <1>1, <1>3, <2>1, <2>2, <2>3
<1>5. CASE Deliver(e)
  <2>1. lpc[e] = "deliver" /\ Now("read", NoFrame) /\ Rest /\ UNCHANGED <<hpc, wire>>
    BY <1>5 DEF Deliver, LetGo, streamVars, noteVars, handlerVars
  <2>2. Loops
    BY <1>0, <2>1
  <2> QED
    BY <1>2, <1>3, <2>1, <2>2
<1>6. CASE ReadRequest(e)
  <2>1. Reads(e, h) /\ h = F("request", h.of) /\ h.of \in Calls /\ h.kind # "note"
    BY <1>6, ReadGets, FrameParts DEF h
  <2>2. Rest /\ UNCHANGED <<lpc, frame>> /\ hpc' = [hpc EXCEPT ![h.of] = "run"]
    BY <1>6 DEF ReadRequest, Subject, h, loopVars, noteVars
  <2>3. ASSUME NEW c \in Calls, hpc'[c] # "none", hpc[c] = "none" PROVE before[c] <= Len(seen[To(c)])
    <3>1. c = h.of
      BY <2>2, <2>3 DEF TypeOK
    <3>2. To(c) = e /\ wire[e] # <<>> /\ Head(wire[e]) = F("request", c)
      BY <2>1, <3>1, FrameParts DEF Reads, Got, WireInv, Addressed
    <3>3. /\ wire[e] \in Seq(Frames) /\ written[e] \in Seq(Notes) /\ Len(seen[e]) \in Nat
          /\ Taken(e) = Len(seen[e]) /\ before[c] \in Nat
      BY <2>1, NoteTypes DEF Reads
    <3>4. NoteInv(e) /\ BeforeInv(c)
      BY DEF OrderInv
    <3> QED
      BY <3>2, <3>3, <3>4, ReadBehind DEF NoteInv, BeforeInv
  <2> QED
    BY <1>1, <1>3, <2>1, <2>2, <2>3
<1>7. CASE ReadCancel(e)
  <2>1. Reads(e, h) /\ h.kind # "note"
    BY <1>7, ReadGets, FrameParts DEF h
  <2>2. Rest /\ UNCHANGED <<lpc, frame, hpc>>
    BY <1>7 DEF ReadCancel, loopVars, noteVars
  <2> QED
    BY <1>1, <1>3, <2>1, <2>2
<1>8. CASE ReadEcho(e)
  <2>1. Reads(e, h) /\ h.kind # "note"
    BY <1>8, ReadGets, FrameParts DEF h
  <2>2. Rest /\ UNCHANGED <<lpc, frame, hpc>>
    BY <1>8 DEF ReadEcho, loopVars, noteVars, handlerVars
  <2> QED
    BY <1>1, <1>3, <2>1, <2>2
<1>9. CASE ReadEnd(e)
  <2>1. lpc[e] = "read" /\ lpc' = [lpc EXCEPT ![e] = "over"] /\ Rest /\ UNCHANGED <<frame, hpc, wire>>
    BY <1>9 DEF ReadEnd, noteVars, handlerVars
  <2>2. Loops
    BY <1>0, <2>1
  <2> QED
    BY <1>2, <1>3, <2>1, <2>2
<1>10. CASE CloseStream(e) \/ Close(e)
  <2>1. Rest /\ UNCHANGED <<lpc, frame, hpc, wire>>
    BY <1>10 DEF CloseStream, Close, loopVars, noteVars, handlerVars
  <2> QED
    BY <1>2, <1>3, <2>1
<1>11. CASE ReadNote(e)
  <2>1. h.of \in Notes /\ h = F("note", h.of) /\ Reads(e, h) /\ lpc[e] = "read"
    BY <1>11, ReadGets DEF h, Reads
  <2>2. /\ UNCHANGED <<npc, written, before, hpc>>
        /\ \/ Now("echo", h) /\ UNCHANGED seen
           \/ seen' = [seen EXCEPT ![e] = Append(@, h.of)] /\ UNCHANGED <<lpc, frame>>
    BY <1>11 DEF ReadNote, Hold, Handled, Subject, h, handlerVars, loopVars
  <2>3. /\ \A d \in Ends \ {e} : UNCHANGED <<lpc[d], frame[d], seen[d]>>
        /\ \/ lpc'[e] = "echo" /\ frame'[e] = h /\ UNCHANGED seen[e]
           \/ lpc'[e] = lpc[e] /\ seen'[e] = Append(seen[e], h.of)
    BY <1>0, <2>2 DEF TypeOK
  <2> QED
    BY <2>1, <2>2, <2>3, NoteTaken
<1> QED
  BY <1>4, <1>5, <1>6, <1>7, <1>8, <1>9, <1>10, <1>11, NoteEnded DEF LoopStep

\* A notification is written behind those written before it.
LEMMA NotifyOrder ==
  ASSUME TypeOK, WireInv, CallInv, OrderInv, NEW n \in Notes, Notify(n)
  PROVE  OrderInv'
<1> DEFINE e == To(n)
           f == F("note", n)
           q == written[e]
<1>0. e \in Ends /\ From[n] \in Ends /\ e = Other(From[n]) /\ f \in Frames
  BY TwoEnds, FrameParts
<1>1. /\ npc[n] = "idle" /\ npc' = [npc EXCEPT ![n] = "done"] /\ UNCHANGED <<lpc, frame, hpc, seen, before>>
      /\ \/ Write(From[n], f) /\ written' = [written EXCEPT ![e] = Append(q, n)]
         \/ UNCHANGED <<wire, written>>
  BY DEF Notify, WriteFails, loopVars, handlerVars
<1>2. npc \in [Notes -> {"idle", "done"}] /\ written \in [Ends -> Seq(Notes)]
  BY DEF TypeOK
<1>3. npc'[n] = "done" /\ \A x \in Notes : npc[x] = "done" => npc'[x] = "done"
  BY <1>1, <1>2
<1>4. ASSUME NEW d \in Ends, UNCHANGED <<wire[d], written[d]>> PROVE NoteInv(d)' /\ WireMoves(d)
  <2>1. NotesLeft(d)
    BY <1>1, <1>3, <1>4, TailMoves DEF NotesLeft, WireMoves
  <2> QED
    BY <2>1, NotesStay DEF OrderInv, NotesLeft
<1>5. ASSUME NEW c \in Calls, UNCHANGED <<wire[To(c)], written[To(c)]>> PROVE BeforeInv(c)'
  <2>1. To(c) \in Ends /\ BeforeInv(c)
    BY TwoEnds DEF OrderInv
  <2>2. WireMoves(To(c))
    BY <1>4, <1>5, <2>1
  <2> QED
    BY <1>1, <1>5, <2>1, <2>2, BeforeStays
<1>6. CASE UNCHANGED <<wire, written>>
  BY <1>4, <1>5, <1>6 DEF OrderInv
<1>7. CASE Write(From[n], f) /\ written' = [written EXCEPT ![e] = Append(q, n)]
  <2>1. /\ wire'[e] = Append(wire[e], f) /\ \A d \in Ends \ {e} : wire'[d] = wire[d]
    BY <1>0, <1>7, WritePuts DEF Put
  <2>2. /\ wire[e] \in Seq(Frames) /\ q \in Seq(Notes) /\ Taken(e) \in Nat /\ Len(q) \in Nat
        /\ Len(seen[e]) \in Nat /\ seen[e] \in Seq(Notes)
        /\ \A k \in 1 .. Len(q) : q[k] \in Notes
        /\ \A c \in Calls : before[c] \in Nat
    BY <1>0, NoteTypes
  <2>3. written'[e] = Append(q, n) /\ \A d \in Ends \ {e} : written'[d] = written[d]
    BY <1>0, <1>2, <1>7
  <2>4. NoteInv(e) /\ ~Has(wire[e], f) /\ \A k \in 1 .. Len(q) : q[k] # n
    <3>1. NoteInv(e) /\ New(e, f)
      BY <1>0, <1>1, WhatIsNew DEF OrderInv
    <3>2. f.kind \in Single
      BY FrameParts DEF Single
    <3> QED
      BY <1>1, <3>1, <3>2 DEF New, NoteInv
  <2>5. /\ Len(Append(q, n)) = Len(q) + 1 /\ Append(q, n)[Len(q) + 1] = n
        /\ \A k \in 1 .. Len(q) : Append(q, n)[k] = q[k]
        /\ \A k \in 1 .. Len(Append(q, n)) : k \in 1 .. Len(q) \/ k = Len(q) + 1
    BY <2>2, AppendAt
  <2>6. Taken(e)' = Taken(e) /\ Taken(e) <= Len(q)
    BY <1>1, <2>4 DEF Taken, NoteInv
  <2>7. InOrder(wire'[e], Append(q, n), Taken(e)) /\ Once(Append(q, n))
    BY <2>1, <2>2, <2>4, <2>6, PutNote DEF NoteInv
  <2>8. NoteInv(e)'
    <3>1. InOrder(wire[e], written[e], Taken(e))' /\ Once(written[e])' /\ Taken(e)' <= Len(written'[e])
      BY <2>2, <2>3, <2>5, <2>6, <2>7
    <3>2. \A k \in 1 .. Len(written'[e]) : npc'[written'[e][k]] = "done" /\ To(written'[e][k]) = e
      BY SMTT(30), <1>3, <2>2, <2>3, <2>4, <2>5 DEF NoteInv
    <3>3. Len(seen[e]) <= Len(q) /\ (lpc[e] = "echo" => Len(seen[e]) + 1 <= Len(q))
      BY <1>0, <2>2, <2>6, NoteTypes
    <3>4. /\ \A k \in 1 .. Len(seen'[e]) : seen'[e][k] = written'[e][k]
          /\ lpc'[e] = "echo" => frame'[e].of = written'[e][Len(seen'[e]) + 1]
      BY <1>1, <2>2, <2>3, <2>4, <2>5, <3>3 DEF NoteInv
    <3> QED
      BY <3>1, <3>2, <3>4 DEF NoteInv
  <2>9. \A d \in Ends \ {e} : NoteInv(d)'
    BY <1>4, <2>1, <2>3
  <2>10. ASSUME NEW c \in Calls PROVE BeforeInv(c)'
    <3>1. CASE To(c) = e
      <4>1. BeforeInv(c)
        BY DEF OrderInv
      <4>2. Behind(wire'[e], Append(q, n), c, before[c])
        BY <2>1, <2>2, <2>4, <3>1, <4>1, BehindNewNote DEF BeforeInv
      <4>3. before[c] <= Len(Append(q, n))
        BY <2>2, <2>5, <3>1, <4>1 DEF BeforeInv
      <4> QED
        BY <1>1, <2>3, <3>1, <4>1, <4>2, <4>3 DEF BeforeInv
    <3>2. CASE To(c) # e
      BY <1>5, <2>1, <2>3, <3>2, TwoEnds
    <3> QED
      BY <3>1, <3>2
  <2> QED
    BY <2>8, <2>9, <2>10 DEF OrderInv
<1> QED
  BY <1>1, <1>6, <1>7

\* Every step keeps the order of the notifications.
LEMMA StepOrderInv ==
  ASSUME TypeOK, WireInv, CallInv, OrderInv, [Next]_vars
  PROVE  OrderInv'
<1>1. CASE UNCHANGED vars
  BY <1>1 DEF vars, streamVars, loopVars, handlerVars, noteVars, OrderInv, NoteInv, BeforeInv, Taken
<1> QED
  BY <1>1, CallsOrder, LoopsOrder, NotifyOrder DEF Next, Run, Ask

-----------------------------------------------------------------------------
(* The theorems.                                                           *)

\* Nothing has been sent and nobody has been canceled before the first call.
LEMMA InitIInv ==
  ASSUME Init
  PROVE  IInv
<1> USE DEF Init
<1>0. \A f : \A e \in Ends : ~Has(wire[e], f)
  BY DEF Has
<1>1. TypeOK
  <2>1. <<>> \in Seq(Frames) /\ <<>> \in Seq(Notes) /\ Len(<<>>) <= Capacity
    BY ConnAssumption DEF ConnAssumption
  <2> QED
    BY <2>1 DEF TypeOK
<1>2. WireInv
  BY <1>0 DEF WireInv, Distinct
<1>3. CallInv
  <2> SUFFICES ASSUME NEW c \in Calls PROVE RequestInv(c) /\ AnswerInv(c) /\ CancelInv(c)
    BY DEF CallInv
  <2>1. From[c] \in Ends /\ To(c) \in Ends
    BY TwoEnds
  <2>2. ~InHand(c)
    BY <2>1 DEF InHand
  <2> QED
    BY <1>0, <2>1, <2>2 DEF RequestInv, AnswerInv, CancelInv, Precedes
<1>4. OrderInv
  <2>1. \A e \in Ends : NoteInv(e)
    BY DEF NoteInv, InOrder, Once, Taken
  <2>2. ASSUME NEW c \in Calls PROVE BeforeInv(c)
    BY TwoEnds DEF BeforeInv, Behind
  <2> QED
    BY <2>1, <2>2 DEF OrderInv
<1> QED
  BY <1>1, <1>2, <1>3, <1>4 DEF IInv

\* The strengthened invariant is inductive.
THEOREM Invariance == Spec => []IInv
<1>1. Init => IInv
  BY InitIInv
<1>2. IInv /\ [Next]_vars => IInv'
  BY StepTypeOK, StepWireInv, StepCallInv, StepOrderInv DEF IInv
<1> QED
  BY <1>1, <1>2, PTL DEF Spec

\* Every variable keeps its type, and no pipe holds more than its capacity.
THEOREM TypeCorrect == Spec => []TypeOK
<1>1. IInv => TypeOK
  BY DEF IInv
<1> QED
  BY <1>1, Invariance, PTL

\* deliver never waits for room in the channel of a call (conn.go: buffered, cap 1): a
\* call has at most one response anywhere.
THEOREM DeliveryNeverBlocks == Spec => []DeliverNeverBlocks
<1>1. ASSUME IInv PROVE DeliverNeverBlocks
  <2> SUFFICES ASSUME NEW e \in Ends, lpc[e] = "deliver" PROVE box[frame[e].of] = "none"
    BY DEF DeliverNeverBlocks
  <2>1. frame[e].of \in Calls /\ From[frame[e].of] = e
    BY <1>1 DEF IInv, WireInv
  <2>2. InHand(frame[e].of)
    BY <2>1 DEF InHand
  <2> QED
    BY <1>1, <2>1, <2>2 DEF IInv, CallInv, AnswerInv
<1> QED
  BY <1>1, Invariance, PTL

\* Notifications are handled in the order they were written to the stream, and a request
\* is served after all those written before it (handleInbound runs them on the loop).
THEOREM NotificationsInOrder == Spec => []WireOrder
<1>1. ASSUME IInv PROVE WireOrder
  <2>1. ASSUME NEW e \in Ends PROVE seen[e] = SubSeq(written[e], 1, Len(seen[e]))
    <3>1. /\ seen[e] \in Seq(Notes) /\ written[e] \in Seq(Notes) /\ Len(seen[e]) \in Nat
          /\ Len(seen[e]) <= Len(written[e]) /\ \A k \in 1 .. Len(seen[e]) : seen[e][k] = written[e][k]
      <4>1. /\ NoteInv(e) /\ seen[e] \in Seq(Notes) /\ written[e] \in Seq(Notes)
            /\ Len(seen[e]) \in Nat /\ Len(written[e]) \in Nat
            /\ (Taken(e) = Len(seen[e]) \/ Taken(e) = Len(seen[e]) + 1)
        BY <1>1, NoteTypes DEF IInv, OrderInv
      <4> QED
        BY <4>1 DEF NoteInv
    <3> QED
      BY <3>1
  <2>2. \A c \in Calls : hpc[c] # "none" => before[c] <= Len(seen[To(c)])
    BY <1>1 DEF IInv, OrderInv, BeforeInv
  <2> QED
    BY <2>1, <2>2 DEF WireOrder
<1> QED
  BY <1>1, Invariance, PTL

\* A handler's context is canceled only after the caller of that very call has withdrawn,
\* and no caller is told that its request was canceled (serveRequest, handleCancel).
THEOREM CanceledOnlyWithdrawn == Spec => []OnlyWithdrawnAreCanceled
<1>1. IInv => OnlyWithdrawnAreCanceled
  BY DEF IInv, CallInv, CancelInv, OnlyWithdrawnAreCanceled
<1> QED
  BY <1>1, Invariance, PTL

\* Only a read takes a frame from a wire.
LEMMA WritesTakeNothing ==
  ASSUME TypeOK, NEW e \in Ends, wire[e] # <<>>,
         UNCHANGED wire \/ \E d \in Ends, f \in Frames : Put(d, f)
  PROVE  wire'[e] # Tail(wire[e])
<1>1. CASE wire'[e] = wire[e]
  BY <1>1, TailMoves
<1>2. ASSUME NEW f \in Frames, wire'[e] = Append(wire[e], f) PROVE wire'[e] # Tail(wire[e])
  <2>1. /\ Len(Tail(wire[e])) = Len(wire[e]) - 1 /\ Len(wire[e]) \in Nat
        /\ Len(Append(wire[e], f)) = Len(wire[e]) + 1
    BY NoteTypes
  <2> QED
    BY <1>2, <2>1
<1> QED
  BY <1>1, <1>2 DEF Put

\* The step that reads a $/cancelRequest is ReadCancel.
LEMMA CancelIsRead ==
  ASSUME IInv, [Next]_vars, NEW e \in Ends, NEW c \in Calls,
         wire[e] # <<>>, Head(wire[e]) = F("cancel", c), wire'[e] = Tail(wire[e])
  PROVE  ReadCancel(e)
<1>0. TypeOK /\ WireInv /\ CallInv
  BY DEF IInv
<1>1. ~(UNCHANGED wire \/ \E d \in Ends, f \in Frames : Put(d, f))
  BY <1>0, WritesTakeNothing
<1>2. ASSUME NEW d \in Ends, NEW f \in Frames, Got(d, f) PROVE d = e /\ f.kind = "cancel"
  <2>1. d = e
    BY <1>0, <1>2, TailMoves DEF Got
  <2> QED
    BY <1>2, <2>1, FrameParts DEF Got
<1>3. ASSUME NEW b \in Calls, Register(b) \/ CallStep(b) \/ SendCancel(b) \/ ServeStep(b) \/ GiveUp(b)
      PROVE  FALSE
  BY <1>0, <1>1, <1>3, StepsAboutCall DEF AboutCall
<1>4. ASSUME NEW n \in Notes, Notify(n) PROVE FALSE
  <2>1. Write(From[n], F("note", n)) \/ WriteFails(From[n])
    BY <1>4 DEF Notify
  <2>2. From[n] \in Ends /\ Other(From[n]) \in Ends /\ F("note", n) \in Frames
    BY TwoEnds, FrameParts
  <2> QED
    BY <1>0, <1>1, <2>1, <2>2, WriteOrFail
<1>5. ASSUME NEW d \in Ends, LoopStep(d) \/ CloseStream(d) \/ Close(d) PROVE ReadCancel(e)
  <2>1. ~(Deliver(d) \/ ReadEnd(d) \/ CloseStream(d) \/ Close(d))
    BY <1>1 DEF Deliver, ReadEnd, CloseStream, Close, streamVars
  <2>2. ~SendEcho(d)
    <3>1. SendEcho(d) => (Write(d, F("echo", frame[d].of)) \/ WriteFails(d)) /\ frame[d].of \in Notes
      BY <1>0 DEF SendEcho, WireInv
    <3> QED
      BY <1>0, <1>1, <3>1, FrameParts, TwoEnds, WriteOrFail
  <2>3. ~(ReadResponse(d) \/ ReadRequest(d) \/ ReadNote(d) \/ ReadEcho(d))
    BY <1>0, <1>2, ReadGets, FrameParts DEF Reads, Answers
  <2>4. ReadCancel(d) => d = e
    BY <1>0, <1>2, ReadGets DEF Reads
  <2> QED
    BY <1>5, <2>1, <2>2, <2>3, <2>4 DEF LoopStep
<1>6. ~UNCHANGED vars
  BY <1>1 DEF vars, streamVars
<1> QED
  BY <1>3, <1>4, <1>5, <1>6 DEF Next, Run, Ask

\* A $/cancelRequest that is read cancels its handler, unless that is done: the request
\* was read before it, and is in c.inflight until its handler has replied.
THEOREM CancelReaches == Spec => CancelNotLost
<1>1. ASSUME IInv, [Next]_vars, NEW e \in Ends, NEW c \in Calls,
             wire[e] # <<>>, Head(wire[e]) = F("cancel", c), wire'[e] = Tail(wire[e])
      PROVE  hcancel'[c] \/ hpc[c] = "done"
  <2>1. hcancel' = [hcancel EXCEPT ![c] = c \in inflight]
    BY <1>1, CancelIsRead, FrameParts DEF ReadCancel, Subject
  <2>2. hcancel'[c] <=> c \in inflight
    BY <1>1, <2>1 DEF IInv, TypeOK
  <2>3. wire[e] \in Seq(Frames)
    BY <1>1 DEF IInv, TypeOK
  <2>4. Has(wire[e], F("cancel", c)) /\ F("cancel", c) \in Frames
    BY <1>1, <2>3, TailHas, FrameParts
  <2>5. To(c) = e
    BY <1>1, <2>4, FrameParts DEF IInv, WireInv, Addressed
  <2>6. hpc[c] # "none"
    BY <1>1, <2>3, <2>5, TailHas DEF IInv, CallInv, CancelInv
  <2>7. c \in inflight <=> hpc[c] \in {"run", "reply", "release"}
    BY <1>1 DEF IInv, CallInv, RequestInv
  <2>8. hpc[c] \in {"none", "run", "reply", "release", "done"}
    BY <1>1 DEF IInv, TypeOK
  <2> QED
    BY <2>2, <2>6, <2>7, <2>8
<1>2. IInv /\ [Next]_vars =>
        [\A e \in Ends, c \in Calls :
           wire[e] # <<>> /\ Head(wire[e]) = F("cancel", c) /\ wire'[e] = Tail(wire[e])
             => hcancel'[c] \/ hpc[c] = "done"]_vars
  BY <1>1
<1> QED
  BY <1>2, Invariance, PTL DEF Spec, CancelNotLost

-----------------------------------------------------------------------------
(* What the refinement needs beyond IInv.                                  *)

\* There is at most one f.
Lone(s, f) == \A i, j \in 1 .. Len(s) : s[i] = f /\ s[j] = f => i = j

\* A connection goes down because an owner has closed one: its own, where the cause says
\* so; and a call's context ends where its caller lets it.
OwnersInv ==
  /\ \A e \in Ends : /\ cut[e] \/ cause[e] = "ErrClosed" => closing[e]
                     /\ closed[e] => \E d \in Ends : closing[d]
  /\ \A c \in Calls : gaveUp[c] => c \in Impatient

\* A call that could not be written is not served.
UnsentInv(c) ==
  result[c] = "writeError" => hpc[c] = "none" /\ ~Has(wire[To(c)], F("request", c))

\* A cancellation is sent once, so that none arrives after the one that was obeyed.
CancelOnce(c) ==
  /\ Lone(wire[To(c)], F("cancel", c))
  /\ kpc[c] = "write" => ~hcancel[c]
  /\ kpc[c] = "write" \/ hcancel[c] => ~Has(wire[To(c)], F("cancel", c))

RpcInv == OwnersInv /\ \A c \in Calls : UnsentInv(c) /\ CancelOnce(c)

-----------------------------------------------------------------------------
(* One frame on a wire.                                                    *)

\* Appending another frame, or the first of its kind, and taking one, keep a frame alone;
\* once taken, it is gone.
LEMMA LoneStays ==
  ASSUME NEW s \in Seq(Frames), NEW f \in Frames, Lone(s, f)
  PROVE  /\ \A g \in Frames : g # f \/ ~Has(s, f) => Lone(Append(s, g), f)
         /\ s # <<>> => Lone(Tail(s), f) /\ (Head(s) = f => ~Has(Tail(s), f))
<1>1. ASSUME NEW g \in Frames, g # f \/ ~Has(s, f) PROVE Lone(Append(s, g), f)
  <2> DEFINE t == Append(s, g)
  <2>1. /\ t[Len(s) + 1] = g /\ \A i \in 1 .. Len(s) : t[i] = s[i]
        /\ \A i \in 1 .. Len(t) : i \in 1 .. Len(s) \/ i = Len(s) + 1
    BY AppendAt
  <2> HIDE DEF t
  <2>2. Lone(t, f)
    BY <1>1, <2>1 DEF Lone, Has
  <2> QED
    BY <2>2 DEF t
<1>2. ASSUME s # <<>> PROVE Lone(Tail(s), f) /\ (Head(s) = f => ~Has(Tail(s), f))
  <2> DEFINE t == Tail(s)
  <2>1. /\ Len(s) \in Nat /\ Len(t) = Len(s) - 1 /\ 1 \in 1 .. Len(s) /\ Head(s) = s[1]
        /\ \A i \in 1 .. Len(t) : t[i] = s[i + 1] /\ i + 1 \in 1 .. Len(s) /\ 1 < i + 1
    BY <1>2, TailAt
  <2> HIDE DEF t
  <2>2. ASSUME NEW i \in 1 .. Len(t), NEW j \in 1 .. Len(t), t[i] = f, t[j] = f PROVE i = j
    <3>1. i + 1 = j + 1
      BY <2>1, <2>2 DEF Lone
    <3> QED
      BY <3>1
  <2>3. ASSUME Head(s) = f, NEW i \in 1 .. Len(t), t[i] = f PROVE FALSE
    <3>1. i + 1 = 1
      BY <2>1, <2>3 DEF Lone
    <3> QED
      BY <2>1, <3>1
  <2>4. Lone(t, f) /\ (Head(s) = f => ~Has(t, f))
    BY <2>2, <2>3 DEF Lone, Has
  <2> QED
    BY <2>4 DEF t
<1> QED
  BY <1>1, <1>2


-----------------------------------------------------------------------------
(* Every step keeps it.                                                    *)

\* Only owners close, and a connection that sees the end of the stream has one to blame.
LEMMA StepOwners ==
  ASSUME TypeOK, OwnersInv, [Next]_vars
  PROVE  OwnersInv'
<1>0. \A e \in Ends : Other(e) \in Ends
  BY TwoEnds
<1>1. ASSUME NEW c \in Calls, Register(c) \/ CallStep(c) \/ SendCancel(c) \/ ServeStep(c) \/ GiveUp(c)
      PROVE  OwnersInv'
  <2>1. UNCHANGED <<closed, cause, closing, cut>>
    BY <1>1 DEF Register, CallStep, SendCancel, ServeStep, GiveUp, SendRequest, ReturnAnswer,
       ReturnWithdrawn, ReturnClosed, Unregister, HandlerReturns, SendReply, Release, streamVars
  <2>2. CASE GiveUp(c)
    BY <2>1, <2>2 DEF GiveUp, OwnersInv, TypeOK
  <2>3. CASE ~GiveUp(c)
    <3>1. UNCHANGED gaveUp
      BY <1>1, <2>3 DEF Register, CallStep, SendCancel, ServeStep, SendRequest, ReturnAnswer,
         ReturnWithdrawn, ReturnClosed, Unregister, HandlerReturns, SendReply, Release, callVars
    <3> QED
      BY <2>1, <3>1 DEF OwnersInv
  <2> QED
    BY <2>2, <2>3
<1>2. ASSUME NEW n \in Notes, Notify(n) PROVE OwnersInv'
  BY <1>2 DEF Notify, callVars, OwnersInv
<1>3. ASSUME NEW e \in Ends, Close(e) PROVE OwnersInv'
  <2>1. /\ closing' = [closing EXCEPT ![e] = TRUE] /\ closed' = [closed EXCEPT ![e] = TRUE]
        /\ UNCHANGED <<cut, gaveUp>>
        /\ \A d \in Ends \ {e} : cause'[d] = cause[d]
    BY <1>3 DEF Close, FailWith, callVars, TypeOK
  <2>2. closing'[e] /\ \A d \in Ends \ {e} : closing'[d] = closing[d] /\ closed'[d] = closed[d]
    BY <2>1 DEF TypeOK
  <2>3. \A d \in Ends : closing[d] => closing'[d]
    BY <2>2
  <2> QED
    BY <2>1, <2>2, <2>3 DEF OwnersInv
<1>4. ASSUME NEW e \in Ends, CloseStream(e) PROVE OwnersInv'
  BY <1>4 DEF CloseStream, callVars, OwnersInv, TypeOK
<1>5. ASSUME NEW e \in Ends, ReadEnd(e) PROVE OwnersInv'
  <2>1. \E d \in Ends : closing[d]
    BY <1>0, <1>5 DEF ReadEnd, OwnersInv
  <2>2. /\ \A d \in Ends : cause'[d] = "ErrClosed" => cause[d] = "ErrClosed"
        /\ UNCHANGED <<closing, cut, gaveUp>>
    BY <1>5 DEF ReadEnd, FailWith, callVars, TypeOK
  <2> QED
    BY <2>1, <2>2 DEF OwnersInv
<1>6. ASSUME NEW e \in Ends, LoopStep(e), ~ReadEnd(e) PROVE OwnersInv'
  <2>1. UNCHANGED <<closed, cause, closing, cut, gaveUp>>
    BY <1>6 DEF LoopStep, ReadResponse, Deliver, ReadRequest, ReadCancel, ReadNote, SendEcho, ReadEcho,
       streamVars, callVars
  <2> QED
    BY <2>1 DEF OwnersInv
<1>7. CASE UNCHANGED vars
  BY <1>7 DEF vars, streamVars, callVars, OwnersInv
<1> QED
  BY <1>1, <1>2, <1>3, <1>4, <1>5, <1>6, <1>7 DEF Next, Run, Ask

\* Reads, and writes of other frames, bring no frame where there was none, and leave one
\* alone.
LEMMA FrameMoves ==
  ASSUME TypeOK, NEW e \in Ends, NEW f \in Frames,
         UNCHANGED wire \/ \E d \in Ends, g \in Frames : Got(d, g) \/ (Put(d, g) /\ g # f)
  PROVE  /\ Has(wire'[e], f) => Has(wire[e], f)
         /\ Lone(wire[e], f) => Lone(wire'[e], f)
<1>1. wire[e] \in Seq(Frames)
  BY DEF TypeOK
<1>2. CASE wire'[e] = wire[e]
  BY <1>2
<1>3. ASSUME NEW g \in Frames, Got(e, g)
      PROVE  (Has(wire'[e], f) => Has(wire[e], f)) /\ (Lone(wire[e], f) => Lone(wire'[e], f))
  BY <1>1, <1>3, LoneStays DEF Got
<1>4. ASSUME NEW g \in Frames, Put(e, g), g # f
      PROVE  (Has(wire'[e], f) => Has(wire[e], f)) /\ (Lone(wire[e], f) => Lone(wire'[e], f))
  BY <1>1, <1>4, LoneStays DEF Put
<1> QED
  BY <1>2, <1>3, <1>4 DEF Got, Put

\* What a step leaves of a call's request and cancellation, when it writes neither.
LEMMA OnceLeftAlone ==
  ASSUME TypeOK, NEW c \in Calls, UnsentInv(c), CancelOnce(c),
         result'[c] = "writeError" => result[c] = "writeError",
         kpc'[c] = "write" => kpc[c] = "write",
         hcancel'[c] => hcancel[c],
         hpc'[c] = hpc[c] \/ result[c] # "writeError",
         \/ UNCHANGED wire
         \/ \E d \in Ends, g \in Frames : Got(d, g) \/ (Put(d, g) /\ g \notin {F("request", c), F("cancel", c)})
  PROVE  UnsentInv(c)' /\ CancelOnce(c)'
<1>1. To(c) \in Ends /\ F("request", c) \in Frames /\ F("cancel", c) \in Frames
  BY TwoEnds, FrameParts
<1>2. /\ Has(wire'[To(c)], F("request", c)) => Has(wire[To(c)], F("request", c))
      /\ Has(wire'[To(c)], F("cancel", c)) => Has(wire[To(c)], F("cancel", c))
      /\ Lone(wire[To(c)], F("cancel", c)) => Lone(wire'[To(c)], F("cancel", c))
  BY <1>1, FrameMoves
<1>3. UnsentInv(c)'
  BY <1>2 DEF UnsentInv
<1>4. CancelOnce(c)'
  BY <1>2 DEF CancelOnce
<1> QED
  BY <1>3, <1>4


\* What the steps of a call do to its own request and cancellation.
LEMMA OwnCallOnce ==
  ASSUME IInv, NEW c \in Calls, UnsentInv(c), CancelOnce(c),
         Register(c) \/ CallStep(c) \/ SendCancel(c) \/ GiveUp(c)
  PROVE  UnsentInv(c)' /\ CancelOnce(c)'
<1>0. /\ TypeOK /\ RequestInv(c) /\ CancelInv(c)
      /\ From[c] \in Ends /\ To(c) \in Ends /\ To(c) = Other(From[c])
      /\ F("request", c) \in Frames /\ F("cancel", c) \in Frames
      /\ F("request", c) # F("cancel", c)
  BY TwoEnds, FrameParts DEF IInv, CallInv
<1>1. CASE Register(c)
  <2>1. /\ result'[c] = result[c] \/ (result'[c] = cause[From[c]] /\ closed[From[c]])
        /\ UNCHANGED <<wire, kpc, hpc, hcancel>>
    BY <1>0, <1>1 DEF Register, streamVars, handlerVars, TypeOK
  <2>2. closed[From[c]] => cause[From[c]] # "writeError"
    BY <1>0 DEF TypeOK, Causes
  <2> QED
    BY <1>0, <2>1, <2>2, OnceLeftAlone
<1>2. CASE SendRequest(c)
  <2>1. /\ cpc[c] = "write" /\ result[c] = "none" /\ UNCHANGED <<kpc, hpc, hcancel>>
        /\ kpc[c] # "write" /\ ~hcancel[c] /\ ~Has(wire[To(c)], F("cancel", c))
        /\ hpc[c] = "none" /\ ~Has(wire[To(c)], F("request", c))
    BY <1>0, <1>2 DEF SendRequest, handlerVars, RequestInv, CancelInv
  <2>2. CASE Write(From[c], F("request", c)) /\ UNCHANGED result
    <3>1. Put(To(c), F("request", c))
      BY <1>0, <2>2, WritePuts
    <3>2. /\ ~Has(wire'[To(c)], F("cancel", c))
          /\ Lone(wire[To(c)], F("cancel", c)) => Lone(wire'[To(c)], F("cancel", c))
      BY <1>0, <2>1, <3>1, FrameMoves
    <3> QED
      BY <2>1, <2>2, <3>2 DEF UnsentInv, CancelOnce
  <2>3. CASE UNCHANGED wire
    BY <2>1, <2>3 DEF UnsentInv, CancelOnce
  <2> QED
    BY <1>2, <2>2, <2>3 DEF SendRequest, WriteFails
<1>3. CASE ReturnAnswer(c) \/ ReturnClosed(c)
  <2>1. /\ result'[c] \in {box[c], cause[From[c]]} /\ (ReturnClosed(c) \/ result'[c] = box[c])
        /\ UNCHANGED <<wire, kpc, hpc, hcancel>>
    BY <1>0, <1>3 DEF ReturnAnswer, ReturnClosed, Settle, CallTo, streamVars, handlerVars, TypeOK
  <2>2. box[c] # "writeError" /\ cause[From[c]] # "writeError"
    BY ZenonT(60), <1>0 DEF TypeOK, Causes, Answers
  <2> QED
    BY <1>0, <2>1, <2>2, OnceLeftAlone
<1>4. CASE ReturnWithdrawn(c)
  <2>1. /\ cpc[c] = "wait" /\ result[c] = "none" /\ result'[c] = "withdrawn"
        /\ ~hcancel[c] /\ ~Has(wire[To(c)], F("cancel", c)) /\ UNCHANGED <<wire, hcancel>>
    BY <1>0, <1>4 DEF ReturnWithdrawn, Settle, CallTo, streamVars, handlerVars, CancelInv, TypeOK
  <2> QED
    BY <2>1 DEF UnsentInv, CancelOnce
<1>5. CASE Unregister(c) \/ GiveUp(c)
  <2>1. UNCHANGED <<wire, result, kpc, hpc, hcancel>>
    BY <1>5 DEF Unregister, GiveUp, streamVars, handlerVars
  <2> QED
    BY <1>0, <2>1, OnceLeftAlone
<1>6. CASE SendCancel(c)
  <2>1. /\ kpc[c] = "write" /\ kpc'[c] = "done" /\ UNCHANGED <<result, hpc, hcancel>>
        /\ ~hcancel[c] /\ ~Has(wire[To(c)], F("cancel", c)) /\ result[c] = "withdrawn"
    BY <1>0, <1>6 DEF SendCancel, handlerVars, CancelOnce, CancelInv, TypeOK
  <2>2. wire[To(c)] \in Seq(Frames)
    BY <1>0 DEF TypeOK
  <2>3. Put(To(c), F("cancel", c)) \/ UNCHANGED wire
    BY <1>0, <1>6, WriteOrFail DEF SendCancel
  <2>4. Lone(wire'[To(c)], F("cancel", c))
    <3>1. Lone(wire[To(c)], F("cancel", c))
      BY DEF CancelOnce
    <3>2. wire'[To(c)] = Append(wire[To(c)], F("cancel", c)) \/ wire'[To(c)] = wire[To(c)]
      BY <2>3 DEF Put
    <3>3. Lone(Append(wire[To(c)], F("cancel", c)), F("cancel", c))
      BY <1>0, <2>1, <2>2, <3>1, LoneStays
    <3> QED
      BY <3>1, <3>2, <3>3
  <2> QED
    BY <2>1, <2>4 DEF UnsentInv, CancelOnce
<1> QED
  BY <1>1, <1>2, <1>3, <1>4, <1>5, <1>6 DEF CallStep

\* What the steps of its handler do to them.
LEMMA OwnServeOnce ==
  ASSUME IInv, NEW c \in Calls, UnsentInv(c), CancelOnce(c), ServeStep(c)
  PROVE  UnsentInv(c)' /\ CancelOnce(c)'
<1>0. TypeOK /\ RequestInv(c) /\ To(c) \in Ends /\ Other(To(c)) \in Ends
  BY TwoEnds DEF IInv, CallInv
<1>1. hpc[c] # "none" /\ UNCHANGED <<result, kpc, hcancel>>
  BY DEF ServeStep, HandlerReturns, SendReply, Release, callVars
<1>2. result[c] # "writeError"
  BY <1>1 DEF UnsentInv
<1>3. \/ UNCHANGED wire
      \/ \E d \in Ends, g \in Frames : Put(d, g) /\ g \notin {F("request", c), F("cancel", c)}
  <2>1. CASE SendReply(c)
    <3>1. /\ Write(To(c), F(reply[c], c)) \/ WriteFails(To(c))
          /\ reply[c] \in Answers
      BY <1>0, <2>1 DEF SendReply, RequestInv
    <3>2. F(reply[c], c) \in Frames /\ F(reply[c], c) \notin {F("request", c), F("cancel", c)}
      BY <3>1, FrameParts DEF Answers
    <3> QED
      BY <1>0, <3>1, <3>2, WriteOrFail
  <2> QED
    BY <2>1 DEF ServeStep, HandlerReturns, Release, streamVars
<1> QED
  BY <1>0, <1>1, <1>2, <1>3, OnceLeftAlone

\* What the read loops and the notifications do to them.
LEMMA LoopOnce ==
  ASSUME IInv, NEW c \in Calls, UnsentInv(c), CancelOnce(c), NEW e \in Ends,
         LoopStep(e) \/ CloseStream(e) \/ Close(e)
  PROVE  UnsentInv(c)' /\ CancelOnce(c)'
<1>0. /\ TypeOK /\ WireInv /\ From[c] \in Ends /\ To(c) \in Ends
      /\ F("request", c) \in Frames /\ F("cancel", c) \in Frames
  BY TwoEnds, FrameParts DEF IInv
<1> DEFINE h == Head(wire[e])
<1>1. CASE ReadRequest(e)
  <2>1. Got(e, h) /\ h \in Frames /\ h = F("request", h.of) /\ h.of \in Calls
    BY <1>0, <1>1, ReadGets DEF Reads
  <2>2. hpc' = [hpc EXCEPT ![h.of] = "run"] /\ UNCHANGED <<result, kpc, hcancel>>
    BY <1>1 DEF ReadRequest, Subject, callVars
  <2>3. CASE h.of = c
    <3>1. Has(wire[e], F("request", c))
      BY <2>1, <2>3 DEF Got
    <3>2. e = To(c)
      BY <1>0, <3>1, FrameParts DEF WireInv, Addressed
    <3>3. result[c] # "writeError"
      BY <3>1, <3>2 DEF UnsentInv
    <3> QED
      BY <1>0, <2>1, <2>2, <3>3, OnceLeftAlone
  <2>4. CASE h.of # c
    <3>1. hpc'[c] = hpc[c]
      BY <1>0, <2>2, <2>4 DEF TypeOK
    <3> QED
      BY <1>0, <2>1, <2>2, <3>1, OnceLeftAlone
  <2> QED
    BY <2>3, <2>4
<1>2. CASE ReadCancel(e)
  <2>1. Got(e, h) /\ h \in Frames /\ h = F("cancel", h.of) /\ h.of \in Calls
    BY <1>0, <1>2, ReadGets DEF Reads
  <2>2. hcancel' = [hcancel EXCEPT ![h.of] = h.of \in inflight] /\ UNCHANGED <<result, kpc, hpc>>
    BY <1>2 DEF ReadCancel, Subject, callVars
  <2>3. CASE h.of = c
    <3>1. Has(wire[e], F("cancel", c)) /\ wire[e] \in Seq(Frames)
      BY <1>0, <2>1, <2>3 DEF Got, TypeOK
    <3>2. e = To(c)
      BY <1>0, <3>1, FrameParts DEF WireInv, Addressed
    <3>3. kpc[c] # "write"
      BY <3>1, <3>2 DEF CancelOnce
    <3>4. Lone(wire'[To(c)], F("cancel", c)) /\ ~Has(wire'[To(c)], F("cancel", c))
      BY <1>0, <2>1, <2>3, <3>1, <3>2, LoneStays DEF Got, CancelOnce
    <3>5. Has(wire'[To(c)], F("request", c)) => Has(wire[To(c)], F("request", c))
      BY <2>1, <3>2 DEF Got
    <3> QED
      BY <2>2, <3>3, <3>4, <3>5 DEF UnsentInv, CancelOnce
  <2>4. CASE h.of # c
    <3>1. hcancel'[c] = hcancel[c]
      BY <1>0, <2>2, <2>4 DEF TypeOK
    <3> QED
      BY <1>0, <2>1, <2>2, <3>1, OnceLeftAlone
  <2> QED
    BY <2>3, <2>4
<1>3. CASE ~ReadRequest(e) /\ ~ReadCancel(e)
  <2>1. UNCHANGED <<result, kpc, hpc, hcancel>>
    BY <1>3 DEF LoopStep, ReadResponse, Deliver, ReadNote, SendEcho, ReadEcho, ReadEnd, CloseStream, Close,
       callVars, handlerVars
  <2>2. \/ UNCHANGED wire
        \/ \E d \in Ends, g \in Frames : Got(d, g) \/ (Put(d, g) /\ g \notin {F("request", c), F("cancel", c)})
    <3>1. CASE SendEcho(e)
      <4>1. /\ Write(e, F("echo", frame[e].of)) \/ WriteFails(e)
            /\ frame[e].of \in Notes /\ Other(e) \in Ends
        BY <1>0, <3>1, TwoEnds DEF SendEcho, WireInv
      <4>2. F("echo", frame[e].of) \in Frames \ {F("request", c), F("cancel", c)}
        BY <4>1, FrameParts
      <4> QED
        BY <1>0, <4>1, <4>2, WriteOrFail
    <3>2. CASE ReadResponse(e) \/ ReadNote(e) \/ ReadEcho(e)
      BY <1>0, <3>2, ReadGets DEF Reads
    <3> QED
      BY <1>3, <3>1, <3>2 DEF LoopStep, Deliver, ReadEnd, CloseStream, Close, streamVars
  <2> QED
    BY <1>0, <2>1, <2>2, OnceLeftAlone
<1> QED
  BY <1>1, <1>2, <1>3

\* A request and its cancellation are sent and obeyed once.
LEMMA StepOnce ==
  ASSUME IInv, NEW c \in Calls, UnsentInv(c), CancelOnce(c), [Next]_vars
  PROVE  UnsentInv(c)' /\ CancelOnce(c)'
<1>0. TypeOK /\ WireInv /\ CallInv
  BY DEF IInv
<1>1. ASSUME NEW b \in Calls \ {c}, Register(b) \/ CallStep(b) \/ SendCancel(b) \/ ServeStep(b) \/ GiveUp(b)
      PROVE  UnsentInv(c)' /\ CancelOnce(c)'
  <2>1. AboutCall(b)
    BY <1>0, <1>1, StepsAboutCall
  <2>2. UNCHANGED <<result[c], kpc[c], hpc[c], hcancel[c]>>
    BY <1>1, <2>1 DEF AboutCall, OwnVars
  <2>3. UNCHANGED wire \/ \E d \in Ends, g \in Frames : Put(d, g) /\ g \notin {F("request", c), F("cancel", c)}
    BY <1>1, <2>1, FrameParts DEF AboutCall
  <2> QED
    BY <1>0, <2>2, <2>3, OnceLeftAlone
<1>2. ASSUME NEW n \in Notes, Notify(n) PROVE UnsentInv(c)' /\ CancelOnce(c)'
  <2>1. (Write(From[n], F("note", n)) \/ WriteFails(From[n])) /\ UNCHANGED <<result, kpc, hpc, hcancel>>
    BY <1>2 DEF Notify, callVars, handlerVars
  <2>2. /\ F("note", n) \in Frames \ {F("request", c), F("cancel", c)}
        /\ From[n] \in Ends /\ Other(From[n]) \in Ends
    BY FrameParts, TwoEnds
  <2>3. UNCHANGED wire \/ \E d \in Ends, g \in Frames : Put(d, g) /\ g \notin {F("request", c), F("cancel", c)}
    BY <1>0, <2>1, <2>2, WriteOrFail
  <2> QED
    BY <1>0, <2>1, <2>3, OnceLeftAlone
<1>3. CASE UNCHANGED vars
  BY <1>0, <1>3, OnceLeftAlone DEF vars, streamVars, callVars, handlerVars
<1> QED
  BY <1>1, <1>2, <1>3, OwnCallOnce, OwnServeOnce, LoopOnce DEF Next, Run, Ask

\* It holds in every reachable state.
LEMMA RpcInvariance == Spec => [](IInv /\ RpcInv)
<1>1. ASSUME Init PROVE RpcInv
  <2>1. \A c \in Calls : From[c] \in Ends /\ To(c) \in Ends
    BY TwoEnds
  <2> QED
    BY <1>1, <2>1 DEF Init, RpcInv, OwnersInv, UnsentInv, CancelOnce, Lone, Has
<1>2. ASSUME IInv, RpcInv, [Next]_vars PROVE RpcInv'
  <2>1. OwnersInv'
    BY <1>2, StepOwners DEF RpcInv, IInv
  <2>2. \A c \in Calls : UnsentInv(c)' /\ CancelOnce(c)'
    BY <1>2, StepOnce DEF RpcInv
  <2> QED
    BY <2>1, <2>2 DEF RpcInv
<1> QED
  BY <1>1, <1>2, Invariance, PTL DEF Spec


-----------------------------------------------------------------------------
(* Every step is one of Rpc, or none.                                      *)

\* The variables of Rpc that are not variables of Conn.
calls    == [c \in Calls |-> CallPhase(c)]
services == [c \in Calls |-> ServicePhase(c)]
closers  == {e \in Ends : closing[e]}

RpcSame == UNCHANGED <<calls, result, services, hcancel, reply, written, seen, before, closers>>

RpcStep == Users!Next \/ RpcSame

\* What the phases are, before and after a step.
LEMMA PhasesAre ==
  ASSUME NEW c \in Calls
  PROVE  /\ cpc[c] \in {"idle", "write"} => CallPhase(c) = "unsent"
         /\ cpc[c] = "wait" => CallPhase(c) = "open"
         /\ cpc[c] \in {"unregister", "done"} => CallPhase(c) = "returned"
         /\ hpc[c] \in {"none", "run"} => ServicePhase(c) = hpc[c]
         /\ hpc[c] \in {"reply", "release", "done"} => ServicePhase(c) = "over"
         /\ calls[c] = CallPhase(c) /\ services[c] = ServicePhase(c)
BY DEF CallPhase, ServicePhase, calls, services

\* A call goes on to pc.
LEMMA CallTurns ==
  ASSUME TypeOK, NEW c \in Calls, NEW pc, CallTo(c, pc)
  PROVE  /\ pc \in {"idle", "write"} => calls' = [calls EXCEPT ![c] = "unsent"]
         /\ pc = "wait" => calls' = [calls EXCEPT ![c] = "open"]
         /\ pc \in {"unregister", "done"} => calls' = [calls EXCEPT ![c] = "returned"]
<1>1. cpc'[c] = pc /\ \A b \in Calls \ {c} : cpc'[b] = cpc[b]
  BY DEF CallTo, TypeOK
<1>2. \A b \in Calls \ {c} : CallPhase(b)' = CallPhase(b)
  BY <1>1 DEF CallPhase
<1>3. /\ pc \in {"idle", "write"} => CallPhase(c)' = "unsent"
      /\ pc = "wait" => CallPhase(c)' = "open"
      /\ pc \in {"unregister", "done"} => CallPhase(c)' = "returned"
  BY <1>1 DEF CallPhase
<1> QED
  BY <1>2, <1>3 DEF calls

\* Its handler goes on to pc.
LEMMA ServiceTurns ==
  ASSUME TypeOK, NEW c \in Calls, NEW pc, hpc' = [hpc EXCEPT ![c] = pc]
  PROVE  /\ pc \in {"none", "run"} => services' = [services EXCEPT ![c] = pc]
         /\ pc \in {"reply", "release", "done"} => services' = [services EXCEPT ![c] = "over"]
<1>1. hpc'[c] = pc /\ \A b \in Calls \ {c} : hpc'[b] = hpc[b]
  BY DEF TypeOK
<1>2. \A b \in Calls \ {c} : ServicePhase(b)' = ServicePhase(b)
  BY <1>1 DEF ServicePhase
<1>3. /\ pc \in {"none", "run"} => ServicePhase(c)' = pc
      /\ pc \in {"reply", "release", "done"} => ServicePhase(c)' = "over"
  BY <1>1 DEF ServicePhase
<1> QED
  BY <1>2, <1>3 DEF services

\* What Rpc sees stays where cpc, hpc and closing do.
LEMMA RestStays ==
  /\ UNCHANGED cpc => UNCHANGED calls
  /\ UNCHANGED hpc => UNCHANGED services
  /\ UNCHANGED closing => UNCHANGED closers
BY DEF calls, services, closers, CallPhase, ServicePhase

\* An end that is broken or closed has an owner to blame.
LEMMA OwnersClose ==
  ASSUME OwnersInv, TypeOK, NEW e \in Ends
  PROVE  /\ Broken(e) \/ closed[e] => closers # {}
         /\ closed[e] => cause[e] \in Causes /\ (cause[e] = "ErrClosed" => e \in closers)
<1>1. Other(e) \in Ends
  BY TwoEnds
<1>2. Broken(e) \/ closed[e] => \E d \in Ends : closing[d]
  BY <1>1 DEF OwnersInv, Broken
<1>3. closed[e] => cause[e] \in Causes
  BY DEF TypeOK
<1> QED
  BY <1>2, <1>3 DEF OwnersInv, closers


\* What the caller's steps are to Rpc.
LEMMA CallImplements ==
  ASSUME IInv, RpcInv, NEW c \in Calls, Register(c) \/ CallStep(c) \/ SendCancel(c) \/ GiveUp(c)
  PROVE  RpcStep
<1>0. /\ TypeOK /\ OwnersInv /\ RequestInv(c) /\ AnswerInv(c) /\ CancelInv(c)
      /\ From[c] \in Ends /\ To(c) \in Ends /\ [x \in Calls \cup Notes |-> To(x)][c] = To(c)
  BY TwoEnds DEF IInv, CallInv, RpcInv
<1> USE DEF calls, services, closers
<1>1. ASSUME CallTo(c, "done") \/ CallTo(c, "unregister"),
             cpc[c] \in {"idle", "write", "wait"}, closers # {},
             NEW r, result' = [result EXCEPT ![c] = r],
             \/ r = "EOF" \/ (r = "ErrClosed" /\ From[c] \in closers)
             \/ r = "writeError" /\ cpc[c] = "write",
             UNCHANGED <<hpc, hcancel, reply, written, seen, before, closing>>
      PROVE  Users!Next
  <2>1. calls' = [calls EXCEPT ![c] = "returned"] /\ UNCHANGED <<services, closers>>
    BY <1>0, <1>1, CallTurns, RestStays
  <2>2. calls[c] \in {"unsent", "open"} /\ (cpc[c] = "write" => calls[c] = "unsent")
    BY <1>1, PhasesAre
  <2>3. Users!Fail(c)
    BY <1>1, <2>1, <2>2 DEF Users!Fail, Users!Return, Users!serviceVars, Users!noteVars
  <2> QED
    BY <2>3 DEF Users!Next, Users!CallStep
<1>2. CASE Register(c)
  <2>1. UNCHANGED <<hpc, hcancel, reply, written, seen, before, closing>> /\ cpc[c] = "idle"
    BY <1>2 DEF Register, streamVars, handlerVars, noteVars
  <2>2. CASE closed[From[c]]
    <3>1. CallTo(c, "done") /\ result' = [result EXCEPT ![c] = cause[From[c]]]
      BY <1>2, <2>2 DEF Register
    <3>2. closers # {} /\ cause[From[c]] \in Causes /\ (cause[From[c]] = "ErrClosed" => From[c] \in closers)
      BY <1>0, <2>2, OwnersClose
    <3>3. Users!Next
      BY <1>1, <2>1, <3>1, <3>2 DEF Causes
    <3> QED
      BY <3>3 DEF RpcStep
  <2>3. CASE ~closed[From[c]]
    <3>1. CallTo(c, "write") /\ UNCHANGED result
      BY <1>2, <2>3 DEF Register
    <3>2. calls' = [calls EXCEPT ![c] = "unsent"] /\ calls[c] = "unsent"
      BY <1>0, <2>1, <3>1, CallTurns, PhasesAre
    <3> QED
      BY <2>1, <3>1, <3>2, RestStays DEF RpcStep, RpcSame
  <2> QED
    BY <2>2, <2>3
<1>3. CASE SendRequest(c)
  <2>1. UNCHANGED <<hpc, hcancel, reply, written, seen, closing>> /\ cpc[c] = "write"
    BY <1>3 DEF SendRequest, handlerVars
  <2>2. CASE Broken(From[c]) /\ Settle(c, "writeError") /\ UNCHANGED before
    <3>1. closers # {}
      BY <1>0, <2>2, OwnersClose
    <3>2. Users!Next
      BY <1>1, <2>1, <2>2, <3>1 DEF Settle
    <3> QED
      BY <3>2 DEF RpcStep
  <2>3. CASE /\ CallTo(c, "wait") /\ UNCHANGED result
             /\ before' = [before EXCEPT ![c] = Len(written[To(c)])]
    <3>1. calls' = [calls EXCEPT ![c] = "open"] /\ calls[c] = "unsent" /\ UNCHANGED <<services, closers>>
      BY <1>0, <2>1, <2>3, CallTurns, PhasesAre, RestStays
    <3>2. Users!Send(c)
      BY <1>0, <2>1, <2>3, <3>1 DEF Users!Send, Users!serviceVars, Users!noteVars
    <3> QED
      BY <3>2 DEF RpcStep, Users!Next, Users!CallStep
  <2> QED
    BY <1>3, <2>2, <2>3 DEF SendRequest, WriteFails
<1>4. CASE ReturnAnswer(c)
  <2>1. /\ UNCHANGED <<hpc, hcancel, reply, written, seen, before, closing>>
        /\ cpc[c] = "wait" /\ box[c] # "none"
        /\ CallTo(c, "unregister") /\ result' = [result EXCEPT ![c] = box[c]]
    BY <1>4 DEF ReturnAnswer, Settle, streamVars, handlerVars, noteVars
  <2>2. box[c] = reply[c] /\ hpc[c] \in {"release", "done"}
    BY <1>0, <2>1 DEF AnswerInv
  <2>3. /\ calls' = [calls EXCEPT ![c] = "returned"] /\ calls[c] = "open"
        /\ services[c] = "over" /\ UNCHANGED <<services, closers>>
    BY <1>0, <2>1, <2>2, CallTurns, PhasesAre, RestStays
  <2>4. Users!Answer(c)
    BY <2>1, <2>2, <2>3 DEF Users!Answer, Users!Return, Users!serviceVars, Users!noteVars
  <2> QED
    BY <2>4 DEF RpcStep, Users!Next, Users!CallStep
<1>5. CASE ReturnWithdrawn(c)
  <2>1. /\ UNCHANGED <<hpc, hcancel, reply, written, seen, before, closing>>
        /\ cpc[c] = "wait" /\ gaveUp[c]
        /\ CallTo(c, "unregister") /\ result' = [result EXCEPT ![c] = "withdrawn"]
    BY <1>5 DEF ReturnWithdrawn, Settle, streamVars, handlerVars, noteVars
  <2>2. c \in Impatient
    BY <1>0, <2>1 DEF OwnersInv
  <2>3. calls' = [calls EXCEPT ![c] = "returned"] /\ calls[c] = "open" /\ UNCHANGED <<services, closers>>
    BY <1>0, <2>1, CallTurns, PhasesAre, RestStays
  <2>4. Users!Withdraw(c)
    BY <2>1, <2>2, <2>3 DEF Users!Withdraw, Users!Return, Users!serviceVars, Users!noteVars
  <2> QED
    BY <2>4 DEF RpcStep, Users!Next, Users!CallStep
<1>6. CASE ReturnClosed(c)
  <2>1. /\ UNCHANGED <<hpc, hcancel, reply, written, seen, before, closing>>
        /\ cpc[c] = "wait" /\ closed[From[c]]
        /\ CallTo(c, "unregister") /\ result' = [result EXCEPT ![c] = cause[From[c]]]
    BY <1>6 DEF ReturnClosed, Settle, streamVars, handlerVars, noteVars
  <2>2. closers # {} /\ cause[From[c]] \in Causes /\ (cause[From[c]] = "ErrClosed" => From[c] \in closers)
    BY <1>0, <2>1, OwnersClose
  <2>3. Users!Next
    BY <1>1, <2>1, <2>2 DEF Causes
  <2> QED
    BY <2>3 DEF RpcStep
<1>7. CASE Unregister(c)
  <2>1. /\ UNCHANGED <<result, hpc, hcancel, reply, written, seen, before, closing>>
        /\ cpc[c] = "unregister" /\ CallTo(c, "done")
    BY <1>7 DEF Unregister, streamVars, handlerVars, noteVars
  <2>2. calls' = [calls EXCEPT ![c] = "returned"] /\ calls[c] = "returned"
    BY <1>0, <2>1, CallTurns, PhasesAre
  <2> QED
    BY <2>1, <2>2, RestStays DEF RpcStep, RpcSame
<1>8. CASE SendCancel(c) \/ GiveUp(c)
  <2>1. UNCHANGED <<cpc, result, hpc, hcancel, reply, written, seen, before, closing>>
    BY <1>8 DEF SendCancel, GiveUp, streamVars, handlerVars, noteVars
  <2> QED
    BY <2>1, RestStays DEF RpcStep, RpcSame
<1> QED
  BY <1>2, <1>3, <1>4, <1>5, <1>6, <1>7, <1>8 DEF CallStep

\* What the handler's steps are to Rpc.
LEMMA ServeImplements ==
  ASSUME IInv, RpcInv, NEW c \in Calls, ServeStep(c)
  PROVE  RpcStep
<1>0. TypeOK /\ OwnersInv /\ To(c) \in Ends
  BY TwoEnds DEF IInv, RpcInv
<1> USE DEF calls, services, closers
<1>1. UNCHANGED <<cpc, result, hcancel, written, seen, before, closing>>
  BY DEF ServeStep, HandlerReturns, SendReply, Release, callVars, noteVars, streamVars
<1>2. CASE HandlerReturns(c)
  <2>1. /\ hpc[c] = "run" /\ hpc' = [hpc EXCEPT ![c] = "reply"]
        /\ reply' = [reply EXCEPT ![c] = IF hcancel[c] /\ ~closed[To(c)] THEN "cancelled" ELSE "ok"]
    BY <1>2 DEF HandlerReturns
  <2>2. services' = [services EXCEPT ![c] = "over"] /\ services[c] = "run" /\ UNCHANGED <<calls, closers>>
    BY <1>0, <1>1, <2>1, ServiceTurns, PhasesAre, RestStays
  <2>3. hcancel[c] => ~closed[To(c)] \/ closers # {}
    BY <1>0, OwnersClose
  <2>4. PICK r \in {"ok", "cancelled"} : /\ reply' = [reply EXCEPT ![c] = r]
                                         /\ r = "cancelled" => hcancel[c]
                                         /\ r = "ok" => ~hcancel[c] \/ closers # {}
    BY <2>1, <2>3
  <2>5. Users!Finish(c)
    BY <1>1, <2>2, <2>4 DEF Users!Finish, Users!callVars, Users!noteVars
  <2> QED
    BY <2>5 DEF RpcStep, Users!Next, Users!ServeStep
<1>3. CASE SendReply(c) \/ Release(c)
  <2>1. PICK pc \in {"release", "done"} : hpc' = [hpc EXCEPT ![c] = pc]
    BY <1>3 DEF SendReply, Release
  <2>2. hpc[c] \in {"reply", "release"} /\ UNCHANGED reply
    BY <1>3 DEF SendReply, Release
  <2>3. services' = [services EXCEPT ![c] = "over"] /\ services[c] = "over"
    BY <1>0, <2>1, <2>2, ServiceTurns, PhasesAre
  <2> QED
    BY <1>1, <2>2, <2>3, RestStays DEF RpcStep, RpcSame
<1> QED
  BY <1>2, <1>3 DEF ServeStep


\* The notification that has been handled is the next one written.
LEMMA HandlesNext ==
  ASSUME TypeOK, IInv', NEW e \in Ends, NEW n \in Notes,
         seen' = [seen EXCEPT ![e] = Append(seen[e], n)], UNCHANGED written
  PROVE  Len(seen[e]) < Len(written[e]) /\ n = written[e][Len(seen[e]) + 1]
<1>1. /\ seen'[e] = Append(seen[e], n) /\ seen[e] \in Seq(Notes)
      /\ Len(seen[e]) \in Nat /\ Len(written[e]) \in Nat
  BY DEF TypeOK
<1>2. /\ Len(seen'[e]) = Len(seen[e]) + 1 /\ seen'[e][Len(seen[e]) + 1] = n
      /\ Len(seen[e]) + 1 \in 1 .. Len(seen'[e])
  BY <1>1
<1>3. NoteInv(e)'
  BY DEF IInv, OrderInv
<1>4. Len(seen'[e]) <= Len(written[e])
  <2>1. Taken(e)' = Len(seen'[e]) \/ Taken(e)' = Len(seen'[e]) + 1
    <3>1. CASE lpc'[e] = "echo"
      BY <3>1 DEF Taken
    <3>2. CASE lpc'[e] # "echo"
      BY <1>1, <1>2, <3>2 DEF Taken
    <3> QED
      BY <3>1, <3>2
  <2>2. Taken(e)' <= Len(written[e])
    BY <1>3 DEF NoteInv
  <2> QED
    BY <1>1, <1>2, <2>1, <2>2
<1>5. seen'[e][Len(seen[e]) + 1] = written'[e][Len(seen[e]) + 1]
  BY <1>2, <1>3 DEF NoteInv
<1> QED
  BY <1>1, <1>2, <1>4, <1>5

\* What the steps of a read loop, and of an owner who closes, are to Rpc.
LEMMA LoopImplements ==
  ASSUME IInv, RpcInv, IInv', NEW e \in Ends, LoopStep(e) \/ CloseStream(e) \/ Close(e)
  PROVE  RpcStep
<1>0. TypeOK /\ WireInv /\ CallInv
  BY DEF IInv
<1> DEFINE h == Head(wire[e])
<1> USE DEF calls, services, closers
<1>1. CASE ReadRequest(e)
  <2>1. PICK c \in Calls : Got(e, F("request", c)) /\ h = F("request", c)
    BY <1>0, <1>1, ReadGets DEF Reads
  <2>2. /\ hpc' = [hpc EXCEPT ![c] = "run"]
        /\ UNCHANGED <<cpc, result, hcancel, reply, written, seen, before, closing>>
    BY <1>1, <2>1, FrameParts DEF ReadRequest, Subject, callVars, noteVars
  <2>3. e = To(c) /\ Has(wire[To(c)], F("request", c)) /\ F("request", c) \in Frames
    BY <1>0, <2>1, FrameParts DEF Got, WireInv, Addressed
  <2>4. hpc[c] = "none" /\ cpc[c] \in {"wait", "unregister", "done"} /\ result[c] # "writeError"
    BY <1>0, <2>3 DEF CallInv, RequestInv, RpcInv, UnsentInv, TypeOK
  <2>5. before[c] <= Len(seen[To(c)])
    <3>1. hpc'[c] # "none"
      BY <1>0, <2>2 DEF TypeOK
    <3>2. BeforeInv(c)'
      BY DEF IInv, OrderInv
    <3> QED
      BY <2>2, <3>1, <3>2 DEF BeforeInv
  <2>6. /\ services' = [services EXCEPT ![c] = "run"] /\ services[c] = "none" /\ calls[c] # "unsent"
        /\ UNCHANGED <<calls, closers>>
    BY <1>0, <2>2, <2>4, ServiceTurns, PhasesAre, RestStays
  <2>7. Users!Serve(c)
    BY <2>2, <2>4, <2>5, <2>6 DEF Users!Serve, Users!callVars, Users!noteVars
  <2> QED
    BY <2>7 DEF RpcStep, Users!Next, Users!ServeStep
<1>2. CASE ReadCancel(e)
  <2>1. PICK c \in Calls : Got(e, F("cancel", c)) /\ h = F("cancel", c)
    BY <1>0, <1>2, ReadGets DEF Reads
  <2>2. /\ hcancel' = [hcancel EXCEPT ![c] = c \in inflight]
        /\ UNCHANGED <<cpc, result, hpc, reply, written, seen, before, closing>>
    BY ZenonT(60), <1>2, <2>1, FrameParts DEF ReadCancel, Subject, callVars, noteVars
  <2>3. e = To(c) /\ Has(wire[To(c)], F("cancel", c)) /\ F("cancel", c) \in Frames
    BY <1>0, <2>1, FrameParts DEF Got, WireInv, Addressed
  <2>4. result[c] = "withdrawn" /\ ~hcancel[c]
    BY <1>0, <2>3 DEF CallInv, CancelInv, RpcInv, CancelOnce
  <2>5. UNCHANGED <<calls, services, closers>>
    BY <2>2, RestStays
  <2>6. CASE c \in inflight
    <3>1. hpc[c] \in {"run", "reply", "release"}
      BY <1>0, <2>6 DEF CallInv, RequestInv
    <3>2. services[c] # "none"
      BY <3>1, PhasesAre
    <3>3. Users!Stop(c)
      BY <2>2, <2>4, <2>5, <2>6, <3>2 DEF Users!Stop, Users!callVars, Users!noteVars
    <3> QED
      BY <3>3 DEF RpcStep, Users!Next, Users!ServeStep
  <2>7. CASE c \notin inflight
    <3>1. UNCHANGED hcancel
      BY <1>0, <2>2, <2>4, <2>7 DEF TypeOK
    <3> QED
      BY <2>2, <2>5, <3>1 DEF RpcStep, RpcSame
  <2> QED
    BY <2>6, <2>7
<1>3. ASSUME NEW n \in Notes, Handled(e, n),
             UNCHANGED <<cpc, result, hpc, hcancel, reply, written, before, closing>>
      PROVE  RpcStep
  <2>1. seen' = [seen EXCEPT ![e] = Append(seen[e], n)] /\ UNCHANGED <<calls, services, closers>>
    BY <1>3, RestStays DEF Handled
  <2>2. Len(seen[e]) < Len(written[e]) /\ n = written[e][Len(seen[e]) + 1]
    BY <1>0, <1>3, <2>1, HandlesNext
  <2>3. Users!Handle(e)
    BY <1>3, <2>1, <2>2 DEF Users!Handle, Users!callVars, Users!serviceVars
  <2> QED
    BY <2>3 DEF RpcStep, Users!Next
<1>4. CASE ReadNote(e)
  <2>1. h.of \in Notes /\ UNCHANGED <<cpc, result, hpc, hcancel, reply, written, before, closing>>
    BY <1>0, <1>4, ReadGets DEF ReadNote, callVars, handlerVars
  <2>2. CASE UNCHANGED seen
    BY <2>1, <2>2, RestStays DEF RpcStep, RpcSame
  <2>3. CASE Handled(e, h.of)
    BY <1>3, <2>1, <2>3
  <2> QED
    BY <1>4, <2>2, <2>3 DEF ReadNote, Subject
<1>5. CASE SendEcho(e)
  <2>1. /\ frame[e].of \in Notes /\ Handled(e, frame[e].of)
        /\ UNCHANGED <<cpc, result, hpc, hcancel, reply, written, before, closing>>
    BY <1>0, <1>5 DEF SendEcho, WireInv, callVars, handlerVars
  <2> QED
    BY <1>3, <2>1
<1>6. CASE Close(e)
  <2>1. /\ closing' = [closing EXCEPT ![e] = TRUE]
        /\ UNCHANGED <<cpc, result, hpc, hcancel, reply, written, seen, before>>
    BY <1>6 DEF Close, callVars, handlerVars, noteVars
  <2>2. closers' = closers \cup {e} /\ UNCHANGED <<calls, services>>
    BY <1>0, <2>1, RestStays DEF TypeOK
  <2>3. Users!Close(e)
    BY <2>1, <2>2 DEF Users!Close, Users!callVars, Users!serviceVars, Users!noteVars
  <2> QED
    BY <2>3 DEF RpcStep, Users!Next
<1>7. CASE ReadResponse(e) \/ Deliver(e) \/ ReadEcho(e) \/ ReadEnd(e) \/ CloseStream(e)
  <2>1. UNCHANGED <<cpc, result, hpc, hcancel, reply, written, seen, before, closing>>
    BY <1>7 DEF ReadResponse, Deliver, ReadEcho, ReadEnd, CloseStream, streamVars, callVars, handlerVars,
       noteVars
  <2> QED
    BY <2>1, RestStays DEF RpcStep, RpcSame
<1> QED
  BY <1>1, <1>2, <1>4, <1>5, <1>6, <1>7 DEF LoopStep

\* What a Notify is to Rpc.
LEMMA NotifyImplements ==
  ASSUME IInv, NEW n \in Notes, Notify(n)
  PROVE  RpcStep
<1>1. UNCHANGED <<cpc, result, hpc, hcancel, reply, seen, before, closing>> /\ npc[n] = "idle"
  BY DEF Notify, callVars, handlerVars
<1>2. UNCHANGED <<calls, services, closers>>
  BY <1>1, RestStays
<1>3. CASE UNCHANGED written
  BY <1>1, <1>2, <1>3 DEF RpcStep, RpcSame
<1>4. CASE written' = [written EXCEPT ![To(n)] = Append(@, n)]
  <2>1. NoteInv(To(n)) /\ [x \in Calls \cup Notes |-> To(x)][n] = To(n)
    BY TwoEnds DEF IInv, OrderInv
  <2>2. \A i \in 1 .. Len(written[To(n)]) : written[To(n)][i] # n
    BY <1>1, <2>1 DEF NoteInv
  <2>3. Users!Notify(n)
    BY <1>1, <1>2, <1>4, <2>1, <2>2 DEF Users!Notify, Users!callVars, Users!serviceVars, calls, services, closers
  <2> QED
    BY <2>3 DEF RpcStep, Users!Next
<1> QED
  BY <1>3, <1>4 DEF Notify

\* The two connections implement Rpc: whatever the read loops, pipes, cancellation
\* goroutines and Close do, and in whatever order, callers and handlers see no more than a
\* request that is served once, behind the notifications before it, and answered with what
\* its own handler came to.
THEOREM ConnImplementsRpc == Spec => RpcSpec
<1>1. Init => Users!Init
  <2> SUFFICES ASSUME Init PROVE Users!Init
    OBVIOUS
  <2>1. /\ \A c \in Calls : CallPhase(c) = "unsent" /\ ServicePhase(c) = "none"
        /\ {e \in Ends : closing[e]} = {}
    BY DEF Init, CallPhase, ServicePhase
  <2> QED
    BY <2>1 DEF Init, Users!Init
<1>2. IInv /\ RpcInv /\ IInv' /\ [Next]_vars => [Users!Next]_(Users!vars)
  <2> SUFFICES ASSUME IInv, RpcInv, IInv', [Next]_vars PROVE [Users!Next]_(Users!vars)
    OBVIOUS
  <2>1. CASE UNCHANGED vars
    <3>1. UNCHANGED <<cpc, result, hpc, hcancel, reply, written, seen, before, closing>>
      BY <2>1 DEF vars, streamVars, callVars, handlerVars, noteVars
    <3>2. RpcSame
      BY <3>1, RestStays DEF RpcSame
    <3> QED
      BY <3>2 DEF RpcSame, Users!vars, calls, services, closers
  <2>2. CASE Next
    <3>1. RpcStep
      BY <2>2, CallImplements, ServeImplements, LoopImplements, NotifyImplements DEF Next, Run, Ask
    <3> QED
      BY <3>1 DEF RpcStep, RpcSame, Users!vars, calls, services, closers
  <2> QED
    BY <2>1, <2>2
<1>3. Spec => [](IInv /\ RpcInv)
  BY RpcInvariance
<1> QED
  BY <1>1, <1>2, <1>3, PTL DEF Spec, RpcSpec, Users!Spec


=============================================================================
