--------------------------- MODULE DocSyncProofs ----------------------------
(* Theorems about DocSync, for any queries, documents and interleaving.    *)
EXTENDS DocSync, TLAPS

-----------------------------------------------------------------------------
(* The frames on the wire, by position.                                    *)

\* The i-th frame brings document d a text, opens it, or is q's request.
Sync(i, d)    == i \in 1 .. Len(wire) /\ wire[i].kind \in Syncs /\ Of[wire[i].query] = d
Opening(i, d) == i \in 1 .. Len(wire) /\ wire[i].kind = "didOpen" /\ Of[wire[i].query] = d
Asking(i, q)  == i \in 1 .. Len(wire) /\ wire[i].kind = "request" /\ wire[i].query = q
Brings(i, q)  == i \in 1 .. Len(wire) /\ wire[i].kind \in Syncs /\ wire[i].query = q

Positions == Nat \ {0}

\* Nothing on the wire is about d.
Quiet(d) == \A i \in Positions : ~Sync(i, d)

\* Once the server has read what is on the wire, it has q's text.
Settles(q) ==
  \/ Quiet(Of[q]) /\ store[Of[q]].text = q
  \/ \E i \in Positions : Brings(i, q) /\ \A j \in Positions : j > i => ~Sync(j, Of[q])

\* d is open, or will be when the server has read the frames before the i-th.
OpenBy(d, i) == store[d] # Absent \/ \E j \in Positions : j < i /\ Opening(j, d)

\* d is open, or will be when the server has read them all.
WillOpen(d) == store[d] # Absent \/ \E j \in Positions : Opening(j, d)

-----------------------------------------------------------------------------
(* The inductive invariant, in named parts.                                *)

\* A query has a version from Assign on, and a handler only after its request.
QueryInv ==
  \A q \in Queries :
    /\ qpc[q] \in {"idle", "content"} => ver[q] = 0
    /\ qpc[q] \in {"sync", "call", "wait"} => ver[q] # 0
    /\ hpc[q] # "none" => qpc[q] \in {"wait", "done"}
    /\ \A i \in Positions : Asking(i, q) => qpc[q] \in {"wait", "done"} /\ hpc[q] = "none"
    /\ \A i, j \in Positions : Asking(i, q) /\ Asking(j, q) => i = j

\* A frame carries the version its query was given.
FrameInv ==
  \A i \in Positions : \A q \in Queries : Brings(i, q) => wire[i].version = ver[q]

\* An open document has a version the broker gave.
StoreInv == \A d \in Docs : store[d] # Absent => store[d].version # 0

\* Queries that take turns: one at a time, and with the latest version.
TurnInv ==
  \A q \in Queries : Of[q] \notin Shared /\ UnderWay(q) =>
    /\ \A p \in Queries : Of[p] = Of[q] /\ UnderWay(p) => p = q
    /\ ver[q] # 0 => ver[q] = opened[Of[q]]

\* No didChange of theirs is dropped, and the latest text gets there.
ArriveInv ==
  /\ \A i \in Positions : \A d \in Docs \ Shared : Sync(i, d) => Opening(i, d) \/ OpenBy(d, i)
  /\ ~down => \A q \in Queries : Of[q] \notin Shared /\ ver[q] # 0 /\ qpc[q] # "sync" =>
       /\ WillOpen(Of[q])
       /\ ver[q] = opened[Of[q]] => Settles(q)

\* A request comes after every text of its document, and its handler finds the
\* query's own.
HandlerInv ==
  \A q \in Queries : Of[q] \notin Shared /\ qpc[q] = "wait" =>
    /\ \A i, j \in Positions : Asking(i, q) /\ Sync(j, Of[q]) => j < i
    /\ hpc[q] # "none" => Quiet(Of[q])
    /\ hpc[q] = "done" /\ ~down => used[q] = q

IInv ==
  /\ TypeOK /\ QueryInv /\ FrameInv /\ StoreInv
  /\ VersionsGivenOnce /\ VersionNamesText
  /\ TurnInv /\ ArriveInv /\ HandlerInv
  /\ TurnsAnswerOwnText

-----------------------------------------------------------------------------
(* Lemmas.                                                                 *)

\* What a frame is made of.
LEMMA FrameType ==
  ASSUME NEW f \in Frames
  PROVE  /\ f.query \in Queries
         /\ f.kind \in Syncs \/ f.kind = "request"
         /\ f.kind \in Syncs => f.version \in Nat \ {0}
         /\ f.kind = "request" => f.kind \notin Syncs
BY DEF Frames, Syncs

\* A frame that is written goes behind the others.
LEMMA Put ==
  ASSUME TypeOK, NEW f \in Frames, wire' = Append(wire, f)
  PROVE  /\ wire' \in Seq(Frames) /\ Len(wire) \in Nat /\ Len(wire') = Len(wire) + 1
         /\ wire'[Len(wire) + 1] = f /\ \A i \in 1 .. Len(wire) : wire'[i] = wire[i]
         /\ \A i \in Positions, d \in Docs :
              /\ Sync(i, d)' <=> Sync(i, d) \/ (i = Len(wire) + 1 /\ f.kind \in Syncs /\ Of[f.query] = d)
              /\ Opening(i, d)' <=> Opening(i, d) \/ (i = Len(wire) + 1 /\ f.kind = "didOpen" /\ Of[f.query] = d)
         /\ \A i \in Positions, q \in Queries :
              /\ Asking(i, q)' <=> Asking(i, q) \/ (i = Len(wire) + 1 /\ f.kind = "request" /\ f.query = q)
              /\ Brings(i, q)' <=> Brings(i, q) \/ (i = Len(wire) + 1 /\ f.kind \in Syncs /\ f.query = q)
<1>1. wire \in Seq(Frames)
  BY DEF TypeOK
<1>2. /\ wire' \in Seq(Frames) /\ Len(wire) \in Nat /\ Len(wire') = Len(wire) + 1
      /\ wire'[Len(wire) + 1] = f /\ \A i \in 1 .. Len(wire) : wire'[i] = wire[i]
  BY <1>1
<1>3. \A i \in Positions : i \in 1 .. Len(wire') <=> i \in 1 .. Len(wire) \/ i = Len(wire) + 1
  BY <1>2 DEF Positions
<1>4. Len(wire) + 1 \notin 1 .. Len(wire)
  BY <1>2
<1> QED
  BY <1>2, <1>3, <1>4 DEF Sync, Opening, Asking, Brings

\* A frame that is read leaves the others one place further to the front.
LEMMA Took ==
  ASSUME TypeOK, NEW kind, Take(kind)
  PROVE  /\ wire' \in Seq(Frames) /\ Len(wire) \in Positions /\ Len(wire') = Len(wire) - 1
         /\ Head(wire) \in Frames /\ Head(wire) = wire[1] /\ wire[1].kind = kind
         /\ 1 \in 1 .. Len(wire) /\ ~down
         /\ \A i \in Positions : i + 1 \in Positions
         /\ \A i \in Positions : i = 1 \/ i - 1 \in Positions
         /\ \A i \in Positions, d \in Docs :
              (Sync(i, d)' <=> Sync(i + 1, d)) /\ (Opening(i, d)' <=> Opening(i + 1, d))
         /\ \A i \in Positions, q \in Queries :
              (Asking(i, q)' <=> Asking(i + 1, q)) /\ (Brings(i, q)' <=> Brings(i + 1, q))
         /\ \A i \in Positions : i \in 1 .. Len(wire') => wire'[i] = wire[i + 1]
<1>1. wire \in Seq(Frames) /\ wire # <<>> /\ wire' = Tail(wire) /\ Head(wire).kind = kind /\ ~down
  BY DEF TypeOK, Take
<1>2. /\ wire' \in Seq(Frames) /\ Len(wire) \in Positions /\ Len(wire') = Len(wire) - 1
      /\ Head(wire) \in Frames /\ Head(wire) = wire[1] /\ 1 \in 1 .. Len(wire)
      /\ \A i \in 1 .. Len(wire') : wire'[i] = wire[i + 1]
  BY <1>1 DEF Positions
<1>3. \A i \in Positions : i \in 1 .. Len(wire') <=> i + 1 \in 1 .. Len(wire)
  BY <1>2 DEF Positions
<1>4. \A i \in Positions : i + 1 \in Positions /\ (i = 1 \/ i - 1 \in Positions)
  BY DEF Positions
<1> QED
  BY <1>1, <1>2, <1>3, <1>4 DEF Sync, Opening, Asking, Brings

\* The versions given for a document are those up to the last one.
LEMMA Given ==
  ASSUME TypeOK, VersionsGivenOnce, NEW q \in Queries
  PROVE  /\ ver[q] \in 0 .. opened[Of[q]]
         /\ \A v \in 1 .. opened[Of[q]] : \E p \in Queries : Of[p] = Of[q] /\ ver[p] = v
<1>1. Of[q] \in Docs /\ ver[q] \in Nat
  BY DocSyncAssumption DEF DocSyncAssumption, TypeOK
<1>2. {ver[p] : p \in {x \in Queries : Of[x] = Of[q]}} \ {0} = 1 .. opened[Of[q]]
  BY <1>1 DEF VersionsGivenOnce
<1>3. ver[q] = 0 \/ ver[q] \in 1 .. opened[Of[q]]
  BY <1>2
<1>4. opened[Of[q]] \in Nat
  BY <1>1 DEF TypeOK
<1> QED
  BY <1>1, <1>2, <1>3, <1>4

-----------------------------------------------------------------------------
(* The initial states.                                                     *)

\* A session that has seen no query satisfies every part.
LEMMA InitIInv == Init => IInv
<1> SUFFICES ASSUME Init PROVE IInv
  OBVIOUS
<1>1. wire \in Seq(Frames) /\ Len(wire) = 0
  BY DEF Init
<1>2. TypeOK
  BY <1>1, DocSyncAssumption DEF DocSyncAssumption, Init, TypeOK, Absent
<1>3. \A i \in Positions : i \notin 1 .. Len(wire)
  BY <1>1 DEF Positions
<1>4. QueryInv /\ FrameInv /\ ArriveInv /\ HandlerInv
  BY <1>3, DocSyncAssumption
     DEF DocSyncAssumption, Init, QueryInv, FrameInv, ArriveInv, HandlerInv, Sync, Opening, Asking, Brings
<1>5. StoreInv /\ VersionNamesText /\ TurnInv /\ TurnsAnswerOwnText
  BY DEF Init, StoreInv, VersionNamesText, TurnInv, UnderWay, TurnsAnswerOwnText
<1>6. VersionsGivenOnce
  <2>1. \A d \in Docs : {ver[q] : q \in {p \in Queries : Of[p] = d}} \ {0} = {} /\ 1 .. opened[d] = {}
    BY DEF Init
  <2> QED
    BY <2>1 DEF Init, VersionsGivenOnce
<1> QED
  BY <1>2, <1>4, <1>5, <1>6 DEF IInv

-----------------------------------------------------------------------------
(* The steps.                                                              *)

\* The server reads a text: it replaces the snapshot, unless the document is not
\* open and the frame does not open it.
LEMMA ReadText ==
  ASSUME TypeOK, DidOpen \/ DidChange
  PROVE  \E q \in Queries, kind \in Syncs :
           /\ Take(kind) /\ Brings(1, q) /\ wire[1].version \in Nat \ {0}
           /\ UNCHANGED <<brokerVars, down, hpc, used>> /\ store' \in [Docs -> [version : Nat, text : Queries \cup {Nothing}]]
           /\ \A d \in Docs : d # Of[q] => store'[d] = store[d]
           /\ \/ store'[Of[q]] = [version |-> wire[1].version, text |-> q]
              \/ store[Of[q]] = Absent /\ store' = store /\ ~Opening(1, Of[q])
<1>1. \A q \in Queries : Of[q] \in Docs
  BY DocSyncAssumption DEF DocSyncAssumption
<1>2. CASE DidOpen
  <2>1. /\ Take("didOpen") /\ Head(wire) \in Frames /\ Head(wire) = wire[1] /\ 1 \in 1 .. Len(wire)
        /\ wire[1].kind = "didOpen"
    BY <1>2, Took DEF DidOpen
  <2>2. /\ wire[1].query \in Queries /\ wire[1].version \in Nat \ {0} /\ wire[1].kind \in Syncs
    BY <2>1, FrameType DEF Syncs
  <2>3. /\ store' = [store EXCEPT ![Of[wire[1].query]] = [version |-> wire[1].version, text |-> wire[1].query]]
        /\ UNCHANGED <<brokerVars, down, hpc, used>>
    BY <1>2, <2>1 DEF DidOpen
  <2>4. /\ store' \in [Docs -> [version : Nat, text : Queries \cup {Nothing}]]
        /\ \A d \in Docs : d # Of[wire[1].query] => store'[d] = store[d]
        /\ store'[Of[wire[1].query]] = [version |-> wire[1].version, text |-> wire[1].query]
    BY <1>1, <2>2, <2>3 DEF TypeOK
  <2> QED
    BY <2>1, <2>2, <2>3, <2>4 DEF Brings
<1>3. CASE DidChange
  <2>1. /\ Take("didChange") /\ Head(wire) \in Frames /\ Head(wire) = wire[1] /\ 1 \in 1 .. Len(wire)
        /\ wire[1].kind = "didChange"
    BY <1>3, Took DEF DidChange
  <2>2. /\ wire[1].query \in Queries /\ wire[1].version \in Nat \ {0} /\ wire[1].kind \in Syncs
    BY <2>1, FrameType DEF Syncs
  <2>3. /\ store' = IF store[Of[wire[1].query]] = Absent THEN store
                    ELSE [store EXCEPT ![Of[wire[1].query]] = [version |-> wire[1].version, text |-> wire[1].query]]
        /\ UNCHANGED <<brokerVars, down, hpc, used>>
    BY <1>3, <2>1 DEF DidChange
  <2>4. /\ store' \in [Docs -> [version : Nat, text : Queries \cup {Nothing}]]
        /\ \A d \in Docs : d # Of[wire[1].query] => store'[d] = store[d]
        /\ \/ store'[Of[wire[1].query]] = [version |-> wire[1].version, text |-> wire[1].query]
           \/ store[Of[wire[1].query]] = Absent /\ store' = store
    BY <1>1, <2>2, <2>3 DEF TypeOK
  <2> QED
    BY <2>1, <2>2, <2>3, <2>4 DEF Brings, Opening
<1> QED
  BY <1>2, <1>3

\* Every step keeps the types; only a text that has its version is sent.
LEMMA TypeStep == TypeOK /\ QueryInv /\ [Next]_vars => TypeOK'
<1> SUFFICES ASSUME TypeOK, QueryInv, [Next]_vars PROVE TypeOK'
  OBVIOUS
<1>0. \A q \in Queries : Of[q] \in Docs
  BY DocSyncAssumption DEF DocSyncAssumption
<1>1. ASSUME NEW q \in Queries, Begin(q) \/ ContentFails(q) \/ Withdraw(q) \/ Fail(q) PROVE TypeOK'
  BY <1>1 DEF TypeOK, Begin, ContentFails, Withdraw, Fail, Goto, serverVars
<1>2. ASSUME NEW q \in Queries, Assign(q) PROVE TypeOK'
  BY <1>0, <1>2 DEF TypeOK, Assign, Goto, serverVars
<1>3. ASSUME NEW q \in Queries, SendSync(q) PROVE TypeOK'
  <2> DEFINE f == [kind |-> IF ver[q] = 1 THEN "didOpen" ELSE "didChange", query |-> q, version |-> ver[q]]
  <2>1. ver[q] \in Nat \ {0}
    BY <1>3 DEF TypeOK, QueryInv, SendSync
  <2>2. f \in [kind : Syncs, query : Queries, version : Nat \ {0}]
    BY <2>1 DEF Syncs
  <2>3. f \in Frames
    BY <2>2 DEF Frames
  <2>4. wire' \in Seq(Frames)
    BY <1>3, <2>3, Put DEF SendSync
  <2> QED
    BY <1>3, <2>4 DEF TypeOK, SendSync, Goto, serverVars
<1>4. ASSUME NEW q \in Queries, SendRequest(q) PROVE TypeOK'
  <2>1. [kind |-> "request", query |-> q] \in Frames
    BY DEF Frames
  <2>2. wire' \in Seq(Frames)
    BY <1>4, <2>1, Put DEF SendRequest
  <2> QED
    BY <1>4, <2>2 DEF TypeOK, SendRequest, Goto, serverVars
<1>5. ASSUME NEW q \in Queries, Return(q) PROVE TypeOK'
  BY <1>5 DEF TypeOK, Return, Goto, serverVars
<1>6. CASE DidOpen \/ DidChange
  <2>1. wire' \in Seq(Frames)
    BY <1>6, ReadText, Took
  <2>2. UNCHANGED <<brokerVars, down, hpc, used>> /\ store' \in [Docs -> [version : Nat, text : Queries \cup {Nothing}]]
    BY <1>6, ReadText
  <2> QED
    BY <2>1, <2>2 DEF TypeOK, brokerVars
<1>7. CASE ReadRequest
  <2>1. wire' \in Seq(Frames)
    BY <1>7, Took DEF ReadRequest
  <2> QED
    BY <1>7, <2>1 DEF TypeOK, ReadRequest, brokerVars
<1>8. ASSUME NEW q \in Queries, HandlerReads(q) PROVE TypeOK'
  BY <1>0, <1>8 DEF TypeOK, HandlerReads, brokerVars
<1>9. CASE Crash \/ UNCHANGED vars
  BY <1>9 DEF TypeOK, Crash, vars, brokerVars, serverVars
<1> QED
  BY <1>1, <1>2, <1>3, <1>4, <1>5, <1>6, <1>7, <1>8, <1>9 DEF Next, QueryStep, ServerStep

\* The phase of one query changes, the wire and the server stay.
LEMMA MoveFrame ==
  ASSUME TypeOK, NEW q \in Queries,
         Begin(q) \/ ContentFails(q) \/ Assign(q) \/ Return(q) \/ Withdraw(q) \/ Fail(q)
  PROVE  /\ UNCHANGED <<wire, down, store, hpc, used>>
         /\ \A p \in Queries : p # q => qpc'[p] = qpc[p] /\ ver'[p] = ver[p] /\ answer'[p] = answer[p]
         /\ ~Assign(q) => UNCHANGED <<opened, ver>>
         /\ \/ qpc[q] = "idle" /\ qpc'[q] = "content" /\ ver'[q] = ver[q] /\ answer' = answer
            \/ qpc[q] = "content" /\ qpc'[q] = "sync" /\ Assign(q) /\ answer' = answer
            \/ qpc[q] = "content" /\ qpc'[q] = "done" /\ ver'[q] = ver[q] /\ answer' = answer
            \/ qpc[q] = "wait" /\ qpc'[q] = "done" /\ ver'[q] = ver[q]
            \/ down /\ qpc[q] \in {"sync", "call", "wait"} /\ qpc'[q] = "done" /\ ver'[q] = ver[q] /\ answer' = answer
BY DEF TypeOK, Begin, ContentFails, Assign, Return, Withdraw, Fail, Goto, serverVars

\* A query writes one frame and goes on.
LEMMA SendFrame ==
  ASSUME TypeOK, QueryInv, NEW q \in Queries, SendSync(q) \/ SendRequest(q)
  PROVE  \E f \in Frames :
           /\ wire' = Append(wire, f) /\ f.query = q /\ ~down
           /\ UNCHANGED <<opened, ver, answer, down, store, hpc, used>>
           /\ \A p \in Queries : p # q => qpc'[p] = qpc[p]
           /\ \/ qpc[q] = "sync" /\ qpc'[q] = "call" /\ f.kind \in Syncs /\ f.version = ver[q]
                 /\ (f.kind = "didOpen" <=> ver[q] = 1)
              \/ qpc[q] = "call" /\ qpc'[q] = "wait" /\ f.kind = "request" /\ f.kind \notin Syncs
<1>1. CASE SendSync(q)
  <2> DEFINE f == [kind |-> IF ver[q] = 1 THEN "didOpen" ELSE "didChange", query |-> q, version |-> ver[q]]
  <2>1. ver[q] \in Nat \ {0}
    BY <1>1 DEF TypeOK, QueryInv, SendSync
  <2>2. f \in [kind : Syncs, query : Queries, version : Nat \ {0}]
    BY <2>1 DEF Syncs
  <2>3. /\ f \in Frames /\ f.query = q /\ f.kind \in Syncs /\ f.version = ver[q]
        /\ (f.kind = "didOpen" <=> ver[q] = 1)
    BY <2>2 DEF Frames, Syncs
  <2>4. wire' = Append(wire, f) /\ ~down /\ UNCHANGED <<opened, ver, answer, down, store, hpc, used>>
    BY <1>1 DEF SendSync, serverVars
  <2>5. qpc[q] = "sync" /\ qpc'[q] = "call" /\ \A p \in Queries : p # q => qpc'[p] = qpc[p]
    BY <1>1 DEF TypeOK, SendSync, Goto
  <2> HIDE DEF f
  <2> QED
    BY <2>3, <2>4, <2>5
<1>2. CASE SendRequest(q)
  <2> DEFINE f == [kind |-> "request", query |-> q]
  <2>1. f \in Frames /\ f.query = q /\ f.kind = "request" /\ f.kind \notin Syncs
    BY DEF Frames, Syncs
  <2>2. wire' = Append(wire, f) /\ ~down /\ UNCHANGED <<opened, ver, answer, down, store, hpc, used>>
    BY <1>2 DEF SendRequest, serverVars
  <2>3. qpc[q] = "call" /\ qpc'[q] = "wait" /\ \A p \in Queries : p # q => qpc'[p] = qpc[p]
    BY <1>2 DEF TypeOK, SendRequest, Goto
  <2> HIDE DEF f
  <2> QED
    BY <2>1, <2>2, <2>3
<1> QED
  BY <1>1, <1>2

\* A query gets its version in Assign, and writes its request once.
LEMMA QueryInvStep == TypeOK /\ QueryInv /\ [Next]_vars => QueryInv'
<1> SUFFICES ASSUME TypeOK, QueryInv, [Next]_vars PROVE QueryInv'
  OBVIOUS
<1>0. Len(wire) \in Nat /\ Len(wire) + 1 \notin 1 .. Len(wire)
  BY DEF TypeOK
<1>1. ASSUME NEW q \in Queries, Begin(q) \/ ContentFails(q) \/ Assign(q) \/ Return(q) \/ Withdraw(q) \/ Fail(q)
      PROVE  QueryInv'
  <2>1. UNCHANGED <<wire, hpc>>
    BY <1>1, MoveFrame
  <2>2. \A i \in Positions, p \in Queries : Asking(i, p)' <=> Asking(i, p)
    BY <2>1 DEF Asking
  <2>3. /\ qpc'[q] \in {"idle", "content"} => ver'[q] = 0
        /\ qpc'[q] \in {"sync", "call", "wait"} => ver'[q] # 0
        /\ qpc[q] \in {"wait", "done"} => qpc'[q] \in {"wait", "done"}
    <3>1. CASE Assign(q)
      <4>1. Of[q] \in Docs /\ opened[Of[q]] \in Nat
        BY DocSyncAssumption DEF DocSyncAssumption, TypeOK
      <4>2. qpc[q] = "content" /\ qpc'[q] = "sync" /\ ver'[q] = opened[Of[q]] + 1
        BY <3>1 DEF TypeOK, Assign, Goto
      <4> QED
        BY <4>1, <4>2
    <3>2. CASE ~Assign(q)
      BY <1>1, <3>2, MoveFrame DEF QueryInv
    <3> QED
      BY <3>1, <3>2
  <2>4. \A p \in Queries : p # q => qpc'[p] = qpc[p] /\ ver'[p] = ver[p]
    BY <1>1, MoveFrame
  <2> QED
    BY <2>1, <2>2, <2>3, <2>4 DEF QueryInv
<1>2. ASSUME NEW q \in Queries, SendSync(q) \/ SendRequest(q) PROVE QueryInv'
  <2>1. PICK f \in Frames :
           /\ wire' = Append(wire, f) /\ f.query = q
           /\ UNCHANGED <<ver, hpc>>
           /\ \A p \in Queries : p # q => qpc'[p] = qpc[p]
           /\ \/ qpc[q] = "sync" /\ qpc'[q] = "call" /\ f.kind \in Syncs
              \/ qpc[q] = "call" /\ qpc'[q] = "wait" /\ f.kind = "request"
    BY <1>2, SendFrame
  <2>2. \A i \in Positions, p \in Queries :
          Asking(i, p)' <=> Asking(i, p) \/ (i = Len(wire) + 1 /\ f.kind = "request" /\ f.query = p)
    BY <2>1, Put
  <2>3. f.kind \in Syncs => f.kind # "request"
    BY DEF Syncs
  <2>4. hpc[q] = "none" /\ \A i \in Positions : ~Asking(i, q)
    BY <2>1 DEF QueryInv
  <2> QED
    BY <2>1, <2>2, <2>3, <2>4 DEF QueryInv
<1>3. CASE DidOpen \/ DidChange
  <2>1. PICK kind : Take(kind) /\ UNCHANGED <<brokerVars, hpc>>
    BY <1>3, ReadText
  <2>2. \A i \in Positions, p \in Queries : i + 1 \in Positions /\ (Asking(i, p)' <=> Asking(i + 1, p))
    BY <2>1, Took
  <2>3. \A i, j \in Positions : i + 1 = j + 1 => i = j
    BY DEF Positions
  <2> QED
    BY <2>1, <2>2, <2>3 DEF QueryInv, brokerVars
<1>4. CASE ReadRequest
  <2>1. /\ \A i \in Positions, p \in Queries : i + 1 \in Positions /\ (Asking(i, p)' <=> Asking(i + 1, p))
        /\ Asking(1, Head(wire).query) /\ Head(wire).query \in Queries
    BY <1>4, Took, FrameType DEF ReadRequest, Asking
  <2>2. \A i, j \in Positions : (i + 1 = j + 1 => i = j) /\ i + 1 # 1
    BY DEF Positions
  <2>3. 1 \in Positions
    BY DEF Positions
  <2>4. PICK q \in Queries : q = Head(wire).query
    BY <2>1
  <2>5. \A i \in Positions : ~Asking(i + 1, q)
    BY <2>1, <2>2, <2>3, <2>4 DEF QueryInv
  <2>6. /\ UNCHANGED <<qpc, ver>> /\ hpc'[q] = "run" /\ \A p \in Queries : p # q => hpc'[p] = hpc[p]
    BY <1>4, <2>4 DEF TypeOK, ReadRequest, brokerVars
  <2>7. qpc[q] \in {"wait", "done"}
    BY <2>1, <2>3, <2>4 DEF QueryInv
  <2> QED
    BY <2>1, <2>2, <2>5, <2>6, <2>7 DEF QueryInv
<1>5. ASSUME NEW q \in Queries, HandlerReads(q) PROVE QueryInv'
  <2>1. \A i \in Positions, p \in Queries : Asking(i, p)' <=> Asking(i, p)
    BY <1>5 DEF Asking, HandlerReads
  <2>2. UNCHANGED <<qpc, ver>> /\ \A p \in Queries : hpc'[p] # hpc[p] => p = q /\ hpc[p] = "run"
    BY <1>5 DEF TypeOK, HandlerReads, brokerVars
  <2>3. \A p \in Queries : hpc[p] = "none" <=> hpc'[p] = "none"
    BY <1>5 DEF TypeOK, HandlerReads
  <2> QED
    BY <2>1, <2>2, <2>3 DEF QueryInv
<1>6. CASE Crash \/ UNCHANGED vars
  <2>1. UNCHANGED <<qpc, ver, hpc, wire>>
    BY <1>6 DEF Crash, vars, brokerVars, serverVars
  <2>2. \A i \in Positions, p \in Queries : Asking(i, p)' <=> Asking(i, p)
    BY <2>1 DEF Asking
  <2> QED
    BY <2>1, <2>2 DEF QueryInv
<1> QED
  BY <1>1, <1>2, <1>3, <1>4, <1>5, <1>6 DEF Next, QueryStep, ServerStep

\* What Assign does: the next version of the document, for a query that had none.
LEMMA AssignFrame ==
  ASSUME TypeOK, QueryInv, NEW q \in Queries, Assign(q)
  PROVE  /\ Of[q] \in Docs /\ opened[Of[q]] \in Nat /\ ver[q] = 0
         /\ ver' = [ver EXCEPT ![q] = opened[Of[q]] + 1]
         /\ ver'[q] = opened[Of[q]] + 1 /\ opened'[Of[q]] = opened[Of[q]] + 1
         /\ \A p \in Queries : p # q => ver'[p] = ver[p]
         /\ \A d \in Docs : d # Of[q] => opened'[d] = opened[d]
         /\ UNCHANGED <<wire, store, hpc, used, down, answer>>
         /\ qpc[q] = "content" /\ qpc'[q] = "sync" /\ \A p \in Queries : p # q => qpc'[p] = qpc[p]
<1>1. Of[q] \in Docs /\ opened[Of[q]] \in Nat
  BY DocSyncAssumption DEF DocSyncAssumption, TypeOK
<1> QED
  BY <1>1 DEF TypeOK, QueryInv, Assign, Goto, serverVars

\* Only Assign gives versions.
LEMMA OthersKeepVersions ==
  ASSUME TypeOK, QueryInv, [Next]_vars
  PROVE  (\E q \in Queries : Assign(q)) \/ UNCHANGED <<opened, ver>>
<1>1. ASSUME NEW q \in Queries, SendSync(q) \/ SendRequest(q) PROVE UNCHANGED <<opened, ver>>
  BY <1>1, SendFrame
<1>2. CASE DidOpen \/ DidChange
  BY <1>2, ReadText DEF brokerVars
<1> QED
  BY <1>1, <1>2, MoveFrame DEF Next, QueryStep, ServerStep, ReadRequest, HandlerReads, Crash, vars, brokerVars

\* A query keeps the version its frame was written with.
LEMMA FrameStep == TypeOK /\ QueryInv /\ FrameInv /\ [Next]_vars => FrameInv'
<1> SUFFICES ASSUME TypeOK, QueryInv, FrameInv, [Next]_vars PROVE FrameInv'
  OBVIOUS
<1>0. \A i \in Positions, q \in Queries : Brings(i, q) => wire[i].version = ver[q] /\ wire[i].version # 0
  <2>1. ASSUME NEW i \in Positions, NEW q \in Queries, Brings(i, q) PROVE wire[i].version # 0
    <3>1. wire[i] \in Frames /\ wire[i].kind \in Syncs
      BY <2>1 DEF TypeOK, Brings
    <3> QED
      BY <3>1, FrameType
  <2> QED
    BY <2>1 DEF FrameInv
<1>1. ASSUME NEW q \in Queries, Assign(q) PROVE FrameInv'
  <2>1. \A i \in Positions, p \in Queries : Brings(i, p)' <=> Brings(i, p)
    BY <1>1, AssignFrame DEF Brings
  <2> QED
    BY <1>0, <1>1, <2>1, AssignFrame DEF FrameInv
<1>2. ASSUME NEW q \in Queries, SendSync(q) \/ SendRequest(q) PROVE FrameInv'
  <2>1. PICK f \in Frames :
          /\ wire' = Append(wire, f) /\ f.query = q /\ UNCHANGED ver
          /\ (f.kind \in Syncs => f.version = ver[q])
    BY <1>2, SendFrame
  <2>2. /\ \A i \in Positions, p \in Queries :
              Brings(i, p)' <=> Brings(i, p) \/ (i = Len(wire) + 1 /\ f.kind \in Syncs /\ f.query = p)
        /\ wire'[Len(wire) + 1] = f /\ \A i \in 1 .. Len(wire) : wire'[i] = wire[i]
    BY <2>1, Put
  <2> QED
    BY <2>1, <2>2 DEF FrameInv, Brings
<1>3. ASSUME NEW kind, Take(kind), UNCHANGED ver PROVE FrameInv'
  <2>1. /\ \A i \in Positions, p \in Queries : i + 1 \in Positions /\ (Brings(i, p)' <=> Brings(i + 1, p))
        /\ \A i \in Positions : i \in 1 .. Len(wire') => wire'[i] = wire[i + 1]
    BY <1>3, Took
  <2>2. \A i \in Positions, p \in Queries : Brings(i, p)' => i \in 1 .. Len(wire')
    BY DEF Brings
  <2> QED
    BY <1>3, <2>1, <2>2 DEF FrameInv
<1>4. CASE DidOpen \/ DidChange
  BY <1>3, <1>4, ReadText DEF brokerVars
<1>5. CASE ReadRequest
  BY <1>3, <1>5 DEF ReadRequest, brokerVars
<1>6. CASE UNCHANGED <<wire, ver>>
  <2>1. \A i \in Positions, p \in Queries : Brings(i, p)' <=> Brings(i, p)
    BY <1>6 DEF Brings
  <2> QED
    BY <1>6, <2>1 DEF FrameInv
<1>7. ASSUME NEW q \in Queries, Begin(q) \/ ContentFails(q) \/ Return(q) \/ Withdraw(q) \/ Fail(q)
      PROVE  FrameInv'
  <2>1. ~Assign(q) => UNCHANGED <<wire, ver>>
    BY <1>7, MoveFrame
  <2> QED
    BY <1>1, <1>6, <2>1
<1> QED
  BY <1>1, <1>2, <1>4, <1>5, <1>6, <1>7
     DEF Next, QueryStep, ServerStep, HandlerReads, Crash, vars, brokerVars

\* Assign gives the version after the last one.
LEMMA VersionsStep == TypeOK /\ QueryInv /\ VersionsGivenOnce /\ [Next]_vars => VersionsGivenOnce'
<1> SUFFICES ASSUME TypeOK, QueryInv, VersionsGivenOnce, [Next]_vars PROVE VersionsGivenOnce'
  OBVIOUS
<1>1. ASSUME NEW q \in Queries, Assign(q) PROVE VersionsGivenOnce'
  <2> DEFINE Vers(d) == {ver[p] : p \in {x \in Queries : Of[x] = d}} \ {0}
             VersN(d) == {ver'[p] : p \in {x \in Queries : Of[x] = d}} \ {0}
  <2>0. \A d \in Docs : Vers(d) = 1 .. opened[d]
    BY DEF VersionsGivenOnce
  <2>1. ASSUME NEW d \in Docs, d # Of[q] PROVE VersN(d) = 1 .. opened'[d]
    BY <1>1, <2>0, <2>1, AssignFrame
  <2>2. VersN(Of[q]) = 1 .. opened'[Of[q]]
    <3>1. VersN(Of[q]) = Vers(Of[q]) \cup {opened[Of[q]] + 1}
      <4>1. VersN(Of[q]) \subseteq Vers(Of[q]) \cup {opened[Of[q]] + 1}
        BY <1>1, AssignFrame
      <4>2. opened[Of[q]] + 1 \in VersN(Of[q])
        BY <1>1, AssignFrame
      <4>3. ASSUME NEW v \in Vers(Of[q]) PROVE v \in VersN(Of[q])
        <5>1. PICK p \in Queries : Of[p] = Of[q] /\ v = ver[p] /\ v # 0
          BY <4>3
        <5>2. p # q /\ ver'[p] = v
          BY <1>1, <5>1, AssignFrame
        <5> QED
          BY <5>1, <5>2
      <4> QED
        BY <4>1, <4>2, <4>3
    <3>2. Of[q] \in Docs /\ opened[Of[q]] \in Nat /\ opened'[Of[q]] = opened[Of[q]] + 1
      BY <1>1, AssignFrame
    <3>3. 1 .. opened'[Of[q]] = (1 .. opened[Of[q]]) \cup {opened[Of[q]] + 1}
      BY <3>2
    <3> QED
      BY <2>0, <3>1, <3>2, <3>3
  <2>3. ASSUME NEW p \in Queries, p # q, Of[p] = Of[q] PROVE ver'[p] # ver'[q]
    <3>1. ver[p] \in 0 .. opened[Of[q]] /\ opened[Of[q]] \in Nat
      BY <1>1, <2>3, Given, AssignFrame
    <3> QED
      BY <1>1, <2>3, <3>1, AssignFrame
  <2>4. \A p, r \in Queries : p # r /\ Of[p] = Of[r] /\ ver'[p] = ver'[r] => ver'[p] = 0
    BY <1>1, <2>3, AssignFrame DEF VersionsGivenOnce
  <2>5. \A d \in Docs : VersN(d) = 1 .. opened'[d]
    BY <2>1, <2>2
  <2> QED
    BY <2>4, <2>5 DEF VersionsGivenOnce
<1>2. CASE UNCHANGED <<opened, ver>>
  BY <1>2 DEF VersionsGivenOnce
<1> QED
  BY <1>1, <1>2, OthersKeepVersions

\* The server never holds a text under another text's version.
LEMMA StoreStep ==
  TypeOK /\ QueryInv /\ FrameInv /\ StoreInv /\ VersionNamesText /\ [Next]_vars
    => StoreInv' /\ VersionNamesText'
<1> SUFFICES ASSUME TypeOK, QueryInv, FrameInv, StoreInv, VersionNamesText, [Next]_vars,
                    NEW d \in Docs, store'[d] # Absent
             PROVE  /\ store'[d].version # 0
                    /\ store'[d].text \in Queries /\ Of[store'[d].text] = d
                    /\ ver'[store'[d].text] = store'[d].version
  BY DEF StoreInv, VersionNamesText, Absent
<1> DEFINE Named == /\ store'[d].version # 0
                    /\ store'[d].text \in Queries /\ Of[store'[d].text] = d
                    /\ ver'[store'[d].text] = store'[d].version
<1>1. ASSUME store'[d] = store[d], UNCHANGED ver PROVE Named
  BY <1>1 DEF StoreInv, VersionNamesText
<1>2. ASSUME NEW q \in Queries, Assign(q) PROVE Named
  <2>1. store' = store /\ ver[q] = 0 /\ \A p \in Queries : p # q => ver'[p] = ver[p]
    BY <1>2, AssignFrame
  <2>2. /\ store[d].version # 0 /\ store[d].text \in Queries /\ Of[store[d].text] = d
        /\ ver[store[d].text] = store[d].version
    BY <2>1 DEF StoreInv, VersionNamesText
  <2> QED
    BY <2>1, <2>2
<1>3. CASE DidOpen \/ DidChange
  <2>1. PICK q \in Queries :
           /\ Brings(1, q) /\ wire[1].version \in Nat \ {0}
           /\ UNCHANGED brokerVars
           /\ \A x \in Docs : x # Of[q] => store'[x] = store[x]
           /\ store'[Of[q]] = [version |-> wire[1].version, text |-> q] \/ store' = store
    BY <1>3, ReadText
  <2>2. wire[1].version = ver[q]
    BY <2>1 DEF FrameInv, Positions
  <2>3. CASE d = Of[q] /\ store'[Of[q]] = [version |-> wire[1].version, text |-> q]
    BY <2>1, <2>2, <2>3 DEF brokerVars
  <2> QED
    BY <1>1, <2>1, <2>3 DEF brokerVars
<1>4. ASSUME NEW q \in Queries, SendSync(q) \/ SendRequest(q) PROVE Named
  BY <1>1, <1>4, SendFrame
<1>5. ASSUME NEW q \in Queries, Begin(q) \/ ContentFails(q) \/ Return(q) \/ Withdraw(q) \/ Fail(q)
      PROVE  Named
  BY <1>1, <1>2, <1>5, MoveFrame
<1>6. CASE ReadRequest \/ Crash \/ (\E q \in Queries : HandlerReads(q)) \/ UNCHANGED vars
  BY <1>1, <1>6 DEF ReadRequest, Crash, HandlerReads, vars, brokerVars, serverVars
<1> QED
  BY <1>2, <1>3, <1>4, <1>5, <1>6 DEF Next, QueryStep, ServerStep

\* Queries that take turns begin when nobody else is under way.
LEMMA TurnStep == TypeOK /\ QueryInv /\ TurnInv /\ [Next]_vars => TurnInv'
<1> SUFFICES ASSUME TypeOK, QueryInv, TurnInv, [Next]_vars PROVE TurnInv'
  OBVIOUS
<1>1. ASSUME UNCHANGED <<opened, ver>>, \A q \in Queries : UnderWay(q)' => UnderWay(q) PROVE TurnInv'
  BY <1>1 DEF TurnInv
<1>2. ASSUME NEW q \in Queries, Begin(q) PROVE TurnInv'
  <2>1. /\ qpc[q] = "idle" /\ \A p \in Queries : p # q => qpc'[p] = qpc[p]
        /\ UNCHANGED <<opened, ver>> /\ ver[q] = 0
        /\ Of[q] \notin Shared => \A p \in Queries : Of[p] = Of[q] => ~UnderWay(p)
    BY <1>2 DEF TypeOK, QueryInv, Begin, Goto
  <2>2. \A p \in Queries : p # q => (UnderWay(p)' <=> UnderWay(p))
    BY <2>1 DEF UnderWay
  <2> QED
    BY <2>1, <2>2 DEF TurnInv
<1>3. ASSUME NEW q \in Queries, Assign(q) PROVE TurnInv'
  <2>1. \A p \in Queries : UnderWay(p)' <=> UnderWay(p)
    BY <1>3, AssignFrame DEF UnderWay
  <2>2. UnderWay(q)
    BY <1>3 DEF Assign, UnderWay
  <2>3. \A p \in Queries : Of[p] \in Docs
    BY DocSyncAssumption DEF DocSyncAssumption
  <2>4. ASSUME NEW p \in Queries, Of[p] \notin Shared, UnderWay(p), ver'[p] # 0
        PROVE  ver'[p] = opened'[Of[p]]
    <3>1. CASE Of[p] = Of[q]
      <4>1. p = q
        BY <2>2, <2>4, <3>1 DEF TurnInv
      <4> QED
        BY <1>3, <4>1, AssignFrame
    <3>2. CASE Of[p] # Of[q]
      BY <1>3, <2>3, <2>4, <3>2, AssignFrame DEF TurnInv
    <3> QED
      BY <3>1, <3>2
  <2> QED
    BY <2>1, <2>4 DEF TurnInv
<1>4. ASSUME NEW q \in Queries, ContentFails(q) \/ Return(q) \/ Withdraw(q) \/ Fail(q) PROVE TurnInv'
  <2>1. /\ \A p \in Queries : p # q => qpc'[p] = qpc[p]
        /\ qpc'[q] = "done" /\ UNCHANGED <<opened, ver>>
    BY <1>4 DEF TypeOK, ContentFails, Return, Withdraw, Fail, Goto
  <2> QED
    BY <1>1, <2>1 DEF UnderWay
<1>5. ASSUME NEW q \in Queries, SendSync(q) \/ SendRequest(q) PROVE TurnInv'
  <2>1. /\ \A p \in Queries : p # q => qpc'[p] = qpc[p]
        /\ qpc[q] \in {"sync", "call"} /\ UNCHANGED <<opened, ver>>
    BY <1>5, SendFrame
  <2> QED
    BY <1>1, <2>1 DEF UnderWay
<1>6. CASE DidOpen \/ DidChange
  BY <1>1, <1>6, ReadText DEF brokerVars, UnderWay
<1>7. CASE ReadRequest \/ Crash \/ (\E q \in Queries : HandlerReads(q)) \/ UNCHANGED vars
  <2>1. UNCHANGED <<opened, ver, qpc>>
    BY <1>7 DEF ReadRequest, Crash, HandlerReads, vars, brokerVars
  <2> QED
    BY <1>1, <2>1 DEF UnderWay
<1> QED
  BY <1>2, <1>3, <1>4, <1>5, <1>6, <1>7 DEF Next, QueryStep, ServerStep

\* What the server holds changes with the texts it reads, in their order; here
\* the store's fate is followed for one document.
LEMMA OpenShifts ==
  ASSUME TypeOK, NEW d \in Docs, NEW i \in Positions, OpenBy(d, i + 1),
         DidOpen \/ DidChange \/ ReadRequest
  PROVE  OpenBy(d, i)'
<1>1. CASE DidOpen \/ DidChange
  <2>1. PICK q \in Queries, kind \in Syncs :
           /\ Take(kind) /\ Brings(1, q)
           /\ \A x \in Docs : x # Of[q] => store'[x] = store[x]
           /\ \/ store'[Of[q]] = [version |-> wire[1].version, text |-> q]
              \/ store[Of[q]] = Absent /\ store' = store /\ ~Opening(1, Of[q])
    BY <1>1, ReadText
  <2>2. [version |-> wire[1].version, text |-> q] # Absent
    BY DocSyncAssumption DEF DocSyncAssumption, Absent
  <2>3. CASE store[d] # Absent
    BY <2>1, <2>2, <2>3 DEF OpenBy
  <2>4. ASSUME NEW j \in Positions, j < i + 1, Opening(j, d) PROVE OpenBy(d, i)'
    <3>1. CASE j = 1
      <4>1. d = Of[q] /\ Opening(1, d)
        BY <2>1, <2>4, <3>1 DEF Brings, Opening
      <4>2. store'[d] # Absent
        BY <2>1, <2>2, <4>1
      <4> QED
        BY <4>2 DEF OpenBy
    <3>2. CASE j # 1
      <4>1. PICK k \in Positions : k + 1 = j /\ k < i
        BY <2>4, <3>2 DEF Positions
      <4>2. Opening(k, d)'
        BY <2>1, <2>4, <4>1, Took
      <4> QED
        BY <4>1, <4>2 DEF OpenBy
    <3> QED
      BY <3>1, <3>2
  <2> QED
    BY <2>3, <2>4 DEF OpenBy
<1>2. CASE ReadRequest
  <2>1. Take("request") /\ store' = store
    BY <1>2 DEF ReadRequest
  <2>2. ASSUME NEW j \in Positions, j < i + 1, Opening(j, d) PROVE OpenBy(d, i)'
    <3>1. wire[1].kind = "request"
      BY <2>1, Took
    <3>2. j # 1
      BY <2>2, <3>1 DEF Opening
    <3>3. PICK k \in Positions : k + 1 = j /\ k < i
      BY <2>2, <3>2 DEF Positions
    <3>4. Opening(k, d)'
      BY <2>1, <2>2, <3>3, Took
    <3> QED
      BY <3>3, <3>4 DEF OpenBy
  <2> QED
    BY <2>1, <2>2 DEF OpenBy
<1> QED
  BY <1>1, <1>2

\* The server's reading brings q's text nearer, and nothing overtakes it.
LEMMA SettlesShifts ==
  ASSUME TypeOK, ArriveInv, NEW q \in Queries, Of[q] \notin Shared, Settles(q),
         DidOpen \/ DidChange \/ ReadRequest
  PROVE  Settles(q)'
<1>0. Of[q] \in Docs /\ \A p \in Queries : Of[p] \in Docs
  BY DocSyncAssumption DEF DocSyncAssumption
<1>1. ASSUME NEW kind, Take(kind), Quiet(Of[q]) PROVE Quiet(Of[q])'
  BY <1>0, <1>1, Took DEF Quiet
<1>2. ASSUME NEW kind, Take(kind), NEW i \in Positions, i # 1, Brings(i, q),
             \A j \in Positions : j > i => ~Sync(j, Of[q])
      PROVE  Settles(q)'
  <2>1. PICK k \in Positions : k + 1 = i
    BY <1>2 DEF Positions
  <2>2. Brings(k, q)'
    BY <1>2, <2>1, Took
  <2>3. ASSUME NEW j \in Positions, j > k PROVE ~Sync(j, Of[q])'
    <3>1. j + 1 \in Positions /\ j + 1 > i
      BY <2>1, <2>3 DEF Positions
    <3> QED
      BY <1>0, <1>2, <3>1, Took
  <2> QED
    BY <2>2, <2>3 DEF Settles
<1>3. CASE ReadRequest
  <2>1. Take("request") /\ store' = store
    BY <1>3 DEF ReadRequest
  <2>2. wire[1].kind \notin Syncs
    BY <2>1, Took DEF Syncs
  <2>3. \A i \in Positions : Brings(i, q) => i # 1
    BY <2>2 DEF Brings
  <2> QED
    BY <1>1, <1>2, <2>1, <2>3 DEF Settles
<1>4. CASE DidOpen \/ DidChange
  <2>1. PICK p \in Queries, kind \in Syncs :
           /\ Take(kind) /\ Brings(1, p)
           /\ \A x \in Docs : x # Of[p] => store'[x] = store[x]
           /\ \/ store'[Of[p]] = [version |-> wire[1].version, text |-> p]
              \/ store[Of[p]] = Absent /\ store' = store /\ ~Opening(1, Of[p])
    BY <1>4, ReadText
  <2>2. 1 \in Positions /\ Sync(1, Of[p])
    BY <2>1 DEF Positions, Brings, Sync
  <2>3. CASE Quiet(Of[q]) /\ store[Of[q]].text = q
    <3>1. Of[p] # Of[q]
      BY <2>2, <2>3 DEF Quiet
    <3> QED
      BY <1>0, <1>1, <2>1, <2>3, <3>1 DEF Settles
  <2>4. ASSUME NEW i \in Positions, Brings(i, q), \A j \in Positions : j > i => ~Sync(j, Of[q])
        PROVE  Settles(q)'
    <3>1. CASE i = 1
      <4>1. p = q
        BY <2>1, <2>4, <3>1 DEF Brings
      <4>2. Opening(1, Of[q]) \/ OpenBy(Of[q], 1)
        BY <1>0, <2>2, <4>1 DEF ArriveInv
      <4>3. \A j \in Positions : ~(j < 1)
        BY DEF Positions
      <4>4. Opening(1, Of[q]) \/ store[Of[q]] # Absent
        BY <4>2, <4>3 DEF OpenBy
      <4>5. store'[Of[q]].text = q
        BY <2>1, <4>1, <4>4
      <4>6. Quiet(Of[q])'
        <5>1. ASSUME NEW j \in Positions PROVE ~Sync(j, Of[q])'
          <6>1. j + 1 \in Positions /\ j + 1 > 1
            BY DEF Positions
          <6> QED
            BY <1>0, <2>1, <2>4, <3>1, <6>1, Took
        <5> QED
          BY <5>1 DEF Quiet
      <4> QED
        BY <4>5, <4>6 DEF Settles
    <3>2. CASE i # 1
      BY <1>2, <2>1, <2>4, <3>2
    <3> QED
      BY <3>1, <3>2
  <2> QED
    BY <2>3, <2>4 DEF Settles
<1> QED
  BY <1>3, <1>4

\* Every text of a document whose queries take turns is accepted, and the latest
\* one gets there.
LEMMA ArriveStep ==
  TypeOK /\ QueryInv /\ VersionsGivenOnce /\ TurnInv /\ ArriveInv /\ [Next]_vars => ArriveInv'
<1> SUFFICES ASSUME TypeOK, QueryInv, VersionsGivenOnce, TurnInv, ArriveInv, [Next]_vars
             PROVE  ArriveInv'
  OBVIOUS
<1>0. /\ \A p \in Queries : Of[p] \in Docs
      /\ Len(wire) \in Nat /\ Len(wire) + 1 \in Positions
  BY DocSyncAssumption DEF DocSyncAssumption, TypeOK, Positions
<1>n. PICK n \in Positions : n = Len(wire) + 1
  BY <1>0
<1>1. ASSUME UNCHANGED <<wire, store>>
      PROVE  /\ \A i \in Positions, d \in Docs : (Sync(i, d)' <=> Sync(i, d)) /\ (Opening(i, d)' <=> Opening(i, d))
             /\ \A i \in Positions, d \in Docs : OpenBy(d, i)' <=> OpenBy(d, i)
             /\ \A d \in Docs : WillOpen(d)' <=> WillOpen(d)
             /\ \A q \in Queries : Settles(q)' <=> Settles(q)
  BY <1>1 DEF Sync, Opening, OpenBy, WillOpen, Settles, Brings, Quiet
<1>2. ASSUME UNCHANGED <<wire, store, opened, ver>>, down => down',
             \A q \in Queries : qpc[q] = "sync" /\ qpc'[q] # "sync" => down'
      PROVE  ArriveInv'
  BY <1>0, <1>1, <1>2 DEF ArriveInv
<1>3. ASSUME NEW q \in Queries, Assign(q) PROVE ArriveInv'
  <2>1. /\ UNCHANGED <<wire, store, down>> /\ qpc'[q] = "sync"
        /\ \A p \in Queries : p # q => qpc'[p] = qpc[p] /\ ver'[p] = ver[p]
        /\ \A p \in Queries : Of[p] # Of[q] => opened'[Of[p]] = opened[Of[p]]
        /\ opened[Of[q]] \in Nat /\ opened'[Of[q]] = opened[Of[q]] + 1
    BY <1>0, <1>3, AssignFrame
  <2>2. ASSUME NEW p \in Queries, p # q, ver'[p] = opened'[Of[p]] PROVE ver[p] = opened[Of[p]]
    <3>1. ver[p] \in 0 .. opened[Of[p]]
      BY Given
    <3> QED
      BY <2>1, <2>2, <3>1
  <2> QED
    BY <1>0, <1>1, <2>1, <2>2 DEF ArriveInv
<1>4. ASSUME NEW q \in Queries, SendSync(q) \/ SendRequest(q) PROVE ArriveInv'
  <2>1. PICK f \in Frames :
           /\ wire' = Append(wire, f) /\ f.query = q /\ ~down
           /\ UNCHANGED <<opened, ver, down, store>>
           /\ \A p \in Queries : p # q => qpc'[p] = qpc[p]
           /\ \/ qpc[q] = "sync" /\ f.kind \in Syncs /\ (f.kind = "didOpen" <=> ver[q] = 1)
              \/ qpc[q] = "call" /\ f.kind \notin Syncs
    BY <1>4, SendFrame
  <2>2. /\ \A i \in Positions, d \in Docs :
             /\ Sync(i, d)' <=> Sync(i, d) \/ (i = n /\ f.kind \in Syncs /\ Of[q] = d)
             /\ Opening(i, d)' <=> Opening(i, d) \/ (i = n /\ f.kind = "didOpen" /\ Of[q] = d)
        /\ \A i \in Positions, p \in Queries :
             Brings(i, p)' <=> Brings(i, p) \/ (i = n /\ f.kind \in Syncs /\ q = p)
        /\ n = Len(wire') /\ \A i \in Positions, d \in Docs : i >= n => ~Sync(i, d)
    BY <1>n, <2>1, Put DEF Sync
  <2>3. \A i \in Positions, d \in Docs : OpenBy(d, i) => OpenBy(d, i)'
    BY <2>1, <2>2 DEF OpenBy
  <2>4. \A d \in Docs : WillOpen(d) => WillOpen(d)'
    BY <2>1, <2>2 DEF WillOpen
  <2>5. f.kind \in Syncs /\ Of[q] \notin Shared =>
          Opening(n, Of[q])' \/ OpenBy(Of[q], n)
    <3>1. CASE f.kind = "didOpen"
      BY <1>0, <2>2, <3>1
    <3>2. CASE f.kind \in Syncs /\ f.kind # "didOpen" /\ Of[q] \notin Shared
      <4>1. qpc[q] = "sync" /\ ver[q] # 1 /\ ver[q] # 0
        BY <2>1, <3>2 DEF QueryInv
      <4>2. ver[q] \in 0 .. opened[Of[q]] /\ opened[Of[q]] \in Nat
        BY <1>0, Given DEF TypeOK
      <4>3. 1 \in 1 .. opened[Of[q]]
        BY <4>1, <4>2
      <4>4. PICK p \in Queries : Of[p] = Of[q] /\ ver[p] = 1
        BY <4>3, Given
      <4>5. p # q /\ UnderWay(q)
        BY <4>1, <4>4 DEF UnderWay
      <4>6. qpc[p] # "sync"
        BY <3>2, <4>4, <4>5 DEF TurnInv, UnderWay
      <4>7. WillOpen(Of[q])
        BY <2>1, <3>2, <4>4, <4>6 DEF ArriveInv
      <4> QED
        BY <1>0, <1>n, <4>7 DEF WillOpen, OpenBy, Opening, Positions
    <3> QED
      BY <3>1, <3>2
  <2>6. ASSUME NEW i \in Positions, NEW d \in Docs \ Shared, Sync(i, d)'
        PROVE  Opening(i, d)' \/ OpenBy(d, i)'
    <3>1. CASE Sync(i, d)
      BY <2>2, <2>3, <3>1 DEF ArriveInv
    <3>2. CASE i = n /\ f.kind \in Syncs /\ Of[q] = d
      BY <1>0, <2>3, <2>5, <3>2
    <3> QED
      BY <2>2, <2>6, <3>1, <3>2
  <2>7. ASSUME NEW p \in Queries, Of[p] \notin Shared, ver[p] # 0, qpc'[p] # "sync"
        PROVE  /\ WillOpen(Of[p])'
               /\ ver[p] = opened[Of[p]] => Settles(p)'
    <3>1. CASE p = q /\ f.kind \in Syncs
      <4>1. WillOpen(Of[q])'
        BY <1>0, <2>1, <2>2, <2>4, <2>5, <2>7, <3>1 DEF OpenBy, WillOpen
      <4>2. Brings(n, q)'
        BY <2>2, <3>1
      <4>3. \A j \in Positions : j > n => ~Sync(j, Of[q])'
        BY <1>0, <2>2 DEF Positions
      <4> QED
        BY <3>1, <4>1, <4>2, <4>3 DEF Settles
    <3>2. CASE p = q /\ f.kind \notin Syncs
      <4>1. qpc[p] # "sync"
        BY <2>1, <3>2
      <4>2. WillOpen(Of[p]) /\ (ver[p] = opened[Of[p]] => Settles(p))
        BY <2>1, <2>7, <4>1 DEF ArriveInv
      <4> QED
        BY <1>0, <2>1, <2>2, <2>4, <3>2, <4>2 DEF Settles, Quiet
    <3>3. CASE p # q
      <4>1. WillOpen(Of[p]) /\ (ver[p] = opened[Of[p]] => Settles(p))
        BY <2>1, <2>7, <3>3 DEF ArriveInv
      <4>2. ASSUME ver[p] = opened[Of[p]], f.kind \in Syncs PROVE Of[p] # Of[q]
        <5>1. qpc[q] = "sync" /\ UnderWay(q) /\ ver[q] # 0
          BY <2>1, <4>2 DEF UnderWay, QueryInv
        <5>2. CASE Of[p] = Of[q]
          <6>1. ver[q] = opened[Of[q]]
            BY <2>7, <5>1, <5>2 DEF TurnInv
          <6> QED
            BY <2>7, <3>3, <4>2, <5>2, <6>1 DEF VersionsGivenOnce
        <5> QED
          BY <5>2
      <4>3. ver[p] = opened[Of[p]] => \A i \in Positions : Sync(i, Of[p])' <=> Sync(i, Of[p])
        BY <1>0, <2>2, <4>2
      <4> QED
        BY <1>0, <2>1, <2>2, <2>4, <4>1, <4>3 DEF Settles, Quiet
    <3> QED
      BY <3>1, <3>2, <3>3
  <2> QED
    BY <2>1, <2>6, <2>7 DEF ArriveInv
<1>5. CASE DidOpen \/ DidChange \/ ReadRequest
  <2>1. PICK kind : Take(kind) /\ UNCHANGED <<opened, ver, qpc, down>>
    BY <1>5, ReadText DEF ReadRequest, brokerVars
  <2>3. ASSUME NEW i \in Positions, NEW d \in Docs \ Shared, Sync(i, d)'
        PROVE  Opening(i, d)' \/ OpenBy(d, i)'
    <3>1. i + 1 \in Positions /\ Sync(i + 1, d)
      BY <2>1, <2>3, Took
    <3>2. Opening(i + 1, d) \/ OpenBy(d, i + 1)
      BY <3>1 DEF ArriveInv
    <3> QED
      BY <1>5, <2>1, <3>2, Took, OpenShifts
  <2>4. ASSUME NEW d \in Docs, WillOpen(d) PROVE WillOpen(d)'
    <3>1. PICK i \in Positions : i = Len(wire)
      BY <2>1, Took
    <3>2. OpenBy(d, i + 1)
      BY <2>4, <3>1 DEF WillOpen, OpenBy, Opening, Positions
    <3>3. OpenBy(d, i)'
      BY <1>5, <3>2, OpenShifts
    <3> QED
      BY <3>3 DEF OpenBy, WillOpen
  <2> QED
    BY <1>0, <1>5, <2>1, <2>3, <2>4, SettlesShifts DEF ArriveInv
<1>6. ASSUME NEW q \in Queries, Begin(q) \/ ContentFails(q) \/ Return(q) \/ Withdraw(q) \/ Fail(q)
      PROVE  ArriveInv'
  <2>1. CASE Assign(q)
    BY <1>3, <2>1
  <2>2. CASE ~Assign(q)
    <3>1. /\ UNCHANGED <<wire, store, opened, ver, down>>
          /\ \A p \in Queries : p # q => qpc'[p] = qpc[p]
          /\ qpc[q] = "sync" => down
      BY <1>6, <2>2, MoveFrame
    <3> QED
      BY <1>2, <3>1
  <2> QED
    BY <2>1, <2>2
<1>7. CASE Crash \/ (\E q \in Queries : HandlerReads(q)) \/ UNCHANGED vars
  <2>1. UNCHANGED <<wire, store, opened, ver, qpc>> /\ (down => down')
    BY <1>7 DEF Crash, HandlerReads, vars, brokerVars, serverVars
  <2> QED
    BY <1>2, <2>1
<1> QED
  BY <1>3, <1>4, <1>5, <1>6, <1>7 DEF Next, QueryStep, ServerStep


\* A handler that runs for a query taking its turn finds the query's own text.
LEMMA HandlerReadsOwn ==
  ASSUME TypeOK, QueryInv, TurnInv, ArriveInv, ~down,
         NEW q \in Queries, Of[q] \notin Shared, qpc[q] = "wait", Quiet(Of[q])
  PROVE  store[Of[q]].text = q
<1>1. UnderWay(q) /\ ver[q] # 0
  BY DEF UnderWay, QueryInv
<1>2. ver[q] = opened[Of[q]]
  BY <1>1 DEF TurnInv
<1>3. Settles(q)
  BY <1>1, <1>2 DEF ArriveInv
<1>4. \A i \in Positions : ~Brings(i, q)
  BY DEF Quiet, Brings, Sync
<1> QED
  BY <1>3, <1>4 DEF Settles

\* The request of a query that takes its turn stays behind the texts of its
\* document, on the wire and in its handler.
LEMMA HandlerStep ==
  TypeOK /\ QueryInv /\ TurnInv /\ ArriveInv /\ HandlerInv /\ [Next]_vars => HandlerInv'
<1> SUFFICES ASSUME TypeOK, QueryInv, TurnInv, ArriveInv, HandlerInv, [Next]_vars
             PROVE  HandlerInv'
  OBVIOUS
<1>0. /\ \A p \in Queries : Of[p] \in Docs
      /\ Len(wire) \in Nat /\ Len(wire) + 1 \in Positions
  BY DocSyncAssumption DEF DocSyncAssumption, TypeOK, Positions
<1>n. PICK n \in Positions : n = Len(wire) + 1
  BY <1>0
<1>1. ASSUME UNCHANGED <<wire, hpc, used>>, down => down',
             \A q \in Queries : qpc'[q] = "wait" => qpc[q] = "wait"
      PROVE  HandlerInv'
  <2>1. /\ \A i \in Positions, d \in Docs : Sync(i, d)' <=> Sync(i, d)
        /\ \A i \in Positions, q \in Queries : Asking(i, q)' <=> Asking(i, q)
    BY <1>1 DEF Sync, Asking
  <2> QED
    BY <1>0, <1>1, <2>1 DEF HandlerInv, Quiet
<1>2. ASSUME NEW q \in Queries,
             Begin(q) \/ ContentFails(q) \/ Assign(q) \/ Return(q) \/ Withdraw(q) \/ Fail(q)
      PROVE  HandlerInv'
  <2>1. /\ UNCHANGED <<wire, down, hpc, used>> /\ qpc'[q] # "wait"
        /\ \A p \in Queries : p # q => qpc'[p] = qpc[p]
    BY <1>2, MoveFrame
  <2> QED
    BY <1>1, <2>1
<1>3. ASSUME NEW q \in Queries, SendSync(q) \/ SendRequest(q) PROVE HandlerInv'
  <2>1. PICK f \in Frames :
           /\ wire' = Append(wire, f) /\ f.query = q
           /\ UNCHANGED <<down, hpc, used>>
           /\ \A p \in Queries : p # q => qpc'[p] = qpc[p]
           /\ \/ qpc[q] = "sync" /\ qpc'[q] = "call" /\ f.kind \in Syncs
              \/ qpc[q] = "call" /\ qpc'[q] = "wait" /\ f.kind = "request" /\ f.kind \notin Syncs
    BY <1>3, SendFrame
  <2>2. /\ \A i \in Positions, d \in Docs :
             Sync(i, d)' <=> Sync(i, d) \/ (i = n /\ f.kind \in Syncs /\ Of[q] = d)
        /\ \A i \in Positions, p \in Queries :
             Asking(i, p)' <=> Asking(i, p) \/ (i = n /\ f.kind = "request" /\ q = p)
    BY <1>n, <2>1, Put
  <2>3. \A i \in Positions, d \in Docs : Sync(i, d) => i < n
    BY <1>0, <1>n DEF Sync
  <2>4. CASE f.kind \in Syncs
    <3>1. qpc[q] = "sync" /\ qpc'[q] = "call" /\ UnderWay(q) /\ f.kind # "request"
      BY <2>1, <2>4 DEF UnderWay, Syncs
    <3>2. \A p \in Queries : Of[p] \notin Shared /\ qpc'[p] = "wait" => qpc[p] = "wait" /\ Of[p] # Of[q]
      BY <2>1, <3>1 DEF TurnInv, UnderWay
    <3>3. \A p \in Queries, i \in Positions : Of[p] # Of[q] => (Sync(i, Of[p])' <=> Sync(i, Of[p]))
      BY <1>0, <2>2
    <3>4. \A p \in Queries, i \in Positions : Asking(i, p)' <=> Asking(i, p)
      BY <2>2, <3>1
    <3> QED
      BY <2>1, <3>2, <3>3, <3>4 DEF HandlerInv, Quiet
  <2>5. CASE f.kind \notin Syncs
    <3>1. qpc[q] = "call"
      BY <2>1, <2>5
    <3>2. hpc[q] = "none" /\ \A i \in Positions : ~Asking(i, q)
      BY <3>1 DEF TypeOK, QueryInv
    <3>3. \A i \in Positions, d \in Docs : Sync(i, d)' <=> Sync(i, d)
      BY <2>2, <2>5
    <3>4. ASSUME NEW p \in Queries, Of[p] \notin Shared, qpc'[p] = "wait", p # q
          PROVE  /\ \A i, j \in Positions : Asking(i, p)' /\ Sync(j, Of[p])' => j < i
                 /\ hpc'[p] # "none" => Quiet(Of[p])'
                 /\ hpc'[p] = "done" /\ ~down' => used'[p] = p
      BY <1>0, <2>1, <2>2, <3>3, <3>4 DEF HandlerInv, Quiet
    <3>5. \A i, j \in Positions : Asking(i, q)' /\ Sync(j, Of[q])' => j < i
      BY <1>0, <2>2, <2>3, <3>2, <3>3
    <3> QED
      BY <2>1, <3>2, <3>4, <3>5 DEF HandlerInv
  <2> QED
    BY <2>4, <2>5
<1>4. CASE DidOpen \/ DidChange \/ ReadRequest
  <2>1. PICK kind : Take(kind) /\ UNCHANGED <<qpc, down, used>> /\ (DidOpen \/ DidChange \/ kind = "request")
    BY <1>4, ReadText DEF ReadRequest, brokerVars
  <2>2. ASSUME NEW q \in Queries, Of[q] \notin Shared, qpc[q] = "wait"
        PROVE  \A i, j \in Positions : Asking(i, q)' /\ Sync(j, Of[q])' => j < i
    <3>1. ASSUME NEW i \in Positions, NEW j \in Positions, Asking(i, q)', Sync(j, Of[q])' PROVE j < i
      <4>1. i + 1 \in Positions /\ j + 1 \in Positions /\ Asking(i + 1, q) /\ Sync(j + 1, Of[q])
        BY <1>0, <2>1, <3>1, Took
      <4>2. j + 1 < i + 1
        BY <2>2, <4>1 DEF HandlerInv
      <4> QED
        BY <3>1, <4>2 DEF Positions
    <3> QED
      BY <3>1
  <2>3. \A q \in Queries : Quiet(Of[q]) => Quiet(Of[q])'
    BY <1>0, <2>1, Took DEF Quiet
  <2>4. CASE UNCHANGED hpc
    BY <2>1, <2>2, <2>3, <2>4 DEF HandlerInv
  <2>5. CASE ReadRequest
    <3>1. PICK p \in Queries : p = Head(wire).query
      BY <2>5, Took, FrameType DEF ReadRequest
    <3>2. /\ Take("request") /\ UNCHANGED <<qpc, down, used>>
          /\ hpc'[p] = "run" /\ \A q \in Queries : q # p => hpc'[q] = hpc[q]
      BY <2>5, <3>1 DEF ReadRequest, TypeOK, brokerVars
    <3>3. 1 \in Positions /\ Asking(1, p)
      BY SMTT(30), <3>1, <3>2, Took DEF Asking, Positions
    <3>4. ASSUME Of[p] \notin Shared, qpc[p] = "wait" PROVE Quiet(Of[p])
      <4>1. \A j \in Positions : ~(j < 1)
        BY DEF Positions
      <4> QED
        BY <3>3, <3>4, <4>1 DEF HandlerInv, Quiet
    <3> QED
      BY <2>2, <2>3, <3>2, <3>4 DEF HandlerInv
  <2>6. UNCHANGED hpc \/ ReadRequest
    BY <1>4, ReadText
  <2> QED
    BY <2>4, <2>5, <2>6
<1>5. ASSUME NEW q \in Queries, HandlerReads(q) PROVE HandlerInv'
  <2>1. /\ UNCHANGED <<wire, down, qpc>> /\ ~down /\ hpc[q] = "run"
        /\ used'[q] = store[Of[q]].text
        /\ \A p \in Queries : p # q => hpc'[p] = hpc[p] /\ used'[p] = used[p]
    BY <1>5 DEF HandlerReads, TypeOK, brokerVars
  <2>2. /\ \A i \in Positions, d \in Docs : Sync(i, d)' <=> Sync(i, d)
        /\ \A i \in Positions, p \in Queries : Asking(i, p)' <=> Asking(i, p)
    BY <2>1 DEF Sync, Asking
  <2>3. ASSUME Of[q] \notin Shared, qpc[q] = "wait" PROVE Quiet(Of[q]) /\ used'[q] = q
    <3>1. Quiet(Of[q])
      BY <2>1, <2>3 DEF HandlerInv
    <3> QED
      BY <2>1, <2>3, <3>1, HandlerReadsOwn
  <2> QED
    BY <1>0, <2>1, <2>2, <2>3 DEF HandlerInv, Quiet
<1>6. CASE Crash \/ UNCHANGED vars
  <2>1. UNCHANGED <<wire, hpc, used, qpc>> /\ (down => down')
    BY <1>6 DEF Crash, vars, brokerVars, serverVars
  <2> QED
    BY <1>1, <2>1
<1> QED
  BY <1>2, <1>3, <1>4, <1>5, <1>6 DEF Next, QueryStep, ServerStep

\* A query returns what its handler used.
LEMMA AnswerStep ==
  TypeOK /\ HandlerInv /\ TurnsAnswerOwnText /\ [Next]_vars => TurnsAnswerOwnText'
<1> SUFFICES ASSUME TypeOK, HandlerInv, TurnsAnswerOwnText, [Next]_vars PROVE TurnsAnswerOwnText'
  OBVIOUS
<1>1. ASSUME NEW q \in Queries, Return(q) PROVE TurnsAnswerOwnText'
  <2>1. /\ answer'[q] = used[q] /\ \A p \in Queries : p # q => answer'[p] = answer[p]
        /\ qpc[q] = "wait" /\ hpc[q] = "done" /\ ~down
    BY <1>1 DEF Return, TypeOK
  <2>2. Of[q] \notin Shared => used[q] = q
    BY <2>1 DEF HandlerInv
  <2> QED
    BY <2>1, <2>2 DEF TurnsAnswerOwnText
<1>2. CASE UNCHANGED answer
  BY <1>2 DEF TurnsAnswerOwnText
<1>3. UNCHANGED answer \/ \E q \in Queries : Return(q)
  BY DEF Next, QueryStep, ServerStep, Begin, ContentFails, Assign, SendSync, SendRequest,
         Withdraw, Fail, DidOpen, DidChange, ReadRequest, HandlerReads, Crash, vars,
         brokerVars, serverVars
<1> QED
  BY <1>1, <1>2, <1>3

\* With nothing on the wire, the store has the text of the latest version.
LEMMA QuietIsCurrent ==
  TypeOK /\ QueryInv /\ VersionsGivenOnce /\ VersionNamesText /\ StoreInv /\ ArriveInv
    => TurnsLeaveServerCurrent
<1> SUFFICES ASSUME TypeOK, QueryInv, VersionsGivenOnce, VersionNamesText, StoreInv, ArriveInv,
                    ~down, wire = <<>>, NEW d \in Docs \ Shared,
                    \A q \in Queries : Of[q] = d => ~UnderWay(q)
             PROVE  store[d].version = opened[d]
  BY DEF TurnsLeaveServerCurrent
<1>1. opened[d] \in Nat /\ store[d] \in [version : Nat, text : Queries \cup {Nothing}]
  BY DEF TypeOK
<1>2. {ver[q] : q \in {p \in Queries : Of[p] = d}} \ {0} = 1 .. opened[d]
  BY DEF VersionsGivenOnce
<1>3. CASE opened[d] = 0
  <2>1. \A q \in Queries : Of[q] = d => ver[q] = 0
    BY <1>2, <1>3
  <2>2. CASE store[d] # Absent
    <3>1. store[d].version = 0
      BY <2>1, <2>2 DEF VersionNamesText
    <3> QED
      BY <2>2, <3>1 DEF StoreInv
  <2>3. CASE store[d] = Absent
    BY <1>3, <2>3 DEF Absent
  <2> QED
    BY <2>2, <2>3
<1>4. CASE opened[d] # 0
  <2>1. opened[d] \in 1 .. opened[d]
    BY <1>1, <1>4
  <2>2. PICK q \in Queries : Of[q] = d /\ ver[q] = opened[d]
    BY <1>2, <2>1
  <2>3. ver[q] # 0 /\ qpc[q] # "sync"
    BY <1>4, <2>2 DEF UnderWay
  <2>4. Settles(q) /\ WillOpen(d)
    BY <2>2, <2>3 DEF ArriveInv
  <2>5. Len(wire) = 0
    OBVIOUS
  <2>6. \A i \in Positions : i \notin 1 .. Len(wire)
    BY <2>5 DEF Positions
  <2>7. store[d].text = q /\ store[d] # Absent
    BY <2>2, <2>4, <2>6 DEF Settles, WillOpen, Brings, Opening
  <2> QED
    BY <2>2, <2>7 DEF VersionNamesText
<1> QED
  BY <1>3, <1>4

-----------------------------------------------------------------------------
(* The theorems.                                                           *)

\* The named parts together are kept by every step.
THEOREM Invariance == Spec => []IInv
<1>1. IInv /\ [Next]_vars => IInv'
  BY TypeStep, QueryInvStep, FrameStep, StoreStep, VersionsStep, TurnStep, ArriveStep,
     HandlerStep, AnswerStep DEF IInv
<1> QED
  BY InitIInv, <1>1, PTL DEF Spec

\* Every variable keeps its type.
THEOREM TypeCorrect == Spec => []TypeOK
<1>1. IInv => TypeOK
  BY DEF IInv
<1> QED
  BY Invariance, <1>1, PTL

\* However the queries of a document overlap, syncDoc gives each a version of its
\* own and skips none.
THEOREM SyncGivesVersionsOnce == Spec => []VersionsGivenOnce
<1>1. IInv => VersionsGivenOnce
  BY DEF IInv
<1> QED
  BY Invariance, <1>1, PTL

\* A version in the server's store is always about the text the broker gave it.
THEOREM StoreHasTheVersionsText == Spec => []VersionNamesText
<1>1. IInv => VersionNamesText
  BY DEF IInv
<1> QED
  BY Invariance, <1>1, PTL

\* Queries that take turns on a document are answered about their own text.
THEOREM TurnsAreAnsweredInOrder == Spec => []TurnsAnswerOwnText
<1>1. IInv => TurnsAnswerOwnText
  BY DEF IInv
<1> QED
  BY Invariance, <1>1, PTL

\* Once what queries in turn have sent is read, the store has their last version.
THEOREM TurnsCatchUp == Spec => []TurnsLeaveServerCurrent
<1>1. IInv => TurnsLeaveServerCurrent
  BY QuietIsCurrent DEF IInv
<1> QED
  BY Invariance, <1>1, PTL
=============================================================================
