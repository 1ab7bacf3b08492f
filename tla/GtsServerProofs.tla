--------------------------- MODULE GtsServerProofs ---------------------------
(* Theorems about GtsServer, for any documents, validators, versions and   *)
(* number of runs that are under way together.                             *)
EXTENDS GtsServer, TLAPS

-----------------------------------------------------------------------------
(* The inductive invariant, in named parts.                                *)

\* The docStates that didOpen has made: all that anybody is about.
Opened(b) == b \in Buffers /\ text[b] # 0

\* Whoever is about a document has one that was opened, and its text a version.
PlaceInv ==
  /\ at[Loop] \in {"read", "schedule", "clear", "syntax", "ext", "write"}
  /\ \A r \in Runs : at[r] \in {"idle", "check", "snapshot", "work", "syntax", "ext", "write"}
  /\ current = None \/ Opened(current)
  /\ \A b \in Buffers : timer[b] => Opened(b)
  /\ \A p \in Actors : at[p] \notin {"read", "idle", "clear"} => Opened(on[p])

\* The client has been told once of a validator that is in s.warned, and of no other.
WarnedInv == \A v \in Validators : announced[v] = IF v \in warned THEN 1 ELSE 0

\* A run has results of the document that is open, and will publish them.
Dirty == \E r \in Runs : at[r] = "work" /\ on[r] = current

Alone(p) == \A q \in Actors : Publishing(q) => q = p

\* What a publication that has been alone from its beginning has read is still so,
\* and what it will not show is left to a run that has results.
AloneInv ==
  \A p \in Actors : Publishing(p) =>
    /\ Alone(p)
    /\ at[p] = "clear" => current = None
    /\ at[p] # "clear" => on[p] = current
    /\ at[p] \in {"ext", "write"} => took[p] = text[current]
    /\ at[p] = "write" => found[p] = ext[current] \/ Dirty

Quiet == ~Dirty /\ \A p \in Actors : ~Publishing(p)

Right ==
  shown = IF current = None THEN Cleared
          ELSE [buffer |-> current, version |-> text[current], found |-> ext[current]]

\* A validator that was given the newest text alone owes the answer to one run, or has
\* given it: what is on record is then of that text.  A document not yet opened has
\* nothing on record.
GivenInv ==
  /\ \A b \in Buffers : text[b] = 0 => ext[b] = Nobody
  /\ current # None => \A v \in Validators \ tangled :
       \/ \E r \in Runs : /\ Asks(r, current, v) /\ snap[r] = due[v]
                          /\ \A q \in Runs : Asks(q, current, v) => q = r
       \/ /\ \A q \in Runs : ~Asks(q, current, v)
          /\ ext[current][v] = due[v]

IInv ==
  /\ TypeOK /\ PlaceInv /\ WarnedInv /\ GivenInv
  /\ ~overlap /\ ~gone => AloneInv /\ (Quiet => Right)

-----------------------------------------------------------------------------
(* The initial states.                                                     *)

\* The invariant holds before the first document is opened.
LEMMA InitIInv == Init => IInv
<1> SUFFICES ASSUME Init PROVE IInv
  OBVIOUS
<1> USE GtsAssumption DEF GtsAssumption, Init, Actors
<1>1. Nobody \in Results /\ Cleared \in [buffer : Buffers \cup {None}, version : 0 .. MaxVersion, found : Results]
  BY DEF Results, Nobody, Cleared
<1>2. TypeOK
  <2>1. MaxVersion \in Nat /\ 0 \in 0 .. MaxVersion /\ 0 \in 0 .. MaxSaves
    OBVIOUS
  <2> QED
    BY <1>1, <2>1 DEF TypeOK, GivenOK
<1>3. PlaceInv /\ WarnedInv
  BY DEF PlaceInv, WarnedInv
<1>4. AloneInv /\ Right
  BY DEF AloneInv, Publishing, Right
<1>5. GivenInv
  BY DEF GivenInv
<1> QED
  BY <1>2, <1>3, <1>4, <1>5 DEF IInv

-----------------------------------------------------------------------------
(* Every step keeps the types, and documents that were opened.             *)

\* The places of the loop and of the runs are told apart.
LEMMA Parties ==
  /\ Loop \in Actors /\ Loop \notin Runs /\ Actors = Runs \cup {Loop}
  /\ None \notin Buffers /\ Buffers \subseteq Nat
BY GtsAssumption DEF GtsAssumption, Actors

\* A version of a document is one that the validators know.
LEMMA OpenedVersion ==
  ASSUME TypeOK, NEW b, Opened(b)
  PROVE  text[b] \in Versions /\ Applies[text[b]] \subseteq Validators /\ b \in Buffers /\ b # None
BY GtsAssumption DEF GtsAssumption, TypeOK, Opened, Versions

\* One result replaced leaves results.
LEMMA UpdatedResults ==
  ASSUME NEW f \in Results, NEW v \in Validators, NEW n \in 0 .. MaxVersion
  PROVE  [f EXCEPT ![v] = n] \in Results
BY DEF Results

\* What is noted of the validators is of a text and of validators.
LEMMA GivenTypes ==
  ASSUME TypeOK, PlaceInv, [Next]_vars
  PROVE  GivenOK'
<1> USE Parties DEF GivenOK, Results
<1>0. GivenOK /\ Nobody \in Results
  BY GtsAssumption DEF GtsAssumption, TypeOK, Nobody
<1>1. CASE UNCHANGED given
  BY <1>0, <1>1 DEF given
<1>2. CASE Forget
  BY <1>0, <1>2 DEF Forget
<1>3. ASSUME NEW r \in Runs, Snapshot(r) PROVE GivenOK'
  <2>1. Opened(on[r]) /\ Give(on[r], Applies[text[on[r]]], text[on[r]])
    BY <1>3 DEF Snapshot, PlaceInv
  <2>2. text[on[r]] \in 0 .. MaxVersion /\ Applies[text[on[r]]] \subseteq Validators
    BY <2>1, OpenedVersion DEF TypeOK
  <2> QED
    BY <1>0, <2>1, <2>2 DEF Give, given
<1>4. ASSUME NEW r \in Runs, NEW v \in Validators, Missing(r, v) PROVE GivenOK'
  <2>1. 0 \in 0 .. MaxVersion
    BY GtsAssumption DEF GtsAssumption
  <2>2. [due EXCEPT ![v] = 0] \in Results
    BY <1>0, <2>1, UpdatedResults
  <2> QED
    BY <1>0, <1>4, <2>2 DEF Missing, Miss
<1> QED
  BY <1>1, <1>2, <1>3, <1>4 DEF Next, Hook, Run, Publish, Work, ReadSyntax, ReadExt, Write, Clear, Schedule,
     Fire, Check, Finish, Validated, DidOpen, DidChange, DidSave, DidClose, End, vars, history

\* The types, after the steps of a publication.
LEMMA PublishTypes ==
  ASSUME TypeOK, PlaceInv, NEW p \in Actors, Publish(p) \/ Clear \/ Schedule,
         GivenOK'
  PROVE  TypeOK' /\ PlaceInv'
<1> USE Parties DEF TypeOK, PlaceInv, Opened, Results, Goto, Leave,
        bufferVars, runVars, pubVars, given, history
<1>0. Nobody \in Results /\ Cleared \in [buffer : Buffers \cup {None}, version : 0 .. MaxVersion, found : Results]
  BY GtsAssumption DEF GtsAssumption, Nobody, Cleared
<1>1. CASE ReadSyntax(p)
  BY <1>1 DEF ReadSyntax
<1>2. CASE ReadExt(p)
  BY <1>2 DEF ReadExt
<1>3. CASE Write(p)
  <2>1. /\ took' \in [Actors -> 0 .. MaxVersion] /\ found' \in [Actors -> Results]
        /\ shown' \in [buffer : Buffers \cup {None}, version : 0 .. MaxVersion, found : Results]
    BY <1>0, <1>3, GtsAssumption DEF GtsAssumption, Write
  <2>2. /\ UNCHANGED <<current, bufferVars, warned, gone, opening, runVars, history>>
        /\ \/ at' = [at EXCEPT ![p] = "schedule"] /\ p = Loop /\ UNCHANGED on
           \/ /\ at' = [at EXCEPT ![p] = IF p = Loop THEN "read" ELSE "idle"]
              /\ on' = [on EXCEPT ![p] = None]
    BY <1>3 DEF Write
  <2>3. at[p] = "write"
    BY <1>3 DEF Write
  <2>4. PlaceInv'
    BY ZenonT(60), <2>2, <2>3
  <2>5. on' \in [Actors -> Buffers \cup {None}]
    BY <2>2
  <2>6. at' \in [Actors -> {"read", "schedule", "clear", "idle", "check", "snapshot", "work",
                            "syntax", "ext", "write"}]
    BY <2>2
  <2>7. \A q \in Actors :
          at'[q] \in {"schedule", "check", "work", "syntax", "ext", "write"} => on'[q] # None
    BY <2>4
  <2> QED
    BY <2>1, <2>2, <2>4, <2>5, <2>6, <2>7
<1>4. CASE Clear
  BY <1>0, <1>4 DEF Clear
<1>5. CASE Schedule
  BY <1>5 DEF Schedule
<1> QED
  BY <1>1, <1>2, <1>3, <1>4, <1>5 DEF Publish

\* The types, after the hooks.
LEMMA HookTypes ==
  ASSUME TypeOK, PlaceInv, Hook \/ End,
         GivenOK'
  PROVE  TypeOK' /\ PlaceInv'
<1> USE Parties, GtsAssumption DEF GtsAssumption, TypeOK, PlaceInv, Opened, Goto, Enter, Replace, Idle,
        bufferVars, runVars, pubVars, given, history
<1>1. ASSUME NEW b \in Buffers, DidOpen(b) PROVE TypeOK' /\ PlaceInv'
  BY <1>1 DEF DidOpen
<1>2. CASE DidChange
  BY <1>2 DEF DidChange
<1>3. CASE DidSave
  BY <1>3 DEF DidSave
<1>4. CASE DidClose
  BY <1>4 DEF DidClose
<1>5. CASE End
  BY <1>5 DEF End
<1> QED
  BY <1>1, <1>2, <1>3, <1>4, <1>5 DEF Hook

\* The types, after the steps of a validator run.
LEMMA RunTypes ==
  ASSUME TypeOK, PlaceInv, (\E b \in Buffers : Fire(b)) \/ \E r \in Runs : Work(r),
         GivenOK'
  PROVE  TypeOK' /\ PlaceInv'
<1> USE Parties DEF TypeOK, PlaceInv, Opened, Goto, Leave, Enter,
        bufferVars, runVars, pubVars, given, history
<1>1. ASSUME NEW b \in Buffers, Fire(b) PROVE TypeOK' /\ PlaceInv'
  <2>1. PICK r \in Runs : /\ at[r] = "idle" /\ on' = [on EXCEPT ![r] = b]
                          /\ at' = [at EXCEPT ![r] = "check"]
    BY <1>1 DEF Fire
  <2>2. TypeOK'
    BY <1>1, <2>1 DEF Fire
  <2>3. Opened(b)
    BY <1>1 DEF Fire
  <2>4. PlaceInv'
    BY <1>1, <2>1, <2>3 DEF Fire
  <2> QED
    BY <2>2, <2>4
<1>2. ASSUME NEW r \in Runs, Check(r) PROVE TypeOK' /\ PlaceInv'
  BY <1>2 DEF Check
<1>3. ASSUME NEW r \in Runs, Snapshot(r) PROVE TypeOK' /\ PlaceInv'
  <2>1. Opened(on[r])
    BY <1>3 DEF Snapshot
  <2>2. Applies[text[on[r]]] \subseteq Validators
    BY <2>1, OpenedVersion DEF Snapshot
  <2> QED
    BY <1>3, <2>1, <2>2 DEF Snapshot
<1>4. ASSUME NEW r \in Runs, Finish(r) PROVE TypeOK' /\ PlaceInv'
  <2>1. /\ at[r] = "work" /\ snap' = [snap EXCEPT ![r] = 0] /\ 0 \in 0 .. MaxVersion
        /\ UNCHANGED <<current, text, ext, timer, warned, gone, opening, todo, took, found, shown,
                       announced, saves>>
    BY <1>4, GtsAssumption DEF Finish, GtsAssumption
  <2>2. overlap' \in BOOLEAN
    BY <1>4 DEF Finish
  <2>3. CASE at' = [at EXCEPT ![r] = "syntax"] /\ UNCHANGED on
    BY <2>1, <2>2, <2>3
  <2>4. CASE at' = [at EXCEPT ![r] = "idle"] /\ on' = [on EXCEPT ![r] = None]
    BY <2>1, <2>2, <2>4
  <2> QED
    BY <1>4, <2>3, <2>4 DEF Finish
<1>5. ASSUME NEW r \in Runs, NEW v \in Validators, Missing(r, v) \/ Validated(r, v)
      PROVE  TypeOK' /\ PlaceInv'
  <2>1. /\ ext' = [ext EXCEPT ![on[r]] = [ext[on[r]] EXCEPT ![v] = 0]]
          \/ ext' = [ext EXCEPT ![on[r]] = [ext[on[r]] EXCEPT ![v] = snap[r]]]
        /\ todo' = [todo EXCEPT ![r] = @ \ {v}]
    BY <1>5 DEF Missing, Validated
  <2>2. ext' \in [Buffers -> Results]
    <3>1. at[r] = "work"
      BY <1>5 DEF Missing, Validated
    <3>2. on[r] \in Buffers
      BY <3>1
    <3>3. snap[r] \in 0 .. MaxVersion /\ 0 \in 0 .. MaxVersion
      BY GtsAssumption DEF GtsAssumption
    <3>4. /\ [ext[on[r]] EXCEPT ![v] = 0] \in Results
          /\ [ext[on[r]] EXCEPT ![v] = snap[r]] \in Results
      BY <3>2, <3>3, UpdatedResults
    <3> QED
      BY <2>1, <3>2, <3>4
  <2>3. todo' \in [Runs -> SUBSET Validators]
    BY <2>1
  <2>4. warned' \subseteq Validators /\ announced' \in [Validators -> Nat]
    BY <1>5 DEF Missing, Validated
  <2>5. UNCHANGED <<current, text, timer, gone, at, on, opening, snap, pubVars, shown, overlap, saves>>
    BY <1>5 DEF Missing, Validated
  <2> QED
    BY <2>2, <2>3, <2>4, <2>5
<1> QED
  BY <1>1, <1>2, <1>3, <1>4, <1>5 DEF Work

-----------------------------------------------------------------------------
(* Every step keeps what the client was told.                              *)

\* A run marks a missing tool as announced in the step that announces it.
LEMMA WarnedStep ==
  ASSUME TypeOK, WarnedInv, [Next]_vars
  PROVE  WarnedInv'
<1>1. ASSUME NEW r \in Runs, NEW v \in Validators, Missing(r, v) PROVE WarnedInv'
  BY <1>1 DEF Missing, TypeOK, WarnedInv
<1>2. CASE UNCHANGED <<announced, warned>>
  BY <1>2 DEF WarnedInv
<1> QED
  BY <1>1, <1>2 DEF Next, Hook, Run, Publish, Work, ReadSyntax, ReadExt, Write, Clear, Schedule,
     Fire, Check, Snapshot, Finish, Validated, DidOpen, DidChange, DidSave, DidClose, End,
     vars, given, history, Leave

-----------------------------------------------------------------------------
(* Every step keeps what is known of the answers.                          *)

\* Nobody asks about a document that has not been opened.
LEMMA AsksOpened ==
  ASSUME PlaceInv, NEW r \in Runs, NEW b, NEW v, Asks(r, b, v)
  PROVE  text[b] # 0
BY Parties DEF PlaceInv, Opened, Asks

\* A step that asks nobody and answers nothing.
AskedAlike ==
  /\ current' = current /\ ext' = ext /\ snap' = snap /\ todo' = todo
  /\ due' = due /\ tangled' = tangled
  /\ \A b \in Buffers : text'[b] = 0 => text[b] = 0
  /\ \A r \in Runs : (at'[r] = at[r] /\ on'[r] = on[r]) \/ (at[r] # "work" /\ at'[r] # "work")

\* Such a step keeps the answers.
LEMMA KeepsGiven ==
  ASSUME GivenInv, AskedAlike
  PROVE  GivenInv'
<1>1. \A r \in Runs : \A v : Asks(r, current, v)' <=> Asks(r, current, v)
  BY DEF Asks, AskedAlike
<1> QED
  BY <1>1 DEF GivenInv, AskedAlike

\* Every step keeps what is known of the answers.
LEMMA GivenStep ==
  ASSUME TypeOK, PlaceInv, GivenInv, [Next]_vars
  PROVE  GivenInv'
<1> USE Parties DEF Goto, Leave, Enter, bufferVars, runVars, pubVars, given, history
<1>1. ASSUME NEW b \in Buffers, DidOpen(b) PROVE GivenInv'
  <2>1. /\ text[b] = 0 /\ current' = b /\ b # None /\ due' = Nobody /\ tangled' = {}
        /\ text' = [text EXCEPT ![b] = text[b] + 1] /\ ext' = ext
        /\ at' = [at EXCEPT ![Loop] = "syntax"] /\ on' = [on EXCEPT ![Loop] = b] /\ todo' = todo
    BY <1>1 DEF DidOpen, Replace, Forget
  <2>2. \A q \in Runs, v \in Validators : ~Asks(q, b, v)'
    BY <2>1, AsksOpened DEF Asks, TypeOK
  <2>3. ext'[b] = Nobody
    BY <2>1 DEF GivenInv
  <2>4. \A c \in Buffers : text'[c] = 0 => ext'[c] = Nobody
    BY <2>1 DEF GivenInv, TypeOK
  <2> QED
    BY <2>1, <2>2, <2>3, <2>4 DEF GivenInv
<1>2. CASE DidClose
  BY <1>2 DEF DidClose, GivenInv
<1>3. ASSUME NEW r \in Runs, Snapshot(r) PROVE GivenInv'
  <2>0. PICK b \in Buffers : b = on[r]
    BY <1>3 DEF Snapshot, PlaceInv, Opened
  <2>a. PICK A : A = Applies[text[b]]
    OBVIOUS
  <2>1. /\ at[r] = "snapshot" /\ b \in Buffers /\ b # None
        /\ at' = [at EXCEPT ![r] = "work"] /\ todo' = [todo EXCEPT ![r] = A]
        /\ snap' = [snap EXCEPT ![r] = text[b]] /\ Give(b, A, text[b])
        /\ UNCHANGED <<current, text, ext, on>>
    BY <1>3, <2>0, <2>a DEF Snapshot, PlaceInv, Opened
  <2>2. \A q \in Runs \ {r} : \A c, v : Asks(q, c, v)' <=> Asks(q, c, v)
    BY <2>1 DEF Asks, TypeOK
  <2>3. \A c, v : ~Asks(r, c, v)
    BY <2>1 DEF Asks
  <2>4. \A c, v : Asks(r, c, v)' <=> c = b /\ v \in A
    BY <2>0, <2>1 DEF Asks, TypeOK
  <2>5. \A q \in Runs \ {r} : snap'[q] = snap[q]
    BY <2>1 DEF TypeOK
  <2>6. snap'[r] = text[b]
    BY <2>1 DEF TypeOK
  <2>7. \A c \in Buffers : text'[c] = 0 => ext'[c] = Nobody
    BY <2>1 DEF GivenInv
  <2>8. ASSUME current # None, NEW v \in Validators, v \notin tangled'
        PROVE  \/ \E q \in Runs : /\ Asks(q, current, v)' /\ snap'[q] = due'[v]
                                 /\ \A p \in Runs : Asks(p, current, v)' => p = q
               \/ /\ \A q \in Runs : ~Asks(q, current, v)'
                  /\ ext'[current][v] = due'[v]
    <3>1. CASE b = current /\ v \in A
      <4>1. due'[v] = text[b] /\ \A q \in Runs : ~Asks(q, b, v)
        BY <2>1, <2>8, <3>1 DEF Give
      <4> QED
        BY <2>1, <2>2, <2>4, <2>6, <3>1, <4>1
    <3>2. CASE ~(b = current /\ v \in A)
      <4>1. due'[v] = due[v] /\ v \notin tangled
        BY <2>1, <2>8, <3>2 DEF Give, TypeOK, Results
      <4>2. \A q \in Runs : Asks(q, current, v)' <=> Asks(q, current, v)
        BY <2>1, <2>2, <2>3, <2>4, <3>2
      <4> QED
        BY <2>1, <2>3, <2>5, <2>8, <4>1, <4>2 DEF GivenInv
    <3> QED
      BY <3>1, <3>2
  <2> QED
    BY <2>1, <2>7, <2>8 DEF GivenInv
<1>4. ASSUME NEW r \in Runs, NEW w \in Validators, Missing(r, w) \/ Validated(r, w) PROVE GivenInv'
  <2>0. PICK b \in Buffers : b = on[r]
    BY <1>4 DEF Missing, Validated, PlaceInv, Opened
  <2>1. PICK n \in 0 .. MaxVersion :
          /\ ext' = [ext EXCEPT ![b] = [ext[b] EXCEPT ![w] = n]]
          /\ \/ n = snap[r] /\ due' = due
             \/ n = 0 /\ Miss(b, w)
    BY <1>4, <2>0, GtsAssumption DEF Missing, Validated, TypeOK, GtsAssumption
  <2>2. /\ at[r] = "work" /\ w \in todo[r] /\ b \in Buffers /\ text[b] # 0
        /\ todo' = [todo EXCEPT ![r] = todo[r] \ {w}]
        /\ UNCHANGED <<current, text, snap, at, on, tangled>>
    BY <1>4, <2>0 DEF Missing, Validated, PlaceInv, Opened
  <2>3. Asks(r, b, w)
    BY <2>0, <2>2 DEF Asks
  <2>4. \A q \in Runs : \A c, v : Asks(q, c, v)' <=> Asks(q, c, v) /\ ~(q = r /\ v = w)
    BY <2>2 DEF Asks, TypeOK
  <2>5. ext'[b][w] = n /\ \A c \in Buffers, v \in Validators : c # b \/ v # w => ext'[c][v] = ext[c][v]
    BY <2>1, <2>2 DEF TypeOK, Results
  <2>6. \A c \in Buffers : text'[c] = 0 => ext'[c] = Nobody
    BY <2>1, <2>2 DEF GivenInv, TypeOK
  <2>7. ASSUME current # None, NEW v \in Validators \ tangled
        PROVE  \/ \E q \in Runs : /\ Asks(q, current, v)' /\ snap'[q] = due'[v]
                                 /\ \A p \in Runs : Asks(p, current, v)' => p = q
               \/ /\ \A q \in Runs : ~Asks(q, current, v)'
                  /\ ext'[current][v] = due'[v]
    <3>0. current \in Buffers
      BY <2>7 DEF TypeOK
    <3>1. CASE current = b /\ v = w
      <4>1. snap[r] = due[w] /\ \A q \in Runs : Asks(q, b, w) => q = r
        BY <2>3, <2>7, <3>1 DEF GivenInv
      <4>2. ext'[b][w] = due'[w]
        BY <2>1, <2>5, <3>1, <4>1 DEF Miss, TypeOK, GivenOK, Results
      <4>3. \A q \in Runs : ~Asks(q, b, w)'
        BY <2>4, <4>1
      <4> QED
        BY <2>2, <3>1, <4>2, <4>3
    <3>2. CASE current # b \/ v # w
      <4>1. due'[v] = due[v]
        BY <2>1, <3>2 DEF Miss, TypeOK, GivenOK, Results
      <4>2. \A q \in Runs : Asks(q, current, v)' <=> Asks(q, current, v)
        <5>1. \A c : Asks(r, c, w) => c = b
          BY <2>0 DEF Asks
        <5> QED
          BY <2>2, <2>4, <3>2, <5>1
      <4>3. ext'[current][v] = ext[current][v] /\ snap' = snap
        BY <2>2, <2>5, <3>0, <3>2
      <4> QED
        BY <2>7, <4>1, <4>2, <4>3 DEF GivenInv
    <3> QED
      BY <3>1, <3>2
  <2> QED
    BY <2>2, <2>6, <2>7 DEF GivenInv
<1>5. ASSUME NEW r \in Runs, Finish(r) PROVE GivenInv'
  <2>1. /\ at[r] = "work" /\ todo[r] = {} /\ snap' = [snap EXCEPT ![r] = 0]
        /\ UNCHANGED <<current, text, ext, todo, due, tangled>>
        /\ at'[r] # "work" /\ \A q \in Runs \ {r} : at'[q] = at[q] /\ on'[q] = on[q]
    BY <1>5 DEF Finish, TypeOK
  <2>2. \A q \in Runs : \A c, v : Asks(q, c, v)' <=> Asks(q, c, v)
    BY <2>1 DEF Asks
  <2>3. \A q \in Runs : \A c, v : Asks(q, c, v) => snap'[q] = snap[q]
    BY <2>1 DEF Asks, TypeOK
  <2> QED
    BY <2>1, <2>2, <2>3 DEF GivenInv
<1>6. AskedAlike => GivenInv'
  BY KeepsGiven
<1>7. CASE DidChange
  <2>1. \A b \in Buffers : text'[b] = 0 => text[b] = 0
    BY <1>7 DEF DidChange, Replace, TypeOK, PlaceInv, Opened
  <2> QED
    BY <1>6, <1>7, <2>1 DEF AskedAlike, DidChange, TypeOK
<1>8. CASE DidSave \/ End \/ Clear \/ Schedule
  BY <1>6, <1>8 DEF AskedAlike, DidSave, End, Clear, Schedule, TypeOK
<1>9. ASSUME NEW p \in Actors, Publish(p) PROVE GivenInv'
  <2>1. at[p] # "work" /\ at'[p] # "work" /\ \A q \in Actors \ {p} : at'[q] = at[q] /\ on'[q] = on[q]
    BY <1>9 DEF Publish, ReadSyntax, ReadExt, Write, TypeOK
  <2>2. UNCHANGED <<current, text, ext, snap, todo, due, tangled>>
    BY <1>9 DEF Publish, ReadSyntax, ReadExt, Write
  <2> QED
    BY <1>6, <2>1, <2>2 DEF AskedAlike
<1>10. ASSUME NEW b \in Buffers, Fire(b) PROVE GivenInv'
  <2>1. PICK r \in Runs : at[r] = "idle" /\ on' = [on EXCEPT ![r] = b] /\ at' = [at EXCEPT ![r] = "check"]
    BY <1>10 DEF Fire
  <2>2. at[r] # "work" /\ at'[r] # "work" /\ \A q \in Runs \ {r} : at'[q] = at[q] /\ on'[q] = on[q]
    BY <2>1 DEF TypeOK
  <2>3. UNCHANGED <<current, text, ext, snap, todo, due, tangled>>
    BY <1>10 DEF Fire
  <2> QED
    BY <1>6, <2>2, <2>3 DEF AskedAlike
<1>11. ASSUME NEW r \in Runs, Check(r) PROVE GivenInv'
  <2>1. at[r] # "work" /\ at'[r] # "work" /\ \A q \in Runs \ {r} : at'[q] = at[q] /\ on'[q] = on[q]
    BY <1>11 DEF Check, TypeOK
  <2>2. UNCHANGED <<current, text, ext, snap, todo, due, tangled>>
    BY <1>11 DEF Check
  <2> QED
    BY <1>6, <2>1, <2>2 DEF AskedAlike
<1>12. CASE UNCHANGED vars
  BY <1>6, <1>12 DEF vars, AskedAlike
<1> QED
  BY <1>1, <1>2, <1>3, <1>4, <1>5, <1>7, <1>8, <1>9, <1>10, <1>11, <1>12
     DEF Next, Hook, Run, Work

-----------------------------------------------------------------------------
(* Every step keeps what the client shows, unless publications overlap.    *)

AloneOrRight == ~overlap /\ ~gone => AloneInv /\ (Quiet => Right)

\* A publication that begins alone knows what it is about.
LEMMA BeginsAlone ==
  ASSUME TypeOK, NEW p \in Actors, NEW what \in {"syntax", "clear"}, Enter(p, what),
         IF what = "clear" THEN current' = None ELSE on'[p] = current'
  PROVE  AloneOrRight'
<1> SUFFICES ASSUME ~overlap' PROVE AloneInv' /\ ~Quiet'
  BY DEF AloneOrRight
<1>1. /\ at' = [at EXCEPT ![p] = what] /\ at'[p] = what
      /\ \A q \in Actors \ {p} : at[q] = at'[q] /\ ~Publishing(q)
  BY DEF Enter, Goto, TypeOK
<1>2. \A q \in Actors : Publishing(q)' <=> q = p
  BY <1>1 DEF Publishing
<1> QED
  BY <1>1, <1>2 DEF AloneInv, Alone, Quiet

\* A step that publishes nothing and changes nothing of the open document keeps what
\* every publication knows.
LEMMA KeepsAlone ==
  ASSUME AloneOrRight, UNCHANGED <<current, gone, took, found, shown, overlap>>,
         Dirty => Dirty',
         current # None => text'[current] = text[current] /\ (ext'[current] = ext[current] \/ Dirty'),
         \A p \in Actors : Publishing(p)' <=> Publishing(p),
         \A p \in Actors : Publishing(p) => at'[p] = at[p] /\ on'[p] = on[p],
         \A p \in Actors : Publishing(p) /\ at[p] # "clear" => on[p] # None
  PROVE  AloneOrRight'
<1> SUFFICES ASSUME ~overlap, ~gone, AloneInv, Quiet => Right
             PROVE  AloneInv' /\ (Quiet' => Right')
  BY DEF AloneOrRight
<1>1. AloneInv'
  <2> SUFFICES ASSUME NEW p \in Actors, Publishing(p)
               PROVE  /\ Alone(p)'
                      /\ at[p] = "clear" => current = None
                      /\ at[p] # "clear" => on[p] = current
                      /\ at[p] \in {"ext", "write"} => took[p] = text'[current]
                      /\ at[p] = "write" => found[p] = ext'[current] \/ Dirty'
    BY DEF AloneInv
  <2>1. Alone(p)'
    BY DEF AloneInv, Alone
  <2>2. at[p] # "clear" => on[p] = current /\ current # None
    BY DEF AloneInv
  <2> QED
    BY <2>1, <2>2 DEF AloneInv
<1>2. Quiet' => Right'
  BY DEF Quiet, Right
<1> QED
  BY <1>1, <1>2

\* After a hook still: without overlap, one publication runs alone or the client is right.
LEMMA HookAlone ==
  ASSUME IInv, Hook
  PROVE  AloneOrRight'
<1> USE Parties DEF IInv, TypeOK, PlaceInv
<1>1. ASSUME NEW b \in Buffers, DidOpen(b) PROVE AloneOrRight'
  BY <1>1, BeginsAlone DEF DidOpen
<1>2. CASE DidChange
  BY <1>2, BeginsAlone DEF DidChange
<1>3. CASE DidSave
  <2>1. /\ at' = [at EXCEPT ![Loop] = "schedule"] /\ on' = [on EXCEPT ![Loop] = current]
        /\ at[Loop] = "read"
        /\ UNCHANGED <<current, text, ext, gone, took, found, shown, overlap>>
    BY <1>3 DEF DidSave, Goto, Idle, bufferVars, pubVars
  <2>2. \A p \in Actors \ {Loop} : at'[p] = at[p] /\ on'[p] = on[p]
    BY <2>1
  <2>3. \A p \in Actors : (Publishing(p)' <=> Publishing(p)) /\ (Publishing(p) => p # Loop)
    BY <2>1, <2>2 DEF Publishing
  <2>4. Dirty => Dirty'
    BY <2>1, <2>2 DEF Dirty
  <2>5. \A p \in Actors : Publishing(p) /\ at[p] # "clear" => on[p] # None
    BY DEF Publishing
  <2> QED
    BY <2>1, <2>2, <2>3, <2>4, <2>5, KeepsAlone DEF AloneOrRight
<1>4. CASE DidClose
  BY <1>4, BeginsAlone DEF DidClose
<1> QED
  BY <1>1, <1>2, <1>3, <1>4 DEF Hook

\* So do the three steps of a publication.
LEMMA PublishAlone ==
  ASSUME IInv, NEW p \in Actors, Publish(p)
  PROVE  AloneOrRight'
<1> SUFFICES ASSUME ~overlap, ~gone, AloneInv PROVE AloneInv' /\ (Quiet' => Right')
  BY DEF AloneOrRight, IInv, Publish, ReadSyntax, ReadExt, Write, history
<1>0. Publishing(p) /\ \A q \in Actors \ {p} : ~Publishing(q)
  BY DEF AloneInv, Alone, Publishing, Publish, ReadSyntax, ReadExt, Write
<1>1. on[p] = current /\ current \in Buffers /\ current # None
  BY <1>0, Parties DEF IInv, PlaceInv, Opened, AloneInv, Publish, ReadSyntax, ReadExt, Write
<1>2. CASE ReadSyntax(p)
  <2>1. /\ at[p] = "syntax" /\ at' = [at EXCEPT ![p] = "ext"] /\ took' = [took EXCEPT ![p] = text[current]]
        /\ UNCHANGED <<current, text, on>>
    BY <1>1, <1>2 DEF ReadSyntax, Goto, bufferVars
  <2>2. at'[p] = "ext" /\ took'[p] = text[current] /\ \A q \in Actors \ {p} : at'[q] = at[q]
    BY <2>1 DEF IInv, TypeOK
  <2>3. \A q \in Actors : Publishing(q)' <=> q = p
    BY <1>0, <2>2 DEF Publishing
  <2> QED
    BY <1>1, <2>1, <2>2, <2>3 DEF AloneInv, Alone, Quiet
<1>3. CASE ReadExt(p)
  <2>1. /\ at[p] = "ext" /\ at' = [at EXCEPT ![p] = "write"] /\ found' = [found EXCEPT ![p] = ext[current]]
        /\ UNCHANGED <<current, text, ext, on, took>>
    BY <1>1, <1>3 DEF ReadExt, Goto, bufferVars
  <2>2. at'[p] = "write" /\ found'[p] = ext[current] /\ \A q \in Actors \ {p} : at'[q] = at[q]
    BY <2>1 DEF IInv, TypeOK
  <2>3. \A q \in Actors : Publishing(q)' <=> q = p
    BY <1>0, <2>2 DEF Publishing
  <2>4. took[p] = text[current]
    BY <1>0, <2>1 DEF AloneInv
  <2> QED
    BY <1>1, <2>1, <2>2, <2>3, <2>4 DEF AloneInv, Alone, Quiet
<1>4. CASE Write(p)
  <2>1. /\ at[p] = "write"
        /\ shown' = [buffer |-> current, version |-> took[p], found |-> found[p]]
        /\ UNCHANGED <<current, text, ext>>
    BY <1>1, <1>4 DEF Write, bufferVars
  <2>2. took[p] = text[current] /\ (found[p] = ext[current] \/ Dirty)
    BY <1>0, <2>1 DEF AloneInv
  <2>3. /\ at'[p] \in {"schedule", "read", "idle"}
        /\ \A q \in Actors \ {p} : at'[q] = at[q] /\ on'[q] = on[q]
    BY <1>4 DEF Write, Goto, Leave, IInv, TypeOK
  <2>4. \A q \in Actors : ~Publishing(q)'
    BY <1>0, <2>3 DEF Publishing
  <2>5. Dirty => Dirty'
    BY <2>1, <2>3 DEF Dirty, Actors
  <2> QED
    BY <1>1, <2>1, <2>2, <2>4, <2>5 DEF AloneInv, Quiet, Right
<1> QED
  BY <1>2, <1>3, <1>4 DEF Publish

\* So do the steps of the read loop.
LEMMA LoopAlone ==
  ASSUME IInv, Clear \/ Schedule
  PROVE  AloneOrRight'
<1>1. CASE Clear
  <2> SUFFICES ASSUME ~overlap, ~gone, AloneInv PROVE AloneInv' /\ (Quiet' => Right')
    BY <1>1 DEF AloneOrRight, IInv, Clear, history
  <2>1. /\ at[Loop] = "clear" /\ at' = [at EXCEPT ![Loop] = "read"] /\ shown' = Cleared /\ current' = current
    BY <1>1 DEF Clear, Goto
  <2>2. current = None /\ \A q \in Actors \ {Loop} : ~Publishing(q)
    BY <2>1, Parties DEF AloneInv, Alone, Publishing
  <2>3. \A q \in Actors : ~Publishing(q)'
    BY <2>1, <2>2, Parties DEF Publishing, IInv, TypeOK
  <2> QED
    BY <2>1, <2>2, <2>3 DEF AloneInv, Right
<1>2. CASE Schedule
  <2>1. /\ at[Loop] = "schedule" /\ at' = [at EXCEPT ![Loop] = "read"] /\ on' = [on EXCEPT ![Loop] = None]
        /\ UNCHANGED <<current, text, ext, gone, took, found, shown, overlap>>
    BY <1>2 DEF Schedule, Leave, Goto, pubVars, history
  <2>2. \A q \in Actors \ {Loop} : at'[q] = at[q] /\ on'[q] = on[q]
    BY <2>1 DEF IInv, TypeOK
  <2>3. \A p \in Actors : (Publishing(p)' <=> Publishing(p)) /\ (Publishing(p) => p # Loop)
    BY <2>1, <2>2, Parties DEF Publishing, IInv, TypeOK
  <2>4. Dirty => Dirty'
    BY <2>1, <2>2, Parties DEF Dirty
  <2>5. \A p \in Actors : Publishing(p) /\ at[p] # "clear" => on[p] # None
    BY DEF IInv, TypeOK, Publishing
  <2> QED
    BY <2>1, <2>2, <2>3, <2>4, <2>5, KeepsAlone DEF IInv, AloneOrRight
<1> QED
  BY <1>1, <1>2

\* A run that goes on without publishing: what it changes it will publish, or it has
\* found that the document is no longer the open one.
GoesOn(r, to) ==
  /\ ~Publishing(r) /\ to \in {"idle", "check", "snapshot", "work"}
  /\ at' = [at EXCEPT ![r] = to] /\ \A q \in Actors \ {r} : on'[q] = on[q]
  /\ UNCHANGED <<current, text, gone, took, found, shown, overlap>>
  /\ at[r] = "work" /\ on[r] = current => to = "work" /\ on'[r] = current
  /\ \/ UNCHANGED ext
     \/ /\ to = "work" /\ at[r] = "work" /\ on'[r] = on[r]
        /\ \A b \in Buffers \ {on[r]} : ext'[b] = ext[b]

\* So does a run that goes on to its next step.
LEMMA GoesOnAlone ==
  ASSUME IInv, NEW r \in Runs, NEW to, GoesOn(r, to)
  PROVE  AloneOrRight'
<1> USE DEF GoesOn
<1>1. \A q \in Actors \ {r} : at'[q] = at[q] /\ on'[q] = on[q]
  BY DEF IInv, TypeOK
<1>2. at'[r] = to /\ r \in Actors
  BY Parties DEF IInv, TypeOK
<1>3. \A p \in Actors : (Publishing(p)' <=> Publishing(p)) /\ (Publishing(p) => p # r)
  BY <1>1, <1>2 DEF Publishing
<1>4. Dirty => Dirty'
  BY <1>1, <1>2, Parties DEF Dirty
<1>5. \A p \in Actors : Publishing(p) /\ at[p] # "clear" => on[p] # None
  BY DEF IInv, TypeOK, Publishing
<1>6. current # None => text'[current] = text[current] /\ (ext'[current] = ext[current] \/ Dirty')
  <2>1. CASE UNCHANGED ext
    BY <2>1
  <2>2. CASE on[r] = current /\ to = "work" /\ on'[r] = on[r]
    BY <1>2, <2>2 DEF Dirty
  <2> QED
    BY <2>1, <2>2 DEF IInv, TypeOK
<1> QED
  BY <1>1, <1>3, <1>4, <1>5, <1>6, KeepsAlone DEF IInv, AloneOrRight

\* So do the steps of a run.
LEMMA RunAlone ==
  ASSUME IInv, (\E b \in Buffers : Fire(b)) \/ \E r \in Runs : Work(r)
  PROVE  AloneOrRight'
<1> USE DEF Goto, Leave, bufferVars, pubVars, runVars, given, history
<1>1. ASSUME NEW b \in Buffers, Fire(b) PROVE AloneOrRight'
  <2>1. PICK r \in Runs : at[r] = "idle" /\ at' = [at EXCEPT ![r] = "check"] /\ on' = [on EXCEPT ![r] = b]
    BY <1>1 DEF Fire
  <2>2. ~Publishing(r) /\ \A q \in Actors \ {r} : on'[q] = on[q]
    BY <2>1 DEF Publishing, IInv, TypeOK
  <2>3. GoesOn(r, "check")
    BY <1>1, <2>1, <2>2 DEF Fire, GoesOn
  <2> QED
    BY <2>3, GoesOnAlone
<1>2. ASSUME NEW r \in Runs, Check(r) PROVE AloneOrRight'
  <2>1. /\ at[r] = "check" /\ ~Publishing(r) /\ \A q \in Actors \ {r} : on'[q] = on[q]
        /\ UNCHANGED <<current, text, ext, gone, took, found, shown, overlap>>
    BY <1>2 DEF Check, Publishing, IInv, TypeOK
  <2>2. CASE at' = [at EXCEPT ![r] = "idle"]
    <3>1. GoesOn(r, "idle")
      BY <2>1, <2>2 DEF GoesOn
    <3> QED
      BY <3>1, GoesOnAlone
  <2>3. CASE at' = [at EXCEPT ![r] = "snapshot"]
    <3>1. GoesOn(r, "snapshot")
      BY <2>1, <2>3 DEF GoesOn
    <3> QED
      BY <3>1, GoesOnAlone
  <2> QED
    BY <1>2, <2>2, <2>3 DEF Check
<1>3. ASSUME NEW r \in Runs, Snapshot(r) PROVE AloneOrRight'
  <2>1. /\ at[r] = "snapshot" /\ ~Publishing(r) /\ on' = on /\ at' = [at EXCEPT ![r] = "work"]
        /\ UNCHANGED <<current, text, ext, gone, took, found, shown, overlap>>
    BY <1>3 DEF Snapshot, Publishing
  <2>2. GoesOn(r, "work")
    BY <2>1 DEF GoesOn
  <2> QED
    BY <2>2, GoesOnAlone
<1>4. ASSUME NEW r \in Runs, NEW v \in Validators, Missing(r, v) \/ Validated(r, v) PROVE AloneOrRight'
  <2>1. /\ at[r] = "work" /\ ~Publishing(r)
        /\ UNCHANGED <<current, text, gone, took, found, shown, overlap, at, on>>
    BY <1>4 DEF Missing, Validated, Publishing
  <2>2. at' = [at EXCEPT ![r] = "work"]
    BY <2>1 DEF IInv, TypeOK
  <2>3. \A b \in Buffers \ {on[r]} : ext'[b] = ext[b]
    BY <1>4 DEF Missing, Validated, IInv, TypeOK
  <2>4. GoesOn(r, "work")
    BY <2>1, <2>2, <2>3 DEF GoesOn
  <2> QED
    BY <2>4, GoesOnAlone
<1>5. ASSUME NEW r \in Runs, Finish(r) PROVE AloneOrRight'
  <2>1. CASE current = on[r]
    <3>1. Enter(r, "syntax") /\ on' = on /\ current' = current /\ r \in Actors
      BY <1>5, <2>1, Parties DEF Finish
    <3> QED
      BY <2>1, <3>1, BeginsAlone DEF IInv
  <2>2. CASE current # on[r]
    <3>1. /\ at[r] = "work" /\ ~Publishing(r) /\ at' = [at EXCEPT ![r] = "idle"]
          /\ on' = [on EXCEPT ![r] = None]
          /\ UNCHANGED <<current, text, ext, gone, took, found, shown, overlap>>
      BY <1>5, <2>2 DEF Finish, Publishing
    <3>2. \A q \in Actors \ {r} : on'[q] = on[q]
      BY <3>1 DEF IInv, TypeOK
    <3>3. GoesOn(r, "idle")
      BY <2>2, <3>1, <3>2 DEF GoesOn
    <3> QED
      BY <3>3, GoesOnAlone
  <2> QED
    BY <2>1, <2>2
<1> QED
  BY <1>1, <1>2, <1>3, <1>4, <1>5 DEF Work

\* Every step keeps the invariant.
LEMMA StepIInv == IInv /\ [Next]_vars => IInv'
<1> SUFFICES ASSUME IInv, [Next]_vars PROVE IInv'
  OBVIOUS
<1>1. WarnedInv' /\ GivenOK'
  BY WarnedStep, GivenTypes DEF IInv
<1>2. ASSUME TypeOK', PlaceInv', AloneOrRight' PROVE IInv'
  <2>1. GivenInv'
    BY GivenStep DEF IInv
  <2> QED
    BY <1>1, <1>2, <2>1 DEF IInv, AloneOrRight
<1>3. CASE Hook
  BY <1>1, <1>2, <1>3, HookTypes, HookAlone DEF IInv
<1>4. CASE End
  BY <1>1, <1>2, <1>4, HookTypes DEF IInv, AloneOrRight, End
<1>5. CASE Clear \/ Schedule
  BY <1>1, <1>2, <1>5, PublishTypes, Parties, LoopAlone DEF IInv
<1>6. ASSUME NEW p \in Actors, Publish(p) PROVE IInv'
  BY <1>1, <1>2, <1>6, PublishTypes, PublishAlone DEF IInv
<1>7. CASE (\E b \in Buffers : Fire(b)) \/ \E r \in Runs : Work(r)
  BY <1>1, <1>2, <1>7, RunTypes, RunAlone DEF IInv
<1>8. CASE UNCHANGED vars
  <2>1. TypeOK' /\ PlaceInv'
    BY <1>8 DEF vars, bufferVars, runVars, pubVars, given, history, IInv, TypeOK, GivenOK, PlaceInv, Opened
  <2>2. AloneOrRight'
    BY <1>8 DEF vars, bufferVars, runVars, pubVars, given, history, IInv,
       AloneOrRight, AloneInv, Alone, Publishing, Dirty, Quiet, Right
  <2> QED
    BY <1>2, <2>1, <2>2
<1> QED
  BY <1>3, <1>4, <1>5, <1>6, <1>7, <1>8 DEF Next, Run

-----------------------------------------------------------------------------
(* The theorems.                                                           *)

\* The inductive invariant holds in every reachable state.
THEOREM Invariance == Spec => []IInv
BY InitIInv, StepIInv, PTL DEF Spec

\* The documents, the loop and the runs hold values of their types.
THEOREM TypeCorrect == Spec => []TypeOK
<1>1. IInv => TypeOK
  BY DEF IInv
<1> QED
  BY <1>1, Invariance, PTL

\* A missing validator is announced once, by however many runs (Server.warned).
THEOREM MissingAnnouncedOnce == Spec => []AnnouncedOnce
<1>1. IInv => AnnouncedOnce
  BY DEF IInv, WarnedInv, AnnouncedOnce
<1> QED
  BY <1>1, Invariance, PTL

\* When nothing is under way the client shows what each validator said of the text it
\* was given last, for any number of documents, texts, validators and overlapping runs,
\* unless a publication joined another one since one last began alone, or the validator
\* was given that text while it had an older one to answer (publish, runValidators).
THEOREM StaleOnlyAfterOverlap == Spec => []StaleOnlyByOverlap
<1>1. IInv => StaleOnlyByOverlap
  <2> SUFFICES ASSUME IInv, Settled, ~overlap PROVE StaleOnlyByOverlap
    BY DEF StaleOnlyByOverlap
  <2>1. \A p \in Actors : ~Publishing(p)
    BY DEF Settled, Publishing, Actors
  <2>2. Right
    BY <2>1 DEF IInv, Quiet, Dirty, Settled
  <2>3. CASE current = None
    BY <2>2, <2>3 DEF StaleOnlyByOverlap, Right
  <2>4. CASE current # None
    <3>1. \A q \in Runs, v \in Validators : ~Asks(q, current, v)
      BY DEF Asks, Settled
    <3>2. \A v \in Validators \ tangled : ext[current][v] = due[v]
      BY <2>4, <3>1 DEF IInv, GivenInv
    <3>3. /\ shown.buffer = current /\ shown.version = text[current]
          /\ shown.found = ext[current]
      BY <2>2, <2>4 DEF Right
    <3> QED
      BY <2>4, <3>2, <3>3 DEF StaleOnlyByOverlap
  <2> QED
    BY <2>3, <2>4
<1> QED
  BY <1>1, Invariance, PTL

=============================================================================
