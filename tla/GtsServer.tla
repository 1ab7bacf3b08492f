----------------------------- MODULE GtsServer ------------------------------
(***************************************************************************)
(* The diagnostics of one document in gts-lsp (gtslsp/gts/server.go): the  *)
(* hooks, which run on the read loop one after another, the debounce timer *)
(* of the external validators, the goroutine of each timer that fires, and *)
(* the publications of both.                                               *)
(*                                                                         *)
(* A docState is made by one didOpen and named by it.  A text is named by  *)
(* its version, which grows with each didChange; what a validator reports  *)
(* is named by the text it was given.                                      *)
(***************************************************************************)
EXTENDS Naturals

CONSTANTS
  Buffers,     \* docStates, numbered as they are made: one for each didOpen
  Validators,  \* Config.Validators
  Applies,     \* the validators that handle each text
  Grammar,     \* a grammar claims the document
  Runs,        \* bound: calls of runValidators that are under way together
  Loop,        \* the read loop
  None,        \* no docState
  MaxVersion,  \* bound: versions of one docState
  MaxSaves     \* bound: didSave notifications

Versions == 1 .. MaxVersion

ASSUME GtsAssumption ==
  /\ MaxVersion \in Nat /\ MaxSaves \in Nat /\ Buffers \subseteq Nat
  /\ Applies \in [Versions -> SUBSET Validators]
  /\ Grammar \in BOOLEAN
  /\ None \notin Buffers /\ Loop \notin Runs

VARIABLES
  current,    \* s.states[uri]
  text,       \* st.doc and st.syntaxDiag: both are of this version
  ext,        \* st.ext: the text of each validator's results, 0 for none
  timer,      \* st.timer is set and has not fired
  warned,     \* s.warned
  gone,       \* the connection has ended and the hooks' context with it
  at,         \* where the loop and each run are
  on,         \* the docState each of them is about
  opening,    \* the loop is in onOpen
  todo,       \* validators a run has still to hear from
  snap,       \* the text the run gave them
  took,       \* publish: the version it read
  found,      \* publish: the results it read
  shown,      \* what the client was sent last
  announced,  \* history: how often a validator was announced as missing
  overlap,    \* history: since a publication last began alone, another has joined it
  due,        \* history: the text of the open document that each validator was given last,
              \* 0 for none and for one that was found missing since
  tangled,    \* history: those that had then an older text of it still to answer
  saves       \* history: didSave notifications so far

bufferVars == <<text, ext, timer>>
runVars    == <<todo, snap>>
pubVars    == <<took, found>>
given      == <<due, tangled>>
history    == <<announced, overlap, given, saves>>
vars == <<current, bufferVars, warned, gone, at, on, opening, runVars, pubVars, shown, history>>

Actors  == Runs \cup {Loop}
Nobody  == [v \in Validators |-> 0]
Cleared == [buffer |-> None, version |-> 0, found |-> Nobody]

Publishing(p) == at[p] \in {"syntax", "ext", "write", "clear"}

Init ==
  /\ current = None
  /\ text = [b \in Buffers |-> 0]
  /\ ext = [b \in Buffers |-> Nobody]
  /\ timer = [b \in Buffers |-> FALSE]
  /\ warned = {} /\ gone = FALSE
  /\ at = [p \in Actors |-> IF p = Loop THEN "read" ELSE "idle"]
  /\ on = [p \in Actors |-> None]
  /\ opening = FALSE
  /\ todo = [r \in Runs |-> {}]
  /\ snap = [r \in Runs |-> 0]
  /\ took = [p \in Actors |-> 0]
  /\ found = [p \in Actors |-> Nobody]
  /\ shown = Cleared
  /\ announced = [v \in Validators |-> 0]
  /\ overlap = FALSE
  /\ due = Nobody
  /\ tangled = {}
  /\ saves = 0

-----------------------------------------------------------------------------
(* publish, step by step: two locks are taken one after the other, and the *)
(* notification is written after both are released.                        *)

Goto(p, to) == at' = [at EXCEPT ![p] = to]

\* p goes where it is about no document.
Leave(p, to) == Goto(p, to) /\ on' = [on EXCEPT ![p] = None]

\* p is about to publish: history notes whether anybody else is.
Enter(p, what) ==
  /\ Goto(p, what)
  /\ overlap' = \E q \in Actors \ {p} : Publishing(q)

ReadSyntax(p) ==
  /\ at[p] = "syntax"
  /\ took' = [took EXCEPT ![p] = text[on[p]]]
  /\ Goto(p, "ext")
  /\ UNCHANGED <<current, bufferVars, warned, gone, on, opening, runVars, found, shown, history>>

ReadExt(p) ==
  /\ at[p] = "ext"
  /\ found' = [found EXCEPT ![p] = ext[on[p]]]
  /\ Goto(p, "write")
  /\ UNCHANGED <<current, bufferVars, warned, gone, on, opening, runVars, took, shown, history>>

\* A notification on a connection that has ended is lost.
Write(p) ==
  /\ at[p] = "write"
  /\ shown' = IF gone THEN shown
              ELSE [buffer |-> on[p], version |-> took[p], found |-> found[p]]
  /\ took' = [took EXCEPT ![p] = 0] /\ found' = [found EXCEPT ![p] = Nobody]
  /\ IF p = Loop /\ opening THEN Goto(p, "schedule") /\ UNCHANGED on
     ELSE Leave(p, IF p = Loop THEN "read" ELSE "idle")
  /\ UNCHANGED <<current, bufferVars, warned, gone, opening, runVars, history>>

-----------------------------------------------------------------------------
(* The hooks, on the read loop.                                            *)

\* reparse: the text and its syntax diagnostics are replaced together.  They are a
\* function of the text, for an incremental parse that is not clean is done again
\* from nothing; without a grammar there are none.
Replace(b) == text' = [text EXCEPT ![b] = @ + 1]

\* History: what was given is of a document that is open.
Forget == due' = Nobody /\ tangled' = {}

Idle == at[Loop] = "read" /\ ~gone

\* onOpen: a new docState, parsed and then published.  A client opens a document
\* that it has not open.
DidOpen(b) ==
  /\ Idle /\ current = None /\ text[b] = 0 /\ MaxVersion > 0
  /\ \A c \in Buffers : c < b => text[c] # 0
  /\ current' = b
  /\ Replace(b)
  /\ on' = [on EXCEPT ![Loop] = b] /\ opening' = TRUE
  /\ Enter(Loop, "syntax")
  /\ Forget
  /\ UNCHANGED <<ext, timer, warned, gone, runVars, pubVars, shown, announced, saves>>

\* Variant: a change of a document that is not open is not ignored.
DidChangeUnknown ==
  /\ Idle /\ current # None => text[current] < MaxVersion
  /\ IF current = None THEN UNCHANGED text ELSE Replace(current)
  /\ on' = [on EXCEPT ![Loop] = current]
  /\ Enter(Loop, "syntax")
  /\ UNCHANGED <<current, ext, timer, warned, gone, opening, runVars, pubVars, shown, announced, given, saves>>

\* onChange: reparse, then publish.
DidChange ==
  /\ Idle /\ current # None /\ text[current] < MaxVersion
  /\ Replace(current)
  /\ on' = [on EXCEPT ![Loop] = current]
  /\ Enter(Loop, "syntax")
  /\ UNCHANGED <<current, ext, timer, warned, gone, opening, runVars, pubVars, shown, announced, given, saves>>

DidSave ==
  /\ Idle /\ current # None /\ saves < MaxSaves
  /\ on' = [on EXCEPT ![Loop] = current]
  /\ Goto(Loop, "schedule")
  /\ saves' = saves + 1
  /\ UNCHANGED <<current, bufferVars, warned, gone, opening, runVars, pubVars, shown, announced, overlap, given>>

\* onClose forgets the document and stops its timer, then clears the client's list.
DidClose ==
  /\ Idle /\ current # None
  /\ current' = None
  /\ timer' = [timer EXCEPT ![current] = FALSE]
  /\ Enter(Loop, "clear")
  /\ Forget
  /\ UNCHANGED <<text, ext, warned, gone, on, opening, runVars, pubVars, shown, announced, saves>>

Clear ==
  /\ at[Loop] = "clear"
  /\ shown' = IF gone THEN shown ELSE Cleared
  /\ Goto(Loop, "read")
  /\ UNCHANGED <<current, bufferVars, warned, gone, on, opening, runVars, pubVars, history>>

AnyApplies(b) == Applies[text[b]] # {}

\* Variant: a timer that was set once is taken for one that is running.
ScheduleFirst ==
  /\ at[Loop] = "schedule"
  /\ timer' = IF opening THEN [timer EXCEPT ![on[Loop]] = TRUE] ELSE timer
  /\ Leave(Loop, "read") /\ opening' = FALSE
  /\ UNCHANGED <<current, text, ext, warned, gone, runVars, pubVars, shown, history>>

\* scheduleValidators: a timer that has not fired is replaced.
Schedule ==
  /\ at[Loop] = "schedule"
  /\ LET b == on[Loop]
     IN  timer' = IF Validators = {} \/ (~Grammar /\ ~AnyApplies(b)) THEN timer
                  ELSE [timer EXCEPT ![b] = TRUE]
  /\ Leave(Loop, "read") /\ opening' = FALSE
  /\ UNCHANGED <<current, text, ext, warned, gone, runVars, pubVars, shown, history>>

-----------------------------------------------------------------------------
(* runValidators, on a goroutine of its own.                               *)

\* The timer's goroutine.  One run is as good as another.
Fire(b) ==
  /\ timer[b] /\ \E r \in Runs : at[r] = "idle"
  /\ LET r == CHOOSE r \in Runs : at[r] = "idle"
     IN  on' = [on EXCEPT ![r] = b] /\ Goto(r, "check")
  /\ timer' = [timer EXCEPT ![b] = FALSE]
  /\ UNCHANGED <<current, text, ext, warned, gone, opening, runVars, pubVars, shown, history>>

\* A document that was closed meanwhile, or opened anew, is left alone.
Check(r) ==
  /\ at[r] = "check"
  /\ IF gone \/ current # on[r] THEN Leave(r, "idle") ELSE Goto(r, "snapshot") /\ UNCHANGED on
  /\ UNCHANGED <<current, bufferVars, warned, gone, opening, runVars, pubVars, shown, history>>

\* r waits for v's answer about b.
Asks(r, b, v) == at[r] = "work" /\ on[r] = b /\ v \in todo[r]

\* History: the validators in asked are given text n of b.
Give(b, asked, n) ==
  IF b # current THEN UNCHANGED given
  ELSE LET busy == {v \in asked : \E q \in Runs : Asks(q, b, v)}
       IN  /\ due' = [v \in Validators |-> IF v \in asked THEN n ELSE due[v]]
           /\ tangled' = (tangled \ asked) \cup busy

\* History: v is found missing by a run about b.
Miss(b, v) == due' = IF b = current THEN [due EXCEPT ![v] = 0] ELSE due

\* The document is read once, so that every validator sees the same text.
Snapshot(r) ==
  /\ at[r] = "snapshot"
  /\ Give(on[r], Applies[text[on[r]]], text[on[r]])
  /\ snap' = [snap EXCEPT ![r] = text[on[r]]]
  /\ todo' = [todo EXCEPT ![r] = Applies[text[on[r]]]]
  /\ Goto(r, "work")
  /\ UNCHANGED <<current, bufferVars, warned, gone, on, opening, pubVars, shown, announced, overlap, saves>>

\* Variant: nothing says that the client has been told.
MissingAgain(r, v) ==
  /\ at[r] = "work" /\ v \in todo[r]
  /\ announced' = IF v \in warned THEN announced ELSE [announced EXCEPT ![v] = @ + 1]
  /\ ext' = [ext EXCEPT ![on[r]][v] = 0] /\ Miss(on[r], v)
  /\ todo' = [todo EXCEPT ![r] = @ \ {v}]
  /\ UNCHANGED <<current, text, timer, warned, gone, at, on, opening, snap, pubVars, shown, overlap, tangled, saves>>

\* Variant: what the validator said before it was missing stays.
MissingKeeps(r, v) ==
  /\ at[r] = "work" /\ v \in todo[r]
  /\ announced' = IF v \in warned THEN announced ELSE [announced EXCEPT ![v] = @ + 1]
  /\ warned' = warned \cup {v}
  /\ Miss(on[r], v)
  /\ todo' = [todo EXCEPT ![r] = @ \ {v}]
  /\ UNCHANGED <<current, bufferVars, gone, at, on, opening, snap, pubVars, shown, overlap, tangled, saves>>

\* A validator that is not installed: its results go, and the first to find that
\* out tells the client.
Missing(r, v) ==
  /\ at[r] = "work" /\ v \in todo[r]
  /\ announced' = IF v \in warned THEN announced ELSE [announced EXCEPT ![v] = @ + 1]
  /\ warned' = warned \cup {v}
  /\ ext' = [ext EXCEPT ![on[r]][v] = 0] /\ Miss(on[r], v)
  /\ todo' = [todo EXCEPT ![r] = @ \ {v}]
  /\ UNCHANGED <<current, text, timer, gone, at, on, opening, snap, pubVars, shown, overlap, tangled, saves>>

\* Validate returns: diagnostics, or one that says it failed.
Validated(r, v) ==
  /\ at[r] = "work" /\ v \in todo[r]
  /\ ext' = [ext EXCEPT ![on[r]][v] = snap[r]]
  /\ todo' = [todo EXCEPT ![r] = @ \ {v}]
  /\ UNCHANGED <<current, text, timer, warned, gone, at, on, opening, snap, pubVars, shown, history>>

\* Variant: the run publishes whatever became of the document.
FinishUnchecked(r) ==
  /\ at[r] = "work" /\ todo[r] = {}
  /\ Enter(r, "syntax")
  /\ snap' = [snap EXCEPT ![r] = 0]
  /\ UNCHANGED <<current, bufferVars, warned, gone, on, opening, todo, pubVars, shown, announced, given, saves>>

\* All have answered: publish, unless the document is no longer the one.
Finish(r) ==
  /\ at[r] = "work" /\ todo[r] = {}
  /\ IF current = on[r] THEN Enter(r, "syntax") /\ UNCHANGED on
     ELSE Leave(r, "idle") /\ UNCHANGED overlap
  /\ snap' = [snap EXCEPT ![r] = 0]
  /\ UNCHANGED <<current, bufferVars, warned, gone, opening, todo, pubVars, shown, announced, given, saves>>

End ==
  /\ ~gone /\ gone' = TRUE
  /\ UNCHANGED <<current, bufferVars, warned, at, on, opening, runVars, pubVars, shown, history>>

-----------------------------------------------------------------------------
Publish(p) == ReadSyntax(p) \/ ReadExt(p) \/ Write(p)
Work(r)    == Check(r) \/ Snapshot(r) \/ Finish(r) \/ \E v \in Validators : Missing(r, v) \/ Validated(r, v)
Hook       == DidChange \/ DidSave \/ DidClose \/ \E b \in Buffers : DidOpen(b)

Run ==
  \/ Clear \/ Schedule
  \/ \E p \in Actors : Publish(p)
  \/ \E b \in Buffers : Fire(b)
  \/ \E r \in Runs : Work(r)

Next == Hook \/ End \/ Run

Spec == Init /\ [][Next]_vars

\* A goroutine that can run does, a timer that is set fires, and every Validate ends
\* (validatorTimeout).  A behaviour takes finitely many steps, so if some step is
\* taken whenever one can be, each of them is.
FairSpec == Spec /\ WF_vars(Run)

-----------------------------------------------------------------------------
(* What must hold.                                                         *)

Results == [Validators -> 0 .. MaxVersion]

GivenOK == due \in Results /\ tangled \subseteq Validators

TypeOK ==
  /\ current \in Buffers \cup {None}
  /\ text \in [Buffers -> 0 .. MaxVersion]
  /\ ext \in [Buffers -> Results]
  /\ timer \in [Buffers -> BOOLEAN]
  /\ warned \subseteq Validators /\ gone \in BOOLEAN
  /\ at \in [Actors -> {"read", "schedule", "clear", "idle", "check", "snapshot", "work",
                        "syntax", "ext", "write"}]
  /\ on \in [Actors -> Buffers \cup {None}]
  /\ \A p \in Actors : at[p] \in {"schedule", "check", "work", "syntax", "ext", "write"} => on[p] # None
  /\ opening \in BOOLEAN
  /\ todo \in [Runs -> SUBSET Validators]
  /\ snap \in [Runs -> 0 .. MaxVersion]
  /\ took \in [Actors -> 0 .. MaxVersion]
  /\ found \in [Actors -> Results]
  /\ shown \in [buffer : Buffers \cup {None}, version : 0 .. MaxVersion, found : Results]
  /\ announced \in [Validators -> Nat]
  /\ overlap \in BOOLEAN
  /\ GivenOK
  /\ saves \in 0 .. MaxSaves

\* A validator that is not installed is announced once, however many runs of the
\* document find it missing at the same time (Server.warned).
AnnouncedOnce == \A v \in Validators : announced[v] <= 1

\* Nothing is being published, and no run has results that it has not published.
Settled ==
  /\ at[Loop] \in {"read", "schedule"} /\ ~gone
  /\ \A r \in Runs : at[r] \in {"idle", "check", "snapshot"}

\* What the client shows is what each validator said of the text it was given last.
\* It goes stale, or comes back after the document was closed, in two ways only.
\* Either two publications of the document overlap: publish holds no lock from what
\* it reads to what it writes, and a run looks whether the document is still open
\* before it publishes; the next publication that begins alone sets it right.  Or a
\* validator is given the text while an older run still waits for its answer about
\* an older one, which then may come last and replace the newer one (runValidators);
\* the next run that finds it free sets it right.
StaleOnlyByOverlap ==
  Settled /\ ~overlap =>
    IF current = None THEN shown = Cleared
    ELSE /\ shown.buffer = current /\ shown.version = text[current]
         /\ \A v \in Validators : v \notin tangled => shown.found[v] = due[v]

\* A document that is opened or saved is validated, however its timers and runs
\* fall: some run gives that text or a later one to the validators, unless the
\* document is closed or the connection ends first.
SavedIsValidated ==
  \A b \in Buffers, n \in Versions :
    at[Loop] = "schedule" /\ on[Loop] = b /\ text[b] = n /\ Applies[n] # {}
      ~> \/ \E r \in Runs : at[r] = "work" /\ on[r] = b /\ snap[r] >= n
         \/ current # b \/ gone

=============================================================================
