-------------------------- MODULE LspSessionProofs --------------------------
(* Theorems about LspSession, for any clients and any number of requests.  *)
EXTENDS LspSession, TLAPS

-----------------------------------------------------------------------------
(* The inductive invariant, in named parts.                                *)

\* The session leaves "new" exactly when an initialize takes effect, and no
\* other goroutine has seen it out of "new" before that.
RunInv ==
  /\ (st # "new") <=> \E i \in Initializes : Granted(i)
  /\ \A r \in Requests : saw[r] # "new" => st # "new"
  /\ \A a \in Asks : gpc[a] # "reply" /\ (Granted(a) => st # "new")

\* Each message is sent once: what is on the wire is there once, and no goroutine
\* serves it yet.
WireInv ==
  /\ \A i \in 1 .. Len(wire) : wire[i] \in sent /\ (wire[i] \in Requests => gpc[wire[i]] = "none")
  /\ \A i, j \in 1 .. Len(wire) : wire[i] = wire[j] => i = j
  /\ \A r \in Requests : gpc[r] # "none" => r \in sent

\* An orderly client sends a document to a running session only.
OpenInv ==
  orderly => \A o \in sent \cap Opens :
               st # "new" /\ (o \in docs \/ \E i \in 1 .. Len(wire) : wire[i] = o)

\* A verdict of 0 stems from an exit that was handled after shutdown.
ExitInv ==
  /\ st = "shutdown" => Granted("shutdown")
  /\ exited /\ exitCode = 0 => Granted("shutdown")
  /\ main \in {"return", "returned"} /\ exitCode = 0 => exited
  /\ main = "returned" /\ code = 0 => exited /\ Granted("shutdown")

IInv == TypeOK /\ WireInv /\ RunInv /\ OpenInv /\ ExitInv

-----------------------------------------------------------------------------
(* Lemmas.                                                                 *)

\* Taking the head of the wire leaves what came after it, in order.
LEMMA TakeHead ==
  ASSUME TypeOK, NEW S, Take(S)
  PROVE  /\ Head(wire) \in S /\ Head(wire) \in Messages /\ Head(wire) = wire[1]
         /\ wire' \in Seq(Messages) /\ Len(wire') = Len(wire) - 1 /\ Len(wire) \in Nat \ {0}
         /\ \A i \in 1 .. Len(wire') : wire'[i] = wire[i + 1]
<1>1. wire \in Seq(Messages) /\ wire # <<>> /\ Head(wire) \in S /\ wire' = Tail(wire)
  BY DEF TypeOK, Take
<1> QED
  BY <1>1

\* A message that is sent goes to the end of the wire.
LEMMA PutLast ==
  ASSUME TypeOK, NEW m \in Messages, wire' = Append(wire, m)
  PROVE  /\ wire' \in Seq(Messages) /\ Len(wire') = Len(wire) + 1 /\ Len(wire) \in Nat
         /\ wire'[Len(wire) + 1] = m
         /\ \A i \in 1 .. Len(wire) : wire'[i] = wire[i]
<1>1. wire \in Seq(Messages)
  BY DEF TypeOK
<1> QED
  BY <1>1

\* The kinds of messages are told apart.
LEMMA Kinds ==
  /\ Requests \subseteq Messages /\ Opens \subseteq Messages /\ "exit" \in Messages
  /\ Requests \cap Opens = {} /\ "exit" \notin Requests \cup Opens
  /\ Initializes \subseteq Requests /\ Asks \subseteq Requests /\ "shutdown" \in Requests
  /\ Initializes \cap Asks = {} /\ "shutdown" \notin Initializes \cup Asks
BY SessionAssumption DEF SessionAssumption, Requests, Messages

\* A goroutine at work has not answered: what it does cannot take back a grant.
LEMMA GrantsStay ==
  ASSUME TypeOK, WireInv, NEW r \in Requests, Granted(r), [Next]_vars
  PROVE  Granted(r)'
<1>0. gpc[r] \in {"reply", "done"} /\ (gpc[r] = "done" => reply[r] = "ok")
  BY DEF TypeOK, Granted
<1>1. ASSUME NEW q \in Requests, NEW what, gpc[q] = "act", Reply(q, what) PROVE Granted(r)'
  BY <1>0, <1>1 DEF TypeOK, Reply, Granted
<1>2. ASSUME NEW q \in Requests, NEW to, gpc[q] = "act", Become(q, to) PROVE Granted(r)'
  BY <1>0, <1>2 DEF TypeOK, Become, Granted
<1>3. CASE UNCHANGED requestVars
  BY <1>3 DEF requestVars, Granted
<1>4. ASSUME NEW q \in Requests, Handle(q) PROVE Granted(r)'
  <2>1. CASE Enter(q)
    BY <1>0, <2>1 DEF TypeOK, Enter, Granted
  <2>2. CASE Refuse(q)
    BY <1>1, <2>2 DEF Refuse
  <2>3. CASE InitializeFails(q) \/ Answer(q)
    BY <1>1, <2>3 DEF InitializeFails, Answer
  <2>4. CASE Initialize(q) \/ Shutdown(q)
    BY <1>2, <2>4 DEF Initialize, Shutdown
  <2>5. CASE Respond(q)
    BY <1>0, <2>5 DEF TypeOK, Respond, Reply, Granted
  <2> QED
    BY <1>4, <2>1, <2>2, <2>3, <2>4, <2>5 DEF Handle
<1>5. CASE ReadRequest
  <2>1. /\ Head(wire) \in Requests /\ Head(wire) = wire[1] /\ Len(wire) \in Nat \ {0}
        /\ gpc' = [gpc EXCEPT ![Head(wire)] = "enter"] /\ UNCHANGED reply
    BY <1>5, TakeHead DEF ReadRequest
  <2>2. gpc[Head(wire)] = "none"
    BY <2>1 DEF WireInv
  <2> QED
    BY <1>0, <2>1, <2>2 DEF TypeOK, Granted
<1> QED
  BY <1>3, <1>4, <1>5 DEF Next, vars, Send, HangUp, ReadOpen, ReadExit, Lose,
     NoticeExit, NoticeEnd, Mark, Return, MainTo, Stop

-----------------------------------------------------------------------------
(* The initial states.                                                     *)

\* A session that has read nothing satisfies every part.
LEMMA InitIInv == Init => IInv
<1> SUFFICES ASSUME Init PROVE IInv
  OBVIOUS
<1>1. Len(wire) = 0 /\ wire \in Seq(Messages)
  BY DEF Init
<1>2. TypeOK
  BY <1>1 DEF Init, TypeOK, States, Replies
<1> QED
  BY <1>1, <1>2, Kinds DEF Init, IInv, WireInv, RunInv, OpenInv, ExitInv, Granted

-----------------------------------------------------------------------------
(* The steps.                                                              *)

\* What a goroutine's step comes to: it looks, it answers, or it moves the state.
LEMMA HandleCases ==
  ASSUME NEW r \in Requests, Handle(r)
  PROVE  \/ Enter(r)
         \/ /\ gpc[r] = "act" /\ r \in Initializes /\ saw[r] = "new" /\ Become(r, "running")
         \/ /\ gpc[r] = "act" /\ r = "shutdown" /\ saw[r] # "new" /\ Become(r, "shutdown")
         \/ /\ gpc[r] = "act" /\ r \in Asks /\ saw[r] = "running" /\ Reply(r, "ok")
         \/ \E what \in Replies \ {"none", "ok"} : gpc[r] = "act" /\ Reply(r, what)
         \/ gpc[r] = "reply" /\ Reply(r, "ok")
<1>1. {"failed", "notInitialized", "twice", "shuttingDown"} = Replies \ {"none", "ok"}
  BY DEF Replies
<1>2. CASE Refuse(r) \/ InitializeFails(r)
  BY <1>1, <1>2 DEF Refuse, InitializeFails
<1> QED
  BY <1>2 DEF Handle, Initialize, Shutdown, Answer, Respond

\* Every step keeps the types.
LEMMA TypeStep == TypeOK /\ WireInv /\ [Next]_vars => TypeOK'
<1> SUFFICES ASSUME TypeOK, WireInv, [Next]_vars PROVE TypeOK'
  OBVIOUS
<1> USE DEF TypeOK
<1>1. ASSUME NEW m \in Messages, Send(m) PROVE TypeOK'
  <2>1. wire' \in Seq(Messages) /\ sent' \subseteq Messages
    BY <1>1, PutLast DEF Send
  <2> QED
    BY <1>1, <2>1 DEF Send, sessionVars, requestVars, serveVars
<1>2. CASE ReadRequest
  <2>1. /\ wire' \in Seq(Messages) /\ Head(wire) \in Requests /\ gpc[Head(wire)] = "none"
        /\ gpc' = [gpc EXCEPT ![Head(wire)] = "enter"]
    BY <1>2, TakeHead DEF ReadRequest, WireInv
  <2>2. /\ gpc' \in [Requests -> {"none", "enter", "act", "reply", "done"}]
        /\ \A r \in Requests : gpc'[r] = "done" <=> reply[r] # "none"
    BY <2>1
  <2> QED
    BY <1>2, <2>1, <2>2 DEF ReadRequest, clientVars, sessionVars, serveVars
<1>3. CASE ReadOpen
  <2>1. wire' \in Seq(Messages) /\ docs' \subseteq Opens
    BY <1>3, TakeHead DEF ReadOpen
  <2> QED
    BY <1>3, <2>1 DEF ReadOpen, clientVars, sessionVars, requestVars, serveVars
<1>4. CASE ReadExit
  <2>1. wire' \in Seq(Messages) /\ exitCode' \in {0, 1} /\ exited' \in BOOLEAN
    BY <1>4, TakeHead DEF ReadExit
  <2> QED
    BY <1>4, <2>1 DEF ReadExit, clientVars, requestVars, serveVars
<1>5. ASSUME NEW r \in Requests, Handle(r) PROVE TypeOK'
  <2>1. CASE Enter(r)
    <3>1. saw' \in [Requests -> States]
      BY <2>1 DEF Enter
    <3>2. /\ gpc' \in [Requests -> {"none", "enter", "act", "reply", "done"}]
          /\ \A q \in Requests : gpc'[q] = "done" <=> reply[q] # "none"
      BY <2>1 DEF Enter
    <3> QED
      BY <2>1, <3>1, <3>2 DEF Enter, clientVars, sessionVars, serveVars
  <2>2. ASSUME NEW to \in States, gpc[r] = "act", Become(r, to) PROVE TypeOK'
    <3>1. /\ gpc' \in [Requests -> {"none", "enter", "act", "reply", "done"}]
          /\ \A q \in Requests : gpc'[q] = "done" <=> reply[q] # "none"
      BY <2>2 DEF Become
    <3> QED
      BY <2>2, <3>1 DEF Become, clientVars, serveVars
  <2>3. ASSUME NEW what \in Replies \ {"none"}, Reply(r, what) PROVE TypeOK'
    <3>1. /\ gpc' \in [Requests -> {"none", "enter", "act", "reply", "done"}]
          /\ reply' \in [Requests -> Replies]
          /\ \A q \in Requests : gpc'[q] = "done" <=> reply'[q] # "none"
      BY <2>3 DEF Reply
    <3> QED
      BY <2>3, <3>1 DEF Reply, clientVars, sessionVars, serveVars
  <2>4. "running" \in States /\ "shutdown" \in States /\ "ok" \in Replies \ {"none"}
    BY DEF States, Replies
  <2> QED
    BY <1>5, <2>1, <2>2, <2>3, <2>4, HandleCases
<1>6. CASE NoticeExit \/ NoticeEnd \/ Mark \/ Return
  BY <1>6 DEF NoticeExit, NoticeEnd, Mark, Return, MainTo, clientVars, requestVars
<1>7. CASE HangUp \/ Lose \/ Stop
  BY ZenonT(60), <1>7 DEF HangUp, Lose, Stop, clientVars, sessionVars, requestVars, serveVars
<1>8. CASE UNCHANGED vars
  BY <1>8 DEF vars, clientVars, sessionVars, requestVars, serveVars
<1> QED
  BY <1>1, <1>2, <1>3, <1>4, <1>5, <1>6, <1>7, <1>8 DEF Next

\* A goroutine's step leaves the wire alone and serves only what has been read.
LEMMA HandleFrame ==
  ASSUME TypeOK, NEW r \in Requests, Handle(r)
  PROVE  /\ UNCHANGED <<orderly, sent, wire, docs, exitCode, exited, main, code>>
         /\ gpc[r] # "none" /\ gpc'[r] # "none"
         /\ \A q \in Requests : q # r => gpc'[q] = gpc[q] /\ saw'[q] = saw[q] /\ reply'[q] = reply[q]
<1>1. CASE Enter(r)
  BY <1>1 DEF TypeOK, Enter, clientVars, sessionVars, serveVars
<1>2. ASSUME NEW to, gpc[r] = "act", Become(r, to)
      PROVE  /\ UNCHANGED <<orderly, sent, wire, docs, exitCode, exited, main, code>>
             /\ gpc[r] # "none" /\ gpc'[r] # "none"
             /\ \A q \in Requests : q # r => gpc'[q] = gpc[q] /\ saw'[q] = saw[q] /\ reply'[q] = reply[q]
  BY <1>2 DEF TypeOK, Become, clientVars, serveVars
<1>3. ASSUME NEW what, gpc[r] \in {"act", "reply"}, Reply(r, what)
      PROVE  /\ UNCHANGED <<orderly, sent, wire, docs, exitCode, exited, main, code>>
             /\ gpc[r] # "none" /\ gpc'[r] # "none"
             /\ \A q \in Requests : q # r => gpc'[q] = gpc[q] /\ saw'[q] = saw[q] /\ reply'[q] = reply[q]
  BY <1>3 DEF TypeOK, Reply, clientVars, sessionVars, serveVars
<1> QED
  BY <1>1, <1>2, <1>3, HandleCases

\* A message is sent once, and leaves the wire when the read loop takes it.
LEMMA WireStep == TypeOK /\ WireInv /\ [Next]_vars => WireInv'
<1> SUFFICES ASSUME TypeOK, WireInv, [Next]_vars PROVE WireInv'
  OBVIOUS
<1>0. Len(wire) \in Nat
  BY DEF TypeOK
<1>1. ASSUME NEW m \in Messages, Send(m) PROVE WireInv'
  <2>1. /\ Len(wire') = Len(wire) + 1 /\ wire'[Len(wire) + 1] = m
        /\ \A i \in 1 .. Len(wire) : wire'[i] = wire[i]
    BY <1>1, PutLast DEF Send
  <2>2. m \notin sent /\ sent' = sent \cup {m} /\ gpc' = gpc
    BY <1>1 DEF Send, requestVars
  <2>3. m \in Requests => gpc[m] = "none"
    BY <2>2 DEF WireInv
  <2>4. \A i \in 1 .. Len(wire') : i \in 1 .. Len(wire) \/ i = Len(wire) + 1
    BY <1>0, <2>1
  <2> QED
    BY <2>1, <2>2, <2>3, <2>4 DEF WireInv
<1>2. ASSUME NEW S, Take(S), sent' = sent,
             gpc' = gpc \/ gpc' = [gpc EXCEPT ![Head(wire)] = "enter"]
      PROVE  WireInv'
  <2>1. /\ Head(wire) \in S /\ Head(wire) = wire[1] /\ Len(wire) \in Nat \ {0}
        /\ Len(wire') = Len(wire) - 1 /\ \A i \in 1 .. Len(wire') : wire'[i] = wire[i + 1]
    BY <1>2, TakeHead
  <2>2. \A i \in 1 .. Len(wire') : i + 1 \in 1 .. Len(wire) /\ i + 1 # 1
    BY <2>1
  <2>3. 1 \in 1 .. Len(wire) /\ \A i \in 1 .. Len(wire') : wire'[i] # Head(wire)
    BY <2>1, <2>2 DEF WireInv
  <2>4. \A r \in Requests : r # Head(wire) => gpc'[r] = gpc[r]
    BY <1>2 DEF TypeOK
  <2>5. \A i \in 1 .. Len(wire') : wire'[i] \in sent /\ (wire'[i] \in Requests => gpc'[wire'[i]] = "none")
    BY <2>1, <2>2, <2>3, <2>4 DEF WireInv
  <2>6. \A i, j \in 1 .. Len(wire') : wire'[i] = wire'[j] => i = j
    BY <2>1, <2>2 DEF WireInv
  <2>7. \A r \in Requests : gpc'[r] # "none" => r \in sent
    BY <2>1, <2>3, <2>4 DEF WireInv
  <2> QED
    BY <1>2, <2>5, <2>6, <2>7 DEF WireInv
<1>3. CASE ReadRequest
  BY <1>2, <1>3 DEF ReadRequest, clientVars
<1>4. CASE ReadOpen \/ ReadExit
  BY <1>2, <1>4 DEF ReadOpen, ReadExit, clientVars, requestVars
<1>5. ASSUME NEW r \in Requests, Handle(r) PROVE WireInv'
  <2>1. \A i \in 1 .. Len(wire) : wire[i] # r
    BY <1>5, HandleFrame DEF WireInv
  <2> QED
    BY <1>5, <2>1, HandleFrame DEF WireInv
<1>6. CASE UNCHANGED <<wire, sent, gpc>>
  BY <1>6 DEF WireInv
<1> QED
  BY <1>1, <1>3, <1>4, <1>5, <1>6 DEF Next, vars, HangUp, Lose, NoticeExit, NoticeEnd, Mark,
     Return, MainTo, Stop, clientVars, requestVars

\* The session's state is set by its goroutines alone.
LEMMA RunStep == TypeOK /\ WireInv /\ RunInv /\ [Next]_vars => RunInv'
<1> SUFFICES ASSUME TypeOK, WireInv, RunInv, [Next]_vars PROVE RunInv'
  OBVIOUS
<1> DEFINE Running == \E i \in Initializes : Granted(i)
<1>0. Running => Running'
  <2>1. ASSUME NEW i \in Initializes, Granted(i) PROVE Granted(i)'
    BY <2>1, Kinds, GrantsStay
  <2> QED
    BY <2>1
<1>1. ASSUME NEW r \in Requests, Enter(r) PROVE RunInv'
  <2>1. /\ st' = st /\ reply' = reply
        /\ \A q \in Requests : q # r => gpc'[q] = gpc[q] /\ saw'[q] = saw[q]
        /\ gpc[r] = "enter" /\ gpc'[r] = "act" /\ saw'[r] = st
    BY <1>1 DEF TypeOK, Enter, sessionVars
  <2>2. \A q \in Requests : Granted(q)' <=> Granted(q)
    BY <2>1 DEF Granted
  <2> QED
    BY <2>1, <2>2, Kinds DEF RunInv
<1>2. ASSUME NEW r \in Requests, gpc[r] = "act", r \notin Asks, NEW to, to # "new", Become(r, to),
             r \in Initializes \/ st # "new"
      PROVE  RunInv'
  <2>1. /\ st' = to /\ reply' = reply /\ saw' = saw
        /\ \A q \in Requests : q # r => gpc'[q] = gpc[q]
        /\ gpc'[r] = "reply"
    BY <1>2 DEF TypeOK, Become
  <2>2. Running'
    <3>1. CASE r \in Initializes
      BY <2>1, <3>1 DEF Granted
    <3>2. CASE st # "new"
      BY <1>0, <3>2 DEF RunInv
    <3> QED
      BY <1>2, <3>1, <3>2
  <2>3. \A a \in Asks : gpc'[a] = gpc[a]
    BY <1>2, <2>1, Kinds
  <2> QED
    BY <1>2, <2>1, <2>2, <2>3 DEF RunInv, Granted
<1>3. ASSUME NEW r \in Requests, NEW what, gpc[r] = "act", Reply(r, what),
             what = "ok" => r \in Asks /\ saw[r] # "new"
      PROVE  RunInv'
  <2>1. /\ st' = st /\ saw' = saw
        /\ \A q \in Requests : q # r => gpc'[q] = gpc[q] /\ reply'[q] = reply[q]
        /\ gpc'[r] = "done" /\ reply'[r] = what
    BY <1>3 DEF TypeOK, Reply, sessionVars
  <2>2. \A i \in Initializes : Granted(i)' => Granted(i)
    BY <1>3, <2>1, Kinds DEF Granted
  <2>3. \A a \in Asks : gpc'[a] # "reply" /\ (Granted(a)' => st # "new")
    BY <1>3, <2>1, Kinds DEF RunInv, Granted
  <2> QED
    BY <1>0, <2>1, <2>2, <2>3 DEF RunInv
<1>4. ASSUME NEW r \in Requests, gpc[r] = "reply", Reply(r, "ok") PROVE RunInv'
  <2>1. /\ st' = st /\ saw' = saw
        /\ \A q \in Requests : q # r => gpc'[q] = gpc[q] /\ reply'[q] = reply[q]
        /\ gpc'[r] = "done" /\ reply'[r] = "ok"
    BY <1>4 DEF TypeOK, Reply, sessionVars
  <2>2. \A q \in Requests : Granted(q)' <=> Granted(q)
    BY <1>4, <2>1 DEF Granted
  <2> QED
    BY <1>4, <2>1, <2>2, Kinds DEF RunInv
<1>5. ASSUME NEW r \in Requests, Handle(r) PROVE RunInv'
  <2>1. CASE gpc[r] = "act" /\ r \in Initializes /\ saw[r] = "new" /\ Become(r, "running")
    BY <1>2, <2>1, Kinds
  <2>2. CASE gpc[r] = "act" /\ r = "shutdown" /\ saw[r] # "new" /\ Become(r, "shutdown")
    BY <1>2, <2>2, Kinds DEF RunInv
  <2>3. CASE gpc[r] = "act" /\ r \in Asks /\ saw[r] = "running" /\ Reply(r, "ok")
    BY <1>3, <2>3
  <2>4. ASSUME NEW what \in Replies \ {"none", "ok"}, gpc[r] = "act", Reply(r, what) PROVE RunInv'
    BY <1>3, <2>4
  <2> QED
    BY <1>1, <1>4, <1>5, <2>1, <2>2, <2>3, <2>4, HandleCases
<1>6. CASE ReadRequest
  <2>1. /\ Head(wire) \in Requests /\ gpc[Head(wire)] = "none"
        /\ gpc' = [gpc EXCEPT ![Head(wire)] = "enter"] /\ UNCHANGED <<st, saw, reply>>
    BY <1>6, TakeHead DEF ReadRequest, WireInv, sessionVars
  <2>2. \A q \in Requests : (Granted(q)' <=> Granted(q)) /\ (gpc'[q] = "reply" => gpc[q] = "reply")
    BY <2>1 DEF TypeOK, Granted
  <2> QED
    BY <2>1, <2>2, Kinds DEF RunInv
<1>7. CASE UNCHANGED <<st, gpc, saw, reply>>
  BY <1>7 DEF RunInv, Granted
<1> QED
  BY <1>5, <1>6, <1>7 DEF Next, vars, Send, HangUp, ReadOpen, ReadExit, Lose, NoticeExit, NoticeEnd,
     Mark, Return, MainTo, Stop, clientVars, sessionVars, requestVars

\* A didOpen that an orderly client sent is either on its way or kept.
LEMMA OpenStep == TypeOK /\ WireInv /\ RunInv /\ RunInv' /\ OpenInv /\ [Next]_vars => OpenInv'
<1> SUFFICES ASSUME TypeOK, WireInv, RunInv, RunInv', OpenInv, [Next]_vars,
                    orderly', NEW o \in (sent \cap Opens)'
             PROVE  st' # "new" /\ (o \in docs' \/ \E i \in 1 .. Len(wire') : wire'[i] = o)
  BY DEF OpenInv
<1> DEFINE Kept == st' # "new" /\ (o \in docs' \/ \E i \in 1 .. Len(wire') : wire'[i] = o)
<1>0. /\ st # "new" => st' # "new"
      /\ Len(wire) \in Nat
  <2>1. ASSUME NEW i \in Initializes, Granted(i) PROVE Granted(i)'
    BY <2>1, Kinds, GrantsStay
  <2> QED
    BY <2>1 DEF RunInv, TypeOK
<1>1. ASSUME NEW m \in Messages, Send(m) PROVE Kept
  <2>1. /\ orderly /\ MaySend(m) /\ sent' = sent \cup {m} /\ docs' = docs
        /\ Len(wire') = Len(wire) + 1 /\ wire'[Len(wire) + 1] = m
        /\ \A i \in 1 .. Len(wire) : wire'[i] = wire[i]
    BY <1>1, PutLast DEF Send
  <2>2. CASE o = m
    <3>1. o \notin Initializes
      BY Kinds
    <3>2. \E i \in Initializes : Granted(i)
      BY <2>1, <2>2, <3>1 DEF MaySend, Initialized, Granted
    <3> QED
      BY <1>0, <2>1, <2>2, <3>2 DEF RunInv
  <2>3. CASE o \in sent
    BY <1>0, <2>1, <2>3 DEF OpenInv
  <2> QED
    BY <2>1, <2>2, <2>3
<1>2. ASSUME NEW S, Take(S), UNCHANGED <<orderly, sent>>, docs \subseteq docs', st' = st,
             Head(wire) = o /\ st # "new" => o \in docs'
      PROVE  Kept
  <2>1. /\ Head(wire) = wire[1] /\ Len(wire) \in Nat \ {0} /\ Len(wire') = Len(wire) - 1
        /\ \A i \in 1 .. Len(wire') : wire'[i] = wire[i + 1]
    BY <1>2, TakeHead
  <2>2. st # "new" /\ (o \in docs \/ \E i \in 1 .. Len(wire) : wire[i] = o)
    BY <1>2 DEF OpenInv
  <2>3. ASSUME NEW i \in 1 .. Len(wire), wire[i] = o, i # 1 PROVE Kept
    <3>1. i - 1 \in 1 .. Len(wire') /\ wire'[i - 1] = o
      BY <2>1, <2>3
    <3> QED
      BY <1>2, <2>2, <3>1
  <2> QED
    BY <1>2, <2>1, <2>2, <2>3
<1>3. CASE ReadOpen
  <2>1. docs \subseteq docs' /\ (Head(wire) = o /\ st # "new" => o \in docs')
    BY <1>3 DEF ReadOpen
  <2> QED
    BY <1>2, <1>3, <2>1 DEF ReadOpen, clientVars, sessionVars
<1>4. CASE ReadRequest \/ ReadExit
  <2>1. Take(Requests) \/ Take({"exit"})
    BY <1>4 DEF ReadRequest, ReadExit
  <2>2. Head(wire) # o
    BY <2>1, Kinds, TakeHead
  <2> QED
    BY <1>2, <1>4, <2>1, <2>2 DEF ReadRequest, ReadExit, clientVars, sessionVars
<1>5. CASE UNCHANGED <<orderly, sent, wire, docs>>
  BY <1>0, <1>5 DEF OpenInv
<1>6. ASSUME NEW r \in Requests, Handle(r) PROVE Kept
  BY <1>5, <1>6, HandleFrame
<1> QED
  BY <1>1, <1>3, <1>4, <1>5, <1>6 DEF Next, vars, HangUp, Lose, NoticeExit, NoticeEnd, Mark,
     Return, MainTo, Stop, clientVars

\* The state becomes "shutdown" with the grant of that request only, and the
\* verdict of 0 with an exit that finds it so.
LEMMA ExitStep == TypeOK /\ WireInv /\ ExitInv /\ [Next]_vars => ExitInv'
<1> SUFFICES ASSUME TypeOK, WireInv, ExitInv, [Next]_vars PROVE ExitInv'
  OBVIOUS
<1>0. Granted("shutdown") => Granted("shutdown")'
  BY Kinds, GrantsStay
<1>1. ASSUME NEW r \in Requests, Handle(r) PROVE ExitInv'
  <2>1. UNCHANGED <<exitCode, exited, main, code>>
    BY <1>1, HandleFrame
  <2>2. st' = "shutdown" => Granted("shutdown")'
    <3>1. CASE st' = st
      BY <1>0, <3>1 DEF ExitInv
    <3>2. CASE gpc[r] = "act" /\ r \in Initializes /\ saw[r] = "new" /\ Become(r, "running")
      BY <3>2 DEF Become
    <3>3. CASE gpc[r] = "act" /\ r = "shutdown" /\ saw[r] # "new" /\ Become(r, "shutdown")
      BY <3>3 DEF TypeOK, Become, Granted
    <3> QED
      BY <1>1, <3>1, <3>2, <3>3, HandleCases DEF Enter, Reply, sessionVars
  <2> QED
    BY <1>0, <2>1, <2>2 DEF ExitInv
<1>2. CASE ReadExit
  <2>1. /\ exitCode' = 0 => st = "shutdown"
        /\ exited' = TRUE /\ UNCHANGED <<st, main, code>>
    BY <1>2 DEF ReadExit, serveVars
  <2> QED
    BY <1>0, <2>1 DEF ExitInv
<1>3. CASE NoticeExit \/ NoticeEnd \/ Mark \/ Return
  <2>1. UNCHANGED <<st, exited, gpc, reply>>
    BY <1>3 DEF NoticeExit, NoticeEnd, Mark, Return, MainTo, requestVars
  <2> QED
    BY <1>0, <1>3, <2>1 DEF ExitInv, NoticeExit, NoticeEnd, Mark, Return, MainTo
<1>4. CASE UNCHANGED <<st, exitCode, exited, main, code>>
  BY <1>0, <1>4 DEF ExitInv
<1> QED
  BY <1>1, <1>2, <1>3, <1>4 DEF Next, vars, Send, HangUp, ReadRequest, ReadOpen, Lose, Stop,
     sessionVars, serveVars

-----------------------------------------------------------------------------
(* The theorems.                                                           *)

\* The inductive invariant holds in every reachable state of a session.
THEOREM Invariance == Spec => []IInv
<1>1. IInv /\ [Next]_vars => IInv'
  BY TypeStep, WireStep, RunStep, OpenStep, ExitStep DEF IInv
<1> QED
  BY <1>1, InitIInv, PTL DEF Spec

\* Every variable keeps its type, and a goroutine that is done has answered.
THEOREM TypeCorrect == Spec => []TypeOK
<1>1. IInv => TypeOK
  BY DEF IInv
<1> QED
  BY <1>1, Invariance, PTL

\* The handler behind the session (Options.Handler) is only reached after
\* initialize has taken effect.
THEOREM HandlerAfterInitialize == Spec => []AskedOnlyWhenInitialized
<1>1. IInv => AskedOnlyWhenInitialized
  BY DEF IInv, RunInv, AskedOnlyWhenInitialized, Granted
<1> QED
  BY <1>1, Invariance, PTL

\* No document of a client that waits for initialize is dropped.
THEOREM OrderlyClientKeepsDocuments == Spec => []OrderlyOpensKept
<1>1. IInv => OrderlyOpensKept
  BY DEF IInv, OpenInv, OrderlyOpensKept
<1> QED
  BY <1>1, Invariance, PTL

\* Serve returns 0 only for an exit that was handled after shutdown.
THEOREM ZeroMeansShutdown == Spec => []ZeroOnlyAfterShutdown
<1>1. IInv => ZeroOnlyAfterShutdown
  BY DEF IInv, ExitInv, ZeroOnlyAfterShutdown
<1> QED
  BY <1>1, Invariance, PTL
=============================================================================
