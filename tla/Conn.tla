-------------------------------- MODULE Conn --------------------------------
(***************************************************************************)
(* pkg/jsonrpc: two Conns, one at each end of a framed stream, as the      *)
(* broker and a language server use them.  Each end runs a read loop, the  *)
(* callers of Call and Notify, and one goroutine per inbound request.      *)
(*                                                                         *)
(* A frame is written or read as a whole; the pipe of a direction holds at *)
(* most Capacity frames, and a writer waits while it is full.  A call is   *)
(* its own request identifier: Conn.seq never repeats one.                 *)
(***************************************************************************)
EXTENDS Naturals, Sequences, FiniteSets

CONSTANTS
  Calls,      \* requests
  Notes,      \* notifications
  From,       \* the end that sends each of them
  Echoed,     \* notifications whose handler itself sends one before it returns
  Impatient,  \* calls whose context may end before they return
  Quitters,   \* ends whose owner may call Close
  MaxBegun,   \* bound: calls and notifications begun
  Capacity    \* frames a pipe holds

Ends == {"client", "server"}

ASSUME ConnAssumption ==
  /\ Calls \cap Notes = {}
  /\ From \in [Calls \cup Notes -> Ends]
  /\ Echoed \subseteq Notes
  /\ Impatient \subseteq Calls
  /\ Quitters \subseteq Ends
  /\ MaxBegun \in Nat
  /\ Capacity \in Nat \ {0}

Other(e) == IF e = "client" THEN "server" ELSE "client"
To(x)    == Other(From[x])

VARIABLES
  wire,     \* frames on their way to each end
  closed,   \* c.closed; with it c.done is closed and c.baseCtx canceled
  cause,    \* c.closeErr
  closing,  \* Close was called: it will close the stream
  cut,      \* this end has closed the stream
  lpc,      \* where each read loop is
  frame,    \* the frame it is handling
  cpc,      \* where each Call is
  pending,  \* c.pending of both ends: calls that wait for a response
  box,      \* the channel of each call: its response, once delivered
  gaveUp,   \* the call's context is done
  result,   \* what it returned
  kpc,      \* the goroutine that sends its $/cancelRequest
  hpc,      \* the goroutine that serves it at the other end
  inflight, \* c.inflight of both ends: requests that can be canceled
  hcancel,  \* the context of its handler was canceled by the peer
  reply,    \* the response its handler came to
  npc,      \* where each Notify is
  written,  \* history: notifications in the order they were written to each end
  seen,     \* history: notifications each end has finished handling
  before    \* history: notifications written to an end before each request

streamVars  == <<wire, closed, cause, closing, cut>>
loopVars    == <<lpc, frame>>
callVars    == <<cpc, pending, box, gaveUp, result, kpc>>
handlerVars == <<hpc, inflight, hcancel, reply>>
noteVars    == <<npc, written, seen, before>>
vars == <<streamVars, loopVars, callVars, handlerVars, noteVars>>

Answers == {"ok", "cancelled"}
Causes  == {"ErrClosed", "EOF"}
Frames  ==
  [kind : {"request", "cancel"} \cup Answers, of : Calls]
    \cup [kind : {"note", "echo"}, of : Notes]
NoFrame == [kind |-> "none", of |-> {}]

F(kind, x) == [kind |-> kind, of |-> x]

Init ==
  /\ wire = [e \in Ends |-> <<>>]
  /\ closed = [e \in Ends |-> FALSE]
  /\ cause = [e \in Ends |-> "none"]
  /\ closing = [e \in Ends |-> FALSE]
  /\ cut = [e \in Ends |-> FALSE]
  /\ lpc = [e \in Ends |-> "read"]
  /\ frame = [e \in Ends |-> NoFrame]
  /\ cpc = [c \in Calls |-> "idle"]
  /\ pending = {}
  /\ box = [c \in Calls |-> "none"]
  /\ gaveUp = [c \in Calls |-> FALSE]
  /\ result = [c \in Calls |-> "none"]
  /\ kpc = [c \in Calls |-> "none"]
  /\ hpc = [c \in Calls |-> "none"]
  /\ inflight = {}
  /\ hcancel = [c \in Calls |-> FALSE]
  /\ reply = [c \in Calls |-> "none"]
  /\ npc = [n \in Notes |-> "idle"]
  /\ written = [e \in Ends |-> <<>>]
  /\ seen = [e \in Ends |-> <<>>]
  /\ before = [c \in Calls |-> 0]

-----------------------------------------------------------------------------
(* The stream.                                                             *)

Broken(e) == cut[e] \/ cut[Other(e)]

\* writeMessage by end e: it succeeds when the pipe has room, fails when either
\* end has closed the stream, and waits otherwise.
Write(e, f) ==
  /\ ~Broken(e) /\ Len(wire[Other(e)]) < Capacity
  /\ wire' = [wire EXCEPT ![Other(e)] = Append(@, f)]
WriteFails(e) == Broken(e) /\ UNCHANGED wire

\* Variant: the connection is marked closed, the error is not kept.
FailSilently(e, why) ==
  closed' = [closed EXCEPT ![e] = TRUE] /\ UNCHANGED cause

\* fail(err): the first cause stays.
FailWith(e, why) ==
  /\ closed' = [closed EXCEPT ![e] = TRUE]
  /\ cause' = IF closed[e] THEN cause ELSE [cause EXCEPT ![e] = why]

Close(e) ==
  /\ e \in Quitters /\ ~closing[e]
  /\ closing' = [closing EXCEPT ![e] = TRUE]
  /\ FailWith(e, "ErrClosed")
  /\ UNCHANGED <<wire, cut, loopVars, callVars, handlerVars, noteVars>>

CloseStream(e) ==
  /\ closing[e] /\ ~cut[e]
  /\ cut' = [cut EXCEPT ![e] = TRUE]
  /\ UNCHANGED <<wire, closed, cause, closing, loopVars, callVars, handlerVars, noteVars>>

-----------------------------------------------------------------------------
(* Call and Notify.                                                        *)

CallTo(c, to) == cpc' = [cpc EXCEPT ![c] = to]
Settle(c, r)  == CallTo(c, "unregister") /\ result' = [result EXCEPT ![c] = r]

\* The check of c.closed and the entry in c.pending are one critical section.
Register(c) ==
  /\ cpc[c] = "idle"
  /\ IF closed[From[c]]
       THEN /\ CallTo(c, "done") /\ result' = [result EXCEPT ![c] = cause[From[c]]]
            /\ UNCHANGED pending
       ELSE CallTo(c, "write") /\ pending' = pending \cup {c} /\ UNCHANGED result
  /\ UNCHANGED <<streamVars, loopVars, box, gaveUp, kpc, handlerVars, noteVars>>

SendRequest(c) ==
  /\ cpc[c] = "write"
  /\ \/ /\ Write(From[c], F("request", c)) /\ CallTo(c, "wait")
        /\ before' = [before EXCEPT ![c] = Len(written[To(c)])]
        /\ UNCHANGED result
     \/ WriteFails(From[c]) /\ Settle(c, "writeError") /\ UNCHANGED before
  /\ UNCHANGED <<closed, cause, closing, cut, loopVars, pending, box, gaveUp, kpc,
                 handlerVars, npc, written, seen>>

\* The select takes any case that is ready.
ReturnAnswer(c) ==
  /\ cpc[c] = "wait" /\ box[c] # "none"
  /\ Settle(c, box[c])
  /\ box' = [box EXCEPT ![c] = "none"]
  /\ UNCHANGED <<streamVars, loopVars, pending, gaveUp, kpc, handlerVars, noteVars>>

\* Variant: the caller keeps waiting for the response to its canceled request.
ReturnWithdrawnLater(c) ==
  /\ cpc[c] = "wait" /\ gaveUp[c] /\ kpc[c] = "none"
  /\ kpc' = [kpc EXCEPT ![c] = "write"]
  /\ UNCHANGED <<streamVars, loopVars, cpc, pending, box, gaveUp, result, handlerVars, noteVars>>

ReturnWithdrawn(c) ==
  /\ cpc[c] = "wait" /\ gaveUp[c]
  /\ Settle(c, "withdrawn")
  /\ kpc' = [kpc EXCEPT ![c] = "write"]
  /\ UNCHANGED <<streamVars, loopVars, pending, box, gaveUp, handlerVars, noteVars>>

\* Variant: the select has no case for c.done.
ReturnClosedNever(c) == FALSE

ReturnClosed(c) ==
  /\ cpc[c] = "wait" /\ closed[From[c]]
  /\ Settle(c, cause[From[c]])
  /\ UNCHANGED <<streamVars, loopVars, pending, box, gaveUp, kpc, handlerVars, noteVars>>

\* The deferred delete.
Unregister(c) ==
  /\ cpc[c] = "unregister"
  /\ CallTo(c, "done") /\ pending' = pending \ {c}
  /\ UNCHANGED <<streamVars, loopVars, box, gaveUp, result, kpc, handlerVars, noteVars>>

\* Best effort, off the caller's path.
SendCancel(c) ==
  /\ kpc[c] = "write"
  /\ Write(From[c], F("cancel", c)) \/ WriteFails(From[c])
  /\ kpc' = [kpc EXCEPT ![c] = "done"]
  /\ UNCHANGED <<closed, cause, closing, cut, loopVars, cpc, pending, box, gaveUp,
                 result, handlerVars, noteVars>>

\* The caller's context ends, at any time.
GiveUp(c) ==
  /\ c \in Impatient /\ ~gaveUp[c] /\ cpc[c] \in {"write", "wait"}
  /\ gaveUp' = [gaveUp EXCEPT ![c] = TRUE]
  /\ UNCHANGED <<streamVars, loopVars, cpc, pending, box, result, kpc, handlerVars, noteVars>>

\* Notify looks at nothing but the stream.
Notify(n) ==
  /\ npc[n] = "idle"
  /\ \/ /\ Write(From[n], F("note", n))
        /\ written' = [written EXCEPT ![To(n)] = Append(@, n)]
     \/ WriteFails(From[n]) /\ UNCHANGED written
  /\ npc' = [npc EXCEPT ![n] = "done"]
  /\ UNCHANGED <<closed, cause, closing, cut, loopVars, callVars, handlerVars, seen, before>>

-----------------------------------------------------------------------------
(* The read loop.                                                          *)

\* Variant: notifications are handled on a goroutine, the loop reads on.
TakeOn(e, kinds) ==
  /\ lpc[e] \in {"read", "echo"} /\ wire[e] # <<>>
  /\ Head(wire[e]).kind \in kinds
  /\ wire' = [wire EXCEPT ![e] = Tail(@)]

Take(e, kinds) ==
  /\ lpc[e] = "read" /\ wire[e] # <<>>
  /\ Head(wire[e]).kind \in kinds
  /\ wire' = [wire EXCEPT ![e] = Tail(@)]

\* The call or notification the next frame is about.
Subject(e) == Head(wire[e]).of

\* The loop goes on to handle the frame, or has handled it.
Hold(e, pc) == lpc' = [lpc EXCEPT ![e] = pc] /\ frame' = [frame EXCEPT ![e] = Head(wire[e])]
LetGo(e)    == lpc' = [lpc EXCEPT ![e] = "read"] /\ frame' = [frame EXCEPT ![e] = NoFrame]

\* deliver looks the channel up under c.mu and sends outside it; a response to
\* nobody is dropped.
ReadResponse(e) ==
  /\ Take(e, Answers)
  /\ IF Subject(e) \in pending THEN Hold(e, "deliver") ELSE UNCHANGED loopVars
  /\ UNCHANGED <<closed, cause, closing, cut, callVars, handlerVars, noteVars>>

\* Variant: the channel has no buffer.
DeliverUnbuffered(e) ==
  /\ lpc[e] = "deliver" /\ box[frame[e].of] = "none" /\ cpc[frame[e].of] = "wait"
  /\ box' = [box EXCEPT ![frame[e].of] = frame[e].kind]
  /\ LetGo(e)
  /\ UNCHANGED <<streamVars, cpc, pending, gaveUp, result, kpc, handlerVars, noteVars>>

\* The send on the channel, which has room for one.
Deliver(e) ==
  /\ lpc[e] = "deliver" /\ box[frame[e].of] = "none"
  /\ box' = [box EXCEPT ![frame[e].of] = frame[e].kind]
  /\ LetGo(e)
  /\ UNCHANGED <<streamVars, cpc, pending, gaveUp, result, kpc, handlerVars, noteVars>>

\* Variant: the new goroutine, not the loop, makes the entry in c.inflight.
ReadRequestUnregistered(e) ==
  /\ Take(e, {"request"})
  /\ hpc' = [hpc EXCEPT ![Subject(e)] = "run"]
  /\ UNCHANGED <<closed, cause, closing, cut, loopVars, callVars, inflight, hcancel,
                 reply, noteVars>>

\* The entry is made before the next frame is read; the handler gets a goroutine
\* of its own.
ReadRequest(e) ==
  /\ Take(e, {"request"})
  /\ inflight' = inflight \cup {Subject(e)}
  /\ hpc' = [hpc EXCEPT ![Subject(e)] = "run"]
  /\ UNCHANGED <<closed, cause, closing, cut, loopVars, callVars, hcancel, reply, noteVars>>

ReadCancel(e) ==
  /\ Take(e, {"cancel"})
  /\ hcancel' = [hcancel EXCEPT ![Subject(e)] = Subject(e) \in inflight]
  /\ UNCHANGED <<closed, cause, closing, cut, loopVars, callVars, hpc, inflight, reply, noteVars>>

Handled(e, n) == seen' = [seen EXCEPT ![e] = Append(@, n)]

\* A notification's handler runs on the loop.
ReadNote(e) ==
  /\ Take(e, {"note"})
  /\ IF Subject(e) \in Echoed THEN Hold(e, "echo") /\ UNCHANGED seen
                            ELSE Handled(e, Subject(e)) /\ UNCHANGED loopVars
  /\ UNCHANGED <<closed, cause, closing, cut, callVars, handlerVars, npc, written, before>>

\* The handler's own Notify, then its return.
SendEcho(e) ==
  /\ lpc[e] = "echo"
  /\ Write(e, F("echo", frame[e].of)) \/ WriteFails(e)
  /\ Handled(e, frame[e].of) /\ LetGo(e)
  /\ UNCHANGED <<closed, cause, closing, cut, callVars, handlerVars, npc, written, before>>

\* A handler that does nothing with it.
ReadEcho(e) ==
  /\ Take(e, {"echo"})
  /\ UNCHANGED <<closed, cause, closing, cut, loopVars, callVars, handlerVars, noteVars>>

\* readFrame fails: this end closed the stream (what bufio holds may still be
\* read), or the other did and everything it wrote has been read.
ReadEnd(e) ==
  /\ lpc[e] = "read"
  /\ cut[e] \/ (cut[Other(e)] /\ wire[e] = <<>>)
  /\ FailWith(e, "EOF")
  /\ lpc' = [lpc EXCEPT ![e] = "over"]
  /\ UNCHANGED <<wire, closing, cut, frame, callVars, handlerVars, noteVars>>

-----------------------------------------------------------------------------
(* serveRequest, on its goroutine.                                         *)

\* The handler returns; whether the request was canceled is looked at once.
HandlerReturns(c) ==
  /\ hpc[c] = "run"
  /\ reply' = [reply EXCEPT ![c] = IF hcancel[c] /\ ~closed[To(c)] THEN "cancelled" ELSE "ok"]
  /\ hpc' = [hpc EXCEPT ![c] = "reply"]
  /\ UNCHANGED <<streamVars, loopVars, callVars, inflight, hcancel, noteVars>>

\* Variant: a canceled request is answered again.
SendReplyTwice(c) ==
  /\ hpc[c] = "reply"
  /\ Write(To(c), F(reply[c], c)) \/ WriteFails(To(c))
  /\ hpc' = [hpc EXCEPT ![c] = IF hcancel[c] THEN "reply" ELSE "release"]
  /\ UNCHANGED <<closed, cause, closing, cut, loopVars, callVars, inflight, hcancel,
                 reply, noteVars>>

SendReply(c) ==
  /\ hpc[c] = "reply"
  /\ Write(To(c), F(reply[c], c)) \/ WriteFails(To(c))
  /\ hpc' = [hpc EXCEPT ![c] = "release"]
  /\ UNCHANGED <<closed, cause, closing, cut, loopVars, callVars, inflight, hcancel,
                 reply, noteVars>>

Release(c) ==
  /\ hpc[c] = "release"
  /\ hpc' = [hpc EXCEPT ![c] = "done"] /\ inflight' = inflight \ {c}
  /\ UNCHANGED <<streamVars, loopVars, callVars, hcancel, reply, noteVars>>

-----------------------------------------------------------------------------
CallStep(c) ==
  \/ SendRequest(c)
  \/ ReturnAnswer(c) \/ ReturnWithdrawn(c) \/ ReturnClosed(c)
  \/ Unregister(c)

ServeStep(c) == HandlerReturns(c) \/ SendReply(c) \/ Release(c)

LoopStep(e) ==
  \/ ReadResponse(e) \/ Deliver(e)
  \/ ReadRequest(e) \/ ReadCancel(e)
  \/ ReadNote(e) \/ SendEcho(e) \/ ReadEcho(e)
  \/ ReadEnd(e)

\* What some goroutine is about to do; the rest is up to the callers.
Run ==
  \/ \E c \in Calls : CallStep(c) \/ SendCancel(c) \/ ServeStep(c)
  \/ \E e \in Ends : LoopStep(e) \/ CloseStream(e)

Begun == {c \in Calls : cpc[c] # "idle"} \cup {n \in Notes : npc[n] # "idle"}

Ask ==
  \/ /\ Cardinality(Begun) < MaxBegun
     /\ (\E c \in Calls : Register(c)) \/ (\E n \in Notes : Notify(n))
  \/ \E c \in Calls : GiveUp(c)
  \/ \E e \in Ends : Close(e)

Next == Run \/ Ask

Spec == Init /\ [][Next]_vars

(***************************************************************************)
(* Fairness.  The program does not stop while one of its goroutines can go *)
(* on: handlers return and a writer that finds room writes.  No more is    *)
(* needed, because every goroutine takes finitely many steps, so none can  *)
(* hold another up by running for ever.  No call has to be made, withdrawn *)
(* or closed.                                                              *)
(***************************************************************************)
FairSpec == Spec /\ WF_vars(Run)

-----------------------------------------------------------------------------
(* What must hold.                                                         *)

TypeOK ==
  /\ wire \in [Ends -> Seq(Frames)]
  /\ \A e \in Ends : Len(wire[e]) <= Capacity
  /\ closed \in [Ends -> BOOLEAN]
  /\ cause \in [Ends -> {"none"} \cup Causes]
  /\ \A e \in Ends : closed[e] <=> cause[e] # "none"
  /\ closing \in [Ends -> BOOLEAN]
  /\ cut \in [Ends -> BOOLEAN]
  /\ lpc \in [Ends -> {"read", "deliver", "echo", "over"}]
  /\ frame \in [Ends -> Frames \cup {NoFrame}]
  /\ cpc \in [Calls -> {"idle", "write", "wait", "unregister", "done"}]
  /\ pending \subseteq Calls
  /\ box \in [Calls -> {"none"} \cup Answers]
  /\ gaveUp \in [Calls -> BOOLEAN]
  /\ result \in [Calls -> {"none", "writeError", "withdrawn"} \cup Answers \cup Causes]
  /\ kpc \in [Calls -> {"none", "write", "done"}]
  /\ hpc \in [Calls -> {"none", "run", "reply", "release", "done"}]
  /\ inflight \subseteq Calls
  /\ hcancel \in [Calls -> BOOLEAN]
  /\ reply \in [Calls -> {"none"} \cup Answers]
  /\ npc \in [Notes -> {"idle", "done"}]
  /\ written \in [Ends -> Seq(Notes)]
  /\ seen \in [Ends -> Seq(Notes)]
  /\ before \in [Calls -> Nat]

\* The send in deliver finds room (conn.go: buffered (cap 1); never blocks): a
\* second response to one call would stop the read loop, and with it every call.
DeliverNeverBlocks ==
  \A e \in Ends : lpc[e] = "deliver" => box[frame[e].of] = "none"

\* Notifications run on the read loop, so they are observed in wire order
\* (handleInbound), and a request is served after every notification written
\* before it has been handled to the end.
WireOrder ==
  /\ \A e \in Ends : seen[e] = SubSeq(written[e], 1, Len(seen[e]))
  /\ \A c \in Calls : hpc[c] # "none" => before[c] <= Len(seen[To(c)])

\* A handler is canceled only for a caller that has gone: nobody gets the
\* request-cancelled error, and no request is canceled for another's sake.
OnlyWithdrawnAreCanceled ==
  \A c \in Calls :
    /\ hcancel[c] => result[c] = "withdrawn"
    /\ result[c] # "cancelled"

\* A $/cancelRequest that is read reaches its handler, unless that has returned:
\* it cannot overtake the request, and the request is registered before the next
\* frame is read.
CancelNotLost ==
  [][\A e \in Ends, c \in Calls :
       wire[e] # <<>> /\ Head(wire[e]) = F("cancel", c) /\ wire'[e] = Tail(wire[e])
         => hcancel'[c] \/ hpc[c] = "done"]_vars

\* What the users of the connection see of a call, at its two ends.
CallPhase(c) ==
  CASE cpc[c] \in {"idle", "write"} -> "unsent"
    [] cpc[c] = "wait" -> "open"
    [] OTHER -> "returned"

ServicePhase(c) ==
  IF hpc[c] \in {"none", "run"} THEN hpc[c] ELSE "over"

Users == INSTANCE Rpc WITH
           Dest <- [x \in Calls \cup Notes |-> To(x)],
           call <- [c \in Calls |-> CallPhase(c)],
           service <- [c \in Calls |-> ServicePhase(c)],
           stopped <- hcancel, handled <- seen,
           closers <- {e \in Ends : closing[e]}

\* Every behaviour of the two connections is one that Rpc allows: each request is
\* served at most once and behind the notifications before it, its caller gets its own
\* handler's reply, nobody's handler is stopped for another's sake, and calls fail only
\* when an owner has closed.
RpcSpec == Users!Spec

\* Call returns, although pipes fill up, callers give up, handlers send
\* notifications of their own and either end closes at any moment.
CallReturns == \A c \in Calls : cpc[c] = "write" ~> cpc[c] = "done"

\* Close terminates the read loop (the comment of Close).
LoopEnds == \A e \in Ends : closing[e] ~> lpc[e] = "over"

=============================================================================
