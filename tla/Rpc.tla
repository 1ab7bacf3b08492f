--------------------------------- MODULE Rpc ---------------------------------
(***************************************************************************)
(* What two Conns promise those who call and those who handle              *)
(* (pkg/jsonrpc, the comments of Call, Close and handleInbound), without   *)
(* frames, pipes, read loops, channels or cancellation messages.           *)
(*                                                                         *)
(* A request is served once, after the notifications written before it,    *)
(* and its caller gets what its own handler came to.  A handler is stopped *)
(* only for a caller that has gone, and a call fails only once an owner    *)
(* has closed.                                                             *)
(***************************************************************************)
EXTENDS Naturals, Sequences

CONSTANTS
  Calls, Notes, Ends,
  From,      \* the end that sends each request and notification
  Dest,      \* the end that it goes to
  Impatient  \* calls that may be withdrawn

VARIABLES
  call,     \* at its caller: not sent, open or returned
  result,   \* what it returned
  service,  \* at its handler: not begun, running or over
  stopped,  \* the handler's context was canceled by the peer
  reply,    \* what the handler came to
  written,  \* notifications written to each end
  handled,  \* those that it has handled
  before,   \* how many were written before each request
  closers   \* ends whose owner has closed

vars == <<call, result, service, stopped, reply, written, handled, before, closers>>

Init ==
  /\ call = [c \in Calls |-> "unsent"]
  /\ result = [c \in Calls |-> "none"]
  /\ service = [c \in Calls |-> "none"]
  /\ stopped = [c \in Calls |-> FALSE]
  /\ reply = [c \in Calls |-> "none"]
  /\ written = [e \in Ends |-> <<>>]
  /\ handled = [e \in Ends |-> <<>>]
  /\ before = [c \in Calls |-> 0]
  /\ closers = {}

callVars    == <<call, result>>
serviceVars == <<service, stopped, reply>>
noteVars    == <<written, handled>>

Send(c) ==
  /\ call[c] = "unsent"
  /\ call' = [call EXCEPT ![c] = "open"]
  /\ before' = [before EXCEPT ![c] = Len(written[Dest[c]])]
  /\ UNCHANGED <<result, serviceVars, noteVars, closers>>

\* A request is served once, and not before what was written before it.
Serve(c) ==
  /\ call[c] # "unsent" /\ result[c] # "writeError"
  /\ service[c] = "none" /\ before[c] <= Len(handled[Dest[c]])
  /\ service' = [service EXCEPT ![c] = "run"]
  /\ UNCHANGED <<callVars, stopped, reply, noteVars, before, closers>>

Stop(c) ==
  /\ result[c] = "withdrawn" /\ service[c] # "none" /\ ~stopped[c]
  /\ stopped' = [stopped EXCEPT ![c] = TRUE]
  /\ UNCHANGED <<callVars, service, reply, noteVars, before, closers>>

\* A canceled request is answered as such, unless the connection goes down as well.
Finish(c) ==
  /\ service[c] = "run" /\ service' = [service EXCEPT ![c] = "over"]
  /\ \E r \in {"ok", "cancelled"} :
       /\ r = "cancelled" => stopped[c]
       /\ r = "ok" => ~stopped[c] \/ closers # {}
       /\ reply' = [reply EXCEPT ![c] = r]
  /\ UNCHANGED <<callVars, stopped, noteVars, before, closers>>

Return(c, r) ==
  /\ call' = [call EXCEPT ![c] = "returned"] /\ result' = [result EXCEPT ![c] = r]
  /\ UNCHANGED <<serviceVars, noteVars, before, closers>>

Answer(c)   == call[c] = "open" /\ service[c] = "over" /\ Return(c, reply[c])
Withdraw(c) == call[c] = "open" /\ c \in Impatient /\ Return(c, "withdrawn")

\* ErrClosed is for those whose own end was closed.
Fail(c) ==
  /\ call[c] \in {"unsent", "open"} /\ closers # {}
  /\ \/ From[c] \in closers /\ Return(c, "ErrClosed")
     \/ Return(c, "EOF")
     \/ call[c] = "unsent" /\ Return(c, "writeError")

Notify(n) ==
  /\ \A i \in 1 .. Len(written[Dest[n]]) : written[Dest[n]][i] # n
  /\ written' = [written EXCEPT ![Dest[n]] = Append(@, n)]
  /\ UNCHANGED <<callVars, serviceVars, handled, before, closers>>

\* Notifications are handled one by one in the order they were written.
Handle(e) ==
  /\ Len(handled[e]) < Len(written[e])
  /\ handled' = [handled EXCEPT ![e] = Append(@, written[e][Len(@) + 1])]
  /\ UNCHANGED <<callVars, serviceVars, written, before, closers>>

Close(e) ==
  /\ closers' = closers \cup {e}
  /\ UNCHANGED <<callVars, serviceVars, noteVars, before>>

CallStep(c) == Send(c) \/ Answer(c) \/ Withdraw(c) \/ Fail(c)
ServeStep(c) == Serve(c) \/ Stop(c) \/ Finish(c)

Next ==
  \/ \E c \in Calls : CallStep(c) \/ ServeStep(c)
  \/ \E n \in Notes : Notify(n)
  \/ \E e \in Ends : Handle(e) \/ Close(e)

Spec == Init /\ [][Next]_vars

=============================================================================
