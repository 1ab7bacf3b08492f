---------------------------- MODULE DaemonProofs ----------------------------
(* Theorems about Daemon, for any daemons, clients and number of processes *)
(* that run at one time.                                                   *)
EXTENDS Daemon, TLAPS

-----------------------------------------------------------------------------
(* The inductive invariant, in named parts.                                *)

Running(d) == pc[d] \notin {"off", "over"}

\* The listener of a daemon that accepts was closed by its own stop only.
ListenerInv ==
  /\ \A d \in Daemons : pc[d] = "accept" /\ d \notin canceled => d \in listening
  /\ \A c \in Clients : conn[c] # "none" => to[c] \in Daemons

\* Two daemons run together only while the younger still looks at the path: from
\* bind on a daemon is alone.
PairInv ==
  \A d, e \in Daemons : d # e /\ Running(d) /\ Running(e) =>
    \/ pc[d] \in {"probe", "remove"} /\ pc[e] \in Serving \cup Ending
    \/ pc[e] \in {"probe", "remove"} /\ pc[d] \in Serving \cup Ending

\* What the younger one may still find there, and what it may no longer take away.
PathInv ==
  /\ \A d \in Daemons :
       /\ d \in listening /\ pc[d] = "accept" /\ d \notin canceled => path = d
       /\ pc[d] = "listen" => path = d
  /\ \A d, e \in Daemons : d # e /\ pc[d] \in {"probe", "remove"} /\ Running(e) =>
       path = None \/ (pc[d] = "probe" /\ path = e /\ e \in listening)

IInv == TypeOK /\ ListenerInv /\ (lone => PairInv /\ PathInv)

-----------------------------------------------------------------------------
(* The initial states.                                                     *)

\* No daemon runs, whatever stands at the path.
LEMMA InitIInv == Init => IInv
BY DaemonAssumption DEF DaemonAssumption, Init, IInv, TypeOK, ListenerInv, PairInv, PathInv,
   Running, Starting, Serving, Ending, Methods

-----------------------------------------------------------------------------
(* Every step keeps the types, and a connection keeps its daemon.          *)

\* What the end of a process does to the variables.
LEMMA EndTypes ==
  ASSUME TypeOK, ListenerInv, NEW d \in Daemons, EndOf(d), path' \in {None, path}
  PROVE  TypeOK' /\ ListenerInv'
BY DaemonAssumption DEF DaemonAssumption, EndOf, CloseAll, Goto, Mine, TypeOK, ListenerInv,
   Starting, Serving, Ending, Methods

\* The types, after the steps of a daemon's main.
LEMMA MainTypes ==
  ASSUME TypeOK, ListenerInv, NEW d \in Daemons,
         MainStep(d) \/ Stat(d) \/ Signal(d) \/ AcceptFails(d) \/ Crash(d)
  PROVE  TypeOK' /\ ListenerInv'
<1> USE DaemonAssumption DEF DaemonAssumption, TypeOK, ListenerInv, Goto, Mine, CloseAll,
        Starting, Serving, Ending, Methods, pathVars, stopVars, clientVars
<1>1. CASE Probe(d)
  BY <1>1 DEF Probe
<1>2. CASE RemoveStale(d)
  BY <1>2 DEF RemoveStale
<1>3. CASE Bind(d)
  BY <1>3 DEF Bind
<1>4. CASE OpenListener(d)
  BY <1>4 DEF OpenListener
<1>5. CASE CallStop(d)
  BY <1>5 DEF CallStop
<1>6. CASE CloseListener(d)
  BY <1>6 DEF CloseListener
<1>7. CASE ServeReturns(d)
  BY <1>7 DEF ServeReturns
<1>8. CASE SessionsDown(d)
  BY <1>8 DEF SessionsDown
<1>9. CASE Cleanup(d)
  BY <1>9, EndTypes DEF Cleanup
<1>10. CASE Stat(d)
  BY <1>10 DEF Stat
<1>11. CASE Signal(d)
  BY <1>11 DEF Signal
<1>12. CASE AcceptFails(d)
  BY <1>12 DEF AcceptFails
<1>13. CASE Crash(d)
  BY <1>13, EndTypes DEF Crash
<1> QED
  BY <1>1, <1>2, <1>3, <1>4, <1>5, <1>6, <1>7, <1>8, <1>9, <1>10, <1>11, <1>12, <1>13
     DEF MainStep

\* The types, after the steps of clients and signals.
LEMMA ClientTypes ==
  ASSUME TypeOK, ListenerInv, NEW c \in Clients,
         ClientStep(c) \/ (\E m \in Methods : Dial(c, m)) \/ HangUp(c)
  PROVE  TypeOK' /\ ListenerInv' /\ UNCHANGED <<pathVars, canceled>>
<1> USE DaemonAssumption DEF DaemonAssumption, TypeOK, ListenerInv, CloseAll,
        Starting, Serving, Ending, Methods, pathVars, stopVars, clientVars
<1>1. CASE Accept(c)
  BY <1>1 DEF Accept
<1>2. CASE CloseConn(c)
  BY <1>2 DEF CloseConn
<1>3. CASE Handle(c)
  BY <1>3 DEF Handle
<1>4. CASE QueryDone(c)
  BY <1>4 DEF QueryDone
<1>5. CASE Reply(c)
  BY <1>5 DEF Reply
<1>6. CASE \E m \in Methods : Dial(c, m)
  BY <1>6 DEF Dial
<1>7. CASE HangUp(c)
  BY <1>7 DEF HangUp
<1> QED
  BY <1>1, <1>2, <1>3, <1>4, <1>5, <1>6, <1>7 DEF ClientStep

-----------------------------------------------------------------------------
(* Every step of a daemon keeps the order of starts and ends.              *)

\* The two parts that hold while no start met another start or an end.
OrderInv == PairInv /\ PathInv

\* While no two daemons start or end together, main keeps what is said of the path.
LEMMA MainOrder ==
  ASSUME IInv, NEW d \in Daemons, lone',
         MainStep(d) \/ Stat(d) \/ Signal(d) \/ AcceptFails(d) \/ Crash(d)
  PROVE  OrderInv'
<1> USE DaemonAssumption DEF DaemonAssumption, IInv, TypeOK, ListenerInv, OrderInv, PairInv,
        PathInv, Running, Goto, EndOf, Starting, Serving, Ending,
        pathVars, stopVars, clientVars
<1>1. CASE Probe(d)
  BY <1>1 DEF Probe
<1>2. CASE RemoveStale(d)
  BY <1>2 DEF RemoveStale
<1>3. CASE Bind(d)
  BY <1>3 DEF Bind
<1>4. CASE OpenListener(d)
  BY <1>4 DEF OpenListener
<1>5. CASE CallStop(d)
  BY <1>5 DEF CallStop
<1>6. CASE CloseListener(d)
  BY <1>6 DEF CloseListener
<1>7. CASE ServeReturns(d)
  BY <1>7 DEF ServeReturns
<1>8. CASE SessionsDown(d)
  BY <1>8 DEF SessionsDown
<1>9. CASE Cleanup(d)
  BY <1>9 DEF Cleanup
<1>10. CASE Stat(d)
  <2>1. /\ pc[d] = "off" /\ lone /\ \A e \in Daemons \ {d} : ~Busy(e)
        /\ pc' = [pc EXCEPT ![d] = IF path = None THEN "bind"
                                   ELSE IF path = File THEN "over" ELSE "probe"]
        /\ UNCHANGED <<path, listening, canceled>>
    BY <1>10 DEF Stat
  <2>2. \A e \in Daemons \ {d} : Running(e) => pc[e] = "accept" /\ e \notin canceled
    BY <2>1 DEF Busy
  <2>3. \A e \in Daemons \ {d} : Running(e) => e \in listening /\ path = e
    BY <2>1, <2>2
  <2>4. /\ pc'[d] \in {"bind", "over", "probe"} /\ \A e \in Daemons \ {d} : pc'[e] = pc[e]
        /\ pc'[d] = "bind" => path = None
        /\ pc'[d] = "probe" => path \in Daemons
    BY <2>1
  <2>5. PairInv'
    BY <2>1, <2>2, <2>3, <2>4
  <2>6. PathInv'
    BY <2>1, <2>2, <2>3, <2>4
  <2> QED
    BY <2>5, <2>6
<1>11. CASE Signal(d)
  BY <1>11 DEF Signal
<1>12. CASE AcceptFails(d)
  BY <1>12 DEF AcceptFails
<1>13. CASE Crash(d)
  BY <1>13 DEF Crash
<1> QED
  BY <1>1, <1>2, <1>3, <1>4, <1>5, <1>6, <1>7, <1>8, <1>9, <1>10, <1>11, <1>12, <1>13
     DEF MainStep

\* Every step keeps the invariant.
LEMMA StepIInv == IInv /\ [Next]_vars => IInv'
<1> SUFFICES ASSUME IInv, [Next]_vars PROVE IInv'
  OBVIOUS
<1>1. ASSUME NEW d \in Daemons,
             MainStep(d) \/ Stat(d) \/ Signal(d) \/ AcceptFails(d) \/ Crash(d)
      PROVE  IInv'
  BY <1>1, MainTypes, MainOrder DEF IInv, OrderInv
<1>2. ASSUME NEW c \in Clients, ClientStep(c) \/ (\E m \in Methods : Dial(c, m)) \/ HangUp(c)
      PROVE  IInv'
  <2>1. TypeOK' /\ ListenerInv' /\ UNCHANGED <<path, pc, listening, lone, canceled>>
    BY <1>2, ClientTypes DEF IInv, pathVars
  <2> QED
    BY <2>1 DEF IInv, PairInv, PathInv, Running
<1>3. CASE UNCHANGED vars
  BY <1>3 DEF vars, pathVars, stopVars, clientVars, IInv, TypeOK, ListenerInv, PairInv, PathInv, Running
<1> QED
  BY <1>1, <1>2, <1>3 DEF Next, Environment

-----------------------------------------------------------------------------
(* The theorems.                                                           *)

\* The inductive invariant holds in every reachable state.
THEOREM Invariance == Spec => []IInv
BY InitIInv, StepIInv, PTL DEF Spec

\* The daemons, their clients and the path hold values of their types.
THEOREM TypeCorrect == Spec => []TypeOK
<1>1. IInv => TypeOK
  BY DEF IInv
<1> QED
  BY <1>1, Invariance, PTL

\* A daemon that serves is reached through the path, for any number of daemons and
\* any sockets that crashed ones left behind (Listen, clearStaleSocket), as long as
\* no daemon is started while another starts or ends.
THEOREM ServingReachable == Spec => []ServingIsReachable
<1>1. IInv => ServingIsReachable
  BY DEF IInv, PathInv, ServingIsReachable
<1> QED
  BY <1>1, Invariance, PTL

Serves(d) == d \in listening /\ pc[d] = "accept" /\ d \notin canceled

\* What Listen refuses to do: while no start meets another start or an end, a second
\* daemon never serves beside the first.
OneServes == lone => \A d, e \in Daemons : Serves(d) /\ Serves(e) => d = e

\* While no daemon was started as another started or ended, at most one serves.
THEOREM OneDaemonServes == Spec => []OneServes
<1>1. IInv => OneServes
  BY DEF IInv, PathInv, OneServes, Serves
<1> QED
  BY <1>1, Invariance, PTL

\* And nobody takes the socket of a daemon that serves from the path: not the
\* os.Remove of a daemon that starts, not that of one that ends.
SocketStays == \A d \in Daemons : lone /\ Serves(d) => path' = path

\* While it serves, the socket at the path stays its own.
THEOREM ServingSocketStays == Spec => [][SocketStays]_vars
<1>1. IInv /\ [Next]_vars => [SocketStays]_vars
  <2> SUFFICES ASSUME IInv, Next, NEW e \in Daemons, lone, Serves(e) PROVE path' = path
    BY DEF SocketStays
  <2>1. path = e /\ path # None
    BY DaemonAssumption DEF DaemonAssumption, IInv, PathInv, Serves
  <2> USE <2>1 DEF IInv, PairInv, PathInv, Running, Serves, Starting, Serving, Ending,
          pathVars, stopVars, clientVars
  <2>2. ASSUME NEW d \in Daemons, MainStep(d) PROVE path' = path
    <3>1. CASE RemoveStale(d)
      BY <3>1 DEF RemoveStale
    <3>2. CASE Bind(d)
      BY <3>2 DEF Bind
    <3>3. CASE CloseListener(d)
      BY <3>3 DEF CloseListener
    <3>4. CASE Cleanup(d)
      BY <3>4 DEF Cleanup
    <3> QED
      BY <2>2, <3>1, <3>2, <3>3, <3>4
         DEF MainStep, Probe, OpenListener, CallStop, ServeReturns, SessionsDown
  <2>3. ASSUME NEW c \in Clients, ClientStep(c) PROVE path' = path
    BY <2>3 DEF ClientStep, Accept, CloseConn, Handle, QueryDone, Reply
  <2>4. CASE Environment
    BY <2>4 DEF Environment, Stat, Signal, AcceptFails, Crash, Dial, HangUp
  <2> QED
    BY <2>2, <2>3, <2>4 DEF Next
<1> QED
  BY <1>1, Invariance, PTL DEF Spec

=============================================================================
