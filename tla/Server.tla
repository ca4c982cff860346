------------------------------- MODULE Server -------------------------------
(***************************************************************************)
(* The accept loop of server.cc, the open-connection counter cnt_ that the *)
(* accept loop and every ~connection share, the worker threads that main   *)
(* starts, and the shutdown on SIGINT or SIGTERM.                          *)
(*                                                                         *)
(* A session is abstracted to its lifetime: it is served for a while and   *)
(* then its last asynchronous operation completes.  Sessions, connections  *)
(* and their sockets live and die together, so one name stands for all     *)
(* three.                                                                  *)
(***************************************************************************)
EXTENDS Integers, FiniteSets

CONSTANTS
  Conn,      \* names for the connection objects alive at one time
  Worker,    \* the threads that run io_service::run
  Main,      \* the thread of main()
  NoConn,    \* "this call frame holds no session"
  MaxOpen    \* the literal 100 of start_accept

ASSUME ServerAssumption ==
  /\ MaxOpen \in Nat
  /\ IsFiniteSet(Worker)
  /\ Main \notin Worker
  /\ NoConn \notin Conn

VARIABLES
  cnt,       \* *cnt_
  phase,     \* phase[c]: where connection c is in its life
  frame,     \* frame[t]: the function thread t is in, and the session it holds
  timer,     \* the deadline timer t_
  acceptor,  \* acceptor_
  io,        \* the io_service
  signal     \* delivery of SIGINT or SIGTERM

vars == <<cnt, phase, frame, timer, acceptor, io, signal>>

Thread == Worker \cup {Main}

(***************************************************************************)
(* "none": no such object; "accepting": async_accept outstanding;          *)
(* "accepted", "refused": handle_accept is queued without or with an       *)
(* error; "failed": only handle_accept still holds the refused session;    *)
(* "serving": the session's own operations hold it; "ended": those are     *)
(* gone but a handle_accept frame still holds it; "dying": in ~connection  *)
(* before the decrement; "closing": in ~connection after it.               *)
(***************************************************************************)
Counting == {"accepting", "accepted", "refused", "failed", "serving", "ended",
             "dying"}
Phase == Counting \cup {"none", "closing"}

(***************************************************************************)
(* "check", "inc", "listen" and "release" are the points of start_accept   *)
(* and handle_accept between two accesses to shared state.                 *)
(***************************************************************************)
ChainPc == {"check", "inc", "listen", "release"}
Pc == ChainPc \cup {"idle", "dtor", "close", "stop", "done", "join", "exit"}

At(pc, c) == [pc |-> pc, conn |-> c]

\* Connections that cnt_ still counts, and threads that have counted one that
\* they have not built yet.
Counted == {c \in Conn : phase[c] \in Counting}
Building == {t \in Thread : frame[t].pc = "listen"}

HeldByFrame(c) == \E t \in Thread : frame[t].conn = c

Rest(t) == IF t = Main THEN "join" ELSE "idle"

\* A worker takes a handler from the io_service only while it runs, and main
\* creates the workers after the constructor of server has returned.
CanDispatch(t) ==
  /\ t \in Worker
  /\ frame[t].pc = "idle"
  /\ io = "running"
  /\ frame[Main].pc = "join"

\* The constructor of server sets the counter to 0 and calls start_accept on
\* the main thread.
Init ==
  /\ cnt = 0
  /\ phase = [c \in Conn |-> "none"]
  /\ frame = [t \in Thread |-> IF t = Main THEN At("check", NoConn)
                                           ELSE At("idle", NoConn)]
  /\ timer = "off"
  /\ acceptor = "open"
  /\ io = "running"
  /\ signal = "none"
-----------------------------------------------------------------------------
\* Mutant: t_ is not armed, so nothing calls start_accept again.
TooManyNoTimer(t) ==
  /\ frame[t].pc = "check"
  /\ cnt > MaxOpen
  /\ frame' = [frame EXCEPT ![t].pc = "release"]
  /\ UNCHANGED <<cnt, phase, timer, acceptor, io, signal>>

\* start_accept: too many connections, so arm t_ and return ...
TooMany(t) ==
  /\ frame[t].pc = "check"
  /\ cnt > MaxOpen
  /\ timer' = "waiting"
  /\ frame' = [frame EXCEPT ![t].pc = "release"]
  /\ UNCHANGED <<cnt, phase, acceptor, io, signal>>

\* Mutant: the limit is off by one.
MayAcceptOneMore(t) ==
  /\ frame[t].pc = "check"
  /\ cnt <= MaxOpen + 1
  /\ frame' = [frame EXCEPT ![t].pc = "inc"]
  /\ UNCHANGED <<cnt, phase, timer, acceptor, io, signal>>

\* ... or go on to accept one more.
MayAccept(t) ==
  /\ frame[t].pc = "check"
  /\ cnt <= MaxOpen
  /\ frame' = [frame EXCEPT ![t].pc = "inc"]
  /\ UNCHANGED <<cnt, phase, timer, acceptor, io, signal>>

\* start_accept: (*cnt_)++, a second access to the atomic.
Increment(t) ==
  /\ frame[t].pc = "inc"
  /\ cnt' = cnt + 1
  /\ frame' = [frame EXCEPT ![t].pc = "listen"]
  /\ UNCHANGED <<phase, timer, acceptor, io, signal>>

\* start_accept: build connection and session and start async_accept, which
\* fails at once on a closed acceptor.
Listen(t) ==
  /\ frame[t].pc = "listen"
  /\ \E c \in Conn :
       /\ phase[c] = "none"
       /\ phase' = [phase EXCEPT ![c] = IF acceptor = "open" THEN "accepting"
                                                             ELSE "refused"]
  /\ frame' = [frame EXCEPT ![t].pc = "release"]
  /\ UNCHANGED <<cnt, timer, acceptor, io, signal>>

\* Mutant: the connection of a refused accept is dropped without ~connection.
ReleaseLeaks(t) ==
  /\ frame[t].pc = "release"
  /\ LET c == frame[t].conn
     IN  phase' = IF c # NoConn /\ phase[c] \in {"failed", "ended"}
                  THEN [phase EXCEPT ![c] = "none"] ELSE phase
  /\ frame' = [frame EXCEPT ![t] = At(Rest(t), NoConn)]
  /\ UNCHANGED <<cnt, timer, acceptor, io, signal>>

\* handle_accept returns and drops its shared_ptr to the session; the thread
\* that drops the last one runs the destructor.
Release(t) ==
  /\ frame[t].pc = "release"
  /\ LET c == frame[t].conn
         last == c # NoConn /\ phase[c] \in {"failed", "ended"}
     IN  /\ phase' = IF last THEN [phase EXCEPT ![c] = "dying"] ELSE phase
         /\ frame' = [frame EXCEPT ![t] = IF last THEN At("dtor", c)
                                                  ELSE At(Rest(t), NoConn)]
  /\ UNCHANGED <<cnt, timer, acceptor, io, signal>>

\* Mutant: the counter is decremented in both destructors of the hierarchy.
DecrementTwice(t) ==
  /\ frame[t].pc = "dtor"
  /\ cnt' = cnt - 2
  /\ phase' = [phase EXCEPT ![frame[t].conn] = "closing"]
  /\ frame' = [frame EXCEPT ![t].pc = "close"]
  /\ UNCHANGED <<timer, acceptor, io, signal>>

\* ~connection: (*cnt_)-- comes first ...
Decrement(t) ==
  /\ frame[t].pc = "dtor"
  /\ cnt' = cnt - 1
  /\ phase' = [phase EXCEPT ![frame[t].conn] = "closing"]
  /\ frame' = [frame EXCEPT ![t].pc = "close"]
  /\ UNCHANGED <<timer, acceptor, io, signal>>

\* ... and the socket is closed afterwards.
Close(t) ==
  /\ frame[t].pc = "close"
  /\ phase' = [phase EXCEPT ![frame[t].conn] = "none"]
  /\ frame' = [frame EXCEPT ![t] = At("idle", NoConn)]
  /\ UNCHANGED <<cnt, timer, acceptor, io, signal>>
-----------------------------------------------------------------------------
\* The kernel completes the outstanding accept, with or without an error.
AcceptCompletes(c) ==
  /\ phase[c] = "accepting"
  /\ \E p \in {"accepted", "refused"} : phase' = [phase EXCEPT ![c] = p]
  /\ UNCHANGED <<cnt, frame, timer, acceptor, io, signal>>

\* Mutant: handle_accept returns on an error before it calls start_accept.
HandleAcceptReturns(t, c) ==
  /\ CanDispatch(t)
  /\ phase[c] \in {"accepted", "refused"}
  /\ phase' = [phase EXCEPT ![c] = IF @ = "accepted" THEN "serving" ELSE "failed"]
  /\ frame' = [frame EXCEPT ![t] =
                 At(IF phase[c] = "accepted" THEN "check" ELSE "release", c)]
  /\ UNCHANGED <<cnt, timer, acceptor, io, signal>>

\* handle_accept: start the session unless there was an error, then call
\* start_accept.
HandleAccept(t, c) ==
  /\ CanDispatch(t)
  /\ phase[c] \in {"accepted", "refused"}
  /\ phase' = [phase EXCEPT ![c] = IF @ = "accepted" THEN "serving" ELSE "failed"]
  /\ frame' = [frame EXCEPT ![t] = At("check", c)]
  /\ UNCHANGED <<cnt, timer, acceptor, io, signal>>

TimerExpires ==
  /\ timer = "waiting"
  /\ timer' = "fired"
  /\ UNCHANGED <<cnt, phase, frame, acceptor, io, signal>>

\* The handler of t_ is start_accept itself.
TimerHandler(t) ==
  /\ CanDispatch(t)
  /\ timer = "fired"
  /\ timer' = "off"
  /\ frame' = [frame EXCEPT ![t] = At("check", NoConn)]
  /\ UNCHANGED <<cnt, phase, acceptor, io, signal>>

\* Mutant: the session is deleted with its last operation, whoever holds it.
SessionEndsUncounted(t, c) ==
  /\ CanDispatch(t)
  /\ phase[c] = "serving"
  /\ phase' = [phase EXCEPT ![c] = "dying"]
  /\ frame' = [frame EXCEPT ![t] = At("dtor", c)]
  /\ UNCHANGED <<cnt, timer, acceptor, io, signal>>

\* The last handler of a session's own operations returns (received_req with
\* an error, or the last completed_request).
SessionEnds(t, c) ==
  /\ CanDispatch(t)
  /\ phase[c] = "serving"
  /\ IF HeldByFrame(c)
     THEN /\ phase' = [phase EXCEPT ![c] = "ended"]
          /\ UNCHANGED frame
     ELSE /\ phase' = [phase EXCEPT ![c] = "dying"]
          /\ frame' = [frame EXCEPT ![t] = At("dtor", c)]
  /\ UNCHANGED <<cnt, timer, acceptor, io, signal>>
-----------------------------------------------------------------------------
Signal ==
  /\ signal = "none"
  /\ signal' = "raised"
  /\ UNCHANGED <<cnt, phase, frame, timer, acceptor, io>>

\* Mutant: signal_handler does not stop the io_service.
CloseAcceptorOnly(t) ==
  /\ CanDispatch(t)
  /\ signal = "raised"
  /\ signal' = "handled"
  /\ acceptor' = "closed"
  /\ phase' = [c \in Conn |-> IF phase[c] = "accepting" THEN "refused"
                                                        ELSE phase[c]]
  /\ UNCHANGED <<cnt, frame, timer, io>>

\* signal_handler: acceptor_.close() aborts the outstanding accept ...
CloseAcceptor(t) ==
  /\ CanDispatch(t)
  /\ signal = "raised"
  /\ signal' = "handled"
  /\ acceptor' = "closed"
  /\ phase' = [c \in Conn |-> IF phase[c] = "accepting" THEN "refused"
                                                        ELSE phase[c]]
  /\ frame' = [frame EXCEPT ![t] = At("stop", NoConn)]
  /\ UNCHANGED <<cnt, timer, io>>

\* ... and io_.stop() follows.
StopIo(t) ==
  /\ frame[t].pc = "stop"
  /\ io' = "stopped"
  /\ frame' = [frame EXCEPT ![t].pc = "idle"]
  /\ UNCHANGED <<cnt, phase, timer, acceptor, signal>>

\* io_service::run returns in an idle worker once the io_service is stopped.
RunReturns(t) ==
  /\ frame[t].pc = "idle"
  /\ io = "stopped"
  /\ frame' = [frame EXCEPT ![t].pc = "done"]
  /\ UNCHANGED <<cnt, phase, timer, acceptor, io, signal>>

Joined == frame[Main].pc = "join" /\ \A t \in Worker : frame[t].pc = "done"

\* main after join_all: destroying the io_service destroys the handlers that
\* are still queued and, with them, the sessions they hold.
DestroyQueued(c) ==
  /\ Joined
  /\ phase[c] # "none"
  /\ cnt' = cnt - 1
  /\ phase' = [phase EXCEPT ![c] = "none"]
  /\ UNCHANGED <<frame, timer, acceptor, io, signal>>

Exit ==
  /\ Joined
  /\ \A c \in Conn : phase[c] = "none"
  /\ frame' = [frame EXCEPT ![Main].pc = "exit"]
  /\ UNCHANGED <<cnt, phase, timer, acceptor, io, signal>>

\* The process has gone; the only state in which nothing is left to do.
Exited == frame[Main].pc = "exit" /\ UNCHANGED vars
-----------------------------------------------------------------------------
\* A step of the function a thread is in.
Step(t) ==
  \/ TooMany(t)
  \/ MayAccept(t)
  \/ Increment(t)
  \/ Listen(t)
  \/ Release(t)
  \/ Decrement(t)
  \/ Close(t)
  \/ StopIo(t)
  \/ RunReturns(t)

\* An idle worker takes the next handler.
Dispatch(t) ==
  \/ \E c \in Conn : HandleAccept(t, c)
  \/ \E c \in Conn : SessionEnds(t, c)
  \/ TimerHandler(t)
  \/ CloseAcceptor(t)

Next ==
  \/ \E t \in Thread : Step(t) \/ Dispatch(t)
  \/ \E c \in Conn : AcceptCompletes(c)
  \/ TimerExpires
  \/ Signal
  \/ \E c \in Conn : DestroyQueued(c)
  \/ Exit
  \/ Exited

Spec == Init /\ [][Next]_vars

(***************************************************************************)
(* Threads keep running, timers expire, and the io_service takes handlers  *)
(* from a FIFO queue, so a handler that is queued is dispatched in the     *)
(* end: strong fairness, because other handlers may keep the workers busy  *)
(* in between.  That a session ends is assumed of the clients.             *)
(***************************************************************************)
Fairness ==
  /\ \A t \in Thread : WF_vars(Step(t))
  /\ \A c \in Conn : SF_vars(\E t \in Worker : HandleAccept(t, c))
  /\ \A c \in Conn : SF_vars(\E t \in Worker : SessionEnds(t, c))
  /\ SF_vars(\E t \in Worker : TimerHandler(t))
  /\ SF_vars(\E t \in Worker : CloseAcceptor(t))
  /\ WF_vars(TimerExpires)
  /\ WF_vars(\E c \in Conn : DestroyQueued(c))
  /\ WF_vars(Exit)

FairSpec == Spec /\ Fairness
-----------------------------------------------------------------------------
\* Types.  The counter never goes below zero: no connection is uncounted twice.
TypeOK ==
  /\ cnt \in Nat
  /\ phase \in [Conn -> Phase]
  /\ frame \in [Thread -> [pc : Pc, conn : Conn \cup {NoConn}]]
  /\ timer \in {"off", "waiting", "fired"}
  /\ acceptor \in {"open", "closed"}
  /\ io \in {"running", "stopped"}
  /\ signal \in {"none", "raised", "handled"}

\* cnt_ is incremented by start_accept and decremented by ~connection on
\* whatever thread drops a session last; at every moment it is exactly the
\* number of connection objects not yet in their destructor, plus the one that
\* start_accept has counted but not built.  When the process exits it is 0.
CountExact ==
  cnt = Cardinality(Counted) + Cardinality(Building)

\* The sockets in use, those of connections that cnt_ no longer counts because
\* ~connection decrements before it closes included, never exceed the limit of
\* start_accept by more than the pending accept and one per closing thread.
SocketBound ==
  Cardinality({c \in Conn : phase[c] # "none"})
    <= MaxOpen + 1 + Cardinality({t \in Thread : frame[t].pc = "close"})

\* start_accept tests cnt_ and increments it in two accesses.  Whatever the
\* other threads do in between, the test still holds when the increment is made.
CheckStillHolds ==
  [][cnt' > cnt => cnt <= MaxOpen]_vars

\* The places the accept chain can be: an accept that is outstanding or whose
\* handler is queued, the timer, or a thread inside start_accept.
ChainTokens ==
  {<<"accept", c>> : c \in {d \in Conn :
                            phase[d] \in {"accepting", "accepted", "refused"}}}
    \cup {<<"timer", timer>> : x \in {y \in {timer} : y # "off"}}
    \cup {<<"frame", t>> : t \in {u \in Thread :
                                  frame[u].pc \in {"check", "inc", "listen"}}}

\* Each call of start_accept leaves exactly one way to the next call: through
\* accept errors, the limit and the timer the server neither stops accepting
\* nor ends up with two chains that both test and increment cnt_.
OneAcceptChain ==
  frame[Main].pc # "exit" /\ ~Joined => Cardinality(ChainTokens) = 1

\* handle_accept uses the session it was given only while that session is
\* alive, though the session's own operations may end on another thread before
\* handle_accept returns: the bound shared_ptr keeps it.
HeldIsAlive ==
  \A t \in Thread :
    frame[t].pc \in ChainPc /\ frame[t].conn # NoConn =>
      phase[frame[t].conn] \in {"serving", "failed", "ended"}

\* A server at its limit listens again once sessions end: the 3 second poll of
\* start_accept misses no wake-up.
AcceptResumes ==
  cnt > MaxOpen ~> (acceptor = "closed" \/ \E c \in Conn : phase[c] = "accepting")

\* After SIGINT or SIGTERM every worker leaves io_service::run and main returns,
\* even though closing the acceptor first makes the accept chain spin on errors.
ShutdownCompletes ==
  signal = "raised" ~> frame[Main].pc = "exit"
-----------------------------------------------------------------------------
Abstract == INSTANCE ConnectionLimit WITH Limit <- MaxOpen + 1, places <- cnt

\* The accept loop and the destructors together implement a limiter with
\* MaxOpen + 1 places, cnt_ being the number of places taken.
ImplementsLimit == Abstract!Spec
=============================================================================
