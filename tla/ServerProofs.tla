---------------------------- MODULE ServerProofs ----------------------------
(***************************************************************************)
(* Proofs about Server, for any limit and any sets of threads and          *)
(* connections.                                                            *)
(***************************************************************************)
EXTENDS Server, FiniteSetTheorems, TLAPS

AcceptPhase == {"accepting", "accepted", "refused"}
StartPc == {"check", "inc", "listen"}

\* A call frame that holds a session owns it in a way that fits the phase of
\* the session, and no two frames hold the same one.
FrameInv ==
  /\ \A t \in Thread : frame[t].conn # NoConn =>
       \/ frame[t].pc \in ChainPc /\ phase[frame[t].conn] \in {"serving", "failed", "ended"}
       \/ frame[t].pc = "dtor" /\ phase[frame[t].conn] = "dying"
       \/ frame[t].pc = "close" /\ phase[frame[t].conn] = "closing"
  /\ \A t \in Thread : frame[t].pc \in {"dtor", "close"} => frame[t].conn # NoConn
  /\ \A t, u \in Thread : frame[t].conn = frame[u].conn /\ frame[t].conn # NoConn => t = u
  /\ \A c \in Conn : phase[c] = "closing" =>
       \E t \in Thread : frame[t].pc = "close" /\ frame[t].conn = c

\* There is at most one accept chain.
ChainInv ==
  /\ \A c, d \in Conn : phase[c] \in AcceptPhase /\ phase[d] \in AcceptPhase => c = d
  /\ \A t, u \in Thread : frame[t].pc \in StartPc /\ frame[u].pc \in StartPc => t = u
  /\ \A c \in Conn, t \in Thread : ~(phase[c] \in AcceptPhase /\ frame[t].pc \in StartPc)
  /\ timer # "off" =>
       /\ \A c \in Conn : phase[c] \notin AcceptPhase
       /\ \A t \in Thread : frame[t].pc \notin StartPc

\* What start_accept has tested still holds.
LimitInv ==
  /\ cnt <= MaxOpen + 1
  /\ \A t \in Thread : frame[t].pc = "inc" => cnt <= MaxOpen

CountInv ==
  /\ IsFiniteSet(Counted)
  /\ IsFiniteSet(Building)
  /\ CountExact

\* There is at least one accept chain, until the workers have gone.
AliveInv ==
  \/ frame[Main].pc = "exit" \/ Joined
  \/ timer # "off"
  \/ \E c \in Conn : phase[c] \in AcceptPhase
  \/ \E t \in Thread : frame[t].pc \in StartPc

IndInv == TypeOK /\ FrameInv /\ ChainInv /\ AliveInv /\ LimitInv /\ CountInv
\* TypeOK without the counter, whose type follows from CountInv.
Shape ==
  /\ phase \in [Conn -> Phase]
  /\ frame \in [Thread -> [pc : Pc, conn : Conn \cup {NoConn}]]
  /\ timer \in {"off", "waiting", "fired"}
  /\ acceptor \in {"open", "closed"}
  /\ io \in {"running", "stopped"}
  /\ signal \in {"none", "raised", "handled"}
-----------------------------------------------------------------------------
\* The initial state, in which the constructor of server is about to call
\* start_accept for the first time, satisfies the inductive invariant.
LEMMA InitInv == Init => IndInv
<1> SUFFICES ASSUME Init PROVE IndInv
  OBVIOUS
<1> USE ServerAssumption
<1>1. TypeOK
  BY DEF Init, TypeOK, At, Phase, Counting, Pc, ChainPc, Thread
<1>2. FrameInv
  BY DEF Init, FrameInv, At, Thread
<1>3. ChainInv
  BY DEF Init, ChainInv, At, Thread, AcceptPhase, StartPc
<1>4. LimitInv /\ AliveInv
  BY DEF Init, LimitInv, AliveInv, At, Thread, StartPc
<1>5. Counted = {} /\ Building = {}
  BY DEF Init, Counted, Building, Counting, At, Thread
<1>6. CountInv
  BY <1>5, FS_EmptySet DEF Init, CountInv, CountExact
<1> QED
  BY <1>1, <1>2, <1>3, <1>4, <1>6 DEF IndInv

\* Every step keeps the types.
LEMMA ShapeStep == Shape /\ FrameInv /\ [Next]_vars => Shape'
<1> SUFFICES ASSUME Shape, FrameInv, [Next]_vars PROVE Shape'
  OBVIOUS
<1> USE ServerAssumption DEF Shape, Phase, Counting, Pc, ChainPc, Thread, At
<1>1. ASSUME NEW t \in Thread, Step(t) PROVE Shape'
  <2>1. CASE TooMany(t)      BY <2>1 DEF TooMany
  <2>2. CASE MayAccept(t)    BY <2>2 DEF MayAccept
  <2>3. CASE Increment(t)    BY <2>3 DEF Increment
  <2>4. CASE Listen(t)       BY <2>4 DEF Listen
  <2>5. CASE Release(t)      BY <2>5 DEF Release, Rest
  <2>6. CASE Decrement(t)    BY <2>6 DEF Decrement
  <2>7. CASE Close(t)        BY <2>7 DEF Close
  <2>8. CASE StopIo(t)       BY <2>8 DEF StopIo
  <2>9. CASE RunReturns(t)   BY <2>9 DEF RunReturns
  <2> QED
    BY <1>1, <2>1, <2>2, <2>3, <2>4, <2>5, <2>6, <2>7, <2>8, <2>9 DEF Step
<1>2. ASSUME NEW t \in Thread, Dispatch(t) PROVE Shape'
  <2>1. ASSUME NEW c \in Conn, HandleAccept(t, c) PROVE Shape'
    BY <2>1 DEF HandleAccept, CanDispatch
  <2>2. ASSUME NEW c \in Conn, SessionEnds(t, c) PROVE Shape'
    BY <2>2 DEF SessionEnds, CanDispatch
  <2>3. CASE TimerHandler(t)   BY <2>3 DEF TimerHandler, CanDispatch
  <2>4. CASE CloseAcceptor(t)  BY <2>4 DEF CloseAcceptor, CanDispatch
  <2> QED
    BY <1>2, <2>1, <2>2, <2>3, <2>4 DEF Dispatch
<1>3. ASSUME NEW c \in Conn, AcceptCompletes(c) PROVE Shape'
  BY <1>3 DEF AcceptCompletes
<1>4. ASSUME NEW c \in Conn, DestroyQueued(c) PROVE Shape'
  BY <1>4 DEF DestroyQueued
<1>5. CASE TimerExpires  BY <1>5 DEF TimerExpires
<1>6. CASE Signal        BY <1>6 DEF Signal
<1>7. CASE Exit          BY <1>7 DEF Exit
<1>8. CASE Exited \/ UNCHANGED vars
  BY <1>8 DEF Exited, vars
<1> QED
  BY <1>1, <1>2, <1>3, <1>4, <1>5, <1>6, <1>7, <1>8 DEF Next

\* Every step keeps the owner of a session the only one.
LEMMA FrameStep == Shape /\ FrameInv /\ [Next]_vars => FrameInv'
<1> SUFFICES ASSUME Shape, FrameInv, [Next]_vars PROVE FrameInv'
  OBVIOUS
<1> USE ServerAssumption DEF Shape, FrameInv, Phase, Counting, Pc, ChainPc, Thread, At
<1>1. ASSUME NEW t \in Thread, Step(t) PROVE FrameInv'
  <2>1. CASE TooMany(t)
    BY <2>1 DEF TooMany
  <2>2. CASE MayAccept(t)
    BY <2>2 DEF MayAccept
  <2>3. CASE Increment(t)
    BY <2>3 DEF Increment
  <2>4. CASE Listen(t)
    BY <2>4 DEF Listen
  <2>5. CASE Release(t)
    BY <2>5 DEF Release, Rest
  <2>6. CASE Decrement(t)
    BY <2>6 DEF Decrement
  <2>7. CASE Close(t)
    BY <2>7 DEF Close
  <2>8. CASE StopIo(t)
    BY <2>8 DEF StopIo
  <2>9. CASE RunReturns(t)
    BY <2>9 DEF RunReturns
  <2> QED
    BY <1>1, <2>1, <2>2, <2>3, <2>4, <2>5, <2>6, <2>7, <2>8, <2>9 DEF Step
<1>2. ASSUME NEW t \in Thread, Dispatch(t) PROVE FrameInv'
  <2>1. ASSUME NEW c \in Conn, HandleAccept(t, c) PROVE FrameInv'
    BY <2>1 DEF HandleAccept, CanDispatch
  <2>2. ASSUME NEW c \in Conn, SessionEnds(t, c) PROVE FrameInv'
    BY <2>2 DEF SessionEnds, CanDispatch, HeldByFrame
  <2>3. CASE TimerHandler(t)
    BY <2>3 DEF TimerHandler, CanDispatch
  <2>4. CASE CloseAcceptor(t)
    BY <2>4 DEF CloseAcceptor, CanDispatch
  <2> QED
    BY <1>2, <2>1, <2>2, <2>3, <2>4 DEF Dispatch
<1>3. ASSUME NEW c \in Conn, AcceptCompletes(c) PROVE FrameInv'
  BY <1>3 DEF AcceptCompletes
<1>4. ASSUME NEW c \in Conn, DestroyQueued(c) PROVE FrameInv'
  BY <1>4 DEF DestroyQueued, Joined
<1>5. CASE TimerExpires
  BY <1>5 DEF TimerExpires
<1>6. CASE Signal
  BY <1>6 DEF Signal
<1>7. CASE Exit
  BY <1>7 DEF Exit, Joined
<1>8. CASE Exited \/ UNCHANGED vars
  BY <1>8 DEF Exited, vars
<1> QED
  BY <1>1, <1>2, <1>3, <1>4, <1>5, <1>6, <1>7, <1>8 DEF Next

\* Every step that starts or ends a way to the next call of start_accept ends or
\* starts another.
LEMMA ChainStep == Shape /\ FrameInv /\ ChainInv /\ [Next]_vars => ChainInv'
<1> SUFFICES ASSUME Shape, FrameInv, ChainInv, [Next]_vars PROVE ChainInv'
  OBVIOUS
<1> USE ServerAssumption DEF Shape, ChainInv, AcceptPhase, StartPc, Phase, Counting, Pc, ChainPc, Thread, At
<1>1. ASSUME NEW t \in Thread, Step(t) PROVE ChainInv'
  <2>1. CASE TooMany(t)
    BY <2>1 DEF TooMany
  <2>2. CASE MayAccept(t)
    BY <2>2 DEF MayAccept
  <2>3. CASE Increment(t)
    BY <2>3 DEF Increment
  <2>4. CASE Listen(t)
    BY <2>4 DEF Listen
  <2>5. CASE Release(t)
    BY <2>5 DEF Release, Rest, FrameInv
  <2>6. CASE Decrement(t)
    BY <2>6 DEF Decrement
  <2>7. CASE Close(t)
    BY <2>7 DEF Close
  <2>8. CASE StopIo(t)
    BY <2>8 DEF StopIo
  <2>9. CASE RunReturns(t)
    BY <2>9 DEF RunReturns
  <2> QED
    BY <1>1, <2>1, <2>2, <2>3, <2>4, <2>5, <2>6, <2>7, <2>8, <2>9 DEF Step
<1>2. ASSUME NEW t \in Thread, Dispatch(t) PROVE ChainInv'
  <2>1. ASSUME NEW c \in Conn, HandleAccept(t, c) PROVE ChainInv'
    BY <2>1 DEF HandleAccept, CanDispatch
  <2>2. ASSUME NEW c \in Conn, SessionEnds(t, c) PROVE ChainInv'
    BY <2>2 DEF SessionEnds, CanDispatch
  <2>3. CASE TimerHandler(t)
    BY <2>3 DEF TimerHandler, CanDispatch
  <2>4. CASE CloseAcceptor(t)
    BY <2>4 DEF CloseAcceptor, CanDispatch
  <2> QED
    BY <1>2, <2>1, <2>2, <2>3, <2>4 DEF Dispatch
<1>3. ASSUME NEW c \in Conn, AcceptCompletes(c) PROVE ChainInv'
  BY <1>3 DEF AcceptCompletes
<1>4. ASSUME NEW c \in Conn, DestroyQueued(c) PROVE ChainInv'
  BY <1>4 DEF DestroyQueued, Joined
<1>5. CASE TimerExpires
  BY <1>5 DEF TimerExpires
<1>6. CASE Signal
  BY <1>6 DEF Signal
<1>7. CASE Exit
  BY <1>7 DEF Exit, Joined
<1>8. CASE Exited \/ UNCHANGED vars
  BY <1>8 DEF Exited, vars
<1> QED
  BY <1>1, <1>2, <1>3, <1>4, <1>5, <1>6, <1>7, <1>8 DEF Next

\* No step loses the accept chain while a worker runs.
LEMMA AliveStep == Shape /\ FrameInv /\ AliveInv /\ [Next]_vars => AliveInv'
<1> SUFFICES ASSUME Shape, FrameInv, AliveInv, [Next]_vars PROVE AliveInv'
  OBVIOUS
<1> USE ServerAssumption DEF Shape, AliveInv, AcceptPhase, StartPc, Phase,
                               Counting, Pc, ChainPc, Thread, At, Joined
<1>1. ASSUME NEW t \in Thread, Step(t) PROVE AliveInv'
  <2>1. CASE TooMany(t)
    BY <2>1 DEF TooMany
  <2>2. CASE MayAccept(t)
    BY <2>2 DEF MayAccept
  <2>3. CASE Increment(t)
    BY <2>3 DEF Increment
  <2>4. CASE Listen(t)
    BY <2>4 DEF Listen
  <2>5. CASE Release(t)
    BY <2>5 DEF Release, Rest
  <2>6. CASE Decrement(t)
    BY <2>6 DEF Decrement, FrameInv
  <2>7. CASE Close(t)
    BY <2>7 DEF Close, FrameInv
  <2>8. CASE StopIo(t)
    BY <2>8 DEF StopIo
  <2>9. CASE RunReturns(t)
    BY <2>9 DEF RunReturns
  <2> QED
    BY <1>1, <2>1, <2>2, <2>3, <2>4, <2>5, <2>6, <2>7, <2>8, <2>9 DEF Step
<1>2. ASSUME NEW t \in Thread, Dispatch(t) PROVE AliveInv'
  <2>1. ASSUME NEW c \in Conn, HandleAccept(t, c) PROVE AliveInv'
    BY <2>1 DEF HandleAccept, CanDispatch
  <2>2. ASSUME NEW c \in Conn, SessionEnds(t, c) PROVE AliveInv'
    BY <2>2 DEF SessionEnds, CanDispatch
  <2>3. CASE TimerHandler(t)
    BY <2>3 DEF TimerHandler, CanDispatch
  <2>4. CASE CloseAcceptor(t)
    BY <2>4 DEF CloseAcceptor, CanDispatch
  <2> QED
    BY <1>2, <2>1, <2>2, <2>3, <2>4 DEF Dispatch
<1>3. ASSUME NEW c \in Conn, AcceptCompletes(c) PROVE AliveInv'
  BY <1>3 DEF AcceptCompletes
<1>4. ASSUME NEW c \in Conn, DestroyQueued(c) PROVE AliveInv'
  BY <1>4 DEF DestroyQueued
<1>5. CASE TimerExpires
  BY <1>5 DEF TimerExpires
<1>6. CASE Signal
  BY <1>6 DEF Signal
<1>7. CASE Exit
  BY <1>7 DEF Exit
<1>8. CASE Exited \/ UNCHANGED vars
  BY <1>8 DEF Exited, vars
<1> QED
  BY <1>1, <1>2, <1>3, <1>4, <1>5, <1>6, <1>7, <1>8 DEF Next

\* A step that leaves cnt_ and the sets that it counts alone keeps the count.
LEMMA CountKept ==
  ASSUME CountInv, cnt' = cnt, Counted' = Counted, Building' = Building
  PROVE  CountInv'
BY DEF CountInv, CountExact

\* A thread that counts a connection it will build adds one to both sides.
LEMMA CountIncrement ==
  ASSUME Shape, CountInv, NEW t \in Thread, Increment(t)
  PROVE  CountInv'
<1>1. t \notin Building /\ Building' = Building \cup {t} /\ Counted' = Counted
  BY DEF Increment, Building, Counted, Shape
<1>2. IsFiniteSet(Building') /\ Cardinality(Building') = Cardinality(Building) + 1
  BY <1>1, FS_AddElement DEF CountInv
<1>3. Cardinality(Counted) \in Nat /\ Cardinality(Building) \in Nat
  BY FS_CardinalityType DEF CountInv
<1> QED
  BY <1>1, <1>2, <1>3 DEF CountInv, CountExact, Increment

\* Building the connection moves it from one summand to the other.
LEMMA CountListen ==
  ASSUME Shape, CountInv, NEW t \in Thread, Listen(t)
  PROVE  CountInv'
<1>1. t \in Building /\ Building' = Building \ {t}
  BY DEF Listen, Building, Shape
<1>2. PICK c \in Conn : c \notin Counted /\ Counted' = Counted \cup {c}
  BY DEF Listen, Counted, Counting, Shape
<1>3. IsFiniteSet(Building') /\ Cardinality(Building') = Cardinality(Building) - 1
  BY <1>1, FS_RemoveElement DEF CountInv
<1>4. IsFiniteSet(Counted') /\ Cardinality(Counted') = Cardinality(Counted) + 1
  BY <1>2, FS_AddElement DEF CountInv
<1>5. Cardinality(Counted) \in Nat /\ Cardinality(Building) \in Nat
  BY FS_CardinalityType DEF CountInv
<1> QED
  BY <1>3, <1>4, <1>5 DEF CountInv, CountExact, Listen

\* Taking one counted connection out and one off cnt_ keeps the count.
LEMMA CountRemove ==
  ASSUME CountInv, NEW c \in Counted, cnt' = cnt - 1,
         Counted' = Counted \ {c}, Building' = Building
  PROVE  CountInv'
<1>1. IsFiniteSet(Counted') /\ Cardinality(Counted') = Cardinality(Counted) - 1
  BY FS_RemoveElement DEF CountInv
<1>2. Cardinality(Counted) \in Nat /\ Cardinality(Building) \in Nat
  BY FS_CardinalityType DEF CountInv
<1> QED
  BY <1>1, <1>2 DEF CountInv, CountExact

\* ~connection decrements for a connection that is still counted.
LEMMA CountDecrement ==
  ASSUME Shape, FrameInv, CountInv, NEW t \in Thread, Decrement(t)
  PROVE  CountInv'
<1> DEFINE c == frame[t].conn
<1>1. c \in Conn /\ phase[c] = "dying"
  BY DEF Decrement, FrameInv, Shape, ChainPc
<1>2. c \in Counted /\ Counted' = Counted \ {c}
  BY <1>1 DEF Decrement, Counted, Counting, Shape
<1>3. Building' = Building
  BY DEF Decrement, Building, Shape
<1> QED
  BY <1>2, <1>3, CountRemove DEF Decrement

\* What the io_service destroys at the end of main is still counted: when the
\* workers have gone no connection is half way through its destructor.
LEMMA CountDestroyQueued ==
  ASSUME Shape, FrameInv, CountInv, NEW c \in Conn, DestroyQueued(c)
  PROVE  CountInv'
<1>1. phase[c] # "closing"
  BY DEF DestroyQueued, Joined, FrameInv, Thread
<1>2. c \in Counted /\ Counted' = Counted \ {c}
  BY <1>1 DEF DestroyQueued, Counted, Counting, Phase, Shape
<1>3. Building' = Building
  BY DEF DestroyQueued, Building
<1> QED
  BY <1>2, <1>3, CountRemove DEF DestroyQueued

\* Every step keeps the count exact.
LEMMA CountStep == Shape /\ FrameInv /\ CountInv /\ [Next]_vars => CountInv'
<1> SUFFICES ASSUME Shape, FrameInv, CountInv, [Next]_vars PROVE CountInv'
  OBVIOUS
<1> USE ServerAssumption DEF Shape, FrameInv, Counted, Building, Counting, Phase, ChainPc, At
<1>1. ASSUME NEW t \in Thread, Step(t) PROVE CountInv'
  <2>1. CASE TooMany(t)
    BY <2>1, CountKept DEF TooMany
  <2>2. CASE MayAccept(t)
    BY <2>2, CountKept DEF MayAccept
  <2>3. CASE Increment(t)
    BY <2>3, CountIncrement
  <2>4. CASE Listen(t)
    BY <2>4, CountListen
  <2>5. CASE Release(t)
    BY <2>5, CountKept DEF Release, Rest, Thread
  <2>6. CASE Decrement(t)
    BY <2>6, CountDecrement
  <2>7. CASE Close(t)
    BY <2>7, CountKept DEF Close
  <2>8. CASE StopIo(t)
    BY <2>8, CountKept DEF StopIo
  <2>9. CASE RunReturns(t)
    BY <2>9, CountKept DEF RunReturns
  <2> QED
    BY <1>1, <2>1, <2>2, <2>3, <2>4, <2>5, <2>6, <2>7, <2>8, <2>9 DEF Step
<1>2. ASSUME NEW t \in Thread, Dispatch(t) PROVE CountInv'
  <2>1. ASSUME NEW c \in Conn, HandleAccept(t, c) PROVE CountInv'
    BY <2>1, CountKept DEF HandleAccept, CanDispatch
  <2>2. ASSUME NEW c \in Conn, SessionEnds(t, c) PROVE CountInv'
    BY <2>2, CountKept DEF SessionEnds, CanDispatch
  <2>3. CASE TimerHandler(t)
    BY <2>3, CountKept DEF TimerHandler, CanDispatch
  <2>4. CASE CloseAcceptor(t)
    BY <2>4, CountKept DEF CloseAcceptor, CanDispatch
  <2> QED
    BY <1>2, <2>1, <2>2, <2>3, <2>4 DEF Dispatch
<1>3. ASSUME NEW c \in Conn, AcceptCompletes(c) PROVE CountInv'
  BY <1>3, CountKept DEF AcceptCompletes
<1>4. ASSUME NEW c \in Conn, DestroyQueued(c) PROVE CountInv'
  BY <1>4, CountDestroyQueued
<1>5. CASE TimerExpires
  BY <1>5, CountKept DEF TimerExpires
<1>6. CASE Signal
  BY <1>6, CountKept DEF Signal
<1>7. CASE Exit
  BY <1>7, CountKept DEF Exit, Joined
<1>8. CASE Exited \/ UNCHANGED vars
  BY <1>8, CountKept DEF Exited, vars
<1> QED
  BY <1>1, <1>2, <1>3, <1>4, <1>5, <1>6, <1>7, <1>8 DEF Next
\* Only the one thread in start_accept raises cnt_, so its test still holds.
LEMMA LimitStep == Shape /\ cnt \in Nat /\ ChainInv /\ LimitInv /\ [Next]_vars => LimitInv'
<1> SUFFICES ASSUME Shape, cnt \in Nat, ChainInv, LimitInv, [Next]_vars PROVE LimitInv'
  OBVIOUS
<1> USE ServerAssumption DEF Shape, LimitInv, At
<1>1. ASSUME NEW t \in Thread, Step(t) PROVE LimitInv'
  <2>1. CASE TooMany(t)
    BY <2>1 DEF TooMany
  <2>2. CASE MayAccept(t)
    BY <2>2 DEF MayAccept
  <2>3. CASE Increment(t)
    BY <2>3 DEF Increment, ChainInv, StartPc
  <2>4. CASE Listen(t)
    BY <2>4 DEF Listen
  <2>5. CASE Release(t)
    BY <2>5 DEF Release, Rest
  <2>6. CASE Decrement(t)
    BY <2>6 DEF Decrement
  <2>7. CASE Close(t)
    BY <2>7 DEF Close
  <2>8. CASE StopIo(t) \/ RunReturns(t)
    BY <2>8 DEF StopIo, RunReturns
  <2> QED
    BY <1>1, <2>1, <2>2, <2>3, <2>4, <2>5, <2>6, <2>7, <2>8 DEF Step
<1>2. ASSUME NEW t \in Thread, Dispatch(t) PROVE LimitInv'
  BY <1>2 DEF Dispatch, HandleAccept, SessionEnds, TimerHandler, CloseAcceptor
<1>3. ASSUME NEW c \in Conn, AcceptCompletes(c) \/ DestroyQueued(c) PROVE LimitInv'
  BY <1>3 DEF AcceptCompletes, DestroyQueued
<1>4. CASE TimerExpires \/ Signal \/ Exit \/ Exited \/ UNCHANGED vars
  BY <1>4 DEF TimerExpires, Signal, Exit, Exited, vars
<1> QED
  BY <1>1, <1>2, <1>3, <1>4 DEF Next

\* The invariant is inductive.
LEMMA IndStep == IndInv /\ [Next]_vars => IndInv'
<1> SUFFICES ASSUME IndInv, [Next]_vars PROVE IndInv'
  OBVIOUS
<1>1. Shape /\ cnt \in Nat
  BY DEF IndInv, TypeOK, Shape
<1>2. Shape'
  BY <1>1, ShapeStep DEF IndInv
<1>3. CountInv'
  BY <1>1, CountStep DEF IndInv
<1>4. cnt' \in Nat
  <2>1. IsFiniteSet(Counted') /\ IsFiniteSet(Building')
    BY <1>3 DEF CountInv
  <2>2. Cardinality(Counted') \in Nat /\ Cardinality(Building') \in Nat
    BY <2>1, FS_CardinalityType
  <2> QED
    BY <1>3, <2>2 DEF CountInv, CountExact
<1>5. TypeOK'
  BY <1>2, <1>4 DEF TypeOK, Shape
<1>6. FrameInv' /\ ChainInv' /\ AliveInv' /\ LimitInv'
  BY <1>1, FrameStep, ChainStep, AliveStep, LimitStep DEF IndInv
<1> QED
  BY <1>3, <1>5, <1>6 DEF IndInv

\* The inductive invariant holds in every state.
THEOREM Invariance == Spec => []IndInv
BY InitInv, IndStep, PTL DEF Spec
-----------------------------------------------------------------------------
\* Types, among them that cnt_ never goes below zero.
THEOREM TypeCorrect == Spec => []TypeOK
<1>1. IndInv => TypeOK
  BY DEF IndInv
<1> QED
  BY <1>1, Invariance, PTL

\* cnt_ is at every moment the number of connections not yet in their
\* destructor and of those counted but not built, whichever threads accept,
\* serve and destroy connections, and through shutdown.
THEOREM CountCorrect == Spec => []CountExact
<1>1. IndInv => CountExact
  BY DEF IndInv, CountInv
<1> QED
  BY <1>1, Invariance, PTL

\* handle_accept uses the session it was given only while that is alive.
THEOREM HeldAlive == Spec => []HeldIsAlive
<1>1. IndInv => HeldIsAlive
  BY DEF IndInv, FrameInv, HeldIsAlive, ChainPc
<1> QED
  BY <1>1, Invariance, PTL

\* There is exactly one way to the next call of start_accept.
THEOREM OneChain == Spec => []OneAcceptChain
<1>1. ASSUME IndInv PROVE OneAcceptChain
  <2> SUFFICES ASSUME frame[Main].pc # "exit", ~Joined
               PROVE  \E x : ChainTokens = {x}
    BY FS_Singleton DEF OneAcceptChain
  <2> USE <1>1 DEF IndInv, ChainInv, ChainTokens, AcceptPhase, StartPc
  <2>1. CASE timer # "off"
    <3>1. ChainTokens = {<<"timer", timer>>}
      BY <2>1
    <3> QED
      BY <3>1 DEF Thread
  <2>2. ASSUME NEW c \in Conn, phase[c] \in AcceptPhase
        PROVE  \E x : ChainTokens = {x}
    <3>1. timer = "off"
      BY <2>2
    <3>2. ChainTokens = {<<"accept", c>>}
      BY <2>2, <3>1
    <3> QED
      BY <3>2
  <2>3. ASSUME NEW t \in Thread, frame[t].pc \in StartPc
        PROVE  \E x : ChainTokens = {x}
    <3>1. timer = "off"
      BY <2>3
    <3>2. ChainTokens = {<<"frame", t>>}
      BY <2>3, <3>1
    <3> QED
      BY <3>2
  <2> QED
    BY <2>1, <2>2, <2>3 DEF AliveInv
<1> QED
  BY <1>1, Invariance, PTL
\* The only ways in which a step changes cnt_.
LEMMA CounterMoves ==
  ASSUME IndInv, [Next]_vars
  PROVE  \/ cnt' = cnt
         \/ cnt <= MaxOpen /\ cnt' = cnt + 1
         \/ cnt > 0 /\ cnt' = cnt - 1
<1> USE DEF IndInv, TypeOK
<1>1. cnt' \in Nat
  BY IndStep
<1>2. ASSUME NEW t \in Thread, Step(t), cnt' # cnt
      PROVE  (cnt <= MaxOpen /\ cnt' = cnt + 1) \/ cnt' = cnt - 1
  BY <1>2 DEF Step, TooMany, MayAccept, Increment, Listen, Release, Decrement, Close,
              StopIo, RunReturns, LimitInv
<1>3. ASSUME NEW t \in Thread, Dispatch(t) PROVE cnt' = cnt
  BY <1>3 DEF Dispatch, HandleAccept, SessionEnds, TimerHandler, CloseAcceptor
<1>4. ASSUME NEW c \in Conn, AcceptCompletes(c) \/ DestroyQueued(c)
      PROVE  cnt' = cnt \/ cnt' = cnt - 1
  BY <1>4 DEF AcceptCompletes, DestroyQueued
<1>5. CASE TimerExpires \/ Signal \/ Exit \/ Exited \/ UNCHANGED vars
  BY <1>5 DEF TimerExpires, Signal, Exit, Exited, vars
<1> QED
  BY <1>1, <1>2, <1>3, <1>4, <1>5 DEF Next

\* The test that start_accept made before its increment holds at the increment.
THEOREM CheckHolds == Spec => CheckStillHolds
<1>1. IndInv /\ [Next]_vars => [cnt' > cnt => cnt <= MaxOpen]_vars
  BY CounterMoves DEF IndInv, TypeOK
<1> QED
  BY <1>1, Invariance, PTL DEF Spec, CheckStillHolds

\* Server implements ConnectionLimit with MaxOpen + 1 places.
THEOREM LimitImplemented == Spec => ImplementsLimit
<1>1. Init => Abstract!Init
  BY DEF Init, Abstract!Init
<1>2. IndInv /\ [Next]_vars => [Abstract!Next]_cnt
  BY CounterMoves, ServerAssumption
     DEF Abstract!Next, Abstract!Admit, Abstract!GiveBack, IndInv, TypeOK
<1> QED
  BY <1>1, <1>2, Invariance, PTL DEF Spec, ImplementsLimit, Abstract!Spec

\* Sockets in use exceed the limit of start_accept at most by the pending accept
\* and one per thread that is inside ~connection.
THEOREM SocketsBounded == Spec => []SocketBound
<1>1. ASSUME IndInv PROVE SocketBound
  <2> DEFINE Closing == {c \in Conn : phase[c] = "closing"}
             Closers == {t \in Thread : frame[t].pc = "close"}
             owned == [t \in Closers |-> frame[t].conn]
  <2> USE <1>1 DEF IndInv
  <2>1. IsFiniteSet(Thread)
    BY ServerAssumption, FS_AddElement DEF Thread
  <2>2. IsFiniteSet(Closers)
    BY <2>1, FS_Subset
  <2>3. owned \in Surjection(Closers, Closing)
    <3>1. owned \in [Closers -> Closing]
      BY DEF FrameInv, TypeOK, ChainPc
    <3>2. \A c \in Closing : \E t \in Closers : owned[t] = c
      BY DEF FrameInv
    <3> QED
      BY <3>1, <3>2 DEF Surjection
  <2>4. IsFiniteSet(Closing) /\ Cardinality(Closing) <= Cardinality(Closers)
    BY <2>2, <2>3, FS_Surjection
  <2>5. {c \in Conn : phase[c] # "none"} = Counted \cup Closing /\ Counted \cap Closing = {}
    BY DEF Counted, Counting, TypeOK, Phase
  <2>6. Cardinality(Counted \cup Closing) = Cardinality(Counted) + Cardinality(Closing)
    <3>1. Cardinality(Counted \cup Closing) =
            Cardinality(Counted) + Cardinality(Closing) - Cardinality({})
      BY <2>4, <2>5, FS_Union DEF CountInv
    <3>2. Cardinality(Counted) \in Nat /\ Cardinality(Closing) \in Nat
      BY <2>4, FS_CardinalityType DEF CountInv
    <3> QED
      BY <3>1, <3>2, FS_EmptySet
  <2>7. Cardinality(Counted) <= MaxOpen + 1
    <3>1. Cardinality(Counted) \in Nat /\ Cardinality(Building) \in Nat
      BY FS_CardinalityType DEF CountInv
    <3> QED
      BY <3>1, ServerAssumption DEF LimitInv, CountInv, CountExact
  <2>8. /\ Cardinality(Counted) \in Nat
        /\ Cardinality(Closing) \in Nat
        /\ Cardinality(Closers) \in Nat
    BY <2>2, <2>4, FS_CardinalityType DEF CountInv
  <2>9. Cardinality(Counted \cup Closing) <= MaxOpen + 1 + Cardinality(Closers)
    <3> HIDE DEF Closing, Closers
    <3> QED
      BY <2>4, <2>6, <2>7, <2>8, ServerAssumption
  <2>10. Cardinality({c \in Conn : phase[c] # "none"}) = Cardinality(Counted \cup Closing)
    BY <2>5, Zenon
  <2> QED
    BY <2>9, <2>10, Zenon DEF SocketBound
<1> QED
  BY <1>1, Invariance, PTL
=============================================================================
