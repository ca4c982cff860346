-------------------------- MODULE ConnectionProofs --------------------------
(***************************************************************************)
(* Proofs about Connection, for any number of requests, of requests in a   *)
(* read and of pieces in a response, and any mixture of peers.             *)
(***************************************************************************)
EXTENDS Connection, FiniteSetTheorems, TLAPS

Busy == {"waiting", "step", "done", "failed"}

\* The running handler has taken the read it handles, and the requests it still
\* has to serve are among those the peer sends.
TodoInv ==
  /\ reading = "ready" \/ pc # "idle" => todo + nreq <= MaxReq
  /\ pc \in {"log", "process", "metrics", "write"} => todo >= 1
  /\ pc # "idle" => reading = "none"

\* A response that was not started has no write operation.
FreshInv == \A w \in Response : w > nreq => op[w] = "none"

\* The reactor's queue holds the writes that wait, each once.
QueueInv ==
  /\ \A i \in DOMAIN wq : op[wq[i]] = "waiting"
  /\ \A i, j \in DOMAIN wq : wq[i] = wq[j] => i = j

\* Only an open socket has a read in the reactor, and the read is watched.
WatchInv ==
  reading = "pending" => sock = "open" /\ (timer = "armed" \/ due > 0)

IndInv ==
  TypeOK /\ TodoInv /\ FreshInv /\ QueueInv /\ WatchInv /\ BuffersValid /\ DeadIsQuiet
-----------------------------------------------------------------------------
\* The state that session::start leaves satisfies the inductive invariant.
LEMMA InitInv == Init => IndInv
BY ConnectionAssumption
   DEF Init, IndInv, TypeOK, TodoInv, FreshInv, QueueInv, WatchInv, BuffersValid,
       DeadIsQuiet, InFlight, Response

\* The number of pieces of a response on the wire is a natural number.
LEMMA SentNat == ASSUME TypeOK, NEW w PROVE Sent(w) \in Nat
<1>1. DOMAIN wire = 1..Len(wire) /\ Len(wire) \in Nat
  BY DEF TypeOK
<1>2. IsFiniteSet(1..Len(wire))
  BY <1>1, FS_Interval
<1>3. IsFiniteSet({i \in DOMAIN wire : wire[i] = w})
  <2>1. {i \in DOMAIN wire : wire[i] = w} \subseteq 1..Len(wire)
    BY <1>1
  <2> QED
    BY <2>1, <1>2, FS_Subset
<1> QED
  BY <1>3, FS_CardinalityType DEF Sent

\* Handing pieces to the kernel makes the write go on or complete it.
LEMMA TransferEffect ==
  ASSUME TypeOK, NEW w \in Response, NEW k \in 1..(Pieces - Sent(w)), Transfer(w, k)
  PROVE  /\ wire' \in Seq(Response)
         /\ op' = [op EXCEPT ![w] = op'[w]]
         /\ op'[w] \in {"done", "step"}
<1>1. k \in Nat
  BY SentNat, ConnectionAssumption
<1>2. [i \in 1..k |-> w] \in Seq(Response)
  BY <1>1
<1>3. wire' \in Seq(Response)
  BY <1>2 DEF Transfer, TypeOK
<1> QED
  BY <1>3 DEF Transfer, TypeOK

\* async_write_some, for a response that does not wait in the queue.
LEMMA WriteSomeEffect ==
  ASSUME TypeOK, QueueInv, NEW w \in Response, op[w] # "waiting", WriteSome(w)
  PROVE  /\ wire' \in Seq(Response)
         /\ wq' \in Seq(Response)
         /\ op' = [op EXCEPT ![w] = op'[w]]
         /\ op'[w] \in Busy
         /\ QueueInv'
<1>1. CASE op' = [op EXCEPT ![w] = "failed"] /\ UNCHANGED <<wq, wire>>
  BY <1>1 DEF TypeOK, QueueInv, Busy
<1>2. CASE op' = [op EXCEPT ![w] = "waiting"] /\ wq' = Append(wq, w) /\ UNCHANGED wire
  <2>1. wq \in Seq(Response) /\ \A i \in DOMAIN wq : wq[i] # w /\ wq[i] \in Response
    BY DEF QueueInv, TypeOK
  <2>2. QueueInv'
    BY <1>2, <2>1 DEF TypeOK, QueueInv
  <2> QED
    BY <1>2, <2>1, <2>2 DEF TypeOK, Busy
<1>3. ASSUME NEW k \in 1..(Pieces - Sent(w)), Transfer(w, k), UNCHANGED wq PROVE
         /\ wire' \in Seq(Response)
         /\ wq' \in Seq(Response)
         /\ op' = [op EXCEPT ![w] = op'[w]]
         /\ op'[w] \in Busy
         /\ QueueInv'
  BY <1>3, TransferEffect DEF TypeOK, QueueInv, Busy
<1> QED
  BY <1>1, <1>2, <1>3 DEF WriteSome

\* A reset or a close ends every wait with an error.
LEMMA FailPendingEffect ==
  ASSUME TypeOK, FailPending
  PROVE  /\ op' \in [Response -> {"none", "waiting", "step", "done", "failed", "gone"}]
         /\ wq' \in Seq(Response)
         /\ InFlight' = InFlight
         /\ QueueInv'
         /\ reading' = IF reading = "pending" THEN "failed" ELSE reading
         /\ \A w \in Response : op[w] = "none" => op'[w] = "none"
BY DEF TypeOK, FailPending, InFlight, QueueInv

\* A handler that returns either leaves the session alone or destroys it.
LEMMA HandlerReturnsEffect ==
  ASSUME TypeOK, HandlerReturns
  PROVE  /\ alive' \in BOOLEAN
         /\ sock' \in {"open", "closed"}
         /\ timer' \in {"armed", "off"}
         /\ aborted' \in 0..MaxQueued
<1>1. CASE UNCHANGED <<alive, sock, timer, aborted>>
  BY <1>1 DEF TypeOK
<1>2. CASE /\ alive' = FALSE
           /\ sock' = "closed"
           /\ timer' = "off"
           /\ aborted' = IF timer = "armed" THEN Plus1(aborted) ELSE aborted
  <2>1. aborted \in 0..MaxQueued /\ MaxQueued \in Nat
    BY ConnectionAssumption DEF TypeOK
  <2>2. Plus1(aborted) \in 0..MaxQueued
    BY <2>1 DEF Plus1
  <2> QED
    BY <1>2, <2>1, <2>2
<1> QED
  BY <1>1, <1>2 DEF HandlerReturns
-----------------------------------------------------------------------------
\* What the peer, the kernel and the timer do keeps the invariant.
LEMMA OutsideStep == IndInv /\ proc = "up" /\ Outside => IndInv'
<1> SUFFICES ASSUME IndInv, proc = "up", Outside PROVE IndInv'
  OBVIOUS
<1> USE ConnectionAssumption DEF IndInv, Response
<1>1. ASSUME NEW n \in 0..PerRead, ReadCompletes(n) PROVE IndInv'
  BY <1>1 DEF ReadCompletes, timerVars, writeVars, TypeOK, TodoInv, FreshInv, QueueInv, WatchInv,
         BuffersValid, DeadIsQuiet, InFlight
<1>2. CASE PeerFinishes
  BY <1>2 DEF PeerFinishes, timerVars, strandVars, TypeOK, TodoInv, FreshInv, QueueInv, WatchInv,
         BuffersValid, DeadIsQuiet, InFlight
<1>3. CASE PeerResets
  <2>1. /\ op' \in [Response -> {"none", "waiting", "step", "done", "failed", "gone"}]
        /\ wq' \in Seq(Response)
        /\ InFlight' = InFlight
        /\ QueueInv'
        /\ reading' = IF reading = "pending" THEN "failed" ELSE reading
        /\ \A w \in Response : op[w] = "none" => op'[w] = "none"
    BY <1>3, FailPendingEffect DEF PeerResets
  <2>2. TypeOK'
    BY <1>3, <2>1 DEF PeerResets, timerVars, strandVars, TypeOK
  <2>3. TodoInv' /\ FreshInv' /\ WatchInv'
    <3>1. TodoInv' /\ WatchInv'
      BY <1>3, <2>1 DEF PeerResets, strandVars, TodoInv, WatchInv
    <3>2. FreshInv'
      BY <1>3, <2>1 DEF PeerResets, strandVars, FreshInv
    <3> QED
      BY <3>1, <3>2
  <2> QED
    BY <1>3, <2>1, <2>2, <2>3
       DEF PeerResets, timerVars, strandVars, BuffersValid, DeadIsQuiet
<1>4. CASE TimerExpires
  BY <1>4 DEF TimerExpires, strandVars, TypeOK, TodoInv, FreshInv, QueueInv, WatchInv,
         BuffersValid, DeadIsQuiet, InFlight
<1>5. CASE Writable
  <2> DEFINE w == Head(wq)
  <2>1. w \in Response /\ op[w] = "waiting" /\ wq # <<>>
    BY <1>5 DEF Writable, TypeOK, QueueInv
  <2>2. PICK k \in 1..(Pieces - Sent(w)) : Transfer(w, k)
    BY <1>5 DEF Writable
  <2>3. /\ wire' \in Seq(Response)
        /\ op' = [op EXCEPT ![w] = op'[w]]
        /\ op'[w] \in {"done", "step"}
    BY <2>1, <2>2, TransferEffect
  <2> HIDE DEF w
  <2>4. QueueInv' /\ wq' \in Seq(Response)
    <3>1. /\ wq' = Tail(wq) /\ wq' \in Seq(Response) /\ Len(wq') = Len(wq) - 1
          /\ \A i \in DOMAIN wq' : i + 1 \in DOMAIN wq /\ wq'[i] = wq[i + 1]
          /\ 1 \in DOMAIN wq /\ w = wq[1] /\ DOMAIN wq' \subseteq Nat \ {0}
      BY <1>5, <2>1 DEF Writable, TypeOK, w
    <3>2. \A i \in DOMAIN wq' : op[wq'[i]] = "waiting" /\ wq'[i] # w
      BY <3>1 DEF QueueInv
    <3>3. \A i \in DOMAIN wq' : wq'[i] \in Response
      BY <3>1
    <3>4. \A i \in DOMAIN wq' : op'[wq'[i]] = "waiting"
      BY <2>3, <3>2, <3>3 DEF TypeOK
    <3>5. \A i, j \in DOMAIN wq' : wq'[i] = wq'[j] => i = j
      <4> SUFFICES ASSUME NEW i \in DOMAIN wq', NEW j \in DOMAIN wq', wq'[i] = wq'[j]
                   PROVE  i = j
        OBVIOUS
      <4>1. i + 1 = j + 1
        BY <3>1 DEF QueueInv
      <4> QED
        BY <3>1, <4>1
    <3> QED
      BY <3>1, <3>4, <3>5 DEF QueueInv
  <2>5. InFlight' = InFlight
    BY <2>1, <2>3 DEF InFlight, TypeOK
  <2>6. TypeOK' /\ TodoInv' /\ WatchInv'
    <3>1. op' \in [Response -> {"none", "waiting", "step", "done", "failed", "gone"}]
      BY <2>1, <2>3 DEF TypeOK
    <3>2. TypeOK'
      BY <1>5, <2>3, <2>4, <3>1 DEF Writable, timerVars, strandVars, TypeOK
    <3>3. TodoInv' /\ WatchInv'
      BY <1>5 DEF Writable, timerVars, strandVars, TodoInv, WatchInv
    <3> QED
      BY <3>2, <3>3
  <2>7. FreshInv'
    BY <1>5, <2>1, <2>3 DEF Writable, strandVars, FreshInv, TypeOK
  <2>8. BuffersValid' /\ DeadIsQuiet'
    BY <1>5, <2>5 DEF Writable, timerVars, strandVars, BuffersValid, DeadIsQuiet
  <2> QED
    BY <2>4, <2>6, <2>7, <2>8
<1> QED
  BY <1>1, <1>2, <1>3, <1>4, <1>5 DEF Outside

\* The handlers that run in the strand keep the invariant.
LEMMA StrandStep == IndInv /\ Strand => IndInv'
<1> SUFFICES ASSUME IndInv, Strand PROVE IndInv'
  OBVIOUS
<1> USE ConnectionAssumption DEF IndInv, Response, Idle
<1>1. CASE ReceivedReq
  BY <1>1 DEF ReceivedReq, timerVars, TypeOK, TodoInv, FreshInv, QueueInv, WatchInv,
         BuffersValid, DeadIsQuiet, InFlight
<1>2. CASE ReceivedError
  <2>1. TypeOK'
    <3>1. HandlerReturns
      BY <1>2 DEF ReceivedError
    <3>2. /\ alive' \in BOOLEAN
          /\ sock' \in {"open", "closed"}
          /\ timer' \in {"armed", "off"}
          /\ aborted' \in 0..MaxQueued
      BY <3>1, HandlerReturnsEffect
    <3> QED
      BY <1>2, <3>2 DEF ReceivedError, strandVars, TypeOK
  <2>2. TodoInv' /\ FreshInv' /\ QueueInv' /\ WatchInv' /\ BuffersValid'
    BY <1>2 DEF ReceivedError, strandVars, TodoInv, FreshInv, QueueInv, WatchInv,
                BuffersValid, InFlight
  <2>3. DeadIsQuiet'
    BY <1>2 DEF ReceivedError, HandlerReturns, strandVars, DeadIsQuiet, InFlight
  <2> QED
    BY <2>1, <2>2, <2>3
<1>3. CASE LogRequestInfo
  BY <1>3 DEF LogRequestInfo, timerVars, writeVars, TypeOK, TodoInv, FreshInv, QueueInv, WatchInv,
         BuffersValid, DeadIsQuiet, InFlight
<1>4. CASE ProcessReq
  BY <1>4 DEF ProcessReq, timerVars, writeVars, TypeOK, TodoInv, FreshInv, QueueInv, WatchInv,
         BuffersValid, DeadIsQuiet, InFlight
<1>5. CASE LogMetrics
  BY <1>5 DEF LogMetrics, timerVars, writeVars, TypeOK, TodoInv, FreshInv, QueueInv, WatchInv,
         BuffersValid, DeadIsQuiet, InFlight
<1>6. CASE Write
  <2> DEFINE w == nreq + 1
  <2>1. w \in Response /\ op[w] = "none" /\ todo \in 1..MaxReq /\ todo + nreq <= MaxReq
    BY <1>6 DEF Write, TypeOK, TodoInv, FreshInv
  <2>2. /\ wire' \in Seq(Response)
        /\ wq' \in Seq(Response)
        /\ op' = [op EXCEPT ![w] = op'[w]]
        /\ op'[w] \in Busy
        /\ QueueInv'
    BY <1>6, <2>1, WriteSomeEffect DEF Write
  <2>3. TypeOK' /\ TodoInv' /\ WatchInv'
    <3>1. op' \in [Response -> {"none", "waiting", "step", "done", "failed", "gone"}]
      BY <2>1, <2>2 DEF TypeOK, Busy
    <3>2. TypeOK'
      BY <1>6, <2>1, <2>2, <3>1 DEF Write, timerVars, TypeOK
    <3> QED
      BY <1>6, <2>1, <3>2 DEF Write, timerVars, TypeOK, TodoInv, WatchInv
  <2>4. FreshInv'
    BY <1>6, <2>1, <2>2 DEF Write, FreshInv, TypeOK
  <2>5. InFlight' = InFlight \cup {w}
    BY <2>1, <2>2 DEF InFlight, TypeOK, Busy
  <2>6. BuffersValid' /\ DeadIsQuiet'
    BY <1>6, <2>5 DEF Write, BuffersValid, DeadIsQuiet, TypeOK
  <2> QED
    BY <2>2, <2>3, <2>4, <2>6
<1>7. CASE WaitForReq
  BY <1>7 DEF WaitForReq, Plus1, writeVars, TypeOK, TodoInv, FreshInv, QueueInv, WatchInv,
         BuffersValid, DeadIsQuiet, InFlight
<1>8. ASSUME NEW w \in Response, ContinueWrite(w) PROVE IndInv'
  <2>1. /\ wire' \in Seq(Response)
        /\ wq' \in Seq(Response)
        /\ op' = [op EXCEPT ![w] = op'[w]]
        /\ op'[w] \in Busy
        /\ QueueInv'
    BY <1>8, WriteSomeEffect DEF ContinueWrite
  <2>2. TypeOK' /\ TodoInv' /\ WatchInv' /\ FreshInv'
    <3>1. op' \in [Response -> {"none", "waiting", "step", "done", "failed", "gone"}]
      BY <2>1 DEF TypeOK, Busy
    <3>2. TypeOK'
      BY <1>8, <2>1, <3>1 DEF ContinueWrite, timerVars, strandVars, TypeOK
    <3>3. TodoInv' /\ WatchInv'
      BY <1>8 DEF ContinueWrite, timerVars, strandVars, TodoInv, WatchInv
    <3>4. FreshInv'
      BY <1>8, <2>1 DEF ContinueWrite, strandVars, TypeOK, FreshInv
    <3> QED
      BY <3>2, <3>3, <3>4
  <2>3. InFlight' = InFlight
    BY <1>8, <2>1 DEF ContinueWrite, InFlight, TypeOK, Busy
  <2>4. BuffersValid' /\ DeadIsQuiet'
    BY <1>8, <2>3 DEF ContinueWrite, timerVars, strandVars, BuffersValid, DeadIsQuiet
  <2> QED
    BY <2>1, <2>2, <2>4
<1>9. ASSUME NEW w \in Response, CompletedRequest(w) PROVE IndInv'
  <2>1. TypeOK' /\ TodoInv' /\ FreshInv' /\ QueueInv' /\ WatchInv'
    <3>1. TypeOK'
      <4>1. HandlerReturns
        BY <1>9 DEF CompletedRequest
      <4>2. /\ alive' \in BOOLEAN
            /\ sock' \in {"open", "closed"}
            /\ timer' \in {"armed", "off"}
            /\ aborted' \in 0..MaxQueued
        BY <4>1, HandlerReturnsEffect
      <4> QED
        BY <1>9, <4>2 DEF CompletedRequest, strandVars, TypeOK
    <3>2. TodoInv' /\ FreshInv'
      BY <1>9 DEF CompletedRequest, strandVars, TypeOK, TodoInv, FreshInv
    <3>3. QueueInv'
      <4>1. \A i \in DOMAIN wq : wq[i] \in Response /\ wq[i] # w
        BY <1>9 DEF CompletedRequest, QueueInv, TypeOK
      <4> QED
        BY <1>9, <4>1 DEF CompletedRequest, QueueInv, TypeOK
    <3>4. WatchInv'
      BY <1>9 DEF CompletedRequest, HandlerReturns, WatchInv
    <3> QED
      BY <3>1, <3>2, <3>3, <3>4
  <2>2. InFlight' = InFlight \ {w}
    BY <1>9 DEF CompletedRequest, InFlight, TypeOK
  <2>3. BuffersValid'
    BY <1>9, <2>2 DEF CompletedRequest, BuffersValid
  <2>4. DeadIsQuiet'
    BY <1>9 DEF CompletedRequest, HandlerReturns, strandVars, DeadIsQuiet, InFlight, TypeOK
  <2> QED
    BY <2>1, <2>3, <2>4
<1> QED
  BY <1>1, <1>2, <1>3, <1>4, <1>5, <1>6, <1>7, <1>8, <1>9 DEF Strand

\* Every step keeps the invariant.
LEMMA IndStep == IndInv /\ [Next]_vars => IndInv'
<1> SUFFICES ASSUME IndInv, [Next]_vars PROVE IndInv'
  OBVIOUS
<1> USE ConnectionAssumption DEF IndInv, Response, Idle
<1>1. CASE Timeout
  <2>1. CASE alive /\ sock = "open"
    <3>1. /\ op' \in [Response -> {"none", "waiting", "step", "done", "failed", "gone"}]
          /\ wq' \in Seq(Response)
          /\ InFlight' = InFlight
          /\ QueueInv'
          /\ reading' = IF reading = "pending" THEN "failed" ELSE reading
          /\ \A w \in Response : op[w] = "none" => op'[w] = "none"
      BY <1>1, <2>1, FailPendingEffect DEF Timeout
    <3>2. TypeOK'
      BY <1>1, <2>1, <3>1 DEF Timeout, strandVars, TypeOK
    <3>3. TodoInv' /\ FreshInv' /\ WatchInv'
      <4>1. TodoInv' /\ WatchInv'
        BY <1>1, <3>1 DEF Timeout, strandVars, TodoInv, WatchInv
      <4>2. FreshInv'
        BY <1>1, <3>1 DEF Timeout, strandVars, FreshInv
      <4> QED
        BY <4>1, <4>2
    <3> QED
      BY <1>1, <2>1, <3>1, <3>2, <3>3 DEF Timeout, BuffersValid, DeadIsQuiet
  <2>2. CASE ~alive \/ sock # "open"
    <3>1. UNCHANGED <<reading, op, wq>>
      BY <1>1, <2>2 DEF Timeout
    <3>2. TypeOK'
      BY <1>1, <3>1 DEF Timeout, strandVars, TypeOK
    <3>3. TodoInv' /\ FreshInv' /\ QueueInv' /\ BuffersValid' /\ DeadIsQuiet'
      BY <1>1, <3>1 DEF Timeout, strandVars, TodoInv, FreshInv, QueueInv, BuffersValid,
                        DeadIsQuiet, InFlight
    <3>4. WatchInv'
      BY <1>1, <2>2, <3>1 DEF Timeout, WatchInv, DeadIsQuiet
    <3> QED
      BY <3>2, <3>3, <3>4
  <2> QED
    BY <2>1, <2>2
<1>2. CASE TimeoutAborted
  BY <1>2 DEF TimeoutAborted, strandVars, TypeOK, TodoInv, FreshInv, QueueInv, WatchInv,
         BuffersValid, DeadIsQuiet, InFlight
<1>3. CASE Quiet \/ UNCHANGED vars
  <2>1. UNCHANGED vars
    BY <1>3 DEF Quiet
  <2>2. TypeOK'
    BY <2>1 DEF vars, TypeOK
  <2>3. TodoInv' /\ FreshInv' /\ QueueInv' /\ WatchInv'
    BY <2>1 DEF vars, TodoInv, FreshInv, QueueInv, WatchInv
  <2>4. BuffersValid' /\ DeadIsQuiet'
    BY <2>1 DEF vars, BuffersValid, DeadIsQuiet, InFlight
  <2> QED
    BY <2>2, <2>3, <2>4
<1> QED
  BY <1>1, <1>2, <1>3, StrandStep, OutsideStep DEF Next

\* The inductive invariant holds in every reachable state of a session.
LEMMA Invariant == Spec => []IndInv
BY InitInv, IndStep, PTL DEF Spec

\* The types, for any bounds: no response is started that was not asked for.
THEOREM TypesHold == Spec => []TypeOK
BY Invariant, PTL DEF IndInv

\* A response_builder exists exactly as long as its write operation has not
\* completed, for any number of responses and pieces.
THEOREM BuffersStayValid == Spec => []BuffersValid
BY Invariant, PTL DEF IndInv

\* The session is destroyed only when no read, no write and no handler refers to
\* it any more.
THEOREM DeathIsQuiet == Spec => []DeadIsQuiet
BY Invariant, PTL DEF IndInv

\* A session that waits for its peer always has a timer that runs or a timeout
\* handler that is queued.
THEOREM WaitsAreWatched == Spec => []WaitIsWatched
<1>1. IndInv => WaitIsWatched
  BY DEF IndInv, WatchInv, WaitIsWatched
<1> QED
  BY Invariant, <1>1, PTL
-----------------------------------------------------------------------------
(***************************************************************************)
(* The order of the pieces on the wire.                                    *)
(***************************************************************************)
On(w) == \E j \in DOMAIN wire : wire[j] = w

\* While pieces can be sent, each response without a piece on the wire is in the
\* reactor's queue, behind the earlier ones without a piece; else no write waits.
LineInv ==
  /\ sock = "closed" \/ peer = "reset" => wq = <<>>
  /\ sock = "open" /\ peer # "reset" =>
       \A v \in 1..nreq : On(v) \/ \E i \in DOMAIN wq : wq[i] = v
  /\ \A i, j \in DOMAIN wq : ~On(wq[i]) /\ ~On(wq[j]) /\ wq[i] < wq[j] => i < j
  /\ \A w \in Response : op[w] = "step" => On(w)

\* The order of StartInOrder.
FirstsInOrder ==
  \A i \in DOMAIN wire : \A v \in 1..(wire[i] - 1) : \E j \in 1..(i - 1) : wire[j] = v

\* A response whose write is not complete has pieces left.
PieceInv ==
  \A w \in Response :
    /\ Sent(w) <= Pieces
    /\ op[w] = "none" => Sent(w) = 0
    /\ op[w] \in {"waiting", "step"} => Sent(w) < Pieces

\* What Transfer appends to the wire.
LEMMA TransferWire ==
  ASSUME TypeOK, NEW w \in Response, NEW k \in 1..(Pieces - Sent(w)), Transfer(w, k)
  PROVE  /\ k \in Nat \ {0}
         /\ Len(wire) \in Nat /\ DOMAIN wire = 1..Len(wire)
         /\ DOMAIN wire' = 1..(Len(wire) + k) /\ Len(wire') = Len(wire) + k
         /\ \A i \in 1..Len(wire) : wire'[i] = wire[i] /\ wire[i] \in Response
         /\ \A i \in (Len(wire) + 1)..(Len(wire) + k) : wire'[i] = w
<1>1. k \in Nat \ {0}
  BY SentNat, ConnectionAssumption
<1>2. [i \in 1..k |-> w] \in Seq(Response) /\ Len([i \in 1..k |-> w]) = k
  BY <1>1
<1> QED
  BY <1>1, <1>2 DEF Transfer, TypeOK

\* The number of pieces of w grows by k, that of other responses stays.
LEMMA TransferSent ==
  ASSUME TypeOK, NEW w \in Response, NEW k \in 1..(Pieces - Sent(w)), Transfer(w, k)
  PROVE  /\ Sent(w)' = Sent(w) + k
         /\ \A v \in Response \ {w} : Sent(v)' = Sent(v)
<1> DEFINE P(v) == {i \in DOMAIN wire : wire[i] = v}
           New == (Len(wire) + 1)..(Len(wire) + k)
<1>1. k \in Nat \ {0} /\ Len(wire) \in Nat
  BY TransferWire
<1>0. DOMAIN wire' = DOMAIN wire \cup New
  <2>1. ASSUME NEW l \in Nat PROVE 1..(l + k) = (1..l) \cup ((l + 1)..(l + k))
    BY <1>1
  <2>2. DOMAIN wire' = 1..(Len(wire) + k) /\ DOMAIN wire = 1..Len(wire)
    BY TransferWire
  <2> QED
    BY <1>1, <2>1, <2>2
<1>2. IsFiniteSet(P(w))
  <2>1. IsFiniteSet(1..Len(wire))
    BY <1>1, FS_Interval
  <2>2. P(w) \subseteq 1..Len(wire)
    BY TransferWire
  <2> QED
    BY <2>1, <2>2, FS_Subset
<1>3. IsFiniteSet(New) /\ Cardinality(New) = k
  <2>1. ASSUME NEW a \in Int, NEW b \in Int, a <= b
        PROVE  IsFiniteSet(a..b) /\ Cardinality(a..b) = b - a + 1
    BY <2>1, FS_Interval
  <2>2. /\ Len(wire) + 1 \in Int /\ Len(wire) + k \in Int /\ Len(wire) + 1 <= Len(wire) + k
        /\ (Len(wire) + k) - (Len(wire) + 1) + 1 = k
    BY <1>1
  <2> QED
    BY <2>1, <2>2
<1>4. {i \in DOMAIN wire' : wire'[i] = w} = P(w) \cup New
  <2>1. \A i \in DOMAIN wire : wire'[i] = wire[i]
    BY TransferWire
  <2>2. \A i \in New : wire'[i] = w
    BY TransferWire
  <2> QED
    BY <1>0, <2>1, <2>2
<1>5. P(w) \cap New = {}
  BY TransferWire
<1>6. Cardinality(P(w) \cup New) = Cardinality(P(w)) + k
  <2>1. Cardinality(P(w) \cup New) = Cardinality(P(w)) + Cardinality(New) - Cardinality(P(w) \cap New)
    BY <1>2, <1>3, FS_Union
  <2>2. Cardinality(P(w)) \in Nat
    BY <1>2, FS_CardinalityType
  <2>3. Cardinality(P(w) \cap New) = 0
    BY <1>5, FS_EmptySet
  <2> QED
    BY <2>1, <2>2, <2>3, <1>1, <1>3
<1>7. Sent(w)' = Sent(w) + k
  BY <1>4, <1>6 DEF Sent
<1>8. ASSUME NEW v \in Response \ {w} PROVE Sent(v)' = Sent(v)
  <2>1. \A i \in New : wire'[i] # v
    BY TransferWire
  <2>2. \A i \in DOMAIN wire : wire'[i] = wire[i]
    BY TransferWire
  <2>3. {i \in DOMAIN wire' : wire'[i] = v} = P(v)
    BY <1>0, <2>1, <2>2
  <2> QED
    BY <2>3 DEF Sent
<1> QED
  BY <1>7, <1>8

\* The steps, as far as they concern the writes: all but these leave the writes
\* and the channel alone.
LEMMA WriteSteps ==
  IndInv /\ [Next]_vars =>
    \/ UNCHANGED <<wire, op, wq, nreq, sock>> /\ (peer' = "reset" <=> peer = "reset")
    \/ FailPending /\ UNCHANGED <<wire, nreq>> /\ (sock' = "closed" \/ peer' = "reset")
    \/ Writable
    \/ Write
    \/ \E w \in Response : ContinueWrite(w) \/ CompletedRequest(w)
    \/ ReceivedError
<1> DEFINE Calm == UNCHANGED <<wire, op, wq, nreq, sock>> /\ (peer' = "reset" <=> peer = "reset")
           Fails == FailPending /\ UNCHANGED <<wire, nreq>> /\ (sock' = "closed" \/ peer' = "reset")
<1> SUFFICES ASSUME IndInv, [Next]_vars, ~Writable, ~Write, ~ReceivedError,
                    ~ \E w \in Response : ContinueWrite(w) \/ CompletedRequest(w)
             PROVE  Calm \/ Fails
  OBVIOUS
<1>1. CASE Strand
  BY <1>1 DEF Strand, ReceivedReq, LogRequestInfo, ProcessReq, LogMetrics, WaitForReq, writeVars
<1>2. CASE Timeout
  <2>1. CASE alive /\ sock = "open"
    BY <1>2, <2>1 DEF Timeout, strandVars
  <2>2. CASE ~(alive /\ sock = "open")
    BY <1>2, <2>2 DEF Timeout, strandVars, IndInv, TypeOK
  <2> QED
    BY <2>1, <2>2
<1>3. CASE TimeoutAborted
  BY <1>3 DEF TimeoutAborted, strandVars
<1>4. CASE Outside
  BY <1>4 DEF Outside, ReadCompletes, PeerFinishes, PeerResets, TimerExpires, writeVars, strandVars
<1>5. CASE Quiet \/ UNCHANGED vars
  BY <1>5 DEF Quiet, vars
<1> QED
  BY <1>1, <1>2, <1>3, <1>4, <1>5 DEF Next

\* No response is sent more than once, and one that is not complete has pieces
\* left.
LEMMA PieceStep == IndInv /\ PieceInv /\ [Next]_vars => PieceInv'
<1> SUFFICES ASSUME IndInv, PieceInv, [Next]_vars PROVE PieceInv'
  OBVIOUS
<1> USE DEF IndInv
<1>0. ASSUME UNCHANGED wire PROVE \A v : Sent(v)' = Sent(v)
  BY <1>0 DEF Sent
<1>1. ASSUME NEW w \in Response, NEW k \in 1..(Pieces - Sent(w)), Transfer(w, k)
      PROVE  PieceInv'
  <2>1. Sent(w)' = Sent(w) + k /\ \A v \in Response \ {w} : Sent(v)' = Sent(v)
    BY <1>1, TransferSent
  <2>2. /\ Sent(w) \in Nat /\ Pieces \in Nat /\ k \in Nat \ {0}
        /\ Sent(w) + k <= Pieces
    BY SentNat, ConnectionAssumption
  <2>3. /\ op'[w] = IF Sent(w) + k = Pieces THEN "done" ELSE "step"
        /\ \A v \in Response \ {w} : op'[v] = op[v]
    BY <1>1 DEF Transfer, TypeOK
  <2> QED
    BY <2>1, <2>2, <2>3 DEF PieceInv
<1>2. ASSUME NEW w \in Response, WriteSome(w), op[w] \in {"none", "step"} PROVE PieceInv'
  <2>1. Sent(w) < Pieces
    BY <1>2, ConnectionAssumption DEF PieceInv
  <2>2. CASE UNCHANGED wire /\ \E o \in {"failed", "waiting"} : op' = [op EXCEPT ![w] = o]
    BY <1>0, <2>1, <2>2 DEF PieceInv, TypeOK
  <2> QED
    BY <1>1, <1>2, <2>2 DEF WriteSome
<1>3. CASE UNCHANGED <<wire, op>>
  BY <1>0, <1>3 DEF PieceInv
<1>4. CASE FailPending /\ UNCHANGED wire
  BY <1>0, <1>4 DEF PieceInv, FailPending
<1>5. CASE Writable
  <2>1. Head(wq) \in Response
    BY <1>5 DEF Writable, TypeOK
  <2> QED
    BY <1>1, <1>5, <2>1 DEF Writable
<1>6. CASE Write
  <2>1. nreq + 1 \in Response /\ op[nreq + 1] = "none"
    BY <1>6, ConnectionAssumption DEF Write, TypeOK, TodoInv, FreshInv, Response
  <2> QED
    BY <1>2, <1>6, <2>1 DEF Write
<1>7. ASSUME NEW w \in Response, ContinueWrite(w) PROVE PieceInv'
  BY <1>2, <1>7 DEF ContinueWrite
<1>8. ASSUME NEW w \in Response, CompletedRequest(w) PROVE PieceInv'
  BY <1>0, <1>8 DEF CompletedRequest, PieceInv, TypeOK
<1>9. CASE ReceivedError
  BY <1>3, <1>9 DEF ReceivedError
<1> QED
  BY <1>3, <1>4, <1>5, <1>6, <1>7, <1>8, <1>9, WriteSteps

\* After Transfer the responses with a piece on the wire are those before, and w.
LEMMA TransferOn ==
  ASSUME TypeOK, NEW w \in Response, NEW k \in 1..(Pieces - Sent(w)), Transfer(w, k)
  PROVE  On(w)' /\ \A v : On(v)' <=> On(v) \/ v = w
<1>1. /\ k \in Nat \ {0}
      /\ Len(wire) \in Nat /\ DOMAIN wire = 1..Len(wire)
      /\ DOMAIN wire' = 1..(Len(wire) + k)
      /\ \A i \in 1..Len(wire) : wire'[i] = wire[i]
      /\ \A i \in (Len(wire) + 1)..(Len(wire) + k) : wire'[i] = w
  BY TransferWire
<1>2. ASSUME NEW v, On(v) PROVE On(v)'
  <2>1. PICK j \in DOMAIN wire : wire[j] = v
    BY <1>2 DEF On
  <2>2. j \in DOMAIN wire' /\ wire'[j] = v
    BY <1>1, <2>1
  <2> QED
    BY <2>2 DEF On
<1>3. On(w)'
  <2>1. /\ Len(wire) + 1 \in (Len(wire) + 1)..(Len(wire) + k)
        /\ Len(wire) + 1 \in 1..(Len(wire) + k)
    BY <1>1
  <2> QED
    BY <1>1, <2>1 DEF On
<1>4. ASSUME NEW v, On(v)', v # w PROVE On(v)
  <2>1. PICK j \in DOMAIN wire' : wire'[j] = v
    BY <1>4 DEF On
  <2>2. j \notin (Len(wire) + 1)..(Len(wire) + k)
    BY <1>1, <1>4, <2>1
  <2>3. j \in DOMAIN wire /\ wire[j] = v
    BY <1>1, <2>1, <2>2
  <2> QED
    BY <2>3 DEF On
<1> QED
  BY <1>2, <1>3, <1>4

\* A response with a piece on the wire has all earlier ones there.
LEMMA EarlierOn ==
  ASSUME TypeOK, FirstsInOrder, NEW w \in Response, On(w), NEW v \in 1..(w - 1) PROVE On(v)
<1>1. PICK i \in DOMAIN wire : wire[i] = w
  BY DEF On
<1>2. PICK j \in 1..(i - 1) : wire[j] = v
  BY <1>1 DEF FirstsInOrder
<1>3. j \in DOMAIN wire
  BY <1>1, <1>2 DEF TypeOK
<1> QED
  BY <1>2, <1>3 DEF On

\* A transfer keeps the order when the earlier responses have started.
LEMMA FirstsTransfer ==
  ASSUME TypeOK, FirstsInOrder, NEW w \in Response, NEW k \in 1..(Pieces - Sent(w)),
         Transfer(w, k), \A v \in 1..(w - 1) : On(v)
  PROVE  FirstsInOrder'
<1> SUFFICES ASSUME NEW i \in DOMAIN wire', NEW v \in 1..(wire'[i] - 1)
             PROVE  \E j \in 1..(i - 1) : wire'[j] = v
  BY DEF FirstsInOrder
<1>1. k \in Nat \ {0} /\ Len(wire) \in Nat /\ DOMAIN wire = 1..Len(wire)
  BY TransferWire
<1>2. CASE i \in DOMAIN wire
  <2>1. wire'[i] = wire[i]
    BY <1>1, <1>2, TransferWire
  <2>2. PICK j \in 1..(i - 1) : wire[j] = v
    BY <1>2, <2>1 DEF FirstsInOrder
  <2>3. wire'[j] = v
    BY <1>1, <1>2, <2>2, TransferWire
  <2> QED
    BY <2>3
<1>3. CASE i \notin DOMAIN wire
  <2>1. i \in (Len(wire) + 1)..(Len(wire) + k) /\ wire'[i] = w
    BY <1>1, <1>3, TransferWire
  <2>2. PICK j \in DOMAIN wire : wire[j] = v
    BY <2>1 DEF On
  <2>3. wire'[j] = v /\ j \in 1..(i - 1)
    BY <1>1, <2>1, <2>2, TransferWire
  <2> QED
    BY <2>3
<1> QED
  BY <1>2, <1>3

\* The write at the head of the reactor's queue, the one that starts while the
\* queue is empty and the one that goes on all have the earlier ones on the wire.
LEMMA HeadMaySend ==
  ASSUME IndInv, LineInv, FirstsInOrder, wq # <<>>
  PROVE  \A v \in 1..(Head(wq) - 1) : On(v)
<1> DEFINE w == Head(wq)
<1>1. w \in Response /\ 1 \in DOMAIN wq /\ w = wq[1] /\ w <= nreq
  <2>1. w \in Response /\ 1 \in DOMAIN wq /\ w = wq[1]
    BY DEF IndInv, TypeOK
  <2>2. op[w] # "none"
    BY <2>1 DEF IndInv, QueueInv
  <2>3. w \in Int /\ nreq \in Int
    BY <2>1 DEF IndInv, TypeOK, Response
  <2> QED
    BY <2>1, <2>2, <2>3 DEF IndInv, FreshInv
<1>2. sock = "open" /\ peer # "reset"
  BY DEF LineInv, IndInv, TypeOK
<1>3. ASSUME NEW v \in 1..(w - 1), ~On(v) PROVE FALSE
  <2>1. ~On(w)
    BY <1>1, <1>3, EarlierOn DEF IndInv
  <2>2. v \in 1..nreq /\ v < w
    BY <1>1 DEF IndInv, TypeOK, Response
  <2>3. PICK i \in DOMAIN wq : wq[i] = v
    BY <1>2, <1>3, <2>2 DEF LineInv
  <2>4. i < 1
    BY <1>1, <1>3, <2>1, <2>2, <2>3 DEF LineInv
  <2> QED
    BY <2>3, <2>4 DEF IndInv, TypeOK
<1> QED
  BY <1>3

\* Starting a write, or going on with one that has a piece on the wire, keeps the
\* line of the waiting ones.
LEMMA LineWriteSome ==
  ASSUME IndInv, LineInv, NEW w \in Response, WriteSome(w), UNCHANGED <<sock, peer>>,
         \/ nreq' = nreq /\ On(w)
         \/ nreq' = nreq + 1 /\ w = nreq + 1
  PROVE  LineInv'
<1>0. /\ nreq \in Nat /\ nreq' \in Nat /\ wq \in Seq(Response) /\ w \in Nat
      /\ op \in [Response -> {"none", "waiting", "step", "done", "failed", "gone"}]
  BY DEF IndInv, TypeOK, Response
<1>1. ASSUME sock = "closed" \/ peer = "reset", op' = [op EXCEPT ![w] = "failed"],
             UNCHANGED <<wq, wire>>
      PROVE  LineInv'
  BY <1>0, <1>1 DEF LineInv, On
<1>2. ASSUME sock = "open", peer # "reset", op' = [op EXCEPT ![w] = "waiting"],
             wq' = Append(wq, w), UNCHANGED wire
      PROVE  LineInv'
  <2>1. /\ Len(wq) \in Nat /\ DOMAIN wq = 1..Len(wq) /\ DOMAIN wq' = 1..(Len(wq) + 1)
        /\ \A i \in 1..Len(wq) : wq'[i] = wq[i] /\ wq[i] \in Response
        /\ wq'[Len(wq) + 1] = w
    BY <1>0, <1>2
  <2>2. \A v : On(v)' <=> On(v)
    BY <1>2 DEF On
  <2>3. ASSUME NEW v \in 1..nreq' PROVE On(v) \/ \E i \in DOMAIN wq' : wq'[i] = v
    <3>1. CASE v \in 1..nreq
      <4>1. On(v) \/ \E i \in DOMAIN wq : wq[i] = v
        BY <1>2, <3>1 DEF LineInv
      <4> QED
        BY <2>1, <4>1
    <3>2. CASE v = w
      <4>1. Len(wq) + 1 \in DOMAIN wq'
        BY <2>1
      <4> QED
        BY <2>1, <3>2, <4>1
    <3> QED
      BY <1>0, <3>1, <3>2
  <2>4. \A i \in 1..Len(wq) : wq[i] <= nreq
    <3>1. \A i \in 1..Len(wq) : wq[i] \in Response /\ op[wq[i]] = "waiting"
      BY <2>1 DEF IndInv, QueueInv
    <3> QED
      BY <1>0, <3>1 DEF IndInv, FreshInv, Response
  <2>5. ASSUME NEW i \in DOMAIN wq', NEW j \in DOMAIN wq',
               ~On(wq'[i]), ~On(wq'[j]), wq'[i] < wq'[j]
        PROVE  i < j
    <3>1. CASE i \in 1..Len(wq) /\ j \in 1..Len(wq)
      BY <2>1, <2>5, <3>1 DEF LineInv
    <3>2. CASE i \in 1..Len(wq) /\ j = Len(wq) + 1
      BY <2>1, <3>2
    <3>3. CASE i = Len(wq) + 1
      <4>1. wq'[i] = w /\ ~On(w) /\ w = nreq + 1
        BY <2>1, <2>5, <3>3
      <4>2. wq'[j] <= nreq + 1 /\ wq'[j] \in Nat
        <5>1. CASE j \in 1..Len(wq)
          BY <1>0, <2>1, <2>4, <5>1 DEF Response
        <5>2. CASE j = Len(wq) + 1
          BY <1>0, <2>1, <4>1, <5>2
        <5> QED
          BY <2>1, <5>1, <5>2
      <4> QED
        BY <1>0, <2>5, <4>1, <4>2
    <3> QED
      BY <2>1, <3>1, <3>2, <3>3
  <2>6. \A v \in Response : op'[v] = "step" => On(v)
    BY <1>0, <1>2 DEF LineInv
  <2> QED
    BY <1>2, <2>2, <2>3, <2>5, <2>6 DEF LineInv
<1>3. ASSUME sock = "open", peer # "reset", wq = <<>>, wq' = wq,
             NEW k \in 1..(Pieces - Sent(w)), Transfer(w, k)
      PROVE  LineInv'
  <2>1. \A v : On(v)' <=> On(v) \/ v = w
    BY <1>3, TransferOn DEF IndInv
  <2>2. \A v \in Response \ {w} : op'[v] = op[v]
    BY <1>0, <1>3 DEF Transfer
  <2>3. \A v \in 1..nreq : On(v)
    BY <1>3 DEF LineInv
  <2>4. \A v \in 1..nreq' : On(v)'
    BY <1>0, <2>1, <2>3
  <2>5. \A v \in Response : op'[v] = "step" => On(v)'
    BY <2>1, <2>2 DEF LineInv
  <2> QED
    BY <1>3, <2>4, <2>5 DEF LineInv
<1> QED
  BY <1>1, <1>2, <1>3 DEF WriteSome

\* The session is destroyed only when no write waits.
LEMMA LineHandlerReturns ==
  ASSUME IndInv, LineInv, HandlerReturns, UNCHANGED <<wq, wire, nreq, peer>>,
         \A v \in Response : op[v] \in {"waiting", "step"} <=> op'[v] \in {"waiting", "step"},
         \A v \in Response : op'[v] = "step" => op[v] = "step"
  PROVE  LineInv'
<1>1. \A v : On(v)' <=> On(v)
  BY DEF On
<1>2. CASE sock' = sock
  BY <1>1, <1>2 DEF LineInv
<1>3. CASE sock' # sock
  <2>1. sock' = "closed" /\ \A v \in Response : op'[v] \notin {"waiting", "step", "done", "failed"}
    BY <1>3 DEF HandlerReturns
  <2>2. wq = <<>>
    <3>1. ASSUME wq # <<>> PROVE FALSE
      <4>1. 1 \in DOMAIN wq /\ wq[1] \in Response
        BY <3>1 DEF IndInv, TypeOK
      <4>2. op[wq[1]] = "waiting"
        BY <4>1 DEF IndInv, QueueInv
      <4> QED
        BY <2>1, <4>1, <4>2
    <3> QED
      BY <3>1
  <2> QED
    BY <1>1, <2>1, <2>2 DEF LineInv
<1> QED
  BY <1>2, <1>3

\* The first write of the queue leaves it when it has a piece on the wire.
LEMMA LineWritable == IndInv /\ LineInv /\ Writable => LineInv'
<1> SUFFICES ASSUME IndInv, LineInv, Writable PROVE LineInv'
  OBVIOUS
<1> DEFINE w == Head(wq)
<1>1. w \in Response /\ wq # <<>> /\ UNCHANGED <<sock, peer, nreq>>
  BY DEF IndInv, TypeOK, Writable, strandVars
<1>2. PICK k \in 1..(Pieces - Sent(w)) : Transfer(w, k)
  BY DEF Writable
<1>3. \A v : On(v)' <=> On(v) \/ v = w
  BY <1>1, <1>2, TransferOn DEF IndInv
<1>4. \A v \in Response \ {w} : op'[v] = op[v]
  BY <1>1, <1>2 DEF Transfer, IndInv, TypeOK
<1>5. /\ Len(wq) \in Nat \ {0} /\ DOMAIN wq = 1..Len(wq) /\ DOMAIN wq' = 1..(Len(wq) - 1)
      /\ \A i \in 1..(Len(wq) - 1) : wq'[i] = wq[i + 1]
      /\ wq[1] = w
  BY <1>1 DEF Writable, IndInv, TypeOK
<1> HIDE DEF w
<1>6. sock = "open" /\ peer # "reset"
  BY <1>1 DEF LineInv, IndInv, TypeOK
<1>7. ASSUME NEW v \in 1..nreq PROVE On(v)' \/ \E i \in DOMAIN wq' : wq'[i] = v
  <2>1. CASE On(v) \/ v = w
    BY <1>3, <2>1
  <2>2. CASE v # w /\ \E i \in DOMAIN wq : wq[i] = v
    <3>1. PICK i \in DOMAIN wq : wq[i] = v
      BY <2>2
    <3>2. i - 1 \in DOMAIN wq' /\ wq'[i - 1] = wq[(i - 1) + 1] /\ (i - 1) + 1 = i
      BY <1>5, <2>2, <3>1
    <3> QED
      BY <3>1, <3>2
  <2> QED
    BY <1>6, <2>1, <2>2 DEF LineInv
<1>8. ASSUME NEW i \in DOMAIN wq', NEW j \in DOMAIN wq',
             ~On(wq[i])', ~On(wq[j])', wq'[i] < wq'[j]
      PROVE  i < j
  <2>1. /\ wq'[i] = wq[i + 1] /\ wq'[j] = wq[j + 1] /\ i \in Nat /\ j \in Nat
        /\ i + 1 \in DOMAIN wq /\ j + 1 \in DOMAIN wq
    BY <1>5
  <2>2. ~On(wq[i + 1]) /\ ~On(wq[j + 1])
    BY <1>3, <1>8, <2>1 DEF On
  <2>3. i + 1 < j + 1
    BY <1>8, <2>1, <2>2 DEF LineInv
  <2> QED
    BY <2>1, <2>3
<1>9. \A v \in Response : op'[v] = "step" => On(v)'
  BY <1>3, <1>4 DEF LineInv
<1> QED
  BY <1>1, <1>6, <1>7, <1>8, <1>9 DEF LineInv

\* Every step keeps the line, and the order on the wire.
LEMMA OrderStep ==
  IndInv /\ LineInv /\ FirstsInOrder /\ [Next]_vars => LineInv' /\ FirstsInOrder'
<1> SUFFICES ASSUME IndInv, LineInv, FirstsInOrder, [Next]_vars
             PROVE  LineInv' /\ FirstsInOrder'
  OBVIOUS
<1>0. ASSUME UNCHANGED wire PROVE FirstsInOrder' /\ \A v : On(v)' <=> On(v)
  BY <1>0 DEF FirstsInOrder, On
<1>1. CASE UNCHANGED <<wire, op, wq, nreq, sock>> /\ (peer' = "reset" <=> peer = "reset")
  BY <1>0, <1>1 DEF LineInv
<1>2. CASE FailPending /\ UNCHANGED <<wire, nreq>> /\ (sock' = "closed" \/ peer' = "reset")
  BY <1>0, <1>2 DEF LineInv, FailPending
<1>3. CASE Writable
  <2>1. Head(wq) \in Response /\ wq # <<>>
    BY <1>3 DEF IndInv, TypeOK, Writable
  <2>2. PICK k \in 1..(Pieces - Sent(Head(wq))) : Transfer(Head(wq), k)
    BY <1>3 DEF Writable
  <2>3. FirstsInOrder'
    BY <2>1, <2>2, HeadMaySend, FirstsTransfer DEF IndInv
  <2> QED
    BY <1>3, <2>3, LineWritable
<1>4. ASSUME NEW w \in Response, WriteSome(w), UNCHANGED <<sock, peer>>,
             \/ nreq' = nreq /\ On(w)
             \/ nreq' = nreq + 1 /\ w = nreq + 1
      PROVE  LineInv' /\ FirstsInOrder'
  <2>1. LineInv'
    BY <1>4, LineWriteSome
  <2>2. ASSUME NEW k \in 1..(Pieces - Sent(w)), Transfer(w, k), wq = <<>>,
               sock = "open", peer # "reset"
        PROVE  FirstsInOrder'
    <3>1. \A v \in 1..nreq : On(v)
      BY <2>2 DEF LineInv
    <3>2. \A v \in 1..(w - 1) : On(v)
      <4>1. CASE On(w)
        BY <4>1, EarlierOn DEF IndInv
      <4>2. CASE w = nreq + 1
        BY <3>1, <4>2 DEF IndInv, TypeOK
      <4> QED
        BY <1>4, <4>1, <4>2
    <3> QED
      BY <2>2, <3>2, FirstsTransfer DEF IndInv
  <2> QED
    BY <1>0, <1>4, <2>1, <2>2 DEF WriteSome
<1>5. CASE Write
  <2>1. nreq + 1 \in Response
    BY <1>5, ConnectionAssumption DEF Write, IndInv, TypeOK, TodoInv, Response
  <2> QED
    BY <1>4, <1>5, <2>1 DEF Write
<1>6. ASSUME NEW w \in Response, ContinueWrite(w) PROVE LineInv' /\ FirstsInOrder'
  <2>1. On(w)
    BY <1>6 DEF ContinueWrite, LineInv
  <2> QED
    BY <1>4, <1>6, <2>1 DEF ContinueWrite, strandVars
<1>7. ASSUME NEW w \in Response, CompletedRequest(w) PROVE LineInv' /\ FirstsInOrder'
  <2>1. /\ \A v \in Response : op[v] \in {"waiting", "step"} <=> op'[v] \in {"waiting", "step"}
        /\ \A v \in Response : op'[v] = "step" => op[v] = "step"
    BY <1>7 DEF CompletedRequest, IndInv, TypeOK
  <2>2. HandlerReturns /\ UNCHANGED <<wq, wire, nreq, peer>>
    BY <1>7 DEF CompletedRequest, strandVars
  <2> QED
    BY <1>0, <2>1, <2>2, LineHandlerReturns
<1>8. CASE ReceivedError
  <2>1. HandlerReturns /\ UNCHANGED <<wq, wire, nreq, peer, op>>
    BY <1>8 DEF ReceivedError, strandVars
  <2> QED
    BY <1>0, <2>1, LineHandlerReturns
<1> QED
  BY <1>1, <1>2, <1>3, <1>5, <1>6, <1>7, <1>8, WriteSteps

\* Responses reach the wire in the order of their requests and no piece twice, for
\* any number of requests and pieces.
THEOREM WireInOrder == Spec => []StartInOrder
<1>1. Init => PieceInv /\ LineInv /\ FirstsInOrder
  <2> SUFFICES ASSUME Init PROVE PieceInv /\ LineInv /\ FirstsInOrder
    OBVIOUS
  <2>1. ASSUME NEW w PROVE Sent(w) = 0
    <3>1. {i \in DOMAIN wire : wire[i] = w} = {}
      BY DEF Init
    <3> QED
      BY <3>1, FS_EmptySet DEF Sent
  <2>2. PieceInv
    BY <2>1, ConnectionAssumption DEF Init, PieceInv
  <2> QED
    BY <2>2 DEF Init, LineInv, FirstsInOrder
<1>2. PieceInv /\ FirstsInOrder => StartInOrder
  BY DEF PieceInv, FirstsInOrder, StartInOrder
<1> QED
  BY <1>1, <1>2, Invariant, PieceStep, OrderStep, PTL DEF Spec
-----------------------------------------------------------------------------
(***************************************************************************)
(* A peer that waits for its responses.                                    *)
(***************************************************************************)

\* The pieces on the wire are those of the responses before the latest, whole,
\* and after them those of the latest.
WholeInv ==
  /\ \A i \in DOMAIN wire : (wire[i] - 1) * Pieces < i /\ i <= wire[i] * Pieces
  /\ nreq = 0 => Len(wire) = 0
  /\ nreq > 0 => Len(wire) = (nreq - 1) * Pieces + Sent(nreq)
  /\ \A w \in 1..(nreq - 1) : Sent(w) = Pieces

\* A request is read only when all responses are on the wire; until its response
\* is started nothing can be added to them.
AskInv ==
  /\ todo <= 1
  /\ (reading = "ready" \/ pc # "idle") /\ todo = 1 => AllAnswered

\* The product that AllAnswered and WholeInv share.
LEMMA Product == ASSUME NEW n \in Nat PROVE (n - 1) * Pieces + Pieces = n * Pieces
BY ConnectionAssumption

\* When all responses are on the wire, each of them is whole.
LEMMA AnsweredWhole ==
  ASSUME TypeOK, WholeInv, AllAnswered
  PROVE  \A w \in 1..nreq : Sent(w) = Pieces
<1>1. nreq \in Nat /\ Pieces \in Nat /\ Sent(nreq) \in Nat
  BY SentNat, ConnectionAssumption DEF TypeOK
<1>2. nreq > 0 => Sent(nreq) = Pieces
  <2>1. nreq > 0 => (nreq - 1) * Pieces + Sent(nreq) = (nreq - 1) * Pieces + Pieces
    BY <1>1, Product DEF WholeInv, AllAnswered
  <2>2. (nreq - 1) * Pieces \in Int
    BY <1>1
  <2> QED
    BY <1>1, <2>1, <2>2
<1> QED
  BY <1>1, <1>2 DEF WholeInv

\* A transfer adds to the latest response, where the others are whole.
LEMMA WholeTransfer ==
  ASSUME TypeOK, NEW w \in Response, NEW k \in 1..(Pieces - Sent(w)), Transfer(w, k),
         \A i \in DOMAIN wire : (wire[i] - 1) * Pieces < i /\ i <= wire[i] * Pieces,
         Len(wire) = (w - 1) * Pieces + Sent(w),
         \A v \in 1..(w - 1) : Sent(v) = Pieces,
         nreq' = w
  PROVE  WholeInv'
<1>1. /\ w \in Nat \ {0} /\ Pieces \in Nat /\ Sent(w) \in Nat /\ k \in Nat \ {0}
      /\ Sent(w) + k <= Pieces
  BY SentNat, ConnectionAssumption DEF Response
<1>2. Sent(w)' = Sent(w) + k /\ \A v \in Response \ {w} : Sent(v)' = Sent(v)
  BY TransferSent
<1>3. /\ Len(wire) \in Nat /\ DOMAIN wire = 1..Len(wire)
      /\ DOMAIN wire' = 1..(Len(wire) + k) /\ Len(wire') = Len(wire) + k
      /\ \A i \in 1..Len(wire) : wire'[i] = wire[i]
      /\ \A i \in (Len(wire) + 1)..(Len(wire) + k) : wire'[i] = w
  BY TransferWire
<1>4. ASSUME NEW i \in DOMAIN wire'
      PROVE  (wire'[i] - 1) * Pieces < i /\ i <= wire'[i] * Pieces
  <2>1. CASE i \in 1..Len(wire)
    BY <1>3, <2>1
  <2>2. CASE i \in (Len(wire) + 1)..(Len(wire) + k)
    <3>1. (w - 1) * Pieces \in Int /\ w * Pieces \in Int /\ (w - 1) * Pieces + Pieces = w * Pieces
      BY <1>1, Product
    <3>2. (w - 1) * Pieces < i /\ i <= w * Pieces
      BY <1>1, <1>3, <2>2, <3>1
    <3> QED
      BY <1>3, <2>2, <3>2
  <2> QED
    BY <1>1, <1>3, <2>1, <2>2
<1>5. Len(wire') = (w - 1) * Pieces + Sent(w)'
  <2>1. (w - 1) * Pieces \in Int
    BY <1>1
  <2> QED
    BY <1>1, <1>2, <1>3, <2>1
<1>6. \A v \in 1..(w - 1) : Sent(v)' = Pieces
  <2>1. \A v \in 1..(w - 1) : v \in Response \ {w}
    BY <1>1, ConnectionAssumption DEF Response
  <2> QED
    BY <1>2, <2>1
<1>7. Sent(nreq)' = Sent(w)'
  BY DEF Sent
<1> QED
  BY <1>1, <1>4, <1>5, <1>6, <1>7 DEF WholeInv

\* Every step keeps AskInv: while a request is on its way to its response, no write
\* has a piece left to send.
LEMMA AskStep ==
  IndInv /\ PieceInv /\ WholeInv /\ AskInv /\ kind = "waits" /\ [Next]_vars => AskInv'
<1> SUFFICES ASSUME IndInv, PieceInv, WholeInv, AskInv, kind = "waits", [Next]_vars
             PROVE  AskInv'
  OBVIOUS
<1> USE DEF IndInv
<1>0. todo \in Nat /\ nreq \in Nat
  BY DEF TypeOK
<1>1. ASSUME UNCHANGED <<wire, nreq, todo>>,
             reading' = "ready" \/ pc' # "idle" => reading = "ready" \/ pc # "idle"
      PROVE  AskInv'
  BY <1>1 DEF AskInv, AllAnswered
<1>2. ASSUME NEW n \in 0..PerRead, ReadCompletes(n) PROVE AskInv'
  BY <1>2, ConnectionAssumption DEF ReadCompletes, AskInv, AllAnswered, writeVars
<1>3. CASE Write
  <2>1. todo' = todo - 1 /\ todo = 1
    BY <1>0, <1>3 DEF Write, AskInv, TodoInv
  <2> QED
    BY <2>1 DEF AskInv
<1>4. ASSUME NEW w \in Response, op[w] \in {"waiting", "step"}, UNCHANGED <<reading, pc, todo>>
      PROVE  AskInv'
  <2>1. w \in 1..nreq /\ Sent(w) # Pieces
    <3>1. Sent(w) < Pieces /\ Sent(w) \in Nat /\ Pieces \in Nat
      BY <1>4, SentNat, ConnectionAssumption DEF PieceInv
    <3>2. w \in Nat \ {0} /\ ~(w > nreq)
      BY <1>4 DEF FreshInv, Response
    <3> QED
      BY <1>0, <3>1, <3>2
  <2>2. ~AllAnswered
    BY <2>1, AnsweredWhole
  <2> QED
    BY <1>4, <2>2 DEF AskInv
<1>5. CASE Writable
  <2>1. Head(wq) \in Response /\ op[Head(wq)] = "waiting"
    BY <1>5 DEF Writable, TypeOK, QueueInv
  <2> QED
    BY <1>4, <1>5, <2>1 DEF Writable, strandVars
<1>6. ASSUME NEW w \in Response, ContinueWrite(w) PROVE AskInv'
  BY <1>4, <1>6 DEF ContinueWrite, strandVars
<1>7. ASSUME NEW w \in Response, CompletedRequest(w) PROVE AskInv'
  BY <1>1, <1>7 DEF CompletedRequest, strandVars
<1>8. CASE ReceivedReq \/ ReceivedError \/ LogRequestInfo \/ ProcessReq \/ LogMetrics \/ WaitForReq
  BY <1>1, <1>8 DEF ReceivedReq, ReceivedError, LogRequestInfo, ProcessReq, LogMetrics,
                    WaitForReq, writeVars, strandVars
<1>9. CASE PeerFinishes \/ PeerResets \/ TimerExpires \/ Timeout \/ TimeoutAborted
  BY <1>1, <1>9 DEF PeerFinishes, PeerResets, TimerExpires, Timeout, TimeoutAborted,
                    FailPending, strandVars
<1>10. CASE Quiet \/ UNCHANGED vars
  BY <1>1, <1>10 DEF Quiet, vars
<1> QED
  BY <1>2, <1>3, <1>5, <1>6, <1>7, <1>8, <1>9, <1>10 DEF Next, Strand, Outside

\* Every step keeps WholeInv.
LEMMA WholeStep ==
  IndInv /\ PieceInv /\ WholeInv /\ AskInv /\ [Next]_vars => WholeInv'
<1> SUFFICES ASSUME IndInv, PieceInv, WholeInv, AskInv, [Next]_vars
             PROVE  WholeInv'
  OBVIOUS
<1> USE DEF IndInv
<1>0. todo \in Nat /\ nreq \in Nat /\ Pieces \in Nat
  BY ConnectionAssumption DEF TypeOK
<1>1. ASSUME UNCHANGED <<wire, nreq>> PROVE WholeInv'
  BY <1>1 DEF WholeInv, Sent
<1>2. ASSUME NEW w \in Response, op[w] \in {"waiting", "step"}, nreq' = nreq,
             NEW k \in 1..(Pieces - Sent(w)), Transfer(w, k)
      PROVE  WholeInv'
  <2>1. w = nreq /\ nreq > 0
    <3>1. Sent(w) < Pieces /\ Sent(w) \in Nat
      BY <1>2, SentNat, ConnectionAssumption DEF PieceInv
    <3>2. w \in Nat \ {0} /\ ~(w > nreq)
      BY <1>2 DEF FreshInv, Response
    <3>3. w \notin 1..(nreq - 1)
      BY <1>0, <3>1 DEF WholeInv
    <3> QED
      BY <1>0, <3>2, <3>3
  <2>2. /\ \A i \in DOMAIN wire : (wire[i] - 1) * Pieces < i /\ i <= wire[i] * Pieces
        /\ Len(wire) = (w - 1) * Pieces + Sent(w)
        /\ \A v \in 1..(w - 1) : Sent(v) = Pieces
        /\ nreq' = w
    BY <1>2, <2>1 DEF WholeInv
  <2> QED
    BY <1>2, <2>2, WholeTransfer
<1>3. CASE Write
  <2> DEFINE w == nreq + 1
  <2>1. w \in Response /\ op[w] = "none" /\ todo = 1 /\ nreq' = w
    BY <1>0, <1>3, ConnectionAssumption DEF Write, TypeOK, TodoInv, FreshInv, AskInv, Response
  <2>2. Sent(w) = 0
    BY <2>1 DEF PieceInv
  <2>3. AllAnswered
    BY <1>3, <2>1 DEF Write, AskInv
  <2>4. \A v \in 1..(w - 1) : Sent(v) = Pieces
    BY <1>0, <2>3, AnsweredWhole
  <2>5. Len(wire) = (w - 1) * Pieces + Sent(w)
    BY <1>0, <2>2, <2>3 DEF AllAnswered
  <2>6. ASSUME UNCHANGED wire PROVE WholeInv'
    <3>1. \A v : Sent(v)' = Sent(v)
      BY <2>6 DEF Sent
    <3>2. Sent(nreq)' = Sent(w)
      BY <2>1, <2>6 DEF Sent
    <3> QED
      BY <1>0, <2>1, <2>4, <2>5, <2>6, <3>1, <3>2 DEF WholeInv
  <2>7. ASSUME NEW k \in 1..(Pieces - Sent(w)), Transfer(w, k) PROVE WholeInv'
    <3>1. \A i \in DOMAIN wire : (wire[i] - 1) * Pieces < i /\ i <= wire[i] * Pieces
      BY DEF WholeInv
    <3> QED
      BY <2>1, <2>4, <2>5, <2>7, <3>1, WholeTransfer
  <2> QED
    BY <1>3, <2>6, <2>7 DEF Write, WriteSome
<1>4. CASE Writable
  <2>1. Head(wq) \in Response /\ op[Head(wq)] = "waiting"
    BY <1>4 DEF Writable, TypeOK, QueueInv
  <2> QED
    BY <1>2, <1>4, <2>1 DEF Writable, strandVars
<1>5. ASSUME NEW w \in Response, ContinueWrite(w) PROVE WholeInv'
  BY <1>1, <1>2, <1>5 DEF ContinueWrite, WriteSome, strandVars
<1>6. ASSUME NEW w \in Response, CompletedRequest(w) PROVE WholeInv'
  BY <1>1, <1>6 DEF CompletedRequest, strandVars
<1>7. CASE ReceivedError
  BY <1>1, <1>7 DEF ReceivedError, strandVars
<1> QED
  BY <1>1, <1>3, <1>4, <1>5, <1>6, <1>7, WriteSteps

\* Division, as WaitingPeerIntact uses it.
LEMMA Quotient ==
  ASSUME NEW p \in Nat \ {0}, NEW q \in Nat, NEW i \in Nat, q * p <= i, i < q * p + p
  PROVE  i \div p = q
<1>1. PICK r \in 0..(p - 1) : i = q * p + r
  <2>1. q * p \in Nat
    OBVIOUS
  <2>2. i - q * p \in 0..(p - 1) /\ i = q * p + (i - q * p)
    BY <2>1
  <2> QED
    BY <2>2
<1> DEFINE d == i \div p
           m == i % p
<1>2. d \in Int /\ m \in 0..(p - 1) /\ i = d * p + m
  OBVIOUS
<1> HIDE DEF d, m
<1>3. ~(d < q)
  <2>1. ASSUME d < q PROVE FALSE
    <3>1. (d + 1) * p <= q * p
      BY <1>2, <2>1
    <3>2. (d + 1) * p = d * p + p /\ d * p \in Int /\ q * p \in Int
      BY <1>2
    <3> QED
      BY <1>1, <1>2, <3>1, <3>2
  <2> QED
    BY <2>1
<1>4. ~(q < d)
  <2>1. ASSUME q < d PROVE FALSE
    <3>1. (q + 1) * p <= d * p
      BY <1>2, <2>1
    <3>2. (q + 1) * p = q * p + p /\ d * p \in Int /\ q * p \in Int
      BY <1>2
    <3> QED
      BY <1>1, <1>2, <3>1, <3>2
  <2> QED
    BY <2>1
<1>5. d = q
  BY <1>2, <1>3, <1>4
<1> QED
  BY <1>5 DEF d

\* A peer that waits for each response receives them one after the other and
\* whole, for any number of requests and pieces.
THEOREM WaitingPeerServed == Spec => []WaitingPeerIntact
<1> DEFINE Served == kind = "waits" => WholeInv /\ AskInv
<1>1. Init => PieceInv /\ Served
  <2> SUFFICES ASSUME Init PROVE PieceInv /\ WholeInv /\ AskInv
    OBVIOUS
  <2>1. ASSUME NEW w PROVE Sent(w) = 0
    <3>1. {i \in DOMAIN wire : wire[i] = w} = {}
      BY DEF Init
    <3> QED
      BY <3>1, FS_EmptySet DEF Sent
  <2>2. PieceInv
    BY <2>1, ConnectionAssumption DEF Init, PieceInv
  <2> QED
    BY <2>2 DEF Init, WholeInv, AskInv
<1>2. [Next]_vars => kind' = kind
  BY DEF Next, Strand, Outside, ReceivedReq, ReceivedError, LogRequestInfo, ProcessReq,
         LogMetrics, Write, WaitForReq, ContinueWrite, CompletedRequest, ReadCompletes,
         PeerFinishes, PeerResets, TimerExpires, Writable, Timeout, TimeoutAborted, Quiet, vars
<1>3. IndInv /\ PieceInv /\ Served /\ [Next]_vars => Served'
  BY <1>2, AskStep, WholeStep
<1>4. IndInv /\ Served => WaitingPeerIntact
  <2> SUFFICES ASSUME IndInv, WholeInv, NEW i \in DOMAIN wire
               PROVE  wire[i] = 1 + (i - 1) \div Pieces
    BY DEF WaitingPeerIntact, Unmixed
  <2> DEFINE q == wire[i] - 1
  <2>1. q \in Nat /\ wire[i] = 1 + q /\ i - 1 \in Nat /\ Pieces \in Nat \ {0}
    BY ConnectionAssumption DEF IndInv, TypeOK, Response
  <2>2. q * Pieces < i /\ i <= (q + 1) * Pieces
    BY <2>1 DEF WholeInv
  <2> HIDE DEF q
  <2>3. q * Pieces <= i - 1 /\ i - 1 < q * Pieces + Pieces
    <3>1. q * Pieces \in Int /\ (q + 1) * Pieces = q * Pieces + Pieces /\ i \in Int
      BY <2>1 DEF IndInv, TypeOK
    <3> QED
      BY <2>1, <2>2, <3>1
  <2>4. (i - 1) \div Pieces = q
    BY <2>1, <2>3, Quotient
  <2> QED
    BY <2>1, <2>4
<1> QED
  BY <1>1, <1>3, <1>4, Invariant, PieceStep, PTL DEF Spec
=============================================================================
