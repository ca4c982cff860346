----------------------------- MODULE Connection -----------------------------
(***************************************************************************)
(* One session and its tcp_connection, from session::start on: the read    *)
(* operation with its 3 second deadline timer, the request loop of         *)
(* received_req, the write operations it starts, and the reference counts  *)
(* that keep the session alive.                                            *)
(*                                                                         *)
(* Every handler is wrapped by the connection's strand, so at most one     *)
(* runs at a time; handlers whose operations have completed may reach the  *)
(* strand in any order, because two of the 16 threads can carry them       *)
(* there.  While a handler runs, the timer, the kernel and the peer go on. *)
(*                                                                         *)
(* What the parser makes of the bytes of one read is abstracted to the     *)
(* number of requests it yields, a response to its number of pieces, a     *)
(* piece being what one send() can take.                                   *)
(***************************************************************************)
EXTENDS Integers, Sequences, FiniteSets

CONSTANTS
  MaxReq,      \* bound: requests the peer sends on the connection
  PerRead,     \* bound: requests in one read
  Pieces,      \* pieces per response
  Kinds,       \* the kinds of peers: one that "waits" sends a request only when it
               \* has every response, one that "pipelines" does not wait
  MaxQueued    \* bound: timeout handlers that are queued at once

ASSUME ConnectionAssumption ==
  /\ MaxReq \in Nat
  /\ PerRead \in Nat
  /\ Pieces \in Nat \ {0}
  /\ MaxQueued \in Nat \ {0}
  /\ Kinds \subseteq {"waits", "pipelines"}

VARIABLES
  proc,      \* the process: an exception that leaves a handler terminates it
  alive,     \* the session and its connection exist
  sock,      \* the local end of the socket
  peer,      \* the remote end
  kind,      \* the kind of the peer
  timer,     \* whether an async_wait is outstanding on timer_
  due,       \* queued timeout handlers without an error
  aborted,   \* queued timeout handlers with operation_aborted
  reading,   \* the read operation
  pc,        \* where the handler that runs in the strand is
  todo,      \* requests it still has to serve, the current one included
  nreq,      \* responses started so far
  op,        \* op[w]: the write operation of response w
  wq,        \* write operations that wait for the socket, in order
  wire,      \* the pieces handed to the kernel, each named by its response
  bufs       \* responses whose response_builder exists

vars == <<proc, alive, sock, peer, kind, timer, due, aborted, reading, pc, todo,
          nreq, op, wq, wire, bufs>>

strandVars == <<pc, todo, nreq>>
timerVars == <<timer, due, aborted>>
writeVars == <<nreq, op, wq, wire, bufs>>

Response == 1..MaxReq

Sent(w) == Cardinality({i \in DOMAIN wire : wire[i] = w})

\* "waiting" is in the reactor's queue; the other three have a handler queued:
\* a step of async_write with pieces left, or completed_request.
InFlight == {w \in Response : op[w] \in {"waiting", "step", "done", "failed"}}

\* The state when session::start has returned: a read and its timer.
Init ==
  /\ proc = "up"
  /\ alive = TRUE
  /\ sock = "open"
  /\ peer = "up"
  /\ kind \in Kinds
  /\ timer = "armed"
  /\ due = 0
  /\ aborted = 0
  /\ reading = "pending"
  /\ pc = "idle"
  /\ todo = 0
  /\ nreq = 0
  /\ op = [w \in Response |-> "none"]
  /\ wq = <<>>
  /\ wire = <<>>
  /\ bufs = {}
-----------------------------------------------------------------------------
(***************************************************************************)
(* The world outside the strand.                                           *)
(***************************************************************************)

AllAnswered == Len(wire) = nreq * Pieces

\* Bytes that hold n complete requests arrive.
ReadCompletes(n) ==
  /\ reading = "pending"
  /\ peer = "up"
  /\ n <= MaxReq - nreq
  /\ kind = "waits" => n = 0 \/ (n = 1 /\ AllAnswered)
  /\ reading' = "ready"
  /\ todo' = n
  /\ UNCHANGED <<kind, proc, alive, sock, peer, timerVars, pc, writeVars>>

\* The peer shuts its side down; what it sent before has been read.
PeerFinishes ==
  /\ peer = "up"
  /\ peer' = "finished"
  /\ reading' = IF reading = "pending" THEN "failed" ELSE reading
  /\ UNCHANGED <<kind, proc, alive, sock, timerVars, strandVars, op, wq, wire, bufs>>

\* Operations that the reactor holds complete with an error.
FailPending ==
  /\ reading' = IF reading = "pending" THEN "failed" ELSE reading
  /\ op' = [w \in Response |-> IF op[w] = "waiting" THEN "failed" ELSE op[w]]
  /\ wq' = <<>>

PeerResets ==
  /\ peer # "reset"
  /\ peer' = "reset"
  /\ FailPending
  /\ UNCHANGED <<kind, proc, alive, sock, timerVars, strandVars, wire, bufs>>

TimerExpires ==
  /\ timer = "armed"
  /\ due < MaxQueued
  /\ timer' = "off"
  /\ due' = due + 1
  /\ UNCHANGED <<kind, proc, alive, sock, peer, aborted, reading, strandVars,
                 op, wq, wire, bufs>>

\* Hand k pieces of response w to the kernel.
Transfer(w, k) ==
  /\ wire' = wire \o [i \in 1..k |-> w]
  /\ op' = [op EXCEPT ![w] = IF Sent(w) + k = Pieces THEN "done" ELSE "step"]

Writable ==
  /\ wq # <<>>
  /\ \E k \in 1..(Pieces - Sent(Head(wq))) : Transfer(Head(wq), k)
  /\ wq' = Tail(wq)
  /\ UNCHANGED <<kind, proc, alive, sock, peer, timerVars, reading, strandVars, bufs>>

\* async_write_some: fail, queue up behind other writes, or send at once as
\* much as the kernel takes.
WriteSome(w) ==
  \/ /\ sock = "closed" \/ peer = "reset"
     /\ op' = [op EXCEPT ![w] = "failed"]
     /\ UNCHANGED <<wq, wire>>
  \/ /\ sock = "open" /\ peer # "reset"
     /\ op' = [op EXCEPT ![w] = "waiting"]
     /\ wq' = Append(wq, w)
     /\ UNCHANGED wire
  \/ /\ sock = "open" /\ peer # "reset"
     /\ wq = <<>>
     /\ \E k \in 1..(Pieces - Sent(w)) : Transfer(w, k)
     /\ UNCHANGED wq
-----------------------------------------------------------------------------
(***************************************************************************)
(* Handlers.                                                               *)
(***************************************************************************)

Idle == proc = "up" /\ pc = "idle"

Plus1(n) == IF n < MaxQueued THEN n + 1 ELSE n

\* A handler returns and drops its shared_ptr to the session.  With the last
\* one ~session, ~tcp_connection and ~connection run: the timer's wait is
\* aborted and the socket closed.
HandlerReturns ==
  IF reading' # "none" \/ \E w \in Response :
                             op'[w] \in {"waiting", "step", "done", "failed"}
  THEN UNCHANGED <<alive, sock, timer, aborted>>
  ELSE /\ alive' = FALSE
       /\ sock' = "closed"
       /\ timer' = "off"
       /\ aborted' = IF timer = "armed" THEN Plus1(aborted) ELSE aborted

\* Mutant: the timeout only reports, it does not close the socket.
TimeoutNoClose ==
  /\ Idle
  /\ due > 0
  /\ due' = due - 1
  /\ UNCHANGED <<kind, proc, alive, sock, peer, timer, aborted, reading, strandVars,
                 op, wq, wire, bufs>>

\* tcp_connection::timeout without an error closes the socket.  It is bound to
\* the plain pointer this: once the connection is gone its memory is used all
\* the same, and the process may or may not survive that.
Timeout ==
  /\ Idle
  /\ due > 0
  /\ due' = due - 1
  /\ IF alive
     THEN /\ sock' = "closed"
          /\ IF sock = "open" THEN FailPending ELSE UNCHANGED <<reading, op, wq>>
          /\ UNCHANGED proc
     ELSE /\ proc' \in {"up", "terminated"}
          /\ UNCHANGED <<sock, reading, op, wq>>
  /\ UNCHANGED <<kind, alive, peer, timer, aborted, strandVars, wire, bufs>>

\* With an error it returns.
TimeoutAborted ==
  /\ Idle
  /\ aborted > 0
  /\ aborted' = aborted - 1
  /\ UNCHANGED <<kind, proc, alive, sock, peer, timer, due, reading,
                 strandVars, op, wq, wire, bufs>>

\* Mutant: the session deletes itself on a read error.
ReceivedErrorDeletes ==
  /\ Idle
  /\ reading = "failed"
  /\ reading' = "none"
  /\ alive' = FALSE
  /\ sock' = "closed"
  /\ timer' = "off"
  /\ UNCHANGED <<kind, proc, peer, due, aborted, strandVars, op, wq, wire, bufs>>

\* received_req with an error does nothing: no read is started again.
ReceivedError ==
  /\ Idle
  /\ reading = "failed"
  /\ reading' = "none"
  /\ UNCHANGED <<kind, proc, peer, due, strandVars, op, wq, wire, bufs>>
  /\ HandlerReturns

\* Mutant: a request is pushed twice.
ReceivedReqTwice ==
  /\ Idle
  /\ reading = "ready"
  /\ reading' = "none"
  /\ pc' = IF todo = 0 THEN "rearm" ELSE "log"
  /\ todo' = IF todo = 1 /\ nreq + 2 <= MaxReq THEN 2 ELSE todo
  /\ UNCHANGED <<kind, proc, alive, sock, peer, timerVars, nreq, op, wq, wire, bufs>>

\* received_req without an error parses the bytes and goes through requests.
ReceivedReq ==
  /\ Idle
  /\ reading = "ready"
  /\ reading' = "none"
  /\ pc' = IF todo = 0 THEN "rearm" ELSE "log"
  /\ UNCHANGED <<kind, proc, alive, sock, peer, timerVars, todo, nreq, op, wq, wire,
                 bufs>>

\* The throwing overload of remote_endpoint() fails on a socket that was closed
\* or reset; nothing catches the exception on a worker thread.
EndpointKnown == sock = "open" /\ peer # "reset"

LogRequestInfo ==
  /\ proc = "up"
  /\ pc = "log"
  /\ IF EndpointKnown
     THEN pc' = "process" /\ UNCHANGED proc
     ELSE proc' = "terminated" /\ UNCHANGED pc
  /\ UNCHANGED <<kind, alive, sock, peer, timerVars, reading, todo, writeVars>>

\* process_req: a cached or a 400 response is ready, another goes through
\* log_metrics, which tests the endpoint with the overload that does not throw
\* before it calls the one that does.
ProcessReq ==
  /\ proc = "up"
  /\ pc = "process"
  /\ pc' \in IF EndpointKnown THEN {"write", "metrics"} ELSE {"write"}
  /\ UNCHANGED <<kind, proc, alive, sock, peer, timerVars, reading, todo, writeVars>>

LogMetrics ==
  /\ proc = "up"
  /\ pc = "metrics"
  /\ IF EndpointKnown
     THEN pc' = "write" /\ UNCHANGED proc
     ELSE proc' = "terminated" /\ UNCHANGED pc
  /\ UNCHANGED <<kind, alive, sock, peer, timerVars, reading, todo, writeVars>>

\* Mutant: the builder is not bound to the handler and dies with thread_work.
WriteUnbound ==
  /\ proc = "up"
  /\ pc = "write"
  /\ nreq' = nreq + 1
  /\ WriteSome(nreq + 1)
  /\ todo' = todo - 1
  /\ pc' = IF todo = 1 THEN "rearm" ELSE "log"
  /\ UNCHANGED <<kind, proc, alive, sock, peer, timerVars, reading, bufs>>

\* Mutant: requests of one read are handed to threads of their own, which start
\* their writes in any order.
WriteAnyOrder ==
  /\ proc = "up"
  /\ pc = "write"
  /\ nreq' = nreq + 1
  /\ \E w \in {v \in Response : op[v] = "none" /\ v < nreq + todo + 1} :
       bufs' = bufs \cup {w} /\ WriteSome(w)
  /\ todo' = todo - 1
  /\ pc' = IF todo = 1 THEN "rearm" ELSE "log"
  /\ UNCHANGED <<kind, proc, alive, sock, peer, timerVars, reading>>

\* Mutant: the response is counted twice.
WriteMiscounts ==
  /\ proc = "up"
  /\ pc = "write"
  /\ nreq' = nreq + 2
  /\ bufs' = bufs \cup {nreq + 1}
  /\ WriteSome(nreq + 1)
  /\ todo' = todo - 1
  /\ pc' = IF todo = 1 THEN "rearm" ELSE "log"
  /\ UNCHANGED <<kind, proc, alive, sock, peer, timerVars, reading>>

\* thread_work: start the write of the response, whose builder is bound to the
\* handler, and go on with the next request without waiting for it.
Write ==
  /\ proc = "up"
  /\ pc = "write"
  /\ nreq' = nreq + 1
  /\ bufs' = bufs \cup {nreq + 1}
  /\ WriteSome(nreq + 1)
  /\ todo' = todo - 1
  /\ pc' = IF todo = 1 THEN "rearm" ELSE "log"
  /\ UNCHANGED <<kind, proc, alive, sock, peer, timerVars, reading>>

\* Mutant: the next read is started without a timer.
WaitForReqUntimed ==
  /\ proc = "up"
  /\ pc = "rearm"
  /\ pc' = "idle"
  /\ timer' = "off"
  /\ aborted' = IF timer = "armed" THEN Plus1(aborted) ELSE aborted
  /\ reading' = IF sock = "open" /\ peer = "up" THEN "pending" ELSE "failed"
  /\ UNCHANGED <<kind, proc, alive, sock, peer, due, todo, writeVars>>

\* wait_for_req and read: expires_from_now aborts a wait that is outstanding,
\* not one whose handler is queued already.
WaitForReq ==
  /\ proc = "up"
  /\ pc = "rearm"
  /\ pc' = "idle"
  /\ timer' = "armed"
  /\ aborted' = IF timer = "armed" THEN Plus1(aborted) ELSE aborted
  /\ reading' = IF sock = "open" /\ peer = "up" THEN "pending" ELSE "failed"
  /\ UNCHANGED <<kind, proc, alive, sock, peer, due, todo, writeVars>>

\* A step of async_write that has pieces left.
ContinueWrite(w) ==
  /\ Idle
  /\ op[w] = "step"
  /\ WriteSome(w)
  /\ UNCHANGED <<kind, proc, alive, sock, peer, timerVars, reading, strandVars, bufs>>

\* completed_request, after which the handler and its response_builder go.
CompletedRequest(w) ==
  /\ Idle
  /\ op[w] \in {"done", "failed"}
  /\ op' = [op EXCEPT ![w] = "gone"]
  /\ bufs' = bufs \ {w}
  /\ UNCHANGED <<kind, proc, peer, due, reading, strandVars, wq, wire>>
  /\ HandlerReturns
-----------------------------------------------------------------------------
Quiet ==
  /\ \/ proc = "terminated"
     \/ ~alive /\ due = 0 /\ aborted = 0
  /\ UNCHANGED vars

Strand ==
  \/ ReceivedReq
  \/ ReceivedError
  \/ LogRequestInfo
  \/ ProcessReq
  \/ LogMetrics
  \/ Write
  \/ WaitForReq
  \/ \E w \in Response : ContinueWrite(w) \/ CompletedRequest(w)

Outside ==
  \/ \E n \in 0..PerRead : ReadCompletes(n)
  \/ PeerFinishes
  \/ PeerResets
  \/ TimerExpires
  \/ Writable

Next ==
  \/ Strand
  \/ Timeout
  \/ TimeoutAborted
  \/ proc = "up" /\ Outside
  \/ Quiet

Spec == Init /\ [][Next]_vars

(***************************************************************************)
(* The strand runs what is queued in it, and a timer that is not set again *)
(* expires.  Strong fairness for Timeout: it is enabled only between other *)
(* handlers, and the strand is a queue.                                    *)
(***************************************************************************)
Fairness ==
  /\ WF_vars(Strand)
  /\ SF_vars(Timeout)
  /\ WF_vars(proc = "up" /\ TimerExpires)

FairSpec == Spec /\ Fairness
-----------------------------------------------------------------------------
\* Types: no response is counted or queued that the peer has not asked for.
TypeOK ==
  /\ proc \in {"up", "terminated"}
  /\ alive \in BOOLEAN
  /\ sock \in {"open", "closed"}
  /\ peer \in {"up", "finished", "reset"}
  /\ kind \in Kinds
  /\ timer \in {"armed", "off"}
  /\ due \in 0..MaxQueued
  /\ aborted \in 0..MaxQueued
  /\ reading \in {"pending", "ready", "failed", "none"}
  /\ pc \in {"idle", "log", "process", "metrics", "write", "rearm"}
  /\ todo \in 0..MaxReq
  /\ nreq \in 0..MaxReq
  /\ op \in [Response -> {"none", "waiting", "step", "done", "failed", "gone"}]
  /\ wq \in Seq(Response)
  /\ wire \in Seq(Response)
  /\ bufs \subseteq Response

\* README.md: "it is important that the data stored in the Boost buffer remains
\* valid until after the data is completely sent".  A response_builder exists
\* exactly as long as its write operation has not completed, however many
\* sends, other writes and time-outs come in between.
BuffersValid ==
  bufs = InFlight

\* The session is destroyed only when nothing refers to it any more: no read,
\* no write in any of its stages, no running handler.  Its timer can no longer
\* expire either, though an expiry that is queued already stays queued.
DeadIsQuiet ==
  ~alive => /\ reading = "none"
            /\ InFlight = {}
            /\ pc = "idle"
            /\ timer = "off"

\* A session that waits for its peer is always watched: its timer runs or has a
\* queued handler that will close the socket.  This is what keeps a silent peer
\* from holding a place of the accept loop for ever.
WaitIsWatched ==
  alive /\ reading = "pending" => timer = "armed" \/ due > 0

\* Responses reach the wire in the order of the requests: no piece of a later
\* one overtakes the first piece of an earlier one, and no piece is sent twice.
StartInOrder ==
  /\ \A w \in Response : Sent(w) <= Pieces
  /\ \A i \in DOMAIN wire : \A v \in 1..(wire[i] - 1) :
       \E j \in 1..(i - 1) : wire[j] = v

Unmixed == \A i \in DOMAIN wire : wire[i] = 1 + (i - 1) \div Pieces

\* A peer that waits for each response receives them one after the other and
\* whole, though every response is sent in pieces and time-outs, resets and new
\* reads come in between.
WaitingPeerIntact == kind = "waits" => Unmixed

\* connection.h: "TCP which guarantees reliable delivery of the data".  What any
\* peer receives is the responses one after the other, not mixed.
ResponsesIntact == Unmixed

\* README.md: server_main.cc is "catching any runtime exceptions".  No exception
\* thrown in a handler ends the process.
ExceptionsCaught ==
  proc = "up"

\* A session is released in the end unless its peer keeps sending: a peer that
\* is silent, that does not read its responses, or that goes away at any moment
\* costs no more than one time-out.
SessionReleased ==
  <>(~alive \/ proc = "terminated") \/ []<>(reading = "ready")
=============================================================================
