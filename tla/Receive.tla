------------------------------ MODULE Receive ------------------------------
(***************************************************************************)
(* session::received_req: the loop that parses the bytes of one read, and  *)
(* the request and parser it keeps for the next.  The peer's bytes are one *)
(* stream, and every read delivers some next part of it.                   *)
(***************************************************************************)
EXTENDS RequestFormat

CONSTANTS
  Script,       \* the streams a peer may send, each a sequence of requests
  MaxLen,       \* max_len, the size of data_
  Pipelining,   \* whether the peer sends a request before the last is answered
  MaxRequests   \* bound: the length of the vector requests

ASSUME ReceiveAssumption ==
  /\ Script \subseteq Seq(Request \cup Malformed)
  /\ MaxLen \in Nat \ {0}
  /\ MaxRequests \in Nat \ {0}
  /\ Pipelining \in BOOLEAN

VARIABLES
  script,    \* the stream of this peer, a sequence of [bytes, means]
  lo, hi,    \* data_ holds bytes lo + 1 to hi of the stream
  cur,       \* bytes up to which the running parse() has come
  pc,        \* where received_req is
  rt,        \* result of the last parse()
  parser,    \* request_parser_
  req,       \* request_
  requests,  \* requests, the vector of this call
  served     \* requests handed to thread_work so far

vars == <<script, lo, hi, cur, pc, rt, parser, req, requests, served>>

Stream == FlattenSeq([i \in DOMAIN script |-> script[i].bytes])

\* Where request k of the stream ends.
EndOf(k) == Len(FlattenSeq([i \in 1..k |-> script[i].bytes]))

Init ==
  /\ \E s \in Script : script = [i \in DOMAIN s |-> Sent(s[i])]
  /\ lo = 0
  /\ hi = 0
  /\ cur = 0
  /\ pc = "idle"
  /\ rt = "indeterminate"
  /\ parser = Reset
  /\ req = EmptyRequest
  /\ requests = <<>>
  /\ served = <<>>
-----------------------------------------------------------------------------
\* A peer that does not pipeline has sent at most the request after the last
\* one that was served.
Available ==
  IF Pipelining \/ Len(served) >= Len(script)
  THEN Len(Stream)
  ELSE EndOf(Len(served) + 1)

\* async_read_some completes with the next n bytes.
Read(n) ==
  /\ pc = "idle"
  /\ hi + n <= Available
  /\ lo' = hi
  /\ hi' = hi + n
  /\ cur' = hi
  /\ pc' = "first"
  /\ requests' = <<>>
  /\ UNCHANGED <<script, rt, parser, req, served>>

\* Mutant: the second parse() starts one byte late.
ReturnSkipsByte(res, at, p, r) ==
  IF pc = "first" /\ res # "indeterminate"
  THEN /\ requests' = Append(requests, r)
       /\ req' = EmptyRequest
       /\ parser' = Reset
       /\ cur' = at + p.body_length + 1
       /\ pc' = "second"
  ELSE /\ req' = r
       /\ parser' = p
       /\ cur' = at
       /\ pc' = "test"
       /\ UNCHANGED requests

\* Mutant: only a good request is pushed, invalid data is dropped.
ReturnGoodOnly(res, at, p, r) ==
  /\ req' = IF res = "indeterminate" THEN r ELSE EmptyRequest
  /\ parser' = IF res = "indeterminate" THEN p ELSE Reset
  /\ cur' = at
  /\ requests' = IF pc = "first" /\ res = "good" /\ Len(requests) < MaxRequests
                 THEN Append(requests, r) ELSE requests
  /\ pc' = IF pc = "first" /\ res = "good" THEN "second" ELSE "test"

\* parse() returns: the first call in the loop body pushes the request it has
\* completed and makes a second call behind it, whose result only decides about
\* the loop.
Return(res, at, p, r) ==
  IF pc = "first" /\ res # "indeterminate"
  THEN /\ requests' = IF Len(requests) < MaxRequests
                      THEN Append(requests, r) ELSE requests
       /\ req' = EmptyRequest
       /\ parser' = Reset
       /\ cur' = at + p.body_length
       /\ pc' = "second"
  ELSE /\ req' = r
       /\ parser' = p
       /\ cur' = at
       /\ pc' = "test"
       /\ UNCHANGED requests

\* One turn of the loop in parse().
ParseByte ==
  /\ pc \in {"first", "second"}
  /\ cur < hi
  /\ LET c == Consume(parser, req, Stream[cur + 1])
         r == [c.req EXCEPT !.method = Method(c.parser.method_str)]
         fits == cur + 1 + c.parser.body_length <= hi
     IN  CASE c.res = "indeterminate" ->
                /\ parser' = c.parser
                /\ req' = c.req
                /\ cur' = cur + 1
                /\ UNCHANGED <<pc, rt, requests>>
           [] c.res = "throws" ->
                /\ pc' = "terminated"
                /\ UNCHANGED <<parser, req, cur, rt, requests>>
           [] OTHER ->
                /\ rt' = IF fits THEN c.res ELSE "indeterminate"
                /\ Return(rt', cur + 1, c.parser, r)
  /\ UNCHANGED <<script, lo, hi, served>>

ParseEnds ==
  /\ pc \in {"first", "second"}
  /\ cur = hi
  /\ rt' = "indeterminate"
  /\ Return("indeterminate", cur, parser, req)
  /\ UNCHANGED <<script, lo, hi, served>>

\* Mutant: <= for < in the condition of the loop.
LoopTestLate ==
  /\ pc = "test"
  /\ IF cur + parser.body_length <= hi
     THEN pc' = "first" /\ cur' = lo
     ELSE pc' = "serve" /\ UNCHANGED cur
  /\ UNCHANGED <<script, lo, hi, rt, parser, req, requests, served>>

\* while (body_start + body_len < data_.data() + bytes_transferred)
LoopTest ==
  /\ pc = "test"
  /\ IF cur + parser.body_length < hi
     THEN pc' = "first" /\ cur' = lo
     ELSE pc' = "serve" /\ UNCHANGED cur
  /\ UNCHANGED <<script, lo, hi, rt, parser, req, requests, served>>

\* thread_work for every request, then wait_for_req.
Serve ==
  /\ pc = "serve"
  /\ served' = served \o requests
  /\ pc' = "idle"
  /\ UNCHANGED <<script, lo, hi, cur, rt, parser, req, requests>>

\* The peer has nothing more to send, or the exception of stoi has ended the
\* process.
Over ==
  /\ \/ pc = "terminated"
     \/ pc = "idle" /\ hi = Available
  /\ UNCHANGED vars

Next ==
  \/ \E n \in 1..MaxLen : Read(n)
  \/ ParseByte
  \/ ParseEnds
  \/ LoopTest
  \/ Serve
  \/ Over

Spec == Init /\ [][Next]_vars

\* received_req runs on a thread of its own until it returns.
FairSpec == Spec /\ WF_vars(ParseByte \/ ParseEnds \/ LoopTest \/ Serve)
-----------------------------------------------------------------------------
\* The pointers of the loop stay inside data_, and body_length, which consume
\* counts down, does not pass zero.
TypeOK ==
  /\ 0 <= lo /\ lo <= cur /\ cur <= hi /\ hi <= Len(Stream)
  /\ pc \in {"idle", "first", "second", "test", "serve", "terminated"}
  /\ rt \in {"good", "bad", "indeterminate"}
  /\ parser.state \in State
  /\ parser.body_length \in Nat
  /\ req.method \in Methods \cup {"INVALID"}

\* However the stream is cut into reads, inside a name, between CR and LF or
\* inside a body, received_req serves the requests that were sent, in their
\* order, with their method, URI, headers and body.  The exception of stoi ends the
\* process at the request whose length it rejects and at no other, after those
\* before it have been served.
ServedAsSent ==
  /\ Len(served) <= Len(script)
  /\ \A i \in DOMAIN served : served[i] = script[i].means
  /\ pc = "terminated" => script[Len(served) + 1].means = Unreadable

\* session.cc: "Read until the end of the available data, could be multiple
\* requests. An incomplete request is stored in request_ until the next read."
\* When received_req returns, every request that has arrived completely has been
\* served.
NoneStranded ==
  pc = "idle" =>
    \A k \in DOMAIN script : EndOf(k) <= hi => k <= Len(served)

\* The same comment: received_req comes to the end of the available data.
ReadReturns ==
  pc = "first" ~> pc \in {"idle", "terminated"}
=============================================================================
