---------------------------- MODULE ReverseProxy ----------------------------
(***************************************************************************)
(* reverse_proxy_request_handler on the threads of the pool: the URI it    *)
(* asks the destination for, the blocking exchange of send_request, the    *)
(* redirects it follows, the answer it makes of the reply.                 *)
(*                                                                         *)
(* Text is a sequence of symbols.  A reply arrives in pieces: each read    *)
(* returns with as much as it needs or with more.  A destination may be    *)
(* this server, whose pages take another thread of the same pool.          *)
(***************************************************************************)
EXTENDS Naturals, Sequences, SequencesExt, FiniteSets, FiniteSetsExt

CONSTANTS
  Worker,     \* threads of the pool
  Prefix,     \* prefix_: the location of the handler
  Dest,       \* host_: the host of the configured destination
  Uris,       \* URIs that clients ask for and process_req gives to this handler
  Web,        \* Web[<<host, uri>>]: the replies a page may give
  Names,      \* hosts that can be resolved
  Refusing,   \* of these, the ones that refuse connections
  Local,      \* of these, the ones that are this server
  MaxClients  \* bound: requests of clients in progress at a time

ASSUME ProxyAssumption ==
  /\ MaxClients \in Nat
  /\ Prefix \in Seq(STRING) /\ Prefix # <<>> /\ Prefix[Len(Prefix)] = "/"
  /\ Refusing \cup Local \subseteq Names

VARIABLES
  job,   \* job[w]: what thread w is doing
  last,  \* the response that handle_request has returned, until its next call
  proc   \* the process

vars == <<job, last, proc>>

Client == "client"  \* whom a thread works for, unless for a thread that waits

\* headers: a sequence of [name, value]; end: how the connection ends, at the end
\* of the reply ("eof"), early ("cut"), by a reset ("reset") or never.
Reply(code, headers, body, end) ==
  [code |-> code, headers |-> headers, body |-> body, end |-> end]
NoReply == Reply("none", <<>>, <<>>, "eof")
NotFound == Reply("404", <<>>, <<>>, "eof")
Page(host, uri) == IF <<host, uri>> \in DOMAIN Web THEN Web[<<host, uri>>] ELSE {NotFound}

\* A page gives replies whose header lines are single lines; this server sends its
\* pages whole.
WellFormed(r) ==
  r \in [code : STRING \ {"none"}, body : Seq(STRING), end : {"eof", "cut", "reset", "never"},
         headers : Seq([name : STRING \ {"CR"}, value : Seq(STRING \ {"CR"})])]

ASSUME WebAssumption ==
  /\ Client \notin Worker
  /\ \A p \in DOMAIN Web : \A r \in Web[p] : WellFormed(r) /\ (p[1] = <<>> => r.end = "eof")

NoAnswer == [code |-> "none", body |-> <<>>, page |-> NoReply, sent |-> 0]
Idle == [pc |-> "idle", by |-> Client, host |-> <<>>, uri |-> <<>>, page |-> NoReply,
         sent |-> 0, wire |-> <<>>, fin |-> "open", buf |-> <<>>, body |-> <<>>,
         content |-> <<>>]

Busy(w) == job[w] # Idle
-----------------------------------------------------------------------------
(* Text.  "http:" is the scheme with its colon, "CR" the end of a line, a    *)
(* header name the name with its colon.                                      *)
Before(s, c) ==
  LET i == SelectInSeq(s, LAMBDA e : e = c) IN IF i = 0 THEN s ELSE SubSeq(s, 1, i - 1)
From(s, c) == SubSeq(s, Len(Before(s, c)) + 1, Len(s))
Past(s, c) == SubSeq(s, Len(Before(s, c)) + 2, Len(s))

Slashed(u) == IF Last(u) = "/" THEN u ELSE Append(u, "/")
Proxied(u) == u # <<>> /\ IsPrefix(Prefix, Slashed(u))

\* Where find(prefix_) finds it, or 0.
PrefixAt(s) ==
  SelectInSeq([i \in 1..Len(s) |-> SubSeq(s, i, Len(s))], LAMBDA t : IsPrefix(Prefix, t))

\* Mutant: the "/" added for the search is left in place.
NewUriSlashed(s) == SubSeq(s, PrefixAt(s) + Len(Prefix) - 1, Len(s))

\* The URI at the destination: from the end of the prefix, without a final "/".
NewUri(s) ==
  LET t == SubSeq(s, PrefixAt(s) + Len(Prefix) - 1, Len(s))
  IN  IF t = <<"/">> THEN t ELSE Front(t)

\* href="/ and src="/ lead to the location of the handler.
Attribute == {"href=", "src="}
Rewrite(s) ==
  FlattenSeq([i \in 1..Len(s) |->
    IF s[i] = "/" /\ i > 1 /\ s[i - 1] \in Attribute THEN Prefix ELSE <<s[i]>>])

HasScheme(s) == \E i \in 1..(Len(s) - 2) : SubSeq(s, i, i + 2) = <<"http:", "/", "/">>

\* For text with a scheme.
parse_url(s) ==
  LET rest == SubSeq(s, Len(Before(s, "http:")) + 4, Len(s))
      at == From(rest, "/")
  IN  [host |-> Before(rest, "/"), path |-> Before(at, "?"), query |-> Past(at, "?")]

\* The reply as it is sent.
HeaderLine(h) == <<h.name>> \o (IF h.value = <<>> THEN <<>> ELSE <<"SP">> \o h.value) \o <<"CR">>
HeaderText(r) == FlattenSeq([i \in DOMAIN r.headers |-> HeaderLine(r.headers[i])])
Stream(r) == <<r.code>> \o HeaderText(r) \o <<"CR">> \o r.body

\* The header loop reads lines up to an empty one, or to the end of the text.
EmptyLines(s) == {i \in 1..Len(s) : s[i] = "CR" /\ (i = 1 \/ s[i - 1] = "CR")}
HeadLen(s) == IF EmptyLines(s) = {} THEN Len(s) ELSE Min(EmptyLines(s)) - 1
Rest(s) == SubSeq(s, HeadLen(s) + 2, Len(s))
LineEnds(s) == {i \in 1..HeadLen(s) : s[i] = "CR" \/ i = Len(s)}
LineStart(s, i) == Max({0} \cup {k \in 1..(i - 1) : s[k] = "CR"}) + 1

\* A line is taken without its last character, the "\r" unless the text ends
\* inside the line.  substr(find(":") + 2) is out of range when the colon is last
\* then; a name that has lost its colon gives its own end.
ThrowsAt(s, i) == i = LineStart(s, i) + 1
HeaderValue(s, i) ==
  IF i = LineStart(s, i) THEN <<"ocation">> ELSE SubSeq(s, LineStart(s, i) + 2, i - 1)
NamesLocation(s, i) == s[LineStart(s, i)] \in {"Location:", "Content-Location:"}
-----------------------------------------------------------------------------
(* Steps of a thread *)
Throw == proc' = "terminated" /\ UNCHANGED <<job, last>>

\* The response goes to the client, or to the thread that has asked for it.
Answer(w, code, body) == [code |-> code, body |-> body, page |-> job[w].page, sent |-> job[w].sent]
Return(w, code, body) ==
  /\ LET j == [job EXCEPT ![w] = Idle]
         r == Reply(code, <<>>, body, "eof")
     IN  job' = IF job[w].by = Client THEN j
                ELSE [j EXCEPT ![job[w].by].page = r, ![job[w].by].wire = Stream(r),
                               ![job[w].by].sent = Len(Stream(r))]
  /\ last' = Answer(w, code, body)
  /\ UNCHANGED proc

throw_400_error(w) == Return(w, "400", <<>>)

\* resolve, connect and the write are tried from here.
Ask(w, host, uri) ==
  /\ job' = [job EXCEPT ![w] = [Idle EXCEPT !.pc = "send", !.by = job[w].by,
                                            !.host = host, !.uri = uri]]
  /\ UNCHANGED <<last, proc>>

\* A thread calls handle_request: for a client, or for a request to this server
\* that another thread has sent and is waiting for.
Call(w, by, uri) ==
  /\ ~Busy(w)
  /\ job' = [job EXCEPT ![w] = [Idle EXCEPT !.pc = "handle", !.by = by, !.uri = uri]]
  /\ last' = NoAnswer
  /\ UNCHANGED proc

Take(w) ==
  /\ Cardinality({v \in Worker : Busy(v) /\ job[v].by = Client}) < MaxClients
  /\ \E u \in Uris : Call(w, Client, u)

\* v waits for this server, and no thread has begun to make its page.
Waits(v) ==
  /\ job[v].pc = "first" /\ job[v].host \in Local
  /\ job[v].page = NoReply /\ job[v].fin = "open"
Unserved(v) == Waits(v) /\ \A w \in Worker : Busy(w) => job[w].by # v

\* Other handlers of this server answer at once.
Serve(w, v) ==
  /\ ~Busy(w) /\ Unserved(v)
  /\ IF Proxied(job[v].uri) THEN Call(w, v, job[v].uri)
     ELSE /\ \E r \in Page(<<>>, job[v].uri) :
               job' = [job EXCEPT ![v].page = r, ![v].wire = Stream(r), ![v].sent = Len(Stream(r))]
          /\ UNCHANGED <<last, proc>>

\* Mutant: the timer is not on the strand of the connection.
TimeoutAnytime(w, v) ==
  /\ ~Busy(w) /\ Busy(v) /\ job[v].pc \notin {"handle", "send"}
  /\ job[v].host \in Local /\ job[v].fin = "open"
  /\ job' = [job EXCEPT ![v].fin = "eof"]
  /\ UNCHANGED <<last, proc>>

\* This server keeps the connection open until its timer expires, before the
\* request has been read or after the page is made; a thread of the pool has to
\* run the handler that closes it.
Timeout(w, v) ==
  /\ ~Busy(w) /\ Busy(v) /\ job[v].pc \notin {"handle", "send"}
  /\ job[v].host \in Local /\ job[v].fin = "open"
  /\ \A u \in Worker : Busy(u) => job[u].by # v
  /\ job' = [job EXCEPT ![v].fin = "eof"]
  /\ UNCHANGED <<last, proc>>

handle_request(w) ==
  /\ job[w].pc = "handle"
  /\ LET s == Slashed(job[w].uri)
     IN  CASE Dest = <<>> -> throw_400_error(w)
           [] Dest # <<>> /\ PrefixAt(s) = 0 -> Return(w, "404", <<>>)
           [] OTHER -> Ask(w, Dest, NewUri(s))

\* How much of a reply is sent before its connection ends.
Lengths(r) == IF r.end \in {"cut", "reset"} THEN 0..Len(Stream(r)) ELSE {Len(Stream(r))}
Ending(r) == CASE r.end = "never" -> "open" [] r.end = "reset" -> "reset" [] OTHER -> "eof"

\* An empty host name resolves, to this machine.
Send(w) ==
  /\ job[w].pc = "send"
  /\ LET h == job[w].host
     IN  CASE h \notin Names \/ h \in Refusing -> throw_400_error(w)
           [] h \in Local -> /\ job' = [job EXCEPT ![w].pc = "first"]
                             /\ UNCHANGED <<last, proc>>
           [] OTHER -> /\ \E r \in Page(h, job[w].uri) : \E n \in Lengths(r) :
                            job' = [job EXCEPT ![w].pc = "first", ![w].page = r, ![w].sent = n,
                                       ![w].wire = SubSeq(Stream(r), 1, n), ![w].fin = Ending(r)]
                       /\ UNCHANGED <<last, proc>>

\* Mutant: the location is not compared with the page it comes from.
handle_redirect_again(w, location) ==
  LET to == parse_url(IF HasScheme(location) THEN location
                      ELSE <<"http:", "/", "/">> \o location)
  IN  Ask(w, to.host, to.path \o to.query)

\* get_proxy_request joins path and query.
handle_redirect(w, location) ==
  LET to == parse_url(IF HasScheme(location) THEN location
                      ELSE <<"http:", "/", "/">> \o location)
  IN  IF to.host = job[w].host /\ to.path = job[w].uri THEN throw_400_error(w)
      ELSE Ask(w, to.host, to.path \o to.query)

\* Only what came with the status line is searched for the location.
Redirect(w, text) ==
  LET found == {i \in LineEnds(text) : NamesLocation(text, i)}
      line == Min(found)
  IN  CASE found = {} -> throw_400_error(w)
        [] found # {} /\ ThrowsAt(text, line) -> Throw
        [] OTHER -> handle_redirect(w, HeaderValue(text, line))

\* read_until returns with the status line, or with nothing when the connection
\* has ended; its error is not looked at.
ReadStatus(w) ==
  /\ job[w].pc = "first"
  /\ \/ job[w].wire = <<>> /\ job[w].fin # "open" /\ throw_400_error(w)
     \/ \E n \in 1..Len(job[w].wire) :
          LET code == job[w].wire[1]
              text == SubSeq(job[w].wire, 2, n)
          IN  CASE code \in {"301", "302"} -> Redirect(w, text)
                [] code = "404" -> Return(w, "404", <<>>)
                [] code = "200" ->
                     /\ job' = [job EXCEPT ![w].pc = "headers", ![w].buf = text,
                                           ![w].wire = SubSeq(@, n + 1, Len(@))]
                     /\ UNCHANGED <<last, proc>>
                [] OTHER -> throw_400_error(w)

HeaderEnds(s) == \E i \in 1..(Len(s) - 1) : s[i] = "CR" /\ s[i + 1] = "CR"

\* The first n symbols on the wire are what read_until needs, or more of them.
Suffices(w, n) ==
  LET s == job[w].buf \o SubSeq(job[w].wire, 1, n)
  IN  IF HeaderEnds(job[w].buf) THEN n = 0
      ELSE HeaderEnds(s) \/ (n = Len(job[w].wire) /\ job[w].fin # "open")

\* An error, which is not looked at, is reported once: after it comes the end.
ReadHeaders(w) ==
  /\ job[w].pc = "headers"
  /\ \E n \in 0..Len(job[w].wire) :
       /\ Suffices(w, n)
       /\ LET s == job[w].buf \o SubSeq(job[w].wire, 1, n)
          IN  IF \E i \in LineEnds(s) :
                   ThrowsAt(s, i) /\ s[LineStart(s, i)] # "Transfer-Encoding:"
              THEN Throw
              ELSE /\ job' = [job EXCEPT ![w].pc = "body", ![w].buf = <<>>, ![w].body = Rest(s),
                                         ![w].wire = SubSeq(@, n + 1, Len(@)),
                                         ![w].fin = IF HeaderEnds(s) \/ @ = "open" THEN @ ELSE "eof"]
                   /\ UNCHANGED <<last, proc>>

\* Mutant: what is in the buffer is added to what was there before.
ReadBodyAdds(w) ==
  /\ job[w].pc = "body"
  /\ \E n \in 1..Len(job[w].wire) :
       LET s == job[w].buf \o SubSeq(job[w].wire, 1, n)
       IN  job' = [job EXCEPT ![w].buf = s, ![w].content = @ \o s,
                              ![w].wire = SubSeq(@, n + 1, Len(@))]
  /\ UNCHANGED <<last, proc>>

\* Nothing is taken out of the buffer, which grows until the end.
ReadBody(w) ==
  /\ job[w].pc = "body"
  /\ \E n \in 1..Len(job[w].wire) :
       LET s == job[w].buf \o SubSeq(job[w].wire, 1, n)
       IN  job' = [job EXCEPT ![w].buf = s, ![w].content = s,
                              ![w].wire = SubSeq(@, n + 1, Len(@))]
  /\ UNCHANGED <<last, proc>>

BodyEnds(w) ==
  /\ job[w].pc = "body" /\ job[w].wire = <<>> /\ job[w].fin # "open"
  /\ IF job[w].fin = "reset" THEN Throw
     ELSE Return(w, "200", Rewrite(job[w].body \o job[w].content))

\* A destination may leave a thread waiting for ever: no read has a time limit.
Hangs(w) == Busy(w) /\ job[w].fin = "open" /\ job[w].page.end = "never"
Silence == (\E w \in Worker : Hangs(w)) /\ UNCHANGED vars

Init ==
  /\ job = [w \in Worker |-> Idle]
  /\ last = NoAnswer
  /\ proc = "up"

send_request(w) ==
  \/ Send(w)
  \/ ReadStatus(w)
  \/ ReadHeaders(w)
  \/ ReadBody(w)
  \/ BodyEnds(w)

Next ==
  \/ /\ proc = "up"
     /\ \E w \in Worker :
          \/ Take(w)
          \/ handle_request(w)
          \/ send_request(w)
          \/ \E v \in Worker : Serve(w, v) \/ Timeout(w, v)
  \/ Silence
  \/ proc = "terminated" /\ UNCHANGED vars

\* A thread that can go on does, and what waits in the queue of the io_service
\* is run when threads come free again and again.
Fairness ==
  \A w \in Worker :
    /\ WF_vars(proc = "up" /\ (handle_request(w) \/ send_request(w)))
    /\ SF_vars(proc = "up" /\ \E v \in Worker : Serve(v, w))
    /\ SF_vars(proc = "up" /\ \E v \in Worker : Timeout(v, w))

Spec == Init /\ [][Next]_vars
FairSpec == Spec /\ Fairness
-----------------------------------------------------------------------------
Whole(j) == j.sent = Len(Stream(j.page))

\* The header with its final empty line had been sent, and had a line.
HeaderSent(j) == j.page.headers # <<>> /\ j.sent >= Len(HeaderText(j.page)) + 2

\* The variables have their types, and a thread that makes a page of this server
\* for another does so while that one waits for it, and alone.
TypeOK ==
  /\ DOMAIN job = Worker
  /\ \A w \in Worker :
       /\ DOMAIN job[w] = DOMAIN Idle
       /\ job[w].pc \in {"idle", "handle", "send", "first", "headers", "body"}
       /\ job[w].by \in Worker \cup {Client}
       /\ job[w].fin \in {"open", "eof", "reset"}
       /\ LET makers == {v \in Worker : Busy(v) /\ job[v].by = w}
          IN  makers # {} => Waits(w) /\ Cardinality(makers) = 1
  /\ last.code \in {"none", "200", "400", "404"}
  /\ proc \in {"up", "terminated"}

\* A reply that send_request may throw on: it is cut short, has a header without
\* a value, or is a redirect, whose header is looked at before all of it has come.
Hard(r) ==
  \/ r.end \in {"cut", "reset"} \/ r.code \in {"301", "302"}
  \/ \E i \in DOMAIN r.headers : r.headers[i].value = <<>>

\* However the reply is cut into reads, a 200 has the whole body of a page that is
\* a 200, with its links rewritten, once.  Without an error it lacks a part only if
\* the destination closed the connection early, or reset it before the end of its
\* header: a reset after that makes send_request throw, which ends the process.
\* Other than hard replies do not make it throw.
BodyIntact ==
  /\ last.code = "200" =>
       /\ last.page.code = "200"
       /\ Whole(last) => last.body = Rewrite(last.page.body)
       /\ HeaderSent(last) => last.page.end # "reset"
  /\ proc = "terminated" => \E w \in Worker : Hard(job[w].page)

\* The links of a body, each up to its closing quote.
Links(s) ==
  {Before(SubSeq(s, i + 1, Len(s)), "quote") : i \in {k \in DOMAIN s : s[k] \in Attribute}}

Trimmed(u) == IF Len(u) > 1 /\ Last(u) = "/" THEN Front(u) ELSE u

\* The links of a page, once rewritten, lead back to where they led: a client
\* that follows one makes handle_request ask the destination for the same path,
\* but for a final "/".
LinksComeBack ==
  last.code = "200" /\ Whole(last) =>
    {NewUri(Slashed(l)) : l \in Links(last.body)} = {Trimmed(l) : l \in Links(last.page.body)}

\* A thread that has begun a request gets to its end, if pages do not redirect
\* in circles of two or more: a page that redirects to itself is noticed.  The
\* exceptions are a destination that never ends its reply, and the end of the
\* process.  Pages of this server are made as long as clients leave a thread free.
Answered ==
  \A w \in Worker : Busy(w) ~> (~Busy(w) \/ Hangs(w) \/ proc = "terminated")
=============================================================================
