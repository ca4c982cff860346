------------------------------- MODULE Startup -------------------------------
(***************************************************************************)
(* main and the constructor of server: from the parsed configuration to    *)
(* the table of handlers, and what requests then get from the handlers of  *)
(* that table.                                                             *)
(*                                                                         *)
(* A configuration is a block: a sequence of statements [tokens, child],   *)
(* where child is <<>> or <<block>>.  A token is a sequence of characters; *)
(* a word that is never cut is one.                                        *)
(***************************************************************************)
EXTENDS Integers, UriMatch, Handlers

CONSTANTS
  Depth,     \* bound: how deep blocks are nested
  Block,     \* Block[d]: the blocks that nest others d deep; Block[Depth] are the configurations
  Atoi,      \* Atoi[t]: what atoi makes of the token t
  Requests   \* requests [uri, method, rest]

Blocks(d) == IF d = 0 THEN {} ELSE Block[d - 1]
StatementOf(d) == [tokens : Seq(Seq(STRING)), child : {<<>>} \cup {<<b>> : b \in Blocks(d)}]

Requested == [uri : Seq(STRING) \ {<<>>}, method : STRING, rest : Seq(STRING)]

ASSUME StartupAssumption ==
  /\ Depth \in Nat
  /\ \A d \in 0..Depth : Block[d] \subseteq Seq(StatementOf(d))
  /\ Requests \subseteq Requested

VARIABLES
  config,  \* the configuration
  proc,    \* where main is, or how the process has ended
  port,    \* the port the acceptor was given
  todo,    \* locations the constructor has still to visit
  table,   \* location_handlers_
  listed,  \* the locations of the line that log_all_handlers writes
  answer   \* the last response, and what it answers

vars == <<config, proc, port, todo, table, listed, answer>>

None == [of |-> "none"]
-----------------------------------------------------------------------------
(* NginxConfig *)

Own(s) ==
  IF Len(s.tokens) = 2 /\ s.tokens[1] = <<"port">> THEN Atoi[s.tokens[2]] ELSE -1

PortMax == 65535
Ports == 0..PortMax

\* The first port in range of those that the statements of a block give.
FirstIn(found) ==
  LET i == SelectInSeq(found, LAMBDA p : p \in Ports)
  IN  IF i = 0 THEN -1 ELSE found[i]

\* Mutant: a block without a port ends the search.
parse_port_block(stmts) ==
  LET port_in[d \in 0..Depth] ==
        [b \in Block[d] |->
           LET n == SelectInSeq(b, LAMBDA s : s.child # <<>>)
           IN  FirstIn([i \in 1..(IF n = 0 THEN Len(b) ELSE n) |->
                 IF b[i].child # <<>> THEN port_in[d - 1][b[i].child[1]] ELSE Own(b[i])])]
  IN  port_in[Depth][stmts]

\* The first port in range, also in blocks; the tokens before a block are not
\* looked at.
parse_port(stmts) ==
  LET port_in[d \in 0..Depth] ==
        [b \in Block[d] |->
           FirstIn([i \in DOMAIN b |->
             IF b[i].child # <<>> THEN port_in[d - 1][b[i].child[1]] ELSE Own(b[i])])]
  IN  port_in[Depth][stmts]

\* The statement that get_value_from_statement takes the value from, or <<>>.
Statement(block, key) ==
  LET i == SelectInSeq(block, LAMBDA s : s.tokens # <<>> /\ s.tokens[1] = key)
  IN  IF i = 0 THEN <<>> ELSE block[i].tokens

\* substr(1, length - 2), also of a token without quotes.
Unquoted(t) == SubSeq(t, 2, Len(t) - 1)

get_location_result(stmts) ==
  FlattenSeq([i \in DOMAIN stmts |->
    LET s == stmts[i]
    IN  IF Len(s.tokens) = 3 /\ s.tokens[1] = <<"location">>
        THEN <<[uri |-> Unquoted(s.tokens[2]), name |-> s.tokens[3], block |-> s.child]>>
        ELSE <<>>])
-----------------------------------------------------------------------------
(* init of the handlers: the handlers it may return, or how it may end.      *)
Crash == [name |-> <<"crash">>]
Throw == [name |-> <<"throw">>]
Handler(name) == [name |-> name]
NotFoundHandler == Handler(<<"NotFoundHandler">>)
Slashed(u) == IF Last(u) = "/" THEN u ELSE Append(u, "/")

\* A statement of one token: tokens_[1] is read where there is no token.  That may
\* end the process, give a text that cannot be copied, or an empty one.
Undefined(ifEmpty) == {Crash, Throw, ifEmpty}

static_init(uri, block) ==
  LET root == Statement(block, <<"root">>)
  IN  CASE root = <<>> -> {NotFoundHandler}
        [] Len(root) = 1 -> Undefined(NotFoundHandler)
        [] Len(root) > 1 /\ <<>> \in {uri, Unquoted(root[2])} -> {Throw}
        [] OTHER -> {[name |-> <<"StaticHandler">>, prefix |-> Slashed(uri),
                      root |-> Slashed(Unquoted(root[2]))]}

proxy_init(uri, block) ==
  LET dest == Statement(block, <<"dest">>)
      prt == Statement(block, <<"port">>)
      To(p) == [name |-> <<"ProxyHandler">>, prefix |-> Slashed(uri),
                dest |-> Slashed(Unquoted(dest[2])), port |-> p]
  IN  CASE dest = <<>> -> {NotFoundHandler}
        [] Len(dest) = 1 -> Undefined(NotFoundHandler)
        [] Len(dest) > 1 /\ uri = <<>> -> {NotFoundHandler}
        [] Len(dest) > 1 /\ uri # <<>> /\ Unquoted(dest[2]) = <<>> -> {Throw}
        [] OTHER -> CASE prt = <<>> -> {To(<<"80">>)}
                      [] Len(prt) = 1 -> Undefined(To(<<"80">>))
                      [] OTHER -> {To(prt[2])}

\* Handlers that get no block and do not look at it do without.
Known == {<<"EchoHandler">>, <<"StaticHandler">>, <<"StatusHandler">>, <<"NotFoundHandler">>,
          <<"ProxyHandler">>, <<"HealthHandler">>}
Looks == {<<"StaticHandler">>, <<"ProxyHandler">>}
init(l) ==
  CASE l.name \notin Looks -> {Handler(l.name)}
    [] l.name \in Looks /\ l.block = <<>> -> {Crash}
    [] l.name = <<"StaticHandler">> /\ l.block # <<>> -> static_init(l.uri, l.block[1])
    [] OTHER -> proxy_init(l.uri, l.block[1])
-----------------------------------------------------------------------------
Init ==
  /\ config \in Block[Depth]
  /\ proc = "start"
  /\ port = -1
  /\ todo = <<>>
  /\ table = <<>>
  /\ listed = {}
  /\ answer = None

End(how) == proc' = how /\ UNCHANGED <<config, port, todo, table, listed, answer>>

\* main with the wrong number of arguments, or a file that Parse rejects.
Refuse == proc = "start" /\ End("refused")

\* int to short, and short to the unsigned short of an endpoint.
ToShort(n) == ((n + 32768) % 65536) - 32768
ToUShort(n) == n % 65536

Main ==
  /\ proc = "start"
  /\ LET p == parse_port(config)
     IN  IF p = -1 THEN End("no port")
         ELSE /\ proc' = "bind" /\ port' = ToUShort(ToShort(p))
              /\ UNCHANGED <<config, todo, table, listed, answer>>

\* The acceptor is opened before anything else.
Bind ==
  /\ proc = "bind"
  /\ \/ /\ proc' = "add" /\ todo' = get_location_result(config)
        /\ UNCHANGED <<config, port, table, listed, answer>>
     \/ End("denied")
     \/ End("failed")

\* Mutant: a later location takes the place of an earlier one.
InsertOver(uri, h) ==
  [k \in DOMAIN table \cup {uri} |-> IF k = uri THEN h ELSE table[k]]

\* insert leaves a key that is there as it is.
Insert(uri, h) ==
  [k \in DOMAIN table \cup {uri} |-> IF k \in DOMAIN table THEN table[k] ELSE h]

\* Mutant: every handler reads its block.
add_request_handler_reads(l) ==
  \E h \in IF l.block = <<>> THEN {Crash} ELSE init(l) :
    CASE h = Crash -> End("crashed")
      [] h = Throw -> End("failed")
      [] OTHER -> /\ table' = Insert(l.uri, h) /\ todo' = Tail(todo)
                  /\ UNCHANGED <<config, proc, port, listed, answer>>

add_request_handler(l) ==
  \E h \in init(l) :
    CASE h = Crash -> End("crashed")
      [] h = Throw -> End("failed")
      [] OTHER -> /\ table' = Insert(l.uri, h) /\ todo' = Tail(todo)
                  /\ UNCHANGED <<config, proc, port, listed, answer>>

\* One turn of the loop of the constructor.
AddHandler ==
  /\ proc = "add" /\ todo # <<>>
  /\ IF Head(todo).name \in Known THEN add_request_handler(Head(todo))
     ELSE todo' = Tail(todo) /\ UNCHANGED <<config, proc, port, table, listed, answer>>

log_all_handlers ==
  /\ proc = "add" /\ todo = <<>>
  /\ listed' = {<<l.name, l.uri>> : l \in ToSet(get_location_result(config))}
  /\ proc' = "up"
  /\ UNCHANGED <<config, port, todo, table, answer>>

\* Of several longest keys it is the first of the map; any of them here.
BestKeys(uri) ==
  LET keys == {k \in DOMAIN table : Matches(uri, k)}
  IN  {k \in keys : \A l \in keys : Len(l) <= Len(k)}

\* Status and proxy pages are made in modules of their own.
Elsewhere == {<<"StatusHandler">>, <<"ProxyHandler">>}
handle_request(h, r) ==
  CASE h.name = <<"EchoHandler">> -> echo(r)
    [] h.name = <<"HealthHandler">> -> health(r)
    [] h.name = <<"NotFoundHandler">> -> not_found(r)
    [] h.name = <<"StaticHandler">> -> static(h, r)
    [] h.name \in Elsewhere -> NewResponse

\* process_req for a URI that is not in the cache.  With an empty key compare()
\* throws, whatever the URI is.
Request(r) ==
  /\ proc = "up"
  /\ IF r.method # "INVALID" /\ <<>> \in DOMAIN table THEN End("terminated")
     ELSE /\ IF r.method = "INVALID" \/ BestKeys(r.uri) = {}
             THEN answer' = [of |-> r, by |-> <<>>, msg |-> build(make_400_error(NewResponse))]
             ELSE \E k \in BestKeys(r.uri) :
                    answer' = [of |-> r, by |-> k, msg |-> build(handle_request(table[k], r))]
          /\ UNCHANGED <<config, proc, port, todo, table, listed>>

Ended == {"refused", "no port", "denied", "failed", "crashed", "terminated"}
Over == proc \in Ended /\ UNCHANGED vars

Next ==
  \/ Refuse
  \/ Main
  \/ Bind
  \/ AddHandler
  \/ log_all_handlers
  \/ \E r \in Requests : Request(r)
  \/ Over

Spec == Init /\ [][Next]_vars
-----------------------------------------------------------------------------
\* The statements without a block, in the order of the text.
Leaves ==
  LET leaves[d \in 0..Depth] ==
        [b \in Block[d] |->
           FlattenSeq([i \in DOMAIN b |->
             IF b[i].child = <<>> THEN <<b[i]>> ELSE leaves[d - 1][b[i].child[1]]])]
  IN  leaves[Depth][config]

\* The server listens on the first valid port of the file in the order of its
\* text, whatever blocks it is in and after casts to short and back; it gives up
\* for want of a port only if the file has none.
FirstPort ==
  LET ls == Leaves
      valid == {i \in DOMAIN ls : Own(ls[i]) \in Ports}
  IN  /\ proc = "no port" => valid = {}
      /\ proc \notin {"start", "refused", "no port"} =>
           \E i \in valid : port = Own(ls[i]) /\ \A j \in valid : i <= j

Locations == get_location_result(config)

\* The table of a server that is up has a handler for each URI that some location
\* with a known handler names: the handler of the first of them, or the not-found
\* handler in its place.  The status page lists all of these, under that name.
TableRule ==
  proc = "up" =>
    /\ DOMAIN table = {l.uri : l \in {m \in ToSet(Locations) : m.name \in Known}}
    /\ \A uri \in DOMAIN table :
         LET l == Locations[SelectInSeq(Locations, LAMBDA m : m.uri = uri /\ m.name \in Known)]
         IN  /\ table[uri].name \in {l.name, <<"NotFoundHandler">>}
             /\ table[uri].name # l.name => l.name \in Looks
             /\ <<l.name, uri>> \in listed

Short(block) == \E i \in DOMAIN block : Len(block[i].tokens) = 1

\* A server that can listen comes up and stays up unless a location is at fault:
\* a static or proxy location without a block or with a statement of one token in
\* it crashes the process; once up, only an empty URI lets a request end it.
FaultsOnly ==
  /\ proc = "crashed" =>
       \E l \in ToSet(Locations) : l.name \in Looks /\ (l.block = <<>> \/ Short(l.block[1]))
  /\ proc = "terminated" => \E l \in ToSet(Locations) : l.name \in Known /\ l.uri = <<>>

\* Every answer has a status and the length of its body.  The answer of a static
\* location is the file that has the rest of the URI as its path below the root,
\* if there is one and the prefix does not come again in the rest.
Again(prefix, uri) ==
  \E i \in 2..Len(uri) : IsPrefix(prefix, SubSeq(uri, i, Len(uri)))
Answers ==
  answer # None /\ (answer.by # <<>> => table[answer.by].name \notin Elsewhere) =>
    /\ answer.msg.status \in {"200", "400", "404"}
    /\ answer.msg.headers["Content-Length"] = Len(answer.msg.body)
    /\ LET h == table[answer.by]
           path == h.root \o SubSeq(answer.of.uri, Len(h.prefix) + 1, Len(answer.of.uri))
       IN  answer.by # <<>> /\ h.name = <<"StaticHandler">> /\ IsPrefix(h.prefix, answer.of.uri)
             /\ ~Again(h.prefix, answer.of.uri) /\ h.prefix # answer.of.uri
             /\ path \in DOMAIN Files
           => answer.msg.status = "200" /\ answer.msg.body = Files[path]
=============================================================================
