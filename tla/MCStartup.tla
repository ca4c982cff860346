----------------------------- MODULE MCStartup -----------------------------
(* An instance of Startup: configurations of up to three statements of the   *)
(* kinds the code tells apart.                                               *)
EXTENDS Startup

Quoted(s) == <<"q">> \o s \o <<"q">>
Simple(t) == [tokens |-> t, child |-> <<>>]
Port(n) == Simple(<< <<"port">>, n >>)
Loc(uri, name, child) ==
  [tokens |-> << <<"location">>, Quoted(uri), <<name>> >>, child |-> child]
Root(s) == Simple(<< <<"root">>, Quoted(s) >>)
Dest(s) == Simple(<< <<"dest">>, Quoted(s) >>)
Server(block) == [tokens |-> << <<"server">> >>, child |-> <<block>>]
Only(key) == Simple(<< <<key>> >>)

S == <<"/", "s", "/">>
E == <<"/", "e", "/">>
Statements ==
  { Port(<<"80">>), Port(<<"40000">>), Port(<<"70000">>), Port(<<"word">>),
    Server(<<Port(<<"8080">>)>>), Server(<<Server(<<>>), Port(<<"70000">>), Port(<<"80">>)>>),
    [tokens |-> << <<"location">>, Quoted(E) >>, child |-> << <<>> >>],
    Loc(S, "StaticHandler", << <<Root(<<"r">>)>> >>),
    Loc(S, "StaticHandler", << <<Root(<<"r", "/">>), Port(<<"81">>)>> >>),
    Loc(S, "StaticHandler", << <<Only("root")>> >>),
    Loc(S, "StaticHandler", << <<Root(<<>>)>> >>),
    Loc(S, "StaticHandler", << <<>> >>),
    Loc(<<"/", "s">>, "StaticHandler", <<>>),
    Loc(<<>>, "StaticHandler", << <<Root(<<"r">>)>> >>),
    Loc(E, "EchoHandler", <<>>),
    Loc(E, "HealthHandler", << <<>> >>),
    Loc(E, "OtherHandler", << <<>> >>),
    Loc(<<>>, "EchoHandler", << <<>> >>),
    Loc(<<"/">>, "NotFoundHandler", << <<>> >>),
    Loc(E, "StatusHandler", << <<>> >>),
    Loc(S, "ProxyHandler", << <<Dest(<<"h">>)>> >>),
    Loc(S, "ProxyHandler", << <<Dest(<<"h">>), Only("port")>> >>),
    Loc(<<>>, "ProxyHandler", << <<Dest(<<"h">>), Port(<<"82">>)>> >>),
    Loc(E, "ProxyHandler", << <<Dest(<<>>)>> >>) }

Nested == {s.child[1] : s \in {x \in Statements : x.child # <<>>}}
MCBlock ==
  0 :> {b \in Nested : \A i \in DOMAIN b : b[i].child = <<>>} @@
  1 :> Nested @@
  2 :> UNION {[1..n -> Statements] : n \in 0..3}

MCAtoi == <<"80">> :> 80 @@ <<"8080">> :> 8080 @@ <<"40000">> :> 40000 @@
          <<"70000">> :> 70000 @@ <<"word">> :> 0 @@ <<"81">> :> 81 @@ <<"82">> :> 82

MCFiles == <<"r", "/", "f", ".txt">> :> <<"x">> @@
           <<"r", "/", "s", "/", "f">> :> <<"x", "y">> @@
           <<"r", "/", ".html", "/", "f">> :> <<>> @@
           <<"404page.html">> :> <<"n", "o">>

Req(uri) == [uri |-> uri, method |-> "GET", rest |-> <<"CR", "CR">>]
MCRequests ==
  {Req(u) : u \in {S, Front(S), E, <<"/", "x">>, S \o <<"f", ".txt">>, S \o <<"s", "/", "f">>,
                   S \o <<".html", "/", "f">>, S \o <<"g">>}}
    \cup {[Req(E) EXCEPT !.method = "INVALID"]}
=============================================================================
