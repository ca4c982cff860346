--------------------------- MODULE MCReverseProxy ---------------------------
(* An instance of ReverseProxy: a destination d whose pages give every kind  *)
(* of reply, a second host e, this server under the name m.                  *)
EXTENDS ReverseProxy

CONSTANTS w1, w2, w3

MCWorker == {w1, w2, w3}
MCPrefix == <<"/", "p", "/">>

d == <<"d">>
e == <<"e">>
f == <<"f">>
MCNames == {d, e, f, <<>>}
MCRefusing == {f}
MCLocal == {<<>>}

At(host, path) == <<"http:", "/", "/">> \o host \o path
To(location) == {Reply("302", <<[name |-> "Location:", value |-> location]>>, <<>>, "eof")}
Type == <<[name |-> "Type:", value |-> <<"t">>]>>
Ok(headers, body, end) == Reply("200", headers, body, end)

\* The name of a page of d below its root.
P(c) == <<"/", c>>

MCWeb ==
  [page \in {<<d, <<"/">>>>, <<d, P("a")>>, <<d, P("s")>>, <<d, P("r")>>, <<d, P("l")>>,
             <<d, P("n")>>, <<d, P("o")>>, <<d, P("h")>>, <<d, P("f")>>, <<d, P("c")>>,
             <<e, P("b")>>, <<<<>>, P("x")>>} |->
     CASE page = <<d, <<"/">>>> -> {Ok(Type, <<"href=", "/", "a", "quote">>, "eof"),
                                    Ok(Type, <<"src=", "/", "quote", "u">>, "reset")}
       [] page = <<d, P("a")>> -> To(At(e, P("b")))
       [] page = <<d, P("s")>> -> To(At(d, P("s")))
       [] page = <<d, P("r")>> -> To(<<"/", "p", "/">>)
       [] page = <<d, P("l")>> -> To(P("x"))
       [] page = <<d, P("n")>> -> {Ok(Type, <<"u">>, "never"), Ok(<<>>, <<"u">>, "never")}
       [] page = <<d, P("o")>> -> {Reply("500", Type, <<>>, "eof"), Reply("302", Type, <<>>, "eof")}
       [] page = <<d, P("h")>> -> {Ok(<<[name |-> "Type:", value |-> <<>>]>>, <<>>, "eof"),
                                   Ok(<<[name |-> "Transfer-Encoding:", value |-> <<>>]>>, <<>>, "eof")}
       [] page = <<d, P("f")>> -> To(At(f, P("x")))
       [] page = <<d, P("c")>> -> To(At(e, P("b") \o <<"?", "q">>))
       [] page = <<e, P("b")>> -> {Ok(<<>>, <<"u", "v">>, "eof"), Ok(<<>>, <<"u", "v">>, "cut")}
       [] page = <<<<>>, P("x")>> -> {Ok(Type, <<"u">>, "eof"), NotFound}]

MCUris ==
  {<<"/", "p">>, <<"/", "p", "x">>}
    \cup {<<"/", "p", "/", c>> : c \in {"a", "s", "r", "l", "n", "o", "h", "f", "c", "z"}}
=============================================================================
