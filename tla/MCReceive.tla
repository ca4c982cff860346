----------------------------- MODULE MCReceive -----------------------------
(***************************************************************************)
(* Peers for Receive: requests with and without headers, with a            *)
(* continuation line and with a body, sent in every order and cut into     *)
(* reads in every way.                                                     *)
(***************************************************************************)
EXTENDS Receive

Req(method, uri, headers, body) ==
  [method |-> method, uri |-> uri, major |-> <<"1">>, minor |-> <<"1">>,
   headers |-> headers, body |-> body]
Hdr(key, val) == [key |-> key, val |-> val, more |-> <<>>]
Folded(h, lws, text) == [h EXCEPT !.more = Append(@, [lws |-> lws, text |-> text])]

Plain == Req(Spelling["GET"], <<"/">>, <<>>, <<>>)

TwoLines ==
  Req(Spelling["HEAD"], <<"/">>,
      <<Hdr(<<"a">>, <<"b">>), Folded(Hdr(<<"b">>, <<"a">>), <<"SP", "TAB">>, <<"b">>)>>, <<>>)

\* The second line of a folded value is empty, and a repeated header.
Odd ==
  Req(Spelling["PUT"], <<"a">>,
      <<Hdr(<<"a">>, <<"b">>), Folded(Hdr(<<"a">>, <<"a">>), <<"SP">>, <<>>)>>, <<>>)

\* The body looks like the end of a header.
Body == Req(Spelling["POST"], <<"/">>, <<Hdr(ContentLength, <<"2">>)>>, Crlf)

LengthFirst ==
  Req(Spelling["POST"], <<"/">>, <<Hdr(ContentLength, <<"1">>), Hdr(<<"a">>, <<"1">>)>>, <<"8bit">>)

\* Not a request at all, recognised at its first byte or later.
Noise == [word |-> <<>>, wrong |-> "lparen"]
NoMethod == [word |-> <<"G", "E">>, wrong |-> "CR"]

\* stoi throws on these lengths, at the end of the header or of all headers.
NoLength == Req(Spelling["GET"], <<"/">>, <<Hdr(ContentLength, <<"a">>)>>, <<>>)
NoLengthFirst ==
  Req(Spelling["GET"], <<"/">>, <<Hdr(ContentLength, <<"a">>), Hdr(<<"a">>, <<"a">>)>>, <<>>)

Whole == {Plain, TwoLines, Odd, Body, LengthFirst, Noise}

\* One request after the other, by a peer that waits for its answers.
Waiting ==
  {<<x, y>> : x \in Whole, y \in Whole}
    \cup {<<Body, NoLength>>, <<NoLengthFirst>>, <<NoMethod, Plain>>}

ThreeAtOnce == {<<Plain, Plain, Plain>>}
=============================================================================
