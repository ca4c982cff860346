--------------------------- MODULE RequestFormat ---------------------------
(***************************************************************************)
(* What a peer sends, by its structure, and what it means: requests of     *)
(* HTTP/1.x as far as request_parser takes them, and data that does not    *)
(* start with a method.  The format is that of the protocol; the parser is *)
(* checked against it.                                                     *)
(***************************************************************************)
EXTENDS RequestParser

Word(S) == Seq(S) \ {<<>>}
TokenChar == {c \in Symbol : Token(c)}
TextChar == {c \in Symbol : ~is_ctl(c)}
Crlf == <<"CR", "LF">>

\* A line that continues the value of a header.
Continuation ==
  {l \in [lws : Word({"SP", "TAB"}), text : Seq(TextChar)] : l.text # <<>> => l.text[1] # "SP"}

\* A length is written without white space before it, which stoi would skip.
Header ==
  {h \in [key : Word(TokenChar), val : Seq(TextChar), more : Seq(Continuation)] :
     h.key = ContentLength /\ h.val # <<>> => h.val[1] # "SP"}

Value(h) == h.val \o FlattenSeq([i \in DOMAIN h.more |-> h.more[i].text])

\* The headers among the first n that are kept: of several with the same key the
\* first.
Kept(hs, n) ==
  {<<hs[i].key, Value(hs[i])>> : i \in {k \in 1..n : \A j \in 1..(k - 1) : hs[j].key # hs[k].key}}

\* The length of the body is that of the last header with one, or 0.
Lengths(hs, n) == {i \in 1..n : hs[i].key = ContentLength}
BodyLength(hs, n) ==
  IF Lengths(hs, n) = {} THEN 0 ELSE Stoi(Value(hs[Max(Lengths(hs, n))]))
Readable(hs) == \A i \in Lengths(hs, Len(hs)) : ~StoiThrows(Value(hs[i]))

\* A request.  The first header is on one line.
Request ==
  {x \in [method : Word(TokenChar), uri : Seq(TextChar \ {"SP"}), major : Word(Digit),
          minor : Word(Digit), headers : Seq(Header), body : Seq(Symbol)] :
     /\ x.headers # <<>> => x.headers[1].more = <<>>
     /\ Readable(x.headers) => Len(x.body) = BodyLength(x.headers, Len(x.headers))}

\* A word that is no method, and a byte that cannot follow it.
Malformed ==
  {x \in [word : Seq(TokenChar), wrong : Symbol \ TokenChar] :
     /\ \A m \in Methods : x.word # Spelling[m]
     /\ x.word # <<>> => x.wrong # "SP"}
-----------------------------------------------------------------------------
ContinuationBytes(l) == l.lws \o l.text \o Crlf
HeaderBytes(h) ==
  h.key \o <<":", "SP">> \o h.val \o Crlf
    \o FlattenSeq([i \in DOMAIN h.more |-> ContinuationBytes(h.more[i])])
LineBytes(x) ==
  x.method \o <<"SP">> \o x.uri \o <<"SP", "H", "T", "T", "P", "/">>
    \o x.major \o <<".">> \o x.minor \o Crlf
HeadBytes(x) == LineBytes(x) \o FlattenSeq([i \in DOMAIN x.headers |-> HeaderBytes(x.headers[i])])

Unreadable == [method |-> "none"]  \* what a length that stoi rejects means

\* What is on the wire, and what it is to be taken for.
SentRequest(x) ==
  [bytes |-> HeadBytes(x) \o Crlf \o x.body,
   means |-> IF ~Readable(x.headers) THEN Unreadable
             ELSE [method |-> Method(x.method), uri |-> x.uri,
                   headers |-> Kept(x.headers, Len(x.headers)), body |-> x.body]]

SentMalformed(x) ==
  [bytes |-> Append(x.word, x.wrong), means |-> [EmptyRequest EXCEPT !.method = "INVALID"]]

Sent(x) == IF x \in Request THEN SentRequest(x) ELSE SentMalformed(x)
=============================================================================
