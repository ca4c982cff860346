--------------------------- MODULE RequestParser ---------------------------
(***************************************************************************)
(* request_parser.cc: the character-by-character machine consume() and the *)
(* state it keeps between two reads.                                       *)
(*                                                                         *)
(* Bytes are abstracted to the classes consume() tells apart.  A letter    *)
(* that no state singles out is "a", another tspecial "lparen", a byte     *)
(* above 127 "8bit", a blank "SP"; "Content-Length" is one symbol, because *)
(* only the whole name is ever looked at; "0" to "9" are the digits.       *)
(***************************************************************************)
EXTENDS Integers, Sequences, SequencesExt

Digits == <<"0", "1", "2", "3", "4", "5", "6", "7", "8", "9">>
Digit == ToSet(Digits)
DigitValue(d) == (CHOOSE i \in 1..10 : Digits[i] = d) - 1

Symbol ==
  Digit \cup {"G", "E", "T", "P", "O", "S", "U", "H", "A", "D", "a", "b", "Content-Length",
              "SP", "TAB", "CR", "LF", "/", ":", ".", "lparen", "8bit"}

is_char(c) == c # "8bit"
is_ctl(c) == c \in {"CR", "LF", "TAB"}
is_tspecial(c) == c \in {"SP", "TAB", "/", ":", "lparen"}
is_digit(c) == c \in Digit

Token(c) == is_char(c) /\ ~is_ctl(c) /\ ~is_tspecial(c)

\* The request under construction and the parser's own fields.  version_ is left
\* out: neither the parser nor received_req reads it.
EmptyRequest ==
  [method |-> "GET", uri |-> <<>>, headers |-> {}, body |-> <<>>]

Reset ==
  [state |-> "method_start", header_key |-> <<>>, header_val |-> <<>>,
   method_str |-> <<>>, body_length |-> 0]

Methods == {"GET", "POST", "PUT", "HEAD"}
Spelling ==
  [m \in Methods |->
    CASE m = "GET"  -> <<"G", "E", "T">>
      [] m = "POST" -> <<"P", "O", "S", "T">>
      [] m = "PUT"  -> <<"P", "U", "T">>
      [] m = "HEAD" -> <<"H", "E", "A", "D">>]

\* parse() sets the method of a request whose end or whose error it has found.
Method(str) ==
  IF \E m \in Methods : Spelling[m] = str
  THEN CHOOSE m \in Methods : Spelling[m] = str
  ELSE "INVALID"
-----------------------------------------------------------------------------
\* std::stoi on a header value that starts with neither a sign nor white space:
\* the number its leading digits spell.
LeadingDigits(val) ==
  SubSeq(val, 1, CHOOSE n \in 0..Len(val) :
                   /\ \A i \in 1..n : val[i] \in Digit
                   /\ n < Len(val) => val[n + 1] \notin Digit)
Stoi(val) ==
  FoldLeft(LAMBDA n, d : 10 * n + DigitValue(d), 0, LeadingDigits(val))

\* It throws where there is no digit, and where the number is not an int.
IntMax == 2147483647
StoiThrows(val) == LeadingDigits(val) = <<>> \/ Stoi(val) \notin 0..IntMax

\* States that accept one symbol and go on.
Literal ==
  [http_version_h     |-> [sym |-> "H",  next |-> "http_version_t_1"],
   http_version_t_1   |-> [sym |-> "T",  next |-> "http_version_t_2"],
   http_version_t_2   |-> [sym |-> "T",  next |-> "http_version_p"],
   http_version_p     |-> [sym |-> "P",  next |-> "http_version_slash"],
   http_version_slash |-> [sym |-> "/",  next |-> "http_version_major_start"],
   expecting_newline_1 |-> [sym |-> "LF", next |-> "header_line_start"],
   space_before_header_value |-> [sym |-> "SP", next |-> "header_value"],
   expecting_newline_2 |-> [sym |-> "LF", next |-> "header_line_start"]]

\* States that accept a digit and go on, and states that accept digits until
\* the symbol that ends the number.
FirstDigit ==
  [http_version_major_start |-> "http_version_major",
   http_version_minor_start |-> "http_version_minor"]
MoreDigits ==
  [http_version_major |-> [sym |-> ".",  next |-> "http_version_minor_start"],
   http_version_minor |-> [sym |-> "CR", next |-> "expecting_newline_1"]]

State ==
  {"method_start", "method", "uri", "header_line_start", "header_lws",
   "header_name", "header_value", "expecting_newline_3", "body"}
    \cup DOMAIN Literal \cup DOMAIN FirstDigit \cup DOMAIN MoreDigits

ContentLength == <<"Content-Length">>

\* The header that ends here goes into the request; the key decides about the
\* length of the body.  insert() keeps the first value of a repeated key.
StoreHeader(p, r) ==
  IF p.header_key = <<>> THEN r
  ELSE [r EXCEPT !.headers =
          IF \E h \in @ : h[1] = p.header_key
          THEN @ ELSE @ \cup {<<p.header_key, p.header_val>>}]

\* Mutant: the length is one short.
LengthAfterShort(p) ==
  IF p.header_key = ContentLength THEN Stoi(p.header_val) - 1 ELSE p.body_length

LengthAfter(p) ==
  IF p.header_key = ContentLength THEN Stoi(p.header_val) ELSE p.body_length

Result(res, p, r) == [res |-> res, parser |-> p, req |-> r]

\* The states that collect a name, a value or a body.
Collect(p, r, c) ==
  LET more(q) == Result("indeterminate", q, r)
      goto(s) == more([p EXCEPT !.state = s])
      bad == Result("bad", p, r)
  IN  CASE p.state = "method_start" ->
             IF Token(c)
             THEN more([p EXCEPT !.state = "method", !.method_str = Append(@, c)])
             ELSE bad
        [] p.state = "method" ->
             IF c = "SP" THEN goto("uri")
             ELSE IF Token(c) THEN more([p EXCEPT !.method_str = Append(@, c)])
             ELSE bad
        [] p.state = "uri" ->
             IF c = "SP" THEN goto("http_version_h")
             ELSE IF is_ctl(c) THEN bad
             ELSE Result("indeterminate", p, [r EXCEPT !.uri = Append(@, c)])
        [] p.state = "header_lws" ->
             IF c = "CR" THEN goto("expecting_newline_2")
             ELSE IF c \in {"SP", "TAB"} THEN more(p)
             ELSE IF is_ctl(c) THEN bad
             ELSE more([p EXCEPT !.state = "header_value",
                                 !.header_val = Append(@, c)])
        [] p.state = "header_name" ->
             IF c = ":" THEN goto("space_before_header_value")
             ELSE IF Token(c) THEN more([p EXCEPT !.header_key = Append(@, c)])
             ELSE bad
        [] p.state = "header_value" ->
             IF c = "CR" THEN goto("expecting_newline_2")
             ELSE IF is_ctl(c) THEN bad
             ELSE more([p EXCEPT !.header_val = Append(@, c)])
        [] p.state = "body" ->
             Result(IF p.body_length = 1 THEN "good" ELSE "indeterminate",
                    [p EXCEPT !.body_length = @ - 1],
                    [r EXCEPT !.body = Append(@, c)])

\* The two states in which a header ends.  stoi throws out of them.
HeaderLineStart(p, r, c) ==
  CASE c = "CR" ->
         Result("indeterminate", [p EXCEPT !.state = "expecting_newline_3"], r)
    [] r.headers # {} /\ c \in {"SP", "TAB"} ->
         Result("indeterminate", [p EXCEPT !.state = "header_lws"], r)
    [] Token(c) ->
         IF p.header_key = ContentLength /\ StoiThrows(p.header_val)
         THEN Result("throws", p, r)
         ELSE Result("indeterminate",
                     [p EXCEPT !.state = "header_name", !.header_key = <<c>>,
                               !.header_val = <<>>,
                               !.body_length = LengthAfter(p)],
                     StoreHeader(p, r))
    [] OTHER -> Result("bad", p, r)

ExpectingNewline3(p, r, c) ==
  LET q == [p EXCEPT !.header_key = <<>>, !.header_val = <<>>,
                     !.body_length = LengthAfter(p)]
  IN  IF p.header_key = ContentLength /\ StoiThrows(p.header_val)
      THEN Result("throws", p, r)
      ELSE CASE c # "LF" -> Result("bad", q, StoreHeader(p, r))
             [] c = "LF" /\ q.body_length = 0 -> Result("good", q, StoreHeader(p, r))
             [] OTHER -> Result("indeterminate", [q EXCEPT !.state = "body"],
                                StoreHeader(p, r))

Consume(p, r, c) ==
  LET follow(ok, s) ==
        IF ok THEN Result("indeterminate", [p EXCEPT !.state = s], r)
              ELSE Result("bad", p, r)
  IN  CASE p.state \in DOMAIN Literal ->
             follow(c = Literal[p.state].sym, Literal[p.state].next)
        [] p.state \in DOMAIN FirstDigit -> follow(is_digit(c), FirstDigit[p.state])
        [] p.state \in DOMAIN MoreDigits ->
             IF c = MoreDigits[p.state].sym
             THEN follow(TRUE, MoreDigits[p.state].next)
             ELSE follow(is_digit(c), p.state)
        [] p.state = "header_line_start" -> HeaderLineStart(p, r, c)
        [] p.state = "expecting_newline_3" -> ExpectingNewline3(p, r, c)
        [] OTHER -> Collect(p, r, c)
=============================================================================
