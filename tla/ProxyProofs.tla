----------------------------- MODULE ProxyProofs -----------------------------
(***************************************************************************)
(* Proofs about ReverseProxy, for any pool of threads, any web of pages    *)
(* and however their replies are cut into reads: threads that make pages   *)
(* for each other are matched, and a 200 carries the body of its page.     *)
(***************************************************************************)
EXTENDS ReverseProxy, Induction, FiniteSetTheorems, SequenceTheorems, TLAPS

Symbol == STRING \cup {"none", "200", "400", "404", "CR", "SP"}
Text == Seq(Symbol)
Header == [name : Symbol \ {"CR"}, value : Seq(Symbol \ {"CR"})]
Replies == [code : Symbol, headers : Seq(Header), body : Text, end : {"eof", "cut", "reset", "never"}]

\* Text that consists of whole lines, none of them empty; a line of one symbol only
\* if bare.
WholeLines(t, bare) ==
  /\ t \in Text /\ t # <<>> /\ t[1] # "CR" /\ t[Len(t)] = "CR" /\ Len(t) >= 2
  /\ \A i \in 2..Len(t) : t[i] = "CR" => t[i - 1] # "CR"
  /\ \A i \in 2..Len(t) : t[i] = "CR" /\ (i = 2 \/ t[i - 2] = "CR") => bare
\* Some header of a reply has no value.
Bare(r) == \E i \in DOMAIN r.headers : r.headers[i].value = <<>>
\* t are the symbols of the stream of r behind the first k and up to the n-th.
Part(t, r, k, n) ==
  /\ t \in Text /\ k \in Nat /\ n \in Nat /\ k <= n /\ n <= Len(Stream(r)) /\ Len(t) = n - k
  /\ \A i \in 1..Len(t) : t[i] = Stream(r)[k + i]

\* What a thread holds.  Hosts and URIs are what the configuration and the pages say.
Pc == {"idle", "handle", "send", "first", "headers", "body"}
JobsTo(h, u) ==
  [pc : Pc, by : Worker \cup {Client}, host : {h}, uri : {u}, page : Replies, sent : Nat,
   wire : Text, fin : {"open", "eof", "reset"}, buf : Text, body : Text, content : Text]

\* What has been read of a reply and what is on the wire are the part of it that was
\* sent: all of it before the status line is read, then all behind that, then the body.
Exchange(j) ==
  /\ j \in JobsTo(j.host, j.uri)
  /\ j.pc = "idle" => j = Idle
  /\ j.pc \in {"idle", "handle", "send", "first"} =>
       Part(j.wire, j.page, 0, j.sent) /\ j.content = <<>>
  /\ j.pc = "headers" =>
       /\ j.page.code = "200" /\ j.content = <<>>
       /\ Part(j.buf, j.page, 1, Len(j.buf) + 1)
       /\ Part(j.wire, j.page, Len(j.buf) + 1, j.sent)
  /\ j.pc = "body" =>
       /\ j.page.code = "200" /\ j.buf = j.content
       /\ Whole(j) => (j.body \o j.content) \o j.wire = j.page.body

\* How the connection ends, and what of the reply has been sent by then.
Ends(j) ==
  /\ j.page = NoReply => j.sent = 0
  /\ j.page # NoReply /\ j.page.end \notin {"cut", "reset"} => Whole(j)
  /\ j.fin = "reset" => j.page.end = "reset"
  /\ j.page.end = "reset" => j.fin # "open"
  /\ j.page.end = "reset" /\ j.fin # "reset" => j.pc = "body" /\ ~HeaderSent(j)

\* A thread that makes a page does so for one that waits for it, and alone.
Matched ==
  /\ \A v \in Worker : Busy(v) /\ job[v].by \in Worker => Waits(job[v].by)
  /\ \A v, u \in Worker : Busy(v) /\ Busy(u) /\ job[v].by = job[u].by /\ job[v].by \in Worker => v = u

Threads ==
  /\ job = [w \in Worker |-> job[w]]
  /\ \A w \in Worker : Exchange(job[w]) /\ Ends(job[w])
  /\ Matched

Outcome ==
  /\ last.code \in {"none", "200", "400", "404"}
  /\ proc \in {"up", "terminated"}
  /\ BodyIntact

\* The inductive invariant.
Inv == Threads /\ Outcome

\* Only the job of w changes.
Becomes(w, k) == job' = [v \in Worker |-> IF v = w THEN k ELSE job[v]]

\* The job k of a thread once it has taken a step from j.
Begun(k, p, b, h, u) == k = [Idle EXCEPT !.pc = p, !.by = b, !.host = h, !.uri = u]
Served(k, j, r) == k = [j EXCEPT !.page = r, !.wire = Stream(r), !.sent = Len(Stream(r))]
Closed(k, j) == k = [j EXCEPT !.fin = "eof"]
Connected(k, j) == k = [j EXCEPT !.pc = "first"]
Replied(k, j, r, n) ==
  k = [j EXCEPT !.pc = "first", !.page = r, !.sent = n, !.wire = SubSeq(Stream(r), 1, n),
                !.fin = Ending(r)]
HasStatus(k, j, n) ==
  k = [j EXCEPT !.pc = "headers", !.buf = SubSeq(j.wire, 2, n),
                !.wire = SubSeq(j.wire, n + 1, Len(j.wire))]
HeaderIn(s, j, n) ==
  /\ s = j.buf \o SubSeq(j.wire, 1, n)
  /\ IF HeaderEnds(j.buf) THEN n = 0 ELSE HeaderEnds(s) \/ (n = Len(j.wire) /\ j.fin # "open")
TakesHeader(w, s, n) ==
  /\ HeaderIn(s, job[w], n)
  /\ IF \E i \in LineEnds(s) : ThrowsAt(s, i) /\ s[LineStart(s, i)] # "Transfer-Encoding:"
     THEN Throw
     ELSE /\ job' = [job EXCEPT ![w].pc = "body", ![w].buf = <<>>, ![w].body = Rest(s),
                                ![w].wire = SubSeq(@, n + 1, Len(@)),
                                ![w].fin = IF HeaderEnds(s) \/ @ = "open" THEN @ ELSE "eof"]
          /\ UNCHANGED <<last, proc>>
HasHeaders(k, j, s, n) ==
  k = [j EXCEPT !.pc = "body", !.buf = <<>>, !.body = Rest(s),
                !.wire = SubSeq(j.wire, n + 1, Len(j.wire)),
                !.fin = IF HeaderEnds(s) \/ j.fin = "open" THEN j.fin ELSE "eof"]
HasBody(k, j, s, n) ==
  /\ s = j.buf \o SubSeq(j.wire, 1, n)
  /\ k = [j EXCEPT !.buf = s, !.content = s, !.wire = SubSeq(j.wire, n + 1, Len(j.wire))]

\* w in two parts; a read of n symbols from w behind c; texts that are the same.
InTwo(w, x, y) == x \o y = w
IsRead(s, y, c, w, n) == s = c \o SubSeq(w, 1, n) /\ y = SubSeq(w, n + 1, Len(w))
Alike(b, s, y, c, w) == (b \o s) \o y = (b \o c) \o w
-----------------------------------------------------------------------------
\* Rewritten text is text.
LEMMA RewriteType ==
  ASSUME NEW s \in Text
  PROVE  Rewrite(s) \in Text
<1> DEFINE parts == [i \in 1..Len(s) |->
             IF s[i] = "/" /\ i > 1 /\ s[i - 1] \in Attribute THEN Prefix ELSE <<s[i]>>]
<1>1. Rewrite(s) = FlattenSeq(parts)
  BY DEF Rewrite
<1>2. Len(s) \in Nat /\ \A i \in 1..Len(s) : s[i] \in Symbol
  BY DEF Text
<1>3. Prefix \in Text
  <2>1. STRING \subseteq Symbol
    BY DEF Symbol
  <2>2. Seq(STRING) \subseteq Seq(Symbol)
    BY <2>1, SeqMonotonic, Zenon
  <2> QED
    BY <2>2, ProxyAssumption DEF Text
<1>4. parts \in Seq(Text) /\ Len(parts) = Len(s)
  <2>1. ASSUME NEW i \in 1..Len(s) PROVE parts[i] \in Text
    <3>1. <<s[i]>> \in Text
      BY <1>2 DEF Text
    <3> QED
      BY <1>3, <3>1
  <2>2. parts \in [1..Len(s) -> Text]
    BY <2>1
  <2> HIDE DEF parts
  <2> QED
    BY <1>2, <2>2
<1> HIDE DEF parts
<1>5. CASE parts = <<>>
  BY <1>1, <1>5 DEF FlattenSeq, Text
<1>6. CASE parts # <<>>
  <2>1. parts \in Seq(Seq(Symbol))
    BY <1>4 DEF Text
  <2>2. PICK g : IsFlat(g, parts, Symbol)
    BY <1>6, <2>1, FlattenLoop
  <2>3. Len(parts) \in 1..Len(parts)
    BY <1>6, <2>1, EmptySeq, LenProperties
  <2> QED
    BY <1>1, <2>2, <2>3 DEF IsFlat, Text
<1> QED
  BY <1>5, <1>6

\* Whole lines after whole lines are whole lines.
LEMMA LinesJoin ==
  ASSUME NEW bare \in BOOLEAN, NEW t, NEW u, WholeLines(t, bare), WholeLines(u, bare)
  PROVE  WholeLines(t \o u, bare)
<1> DEFINE m == Len(t)
           n == Len(u)
           x == t \o u
<1>1. t \in Seq(Symbol) /\ u \in Seq(Symbol) /\ m \in Nat /\ n \in Nat /\ m >= 2 /\ n >= 2
  BY LenProperties DEF WholeLines, Text
<1>2. /\ t[1] # "CR" /\ t[m] = "CR"
      /\ \A i \in 2..m : t[i] = "CR" => t[i - 1] # "CR"
      /\ \A i \in 2..m : t[i] = "CR" /\ (i = 2 \/ t[i - 2] = "CR") => bare
  BY DEF WholeLines
<1>3. /\ u[1] # "CR" /\ u[n] = "CR"
      /\ \A i \in 2..n : u[i] = "CR" => u[i - 1] # "CR"
      /\ \A i \in 2..n : u[i] = "CR" /\ (i = 2 \/ u[i - 2] = "CR") => bare
  BY DEF WholeLines
<1>4. x \in Seq(Symbol) /\ Len(x) = m + n /\ \A i \in 1..m + n : x[i] = IF i <= m THEN t[i] ELSE u[i - m]
  BY <1>1, ConcatProperties
<1> HIDE DEF m, n, x
<1>5. x[1] = t[1] /\ x[m + n] = u[n]
  <2>1. 1 \in 1..m + n /\ 1 <= m /\ m + n \in 1..m + n /\ ~(m + n <= m) /\ (m + n) - m = n
    BY <1>1
  <2> QED
    BY <1>4, <2>1
<1>6. ASSUME NEW i \in 2..m + n, x[i] = "CR"
      PROVE  x[i - 1] # "CR" /\ (i = 2 \/ x[i - 2] = "CR" => bare)
  <2>1. i \in 1..m + n /\ i - 1 \in 1..m + n /\ (i # 2 => i - 2 \in 1..m + n)
    BY <1>1
  <2>2. CASE i <= m
    <3>1. i \in 2..m /\ i - 1 <= m /\ i - 2 <= m
      BY <1>1, <2>2
    <3>2. x[i] = t[i] /\ x[i - 1] = t[i - 1] /\ (i # 2 => x[i - 2] = t[i - 2])
      BY <1>4, <2>1, <2>2, <3>1
    <3> QED
      BY <1>2, <1>6, <3>1, <3>2
  <2>3. CASE i = m + 1
    <3>1. ~(i <= m) /\ i - m = 1
      BY <1>1, <2>3
    <3>2. x[i] = u[1]
      BY <1>4, <2>1, <3>1
    <3> QED
      BY <1>3, <1>6, <3>2
  <2>4. CASE i = m + 2
    <3>1. ~(i <= m) /\ i - m = 2 /\ ~(i - 1 <= m) /\ (i - 1) - m = 1 /\ 2 \in 2..n /\ 2 - 1 = 1
      BY <1>1, <2>4
    <3>2. x[i] = u[2] /\ x[i - 1] = u[1]
      BY <1>4, <2>1, <3>1
    <3> QED
      BY <1>3, <1>6, <3>1, <3>2
  <2>5. CASE i > m + 2
    <3> DEFINE k == i - m
    <3>1. ~(i <= m) /\ ~(i - 1 <= m) /\ ~(i - 2 <= m) /\ (i - 1) - m = k - 1 /\ (i - 2) - m = k - 2
          /\ k \in 2..n /\ i # 2
      BY <1>1, <2>5
    <3>2. x[i] = u[k] /\ x[i - 1] = u[k - 1] /\ x[i - 2] = u[k - 2]
      BY <1>4, <2>1, <3>1
    <3> HIDE DEF k
    <3> QED
      BY <1>3, <1>6, <3>1, <3>2
  <2>6. i <= m \/ i = m + 1 \/ i = m + 2 \/ i > m + 2
    BY <1>1
  <2> QED
    BY <2>2, <2>3, <2>4, <2>5, <2>6
<1>7. m + n >= 2
  BY <1>1
<1>8. x # <<>>
  BY <1>1, <1>4
<1> QED
  BY <1>2, <1>3, <1>4, <1>5, <1>6, <1>7, <1>8 DEF WholeLines, Text, x

\* A header is one whole line, of one symbol if it has no value.
LEMMA HeaderIsLine ==
  ASSUME NEW h \in Header, NEW bare \in BOOLEAN, h.value = <<>> => bare
  PROVE  WholeLines(HeaderLine(h), bare)
<1>1. h.name \in Symbol /\ h.name # "CR" /\ h.value \in Seq(Symbol \ {"CR"})
  BY DEF Header
<1>2. "CR" \in Symbol /\ "SP" \in Symbol /\ "SP" # "CR"
  BY DEF Symbol
<1>3. CASE h.value = <<>>
  <2>1. HeaderLine(h) = <<h.name, "CR">>
    <3>1. HeaderLine(h) = (<<h.name>> \o <<>>) \o <<"CR">>
      BY <1>3 DEF HeaderLine
    <3>2. <<h.name>> \in Seq(Symbol)
      BY <1>1
    <3>3. <<h.name>> \o <<>> = <<h.name>>
      BY <3>2, ConcatEmptySeq
    <3>4. <<h.name>> \o <<"CR">> = <<h.name, "CR">>
      <4> DEFINE x == <<h.name>> \o <<"CR">>
                 y == <<h.name, "CR">>
      <4>1. <<h.name>> \in Seq(Symbol) /\ <<"CR">> \in Seq(Symbol) /\ y \in Seq(Symbol) /\ Len(y) = 2
            /\ y[1] = h.name /\ y[2] = "CR" /\ Len(<<h.name>>) = 1 /\ Len(<<"CR">>) = 1
            /\ <<h.name>>[1] = h.name /\ <<"CR">>[1] = "CR"
        BY <1>1, <1>2
      <4>2. x \in Seq(Symbol) /\ Len(x) = 1 + 1
            /\ \A i \in 1..1 + 1 : x[i] = IF i <= 1 THEN <<h.name>>[i] ELSE <<"CR">>[i - 1]
        BY <4>1, ConcatProperties
      <4> HIDE DEF x, y
      <4>3. x[1] = h.name /\ x[2] = "CR"
        BY <4>1, <4>2
      <4>4. Len(x) = Len(y) /\ \A i \in 1..Len(x) : x[i] = y[i]
        BY <4>1, <4>2, <4>3
      <4>5. x = y
        BY <4>1, <4>2, <4>4, SeqEqual
      <4> QED
        BY <4>5 DEF x, y
    <3> QED
      BY <3>1, <3>3, <3>4
  <2>2. <<h.name, "CR">> \in Text
    BY <1>1, <1>2 DEF Text
  <2>3. Len(<<h.name, "CR">>) = 2 /\ <<h.name, "CR">>[1] = h.name /\ <<h.name, "CR">>[2] = "CR"
    OBVIOUS
  <2> QED
    BY <1>1, <1>3, <2>1, <2>2, <2>3 DEF WholeLines
<1>4. CASE h.value # <<>>
  <2> DEFINE v == h.value
             n == Len(v)
             x == (<<h.name>> \o (<<"SP">> \o v)) \o <<"CR">>
  <2>1. HeaderLine(h) = x
    BY <1>4 DEF HeaderLine
  <2>2. n \in Nat \ {0} /\ v \in Seq(Symbol) /\ \A i \in 1..n : v[i] # "CR"
    <3>1. Symbol \ {"CR"} \subseteq Symbol
      OBVIOUS
    <3>2. Seq(Symbol \ {"CR"}) \subseteq Seq(Symbol)
      BY <3>1, SeqMonotonic
    <3>3. n \in Nat \ {0}
      BY <1>1, <1>4, EmptySeq, LenProperties
    <3>4. \A i \in 1..n : v[i] \in Symbol \ {"CR"}
      BY <1>1, ElementOfSeq
    <3> QED
      BY <1>1, <3>2, <3>3, <3>4
  <2> HIDE DEF v
  <2>3. x \in Seq(Symbol) /\ Len(x) = n + 3 /\ x[1] = h.name /\ x[2] = "SP" /\ x[n + 3] = "CR"
        /\ \A i \in 3..n + 2 : x[i] = v[i - 2]
    <3>1. <<h.name>> \in Seq(Symbol) /\ <<"SP">> \in Seq(Symbol) /\ <<"CR">> \in Seq(Symbol)
      BY <1>1, <1>2
    <3> QED
      BY <1>1, <1>2, <2>2, <3>1, SMTT(30)
  <2> HIDE DEF n, x
  <2>4. \A i \in 3..n + 2 : x[i] # "CR"
    <3>1. \A i \in 3..n + 2 : i - 2 \in 1..n
      BY <2>2
    <3> QED
      BY <2>2, <2>3, <3>1
  <2>5. \A i \in 2..n + 3 : x[i] = "CR" => i = n + 3 /\ i > 3
    <3>1. \A i \in 2..n + 3 : i = 2 \/ i \in 3..n + 2 \/ (i = n + 3 /\ i > 3)
      BY <2>2
    <3> QED
      BY <1>2, <2>3, <2>4, <3>1
  <2>6. x[n + 2] # "CR" /\ x[n + 1] # "CR"
    <3>1. n + 2 \in 3..n + 2 /\ (n + 1 = 2 \/ n + 1 \in 3..n + 2)
      BY <2>2
    <3> QED
      BY <1>2, <2>3, <2>4, <3>1
  <2>7. \A i \in 2..n + 3 : x[i] = "CR" => i - 1 = n + 2 /\ i - 2 = n + 1 /\ i # 2
    BY <2>2, <2>5
  <2>8. x # <<>> /\ n + 3 >= 2
    BY <2>2, <2>3
  <2>9. WholeLines(x, bare)
    BY <1>1, <2>3, <2>6, <2>7, <2>8 DEF WholeLines, Text
  <2> QED
    BY <2>1, <2>9
<1> QED
  BY <1>3, <1>4

\* The header of a reply is empty or consists of whole lines.
LEMMA HeaderIsLines ==
  ASSUME NEW r \in Replies
  PROVE  /\ HeaderText(r) \in Text
         /\ r.headers # <<>> => WholeLines(HeaderText(r), Bare(r))
         /\ r.headers = <<>> => HeaderText(r) = <<>>
<1> DEFINE hs == r.headers
           N == Len(hs)
           parts == [i \in DOMAIN hs |-> HeaderLine(hs[i])]
           bare == Bare(r)
<1>1. hs \in Seq(Header) /\ N \in Nat /\ DOMAIN hs = 1..N
  BY LenProperties DEF Replies
<1>2. HeaderText(r) = FlattenSeq(parts)
  BY DEF HeaderText
<1>3. CASE hs = <<>>
  <2>1. parts = <<>>
    BY <1>3
  <2>2. FlattenSeq(parts) = <<>>
    BY <2>1 DEF FlattenSeq
  <2>3. <<>> \in Text
    BY DEF Text
  <2> QED
    BY <1>2, <1>3, <2>2, <2>3
<1>4. CASE hs # <<>>
  <2>1. N # 0
    BY <1>1, <1>4, EmptySeq
  <2>2. bare \in BOOLEAN /\ \A i \in 1..N : hs[i] \in Header /\ (hs[i].value = <<>> => bare)
    BY <1>1 DEF Bare
  <2> HIDE DEF bare, hs, N
  <2>3. \A i \in 1..N : parts[i] = HeaderLine(hs[i])
    BY <1>1
  <2>4. \A i \in 1..N : WholeLines(parts[i], bare)
    BY <2>2, <2>3, HeaderIsLine
  <2>5. \A i \in 1..N : parts[i] \in Text
    BY <2>4 DEF WholeLines
  <2>6. parts \in [1..N -> Text]
    BY <1>1, <2>3, <2>5
  <2> HIDE DEF parts
  <2>7. parts \in Seq(Seq(Symbol)) /\ Len(parts) = N /\ parts # <<>>
    BY <1>1, <2>1, <2>6 DEF Text
  <2>8. PICK g : IsFlat(g, parts, Symbol)
    BY <2>7, FlattenLoop
  <2> DEFINE S == {n \in Nat : n \in 1..N => WholeLines(g[n], bare)}
  <2>9. 0 \in S
    OBVIOUS
  <2>10. ASSUME NEW n \in 1..N, n - 1 \in S PROVE n \in S
    <3>1. CASE n = 1
      BY <1>1, <2>4, <2>8, <3>1 DEF IsFlat
    <3>2. CASE n # 1
      <4>1. n \in 2..N /\ n - 1 \in 1..N
        BY <1>1, <3>2
      <4>2. g[n] = g[n - 1] \o parts[n]
        BY <2>7, <2>8, <4>1, Zenon DEF IsFlat
      <4>3. WholeLines(g[n - 1], bare) /\ WholeLines(parts[n], bare)
        BY <2>4, <2>10, <4>1
      <4>4. WholeLines(g[n], bare)
        BY <2>2, <4>2, <4>3, LinesJoin
      <4> QED
        BY <4>4
    <3> QED
      BY <3>1, <3>2
  <2> HIDE DEF S
  <2>11. 0..N \subseteq S
    BY <1>1, <2>9, <2>10, BoundedInduction
  <2>12. WholeLines(g[N], bare)
    BY <1>1, <2>1, <2>11 DEF S
  <2>13. HeaderText(r) = g[N]
    BY <1>2, <2>7, <2>8 DEF IsFlat
  <2> QED
    BY <1>4, <2>12, <2>13 DEF WholeLines, hs, bare
<1> QED
  BY <1>3, <1>4

\* What follows the status line in the stream of a reply.
LEMMA StreamParts ==
  ASSUME NEW r \in Replies, NEW H, H = HeaderText(r)
  PROVE  /\ H \in Text /\ Len(H) \in Nat /\ Len(r.body) \in Nat
         /\ Stream(r) \in Text /\ Len(Stream(r)) = Len(H) + Len(r.body) + 2
         /\ Stream(r)[1] = r.code
         /\ \A i \in 1..Len(H) : Stream(r)[i + 1] = H[i]
         /\ Stream(r)[Len(H) + 2] = "CR"
         /\ \A i \in 1..Len(r.body) : Stream(r)[Len(H) + 2 + i] = r.body[i]
<1> DEFINE B == r.body
           C == r.code
           S1 == <<C>> \o H
           S2 == S1 \o <<"CR">>
           m == Len(H)
           n == Len(B)
<1>1. H \in Seq(Symbol) /\ B \in Seq(Symbol) /\ C \in Symbol /\ "CR" \in Symbol
  BY HeaderIsLines DEF Replies, Text, Symbol
<1>2. Stream(r) = S2 \o B
  BY DEF Stream
<1> HIDE DEF B, C
<1>3. <<C>> \in Seq(Symbol) /\ Len(<<C>>) = 1 /\ <<C>>[1] = C /\ <<"CR">> \in Seq(Symbol)
      /\ Len(<<"CR">>) = 1 /\ <<"CR">>[1] = "CR"
  BY <1>1
<1>4. m \in Nat /\ n \in Nat
  BY <1>1, LenProperties
<1>5. S1 \in Seq(Symbol) /\ Len(S1) = 1 + m
      /\ \A i \in 1..1 + m : S1[i] = IF i <= 1 THEN <<C>>[i] ELSE H[i - 1]
  BY <1>1, <1>3, ConcatProperties
<1> HIDE DEF S1
<1>6. S2 \in Seq(Symbol) /\ Len(S2) = (1 + m) + 1
      /\ \A i \in 1..(1 + m) + 1 : S2[i] = IF i <= 1 + m THEN S1[i] ELSE <<"CR">>[i - (1 + m)]
  BY <1>3, <1>5, ConcatProperties
<1>13. Len(S2) = m + 2
  BY <1>4, <1>6
<1> HIDE DEF S2
<1> HIDE DEF m, n
<1> DEFINE S3 == S2 \o B
<1>7. S3 \in Seq(Symbol) /\ Len(S3) = m + 2 + n
      /\ \A i \in 1..m + 2 + n : S3[i] = IF i <= m + 2 THEN S2[i] ELSE B[i - (m + 2)]
  <2>1. /\ S3 \in Seq(Symbol) /\ Len(S3) = Len(S2) + Len(B)
        /\ \A i \in 1..Len(S2) + Len(B) : S3[i] = IF i <= Len(S2) THEN S2[i] ELSE B[i - Len(S2)]
    <3>1. S2 \in Seq(Symbol) /\ B \in Seq(Symbol)
      BY <1>1, <1>6
    <3> QED
      BY <3>1, ConcatProperties
  <2> QED
    BY <1>13, <2>1 DEF n
<1> HIDE DEF S3
<1>8. S3[1] = C
  <2>1. 1 \in 1..m + 2 + n /\ 1 <= m + 2 /\ 1 \in 1..(1 + m) + 1 /\ 1 <= 1 + m /\ 1 \in 1..1 + m
    BY <1>4
  <2> QED
    BY <1>3, <1>5, <1>6, <1>7, <2>1
<1>9. ASSUME NEW i \in 1..m PROVE S3[i + 1] = H[i]
  <2>1. i + 1 \in 1..m + 2 + n /\ i + 1 <= m + 2 /\ i + 1 \in 1..(1 + m) + 1 /\ i + 1 <= 1 + m
        /\ i + 1 \in 1..1 + m /\ ~(i + 1 <= 1) /\ (i + 1) - 1 = i
    BY <1>4
  <2> QED
    BY <1>5, <1>6, <1>7, <2>1
<1>10. S3[m + 2] = "CR"
  <2>1. m + 2 \in 1..m + 2 + n /\ m + 2 <= m + 2 /\ m + 2 \in 1..(1 + m) + 1 /\ ~(m + 2 <= 1 + m)
        /\ (m + 2) - (1 + m) = 1
    BY <1>4
  <2> QED
    BY <1>3, <1>6, <1>7, <2>1
<1>11. ASSUME NEW i \in 1..n PROVE S3[m + 2 + i] = B[i]
  <2>1. m + 2 + i \in 1..m + 2 + n /\ ~(m + 2 + i <= m + 2) /\ (m + 2 + i) - (m + 2) = i
    BY <1>4
  <2> QED
    BY <1>7, <2>1
<1>12. m + 2 + n = m + n + 2
  BY <1>4
<1> QED
  BY <1>1, <1>2, <1>4, <1>7, <1>8, <1>9, <1>10, <1>11, <1>12, Zenon DEF S3, m, n, B, C, Text

\* Two parts of a stream, one after the other, are a part of it.
LEMMA PartJoin ==
  ASSUME NEW r \in Replies, NEW t, NEW u, NEW k, NEW m, NEW n, Part(t, r, k, m), Part(u, r, m, n)
  PROVE  Part(t \o u, r, k, n)
<1> DEFINE S == Stream(r)
           x == t \o u
           a == Len(t)
           b == Len(u)
<1>1. /\ t \in Seq(Symbol) /\ u \in Seq(Symbol) /\ k \in Nat /\ m \in Nat /\ n \in Nat /\ k <= m /\ m <= n /\ n <= Len(S)
      /\ a = m - k /\ b = n - m
      /\ (\A i \in 1..a : t[i] = S[k + i]) /\ (\A i \in 1..b : u[i] = S[m + i])
  BY DEF Part, Text
<1>2. x \in Seq(Symbol) /\ Len(x) = a + b /\ \A i \in 1..a + b : x[i] = IF i <= a THEN t[i] ELSE u[i - a]
  BY <1>1, ConcatProperties, Zenon
<1>3. a \in Nat /\ b \in Nat
  BY <1>1, LenProperties
<1> HIDE DEF S, x, a, b
<1>4. ASSUME NEW i \in 1..a + b PROVE x[i] = S[k + i]
  <2>1. CASE i <= a
    <3>1. i \in 1..a
      BY <1>3, <2>1
    <3> QED
      BY <1>1, <1>2, <2>1, <3>1, Zenon
  <2>2. CASE ~(i <= a)
    <3>1. i - a \in 1..b /\ m + (i - a) = k + i
      BY <1>1, <1>3, <2>2
    <3> QED
      BY <1>1, <1>2, <2>2, <3>1
  <2> QED
    BY <2>1, <2>2
<1>5. a + b = n - k /\ k <= n
  BY <1>1, <1>3
<1> QED
  BY <1>1, <1>2, <1>4, <1>5 DEF Part, Text, S, x

\* A read takes the beginning of what is on the wire and leaves the rest.
LEMMA PartSplit ==
  ASSUME NEW r \in Replies, NEW t, NEW k, NEW n, Part(t, r, k, n), NEW i \in 0..Len(t)
  PROVE  Part(SubSeq(t, 1, i), r, k, k + i) /\ Part(SubSeq(t, i + 1, Len(t)), r, k + i, n)
<1> DEFINE S == Stream(r)
           a == Len(t)
           x == SubSeq(t, 1, i)
           y == SubSeq(t, i + 1, a)
<1>1. /\ t \in Seq(Symbol) /\ k \in Nat /\ n \in Nat /\ k <= n /\ n <= Len(S) /\ a = n - k /\ a \in Nat
      /\ \A e \in 1..a : t[e] = S[k + e]
  BY LenProperties DEF Part, Text
<1>2. Len(S) \in Nat
  BY StreamParts, LenProperties DEF Text
<1>3. \A e \in 1..a : t[e] \in Symbol
  BY <1>1, ElementOfSeq
<1>4. x \in Seq(Symbol) /\ Len(x) = i /\ \A e \in 1..i : x[e] = t[e]
  BY <1>1, <1>3
<1>5. y \in Seq(Symbol) /\ Len(y) = a - i /\ \A e \in 1..a - i : y[e] = t[i + e]
  BY <1>1, <1>3
<1>11. i \in 0..a
  OBVIOUS
<1> HIDE DEF S, a, x, y
<1>6. \A e \in 1..i : x[e] = S[k + e]
  <2>1. \A e \in 1..i : e \in 1..a
    BY <1>1, <1>11
  <2> QED
    BY <1>1, <1>4, <2>1
<1>7. ASSUME NEW e \in 1..a - i PROVE y[e] = S[(k + i) + e]
  <2>1. i + e \in 1..a /\ k + (i + e) = (k + i) + e
    BY <1>1, <1>11
  <2> QED
    BY <1>1, <1>5, <2>1
<1>8. k + i \in Nat /\ k <= k + i /\ k + i <= n /\ k + i <= Len(S) /\ i = (k + i) - k /\ a - i = n - (k + i)
  BY <1>1, <1>2, <1>11
<1>9. Part(x, r, k, k + i)
  BY <1>1, <1>4, <1>6, <1>8 DEF Part, Text, S
<1>10. Part(y, r, k + i, n)
  BY <1>1, <1>5, <1>7, <1>8 DEF Part, Text, S
<1> QED
  BY <1>9, <1>10 DEF x, y, a

\* What has come after the status line, up to the end of the header.
LEMMA HeaderFirst ==
  ASSUME NEW r \in Replies, NEW s, NEW m, Part(s, r, 1, m), NEW H, H = HeaderText(r)
  PROVE  /\ H \in Text /\ Len(H) \in Nat /\ Len(s) \in Nat /\ s \in Text
         /\ \A i \in 1..Len(s) : i <= Len(H) => s[i] = H[i]
         /\ Len(s) >= Len(H) + 1 => s[Len(H) + 1] = "CR"
         /\ H # <<>> => WholeLines(H, Bare(r))
         /\ Len(H) # 0 <=> H # <<>>
         /\ H # <<>> <=> r.headers # <<>>
<1>1. /\ s \in Text /\ \A i \in 1..Len(s) : s[i] = Stream(r)[1 + i]
  BY DEF Part
<1>2. /\ H \in Text /\ Len(H) \in Nat
      /\ \A i \in 1..Len(H) : Stream(r)[i + 1] = H[i]
      /\ Stream(r)[Len(H) + 2] = "CR"
  BY StreamParts
<1>3. Len(s) \in Nat
  BY <1>1, LenProperties DEF Text
<1>4. ASSUME NEW i \in 1..Len(s), i <= Len(H) PROVE s[i] = H[i]
  <2>1. i \in 1..Len(H) /\ i + 1 = 1 + i
    BY <1>2, <1>3, <1>4
  <2> QED
    BY <1>1, <1>2, <2>1
<1>5. ASSUME Len(s) >= Len(H) + 1 PROVE s[Len(H) + 1] = "CR"
  <2>1. Len(H) + 1 \in 1..Len(s) /\ 1 + (Len(H) + 1) = Len(H) + 2
    BY <1>2, <1>3, <1>5
  <2> QED
    BY <1>1, <1>2, <2>1
<1>6. Len(H) # 0 <=> H # <<>>
  BY <1>2, EmptySeq DEF Text
<1>7. H # <<>> <=> r.headers # <<>>
  BY HeaderIsLines DEF WholeLines
<1>8. H # <<>> => WholeLines(H, Bare(r))
  BY <1>7, HeaderIsLines
<1> QED
  BY <1>1, <1>2, <1>3, <1>4, <1>5, <1>6, <1>7, <1>8

\* The first empty line is the one that ends the header, whatever the body has.
LEMMA HeadFound ==
  ASSUME NEW r \in Replies, NEW s, NEW m, Part(s, r, 1, m), NEW H, H = HeaderText(r), Len(s) >= Len(H) + 1
  PROVE  HeadLen(s) = Len(H)
<1> DEFINE h == Len(H)
           E == EmptyLines(s)
<1>1. /\ h \in Nat /\ Len(s) \in Nat /\ \A i \in 1..Len(s) : i <= h => s[i] = H[i]
      /\ s[h + 1] = "CR" /\ (H # <<>> => WholeLines(H, Bare(r))) /\ (h # 0 <=> H # <<>>)
  BY HeaderFirst
<1>2. h # 0 => /\ H[1] # "CR" /\ H[h] = "CR" /\ \A i \in 2..h : H[i] = "CR" => H[i - 1] # "CR"
  BY <1>1 DEF WholeLines
<1> HIDE DEF h
<1>3. h + 1 \in E
  <2>1. h + 1 \in 1..Len(s) /\ (h + 1) - 1 = h /\ (h # 0 => h \in 1..Len(s))
    BY <1>1 DEF h
  <2>2. h # 0 => s[h] = "CR"
    BY <1>1, <1>2, <2>1
  <2>3. h + 1 = 1 \/ s[(h + 1) - 1] = "CR"
    BY <2>1, <2>2
  <2> QED
    BY <1>1, <2>1, <2>3 DEF EmptyLines
<1>4. ASSUME NEW i \in E PROVE h + 1 <= i
  <2>1. i \in 1..Len(s) /\ s[i] = "CR" /\ (i = 1 \/ s[i - 1] = "CR")
    BY DEF EmptyLines
  <2> SUFFICES ASSUME i <= h PROVE FALSE
    BY <1>1, <2>1
  <2>2. H[i] = "CR" /\ h # 0
    BY <1>1, <2>1
  <2>3. i # 1
    BY <1>2, <2>2
  <2>4. i \in 2..h /\ i - 1 \in 1..Len(s) /\ i - 1 <= h
    BY <1>1, <2>1, <2>3
  <2> QED
    BY <1>1, <1>2, <2>1, <2>2, <2>3, <2>4
<1>5. E \subseteq Nat
  BY DEF EmptyLines
<1> HIDE DEF E
<1>6. Min(E) = h + 1
  <2> DEFINE x == CHOOSE e \in E : \A y \in E : e <= y
  <2>1. x \in E /\ \A y \in E : x <= y
    BY <1>3, <1>4
  <2>2. Min(E) = x
    BY DEF Min
  <2> HIDE DEF x
  <2>3. x <= h + 1 /\ h + 1 <= x /\ x \in Nat
    BY <1>3, <1>4, <1>5, <2>1, Zenon
  <2> QED
    BY <1>1, <2>2, <2>3
<1> QED
  BY <1>1, <1>3, <1>6 DEF HeadLen, E, h

\* Two line ends in a row are not seen before the header has ended, ...
LEMMA EndsLate ==
  ASSUME NEW r \in Replies, NEW s, NEW m, Part(s, r, 1, m), HeaderEnds(s), NEW H, H = HeaderText(r)
  PROVE  Len(s) >= Len(H) + 1
<1>1. /\ Len(H) \in Nat /\ Len(s) \in Nat /\ (\A i \in 1..Len(s) : i <= Len(H) => s[i] = H[i])
      /\ (H # <<>> => WholeLines(H, Bare(r))) /\ (Len(H) # 0 <=> H # <<>>)
  BY HeaderFirst
<1> SUFFICES ASSUME Len(s) <= Len(H) PROVE FALSE
  BY <1>1
<1>2. PICK i \in 1..(Len(s) - 1) : s[i] = "CR" /\ s[i + 1] = "CR"
  BY DEF HeaderEnds
<1>3. i \in 1..Len(s) /\ i <= Len(H) /\ i + 1 \in 1..Len(s) /\ i + 1 <= Len(H) /\ i + 1 \in 2..Len(H) /\ (i + 1) - 1 = i
  BY <1>1
<1>4. H[i] = "CR" /\ H[i + 1] = "CR"
  BY <1>1, <1>2, <1>3
<1>5. WholeLines(H, Bare(r))
  BY <1>1, <1>3
<1> QED
  BY <1>3, <1>4, <1>5 DEF WholeLines

\* ... and, if it has a line, they are seen when it has.
LEMMA EndsSeen ==
  ASSUME NEW r \in Replies, NEW s, NEW m, Part(s, r, 1, m), NEW H, H = HeaderText(r),
         Len(s) >= Len(H) + 1, r.headers # <<>>
  PROVE  HeaderEnds(s)
<1>1. /\ Len(H) \in Nat /\ Len(s) \in Nat /\ (\A i \in 1..Len(s) : i <= Len(H) => s[i] = H[i])
      /\ s[Len(H) + 1] = "CR" /\ WholeLines(H, Bare(r)) /\ Len(H) # 0
  BY HeaderFirst
<1>2. H[Len(H)] = "CR"
  BY <1>1 DEF WholeLines
<1>3. Len(H) \in 1..Len(s) /\ Len(H) <= Len(H) /\ Len(H) \in 1..(Len(s) - 1)
  BY <1>1
<1>4. s[Len(H)] = "CR"
  BY <1>1, <1>2, <1>3
<1> QED
  BY <1>1, <1>3, <1>4 DEF HeaderEnds

\* A bounded set of numbers that is not empty has a greatest.
LEMMA MaxIsIn ==
  ASSUME NEW n \in Nat, NEW S \in SUBSET (0..n), S # {}
  PROVE  Max(S) \in S
<1> DEFINE T == {k \in Nat : \A U \in SUBSET (0..k) : U # {} => \E x \in U : \A y \in U : x >= y}
<1>1. 0 \in T
  <2> SUFFICES ASSUME NEW U \in SUBSET (0..0), U # {} PROVE \E x \in U : \A y \in U : x >= y
    OBVIOUS
  <2>1. \A x \in U : x = 0
    OBVIOUS
  <2> QED
    <3>1. PICK x \in U : TRUE
      BY Zenon
    <3> QED
      BY <2>1, <3>1
<1>2. ASSUME NEW k \in Nat, k \in T PROVE k + 1 \in T
  <2> SUFFICES ASSUME NEW U \in SUBSET (0..k + 1), U # {} PROVE \E x \in U : \A y \in U : x >= y
    OBVIOUS
  <2>1. CASE k + 1 \in U
    BY <2>1
  <2>2. CASE k + 1 \notin U
    <3>1. U \in SUBSET (0..k)
      BY <2>2
    <3> QED
      BY <1>2, <3>1
  <2> QED
    BY <2>1, <2>2
<1> HIDE DEF T
<1>3. Nat \subseteq T
  BY <1>1, <1>2, SetInduction
<1>4. \E x \in S : \A y \in S : x >= y
  BY <1>3, Zenon DEF T
<1> QED
  BY <1>4, Zenon DEF Max

\* substr is out of range only on a header without a value.
LEMMA ThrowsBare ==
  ASSUME NEW r \in Replies, NEW s, NEW m, Part(s, r, 1, m), NEW H, H = HeaderText(r),
         Len(s) >= Len(H) + 1, NEW i \in LineEnds(s), ThrowsAt(s, i)
  PROVE  Bare(r)
<1>1. /\ Len(H) \in Nat /\ Len(s) \in Nat /\ (\A k \in 1..Len(s) : k <= Len(H) => s[k] = H[k])
      /\ (H # <<>> => WholeLines(H, Bare(r))) /\ (Len(H) # 0 <=> H # <<>>)
  BY HeaderFirst
<1>2. i \in 1..Len(H) /\ s[i] = "CR"
  <2>1. i \in 1..HeadLen(s) /\ (s[i] = "CR" \/ i = Len(s))
    BY DEF LineEnds
  <2>2. HeadLen(s) = Len(H)
    BY HeadFound
  <2> QED
    BY <1>1, <2>1, <2>2
<1> DEFINE K == {0} \cup {k \in 1..(i - 1) : s[k] = "CR"}
<1>3. i = (Max(K) + 1) + 1
  BY DEF ThrowsAt, LineStart
<1>4. Max(K) \in K
  <2>1. K \in SUBSET (0..i) /\ K # {} /\ i \in Nat
    BY <1>2
  <2> HIDE DEF K
  <2> QED
    BY <2>1, MaxIsIn, Zenon
<1>5. PICK x : x = Max(K)
  BY Zenon
<1>6. x \in K /\ i = (x + 1) + 1
  BY <1>3, <1>4, <1>5
<1>7. x \in Nat /\ x = i - 2 /\ (x = 0 \/ (x \in 1..Len(s) /\ s[x] = "CR"))
  BY <1>1, <1>2, <1>6
<1>8. i \in 2..Len(H) /\ (i = 2 \/ s[i - 2] = "CR") /\ (i # 2 => i - 2 \in 1..Len(s) /\ i - 2 <= Len(H))
      /\ i \in 1..Len(s) /\ i <= Len(H)
  BY <1>1, <1>2, <1>7
<1> HIDE DEF K
<1>9. H[i] = "CR" /\ (i = 2 \/ H[i - 2] = "CR")
  BY <1>1, <1>2, <1>8
<1>10. WholeLines(H, Bare(r))
  BY <1>1, <1>8
<1> QED
  BY <1>8, <1>9, <1>10 DEF WholeLines

\* What is left behind the header, with what is still to come, is the body.
LEMMA BodySplit ==
  ASSUME NEW r \in Replies, NEW s, NEW t, NEW m, Part(s, r, 1, m), Part(t, r, m, Len(Stream(r))),
         NEW H, H = HeaderText(r), Len(s) >= Len(H) + 1
  PROVE  Rest(s) \in Text /\ Rest(s) \o t = r.body
<1> DEFINE h == Len(H)
           a == Len(s)
           b == Len(t)
           S == Stream(r)
           x == Rest(s)
           B == r.body
<1>1. HeadLen(s) = h /\ h \in Nat
  BY HeadFound, HeaderFirst
<1>2. x = SubSeq(s, h + 2, a)
  BY <1>1 DEF Rest
<1>3. /\ s \in Seq(Symbol) /\ t \in Seq(Symbol) /\ a \in Nat /\ b \in Nat
      /\ a = m - 1 /\ b = Len(S) - m /\ m \in Nat
      /\ (\A i \in 1..a : s[i] = S[1 + i]) /\ (\A i \in 1..b : t[i] = S[m + i])
  BY LenProperties DEF Part, Text
<1>4. /\ B \in Seq(Symbol) /\ Len(B) \in Nat /\ Len(S) = h + Len(B) + 2
      /\ \A i \in 1..Len(B) : S[h + 2 + i] = B[i]
  <2>1. B \in Seq(Symbol)
    BY DEF Replies, Text
  <2>2. /\ Len(B) \in Nat /\ Len(S) = h + Len(B) + 2
        /\ \A i \in 1..Len(B) : S[h + 2 + i] = B[i]
    BY StreamParts
  <2> QED
    BY <2>1, <2>2
<1>5. a >= h + 1
  OBVIOUS
<1> HIDE DEF S, B, h, a, b
<1>6. x \in Seq(Symbol) /\ Len(x) = a - h - 1 /\ \A i \in 1..a - h - 1 : x[i] = s[h + 1 + i]
  <2>1. \A i \in h + 2..a : s[i] \in Symbol
    BY <1>1, <1>3 DEF a
  <2> QED
    BY <1>1, <1>2, <1>3, <1>5, <2>1
<1> HIDE DEF x
<1> DEFINE c == Len(x)
           y == x \o t
<1>7. y \in Seq(Symbol) /\ Len(y) = c + b /\ \A i \in 1..c + b : y[i] = IF i <= c THEN x[i] ELSE t[i - c]
  BY <1>3, <1>6, ConcatProperties, Zenon DEF b
<1>8. c \in Nat /\ c = a - h - 1 /\ c + b = Len(B)
  BY <1>1, <1>3, <1>4, <1>5, <1>6
<1> HIDE DEF c, y
<1>9. ASSUME NEW i \in 1..c + b PROVE y[i] = B[i]
  <2>1. i \in 1..Len(B)
    BY <1>8
  <2>2. S[h + 2 + i] = B[i]
    BY <1>4, <2>1
  <2>3. CASE i <= c
    <3>1. i \in 1..a - h - 1 /\ h + 1 + i \in 1..a /\ 1 + (h + 1 + i) = h + 2 + i
      BY <1>1, <1>3, <1>8, <2>3
    <3> QED
      BY <1>3, <1>6, <1>7, <2>2, <2>3, <3>1
  <2>4. CASE ~(i <= c)
    <3>1. i - c \in 1..b /\ m + (i - c) = h + 2 + i
      BY <1>1, <1>3, <1>8, <2>4
    <3> QED
      BY <1>3, <1>7, <2>2, <2>4, <3>1, Zenon
  <2> QED
    BY <2>3, <2>4
<1>10. y = B
  <2>1. Len(y) = Len(B) /\ \A i \in 1..Len(y) : y[i] = B[i]
    BY <1>7, <1>8, <1>9
  <2> QED
    BY <1>4, <1>7, <2>1, SeqEqual
<1> QED
  BY <1>6, <1>10 DEF y, x, B, Text
-----------------------------------------------------------------------------
\* A text over fewer symbols is one over more.
LEMMA SeqWider ==
  ASSUME NEW A, NEW B, A \subseteq B, NEW t \in Seq(A)
  PROVE  t \in Seq(B)
OBVIOUS

\* A page gives replies as the proofs about texts take them.
LEMMA PageReplies ==
  ASSUME NEW h, NEW u, NEW r \in Page(h, u)
  PROVE  r \in Replies /\ r.code # "none" /\ (h = <<>> => r.end = "eof")
<1>1. CASE <<h, u>> \notin DOMAIN Web
  <2>1. r = [code |-> "404", headers |-> <<>>, body |-> <<>>, end |-> "eof"]
    BY <1>1 DEF Page, NotFound, Reply
  <2>2. <<>> \in Seq(Header) /\ <<>> \in Text /\ "404" \in Symbol
    BY EmptySeq DEF Symbol, Text
  <2> QED
    BY <2>1, <2>2 DEF Replies
<1>2. CASE <<h, u>> \in DOMAIN Web
  <2>1. WellFormed(r) /\ (h = <<>> => r.end = "eof")
    BY <1>2, WebAssumption DEF Page
  <2> DEFINE V == STRING \ {"CR"}
             A == [name : V, value : Seq(V)]
             r1 == r.code
             r2 == r.headers
             r3 == r.body
             r4 == r.end
  <2>2. /\ r = [code |-> r1, headers |-> r2, body |-> r3, end |-> r4]
        /\ r1 \in STRING \ {"none"} /\ r2 \in Seq(A) /\ r3 \in Seq(STRING)
        /\ r4 \in {"eof", "cut", "reset", "never"}
    BY <2>1 DEF WellFormed
  <2> HIDE DEF V, A, r1, r2, r3, r4
  <2> DEFINE Y == Symbol \ {"CR"}
  <2>3. STRING \subseteq Symbol /\ V \subseteq Y
    BY DEF Symbol, V
  <2> HIDE DEF Y
  <2>4. \A t : t \in Seq(STRING) => t \in Seq(Symbol)
    BY <2>3, SeqWider, Zenon
  <2>5. \A t : t \in Seq(V) => t \in Seq(Y)
    BY <2>3, SeqWider
  <2>6. A \subseteq Header
    BY <2>3, <2>5 DEF A, Header, Y
  <2>7. r2 \in Seq(Header)
    BY <2>2, <2>6
  <2>8. r \in Replies /\ r.code # "none"
    BY <2>2, <2>3, <2>4, <2>7, Zenon DEF Replies, Text
  <2> QED
    BY <2>1, <2>8
<1> QED
  BY <1>1, <1>2

\* The answers of handle_request are replies.
LEMMA AnswerReplies ==
  ASSUME NEW code \in {"200", "400", "404"}, NEW body \in Text
  PROVE  /\ Reply(code, <<>>, body, "eof") \in Replies
         /\ Reply(code, <<>>, body, "eof").code # "none"
         /\ Reply(code, <<>>, body, "eof").end = "eof"
BY EmptySeq DEF Reply, Replies, Symbol

\* A thread that has nothing is as it should be, ...
LEMMA IdleFits == Exchange(Idle) /\ Ends(Idle)
<1>1. NoReply \in Replies
  BY EmptySeq DEF NoReply, Reply, Replies, Symbol, Text
<1>2. <<>> \in Text /\ Len(<<>>) = 0
  BY EmptySeq DEF Text
<1>3. Len(Stream(NoReply)) \in Nat
  BY <1>1, StreamParts
<1>4. Part(<<>>, NoReply, 0, 0)
  BY <1>2, <1>3 DEF Part
<1>5. NoReply.end = "eof"
  BY DEF NoReply, Reply
<1>6. Idle \in JobsTo(Idle.host, Idle.uri)
  BY <1>1, <1>2 DEF Idle, JobsTo, Pc
<1>7. Exchange(Idle)
  BY <1>4, <1>6 DEF Idle, Exchange
<1> QED
  BY <1>5, <1>7 DEF Idle, Ends

\* ... and so is one that begins a request, or a request to a destination.
LEMMA BeginFits ==
  ASSUME NEW p \in {"handle", "send"}, NEW b \in Worker \cup {Client}, NEW h, NEW u,
         NEW k, Begun(k, p, b, h, u)
  PROVE  Exchange(k) /\ Ends(k) /\ k.pc = p /\ k.by = b
<1> USE DEF Begun
<1>1. /\ Idle.page = NoReply /\ Idle.sent = 0 /\ Idle.wire = <<>> /\ Idle.fin = "open" /\ Idle.buf = <<>>
      /\ Idle.body = <<>> /\ Idle.content = <<>> /\ Idle.pc = "idle"
      /\ NoReply.end = "eof"
  BY DEF Idle, NoReply, Reply
<1>2. /\ k = [pc |-> p, by |-> b, host |-> h, uri |-> u, page |-> NoReply,
              sent |-> 0, wire |-> <<>>, fin |-> "open", buf |-> <<>>, body |-> <<>>,
              content |-> <<>>]
  BY Zenon DEF Idle
<1>3. NoReply \in Replies /\ <<>> \in Text
  BY <1>1, IdleFits DEF Exchange, JobsTo
<1>4. k \in JobsTo(k.host, k.uri)
  BY <1>2, <1>3 DEF JobsTo, Pc
<1>5. Part(<<>>, NoReply, 0, 0)
  BY <1>1, IdleFits DEF Exchange
<1>6. /\ k.pc = p /\ k.by = b /\ k.page = NoReply /\ k.sent = 0 /\ k.wire = <<>> /\ k.fin = "open"
      /\ k.content = <<>>
  BY DEF Idle
<1> QED
  BY <1>1, <1>4, <1>5, <1>6, Zenon DEF Exchange, Ends

\* The page that this server has made arrives whole.
LEMMA ServedFits ==
  ASSUME NEW j, Exchange(j), Ends(j), j.pc = "first", j.page = NoReply, j.fin = "open",
         NEW r \in Replies, r.code # "none", r.end = "eof",
         NEW k, Served(k, j, r)
  PROVE  Exchange(k) /\ Ends(k) /\ k.pc = j.pc /\ k.by = j.by
<1> USE DEF Served
<1> DEFINE S == Stream(r)
<1>1. S \in Text /\ Len(S) \in Nat
  BY StreamParts, LenProperties DEF Text
<1>2. Part(S, r, 0, Len(S))
  BY <1>1 DEF Part
<1>3. j \in JobsTo(j.host, j.uri) /\ j.content = <<>>
  BY DEF Exchange
<1> HIDE DEF S
<1>4. /\ k.pc = "first" /\ k.by = j.by /\ k.page = r /\ k.wire = S /\ k.sent = Len(S) /\ k.fin = "open"
      /\ k.content = <<>> /\ k.host = j.host /\ k.uri = j.uri
  BY <1>3 DEF JobsTo, S
<1>5. k \in JobsTo(j.host, j.uri)
  BY <1>1, <1>3, Zenon DEF JobsTo, S
<1>6. r # NoReply
  BY DEF NoReply, Reply
<1>7. Exchange(k)
  BY <1>2, <1>4, <1>5, Zenon DEF Exchange
<1>8. Ends(k)
  BY <1>4, <1>6 DEF Ends, Whole, S
<1> QED
  BY <1>4, <1>7, <1>8

\* The timer of this server closes a connection that is open.
LEMMA ClosedFits ==
  ASSUME NEW j, Exchange(j), Ends(j), j.pc \notin {"idle", "handle", "send"}, j.fin = "open",
         NEW k, Closed(k, j)
  PROVE  Exchange(k) /\ Ends(k) /\ k.pc = j.pc /\ k.by = j.by
<1> USE DEF Closed
<1>1. j \in JobsTo(j.host, j.uri)
  BY DEF Exchange
<1>2. /\ k.pc = j.pc /\ k.by = j.by /\ k.page = j.page /\ k.wire = j.wire /\ k.sent = j.sent /\ k.fin = "eof"
      /\ k.content = j.content /\ k.host = j.host /\ k.uri = j.uri /\ k.buf = j.buf /\ k.body = j.body
  BY <1>1 DEF JobsTo
<1>3. k \in JobsTo(j.host, j.uri)
  BY <1>1 DEF JobsTo
<1>4. Exchange(k)
  BY <1>2, <1>3, Zenon DEF Exchange, Whole
<1>5. Ends(k)
  BY <1>2 DEF Ends, Whole
<1> QED
  BY <1>2, <1>4, <1>5

\* send_request has reached this server, ...
LEMMA ConnectedFits ==
  ASSUME NEW j, Exchange(j), Ends(j), j.pc = "send", NEW k, Connected(k, j)
  PROVE  Exchange(k) /\ Ends(k) /\ k.pc = "first" /\ k.by = j.by
<1> USE DEF Connected
<1>1. j \in JobsTo(j.host, j.uri)
  BY DEF Exchange
<1>2. /\ k.pc = "first" /\ k.by = j.by /\ k.page = j.page /\ k.wire = j.wire /\ k.sent = j.sent /\ k.fin = j.fin
      /\ k.content = j.content /\ k.host = j.host /\ k.uri = j.uri /\ k.buf = j.buf /\ k.body = j.body
  BY <1>1 DEF JobsTo
<1>3. k \in JobsTo(j.host, j.uri)
  BY <1>1 DEF JobsTo, Pc
<1>4. Exchange(k)
  BY <1>2, <1>3 DEF Exchange, Whole
<1>5. Ends(k)
  BY <1>2 DEF Ends, Whole
<1> QED
  BY <1>2, <1>4, <1>5

\* ... or another destination, which sends its reply or a part of it.
LEMMA RepliedFits ==
  ASSUME NEW j, Exchange(j), Ends(j), j.pc = "send", NEW r \in Replies, r.code # "none",
         NEW n \in Lengths(r),
         NEW k, Replied(k, j, r, n)
  PROVE  Exchange(k) /\ Ends(k) /\ k.pc = "first" /\ k.by = j.by
<1> USE DEF Replied
<1> DEFINE S == Stream(r)
           t == SubSeq(S, 1, n)
<1>1. S \in Text /\ Len(S) \in Nat
  BY StreamParts, LenProperties DEF Text
<1>2. Part(S, r, 0, Len(S))
  BY <1>1 DEF Part
<1>3. j \in JobsTo(j.host, j.uri) /\ j.content = <<>>
  BY DEF Exchange
<1>4. n \in 0..Len(S) /\ (r.end \notin {"cut", "reset"} => n = Len(S))
  BY <1>1 DEF Lengths
<1>5. Part(t, r, 0, 0 + n)
  BY <1>2, <1>4, PartSplit
<1>6. Part(t, r, 0, n) /\ n \in Nat /\ t \in Text
  BY <1>4, <1>5 DEF Part
<1>7. /\ Ending(r) \in {"open", "eof", "reset"} /\ (Ending(r) = "reset" <=> r.end = "reset")
  BY DEF Ending, Replies
<1> HIDE DEF t
<1>8. /\ k.pc = "first" /\ k.by = j.by /\ k.page = r /\ k.wire = t /\ k.sent = n /\ k.fin = Ending(r)
      /\ k.content = <<>> /\ k.host = j.host /\ k.uri = j.uri
  BY <1>3, Zenon DEF JobsTo, t
<1>9. k \in JobsTo(j.host, j.uri)
  BY <1>3, <1>6, <1>7, Zenon DEF JobsTo, t, Pc
<1>10. r # NoReply
  BY DEF NoReply, Reply
<1>11. Exchange(k)
  BY <1>6, <1>8, <1>9, Zenon DEF Exchange
<1>12. Ends(k)
  BY <1>4, <1>7, <1>8, <1>10 DEF Ends, Whole
<1> QED
  BY <1>8, <1>11, <1>12

\* read_until returns with the status line and n - 1 symbols more.
LEMMA StatusFits ==
  ASSUME NEW j, Exchange(j), Ends(j), j.pc = "first", NEW n \in 1..Len(j.wire), j.wire[1] = "200",
         NEW k, HasStatus(k, j, n)
  PROVE  Exchange(k) /\ Ends(k) /\ k.pc = "headers" /\ k.by = j.by
<1> USE DEF HasStatus
<1> DEFINE r == j.page
           x == SubSeq(j.wire, 2, n)
           y == SubSeq(j.wire, n + 1, Len(j.wire))
<1>1. j \in JobsTo(j.host, j.uri) /\ j.content = <<>> /\ Part(j.wire, r, 0, j.sent) /\ r \in Replies
  BY DEF Exchange, JobsTo
<1>2. j.wire \in Text /\ Len(j.wire) \in Nat /\ n \in Nat /\ 1 <= n /\ n <= Len(j.wire)
  BY <1>1, LenProperties DEF Part, Text
<1>3. Part(SubSeq(j.wire, 1, n), r, 0, 0 + n) /\ Part(y, r, 0 + n, j.sent)
  <2>1. n \in 0..Len(j.wire)
    BY <1>2
  <2> QED
    BY <1>1, <2>1, PartSplit
<1> DEFINE z == SubSeq(j.wire, 1, n)
<1>4. Len(z) = n /\ SubSeq(z, 1 + 1, Len(z)) = x
  BY <1>2 DEF Text
<1>5. Part(x, r, 1, n) /\ Part(y, r, n, j.sent)
  <2>1. 1 \in 0..Len(z) /\ 0 + n = n /\ 0 + 1 = 1
    BY <1>2, <1>4
  <2> HIDE DEF x, y, z
  <2>2. Part(z, r, 0, n) /\ Part(y, r, n, j.sent)
    BY <1>3, <2>1 DEF z
  <2>3. Part(SubSeq(z, 1 + 1, Len(z)), r, 0 + 1, n)
    BY <1>1, <2>1, <2>2, PartSplit
  <2> QED
    BY <1>4, <2>1, <2>2, <2>3, Zenon
<1>6. x \in Text /\ y \in Text /\ Len(x) + 1 = n
  BY <1>2, <1>5 DEF Part
<1>7. r.code = "200"
  <2>1. j.wire[1] = Stream(r)[0 + 1]
    BY <1>1, <1>2 DEF Part
  <2> QED
    BY <1>1, <2>1, StreamParts
<1> HIDE DEF x, y, z
<1>8. /\ k.pc = "headers" /\ k.by = j.by /\ k.page = r /\ k.wire = y /\ k.sent = j.sent /\ k.fin = j.fin
      /\ k.content = <<>> /\ k.host = j.host /\ k.uri = j.uri /\ k.buf = x
  BY <1>1, Zenon DEF JobsTo, x, y
<1>9. k \in JobsTo(j.host, j.uri)
  BY <1>1, <1>6, Zenon DEF JobsTo, x, y, Pc
<1>10. Exchange(k)
  BY <1>5, <1>6, <1>7, <1>8, <1>9, Zenon DEF Exchange
<1>11. Ends(k)
  BY <1>8 DEF Ends, Whole
<1> QED
  BY <1>8, <1>10, <1>11

\* What read_until has when it returns with the header: all of it, or as much as the
\* destination has sent.
LEMMA HeaderRead ==
  ASSUME NEW j, Exchange(j), Ends(j), j.pc = "headers", NEW n \in 0..Len(j.wire),
         NEW s, HeaderIn(s, j, n), NEW H, H = HeaderText(j.page),
         NEW y, y = SubSeq(j.wire, n + 1, Len(j.wire))
  PROVE  /\ j.page \in Replies /\ s \in Text /\ y \in Text /\ Len(H) \in Nat /\ Len(s) \in Nat
         /\ Part(s, j.page, 1, Len(s) + 1) /\ Part(y, j.page, Len(s) + 1, j.sent)
         /\ Len(s) >= Len(H) + 1 \/ (Len(s) + 1 = j.sent /\ ~HeaderEnds(s))
         /\ HeaderEnds(s) \/ (Len(s) + 1 = j.sent /\ j.fin # "open")
<1> USE DEF HeaderIn
<1> DEFINE r == j.page
           m == Len(j.buf) + 1
           x == SubSeq(j.wire, 1, n)
<1>1. r \in Replies /\ Part(j.buf, r, 1, m) /\ Part(j.wire, r, m, j.sent)
  BY DEF Exchange, JobsTo
<1>2. Part(x, r, m, m + n) /\ Part(y, r, m + n, j.sent)
  BY <1>1, PartSplit, Zenon
<1>3. j.buf \in Text /\ Len(j.buf) \in Nat /\ m \in Nat /\ n \in Nat /\ j.sent \in Nat
      /\ Len(j.wire) \in Nat /\ Len(j.wire) = j.sent - m
  BY <1>1, LenProperties DEF Part, Text
<1> HIDE DEF r, m, x
<1>4. Part(s, r, 1, m + n)
  BY <1>1, <1>2, PartJoin DEF x
<1>5. s \in Text /\ y \in Text /\ Len(s) \in Nat /\ Len(s) + 1 = m + n
  <2>1. s \in Text /\ Len(s) = (m + n) - 1
    BY <1>4, Zenon DEF Part
  <2>2. y \in Text
    BY <1>2 DEF Part
  <2>3. Len(s) \in Nat
    BY <2>1, LenProperties, Zenon DEF Text
  <2>4. (m + n) - 1 + 1 = m + n
    BY <1>3
  <2> QED
    BY <2>1, <2>2, <2>3, <2>4, Zenon
<1>6. Part(s, r, 1, Len(s) + 1) /\ Part(y, r, Len(s) + 1, j.sent)
  BY <1>2, <1>4, <1>5, Zenon
<1>7. Len(H) \in Nat
  BY <1>1, StreamParts DEF r
<1>8. HeaderEnds(s) \/ (Len(s) + 1 = j.sent /\ j.fin # "open")
  <2>1. CASE HeaderEnds(j.buf)
    <3>1. x = <<>>
      BY <2>1, <1>2, <1>3, EmptySeq DEF Part, Text, x
    <3> QED
      BY <2>1, <3>1, <1>3, ConcatEmptySeq, Zenon DEF Text, x
  <2>2. CASE ~HeaderEnds(j.buf)
    <3>1. HeaderEnds(s) \/ (n = Len(j.wire) /\ j.fin # "open")
      BY <2>2
    <3>2. n = Len(j.wire) => m + n = j.sent
      BY <1>3
    <3> QED
      BY <1>5, <3>1, <3>2, Zenon
  <2> QED
    BY <2>1, <2>2, Zenon
<1>9. HeaderEnds(s) => Len(s) >= Len(H) + 1
  BY <1>1, <1>6, EndsLate, Zenon DEF r
<1>10. Len(s) >= Len(H) + 1 \/ (Len(s) + 1 = j.sent /\ ~HeaderEnds(s))
  BY <1>8, <1>9, Zenon
<1> QED
  BY <1>1, <1>5, <1>6, <1>7, <1>8, <1>10, Zenon DEF r

\* An end of the text inside the header leaves nothing for the body.
LEMMA RestType ==
  ASSUME NEW r \in Replies, NEW s, NEW m, Part(s, r, 1, m), NEW H, H = HeaderText(r), Len(s) <= Len(H)
  PROVE  Rest(s) \in Text
<1>1. /\ Len(H) \in Nat /\ Len(s) \in Nat /\ s \in Text /\ (\A i \in 1..Len(s) : i <= Len(H) => s[i] = H[i])
      /\ (H # <<>> => WholeLines(H, Bare(r))) /\ (Len(H) # 0 <=> H # <<>>)
  BY HeaderFirst
<1>2. EmptyLines(s) = {}
  <2> SUFFICES ASSUME NEW i \in 1..Len(s), s[i] = "CR", i = 1 \/ s[i - 1] = "CR" PROVE FALSE
    BY DEF EmptyLines
  <2>1. WholeLines(H, Bare(r)) /\ i <= Len(H) /\ s[i] = H[i]
    BY <1>1
  <2>2. CASE i = 1
    BY <2>1, <2>2 DEF WholeLines
  <2>3. CASE i # 1
    <3>1. i - 1 \in 1..Len(s) /\ i - 1 <= Len(H) /\ i \in 2..Len(H)
      BY <1>1, <2>1, <2>3
    <3>2. H[i] = "CR" /\ H[i - 1] = "CR"
      BY <1>1, <2>1, <2>3, <3>1
    <3> QED
      BY <2>1, <3>1, <3>2 DEF WholeLines
  <2> QED
    BY <2>2, <2>3
<1>3. Rest(s) = SubSeq(s, Len(s) + 2, Len(s))
  BY <1>2 DEF Rest, HeadLen
<1> QED
  BY <1>1, <1>3 DEF Text

\* The header has been read: what came with it of the body stands in body.
LEMMA HeadersFit ==
  ASSUME NEW j, Exchange(j), Ends(j), j.pc = "headers", NEW n \in 0..Len(j.wire),
         NEW s, HeaderIn(s, j, n), NEW k, HasHeaders(k, j, s, n)
  PROVE  Exchange(k) /\ Ends(k) /\ k.pc = "body" /\ k.by = j.by
<1> USE DEF HasHeaders
<1> DEFINE r == j.page
           H == HeaderText(r)
           y == SubSeq(j.wire, n + 1, Len(j.wire))
           b == Rest(s)
           f == IF HeaderEnds(s) \/ j.fin = "open" THEN j.fin ELSE "eof"
<1>1. /\ r \in Replies /\ s \in Text /\ y \in Text /\ Len(H) \in Nat /\ Len(s) \in Nat
      /\ Part(s, r, 1, Len(s) + 1) /\ Part(y, r, Len(s) + 1, j.sent)
      /\ (Len(s) >= Len(H) + 1 \/ (Len(s) + 1 = j.sent /\ ~HeaderEnds(s)))
      /\ (HeaderEnds(s) \/ (Len(s) + 1 = j.sent /\ j.fin # "open"))
  BY HeaderRead, Zenon
<1>2. j \in JobsTo(j.host, j.uri) /\ r.code = "200" /\ j.content = <<>> /\ j.sent \in Nat
  BY DEF Exchange, JobsTo
<1>3. b \in Text /\ (j.sent = Len(Stream(r)) => b \o y = r.body)
  <2>1. CASE Len(s) >= Len(H) + 1
    <3>1. PICK m : Part(y, r, m, j.sent) /\ m = Len(s) + 1
      BY <1>1
    <3>2. m = Len(s) + 1 /\ Part(s, r, 1, m)
      BY <1>1, <3>1
    <3>3. b \in Text
      <4>1. HeadLen(s) = Len(H)
        BY <1>1, <2>1, <3>2, HeadFound
      <4>2. b = SubSeq(s, Len(H) + 2, Len(s))
        BY <4>1 DEF Rest
      <4>3. Len(H) + 2 \in Int /\ Len(s) \in Int
        BY <1>1
      <4>4. \A i \in Len(H) + 2..Len(s) : s[i] \in Symbol
        <5>1. \A i \in 1..Len(s) : s[i] \in Symbol
          BY <1>1, ElementOfSeq DEF Text
        <5>2. \A i \in Len(H) + 2..Len(s) : i \in 1..Len(s)
          BY <1>1
        <5> QED
          BY <5>1, <5>2
      <4> HIDE DEF b, H
      <4> QED
        BY <4>2, <4>3, <4>4, SubSeqProperties DEF Text
    <3>4. ASSUME j.sent = Len(Stream(r)) PROVE b \o y = r.body
      <4>1. Part(y, r, m, Len(Stream(r)))
        BY <3>1, <3>4
      <4> HIDE DEF H, y, r
      <4> QED
        BY <1>1, <2>1, <3>2, <4>1, BodySplit DEF H
    <3> QED
      BY <3>3, <3>4
  <2>2. CASE ~(Len(s) >= Len(H) + 1)
    <3>1. Len(s) <= Len(H) /\ Len(s) + 1 = j.sent
      BY <1>1, <2>2
    <3>2. b \in Text
      BY <1>1, <3>1, RestType
    <3>3. j.sent # Len(Stream(r))
      <4>1. Len(Stream(r)) = Len(H) + Len(r.body) + 2 /\ Len(r.body) \in Nat
        BY <1>1, StreamParts, Zenon
      <4> HIDE DEF H
      <4> QED
        BY <1>1, <3>1, <4>1
    <3> QED
      BY <3>2, <3>3
  <2> QED
    BY <2>1, <2>2, Zenon
<1>4. f \in {"open", "eof", "reset"} /\ (f = "reset" => j.fin = "reset") /\ (f = "open" <=> j.fin = "open")
      /\ (f # j.fin => ~HeaderEnds(s))
  BY <1>2 DEF JobsTo
<1>5. ~HeaderEnds(s) /\ r.headers # <<>> => ~(j.sent >= Len(H) + 2)
  <2>1. ~HeaderEnds(s) /\ r.headers # <<>> => ~(Len(s) >= Len(H) + 1)
    BY <1>1, EndsSeen
  <2> HIDE DEF H, r
  <2> QED
    BY <1>1, <1>2, <2>1
<1> HIDE DEF b, y, H, f
<1>6. /\ k.pc = "body" /\ k.by = j.by /\ k.page = r /\ k.wire = y /\ k.sent = j.sent /\ k.fin = f
      /\ k.content = <<>> /\ k.host = j.host /\ k.uri = j.uri /\ k.buf = <<>> /\ k.body = b
  BY <1>2 DEF JobsTo, b, y, f
<1>7. k \in JobsTo(j.host, j.uri)
  <2>1. <<>> \in Text
    BY EmptySeq DEF Text
  <2> QED
    BY <1>1, <1>2, <1>3, <1>4, <2>1, Zenon DEF JobsTo, b, y, f, Pc
<1>8. Exchange(k)
  <2>1. b \o <<>> = b
    BY <1>3, ConcatEmptySeq DEF Text
  <2> QED
    BY <1>2, <1>3, <1>6, <1>7, <2>1, Zenon DEF Exchange, Whole
<1>9. Ends(k)
  <2>1. r.end = "reset" /\ f # "reset" => ~HeaderSent(k)
    <3>1. r.end = "reset" => j.fin = "reset"
      BY DEF Ends
    <3> QED
      BY <1>4, <1>5, <1>6, <3>1 DEF HeaderSent, H
  <2> QED
    BY <1>2, <1>4, <1>6, <2>1 DEF Ends, Whole
<1> QED
  BY <1>6, <1>8, <1>9

\* A read cuts what is on the wire in two, ...
LEMMA CutInTwo ==
  ASSUME NEW w \in Text, NEW n \in 0..Len(w), NEW x, x = SubSeq(w, 1, n),
         NEW y, y = SubSeq(w, n + 1, Len(w))
  PROVE  x \in Text /\ y \in Text /\ InTwo(w, x, y)
<1>1. Len(w) \in Nat /\ n \in Nat /\ n + 1 \in Int /\ 1 \in Int
  BY LenProperties DEF Text
<1>2. \A i \in 1..Len(w) : w[i] \in Symbol
  BY ElementOfSeq DEF Text
<1>3. (\A i \in 1..n : w[i] \in Symbol) /\ (\A i \in n + 1..Len(w) : w[i] \in Symbol)
  BY <1>1, <1>2
<1>4. x \in Text
  BY <1>1, <1>3, SubSeqProperties DEF Text
<1>5. y \in Text
  BY <1>1, <1>3, SubSeqProperties DEF Text
<1>6. x \o y = SubSeq(w, 1, Len(w))
  <2>1. 1 \in 1..Len(w) + 1 /\ n \in (1 - 1)..Len(w) /\ Len(w) \in n..Len(w)
    BY <1>1
  <2> QED
    BY <2>1, ConcatAdjacentSubSeq, Zenon DEF Text
<1>7. SubSeq(w, 1, Len(w)) = w
  BY SubSeqFull DEF Text
<1> QED
  BY <1>4, <1>5, <1>6, <1>7, Zenon DEF InTwo

\* (texts are put together in either order)
LEMMA EitherOrder == \A d, x, y \in Text : (d \o x) \o y = d \o (x \o y)
BY ConcatAssociative DEF Text

\* ... and the first goes to the end of what was read before.
LEMMA Regroup ==
  ASSUME NEW b \in Text, NEW c \in Text, NEW x \in Text, NEW y \in Text, NEW s, s = c \o x,
         NEW w, InTwo(w, x, y)
  PROVE  Alike(b, s, y, c, w)
<1>1. (b \o c) \o x = b \o (c \o x)
  BY EitherOrder
<1>2. b \o c \in Text
  BY ConcatProperties DEF Text
<1>3. \A d \in Text : (d \o x) \o y = d \o (x \o y)
  BY EitherOrder
<1>4. ((b \o c) \o x) \o y = (b \o c) \o (x \o y)
  BY <1>2, <1>3
<1> QED
  BY <1>1, <1>4 DEF InTwo, Alike

\* The text as a whole is the same before and after a read.
LEMMA ReadKeeps ==
  ASSUME NEW b \in Text, NEW c \in Text, NEW w \in Text, NEW n \in 1..Len(w),
         NEW s, NEW y, IsRead(s, y, c, w, n)
  PROVE  s \in Text /\ y \in Text /\ Alike(b, s, y, c, w)
<1>1. PICK x : x = SubSeq(w, 1, n)
  BY Zenon
<1>2. n \in 0..Len(w) /\ s = c \o x /\ y = SubSeq(w, n + 1, Len(w))
  BY <1>1 DEF IsRead
<1>3. x \in Text /\ y \in Text /\ InTwo(w, x, y) /\ s = c \o x
  BY <1>1, <1>2, CutInTwo, Zenon
<1>4. Alike(b, s, y, c, w)
  BY <1>3, Regroup, Zenon
<1>5. s \in Text
  BY <1>3, ConcatProperties DEF Text
<1> QED
  BY <1>1, <1>3, <1>4, <1>5

\* The buffer is content, from the first read of the body to the last.
LEMMA BodyFits ==
  ASSUME NEW j, Exchange(j), Ends(j), j.pc = "body", NEW n \in 1..Len(j.wire),
         NEW s, NEW k, HasBody(k, j, s, n)
  PROVE  Exchange(k) /\ Ends(k) /\ k.pc = "body" /\ k.by = j.by
<1> USE DEF HasBody
<1> DEFINE r == j.page
           w == j.wire
           c == j.content
           b == j.body
           y == SubSeq(w, n + 1, Len(w))
<1>1. /\ j \in JobsTo(j.host, j.uri) /\ r.code = "200" /\ j.buf = c
      /\ w \in Text /\ c \in Text /\ b \in Text
      /\ (j.sent = Len(Stream(r)) => (b \o c) \o w = r.body)
  BY DEF Exchange, JobsTo, Whole
<1>2. Len(w) \in Nat /\ n \in Nat /\ 1 <= n /\ n <= Len(w)
  BY <1>1, LenProperties DEF Text
<1> HIDE DEF w, c, b
<1>3. IsRead(s, y, c, w, n) /\ n \in 1..Len(w)
  BY <1>1 DEF w, IsRead
<1> HIDE DEF y
<1>5. s \in Text /\ y \in Text /\ (b \o s) \o y = (b \o c) \o w
  <2>1. b \in Text /\ c \in Text /\ w \in Text
    BY <1>1
  <2>2. s \in Text /\ y \in Text /\ Alike(b, s, y, c, w)
    BY <1>3, <2>1, ReadKeeps
  <2> QED
    BY <2>2, Zenon DEF Alike
<1>6. /\ k.pc = "body" /\ k.by = j.by /\ k.page = r /\ k.wire = y /\ k.sent = j.sent /\ k.fin = j.fin
      /\ k.content = s /\ k.host = j.host /\ k.uri = j.uri /\ k.buf = s /\ k.body = b
  BY <1>1, Zenon DEF JobsTo, b, y, w
<1>7. k \in JobsTo(j.host, j.uri)
  BY <1>1, <1>5, Zenon DEF JobsTo, y, w, Text
<1>8. Exchange(k)
  BY <1>1, <1>5, <1>6, <1>7, Zenon DEF Exchange, Whole
<1>9. Ends(k)
  BY <1>6 DEF Ends, Whole, HeaderSent
<1> QED
  BY <1>6, <1>8, <1>9
-----------------------------------------------------------------------------
\* A thread with nothing to do is one that is not busy.
LEMMA BusyPc ==
  ASSUME Threads, NEW w \in Worker
  PROVE  (Busy(w) <=> job[w].pc # "idle") /\ job[w].by \in Worker \cup {Client} /\ job[w].page \in Replies
<1>1. Exchange(job[w])
  BY DEF Threads
<1>2. Idle.pc = "idle"
  BY DEF Idle
<1> QED
  BY <1>1, <1>2 DEF Exchange, JobsTo, Busy

\* A thread that does not wait has no thread making a page for it.
LEMMA NoMaker ==
  ASSUME Threads, NEW w \in Worker, ~Waits(w)
  PROVE  \A u \in Worker : Busy(u) => job[u].by # w
BY DEF Threads, Matched

\* A step of w, or of its connection, leaves the threads matched when none makes a
\* page for w.
LEMMA OwnStep ==
  ASSUME Threads, NEW w \in Worker, Busy(w), \A u \in Worker : Busy(u) => job[u].by # w,
         NEW k, Becomes(w, k), Exchange(k), Ends(k), k.pc # "idle", k.by = job[w].by
  PROVE  Threads'
<1>1. /\ job' = [v \in Worker |-> job'[v]] /\ job'[w] = k
      /\ \A v \in Worker : v # w => job'[v] = job[v]
  BY DEF Becomes
<1>2. \A v \in Worker : Exchange(job'[v]) /\ Ends(job'[v])
  BY <1>1 DEF Threads
<1>3. \A v \in Worker : (Busy(v)' <=> Busy(v)) /\ job'[v].by = job[v].by
  <2>1. k # Idle
    BY DEF Idle
  <2> QED
    BY <1>1, <2>1 DEF Busy
<1>4. \A v \in Worker : v # w /\ Waits(v) => Waits(v)'
  BY <1>1 DEF Waits
<1>5. Matched'
  <2>1. ASSUME NEW v \in Worker, Busy(v)', job'[v].by \in Worker PROVE Waits(job[v].by)'
    <3>1. Busy(v) /\ job[v].by \in Worker /\ job[v].by # w
      BY <1>3, <2>1
    <3>2. Waits(job[v].by)
      BY <3>1 DEF Threads, Matched
    <3>3. PICK b \in Worker : b = job[v].by
      BY <3>1
    <3>4. Waits(b) /\ b # w /\ job'[v].by = b
      BY <1>3, <3>1, <3>2, <3>3
    <3>5. job'[b] = job[b]
      BY <1>1, <3>4
    <3> QED
      BY <1>1, <3>4, <3>5, <3>3 DEF Waits
  <2> QED
    BY <1>3, <2>1 DEF Threads, Matched
<1> QED
  BY <1>1, <1>2, <1>5 DEF Threads

\* A step that returns nothing and ends nothing leaves the outcome.
LEMMA SameOutcome ==
  ASSUME Outcome, proc = "up", UNCHANGED <<last, proc>>
  PROVE  Outcome'
BY DEF Outcome, BodyIntact, Whole, HeaderSent

\* handle_request is called for a client, or for a thread that waits and is unserved.
LEMMA CallStep ==
  ASSUME Inv, proc = "up", NEW w \in Worker, NEW b, b = Client \/ (b \in Worker /\ Unserved(b)),
         NEW u, Call(w, b, u)
  PROVE  Inv'
<1> DEFINE k == [Idle EXCEPT !.pc = "handle", !.by = b, !.uri = u]
<1>1. Exchange(k) /\ Ends(k) /\ k.pc = "handle" /\ k.by = b
  <2>1. PICK h : h = Idle.host
    OBVIOUS
  <2>2. Begun(k, "handle", b, h, u)
    BY <2>1, Zenon DEF Idle, Begun
  <2>3. b \in Worker \cup {Client}
    OBVIOUS
  <2> HIDE DEF k
  <2> QED
    BY <2>2, <2>3, BeginFits
<1>2. job = [v \in Worker |-> job[v]] /\ job[w] = Idle /\ job' = [job EXCEPT ![w] = k]
      /\ last' = NoAnswer /\ proc' = proc
  BY DEF Inv, Threads, Call, Busy
<1> HIDE DEF k
<1>3. /\ job' = [v \in Worker |-> job'[v]] /\ job'[w] = k
      /\ \A v \in Worker : v # w => job'[v] = job[v]
  BY <1>2
<1>4. \A v \in Worker : Exchange(job'[v]) /\ Ends(job'[v])
  BY <1>1, <1>3 DEF Inv, Threads
<1>5. k # Idle /\ ~Busy(w) /\ Idle.pc = "idle"
  BY <1>1, <1>2 DEF Idle, Busy
<1>6. \A v \in Worker : v # w => (Busy(v)' <=> Busy(v)) /\ job'[v].by = job[v].by
  BY <1>3 DEF Busy
<1>7. ~Waits(w) /\ \A v \in Worker : Busy(v) => job[v].by # w
  <2>1. ~Waits(w)
    BY <1>2, <1>5 DEF Waits
  <2> QED
    BY <2>1, NoMaker DEF Inv
<1>8. \A v \in Worker : Waits(v) => v # w /\ Waits(v)'
  <2> SUFFICES ASSUME NEW v \in Worker, Waits(v) PROVE v # w /\ Waits(v)'
    OBVIOUS
  <2>1. v # w /\ job'[v] = job[v]
    BY <1>3, <1>7
  <2> QED
    BY <2>1 DEF Waits
<1>9. b \in Worker => Waits(b) /\ \A v \in Worker : Busy(v) => job[v].by # b
  <2>1. Client \notin Worker
    BY WebAssumption
  <2> QED
    BY <2>1 DEF Unserved
<1>10. Matched'
  <2>1. ASSUME NEW v \in Worker, Busy(v)', job'[v].by \in Worker PROVE Waits(job[v].by)'
    <3>1. PICK c \in Worker : c = job'[v].by
      BY <2>1
    <3>2. Waits(c)
      <4>1. CASE v = w
        BY <1>1, <1>3, <1>9, <3>1, <4>1
      <4>2. CASE v # w
        BY <1>6, <2>1, <3>1, <4>2 DEF Inv, Threads, Matched
      <4> QED
        BY <4>1, <4>2
    <3>3. Waits(c)'
      BY <1>8, <3>2
    <3> QED
      BY <3>1, <3>3
  <2>2. ASSUME NEW v \in Worker, NEW x \in Worker, Busy(v)', Busy(x)', job'[v].by = job'[x].by, job'[v].by \in Worker
        PROVE  v = x
    <3>1. CASE v # w /\ x # w
      BY <1>6, <2>2, <3>1 DEF Inv, Threads, Matched
    <3>2. CASE v = w /\ x # w
      BY <1>1, <1>3, <1>6, <1>9, <2>2, <3>2
    <3>3. CASE v # w /\ x = w
      BY <1>1, <1>3, <1>6, <1>9, <2>2, <3>3
    <3> QED
      BY <3>1, <3>2, <3>3
  <2> QED
    BY <2>1, <2>2 DEF Matched
<1>11. Outcome'
  BY <1>2 DEF Outcome, BodyIntact, NoAnswer, Inv
<1> QED
  BY <1>3, <1>4, <1>10, <1>11 DEF Inv, Threads

\* send_request throws on a hard reply only.
LEMMA ThrowStep ==
  ASSUME Inv, proc = "up", NEW w \in Worker, Throw, Hard(job[w].page)
  PROVE  Inv'
<1>1. job' = job /\ last' = last /\ proc' = "terminated"
  BY DEF Throw
<1>2. Threads'
  BY <1>1 DEF Inv, Threads, Matched, Busy, Waits
<1>3. Outcome'
  BY <1>1 DEF Inv, Outcome, BodyIntact, Whole, HeaderSent
<1> QED
  BY <1>2, <1>3 DEF Inv

\* A request to a destination, the first or one that follows a redirect.
LEMMA AskStep ==
  ASSUME Inv, proc = "up", NEW w \in Worker, Busy(w), ~Waits(w), NEW h, NEW u, Ask(w, h, u)
  PROVE  Inv'
<1>1. PICK b : b = job[w].by
  OBVIOUS
<1>2. b \in Worker \cup {Client}
  BY <1>1, BusyPc DEF Inv
<1>3. PICK k : k = [Idle EXCEPT !.pc = "send", !.by = b, !.host = h, !.uri = u]
  OBVIOUS
<1>8. Begun(k, "send", b, h, u)
  BY <1>3 DEF Begun
<1>4. Exchange(k) /\ Ends(k) /\ k.pc = "send" /\ k.by = b
  BY <1>2, <1>8, BeginFits
<1>5. Becomes(w, k) /\ UNCHANGED <<last, proc>>
  BY <1>1, <1>3 DEF Ask, Becomes, Inv, Threads
<1>6. Threads'
  <2>1. \A v \in Worker : Busy(v) => job[v].by # w
    BY NoMaker DEF Inv
  <2> QED
    BY <1>1, <1>4, <1>5, <2>1, OwnStep DEF Inv
<1>7. Outcome'
  BY <1>5, SameOutcome DEF Inv
<1> QED
  BY <1>6, <1>7 DEF Inv

\* handle_request returns: the thread is free again, and the one that waits for the
\* page has it.
LEMMA ReturnStep ==
  ASSUME Inv, proc = "up", NEW w \in Worker, Busy(w), ~Waits(w), NEW code \in {"200", "400", "404"},
         NEW body \in Text, Return(w, code, body),
         code = "200" => /\ job[w].page.code = "200"
                         /\ Whole(job[w]) => body = Rewrite(job[w].page.body)
                         /\ HeaderSent(job[w]) => job[w].page.end # "reset"
  PROVE  Inv'
<1>1. Threads /\ Outcome /\ job = [v \in Worker |-> job[v]]
  BY DEF Inv, Threads
<1>2. \A v \in Worker : Busy(v) => job[v].by # w
  BY <1>1, NoMaker
<1>3. PICK b : b = job[w].by
  OBVIOUS
<1>4. b \in Worker \cup {Client} /\ b # w /\ Client \notin Worker /\ Idle.pc = "idle"
  BY <1>1, <1>2, <1>3, BusyPc, WebAssumption DEF Idle
<1>5. PICK r : r = Reply(code, <<>>, body, "eof")
  OBVIOUS
<1>6. r \in Replies /\ r.code # "none" /\ r.end = "eof"
  BY <1>5, AnswerReplies
<1>7. b \in Worker => Waits(b) /\ \A v \in Worker : Busy(v) /\ job[v].by = b => v = w
  BY <1>1, <1>3 DEF Threads, Matched
<1>8. PICK k : Served(k, job[b], r)
  BY DEF Served
<1>9. /\ job' = [v \in Worker |-> job'[v]] /\ job'[w] = Idle
      /\ (b \in Worker => job'[b] = k)
      /\ \A v \in Worker : v # w /\ v # b => job'[v] = job[v]
  <2> DEFINE j == [job EXCEPT ![w] = Idle]
  <2>1. j = [v \in Worker |-> IF v = w THEN Idle ELSE job[v]]
    BY <1>1
  <2>2. CASE b = Client
    <3>1. job' = j
      BY <1>3, <2>2 DEF Return
    <3> QED
      BY <1>4, <2>1, <2>2, <3>1
  <2>3. CASE b \in Worker
    <3>1. job' = [j EXCEPT ![b].page = r, ![b].wire = Stream(r), ![b].sent = Len(Stream(r))]
      BY <1>3, <1>4, <1>5, <2>3 DEF Return
    <3>2. j[b] = job[b]
      BY <1>4, <2>1, <2>3
    <3> HIDE DEF j
    <3>3. job'[b] = [j[b] EXCEPT !.page = r, !.wire = Stream(r), !.sent = Len(Stream(r))]
      BY <2>1, <2>3, <3>1
    <3>4. job'[b] = k
      BY <1>8, <3>2, <3>3 DEF Served
    <3>5. job' = [v \in Worker |-> job'[v]] /\ \A v \in Worker : v # b => job'[v] = j[v]
      BY <2>1, <2>3, <3>1, Zenon
    <3> QED
      BY <1>4, <2>1, <3>4, <3>5
  <2> QED
    BY <1>4, <2>2, <2>3
<1>10. b \in Worker => Exchange(k) /\ Ends(k) /\ k.pc = "first" /\ k.by = job[b].by
  <2> SUFFICES ASSUME b \in Worker PROVE Exchange(k) /\ Ends(k) /\ k.pc = "first" /\ k.by = job[b].by
    OBVIOUS
  <2>1. job[b].pc = "first" /\ job[b].page = NoReply /\ job[b].fin = "open" /\ Exchange(job[b]) /\ Ends(job[b])
    BY <1>1, <1>7 DEF Waits, Threads
  <2> QED
    BY <1>6, <1>8, <2>1, ServedFits
<1>11. \A v \in Worker : Exchange(job'[v]) /\ Ends(job'[v])
  BY <1>1, <1>9, <1>10, IdleFits DEF Threads
<1>12. \A v \in Worker : Busy(v)' => v # w /\ Busy(v) /\ job'[v].by = job[v].by
  <2> SUFFICES ASSUME NEW v \in Worker, Busy(v)' PROVE v # w /\ Busy(v) /\ job'[v].by = job[v].by
    OBVIOUS
  <2>1. v # w
    BY <1>9 DEF Busy
  <2>2. CASE v = b
    <3>1. Busy(v)
      BY <1>1, <1>4, <1>7, <2>2 DEF Waits, Busy
    <3> QED
      BY <1>9, <1>10, <2>1, <2>2, <3>1
  <2>3. CASE v # b
    BY <1>9, <2>1, <2>3 DEF Busy
  <2> QED
    BY <2>1, <2>2, <2>3
<1>13. Matched'
  <2>1. ASSUME NEW v \in Worker, Busy(v)', job'[v].by \in Worker PROVE Waits(job[v].by)'
    <3>1. v # w /\ Busy(v) /\ job'[v].by = job[v].by
      BY <1>12, <2>1
    <3>2. PICK c \in Worker : c = job'[v].by
      BY <2>1
    <3>3. Waits(c) /\ c # w /\ c # b
      BY <1>1, <1>2, <1>7, <3>1, <3>2 DEF Threads, Matched
    <3>4. job'[c] = job[c]
      BY <1>9, <3>3
    <3>5. Waits(c)'
      BY <3>3, <3>4 DEF Waits
    <3> QED
      BY <3>2, <3>5
  <2>2. ASSUME NEW v \in Worker, NEW x \in Worker, Busy(v)', Busy(x)', job'[v].by = job'[x].by, job'[v].by \in Worker
        PROVE  v = x
    BY <1>1, <1>12, <2>2 DEF Threads, Matched
  <2> QED
    BY <2>1, <2>2 DEF Matched
<1>14. Outcome'
  <2>1. last' = Answer(w, code, body) /\ proc' = "up"
    BY DEF Return
  <2>2. last'.code = code /\ last'.body = body /\ last'.page = job[w].page /\ last'.sent = job[w].sent
    BY <2>1 DEF Answer
  <2>3. (Whole(last)' <=> Whole(job[w])) /\ (HeaderSent(last)' <=> HeaderSent(job[w]))
    BY <2>2 DEF Whole, HeaderSent
  <2> QED
    BY <2>1, <2>2, <2>3 DEF Outcome, BodyIntact
<1> QED
  BY <1>9, <1>11, <1>13, <1>14 DEF Inv, Threads

\* An answer without a body.
LEMMA ErrorStep ==
  ASSUME Inv, proc = "up", NEW w \in Worker, Busy(w), ~Waits(w), NEW code \in {"400", "404"},
         Return(w, code, <<>>)
  PROVE  Inv'
<1>1. <<>> \in Text /\ code \in {"200", "400", "404"} /\ code # "200"
  BY EmptySeq DEF Text
<1> QED
  BY <1>1, ReturnStep

\* A step of w that changes only its own job, or what its connection holds.
LEMMA JobStep ==
  ASSUME Inv, proc = "up", NEW w \in Worker, Busy(w), \A u \in Worker : Busy(u) => job[u].by # w,
         NEW k, Becomes(w, k), Exchange(k), Ends(k), k.pc # "idle", k.by = job[w].by,
         UNCHANGED <<last, proc>>
  PROVE  Inv'
BY OwnStep, SameOutcome DEF Inv

\* Serve: another handler answers at once, or this one is called.
LEMMA ServeStep ==
  ASSUME Inv, proc = "up", NEW w \in Worker, NEW v \in Worker, Serve(w, v)
  PROVE  Inv'
<1>1. Threads /\ job = [u \in Worker |-> job[u]] /\ Unserved(v)
  BY Zenon DEF Inv, Threads, Serve
<1>2. CASE Proxied(job[v].uri)
  <2>1. PICK u : u = job[v].uri
    OBVIOUS
  <2>2. Call(w, v, u)
    BY <1>2, <2>1 DEF Serve
  <2> QED
    BY <1>1, <2>2, CallStep
<1>3. CASE ~Proxied(job[v].uri)
  <2>1. PICK r \in Page(<<>>, job[v].uri) :
          /\ job' = [job EXCEPT ![v].page = r, ![v].wire = Stream(r), ![v].sent = Len(Stream(r))]
          /\ UNCHANGED <<last, proc>>
    BY <1>3, Zenon DEF Serve
  <2>2. r \in Replies /\ r.code # "none" /\ r.end = "eof"
    <3>1. PICK u : u = job[v].uri
      OBVIOUS
    <3> QED
      BY <2>1, <3>1, PageReplies
  <2>3. PICK k : Served(k, job[v], r)
    BY DEF Served
  <2>4. /\ job[v].pc = "first" /\ job[v].page = NoReply /\ job[v].fin = "open"
        /\ Exchange(job[v]) /\ Ends(job[v]) /\ \A u \in Worker : Busy(u) => job[u].by # v
    BY <1>1 DEF Unserved, Waits, Threads
  <2>5. Exchange(k) /\ Ends(k) /\ k.pc = "first" /\ k.by = job[v].by
    BY <2>2, <2>3, <2>4, ServedFits
  <2>6. Becomes(v, k)
    BY <1>1, <2>1, <2>3 DEF Served, Becomes
  <2>7. Busy(v)
    <3>1. Idle.pc = "idle"
      BY DEF Idle
    <3> QED
      BY <2>4, <3>1 DEF Busy
  <2> QED
    BY <2>1, <2>4, <2>5, <2>6, <2>7, JobStep
<1> QED
  BY <1>2, <1>3

\* Timeout: the connection to this server is closed.
LEMMA TimeoutStep ==
  ASSUME Inv, proc = "up", NEW w \in Worker, NEW v \in Worker, Timeout(w, v)
  PROVE  Inv'
<1>1. Threads /\ job = [u \in Worker |-> job[u]] /\ Exchange(job[v]) /\ Ends(job[v])
  BY DEF Inv, Threads
<1>2. Busy(v) /\ job[v].pc \notin {"idle", "handle", "send"} /\ job[v].fin = "open"
  BY <1>1, BusyPc DEF Timeout
<1>3. PICK k : Closed(k, job[v])
  BY Zenon DEF Closed
<1>4. Exchange(k) /\ Ends(k) /\ k.pc = job[v].pc /\ k.by = job[v].by
  BY <1>1, <1>2, <1>3, ClosedFits
<1>5. Becomes(v, k) /\ UNCHANGED <<last, proc>> /\ \A u \in Worker : Busy(u) => job[u].by # v
  BY <1>1, <1>3 DEF Closed, Becomes, Timeout
<1> QED
  BY <1>2, <1>4, <1>5, JobStep

\* handle_request answers with an error, or asks its destination.
LEMMA HandleStep ==
  ASSUME Inv, proc = "up", NEW w \in Worker, handle_request(w)
  PROVE  Inv'
<1>1. job[w].pc = "handle" /\ Busy(w) /\ ~Waits(w)
  BY DEF handle_request, Waits, Busy, Idle
<1>2. CASE Return(w, "400", <<>>) \/ Return(w, "404", <<>>)
  BY <1>1, <1>2, ErrorStep
<1>3. ASSUME NEW u, Ask(w, Dest, u) PROVE Inv'
  BY <1>1, <1>3, AskStep
<1> QED
  BY <1>2, <1>3 DEF handle_request, throw_400_error

\* send_request up to the write.
LEMMA SendStep ==
  ASSUME Inv, proc = "up", NEW w \in Worker, Send(w)
  PROVE  Inv'
<1>1. job[w].pc = "send" /\ Busy(w) /\ ~Waits(w)
  <2>1. job[w].pc = "send"
    BY Zenon DEF Send
  <2> QED
    BY <2>1 DEF Waits, Busy, Idle
<1>2. /\ Threads /\ job = [u \in Worker |-> job[u]] /\ Exchange(job[w]) /\ Ends(job[w])
      /\ \A u \in Worker : Busy(u) => job[u].by # w
  BY <1>1, NoMaker DEF Inv, Threads
<1>3. CASE Return(w, "400", <<>>)
  BY <1>1, <1>3, ErrorStep
<1>4. CASE job' = [job EXCEPT ![w].pc = "first"] /\ UNCHANGED <<last, proc>>
  <2>1. PICK k : Connected(k, job[w])
    BY Zenon DEF Connected
  <2>2. Exchange(k) /\ Ends(k) /\ k.pc = "first" /\ k.by = job[w].by
    BY <1>1, <1>2, <2>1, ConnectedFits
  <2>3. Becomes(w, k)
    BY <1>2, <1>4, <2>1 DEF Connected, Becomes
  <2> QED
    BY <1>1, <1>2, <1>4, <2>2, <2>3, JobStep
<1>5. ASSUME NEW h, NEW u, NEW r \in Page(h, u), NEW n \in Lengths(r),
             job' = [job EXCEPT ![w].pc = "first", ![w].page = r, ![w].sent = n,
                                ![w].wire = SubSeq(Stream(r), 1, n), ![w].fin = Ending(r)],
             UNCHANGED <<last, proc>>
      PROVE  Inv'
  <2>1. PICK k : Replied(k, job[w], r, n)
    BY DEF Replied
  <2>2. r \in Replies /\ r.code # "none"
    BY <1>5, PageReplies
  <2>3. Exchange(k) /\ Ends(k) /\ k.pc = "first" /\ k.by = job[w].by
    BY <1>1, <1>2, <1>5, <2>1, <2>2, RepliedFits
  <2>4. Becomes(w, k)
    BY <1>2, <1>5, <2>1 DEF Replied, Becomes
  <2> QED
    BY <1>1, <1>2, <1>5, <2>3, <2>4, JobStep
<1> QED
  BY <1>3, <1>4, <1>5, Zenon DEF Send, throw_400_error

\* What a redirect leads to.
LEMMA RedirectStep ==
  ASSUME Inv, proc = "up", NEW w \in Worker, Busy(w), ~Waits(w), job[w].page.code \in {"301", "302"},
         NEW text, Redirect(w, text)
  PROVE  Inv'
<1>1. CASE Return(w, "400", <<>>)
  BY <1>1, ErrorStep
<1>2. CASE Throw
  BY <1>2, ThrowStep DEF Hard
<1>3. ASSUME NEW h, NEW u, Ask(w, h, u) PROVE Inv'
  BY <1>3, AskStep
<1>4. ASSUME NEW l, handle_redirect(w, l) PROVE Inv'
  BY <1>1, <1>3, <1>4 DEF handle_redirect, throw_400_error
<1> QED
  BY <1>1, <1>2, <1>4 DEF Redirect, throw_400_error

\* The status line has been read, or the connection has ended before it.
LEMMA StatusStep ==
  ASSUME Inv, proc = "up", NEW w \in Worker, ReadStatus(w)
  PROVE  Inv'
<1>1. job[w].pc = "first"
  BY Zenon DEF ReadStatus
<1>2. Busy(w)
  BY <1>1 DEF Busy, Idle
<1>3. /\ Threads /\ job = [u \in Worker |-> job[u]] /\ Exchange(job[w]) /\ Ends(job[w])
  BY DEF Inv, Threads
<1>4. CASE job[w].wire = <<>> /\ job[w].fin # "open" /\ Return(w, "400", <<>>)
  <2>1. ~Waits(w)
    BY <1>4 DEF Waits
  <2> QED
    BY <1>2, <1>4, <2>1, ErrorStep
<1>5. ASSUME NEW n \in 1..Len(job[w].wire), NEW code, code = job[w].wire[1], NEW text, text = SubSeq(job[w].wire, 2, n),
             CASE code \in {"301", "302"} -> Redirect(w, text)
               [] code = "404" -> Return(w, "404", <<>>)
               [] code = "200" ->
                    /\ job' = [job EXCEPT ![w].pc = "headers", ![w].buf = text,
                                          ![w].wire = SubSeq(@, n + 1, Len(@))]
                    /\ UNCHANGED <<last, proc>>
               [] OTHER -> Return(w, "400", <<>>)
      PROVE  Inv'
  <2>1. Part(job[w].wire, job[w].page, 0, job[w].sent) /\ job[w].page \in Replies
    BY <1>1, <1>3 DEF Exchange, JobsTo
  <2>2. Len(job[w].wire) \in Nat /\ 1 <= Len(job[w].wire) /\ job[w].sent # 0 /\ 1 \in 1..Len(job[w].wire)
    <3>1. job[w].wire \in Seq(Symbol) /\ job[w].sent \in Nat /\ Len(job[w].wire) = job[w].sent - 0
      BY <2>1 DEF Part, Text
    <3>2. Len(job[w].wire) \in Nat
      BY <3>1, LenProperties
    <3> QED
      BY <3>1, <3>2
  <2>3. ~Waits(w)
    BY <1>3, <2>2 DEF Ends, Waits
  <2>4. code = job[w].page.code
    <3>1. job[w].wire[1] = Stream(job[w].page)[0 + 1]
      BY <2>1, <2>2 DEF Part
    <3>2. PICK r \in Replies : r = job[w].page
      BY <2>1
    <3>3. Stream(r)[1] = r.code
      BY StreamParts
    <3> QED
      BY <1>5, <3>1, <3>2, <3>3
  <2>5. CASE Redirect(w, text) /\ code \in {"301", "302"}
    BY <1>2, <2>3, <2>4, <2>5, RedirectStep
  <2>6. CASE Return(w, "404", <<>>) \/ Return(w, "400", <<>>)
    BY <1>2, <2>3, <2>6, ErrorStep
  <2>7. CASE /\ code = "200"
             /\ job' = [job EXCEPT ![w].pc = "headers", ![w].buf = text,
                                   ![w].wire = SubSeq(@, n + 1, Len(@))]
             /\ UNCHANGED <<last, proc>>
    <3>1. PICK k : HasStatus(k, job[w], n)
      BY DEF HasStatus
    <3>2. job[w].wire[1] = "200"
      BY <1>5, <2>7
    <3>3. Exchange(k) /\ Ends(k) /\ k.pc = "headers" /\ k.by = job[w].by
      BY <1>1, <1>3, <1>5, <3>1, <3>2, StatusFits
    <3>4. Becomes(w, k)
      BY <1>3, <1>5, <2>7, <3>1 DEF HasStatus, Becomes
    <3>5. \A u \in Worker : Busy(u) => job[u].by # w
      BY <1>3, <2>3, NoMaker
    <3> QED
      BY <1>2, <2>7, <3>3, <3>4, <3>5, JobStep
  <2> QED
    BY <1>5, <2>5, <2>6, <2>7
<1> QED
  BY <1>4, <1>5, Zenon DEF ReadStatus, throw_400_error

\* The header has been read, or as much of it as has come.
LEMMA HeadersStep ==
  ASSUME Inv, proc = "up", NEW w \in Worker, ReadHeaders(w)
  PROVE  Inv'
<1>1. job[w].pc = "headers"
  BY DEF ReadHeaders
<1>2. Busy(w) /\ ~Waits(w)
  BY <1>1 DEF Busy, Idle, Waits
<1>3. /\ Threads /\ job = [u \in Worker |-> job[u]] /\ Exchange(job[w]) /\ Ends(job[w])
  BY DEF Inv, Threads
<1>7. PICK n \in 0..Len(job[w].wire) : \E s : TakesHeader(w, s, n)
  BY Zenon DEF ReadHeaders, HeaderIn, Suffices, TakesHeader
<1>8. PICK s : TakesHeader(w, s, n)
  BY <1>7
<1>4. /\ HeaderIn(s, job[w], n)
      /\ IF \E i \in LineEnds(s) : ThrowsAt(s, i) /\ s[LineStart(s, i)] # "Transfer-Encoding:"
         THEN Throw
         ELSE /\ job' = [job EXCEPT ![w].pc = "body", ![w].buf = <<>>, ![w].body = Rest(s),
                                    ![w].wire = SubSeq(@, n + 1, Len(@)),
                                    ![w].fin = IF HeaderEnds(s) \/ @ = "open" THEN @ ELSE "eof"]
              /\ UNCHANGED <<last, proc>>
  BY <1>8, Zenon DEF TakesHeader
<1>5. CASE Throw /\ \E i \in LineEnds(s) : ThrowsAt(s, i)
  <2>1. PICK j : j = job[w]
    OBVIOUS
  <2>2. PICK H : H = HeaderText(j.page)
    OBVIOUS
  <2>3. PICK y : y = SubSeq(j.wire, n + 1, Len(j.wire))
    BY Zenon
  <2>4. j.pc = "headers" /\ Exchange(j) /\ Ends(j) /\ HeaderIn(s, j, n) /\ n \in 0..Len(j.wire)
    BY <1>1, <1>3, <1>4, <2>1
  <2>5. /\ j.page \in Replies /\ Len(H) \in Nat /\ Len(s) \in Nat /\ Part(s, j.page, 1, Len(s) + 1)
        /\ Len(s) >= Len(H) + 1 \/ (Len(s) + 1 = j.sent /\ ~HeaderEnds(s))
    BY <2>2, <2>3, <2>4, HeaderRead
  <2>6. CASE Len(s) >= Len(H) + 1
    <3>1. Bare(j.page)
      BY <1>5, <2>2, <2>5, <2>6, ThrowsBare
    <3>2. Hard(job[w].page)
      BY <2>1, <3>1 DEF Hard, Bare
    <3> QED
      BY <1>5, <3>2, ThrowStep
  <2>7. CASE ~(Len(s) >= Len(H) + 1)
    <3>1. Len(s) + 1 = j.sent /\ Len(s) + 1 < Len(H) + 2
      BY <2>5, <2>7
    <3>2. Len(Stream(j.page)) = Len(H) + Len(j.page.body) + 2 /\ Len(j.page.body) \in Nat
      BY <2>2, <2>5, StreamParts, Zenon
    <3>3. ~Whole(j)
      BY <2>5, <3>1, <3>2 DEF Whole
    <3>4. j.page # NoReply
      BY <2>4 DEF Exchange, NoReply, Reply
    <3>5. Hard(job[w].page)
      BY <2>1, <2>4, <3>3, <3>4 DEF Ends, Hard
    <3> QED
      BY <1>5, <3>5, ThrowStep
  <2> QED
    BY <2>6, <2>7
<1>6. CASE /\ job' = [job EXCEPT ![w].pc = "body", ![w].buf = <<>>, ![w].body = Rest(s),
                                 ![w].wire = SubSeq(@, n + 1, Len(@)),
                                 ![w].fin = IF HeaderEnds(s) \/ @ = "open" THEN @ ELSE "eof"]
           /\ UNCHANGED <<last, proc>>
  <2>1. PICK k : HasHeaders(k, job[w], s, n)
    BY DEF HasHeaders
  <2>2. Exchange(k) /\ Ends(k) /\ k.pc = "body" /\ k.by = job[w].by
    BY <1>1, <1>3, <1>4, <2>1, HeadersFit
  <2>3. Becomes(w, k)
    BY <1>3, <1>6, <2>1 DEF HasHeaders, Becomes
  <2>4. \A u \in Worker : Busy(u) => job[u].by # w
    BY <1>2, <1>3, NoMaker
  <2> QED
    BY <1>2, <1>6, <2>2, <2>3, <2>4, JobStep
<1> QED
  BY <1>4, <1>5, <1>6

\* More of the body has been read.
LEMMA BodyStep ==
  ASSUME Inv, proc = "up", NEW w \in Worker, ReadBody(w)
  PROVE  Inv'
<1>1. job[w].pc = "body"
  BY DEF ReadBody
<1>2. Busy(w) /\ ~Waits(w)
  BY <1>1 DEF Busy, Idle, Waits
<1>3. /\ Threads /\ job = [u \in Worker |-> job[u]] /\ Exchange(job[w]) /\ Ends(job[w])
  BY DEF Inv, Threads
<1>4. PICK n \in 1..Len(job[w].wire) :
        job' = [job EXCEPT ![w].buf = job[w].buf \o SubSeq(job[w].wire, 1, n),
                           ![w].content = job[w].buf \o SubSeq(job[w].wire, 1, n),
                           ![w].wire = SubSeq(@, n + 1, Len(@))]
  BY Zenon DEF ReadBody
<1>5. PICK s : s = job[w].buf \o SubSeq(job[w].wire, 1, n)
  BY Zenon
<1>6. PICK k : HasBody(k, job[w], s, n)
  BY <1>5 DEF HasBody
<1>7. Exchange(k) /\ Ends(k) /\ k.pc = "body" /\ k.by = job[w].by
  BY <1>1, <1>3, <1>4, <1>6, BodyFits
<1>8. Becomes(w, k)
  <2>1. job' = [job EXCEPT ![w].buf = s, ![w].content = s, ![w].wire = SubSeq(@, n + 1, Len(@))]
    BY <1>4, <1>5
  <2>2. k = [job[w] EXCEPT !.buf = s, !.content = s, !.wire = SubSeq(job[w].wire, n + 1, Len(job[w].wire))]
    BY <1>6 DEF HasBody
  <2> QED
    BY <1>3, <2>1, <2>2 DEF Becomes
<1>9. \A u \in Worker : Busy(u) => job[u].by # w
  BY <1>2, <1>3, NoMaker
<1>10. UNCHANGED <<last, proc>>
  BY DEF ReadBody
<1> QED
  BY <1>2, <1>7, <1>8, <1>9, <1>10, JobStep

\* The connection has ended: the body is rewritten and returned, or its reset thrown.
LEMMA EndStep ==
  ASSUME Inv, proc = "up", NEW w \in Worker, BodyEnds(w)
  PROVE  Inv'
<1>1. job[w].pc = "body" /\ job[w].wire = <<>>
  BY DEF BodyEnds
<1>2. Busy(w) /\ ~Waits(w)
  BY <1>1 DEF Busy, Idle, Waits
<1>3. Exchange(job[w]) /\ Ends(job[w])
  BY DEF Inv, Threads
<1>4. CASE job[w].fin = "reset"
  <2>1. Throw /\ Hard(job[w].page)
    BY <1>3, <1>4 DEF BodyEnds, Ends, Hard
  <2> QED
    BY <2>1, ThrowStep
<1>5. CASE job[w].fin # "reset"
  <2>1. PICK t : t = job[w].body \o job[w].content
    BY Zenon
  <2>2. job[w].body \in Text /\ job[w].content \in Text /\ job[w].page.code = "200"
    BY <1>1, <1>3, Zenon DEF Exchange, JobsTo
  <2>3. t \in Text /\ t \o <<>> = t
    BY <2>1, <2>2, ConcatProperties, ConcatEmptySeq DEF Text
  <2>4. Whole(job[w]) => t = job[w].page.body
    BY <1>1, <1>3, <2>1, <2>3, Zenon DEF Exchange
  <2>5. HeaderSent(job[w]) => job[w].page.end # "reset"
    BY <1>3, <1>5 DEF Ends
  <2>6. Return(w, "200", Rewrite(t)) /\ Rewrite(t) \in Text
    BY <1>5, <2>1, <2>3, RewriteType DEF BodyEnds
  <2> QED
    BY <1>2, <2>2, <2>4, <2>5, <2>6, ReturnStep
<1> QED
  BY <1>4, <1>5
-----------------------------------------------------------------------------
\* The server starts with no request in progress.
LEMMA InitInv == Init => Inv
<1> SUFFICES ASSUME Init PROVE Inv
  OBVIOUS
<1>1. job = [w \in Worker |-> Idle] /\ last = NoAnswer /\ proc = "up"
  BY DEF Init
<1>2. Threads
  <2>1. \A w \in Worker : job[w] = Idle /\ ~Busy(w)
    BY <1>1 DEF Busy
  <2>2. Matched
    BY <2>1 DEF Matched
  <2> QED
    BY <1>1, <2>1, <2>2, IdleFits DEF Threads
<1>3. Outcome
  BY <1>1 DEF Outcome, BodyIntact, NoAnswer
<1> QED
  BY <1>2, <1>3 DEF Inv

\* Every step of a thread, of a connection or of a client keeps the invariant.
LEMMA NextInv == Inv /\ [Next]_vars => Inv'
<1> SUFFICES ASSUME Inv, [Next]_vars PROVE Inv'
  OBVIOUS
<1>1. CASE UNCHANGED vars
  BY <1>1 DEF vars, Inv, Threads, Matched, Busy, Waits, Outcome, BodyIntact, Whole, HeaderSent
<1>2. ASSUME NEW w \in Worker, Take(w), proc = "up" PROVE Inv'
  <2>1. PICK u \in Uris : Call(w, Client, u)
    BY <1>2 DEF Take
  <2> QED
    BY <1>2, <2>1, CallStep
<1>3. ASSUME NEW w \in Worker, send_request(w), proc = "up" PROVE Inv'
  BY <1>3, SendStep, StatusStep, HeadersStep, BodyStep, EndStep DEF send_request
<1>4. ASSUME NEW w \in Worker, handle_request(w), proc = "up" PROVE Inv'
  BY <1>4, HandleStep
<1>5. ASSUME NEW w \in Worker, NEW v \in Worker, Serve(w, v) \/ Timeout(w, v), proc = "up" PROVE Inv'
  BY <1>5, ServeStep, TimeoutStep
<1>6. CASE Silence \/ (proc = "terminated" /\ UNCHANGED vars)
  BY <1>1, <1>6 DEF Silence
<1> QED
  BY <1>1, <1>2, <1>3, <1>4, <1>5, <1>6 DEF Next

\* The invariant gives the types, and the one maker of a page.
LEMMA InvTypes == Inv => TypeOK
<1> SUFFICES ASSUME Inv PROVE TypeOK
  OBVIOUS
<1>1. job = [w \in Worker |-> job[w]] /\ DOMAIN job = Worker
  <2>1. job = [w \in Worker |-> job[w]]
    BY DEF Inv, Threads
  <2> QED
    BY <2>1
<1>2. ASSUME NEW w \in Worker
      PROVE  /\ DOMAIN job[w] = DOMAIN Idle
             /\ job[w].pc \in {"idle", "handle", "send", "first", "headers", "body"}
             /\ job[w].by \in Worker \cup {Client}
             /\ job[w].fin \in {"open", "eof", "reset"}
  <2>1. job[w] \in JobsTo(job[w].host, job[w].uri)
    BY Zenon DEF Inv, Threads, Exchange
  <2> QED
    BY <2>1 DEF JobsTo, Pc, Idle
<1>3. ASSUME NEW w \in Worker, NEW v \in Worker, Busy(v), job[v].by = w
      PROVE  Waits(w) /\ Cardinality({u \in Worker : Busy(u) /\ job[u].by = w}) = 1
  <2>1. Waits(w) /\ \A u \in Worker : Busy(u) /\ job[u].by = w => u = v
    BY <1>3 DEF Inv, Threads, Matched
  <2>2. {u \in Worker : Busy(u) /\ job[u].by = w} = {v}
    BY <1>3, <2>1
  <2> QED
    BY <2>1, <2>2, FS_Singleton, Zenon
<1>4. ASSUME NEW w \in Worker
      PROVE  LET makers == {v \in Worker : Busy(v) /\ job[v].by = w}
             IN  makers # {} => Waits(w) /\ Cardinality(makers) = 1
  BY <1>3
<1>5. last.code \in {"none", "200", "400", "404"} /\ proc \in {"up", "terminated"}
  BY DEF Inv, Outcome
<1> QED
  BY <1>1, <1>2, <1>4, <1>5, Zenon DEF TypeOK

\* The threads of the pool keep their types, and one that makes a page of this server
\* for another does so while that one waits for it in send_request, and alone.
THEOREM ProxyTypes == Spec => []TypeOK
BY InitInv, NextInv, InvTypes, PTL DEF Spec

\* However a reply is cut into reads, a 200 of handle_request has the whole body of a
\* page that is a 200, with its links rewritten, once, unless the destination closed
\* the connection early or reset it before the end of the header; and send_request
\* throws only on replies that are cut short, redirect or have a header without value.
THEOREM ProxyBodies == Spec => []BodyIntact
<1>1. Inv => BodyIntact
  BY DEF Inv, Outcome
<1> QED
  BY <1>1, InitInv, NextInv, PTL DEF Spec
=============================================================================
