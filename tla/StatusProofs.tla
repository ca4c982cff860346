---------------------------- MODULE StatusProofs ----------------------------
(***************************************************************************)
(* Proofs about Status, for any number of threads, files, lines, restarts  *)
(* and any configurations: a page counts the responses it should, and a    *)
(* page that is made alone lists the handlers of the running server.       *)
(***************************************************************************)
EXTENDS Status, FiniteSetTheorems, SequenceTheorems, TLAPS

Handlers == STRING \cup {"garbled"}
Lines == {Metrics} \cup {AllHandlers(c) : c \in Configs}
Jobs == [pc : {"idle", "read", "list", "clear", "done"}, files : Seq(1..MaxFiles), pos : Nat \ {0},
         num : Nat, todo : Seq(Handlers), list : Seq(Handlers), began : Nat, alone : BOOLEAN]

Elements(s) == {s[i] : i \in 1..Len(s)}
Once(s) == \A i, j \in 1..Len(s) : s[i] = s[j] => i = j

\* The types of the variables.
Shape ==
  /\ log \in [1..MaxFiles -> Seq(Lines)]
  /\ cur \in 1..MaxFiles
  /\ config \in Configs
  /\ all_handlers \in Seq(Handlers)
  /\ job \in [Worker -> Jobs]

\* Line k of the first file is the newest list of handlers.
Newest(k) ==
  /\ k \in 1..Len(log[1])
  /\ log[1][k] = AllHandlers(config)
  /\ \A i \in k + 1..Len(log[1]) : log[1][i] = Metrics

\* Lists of handlers are in the first file only, and the newest is that of the
\* running server.
Lists ==
  /\ IsFiniteSet(MetricsLines)
  /\ \A f \in 2..MaxFiles : \A i \in 1..Len(log[f]) : log[f][i] = Metrics
  /\ \E k \in 1..Len(log[1]) : Newest(k)

\* The place of a thread in the files.
Walk(w) ==
  /\ Once(job[w].files)
  /\ job[w].files # <<>> => job[w].pos <= Len(log[job[w].files[1]]) + 1
  /\ job[w].pc = "list" => job[w].files # <<>> /\ job[w].files[1] = 1
  /\ job[w].pc \in {"idle", "clear", "done"} => job[w].files = <<>>
  /\ job[w].pc # "list" => job[w].todo = <<>>

\* S are the lines that were there when the page was asked for, R the lines that
\* it has counted: what is missing of S is in files still to be read.
Counted(w, S, R) ==
  /\ S \subseteq MetricsLines /\ R \subseteq MetricsLines
  /\ Cardinality(S) = job[w].began /\ Cardinality(R) = job[w].num
  /\ \A p \in S : p \in R \/ p[1] \in Elements(job[w].files)
  /\ \A p \in R : p[1] \in Elements(job[w].files) => p[1] = job[w].files[1] /\ p[2] < job[w].pos
  /\ job[w].files # <<>> =>
       \A p \in MetricsLines : p[1] = job[w].files[1] /\ p[2] < job[w].pos => p \in R

Total(w) == \E S, R \in SUBSET MetricsLines : Counted(w, S, R)

\* The newest list is still to be read, ...
ToCome(w) ==
  /\ 1 \in Elements(job[w].files)
  /\ job[w].files[1] = 1 => \E k \in 1..Len(log[1]) : Newest(k) /\ job[w].pos <= k

\* ... or the shared text and what is left of the list give it.
Taken(w) ==
  /\ all_handlers \o job[w].todo = config
  /\ 1 \in Elements(job[w].files) =>
       /\ job[w].files[1] = 1
       /\ \A i \in 1..Len(log[1]) : i >= job[w].pos => log[1][i] = Metrics

Progress(w) ==
  /\ job[w].pc \in {"read", "list"} => ToCome(w) \/ Taken(w)
  /\ job[w].pc \in {"clear", "done"} => job[w].list = config

\* A page that is made alone makes progress to the list of the running server.
Listed(w) ==
  job[w].alone => (w \in Active => \A v \in Active : v = w) /\ Progress(w)

Inv ==
  /\ Shape
  /\ Lists
  /\ \A w \in Worker : Walk(w) /\ Total(w) /\ Listed(w)
-----------------------------------------------------------------------------
LinesOf(g) == {p \in UNION {{f} \X DOMAIN g[f] : f \in 1..MaxFiles} : g[p[1]][p[2]] = Metrics}

\* The assumptions about the constants in the forms used below.
LEMMA Constants ==
  /\ MaxFiles \in Nat /\ 1 \in 1..MaxFiles
  /\ Configs \subseteq Seq(Handlers)
  /\ Metrics \in Lines
  /\ \A c \in Configs : AllHandlers(c) \in Lines /\ AllHandlers(c) # Metrics /\ AllHandlers(c).kind = "all_handlers" /\ AllHandlers(c).list = c
  /\ Metrics.kind = "ResponseMetrics"
<1>1. MaxFiles \in Nat /\ 1 \in 1..MaxFiles
  BY StatusAssumption
<1>2. Seq(STRING) \subseteq Seq(Handlers)
  <2>1. STRING \subseteq Handlers
    BY DEF Handlers
  <2> QED
    BY <2>1, SeqMonotonic
<1>3. Configs \subseteq Seq(Handlers)
  BY <1>2, StatusAssumption
<1>4. Metrics.kind = "ResponseMetrics"
  BY DEF Metrics
<1>5. \A c \in Configs : AllHandlers(c).kind = "all_handlers" /\ AllHandlers(c).list = c
  BY DEF AllHandlers
<1> QED
  BY <1>1, <1>3, <1>4, <1>5 DEF Lines

\* The metrics lines of some files are the places that hold one.
LEMMA PlacesOfLines ==
  ASSUME NEW g \in [1..MaxFiles -> Seq(Lines)]
  PROVE  /\ \A f, i : <<f, i>> \in LinesOf(g)
                        <=> f \in 1..MaxFiles /\ i \in 1..Len(g[f]) /\ g[f][i] = Metrics
         /\ \A p \in LinesOf(g) : p = <<p[1], p[2]>>
<1>1. \A f \in 1..MaxFiles : DOMAIN g[f] = 1..Len(g[f])
  <2> SUFFICES ASSUME NEW f \in 1..MaxFiles PROVE DOMAIN g[f] = 1..Len(g[f])
    OBVIOUS
  <2>1. g[f] \in Seq(Lines)
    OBVIOUS
  <2> QED
    BY <2>1, LenProperties
<1>2. \A p : p \in LinesOf(g)
               <=> (\E f \in 1..MaxFiles : p \in {f} \X (1..Len(g[f]))) /\ g[p[1]][p[2]] = Metrics
  BY <1>1 DEF LinesOf
<1>3. \A f, i : <<f, i>> \in LinesOf(g)
                  <=> f \in 1..MaxFiles /\ i \in 1..Len(g[f]) /\ g[f][i] = Metrics
  BY <1>2
<1>4. \A p \in LinesOf(g) : p = <<p[1], p[2]>>
  BY <1>2
<1> QED
  BY <1>3, <1>4

\* Leaving the first file of a walk.
LEMMA TailElements ==
  ASSUME NEW T, NEW s \in Seq(T), s # <<>>, Once(s)
  PROVE  /\ Tail(s) \in Seq(T)
         /\ s[1] \in Elements(s) /\ s[1] \in T
         /\ Elements(Tail(s)) = Elements(s) \ {s[1]}
         /\ Once(Tail(s))
         /\ Tail(s) # <<>> => Tail(s)[1] \in Elements(Tail(s))
<1>1. Len(s) \in Nat \ {0}
  BY EmptySeq, LenProperties
<1>2. Tail(s) \in Seq(T) /\ Len(Tail(s)) = Len(s) - 1
      /\ \A i \in 1..Len(s) - 1 : Tail(s)[i] = s[i + 1]
  BY <1>1
<1>3. s[1] \in Elements(s) /\ s[1] \in T
  BY <1>1 DEF Elements
<1>4. Elements(Tail(s)) = Elements(s) \ {s[1]}
  <2>1. ASSUME NEW x \in Elements(Tail(s)) PROVE x \in Elements(s) \ {s[1]}
    <3>1. PICK i \in 1..Len(s) - 1 : x = s[i + 1]
      BY <1>2, <2>1 DEF Elements
    <3>2. i + 1 \in 1..Len(s) /\ i + 1 # 1
      BY <1>1
    <3> QED
      BY <1>1, <3>1, <3>2 DEF Elements, Once
  <2>2. ASSUME NEW x \in Elements(s) \ {s[1]} PROVE x \in Elements(Tail(s))
    <3>1. PICK i \in 1..Len(s) : x = s[i]
      BY <2>2 DEF Elements
    <3>2. i - 1 \in 1..Len(s) - 1 /\ (i - 1) + 1 = i
      BY <1>1, <2>2, <3>1
    <3>3. x = Tail(s)[i - 1]
      BY <1>2, <3>1, <3>2
    <3> QED
      BY <1>2, <3>2, <3>3 DEF Elements
  <2> QED
    BY <2>1, <2>2
<1>5. Once(Tail(s))
  BY <1>1, <1>2 DEF Once
<1>6. ASSUME Tail(s) # <<>> PROVE Tail(s)[1] \in Elements(Tail(s))
  <2> DEFINE r == Tail(s)
  <2>1. r \in Seq(T) /\ r # <<>>
    BY <1>2, <1>6
  <2> HIDE DEF r
  <2>2. 1 \in 1..Len(r)
    BY <2>1, EmptySeq, LenProperties
  <2>3. r[1] \in Elements(r)
    BY <2>2, Zenon DEF Elements
  <2> QED
    BY <2>3 DEF r
<1> QED
  BY <1>2, <1>3, <1>4, <1>5, <1>6

\* Nothing is left in an empty sequence.
LEMMA NoElements == Elements(<<>>) = {} /\ Once(<<>>)
BY DEF Elements, Once

\* A line is added to a file.
LEMMA LogStep ==
  ASSUME Shape, NEW f \in 1..MaxFiles, NEW l \in Lines, log' = [log EXCEPT ![f] = Append(@, l)]
  PROVE  /\ log' \in [1..MaxFiles -> Seq(Lines)]
         /\ log'[f] \in Seq(Lines) /\ Len(log'[f]) = Len(log[f]) + 1 /\ Len(log[f]) \in Nat
         /\ log'[f][Len(log[f]) + 1] = l
         /\ \A i \in 1..Len(log[f]) : log'[f][i] = log[f][i]
         /\ \A g \in 1..MaxFiles \ {f} : log'[g] = log[g]
<1>1. log[f] \in Seq(Lines)
  BY DEF Shape
<1>2. log'[f] = Append(log[f], l)
  BY DEF Shape
<1>3. \A g \in 1..MaxFiles \ {f} : log'[g] = log[g]
  BY DEF Shape
<1>4. Append(log[f], l) \in Seq(Lines) /\ Len(Append(log[f], l)) = Len(log[f]) + 1 /\ Len(log[f]) \in Nat
      /\ Append(log[f], l)[Len(log[f]) + 1] = l
      /\ \A i \in 1..Len(log[f]) : Append(log[f], l)[i] = log[f][i]
  BY <1>1, AppendProperties, LenProperties
<1>5. log' \in [1..MaxFiles -> Seq(Lines)]
  BY <1>4 DEF Shape
<1> QED
  BY <1>2, <1>3, <1>4, <1>5

\* A metrics line adds its place to the metrics lines; another line adds none.
LEMMA LinesStep ==
  ASSUME Shape, NEW f \in 1..MaxFiles, NEW l \in Lines, log' = [log EXCEPT ![f] = Append(@, l)]
  PROVE  MetricsLines' = MetricsLines \cup (IF l = Metrics THEN {<<f, Len(log[f]) + 1>>} ELSE {})
<1> DEFINE X == IF l = Metrics THEN {<<f, Len(log[f]) + 1>>} ELSE {}
<1>1. MetricsLines = LinesOf(log) /\ MetricsLines' = LinesOf(log')
  BY DEF MetricsLines, LinesOf
<1>2. log \in [1..MaxFiles -> Seq(Lines)] /\ log' \in [1..MaxFiles -> Seq(Lines)]
  BY LogStep DEF Shape
<1>3. \A g \in 1..MaxFiles : \A i : (i \in 1..Len(log'[g]) /\ log'[g][i] = Metrics)
        <=> \/ i \in 1..Len(log[g]) /\ log[g][i] = Metrics
            \/ g = f /\ i = Len(log[f]) + 1 /\ l = Metrics
  <2> SUFFICES ASSUME NEW g \in 1..MaxFiles, NEW i
               PROVE  (i \in 1..Len(log'[g]) /\ log'[g][i] = Metrics)
                        <=> \/ i \in 1..Len(log[g]) /\ log[g][i] = Metrics
                            \/ g = f /\ i = Len(log[f]) + 1 /\ l = Metrics
    OBVIOUS
  <2>1. CASE g = f
    <3> DEFINE n == Len(log[f])
    <3>1. n \in Nat /\ Len(log'[f]) = n + 1 /\ log'[f][n + 1] = l /\ \A k \in 1..n : log'[f][k] = log[f][k]
      BY LogStep
    <3> HIDE DEF n
    <3>2. i \in 1..n + 1 <=> i \in 1..n \/ i = n + 1
      BY <3>1
    <3>3. n + 1 \notin 1..n
      BY <3>1
    <3>4. (i \in 1..n + 1 /\ log'[f][i] = Metrics)
             <=> (i \in 1..n /\ log[f][i] = Metrics) \/ (i = n + 1 /\ l = Metrics)
      BY <3>1, <3>2, <3>3
    <3> QED
      BY <2>1, <3>1, <3>4 DEF n
  <2>2. CASE g # f
    BY <2>2, LogStep
  <2> QED
    BY <2>1, <2>2
<1>4. \A p : p \in X <=> p = <<f, Len(log[f]) + 1>> /\ l = Metrics
  OBVIOUS
<1>5. \A p \in X : p = <<p[1], p[2]>>
  BY <1>4
<1>6. \A g, i : <<g, i>> \in X <=> g = f /\ i = Len(log[f]) + 1 /\ l = Metrics
  BY <1>4
<1> HIDE DEF X
<1>7. \A g, i : <<g, i>> \in LinesOf(log') <=> <<g, i>> \in LinesOf(log) \/ <<g, i>> \in X
  <2> SUFFICES ASSUME NEW g, NEW i
               PROVE  <<g, i>> \in LinesOf(log') <=> <<g, i>> \in LinesOf(log) \/ <<g, i>> \in X
    OBVIOUS
  <2>1. <<g, i>> \in LinesOf(log) <=> g \in 1..MaxFiles /\ i \in 1..Len(log[g]) /\ log[g][i] = Metrics
    BY <1>2, PlacesOfLines
  <2>2. <<g, i>> \in LinesOf(log') <=> g \in 1..MaxFiles /\ i \in 1..Len(log'[g]) /\ log'[g][i] = Metrics
    BY <1>2, PlacesOfLines
  <2> QED
    BY <1>3, <1>6, <2>1, <2>2
<1>8. /\ \A p \in LinesOf(log) : p = <<p[1], p[2]>>
      /\ \A p \in LinesOf(log') : p = <<p[1], p[2]>>
  BY <1>2, PlacesOfLines
<1>9. LinesOf(log') = LinesOf(log) \cup X
  <2>1. ASSUME NEW p \in LinesOf(log') PROVE p \in LinesOf(log) \cup X
    <3>1. p = <<p[1], p[2]>>
      BY <1>8
    <3>2. <<p[1], p[2]>> \in LinesOf(log) \/ <<p[1], p[2]>> \in X
      BY <1>7, <3>1
    <3> QED
      BY <3>1, <3>2
  <2>2. ASSUME NEW p \in LinesOf(log) \cup X PROVE p \in LinesOf(log')
    <3>1. p = <<p[1], p[2]>>
      BY <1>5, <1>8
    <3>2. <<p[1], p[2]>> \in LinesOf(log')
      BY <1>7, <3>1
    <3> QED
      BY <3>1, <3>2
  <2> QED
    BY <2>1, <2>2
<1> QED
  BY <1>1, <1>9 DEF X

\* Reading the places in the running state.
LEMMA Places ==
  ASSUME Shape
  PROVE  /\ \A f, i : <<f, i>> \in MetricsLines
                        <=> f \in 1..MaxFiles /\ i \in 1..Len(log[f]) /\ log[f][i] = Metrics
         /\ \A p \in MetricsLines : /\ p = <<p[1], p[2]>> /\ p[1] \in 1..MaxFiles
                                    /\ p[2] \in 1..Len(log[p[1]]) /\ log[p[1]][p[2]] = Metrics
<1>1. MetricsLines = LinesOf(log) /\ log \in [1..MaxFiles -> Seq(Lines)]
  BY DEF MetricsLines, LinesOf, Shape
<1>2. /\ \A f, i : <<f, i>> \in LinesOf(log)
                      <=> f \in 1..MaxFiles /\ i \in 1..Len(log[f]) /\ log[f][i] = Metrics
      /\ \A p \in LinesOf(log) : p = <<p[1], p[2]>>
  BY <1>1, PlacesOfLines
<1>3. ASSUME NEW p \in LinesOf(log)
      PROVE  /\ p = <<p[1], p[2]>> /\ p[1] \in 1..MaxFiles
             /\ p[2] \in 1..Len(log[p[1]]) /\ log[p[1]][p[2]] = Metrics
  <2>1. p = <<p[1], p[2]>>
    BY <1>2
  <2>2. <<p[1], p[2]>> \in LinesOf(log)
    BY <2>1
  <2> QED
    BY <1>2, <2>1, <2>2
<1> QED
  BY <1>1, <1>2, <1>3

\* What a thread does in a file it has open or with its page changes its own job
\* and the shared text, and no other page that is made alone is under way.
LEMMA OwnStep ==
  ASSUME Inv, NEW w \in Worker, w \in Active, NEW r \in Jobs, job' = [job EXCEPT ![w] = r],
         UNCHANGED <<log, cur, config>>, all_handlers' \in Seq(Handlers),
         r.alone = job[w].alone, Walk(w)', Total(w)', job[w].alone => Progress(w)'
  PROVE  Inv'
<1>1. Shape'
  BY DEF Inv, Shape
<1>2. Lists'
  BY DEF Inv, Lists, Newest, MetricsLines
<1>3. \A v \in Worker : v # w => job'[v] = job[v]
  BY DEF Inv, Shape
<1>4. job'[w] = r
  BY DEF Inv, Shape
<1>5. \A v \in Active' : v \in Active
  BY <1>3 DEF Active
<1>6. ASSUME NEW v \in Worker, v # w PROVE Walk(v)' /\ Total(v)' /\ Listed(v)'
  <2>1. job'[v] = job[v]
    BY <1>3, <1>6
  <2>2. Walk(v)'
    BY <2>1 DEF Inv, Walk
  <2>3. MetricsLines' = MetricsLines
    BY DEF MetricsLines
  <2>4. Total(v)'
    BY <2>1, <2>3 DEF Inv, Total, Counted
  <2>5. ASSUME job[v].alone PROVE v \notin Active /\ Progress(v)
    BY <1>6, <2>5 DEF Inv, Listed
  <2>6. Listed(v)'
    BY <1>5, <2>1, <2>5 DEF Listed, Progress, Active
  <2> QED
    BY <2>2, <2>4, <2>6
<1>7. Listed(w)'
  <2> SUFFICES ASSUME job[w].alone PROVE \A v \in Active' : v = w
    BY <1>4 DEF Listed
  <2> QED
    BY <1>5 DEF Inv, Listed
<1> QED
  BY <1>1, <1>2, <1>6, <1>7 DEF Inv

\* A step that leaves the thread where it is in the files leaves its count.
LEMMA SamePlace ==
  ASSUME Inv, NEW w \in Worker, UNCHANGED log,
         job'[w].files = job[w].files, job'[w].pos = job[w].pos,
         job'[w].num = job[w].num, job'[w].began = job[w].began
  PROVE  Total(w)'
<1>1. MetricsLines' = MetricsLines
  BY DEF MetricsLines
<1> QED
  BY <1>1 DEF Inv, Total, Counted

\* The first element of a sequence moves to the end of the one before it.
LEMMA HeadMoves ==
  ASSUME NEW T, NEW s \in Seq(T), NEW t \in Seq(T), t # <<>>
  PROVE  Tail(t) \in Seq(T) /\ Head(t) \in T /\ Append(s, Head(t)) \o Tail(t) = s \o t
<1> DEFINE h == Head(t)
           u == Tail(t)
           a == Append(s, h)
<1>1. h \in T /\ u \in Seq(T) /\ Len(u) = Len(t) - 1 /\ \A i \in 1..Len(u) : u[i] = t[i + 1]
  BY HeadTailProperties
<1>2. h = t[1] /\ Len(t) \in Nat \ {0} /\ Len(s) \in Nat
  BY EmptySeq, LenProperties
<1> HIDE DEF h, u
<1>3. a \in Seq(T) /\ Len(a) = Len(s) + 1 /\ (\A i \in 1..Len(s) : a[i] = s[i]) /\ a[Len(s) + 1] = h
  BY <1>1, AppendProperties
<1> HIDE DEF a
<1>4. a \o u \in Seq(T) /\ Len(a \o u) = Len(a) + Len(u)
      /\ \A i \in 1..Len(a) + Len(u) : (a \o u)[i] = IF i <= Len(a) THEN a[i] ELSE u[i - Len(a)]
  BY <1>1, <1>3, ConcatProperties
<1>5. s \o t \in Seq(T) /\ Len(s \o t) = Len(s) + Len(t)
      /\ \A i \in 1..Len(s) + Len(t) : (s \o t)[i] = IF i <= Len(s) THEN s[i] ELSE t[i - Len(s)]
  BY ConcatProperties
<1>6. \A i \in 1..Len(s) + Len(t) : (a \o u)[i] = (s \o t)[i]
  <2> SUFFICES ASSUME NEW i \in 1..Len(s) + Len(t) PROVE (a \o u)[i] = (s \o t)[i]
    OBVIOUS
  <2>1. CASE i <= Len(s)
    <3>1. i \in 1..Len(s) /\ i <= Len(a) /\ i \in 1..Len(a) + Len(u)
      BY <1>1, <1>2, <1>3, <2>1
    <3> QED
      BY <1>3, <1>4, <1>5, <2>1, <3>1
  <2>2. CASE i = Len(s) + 1
    <3>1. i <= Len(a) /\ i \in 1..Len(a) + Len(u) /\ ~(i <= Len(s)) /\ i - Len(s) = 1
      BY <1>1, <1>2, <1>3, <2>2
    <3> QED
      BY <1>2, <1>3, <1>4, <1>5, <2>2, <3>1
  <2>3. CASE i > Len(s) + 1
    <3> DEFINE k == i - Len(a)
    <3>1. ~(i <= Len(a)) /\ i \in 1..Len(a) + Len(u) /\ ~(i <= Len(s)) /\ i - Len(s) = k + 1 /\ k \in 1..Len(u)
      BY <1>1, <1>2, <1>3, <2>3
    <3>2. (a \o u)[i] = u[k] /\ (s \o t)[i] = t[k + 1]
      BY <1>4, <1>5, <3>1
    <3> QED
      BY <1>1, <3>1, <3>2
  <2>4. i <= Len(s) \/ i = Len(s) + 1 \/ i > Len(s) + 1
    BY <1>2
  <2> QED
    BY <2>1, <2>2, <2>3, <2>4
<1>7. a \o u = s \o t
  <2>1. Len(a \o u) = Len(s) + Len(t) /\ Len(s \o t) = Len(s) + Len(t)
    BY <1>1, <1>2, <1>3, <1>4, <1>5
  <2> QED
    BY <1>4, <1>5, <1>6, <2>1, SeqEqual
<1> QED
  BY <1>1, <1>7 DEF a, h, u

\* ListHandler moves a handler from what is left of the list to the shared text.
LEMMA ListHandlerStep ==
  ASSUME Inv, NEW w \in Worker, ListHandler(w)
  PROVE  Inv'
<1> DEFINE j == job[w]
           r == [j EXCEPT !.todo = Tail(@)]
<1>1. j \in Jobs
  BY DEF Inv, Shape
<1>2. j.todo \in Seq(Handlers) /\ j.todo # <<>> /\ j.pc = "list" /\ all_handlers \in Seq(Handlers) /\ Walk(w)
  BY <1>1 DEF Jobs, ListHandler, Inv, Shape
<1>3. Tail(j.todo) \in Seq(Handlers) /\ Head(j.todo) \in Handlers
      /\ Append(all_handlers, Head(j.todo)) \o Tail(j.todo) = all_handlers \o j.todo
  BY <1>2, HeadMoves
<1>4. r \in Jobs
  BY <1>1, <1>3 DEF Jobs
<1>5. job' = [job EXCEPT ![w] = r]
  BY DEF ListHandler
<1>6. job'[w] = r /\ r.files = j.files /\ r.pos = j.pos /\ r.num = j.num /\ r.began = j.began
      /\ r.alone = j.alone /\ r.pc = "list" /\ r.todo = Tail(j.todo)
  BY <1>1, <1>2, <1>5 DEF Inv, Shape, Jobs
<1>7. UNCHANGED <<log, cur, config>> /\ all_handlers' = Append(all_handlers, Head(j.todo))
  BY DEF ListHandler
<1>8. all_handlers' \in Seq(Handlers)
  BY <1>2, <1>3, <1>7
<1> HIDE DEF r
<1>9. Walk(w)'
  BY <1>2, <1>6, <1>7 DEF Walk
<1>10. Total(w)'
  BY <1>6, <1>7, SamePlace
<1>11. ASSUME j.alone PROVE Progress(w)'
  <2>1. ToCome(w) \/ Taken(w)
    BY <1>2, <1>11 DEF Inv, Listed, Progress
  <2>2. ToCome(w) => ToCome(w)'
    BY <1>6, <1>7 DEF ToCome, Newest
  <2>3. Taken(w) => Taken(w)'
    BY <1>3, <1>6, <1>7 DEF Taken
  <2> QED
    BY <1>6, <2>1, <2>2, <2>3 DEF Progress
<1>12. w \in Active
  BY <1>2 DEF Active
<1> QED
  BY <1>4, <1>5, <1>6, <1>7, <1>8, <1>9, <1>10, <1>11, <1>12, OwnStep

\* The loop over a list of handlers ends.
LEMMA ListEndsStep ==
  ASSUME Inv, NEW w \in Worker, ListEnds(w)
  PROVE  Inv'
<1> DEFINE j == job[w]
           r == [j EXCEPT !.pc = "read"]
<1>1. j \in Jobs
  BY DEF Inv, Shape
<1>2. j.todo = <<>> /\ j.pc = "list" /\ all_handlers \in Seq(Handlers) /\ Walk(w)
  BY <1>1 DEF Jobs, ListEnds, Inv, Shape
<1>3. r \in Jobs
  BY <1>1 DEF Jobs
<1>4. job' = [job EXCEPT ![w] = r]
  BY DEF ListEnds
<1>5. job'[w] = r /\ r.files = j.files /\ r.pos = j.pos /\ r.num = j.num /\ r.began = j.began
      /\ r.alone = j.alone /\ r.pc = "read" /\ r.todo = j.todo
  BY <1>1, <1>2, <1>4 DEF Inv, Shape, Jobs
<1>6. UNCHANGED <<log, cur, config, all_handlers>>
  BY DEF ListEnds
<1> HIDE DEF r
<1>7. Walk(w)'
  BY <1>2, <1>5, <1>6 DEF Walk
<1>8. Total(w)'
  BY <1>5, <1>6, SamePlace
<1>9. ASSUME j.alone PROVE Progress(w)'
  <2>1. ToCome(w) \/ Taken(w)
    BY <1>2, <1>9 DEF Inv, Listed, Progress
  <2>2. ToCome(w) => ToCome(w)'
    BY <1>5, <1>6 DEF ToCome, Newest
  <2>3. Taken(w) => Taken(w)'
    BY <1>5, <1>6 DEF Taken
  <2> QED
    BY <1>5, <2>1, <2>2, <2>3 DEF Progress
<1>10. w \in Active
  BY <1>2 DEF Active
<1> QED
  BY <1>2, <1>3, <1>4, <1>5, <1>6, <1>7, <1>8, <1>9, <1>10, OwnStep

\* The text is copied into the page when all files have been read.
LEMMA CopyStep ==
  ASSUME Inv, NEW w \in Worker, CopyHandlers(w)
  PROVE  Inv'
<1> DEFINE j == job[w]
           r == [j EXCEPT !.pc = "clear", !.list = all_handlers]
<1>1. j \in Jobs
  BY DEF Inv, Shape
<1>2. j.files = <<>> /\ j.pc = "read" /\ all_handlers \in Seq(Handlers) /\ Walk(w) /\ j.todo = <<>>
  BY <1>1 DEF Jobs, CopyHandlers, Inv, Shape, Walk
<1>3. r \in Jobs
  BY <1>1, <1>2 DEF Jobs
<1>4. job' = [job EXCEPT ![w] = r]
  BY DEF CopyHandlers
<1>5. job'[w] = r /\ r.files = j.files /\ r.pos = j.pos /\ r.num = j.num /\ r.began = j.began
      /\ r.alone = j.alone /\ r.pc = "clear" /\ r.todo = j.todo /\ r.list = all_handlers
  BY <1>1, <1>2, <1>4 DEF Inv, Shape, Jobs
<1>6. UNCHANGED <<log, cur, config, all_handlers>>
  BY DEF CopyHandlers
<1> HIDE DEF r
<1>7. Walk(w)'
  BY <1>2, <1>5, <1>6 DEF Walk
<1>8. Total(w)'
  BY <1>5, <1>6, SamePlace
<1>9. ASSUME j.alone PROVE Progress(w)'
  <2>1. ToCome(w) \/ Taken(w)
    BY <1>2, <1>9 DEF Inv, Listed, Progress
  <2>2. ~ToCome(w)
    BY <1>2, NoElements DEF ToCome
  <2>3. all_handlers \o <<>> = config
    BY <1>2, <2>1, <2>2 DEF Taken
  <2>4. all_handlers = config
    BY <1>2, <2>3, ConcatEmptySeq
  <2> QED
    BY <1>5, <1>6, <2>4 DEF Progress
<1>10. w \in Active
  BY <1>2 DEF Active
<1> QED
  BY <1>2, <1>3, <1>4, <1>5, <1>6, <1>7, <1>8, <1>9, <1>10, OwnStep

\* The page is finished and the text cleared.
LEMMA ClearStep ==
  ASSUME Inv, NEW w \in Worker, ClearHandlers(w)
  PROVE  Inv'
<1> DEFINE j == job[w]
           r == [j EXCEPT !.pc = "done"]
<1>1. j \in Jobs
  BY DEF Inv, Shape
<1>2. j.files = <<>> /\ j.pc = "clear" /\ Walk(w) /\ j.todo = <<>>
  BY <1>1 DEF Jobs, ClearHandlers, Inv, Shape, Walk
<1>3. r \in Jobs
  BY <1>1 DEF Jobs
<1>4. job' = [job EXCEPT ![w] = r]
  BY DEF ClearHandlers
<1>5. job'[w] = r /\ r.files = j.files /\ r.pos = j.pos /\ r.num = j.num /\ r.began = j.began
      /\ r.alone = j.alone /\ r.pc = "done" /\ r.todo = j.todo /\ r.list = j.list
  BY <1>1, <1>2, <1>4 DEF Inv, Shape, Jobs
<1>6. UNCHANGED <<log, cur, config>> /\ all_handlers' = <<>>
  BY DEF ClearHandlers
<1>11. all_handlers' \in Seq(Handlers)
  BY <1>6
<1> HIDE DEF r
<1>7. Walk(w)'
  BY <1>2, <1>5, <1>6 DEF Walk
<1>8. Total(w)'
  BY <1>5, <1>6, SamePlace
<1>9. ASSUME j.alone PROVE Progress(w)'
  BY <1>2, <1>5, <1>6, <1>9 DEF Inv, Listed, Progress
<1>10. w \in Active
  BY <1>2 DEF Active
<1> QED
  BY <1>3, <1>4, <1>5, <1>6, <1>7, <1>8, <1>9, <1>10, <1>11, OwnStep

\* A thread that reads has a file open and stands in it or at its end.
LEMMA OpenFile ==
  ASSUME Inv, NEW w \in Worker, job[w].pc = "read", job[w].files # <<>>
  PROVE  /\ job[w].files \in Seq(1..MaxFiles) /\ Once(job[w].files)
         /\ job[w].files[1] \in 1..MaxFiles /\ job[w].files[1] \in Elements(job[w].files)
         /\ log[job[w].files[1]] \in Seq(Lines) /\ Len(log[job[w].files[1]]) \in Nat
         /\ job[w].pos \in Nat \ {0} /\ job[w].pos <= Len(log[job[w].files[1]]) + 1
         /\ job[w].num \in Nat /\ job[w].todo = <<>>
         /\ ~AtEnd(w) => job[w].pos \in 1..Len(log[job[w].files[1]]) /\ Line(w) \in Lines
<1>1. job[w] \in Jobs
  BY DEF Inv, Shape
<1>2. job[w].files \in Seq(1..MaxFiles) /\ job[w].pos \in Nat \ {0} /\ job[w].num \in Nat
  BY <1>1 DEF Jobs
<1>3. Once(job[w].files) /\ job[w].pos <= Len(log[job[w].files[1]]) + 1 /\ job[w].todo = <<>>
  BY DEF Inv, Walk
<1>4. job[w].files[1] \in 1..MaxFiles /\ job[w].files[1] \in Elements(job[w].files)
  BY <1>2, <1>3, TailElements
<1>5. log[job[w].files[1]] \in Seq(Lines)
  BY <1>4 DEF Inv, Shape
<1>6. Len(log[job[w].files[1]]) \in Nat
  BY <1>5, LenProperties
<1>7. ASSUME ~AtEnd(w) PROVE job[w].pos \in 1..Len(log[job[w].files[1]]) /\ Line(w) \in Lines
  <2>1. job[w].pos \in 1..Len(log[job[w].files[1]])
    BY <1>2, <1>6, <1>7 DEF AtEnd
  <2> QED
    BY <1>5, <2>1 DEF Line
<1> QED
  BY <1>2, <1>3, <1>4, <1>5, <1>6, <1>7

\* A list of handlers is read in the first file only; if it is the newest it is
\* that of the running server.
LEMMA ReadHandlersStep ==
  ASSUME Inv, NEW w \in Worker, ReadHandlers(w)
  PROVE  Inv'
<1> DEFINE j == job[w]
           f == j.files[1]
           r == [j EXCEPT !.pc = "list", !.pos = @ + 1, !.todo = Line(w).list]
<1>1. j \in Jobs /\ j.pc = "read" /\ j.files # <<>> /\ ~AtEnd(w) /\ Line(w).kind = "all_handlers"
  BY DEF Inv, Shape, ReadHandlers
<1>2. /\ j.files \in Seq(1..MaxFiles) /\ Once(j.files) /\ f \in 1..MaxFiles /\ f \in Elements(j.files)
      /\ Len(log[f]) \in Nat /\ j.pos \in Nat \ {0} /\ j.pos \in 1..Len(log[f]) /\ Line(w) \in Lines
  BY <1>1, OpenFile
<1>3. Line(w) = log[f][j.pos]
  BY DEF Line
<1>4. PICK c \in Configs : Line(w) = AllHandlers(c)
  BY <1>1, <1>2, Constants DEF Lines
<1>5. Line(w).list = c /\ c \in Seq(Handlers) /\ Line(w) # Metrics
  BY <1>4, Constants
<1>6. f = 1
  BY <1>2, <1>3, <1>5 DEF Inv, Lists
<1>16. j.pos + 1 \in Nat \ {0} /\ Line(w).list \in Seq(Handlers)
  BY <1>2, <1>5
<1>7. r \in Jobs
  BY <1>1, <1>16 DEF Jobs
<1>8. job' = [job EXCEPT ![w] = r]
  BY Zenon DEF ReadHandlers
<1>9. job'[w] = r /\ r.files = j.files /\ r.pos = j.pos + 1 /\ r.num = j.num /\ r.began = j.began
      /\ r.alone = j.alone /\ r.pc = "list" /\ r.todo = c /\ r.list = j.list
  BY <1>1, <1>5, <1>8 DEF Inv, Shape, Jobs
<1>10. UNCHANGED <<log, cur, config>> /\ all_handlers' = <<>>
  BY DEF ReadHandlers
<1>11. all_handlers' \in Seq(Handlers)
  BY <1>10
<1> HIDE DEF r
<1>12. Walk(w)'
  BY <1>1, <1>2, <1>6, <1>9, <1>10 DEF Walk
<1>13. Total(w)'
  <2>1. MetricsLines' = MetricsLines
    BY <1>10 DEF MetricsLines
  <2>2. PICK S, R \in SUBSET MetricsLines : Counted(w, S, R)
    BY DEF Inv, Total
  <2>3. \A p \in MetricsLines : p[2] \in Nat /\ (p[1] = f => p[2] # j.pos)
    <3> SUFFICES ASSUME NEW p \in MetricsLines PROVE p[2] \in Nat /\ (p[1] = f => p[2] # j.pos)
      OBVIOUS
    <3>1. p[1] \in 1..MaxFiles /\ p[2] \in 1..Len(log[p[1]]) /\ log[p[1]][p[2]] = Metrics
      BY Places DEF Inv
    <3> QED
      BY <1>3, <1>5, <3>1
  <2>4. \A p \in MetricsLines : p[1] = f => (p[2] < j.pos <=> p[2] < j.pos + 1)
    BY <1>2, <2>3
  <2>5. Counted(w, S, R)'
    BY <1>9, <2>1, <2>2, <2>4 DEF Counted
  <2> QED
    BY <2>1, <2>5 DEF Total
<1>14. Progress(w)'
  <2>1. PICK k \in 1..Len(log[1]) : Newest(k)
    BY DEF Inv, Lists
  <2>2. j.pos <= k
    <3> SUFFICES ASSUME ~(j.pos <= k) PROVE FALSE
      OBVIOUS
    <3>1. j.pos \in k + 1..Len(log[1])
      BY <1>2, <1>6
    <3> QED
      BY <1>3, <1>5, <1>6, <2>1, <3>1 DEF Newest
  <2>3. CASE j.pos < k
    <3>1. ToCome(w)'
      BY <1>2, <1>6, <1>9, <1>10, <2>1, <2>3 DEF ToCome, Newest
    <3> QED
      BY <1>9, <3>1 DEF Progress
  <2>4. CASE j.pos = k
    <3>1. AllHandlers(c) = AllHandlers(config)
      BY <1>3, <1>4, <1>6, <2>1, <2>4 DEF Newest
    <3>2. config \in Configs
      BY DEF Inv, Shape
    <3>3. c = config
      BY <3>1, <3>2, Constants
    <3>4. <<>> \o c = c
      BY <1>5, ConcatEmptySeq
    <3>5. \A i \in 1..Len(log[1]) : i >= j.pos + 1 => log[1][i] = Metrics
      BY <1>2, <2>1, <2>4 DEF Newest
    <3>6. Taken(w)'
      BY <1>6, <1>9, <1>10, <3>3, <3>4, <3>5 DEF Taken
    <3> QED
      BY <1>9, <3>6 DEF Progress
  <2> QED
    BY <1>2, <2>2, <2>3, <2>4
<1>15. w \in Active
  BY <1>1 DEF Active
<1> QED
  BY <1>7, <1>8, <1>9, <1>10, <1>11, <1>12, <1>13, <1>14, <1>15, OwnStep

\* A metrics line is counted once.
LEMMA ReadMetricsStep ==
  ASSUME Inv, NEW w \in Worker, ReadMetrics(w)
  PROVE  Inv'
<1> DEFINE j == job[w]
           f == j.files[1]
           r == [j EXCEPT !.pos = @ + 1, !.num = @ + 1]
<1>1. j \in Jobs /\ j.pc = "read" /\ j.files # <<>> /\ ~AtEnd(w) /\ Line(w) = Metrics
  BY DEF Inv, Shape, ReadMetrics
<1>2. /\ j.files \in Seq(1..MaxFiles) /\ Once(j.files) /\ f \in 1..MaxFiles /\ f \in Elements(j.files)
      /\ Len(log[f]) \in Nat /\ j.pos \in Nat \ {0} /\ j.pos \in 1..Len(log[f])
      /\ j.num \in Nat /\ j.todo = <<>>
  BY <1>1, OpenFile
<1>3. log[f][j.pos] = Metrics
  BY <1>1 DEF Line
<1>16. j.pos + 1 \in Nat \ {0} /\ j.num + 1 \in Nat
  BY <1>2
<1>7. r \in Jobs
  BY <1>1, <1>16 DEF Jobs
<1>8. job' = [job EXCEPT ![w] = r]
  BY Zenon DEF ReadMetrics
<1>9. job'[w] = r /\ r.files = j.files /\ r.pos = j.pos + 1 /\ r.num = j.num + 1 /\ r.began = j.began
      /\ r.alone = j.alone /\ r.pc = "read" /\ r.todo = j.todo /\ r.list = j.list
  BY <1>1, <1>8 DEF Inv, Shape, Jobs
<1>10. UNCHANGED <<log, cur, config, all_handlers>> /\ all_handlers \in Seq(Handlers)
  BY DEF ReadMetrics, Inv, Shape
<1> HIDE DEF r
<1>12. Walk(w)'
  BY <1>1, <1>2, <1>9, <1>10 DEF Walk
<1>13. Total(w)'
  <2>14. PICK q : q = <<f, j.pos>>
    OBVIOUS
  <2>1. MetricsLines' = MetricsLines
    BY <1>10 DEF MetricsLines
  <2>2. PICK S, R \in SUBSET MetricsLines : Counted(w, S, R)
    BY DEF Inv, Total
  <2>3. q \in MetricsLines
    BY <1>2, <1>3, <2>14, Places DEF Inv
  <2>4. \A p \in MetricsLines : p[2] \in Nat /\ (p[1] = f /\ p[2] = j.pos => p = q)
    <3> SUFFICES ASSUME NEW p \in MetricsLines PROVE p[2] \in Nat /\ (p[1] = f /\ p[2] = j.pos => p = q)
      OBVIOUS
    <3>1. p = <<p[1], p[2]>> /\ p[1] \in 1..MaxFiles /\ p[2] \in 1..Len(log[p[1]])
      BY Places DEF Inv
    <3> QED
      BY <2>14, <3>1
  <2>5. q[1] = f /\ q[2] = j.pos
    BY <2>14
  <2>6. q \notin R
    BY <1>2, <2>2, <2>5 DEF Counted
  <2>7. IsFiniteSet(R)
    BY FS_Subset DEF Inv, Lists
  <2>8. Cardinality(R \cup {q}) = j.num + 1
    BY <2>2, <2>6, <2>7, FS_AddElement DEF Counted
  <2>9. \A p \in MetricsLines : p[1] = f => (p[2] < j.pos + 1 <=> p[2] < j.pos \/ p = q)
    BY <1>2, <2>4, <2>5
  <2>10. R \cup {q} \subseteq MetricsLines
    BY <2>3
  <2>11. \A p \in R \cup {q} : p[1] \in Elements(j.files) => p[1] = f /\ p[2] < j.pos + 1
    <3> SUFFICES ASSUME NEW p \in R \cup {q}, p[1] \in Elements(j.files) PROVE p[1] = f /\ p[2] < j.pos + 1
      OBVIOUS
    <3>1. CASE p = q
      BY <2>3, <2>5, <2>9, <3>1
    <3>2. CASE p \in R
      BY <2>2, <2>9, <3>2 DEF Counted
    <3> QED
      BY <3>1, <3>2
  <2>12. \A p \in MetricsLines : p[1] = f /\ p[2] < j.pos + 1 => p \in R \cup {q}
    BY <1>1, <2>2, <2>9 DEF Counted
  <2>13. Counted(w, S, R \cup {q})'
    BY <1>9, <2>1, <2>2, <2>8, <2>10, <2>11, <2>12 DEF Counted
  <2> QED
    BY <2>1, <2>10, <2>13 DEF Total
<1>14. ASSUME j.alone PROVE Progress(w)'
  <2>1. ToCome(w) \/ Taken(w)
    BY <1>1, <1>14 DEF Inv, Listed, Progress
  <2>2. ASSUME ToCome(w) PROVE ToCome(w)'
    <3>1. ASSUME f = 1 PROVE \E k \in 1..Len(log[1]) : Newest(k) /\ j.pos + 1 <= k
      <4>1. PICK k \in 1..Len(log[1]) : Newest(k) /\ j.pos <= k
        BY <2>2, <3>1 DEF ToCome
      <4>2. config \in Configs
        BY DEF Inv, Shape
      <4>3. k # j.pos
        BY <1>3, <3>1, <4>1, <4>2, Constants DEF Newest
      <4> QED
        BY <1>2, <4>1, <4>3
    <3> QED
      BY <1>9, <1>10, <2>2, <3>1 DEF ToCome, Newest
  <2>3. ASSUME Taken(w) PROVE Taken(w)'
    <3>1. \A i \in 1..Len(log[1]) : i >= j.pos + 1 => i >= j.pos
      BY <1>2
    <3> QED
      BY <1>9, <1>10, <2>3, <3>1 DEF Taken
  <2> QED
    BY <1>9, <2>1, <2>2, <2>3 DEF Progress
<1>15. w \in Active
  BY <1>1 DEF Active
<1> QED
  BY <1>7, <1>8, <1>9, <1>10, <1>12, <1>13, <1>14, <1>15, OwnStep

\* At the end of a file all lines that were in it when the page was asked for have
\* been counted.
LEMMA NextFileStep ==
  ASSUME Inv, NEW w \in Worker, NextFile(w)
  PROVE  Inv'
<1> DEFINE j == job[w]
           f == j.files[1]
<1>1. j \in Jobs /\ j.pc = "read" /\ j.files # <<>> /\ AtEnd(w)
  BY DEF Inv, Shape, NextFile
<1>2. /\ j.files \in Seq(1..MaxFiles) /\ Once(j.files) /\ f \in 1..MaxFiles /\ f \in Elements(j.files)
      /\ Len(log[f]) \in Nat /\ j.pos \in Nat \ {0} /\ j.todo = <<>>
  BY <1>1, OpenFile
<1>3. j.pos > Len(log[f])
  BY <1>1 DEF AtEnd
<1>4. /\ Tail(j.files) \in Seq(1..MaxFiles) /\ Once(Tail(j.files))
      /\ Elements(Tail(j.files)) = Elements(j.files) \ {f}
      /\ Tail(j.files) # <<>> => Tail(j.files)[1] \in Elements(Tail(j.files))
  BY <1>1, <1>2, TailElements
<1>5. PICK rest : rest = Tail(j.files)
  OBVIOUS
<1>6. \A g \in Elements(rest) : g \in 1..MaxFiles /\ Len(log[g]) \in Nat
  <2> SUFFICES ASSUME NEW g \in Elements(rest) PROVE g \in 1..MaxFiles /\ Len(log[g]) \in Nat
    OBVIOUS
  <2>3. PICK i \in 1..Len(rest) : g = rest[i]
    BY DEF Elements
  <2>1. g \in 1..MaxFiles
    <3>1. rest \in Seq(1..MaxFiles)
      BY <1>4, <1>5
    <3> QED
      BY <2>3, <3>1, ElementOfSeq
  <2>2. log[g] \in Seq(Lines)
    BY <2>1 DEF Inv, Shape
  <2> QED
    BY <2>1, <2>2, LenProperties
<1> DEFINE r == [j EXCEPT !.files = rest, !.pos = 1]
<1>16. rest \in Seq(1..MaxFiles) /\ 1 \in Nat \ {0}
  BY <1>4, <1>5
<1>7. r \in Jobs
  BY <1>1, <1>16 DEF Jobs
<1>8. job' = [job EXCEPT ![w] = r]
  BY <1>5 DEF NextFile
<1>9. job'[w] = r /\ r.files = rest /\ r.pos = 1 /\ r.num = j.num /\ r.began = j.began
      /\ r.alone = j.alone /\ r.pc = "read" /\ r.todo = j.todo /\ r.list = j.list
  BY <1>1, <1>5, <1>8 DEF Inv, Shape, Jobs
<1>10. UNCHANGED <<log, cur, config, all_handlers>> /\ all_handlers \in Seq(Handlers)
  BY DEF NextFile, Inv, Shape
<1> HIDE DEF r
<1>11. /\ Once(rest) /\ Elements(rest) = Elements(j.files) \ {f}
       /\ rest # <<>> => rest[1] \in Elements(rest)
  BY <1>4, <1>5
<1>12. Walk(w)'
  BY <1>2, <1>6, <1>9, <1>10, <1>11 DEF Walk
<1>13. Total(w)'
  <2>1. MetricsLines' = MetricsLines
    BY <1>10 DEF MetricsLines
  <2>2. PICK S, R \in SUBSET MetricsLines : Counted(w, S, R)
    BY DEF Inv, Total
  <2>3. \A p \in MetricsLines : p[2] \in Nat \ {0} /\ (p[1] = f => p \in R)
    <3> SUFFICES ASSUME NEW p \in MetricsLines PROVE p[2] \in Nat \ {0} /\ (p[1] = f => p \in R)
      OBVIOUS
    <3>1. p[1] \in 1..MaxFiles /\ p[2] \in 1..Len(log[p[1]])
      BY Places DEF Inv
    <3>2. p[1] = f => p[2] < j.pos
      BY <1>2, <1>3, <3>1
    <3> QED
      BY <1>1, <2>2, <3>1, <3>2 DEF Counted
  <2>4. \A p \in S : p \in R \/ p[1] \in Elements(rest)
    BY <1>11, <2>2, <2>3 DEF Counted
  <2>5. \A p \in R : p[1] \notin Elements(rest)
    BY <1>11, <2>2 DEF Counted
  <2>6. \A p \in MetricsLines : ~(p[2] < 1)
    BY <2>3
  <2>7. Cardinality(S) = j.began /\ Cardinality(R) = j.num
    BY <2>2 DEF Counted
  <2>8. Counted(w, S, R)'
    BY <1>9, <2>1, <2>2, <2>4, <2>5, <2>6, <2>7 DEF Counted
  <2> QED
    BY <2>1, <2>8 DEF Total
<1>14. ASSUME j.alone PROVE Progress(w)'
  <2>1. ToCome(w) \/ Taken(w)
    BY <1>1, <1>14 DEF Inv, Listed, Progress
  <2>2. ASSUME ToCome(w) PROVE ToCome(w)'
    <3>1. f # 1
      <4> SUFFICES ASSUME f = 1 PROVE FALSE
        OBVIOUS
      <4>1. PICK k \in 1..Len(log[1]) : j.pos <= k
        BY <2>2 DEF ToCome
      <4> QED
        BY <1>2, <1>3, <4>1
    <3>2. 1 \in Elements(rest)
      BY <1>11, <2>2, <3>1 DEF ToCome
    <3>3. PICK k \in 1..Len(log[1]) : Newest(k)
      BY DEF Inv, Lists
    <3>4. 1 <= k /\ Newest(k)'
      BY <1>10, <3>3 DEF Newest
    <3> QED
      BY <1>9, <1>10, <3>2, <3>4 DEF ToCome
  <2>3. ASSUME Taken(w) PROVE Taken(w)'
    <3>1. 1 \notin Elements(rest)
      BY <1>11, <2>3 DEF Taken
    <3> QED
      BY <1>9, <1>10, <2>3, <3>1 DEF Taken
  <2> QED
    BY <1>9, <2>1, <2>2, <2>3 DEF Progress
<1>15. w \in Active
  BY <1>1 DEF Active
<1> QED
  BY <1>7, <1>8, <1>9, <1>10, <1>12, <1>13, <1>14, <1>15, OwnStep

\* A listing of a set names every element once.
LEMMA ListingOnce ==
  ASSUME NEW S, IsFiniteSet(S), NEW s \in SetToSeqs(S)
  PROVE  s \in Seq(S) /\ Elements(s) = S /\ Once(s)
<1> DEFINE n == Cardinality(S)
<1>1. n \in Nat
  BY FS_CardinalityType
<1>2. s \in [1..n -> S] /\ \A i, k \in 1..n : i # k => s[i] # s[k]
  BY DEF SetToSeqs
<1> HIDE DEF n
<1>3. s \in Seq(S) /\ Len(s) = n
  BY <1>1, <1>2
<1>4. s \in Injection(1..n, S)
  BY <1>2 DEF Injection, IsInjective
<1>5. IsFiniteSet(1..n) /\ Cardinality(1..n) = n
  BY <1>1, FS_Interval
<1>6. s \in Surjection(1..n, S)
  BY <1>4, <1>5, FS_Injection DEF n
<1>7. \A x \in S : \E i \in 1..n : s[i] = x
  BY <1>6 DEF Surjection
<1>8. Elements(s) = S
  BY <1>2, <1>3, <1>7 DEF Elements
<1> QED
  BY <1>2, <1>3, <1>8 DEF Once

\* A page begins with all files and, if no other is being made, alone.
LEMMA StartStep ==
  ASSUME Inv, NEW w \in Worker, Start(w)
  PROVE  Inv'
<1> DEFINE F == {f \in 1..MaxFiles : log[f] # <<>>}
<1>1. PICK files \in SetToSeqs(F) :
        job' = [v \in Worker |->
                 IF v = w THEN [Idle EXCEPT !.pc = "read", !.files = files, !.began = Logged,
                                            !.alone = Active = {}]
                 ELSE [job[v] EXCEPT !.alone = @ /\ v \notin Active]]
  BY DEF Start
<1>2. UNCHANGED <<log, cur, config, all_handlers>>
  BY DEF Start
<1>3. IsFiniteSet(F)
  <2>1. IsFiniteSet(1..MaxFiles)
    BY Constants, FS_Interval
  <2>2. F \in SUBSET (1..MaxFiles)
    OBVIOUS
  <2> HIDE DEF F
  <2> QED
    BY <2>1, <2>2, FS_Subset
<1>4. files \in Seq(F) /\ Elements(files) = F /\ Once(files)
  BY <1>1, <1>3, ListingOnce
<1>5. Seq(F) \subseteq Seq(1..MaxFiles)
  BY SeqMonotonic
<1>6. files \in Seq(1..MaxFiles) /\ (files # <<>> => files[1] \in F)
  BY <1>4, <1>5, TailElements
<1>7. Logged \in Nat /\ Logged = Cardinality(MetricsLines) /\ IsFiniteSet(MetricsLines)
  BY FS_CardinalityType DEF Inv, Lists, Logged
<1>8. /\ job'[w] \in Jobs /\ job'[w].pc = "read" /\ job'[w].files = files /\ job'[w].pos = 1
      /\ job'[w].num = 0 /\ job'[w].began = Logged /\ job'[w].alone = (Active = {}) /\ job'[w].todo = <<>>
  <2>1. job'[w] = [pc |-> "read", files |-> files, pos |-> 1, num |-> 0, todo |-> <<>>, list |-> <<>>,
                   began |-> Logged, alone |-> (Active = {})]
    BY <1>1 DEF Idle
  <2>2. <<>> \in Seq(Handlers) /\ 1 \in Nat \ {0} /\ 0 \in Nat /\ (Active = {}) \in BOOLEAN
    OBVIOUS
  <2> QED
    BY <1>6, <1>7, <2>1, <2>2 DEF Jobs
<1>9. ASSUME NEW v \in Worker, v # w
      PROVE  /\ job'[v] \in Jobs /\ job'[v].pc = job[v].pc /\ job'[v].files = job[v].files
             /\ job'[v].pos = job[v].pos /\ job'[v].num = job[v].num /\ job'[v].began = job[v].began
             /\ job'[v].todo = job[v].todo /\ job'[v].list = job[v].list
             /\ job'[v].alone = (job[v].alone /\ v \notin Active)
  <2>1. job[v] \in Jobs
    BY DEF Inv, Shape
  <2>2. job'[v] = [job[v] EXCEPT !.alone = @ /\ v \notin Active]
    BY <1>1, <1>9
  <2> QED
    BY <2>1, <2>2 DEF Jobs
<1>10. job' \in [Worker -> Jobs]
  BY <1>1, <1>8, <1>9
<1>11. Shape'
  BY <1>2, <1>10 DEF Inv, Shape
<1>12. Lists'
  BY <1>2 DEF Inv, Lists, Newest, MetricsLines
<1>13. MetricsLines' = MetricsLines
  BY <1>2 DEF MetricsLines
<1>14. \A v \in Active' : v = w \/ v \in Active
  BY <1>9 DEF Active
<1>15. ASSUME NEW v \in Worker, v # w PROVE Walk(v)' /\ Total(v)' /\ Listed(v)'
  <2>1. Walk(v)'
    BY <1>2, <1>9, <1>15 DEF Inv, Walk
  <2>2. Total(v)'
    BY <1>2, <1>9, <1>15, SamePlace
  <2>3. ASSUME job'[v].alone PROVE v \notin Active /\ job[v].alone
    BY <1>9, <1>15, <2>3
  <2>4. ASSUME job'[v].alone PROVE v \notin Active' /\ Progress(v)'
    <3>1. v \notin Active /\ Progress(v)
      BY <2>3, <2>4 DEF Inv, Listed
    <3> QED
      BY <1>2, <1>9, <1>14, <1>15, <3>1 DEF Progress, Active
  <2> QED
    BY <2>1, <2>2, <2>4 DEF Listed
<1>16. Walk(w)'
  <2>1. ASSUME files # <<>> PROVE 1 <= Len(log[files[1]]) + 1
    <3>1. log[files[1]] \in Seq(Lines)
      BY <1>6, <2>1 DEF Inv, Shape
    <3> QED
      BY <3>1, LenProperties
  <2> QED
    BY <1>2, <1>4, <1>8, <2>1 DEF Walk
<1>17. Total(w)'
  <2>1. \A p \in MetricsLines : p[1] \in F /\ p[2] \in Nat /\ ~(p[2] < 1)
    <3> SUFFICES ASSUME NEW p \in MetricsLines PROVE p[1] \in F /\ p[2] \in Nat /\ ~(p[2] < 1)
      OBVIOUS
    <3>1. p[1] \in 1..MaxFiles /\ p[2] \in 1..Len(log[p[1]])
      BY Places DEF Inv
    <3>2. log[p[1]] \in Seq(Lines)
      BY <3>1 DEF Inv, Shape
    <3>3. Len(log[p[1]]) # 0
      BY <3>1, <3>2, LenProperties
    <3> QED
      BY <3>1, <3>2, <3>3, EmptySeq
  <2>2. PICK S : S = MetricsLines
    OBVIOUS
  <2>3. Cardinality({}) = 0
    BY FS_EmptySet
  <2> HIDE DEF F
  <2>4. Counted(w, S, {})'
    BY <1>4, <1>7, <1>8, <1>13, <2>1, <2>2, <2>3 DEF Counted
  <2> QED
    BY <1>13, <2>2, <2>4 DEF Total
<1>18. Listed(w)'
  <2> SUFFICES ASSUME Active = {} PROVE (\A v \in Active' : v = w) /\ Progress(w)'
    BY <1>8 DEF Listed
  <2>1. PICK k \in 1..Len(log[1]) : Newest(k)
    BY DEF Inv, Lists
  <2>2. Newest(k)' /\ 1 <= k
    BY <1>2, <2>1 DEF Newest
  <2>3. log[1] # <<>>
    BY <2>1
  <2>4. 1 \in Elements(files)
    BY <1>4, <2>3, Constants
  <2>5. ToCome(w)'
    BY <1>2, <1>8, <2>1, <2>2, <2>4 DEF ToCome
  <2> QED
    BY <1>8, <1>14, <2>5 DEF Progress
<1> QED
  BY <1>11, <1>12, <1>15, <1>16, <1>17, <1>18 DEF Inv

\* Two accesses that overlap are of two pages, of which none is made alone.
LEMMA GarbleStep ==
  ASSUME Inv, Garble
  PROVE  Inv'
<1> DEFINE A == {w \in Worker : job[w].pc \in {"list", "clear"}}
<1>1. all_handlers' = <<"garbled">> /\ UNCHANGED <<log, cur, config, job>> /\ Cardinality(A) > 1
  BY DEF Garble
<1>2. all_handlers' \in Seq(Handlers)
  BY <1>1 DEF Handlers
<1>3. Shape' /\ Lists'
  BY <1>1, <1>2 DEF Inv, Shape, Lists, Newest, MetricsLines
<1>4. ASSUME NEW w \in Worker PROVE Walk(w)' /\ Total(w)'
  BY <1>1, SamePlace DEF Inv, Walk
<1>5. ASSUME NEW w \in Worker, job[w].alone PROVE w \notin Active
  <2> SUFFICES ASSUME w \in Active PROVE FALSE
    OBVIOUS
  <2>1. A \in SUBSET {w}
    BY <1>5 DEF Inv, Listed, Active
  <2>2. IsFiniteSet({w}) /\ Cardinality({w}) = 1
    BY FS_Singleton
  <2> HIDE DEF A
  <2>3. Cardinality(A) <= 1 /\ Cardinality(A) \in Nat
    BY <2>1, <2>2, FS_Subset, FS_CardinalityType
  <2> QED
    BY <1>1, <2>3
<1>6. ASSUME NEW w \in Worker PROVE Listed(w)'
  BY <1>1, <1>5 DEF Inv, Listed, Progress, Active
<1> QED
  BY <1>3, <1>4, <1>6 DEF Inv

\* A metrics line behind the newest list leaves it the newest.
LEMMA NewestStays ==
  ASSUME Shape, NEW g \in 1..MaxFiles, log' = [log EXCEPT ![g] = Append(@, Metrics)], UNCHANGED config,
         NEW k, Newest(k)
  PROVE  k \in 1..Len(log'[1]) /\ Newest(k)'
<1>1. Metrics \in Lines /\ 1 \in 1..MaxFiles
  BY Constants
<1>2. CASE g = 1
  <2> DEFINE n == Len(log[1])
  <2>1. n \in Nat /\ Len(log'[1]) = n + 1 /\ log'[1][n + 1] = Metrics /\ \A i \in 1..n : log'[1][i] = log[1][i]
    BY <1>1, <1>2, LogStep
  <2>2. k \in 1..n /\ log[1][k] = AllHandlers(config) /\ \A i \in k + 1..n : log[1][i] = Metrics
    BY DEF Newest
  <2> HIDE DEF n
  <2>3. \A i \in k + 1..n + 1 : log'[1][i] = Metrics
    <3> SUFFICES ASSUME NEW i \in k + 1..n + 1 PROVE log'[1][i] = Metrics
      OBVIOUS
    <3>1. i = n + 1 \/ (i \in k + 1..n /\ i \in 1..n)
      BY <2>1, <2>2
    <3> QED
      BY <2>1, <2>2, <3>1
  <2>4. k \in 1..n + 1 /\ log'[1][k] = AllHandlers(config)
    BY <2>1, <2>2
  <2> QED
    BY <2>1, <2>3, <2>4 DEF Newest
<1>3. CASE g # 1
  <2>1. log'[1] = log[1]
    BY <1>1, <1>3, LogStep
  <2> QED
    BY <2>1 DEF Newest
<1> QED
  BY <1>2, <1>3

\* A metrics line is added behind the places where pages are being read.
LEMMA LogMetricsStep ==
  ASSUME Inv, LogMetrics
  PROVE  Inv'
<1>1. PICK g : g = cur'
  OBVIOUS
<1>2. /\ g \in 1..MaxFiles /\ log' = [log EXCEPT ![g] = Append(@, Metrics)]
      /\ UNCHANGED <<config, all_handlers, job>> /\ Shape /\ Metrics \in Lines
  BY <1>1, Constants DEF LogMetrics, Inv
<1>3. PICK n \in Nat : n = Len(log[g])
  BY <1>2, LogStep
<1>4. /\ log' \in [1..MaxFiles -> Seq(Lines)]
      /\ Len(log'[g]) = n + 1 /\ log'[g][n + 1] = Metrics /\ \A i \in 1..n : log'[g][i] = log[g][i]
      /\ \A h \in 1..MaxFiles \ {g} : log'[h] = log[h]
  BY <1>2, <1>3, LogStep
<1>5. MetricsLines' = MetricsLines \cup {<<g, n + 1>>}
  BY <1>2, <1>3, LinesStep
<1>6. Shape'
  BY <1>1, <1>2, <1>4 DEF Shape
<1>7. \A k : Newest(k) => k \in 1..Len(log'[1]) /\ Newest(k)'
  BY <1>2, NewestStays
<1>8. \A h \in 1..MaxFiles : Len(log[h]) \in Nat /\ Len(log'[h]) \in Nat /\ Len(log[h]) <= Len(log'[h])
  <2> SUFFICES ASSUME NEW h \in 1..MaxFiles
               PROVE  Len(log[h]) \in Nat /\ Len(log'[h]) \in Nat /\ Len(log[h]) <= Len(log'[h])
    OBVIOUS
  <2>1. log[h] \in Seq(Lines)
    BY <1>2 DEF Shape
  <2>2. Len(log[h]) \in Nat
    BY <2>1, LenProperties
  <2>3. Len(log'[h]) = IF h = g THEN n + 1 ELSE Len(log[h])
    BY <1>4
  <2> QED
    BY <1>3, <2>2, <2>3
<1>9. \A h \in 1..MaxFiles : \A i \in 1..Len(log'[h]) :
        log'[h][i] = Metrics \/ (i \in 1..Len(log[h]) /\ log'[h][i] = log[h][i])
  <2> SUFFICES ASSUME NEW h \in 1..MaxFiles, NEW i \in 1..Len(log'[h])
               PROVE  log'[h][i] = Metrics \/ (i \in 1..Len(log[h]) /\ log'[h][i] = log[h][i])
    OBVIOUS
  <2>1. CASE h = g
    <3>1. i = n + 1 \/ i \in 1..n
      BY <1>4, <2>1
    <3> QED
      BY <1>3, <1>4, <2>1, <3>1
  <2>2. CASE h # g
    BY <1>4, <2>2
  <2> QED
    BY <2>1, <2>2
<1>10. Lists'
  <2>1. IsFiniteSet(MetricsLines')
    BY <1>5, FS_AddElement DEF Inv, Lists
  <2>2. \A h \in 2..MaxFiles : \A i \in 1..Len(log'[h]) : log'[h][i] = Metrics
    <3> SUFFICES ASSUME NEW h \in 2..MaxFiles, NEW i \in 1..Len(log'[h]) PROVE log'[h][i] = Metrics
      OBVIOUS
    <3>1. h \in 1..MaxFiles
      BY Constants
    <3> QED
      BY <1>9, <3>1 DEF Inv, Lists
  <2>3. \E k \in 1..Len(log'[1]) : Newest(k)'
    BY <1>7 DEF Inv, Lists
  <2> QED
    BY <2>1, <2>2, <2>3 DEF Lists
<1>11. ASSUME NEW w \in Worker PROVE Walk(w)' /\ Total(w)' /\ Listed(w)'
  <2>1. job[w] \in Jobs /\ Walk(w) /\ job'[w] = job[w]
    BY <1>2 DEF Inv, Shape
  <2>2. job[w].files \in Seq(1..MaxFiles) /\ job[w].pos \in Nat
    BY <2>1 DEF Jobs
  <2>3. ASSUME job[w].files # <<>>
        PROVE  job[w].files[1] \in 1..MaxFiles /\ job[w].pos <= Len(log[job[w].files[1]]) + 1
    BY <2>1, <2>2, <2>3, TailElements DEF Walk
  <2>4. Walk(w)'
    <3>1. ASSUME job[w].files # <<>> PROVE job[w].pos <= Len(log'[job[w].files[1]]) + 1
      <4>1. PICK h \in 1..MaxFiles : h = job[w].files[1]
        BY <2>3, <3>1
      <4>2. job[w].pos <= Len(log[h]) + 1
        BY <2>3, <3>1, <4>1
      <4>3. Len(log[h]) \in Nat /\ Len(log'[h]) \in Nat /\ Len(log[h]) <= Len(log'[h])
        BY <1>8
      <4>4. job[w].pos <= Len(log'[h]) + 1
        BY <2>2, <4>2, <4>3
      <4> QED
        BY <4>1, <4>4
    <3> QED
      BY <2>1, <3>1 DEF Walk
  <2>5. Total(w)'
    <3>1. PICK S, R \in SUBSET MetricsLines : Counted(w, S, R)
      BY DEF Inv, Total
    <3>2. ASSUME job[w].files # <<>>, NEW p \in MetricsLines', p[1] = job[w].files[1], p[2] < job[w].pos
          PROVE  p \in R
      <4>1. CASE p \in MetricsLines
        BY <3>1, <3>2, <4>1 DEF Counted
      <4>2. CASE p = <<g, n + 1>>
        <5>1. job[w].files[1] = g /\ n + 1 < job[w].pos
          BY <3>2, <4>2
        <5> QED
          BY <1>3, <2>2, <2>3, <3>2, <5>1
      <4> QED
        BY <1>5, <4>1, <4>2
    <3>3. S \subseteq MetricsLines' /\ R \subseteq MetricsLines'
      BY <1>5
    <3>4. Counted(w, S, R)'
      BY <2>1, <3>1, <3>2, <3>3 DEF Counted
    <3> QED
      BY <3>3, <3>4 DEF Total
  <2>6. ToCome(w) => ToCome(w)'
    BY <1>7, <2>1 DEF ToCome
  <2>7. Taken(w) => Taken(w)'
    <3> SUFFICES ASSUME Taken(w) PROVE Taken(w)'
      OBVIOUS
    <3>1. ASSUME 1 \in Elements(job[w].files), NEW i \in 1..Len(log'[1]), i >= job[w].pos
          PROVE  log'[1][i] = Metrics
      BY <1>9, <3>1, Constants DEF Taken
    <3> QED
      BY <1>2, <2>1, <3>1 DEF Taken
  <2>8. Listed(w)'
    BY <1>2, <2>1, <2>6, <2>7 DEF Inv, Listed, Progress, Active
  <2> QED
    BY <2>4, <2>5, <2>8
<1> QED
  BY <1>6, <1>10, <1>11 DEF Inv

\* No page is being made when a server starts.
LEMMA IdleJobs ==
  \A w \in Worker : job[w] = Idle => Idle \in Jobs /\ Walk(w) /\ Total(w) /\ Listed(w)
<1> SUFFICES ASSUME NEW w \in Worker, job[w] = Idle
             PROVE  Idle \in Jobs /\ Walk(w) /\ Total(w) /\ Listed(w)
  OBVIOUS
<1>1. Idle \in Jobs
  <2>1. <<>> \in Seq(Handlers) /\ <<>> \in Seq(1..MaxFiles) /\ 1 \in Nat \ {0} /\ 0 \in Nat
    OBVIOUS
  <2> QED
    BY <2>1 DEF Idle, Jobs
<1>2. job[w].pc = "idle" /\ job[w].files = <<>> /\ job[w].todo = <<>> /\ job[w].num = 0 /\ job[w].began = 0
  BY DEF Idle
<1>3. Walk(w)
  BY <1>2, NoElements DEF Walk
<1>4. Cardinality({}) = 0
  BY FS_EmptySet
<1>5. Counted(w, {}, {})
  BY <1>2, <1>4 DEF Counted
<1>6. Total(w)
  BY <1>5 DEF Total
<1>7. Listed(w)
  BY <1>2 DEF Listed, Progress, Active
<1> QED
  BY <1>1, <1>3, <1>6, <1>7

\* A server that is started again adds its list, the newest, to the first file.
LEMMA RestartStep ==
  ASSUME Inv, Restart
  PROVE  Inv'
<1>1. PICK l : l = AllHandlers(config')
  OBVIOUS
<1>2. /\ log' = [log EXCEPT ![1] = Append(@, l)] /\ l \in Lines /\ l # Metrics /\ 1 \in 1..MaxFiles
      /\ Shape /\ config' \in Configs /\ cur' = 1 /\ all_handlers' = <<>> /\ job' = [w \in Worker |-> Idle]
  BY <1>1, Constants DEF Restart, Inv
<1>3. PICK n \in Nat : n = Len(log[1])
  BY <1>2, LogStep
<1>4. /\ log' \in [1..MaxFiles -> Seq(Lines)]
      /\ Len(log'[1]) = n + 1 /\ log'[1][n + 1] = l
      /\ \A h \in 1..MaxFiles \ {1} : log'[h] = log[h]
  BY <1>2, <1>3, LogStep
<1>5. MetricsLines' = MetricsLines
  BY <1>2, LinesStep
<1>6. (\A w \in Worker : job[w] = Idle => Idle \in Jobs /\ Walk(w) /\ Total(w) /\ Listed(w))'
  BY IdleJobs, PTL
<1>7. \A w \in Worker : Idle \in Jobs /\ Walk(w)' /\ Total(w)' /\ Listed(w)'
  BY <1>2, <1>6
<1>8. Shape'
  <2>1. <<>> \in Seq(Handlers)
    OBVIOUS
  <2> QED
    BY <1>2, <1>4, <1>7, <2>1 DEF Shape
<1>9. Newest(n + 1)'
  BY <1>1, <1>3, <1>4 DEF Newest
<1>10. Lists'
  <2>1. \A h \in 2..MaxFiles : log'[h] = log[h]
    BY <1>4, Constants
  <2>2. n + 1 \in 1..Len(log'[1])
    BY <1>3, <1>4
  <2> QED
    BY <1>5, <1>9, <2>1, <2>2 DEF Inv, Lists
<1> QED
  BY <1>7, <1>8, <1>10 DEF Inv

\* The invariant holds when the first server has started.
LEMMA InitInv == Init => Inv
<1> SUFFICES ASSUME Init PROVE Inv
  OBVIOUS
<1>1. /\ config \in Configs /\ cur = 1 /\ all_handlers = <<>> /\ job = [w \in Worker |-> Idle]
      /\ log = [f \in 1..MaxFiles |-> IF f = 1 THEN <<AllHandlers(config)>> ELSE <<>>]
  BY DEF Init
<1>2. AllHandlers(config) \in Lines /\ AllHandlers(config) # Metrics /\ 1 \in 1..MaxFiles
  BY <1>1, Constants
<1>3. \A w \in Worker : Idle \in Jobs /\ Walk(w) /\ Total(w) /\ Listed(w)
  BY <1>1, IdleJobs
<1>4. log \in [1..MaxFiles -> Seq(Lines)]
  <2>1. <<AllHandlers(config)>> \in Seq(Lines) /\ <<>> \in Seq(Lines)
    BY <1>2
  <2> QED
    BY <1>1, <2>1
<1>5. Shape
  <2>1. <<>> \in Seq(Handlers)
    OBVIOUS
  <2> QED
    BY <1>1, <1>2, <1>3, <1>4, <2>1 DEF Shape
<1>6. Len(log[1]) = 1 /\ log[1][1] = AllHandlers(config) /\ \A f \in 2..MaxFiles : Len(log[f]) = 0
  <2>1. log[1] = <<AllHandlers(config)>>
    BY <1>1, <1>2
  <2>2. \A f \in 2..MaxFiles : log[f] = <<>>
    BY <1>1
  <2> QED
    BY <2>1, <2>2
<1>7. MetricsLines = {}
  <2> SUFFICES ASSUME NEW p \in MetricsLines PROVE FALSE
    OBVIOUS
  <2>1. p[1] \in 1..MaxFiles /\ p[2] \in 1..Len(log[p[1]]) /\ log[p[1]][p[2]] = Metrics
    BY <1>5, Places
  <2>2. CASE p[1] = 1
    BY <1>2, <1>6, <2>1, <2>2
  <2>3. CASE p[1] # 1
    <3>1. p[1] \in 2..MaxFiles
      BY <2>1, <2>3, Constants
    <3> QED
      BY <1>6, <2>1, <3>1
  <2> QED
    BY <2>2, <2>3
<1>8. Newest(1)
  BY <1>6 DEF Newest
<1>9. Lists
  BY <1>6, <1>7, <1>8, FS_EmptySet DEF Lists
<1> QED
  BY <1>3, <1>5, <1>9 DEF Inv

\* Every step preserves the invariant.
LEMMA NextInv == Inv /\ [Next]_vars => Inv'
<1> SUFFICES ASSUME Inv, [Next]_vars PROVE Inv'
  OBVIOUS
<1>1. CASE LogMetrics
  BY <1>1, LogMetricsStep
<1>2. CASE Restart
  BY <1>2, RestartStep
<1>3. CASE Garble
  BY <1>3, GarbleStep
<1>4. ASSUME NEW w \in Worker, Start(w) PROVE Inv'
  BY <1>4, StartStep
<1>5. ASSUME NEW w \in Worker, get_request_records(w) PROVE Inv'
  BY <1>5, ReadHandlersStep, ListHandlerStep, ListEndsStep, ReadMetricsStep, NextFileStep DEF get_request_records
<1>6. ASSUME NEW w \in Worker, CopyHandlers(w) PROVE Inv'
  BY <1>6, CopyStep
<1>7. ASSUME NEW w \in Worker, ClearHandlers(w) PROVE Inv'
  BY <1>7, ClearStep
<1>8. CASE UNCHANGED vars
  <2>1. UNCHANGED <<log, cur, config, all_handlers, job>>
    BY <1>8 DEF vars
  <2>2. Shape' /\ Lists'
    BY <2>1 DEF Inv, Shape, Lists, Newest, MetricsLines
  <2>3. ASSUME NEW w \in Worker PROVE Walk(w)' /\ Total(w)' /\ Listed(w)'
    <3>1. Walk(w)' /\ Total(w)'
      BY <2>1, SamePlace DEF Inv, Walk
    <3>2. Listed(w)'
      BY <2>1 DEF Inv, Listed, Progress, ToCome, Newest, Taken, Active
    <3> QED
      BY <3>1, <3>2
  <2> QED
    BY <2>2, <2>3 DEF Inv
<1> QED
  BY <1>1, <1>2, <1>3, <1>4, <1>5, <1>6, <1>7, <1>8 DEF Next

\* The invariant holds in every state of every behaviour.
LEMMA Invariant == Spec => []Inv
BY InitInv, NextInv, PTL DEF Spec

\* The variables keep their types, and a thread reads only inside the file it has
\* open or at its end, though the file grows: the loop of get_request_records.
THEOREM StatusTypes == Spec => []TypeOK
<1>1. Inv => TypeOK
  BY DEF Inv, Shape, Walk, TypeOK, Jobs
<1> QED
  BY <1>1, Invariant, PTL

\* num_requests of a page that is finished lies between the number of responses
\* that had been logged when the page was asked for and the number logged by now.
THEOREM PageCounts == Spec => []TotalBetween
<1>1. Inv => TotalBetween
  <2> SUFFICES ASSUME Inv, NEW w \in Worker, Done(w)
               PROVE  job[w].began <= job[w].num /\ job[w].num <= Logged
    BY DEF TotalBetween
  <2>1. job[w].files = <<>>
    BY DEF Inv, Walk, Done
  <2>2. PICK S, R \in SUBSET MetricsLines : Counted(w, S, R)
    BY DEF Inv, Total
  <2>3. S \in SUBSET R
    BY <2>1, <2>2, NoElements DEF Counted
  <2>4. IsFiniteSet(R) /\ Cardinality(R) <= Cardinality(MetricsLines)
    BY FS_Subset DEF Inv, Lists
  <2>5. Cardinality(S) <= Cardinality(R)
    BY <2>3, <2>4, FS_Subset
  <2> QED
    BY <2>2, <2>4, <2>5 DEF Counted, Logged
<1> QED
  BY <1>1, Invariant, PTL

\* handle_request, when no other thread makes a page meanwhile, lists exactly the
\* handlers of the running server, though the log still has older lists.
THEOREM PageListsHandlers == Spec => []ListsHandlers
<1>1. Inv => ListsHandlers
  BY DEF Inv, Listed, Progress, ListsHandlers, Done
<1> QED
  BY <1>1, Invariant, PTL
=============================================================================
