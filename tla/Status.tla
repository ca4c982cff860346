------------------------------- MODULE Status -------------------------------
(***************************************************************************)
(* status_request_handler on several threads: each page is read out of the *)
(* log files while other threads write to them, and the list of handlers   *)
(* is put together in all_handlers, a stream that all threads share.       *)
(*                                                                         *)
(* A line of the log is a metrics line or the line that lists the handlers *)
(* when a server starts; the others are not looked at.  The log outlives   *)
(* the process: a server that is started again opens the first file again  *)
(* and appends to it, and reads what its predecessors have left.           *)
(***************************************************************************)
EXTENDS Naturals, Sequences, SequencesExt, FiniteSets

CONSTANTS
  Worker,       \* threads that make pages
  Configs,      \* configurations: sequences of handlers with their locations
  MaxFiles,     \* bound: log files
  MaxLines,     \* bound: metrics lines written in all
  MaxRestarts   \* bound: restarts of the server

ASSUME StatusAssumption ==
  /\ {MaxFiles, MaxLines, MaxRestarts} \subseteq Nat
  /\ MaxFiles > 0 /\ Configs # {} /\ Configs \subseteq Seq(STRING)

VARIABLES
  log,           \* log[f]: the lines of file f, "../log/sample_log_%N.log"
  cur,           \* the file being written
  config,        \* the configuration of the running server
  all_handlers,  \* the text of the shared stream
  job,           \* job[w]: what thread w is doing
  restarts       \* restarts so far

vars == <<log, cur, config, all_handlers, job, restarts>>

Metrics == [kind |-> "ResponseMetrics", list |-> <<>>]
AllHandlers(c) == [kind |-> "all_handlers", list |-> c]
MetricsLines == {p \in UNION {{f} \X DOMAIN log[f] : f \in 1..MaxFiles} : log[p[1]][p[2]] = Metrics}
Logged == Cardinality(MetricsLines)

Idle == [pc |-> "idle", files |-> <<>>, pos |-> 1, num |-> 0, todo |-> <<>>, list |-> <<>>,
         began |-> 0, alone |-> TRUE]
Active == {w \in Worker : job[w].pc \notin {"idle", "done"}}

Init ==
  /\ config \in Configs
  /\ log = [f \in 1..MaxFiles |-> IF f = 1 THEN <<AllHandlers(config)>> ELSE <<>>]
  /\ cur = 1
  /\ all_handlers = <<>>
  /\ job = [w \in Worker |-> Idle]
  /\ restarts = 0
-----------------------------------------------------------------------------
\* log_metrics, by any thread.  The file may be due for rotation.
LogMetrics ==
  /\ Logged < MaxLines
  /\ cur' \in {cur, cur + 1} \cap 1..MaxFiles
  /\ log' = [log EXCEPT ![cur'] = Append(@, Metrics)]
  /\ UNCHANGED <<config, all_handlers, job, restarts>>

\* The process ends, at any point, and is started with some configuration; the
\* number of the file starts from the beginning.
Restart ==
  /\ restarts < MaxRestarts
  /\ restarts' = restarts + 1
  /\ config' \in Configs
  /\ cur' = 1
  /\ log' = [log EXCEPT ![1] = Append(@, AllHandlers(config'))]
  /\ all_handlers' = <<>>
  /\ job' = [w \in Worker |-> Idle]

\* handle_request begins, and get_request_records lists the files in the order
\* of the directory.
Start(w) ==
  /\ job[w].pc \in {"idle", "done"}
  /\ \E files \in SetToSeqs({f \in 1..MaxFiles : log[f] # <<>>}) :
       job' = [v \in Worker |->
                IF v = w THEN [Idle EXCEPT !.pc = "read", !.files = files, !.began = Logged,
                                           !.alone = Active = {}]
                ELSE [job[v] EXCEPT !.alone = @ /\ v \notin Active]]
  /\ UNCHANGED <<log, cur, config, all_handlers, restarts>>

Line(w) == log[job[w].files[1]][job[w].pos]
AtEnd(w) == job[w].pos > Len(log[job[w].files[1]])

\* Mutant: the old text is not cleared.
ReadHandlersKeeps(w) ==
  /\ job[w].pc = "read" /\ job[w].files # <<>> /\ ~AtEnd(w)
  /\ Line(w).kind = "all_handlers"
  /\ job' = [job EXCEPT ![w].pc = "list", ![w].pos = @ + 1, ![w].todo = Line(w).list]
  /\ UNCHANGED <<log, cur, config, all_handlers, restarts>>

\* A line that lists the handlers: the list is cleared and then made anew.
ReadHandlers(w) ==
  /\ job[w].pc = "read" /\ job[w].files # <<>> /\ ~AtEnd(w)
  /\ Line(w).kind = "all_handlers"
  /\ all_handlers' = <<>>
  /\ job' = [job EXCEPT ![w].pc = "list", ![w].pos = @ + 1, ![w].todo = Line(w).list]
  /\ UNCHANGED <<log, cur, config, restarts>>

ListHandler(w) ==
  /\ job[w].pc = "list" /\ job[w].todo # <<>>
  /\ all_handlers' = Append(all_handlers, Head(job[w].todo))
  /\ job' = [job EXCEPT ![w].todo = Tail(@)]
  /\ UNCHANGED <<log, cur, config, restarts>>

ListEnds(w) ==
  /\ job[w].pc = "list" /\ job[w].todo = <<>>
  /\ job' = [job EXCEPT ![w].pc = "read"]
  /\ UNCHANGED <<log, cur, config, all_handlers, restarts>>

ReadMetrics(w) ==
  /\ job[w].pc = "read" /\ job[w].files # <<>> /\ ~AtEnd(w)
  /\ Line(w) = Metrics
  /\ job' = [job EXCEPT ![w].pos = @ + 1, ![w].num = @ + 1]
  /\ UNCHANGED <<log, cur, config, all_handlers, restarts>>

\* Mutant: the place in the file is kept for the next file.
NextFileOn(w) ==
  /\ job[w].pc = "read" /\ job[w].files # <<>> /\ AtEnd(w)
  /\ job' = [job EXCEPT ![w].files = Tail(@)]
  /\ UNCHANGED <<log, cur, config, all_handlers, restarts>>

NextFile(w) ==
  /\ job[w].pc = "read" /\ job[w].files # <<>> /\ AtEnd(w)
  /\ job' = [job EXCEPT ![w].files = Tail(@), ![w].pos = 1]
  /\ UNCHANGED <<log, cur, config, all_handlers, restarts>>

\* body << all_handlers.str()
CopyHandlers(w) ==
  /\ job[w].pc = "read" /\ job[w].files = <<>>
  /\ job' = [job EXCEPT ![w].pc = "clear", ![w].list = all_handlers]
  /\ UNCHANGED <<log, cur, config, all_handlers, restarts>>

\* Mutant: every page is also counted when it is made.
ClearHandlersCounts(w) ==
  /\ job[w].pc = "clear"
  /\ all_handlers' = <<>>
  /\ job' = [job EXCEPT ![w].pc = "done", ![w].num = @ + 1]
  /\ UNCHANGED <<log, cur, config, restarts>>

ClearHandlers(w) ==
  /\ job[w].pc = "clear"
  /\ all_handlers' = <<>>
  /\ job' = [job EXCEPT ![w].pc = "done"]
  /\ UNCHANGED <<log, cur, config, restarts>>

\* Accesses of two threads to the stream overlap: its text may be anything.
Garble ==
  /\ Cardinality({w \in Worker : job[w].pc \in {"list", "clear"}}) > 1
  /\ all_handlers' = <<"garbled">>
  /\ UNCHANGED <<log, cur, config, job, restarts>>

get_request_records(w) ==
  \/ ReadHandlers(w)
  \/ ListHandler(w)
  \/ ListEnds(w)
  \/ ReadMetrics(w)
  \/ NextFile(w)

Next ==
  \/ LogMetrics
  \/ Restart
  \/ Garble
  \/ \E w \in Worker :
       \/ Start(w)
       \/ get_request_records(w)
       \/ CopyHandlers(w)
       \/ ClearHandlers(w)

Spec == Init /\ [][Next]_vars
-----------------------------------------------------------------------------
Done(w) == job[w].pc = "done"

\* The variables have their types, and a thread reads only inside the file it
\* has open or at its end, though the file grows.
TypeOK ==
  /\ DOMAIN log = 1..MaxFiles /\ cur \in 1..MaxFiles
  /\ config \in Configs
  /\ \A w \in Worker :
       /\ job[w].pc \in {"idle", "read", "list", "clear", "done"}
       /\ job[w].pc = "read" /\ job[w].files # <<>> => job[w].pos <= Len(log[job[w].files[1]]) + 1

\* "Total Requests" of a page counts at least the responses that had been logged
\* when the page was asked for and at most those logged when it is finished,
\* whatever the order of the files, rotation, restarts and other pages.
TotalBetween ==
  \A w \in Worker : Done(w) => job[w].began <= job[w].num /\ job[w].num <= Logged

\* A page that was made while no other was being made lists each handler of the
\* running server once, also when the log still has the lists of earlier ones.
ListsHandlers ==
  \A w \in Worker : Done(w) /\ job[w].alone => job[w].list = config
=============================================================================
