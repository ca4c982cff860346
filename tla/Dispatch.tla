------------------------------ MODULE Dispatch ------------------------------
(***************************************************************************)
(* session::process_req on several threads at once: the response cache     *)
(* cache_query that all sessions share, the search for the location with   *)
(* the longest matching URI, the call of its handler.                      *)
(*                                                                         *)
(* A response is abstracted to the location whose handler made it, the     *)
(* request it was made for and what the log held at that moment, which is  *)
(* what the status handler shows.  cache_query is a std::unordered_map     *)
(* without a lock, so a write is an interval here, and what overlaps it is *)
(* a data race.                                                            *)
(***************************************************************************)
EXTENDS Integers, FiniteSets, Sequences, SequencesExt, UriMatch

CONSTANTS
  Worker,     \* threads that run process_req
  Request,    \* requests [uri, method, tag]; tag stands for headers and body
  Locations,  \* the keys of location_handlers_, in the order of the map
  StatusUri,  \* the URI "/status"
  Echo,       \* locations of echo handlers
  Probe,      \* URIs for which the search is compared with its rule
  MaxServed   \* bound: requests served in all

ASSUME DispatchAssumption ==
  /\ MaxServed \in Nat /\ IsFiniteSet(Worker) /\ Request # {}
  /\ Locations \in Seq(Seq(STRING) \ {<<>>})
  /\ Echo \subseteq ToSet(Locations)
  /\ Probe \subseteq Seq(STRING)

VARIABLES
  cache,   \* cache_query_: the responses of the URIs in its domain
  pc,      \* pc[t]: where thread t is in process_req
  cur,     \* cur[t]: its request
  resp,    \* resp[t]: its response
  began,   \* began[t]: lines in the log when the request arrived
  logged,  \* metrics lines in the log
  calls,   \* calls[u]: how often a handler was called for URI u
  served,  \* requests taken so far
  raced,   \* two accesses to cache_query have overlapped
  proc     \* the process

vars == <<cache, pc, cur, resp, began, logged, calls, served, raced, proc>>

Uri == {r.uri : r \in Request}

NoKey == <<>>
Nothing == [code |-> "none"]
BadReq == [code |-> "BAD_REQ"]
Made(key, r, n) == [code |-> "made", by |-> key, of |-> r, seen |-> n]
-----------------------------------------------------------------------------
\* Mutant: the loop keeps the first match, whatever its length.
BestKeyFirst(uri) ==
  FoldLeft(LAMBDA best, key : IF Matches(uri, key) /\ best = NoKey THEN key ELSE best,
           NoKey, Locations)

\* The loop over the map keeps the first of the longest keys that match.
BestKey(uri) ==
  LET best[n \in 0..Len(Locations)] ==
        IF n = 0 THEN NoKey
        ELSE IF Matches(uri, Locations[n]) /\ Len(best[n - 1]) < Len(Locations[n])
             THEN Locations[n] ELSE best[n - 1]
  IN  best[Len(Locations)]
-----------------------------------------------------------------------------
Storing == {t \in Worker : pc[t] = "storing"}

Init ==
  /\ cache = [u \in {} |-> Nothing]
  /\ pc = [t \in Worker |-> "idle"]
  /\ cur = [t \in Worker |-> CHOOSE r \in Request : TRUE]
  /\ resp = [t \in Worker |-> Nothing]
  /\ began = [t \in Worker |-> 0]
  /\ logged = 0
  /\ calls = [u \in Uri |-> 0]
  /\ served = 0
  /\ raced = FALSE
  /\ proc = "up"

Arrive(t, r) ==
  /\ pc[t] \in {"idle", "done"}
  /\ served < MaxServed
  /\ served' = served + 1
  /\ cur' = [cur EXCEPT ![t] = r]
  /\ pc' = [pc EXCEPT ![t] = "lookup"]
  /\ resp' = [resp EXCEPT ![t] = Nothing]
  /\ began' = [began EXCEPT ![t] = logged]
  /\ UNCHANGED <<cache, logged, calls, raced, proc>>

\* Mutant: "/status" is looked up in the cache like any other URI.
HitStatus(t) ==
  /\ pc[t] = "lookup"
  /\ cur[t].uri \in DOMAIN cache
  /\ resp' = [resp EXCEPT ![t] = cache[cur[t].uri]]
  /\ pc' = [pc EXCEPT ![t] = "done"]
  /\ UNCHANGED <<cache, cur, began, logged, calls, served, raced, proc>>

\* Mutant: any cached response will do.
HitAny(t) ==
  /\ pc[t] = "lookup"
  /\ cur[t].uri # StatusUri
  /\ \E u \in DOMAIN cache : resp' = [resp EXCEPT ![t] = cache[u]]
  /\ pc' = [pc EXCEPT ![t] = "done"]
  /\ UNCHANGED <<cache, cur, began, logged, calls, served, raced, proc>>

\* The cache has the answer; at() copies it.  A copy made while another thread
\* assigns to the same entry may hold parts of both responses.
Hit(t) ==
  /\ pc[t] = "lookup"
  /\ cur[t].uri # StatusUri
  /\ cur[t].uri \in DOMAIN cache
  /\ LET sources == {cache[cur[t].uri]}
                      \cup {resp[w] : w \in {v \in Storing : cur[v].uri = cur[t].uri}}
     IN  \E a, b \in sources : resp' = [resp EXCEPT ![t] = Made(a.by, a.of, b.seen)]
  /\ pc' = [pc EXCEPT ![t] = "done"]
  /\ raced' = (raced \/ Storing # {})
  /\ UNCHANGED <<cache, cur, began, logged, calls, served, proc>>

\* The cache does not have it, is not asked, or is just being rebuilt by an
\* insertion and does not find it.
Miss(t) ==
  /\ pc[t] = "lookup"
  /\ \/ cur[t].uri = StatusUri
     \/ cur[t].uri \notin DOMAIN cache
     \/ Storing # {}
  /\ pc' = [pc EXCEPT ![t] = "match"]
  /\ raced' = (raced \/ (cur[t].uri # StatusUri /\ Storing # {}))
  /\ UNCHANGED <<cache, cur, resp, began, logged, calls, served, proc>>

\* No valid method or no location: 400.
Reject(t) ==
  /\ pc[t] = "match"
  /\ cur[t].method = "INVALID" \/ BestKey(cur[t].uri) = NoKey
  /\ resp' = [resp EXCEPT ![t] = BadReq]
  /\ pc' = [pc EXCEPT ![t] = "done"]
  /\ UNCHANGED <<cache, cur, began, logged, calls, served, raced, proc>>

Handle(t) ==
  /\ pc[t] = "match"
  /\ cur[t].method # "INVALID"
  /\ BestKey(cur[t].uri) # NoKey
  /\ resp' = [resp EXCEPT ![t] = Made(BestKey(cur[t].uri), cur[t], logged)]
  /\ calls' = [calls EXCEPT ![cur[t].uri] = @ + 1]
  /\ pc' = [pc EXCEPT ![t] = "store"]
  /\ UNCHANGED <<cache, cur, began, logged, served, raced, proc>>

\* (*cache_query_)[uri] = response, from its first to its last access.
StoreBegins(t) ==
  /\ pc[t] = "store"
  /\ pc' = [pc EXCEPT ![t] = "storing"]
  /\ raced' = (raced \/ Storing # {})
  /\ UNCHANGED <<cache, cur, resp, began, logged, calls, served, proc>>

\* Mutant: the entry holds the response before set_response has filled it.
StoreEndsEmpty(t) ==
  /\ pc[t] = "storing"
  /\ cache' = [v \in DOMAIN cache \cup {cur[t].uri} |->
                 IF v = cur[t].uri THEN Nothing ELSE cache[v]]
  /\ pc' = [pc EXCEPT ![t] = "log"]
  /\ UNCHANGED <<cur, resp, began, logged, calls, served, raced, proc>>

\* Mutant: the cache keeps only the latest response.
StoreEndsEvicts(t) ==
  /\ pc[t] = "storing"
  /\ cache' = [v \in {cur[t].uri} |-> resp[t]]
  /\ pc' = [pc EXCEPT ![t] = "log"]
  /\ UNCHANGED <<cur, resp, began, logged, calls, served, raced, proc>>

\* Of two insertions that overlap either may be lost.
StoreEnds(t) ==
  /\ pc[t] = "storing"
  /\ LET u == cur[t].uri
         stored == [v \in DOMAIN cache \cup {u} |-> IF v = u THEN resp[t] ELSE cache[v]]
     IN  cache' \in IF Storing = {t} THEN {stored} ELSE {stored, cache}
  /\ pc' = [pc EXCEPT ![t] = "log"]
  /\ UNCHANGED <<cur, resp, began, logged, calls, served, raced, proc>>

\* log_metrics, of responses that a handler has made and of no others.
LogMetrics(t) ==
  /\ pc[t] = "log"
  /\ logged' = logged + 1
  /\ pc' = [pc EXCEPT ![t] = "done"]
  /\ UNCHANGED <<cache, cur, resp, began, calls, served, raced, proc>>

\* An access to a map that another thread is changing may also end the process.
Crash(t) ==
  /\ pc[t] \in {"lookup", "storing"}
  /\ pc[t] = "lookup" => cur[t].uri # StatusUri
  /\ Storing \ {t} # {}
  /\ proc' = "terminated"
  /\ raced' = TRUE
  /\ UNCHANGED <<cache, pc, cur, resp, began, logged, calls, served>>

Over ==
  /\ \/ proc = "terminated"
     \/ served = MaxServed /\ \A t \in Worker : pc[t] \in {"idle", "done"}
  /\ UNCHANGED vars

Process(t) ==
  \/ \E r \in Request : Arrive(t, r)
  \/ Hit(t)
  \/ Miss(t)
  \/ Reject(t)
  \/ Handle(t)
  \/ StoreBegins(t)
  \/ StoreEnds(t)
  \/ LogMetrics(t)
  \/ Crash(t)

Next ==
  \/ proc = "up" /\ \E t \in Worker : Process(t)
  \/ Over

Spec == Init /\ [][Next]_vars
-----------------------------------------------------------------------------
Keys == ToSet(Locations)
Response == {Nothing, BadReq}
              \cup {Made(k, r, n) : k \in Keys, r \in Request, n \in 0..MaxServed}
Finished(t) == pc[t] = "done"

\* The variables have their types, and what the cache holds was made by a
\* handler: it never keeps a 400 of process_req or a response not yet filled in.
TypeOK ==
  /\ DOMAIN cache \subseteq Uri
  /\ \A u \in DOMAIN cache : cache[u] \in Response \ {Nothing, BadReq}
  /\ pc \in [Worker -> {"idle", "lookup", "match", "store", "storing", "log", "done"}]
  /\ cur \in [Worker -> Request]
  /\ resp \in [Worker -> Response]
  /\ began \in [Worker -> 0..MaxServed]
  /\ logged \in 0..MaxServed
  /\ calls \in [Uri -> 0..MaxServed]
  /\ served \in 0..MaxServed
  /\ raced \in BOOLEAN
  /\ proc \in {"up", "terminated"}

\* A response that process_req returns was made for the URI of the request, by
\* the handler that the URI belongs to, also when it comes from the cache and
\* when the accesses of several threads to the cache overlap.
NoCrossTalk ==
  \A t \in Worker :
    Finished(t) /\ resp[t].code = "made" =>
      /\ resp[t].of.uri = cur[t].uri
      /\ resp[t].by = BestKey(cur[t].uri)

\* Threads that miss the same URI together all call its handler, but as long as
\* no two accesses to the cache overlapped, none of them calls it twice: a
\* handler is called for a URI at most once per thread.
OneCallPerThread ==
  ~raced => \A u \in Uri \ {StatusUri} : calls[u] <= Cardinality(Worker)

\* The page that answers "/status" shows every response that had been logged
\* when the request arrived: it is never an older page out of the cache.
StatusCurrent ==
  \A t \in Worker :
    Finished(t) /\ cur[t].uri = StatusUri /\ resp[t].code = "made" =>
      resp[t].seen >= began[t]
-----------------------------------------------------------------------------
(* The dispatch rule of README.md: the longest location that is a prefix of  *)
(* the URI; a URI may lack the final "/" of the location.                    *)
LocationsFor(uri) == {k \in Keys : IsPrefix(k, Append(uri, "/"))}

\* The location, or NoKey, that the rule gives.
ByRule(uri, key) ==
  LET keys == LocationsFor(uri)
  IN  IF keys = {} THEN key = NoKey
      ELSE key \in keys /\ \A k \in keys : Len(k) <= Len(key)

\* A location as long as the URI that differs from it in the last character.
Neighbour(uri) ==
  \E k \in Keys : Len(k) = Len(uri) /\ k # uri /\ Front(k) = Front(uri)

\* The URI starts like a location without a final "/", whose last character the
\* loop leaves out of the comparison all the same.
Slashless(uri) ==
  \E k \in Keys : Last(k) # "/" /\ IsPrefix(Front(k), uri)

\* The loop, which compares lengths and all but the last character of each
\* location, finds the location of the rule for every URI that has no location
\* as its neighbour and starts like none that lacks its final "/".  The search
\* reads only the table of locations, which is complete when the first request
\* comes and never changes: it is compared with the rule once, before that.
LongestPrefix ==
  served = 0 =>
    \A uri \in Probe : ~Neighbour(uri) /\ ~Slashless(uri) => ByRule(uri, BestKey(uri))

\* The response of an echo handler reconstructs the request it answers.
EchoReflects ==
  \A t \in Worker :
    Finished(t) /\ resp[t].code = "made" /\ resp[t].by \in Echo => resp[t].of = cur[t]
=============================================================================
