--------------------------- MODULE DispatchProofs ---------------------------
(***************************************************************************)
(* Proofs about Dispatch, for any number of threads, any requests and any  *)
(* table of locations.                                                     *)
(***************************************************************************)
EXTENDS Dispatch, Induction, FiniteSetTheorems, SequenceTheorems, TLAPS

PcSet == {"idle", "lookup", "match", "store", "storing", "log", "done"}

Shape ==
  /\ pc \in [Worker -> PcSet]
  /\ cur \in [Worker -> Request]
  /\ DOMAIN resp = Worker
  /\ began \in [Worker -> Nat]
  /\ logged \in Nat
  /\ calls \in [Uri -> Nat]
  /\ raced \in BOOLEAN

\* A response that the handler of u has made for u.
For(r, u) == r.code = "made" /\ r.of.uri = u /\ r.by = BestKey(u)

\* What the cache holds was made for its key; what a thread is about to store or
\* has stored was made for its request.
CacheInv ==
  /\ \A u \in DOMAIN cache : For(cache[u], u)
  /\ \A t \in Worker : pc[t] \in {"store", "storing", "log"} => For(resp[t], cur[t].uri)

\* The log only grows, and a status page is made after its request arrived.
StatusInv ==
  /\ \A t \in Worker : began[t] <= logged
  /\ \A t \in Worker :
       pc[t] \in {"store", "storing", "log", "done"} /\ cur[t].uri = StatusUri
         /\ resp[t].code = "made" => resp[t].seen >= began[t]

\* The threads that are about to call the handler of u, and those that have
\* called it and have not yet stored what it returned.
Seekers(u) == {t \in Worker : pc[t] = "match" /\ cur[t].uri = u}
Callers(u) == {t \in Worker : pc[t] \in {"store", "storing"} /\ cur[t].uri = u}

\* Until u is in the cache every call is one of a thread still on its way to the
\* cache; from then on only the threads that had missed u before can add a call.
CallBound(u) ==
  /\ u \notin DOMAIN cache => calls[u] = Cardinality(Callers(u))
  /\ u \in DOMAIN cache => calls[u] + Cardinality(Seekers(u)) <= Cardinality(Worker)

CallInv ==
  ~raced =>
    /\ \A t, v \in Storing : t = v
    /\ \A u \in Uri \ {StatusUri} : CallBound(u)
-----------------------------------------------------------------------------
\* The initial state satisfies the invariants: the cache is empty, no thread has
\* a request and no handler has been called.
LEMMA InitInv == Init => Shape /\ CacheInv /\ NoCrossTalk /\ StatusInv /\ CallInv
<1> SUFFICES ASSUME Init PROVE Shape /\ CacheInv /\ NoCrossTalk /\ StatusInv /\ CallInv
  OBVIOUS
<1>1. Shape
  BY DispatchAssumption DEF Init, Shape, PcSet, Nothing
<1>2. CacheInv /\ NoCrossTalk /\ StatusInv
  BY DEF Init, CacheInv, NoCrossTalk, StatusInv, Finished
<1>3. ASSUME NEW u \in Uri PROVE CallBound(u)
  <2>1. Callers(u) = {} /\ u \notin DOMAIN cache /\ calls[u] = 0
    BY DEF Init, Callers
  <2> QED
    BY <2>1, FS_EmptySet DEF CallBound
<1>4. Storing = {}
  BY DEF Init, Storing
<1> QED
  BY <1>1, <1>2, <1>3, <1>4 DEF CallInv

\* Every step keeps the types.
LEMMA ShapeStep == Shape /\ [Next]_vars => Shape'
<1> SUFFICES ASSUME Shape, [Next]_vars PROVE Shape'
  OBVIOUS
<1> USE DEF Shape, PcSet, Uri
<1>1. ASSUME NEW t \in Worker, Process(t) PROVE Shape'
  <2>1. ASSUME NEW r \in Request, Arrive(t, r) PROVE Shape'
    BY <2>1 DEF Arrive
  <2>2. CASE Hit(t)
    BY <2>2 DEF Hit
  <2>3. CASE Miss(t)
    BY <2>3 DEF Miss
  <2>4. CASE Reject(t)
    BY <2>4 DEF Reject
  <2>5. CASE Handle(t)
    BY <2>5 DEF Handle
  <2>6. CASE StoreBegins(t)
    BY <2>6 DEF StoreBegins
  <2>7. CASE StoreEnds(t)
    BY <2>7 DEF StoreEnds
  <2>8. CASE LogMetrics(t)
    BY <2>8 DEF LogMetrics
  <2>9. CASE Crash(t)
    BY <2>9 DEF Crash
  <2> QED
    BY <1>1, <2>1, <2>2, <2>3, <2>4, <2>5, <2>6, <2>7, <2>8, <2>9 DEF Process
<1>2. CASE Over \/ UNCHANGED vars
  BY <1>2 DEF Over, vars
<1> QED
  BY <1>1, <1>2 DEF Next

\* Every step keeps the cache right: a store writes what was made for its key,
\* also when it overlaps another one.
LEMMA CacheStep == Shape /\ CacheInv /\ [Next]_vars => CacheInv'
<1> SUFFICES ASSUME Shape, CacheInv, [Next]_vars PROVE CacheInv'
  OBVIOUS
<1> USE DEF Shape, PcSet, CacheInv, For
<1>1. ASSUME NEW t \in Worker, Process(t) PROVE CacheInv'
  <2>1. ASSUME NEW r \in Request, Arrive(t, r) PROVE CacheInv'
    BY <2>1 DEF Arrive
  <2>2. CASE Hit(t)
    BY <2>2 DEF Hit
  <2>3. CASE Miss(t)
    BY <2>3 DEF Miss
  <2>4. CASE Reject(t)
    BY <2>4 DEF Reject
  <2>5. CASE Handle(t)
    BY <2>5 DEF Handle, Made
  <2>6. CASE StoreBegins(t)
    BY <2>6 DEF StoreBegins
  <2>7. CASE StoreEnds(t)
    BY <2>7 DEF StoreEnds
  <2>8. CASE LogMetrics(t)
    BY <2>8 DEF LogMetrics
  <2>9. CASE Crash(t)
    BY <2>9 DEF Crash
  <2> QED
    BY <1>1, <2>1, <2>2, <2>3, <2>4, <2>5, <2>6, <2>7, <2>8, <2>9 DEF Process
<1>2. CASE Over \/ UNCHANGED vars
  BY <1>2 DEF Over, vars
<1> QED
  BY <1>1, <1>2 DEF Next

\* Every step keeps NoCrossTalk: a hit takes each part of its response from the
\* cache or from a store to the same key, a miss from the handler.
LEMMA CrossTalkStep == Shape /\ CacheInv /\ NoCrossTalk /\ [Next]_vars => NoCrossTalk'
<1> SUFFICES ASSUME Shape, CacheInv, NoCrossTalk, [Next]_vars PROVE NoCrossTalk'
  OBVIOUS
<1> USE DEF Shape, PcSet, CacheInv, For, NoCrossTalk, Finished
<1>1. ASSUME NEW t \in Worker, Process(t) PROVE NoCrossTalk'
  <2>1. ASSUME NEW r \in Request, Arrive(t, r) PROVE NoCrossTalk'
    BY <2>1 DEF Arrive
  <2>2. CASE Hit(t)
    <3>1. PICK a, b \in {cache[cur[t].uri]}
                          \cup {resp[w] : w \in {v \in Storing : cur[v].uri = cur[t].uri}} :
                 resp' = [resp EXCEPT ![t] = Made(a.by, a.of, b.seen)]
      BY <2>2 DEF Hit
    <3>2. For(a, cur[t].uri)
      BY <2>2 DEF Hit, Storing
    <3> QED
      BY <2>2, <3>1, <3>2 DEF Hit, Made
  <2>3. CASE Miss(t)
    BY <2>3 DEF Miss
  <2>4. CASE Reject(t)
    BY <2>4 DEF Reject, BadReq
  <2>5. CASE Handle(t)
    BY <2>5 DEF Handle, Made
  <2>6. CASE StoreBegins(t)
    BY <2>6 DEF StoreBegins
  <2>7. CASE StoreEnds(t)
    BY <2>7 DEF StoreEnds
  <2>8. CASE LogMetrics(t)
    BY <2>8 DEF LogMetrics
  <2>9. CASE Crash(t)
    BY <2>9 DEF Crash
  <2> QED
    BY <1>1, <2>1, <2>2, <2>3, <2>4, <2>5, <2>6, <2>7, <2>8, <2>9 DEF Process
<1>2. CASE Over \/ UNCHANGED vars
  BY <1>2 DEF Over, vars
<1> QED
  BY <1>1, <1>2 DEF Next

\* Every step keeps StatusInv: "/status" is never looked up in the cache.
LEMMA StatusStep == Shape /\ StatusInv /\ [Next]_vars => StatusInv'
<1> SUFFICES ASSUME Shape, StatusInv, [Next]_vars PROVE StatusInv'
  OBVIOUS
<1> USE DEF Shape, PcSet, StatusInv
<1>1. ASSUME NEW t \in Worker, Process(t) PROVE StatusInv'
  <2>1. ASSUME NEW r \in Request, Arrive(t, r) PROVE StatusInv'
    BY <2>1 DEF Arrive, Nothing
  <2>2. CASE Hit(t)
    BY <2>2 DEF Hit
  <2>3. CASE Miss(t)
    BY <2>3 DEF Miss
  <2>4. CASE Reject(t)
    BY <2>4 DEF Reject, BadReq
  <2>5. CASE Handle(t)
    BY <2>5 DEF Handle, Made
  <2>6. CASE StoreBegins(t)
    BY <2>6 DEF StoreBegins
  <2>7. CASE StoreEnds(t)
    BY <2>7 DEF StoreEnds
  <2>8. CASE LogMetrics(t)
    BY <2>8 DEF LogMetrics
  <2>9. CASE Crash(t)
    BY <2>9 DEF Crash
  <2> QED
    BY <1>1, <2>1, <2>2, <2>3, <2>4, <2>5, <2>6, <2>7, <2>8, <2>9 DEF Process
<1>2. CASE Over \/ UNCHANGED vars
  BY <1>2 DEF Over, vars
<1> QED
  BY <1>1, <1>2 DEF Next

\* The sets of CallBound are finite, and a thread is in at most one of them.
LEMMA Counting ==
  ASSUME NEW u
  PROVE  /\ IsFiniteSet(Seekers(u)) /\ Cardinality(Seekers(u)) \in Nat
         /\ IsFiniteSet(Callers(u)) /\ Cardinality(Callers(u)) \in Nat
         /\ Cardinality(Callers(u)) + Cardinality(Seekers(u)) <= Cardinality(Worker)
         /\ Cardinality(Worker) \in Nat
<1>1. Seekers(u) \subseteq Worker /\ Callers(u) \subseteq Worker
  BY DEF Seekers, Callers
<1>2. IsFiniteSet(Seekers(u)) /\ IsFiniteSet(Callers(u)) /\ IsFiniteSet(Worker)
  BY <1>1, DispatchAssumption, FS_Subset
<1>3. Cardinality(Seekers(u)) \in Nat /\ Cardinality(Callers(u)) \in Nat
        /\ Cardinality(Worker) \in Nat
  BY <1>2, FS_CardinalityType
<1>4. Callers(u) \cap Seekers(u) = {}
  BY DEF Seekers, Callers
<1>5. Cardinality(Callers(u) \cup Seekers(u)) = Cardinality(Callers(u)) + Cardinality(Seekers(u))
  <2>1. Cardinality(Callers(u) \cup Seekers(u))
          = Cardinality(Callers(u)) + Cardinality(Seekers(u)) - Cardinality(Callers(u) \cap Seekers(u))
    BY <1>2, FS_Union
  <2> QED
    BY <2>1, <1>3, <1>4, FS_EmptySet
<1>6. Cardinality(Callers(u) \cup Seekers(u)) <= Cardinality(Worker)
  <2>1. Callers(u) \cup Seekers(u) \subseteq Worker
    BY <1>1
  <2> QED
    BY <2>1, <1>2, FS_Subset
<1> QED
  BY <1>2, <1>3, <1>5, <1>6

\* Every step keeps CallInv, as long as it is not a race: no call is made for a
\* URI in the cache but by a thread that had missed it before it came there.
LEMMA CallStep == Shape /\ CallInv /\ [Next]_vars => CallInv'
<1> SUFFICES ASSUME Shape, CallInv, [Next]_vars, ~raced' PROVE CallInv'
  BY DEF CallInv
<1> USE DEF Shape, PcSet
<1>1. ASSUME NEW t \in Worker, Process(t) PROVE CallInv'
  <2> DEFINE Same(u) == Callers(u)' = Callers(u) /\ Seekers(u)' = Seekers(u)
  <2>1. ASSUME NEW r \in Request, Arrive(t, r) PROVE CallInv'
    <3>1. ~raced /\ Storing' = Storing
      BY <2>1 DEF Arrive, Storing
    <3>2. ASSUME NEW u PROVE Same(u)
      BY <2>1 DEF Arrive, Callers, Seekers
    <3> QED
      BY <2>1, <3>1, <3>2 DEF Arrive, CallInv, CallBound
  <2>2. CASE Hit(t)
    <3>1. ~raced /\ Storing' = Storing
      BY <2>2 DEF Hit, Storing
    <3>2. ASSUME NEW u PROVE Same(u)
      BY <2>2 DEF Hit, Callers, Seekers
    <3> QED
      BY <2>2, <3>1, <3>2 DEF Hit, CallInv, CallBound
  <2>3. CASE Miss(t)
    <3>1. ~raced /\ Storing' = Storing
      BY <2>3 DEF Miss, Storing
    <3>2. ASSUME NEW u \in Uri \ {StatusUri} PROVE CallBound(u)'
      <4>1. Callers(u)' = Callers(u)
        BY <2>3 DEF Miss, Callers
      <4>2. u \in DOMAIN cache => Seekers(u)' = Seekers(u)
        BY <2>3 DEF Miss, Seekers
      <4> QED
        BY <2>3, <3>1, <4>1, <4>2 DEF Miss, CallInv, CallBound
    <3> QED
      BY <3>1, <3>2 DEF CallInv
  <2>4. CASE Reject(t)
    <3>1. ~raced /\ Storing' = Storing
      BY <2>4 DEF Reject, Storing
    <3>2. ASSUME NEW u \in Uri \ {StatusUri} PROVE CallBound(u)'
      <4>1. Callers(u)' = Callers(u) /\ Seekers(u)' \subseteq Seekers(u)
        BY <2>4 DEF Reject, Callers, Seekers
      <4>2. Cardinality(Seekers(u)') <= Cardinality(Seekers(u)) /\ Cardinality(Seekers(u)') \in Nat
        BY <4>1, Counting, FS_Subset, FS_CardinalityType
      <4> QED
        BY <2>4, <3>1, <4>1, <4>2, Counting DEF Reject, CallInv, CallBound
    <3> QED
      BY <3>1, <3>2 DEF CallInv
  <2>5. CASE Handle(t)
    <3>1. ~raced /\ Storing' = Storing
      BY <2>5 DEF Handle, Storing
    <3>2. ASSUME NEW u \in Uri \ {StatusUri}, u # cur[t].uri PROVE CallBound(u)'
      <4>1. Same(u) /\ calls'[u] = calls[u]
        BY <2>5, <3>2 DEF Handle, Callers, Seekers
      <4> QED
        BY <2>5, <3>1, <4>1 DEF Handle, CallInv, CallBound
    <3>3. ASSUME NEW u \in Uri \ {StatusUri}, u = cur[t].uri PROVE CallBound(u)'
      <4>1. calls'[u] = calls[u] + 1
        BY <2>5, <3>3 DEF Handle
      <4>2. t \notin Callers(u) /\ Callers(u)' = Callers(u) \cup {t}
        BY <2>5, <3>3 DEF Handle, Callers
      <4>3. Cardinality(Callers(u)') = Cardinality(Callers(u)) + 1
        BY <4>2, Counting, FS_AddElement
      <4>4. t \in Seekers(u) /\ Seekers(u)' = Seekers(u) \ {t}
        BY <2>5, <3>3 DEF Handle, Seekers
      <4>5. Cardinality(Seekers(u) \ {t}) = Cardinality(Seekers(u)) - 1
        <5>1. IsFiniteSet(Seekers(u))
          BY Counting
        <5> QED
          BY <4>4, <5>1, FS_RemoveElement
      <4> QED
        BY <2>5, <3>1, <4>1, <4>3, <4>4, <4>5, Counting DEF Handle, CallInv, CallBound
    <3> QED
      BY <3>1, <3>2, <3>3 DEF CallInv
  <2>6. CASE StoreBegins(t)
    <3>1. ~raced /\ Storing = {} /\ Storing' = {t}
      BY <2>6 DEF StoreBegins, Storing
    <3>2. ASSUME NEW u PROVE Same(u)
      BY <2>6 DEF StoreBegins, Callers, Seekers
    <3> QED
      BY <2>6, <3>1, <3>2 DEF StoreBegins, CallInv, CallBound
  <2>7. CASE StoreEnds(t)
    <3>1. ~raced /\ Storing = {t} /\ Storing' = {}
      BY <2>7 DEF StoreEnds, Storing, CallInv
    <3>2. DOMAIN cache' = DOMAIN cache \cup {cur[t].uri}
      BY <2>7, <3>1 DEF StoreEnds
    <3>3. ASSUME NEW u \in Uri \ {StatusUri} PROVE CallBound(u)'
      <4>1. Seekers(u)' = Seekers(u)
        BY <2>7 DEF StoreEnds, Seekers
      <4>2. u # cur[t].uri => Callers(u)' = Callers(u)
        BY <2>7 DEF StoreEnds, Callers
      <4>3. calls[u] + Cardinality(Seekers(u)) <= Cardinality(Worker) \/ u \notin DOMAIN cache
        BY <3>1 DEF CallInv, CallBound
      <4> QED
        BY <2>7, <3>1, <3>2, <4>1, <4>2, <4>3, Counting DEF StoreEnds, CallInv, CallBound
    <3> QED
      BY <3>1, <3>3 DEF CallInv
  <2>8. CASE LogMetrics(t)
    <3>1. ~raced /\ Storing' = Storing
      BY <2>8 DEF LogMetrics, Storing
    <3>2. ASSUME NEW u PROVE Same(u)
      BY <2>8 DEF LogMetrics, Callers, Seekers
    <3> QED
      BY <2>8, <3>1, <3>2 DEF LogMetrics, CallInv, CallBound
  <2>9. CASE Crash(t)
    BY <2>9 DEF Crash
  <2> QED
    BY <1>1, <2>1, <2>2, <2>3, <2>4, <2>5, <2>6, <2>7, <2>8, <2>9 DEF Process
<1>2. CASE Over \/ UNCHANGED vars
  <2>1. Storing' = Storing /\ UNCHANGED <<cache, calls, raced>>
    BY <1>2 DEF Over, vars, Storing
  <2>2. ASSUME NEW u PROVE Callers(u)' = Callers(u) /\ Seekers(u)' = Seekers(u)
    BY <1>2 DEF Over, vars, Callers, Seekers
  <2> QED
    BY <2>1, <2>2 DEF CallInv, CallBound
<1> QED
  BY <1>1, <1>2 DEF Next
-----------------------------------------------------------------------------
\* The characters of a URI, with the one that the rule appends.
Char == STRING \cup {"/"}
Text == Seq(Char)

\* Locations and the URIs of requests are texts.
LEMMA Texts ==
  /\ Seq(STRING) \subseteq Text
  /\ Len(Locations) \in Nat /\ DOMAIN Locations = 1..Len(Locations)
  /\ \A n \in 1..Len(Locations) :
       Locations[n] \in Text /\ Locations[n] # NoKey /\ Len(Locations[n]) \in Nat /\ Len(Locations[n]) > 0
<1>1. Seq(STRING) \subseteq Text
  BY SeqMonotonic DEF Text, Char
<1>2. Len(Locations) \in Nat /\ DOMAIN Locations = 1..Len(Locations)
  BY DispatchAssumption
<1>3. ASSUME NEW n \in 1..Len(Locations)
      PROVE  Locations[n] \in Text /\ Locations[n] # NoKey /\ Len(Locations[n]) \in Nat /\ Len(Locations[n]) > 0
  <2>1. Locations[n] \in Seq(STRING) \ {<<>>}
    BY <1>2, DispatchAssumption
  <2>2. Len(Locations[n]) \in Nat /\ Len(Locations[n]) # 0
    BY <2>1, EmptySeq, LenProperties
  <2> QED
    BY <1>1, <2>1, <2>2 DEF NoKey
<1> QED
  BY <1>1, <1>2, <1>3

\* After n turns of the loop of process_req the key is one of the first n that match,
\* and no shorter than any of them; it is empty if none matches.
LongestOf(uri, n, key) ==
  LET found == {Locations[i] : i \in {j \in 1..n : Matches(uri, Locations[j])}}
  IN  /\ key \in found \cup {NoKey}
      /\ \A k \in found : Len(k) <= Len(key)

\* The loop over location_handlers_ ends with a longest key that matches.
LEMMA BestKeyIsLongest ==
  ASSUME NEW uri
  PROVE  LongestOf(uri, Len(Locations), BestKey(uri))
<1> DEFINE N == Len(Locations)
           turn(n, b) == IF Matches(uri, Locations[n]) /\ Len(b) < Len(Locations[n])
                         THEN Locations[n] ELSE b
           body(f) == [n \in 0..N |-> IF n = 0 THEN NoKey
                                      ELSE IF Matches(uri, Locations[n]) /\ Len(f[n - 1]) < Len(Locations[n])
                                           THEN Locations[n] ELSE f[n - 1]]
           best == CHOOSE f : f = body(f)
<1>0. N \in Nat /\ NoKey \in Text
  BY Texts DEF NoKey, Text
<1>1. N \in Nat /\ NoKey \in Text /\ \A n \in 1..N : Locations[n] \in Text /\ Len(Locations[n]) > 0
  BY <1>0, Texts
<1>2. BestKey(uri) = best[N]
  BY DEF BestKey
<1>3. best = body(best)
  <2> DEFINE G == [n \in 1..N |-> [b \in Text |-> turn(n, b)]]
  <2>1. G \in [1..N -> [Text -> Text]]
    BY <1>1
  <2> HIDE DEF G, N
  <2>9. PICK f : IsLoop(f, N, Text, NoKey, G)
    BY <1>0, <2>1, LoopExists
  <2>8. f \in [0..N -> Text] /\ f[0] = NoKey /\ \A n \in 1..N : f[n] = G[n][f[n - 1]]
    BY <2>9 DEF IsLoop
  <2>2. ASSUME NEW n \in 1..N PROVE f[n] = turn(n, f[n - 1])
    <3>1. f[n - 1] \in Text
      BY <1>0, <2>8
    <3> QED
      BY <2>8, <3>1 DEF G
  <2> USE DEF N
  <2>3. f = body(f)
    <3>1. ASSUME NEW n \in 0..N PROVE f[n] = body(f)[n]
      <4>1. CASE n = 0
        BY <4>1, <2>8
      <4>2. CASE n # 0
        <5>1. n \in 1..N
          BY <4>2
        <5> QED
          BY <4>2, <5>1, <2>2
      <4> QED
        BY <4>1, <4>2
    <3> QED
      BY <2>8, <3>1
  <2> QED
    BY <2>3
<1> HIDE DEF best
<1> DEFINE S == {n \in 0..N : best[n] \in Text /\ LongestOf(uri, n, best[n])}
<1>4. 0 \in S
  <2>1. best[0] = NoKey
    BY <1>1, <1>3
  <2> QED
    BY <1>1, <2>1 DEF LongestOf
<1>5. ASSUME NEW n \in 1..N, n - 1 \in S PROVE n \in S
  <2>1. best[n] = turn(n, best[n - 1])
    <3>1. n \in 0..N /\ n # 0
      OBVIOUS
    <3>2. best[n] = body(best)[n]
      BY <1>3
    <3> HIDE DEF N
    <3> QED
      BY <3>1, <3>2
  <2>2. best[n - 1] \in Text /\ LongestOf(uri, n - 1, best[n - 1])
    BY <1>5
  <2>3. {j \in 1..n : Matches(uri, Locations[j])}
          = {j \in 1..(n - 1) : Matches(uri, Locations[j])}
              \cup {j \in {n} : Matches(uri, Locations[j])}
    OBVIOUS
  <2>4. best[n] \in Text
    BY <1>1, <2>1, <2>2
  <2>5. Len(best[n]) \in Nat /\ Len(best[n - 1]) \in Nat /\ Len(best[n - 1]) <= Len(best[n])
        /\ (Matches(uri, Locations[n]) => Len(Locations[n]) <= Len(best[n]))
    BY <1>1, <2>1, <2>2, <2>4 DEF Text
  <2>6. \A k \in {Locations[i] : i \in {j \in 1..(n - 1) : Matches(uri, Locations[j])}} : Len(k) \in Nat
    BY <1>1 DEF Text
  <2> HIDE DEF N
  <2>7. best[n] \in {Locations[i] : i \in {j \in 1..n : Matches(uri, Locations[j])}} \cup {NoKey}
    BY <2>1, <2>2, <2>3 DEF LongestOf
  <2>8. \A k \in {Locations[i] : i \in {j \in 1..n : Matches(uri, Locations[j])}} : Len(k) <= Len(best[n])
    BY <2>2, <2>3, <2>5, <2>6 DEF LongestOf
  <2> QED
    BY <2>4, <2>7, <2>8 DEF LongestOf
<1> HIDE DEF S, N
<1>6. 0..N \subseteq S
  BY <1>1, <1>4, <1>5, BoundedInduction
<1>7. N \in S
  BY <1>1, <1>6
<1> QED
  BY <1>2, <1>7 DEF S, N

\* Prefixes of texts are the same if they have the same length and characters, which
\* is what compare() of std::string tests.
LEMMA SameFronts ==
  ASSUME NEW s \in Text, NEW t \in Text, NEW n \in 0..Len(s), NEW m \in 0..Len(t)
  PROVE  SubSeq(s, 1, n) = SubSeq(t, 1, m) <=> n = m /\ \A i \in 1..n : s[i] = t[i]
<1>1. SubSeq(s, 1, n) = [i \in 1..n |-> s[i]] /\ SubSeq(t, 1, m) = [i \in 1..m |-> t[i]]
  BY DEF Text
<1>2. Len(SubSeq(s, 1, n)) = n /\ Len(SubSeq(t, 1, m)) = m
  BY DEF Text
<1>3. ASSUME SubSeq(s, 1, n) = SubSeq(t, 1, m) PROVE n = m /\ \A i \in 1..n : s[i] = t[i]
  <2>1. n = m
    BY <1>2, <1>3
  <2>2. ASSUME NEW i \in 1..n PROVE s[i] = t[i]
    <3>1. SubSeq(s, 1, n)[i] = s[i] /\ SubSeq(t, 1, m)[i] = t[i]
      BY <1>1, <2>1
    <3> QED
      BY <1>3, <3>1
  <2> QED
    BY <2>1, <2>2
<1>4. ASSUME n = m, \A i \in 1..n : s[i] = t[i] PROVE SubSeq(s, 1, n) = SubSeq(t, 1, m)
  BY <1>1, <1>4
<1> QED
  BY <1>3, <1>4

\* For a URI that is no neighbour of a location and starts like none without its
\* final "/", the tests of the loop are those of the rule.
LEMMA MatchIsRule ==
  ASSUME NEW uri \in Text, ~Neighbour(uri), ~Slashless(uri), NEW k \in Keys
  PROVE  Matches(uri, k) <=> k \in LocationsFor(uri)
<1> DEFINE U == Len(uri)
           K == Len(k)
           Agree(n) == \A i \in 1..n : uri[i] = k[i]
<1>1. k \in Text /\ U \in Nat /\ K \in Nat /\ K >= 1 /\ uri \in Seq(Char) /\ k \in Seq(Char)
  BY Texts DEF Keys, ToSet, Text
<1>2. Append(uri, "/") \in Text /\ Len(Append(uri, "/")) = U + 1
        /\ \A i \in 1..(U + 1) : Append(uri, "/")[i] = IF i = U + 1 THEN "/" ELSE uri[i]
  <2> DEFINE a == Append(uri, "/")
  <2>0. "/" \in Char
    BY DEF Char
  <2>1. a \in Seq(Char) /\ Len(a) = U + 1
    BY <1>1, <2>0, AppendProperties
  <2>2. a[U + 1] = "/"
    BY <1>1
  <2>3. \A i \in 1..U : a[i] = uri[i]
    BY <1>1
  <2> HIDE DEF a
  <2>4. \A i \in 1..(U + 1) : a[i] = IF i = U + 1 THEN "/" ELSE uri[i]
    BY <1>1, <2>2, <2>3
  <2> QED
    BY <2>1, <2>4 DEF a, Text
<1>3. k \in LocationsFor(uri) <=>
        K <= U + 1 /\ \A i \in 1..K : k[i] = IF i = U + 1 THEN "/" ELSE uri[i]
  <2>1. K <= U + 1 => (SubSeq(k, 1, K) = SubSeq(Append(uri, "/"), 1, K)
                       <=> \A i \in 1..K : k[i] = Append(uri, "/")[i])
    BY <1>1, <1>2, SameFronts
  <2>2. k \in LocationsFor(uri) <=> K <= U + 1 /\ SubSeq(k, 1, K) = SubSeq(Append(uri, "/"), 1, K)
    BY <1>2 DEF LocationsFor, IsPrefix
  <2> QED
    BY <1>1, <1>2, <2>1, <2>2
<1>4. SameFront(uri, k) <=> K - 1 <= U /\ Agree(K - 1)
  <2>1. CASE K - 1 < U
    <3>1. K - 1 \in 0..U /\ K - 1 \in 0..K
      BY <1>1, <2>1
    <3>2. SameFront(uri, k) <=> SubSeq(uri, 1, K - 1) = SubSeq(k, 1, K - 1)
      BY <2>1 DEF SameFront
    <3> QED
      BY <1>1, <2>1, <3>1, <3>2, SameFronts
  <2>2. CASE ~(K - 1 < U)
    <3>1. U \in 0..U /\ K - 1 \in 0..K
      BY <1>1, <2>2
    <3>2. SameFront(uri, k) <=> SubSeq(uri, 1, U) = SubSeq(k, 1, K - 1)
      BY <2>2 DEF SameFront
    <3>3. SameFront(uri, k) <=> U = K - 1 /\ Agree(U)
      BY <1>1, <3>1, <3>2, SameFronts
    <3> QED
      BY <1>1, <2>2, <3>3
  <2> QED
    BY <2>1, <2>2
<1>5. K - 1 <= U /\ Agree(K - 1) => k[K] = "/"
  <2> SUFFICES ASSUME K - 1 <= U, Agree(K - 1), k[K] # "/" PROVE FALSE
    OBVIOUS
  <2>1. Front(k) = SubSeq(k, 1, K - 1) /\ Front(k) \in Text /\ Len(Front(k)) = K - 1
          /\ \A i \in 1..(K - 1) : Front(k)[i] = k[i]
    <3>1. Front(k) = SubSeq(k, 1, K - 1)
      BY DEF Front
    <3>2. SubSeq(k, 1, K - 1) \in Seq(Char) /\ Len(SubSeq(k, 1, K - 1)) = K - 1
      <4>1. 1 \in 1..(K + 1) /\ K - 1 \in (1 - 1)..K /\ (K - 1) - 1 + 1 = K - 1
        BY <1>1
      <4> QED
        BY <1>1, <4>1, SubSeqProperties
    <3>3. \A i \in 1..(K - 1) : SubSeq(k, 1, K - 1)[i] = k[i]
      BY <1>1
    <3> QED
      BY <3>1, <3>2, <3>3 DEF Text
  <2>2. SubSeq(Front(k), 1, K - 1) = SubSeq(uri, 1, K - 1)
    <3>1. K - 1 \in 0..Len(Front(k)) /\ K - 1 \in 0..Len(uri)
      BY <1>1, <2>1
    <3> QED
      BY <1>1, <2>1, <3>1, SameFronts
  <2>3. IsPrefix(Front(k), uri) /\ Last(k) # "/"
    BY <2>1, <2>2 DEF IsPrefix, Last
  <2> QED
    BY <2>3 DEF Slashless
<1>6. K = U /\ Agree(K - 1) => k = uri
  <2> SUFFICES ASSUME K = U, Agree(K - 1), k # uri PROVE FALSE
    OBVIOUS
  <2>1. K - 1 \in 0..U /\ K - 1 \in 0..K
    BY <1>1
  <2>2. SubSeq(k, 1, K - 1) = SubSeq(uri, 1, K - 1)
    BY <1>1, <2>1, SameFronts
  <2> QED
    BY <2>2 DEF Neighbour, Front
<1>7. Skips(uri, k) <=> U > K /\ uri[K] # "/"
  BY DEF Skips
<1> HIDE DEF U, K
<1>8. ASSUME Matches(uri, k) PROVE k \in LocationsFor(uri)
  <2>1. K - 1 <= U /\ Agree(K - 1) /\ ~(U > K /\ uri[K] # "/") /\ k[K] = "/"
    BY <1>4, <1>5, <1>7, <1>8 DEF Matches
  <2>2. ASSUME NEW i \in 1..K PROVE k[i] = IF i = U + 1 THEN "/" ELSE uri[i]
    <3>1. CASE i = K
      BY <1>1, <1>6, <2>1, <3>1
    <3>2. CASE i # K
      BY <1>1, <2>1, <3>2
    <3> QED
      BY <3>1, <3>2
  <2> QED
    BY <1>1, <1>3, <2>1, <2>2
<1>9. ASSUME k \in LocationsFor(uri) PROVE Matches(uri, k)
  <2>1. K <= U + 1 /\ \A i \in 1..K : k[i] = IF i = U + 1 THEN "/" ELSE uri[i]
    BY <1>3, <1>9
  <2>2. K - 1 <= U /\ Agree(K - 1)
    BY <1>1, <2>1
  <2>3. ~(U > K /\ uri[K] # "/")
    BY <1>1, <1>5, <2>1, <2>2
  <2> QED
    BY <1>4, <1>7, <2>2, <2>3 DEF Matches
<1> QED
  BY <1>8, <1>9

\* For any table of locations and any URI that has no location as its neighbour and
\* starts like none without its final "/", the loop of process_req finds the location
\* that the rule of README.md gives.
THEOREM SearchFollowsRule ==
  ASSUME NEW uri \in Seq(STRING), ~Neighbour(uri), ~Slashless(uri)
  PROVE  ByRule(uri, BestKey(uri))
<1>1. LongestOf(uri, Len(Locations), BestKey(uri))
  BY BestKeyIsLongest
<1>2. {Locations[i] : i \in {j \in 1..Len(Locations) : Matches(uri, Locations[j])}} = LocationsFor(uri)
  <2>1. DOMAIN Locations = 1..Len(Locations)
    BY Texts
  <2>2. Keys = {Locations[i] : i \in 1..Len(Locations)}
    BY <2>1 DEF Keys, ToSet
  <2>3. \A k \in Keys : Matches(uri, k) <=> k \in LocationsFor(uri)
    BY MatchIsRule, Texts
  <2>4. LocationsFor(uri) \subseteq Keys
    BY DEF LocationsFor
  <2> QED
    BY <2>2, <2>3, <2>4
<1>3. BestKey(uri) \in LocationsFor(uri) \cup {NoKey} /\ \A k \in LocationsFor(uri) : Len(k) <= Len(BestKey(uri))
  BY <1>1, <1>2 DEF LongestOf
<1>4. \A k \in LocationsFor(uri) : Len(k) \in Nat /\ Len(k) > 0
  BY Texts DEF LocationsFor, Keys, ToSet
<1>5. LocationsFor(uri) # {} => BestKey(uri) # NoKey
  BY <1>3, <1>4 DEF NoKey
<1> QED
  BY <1>3, <1>5 DEF ByRule
-----------------------------------------------------------------------------
\* The threads that have a request and have not answered it, and those of them that
\* have not called a handler.
Busy == {t \in Worker : pc[t] \in {"lookup", "match", "store", "storing", "log"}}
Asking == {t \in Worker : pc[t] \in {"lookup", "match"}}

\* A request is logged once and makes at most one call, so neither count can pass
\* the number of requests, and the threads on their way there are still to come.
CountInv ==
  /\ served \in 0..MaxServed
  /\ logged + Cardinality(Busy) <= served
  /\ \A u \in Uri : calls[u] + Cardinality(Asking) <= served
  /\ \A t \in Worker : began[t] <= MaxServed

\* What the cache holds and what is on its way there was made by a handler.
MadeResponse == {Made(k, r, n) : k \in Keys, r \in Request, n \in 0..MaxServed}
ResponseInv ==
  /\ DOMAIN cache \subseteq Uri
  /\ \A u \in DOMAIN cache : cache[u] \in MadeResponse
  /\ \A t \in Worker : resp[t] \in MadeResponse \cup {Nothing, BadReq}
  /\ \A t \in Worker : pc[t] \in {"store", "storing", "log"} => resp[t] \in MadeResponse
  /\ resp = [t \in Worker |-> resp[t]]
  /\ proc \in {"up", "terminated"}

\* The sets of CountInv are finite.
LEMMA AskCounting ==
  /\ IsFiniteSet(Busy) /\ Cardinality(Busy) \in Nat
  /\ IsFiniteSet(Asking) /\ Cardinality(Asking) \in Nat
<1>1. Busy \subseteq Worker /\ Asking \subseteq Worker
  BY DEF Busy, Asking
<1> QED
  BY <1>1, DispatchAssumption, FS_Subset, FS_CardinalityType

\* A key that the search finds is one of the table.
LEMMA FoundKey == ASSUME NEW uri, BestKey(uri) # NoKey PROVE BestKey(uri) \in Keys
<1>1. LongestOf(uri, Len(Locations), BestKey(uri))
  BY BestKeyIsLongest
<1> QED
  BY <1>1, Texts DEF LongestOf, Keys, ToSet

\* The initial state has served, logged and called nothing.
LEMMA TypeInit == Init => CountInv /\ ResponseInv
<1> SUFFICES ASSUME Init PROVE CountInv /\ ResponseInv
  OBVIOUS
<1>1. Busy = {} /\ Asking = {}
  BY DEF Init, Busy, Asking
<1>2. CountInv
  BY <1>1, DispatchAssumption, FS_EmptySet DEF Init, CountInv
<1> QED
  BY <1>2, DispatchAssumption DEF Init, ResponseInv

\* Every step keeps ResponseInv: a store is reached only with what a handler made,
\* and a hit puts together parts of such responses.
LEMMA ResponseStep == Shape /\ CountInv /\ ResponseInv /\ [Next]_vars => ResponseInv'
<1> SUFFICES ASSUME Shape, CountInv, ResponseInv, [Next]_vars PROVE ResponseInv'
  OBVIOUS
<1> USE DEF Shape, PcSet, ResponseInv
<1>1. ASSUME NEW t \in Worker, Process(t) PROVE ResponseInv'
  <2>1. ASSUME NEW r \in Request, Arrive(t, r) PROVE ResponseInv'
    BY <2>1 DEF Arrive
  <2>2. CASE Hit(t)
    <3>1. PICK a, b \in {cache[cur[t].uri]}
                          \cup {resp[w] : w \in {v \in Storing : cur[v].uri = cur[t].uri}} :
                 resp' = [resp EXCEPT ![t] = Made(a.by, a.of, b.seen)]
      BY <2>2 DEF Hit
    <3>2. a \in MadeResponse /\ b \in MadeResponse
      BY <2>2 DEF Hit, Storing
    <3>3. Made(a.by, a.of, b.seen) \in MadeResponse
      BY <3>2 DEF MadeResponse, Made
    <3> QED
      BY <2>2, <3>1, <3>3 DEF Hit
  <2>3. CASE Miss(t)
    BY <2>3 DEF Miss
  <2>4. CASE Reject(t)
    BY <2>4 DEF Reject
  <2>5. CASE Handle(t)
    <3>1. BestKey(cur[t].uri) \in Keys
      BY <2>5, FoundKey DEF Handle
    <3>2. logged \in 0..MaxServed
      BY AskCounting, DispatchAssumption DEF CountInv
    <3>3. Made(BestKey(cur[t].uri), cur[t], logged) \in MadeResponse
      BY <3>1, <3>2 DEF MadeResponse
    <3> QED
      BY <2>5, <3>3 DEF Handle
  <2>6. CASE StoreBegins(t)
    BY <2>6 DEF StoreBegins
  <2>7. CASE StoreEnds(t)
    <3>1. cur[t].uri \in Uri /\ resp[t] \in MadeResponse
      BY <2>7 DEF StoreEnds, Uri
    <3> QED
      BY <2>7, <3>1 DEF StoreEnds
  <2>8. CASE LogMetrics(t)
    BY <2>8 DEF LogMetrics
  <2>9. CASE Crash(t)
    BY <2>9 DEF Crash
  <2> QED
    BY <1>1, <2>1, <2>2, <2>3, <2>4, <2>5, <2>6, <2>7, <2>8, <2>9 DEF Process
<1>2. CASE Over \/ UNCHANGED vars
  BY <1>2 DEF Over, vars
<1> QED
  BY <1>1, <1>2 DEF Next

\* Every step keeps CountInv: a thread passes the call and the line of the log at
\* most once on its way from a request to its answer.
LEMMA CountStep == Shape /\ CountInv /\ [Next]_vars => CountInv'
<1> SUFFICES ASSUME Shape, CountInv, [Next]_vars PROVE CountInv'
  OBVIOUS
<1> USE DEF Shape, PcSet
<1> DEFINE B == Cardinality(Busy)
           A == Cardinality(Asking)
<1>0. IsFiniteSet(Busy) /\ B \in Nat /\ IsFiniteSet(Asking) /\ A \in Nat
  BY AskCounting
<1>1. ASSUME NEW t \in Worker, Process(t) PROVE CountInv'
  <2>0. ASSUME Busy' \subseteq Busy, Asking' \subseteq Asking, UNCHANGED <<served, logged, calls, began>>
        PROVE  CountInv'
    <3>1. B' \in Nat /\ B' <= B
      BY <2>0, <1>0, FS_Subset, FS_CardinalityType
    <3>2. A' \in Nat /\ A' <= A
      BY <2>0, <1>0, FS_Subset, FS_CardinalityType
    <3> HIDE DEF A, B
    <3> QED
      BY <2>0, <1>0, <3>1, <3>2, DispatchAssumption DEF CountInv, A, B
  <2>1. ASSUME NEW r \in Request, Arrive(t, r) PROVE CountInv'
    <3>1. Busy' = Busy \cup {t} /\ t \notin Busy /\ Asking' = Asking \cup {t} /\ t \notin Asking
      BY <2>1 DEF Arrive, Busy, Asking
    <3>2. B' = B + 1
      BY <3>1, <1>0, FS_AddElement
    <3>3. A' = A + 1
      BY <3>1, <1>0, FS_AddElement
    <3>4. logged <= MaxServed
      BY <1>0, DispatchAssumption DEF CountInv
    <3> QED
      BY <2>1, <1>0, <3>2, <3>3, <3>4, DispatchAssumption DEF Arrive, CountInv
  <2>2. CASE Hit(t)
    <3>1. Busy' \subseteq Busy /\ Asking' \subseteq Asking
      BY <2>2 DEF Hit, Busy, Asking
    <3> QED
      BY <2>2, <2>0, <3>1 DEF Hit
  <2>3. CASE Miss(t)
    <3>1. Busy' \subseteq Busy /\ Asking' \subseteq Asking
      BY <2>3 DEF Miss, Busy, Asking
    <3> QED
      BY <2>3, <2>0, <3>1 DEF Miss
  <2>4. CASE Reject(t)
    <3>1. Busy' \subseteq Busy /\ Asking' \subseteq Asking
      BY <2>4 DEF Reject, Busy, Asking
    <3> QED
      BY <2>4, <2>0, <3>1 DEF Reject
  <2>5. CASE Handle(t)
    <3>1. Busy' = Busy /\ Asking' = Asking \ {t} /\ t \in Asking
      BY <2>5 DEF Handle, Busy, Asking
    <3>2. A' = A - 1
      BY <3>1, <1>0, FS_RemoveElement
    <3>3. \A u \in Uri : calls'[u] <= calls[u] + 1 /\ calls'[u] \in Nat
      BY <2>5 DEF Handle
    <3>4. UNCHANGED <<served, logged, began>> /\ B' = B
      BY <2>5, <3>1 DEF Handle
    <3>5. ASSUME NEW u \in Uri PROVE calls'[u] + A' <= served'
      <4>1. calls[u] + A <= served /\ calls[u] \in Nat /\ served \in Nat
        BY DispatchAssumption DEF CountInv
      <4> HIDE DEF A
      <4> QED
        BY <1>0, <3>2, <3>3, <3>4, <4>1
    <3> QED
      BY <3>4, <3>5 DEF CountInv
  <2>6. CASE StoreBegins(t)
    <3>1. Busy' \subseteq Busy /\ Asking' \subseteq Asking
      BY <2>6 DEF StoreBegins, Busy, Asking
    <3> QED
      BY <2>6, <2>0, <3>1 DEF StoreBegins
  <2>7. CASE StoreEnds(t)
    <3>1. Busy' \subseteq Busy /\ Asking' \subseteq Asking
      BY <2>7 DEF StoreEnds, Busy, Asking
    <3> QED
      BY <2>7, <2>0, <3>1 DEF StoreEnds
  <2>8. CASE LogMetrics(t)
    <3>1. Busy' = Busy \ {t} /\ t \in Busy /\ Asking' = Asking
      BY <2>8 DEF LogMetrics, Busy, Asking
    <3>2. B' = B - 1
      BY <3>1, <1>0, FS_RemoveElement
    <3> QED
      BY <2>8, <1>0, <3>1, <3>2, DispatchAssumption DEF LogMetrics, CountInv
  <2>9. CASE Crash(t)
    BY <2>9 DEF Crash, CountInv, Busy, Asking
  <2> QED
    BY <1>1, <2>1, <2>2, <2>3, <2>4, <2>5, <2>6, <2>7, <2>8, <2>9 DEF Process
<1>2. CASE Over \/ UNCHANGED vars
  BY <1>2 DEF Over, vars, CountInv, Busy, Asking
<1> QED
  BY <1>1, <1>2 DEF Next
-----------------------------------------------------------------------------
\* The parts of the invariant that the theorems rest on hold in every reachable
\* state of process_req.
LEMMA Invariant == Spec => [](Shape /\ CacheInv /\ NoCrossTalk /\ StatusInv /\ CallInv)
BY InitInv, ShapeStep, CacheStep, CrossTalkStep, StatusStep, CallStep, PTL DEF Spec

\* For any number of threads, process_req returns what the handler of the URI
\* has made for that URI, also out of the cache and also when accesses to
\* cache_query overlap.
THEOREM ResponseBelongs == Spec => []NoCrossTalk
BY Invariant, PTL

\* For any number of threads, a "/status" page shows every response that had been
\* logged when its request arrived: the cache never answers for it.
THEOREM StatusIsCurrent == Spec => []StatusCurrent
<1>1. StatusInv => StatusCurrent
  BY DEF StatusInv, StatusCurrent, Finished
<1> QED
  BY Invariant, <1>1, PTL

\* For any number of threads, as long as no two accesses to cache_query have
\* overlapped, a handler is called for a URI at most once per thread.
THEOREM CallsBounded == Spec => []OneCallPerThread
<1>1. Shape /\ CallInv => OneCallPerThread
  <2> SUFFICES ASSUME Shape, CallInv, ~raced, NEW u \in Uri \ {StatusUri}
               PROVE  calls[u] <= Cardinality(Worker)
    BY DEF OneCallPerThread
  <2>1. CallBound(u) /\ calls[u] \in Nat
    BY DEF CallInv, Shape
  <2> QED
    BY <2>1, Counting DEF CallBound
<1> QED
  BY Invariant, <1>1, PTL

\* For any number of threads and any table, the variables keep their types, and the
\* cache holds nothing but what handlers have made: no 400 of process_req and no
\* response that is not filled in.
THEOREM CacheIsMade == Spec => []TypeOK
<1>1. Shape /\ CountInv /\ ResponseInv => TypeOK
  <2> SUFFICES ASSUME Shape, CountInv, ResponseInv PROVE TypeOK
    OBVIOUS
  <2>1. logged \in 0..MaxServed /\ \A u \in Uri : calls[u] \in 0..MaxServed
    BY AskCounting, DispatchAssumption DEF Shape, CountInv
  <2>2. began \in [Worker -> 0..MaxServed] /\ calls \in [Uri -> 0..MaxServed]
    BY <2>1, DispatchAssumption DEF Shape, CountInv
  <2>3. MadeResponse \subseteq Response \ {Nothing, BadReq}
    BY DEF MadeResponse, Response, Made, Nothing, BadReq
  <2>4. resp \in [Worker -> Response]
    BY <2>3 DEF ResponseInv, Response
  <2> QED
    BY <2>1, <2>2, <2>3, <2>4 DEF Shape, PcSet, CountInv, ResponseInv, TypeOK
<1>2. CountInv /\ ResponseInv /\ Shape /\ [Next]_vars => CountInv' /\ ResponseInv' /\ Shape'
  BY ShapeStep, CountStep, ResponseStep
<1>3. Init => CountInv /\ ResponseInv /\ Shape
  BY TypeInit, InitInv
<1> QED
  BY <1>1, <1>2, <1>3, PTL DEF Spec

\* Before the first request the search agrees with the rule for every URI that is
\* compared: process_req dispatches as README.md says.
THEOREM DispatchByRule == Spec => []LongestPrefix
<1>1. LongestPrefix
  BY SearchFollowsRule, DispatchAssumption DEF LongestPrefix
<1> QED
  BY <1>1, PTL
=============================================================================
