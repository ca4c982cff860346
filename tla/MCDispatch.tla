----------------------------- MODULE MCDispatch -----------------------------
(* Instances of Dispatch: the locations of a small configuration, requests   *)
(* with URIs that meet in the cache, and all URIs up to a length.            *)
EXTENDS Dispatch

CONSTANTS w1, w2

MCWorker == {w1, w2}
OneWorker == {w1}

Root == <<"/">>
A == <<"/", "a", "/">>
AB == <<"/", "a", "/", "b", "/">>
AA == <<"/", "a", "a", "/">>
S == <<"/", "s", "s">>

\* In the order of std::map, "/" sorting before the letters.  The location of
\* the status page has no final "/", as in tests/deploy_config.
Nested == <<Root, A, AB, AA, S>>
OnlyEcho == <<A>>

MCEcho == {A}

Ask(uri, method, tag) == [uri |-> uri, method |-> method, tag |-> tag]

\* One echo URI asked in two ways, the status page, a URI of the root.
Shared == {Ask(A, "GET", 1), Ask(A, "INVALID", 1), Ask(S, "GET", 1), Ask(Root, "GET", 1)}
TwoEchoes == {Ask(A, "GET", 1), Ask(A, "GET", 2)}

UriLength == 6
EveryUri ==
  {<<"/">> \o u : u \in UNION {[1..n -> {"/", "a", "b"}] : n \in 0..(UriLength - 1)}}
=============================================================================
