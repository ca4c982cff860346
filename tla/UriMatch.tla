------------------------------ MODULE UriMatch ------------------------------
(* The test of session::process_req for whether a URI belongs to a location. *)
(* Both are sequences of characters; the location is not empty.              *)
LOCAL INSTANCE Integers
LOCAL INSTANCE Sequences

\* The first test of the loop: a longer URI must have a "/" where the key ends.
Skips(uri, key) == Len(uri) > Len(key) /\ uri[Len(key)] # "/"

\* compare() on all of the key but its last character.
SameFront(uri, key) ==
  LET n == Len(key) - 1
  IN  SubSeq(uri, 1, IF n < Len(uri) THEN n ELSE Len(uri)) = SubSeq(key, 1, n)

Matches(uri, key) == ~Skips(uri, key) /\ SameFront(uri, key)
=============================================================================
