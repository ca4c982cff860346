------------------------------ MODULE Handlers ------------------------------
(***************************************************************************)
(* The handlers that answer without another host or the log, and the       *)
(* response_builder they use, as operators.  Text is a sequence of symbols;*)
(* Files gives the content of every file that can be opened, by its path   *)
(* (a directory can be opened, and reads as an empty file).                *)
(***************************************************************************)
EXTENDS Naturals, Sequences, SequencesExt

CONSTANT Files
-----------------------------------------------------------------------------
(* response_builder *)
NewResponse == [code |-> "unset", headers |-> <<>>, body |-> <<>>]

set_code(r, code) == [r EXCEPT !.code = code]
add_body(r, data) == [r EXCEPT !.body = data]
add_header(r, key, val) ==
  [r EXCEPT !.headers = [k \in DOMAIN @ \cup {key} |-> IF k = key THEN val ELSE @[k]]]

make_400_error(r) ==
  add_body(add_header(set_code(r, "BAD_REQ"), "Content-Length", 0), <<>>)

\* The page, or nothing if it cannot be opened.
Page404 == <<"404page.html">>
make_404_error(r) ==
  LET body == IF Page404 \in DOMAIN Files THEN Files[Page404] ELSE <<>>
  IN  add_header(add_header(add_body(set_code(r, "NOT_FOUND"), body),
                            "Content-Type", "text/html"),
                 "Content-Length", Len(body))

make_date_servername_headers(r) ==
  add_header(add_header(r, "Date", "now"), "Server", "WNZA")

\* The message: a code that is not one of the three has no status.
StatusLine == [OK |-> "200", BAD_REQ |-> "400", NOT_FOUND |-> "404"]
build(r) ==
  [status |-> IF r.code \in DOMAIN StatusLine THEN StatusLine[r.code] ELSE "",
   headers |-> r.headers, body |-> r.body]
-----------------------------------------------------------------------------
(* handle_request of the handlers.  req.rest stands for the version, the     *)
(* headers and the body of the request, as the echo handler writes them.     *)
echo(req) ==
  LET body == <<req.method, "SP">> \o req.uri \o req.rest
      ok == add_header(set_code(NewResponse, "OK"), "Content-Type", "text/plain")
  IN  make_date_servername_headers(
        IF req.method = "INVALID" THEN make_400_error(NewResponse)
        ELSE add_body(add_header(ok, "Content-Length", Len(body)), body))

health(req) ==
  LET body == <<"O", "K">>
  IN  make_date_servername_headers(
        IF req.method = "INVALID" THEN make_400_error(NewResponse)
        ELSE add_header(add_body(set_code(NewResponse, "OK"), body),
                        "Content-Length", Len(body)))

not_found(req) == make_404_error(NewResponse)

\* Mutant: the "/" that ends the prefix is left in the name.
get_file_name_early(prefix, uri) ==
  IF IsPrefix(prefix, uri) THEN SubSeq(uri, Len(prefix), Len(uri)) ELSE <<>>

\* What follows the last occurrence of the prefix.
get_file_name(prefix, uri) ==
  LET i == SelectLastInSeq([k \in DOMAIN uri |-> SubSeq(uri, k, Len(uri))],
                           LAMBDA s : IsPrefix(prefix, s))
  IN  IF i = 0 THEN <<>> ELSE SubSeq(uri, i + Len(prefix), Len(uri))

extension_to_type ==
  ".zip" :> "application/zip" @@ ".txt" :> "text/plain" @@ ".jpg" :> "image/jpeg" @@
  ".png" :> "image/png" @@ ".html" :> "text/html" @@ ".htm" :> "text/html" @@
  ".pdf" :> "application/pdf"

\* The extension is what follows the last dot of the whole path.
MimeType(path) ==
  LET i == SelectLastInSeq(path, LAMBDA c : c \in {"."} \cup DOMAIN extension_to_type)
  IN  IF i = Len(path) /\ path[i] # "." THEN extension_to_type[path[i]]
      ELSE "application/octet-stream"

file_to_body(r, path) ==
  add_header(add_header(add_body(r, Files[path]), "Content-Type", MimeType(path)),
             "Content-Length", Len(Files[path]))

static(h, req) ==
  LET name == get_file_name(h.prefix, req.uri)
      path == h.root \o name
  IN  IF name = <<>> \/ path \notin DOMAIN Files THEN make_404_error(NewResponse)
      ELSE make_date_servername_headers(file_to_body(set_code(NewResponse, "OK"), path))
=============================================================================
