--------------------------- MODULE MCHttpServer ---------------------------
(***************************************************************************)
(* Three clients for two slave connections.  Positions are scaled down: a  *)
(* header of six characters, a buffer for 19; lists end after two results. *)
(***************************************************************************)
EXTENDS HttpPages, TLC

CONSTANTS c1, c2, c3, nowhere, town

\* GET / HTTP/1.1, without a content length, in one or two segments.
Get == [method |-> "get", line |-> 2, digit |-> 0, digits |-> 0, part |-> 0, body |-> 0,
        blanks |-> {4}, len |-> 4, cuts |-> {3, 4}]

\* The request that curl -X POST -d sends, with a content length.
Post == [method |-> "post", line |-> 2, digit |-> 3, digits |-> 4, part |-> 1, body |-> 12,
         blanks |-> {6}, len |-> 18, cuts |-> {3, 18}]

\* A request that does not fit into the buffer.
Long     == [Post EXCEPT !.body = 15, !.len = 21, !.cuts = {21}]

Mixed == c1 :> Get @@ c2 :> Post @@ c3 :> Long
Posts == c1 :> Get @@ c2 :> Post

\* Three searches, each sent in one piece.
Searches == [c \in {c1, c2, c3} |-> [Post EXCEPT !.cuts = {18}]]

Nothing == [file |-> "root", text |-> NoText, long |-> FALSE, url |-> "html", header |-> "html"]

\* A file that is not there, and lists as web pages.
Views == c1 :> [Nothing EXCEPT !.file = "missing"]
         @@ c2 :> [Nothing EXCEPT !.text = town, !.long = TRUE, !.header = "json"]
         @@ c3 :> [Nothing EXCEPT !.text = town, !.long = TRUE]

Pairs == c1 :> Nothing @@ c2 :> Nothing

\* A text with results in both formats, and one without results as JSON.
Formatted == c1 :> [Nothing EXCEPT !.text = nowhere, !.long = TRUE, !.header = "json"]
             @@ c2 :> [Nothing EXCEPT !.text = town, !.long = TRUE, !.header = "json"]
             @@ c3 :> [Nothing EXCEPT !.text = town, !.long = TRUE, !.url = "xml"]

FoundIn == nowhere :> 0 @@ town :> 3
=============================================================================
