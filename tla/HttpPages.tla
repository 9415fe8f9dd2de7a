------------------------------ MODULE HttpPages ------------------------------
(***************************************************************************)
(* What the HTTP server answers to a request that it has recognised: the   *)
(* search form, a file, or a list of results in one of three formats       *)
(* (httpserver.cpp).  The connections are those of HttpServer; each step   *)
(* of it that answers with a page also says here which page.               *)
(*                                                                         *)
(* The writers of JSON and XML keep the number of results to show in a     *)
(* static variable: it is what the first search in that format made it.    *)
(***************************************************************************)
EXTENDS HttpServer

CONSTANTS
  Texts,          \* texts to localize
  NoText,         \* there is no line that starts with text=
  Found,          \* how many results each text has, if it is searched for
  Query,          \* what each client asks for
  PublicFiles,    \* whether http_public_files is set
  MaxShown,       \* 20
  SizeT           \* the values of size_t, 0..SizeT - 1

Formats == {"html", "json", "xml"}

(***************************************************************************)
(* The file name of a GET request is the root, one that deliverFile        *)
(* refuses, one of a file that is there (with four bytes at least), or one *)
(* of a file that is not.  A POST request has a text, of more than three   *)
(* characters or not, and may ask for a format in the URL and in a header. *)
(***************************************************************************)
Queries == [file : {"root", "refused", "there", "missing"},
            text : Texts \cup {NoText}, long : BOOLEAN,
            url : Formats, header : Formats]

ASSUME QueryAssumption == /\ NoText \notin Texts /\ Found \in [Texts -> 0..1000]
                          /\ Query \in [Conns -> Queries] /\ PublicFiles \in BOOLEAN
ASSUME LimitAssumption == MaxShown \in 1..1000 /\ SizeT \in Nat /\ SizeT > 1001

VARIABLES
  limit,          \* maxCountResults of writeResultsJSON and writeResultsXML
  page            \* the page that each client was sent

pageVars == <<vars, limit, page>>

Unset  == -1
NoPage == [kind |-> "none"]

PagesInit == /\ Init
             /\ limit = [f \in {"json", "xml"} |-> Unset]
             /\ page = [c \in Conns |-> NoPage]

-----------------------------------------------------------------------------
\* extractRequestedMimeType: the URL before the header, HTML before neither.
RequestedMimeType(q) == IF q.url # "html" THEN q.url ELSE q.header

\* extractTextToLocalize and the search, that short texts are not worth.
Results(q) == IF q.text # NoText /\ q.long THEN Found[q.text] ELSE 0

\* deliverFile, the check of the name before the look at the file.
Delivered(q) == IF q.file = "refused" THEN "403" ELSE IF q.file = "there" THEN "file" ELSE "404"

GetPage(q) == IF q.file = "root" THEN "form" ELSE IF PublicFiles THEN Delivered(q) ELSE "404"

\* resultCounter after k results: an unsigned number that starts from l.
Counter(l, k) == (l - k) % SizeT

\* How many of n results are shown: the loop ends when the counter is zero.
Shown(l, n) == Cardinality({k \in 1..n : \A j \in 1..k : Counter(l, j) > 0})

\* JSON puts a comma behind every result but the one with counter 1.
EndsWithComma(l, n) == LET shown == Shown(l, n) IN shown > 0 /\ Counter(l, shown) > 1

\* What limit is once results of a search have been written in format f.
LimitOf(f, n) ==
  IF f = "html" THEN MaxShown
  ELSE IF limit[f] = Unset THEN (IF n > MaxShown THEN MaxShown ELSE n)
  ELSE limit[f]

ResultsPage(q) ==
  LET format == RequestedMimeType(q)
      l      == LimitOf(format, Results(q))
  IN  [kind |-> format, text |-> q.text, shown |-> Shown(l, Results(q)),
       comma |-> format = "json" /\ EndsWithComma(l, Results(q))]

-----------------------------------------------------------------------------
\* Connection c is answered with a page in this step.
Serves(c) == Len(answer'[c]) > Len(answer[c]) /\ answer'[c][Len(answer'[c])] = "page"

ServeGet(c) ==
  /\ Serves(c) /\ Request[c].method = "get"
  /\ page' = [page EXCEPT ![c] = [kind |-> GetPage(Query[c])]]
  /\ GetPage(Query[c]) = "404" /\ PublicFiles => errno'      \* left by open()
  /\ UNCHANGED limit

ServePost(c) ==
  /\ Serves(c) /\ Request[c].method = "post"
  /\ page' = [page EXCEPT ![c] = ResultsPage(Query[c])]
  /\ LET format == RequestedMimeType(Query[c])
     IN  limit' = IF format = "html" THEN limit
                  ELSE [limit EXCEPT ![format] = LimitOf(format, Results(Query[c]))]

SamePages == UNCHANGED <<limit, page>>

\* What is received is no request yet, or is answered with a page.
ReceiveOnly(i) == RecvData(i) /\ ~Serves(slots[i]) /\ SamePages
ReceiveGet(i)  == RecvData(i) /\ ServeGet(slots[i])
ReceivePost(i) == RecvData(i) /\ ServePost(slots[i])

PagesServer ==
  \/ InstallHandler /\ SamePages
  \/ BlockSignals /\ SamePages
  \/ LeaveLoop /\ SamePages
  \/ Select /\ SamePages
  \/ Interrupted /\ SamePages
  \/ Accept /\ SamePages
  \/ AcceptFails /\ SamePages
  \/ CloseSlots /\ SamePages
  \/ \E i \in Slots : \/ BufferFull(i) /\ SamePages
                      \/ RecvEnd(i) /\ SamePages
                      \/ ReceiveOnly(i)
                      \/ ReceiveGet(i)
                      \/ ReceivePost(i)

PagesWorld ==
  \/ Signal /\ SamePages
  \/ \E c \in Conns : \/ Connect(c) /\ SamePages
                      \/ Send(c) /\ SamePages
                      \/ Leave(c) /\ SamePages

PagesNext == PagesServer \/ PagesWorld \/ (Stopped /\ UNCHANGED pageVars)
PagesSpec == PagesInit /\ [][PagesNext]_pageVars /\ WF_pageVars(PagesServer)

-----------------------------------------------------------------------------
\* "The returned data contains the same information for both JSON and XML"
\* (README.md:296).  Not so if the first searches in the two formats were of
\* different texts: each format keeps the limit that its first search set.
SameInformation ==
  \A c, d \in Conns :
    page[c].kind = "json" /\ page[d].kind = "xml" /\ page[c].text = page[d].text =>
      page[c].shown = page[d].shown
=============================================================================
