---------------------------- MODULE DocumentReads ----------------------------
(***************************************************************************)
(* Reading documents while they are processed, swept and deleted: the GET   *)
(* handlers of handlers/documents.go, DocumentService.GetDocument, GetPage, *)
(* GetPageRange and ListPages, over the tables and the bucket of Documents. *)
(*                                                                         *)
(* A request reads the document's row, then the page rows, then (for a      *)
(* range) fetches one object after the other and streams them as a ZIP.     *)
(* Nothing holds the document still between these steps.                    *)
(***************************************************************************)
EXTENDS Documents

CONSTANTS
  Readers,  \* read requests that can be under way at a time
  Asked     \* page numbers a client may ask for

ASSUME ReadsAssumption == Asked \subseteq Int

VARIABLE read  \* read requests: parameters, step, and what was handed out

readVars == <<vars, read>>

\* own: the user is the document's owner.  last, end: the last page asked for,
\* and after clamping.  rows: page rows not fetched yet.  got: pages whose URL or
\* ZIP entry was handed out.  wrong: ZIP entries that hold something else than the
\* page.  err, code: the service's error and the HTTP status of the answer.
Read == [step : {"idle", "document", "rows", "fetch", "answered"},
         kind : {"document", "page", "range", "all"}, doc : DocIds \cup {None},
         own : BOOLEAN, first : Int, last : Int, end : Int,
         rows : SUBSET Nat, got : SUBSET Nat, wrong : SUBSET Nat,
         err : {"none", "bad", "notFound", "notReady", "other"},
         code : {0, 200, 400, 404, 409, 500}]

NoRead == [step |-> "idle", kind |-> "document", doc |-> None, own |-> FALSE,
           first |-> 0, last |-> 0, end |-> 0, rows |-> {}, got |-> {}, wrong |-> {},
           err |-> "none", code |-> 0]

\* The handler's answer to an error of the service.  A range answers 200 to "not
\* found", having written nothing, and to an error once the ZIP is under way:
\* zw.Close has then ended the archive after the entries there are.
Status(req, err) ==
  CASE err = "none" -> 200
    [] err = "bad" -> 400
    [] err = "notFound" -> IF req.kind = "range" THEN 200 ELSE 404
    [] err = "notReady" -> 409
    [] err = "other" -> IF req.step = "fetch" THEN 200 ELSE 500

Answered(req, err) ==
  [req EXCEPT !.step = "answered", !.rows = {}, !.err = err, !.code = Status(req, err)]

Answer(q, err) == read' = [read EXCEPT ![q] = Answered(@, err)]

ReadInit == Init /\ read = [q \in Readers |-> NoRead]

-----------------------------------------------------------------------------

\* What the handlers accept of a page number or a range.
ParamsOK(kind, first, last) ==
  /\ kind = "page" => first >= 1
  /\ kind = "range" => first >= 1 /\ last >= 1 /\ first <= last

\* A request arrives; the handler looks at its parameters.
Ask(q, d, own) ==
  /\ read[q].step = "idle"
  /\ \E kind \in {"document", "page", "range", "all"}, first, last \in Asked \cup {0} :
       /\ kind \in {"document", "all"} => first = 0 /\ last = 0
       /\ kind = "page" => first = last
       /\ LET req == [NoRead EXCEPT !.step = "document", !.kind = kind, !.doc = d,
                                    !.own = own, !.first = first, !.last = last]
          IN read' = [read EXCEPT ![q] = IF ParamsOK(kind, first, last) THEN req
                                         ELSE Answered(req, "bad")]
  /\ UNCHANGED vars

\* The end of a range, after the document's row was read.
ClampEnd(last, total) == IF total # None /\ last > total THEN total ELSE last

ClampStart(first) == IF first < 1 THEN 1 ELSE first

\* Mutation: a document that is not ready is read as well.
ReadDocumentAnyStatus(q) ==
  LET req == read[q] IN
  /\ req.step = "document"
  /\ IF ~Exists(req.doc) \/ ~req.own THEN Answer(q, "notFound")
     ELSE read' = [read EXCEPT ![q].step = "rows", ![q].end = req.last]
  /\ UNCHANGED vars

\* Mutation: a range ends at total_pages, before the status shows that it is set.
ReadDocumentToTotal(q) ==
  LET req == read[q] IN
  /\ req.step = "document"
  /\ IF ~Exists(req.doc) \/ ~req.own THEN Answer(q, "notFound")
     ELSE read' = [read EXCEPT ![q].step = "rows", ![q].end = docs[req.doc].totalPages]
  /\ UNCHANGED vars

\* DocumentStore.GetDocument: the row of a document of this user; then the checks
\* of the service.
ReadDocument(q) ==
  LET req == read[q]
      row == docs[req.doc]
      end == ClampEnd(req.last, row.totalPages) IN
  /\ req.step = "document"
  /\ \/ CallsMayFail /\ Answer(q, "other")
     \/ (~Exists(req.doc) \/ ~req.own) /\ Answer(q, "notFound")
     \/ /\ Exists(req.doc) /\ req.own
        /\ \/ req.kind = "document" /\ Answer(q, "none")
           \/ req.kind # "document" /\ row.status # "ready" /\ Answer(q, "notReady")
           \/ /\ req.kind # "document" /\ row.status = "ready"
              /\ IF req.kind = "range" /\ ClampStart(req.first) > end
                 THEN Answer(q, "other")
                 ELSE read' = [read EXCEPT ![q].step = "rows", ![q].end = end]
  /\ UNCHANGED vars

\* The page rows a request selects: GetPage, GetPageRange, ListPages of the store.
Selected(req) ==
  CASE req.kind = "page" -> pages[req.doc] \cap {req.first}
    [] req.kind = "range" -> pages[req.doc] \cap (ClampStart(req.first)..req.end)
    [] OTHER -> pages[req.doc]

\* One page or all pages are answered with presigned URLs, which need no object.
ReadRows(q) ==
  LET req == read[q] IN
  /\ req.step = "rows"
  /\ \/ CallsMayFail /\ Answer(q, "other")
     \/ req.kind # "all" /\ Selected(req) = {} /\ Answer(q, "notFound")
     \/ /\ (req.kind = "page" /\ Selected(req) # {}) \/ req.kind = "all"
        /\ read' = [read EXCEPT ![q] = Answered([@ EXCEPT !.got = Selected(req)], "none")]
     \/ /\ req.kind = "range" /\ Selected(req) # {}
        /\ read' = [read EXCEPT ![q].step = "fetch", ![q].rows = Selected(req)]
  /\ UNCHANGED vars

\* The next object is fetched and its bytes become a ZIP entry; the status code of
\* the answer is not looked at, so the entry of a missing object holds an error.
FetchPage(q) ==
  LET req == read[q] IN
  /\ req.step = "fetch"
  /\ \E n \in req.rows :
       /\ \A m \in req.rows : n <= m
       /\ read' = [read EXCEPT
                     ![q].rows = @ \ {n},
                     ![q].got = @ \cup {n},
                     ![q].wrong = IF <<req.doc, n>> \in objects THEN @ ELSE @ \cup {n}]
  /\ UNCHANGED vars

FetchPageFails(q) ==
  /\ CallsMayFail
  /\ read[q].step = "fetch" /\ read[q].rows # {}
  /\ Answer(q, "other")
  /\ UNCHANGED vars

FetchDone(q) ==
  /\ read[q].step = "fetch" /\ read[q].rows = {}
  /\ Answer(q, "none")
  /\ UNCHANGED vars

\* The client has its answer.
Receive(q) ==
  /\ read[q].step = "answered"
  /\ read' = [read EXCEPT ![q] = NoRead]
  /\ UNCHANGED vars

\* The documents go on being processed; the requests end with the process.
ReadNext ==
  \/ \E q \in Readers :
       \/ \E d \in DocIds, own \in BOOLEAN : Ask(q, d, own)
       \/ ReadDocument(q) \/ ReadRows(q) \/ FetchPage(q) \/ FetchPageFails(q)
       \/ FetchDone(q) \/ Receive(q)
  \/ Step /\ UNCHANGED read
  \/ (Crash \/ Shutdown) /\ read' = [q \in Readers |-> NoRead]

ReadSpec == ReadInit /\ [][ReadNext]_readVars

-----------------------------------------------------------------------------
(* Properties. *)

\* Every variable stays within its type.
ReadTypeOK == TypeOK /\ read \in [Readers -> Read]

Succeeded(q) == read[q].step = "answered" /\ read[q].err = "none" /\ read[q].kind # "document"

\* The pages a request stands for, from the document itself.
Wanted(req) ==
  CASE req.kind = "page" -> {req.first}
    [] req.kind = "range" -> {n \in Pages(req.doc) : req.first <= n /\ n <= req.last}
    [] req.kind = "all" -> Pages(req.doc)

\* A request for pages that succeeds was made by the owner and handed out exactly
\* the pages it asked for that the document has, although runs, sweeps and a
\* deletion changed the rows between its reads; only the list of all pages may be
\* short, and only when the document has been deleted.
HandedOutExactly ==
  \A q \in Readers :
    Succeeded(q) =>
      /\ read[q].own
      /\ \/ read[q].got = Wanted(read[q])
         \/ read[q].kind = "all" /\ docs[read[q].doc].status = "deleted"

\* Every page handed out, by URL or as a ZIP entry, is there to be read for as
\* long as the document is not deleted, whatever runs do to it meanwhile.
HandedOutReadable ==
  \A q \in Readers :
    read[q].doc # None /\ docs[read[q].doc].status # "deleted" =>
      read[q].wrong = {} /\ \A n \in read[q].got : <<read[q].doc, n>> \in objects

\* document_service.go: "GetPageRange streams pages start..end (inclusive) as a ZIP
\* archive": the entries of an archive that was streamed without an error are
\* pages of the document.
ZipHoldsPages ==
  \A q \in Readers : Succeeded(q) /\ read[q].kind = "range" => read[q].wrong = {}

=============================================================================
