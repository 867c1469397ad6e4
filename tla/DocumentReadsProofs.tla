------------------------ MODULE DocumentReadsProofs ------------------------
(* Proofs about reading documents, on top of those about the pipeline. *)
EXTENDS DocumentReads, DocumentsProofs

\* What a request has seen and handed out.  While its document is not deleted,
\* its rows are still all there once it has seen the document ready, and so are
\* the objects of the rows it has selected.
ReqOK(q) ==
  LET req == read[q]
      d == req.doc IN
  /\ d \in DocIds
  /\ req.step # "answered" => ParamsOK(req.kind, req.first, req.last)
  /\ req.step \in {"document", "rows"} => req.rows = {} /\ req.got = {} /\ req.wrong = {}
  /\ docs[d].status # "deleted" =>
       req.wrong = {} /\ \A n \in req.rows \cup req.got : <<d, n>> \in objects
  /\ req.step \in {"rows", "fetch"} => req.own /\ req.kind # "document"
  /\ req.step = "rows" =>
       /\ docs[d].status # "deleted" => Pages(d) \subseteq pages[d]
       /\ req.kind = "range" => req.end = ClampEnd(req.last, NumPages[d])
  /\ req.step = "fetch" => req.kind = "range" /\ req.rows \cup req.got = Wanted(req)
  /\ Succeeded(q) =>
       /\ req.own
       /\ \/ req.got = Wanted(req)
          \/ req.kind = "all" /\ docs[d].status = "deleted"

ReadsOK ==
  \A q \in Readers : IF read[q].step = "idle" THEN read[q].doc = None ELSE ReqOK(q)

ReadInv == DocInv /\ read \in [Readers -> Read] /\ ReadsOK

-----------------------------------------------------------------------------

\* Reading changes nothing: every step is a step of the documents or leaves them.
LEMMA ReadNextIsNext == [ReadNext]_readVars => [Next]_vars
  BY Zenon DEF ReadNext, readVars, Next, Ask, ReadDocument, ReadRows, FetchPage,
               FetchPageFails, FetchDone, Receive

LEMMA ReadInitInv == ReadInit => ReadInv
<1> SUFFICES ASSUME ReadInit PROVE ReadInv
  OBVIOUS
<1>1. DocInv
  BY DocInitInv DEF ReadInit
<1>2. NoRead \in Read /\ NoRead.step = "idle" /\ NoRead.doc = None
  BY DEF NoRead, Read
<1> QED
  BY <1>1, <1>2 DEF ReadInit, ReadInv, ReadsOK

\* The pages a document has, in numbers.
LEMMA PagesOf ==
  ASSUME NEW d \in DocIds
  PROVE  /\ NumPages[d] \in Nat /\ NumPages[d] # None
         /\ Pages(d) = {n \in Nat : 1 <= n /\ n <= NumPages[d]}
  BY DocumentsAssumption DEF Pages

\* What holds of a request stays true while others work.
LEMMA ReqKept ==
  ASSUME ReadInv, NEW q \in Readers, ReqOK(q), Grows(read[q].doc), read'[q] = read[q]
  PROVE  ReqOK(q)'
<1> DEFINE d == read[q].doc
<1>1. d \in DocIds /\ read[q].rows \subseteq Nat /\ read[q].got \subseteq Nat
  BY DEF ReadInv, Read, ReqOK
<1>2. docs[d].status = "deleted" => docs'[d].status = "deleted"
  BY DEF Grows
<1>3. Succeeded(q)' = Succeeded(q) /\ Wanted(read'[q]) = Wanted(read[q])
  BY DEF Succeeded
<1> QED
  BY <1>1, <1>2, <1>3 DEF ReqOK, Grows

\* A step of one request that leaves the documents alone.
LEMMA OneReader ==
  ASSUME ReadInv, UNCHANGED vars, NEW q \in Readers, NEW new \in Read,
         read' = [read EXCEPT ![q] = new],
         IF new.step = "idle" THEN new.doc = None ELSE ReqOK(q)'
  PROVE  read' \in [Readers -> Read] /\ ReadsOK'
<1>1. read' \in [Readers -> Read] /\ read'[q] = new
  BY DEF ReadInv
<1>2. ASSUME NEW p \in Readers, p # q, read'[p].step # "idle" PROVE ReqOK(p)'
  <2>1. read'[p] = read[p] /\ ReqOK(p) /\ read[p].doc \in DocIds
    BY <1>2 DEF ReadInv, ReadsOK, ReqOK
  <2>2. Grows(read[p].doc)
    BY DEF Grows, Extracted, vars
  <2> QED
    BY <2>1, <2>2, ReqKept
<1>3. ASSUME NEW p \in Readers, p # q, read'[p].step = "idle" PROVE read'[p].doc = None
  BY <1>3 DEF ReadInv, ReadsOK
<1> QED
  BY <1>1, <1>2, <1>3 DEF ReadsOK

\* The parts of an answer.
LEMMA AnsweredParts ==
  ASSUME NEW req \in Read, NEW err \in {"none", "bad", "notFound", "notReady", "other"},
         NEW new, new = Answered(req, err)
  PROVE  /\ new \in Read
         /\ new.step = "answered" /\ new.rows = {} /\ new.err = err
         /\ new.kind = req.kind /\ new.doc = req.doc /\ new.own = req.own
         /\ new.first = req.first /\ new.last = req.last
         /\ new.got = req.got /\ new.wrong = req.wrong
<1> DEFINE code == Status(req, err)
<1>1. code \in {0, 200, 400, 404, 409, 500}
  BY DEF Status
<1> HIDE DEF code
<1>2. new = [req EXCEPT !.step = "answered", !.rows = {}, !.err = err, !.code = code]
  BY DEF Answered, code
<1>3. new \in Read
  <2>1. [req EXCEPT !.step = "answered"] \in Read
    BY DEF Read
  <2>2. \A s \in Read : [s EXCEPT !.rows = {}] \in Read
    BY DEF Read
  <2>3. \A s \in Read : [s EXCEPT !.err = err] \in Read
    BY DEF Read
  <2>4. \A s \in Read : [s EXCEPT !.code = code] \in Read
    BY <1>1 DEF Read
  <2> QED
    BY <1>2, <2>1, <2>2, <2>3, <2>4
<1> QED
  BY <1>2, <1>3 DEF Read

\* A request that is answered with an error promises nothing but what it has
\* already handed out.
LEMMA ErrorAnswer ==
  ASSUME ReadInv, UNCHANGED vars, NEW q \in Readers, ReqOK(q),
         NEW err \in {"bad", "notFound", "notReady", "other"}, Answer(q, err)
  PROVE  read' \in [Readers -> Read] /\ ReadsOK'
<1> DEFINE new == Answered(read[q], err)
<1>1. read[q] \in Read
  BY DEF ReadInv
<1>2. /\ new \in Read /\ new.step = "answered" /\ new.rows = {} /\ new.err = err
      /\ new.doc = read[q].doc /\ new.got = read[q].got /\ new.wrong = read[q].wrong
  BY <1>1, AnsweredParts
<1>3. read' = [read EXCEPT ![q] = new] /\ read'[q] = new
  BY DEF Answer, ReadInv
<1>4. ReqOK(q)'
  BY <1>2, <1>3 DEF ReqOK, Succeeded, vars
<1> HIDE DEF new
<1> QED
  BY <1>2, <1>3, <1>4, OneReader

LEMMA AskInv ==
  ASSUME ReadInv, NEW q \in Readers, NEW d \in DocIds, NEW own \in BOOLEAN, Ask(q, d, own)
  PROVE  read' \in [Readers -> Read] /\ ReadsOK'
<1> DEFINE Asks(kind, first, last) ==
      [NoRead EXCEPT !.step = "document", !.kind = kind, !.doc = d, !.own = own,
                     !.first = first, !.last = last]
<1>1. PICK kind \in {"document", "page", "range", "all"},
           first \in Asked \cup {0}, last \in Asked \cup {0} :
        read' = [read EXCEPT ![q] = IF ParamsOK(kind, first, last) THEN Asks(kind, first, last)
                                    ELSE Answered(Asks(kind, first, last), "bad")]
  BY DEF Ask
<1> DEFINE req == Asks(kind, first, last)
           new == IF ParamsOK(kind, first, last) THEN req ELSE Answered(req, "bad")
<1>2. /\ req.step = "document" /\ req.kind = kind /\ req.doc = d
      /\ req.first = first /\ req.last = last
      /\ req.rows = {} /\ req.got = {} /\ req.wrong = {}
  BY DEF NoRead
<1>3. req \in Read
  <2>1. NoRead \in Read /\ first \in Int /\ last \in Int
    BY ReadsAssumption DEF NoRead, Read
  <2>2. \A s \in Read : /\ [s EXCEPT !.step = "document"] \in Read
                        /\ [s EXCEPT !.kind = kind] \in Read
                        /\ [s EXCEPT !.doc = d] \in Read
    BY DEF Read
  <2>3. \A s \in Read : [s EXCEPT !.own = own] \in Read
    BY DEF Read
  <2>4. \A s \in Read : [s EXCEPT !.first = first] \in Read /\ [s EXCEPT !.last = last] \in Read
    BY <2>1 DEF Read
  <2> QED
    BY <2>1, <2>2, <2>3, <2>4
<1> HIDE DEF req
<1>4. /\ new \in Read /\ new.doc = d /\ new.rows = {} /\ new.got = {} /\ new.wrong = {}
      /\ \/ /\ new.step = "document" /\ ParamsOK(new.kind, new.first, new.last)
         \/ new.step = "answered" /\ new.err = "bad"
  <2>1. CASE ParamsOK(kind, first, last)
    BY <1>2, <1>3, <2>1
  <2>2. CASE ~ParamsOK(kind, first, last)
    <3>1. new = Answered(req, "bad")
      BY <2>2
    <3> HIDE DEF new
    <3>2. /\ new \in Read /\ new.step = "answered" /\ new.rows = {} /\ new.err = "bad"
          /\ new.doc = req.doc /\ new.got = req.got /\ new.wrong = req.wrong
      BY <1>3, <3>1, AnsweredParts
    <3> QED
      BY <1>2, <3>2
  <2> QED
    BY <2>1, <2>2
<1>5. read' = [read EXCEPT ![q] = new] /\ read'[q] = new
  BY <1>1 DEF ReadInv, req
<1>6. UNCHANGED vars
  BY DEF Ask
<1> HIDE DEF new
<1>7. ReqOK(q)'
  BY <1>4, <1>5 DEF ReqOK, Succeeded
<1> QED
  BY <1>4, <1>5, <1>6, <1>7, OneReader

\* A document that is ready has its rows; the end of a range is clamped to them.
LEMMA ReadDocumentInv ==
  ASSUME ReadInv, NEW q \in Readers, ReadDocument(q)
  PROVE  read' \in [Readers -> Read] /\ ReadsOK'
<1> DEFINE req == read[q]
           d == req.doc
           end == ClampEnd(req.last, docs[d].totalPages)
<1>1. /\ req \in Read /\ ReqOK(q) /\ d \in DocIds /\ req.step = "document"
      /\ UNCHANGED vars
  BY DEF ReadInv, ReadsOK, ReqOK, ReadDocument
<1>2. CASE \E err \in {"notFound", "notReady", "other"} : Answer(q, err)
  BY <1>1, <1>2, ErrorAnswer
<1>3. CASE req.kind = "document" /\ Answer(q, "none")
  <2> DEFINE new == Answered(req, "none")
  <2>1. /\ new \in Read /\ new.step = "answered" /\ new.kind = req.kind /\ new.doc = d
        /\ new.rows = {} /\ new.got = req.got /\ new.wrong = req.wrong
    BY <1>1, AnsweredParts
  <2>2. read' = [read EXCEPT ![q] = new] /\ read'[q] = new
    BY <1>3 DEF Answer, ReadInv
  <2> HIDE DEF new
  <2>3. ReqOK(q)'
    BY <1>1, <1>3, <2>1, <2>2 DEF ReqOK, Succeeded, vars
  <2> QED
    BY <1>1, <2>1, <2>2, <2>3, OneReader
<1>4. CASE /\ req.own /\ req.kind # "document" /\ docs[d].status = "ready"
           /\ read' = [read EXCEPT ![q].step = "rows", ![q].end = end]
  <2>1. docs[d].totalPages = NumPages[d] /\ Pages(d) \subseteq pages[d]
    BY <1>1, <1>4 DEF ReadInv, DocInv, RowsOK
  <2>2. end = ClampEnd(req.last, NumPages[d]) /\ end \in Int
    BY <1>1, <2>1, PagesOf DEF ClampEnd, Read
  <2> HIDE DEF end
  <2> DEFINE new == [req EXCEPT !.step = "rows", !.end = end]
  <2>3. new \in Read
    <3>1. [req EXCEPT !.step = "rows"] \in Read
      BY <1>1 DEF Read
    <3>2. \A s \in Read : [s EXCEPT !.end = end] \in Read
      BY <2>2 DEF Read
    <3> QED
      BY <3>1, <3>2
  <2>4. /\ new.step = "rows" /\ new.end = end /\ new.kind = req.kind /\ new.doc = d
        /\ new.own = req.own /\ new.first = req.first /\ new.last = req.last
        /\ new.rows = req.rows /\ new.got = req.got /\ new.wrong = req.wrong
    BY <1>1 DEF Read
  <2>5. read' = [read EXCEPT ![q] = new] /\ read'[q] = new
    BY <1>4 DEF ReadInv
  <2> HIDE DEF new
  <2>6. ReqOK(q)'
    BY <1>1, <1>4, <2>1, <2>2, <2>4, <2>5 DEF ReqOK, Succeeded, vars
  <2> QED
    BY <1>1, <2>3, <2>4, <2>5, <2>6, OneReader
<1> QED
  BY <1>2, <1>3, <1>4 DEF ReadDocument

\* The rows that GetPageRange selects are the pages that were asked for.
LEMMA RangeSelected ==
  ASSUME NEW req \in Read, req.doc \in DocIds, req.kind = "range", req.first >= 1,
         req.end = ClampEnd(req.last, NumPages[req.doc]), pages[req.doc] = Pages(req.doc)
  PROVE  Selected(req) = Wanted(req)
<1>1. req.first \in Int /\ req.last \in Int
  BY DEF Read
<1>2. ClampStart(req.first) = req.first
  BY <1>1 DEF ClampStart
<1>3. Selected(req) = Pages(req.doc) \cap (req.first .. req.end)
  BY <1>2 DEF Selected
<1>4. Wanted(req) = {n \in Pages(req.doc) : req.first <= n /\ n <= req.last}
  BY DEF Wanted
<1> QED
  BY <1>1, <1>3, <1>4, PagesOf DEF ClampEnd

LEMMA ReadRowsInv ==
  ASSUME ReadInv, NEW q \in Readers, ReadRows(q)
  PROVE  read' \in [Readers -> Read] /\ ReadsOK'
<1> DEFINE req == read[q]
           d == req.doc
           sel == Selected(req)
<1>1. /\ req \in Read /\ ReqOK(q) /\ d \in DocIds /\ req.step = "rows"
      /\ UNCHANGED vars
  BY DEF ReadInv, ReadsOK, ReqOK, ReadRows
<1>2. sel \subseteq pages[d] /\ sel \subseteq Nat
  BY <1>1 DEF Selected, ReadInv, DocInv, TypeOK
<1>3. /\ docs[d].status # "deleted" => pages[d] = Pages(d)
      /\ docs[d].status = "deleted" => sel = {}
      /\ \A n \in sel : <<d, n>> \in objects
  BY <1>1, <1>2 DEF ReadInv, DocInv, RowsOK, ReqOK, Exists
<1>4. /\ req.kind = "page" /\ sel # {} => sel = Wanted(req)
      /\ req.kind = "all" => sel = Wanted(req) \/ docs[d].status = "deleted"
      /\ req.kind = "range" /\ sel # {} => sel = Wanted(req)
  <2>1. req.kind = "page" /\ sel # {} => sel = Wanted(req)
    BY DEF Selected, Wanted
  <2>2. req.kind = "all" => sel = Wanted(req) \/ docs[d].status = "deleted"
    BY <1>3 DEF Selected, Wanted
  <2>3. req.kind = "range" /\ sel # {} => sel = Wanted(req)
    BY <1>1, <1>3, RangeSelected DEF ReqOK, ParamsOK
  <2> QED
    BY <2>1, <2>2, <2>3
<1> HIDE DEF sel
<1>5. CASE \E err \in {"notFound", "other"} : Answer(q, err)
  BY <1>1, <1>5, ErrorAnswer
<1>6. CASE /\ (req.kind = "page" /\ sel # {}) \/ req.kind = "all"
           /\ read' = [read EXCEPT ![q] = Answered([@ EXCEPT !.got = sel], "none")]
  <2> DEFINE mid == [req EXCEPT !.got = sel]
             new == Answered(mid, "none")
  <2>1. /\ mid \in Read /\ mid.got = sel /\ mid.kind = req.kind /\ mid.doc = d
        /\ mid.own = req.own /\ mid.first = req.first /\ mid.last = req.last
        /\ mid.wrong = req.wrong
    BY <1>1, <1>2 DEF Read
  <2> HIDE DEF mid
  <2>2. /\ new \in Read /\ new.step = "answered" /\ new.rows = {} /\ new.err = "none"
        /\ new.kind = mid.kind /\ new.doc = mid.doc /\ new.own = mid.own
        /\ new.first = mid.first /\ new.last = mid.last
        /\ new.got = mid.got /\ new.wrong = mid.wrong
    BY <2>1, AnsweredParts
  <2>3. read' = [read EXCEPT ![q] = new] /\ read'[q] = new
    BY <1>6 DEF ReadInv, mid
  <2> HIDE DEF new
  <2>4. Wanted(new) = Wanted(req)
    BY <2>1, <2>2 DEF Wanted
  <2>5. ReqOK(q)'
    BY <1>1, <1>3, <1>4, <1>6, <2>1, <2>2, <2>3, <2>4 DEF ReqOK, Succeeded, vars
  <2> QED
    BY <1>1, <2>2, <2>3, <2>5, OneReader
<1>7. CASE /\ req.kind = "range" /\ sel # {}
           /\ read' = [read EXCEPT ![q].step = "fetch", ![q].rows = sel]
  <2> DEFINE new == [req EXCEPT !.step = "fetch", !.rows = sel]
  <2>1. new \in Read
    <3>1. [req EXCEPT !.step = "fetch"] \in Read
      BY <1>1 DEF Read
    <3>2. \A s \in Read : [s EXCEPT !.rows = sel] \in Read
      BY <1>2 DEF Read
    <3> QED
      BY <3>1, <3>2
  <2>2. /\ new.step = "fetch" /\ new.rows = sel /\ new.kind = req.kind /\ new.doc = d
        /\ new.own = req.own /\ new.first = req.first /\ new.last = req.last
        /\ new.got = req.got /\ new.wrong = req.wrong
    BY <1>1 DEF Read
  <2>3. read' = [read EXCEPT ![q] = new] /\ read'[q] = new
    BY <1>7 DEF ReadInv
  <2> HIDE DEF new
  <2>4. Wanted(new) = Wanted(req)
    BY <2>2 DEF Wanted
  <2>5. ReqOK(q)'
    BY <1>1, <1>3, <1>4, <1>7, <2>2, <2>3, <2>4 DEF ReqOK, Succeeded, vars
  <2> QED
    BY <1>1, <2>1, <2>2, <2>3, <2>5, OneReader
<1> QED
  BY <1>5, <1>6, <1>7 DEF ReadRows, sel

LEMMA FetchPageInv ==
  ASSUME ReadInv, NEW q \in Readers, FetchPage(q)
  PROVE  read' \in [Readers -> Read] /\ ReadsOK'
<1> DEFINE req == read[q]
           d == req.doc
<1>1. /\ req \in Read /\ ReqOK(q) /\ d \in DocIds /\ req.step = "fetch"
      /\ UNCHANGED vars
  BY DEF ReadInv, ReadsOK, ReqOK, FetchPage
<1>2. PICK n \in req.rows :
        read' = [read EXCEPT ![q].rows = @ \ {n}, ![q].got = @ \cup {n},
                   ![q].wrong = IF <<d, n>> \in objects THEN @ ELSE @ \cup {n}]
  BY DEF FetchPage
<1> DEFINE wrong == IF <<d, n>> \in objects THEN req.wrong ELSE req.wrong \cup {n}
<1>3. n \in Nat /\ req.rows \ {n} \subseteq Nat /\ req.got \cup {n} \subseteq Nat
      /\ wrong \subseteq Nat
  BY <1>1, <1>2 DEF Read
<1>4. docs[d].status # "deleted" => wrong = {}
  BY <1>1, <1>2 DEF ReqOK
<1> HIDE DEF wrong
<1> DEFINE new == [req EXCEPT !.rows = @ \ {n}, !.got = @ \cup {n}, !.wrong = wrong]
<1>5. new \in Read
  <2>1. [req EXCEPT !.rows = @ \ {n}] \in Read
    BY <1>1, <1>3 DEF Read
  <2>2. \A s \in Read : [s EXCEPT !.got = req.got \cup {n}] \in Read
    BY <1>3 DEF Read
  <2>3. \A s \in Read : [s EXCEPT !.wrong = wrong] \in Read
    BY <1>3 DEF Read
  <2>4. new = [req EXCEPT !.rows = @ \ {n}, !.got = req.got \cup {n}, !.wrong = wrong]
    BY <1>1 DEF Read
  <2> QED
    BY <2>1, <2>2, <2>3, <2>4
<1>6. /\ new.rows = req.rows \ {n} /\ new.got = req.got \cup {n} /\ new.wrong = wrong
      /\ new.step = "fetch" /\ new.kind = req.kind /\ new.doc = d /\ new.own = req.own
      /\ new.first = req.first /\ new.last = req.last
  BY <1>1 DEF Read
<1>7. read' = [read EXCEPT ![q] = new] /\ read'[q] = new
  BY <1>2 DEF ReadInv, wrong
<1> HIDE DEF new
<1>8. Wanted(new) = Wanted(req)
  BY <1>6 DEF Wanted
<1>9. ReqOK(q)'
  <2>1. req.rows \cup req.got = Wanted(new) /\ n \in req.rows
    BY <1>1, <1>2, <1>8 DEF ReqOK
  <2>2. new.rows \cup new.got = req.rows \cup req.got
    BY <1>6, <2>1
  <2> QED
    BY <1>1, <1>4, <1>6, <1>7, <2>1, <2>2 DEF ReqOK, Succeeded, vars
<1> QED
  BY <1>1, <1>5, <1>6, <1>7, <1>9, OneReader

LEMMA FetchDoneInv ==
  ASSUME ReadInv, NEW q \in Readers, FetchDone(q)
  PROVE  read' \in [Readers -> Read] /\ ReadsOK'
<1> DEFINE req == read[q]
           new == Answered(req, "none")
<1>1. /\ req \in Read /\ ReqOK(q) /\ req.doc \in DocIds /\ req.step = "fetch"
      /\ req.rows = {} /\ UNCHANGED vars
  BY DEF ReadInv, ReadsOK, ReqOK, FetchDone
<1>2. /\ new \in Read /\ new.step = "answered" /\ new.rows = {} /\ new.err = "none"
      /\ new.kind = req.kind /\ new.doc = req.doc /\ new.own = req.own
      /\ new.first = req.first /\ new.last = req.last
      /\ new.got = req.got /\ new.wrong = req.wrong
  BY <1>1, AnsweredParts
<1>3. read' = [read EXCEPT ![q] = new] /\ read'[q] = new
  BY DEF FetchDone, Answer, ReadInv
<1> HIDE DEF new
<1>4. Wanted(new) = Wanted(req)
  BY <1>2 DEF Wanted
<1>5. ReqOK(q)'
  BY <1>1, <1>2, <1>3, <1>4 DEF ReqOK, Succeeded, vars
<1> QED
  BY <1>1, <1>2, <1>3, <1>5, OneReader

LEMMA ReaderInv ==
  ASSUME ReadInv, NEW q \in Readers,
         \/ \E d \in DocIds, own \in BOOLEAN : Ask(q, d, own)
         \/ ReadDocument(q) \/ ReadRows(q) \/ FetchPage(q) \/ FetchPageFails(q)
         \/ FetchDone(q) \/ Receive(q)
  PROVE  read' \in [Readers -> Read] /\ ReadsOK'
<1>1. CASE FetchPageFails(q)
  <2>1. ReqOK(q)
    BY <1>1 DEF ReadInv, ReadsOK, FetchPageFails
  <2> QED
    BY <1>1, <2>1, ErrorAnswer DEF FetchPageFails
<1>2. CASE Receive(q)
  <2>1. NoRead \in Read /\ NoRead.step = "idle" /\ NoRead.doc = None
    BY DEF NoRead, Read
  <2> QED
    BY <1>2, <2>1, OneReader DEF Receive
<1> QED
  BY <1>1, <1>2, AskInv, ReadDocumentInv, ReadRowsInv, FetchPageInv, FetchDoneInv

LEMMA ReadNextInv == ReadInv /\ [ReadNext]_readVars => ReadInv'
<1> SUFFICES ASSUME ReadInv, [ReadNext]_readVars PROVE ReadInv'
  OBVIOUS
<1>1. [Next]_vars /\ DocInv'
  BY ReadNextIsNext, DocNextInv DEF ReadInv
<1>2. CASE UNCHANGED read
  <2>1. ASSUME NEW q \in Readers, read[q].step # "idle" PROVE ReqOK(q)'
    <3>1. ReqOK(q) /\ read[q].doc \in DocIds
      BY <2>1 DEF ReadInv, ReadsOK, ReqOK
    <3>2. Grows(read[q].doc)
      BY <1>1, <3>1, StepGrows DEF ReadInv
    <3> QED
      BY <1>2, <3>1, <3>2, ReqKept
  <2> QED
    BY <1>1, <1>2, <2>1 DEF ReadInv, ReadsOK
<1>3. CASE read' = [q \in Readers |-> NoRead]
  <2>1. NoRead \in Read /\ NoRead.step = "idle" /\ NoRead.doc = None
    BY DEF NoRead, Read
  <2> QED
    BY <1>1, <1>3, <2>1 DEF ReadInv, ReadsOK
<1>4. CASE ~UNCHANGED read /\ read' # [q \in Readers |-> NoRead]
  BY <1>1, <1>4, ReaderInv DEF ReadNext, readVars, ReadInv
<1> QED
  BY <1>2, <1>3, <1>4

\* Every reachable state satisfies the inductive invariant.
THEOREM ReadInvariance == ReadSpec => []ReadInv
  BY ReadInitInv, ReadNextInv, PTL DEF ReadSpec

\* Every reachable state is well typed, the parameters and answers of the
\* requests included.
THEOREM ReadsTypeCorrect == ReadSpec => []ReadTypeOK
<1>1. ReadInv => ReadTypeOK
  BY DEF ReadInv, DocInv, ReadTypeOK
<1> QED
  BY <1>1, ReadInvariance, PTL

\* GetPage, GetPageRange and ListPages hand out, when they succeed, exactly the
\* pages the owner asked for, although they read the document and its pages by
\* separate statements; only a list may be short, of a document deleted meanwhile.
THEOREM ReadsAreExact == ReadSpec => []HandedOutExactly
<1>1. ReadInv => HandedOutExactly
  BY DEF ReadInv, ReadsOK, ReqOK, HandedOutExactly, Succeeded
<1> QED
  BY <1>1, ReadInvariance, PTL

\* The URLs and ZIP entries they hand out are of pages that are there, for as
\* long as the document is not deleted.
THEOREM ReadsAreReadable == ReadSpec => []HandedOutReadable
<1>1. ReadInv => HandedOutReadable
  BY DEF ReadInv, ReadsOK, ReqOK, HandedOutReadable
<1> QED
  BY <1>1, ReadInvariance, PTL

=============================================================================
