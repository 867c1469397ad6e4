--------------------------- MODULE DocumentsProofs ---------------------------
(* Proofs about the document pipeline: what the theorems of the queue say of    *)
(* the extraction tasks, and the inductive invariant of rows, objects, runs,    *)
(* tasks and notices from which the safety properties follow.                   *)
EXTENDS Documents, TLAPS

\* The theorems of AsynqProofs, for the extraction tasks.
QueueFacts == INSTANCE AsynqProofs WITH Jobs <- DocIds

\* What is assumed of the constants here is what the queue assumes of its own.
LEMMA QueueAssumptions ==
  MaxRetry \in Nat /\ CallsMayFail \in BOOLEAN /\ MayStop \in BOOLEAN /\ None \notin DocIds
  BY DocumentsAssumption

Creates(d) == CreateDocument(d) \/ CreateDocumentFails(d)

\* A step of an upload enqueues the task of its document or leaves the queue alone.
LEMMA UploadStepQueue ==
  ASSUME NEW d \in DocIds, Creates(d) \/ UploadStep(d)
  PROVE  Queue!Next \/ UNCHANGED Queue!vars
<1>1. CASE Creates(d) \/ StoreOriginal(d) \/ StoreOriginalFails(d)
           \/ UpdateOriginalPath(d)
  BY <1>1 DEF Creates, CreateDocument, CreateDocumentFails, StoreOriginal, StoreOriginalFails, UpdateOriginalPath,
              Queue!vars
<1>2. CASE EnqueueTask(d)
  BY <1>2, Zenon DEF EnqueueTask, Queue!Next
<1>3. CASE UploadAborts(d)
  <2>1. UNCHANGED run /\ (UNCHANGED task \/ Queue!Enqueue(d))
    BY <1>3 DEF UploadAborts
  <2> QED
    BY <2>1, Zenon DEF Queue!Next, Queue!vars
<1> QED
  BY <1>1, <1>2, <1>3 DEF UploadStep

\* Deletions, the clock, the watchdog and registrations do not touch the queue.
LEMMA OthersQueue ==
  ASSUME NEW d \in DocIds, 
         \/ ListPages(d) \/ DeleteStep(d) \/ Age(d) \/ Sweep
         \/ \E w \in Hooks : RegisterWebhook(d, w)
  PROVE  UNCHANGED Queue!vars
  BY DEF ListPages, DeleteStep, DeleteRow, DeleteRowFails, RemoveOriginal, RemovePage,
         DeletionDone, Age, Sweep, RegisterWebhook, Queue!vars

\* Of the steps of HandleExtractPages only its return concerns the queue.
LEMMA RunStepQueue ==
  ASSUME NEW r \in Runs, RunStep(r)
  PROVE  Queue!Next \/ UNCHANGED Queue!vars
<1>1. CASE Return(r)
  <2>1. (work[r].step = "succeeded") \in BOOLEAN
    OBVIOUS
  <2> QED
    BY <1>1, <2>1 DEF Return, Queue!Next
<1>2. CASE \E n \in work[r].todo : UploadPage(r, n) \/ UploadPageFails(r, n)
  BY <1>2 DEF UploadPage, UploadPageFails, Queue!vars
<1>3. CASE \E n \in work[r].stored : SavePage(r, n)
  BY <1>3 DEF SavePage, Queue!vars
<1>4. CASE FetchDocument(r) \/ FetchFails(r) \/ Download(r) \/ DownloadFails(r)
           \/ PagesDone(r) \/ MarkReady(r) \/ MarkReadyFails(r) \/ MarkFailed(r)
           \/ EnqueueWebhooks(r)
  BY <1>4 DEF FetchDocument, FetchFails, Download, DownloadFails, PagesDone, MarkReady,
              MarkReadyFails, MarkFailed, EnqueueWebhooks, Queue!vars
<1> QED
  BY <1>1, <1>2, <1>3, <1>4 DEF RunStep

\* Every step is a step of the queue or leaves it alone, so that the lemmas about the
\* queue apply.
LEMMA NextQueue == [Next]_vars => [Queue!Next]_(Queue!vars)
<1> SUFFICES ASSUME [Next]_vars PROVE Queue!Next \/ UNCHANGED Queue!vars
  OBVIOUS
<1>1. ASSUME NEW d \in DocIds, Recover(d) \/ \E r \in Runs : Dequeue(r, d)
      PROVE  Queue!Next
  BY <1>1, Zenon DEF Recover, Dequeue, Queue!Next
<1>2. ASSUME NEW r \in Runs, GiveUp(r) PROVE Queue!Next
  BY <1>2, Zenon DEF GiveUp, Queue!Next
<1>3. CASE Crash \/ Shutdown
  BY <1>3, Zenon DEF Crash, Shutdown, Queue!Next
<1>4. CASE Sweep
  BY <1>4 DEF Sweep, Queue!vars
<1>5. CASE UNCHANGED vars
  BY <1>5 DEF vars, Queue!vars
<1>6. CASE Step
  BY <1>1, <1>2, <1>4, <1>6, UploadStepQueue, OthersQueue, RunStepQueue, Zenon
  DEF Step, Creates
<1> QED
  BY <1>3, <1>5, <1>6 DEF Next

\* Queue and QueueFacts are the same queue.
LEMMA SameQueue ==
  /\ Queue!Init => QueueFacts!Init
  /\ [Queue!Next]_(Queue!vars) => [QueueFacts!Next]_(QueueFacts!vars)
<1>1. Queue!Init => QueueFacts!Init
  BY DEF Queue!Init, QueueFacts!Init, Queue!NoRun, QueueFacts!NoRun
<1>2. [Queue!Next]_(Queue!vars) => [QueueFacts!Next]_(QueueFacts!vars)
  BY Zenon
  DEF Queue!Next, Queue!Enqueue, Queue!Recover, Queue!Dequeue, Queue!TimeOut,
      Queue!LoseLease, Queue!Return, Queue!Crash, Queue!Shutdown, Queue!Retry,
      Queue!Busy, Queue!NoRun, Queue!vars,
      QueueFacts!Next, QueueFacts!Enqueue, QueueFacts!Recover, QueueFacts!Dequeue,
      QueueFacts!TimeOut, QueueFacts!LoseLease, QueueFacts!Return, QueueFacts!Crash,
      QueueFacts!Shutdown, QueueFacts!Retry, QueueFacts!Busy, QueueFacts!NoRun,
      QueueFacts!vars
<1> QED
  BY <1>1, <1>2

\* What the queue keeps invariant, in the terms of this module.
QueueOK ==
  /\ Queue!TypeOK
  /\ \A r \in Runs : run[r].ctx => run[r].job \in DocIds
  /\ Queue!OneLiveRun

LEMMA QueueOKIsInv == QueueOK <=> QueueFacts!QueueInv
  BY DEF QueueOK, Queue!TypeOK, Queue!Task, Queue!Run, Queue!OneLiveRun,
         QueueFacts!QueueInv, QueueFacts!TypeOK, QueueFacts!Task, QueueFacts!Run,
         QueueFacts!LiveHasJob, QueueFacts!OneLiveRun

LEMMA QueueInitOK == Init => QueueOK
  BY QueueAssumptions, QueueFacts!InitInv, SameQueue, QueueOKIsInv DEF Init

LEMMA QueueNextOK == QueueOK /\ [Next]_vars => QueueOK'
<1> SUFFICES ASSUME QueueOK, [Next]_vars PROVE QueueOK'
  OBVIOUS
<1>1. QueueFacts!QueueInv'
  BY QueueAssumptions, NextQueue, SameQueue, QueueOKIsInv, QueueFacts!NextInv
<1> QED
  BY <1>1, QueueOKIsInv, PTL

\* Asynq waits for at most one live run of the extraction of a document, and for
\* none unless its task is active, however many goroutines it has given up on.
THEOREM OneExtractionAtATime == Spec => []Queue!OneLiveRun
<1>1. QueueOK => Queue!OneLiveRun
  BY DEF QueueOK
<1> QED
  BY <1>1, QueueInitOK, QueueNextOK, PTL DEF Spec

-----------------------------------------------------------------------------
(* The inductive invariant of the pipeline. *)

\* The rows of pages are pages of the document, stored, and gone with the
\* document; a ready document has all of them; objects are removed only after the
\* document's row.
RowsOK ==
  \A d \in DocIds :
    /\ pages[d] \subseteq Pages(d)
    /\ \A n \in pages[d] : Exists(d) /\ <<d, n>> \in objects
    /\ docs[d].status = "ready" =>
         docs[d].totalPages = NumPages[d] /\ Pages(d) \subseteq pages[d]
    /\ delete[d].step \in {"original", "pages"} => docs[d].status = "deleted"

\* The extraction of d has ended well at least once, whatever the status says now.
Extracted(d) ==
  docs[d].status \in {"ready", "failed"} /\ docs[d].totalPages = NumPages[d]

\* What run r knows of its document unless that is deleted: pages it has stored
\* are there; each page has its row, or is stored, or still to do, or has failed;
\* a run that is past wg.Wait without an error has all the rows, and one that is
\* past MarkReady leaves an extracted document behind.
RunOK(r) ==
  LET d == run[r].job IN
  /\ d \in DocIds /\ docs[d].status # "unused"
  /\ work[r].todo \subseteq Pages(d) /\ work[r].stored \subseteq Pages(d)
  /\ docs[d].status # "deleted" =>
       /\ \A n \in work[r].stored : <<d, n>> \in objects
       /\ work[r].step = "extract" /\ ~work[r].err =>
            Pages(d) \subseteq pages[d] \cup work[r].todo \cup work[r].stored
       /\ work[r].step \in {"markReady", "hooksReady", "succeeded"} =>
            Pages(d) \subseteq pages[d]
       /\ work[r].step \in {"hooksReady", "succeeded"} => Extracted(d)

WorkOK == \A r \in Runs : work[r].step # "idle" => RunOK(r)

\* Only a document that was created has an upload or a task; the task is completed
\* only when the document is extracted and has all its rows, or is deleted.
TasksOK ==
  \A d \in DocIds :
    /\ upload[d] # "none" \/ task[d].st # "none" => docs[d].status # "unused"
    /\ task[d].st = "completed" /\ docs[d].status # "deleted" =>
         Extracted(d) /\ Pages(d) \subseteq pages[d]

\* A document that was announced as ready has all its rows until it is deleted.
NoticesOK ==
  \A w \in Hooks, d \in DocIds :
    <<w, d, "ready">> \in notices /\ docs[d].status # "deleted" => Pages(d) \subseteq pages[d]

DocInv == TypeOK /\ QueueOK /\ RowsOK /\ WorkOK /\ TasksOK /\ NoticesOK

LEMMA DocInitInv == Init => DocInv
<1> SUFFICES ASSUME Init PROVE DocInv
  OBVIOUS
<1>1. QueueOK
  BY QueueInitOK
<1>2. TypeOK
  BY <1>1, DocumentsAssumption
  DEF Init, TypeOK, QueueOK, Document, NoDocument, Deletion, NoDeletion, Work, NoWork
<1>3. RowsOK /\ WorkOK /\ TasksOK /\ NoticesOK
  BY DEF Init, Queue!Init, RowsOK, WorkOK, TasksOK, NoticesOK, NoDocument, NoDeletion, NoWork
<1> QED
  BY <1>1, <1>2, <1>3 DEF DocInv

-----------------------------------------------------------------------------
(* Type correctness.  Queue!TypeOK' is known from QueueOK'. *)

LEMMA NullTypes == NoDeletion \in Deletion /\ NoWork \in Work
  BY DEF NoDeletion, Deletion, NoWork, Work

LEMMA SetStatusType ==
  ASSUME TypeOK, NEW d \in DocIds, SetStatus(d, "failed")
  PROVE  docs' \in [DocIds -> Document]
  BY DEF TypeOK, SetStatus, Document

LEMMA GotoStepType ==
  ASSUME TypeOK, NEW r \in Runs,
         NEW step \in {"download", "markReady", "markFailed", "hooksReady", "hooksFailed",
                       "succeeded", "erred"},
         GotoStep(r, step)
  PROVE  work' \in [Runs -> Work]
  BY DEF TypeOK, GotoStep, Work

LEMMA UploadType ==
  ASSUME TypeOK, Queue!TypeOK', NEW d \in DocIds, Creates(d) \/ UploadStep(d)
  PROVE  TypeOK'
<1>1. CASE Creates(d)
  BY <1>1 DEF TypeOK, Creates, CreateDocument, CreateDocumentFails, Document
<1>2. CASE StoreOriginal(d) \/ StoreOriginalFails(d)
  <2>1. docs' \in [DocIds -> Document]
    BY <1>2, SetStatusType DEF TypeOK, StoreOriginal, StoreOriginalFails, dbVars
  <2>2. objects' \subseteq DocIds \X Nat
    BY <1>2 DEF TypeOK, StoreOriginal, StoreOriginalFails, Original
  <2>3. upload' \in [DocIds -> {"none", "store", "patch", "enqueue", "done"}]
    BY <1>2 DEF TypeOK, StoreOriginal, StoreOriginalFails
  <2> QED
    BY <1>2, <2>1, <2>2, <2>3 DEF TypeOK, StoreOriginal, StoreOriginalFails, dbVars
<1>3. CASE UpdateOriginalPath(d)
  BY <1>3 DEF TypeOK, UpdateOriginalPath, SetPath, Document
<1>4. CASE EnqueueTask(d)
  BY <1>4 DEF TypeOK, EnqueueTask, dbVars
<1>5. CASE UploadAborts(d)
  <2>1. docs' \in [DocIds -> Document]
    <3>1. UNCHANGED docs \/ SetPath(d)
      BY <1>5 DEF UploadAborts
    <3>2. CASE SetPath(d)
      BY <3>2 DEF TypeOK, SetPath, Document
    <3> QED
      BY <3>1, <3>2 DEF TypeOK
  <2> QED
    BY <1>5, <2>1 DEF TypeOK, UploadAborts
<1> QED
  BY <1>1, <1>2, <1>3, <1>4, <1>5 DEF UploadStep

LEMMA DeleteType ==
  ASSUME TypeOK, Queue!TypeOK', NEW d \in DocIds, ListPages(d) \/ DeleteStep(d)
  PROVE  TypeOK'
<1>1. CASE ListPages(d)
  BY <1>1 DEF TypeOK, ListPages, Deletion, NoDeletion, dbVars
<1>2. CASE DeleteRow(d)
  <2>1. docs' \in [DocIds -> Document]
    BY <1>2 DEF TypeOK, DeleteRow, RemoveRow, Document
  <2>2. delete' \in [DocIds -> Deletion]
    <3>1. docs[d].path \in BOOLEAN
      BY DEF TypeOK, Document
    <3> QED
      BY <1>2, <3>1 DEF TypeOK, DeleteRow, Deletion
  <2> QED
    BY <1>2, <2>1, <2>2 DEF TypeOK, DeleteRow, RemoveRow
<1>3. CASE RemoveOriginal(d) \/ DeletionDone(d)
  <2>1. delete' \in [DocIds -> Deletion]
    BY <1>3, NullTypes DEF TypeOK, RemoveOriginal, DeletionDone, Deletion
  <2>2. objects' \subseteq DocIds \X Nat
    BY <1>3 DEF TypeOK, RemoveOriginal, DeletionDone
  <2> QED
    BY <1>3, <2>1, <2>2 DEF TypeOK, RemoveOriginal, DeletionDone, dbVars
<1>4. CASE RemovePage(d)
  BY <1>4 DEF TypeOK, RemovePage, Deletion, dbVars
<1>5. CASE DeleteRowFails(d)
  <2>1. docs' \in [DocIds -> Document]
    BY <1>5 DEF TypeOK, DeleteRowFails, RemoveRow, Document
  <2>2. delete' \in [DocIds -> Deletion]
    BY <1>5, NullTypes DEF TypeOK, DeleteRowFails
  <2> QED
    BY <1>5, <2>1, <2>2 DEF TypeOK, DeleteRowFails, RemoveRow
<1> QED
  BY <1>1, <1>2, <1>3, <1>4, <1>5 DEF DeleteStep

LEMMA OthersType ==
  ASSUME TypeOK, Queue!TypeOK',
         \/ Sweep \/ Crash \/ Shutdown
         \/ \E r \in Runs : GiveUp(r)
         \/ \E e \in DocIds : \/ Age(e) \/ Recover(e)
                              \/ \E w \in Hooks : RegisterWebhook(e, w)
                              \/ \E r \in Runs : Dequeue(r, e)
  PROVE  TypeOK'
<1>1. CASE (\E e \in DocIds : Age(e) \/ Recover(e)) \/ \E r \in Runs : GiveUp(r)
  BY <1>1 DEF TypeOK, Age, Recover, GiveUp, dbVars
<1>2. CASE Sweep
  BY <1>2 DEF TypeOK, Sweep, Stuck, Document
<1>3. CASE Crash \/ Shutdown
  BY <1>3, NullTypes DEF TypeOK, Crash, Shutdown, ProcessGone, dbVars
<1>4. CASE \E e \in DocIds, w \in Hooks : RegisterWebhook(e, w)
  BY <1>4 DEF TypeOK, RegisterWebhook
<1>5. CASE \E e \in DocIds, r \in Runs : Dequeue(r, e)
  <2>1. [NoWork EXCEPT !.step = "fetch"] \in Work
    BY DEF NoWork, Work
  <2> QED
    BY <1>5, <2>1 DEF TypeOK, Dequeue, dbVars
<1> QED
  BY <1>1, <1>2, <1>3, <1>4, <1>5

\* The goroutine that takes a step is in its handler.
LEMMA RunStepWorks ==
  ASSUME NEW r \in Runs, RunStep(r) PROVE work[r].step # "idle"
<1>1. CASE \E n \in work[r].todo : UploadPage(r, n) \/ UploadPageFails(r, n)
  BY <1>1 DEF UploadPage, UploadPageFails
<1>2. CASE \E n \in work[r].stored : SavePage(r, n)
  BY <1>2 DEF SavePage
<1>3. CASE EnqueueWebhooks(r) \/ Return(r)
  BY <1>3 DEF EnqueueWebhooks, Return
<1>4. CASE FetchDocument(r) \/ FetchFails(r) \/ Download(r) \/ DownloadFails(r)
           \/ PagesDone(r) \/ MarkReady(r) \/ MarkReadyFails(r) \/ MarkFailed(r)
  BY <1>4 DEF FetchDocument, FetchFails, Download, DownloadFails, PagesDone, MarkReady,
              MarkReadyFails, MarkFailed
<1> QED
  BY <1>1, <1>2, <1>3, <1>4 DEF RunStep

LEMMA RunStepType ==
  ASSUME TypeOK, WorkOK, Queue!TypeOK', NEW r \in Runs, RunStep(r)
  PROVE  TypeOK'
<1> DEFINE d == run[r].job
<1>1. d \in DocIds /\ NumPages[d] \in Nat /\ Pages(d) \subseteq Nat
  <2>1. work[r].step # "idle"
    BY RunStepWorks
  <2> QED
    BY <2>1, DocumentsAssumption DEF WorkOK, RunOK, Pages
<1>2. CASE FetchDocument(r) \/ FetchFails(r) \/ DownloadFails(r) \/ PagesDone(r)
  BY <1>2 DEF TypeOK, Work, FetchDocument, FetchFails, DownloadFails, PagesDone,
              GotoStep, dbVars
<1>3. CASE Download(r)
  BY <1>1, <1>3 DEF TypeOK, Work, Download, dbVars
<1>4. CASE \E n \in work[r].todo : UploadPage(r, n) \/ UploadPageFails(r, n)
  BY <1>1, <1>4 DEF TypeOK, Work, UploadPage, UploadPageFails, dbVars
<1>5. CASE \E n \in work[r].stored : SavePage(r, n)
  BY <1>1, <1>5 DEF TypeOK, Work, SavePage
<1>6. CASE MarkReady(r) \/ MarkReadyFails(r)
  <2>1. docs' \in [DocIds -> Document]
    BY <1>1, <1>6 DEF TypeOK, Document, MarkReady, MarkReadyFails, SetReady
  <2> QED
    BY <1>6, <2>1, GotoStepType DEF TypeOK, MarkReady, MarkReadyFails
<1>7. CASE MarkFailed(r)
  <2>1. docs' \in [DocIds -> Document]
    BY <1>1, <1>7, SetStatusType DEF TypeOK, MarkFailed
  <2> QED
    BY <1>7, <2>1, GotoStepType DEF TypeOK, MarkFailed
<1>8. CASE EnqueueWebhooks(r)
  BY <1>1, <1>8 DEF TypeOK, Work, EnqueueWebhooks, GotoStep, dbVars
<1>9. CASE Return(r)
  BY <1>9 DEF TypeOK, Work, Return, NoWork, dbVars
<1> QED
  BY <1>2, <1>3, <1>4, <1>5, <1>6, <1>7, <1>8, <1>9 DEF RunStep

-----------------------------------------------------------------------------
(* What every step does to a document. *)

\* Unless d is deleted, no row and no object of it disappears in this step, it stays
\* created, and an extracted document stays extracted.
Grows(d) ==
  docs'[d].status # "deleted" =>
    /\ docs[d].status # "deleted"
    /\ pages[d] \subseteq pages'[d]
    /\ \A n \in Nat : <<d, n>> \in objects => <<d, n>> \in objects'
    /\ docs[d].status # "unused" => docs'[d].status # "unused"
    /\ Extracted(d) => docs'[d].status \in {"ready", "failed"} /\ docs'[d].totalPages = NumPages[d]

LEMMA UploadGrows ==
  ASSUME DocInv, NEW e \in DocIds, Creates(e) \/ UploadStep(e), NEW d \in DocIds
  PROVE  Grows(d)
<1>1. CASE Creates(e)
  BY <1>1 DEF DocInv, TypeOK, Grows, Extracted, Creates, CreateDocument,
              CreateDocumentFails, Document
<1>2. CASE StoreOriginal(e) \/ EnqueueTask(e)
  BY <1>2 DEF Grows, Extracted, StoreOriginal, EnqueueTask, dbVars
<1>3. CASE StoreOriginalFails(e)
  BY <1>3 DEF DocInv, TypeOK, Grows, Extracted, StoreOriginalFails, SetStatus, Document, Exists
<1>4. CASE UpdateOriginalPath(e) \/ UploadAborts(e)
  <2>1. (UNCHANGED docs \/ SetPath(e)) /\ UNCHANGED <<pages, objects>>
    BY <1>4 DEF UpdateOriginalPath, UploadAborts
  <2>2. CASE SetPath(e)
    BY <2>1, <2>2 DEF DocInv, TypeOK, Grows, Extracted, SetPath, Document
  <2> QED
    BY <2>1, <2>2 DEF Grows, Extracted
<1> QED
  BY <1>1, <1>2, <1>3, <1>4 DEF UploadStep

LEMMA DeleteGrows ==
  ASSUME DocInv, NEW e \in DocIds, ListPages(e) \/ DeleteStep(e), NEW d \in DocIds
  PROVE  Grows(d)
<1>1. CASE ListPages(e) \/ DeletionDone(e)
  BY <1>1 DEF Grows, Extracted, ListPages, DeletionDone, dbVars
<1>2. CASE DeleteRow(e) \/ DeleteRowFails(e)
  BY <1>2 DEF DocInv, TypeOK, Grows, Extracted, DeleteRow, DeleteRowFails, RemoveRow,
              Document
<1>3. CASE RemoveOriginal(e) \/ RemovePage(e)
  <2>1. docs[e].status = "deleted" /\ UNCHANGED <<docs, pages>>
    BY <1>3 DEF DocInv, RowsOK, RemoveOriginal, RemovePage, dbVars
  <2>2. d # e => \A n \in Nat : <<d, n>> \in objects => <<d, n>> \in objects'
    BY <1>3 DEF RemoveOriginal, RemovePage
  <2> QED
    BY <2>1, <2>2 DEF Grows, Extracted
<1> QED
  BY <1>1, <1>2, <1>3 DEF DeleteStep

LEMMA RunStepGrows ==
  ASSUME DocInv, NEW r \in Runs, RunStep(r), NEW d \in DocIds
  PROVE  Grows(d)
<1>1. CASE FetchDocument(r) \/ FetchFails(r) \/ Download(r) \/ DownloadFails(r)
           \/ PagesDone(r) \/ EnqueueWebhooks(r) \/ Return(r)
  BY <1>1 DEF Grows, Extracted, FetchDocument, FetchFails, Download, DownloadFails,
              PagesDone, EnqueueWebhooks, Return, dbVars
<1>2. CASE MarkFailed(r)
  BY <1>2 DEF DocInv, TypeOK, Grows, Extracted, MarkFailed, SetStatus, Document, Exists
<1>3. CASE MarkReady(r) \/ MarkReadyFails(r)
  BY <1>3 DEF DocInv, TypeOK, Grows, Extracted, MarkReady, MarkReadyFails, SetReady,
              Document, Exists
<1>4. CASE \E n \in work[r].todo : UploadPage(r, n) \/ UploadPageFails(r, n)
  BY <1>4 DEF Grows, Extracted, UploadPage, UploadPageFails, dbVars
<1>5. CASE \E n \in work[r].stored : SavePage(r, n)
  BY <1>5 DEF DocInv, TypeOK, Grows, Extracted, SavePage
<1> QED
  BY <1>1, <1>2, <1>3, <1>4, <1>5 DEF RunStep

LEMMA OthersGrow ==
  ASSUME DocInv, NEW d \in DocIds,
         \/ Sweep \/ Crash \/ Shutdown \/ UNCHANGED vars
         \/ \E r \in Runs : GiveUp(r)
         \/ \E e \in DocIds : \/ Age(e) \/ Recover(e)
                              \/ \E w \in Hooks : RegisterWebhook(e, w)
                              \/ \E r \in Runs : Dequeue(r, e)
  PROVE  Grows(d)
<1>1. CASE Sweep
  BY <1>1 DEF DocInv, TypeOK, Grows, Extracted, Sweep, Stuck, Document
<1>2. CASE ~Sweep
  BY <1>2 DEF Grows, Extracted, Crash, Shutdown, ProcessGone, GiveUp, Age, Recover, RegisterWebhook,
              Dequeue, dbVars, vars
<1> QED
  BY <1>1, <1>2

LEMMA StepGrows ==
  ASSUME DocInv, [Next]_vars, NEW d \in DocIds
  PROVE  Grows(d)
  BY UploadGrows, DeleteGrows, RunStepGrows, OthersGrow, Zenon
  DEF Next, Step, Creates

-----------------------------------------------------------------------------
(* The rows. *)

\* Every step keeps RowsOK that leaves the rows and the deletions alone.
LEMMA RowsKept ==
  ASSUME DocInv, UNCHANGED <<docs, pages>>, \A d \in DocIds : Grows(d),
         \A d \in DocIds : delete'[d].step \in {"original", "pages"} =>
                             delete[d].step \in {"original", "pages"}
  PROVE  RowsOK'
<1>1. ASSUME NEW d \in DocIds, NEW n \in pages[d]
      PROVE  Exists(d) /\ <<d, n>> \in objects'
  <2>1. Exists(d) /\ <<d, n>> \in objects /\ n \in Nat
    BY <1>1 DEF DocInv, TypeOK, RowsOK
  <2> QED
    BY <2>1 DEF Grows, Exists
<1> QED
  BY <1>1 DEF DocInv, RowsOK, Exists

\* A document that fails loses nothing and promises nothing.
LEMMA StatusFailedRows ==
  ASSUME DocInv, NEW e \in DocIds, SetStatus(e, "failed"),
         UNCHANGED <<pages, delete>>, objects \subseteq objects'
  PROVE  RowsOK'
  BY DEF DocInv, TypeOK, RowsOK, SetStatus, Document, Exists

LEMMA UploadRows ==
  ASSUME DocInv, NEW e \in DocIds, Creates(e) \/ UploadStep(e),
         \A d \in DocIds : Grows(d)
  PROVE  RowsOK'
<1>1. CASE Creates(e)
  BY <1>1 DEF DocInv, TypeOK, RowsOK, Creates, CreateDocument, CreateDocumentFails,
              Document, Exists
<1>2. CASE StoreOriginal(e) \/ EnqueueTask(e)
  BY <1>2, RowsKept DEF StoreOriginal, EnqueueTask, dbVars
<1>3. CASE UpdateOriginalPath(e) \/ UploadAborts(e)
  <2>1. (UNCHANGED docs \/ SetPath(e)) /\ UNCHANGED <<pages, objects, delete>>
    BY <1>3 DEF UpdateOriginalPath, UploadAborts
  <2> QED
    BY <2>1 DEF DocInv, TypeOK, RowsOK, SetPath, Document, Exists
<1>4. CASE StoreOriginalFails(e)
  <2>1. UNCHANGED <<pages, delete>> /\ objects \subseteq objects'
    BY <1>4 DEF StoreOriginalFails
  <2>2. CASE UNCHANGED docs
    BY <2>1, <2>2, RowsKept
  <2>3. CASE SetStatus(e, "failed")
    BY <2>1, <2>3, StatusFailedRows
  <2> QED
    BY <1>4, <2>2, <2>3 DEF StoreOriginalFails
<1> QED
  BY <1>1, <1>2, <1>3, <1>4 DEF UploadStep

LEMMA DeleteRows ==
  ASSUME DocInv, NEW e \in DocIds, ListPages(e) \/ DeleteStep(e),
         \A d \in DocIds : Grows(d)
  PROVE  RowsOK'
<1>1. CASE RemoveRow(e) /\ (DeleteRow(e) \/ DeleteRowFails(e))
  <2>1. UNCHANGED objects /\ \A d \in DocIds : d # e => delete'[d] = delete[d]
    BY <1>1 DEF DocInv, TypeOK, DeleteRow, DeleteRowFails
  <2> QED
    BY <1>1, <2>1 DEF DocInv, TypeOK, RowsOK, RemoveRow, Document, Exists
<1>2. CASE ~(RemoveRow(e) /\ (DeleteRow(e) \/ DeleteRowFails(e)))
  <2>1. UNCHANGED <<docs, pages>>
    BY <1>2 DEF DeleteStep, ListPages, DeleteRow, DeleteRowFails, RemoveOriginal, RemovePage,
                DeletionDone, dbVars
  <2>2. ASSUME NEW d \in DocIds, delete'[d].step \in {"original", "pages"}
        PROVE  delete[d].step \in {"original", "pages"}
    <3>1. CASE ListPages(e) \/ DeleteRowFails(e) \/ DeletionDone(e)
      <4>1. delete'[e].step \in {"none", "row"}
        <5>1. /\ NoDeletion.step = "none"
              /\ [NoDeletion EXCEPT !.step = "row", !.pages = pages[e]].step = "row"
          BY DEF NoDeletion
        <5>2. delete'[e] \in {NoDeletion, [NoDeletion EXCEPT !.step = "row", !.pages = pages[e]]}
          BY <3>1 DEF DocInv, TypeOK, ListPages, DeleteRowFails, DeletionDone
        <5> QED
          BY <5>1, <5>2
      <4>2. d # e => delete'[d] = delete[d]
        BY <3>1 DEF DocInv, TypeOK, ListPages, DeleteRowFails, DeletionDone
      <4> QED
        BY <2>2, <4>1, <4>2
    <3>2. CASE RemoveOriginal(e)
      BY <2>2, <3>2 DEF DocInv, TypeOK, RemoveOriginal, Deletion
    <3>3. CASE RemovePage(e)
      BY <2>2, <3>3 DEF DocInv, TypeOK, RemovePage, Deletion
    <3> QED
      BY <1>2, <3>1, <3>2, <3>3 DEF DeleteStep, DeleteRow
  <2> QED
    BY <2>1, <2>2, RowsKept
<1> QED
  BY <1>1, <1>2

LEMMA RunStepRows ==
  ASSUME DocInv, NEW r \in Runs, RunStep(r), \A d \in DocIds : Grows(d)
  PROVE  RowsOK'
<1> DEFINE e == run[r].job
<1>1. work[r].step # "idle" /\ RunOK(r) /\ e \in DocIds
  BY RunStepWorks DEF DocInv, WorkOK, RunOK
<1>2. CASE FetchDocument(r) \/ FetchFails(r) \/ Download(r) \/ DownloadFails(r)
           \/ PagesDone(r) \/ EnqueueWebhooks(r) \/ Return(r)
  BY <1>2, RowsKept DEF FetchDocument, FetchFails, Download, DownloadFails, PagesDone,
              EnqueueWebhooks, Return, dbVars
<1>3. CASE MarkReady(r) \/ MarkReadyFails(r)
  <2>1. /\ work[r].step = "markReady" /\ UNCHANGED <<pages, objects, delete>>
        /\ UNCHANGED docs \/ SetReady(e)
    BY <1>3 DEF MarkReady, MarkReadyFails
  <2> QED
    BY <1>1, <2>1 DEF DocInv, TypeOK, RowsOK, RunOK, SetReady, Document, Exists
<1>4. CASE MarkFailed(r)
  <2>1. UNCHANGED <<pages, objects, delete>>
    BY <1>4 DEF MarkFailed
  <2>2. CASE UNCHANGED docs
    BY <2>1, <2>2, RowsKept
  <2>3. CASE SetStatus(e, "failed")
    BY <1>1, <2>1, <2>3, StatusFailedRows
  <2> QED
    BY <1>4, <2>2, <2>3 DEF MarkFailed
<1>5. CASE \E n \in work[r].todo : UploadPage(r, n) \/ UploadPageFails(r, n)
  BY <1>5, RowsKept DEF UploadPage, UploadPageFails, dbVars
<1>6. CASE \E n \in work[r].stored : SavePage(r, n)
  <2>1. PICK n \in work[r].stored : SavePage(r, n)
    BY <1>6
  <2>2. UNCHANGED <<docs, objects, delete>>
    BY <2>1 DEF SavePage
  <2>3. CASE UNCHANGED pages
    BY <2>2, <2>3, RowsKept
  <2>4. CASE Exists(e) /\ pages' = [pages EXCEPT ![e] = @ \cup {n}]
    <3>1. n \in Pages(e) /\ <<e, n>> \in objects
      BY <1>1, <2>4 DEF RunOK, Exists
    <3> QED
      BY <1>1, <2>2, <2>4, <3>1 DEF DocInv, TypeOK, RowsOK, Exists
  <2> QED
    BY <2>1, <2>3, <2>4 DEF SavePage
<1> QED
  BY <1>2, <1>3, <1>4, <1>5, <1>6 DEF RunStep

LEMMA OthersRows ==
  ASSUME DocInv, \A d \in DocIds : Grows(d),
         \/ Sweep \/ Crash \/ Shutdown \/ UNCHANGED vars
         \/ \E r \in Runs : GiveUp(r)
         \/ \E e \in DocIds : \/ Age(e) \/ Recover(e)
                              \/ \E w \in Hooks : RegisterWebhook(e, w)
                              \/ \E r \in Runs : Dequeue(r, e)
  PROVE  RowsOK'
<1>1. CASE Sweep
  BY <1>1 DEF DocInv, TypeOK, RowsOK, Sweep, Stuck, Document, Exists
<1>2. CASE ~Sweep
  <2>1. UNCHANGED <<docs, pages>>
    BY <1>2 DEF Crash, Shutdown, ProcessGone, GiveUp, Age, Recover, RegisterWebhook,
                Dequeue, dbVars, vars
  <2>2. ASSUME NEW d \in DocIds, delete'[d].step \in {"original", "pages"}
        PROVE  delete[d].step \in {"original", "pages"}
    BY <1>2, <2>2 DEF Crash, Shutdown, ProcessGone, GiveUp, Age, Recover, RegisterWebhook,
                      Dequeue, NoDeletion, vars
  <2> QED
    BY <2>1, <2>2, RowsKept
<1> QED
  BY <1>1, <1>2

-----------------------------------------------------------------------------
(* The runs. *)

\* What a run knows of its document stays true while others work.
LEMMA RunKept ==
  ASSUME DocInv, NEW s \in Runs, RunOK(s), Grows(run[s].job),
         work'[s] = work[s], run'[s].job = run[s].job
  PROVE  RunOK(s)'
<1> DEFINE d == run[s].job
<1>1. d \in DocIds /\ work[s].stored \subseteq Nat
  BY DEF DocInv, TypeOK, Work, RunOK
<1> QED
  BY <1>1 DEF RunOK, Grows, Extracted

\* Steps that no run takes.
LEMMA WorkKept ==
  ASSUME DocInv, \A d \in DocIds : Grows(d), UNCHANGED work,
         \A s \in Runs : run'[s].job = run[s].job
  PROVE  WorkOK'
<1> SUFFICES ASSUME NEW s \in Runs, work'[s].step # "idle" PROVE RunOK(s)'
  BY DEF WorkOK
<1>1. RunOK(s) /\ run[s].job \in DocIds
  BY DEF DocInv, WorkOK, RunOK
<1> QED
  BY <1>1, RunKept

\* A run that goes on without a claim about its pages.
LEMMA RunMoves ==
  ASSUME DocInv, NEW r \in Runs, RunOK(r), Grows(run[r].job), UNCHANGED run,
         NEW step \in {"download", "markFailed", "hooksFailed", "erred"}, GotoStep(r, step)
  PROVE  RunOK(r)'
<1> DEFINE d == run[r].job
<1>1. d \in DocIds /\ work[r].stored \subseteq Nat
  BY DEF DocInv, TypeOK, Work, RunOK
<1>2. /\ work'[r].step = step /\ work'[r].todo = work[r].todo
      /\ work'[r].stored = work[r].stored
  BY DEF DocInv, TypeOK, Work, GotoStep
<1> QED
  BY <1>1, <1>2 DEF RunOK, Grows

\* A run that succeeds has nothing to do, or has done it.
LEMMA RunSucceeds ==
  ASSUME DocInv, NEW r \in Runs, RunOK(r), GotoStep(r, "succeeded"),
         UNCHANGED <<docs, pages, objects, run>>,
         ~Exists(run[r].job) \/ work[r].step = "hooksReady"
  PROVE  RunOK(r)'
<1> DEFINE d == run[r].job
<1>1. /\ work'[r].step = "succeeded" /\ work'[r].todo = work[r].todo
      /\ work'[r].stored = work[r].stored
  BY DEF DocInv, TypeOK, Work, GotoStep
<1>2. d \in DocIds /\ docs[d].status # "unused" /\ docs[d] \in Document
  BY DEF DocInv, TypeOK, RunOK
<1>3. CASE ~Exists(d)
  <2>1. docs[d].status = "deleted"
    BY <1>2, <1>3 DEF Exists, Document
  <2> QED
    BY <1>1, <1>2, <2>1 DEF RunOK
<1>4. CASE work[r].step = "hooksReady"
  BY <1>1, <1>2, <1>4 DEF RunOK, Extracted
<1> QED
  BY <1>3, <1>4

LEMMA DownloadRun ==
  ASSUME DocInv, NEW r \in Runs, RunOK(r), Download(r)
  PROVE  RunOK(r)'
<1> DEFINE d == run[r].job
<1>1. /\ work'[r].step = "extract" /\ work'[r].todo = Pages(d)
      /\ work'[r].stored = work[r].stored
  BY DEF DocInv, TypeOK, Work, Download
<1>2. UNCHANGED <<docs, pages, objects, run>>
  BY DEF Download, dbVars
<1> QED
  BY <1>1, <1>2 DEF RunOK

LEMMA UploadPageRun ==
  ASSUME DocInv, NEW r \in Runs, RunOK(r), NEW n \in work[r].todo,
         UploadPage(r, n) \/ UploadPageFails(r, n)
  PROVE  RunOK(r)'
<1>1. UNCHANGED <<docs, pages, run>> /\ objects \subseteq objects'
  BY DEF UploadPage, UploadPageFails, dbVars
<1>2. CASE UploadPage(r, n)
  <2>1. /\ work'[r].step = "extract" /\ work'[r].todo = work[r].todo \ {n}
        /\ work'[r].stored = work[r].stored \cup {n} /\ work'[r].err = work[r].err
        /\ work[r].step = "extract" /\ <<run[r].job, n>> \in objects'
    BY <1>2 DEF DocInv, TypeOK, Work, UploadPage
  <2> QED
    BY <1>1, <2>1 DEF RunOK
<1>3. CASE UploadPageFails(r, n)
  <2>1. /\ work'[r].step = "extract" /\ work'[r].todo = work[r].todo \ {n}
        /\ work'[r].stored = work[r].stored /\ work'[r].err = TRUE
    BY <1>3 DEF DocInv, TypeOK, Work, UploadPageFails
  <2> QED
    BY <1>1, <2>1 DEF RunOK
<1> QED
  BY <1>2, <1>3

LEMMA SavePageRun ==
  ASSUME DocInv, NEW r \in Runs, RunOK(r), NEW n \in work[r].stored, SavePage(r, n)
  PROVE  RunOK(r)'
<1> DEFINE d == run[r].job
<1>1. UNCHANGED <<docs, objects, run>> /\ d \in DocIds
  BY DEF SavePage, RunOK
<1>2. /\ work[r].step = "extract" /\ work'[r].step = "extract"
      /\ work'[r].todo = work[r].todo /\ work'[r].stored = work[r].stored \ {n}
  BY DEF DocInv, TypeOK, Work, SavePage
<1>3. \/ work'[r].err = work[r].err /\ pages'[d] = pages[d] \cup {n}
      \/ work'[r].err = TRUE
  BY <1>1 DEF DocInv, TypeOK, Work, SavePage
<1> QED
  BY <1>1, <1>2, <1>3 DEF RunOK

LEMMA PagesDoneRun ==
  ASSUME DocInv, NEW r \in Runs, RunOK(r), PagesDone(r)
  PROVE  RunOK(r)'
<1>1. /\ work'[r].step = IF work[r].err THEN "markFailed" ELSE "markReady"
      /\ work[r].step = "extract" /\ work[r].todo = {} /\ work[r].stored = {}
      /\ work'[r].todo = {} /\ work'[r].stored = {}
  BY DEF DocInv, TypeOK, Work, PagesDone, GotoStep
<1>2. UNCHANGED <<docs, pages, objects, run>>
  BY DEF PagesDone, dbVars
<1> QED
  BY <1>1, <1>2 DEF RunOK

LEMMA MarkReadyRun ==
  ASSUME DocInv, NEW r \in Runs, RunOK(r), Grows(run[r].job), MarkReady(r)
  PROVE  RunOK(r)'
<1> DEFINE d == run[r].job
<1>1. d \in DocIds /\ work[r].stored \subseteq Nat
  BY DEF DocInv, TypeOK, Work, RunOK
<1>2. /\ work[r].step = "markReady" /\ work'[r].step = "hooksReady"
      /\ work'[r].todo = work[r].todo /\ work'[r].stored = work[r].stored
      /\ UNCHANGED <<pages, objects, run>>
  BY DEF DocInv, TypeOK, Work, MarkReady, GotoStep
<1>3. docs'[d].status # "deleted" => Extracted(d)'
  BY <1>1 DEF DocInv, TypeOK, RunOK, Grows, MarkReady, SetReady, Exists, Extracted, Document
<1> QED
  BY <1>1, <1>2, <1>3 DEF RunOK, Grows

LEMMA RunStepWork ==
  ASSUME DocInv, NEW r \in Runs, RunStep(r), \A d \in DocIds : Grows(d)
  PROVE  WorkOK'
<1>1. RunOK(r) /\ run[r].job \in DocIds
  BY RunStepWorks DEF DocInv, WorkOK, RunOK
<1>2. ASSUME NEW s \in Runs, s # r PROVE work'[s] = work[s] /\ run'[s] = run[s]
  BY <1>2 DEF DocInv, TypeOK, QueueOK, Queue!TypeOK, RunStep, FetchDocument, FetchFails, Download,
     DownloadFails, PagesDone, MarkReady, MarkReadyFails, MarkFailed, EnqueueWebhooks,
     Return, Queue!Return, UploadPage, UploadPageFails, SavePage, GotoStep
<1>3. ASSUME NEW s \in Runs, s # r, work'[s].step # "idle" PROVE RunOK(s)'
  <2>1. RunOK(s) /\ run[s].job \in DocIds
    BY <1>2, <1>3 DEF DocInv, WorkOK, RunOK
  <2> QED
    BY <1>2, <1>3, <2>1, RunKept
<1>4. work'[r].step # "idle" => RunOK(r)'
  <2>1. CASE FetchFails(r) \/ DownloadFails(r) \/ MarkReadyFails(r) \/ MarkFailed(r)
    BY <1>1, <2>1, RunMoves DEF FetchFails, DownloadFails, MarkReadyFails, MarkFailed
  <2>2. CASE FetchDocument(r)
    BY <1>1, <2>2, RunMoves, RunSucceeds DEF FetchDocument, dbVars
  <2>3. CASE EnqueueWebhooks(r)
    BY <1>1, <2>3, RunMoves, RunSucceeds DEF EnqueueWebhooks, dbVars
  <2>4. CASE Return(r)
    BY <2>4 DEF DocInv, TypeOK, Return, NoWork
  <2> QED
    BY <1>1, <2>1, <2>2, <2>3, <2>4, DownloadRun, UploadPageRun, SavePageRun, PagesDoneRun,
       MarkReadyRun DEF RunStep
<1> QED
  BY <1>3, <1>4 DEF WorkOK

LEMMA DequeueWork ==
  ASSUME DocInv, NEW r \in Runs, NEW e \in DocIds, Dequeue(r, e),
         \A d \in DocIds : Grows(d)
  PROVE  WorkOK'
<1>1. ASSUME NEW s \in Runs, s # r, work'[s].step # "idle" PROVE RunOK(s)'
  <2>1. work'[s] = work[s] /\ run'[s] = run[s]
    BY <1>1 DEF DocInv, TypeOK, Queue!TypeOK, Dequeue, Queue!Dequeue
  <2>2. RunOK(s) /\ run[s].job \in DocIds
    BY <1>1, <2>1 DEF DocInv, WorkOK, RunOK
  <2> QED
    BY <1>1, <2>1, <2>2, RunKept
<1>2. RunOK(r)'
  <2>1. run'[r].job = e
    BY DEF DocInv, TypeOK, Queue!TypeOK, Dequeue, Queue!Dequeue
  <2>2. work'[r] = [NoWork EXCEPT !.step = "fetch"]
    BY DEF DocInv, TypeOK, Dequeue
  <2>3. work'[r].step = "fetch" /\ work'[r].todo = {} /\ work'[r].stored = {}
    BY <2>2 DEF NoWork
  <2>4. docs'[e].status # "unused"
    BY DEF DocInv, TasksOK, Dequeue, Queue!Dequeue, dbVars
  <2> QED
    BY <2>1, <2>3, <2>4 DEF RunOK
<1> QED
  BY <1>1, <1>2 DEF WorkOK

LEMMA OthersWork ==
  ASSUME DocInv, \A d \in DocIds : Grows(d),
         \/ Sweep \/ Crash \/ Shutdown \/ UNCHANGED vars
         \/ \E r \in Runs : GiveUp(r)
         \/ \E e \in DocIds : \/ Creates(e) \/ UploadStep(e) \/ ListPages(e)
                              \/ DeleteStep(e) \/ Age(e) \/ Recover(e)
                              \/ \E w \in Hooks : RegisterWebhook(e, w)
  PROVE  WorkOK'
<1>1. CASE Crash \/ Shutdown
  BY <1>1 DEF Crash, Shutdown, ProcessGone, WorkOK, NoWork
<1>2. CASE \E r \in Runs : GiveUp(r)
  <2>1. PICK r \in Runs : GiveUp(r)
    BY <1>2
  <2>2. UNCHANGED work /\ run' = [run EXCEPT ![r].ctx = FALSE]
    BY <2>1 DEF GiveUp, Queue!TimeOut, Queue!LoseLease
  <2>3. \A s \in Runs : run'[s].job = run[s].job
    BY <2>2 DEF DocInv, TypeOK, Queue!TypeOK, Queue!Run
  <2> QED
    BY <2>2, <2>3, WorkKept
<1>3. CASE ~(Crash \/ Shutdown) /\ ~\E r \in Runs : GiveUp(r)
  <2>1. UNCHANGED <<work, run>>
    BY <1>3 DEF Sweep, vars, Creates, CreateDocument, CreateDocumentFails, UploadStep, StoreOriginal, StoreOriginalFails,
       UpdateOriginalPath, EnqueueTask, UploadAborts, ListPages, DeleteStep, DeleteRow,
       DeleteRowFails, RemoveOriginal, RemovePage, DeletionDone, Age, Recover,
       Queue!Recover, RegisterWebhook
  <2> QED
    BY <2>1, WorkKept
<1> QED
  BY <1>1, <1>2, <1>3

-----------------------------------------------------------------------------
(* The tasks. *)

\* The task of d keeps its state, or goes on or back while Asynq works on it.
Goes(d) ==
  \/ task'[d].st = task[d].st
  \/ task[d].st \in {"pending", "active"} /\ task'[d].st \in {"pending", "active", "archived"}

\* A retry of an active task.
LEMMA RetryGoes ==
  ASSUME DocInv, NEW e \in DocIds, task[e].st = "active", Queue!Retry(e), NEW d \in DocIds
  PROVE  Goes(d)
  BY DEF DocInv, QueueOK, Queue!TypeOK, Queue!Task, Queue!Retry, Goes

\* A live run has the task of a document, and that is active.
LEMMA LiveActive ==
  ASSUME DocInv, NEW r \in Runs, run[r].ctx
  PROVE  run[r].job \in DocIds /\ task[run[r].job].st = "active"
  BY DEF DocInv, QueueOK, Queue!OneLiveRun

\* What the return of a run does to the task of d.
LEMMA ReturnGoes ==
  ASSUME DocInv, NEW r \in Runs, Return(r), NEW d \in DocIds
  PROVE  Goes(d) \/ (work[r].step = "succeeded" /\ run[r].job = d /\ task'[d].st = "completed")
<1>1. CASE UNCHANGED task
  BY <1>1 DEF Goes
<1>2. CASE run[r].ctx /\ Queue!Retry(run[r].job)
  BY <1>2, RetryGoes, LiveActive
<1>3. CASE /\ run[r].ctx /\ work[r].step = "succeeded"
           /\ task' = [task EXCEPT ![run[r].job].st = "completed"]
  BY <1>3, LiveActive DEF DocInv, QueueOK, Queue!TypeOK, Queue!Task, Goes
<1> QED
  BY <1>1, <1>2, <1>3 DEF Return, Queue!Return

\* The process stops: at most, tasks of live runs are put back.
LEMMA StopGoes ==
  ASSUME DocInv, Crash \/ Shutdown, NEW d \in DocIds
  PROVE  Goes(d)
<1>1. CASE Crash
  BY <1>1 DEF Crash, Queue!Crash, Goes
<1>2. CASE Shutdown
  <2>1. PICK requeued \in SUBSET {r \in Runs : run[r].ctx} :
          task' = [j \in DocIds |-> IF \E r \in requeued : run[r].job = j
                                   THEN [task[j] EXCEPT !.st = "pending"]
                                   ELSE task[j]]
    BY <1>2 DEF Shutdown, Queue!Shutdown
  <2>2. CASE \E r \in requeued : run[r].job = d
    <3>1. task[d].st = "active"
      BY <2>2, LiveActive
    <3> QED
      BY <2>1, <2>2, <3>1 DEF DocInv, QueueOK, Queue!TypeOK, Queue!Task, Goes
  <2>3. CASE ~\E r \in requeued : run[r].job = d
    BY <2>1, <2>3 DEF Goes
  <2> QED
    BY <2>2, <2>3
<1> QED
  BY <1>1, <1>2

\* A task comes into being with its upload's last step, and is completed only by the
\* return of a run that succeeded.
LEMMA TaskGoes ==
  ASSUME DocInv, [Next]_vars, NEW d \in DocIds
  PROVE  \/ Goes(d)
         \/ upload[d] = "enqueue" /\ task'[d].st = "pending"
         \/ \E r \in Runs : /\ Return(r) /\ work[r].step = "succeeded" /\ run[r].job = d
                            /\ task'[d].st = "completed"
<1> DEFINE Done == \/ Goes(d)
                   \/ upload[d] = "enqueue" /\ task'[d].st = "pending"
                   \/ \E r \in Runs : /\ Return(r) /\ work[r].step = "succeeded"
                                      /\ run[r].job = d /\ task'[d].st = "completed"
<1>1. UNCHANGED task => Done
  BY DEF Goes
<1>2. ASSUME NEW e \in DocIds, Creates(e) \/ UploadStep(e) PROVE Done
  <2>1. UNCHANGED task \/ (upload[e] = "enqueue" /\ Queue!Enqueue(e))
    BY <1>2 DEF Creates, CreateDocument, CreateDocumentFails, UploadStep, StoreOriginal,
       StoreOriginalFails, UpdateOriginalPath, EnqueueTask, UploadAborts
  <2>2. CASE upload[e] = "enqueue" /\ Queue!Enqueue(e)
    BY <2>2 DEF DocInv, QueueOK, Queue!TypeOK, Queue!Task, Queue!Enqueue, Goes
  <2> QED
    BY <1>1, <2>1, <2>2
<1>3. ASSUME NEW e \in DocIds, ListPages(e) \/ DeleteStep(e) \/ Age(e)
                               \/ \E w \in Hooks : RegisterWebhook(e, w)
      PROVE  Done
  <2>1. UNCHANGED task
    BY <1>3 DEF ListPages, DeleteStep, DeleteRow, DeleteRowFails, RemoveOriginal,
       RemovePage, DeletionDone, Age, RegisterWebhook
  <2> QED
    BY <1>1, <2>1
<1>4. ASSUME NEW e \in DocIds, Recover(e) PROVE Done
  BY <1>4, RetryGoes DEF Recover, Queue!Recover
<1>5. ASSUME NEW e \in DocIds, NEW r \in Runs, Dequeue(r, e) PROVE Done
  BY <1>5 DEF DocInv, QueueOK, Queue!TypeOK, Queue!Task, Dequeue, Queue!Dequeue, Goes
<1>6. ASSUME NEW r \in Runs, GiveUp(r) PROVE Done
  BY <1>1, <1>6, RetryGoes, LiveActive DEF GiveUp, Queue!TimeOut, Queue!LoseLease
<1>7. ASSUME NEW r \in Runs, RunStep(r) PROVE Done
  <2>1. CASE Return(r)
    BY <2>1, ReturnGoes
  <2>2. CASE ~Return(r)
    <3>1. UNCHANGED task
      BY <1>7, <2>2 DEF RunStep, FetchDocument, FetchFails, Download, DownloadFails,
         PagesDone, MarkReady, MarkReadyFails, MarkFailed, EnqueueWebhooks, UploadPage,
         UploadPageFails, SavePage
    <3> QED
      BY <1>1, <3>1
  <2> QED
    BY <2>1, <2>2
<1>8. ASSUME Crash \/ Shutdown PROVE Done
  BY <1>8, StopGoes
<1>9. ASSUME Sweep \/ UNCHANGED vars PROVE Done
  <2>1. UNCHANGED task
    BY <1>9 DEF Sweep, vars
  <2> QED
    BY <1>1, <2>1
<1> HIDE DEF Done
<1>10. ASSUME Step PROVE Done
  BY <1>2, <1>3, <1>4, <1>5, <1>6, <1>7, <1>9, <1>10, Zenon DEF Step, Creates
<1>11. Done
  BY <1>8, <1>9, <1>10, Zenon DEF Next
<1> QED
  BY <1>11 DEF Done

\* An upload begins with its document.
LEMMA UploadBegins ==
  ASSUME DocInv, [Next]_vars, NEW d \in DocIds, upload[d] = "none"
  PROVE  upload'[d] = "none" \/ docs'[d].status = "processing"
<1>1. ASSUME NEW e \in DocIds, Creates(e) \/ UploadStep(e)
      PROVE  upload'[d] = "none" \/ docs'[d].status = "processing"
  <2>1. CASE Creates(e)
    BY <2>1 DEF DocInv, TypeOK, Document, Creates, CreateDocument, CreateDocumentFails
  <2>2. CASE UploadStep(e)
    BY <2>2 DEF DocInv, TypeOK, UploadStep, StoreOriginal, StoreOriginalFails,
       UpdateOriginalPath, EnqueueTask, UploadAborts
  <2> QED
    BY <1>1, <2>1, <2>2
<1>2. CASE Crash \/ Shutdown
  BY <1>2 DEF Crash, Shutdown, ProcessGone
<1>3. CASE ~(Crash \/ Shutdown) /\ ~\E e \in DocIds : Creates(e) \/ UploadStep(e)
  <2>1. UNCHANGED upload
    BY <1>3 DEF Next, Step, Creates, vars, Sweep, ListPages, DeleteStep, DeleteRow,
       DeleteRowFails, RemoveOriginal, RemovePage, DeletionDone, Age, Recover,
       RegisterWebhook, Dequeue, GiveUp, RunStep, FetchDocument, FetchFails, Download,
       DownloadFails, PagesDone, MarkReady, MarkReadyFails, MarkFailed, EnqueueWebhooks,
       Return, UploadPage, UploadPageFails, SavePage
  <2> QED
    BY <2>1
<1> QED
  BY <1>1, <1>2, <1>3

LEMMA NextTasks ==
  ASSUME DocInv, [Next]_vars, \A d \in DocIds : Grows(d)
  PROVE  TasksOK'
<1> SUFFICES ASSUME NEW d \in DocIds
             PROVE  /\ docs'[d].status = "unused" => upload'[d] = "none" /\ task'[d].st = "none"
                    /\ task'[d].st = "completed" /\ docs'[d].status # "deleted" =>
                         Extracted(d)' /\ Pages(d) \subseteq pages'[d]
  BY DEF TasksOK
<1>1. ASSUME docs'[d].status = "unused" PROVE upload'[d] = "none" /\ task'[d].st = "none"
  <2>1. docs[d].status = "unused"
    BY <1>1 DEF Grows
  <2>2. upload[d] = "none" /\ task[d].st = "none"
    BY <2>1 DEF DocInv, TasksOK
  <2>3. upload'[d] = "none"
    BY <1>1, <2>2, UploadBegins
  <2>4. task'[d].st = "none"
    <3>1. ASSUME NEW r \in Runs, Return(r), run[r].job = d PROVE FALSE
      BY <2>1, <3>1 DEF DocInv, WorkOK, RunOK, Return
    <3> QED
      BY <2>2, <3>1, TaskGoes DEF Goes
  <2> QED
    BY <2>3, <2>4
<1>2. ASSUME task'[d].st = "completed", docs'[d].status # "deleted"
      PROVE  Extracted(d)' /\ Pages(d) \subseteq pages'[d]
  <2>1. CASE task[d].st = "completed"
    BY <1>2, <2>1 DEF DocInv, TasksOK, Grows, Extracted
  <2>2. ASSUME NEW r \in Runs, Return(r), work[r].step = "succeeded", run[r].job = d
        PROVE  Extracted(d)' /\ Pages(d) \subseteq pages'[d]
    <3>1. UNCHANGED <<docs, pages>>
      BY <2>2 DEF Return, dbVars
    <3>2. RunOK(r)
      BY <2>2 DEF DocInv, WorkOK
    <3> QED
      BY <1>2, <2>2, <3>1, <3>2 DEF RunOK, Extracted
  <2> QED
    BY <1>2, <2>1, <2>2, TaskGoes DEF Goes
<1> QED
  BY <1>1, <1>2

-----------------------------------------------------------------------------
(* The notices, and the theorems. *)

LEMMA NextNotices ==
  ASSUME DocInv, [Next]_vars, \A d \in DocIds : Grows(d)
  PROVE  NoticesOK'
<1>1. CASE UNCHANGED notices
  BY <1>1 DEF DocInv, NoticesOK, Grows
<1>2. ASSUME NEW r \in Runs, EnqueueWebhooks(r) PROVE NoticesOK'
  <2> DEFINE e == run[r].job
  <2>1. RunOK(r) /\ e \in DocIds
    BY <1>2 DEF DocInv, WorkOK, RunOK, EnqueueWebhooks
  <2>2. UNCHANGED <<docs, pages>>
    BY <1>2 DEF EnqueueWebhooks, dbVars
  <2>3. ASSUME NEW w \in Hooks, NEW d \in DocIds, <<w, d, "ready">> \in notices'
        PROVE  \/ <<w, d, "ready">> \in notices
               \/ d = e /\ work[r].step = "hooksReady"
    BY <1>2, <2>3 DEF EnqueueWebhooks
  <2> QED
    BY <2>1, <2>2, <2>3 DEF DocInv, NoticesOK, RunOK
<1>3. UNCHANGED notices \/ \E r \in Runs : EnqueueWebhooks(r)
  BY DEF Next, Step, vars, Crash, Shutdown, ProcessGone, Sweep, CreateDocument,
     CreateDocumentFails, UploadStep, StoreOriginal, StoreOriginalFails, UpdateOriginalPath, EnqueueTask, UploadAborts,
     ListPages, DeleteStep, DeleteRow, DeleteRowFails, RemoveOriginal, RemovePage,
     DeletionDone, Age, Recover, RegisterWebhook, Dequeue, GiveUp, RunStep,
     FetchDocument, FetchFails, Download, DownloadFails, PagesDone, MarkReady,
     MarkReadyFails, MarkFailed, Return, UploadPage, UploadPageFails, SavePage
<1> QED
  BY <1>1, <1>2, <1>3

LEMMA DocNextInv == DocInv /\ [Next]_vars => DocInv'
<1> SUFFICES ASSUME DocInv, [Next]_vars PROVE DocInv'
  OBVIOUS
<1>1. QueueOK' /\ Queue!TypeOK'
  BY QueueNextOK DEF DocInv, QueueOK
<1>2. \A d \in DocIds : Grows(d)
  BY StepGrows
<1>3. TypeOK' /\ RowsOK' /\ WorkOK'
  <2>1. ASSUME NEW d \in DocIds, Creates(d) \/ UploadStep(d)
        PROVE  TypeOK' /\ RowsOK' /\ WorkOK'
    BY <1>1, <1>2, <2>1, UploadType, UploadRows, OthersWork DEF DocInv
  <2>2. ASSUME NEW d \in DocIds, ListPages(d) \/ DeleteStep(d)
        PROVE  TypeOK' /\ RowsOK' /\ WorkOK'
    BY <1>1, <1>2, <2>2, DeleteType, DeleteRows, OthersWork DEF DocInv
  <2>3. ASSUME NEW d \in DocIds, NEW r \in Runs, Dequeue(r, d)
        PROVE  TypeOK' /\ RowsOK' /\ WorkOK'
    BY <1>1, <1>2, <2>3, OthersType, OthersRows, DequeueWork DEF DocInv
  <2>4. ASSUME NEW d \in DocIds,
               Age(d) \/ Recover(d) \/ \E w \in Hooks : RegisterWebhook(d, w)
        PROVE  TypeOK' /\ RowsOK' /\ WorkOK'
    BY <1>1, <1>2, <2>4, OthersType, OthersRows, OthersWork DEF DocInv
  <2>5. ASSUME NEW r \in Runs, RunStep(r) PROVE TypeOK' /\ RowsOK' /\ WorkOK'
    BY <1>1, <1>2, <2>5, RunStepType, RunStepRows, RunStepWork DEF DocInv
  <2>6. CASE Sweep \/ Crash \/ Shutdown \/ \E r \in Runs : GiveUp(r)
    BY <1>1, <1>2, <2>6, OthersType, OthersRows, OthersWork DEF DocInv
  <2>7. CASE UNCHANGED vars
    BY <1>1, <1>2, <2>7, OthersRows, OthersWork DEF DocInv, TypeOK, vars
  <2> QED
    BY <2>1, <2>2, <2>3, <2>4, <2>5, <2>6, <2>7, Zenon DEF Next, Step, Creates
<1> QED
  BY <1>1, <1>2, <1>3, NextTasks, NextNotices DEF DocInv

\* Every reachable state satisfies the inductive invariant.
THEOREM DocInvariance == Spec => []DocInv
  BY DocInitInv, DocNextInv, PTL DEF Spec

\* Every reachable state is well typed.
THEOREM DocumentsTypeCorrect == Spec => []TypeOK
<1>1. DocInv => TypeOK
  BY DEF DocInv
<1> QED
  BY <1>1, DocInvariance, PTL

\* A page that has a row belongs to a document that exists, and its object is
\* stored: extractAndUploadPage stores before it saves, and DeleteDocument deletes
\* the row, with the cascade, before it removes objects.
THEOREM RowsHaveObjects == Spec => []PageRowHasObject
<1>1. DocInv => PageRowHasObject
  BY DEF DocInv, RowsOK, PageRowHasObject
<1> QED
  BY <1>1, DocInvariance, PTL

\* A document that MarkReady has made ready has a row and an object for each of its
\* pages, whichever runs of its task worked on it and whichever of them failed.
THEOREM ReadyIsComplete == Spec => []ReadyComplete
<1>1. DocInv => ReadyComplete
  BY DEF DocInv, RowsOK, ReadyComplete
<1> QED
  BY <1>1, DocInvariance, PTL

\* A task that Asynq has marked completed leaves a document behind that is no longer
\* in processing and has a row and an object for every page, or that is deleted: only
\* HandleExtractPages past MarkReady, or before a document that is gone, returns nil,
\* and a given-up run or a retry that comes later can only set the status to failed.
THEOREM CompletedTasksAreDone == Spec => []CompletedIsDone
<1>1. DocInv => CompletedIsDone
  BY DEF DocInv, RowsOK, TasksOK, Extracted, CompletedIsDone
<1> QED
  BY <1>1, DocInvariance, PTL

\* What enqueueWebhooks announces as ready keeps every row and object until the
\* document is deleted, whatever happens to its status.
THEOREM AnnouncedStaysComplete == Spec => []AnnouncedComplete
<1>1. DocInv => AnnouncedComplete
  BY DEF DocInv, RowsOK, NoticesOK, AnnouncedComplete
<1> QED
  BY <1>1, DocInvariance, PTL

\* No step loses a row or an object of a document that is not deleted, and none
\* brings a deleted document back.
THEOREM NothingLost == Spec => KeptUntilDeleted
<1> DEFINE Kept ==
      \A d \in DocIds :
        docs'[d].status # "deleted" =>
          /\ docs[d].status # "deleted"
          /\ pages[d] \subseteq pages'[d]
          /\ \A o \in objects : o[1] = d => o \in objects'
<1>1. DocInv /\ [Next]_vars => [Kept]_vars
  <2> SUFFICES ASSUME DocInv, [Next]_vars,
                      NEW d \in DocIds, docs'[d].status # "deleted"
               PROVE  /\ docs[d].status # "deleted"
                      /\ pages[d] \subseteq pages'[d]
                      /\ \A o \in objects : o[1] = d => o \in objects'
    OBVIOUS
  <2>1. Grows(d)
    BY StepGrows
  <2>2. ASSUME NEW o \in objects, o[1] = d PROVE o \in objects'
    <3>1. o = <<d, o[2]>> /\ o[2] \in Nat
      BY <2>2 DEF DocInv, TypeOK
    <3> QED
      BY <2>1, <2>2, <3>1 DEF Grows
  <2> QED
    BY <2>1, <2>2 DEF Grows
<1> QED
  BY <1>1, DocInvariance, PTL DEF Spec, KeptUntilDeleted

=============================================================================
