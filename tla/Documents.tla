------------------------------ MODULE Documents ------------------------------
(***************************************************************************)
(* PDF documents: DocumentService.Upload and DeleteDocument, the statements *)
(* of storage/document_store.go, the worker's HandleExtractPages behind the *)
(* Asynq queue, the watchdog, and the enqueueing of webhook notices.        *)
(*                                                                         *)
(* Every SQL statement here is a transaction of its own, and every SQL      *)
(* statement, object-store call and queue operation is one step.  A run is  *)
(* a goroutine that executes HandleExtractPages.  When Asynq gives up on a  *)
(* run (its timeout, or its lease) it cancels the run's context and retries *)
(* the task, but the goroutine goes on: its object-store calls then fail,   *)
(* its SQL statements, which take no context, still work.                   *)
(*                                                                         *)
(* A call that returns an error may have taken effect all the same: the     *)
(* answer of a committed statement can be lost.                             *)
(***************************************************************************)
EXTENDS Integers, FiniteSets

CONSTANTS
  DocIds,        \* document ids the database can hand out (bounds the uploads)
  Runs,          \* worker goroutines that can exist at a time
  Hooks,         \* webhook subscriptions that can be registered
  NumPages,      \* pages pdfcpu finds in each document; 0 when it finds none
  MaxRetry,      \* retries Asynq grants a task (its default is 25)
  CallsMayFail,  \* whether SQL, object-store and queue calls may return errors
  MayStop,       \* whether the process may crash or be shut down
  None           \* SQL NULL, and "no document"

ASSUME DocumentsAssumption ==
  /\ NumPages \in [DocIds -> Nat]
  /\ MaxRetry \in Nat
  /\ CallsMayFail \in BOOLEAN
  /\ MayStop \in BOOLEAN
  /\ None \notin DocIds \cup Nat

VARIABLES
  docs,     \* table documents, by id
  old,      \* documents whose created_at is before the watchdog's cutoff
  pages,    \* table document_pages: page numbers of each document
  hooks,    \* table webhook_subscriptions: hooks of each document
  objects,  \* objects in the bucket: <<d, n>> is page n of d, n = 0 the original
  upload,   \* step of the request that uploads each document
  delete,   \* request or background goroutine that deletes each document
  task,     \* the extract_pages task of each document, in Redis
  run,      \* worker goroutines: the task of each and its context (see Asynq)
  work,     \* what each worker goroutine is doing in HandleExtractPages
  notices   \* fire_webhook tasks enqueued so far

dbVars == <<docs, old, pages, hooks>>
vars == <<docs, old, pages, hooks, objects, upload, delete, task, run, work, notices>>

-----------------------------------------------------------------------------
(* Rows, tasks and goroutines. *)

Original == 0

Pages(d) == 1..NumPages[d]

Document == [status : {"unused", "processing", "ready", "failed", "deleted"},
             path : BOOLEAN, totalPages : Nat \cup {None}]

NoDocument == [status |-> "unused", path |-> FALSE, totalPages |-> None]

Deletion == [step : {"none", "row", "original", "pages"},
             path : BOOLEAN, pages : SUBSET Nat]

NoDeletion == [step |-> "none", path |-> FALSE, pages |-> {}]

\* todo: pages not stored yet.  stored: pages stored whose row is not saved yet.
\* err: firstErr is set.
Work == [step : {"idle", "fetch", "download", "extract", "markReady", "markFailed",
                 "hooksReady", "hooksFailed", "succeeded", "erred"},
         todo : SUBSET Nat, stored : SUBSET Nat, err : BOOLEAN]

NoWork == [step |-> "idle", todo |-> {}, stored |-> {}, err |-> FALSE]

\* The extract_pages tasks and their runs.
Queue == INSTANCE Asynq WITH Jobs <- DocIds

Exists(d) == docs[d].status \in {"processing", "ready", "failed"}

Init ==
  /\ docs = [d \in DocIds |-> NoDocument]
  /\ old = {}
  /\ pages = [d \in DocIds |-> {}]
  /\ hooks = [d \in DocIds |-> {}]
  /\ objects = {}
  /\ upload = [d \in DocIds |-> "none"]
  /\ delete = [d \in DocIds |-> NoDeletion]
  /\ Queue!Init
  /\ work = [r \in Runs |-> NoWork]
  /\ notices = {}

\* UPDATE documents SET status = s WHERE id = d: no row, no change.
SetStatus(d, s) ==
  docs' = IF Exists(d) THEN [docs EXCEPT ![d].status = s] ELSE docs

-----------------------------------------------------------------------------
(* Upload: DocumentService.Upload. *)

CreateDocument(d) ==
  /\ docs[d].status = "unused"
  /\ docs' = [docs EXCEPT ![d].status = "processing"]
  /\ upload' = [upload EXCEPT ![d] = "store"]
  /\ UNCHANGED <<old, pages, hooks, objects, delete, task, run, work, notices>>

\* The transaction is committed but its answer is lost: the request answers 500, and
\* nobody learns the id.
CreateDocumentFails(d) ==
  /\ CallsMayFail
  /\ docs[d].status = "unused"
  /\ docs' = [docs EXCEPT ![d].status = "processing"]
  /\ upload' = [upload EXCEPT ![d] = "done"]
  /\ UNCHANGED <<old, pages, hooks, objects, delete, task, run, work, notices>>

StoreOriginal(d) ==
  /\ upload[d] = "store"
  /\ objects' = objects \cup {<<d, Original>>}
  /\ upload' = [upload EXCEPT ![d] = "patch"]
  /\ UNCHANGED <<dbVars, delete, task, run, work, notices>>

\* The request answers 500 after MarkFailed, whose own error is dropped.
StoreOriginalFails(d) ==
  /\ CallsMayFail
  /\ upload[d] = "store"
  /\ objects' \in {objects, objects \cup {<<d, Original>>}}
  /\ SetStatus(d, "failed") \/ UNCHANGED docs
  /\ upload' = [upload EXCEPT ![d] = "done"]
  /\ UNCHANGED <<old, pages, hooks, delete, task, run, work, notices>>

\* UPDATE documents SET original_minio_path ... WHERE id = d.
SetPath(d) == docs' = IF Exists(d) THEN [docs EXCEPT ![d].path = TRUE] ELSE docs

UpdateOriginalPath(d) ==
  /\ upload[d] = "patch"
  /\ SetPath(d)
  /\ upload' = [upload EXCEPT ![d] = "enqueue"]
  /\ UNCHANGED <<old, pages, hooks, objects, delete, task, run, work, notices>>

EnqueueTask(d) ==
  /\ upload[d] = "enqueue"
  /\ Queue!Enqueue(d)
  /\ upload' = [upload EXCEPT ![d] = "done"]
  /\ UNCHANGED <<dbVars, objects, delete, run, work, notices>>

\* UpdateOriginalPath or EnqueueTask returns an error: the request answers 500.  The
\* row may have been patched, and the queue may hold the task, all the same.
UploadAborts(d) ==
  /\ CallsMayFail
  /\ \/ upload[d] = "patch" /\ (UNCHANGED docs \/ SetPath(d)) /\ UNCHANGED task
     \/ upload[d] = "enqueue" /\ (UNCHANGED task \/ Queue!Enqueue(d)) /\ UNCHANGED docs
  /\ upload' = [upload EXCEPT ![d] = "done"]
  /\ UNCHANGED <<old, pages, hooks, objects, delete, run, work, notices>>

-----------------------------------------------------------------------------
(* The Asynq server, as seen from HandleExtractPages. *)

\* A pending task is leased and a goroutine starts the handler on it.
Dequeue(r, d) ==
  /\ Queue!Dequeue(r, d)
  /\ work' = [work EXCEPT ![r] = [NoWork EXCEPT !.step = "fetch"]]
  /\ UNCHANGED <<dbVars, objects, upload, delete, notices>>

\* Asynq gives up on a run, whose goroutine goes on with a cancelled context.
GiveUp(r) ==
  /\ Queue!TimeOut(r) \/ Queue!LoseLease(r)
  /\ UNCHANGED <<dbVars, objects, upload, delete, work, notices>>

Recover(d) == Queue!Recover(d) /\ UNCHANGED <<dbVars, objects, upload, delete, work, notices>>

\* HandleExtractPages returns.
Return(r) ==
  /\ work[r].step \in {"succeeded", "erred"}
  /\ Queue!Return(r, work[r].step = "succeeded")
  /\ work' = [work EXCEPT ![r] = NoWork]
  /\ UNCHANGED <<dbVars, objects, upload, delete, notices>>

-----------------------------------------------------------------------------
(* The worker: Processor.HandleExtractPages. *)

GotoStep(r, step) == work' = [work EXCEPT ![r].step = step]

\* GetDocumentByID: a document that is gone ends the task without an error.
FetchDocument(r) ==
  /\ work[r].step = "fetch"
  /\ GotoStep(r, IF Exists(run[r].job) THEN "download" ELSE "succeeded")
  /\ UNCHANGED <<dbVars, objects, upload, delete, task, run, notices>>

FetchFails(r) ==
  /\ CallsMayFail
  /\ work[r].step = "fetch"
  /\ GotoStep(r, "erred")
  /\ UNCHANGED <<dbVars, objects, upload, delete, task, run, notices>>

\* downloadToFile and PageCountFile; then one goroutine per page is started.
Download(r) ==
  LET d == run[r].job IN
  /\ work[r].step = "download"
  /\ run[r].ctx
  /\ <<d, Original>> \in objects
  /\ NumPages[d] > 0
  /\ work' = [work EXCEPT ![r].step = "extract", ![r].todo = Pages(d)]
  /\ UNCHANGED <<dbVars, objects, upload, delete, task, run, notices>>

\* No object, a cancelled context, no pages, or an error of a call.
DownloadFails(r) ==
  LET d == run[r].job IN
  /\ work[r].step = "download"
  /\ \/ CallsMayFail
     \/ ~run[r].ctx
     \/ <<d, Original>> \notin objects
     \/ NumPages[d] = 0
  /\ GotoStep(r, "markFailed")
  /\ UNCHANGED <<dbVars, objects, upload, delete, task, run, notices>>

\* Mutation: the row is saved although the page is not stored.
UploadPageSkipped(r, n) ==
  /\ work[r].step = "extract"
  /\ n \in work[r].todo
  /\ run[r].ctx
  /\ work' = [work EXCEPT ![r].todo = @ \ {n}, ![r].stored = @ \cup {n}]
  /\ UNCHANGED <<dbVars, objects, upload, delete, task, run, notices>>

\* extractAndUploadPage of page n up to store.Upload.
UploadPage(r, n) ==
  /\ work[r].step = "extract"
  /\ n \in work[r].todo
  /\ run[r].ctx
  /\ objects' = objects \cup {<<run[r].job, n>>}
  /\ work' = [work EXCEPT ![r].todo = @ \ {n}, ![r].stored = @ \cup {n}]
  /\ UNCHANGED <<dbVars, upload, delete, task, run, notices>>

\* pdfcpu or store.Upload fails, before or after the object was written.
UploadPageFails(r, n) ==
  /\ CallsMayFail \/ ~run[r].ctx
  /\ work[r].step = "extract"
  /\ n \in work[r].todo
  /\ objects' \in {objects, objects \cup {<<run[r].job, n>>}}
  /\ work' = [work EXCEPT ![r].todo = @ \ {n}, ![r].err = TRUE]
  /\ UNCHANGED <<dbVars, upload, delete, task, run, notices>>

\* INSERT ... ON CONFLICT DO UPDATE; the foreign key refuses the row when the
\* document is gone.
SavePage(r, n) ==
  LET d == run[r].job IN
  /\ work[r].step = "extract"
  /\ n \in work[r].stored
  /\ \/ /\ Exists(d)
        /\ pages' = [pages EXCEPT ![d] = @ \cup {n}]
        /\ \/ work' = [work EXCEPT ![r].stored = @ \ {n}]
           \/ CallsMayFail /\ work' = [work EXCEPT ![r].stored = @ \ {n}, ![r].err = TRUE]
     \/ /\ ~Exists(d) \/ CallsMayFail
        /\ work' = [work EXCEPT ![r].stored = @ \ {n}, ![r].err = TRUE]
        /\ UNCHANGED pages
  /\ UNCHANGED <<docs, old, hooks, objects, upload, delete, task, run, notices>>

\* Mutation: firstErr is not looked at.
PagesDoneIgnoringErr(r) ==
  /\ work[r].step = "extract"
  /\ work[r].todo = {} /\ work[r].stored = {}
  /\ GotoStep(r, "markReady")
  /\ UNCHANGED <<dbVars, objects, upload, delete, task, run, notices>>

\* wg.Wait() returns.
PagesDone(r) ==
  /\ work[r].step = "extract"
  /\ work[r].todo = {} /\ work[r].stored = {}
  /\ GotoStep(r, IF work[r].err THEN "markFailed" ELSE "markReady")
  /\ UNCHANGED <<dbVars, objects, upload, delete, task, run, notices>>

\* UPDATE documents SET status = 'ready', total_pages ... WHERE id = d.
SetReady(d) ==
  docs' = IF Exists(d)
          THEN [docs EXCEPT ![d].status = "ready", ![d].totalPages = NumPages[d]]
          ELSE docs

MarkReady(r) ==
  /\ work[r].step = "markReady"
  /\ SetReady(run[r].job)
  /\ GotoStep(r, "hooksReady")
  /\ UNCHANGED <<old, pages, hooks, objects, upload, delete, task, run, notices>>

\* Mutation: the error of MarkReady is dropped, as fail drops that of MarkFailed.
MarkReadyErrorDropped(r) ==
  /\ CallsMayFail
  /\ work[r].step = "markReady"
  /\ UNCHANGED docs \/ SetReady(run[r].job)
  /\ GotoStep(r, "hooksReady")
  /\ UNCHANGED <<old, pages, hooks, objects, upload, delete, task, run, notices>>

\* The task is to be retried; nobody is notified, also when the row says ready.
MarkReadyFails(r) ==
  /\ CallsMayFail
  /\ work[r].step = "markReady"
  /\ UNCHANGED docs \/ SetReady(run[r].job)
  /\ GotoStep(r, "erred")
  /\ UNCHANGED <<old, pages, hooks, objects, upload, delete, task, run, notices>>

\* Mutation: fail announces the status the document should have had.
MarkFailedAsReady(r) ==
  /\ work[r].step = "markFailed"
  /\ SetStatus(run[r].job, "failed") \/ (CallsMayFail /\ UNCHANGED docs)
  /\ GotoStep(r, "hooksReady")
  /\ UNCHANGED <<old, pages, hooks, objects, upload, delete, task, run, notices>>

\* fail: the error of MarkFailed is dropped.
MarkFailed(r) ==
  /\ work[r].step = "markFailed"
  /\ SetStatus(run[r].job, "failed") \/ (CallsMayFail /\ UNCHANGED docs)
  /\ GotoStep(r, "hooksFailed")
  /\ UNCHANGED <<old, pages, hooks, objects, upload, delete, task, run, notices>>

\* One fire_webhook task for every subscription there is now; errors are logged.
EnqueueWebhooks(r) ==
  LET d == run[r].job
      ready == work[r].step = "hooksReady"
      status == IF ready THEN "ready" ELSE "failed" IN
  /\ work[r].step \in {"hooksReady", "hooksFailed"}
  /\ \E sent \in SUBSET hooks[d] :
       /\ CallsMayFail \/ sent = hooks[d]
       /\ notices' = notices \cup {<<w, d, status>> : w \in sent}
  /\ GotoStep(r, IF ready THEN "succeeded" ELSE "erred")
  /\ UNCHANGED <<dbVars, objects, upload, delete, task, run>>

-----------------------------------------------------------------------------
(* The watchdog and webhook registration. *)

\* created_at falls behind time.Now() - timeout.
Age(d) ==
  /\ docs[d].status # "unused" /\ d \notin old
  /\ old' = old \cup {d}
  /\ UNCHANGED <<docs, pages, hooks, objects, upload, delete, task, run, work, notices>>

\* Mutation: only documents whose original was stored are swept.
StuckWithPath == {d \in old : docs[d].status = "processing" /\ docs[d].path}

Stuck == {d \in old : docs[d].status = "processing"}

\* FailStuckDocuments: one UPDATE over all stuck documents.
Sweep ==
  /\ Stuck # {}
  /\ docs' = [d \in DocIds |->
                IF d \in Stuck THEN [docs[d] EXCEPT !.status = "failed"] ELSE docs[d]]
  /\ UNCHANGED <<old, pages, hooks, objects, upload, delete, task, run, work, notices>>

RegisterWebhook(d, w) ==
  /\ Exists(d)
  /\ w \notin hooks[d]
  /\ hooks' = [hooks EXCEPT ![d] = @ \cup {w}]
  /\ UNCHANGED <<docs, old, pages, objects, upload, delete, task, run, work, notices>>

-----------------------------------------------------------------------------
(* Delete: DocumentService.DeleteDocument.  Bound: one request at a time for   *)
(* each document; a second one would find no row to delete.                    *)

\* Mutation: the objects are removed before the row.
ListPagesKeepRow(d) ==
  /\ delete[d].step = "none"
  /\ Exists(d)
  /\ delete' = [delete EXCEPT ![d] = [step |-> "original", path |-> docs[d].path, pages |-> pages[d]]]
  /\ UNCHANGED <<dbVars, objects, upload, task, run, work, notices>>

ListPages(d) ==
  /\ delete[d].step = "none"
  /\ Exists(d)
  /\ delete' = [delete EXCEPT ![d] = [NoDeletion EXCEPT !.step = "row", !.pages = pages[d]]]
  /\ UNCHANGED <<dbVars, objects, upload, task, run, work, notices>>

\* Mutation: the page rows do not go with the document's row.
DeleteRowNoCascade(d) ==
  /\ delete[d].step = "row"
  /\ docs' = [docs EXCEPT ![d].status = "deleted"]
  /\ hooks' = [hooks EXCEPT ![d] = {}]
  /\ delete' = [delete EXCEPT ![d].step = "original", ![d].path = docs[d].path]
  /\ UNCHANGED <<old, pages, objects, upload, task, run, work, notices>>

\* DELETE FROM documents; the cascade takes the pages and the subscriptions.
RemoveRow(d) ==
  /\ docs' = [docs EXCEPT ![d].status = "deleted"]
  /\ pages' = [pages EXCEPT ![d] = {}]
  /\ hooks' = [hooks EXCEPT ![d] = {}]

\* DELETE ... RETURNING.
DeleteRow(d) ==
  /\ delete[d].step = "row"
  /\ RemoveRow(d)
  /\ delete' = [delete EXCEPT ![d].step = "original", ![d].path = docs[d].path]
  /\ UNCHANGED <<old, objects, upload, task, run, work, notices>>

\* The request answers 500 and starts no removal, also when the row is gone.
DeleteRowFails(d) ==
  /\ CallsMayFail
  /\ delete[d].step = "row"
  /\ RemoveRow(d) \/ UNCHANGED <<docs, pages, hooks>>
  /\ delete' = [delete EXCEPT ![d] = NoDeletion]
  /\ UNCHANGED <<old, objects, upload, task, run, work, notices>>

\* The background goroutine.  An empty path names no object; errors are logged.
RemoveOriginal(d) ==
  /\ delete[d].step = "original"
  /\ \/ delete[d].path /\ objects' = objects \ {<<d, Original>>}
     \/ (CallsMayFail \/ ~delete[d].path) /\ UNCHANGED objects
  /\ delete' = [delete EXCEPT ![d].step = "pages"]
  /\ UNCHANGED <<dbVars, upload, task, run, work, notices>>

\* The listed pages go in order of their number.
RemovePage(d) ==
  /\ delete[d].step = "pages"
  /\ \E n \in delete[d].pages :
       /\ \A m \in delete[d].pages : n <= m
       /\ \/ objects' = objects \ {<<d, n>>}
          \/ CallsMayFail /\ UNCHANGED objects
       /\ delete' = [delete EXCEPT ![d].pages = @ \ {n}]
  /\ UNCHANGED <<dbVars, upload, task, run, work, notices>>

DeletionDone(d) ==
  /\ delete[d].step = "pages"
  /\ delete[d].pages = {}
  /\ delete' = [delete EXCEPT ![d] = NoDeletion]
  /\ UNCHANGED <<dbVars, objects, upload, task, run, work, notices>>

-----------------------------------------------------------------------------

\* The process dies, or is shut down with SIGTERM, and is started again: its
\* requests, worker goroutines and background deletions end.  The database, the
\* bucket and Redis remain.
ProcessGone ==
  /\ \/ \E d \in DocIds : upload[d] \notin {"none", "done"} \/ delete[d] # NoDeletion
     \/ \E r \in Runs : work[r] # NoWork
  /\ upload' = [d \in DocIds |-> IF upload[d] = "none" THEN "none" ELSE "done"]
  /\ delete' = [d \in DocIds |-> NoDeletion]
  /\ work' = [r \in Runs |-> NoWork]
  /\ UNCHANGED <<dbVars, objects, notices>>

Crash == Queue!Crash /\ ProcessGone

Shutdown == Queue!Shutdown /\ ProcessGone

UploadStep(d) ==
  \/ StoreOriginal(d) \/ StoreOriginalFails(d) \/ UpdateOriginalPath(d)
  \/ EnqueueTask(d) \/ UploadAborts(d)

DeleteStep(d) ==
  \/ DeleteRow(d) \/ DeleteRowFails(d) \/ RemoveOriginal(d) \/ RemovePage(d)
  \/ DeletionDone(d)

RunStep(r) ==
  \/ FetchDocument(r) \/ FetchFails(r) \/ Download(r) \/ DownloadFails(r)
  \/ PagesDone(r) \/ MarkReady(r) \/ MarkReadyFails(r) \/ MarkFailed(r)
  \/ EnqueueWebhooks(r) \/ Return(r)
  \/ \E n \in work[r].todo : UploadPage(r, n) \/ UploadPageFails(r, n)
  \/ \E n \in work[r].stored : SavePage(r, n)

Step ==
  \/ \E d \in DocIds :
       \/ CreateDocument(d) \/ CreateDocumentFails(d) \/ UploadStep(d) \/ ListPages(d) \/ DeleteStep(d)
       \/ Age(d) \/ Recover(d)
       \/ \E w \in Hooks : RegisterWebhook(d, w)
       \/ \E r \in Runs : Dequeue(r, d)
  \/ \E r \in Runs : RunStep(r) \/ GiveUp(r)
  \/ Sweep

Next == Step \/ Crash \/ Shutdown

Spec == Init /\ [][Next]_vars

\* The clock and the watchdog's ticker go on whatever else happens.  A call
\* returns, a pending task is started when a worker is free again and again, and
\* the recoverer notices a lost lease.
FairSpec ==
  /\ Spec
  /\ WF_vars(Sweep)
  /\ \A d \in DocIds : /\ WF_vars(Age(d))
                       /\ WF_vars(UploadStep(d))
                       /\ WF_vars(DeleteStep(d))
                       /\ WF_vars(Recover(d))
                       /\ SF_vars(\E r \in Runs : Dequeue(r, d))
  /\ \A r \in Runs : WF_vars(RunStep(r))

-----------------------------------------------------------------------------
(* Properties. *)

\* Every variable stays within its type.
TypeOK ==
  /\ docs \in [DocIds -> Document]
  /\ old \subseteq DocIds
  /\ pages \in [DocIds -> SUBSET Nat]
  /\ hooks \in [DocIds -> SUBSET Hooks]
  /\ objects \subseteq DocIds \X Nat
  /\ upload \in [DocIds -> {"none", "store", "patch", "enqueue", "done"}]
  /\ delete \in [DocIds -> Deletion]
  /\ Queue!TypeOK
  /\ work \in [Runs -> Work]
  /\ notices \subseteq Hooks \X DocIds \X {"ready", "failed"}

\* A document that is answered as ready can be read completely: it has a row for
\* every page from 1 to total_pages, and the object of every page is there,
\* however many runs of its task, live or abandoned, have worked on it.
ReadyComplete ==
  \A d \in DocIds :
    docs[d].status = "ready" =>
      /\ docs[d].totalPages = NumPages[d]
      /\ pages[d] = Pages(d)
      /\ \A n \in Pages(d) : <<d, n>> \in objects

\* A page that has a row belongs to a document that exists and its object is
\* stored, also while another run or a deletion of the document is under way.
PageRowHasObject ==
  \A d \in DocIds : \A n \in pages[d] : Exists(d) /\ <<d, n>> \in objects

\* A completed task has done its work: unless its document is deleted, the document
\* is no longer in processing and every page has its row and its object, although
\* runs that were given up, retries and lost results worked on it too.
CompletedIsDone ==
  \A d \in DocIds :
    task[d].st = "completed" /\ docs[d].status # "deleted" =>
      /\ docs[d].status \in {"ready", "failed"}
      /\ docs[d].totalPages = NumPages[d]
      /\ \A n \in Pages(d) : n \in pages[d] /\ <<d, n>> \in objects

\* The pages of a document that was announced as ready keep their rows and objects
\* until it is deleted, also after a run that was given up, or a retry, has set the
\* status to failed, when the readers answer 409 although nothing is missing.
AnnouncedComplete ==
  \A w \in Hooks, d \in DocIds :
    <<w, d, "ready">> \in notices /\ docs[d].status # "deleted" =>
      \A n \in Pages(d) : n \in pages[d] /\ <<d, n>> \in objects

\* 002_documents.sql draws the lifecycle "processing -> ready | failed": a document
\* that was announced as ready is ready, so that its pages can be read (GetPage,
\* GetPageRange and ListPages refuse every other status), until it is deleted.
ReadyNoticeHolds ==
  \A w \in Hooks, d \in DocIds :
    <<w, d, "ready">> \in notices => docs[d].status \in {"ready", "deleted"}

\* A deleted document never comes back, and until it is deleted neither a page row
\* nor an object of a document is lost: runs and their retries only add, and a
\* deletion removes objects only once the row is gone, also when it fails half-way.
KeptUntilDeleted ==
  [][\A d \in DocIds :
       docs'[d].status # "deleted" =>
         /\ docs[d].status # "deleted"
         /\ pages[d] \subseteq pages'[d]
         /\ \A o \in objects : o[1] = d => o \in objects']_vars

\* watchdog.go: "This prevents documents from sitting in limbo forever".  No
\* document stays in processing, whichever step failed, crashed or never came.
NoLimbo == \A d \in DocIds : docs[d].status = "processing" ~> docs[d].status # "processing"

\* Every task ends: it completes or is archived after its retries, although
\* crashes, time-outs, lost leases and lost results put it back; only orderly
\* shutdowns, which count no retry, can put it back for ever.
TaskEnds ==
  <>[][~Shutdown]_vars =>
    \A d \in DocIds : task[d].st = "pending" ~> task[d].st \in {"completed", "archived"}

\* DeleteDocument "removes a document and all extracted pages from both storage
\* and DB": once nothing works on a deleted document, no object of it is left.
DeleteRemovesAll ==
  \A d \in DocIds :
    (/\ docs[d].status = "deleted" /\ delete[d] = NoDeletion
     /\ upload[d] = "done" /\ task[d].st \notin {"pending", "active"}
     /\ \A r \in Runs : run[r].job # d)
    => \A o \in objects : o[1] # d

=============================================================================
