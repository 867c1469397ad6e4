# A verification project for the storage service

The repository is a Go service (module `miniio_s3`) that keeps users' files and
PDF documents in a MinIO bucket and their metadata in PostgreSQL. This directory
holds TLA+ models of its stateful parts, the TLC configurations that check them
on small instances, and proofs checked by TLAPS.

## 1. Inventory

| Part | State it keeps | Operations | Hard because of |
|---|---|---|---|
| Files (`handlers/files.go`, `service/file_service.go`, `storage/metadata.go`) | tables `users` (byte counter, quota) and `files` (key, hash, reference count, soft delete), objects in the bucket | upload (hash, `Save`, put), delete (`Delete`, remove), reads | two stores without a common transaction; row locks taken in two orders; READ COMMITTED reads of unlocked rows; deduplication across users |
| Documents (`service/document_service.go`, `storage/document_store.go`) | tables `documents`, `document_pages`, `webhook_subscriptions`; objects `documents/{id}/...` | upload (create, put, patch, enqueue), delete (list, delete row, background removal), webhook registration | five steps in three systems with no transaction; deletion concurrent with upload and extraction |
| Page retrieval (`handlers/documents.go`, the reading half of `document_service.go`) | none | `GetDocument`, `GetPage`, `GetPageRange` (ZIP), `ListPages` | status, rows and objects are read one after the other while runs, sweeps and deletions change them |
| Worker (`worker/processor.go`) | status, pages, objects, tasks | `HandleExtractPages`, `HandleFireWebhook` | parallel page goroutines; runs that Asynq has given up but that go on |
| Task queue (`worker/worker.go`, vendored `asynq`) | pending/active/retry/archived tasks in Redis, leases | enqueue, dequeue, time-out, retry, recover, requeue | at-least-once delivery, crashes, lost leases and results |
| Watchdog (`worker/watchdog.go`) | its ticker | sweep | races with the worker; the only way out of "processing" after a crash; its ticker starts again with every process |
| Rate limiter (`middleware/ratelimit.go`) | time-stamps per user, under a mutex | `allow`, `cleanup` | clock read before the mutex is taken |
| Accounts (`handlers/auth.go`, `handlers/apikeys.go`, `middleware/auth.go`, `middleware/apikey.go`, `storage/apikey_store.go`) | tables `users`, `api_keys`; tokens | register, login, create/list/revoke key, check | key checked once per request, in two steps; asynchronous `last_used_at` |
| Start-up, configuration, migrations (`main.go`, `config/`, `db/`) | schema, bucket, the process | start, serve, drain, stop | crash between migrations; order and deadline of the shutdown; arithmetic on settings |

How they interact. HTTP handlers run one goroutine per request. Files and
documents share only the row of the user (`storage_bytes_used`) and the bucket,
where their key prefixes differ. An upload of a document hands over to the worker
through Redis; worker, watchdog, deletion and readers meet in the rows of
`documents` and `document_pages` and in the bucket. The worker hands notices to its
other handler through Redis again. The worker runs inside the server's process, so a
crash stops requests, worker goroutines and background deletions together.

What makes each part correct:

* Files: the quota holds at commit; the counter equals the bytes charged; a row
  is deleted once; a shared object lives as long as a row points to it; every
  request is answered.
* Documents: a ready document is complete; rows and objects agree; a completed task has
  done its work; what a subscriber was told stays true; no document stays in
  "processing"; tasks end; a deletion leaves nothing.
* Page retrieval: a successful answer holds the pages asked for, and they can be read.
* Queue and webhooks: one live run of a task; a completed notice was accepted; the
  number of posts is bounded; every notice is accepted or archived.
* Rate limiter: neither too many admissions nor rejections without cause.
* Accounts: no admission with a dead key, no refusal of a good one, no return from
  revocation.
* Process: it serves only when prepared, ends after a signal, and fails stuck documents in
  time, also those of requests that its end cut off.

## 2. Modules

| Module | Models | EXTENDS / INSTANCE |
|---|---|---|
| `FileCatalog` | abstract: files are added, removed and charged atomically, with the quota | |
| `FileStore`, `MCFileStore` | files, statement by statement | INSTANCE `FileCatalog` (refinement) |
| `FileStoreProofs` | proofs about `FileStore` | `FileStore` |
| `Asynq` | the task queue, whatever the handlers do | |
| `AsynqProofs` | proofs about `Asynq` | `Asynq` |
| `Documents`, `MCDocuments` | document upload, extraction, watchdog, deletion, enqueueing of notices | INSTANCE `Asynq` (its actions) |
| `DocumentsProofs` | what the queue's theorems say of extractions, and the proofs about documents | `Documents`; INSTANCE `AsynqProofs` |
| `DocumentReads`, `MCDocumentReads` | page retrieval beside everything in `Documents` | `Documents` |
| `DocumentReadsProofs` | proofs about page retrieval | `DocumentReads`, `DocumentsProofs` |
| `Webhooks` | delivery of notices behind the queue | `Asynq` |
| `WebhooksProofs` | proofs about `Webhooks` | `Webhooks`, `AsynqProofs` |
| `RateLimiter`, `MCRateLimiter` | the sliding window | |
| `RateLimiterProofs` | proofs about `RateLimiter` | `RateLimiter` |
| `Accounts`, `MCAccounts` | accounts, tokens, API keys | |
| `AccountsProofs` | proofs about `Accounts` | `Accounts` |
| `Server`, `MCServer` | the process: start-up, serving, shutdown, the watchdog's ticker | |
| `ServerProofs` | proofs about `Server` | `Server` |

Operators whose comment starts with "Mutation:" are small deliberate mistakes.
No specification uses them; they show, one at a time in the place of the operator
they follow, that the properties notice the mistake.

### FileStore

`pc[p]` is the next step of request `p`: the statements of `Save` (`lockUser`,
`findCanonical`, `incrRef`, `insert`), the put (`upload`), the statements of
`Delete` (`fetch`, `findCanon`, `decrRef`, `reclaim`) and `removeObject`.
A statement is a step of its own when it can wait for a row lock or reads rows that
nobody has locked; the other statements touch only rows the transaction has locked
or inserted and belong to the step that commits. `userLock` and `rowLock` are the
row locks of PostgreSQL. `UPDATE` after a wait looks at the row again (READ
COMMITTED), which is why `IncrRef` may update no row. `LIMIT 1` without an order is
a choice among the active rows of the content. A failed statement rolls back; an
object-store call that fails may or may not have taken effect; a failed put leads to
`deleteOrphanedMeta`, whose error is dropped. A crash ends all requests, rolls their
transactions back and leaves the bucket. The deadlock detector aborts a member of a
cycle of waiting transactions. Documents appear only by what they do to the counter.

Abstractions: a content is its hash (collisions of SHA-256, and of the 16 digits
used in the key, are ignored); the user's quota is one constant; a file id that was
used is not handed out again; a failed SQL statement has no effect. A commit whose answer
is lost needs no action of its own: that of `Save` leaves what `InsertFile`, a failed put and
a failed compensation leave, that of `Delete` what `CommitDelete` and a failed removal leave.

### Asynq

`task[j]` is a task in Redis with its count of retries, `run[r]` a goroutine in a
handler. `ctx` of a run is TRUE as long as Asynq waits for it. A time-out cancels the
context and retries the task (`handleFailedMessage`); a lost lease cancels the context
and leaves Redis to the recoverer; in both cases the goroutine goes on, and what it
returns later is not looked at. `Return` of a live run completes or retries the task,
or is lost when Redis does not answer. `Shutdown` is the orderly stop in which Asynq
requeues unfinished tasks without counting a retry, as far as it gets before `main`
returns; `Crash` is every other end of the process.

The recoverer looks at the lease in Redis, not at runs. `Recover` asks instead that no run of
the task is live. That stands for two facts of Asynq: the heartbeat extends the lease of a
live run, and a run whose lease ends without being extended is cancelled at once
(`LoseLease`), 30 seconds before the recoverer takes the lease for lost. `OneLiveRun` rests
on this assumption, and so on clocks of Redis and the process that differ by less than that.

Left out: retry delays (a pending task may wait arbitrarily), priorities of the
queues, unique and scheduled tasks. A task has the state "none" before it is enqueued.

### Documents

`upload[d]` is the step of the request that uploads `d`, `delete[d]` the request or
background goroutine that deletes it, `task` and `run` the queue, and `work[r]` what a
goroutine is doing in `HandleExtractPages`. Object-store calls of a run that was given
up fail, its SQL statements (which take no context) still work. Every call that returns an
error may have taken effect: the row of an upload that answers 500 may be there, or be
patched; a task may be enqueued; a page row saved; a document made ready whose task is
retried; a row deleted by a request that then removes no object. The page goroutines of
a run are the sets `todo` (not stored yet) and `stored` (row not saved yet), so pages
advance in any order. The path of the original is in the row whenever a task exists,
since the task is enqueued after the row is patched; hence `Download` needs only the
object. `Age` says that `created_at` has fallen behind the watchdog's cutoff; it can
happen at any time, so no assumption is made about how long extraction takes compared
with `PROCESSING_TIMEOUT_MINUTES`.

Abstractions: one request at a time deletes a given document (a second one finds no
row); `pdfcpu` finds a fixed number of pages in a document or fails; temporary files
are private to a run.

### DocumentReads

`read[q]` is a GET request: its parameters, its step (row of the document, page rows,
objects), what it has handed out and its answer. `Ask` is the handler's look at the
parameters, `ReadDocument` the ownership and status checks and the clamping of a
range, `ReadRows` the second statement, `FetchPage` one object of the ZIP stream.
`Status` keeps the handlers' mapping of errors, with two particulars of the range:
"not found" is answered with an empty 200, and an error after the first entry ends the
archive, which is still a readable one with status 200. A presigned URL needs no
object when it is made. `ListDocuments` is one SELECT and is left out.

### Webhooks

`work[r]` is the step of `HandleFireWebhook` in a goroutine, `posts` what the endpoint
received and `accepted` what it answered with 2xx. The handler does not use its
context, so `Post` does not ask for `ctx`: a run that was given up still posts. An
endpoint may accept a notice and answer too late, which the handler sees as a failure.

### Accounts

`tokens[u]` is the expiry of the last token of a user (older ones expire no later),
`keys` the table `api_keys`, `touches[k]` the goroutines that have yet to note the use
of a key, `req[r]` a request on its way through `FlexAuth` and its handler. `GetByHash`
is two steps, the row and the clock; a request runs its handler without another
check. `dead` remembers whether the key was already revoked or expired when the request
arrived. An INSERT whose answer is lost leaves an account without a token, or a key no
one holds ("lost"). Passwords, signatures and hashes are taken to work.

### Server

`main` is "down", "boot" (migrations and bucket), "prepared", "serving" or "draining".
`Migrate` executes one file again at every start; `Fatal` may end the process anywhere,
between two migrations too. `Signal` closes the listener; `Drained` and `DrainTimesOut`
are the two ways `srv.Shutdown` returns. The watchdog's ticker is made with the process
(`MakeTicker`, where `time.NewTicker` panics unless the interval is positive), fires
every `Timeout \div 2` minutes and forgets everything at a restart. `created` holds the
documents in "processing" only: `CreateDocument` is a step of a request before its response,
so a request that the end of the process cuts off leaves its document to the watchdog.
`Respond` is the return of any handler. The time-outs of `http.Server` (five minutes to read
and to write, `main.go:151`) end connections, not handlers, and are left out.

### RateLimiter

`Arrive` is `allow` up to the lock, `Admit` and `Reject` are the part under the
mutex, `CleanupTick` and `Cleanup` the two halves of the clean-up. A slice of
time-stamps is the set of admitted requests they belong to; the code looks at their
number and ages, not at their order. `MaxDelay` is how long a goroutine may stay
between `time.Now()` and `Lock()`: the code does not bound it, so the properties are
stated in terms of it.

## 3. Runs

| Run | Instance | Shows |
|---|---|---|
| `files` | 2 users, 1 content, 2 file ids, 1 document, 2 requests at a time, quota 2 | `TypeOK`, `QuotaHeldToCommit`, `DeleteHoldsRow`, `UsageExact`, refinement of `FileCatalog`, and `RequestsFinish` under `FairSpec` |
| `files_shared_object` | one request at a time | `SharedObjectKept` fails: a delete removes an object in use |
| `documents_safety` | 1 document of 2 pages, 2 runs, 2 retries, 1 hook, everything may fail | `TypeOK`, `ReadyComplete`, `PageRowHasObject`, `CompletedIsDone`, `AnnouncedComplete`, `KeptUntilDeleted` |
| `documents_liveness` | 1 document of 1 page, 2 runs, 1 retry, everything may fail | `NoLimbo`, `TaskEnds` under `FairSpec` |
| `documents_notice` | 2 runs, 1 retry, calls do not fail, no crash | `ReadyNoticeHolds` fails: a run that was given up sets an announced document to failed |
| `documents_delete` | calls do not fail, no crash | `DeleteRemovesAll` fails: the original of a document deleted during its upload stays |
| `reads_safety` | 1 reader, 1 document of 2 pages, 1 run, pages 0 to 3 asked for, everything may fail | `ReadTypeOK`, `HandedOutExactly`, `HandedOutReadable` |
| `reads_zip` | calls do not fail, no crash | `ZipHoldsPages` fails: a deletion during the stream puts error pages into the archive |
| `webhooks` | 2 notices, 2 goroutines, 2 retries, 1 orderly shutdown, any number of crashes | `HookTypeOK`, `CompletedAccepted`, `PostsBounded`, `OneLiveRun`, and `AcceptedOrArchived` under `HookFairSpec` |
| `rate_safety` | 1 user, 5 requests, limit 2, window 3, delay 1 | `TypeOK`, `RateKept`, `RejectedForCause` |
| `accounts` | 2 users, 1 key, 2 requests, 2 ticks | `TypeOK`, `AdmittedInTime`, `RefusedForCause`, `RevokedForGood`, and `RevocationTakesHold` under `FairSpec` |
| `server` | settings unset, -1, 0, 1, 2, 3, 5; 3 migrations, 2 documents, 2 requests, 11 minutes, 1 failed sweep per process, any number of restarts | `TypeOK`, `ServesPrepared`, `StuckBriefly`, `PanicsBelowTwo`, and `SignalEnds` under `FairSpec` |

The runs named as failing state what a comment or a document of the repository says;
`PROJECT.json` quotes it and names the line of the code that differs.

Why the bounds are enough. In files, the conflicts are between two transactions, on
one user's row and on rows of one content. Two file ids allow a canonical row and a
duplicate, of the same user or of two, and with them both kinds of deadlock (a save against a
deletion, and two deletions); the quota 2 with contents of size 1 is reached by files and by
documents. The safety properties of the run are theorems for any size; longer histories of one
content are the subject of `files_shared_object`, which has three ids. In documents, conflicts are between a
run that was given up and its successor (two runs), two pages tell partial from full
success, and two retries let both be given up and a third start. The documents do
not share state except the queue's capacity, so one is enough for safety. Readers change
nothing, so one suffices; two pages and requests for pages 0 to 3 reach every branch of
the parameter checks and the clamping; one run is enough since a crash or a lost
lease hands its task to a successor. Webhook tasks get 3 retries in the source;
the instance has 2, the theorems hold for any number. In accounts a key that
expires at 1 is good at 1 and dead at 2, and a token issued at 0 is dead at 1, so that
both sides of both comparisons occur; the second request revokes the key under the first.
In the server, 11 minutes contain a whole time-out of 5, its sweep, a failed sweep and a
restart. The bounds of `RateKept`, `RejectedForCause` and `StuckBriefly` are tight on
their instances.

`CHECK_DEADLOCK FALSE` is set in all runs but those of `FileStore`: there the
ids, requests or ticks of the instance run out and everything is done. In `FileStore`
the check is on.

Fairness. `FileStore!FairSpec`: every step of a request is a call that returns
(or fails), and PostgreSQL serves the waiters of a row lock in order, so strong
fairness of a request's steps; the deadlock detector runs in every waiting
transaction. No new request is assumed to arrive. `Documents!FairSpec`: time
passes and the watchdog's ticker fires; calls return; a pending task is started if a
worker is free again and again (Asynq polls its queues with weights, so none starves);
the recoverer runs. That the ticker fires needs a process that lives for an interval now
and then, and a sweep whose statement succeeds: `StuckBriefly` of `Server` says by how much
restarts and failed sweeps delay it. `TaskEnds` holds only if orderly shutdowns end some day,
since they put a task back without counting; it says so. `HookFairSpec` assumes of the
queue what `Documents!FairSpec` does, and that the handler's time-out ends its post;
shutdowns are bounded by `MaxStops`. `Accounts!FairSpec`: statements and handlers return and
goroutines get to run. `Server!FairSpec`: only that `srv.Shutdown` returns, at the latest
after its 30 seconds; handlers may hang.

### What the models show beside the properties

These are behaviours of the code, reached by the models, that differ from a document of
the repository or deserve to be known, and that no run states as a property.

* `CreateDocument` adds to `storage_bytes_used` without looking at the quota
  (`Charge` of `FileCatalog` has no guard), so documents take a user over the quota
  README.md:7 speaks of; file uploads are then refused.
* `UsageExact` counts the documents a user *ever* uploaded: `DeleteDocument` gives no
  bytes back.
* `findCanonical` takes no lock: two first uploads of the same content at the same time
  both store an object, against README.md:313 ("global uniqueness" in `001_init.sql`).
* An upload commits the row before it stores the object: a crash, or a failed put whose
  compensation fails too, leaves a listed file without an object, against which later
  uploads of the content are deduplicated.
* "failed" is not final (002_documents.sql:17-18 draws it so): a run or a retry makes a
  document ready that the watchdog, or another run, has failed. The other direction is the
  finding of `documents_notice`: "ready" becomes "failed" by a run that was given up, or by a
  retry after a lost result, and the readers then answer 409. No row and no object is lost by
  it (`AnnouncedComplete`), but nothing makes the document ready again unless its task is
  still to be retried. The watchdog touches only documents in "processing".
* A DELETE of a document whose answer is lost answers 500 and leaves its objects for ever.
* The 429 of `handlers/documents.go:47` is never given: `CreateDocument` returns no
  `ErrQuotaExceeded`.
* The watchdog fails a document without sending the notice 002_documents.sql:51 speaks of.
* A limit of 0 turns every upload away; config.go:47 says "0 = disabled". `RateKept` and
  `RejectedForCause` hold for 0 too.
* `PROCESSING_TIMEOUT_MINUTES` below 2 makes `time.NewTicker` panic (`PanicsBelowTwo`).
* An error in the middle of a range is answered 200 with a shorter archive, and a document
  id of fewer than eight bytes makes the range handler panic (`docID[:8]`), which
  `gin.Recovery` answers with 500.

## 4. Proofs

TLAPS checks every leaf of the eight proof modules, for all values of the constants that
satisfy the assumptions of the modules (`StoreAssumption`, `RateLimiterAssumption`,
`AsynqAssumption`, `WebhooksAssumption`, `DocumentsAssumption`, `ReadsAssumption`,
`AccountsAssumption`, `ServerAssumption`). These say that counts and times are numbers,
that `None` is none of the ids, and that sets whose members are counted are finite. Every invariant and every action property that a passing run
checks is also a theorem. TLC checked each inductive invariant on the instance of the
component's run before it was proved.

`FileStoreProofs`. The inductive invariant `IInv` is the conjunction of

* `TypeOK`, and `RequestOK`: which parameters a request has at which step;
* `RowOK`: an active row has a content, an unused document no owner;
* `QuotaHeldToCommit` and `DeleteHoldsRow`: what a transaction has read under a lock
  stays true while it holds the lock;
* `BytesFinite`, so that the cardinalities in `UsageExact` are numbers;
* `UsageExact`.

`UsageExact` is not inductive alone: a delete subtracts the size of the row it fetched
some steps before, which is right only because the row is still active and owned
(`DeleteHoldsRow`) and its size is part of the counter (so `GREATEST(0, ...)` never
cuts). `QuotaHeldToCommit` needs that document uploads wait for the lock of the user's
row. `Invariance` shows `Spec => []IInv`, one lemma per action; from it follow
`TypeCorrect`, `QuotaCheckHolds`, `DeleteIsExclusive`, `UsageNeverDrifts` and
`Refinement` (`Spec => ImplementsCatalog`: every step is an `Add`, `Remove` or
`Charge` of the catalogue, or leaves it unchanged).

`RateLimiterProofs`. `SlicesCover` is the heart of the invariant: a slice contains
every admission whose time-stamp is younger than `clock - Window`, since every cutoff
ever used was computed from a clock not ahead of the present one (`StampsOK`,
`CleanerOK`). With `SlicesOK` (a slice holds at most `Limit` admissions of its user)
it gives `RateIsKept`; `RejectionHasCause` counts the slice a rejected request saw,
and `CauseKept` that this count does not fall later.

`AsynqProofs`. `OneLiveRun` is inductive together with the types and with `LiveHasJob`
(a run with a live context has a task): a task leaves "active" only in a step that also
ends the context of its live run, or when there is none.

`WebhooksProofs` builds on it. Every step of `Webhooks` is a step of the queue
(`HookNextIsNext`), so `QueueInv` comes for free. `PostsBounded` is not inductive: a run
that was given up and its successor may both be about to post. `PostsPaid` counts the
posts made, the goroutines about to post, and one for a task that waits for a run; this
sum never exceeds the first attempt plus the retries plus the shutdowns, since a post only
moves a unit from the second to the first account, a start from the third to the second,
and whoever makes a task wait again pays for it with a retry or a shutdown.
`CompletedMeansAccepted` needs that a handler which reports success was answered (`WorkOK`).

`DocumentsProofs`. Every action contains an action of the queue or leaves `task` and `run`
alone (lemma `NextQueue`, true by the way the module is written), so what the queue keeps
invariant holds of extractions (`QueueOK`, `OneExtractionAtATime`). The other theorems follow from `DocInv`, the conjunction of

* `TypeOK` and `QueueOK`;
* `RowsOK`: page rows are pages of an existing document and have their objects, a ready
  document has all of them, and a deletion removes objects only once the row is gone;
* `WorkOK`: what each run of `HandleExtractPages`, given up or not, knows of its document
  unless that was deleted. The pages it has stored are in the bucket; while no page has
  failed every page has its row, or is stored, or is still to do; past `wg.Wait` without an
  error all rows are there, and past `MarkReady` the document is extracted: it is ready or
  failed and has its number of pages;
* `TasksOK`: an upload or a task has a document, and a completed task an extracted one with
  all its rows, or a deleted one;
* `NoticesOK`: a document announced as ready has all its rows until it is deleted.

`ReadyComplete` is not inductive: "ready" is written by runs that may have been given up
long before, so what a run has seen must stay true whatever the others do. That is
`StepGrows`: no step takes a row or an object from a document that is not deleted, and no
deleted document comes back; an extracted document stays extracted. It is also the heart of
`NothingLost` (`KeptUntilDeleted`). `CompletedTasksAreDone` adds how a task gets completed
(`TaskGoes`): only by the return of a live run that succeeded, which is past `MarkReady`, or
has found no row, and then the document, which exists since before the task does, is deleted.

`DocumentReadsProofs` adds the readers. A step of a reader is a stuttering step of
`Documents` (`ReadNextIsNext`), so `DocInv` and `StepGrows` carry over. `ReadsOK` says what a
request knows at each step: once it has seen the document ready, all rows are there unless
the document is deleted; the rows it selected and the pages it handed out make up what was
asked for, after clamping. `ReadsAreExact` and `ReadsAreReadable` follow.

`AccountsProofs`. `KeyKept` and `Onward` say what every step does: accounts stay, the clock
does not go back, a key keeps its owner and expiry, and the row of a revoked key does not
change (`RevokedStaysRevoked`). So a key that was dead when a request arrived is still dead
later. `ReqOK` says why at each step: in "lookup" it is revoked or expired, in "expiry" it
has expired, for the row was found and a revoked key has none; hence such a request is never
admitted (`AdmittedOnlyInTime`). `HoldersOK` (whoever holds a token or owns a key has an
account) gives the rest.

`ServerProofs`. `StoresOK` keeps track of the migrations across starts that stop half-way.
`StuckBriefly` speaks of the
present time and is not inductive; `Due` says the same of the *next tick*, with `TickerOK`
(the next tick is at most one interval away, and there is a ticker only when the interval is
positive). A sweep that succeeds leaves only documents not yet too old, a sweep that fails
moves the tick by one interval and pays for it with `missed`, and a restart starts from
`started`. The theorem holds for every setting, odd and negative ones included.

Only model-checked: the liveness properties (`RequestsFinish`, `NoLimbo`, `TaskEnds`,
`AcceptedOrArchived`, `RevocationTakesHold`, `SignalEnds`), since fairness and ENABLED are
outside the prover; the four violated properties are false.

## 5. Not modelled

Reads that are one SELECT and change nothing: the user's profile, the lists of files,
documents and keys. Passwords, signatures, hashes, presigned URLs, formatting. Queue
priorities and other features of Asynq that the program does not rely on. Connection pools.
Test doubles, and vendored libraries except for the parts of Asynq that decide which run
counts.

## 6. Plan

Done: `FileCatalog`, `FileStore`, `RateLimiter`, `Asynq`, `Webhooks`, `Documents`,
`DocumentReads`, `Accounts`, `Server`, and proofs of all their invariants and action
properties and of the refinement of `FileCatalog`. Left, in this order:

1. Action properties of the other components worth a theorem: in `Server`, that the schema
   never shrinks across starts and that a document leaves "processing" by the sweep only
   when it is too old; in `Webhooks`, that a given-up run never changes its task.
2. The safety half of the liveness properties, as invariants: which step of which actor a
   document in "processing" or an active task is waiting for.
