------------------------------ MODULE FileStore ------------------------------
(***************************************************************************)
(* File uploads and deletions: the HTTP handlers of handlers/files.go, the *)
(* FileService of service/file_service.go, the PostgreSQL transactions of  *)
(* storage/metadata.go and the object store behind storage/minio.go.       *)
(*                                                                         *)
(* A request is a goroutine p of the server.  It takes one step per SQL    *)
(* statement that can wait for a row lock or that reads rows nobody has    *)
(* locked, and one step per object-store call; every other statement of a  *)
(* transaction touches only rows the transaction has locked or inserted,   *)
(* so it is part of the step that commits.  The isolation level is         *)
(* PostgreSQL's default, READ COMMITTED: a statement sees what is          *)
(* committed when it runs, and an UPDATE that waited for a lock looks at   *)
(* the row again.  Documents appear only by what they do to the counter    *)
(* storage_bytes_used, which both halves of the service share.             *)
(***************************************************************************)
EXTENDS Integers, FiniteSets

CONSTANTS
  Users,    \* registered users (users.id)
  Hashes,   \* contents, named by their SHA-256
  Names,    \* file names after filepath.Base and blank replacement
  FileIds,  \* file ids the database can hand out (bounds the uploads)
  DocIds,   \* document ids, likewise
  Procs,    \* request goroutines of the server (bounds the concurrency)
  Size,     \* bytes of each content
  Quota,    \* users.storage_quota_bytes, the same for every user
  None      \* SQL NULL, and "nobody holds the lock"

ASSUME StoreAssumption ==
  /\ Size \in [Hashes -> Nat]
  /\ Quota \in Nat
  /\ None \notin Users \cup FileIds \cup Hashes \cup Procs

VARIABLES
  files,     \* table files, by id
  docs,      \* table documents, by id
  used,      \* users.storage_bytes_used
  objects,   \* keys present in the bucket
  userLock,  \* transaction that holds the row lock of a user
  rowLock,   \* transaction that holds the row lock of a file
  pc,        \* the step each request goroutine is about to take
  req        \* parameters and local variables of each request

vars == <<files, docs, used, objects, userLock, rowLock, pc, req>>

-----------------------------------------------------------------------------
(* Rows, keys and requests. *)

Keys == Users \X Hashes \X Names

\* Mutation: the user is left out of the key.
buildObjectKeyNoUser(u, h, n) == <<h, n>>

\* The key keeps the user, the hash and the file name apart.
buildObjectKey(u, h, n) == <<u, h, n>>

\* A row is never forgotten: "deleted" has deleted_at set, "gone" was removed
\* by DELETE, "unused" was not inserted yet.
FileMeta == [st : {"unused", "active", "deleted", "gone"},
             user : Users \cup {None}, sha256 : Hashes \cup {None},
             key : Keys \cup {None}, ref : Int]

NoFile == [st |-> "unused", user |-> None, sha256 |-> None,
           key |-> None, ref |-> 0]

\* file: the row inserted or to be deleted.  canon: the row found by the
\* LIMIT 1 query, None when Save found no row or Delete is to hard-delete.
\* orphan: the deletion is deleteOrphanedMeta's, which drops its result.
Request == [user : Users \cup {None}, sha256 : Hashes \cup {None},
            key : Keys \cup {None}, file : FileIds \cup {None},
            canon : FileIds \cup {None}, orphan : BOOLEAN]

NoRequest == [user |-> None, sha256 |-> None, key |-> None, file |-> None,
              canon |-> None, orphan |-> FALSE]

Document == [st : {"unused", "live", "deleted"},
             user : Users \cup {None}, sha256 : Hashes \cup {None}]

NoDocument == [st |-> "unused", user |-> None, sha256 |-> None]

SaveTx   == {"findCanonical", "incrRef", "insert"}
DeleteTx == {"findCanon", "decrRef", "reclaim"}
Steps    == SaveTx \cup DeleteTx
              \cup {"idle", "lockUser", "upload", "fetch", "removeObject"}

\* Rows that "sha256 = $1 AND deleted_at IS NULL" selects.
Active(h) == {f \in FileIds : files[f].st = "active" /\ files[f].sha256 = h}

Init ==
  /\ files = [f \in FileIds |-> NoFile]
  /\ docs = [d \in DocIds |-> NoDocument]
  /\ used = [u \in Users |-> 0]
  /\ objects = {}
  /\ userLock = [u \in Users |-> None]
  /\ rowLock = [f \in FileIds |-> None]
  /\ pc = [p \in Procs |-> "idle"]
  /\ req = [p \in Procs |-> NoRequest]

\* The transaction of p ends and gives its row locks back.
ReleaseLocks(p) ==
  /\ userLock' = [u \in Users |-> IF userLock[u] = p THEN None ELSE userLock[u]]
  /\ rowLock' = [f \in FileIds |-> IF rowLock[f] = p THEN None ELSE rowLock[f]]

Goto(p, step) == pc' = [pc EXCEPT ![p] = step]

\* The response is sent and the goroutine ends.
Respond(p) ==
  /\ Goto(p, "idle")
  /\ req' = [req EXCEPT ![p] = NoRequest]

-----------------------------------------------------------------------------
(* Upload: FileHandler.Upload, FileService.Upload, MetadataStore.Save. *)

\* Bound: an id is left for every Save that may still insert a row.
IdsLeft ==
  Cardinality({f \in FileIds : files[f].st = "unused"})
    > Cardinality({p \in Procs : pc[p] \in SaveTx \cup {"lockUser"}})

UploadRequest(p, u, h, n) ==
  /\ pc[p] = "idle"
  /\ IdsLeft
  /\ Goto(p, "lockUser")
  /\ req' = [req EXCEPT ![p] = [NoRequest EXCEPT !.user = u, !.sha256 = h,
                                                 !.key = buildObjectKey(u, h, n)]]
  /\ UNCHANGED <<files, docs, used, objects, userLock, rowLock>>

\* Mutation: the size of the new file is not counted.
OverQuotaNoSize(u, h) == used[u] > Quota

OverQuota(u, h) == used[u] + Size[h] > Quota

\* Mutation: SELECT without FOR UPDATE.
LockUserNoLock(p) ==
  /\ pc[p] = "lockUser"
  /\ userLock[req[p].user] = None
  /\ ~OverQuota(req[p].user, req[p].sha256)
  /\ Goto(p, "findCanonical")
  /\ UNCHANGED <<files, docs, used, objects, userLock, rowLock, req>>

\* SELECT ... FOR UPDATE on the user row, then the quota check.
LockUser(p) ==
  LET u == req[p].user IN
  /\ pc[p] = "lockUser"
  /\ userLock[u] = None
  /\ ~OverQuota(u, req[p].sha256)
  /\ userLock' = [userLock EXCEPT ![u] = p]
  /\ Goto(p, "findCanonical")
  /\ UNCHANGED <<files, docs, used, objects, rowLock, req>>

\* Mutation: the early return leaves the transaction open.
RejectOverQuotaNoRollback(p) ==
  /\ pc[p] = "lockUser"
  /\ userLock[req[p].user] = None
  /\ OverQuota(req[p].user, req[p].sha256)
  /\ userLock' = [userLock EXCEPT ![req[p].user] = p]
  /\ Respond(p)
  /\ UNCHANGED <<files, docs, used, objects, rowLock>>

\* The same statement, but the check fails: the deferred Rollback gives the
\* lock back at once and the handler answers 429.
RejectOverQuota(p) ==
  /\ pc[p] = "lockUser"
  /\ userLock[req[p].user] = None
  /\ OverQuota(req[p].user, req[p].sha256)
  /\ Respond(p)
  /\ UNCHANGED <<files, docs, used, objects, userLock, rowLock>>

\* SELECT ... LIMIT 1 without ORDER BY: any active row with the hash may be
\* the one returned, and nothing is locked.
FindCanonical(p) ==
  /\ pc[p] = "findCanonical"
  /\ \/ /\ Active(req[p].sha256) = {}
        /\ Goto(p, "insert")
        /\ UNCHANGED req
     \/ \E c \in Active(req[p].sha256) :
          /\ req' = [req EXCEPT ![p].canon = c]
          /\ Goto(p, "incrRef")
  /\ UNCHANGED <<files, docs, used, objects, userLock, rowLock>>

\* UPDATE files SET ref_count = ref_count + 1 WHERE id = $1.  It waits for the
\* row lock; if the row is gone by then it updates nothing, and the number of
\* rows it changed is not looked at.  The new count is written by InsertFile.
IncrRef(p) ==
  LET c == req[p].canon IN
  /\ pc[p] = "incrRef"
  /\ \/ files[c].st = "gone" /\ UNCHANGED rowLock
     \/ /\ files[c].st # "gone"
        /\ rowLock[c] = None
        /\ rowLock' = [rowLock EXCEPT ![c] = p]
  /\ Goto(p, "insert")
  /\ UNCHANGED <<files, docs, used, objects, userLock, req>>

\* The key stored in the new row: the canonical row's, as read by
\* FindCanonical, or a key of the uploader's own.
KeyFor(p) == IF req[p].canon = None THEN req[p].key ELSE files[req[p].canon].key

\* INSERT, the increment made visible, storage_bytes_used and COMMIT.  A
\* duplicate is answered now; new content is still to be stored.
InsertFile(p, f) ==
  LET u == req[p].user
      h == req[p].sha256
      row == [st |-> "active", user |-> u, sha256 |-> h,
              key |-> KeyFor(p), ref |-> 1] IN
  /\ pc[p] = "insert"
  /\ files[f].st = "unused"
  /\ files' = [g \in FileIds |->
                 IF g = f THEN row
                 ELSE IF rowLock[g] = p THEN [files[g] EXCEPT !.ref = @ + 1]
                 ELSE files[g]]
  /\ used' = [used EXCEPT ![u] = @ + Size[h]]
  /\ ReleaseLocks(p)
  /\ \/ /\ req[p].canon = None
        /\ Goto(p, "upload")
        /\ req' = [req EXCEPT ![p].file = f]
     \/ /\ req[p].canon # None
        /\ Respond(p)
  /\ UNCHANGED <<docs, objects>>

PutObject(p) ==
  /\ pc[p] = "upload"
  /\ objects' = objects \cup {req[p].key}
  /\ Respond(p)
  /\ UNCHANGED <<files, docs, used, userLock, rowLock>>

\* PutObject returns an error, before or after the object was written; the
\* service goes on to deleteOrphanedMeta.
PutObjectFails(p) ==
  /\ pc[p] = "upload"
  /\ objects' \in {objects, objects \cup {req[p].key}}
  /\ Goto(p, "fetch")
  /\ req' = [req EXCEPT ![p].orphan = TRUE]
  /\ UNCHANGED <<files, docs, used, userLock, rowLock>>

-----------------------------------------------------------------------------
(* Delete: FileHandler.Delete, FileService.Delete, MetadataStore.Delete. *)

DeleteRequest(p, u, f) ==
  /\ pc[p] = "idle"
  /\ files[f].st # "unused"
  /\ Goto(p, "fetch")
  /\ req' = [req EXCEPT ![p] = [NoRequest EXCEPT !.user = u, !.file = f]]
  /\ UNCHANGED <<files, docs, used, objects, userLock, rowLock>>

\* id = $1 AND user_id = $2 AND deleted_at IS NULL
Owns(u, f) == files[f].st = "active" /\ files[f].user = u

\* Mutation: SELECT without FOR UPDATE.
FetchFileNoLock(p) ==
  /\ pc[p] = "fetch"
  /\ Owns(req[p].user, req[p].file)
  /\ rowLock[req[p].file] = None
  /\ Goto(p, "findCanon")
  /\ UNCHANGED <<files, docs, used, objects, userLock, rowLock, req>>

\* SELECT ... FOR UPDATE on the file row.
FetchFile(p) ==
  LET f == req[p].file IN
  /\ pc[p] = "fetch"
  /\ Owns(req[p].user, f)
  /\ rowLock[f] = None
  /\ rowLock' = [rowLock EXCEPT ![f] = p]
  /\ Goto(p, "findCanon")
  /\ UNCHANGED <<files, docs, used, objects, userLock, req>>

FileNotFound(p) ==
  /\ pc[p] = "fetch"
  /\ ~Owns(req[p].user, req[p].file)
  /\ Respond(p)
  /\ UNCHANGED <<files, docs, used, objects, userLock, rowLock>>

\* Again LIMIT 1 without ORDER BY and without a lock.  A count of one or less
\* decides for the hard delete (canon stays None).
FindCanonForDelete(p) ==
  /\ pc[p] = "findCanon"
  /\ \E c \in Active(files[req[p].file].sha256) :
       \/ /\ files[c].ref <= 1
          /\ Goto(p, "reclaim")
          /\ UNCHANGED req
       \/ /\ files[c].ref > 1
          /\ Goto(p, "decrRef")
          /\ req' = [req EXCEPT ![p].canon = c]
  /\ UNCHANGED <<files, docs, used, objects, userLock, rowLock>>

\* UPDATE files SET ref_count = ref_count - 1 WHERE id = $1; the canonical row
\* may be the row being deleted, whose lock is already held.
DecrRef(p) ==
  LET c == req[p].canon IN
  /\ pc[p] = "decrRef"
  /\ \/ files[c].st = "gone" /\ UNCHANGED rowLock
     \/ rowLock[c] = p /\ UNCHANGED rowLock
     \/ /\ files[c].st # "gone"
        /\ rowLock[c] = None
        /\ rowLock' = [rowLock EXCEPT ![c] = p]
  /\ Goto(p, "reclaim")
  /\ UNCHANGED <<files, docs, used, objects, userLock, req>>

\* Mutation: LEAST for GREATEST.
GreatestLeast(a, b) == IF a >= b THEN b ELSE a

Greatest(a, b) == IF a >= b THEN a ELSE b

\* UPDATE users, which waits for the user's row lock, and COMMIT: the row is
\* removed or marked deleted and the counter written by DecrRef shows.
CommitDelete(p) ==
  LET u == req[p].user
      f == req[p].file
      c == req[p].canon
      hard == c = None IN
  /\ pc[p] = "reclaim"
  /\ userLock[u] = None
  /\ files' = [g \in FileIds |->
                 LET ref == IF g = c /\ rowLock[g] = p THEN files[g].ref - 1
                                                       ELSE files[g].ref
                     st  == IF g # f THEN files[g].st
                            ELSE IF hard THEN "gone" ELSE "deleted"
                 IN  [files[g] EXCEPT !.ref = ref, !.st = st]]
  /\ used' = [used EXCEPT ![u] = Greatest(0, @ - Size[files[f].sha256])]
  /\ ReleaseLocks(p)
  /\ \/ /\ hard /\ ~req[p].orphan
        /\ Goto(p, "removeObject")
        /\ UNCHANGED req
     \/ /\ ~hard \/ req[p].orphan
        /\ Respond(p)
  /\ UNCHANGED <<docs, objects>>

RemoveObject(p) ==
  /\ pc[p] = "removeObject"
  /\ objects' = objects \ {files[req[p].file].key}
  /\ Respond(p)
  /\ UNCHANGED <<files, docs, used, userLock, rowLock>>

\* The error is logged and the client is told that the file was deleted.
RemoveObjectFails(p) ==
  /\ pc[p] = "removeObject"
  /\ Respond(p)
  /\ UNCHANGED <<files, docs, used, objects, userLock, rowLock>>

-----------------------------------------------------------------------------
(* The document half's use of the shared counter. *)

\* DocumentStore.CreateDocument: INSERT and UPDATE users in one transaction.
\* It waits for the user's row lock and does not look at the quota.
CreateDocument(u, h, d) ==
  /\ docs[d].st = "unused"
  /\ userLock[u] = None
  /\ docs' = [docs EXCEPT ![d] = [st |-> "live", user |-> u, sha256 |-> h]]
  /\ used' = [used EXCEPT ![u] = @ + Size[h]]
  /\ UNCHANGED <<files, objects, userLock, rowLock, pc, req>>

\* DocumentStore.DeleteDocument: the row goes, the users table is not touched.
DeleteDocument(u, d) ==
  /\ docs[d].st = "live"
  /\ docs[d].user = u
  /\ docs' = [docs EXCEPT ![d].st = "deleted"]
  /\ UNCHANGED <<files, used, objects, userLock, rowLock, pc, req>>

-----------------------------------------------------------------------------
(* Failures. *)

InTx(p) == pc[p] \in SaveTx \cup DeleteTx \cup {"lockUser", "fetch"}

\* A statement fails: the deferred Rollback discards every write of the
\* transaction and the handler answers 500 (deleteOrphanedMeta's error is
\* ignored, with the same effect on the state).
Rollback(p) ==
  /\ ReleaseLocks(p)
  /\ Respond(p)
  /\ UNCHANGED <<files, docs, used, objects>>

StatementFails(p) == InTx(p) /\ Rollback(p)

\* The transaction that the next statement of p has to wait for.
WaitsFor(p) ==
  LET holder == IF pc[p] \in {"incrRef", "decrRef"} THEN rowLock[req[p].canon]
                ELSE IF pc[p] = "reclaim" THEN userLock[req[p].user]
                ELSE None
  IN  IF holder = p THEN None ELSE holder

\* PostgreSQL cancels one transaction of a cycle of waiting transactions.
DeadlockVictim(p) ==
  /\ \E cycle \in SUBSET Procs :
       /\ p \in cycle
       /\ {WaitsFor(q) : q \in cycle} = cycle
  /\ Rollback(p)

\* The process dies and is started again: PostgreSQL rolls every open
\* transaction back, and no request survives.
Crash ==
  /\ \E p \in Procs : pc[p] # "idle"
  /\ userLock' = [u \in Users |-> None]
  /\ rowLock' = [f \in FileIds |-> None]
  /\ pc' = [p \in Procs |-> "idle"]
  /\ req' = [p \in Procs |-> NoRequest]
  /\ UNCHANGED <<files, docs, used, objects>>

-----------------------------------------------------------------------------

\* Steps a request takes by itself.
Work(p) ==
  \/ LockUser(p) \/ RejectOverQuota(p) \/ FindCanonical(p) \/ IncrRef(p)
  \/ \E f \in FileIds : InsertFile(p, f)
  \/ PutObject(p)
  \/ FetchFile(p) \/ FileNotFound(p) \/ FindCanonForDelete(p) \/ DecrRef(p)
  \/ CommitDelete(p) \/ RemoveObject(p)

Fail(p) ==
  \/ PutObjectFails(p) \/ RemoveObjectFails(p) \/ StatementFails(p)

Arrive(p) ==
  \E u \in Users :
    \/ \E h \in Hashes, n \in Names : UploadRequest(p, u, h, n)
    \/ \E f \in FileIds : DeleteRequest(p, u, f)

Documents ==
  \E u \in Users, d \in DocIds :
    \/ DeleteDocument(u, d)
    \/ \E h \in Hashes : CreateDocument(u, h, d)

Next ==
  \/ \E p \in Procs : Arrive(p) \/ Work(p) \/ Fail(p) \/ DeadlockVictim(p)
  \/ Documents
  \/ Crash

Spec == Init /\ [][Next]_vars

\* PostgreSQL queues the waiters of a row lock in order of arrival, so a
\* request that waits for one gets it if it is given back again and again;
\* every other step of a request is a call that returns.  The deadlock
\* detector runs in every transaction that waits.
FairSpec ==
  /\ Spec
  /\ \A p \in Procs : SF_vars(Work(p))
  /\ WF_vars(\E p \in Procs : DeadlockVictim(p))

-----------------------------------------------------------------------------
(* Properties. *)

\* Every variable stays within its type.
TypeOK ==
  /\ files \in [FileIds -> FileMeta]
  /\ docs \in [DocIds -> Document]
  /\ used \in [Users -> Nat]
  /\ objects \subseteq Keys
  /\ userLock \in [Users -> Procs \cup {None}]
  /\ rowLock \in [FileIds -> Procs \cup {None}]
  /\ pc \in [Procs -> Steps]
  /\ req \in [Procs -> Request]

\* The quota check that Save makes after SELECT ... FOR UPDATE is still true
\* when it commits, whatever other uploads, deletes and document uploads of
\* the same user do in between: nobody else changes the counter while the
\* transaction holds the user's row.
QuotaHeldToCommit ==
  \A p \in Procs :
    pc[p] \in SaveTx =>
      /\ userLock[req[p].user] = p
      /\ used[req[p].user] + Size[req[p].sha256] <= Quota

\* A deletion that has fetched its row keeps it: until the deletion commits
\* nobody else deletes the same row, so its size is given back only once.
DeleteHoldsRow ==
  \A p \in Procs :
    pc[p] \in DeleteTx =>
      /\ rowLock[req[p].file] = p
      /\ Owns(req[p].user, req[p].file)

\* The bytes of a set of rows, told apart by row and position.
BytesOf(rows, ids) == UNION {{i} \X (1..Size[rows[i].sha256]) : i \in ids}

FilesOf(u) == {f \in FileIds : Owns(u, f)}

DocsOf(u) == {d \in DocIds : docs[d].user = u}

\* storage_bytes_used is exactly the bytes of the user's active files plus the
\* bytes of every document the user ever uploaded: no interleaving of uploads,
\* deletes, roll-backs and crashes makes the counter drift from that, and the
\* GREATEST(0, ...) of Delete never has anything to cut off.
UsageExact ==
  \A u \in Users :
    used[u] = Cardinality(BytesOf(files, FilesOf(u)))
                + Cardinality(BytesOf(docs, DocsOf(u)))

\* The catalogue entry of a row: how a row came to be removed, its key and its
\* reference count are details.
Entry(f) ==
  [st |-> IF files[f].st \in {"deleted", "gone"} THEN "removed" ELSE files[f].st,
   user |-> files[f].user, sha256 |-> files[f].sha256]

Catalog == INSTANCE FileCatalog WITH entry <- [f \in FileIds |-> Entry(f)]

\* Uploads and deletes look atomic: each transaction adds or removes one file of
\* the requesting user and moves the counter by its size in one step, the quota
\* is respected by every upload, and no other step shows.
ImplementsCatalog == Catalog!Spec

\* Every request is answered: no set of requests waits for each other's row
\* locks for ever (Save takes the user's row first and a file row second,
\* Delete the other way round).
RequestsFinish == \A p \in Procs : pc[p] # "idle" ~> pc[p] = "idle"

\* README: "The backing object is only deleted from storage when ref_count
\* reaches zero, preventing one user's delete from removing a shared object".
SharedObjectKept ==
  [][\A k \in objects \ objects', f \in FileIds :
       ~(files[f].st = "active" /\ files[f].key = k)]_vars

=============================================================================
