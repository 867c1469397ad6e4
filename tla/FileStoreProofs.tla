--------------------------- MODULE FileStoreProofs ---------------------------
(***************************************************************************)
(* Proofs about FileStore for every set of users, contents, ids and request *)
(* goroutines, every content size and every quota.                          *)
(***************************************************************************)
EXTENDS FileStore, FiniteSetTheorems, TLAPS

(***************************************************************************)
(* What the goroutines' local variables hold at each step, and what rows    *)
(* hold: the typing facts that the weaker TypeOK leaves open.               *)
(***************************************************************************)
RequestOK ==
  \A p \in Procs :
    /\ pc[p] \in SaveTx \cup {"lockUser", "upload"} =>
         req[p].user \in Users /\ req[p].sha256 \in Hashes /\ req[p].key \in Keys
    /\ pc[p] \in DeleteTx \cup {"upload", "fetch", "removeObject"} =>
         req[p].user \in Users /\ req[p].file \in FileIds
    /\ pc[p] \in {"incrRef", "decrRef"} => req[p].canon \in FileIds

RowOK ==
  /\ \A f \in FileIds : files[f].st = "active" => files[f].sha256 \in Hashes
  /\ \A d \in DocIds : docs[d].st = "unused" => docs[d].user = None

\* The byte sets that UsageExact counts are finite.
BytesFinite ==
  \A u \in Users : /\ IsFiniteSet(BytesOf(files, FilesOf(u)))
                   /\ IsFiniteSet(BytesOf(docs, DocsOf(u)))

\* The inductive invariant.
IInv ==
  /\ TypeOK
  /\ RequestOK
  /\ RowOK
  /\ QuotaHeldToCommit
  /\ DeleteHoldsRow
  /\ BytesFinite
  /\ UsageExact

-----------------------------------------------------------------------------
(* Lemmas about BytesOf. *)

\* The bytes of one row are as many as its size.
LEMMA RowBytes ==
  ASSUME NEW i, NEW n \in Nat
  PROVE  IsFiniteSet({i} \X (1..n)) /\ Cardinality({i} \X (1..n)) = n
<1>1. IsFiniteSet({i}) /\ Cardinality({i}) = 1
  BY FS_Singleton
<1>2. IsFiniteSet(1..n) /\ Cardinality(1..n) = n
  BY FS_Interval
<1>3. Cardinality({i} \X (1..n)) = Cardinality({i}) * Cardinality(1..n)
  BY <1>1, <1>2, FS_Product
<1> QED
  BY <1>1, <1>2, <1>3, FS_Product

\* Only the contents of the rows matter.
LEMMA BytesSame ==
  ASSUME NEW rows, NEW rows2, NEW ids,
         \A i \in ids : rows2[i].sha256 = rows[i].sha256
  PROVE  BytesOf(rows2, ids) = BytesOf(rows, ids)
  BY DEF BytesOf

\* A row counts for its size: with it the bytes are that many more than without.
LEMMA BytesSplit ==
  ASSUME NEW rows, NEW ids, NEW x \in ids, Size[rows[x].sha256] \in Nat,
         \/ IsFiniteSet(BytesOf(rows, ids))
         \/ IsFiniteSet(BytesOf(rows, ids \ {x}))
  PROVE  /\ IsFiniteSet(BytesOf(rows, ids))
         /\ IsFiniteSet(BytesOf(rows, ids \ {x}))
         /\ Cardinality(BytesOf(rows, ids \ {x})) \in Nat
         /\ Cardinality(BytesOf(rows, ids))
              = Cardinality(BytesOf(rows, ids \ {x})) + Size[rows[x].sha256]
<1> DEFINE Rest == BytesOf(rows, ids \ {x})
           Row == {x} \X (1..Size[rows[x].sha256])
<1>1. BytesOf(rows, ids) = Rest \cup Row
  BY DEF BytesOf
<1>2. Rest \cap Row = {}
  BY DEF BytesOf
<1>3. IsFiniteSet(Row) /\ Cardinality(Row) = Size[rows[x].sha256]
  BY RowBytes
<1> HIDE DEF Rest, Row
<1>4. IsFiniteSet(Rest)
  <2>1. CASE IsFiniteSet(BytesOf(rows, ids))
    BY <2>1, <1>1, FS_Subset
  <2>2. CASE IsFiniteSet(BytesOf(rows, ids \ {x}))
    BY <2>2 DEF Rest
  <2> QED
    BY <2>1, <2>2
<1>5. /\ IsFiniteSet(Rest \cup Row)
      /\ Cardinality(Rest \cup Row)
           = Cardinality(Rest) + Cardinality(Row) - Cardinality({})
  BY <1>2, <1>3, <1>4, FS_Union
<1>6. Cardinality({}) = 0
  BY FS_EmptySet
<1>7. Cardinality(Rest) \in Nat
  BY <1>4, FS_CardinalityType
<1>8. Cardinality(Rest \cup Row) = Cardinality(Rest) + Size[rows[x].sha256]
  BY <1>3, <1>5, <1>6, <1>7
<1> QED
  BY <1>1, <1>4, <1>5, <1>7, <1>8 DEF Rest

-----------------------------------------------------------------------------
(* Inductiveness, one lemma per group of conjuncts. *)

\* The initial state satisfies the inductive invariant.
LEMMA InitIInv == Init => IInv
<1> SUFFICES ASSUME Init PROVE IInv
  OBVIOUS
<1> USE StoreAssumption DEF Init
<1>1. TypeOK
  BY DEF TypeOK, FileMeta, NoFile, Document, NoDocument, Request, NoRequest, Steps
<1>2. RequestOK /\ QuotaHeldToCommit /\ DeleteHoldsRow
  BY DEF RequestOK, QuotaHeldToCommit, DeleteHoldsRow, SaveTx, DeleteTx
<1>3. RowOK
  BY DEF RowOK, NoFile, NoDocument
<1>4. ASSUME NEW u \in Users
      PROVE  BytesOf(files, FilesOf(u)) = {} /\ BytesOf(docs, DocsOf(u)) = {}
  <2>1. FilesOf(u) = {} /\ DocsOf(u) = {}
    BY DEF FilesOf, Owns, DocsOf, NoFile, NoDocument
  <2> QED
    BY <2>1 DEF BytesOf
<1>5. BytesFinite
  BY <1>4, FS_EmptySet DEF BytesFinite
<1>6. UsageExact
  <2>1. Cardinality({}) = 0
    BY FS_EmptySet
  <2>2. ASSUME NEW u \in Users
        PROVE  used[u] = Cardinality(BytesOf(files, FilesOf(u)))
                           + Cardinality(BytesOf(docs, DocsOf(u)))
    <3>1. used[u] = 0 /\ 0 = 0 + 0
      OBVIOUS
    <3> QED
      BY <1>4, <2>1, <3>1
  <2> QED
    BY <2>2 DEF UsageExact
<1> QED
  BY <1>1, <1>2, <1>3, <1>5, <1>6 DEF IInv

\* A field of a request set to a value of its type leaves a request.
LEMMA RequestUpdate ==
  ASSUME NEW r \in Request, NEW f \in FileIds
  PROVE  /\ [r EXCEPT !.canon = f] \in Request
         /\ [r EXCEPT !.file = f] \in Request
  BY DEF Request

\* The same for the flag of deleteOrphanedMeta.
LEMMA RequestOrphan ==
  ASSUME NEW r \in Request
  PROVE  [r EXCEPT !.orphan = TRUE] \in Request
  BY DEF Request

\* What CommitDelete does to the table: the row is no longer active, and no row
\* changes its owner or its content.
LEMMA CommitDeleteRows ==
  ASSUME TypeOK, NEW p \in Procs, CommitDelete(p)
  PROVE  /\ files' \in [FileIds -> FileMeta]
         /\ \A g \in FileIds :
              /\ files'[g].st = IF g # req[p].file THEN files[g].st
                                ELSE IF req[p].canon = None THEN "gone" ELSE "deleted"
              /\ files'[g].user = files[g].user
              /\ files'[g].sha256 = files[g].sha256
<1> DEFINE Ref(g) == IF g = req[p].canon /\ rowLock[g] = p
                       THEN files[g].ref - 1 ELSE files[g].ref
           St(g)  == IF g # req[p].file THEN files[g].st
                     ELSE IF req[p].canon = None THEN "gone" ELSE "deleted"
<1>1. files' = [g \in FileIds |-> [files[g] EXCEPT !.ref = Ref(g), !.st = St(g)]]
  BY DEF CommitDelete
<1>2. ASSUME NEW g \in FileIds
      PROVE  /\ files[g] \in FileMeta
             /\ Ref(g) \in Int
             /\ St(g) \in {"active", "unused", "deleted", "gone"}
  BY DEF TypeOK, FileMeta
<1> HIDE DEF Ref, St
<1>3. ASSUME NEW g \in FileIds
      PROVE  /\ files'[g] \in FileMeta
             /\ files'[g].st = St(g)
             /\ files'[g].user = files[g].user
             /\ files'[g].sha256 = files[g].sha256
  <2>1. files'[g] = [files[g] EXCEPT !.ref = Ref(g), !.st = St(g)]
    BY <1>1
  <2> QED
    BY <1>2, <2>1 DEF FileMeta
<1> QED
  BY <1>1, <1>3 DEF St

\* What InsertFile does to the table: the new row, and no other change of
\* status, owner or content.
LEMMA InsertFileRows ==
  ASSUME TypeOK, NEW p \in Procs, NEW f \in FileIds, InsertFile(p, f)
  PROVE  /\ files[f].st = "unused"
         /\ files'[f].st = "active"
         /\ files'[f].user = req[p].user
         /\ files'[f].sha256 = req[p].sha256
         /\ \A g \in FileIds \ {f} :
              /\ files'[g].st = files[g].st
              /\ files'[g].user = files[g].user
              /\ files'[g].sha256 = files[g].sha256
  BY DEF InsertFile, TypeOK, FileMeta

\* InsertFile moves p alone: to the end, or on to the object store.
LEMMA InsertFileRequest ==
  ASSUME TypeOK, NEW p \in Procs, NEW f \in FileIds, InsertFile(p, f)
  PROVE  /\ pc[p] = "insert"
         /\ \A q \in Procs \ {p} : pc'[q] = pc[q] /\ req'[q] = req[q]
         /\ \/ pc'[p] = "idle"
            \/ pc'[p] = "upload" /\ req'[p] = [req[p] EXCEPT !.file = f]
<1>1. CASE Goto(p, "upload") /\ req' = [req EXCEPT ![p].file = f]
  BY <1>1 DEF TypeOK, Goto, InsertFile
<1>2. CASE Respond(p)
  BY <1>2 DEF TypeOK, Goto, Respond, InsertFile
<1> QED
  BY <1>1, <1>2 DEF InsertFile

\* CommitDelete moves p alone: to the end, or on to the object store.
LEMMA CommitDeleteRequest ==
  ASSUME TypeOK, NEW p \in Procs, CommitDelete(p)
  PROVE  /\ pc[p] = "reclaim"
         /\ \A q \in Procs \ {p} : pc'[q] = pc[q] /\ req'[q] = req[q]
         /\ \/ pc'[p] = "idle" /\ req'[p] = NoRequest
            \/ pc'[p] = "removeObject" /\ req'[p] = req[p]
         /\ req' \in [Procs -> Request]
<1>1. CASE Goto(p, "removeObject") /\ UNCHANGED req
  BY <1>1 DEF TypeOK, Goto, CommitDelete
<1>2. CASE Respond(p)
  BY <1>2 DEF TypeOK, Goto, Respond, CommitDelete, NoRequest, Request
<1> QED
  BY <1>1, <1>2 DEF CommitDelete

\* The counter never goes below zero.
LEMMA CommitDeleteUsed ==
  ASSUME TypeOK, NEW p \in Procs, CommitDelete(p), req[p].user \in Users,
         Size[files[req[p].file].sha256] \in Nat
  PROVE  used' \in [Users -> Nat]
<1> DEFINE left == used[req[p].user] - Size[files[req[p].file].sha256]
<1>1. used' = [used EXCEPT ![req[p].user] = Greatest(0, left)]
  BY DEF CommitDelete
<1>2. left \in Int
  BY DEF TypeOK
<1>3. Greatest(0, left) \in Nat
  BY <1>2 DEF Greatest
<1> QED
  BY <1>1, <1>3 DEF TypeOK

\* The types are preserved.
LEMMA TypeStep == IInv /\ [Next]_vars => TypeOK'
<1> SUFFICES ASSUME IInv, [Next]_vars PROVE TypeOK'
  OBVIOUS
<1>0. TypeOK /\ RequestOK /\ RowOK /\ DeleteHoldsRow
  BY DEF IInv
<1> USE StoreAssumption, <1>0 DEF TypeOK
<1>1. ASSUME NEW p \in Procs, NEW u \in Users, NEW h \in Hashes, NEW n \in Names, UploadRequest(p, u, h, n)
      PROVE  TypeOK'
  BY <1>1
  DEF UploadRequest, Goto, NoRequest, buildObjectKey, Keys, RequestOK, RowOK,
      SaveTx, DeleteTx, Steps, FileMeta, Request, Document
<1>2. ASSUME NEW p \in Procs, LockUser(p)
      PROVE  TypeOK'
  BY <1>2
  DEF LockUser, Goto, RequestOK, RowOK, SaveTx, DeleteTx, Steps, FileMeta,
      Request, Document
<1>3. ASSUME NEW p \in Procs, RejectOverQuota(p)
      PROVE  TypeOK'
  BY <1>3
  DEF RejectOverQuota, Respond, Goto, NoRequest, RequestOK, RowOK, SaveTx,
      DeleteTx, Steps, FileMeta, Request, Document
<1>4. ASSUME NEW p \in Procs, FindCanonical(p)
      PROVE  TypeOK'
  <2>1. files' = files /\ docs' = docs /\ used' = used /\ objects' = objects
        /\ userLock' = userLock /\ rowLock' = rowLock
    BY <1>4 DEF FindCanonical
  <2>2. pc' \in [Procs -> Steps]
    BY <1>4 DEF FindCanonical, Goto, Steps, SaveTx
  <2>3. req' \in [Procs -> Request]
    <3>1. CASE req' = req
      BY <3>1
    <3>2. ASSUME NEW c \in FileIds, req' = [req EXCEPT ![p].canon = c]
          PROVE  req' \in [Procs -> Request]
      BY <3>2, RequestUpdate
    <3> QED
      BY <1>4, <3>1, <3>2 DEF FindCanonical, Active
  <2> QED
    BY <2>1, <2>2, <2>3
<1>5. ASSUME NEW p \in Procs, IncrRef(p)
      PROVE  TypeOK'
  BY <1>5
  DEF IncrRef, Goto, RequestOK, RowOK, SaveTx, DeleteTx, Steps, FileMeta,
      Request, Document
<1>6. ASSUME NEW p \in Procs, NEW f \in FileIds, InsertFile(p, f)
      PROVE  TypeOK'
  <2> DEFINE h == req[p].sha256
             row == [st |-> "active", user |-> req[p].user, sha256 |-> h,
                     key |-> KeyFor(p), ref |-> 1]
  <2>1. req[p].user \in Users /\ h \in Hashes /\ Size[h] \in Nat
    BY <1>6 DEF InsertFile, RequestOK, SaveTx
  <2>2. KeyFor(p) \in Keys \cup {None}
    BY <1>6 DEF InsertFile, KeyFor, FileMeta, Request
  <2>3. row \in FileMeta
    BY <2>1, <2>2 DEF FileMeta
  <2>4. \A g \in FileIds : [files[g] EXCEPT !.ref = @ + 1] \in FileMeta
    BY DEF FileMeta
  <2>5. files' = [g \in FileIds |->
                    IF g = f THEN row
                    ELSE IF rowLock[g] = p THEN [files[g] EXCEPT !.ref = @ + 1]
                    ELSE files[g]]
    BY <1>6 DEF InsertFile
  <2>6. files' \in [FileIds -> FileMeta]
    BY <2>3, <2>4, <2>5
  <2>7. used' \in [Users -> Nat] /\ objects' = objects /\ docs' = docs
    BY <1>6, <2>1 DEF InsertFile
  <2>8. /\ userLock' \in [Users -> Procs \cup {None}]
        /\ rowLock' \in [FileIds -> Procs \cup {None}]
    BY <1>6 DEF InsertFile, ReleaseLocks
  <2>9. pc' \in [Procs -> Steps]
    BY <1>6 DEF InsertFile, Respond, Goto, Steps
  <2>10. req' \in [Procs -> Request]
    <3>1. CASE req' = [req EXCEPT ![p].file = f]
      BY <3>1, RequestUpdate
    <3>2. CASE req' = [req EXCEPT ![p] = NoRequest]
      BY <3>2 DEF NoRequest, Request
    <3> QED
      BY <1>6, <3>1, <3>2 DEF InsertFile, Respond
  <2> QED
    BY <2>6, <2>7, <2>8, <2>9, <2>10
<1>7. ASSUME NEW p \in Procs, PutObject(p)
      PROVE  TypeOK'
  BY <1>7
  DEF PutObject, Respond, Goto, NoRequest, RequestOK, RowOK, SaveTx,
      DeleteTx, Steps, FileMeta, Request, Document
<1>8. ASSUME NEW p \in Procs, PutObjectFails(p)
      PROVE  TypeOK'
  <2>1. req' \in [Procs -> Request]
    <3>1. [req[p] EXCEPT !.orphan = TRUE] \in Request
      BY RequestOrphan
    <3> QED
      BY <1>8, <3>1 DEF PutObjectFails
  <2>2. objects' \subseteq Keys
    BY <1>8 DEF PutObjectFails, RequestOK
  <2>3. pc' \in [Procs -> Steps]
    BY <1>8 DEF PutObjectFails, Goto, Steps
  <2> QED
    BY <1>8, <2>1, <2>2, <2>3 DEF PutObjectFails
<1>9. ASSUME NEW p \in Procs, NEW u \in Users, NEW f \in FileIds, DeleteRequest(p, u, f)
      PROVE  TypeOK'
  BY <1>9
  DEF DeleteRequest, Goto, NoRequest, RequestOK, RowOK, SaveTx, DeleteTx,
      Steps, FileMeta, Request, Document
<1>10. ASSUME NEW p \in Procs, FetchFile(p)
      PROVE  TypeOK'
  BY <1>10
  DEF FetchFile, Goto, RequestOK, RowOK, SaveTx, DeleteTx, Steps, FileMeta,
      Request, Document
<1>11. ASSUME NEW p \in Procs, FileNotFound(p)
      PROVE  TypeOK'
  BY <1>11
  DEF FileNotFound, Respond, Goto, NoRequest, RequestOK, RowOK, SaveTx,
      DeleteTx, Steps, FileMeta, Request, Document
<1>12. ASSUME NEW p \in Procs, FindCanonForDelete(p)
      PROVE  TypeOK'
  <2>1. files' = files /\ docs' = docs /\ used' = used /\ objects' = objects
        /\ userLock' = userLock /\ rowLock' = rowLock
    BY <1>12 DEF FindCanonForDelete
  <2>2. pc' \in [Procs -> Steps]
    BY <1>12 DEF FindCanonForDelete, Goto, Steps, DeleteTx
  <2>3. req' \in [Procs -> Request]
    <3>1. CASE req' = req
      BY <3>1
    <3>2. ASSUME NEW c \in FileIds, req' = [req EXCEPT ![p].canon = c]
          PROVE  req' \in [Procs -> Request]
      BY <3>2, RequestUpdate
    <3> QED
      BY <1>12, <3>1, <3>2 DEF FindCanonForDelete, Active
  <2> QED
    BY <2>1, <2>2, <2>3
<1>13. ASSUME NEW p \in Procs, DecrRef(p)
      PROVE  TypeOK'
  <2>1. rowLock' \in [FileIds -> Procs \cup {None}]
    BY <1>13 DEF DecrRef, RequestOK
  <2>2. pc' \in [Procs -> Steps]
    BY <1>13 DEF DecrRef, Goto, Steps, DeleteTx
  <2> QED
    BY <1>13, <2>1, <2>2 DEF DecrRef
<1>14. ASSUME NEW p \in Procs, CommitDelete(p)
      PROVE  TypeOK'
  <2>1. files' \in [FileIds -> FileMeta]
    BY <1>14, CommitDeleteRows
  <2>2. used' \in [Users -> Nat]
    <3>1. req[p].user \in Users /\ Size[files[req[p].file].sha256] \in Nat
      BY <1>14 DEF CommitDelete, RequestOK, RowOK, DeleteHoldsRow, Owns, DeleteTx
    <3> QED
      BY <1>14, <3>1, CommitDeleteUsed
  <2>3. objects' = objects /\ docs' = docs
    BY <1>14 DEF CommitDelete
  <2>4. /\ userLock' \in [Users -> Procs \cup {None}]
        /\ rowLock' \in [FileIds -> Procs \cup {None}]
    BY <1>14 DEF CommitDelete, ReleaseLocks
  <2>5. pc' \in [Procs -> Steps]
    BY <1>14 DEF CommitDelete, Respond, Goto, Steps
  <2>6. req' \in [Procs -> Request]
    BY <1>14, CommitDeleteRequest
  <2> QED
    BY <2>1, <2>2, <2>3, <2>4, <2>5, <2>6
<1>15. ASSUME NEW p \in Procs, RemoveObject(p)
      PROVE  TypeOK'
  BY <1>15
  DEF RemoveObject, Respond, Goto, NoRequest, RequestOK, RowOK, SaveTx,
      DeleteTx, Steps, FileMeta, Request, Document
<1>16. ASSUME NEW p \in Procs, RemoveObjectFails(p)
      PROVE  TypeOK'
  BY <1>16
  DEF RemoveObjectFails, Respond, Goto, NoRequest, RequestOK, RowOK, SaveTx,
      DeleteTx, Steps, FileMeta, Request, Document
<1>17. ASSUME NEW p \in Procs, Rollback(p)
      PROVE  TypeOK'
  BY <1>17
  DEF Rollback, ReleaseLocks, Respond, Goto, NoRequest, RequestOK, RowOK,
      SaveTx, DeleteTx, Steps, FileMeta, Request, Document
<1>18. ASSUME NEW u \in Users, NEW h \in Hashes, NEW d \in DocIds, CreateDocument(u, h, d)
      PROVE  TypeOK'
  BY <1>18
  DEF CreateDocument, RequestOK, RowOK, SaveTx, DeleteTx, Steps, FileMeta,
      Request, Document
<1>19. ASSUME NEW u \in Users, NEW d \in DocIds, DeleteDocument(u, d)
      PROVE  TypeOK'
  BY <1>19
  DEF DeleteDocument, RequestOK, RowOK, SaveTx, DeleteTx, Steps, FileMeta,
      Request, Document
<1>20. ASSUME Crash
      PROVE  TypeOK'
  BY <1>20
  DEF Crash, NoRequest, RequestOK, RowOK, SaveTx, DeleteTx, Steps, FileMeta,
      Request, Document
<1>21. CASE UNCHANGED vars
  BY <1>21
  DEF vars, RequestOK, RowOK, SaveTx, DeleteTx, Steps, FileMeta, Request,
      Document
<1> QED
  BY <1>1, <1>2, <1>3, <1>4, <1>5, <1>6, <1>7, <1>8, <1>9, <1>10, <1>11, <1>12, <1>13, <1>14, <1>15, <1>16, <1>17, <1>18, <1>19, <1>20, <1>21
  DEF Next, Arrive, Work, Fail, StatementFails, DeadlockVictim, Documents

\* What requests and rows hold is preserved.
LEMMA RequestStep ==
  IInv /\ [Next]_vars => RequestOK' /\ RowOK'
<1> SUFFICES ASSUME IInv, [Next]_vars PROVE RequestOK' /\ RowOK'
  OBVIOUS
<1>0. TypeOK /\ RequestOK /\ RowOK
  BY DEF IInv
<1> USE StoreAssumption, <1>0 DEF TypeOK, RequestOK, RowOK
<1>1. ASSUME NEW p \in Procs, NEW u \in Users, NEW h \in Hashes, NEW n \in Names, UploadRequest(p, u, h, n)
      PROVE  RequestOK' /\ RowOK'
  BY <1>1
  DEF UploadRequest, Goto, NoRequest, buildObjectKey, Keys, SaveTx, DeleteTx,
      Steps, FileMeta, Request, Document
<1>2. ASSUME NEW p \in Procs, LockUser(p)
      PROVE  RequestOK' /\ RowOK'
  BY <1>2 DEF LockUser, Goto, SaveTx, DeleteTx, Steps, FileMeta, Request, Document
<1>3. ASSUME NEW p \in Procs, RejectOverQuota(p)
      PROVE  RequestOK' /\ RowOK'
  BY <1>3
  DEF RejectOverQuota, Respond, Goto, NoRequest, SaveTx, DeleteTx, Steps,
      FileMeta, Request, Document
<1>4. ASSUME NEW p \in Procs, FindCanonical(p)
      PROVE  RequestOK' /\ RowOK'
  BY <1>4
  DEF FindCanonical, Active, Goto, SaveTx, DeleteTx, Steps, FileMeta,
      Request, Document
<1>5. ASSUME NEW p \in Procs, IncrRef(p)
      PROVE  RequestOK' /\ RowOK'
  BY <1>5 DEF IncrRef, Goto, SaveTx, DeleteTx, Steps, FileMeta, Request, Document
<1>6. ASSUME NEW p \in Procs, NEW f \in FileIds, InsertFile(p, f)
      PROVE  RequestOK' /\ RowOK'
  <2>1. RequestOK'
    <3>1. /\ [req[p] EXCEPT !.file = f].user = req[p].user
          /\ [req[p] EXCEPT !.file = f].sha256 = req[p].sha256
          /\ [req[p] EXCEPT !.file = f].key = req[p].key
          /\ [req[p] EXCEPT !.file = f].file = f
      BY DEF Request
    <3>2. CASE pc'[p] = "idle"
      BY <1>6, <3>2, InsertFileRequest DEF SaveTx, DeleteTx
    <3>3. CASE pc'[p] = "upload" /\ req'[p] = [req[p] EXCEPT !.file = f]
      <4>1. req[p].user \in Users /\ req[p].sha256 \in Hashes /\ req[p].key \in Keys
        BY <1>6 DEF InsertFile, SaveTx
      <4>2. ASSUME NEW q \in Procs \ {p} PROVE pc'[q] = pc[q] /\ req'[q] = req[q]
        BY <1>6, InsertFileRequest
      <4> QED
        BY <3>1, <3>3, <4>1, <4>2 DEF SaveTx, DeleteTx
    <3> QED
      BY <1>6, <3>2, <3>3, InsertFileRequest
  <2>2. RowOK'
    <3>1. req[p].sha256 \in Hashes /\ docs' = docs
      BY <1>6 DEF InsertFile, SaveTx
    <3>2. files'[f].sha256 = req[p].sha256
      BY <1>6, InsertFileRows
    <3>3. \A g \in FileIds \ {f} : /\ files'[g].st = files[g].st
                                   /\ files'[g].sha256 = files[g].sha256
      BY <1>6, InsertFileRows
    <3> QED
      BY <3>1, <3>2, <3>3
  <2> QED
    BY <2>1, <2>2
<1>7. ASSUME NEW p \in Procs, PutObject(p)
      PROVE  RequestOK' /\ RowOK'
  BY <1>7
  DEF PutObject, Respond, Goto, NoRequest, SaveTx, DeleteTx, Steps, FileMeta,
      Request, Document
<1>8. ASSUME NEW p \in Procs, PutObjectFails(p)
      PROVE  RequestOK' /\ RowOK'
  BY <1>8
  DEF PutObjectFails, Goto, SaveTx, DeleteTx, Steps, FileMeta, Request,
      Document
<1>9. ASSUME NEW p \in Procs, NEW u \in Users, NEW f \in FileIds, DeleteRequest(p, u, f)
      PROVE  RequestOK' /\ RowOK'
  BY <1>9
  DEF DeleteRequest, Goto, NoRequest, SaveTx, DeleteTx, Steps, FileMeta,
      Request, Document
<1>10. ASSUME NEW p \in Procs, FetchFile(p)
      PROVE  RequestOK' /\ RowOK'
  BY <1>10 DEF FetchFile, Goto, SaveTx, DeleteTx, Steps, FileMeta, Request, Document
<1>11. ASSUME NEW p \in Procs, FileNotFound(p)
      PROVE  RequestOK' /\ RowOK'
  BY <1>11
  DEF FileNotFound, Respond, Goto, NoRequest, SaveTx, DeleteTx, Steps,
      FileMeta, Request, Document
<1>12. ASSUME NEW p \in Procs, FindCanonForDelete(p)
      PROVE  RequestOK' /\ RowOK'
  <2>1. /\ \A q \in Procs \ {p} : pc'[q] = pc[q] /\ req'[q] = req[q]
        /\ pc[p] = "findCanon"
        /\ \/ pc'[p] = "reclaim" /\ req'[p] = req[p]
           \/ pc'[p] = "decrRef" /\ \E c \in FileIds :
                                      req'[p] = [req[p] EXCEPT !.canon = c]
    BY <1>12 DEF FindCanonForDelete, Active, Goto
  <2>2. \A c \in FileIds : /\ [req[p] EXCEPT !.canon = c].user = req[p].user
                           /\ [req[p] EXCEPT !.canon = c].file = req[p].file
                           /\ [req[p] EXCEPT !.canon = c].canon = c
    BY DEF Request
  <2>3. req[p].user \in Users /\ req[p].file \in FileIds
    BY <2>1 DEF DeleteTx
  <2>4. CASE pc'[p] = "reclaim" /\ req'[p] = req[p]
    BY <2>1, <2>3, <2>4, <1>12 DEF SaveTx, DeleteTx, FindCanonForDelete
  <2>5. ASSUME NEW c \in FileIds, pc'[p] = "decrRef",
               req'[p] = [req[p] EXCEPT !.canon = c]
        PROVE  RequestOK' /\ RowOK'
    <3>1. /\ req'[p].user = req[p].user
          /\ req'[p].file = req[p].file
          /\ req'[p].canon = c
      BY <2>2, <2>5
    <3> QED
      BY <2>1, <2>3, <2>5, <3>1, <1>12 DEF SaveTx, DeleteTx, FindCanonForDelete
  <2> QED
    BY <2>1, <2>4, <2>5
<1>13. ASSUME NEW p \in Procs, DecrRef(p)
      PROVE  RequestOK' /\ RowOK'
  BY <1>13 DEF DecrRef, Goto, SaveTx, DeleteTx, Steps, FileMeta, Request, Document
<1>14. ASSUME NEW p \in Procs, CommitDelete(p)
      PROVE  RequestOK' /\ RowOK'
  <2>1. RequestOK'
    BY <1>14, CommitDeleteRequest DEF SaveTx, DeleteTx
  <2>2. \A g \in FileIds : /\ files'[g].st = "active" => files[g].st = "active"
                           /\ files'[g].sha256 = files[g].sha256
    BY <1>14, CommitDeleteRows
  <2>3. docs' = docs
    BY <1>14 DEF CommitDelete
  <2> QED
    BY <2>1, <2>2, <2>3
<1>15. ASSUME NEW p \in Procs, RemoveObject(p)
      PROVE  RequestOK' /\ RowOK'
  BY <1>15
  DEF RemoveObject, Respond, Goto, NoRequest, SaveTx, DeleteTx, Steps,
      FileMeta, Request, Document
<1>16. ASSUME NEW p \in Procs, RemoveObjectFails(p)
      PROVE  RequestOK' /\ RowOK'
  BY <1>16
  DEF RemoveObjectFails, Respond, Goto, NoRequest, SaveTx, DeleteTx, Steps,
      FileMeta, Request, Document
<1>17. ASSUME NEW p \in Procs, Rollback(p)
      PROVE  RequestOK' /\ RowOK'
  BY <1>17
  DEF Rollback, ReleaseLocks, Respond, Goto, NoRequest, SaveTx, DeleteTx,
      Steps, FileMeta, Request, Document
<1>18. ASSUME NEW u \in Users, NEW h \in Hashes, NEW d \in DocIds, CreateDocument(u, h, d)
      PROVE  RequestOK' /\ RowOK'
  BY <1>18 DEF CreateDocument, SaveTx, DeleteTx, Steps, FileMeta, Request, Document
<1>19. ASSUME NEW u \in Users, NEW d \in DocIds, DeleteDocument(u, d)
      PROVE  RequestOK' /\ RowOK'
  BY <1>19 DEF DeleteDocument, SaveTx, DeleteTx, Steps, FileMeta, Request, Document
<1>20. ASSUME Crash
      PROVE  RequestOK' /\ RowOK'
  BY <1>20
  DEF Crash, NoRequest, SaveTx, DeleteTx, Steps, FileMeta, Request, Document
<1>21. CASE UNCHANGED vars
  BY <1>21 DEF vars, SaveTx, DeleteTx, Steps, FileMeta, Request, Document
<1> QED
  BY <1>1, <1>2, <1>3, <1>4, <1>5, <1>6, <1>7, <1>8, <1>9, <1>10, <1>11, <1>12, <1>13, <1>14, <1>15, <1>16, <1>17, <1>18, <1>19, <1>20, <1>21
  DEF Next, Arrive, Work, Fail, StatementFails, DeadlockVictim, Documents

\* The locks that protect an open transaction are kept: the quota check stays
\* true and the row to be deleted stays there.
LEMMA LockStep == IInv /\ [Next]_vars => QuotaHeldToCommit' /\ DeleteHoldsRow'
<1> SUFFICES ASSUME IInv, [Next]_vars PROVE QuotaHeldToCommit' /\ DeleteHoldsRow'
  OBVIOUS
<1>0. TypeOK /\ RequestOK /\ RowOK /\ QuotaHeldToCommit /\ DeleteHoldsRow
  BY DEF IInv
<1> USE StoreAssumption, <1>0 DEF TypeOK, RequestOK, QuotaHeldToCommit, DeleteHoldsRow,
                                  Owns, SaveTx, DeleteTx
<1>1. ASSUME NEW p \in Procs, NEW u \in Users, NEW h \in Hashes, NEW n \in Names, UploadRequest(p, u, h, n)
      PROVE  QuotaHeldToCommit' /\ DeleteHoldsRow'
  BY <1>1 DEF UploadRequest, Goto
<1>2. ASSUME NEW p \in Procs, LockUser(p)
      PROVE  QuotaHeldToCommit' /\ DeleteHoldsRow'
  BY <1>2 DEF LockUser, OverQuota, Goto
<1>3. ASSUME NEW p \in Procs, RejectOverQuota(p)
      PROVE  QuotaHeldToCommit' /\ DeleteHoldsRow'
  BY <1>3 DEF RejectOverQuota, Respond, Goto
<1>4. ASSUME NEW p \in Procs, FindCanonical(p)
      PROVE  QuotaHeldToCommit' /\ DeleteHoldsRow'
  BY <1>4 DEF FindCanonical, Goto, Request
<1>5. ASSUME NEW p \in Procs, IncrRef(p)
      PROVE  QuotaHeldToCommit' /\ DeleteHoldsRow'
  BY <1>5 DEF IncrRef, Goto
<1>6. ASSUME NEW p \in Procs, NEW f \in FileIds, InsertFile(p, f)
      PROVE  QuotaHeldToCommit' /\ DeleteHoldsRow'
  BY <1>6 DEF InsertFile, ReleaseLocks, Respond, Goto
<1>7. ASSUME NEW p \in Procs, PutObject(p)
      PROVE  QuotaHeldToCommit' /\ DeleteHoldsRow'
  BY <1>7 DEF PutObject, Respond, Goto
<1>8. ASSUME NEW p \in Procs, PutObjectFails(p)
      PROVE  QuotaHeldToCommit' /\ DeleteHoldsRow'
  BY <1>8 DEF PutObjectFails, Goto, Request
<1>9. ASSUME NEW p \in Procs, NEW u \in Users, NEW f \in FileIds, DeleteRequest(p, u, f)
      PROVE  QuotaHeldToCommit' /\ DeleteHoldsRow'
  BY <1>9 DEF DeleteRequest, Goto
<1>10. ASSUME NEW p \in Procs, FetchFile(p)
       PROVE  QuotaHeldToCommit' /\ DeleteHoldsRow'
  BY <1>10 DEF FetchFile, Goto
<1>11. ASSUME NEW p \in Procs, FileNotFound(p)
       PROVE  QuotaHeldToCommit' /\ DeleteHoldsRow'
  BY <1>11 DEF FileNotFound, Respond, Goto
<1>12. ASSUME NEW p \in Procs, FindCanonForDelete(p)
       PROVE  QuotaHeldToCommit' /\ DeleteHoldsRow'
  BY <1>12 DEF FindCanonForDelete, Goto, Request
<1>13. ASSUME NEW p \in Procs, DecrRef(p)
       PROVE  QuotaHeldToCommit' /\ DeleteHoldsRow'
  BY <1>13 DEF DecrRef, Goto
<1>14. ASSUME NEW p \in Procs, CommitDelete(p)
       PROVE  QuotaHeldToCommit' /\ DeleteHoldsRow'
  <2>1. /\ pc[p] \in DeleteTx
        /\ pc'[p] \notin SaveTx \cup DeleteTx
    BY <1>14, CommitDeleteRequest
  <2>2. ASSUME NEW q \in Procs, q # p PROVE pc'[q] = pc[q] /\ req'[q] = req[q]
    BY <1>14, <2>2, CommitDeleteRequest
  <2>3. QuotaHeldToCommit'
    <3>1. ASSUME NEW q \in Procs, q # p, pc[q] \in SaveTx
          PROVE  /\ userLock'[req[q].user] = q
                 /\ used'[req[q].user] = used[req[q].user]
      <4>1. userLock[req[q].user] = q /\ userLock[req[p].user] = None
        BY <1>14, <3>1 DEF CommitDelete
      <4>2. req[q].user \in Users /\ req[q].user # req[p].user /\ req[p].user \in Users
        BY <3>1, <4>1, <2>1
      <4> QED
        BY <1>14, <3>1, <4>1, <4>2 DEF CommitDelete, ReleaseLocks
    <3> QED
      BY <2>1, <2>2, <3>1
  <2>4. DeleteHoldsRow'
    <3>1. ASSUME NEW q \in Procs, q # p, pc[q] \in DeleteTx
          PROVE  /\ rowLock'[req[q].file] = q
                 /\ files'[req[q].file].st = files[req[q].file].st
                 /\ files'[req[q].file].user = files[req[q].file].user
      <4>1. /\ req[q].file \in FileIds
            /\ rowLock[req[q].file] = q
            /\ req[q].file # req[p].file
        BY <2>1, <3>1
      <4>2. rowLock'[req[q].file] = q
        BY <1>14, <3>1, <4>1 DEF CommitDelete, ReleaseLocks
      <4>3. \A g \in FileIds : /\ g # req[p].file => files'[g].st = files[g].st
                               /\ files'[g].user = files[g].user
        BY <1>14, CommitDeleteRows
      <4> QED
        BY <4>1, <4>2, <4>3
    <3> QED
      BY <2>1, <2>2, <3>1
  <2> QED
    BY <2>3, <2>4
<1>15. ASSUME NEW p \in Procs, RemoveObject(p)
       PROVE  QuotaHeldToCommit' /\ DeleteHoldsRow'
  BY <1>15 DEF RemoveObject, Respond, Goto
<1>16. ASSUME NEW p \in Procs, RemoveObjectFails(p)
       PROVE  QuotaHeldToCommit' /\ DeleteHoldsRow'
  BY <1>16 DEF RemoveObjectFails, Respond, Goto
<1>17. ASSUME NEW p \in Procs, Rollback(p)
       PROVE  QuotaHeldToCommit' /\ DeleteHoldsRow'
  BY <1>17 DEF Rollback, ReleaseLocks, Respond, Goto
<1>18. ASSUME NEW u \in Users, NEW h \in Hashes, NEW d \in DocIds, CreateDocument(u, h, d)
       PROVE  QuotaHeldToCommit' /\ DeleteHoldsRow'
  BY <1>18 DEF CreateDocument
<1>19. ASSUME NEW u \in Users, NEW d \in DocIds, DeleteDocument(u, d)
       PROVE  QuotaHeldToCommit' /\ DeleteHoldsRow'
  BY <1>19 DEF DeleteDocument
<1>20. ASSUME Crash
       PROVE  QuotaHeldToCommit' /\ DeleteHoldsRow'
  BY <1>20 DEF Crash
<1>21. CASE UNCHANGED vars
  BY <1>21 DEF vars
<1> QED
  BY <1>1, <1>2, <1>3, <1>4, <1>5, <1>6, <1>7, <1>8, <1>9, <1>10,
     <1>11, <1>12, <1>13, <1>14, <1>15, <1>16, <1>17, <1>18, <1>19, <1>20,
     <1>21
  DEF Next, Arrive, Work, Fail, StatementFails, DeadlockVictim, Documents

\* Every step other than a commit leaves the tables alone.
LEMMA QuietStep ==
  ASSUME [Next]_vars
  PROVE  \/ UNCHANGED <<files, docs, used>>
         \/ \E p \in Procs, f \in FileIds : InsertFile(p, f)
         \/ \E p \in Procs : CommitDelete(p)
         \/ \E u \in Users, h \in Hashes, d \in DocIds : CreateDocument(u, h, d)
         \/ \E u \in Users, d \in DocIds : DeleteDocument(u, d)
  BY DEF Next, vars, Arrive, Work, Fail, Documents, Crash, UploadRequest, LockUser,
         RejectOverQuota, FindCanonical, IncrRef, PutObject, PutObjectFails,
         DeleteRequest, FetchFile, FileNotFound, FindCanonForDelete, DecrRef,
         RemoveObject, RemoveObjectFails, StatementFails, DeadlockVictim, Rollback

\* What user u is charged for.
Charged(u) == Cardinality(BytesOf(files, FilesOf(u)))
                + Cardinality(BytesOf(docs, DocsOf(u)))

Exact(u) == /\ IsFiniteSet(BytesOf(files, FilesOf(u)))
            /\ IsFiniteSet(BytesOf(docs, DocsOf(u)))
            /\ used[u] = Charged(u)

\* A user whose rows and counter a step leaves alone is charged the same.
LEMMA ExactUnchanged ==
  ASSUME NEW u \in Users, Exact(u),
         FilesOf(u)' = FilesOf(u), DocsOf(u)' = DocsOf(u),
         \A f \in FilesOf(u) : files'[f].sha256 = files[f].sha256,
         \A d \in DocsOf(u) : docs'[d].sha256 = docs[d].sha256,
         used'[u] = used[u]
  PROVE  Exact(u)'
<1>1. BytesOf(files', FilesOf(u)) = BytesOf(files, FilesOf(u))
  BY BytesSame
<1>2. BytesOf(docs', DocsOf(u)) = BytesOf(docs, DocsOf(u))
  BY BytesSame
<1> QED
  BY <1>1, <1>2 DEF Exact, Charged

\* InsertFile charges the size of the row it inserts.
LEMMA InsertFileExact ==
  ASSUME IInv, NEW p \in Procs, NEW f \in FileIds, InsertFile(p, f),
         NEW u \in Users, Exact(u)
  PROVE  Exact(u)'
<1> DEFINE h == req[p].sha256
<1>1. /\ TypeOK
      /\ req[p].user \in Users
      /\ h \in Hashes
      /\ Size[h] \in Nat
  BY StoreAssumption DEF IInv, RequestOK, InsertFile, SaveTx
<1>2. used' = [used EXCEPT ![req[p].user] = @ + Size[h]] /\ docs' = docs
  BY DEF InsertFile
<1>3. /\ files[f].st = "unused"
      /\ files'[f].st = "active"
      /\ files'[f].user = req[p].user
      /\ files'[f].sha256 = h
  BY <1>1, InsertFileRows
<1>4. \A g \in FileIds \ {f} : /\ files'[g].st = files[g].st
                               /\ files'[g].user = files[g].user
                               /\ files'[g].sha256 = files[g].sha256
  BY <1>1, InsertFileRows
<1>5. DocsOf(u)' = DocsOf(u)
  BY <1>2 DEF DocsOf
<1>6. f \notin FilesOf(u) /\ \A g \in FilesOf(u) : files'[g].sha256 = files[g].sha256
  BY <1>3, <1>4 DEF FilesOf, Owns
<1>7. CASE u # req[p].user
  <2>1. FilesOf(u)' = FilesOf(u)
    BY <1>3, <1>4, <1>7 DEF FilesOf, Owns
  <2>2. used'[u] = used[u]
    BY <1>1, <1>2, <1>7 DEF TypeOK
  <2> QED
    BY <1>2, <1>5, <1>6, <2>1, <2>2, ExactUnchanged
<1>8. CASE u = req[p].user
  <2>1. FilesOf(u)' = FilesOf(u) \cup {f}
    BY <1>3, <1>4, <1>8 DEF FilesOf, Owns
  <2>2. BytesOf(files', FilesOf(u)) = BytesOf(files, FilesOf(u))
    BY <1>6, BytesSame
  <2>3. f \in FilesOf(u)' /\ FilesOf(u)' \ {f} = FilesOf(u)
    BY <2>1, <1>6
  <2>4. /\ IsFiniteSet(BytesOf(files', FilesOf(u)'))
        /\ Cardinality(BytesOf(files', FilesOf(u)))  \in Nat
        /\ Cardinality(BytesOf(files', FilesOf(u)'))
             = Cardinality(BytesOf(files', FilesOf(u))) + Size[h]
    <3> DEFINE rows == files'
               ids == FilesOf(u)'
    <3>1. IsFiniteSet(BytesOf(rows, ids \ {f})) /\ f \in ids
      BY <2>2, <2>3 DEF Exact
    <3>2. Size[rows[f].sha256] \in Nat
      BY <1>1, <1>3
    <3> HIDE DEF rows, ids
    <3>3. /\ IsFiniteSet(BytesOf(rows, ids))
          /\ Cardinality(BytesOf(rows, ids \ {f})) \in Nat
          /\ Cardinality(BytesOf(rows, ids))
               = Cardinality(BytesOf(rows, ids \ {f})) + Size[rows[f].sha256]
      BY <3>1, <3>2, BytesSplit
    <3> QED
      BY <1>3, <2>3, <3>3 DEF rows, ids
  <2>5. used'[u] = used[u] + Size[h]
    BY <1>1, <1>2, <1>8 DEF TypeOK
  <2>6. BytesOf(docs, DocsOf(u))' = BytesOf(docs, DocsOf(u))
    BY <1>2, <1>5 DEF BytesOf
  <2>7. Cardinality(BytesOf(docs, DocsOf(u))) \in Nat
    BY FS_CardinalityType DEF Exact
  <2> HIDE DEF h
  <2>8. Charged(u)' = Charged(u) + Size[h]
    BY <1>1, <2>2, <2>4, <2>6, <2>7 DEF Charged
  <2> QED
    BY <2>4, <2>5, <2>6, <2>8 DEF Exact
<1> QED
  BY <1>7, <1>8

\* CommitDelete gives the size of the deleted row back, and GREATEST has
\* nothing to cut off.
LEMMA CommitDeleteExact ==
  ASSUME IInv, NEW p \in Procs, CommitDelete(p), NEW u \in Users, Exact(u)
  PROVE  Exact(u)' /\ used[req[p].user] - Size[files[req[p].file].sha256] >= 0
<1> DEFINE f == req[p].file
           n == Size[files[f].sha256]
<1>1. /\ TypeOK
      /\ req[p].user \in Users
      /\ f \in FileIds
      /\ Owns(req[p].user, f)
  BY DEF IInv, RequestOK, DeleteHoldsRow, CommitDelete, DeleteTx
<1>2. n \in Nat
  BY <1>1, StoreAssumption DEF IInv, RowOK, Owns
<1>3. docs' = docs /\ used' = [used EXCEPT ![req[p].user] = Greatest(0, @ - n)]
  BY DEF CommitDelete
<1>4. \A g \in FileIds : /\ g # f => files'[g].st = files[g].st
                         /\ files'[f].st # "active"
                         /\ files'[g].user = files[g].user
                         /\ files'[g].sha256 = files[g].sha256
  BY <1>1, CommitDeleteRows
<1>5. DocsOf(u)' = DocsOf(u)
  BY <1>3 DEF DocsOf
<1>6. \A g \in FilesOf(u) : files'[g].sha256 = files[g].sha256
  BY <1>4 DEF FilesOf
<1>7. used[req[p].user] - n >= 0
  <2> DEFINE v == req[p].user
  <2>1. /\ IsFiniteSet(BytesOf(files, FilesOf(v)))
        /\ IsFiniteSet(BytesOf(docs, DocsOf(v)))
        /\ used[v] = Charged(v)
    BY <1>1 DEF IInv, BytesFinite, UsageExact, Charged
  <2>2. f \in FilesOf(v)
    BY <1>1 DEF FilesOf
  <2>3. /\ Cardinality(BytesOf(files, FilesOf(v) \ {f})) \in Nat
        /\ Cardinality(BytesOf(files, FilesOf(v)))
             = Cardinality(BytesOf(files, FilesOf(v) \ {f})) + n
    BY <1>2, <2>1, <2>2, BytesSplit
  <2>4. Cardinality(BytesOf(docs, DocsOf(v))) \in Nat
    BY <2>1, FS_CardinalityType
  <2> HIDE DEF n, v
  <2> QED
    BY <1>2, <2>1, <2>3, <2>4 DEF Charged, v
<1>8. CASE u # req[p].user
  <2>1. FilesOf(u)' = FilesOf(u)
    BY <1>1, <1>4, <1>8 DEF FilesOf, Owns
  <2>2. used'[u] = used[u]
    BY <1>1, <1>3, <1>8 DEF TypeOK
  <2> QED
    BY <1>3, <1>5, <1>6, <1>7, <2>1, <2>2, ExactUnchanged
<1>9. CASE u = req[p].user
  <2>1. FilesOf(u)' = FilesOf(u) \ {f} /\ f \in FilesOf(u)
    BY <1>1, <1>4, <1>9 DEF FilesOf, Owns
  <2>2. BytesOf(files', FilesOf(u) \ {f}) = BytesOf(files, FilesOf(u) \ {f})
    BY <1>6, BytesSame
  <2>3. /\ IsFiniteSet(BytesOf(files, FilesOf(u) \ {f}))
        /\ Cardinality(BytesOf(files, FilesOf(u) \ {f})) \in Nat
        /\ Cardinality(BytesOf(files, FilesOf(u)))
             = Cardinality(BytesOf(files, FilesOf(u) \ {f})) + n
    BY <1>2, <2>1, BytesSplit DEF Exact
  <2>4. used'[u] = used[u] - n
    BY <1>1, <1>2, <1>3, <1>7, <1>9 DEF TypeOK, Greatest
  <2>5. BytesOf(docs, DocsOf(u))' = BytesOf(docs, DocsOf(u))
    BY <1>3, <1>5 DEF BytesOf
  <2>6. Cardinality(BytesOf(docs, DocsOf(u))) \in Nat
    BY FS_CardinalityType DEF Exact
  <2> HIDE DEF n
  <2>7. Charged(u)' = Charged(u) - n
    BY <1>2, <2>1, <2>2, <2>3, <2>5, <2>6 DEF Charged
  <2>8. IsFiniteSet(BytesOf(files, FilesOf(u)))' /\ IsFiniteSet(BytesOf(docs, DocsOf(u)))'
    BY <2>1, <2>2, <2>3, <2>5 DEF Exact
  <2>9. Exact(u)'
    BY <2>4, <2>7, <2>8 DEF Exact
  <2> QED
    BY <1>7, <2>9 DEF n
<1> QED
  BY <1>8, <1>9

\* CreateDocument charges the size of the document.
LEMMA CreateDocumentExact ==
  ASSUME IInv, NEW v \in Users, NEW h \in Hashes, NEW d \in DocIds,
         CreateDocument(v, h, d), NEW u \in Users, Exact(u)
  PROVE  Exact(u)'
<1>1. TypeOK /\ Size[h] \in Nat
  BY StoreAssumption DEF IInv
<1>2. /\ files' = files
      /\ used' = [used EXCEPT ![v] = @ + Size[h]]
      /\ docs' = [docs EXCEPT ![d] = [st |-> "live", user |-> v, sha256 |-> h]]
  BY DEF CreateDocument
<1>3. docs'[d].user = v /\ docs'[d].sha256 = h /\ docs[d].user = None
  BY <1>1, <1>2 DEF TypeOK, IInv, RowOK, CreateDocument
<1>4. \A e \in DocIds \ {d} : docs'[e] = docs[e]
  BY <1>1, <1>2 DEF TypeOK
<1>5. FilesOf(u)' = FilesOf(u)
  BY <1>2 DEF FilesOf, Owns
<1>6. d \notin DocsOf(u) /\ \A e \in DocsOf(u) : docs'[e].sha256 = docs[e].sha256
  BY <1>3, <1>4, StoreAssumption DEF DocsOf
<1>7. CASE u # v
  <2>1. DocsOf(u)' = DocsOf(u)
    BY <1>3, <1>4, <1>7, StoreAssumption DEF DocsOf
  <2>2. used'[u] = used[u]
    BY <1>1, <1>2, <1>7 DEF TypeOK
  <2> QED
    BY <1>2, <1>5, <1>6, <2>1, <2>2, ExactUnchanged
<1>8. CASE u = v
  <2>1. DocsOf(u)' = DocsOf(u) \cup {d}
    BY <1>3, <1>4, <1>8, StoreAssumption DEF DocsOf
  <2>2. BytesOf(docs', DocsOf(u)) = BytesOf(docs, DocsOf(u))
    BY <1>6, BytesSame
  <2>3. d \in DocsOf(u)' /\ DocsOf(u)' \ {d} = DocsOf(u)
    BY <2>1, <1>6
  <2>4. /\ IsFiniteSet(BytesOf(docs', DocsOf(u)'))
        /\ Cardinality(BytesOf(docs', DocsOf(u))) \in Nat
        /\ Cardinality(BytesOf(docs', DocsOf(u)'))
             = Cardinality(BytesOf(docs', DocsOf(u))) + Size[h]
    <3> DEFINE rows == docs'
               ids == DocsOf(u)'
    <3>1. IsFiniteSet(BytesOf(rows, ids \ {d})) /\ d \in ids
      BY <2>2, <2>3 DEF Exact
    <3>2. Size[rows[d].sha256] \in Nat
      BY <1>1, <1>3
    <3> HIDE DEF rows, ids
    <3>3. /\ IsFiniteSet(BytesOf(rows, ids))
          /\ Cardinality(BytesOf(rows, ids \ {d})) \in Nat
          /\ Cardinality(BytesOf(rows, ids))
               = Cardinality(BytesOf(rows, ids \ {d})) + Size[rows[d].sha256]
      BY <3>1, <3>2, BytesSplit
    <3> QED
      BY <1>3, <2>3, <3>3 DEF rows, ids
  <2>5. used'[u] = used[u] + Size[h]
    BY <1>1, <1>2, <1>8 DEF TypeOK
  <2>6. BytesOf(files, FilesOf(u))' = BytesOf(files, FilesOf(u))
    BY <1>2, <1>5 DEF BytesOf
  <2>7. Cardinality(BytesOf(files, FilesOf(u))) \in Nat
    BY FS_CardinalityType DEF Exact
  <2>8. Charged(u)' = Charged(u) + Size[h]
    BY <1>1, <2>2, <2>4, <2>6, <2>7 DEF Charged
  <2> QED
    BY <2>4, <2>5, <2>6, <2>8 DEF Exact
<1> QED
  BY <1>7, <1>8

\* The counter stays exact.
LEMMA UsageStep == IInv /\ [Next]_vars => BytesFinite' /\ UsageExact'
<1> SUFFICES ASSUME IInv, [Next]_vars, NEW u \in Users
             PROVE  Exact(u)'
  BY DEF BytesFinite, UsageExact, Exact, Charged
<1>0. Exact(u)
  BY DEF IInv, BytesFinite, UsageExact, Exact, Charged
<1>1. CASE UNCHANGED <<files, docs, used>>
  BY <1>0, <1>1, ExactUnchanged DEF FilesOf, Owns, DocsOf
<1>2. ASSUME NEW v \in Users, NEW d \in DocIds, DeleteDocument(v, d)
      PROVE  Exact(u)'
  <2>1. \A e \in DocIds : docs'[e].user = docs[e].user /\ docs'[e].sha256 = docs[e].sha256
    BY <1>2 DEF DeleteDocument, IInv, TypeOK, Document
  <2> QED
    BY <1>0, <1>2, <2>1, ExactUnchanged DEF DeleteDocument, FilesOf, Owns, DocsOf
<1> QED
  BY <1>0, <1>1, <1>2, QuietStep, InsertFileExact, CommitDeleteExact, CreateDocumentExact

-----------------------------------------------------------------------------
(* The theorems. *)

\* The inductive invariant holds in every reachable state.
THEOREM Invariance == Spec => []IInv
<1>1. IInv /\ [Next]_vars => IInv'
  BY TypeStep, RequestStep, LockStep, UsageStep DEF IInv
<1> QED
  BY <1>1, InitIInv, PTL DEF Spec

\* Type correctness of FileStore, for every value of its constants.
THEOREM TypeCorrect == Spec => []TypeOK
<1>1. IInv => TypeOK
  BY DEF IInv
<1> QED
  BY <1>1, Invariance, PTL

\* The quota check made under the user's row lock is still true at commit, for
\* any number of concurrent uploads, deletes and document uploads.
THEOREM QuotaCheckHolds == Spec => []QuotaHeldToCommit
<1>1. IInv => QuotaHeldToCommit
  BY DEF IInv
<1> QED
  BY <1>1, Invariance, PTL

\* A row fetched for deletion is deleted by that request alone.
THEOREM DeleteIsExclusive == Spec => []DeleteHoldsRow
<1>1. IInv => DeleteHoldsRow
  BY DEF IInv
<1> QED
  BY <1>1, Invariance, PTL

\* storage_bytes_used never drifts from the bytes of the user's active files and
\* of the documents the user has uploaded.
THEOREM UsageNeverDrifts == Spec => []UsageExact
<1>1. IInv => UsageExact
  BY DEF IInv
<1> QED
  BY <1>1, Invariance, PTL

-----------------------------------------------------------------------------
(* The refinement of FileCatalog. *)

\* Every step of FileStore is a step of FileCatalog or leaves it unchanged.
LEMMA CatalogStep == IInv /\ [Next]_vars => [Catalog!Next]_(Catalog!vars)
<1> SUFFICES ASSUME IInv, [Next]_vars PROVE [Catalog!Next]_(Catalog!vars)
  OBVIOUS
<1>0. TypeOK
  BY DEF IInv
<1> DEFINE entry == [f \in FileIds |-> Entry(f)]
<1>1. CASE UNCHANGED <<files, docs, used>>
  BY <1>1 DEF Catalog!vars, Entry
<1>2. ASSUME NEW p \in Procs, NEW f \in FileIds, InsertFile(p, f)
      PROVE  Catalog!Next
  <2> DEFINE u == req[p].user
             h == req[p].sha256
  <2>1. u \in Users /\ h \in Hashes /\ used[u] + Size[h] <= Quota
    BY <1>2 DEF IInv, RequestOK, QuotaHeldToCommit, InsertFile, SaveTx
  <2>2. entry[f].st = "unused"
    BY <1>2, <1>0, InsertFileRows DEF Entry
  <2>3. used' = [used EXCEPT ![u] = @ + Size[h]]
    BY <1>2 DEF InsertFile
  <2>4. entry' = [entry EXCEPT ![f] = [st |-> "active", user |-> u, sha256 |-> h]]
    <3>1. entry'[f] = [st |-> "active", user |-> u, sha256 |-> h]
      BY <1>2, <1>0, InsertFileRows DEF Entry
    <3>2. \A g \in FileIds \ {f} : entry'[g] = entry[g]
      BY <1>2, <1>0, InsertFileRows DEF Entry
    <3> QED
      BY <3>1, <3>2
  <2> HIDE DEF entry, u, h
  <2>5. Catalog!Add(u, h, f)
    BY <2>1, <2>2, <2>3, <2>4 DEF Catalog!Add, entry
  <2> QED
    BY <2>1, <2>5 DEF Catalog!Next
<1>3. ASSUME NEW p \in Procs, CommitDelete(p)
      PROVE  Catalog!Next
  <2> DEFINE u == req[p].user
             f == req[p].file
  <2>1. u \in Users /\ f \in FileIds /\ Owns(u, f)
    BY <1>3 DEF IInv, RequestOK, DeleteHoldsRow, CommitDelete, DeleteTx
  <2>2. entry[f].st = "active" /\ entry[f].user = u /\ entry[f].sha256 = files[f].sha256
    BY <2>1 DEF Entry, Owns
  <2>3. used' = [used EXCEPT ![u] = @ - Size[files[f].sha256]]
    <3>1. Exact(u)
      BY <2>1 DEF IInv, BytesFinite, UsageExact, Exact, Charged
    <3>2. used[u] - Size[files[f].sha256] >= 0
      BY <1>3, <2>1, <3>1, CommitDeleteExact
    <3>3. used[u] \in Nat /\ Size[files[f].sha256] \in Nat
      BY <1>0, <2>1, StoreAssumption DEF TypeOK, IInv, RowOK, Owns
    <3>4. used' = [used EXCEPT ![u] = Greatest(0, @ - Size[files[f].sha256])]
      BY <1>3 DEF CommitDelete
    <3>5. Greatest(0, used[u] - Size[files[f].sha256]) = used[u] - Size[files[f].sha256]
      BY <3>2, <3>3 DEF Greatest
    <3> QED
      BY <3>4, <3>5
  <2>4. entry' = [entry EXCEPT ![f] = [@ EXCEPT !.st = "removed"]]
    <3>1. /\ files'[f].st \in {"gone", "deleted"}
          /\ files'[f].user = files[f].user
          /\ files'[f].sha256 = files[f].sha256
      BY <1>3, <1>0, <2>1, CommitDeleteRows
    <3>2. entry'[f] = [entry[f] EXCEPT !.st = "removed"]
      BY <2>1, <3>1 DEF Entry
    <3>3. \A g \in FileIds \ {f} : entry'[g] = entry[g]
      BY <1>3, <1>0, CommitDeleteRows DEF Entry
    <3> QED
      BY <3>2, <3>3
  <2> HIDE DEF entry, u, f
  <2>5. Catalog!Remove(u, f)
    BY <2>1, <2>2, <2>3, <2>4 DEF Catalog!Remove, entry
  <2> QED
    BY <2>1, <2>5 DEF Catalog!Next
<1>4. ASSUME NEW u \in Users, NEW h \in Hashes, NEW d \in DocIds, CreateDocument(u, h, d)
      PROVE  Catalog!Next
  <2>1. Catalog!Charge(u, h)
    BY <1>4 DEF CreateDocument, Catalog!Charge, Entry
  <2> QED
    BY <2>1 DEF Catalog!Next
<1>5. ASSUME NEW u \in Users, NEW d \in DocIds, DeleteDocument(u, d)
      PROVE  UNCHANGED Catalog!vars
  BY <1>5 DEF DeleteDocument, Catalog!vars, Entry
<1> QED
  BY <1>1, <1>2, <1>3, <1>4, <1>5, QuietStep

\* FileStore implements FileCatalog: with any number of concurrent requests,
\* roll-backs and crashes, uploads and deletes are atomic, charge exactly, respect
\* the quota and touch only the requesting user's own files.
THEOREM Refinement == Spec => ImplementsCatalog
<1>1. Init => Catalog!Init
  BY DEF Init, Catalog!Init, Catalog!NoEntry, NoFile, Entry
<1> QED
  BY <1>1, CatalogStep, Invariance, PTL DEF Spec, ImplementsCatalog, Catalog!Spec

=============================================================================
