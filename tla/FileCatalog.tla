----------------------------- MODULE FileCatalog -----------------------------
(***************************************************************************)
(* What the file half of the service promises its users, with no locks, no *)
(* transactions and no reference counts: a catalogue of file entries and a *)
(* byte count per user.  An upload adds one entry and charges its size in  *)
(* one indivisible step, and only when the user stays within the quota; a  *)
(* delete takes one of the user's own entries away and gives exactly its   *)
(* size back.  The document half charges the same counter without looking  *)
(* at the quota.  FileStore is shown to implement this specification.      *)
(***************************************************************************)
EXTENDS Integers

CONSTANTS
  Users,    \* registered users (users.id)
  Hashes,   \* contents, named by their SHA-256
  FileIds,  \* file ids the database can hand out (files.id)
  Size,     \* bytes of each content
  Quota,    \* users.storage_quota_bytes
  None      \* no user, no content

VARIABLES
  entry,    \* the catalogue: one entry per file id
  used      \* users.storage_bytes_used

NoEntry == [st |-> "unused", user |-> None, sha256 |-> None]

Init == /\ entry = [f \in FileIds |-> NoEntry]
        /\ used = [u \in Users |-> 0]

Add(u, h, f) ==
  /\ entry[f].st = "unused"
  /\ used[u] + Size[h] <= Quota
  /\ entry' = [entry EXCEPT ![f] = [st |-> "active", user |-> u, sha256 |-> h]]
  /\ used' = [used EXCEPT ![u] = @ + Size[h]]

Remove(u, f) ==
  /\ entry[f].st = "active"
  /\ entry[f].user = u
  /\ entry' = [entry EXCEPT ![f] = [@ EXCEPT !.st = "removed"]]
  /\ used' = [used EXCEPT ![u] = @ - Size[entry[f].sha256]]

Charge(u, h) ==
  /\ used' = [used EXCEPT ![u] = @ + Size[h]]
  /\ UNCHANGED entry

Next ==
  \E u \in Users :
    \/ \E f \in FileIds : Remove(u, f)
    \/ \E h \in Hashes : Charge(u, h) \/ \E f \in FileIds : Add(u, h, f)

vars == <<entry, used>>

Spec == Init /\ [][Next]_vars
=============================================================================
