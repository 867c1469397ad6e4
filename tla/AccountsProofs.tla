--------------------------- MODULE AccountsProofs ---------------------------
(* Proofs about accounts, tokens and API keys. *)
EXTENDS Accounts, TLAPS

\* Whoever holds a token or owns a key has an account.
HoldersOK ==
  /\ \A u \in Users : tokens[u] # None => u \in users
  /\ \A k \in Keys : keys[k].st # "unused" => keys[k].owner \in users

\* What is known of the key of a request at each step: a key that was dead on
\* arrival still is, past the lookup because it has expired.
ReqOK(r) ==
  LET k == req[r].key IN
  /\ req[r].step = "run" => req[r].user \in users
  /\ req[r].step \in {"lookup", "expiry"} => k # None
  /\ k # None =>
       /\ keys[k].st # "unused"
       /\ req[r].step = "lookup" /\ req[r].dead => keys[k].st = "revoked" \/ Expired(k)
       /\ req[r].step = "expiry" /\ req[r].dead => Expired(k)
       /\ req[r].step = "run" => ~req[r].dead /\ keys[k].owner = req[r].user
       /\ req[r].step = "refused" => keys[k].st = "revoked" \/ Expired(k)

ReqsOK == \A r \in Requests : ReqOK(r)

AccountsInv == TypeOK /\ HoldersOK /\ ReqsOK

-----------------------------------------------------------------------------

LEMMA AccountsInitInv == Init => AccountsInv
<1> SUFFICES ASSUME Init PROVE AccountsInv
  OBVIOUS
<1>1. NoKey \in Key /\ NoRequest \in Request
  BY DEF NoKey, Key, NoRequest, Request
<1>2. TypeOK
  BY <1>1, AccountsAssumption DEF Init, TypeOK
<1>3. HoldersOK /\ ReqsOK
  BY DEF Init, HoldersOK, ReqsOK, ReqOK, NoKey, NoRequest
<1> QED
  BY <1>2, <1>3 DEF AccountsInv

-----------------------------------------------------------------------------
(* What every step does to accounts, keys and the clock. *)

\* A key that was created keeps its owner and its expiry, and stays revoked.
KeyKept(k) ==
  keys[k].st # "unused" =>
    /\ keys'[k].st # "unused"
    /\ keys'[k].owner = keys[k].owner /\ keys'[k].expires = keys[k].expires
    /\ keys[k].st = "revoked" => keys'[k] = keys[k]

\* Nothing is forgotten and the clock does not go back.
Onward ==
  /\ users \subseteq users' /\ now' \in Nat /\ now <= now'
  /\ \A k \in Keys : KeyKept(k)

LEMMA KeysType ==
  ASSUME AccountsInv
  PROVE  /\ now \in Nat
         /\ \A k \in Keys : /\ keys[k] \in Key
                            /\ keys[k].expires \in Nat \/ keys[k].expires = None
         /\ \A r \in Requests : req[r] \in Request
  BY AccountsAssumption DEF AccountsInv, TypeOK, Key

LEMMA CreateKeyOnward ==
  ASSUME AccountsInv, NEW r \in Requests, NEW k \in Keys, CreateKey(r, k)
  PROVE  keys' \in [Keys -> Key] /\ HoldersOK' /\ Onward
<1>1. PICK expires \in Expiries, st \in {"live", "lost"} :
        keys' = [keys EXCEPT ![k] = [NoKey EXCEPT !.st = st, !.owner = req[r].user,
                                                  !.expires = expires]]
  BY DEF CreateKey
<1> DEFINE new == [NoKey EXCEPT !.st = st, !.owner = req[r].user, !.expires = expires]
<1>2. req[r].user \in users /\ users \subseteq Users
  BY DEF AccountsInv, TypeOK, ReqsOK, ReqOK, CreateKey
<1>3. new.st = st /\ new.owner = req[r].user /\ new \in Key
  BY <1>2, AccountsAssumption DEF NoKey, Key
<1>4. keys' = [keys EXCEPT ![k] = new]
  BY <1>1
<1> HIDE DEF new
<1>5. keys' \in [Keys -> Key] /\ keys'[k] = new /\ \A j \in Keys : j # k => keys'[j] = keys[j]
  BY <1>3, <1>4 DEF AccountsInv, TypeOK
<1>6. HoldersOK'
  BY <1>2, <1>3, <1>5 DEF AccountsInv, HoldersOK, CreateKey
<1>7. \A j \in Keys : KeyKept(j)
  BY <1>5 DEF KeyKept, CreateKey
<1> QED
  BY <1>5, <1>6, <1>7, KeysType DEF Onward, CreateKey

LEMMA DeleteKeyOnward ==
  ASSUME AccountsInv, NEW r \in Requests, NEW k \in Keys, DeleteKey(r, k)
  PROVE  keys' \in [Keys -> Key] /\ HoldersOK' /\ Onward
<1>1. keys' = [keys EXCEPT ![k].st = "revoked"] /\ keys[k].st \in {"live", "lost"}
      /\ UNCHANGED <<now, users, tokens>>
  BY DEF DeleteKey, InTable
<1>2. keys' \in [Keys -> Key]
  BY <1>1 DEF AccountsInv, TypeOK, Key
<1>3. /\ keys'[k].st = "revoked"
      /\ keys'[k].owner = keys[k].owner /\ keys'[k].expires = keys[k].expires
      /\ \A j \in Keys : j # k => keys'[j] = keys[j]
  BY <1>1 DEF AccountsInv, TypeOK, Key
<1>4. HoldersOK'
  BY <1>1, <1>3 DEF AccountsInv, HoldersOK
<1>5. \A j \in Keys : KeyKept(j)
  BY <1>1, <1>3 DEF KeyKept
<1> QED
  BY <1>1, <1>2, <1>4, <1>5, KeysType DEF Onward

LEMMA TouchOnward ==
  ASSUME AccountsInv, NEW k \in Keys, TouchLastUsed(k)
  PROVE  keys' \in [Keys -> Key] /\ HoldersOK' /\ Onward
<1>1. UNCHANGED <<now, users, tokens>>
  BY DEF TouchLastUsed
<1>2. CASE UNCHANGED keys
  BY <1>1, <1>2, KeysType DEF AccountsInv, TypeOK, HoldersOK, Onward, KeyKept
<1>3. CASE keys' = [keys EXCEPT ![k].used = InTable(k) \/ @]
  <2>1. keys' \in [Keys -> Key]
    <3>1. (InTable(k) \/ keys[k].used) \in BOOLEAN
      BY DEF InTable
    <3> QED
      BY <1>3, <3>1 DEF AccountsInv, TypeOK, Key
  <2>2. /\ \A j \in Keys : j # k => keys'[j] = keys[j]
        /\ keys'[k].st = keys[k].st /\ keys'[k].owner = keys[k].owner
        /\ keys'[k].expires = keys[k].expires
    BY <1>3 DEF AccountsInv, TypeOK, Key
  <2>3. keys[k].st = "revoked" => keys'[k] = keys[k]
    <3>1. SUFFICES ASSUME keys[k].st = "revoked"
                   PROVE  [keys[k] EXCEPT !.used = InTable(k) \/ @] = keys[k]
      BY <1>3 DEF AccountsInv, TypeOK
    <3>2. keys[k].used \in BOOLEAN /\ keys[k] \in Key
      BY DEF AccountsInv, TypeOK, Key
    <3>3. (InTable(k) \/ keys[k].used) = keys[k].used
      BY <3>1, <3>2 DEF InTable
    <3>4. [keys[k] EXCEPT !.used = keys[k].used] = keys[k]
      BY <3>2 DEF Key
    <3> QED
      BY <3>3, <3>4
  <2>4. HoldersOK'
    BY <1>1, <2>2 DEF AccountsInv, HoldersOK
  <2>5. \A j \in Keys : KeyKept(j)
    BY <2>2, <2>3 DEF KeyKept
  <2> QED
    BY <1>1, <2>1, <2>4, <2>5, KeysType DEF Onward
<1> QED
  BY <1>2, <1>3 DEF TouchLastUsed

\* The steps that leave the keys alone.
LEMMA KeysAlone ==
  ASSUME AccountsInv, UNCHANGED keys,
         \/ UNCHANGED <<now, users, tokens>>
         \/ Tick
         \/ \E u \in Users : Register(u) \/ RegisterFails(u) \/ Login(u)
  PROVE  HoldersOK' /\ Onward
<1>1. users \subseteq users' /\ now' \in Nat /\ now <= now'
  BY KeysType DEF Tick, Register, RegisterFails, Login
<1>2. \A u \in Users : tokens'[u] # None => u \in users'
  BY DEF AccountsInv, TypeOK, HoldersOK, Tick, Register, RegisterFails, Login, issueToken
<1> QED
  BY <1>1, <1>2 DEF AccountsInv, HoldersOK, Onward, KeyKept

LEMMA NextOnward ==
  ASSUME AccountsInv, [Next]_vars
  PROVE  keys' \in [Keys -> Key] /\ HoldersOK' /\ Onward
<1>1. ASSUME NEW r \in Requests, NEW k \in Keys, CreateKey(r, k) \/ DeleteKey(r, k)
      PROVE  keys' \in [Keys -> Key] /\ HoldersOK' /\ Onward
  BY <1>1, CreateKeyOnward, DeleteKeyOnward
<1>2. ASSUME NEW k \in Keys, TouchLastUsed(k)
      PROVE  keys' \in [Keys -> Key] /\ HoldersOK' /\ Onward
  BY <1>2, TouchOnward
<1>3. CASE Tick \/ \E u \in Users : Register(u) \/ RegisterFails(u) \/ Login(u)
  <2>1. UNCHANGED keys
    BY <1>3 DEF Tick, Register, RegisterFails, Login
  <2> QED
    BY <1>3, <2>1, KeysAlone DEF AccountsInv, TypeOK
<1>4. CASE \/ Crash \/ UNCHANGED vars
           \/ \E r \in Requests : \/ \E u \in Users : ArriveWithToken(r, u)
                                  \/ \E k \in Keys : ArriveWithKey(r, k)
                                  \/ LookupKey(r) \/ CheckExpiry(r) \/ EndRequest(r)
  <2>1. UNCHANGED <<keys, now, users, tokens>>
    BY <1>4 DEF Crash, vars, ArriveWithToken, ArriveWithKey, LookupKey, CheckExpiry, EndRequest
  <2> QED
    BY <2>1, KeysAlone DEF AccountsInv, TypeOK
<1> QED
  BY <1>1, <1>2, <1>3, <1>4, Zenon DEF Next, RequestStep

-----------------------------------------------------------------------------
(* The requests. *)

LEMMA ReqKept ==
  ASSUME AccountsInv, Onward, NEW r \in Requests, req'[r] = req[r]
  PROVE  ReqOK(r)'
<1> DEFINE k == req[r].key
<1>1. ReqOK(r) /\ (k \in Keys \/ k = None)
  BY DEF AccountsInv, ReqsOK, TypeOK, Request
<1>2. CASE k = None
  BY <1>1, <1>2 DEF ReqOK, Onward
<1>3. CASE k \in Keys /\ k # None
  <2>1. KeyKept(k) /\ keys[k].st # "unused"
    BY <1>1, <1>3 DEF ReqOK, Onward
  <2>2. Expired(k) => Expired(k)'
    <3>1. now \in Nat /\ now' \in Nat /\ now <= now'
      BY KeysType DEF Onward
    <3> QED
      BY <2>1, <3>1, KeysType, <1>3 DEF Expired, KeyKept
  <2> QED
    BY <1>1, <1>3, <2>1, <2>2 DEF ReqOK, KeyKept, Onward
<1> QED
  BY <1>1, <1>2, <1>3

\* Every request but r is as it was, and r is in order: then all are.
LEMMA OneRequest ==
  ASSUME AccountsInv, Onward, NEW r \in Requests, NEW new \in Request,
         req' = [req EXCEPT ![r] = new], ReqOK(r)'
  PROVE  req' \in [Requests -> Request] /\ ReqsOK'
<1>1. req' \in [Requests -> Request] /\ \A q \in Requests : q # r => req'[q] = req[q]
  BY DEF AccountsInv, TypeOK
<1>2. \A q \in Requests : ReqOK(q)'
  BY <1>1, ReqKept
<1> QED
  BY <1>1, <1>2 DEF ReqsOK

\* A request that has ended holds nothing.
LEMMA FinishOK ==
  ASSUME AccountsInv, Onward, NEW r \in Requests, Finish(r)
  PROVE  req' \in [Requests -> Request] /\ ReqsOK'
<1>1. NoRequest \in Request
  BY DEF NoRequest, Request
<1>2. req'[r] = NoRequest
  BY DEF Finish, AccountsInv, TypeOK
<1>3. ReqOK(r)'
  BY <1>2 DEF ReqOK, NoRequest
<1> QED
  BY <1>1, <1>3, OneRequest DEF Finish

LEMMA ArriveWithTokenOK ==
  ASSUME AccountsInv, Onward, NEW r \in Requests, NEW u \in Users, ArriveWithToken(r, u)
  PROVE  req' \in [Requests -> Request] /\ ReqsOK'
<1> DEFINE new == IF now < tokens[u] THEN [NoRequest EXCEPT !.step = "run", !.user = u]
                  ELSE [NoRequest EXCEPT !.step = "refused"]
<1>1. req' = [req EXCEPT ![r] = new] /\ u \in users /\ UNCHANGED users
  BY DEF ArriveWithToken, AccountsInv, HoldersOK
<1>2. new \in Request /\ new.key = None
  BY DEF NoRequest, Request
<1>3. new.step \in {"run", "refused"} /\ (new.step = "run" => new.user = u)
  BY DEF NoRequest
<1> HIDE DEF new
<1>4. req'[r] = new
  BY <1>1 DEF AccountsInv, TypeOK
<1>5. ReqOK(r)'
  BY <1>1, <1>2, <1>3, <1>4 DEF ReqOK
<1> QED
  BY <1>1, <1>2, <1>5, OneRequest

LEMMA ArriveWithKeyOK ==
  ASSUME AccountsInv, Onward, NEW r \in Requests, NEW k \in Keys, ArriveWithKey(r, k)
  PROVE  req' \in [Requests -> Request] /\ ReqsOK'
<1> DEFINE gone == keys[k].st = "revoked" \/ Expired(k)
           new == [NoRequest EXCEPT !.step = "lookup", !.key = k, !.dead = gone]
<1>1. req' = [req EXCEPT ![r] = new] /\ keys[k].st # "unused" /\ UNCHANGED <<keys, now>>
  BY DEF ArriveWithKey
<1>2. gone \in BOOLEAN
  BY DEF Expired
<1>3. new.step = "lookup" /\ new.key = k /\ new.dead = gone
  BY DEF NoRequest
<1>4. new \in Request
  BY <1>2 DEF NoRequest, Request
<1> HIDE DEF new
<1>5. req'[r] = new
  BY <1>1 DEF AccountsInv, TypeOK
<1>6. gone => keys'[k].st = "revoked" \/ Expired(k)'
  BY <1>1 DEF Expired
<1> HIDE DEF gone
<1>7. ReqOK(r)'
  <2>1. req'[r].step = "lookup" /\ req'[r].key = k /\ (req'[r].dead => gone)
    BY <1>3, <1>5
  <2>2. k # None /\ keys'[k].st # "unused"
    BY <1>1, AccountsAssumption
  <2> QED
    BY <2>1, <2>2, <1>6 DEF ReqOK
<1> QED
  BY <1>1, <1>4, <1>7, OneRequest


\* A request changes its step only.
LEMMA StepOf ==
  ASSUME AccountsInv, NEW r \in Requests,
         NEW s \in {"idle", "lookup", "expiry", "run", "refused", "errored"}
  PROVE  LET new == [req[r] EXCEPT !.step = s] IN
         /\ new \in Request /\ new.step = s
         /\ new.key = req[r].key /\ new.dead = req[r].dead /\ new.user = req[r].user
<1>1. req[r] \in Request
  BY DEF AccountsInv, TypeOK
<1> QED
  BY <1>1 DEF Request

\* The key of a request that looks it up.
LEMMA KeyOf ==
  ASSUME AccountsInv, NEW r \in Requests, req[r].step \in {"lookup", "expiry"}
  PROVE  req[r].key \in Keys /\ req[r].key # None /\ ReqOK(r)
<1>1. ReqOK(r) /\ req[r] \in Request
  BY DEF AccountsInv, TypeOK, ReqsOK
<1> QED
  BY <1>1 DEF Request, ReqOK

LEMMA LookupKeyOK ==
  ASSUME AccountsInv, Onward, NEW r \in Requests, LookupKey(r)
  PROVE  req' \in [Requests -> Request] /\ ReqsOK'
<1>1. PICK s \in {"expiry", "refused", "errored"} :
        /\ req' = [req EXCEPT ![r] = [req[r] EXCEPT !.step = s]]
        /\ s = "expiry" => keys[req[r].key].st \in {"live", "lost"}
        /\ s = "refused" => keys[req[r].key].st \notin {"live", "lost"}
  BY DEF LookupKey, InTable
<1> DEFINE k == req[r].key
           new == [req[r] EXCEPT !.step = s]
<1>2. k \in Keys /\ k # None /\ ReqOK(r) /\ keys[k] \in Key
  BY KeyOf, KeysType DEF LookupKey
<1>3. new \in Request /\ new.step = s /\ new.key = k /\ new.dead = req[r].dead
  <2>1. s \in {"idle", "lookup", "expiry", "run", "refused", "errored"}
    OBVIOUS
  <2> QED
    BY <2>1, StepOf, Zenon
<1> HIDE DEF new
<1>4. req'[r] = new
  BY <1>1 DEF AccountsInv, TypeOK, new
<1>5. UNCHANGED <<keys, now>> /\ req[r].step = "lookup"
  BY DEF LookupKey
<1>6. /\ keys[k].st \in {"live", "lost", "revoked"}
      /\ req[r].dead => keys[k].st = "revoked" \/ Expired(k)
  BY <1>2, <1>5 DEF ReqOK, Key
<1>7. ReqOK(r)'
  <2>1. Expired(k) => Expired(req[r].key)'
    BY <1>2, <1>3, <1>4, <1>5 DEF Expired
  <2> QED
    BY <1>1, <1>2, <1>3, <1>4, <1>5, <1>6, <2>1 DEF ReqOK
<1> QED
  BY <1>1, <1>3, <1>7, OneRequest DEF new

LEMMA CheckExpiryOK ==
  ASSUME AccountsInv, Onward, NEW r \in Requests, CheckExpiry(r)
  PROVE  req' \in [Requests -> Request] /\ ReqsOK' /\ touches' \in [Keys -> 0..MaxTouches]
<1> DEFINE k == req[r].key
<1>1. k \in Keys /\ k # None /\ ReqOK(r) /\ keys[k] \in Key /\ req[r].step = "expiry"
  BY KeyOf, KeysType DEF CheckExpiry
<1>2. UNCHANGED <<keys, now, users>>
  BY DEF CheckExpiry
<1>3. keys[k].st # "unused" /\ (req[r].dead => Expired(k))
  BY <1>1 DEF ReqOK
<1>4. keys[k].owner \in users /\ users \subseteq Users
  BY <1>1, <1>3 DEF AccountsInv, HoldersOK, TypeOK
<1>5. CASE /\ Expired(k)
           /\ req' = [req EXCEPT ![r].step = "refused"]
           /\ UNCHANGED touches
  <2> DEFINE new == [req[r] EXCEPT !.step = "refused"]
  <2>1. new \in Request /\ new.step = "refused" /\ new.key = k
    BY StepOf
  <2>2. req' = [req EXCEPT ![r] = new]
    BY <1>5
  <2> HIDE DEF new
  <2>3. req'[r] = new
    BY <2>2 DEF AccountsInv, TypeOK
  <2>4. ReqOK(r)'
    BY <1>2, <1>3, <1>5, <2>1, <2>3 DEF ReqOK, Expired
  <2> QED
    BY <1>5, <2>1, <2>2, <2>4, OneRequest DEF AccountsInv, TypeOK
<1>6. CASE /\ ~Expired(k) /\ touches[k] < MaxTouches
           /\ req' = [req EXCEPT ![r].step = "run", ![r].user = keys[k].owner]
           /\ touches' = [touches EXCEPT ![k] = @ + 1]
  <2> DEFINE run == [req[r] EXCEPT !.step = "run"]
             new == [run EXCEPT !.user = keys[k].owner]
  <2>1. run \in Request /\ run.step = "run" /\ run.key = k /\ run.dead = req[r].dead
    BY StepOf
  <2>2. req' = [req EXCEPT ![r] = new]
    BY <1>6, <1>1 DEF AccountsInv, TypeOK
  <2> HIDE DEF run
  <2>3. /\ new \in Request /\ new.step = "run" /\ new.key = k /\ new.dead = req[r].dead
        /\ new.user = keys[k].owner
    BY <1>4, <2>1 DEF Request
  <2> HIDE DEF new
  <2>4. req'[r] = new
    BY <2>2 DEF AccountsInv, TypeOK
  <2>5. ReqOK(r)'
    BY <1>2, <1>3, <1>4, <1>6, <2>3, <2>4 DEF ReqOK
  <2>6. touches' \in [Keys -> 0..MaxTouches]
    BY <1>1, <1>6, AccountsAssumption DEF AccountsInv, TypeOK
  <2> QED
    BY <2>2, <2>3, <2>5, <2>6, OneRequest
<1> QED
  BY <1>5, <1>6 DEF CheckExpiry

\* The steps that leave the requests alone.
LEMMA RequestsAlone ==
  ASSUME AccountsInv, Onward, UNCHANGED req
  PROVE  req' \in [Requests -> Request] /\ ReqsOK'
<1>1. \A q \in Requests : ReqOK(q)'
  BY ReqKept
<1> QED
  BY <1>1 DEF AccountsInv, TypeOK, ReqsOK


-----------------------------------------------------------------------------
(* The invariant. *)

LEMMA TouchesOK ==
  ASSUME AccountsInv, NEW k \in Keys, TouchLastUsed(k)
  PROVE  touches' \in [Keys -> 0..MaxTouches] /\ UNCHANGED <<now, users, tokens, req>>
<1>1. touches[k] \in 0..MaxTouches /\ touches[k] > 0
  BY DEF AccountsInv, TypeOK, TouchLastUsed
<1> QED
  BY <1>1, AccountsAssumption DEF AccountsInv, TypeOK, TouchLastUsed

LEMMA AccountsNextInv == AccountsInv /\ [Next]_vars => AccountsInv'
<1> SUFFICES ASSUME AccountsInv, [Next]_vars PROVE AccountsInv'
  OBVIOUS
<1>1. keys' \in [Keys -> Key] /\ HoldersOK' /\ Onward
  BY NextOnward
<1> DEFINE Kept == /\ now' \in 0..MaxTime /\ users' \subseteq Users
                   /\ tokens' \in [Users -> Nat \cup {None}]
                   /\ touches' \in [Keys -> 0..MaxTouches]
           Done == Kept /\ req' \in [Requests -> Request] /\ ReqsOK'
<1>2. ASSUME UNCHANGED <<now, users, tokens, touches>> PROVE Kept
  BY <1>2 DEF AccountsInv, TypeOK
<1>3. ASSUME Tick \/ \E u \in Users : Register(u) \/ RegisterFails(u) \/ Login(u)
      PROVE  Done
  <2>1. UNCHANGED <<touches, req>>
    BY <1>3 DEF Tick, Register, RegisterFails, Login
  <2>2. now' \in 0..MaxTime /\ users' \subseteq Users
    BY <1>3, AccountsAssumption DEF AccountsInv, TypeOK, Tick, Register, RegisterFails, Login
  <2>3. tokens' \in [Users -> Nat \cup {None}]
    BY <1>3, AccountsAssumption DEF AccountsInv, TypeOK, Tick, Register, RegisterFails, Login,
                                    issueToken
  <2> QED
    BY <1>1, <2>1, <2>2, <2>3, RequestsAlone DEF AccountsInv, TypeOK
<1>4. ASSUME NEW r \in Requests, NEW u \in Users, ArriveWithToken(r, u) PROVE Done
  BY <1>1, <1>2, <1>4, ArriveWithTokenOK DEF ArriveWithToken
<1>5. ASSUME NEW r \in Requests, NEW k \in Keys, ArriveWithKey(r, k) PROVE Done
  BY <1>1, <1>2, <1>5, ArriveWithKeyOK DEF ArriveWithKey
<1>6. ASSUME NEW r \in Requests, LookupKey(r) PROVE Done
  BY <1>1, <1>2, <1>6, LookupKeyOK DEF LookupKey
<1>7. ASSUME NEW r \in Requests, CheckExpiry(r) PROVE Done
  BY <1>1, <1>7, CheckExpiryOK DEF CheckExpiry, AccountsInv, TypeOK
<1>8. ASSUME NEW r \in Requests, EndRequest(r) PROVE Done
  BY <1>1, <1>2, <1>8, FinishOK DEF EndRequest
<1>9. ASSUME NEW r \in Requests, NEW k \in Keys, CreateKey(r, k) \/ DeleteKey(r, k) PROVE Done
  BY <1>1, <1>2, <1>9, FinishOK DEF CreateKey, DeleteKey
<1>10. ASSUME NEW k \in Keys, TouchLastUsed(k) PROVE Done
  <2>1. touches' \in [Keys -> 0..MaxTouches] /\ UNCHANGED <<now, users, tokens, req>>
    BY <1>10, TouchesOK
  <2> QED
    BY <1>1, <2>1, RequestsAlone DEF AccountsInv, TypeOK
<1>11. ASSUME Crash PROVE Done
  <2>1. Kept
    BY <1>11, AccountsAssumption DEF Crash, AccountsInv, TypeOK
  <2>2. NoRequest \in Request
    BY DEF NoRequest, Request
  <2>3. req' \in [Requests -> Request] /\ \A q \in Requests : req'[q] = NoRequest
    BY <1>11, <2>2 DEF Crash
  <2>4. ReqsOK'
    BY <2>3 DEF ReqsOK, ReqOK, NoRequest
  <2> QED
    BY <2>1, <2>3, <2>4
<1>12. ASSUME UNCHANGED vars PROVE Done
  BY <1>1, <1>2, <1>12, RequestsAlone DEF vars
<1> HIDE DEF Kept
<1>13. Done
  BY <1>3, <1>4, <1>5, <1>6, <1>7, <1>8, <1>9, <1>10, <1>11, <1>12, Zenon DEF Next, RequestStep
<1> QED
  BY <1>1, <1>13 DEF Kept, AccountsInv, TypeOK

\* Accounts, keys and requests are in order in every state of the system.
THEOREM AccountsInvariance == Spec => []AccountsInv
<1>1. Spec => Init /\ [][Next]_vars
  BY DEF Spec
<1> QED
  BY <1>1, AccountsInitInv, AccountsNextInv, PTL

\* Every variable of the authentication state stays within its type.
THEOREM AccountsTypeCorrect == Spec => []TypeOK
<1>1. AccountsInv => TypeOK
  BY DEF AccountsInv
<1> QED
  BY <1>1, AccountsInvariance, PTL

\* A request that APIKeyAuth lets through presented a key that was good when it
\* arrived, and runs as the owner of that key, who has an account.
THEOREM AdmittedOnlyInTime == Spec => []AdmittedInTime
<1>1. AccountsInv => AdmittedInTime
  BY DEF AccountsInv, ReqsOK, ReqOK, AdmittedInTime
<1> QED
  BY <1>1, AccountsInvariance, PTL

\* APIKeyAuth refuses a key for good: one that is revoked or has expired.
THEOREM RefusalHasCause == Spec => []RefusedForCause
<1>1. AccountsInv => RefusedForCause
  BY DEF AccountsInv, ReqsOK, ReqOK, RefusedForCause
<1> QED
  BY <1>1, AccountsInvariance, PTL

\* A revoked key never comes back: no step, the goroutine of TouchLastUsed
\* included, writes its row again.
THEOREM RevokedStaysRevoked == Spec => RevokedForGood
<1> DEFINE Stays == \A k \in Keys : keys[k].st = "revoked" => keys'[k] = keys[k]
<1>1. AccountsInv /\ [Next]_vars => [Stays]_vars
  BY NextOnward DEF Onward, KeyKept
<1>2. Spec => []AccountsInv /\ [][Next]_vars
  BY AccountsInvariance DEF Spec
<1>3. Spec => [][Stays]_vars
  BY <1>1, <1>2, PTL
<1> QED
  BY <1>3 DEF RevokedForGood


=============================================================================
