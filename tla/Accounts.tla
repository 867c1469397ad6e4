------------------------------ MODULE Accounts ------------------------------
(***************************************************************************)
(* Accounts, tokens and API keys: handlers/auth.go, handlers/apikeys.go,    *)
(* storage/apikey_store.go and the middleware FlexAuth, Auth, APIKeyAuth.   *)
(*                                                                         *)
(* A token is checked by itself against the clock; an API key by reading    *)
(* its row and then looking at the clock.  Once admitted, a request runs    *)
(* its handler without another check, and the goroutine that notes the use  *)
(* of the key runs beside it.                                               *)
(***************************************************************************)
EXTENDS Naturals

CONSTANTS
  Users,         \* users that can register, by their unique email
  Keys,          \* API keys that can be created
  Expiries,      \* values of expires_at clients ask for; None is SQL NULL
  Requests,      \* requests that can be under way at a time
  MaxTime,       \* bound on the clock
  TokenLife,     \* jwtExpiryHours, in ticks of the clock
  MaxTouches,    \* bound on the TouchLastUsed goroutines of a key
  CallsMayFail,  \* whether SQL statements may return errors
  MayStop,       \* whether the process may crash
  None           \* SQL NULL, no user, no key

ASSUME AccountsAssumption ==
  /\ MaxTime \in Nat /\ TokenLife \in Nat /\ MaxTouches \in Nat
  /\ Expiries \subseteq Nat \cup {None}
  /\ CallsMayFail \in BOOLEAN /\ MayStop \in BOOLEAN
  /\ None \notin Users \cup Keys \cup Nat

VARIABLES
  now,      \* the clock
  users,    \* table users
  tokens,   \* expiry of the last token issued to each user; None before
  keys,     \* table api_keys
  touches,  \* TouchLastUsed goroutines that have not run yet, by key
  req       \* requests under way

vars == <<now, users, tokens, keys, touches, req>>

-----------------------------------------------------------------------------
(* Rows and requests. *)

\* A lost key has a row, but its creation was answered with an error, so that no
\* one holds it.  used: last_used_at is not NULL.
Key == [st : {"unused", "live", "lost", "revoked"}, owner : Users \cup {None},
        expires : Nat \cup {None}, used : BOOLEAN]

NoKey == [st |-> "unused", owner |-> None, expires |-> None, used |-> FALSE]

\* key: the API key of the request, None when it has a Bearer token.  dead: the key
\* was revoked or had expired when the request arrived.  A request whose lookup
\* errs is answered 401 like one that is refused.
Request == [step : {"idle", "lookup", "expiry", "run", "refused", "errored"},
            key : Keys \cup {None}, dead : BOOLEAN, user : Users \cup {None}]

NoRequest == [step |-> "idle", key |-> None, dead |-> FALSE, user |-> None]

InTable(k) == keys[k].st \in {"live", "lost"}

\* time.Now().After(expires_at): a key is still good at the instant it expires.
Expired(k) == keys[k].expires # None /\ now > keys[k].expires

Init ==
  /\ now = 0
  /\ users = {}
  /\ tokens = [u \in Users |-> None]
  /\ keys = [k \in Keys |-> NoKey]
  /\ touches = [k \in Keys |-> 0]
  /\ req = [r \in Requests |-> NoRequest]

Tick == now < MaxTime /\ now' = now + 1 /\ UNCHANGED <<users, tokens, keys, touches, req>>

-----------------------------------------------------------------------------
(* Register and Login. *)

\* Older tokens of the user expire no later, and are not kept.
issueToken(u) == tokens' = [tokens EXCEPT ![u] = now + TokenLife]

\* One INSERT; the UNIQUE constraint on the email refuses a second account.
Register(u) ==
  /\ u \notin users
  /\ users' = users \cup {u}
  /\ issueToken(u)
  /\ UNCHANGED <<now, keys, touches, req>>

\* The INSERT is committed but its answer is lost: the client is told 409, "email
\* already registered", and gets no token.
RegisterFails(u) ==
  /\ CallsMayFail
  /\ u \notin users
  /\ users' = users \cup {u}
  /\ UNCHANGED <<now, tokens, keys, touches, req>>

Login(u) ==
  /\ u \in users
  /\ issueToken(u)
  /\ UNCHANGED <<now, users, keys, touches, req>>

-----------------------------------------------------------------------------
(* FlexAuth: Auth for a Bearer token, else APIKeyAuth. *)

\* A Bearer token decides, valid or not, also when the request has an API key.
ArriveWithToken(r, u) ==
  /\ req[r].step = "idle"
  /\ tokens[u] # None
  /\ req' = [req EXCEPT ![r] = IF now < tokens[u] THEN [NoRequest EXCEPT !.step = "run", !.user = u]
                               ELSE [NoRequest EXCEPT !.step = "refused"]]
  /\ UNCHANGED <<now, users, tokens, keys, touches>>

\* The holder of a key may present it for ever.
ArriveWithKey(r, k) ==
  /\ req[r].step = "idle"
  /\ keys[k].st \in {"live", "revoked"}
  /\ req' = [req EXCEPT ![r] = [NoRequest EXCEPT !.step = "lookup", !.key = k,
                                  !.dead = keys[k].st = "revoked" \/ Expired(k)]]
  /\ UNCHANGED <<now, users, tokens, keys, touches>>

\* Mutation: the key is found in a cache that a revocation does not clear.
LookupKeyCached(r) ==
  /\ req[r].step = "lookup"
  /\ req' = [req EXCEPT ![r].step = "expiry"]
  /\ UNCHANGED <<now, users, tokens, keys, touches>>

\* GetByHash reads the row.
LookupKey(r) ==
  /\ req[r].step = "lookup"
  /\ \/ req' = [req EXCEPT ![r].step = IF InTable(req[r].key) THEN "expiry" ELSE "refused"]
     \/ CallsMayFail /\ req' = [req EXCEPT ![r].step = "errored"]
  /\ UNCHANGED <<now, users, tokens, keys, touches>>

\* Mutation: a key is refused at the instant it expires.
CheckExpiryAtInstant(r) ==
  LET k == req[r].key IN
  /\ req[r].step = "expiry"
  /\ keys[k].expires # None /\ now >= keys[k].expires
  /\ req' = [req EXCEPT ![r].step = "refused"]
  /\ UNCHANGED <<now, users, tokens, keys, touches>>

\* GetByHash looks at the clock; an admitted request starts TouchLastUsed.
CheckExpiry(r) ==
  LET k == req[r].key IN
  /\ req[r].step = "expiry"
  /\ \/ /\ Expired(k)
        /\ req' = [req EXCEPT ![r].step = "refused"]
        /\ UNCHANGED touches
     \/ /\ ~Expired(k) /\ touches[k] < MaxTouches
        /\ req' = [req EXCEPT ![r].step = "run", ![r].user = keys[k].owner]
        /\ touches' = [touches EXCEPT ![k] = @ + 1]
  /\ UNCHANGED <<now, users, tokens, keys>>

\* Mutation: the row as it was read is saved again.
TouchSavesRow(k) ==
  /\ touches[k] > 0
  /\ touches' = [touches EXCEPT ![k] = @ - 1]
  /\ keys' = [keys EXCEPT ![k].st = "live", ![k].used = TRUE]
  /\ UNCHANGED <<now, users, tokens, req>>

\* Mutation: the goroutine runs once more than requests were admitted.
TouchTwice(k) ==
  /\ touches' = [touches EXCEPT ![k] = @ - 1]
  /\ UNCHANGED <<now, users, tokens, keys, req>>

\* UPDATE ... WHERE id = k: no row, no change; an error is dropped.
TouchLastUsed(k) ==
  /\ touches[k] > 0
  /\ touches' = [touches EXCEPT ![k] = @ - 1]
  /\ \/ keys' = [keys EXCEPT ![k].used = InTable(k) \/ @]
     \/ CallsMayFail /\ UNCHANGED keys
  /\ UNCHANGED <<now, users, tokens, req>>

-----------------------------------------------------------------------------
(* Handlers of an admitted request. *)

Finish(r) == req' = [req EXCEPT ![r] = NoRequest]

\* An INSERT whose answer is lost leaves a key that no one holds.
CreateKey(r, k) ==
  /\ req[r].step = "run"
  /\ keys[k].st = "unused"
  /\ \E expires \in Expiries, st \in {"live", "lost"} :
       /\ st = "lost" => CallsMayFail
       /\ keys' = [keys EXCEPT ![k] = [NoKey EXCEPT !.st = st, !.owner = req[r].user,
                                                    !.expires = expires]]
  /\ Finish(r)
  /\ UNCHANGED <<now, users, tokens, touches>>

\* DELETE ... WHERE id = k AND user_id = user: another user's key is not found.
DeleteKey(r, k) ==
  /\ req[r].step = "run"
  /\ InTable(k) /\ keys[k].owner = req[r].user
  /\ keys' = [keys EXCEPT ![k].st = "revoked"]
  /\ Finish(r)
  /\ UNCHANGED <<now, users, tokens, touches>>

\* Mutation: a handler waits for ever.
EndRequestHangs(r) ==
  /\ req[r].step \in {"refused", "errored"}
  /\ Finish(r)
  /\ UNCHANGED <<now, users, tokens, keys, touches>>

\* Any other handler, List included, and the answer to a request that was refused.
EndRequest(r) ==
  /\ req[r].step \in {"run", "refused", "errored"}
  /\ Finish(r)
  /\ UNCHANGED <<now, users, tokens, keys, touches>>

Crash ==
  /\ MayStop
  /\ req' = [r \in Requests |-> NoRequest]
  /\ touches' = [k \in Keys |-> 0]
  /\ UNCHANGED <<now, users, tokens, keys>>

RequestStep(r) ==
  \/ LookupKey(r) \/ CheckExpiry(r) \/ EndRequest(r)
  \/ \E k \in Keys : CreateKey(r, k) \/ DeleteKey(r, k)

Next ==
  \/ Tick
  \/ \E u \in Users : Register(u) \/ RegisterFails(u) \/ Login(u)
  \/ \E r \in Requests : \/ \E u \in Users : ArriveWithToken(r, u)
                         \/ \E k \in Keys : ArriveWithKey(r, k)
                         \/ RequestStep(r)
  \/ \E k \in Keys : TouchLastUsed(k)
  \/ Crash

Spec == Init /\ [][Next]_vars

\* Statements and handlers return, and goroutines get to run.
FairSpec ==
  /\ Spec
  /\ \A r \in Requests : WF_vars(RequestStep(r))
  /\ \A k \in Keys : WF_vars(TouchLastUsed(k))

-----------------------------------------------------------------------------
(* Properties. *)

\* Every variable stays within its type.
TypeOK ==
  /\ now \in 0..MaxTime
  /\ users \subseteq Users
  /\ tokens \in [Users -> Nat \cup {None}]
  /\ keys \in [Keys -> Key]
  /\ touches \in [Keys -> 0..MaxTouches]
  /\ req \in [Requests -> Request]

\* A request that runs with an API key arrived while the key was neither revoked
\* nor expired, and runs as the owner of the key, who has an account: the check at
\* the start may be overtaken by a revocation, but never the other way round.
AdmittedInTime ==
  \A r \in Requests :
    req[r].step = "run" =>
      /\ req[r].user \in users
      /\ req[r].key # None => ~req[r].dead /\ keys[req[r].key].owner = req[r].user

\* A request that APIKeyAuth refuses, other than for an error of the database,
\* presented a key that was revoked or has expired: no key is refused that could
\* be used again later.
RefusedForCause ==
  \A r \in Requests :
    req[r].step = "refused" /\ req[r].key # None =>
      keys[req[r].key].st = "revoked" \/ Expired(req[r].key)

\* A revoked key never comes back, and its row is never written again, also when a
\* TouchLastUsed goroutine of an earlier request runs after the revocation.
RevokedForGood ==
  [][\A k \in Keys : keys[k].st = "revoked" => keys'[k] = keys[k]]_vars

\* A revocation takes hold: after the requests it overtook have ended, no request
\* runs with the key any more, however often the key is presented.
RevocationTakesHold ==
  \A k \in Keys :
    keys[k].st = "revoked" ~> [](\A r \in Requests : req[r].step = "run" => req[r].key # k)

=============================================================================
