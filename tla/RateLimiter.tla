----------------------------- MODULE RateLimiter -----------------------------
(***************************************************************************)
(* The per-user sliding window in front of POST /documents/upload           *)
(* (middleware/ratelimit.go).  allow reads the clock BEFORE it takes the    *)
(* mutex, so the requests that wait for it hold time-stamps of the past;    *)
(* everything after the lock is one step.  A slice of time-stamps is        *)
(* modelled by the set of admitted requests the time-stamps belong to: the  *)
(* code never looks at their order.                                         *)
(***************************************************************************)
EXTENDS Integers, FiniteSets

CONSTANTS
  Users,     \* authenticated users
  Requests,  \* requests that reach the limiter (each one once)
  Limit,     \* RATE_LIMIT_UPLOADS_PER_MINUTE
  Window,    \* the window (time.Minute), in ticks of the clock
  MaxDelay,  \* longest time a goroutine stays between time.Now() and Lock()
  MaxClock,  \* bound on the clock
  None       \* no value

ASSUME RateLimiterAssumption ==
  /\ Limit \in Nat /\ Window \in Nat /\ MaxDelay \in Nat /\ MaxClock \in Nat
  /\ None \notin Users \cup Int

VARIABLES
  clock,    \* time.Now()
  req,      \* the requests
  windows,  \* rl.windows: requests whose time-stamps each user's slice holds
  cleaner   \* cutoff of the clean-up that waits for the mutex

vars == <<clock, req, windows, cleaner>>

-----------------------------------------------------------------------------
(* now: the time-stamp allow has read.  at: when it was answered. *)

NoRequest(st) == [st |-> st, user |-> None, now |-> None, at |-> None]

Request ==
  {NoRequest("new"), NoRequest("gone")}
    \cup [st : {"waiting"}, user : Users, now : Int, at : {None}]
    \cup [st : {"admitted", "rejected"}, user : Users, now : Int, at : Int]

Init ==
  /\ clock = 0
  /\ req = [q \in Requests |-> NoRequest("new")]
  /\ windows = [u \in Users |-> {}]
  /\ cleaner = None

\* The clock ticks; MaxDelay is what the Go scheduler is assumed to keep.
Tick ==
  /\ clock < MaxClock
  /\ \A q \in Requests : req[q].st = "waiting" => clock < req[q].now + MaxDelay
  /\ clock' = clock + 1
  /\ UNCHANGED <<req, windows, cleaner>>

\* Mutation: the limiter runs before the user is known.
ArriveAnonymous(q, u) ==
  /\ req[q].st = "new"
  /\ req' = [req EXCEPT ![q] = [st |-> "waiting", user |-> None, now |-> clock, at |-> None]]
  /\ UNCHANGED <<clock, windows, cleaner>>

\* allow, up to the lock.  FlexAuth has set the user, or has answered 401 itself, so
\* Limit's bypass of an empty user id is never taken.
Arrive(q, u) ==
  /\ req[q].st = "new"
  /\ req' = [req EXCEPT ![q] = [st |-> "waiting", user |-> u, now |-> clock, at |-> None]]
  /\ UNCHANGED <<clock, windows, cleaner>>

\* The time-stamps after the cutoff of a request that has read now.
Valid(u, now) == {p \in windows[u] : req[p].now > now - Window}

\* Mutation: rejected at one request below the limit.
RejectEarly(q) ==
  LET valid == Valid(req[q].user, req[q].now) IN
  /\ req[q].st = "waiting"
  /\ Cardinality(valid) + 1 >= Limit
  /\ windows' = [windows EXCEPT ![req[q].user] = valid]
  /\ req' = [req EXCEPT ![q].st = "rejected", ![q].at = clock]
  /\ UNCHANGED <<clock, cleaner>>

\* allow returns false and the request is answered 429.
Reject(q) ==
  LET valid == Valid(req[q].user, req[q].now) IN
  /\ req[q].st = "waiting"
  /\ Cardinality(valid) >= Limit
  /\ windows' = [windows EXCEPT ![req[q].user] = valid]
  /\ req' = [req EXCEPT ![q].st = "rejected", ![q].at = clock]
  /\ UNCHANGED <<clock, cleaner>>

\* Mutation: the limit is compared with > instead of >=.
AdmitOneMore(q) ==
  LET valid == Valid(req[q].user, req[q].now) IN
  /\ req[q].st = "waiting"
  /\ Cardinality(valid) <= Limit
  /\ windows' = [windows EXCEPT ![req[q].user] = valid \cup {q}]
  /\ req' = [req EXCEPT ![q].st = "admitted", ![q].at = clock]
  /\ UNCHANGED <<clock, cleaner>>

\* allow returns true, with the time-stamp it read appended.
Admit(q) ==
  LET valid == Valid(req[q].user, req[q].now) IN
  /\ req[q].st = "waiting"
  /\ Cardinality(valid) < Limit
  /\ windows' = [windows EXCEPT ![req[q].user] = valid \cup {q}]
  /\ req' = [req EXCEPT ![q].st = "admitted", ![q].at = clock]
  /\ UNCHANGED <<clock, cleaner>>

\* cleanup computes its cutoff before it takes the mutex ...
CleanupTick ==
  /\ cleaner = None
  /\ cleaner' = clock - Window
  /\ UNCHANGED <<clock, req, windows>>

\* ... and deletes the users who have no time-stamp after it.
Cleanup ==
  /\ cleaner # None
  /\ windows' = [u \in Users |-> IF \E p \in windows[u] : req[p].now > cleaner
                                 THEN windows[u] ELSE {}]
  /\ cleaner' = None
  /\ UNCHANGED <<clock, req>>

\* The process is started again: the limiter is in-process and is empty.
Restart ==
  /\ \E q \in Requests : req[q].st \notin {"new", "gone"}
  /\ req' = [q \in Requests |-> IF req[q].st = "new" THEN req[q] ELSE NoRequest("gone")]
  /\ windows' = [u \in Users |-> {}]
  /\ cleaner' = None
  /\ UNCHANGED clock

Next ==
  \/ Tick
  \/ \E q \in Requests :
       \/ \E u \in Users : Arrive(q, u)
       \/ Reject(q)
       \/ Admit(q)
  \/ CleanupTick
  \/ Cleanup
  \/ Restart

Spec == Init /\ [][Next]_vars

-----------------------------------------------------------------------------
(* Properties. *)

Admitted(u) == {q \in Requests : req[q].st = "admitted" /\ req[q].user = u}

\* Every variable stays within its type.
TypeOK ==
  /\ clock \in Nat
  /\ req \in [Requests -> Request]
  /\ windows \in [Users -> SUBSET Requests]
  /\ cleaner \in Int \cup {None}

\* What NewRateLimiter promises ("max 10 requests per user per minute"), as far
\* as allow can keep it: since the process started, no user was let through more
\* than Limit times within any Window - MaxDelay, however the requests wait for
\* the mutex and whatever the clean-up deletes.  (Every interval ends at some
\* value of the clock, so the last interval of every state is every interval.)
RateKept ==
  \A u \in Users :
    Cardinality({q \in Admitted(u) : req[q].at > clock - (Window - MaxDelay)}) <= Limit

\* Nobody is turned away without cause: when allow answered 429, the user had
\* been let through at least Limit times in the Window + MaxDelay before.
RejectedForCause ==
  \A q \in Requests :
    req[q].st = "rejected" =>
      Cardinality({p \in Admitted(req[q].user) :
                     /\ req[p].at <= req[q].at
                     /\ req[p].at > req[q].at - (Window + MaxDelay)}) >= Limit

=============================================================================
