-------------------------- MODULE RateLimiterProofs --------------------------
(***************************************************************************)
(* RateKept and RejectedForCause hold for every number of users and         *)
(* requests, every limit and every window.  The idea: a slice may lack      *)
(* time-stamps of admissions only when they are older than the window,      *)
(* because every cutoff ever used was computed from a clock not ahead of    *)
(* the present one.                                                         *)
(***************************************************************************)
EXTENDS RateLimiter, FiniteSetTheorems, TLAPS

\* Time-stamps: how late a request can be when it is answered.
StampsOK ==
  \A q \in Requests :
    /\ req[q].st = "waiting" => req[q].now <= clock /\ clock <= req[q].now + MaxDelay
    /\ req[q].st \in {"admitted", "rejected"} =>
         /\ req[q].at <= clock
         /\ req[q].now <= req[q].at
         /\ req[q].at <= req[q].now + MaxDelay

\* A slice holds admissions of its user only, at most Limit of them ...
SlicesOK ==
  \A u \in Users :
    /\ IsFiniteSet(Admitted(u))
    /\ windows[u] \subseteq Admitted(u)
    /\ Cardinality(windows[u]) <= Limit

\* ... and every one that is younger than the window.
SlicesCover ==
  \A u \in Users : \A q \in Admitted(u) :
    req[q].now > clock - Window => q \in windows[u]

CleanerOK == cleaner # None => cleaner <= clock - Window

IInv == TypeOK /\ StampsOK /\ SlicesOK /\ SlicesCover /\ CleanerOK /\ RejectedForCause

\* The admissions that RejectedForCause counts for a rejected request.
Cause(q) ==
  {p \in Admitted(req[q].user) :
     req[p].at <= req[q].at /\ req[p].at > req[q].at - (Window + MaxDelay)}

-----------------------------------------------------------------------------

\* The fields of a request that are there in each of its states.
LEMMA RequestFields ==
  ASSUME TypeOK, NEW q \in Requests
  PROVE  /\ req[q].st \in {"new", "waiting", "admitted", "rejected", "gone"}
         /\ req[q].st = "waiting" =>
              /\ req[q].user \in Users /\ req[q].now \in Int
              /\ req[q] = [st |-> "waiting", user |-> req[q].user,
                           now |-> req[q].now, at |-> None]
         /\ req[q].st \in {"admitted", "rejected"} =>
              req[q].user \in Users /\ req[q].now \in Int /\ req[q].at \in Int
  <1>1. req[q] \in Request
    BY DEF TypeOK
  <1>2. CASE req[q] \in {NoRequest("new"), NoRequest("gone")}
    BY <1>2 DEF NoRequest
  <1>3. CASE req[q] \in [st : {"waiting"}, user : Users, now : Int, at : {None}]
    BY <1>3
  <1>4. CASE req[q] \in [st : {"admitted", "rejected"}, user : Users, now : Int, at : Int]
    BY <1>4
  <1> QED
    BY <1>1, <1>2, <1>3, <1>4 DEF Request

\* The limiter starts in a state that satisfies the inductive invariant.
LEMMA InitIInv == Init => IInv
  <1> SUFFICES ASSUME Init PROVE IInv
    OBVIOUS
  <1>1. \A q \in Requests : req[q] = NoRequest("new") /\ req[q].st = "new"
    BY DEF Init, NoRequest
  <1>2. TypeOK
    BY RateLimiterAssumption DEF Init, TypeOK, Request
  <1>3. \A u \in Users : Admitted(u) = {} /\ windows[u] = {}
    BY <1>1 DEF Admitted, Init
  <1>4. SlicesOK
    BY <1>3, FS_EmptySet, RateLimiterAssumption DEF SlicesOK
  <1>5. StampsOK /\ SlicesCover /\ CleanerOK /\ RejectedForCause
    BY <1>1, <1>3 DEF StampsOK, SlicesCover, CleanerOK, RejectedForCause, Init
  <1> QED
    BY <1>2, <1>4, <1>5 DEF IInv

\* Counting the cause of a rejection: it can only grow while the process lives.
LEMMA CauseKept ==
  ASSUME IInv, NEW q \in Requests, req[q].st = "rejected",
         req'[q] = req[q],
         \A p \in Requests : req[p].st = "admitted" => req'[p] = req[p],
         \A u \in Users : IsFiniteSet(Admitted(u)')
  PROVE  Cardinality(Cause(q)') >= Limit
  <1> USE RateLimiterAssumption
  <1>1. req[q].user \in Users
    BY RequestFields DEF IInv
  <1>2. Cause(q) \subseteq Cause(q)'
    BY <1>1 DEF Cause, Admitted
  <1>3. IsFiniteSet(Cause(q)')
    <2>1. Cause(q)' \subseteq Admitted(req[q].user)'
      BY DEF Cause, Admitted
    <2> QED
      BY <1>1, <2>1, FS_Subset
  <1>4. Cardinality(Cause(q)) >= Limit
    BY DEF IInv, RejectedForCause, Cause
  <1>5. IsFiniteSet(Cause(q)) /\ Cardinality(Cause(q)) <= Cardinality(Cause(q)')
    BY <1>2, <1>3, FS_Subset
  <1> QED
    BY <1>3, <1>4, <1>5, FS_CardinalityType

-----------------------------------------------------------------------------
(* One lemma per action. *)

\* Time moves: slices may hold admissions that have left the window, and a
\* waiting request is never more than MaxDelay late.
LEMMA TickIInv ==
  ASSUME IInv, Tick PROVE IInv'
  <1> USE RateLimiterAssumption DEF IInv, Tick
  <1>1. TypeOK'
    BY DEF TypeOK
  <1>2. StampsOK'
    BY RequestFields DEF StampsOK, TypeOK
  <1>3. \A u \in Users : Admitted(u)' = Admitted(u)
    BY DEF Admitted
  <1>4. SlicesOK'
    BY <1>3 DEF SlicesOK
  <1>5. SlicesCover'
    <2> SUFFICES ASSUME NEW u \in Users, NEW q \in Admitted(u)',
                        req'[q].now > clock' - Window
                 PROVE  q \in windows'[u]
      BY DEF SlicesCover
    <2>1. q \in Admitted(u) /\ q \in Requests /\ req[q].now \in Int
      BY <1>3, RequestFields DEF Admitted
    <2>2. req[q].now > clock - Window
      BY <2>1 DEF TypeOK
    <2> QED
      BY <2>1, <2>2 DEF SlicesCover
  <1>6. CleanerOK'
    BY DEF CleanerOK, TypeOK
  <1>7. RejectedForCause'
    BY DEF RejectedForCause, Admitted
  <1> QED
    BY <1>1, <1>2, <1>4, <1>5, <1>6, <1>7

\* A request reads the clock and waits for the mutex.
LEMMA ArriveIInv ==
  ASSUME IInv, NEW q \in Requests, NEW u \in Users, Arrive(q, u) PROVE IInv'
  <1> USE RateLimiterAssumption DEF IInv
  <1>1. /\ req'[q] = [st |-> "waiting", user |-> u, now |-> clock, at |-> None]
        /\ \A p \in Requests : p # q => req'[p] = req[p]
        /\ req[q].st = "new"
        /\ clock' = clock /\ windows' = windows /\ cleaner' = cleaner
    BY DEF Arrive, TypeOK
  <1>2. TypeOK'
    BY DEF Arrive, TypeOK, Request
  <1>3. StampsOK'
    BY <1>1 DEF StampsOK, TypeOK
  <1>4. \A v \in Users : Admitted(v)' = Admitted(v)
    BY <1>1 DEF Admitted
  <1>5. SlicesOK'
    BY <1>1, <1>4 DEF SlicesOK
  <1>6. SlicesCover'
    BY <1>1, <1>4 DEF SlicesCover, Admitted
  <1>7. CleanerOK'
    BY <1>1 DEF CleanerOK
  <1>8. RejectedForCause'
    <2> SUFFICES ASSUME NEW p \in Requests, req'[p].st = "rejected"
                 PROVE  Cardinality(Cause(p)') >= Limit
      BY DEF RejectedForCause, Cause
    <2> QED
      BY <1>1, <1>5, CauseKept DEF SlicesOK
  <1> QED
    BY <1>2, <1>3, <1>5, <1>6, <1>7, <1>8

\* What allow keeps of a slice: a finite part of it, and nothing is lost that is
\* younger than the window, because now is not ahead of the clock.
LEMMA ValidPart ==
  ASSUME IInv, NEW q \in Requests, req[q].st = "waiting"
  PROVE  LET u == req[q].user
             valid == Valid(u, req[q].now)
         IN /\ u \in Users
            /\ valid \subseteq windows[u] /\ valid \subseteq Admitted(u)
            /\ IsFiniteSet(valid) /\ Cardinality(valid) \in Nat
            /\ Cardinality(valid) <= Limit
            /\ \A p \in Admitted(u) : req[p].now > clock - Window => p \in valid
  <1> USE RateLimiterAssumption DEF IInv
  <1> DEFINE u == req[q].user
             valid == Valid(u, req[q].now)
  <1>1. u \in Users /\ req[q].now \in Int
    BY RequestFields
  <1>2. valid \subseteq windows[u] /\ valid \subseteq Admitted(u)
    BY <1>1 DEF Valid, SlicesOK
  <1>3. IsFiniteSet(windows[u]) /\ IsFiniteSet(valid)
    BY <1>1, <1>2, FS_Subset DEF SlicesOK
  <1>4. Cardinality(valid) <= Cardinality(windows[u])
    BY <1>2, <1>3, FS_Subset
  <1>5. Cardinality(valid) \in Nat /\ Cardinality(windows[u]) \in Nat
    BY <1>3, FS_CardinalityType
  <1>6. Cardinality(valid) <= Limit
    BY <1>1, <1>4, <1>5 DEF SlicesOK
  <1>7. ASSUME NEW p \in Admitted(u), req[p].now > clock - Window PROVE p \in valid
    <2>1. p \in windows[u] /\ req[p].now \in Int
      BY <1>1, <1>7, RequestFields DEF SlicesCover, Admitted
    <2>2. req[q].now <= clock
      BY DEF StampsOK
    <2> QED
      BY <1>1, <1>7, <2>1, <2>2 DEF Valid, TypeOK
  <1> QED
    BY <1>1, <1>2, <1>3, <1>5, <1>6, <1>7

\* The parts of the invariant that answering a request keeps in the same way
\* whether it is admitted or rejected.
LEMMA Answered ==
  ASSUME IInv, NEW q \in Requests, req[q].st = "waiting",
         NEW st \in {"admitted", "rejected"},
         req' = [req EXCEPT ![q].st = st, ![q].at = clock],
         clock' = clock, cleaner' = cleaner
  PROVE  /\ req' \in [Requests -> Request]
         /\ req'[q].st = st /\ req'[q].at = clock
         /\ req'[q].now = req[q].now /\ req'[q].user = req[q].user
         /\ \A p \in Requests : p # q => req'[p] = req[p]
         /\ StampsOK' /\ CleanerOK'
  <1> USE RateLimiterAssumption DEF IInv
  <1>1. req'[q] = [st |-> st, user |-> req[q].user, now |-> req[q].now, at |-> clock]
    BY RequestFields DEF TypeOK
  <1>2. \A p \in Requests : p # q => req'[p] = req[p]
    BY DEF TypeOK
  <1>3. req'[q] \in Request
    BY <1>1, RequestFields DEF Request, TypeOK
  <1>4. req' \in [Requests -> Request]
    BY <1>2, <1>3 DEF TypeOK
  <1>5. StampsOK'
    BY <1>1, <1>2 DEF StampsOK, TypeOK
  <1> QED
    BY <1>1, <1>2, <1>4, <1>5 DEF CleanerOK

\* A request is turned away: the time-stamps it counted are its cause.
LEMMA RejectIInv ==
  ASSUME IInv, NEW q \in Requests, Reject(q) PROVE IInv'
  <1> USE RateLimiterAssumption
  <1> DEFINE u == req[q].user
             valid == Valid(u, req[q].now)
  <1>1. /\ req[q].st = "waiting" /\ Cardinality(valid) >= Limit
        /\ windows' = [windows EXCEPT ![u] = valid]
        /\ req' = [req EXCEPT ![q].st = "rejected", ![q].at = clock]
        /\ clock' = clock /\ cleaner' = cleaner
    BY DEF Reject
  <1>2. /\ req' \in [Requests -> Request]
        /\ req'[q].st = "rejected" /\ req'[q].at = clock
        /\ req'[q].now = req[q].now /\ req'[q].user = u
        /\ \A p \in Requests : p # q => req'[p] = req[p]
        /\ StampsOK' /\ CleanerOK'
    BY <1>1, Answered
  <1>3. /\ u \in Users
        /\ valid \subseteq windows[u] /\ valid \subseteq Admitted(u)
        /\ IsFiniteSet(valid) /\ Cardinality(valid) \in Nat
        /\ Cardinality(valid) <= Limit
        /\ \A p \in Admitted(u) : req[p].now > clock - Window => p \in valid
    BY <1>1, ValidPart
  <1>4. /\ windows' \in [Users -> SUBSET Requests] /\ windows'[u] = valid
        /\ \A v \in Users : v # u => windows'[v] = windows[v]
    BY <1>1, <1>3 DEF IInv, TypeOK, Admitted
  <1>5. TypeOK'
    BY <1>1, <1>2, <1>4 DEF IInv, TypeOK
  <1>6. \A v \in Users : Admitted(v)' = Admitted(v)
    BY <1>1, <1>2 DEF Admitted
  <1>7. SlicesOK'
    BY <1>3, <1>4, <1>6 DEF IInv, SlicesOK
  <1>8. SlicesCover'
    <2> SUFFICES ASSUME NEW v \in Users, NEW p \in Admitted(v)',
                        req'[p].now > clock' - Window
                 PROVE  p \in windows'[v]
      BY DEF SlicesCover
    <2>1. p \in Admitted(v) /\ req'[p] = req[p]
      BY <1>1, <1>2, <1>6 DEF Admitted
    <2> QED
      BY <1>1, <1>3, <1>4, <2>1 DEF IInv, SlicesCover
  <1>9. RejectedForCause'
    <2> SUFFICES ASSUME NEW p \in Requests, req'[p].st = "rejected"
                 PROVE  Cardinality(Cause(p)') >= Limit
      BY DEF RejectedForCause, Cause
    <2>1. CASE p # q
      BY <1>1, <1>2, <1>7, <2>1, CauseKept DEF SlicesOK
    <2>2. CASE p = q
      <3>1. ASSUME NEW x \in valid
            PROVE  x \in Admitted(u)' /\ x \in Requests /\ req'[x] = req[x]
        BY <1>1, <1>2, <1>3, <1>6 DEF Admitted
      <3>2. ASSUME NEW x \in valid
            PROVE  /\ req[x].at \in Int /\ req[x].now \in Int /\ req[q].now \in Int
                   /\ req[x].at <= clock /\ req[x].now <= req[x].at
                   /\ req[x].now > req[q].now - Window
                   /\ clock <= req[q].now + MaxDelay /\ clock \in Nat
        BY <1>1, <1>3, RequestFields DEF IInv, StampsOK, Admitted, Valid, TypeOK
      <3>3. ASSUME NEW x \in valid
            PROVE  req[x].at <= clock /\ req[x].at > clock - (Window + MaxDelay)
        BY <3>2
      <3>4. valid \subseteq Cause(q)'
        BY <1>2, <3>1, <3>3 DEF Cause
      <3>5. Cause(q)' \subseteq Admitted(u)' /\ IsFiniteSet(Admitted(u)')
        BY <1>2, <1>3, <1>7 DEF Cause, SlicesOK
      <3>6. IsFiniteSet(Cause(q)')
        BY <3>5, FS_Subset
      <3>7. Cardinality(valid) <= Cardinality(Cause(q)')
        BY <3>4, <3>6, FS_Subset
      <3> QED
        BY <1>1, <1>3, <2>2, <3>6, <3>7, FS_CardinalityType
    <2> QED
      BY <2>1, <2>2
  <1> QED
    BY <1>2, <1>5, <1>7, <1>8, <1>9 DEF IInv

\* A request is let through and its time-stamp is appended.
LEMMA AdmitIInv ==
  ASSUME IInv, NEW q \in Requests, Admit(q) PROVE IInv'
  <1> USE RateLimiterAssumption
  <1> DEFINE u == req[q].user
             valid == Valid(u, req[q].now)
  <1>1. /\ req[q].st = "waiting" /\ Cardinality(valid) < Limit
        /\ windows' = [windows EXCEPT ![u] = valid \cup {q}]
        /\ req' = [req EXCEPT ![q].st = "admitted", ![q].at = clock]
        /\ clock' = clock /\ cleaner' = cleaner
    BY DEF Admit
  <1>2. /\ req' \in [Requests -> Request]
        /\ req'[q].st = "admitted" /\ req'[q].at = clock
        /\ req'[q].now = req[q].now /\ req'[q].user = u
        /\ \A p \in Requests : p # q => req'[p] = req[p]
        /\ StampsOK' /\ CleanerOK'
    BY <1>1, Answered
  <1>3. /\ u \in Users
        /\ valid \subseteq windows[u] /\ valid \subseteq Admitted(u)
        /\ IsFiniteSet(valid) /\ Cardinality(valid) \in Nat
        /\ \A p \in Admitted(u) : req[p].now > clock - Window => p \in valid
    BY <1>1, ValidPart
  <1>4. /\ windows' \in [Users -> SUBSET Requests] /\ windows'[u] = valid \cup {q}
        /\ \A v \in Users : v # u => windows'[v] = windows[v]
    BY <1>1, <1>3 DEF IInv, TypeOK, Admitted
  <1>5. TypeOK'
    BY <1>1, <1>2, <1>4 DEF IInv, TypeOK
  <1>6. /\ Admitted(u)' = Admitted(u) \cup {q}
        /\ \A v \in Users : v # u => Admitted(v)' = Admitted(v)
    BY <1>1, <1>2, <1>3 DEF Admitted
  <1> HIDE DEF valid
  <1>7. SlicesOK'
    <2>1. IsFiniteSet(Admitted(u)')
      BY <1>3, <1>6, FS_AddElement DEF IInv, SlicesOK
    <2>2. q \notin valid
      BY <1>1, <1>3 DEF Admitted
    <2>3. Cardinality(valid \cup {q}) = Cardinality(valid) + 1
      BY <1>3, <2>2, FS_AddElement
    <2>4. Cardinality(windows'[u]) <= Limit
      BY <1>1, <1>3, <1>4, <2>3
    <2>5. ASSUME NEW v \in Users
          PROVE  /\ IsFiniteSet(Admitted(v)')
                 /\ windows'[v] \subseteq Admitted(v)'
                 /\ Cardinality(windows'[v]) <= Limit
      <3>1. CASE v = u
        BY <1>2, <1>3, <1>4, <1>6, <2>1, <2>4, <3>1
      <3>2. CASE v # u
        BY <1>4, <1>6, <3>2 DEF IInv, SlicesOK
      <3> QED
        BY <3>1, <3>2
    <2> QED
      BY <2>5 DEF SlicesOK
  <1>8. SlicesCover'
    <2> SUFFICES ASSUME NEW v \in Users, NEW p \in Admitted(v)',
                        req'[p].now > clock' - Window
                 PROVE  p \in windows'[v]
      BY DEF SlicesCover
    <2>1. CASE p = q
      BY <1>2, <1>4, <2>1 DEF Admitted
    <2>2. CASE p # q
      <3>1. p \in Admitted(v) /\ req'[p] = req[p]
        BY <1>2, <2>2 DEF Admitted
      <3> QED
        BY <1>1, <1>3, <1>4, <3>1 DEF IInv, SlicesCover
    <2> QED
      BY <2>1, <2>2
  <1>9. RejectedForCause'
    <2> SUFFICES ASSUME NEW p \in Requests, req'[p].st = "rejected"
                 PROVE  Cardinality(Cause(p)') >= Limit
      BY DEF RejectedForCause, Cause
    <2> QED
      BY <1>1, <1>2, <1>7, CauseKept DEF SlicesOK
  <1> QED
    BY <1>2, <1>5, <1>7, <1>8, <1>9 DEF IInv

\* The clean-up forgets users all of whose time-stamps have left the window.
LEMMA CleanupIInv ==
  ASSUME IInv, Cleanup PROVE IInv'
  <1> USE RateLimiterAssumption DEF IInv
  <1>1. clock' = clock /\ req' = req /\ cleaner' = None /\ cleaner # None
    BY DEF Cleanup
  <1>2. \A u \in Users : Admitted(u)' = Admitted(u)
    BY <1>1 DEF Admitted
  <1>3. TypeOK'
    BY DEF Cleanup, TypeOK
  <1>4. \A u \in Users : windows'[u] \in {windows[u], {}}
    BY DEF Cleanup
  <1>5. SlicesOK'
    <2>1. Cardinality({}) = 0
      BY FS_EmptySet
    <2>2. ASSUME NEW u \in Users
          PROVE  /\ IsFiniteSet(Admitted(u)')
                 /\ windows'[u] \subseteq Admitted(u)'
                 /\ Cardinality(windows'[u]) <= Limit
      <3>1. CASE windows'[u] = {}
        BY <1>2, <2>1, <3>1 DEF SlicesOK
      <3>2. CASE windows'[u] = windows[u]
        BY <1>2, <3>2 DEF SlicesOK
      <3> QED
        BY <1>4, <3>1, <3>2
    <2> QED
      BY <2>2 DEF SlicesOK
  <1>6. SlicesCover'
    <2> SUFFICES ASSUME NEW u \in Users, NEW q \in Admitted(u), req[q].now > clock - Window
                 PROVE  q \in windows'[u]
      BY <1>1, <1>2 DEF SlicesCover
    <2>1. q \in windows[u] /\ req[q].now \in Int
      BY RequestFields DEF SlicesCover, Admitted
    <2>2. req[q].now > cleaner
      BY <1>1, <2>1 DEF CleanerOK, TypeOK
    <2> QED
      BY <2>1, <2>2 DEF Cleanup
  <1>7. StampsOK' /\ CleanerOK' /\ RejectedForCause'
    BY <1>1 DEF StampsOK, CleanerOK, RejectedForCause, Admitted
  <1> QED
    BY <1>3, <1>5, <1>6, <1>7

\* A restart forgets the slices and the requests they are about.
LEMMA RestartIInv ==
  ASSUME IInv, Restart PROVE IInv'
  <1> USE RateLimiterAssumption DEF IInv
  <1>1. /\ clock' = clock /\ cleaner' = None
        /\ windows' = [u \in Users |-> {}]
        /\ \A q \in Requests : req'[q].st \in {"new", "gone"}
    BY DEF Restart, NoRequest
  <1>2. TypeOK'
    BY DEF Restart, TypeOK, Request
  <1>3. \A u \in Users : Admitted(u)' = {}
    BY <1>1 DEF Admitted
  <1>4. SlicesOK'
    BY <1>1, <1>3, FS_EmptySet DEF SlicesOK
  <1>5. StampsOK' /\ SlicesCover' /\ CleanerOK' /\ RejectedForCause'
    BY <1>1, <1>3 DEF StampsOK, SlicesCover, CleanerOK, RejectedForCause
  <1> QED
    BY <1>2, <1>4, <1>5

\* Every step of the limiter keeps the inductive invariant.
LEMMA NextIInv == IInv /\ [Next]_vars => IInv'
  <1> SUFFICES ASSUME IInv, [Next]_vars PROVE IInv'
    OBVIOUS
  <1>1. CASE Tick
    BY <1>1, TickIInv
  <1>2. ASSUME NEW q \in Requests, NEW u \in Users, Arrive(q, u) PROVE IInv'
    BY <1>2, ArriveIInv
  <1>3. ASSUME NEW q \in Requests, Reject(q) PROVE IInv'
    BY <1>3, RejectIInv
  <1>4. ASSUME NEW q \in Requests, Admit(q) PROVE IInv'
    BY <1>4, AdmitIInv
  <1>5. CASE CleanupTick
    <2>1. TypeOK' /\ CleanerOK'
      BY <1>5, RateLimiterAssumption DEF CleanupTick, IInv, TypeOK, CleanerOK
    <2>2. StampsOK' /\ SlicesOK' /\ SlicesCover' /\ RejectedForCause'
      BY <1>5 DEF CleanupTick, IInv, StampsOK, SlicesOK, SlicesCover, RejectedForCause, Admitted
    <2> QED
      BY <2>1, <2>2 DEF IInv
  <1>6. CASE Cleanup
    BY <1>6, CleanupIInv
  <1>7. CASE Restart
    BY <1>7, RestartIInv
  <1>8. CASE UNCHANGED vars
    BY <1>8 DEF vars, IInv, TypeOK, StampsOK, SlicesOK, SlicesCover, CleanerOK,
                RejectedForCause, Admitted
  <1> QED
    BY <1>1, <1>2, <1>3, <1>4, <1>5, <1>6, <1>7, <1>8 DEF Next

\* An admission that RateKept counts is younger than the window by its own
\* time-stamp, so the slice holds it, and the slice is never longer than Limit.
LEMMA IInvRateKept == IInv => RateKept
  <1> SUFFICES ASSUME IInv, NEW u \in Users
               PROVE  Cardinality({q \in Admitted(u) :
                                     req[q].at > clock - (Window - MaxDelay)}) <= Limit
    BY DEF RateKept
  <1> USE RateLimiterAssumption DEF IInv
  <1> DEFINE S == {q \in Admitted(u) : req[q].at > clock - (Window - MaxDelay)}
  <1>1. ASSUME NEW q \in S PROVE q \in windows[u]
    <2>1. /\ q \in Admitted(u) /\ req[q].now \in Int /\ req[q].at \in Int
          /\ req[q].at > clock - (Window - MaxDelay)
          /\ req[q].at <= req[q].now + MaxDelay
      BY RequestFields DEF Admitted, StampsOK
    <2>2. req[q].now > clock - Window
      BY <2>1 DEF TypeOK
    <2> QED
      BY <2>1, <2>2 DEF SlicesCover
  <1>2. IsFiniteSet(windows[u])
    BY FS_Subset DEF SlicesOK
  <1>3. S \subseteq windows[u]
    BY <1>1
  <1> HIDE DEF S
  <1>4. IsFiniteSet(S) /\ Cardinality(S) <= Cardinality(windows[u])
    BY <1>2, <1>3, FS_Subset
  <1>5. Cardinality(S) <= Limit
    BY <1>2, <1>4, FS_CardinalityType DEF SlicesOK
  <1> QED
    BY <1>5 DEF S

-----------------------------------------------------------------------------

\* The state of the limiter is well typed (allow, cleanup, restarts).
THEOREM LimiterTypeCorrect == Spec => []TypeOK
  <1>1. IInv => TypeOK
    BY DEF IInv
  <1> QED
    BY <1>1, InitIInv, NextIInv, PTL DEF Spec

\* allow lets no user through more than Limit times within Window - MaxDelay, for
\* every limit, window and number of requests that wait for the mutex.
THEOREM RateIsKept == Spec => []RateKept
  BY IInvRateKept, InitIInv, NextIInv, PTL DEF Spec

\* allow turns a request away only when its user was let through Limit times
\* within the last Window + MaxDelay.
THEOREM RejectionHasCause == Spec => []RejectedForCause
  <1>1. IInv => RejectedForCause
    BY DEF IInv
  <1> QED
    BY <1>1, InitIInv, NextIInv, PTL DEF Spec

=============================================================================
