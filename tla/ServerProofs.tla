---------------------------- MODULE ServerProofs ----------------------------
(* Proofs about the life of the process and the watchdog's ticker. *)
EXTENDS Server, TLAPS

\* What runMigrations has executed in this start is in the database; past the
\* start-up everything is.
StoresOK ==
  /\ main = "boot" => 1..applied \subseteq schema
  /\ main \in {"prepared", "serving", "draining"} => schema = 1..Migrations /\ bucket

\* The ticker fires next within one interval from now.
TickerOK ==
  watchdog = "running" =>
    /\ Interval > 0
    /\ started \in Nat /\ next \in Nat
    /\ now <= next /\ next <= now + Interval

\* The tick that finds a document too old is the first after it is, or after the
\* start of the ticker; each sweep that fails puts it off by one interval.
Due(c) == next <= Later(c + Timeout, started) + (1 + missed) * Interval

DueOK == watchdog = "running" => \A d \in Docs : created[d] # None => Due(created[d])

ServerInv == TypeOK /\ StoresOK /\ PanicsBelowTwo /\ TickerOK /\ DueOK

-----------------------------------------------------------------------------
(* Arithmetic of the ticker. *)

\* The setting never changes, and there is a ticker from two minutes on.
LEMMA IntervalFacts ==
  ASSUME TypeOK
  PROVE  Timeout \in Int /\ Interval \in Int /\ (Interval > 0 <=> Timeout >= 2)
<1>1. Timeout \in Int
  BY ServerAssumption DEF TypeOK, Timeout
<1> QED
  BY <1>1 DEF Interval

LEMMA SameInterval ==
  ASSUME UNCHANGED setting
  PROVE  Timeout' = Timeout /\ Interval' = Interval
  BY DEF Timeout, Interval

\* The allowance grows by one interval with each sweep that fails.
LEMMA Allowance ==
  ASSUME NEW m \in Nat, NEW i \in Nat
  PROVE  /\ (1 + m) * i \in Nat /\ (1 + m) * i >= i
         /\ (1 + (m + 1)) * i = (1 + m) * i + i
<1>1. m * i \in Nat
  OBVIOUS
<1>2. (1 + m) * i = i + m * i
  OBVIOUS
<1>3. (1 + (m + 1)) * i = i + i + m * i
  OBVIOUS
<1> QED
  BY <1>1, <1>2, <1>3

LEMMA LaterFacts ==
  ASSUME NEW s \in Int, NEW t \in Int
  PROVE  Later(s, t) \in Int /\ Later(s, t) >= s /\ Later(s, t) >= t
  BY DEF Later

LEMMA ServerInitInv == Init => ServerInv
<1> SUFFICES ASSUME Init PROVE ServerInv
  OBVIOUS
<1>1. TypeOK
  BY ServerAssumption DEF Init, TypeOK
<1> QED
  BY <1>1 DEF Init, ServerInv, StoresOK, PanicsBelowTwo, TickerOK, DueOK

-----------------------------------------------------------------------------
(* The steps of main. *)

\* The end of the process.
LEMMA EndInv ==
  ASSUME ServerInv, NEW how \in {"ok", "forced", "fatal", "panic"}, End(how),
         how = "panic" => Timeout < 2
  PROVE  ServerInv'
<1> USE DEF ServerInv, End, storeVars
<1>1. TypeOK'
  BY ServerAssumption DEF TypeOK
<1>2. PanicsBelowTwo'
  BY SameInterval DEF PanicsBelowTwo
<1> QED
  BY <1>1, <1>2 DEF StoresOK, TickerOK, DueOK

\* The steps that leave the watchdog, the documents and the clock alone.
LEMMA WatchKept ==
  ASSUME ServerInv, UNCHANGED <<now, setting, watchVars, created>>
  PROVE  TickerOK' /\ DueOK'
<1>1. Timeout' = Timeout /\ Interval' = Interval
  BY SameInterval
<1> QED
  BY <1>1 DEF ServerInv, watchVars, TickerOK, DueOK, Due

LEMMA BootInv ==
  ASSUME ServerInv, Boot
  PROVE  ServerInv'
<1>1. TypeOK'
  BY ServerAssumption DEF ServerInv, TypeOK, Boot, watchVars
<1>2. TickerOK' /\ DueOK'
  BY WatchKept DEF Boot
<1>3. StoresOK' /\ PanicsBelowTwo'
  BY DEF Boot, StoresOK, PanicsBelowTwo
<1> QED
  BY <1>1, <1>2, <1>3 DEF ServerInv

LEMMA MigrateInv ==
  ASSUME ServerInv, Migrate
  PROVE  ServerInv'
<1>1. applied \in Nat /\ applied' = applied + 1 /\ applied < Migrations /\ Migrations \in Nat
  BY ServerAssumption DEF ServerInv, TypeOK, Migrate
<1>2. TypeOK'
  BY <1>1 DEF ServerInv, TypeOK, Migrate, watchVars
<1>3. TickerOK' /\ DueOK'
  BY WatchKept DEF Migrate
<1>4. 1..applied' \subseteq schema'
  <2>1. 1..applied' = (1..applied) \cup {applied'}
    BY <1>1
  <2> QED
    BY <2>1 DEF ServerInv, StoresOK, Migrate
<1>5. StoresOK' /\ PanicsBelowTwo'
  BY <1>4, SameInterval DEF ServerInv, Migrate, StoresOK, PanicsBelowTwo
<1> QED
  BY <1>2, <1>3, <1>5 DEF ServerInv

LEMMA StartInv ==
  ASSUME ServerInv, EnsureBucket \/ Serve \/ Signal
  PROVE  ServerInv'
<1>1. UNCHANGED <<now, setting, applied, schema, exit, started, next, missed, created, request>>
  BY DEF EnsureBucket, Serve, Signal, storeVars, watchVars
<1>2. TypeOK'
  BY <1>1 DEF ServerInv, TypeOK, EnsureBucket, Serve, Signal, storeVars, watchVars
<1>3. TickerOK' /\ DueOK'
  <2>1. CASE watchdog' = "running"
    BY <1>1, <2>1, WatchKept DEF EnsureBucket, Serve, Signal, watchVars
  <2> QED
    BY <2>1 DEF TickerOK, DueOK
<1>4. StoresOK'
  BY <1>1 DEF ServerInv, TypeOK, StoresOK, EnsureBucket, Serve, Signal, storeVars
<1>5. PanicsBelowTwo'
  BY <1>1, SameInterval DEF ServerInv, PanicsBelowTwo, EnsureBucket, Serve, Signal
<1> QED
  BY <1>2, <1>3, <1>4, <1>5 DEF ServerInv

LEMMA StopInv ==
  ASSUME ServerInv, Fatal \/ Drained \/ DrainTimesOut
  PROVE  ServerInv'
<1>1. CASE Fatal
  BY <1>1, EndInv DEF Fatal
<1>2. CASE Drained
  BY <1>2, EndInv DEF Drained
<1>3. CASE DrainTimesOut
  BY <1>3, EndInv DEF DrainTimesOut
<1> QED
  BY <1>1, <1>2, <1>3

-----------------------------------------------------------------------------
(* Requests and documents. *)

\* What the ticker is worth while it runs.
LEMMA TickerFacts ==
  ASSUME ServerInv, watchdog = "running"
  PROVE  /\ now \in Nat /\ started \in Nat /\ next \in Nat /\ missed \in Nat
         /\ Timeout \in Nat /\ Interval \in Nat
         /\ now <= next /\ next <= now + Interval
<1>1. now \in Nat /\ missed \in Nat
  BY ServerAssumption DEF ServerInv, TypeOK
<1>2. Timeout \in Nat /\ Interval \in Nat
  BY IntervalFacts DEF ServerInv, TickerOK
<1> QED
  BY <1>1, <1>2 DEF ServerInv, TickerOK

\* A document that is created now, or that a sweep now leaves alone, is not late.
LEMMA FreshIsDue ==
  ASSUME NEW t \in Nat, NEW s \in Nat, NEW m \in Nat, NEW out \in Nat, NEW i \in Nat,
         NEW c \in Nat, NEW n \in Nat, n <= t + i, c + out >= t
  PROVE  n <= Later(c + out, s) + (1 + m) * i
<1>1. (1 + m) * i \in Nat /\ (1 + m) * i >= i
  BY Allowance
<1>2. Later(c + out, s) \in Int /\ Later(c + out, s) >= c + out
  BY LaterFacts
<1> QED
  BY <1>1, <1>2

LEMMA RequestInv ==
  ASSUME ServerInv, NEW q \in Requests,
         Arrive(q) \/ Respond(q) \/ \E d \in Docs : CreateDocument(q, d)
  PROVE  ServerInv'
<1>1. /\ UNCHANGED <<now, setting, main, applied, schema, bucket, exit>>
      /\ UNCHANGED <<watchdog, started, next, missed>>
      /\ main \in {"serving", "draining"}
      /\ \E st \in {"idle", "active", "created"} : request' = [request EXCEPT ![q] = st]
  BY DEF Arrive, Respond, CreateDocument, storeVars, watchVars
<1>2. \/ UNCHANGED created
      \/ \E d \in Docs : created' = [created EXCEPT ![d] = now]
  BY DEF Arrive, Respond, CreateDocument
<1>3. now \in Nat
  BY ServerAssumption DEF ServerInv, TypeOK
<1>4. created' \in [Docs -> Nat \cup {None}]
  BY <1>2, <1>3 DEF ServerInv, TypeOK
<1>5. TypeOK'
  BY <1>1, <1>4 DEF ServerInv, TypeOK
<1>6. StoresOK' /\ PanicsBelowTwo'
  BY <1>1, SameInterval DEF ServerInv, TypeOK, StoresOK, PanicsBelowTwo
<1>7. TickerOK'
  BY <1>1, SameInterval DEF ServerInv, TickerOK
<1>8. DueOK'
  <2> SUFFICES ASSUME watchdog = "running", NEW d \in Docs, created'[d] # None
               PROVE  Due(created[d])'
    BY <1>1 DEF DueOK
  <2>1. Due(created[d])' <=> Due(created'[d])
    BY <1>1, SameInterval DEF Due
  <2>2. CASE created'[d] = created[d]
    BY <2>1, <2>2 DEF ServerInv, DueOK
  <2>3. CASE created'[d] = now
    <3>1. /\ started \in Nat /\ next \in Nat /\ missed \in Nat
          /\ Timeout \in Nat /\ Interval \in Nat
          /\ next <= now + Interval /\ now + Timeout >= now
      BY <1>3, TickerFacts
    <3>2. Due(now)
      BY <1>3, <3>1, FreshIsDue DEF Due
    <3> QED
      BY <2>1, <2>3, <3>2
  <2>4. created'[d] = created[d] \/ created'[d] = now
    BY <1>2 DEF ServerInv, TypeOK
  <2> QED
    BY <2>2, <2>3, <2>4
<1> QED
  BY <1>5, <1>6, <1>7, <1>8 DEF ServerInv

LEMMA ProcessedInv ==
  ASSUME ServerInv, NEW d \in Docs, Processed(d)
  PROVE  ServerInv'
<1>1. /\ UNCHANGED <<now, setting, main, applied, schema, bucket, exit, request>>
      /\ UNCHANGED <<watchdog, started, next, missed>>
      /\ created' = [created EXCEPT ![d] = None]
  BY DEF Processed, storeVars, watchVars
<1>2. TypeOK'
  BY <1>1 DEF ServerInv, TypeOK
<1>3. StoresOK' /\ PanicsBelowTwo' /\ TickerOK'
  BY <1>1, SameInterval DEF ServerInv, StoresOK, PanicsBelowTwo, TickerOK
<1>4. DueOK'
  BY <1>1, SameInterval DEF ServerInv, TypeOK, DueOK, Due
<1> QED
  BY <1>2, <1>3, <1>4 DEF ServerInv

-----------------------------------------------------------------------------
(* The watchdog and the clock. *)

LEMMA MakeTickerInv ==
  ASSUME ServerInv, MakeTicker
  PROVE  ServerInv'
<1>1. CASE Interval <= 0 /\ End("panic")
  <2>1. Timeout < 2
    BY <1>1, IntervalFacts DEF ServerInv
  <2> QED
    BY <1>1, <2>1, EndInv
<1>2. CASE /\ Interval > 0
           /\ watchdog' = "running" /\ started' = now /\ next' = now + Interval
           /\ UNCHANGED <<now, setting, main, storeVars, exit, missed, created, request>>
  <2>1. /\ watchdog' = "running" /\ started' = now /\ next' = now + Interval
        /\ UNCHANGED <<now, setting, main, applied, schema, bucket, exit, missed, created, request>>
    BY <1>2 DEF storeVars
  <2>2. now \in Nat /\ missed \in Nat /\ Timeout \in Nat /\ Interval \in Nat
    BY <1>2, IntervalFacts, ServerAssumption DEF ServerInv, TypeOK
  <2>3. TypeOK'
    BY <2>1, <2>2 DEF ServerInv, TypeOK
  <2>4. StoresOK' /\ PanicsBelowTwo'
    BY <2>1, SameInterval DEF ServerInv, StoresOK, PanicsBelowTwo
  <2>5. TickerOK'
    BY <1>2, <2>1, <2>2, SameInterval DEF TickerOK
  <2>6. ASSUME NEW c \in Nat
        PROVE  now + Interval <= Later(c + Timeout, now) + (1 + missed) * Interval
    <3>1. (1 + missed) * Interval \in Nat /\ (1 + missed) * Interval >= Interval
      BY <2>2, Allowance
    <3>2. Later(c + Timeout, now) \in Int /\ Later(c + Timeout, now) >= now
      BY <2>2, LaterFacts
    <3> QED
      BY <2>2, <3>1, <3>2
  <2>7. DueOK'
    <3>1. \A d \in Docs : created[d] # None => created[d] \in Nat
      BY DEF ServerInv, TypeOK
    <3> QED
      BY <2>1, <2>6, <3>1, SameInterval DEF DueOK, Due
  <2> QED
    BY <2>3, <2>4, <2>5, <2>7 DEF ServerInv
<1> QED
  BY <1>1, <1>2 DEF MakeTicker

LEMMA SweepInv ==
  ASSUME ServerInv, Sweep
  PROVE  ServerInv'
<1>1. /\ UNCHANGED <<now, setting, main, applied, schema, bucket, exit, watchdog, started, request>>
      /\ watchdog = "running" /\ now = next /\ next' = now + Interval
  BY DEF Sweep, storeVars
<1>2. /\ now \in Nat /\ started \in Nat /\ next \in Nat /\ missed \in Nat
      /\ Timeout \in Nat /\ Interval \in Nat
  BY <1>1, TickerFacts
<1>3. Timeout' = Timeout /\ Interval' = Interval
  BY <1>1, SameInterval
<1>4. StoresOK' /\ PanicsBelowTwo'
  BY <1>1, <1>3 DEF ServerInv, StoresOK, PanicsBelowTwo
<1>5. TickerOK'
  BY <1>1, <1>2, <1>3 DEF ServerInv, TickerOK
<1>6. \A d \in Docs : created[d] # None => created[d] \in Nat /\ Due(created[d])
  BY <1>1 DEF ServerInv, TypeOK, DueOK
<1>7. CASE /\ created' = [d \in Docs |-> IF created[d] # None /\ created[d] < now - Timeout
                                         THEN None ELSE created[d]]
           /\ UNCHANGED missed
  <2>1. \A d \in Docs : created'[d] # None =>
          created'[d] = created[d] /\ created[d] \in Nat /\ created[d] + Timeout >= now
    BY <1>2, <1>6, <1>7
  <2>2. TypeOK'
    BY <1>1, <1>2, <1>7 DEF ServerInv, TypeOK
  <2>3. ASSUME NEW c \in Nat, c + Timeout >= now
        PROVE  now + Interval <= Later(c + Timeout, started) + (1 + missed) * Interval
    <3>1. now + Interval \in Nat /\ now + Interval <= now + Interval
      BY <1>2
    <3> QED
      BY <1>2, <2>3, <3>1, FreshIsDue
  <2>4. DueOK'
    BY <1>1, <1>3, <1>7, <2>1, <2>3 DEF DueOK, Due
  <2> QED
    BY <1>4, <1>5, <2>2, <2>4 DEF ServerInv
<1>8. CASE missed < MaxMissed /\ missed' = missed + 1 /\ UNCHANGED created
  <2>1. TypeOK'
    BY <1>1, <1>2, <1>8, ServerAssumption DEF ServerInv, TypeOK
  <2>2. ASSUME NEW c \in Nat, Due(c)
        PROVE  now + Interval <= Later(c + Timeout, started) + (1 + missed') * Interval
    <3>1. /\ (1 + missed) * Interval \in Nat
          /\ (1 + missed') * Interval = (1 + missed) * Interval + Interval
      BY <1>2, <1>8, Allowance
    <3>2. Later(c + Timeout, started) \in Int
      BY <1>2, LaterFacts
    <3>3. now <= Later(c + Timeout, started) + (1 + missed) * Interval
      BY <1>1, <2>2 DEF Due
    <3> QED
      BY <1>2, <3>1, <3>2, <3>3
  <2>3. DueOK'
    BY <1>1, <1>3, <1>6, <1>8, <2>2 DEF DueOK, Due
  <2> QED
    BY <1>4, <1>5, <2>1, <2>3 DEF ServerInv
<1> QED
  BY <1>7, <1>8 DEF Sweep

LEMMA ClockInv ==
  ASSUME ServerInv, WatchdogStops \/ Tick
  PROVE  ServerInv'
<1>1. UNCHANGED <<setting, main, applied, schema, bucket, exit, missed, created, request>>
  BY DEF WatchdogStops, Tick, storeVars, watchVars
<1>2. TypeOK'
  BY <1>1, ServerAssumption DEF ServerInv, TypeOK, WatchdogStops, Tick, watchVars
<1>3. StoresOK' /\ PanicsBelowTwo'
  BY <1>1, SameInterval DEF ServerInv, StoresOK, PanicsBelowTwo
<1>4. TickerOK' /\ DueOK'
  <2>1. CASE WatchdogStops
    BY <2>1 DEF WatchdogStops, TickerOK, DueOK
  <2>2. CASE Tick
    <3>1. UNCHANGED <<watchdog, started, next>> /\ now' = now + 1
      BY <2>2 DEF Tick, watchVars
    <3>2. DueOK'
      BY <1>1, <3>1, SameInterval DEF ServerInv, DueOK, Due
    <3>3. TickerOK'
      BY <1>1, <2>2, <3>1, TickerFacts, SameInterval DEF ServerInv, TickerOK, Tick
    <3> QED
      BY <3>2, <3>3
  <2> QED
    BY <2>1, <2>2
<1> QED
  BY <1>2, <1>3, <1>4 DEF ServerInv

-----------------------------------------------------------------------------
(* The invariant. *)

LEMMA ServerNextInv == ServerInv /\ [Next]_vars => ServerInv'
<1> SUFFICES ASSUME ServerInv, [Next]_vars PROVE ServerInv'
  OBVIOUS
<1>1. CASE Boot \/ Migrate \/ EnsureBucket \/ Serve \/ Signal
  BY <1>1, BootInv, MigrateInv, StartInv
<1>2. CASE Fatal \/ Drained \/ DrainTimesOut
  BY <1>2, StopInv
<1>3. ASSUME NEW q \in Requests,
             Arrive(q) \/ Respond(q) \/ \E d \in Docs : CreateDocument(q, d)
      PROVE  ServerInv'
  BY <1>3, RequestInv
<1>4. ASSUME NEW d \in Docs, Processed(d) PROVE ServerInv'
  BY <1>4, ProcessedInv
<1>5. CASE MakeTicker \/ Sweep \/ WatchdogStops \/ Tick
  BY <1>5, MakeTickerInv, SweepInv, ClockInv
<1>6. CASE UNCHANGED vars
  <2>1. Timeout' = Timeout /\ Interval' = Interval
    BY <1>6, SameInterval DEF vars
  <2> QED
    BY <1>6, <2>1 DEF vars, ServerInv, TypeOK, StoresOK, PanicsBelowTwo, TickerOK,
                      DueOK, Due
<1> QED
  BY <1>1, <1>2, <1>3, <1>4, <1>5, <1>6, Zenon DEF Next

\* The stores, the ticker and the documents are in order in every state.
THEOREM ServerInvariance == Spec => []ServerInv
<1>1. Spec => Init /\ [][Next]_vars
  BY DEF Spec
<1> QED
  BY <1>1, ServerInitInv, ServerNextInv, PTL

\* Every variable of the process stays within its type.
THEOREM ServerTypeCorrect == Spec => []TypeOK
<1>1. ServerInv => TypeOK
  BY DEF ServerInv
<1> QED
  BY <1>1, ServerInvariance, PTL

\* main takes requests on a complete schema and an existing bucket only, whatever
\* number of migration files there are and wherever earlier starts stopped.
THEOREM ServesOnlyPrepared == Spec => []ServesPrepared
<1>1. ServerInv => ServesPrepared
  BY DEF ServerInv, StoresOK, ServesPrepared
<1> QED
  BY <1>1, ServerInvariance, PTL

\* For every time-out of two minutes or more the watchdog sweeps every stuck
\* document within half a time-out, and half a time-out per failed sweep.
THEOREM StuckOnlyBriefly == Spec => []StuckBriefly
<1>1. ServerInv => StuckBriefly
  <2> SUFFICES ASSUME ServerInv, watchdog = "running", NEW d \in Docs, created[d] # None
               PROVE  now <= Later(created[d] + Timeout, started) + (1 + missed) * (Timeout \div 2)
    BY DEF StuckBriefly
  <2> DEFINE late == Later(created[d] + Timeout, started)
  <2>1. /\ now \in Nat /\ started \in Nat /\ next \in Nat /\ missed \in Nat
        /\ Timeout \in Nat /\ Interval \in Nat /\ now <= next
    BY TickerFacts
  <2>2. created[d] \in Nat /\ Due(created[d])
    BY DEF ServerInv, TypeOK, DueOK
  <2>3. late \in Int
    <3>1. created[d] + Timeout \in Int /\ started \in Int
      BY <2>1, <2>2
    <3> QED
      BY <3>1, LaterFacts
  <2>4. (1 + missed) * Interval \in Nat
    BY <2>1, Allowance
  <2>5. next <= late + (1 + missed) * Interval
    BY <2>2 DEF Due
  <2> HIDE DEF late
  <2>6. now <= late + (1 + missed) * Interval
    BY <2>1, <2>3, <2>4, <2>5
  <2> QED
    BY <2>6 DEF late, Interval
<1> QED
  BY <1>1, ServerInvariance, PTL

\* No setting of two minutes or more, and no missing one, makes time.NewTicker panic.
THEOREM PanicsOnlyBelowTwo == Spec => []PanicsBelowTwo
<1>1. ServerInv => PanicsBelowTwo
  BY DEF ServerInv
<1> QED
  BY <1>1, ServerInvariance, PTL

=============================================================================
