-------------------------------- MODULE Server --------------------------------
(***************************************************************************)
(* The life of the process: main, from the configuration to the orderly     *)
(* shutdown, the requests it serves, and the watchdog's ticker in minutes.  *)
(*                                                                         *)
(* Documents lets the watchdog sweep at any time after the cutoff; here the *)
(* sweeps come at the ticks of a ticker that starts with the process, so    *)
(* that one can say when a stuck document is failed, and for which settings *)
(* there is a ticker at all.                                                *)
(***************************************************************************)
EXTENDS Integers

CONSTANTS
  Migrations, \* number of files in db/migrations
  Settings,   \* values of PROCESSING_TIMEOUT_MINUTES; None when unset or no number
  Docs,       \* documents that can be uploaded
  Requests,   \* requests that can be under way at a time
  MaxTime,    \* bound on the clock
  MaxMissed,  \* bound on the sweeps whose statement fails
  None        \* no number, no time

ASSUME ServerAssumption ==
  /\ Migrations \in Nat
  /\ Settings \subseteq Int \cup {None}
  /\ MaxTime \in Nat /\ MaxMissed \in Nat
  /\ None \notin Int

VARIABLES
  now,       \* minutes
  setting,   \* PROCESSING_TIMEOUT_MINUTES in the environment
  main,      \* what main is doing
  applied,   \* migrations executed in this start
  schema,    \* migrations whose tables are in the database
  bucket,    \* whether the bucket exists
  exit,      \* how the last process ended
  watchdog,  \* the watchdog goroutine
  started,   \* when the ticker was made
  next,      \* when it fires next
  missed,    \* sweeps that failed since the ticker was made
  created,   \* created_at of the documents that are in processing
  request    \* requests

storeVars == <<applied, schema, bucket>>
watchVars == <<watchdog, started, next, missed>>
vars == <<now, setting, main, applied, schema, bucket, exit,
          watchdog, started, next, missed, created, request>>

\* getEnvInt("PROCESSING_TIMEOUT_MINUTES", 30).
Timeout == IF setting = None THEN 30 ELSE setting

\* Mutation: the watchdog scans once per timeout.
IntervalWhole == Timeout

\* Mutation: the watchdog scans four times per timeout.
IntervalQuarter == Timeout \div 4

\* The interval main gives the watchdog.  (Go rounds a negative quotient towards
\* zero, \div away from it: neither is positive.)
Interval == Timeout \div 2

Init ==
  /\ now = 0
  /\ setting \in Settings
  /\ main = "down"
  /\ applied = 0 /\ schema = {} /\ bucket \in BOOLEAN
  /\ exit = "none"
  /\ watchdog = "off" /\ started = None /\ next = None /\ missed = 0
  /\ created = [d \in Docs |-> None]
  /\ request = [q \in Requests |-> "idle"]

\* The process ends, with its goroutines and the requests under way.
End(how) ==
  /\ main' = "down"
  /\ exit' = how
  /\ watchdog' = "off" /\ started' = None /\ next' = None /\ missed' = 0
  /\ request' = [q \in Requests |-> "idle"]
  /\ UNCHANGED <<now, setting, storeVars, created>>

-----------------------------------------------------------------------------
(* main *)

\* The process is started, by its supervisor or by hand.
Boot ==
  /\ main = "down"
  /\ main' = "boot" /\ applied' = 0 /\ exit' = "none"
  /\ UNCHANGED <<now, setting, schema, bucket, watchVars, created, request>>

\* Mutation: the loop over the files runs once too often.
MigrateOneTooMany ==
  /\ main = "boot" /\ applied <= Migrations
  /\ applied' = applied + 1
  /\ schema' = schema \cup {applied'}
  /\ UNCHANGED <<now, setting, main, bucket, exit, watchVars, created, request>>

\* Mutation: only an empty database is migrated.
MigrateOnlyEmpty ==
  /\ main = "boot" /\ applied < Migrations
  /\ \/ schema = 1..applied /\ applied' = applied + 1 /\ schema' = schema \cup {applied'}
     \/ schema # 1..applied /\ applied' = Migrations /\ UNCHANGED schema
  /\ UNCHANGED <<now, setting, main, bucket, exit, watchVars, created, request>>

\* runMigrations executes the next file, whether or not an earlier start did; all
\* its statements say IF NOT EXISTS and are one transaction.
Migrate ==
  /\ main = "boot" /\ applied < Migrations
  /\ applied' = applied + 1
  /\ schema' = schema \cup {applied'}
  /\ UNCHANGED <<now, setting, main, bucket, exit, watchVars, created, request>>

\* NewMinIOStorage: BucketExists, and MakeBucket when there is none.
EnsureBucket ==
  /\ main = "boot" /\ applied = Migrations
  /\ bucket' = TRUE
  /\ main' = "prepared"
  /\ UNCHANGED <<now, setting, applied, schema, exit, watchVars, created, request>>

\* The worker, the watchdog and the listener are started.
Serve ==
  /\ main = "prepared"
  /\ main' = "serving" /\ watchdog' = "starting"
  /\ UNCHANGED <<now, setting, storeVars, exit, started, next, missed, created, request>>

\* log.Fatalf, at start-up or in the goroutines of the listener and the worker;
\* or the process is killed.
Fatal ==
  /\ main # "down"
  /\ End("fatal")

\* SIGINT or SIGTERM: watchdogCancel, and the listener is closed.
Signal ==
  /\ main = "serving"
  /\ main' = "draining"
  /\ UNCHANGED <<now, setting, storeVars, exit, watchVars, created, request>>

\* srv.Shutdown returns when no request is under way; main returns.
Drained ==
  /\ main = "draining"
  /\ \A q \in Requests : request[q] = "idle"
  /\ End("ok")

\* Mutation: no deadline for the shutdown.
DrainNoDeadline == FALSE /\ End("forced")

\* The 30 seconds are over.
DrainTimesOut ==
  /\ main = "draining"
  /\ \E q \in Requests : request[q] # "idle"
  /\ End("forced")

-----------------------------------------------------------------------------
(* Requests, and the documents they upload. *)

Arrive(q) ==
  /\ main = "serving"
  /\ request[q] = "idle"
  /\ request' = [request EXCEPT ![q] = "active"]
  /\ UNCHANGED <<now, setting, main, storeVars, exit, watchVars, created>>

\* Mutation: created_at holds the cutoff instead of the time.
CreateWithCutoff(q, d) ==
  /\ main \in {"serving", "draining"}
  /\ request[q] = "active" /\ created[d] = None
  /\ request' = [request EXCEPT ![q] = "created"]
  /\ created' = [created EXCEPT ![d] = now - Timeout]
  /\ UNCHANGED <<now, setting, main, storeVars, exit, watchVars>>

\* An upload creates the row of its document.  Whether or not the rest of the upload
\* comes about, the row is in "processing" from now on.
CreateDocument(q, d) ==
  /\ main \in {"serving", "draining"}
  /\ request[q] = "active" /\ created[d] = None
  /\ request' = [request EXCEPT ![q] = "created"]
  /\ created' = [created EXCEPT ![d] = now]
  /\ UNCHANGED <<now, setting, main, storeVars, exit, watchVars>>

\* A handler returns.
Respond(q) ==
  /\ main \in {"serving", "draining"}
  /\ request[q] # "idle"
  /\ request' = [request EXCEPT ![q] = "idle"]
  /\ UNCHANGED <<now, setting, main, storeVars, exit, watchVars, created>>

\* The worker makes the document ready or failed.
Processed(d) ==
  /\ main \in {"serving", "draining"}
  /\ created[d] # None
  /\ created' = [created EXCEPT ![d] = None]
  /\ UNCHANGED <<now, setting, main, storeVars, exit, watchVars, request>>

-----------------------------------------------------------------------------
(* The watchdog. *)

\* time.NewTicker, which panics unless the interval is positive.
MakeTicker ==
  /\ watchdog = "starting"
  /\ \/ /\ Interval > 0
        /\ watchdog' = "running" /\ started' = now /\ next' = now + Interval
        /\ UNCHANGED <<now, setting, main, storeVars, exit, missed, created, request>>
     \/ Interval <= 0 /\ End("panic")

\* The ticker fires; sweep fails the documents created before now - Timeout.  A
\* statement that fails is logged.  When main has cancelled the context as well,
\* select may take either.
Sweep ==
  /\ watchdog = "running" /\ now = next
  /\ next' = now + Interval
  /\ \/ /\ created' = [d \in Docs |-> IF created[d] # None /\ created[d] < now - Timeout
                                     THEN None ELSE created[d]]
        /\ UNCHANGED missed
     \/ /\ missed < MaxMissed /\ missed' = missed + 1
        /\ UNCHANGED created
  /\ UNCHANGED <<now, setting, main, storeVars, exit, watchdog, started, request>>

\* The context is cancelled.
WatchdogStops ==
  /\ main = "draining" /\ watchdog = "running"
  /\ watchdog' = "off" /\ started' = None /\ next' = None
  /\ UNCHANGED <<now, setting, main, storeVars, exit, missed, created, request>>

\* A minute passes.  A tick is served before the next one.
Tick ==
  /\ now < MaxTime
  /\ watchdog # "starting"
  /\ watchdog = "running" => now < next
  /\ now' = now + 1
  /\ UNCHANGED <<setting, main, storeVars, exit, watchVars, created, request>>

Next ==
  \/ Boot \/ Migrate \/ EnsureBucket \/ Serve \/ Fatal \/ Signal \/ Drained \/ DrainTimesOut
  \/ \E q \in Requests : \/ Arrive(q) \/ Respond(q)
                         \/ \E d \in Docs : CreateDocument(q, d)
  \/ \E d \in Docs : Processed(d)
  \/ MakeTicker \/ Sweep \/ WatchdogStops \/ Tick

Spec == Init /\ [][Next]_vars

\* The 30 seconds pass, and main goes on when srv.Shutdown returns.  A handler may
\* take for ever.
FairSpec == Spec /\ WF_vars(Drained \/ DrainTimesOut)

-----------------------------------------------------------------------------
(* Properties. *)

\* Every variable stays within its type.
TypeOK ==
  /\ now \in 0..MaxTime
  /\ setting \in Settings
  /\ main \in {"down", "boot", "prepared", "serving", "draining"}
  /\ applied \in 0..Migrations
  /\ schema \subseteq 1..Migrations
  /\ bucket \in BOOLEAN
  /\ exit \in {"none", "ok", "forced", "fatal", "panic"}
  /\ watchdog \in {"off", "starting", "running"}
  /\ started \in Nat \cup {None}
  /\ next \in Nat \cup {None}
  /\ missed \in 0..MaxMissed
  /\ created \in [Docs -> Nat \cup {None}]
  /\ request \in [Requests -> {"idle", "active", "created"}]

\* Requests are taken only on a complete schema and an existing bucket, although
\* an earlier start may have stopped between any two migrations.
ServesPrepared ==
  main \in {"serving", "draining"} => schema = 1..Migrations /\ bucket

Later(s, t) == IF s > t THEN s ELSE t

\* A stuck document is failed within half a time-out of the time it becomes too
\* old, or, when that was earlier, of the start of this process, and half a
\* time-out more for each sweep that failed: restarts delay the watchdog by one
\* interval each, and by no more.
StuckBriefly ==
  watchdog = "running" =>
    \A d \in Docs :
      created[d] # None =>
        now <= Later(created[d] + Timeout, started) + (1 + missed) * (Timeout \div 2)

\* The watchdog's ticker stops the process only for time-outs below two minutes
\* (main halves the setting); for every other value, or none, it runs.
PanicsBelowTwo == exit = "panic" => Timeout < 2

\* After a signal the process ends, also when a handler never returns.
SignalEnds == main = "draining" ~> main = "down"

=============================================================================
