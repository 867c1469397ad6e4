-------------------------------- MODULE Asynq --------------------------------
(***************************************************************************)
(* The Asynq server as the workers of this program use it: tasks in Redis,  *)
(* and the goroutines that run a task's handler.                            *)
(*                                                                         *)
(* A run is a goroutine inside a handler; what the handler does is left to  *)
(* the modules that instantiate this one (Documents, Webhooks).  When Asynq *)
(* gives up on a run, at its time-out or when its lease is lost, it cancels *)
(* the run's context, but the goroutine goes on.                            *)
(***************************************************************************)
EXTENDS Naturals

CONSTANTS
  Jobs,          \* tasks that can be enqueued
  Runs,          \* worker goroutines that can exist at a time
  MaxRetry,      \* retries granted to a task
  CallsMayFail,  \* whether Redis may refuse the result of a run
  MayStop,       \* whether the process may crash or be shut down
  None           \* no task

ASSUME AsynqAssumption ==
  /\ MaxRetry \in Nat
  /\ CallsMayFail \in BOOLEAN
  /\ MayStop \in BOOLEAN
  /\ None \notin Jobs

VARIABLES
  task,  \* each task's state in Redis and its count of retries
  run    \* each goroutine's task, and whether its context is not cancelled

vars == <<task, run>>

Task == [st : {"none", "pending", "active", "completed", "archived"},
         retried : 0..MaxRetry]

Run == [job : Jobs \cup {None}, ctx : BOOLEAN]

NoRun == [job |-> None, ctx |-> FALSE]

Init ==
  /\ task = [j \in Jobs |-> [st |-> "none", retried |-> 0]]
  /\ run = [r \in Runs |-> NoRun]

Busy(r) == run[r].job # None

-----------------------------------------------------------------------------

Enqueue(j) == task[j].st = "none" /\ task' = [task EXCEPT ![j].st = "pending"]

\* Mutation: one retry too many.
RetryOffByOne(j) ==
  task' = [task EXCEPT ![j] =
             IF @.retried <= MaxRetry
             THEN [st |-> "pending", retried |-> @.retried + 1]
             ELSE [@ EXCEPT !.st = "archived"]]

\* Mutation: the retry is not counted.
RetryUncounted(j) ==
  task' = [task EXCEPT ![j].st = IF task[j].retried < MaxRetry THEN "pending" ELSE "archived"]

\* handleFailedMessage.  The delay before the retry is not modelled: a pending
\* task may wait for as long as it likes.
Retry(j) ==
  task' = [task EXCEPT ![j] =
             IF @.retried < MaxRetry
             THEN [st |-> "pending", retried |-> @.retried + 1]
             ELSE [@ EXCEPT !.st = "archived"]]

\* A pending task is leased and a goroutine starts the handler on it.
Dequeue(r, j) ==
  /\ ~Busy(r)
  /\ task[j].st = "pending"
  /\ task' = [task EXCEPT ![j].st = "active"]
  /\ run' = [run EXCEPT ![r] = [job |-> j, ctx |-> TRUE]]

\* The run is not done at its deadline: the task is retried, the goroutine goes
\* on with a cancelled context.
TimeOut(r) ==
  /\ run[r].ctx
  /\ Retry(run[r].job)
  /\ run' = [run EXCEPT ![r].ctx = FALSE]

\* The lease ends before it is extended: Redis is left to the recoverer.
LoseLease(r) ==
  /\ run[r].ctx
  /\ run' = [run EXCEPT ![r].ctx = FALSE]
  /\ UNCHANGED task

\* Mutation: the recoverer does not look at the lease.
RecoverLeased(j) == task[j].st = "active" /\ Retry(j) /\ UNCHANGED run

\* Mutation: the recoverer leaves a task alone that has no retry left.
RecoverRetriesOnly(j) ==
  /\ task[j].st = "active" /\ task[j].retried < MaxRetry
  /\ \A r \in Runs : run[r].job = j => ~run[r].ctx
  /\ Retry(j)
  /\ UNCHANGED run

\* The recoverer finds an active task whose lease in Redis ended 30 seconds ago or
\* more.  It does not look at runs: that such a task has no live run rests on the
\* heartbeat, which extends the lease of a live run, and on LoseLease, which cancels
\* a run as soon as its lease ends without having been extended.
Recover(j) ==
  /\ task[j].st = "active"
  /\ \A r \in Runs : run[r].job = j => ~run[r].ctx
  /\ Retry(j)
  /\ UNCHANGED run

\* The handler returns, ok when without an error; the result counts only while
\* Asynq waits for the run, and is lost when Redis does not take it.
Return(r, ok) ==
  /\ Busy(r)
  /\ \/ (~run[r].ctx \/ CallsMayFail) /\ UNCHANGED task
     \/ run[r].ctx /\ ok /\ task' = [task EXCEPT ![run[r].job].st = "completed"]
     \/ run[r].ctx /\ ~ok /\ Retry(run[r].job)
  /\ run' = [run EXCEPT ![r] = NoRun]

\* The goroutines end with the process; the tasks stay in Redis.
Crash ==
  /\ MayStop
  /\ run' = [r \in Runs |-> NoRun]
  /\ UNCHANGED task

\* SIGTERM: Asynq puts tasks that do not end in time back, without counting a
\* retry, if main lives that long; then the process ends.
Shutdown ==
  /\ MayStop
  /\ \E requeued \in SUBSET {r \in Runs : run[r].ctx} :
       /\ requeued # {}
       /\ task' = [j \in Jobs |-> IF \E r \in requeued : run[r].job = j
                                 THEN [task[j] EXCEPT !.st = "pending"]
                                 ELSE task[j]]
  /\ run' = [r \in Runs |-> NoRun]

Next ==
  \/ \E j \in Jobs : \/ Enqueue(j) /\ UNCHANGED run
                     \/ Recover(j)
                     \/ \E r \in Runs : Dequeue(r, j)
  \/ \E r \in Runs : \/ TimeOut(r) \/ LoseLease(r)
                     \/ \E ok \in BOOLEAN : Return(r, ok)
  \/ Crash
  \/ Shutdown

Spec == Init /\ [][Next]_vars

-----------------------------------------------------------------------------
(* Properties. *)

\* Every variable stays within its type; no task is retried more than MaxRetry
\* times.
TypeOK == task \in [Jobs -> Task] /\ run \in [Runs -> Run]

\* Asynq waits for at most one live run of a task, and for none unless the task
\* is active: a retry, a time-out, a crash and the recoverer never make two live
\* runs of the same task.
OneLiveRun ==
  \A r, s \in Runs :
    run[r].ctx =>
      /\ task[run[r].job].st = "active"
      /\ (run[s].ctx /\ run[s].job = run[r].job) => r = s

=============================================================================
