---------------------------- MODULE AsynqProofs ----------------------------
(* Proofs about the task queue, for any tasks, goroutines and retries. *)
EXTENDS Asynq, TLAPS

\* A goroutine that Asynq waits for has a task.
LiveHasJob == \A r \in Runs : run[r].ctx => run[r].job \in Jobs

\* The inductive invariant: OneLiveRun speaks of the tasks of live runs, which
\* are tasks only by LiveHasJob.
QueueInv == TypeOK /\ LiveHasJob /\ OneLiveRun

-----------------------------------------------------------------------------

LEMMA InitInv == Init => QueueInv
  BY AsynqAssumption
  DEF Init, QueueInv, TypeOK, LiveHasJob, OneLiveRun, Task, Run, NoRun

\* What Retry does to a task: it is not active any more and is well typed.
LEMMA RetryType ==
  ASSUME TypeOK, NEW j \in Jobs, Retry(j)
  PROVE  /\ task' \in [Jobs -> Task]
         /\ task'[j].st \in {"pending", "archived"}
         /\ \A i \in Jobs : i # j => task'[i] = task[i]
  BY AsynqAssumption DEF TypeOK, Task, Retry

LEMMA EnqueueInv ==
  ASSUME QueueInv, NEW j \in Jobs, Enqueue(j), UNCHANGED run
  PROVE  QueueInv'
  BY DEF QueueInv, TypeOK, LiveHasJob, OneLiveRun, Enqueue, Task, Run

LEMMA DequeueInv ==
  ASSUME QueueInv, NEW r \in Runs, NEW j \in Jobs, Dequeue(r, j)
  PROVE  QueueInv'
<1>1. TypeOK'
  BY DEF QueueInv, TypeOK, Dequeue, Task, Run
<1>2. LiveHasJob'
  BY DEF QueueInv, TypeOK, LiveHasJob, Dequeue, Run
<1>3. OneLiveRun'
  BY DEF QueueInv, TypeOK, LiveHasJob, OneLiveRun, Dequeue, Task, Run
<1> QED
  BY <1>1, <1>2, <1>3 DEF QueueInv

LEMMA GiveUpInv ==
  ASSUME QueueInv, NEW r \in Runs, TimeOut(r) \/ LoseLease(r)
  PROVE  QueueInv'
<1>1. run[r].job \in Jobs
  BY DEF QueueInv, LiveHasJob, TimeOut, LoseLease
<1>2. CASE TimeOut(r)
  <2>1. /\ task' \in [Jobs -> Task]
        /\ \A i \in Jobs : i # run[r].job => task'[i] = task[i]
    BY <1>1, <1>2, RetryType DEF QueueInv, TimeOut
  <2>2. TypeOK' /\ LiveHasJob'
    BY <1>2, <2>1 DEF QueueInv, TypeOK, LiveHasJob, TimeOut, Run
  <2>3. OneLiveRun'
    BY <1>2, <2>1 DEF QueueInv, TypeOK, LiveHasJob, OneLiveRun, TimeOut, Run
  <2> QED
    BY <2>2, <2>3 DEF QueueInv
<1>3. CASE LoseLease(r)
  BY <1>3 DEF QueueInv, TypeOK, LiveHasJob, OneLiveRun, LoseLease, Run
<1> QED
  BY <1>2, <1>3

LEMMA RecoverInv ==
  ASSUME QueueInv, NEW j \in Jobs, Recover(j)
  PROVE  QueueInv'
<1>1. /\ task' \in [Jobs -> Task]
      /\ \A i \in Jobs : i # j => task'[i] = task[i]
  BY RetryType DEF QueueInv, Recover
<1>2. TypeOK' /\ LiveHasJob'
  BY <1>1 DEF QueueInv, TypeOK, LiveHasJob, Recover
<1>3. OneLiveRun'
  BY <1>1 DEF QueueInv, LiveHasJob, OneLiveRun, Recover
<1> QED
  BY <1>2, <1>3 DEF QueueInv

LEMMA ReturnInv ==
  ASSUME QueueInv, NEW r \in Runs, NEW ok \in BOOLEAN, Return(r, ok)
  PROVE  QueueInv'
<1>1. /\ run' = [run EXCEPT ![r] = NoRun]
      /\ run' \in [Runs -> Run]
      /\ ~run'[r].ctx
  BY AsynqAssumption DEF QueueInv, TypeOK, Return, Run, NoRun
<1>2. CASE UNCHANGED task
  BY <1>1, <1>2 DEF QueueInv, TypeOK, LiveHasJob, OneLiveRun
<1>3. ASSUME run[r].ctx,
             \/ task' = [task EXCEPT ![run[r].job].st = "completed"]
             \/ Retry(run[r].job)
      PROVE  QueueInv'
  <2>1. run[r].job \in Jobs
    BY <1>3 DEF QueueInv, LiveHasJob
  <2>2. /\ task' \in [Jobs -> Task]
        /\ \A i \in Jobs : i # run[r].job => task'[i] = task[i]
    <3>1. CASE Retry(run[r].job)
      BY <2>1, <3>1, RetryType DEF QueueInv
    <3>2. CASE task' = [task EXCEPT ![run[r].job].st = "completed"]
      BY <2>1, <3>2 DEF QueueInv, TypeOK, Task
    <3> QED
      BY <1>3, <3>1, <3>2
  <2>3. TypeOK' /\ LiveHasJob'
    BY <1>1, <2>2 DEF QueueInv, TypeOK, LiveHasJob
  <2>4. OneLiveRun'
    BY <1>1, <1>3, <2>2 DEF QueueInv, TypeOK, LiveHasJob, OneLiveRun
  <2> QED
    BY <2>3, <2>4 DEF QueueInv
<1> QED
  BY <1>2, <1>3 DEF Return

LEMMA StopInv ==
  ASSUME QueueInv, Crash \/ Shutdown
  PROVE  QueueInv'
<1>1. run' \in [Runs -> Run] /\ \A r \in Runs : ~run'[r].ctx
  <2>1. run' = [r \in Runs |-> NoRun]
    BY Zenon DEF Crash, Shutdown
  <2> QED
    BY <2>1 DEF Run, NoRun
<1>2. task' \in [Jobs -> Task]
  <2>1. CASE Crash
    BY <2>1 DEF QueueInv, TypeOK, Crash
  <2>2. CASE Shutdown
    <3>1. PICK requeued \in SUBSET {r \in Runs : run[r].ctx} :
            task' = [j \in Jobs |-> IF \E r \in requeued : run[r].job = j
                                   THEN [task[j] EXCEPT !.st = "pending"]
                                   ELSE task[j]]
      BY <2>2 DEF Shutdown
    <3>2. ASSUME NEW j \in Jobs PROVE [task[j] EXCEPT !.st = "pending"] \in Task
      BY DEF QueueInv, TypeOK, Task
    <3> QED
      BY <3>1, <3>2 DEF QueueInv, TypeOK
  <2> QED
    BY <2>1, <2>2
<1> QED
  BY <1>1, <1>2 DEF QueueInv, TypeOK, LiveHasJob, OneLiveRun

LEMMA NextInv == QueueInv /\ [Next]_vars => QueueInv'
<1> SUFFICES ASSUME QueueInv, [Next]_vars PROVE QueueInv'
  OBVIOUS
<1>1. CASE UNCHANGED vars
  BY <1>1 DEF QueueInv, TypeOK, LiveHasJob, OneLiveRun, vars
<1>2. ASSUME NEW j \in Jobs, Enqueue(j), UNCHANGED run PROVE QueueInv'
  BY <1>2, EnqueueInv
<1>3. ASSUME NEW j \in Jobs, Recover(j) PROVE QueueInv'
  BY <1>3, RecoverInv
<1>4. ASSUME NEW r \in Runs, NEW j \in Jobs, Dequeue(r, j) PROVE QueueInv'
  BY <1>4, DequeueInv
<1>5. ASSUME NEW r \in Runs, TimeOut(r) \/ LoseLease(r) PROVE QueueInv'
  BY <1>5, GiveUpInv
<1>6. ASSUME NEW r \in Runs, NEW ok \in BOOLEAN, Return(r, ok) PROVE QueueInv'
  BY <1>6, ReturnInv
<1>7. CASE Crash \/ Shutdown
  BY <1>7, StopInv
<1> QED
  BY <1>1, <1>2, <1>3, <1>4, <1>5, <1>6, <1>7 DEF Next

\* The queue stays within its type, and no task is retried more often than it was
\* granted, and the invariant above holds with it.
THEOREM QueueInvariance == Spec => []QueueInv
  BY InitInv, NextInv, PTL DEF Spec

\* Asynq waits for at most one run of a task: however a run ends, at its time-out,
\* with its lease, by an answer, a crash or a shutdown, and whoever puts the task
\* back (processor.exec, the recoverer).
THEOREM OneRunAtATime == Spec => []OneLiveRun
<1>1. QueueInv => OneLiveRun
  BY DEF QueueInv
<1> QED
  BY <1>1, QueueInvariance, PTL

=============================================================================
