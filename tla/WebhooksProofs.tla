--------------------------- MODULE WebhooksProofs ---------------------------
(* Proofs about the delivery of notices, on top of those about the queue. *)
EXTENDS Webhooks, AsynqProofs, FiniteSetTheorems

\* The goroutines that are about to post the notice of task j.
Posting(j) == {r \in Runs : work[r] = "post" /\ run[r].job = j}

\* A handler runs on a task, and one that reports success was answered with 2xx.
WorkOK ==
  \A r \in Runs :
    /\ work[r] # "idle" => run[r].job \in Jobs
    /\ work[r] = "ok" => run[r].job \in accepted

\* 1 for a task that waits, and so will get one more run.
Waiting(j) == IF task[j].st \in {"none", "pending"} THEN 1 ELSE 0

\* The posts made, the posts about to be made, and the post of the run that a
\* waiting task will still get, are paid for by the first attempt, the retries
\* and the shutdowns.
PostsPaid ==
  \A j \in Jobs :
    posts[j] + Cardinality(Posting(j)) + Waiting(j) <= task[j].retried + 1 + stops

HookInv == QueueInv /\ HookTypeOK /\ WorkOK /\ CompletedAccepted /\ PostsPaid

-----------------------------------------------------------------------------

\* There are finitely many goroutines.
LEMMA PostingFinite ==
  ASSUME NEW j
  PROVE  IsFiniteSet(Posting(j)) /\ Cardinality(Posting(j)) \in Nat
  BY WebhooksAssumption, FS_Subset, FS_CardinalityType DEF Posting

\* Every step of a handler, of the queue or of the process is a step of the queue.
LEMMA HookNextIsNext == HookInv /\ [HookNext]_hookVars => [Next]_vars
<1> SUFFICES ASSUME HookInv, [HookNext]_hookVars PROVE [Next]_vars
  OBVIOUS
<1>1. ASSUME NEW r \in Runs, HandlerReturns(r) PROVE Next
  <2>1. (work[r] = "ok") \in BOOLEAN
    OBVIOUS
  <2> QED
    BY <1>1, <2>1 DEF HandlerReturns, Next
<1>2. ASSUME NEW r \in Runs, GiveUp(r) PROVE Next
  BY <1>2, Zenon DEF GiveUp, Next
<1>3. ASSUME NEW j \in Jobs,
             EnqueueNotice(j) \/ RecoverNotice(j) \/ \E r \in Runs : StartHandler(r, j)
      PROVE  Next
  BY <1>3, Zenon DEF EnqueueNotice, RecoverNotice, StartHandler, Next
<1>4. ASSUME NEW r \in Runs, Post(r) \/ PostFails(r) PROVE UNCHANGED vars
  BY <1>4 DEF Post, PostFails, vars
<1>5. CASE ProcessEnds
  BY <1>5, Zenon DEF ProcessEnds, Next
<1>6. CASE UNCHANGED hookVars
  BY <1>6 DEF hookVars, vars
<1> QED
  BY <1>1, <1>2, <1>3, <1>4, <1>5, <1>6, Zenon DEF HookNext, HandlerStep

LEMMA HookInitInv == HookInit => HookInv
<1> SUFFICES ASSUME HookInit PROVE HookInv
  OBVIOUS
<1>1. QueueInv
  BY InitInv DEF HookInit
<1>2. HookTypeOK /\ WorkOK /\ CompletedAccepted
  BY <1>1, WebhooksAssumption
  DEF HookInit, Init, HookTypeOK, WorkOK, CompletedAccepted, QueueInv
<1>3. ASSUME NEW j \in Jobs PROVE Cardinality(Posting(j)) = 0
  <2>1. Posting(j) = {}
    BY DEF HookInit, Posting
  <2> QED
    BY <2>1, FS_EmptySet
<1>4. PostsPaid
  <2> SUFFICES ASSUME NEW j \in Jobs
               PROVE  posts[j] + 0 + Waiting(j) <= task[j].retried + 1 + stops
    BY <1>3 DEF PostsPaid
  <2>1. posts[j] = 0 /\ stops = 0 /\ task[j] = [st |-> "none", retried |-> 0]
    BY DEF HookInit, Init
  <2> QED
    BY <2>1 DEF Waiting
<1> QED
  BY <1>1, <1>2, <1>4 DEF HookInv

-----------------------------------------------------------------------------
(* What the steps do to the accounts. *)

\* A retry pays for the run it brings about.
LEMMA RetryPays ==
  ASSUME TypeOK, NEW i \in Jobs, Retry(i), NEW j \in Jobs
  PROVE  /\ task'[j].retried \in Nat
         /\ Waiting(j)' + task[j].retried <= Waiting(j) + task'[j].retried
<1>1. task \in [Jobs -> Task] /\ task[j].retried \in 0..MaxRetry /\ MaxRetry \in Nat
  BY AsynqAssumption DEF TypeOK, Task
<1>2. CASE i # j
  <2>1. task'[j] = task[j]
    BY <1>2, RetryType
  <2> QED
    BY <1>1, <2>1 DEF Waiting
<1>3. CASE i = j /\ task[j].retried < MaxRetry
  <2>1. task'[j] = [st |-> "pending", retried |-> task[j].retried + 1]
    BY <1>1, <1>3 DEF Retry
  <2> QED
    BY <1>1, <2>1 DEF Waiting
<1>4. CASE i = j /\ ~(task[j].retried < MaxRetry)
  <2>1. task'[j].st = "archived" /\ task'[j].retried = task[j].retried
    BY <1>1, <1>4 DEF Retry, Task
  <2> QED
    BY <1>1, <2>1 DEF Waiting
<1> QED
  BY <1>2, <1>3, <1>4

-----------------------------------------------------------------------------
(* Every step keeps the invariant.  QueueInv' is known from AsynqProofs. *)

LEMMA WaitingType ==
  ASSUME HookInv, QueueInv', NEW j \in Jobs
  PROVE  /\ task[j].retried \in Nat /\ task'[j].retried \in Nat
         /\ Waiting(j) \in 0..1 /\ Waiting(j)' \in 0..1
         /\ posts[j] \in Nat /\ stops \in Nat /\ Cardinality(Posting(j)) \in Nat
<1>1. task[j].retried \in Nat /\ task'[j].retried \in Nat
  BY AsynqAssumption DEF HookInv, QueueInv, TypeOK, Task
<1>2. posts[j] \in Nat /\ stops \in Nat
  BY WebhooksAssumption DEF HookInv, HookTypeOK
<1> QED
  BY <1>1, <1>2, PostingFinite DEF Waiting

LEMMA EnqueueNoticeInv ==
  ASSUME HookInv, QueueInv', NEW i \in Jobs, EnqueueNotice(i)
  PROVE  HookInv'
<1>1. HookTypeOK' /\ WorkOK' /\ CompletedAccepted'
  BY DEF HookInv, HookTypeOK, WorkOK, CompletedAccepted, QueueInv, TypeOK, Task,
         EnqueueNotice, Enqueue
<1>2. PostsPaid'
  <2>1. ASSUME NEW j \in Jobs
        PROVE  Waiting(j)' = Waiting(j) /\ task'[j].retried = task[j].retried
    BY DEF HookInv, QueueInv, TypeOK, Task, EnqueueNotice, Enqueue, Waiting
  <2>2. ASSUME NEW j \in Jobs PROVE Posting(j)' = Posting(j)
    BY DEF EnqueueNotice, Posting
  <2> QED
    BY <2>1, <2>2, WaitingType DEF HookInv, PostsPaid, EnqueueNotice
<1> QED
  BY <1>1, <1>2 DEF HookInv

LEMMA StartHandlerInv ==
  ASSUME HookInv, QueueInv', NEW r \in Runs, NEW i \in Jobs, StartHandler(r, i)
  PROVE  HookInv'
<1>1. HookTypeOK' /\ CompletedAccepted'
  BY DEF HookInv, HookTypeOK, CompletedAccepted, QueueInv, TypeOK, Task,
         StartHandler, Dequeue
<1>2. WorkOK'
  BY DEF HookInv, HookTypeOK, WorkOK, QueueInv, TypeOK, Run, StartHandler, Dequeue
<1>3. PostsPaid'
  <2>1. ASSUME NEW j \in Jobs, j # i
        PROVE  Waiting(j)' = Waiting(j) /\ task'[j].retried = task[j].retried
    BY <2>1 DEF HookInv, QueueInv, TypeOK, StartHandler, Dequeue, Waiting
  <2>2. /\ Waiting(i) = 1 /\ Waiting(i)' = 0 /\ task'[i].retried = task[i].retried
    BY DEF HookInv, QueueInv, TypeOK, Task, StartHandler, Dequeue, Waiting
  <2>3. ASSUME NEW j \in Jobs, j # i PROVE Posting(j)' = Posting(j)
    BY <2>3, AsynqAssumption
    DEF HookInv, HookTypeOK, QueueInv, TypeOK, Run, StartHandler, Dequeue, Busy, Posting
  <2>4. Posting(i)' = Posting(i) \cup {r} /\ r \notin Posting(i)
    BY AsynqAssumption
    DEF HookInv, HookTypeOK, QueueInv, TypeOK, Run, StartHandler, Dequeue, Busy, Posting
  <2>5. Cardinality(Posting(i)') = Cardinality(Posting(i)) + 1
    BY <2>4, PostingFinite, FS_AddElement
  <2> QED
    BY <2>1, <2>2, <2>3, <2>5, WaitingType DEF HookInv, PostsPaid, StartHandler
<1> QED
  BY <1>1, <1>2, <1>3 DEF HookInv

\* A step of the queue that neither starts nor ends a handler pays for itself when
\* it retries a task or leaves the tasks alone.
LEMMA QueueStepInv ==
  ASSUME HookInv, QueueInv', UNCHANGED <<work, posts, accepted, stops>>,
         \A r \in Runs : run'[r].job = run[r].job,
         UNCHANGED task \/ \E i \in Jobs : Retry(i)
  PROVE  HookInv'
<1>1. ASSUME NEW j \in Jobs
      PROVE  /\ Waiting(j)' + task[j].retried <= Waiting(j) + task'[j].retried
             /\ task'[j].st = "completed" => task[j].st = "completed"
  <2>1. CASE UNCHANGED task
    BY <2>1, WaitingType DEF Waiting
  <2>2. ASSUME NEW i \in Jobs, Retry(i)
        PROVE  /\ Waiting(j)' + task[j].retried <= Waiting(j) + task'[j].retried
               /\ task'[j].st = "completed" => task[j].st = "completed"
    BY <2>2, RetryPays, RetryType DEF HookInv, QueueInv
  <2> QED
    BY <2>1, <2>2
<1>2. HookTypeOK' /\ WorkOK' /\ CompletedAccepted'
  BY <1>1 DEF HookInv, HookTypeOK, WorkOK, CompletedAccepted, QueueInv
<1>3. ASSUME NEW j \in Jobs PROVE Posting(j)' = Posting(j)
  BY DEF Posting
<1>4. PostsPaid'
  BY <1>1, <1>3, WaitingType DEF HookInv, PostsPaid
<1> QED
  BY <1>2, <1>4 DEF HookInv

LEMMA GiveUpHookInv ==
  ASSUME HookInv, QueueInv', NEW r \in Runs, GiveUp(r)
  PROVE  HookInv'
<1>1. /\ run[r].job \in Jobs
      /\ run' = [run EXCEPT ![r].ctx = FALSE]
      /\ UNCHANGED task \/ Retry(run[r].job)
  BY DEF HookInv, QueueInv, LiveHasJob, GiveUp, TimeOut, LoseLease
<1>2. \A s \in Runs : run'[s].job = run[s].job
  BY <1>1 DEF HookInv, QueueInv, TypeOK, Run
<1> QED
  BY <1>1, <1>2, QueueStepInv DEF GiveUp

LEMMA RecoverNoticeInv ==
  ASSUME HookInv, QueueInv', NEW i \in Jobs, RecoverNotice(i)
  PROVE  HookInv'
  BY QueueStepInv DEF RecoverNotice, Recover

LEMMA PostInv ==
  ASSUME HookInv, QueueInv', NEW r \in Runs, Post(r)
  PROVE  HookInv'
<1> DEFINE i == run[r].job
<1>1. i \in Jobs
  BY DEF HookInv, WorkOK, Post
<1>2. /\ work' \in [Runs -> {"idle", "post", "ok", "failed"}]
      /\ work'[r] \in {"ok", "failed"}
      /\ work'[r] = "ok" => i \in accepted'
      /\ \A s \in Runs : s # r => work'[s] = work[s]
  BY DEF HookInv, HookTypeOK, Post
<1>3. /\ accepted \subseteq accepted' /\ accepted' \subseteq Jobs
  BY <1>1 DEF HookInv, HookTypeOK, Post
<1>4. posts' = [posts EXCEPT ![i] = @ + 1] /\ UNCHANGED <<task, run, stops>>
  BY DEF Post
<1>5. HookTypeOK'
  BY <1>1, <1>2, <1>3, <1>4 DEF HookInv, HookTypeOK, QueueInv
<1>6. WorkOK' /\ CompletedAccepted'
  BY <1>1, <1>2, <1>3, <1>4 DEF HookInv, WorkOK, CompletedAccepted
<1>7. ASSUME NEW j \in Jobs, j # i
      PROVE  posts'[j] = posts[j] /\ Posting(j)' = Posting(j)
  BY <1>1, <1>2, <1>4, <1>7 DEF HookInv, HookTypeOK, Posting
<1>8. posts'[i] = posts[i] + 1
  BY <1>1, <1>4 DEF HookInv, HookTypeOK
<1>9. ASSUME NEW j \in Jobs, j = i
      PROVE  Cardinality(Posting(j)') = Cardinality(Posting(j)) - 1
  <2>1. r \in Posting(j) /\ Posting(j)' = Posting(j) \ {r}
    BY <1>2, <1>4, <1>9 DEF Post, Posting
  <2> QED
    BY <2>1, PostingFinite, FS_RemoveElement
<1>10. PostsPaid'
  <2> SUFFICES ASSUME NEW j \in Jobs
               PROVE  posts'[j] + Cardinality(Posting(j)') + Waiting(j)
                        <= task[j].retried + 1 + stops
    BY <1>4 DEF PostsPaid, Waiting
  <2>1. posts[j] + Cardinality(Posting(j)) + Waiting(j) <= task[j].retried + 1 + stops
    BY DEF HookInv, PostsPaid
  <2>2. CASE j # i
    BY <1>7, <2>1, <2>2
  <2>3. CASE j = i
    <3>1. posts'[j] = posts[j] + 1
      BY <1>8, <2>3
    <3>2. Cardinality(Posting(j)') = Cardinality(Posting(j)) - 1
      BY <1>9, <2>3
    <3> QED
      BY <2>1, <3>1, <3>2, WaitingType
  <2> QED
    BY <2>2, <2>3
<1> QED
  BY <1>5, <1>6, <1>10 DEF HookInv

LEMMA PostFailsInv ==
  ASSUME HookInv, QueueInv', NEW r \in Runs, PostFails(r)
  PROVE  HookInv'
<1>1. HookTypeOK' /\ WorkOK' /\ CompletedAccepted'
  BY DEF HookInv, HookTypeOK, WorkOK, CompletedAccepted, QueueInv, PostFails
<1>2. ASSUME NEW j \in Jobs
      PROVE  /\ Cardinality(Posting(j)') \in Nat
             /\ Cardinality(Posting(j)') <= Cardinality(Posting(j))
  <2>1. Posting(j)' \subseteq Posting(j)
    BY DEF HookInv, HookTypeOK, PostFails, Posting
  <2> QED
    BY <2>1, PostingFinite, FS_Subset, FS_CardinalityType
<1>3. PostsPaid'
  <2> SUFFICES ASSUME NEW j \in Jobs
               PROVE  posts[j] + Cardinality(Posting(j)') + Waiting(j)
                        <= task[j].retried + 1 + stops
    BY DEF PostFails, PostsPaid, Waiting
  <2>1. posts[j] + Cardinality(Posting(j)) + Waiting(j) <= task[j].retried + 1 + stops
    BY DEF HookInv, PostsPaid
  <2> QED
    BY <1>2, <2>1, WaitingType
<1> QED
  BY <1>1, <1>3 DEF HookInv

LEMMA HandlerReturnsInv ==
  ASSUME HookInv, QueueInv', NEW r \in Runs, HandlerReturns(r)
  PROVE  HookInv'
<1> DEFINE i == run[r].job
<1>1. i \in Jobs
  BY DEF HookInv, WorkOK, HandlerReturns
<1>2. /\ run' = [run EXCEPT ![r] = NoRun] /\ work' = [work EXCEPT ![r] = "idle"]
      /\ UNCHANGED <<posts, accepted, stops>>
  BY DEF HandlerReturns, Return
<1>3. \/ UNCHANGED task
      \/ Retry(i)
      \/ work[r] = "ok" /\ task' = [task EXCEPT ![i].st = "completed"]
  BY DEF HandlerReturns, Return
<1>4. HookTypeOK'
  BY <1>2 DEF HookInv, HookTypeOK, QueueInv
<1>5. WorkOK'
  BY <1>2 DEF HookInv, HookTypeOK, WorkOK, QueueInv, TypeOK
<1>6. ASSUME NEW j \in Jobs
      PROVE  /\ task'[j].st = "completed" => j \in accepted
             /\ Waiting(j)' + task[j].retried <= Waiting(j) + task'[j].retried
  <2>1. CASE UNCHANGED task
    BY <2>1, WaitingType DEF HookInv, CompletedAccepted, Waiting
  <2>2. CASE Retry(i)
    <3>1. task'[j].st = "completed" => task[j].st = "completed"
      BY <1>1, <2>2, RetryType DEF HookInv, QueueInv
    <3> QED
      BY <1>1, <2>2, <3>1, RetryPays DEF HookInv, QueueInv, CompletedAccepted
  <2>3. CASE work[r] = "ok" /\ task' = [task EXCEPT ![i].st = "completed"]
    <3>1. i \in accepted
      BY <2>3 DEF HookInv, WorkOK
    <3>2. task'[j].retried = task[j].retried /\ Waiting(j)' <= Waiting(j)
      BY <1>1, <2>3 DEF HookInv, QueueInv, TypeOK, Task, Waiting
    <3> QED
      BY <1>1, <2>3, <3>1, <3>2, WaitingType
      DEF HookInv, QueueInv, TypeOK, Task, CompletedAccepted
  <2> QED
    BY <1>3, <2>1, <2>2, <2>3
<1>7. ASSUME NEW j \in Jobs PROVE Posting(j)' = Posting(j)
  BY <1>2 DEF HookInv, HookTypeOK, QueueInv, TypeOK, HandlerReturns, Posting
<1>8. PostsPaid'
  BY <1>2, <1>6, <1>7, WaitingType DEF HookInv, PostsPaid
<1>9. CompletedAccepted'
  BY <1>2, <1>6 DEF CompletedAccepted
<1> QED
  BY <1>4, <1>5, <1>8, <1>9 DEF HookInv

LEMMA ProcessEndsInv ==
  ASSUME HookInv, QueueInv', ProcessEnds
  PROVE  HookInv'
<1>1. work' = [r \in Runs |-> "idle"] /\ UNCHANGED <<posts, accepted>>
  BY DEF ProcessEnds
<1>2. /\ stops' \in 0..MaxStops
      /\ \/ UNCHANGED <<task, stops>>
         \/ /\ stops' = stops + 1
            /\ \A j \in Jobs : /\ task'[j].retried = task[j].retried
                               /\ task'[j].st = "completed" => task[j].st = "completed"
  <2>1. CASE Crash /\ UNCHANGED stops
    BY <2>1 DEF Crash, HookInv, HookTypeOK
  <2>2. CASE Shutdown /\ stops < MaxStops /\ stops' = stops + 1
    <3>1. stops' \in 0..MaxStops
      BY <2>2, WebhooksAssumption DEF HookInv, HookTypeOK
    <3>2. PICK requeued \in SUBSET {r \in Runs : run[r].ctx} :
            task' = [j \in Jobs |-> IF \E r \in requeued : run[r].job = j
                                   THEN [task[j] EXCEPT !.st = "pending"]
                                   ELSE task[j]]
      BY <2>2 DEF Shutdown
    <3> QED
      BY <2>2, <3>1, <3>2 DEF HookInv, QueueInv, TypeOK, Task
  <2> QED
    BY <2>1, <2>2 DEF ProcessEnds
<1>3. HookTypeOK' /\ WorkOK'
  BY <1>1, <1>2 DEF HookInv, HookTypeOK, WorkOK, QueueInv
<1>4. CompletedAccepted'
  BY <1>1, <1>2 DEF HookInv, CompletedAccepted
<1>5. ASSUME NEW j \in Jobs PROVE Cardinality(Posting(j)') = 0
  <2>1. Posting(j)' = {}
    BY <1>1 DEF Posting
  <2> QED
    BY <2>1, FS_EmptySet
<1>6. PostsPaid'
  <2> SUFFICES ASSUME NEW j \in Jobs
               PROVE  posts[j] + 0 + Waiting(j)' <= task'[j].retried + 1 + stops'
    BY <1>1, <1>5 DEF PostsPaid
  <2>1. posts[j] + Cardinality(Posting(j)) + Waiting(j) <= task[j].retried + 1 + stops
    BY DEF HookInv, PostsPaid
  <2>2. CASE UNCHANGED <<task, stops>>
    BY <2>1, <2>2, WaitingType DEF Waiting
  <2>3. CASE stops' = stops + 1 /\ task'[j].retried = task[j].retried
    BY <2>1, <2>3, WaitingType
  <2> QED
    BY <1>2, <2>2, <2>3
<1> QED
  BY <1>3, <1>4, <1>6 DEF HookInv

-----------------------------------------------------------------------------
(* The theorems. *)

LEMMA HookStepInv == HookInv /\ [HookNext]_hookVars => HookInv'
<1> SUFFICES ASSUME HookInv, [HookNext]_hookVars PROVE HookInv'
  OBVIOUS
<1>1. QueueInv'
  BY HookNextIsNext, NextInv DEF HookInv
<1>2. CASE UNCHANGED hookVars
  BY <1>1, <1>2
  DEF hookVars, HookInv, HookTypeOK, WorkOK, CompletedAccepted, PostsPaid, Posting,
      Waiting, QueueInv
<1>3. ASSUME NEW j \in Jobs, EnqueueNotice(j) PROVE HookInv'
  BY <1>1, <1>3, EnqueueNoticeInv
<1>4. ASSUME NEW j \in Jobs, RecoverNotice(j) PROVE HookInv'
  BY <1>1, <1>4, RecoverNoticeInv
<1>5. ASSUME NEW r \in Runs, NEW j \in Jobs, StartHandler(r, j) PROVE HookInv'
  BY <1>1, <1>5, StartHandlerInv
<1>6. ASSUME NEW r \in Runs, GiveUp(r) PROVE HookInv'
  BY <1>1, <1>6, GiveUpHookInv
<1>7. ASSUME NEW r \in Runs, HandlerStep(r) PROVE HookInv'
  BY <1>1, <1>7, PostInv, PostFailsInv, HandlerReturnsInv DEF HandlerStep
<1>8. CASE ProcessEnds
  BY <1>1, <1>8, ProcessEndsInv
<1> QED
  BY <1>2, <1>3, <1>4, <1>5, <1>6, <1>7, <1>8 DEF HookNext

\* The inductive invariant of the delivery of notices.
THEOREM HookInvariance == HookSpec => []HookInv
  BY HookInitInv, HookStepInv, PTL DEF HookSpec

\* Every reachable state is well typed, and no notice is retried more often than
\* webhookMaxRetries allows.
THEOREM HooksTypeCorrect == HookSpec => []HookTypeOK
<1>1. HookInv => HookTypeOK
  BY DEF HookInv
<1> QED
  BY <1>1, HookInvariance, PTL

\* A fire_webhook task is completed only when its endpoint answered with a 2xx
\* status, for any number of runs, given up or not (HandleFireWebhook).
THEOREM CompletedMeansAccepted == HookSpec => []CompletedAccepted
<1>1. HookInv => CompletedAccepted
  BY DEF HookInv
<1> QED
  BY <1>1, HookInvariance, PTL

\* An endpoint receives a notice at most once for the first attempt, each counted
\* retry and each orderly shutdown (HandleFireWebhook behind processor.exec).
THEOREM PostsAreBounded == HookSpec => []PostsBounded
<1>1. ASSUME HookInv PROVE PostsBounded
  <2> SUFFICES ASSUME NEW j \in Jobs PROVE posts[j] <= task[j].retried + 1 + stops
    BY DEF PostsBounded
  <2>1. posts[j] + Cardinality(Posting(j)) + Waiting(j) <= task[j].retried + 1 + stops
    BY <1>1 DEF HookInv, PostsPaid
  <2>2. /\ Cardinality(Posting(j)) \in Nat /\ Waiting(j) \in 0..1
        /\ posts[j] \in Nat /\ stops \in Nat
    BY <1>1, PostingFinite, WebhooksAssumption DEF HookInv, HookTypeOK, Waiting
  <2>3. task[j].retried \in Nat
    BY <1>1, AsynqAssumption DEF HookInv, QueueInv, TypeOK, Task
  <2> QED
    BY <2>1, <2>2, <2>3
<1>2. HookInv => PostsBounded
  BY <1>1
<1> QED
  BY <1>2, HookInvariance, PTL

\* Asynq waits for at most one run of a fire_webhook task.
THEOREM OneDeliveryAtATime == HookSpec => []OneLiveRun
<1>1. HookInv => OneLiveRun
  BY DEF HookInv, QueueInv
<1> QED
  BY <1>1, HookInvariance, PTL

=============================================================================
