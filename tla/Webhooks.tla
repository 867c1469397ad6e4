------------------------------ MODULE Webhooks ------------------------------
(***************************************************************************)
(* Delivery of webhook notices: Processor.HandleFireWebhook behind Asynq.   *)
(*                                                                         *)
(* A task of Asynq is one fire_webhook task.  The handler ignores its       *)
(* context and posts with a time-out of its own, equal to the task's, so a  *)
(* run that Asynq has given up on may still post.  The endpoint is outside  *)
(* the program: it may accept a notice, refuse it, or accept it although    *)
(* its answer does not arrive in time.                                      *)
(***************************************************************************)
EXTENDS Asynq, FiniteSets

CONSTANT MaxStops  \* bound: orderly shutdowns, which count no retry

ASSUME WebhooksAssumption == MaxStops \in Nat /\ IsFiniteSet(Runs)

VARIABLES
  work,      \* step of HandleFireWebhook in each goroutine
  posts,     \* notices the endpoint has received, by task
  accepted,  \* tasks whose notice the endpoint has answered with a 2xx status
  stops      \* orderly shutdowns so far

hookVars == <<task, run, work, posts, accepted, stops>>

HookInit ==
  /\ Init
  /\ work = [r \in Runs |-> "idle"]
  /\ posts = [j \in Jobs |-> 0]
  /\ accepted = {}
  /\ stops = 0

\* client.Enqueue in enqueueWebhooks.
EnqueueNotice(j) == Enqueue(j) /\ UNCHANGED <<run, work, posts, accepted, stops>>

StartHandler(r, j) ==
  /\ Dequeue(r, j)
  /\ work' = [work EXCEPT ![r] = "post"]
  /\ UNCHANGED <<posts, accepted, stops>>

GiveUp(r) ==
  /\ TimeOut(r) \/ LoseLease(r)
  /\ UNCHANGED <<work, posts, accepted, stops>>

RecoverNotice(j) == Recover(j) /\ UNCHANGED <<work, posts, accepted, stops>>

\* Mutation: the status code of the answer is not looked at.
PostUnchecked(r) ==
  /\ work[r] = "post"
  /\ posts' = [posts EXCEPT ![run[r].job] = @ + 1]
  /\ accepted' \in {accepted, accepted \cup {run[r].job}}
  /\ work' = [work EXCEPT ![r] = "ok"]
  /\ UNCHANGED <<task, run, stops>>

\* client.Do: the endpoint receives the notice and accepts it or not; the handler
\* sees a 2xx answer, another one, or none in time.
Post(r) ==
  /\ work[r] = "post"
  /\ posts' = [posts EXCEPT ![run[r].job] = @ + 1]
  /\ \/ accepted' = accepted \cup {run[r].job} /\ work' = [work EXCEPT ![r] = "ok"]
     \/ accepted' = accepted \cup {run[r].job} /\ work' = [work EXCEPT ![r] = "failed"]
     \/ accepted' = accepted /\ work' = [work EXCEPT ![r] = "failed"]
  /\ UNCHANGED <<task, run, stops>>

\* The request cannot be built, or never reaches the endpoint.
PostFails(r) ==
  /\ work[r] = "post"
  /\ work' = [work EXCEPT ![r] = "failed"]
  /\ UNCHANGED <<task, run, posts, accepted, stops>>

HandlerReturns(r) ==
  /\ work[r] \in {"ok", "failed"}
  /\ Return(r, work[r] = "ok")
  /\ work' = [work EXCEPT ![r] = "idle"]
  /\ UNCHANGED <<posts, accepted, stops>>

ProcessEnds ==
  /\ \/ Crash /\ UNCHANGED stops
     \/ Shutdown /\ stops < MaxStops /\ stops' = stops + 1
  /\ work' = [r \in Runs |-> "idle"]
  /\ UNCHANGED <<posts, accepted>>

HandlerStep(r) == Post(r) \/ PostFails(r) \/ HandlerReturns(r)

HookNext ==
  \/ \E j \in Jobs : \/ EnqueueNotice(j) \/ RecoverNotice(j)
                     \/ \E r \in Runs : StartHandler(r, j)
  \/ \E r \in Runs : GiveUp(r) \/ HandlerStep(r)
  \/ ProcessEnds

HookSpec == HookInit /\ [][HookNext]_hookVars

\* A handler returns within its time-out, a pending task is started when a worker
\* is free again and again, and the recoverer notices a lost lease.
HookFairSpec ==
  /\ HookSpec
  /\ \A j \in Jobs : /\ WF_hookVars(RecoverNotice(j))
                     /\ SF_hookVars(\E r \in Runs : StartHandler(r, j))
  /\ \A r \in Runs : WF_hookVars(HandlerStep(r))

-----------------------------------------------------------------------------
(* Properties. *)

\* Every variable stays within its type; no task is retried more than MaxRetry
\* times.
HookTypeOK ==
  /\ TypeOK
  /\ work \in [Runs -> {"idle", "post", "ok", "failed"}]
  /\ posts \in [Jobs -> Nat]
  /\ accepted \subseteq Jobs
  /\ stops \in 0..MaxStops

\* A task is completed only when the endpoint has answered its notice with a 2xx
\* status, although runs that were given up go on, are restarted and report late.
CompletedAccepted == \A j \in Jobs : task[j].st = "completed" => j \in accepted

\* The endpoint receives a notice at most once for the first attempt, once for
\* each retry the task is granted and once for each orderly shutdown; crashes,
\* lost leases and posts of runs that were given up are within that bound.
PostsBounded == \A j \in Jobs : posts[j] <= task[j].retried + 1 + stops

\* Every notice that is enqueued is accepted by the endpoint, or archived after
\* its retries: none is dropped on the way or retried for ever.
AcceptedOrArchived ==
  \A j \in Jobs : task[j].st = "pending" ~> (j \in accepted \/ task[j].st = "archived")

=============================================================================
