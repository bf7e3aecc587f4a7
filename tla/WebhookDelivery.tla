--------------------------- MODULE WebhookDelivery ---------------------------
(***************************************************************************)
(* Outbound webhooks, backend/src/webhooks/service.ts: publishing an event *)
(* to an endpoint, the job handler that sends it, the record of every      *)
(* attempt and the operator's redelivery. The queue beneath is the one     *)
(* JobLifecycle promises and JobQueue implements.                          *)
(*                                                                         *)
(* A delivery is one document, unique per event and endpoint. Each         *)
(* database access and the request to the endpoint are one step, and any   *)
(* of them may throw. A run is one invocation of the handler: it outlives  *)
(* its attempt when the attempt times out or is taken for stalled, for the *)
(* queue then passes the job on while the old invocation is still between  *)
(* two of its steps.                                                       *)
(***************************************************************************)
EXTENDS JobLifecycle, FiniteSets

CONSTANTS
  Deliveries,    (* the (event, endpoint) pairs                            *)
  Callers,       (* requests in progress: publishers and operators         *)
  MaxRedeliver,  (* bound: operator redeliveries of a delivery             *)
  MaxBudgets     (* bound: attempt budgets granted to a delivery           *)

(* The delivery of a job not enqueued yet, and of an idle caller.          *)
None == "none"

ASSUME WebhookConstants ==
  /\ None \notin Deliveries
  /\ MaxRedeliver \in Nat
  /\ MaxBudgets \in Nat

VARIABLES
  delivery,  (* the delivery documents                                     *)
  payload,   (* payload[j]: the delivery a job was enqueued for            *)
  caller,    (* where each request stands                                  *)
  runs,      (* the handler invocations in progress                        *)
  sends,     (* history: requests sent per delivery                        *)
  budgets,   (* history: attempt budgets given to a delivery's jobs        *)
  accepted   (* history: the deliveries an endpoint has received           *)

webhookVars == <<life, delivery, payload, caller, runs, sends, budgets, accepted>>

DeliveryStatuses == {"absent", "pending", "delivered", "failed"}

DeliveryDoc == [status : DeliveryStatuses, redeliveries : Nat]

CallerState == [pc : {"idle", "enqueue", "link", "mark"}, of : Deliveries \cup {None}]

Idle == [pc |-> "idle", of |-> None]

(* holds: the queue still regards this run as the job's current attempt.   *)
RunState ==
  [job : Jobs, attempt : 1..MaxAttempts, holds : BOOLEAN,
   pc : {"look", "send", "recordOk", "recordRetry", "recordFinal",
         "return", "throwRetry", "throwFinal"}]

WebhookTypeOK ==
  /\ LifeTypeOK
  /\ delivery \in [Deliveries -> DeliveryDoc]
  /\ payload \in [Jobs -> Deliveries \cup {None}]
  /\ caller \in [Callers -> CallerState]
  /\ runs \subseteq RunState
  /\ sends \in [Deliveries -> Nat]
  /\ budgets \in [Deliveries -> Nat]
  /\ accepted \subseteq Deliveries

WebhookInit ==
  /\ LifeInit
  /\ delivery = [d \in Deliveries |-> [status |-> "absent", redeliveries |-> 0]]
  /\ payload = [j \in Jobs |-> None]
  /\ caller = [c \in Callers |-> Idle]
  /\ runs = {}
  /\ sends = [d \in Deliveries |-> 0]
  /\ budgets = [d \in Deliveries |-> 0]
  /\ accepted = {}

-----------------------------------------------------------------------------
(* publish and redeliver: a document is written, then schedule() enqueues  *)
(* a job for it and writes the job's id into it.                           *)

(* insertOne: a duplicate of the unique key is skipped.                    *)
InsertableAgain(d) == delivery[d].status # "delivered"   (* mutant: no unique index *)

Insertable(d) == delivery[d].status = "absent"

Publish(c, d) ==
  /\ caller[c].pc = "idle"
  /\ Insertable(d)
  /\ delivery' = [delivery EXCEPT ![d].status = "pending"]
  /\ caller' = [caller EXCEPT ![c] = [pc |-> "enqueue", of |-> d]]
  /\ UNCHANGED <<life, payload, runs, sends, budgets, accepted>>

Redeliver(c, d) ==
  /\ caller[c].pc = "idle"
  /\ delivery[d].status = "failed"
  /\ delivery[d].redeliveries < MaxRedeliver
  /\ delivery' = [delivery EXCEPT ![d].status = "pending", ![d].redeliveries = @ + 1]
  /\ caller' = [caller EXCEPT ![c] = [pc |-> "enqueue", of |-> d]]
  /\ UNCHANGED <<life, payload, runs, sends, budgets, accepted>>

(* The job is inserted; the reply may be lost, which throws.               *)
Enqueue(c, j) ==
  /\ caller[c].pc = "enqueue"
  /\ budgets[caller[c].of] < MaxBudgets
  /\ Submit(j)
  /\ payload' = [payload EXCEPT ![j] = caller[c].of]
  /\ budgets' = [budgets EXCEPT ![caller[c].of] = @ + 1]
  /\ \E to \in {"link", "mark"} : caller' = [caller EXCEPT ![c].pc = to]
  /\ UNCHANGED <<delivery, runs, sends, accepted>>

EnqueueThrows(c) ==
  /\ caller[c].pc = "enqueue"
  /\ caller' = [caller EXCEPT ![c].pc = "mark"]
  /\ UNCHANGED <<life, delivery, payload, runs, sends, budgets, accepted>>

(* The updateOne that stores the job's id, or its failure.                 *)
Link(c) ==
  /\ caller[c].pc = "link"
  /\ \/ caller' = [caller EXCEPT ![c] = Idle]
     \/ caller' = [caller EXCEPT ![c].pc = "mark"]
  /\ UNCHANGED <<life, delivery, payload, runs, sends, budgets, accepted>>

(* The catch of schedule(): the delivery is marked failed, whatever it is  *)
(* by now; an error of this update is swallowed.                           *)
MarkFailed(c) ==
  /\ caller[c].pc = "mark"
  /\ \/ delivery' = [delivery EXCEPT ![caller[c].of].status = "failed"]
     \/ UNCHANGED delivery
  /\ caller' = [caller EXCEPT ![c] = Idle]
  /\ UNCHANGED <<life, payload, runs, sends, budgets, accepted>>

(* The process that serves the request dies.                               *)
CallerDies(c) ==
  /\ caller[c].pc # "idle"
  /\ caller' = [caller EXCEPT ![c] = Idle]
  /\ UNCHANGED <<life, delivery, payload, runs, sends, budgets, accepted>>

-----------------------------------------------------------------------------
(* deliver: one invocation of the handler, step by step.                   *)

Of(r) == payload[r.job]

Moved(r, to) == (runs \ {r}) \cup {[r EXCEPT !.pc = to]}

(* A worker claims the job and calls the handler.                          *)
StartRun(j) ==
  /\ Begin(j)
  /\ runs' = runs \cup {[job |-> j, attempt |-> life[j].tries + 1, holds |-> TRUE, pc |-> "look"]}
  /\ UNCHANGED <<delivery, payload, caller, sends, budgets, accepted>>

(* findOne, and the check that skips what was already delivered.           *)
Look(r) ==
  /\ r.pc = "look"
  /\ runs' = Moved(r, IF delivery[Of(r)].status = "delivered" THEN "return" ELSE "send")
  /\ UNCHANGED <<life, delivery, payload, caller, sends, budgets, accepted>>

(* The endpoint receives the request or not, and the answer it gives is    *)
(* seen or lost: 2xx, a transient or a permanent failure.                  *)
RetriedInPlace == {"send", "recordFinal"}   (* mutant: the client retries by itself *)

TakenForSuccess == {"recordOk"}             (* mutant: only network errors throw *)

Unaccepted == {"recordRetry", "recordFinal"}

Send(r) ==
  /\ r.pc = "send"
  /\ sends' = [sends EXCEPT ![Of(r)] = @ + 1]
  /\ \/ /\ accepted' = accepted \cup {Of(r)}
        /\ \E to \in {"recordOk", "recordRetry"} : runs' = Moved(r, to)
     \/ /\ \E to \in Unaccepted : runs' = Moved(r, to)
        /\ UNCHANGED accepted
  /\ UNCHANGED <<life, delivery, payload, caller, budgets>>

(* recordAttempt: no document matches once the delivery is delivered.      *)
RecordableAlways(d) == delivery[d].status # "absent"   (* mutant: filter by _id only *)

Recordable(d) == delivery[d].status # "delivered"

Record(d, status) ==
  IF Recordable(d)
  THEN delivery' = [delivery EXCEPT ![d].status = status]
  ELSE UNCHANGED delivery

(* Recording the success throws into the catch of deliver(), which takes   *)
(* it for a failed request.                                                *)
RecordDelivered(r) ==
  /\ r.pc = "recordOk"
  /\ \/ Record(Of(r), "delivered") /\ runs' = Moved(r, "return")
     \/ UNCHANGED delivery /\ runs' = Moved(r, "recordRetry")
  /\ UNCHANGED <<life, payload, caller, sends, budgets, accepted>>

OutcomeStored(final) == IF final THEN "failed" ELSE "retry"   (* mutant: the outcome for the status *)

AfterFailure(final) == IF final THEN "failed" ELSE "pending"

(* The record of a failed attempt. If it throws, that error replaces the   *)
(* JobError and counts as retryable.                                       *)
RecordFailure(r) ==
  LET final == r.pc = "recordFinal" \/ r.attempt >= MaxAttempts IN
  /\ r.pc \in {"recordRetry", "recordFinal"}
  /\ \/ /\ Record(Of(r), AfterFailure(final))
        /\ runs' = Moved(r, IF r.pc = "recordFinal" THEN "throwFinal" ELSE "throwRetry")
     \/ /\ UNCHANGED delivery
        /\ runs' = Moved(r, "throwRetry")
  /\ UNCHANGED <<life, payload, caller, sends, budgets, accepted>>

-----------------------------------------------------------------------------
(* What becomes of the job. Only the run the queue regards as current      *)
(* decides: JobQueue shows OwnerRunsLatestAttempt of the worker's updates. *)

Returns(r) ==
  /\ r.pc = "return"
  /\ IF r.holds THEN Finish(r.job) ELSE UNCHANGED life
  /\ runs' = runs \ {r}
  /\ UNCHANGED <<delivery, payload, caller, sends, budgets, accepted>>

(* fail(): dead if not retryable or out of attempts.                       *)
Throws(r) ==
  /\ r.pc \in {"throwRetry", "throwFinal"}
  /\ IF r.holds
     THEN IF r.pc = "throwFinal" THEN Bury(r.job)
          ELSE Retry(r.job) \/ (r.attempt >= MaxAttempts /\ Bury(r.job))
     ELSE UNCHANGED life
  /\ runs' = runs \ {r}
  /\ UNCHANGED <<delivery, payload, caller, sends, budgets, accepted>>

(* The worker dies, or its complete() or fail() throws: the job is left    *)
(* running, for the stall recovery to find.                                *)
RunDies(r) ==
  /\ runs' = runs \ {r}
  /\ UNCHANGED <<life, delivery, payload, caller, sends, budgets, accepted>>

(* The attempt's timeout, or the stall recovery: the job goes on without   *)
(* the run, which is not stopped by it.                                    *)
TakenAway(j) ==
  /\ Retry(j) \/ (life[j].tries >= MaxAttempts /\ Bury(j))
  /\ runs' = {IF r.job = j THEN [r EXCEPT !.holds = FALSE] ELSE r : r \in runs}
  /\ UNCHANGED <<delivery, payload, caller, sends, budgets, accepted>>

(* The operator retries a dead job.                                        *)
RetryDead(j) ==
  /\ Revive(j)
  /\ budgets[payload[j]] < MaxBudgets
  /\ budgets' = [budgets EXCEPT ![payload[j]] = @ + 1]
  /\ UNCHANGED <<delivery, payload, caller, runs, sends, accepted>>

-----------------------------------------------------------------------------

CallerStep(c) ==
  \/ \E d \in Deliveries : Publish(c, d) \/ Redeliver(c, d)
  \/ \E j \in Jobs : Enqueue(c, j)
  \/ EnqueueThrows(c) \/ Link(c) \/ MarkFailed(c) \/ CallerDies(c)

InvocationStep(r) ==
  \/ Look(r) \/ Send(r) \/ RecordDelivered(r) \/ RecordFailure(r)
  \/ Returns(r) \/ Throws(r) \/ RunDies(r)

WebhookNext ==
  \/ \E c \in Callers : CallerStep(c)
  \/ \E j \in Jobs : StartRun(j) \/ TakenAway(j) \/ RetryDead(j)
  \/ \E r \in runs : InvocationStep(r)

WebhookSpec == WebhookInit /\ [][WebhookNext]_webhookVars

-----------------------------------------------------------------------------
(* Properties.                                                             *)

JobsOf(d) == {j \in Jobs : payload[j] = d}

(* Publishing is idempotent: however many requests publish an event at the *)
(* same time and however their steps fail, one job is queued per delivery, *)
(* and one more for each redelivery an operator asked for.                 *)
OneJobPerRequest ==
  \A d \in Deliveries : Cardinality(JobsOf(d)) <= 1 + delivery[d].redeliveries

(* "Attempts are never multiplied": timeouts, stalls and lost outcomes     *)
(* included, an endpoint is sent at most maxAttempts requests for each     *)
(* attempt budget, that is for each job queued for the delivery and each   *)
(* retry of a dead one.                                                    *)
SendsWithinBudget == \A d \in Deliveries : sends[d] <= MaxAttempts * budgets[d]

(* No false success: a delivery is marked delivered, and its job succeeds, *)
(* only after the endpoint has received it.                                *)
DeliveredWasAccepted ==
  \A d \in Deliveries :
    \/ delivery[d].status = "delivered"
    \/ \E j \in JobsOf(d) : life[j].phase = "succeeded"
    => d \in accepted

(* "An attempt record never downgrades a delivered delivery": no run, of   *)
(* whatever age, and no redelivery takes a delivery out of the delivered   *)
(* state; only the failure path of schedule() can.                         *)
AttemptsNeverDowngrade ==
  \A d \in Deliveries :
    delivery[d].status = "delivered" /\ delivery'[d].status # "delivered"
    => \E c \in Callers : caller[c] = [pc |-> "mark", of |-> d]

(* webhooks.md: "Delivered stays delivered." The code does not keep this,  *)
(* so no run checks it (see the README).                                   *)
DeliveredStaysDelivered ==
  [][\A d \in Deliveries :
       delivery[d].status = "delivered" => delivery'[d].status = "delivered"]_webhookVars

(* The comment on WebhookDeliveryStatus: a pending delivery is one whose   *)
(* "backing job is queued or running"; checked once no request is still at *)
(* work on scheduling it. The code does not keep this, so no run checks it *)
(* (see the README).                                                       *)
PendingHasLiveJob ==
  \A d \in Deliveries :
    /\ delivery[d].status = "pending"
    /\ \A c \in Callers : caller[c].of # d
    => \E j \in JobsOf(d) : life[j].phase \in {"queued", "running"}

(* What is queued, sent and recorded of a delivery is what was asked for.  *)
DeliveriesAreHonest ==
  WebhookTypeOK /\ OneJobPerRequest /\ SendsWithinBudget /\ DeliveredWasAccepted

=============================================================================
