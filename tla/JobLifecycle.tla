---------------------------- MODULE JobLifecycle ----------------------------
(***************************************************************************)
(* What the job queue of backend/src/jobs promises about one job, whoever  *)
(* runs it: docs/operations/job-queue.md draws it as a state diagram, the  *)
(* JobStatus type names its states.                                        *)
(*                                                                         *)
(*   - an attempt starts only from the queue, and only while the attempt   *)
(*     budget is not used up;                                              *)
(*   - every attempt has one outcome: success, a retry while budget is     *)
(*     left, or the dead-letter state;                                     *)
(*   - success is final, and only an operator brings a dead job back, with *)
(*     a fresh budget.                                                     *)
(*                                                                         *)
(* JobQueue shows that the guarded updates of the queue implement this,    *)
(* and WebhookDelivery uses it as the queue beneath webhook deliveries.    *)
(***************************************************************************)
EXTENDS Naturals

CONSTANTS
  Jobs,         (* job ids                                                 *)
  MaxAttempts   (* the maxAttempts stored on a job                         *)

ASSUME AttemptBudget == MaxAttempts \in Nat \ {0}

VARIABLE life   (* life[j]: the status and the attempts used of job j      *)

Phases == {"absent", "queued", "running", "succeeded", "dead"}

LifeTypeOK == life \in [Jobs -> [phase : Phases, tries : Nat]]

-----------------------------------------------------------------------------

LifeInit == life = [j \in Jobs |-> [phase |-> "absent", tries |-> 0]]

Submit(j) ==
  /\ life[j].phase = "absent"
  /\ life' = [life EXCEPT ![j] = [phase |-> "queued", tries |-> 0]]

Begin(j) ==
  /\ life[j].phase = "queued"
  /\ life[j].tries < MaxAttempts
  /\ life' = [life EXCEPT ![j] = [phase |-> "running", tries |-> @.tries + 1]]

Finish(j) ==
  /\ life[j].phase = "running"
  /\ life' = [life EXCEPT ![j].phase = "succeeded"]

Retry(j) ==
  /\ life[j].phase = "running"
  /\ life[j].tries < MaxAttempts
  /\ life' = [life EXCEPT ![j].phase = "queued"]

Bury(j) ==
  /\ life[j].phase = "running"
  /\ life' = [life EXCEPT ![j].phase = "dead"]

Revive(j) ==
  /\ life[j].phase = "dead"
  /\ life' = [life EXCEPT ![j] = [phase |-> "queued", tries |-> 0]]

LifeNext ==
  \E j \in Jobs :
    Submit(j) \/ Begin(j) \/ Finish(j) \/ Retry(j) \/ Bury(j) \/ Revive(j)

LifeSpec == LifeInit /\ [][LifeNext]_life

=============================================================================
