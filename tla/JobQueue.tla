------------------------------ MODULE JobQueue ------------------------------
(***************************************************************************)
(* The MongoDB-backed job queue of backend/src/jobs (queue.ts, worker.ts,  *)
(* handlers.ts): job documents, worker slots that claim and run them, the  *)
(* heartbeat timer of every run, the per-attempt timeout, the stall        *)
(* recovery loop and the operator's retry of a dead job.                   *)
(*                                                                         *)
(* Every access to the database is one step: MongoDB applies an updateOne  *)
(* or a findOneAndUpdate atomically, and the code awaits each of them, so  *)
(* anything may happen between two of them. A handler is the reindex loop  *)
(* of handlers.ts: ask for the records to refresh, refresh a batch of      *)
(* them, save the offset reached, go on. Every attempt asks again, and the *)
(* offset it resumes from counts records of the answer an earlier attempt  *)
(* got.                                                                    *)
(*                                                                         *)
(* Time is abstracted to what the guards compare it with. `ready' is       *)
(* "runAt <= now", `stale' is "heartbeatAt < now - stallTimeout". The      *)
(* guard "heartbeatAt equals the value read" of the stall recovery is the  *)
(* flag `same' of a snapshot: TRUE until something writes or unsets the    *)
(* heartbeat of the job, since a later write stores a later time.          *)
(***************************************************************************)
EXTENDS Naturals, FiniteSets, Sequences

CONSTANTS
  Jobs,         (* job ids                                                 *)
  Slots,        (* worker ids: one per instance, queue and slot number     *)
  Instances,    (* a partition of Slots: the slots that crash together     *)
  Recoverers,   (* the stall recovery loops, one per instance              *)
  MaxAttempts,  (* maxAttempts of a job                                    *)
  Records,      (* ids of the records a job may be asked to refresh        *)
  Listings,     (* the lists of records resolveTargets may answer          *)
  MaxTargets,   (* bound: records in one such list                         *)
  BatchSize,    (* REINDEX_BATCH_SIZE, also the checkpoint granularity     *)
  MaxManual,    (* bound: operator retries per job                         *)
  MaxZombies    (* bound: handlers that outlive their attempt, at one time *)

(* The lockedBy of a job nobody holds.                                     *)
None == "none"

ASSUME ConstantsOK ==
  /\ None \notin Slots
  /\ Instances \subseteq SUBSET Slots
  /\ MaxAttempts \in Nat \ {0}
  /\ MaxTargets \in Nat
  /\ \A list \in Listings : list \in Seq(Records) /\ Len(list) <= MaxTargets
  /\ BatchSize \in Nat \ {0}
  /\ MaxManual \in Nat
  /\ MaxZombies \in Nat

VARIABLES
  job,      (* the job documents                                           *)
  pc,       (* where each slot's loop stands                               *)
  run,      (* the attempt a busy slot is processing                       *)
  zombies,  (* handlers still running after their attempt timed out        *)
  snap,     (* what each recovery loop has read and not yet acted on       *)
  worked,   (* history: the records ever refreshed for a job               *)
  listed,   (* history: the latest list an attempt of a job worked from    *)
  moved     (* history: some attempt's list did not continue the one       *)
            (* before it: records were inserted, removed or reordered      *)

vars == <<job, pc, run, zombies, snap, worked, listed, moved>>

-----------------------------------------------------------------------------
(* Documents and local state.                                              *)

Statuses == {"absent", "queued", "running", "succeeded", "dead"}

JobDoc == [status : Statuses, ready : BOOLEAN, attempts : Nat,
           lockedBy : Slots \cup {None}, stale : BOOLEAN,
           checkpoint : 0..MaxTargets, manualRetries : Nat]

NoDoc == [status |-> "absent", ready |-> FALSE, attempts |-> 0, lockedBy |-> None,
          stale |-> FALSE, checkpoint |-> 0, manualRetries |-> 0]

(* One attempt: the job as claimed (its attempts and manualRetries tell    *)
(* attempts apart) and the local state of its handler.                     *)
Phases == {"resolve", "check", "work", "save"}

Run == [job : Jobs, slot : Slots, epoch : Nat, attempt : Nat,
        targets : Seq(Records), offset : 0..MaxTargets,
        phase : Phases, aborted : BOOLEAN]

NoRun == [slot |-> None]

PCs == {"idle", "handling", "completing", "failRetry", "failFinal"}

NoSnap == [attempts |-> 0, same |-> FALSE, taken |-> FALSE]

Snapshot == [attempts : Nat, same : BOOLEAN, taken : BOOLEAN]

TypeOK ==
  /\ job \in [Jobs -> JobDoc]
  /\ pc \in [Slots -> PCs]
  /\ run \in [Slots -> Run \cup {NoRun}]
  /\ zombies \subseteq Run
  /\ snap \in [Recoverers -> [Jobs -> Snapshot]]
  /\ worked \in [Jobs -> SUBSET Records]
  /\ listed \in [Jobs -> Seq(Records)]
  /\ moved \in [Jobs -> BOOLEAN]

Busy(s) == pc[s] # "idle"

(* The filter {_id, status: "running", lockedBy: workerId} of every update *)
(* a worker makes.                                                         *)
Owned(j, s) == job[j].status = "running" /\ job[j].lockedBy = s

(* A write to heartbeatAt of job j: snapshots of it no longer match.       *)
StillMatching(sn) == sn   (* mutant: recovery does not compare heartbeatAt *)

Outdated(sn) == [sn EXCEPT !.same = FALSE]

Touch(j) ==
  snap' = [r \in Recoverers |-> [snap[r] EXCEPT ![j] = Outdated(snap[r][j])]]

(* The updates of a document: claim, saveCheckpoint, heartbeat, complete,  *)
(* failureUpdate (dead-letter, or back on the queue after a delay) and     *)
(* retryDead.                                                              *)
Claimed(d, s) ==
  [d EXCEPT !.status = "running", !.lockedBy = s, !.stale = FALSE,
            !.attempts = @ + 1, !.ready = FALSE]

CheckpointedAhead(d, n) ==   (* mutant: the next offset, counted twice *)
  [d EXCEPT !.checkpoint = n + 1, !.stale = FALSE]

Checkpointed(d, n) == [d EXCEPT !.checkpoint = n, !.stale = FALSE]

Refreshed(d) == [d EXCEPT !.stale = FALSE]

Succeeded(d) ==
  [d EXCEPT !.status = "succeeded", !.lockedBy = None, !.stale = FALSE, !.checkpoint = 0]

Failed(d, to) ==
  [d EXCEPT !.status = to,
            !.lockedBy = None, !.stale = FALSE, !.ready = FALSE]

Revived(d, fresh) ==
  [d EXCEPT !.status = "queued", !.ready = TRUE, !.attempts = 0,
            !.checkpoint = IF fresh THEN 0 ELSE @, !.manualRetries = @ + 1]

-----------------------------------------------------------------------------

Init ==
  /\ job = [j \in Jobs |-> NoDoc]
  /\ pc = [s \in Slots |-> "idle"]
  /\ run = [s \in Slots |-> NoRun]
  /\ zombies = {}
  /\ snap = [r \in Recoverers |-> [j \in Jobs |-> NoSnap]]
  /\ worked = [j \in Jobs |-> {}]
  /\ listed = [j \in Jobs |-> << >>]
  /\ moved = [j \in Jobs |-> FALSE]

(* enqueue: runAt is now, or the later time the caller asks for.           *)
Enqueue(j) ==
  /\ job[j].status = "absent"
  /\ \E now \in BOOLEAN :
       job' = [job EXCEPT ![j] = [NoDoc EXCEPT !.status = "queued", !.ready = now]]
  /\ UNCHANGED <<pc, run, zombies, snap, worked, listed, moved>>

RunAtPasses(j) ==
  /\ job[j].status = "queued"
  /\ ~job[j].ready
  /\ job' = [job EXCEPT ![j].ready = TRUE]
  /\ UNCHANGED <<pc, run, zombies, snap, worked, listed, moved>>

(* The findOneAndUpdate of claim. Any ready job may be the one with the    *)
(* oldest runAt.                                                           *)
Claimable(s, j) ==
  /\ ~Busy(s)
  /\ job[j].status = "queued"
  /\ job[j].ready

NewRunAsBefore(s, j) ==   (* mutant: the document as before the claim *)
  [job |-> j, slot |-> s, epoch |-> job[j].manualRetries,
   attempt |-> job[j].attempts, targets |-> << >>, offset |-> job[j].checkpoint,
   phase |-> "resolve", aborted |-> FALSE]

NewRun(s, j) ==
  [job |-> j, slot |-> s, epoch |-> job[j].manualRetries,
   attempt |-> job[j].attempts + 1, targets |-> << >>, offset |-> job[j].checkpoint,
   phase |-> "resolve", aborted |-> FALSE]

Claim(s, j) ==
  /\ Claimable(s, j)
  /\ job' = [job EXCEPT ![j] = Claimed(@, s)]
  /\ pc' = [pc EXCEPT ![s] = "handling"]
  /\ run' = [run EXCEPT ![s] = NewRun(s, j)]
  /\ Touch(j)
  /\ UNCHANGED <<zombies, worked, listed, moved>>

(* The claim is applied but claim() throws: its reply is lost, or the      *)
(* second update, which counts a resumed attempt, fails. The loop logs it  *)
(* and polls again; the job stays running with nobody working on it.       *)
ClaimThrows(s, j) ==
  /\ Claimable(s, j)
  /\ job' = [job EXCEPT ![j] = Claimed(@, s)]
  /\ Touch(j)
  /\ UNCHANGED <<pc, run, zombies, worked, listed, moved>>

-----------------------------------------------------------------------------
(* The handler of a slot: a list of records, then one batch after the      *)
(* other.                                                                  *)

(* A list that only grew at its end.                                       *)
IsPrefix(list, longer) ==
  /\ Len(list) <= Len(longer)
  /\ \A i \in 1..Len(list) : list[i] = longer[i]

AtPhase(r, phase) == [r EXCEPT !.phase = phase]

WithTargets(r, list) == [r EXCEPT !.phase = "check", !.targets = list]

(* Where the batch at the offset ends: the last one may be short.          *)
BatchEnd(r) ==
  IF r.offset + BatchSize <= Len(r.targets) THEN r.offset + BatchSize ELSE Len(r.targets)

NextUnit(r) == [r EXCEPT !.phase = "check", !.offset = BatchEnd(r)]

Aborted(r) == [r EXCEPT !.aborted = TRUE]

(* The attempt has failed: of its run only what fail() and the heartbeat   *)
(* read is still of use.                                                   *)
Ended(r) ==
  [r EXCEPT !.phase = "resolve", !.targets = << >>, !.offset = 0, !.aborted = TRUE]

(* resolveTargets answers, in every attempt anew, and the attempt goes on  *)
(* from its offset in this answer.                                         *)
Resolve(s) ==
  /\ pc[s] = "handling"
  /\ run[s].phase = "resolve"
  /\ \E list \in Listings :
       /\ run[s].offset <= Len(list)
       /\ run' = [run EXCEPT ![s] = WithTargets(@, list)]
       /\ listed' = [listed EXCEPT ![run[s].job] = list]
       /\ moved' = [moved EXCEPT ![run[s].job] = @ \/ ~IsPrefix(listed[run[s].job], list)]
  /\ UNCHANGED <<job, pc, zombies, snap, worked>>

(* The answer is shorter than what was done: INVALID_CHECKPOINT, retryable *)
(* like every JobError that does not say otherwise.                        *)
CheckpointInvalid(s) ==
  /\ pc[s] = "handling"
  /\ run[s].phase = "resolve"
  /\ \E list \in Listings : run[s].offset > Len(list)
  /\ pc' = [pc EXCEPT ![s] = "failRetry"]
  /\ run' = [run EXCEPT ![s] = Ended(@)]
  /\ UNCHANGED <<job, zombies, snap, worked, listed, moved>>

(* The head of the loop: stop if the signal is aborted, else take a batch. *)
StartUnit(s) ==
  /\ pc[s] = "handling"
  /\ run[s].phase = "check"
  /\ ~run[s].aborted
  /\ run[s].offset < Len(run[s].targets)
  /\ run' = [run EXCEPT ![s] = AtPhase(@, "work")]
  /\ UNCHANGED <<job, pc, zombies, snap, worked, listed, moved>>

(* The records of the batch are refreshed; saving the checkpoint comes     *)
(* next. A batch left half way counts as not refreshed.                    *)
Batch(r) == {r.targets[i] : i \in (r.offset + 1)..BatchEnd(r)}

Perform(r) == worked' = [worked EXCEPT ![r.job] = @ \cup Batch(r)]

FinishUnit(s) ==
  /\ pc[s] = "handling"
  /\ run[s].phase = "work"
  /\ Perform(run[s])
  /\ run' = [run EXCEPT ![s] = AtPhase(@, "save")]
  /\ UNCHANGED <<job, pc, zombies, snap, listed, moved>>

(* saveCheckpoint: guarded by the lock, and a heartbeat too.               *)
WriteCheckpoint(r) ==
  /\ job' = [job EXCEPT ![r.job] = Checkpointed(@, BatchEnd(r))]
  /\ Touch(r.job)

SaveCheckpoint(s) ==
  /\ pc[s] = "handling"
  /\ run[s].phase = "save"
  /\ Owned(run[s].job, s)
  /\ WriteCheckpoint(run[s])
  /\ run' = [run EXCEPT ![s] = NextUnit(@)]
  /\ UNCHANGED <<pc, zombies, worked, listed, moved>>

(* No document matched: the signal is aborted and LOCK_LOST thrown.        *)
SaveLosesLock(s) ==
  /\ pc[s] = "handling"
  /\ run[s].phase = "save"
  /\ ~Owned(run[s].job, s)
  /\ run' = [run EXCEPT ![s] = Ended(@)]
  /\ pc' = [pc EXCEPT ![s] = "failRetry"]
  /\ UNCHANGED <<job, zombies, snap, worked, listed, moved>>

HandlerReturns(s) ==
  /\ pc[s] = "handling"
  /\ run[s].phase = "check"
  /\ run[s].offset = Len(run[s].targets)
  /\ pc' = [pc EXCEPT ![s] = "completing"]
  /\ UNCHANGED <<job, run, zombies, snap, worked, listed, moved>>

(* Any error of the handler, or no handler for the type; isRetryable.      *)
HandlerThrows(s) ==
  /\ pc[s] = "handling"
  /\ \E to \in {"failRetry", "failFinal"} : pc' = [pc EXCEPT ![s] = to]
  /\ run' = [run EXCEPT ![s] = Ended(@)]
  /\ UNCHANGED <<job, zombies, snap, worked, listed, moved>>

(* runWithTimeout: the signal is aborted and the race rejects, but the     *)
(* handler's promise runs on until its next look at the signal.            *)
TimesOut(s) ==
  /\ pc[s] = "handling"
  /\ pc' = [pc EXCEPT ![s] = "failRetry"]
  /\ run' = [run EXCEPT ![s] = Ended(@)]
  /\ Cardinality(zombies) < MaxZombies
  /\ zombies' = zombies \cup {Aborted(run[s])}
  /\ UNCHANGED <<job, snap, worked, listed, moved>>

ZombieFinishesUnit(z) ==
  /\ z.phase = "work"
  /\ Perform(z)
  /\ zombies' = (zombies \ {z}) \cup {AtPhase(z, "save")}
  /\ UNCHANGED <<job, pc, run, snap, listed, moved>>

(* The same saveCheckpoint, guarded by the same worker id.                 *)
ZombieSaves(z) ==
  /\ z.phase = "save"
  /\ Owned(z.job, z.slot)
  /\ WriteCheckpoint(z)
  /\ zombies' = (zombies \ {z}) \cup {NextUnit(z)}
  /\ UNCHANGED <<pc, run, worked, listed, moved>>

(* The progress report that follows, or the one that follows the answer of *)
(* resolveTargets, is a heartbeat as well.                                 *)
ZombieReports(z) ==
  /\ z.phase \in {"resolve", "check"}
  /\ Owned(z.job, z.slot)
  /\ job' = [job EXCEPT ![z.job] = Refreshed(@)]
  /\ Touch(z.job)
  /\ zombies' = zombies \ {z}
  /\ UNCHANGED <<pc, run, worked, listed, moved>>

(* It throws to nobody: its lock is gone, its work failed, or it sees the  *)
(* aborted signal at the head of its loop.                                 *)
ZombieEnds(z) ==
  /\ zombies' = zombies \ {z}
  /\ UNCHANGED <<job, pc, run, snap, worked, listed, moved>>

-----------------------------------------------------------------------------
(* The outcome of an attempt.                                              *)

Release(s) ==
  /\ pc' = [pc EXCEPT ![s] = "idle"]
  /\ run' = [run EXCEPT ![s] = NoRun]

CompleteUnguarded(s) ==   (* mutant: complete() filters by _id only *)
  LET j == run[s].job IN
  job' = [job EXCEPT ![j] = Succeeded(@)] /\ Touch(j)

CompleteUpdate(s) ==
  LET j == run[s].job IN
  IF Owned(j, s)
  THEN /\ job' = [job EXCEPT ![j] = Succeeded(@)]
       /\ Touch(j)
  ELSE UNCHANGED <<job, snap>>

Complete(s) ==
  /\ pc[s] = "completing"
  /\ CompleteUpdate(s)
  /\ Release(s)
  /\ UNCHANGED <<zombies, worked, listed, moved>>

(* complete() throws, applied or not: process records it as a failure.     *)
CompleteThrows(s) ==
  /\ pc[s] = "completing"
  /\ CompleteUpdate(s) \/ UNCHANGED <<job, snap>>
  /\ pc' = [pc EXCEPT ![s] = "failRetry"]
  /\ run' = [run EXCEPT ![s] = Ended(@)]
  /\ UNCHANGED <<zombies, worked, listed, moved>>

(* fail: dead when not retryable or when the attempts of the job as        *)
(* claimed have reached the budget.                                        *)
VerdictLate(attempts) ==   (* mutant: > for >= *)
  IF attempts > MaxAttempts THEN "dead" ELSE "queued"

Verdict(attempts) == IF attempts >= MaxAttempts THEN "dead" ELSE "queued"

Fail(s) ==
  LET j == run[s].job
      to == IF pc[s] = "failFinal" THEN "dead" ELSE Verdict(run[s].attempt)
  IN /\ pc[s] \in {"failRetry", "failFinal"}
     /\ IF Owned(j, s)
        THEN job' = [job EXCEPT ![j] = Failed(@, to)] /\ Touch(j)
        ELSE UNCHANGED <<job, snap>>
     /\ Release(s)
     /\ UNCHANGED <<zombies, worked, listed, moved>>

(* fail() throws and is not applied: "stall recovery will requeue it".     *)
FailThrows(s) ==
  /\ pc[s] \in {"failRetry", "failFinal"}
  /\ Release(s)
  /\ UNCHANGED <<job, zombies, snap, worked, listed, moved>>

(* The heartbeat timer of a run, and reportProgress, which has the same    *)
(* guard and effect: refresh, or abort the signal when the lock is lost.   *)
Heartbeat(s) ==
  /\ Busy(s)
  /\ IF Owned(run[s].job, s)
     THEN /\ job' = [job EXCEPT ![run[s].job] = Refreshed(@)]
          /\ Touch(run[s].job)
          /\ UNCHANGED run
     ELSE /\ run' = [run EXCEPT ![s] = Aborted(@)]
          /\ UNCHANGED <<job, snap>>
  /\ UNCHANGED <<pc, zombies, worked, listed, moved>>

-----------------------------------------------------------------------------
(* Failures, stall recovery and the operator.                              *)

(* A process dies and comes back with the same worker ids (same host and   *)
(* process id, the normal case of a restarted container).                  *)
Crash(I) ==
  /\ \E s \in I : Busy(s) \/ \E z \in zombies : z.slot = s
  /\ pc' = [s \in Slots |-> IF s \in I THEN "idle" ELSE pc[s]]
  /\ run' = [s \in Slots |-> IF s \in I THEN NoRun ELSE run[s]]
  /\ zombies' = {z \in zombies : z.slot \notin I}
  /\ UNCHANGED <<job, snap, worked, listed, moved>>

(* The stall timeout passes without a heartbeat: the worker is gone, or    *)
(* its event loop or its connection is blocked.                            *)
HeartbeatExpires(j) ==
  /\ job[j].status = "running"
  /\ ~job[j].stale
  /\ job' = [job EXCEPT ![j].stale = TRUE]
  /\ UNCHANGED <<pc, run, zombies, snap, worked, listed, moved>>

(* The find of recoverStalled.                                             *)
StalledWithBudget ==   (* mutant: jobs on their last attempt are left out *)
  {j \in Jobs : job[j].status = "running" /\ job[j].stale /\ job[j].attempts < MaxAttempts}

Stalled == {j \in Jobs : job[j].status = "running" /\ job[j].stale}

Scan(r) ==
  /\ \A j \in Jobs : ~snap[r][j].taken
  /\ Stalled # {}
  /\ snap' = [snap EXCEPT ![r] =
                [j \in Jobs |-> IF j \in Stalled
                                THEN [attempts |-> job[j].attempts, same |-> TRUE, taken |-> TRUE]
                                ELSE NoSnap]]
  /\ UNCHANGED <<job, pc, run, zombies, worked, listed, moved>>

(* One turn of its loop: the guarded update, decided on what was read.     *)
Recover(r, j) ==
  LET seen == snap[r][j]
      to == Verdict(seen.attempts)
  IN
  /\ seen.taken
  /\ IF job[j].status = "running" /\ seen.same
     THEN /\ job' = [job EXCEPT ![j] = Failed(@, to)]
          /\ snap' = [q \in Recoverers |->
                        [snap[q] EXCEPT ![j] = IF q = r THEN NoSnap
                                               ELSE Outdated(snap[q][j])]]
     ELSE /\ snap' = [snap EXCEPT ![r][j] = NoSnap]
          /\ UNCHANGED job
  /\ UNCHANGED <<pc, run, zombies, worked, listed, moved>>

(* The recovery loop throws or its process dies half way.                  *)
RecoveryStops(r) ==
  /\ \E j \in Jobs : snap[r][j].taken
  /\ snap' = [snap EXCEPT ![r] = [j \in Jobs |-> NoSnap]]
  /\ UNCHANGED <<job, pc, run, zombies, worked, listed, moved>>

(* retryDead: a fresh attempt budget, from the checkpoint or from nothing. *)
RetryDead(j, fresh) ==
  /\ job[j].status = "dead"
  /\ job[j].manualRetries < MaxManual
  /\ job' = [job EXCEPT ![j] = Revived(@, fresh)]
  /\ UNCHANGED <<pc, run, zombies, snap, worked, listed, moved>>

-----------------------------------------------------------------------------

SlotStep(s) ==
  \/ \E j \in Jobs : Claim(s, j) \/ ClaimThrows(s, j)
  \/ Resolve(s) \/ CheckpointInvalid(s)
  \/ StartUnit(s) \/ FinishUnit(s) \/ SaveCheckpoint(s) \/ SaveLosesLock(s)
  \/ HandlerReturns(s) \/ HandlerThrows(s) \/ TimesOut(s)
  \/ Complete(s) \/ CompleteThrows(s) \/ Fail(s) \/ FailThrows(s)
  \/ Heartbeat(s)

ZombieStep(z) ==
  ZombieFinishesUnit(z) \/ ZombieSaves(z) \/ ZombieReports(z) \/ ZombieEnds(z)

RecoveryStep(r) == Scan(r) \/ RecoveryStops(r) \/ \E j \in Jobs : Recover(r, j)

Next ==
  \/ \E j \in Jobs : Enqueue(j) \/ RunAtPasses(j) \/ HeartbeatExpires(j)
  \/ \E s \in Slots : SlotStep(s)
  \/ \E z \in zombies : ZombieStep(z)
  \/ \E I \in Instances : Crash(I)
  \/ \E r \in Recoverers : RecoveryStep(r)
  \/ \E j \in Jobs, fresh \in BOOLEAN : RetryDead(j, fresh)

Spec == Init /\ [][Next]_vars

(* What the scheduling guarantees: timers fire (the delay of a retry, the  *)
(* attempt's timeout, the recovery loop's interval), a free slot polls, a  *)
(* heartbeat nobody sends expires, and database errors do not last, so a   *)
(* recovery that is tried again and again succeeds.                        *)
Unattended(j) ==
  /\ \A s \in Slots : Busy(s) => run[s].job # j
  /\ \A z \in zombies : z.job # j

Fairness ==
  /\ \A j \in Jobs :
       /\ WF_vars(RunAtPasses(j))
       /\ WF_vars(Unattended(j) /\ HeartbeatExpires(j))
  /\ WF_vars(\E s \in Slots, j \in Jobs : Claim(s, j) \/ ClaimThrows(s, j))
  /\ \A s \in Slots :
       /\ WF_vars(HandlerReturns(s) \/ HandlerThrows(s) \/ TimesOut(s) \/ SaveLosesLock(s))
       /\ WF_vars(Complete(s) \/ CompleteThrows(s))
       /\ WF_vars(Fail(s) \/ FailThrows(s))
  /\ WF_vars(\E z \in zombies : ZombieEnds(z))
  /\ \A r \in Recoverers :
       /\ WF_vars(Scan(r))
       /\ \A j \in Jobs : SF_vars(Recover(r, j))

FairSpec == Spec /\ Fairness

-----------------------------------------------------------------------------
(* Properties.                                                             *)

(* The attempt budget holds across handler failures, timeouts, stalls and  *)
(* operator retries: a job never starts more attempts than maxAttempts,    *)
(* although fail() and recoverStalled() decide on copies of the document   *)
(* read earlier.                                                           *)
AttemptsWithinBudget ==
  \A j \in Jobs :
    /\ job[j].attempts <= MaxAttempts
    /\ job[j].status = "queued" => job[j].attempts < MaxAttempts

(* A slot that still holds the lock of the job it is processing holds the  *)
(* latest attempt of it, so complete() and fail(), guarded by the worker   *)
(* id alone, can never record the outcome of an earlier attempt even       *)
(* though worker ids are reused.                                           *)
OwnerRunsLatestAttempt ==
  \A s \in Slots :
    Busy(s) /\ Owned(run[s].job, s) =>
      /\ run[s].attempt = job[run[s].job].attempts
      /\ run[s].epoch = job[run[s].job].manualRetries

(* Resuming never skips work, as long as the lists that the attempts of a  *)
(* job get only grow at their end: the records its checkpoint counts were  *)
(* refreshed, and an attempt that is about to complete has every record of *)
(* its list refreshed, by itself or by attempts before it, through any mix *)
(* of crashes, timeouts, late saves, stalls and retries.                   *)
FirstOf(list, n) == {list[i] : i \in 1..n}

AllRefreshed(s) == FirstOf(run[s].targets, Len(run[s].targets)) \subseteq worked[run[s].job]

NoUnitSkipped ==
  /\ \A j \in Jobs :
       ~moved[j] => /\ job[j].checkpoint <= Len(listed[j])
                    /\ FirstOf(listed[j], job[j].checkpoint) \subseteq worked[j]
  /\ \A s \in Slots :
       pc[s] = "completing" /\ ~moved[run[s].job] => AllRefreshed(s)

(* "A worker that just heartbeated (or another recoverer) wins the race":  *)
(* while the heartbeat of a running job is within the stall timeout, only  *)
(* the slot that is processing it takes it out of the running state.       *)
FreshJobKeptByItsWorker ==
  [][\A j \in Jobs :
       /\ job[j].status = "running"
       /\ ~job[j].stale
       /\ job'[j].status # "running"
       => \E s \in Slots : Owned(j, s) /\ Busy(s) /\ run[s].job = j]_vars

(* Every transition of a document is one the lifecycle allows.             *)
Life == [j \in Jobs |-> [phase |-> job[j].status, tries |-> job[j].attempts]]

Lifecycle == INSTANCE JobLifecycle WITH life <- Life

ImplementsLifecycle == Lifecycle!LifeSpec

(* No job is lost: whatever crashes, hangs or times out, a queued or       *)
(* running job ends up succeeded or in the dead-letter state.              *)
JobsSettle ==
  \A j \in Jobs :
    job[j].status \in {"queued", "running"} ~> job[j].status \in {"succeeded", "dead"}

(* The same whatever the lists do, "When omitted, all records of the given *)
(* kind are reindexed" (handlers.ts): the code does not keep this, since   *)
(* the checkpoint counts positions of a list that is asked for again. No   *)
(* run checks it (see the README).                                         *)
EveryTargetReindexed == \A s \in Slots : pc[s] = "completing" => AllRefreshed(s)

(* The comment on JobContext.saveCheckpoint, "Throws if the job's lock was *)
(* lost": a checkpoint is accepted only from the attempt that holds the    *)
(* lock, not from an earlier attempt that timed out in the same slot. The  *)
(* code does not keep this, so no run checks it (see the README).          *)
StaleSaveRejected ==
  [][\A z \in zombies :
       ZombieSaves(z) => /\ z.attempt = job[z.job].attempts
                         /\ z.epoch = job[z.job].manualRetries]_vars

=============================================================================
