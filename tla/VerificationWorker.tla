-------------------------- MODULE VerificationWorker --------------------------
(***************************************************************************)
(* The verification jobs of the web server, frontend/lib/server/jobs.ts    *)
(* over json-collection.ts: one worker per process, started by whoever     *)
(* adds a job or asks for one; a file that is written as a whole, one      *)
(* write after another; and the process that dies at any point.            *)
(*                                                                         *)
(* An await that only waits for memory is not a point where steps of       *)
(* others come in; one that waits for a file or the verification is.       *)
(* Durations, queue positions and what a verification reads are left out.  *)
(***************************************************************************)
EXTENDS Naturals, Sequences, FiniteSets, SequencesExt

CONSTANTS
  Uploads,          (* the jobs: one per upload                            *)
  Pollers,          (* the clients that ask for jobs (getJobViews)         *)
  Nothing,          (* no job                                              *)
  MaxWriteErrors,   (* bound: writes that fail                             *)
  MaxCrashes        (* bound: processes that die                           *)

ASSUME WorkerConstants ==
  /\ Uploads \cap Pollers = {} /\ "worker" \notin Uploads \cup Pollers
  /\ Nothing \notin Uploads /\ MaxWriteErrors \in Nat /\ MaxCrashes \in Nat

VARIABLES
  memory, disk,     (* the collection: records in memory and in the file   *)
  writes,           (* writeChain: [content, by], one after the other      *)
  created,          (* the jobs in the order of createdAt                  *)
  recovered,        (* __veriphyWorker.recovered                           *)
  task,             (* what runWorker and each getJobViews are doing:      *)
                    (* [at, job, todo]; running is ~(worker idle)          *)
  acked,            (* history: the jobs whose creation was answered       *)
  verified,         (* history: how often each job was verified            *)
  writeErrors, crashes

workerVars ==
  <<memory, disk, writes, created, recovered, task, acked, verified, writeErrors, crashes>>

collectionVars == <<memory, writes>>

Worker == "worker"
Callers == Pollers \cup {Worker}

JobStatus == {"none", "pending", "processing", "certified", "failed"}

Idle == [at |-> "idle", job |-> Nothing, todo |-> {}]

WorkerTypeOK ==
  /\ memory \in [Uploads -> JobStatus] /\ disk \in [Uploads -> JobStatus]
  /\ IsInjective(created) /\ {j \in Uploads : memory[j] # "none"} \subseteq Range(created)
  /\ recovered \in BOOLEAN /\ DOMAIN task = Callers
  /\ \A c \in Callers :
       /\ task[c].todo \subseteq Uploads /\ task[c].job \in Uploads \cup {Nothing}
       /\ task[c].at \in IF c = Worker
            THEN {"idle", "begin", "recover", "go", "start", "verify", "certify", "fail"}
            ELSE {"idle", "recover", "go"}
       /\ Cardinality({i \in DOMAIN writes : writes[i].by = c}) <= 1
  /\ acked \subseteq Range(created)

WorkerInit ==
  /\ memory = [j \in Uploads |-> "none"] /\ disk = memory
  /\ writes = << >> /\ created = << >> /\ recovered = FALSE
  /\ task = [c \in Callers |-> Idle]
  /\ acked = {} /\ verified = [j \in Uploads |-> 0] /\ writeErrors = 0 /\ crashes = 0

-----------------------------------------------------------------------------
(* The collection.                                                         *)

NewestFirst(content, by) == <<[content |-> content, by |-> by]>> \o writes   (* mutant: writes are not chained *)

Queued(content, by) == Append(writes, [content |-> content, by |-> by])

(* put: memory at once, the file after the writes before it.               *)
Put(j, status, by) ==
  /\ memory' = [memory EXCEPT ![j] = status]
  /\ writes' = Queued(memory', by)

NotAwaited(who) == FALSE   (* mutant: put is not awaited *)

Waiting(who) == \E i \in DOMAIN writes : writes[i].by = who

JobsIn(status) == {j \in Uploads : memory[j] = status}

(* runWorker, when it is called: a second one returns at once.             *)
StartedTwice(tasks) == [tasks EXCEPT ![Worker] = [Idle EXCEPT !.at = "begin"]]   (* mutant: running is not looked at *)

Started(tasks) ==
  IF tasks[Worker].at = "idle" THEN [tasks EXCEPT ![Worker].at = "begin"] ELSE tasks

-----------------------------------------------------------------------------
(* recoverInterruptedJobs, called by the worker and by every getJobViews.  *)
(* The flag is set before the jobs are read.                               *)

FlagNeverSet == recovered    (* mutant: the flag is not set when recovery begins *)

FlagSet == TRUE

AllInterrupted == JobsIn("processing")

BeginRecovery(c) ==
  /\ \/ c = Worker /\ task[c].at = "begin"
     \/ c \in Pollers /\ task[c].at = "idle"
  /\ task' = [task EXCEPT ![c] =
       IF recovered THEN [Idle EXCEPT !.at = "go"]
       ELSE [Idle EXCEPT !.at = "recover", !.todo = AllInterrupted]]
  /\ recovered' = FlagSet
  /\ UNCHANGED <<memory, disk, writes, created, acked, verified, writeErrors, crashes>>

RecoverOne(c, j) ==
  /\ task[c].at = "recover" /\ j \in task[c].todo /\ ~Waiting(c)
  /\ Put(j, "pending", c)
  /\ task' = [task EXCEPT ![c].todo = @ \ {j}]
  /\ UNCHANGED <<disk, created, recovered, acked, verified, writeErrors, crashes>>

RecoveryDone(c) ==
  /\ task[c].at = "recover" /\ task[c].todo = {} /\ ~Waiting(c)
  /\ task' = [task EXCEPT ![c].at = "go"]
  /\ UNCHANGED <<memory, disk, writes, created, recovered, acked, verified, writeErrors, crashes>>

-----------------------------------------------------------------------------
(* runWorker                                                               *)

First(S) == created[CHOOSE i \in DOMAIN created :
                      created[i] \in S /\ \A k \in 1..(i - 1) : created[k] \notin S]

TakeNext ==
  /\ task[Worker].at = "go" /\ ~Waiting(Worker)
  /\ IF JobsIn("pending") = {}
     THEN task' = [task EXCEPT ![Worker] = Idle] /\ UNCHANGED collectionVars
     ELSE /\ Put(First(JobsIn("pending")), "processing", Worker)
          /\ task' = [task EXCEPT ![Worker].at = "start", ![Worker].job = First(JobsIn("pending"))]
  /\ UNCHANGED <<disk, created, recovered, acked, verified, writeErrors, crashes>>

Verify ==
  /\ task[Worker].at = "start" /\ ~Waiting(Worker)
  /\ task' = [task EXCEPT ![Worker].at = "verify"]
  /\ verified' = [verified EXCEPT ![task[Worker].job] = @ + 1]
  /\ UNCHANGED <<memory, disk, writes, created, recovered, acked, writeErrors, crashes>>

(* The verification returns or throws; its result is stored.               *)
Decide(result) ==
  /\ task[Worker].at = "verify"
  /\ Put(task[Worker].job, result, Worker)
  /\ task' = [task EXCEPT ![Worker].at = IF result = "certified" THEN "certify" ELSE "fail"]
  /\ UNCHANGED <<disk, created, recovered, acked, verified, writeErrors, crashes>>

GoOn ==
  /\ task[Worker].at \in {"certify", "fail"} /\ ~Waiting(Worker)
  /\ task' = [task EXCEPT ![Worker].at = "go", ![Worker].job = Nothing]
  /\ UNCHANGED <<memory, disk, writes, created, recovered, acked, verified, writeErrors, crashes>>

-----------------------------------------------------------------------------
(* enqueueJob; the answer, and the call of runWorker, wait for the file.   *)
EnqueueJob(j) ==
  /\ ~Contains(created, j)
  /\ created' = Append(created, j)
  /\ Put(j, "pending", j)
  /\ UNCHANGED <<disk, recovered, task, acked, verified, writeErrors, crashes>>

OnlyAnswers(tasks) == tasks   (* mutant: getJobViews does not start the worker *)

RestartIfPending(tasks) == IF JobsIn("pending") # {} THEN Started(tasks) ELSE tasks

(* getJobViews after the recovery: a look at all the jobs, and the worker  *)
(* is started if it sees a pending one.                                    *)
Look(p) ==
  /\ task[p].at = "go"
  /\ task' = RestartIfPending([task EXCEPT ![p] = Idle])
  /\ UNCHANGED <<memory, disk, writes, created, recovered, acked, verified, writeErrors, crashes>>

-----------------------------------------------------------------------------
(* The first write of the chain ends.                                      *)
WriteDone ==
  /\ writes # << >>
  /\ disk' = Head(writes).content
  /\ writes' = Tail(writes)
  /\ IF Head(writes).by \in Uploads
     THEN acked' = acked \cup {Head(writes).by} /\ task' = Started(task)
     ELSE UNCHANGED <<acked, task>>
  /\ UNCHANGED <<memory, created, recovered, verified, writeErrors, crashes>>

(* It fails. The caller's call ends with the error, but for the result of  *)
(* a successful verification, which runWorker then stores as a failed one. *)
WriteFails ==
  LET by == Head(writes).by IN
  /\ writes # << >> /\ writeErrors < MaxWriteErrors
  /\ writeErrors' = writeErrors + 1
  /\ IF by = Worker /\ task[Worker].at = "certify"
     THEN /\ memory' = [memory EXCEPT ![task[Worker].job] = "failed"]
          /\ writes' = Append(Tail(writes), [content |-> memory', by |-> Worker])
          /\ task' = [task EXCEPT ![Worker].at = "fail"]
     ELSE /\ writes' = Tail(writes)
          /\ task' = IF by \in Callers THEN [task EXCEPT ![by] = Idle] ELSE task
          /\ UNCHANGED memory
  /\ UNCHANGED <<disk, created, recovered, acked, verified, crashes>>

(* The process dies; the next one reads the file.                          *)
ProcessDies ==
  /\ crashes < MaxCrashes
  /\ crashes' = crashes + 1
  /\ memory' = disk /\ writes' = << >> /\ recovered' = FALSE
  /\ task' = [c \in Callers |-> Idle]
  /\ UNCHANGED <<disk, created, acked, verified, writeErrors>>

Recovery(c) == BeginRecovery(c) \/ RecoveryDone(c) \/ \E j \in Uploads : RecoverOne(c, j)

WorkerStep ==
  Recovery(Worker) \/ TakeNext \/ Verify \/ GoOn \/ \E r \in {"certified", "failed"} : Decide(r)

PollerStep(p) == Recovery(p) \/ Look(p)

WorkerNext ==
  \/ \E j \in Uploads : EnqueueJob(j)
  \/ WorkerStep \/ \E p \in Pollers : PollerStep(p)
  \/ WriteDone \/ WriteFails \/ ProcessDies

(* Files are written and verifications end; every client goes on asking.   *)
WorkerFairness ==
  /\ WF_workerVars(WriteDone \/ WriteFails)
  /\ WF_workerVars(WorkerStep)
  /\ \A p \in Pollers : WF_workerVars(PollerStep(p))

WorkerSpec == WorkerInit /\ [][WorkerNext]_workerVars /\ WorkerFairness

-----------------------------------------------------------------------------
(* Properties.                                                             *)

(* A job whose creation was answered is in the file, whichever process     *)
(* died since; and the last write waiting is all that is in memory.        *)
AcknowledgedSurvives ==
  /\ \A j \in acked : disk[j] # "none"
  /\ writes # << >> => Last(writes).content = memory
  /\ writes = << >> /\ writeErrors = 0 => disk = memory

(* A job in processing is in somebody's hands: the worker's, or those of a *)
(* recovery that has it on its list or has not begun.                      *)
ProcessingIsOwned ==
  writeErrors = 0 => \A j \in JobsIn("processing") :
    task[Worker].job = j \/ ~recovered \/ \E c \in Callers : j \in task[c].todo

(* A process verifies a job at most once, though a recovery goes on while  *)
(* the worker has begun with the jobs it gave back.                        *)
VerifiedOncePerProcess == \A j \in Uploads : verified[j] <= 1 + crashes

(* A job is in the file, in one pair of hands, and verified once.          *)
JobsAreSafe ==
  WorkerTypeOK /\ AcknowledgedSurvives /\ ProcessingIsOwned /\ VerifiedOncePerProcess

(* An acknowledged job is certified or failed at last, and then for good,  *)
(* as long as writes succeed: across crashes and recoveries, while clients *)
(* ask, and though the worker stops whenever it sees no job.               *)
JobsAreDecided ==
  \A j \in Uploads : j \in acked ~> ([](disk[j] \in {"certified", "failed"}) \/ writeErrors > 0)

=============================================================================
