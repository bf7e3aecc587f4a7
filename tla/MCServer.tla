------------------------------- MODULE MCServer -------------------------------
(* What the web server and the backend keep in step with a store, one at a *)
(* time: the modules share nothing, so a run follows the one that subject  *)
(* names and leaves the others as they begin.                              *)
EXTENDS VerificationWorker, UploadSessions, MaintenanceMode, PublicReadCache

VARIABLE subject

others == <<subject, now, cacheVars>>

vars == <<others, workerVars, uploadVars, modeVars>>

Init ==
  /\ WorkerInit /\ UploadInit /\ ModeInit /\ CacheInit /\ now = 0
  /\ subject \in {"worker", "uploads", "mode", "cache"}

Next ==
  /\ UNCHANGED subject
  /\ \/ subject = "worker" /\ WorkerNext /\ UNCHANGED <<now, cacheVars, uploadVars, modeVars>>
     \/ subject = "uploads" /\ UploadNext /\ UNCHANGED <<now, cacheVars, workerVars, modeVars>>
     \/ subject = "mode" /\ ModeNext /\ UNCHANGED <<now, cacheVars, workerVars, uploadVars>>
     \/ subject = "cache" /\ CacheNext /\ UNCHANGED <<workerVars, uploadVars, modeVars>>

(* The fairness of each module, in the runs that follow it.                *)
Spec ==
  /\ Init /\ [][Next]_vars
  /\ WF_vars(subject = "worker" /\ (WriteDone \/ WriteFails) /\ UNCHANGED <<others, uploadVars, modeVars>>)
  /\ WF_vars(subject = "worker" /\ WorkerStep /\ UNCHANGED <<others, uploadVars, modeVars>>)
  /\ \A p \in Pollers :
       WF_vars(subject = "worker" /\ PollerStep(p) /\ UNCHANGED <<others, uploadVars, modeVars>>)
  /\ \A c \in Clients :
       WF_vars(subject = "uploads" /\ RequestStep(c) /\ UNCHANGED <<others, workerVars, modeVars>>)
  /\ \A i \in Servers :
       /\ WF_vars(subject = "mode" /\ Enable(i) /\ UNCHANGED <<others, workerVars, uploadVars>>)
       /\ \A c \in Refreshers :
            WF_vars(subject = "mode" /\ RefreshStep(i, c) /\ UNCHANGED <<others, workerVars, uploadVars>>)

(* What instances hold of the database is what they may go on serving: the *)
(* maintenance flag and the public reads.                                  *)
HeldIsSound == ModeTypeOK /\ FlagWasWritten /\ CacheIsFresh

=============================================================================
