------------------------------- MODULE Retention -------------------------------
(***************************************************************************)
(* The scheduled cleanup of the backend: maintenance/cleanup.ts under the  *)
(* lease of db/locks.ts and maintenance/scheduler.ts, and the removal of   *)
(* orphaned media, maintenance/orphans.ts, while the application goes on   *)
(* with its sessions (db/sessions.ts). Each call of the database is a step *)
(* of its own; a call may fail, and the process may die before any of them.*)
(*                                                                         *)
(* Every session has one upload, and its verification refers to that file. *)
(* The purge of finished jobs, dry runs and the reports are left out.      *)
(***************************************************************************)
EXTENDS Clock, Integers, Sequences, FiniteSets

CONSTANTS
  Sessions,
  Runs,             (* the runs under way at a time: timers and operators  *)
  InstanceOf,       (* the instance each of them runs on                   *)
  NoInstance,
  LeaseTtl,         (* LOCK_TTL_MS                                         *)
  StaleAfter,       (* per archive task, the time without activity         *)
  ArchiveTime,      (* RETENTION_ARCHIVE_DAYS                              *)
  MinAge,           (* ORPHAN_MEDIA_MIN_AGE_HOURS                          *)
  MaxDeletePercent,
  BatchSize, MaxBatches,
  LastUpload        (* bound: the time of the last new file                *)

(* The archive outlasts two runs of the cleanup, one begun during the other *)
(* (by default 90 days, against one day and seven): see RetentionTick.     *)
ASSUME RetentionConstants ==
  /\ IsFiniteSet(Sessions)
  /\ DOMAIN InstanceOf = Runs /\ \A r \in Runs : InstanceOf[r] # NoInstance
  /\ StaleAfter \in [{"idle", "completed"} -> Nat \ {0}]
  /\ {LeaseTtl, ArchiveTime, MinAge, MaxDeletePercent, LastUpload} \subseteq Nat
  /\ \A task \in DOMAIN StaleAfter : ArchiveTime >= StaleAfter[task]
  /\ \E task \in DOMAIN StaleAfter : ArchiveTime + 2 >= 2 * StaleAfter[task]
  /\ {BatchSize, MaxBatches} \subseteq Nat \ {0}

VARIABLES
  live,             (* verification_sessions: [state, seen]                *)
  archive,          (* verification_sessions_archive: archivedAt           *)
  verification,     (* the status of the session's verification            *)
  file, born,       (* the upload and its lastModified                     *)
  lock,             (* the lease                                           *)
  run,
  opened, purged    (* history: the sessions there were, and those whose   *)
                    (* archive copy was deleted in time                    *)

retentionVars == <<live, archive, verification, file, born, lock, run, opened, purged>>

records == <<live, archive, verification, file, born, opened, purged>>

Never == -1

NoSession == [state |-> "none", seen |-> 0]

IdleRun ==
  [at |-> "idle", task |-> "idle", start |-> 0, until |-> 0, batch |-> 1, full |-> FALSE,
   kept |-> {}, chosen |-> {}, linked |-> {}, reads |-> {}, found |-> {}, again |-> FALSE]

RetentionInit ==
  /\ live = [s \in Sessions |-> NoSession]
  /\ archive = [s \in Sessions |-> Never]
  /\ verification = [s \in Sessions |-> "none"]
  /\ file = [s \in Sessions |-> "none"] /\ born = [s \in Sessions |-> 0]
  /\ lock = [owner |-> NoInstance, until |-> 0]
  /\ run = [r \in Runs |-> IdleRun]
  /\ opened = {} /\ purged = {}

IsLive(s) == live[s].state # "none"

-----------------------------------------------------------------------------
(* The application.                                                        *)

(* A file is stored; its record follows before the file is MinAge old.     *)
Upload(s) ==
  /\ file[s] = "none" /\ now <= LastUpload
  /\ file' = [file EXCEPT ![s] = "stored"] /\ born' = [born EXCEPT ![s] = now]
  /\ UNCHANGED <<live, archive, verification, opened, purged>>

OpenSession(s) ==
  /\ file[s] = "stored" /\ now <= born[s] + MinAge
  /\ s \notin opened /\ opened' = opened \cup {s}
  /\ live' = [live EXCEPT ![s] = [state |-> "open", seen |-> now]]
  /\ UNCHANGED <<archive, verification, file, born, purged>>

TouchSession(s) ==
  /\ IsLive(s)
  /\ live' = [live EXCEPT ![s].seen = now]
  /\ UNCHANGED <<archive, verification, file, born, opened, purged>>

SubmitVerification(s) ==
  /\ live[s].state = "open"
  /\ live' = [live EXCEPT ![s] = [state |-> "submitted", seen |-> now]]
  /\ verification' = [verification EXCEPT ![s] = "pending"]
  /\ UNCHANGED <<archive, file, born, opened, purged>>

EndVerification(s) ==
  /\ verification[s] = "pending"
  /\ verification' = [verification EXCEPT ![s] = "ended"]
  /\ UNCHANGED <<live, archive, file, born, opened, purged>>

MarkCompleted(s) ==
  /\ verification[s] = "ended" /\ live[s].state = "submitted"
  /\ live' = [live EXCEPT ![s] = [state |-> "completed", seen |-> now]]
  /\ UNCHANGED <<archive, verification, file, born, opened, purged>>

(* The creator cancels; or the application gives up, which is no activity. *)
EndSession(s, state) ==
  /\ live[s].state \in {"open", "submitted"}
  /\ live' = [live EXCEPT ![s] = [state |-> state, seen |-> IF state = "abandoned" THEN now ELSE @.seen]]
  /\ UNCHANGED <<archive, verification, file, born, opened, purged>>

Application ==
  /\ \E s \in Sessions :
       \/ Upload(s) \/ OpenSession(s) \/ TouchSession(s) \/ SubmitVerification(s) \/ EndVerification(s) \/ MarkCompleted(s)
       \/ \E state \in {"abandoned", "expired"} : EndSession(s, state)
  /\ UNCHANGED <<lock, run>>

-----------------------------------------------------------------------------
(* The lease.                                                              *)

AnyLease(r) == TRUE   (* mutant: the lock is set whoever has it *)

Free(r) == lock.until <= now \/ lock.owner = InstanceOf[r]

RunNow(r) ==
  /\ run[r].at = "idle" /\ Free(r)
  /\ lock' = [owner |-> InstanceOf[r], until |-> now + LeaseTtl]
  /\ run' = [run EXCEPT ![r] = [IdleRun EXCEPT !.at = "find", !.start = now, !.until = lock'.until]]
  /\ UNCHANGED records

Release(r) ==
  /\ run[r].at = "release"
  /\ run' = [run EXCEPT ![r] = IdleRun]
  /\ lock' \in {lock, IF lock.owner = InstanceOf[r] THEN [lock EXCEPT !.until = 0] ELSE lock}
  /\ UNCHANGED records

Crash(r) ==
  /\ run[r].at # "idle"
  /\ run' = [run EXCEPT ![r] = IdleRun]
  /\ UNCHANGED <<records, lock>>

(* The next task of the run, after the last one or when a call fails.      *)
NextTask(one) ==
  [IdleRun EXCEPT !.start = one.start, !.until = one.until,
     !.task = CASE one.task = "idle" -> "completed" [] one.task = "completed" -> "purge" [] OTHER -> "media",
     !.at = CASE one.task = "idle" -> "find" [] one.task = "completed" -> "purge"
              [] one.task = "purge" -> "scan" [] OTHER -> "release"]

Goes(r, one) == run' = [run EXCEPT ![r] = one] /\ UNCHANGED lock

CallFails(r) ==
  /\ run[r].at \notin {"idle", "release"}
  /\ Goes(r, NextTask(run[r])) /\ UNCHANGED records

-----------------------------------------------------------------------------
(* archiveSessions                                                         *)

StatesOf(task) == IF task = "idle" THEN {"open", "abandoned", "expired"} ELSE {"completed"}

(* The filter of the task, as of the start of the run.                     *)
Matches(s, one) ==
  live[s].state \in StatesOf(one.task) /\ live[s].seen < one.start - StaleAfter[one.task]

StillLive(s, one) == IsLive(s)   (* mutant: the delete does not apply the filter again *)

Deletable(s, one) == Matches(s, one)

(* The next batch, the longest idle first.                                 *)
Batches(S) ==
  {B \in SUBSET S : /\ Cardinality(B) = IF Cardinality(S) < BatchSize THEN Cardinality(S) ELSE BatchSize
                    /\ \A s \in B, o \in S \ B : live[s].seen <= live[o].seen}

AllStale(one) == {s \in Sessions : Matches(s, one)}   (* mutant: protected sessions are found again *)

Remaining(one) == {s \in Sessions : Matches(s, one)} \ one.kept

FindBatch(r) ==
  LET one == run[r]
      stale == Remaining(one)
  IN
  /\ one.at = "find"
  /\ IF stale = {} \/ one.batch > MaxBatches THEN Goes(r, NextTask(one))
     ELSE \E B \in Batches(stale) :
            Goes(r, [one EXCEPT !.at = "check", !.chosen = B, !.full = Cardinality(B) = BatchSize,
                                !.linked = {s \in B : verification[s] # "none"}])
  /\ UNCHANGED records

NoneActive(S) == {}   (* mutant: verifications are not looked at *)

Active(S) == {s \in S : verification[s] = "pending"}

NextBatch(one) ==
  IF one.full THEN [one EXCEPT !.at = "find", !.batch = @ + 1, !.chosen = {}, !.linked = {}] ELSE NextTask(one)

CheckVerifications(r) ==
  LET one == run[r]
      rest == [one EXCEPT !.kept = @ \cup Active(one.linked), !.chosen = @ \ Active(one.linked)]
  IN
  /\ one.at = "check"
  /\ Goes(r, IF rest.chosen = {} THEN NextBatch(rest) ELSE [rest EXCEPT !.at = "copy"])
  /\ UNCHANGED records

(* The copies; a call that fails may have made some.                       *)
CopyToArchive(r) ==
  LET one == run[r] IN
  /\ one.at = "copy"
  /\ \E copied \in SUBSET one.chosen :
       /\ archive' = [s \in Sessions |-> IF s \in copied THEN now ELSE archive[s]]
       /\ Goes(r, IF copied = one.chosen THEN [one EXCEPT !.at = "delete"] ELSE NextTask(one))
  /\ UNCHANGED <<live, verification, file, born, opened, purged>>

DeleteCopied(r) ==
  LET one == run[r]
      deleted == {s \in one.chosen : Deletable(s, one)}
  IN
  /\ one.at = "delete"
  /\ live' = [s \in Sessions |-> IF s \in deleted THEN NoSession ELSE live[s]]
  /\ Goes(r, IF deleted = one.chosen THEN NextBatch(one) ELSE [one EXCEPT !.at = "survivors"])
  /\ UNCHANGED <<archive, verification, file, born, opened, purged>>

AllCopied(S) == S   (* mutant: the copies of all are removed again *)

Survivors(S) == {s \in S : IsLive(s)}

FindSurvivors(r) ==
  LET one == run[r]
      survivors == Survivors(one.chosen)
  IN
  /\ one.at = "survivors"
  /\ Goes(r, IF survivors = {} THEN NextBatch(one) ELSE [one EXCEPT !.at = "remove", !.chosen = survivors])
  /\ UNCHANGED records

RemoveCopies(r) ==
  LET one == run[r] IN
  /\ one.at = "remove"
  /\ archive' = [s \in Sessions |-> IF s \in one.chosen THEN Never ELSE archive[s]]
  /\ Goes(r, NextBatch(one))
  /\ UNCHANGED <<live, verification, file, born, opened, purged>>

(* purge of the archive: what is found is deleted if it still matches.     *)
PurgeArchive(r) ==
  LET old == {s \in Sessions : archive[s] # Never /\ archive[s] < run[r].start - ArchiveTime} IN
  /\ run[r].at = "purge"
  /\ archive' = [s \in Sessions |-> IF s \in old THEN Never ELSE archive[s]]
  /\ purged' = purged \cup {s \in old : ~IsLive(s)}
  /\ Goes(r, NextTask(run[r]))
  /\ UNCHANGED <<live, verification, file, born, opened>>

-----------------------------------------------------------------------------
(* Orphaned media.                                                         *)

OldEnough(s) == born[s] < now - MinAge

ScanMedia(r) ==
  LET old == {s \in Sessions : file[s] = "stored" /\ OldEnough(s)} IN
  /\ run[r].at = "scan"
  /\ Goes(r, [run[r] EXCEPT !.at = "refs", !.chosen = old, !.reads = {"verifications", "sessions", "archive"}])
  /\ UNCHANGED records

NotArchived == {s \in Sessions : IsLive(s)}   (* mutant: the archive is not asked *)

InArchive == {s \in Sessions : archive[s] # Never}

References(collection) ==
  CASE collection = "verifications" -> {s \in Sessions : verification[s] # "none"}
    [] collection = "sessions" -> {s \in Sessions : IsLive(s)}
    [] collection = "archive" -> InArchive

(* The three queries are under way together and answered in any order.     *)
ReadReferences(r, collection) ==
  /\ run[r].at = "refs" /\ collection \in run[r].reads
  /\ Goes(r, [run[r] EXCEPT !.reads = @ \ {collection},
                            !.found = @ \cup (run[r].chosen \cap References(collection))])
  /\ UNCHANGED records

WithinCeiling(orphans) ==
  Cardinality(orphans) * 100 <= MaxDeletePercent * Cardinality({s \in Sessions : file[s] = "stored"})

CheckedOnce(one) == TRUE   (* mutant: references are not checked again *)

CheckedAgain(one) == one.again

Classified(r) ==
  LET one == run[r]
      orphans == one.chosen \ one.found
  IN
  /\ one.at = "refs" /\ one.reads = {}
  /\ Goes(r, IF orphans = {} \/ (~one.again /\ ~WithinCeiling(orphans)) THEN NextTask(one)
             ELSE IF CheckedAgain(one) THEN [one EXCEPT !.at = "unlink", !.chosen = orphans, !.found = {}]
             ELSE [one EXCEPT !.again = TRUE, !.chosen = orphans, !.found = {},
                              !.reads = {"verifications", "sessions", "archive"}])
  /\ UNCHANGED records

(* A file that cannot be deleted waits for the next run.                   *)
Unlink(r, s) ==
  LET rest == [run[r] EXCEPT !.chosen = @ \ {s}] IN
  /\ run[r].at = "unlink" /\ s \in run[r].chosen
  /\ file' \in {file, [file EXCEPT ![s] = "deleted"]}
  /\ Goes(r, IF rest.chosen = {} THEN NextTask(rest) ELSE rest)
  /\ UNCHANGED <<live, archive, verification, born, opened, purged>>

RunStep(r) ==
  \/ RunNow(r) \/ Release(r) \/ Crash(r) \/ CallFails(r)
  \/ FindBatch(r) \/ CheckVerifications(r) \/ CopyToArchive(r) \/ DeleteCopied(r)
  \/ FindSurvivors(r) \/ RemoveCopies(r) \/ PurgeArchive(r)
  \/ ScanMedia(r) \/ Classified(r)
  \/ \E c \in run[r].reads : ReadReferences(r, c)
  \/ \E s \in run[r].chosen : Unlink(r, s)

(* No run takes as long as a session takes to be stale again; it may take  *)
(* longer than the lease.                                                  *)
RetentionTick ==
  /\ Tick
  /\ \A r \in Runs, task \in DOMAIN StaleAfter :
       run[r].at # "idle" => now + 1 < run[r].start + StaleAfter[task]

RetentionNext ==
  \/ (Application \/ \E r \in Runs : RunStep(r)) /\ UNCHANGED now
  \/ RetentionTick /\ UNCHANGED retentionVars

RetentionSpec == RetentionInit /\ now = 0 /\ [][RetentionNext]_<<now, retentionVars>>

-----------------------------------------------------------------------------
(* Properties.                                                             *)

RetentionTypeOK ==
  /\ \A s \in Sessions :
       /\ live[s].state \in {"none", "open", "submitted", "completed", "abandoned", "expired"}
       /\ live[s].seen <= now /\ archive[s] \in {Never} \cup 0..now
       /\ verification[s] \in {"none", "pending", "ended"} /\ file[s] \in {"none", "stored", "deleted"}
  /\ \A r \in Runs :
       /\ run[r].at \in {"idle", "find", "check", "copy", "delete", "survivors", "remove", "purge",
                         "scan", "refs", "unlink", "release"}
       /\ run[r].chosen \subseteq Sessions /\ run[r].kept \cap run[r].chosen = {}
       /\ run[r].at \in {"check", "copy", "delete", "survivors", "remove", "unlink"} => run[r].chosen # {}
       /\ run[r].at = "check" => Cardinality(run[r].chosen) <= BatchSize /\ run[r].batch <= MaxBatches

(* A session is never lost between the two collections: it is live or in   *)
(* the archive until the archive's time is over, wherever a run stopped    *)
(* and however a second one, after the lease, came across it.              *)
SessionNeverLost ==
  \A s \in opened : IsLive(s) \/ archive[s] # Never \/ s \in purged

(* A session leaves the live ones only when its verification is not under  *)
(* way, and only without activity since the run began.                     *)
InFlightStays ==
  \A s \in Sessions : IsLive(s) /\ live'[s].state = "none" =>
    verification[s] # "pending" /\ \E r \in Runs : live[s].seen < run[r].start

(* No file is deleted while a verification, a session or the archive       *)
(* refers to it, though a session may move between the queries.            *)
ReferencedMediaStays ==
  \A s \in Sessions : file[s] = "deleted" =>
    ~IsLive(s) /\ archive[s] = Never /\ verification[s] = "none"

(* "On at most one instance at a time": two instances clean at the same    *)
(* time only when the first one's lease ran out.                           *)
OverlapNeedsExpiry ==
  \A r, o \in Runs :
    run[r].at # "idle" /\ run[o].at # "idle" /\ InstanceOf[r] # InstanceOf[o]
    => run[r].until <= now \/ run[o].until <= now

(* An instance has one run at a time. The code does not see to it: the     *)
(* lease is granted again to its owner, be it for a run of the timer or of *)
(* an operator, and the first of them to end gives it up.                  *)
OneRunEach == \A r, o \in Runs : InstanceOf[r] = InstanceOf[o] => r = o

(* Cleaning loses nothing that is still needed, and where an instance has  *)
(* one run at a time, instances keep out of each other's way.              *)
NothingNeededIsLost ==
  /\ RetentionTypeOK /\ SessionNeverLost /\ ReferencedMediaStays
  /\ OneRunEach => OverlapNeedsExpiry

=============================================================================
