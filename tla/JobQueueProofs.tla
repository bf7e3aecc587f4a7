--------------------------- MODULE JobQueueProofs ---------------------------
(***************************************************************************)
(* Proofs about JobQueue, for every set of jobs, slots and recovery loops  *)
(* and every attempt budget.                                               *)
(***************************************************************************)
EXTENDS JobQueue, TLAPS

-----------------------------------------------------------------------------
(* The inductive invariant.                                                *)

(* A busy slot processes an attempt of its own, and an attempt that has    *)
(* its list stands inside it.                                              *)
RunOK(r) ==
  /\ r \in Run
  /\ Len(r.targets) <= MaxTargets
  /\ r.phase # "resolve" => r.offset <= Len(r.targets)

HandlersOK ==
  /\ \A s \in Slots : Busy(s) => RunOK(run[s]) /\ run[s].slot = s
  /\ \A z \in zombies : RunOK(z)

(* What a recovery loop has read of a job is still true of it as long as   *)
(* the heartbeat it read is in place.                                      *)
SnapshotsMatch ==
  \A r \in Recoverers, j \in Jobs :
    snap[r][j].same => /\ job[j].status = "running"
                       /\ job[j].stale
                       /\ job[j].attempts = snap[r][j].attempts

TypeInv == TypeOK /\ HandlersOK

IInv == TypeInv /\ AttemptsWithinBudget /\ SnapshotsMatch /\ OwnerRunsLatestAttempt

-----------------------------------------------------------------------------
(* What each update does to a job document.                                *)

LEMMA NoDocType == NoDoc \in JobDoc
  BY ConstantsOK DEF NoDoc, JobDoc, Statuses

LEMMA QueuedDoc ==
  ASSUME NEW now \in BOOLEAN
  PROVE  LET d == [NoDoc EXCEPT !.status = "queued", !.ready = now] IN
         /\ d \in JobDoc
         /\ d.status = "queued" /\ d.attempts = 0
<1>1. 0 \in 0..MaxTargets
  BY ConstantsOK
<1>2. QED
  BY <1>1 DEF NoDoc, JobDoc, Statuses

LEMMA ReadyDoc ==
  ASSUME NEW d \in JobDoc
  PROVE  LET e == [d EXCEPT !.ready = TRUE] IN
         /\ e \in JobDoc
         /\ e.status = d.status /\ e.attempts = d.attempts
  BY DEF JobDoc

LEMMA StaleDoc ==
  ASSUME NEW d \in JobDoc
  PROVE  LET e == [d EXCEPT !.stale = TRUE] IN
         /\ e \in JobDoc
         /\ e.status = d.status /\ e.attempts = d.attempts
         /\ e.lockedBy = d.lockedBy /\ e.manualRetries = d.manualRetries
  BY DEF JobDoc

LEMMA ClaimedDoc ==
  ASSUME NEW d \in JobDoc, NEW s \in Slots
  PROVE  /\ Claimed(d, s) \in JobDoc
         /\ Claimed(d, s).status = "running"
         /\ Claimed(d, s).lockedBy = s
         /\ Claimed(d, s).attempts = d.attempts + 1
         /\ Claimed(d, s).manualRetries = d.manualRetries
         /\ ~Claimed(d, s).stale
<1>1. d.attempts + 1 \in Nat
  BY DEF JobDoc
<1>2. QED
  BY <1>1 DEF Claimed, JobDoc, Statuses

LEMMA CheckpointedDoc ==
  ASSUME NEW d \in JobDoc, NEW n \in 0..MaxTargets
  PROVE  /\ Checkpointed(d, n) \in JobDoc
         /\ Checkpointed(d, n).status = d.status
         /\ Checkpointed(d, n).lockedBy = d.lockedBy
         /\ Checkpointed(d, n).attempts = d.attempts
         /\ Checkpointed(d, n).manualRetries = d.manualRetries
  BY DEF Checkpointed, JobDoc

LEMMA RefreshedDoc ==
  ASSUME NEW d \in JobDoc
  PROVE  /\ Refreshed(d) \in JobDoc
         /\ Refreshed(d).status = d.status
         /\ Refreshed(d).lockedBy = d.lockedBy
         /\ Refreshed(d).attempts = d.attempts
         /\ Refreshed(d).manualRetries = d.manualRetries
  BY DEF Refreshed, JobDoc

LEMMA SucceededDoc ==
  ASSUME NEW d \in JobDoc
  PROVE  /\ Succeeded(d) \in JobDoc
         /\ Succeeded(d).status = "succeeded"
         /\ Succeeded(d).attempts = d.attempts
<1>1. 0 \in 0..MaxTargets
  BY ConstantsOK
<1>2. QED
  BY <1>1 DEF Succeeded, JobDoc, Statuses

LEMMA FailedDoc ==
  ASSUME NEW d \in JobDoc, NEW to \in {"dead", "queued"}
  PROVE  /\ Failed(d, to) \in JobDoc
         /\ Failed(d, to).status = to
         /\ Failed(d, to).attempts = d.attempts
  BY DEF Failed, JobDoc, Statuses

LEMMA RevivedDoc ==
  ASSUME NEW d \in JobDoc, NEW fresh \in BOOLEAN
  PROVE  /\ Revived(d, fresh) \in JobDoc
         /\ Revived(d, fresh).status = "queued"
         /\ Revived(d, fresh).attempts = 0
<1>1. 0 \in 0..MaxTargets /\ d.manualRetries + 1 \in Nat
  BY ConstantsOK DEF JobDoc
<1>2. QED
  BY <1>1 DEF Revived, JobDoc, Statuses

(* A touched job leaves no matching snapshot; the others keep theirs.      *)
LEMMA TouchFacts ==
  ASSUME TypeOK, NEW j \in Jobs, Touch(j)
  PROVE  /\ snap' \in [Recoverers -> [Jobs -> Snapshot]]
         /\ \A r \in Recoverers :
              /\ ~snap'[r][j].same
              /\ \A k \in Jobs \ {j} : snap'[r][k] = snap[r][k]
<1>1. ASSUME NEW sn \in Snapshot PROVE Outdated(sn) \in Snapshot /\ ~Outdated(sn).same
  BY DEF Snapshot, Outdated
<1>2. \A r \in Recoverers : snap[r] \in [Jobs -> Snapshot] /\ snap[r][j] \in Snapshot
  BY DEF TypeOK
<1>3. QED
  BY <1>1, <1>2 DEF Touch

-----------------------------------------------------------------------------
(* What each handler step does to a run.                                   *)

LEMMA PhaseRun ==
  ASSUME NEW x, RunOK(x), x.phase # "resolve", NEW p \in {"work", "save"}
  PROVE  /\ AtPhase(x, p) \in Run /\ RunOK(AtPhase(x, p)) /\ AtPhase(x, p).phase = p
         /\ AtPhase(x, p).job = x.job /\ AtPhase(x, p).slot = x.slot
         /\ AtPhase(x, p).offset = x.offset /\ AtPhase(x, p).targets = x.targets
         /\ AtPhase(x, p).attempt = x.attempt /\ AtPhase(x, p).epoch = x.epoch
  BY DEF AtPhase, Run, RunOK, Phases

LEMMA BatchEndIn ==
  ASSUME NEW x, RunOK(x), x.phase # "resolve"
  PROVE  /\ BatchEnd(x) \in 0..MaxTargets
         /\ x.offset <= BatchEnd(x) /\ BatchEnd(x) <= Len(x.targets)
  BY ConstantsOK DEF BatchEnd, RunOK, Run

LEMMA NextUnitRun ==
  ASSUME NEW x, RunOK(x), x.phase # "resolve"
  PROVE  /\ NextUnit(x) \in Run /\ RunOK(NextUnit(x)) /\ NextUnit(x).phase = "check"
         /\ NextUnit(x).job = x.job /\ NextUnit(x).slot = x.slot
         /\ NextUnit(x).offset = BatchEnd(x) /\ NextUnit(x).targets = x.targets
         /\ NextUnit(x).attempt = x.attempt /\ NextUnit(x).epoch = x.epoch
  BY BatchEndIn DEF NextUnit, Run, RunOK, Phases

LEMMA TargetsRun ==
  ASSUME NEW x, RunOK(x), NEW list \in Listings, x.offset <= Len(list)
  PROVE  /\ WithTargets(x, list) \in Run /\ RunOK(WithTargets(x, list))
         /\ WithTargets(x, list).phase = "check"
         /\ WithTargets(x, list).job = x.job /\ WithTargets(x, list).slot = x.slot
         /\ WithTargets(x, list).offset = x.offset /\ WithTargets(x, list).targets = list
         /\ WithTargets(x, list).attempt = x.attempt /\ WithTargets(x, list).epoch = x.epoch
  BY ConstantsOK DEF WithTargets, Run, RunOK, Phases

LEMMA AbortedRun ==
  ASSUME NEW x, RunOK(x)
  PROVE  /\ Aborted(x) \in Run /\ RunOK(Aborted(x)) /\ Aborted(x).phase = x.phase
         /\ Aborted(x).job = x.job /\ Aborted(x).slot = x.slot
         /\ Aborted(x).offset = x.offset /\ Aborted(x).targets = x.targets
         /\ Aborted(x).attempt = x.attempt /\ Aborted(x).epoch = x.epoch
  BY DEF Aborted, Run, RunOK

LEMMA EndedRun ==
  ASSUME NEW x, RunOK(x)
  PROVE  /\ Ended(x) \in Run /\ RunOK(Ended(x)) /\ Ended(x).phase = "resolve"
         /\ Ended(x).job = x.job /\ Ended(x).slot = x.slot
         /\ Ended(x).offset = 0 /\ Ended(x).targets = << >>
         /\ Ended(x).attempt = x.attempt /\ Ended(x).epoch = x.epoch
<1>1. << >> \in Seq(Records) /\ Len(<< >>) = 0 /\ 0 \in 0..MaxTargets /\ 0 <= MaxTargets
  BY ConstantsOK
<1>2. QED
  BY <1>1 DEF Ended, Run, RunOK, Phases

LEMMA NewRunRun ==
  ASSUME TypeOK, NEW s \in Slots, NEW j \in Jobs
  PROVE  /\ NewRun(s, j) \in Run /\ RunOK(NewRun(s, j)) /\ NewRun(s, j).phase = "resolve"
         /\ NewRun(s, j).job = j /\ NewRun(s, j).slot = s
         /\ NewRun(s, j).offset = job[j].checkpoint
         /\ NewRun(s, j).attempt = job[j].attempts + 1
         /\ NewRun(s, j).epoch = job[j].manualRetries
<1>1. job[j] \in JobDoc
  BY DEF TypeOK
<1>2. job[j].attempts \in Nat /\ job[j].manualRetries \in Nat /\ job[j].checkpoint \in 0..MaxTargets
  BY <1>1 DEF JobDoc
<1>3. << >> \in Seq(Records) /\ Len(<< >>) = 0 /\ 0 <= MaxTargets
  BY ConstantsOK
<1>4. QED
  BY <1>2, <1>3 DEF NewRun, Run, RunOK, Phases

-----------------------------------------------------------------------------
(* Type correctness is inductive: one step per action.                     *)

LEMMA InitType == Init => TypeInv
<1>1. NoDoc \in JobDoc /\ NoSnap \in Snapshot
  BY NoDocType DEF NoSnap, Snapshot
<1>2. QED
  BY <1>1 DEF Init, TypeInv, TypeOK, HandlersOK, PCs, Busy

LEMMA TypeStep == TypeInv /\ [Next]_vars => TypeInv'
<1> SUFFICES ASSUME TypeInv, [Next]_vars PROVE TypeInv'
  OBVIOUS
<1> USE DEF TypeInv, TypeOK
<1> DEFINE DocsOK == job \in [Jobs -> JobDoc]
           SnapOK == snap \in [Recoverers -> [Jobs -> Snapshot]]
           LocalOK == /\ pc \in [Slots -> PCs]
                      /\ run \in [Slots -> Run \cup {NoRun}]
                      /\ zombies \subseteq Run
                      /\ HandlersOK
           DoneOK == /\ worked \in [Jobs -> SUBSET Records]
                     /\ listed \in [Jobs -> Seq(Records)]
                     /\ moved \in [Jobs -> BOOLEAN]
<1>a. ASSUME NEW s \in Slots, Busy(s)
      PROVE  /\ RunOK(run[s]) /\ run[s] \in Run
             /\ run[s].slot = s /\ run[s].job \in Jobs
  BY <1>a DEF HandlersOK, RunOK, Run
<1>b. ASSUME NEW x, RunOK(x), x.phase # "resolve"
      PROVE  Batch(x) \subseteq Records
  <2>1. x.offset \in Nat /\ x.targets \in Seq(Records)
    BY <1>b DEF RunOK, Run
  <2>2. \A i \in (x.offset + 1)..BatchEnd(x) : i \in 1..Len(x.targets)
    BY <1>b, <2>1, BatchEndIn
  <2>3. QED
    BY <2>1, <2>2 DEF Batch
<1>c. \A x \in Run : x.job \in Jobs /\ x.slot \in Slots
  BY DEF Run
<1>d. ASSUME UNCHANGED <<pc, run, zombies>> PROVE LocalOK'
  BY <1>d DEF HandlersOK, Busy
<1>e. ASSUME NEW s \in Slots, NEW x, RunOK(x), x.slot = s, run' = [run EXCEPT ![s] = x],
             NEW p \in PCs, pc' = [pc EXCEPT ![s] = p], zombies' \subseteq zombies \cup {x}
      PROVE  LocalOK'
  <2>1. x \in Run
    BY <1>e DEF RunOK
  <2>2. pc' \in [Slots -> PCs] /\ run' \in [Slots -> Run \cup {NoRun}] /\ zombies' \subseteq Run
    BY <1>e, <2>1
  <2>3. ASSUME NEW q \in Slots, Busy(q)' PROVE RunOK(run'[q]) /\ run'[q].slot = q
    <3>1. CASE q = s
      BY <1>e, <3>1
    <3>2. CASE q # s
      <4>1. pc'[q] = pc[q] /\ run'[q] = run[q]
        BY <1>e, <3>2
      <4> QED BY <2>3, <4>1 DEF HandlersOK, Busy
    <3> QED BY <3>1, <3>2
  <2>4. \A z \in zombies' : RunOK(z)
    BY <1>e DEF HandlersOK
  <2> QED BY <2>2, <2>3, <2>4 DEF HandlersOK
<1>1. ASSUME NEW j \in Jobs, Enqueue(j) PROVE TypeInv'
  <2>1. DocsOK'
    BY <1>1, QueuedDoc DEF Enqueue
  <2>2. QED
    BY <1>1, <1>d, <2>1 DEF Enqueue
<1>2. ASSUME NEW j \in Jobs, RunAtPasses(j) PROVE TypeInv'
  <2>1. DocsOK'
    BY <1>2, ReadyDoc DEF RunAtPasses
  <2>2. QED
    BY <1>2, <1>d, <2>1 DEF RunAtPasses
<1>3. ASSUME NEW j \in Jobs, HeartbeatExpires(j) PROVE TypeInv'
  <2>1. DocsOK'
    BY <1>3, StaleDoc DEF HeartbeatExpires
  <2>2. QED
    BY <1>3, <1>d, <2>1 DEF HeartbeatExpires
<1>4. ASSUME NEW s \in Slots, NEW j \in Jobs, Claim(s, j) PROVE TypeInv'
  <2>1. DocsOK' /\ SnapOK'
    BY <1>4, ClaimedDoc, TouchFacts DEF Claim
  <2>2. LocalOK'
    BY <1>4, NewRunRun DEF Claim, HandlersOK, Busy, PCs
  <2>3. QED
    BY <1>4, <2>1, <2>2 DEF Claim
<1>5. ASSUME NEW s \in Slots, NEW j \in Jobs, ClaimThrows(s, j) PROVE TypeInv'
  <2>1. DocsOK' /\ SnapOK'
    BY <1>5, ClaimedDoc, TouchFacts DEF ClaimThrows
  <2>2. QED
    BY <1>5, <1>d, <2>1 DEF ClaimThrows
<1>6. ASSUME NEW s \in Slots, Resolve(s) \/ CheckpointInvalid(s) PROVE TypeInv'
  <2>1. Busy(s) /\ pc[s] = "handling"
    BY <1>6 DEF Resolve, CheckpointInvalid, Busy
  <2>2. CASE Resolve(s)
    <3>1. PICK list \in Listings :
            /\ run[s].offset <= Len(list)
            /\ run' = [run EXCEPT ![s] = WithTargets(run[s], list)]
            /\ listed' = [listed EXCEPT ![run[s].job] = list]
            /\ moved' = [moved EXCEPT ![run[s].job] = @ \/ ~IsPrefix(listed[run[s].job], list)]
      BY <2>2 DEF Resolve
    <3>2. LocalOK'
      <4>1. RunOK(WithTargets(run[s], list)) /\ WithTargets(run[s], list).slot = s
        BY <2>1, <1>a, <3>1, TargetsRun
      <4>2. pc' = [pc EXCEPT ![s] = "handling"] /\ "handling" \in PCs /\ zombies' = zombies
        BY <2>1, <2>2 DEF Resolve, PCs
      <4> QED BY <1>e, <3>1, <4>1, <4>2
    <3>3. DoneOK'
      BY <2>2, <3>1, ConstantsOK DEF Resolve
    <3> QED BY <2>2, <3>2, <3>3 DEF Resolve
  <2>3. CASE CheckpointInvalid(s)
    <3>1. LocalOK'
      BY <2>1, <2>3, <1>a, <1>e, EndedRun DEF CheckpointInvalid, PCs
    <3> QED BY <2>3, <3>1 DEF CheckpointInvalid
  <2> QED BY <1>6, <2>2, <2>3
<1>7. ASSUME NEW s \in Slots, StartUnit(s) \/ FinishUnit(s) PROVE TypeInv'
  <2>1. Busy(s) /\ pc[s] = "handling" /\ run[s].phase # "resolve"
    BY <1>7 DEF StartUnit, FinishUnit, Busy
  <2>2. PICK p \in {"work", "save"} : run' = [run EXCEPT ![s] = AtPhase(run[s], p)]
    BY <1>7 DEF StartUnit, FinishUnit
  <2>3. LocalOK'
    <3>1. RunOK(AtPhase(run[s], p)) /\ AtPhase(run[s], p).slot = s
      BY <2>1, <1>a, PhaseRun
    <3>2. pc' = [pc EXCEPT ![s] = "handling"] /\ "handling" \in PCs /\ zombies' = zombies
      BY <1>7, <2>1 DEF StartUnit, FinishUnit, PCs
    <3> QED BY <2>2, <3>1, <3>2, <1>e
  <2>4. DoneOK'
    <3>1. CASE StartUnit(s)
      BY <3>1 DEF StartUnit
    <3>2. CASE FinishUnit(s)
      BY <3>2, <2>1, <1>a, <1>b DEF FinishUnit, Perform
    <3> QED BY <1>7, <3>1, <3>2
  <2>5. QED
    BY <1>7, <2>3, <2>4 DEF StartUnit, FinishUnit
<1>8. ASSUME NEW s \in Slots, SaveCheckpoint(s) PROVE TypeInv'
  <2>1. Busy(s) /\ pc[s] = "handling" /\ run[s].phase # "resolve"
    BY <1>8 DEF SaveCheckpoint, Busy
  <2>2. BatchEnd(run[s]) \in 0..MaxTargets
    BY <2>1, <1>a, BatchEndIn
  <2>3. DocsOK' /\ SnapOK'
    BY <1>8, <2>1, <2>2, <1>a, CheckpointedDoc, TouchFacts DEF SaveCheckpoint, WriteCheckpoint
  <2>4. LocalOK'
    <3>1. RunOK(NextUnit(run[s])) /\ NextUnit(run[s]).slot = s
      BY <2>1, <1>a, NextUnitRun
    <3>2. /\ pc' = [pc EXCEPT ![s] = "handling"] /\ "handling" \in PCs /\ zombies' = zombies
          /\ run' = [run EXCEPT ![s] = NextUnit(run[s])]
      BY <1>8, <2>1 DEF SaveCheckpoint, PCs
    <3> QED BY <3>1, <3>2, <1>e
  <2>5. QED
    BY <1>8, <2>3, <2>4 DEF SaveCheckpoint
<1>9. ASSUME NEW s \in Slots, SaveLosesLock(s) \/ HandlerThrows(s) PROVE TypeInv'
  <2>1. Busy(s) /\ RunOK(Ended(run[s])) /\ Ended(run[s]).slot = s
    BY <1>9, <1>a, EndedRun DEF SaveLosesLock, HandlerThrows, Busy
  <2>2. LocalOK'
    BY <1>9, <2>1, <1>e DEF SaveLosesLock, HandlerThrows, PCs
  <2>3. QED
    BY <1>9, <2>2 DEF SaveLosesLock, HandlerThrows
<1>10. ASSUME NEW s \in Slots, HandlerReturns(s) PROVE TypeInv'
  <2>1. LocalOK'
    BY <1>10 DEF HandlerReturns, HandlersOK, Busy, PCs
  <2>2. QED
    BY <1>10, <2>1 DEF HandlerReturns
<1>11. ASSUME NEW s \in Slots, TimesOut(s) PROVE TypeInv'
  <2>1. Busy(s)
    BY <1>11 DEF TimesOut, Busy
  <2>2. /\ RunOK(Aborted(run[s])) /\ Aborted(run[s]) \in Run
        /\ RunOK(Ended(run[s])) /\ Ended(run[s]) \in Run /\ Ended(run[s]).slot = s
    BY <2>1, <1>a, AbortedRun, EndedRun
  <2>3. /\ pc' = [pc EXCEPT ![s] = "failRetry"]
        /\ run' = [run EXCEPT ![s] = Ended(run[s])]
        /\ zombies' = zombies \cup {Aborted(run[s])}
    BY <1>11 DEF TimesOut
  <2>4. LocalOK'
    <3>1. /\ pc' \in [Slots -> PCs] /\ run' \in [Slots -> Run \cup {NoRun}]
          /\ zombies' \subseteq Run
      BY <2>2, <2>3 DEF PCs
    <3>2. \A z \in zombies' : RunOK(z)
      BY <2>2, <2>3 DEF HandlersOK
    <3>3. ASSUME NEW q \in Slots, Busy(q)' PROVE RunOK(run'[q]) /\ run'[q].slot = q
      <4>1. CASE q = s
        BY <4>1, <2>2, <2>3
      <4>2. CASE q # s
        <5>1. pc'[q] = pc[q] /\ run'[q] = run[q]
          BY <4>2, <2>3
        <5> QED BY <3>3, <5>1 DEF HandlersOK, Busy
      <4> QED BY <4>1, <4>2
    <3> QED BY <3>1, <3>2, <3>3 DEF HandlersOK
  <2>5. QED
    BY <1>11, <2>4 DEF TimesOut
<1>12. ASSUME NEW s \in Slots, Complete(s) \/ CompleteThrows(s) PROVE TypeInv'
  <2>1. Busy(s)
    BY <1>12 DEF Complete, CompleteThrows, Busy
  <2>2. DocsOK' /\ SnapOK'
    <3>1. run[s].job \in Jobs /\ Succeeded(job[run[s].job]) \in JobDoc
      BY <2>1, <1>a, SucceededDoc
    <3>2. CASE CompleteUpdate(s)
      <4>1. DocsOK'
        BY <3>1, <3>2 DEF CompleteUpdate
      <4>2. SnapOK'
        BY <3>1, <3>2, TouchFacts DEF CompleteUpdate
      <4> QED BY <4>1, <4>2
    <3> QED BY <1>12, <3>2 DEF Complete, CompleteThrows
  <2>3. LocalOK'
    <3>1. CASE Complete(s)
      BY <3>1, <2>1 DEF Complete, Release, HandlersOK, Busy, PCs
    <3>2. CASE CompleteThrows(s)
      <4>1. RunOK(Ended(run[s])) /\ Ended(run[s]).slot = s
        BY <2>1, <1>a, EndedRun
      <4> QED BY <3>2, <4>1, <1>e DEF CompleteThrows, PCs
    <3> QED BY <1>12, <3>1, <3>2
  <2>4. QED
    BY <1>12, <2>2, <2>3 DEF Complete, CompleteThrows
<1>13. ASSUME NEW s \in Slots, Fail(s) \/ FailThrows(s) PROVE TypeInv'
  <2>1. Busy(s)
    BY <1>13 DEF Fail, FailThrows, Busy
  <2>2. DocsOK' /\ SnapOK'
    <3>1. \A to \in {"dead", "queued"} : Failed(job[run[s].job], to) \in JobDoc
      BY <2>1, <1>a, FailedDoc
    <3>2. CASE Fail(s)
      <4>1. DocsOK'
        BY <3>1, <3>2, <2>1, <1>a DEF Fail, Verdict
      <4>2. SnapOK'
        BY <3>2, <2>1, <1>a, TouchFacts DEF Fail
      <4>3. QED
        BY <4>1, <4>2
    <3>3. QED
      BY <1>13, <3>2 DEF FailThrows
  <2>3. LocalOK'
    BY <1>13 DEF Fail, FailThrows, Release, HandlersOK, Busy, PCs
  <2>4. QED
    BY <1>13, <2>2, <2>3 DEF Fail, FailThrows
<1>14. ASSUME NEW s \in Slots, Heartbeat(s) PROVE TypeInv'
  <2>1. Busy(s)
    BY <1>14 DEF Heartbeat
  <2>o. /\ RunOK(run[s]) /\ run[s].slot = s /\ run[s].job \in Jobs
        /\ RunOK(Aborted(run[s])) /\ Aborted(run[s]).slot = s
    BY <2>1, <1>a, AbortedRun
  <2>2. DocsOK' /\ SnapOK'
    <3>1. CASE Owned(run[s].job, s)
      <4>1. Refreshed(job[run[s].job]) \in JobDoc
        BY <2>o, RefreshedDoc
      <4>2. job' = [job EXCEPT ![run[s].job] = Refreshed(job[run[s].job])] /\ Touch(run[s].job)
        BY <1>14, <3>1 DEF Heartbeat
      <4>3. SnapOK'
        BY <2>o, <4>2, TouchFacts
      <4> QED BY <4>1, <4>2, <4>3
    <3>2. CASE ~Owned(run[s].job, s)
      BY <1>14, <3>2 DEF Heartbeat
    <3> QED BY <3>1, <3>2
  <2>3. LocalOK'
    <3>1. CASE Owned(run[s].job, s)
      BY <1>14, <1>d, <3>1 DEF Heartbeat
    <3>2. CASE ~Owned(run[s].job, s)
      <4>1. /\ run' = [run EXCEPT ![s] = Aborted(run[s])] /\ pc' = [pc EXCEPT ![s] = pc[s]]
            /\ pc[s] \in PCs /\ zombies' = zombies
        BY <1>14, <3>2 DEF Heartbeat
      <4> QED BY <2>o, <4>1, <1>e
    <3> QED BY <3>1, <3>2
  <2>4. QED
    BY <1>14, <2>2, <2>3 DEF Heartbeat
<1>15. ASSUME NEW z \in zombies, ZombieStep(z) PROVE TypeInv'
  <2>1. RunOK(z) /\ z \in Run /\ z.job \in Jobs
    BY <1>c DEF HandlersOK
  <2>2. ASSUME NEW x, RunOK(x), zombies' \subseteq zombies \cup {x}, UNCHANGED <<pc, run>>
        PROVE  LocalOK'
    <3>1. x \in Run
      BY <2>2 DEF RunOK
    <3> QED BY <2>2, <3>1 DEF HandlersOK, Busy
  <2>3. CASE ZombieFinishesUnit(z)
    <3>1. LocalOK'
      BY <2>1, <2>2, <2>3, PhaseRun DEF ZombieFinishesUnit
    <3>2. DoneOK'
      BY <2>1, <2>3, <1>b DEF ZombieFinishesUnit, Perform
    <3>3. QED
      BY <2>3, <3>1, <3>2 DEF ZombieFinishesUnit
  <2>4. CASE ZombieSaves(z)
    <3>1. BatchEnd(z) \in 0..MaxTargets
      BY <2>1, <2>4, BatchEndIn DEF ZombieSaves
    <3>2. DocsOK' /\ SnapOK'
      BY <2>1, <2>4, <3>1, CheckpointedDoc, TouchFacts DEF ZombieSaves, WriteCheckpoint
    <3>3. LocalOK'
      BY <2>1, <2>2, <2>4, NextUnitRun DEF ZombieSaves
    <3>4. QED
      BY <2>4, <3>2, <3>3 DEF ZombieSaves
  <2>5. CASE ZombieReports(z)
    <3>1. DocsOK' /\ SnapOK'
      BY <2>1, <2>5, RefreshedDoc, TouchFacts DEF ZombieReports
    <3>2. LocalOK'
      BY <2>1, <2>2, <2>5 DEF ZombieReports
    <3>3. QED
      BY <2>5, <3>1, <3>2 DEF ZombieReports
  <2>6. CASE ZombieEnds(z)
    <3>1. LocalOK'
      BY <2>1, <2>2, <2>6 DEF ZombieEnds
    <3>2. QED
      BY <2>6, <3>1 DEF ZombieEnds
  <2>7. QED
    BY <1>15, <2>3, <2>4, <2>5, <2>6 DEF ZombieStep
<1>16. ASSUME NEW I \in Instances, Crash(I) PROVE TypeInv'
  <2>1. LocalOK'
    BY <1>16, ConstantsOK DEF Crash, HandlersOK, Busy, PCs
  <2>2. QED
    BY <1>16, <2>1 DEF Crash
<1>17. ASSUME NEW r \in Recoverers, Scan(r) \/ RecoveryStops(r) PROVE TypeInv'
  <2>1. NoSnap \in Snapshot
    BY DEF NoSnap, Snapshot
  <2>2. \A j \in Jobs : [attempts |-> job[j].attempts, same |-> TRUE, taken |-> TRUE] \in Snapshot
    BY DEF Snapshot, JobDoc
  <2>3. SnapOK'
    <3>1. CASE Scan(r)
      BY <3>1, <2>1, <2>2 DEF Scan
    <3>2. CASE RecoveryStops(r)
      BY <3>2, <2>1 DEF RecoveryStops
    <3>3. QED
      BY <1>17, <3>1, <3>2
  <2>4. QED
    BY <1>17, <1>d, <2>3 DEF Scan, RecoveryStops
<1>18. ASSUME NEW r \in Recoverers, NEW j \in Jobs, Recover(r, j) PROVE TypeInv'
  <2>1. NoSnap \in Snapshot /\ \A sn \in Snapshot : Outdated(sn) \in Snapshot
    BY DEF NoSnap, Outdated, Snapshot
  <2>2. DocsOK'
    <3>1. Verdict(snap[r][j].attempts) \in {"dead", "queued"}
      BY DEF Verdict
    <3>2. Failed(job[j], Verdict(snap[r][j].attempts)) \in JobDoc
      BY <3>1, FailedDoc
    <3>3. UNCHANGED job \/ job' = [job EXCEPT ![j] = Failed(job[j], Verdict(snap[r][j].attempts))]
      BY <1>18 DEF Recover
    <3>4. QED
      BY <3>2, <3>3
  <2>3. \A q \in Recoverers : snap[q] \in [Jobs -> Snapshot]
    OBVIOUS
  <2>4. SnapOK'
    <3>1. CASE job[j].status = "running" /\ snap[r][j].same
      <4>1. snap' = [q \in Recoverers |->
                       [snap[q] EXCEPT ![j] = IF q = r THEN NoSnap ELSE Outdated(snap[q][j])]]
        BY <1>18, <3>1 DEF Recover
      <4>2. \A q \in Recoverers :
              (IF q = r THEN NoSnap ELSE Outdated(snap[q][j])) \in Snapshot
        BY <2>1, <2>3
      <4>3. \A q \in Recoverers :
              [snap[q] EXCEPT ![j] = IF q = r THEN NoSnap ELSE Outdated(snap[q][j])]
                \in [Jobs -> Snapshot]
        BY <2>3, <4>2
      <4> QED BY <4>1, <4>3
    <3>2. CASE ~(job[j].status = "running" /\ snap[r][j].same)
      <4>1. snap' = [snap EXCEPT ![r][j] = NoSnap]
        BY <1>18, <3>2 DEF Recover
      <4>2. [snap[r] EXCEPT ![j] = NoSnap] \in [Jobs -> Snapshot]
        BY <2>1, <2>3
      <4>3. snap' = [snap EXCEPT ![r] = [snap[r] EXCEPT ![j] = NoSnap]]
        BY <4>1
      <4> QED BY <4>2, <4>3
    <3> QED BY <3>1, <3>2
  <2>5. QED
    BY <1>18, <1>d, <2>2, <2>4 DEF Recover
<1>19. ASSUME NEW j \in Jobs, NEW fresh \in BOOLEAN, RetryDead(j, fresh) PROVE TypeInv'
  <2>1. DocsOK'
    BY <1>19, RevivedDoc DEF RetryDead
  <2>2. DoneOK'
    BY <1>19 DEF RetryDead
  <2>3. QED
    BY <1>19, <1>d, <2>1, <2>2 DEF RetryDead
<1>20. CASE UNCHANGED vars
  BY <1>20, <1>d DEF vars
<1>21. QED
  BY <1>1, <1>2, <1>3, <1>4, <1>5, <1>6, <1>7, <1>8, <1>9, <1>10, <1>11, <1>12, <1>13,
     <1>14, <1>15, <1>16, <1>17, <1>18, <1>19, <1>20 DEF Next, SlotStep, RecoveryStep

(* Every reachable state of the queue has the declared types.              *)
THEOREM TypeCorrect == Spec => []TypeOK
<1>1. TypeInv => TypeOK
  BY DEF TypeInv
<1>2. QED
  BY <1>1, InitType, TypeStep, PTL DEF Spec

-----------------------------------------------------------------------------
(* The invariant is inductive. Apart from claiming, a step can only end a  *)
(* run or let go of a job.                                                 *)

KeepsRuns ==
  \A s \in Slots :
    Busy(s)' => /\ Busy(s)
                /\ run'[s].job = run[s].job
                /\ run'[s].attempt = run[s].attempt
                /\ run'[s].epoch = run[s].epoch

KeepsOwners ==
  \A k \in Jobs, s \in Slots :
    Owned(k, s)' => /\ Owned(k, s)
                    /\ job'[k].attempts = job[k].attempts
                    /\ job'[k].manualRetries = job[k].manualRetries

LEMMA BusyRun ==
  ASSUME TypeInv, NEW s \in Slots, Busy(s)
  PROVE  RunOK(run[s]) /\ run[s] \in Run /\ run[s].slot = s /\ run[s].job \in Jobs
  BY DEF TypeInv, HandlersOK, RunOK, Run

LEMMA ZombieRun ==
  ASSUME TypeInv, NEW z \in zombies
  PROVE  RunOK(z) /\ z \in Run /\ z.job \in Jobs
  BY DEF TypeInv, TypeOK, HandlersOK, Run

LEMMA OwnerKept ==
  ASSUME TypeInv, OwnerRunsLatestAttempt, KeepsRuns, KeepsOwners
  PROVE  OwnerRunsLatestAttempt'
<1> SUFFICES ASSUME NEW s \in Slots, Busy(s)', Owned(run[s].job, s)'
             PROVE  /\ run'[s].attempt = job'[run'[s].job].attempts
                    /\ run'[s].epoch = job'[run'[s].job].manualRetries
  BY DEF OwnerRunsLatestAttempt
<1>1. Busy(s) /\ run'[s].job = run[s].job /\ run'[s].attempt = run[s].attempt
      /\ run'[s].epoch = run[s].epoch
  BY DEF KeepsRuns
<1>2. run[s].job \in Jobs
  BY <1>1, BusyRun
<1>3. Owned(run[s].job, s) /\ job'[run[s].job].attempts = job[run[s].job].attempts
      /\ job'[run[s].job].manualRetries = job[run[s].job].manualRetries
  BY <1>1, <1>2 DEF KeepsOwners, Owned
<1>4. QED
  BY <1>1, <1>3 DEF OwnerRunsLatestAttempt

LEMMA SnapshotsKept ==
  ASSUME TypeOK, SnapshotsMatch, NEW j \in Jobs, Touch(j),
         NEW d, job' = [job EXCEPT ![j] = d]
  PROVE  SnapshotsMatch'
<1>1. \A k \in Jobs \ {j} : job'[k] = job[k]
  BY DEF TypeOK
<1>2. QED
  BY <1>1, TouchFacts DEF SnapshotsMatch

LEMMA LocalStep ==
  ASSUME IInv, UNCHANGED <<job, snap>>, KeepsRuns
  PROVE  AttemptsWithinBudget' /\ SnapshotsMatch' /\ OwnerRunsLatestAttempt'
<1>1. KeepsOwners
  BY DEF KeepsOwners, Owned
<1>2. OwnerRunsLatestAttempt'
  BY <1>1, OwnerKept DEF IInv
<1>3. QED
  BY <1>2 DEF IInv, AttemptsWithinBudget, SnapshotsMatch

(* An update of job j by a worker or a recovery loop that does not claim   *)
(* it: it may queue the job again only while there is budget.              *)
LEMMA DocStep ==
  ASSUME IInv, NEW j \in Jobs, NEW d \in JobDoc, job' = [job EXCEPT ![j] = d],
         d.attempts = job[j].attempts,
         d.status = "queued" => d.attempts < MaxAttempts,
         d.status = "running" =>
           /\ job[j].status = "running"
           /\ d.lockedBy = job[j].lockedBy
           /\ d.manualRetries = job[j].manualRetries,
         KeepsRuns
  PROVE  AttemptsWithinBudget' /\ OwnerRunsLatestAttempt'
<1>1. job'[j] = d /\ \A k \in Jobs \ {j} : job'[k] = job[k]
  BY DEF IInv, TypeInv, TypeOK
<1>2. KeepsOwners
  BY <1>1 DEF KeepsOwners, Owned
<1>3. OwnerRunsLatestAttempt'
  BY <1>2, OwnerKept DEF IInv
<1>4. AttemptsWithinBudget'
  BY <1>1 DEF IInv, AttemptsWithinBudget
<1>5. QED
  BY <1>3, <1>4

(* The same for an update that gives the job back a fresh budget.          *)
LEMMA FreshDocStep ==
  ASSUME IInv, NEW j \in Jobs, NEW d \in JobDoc, job' = [job EXCEPT ![j] = d],
         d.attempts = 0, d.status = "queued", job[j].status # "running",
         UNCHANGED snap, KeepsRuns
  PROVE  AttemptsWithinBudget' /\ SnapshotsMatch' /\ OwnerRunsLatestAttempt'
<1>1. job'[j] = d /\ \A k \in Jobs \ {j} : job'[k] = job[k]
  BY DEF IInv, TypeInv, TypeOK
<1>2. KeepsOwners
  BY <1>1 DEF KeepsOwners, Owned
<1>3. OwnerRunsLatestAttempt'
  BY <1>2, OwnerKept DEF IInv
<1>4. AttemptsWithinBudget'
  BY <1>1, ConstantsOK DEF IInv, AttemptsWithinBudget
<1>5. SnapshotsMatch'
  BY <1>1 DEF IInv, SnapshotsMatch
<1>6. QED
  BY <1>3, <1>4, <1>5

(* An update of the lock holder, which keeps the job running.              *)
LEMMA HolderStep ==
  ASSUME IInv, NEW j \in Jobs, NEW d \in JobDoc, job' = [job EXCEPT ![j] = d],
         d.status = job[j].status, d.attempts = job[j].attempts,
         d.lockedBy = job[j].lockedBy, d.manualRetries = job[j].manualRetries,
         job[j].status = "running", Touch(j), KeepsRuns
  PROVE  AttemptsWithinBudget' /\ SnapshotsMatch' /\ OwnerRunsLatestAttempt'
<1>1. AttemptsWithinBudget' /\ OwnerRunsLatestAttempt'
  BY DocStep
<1>2. SnapshotsMatch'
  BY SnapshotsKept DEF IInv, TypeInv
<1>3. QED
  BY <1>1, <1>2

LEMMA InitInv == Init => IInv
<1> SUFFICES ASSUME Init PROVE IInv
  OBVIOUS
<1>1. TypeInv
  BY InitType
<1>2. AttemptsWithinBudget
  BY ConstantsOK DEF Init, NoDoc, AttemptsWithinBudget
<1>3. SnapshotsMatch
  BY DEF Init, NoSnap, SnapshotsMatch
<1>4. OwnerRunsLatestAttempt
  BY DEF Init, Busy, OwnerRunsLatestAttempt
<1>5. QED
  BY <1>1, <1>2, <1>3, <1>4 DEF IInv

LEMMA InvStep == IInv /\ [Next]_vars => IInv'
<1> SUFFICES ASSUME IInv, [Next]_vars PROVE IInv'
  OBVIOUS
<1> DEFINE Rest == AttemptsWithinBudget /\ SnapshotsMatch /\ OwnerRunsLatestAttempt
<1>t. TypeInv /\ TypeOK /\ TypeInv'
  BY TypeStep DEF IInv, TypeInv
<1>d. \A j \in Jobs : job[j] \in JobDoc
  BY <1>t DEF TypeOK
<1>u. ASSUME UNCHANGED <<pc, run>> PROVE KeepsRuns
  BY <1>u DEF KeepsRuns, Busy
<1>1. ASSUME NEW j \in Jobs, Enqueue(j) PROVE Rest'
  <2>1. KeepsRuns
    BY <1>1, <1>u DEF Enqueue
  <2>2. QED
    BY <1>1, <2>1, QueuedDoc, FreshDocStep DEF Enqueue
<1>2. ASSUME NEW j \in Jobs, RunAtPasses(j) PROVE Rest'
  <2> DEFINE d == [job[j] EXCEPT !.ready = TRUE]
  <2>1. KeepsRuns
    BY <1>2, <1>u DEF RunAtPasses
  <2>2. d \in JobDoc /\ d.status = "queued" /\ d.attempts = job[j].attempts
    BY <1>2, <1>d, ReadyDoc DEF RunAtPasses
  <2>3. job' = [job EXCEPT ![j] = d] /\ UNCHANGED snap /\ job[j].status = "queued"
    BY <1>2 DEF RunAtPasses
  <2>4. d.attempts < MaxAttempts
    BY <2>2, <2>3 DEF IInv, AttemptsWithinBudget
  <2> HIDE DEF d
  <2>5. AttemptsWithinBudget' /\ OwnerRunsLatestAttempt'
    BY <2>1, <2>2, <2>3, <2>4, DocStep
  <2>6. SnapshotsMatch'
    BY <2>3, <1>t DEF IInv, SnapshotsMatch, TypeOK
  <2>7. QED
    BY <2>5, <2>6
<1>3. ASSUME NEW j \in Jobs, HeartbeatExpires(j) PROVE Rest'
  <2> DEFINE d == [job[j] EXCEPT !.stale = TRUE]
  <2>1. KeepsRuns
    BY <1>3, <1>u DEF HeartbeatExpires
  <2>2. d \in JobDoc /\ d.status = "running" /\ d.attempts = job[j].attempts
        /\ d.lockedBy = job[j].lockedBy /\ d.manualRetries = job[j].manualRetries
    BY <1>3, <1>d, StaleDoc DEF HeartbeatExpires
  <2>3. job' = [job EXCEPT ![j] = d] /\ UNCHANGED snap /\ job[j].status = "running" /\ ~job[j].stale
    BY <1>3 DEF HeartbeatExpires
  <2> HIDE DEF d
  <2>4. AttemptsWithinBudget' /\ OwnerRunsLatestAttempt'
    BY <2>1, <2>2, <2>3, DocStep
  <2>5. SnapshotsMatch'
    BY <2>3, <1>t DEF IInv, SnapshotsMatch, TypeOK
  <2>6. QED
    BY <2>4, <2>5
<1>4. ASSUME NEW s \in Slots, NEW j \in Jobs, Claim(s, j) \/ ClaimThrows(s, j) PROVE Rest'
  <2>1. /\ job' = [job EXCEPT ![j] = Claimed(job[j], s)]
        /\ Touch(j) /\ ~Busy(s) /\ job[j].status = "queued"
    BY <1>4 DEF Claim, ClaimThrows, Claimable
  <2>2. SnapshotsMatch'
    BY <2>1, <1>t, SnapshotsKept DEF IInv
  <2>3. /\ job'[j] = Claimed(job[j], s)
        /\ \A k \in Jobs \ {j} : job'[k] = job[k]
    BY <2>1, <1>t DEF TypeOK
  <2>4. /\ job'[j].status = "running" /\ job'[j].lockedBy = s
        /\ job'[j].attempts = job[j].attempts + 1
        /\ job'[j].manualRetries = job[j].manualRetries
    BY <2>3, <1>d, ClaimedDoc
  <2>5. AttemptsWithinBudget'
    <3>1. job[j].attempts < MaxAttempts /\ job[j].attempts \in Nat
      BY <2>1, <1>d DEF IInv, AttemptsWithinBudget, JobDoc
    <3>2. job'[j].attempts <= MaxAttempts
      BY <2>4, <3>1, ConstantsOK
    <3>3. QED
      BY <2>3, <2>4, <3>2 DEF IInv, AttemptsWithinBudget
  <2>6. OwnerRunsLatestAttempt'
    <3> SUFFICES ASSUME NEW t \in Slots, Busy(t)', Owned(run[t].job, t)'
                 PROVE  /\ run'[t].attempt = job'[run'[t].job].attempts
                        /\ run'[t].epoch = job'[run'[t].job].manualRetries
      BY DEF OwnerRunsLatestAttempt
    <3>1. CASE Claim(s, j) /\ t = s
      <4>1. run'[t] = NewRun(s, j)
        BY <3>1, <1>t DEF Claim, TypeOK
      <4>2. QED
        BY <4>1, <2>4, <1>t, NewRunRun
    <3>2. CASE ClaimThrows(s, j) \/ t # s
      <4>1. Busy(t) /\ run'[t] = run[t] /\ t # s
        BY <1>4, <3>2, <2>1, <1>t DEF Claim, ClaimThrows, Busy, TypeOK
      <4>2. run[t].job \in Jobs
        BY <4>1, <1>t, BusyRun
      <4>3. run[t].job # j
        BY <4>1, <2>4 DEF Owned
      <4>4. job'[run[t].job] = job[run[t].job]
        BY <2>3, <4>2, <4>3
      <4>5. QED
        BY <4>1, <4>4 DEF IInv, OwnerRunsLatestAttempt, Owned
    <3>3. QED
      BY <1>4, <3>1, <3>2
  <2>7. QED
    BY <2>2, <2>5, <2>6
<1>5. ASSUME NEW s \in Slots,
             \/ Resolve(s) \/ CheckpointInvalid(s)
             \/ StartUnit(s) \/ FinishUnit(s) \/ SaveLosesLock(s) \/ HandlerReturns(s)
             \/ HandlerThrows(s) \/ TimesOut(s) \/ FailThrows(s)
      PROVE  Rest'
  <2>1. UNCHANGED <<job, snap>>
    BY <1>5 DEF Resolve, CheckpointInvalid, StartUnit, FinishUnit, SaveLosesLock, HandlerReturns, HandlerThrows, TimesOut, FailThrows
  <2>2. Busy(s)
    BY <1>5 DEF Resolve, CheckpointInvalid, StartUnit, FinishUnit, SaveLosesLock, HandlerReturns, HandlerThrows, TimesOut, FailThrows, Busy
  <2>3. run[s] \in Run /\ RunOK(run[s])
    BY <2>2, <1>t, BusyRun
  <2>4. /\ \A t \in Slots \ {s} : pc'[t] = pc[t] /\ run'[t] = run[t]
        /\ \/ run'[s] = run[s]
           \/ /\ run[s].phase # "resolve"
              /\ \E p \in {"work", "save"} : run'[s] = AtPhase(run[s], p)
           \/ \E list \in Listings :
                run[s].offset <= Len(list) /\ run'[s] = WithTargets(run[s], list)
           \/ run'[s] = Ended(run[s])
           \/ pc'[s] = "idle"
    BY <1>5, <1>t DEF TypeOK, Resolve, CheckpointInvalid, StartUnit, FinishUnit, SaveLosesLock, HandlerReturns, HandlerThrows,
       TimesOut, FailThrows, Release
  <2>5. KeepsRuns
    BY <2>2, <2>3, <2>4, PhaseRun, TargetsRun, EndedRun DEF KeepsRuns, Busy
  <2>6. QED
    BY <2>1, <2>5, LocalStep
<1>6. ASSUME NEW s \in Slots, SaveCheckpoint(s) PROVE Rest'
  <2> DEFINE d == Checkpointed(job[run[s].job], BatchEnd(run[s]))
  <2>1. Busy(s) /\ Owned(run[s].job, s) /\ run[s].phase = "save"
    BY <1>6 DEF SaveCheckpoint, Busy
  <2>2. run[s] \in Run /\ run[s].job \in Jobs /\ RunOK(run[s])
    BY <2>1, <1>t, BusyRun
  <2>3. BatchEnd(run[s]) \in 0..MaxTargets
    BY <2>1, <2>2, BatchEndIn
  <2>4. /\ d \in JobDoc /\ d.status = "running" /\ d.attempts = job[run[s].job].attempts
        /\ d.lockedBy = job[run[s].job].lockedBy
        /\ d.manualRetries = job[run[s].job].manualRetries
    BY <2>1, <2>2, <2>3, <1>d, CheckpointedDoc DEF Owned
  <2>5. job' = [job EXCEPT ![run[s].job] = d] /\ Touch(run[s].job)
    BY <1>6 DEF SaveCheckpoint, WriteCheckpoint
  <2>6. KeepsRuns
    BY <1>6, <2>1, <2>2, <1>t, NextUnitRun DEF SaveCheckpoint, KeepsRuns, Busy, TypeOK
  <2> HIDE DEF d
  <2>7. QED
    BY <2>1, <2>2, <2>4, <2>5, <2>6, HolderStep DEF Owned
<1>7. ASSUME NEW s \in Slots, Complete(s) \/ CompleteThrows(s) PROVE Rest'
  <2>1. Busy(s)
    BY <1>7 DEF Complete, CompleteThrows, Busy
  <2>2. run[s].job \in Jobs
    BY <2>1, <1>t, BusyRun
  <2>3. KeepsRuns
    <3>1. RunOK(run[s])
      BY <2>1, <1>t, BusyRun
    <3>2. CASE Complete(s)
      BY <3>2, <2>1, <1>t DEF Complete, Release, KeepsRuns, Busy, TypeOK
    <3>3. CASE CompleteThrows(s)
      <4>1. /\ Ended(run[s]).job = run[s].job /\ Ended(run[s]).attempt = run[s].attempt
            /\ Ended(run[s]).epoch = run[s].epoch
        BY <3>1, EndedRun
      <4> QED BY <3>3, <4>1, <2>1, <1>t DEF CompleteThrows, KeepsRuns, Busy, TypeOK
    <3> QED BY <1>7, <3>2, <3>3
  <2>4. CASE UNCHANGED <<job, snap>>
    BY <2>3, <2>4, LocalStep
  <2>5. CASE ~UNCHANGED <<job, snap>>
    <3> DEFINE d == Succeeded(job[run[s].job])
    <3>1. job' = [job EXCEPT ![run[s].job] = d] /\ Touch(run[s].job)
      BY <1>7, <2>5 DEF Complete, CompleteThrows, CompleteUpdate
    <3>2. d \in JobDoc /\ d.status = "succeeded" /\ d.attempts = job[run[s].job].attempts
      BY <2>2, <1>d, SucceededDoc
    <3> HIDE DEF d
    <3>3. AttemptsWithinBudget' /\ OwnerRunsLatestAttempt'
      BY <2>2, <2>3, <3>1, <3>2, DocStep
    <3>4. SnapshotsMatch'
      BY <2>2, <3>1, <1>t, SnapshotsKept DEF IInv
    <3>5. QED
      BY <3>3, <3>4
  <2>6. QED
    BY <2>4, <2>5
<1>8. ASSUME NEW s \in Slots, Fail(s) PROVE Rest'
  <2>1. Busy(s)
    BY <1>8 DEF Fail, Busy
  <2>2. run[s].job \in Jobs
    BY <2>1, <1>t, BusyRun
  <2>3. KeepsRuns
    BY <1>8, <2>1, <1>t DEF Fail, Release, KeepsRuns, Busy, TypeOK
  <2>4. CASE ~Owned(run[s].job, s)
    BY <1>8, <2>3, <2>4, LocalStep DEF Fail
  <2>5. CASE Owned(run[s].job, s)
    <3> DEFINE to == IF pc[s] = "failFinal" THEN "dead" ELSE Verdict(run[s].attempt)
               d == Failed(job[run[s].job], to)
    <3>1. job' = [job EXCEPT ![run[s].job] = d] /\ Touch(run[s].job)
      BY <1>8, <2>5 DEF Fail
    <3>2. to \in {"dead", "queued"} /\ (to = "queued" => ~(run[s].attempt >= MaxAttempts))
      BY DEF Verdict
    <3>3. run[s].attempt = job[run[s].job].attempts /\ job[run[s].job].attempts \in Nat
      BY <2>1, <2>2, <2>5, <1>d DEF IInv, OwnerRunsLatestAttempt, JobDoc
    <3> HIDE DEF to
    <3>4. d \in JobDoc /\ d.status = to /\ d.attempts = job[run[s].job].attempts
      BY <2>2, <3>2, <1>d, FailedDoc
    <3> HIDE DEF d
    <3>5. d.status = "queued" => d.attempts < MaxAttempts
      BY <3>2, <3>3, <3>4, ConstantsOK
    <3>6. AttemptsWithinBudget' /\ OwnerRunsLatestAttempt'
      BY <2>2, <2>3, <3>1, <3>2, <3>4, <3>5, DocStep
    <3>7. SnapshotsMatch'
      BY <2>2, <3>1, <1>t, SnapshotsKept DEF IInv
    <3>8. QED
      BY <3>6, <3>7
  <2>6. QED
    BY <2>4, <2>5
<1>9. ASSUME NEW s \in Slots, Heartbeat(s) PROVE Rest'
  <2>1. Busy(s) /\ run[s] \in Run /\ run[s].job \in Jobs /\ RunOK(run[s])
    BY <1>9, <1>t, BusyRun DEF Heartbeat
  <2>2. KeepsRuns
    <3>1. /\ Aborted(run[s]).job = run[s].job /\ Aborted(run[s]).attempt = run[s].attempt
          /\ Aborted(run[s]).epoch = run[s].epoch
      BY <2>1, AbortedRun
    <3>2. UNCHANGED run \/ run' = [run EXCEPT ![s] = Aborted(run[s])]
      BY <1>9 DEF Heartbeat
    <3>3. UNCHANGED pc
      BY <1>9 DEF Heartbeat
    <3> QED BY <3>1, <3>2, <3>3, <1>t DEF KeepsRuns, Busy, TypeOK
  <2>3. CASE ~Owned(run[s].job, s)
    BY <1>9, <2>2, <2>3, LocalStep DEF Heartbeat
  <2>4. CASE Owned(run[s].job, s)
    BY <1>9, <2>1, <2>2, <2>4, <1>d, RefreshedDoc, HolderStep DEF Heartbeat, Owned
  <2>5. QED
    BY <2>3, <2>4
<1>10. ASSUME NEW z \in zombies, ZombieStep(z) PROVE Rest'
  <2>1. z \in Run /\ z.job \in Jobs /\ RunOK(z)
    BY <1>t, ZombieRun
  <2>2. KeepsRuns
    BY <1>10, <1>u DEF ZombieStep, ZombieFinishesUnit, ZombieSaves, ZombieReports, ZombieEnds
  <2>3. CASE ZombieFinishesUnit(z) \/ ZombieEnds(z)
    BY <2>2, <2>3, LocalStep DEF ZombieFinishesUnit, ZombieEnds
  <2>4. CASE ZombieSaves(z)
    <3>1. BatchEnd(z) \in 0..MaxTargets
      BY <2>1, <2>4, BatchEndIn DEF ZombieSaves
    <3>2. QED
      BY <2>1, <2>2, <2>4, <3>1, <1>d, CheckpointedDoc, HolderStep
         DEF ZombieSaves, WriteCheckpoint, Owned
  <2>5. CASE ZombieReports(z)
    BY <2>1, <2>2, <2>5, <1>d, RefreshedDoc, HolderStep DEF ZombieReports, Owned
  <2>6. QED
    BY <1>10, <2>3, <2>4, <2>5 DEF ZombieStep
<1>11. ASSUME NEW I \in Instances, Crash(I) PROVE Rest'
  <2>1. KeepsRuns
    BY <1>11, <1>t DEF Crash, KeepsRuns, Busy, TypeOK
  <2>2. QED
    BY <1>11, <2>1, LocalStep DEF Crash
<1>12. ASSUME NEW r \in Recoverers, Scan(r) \/ RecoveryStops(r) PROVE Rest'
  <2>1. KeepsRuns /\ UNCHANGED job
    BY <1>12, <1>u DEF Scan, RecoveryStops
  <2>2. KeepsOwners
    BY <2>1 DEF KeepsOwners, Owned
  <2>3. SnapshotsMatch'
    <3>1. CASE Scan(r)
      <4>1. \A q \in Recoverers \ {r} : snap'[q] = snap[q]
        BY <3>1, <1>t DEF Scan, TypeOK
      <4>2. snap'[r] = [j \in Jobs |->
                         IF j \in Stalled
                         THEN [attempts |-> job[j].attempts, same |-> TRUE, taken |-> TRUE]
                         ELSE NoSnap]
        BY <3>1, <1>t DEF Scan, TypeOK
      <4>3. \A j \in Jobs : snap'[r][j].same => j \in Stalled /\ snap'[r][j].attempts = job[j].attempts
        BY <4>2 DEF NoSnap
      <4>4. QED
        BY <2>1, <4>1, <4>3 DEF Stalled, IInv, SnapshotsMatch
    <3>2. CASE RecoveryStops(r)
      BY <3>2, <2>1, <1>t DEF RecoveryStops, NoSnap, IInv, SnapshotsMatch, TypeOK
    <3>3. QED
      BY <1>12, <3>1, <3>2
  <2>4. OwnerRunsLatestAttempt'
    BY <2>1, <2>2, <1>t, OwnerKept DEF IInv
  <2>5. QED
    BY <2>1, <2>3, <2>4 DEF IInv, AttemptsWithinBudget
<1>13. ASSUME NEW r \in Recoverers, NEW j \in Jobs, Recover(r, j) PROVE Rest'
  <2>1. KeepsRuns
    BY <1>13, <1>u DEF Recover
  <2>2. \A q \in Recoverers : /\ snap[q] \in [Jobs -> Snapshot]
                              /\ ~Outdated(snap[q][j]).same
    BY <1>t DEF TypeOK, Snapshot, Outdated
  <2>3. CASE ~(job[j].status = "running" /\ snap[r][j].same)
    <3>1. UNCHANGED job /\ snap' = [snap EXCEPT ![r][j] = NoSnap]
      BY <1>13, <2>3 DEF Recover
    <3>2. KeepsOwners
      BY <3>1 DEF KeepsOwners, Owned
    <3>3. SnapshotsMatch'
      BY <3>1, <2>2, <1>t DEF NoSnap, IInv, SnapshotsMatch, TypeOK
    <3>4. OwnerRunsLatestAttempt'
      BY <2>1, <3>2, <1>t, OwnerKept DEF IInv
    <3>5. QED
      BY <3>1, <3>3, <3>4 DEF IInv, AttemptsWithinBudget
  <2>4. CASE job[j].status = "running" /\ snap[r][j].same
    <3> DEFINE to == Verdict(snap[r][j].attempts)
               d == Failed(job[j], to)
    <3>1. /\ job' = [job EXCEPT ![j] = d]
          /\ snap' = [q \in Recoverers |->
                        [snap[q] EXCEPT ![j] = IF q = r THEN NoSnap ELSE Outdated(snap[q][j])]]
      BY <1>13, <2>4 DEF Recover
    <3>2. to \in {"dead", "queued"} /\ (to = "queued" => ~(snap[r][j].attempts >= MaxAttempts))
      BY DEF Verdict
    <3>3. snap[r][j].attempts = job[j].attempts /\ job[j].attempts \in Nat
      BY <2>4, <1>d DEF IInv, SnapshotsMatch, JobDoc
    <3> HIDE DEF to
    <3>4. d \in JobDoc /\ d.status = to /\ d.attempts = job[j].attempts
      BY <3>2, <1>d, FailedDoc
    <3> HIDE DEF d
    <3>5. d.status = "queued" => d.attempts < MaxAttempts
      BY <3>2, <3>3, <3>4, ConstantsOK
    <3>6. AttemptsWithinBudget' /\ OwnerRunsLatestAttempt'
      BY <2>1, <3>1, <3>2, <3>4, <3>5, DocStep
    <3>7. \A q \in Recoverers :
            /\ ~snap'[q][j].same
            /\ \A k \in Jobs \ {j} : snap'[q][k] = snap[q][k]
      BY <3>1, <2>2 DEF NoSnap
    <3>8. \A k \in Jobs \ {j} : job'[k] = job[k]
      BY <3>1, <1>t DEF TypeOK
    <3>9. SnapshotsMatch'
      BY <3>7, <3>8 DEF IInv, SnapshotsMatch
    <3>10. QED
      BY <3>6, <3>9
  <2>5. QED
    BY <2>3, <2>4
<1>14. ASSUME NEW j \in Jobs, NEW fresh \in BOOLEAN, RetryDead(j, fresh) PROVE Rest'
  <2>1. KeepsRuns
    BY <1>14, <1>u DEF RetryDead
  <2>2. QED
    BY <1>14, <2>1, <1>d, RevivedDoc, FreshDocStep DEF RetryDead
<1>15. CASE UNCHANGED vars
  <2>1. KeepsRuns
    BY <1>15, <1>u DEF vars
  <2>2. QED
    BY <1>15, <1>t, <2>1, LocalStep DEF vars, IInv
<1>16. Rest' => IInv'
  BY <1>t DEF IInv
<1>17. QED
  BY <1>1, <1>2, <1>3, <1>4, <1>5, <1>6, <1>7, <1>8, <1>9, <1>10, <1>11, <1>12, <1>13,
     <1>14, <1>15, <1>16 DEF Next, SlotStep, RecoveryStep

(* No job ever starts more attempts than its budget, whatever crashes,     *)
(* stalls or is retried.                                                   *)
THEOREM BudgetHolds == Spec => []AttemptsWithinBudget
<1>1. IInv => AttemptsWithinBudget
  BY DEF IInv
<1>2. QED
  BY <1>1, InitInv, InvStep, PTL DEF Spec

(* A worker that holds a job's lock holds the latest attempt of it, so the *)
(* outcome it records is never that of an earlier attempt.                 *)
THEOREM OwnerIsLatest == Spec => []OwnerRunsLatestAttempt
<1>1. IInv => OwnerRunsLatestAttempt
  BY DEF IInv
<1>2. QED
  BY <1>1, InitInv, InvStep, PTL DEF Spec

-----------------------------------------------------------------------------
(* Who may take a job out of the running state.                            *)

KeptByItsWorker ==
  \A j \in Jobs :
    /\ job[j].status = "running"
    /\ ~job[j].stale
    /\ job'[j].status # "running"
    => \E s \in Slots : Owned(j, s) /\ Busy(s) /\ run[s].job = j

(* Only these steps end the running state of a job: its worker's outcome   *)
(* and the recovery of a job that went stale.                              *)
LEMMA KeptStep == IInv /\ [Next]_vars => KeptByItsWorker
<1> SUFFICES ASSUME IInv, [Next]_vars,
                    NEW j \in Jobs, job[j].status = "running", job'[j].status # "running"
             PROVE  job[j].stale \/ \E s \in Slots : Owned(j, s) /\ Busy(s) /\ run[s].job = j
  BY DEF KeptByItsWorker
<1>t. TypeInv /\ TypeOK
  BY DEF IInv, TypeInv
<1>d. \A k \in Jobs : job[k] \in JobDoc
  BY <1>t DEF TypeOK
<1>n. ~UNCHANGED job
  OBVIOUS
<1>1. ASSUME NEW k \in Jobs, NEW d, job' = [job EXCEPT ![k] = d]
      PROVE  k = j /\ d.status # "running"
  BY <1>1, <1>t DEF TypeOK
<1>2. ASSUME NEW k \in Jobs, Enqueue(k) \/ RunAtPasses(k) \/ HeartbeatExpires(k) PROVE FALSE
  <2>1. CASE Enqueue(k)
    <3>1. job[k].status = "absent" /\ \E d : job' = [job EXCEPT ![k] = d]
      BY <2>1 DEF Enqueue
    <3>2. QED
      BY <3>1, <1>1
  <2>2. CASE RunAtPasses(k)
    <3>1. job[k].status = "queued" /\ \E d : job' = [job EXCEPT ![k] = d]
      BY <2>2 DEF RunAtPasses
    <3>2. QED
      BY <3>1, <1>1
  <2>3. CASE HeartbeatExpires(k)
    <3>1. job' = [job EXCEPT ![k] = [job[k] EXCEPT !.stale = TRUE]] /\ job[k].status = "running"
      BY <2>3 DEF HeartbeatExpires
    <3>2. [job[k] EXCEPT !.stale = TRUE].status = job[k].status
      BY <1>d, StaleDoc
    <3>3. QED
      BY <3>1, <3>2, <1>1
  <2>4. QED
    BY <1>2, <2>1, <2>2, <2>3
<1>3. ASSUME NEW s \in Slots, NEW k \in Jobs, Claim(s, k) \/ ClaimThrows(s, k) PROVE FALSE
  BY <1>3, <1>1, <1>d, ClaimedDoc DEF Claim, ClaimThrows
<1>4. ASSUME NEW s \in Slots, SaveCheckpoint(s) PROVE FALSE
  <2>1. Busy(s) /\ run[s].phase = "save"
    BY <1>4 DEF SaveCheckpoint, Busy
  <2>2. run[s] \in Run /\ run[s].job \in Jobs /\ RunOK(run[s])
    BY <2>1, <1>t, BusyRun
  <2>3. BatchEnd(run[s]) \in 0..MaxTargets
    BY <2>1, <2>2, BatchEndIn
  <2>4. QED
    BY <1>4, <1>1, <1>d, <2>2, <2>3, CheckpointedDoc DEF SaveCheckpoint, WriteCheckpoint, Owned
<1>5. ASSUME NEW s \in Slots, Complete(s) \/ CompleteThrows(s) \/ Fail(s)
      PROVE  Owned(j, s) /\ Busy(s) /\ run[s].job = j
  <2>1. Busy(s) /\ run[s].job \in Jobs
    BY <1>5, <1>t, BusyRun DEF Complete, CompleteThrows, Fail, Busy
  <2>2. Owned(run[s].job, s) /\ \E d : job' = [job EXCEPT ![run[s].job] = d]
    BY <1>5, <1>n DEF Complete, CompleteThrows, CompleteUpdate, Fail
  <2>3. QED
    BY <2>1, <2>2, <1>1
<1>6. ASSUME NEW s \in Slots, Heartbeat(s) PROVE FALSE
  <2>1. Busy(s) /\ run[s].job \in Jobs
    BY <1>6, <1>t, BusyRun DEF Heartbeat
  <2>2. QED
    BY <1>6, <1>1, <1>d, <2>1, RefreshedDoc DEF Heartbeat, Owned
<1>7. ASSUME NEW z \in zombies, ZombieStep(z) PROVE FALSE
  <2>1. z \in Run /\ z.job \in Jobs /\ RunOK(z)
    BY <1>t, ZombieRun
  <2>2. ~ZombieSaves(z)
    <3> SUFFICES ASSUME ZombieSaves(z) PROVE FALSE
      OBVIOUS
    <3>1. BatchEnd(z) \in 0..MaxTargets
      BY <2>1, BatchEndIn DEF ZombieSaves
    <3>2. QED
      BY <1>1, <1>d, <2>1, <3>1, CheckpointedDoc DEF ZombieSaves, WriteCheckpoint, Owned
  <2>3. QED
    BY <1>7, <1>n, <1>1, <1>d, <2>1, <2>2, RefreshedDoc
       DEF ZombieStep, ZombieFinishesUnit, ZombieReports, ZombieEnds, Owned
<1>8. ASSUME NEW r \in Recoverers, NEW k \in Jobs, Recover(r, k) PROVE job[j].stale
  BY <1>8, <1>n, <1>1 DEF Recover, IInv, SnapshotsMatch
<1>9. ASSUME NEW k \in Jobs, NEW fresh \in BOOLEAN, RetryDead(k, fresh) PROVE FALSE
  BY <1>9, <1>1 DEF RetryDead
<1>10. ASSUME UNCHANGED job PROVE FALSE
  BY <1>10
<1>11. ASSUME NEW s \in Slots,
              \/ Resolve(s) \/ CheckpointInvalid(s)
             \/ StartUnit(s) \/ FinishUnit(s) \/ SaveLosesLock(s) \/ HandlerReturns(s)
              \/ HandlerThrows(s) \/ TimesOut(s) \/ FailThrows(s)
       PROVE  UNCHANGED job
  BY <1>11 DEF Resolve, CheckpointInvalid, StartUnit, FinishUnit, SaveLosesLock, HandlerReturns, HandlerThrows, TimesOut, FailThrows
<1>12. ASSUME NEW I \in Instances, Crash(I) PROVE UNCHANGED job
  BY <1>12 DEF Crash
<1>13. ASSUME NEW r \in Recoverers, Scan(r) \/ RecoveryStops(r) PROVE UNCHANGED job
  BY <1>13 DEF Scan, RecoveryStops
<1>14. CASE UNCHANGED vars
  BY <1>14, <1>10 DEF vars
<1>15. QED
  BY <1>2, <1>3, <1>4, <1>5, <1>6, <1>7, <1>8, <1>9, <1>10, <1>11, <1>12, <1>13, <1>14
     DEF Next, SlotStep, RecoveryStep

(* A running job whose heartbeat is fresh is taken out of the running      *)
(* state by nobody but the slot that is processing it: the stall recovery  *)
(* never races a live worker and wins.                                     *)
THEOREM FreshJobIsKept == Spec => FreshJobKeptByItsWorker
<1>1. Spec => [][KeptByItsWorker]_vars
  BY KeptStep, InitInv, InvStep, PTL DEF Spec
<1>2. QED
  BY <1>1 DEF FreshJobKeptByItsWorker, KeptByItsWorker

-----------------------------------------------------------------------------
(* Refinement: the guarded updates implement JobLifecycle.                 *)

(* What an update may do to the status and the attempts of a document.     *)
Allowed(d, e) ==
  \/ e.status = d.status /\ e.attempts = d.attempts
  \/ d.status = "absent" /\ e.status = "queued" /\ e.attempts = 0
  \/ /\ d.status = "queued" /\ d.attempts < MaxAttempts
     /\ e.status = "running" /\ e.attempts = d.attempts + 1
  \/ d.status = "running" /\ e.status = "succeeded" /\ e.attempts = d.attempts
  \/ /\ d.status = "running" /\ d.attempts < MaxAttempts
     /\ e.status = "queued" /\ e.attempts = d.attempts
  \/ d.status = "running" /\ e.status = "dead" /\ e.attempts = d.attempts
  \/ d.status = "dead" /\ e.status = "queued" /\ e.attempts = 0

LEMMA AllowedStep ==
  ASSUME TypeOK, NEW j \in Jobs, NEW e \in JobDoc, job' = [job EXCEPT ![j] = e],
         Allowed(job[j], e)
  PROVE  [Lifecycle!LifeNext]_Life
<1> DEFINE to == [phase |-> e.status, tries |-> e.attempts]
<1>1. /\ Life[j] = [phase |-> job[j].status, tries |-> job[j].attempts]
      /\ Life' = [Life EXCEPT ![j] = to]
      /\ Life = [Life EXCEPT ![j] = Life[j]]
  BY DEF Life, TypeOK
<1>2. Life[j].phase = job[j].status /\ Life[j].tries = job[j].attempts
  BY <1>1
<1>3. ASSUME NEW p
      PROVE  [Life EXCEPT ![j].phase = p] = [Life EXCEPT ![j] = [phase |-> p, tries |-> job[j].attempts]]
  <2>1. [Life[j] EXCEPT !.phase = p] = [phase |-> p, tries |-> job[j].attempts]
    BY <1>1
  <2>2. QED
    BY <2>1
<1>4. CASE e.status = job[j].status /\ e.attempts = job[j].attempts
  BY <1>1, <1>4
<1>5. CASE job[j].status = "absent" /\ e.status = "queued" /\ e.attempts = 0
  <2>1. Lifecycle!Submit(j)
    BY <1>1, <1>2, <1>5 DEF Lifecycle!Submit
  <2>2. QED
    BY <2>1 DEF Lifecycle!LifeNext
<1>6. CASE /\ job[j].status = "queued" /\ job[j].attempts < MaxAttempts
           /\ e.status = "running" /\ e.attempts = job[j].attempts + 1
  <2>1. Lifecycle!Begin(j)
    BY <1>1, <1>2, <1>6 DEF Lifecycle!Begin
  <2>2. QED
    BY <2>1 DEF Lifecycle!LifeNext
<1>7. CASE job[j].status = "running" /\ e.status = "succeeded" /\ e.attempts = job[j].attempts
  <2>1. Lifecycle!Finish(j)
    BY <1>1, <1>2, <1>3, <1>7 DEF Lifecycle!Finish
  <2>2. QED
    BY <2>1 DEF Lifecycle!LifeNext
<1>8. CASE /\ job[j].status = "running" /\ job[j].attempts < MaxAttempts
           /\ e.status = "queued" /\ e.attempts = job[j].attempts
  <2>1. Lifecycle!Retry(j)
    BY <1>1, <1>2, <1>3, <1>8 DEF Lifecycle!Retry
  <2>2. QED
    BY <2>1 DEF Lifecycle!LifeNext
<1>9. CASE job[j].status = "running" /\ e.status = "dead" /\ e.attempts = job[j].attempts
  <2>1. Lifecycle!Bury(j)
    BY <1>1, <1>2, <1>3, <1>9 DEF Lifecycle!Bury
  <2>2. QED
    BY <2>1 DEF Lifecycle!LifeNext
<1>10. CASE job[j].status = "dead" /\ e.status = "queued" /\ e.attempts = 0
  <2>1. Lifecycle!Revive(j)
    BY <1>1, <1>2, <1>10 DEF Lifecycle!Revive
  <2>2. QED
    BY <2>1 DEF Lifecycle!LifeNext
<1>11. QED
  BY <1>4, <1>5, <1>6, <1>7, <1>8, <1>9, <1>10 DEF Allowed

LEMMA StillStep == UNCHANGED job => [Lifecycle!LifeNext]_Life
  BY DEF Life

LEMMA LifeStep == IInv /\ [Next]_vars => [Lifecycle!LifeNext]_Life
<1> SUFFICES ASSUME IInv, [Next]_vars PROVE [Lifecycle!LifeNext]_Life
  OBVIOUS
<1> DEFINE Goal == [Lifecycle!LifeNext]_Life
<1>t. TypeInv /\ TypeOK
  BY DEF IInv, TypeInv
<1>d. \A j \in Jobs : job[j] \in JobDoc
  BY <1>t DEF TypeOK
<1>s. ASSUME NEW j \in Jobs, NEW e \in JobDoc, job' = [job EXCEPT ![j] = e], Allowed(job[j], e)
      PROVE  Goal
  BY <1>s, <1>t, AllowedStep
<1> HIDE DEF Goal
<1>h. ASSUME NEW j \in Jobs, NEW e \in JobDoc, job' = [job EXCEPT ![j] = e],
             e.status = job[j].status, e.attempts = job[j].attempts
      PROVE  Goal
  BY <1>h, <1>s DEF Allowed
<1>u. UNCHANGED job => Goal
  BY StillStep DEF Goal
<1>1. ASSUME NEW j \in Jobs, Enqueue(j) PROVE Goal
  <2>1. PICK now \in BOOLEAN : job' = [job EXCEPT ![j] = [NoDoc EXCEPT !.status = "queued", !.ready = now]]
    BY <1>1 DEF Enqueue
  <2> DEFINE e == [NoDoc EXCEPT !.status = "queued", !.ready = now]
  <2>2. e \in JobDoc /\ e.status = "queued" /\ e.attempts = 0 /\ job[j].status = "absent"
    BY <1>1, QueuedDoc DEF Enqueue
  <2>3. job' = [job EXCEPT ![j] = e]
    BY <2>1
  <2> HIDE DEF e
  <2>4. QED
    BY <2>2, <2>3, <1>s DEF Allowed
<1>2. ASSUME NEW j \in Jobs, RunAtPasses(j) PROVE Goal
  <2> DEFINE e == [job[j] EXCEPT !.ready = TRUE]
  <2>1. job' = [job EXCEPT ![j] = e]
    BY <1>2 DEF RunAtPasses
  <2>2. e \in JobDoc /\ e.status = job[j].status /\ e.attempts = job[j].attempts
    BY <1>d, ReadyDoc
  <2> HIDE DEF e
  <2>3. QED
    BY <2>1, <2>2, <1>h
<1>3. ASSUME NEW j \in Jobs, HeartbeatExpires(j) PROVE Goal
  <2> DEFINE e == [job[j] EXCEPT !.stale = TRUE]
  <2>1. job' = [job EXCEPT ![j] = e]
    BY <1>3 DEF HeartbeatExpires
  <2>2. e \in JobDoc /\ e.status = job[j].status /\ e.attempts = job[j].attempts
    BY <1>d, StaleDoc
  <2> HIDE DEF e
  <2>3. QED
    BY <2>1, <2>2, <1>h
<1>4. ASSUME NEW s \in Slots, NEW j \in Jobs, Claim(s, j) \/ ClaimThrows(s, j) PROVE Goal
  <2>1. job' = [job EXCEPT ![j] = Claimed(job[j], s)] /\ job[j].status = "queued"
    BY <1>4 DEF Claim, ClaimThrows, Claimable
  <2>2. job[j].attempts < MaxAttempts
    BY <2>1 DEF IInv, AttemptsWithinBudget
  <2>3. Allowed(job[j], Claimed(job[j], s)) /\ Claimed(job[j], s) \in JobDoc
    BY <2>1, <2>2, <1>d, ClaimedDoc DEF Allowed
  <2>4. QED
    BY <2>1, <2>3, <1>s
<1>5. ASSUME NEW s \in Slots,
             \/ Resolve(s) \/ CheckpointInvalid(s)
             \/ StartUnit(s) \/ FinishUnit(s) \/ SaveLosesLock(s) \/ HandlerReturns(s)
             \/ HandlerThrows(s) \/ TimesOut(s) \/ FailThrows(s)
      PROVE  Goal
  BY <1>5, <1>u DEF Resolve, CheckpointInvalid, StartUnit, FinishUnit, SaveLosesLock, HandlerReturns, HandlerThrows, TimesOut, FailThrows
<1>6. ASSUME NEW s \in Slots, SaveCheckpoint(s) PROVE Goal
  <2>1. Busy(s) /\ run[s].phase = "save"
    BY <1>6 DEF SaveCheckpoint, Busy
  <2>2. run[s] \in Run /\ run[s].job \in Jobs /\ RunOK(run[s])
    BY <2>1, <1>t, BusyRun
  <2>3. BatchEnd(run[s]) \in 0..MaxTargets
    BY <2>1, <2>2, BatchEndIn
  <2>4. QED
    BY <1>6, <1>h, <1>d, <2>2, <2>3, CheckpointedDoc DEF SaveCheckpoint, WriteCheckpoint
<1>7. ASSUME NEW s \in Slots, Complete(s) \/ CompleteThrows(s) PROVE Goal
  <2>1. run[s].job \in Jobs
    BY <1>7, <1>t, BusyRun DEF Complete, CompleteThrows, Busy
  <2>2. CASE UNCHANGED job
    BY <2>2, <1>u
  <2>3. CASE ~UNCHANGED job
    <3>1. job' = [job EXCEPT ![run[s].job] = Succeeded(job[run[s].job])] /\ Owned(run[s].job, s)
      BY <1>7, <2>3 DEF Complete, CompleteThrows, CompleteUpdate
    <3>2. Allowed(job[run[s].job], Succeeded(job[run[s].job])) /\ Succeeded(job[run[s].job]) \in JobDoc
      BY <3>1, <2>1, <1>d, SucceededDoc DEF Allowed, Owned
    <3>3. QED
      BY <2>1, <3>1, <3>2, <1>s
  <2>4. QED
    BY <2>2, <2>3
<1>8. ASSUME NEW s \in Slots, Fail(s) PROVE Goal
  <2>1. Busy(s) /\ run[s].job \in Jobs
    BY <1>8, <1>t, BusyRun DEF Fail, Busy
  <2>2. CASE ~Owned(run[s].job, s)
    BY <1>8, <2>2, <1>u DEF Fail
  <2>3. CASE Owned(run[s].job, s)
    <3> DEFINE to == IF pc[s] = "failFinal" THEN "dead" ELSE Verdict(run[s].attempt)
               e == Failed(job[run[s].job], to)
    <3>1. job' = [job EXCEPT ![run[s].job] = e]
      BY <1>8, <2>3 DEF Fail
    <3>2. to \in {"dead", "queued"} /\ (to = "queued" => ~(run[s].attempt >= MaxAttempts))
      BY DEF Verdict
    <3>3. run[s].attempt = job[run[s].job].attempts /\ job[run[s].job].attempts \in Nat
      BY <2>1, <2>3, <1>d DEF IInv, OwnerRunsLatestAttempt, JobDoc
    <3> HIDE DEF to
    <3>4. e \in JobDoc /\ e.status = to /\ e.attempts = job[run[s].job].attempts
      BY <2>1, <3>2, <1>d, FailedDoc
    <3> HIDE DEF e
    <3>5. to = "queued" => job[run[s].job].attempts < MaxAttempts
      BY <3>2, <3>3, ConstantsOK
    <3>6. Allowed(job[run[s].job], e)
      BY <2>3, <3>2, <3>4, <3>5 DEF Allowed, Owned
    <3>7. QED
      BY <2>1, <3>1, <3>4, <3>6, <1>s
  <2>4. QED
    BY <2>2, <2>3
<1>9. ASSUME NEW s \in Slots, Heartbeat(s) PROVE Goal
  <2>1. run[s].job \in Jobs
    BY <1>9, <1>t, BusyRun DEF Heartbeat
  <2>2. QED
    BY <1>9, <2>1, <1>d, <1>h, <1>u, RefreshedDoc DEF Heartbeat
<1>10. ASSUME NEW z \in zombies, ZombieStep(z) PROVE Goal
  <2>1. z \in Run /\ z.job \in Jobs /\ RunOK(z)
    BY <1>t, ZombieRun
  <2>2. CASE ZombieSaves(z)
    <3>1. BatchEnd(z) \in 0..MaxTargets
      BY <2>1, <2>2, BatchEndIn DEF ZombieSaves
    <3>2. QED
      BY <2>1, <2>2, <3>1, <1>d, <1>h, CheckpointedDoc DEF ZombieSaves, WriteCheckpoint
  <2>3. QED
    BY <1>10, <2>1, <2>2, <1>d, <1>h, <1>u, RefreshedDoc
       DEF ZombieStep, ZombieFinishesUnit, ZombieReports, ZombieEnds
<1>11. ASSUME NEW I \in Instances, Crash(I) PROVE Goal
  BY <1>11, <1>u DEF Crash
<1>12. ASSUME NEW r \in Recoverers, Scan(r) \/ RecoveryStops(r) PROVE Goal
  BY <1>12, <1>u DEF Scan, RecoveryStops
<1>13. ASSUME NEW r \in Recoverers, NEW j \in Jobs, Recover(r, j) PROVE Goal
  <2>1. CASE ~(job[j].status = "running" /\ snap[r][j].same)
    BY <1>13, <2>1, <1>u DEF Recover
  <2>2. CASE job[j].status = "running" /\ snap[r][j].same
    <3> DEFINE to == Verdict(snap[r][j].attempts)
               e == Failed(job[j], to)
    <3>1. job' = [job EXCEPT ![j] = e]
      BY <1>13, <2>2 DEF Recover
    <3>2. to \in {"dead", "queued"} /\ (to = "queued" => ~(snap[r][j].attempts >= MaxAttempts))
      BY DEF Verdict
    <3>3. snap[r][j].attempts = job[j].attempts /\ job[j].attempts \in Nat
      BY <2>2, <1>d DEF IInv, SnapshotsMatch, JobDoc
    <3> HIDE DEF to
    <3>4. e \in JobDoc /\ e.status = to /\ e.attempts = job[j].attempts
      BY <3>2, <1>d, FailedDoc
    <3> HIDE DEF e
    <3>5. to = "queued" => job[j].attempts < MaxAttempts
      BY <3>2, <3>3, ConstantsOK
    <3>6. Allowed(job[j], e)
      BY <2>2, <3>2, <3>4, <3>5 DEF Allowed
    <3>7. QED
      BY <3>1, <3>4, <3>6, <1>s
  <2>3. QED
    BY <2>1, <2>2
<1>14. ASSUME NEW j \in Jobs, NEW fresh \in BOOLEAN, RetryDead(j, fresh) PROVE Goal
  <2>1. job' = [job EXCEPT ![j] = Revived(job[j], fresh)] /\ job[j].status = "dead"
    BY <1>14 DEF RetryDead
  <2>2. Allowed(job[j], Revived(job[j], fresh)) /\ Revived(job[j], fresh) \in JobDoc
    BY <2>1, <1>d, RevivedDoc DEF Allowed
  <2>3. QED
    BY <2>1, <2>2, <1>s
<1>15. ASSUME UNCHANGED vars PROVE Goal
  BY <1>15, <1>u DEF vars
<1>16. Goal
  BY <1>1, <1>2, <1>3, <1>4, <1>5, <1>6, <1>7, <1>8, <1>9, <1>10, <1>11, <1>12, <1>13,
     <1>14, <1>15 DEF Next, SlotStep, RecoveryStep
<1>17. QED
  BY <1>16 DEF Goal

(* The queue implements the lifecycle of JobLifecycle: attempts start from *)
(* the queue within the budget, every attempt has one outcome, success is  *)
(* final, and only an operator revives a dead job.                         *)
THEOREM QueueRefines == Spec => ImplementsLifecycle
<1>1. Init => Lifecycle!LifeInit
  BY DEF Init, NoDoc, Life, Lifecycle!LifeInit
<1>2. Spec => Lifecycle!LifeInit /\ [][Lifecycle!LifeNext]_Life
  BY <1>1, LifeStep, InitInv, InvStep, PTL DEF Spec
<1>3. QED
  BY <1>2 DEF ImplementsLifecycle, Lifecycle!LifeSpec

-----------------------------------------------------------------------------
(* Checkpoints tell what was done. As long as the lists of a job only grow *)
(* at their end, every document, every attempt and every handler left      *)
(* behind by one counts records of the latest list, and counts only those  *)
(* that were refreshed.                                                    *)

Past == [moved : BOOLEAN, listed : Seq(Records), worked : SUBSET Records]

History == [j \in Jobs |-> [moved |-> moved[j], listed |-> listed[j], worked |-> worked[j]]]

DocDone(d, h) ==
  ~h.moved => /\ d.checkpoint <= Len(h.listed)
              /\ FirstOf(h.listed, d.checkpoint) \subseteq h.worked

RunDone(r, h) ==
  ~h.moved => /\ r.offset <= Len(h.listed)
              /\ FirstOf(h.listed, r.offset) \subseteq h.worked
              /\ r.phase # "resolve" => IsPrefix(r.targets, h.listed)
              /\ r.phase = "save" => FirstOf(h.listed, BatchEnd(r)) \subseteq h.worked

AtEnd(r) == r.phase # "resolve" /\ r.offset = Len(r.targets)

DocsDone == \A j \in Jobs : DocDone(job[j], History[j])

RunsDone ==
  \A s \in Slots :
    Busy(s) => /\ RunDone(run[s], History[run[s].job])
               /\ pc[s] = "completing" => AtEnd(run[s])

ZombiesDone == \A z \in zombies : RunDone(z, History[z.job])

WorkInv == TypeInv /\ DocsDone /\ RunsDone /\ ZombiesDone

(* What the history of a job may become.                                   *)
Later(h, k) ==
  /\ h.worked \subseteq k.worked
  /\ ~k.moved => ~h.moved /\ IsPrefix(h.listed, k.listed)

LEMMA HistoryIn ==
  ASSUME TypeInv
  PROVE  /\ History \in [Jobs -> Past]
         /\ \A j \in Jobs : /\ History[j].moved = moved[j]
                             /\ History[j].listed = listed[j]
                             /\ History[j].worked = worked[j]
  BY DEF TypeInv, TypeOK, History, Past

LEMMA PrefixOf ==
  ASSUME NEW a \in Seq(Records), NEW b \in Seq(Records), IsPrefix(a, b),
         NEW n \in Nat, n <= Len(a)
  PROVE  n <= Len(b) /\ FirstOf(a, n) = FirstOf(b, n)
<1>1. \A i \in 1..n : i \in 1..Len(a) /\ a[i] = b[i]
  BY DEF IsPrefix
<1>2. n <= Len(b)
  BY DEF IsPrefix
<1> QED BY <1>1, <1>2 DEF FirstOf

LEMMA PrefixTrans ==
  ASSUME NEW a \in Seq(Records), NEW b \in Seq(Records), NEW c \in Seq(Records),
         IsPrefix(a, b), IsPrefix(b, c)
  PROVE  IsPrefix(a, c)
  BY DEF IsPrefix

LEMMA NoneFirst ==
  ASSUME NEW h \in Past
  PROVE  0 <= Len(h.listed) /\ FirstOf(h.listed, 0) \subseteq h.worked
<1>1. 1..0 = {} /\ h.listed \in Seq(Records)
  BY DEF Past
<1> QED BY <1>1 DEF FirstOf

LEMMA RunLater ==
  ASSUME NEW r, RunOK(r), NEW h \in Past, NEW k \in Past, RunDone(r, h), Later(h, k)
  PROVE  RunDone(r, k)
<1> SUFFICES ASSUME ~k.moved
             PROVE  /\ r.offset <= Len(k.listed)
                    /\ FirstOf(k.listed, r.offset) \subseteq k.worked
                    /\ r.phase # "resolve" => IsPrefix(r.targets, k.listed)
                    /\ r.phase = "save" => FirstOf(k.listed, BatchEnd(r)) \subseteq k.worked
  BY DEF RunDone
<1>1. /\ ~h.moved /\ IsPrefix(h.listed, k.listed) /\ h.worked \subseteq k.worked
      /\ h.listed \in Seq(Records) /\ k.listed \in Seq(Records)
  BY DEF Later, Past
<1>2. r.offset \in Nat /\ r.targets \in Seq(Records)
  BY DEF RunOK, Run
<1>3. r.offset <= Len(k.listed) /\ FirstOf(k.listed, r.offset) \subseteq k.worked
  BY <1>1, <1>2, PrefixOf DEF RunDone
<1>4. r.phase # "resolve" => IsPrefix(r.targets, h.listed) /\ IsPrefix(r.targets, k.listed)
  BY <1>1, <1>2, PrefixTrans DEF RunDone
<1>5. ASSUME r.phase = "save" PROVE FirstOf(k.listed, BatchEnd(r)) \subseteq k.worked
  <2>1. BatchEnd(r) \in Nat /\ BatchEnd(r) <= Len(r.targets)
    BY <1>5, BatchEndIn
  <2>2. BatchEnd(r) <= Len(h.listed)
    BY <1>2, <1>4, <1>5, <2>1, <1>1, PrefixOf
  <2>3. FirstOf(k.listed, BatchEnd(r)) = FirstOf(h.listed, BatchEnd(r))
    BY <1>1, <2>1, <2>2, PrefixOf
  <2> QED BY <1>1, <1>5, <2>3 DEF RunDone
<1> QED BY <1>3, <1>4, <1>5

LEMMA DocLater ==
  ASSUME NEW d \in JobDoc, NEW h \in Past, NEW k \in Past, DocDone(d, h), Later(h, k)
  PROVE  DocDone(d, k)
<1> SUFFICES ASSUME ~k.moved
             PROVE  /\ d.checkpoint <= Len(k.listed)
                    /\ FirstOf(k.listed, d.checkpoint) \subseteq k.worked
  BY DEF DocDone
<1>1. /\ ~h.moved /\ IsPrefix(h.listed, k.listed) /\ h.worked \subseteq k.worked
      /\ h.listed \in Seq(Records) /\ k.listed \in Seq(Records) /\ d.checkpoint \in Nat
  BY DEF Later, Past, JobDoc
<1> QED BY <1>1, PrefixOf DEF DocDone

(* What the steps of a handler make of the records its run counts.         *)
LEMMA RunDoneMeans ==
  ASSUME NEW r, NEW q, NEW h, RunDone(r, h), q.offset = r.offset, q.targets = r.targets,
         q.phase = r.phase \/ (q.phase = "work" /\ r.phase # "resolve")
  PROVE  RunDone(q, h)
  BY DEF RunDone, BatchEnd

LEMMA EndedDone ==
  ASSUME NEW r, RunOK(r), NEW h \in Past
  PROVE  RunDone(Ended(r), h)
  BY EndedRun, NoneFirst DEF RunDone

LEMMA ResolvedDone ==
  ASSUME NEW r, RunOK(r), NEW h \in Past, NEW k \in Past, RunDone(r, h), Later(h, k),
         NEW list \in Listings, k.listed = list, r.offset <= Len(list)
  PROVE  RunDone(WithTargets(r, list), k)
<1>1. RunDone(r, k)
  BY RunLater
<1>2. IsPrefix(list, list)
  BY ConstantsOK DEF IsPrefix
<1> QED BY <1>1, <1>2, TargetsRun DEF RunDone

LEMMA SavedDone ==
  ASSUME NEW r, RunOK(r), NEW h \in Past, RunDone(r, h), r.phase = "save", ~h.moved
  PROVE  /\ BatchEnd(r) <= Len(h.listed)
         /\ FirstOf(h.listed, BatchEnd(r)) \subseteq h.worked
         /\ IsPrefix(r.targets, h.listed)
<1>1. IsPrefix(r.targets, h.listed) /\ r.targets \in Seq(Records) /\ h.listed \in Seq(Records)
  BY DEF RunDone, RunOK, Run, Past
<1>2. BatchEnd(r) \in Nat /\ BatchEnd(r) <= Len(r.targets)
  BY BatchEndIn
<1> QED BY <1>1, <1>2, PrefixOf DEF RunDone

LEMMA NextDone ==
  ASSUME NEW r, RunOK(r), NEW h \in Past, RunDone(r, h), r.phase = "save"
  PROVE  RunDone(NextUnit(r), h)
  BY SavedDone, NextUnitRun DEF RunDone

LEMMA PerformedDone ==
  ASSUME NEW r, RunOK(r), NEW h \in Past, NEW k \in Past, RunDone(r, h), r.phase = "work",
         Later(h, k), Batch(r) \subseteq k.worked
  PROVE  RunDone(AtPhase(r, "save"), k)
<1> SUFFICES ASSUME ~k.moved PROVE FirstOf(k.listed, BatchEnd(r)) \subseteq k.worked
  <2>1. RunDone(r, k)
    BY RunLater
  <2>2. BatchEnd(AtPhase(r, "save")) = BatchEnd(r)
    BY PhaseRun DEF BatchEnd
  <2> QED BY <2>1, <2>2, PhaseRun DEF RunDone
<1>1. RunDone(r, k)
  BY RunLater
<1>2. /\ FirstOf(k.listed, r.offset) \subseteq k.worked
      /\ IsPrefix(r.targets, k.listed) /\ r.offset \in Nat
  BY <1>1 DEF RunDone, RunOK, Run
<1>3. BatchEnd(r) \in Nat /\ BatchEnd(r) <= Len(r.targets)
  BY BatchEndIn
<1>4. ASSUME NEW i \in 1..BatchEnd(r) PROVE k.listed[i] \in k.worked
  <2>1. CASE i <= r.offset
    BY <1>2, <2>1 DEF FirstOf
  <2>2. CASE ~(i <= r.offset)
    <3>1. i \in (r.offset + 1)..BatchEnd(r) /\ i \in 1..Len(r.targets)
      BY <1>2, <1>3, <2>2 DEF RunOK, Run
    <3>2. r.targets[i] \in Batch(r) /\ r.targets[i] = k.listed[i]
      BY <1>2, <3>1 DEF Batch, IsPrefix
    <3> QED BY <3>2
  <2> QED BY <2>1, <2>2
<1> QED BY <1>4 DEF FirstOf

(* A step that adds nothing to the history, seen from the documents and    *)
(* the runs.                                                               *)
LEMMA SameHistory == UNCHANGED <<worked, listed, moved>> => UNCHANGED History
  BY DEF History

LEMMA OneDocDone ==
  ASSUME WorkInv, UNCHANGED <<worked, listed, moved>>, NEW j \in Jobs, NEW d,
         job' = [job EXCEPT ![j] = d], DocDone(d, History[j])
  PROVE  DocsDone'
<1>1. \A k \in Jobs : job'[k] = IF k = j THEN d ELSE job[k]
  BY DEF WorkInv, TypeInv, TypeOK
<1> QED BY <1>1, SameHistory DEF WorkInv, DocsDone

LEMMA SameDocsDone ==
  ASSUME WorkInv, UNCHANGED <<job, worked, listed, moved>>
  PROVE  DocsDone'
  BY SameHistory DEF WorkInv, DocsDone

LEMMA SameRunsDone ==
  ASSUME WorkInv, UNCHANGED <<pc, run, worked, listed, moved>>
  PROVE  RunsDone'
  BY SameHistory DEF WorkInv, RunsDone, Busy

LEMMA SameZombiesDone ==
  ASSUME WorkInv, UNCHANGED <<worked, listed, moved>>, zombies' \subseteq zombies
  PROVE  ZombiesDone'
  BY SameHistory DEF WorkInv, ZombiesDone

LEMMA OneRunDone ==
  ASSUME WorkInv, UNCHANGED <<worked, listed, moved>>, NEW s \in Slots,
         \A q \in Slots \ {s} : pc'[q] = pc[q] /\ run'[q] = run[q],
         \/ pc'[s] = "idle"
         \/ /\ RunDone(run'[s], History[run'[s].job])
            /\ pc'[s] = "completing" => AtEnd(run'[s])
  PROVE  RunsDone'
<1> SUFFICES ASSUME NEW q \in Slots, pc'[q] # "idle"
             PROVE  /\ RunDone(run'[q], History[run'[q].job])
                    /\ pc'[q] = "completing" => AtEnd(run'[q])
  BY SameHistory DEF RunsDone, Busy
<1>1. CASE q = s
  BY <1>1
<1>2. CASE q # s
  BY <1>2 DEF WorkInv, RunsDone, Busy
<1> QED BY <1>1, <1>2

(* A step that adds to it.                                                 *)
LEMMA AllLater ==
  ASSUME WorkInv, TypeInv', UNCHANGED job,
         \A j \in Jobs : Later(History[j], History'[j])
  PROVE  /\ DocsDone'
         /\ \A s \in Slots : Busy(s) => RunDone(run[s], History'[run[s].job])
         /\ \A z \in zombies : RunDone(z, History'[z.job])
<1>1. History \in [Jobs -> Past] /\ History' \in [Jobs -> Past]
  BY HistoryIn DEF WorkInv, TypeInv, TypeOK, History, Past
<1>2. \A j \in Jobs : job[j] \in JobDoc /\ DocDone(job[j], History[j])
  BY DEF WorkInv, TypeInv, TypeOK, DocsDone
<1>3. DocsDone'
  BY <1>1, <1>2, DocLater DEF DocsDone
<1>4. ASSUME NEW s \in Slots, Busy(s) PROVE RunDone(run[s], History'[run[s].job])
  <2>1. RunOK(run[s]) /\ run[s].job \in Jobs /\ RunDone(run[s], History[run[s].job])
    BY <1>4, BusyRun DEF WorkInv, RunsDone
  <2> QED BY <1>1, <2>1, RunLater
<1>5. ASSUME NEW z \in zombies PROVE RunDone(z, History'[z.job])
  <2>1. RunOK(z) /\ z.job \in Jobs /\ RunDone(z, History[z.job])
    BY ZombieRun DEF WorkInv, ZombiesDone
  <2> QED BY <1>1, <2>1, RunLater
<1> QED BY <1>3, <1>4, <1>5

LEMMA PerformLater ==
  ASSUME WorkInv, NEW r, RunOK(r), r.phase # "resolve", Perform(r), UNCHANGED <<listed, moved>>
  PROVE  /\ \A j \in Jobs : Later(History[j], History'[j])
         /\ Batch(r) \subseteq History'[r.job].worked
<1>1. /\ r.job \in Jobs
      /\ \A j \in Jobs : worked[j] \subseteq worked'[j]
      /\ worked'[r.job] = worked[r.job] \cup Batch(r)
  BY DEF Perform, WorkInv, TypeInv, TypeOK, RunOK, Run
<1>2. \A j \in Jobs : /\ History'[j].worked = worked'[j] /\ History[j].worked = worked[j]
                      /\ History'[j].listed = listed[j] /\ History[j].listed = listed[j]
                      /\ History'[j].moved = moved[j] /\ History[j].moved = moved[j]
  BY DEF History
<1>3. \A j \in Jobs : IsPrefix(listed[j], listed[j])
  BY DEF IsPrefix, WorkInv, TypeInv, TypeOK
<1> QED BY <1>1, <1>2, <1>3 DEF Later

LEMMA WorkInit == Init => WorkInv
<1> SUFFICES ASSUME Init PROVE WorkInv
  OBVIOUS
<1>1. TypeInv
  BY InitType
<1>2. \A j \in Jobs : job[j].checkpoint = 0 /\ History[j] \in Past
  BY <1>1, HistoryIn DEF Init, NoDoc
<1>3. DocsDone
  BY <1>2, NoneFirst DEF DocsDone, DocDone
<1> QED BY <1>1, <1>3 DEF Init, WorkInv, RunsDone, ZombiesDone, Busy

LEMMA WorkStep == WorkInv /\ [Next]_vars => WorkInv'
<1> SUFFICES ASSUME WorkInv, [Next]_vars
             PROVE  DocsDone' /\ RunsDone' /\ ZombiesDone'
  BY TypeStep DEF WorkInv
<1>t. TypeInv /\ TypeOK
  BY DEF WorkInv, TypeInv
<1>d. \A j \in Jobs : job[j] \in JobDoc /\ DocDone(job[j], History[j])
  BY <1>t DEF TypeOK, WorkInv, DocsDone
<1>h. History \in [Jobs -> Past]
  BY <1>t, HistoryIn
<1>k. ASSUME NEW j \in Jobs, NEW d, job' = [job EXCEPT ![j] = d], UNCHANGED <<worked, listed, moved>>,
             d.checkpoint = job[j].checkpoint \/ d.checkpoint = 0
      PROVE  DocsDone'
  <2>1. DocDone(d, History[j])
    BY <1>k, <1>d, <1>h, NoneFirst DEF DocDone
  <2> QED BY <1>k, <2>1, OneDocDone
<1>r. \A s \in Slots : Busy(s) => /\ RunOK(run[s]) /\ run[s] \in Run /\ run[s].job \in Jobs
                                  /\ RunDone(run[s], History[run[s].job])
  BY <1>t, BusyRun DEF WorkInv, RunsDone
<1>z. \A z \in zombies : RunOK(z) /\ z \in Run /\ z.job \in Jobs /\ RunDone(z, History[z.job])
  BY <1>t, ZombieRun DEF WorkInv, ZombiesDone
<1>1. ASSUME NEW j \in Jobs, Enqueue(j) \/ RunAtPasses(j) \/ HeartbeatExpires(j)
      PROVE  DocsDone' /\ RunsDone' /\ ZombiesDone'
  <2>1. RunsDone' /\ ZombiesDone'
    BY <1>1, SameRunsDone, SameZombiesDone DEF Enqueue, RunAtPasses, HeartbeatExpires
  <2>2. CASE Enqueue(j)
    <3> PICK now \in BOOLEAN :
          job' = [job EXCEPT ![j] = [NoDoc EXCEPT !.status = "queued", !.ready = now]]
      BY <2>2 DEF Enqueue
    <3> PICK d : d = [NoDoc EXCEPT !.status = "queued", !.ready = now]
      OBVIOUS
    <3>1. d.checkpoint = 0 /\ d.status = "queued"
      BY DEF NoDoc
    <3> QED BY <1>k, <2>1, <2>2, <3>1 DEF Enqueue
  <2>3. CASE RunAtPasses(j)
    <3> PICK d : d = [job[j] EXCEPT !.ready = TRUE]
      OBVIOUS
    <3>1. d.checkpoint = job[j].checkpoint /\ d.status = "queued" /\ job' = [job EXCEPT ![j] = d]
      BY <1>d, <2>3 DEF JobDoc, RunAtPasses
    <3> QED BY <1>k, <2>1, <2>3, <3>1 DEF RunAtPasses
  <2>4. CASE HeartbeatExpires(j)
    <3> PICK d : d = [job[j] EXCEPT !.stale = TRUE]
      OBVIOUS
    <3>1. d.checkpoint = job[j].checkpoint /\ d.status = "running" /\ job' = [job EXCEPT ![j] = d]
      BY <1>d, <2>4 DEF JobDoc, HeartbeatExpires
    <3> QED BY <1>k, <2>1, <2>4, <3>1 DEF HeartbeatExpires
  <2> QED BY <1>1, <2>2, <2>3, <2>4
<1>2. ASSUME NEW s \in Slots, NEW j \in Jobs, Claim(s, j) \/ ClaimThrows(s, j)
      PROVE  DocsDone' /\ RunsDone' /\ ZombiesDone'
  <2> PICK d : d = Claimed(job[j], s)
    OBVIOUS
  <2>1. /\ d.checkpoint = job[j].checkpoint /\ d.status = "running"
        /\ job' = [job EXCEPT ![j] = d] /\ UNCHANGED <<worked, listed, moved>> /\ zombies' \subseteq zombies
    BY <1>d, <1>2 DEF JobDoc, Claim, ClaimThrows, Claimed
  <2>2. DocsDone' /\ ZombiesDone'
    BY <1>k, <2>1, SameZombiesDone
  <2>3. CASE Claim(s, j)
    <3>1. /\ \A t \in Slots \ {s} : pc'[t] = pc[t] /\ run'[t] = run[t]
          /\ run'[s] = NewRun(s, j) /\ pc'[s] = "handling"
      BY <1>t, <2>3 DEF Claim, TypeOK
    <3>2. RunDone(run'[s], History[run'[s].job])
      BY <1>t, <1>d, <3>1, NewRunRun DEF RunDone, DocDone
    <3> QED BY <2>1, <2>2, <3>1, <3>2, OneRunDone
  <2>4. CASE ClaimThrows(s, j)
    BY <2>2, <2>4, SameRunsDone DEF ClaimThrows
  <2> QED BY <1>2, <2>3, <2>4
<1>3. ASSUME NEW s \in Slots,
             \/ CheckpointInvalid(s) \/ StartUnit(s) \/ SaveLosesLock(s) \/ HandlerReturns(s)
             \/ HandlerThrows(s) \/ TimesOut(s) \/ FailThrows(s)
      PROVE  DocsDone' /\ RunsDone' /\ ZombiesDone'
  <2> USE DEF CheckpointInvalid, StartUnit, SaveLosesLock, HandlerReturns, HandlerThrows,
              TimesOut, FailThrows
  <2>1. Busy(s) /\ UNCHANGED <<job, worked, listed, moved>>
    BY <1>3 DEF Busy
  <2>2. /\ \A q \in Slots \ {s} : pc'[q] = pc[q] /\ run'[q] = run[q]
        /\ \/ pc'[s] = "completing" /\ run'[s] = run[s] /\ AtEnd(run[s])
           \/ /\ pc'[s] # "completing"
              /\ \/ run[s].phase = "check" /\ run'[s] = AtPhase(run[s], "work")
                 \/ run'[s] = Ended(run[s])
                 \/ pc'[s] = "idle"
    BY <1>3, <1>t DEF TypeOK, Release, AtEnd
  <2>3. zombies' \subseteq zombies \cup {Aborted(run[s])}
    BY <1>3
  <2>4. RunOK(run[s]) /\ RunDone(run[s], History[run[s].job]) /\ run[s].job \in Jobs
    BY <1>r, <2>1
  <2>5. pc'[s] # "idle" => /\ RunDone(run'[s], History[run'[s].job])
                           /\ pc'[s] = "completing" => AtEnd(run'[s])
    <3>1. run[s].phase = "check" => /\ RunDone(AtPhase(run[s], "work"), History[run[s].job])
                                    /\ AtPhase(run[s], "work").job = run[s].job
      BY <2>4, PhaseRun, RunDoneMeans
    <3>2. RunDone(Ended(run[s]), History[run[s].job]) /\ Ended(run[s]).job = run[s].job
      BY <1>h, <2>4, EndedRun, EndedDone
    <3> QED BY <2>2, <2>4, <3>1, <3>2
  <2>6. ZombiesDone'
    <3>1. RunDone(Aborted(run[s]), History[run[s].job]) /\ Aborted(run[s]).job = run[s].job
      BY <2>4, AbortedRun, RunDoneMeans
    <3> QED BY <1>z, <2>1, <2>3, <3>1, SameHistory DEF ZombiesDone
  <2> QED BY <2>1, <2>2, <2>5, <2>6, SameDocsDone, OneRunDone
<1>y. TypeInv'
  BY <1>t, TypeStep
<1>v. History' \in [Jobs -> Past]
  BY <1>y DEF TypeInv, TypeOK, History, Past
<1>4. ASSUME NEW s \in Slots, Resolve(s) \/ FinishUnit(s)
      PROVE  DocsDone' /\ RunsDone' /\ ZombiesDone'
  <2>1. /\ Busy(s) /\ RunOK(run[s]) /\ run[s].job \in Jobs /\ pc[s] = "handling"
        /\ RunDone(run[s], History[run[s].job])
    BY <1>4, <1>r DEF Resolve, FinishUnit, Busy
  <2>2. UNCHANGED <<job, pc, zombies>> /\ \A q \in Slots \ {s} : run'[q] = run[q]
    BY <1>4, <1>t DEF Resolve, FinishUnit, TypeOK
  <2>3. /\ \A j \in Jobs : Later(History[j], History'[j])
        /\ RunDone(run'[s], History'[run[s].job]) /\ run'[s].job = run[s].job
    <3>1. CASE Resolve(s)
      <4>1. PICK list \in Listings :
              /\ run[s].offset <= Len(list)
              /\ run' = [run EXCEPT ![s] = WithTargets(run[s], list)]
              /\ listed' = [listed EXCEPT ![run[s].job] = list]
              /\ moved' = [moved EXCEPT ![run[s].job] = @ \/ ~IsPrefix(listed[run[s].job], list)]
        BY <3>1 DEF Resolve
      <4>2. \A j \in Jobs :
              /\ History[j].worked = worked[j] /\ History'[j].worked = worked[j]
              /\ History[j].listed = listed[j] /\ History'[j].listed = listed'[j]
              /\ History[j].moved = moved[j] /\ History'[j].moved = moved'[j]
        BY <3>1 DEF History, Resolve
      <4>3. \A j \in Jobs : IsPrefix(listed[j], listed[j])
        BY <1>t DEF IsPrefix, TypeOK
      <4>4. ASSUME NEW j \in Jobs PROVE Later(History[j], History'[j])
        <5>1. CASE j = run[s].job
          <6>1. listed'[j] = list /\ (~moved'[j] => ~moved[j] /\ IsPrefix(listed[j], list))
            BY <4>1, <5>1, <1>t DEF TypeOK
          <6> QED BY <4>2, <6>1 DEF Later
        <5>2. CASE j # run[s].job
          <6>1. listed'[j] = listed[j] /\ moved'[j] = moved[j]
            BY <4>1, <5>2, <1>t DEF TypeOK
          <6> QED BY <4>2, <4>3, <6>1 DEF Later
        <5> QED BY <5>1, <5>2
      <4>5. run'[s] = WithTargets(run[s], list) /\ History'[run[s].job].listed = list
        BY <2>1, <4>1, <4>2, <1>t DEF TypeOK
      <4>6. RunDone(WithTargets(run[s], list), History'[run[s].job])
        BY <1>h, <1>v, <2>1, <4>1, <4>4, <4>5, ResolvedDone
      <4> QED BY <2>1, <4>1, <4>4, <4>5, <4>6, TargetsRun
    <3>2. CASE FinishUnit(s)
      <4>1. /\ \A j \in Jobs : Later(History[j], History'[j])
            /\ Batch(run[s]) \subseteq History'[run[s].job].worked
        BY <2>1, <3>2, PerformLater DEF FinishUnit
      <4>2. run'[s] = AtPhase(run[s], "save") /\ run[s].phase = "work"
        BY <3>2, <1>t DEF FinishUnit, TypeOK
      <4>3. RunDone(AtPhase(run[s], "save"), History'[run[s].job])
        BY <1>h, <1>v, <2>1, <4>1, <4>2, PerformedDone
      <4> QED BY <2>1, <4>1, <4>2, <4>3, PhaseRun
    <3> QED BY <1>4, <3>1, <3>2
  <2>4. /\ DocsDone'
        /\ \A q \in Slots : Busy(q) => RunDone(run[q], History'[run[q].job])
        /\ \A z \in zombies : RunDone(z, History'[z.job])
    BY <1>y, <2>2, <2>3, AllLater
  <2>5. ASSUME NEW q \in Slots, pc[q] # "idle"
        PROVE  /\ RunDone(run'[q], History'[run'[q].job])
               /\ pc[q] = "completing" => AtEnd(run'[q])
    <3>1. CASE q = s
      BY <2>1, <2>3, <3>1
    <3>2. CASE q # s
      BY <2>2, <2>4, <2>5, <3>2 DEF Busy, WorkInv, RunsDone
    <3> QED BY <3>1, <3>2
  <2> QED BY <2>2, <2>4, <2>5 DEF RunsDone, ZombiesDone, Busy
<1>5. ASSUME NEW s \in Slots, SaveCheckpoint(s)
      PROVE  DocsDone' /\ RunsDone' /\ ZombiesDone'
  <2>1. /\ Busy(s) /\ RunOK(run[s]) /\ run[s].job \in Jobs /\ run[s].phase = "save"
        /\ RunDone(run[s], History[run[s].job]) /\ pc[s] = "handling"
        /\ Owned(run[s].job, s)
    BY <1>5, <1>r DEF SaveCheckpoint, Busy
  <2> PICK d : d = Checkpointed(job[run[s].job], BatchEnd(run[s]))
    OBVIOUS
  <2>2. d.checkpoint = BatchEnd(run[s])
    BY <1>d, <2>1 DEF JobDoc, Checkpointed
  <2>3. DocDone(d, History[run[s].job])
    BY <1>h, <2>1, <2>2, SavedDone DEF DocDone
  <2>4. DocsDone' /\ ZombiesDone'
    BY <1>5, <2>1, <2>3, OneDocDone, SameZombiesDone DEF SaveCheckpoint, WriteCheckpoint
  <2>5. /\ \A q \in Slots \ {s} : pc'[q] = pc[q] /\ run'[q] = run[q]
        /\ run'[s] = NextUnit(run[s]) /\ pc'[s] = "handling"
    BY <1>5, <1>t, <2>1 DEF SaveCheckpoint, TypeOK
  <2>6. RunDone(run'[s], History[run'[s].job])
    BY <1>h, <2>1, <2>5, NextUnitRun, NextDone
  <2> QED BY <1>5, <2>4, <2>5, <2>6, OneRunDone DEF SaveCheckpoint
<1>6. ASSUME NEW s \in Slots, Complete(s) \/ CompleteThrows(s) \/ Fail(s)
      PROVE  DocsDone' /\ RunsDone' /\ ZombiesDone'
  <2>1. /\ Busy(s) /\ RunOK(run[s]) /\ run[s].job \in Jobs
        /\ RunDone(Ended(run[s]), History[run[s].job]) /\ Ended(run[s]).job = run[s].job
    BY <1>6, <1>h, <1>r, EndedRun, EndedDone DEF Complete, CompleteThrows, Fail, Busy
  <2>2. /\ \A t \in Slots \ {s} : pc'[t] = pc[t] /\ run'[t] = run[t]
        /\ \/ pc'[s] = "idle"
           \/ pc'[s] = "failRetry" /\ run'[s] = Ended(run[s])
        /\ UNCHANGED <<worked, listed, moved, zombies>>
    BY <1>6, <1>t DEF Complete, CompleteThrows, Fail, Release, TypeOK
  <2>3. RunsDone' /\ ZombiesDone'
    BY <2>1, <2>2, OneRunDone, SameZombiesDone
  <2>4. CASE UNCHANGED job
    BY <2>2, <2>3, <2>4, SameDocsDone
  <2>5. CASE ~UNCHANGED job /\ (Complete(s) \/ CompleteThrows(s))
    <3> PICK d : d = Succeeded(job[run[s].job])
      OBVIOUS
    <3>1. job' = [job EXCEPT ![run[s].job] = d] /\ d.checkpoint = 0
      BY <1>d, <2>1, <2>5 DEF Complete, CompleteThrows, CompleteUpdate, Succeeded, JobDoc
    <3> QED BY <1>k, <2>1, <2>2, <2>3, <3>1
  <2>6. CASE ~UNCHANGED job /\ Fail(s)
    <3> PICK to : to = IF pc[s] = "failFinal" THEN "dead" ELSE Verdict(run[s].attempt)
      OBVIOUS
    <3> PICK d : d = Failed(job[run[s].job], to)
      OBVIOUS
    <3>1. to \in {"dead", "queued"}
      BY DEF Verdict
    <3>2. /\ job' = [job EXCEPT ![run[s].job] = d]
          /\ d.checkpoint = job[run[s].job].checkpoint /\ d.status = to
      BY <1>d, <2>1, <2>6 DEF Fail, Failed, JobDoc
    <3> QED BY <1>k, <2>1, <2>2, <2>3, <3>1, <3>2
  <2> QED BY <1>6, <2>4, <2>5, <2>6
<1>7. ASSUME NEW s \in Slots, Heartbeat(s)
      PROVE  DocsDone' /\ RunsDone' /\ ZombiesDone'
  <2>1. /\ Busy(s) /\ RunOK(run[s]) /\ run[s].job \in Jobs
        /\ RunDone(run[s], History[run[s].job])
        /\ pc[s] = "completing" => AtEnd(run[s])
    BY <1>7, <1>r DEF Heartbeat, WorkInv, RunsDone
  <2>2. ZombiesDone' /\ UNCHANGED <<pc, worked, listed, moved>>
    BY <1>7, SameZombiesDone DEF Heartbeat
  <2>3. CASE Owned(run[s].job, s)
    <3> PICK d : d = Refreshed(job[run[s].job])
      OBVIOUS
    <3>1. /\ job' = [job EXCEPT ![run[s].job] = d] /\ UNCHANGED run
          /\ d.checkpoint = job[run[s].job].checkpoint /\ d.status = "running"
      BY <1>7, <1>d, <2>1, <2>3 DEF Heartbeat, Refreshed, JobDoc, Owned
    <3>2. DocsDone'
      BY <1>k, <2>1, <2>2, <3>1
    <3> QED BY <2>2, <3>1, <3>2, SameRunsDone
  <2>4. CASE ~Owned(run[s].job, s)
    <3>1. /\ UNCHANGED job /\ run'[s] = Aborted(run[s])
          /\ \A t \in Slots \ {s} : run'[t] = run[t]
      BY <1>7, <1>t, <2>4 DEF Heartbeat, TypeOK
    <3>2. /\ RunDone(Aborted(run[s]), History[run[s].job]) /\ Aborted(run[s]).job = run[s].job
          /\ AtEnd(run[s]) => AtEnd(Aborted(run[s]))
      BY <2>1, AbortedRun, RunDoneMeans DEF AtEnd
    <3> QED BY <2>1, <2>2, <3>1, <3>2, SameDocsDone, OneRunDone
  <2> QED BY <2>3, <2>4
<1>8. ASSUME NEW z \in zombies, ZombieStep(z)
      PROVE  DocsDone' /\ RunsDone' /\ ZombiesDone'
  <2>1. RunOK(z) /\ z \in Run /\ z.job \in Jobs /\ RunDone(z, History[z.job])
    BY <1>z
  <2>2. CASE ZombieFinishesUnit(z)
    <3>1. /\ \A j \in Jobs : Later(History[j], History'[j])
          /\ Batch(z) \subseteq History'[z.job].worked
      BY <2>1, <2>2, PerformLater DEF ZombieFinishesUnit
    <3>2. /\ DocsDone'
          /\ \A s \in Slots : Busy(s) => RunDone(run[s], History'[run[s].job])
          /\ \A q \in zombies : RunDone(q, History'[q.job])
      BY <1>y, <2>2, <3>1, AllLater DEF ZombieFinishesUnit
    <3>3. RunsDone'
      BY <2>2, <3>2 DEF ZombieFinishesUnit, WorkInv, RunsDone, Busy
    <3>4. RunDone(AtPhase(z, "save"), History'[z.job]) /\ AtPhase(z, "save").job = z.job
      BY <1>h, <1>v, <2>1, <2>2, <3>1, PhaseRun, PerformedDone DEF ZombieFinishesUnit
    <3>5. zombies' \subseteq zombies \cup {AtPhase(z, "save")}
      BY <2>2 DEF ZombieFinishesUnit
    <3> QED BY <3>2, <3>3, <3>4, <3>5 DEF ZombiesDone
  <2>3. CASE ZombieSaves(z)
    <3> PICK d : d = Checkpointed(job[z.job], BatchEnd(z))
      OBVIOUS
    <3>1. d.checkpoint = BatchEnd(z) /\ z.phase = "save"
      BY <1>d, <2>1, <2>3 DEF JobDoc, Checkpointed, ZombieSaves
    <3>2. DocDone(d, History[z.job])
      BY <1>h, <2>1, <3>1, SavedDone DEF DocDone
    <3>3. DocsDone' /\ RunsDone'
      BY <2>1, <2>3, <3>2, OneDocDone, SameRunsDone DEF ZombieSaves, WriteCheckpoint
    <3>4. RunDone(NextUnit(z), History[z.job]) /\ NextUnit(z).job = z.job
      BY <1>h, <2>1, <3>1, NextUnitRun, NextDone
    <3>5. zombies' \subseteq zombies \cup {NextUnit(z)} /\ UNCHANGED <<worked, listed, moved>>
      BY <2>3 DEF ZombieSaves
    <3> QED BY <1>z, <3>3, <3>4, <3>5, SameHistory DEF ZombiesDone
  <2>4. CASE ZombieReports(z)
    <3> PICK d : d = Refreshed(job[z.job])
      OBVIOUS
    <3>1. /\ job' = [job EXCEPT ![z.job] = d] /\ UNCHANGED <<pc, run, worked, listed, moved>>
          /\ d.checkpoint = job[z.job].checkpoint /\ d.status = "running"
          /\ zombies' \subseteq zombies
      BY <1>d, <2>1, <2>4 DEF ZombieReports, Refreshed, JobDoc, Owned
    <3> QED BY <1>k, <2>1, <3>1, SameRunsDone, SameZombiesDone
  <2>5. CASE ZombieEnds(z)
    BY <2>5, SameDocsDone, SameRunsDone, SameZombiesDone DEF ZombieEnds
  <2> QED BY <1>8, <2>2, <2>3, <2>4, <2>5 DEF ZombieStep
<1>9. ASSUME NEW I \in Instances, Crash(I)
      PROVE  DocsDone' /\ RunsDone' /\ ZombiesDone'
  <2>1. \A s \in Slots : pc'[s] # "idle" => pc'[s] = pc[s] /\ run'[s] = run[s]
    BY <1>9 DEF Crash
  <2>2. RunsDone'
    BY <1>9, <2>1, SameHistory DEF Crash, WorkInv, RunsDone, Busy
  <2> QED BY <1>9, <2>2, SameDocsDone, SameZombiesDone DEF Crash
<1>10. ASSUME NEW r \in Recoverers, RecoveryStep(r)
       PROVE  DocsDone' /\ RunsDone' /\ ZombiesDone'
  <2>1. RunsDone' /\ ZombiesDone' /\ UNCHANGED <<worked, listed, moved>>
    BY <1>10, SameRunsDone, SameZombiesDone DEF RecoveryStep, Scan, RecoveryStops, Recover
  <2>2. CASE UNCHANGED job
    BY <2>1, <2>2, SameDocsDone
  <2>3. CASE ~UNCHANGED job
    <3> PICK j \in Jobs : Recover(r, j)
      BY <1>10, <2>3 DEF RecoveryStep, Scan, RecoveryStops
    <3> PICK to : to = Verdict(snap[r][j].attempts)
      OBVIOUS
    <3> PICK d : d = Failed(job[j], to)
      OBVIOUS
    <3>1. to \in {"dead", "queued"}
      BY DEF Verdict
    <3>2. /\ job' = [job EXCEPT ![j] = d]
          /\ d.checkpoint = job[j].checkpoint /\ d.status = to
      BY <1>d, <2>3 DEF Recover, Failed, JobDoc
    <3> QED BY <1>k, <2>1, <3>1, <3>2
  <2> QED BY <2>2, <2>3
<1>11. ASSUME NEW j \in Jobs, NEW fresh \in BOOLEAN, RetryDead(j, fresh)
       PROVE  DocsDone' /\ RunsDone' /\ ZombiesDone'
  <2> PICK d : d = Revived(job[j], fresh)
    OBVIOUS
  <2>1. /\ job' = [job EXCEPT ![j] = d] /\ UNCHANGED <<pc, run, worked, listed, moved, zombies>>
        /\ d.checkpoint = 0 \/ d.checkpoint = job[j].checkpoint
        /\ d.status = "queued"
    BY <1>d, <1>11 DEF RetryDead, Revived, JobDoc
  <2> QED BY <1>k, <2>1, SameRunsDone, SameZombiesDone
<1>12. CASE UNCHANGED vars
  BY <1>12, SameDocsDone, SameRunsDone, SameZombiesDone DEF vars
<1> QED
  BY <1>1, <1>2, <1>3, <1>4, <1>5, <1>6, <1>7, <1>8, <1>9, <1>10, <1>11, <1>12 DEF Next, SlotStep

LEMMA RefreshedAll ==
  ASSUME WorkInv, NEW s \in Slots, pc[s] = "completing", ~moved[run[s].job]
  PROVE  AllRefreshed(s)
<1>1. Busy(s) /\ run[s].job \in Jobs /\ RunOK(run[s])
  BY BusyRun DEF Busy, WorkInv
<1>2. /\ RunDone(run[s], History[run[s].job]) /\ AtEnd(run[s])
      /\ History[run[s].job].moved = moved[run[s].job]
      /\ History[run[s].job].listed = listed[run[s].job]
      /\ History[run[s].job].worked = worked[run[s].job]
  BY <1>1, HistoryIn DEF WorkInv, RunsDone
<1>3. /\ FirstOf(listed[run[s].job], run[s].offset) \subseteq worked[run[s].job]
      /\ IsPrefix(run[s].targets, listed[run[s].job])
  BY <1>2 DEF RunDone, AtEnd
<1>4. run[s].targets \in Seq(Records) /\ listed[run[s].job] \in Seq(Records)
  BY <1>1 DEF RunOK, Run, WorkInv, TypeInv, TypeOK
<1>5. FirstOf(run[s].targets, run[s].offset) = FirstOf(listed[run[s].job], run[s].offset)
  BY <1>1, <1>2, <1>3, <1>4, PrefixOf DEF AtEnd, RunOK, Run
<1> QED BY <1>2, <1>3, <1>5 DEF AllRefreshed, AtEnd

(* For any jobs, slots, batch size, crashes, stalls and handlers that      *)
(* outlive their attempt, and for any answers of resolveTargets of which   *)
(* each continues the one before: what a checkpoint counts was refreshed,  *)
(* and so was every record of an attempt that is about to complete.        *)
THEOREM NothingSkipped == Spec => []NoUnitSkipped
<1>1. WorkInv => NoUnitSkipped
  BY HistoryIn, RefreshedAll DEF WorkInv, DocsDone, DocDone, NoUnitSkipped
<1> QED BY <1>1, WorkInit, WorkStep, PTL DEF Spec

=============================================================================
