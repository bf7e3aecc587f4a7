# TLA+ models of Stellar-Veriphy

Stellar-Veriphy verifies media: a user uploads content, providers running in trusted
execution environments attest to it, an oracle contract dispatches and judges the
providers, a provenance contract mints certificates, a registry contract keeps the
approved enclave hashes and providers, and a backend and a web server do the slow work
(reindexing, retention, webhooks, verification jobs). A set of shared packages decides
policy, keys, reputation and the reading of chain events. This directory models the parts
whose correctness depends on the order in which things happen. TLC checks the models on
small instances; TLAPS proves the most important results for every value of the constants.

    tlc -config JobQueueSafety.cfg MCJobQueue      # one of the runs of PROJECT.json
    tlapm JobQueueProofs.tla                       # one of the proof modules, *Proofs.tla

## The system and its parts

| Part | State | Operations | What is hard about it | Model |
|---|---|---|---|---|
| Job queue (`backend/src/jobs/queue.ts`) | job documents in MongoDB | enqueue, claim, saveCheckpoint, heartbeat, complete, fail, recoverStalled, retryDead | every operation is one guarded update, but decisions are made on copies read earlier; several processes; lost replies | `JobQueue` |
| Job worker (`worker.ts`, `handlers.ts`) | slots, the attempt each runs, timers | poll, process, time out, heartbeat, stop | `Promise.race` abandons a handler without stopping it; worker ids are reused; crashes | `JobQueue` |
| Webhook delivery (`webhooks/service.ts`) | delivery documents, one job per delivery | publish, schedule, deliver, recordAttempt, redeliver | insert and enqueue are two steps; runs of one job overlap; a 2xx may be lost | `WebhookDelivery` |
| Retention (`backend/src/maintenance`, `db/locks.ts`, `db/sessions.ts`) | sessions, their archive, media, a lease | archive, purge, orphan removal | copy, then delete; a lease that expires while its owner works; references read by three queries | `Retention` |
| Maintenance mode (`maintenance/mode.ts`) | one settings document, a copy in each instance | enable, disable, refresh | reads that are applied late or fail | `MaintenanceMode` |
| Public read cache (`lib/cache.ts`, `db/verifications.ts`) | cached values, queries in flight | getOrLoad, invalidate, clear | a query answered before a change and stored after it | `PublicReadCache` |
| Oracle contract (`contracts/oracle`) | providers, metrics, SLA, requests and their index, stakes, disputes | selection, SLA samples, submit, cancel, archive, stake, slash, dispute | second records of the same fact, temporary entries that expire silently, integer division | `OracleProviders`, `Oracle` |
| Provenance contract (`contracts/provenance`) | certificates, ownership, links, many indexes | mint, transfer, lock, revoke, link, tag, code, collect, endorse | a dozen indexes kept by hand, a cycle check that is bounded and partial, a lock each operation must look at | `Certificates`, `Provenance` |
| Registry contract (`contracts/registry`) | enclave hashes, providers, applications, reputation, capacity, groups, proposals | add, rotate, version, apply, review, deactivate, decay, propose | the same status written by many calls, hashes with two records of validity | `TeeHashes`, `Registry` |
| Policy, reputation, keys (`packages/shared/governance`, `verifier-reputation`, `key-lifecycle`) | what callers keep: a review with its votes, a verifier's record, a key with its plan | evaluate, vote, score, degrade, plan, revoke | decision tables that must fit each other; the same question asked at different times | `PolicyReview`, `VerifierReputation`, `KeyLifecycle` |
| Chain events (`packages/shared/utils/provenanceReplay.ts`, `indexing`) | collected events, a checkpoint, an index | merge, replay, resume, ingest, query, replay by contract | events late, twice, contradicting one another; a cursor | `ProvenanceReplay`, `EventIndexer` |
| Web server (`frontend/lib/server`) | JSON files, key locks, upload sessions, verification jobs | start, resume, report, complete; enqueue, run, recover | requests interleave at each await; a whole file is written each time; crashes | `UploadSessions`, `VerificationWorker` |
| Sign-in sessions (`frontend/lib/server/auth-sessions.ts`, `context/AuthSessionContext.tsx`) | session records; the tokens each tab holds and those in the browser's storage | login, refresh, revoke; adopt, end, storage events, logout | tokens used once, answers late or lost, tabs that share one storage | `AuthSessions` |
| API routing, health, metrics, UI, scripts | none of their own that others read | | | |

The backend's services share one database and meet in the job documents: webhooks are
sent by jobs, and so are reindexing and retention. The contracts call one another
(registry and oracle mint through provenance). Nothing in the code lets a contract call
see a half-finished other call; a backend operation is a sequence of database calls with
an `await` between any two; the shared packages are pure functions over what their callers
keep, so their models are the callers' states and the sequences of calls on them.

## Which module models what

    JobLifecycle          what the queue promises about one job (abstract)
      ^ refined by  JobQueue (+ JobQueueProofs)      queue.ts, worker.ts, handlers.ts
      ^ used by     WebhookDelivery                  webhooks/service.ts
    Retention  MaintenanceMode  PublicReadCache      backend maintenance and caches
    Lists (+ ListProofs)  adding to and dropping from a list, sums
      ^ used by the contracts, UploadSessions, PublicReadCache and EventIndexer
    OracleProviders       providers, selection, metrics, SLA      contracts/oracle
      ^ extended by Oracle (+ OracleProofs)          requests, stakes, disputes
    Certificates          certificates, ownership, links          contracts/provenance
      ^ extended by Provenance (+ ProvenanceProofs)  the indexes that find them
    TeeHashes             enclave hashes and versions             contracts/registry
      ^ extended by Registry (+ RegistryProofs)      providers, groups, proposals
    PolicyReview  VerifierReputation  KeyLifecycle   packages/shared, over Clock
    ProvenanceReplay  EventIndexer                   packages/shared, chain events
    UploadSessions  VerificationWorker               frontend/lib/server
    AuthSessions                                     its sign-in sessions and their tabs, over Clock
    SharedProofs          of PolicyReview, VerifierReputation, KeyLifecycle, AuthSessions
    RecordProofs          of MCRecords: ProvenanceReplay, EventIndexer, Retention, WebhookDelivery
    ServerProofs          of MaintenanceMode, PublicReadCache, VerificationWorker, UploadSessions
    MC*.tla, *.cfg        instances for TLC

`MCShared`, `MCRecords` and `MCServer` check several modules that share no state: `subject`
says which of them a behaviour follows, and the others stay as they began, so the states of
one are added to those of another, not multiplied. In `MCOracle` it tells the calls of the
provider side among several providers from those of the whole contract with one.

**JobQueue.** `job[j]` is a job document, `pc`/`run` a worker slot and the attempt it
processes, `zombies` the handlers that outlived their attempt, `snap` what each recovery
loop has read and not yet acted on. Each database call is one action, named for the
method (`Claim`, `SaveCheckpoint`, `Heartbeat`, `Complete`, `Fail`, `Scan` and `Recover`
for `recoverStalled`, `RetryDead`); the variants that end in `Throws` are a call that was
applied and whose reply was lost, or that failed. `Owned(j, s)` is the filter
`{_id, status: "running", lockedBy: workerId}` of every update a worker makes. The worker
id is `<host>:<pid>/<queue>/<slot>`, the same for all attempts of a slot, so the model
identifies it with the slot. Time is what guards compare with it: `ready`, `stale`, and
for the recovery's comparison of `heartbeatAt` a flag that says whether the heartbeat that was
read is still the stored one. `TimesOut` leaves the handler running as a zombie, and a
`Crash` takes all slots and zombies of a process. Every attempt asks for its targets anew
(`Resolve`, `resolveTargets` in `handlers.ts:62`): the answer is any list of `Listings`, and the
checkpoint an offset into the list of the attempt that wrote it. An offset beyond the new list
fails the attempt (`CheckpointInvalid`), and `worked` is history, the records refreshed so far. When
the lists of a job's attempts do more than grow at their end (`moved`), a resume skips records
and the job succeeds: `NoUnitSkipped` is stated for lists that do not, and what the documentation
says without this condition is `EveryTargetReindexed`, below.

**WebhookDelivery** composes the service with the queue `JobLifecycle` promises: `life` is
the queue's view of a job, `runs` the handler invocations in progress, each of which
`holds` its job or not any more. `caller` is a request in `publish` or `redeliver`,
between inserting the delivery, enqueueing the job and storing the job id.

**OracleProviders / Oracle.** A contract call is one atomic action; a call that would
return an error is an action that is not enabled. `list` and `registered`, `live` and
`index`, `stake` and `withdrawal` are the separate storage entries of the contract, and
the variables called history (`deposited`, `paid`, `slashed`, `failures`, `uptimeSum`,
`waited`) only observe. `RequestExpires` is the network dropping a temporary entry.

**Certificates / Provenance.** `certs` is the sequence of minted certificates (the last id
is `CERT_CNT`); every index is its own variable, named after its storage key in its
comment. `CreatesCycle` is the walk of `creates_cycle`: first parents only, at most
`MAX_DEPTH` of them, as a function of the depth.

**TeeHashes / Registry.** The entries of the contract are variables: `approved`, `expiry`,
`rotated` and `migration` are the fields of a hash's record, `versionInfo`, `byVersion` and
`versionLog` the three records of its version. `registered` is the provider flag, `info` the
`ProviderInfo` that other calls may create first, `list` the enumeration queries go through.
`leaving` is history.

**Lists.** `With` and `Without` are the two changes the code makes to its lists: `push_back` unless
the list contains the element, and the loop (or `filter`) that keeps every other element. They and
the sums in properties are recursive functions: of `SelectSeq` and of the folds the prover has no facts.

**PolicyReview, VerifierReputation, KeyLifecycle.** One proposal, one verifier, one key: no
function relates two. The tables of the code are functions (`RequiredApprovals`, `CanReview`,
`StepsFor` ...), scores are exact fractions over a common denominator. `review.status` is
what the caller stored, `Outcome` what the code would answer now. What a threshold change comes from
is the caller's `change.from`: "lowers" means lowers by the proposal's own account. A request for
an emergency revocation names persons, `requestedBy`, who decides nothing, and `approvedBy`, who
may be the same: the gate (`NeedsSecond`) asks only that somebody is named.

**ProvenanceReplay.** `collected` is what sources delivered, most trusted first; `checkpoint`
the result of a replay that a later one resumes. `Replayed` is the loop, `ReplayOne` at the `Nth`
event in the order of `compareEvents`, with the cursor the code moves inside its loop. An event
without an actor is malformed to the code, so that no raw event has the actor nobody.

**EventIndexer.** `Ingest` is `ingestWithOutcome`; `Query` picks its route as the code does;
`ReplayContractEvents` is the independent reading of `eventReplay.ts`, the reference the index
is compared with. `ProofSubjectIds` is the list `proofEvents.ts` returns, repetitions included, and
`Index` files an event under a subject once for each time it is named.

**Retention.** Each database call of a run is a step (`FindBatch`, `CheckVerifications`,
`CopyToArchive`, `DeleteCopied`, `FindSurvivors`, `RemoveCopies`, `PurgeArchive`, `ScanMedia`,
`ReadReferences`, `Unlink`, `Release`), between which the application's steps and those of a
second run come in. A call may fail, a copy after part of its documents; `Crash` stops a run
anywhere. `RetentionTick` assumes that a run ends within the time a session takes to go stale
again. `ArchiveTime`, how long an archived session is kept, is no shorter than that time, and for
one of the two tasks it outlasts two runs (`RetentionConstants`; by default 90
days, against one and seven). `OneRunEach` says that no instance has two runs at once, which the code does not
ensure: what the lease promises is stated under it.

**MaintenanceMode.** `refreshing[i][c]` is a document read and not yet applied, by the timer or
by the operator's call; `editing` is an operator between read, write and refresh. `written` is
history, the documents there have been: `FlagWasWritten` says that what an instance serves is one
of them as a whole.

**PublicReadCache.** A record is the number of its changes. `inflight` is a query: not yet
answered, answered, stored. A status changes twice (to processing, to a terminal one) and then no
more; that is an assumption of `ChangeRecord`, on which `StatusIsFinal` rests.
`VerificationRepository.refresh` and `updateStatus` (`verifications.ts:89`) would rewrite a terminal
status during a reindex, and have no callers.

**UploadSessions.** `starts` and `holders` are the key locks, the holder first. A request takes
its time before it waits. `saw` is what it read, and what it stores is made of.

**VerificationWorker.** `memory` and `disk` are the collection, `writes` the chain of whole-file
writes, `task` the control of `runWorker` and of each `getJobViews`. Awaits that wait for memory
only are not points of interleaving, those for a file or the verification are.

**AuthSessions.** `records` are the server's sessions; a pair of tokens is its session and
generation, since tokens are random. `tab` is what a tab shows and holds, `refreshing` its request
in flight, `stored` the browser's storage, `notices` the storage events on their way, `unread` the
requests of tabs that went away or signed out, which may still be served.

## What each run checks

| Run | Instance | Result |
|---|---|---|
| `queue_safety` | 2 slots in 2 processes, 1 job of 1 record, 2 recovery loops, 2 attempts, 1 operator retry | attempt budgets; a busy slot with the lock runs the latest attempt; a fresh job is taken only by its own worker; the queue implements `JobLifecycle` |
| `queue_progress` | 2 slots, 1 job of up to 3 records that may differ from attempt to attempt, batches of 2, 1 recovery loop, under `Fairness` | every queued or running job settles; a resume skips no record unless the lists changed other than at their end |
| `oracle` | 3 providers, 1 with an SLA, 3 verifications or samples, 3 ledgers; 1 provider, 2 requests, 2 disputes, 3 ledgers, up to 4 entries together | list equals registry, preferred providers take turns, the uptime figure never flatters; index, archive, stakes, verdicts and evidence agree |
| `oracle_stake_lost` | 1 provider | *violation*: an amount being withdrawn is lost |
| `provenance` | 3 certificates, 2 addresses, up to 2 entries on 2 certificates | indexes, totals, histories, links and locks |
| `provenance_cycle` | 3 certificates, links only | *violation*: a cycle through a second parent |
| `registry` | 3 hashes, 2 providers, 1 application, 2 groups, 1 proposal, up to 3 entries together | pointers lead out of rotated hashes, rotated hashes stay rejected, providers' records agree, who left stays away, proposals are executed once and gated |
| `shared` | 6 voters of 4 roles; 5 verifications, 2 disputes, 2 cross-checks; 1 key, 2 persons; 1 login, 2 tabs, 3 generations, 1 lost answer | approvals are proportionate, reachable and final; scores move the right way; an operator's mistrust outlasts every window; rotations leave no gap and revocations name an approver; sign-in sessions live within their login, and are revoked for reuse only after a loss |
| `records` | 3 copies of 10 events; 5 fetches of 7 events; 1 session and 2 runs on 2 instances; 1 delivery, 2 jobs, 2 callers, 2 attempts | replay and index are faithful, cleanup loses nothing needed, deliveries are honest, what must stay stays |
| `replay_skips` | the first of these | *violation*: an event at the time of another is skipped |
| `cleanup_overlap` | 3 runs, 2 of them of one instance | *violation*: two instances clean at once, both with time left on their lease |
| `server` | 3 requests of 2 clients; 2 jobs, 2 pollers, 1 crash, 1 failed write; 2 instances, 2 edits; 2 cached records | uploads and jobs are safe, flags are ones that were written and caches not too far behind, requests are answered, jobs decided for good, instances follow |

A property like `RecordsAgree` or `UploadsAreSafe` is the conjunction of its module's type
invariant and of invariants that are stated and explained one by one above it; several mutants
then show that its parts are alive.

Deadlock is not checked: a queue whose jobs are all done, a ledger or clock at its bound, and a
contract nobody calls really stop.

### Bounds, and why they are enough

- Queue: two slots in two processes are the smallest instance in which a job is recovered
  from one worker and run by another; one slot already shows a reused worker id. Two
  recovery loops race each other. Two attempts separate "retry" from "dead".
  `Listings` in `queue_progress` are a list, one that continues it (with batches of two, a checkpoint
  in the middle and a short last batch) and one that is shorter than a checkpoint may be; in
  `queue_safety`, where only the control of a handler matters, one list of one record. `MaxTargets`
  bounds their length. `MaxManual` and `MaxZombies`
  bound operator retries and handlers that outlive an attempt at one time.
- Webhooks: two requests race for one delivery, with a job for each; `MaxBudgets` admits a
  retry of a dead job while runs of earlier attempts go on.
- Oracle: three providers make turns and a list that shrinks under the round-robin index
  meaningful: `MCOracle` follows their calls, or (`subject`) the whole contract with one
  provider. There each kind meets each other kind: up to `MaxEntries` requests, deposited
  units, disputes, anchors and verifications, or up to `MaxReports` verifications and samples,
  are taken together.
- Provenance: three certificates are the smallest cycle the first-parent walk has to look
  for beyond its first step. `Focus` keeps the states with up to two entries of any kinds while fewer than
  three certificates exist, and one entry and up to three links with all three.
  `MAX_DEPTH` is 2, so that a cycle of three certificates, longer than the walk, gets past it, and
  the properties are seen to hold beside it; in `provenance_cycle` it is 20, the real value.
- Registry: three hashes make a chain of rotations that may close; `Focus` keeps up to three
  entries of any kinds together.
- Shared: two voters for each role that needs two; the priors of a short history end at 4
  verifications, within the 5; two days of recency and windows of one and two days meet the
  ends of each other. `Scale` is divided by every denominator, so no fraction is rounded that
  the code does not round. A session's lifetime of 4, idle window of 3 and grace of 1 let a token
  be presented within the grace, after it, and after the session has been forgotten. Two persons let
  a requester name himself or another as approver. With one login
  a refresh that was overtaken never finds another tab's pair in the storage.
- Records: the events are those of two certificates with a pair at one time, contradicting
  copies, a malformed one and the histories that are rejected; fetches include a batch under
  two ids, one that names a certificate twice, one id with two contents and a failed call. Two runs on two instances with a lease
  of one unit, and a clock long enough for archiving and purging.
- Server: two clients are what key locks are about; chunks of 2 and 3 of a file of 3 have a
  short last chunk, and a single one. Two jobs and two pollers make a recovery overlap with the
  worker; one crash and one failed write fall at every point.
- `SYMMETRY` is used where the members of a set are interchangeable model values and no
  liveness is checked.

### Fairness

`queue_progress`: weak fairness of a job's `runAt` passing, of the expiry of a heartbeat nobody
refreshes, of polling (`Claim` of some slot, not of each), of the end of an attempt (return,
throw or `runWithTimeout`), of `complete` and `fail` or their failure, and of `Scan`: all are
timers or awaits of the event loop. Recovering one job is strongly fair: the loop runs every
interval and database errors do not last. No fairness is assumed of heartbeats, of a handler
finishing its work, or of operators; a process may crash as often as it likes (attempt budgets
bound it).

`server`: weak fairness of a file write's end, well or not; of the worker's own steps (the event
loop goes on, a verification returns or throws); of each poller, for `JobsAreDecided` is about
clients that go on asking; of a request that has its turn for a lock; of the refresh timer of
each instance and the end of its database calls. None of new requests, enqueues, edits, crashes.

## What the checks found

- **Stake lost** (`oracle_stake_lost`, oracle `lib.rs:715`). A second withdrawal overwrites
  the entry of the first.
- **Cycle of ancestors** (`provenance_cycle`, provenance `lib.rs:646`). The check follows
  the first parent only, although a certificate may have several.
- **Event skipped** (`replay_skips`, `provenanceReplay.ts:309`). Events are ordered by time,
  transaction and id, but compared with the moving cursor by time and id: of two events of one
  time the later one is dropped if its id is smaller, even in a full replay.
- **Cleanups overlap** (`cleanup_overlap`, `locks.ts:12`). The lease is granted again to its owner,
  and the timer and the operator's request run under one owner: both runs go on, the first to finish
  frees the lock, and another instance begins beside the second, against "on at most one instance
  at a time" (`scheduler.ts:19`). Found when `OverlapNeedsExpiry` was to be proved: its proof needs
  `OneRunEach`, which the code does not ensure. No session is lost and no file in use is unlinked
  in spite of it (`CleanupLosesNothing` is proved without `OneRunEach`).

Ten more are stated as properties of the modules that no run checks, because they do not hold:

- **Stale checkpoint accepted** (`StaleSaveRejected` of `JobQueue`; `queue.ts:266`).
  `saveCheckpoint` is documented to throw when the job's lock was lost (`worker.ts:22`), but the
  lock is the worker id, which the next attempt in the same slot reuses.
- **Targets skipped** (`EveryTargetReindexed` of `JobQueue`; `handlers.ts:62`). "When omitted, all
  records of the given kind are reindexed" (`handlers.ts:11`), but an attempt that resumes counts its
  checkpoint's offset from the start of a list that is asked for again: when a record before the
  offset is gone, or a new one precedes it, records are skipped or done twice and the job succeeds.
  Only an offset beyond the new list is noticed (`handlers.ts:66`).
- **Delivered becomes failed** (`DeliveredStaysDelivered`; `service.ts:272`). When the job was
  enqueued and only storing its id failed, `schedule` marks the delivery failed with a
  filter on `_id` alone, against "Delivered stays delivered" (`docs/operations/webhooks.md:43`).
- **Pending without a job** (`PendingHasLiveJob`; `service.ts:123`, `collections.ts:187`). A
  process that dies between insert and enqueue leaves a delivery that nothing will ever send.
- **Uptime drifts** (`UptimeIsTheMean`; oracle `lib.rs:1807`). The running mean is truncated
  at every update; the proof shows that it errs only downwards.
- **Bounds are approvable** (`HardBoundsHold`; `trust-thresholds.ts:117`,
  `docs/security/governance-framework.md:152` and `:228`). A change beyond the hard bounds "can
  never be approved", but the review does not look at the decision about thresholds.
- **One person revokes** (`TwoPersonsRevoke` of `KeyLifecycle`; `key-lifecycle/index.ts:757`). The
  gate "enforces two-person integrity for critical key categories" (ADR 0015, line 28; line 37
  "Two-person integrity is enforced structurally"; `docs/security/key-rotation-revocation.md:119`
  "require a second approver"), but looks only at whether `approvedBy` is given, never at
  `requestedBy`: a requester who names himself revokes the key.
- **Found twice** (`FoundOnce` of `EventIndexer`; `sorobanEventIndexer.ts:248`). `query` and
  `proofHistory` ("Every proof event about one certificate", line 336) return an event once for each time
  its batch names the certificate, since `proofSubjectIds` (`proofEvents.ts:365`) keeps repetitions;
  "proof history is not double counted" (line 180) holds of copies of an event only.
- **Registered and not listed** (`RegisteredAreListed` of `Registry`; registry `lib.rs:745`,
  `:819`). Setting a tier for, or deactivating, an unregistered key makes its `ProviderInfo`,
  after which `add_provider` never lists it.
- **Active without tokens** (`ActiveHoldsTokens` of `AuthSessions`; `AuthSessionContext.tsx:240`). A
  tab whose tokens a storage event or a logout took away while its refresh was under way, and whose
  refresh then fails, shows an active session.

Seen while reading, without a property:

- Queue and webhooks: two slots may work on one batch when a slow worker is taken for dead (the
  guards protect the document, not the work); after `retryDead(fresh)` a zombie of the same slot
  can restore the discarded checkpoint; two runs of one webhook job can both pass the check for
  delivered and send twice, and an old attempt's record can turn `failed` back into `pending`.
  `queue.ts:78` contains a merge marker, `worker.ts` imports `JobError` although `errors.ts`
  defines it elsewhere, and `enqueueReindex` enqueues on a queue whose handler is registered under
  another name; the models take the intended reading of these.
- Oracle: `get_next_available_provider` does not look at suspension although the module comment
  (`lib.rs:12`) and `docs/glossary.md:329` say so; its "consecutive failures" are a lifetime
  total. `file_dispute` says it accepts archived requests (line 976) and reads only temporary
  storage. `anchor_dispute_evidence` refuses a known package once the list is full, before its
  idempotent return. `archive_old_requests` archives pending requests and leaves the state index
  alone.
- Provenance: `record_rollback` says it is for the oracle or admin (`lib.rs:517`) and only
  authenticates its caller; `take_snapshot` reads a history key nothing writes; the lock
  "preventing any further modifications" (line 1854) is not looked at by expiration, verification
  level, media, code, link and anchor operations.
- Registry: `execute_proposal` marks a proposal executed and does not carry out its operation
  (`docs/api/CONTRACTS.md:203`), and with a threshold of two or more no proposal can be executed;
  reputation decay throws away the rest of a period; `verify_and_mint` cannot succeed;
  deactivating a removed provider makes `is_provider` true again; hashes approved through a version
  alone never expire. "Approval registers the applicant's key as an active Basic-tier provider"
  (`lib.rs:925`) is not so for a key in its grace period: it has its `ProviderInfo`, whose status and
  tier stay (`lib.rs:733`), so the application is approved and the provider goes on leaving.
- Shared packages: `evaluateThresholdChange` is said to compare with "the current threshold"
  (`trust-thresholds.ts:115`) and takes the caller's `change.from` for it (line 155), so a change that
  understates `from` lowers a threshold as if it raised it, without critical review. A shorter degradation replaces a longer one, and probation is lost when a window
  ends; one more failed verification can raise a score at the end of the priors; superseded keys
  are in the total of the summary and in no counter; the plan's "drain" steps do not block the
  retirement after them. `verifyAgainstRecords` can miss a lost event; the index drops a legitimate
  repetition of the same content, and index and replay may keep different copies of one id; gaps
  are never closed by a backfill; events later than the cursor's time arriving late are skipped on
  resume.
- Web server: a start that waited for locks stores an expiry computed from an older time than the
  session's; a restart is not under the lock of starts, so two sessions for one file can be open;
  the ai-label route reads, changes and writes an upload without a lock. A failed write of
  "processing" leaves the job so in memory until a restart; a failed write of "certified" stores
  "failed". The manual retry route records an attempt and does not queue one though its answer says
  "queued". The helpers of `job-recovery.ts` have no callers.
- Sign-in: on mount and on a storage event the tab reads `refreshExpiresAt` of the stored value,
  which has it one level deeper (`AuthSessionContext.tsx:182`, `:197`): a storage event always signs
  the tab out and a reload ends the session, although "Tokens are shared across tabs" (line 16).
  After one lost answer the tab presents its old token again and again, and past the grace its own
  session is revoked as stolen. Near the absolute end the time to refresh is now, so refreshes follow
  one another without a pause. An answer that arrives after logout signs the tab in again.
- Failover and governance packages (not modelled): `partial_outage` allows dispatch with degraded
  providers only, whatever `allowDegradedDispatch` says; `evaluateGovernanceAction` of
  `registry-governance` looks at the number of approvals, not at the proposal's status or expiry.
- Retention: "A manual run returns `409` while another run holds the lock" (data-retention guide)
  is not so either when it is the same instance's. A session can be lost when one run lasts as long as
  a session takes to go stale again (24 hours, with a lease of 30 minutes), or when archives are
  purged sooner than that; `RetentionTick` and `RetentionConstants` exclude these. A media record written for an old file
  between the second look at the references and the unlink would dangle.
- Caches and maintenance: `CachedVerificationReads.invalidate` has no callers
  (`verifications.ts:141`), and a query under way stores its answer after an invalidation anyway;
  the staleness bound is the time to live plus the query. An older read of the flag can be applied
  over a newer one until the next refresh; two `enable` calls at once, or an `enable` beside a
  `disable`, can lose "Keep the original start time".

## What is proved

Every safety invariant and action property of the passing runs is a theorem, for all values of the
constants; PROJECT.json lists the theorems with the properties they state. The assumptions on the
constants are the named `ASSUME`s of the modules: that numbers are numbers, that "nobody" is not
somebody, and where the argument needs more:

- `Sessions` (retention), `LoginTimes` and the sets that are counted are finite.
- `RetentionConstants` says how long the archive lasts (above), `RetentionTick` how long a run does.
- `WorkerConstants`: the worker, the pollers and the uploads have different names.
- `ReputationConstants`: `Scale`, the common denominator of the scores, is a positive multiple of
  every denominator in use.

The proofs have one shape: an inductive invariant of named parts, one lemma for each part and kind of
step, and a last step that leaves the parts that state the property. What follows says why each
property is not inductive by itself and what is added to it.

**`JobQueueProofs`**

- `TypeCorrect`; `BudgetHolds`, `OwnerIsLatest`: the outcome of an attempt is decided on the attempts
  the run or the snapshot remembers. `IInv` adds `SnapshotsMatch` (as long as the heartbeat a
  recovery loop read is in place, the job is still running, stale and at the attempt that was
  read) and `HandlersOK` (a busy slot's run is its own; a handler that has its list stands inside it).
- `FreshJobIsKept`: the action property, from the same invariant.
- `NothingSkipped`: a checkpoint is written from what a handler remembers, also one that outlived its
  attempt. `WorkInv` says of every document, run and zombie that the records it counts were refreshed:
  they are the first of the list that was asked for last, which continues all before it unless
  something `moved`.
- `QueueRefines`: `Spec => Lifecycle!LifeSpec`, each action a step of `JobLifecycle` or a stutter.

**`ListProofs`** Lemmas about `With`, `Without`, `Append`, `Tail`, concatenation and sums: elements,
lengths, order, no element twice. They rest on `NumberInduction`, which states induction as a fact
about sets of numbers and is proved from the library's well-foundedness of `<`: the library's own
theorem takes an operator as a parameter, which the provers cannot instantiate.

**`OracleProofs`**

- `StakesAreCovered`: each call moves an amount between staked, being withdrawn, paid and slashed, or
  loses it. `RequestsAreAccountedFor`: ids beyond `nextId` were never used.
- `UptimeIsConservative`, also in the whole contract: `(m * (n - 1) + x) \div n * n <= m * (n - 1) + x`.
- `ProvidersTakeTurns`: round robin over a list that shrinks and grows under its index. `TurnsInv`
  gives each preferred provider its distance from the index, in the list as it is, and says that
  what it has waited and that distance together stay below a round.
- `RecordsStayInAgreement`: `IndexInv` (the two lists of the index hold every id given out, once
  between them), `FailuresInv` (the failures in the metrics are those reported plus a sum over the
  verdicts), `FiguresInv` (SLA figures are percentages), `EvidenceInv` (no package twice).

**`ProvenanceProofs`**, all over `CertsInv` (a batch appends, an amendment changes one in place):

- `CodesAlwaysResolve`, `ManifestsAreUnique`, `LockHolds` (one lemma per record the lock protects).
- `HistoryTellsTheTruth`: `Tells` says of a history, by counting its entries of a kind, who owns and
  how often it changed hands; an entry appended changes one of the counts.
- `LinksStaySound`: both ends are written by one call, so their counts move together; along first
  parents there is no cycle of at most `MAX_DEPTH` certificates, because a first link that closed one
  would have been met by the walk of `creates_cycle`, by induction on the depth.
- `IndexesStayInAgreement`: `TotalsInv`, `SearchInv`, `CollectionsInv`, `EndorsementsInv`, each saying
  of one group of lists what they hold, in which order and how often.

**`RegistryProofs`**

- `HashesStayInAgreement`: pointers of rotated hashes and three records of versions; `TeeInv` adds
  that a rotated hash has its records.
- `ProvidersStayInAgreement`: `LifeInv`, `KeptInv`, `GroupInv`. A provider that is listed has a
  `ProviderInfo`, not the other way round.
- `DecisionsAreFinal`: the action property of hashes, providers and proposals.

**`SharedProofs`**

- `RotationLeavesNoGap`, `GatesHold`: `PlanInOrder` (a step begins after those before it, and after
  the blocking ones are done) applied to each of the tables of steps. What is proved of the emergency
  gate is that it asks for an approver, not that there are two persons.
- `ApprovalIsEarned`, `OutcomeStands`: for every combination of impacts and thresholds, an approval
  that is recorded has the votes its path asks for.
- `StandingStaysEarned`, `VerifiersAreJudgedFairly`: the arithmetic of the score. Rates rise with good
  news and fall with bad, through the mix with the priors and across its end; the cap and the rounding
  keep the order; the parts a verifier without faults cannot lose add up to more than the line of
  exclusion. That no window begins or ends for a suspended or blacklisted verifier is shown of each
  call.
- `SessionsStaySound`, `OverIsOver`: `RecordsInv` about the server's records alone; `PairsInv` (every
  pair of tokens anywhere was issued); `HonestInv`: as long as no answer was lost, a session is
  followed by one tab or one late request, which presents the session's last pair.

**`RecordProofs`**

- `DeliveriesStayHonest`, `DeliveredNotDowngraded`: what was sent, what is about to be sent and what
  the attempts in hand may still send stay together within the budgets given (`SendsAreCovered`).
- `CleanupLosesNothing`, `SessionsInUseStay`: `ChosenFits` says for each place of a run what is still
  true of a session it has chosen, although the application and another run went on: it is where the
  run left it, or was seen since the run began, or was archived so recently that no purge reaches it.

- `IndexTellsTheEvents`: `IndexIsFaithful` compares lists kept by hand with what was fetched. `Filed`
  says which ids each of them holds, `Origins` and `FirstsIndexed` which fetched copy each id stands
  for, `GapsTold` where each missing ledger is listed; the agreement of the routes of `Query` then
  needs only what `Dropping` leaves of a list, and how often an id is in it (`DroppingTimes`,
  `RepeatedBehind`).
- `ResumedIsReplayed`: a checkpoint does not tell from which events it was made: some were rejected, and
  those after its cursor will be looked at again. `ReplayInv` says that it is the replay of the events
  up to its cursor (`Past`), and of all of `fed`, when their times differ. The lemmas are about
  `ReplayAll`, by induction on the number of events with the latest one split off: a replay in two
  parts (`ReplayInParts`), leaving out events whose turn changes nothing (`ReplayWithout`), and that
  those after the final cursor (`ReplayUpToCursor`) or not after the first one (`ReplayFromCursor`)
  are of that kind. `GoodRun` says what each chain holds, which gives `HistoryIsPlausible`.
- `MergedCopiesStay`, and with it `NothingGetsUndone` of the composed specification, which behaves to
  each of its subjects as that module's own (`RecordsAreApart`).

**`ServerProofs`**

- `HeldStaysSound`: `Fresh` bounds by how much a cached value may be behind: it missed a change that is
  at most a load older than the entry's lifetime. `FlagWasWritten` is inductive beside `ModeInv`, the
  types: a read in progress holds a document that was there, and applying it replaces the state whole.
- `JobsStaySafe`: `FilesGrow` (the file, the writes in the chain and the memory hold ever more of what
  was answered, in this order), `HandsApart` (a job is on the list of one recovery or with the worker)
  and `VerifiedCounted` (a job not yet come to was verified at most once per earlier process).
- `UploadsStaySafe`: `SessionLines` and `StartLine` (who waits for a lock is in its queue, once) and
  `CandidatesLeft` (a start that has its lock has yet to visit each open session of its kind), which is
  what excludes a second session.

## What is only model-checked

- Liveness (`JobsSettle`, `JobsAreDecided`, `RequestsAreAnswered`, `InstancesFollow`): temporal proofs
  under fairness need ENABLED, which the prover does not reach.
- The violations: they are counterexamples, for TLC to find.

## What is not modelled

Authorization (who may call a contract operation), formats, hashes and signatures; queue
priorities and progress figures; the oracle's delegation, comments, pricing, policy
governance and trust score; in provenance the fields that only their getter reads
(expiration, verification level), redaction policies, rollback records, signatures and view
counts; in the registry profiles, regions and specializations. Of the web server the collections
without a rule of their own; of the shared packages
`registry-governance`, `workflow`, `failover` and everything that is types, texts or validation of
one value. The backend's request routing except the maintenance routes; the review of access
requests (a read, an await, a write); retries around one HTTP call; health, metrics, the user
interface, scripts: they keep no state that another part relies on. Most of the repository's
lines are user interface and documentation of this kind.

## Plan

1. The registry governance and failover packages; the review of access requests.
2. What the properties that do not hold would need: each as a theorem under the condition that a
   fix of the code would establish.
