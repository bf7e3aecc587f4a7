---------------------------- MODULE UploadSessions ----------------------------
(***************************************************************************)
(* Resumable uploads, frontend/lib/server/upload-sessions.ts, with the key *)
(* locks of write-concurrency.ts: the sessions of one creator for one      *)
(* file, and requests of several clients between whose steps others come   *)
(* in. The lock of the starts and the lock of each session are first come, *)
(* first served.                                                           *)
(*                                                                         *)
(* Left out: the fields no rule reads, and the disk, which a holder of a   *)
(* lock waits for before it lets go.                                       *)
(***************************************************************************)
EXTENDS Naturals, Sequences, FiniteSets, Lists

CONSTANTS
  Clients,
  NoTag,            (* a request without If-Match                          *)
  FileSize,         (* of the one file                                     *)
  ChunkSizes,       (* the chunk sizes clients ask for                     *)
  Reports,          (* the sets of chunks clients report                   *)
  Ttl,              (* UPLOAD_SESSION_LIMITS.ttlMs                         *)
  LastTick,         (* bound: the clock                                    *)
  MaxRequests       (* bound: requests that wait for a lock                *)

ASSUME UploadConstants ==
  /\ FileSize \in Nat \ {0} /\ ChunkSizes \subseteq Nat \ {0}
  /\ Reports \subseteq SUBSET Nat /\ {Ttl, LastTick, MaxRequests} \subseteq Nat

VARIABLES
  clock,
  sessions,         (* the collection, in the order of creation            *)
  starts,           (* the lock of the starts: the holder, then who waits  *)
  holders,          (* the lock of each session, the same                  *)
  request,          (* what each client's request is doing                 *)
  requests,
  received          (* history: per session, the chunks answered with ok   *)
                    (* since it was last restarted                         *)

uploadVars == <<clock, sessions, starts, holders, request, requests, received>>

NoRequest ==
  [at |-> "idle", kind |-> "get", now |-> 0, session |-> 0, tag |-> NoTag, arg |-> 0,
   todo |-> << >>, saw |-> NoTag]

UploadInit ==
  /\ clock = 0 /\ sessions = << >> /\ starts = << >> /\ holders = << >>
  /\ request = [c \in Clients |-> NoRequest] /\ requests = 0 /\ received = << >>

-----------------------------------------------------------------------------
(* Chunks.                                                                 *)

TotalChunks(size) == (FileSize + size - 1) \div size

LastIsFull(index, size) == size   (* mutant: every chunk is a full one *)

ChunkBytes(index, size) ==
  IF index * size >= FileSize THEN 0
  ELSE IF FileSize - index * size < size THEN FileSize - index * size ELSE size

(* Chunks are kept in order.                                               *)
BytesFor(chunks, size) ==
  LET below[i \in 0..TotalChunks(size)] ==
        IF i = 0 THEN 0
        ELSE below[i - 1] + IF i - 1 \in chunks THEN ChunkBytes(i - 1, size) ELSE 0
  IN  below[TotalChunks(size)]

-----------------------------------------------------------------------------
(* Sessions.                                                               *)

Lapsed(session, now) == session.status = "in_progress" /\ session.expires <= now

Expired(session, now) == [session EXCEPT !.status = "expired", !.updated = now]

Reached(session, now) == [session EXCEPT !.updated = now, !.expires = now + Ttl]

Resumed(session, now) == [Reached(session, now) EXCEPT !.attempt = @ + 1]

Restarted(session, now) ==
  [Resumed(session, now) EXCEPT !.status = "in_progress", !.chunks = {}, !.bytes = 0, !.restarts = @ + 1]

OnlyReported(session, chunks) == chunks   (* mutant: what was recorded before is dropped *)

Recorded(session, chunks) == session.chunks \cup chunks

Progressed(session, chunks, now) ==
  [Reached(session, now) EXCEPT !.chunks = Recorded(session, chunks),
                                !.bytes = BytesFor(Recorded(session, chunks), session.chunkSize)]

AllReceived(session) == Cardinality(session.chunks) >= TotalChunks(session.chunkSize)

Opened(size, now) ==
  [chunkSize |-> size, status |-> "in_progress", chunks |-> {}, bytes |-> 0, attempt |-> 1,
   restarts |-> 0, updated |-> now, expires |-> now + Ttl]

(* The states updateSession may store next, none if it refuses.            *)
Updated(session, kind, arg, now) ==
  LET open == session.status = "in_progress" IN
  CASE kind = "restart" /\ session.status # "completed" -> {Restarted(session, now)}
    [] kind = "resume" /\ open -> {Resumed(session, now)}
    [] kind = "progress" /\ open /\ \A i \in arg : i < TotalChunks(session.chunkSize) ->
         {Progressed(session, arg, now)}
    [] kind = "abort" /\ open -> {[session EXCEPT !.status = "aborted", !.updated = now]}
    [] kind = "complete" /\ open /\ AllReceived(session) ->
         {[session EXCEPT !.status = "completed", !.updated = now]}
    [] OTHER -> {}

(* startOrResume takes the session, if it is of the same file and chunks.  *)
CanResume(session, size) == session.status = "in_progress" /\ session.chunkSize = size

-----------------------------------------------------------------------------
(* Requests arrive; the time is taken before any lock.                     *)

Arrive(c, r) ==
  /\ request[c].at = "idle" /\ requests < MaxRequests
  /\ requests' = requests + 1
  /\ request' = [request EXCEPT ![c] = r]

StartOrResumeSession(c, size) ==
  /\ Arrive(c, [NoRequest EXCEPT !.at = "starting", !.kind = "start", !.now = clock, !.arg = size])
  /\ starts' = Append(starts, c)
  /\ UNCHANGED <<clock, sessions, holders, received>>

Join(c, s) == holders' = [holders EXCEPT ![s] = Append(@, c)]

(* PATCH, with the ETag of a GET just before or without one.               *)
UpdateSession(c, s, kind, arg, tag) ==
  /\ Arrive(c, [NoRequest EXCEPT !.at = "queued", !.kind = kind, !.now = clock, !.session = s,
                                 !.arg = arg, !.tag = tag])
  /\ Join(c, s)
  /\ UNCHANGED <<clock, sessions, starts, received>>

(* A read waits for the lock only to mark what has lapsed.                 *)
GetSession(c, s) ==
  /\ Lapsed(sessions[s], clock)
  /\ Arrive(c, [NoRequest EXCEPT !.at = "queued", !.now = clock, !.session = s])
  /\ Join(c, s)
  /\ UNCHANGED <<clock, sessions, starts, received>>

-----------------------------------------------------------------------------
(* The start, under its lock.                                              *)

Anyone(c, queue) == TRUE   (* mutant: there is no lock *)

Holds(c, queue) == queue # << >> /\ Head(queue) = c

FindCandidates(c) ==
  /\ request[c].at = "starting" /\ Holds(c, starts)
  /\ request' = [request EXCEPT ![c].at = "candidate", ![c].todo =
       Dropping([i \in DOMAIN sessions |-> i], {i \in DOMAIN sessions : sessions[i].status # "in_progress"})]
  /\ UNCHANGED <<clock, sessions, starts, holders, requests, received>>

TryCandidate(c) ==
  /\ request[c].at = "candidate" /\ request[c].todo # << >>
  /\ request' = [request EXCEPT ![c].at = "queued",
                                 ![c].session = Head(request[c].todo), ![c].todo = Tail(@)]
  /\ Join(c, Head(request[c].todo))
  /\ UNCHANGED <<clock, sessions, starts, requests, received>>

(* The answer; whoever is next has the locks.                              *)
Leave(c) ==
  /\ request' = [request EXCEPT ![c] = NoRequest]
  /\ starts' = Without(starts, c)

OpenSession(c) ==
  /\ request[c].at = "candidate" /\ request[c].todo = << >>
  /\ sessions' = Append(sessions, Opened(request[c].arg, request[c].now))
  /\ holders' = Append(holders, << >>) /\ received' = Append(received, {})
  /\ Leave(c)
  /\ UNCHANGED <<clock, requests>>

-----------------------------------------------------------------------------
(* Under the lock of a session.                                            *)

Keeps(c, s) == UNCHANGED holders   (* mutant: the lock is not let go *)

Unlock(c, s) == holders' = [holders EXCEPT ![s] = Without(@, c)]

ReadSession(c) ==
  LET r == request[c] IN
  /\ r.at = "queued" /\ Holds(c, holders[r.session])
  /\ IF r.tag \in {NoTag, sessions[r.session]}
     THEN /\ request' = [request EXCEPT ![c].at = "holding", ![c].saw = sessions[r.session]]
          /\ UNCHANGED <<starts, holders>>
     ELSE Leave(c) /\ Unlock(c, r.session)
  /\ UNCHANGED <<clock, sessions, requests, received>>

TakesLock(c, s) ==   (* mutant: locked is not passed on *)
  request' = [request EXCEPT ![c].at = "waiting"] /\ UNCHANGED <<sessions, holders>>

HasLock(c, s) ==
  /\ sessions' = [sessions EXCEPT ![s] = Expired(@, request[c].now)]
  /\ request' = [request EXCEPT ![c].saw = sessions'[s]]
  /\ UNCHANGED holders

(* refresh                                                                 *)
ExpireSession(c) ==
  LET r == request[c] IN
  /\ r.at = "holding" /\ Lapsed(r.saw, r.now)
  /\ HasLock(c, r.session)
  /\ UNCHANGED <<clock, starts, requests, received>>

(* updateSession and getSession, once lapsed sessions are marked.          *)
Answer(c) ==
  LET r == request[c]
      next == Updated(r.saw, r.kind, r.arg, r.now)
  IN
  /\ r.at = "holding" /\ r.kind # "start" /\ ~Lapsed(r.saw, r.now)
  /\ \/ \E session \in next :
          /\ sessions' = [sessions EXCEPT ![r.session] = session]
          /\ received' = [received EXCEPT ![r.session] =
               IF r.kind = "restart" THEN {} ELSE IF r.kind = "progress" THEN @ \cup r.arg ELSE @]
     \/ /\ next = {} \/ r.kind = "complete"   (* or no such upload *)
        /\ UNCHANGED <<sessions, received>>
  /\ Leave(c) /\ Unlock(c, r.session)
  /\ UNCHANGED <<clock, requests>>

(* startOrResume: this session, or the next candidate.                     *)
ResumeCandidate(c) ==
  LET r == request[c] IN
  /\ r.at = "holding" /\ r.kind = "start" /\ ~Lapsed(r.saw, r.now)
  /\ IF CanResume(r.saw, r.arg)
     THEN /\ sessions' = [sessions EXCEPT ![r.session] = Resumed(r.saw, r.now)]
          /\ Leave(c)
     ELSE /\ request' = [request EXCEPT ![c].at = "candidate"]
          /\ UNCHANGED <<sessions, starts>>
  /\ Unlock(c, r.session)
  /\ UNCHANGED <<clock, requests, received>>

UploadTick ==
  /\ clock < LastTick /\ clock' = clock + 1
  /\ UNCHANGED <<sessions, starts, holders, request, requests, received>>

RequestStep(c) ==
  \/ FindCandidates(c) \/ TryCandidate(c) \/ OpenSession(c)
  \/ ReadSession(c) \/ ExpireSession(c) \/ Answer(c) \/ ResumeCandidate(c)

NewRequest(c) ==
  \/ \E size \in ChunkSizes : StartOrResumeSession(c, size)
  \/ \E s \in DOMAIN sessions :
       \/ GetSession(c, s)
       \/ \E tag \in {NoTag, sessions[s]} :
            \/ \E kind \in {"resume", "restart", "abort", "complete"} : UpdateSession(c, s, kind, 0, tag)
            \/ \E chunks \in Reports : UpdateSession(c, s, "progress", chunks, tag)

UploadNext == UploadTick \/ \E c \in Clients : NewRequest(c) \/ RequestStep(c)

(* Files are written, so a request that has its turn goes on.              *)
UploadFairness == \A c \in Clients : WF_uploadVars(RequestStep(c))

UploadSpec == UploadInit /\ [][UploadNext]_uploadVars /\ UploadFairness

-----------------------------------------------------------------------------
(* Properties.                                                             *)

UploadTypeOK ==
  /\ Len(holders) = Len(sessions) /\ Len(received) = Len(sessions)
  /\ \A i \in DOMAIN sessions :
       /\ sessions[i].chunkSize \in ChunkSizes
       /\ sessions[i].status \in {"in_progress", "completed", "aborted", "expired"}
       /\ sessions[i].chunks \subseteq 0..(TotalChunks(sessions[i].chunkSize) - 1)
       /\ sessions[i].bytes = BytesFor(sessions[i].chunks, sessions[i].chunkSize)
       /\ IsInjective(holders[i])
       /\ Range(holders[i]) = {c \in Clients : request[c].at \in {"queued", "holding"} /\ request[c].session = i}
  /\ IsInjective(starts)
  /\ \A c \in Clients :
       /\ request[c].at \in {"idle", "starting", "candidate", "queued", "holding"}
       /\ request[c].at # "idle" /\ request[c].kind = "start" <=> c \in Range(starts)

(* Chunks a client was told are recorded are recorded until the session is *)
(* restarted, whoever reports, resumes or starts at the same time.         *)
ProgressIsKept == \A i \in DOMAIN sessions : received[i] \subseteq sessions[i].chunks

(* A completed session has the whole file: no chunk twice, the last one    *)
(* counted at its own length.                                              *)
CompletedIsWhole ==
  \A i \in DOMAIN sessions : sessions[i].status = "completed" => sessions[i].bytes = FileSize

(* Nothing comes between what a request reads of a session and what it     *)
(* stores; with If-Match it is what the client had read, but for the mark  *)
(* that the request itself made.                                           *)
WritesWhatItRead ==
  \A c \in Clients : request[c].at = "holding" =>
    /\ request[c].saw = sessions[request[c].session]
    /\ request[c].tag # NoTag =>
         request[c].saw \in {request[c].tag, Expired(request[c].tag, request[c].now)}

(* However many clients start, one session is open for the file and a      *)
(* chunk size; only a restart reopens another.                             *)
OneOpenSession ==
  \A i, k \in DOMAIN sessions :
    i < k /\ sessions[i].status = "in_progress" /\ sessions[k].status = "in_progress"
      /\ sessions[i].chunkSize = sessions[k].chunkSize
    => sessions[i].restarts > 0

(* Every request is answered: the two kinds of lock are never waited for   *)
(* in a circle, and marking a lapsed session does not wait for its own.    *)
RequestsAreAnswered == \A c \in Clients : request[c].at # "idle" ~> request[c].at = "idle"

(* A session keeps, counts and stores what its clients were told.          *)
UploadsAreSafe ==
  UploadTypeOK /\ ProgressIsKept /\ CompletedIsWhole /\ WritesWhatItRead /\ OneOpenSession

=============================================================================
