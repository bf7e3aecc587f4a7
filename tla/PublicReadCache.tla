---------------------------- MODULE PublicReadCache ----------------------------
(***************************************************************************)
(* The in-process cache of the public reads, backend/src/lib/cache.ts, as  *)
(* db/verifications.ts uses it: lookups of one instance while the records  *)
(* change in the database, where a lookup waits for its query.             *)
(*                                                                         *)
(* A record is what its number of changes tells: 0 is not found. The       *)
(* status of a verification is pending at first and terminal from its      *)
(* second change on; the latest verification of a content goes on          *)
(* changing. That a terminal status is not changed again is an assumption, *)
(* the one of TERMINAL_STATUSES: VerificationRepository.refresh may set    *)
(* any status in a reindex, but nothing calls it.                          *)
(***************************************************************************)
EXTENDS Clock, Integers, Sequences, FiniteSets, Lists

CONSTANTS
  StatusKeys, ContentKeys,
  NoLoad,
  MaxEntries,
  CacheTtl,
  NegativeTtl,
  MaxLoad,          (* the longest a query takes                           *)
  MaxContentChanges (* bound                                               *)

ASSUME CacheConstants ==
  /\ StatusKeys \cap ContentKeys = {} /\ MaxEntries \in Nat \ {0}
  /\ {CacheTtl, NegativeTtl, MaxLoad, MaxContentChanges} \subseteq Nat

VARIABLES
  changes,          (* the database: the times at which a record changed   *)
  entries,          (* the least recently used one first                   *)
  inflight          (* [value, since] of the query under way; value is -1  *)
                    (* until the database has answered                     *)

cacheVars == <<changes, entries, inflight>>

Keys == StatusKeys \cup ContentKeys

CacheInit ==
  /\ changes = [k \in Keys |-> << >>] /\ entries = << >> /\ inflight = [k \in Keys |-> NoLoad]

Current(k) == Len(changes[k])

EntryOf(k) == {e \in Range(entries) : e.key = k}

Others(k) == Dropping(entries, EntryOf(k))

EverythingOnce(k, value) == TRUE   (* mutant: pending statuses are stored, too *)

Cacheable(k, value) == k \in ContentKeys \/ value >= 2

OneTtl(value) == CacheTtl   (* mutant: a missing record is kept as long as a found one *)

TtlOf(value) == IF value = 0 THEN NegativeTtl ELSE CacheTtl

-----------------------------------------------------------------------------

(* getOrLoad, up to the query: a hit is the most recently used one; of two *)
(* misses the second waits for the query of the first.                     *)
Hit(k) ==
  \E e \in EntryOf(k) :
    /\ e.expires > now
    /\ entries' = Append(Others(k), e)
    /\ UNCHANGED <<changes, inflight>>

Miss(k) ==
  /\ \A e \in EntryOf(k) : e.expires <= now
  /\ entries' = Others(k)
  /\ inflight' = [inflight EXCEPT ![k] = IF @ = NoLoad THEN [value |-> -1, since |-> now] ELSE @]
  /\ UNCHANGED changes

Query(k) ==
  /\ inflight[k] # NoLoad /\ inflight[k].value = -1
  /\ inflight' = [inflight EXCEPT ![k].value = Current(k)]
  /\ UNCHANGED <<changes, entries>>

AllKept(stored) == stored   (* mutant: nothing is evicted *)

Evicted(stored) ==
  IF Len(stored) > MaxEntries THEN SubSeq(stored, Len(stored) - MaxEntries + 1, Len(stored)) ELSE stored

(* The query ends and its answer is stored, or fails.                      *)
LoadEnds(k) ==
  LET value == inflight[k].value IN
  /\ inflight[k] # NoLoad /\ value # -1
  /\ entries' = IF TtlOf(value) > 0 /\ (value = 0 \/ Cacheable(k, value))
                THEN Evicted(Append(Others(k), [key |-> k, value |-> value, expires |-> now + TtlOf(value)]))
                ELSE entries
  /\ inflight' = [inflight EXCEPT ![k] = NoLoad]
  /\ UNCHANGED changes

LoadFails(k) ==
  /\ inflight[k] # NoLoad
  /\ inflight' = [inflight EXCEPT ![k] = NoLoad]
  /\ UNCHANGED <<changes, entries>>

Invalidate(k) ==
  /\ entries' = Others(k)
  /\ UNCHANGED <<changes, inflight>>

Clear == entries' = << >> /\ UNCHANGED <<changes, inflight>>

(* The record changes, here or on another instance; a status for the last  *)
(* time when it becomes terminal.                                          *)
ChangeRecord(k) ==
  /\ Current(k) < IF k \in StatusKeys THEN 2 ELSE MaxContentChanges
  /\ changes' = [changes EXCEPT ![k] = Append(@, now)]
  /\ UNCHANGED <<entries, inflight>>

CacheTick ==
  /\ Tick
  /\ \A k \in Keys : inflight[k] # NoLoad => now < inflight[k].since + MaxLoad

CacheNext ==
  \/ /\ UNCHANGED now
     /\ \/ \E k \in Keys :
             Hit(k) \/ Miss(k) \/ Query(k) \/ LoadEnds(k) \/ LoadFails(k) \/ Invalidate(k) \/ ChangeRecord(k)
        \/ Clear
  \/ CacheTick /\ UNCHANGED cacheVars

-----------------------------------------------------------------------------
(* Properties.                                                             *)

CacheTypeOK ==
  /\ Len(entries) <= MaxEntries
  /\ \A i, j \in DOMAIN entries : entries[i].key = entries[j].key => i = j
  /\ \A e \in Range(entries) : e.key \in Keys /\ e.value \in 0..Current(e.key)
  /\ \A k \in Keys : inflight[k] # NoLoad => inflight[k].value \in -1..Current(k) /\ inflight[k].since <= now

(* A cached status never hides a later change of the verification,         *)
(* whenever its query was answered: given that terminal statuses are final *)
(* (ChangeRecord), no other is kept.                                       *)
StatusIsFinal ==
  \A e \in Range(entries) : e.key \in StatusKeys /\ e.value > 0 => e.value = Current(e.key)

(* An answer from the cache is out of date for no longer than its time to  *)
(* live and the query it came from: a new record shows within the short    *)
(* time of "not found", though its query was under way when it was made.   *)
ChangeShowsInTime ==
  \A e \in Range(entries) :
    e.expires > now /\ e.value < Current(e.key)
    => now < changes[e.key][e.value + 1] + (IF e.value = 0 THEN NegativeTtl ELSE CacheTtl) + MaxLoad

(* The cache is never further behind than it may be.                       *)
CacheIsFresh == CacheTypeOK /\ StatusIsFinal /\ ChangeShowsInTime

=============================================================================
