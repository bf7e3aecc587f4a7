----------------------------- MODULE EventIndexer -----------------------------
(***************************************************************************)
(* The index of contract events, packages/shared/indexing: the indexer     *)
(* (sorobanEventIndexer.ts) takes events in whatever order and as often as *)
(* they are fetched, the replay (eventReplay.ts) reads a whole collection, *)
(* and both decide which events there are.                                 *)
(*                                                                         *)
(* An event is an id and a content, what the fingerprint covers. Schemas   *)
(* of proof events are reduced to the subjects they name.                  *)
(***************************************************************************)
EXTENDS Naturals, Sequences, FiniteSets, SequencesExt, Lists

CONSTANTS
  Fetched,           (* the events fetches return: [id, content]           *)
  ProofNames,        (* the event names with a proof schema                *)
  ProofContract,     (* proofContracts: the contract whose proofs count    *)
  DedupeByContent,   (* dedupeByContent                                    *)
  MaxAuditRecords,   (* maxAuditRecords                                    *)
  MaxFetched         (* bound: events fetched                              *)

(* A content: [ledger : Nat \ {0}, contract, kind, name, succeeded,        *)
(* subjects, body], the subjects as the sequence the event lists.          *)
ASSUME IndexerConstants ==
  /\ \A e \in Fetched :
       /\ e.id \in Nat /\ e.content.ledger \in Nat \ {0}
       /\ e.content.subjects \in Seq(ToSet(e.content.subjects))
  /\ DedupeByContent \in BOOLEAN /\ MaxAuditRecords \in Nat /\ MaxFetched \in Nat

VARIABLES
  fetched,       (* history: what was given to ingest                      *)
  events,        (* events: id to content, as far as indexed               *)
  idByContent,   (* idByFingerprint                                        *)
  bySubject, byContract, gaps, highWaterLedger,
  duplicateLog, duplicatesIgnored, conflictsDetected

indexVars ==
  <<fetched, events, idByContent, bySubject, byContract, gaps, highWaterLedger,
    duplicateLog, duplicatesIgnored, conflictsDetected>>

Contents == {e.content : e \in Fetched}
Ids == {e.id : e \in Fetched}
AllSubjects == UNION {ToSet(c.subjects) : c \in Contents}
AllContracts == {c.contract : c \in Contents}

IndexTypeOK ==
  /\ fetched \in Seq(Fetched)
  /\ DOMAIN events \subseteq Ids /\ DOMAIN idByContent \subseteq Contents
  /\ \A i \in DOMAIN events : events[i] \in Contents
  /\ \A c \in DOMAIN idByContent : idByContent[c] \in DOMAIN events
  /\ \A s \in AllSubjects : bySubject[s] \in Seq(Ids)
  /\ \A c \in AllContracts : byContract[c] \in Seq(Ids)
  /\ gaps \in Seq(Nat \X Nat) /\ highWaterLedger \in Nat
  /\ Len(duplicateLog) <= MaxAuditRecords
  /\ duplicatesIgnored \in Nat /\ conflictsDetected \in Nat

IndexInit ==
  /\ fetched = << >> /\ events = << >> /\ idByContent = << >>
  /\ bySubject = [s \in AllSubjects |-> << >>] /\ byContract = [c \in AllContracts |-> << >>]
  /\ gaps = << >> /\ highWaterLedger = 0 /\ duplicateLog = << >>
  /\ duplicatesIgnored = 0 /\ conflictsDetected = 0

-----------------------------------------------------------------------------
(* decodeProofEvent: proofs are of the pinned contract, in calls that      *)
(* succeeded.                                                              *)
IsProof(c) ==
  /\ c.kind = "contract" /\ c.succeeded
  /\ c.name \in ProofNames /\ c.contract = ProofContract

FirstOnly(c) ==   (* mutant: a batch is filed under its first subject *)
  IF IsProof(c) /\ Len(c.subjects) > 0 THEN <<c.subjects[1]>> ELSE << >>

(* proofSubjectIds: as listed, a subject that is named twice twice.        *)
ProofSubjectIds(c) == IF IsProof(c) THEN c.subjects ELSE << >>

Times(x, list) == Cardinality({n \in DOMAIN list : list[n] = x})

ById(e) ==   (* mutant: only an id is looked up *)
  IF e.id \in DOMAIN events
  THEN IF events[e.id] = e.content THEN "same_id" ELSE "conflict"
  ELSE "indexed"

(* The first half of ingestWithOutcome.                                    *)
OutcomeOf(e) ==
  CASE e.id \in DOMAIN events /\ events[e.id] = e.content -> "same_id"
    [] e.id \in DOMAIN events /\ events[e.id] # e.content -> "conflict"
    [] e.id \notin DOMAIN events /\ DedupeByContent /\ e.content \in DOMAIN idByContent ->
         "same_content"
    [] OTHER -> "indexed"

KeepOldest(log, r) ==   (* mutant: a full log drops what is new *)
  IF Len(log) < MaxAuditRecords THEN Append(log, r) ELSE log

Unbounded(log, r) == Append(log, r)   (* mutant: the log only grows *)

PushBounded(log, r) ==
  LET all == Append(log, r) IN
  SubSeq(all, IF Len(all) > MaxAuditRecords THEN Len(all) - MaxAuditRecords + 1 ELSE 1, Len(all))

Put(f, k, v) == [x \in DOMAIN f \cup {k} |-> IF x = k THEN v ELSE f[x]]

MissedByOne(ledger) == ledger > highWaterLedger + 2   (* mutant: a single ledger is no gap *)

Leaps(ledger) == ledger > highWaterLedger + 1

(* Once for each subject listed.                                           *)
Index(e) ==
  /\ events' = Put(events, e.id, e.content)
  /\ idByContent' = IF e.content \in DOMAIN idByContent THEN idByContent
                    ELSE Put(idByContent, e.content, e.id)
  /\ bySubject' = [s \in AllSubjects |->
                     bySubject[s] \o [n \in 1..Times(s, ProofSubjectIds(e.content)) |-> e.id]]
  /\ byContract' = [byContract EXCEPT ![e.content.contract] = Append(@, e.id)]
  /\ gaps' = IF highWaterLedger > 0 /\ Leaps(e.content.ledger)
             THEN Append(gaps, <<highWaterLedger + 1, e.content.ledger - 1>>) ELSE gaps
  /\ highWaterLedger' = IF e.content.ledger > highWaterLedger THEN e.content.ledger
                        ELSE highWaterLedger
  /\ UNCHANGED <<duplicateLog, duplicatesIgnored, conflictsDetected>>

RecordDuplicate(e) ==
  /\ duplicatesIgnored' = duplicatesIgnored + 1
  /\ duplicateLog' = PushBounded(duplicateLog, e)
  /\ UNCHANGED <<events, idByContent, bySubject, byContract, gaps, highWaterLedger,
                 conflictsDetected>>

RecordConflict ==
  /\ conflictsDetected' = conflictsDetected + 1
  /\ UNCHANGED <<events, idByContent, bySubject, byContract, gaps, highWaterLedger,
                 duplicateLog, duplicatesIgnored>>

Ingest(e) ==
  /\ Len(fetched) < MaxFetched
  /\ fetched' = Append(fetched, e)
  /\ \/ OutcomeOf(e) = "indexed" /\ Index(e)
     \/ OutcomeOf(e) \in {"same_id", "same_content"} /\ RecordDuplicate(e)
     \/ OutcomeOf(e) = "conflict" /\ RecordConflict

IndexerNext == \E e \in Fetched : Ingest(e)

IndexerSpec == IndexInit /\ [][IndexerNext]_indexVars

-----------------------------------------------------------------------------
(* query: the route a query takes, then the filters. All routes are asked  *)
(* for everything (no offset and no limit).                                *)

Route(subject, contract) ==
  CASE subject # "any" -> bySubject[subject]
    [] subject = "any" /\ contract # "any" -> byContract[contract]
    [] OTHER -> SetToSeq(DOMAIN events)

Filtered(i, subject, contract) ==
  /\ contract # "any" => events[i].contract = contract
  /\ subject # "any" => IsProof(events[i]) /\ subject \in ToSet(events[i].subjects)

Query(subject, contract) ==
  Dropping(Route(subject, contract),
           {i \in DOMAIN events : ~Filtered(i, subject, contract)})

(* replayContractEvents, of one contract or all: the first copy of each id *)
(* that is not skipped.                                                    *)
LastCopy(copies) ==   (* mutant: a later copy replaces an earlier one *)
  {copies[i] : i \in {j \in DOMAIN copies : \A k \in DOMAIN copies : k > j => copies[k].id # copies[j].id}}

FirstCopies(copies) ==
  {copies[i] : i \in {j \in DOMAIN copies : \A k \in 1..(j - 1) : copies[k].id # copies[j].id}}

IsState(c) == c.kind # "diagnostic" /\ c.succeeded

ReplayContractEvents(copies, contract) ==
  {e \in FirstCopies(copies) : (contract = "any" \/ e.content.contract = contract)
                               /\ IsState(e.content)}

(* The ledgers within the gaps a replay finds, in the order of ledgers.    *)
ReplayGaps(applied) ==
  LET ledgers == {e.content.ledger : e \in applied} IN
  {n \in 1..highWaterLedger :
     n \notin ledgers /\ (\E l \in ledgers : l < n) /\ (\E l \in ledgers : l > n)}

-----------------------------------------------------------------------------
(* Properties.                                                             *)

(* Whatever was ingested in which order, each route of a query finds what  *)
(* a scan of all events finds: each event once, or, by subject, as often   *)
(* as the event names the subject.                                         *)
RoutesAgree ==
  \A s \in AllSubjects \cup {"any"}, c \in AllContracts \cup {"any"} :
    LET found == Query(s, c) IN
    /\ ToSet(found) = {i \in DOMAIN events :
                         /\ c # "any" => events[i].contract = c
                         /\ s # "any" => IsProof(events[i]) /\ Contains(events[i].subjects, s)}
    /\ \A i \in ToSet(found) :
         Times(i, found) = IF s = "any" THEN 1 ELSE Times(s, events[i].subjects)

(* What "every proof event about one certificate" (proofHistory) suggests: *)
(* no query returns an event twice. It does not hold, and no run checks    *)
(* it: a batch that names a certificate twice is filed under it twice.     *)
FoundOnce ==
  \A s \in AllSubjects \cup {"any"}, c \in AllContracts \cup {"any"} :
    \A i \in ToSet(Query(s, c)) : Times(i, Query(s, c)) = 1

(* Every event given to the indexer is indexed, a duplicate or a conflict; *)
(* contents are indexed once; and a copy fetched again is the last one in   *)
(* the log of duplicates.                                                  *)
EverythingAccountedFor ==
  /\ Len(fetched) = Cardinality(DOMAIN events) + duplicatesIgnored + conflictsDetected
  /\ DedupeByContent => \A i, j \in DOMAIN events : events[i] = events[j] => i = j
  /\ \A n \in DOMAIN fetched :
       LET e == fetched[n] IN
       n = Len(fetched) /\ e.id \in DOMAIN events /\ events[e.id] = e.content
       /\ (\E k \in 1..(n - 1) : fetched[k] = e) /\ MaxAuditRecords > 0
         => Last(duplicateLog) = e

(* No ledger between the first event and the latest is silently missing: a *)
(* ledger without an event is in a gap, and gaps do not overlap.           *)
GapsCoverHoles ==
  /\ events # << >> =>
       \A n \in (fetched[1].content.ledger + 1)..(highWaterLedger - 1) :
         \/ \E i \in DOMAIN events : events[i].ledger = n
         \/ \E g \in DOMAIN gaps : gaps[g][1] <= n /\ n <= gaps[g][2]
  /\ \A g, h \in DOMAIN gaps : g < h => gaps[g][2] < gaps[h][1]

(* The indexer, one event at a time, and the replay of the whole agree on  *)
(* the events of every contract, unless one content came under two ids;    *)
(* and, if the first fetch was the earliest ledger, the replay finds no    *)
(* hole among the events of any kind that the indexer did not record.      *)
ReplayAgrees ==
  (\A a, b \in ToSet(fetched) : a.content = b.content => a.id = b.id) =>
    /\ \A c \in AllContracts \cup {"any"} :
         {e.id : e \in ReplayContractEvents(fetched, c)}
           = {i \in DOMAIN events : IsState(events[i]) /\ (c = "any" \/ events[i].contract = c)}
    /\ (\A i \in DOMAIN events : IsState(events[i]) /\ events[i].ledger >= fetched[1].content.ledger) =>
         \A n \in ReplayGaps(ReplayContractEvents(fetched, "any")) :
           \E g \in DOMAIN gaps : gaps[g][1] <= n /\ n <= gaps[g][2]

(* The index tells what was fetched, and what was not.                     *)
IndexIsFaithful ==
  IndexTypeOK /\ RoutesAgree /\ EverythingAccountedFor /\ GapsCoverHoles /\ ReplayAgrees

=============================================================================
