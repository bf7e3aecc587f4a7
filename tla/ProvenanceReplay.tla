--------------------------- MODULE ProvenanceReplay ---------------------------
(***************************************************************************)
(* Rebuilding provenance from its raw events,                              *)
(* packages/shared/utils/provenanceReplay.ts: events collected from        *)
(* several sources are merged, ordered and folded into certificates, from  *)
(* nothing or from a checkpoint, up to some time.                          *)
(*                                                                         *)
(* A hash chain is the sequence of events it hashes and a checkpoint is    *)
(* not tampered with. Details, exported rows and counts are left out.      *)
(***************************************************************************)
EXTENDS Naturals, Sequences, FiniteSets, SequencesExt

CONSTANTS
  RawEvents,      (* the copies of events that sources hold                *)
  NoCursor,       (* nothing applied yet                                   *)
  NoActor,        (* creator or owner not known                            *)
  LastEvent,      (* bound: the latest timestamp                           *)
  MaxCollected    (* bound: copies collected                               *)

EventTypes ==
  {"verification_submitted", "verification_completed", "verification_failed",
   "certificate_minted", "metadata_updated", "ownership_transferred",
   "certificate_renewed", "certificate_linked", "certificate_revoked"}

(* RawEvents: [id, tx, time : Nat, cert, type, actor, to, related]; a copy *)
(* of another type than these is malformed.                                *)
ASSUME ReplayConstants ==
  /\ \A e \in RawEvents : e.id \in Nat /\ e.tx \in Nat /\ e.time \in 1..LastEvent /\ e.actor # NoActor
  /\ NoCursor \notin Nat \X Nat
  /\ LastEvent \in Nat /\ MaxCollected \in Nat

VARIABLES
  collected,    (* the copies of all sources, most trusted first           *)
  checkpoint,   (* ReplayCheckpoint: cursor and certificates               *)
  fed,          (* history: the events the checkpoint was built from       *)
  lenient       (* ReplayOptions.lenient                                   *)

replayVars == <<collected, checkpoint, fed, lenient>>

Statuses == {"pending", "active", "failed", "revoked"}

Genesis == [cursor |-> NoCursor, certificates |-> << >>]

ReplayTypeOK ==
  /\ collected \in Seq(RawEvents) /\ fed \subseteq RawEvents /\ lenient \in BOOLEAN
  /\ checkpoint.cursor \in (Nat \X Nat) \cup {NoCursor}
  /\ DOMAIN checkpoint.certificates \subseteq {e.cert : e \in fed}
  /\ \A c \in DOMAIN checkpoint.certificates :
       LET state == checkpoint.certificates[c] IN
       state.status \in Statuses /\ state.chain \in Seq(RawEvents) /\ Len(state.chain) > 0

ReplayInit ==
  /\ collected = << >> /\ checkpoint = Genesis /\ fed = {} /\ lenient \in BOOLEAN

-----------------------------------------------------------------------------
(* mergeEventSources                                                       *)

LastCopies(copies) ==   (* mutant: a later source wins *)
  {copies[i] : i \in {j \in DOMAIN copies :
     copies[j].type \in EventTypes /\ \A k \in DOMAIN copies : k > j => copies[k].id # copies[j].id}}

MergeEventSources(copies) ==
  {copies[i] : i \in {j \in DOMAIN copies :
     /\ copies[j].type \in EventTypes
     /\ \A k \in 1..(j - 1) : copies[k].type \in EventTypes => copies[k].id # copies[j].id}}

(* compareEvents                                                           *)
Before(a, b) ==
  \/ a.time < b.time
  \/ a.time = b.time /\ a.tx < b.tx
  \/ a.time = b.time /\ a.tx = b.tx /\ a.id < b.id

(* sort(compareEvents): the n-th of the events.                            *)
Nth(events, n) ==
  CHOOSE e \in {d \in events : Cardinality({b \in events : Before(b, d)}) = n - 1} : TRUE

-----------------------------------------------------------------------------
(* replayProvenance                                                        *)

Reopened ==   (* mutant: a revoked certificate is still maintained *)
  [none |-> {"verification_submitted", "certificate_minted"},
   pending |-> {"verification_submitted", "verification_completed", "verification_failed",
                "certificate_minted"},
   failed |-> {"verification_submitted"},
   active |-> EventTypes \ {"verification_failed", "certificate_minted"},
   revoked |-> {"metadata_updated", "certificate_linked"}]

(* ALLOWED                                                                 *)
Allowed ==
  [none |-> {"verification_submitted", "certificate_minted"},
   pending |-> {"verification_submitted", "verification_completed", "verification_failed",
                "certificate_minted"},
   failed |-> {"verification_submitted"},
   active |-> EventTypes \ {"verification_failed", "certificate_minted"},
   revoked |-> {}]

Resubmitted(status, type) ==   (* mutant: a new submission makes any certificate pending *)
  CASE type = "verification_submitted" -> "pending"
    [] type = "verification_failed" -> "failed"
    [] type = "certificate_minted" -> "active"
    [] type = "certificate_revoked" -> "revoked"
    [] OTHER -> status

NextStatus(status, type) ==
  CASE type = "verification_submitted" /\ status # "active" -> "pending"
    [] type = "verification_failed" -> "failed"
    [] type = "certificate_minted" -> "active"
    [] type = "certificate_revoked" -> "revoked"
    [] OTHER -> status

Unless(known, actor) == IF known = NoActor THEN actor ELSE known

ChainedOnChange(state, e) ==   (* mutant: only a change of status enters the chain *)
  LET status == NextStatus(state.status, e.type) IN
  [state EXCEPT !.status = status,
                !.chain = IF status = state.status THEN @ ELSE Append(@, e)]

(* applyEvent, and the event added to the hash chain.                      *)
ApplyEvent(state, e) ==
  [status |-> NextStatus(state.status, e.type),
   creator |-> IF e.type \in {"verification_submitted", "certificate_minted"}
               THEN Unless(state.creator, e.actor) ELSE state.creator,
   owner |-> CASE e.type = "certificate_minted" -> Unless(state.owner, Unless(e.to, e.actor))
               [] e.type = "ownership_transferred" -> Unless(e.to, state.owner)
               [] OTHER -> state.owner,
   linked |-> IF e.type = "certificate_linked" THEN state.linked \cup {e.related}
              ELSE state.linked,
   chain |-> Append(state.chain, e)]

NewCertificate ==
  [status |-> "pending", creator |-> NoActor, owner |-> NoActor, linked |-> {}, chain |-> << >>]

FromCursor(e, cursor) ==   (* mutant: the event at the cursor is taken again *)
  cursor = NoCursor \/ e.time >= cursor[1]

(* isAfterCursor: the transaction, which orders events before their id     *)
(* does, is not looked at.                                                 *)
IsAfterCursor(e, cursor) ==
  \/ cursor = NoCursor
  \/ cursor # NoCursor /\ e.time > cursor[1]
  \/ cursor # NoCursor /\ e.time = cursor[1] /\ e.id > cursor[2]

StatusIn(certificates, c) == IF c \in DOMAIN certificates THEN certificates[c].status ELSE "none"

Taken(run, e, lax) == e.type \in Allowed[StatusIn(run.certificates, e.cert)] \/ lax

(* One event of the loop. The cursor moves as events are applied, and each *)
(* event is compared with where it is by then.                             *)
ReplayOne(run, e, lax) ==
  IF ~IsAfterCursor(e, run.cursor) \/ ~Taken(run, e, lax) THEN run
  ELSE LET state == IF e.cert \in DOMAIN run.certificates THEN run.certificates[e.cert]
                    ELSE NewCertificate
       IN [cursor |-> <<e.time, e.id>>,
           certificates |->
             [c \in DOMAIN run.certificates \cup {e.cert} |->
                IF c = e.cert THEN ApplyEvent(state, e) ELSE run.certificates[c]]]

(* The loop: what each number of the events, in their order, leads to.     *)
Replayed(events, from, lax) ==
  LET runs[n \in 0..Cardinality(events)] ==
        IF n = 0 THEN from ELSE ReplayOne(runs[n - 1], Nth(events, n), lax)
  IN  runs

ReplayAll(events, from, lax) == Replayed(events, from, lax)[Cardinality(events)]

Replay(events, from, until, lax) == ReplayAll({e \in events : e.time <= until}, from, lax)

-----------------------------------------------------------------------------
(* The recovery: events are collected, and replayed from nothing or from   *)
(* the last checkpoint, in full or up to a time.                           *)

Collect(e) ==
  /\ Len(collected) < MaxCollected
  /\ collected' = Append(collected, e)
  /\ UNCHANGED <<checkpoint, fed, lenient>>

Rebuild(until) ==
  LET events == MergeEventSources(collected) IN
  /\ checkpoint' = Replay(events, Genesis, until, lenient)
  /\ fed' = {e \in events : e.time <= until}
  /\ UNCHANGED <<collected, lenient>>

Resume(until) ==
  LET events == MergeEventSources(collected) IN
  /\ checkpoint' = Replay(events, checkpoint, until, lenient)
  /\ fed' = {e \in fed : ~IsAfterCursor(e, checkpoint.cursor)}
            \cup {e \in events : IsAfterCursor(e, checkpoint.cursor) /\ e.time <= until}
  /\ UNCHANGED <<collected, lenient>>

ReplayNext ==
  \/ \E e \in RawEvents : Collect(e)
  \/ \E until \in 1..LastEvent : Rebuild(until) \/ Resume(until)

ReplaySpec == ReplayInit /\ [][ReplayNext]_replayVars

-----------------------------------------------------------------------------
(* Properties.                                                             *)

(* A checkpoint is a durable resume point: when no two events have the     *)
(* same time, and however it was cut and resumed as events arrived, it     *)
(* holds the certificates that one replay of the same events gives. Events *)
(* rejected after the cursor are looked at again, in their new place.      *)
ResumeIsReplay ==
  (\A a, b \in fed : a.time = b.time => a = b) =>
    checkpoint.certificates = Replay(fed, Genesis, LastEvent, lenient).certificates

(* The recovery guide: an event is rejected by the table of transitions or *)
(* applied; so a lenient replay from nothing applies every event.          *)
NothingIsSkipped ==
  LET run == Replay(MergeEventSources(collected), Genesis, LastEvent, TRUE) IN
  \A e \in MergeEventSources(collected) :
    e.cert \in DOMAIN run.certificates /\ Contains(run.certificates[e.cert].chain, e)

EventsOf(c) == {checkpoint.certificates[c].chain[i] : i \in DOMAIN checkpoint.certificates[c].chain}

(* In a strict replay a certificate is active or revoked exactly when it   *)
(* was minted, once; a revocation ends its history; and it has an owner    *)
(* when it was minted and a creator always.                                *)
HistoryIsPlausible ==
  ~lenient => \A c \in DOMAIN checkpoint.certificates :
    LET state == checkpoint.certificates[c]
        minted == {e \in EventsOf(c) : e.type = "certificate_minted"}
    IN /\ state.status \in {"active", "revoked"} <=> minted # {}
       /\ \A i, j \in DOMAIN state.chain :
            /\ i < j => state.chain[i].type # "certificate_revoked"
            /\ state.chain[i].type = "certificate_minted" /\ state.chain[j] \in minted => i = j
       /\ (state.owner # NoActor <=> minted # {}) /\ state.creator # NoActor

(* Rebuilt from sources in the same order of trust, certificates do not    *)
(* change as less trusted copies come in: what is added has an id nobody   *)
(* had reported.                                                           *)
TrustedCopiesStay ==
  /\ MergeEventSources(collected) \subseteq MergeEventSources(collected')
  /\ \A a, b \in MergeEventSources(collected') : a.id = b.id => a = b

(* What is rebuilt is what the events tell, however they came.             *)
ReplayIsFaithful == ReplayTypeOK /\ ResumeIsReplay /\ HistoryIsPlausible

=============================================================================
