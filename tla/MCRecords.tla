------------------------------- MODULE MCRecords -------------------------------
(* The records kept of events read back from the chain (packages/shared),  *)
(* of sessions and media, and of webhook deliveries (the backend), one at  *)
(* a time: the modules share nothing but a clock, so a run follows the one *)
(* that subject names and leaves the others as they begin.                 *)
EXTENDS ProvenanceReplay, EventIndexer, Retention, WebhookDelivery, TLC

CONSTANTS a1, a2, ca, cb

VARIABLE subject

Event(id, tx, time, cert, type, actor, to) ==
  [id |-> id, tx |-> tx, time |-> time, cert |-> cert, type |-> type, actor |-> actor,
   to |-> to, related |-> cb]

(* Two copies of event 2, a malformed event 8, and at most two events of a *)
(* time, of which 2 and 3 come in the order of their transactions.         *)
MCRawEvents ==
  {Event(1, 1, 1, ca, "verification_submitted", a1, NoActor),
   Event(2, 2, 2, ca, "certificate_minted", a1, NoActor),
   Event(2, 2, 2, ca, "certificate_minted", a2, a2),
   Event(3, 1, 2, cb, "certificate_minted", a2, NoActor),
   Event(4, 1, 3, ca, "certificate_revoked", a1, NoActor),
   Event(5, 1, 4, ca, "certificate_linked", a1, NoActor),
   Event(6, 1, 1, ca, "verification_failed", a1, NoActor),
   Event(7, 1, 4, ca, "ownership_transferred", a1, a2),
   Event(8, 1, 3, ca, "unknown", a1, a2),
   Event(9, 1, 4, ca, "verification_submitted", a2, NoActor)}

Content(ledger, contract, kind, name, succeeded, subjects) ==
  [ledger |-> ledger, contract |-> contract, kind |-> kind, name |-> name,
   succeeded |-> succeeded, subjects |-> subjects]

(* Proofs, one of them a batch that comes under two ids and one a batch    *)
(* with the id of another, that names a subject twice; a proof's name on   *)
(* another contract; a failed call.                                        *)
MCFetched ==
  LET batch == Content(2, ca, "contract", "proof", TRUE, <<a1, a2>>) IN
  {[id |-> 1, content |-> Content(1, ca, "contract", "proof", TRUE, <<a1>>)],
   [id |-> 2, content |-> batch],
   [id |-> 3, content |-> batch],
   [id |-> 3, content |-> Content(4, ca, "contract", "proof", TRUE, <<a2, a2>>)],
   [id |-> 4, content |-> Content(4, cb, "contract", "proof", TRUE, <<a1>>)],
   [id |-> 5, content |-> Content(6, ca, "contract", "proof", FALSE, <<a1>>)],
   [id |-> 6, content |-> Content(6, cb, "diagnostic", "log", TRUE, << >>)]}

MCProofNames == {"proof"}

MCInstanceOf == [r \in Runs |-> r]

(* All but one of the runs are of one instance: its timer's, an operator's.*)
MCSharedInstance == LET alone == CHOOSE r \in Runs : TRUE IN [r \in Runs |-> r = alone]

MCStaleAfter == [idle |-> 2, completed |-> 2]

(* Runs and their instances are alike, and jobs take their names; so are   *)
(* callers.                                                                *)
Symmetry == Permutations(Runs) \cup Permutations(Callers)

vars == <<subject, now, replayVars, indexVars, webhookVars, retentionVars>>

Init ==
  /\ now = 0 /\ ReplayInit /\ IndexInit /\ WebhookInit /\ RetentionInit
  /\ subject \in {"replay", "index", "webhooks", "retention"}
  /\ subject # "replay" => ~lenient

Next ==
  /\ UNCHANGED subject
  /\ \/ /\ subject = "replay" /\ ReplayNext
        /\ UNCHANGED <<now, indexVars, webhookVars, retentionVars>>
     \/ /\ subject = "index" /\ IndexerNext
        /\ UNCHANGED <<now, replayVars, webhookVars, retentionVars>>
     \/ /\ subject = "webhooks" /\ WebhookNext
        /\ UNCHANGED <<now, replayVars, indexVars, retentionVars>>
     \/ /\ subject = "retention" /\ RetentionNext
        /\ UNCHANGED <<replayVars, indexVars, webhookVars>>

Spec == Init /\ [][Next]_vars

(* What must stay is not taken back: by a less trusted copy, by a cleanup  *)
(* of what is in use, by an attempt that comes late.                       *)
NothingIsUndone == [][TrustedCopiesStay /\ InFlightStays /\ AttemptsNeverDowngrade]_vars

=============================================================================
