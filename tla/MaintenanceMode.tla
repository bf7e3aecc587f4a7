---------------------------- MODULE MaintenanceMode ----------------------------
(***************************************************************************)
(* The maintenance flag, backend/src/maintenance/mode.ts: operators set it *)
(* in the database through one instance or another, and every instance     *)
(* follows by reading it at intervals. Reads and writes of the database    *)
(* are steps of their own, and a read may fail.                            *)
(*                                                                         *)
(* Left out: the message, endsAt and updatedBy, which are only passed on.  *)
(***************************************************************************)
EXTENDS Naturals, FiniteSets

CONSTANTS
  Servers,
  Forced,           (* the instances with MAINTENANCE_MODE set             *)
  NoRead,
  MaxEdits,         (* bound: what operators do                            *)
  MaxReadErrors     (* bound                                               *)

ASSUME ModeConstants == Forced \subseteq Servers /\ {MaxEdits, MaxReadErrors} \subseteq Nat

VARIABLES
  doc,              (* the settings document: [enabled, start, pause]      *)
  mode,             (* per instance, the state it serves                   *)
  refreshing,       (* per instance and caller, the document it read       *)
  editing,          (* per instance, what its operator does: [at, ...]     *)
  edits, readErrors,
  written           (* history: the documents there have been              *)

modeVars == <<doc, mode, refreshing, editing, edits, readErrors, written>>

Refreshers == {"timer", "operator"}

NoFlag == [enabled |-> FALSE, start |-> 0, pause |-> FALSE]

NoEdit == [at |-> "idle", pause |-> FALSE, start |-> 0]

(* resolve: without a stored flag only MAINTENANCE_MODE counts, and it     *)
(* never pauses jobs.                                                      *)
Resolve(i, d) ==
  [source |-> IF d.enabled THEN "operator" ELSE IF i \in Forced THEN "env" ELSE "off",
   start |-> IF d.enabled THEN d.start ELSE 0,
   pause |-> d.enabled /\ d.pause]

ModeInit ==
  /\ doc = NoFlag /\ mode = [i \in Servers |-> Resolve(i, NoFlag)]
  /\ refreshing = [i \in Servers |-> [c \in Refreshers |-> NoRead]]
  /\ editing = [i \in Servers |-> NoEdit]
  /\ edits = 0 /\ readErrors = 0 /\ written = {NoFlag}

-----------------------------------------------------------------------------
(* refresh: the database answers, and what it said is applied later.       *)

ReadFlag(i, c) ==
  /\ refreshing[i][c] = NoRead
  /\ c = "timer" \/ editing[i].at = "written"
  /\ refreshing' = [refreshing EXCEPT ![i][c] = doc]
  /\ UNCHANGED <<doc, mode, editing, edits, readErrors, written>>

StaysOn(i, read) ==   (* mutant: a state set by an operator is never replaced *)
  IF mode[i].source = "operator" THEN mode[i] ELSE Resolve(i, read)

KeepsStart(i, read) ==   (* mutant: the state before is not replaced as a whole *)
  [Resolve(i, read) EXCEPT !.start = IF mode[i].start = 0 THEN @ ELSE mode[i].start]

NextMode(i, read) == Resolve(i, read)

Apply(i, c) ==
  /\ refreshing[i][c] # NoRead
  /\ mode' = [mode EXCEPT ![i] = NextMode(i, refreshing[i][c])]
  /\ refreshing' = [refreshing EXCEPT ![i][c] = NoRead]
  /\ editing' = [editing EXCEPT ![i] = IF c = "operator" THEN NoEdit ELSE @]
  /\ UNCHANGED <<doc, edits, readErrors, written>>

(* The last known state is kept.                                           *)
ReadFails(i, c) ==
  /\ c = "timer" \/ editing[i].at = "written"
  /\ refreshing[i][c] = NoRead /\ readErrors < MaxReadErrors
  /\ readErrors' = readErrors + 1
  /\ editing' = [editing EXCEPT ![i] = IF c = "operator" THEN NoEdit ELSE @]
  /\ UNCHANGED <<doc, mode, refreshing, edits, written>>

-----------------------------------------------------------------------------
(* enable reads the document for the start time it keeps, then writes.     *)

BeginEnable(i, pause) ==
  /\ editing[i].at = "idle" /\ edits < MaxEdits
  /\ edits' = edits + 1
  /\ editing' = [editing EXCEPT ![i] =
       [at |-> "enable", pause |-> pause, start |-> IF doc.enabled THEN doc.start ELSE edits']]
  /\ UNCHANGED <<doc, mode, refreshing, readErrors, written>>

Enable(i) ==
  /\ editing[i].at = "enable"
  /\ doc' = [enabled |-> TRUE, start |-> editing[i].start, pause |-> editing[i].pause]
  /\ written' = written \cup {doc'}
  /\ editing' = [editing EXCEPT ![i].at = "written"]
  /\ UNCHANGED <<mode, refreshing, edits, readErrors>>

PauseStays(d) == [d EXCEPT !.enabled = FALSE]   (* mutant: pauseJobs is not reset *)

Disabled(d) == NoFlag

Disable(i) ==
  /\ editing[i].at = "idle" /\ edits < MaxEdits
  /\ edits' = edits + 1
  /\ doc' = Disabled(doc)
  /\ written' = written \cup {doc'}
  /\ editing' = [editing EXCEPT ![i].at = "written"]
  /\ UNCHANGED <<mode, refreshing, readErrors>>

RefreshStep(i, c) == ReadFlag(i, c) \/ Apply(i, c) \/ ReadFails(i, c)

ModeNext ==
  \E i \in Servers :
    \/ \E c \in Refreshers : RefreshStep(i, c)
    \/ \E pause \in BOOLEAN : BeginEnable(i, pause)
    \/ Enable(i) \/ Disable(i)

(* The interval goes on, and calls of the database end.                    *)
ModeFairness ==
  \A i \in Servers : WF_modeVars(Enable(i)) /\ \A c \in Refreshers : WF_modeVars(RefreshStep(i, c))

-----------------------------------------------------------------------------
(* Properties.                                                             *)

ModeTypeOK ==
  /\ doc \in [enabled : BOOLEAN, start : 0..edits, pause : BOOLEAN] /\ (doc.pause => doc.enabled)
  /\ \A i \in Servers :
       /\ mode[i].source \in {"env", "operator", "off"} /\ mode[i].start \in 0..edits
       /\ editing[i].at \in {"idle", "enable", "written"}
       /\ refreshing[i]["operator"] # NoRead => editing[i].at = "written"

(* What an instance serves is one document that operators have written, as *)
(* a whole and as this instance takes it: never the pause of one and the   *)
(* start of another, however reads by the timer and by operators overlap.  *)
(* It need not be the last one written, or a later one than it served      *)
(* before.                                                                 *)
FlagWasWritten ==
  /\ doc \in written
  /\ \A i \in Servers :
       /\ \E d \in written : mode[i] = Resolve(i, d)
       /\ \A c \in Refreshers : refreshing[i][c] # NoRead => refreshing[i][c] \in written

(* Once operators leave the flag alone every instance comes to serve it,   *)
(* though reads fail and older answers are applied after newer ones.       *)
InstancesFollow == <>[](\A i \in Servers : mode[i] = Resolve(i, doc))

=============================================================================
