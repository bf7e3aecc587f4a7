------------------------------- MODULE TeeHashes -------------------------------
(***************************************************************************)
(* The approved TEE code hashes of the registry contract,                  *)
(* contracts/registry/src/lib.rs: registration with an expiry, rotation    *)
(* with a pointer to the replacement, and versions with their log.         *)
(*                                                                         *)
(* A call is one transaction, made by the stored admin wherever the code   *)
(* asks for it; one that fails is an action that is not enabled. The       *)
(* ledger's timestamp and sequence number are one clock.                   *)
(***************************************************************************)
EXTENDS Naturals, Sequences, FiniteSets, FiniteSetsExt, Lists

CONSTANTS
  Hashes,      (* code hashes                                              *)
  NoHash,      (* no hash                                                  *)
  Versions,    (* version numbers                                          *)
  Validity,    (* TEE_HASH_VALIDITY                                        *)
  LastTime,    (* bound: the clock                                         *)
  MaxLog       (* bound: entries of the version history                    *)

ASSUME TeeConstants ==
  /\ NoHash \notin Hashes
  /\ 0 \notin Versions
  /\ Validity \in Nat \ {0}
  /\ LastTime \in Nat
  /\ MaxLog \in Nat

VARIABLES
  now,          (* the ledger                                              *)
  approved,     (* the hashes whose TeeHash entry is true                  *)
  expiry,       (* TeeHashInfo: expires_at, 0 when there is no record      *)
  rotated,      (* TeeHashInfo: the records marked rotated                 *)
  migration,    (* TeeHashMigration                                        *)
  versionInfo,  (* TeeHashVersionInfo, version 0 when there is none        *)
  byVersion,    (* TeeHashesByVersion                                      *)
  versionLog    (* TeeHashVersionHistory                                   *)

recordVars == <<approved, expiry, rotated, migration>>
versionVars == <<versionInfo, byVersion, versionLog>>
teeVars == <<recordVars, versionVars>>

VersionInfo == [version : Versions \cup {0}, deprecated : BOOLEAN]

TeeTypeOK ==
  /\ now \in 0..LastTime
  /\ approved \subseteq Hashes
  /\ expiry \in [Hashes -> Nat]
  /\ rotated \subseteq Hashes
  /\ migration \in [Hashes -> Hashes \cup {NoHash}]
  /\ versionInfo \in [Hashes -> VersionInfo]
  /\ byVersion \in [Versions -> Seq(Hashes)]
  /\ versionLog \in Seq([hash : Hashes, info : VersionInfo])

TeeInit ==
  /\ now = 0
  /\ approved = {}
  /\ expiry = [h \in Hashes |-> 0]
  /\ rotated = {}
  /\ migration = [h \in Hashes |-> NoHash]
  /\ versionInfo = [h \in Hashes |-> [version |-> 0, deprecated |-> FALSE]]
  /\ byVersion = [v \in Versions |-> <<>>]
  /\ versionLog = <<>>

IsTeeHashApproved(h) ==
  h \in approved /\ (expiry[h] = 0 \/ (h \notin rotated /\ now < expiry[h]))

-----------------------------------------------------------------------------
(* Registration and rotation.                                              *)

StillRotated(marked, h) == marked   (* mutant: an existing record keeps its flag *)

(* add_tee_hash_internal writes a new record.                              *)
FreshRecord(marked, h) == marked \ {h}

AddTeeHash(h) ==
  /\ approved' = approved \cup {h}
  /\ expiry' = [expiry EXCEPT ![h] = now + Validity]
  /\ rotated' = FreshRecord(rotated, h)
  /\ UNCHANGED <<now, migration, versionVars>>

(* rotate_tee_hash: the old record is marked before the new one is made,   *)
(* so a hash rotated to itself is only renewed.                            *)
RotateTeeHash(old, new) ==
  /\ expiry[old] # 0
  /\ approved' = approved \cup {new}
  /\ expiry' = [expiry EXCEPT ![new] = now + Validity]
  /\ rotated' = FreshRecord(rotated \cup {old}, new)
  /\ migration' = [migration EXCEPT ![old] = new]
  /\ UNCHANGED <<now, versionVars>>

-----------------------------------------------------------------------------
(* Versions. They set the same flag, and have records of their own.        *)

RecordForgotten(h) == [expiry EXCEPT ![h] = 0]   (* mutant: a version replaces the record *)

RecordKept(h) == expiry

Logged(h, info) == Append(versionLog, [hash |-> h, info |-> info])

AddTeeHashVersion(h, v) ==
  LET info == [version |-> v, deprecated |-> FALSE] IN
  /\ Len(versionLog) < MaxLog
  /\ approved' = approved \cup {h}
  /\ expiry' = RecordKept(h)
  /\ versionInfo' = [versionInfo EXCEPT ![h] = info]
  /\ byVersion' = [byVersion EXCEPT ![v] = With(@, h)]
  /\ versionLog' = Logged(h, info)
  /\ UNCHANGED <<now, rotated, migration>>

UnloggedDeprecation(h, info) == versionLog   (* mutant: only the flag is set *)

LoggedDeprecation(h, info) == Logged(h, info)

DeprecateTeeHash(h) ==
  LET info == [versionInfo[h] EXCEPT !.deprecated = TRUE] IN
  /\ versionInfo[h].version # 0
  /\ Len(versionLog) < MaxLog
  /\ versionInfo' = [versionInfo EXCEPT ![h] = info]
  /\ versionLog' = LoggedDeprecation(h, info)
  /\ UNCHANGED <<now, recordVars, byVersion>>

-----------------------------------------------------------------------------

TeeCall(h) ==
  \/ AddTeeHash(h)
  \/ \E new \in Hashes : RotateTeeHash(h, new)
  \/ \E v \in Versions : AddTeeHashVersion(h, v)
  \/ DeprecateTeeHash(h)

Tick ==
  /\ now < LastTime
  /\ now' = now + 1
  /\ UNCHANGED teeVars

TeeSpec == TeeInit /\ [][Tick \/ \E h \in Hashes : TeeCall(h)]_<<now, teeVars>>

-----------------------------------------------------------------------------
(* Properties.                                                             *)

(* "In-flight verifications can be redirected to the replacement hash":    *)
(* following the pointers from a rotated hash never goes round among       *)
(* rotated hashes, it ends at one that is not rotated. Every set of        *)
(* rotated hashes has one that points out of it.                           *)
MigrationLeadsOut ==
  \A S \in (SUBSET rotated) \ {{}} : \E h \in S : migration[h] \in Hashes \ S

(* A rotated hash is accepted again only by a registration that gives it a *)
(* full validity period, never through a version.                          *)
RotatedStaysRejected ==
  \A h \in rotated : IsTeeHashApproved(h)' => expiry'[h] = now + Validity

(* The version history tells the present: the last entry of a hash is its  *)
(* version and deprecation, and each of its versions lists it once.        *)
VersionHistoryExact ==
  /\ \A h \in Hashes :
       LET mine == {k \in DOMAIN versionLog : versionLog[k].hash = h} IN
       IF mine = {} THEN versionInfo[h].version = 0
       ELSE versionLog[Max(mine)].info = versionInfo[h]
  /\ \A v \in Versions :
       /\ IsInjective(byVersion[v])
       /\ Range(byVersion[v]) =
            {h \in Hashes : \E k \in DOMAIN versionLog :
               versionLog[k].hash = h /\ versionLog[k].info.version = v}

(* The pointers between hashes and the records of their versions are sound.*)
HashesAgree == MigrationLeadsOut /\ VersionHistoryExact

=============================================================================
