---------------------------- MODULE RegistryProofs ----------------------------
(***************************************************************************)
(* Proofs about the registry contract (Registry, TeeHashes): its hashes,   *)
(* its records of providers, and the decisions that stand.                 *)
(***************************************************************************)
EXTENDS Registry, ListProofs

-----------------------------------------------------------------------------
(* The hashes.                                                             *)

LogEntry == [hash : Hashes, info : VersionInfo]

EntriesOf(log, h) == {k \in DOMAIN log : log[k].hash = h}

(* A hash without a record of its expiry is accepted for ever, so that of  *)
(* a rotated one must not be lost.                                         *)
RotatedHaveRecords == \A h \in rotated : expiry[h] # 0

TeeInv == TeeTypeOK /\ HashesAgree /\ RotatedHaveRecords

LEMMA GreatestIs ==
  ASSUME NEW S \in SUBSET Nat, NEW k \in S, \A y \in S : y <= k
  PROVE  Max(S) = k
<1>1. \A y \in S : k >= y
  OBVIOUS
<1>2. \A x \in S : (\A y \in S : x >= y) => x = k
  OBVIOUS
<1> QED BY <1>1, <1>2, Zenon DEF Max

LEMMA GreatestExists ==
  ASSUME NEW n \in Nat, NEW S \in SUBSET (1..n), S # {}
  PROVE  Max(S) \in S
<1> DEFINE T == {b \in Nat : \A y \in S : y <= b}
<1>1. n \in T
  OBVIOUS
<1>2. PICK b \in T : \A c \in T : b <= c
  BY <1>1, LeastNumber
<1>3. b \in S
  <2> SUFFICES ASSUME b \notin S PROVE FALSE
    OBVIOUS
  <2>1. \A y \in S : y \in Nat \ {0} /\ y < b
    BY <1>2
  <2>2. b \in Nat /\ b # 0
    <3>1. PICK y \in S : TRUE
      OBVIOUS
    <3>2. y \in Nat /\ y < b /\ b \in Nat
      BY <1>2, <2>1, <3>1
    <3> QED BY <3>2
  <2>3. b - 1 \in Nat /\ \A y \in S : y <= b - 1
    BY <2>1, <2>2
  <2> QED BY <1>2, <2>2, <2>3
<1>4. \A y \in S : y <= b
  BY <1>2
<1>5. S \subseteq Nat
  OBVIOUS
<1> QED BY <1>3, <1>4, <1>5, GreatestIs

(* A new entry of a hash is its last, and nothing else is touched.         *)
LEMMA NewEntry ==
  ASSUME NEW log \in Seq(LogEntry), NEW e \in LogEntry
  PROVE  LET new == Append(log, e) IN
         /\ new \in Seq(LogEntry)
         /\ Max(EntriesOf(new, e.hash)) = Len(log) + 1 /\ new[Len(log) + 1] = e
         /\ EntriesOf(new, e.hash) # {}
         /\ \A h \in Hashes \ {e.hash} : EntriesOf(new, h) = EntriesOf(log, h)
         /\ DOMAIN new = DOMAIN log \cup {Len(log) + 1}
         /\ \A k \in DOMAIN log : new[k] = log[k]
<1> DEFINE new == Append(log, e)
<1>1. /\ new \in Seq(LogEntry) /\ DOMAIN log = 1..Len(log) /\ Len(log) \in Nat
      /\ DOMAIN new = 1..(Len(log) + 1) /\ new[Len(log) + 1] = e
      /\ \A k \in DOMAIN log : new[k] = log[k]
  OBVIOUS
<1> HIDE DEF new
<1>2. DOMAIN new = DOMAIN log \cup {Len(log) + 1}
  BY <1>1
<1>3. \A h \in Hashes \ {e.hash} : EntriesOf(new, h) = EntriesOf(log, h)
  BY <1>1, <1>2 DEF EntriesOf
<1>4. Len(log) + 1 \in EntriesOf(new, e.hash)
  BY <1>1, <1>2 DEF EntriesOf
<1>5. EntriesOf(new, e.hash) \subseteq 1..(Len(log) + 1)
  BY <1>1 DEF EntriesOf
<1>6. Max(EntriesOf(new, e.hash)) = Len(log) + 1
  BY <1>1, <1>4, <1>5, GreatestIs
<1> QED BY <1>1, <1>2, <1>3, <1>4, <1>6 DEF new

LEMMA LastEntry ==
  ASSUME NEW log \in Seq(LogEntry), NEW h, EntriesOf(log, h) # {}
  PROVE  Max(EntriesOf(log, h)) \in DOMAIN log /\ log[Max(EntriesOf(log, h))].hash = h
<1>1. Len(log) \in Nat /\ EntriesOf(log, h) \subseteq 1..Len(log)
  BY DEF EntriesOf
<1>2. Max(EntriesOf(log, h)) \in EntriesOf(log, h)
  BY <1>1, GreatestExists
<1> QED BY <1>2 DEF EntriesOf

(* versionLog and what is told of it, for one hash.                        *)
TellsLast(h) ==
  IF EntriesOf(versionLog, h) = {} THEN versionInfo[h].version = 0
  ELSE versionLog[Max(EntriesOf(versionLog, h))].info = versionInfo[h]

LoggedWith(v) ==
  {h \in Hashes : \E k \in DOMAIN versionLog : versionLog[k].hash = h /\ versionLog[k].info.version = v}

LEMMA HistoryParts ==
  VersionHistoryExact <=> /\ \A h \in Hashes : TellsLast(h)
                          /\ \A v \in Versions : IsInjective(byVersion[v]) /\ Range(byVersion[v]) = LoggedWith(v)
BY Zenon DEF VersionHistoryExact, TellsLast, LoggedWith, EntriesOf

(* The log grows by an entry of h, and h is told what it says.             *)
LEMMA LoggedStep ==
  ASSUME TeeTypeOK, VersionHistoryExact, NEW h \in Hashes, NEW told \in VersionInfo,
         versionLog' = Logged(h, told), versionInfo' = [versionInfo EXCEPT ![h] = told],
         \A v \in Versions : /\ byVersion'[v] \in Seq(Hashes) /\ IsInjective(byVersion'[v])
                             /\ Range(byVersion'[v]) = LoggedWith(v) \cup IF v = told.version THEN {h} ELSE {}
  PROVE  versionLog' \in Seq(LogEntry) /\ versionInfo' \in [Hashes -> VersionInfo] /\ VersionHistoryExact'
<1> DEFINE e == [hash |-> h, info |-> told]
<1>1. versionLog \in Seq(LogEntry) /\ e \in LogEntry /\ versionInfo \in [Hashes -> VersionInfo]
      /\ versionLog' = Append(versionLog, e) /\ e.hash = h /\ e.info = told
  BY DEF TeeTypeOK, LogEntry, Logged
<1> HIDE DEF e
<1>2. /\ versionLog' \in Seq(LogEntry)
      /\ Max(EntriesOf(versionLog', h)) = Len(versionLog) + 1 /\ versionLog'[Len(versionLog) + 1] = e
      /\ EntriesOf(versionLog', h) # {}
      /\ \A o \in Hashes \ {h} : EntriesOf(versionLog', o) = EntriesOf(versionLog, o)
      /\ DOMAIN versionLog' = DOMAIN versionLog \cup {Len(versionLog) + 1}
      /\ \A k \in DOMAIN versionLog : versionLog'[k] = versionLog[k]
  BY <1>1, NewEntry
<1>3. versionInfo' \in [Hashes -> VersionInfo] /\ versionInfo'[h] = told
      /\ \A o \in Hashes \ {h} : versionInfo'[o] = versionInfo[o]
  BY <1>1
<1>4. ASSUME NEW o \in Hashes PROVE TellsLast(o)'
  <2>1. CASE o = h
    BY <1>1, <1>2, <1>3, <2>1 DEF TellsLast
  <2>2. CASE o # h
    <3>1. TellsLast(o) /\ EntriesOf(versionLog', o) = EntriesOf(versionLog, o) /\ versionInfo'[o] = versionInfo[o]
      BY <1>2, <1>3, <2>2, HistoryParts
    <3>2. EntriesOf(versionLog, o) # {} => Max(EntriesOf(versionLog, o)) \in DOMAIN versionLog
      BY <1>1, LastEntry
    <3> QED BY <1>2, <3>1, <3>2 DEF TellsLast
  <2> QED BY <2>1, <2>2
<1>5. ASSUME NEW v \in Versions PROVE LoggedWith(v)' = LoggedWith(v) \cup IF v = told.version THEN {h} ELSE {}
  <2>1. ASSUME NEW o \in Hashes
        PROVE  (\E k \in DOMAIN versionLog' : versionLog'[k].hash = o /\ versionLog'[k].info.version = v) <=>
               \/ \E k \in DOMAIN versionLog : versionLog[k].hash = o /\ versionLog[k].info.version = v
               \/ o = h /\ v = told.version
    BY <1>1, <1>2
  <2> QED BY <2>1 DEF LoggedWith
<1>6. \A v \in Versions : IsInjective(byVersion[v])' /\ Range(byVersion[v])' = LoggedWith(v)'
  BY <1>5 DEF IsInjective, Range
<1>7. VersionHistoryExact'
  BY <1>4, <1>6, Zenon DEF VersionHistoryExact, TellsLast, LoggedWith, EntriesOf
<1> QED BY <1>2, <1>3, <1>7

LEMMA VersionsUntouched ==
  ASSUME VersionHistoryExact, UNCHANGED versionVars
  PROVE  VersionHistoryExact'
BY DEF VersionHistoryExact, versionVars

(* A record that is renewed is not rotated, so that whatever points to it  *)
(* leads out.                                                              *)
LEMMA RenewedLeadsOut ==
  ASSUME TeeTypeOK, MigrationLeadsOut, NEW old \in Hashes, NEW new \in Hashes,
         \/ rotated' \subseteq rotated /\ migration' = migration
         \/ rotated' = (rotated \cup {old}) \ {new} /\ migration' = [migration EXCEPT ![old] = new]
  PROVE  MigrationLeadsOut'
<1> SUFFICES ASSUME NEW S \in (SUBSET rotated') \ {{}} PROVE \E h \in S : migration'[h] \in Hashes \ S
  BY DEF MigrationLeadsOut
<1>1. rotated \subseteq Hashes /\ migration \in [Hashes -> Hashes \cup {NoHash}]
  BY DEF TeeTypeOK
<1>2. CASE rotated' \subseteq rotated /\ migration' = migration
  BY <1>2 DEF MigrationLeadsOut
<1>3. CASE rotated' = (rotated \cup {old}) \ {new} /\ migration' = [migration EXCEPT ![old] = new]
  <2>1. CASE old \in S
    BY <1>1, <1>3, <2>1
  <2>2. CASE old \notin S
    <3>1. S \in (SUBSET rotated) \ {{}}
      BY <1>3, <2>2
    <3>2. PICK h \in S : migration[h] \in Hashes \ S
      BY <3>1 DEF MigrationLeadsOut
    <3>3. migration'[h] = migration[h]
      BY <1>1, <1>3, <2>2, <3>1, <3>2
    <3> QED BY <3>2, <3>3
  <2> QED BY <2>1, <2>2
<1> QED BY <1>2, <1>3

LEMMA TeeCallStep ==
  ASSUME TeeInv, NEW h \in Hashes, TeeCall(h)
  PROVE  TeeInv'
<1>0. TeeTypeOK /\ MigrationLeadsOut /\ VersionHistoryExact /\ RotatedHaveRecords
  BY DEF TeeInv, HashesAgree
<1>1. now \in Nat /\ Validity \in Nat \ {0} /\ now + Validity \in Nat \ {0}
  BY <1>0, TeeConstants DEF TeeTypeOK
<1>2. CASE AddTeeHash(h)
  <2>1. MigrationLeadsOut' /\ VersionHistoryExact'
    BY <1>0, <1>2, RenewedLeadsOut, VersionsUntouched DEF AddTeeHash, FreshRecord
  <2>2. TeeTypeOK'
    BY <1>0, <1>1, <1>2 DEF TeeTypeOK, AddTeeHash, FreshRecord, versionVars
  <2>3. RotatedHaveRecords'
    BY <1>0, <1>1, <1>2 DEF TeeTypeOK, RotatedHaveRecords, AddTeeHash, FreshRecord
  <2> QED BY <2>1, <2>2, <2>3 DEF TeeInv, HashesAgree
<1>3. ASSUME NEW new \in Hashes, RotateTeeHash(h, new) PROVE TeeInv'
  <2>1. MigrationLeadsOut' /\ VersionHistoryExact'
    BY <1>0, <1>3, RenewedLeadsOut, VersionsUntouched DEF RotateTeeHash, FreshRecord
  <2>2. TeeTypeOK'
    BY <1>0, <1>1, <1>3 DEF TeeTypeOK, RotateTeeHash, FreshRecord, versionVars
  <2>3. RotatedHaveRecords'
    BY <1>0, <1>1, <1>3 DEF TeeTypeOK, RotatedHaveRecords, RotateTeeHash, FreshRecord
  <2> QED BY <2>1, <2>2, <2>3 DEF TeeInv, HashesAgree
<1>4. ASSUME NEW v \in Versions, AddTeeHashVersion(h, v) PROVE TeeInv'
  <2> DEFINE told == [version |-> v, deprecated |-> FALSE]
  <2>1. /\ told \in VersionInfo /\ told.version = v /\ versionLog' = Logged(h, told)
        /\ versionInfo' = [versionInfo EXCEPT ![h] = told]
        /\ byVersion' = [byVersion EXCEPT ![v] = With(@, h)]
        /\ approved' = approved \cup {h} /\ expiry' = expiry /\ UNCHANGED <<now, rotated, migration>>
    BY <1>4 DEF AddTeeHashVersion, VersionInfo, RecordKept
  <2> HIDE DEF told
  <2>2. byVersion \in [Versions -> Seq(Hashes)]
        /\ \A w \in Versions : IsInjective(byVersion[w]) /\ Range(byVersion[w]) = LoggedWith(w)
    BY <1>0, HistoryParts DEF TeeTypeOK
  <2>3. ASSUME NEW w \in Versions
        PROVE  /\ byVersion'[w] \in Seq(Hashes) /\ IsInjective(byVersion'[w])
               /\ Range(byVersion'[w]) = LoggedWith(w) \cup IF w = told.version THEN {h} ELSE {}
    <3>1. CASE w = v
      <4>1. byVersion'[w] = With(byVersion[w], h)
        BY <2>1, <2>2, <3>1
      <4>2. byVersion[w] \in Seq(Hashes) /\ IsInjective(byVersion[w]) /\ Range(byVersion[w]) = LoggedWith(w)
        BY <2>2
      <4> QED BY <2>1, <3>1, <4>1, <4>2, WithElement
    <3>2. CASE w # v
      BY <2>1, <2>2, <3>2
    <3> QED BY <3>1, <3>2
  <2>4. versionLog' \in Seq(LogEntry) /\ versionInfo' \in [Hashes -> VersionInfo] /\ VersionHistoryExact'
    BY <1>0, <2>1, <2>3, LoggedStep
  <2>5. byVersion' \in [Versions -> Seq(Hashes)]
    BY <2>1, <2>2, <2>3
  <2>6. TeeTypeOK' /\ RotatedHaveRecords'
    BY <1>0, <2>1, <2>4, <2>5 DEF TeeTypeOK, RotatedHaveRecords, LogEntry
  <2>7. MigrationLeadsOut'
    BY <1>0, <2>1, RenewedLeadsOut
  <2> QED BY <2>4, <2>6, <2>7 DEF TeeInv, HashesAgree
<1>5. CASE DeprecateTeeHash(h)
  <2> DEFINE told == [versionInfo[h] EXCEPT !.deprecated = TRUE]
  <2>1. /\ versionLog' = Logged(h, told) /\ versionInfo' = [versionInfo EXCEPT ![h] = told]
        /\ versionInfo[h].version # 0 /\ UNCHANGED <<now, approved, expiry, rotated, migration, byVersion>>
    BY <1>5 DEF DeprecateTeeHash, LoggedDeprecation, recordVars
  <2>2. told \in VersionInfo /\ told.version = versionInfo[h].version
    BY <1>0 DEF TeeTypeOK, VersionInfo
  <2> HIDE DEF told
  <2>3. h \in LoggedWith(told.version)
    <3>1. EntriesOf(versionLog, h) # {} /\ versionLog[Max(EntriesOf(versionLog, h))].info = versionInfo[h]
      BY <1>0, <2>1, HistoryParts DEF TellsLast
    <3>2. versionLog \in Seq(LogEntry)
      BY <1>0 DEF TeeTypeOK, LogEntry
    <3>3. Max(EntriesOf(versionLog, h)) \in DOMAIN versionLog
          /\ versionLog[Max(EntriesOf(versionLog, h))].hash = h
      BY <3>1, <3>2, LastEntry
    <3> QED BY <2>2, <3>1, <3>3 DEF LoggedWith
  <2>4. \A w \in Versions :
          /\ byVersion'[w] \in Seq(Hashes) /\ IsInjective(byVersion'[w])
          /\ Range(byVersion'[w]) = LoggedWith(w) \cup IF w = told.version THEN {h} ELSE {}
    BY <1>0, <2>1, <2>3, HistoryParts DEF TeeTypeOK
  <2>5. versionLog' \in Seq(LogEntry) /\ versionInfo' \in [Hashes -> VersionInfo] /\ VersionHistoryExact'
    BY <1>0, <2>1, <2>2, <2>4, LoggedStep
  <2>6. TeeTypeOK' /\ RotatedHaveRecords'
    BY <1>0, <2>1, <2>5 DEF TeeTypeOK, RotatedHaveRecords, LogEntry
  <2>7. MigrationLeadsOut'
    BY <1>0, <2>1, RenewedLeadsOut
  <2> QED BY <2>5, <2>6, <2>7 DEF TeeInv, HashesAgree
<1> QED BY <1>2, <1>3, <1>4, <1>5 DEF TeeCall

LEMMA TeeUntouched ==
  ASSUME TeeInv, now' \in 0..LastTime, UNCHANGED teeVars
  PROVE  TeeInv'
<1>1. UNCHANGED <<approved, expiry, rotated, migration, versionInfo, byVersion, versionLog>>
  BY DEF teeVars, recordVars, versionVars
<1>2. TeeTypeOK' /\ RotatedHaveRecords' /\ MigrationLeadsOut'
  BY <1>1 DEF TeeInv, HashesAgree, TeeTypeOK, RotatedHaveRecords, MigrationLeadsOut
<1>3. VersionHistoryExact'
  BY <1>1, VersionsUntouched DEF TeeInv, HashesAgree, versionVars
<1> QED BY <1>2, <1>3 DEF TeeInv, HashesAgree

LEMMA TeeInitInv == TeeInit => TeeInv
<1> SUFFICES ASSUME TeeInit PROVE TeeInv
  OBVIOUS
<1>1. TeeTypeOK /\ RotatedHaveRecords /\ MigrationLeadsOut
  BY TeeConstants DEF TeeInit, TeeTypeOK, RotatedHaveRecords, MigrationLeadsOut, VersionInfo
<1>2. \A h \in Hashes : TellsLast(h)
  BY DEF TeeInit, TellsLast, EntriesOf
<1>3. \A v \in Versions : IsInjective(byVersion[v]) /\ Range(byVersion[v]) = LoggedWith(v)
  BY DEF TeeInit, IsInjective, Range, LoggedWith
<1> QED BY <1>1, <1>2, <1>3, HistoryParts DEF TeeInv, HashesAgree

(* The TEE hashes of contracts/registry/src/lib.rs, in any number and for  *)
(* any validity: following the pointers from rotated hashes leads to one   *)
(* that is not rotated, and the version history tells the present.         *)
THEOREM HashesStayInAgreement == TeeSpec => []HashesAgree
<1>1. TeeInv /\ [Tick \/ \E h \in Hashes : TeeCall(h)]_<<now, teeVars>> => TeeInv'
  <2> SUFFICES ASSUME TeeInv, [Tick \/ \E h \in Hashes : TeeCall(h)]_<<now, teeVars>> PROVE TeeInv'
    OBVIOUS
  <2>1. CASE \E h \in Hashes : TeeCall(h)
    BY <2>1, TeeCallStep
  <2>2. CASE Tick \/ UNCHANGED <<now, teeVars>>
    <3>1. now' \in 0..LastTime /\ UNCHANGED teeVars
      BY <2>2, TeeConstants DEF Tick, TeeInv, TeeTypeOK
    <3> QED BY <3>1, TeeUntouched
  <2> QED BY <2>1, <2>2
<1>2. TeeInv => HashesAgree
  BY DEF TeeInv
<1> QED BY <1>1, <1>2, TeeInitInv, PTL DEF TeeSpec

-----------------------------------------------------------------------------
(* The providers. In three parts: what their life leaves, what is kept of  *)
(* registered ones, and the groups.                                        *)

(* Listed providers have a ProviderInfo, though one with a ProviderInfo    *)
(* need not be listed; a period of grace is counted from the last request  *)
(* to leave.                                                               *)
LifeInv ==
  /\ registered \subseteq Providers
  /\ info \in [Providers -> {"none", "Active", "Deactivating", "Removed"}]
  /\ graceEnd \in [Providers -> Nat] /\ leaving \in [Providers -> Nat]
  /\ list \in Seq(Providers) /\ IsInjective(list) /\ Range(list) \subseteq registered
  /\ \A p \in Providers : p \in Range(list) => info[p] # "none"
  /\ \A p \in Providers : info[p] \in {"Deactivating", "Removed"} => graceEnd[p] = leaving[p] + GracePeriod
  /\ GraceIsGranted

Application == [key : Providers, status : {"Pending", "Approved", "Rejected"}]

KeptInv ==
  /\ reputation \in [Providers -> Reputation] /\ ScoreIsEarned
  /\ capacity \in [Providers -> [max : Nat, active : Nat]]
  /\ blacklist \subseteq Providers
  /\ applications \in Seq(Application)
  /\ \A p \in Providers \ registered : ~reputation[p].known /\ capacity[p].max = 0
  /\ \A a \in DOMAIN applications :
       applications[a].status = "Approved" => applications[a].key \in registered

GroupInv ==
  /\ members \in Seq(Seq(Providers)) /\ Len(members) <= MaxGroups
  /\ groupsOf \in [Providers -> Seq(1..MaxGroups)]
  /\ \A p \in Providers \ registered : groupsOf[p] = << >>
  /\ GroupsAgree

(* At most one approval, whatever the threshold.                           *)
DecisionInv ==
  /\ proposals \in Seq([from : Nat, executed : BOOLEAN, approvals : 0..1])
  /\ threshold \in Thresholds \cup {1}

RegistryInv == TeeInv /\ LifeInv /\ KeptInv /\ GroupInv /\ DecisionInv

LEMMA LifeUntouched ==
  ASSUME LifeInv, UNCHANGED lifeVars, now' \in Nat, now \in Nat, now <= now'
  PROVE  LifeInv'
<1>1. UNCHANGED <<registered, info, graceEnd, list, leaving>>
  BY DEF lifeVars
<1>2. GraceIsGranted'
  <2>1. \A p \in Providers : leaving[p] + GracePeriod \in Nat
    BY RegistryConstants DEF LifeInv
  <2> QED BY <1>1, <2>1 DEF LifeInv, GraceIsGranted
<1> QED BY <1>1, <1>2 DEF LifeInv

LEMMA KeptUntouched ==
  ASSUME KeptInv, UNCHANGED <<recordsVars, applications>>, registered \subseteq registered'
  PROVE  KeptInv'
<1>1. UNCHANGED <<reputation, capacity, blacklist, applications>>
  BY DEF recordsVars
<1>2. ScoreIsEarned'
  BY <1>1 DEF KeptInv, ScoreIsEarned
<1>3. \A p \in Providers \ registered' : p \in Providers \ registered
  OBVIOUS
<1> QED BY <1>1, <1>2, <1>3 DEF KeptInv

LEMMA GroupsUntouched ==
  ASSUME GroupInv, UNCHANGED groupVars, registered \subseteq registered'
  PROVE  GroupInv'
<1>1. UNCHANGED <<members, groupsOf>>
  BY DEF groupVars
<1>2. GroupsAgree'
  BY <1>1 DEF GroupInv, GroupsAgree
<1> QED BY <1>1, <1>2 DEF GroupInv

LEMMA DecisionsUntouched ==
  ASSUME DecisionInv, UNCHANGED <<proposals, threshold>>
  PROVE  DecisionInv'
BY DEF DecisionInv

LEMMA NowIsNat ==
  ASSUME TeeInv
  PROVE  now \in Nat /\ now <= now
BY TeeConstants DEF TeeInv, TeeTypeOK

(* Whoever adds it, a provider is listed once and keeps the status it has. *)
LEMMA AddInternalKeeps ==
  ASSUME RegistryInv, NEW p \in Providers, AddProviderInternal(p)
  PROVE  /\ LifeInv' /\ GroupInv' /\ TeeInv'
         /\ registered' = registered \cup {p} /\ UNCHANGED <<capacity, blacklist>>
         /\ reputation' \in [Providers -> Reputation] /\ ScoreIsEarned'
         /\ \A q \in Providers \ {p} : reputation'[q] = reputation[q]
<1>0. /\ registered' = registered \cup {p} /\ info' = Introduced(p) /\ list' = ListedWithInfo(p)
      /\ reputation' = Seeded(p)
      /\ UNCHANGED <<now, teeVars, graceEnd, leaving, capacity, blacklist, groupVars>>
  BY DEF AddProviderInternal
<1>1. LifeInv /\ KeptInv /\ GroupInv /\ TeeInv /\ now \in Nat
  BY NowIsNat DEF RegistryInv
<1>2. GroupInv' /\ TeeInv'
  BY <1>0, <1>1, GroupsUntouched, TeeUntouched DEF TeeInv, TeeTypeOK
<1>3. /\ info' \in [Providers -> {"none", "Active", "Deactivating", "Removed"}]
      /\ info'[p] # "none" /\ (info[p] # "none" => info'[p] = info[p])
      /\ (info[p] = "none" => info'[p] = "Active")
      /\ \A q \in Providers \ {p} : info'[q] = info[q]
  BY <1>0, <1>1 DEF Introduced, LifeInv
<1>4. LifeInv'
  <2>1. /\ list' \in Seq(Providers) /\ IsInjective(list') /\ Range(list') \subseteq Range(list) \cup {p}
    BY <1>0, <1>1, AppendElement DEF ListedWithInfo, LifeInv
  <2>2. GraceIsGranted'
    BY <1>0, <1>1, <1>3 DEF LifeInv, GraceIsGranted
  <2> QED BY <1>0, <1>1, <1>3, <2>1, <2>2 DEF LifeInv
<1>5. /\ reputation' \in [Providers -> Reputation] /\ ScoreIsEarned'
      /\ \A q \in Providers \ {p} : reputation'[q] = reputation[q]
  <2> DEFINE half == MaxScore \div 2
             seed == [known |-> TRUE, total |-> 0, ok |-> 0, score |-> half, at |-> now]
  <2>1. half \in Nat /\ half <= half
    BY RegistryConstants
  <2>2. seed \in Reputation /\ seed.total = 0 /\ seed.score = half
    BY <1>1, <2>1 DEF Reputation
  <2>3. reputation' = IF reputation[p].known THEN reputation ELSE [reputation EXCEPT ![p] = seed]
    BY <1>0 DEF Seeded
  <2> HIDE DEF half, seed
  <2>4. /\ reputation' \in [Providers -> Reputation]
        /\ \A q \in Providers : reputation'[q] = reputation[q] \/ reputation'[q] = seed
        /\ \A q \in Providers \ {p} : reputation'[q] = reputation[q]
    BY <1>1, <2>2, <2>3 DEF KeptInv
  <2>5. ScoreIsEarned'
    <3> SUFFICES ASSUME NEW q \in Providers
                 PROVE  reputation'[q].score <= IF reputation'[q].total = 0 THEN half
                          ELSE (reputation'[q].ok * MaxScore) \div reputation'[q].total
      BY DEF ScoreIsEarned, half
    <3>1. CASE reputation'[q] = reputation[q]
      BY <1>1, <3>1 DEF KeptInv, ScoreIsEarned, half
    <3>2. CASE reputation'[q] = seed
      BY <2>1, <2>2, <3>2
    <3> QED BY <2>4, <3>1, <3>2
  <2> QED BY <2>4, <2>5
<1> QED BY <1>0, <1>2, <1>4, <1>5

LEMMA LifeCallStep ==
  ASSUME RegistryInv, NEW p \in Providers, LifeCall(p)
  PROVE  RegistryInv'
<1>1. LifeInv /\ KeptInv /\ GroupInv /\ TeeInv /\ DecisionInv /\ now \in Nat /\ now <= now
  BY NowIsNat DEF RegistryInv
<1>2. CASE AddProvider(p)
  <2>1. AddProviderInternal(p) /\ UNCHANGED <<applications, proposals, threshold>>
    BY <1>2 DEF AddProvider, adminVars
  <2>2. /\ LifeInv' /\ GroupInv' /\ TeeInv'
        /\ registered' = registered \cup {p} /\ UNCHANGED <<capacity, blacklist>>
        /\ reputation' \in [Providers -> Reputation] /\ ScoreIsEarned'
        /\ \A q \in Providers \ {p} : reputation'[q] = reputation[q]
    BY <2>1, AddInternalKeeps
  <2>3. KeptInv'
    BY <1>1, <2>1, <2>2 DEF KeptInv
  <2> QED BY <1>1, <2>1, <2>2, <2>3, DecisionsUntouched DEF RegistryInv
<1>3. ASSUME UNCHANGED <<now, teeVars, registered, list, recordsVars, groupVars, adminVars>>, LifeInv'
      PROVE  RegistryInv'
  <2>1. TeeInv'
    BY <1>1, <1>3, TeeUntouched DEF TeeInv, TeeTypeOK
  <2>2. KeptInv' /\ GroupInv' /\ DecisionInv'
    BY <1>1, <1>3, KeptUntouched, GroupsUntouched, DecisionsUntouched DEF adminVars
  <2> QED BY <1>3, <2>1, <2>2 DEF RegistryInv
<1>4. CASE SetProviderTier(p)
  <2>1. UNCHANGED <<now, teeVars, registered, graceEnd, leaving, list, recordsVars, groupVars, adminVars>>
        /\ info' = Introduced(p)
    BY <1>4 DEF SetProviderTier
  <2>2. /\ info' \in [Providers -> {"none", "Active", "Deactivating", "Removed"}]
        /\ \A q \in Providers : info'[q] = info[q] \/ (info[q] = "none" /\ info'[q] = "Active")
    BY <1>1, <2>1 DEF Introduced, LifeInv
  <2>3. GraceIsGranted'
    BY <1>1, <2>1, <2>2 DEF GraceIsGranted, LifeInv
  <2>4. LifeInv'
    BY <1>1, <2>1, <2>2, <2>3 DEF LifeInv
  <2> QED BY <1>3, <2>1, <2>4
<1>5. CASE DeactivateProvider(p)
  <2> DEFINE end == now + GracePeriod
  <2>1. /\ UNCHANGED <<now, teeVars, registered, list, recordsVars, groupVars, adminVars>>
        /\ info' = [info EXCEPT ![p] = "Deactivating"]
        /\ graceEnd' = [graceEnd EXCEPT ![p] = end] /\ leaving' = [leaving EXCEPT ![p] = now]
    BY <1>5 DEF DeactivateProvider
  <2>2. end \in Nat /\ end = now + GracePeriod
    BY <1>1, RegistryConstants
  <2> HIDE DEF end
  <2>3. /\ info' \in [Providers -> {"none", "Active", "Deactivating", "Removed"}]
        /\ graceEnd' \in [Providers -> Nat] /\ leaving' \in [Providers -> Nat]
        /\ info'[p] = "Deactivating" /\ graceEnd'[p] = end /\ leaving'[p] = now
        /\ \A q \in Providers \ {p} :
             info'[q] = info[q] /\ graceEnd'[q] = graceEnd[q] /\ leaving'[q] = leaving[q]
    BY <1>1, <2>1, <2>2 DEF LifeInv
  <2>4. GraceIsGranted'
    BY <1>1, <2>1, <2>3 DEF GraceIsGranted, LifeInv
  <2>5. \A q \in Providers : info'[q] \in {"Deactivating", "Removed"} => graceEnd'[q] = leaving'[q] + GracePeriod
    BY <1>1, <2>2, <2>3 DEF LifeInv
  <2>6. LifeInv'
    BY <1>1, <2>1, <2>3, <2>4, <2>5 DEF LifeInv
  <2> QED BY <1>3, <2>1, <2>6
<1>6. CASE FinalizeRemoval(p)
  <2>1. /\ UNCHANGED <<now, teeVars, registered, graceEnd, leaving, list, recordsVars, groupVars, adminVars>>
        /\ info[p] = "Deactivating" /\ now >= graceEnd[p]
        /\ info' = [info EXCEPT ![p] = "Removed"]
    BY <1>6 DEF FinalizeRemoval, GraceOver
  <2>2. /\ info' \in [Providers -> {"none", "Active", "Deactivating", "Removed"}]
        /\ info'[p] = "Removed" /\ \A q \in Providers \ {p} : info'[q] = info[q]
    BY <1>1, <2>1 DEF LifeInv
  <2>3. GraceIsGranted'
    BY <1>1, <2>1, <2>2 DEF GraceIsGranted, LifeInv
  <2>4. LifeInv'
    BY <1>1, <2>1, <2>2, <2>3 DEF LifeInv
  <2> QED BY <1>3, <2>1, <2>4
<1> QED BY <1>2, <1>4, <1>5, <1>6 DEF LifeCall

(* A provider's records change, and nothing else does.                     *)
LEMMA RecordsChange ==
  ASSUME RegistryInv, UNCHANGED <<now, teeVars, lifeVars, groupVars, adminVars>>,
         KeptInv'
  PROVE  RegistryInv'
<1>1. LifeInv /\ GroupInv /\ TeeInv /\ DecisionInv /\ now \in Nat /\ now <= now
  BY NowIsNat DEF RegistryInv
<1>2. UNCHANGED registered
  BY DEF lifeVars
<1>3. TeeInv' /\ LifeInv' /\ GroupInv' /\ DecisionInv'
  BY <1>1, <1>2, TeeUntouched, LifeUntouched, GroupsUntouched, DecisionsUntouched DEF TeeInv, TeeTypeOK, adminVars
<1> QED BY <1>3 DEF RegistryInv

LEMMA ReputationChange ==
  ASSUME KeptInv, NEW p \in Providers, reputation[p].known, NEW r \in Reputation,
         reputation' = [reputation EXCEPT ![p] = r],
         r.score <= IF r.total = 0 THEN MaxScore \div 2 ELSE (r.ok * MaxScore) \div r.total,
         UNCHANGED <<capacity, blacklist, applications, registered>>
  PROVE  KeptInv'
<1>1. /\ reputation' \in [Providers -> Reputation] /\ reputation'[p] = r
      /\ \A q \in Providers \ {p} : reputation'[q] = reputation[q]
  BY DEF KeptInv
<1>2. ScoreIsEarned'
  BY <1>1 DEF KeptInv, ScoreIsEarned
<1>3. p \in registered
  BY DEF KeptInv
<1> QED BY <1>1, <1>2, <1>3 DEF KeptInv

LEMMA ShareIsNat ==
  ASSUME NEW ok \in Nat, NEW total \in Nat \ {0}
  PROVE  (ok * MaxScore) \div total \in Nat
<1>1. MaxScore \in Nat
  BY RegistryConstants
<1>2. ok * MaxScore \in Nat
  BY <1>1
<1> DEFINE n == ok * MaxScore
<1> HIDE DEF n
<1>3. n \in Nat => n \div total \in Nat
  OBVIOUS
<1> QED BY <1>2, <1>3 DEF n

LEMMA RecordsCallStep ==
  ASSUME RegistryInv, NEW p \in Providers, RecordsCall(p)
  PROVE  RegistryInv'
<1>1. KeptInv /\ now \in Nat
  BY NowIsNat DEF RegistryInv
<1>2. ASSUME NEW ok \in BOOLEAN, RecordVerificationResult(p, ok) PROVE RegistryInv'
  <2> DEFINE old == reputation[p]
             total == old.total + 1
             good == IF ok THEN old.ok + 1 ELSE old.ok
             score == (good * MaxScore) \div total
             step == [old EXCEPT !.total = total, !.ok = good, !.at = now]
             r == [step EXCEPT !.score = score]
  <2>1. old \in Reputation /\ old.known
    BY <1>1, <1>2 DEF KeptInv, RecordVerificationResult
  <2>2. total \in Nat \ {0} /\ good \in Nat
    BY <2>1 DEF Reputation
  <2> HIDE DEF total, good
  <2>3. score \in Nat /\ score <= score
    BY <2>2, ShareIsNat
  <2>4. reputation' = [reputation EXCEPT ![p] = r]
    <3>1. reputation' = [reputation EXCEPT ![p] = [step EXCEPT !.score = Share(step)]]
      BY <1>2 DEF RecordVerificationResult, total, good
    <3>2. step.total = total /\ step.ok = good
      BY <2>1, <2>2 DEF Reputation
    <3> HIDE DEF step
    <3>3. Share(step) = score
      BY <3>2 DEF Share
    <3> QED BY <3>1, <3>3
  <2>5. UNCHANGED <<now, teeVars, lifeVars, capacity, blacklist, groupVars, adminVars>>
    BY <1>2 DEF RecordVerificationResult
  <2>6. r \in Reputation /\ r.score = score /\ r.total = total /\ r.ok = good
    BY <1>1, <2>1, <2>2, <2>3 DEF Reputation
  <2> HIDE DEF r
  <2>7. KeptInv'
    <3>1. r.score <= IF r.total = 0 THEN MaxScore \div 2 ELSE (r.ok * MaxScore) \div r.total
      BY <2>2, <2>3, <2>6
    <3> QED BY <1>1, <2>1, <2>4, <2>5, <2>6, <3>1, ReputationChange DEF lifeVars, adminVars
  <2> QED BY <2>5, <2>7, RecordsChange
<1>3. CASE ApplyReputationDecay(p)
  <2> DEFINE old == reputation[p]
             periods == (now - old.at) \div DecayPeriod
             score == Less(old.score, DecayAmount * periods)
             r == [old EXCEPT !.score = score, !.at = now]
  <2>1. old \in Reputation /\ old.known /\ periods > 0
    BY <1>1, <1>3 DEF KeptInv, ApplyReputationDecay
  <2>2. reputation' = [reputation EXCEPT ![p] = r]
        /\ UNCHANGED <<now, teeVars, lifeVars, capacity, blacklist, groupVars, adminVars>>
    BY <1>1, <1>3 DEF KeptInv, ApplyReputationDecay
  <2>3. score \in Nat /\ score <= old.score
    <3>1. old.score \in Nat /\ old.at \in Nat
      BY <2>1 DEF Reputation
    <3>2. periods \in Nat
      BY <1>1, <2>1, <3>1, RegistryConstants
    <3> HIDE DEF periods
    <3>3. DecayAmount * periods \in Nat
      BY <3>2, RegistryConstants
    <3> QED BY <3>1, <3>3 DEF Less
  <2> HIDE DEF score
  <2>4. r \in Reputation /\ r.score = score /\ r.total = old.total /\ r.ok = old.ok
    BY <1>1, <2>1, <2>3 DEF Reputation
  <2> HIDE DEF r
  <2>5. r.score <= IF r.total = 0 THEN MaxScore \div 2 ELSE (r.ok * MaxScore) \div r.total
    <3> DEFINE earned == IF old.total = 0 THEN MaxScore \div 2 ELSE (old.ok * MaxScore) \div old.total
    <3>1. old.score <= earned
      BY <1>1 DEF KeptInv, ScoreIsEarned
    <3>2. earned \in Int /\ old.score \in Nat
      <4>1. old.total \in Nat /\ old.ok \in Nat /\ old.score \in Nat
        BY <2>1 DEF Reputation
      <4> QED BY <4>1, ShareIsNat, RegistryConstants
    <3> HIDE DEF earned
    <3>3. score <= earned
      BY <2>3, <3>1, <3>2
    <3> QED BY <2>4, <3>3 DEF earned
  <2>6. KeptInv'
    BY <1>1, <2>1, <2>2, <2>4, <2>5, ReputationChange DEF lifeVars, adminVars
  <2> QED BY <2>2, <2>6, RecordsChange
<1>4. ASSUME UNCHANGED <<now, teeVars, lifeVars, reputation, groupVars, adminVars>>,
             capacity' \in [Providers -> [max : Nat, active : Nat]], blacklist' \subseteq Providers,
             \A q \in Providers \ registered : capacity'[q].max = 0
      PROVE  RegistryInv'
  <2>1. UNCHANGED <<registered, applications>>
    BY <1>4 DEF lifeVars, adminVars
  <2>2. KeptInv'
    BY <1>1, <1>4, <2>1 DEF KeptInv, ScoreIsEarned
  <2> QED BY <1>4, <2>2, RecordsChange
<1>5. ASSUME NEW max \in Limits, SetProviderCapacity(p, max) PROVE RegistryInv'
  <2>1. max \in Nat /\ p \in registered /\ capacity' = [capacity EXCEPT ![p].max = max]
        /\ UNCHANGED <<now, teeVars, lifeVars, reputation, blacklist, groupVars, adminVars>>
    BY <1>5, RegistryConstants DEF SetProviderCapacity, KnownProvider
  <2>2. capacity' \in [Providers -> [max : Nat, active : Nat]]
        /\ \A q \in Providers \ {p} : capacity'[q] = capacity[q]
    BY <1>1, <2>1 DEF KeptInv
  <2> QED BY <1>1, <1>4, <2>1, <2>2 DEF KeptInv
<1>6. ASSUME NEW active \in Nat, capacity' = [capacity EXCEPT ![p].active = active],
             UNCHANGED <<now, teeVars, lifeVars, reputation, blacklist, groupVars, adminVars>>
      PROVE  RegistryInv'
  <2>1. capacity' \in [Providers -> [max : Nat, active : Nat]]
        /\ \A q \in Providers : capacity'[q].max = capacity[q].max
    BY <1>1, <1>6 DEF KeptInv
  <2> QED BY <1>1, <1>4, <1>6, <2>1 DEF KeptInv
<1>7. CASE IncrementActiveRequests(p) \/ DecrementActiveRequests(p)
  <2>1. capacity[p].active \in Nat
    BY <1>1 DEF KeptInv
  <2>2. capacity[p].active + 1 \in Nat /\ Less(capacity[p].active, 1) \in Nat
    BY <2>1 DEF Less
  <2> DEFINE more == capacity[p].active + 1
             less == Less(capacity[p].active, 1)
  <2>3. /\ \/ capacity' = [capacity EXCEPT ![p].active = more]
           \/ capacity' = [capacity EXCEPT ![p].active = less]
        /\ UNCHANGED <<now, teeVars, lifeVars, reputation, blacklist, groupVars, adminVars>>
    BY <1>7 DEF IncrementActiveRequests, DecrementActiveRequests
  <2> HIDE DEF more, less
  <2> QED BY <1>6, <2>2, <2>3 DEF more, less
<1>8. CASE BlacklistProvider(p) \/ WhitelistProvider(p)
  <2>1. blacklist' \subseteq Providers
        /\ UNCHANGED <<now, teeVars, lifeVars, reputation, capacity, groupVars, adminVars>>
    BY <1>1, <1>8 DEF BlacklistProvider, WhitelistProvider, KeptInv
  <2> QED BY <1>1, <1>4, <2>1 DEF KeptInv
<1> QED BY <1>2, <1>3, <1>5, <1>7, <1>8 DEF RecordsCall

-----------------------------------------------------------------------------
(* Groups: the members of a group and the groups of a provider are one     *)
(* relation, kept from both sides.                                         *)

Agree(m, of) ==
  /\ \A g \in DOMAIN m : IsInjective(m[g]) /\ Range(m[g]) = {p \in Providers : g \in Range(of[p])}
  /\ \A p \in Providers : IsInjective(of[p]) /\ Range(of[p]) \subseteq DOMAIN m

(* The two sides change by one pair, which both then hold or both lack.    *)
LEMMA PairChanges ==
  ASSUME GroupInv, NEW g \in DOMAIN members, NEW p \in Providers, NEW here \in BOOLEAN,
         NEW m \in Seq(Providers), NEW of \in Seq(1..MaxGroups),
         IsInjective(m), IsInjective(of),
         Range(m) = IF here THEN Range(members[g]) \cup {p} ELSE Range(members[g]) \ {p},
         Range(of) = IF here THEN Range(groupsOf[p]) \cup {g} ELSE Range(groupsOf[p]) \ {g},
         members' = [members EXCEPT ![g] = m], groupsOf' = [groupsOf EXCEPT ![p] = of],
         p \in registered \/ of = << >>, registered' = registered
  PROVE  GroupInv'
<1>1. /\ members \in Seq(Seq(Providers)) /\ groupsOf \in [Providers -> Seq(1..MaxGroups)]
      /\ \A h \in DOMAIN members :
           IsInjective(members[h]) /\ Range(members[h]) = {q \in Providers : h \in Range(groupsOf[q])}
      /\ \A q \in Providers : IsInjective(groupsOf[q]) /\ Range(groupsOf[q]) \subseteq DOMAIN members
  BY DEF GroupInv, GroupsAgree
<1>2. /\ members' \in Seq(Seq(Providers)) /\ DOMAIN members' = DOMAIN members
      /\ Len(members') = Len(members)
      /\ members'[g] = m /\ \A h \in DOMAIN members \ {g} : members'[h] = members[h]
  BY <1>1
<1>3. /\ groupsOf' \in [Providers -> Seq(1..MaxGroups)]
      /\ groupsOf'[p] = of /\ \A q \in Providers \ {p} : groupsOf'[q] = groupsOf[q]
  BY <1>1
<1>4. \A h \in DOMAIN members, q \in Providers :
        h \in Range(groupsOf'[q]) <=> IF h = g /\ q = p THEN here ELSE h \in Range(groupsOf[q])
  BY <1>3
<1>5. ASSUME NEW h \in DOMAIN members
      PROVE  IsInjective(members'[h]) /\ Range(members'[h]) = {q \in Providers : h \in Range(groupsOf'[q])}
  <2>1. CASE h = g
    BY <1>1, <1>2, <1>4, <2>1
  <2>2. CASE h # g
    BY <1>1, <1>2, <1>4, <2>2
  <2> QED BY <2>1, <2>2
<1>6. ASSUME NEW q \in Providers
      PROVE  IsInjective(groupsOf'[q]) /\ Range(groupsOf'[q]) \subseteq DOMAIN members
  <2>1. CASE q = p
    BY <1>1, <1>3, <2>1
  <2>2. CASE q # p
    BY <1>1, <1>3, <2>2
  <2> QED BY <2>1, <2>2
<1>7. GroupsAgree'
  BY <1>2, <1>5, <1>6 DEF GroupsAgree
<1>8. Len(members') <= MaxGroups /\ \A q \in Providers \ registered' : groupsOf'[q] = << >>
  BY <1>2, <1>3 DEF GroupInv
<1> QED BY <1>2, <1>3, <1>7, <1>8 DEF GroupInv

LEMMA GroupsChange ==
  ASSUME RegistryInv, UNCHANGED <<now, teeVars, lifeVars, recordsVars, adminVars>>, GroupInv'
  PROVE  RegistryInv'
<1>1. LifeInv /\ KeptInv /\ TeeInv /\ DecisionInv /\ now \in Nat /\ now <= now
  BY NowIsNat DEF RegistryInv
<1>2. UNCHANGED <<registered, applications, proposals, threshold>>
  BY DEF lifeVars, adminVars
<1>3. TeeInv' /\ LifeInv' /\ KeptInv' /\ DecisionInv'
  BY <1>1, <1>2, TeeUntouched, LifeUntouched, KeptUntouched, DecisionsUntouched DEF TeeInv, TeeTypeOK
<1> QED BY <1>3 DEF RegistryInv

LEMMA GroupCallStep ==
  ASSUME RegistryInv, NEW p \in Providers,
         \/ CreateProviderGroup
         \/ \E g \in DOMAIN members : AddProviderToGroup(g, p) \/ RemoveProviderFromGroup(g, p)
  PROVE  RegistryInv'
<1>1. GroupInv /\ groupsOf[p] \in Seq(1..MaxGroups) /\ IsInjective(groupsOf[p])
      /\ \A g \in DOMAIN members : /\ g \in 1..MaxGroups /\ members[g] \in Seq(Providers)
                                   /\ IsInjective(members[g])
  BY RegistryConstants DEF RegistryInv, GroupInv, GroupsAgree
<1>2. CASE CreateProviderGroup
  <2>1. /\ Len(members) < MaxGroups /\ members' = Append(members, << >>) /\ groupsOf' = groupsOf
        /\ UNCHANGED <<now, teeVars, lifeVars, recordsVars, adminVars>>
    BY <1>2 DEF CreateProviderGroup
  <2>2. /\ members' \in Seq(Seq(Providers)) /\ Len(members') <= MaxGroups
        /\ DOMAIN members' = DOMAIN members \cup {Len(members) + 1} /\ Len(members) + 1 \notin DOMAIN members
        /\ members'[Len(members) + 1] = << >>
        /\ \A g \in DOMAIN members : members'[g] = members[g]
    BY <1>1, <2>1, RegistryConstants DEF GroupInv
  <2>3. IsInjective(<< >>) /\ Range(<< >>) = {}
    BY DEF IsInjective, Range
  <2>4. GroupsAgree'
    <3>1. \A q \in Providers : IsInjective(groupsOf'[q]) /\ Range(groupsOf'[q]) \subseteq DOMAIN members
      BY <1>1, <2>1 DEF GroupInv, GroupsAgree
    <3>2. ASSUME NEW g \in DOMAIN members
          PROVE  /\ IsInjective(members'[g])
                 /\ Range(members'[g]) = {q \in Providers : g \in Range(groupsOf'[q])}
      BY <1>1, <2>1, <2>2 DEF GroupInv, GroupsAgree
    <3>3. \A q \in Providers : Len(members) + 1 \notin Range(groupsOf'[q])
      BY <2>2, <3>1
    <3> QED BY <2>2, <2>3, <3>1, <3>2, <3>3 DEF GroupsAgree
  <2>5. UNCHANGED registered
    BY <2>1 DEF lifeVars
  <2>6. GroupInv'
    BY <1>1, <2>1, <2>2, <2>4, <2>5 DEF GroupInv
  <2> QED BY <2>1, <2>6, GroupsChange
<1>3. ASSUME NEW g \in DOMAIN members, AddProviderToGroup(g, p) PROVE RegistryInv'
  <2> DEFINE m == Append(members[g], p)
             of == With(groupsOf[p], g)
  <2>1. /\ p \in registered /\ p \notin Range(members[g])
        /\ members' = [members EXCEPT ![g] = m] /\ groupsOf' = [groupsOf EXCEPT ![p] = of]
        /\ UNCHANGED <<now, teeVars, lifeVars, recordsVars, adminVars>>
    BY <1>3 DEF AddProviderToGroup, KnownProvider
  <2>2. m \in Seq(Providers) /\ IsInjective(m) /\ Range(m) = Range(members[g]) \cup {p}
    BY <1>1, <2>1, AppendElement
  <2>3. of \in Seq(1..MaxGroups) /\ IsInjective(of) /\ Range(of) = Range(groupsOf[p]) \cup {g}
    <3> DEFINE S == 1..MaxGroups
    <3>1. g \in S /\ groupsOf[p] \in Seq(S) /\ IsInjective(groupsOf[p])
      BY <1>1
    <3> HIDE DEF S
    <3>2. of \in Seq(S) /\ IsInjective(of) /\ Range(of) = Range(groupsOf[p]) \cup {g}
      BY <3>1, WithElement
    <3> QED BY <3>2 DEF S
  <2> HIDE DEF m, of
  <2>4. GroupInv'
    BY <1>1, <2>1, <2>2, <2>3, PairChanges DEF lifeVars
  <2> QED BY <2>1, <2>4, GroupsChange
<1>4. ASSUME NEW g \in DOMAIN members, RemoveProviderFromGroup(g, p) PROVE RegistryInv'
  <2> DEFINE m == Without(members[g], p)
             of == Without(groupsOf[p], g)
  <2>1. /\ members' = [members EXCEPT ![g] = m] /\ groupsOf' = [groupsOf EXCEPT ![p] = of]
        /\ UNCHANGED <<now, teeVars, lifeVars, recordsVars, adminVars>>
    BY <1>4 DEF RemoveProviderFromGroup, GroupLeft
  <2>2. m \in Seq(Providers) /\ IsInjective(m) /\ Range(m) = Range(members[g]) \ {p}
    BY <1>1, WithoutElement
  <2>3. of \in Seq(1..MaxGroups) /\ IsInjective(of) /\ Range(of) = Range(groupsOf[p]) \ {g}
    BY <1>1, WithoutElement
  <2>4. p \notin registered => of = << >>
    <3> SUFFICES ASSUME p \notin registered PROVE of = << >>
      OBVIOUS
    <3>1. groupsOf[p] = << >>
      BY <1>1 DEF GroupInv
    <3>2. Range(groupsOf[p]) = {}
      BY <3>1 DEF Range
    <3> HIDE DEF of
    <3>3. Range(of) = {}
      BY <2>3, <3>2
    <3>4. DOMAIN of = {}
      BY <3>3 DEF Range
    <3> QED BY <2>3, <3>4
  <2> HIDE DEF m, of
  <2>5. GroupInv'
    BY <1>1, <2>1, <2>2, <2>3, <2>4, PairChanges DEF lifeVars
  <2> QED BY <2>1, <2>5, GroupsChange
<1> QED BY <1>2, <1>3, <1>4

-----------------------------------------------------------------------------
(* Applications and proposals.                                             *)

LEMMA DecisionsChange ==
  ASSUME RegistryInv, UNCHANGED <<now, teeVars, lifeVars, recordsVars, groupVars, applications>>,
         DecisionInv'
  PROVE  RegistryInv'
<1>1. LifeInv /\ KeptInv /\ TeeInv /\ GroupInv /\ now \in Nat /\ now <= now
  BY NowIsNat DEF RegistryInv
<1>2. UNCHANGED registered
  BY DEF lifeVars
<1>3. TeeInv' /\ LifeInv' /\ KeptInv' /\ GroupInv'
  BY <1>1, <1>2, TeeUntouched, LifeUntouched, KeptUntouched, GroupsUntouched DEF TeeInv, TeeTypeOK
<1> QED BY <1>3 DEF RegistryInv

LEMMA ApplyStep ==
  ASSUME RegistryInv, NEW p \in Providers, SubmitProviderApplication(p)
  PROVE  RegistryInv'
<1> DEFINE new == [key |-> p, status |-> "Pending"]
<1>1. /\ applications' = Append(applications, new) /\ new \in Application /\ new.status # "Approved"
      /\ UNCHANGED <<now, teeVars, lifeVars, recordsVars, groupVars, proposals, threshold>>
  BY DEF SubmitProviderApplication, Application
<1> HIDE DEF new
<1>2. LifeInv /\ KeptInv /\ TeeInv /\ GroupInv /\ DecisionInv /\ now \in Nat /\ now <= now
  BY NowIsNat DEF RegistryInv
<1>3. UNCHANGED <<registered, reputation, capacity, blacklist>>
  BY <1>1 DEF lifeVars, recordsVars
<1>4. KeptInv'
  <2>1. /\ applications' \in Seq(Application)
        /\ \A a \in DOMAIN applications' :
             applications'[a] = new \/ (a \in DOMAIN applications /\ applications'[a] = applications[a])
    BY <1>1, <1>2 DEF KeptInv
  <2>2. ScoreIsEarned'
    BY <1>2, <1>3 DEF KeptInv, ScoreIsEarned
  <2> QED BY <1>1, <1>2, <1>3, <2>1, <2>2 DEF KeptInv
<1>5. TeeInv' /\ LifeInv' /\ GroupInv' /\ DecisionInv'
  BY <1>1, <1>2, <1>3, TeeUntouched, LifeUntouched, GroupsUntouched, DecisionsUntouched DEF TeeInv, TeeTypeOK
<1> QED BY <1>4, <1>5 DEF RegistryInv

LEMMA ReviewStep ==
  ASSUME RegistryInv, NEW a \in DOMAIN applications, NEW approve \in BOOLEAN, ReviewApplication(a, approve)
  PROVE  RegistryInv'
<1> DEFINE status == IF approve THEN "Approved" ELSE "Rejected"
           p == applications[a].key
<1>1. LifeInv /\ KeptInv /\ TeeInv /\ GroupInv /\ DecisionInv /\ now \in Nat /\ now <= now
  BY NowIsNat DEF RegistryInv
<1>2. /\ applications' = [applications EXCEPT ![a].status = status] /\ UNCHANGED <<proposals, threshold>>
      /\ approve => AddProviderInternal(p)
      /\ ~approve => UNCHANGED <<now, teeVars, lifeVars, recordsVars, groupVars>>
  BY DEF ReviewApplication
<1>3. /\ applications' \in Seq(Application) /\ DOMAIN applications' = DOMAIN applications
      /\ applications'[a].key = p /\ applications'[a].status = status /\ p \in Providers
      /\ \A b \in DOMAIN applications \ {a} : applications'[b] = applications[b]
  <2>1. applications \in Seq(Application) /\ status \in {"Pending", "Approved", "Rejected"}
    BY <1>1 DEF KeptInv
  <2> HIDE DEF status
  <2> DEFINE e == [applications[a] EXCEPT !.status = status]
  <2>0. applications[a] \in Application
    BY <2>1
  <2>2. e \in Application /\ e.key = p /\ e.status = status /\ p \in Providers
    BY <2>0, <2>1 DEF Application
  <2>3. applications' = [applications EXCEPT ![a] = e]
    BY <1>2
  <2> HIDE DEF e, p
  <2> QED BY <2>1, <2>2, <2>3, ReplacedElement
<1>4. CASE approve
  <2>1. /\ LifeInv' /\ GroupInv' /\ TeeInv'
        /\ registered' = registered \cup {p} /\ UNCHANGED <<capacity, blacklist>>
        /\ reputation' \in [Providers -> Reputation] /\ ScoreIsEarned'
        /\ \A q \in Providers \ {p} : reputation'[q] = reputation[q]
    BY <1>2, <1>3, <1>4, AddInternalKeeps
  <2>2. KeptInv'
    BY <1>1, <1>3, <2>1 DEF KeptInv
  <2> QED BY <1>1, <1>2, <2>1, <2>2, DecisionsUntouched DEF RegistryInv
<1>5. CASE ~approve
  <2>1. UNCHANGED <<registered, reputation, capacity, blacklist>>
    BY <1>2, <1>5 DEF lifeVars, recordsVars
  <2>2. ScoreIsEarned'
    BY <1>1, <2>1 DEF KeptInv, ScoreIsEarned
  <2>3. status # "Approved"
    BY <1>5
  <2>4. KeptInv'
    BY <1>1, <1>3, <2>1, <2>2, <2>3 DEF KeptInv
  <2>5. TeeInv' /\ LifeInv' /\ GroupInv' /\ DecisionInv'
    BY <1>1, <1>2, <1>5, <2>1, TeeUntouched, LifeUntouched, GroupsUntouched, DecisionsUntouched DEF TeeInv, TeeTypeOK
  <2> QED BY <2>4, <2>5 DEF RegistryInv
<1> QED BY <1>4, <1>5

(* What the steps of proposals do, each to one of them.                    *)
Proposal == [from : Nat, executed : BOOLEAN, approvals : 0..1]

LEMMA ProposalsStep ==
  ASSUME RegistryInv,
         \/ \E t \in Thresholds : UpdateMultisigThreshold(t)
         \/ \E l \in Timelocks : ProposeOperation(l)
         \/ \E i \in DOMAIN proposals : ApproveProposal(i) \/ ExecuteProposal(i)
  PROVE  RegistryInv'
<1>1. proposals \in Seq(Proposal) /\ threshold \in Thresholds \cup {1} /\ now \in Nat
  BY NowIsNat DEF RegistryInv, DecisionInv, Proposal
<1>2. DecisionInv'
  <2>1. ASSUME NEW t \in Thresholds, UpdateMultisigThreshold(t) PROVE DecisionInv'
    BY <1>1, <2>1 DEF UpdateMultisigThreshold, DecisionInv, Proposal
  <2>2. ASSUME NEW l \in Timelocks, ProposeOperation(l) PROVE DecisionInv'
    <3> DEFINE from == now + l
    <3>1. from \in Nat /\ proposals' = Append(proposals, [from |-> from, executed |-> FALSE, approvals |-> 0])
          /\ threshold' = threshold
      BY <1>1, <2>2, RegistryConstants DEF ProposeOperation
    <3> HIDE DEF from
    <3>2. [from |-> from, executed |-> FALSE, approvals |-> 0] \in Proposal
      BY <3>1 DEF Proposal
    <3> QED BY <1>1, <3>1, <3>2 DEF DecisionInv, Proposal
  <2>3. ASSUME NEW i \in DOMAIN proposals, ApproveProposal(i) PROVE DecisionInv'
    <3>1. proposals[i].approvals = 0
      BY <2>3 DEF ApproveProposal, NewApproval
    <3>2. proposals' = [proposals EXCEPT ![i].approvals = 1] /\ threshold' = threshold
      BY <2>3, <3>1 DEF ApproveProposal
    <3>3. proposals' \in Seq(Proposal)
      <4>0. proposals[i] \in Proposal
        BY <1>1
      <4>1. [proposals[i] EXCEPT !.approvals = 1] \in Proposal
        BY <4>0 DEF Proposal
      <4> QED BY <1>1, <3>2, <4>1, ReplacedElement
    <3> QED BY <1>1, <3>2, <3>3 DEF DecisionInv, Proposal
  <2>4. ASSUME NEW i \in DOMAIN proposals, ExecuteProposal(i) PROVE DecisionInv'
    <3>1. proposals' = [proposals EXCEPT ![i].executed = TRUE] /\ threshold' = threshold
      BY <2>4 DEF ExecuteProposal
    <3>2. proposals' \in Seq(Proposal)
      <4>0. proposals[i] \in Proposal
        BY <1>1
      <4>1. [proposals[i] EXCEPT !.executed = TRUE] \in Proposal
        BY <4>0 DEF Proposal
      <4> QED BY <1>1, <3>1, <4>1, ReplacedElement
    <3> QED BY <1>1, <3>1, <3>2 DEF DecisionInv, Proposal
  <2> QED BY <2>1, <2>2, <2>3, <2>4
<1>3. UNCHANGED <<now, teeVars, lifeVars, recordsVars, groupVars, applications>>
  BY DEF UpdateMultisigThreshold, ProposeOperation, ApproveProposal, ExecuteProposal
<1> QED BY <1>2, <1>3, DecisionsChange

-----------------------------------------------------------------------------
(* The theorems on the contract.                                           *)

LEMMA RegistryInitInv == RegistryInit => RegistryInv
<1> SUFFICES ASSUME RegistryInit PROVE RegistryInv
  OBVIOUS
<1>1. TeeInv
  BY TeeInitInv DEF RegistryInit
<1>2. IsInjective(<< >>) /\ Range(<< >>) = {}
  BY DEF IsInjective, Range
<1>3. LifeInv
  BY <1>2 DEF RegistryInit, LifeInv, GraceIsGranted
<1>4. KeptInv
  <2> DEFINE half == MaxScore \div 2
  <2>1. half \in Nat
    BY RegistryConstants
  <2> HIDE DEF half
  <2>2. ScoreIsEarned
    BY <2>1 DEF RegistryInit, ScoreIsEarned, half
  <2> QED BY <2>2 DEF RegistryInit, KeptInv, Reputation
<1>5. GroupInv
  <2>1. GroupsAgree
    BY <1>2 DEF RegistryInit, GroupsAgree
  <2> QED BY <2>1, RegistryConstants DEF RegistryInit, GroupInv
<1>6. DecisionInv
  BY DEF RegistryInit, DecisionInv
<1> QED BY <1>1, <1>3, <1>4, <1>5, <1>6 DEF RegistryInv

LEMMA RegistryStep == RegistryInv /\ [RegistryNext]_registryVars => RegistryInv'
<1> SUFFICES ASSUME RegistryInv, [RegistryNext]_registryVars PROVE RegistryInv'
  OBVIOUS
<1>1. /\ TeeInv /\ LifeInv /\ KeptInv /\ GroupInv /\ DecisionInv /\ now \in 0..LastTime
  BY DEF RegistryInv, TeeInv, TeeTypeOK
<1>2. ASSUME TeeInv', now <= now', now' \in Nat, UNCHANGED <<lifeVars, recordsVars, groupVars, adminVars>>
      PROVE  RegistryInv'
  <2>1. UNCHANGED <<registered, applications, proposals, threshold>> /\ now \in Nat
    BY <1>1, <1>2, TeeConstants DEF lifeVars, adminVars
  <2>2. LifeInv' /\ KeptInv' /\ GroupInv' /\ DecisionInv'
    BY <1>1, <1>2, <2>1, LifeUntouched, KeptUntouched, GroupsUntouched, DecisionsUntouched
  <2> QED BY <1>2, <2>2 DEF RegistryInv
<1>3. CASE TeeStep
  <2>1. ASSUME NEW h \in Hashes, TeeCall(h) PROVE TeeInv' /\ now' = now
    BY <1>1, <2>1, TeeCallStep DEF TeeCall, AddTeeHash, RotateTeeHash, AddTeeHashVersion, DeprecateTeeHash
  <2>2. CASE Tick
    <3>1. now' \in 0..LastTime /\ now <= now' /\ now' \in Nat /\ UNCHANGED teeVars
      BY <1>1, <2>2, TeeConstants DEF Tick
    <3> QED BY <1>1, <1>2, <1>3, <3>1, TeeUntouched DEF TeeStep
  <2>3. now <= now /\ now \in Nat
    BY <1>1, NowIsNat
  <2> QED BY <1>2, <1>3, <2>1, <2>2, <2>3 DEF TeeStep
<1>4. ASSUME NEW p \in Providers, RegistryCall(p) PROVE RegistryInv'
  BY <1>4, LifeCallStep, RecordsCallStep, ApplyStep, GroupCallStep DEF RegistryCall
<1>5. CASE CreateProviderGroup
  <2>1. CASE Providers = {}
    <3>1. UNCHANGED <<now, teeVars, lifeVars, recordsVars, adminVars>> /\ groupsOf' = groupsOf
      BY <1>5 DEF CreateProviderGroup
    <3>2. UNCHANGED registered /\ Len(members) < MaxGroups /\ members' = Append(members, << >>)
      BY <1>5, <3>1 DEF lifeVars, CreateProviderGroup
    <3>3. /\ members' \in Seq(Seq(Providers)) /\ Len(members') <= MaxGroups
          /\ DOMAIN members' = DOMAIN members \cup {Len(members) + 1}
          /\ members'[Len(members) + 1] = << >>
          /\ \A g \in DOMAIN members : members'[g] = members[g]
      BY <1>1, <3>2, RegistryConstants DEF GroupInv
    <3>4. IsInjective(<< >>) /\ Range(<< >>) = {}
      BY DEF IsInjective, Range
    <3>5. GroupsAgree'
      BY <1>1, <2>1, <3>3, <3>4 DEF GroupInv, GroupsAgree
    <3>6. GroupInv'
      BY <1>1, <3>1, <3>2, <3>3, <3>5 DEF GroupInv
    <3> QED BY <3>1, <3>6, GroupsChange
  <2>2. CASE Providers # {}
    BY <1>5, <2>2, GroupCallStep
  <2> QED BY <2>1, <2>2
<1>6. CASE AdminCall
  BY <1>6, ReviewStep, ProposalsStep DEF AdminCall
<1>7. CASE UNCHANGED registryVars
  <2>1. UNCHANGED <<now, teeVars, lifeVars, recordsVars, groupVars, adminVars>>
    BY <1>7 DEF registryVars
  <2>2. TeeInv' /\ now <= now' /\ now' \in Nat
    BY <1>1, <2>1, TeeUntouched, NowIsNat
  <2> QED BY <1>2, <2>1, <2>2
<1> QED BY <1>3, <1>4, <1>5, <1>6, <1>7 DEF RegistryNext

LEMMA RegistryInvHolds == RegistrySpec => []RegistryInv
BY RegistryInitInv, RegistryStep, PTL DEF RegistrySpec

(* contracts/registry/src/lib.rs, for any providers, groups, applications  *)
(* and results, in any order: what is kept of a provider is kept of a      *)
(* registered one, groups and providers agree on who is where, nobody is   *)
(* removed before the grace period is over, and no score is better than    *)
(* the share of successes.                                                 *)
THEOREM ProvidersStayInAgreement == RegistrySpec => []ProvidersAgree
<1>1. RegistryInv => ProvidersAgree
  <2> SUFFICES ASSUME RegistryInv PROVE ProvidersAgree
    OBVIOUS
  <2>1. TeeInv /\ LifeInv /\ KeptInv /\ GroupInv /\ DecisionInv
    BY DEF RegistryInv
  <2>2. RegistryTypeOK
    BY <2>1 DEF RegistryTypeOK, TeeInv, LifeInv, KeptInv, GroupInv, DecisionInv, Application
  <2>3. ListedAreRegistered
    <3>1. applications \in Seq(Application)
      BY <2>1 DEF KeptInv
    <3> QED BY <2>1, <3>1 DEF ListedAreRegistered, LifeInv, KeptInv, GroupInv
  <2>4. GroupsAgree /\ GraceIsGranted /\ ScoreIsEarned
    BY <2>1 DEF LifeInv, KeptInv, GroupInv
  <2> QED BY <2>2, <2>3, <2>4 DEF ProvidersAgree
<1> QED BY <1>1, RegistryInvHolds, PTL

(* The same contract: a rotated hash is accepted again only when it is     *)
(* registered for a full period, a provider that began to leave takes no   *)
(* new requests again, and a proposal is executed once, after its timelock *)
(* and with an approval.                                                   *)
THEOREM DecisionsAreFinal == RegistrySpec => DecisionsStand
<1>1. RegistryInv /\ [RegistryNext]_registryVars =>
        [RotatedStaysRejected /\ LeavingIsFinal /\ ExecutionIsGated]_registryVars
  <2> SUFFICES ASSUME RegistryInv, RegistryNext
               PROVE  RotatedStaysRejected /\ LeavingIsFinal /\ ExecutionIsGated
    OBVIOUS
  <2>0. TeeInv /\ LifeInv /\ DecisionInv
    BY DEF RegistryInv
  <2>1. RotatedStaysRejected
    <3> SUFFICES ASSUME NEW h \in rotated, IsTeeHashApproved(h)' PROVE expiry'[h] = now + Validity
      BY DEF RotatedStaysRejected
    <3>1. h \in Hashes /\ expiry[h] # 0 /\ expiry \in [Hashes -> Nat]
      BY <2>0 DEF TeeInv, TeeTypeOK, RotatedHaveRecords
    <3>2. CASE \E o \in Hashes : TeeCall(o)
      <4>1. PICK o \in Hashes : TeeCall(o)
        BY <3>2
      <4>2. CASE AddTeeHash(o)
        BY <3>1, <4>2 DEF AddTeeHash, FreshRecord, IsTeeHashApproved
      <4>3. ASSUME NEW new \in Hashes, RotateTeeHash(o, new) PROVE expiry'[h] = now + Validity
        BY <3>1, <4>3 DEF RotateTeeHash, FreshRecord, IsTeeHashApproved
      <4>4. CASE (\E v \in Versions : AddTeeHashVersion(o, v)) \/ DeprecateTeeHash(o)
        <5>1. UNCHANGED <<expiry, rotated>>
          BY <4>4 DEF AddTeeHashVersion, DeprecateTeeHash, RecordKept, recordVars
        <5> QED BY <3>1, <5>1 DEF IsTeeHashApproved
      <4> QED BY <4>1, <4>2, <4>3, <4>4 DEF TeeCall
    <3>3. CASE ~ \E o \in Hashes : TeeCall(o)
      <4>1. UNCHANGED teeVars
        BY <3>3 DEF RegistryNext, TeeStep, Tick, RegistryCall, LifeCall, RecordsCall, AdminCall,
              AddProvider, AddProviderInternal, SetProviderTier, DeactivateProvider, FinalizeRemoval,
              RecordVerificationResult, ApplyReputationDecay, SetProviderCapacity, IncrementActiveRequests,
              DecrementActiveRequests, BlacklistProvider, WhitelistProvider, SubmitProviderApplication,
              AddProviderToGroup, RemoveProviderFromGroup, CreateProviderGroup, ReviewApplication,
              UpdateMultisigThreshold, ProposeOperation, ApproveProposal, ExecuteProposal
      <4>2. UNCHANGED <<expiry, rotated>>
        BY <4>1 DEF teeVars, recordVars
      <4> QED BY <3>1, <4>2 DEF IsTeeHashApproved
    <3> QED BY <3>2, <3>3
  <2>2. LeavingIsFinal
    <3> SUFFICES ASSUME NEW p \in Providers, info[p] \in {"Deactivating", "Removed"}
                 PROVE  info'[p] # "Active"
      BY DEF LeavingIsFinal, CanAcceptNewRequests
    <3>1. info \in [Providers -> {"none", "Active", "Deactivating", "Removed"}]
      BY <2>0 DEF LifeInv
    <3>2. \/ UNCHANGED info
          \/ \E q : info' = Introduced(q) \/ info' = [info EXCEPT ![q] = "Deactivating"]
                    \/ info' = [info EXCEPT ![q] = "Removed"]
      BY DEF RegistryNext, TeeStep, RegistryCall, LifeCall, RecordsCall, AdminCall, lifeVars,
            AddProvider, AddProviderInternal, SetProviderTier, DeactivateProvider, FinalizeRemoval,
            RecordVerificationResult, ApplyReputationDecay, SetProviderCapacity, IncrementActiveRequests,
            DecrementActiveRequests, BlacklistProvider, WhitelistProvider, SubmitProviderApplication,
            AddProviderToGroup, RemoveProviderFromGroup, CreateProviderGroup, ReviewApplication,
            UpdateMultisigThreshold, ProposeOperation, ApproveProposal, ExecuteProposal
    <3> QED BY <3>1, <3>2 DEF Introduced
  <2>3. ExecutionIsGated
    <3> SUFFICES ASSUME NEW i \in DOMAIN proposals
                 PROVE  /\ proposals[i].executed => proposals'[i] = proposals[i]
                        /\ proposals'[i].executed /\ ~proposals[i].executed =>
                             now >= proposals[i].from /\ threshold = 1 /\ proposals[i].approvals = 1
      BY DEF ExecutionIsGated
    <3>0. proposals \in Seq(Proposal) /\ threshold \in Thresholds \cup {1}
      BY <2>0 DEF DecisionInv, Proposal
    <3>1. proposals \in Seq(Proposal) /\ proposals[i] \in Proposal /\ threshold \in Nat \ {0}
      <4>1. proposals[i] \in Proposal
        BY <3>0
      <4>2. threshold \in Nat \ {0}
        BY <3>0, RegistryConstants
      <4> QED BY <3>0, <4>1, <4>2
    <3>2. \/ UNCHANGED proposals
          \/ \E l \in Timelocks : ProposeOperation(l)
          \/ \E j \in DOMAIN proposals : ApproveProposal(j) \/ ExecuteProposal(j)
      BY DEF RegistryNext, TeeStep, RegistryCall, LifeCall, RecordsCall, AdminCall, adminVars,
            AddProvider, SetProviderTier, DeactivateProvider, FinalizeRemoval,
            RecordVerificationResult, ApplyReputationDecay, SetProviderCapacity, IncrementActiveRequests,
            DecrementActiveRequests, BlacklistProvider, WhitelistProvider, SubmitProviderApplication,
            AddProviderToGroup, RemoveProviderFromGroup, CreateProviderGroup, ReviewApplication,
            UpdateMultisigThreshold
    <3>3. ASSUME NEW l \in Timelocks, ProposeOperation(l) PROVE proposals'[i] = proposals[i]
      BY <3>1, <3>3 DEF ProposeOperation
    <3>4. ASSUME NEW j \in DOMAIN proposals, ApproveProposal(j)
          PROVE  /\ proposals[i].executed => proposals'[i] = proposals[i]
                 /\ proposals'[i].executed = proposals[i].executed
      BY <3>1, <3>4 DEF ApproveProposal, Proposal
    <3>5. ASSUME NEW j \in DOMAIN proposals, ExecuteProposal(j)
          PROVE  IF i = j THEN ~proposals[i].executed /\ now >= proposals[i].from /\ threshold = 1
                               /\ proposals[i].approvals = 1
                 ELSE proposals'[i] = proposals[i]
      BY <3>1, <3>5 DEF ExecuteProposal, Executable, Proposal
    <3> QED BY <3>2, <3>3, <3>4, <3>5
  <2> QED BY <2>1, <2>2, <2>3
<1> QED BY <1>1, RegistryInvHolds, PTL DEF RegistrySpec, DecisionsStand

=============================================================================
