----------------------------- MODULE ServerProofs -----------------------------
(***************************************************************************)
(* Proofs about what the servers keep in step with a store: the flag and   *)
(* the cached reads an instance holds are no further from the database     *)
(* than they may be, the worker's file keeps the jobs that were            *)
(* acknowledged, and upload sessions keep what clients were told.          *)
(***************************************************************************)
EXTENDS MCServer, ListProofs, FiniteSetTheorems

-----------------------------------------------------------------------------
(* The maintenance flag.                                                   *)

Flag == [enabled : BOOLEAN, start : 0..edits, pause : BOOLEAN]

Served == [source : {"env", "operator", "off"}, start : 0..edits, pause : BOOLEAN]

Edit == [at : {"idle", "enable", "written"}, pause : BOOLEAN, start : 0..edits]

ModeInv ==
  /\ edits \in Nat
  /\ doc \in Flag /\ (doc.pause => doc.enabled)
  /\ mode \in [Servers -> Served] /\ editing \in [Servers -> Edit]
  /\ refreshing \in [Servers -> [Refreshers -> Flag \cup {NoRead}]]
  /\ \A i \in Servers : refreshing[i]["operator"] # NoRead => editing[i].at = "written"

LEMMA ResolvedIsServed ==
  ASSUME edits \in Nat, NEW d \in Flag, NEW i
  PROVE  Resolve(i, d) \in Served
BY DEF Flag, Served, Resolve

LEMMA ModeInvInit == ModeInit => ModeInv
<1> SUFFICES ASSUME ModeInit PROVE ModeInv
  OBVIOUS
<1>1. edits = 0 /\ doc = NoFlag /\ NoFlag \in Flag /\ NoEdit \in Edit
  BY DEF ModeInit, NoFlag, NoEdit, Flag, Edit
<1>2. \A i \in Servers : Resolve(i, NoFlag) \in Served
  BY <1>1, ResolvedIsServed
<1>3. mode \in [Servers -> Served] /\ editing \in [Servers -> Edit]
  BY <1>1, <1>2 DEF ModeInit
<1>4. /\ refreshing \in [Servers -> [Refreshers -> Flag \cup {NoRead}]]
      /\ \A i \in Servers : refreshing[i]["operator"] = NoRead
  BY DEF ModeInit, Refreshers
<1>5. edits \in Nat /\ doc \in Flag /\ ~doc.pause
  BY <1>1 DEF NoFlag
<1> QED BY <1>3, <1>4, <1>5 DEF ModeInv

LEMMA ModeInvKept == ModeInv /\ [ModeNext]_modeVars => ModeInv'
<1> SUFFICES ASSUME ModeInv, [ModeNext]_modeVars PROVE ModeInv'
  OBVIOUS
<1>0. CASE UNCHANGED modeVars
  BY <1>0 DEF ModeInv, modeVars, Flag, Served, Edit
<1>1. ASSUME NEW i \in Servers, NEW c \in Refreshers, ReadFlag(i, c) PROVE ModeInv'
  BY <1>1 DEF ModeInv, ReadFlag, Flag, Served, Edit, Refreshers
<1>2. ASSUME NEW i \in Servers, NEW c \in Refreshers, Apply(i, c) PROVE ModeInv'
  <2>1. refreshing[i][c] \in Flag /\ NextMode(i, refreshing[i][c]) \in Served
    BY <1>2, ResolvedIsServed DEF ModeInv, Apply, NextMode
  <2>2. NoEdit \in Edit
    BY DEF NoEdit, Edit, ModeInv
  <2>3. mode' \in [Servers -> Served] /\ editing' \in [Servers -> Edit]
    BY <1>2, <2>1, <2>2 DEF ModeInv, Apply
  <2>4. \A j \in Servers : refreshing'[j]["operator"] # NoRead => editing'[j].at = "written"
    BY <1>2 DEF ModeInv, Apply, Refreshers
  <2>5. refreshing' \in [Servers -> [Refreshers -> Flag \cup {NoRead}]]
    BY <1>2 DEF ModeInv, Apply
  <2> QED BY <1>2, <2>3, <2>4, <2>5 DEF ModeInv, Apply, Flag, Served, Edit
<1>3. ASSUME NEW i \in Servers, NEW c \in Refreshers, ReadFails(i, c) PROVE ModeInv'
  <2>1. NoEdit \in Edit
    BY DEF NoEdit, Edit, ModeInv
  <2>2. editing' \in [Servers -> Edit]
    BY <1>3, <2>1 DEF ModeInv, ReadFails
  <2>3. \A j \in Servers : refreshing'[j]["operator"] # NoRead => editing'[j].at = "written"
    BY <1>3 DEF ModeInv, ReadFails, Refreshers
  <2> QED BY <1>3, <2>2, <2>3 DEF ModeInv, ReadFails, Flag, Served, Edit
<1>4. ASSUME NEW i \in Servers, NEW pause \in BOOLEAN, BeginEnable(i, pause) PROVE ModeInv'
  <2>1. edits' = edits + 1 /\ edits' \in Nat /\ 0..edits \subseteq 0..edits'
    BY <1>4 DEF ModeInv, BeginEnable
  <2>2. Flag \subseteq Flag' /\ Served \subseteq Served' /\ Edit \subseteq Edit'
    BY <2>1 DEF Flag, Served, Edit
  <2> DEFINE begun == [at |-> "enable", pause |-> pause, start |-> IF doc.enabled THEN doc.start ELSE edits']
  <2>3. begun \in Edit'
    <3>1. doc.start \in 0..edits'
      BY <2>1 DEF ModeInv, Flag
    <3> QED BY <2>1, <3>1 DEF Edit
  <2>4. editing' = [editing EXCEPT ![i] = begun] /\ begun.at = "enable"
    BY <1>4 DEF BeginEnable
  <2> HIDE DEF begun
  <2>5. editing' \in [Servers -> Edit']
    BY <2>2, <2>3, <2>4 DEF ModeInv
  <2>6. \A j \in Servers : refreshing'[j]["operator"] # NoRead => editing'[j].at = "written"
    BY <1>4, <2>4 DEF ModeInv, BeginEnable
  <2> QED BY <1>4, <2>1, <2>2, <2>5, <2>6 DEF ModeInv, BeginEnable
<1>5. ASSUME NEW i \in Servers, Enable(i) PROVE ModeInv'
  <2>1. doc' \in Flag /\ (doc'.pause => doc'.enabled)
    BY <1>5 DEF ModeInv, Enable, Flag, Edit
  <2>2. editing' \in [Servers -> Edit]
    BY <1>5 DEF ModeInv, Enable, Edit
  <2>3. \A j \in Servers : refreshing'[j]["operator"] # NoRead => editing'[j].at = "written"
    BY <1>5 DEF ModeInv, Enable
  <2> QED BY <1>5, <2>1, <2>2, <2>3 DEF ModeInv, Enable, Flag, Served, Edit
<1>6. ASSUME NEW i \in Servers, Disable(i) PROVE ModeInv'
  <2>1. edits' = edits + 1 /\ edits' \in Nat /\ 0..edits \subseteq 0..edits'
    BY <1>6 DEF ModeInv, Disable
  <2>2. Flag \subseteq Flag' /\ Served \subseteq Served' /\ Edit \subseteq Edit'
    BY <2>1 DEF Flag, Served, Edit
  <2>3. doc' = NoFlag /\ NoFlag \in Flag'
    BY <1>6, <2>1 DEF Disable, Disabled, NoFlag, Flag
  <2>4. editing' \in [Servers -> Edit']
    <3>1. editing' \in [Servers -> Edit]
      BY <1>6 DEF ModeInv, Disable, Edit
    <3> QED BY <2>2, <3>1
  <2>5. \A j \in Servers : refreshing'[j]["operator"] # NoRead => editing'[j].at = "written"
    BY <1>6 DEF ModeInv, Disable
  <2> QED BY <1>6, <2>1, <2>2, <2>3, <2>4, <2>5 DEF ModeInv, Disable, NoFlag
<1> QED BY <1>0, <1>1, <1>2, <1>3, <1>4, <1>5, <1>6 DEF ModeNext, RefreshStep

(* What is served, and what was read and not yet applied, has been in the  *)
(* database. A step that writes only adds to what has been there.          *)
LEMMA FlagWasWrittenInit == ModeInit => FlagWasWritten
<1> SUFFICES ASSUME ModeInit PROVE FlagWasWritten
  OBVIOUS
<1>1. doc \in written /\ NoFlag \in written
  BY DEF ModeInit
<1>2. \A i \in Servers : mode[i] = Resolve(i, NoFlag)
  BY DEF ModeInit
<1>3. \A i \in Servers : \A c \in Refreshers : refreshing[i][c] = NoRead
  BY DEF ModeInit
<1> QED BY <1>1, <1>2, <1>3 DEF FlagWasWritten

LEMMA WrittenKeeps ==
  ASSUME FlagWasWritten, UNCHANGED <<mode, refreshing>>,
         written \subseteq written', doc' \in written'
  PROVE  FlagWasWritten'
<1>1. ASSUME NEW i \in Servers PROVE \E d \in written' : mode'[i] = Resolve(i, d)
  BY DEF FlagWasWritten
<1>2. ASSUME NEW i \in Servers, NEW c \in Refreshers, refreshing'[i][c] # NoRead
      PROVE  refreshing'[i][c] \in written'
  BY <1>2 DEF FlagWasWritten
<1> QED BY <1>1, <1>2 DEF FlagWasWritten, Resolve

LEMMA FlagWasWrittenKept ==
  ModeInv /\ FlagWasWritten /\ [ModeNext]_modeVars => FlagWasWritten'
<1> SUFFICES ASSUME ModeInv, FlagWasWritten, [ModeNext]_modeVars PROVE FlagWasWritten'
  OBVIOUS
<1>0. CASE UNCHANGED modeVars
  BY <1>0, WrittenKeeps DEF modeVars, FlagWasWritten
<1>1. ASSUME NEW i \in Servers, NEW c \in Refreshers, ReadFlag(i, c) PROVE FlagWasWritten'
  <2>1. UNCHANGED <<doc, mode, written>> /\ doc \in written
    BY <1>1 DEF ReadFlag, FlagWasWritten
  <2>2. \A j \in Servers : \A b \in Refreshers :
          refreshing'[j][b] = refreshing[j][b] \/ refreshing'[j][b] = doc
    BY <1>1 DEF ReadFlag, ModeInv
  <2>3. \A j \in Servers : \E d \in written : mode[j] = Resolve(j, d)
    BY DEF FlagWasWritten
  <2>4. \A j \in Servers : \A b \in Refreshers :
          refreshing[j][b] # NoRead => refreshing[j][b] \in written
    BY DEF FlagWasWritten
  <2> QED BY <2>1, <2>2, <2>3, <2>4 DEF FlagWasWritten, Resolve
<1>2. ASSUME NEW i \in Servers, NEW c \in Refreshers, Apply(i, c) PROVE FlagWasWritten'
  <2>1. UNCHANGED <<doc, written>> /\ refreshing[i][c] \in written
    BY <1>2 DEF Apply, FlagWasWritten
  <2>2. \A j \in Servers : \A b \in Refreshers :
          refreshing'[j][b] = refreshing[j][b] \/ refreshing'[j][b] = NoRead
    BY <1>2 DEF Apply, ModeInv
  <2>3. \A j \in Servers : mode'[j] = mode[j] \/ (j = i /\ mode'[j] = Resolve(i, refreshing[i][c]))
    BY <1>2 DEF Apply, ModeInv, NextMode
  <2>4. \A j \in Servers : \E d \in written : mode'[j] = Resolve(j, d)
    BY <2>1, <2>3 DEF FlagWasWritten
  <2>5. \A j \in Servers : \A b \in Refreshers :
          refreshing[j][b] # NoRead => refreshing[j][b] \in written
    BY DEF FlagWasWritten
  <2> QED BY <2>1, <2>2, <2>4, <2>5 DEF FlagWasWritten, Resolve
<1>3. ASSUME NEW i \in Servers, NEW c \in Refreshers, ReadFails(i, c) PROVE FlagWasWritten'
  BY <1>3, WrittenKeeps DEF ReadFails, FlagWasWritten
<1>4. ASSUME NEW i \in Servers, NEW pause \in BOOLEAN, BeginEnable(i, pause) PROVE FlagWasWritten'
  BY <1>4, WrittenKeeps DEF BeginEnable, FlagWasWritten
<1>5. ASSUME NEW i \in Servers, Enable(i) PROVE FlagWasWritten'
  BY <1>5, WrittenKeeps DEF Enable
<1>6. ASSUME NEW i \in Servers, Disable(i) PROVE FlagWasWritten'
  BY <1>6, WrittenKeeps DEF Disable
<1> QED BY <1>0, <1>1, <1>2, <1>3, <1>4, <1>5, <1>6 DEF ModeNext, RefreshStep

LEMMA ModeIsTyped == ModeInv => ModeTypeOK
BY DEF ModeInv, ModeTypeOK, Flag, Served, Edit

-----------------------------------------------------------------------------
(* The cache of the public reads.                                          *)

Entry == [key : Keys, value : Nat, expires : Nat]

Load == [value : Nat \cup {-1}, since : Nat]

CacheTypes ==
  /\ now \in Nat
  /\ changes \in [Keys -> Seq(Nat)]
  /\ inflight \in [Keys -> Load \cup {NoLoad}]
  /\ entries \in Seq(Entry) /\ Len(entries) <= MaxEntries
  /\ IsInjective(entries) /\ \A e, f \in Range(entries) : e.key = f.key => e = f

(* A status changes twice at most, and no record in the future.            *)
ChangesInOrder ==
  \A k \in Keys :
    /\ k \in StatusKeys => Current(k) <= 2
    /\ \A n \in 1..Current(k) : changes[k][n] <= now

(* A query lasts MaxLoad at most, and missed only what changed during it.  *)
LoadsInTime ==
  \A k \in Keys : inflight[k] # NoLoad =>
    /\ inflight[k].since <= now /\ now <= inflight[k].since + MaxLoad
    /\ inflight[k].value <= Current(k)
    /\ inflight[k].value \in Nat /\ inflight[k].value < Current(k) =>
         inflight[k].since <= changes[k][inflight[k].value + 1]

(* An entry is the truth, or it missed a change shortly before it lapses.  *)
Fresh(e) ==
  /\ e.value <= Current(e.key)
  /\ e.key \in StatusKeys /\ e.value > 0 => e.value = 2
  /\ e.expires <= now + TtlOf(e.value)
  /\ e.value < Current(e.key) =>
       e.expires <= changes[e.key][e.value + 1] + TtlOf(e.value) + MaxLoad

CacheInv ==
  CacheTypes /\ ChangesInOrder /\ LoadsInTime /\ \A e \in Range(entries) : Fresh(e)

LEMMA TtlIsNat == ASSUME NEW value PROVE TtlOf(value) \in Nat
BY CacheConstants DEF TtlOf

LEMMA EntryTyped ==
  ASSUME CacheInv, NEW e \in Range(entries)
  PROVE  e \in Entry /\ e.key \in Keys /\ e.value \in Nat /\ e.expires \in Nat /\ Fresh(e)
<1>1. entries \in Seq(Entry) /\ Fresh(e)
  BY DEF CacheInv, CacheTypes
<1>2. e \in Entry
  BY <1>1 DEF Range
<1> QED BY <1>1, <1>2 DEF Entry

(* What becomes of the entries when nothing else changes.                  *)
LEMMA EntriesReplaced ==
  ASSUME CacheInv, UNCHANGED <<now, changes>>,
         NEW stored \in Seq(Entry), entries' = stored, Len(stored) <= MaxEntries,
         IsInjective(stored), \A e, f \in Range(stored) : e.key = f.key => e = f,
         \A e \in Range(stored) : Fresh(e)
  PROVE  /\ entries' \in Seq(Entry) /\ Len(entries') <= MaxEntries /\ IsInjective(entries')
         /\ \A e, f \in Range(entries') : e.key = f.key => e = f
         /\ \A e \in Range(entries') : Fresh(e)'
<1>1. ASSUME NEW e \in Range(stored) PROVE Fresh(e)'
  BY <1>1 DEF Fresh, Current
<1> QED BY <1>1

LEMMA OthersKept ==
  ASSUME CacheInv, NEW k \in Keys
  PROVE  /\ Others(k) \in Seq(Entry) /\ Len(Others(k)) <= Len(entries)
         /\ EntryOf(k) # {} => Len(Others(k)) < Len(entries)
         /\ IsInjective(Others(k)) /\ Range(Others(k)) = Range(entries) \ EntryOf(k)
         /\ \A e \in Range(Others(k)) : e \in Entry /\ e.key # k
<1>1. entries \in Seq(Entry) /\ IsInjective(entries) /\ Range(entries) \subseteq Entry
  BY DEF CacheInv, CacheTypes, Range
<1>2. EntryOf(k) \cap Range(entries) = EntryOf(k)
  BY DEF EntryOf
<1> QED BY <1>1, <1>2, DroppingElements, DroppingShortens DEF Others, EntryOf

LEMMA CacheInvInit == CacheInit /\ now = 0 => CacheInv
<1> SUFFICES ASSUME CacheInit, now = 0 PROVE CacheInv
  OBVIOUS
<1>1. entries = << >> /\ Range(entries) = {} /\ IsInjective(entries)
  BY DEF CacheInit, Range, IsInjective
<1>2. \A k \in Keys : Current(k) = 0 /\ inflight[k] = NoLoad /\ changes[k] = << >>
  BY DEF CacheInit, Current
<1>3. changes \in [Keys -> Seq(Nat)] /\ inflight \in [Keys -> Load \cup {NoLoad}]
  BY DEF CacheInit
<1>4. CacheTypes
  BY <1>1, <1>3, CacheConstants DEF CacheTypes
<1> QED BY <1>1, <1>2, <1>4 DEF CacheInv, ChangesInOrder, LoadsInTime

(* Appending to the other entries one for k.                               *)
LEMMA EntryAdded ==
  ASSUME CacheInv, NEW k \in Keys, NEW e \in Entry, e.key = k, Fresh(e)
  PROVE  LET stored == Append(Others(k), e) IN
         /\ stored \in Seq(Entry) /\ Len(stored) = Len(Others(k)) + 1 /\ IsInjective(stored)
         /\ \A f, g \in Range(stored) : f.key = g.key => f = g
         /\ \A f \in Range(stored) : Fresh(f)
<1> DEFINE kept == Others(k)
           stored == Append(kept, e)
<1>1. /\ kept \in Seq(Entry) /\ IsInjective(kept) /\ Range(kept) \subseteq Range(entries)
      /\ \A f \in Range(kept) : f \in Entry /\ f.key # k
  BY OthersKept
<1> HIDE DEF kept
<1>2. /\ stored \in Seq(Entry) /\ Len(stored) = Len(kept) + 1
      /\ Range(stored) = Range(kept) \cup {e}
      /\ IsInjective(stored)
  BY <1>1, AppendElement
<1> HIDE DEF stored
<1>3. \A f, g \in Range(stored) : f.key = g.key => f = g
  BY <1>1, <1>2 DEF CacheInv, CacheTypes
<1>4. \A f \in Range(stored) : Fresh(f)
  BY <1>1, <1>2 DEF CacheInv
<1> QED BY <1>2, <1>3, <1>4 DEF stored, kept

LEMMA HitKeeps ==
  ASSUME CacheInv, NEW k \in Keys, Hit(k), UNCHANGED now
  PROVE  CacheInv'
<1>1. PICK e \in EntryOf(k) : entries' = Append(Others(k), e) /\ UNCHANGED <<changes, inflight>>
  BY DEF Hit
<1>2. e \in Entry /\ e.key = k /\ Fresh(e)
  BY <1>1 DEF CacheInv, CacheTypes, EntryOf, Range
<1>3. Len(Others(k)) < Len(entries) /\ Len(entries) <= MaxEntries /\ Len(Others(k)) \in Nat
      /\ Len(entries) \in Nat
  BY <1>1, OthersKept DEF CacheInv, CacheTypes
<1> DEFINE stored == Append(Others(k), e)
<1>4. /\ stored \in Seq(Entry) /\ Len(stored) <= MaxEntries /\ IsInjective(stored)
      /\ \A f, g \in Range(stored) : f.key = g.key => f = g
      /\ \A f \in Range(stored) : Fresh(f)
  BY <1>2, <1>3, EntryAdded, CacheConstants
<1>5. entries' = stored
  BY <1>1
<1> HIDE DEF stored
<1>6. /\ entries' \in Seq(Entry) /\ Len(entries') <= MaxEntries /\ IsInjective(entries')
      /\ \A f, g \in Range(entries') : f.key = g.key => f = g
      /\ \A f \in Range(entries') : Fresh(f)'
  BY <1>1, <1>4, <1>5, EntriesReplaced
<1> QED BY <1>1, <1>6 DEF CacheInv, CacheTypes, ChangesInOrder, LoadsInTime, Current

(* Forgetting the entry of k, and at most noting a query.                  *)
LEMMA EntryForgotten ==
  ASSUME CacheInv, NEW k \in Keys, entries' = Others(k), UNCHANGED <<now, changes>>
  PROVE  /\ entries' \in Seq(Entry) /\ Len(entries') <= MaxEntries /\ IsInjective(entries')
         /\ \A f, g \in Range(entries') : f.key = g.key => f = g
         /\ \A f \in Range(entries') : Fresh(f)'
<1> DEFINE stored == Others(k)
<1>1. /\ stored \in Seq(Entry) /\ Len(stored) <= Len(entries) /\ IsInjective(stored)
      /\ Range(stored) \subseteq Range(entries)
  BY OthersKept
<1> HIDE DEF stored
<1>2. Len(stored) <= MaxEntries
  BY <1>1, CacheConstants DEF CacheInv, CacheTypes
<1>3. /\ \A f, g \in Range(stored) : f.key = g.key => f = g
      /\ \A f \in Range(stored) : Fresh(f)
  BY <1>1 DEF CacheInv, CacheTypes
<1>4. entries' = stored
  BY DEF stored
<1> QED BY <1>1, <1>2, <1>3, <1>4, EntriesReplaced

LEMMA MissKeeps ==
  ASSUME CacheInv, NEW k \in Keys, Miss(k), UNCHANGED now
  PROVE  CacheInv'
<1>1. entries' = Others(k) /\ UNCHANGED changes
      /\ inflight' = [inflight EXCEPT ![k] = IF @ = NoLoad THEN [value |-> -1, since |-> now] ELSE @]
  BY DEF Miss
<1>2. /\ entries' \in Seq(Entry) /\ Len(entries') <= MaxEntries /\ IsInjective(entries')
      /\ \A f, g \in Range(entries') : f.key = g.key => f = g
      /\ \A f \in Range(entries') : Fresh(f)'
  BY <1>1, EntryForgotten
<1> DEFINE load == [value |-> -1, since |-> now]
<1>3. load \in Load /\ load.value = -1 /\ load.since = now /\ now \in Nat
  BY DEF Load, CacheInv, CacheTypes
<1>4. \A j \in Keys : inflight'[j] = inflight[j] \/ inflight'[j] = load
  BY <1>1 DEF CacheInv, CacheTypes
<1> HIDE DEF load
<1>5. inflight' \in [Keys -> Load \cup {NoLoad}]
  BY <1>1, <1>3 DEF CacheInv, CacheTypes, load
<1>6. ASSUME NEW j \in Keys, inflight'[j] # NoLoad
      PROVE  /\ inflight'[j].since <= now /\ now <= inflight'[j].since + MaxLoad
             /\ inflight'[j].value <= Current(j)
             /\ inflight'[j].value \in Nat /\ inflight'[j].value < Current(j) =>
                  inflight'[j].since <= changes[j][inflight'[j].value + 1]
  <2>1. CASE inflight'[j] = inflight[j]
    BY <1>6, <2>1 DEF CacheInv, LoadsInTime
  <2>2. CASE inflight'[j] = load
    <3>1. Current(j) \in Nat
      BY DEF CacheInv, CacheTypes, Current
    <3> QED BY <1>3, <2>2, <3>1, CacheConstants
  <2> QED BY <1>4, <2>1, <2>2
<1>7. LoadsInTime'
  BY <1>1, <1>6 DEF LoadsInTime, Current
<1> QED BY <1>1, <1>2, <1>5, <1>7 DEF CacheInv, CacheTypes, ChangesInOrder, Current

LEMMA QueryKeeps ==
  ASSUME CacheInv, NEW k \in Keys, Query(k), UNCHANGED now
  PROVE  CacheInv'
<1>1. /\ inflight[k] # NoLoad /\ inflight' = [inflight EXCEPT ![k].value = Current(k)]
      /\ UNCHANGED <<changes, entries>>
  BY DEF Query
<1>2. Current(k) \in Nat /\ inflight[k] \in Load
  BY <1>1 DEF CacheInv, CacheTypes, Current
<1>3. inflight' \in [Keys -> Load \cup {NoLoad}]
      /\ inflight'[k].value = Current(k) /\ inflight'[k].since = inflight[k].since
      /\ \A j \in Keys \ {k} : inflight'[j] = inflight[j]
  BY <1>1, <1>2 DEF CacheInv, CacheTypes, Load
<1>4. LoadsInTime'
  <2> SUFFICES ASSUME NEW j \in Keys, inflight'[j] # NoLoad
      PROVE  /\ inflight'[j].since <= now /\ now <= inflight'[j].since + MaxLoad
             /\ inflight'[j].value <= Current(j)
             /\ inflight'[j].value \in Nat /\ inflight'[j].value < Current(j) =>
                  inflight'[j].since <= changes[j][inflight'[j].value + 1]
    BY <1>1 DEF LoadsInTime, Current
  <2>1. CASE j = k
    BY <1>1, <1>2, <1>3, <2>1 DEF CacheInv, LoadsInTime
  <2>2. CASE j # k
    BY <1>3, <2>2 DEF CacheInv, LoadsInTime
  <2> QED BY <2>1, <2>2
<1> QED BY <1>1, <1>3, <1>4 DEF CacheInv, CacheTypes, ChangesInOrder, Fresh, Current

(* A query is over: what is left of the others.                            *)
LEMMA LoadGone ==
  ASSUME CacheInv, NEW k \in Keys, inflight' = [inflight EXCEPT ![k] = NoLoad],
         UNCHANGED <<now, changes>>
  PROVE  inflight' \in [Keys -> Load \cup {NoLoad}] /\ LoadsInTime'
<1>1. /\ inflight' \in [Keys -> Load \cup {NoLoad}]
      /\ inflight'[k] = NoLoad /\ \A j \in Keys \ {k} : inflight'[j] = inflight[j]
  BY DEF CacheInv, CacheTypes
<1> QED BY <1>1 DEF CacheInv, LoadsInTime, Current

LEMMA LoadEndsKeeps ==
  ASSUME CacheInv, NEW k \in Keys, LoadEnds(k), UNCHANGED now
  PROVE  CacheInv'
<1> DEFINE value == inflight[k].value
           e == [key |-> k, value |-> value, expires |-> now + TtlOf(value)]
           stored == Append(Others(k), e)
<1>1. /\ inflight[k] # NoLoad /\ value # -1 /\ UNCHANGED changes
      /\ inflight' = [inflight EXCEPT ![k] = NoLoad]
      /\ entries' = IF TtlOf(value) > 0 /\ (value = 0 \/ Cacheable(k, value))
                    THEN Evicted(stored) ELSE entries
  BY DEF LoadEnds
<1>2. value \in Nat /\ Current(k) \in Nat /\ now \in Nat /\ inflight[k].since \in Nat
  BY <1>1 DEF CacheInv, CacheTypes, Load, Current
<1>3. inflight' \in [Keys -> Load \cup {NoLoad}] /\ LoadsInTime'
  BY <1>1, LoadGone
<1>4. /\ entries' \in Seq(Entry) /\ Len(entries') <= MaxEntries /\ IsInjective(entries')
      /\ \A f, g \in Range(entries') : f.key = g.key => f = g
      /\ \A f \in Range(entries') : Fresh(f)'
  <2>1. CASE entries' = entries
    BY <1>1, <2>1 DEF CacheInv, CacheTypes, Fresh, Current
  <2>2. CASE entries' # entries
    <3>1. entries' = Evicted(stored) /\ (value = 0 \/ Cacheable(k, value))
      BY <1>1, <2>2
    <3>2. /\ inflight[k].since <= now /\ now <= inflight[k].since + MaxLoad
          /\ value <= Current(k)
          /\ value < Current(k) => inflight[k].since <= changes[k][value + 1]
      BY <1>1, <1>2 DEF CacheInv, LoadsInTime
    <3>3. k \in StatusKeys /\ value > 0 => value = 2
      BY <1>2, <3>1, <3>2, CacheConstants DEF Cacheable, CacheInv, ChangesInOrder
    <3>4. TtlOf(value) \in Nat
      BY TtlIsNat
    <3> HIDE DEF value
    <3>5. e \in Entry /\ e.key = k /\ e.value = value /\ e.expires = now + TtlOf(value)
      BY <1>2, <3>4 DEF Entry
    <3> HIDE DEF e
    <3>6. value < Current(k) => changes[k][value + 1] \in Nat
      BY <1>2 DEF CacheInv, CacheTypes, Current
    <3>7. value < Current(k) => now + TtlOf(value) <= changes[k][value + 1] + TtlOf(value) + MaxLoad
      BY <1>2, <3>2, <3>4, <3>6, CacheConstants
    <3>8. Fresh(e)
      BY <1>2, <3>2, <3>3, <3>4, <3>5, <3>7 DEF Fresh
    <3>9. /\ stored \in Seq(Entry) /\ IsInjective(stored)
          /\ \A f, g \in Range(stored) : f.key = g.key => f = g
          /\ \A f \in Range(stored) : Fresh(f)
      BY <3>5, <3>8, EntryAdded
    <3> HIDE DEF stored
    <3> DEFINE u == Evicted(stored)
    <3>10. /\ u \in Seq(Entry) /\ IsInjective(u) /\ Range(u) \subseteq Range(stored) /\ Len(u) <= MaxEntries
      <4>1. Len(stored) \in Nat /\ MaxEntries \in Nat
        BY <3>9, CacheConstants
      <4>2. CASE Len(stored) > MaxEntries
        <5>1. MaxEntries \in 0..Len(stored)
          BY <4>1, <4>2
        <5> QED BY <3>9, <4>1, <4>2, <5>1, LastElements DEF Evicted
      <4>3. CASE ~(Len(stored) > MaxEntries)
        BY <3>9, <4>1, <4>3 DEF Evicted
      <4> QED BY <4>2, <4>3
    <3> HIDE DEF u
    <3>11. /\ \A f, g \in Range(u) : f.key = g.key => f = g
           /\ \A f \in Range(u) : Fresh(f)
      BY <3>9, <3>10
    <3>12. entries' = u
      BY <3>1 DEF u
    <3> QED BY <1>1, <3>10, <3>11, <3>12, EntriesReplaced
  <2> QED BY <2>1, <2>2
<1> QED BY <1>1, <1>3, <1>4 DEF CacheInv, CacheTypes, ChangesInOrder, Current

LEMMA ChangeKeeps ==
  ASSUME CacheInv, NEW k \in Keys, ChangeRecord(k), UNCHANGED now
  PROVE  CacheInv'
<1> DEFINE n == Current(k)
<1>1. /\ (k \in StatusKeys => n < 2)
      /\ changes' = [changes EXCEPT ![k] = Append(@, now)] /\ UNCHANGED <<entries, inflight>>
  BY DEF ChangeRecord
<1>2. n \in Nat /\ now \in Nat /\ changes[k] \in Seq(Nat)
  BY DEF CacheInv, CacheTypes, Current
<1>3. /\ changes' \in [Keys -> Seq(Nat)] /\ changes'[k] = Append(changes[k], now)
      /\ \A j \in Keys \ {k} : changes'[j] = changes[j]
  BY <1>1, <1>2 DEF CacheInv, CacheTypes
<1>4. /\ Len(changes'[k]) = n + 1 /\ changes'[k][n + 1] = now
      /\ \A i \in 1..n : changes'[k][i] = changes[k][i]
  BY <1>2, <1>3 DEF Current
<1>5. Current(k)' = n + 1 /\ \A j \in Keys \ {k} : Len(changes'[j]) = Current(j)
  BY <1>3, <1>4 DEF Current
<1> HIDE DEF n
<1>6. ChangesInOrder'
  <2> SUFFICES ASSUME NEW j \in Keys
               PROVE  /\ j \in StatusKeys => Len(changes'[j]) <= 2
                      /\ \A i \in 1..Len(changes'[j]) : changes'[j][i] <= now
    BY DEF ChangesInOrder, Current
  <2>1. CASE j = k
    BY <1>1, <1>2, <1>4, <2>1 DEF CacheInv, ChangesInOrder, n
  <2>2. CASE j # k
    BY <1>3, <1>5, <2>2 DEF CacheInv, ChangesInOrder
  <2> QED BY <2>1, <2>2
(* What a change adds is later than what was known.                        *)
<1>7. ASSUME NEW j \in Keys, NEW value \in Nat, value <= Current(j)
      PROVE  /\ Current(j) \in Nat /\ Len(changes'[j]) \in Nat
             /\ Current(j) <= Len(changes'[j])
             /\ value < Len(changes'[j]) =>
                  \/ value < Current(j) /\ changes'[j][value + 1] = changes[j][value + 1]
                  \/ value = Current(j) /\ changes'[j][value + 1] = now
  <2>1. CASE j = k
    BY <1>2, <1>4, <1>7, <2>1 DEF n
  <2>2. CASE j # k
    <3>1. Current(j) \in Nat
      BY DEF CacheInv, CacheTypes, Current
    <3> QED BY <1>3, <1>5, <1>7, <2>2, <3>1
  <2> QED BY <2>1, <2>2
<1>8. LoadsInTime'
  <2> SUFFICES ASSUME NEW j \in Keys, inflight[j] # NoLoad
      PROVE  /\ inflight[j].since <= now /\ now <= inflight[j].since + MaxLoad
             /\ inflight[j].value <= Len(changes'[j])
             /\ inflight[j].value \in Nat /\ inflight[j].value < Len(changes'[j]) =>
                  inflight[j].since <= changes'[j][inflight[j].value + 1]
    BY <1>1 DEF LoadsInTime, Current
  <2>1. /\ inflight[j].since <= now /\ now <= inflight[j].since + MaxLoad
        /\ inflight[j].value <= Current(j)
        /\ inflight[j].value \in Nat /\ inflight[j].value < Current(j) =>
             inflight[j].since <= changes[j][inflight[j].value + 1]
    BY DEF CacheInv, LoadsInTime
  <2>2. inflight[j] \in Load
    BY DEF CacheInv, CacheTypes
  <2>3. CASE inflight[j].value \in Nat
    BY <1>7, <2>1, <2>2, <2>3
  <2>4. CASE inflight[j].value = -1
    <3>1. 0 <= Len(changes'[j]) /\ Len(changes'[j]) \in Nat
      BY <1>3
    <3> QED BY <2>1, <2>4, <3>1
  <2> QED BY <2>2, <2>3, <2>4 DEF Load
<1>9. ASSUME NEW e \in Range(entries) PROVE Fresh(e)'
  <2>1. e \in Entry /\ Fresh(e) /\ e.key \in Keys /\ e.value \in Nat /\ e.expires \in Nat
    BY EntryTyped
  <2>2. e.value <= Current(e.key)
    BY <2>1 DEF Fresh
  <2>3. TtlOf(e.value) \in Nat
    BY TtlIsNat
  <2>4. e.value < Len(changes'[e.key]) =>
          e.expires <= changes'[e.key][e.value + 1] + TtlOf(e.value) + MaxLoad
    <3> SUFFICES ASSUME e.value < Len(changes'[e.key])
                 PROVE  e.expires <= changes'[e.key][e.value + 1] + TtlOf(e.value) + MaxLoad
      OBVIOUS
    <3>1. CASE e.value < Current(e.key)
      <4>1. changes'[e.key][e.value + 1] = changes[e.key][e.value + 1]
        BY <1>7, <2>1, <2>2, <3>1
      <4> QED BY <2>1, <3>1, <4>1 DEF Fresh
    <3>2. CASE e.value = Current(e.key)
      <4>1. changes'[e.key][e.value + 1] = now
        BY <1>7, <2>1, <2>2, <3>2
      <4>2. e.expires <= now + TtlOf(e.value)
        BY <2>1 DEF Fresh
      <4> QED BY <1>2, <2>1, <2>3, <4>1, <4>2, CacheConstants
    <3> QED BY <1>7, <2>1, <2>2, <3>1, <3>2
  <2>5. e.value <= Len(changes'[e.key])
    BY <1>7, <2>1, <2>2
  <2> QED BY <2>1, <2>4, <2>5 DEF Fresh, Current
<1> QED BY <1>1, <1>3, <1>6, <1>8, <1>9 DEF CacheInv, CacheTypes

LEMMA CacheTickKeeps ==
  ASSUME CacheInv, CacheTick, UNCHANGED cacheVars
  PROVE  CacheInv'
<1>1. now \in Nat /\ now' = now + 1
      /\ \A k \in Keys : inflight[k] # NoLoad => now < inflight[k].since + MaxLoad
  BY DEF CacheInv, CacheTypes, CacheTick, Tick
<1>2. UNCHANGED <<changes, entries, inflight>>
  BY DEF cacheVars
<1>3. CacheTypes'
  BY <1>1, <1>2 DEF CacheInv, CacheTypes
<1>4. ChangesInOrder'
  <2> SUFFICES ASSUME NEW k \in Keys, NEW n \in 1..Current(k) PROVE changes[k][n] <= now'
    BY <1>2 DEF ChangesInOrder, CacheInv, Current
  <2>1. changes[k][n] <= now /\ changes[k][n] \in Nat
    BY DEF CacheInv, CacheTypes, ChangesInOrder, Current
  <2> QED BY <1>1, <2>1
<1>5. LoadsInTime'
  <2> SUFFICES ASSUME NEW k \in Keys, inflight[k] # NoLoad
               PROVE  inflight[k].since <= now' /\ now' <= inflight[k].since + MaxLoad
    BY <1>2 DEF LoadsInTime, CacheInv, Current
  <2>1. inflight[k].since \in Nat /\ inflight[k].since <= now /\ now < inflight[k].since + MaxLoad
    BY <1>1 DEF CacheInv, CacheTypes, LoadsInTime, Load
  <2> QED BY <1>1, <2>1, CacheConstants
<1>6. ASSUME NEW e \in Range(entries) PROVE Fresh(e)'
  <2>1. e.expires \in Nat /\ e.expires <= now + TtlOf(e.value) /\ TtlOf(e.value) \in Nat /\ Fresh(e)
    BY TtlIsNat, EntryTyped DEF Fresh
  <2>2. e.expires <= now' + TtlOf(e.value)
    BY <1>1, <2>1
  <2> QED BY <1>2, <2>1, <2>2 DEF Fresh, Current
<1> QED BY <1>2, <1>3, <1>4, <1>5, <1>6 DEF CacheInv

LEMMA CacheInvKept == CacheInv /\ [CacheNext]_<<now, cacheVars>> => CacheInv'
<1> SUFFICES ASSUME CacheInv, [CacheNext]_<<now, cacheVars>> PROVE CacheInv'
  OBVIOUS
<1>1. CASE UNCHANGED <<now, cacheVars>>
  BY <1>1 DEF CacheInv, CacheTypes, ChangesInOrder, LoadsInTime, Fresh, Current, cacheVars
<1>2. ASSUME UNCHANGED now, NEW k \in Keys, LoadFails(k) PROVE CacheInv'
  <2>1. inflight' \in [Keys -> Load \cup {NoLoad}] /\ LoadsInTime'
    BY <1>2, LoadGone DEF LoadFails
  <2> QED BY <1>2, <2>1 DEF LoadFails, CacheInv, CacheTypes, ChangesInOrder, Fresh, Current
<1>3. ASSUME UNCHANGED now, NEW k \in Keys, Invalidate(k) PROVE CacheInv'
  <2>1. /\ entries' \in Seq(Entry) /\ Len(entries') <= MaxEntries /\ IsInjective(entries')
        /\ \A f, g \in Range(entries') : f.key = g.key => f = g
        /\ \A f \in Range(entries') : Fresh(f)'
    BY <1>3, EntryForgotten DEF Invalidate
  <2> QED BY <1>3, <2>1 DEF Invalidate, CacheInv, CacheTypes, ChangesInOrder, LoadsInTime, Current
<1>4. ASSUME UNCHANGED now, Clear PROVE CacheInv'
  <2>1. entries' = << >> /\ Range(entries') = {} /\ IsInjective(entries')
    BY <1>4 DEF Clear, Range, IsInjective
  <2>2. Len(entries') <= MaxEntries /\ entries' \in Seq(Entry)
    BY <2>1, CacheConstants
  <2> QED BY <1>4, <2>1, <2>2 DEF Clear, CacheInv, CacheTypes, ChangesInOrder, LoadsInTime, Current
<1>5. CASE CacheTick /\ UNCHANGED cacheVars
  BY <1>5, CacheTickKeeps
<1> QED BY <1>1, <1>2, <1>3, <1>4, <1>5, HitKeeps, MissKeeps, QueryKeeps, LoadEndsKeeps, ChangeKeeps
        DEF CacheNext

LEMMA CacheStaysFresh == CacheInv => CacheIsFresh
<1> SUFFICES ASSUME CacheInv PROVE CacheIsFresh
  OBVIOUS
<1>1. \A e \in Range(entries) : e \in Entry /\ e.key \in Keys /\ e.value \in Nat /\ e.expires \in Nat
  BY EntryTyped
<1>2. ASSUME NEW i \in DOMAIN entries, NEW j \in DOMAIN entries, entries[i].key = entries[j].key
      PROVE  i = j
  BY <1>2 DEF CacheInv, CacheTypes, Range, IsInjective
<1>3. ASSUME NEW k \in Keys, inflight[k] # NoLoad
      PROVE  inflight[k].value \in -1..Current(k) /\ inflight[k].since <= now
  BY <1>3 DEF CacheInv, CacheTypes, LoadsInTime, Load, Current
<1>4. \A k \in Keys : Current(k) \in Nat
  BY DEF CacheInv, CacheTypes, Current
<1>5. CacheTypeOK
  BY <1>1, <1>2, <1>3, <1>4 DEF CacheTypeOK, CacheInv, CacheTypes, Fresh
<1>6. StatusIsFinal
  BY <1>1, <1>4 DEF StatusIsFinal, CacheInv, ChangesInOrder, Fresh
<1>7. ChangeShowsInTime
  <2> SUFFICES ASSUME NEW e \in Range(entries), e.expires > now, e.value < Current(e.key)
      PROVE  now < changes[e.key][e.value + 1] + TtlOf(e.value) + MaxLoad
    BY DEF ChangeShowsInTime, TtlOf
  <2>1. e.expires <= changes[e.key][e.value + 1] + TtlOf(e.value) + MaxLoad
    BY DEF CacheInv, Fresh
  <2>2. e.expires \in Nat /\ now \in Nat /\ TtlOf(e.value) \in Nat /\ MaxLoad \in Nat
        /\ changes[e.key][e.value + 1] \in Nat
    <3>1. e.value + 1 \in 1..Len(changes[e.key]) /\ changes[e.key] \in Seq(Nat)
      BY <1>1, <1>4 DEF CacheInv, CacheTypes, Current
    <3>2. changes[e.key][e.value + 1] \in Nat
      BY <3>1
    <3>3. now \in Nat
      BY DEF CacheInv, CacheTypes
    <3> QED BY <1>1, <3>2, <3>3, TtlIsNat, CacheConstants
  <2> QED BY <2>1, <2>2
<1> QED BY <1>5, <1>6, <1>7 DEF CacheIsFresh

-----------------------------------------------------------------------------
(* What instances hold.                                                    *)

LEMMA StepsOfModules ==
  ASSUME [Next]_vars
  PROVE  /\ [WorkerNext]_workerVars /\ [UploadNext]_uploadVars
         /\ [ModeNext]_modeVars /\ [CacheNext]_<<now, cacheVars>>
BY Zenon DEF Next, vars, others

(* The flag an instance serves is one that has been in the database, as a  *)
(* whole, and it is never paused without maintenance; a cached read is out *)
(* of date for no longer than its time to live and one query; and a cached *)
(* status is final as long as records of a terminal status are not         *)
(* rewritten: for any instances, edits, keys, times and capacities.        *)
THEOREM HeldStaysSound == Spec => []HeldIsSound
<1> DEFINE HeldInv == ModeInv /\ FlagWasWritten /\ CacheInv
<1>1. Init => HeldInv
  BY ModeInvInit, FlagWasWrittenInit, CacheInvInit DEF Init
<1>2. HeldInv /\ [Next]_vars => HeldInv'
  BY StepsOfModules, ModeInvKept, FlagWasWrittenKept, CacheInvKept
<1>3. HeldInv => HeldIsSound
  BY ModeIsTyped, CacheStaysFresh DEF HeldIsSound
<1> QED BY <1>1, <1>2, <1>3, PTL DEF Spec

-----------------------------------------------------------------------------
(* The verification worker: the collection and its file.                   *)

Content == [Uploads -> JobStatus]

Write == [content : Content, by : Uploads \cup Callers]

Known(content) == {j \in Uploads : content[j] # "none"}

(* The file is behind the writes that wait, those in their order behind    *)
(* memory, and nothing that was once in it is gone from what comes after.  *)
FilesGrow ==
  /\ memory \in Content /\ disk \in Content /\ writes \in Seq(Write)
  /\ created \in Seq(Uploads) /\ IsInjective(created) /\ writeErrors \in Nat
  /\ Known(memory) \subseteq Range(created) /\ acked \subseteq Known(disk)
  /\ Known(disk) \subseteq Known(memory)
  /\ \A i \in DOMAIN writes :
       /\ Known(disk) \subseteq Known(writes[i].content)
       /\ Known(writes[i].content) \subseteq Known(memory)
       /\ writes[i].by \in Uploads => writes[i].by \in Known(writes[i].content)
       /\ \A k \in DOMAIN writes : i < k => Known(writes[i].content) \subseteq Known(writes[k].content)
  /\ writes # << >> => writes[Len(writes)].content = memory
  /\ writes = << >> /\ writeErrors = 0 => disk = memory

(* What is appended is what memory is then.                                *)
LEMMA PutGrows ==
  ASSUME FilesGrow, NEW j \in Uploads, NEW status \in JobStatus \ {"none"}, NEW by \in Uploads \cup Callers,
         Put(j, status, by), by \in Uploads => by = j,
         created' \in Seq(Uploads), IsInjective(created'), Range(created) \cup {j} \subseteq Range(created'),
         UNCHANGED <<disk, acked, writeErrors>>
  PROVE  FilesGrow'
<1> DEFINE w == [content |-> memory', by |-> by]
<1>1. /\ memory' \in Content /\ Known(memory') = Known(memory) \cup {j}
      /\ writes' = Append(writes, w)
  BY DEF Put, Queued, FilesGrow, Content, Known
<1>2. w \in Write /\ w.content = memory' /\ w.by = by
  BY <1>1 DEF Write
<1> HIDE DEF w
<1>3. /\ writes' \in Seq(Write) /\ Len(writes') = Len(writes) + 1 /\ writes'[Len(writes) + 1] = w
      /\ DOMAIN writes' = 1..(Len(writes) + 1) /\ DOMAIN writes = 1..Len(writes) /\ Len(writes) \in Nat
      /\ \A i \in DOMAIN writes : writes'[i] = writes[i]
  BY <1>1, <1>2 DEF FilesGrow
<1>4. ASSUME NEW i \in DOMAIN writes'
      PROVE  /\ Known(disk) \subseteq Known(writes'[i].content)
             /\ Known(writes'[i].content) \subseteq Known(memory')
             /\ writes'[i].by \in Uploads => writes'[i].by \in Known(writes'[i].content)
             /\ \A k \in DOMAIN writes' :
                  i < k => Known(writes'[i].content) \subseteq Known(writes'[k].content)
  <2>1. CASE i = Len(writes) + 1
    <3>1. \A k \in DOMAIN writes' : ~(i < k)
      BY <1>3, <2>1
    <3> QED BY <1>1, <1>2, <1>3, <2>1, <3>1 DEF FilesGrow
  <2>2. CASE i # Len(writes) + 1
    <3>1. i \in DOMAIN writes /\ writes'[i] = writes[i]
      BY <1>3, <2>2
    <3>2. ASSUME NEW k \in DOMAIN writes', i < k
          PROVE  Known(writes[i].content) \subseteq Known(writes'[k].content)
      <4>1. CASE k = Len(writes) + 1
        BY <1>1, <1>2, <1>3, <3>1, <4>1 DEF FilesGrow
      <4>2. CASE k # Len(writes) + 1
        <5>1. k \in DOMAIN writes /\ writes'[k] = writes[k]
          BY <1>3, <4>2
        <5> QED BY <3>1, <3>2, <5>1 DEF FilesGrow
      <4> QED BY <4>1, <4>2
    <3> QED BY <1>1, <3>1, <3>2 DEF FilesGrow
  <2> QED BY <2>1, <2>2
<1>5. writes' # << >>
  BY <1>3
<1>6. Known(memory') \subseteq Range(created') /\ acked \subseteq Known(disk)
      /\ Known(disk) \subseteq Known(memory')
  BY <1>1 DEF FilesGrow
<1> QED BY <1>1, <1>2, <1>3, <1>4, <1>5, <1>6 DEF FilesGrow

(* The tail of the writes.                                                 *)
LEMMA TailOfWrites ==
  ASSUME NEW S, NEW s \in Seq(S), s # << >>
  PROVE  /\ Tail(s) \in Seq(S) /\ Len(Tail(s)) = Len(s) - 1 /\ Head(s) = s[1]
         /\ Len(s) \in Nat \ {0} /\ 1 \in DOMAIN s /\ DOMAIN s = 1..Len(s)
         /\ DOMAIN Tail(s) = 1..(Len(s) - 1)
         /\ \A i \in DOMAIN Tail(s) : i + 1 \in DOMAIN s /\ Tail(s)[i] = s[i + 1]
OBVIOUS

LEMMA WriteLeaves ==
  ASSUME FilesGrow, writes # << >>, NEW file \in {disk, Head(writes).content}
  PROVE  LET rest == Tail(writes) IN
         /\ rest \in Seq(Write) /\ Head(writes) \in Write
         /\ Known(disk) \subseteq Known(file) /\ Known(file) \subseteq Known(memory)
         /\ \A i \in DOMAIN rest :
              /\ Known(file) \subseteq Known(rest[i].content)
              /\ Known(rest[i].content) \subseteq Known(memory)
              /\ rest[i].by \in Uploads => rest[i].by \in Known(rest[i].content)
              /\ \A k \in DOMAIN rest : i < k => Known(rest[i].content) \subseteq Known(rest[k].content)
         /\ rest # << >> => rest[Len(rest)].content = memory
         /\ rest = << >> => Head(writes).content = memory
<1> DEFINE rest == Tail(writes)
<1>1. /\ writes \in Seq(Write) /\ rest \in Seq(Write) /\ Len(rest) = Len(writes) - 1
      /\ Head(writes) = writes[1] /\ Len(writes) \in Nat \ {0} /\ 1 \in DOMAIN writes
      /\ DOMAIN writes = 1..Len(writes) /\ DOMAIN rest = 1..(Len(writes) - 1)
      /\ \A i \in DOMAIN rest : i + 1 \in DOMAIN writes /\ rest[i] = writes[i + 1]
  BY TailOfWrites DEF FilesGrow
<1>2. Head(writes) \in Write
  BY <1>1
<1> HIDE DEF rest
<1>3. Known(disk) \subseteq Known(file) /\ Known(file) \subseteq Known(memory)
  BY <1>1 DEF FilesGrow
<1>4. ASSUME NEW i \in DOMAIN rest
      PROVE  /\ Known(file) \subseteq Known(rest[i].content)
             /\ Known(rest[i].content) \subseteq Known(memory)
             /\ rest[i].by \in Uploads => rest[i].by \in Known(rest[i].content)
             /\ \A k \in DOMAIN rest : i < k => Known(rest[i].content) \subseteq Known(rest[k].content)
  <2>1. i + 1 \in DOMAIN writes /\ rest[i] = writes[i + 1] /\ 1 < i + 1
    BY <1>1
  <2>2. \A k \in DOMAIN rest : i < k => i + 1 < k + 1
    BY <1>1
  <2> QED BY <1>1, <2>1, <2>2 DEF FilesGrow
<1>5. rest # << >> => rest[Len(rest)].content = memory
  <2> SUFFICES ASSUME rest # << >> PROVE rest[Len(rest)].content = memory
    OBVIOUS
  <2>1. Len(rest) \in DOMAIN rest /\ Len(rest) + 1 = Len(writes)
    BY <1>1
  <2> QED BY <1>1, <2>1 DEF FilesGrow
<1>6. rest = << >> => Head(writes).content = memory
  <2> SUFFICES ASSUME rest = << >> PROVE Head(writes).content = memory
    OBVIOUS
  <2>1. Len(writes) = 1
    BY <1>1
  <2> QED BY <1>1, <2>1 DEF FilesGrow
<1> QED BY <1>1, <1>2, <1>3, <1>4, <1>5, <1>6 DEF rest

LEMMA WriteDoneGrows ==
  ASSUME FilesGrow, WriteDone
  PROVE  FilesGrow'
<1> DEFINE head == Head(writes)
           rest == Tail(writes)
<1>1. /\ writes # << >> /\ disk' = head.content /\ writes' = rest
      /\ acked' = IF head.by \in Uploads THEN acked \cup {head.by} ELSE acked
      /\ UNCHANGED <<memory, created, writeErrors>>
  BY DEF WriteDone
<1> DEFINE file == head.content
<1>2. /\ rest \in Seq(Write) /\ head \in Write
      /\ Known(disk) \subseteq Known(file) /\ Known(file) \subseteq Known(memory)
      /\ \A i \in DOMAIN rest :
           /\ Known(file) \subseteq Known(rest[i].content)
           /\ Known(rest[i].content) \subseteq Known(memory)
           /\ rest[i].by \in Uploads => rest[i].by \in Known(rest[i].content)
           /\ \A k \in DOMAIN rest : i < k => Known(rest[i].content) \subseteq Known(rest[k].content)
      /\ rest # << >> => rest[Len(rest)].content = memory
      /\ rest = << >> => file = memory
  BY <1>1, WriteLeaves
<1>3. head.by \in Uploads => head.by \in Known(file)
  <2>1. head = writes[1] /\ 1 \in DOMAIN writes
    BY <1>1, TailOfWrites DEF FilesGrow
  <2> QED BY <2>1 DEF FilesGrow
<1>4. file \in Content
  BY <1>2 DEF Write
<1> HIDE DEF head, rest, file
<1>5. acked' \subseteq Known(disk')
  BY <1>1, <1>2, <1>3 DEF FilesGrow, file
<1>6. disk' = file
  BY <1>1 DEF file
<1> QED BY <1>1, <1>2, <1>4, <1>5, <1>6 DEF FilesGrow

LEMMA WriteFailsGrows ==
  ASSUME FilesGrow, WriteFails, task[Worker].at = "certify" => task[Worker].job \in Known(memory)
  PROVE  FilesGrow'
<1> DEFINE head == Head(writes)
           rest == Tail(writes)
<1>1. /\ writes # << >> /\ writeErrors' = writeErrors + 1
      /\ UNCHANGED <<disk, created, acked>>
  BY DEF WriteFails
<1>2. /\ rest \in Seq(Write) /\ head \in Write
      /\ \A i \in DOMAIN rest :
           /\ Known(disk) \subseteq Known(rest[i].content)
           /\ Known(rest[i].content) \subseteq Known(memory)
           /\ rest[i].by \in Uploads => rest[i].by \in Known(rest[i].content)
           /\ \A k \in DOMAIN rest : i < k => Known(rest[i].content) \subseteq Known(rest[k].content)
      /\ rest # << >> => rest[Len(rest)].content = memory
  BY <1>1, WriteLeaves
<1>3. writeErrors' \in Nat /\ writeErrors' # 0
  BY <1>1 DEF FilesGrow
<1>4. CASE writes' = rest /\ UNCHANGED memory
  <2> HIDE DEF head, rest
  <2> QED BY <1>1, <1>2, <1>3, <1>4 DEF FilesGrow
<1>5. CASE /\ head.by = Worker /\ task[Worker].at = "certify"
           /\ memory' = [memory EXCEPT ![task[Worker].job] = "failed"]
           /\ writes' = Append(rest, [content |-> memory', by |-> Worker])
  <2> DEFINE w == [content |-> memory', by |-> Worker]
  <2>1. memory' \in Content /\ Known(memory') = Known(memory)
    BY <1>5 DEF FilesGrow, Content, Known, JobStatus
  <2>2. w \in Write /\ w.content = memory' /\ w.by = Worker /\ Worker \notin Uploads
    BY <2>1, WorkerConstants DEF Write, Callers, Worker
  <2> HIDE DEF w, rest, head
  <2>3. /\ writes' \in Seq(Write) /\ Len(writes') = Len(rest) + 1 /\ writes'[Len(rest) + 1] = w
        /\ DOMAIN writes' = 1..(Len(rest) + 1) /\ DOMAIN rest = 1..Len(rest) /\ Len(rest) \in Nat
        /\ \A i \in DOMAIN rest : writes'[i] = rest[i]
    BY <1>2, <1>5, <2>2 DEF w
  <2>4. ASSUME NEW i \in DOMAIN writes'
        PROVE  /\ Known(disk) \subseteq Known(writes'[i].content)
               /\ Known(writes'[i].content) \subseteq Known(memory')
               /\ writes'[i].by \in Uploads => writes'[i].by \in Known(writes'[i].content)
               /\ \A k \in DOMAIN writes' :
                    i < k => Known(writes'[i].content) \subseteq Known(writes'[k].content)
    <3>1. CASE i = Len(rest) + 1
      <4>1. \A k \in DOMAIN writes' : ~(i < k)
        BY <2>3, <3>1
      <4> QED BY <2>1, <2>2, <2>3, <3>1, <4>1 DEF FilesGrow
    <3>2. CASE i # Len(rest) + 1
      <4>1. i \in DOMAIN rest /\ writes'[i] = rest[i]
        BY <2>3, <3>2
      <4>2. ASSUME NEW k \in DOMAIN writes', i < k
            PROVE  Known(rest[i].content) \subseteq Known(writes'[k].content)
        <5>1. CASE k = Len(rest) + 1
          BY <1>2, <2>1, <2>2, <2>3, <4>1, <5>1
        <5>2. CASE k # Len(rest) + 1
          <6>1. k \in DOMAIN rest /\ writes'[k] = rest[k]
            BY <2>3, <5>2
          <6> QED BY <1>2, <4>1, <4>2, <6>1
        <5> QED BY <5>1, <5>2
      <4> QED BY <1>2, <2>1, <4>1, <4>2
    <3> QED BY <3>1, <3>2
  <2>5. writes' # << >>
    BY <2>3
  <2> QED BY <1>1, <1>3, <2>1, <2>2, <2>3, <2>4, <2>5 DEF FilesGrow
<1> QED BY <1>4, <1>5 DEF WriteFails

LEMMA DeathGrows ==
  ASSUME FilesGrow, ProcessDies
  PROVE  FilesGrow'
<1>1. memory' = disk /\ writes' = << >> /\ UNCHANGED <<disk, created, acked, writeErrors>>
  BY DEF ProcessDies
<1>2. writes' \in Seq(Write) /\ DOMAIN writes' = {}
  BY <1>1
<1> QED BY <1>1, <1>2 DEF FilesGrow

-----------------------------------------------------------------------------
(* Who is at what.                                                         *)

Stages == {"idle", "begin", "recover", "go", "start", "verify", "certify", "fail"}

Task == [at : Stages, job : Uploads \cup {Nothing}, todo : SUBSET Uploads]

(* Who waits for a write waits for one, and is where a write was made.     *)
OneWriteEach ==
  \A i \in DOMAIN writes : writes[i].by \in Callers =>
    /\ task[writes[i].by].at \in {"recover", "start", "certify", "fail"}
    /\ \A k \in DOMAIN writes : writes[k].by = writes[i].by => k = i

(* The worker's job and the jobs on the lists of a recovery.               *)
HandsApart ==
  /\ recovered \in BOOLEAN /\ task \in [Callers -> Task]
  /\ \A p \in Pollers : task[p].at \in {"idle", "recover", "go"}
  /\ \A c \in Callers :
       /\ task[c].at \notin {"idle", "begin"} => recovered
       /\ task[c].at # "recover" => task[c].todo = {}
       /\ \A j \in task[c].todo :
            /\ memory[j] = "processing" /\ task[Worker].job # j
            /\ \A d \in Callers \ {c} : j \notin task[d].todo
  /\ task[Worker].at \in {"idle", "begin", "recover", "go"} => task[Worker].job = Nothing
  /\ task[Worker].at \in {"start", "verify"} =>
       task[Worker].job \in Uploads /\ memory[task[Worker].job] = "processing"
  /\ task[Worker].at \in {"certify", "fail"} =>
       task[Worker].job \in Uploads /\ memory[task[Worker].job] \in {"certified", "failed"}

(* A job this process has not come to verify.                              *)
Untouched(j) ==
  \/ memory[j] \in {"none", "pending"} \/ ~recovered
  \/ \E c \in Callers : j \in task[c].todo
  \/ task[Worker].at = "start" /\ task[Worker].job = j

VerifiedCounted ==
  /\ verified \in [Uploads -> Nat] /\ crashes \in Nat
  /\ \A j \in Uploads : verified[j] <= 1 + crashes /\ (Untouched(j) => verified[j] <= crashes)

WorkerInv == FilesGrow /\ OneWriteEach /\ HandsApart /\ VerifiedCounted /\ ProcessingIsOwned

LEMMA CallersAre == Worker \in Callers /\ Worker \notin Uploads \cup Pollers /\ Pollers \subseteq Callers
                    /\ \A c \in Callers : c \notin Uploads /\ (c = Worker \/ c \in Pollers)
BY WorkerConstants DEF Callers, Worker

LEMMA WorkerInvInit == WorkerInit => WorkerInv
<1> SUFFICES ASSUME WorkerInit PROVE WorkerInv
  OBVIOUS
<1>1. /\ memory = [j \in Uploads |-> "none"] /\ disk = memory /\ writes = << >> /\ created = << >>
      /\ recovered = FALSE /\ task = [c \in Callers |-> Idle] /\ acked = {}
      /\ verified = [j \in Uploads |-> 0] /\ writeErrors = 0 /\ crashes = 0
  BY DEF WorkerInit
<1>2. Known(memory) = {} /\ memory \in Content
  BY <1>1 DEF Known, Content, JobStatus
<1>3. FilesGrow
  BY <1>1, <1>2 DEF FilesGrow, IsInjective
<1>4. Idle \in Task /\ Idle.at = "idle" /\ Idle.todo = {} /\ Idle.job = Nothing
  BY DEF Idle, Task, Stages
<1>5. HandsApart
  BY <1>1, <1>4, CallersAre DEF HandsApart
<1>6. OneWriteEach /\ VerifiedCounted
  BY <1>1 DEF OneWriteEach, VerifiedCounted
<1>7. ProcessingIsOwned
  BY <1>1 DEF ProcessingIsOwned, JobsIn
<1> QED BY <1>3, <1>5, <1>6, <1>7 DEF WorkerInv

LEMMA TasksMove ==
  ASSUME OneWriteEach, UNCHANGED writes,
         \A c \in Callers : task'[c].at = task[c].at \/ ~Waiting(c)
  PROVE  OneWriteEach'
BY DEF OneWriteEach, Waiting

LEMMA PutAlone ==
  ASSUME OneWriteEach, writes \in Seq(Write), NEW content, NEW by,
         writes' = Append(writes, [content |-> content, by |-> by]),
         by \in Callers => ~Waiting(by) /\ task'[by].at \in {"recover", "start", "certify", "fail"},
         \A c \in Callers \ {by} : task'[c].at = task[c].at
  PROVE  OneWriteEach'
<1> DEFINE w == [content |-> content, by |-> by]
<1>1. w.by = by
  OBVIOUS
<1> HIDE DEF w
<1>2. /\ writes'[Len(writes) + 1] = w /\ Len(writes) \in Nat
      /\ DOMAIN writes' = 1..(Len(writes) + 1) /\ DOMAIN writes = 1..Len(writes)
      /\ \A i \in DOMAIN writes : writes'[i] = writes[i]
  BY DEF w
<1>3. ASSUME NEW i \in DOMAIN writes', writes'[i].by \in Callers
      PROVE  /\ task'[writes'[i].by].at \in {"recover", "start", "certify", "fail"}
             /\ \A k \in DOMAIN writes' : writes'[k].by = writes'[i].by => k = i
  <2>1. CASE i = Len(writes) + 1
    <3>1. \A k \in DOMAIN writes : writes[k].by # by
      BY <1>1, <1>2, <1>3, <2>1 DEF Waiting
    <3>2. \A k \in DOMAIN writes' : k # i => k \in DOMAIN writes
      BY <1>2, <2>1
    <3> QED BY <1>1, <1>2, <1>3, <2>1, <3>1, <3>2
  <2>2. CASE i # Len(writes) + 1
    <3>1. i \in DOMAIN writes /\ writes'[i] = writes[i]
      BY <1>2, <2>2
    <3>2. writes[i].by # by
      BY <1>3, <3>1 DEF Waiting
    <3>3. \A k \in DOMAIN writes' : writes'[k].by = writes[i].by => k \in DOMAIN writes /\ writes'[k] = writes[k]
      BY <1>1, <1>2, <3>2
    <3> QED BY <1>3, <3>1, <3>2, <3>3 DEF OneWriteEach
  <2> QED BY <2>1, <2>2
<1> QED BY <1>3 DEF OneWriteEach

(* The first write is gone, and its writer may be elsewhere.               *)
LEMMA WriteGone ==
  ASSUME OneWriteEach, writes \in Seq(Write), writes # << >>, writes' = Tail(writes),
         \A c \in Callers : task'[c].at = task[c].at \/ task[c].at = "idle" \/ c = Head(writes).by
  PROVE  OneWriteEach'
<1>1. /\ Head(writes) = writes[1] /\ 1 \in DOMAIN writes
      /\ \A i \in DOMAIN writes' : i \in Nat \ {0} /\ i + 1 \in DOMAIN writes /\ writes'[i] = writes[i + 1]
  BY TailOfWrites
<1>2. ASSUME NEW i \in DOMAIN writes', writes'[i].by \in Callers
      PROVE  /\ task'[writes'[i].by].at \in {"recover", "start", "certify", "fail"}
             /\ \A k \in DOMAIN writes' : writes'[k].by = writes'[i].by => k = i
  <2>1. i + 1 \in DOMAIN writes /\ writes'[i] = writes[i + 1] /\ i + 1 # 1 /\ i \in Nat
    BY <1>1
  <2>2. writes'[i].by # Head(writes).by /\ task[writes'[i].by].at \in {"recover", "start", "certify", "fail"}
    BY <1>1, <1>2, <2>1 DEF OneWriteEach
  <2>3. ASSUME NEW k \in DOMAIN writes', writes'[k].by = writes'[i].by PROVE k = i
    <3>1. k + 1 = i + 1 /\ k \in Nat
      BY <1>1, <1>2, <2>1, <2>3 DEF OneWriteEach
    <3> QED BY <2>1, <3>1
  <2> QED BY <1>2, <2>2, <2>3
<1> QED BY <1>2 DEF OneWriteEach

(* What the worker is started with.                                        *)
LEMMA StartedTasks ==
  ASSUME NEW tasks \in [Callers -> Task]
  PROVE  LET t == Started(tasks) IN
         /\ t \in [Callers -> Task] /\ \A c \in Callers \ {Worker} : t[c] = tasks[c]
         /\ t[Worker].todo = tasks[Worker].todo /\ t[Worker].job = tasks[Worker].job
         /\ t[Worker].at = IF tasks[Worker].at = "idle" THEN "begin" ELSE tasks[Worker].at
BY CallersAre DEF Started, Task, Stages

-----------------------------------------------------------------------------
(* One caller goes on from a stage to another, and nothing else changes.   *)

LEMMA BeginKeeps ==
  ASSUME WorkerInv, NEW c \in Callers, BeginRecovery(c)
  PROVE  WorkerInv'
<1> DEFINE t == IF recovered THEN [Idle EXCEPT !.at = "go"]
                ELSE [Idle EXCEPT !.at = "recover", !.todo = AllInterrupted]
<1>1. /\ task[c].at \in {"idle", "begin"} /\ recovered' = TRUE
      /\ task' = [task EXCEPT ![c] = t]
      /\ UNCHANGED <<memory, disk, writes, created, acked, verified, writeErrors, crashes>>
  BY DEF BeginRecovery, FlagSet
<1>2. /\ t \in Task /\ t.job = Nothing
      /\ recovered => t.at = "go" /\ t.todo = {}
      /\ ~recovered => t.at = "recover" /\ t.todo = JobsIn("processing")
  BY DEF Task, Stages, Idle, AllInterrupted, JobsIn
<1> HIDE DEF t
<1>3. task' \in [Callers -> Task] /\ task'[c] = t /\ \A d \in Callers \ {c} : task'[d] = task[d]
  BY <1>1, <1>2 DEF WorkerInv, HandsApart
<1>4. FilesGrow'
  BY <1>1 DEF WorkerInv, FilesGrow
<1>5. OneWriteEach'
  <2>1. ~Waiting(c)
    BY <1>1 DEF WorkerInv, OneWriteEach, Waiting
  <2> QED BY <1>1, <1>3, <2>1, TasksMove DEF WorkerInv
(* Whoever begins first finds no list, and no job in the worker's hands.   *)
<1>6. ~recovered => /\ \A d \in Callers : task[d].todo = {}
                    /\ task[Worker].job = Nothing /\ task[Worker].at \in {"idle", "begin"}
  BY CallersAre DEF WorkerInv, HandsApart
<1>7. task'[Worker].job = task[Worker].job /\ (c = Worker => task[Worker].job = Nothing)
  BY <1>1, <1>2, <1>3, CallersAre DEF WorkerInv, HandsApart
<1>8. ASSUME NEW d \in Callers, NEW j \in task'[d].todo
      PROVE  /\ memory[j] = "processing" /\ task[Worker].job # j
             /\ \A e \in Callers \ {d} : j \notin task'[e].todo
  <2>0. j \in Uploads
    BY <1>3, <1>8 DEF Task
  <2>1. CASE recovered
    BY <1>2, <1>3, <1>8, <2>1 DEF WorkerInv, HandsApart
  <2>2. CASE ~recovered
    <3>1. d = c /\ j \in JobsIn("processing")
      BY <1>2, <1>3, <1>6, <1>8, <2>2
    <3> QED BY <1>3, <1>6, <2>0, <2>2, <3>1, WorkerConstants DEF JobsIn
  <2> QED BY <2>1, <2>2
<1>9. HandsApart'
  <2>1. \A p \in Pollers : task'[p].at \in {"idle", "recover", "go"}
    BY <1>2, <1>3, CallersAre DEF WorkerInv, HandsApart
  <2>2. \A d \in Callers : task'[d].at # "recover" => task'[d].todo = {}
    BY <1>2, <1>3 DEF WorkerInv, HandsApart
  <2>3. /\ task'[Worker].at \in {"idle", "begin", "recover", "go"} => task[Worker].job = Nothing
        /\ task'[Worker].at \in {"start", "verify"} =>
             task[Worker].job \in Uploads /\ memory[task[Worker].job] = "processing"
        /\ task'[Worker].at \in {"certify", "fail"} =>
             task[Worker].job \in Uploads /\ memory[task[Worker].job] \in {"certified", "failed"}
    BY <1>2, <1>3, <1>7, CallersAre DEF WorkerInv, HandsApart
  <2> QED BY <1>1, <1>3, <1>7, <1>8, <2>1, <2>2, <2>3 DEF HandsApart
<1>10. VerifiedCounted'
  <2> SUFFICES ASSUME NEW j \in Uploads, Untouched(j)' PROVE Untouched(j)
    BY <1>1 DEF WorkerInv, VerifiedCounted
  <2>1. CASE \E d \in Callers : j \in task'[d].todo
    BY <1>2, <1>3, <2>1 DEF Untouched
  <2>2. CASE task'[Worker].at = "start" /\ task'[Worker].job = j
    BY <1>2, <1>3, <1>7, <2>2, CallersAre DEF Untouched
  <2> QED BY <1>1, <2>1, <2>2 DEF Untouched
<1>11. ProcessingIsOwned'
  <2> SUFFICES ASSUME writeErrors = 0, NEW j \in JobsIn("processing")
               PROVE  task'[Worker].job = j \/ \E d \in Callers : j \in task'[d].todo
    BY <1>1 DEF ProcessingIsOwned, JobsIn
  <2>1. CASE recovered
    <3>1. task[c].todo = {}
      BY <1>1 DEF WorkerInv, HandsApart
    <3> QED BY <1>3, <1>7, <2>1, <3>1 DEF WorkerInv, ProcessingIsOwned
  <2>2. CASE ~recovered
    BY <1>2, <1>3, <2>2
  <2> QED BY <2>1, <2>2
<1> QED BY <1>4, <1>5, <1>9, <1>10, <1>11 DEF WorkerInv

LEMMA RecoverOneKeeps ==
  ASSUME WorkerInv, NEW c \in Callers, NEW j \in Uploads, RecoverOne(c, j)
  PROVE  WorkerInv'
<1>1. /\ task[c].at = "recover" /\ j \in task[c].todo /\ ~Waiting(c) /\ Put(j, "pending", c)
      /\ task' = [task EXCEPT ![c].todo = @ \ {j}]
      /\ UNCHANGED <<disk, created, recovered, acked, verified, writeErrors, crashes>>
  BY DEF RecoverOne
<1>2. /\ task' \in [Callers -> Task] /\ \A d \in Callers : task'[d].at = task[d].at /\ task'[d].job = task[d].job
      /\ \A d \in Callers \ {c} : task'[d] = task[d]
      /\ task'[c].todo = task[c].todo \ {j}
  BY <1>1 DEF WorkerInv, HandsApart, Task
<1>3. /\ memory' = [memory EXCEPT ![j] = "pending"] /\ memory[j] = "processing"
      /\ writes' = Append(writes, [content |-> memory', by |-> c])
      /\ memory \in [Uploads -> JobStatus] /\ memory'[j] = "pending"
      /\ \A k \in Uploads \ {j} : memory'[k] = memory[k]
  BY <1>1 DEF WorkerInv, HandsApart, FilesGrow, Put, Queued, Content
<1>4. FilesGrow'
  <2>1. j \in Range(created) /\ created \in Seq(Uploads) /\ IsInjective(created)
    BY <1>3 DEF WorkerInv, FilesGrow, Known
  <2> QED BY <1>1, <2>1, PutGrows, CallersAre DEF WorkerInv, JobStatus
<1>5. OneWriteEach'
  <2>1. writes \in Seq(Write) /\ OneWriteEach
    BY DEF WorkerInv, FilesGrow
  <2>2. \E content : writes' = Append(writes, [content |-> content, by |-> c])
    BY <1>3
  <2> QED BY <1>1, <1>2, <2>1, <2>2, PutAlone
<1>6. task[Worker].job # j /\ \A d \in Callers \ {c} : j \notin task[d].todo
  BY <1>1 DEF WorkerInv, HandsApart
<1>7. HandsApart'
  <2>1. ASSUME NEW d \in Callers
        PROVE  /\ task'[d].at \notin {"idle", "begin"} => recovered
               /\ task'[d].at # "recover" => task'[d].todo = {}
               /\ \A k \in task'[d].todo :
                    /\ k \in task[d].todo /\ k # j
                    /\ memory'[k] = "processing" /\ task'[Worker].job # k
                    /\ \A e \in Callers \ {d} : k \notin task'[e].todo
    <3>1. \A e \in Callers : task'[e].todo \subseteq task[e].todo /\ j \notin task'[e].todo
      BY <1>2, <1>6
    <3>2. task[d].todo \subseteq Uploads
      BY DEF WorkerInv, HandsApart, Task
    <3> QED BY <1>1, <1>2, <1>3, <3>1, <3>2, CallersAre DEF WorkerInv, HandsApart
  <2>2. \A p \in Pollers : task'[p].at \in {"idle", "recover", "go"}
    BY <1>2, CallersAre DEF WorkerInv, HandsApart
  <2>3. /\ task'[Worker].at = task[Worker].at /\ task'[Worker].job = task[Worker].job
        /\ task[Worker].job \in Uploads => memory'[task[Worker].job] = memory[task[Worker].job]
    BY <1>2, <1>3, <1>6, CallersAre
  <2> QED BY <1>1, <1>2, <2>1, <2>2, <2>3 DEF WorkerInv, HandsApart
<1>8. VerifiedCounted'
  <2>1. Untouched(j)
    BY <1>1 DEF Untouched
  <2>2. ASSUME NEW k \in Uploads, Untouched(k)' PROVE Untouched(k)
    BY <1>1, <1>2, <1>3, <2>1, <2>2, CallersAre DEF Untouched
  <2> QED BY <1>1, <2>2 DEF WorkerInv, VerifiedCounted
<1>9. ProcessingIsOwned'
  <2> SUFFICES ASSUME writeErrors = 0, NEW k \in Uploads, memory'[k] = "processing"
               PROVE  task'[Worker].job = k \/ ~recovered \/ \E d \in Callers : k \in task'[d].todo
    BY <1>1 DEF ProcessingIsOwned, JobsIn
  <2>1. k # j /\ k \in JobsIn("processing")
    BY <1>3 DEF JobsIn
  <2>2. task[Worker].job = k \/ ~recovered \/ \E d \in Callers : k \in task[d].todo
    BY <2>1 DEF WorkerInv, ProcessingIsOwned
  <2> QED BY <1>2, <2>1, <2>2, CallersAre
<1> QED BY <1>4, <1>5, <1>7, <1>8, <1>9 DEF WorkerInv

LEMMA RecoveryDoneKeeps ==
  ASSUME WorkerInv, NEW c \in Callers, RecoveryDone(c)
  PROVE  WorkerInv'
<1>1. /\ task[c].at = "recover" /\ task[c].todo = {} /\ ~Waiting(c)
      /\ task' = [task EXCEPT ![c].at = "go"]
      /\ UNCHANGED <<memory, disk, writes, created, recovered, acked, verified, writeErrors, crashes>>
  BY DEF RecoveryDone
<1>2. /\ task' \in [Callers -> Task] /\ task'[c].at = "go"
      /\ \A d \in Callers : task'[d].todo = task[d].todo /\ task'[d].job = task[d].job
      /\ \A d \in Callers \ {c} : task'[d] = task[d]
  BY <1>1 DEF WorkerInv, HandsApart, Task, Stages
<1>3. FilesGrow'
  BY <1>1 DEF WorkerInv, FilesGrow
<1>4. OneWriteEach'
  BY <1>1, <1>2, TasksMove DEF WorkerInv
<1>5. HandsApart'
  <2>1. \A d \in Callers : /\ task'[d].at \notin {"idle", "begin"} => recovered
                           /\ task'[d].at # "recover" => task'[d].todo = {}
    BY <1>1, <1>2 DEF WorkerInv, HandsApart
  <2>2. \A p \in Pollers : task'[p].at \in {"idle", "recover", "go"}
    BY <1>2, CallersAre DEF WorkerInv, HandsApart
  <2>3. /\ task'[Worker].at \in {"idle", "begin", "recover", "go"} => task'[Worker].job = Nothing
        /\ task'[Worker].at \in {"start", "verify", "certify", "fail"} => task'[Worker] = task[Worker]
    BY <1>1, <1>2, CallersAre DEF WorkerInv, HandsApart
  <2>4. \A d \in Callers : \A j \in task'[d].todo :
          /\ memory'[j] = "processing" /\ task'[Worker].job # j
          /\ \A e \in Callers \ {d} : j \notin task'[e].todo
    BY <1>1, <1>2, CallersAre DEF WorkerInv, HandsApart
  <2> QED BY <1>1, <1>2, <2>1, <2>2, <2>3, <2>4 DEF WorkerInv, HandsApart
<1>6. VerifiedCounted'
  BY <1>1, <1>2, CallersAre DEF WorkerInv, VerifiedCounted, Untouched
<1>7. ProcessingIsOwned'
  BY <1>1, <1>2, CallersAre DEF WorkerInv, ProcessingIsOwned, JobsIn
<1> QED BY <1>3, <1>4, <1>5, <1>6, <1>7 DEF WorkerInv

(* The oldest of a set of jobs that were created is one of the set.        *)
LEMMA FirstIsOne ==
  ASSUME created \in Seq(Uploads), NEW S \in SUBSET Range(created), S # {}
  PROVE  First(S) \in S
<1> DEFINE T == {i \in DOMAIN created : created[i] \in S}
<1>1. T \in SUBSET Nat /\ T # {}
  BY DEF Range
<1>2. PICK i \in T : \A k \in T : i <= k
  BY <1>1, LeastNumber
<1>3. i \in DOMAIN created /\ created[i] \in S /\ \A k \in 1..(i - 1) : created[k] \notin S
  BY <1>1, <1>2
<1>4. \E k \in DOMAIN created : created[k] \in S /\ \A l \in 1..(k - 1) : created[l] \notin S
  BY <1>3
<1> QED BY <1>4 DEF First

LEMMA TakeNextKeeps ==
  ASSUME WorkerInv, TakeNext
  PROVE  WorkerInv'
<1>1. /\ task[Worker].at = "go" /\ ~Waiting(Worker)
      /\ UNCHANGED <<disk, created, recovered, acked, verified, writeErrors, crashes>>
  BY DEF TakeNext
<1>2. task[Worker].todo = {} /\ task[Worker].job = Nothing /\ recovered /\ Worker \in Callers
  BY <1>1, CallersAre DEF WorkerInv, HandsApart
<1>3. CASE JobsIn("pending") = {}
  <2>1. task' = [task EXCEPT ![Worker] = Idle] /\ UNCHANGED <<memory, writes>>
    BY <1>3 DEF TakeNext, collectionVars
  <2>2. Idle \in Task /\ Idle.at = "idle" /\ Idle.job = Nothing /\ Idle.todo = {}
    BY DEF Idle, Task, Stages
  <2>3. /\ task' \in [Callers -> Task] /\ task'[Worker] = Idle
        /\ \A d \in Callers : task'[d].todo = task[d].todo /\ task'[d].job = task[d].job
        /\ \A d \in Callers \ {Worker} : task'[d] = task[d]
    BY <1>2, <2>1, <2>2 DEF WorkerInv, HandsApart
  <2>4. FilesGrow'
    BY <1>1, <2>1 DEF WorkerInv, FilesGrow
  <2>5. OneWriteEach'
    BY <1>1, <2>1, <2>3, TasksMove DEF WorkerInv
  <2>6. HandsApart'
    <3>1. \A d \in Callers : /\ task'[d].at \notin {"idle", "begin"} => recovered
                             /\ task'[d].at # "recover" => task'[d].todo = {}
      BY <1>2, <2>2, <2>3 DEF WorkerInv, HandsApart
    <3>2. \A p \in Pollers : task'[p].at \in {"idle", "recover", "go"}
      BY <2>3, CallersAre DEF WorkerInv, HandsApart
    <3>3. task'[Worker].at = "idle" /\ task'[Worker].job = Nothing
      BY <2>2, <2>3
    <3>4. \A d \in Callers : \A j \in task'[d].todo :
            /\ memory'[j] = "processing" /\ task'[Worker].job # j
            /\ \A e \in Callers \ {d} : j \notin task'[e].todo
      BY <1>2, <2>1, <2>3 DEF WorkerInv, HandsApart
    <3> QED BY <1>1, <2>3, <3>1, <3>2, <3>3, <3>4 DEF WorkerInv, HandsApart
  <2>7. VerifiedCounted'
    BY <1>1, <1>2, <2>1, <2>2, <2>3 DEF WorkerInv, VerifiedCounted, Untouched
  <2>8. ProcessingIsOwned'
    BY <1>1, <1>2, <2>1, <2>3 DEF WorkerInv, ProcessingIsOwned, JobsIn
  <2> QED BY <2>4, <2>5, <2>6, <2>7, <2>8 DEF WorkerInv
<1>4. CASE JobsIn("pending") # {}
  <2> DEFINE j == First(JobsIn("pending"))
  <2>1. j \in Uploads /\ memory[j] = "pending"
    <3>1. JobsIn("pending") \subseteq Known(memory) /\ Known(memory) \subseteq Range(created)
          /\ created \in Seq(Uploads)
      BY DEF JobsIn, Known, WorkerInv, FilesGrow
    <3>2. j \in JobsIn("pending")
      BY <1>4, <3>1, FirstIsOne
    <3> QED BY <3>2 DEF JobsIn
  <2>2. Put(j, "processing", Worker)
        /\ task' = [task EXCEPT ![Worker].at = "start", ![Worker].job = j]
    BY <1>4 DEF TakeNext
  <2> HIDE DEF j
  <2>3. /\ task' \in [Callers -> Task] /\ task'[Worker].at = "start" /\ task'[Worker].job = j
        /\ \A d \in Callers : task'[d].todo = task[d].todo
        /\ \A d \in Callers \ {Worker} : task'[d] = task[d]
    <3> DEFINE t == [task[Worker] EXCEPT !.at = "start", !.job = j]
    <3>1. task \in [Callers -> Task] /\ task[Worker] \in Task
      BY <1>2 DEF WorkerInv, HandsApart
    <3>2. t \in Task /\ t.at = "start" /\ t.job = j /\ t.todo = task[Worker].todo
      BY <2>1, <3>1 DEF Task, Stages
    <3>3. task' = [task EXCEPT ![Worker] = t]
      BY <2>2
    <3> HIDE DEF t
    <3> QED BY <1>2, <3>1, <3>2, <3>3
  <2>4. /\ memory' = [memory EXCEPT ![j] = "processing"]
        /\ writes' = Append(writes, [content |-> memory', by |-> Worker])
        /\ memory \in [Uploads -> JobStatus] /\ memory'[j] = "processing"
        /\ \A k \in Uploads \ {j} : memory'[k] = memory[k]
    BY <2>1, <2>2 DEF WorkerInv, FilesGrow, Put, Queued, Content
  <2>5. FilesGrow'
    <3>1. j \in Range(created) /\ created \in Seq(Uploads) /\ IsInjective(created)
      BY <2>1 DEF WorkerInv, FilesGrow, Known
    <3> QED BY <1>1, <2>1, <2>2, <3>1, PutGrows, CallersAre DEF WorkerInv, JobStatus
  <2>6. OneWriteEach'
    <3>1. writes \in Seq(Write) /\ OneWriteEach
      BY DEF WorkerInv, FilesGrow
    <3>2. \E content : writes' = Append(writes, [content |-> content, by |-> Worker])
      BY <2>4
    <3>3. \A c \in Callers \ {Worker} : task'[c].at = task[c].at
      BY <2>3
    <3> QED BY <1>1, <2>3, <3>1, <3>2, <3>3, PutAlone
  <2>7. \A d \in Callers : j \notin task[d].todo
    BY <2>1 DEF WorkerInv, HandsApart
  <2>8. HandsApart'
    <3>1. \A d \in Callers : /\ task'[d].at \notin {"idle", "begin"} => recovered
                             /\ task'[d].at # "recover" => task'[d].todo = {}
      BY <1>2, <2>3 DEF WorkerInv, HandsApart
    <3>2. \A p \in Pollers : task'[p].at \in {"idle", "recover", "go"}
      BY <2>3, CallersAre DEF WorkerInv, HandsApart
    <3>3. ASSUME NEW d \in Callers, NEW k \in task'[d].todo
          PROVE  /\ memory'[k] = "processing" /\ task'[Worker].job # k
                 /\ \A e \in Callers \ {d} : k \notin task'[e].todo
      <4>1. k \in task[d].todo /\ k # j /\ k \in Uploads
        BY <2>3, <2>7, <3>3 DEF Task
      <4> QED BY <2>3, <2>4, <4>1 DEF WorkerInv, HandsApart
    <3> QED BY <1>1, <2>1, <2>3, <2>4, <3>1, <3>2, <3>3 DEF WorkerInv, HandsApart
  <2>9. VerifiedCounted'
    <3>1. Untouched(j)
      BY <2>1 DEF Untouched
    <3>2. ASSUME NEW k \in Uploads, Untouched(k)' PROVE Untouched(k)
      BY <1>1, <2>3, <2>4, <3>1, <3>2 DEF Untouched
    <3> QED BY <1>1, <3>2 DEF WorkerInv, VerifiedCounted
  <2>10. ProcessingIsOwned'
    <3> SUFFICES ASSUME writeErrors = 0, NEW k \in Uploads, memory'[k] = "processing"
                 PROVE  task'[Worker].job = k \/ ~recovered \/ \E d \in Callers : k \in task'[d].todo
      BY <1>1 DEF ProcessingIsOwned, JobsIn
    <3>1. CASE k = j
      BY <2>3, <3>1
    <3>2. CASE k # j
      <4>1. k \in JobsIn("processing") /\ task[Worker].job # k
        BY <1>2, <2>4, <3>2, WorkerConstants DEF JobsIn
      <4> QED BY <2>3, <4>1 DEF WorkerInv, ProcessingIsOwned
    <3> QED BY <3>1, <3>2
  <2> QED BY <2>5, <2>6, <2>8, <2>9, <2>10 DEF WorkerInv
<1> QED BY <1>3, <1>4

LEMMA VerifyKeeps ==
  ASSUME WorkerInv, Verify
  PROVE  WorkerInv'
<1>0. PICK j : j = task[Worker].job
  OBVIOUS
<1>1. /\ task[Worker].at = "start" /\ ~Waiting(Worker)
      /\ task' = [task EXCEPT ![Worker].at = "verify"]
      /\ verified' = [verified EXCEPT ![j] = @ + 1]
      /\ UNCHANGED <<memory, disk, writes, created, recovered, acked, writeErrors, crashes>>
  BY <1>0 DEF Verify
<1>2. /\ j \in Uploads /\ memory[j] = "processing" /\ recovered
      /\ \A c \in Callers : j \notin task[c].todo
  BY <1>0, <1>1, CallersAre DEF WorkerInv, HandsApart
<1>3. /\ task' \in [Callers -> Task] /\ task'[Worker].at = "verify" /\ task'[Worker].job = j
      /\ \A d \in Callers : task'[d].todo = task[d].todo /\ task'[d].job = task[d].job
      /\ \A d \in Callers \ {Worker} : task'[d] = task[d]
  BY <1>0, <1>1, CallersAre DEF WorkerInv, HandsApart, Task, Stages
<1>4. FilesGrow'
  BY <1>1 DEF WorkerInv, FilesGrow
<1>5. OneWriteEach'
  BY <1>1, <1>3, TasksMove DEF WorkerInv
<1>6. HandsApart'
  <2>1. \A d \in Callers : /\ task'[d].at \notin {"idle", "begin"} => recovered
                           /\ task'[d].at # "recover" => task'[d].todo = {}
    BY <1>1, <1>2, <1>3 DEF WorkerInv, HandsApart
  <2>2. \A p \in Pollers : task'[p].at \in {"idle", "recover", "go"}
    BY <1>3, CallersAre DEF WorkerInv, HandsApart
  <2>3. \A d \in Callers : \A k \in task'[d].todo :
          /\ memory'[k] = "processing" /\ task'[Worker].job # k
          /\ \A e \in Callers \ {d} : k \notin task'[e].todo
    BY <1>1, <1>3, CallersAre DEF WorkerInv, HandsApart
  <2> QED BY <1>1, <1>2, <1>3, <2>1, <2>2, <2>3 DEF WorkerInv, HandsApart
<1>7. VerifiedCounted'
  <2>1. Untouched(j)
    BY <1>0, <1>1 DEF Untouched
  <2>2. verified \in [Uploads -> Nat] /\ verified[j] <= crashes /\ crashes \in Nat
    BY <1>2, <2>1 DEF WorkerInv, VerifiedCounted
  <2>3. /\ verified' \in [Uploads -> Nat] /\ verified'[j] = verified[j] + 1
        /\ \A k \in Uploads \ {j} : verified'[k] = verified[k]
    BY <1>1, <1>2, <2>2
  <2>4. ~Untouched(j)'
    BY <1>1, <1>2, <1>3 DEF Untouched
  <2>5. ASSUME NEW k \in Uploads, Untouched(k)' PROVE k # j /\ Untouched(k)
    BY <1>1, <1>3, <2>4, <2>5, CallersAre DEF Untouched
  <2>6. ASSUME NEW k \in Uploads
        PROVE  verified'[k] <= 1 + crashes /\ (Untouched(k)' => verified'[k] <= crashes)
    <3>1. CASE k = j
      BY <2>2, <2>3, <2>4, <3>1
    <3>2. CASE k # j
      BY <2>3, <2>5, <3>2 DEF WorkerInv, VerifiedCounted
    <3> QED BY <3>1, <3>2
  <2> QED BY <1>1, <2>2, <2>3, <2>6 DEF VerifiedCounted
<1>8. ProcessingIsOwned'
  BY <1>1, <1>3, CallersAre DEF WorkerInv, ProcessingIsOwned, JobsIn
<1> QED BY <1>4, <1>5, <1>6, <1>7, <1>8 DEF WorkerInv

LEMMA DecideKeeps ==
  ASSUME WorkerInv, NEW result \in {"certified", "failed"}, Decide(result)
  PROVE  WorkerInv'
<1> DEFINE j == task[Worker].job
           stage == IF result = "certified" THEN "certify" ELSE "fail"
<1>1. /\ task[Worker].at = "verify" /\ Put(j, result, Worker)
      /\ task' = [task EXCEPT ![Worker].at = stage]
      /\ UNCHANGED <<disk, created, recovered, acked, verified, writeErrors, crashes>>
  BY DEF Decide
<1>2. /\ j \in Uploads /\ memory[j] = "processing" /\ recovered
      /\ \A c \in Callers : j \notin task[c].todo
  BY <1>1, CallersAre DEF WorkerInv, HandsApart
<1>3. stage \in {"certify", "fail"}
  OBVIOUS
<1> HIDE DEF j, stage
<1>4. /\ task' \in [Callers -> Task] /\ task'[Worker].at = stage /\ task'[Worker].job = j
      /\ \A d \in Callers : task'[d].todo = task[d].todo /\ task'[d].job = task[d].job
      /\ \A d \in Callers \ {Worker} : task'[d] = task[d]
  BY <1>1, <1>3, CallersAre DEF WorkerInv, HandsApart, Task, Stages, j
<1>5. /\ writes' = Append(writes, [content |-> memory', by |-> Worker])
      /\ memory \in [Uploads -> JobStatus] /\ memory'[j] = result
      /\ \A k \in Uploads \ {j} : memory'[k] = memory[k]
  BY <1>1, <1>2 DEF WorkerInv, FilesGrow, Put, Queued, Content
<1>6. FilesGrow'
  <2>1. j \in Range(created) /\ created \in Seq(Uploads) /\ IsInjective(created)
    BY <1>2 DEF WorkerInv, FilesGrow, Known
  <2> QED BY <1>1, <1>2, <2>1, PutGrows, CallersAre DEF WorkerInv, JobStatus
<1>7. OneWriteEach'
  <2>1. writes \in Seq(Write) /\ OneWriteEach
    BY DEF WorkerInv, FilesGrow
  <2>2. \E content : writes' = Append(writes, [content |-> content, by |-> Worker])
    BY <1>5
  <2>3. ~Waiting(Worker)
    BY <1>1, <2>1, CallersAre DEF OneWriteEach, Waiting
  <2>4. \A c \in Callers \ {Worker} : task'[c].at = task[c].at
    BY <1>4
  <2> QED BY <1>3, <1>4, <2>1, <2>2, <2>3, <2>4, PutAlone
<1>8. HandsApart'
  <2>1. \A d \in Callers : /\ task'[d].at \notin {"idle", "begin"} => recovered
                           /\ task'[d].at # "recover" => task'[d].todo = {}
    BY <1>1, <1>2, <1>4 DEF WorkerInv, HandsApart
  <2>2. \A p \in Pollers : task'[p].at \in {"idle", "recover", "go"}
    BY <1>4, CallersAre DEF WorkerInv, HandsApart
  <2>3. ASSUME NEW d \in Callers, NEW k \in task'[d].todo
        PROVE  /\ memory'[k] = "processing" /\ task'[Worker].job # k
               /\ \A e \in Callers \ {d} : k \notin task'[e].todo
    <3>1. k \in task[d].todo /\ k # j /\ k \in Uploads
      BY <1>2, <1>4, <2>3 DEF Task
    <3> QED BY <1>4, <1>5, <3>1 DEF WorkerInv, HandsApart
  <2> QED BY <1>1, <1>2, <1>3, <1>4, <1>5, <2>1, <2>2, <2>3 DEF WorkerInv, HandsApart
<1>9. VerifiedCounted'
  <2>1. ASSUME NEW k \in Uploads, Untouched(k)' PROVE Untouched(k)
    BY <1>1, <1>2, <1>3, <1>4, <1>5, <2>1, CallersAre DEF Untouched
  <2> QED BY <1>1, <2>1 DEF WorkerInv, VerifiedCounted
<1>10. ProcessingIsOwned'
  <2> SUFFICES ASSUME writeErrors = 0, NEW k \in Uploads, memory'[k] = "processing"
               PROVE  task'[Worker].job = k \/ ~recovered \/ \E d \in Callers : k \in task'[d].todo
    BY <1>1 DEF ProcessingIsOwned, JobsIn
  <2>1. k \in JobsIn("processing")
    BY <1>5 DEF JobsIn
  <2> QED BY <1>4, <2>1 DEF WorkerInv, ProcessingIsOwned, j
<1> QED BY <1>6, <1>7, <1>8, <1>9, <1>10 DEF WorkerInv

LEMMA GoOnKeeps ==
  ASSUME WorkerInv, GoOn
  PROVE  WorkerInv'
<1>1. /\ task[Worker].at \in {"certify", "fail"} /\ ~Waiting(Worker)
      /\ task' = [task EXCEPT ![Worker].at = "go", ![Worker].job = Nothing]
      /\ UNCHANGED <<memory, disk, writes, created, recovered, acked, verified, writeErrors, crashes>>
  BY DEF GoOn
<1>2. /\ memory[task[Worker].job] \in {"certified", "failed"} /\ recovered
      /\ task \in [Callers -> Task] /\ task[Worker] \in Task
  BY <1>1, CallersAre DEF WorkerInv, HandsApart
<1>3. /\ task' \in [Callers -> Task] /\ task'[Worker].at = "go" /\ task'[Worker].job = Nothing
      /\ \A d \in Callers : task'[d].todo = task[d].todo
      /\ \A d \in Callers \ {Worker} : task'[d] = task[d]
  <2> DEFINE t == [task[Worker] EXCEPT !.at = "go", !.job = Nothing]
  <2>1. t \in Task /\ t.at = "go" /\ t.job = Nothing /\ t.todo = task[Worker].todo
    BY <1>2 DEF Task, Stages
  <2>2. task' = [task EXCEPT ![Worker] = t]
    BY <1>1
  <2> HIDE DEF t
  <2> QED BY <1>2, <2>1, <2>2, CallersAre
<1>4. FilesGrow'
  BY <1>1 DEF WorkerInv, FilesGrow
<1>5. OneWriteEach'
  BY <1>1, <1>3, TasksMove DEF WorkerInv
<1>6. HandsApart'
  <2>1. \A d \in Callers : /\ task'[d].at \notin {"idle", "begin"} => recovered
                           /\ task'[d].at # "recover" => task'[d].todo = {}
    BY <1>1, <1>2, <1>3 DEF WorkerInv, HandsApart
  <2>2. \A p \in Pollers : task'[p].at \in {"idle", "recover", "go"}
    BY <1>3, CallersAre DEF WorkerInv, HandsApart
  <2>3. ASSUME NEW d \in Callers, NEW k \in task'[d].todo
        PROVE  /\ memory'[k] = "processing" /\ task'[Worker].job # k
               /\ \A e \in Callers \ {d} : k \notin task'[e].todo
    <3>1. k \in task[d].todo /\ k \in Uploads
      BY <1>3, <2>3 DEF Task
    <3> QED BY <1>1, <1>3, <3>1, WorkerConstants DEF WorkerInv, HandsApart
  <2> QED BY <1>1, <1>2, <1>3, <2>1, <2>2, <2>3 DEF WorkerInv, HandsApart
<1>7. VerifiedCounted'
  BY <1>1, <1>3, CallersAre DEF WorkerInv, VerifiedCounted, Untouched
<1>8. ProcessingIsOwned'
  <2> SUFFICES ASSUME writeErrors = 0, NEW k \in Uploads, memory[k] = "processing"
               PROVE  task'[Worker].job = k \/ ~recovered \/ \E d \in Callers : k \in task'[d].todo
    BY <1>1 DEF ProcessingIsOwned, JobsIn
  <2>1. k \in JobsIn("processing") /\ k # task[Worker].job
    BY <1>2 DEF JobsIn
  <2> QED BY <1>3, <2>1 DEF WorkerInv, ProcessingIsOwned
<1> QED BY <1>4, <1>5, <1>6, <1>7, <1>8 DEF WorkerInv

LEMMA EnqueueKeeps ==
  ASSUME WorkerInv, NEW j \in Uploads, EnqueueJob(j)
  PROVE  WorkerInv'
<1>1. /\ ~Contains(created, j) /\ created' = Append(created, j) /\ Put(j, "pending", j)
      /\ UNCHANGED <<disk, recovered, task, acked, verified, writeErrors, crashes>>
  BY DEF EnqueueJob
<1>2. created \in Seq(Uploads) /\ IsInjective(created) /\ j \notin Range(created)
  BY <1>1 DEF WorkerInv, FilesGrow, Contains, Range
<1>3. /\ created' \in Seq(Uploads) /\ IsInjective(created')
      /\ Range(created') = Range(created) \cup {j}
  BY <1>1, <1>2, AppendElement
<1>4. memory[j] = "none"
  BY <1>2 DEF WorkerInv, FilesGrow, Known
<1>5. /\ writes' = Append(writes, [content |-> memory', by |-> j])
      /\ memory \in [Uploads -> JobStatus] /\ memory'[j] = "pending"
      /\ \A k \in Uploads \ {j} : memory'[k] = memory[k]
  BY <1>1 DEF WorkerInv, FilesGrow, Put, Queued, Content
<1>6. FilesGrow'
  BY <1>1, <1>3, PutGrows DEF WorkerInv, JobStatus
<1>7. OneWriteEach'
  <2>1. writes \in Seq(Write) /\ OneWriteEach /\ j \notin Callers
    BY CallersAre DEF WorkerInv, FilesGrow
  <2>2. \E content : writes' = Append(writes, [content |-> content, by |-> j])
    BY <1>5
  <2>3. \A c \in Callers \ {j} : task'[c].at = task[c].at
    BY <1>1
  <2> QED BY <2>1, <2>2, <2>3, PutAlone
<1>8. HandsApart'
  <2>1. ASSUME NEW d \in Callers, NEW k \in task[d].todo PROVE memory'[k] = "processing"
    <3>1. k \in Uploads /\ memory[k] = "processing"
      BY <2>1 DEF WorkerInv, HandsApart, Task
    <3> QED BY <1>4, <1>5, <3>1
  <2>2. task[Worker].job \in Uploads /\ memory[task[Worker].job] # "none" =>
          memory'[task[Worker].job] = memory[task[Worker].job]
    BY <1>4, <1>5
  <2> QED BY <1>1, <2>1, <2>2 DEF WorkerInv, HandsApart
<1>9. VerifiedCounted'
  <2>1. ASSUME NEW k \in Uploads, Untouched(k)' PROVE Untouched(k)
    BY <1>1, <1>4, <1>5, <2>1 DEF Untouched
  <2> QED BY <1>1, <2>1 DEF WorkerInv, VerifiedCounted
<1>10. ProcessingIsOwned'
  BY <1>1, <1>5 DEF WorkerInv, ProcessingIsOwned, JobsIn
<1> QED BY <1>6, <1>7, <1>8, <1>9, <1>10 DEF WorkerInv

(* A poller is done, or the worker is started, or both.                    *)
LEMMA TasksRestarted ==
  ASSUME WorkerInv, UNCHANGED <<memory, recovered, verified, writeErrors, crashes>>,
         task' \in [Callers -> Task],
         \A c \in Callers : task'[c].todo = task[c].todo,
         task'[Worker].job = task[Worker].job,
         \/ task'[Worker].at = task[Worker].at
         \/ task[Worker].at = "idle" /\ task'[Worker].at = "begin",
         \A p \in Pollers : task'[p].at = task[p].at \/ (task[p].at = "go" /\ task'[p].at = "idle")
  PROVE  HandsApart' /\ VerifiedCounted' /\ ProcessingIsOwned'
<1>1. HandsApart'
  <2>1. ASSUME NEW c \in Callers
        PROVE  /\ task'[c].at \notin {"idle", "begin"} => recovered
               /\ task'[c].at # "recover" => task'[c].todo = {}
    BY <2>1, CallersAre DEF WorkerInv, HandsApart
  <2>2. \A p \in Pollers : task'[p].at \in {"idle", "recover", "go"}
    BY CallersAre DEF WorkerInv, HandsApart
  <2>3. \A c \in Callers : \A j \in task'[c].todo :
          /\ memory'[j] = "processing" /\ task'[Worker].job # j
          /\ \A d \in Callers \ {c} : j \notin task'[d].todo
    BY DEF WorkerInv, HandsApart
  <2> QED BY <2>1, <2>2, <2>3 DEF WorkerInv, HandsApart
<1>2. VerifiedCounted'
  BY DEF WorkerInv, VerifiedCounted, Untouched
<1>3. ProcessingIsOwned'
  BY DEF WorkerInv, ProcessingIsOwned, JobsIn
<1> QED BY <1>1, <1>2, <1>3

LEMMA LookKeeps ==
  ASSUME WorkerInv, NEW p \in Pollers, Look(p)
  PROVE  WorkerInv'
<1> DEFINE tasks == [task EXCEPT ![p] = Idle]
<1>1. /\ task[p].at = "go" /\ task' \in {tasks, Started(tasks)}
      /\ UNCHANGED <<memory, disk, writes, created, recovered, acked, verified, writeErrors, crashes>>
  BY DEF Look, RestartIfPending
<1>2. Idle \in Task /\ Idle.at = "idle" /\ Idle.todo = {}
  BY DEF Idle, Task, Stages
<1>3. task \in [Callers -> Task] /\ p \in Callers /\ p # Worker /\ task[p].todo = {}
  BY <1>1, CallersAre DEF WorkerInv, HandsApart
<1>4. /\ tasks \in [Callers -> Task] /\ tasks[p] = Idle
      /\ \A c \in Callers \ {p} : tasks[c] = task[c]
  BY <1>2, <1>3
<1> HIDE DEF tasks
<1>5. /\ task' \in [Callers -> Task] /\ task'[p] = Idle
      /\ \A c \in Callers \ {p, Worker} : task'[c] = task[c]
      /\ task'[Worker].todo = task[Worker].todo /\ task'[Worker].job = task[Worker].job
      /\ task'[Worker].at = task[Worker].at \/ (task[Worker].at = "idle" /\ task'[Worker].at = "begin")
  <2>1. CASE task' = tasks
    BY <1>3, <1>4, <2>1, CallersAre
  <2>2. CASE task' = Started(tasks)
    BY <1>3, <1>4, <2>2, StartedTasks, CallersAre
  <2> QED BY <1>1, <2>1, <2>2
<1>6. FilesGrow'
  BY <1>1 DEF WorkerInv, FilesGrow
<1>7. OneWriteEach'
  <2>1. \A c \in Callers : task'[c].at = task[c].at \/ task[c].at \in {"go", "idle"}
    BY <1>1, <1>3, <1>5, CallersAre
  <2>2. \A c \in Callers : task[c].at \in {"go", "idle"} => ~Waiting(c)
    BY DEF WorkerInv, OneWriteEach, Waiting
  <2> QED BY <1>1, <2>1, <2>2, TasksMove DEF WorkerInv
<1>8. HandsApart' /\ VerifiedCounted' /\ ProcessingIsOwned'
  <2>1. \A c \in Callers : task'[c].todo = task[c].todo
    BY <1>2, <1>3, <1>5, CallersAre
  <2>2. \A q \in Pollers : task'[q].at = task[q].at \/ (task[q].at = "go" /\ task'[q].at = "idle")
    BY <1>1, <1>2, <1>5, CallersAre
  <2> QED BY <1>1, <1>5, <2>1, <2>2, TasksRestarted
<1> QED BY <1>6, <1>7, <1>8 DEF WorkerInv

LEMMA WriteDoneKeeps ==
  ASSUME WorkerInv, WriteDone
  PROVE  WorkerInv'
<1>1. /\ writes # << >> /\ writes' = Tail(writes) /\ task' \in {task, Started(task)}
      /\ UNCHANGED <<memory, created, recovered, verified, writeErrors, crashes>>
  BY DEF WriteDone
<1>2. task \in [Callers -> Task] /\ writes \in Seq(Write) /\ OneWriteEach
  BY DEF WorkerInv, HandsApart, FilesGrow
<1>3. /\ task' \in [Callers -> Task]
      /\ \A c \in Callers \ {Worker} : task'[c] = task[c]
      /\ task'[Worker].todo = task[Worker].todo /\ task'[Worker].job = task[Worker].job
      /\ task'[Worker].at = task[Worker].at \/ (task[Worker].at = "idle" /\ task'[Worker].at = "begin")
  <2>1. CASE task' = task
    BY <1>2, <2>1
  <2>2. CASE task' = Started(task)
    BY <1>2, <2>2, StartedTasks
  <2> QED BY <1>1, <2>1, <2>2
<1>4. FilesGrow'
  BY WriteDoneGrows DEF WorkerInv
<1>5. OneWriteEach'
  <2>1. \A c \in Callers : task'[c].at = task[c].at \/ task[c].at = "idle"
    BY <1>3
  <2> QED BY <1>1, <1>2, <2>1, WriteGone
<1>6. HandsApart' /\ VerifiedCounted' /\ ProcessingIsOwned'
  <2>1. \A c \in Callers : task'[c].todo = task[c].todo
    BY <1>3
  <2>2. \A q \in Pollers : task'[q].at = task[q].at
    BY <1>3, CallersAre
  <2> QED BY <1>1, <1>3, <2>1, <2>2, TasksRestarted
<1> QED BY <1>4, <1>5, <1>6 DEF WorkerInv

LEMMA WriteFailsKeeps ==
  ASSUME WorkerInv, WriteFails
  PROVE  WorkerInv'
<1>0. PICK by : by = Head(writes).by
  OBVIOUS
<1>1. /\ writes # << >> /\ writeErrors' = writeErrors + 1
      /\ UNCHANGED <<disk, created, recovered, acked, verified, crashes>>
  BY DEF WriteFails
<1>2. /\ task \in [Callers -> Task] /\ writes \in Seq(Write) /\ OneWriteEach
      /\ memory \in [Uploads -> JobStatus] /\ writeErrors \in Nat
  BY DEF WorkerInv, HandsApart, FilesGrow, Content
<1>3. FilesGrow'
  <2>1. task[Worker].at = "certify" => task[Worker].job \in Known(memory)
    BY DEF WorkerInv, HandsApart, Known
  <2> QED BY <2>1, WriteFailsGrows DEF WorkerInv
<1>4. ProcessingIsOwned'
  BY <1>1, <1>2 DEF ProcessingIsOwned
<1>5. by \in Callers => task[by].at \in {"recover", "start", "certify", "fail"}
  BY <1>0, <1>1, <1>2, TailOfWrites DEF OneWriteEach
<1>6. CASE by = Worker /\ task[Worker].at = "certify"
  <2>0. PICK j : j = task[Worker].job
    OBVIOUS
  <2>1. /\ memory' = [memory EXCEPT ![j] = "failed"]
        /\ writes' = Append(Tail(writes), [content |-> memory', by |-> Worker])
        /\ task' = [task EXCEPT ![Worker].at = "fail"]
    BY <1>0, <1>6, <2>0 DEF WriteFails
  <2>2. j \in Uploads /\ memory[j] \in {"certified", "failed"} /\ recovered
    BY <1>6, <2>0, CallersAre DEF WorkerInv, HandsApart
  <2>3. /\ task' \in [Callers -> Task] /\ task'[Worker].at = "fail" /\ task'[Worker].job = j
        /\ \A d \in Callers : task'[d].todo = task[d].todo
        /\ \A d \in Callers \ {Worker} : task'[d] = task[d]
        /\ memory'[j] = "failed" /\ \A k \in Uploads \ {j} : memory'[k] = memory[k]
    BY <1>2, <2>0, <2>1, <2>2, CallersAre DEF Task, Stages
  <2>4. OneWriteEach'
    <3>1. /\ Tail(writes) \in Seq(Write) /\ Head(writes) = writes[1] /\ 1 \in DOMAIN writes
          /\ \A i \in DOMAIN Tail(writes) :
               i \in Nat \ {0} /\ i + 1 \in DOMAIN writes /\ Tail(writes)[i] = writes[i + 1]
      BY <1>1, <1>2, TailOfWrites
    <3> DEFINE w == [content |-> memory', by |-> Worker]
               rest == Tail(writes)
    <3>2. w.by = Worker /\ writes' = Append(rest, w)
      BY <2>1
    <3> HIDE DEF w, rest
    <3>3. /\ writes'[Len(rest) + 1] = w /\ Len(rest) \in Nat
          /\ DOMAIN writes' = 1..(Len(rest) + 1) /\ DOMAIN rest = 1..Len(rest)
          /\ \A i \in DOMAIN rest : writes'[i] = rest[i]
      BY <3>1, <3>2 DEF rest
    <3>4. \A i \in DOMAIN rest :
            /\ rest[i].by # Worker
            /\ rest[i].by \in Callers =>
                 /\ task[rest[i].by].at \in {"recover", "start", "certify", "fail"}
                 /\ \A k \in DOMAIN rest : rest[k].by = rest[i].by => k = i
      <4> SUFFICES ASSUME NEW i \in DOMAIN rest
                   PROVE  /\ rest[i].by # Worker
                          /\ rest[i].by \in Callers =>
                               /\ task[rest[i].by].at \in {"recover", "start", "certify", "fail"}
                               /\ \A k \in DOMAIN rest : rest[k].by = rest[i].by => k = i
        OBVIOUS
      <4>1. i + 1 \in DOMAIN writes /\ rest[i] = writes[i + 1] /\ i + 1 # 1 /\ i \in Nat
        BY <3>1 DEF rest
      <4>2. rest[i].by # Worker
        BY <1>0, <1>2, <1>6, <3>1, <4>1, CallersAre DEF OneWriteEach
      <4>3. ASSUME rest[i].by \in Callers, NEW k \in DOMAIN rest, rest[k].by = rest[i].by PROVE k = i
        <5>1. k + 1 \in DOMAIN writes /\ rest[k] = writes[k + 1] /\ k \in Nat
          BY <3>1 DEF rest
        <5>2. k + 1 = i + 1
          BY <1>2, <4>1, <4>3, <5>1 DEF OneWriteEach
        <5> QED BY <4>1, <5>1, <5>2
      <4> QED BY <1>2, <4>1, <4>2, <4>3 DEF OneWriteEach
    <3>5. ASSUME NEW i \in DOMAIN writes', writes'[i].by \in Callers
          PROVE  /\ task'[writes'[i].by].at \in {"recover", "start", "certify", "fail"}
                 /\ \A k \in DOMAIN writes' : writes'[k].by = writes'[i].by => k = i
      <4>1. CASE i = Len(rest) + 1
        <5>1. ASSUME NEW k \in DOMAIN writes', k # i PROVE writes'[k].by # Worker
          <6>1. k \in DOMAIN rest
            BY <3>3, <4>1, <5>1
          <6> QED BY <3>3, <3>4, <6>1
        <5> QED BY <2>3, <3>2, <3>3, <4>1, <5>1
      <4>2. CASE i # Len(rest) + 1
        <5>1. i \in DOMAIN rest /\ writes'[i] = rest[i]
          BY <3>3, <4>2
        <5>2. ASSUME NEW k \in DOMAIN writes', writes'[k].by = writes'[i].by
              PROVE  k \in DOMAIN rest /\ writes'[k] = rest[k]
          <6>1. k # Len(rest) + 1
            BY <3>2, <3>3, <3>4, <5>1, <5>2
          <6> QED BY <3>3, <6>1
        <5> QED BY <2>3, <3>4, <3>5, <5>1, <5>2
      <4> QED BY <4>1, <4>2
    <3> QED BY <3>5 DEF OneWriteEach
  <2>5. HandsApart'
    <3>1. \A d \in Callers : /\ task'[d].at \notin {"idle", "begin"} => recovered
                             /\ task'[d].at # "recover" => task'[d].todo = {}
      BY <1>6, <2>2, <2>3 DEF WorkerInv, HandsApart
    <3>2. \A p \in Pollers : task'[p].at \in {"idle", "recover", "go"}
      BY <2>3, CallersAre DEF WorkerInv, HandsApart
    <3>3. ASSUME NEW d \in Callers, NEW k \in task'[d].todo
          PROVE  /\ memory'[k] = "processing" /\ task'[Worker].job # k
                 /\ \A e \in Callers \ {d} : k \notin task'[e].todo
      <4>1. k \in task[d].todo /\ k \in Uploads /\ memory[k] = "processing"
        BY <1>2, <2>3, <3>3 DEF WorkerInv, HandsApart, Task
      <4>2. k # j
        BY <2>2, <4>1
      <4> QED BY <2>0, <2>3, <4>1, <4>2 DEF WorkerInv, HandsApart
    <3> QED BY <1>1, <2>2, <2>3, <3>1, <3>2, <3>3 DEF WorkerInv, HandsApart
  <2>6. VerifiedCounted'
    <3>1. ASSUME NEW k \in Uploads, Untouched(k)' PROVE Untouched(k)
      BY <1>1, <2>3, <3>1, CallersAre DEF Untouched
    <3> QED BY <1>1, <3>1 DEF WorkerInv, VerifiedCounted
  <2> QED BY <1>3, <1>4, <2>4, <2>5, <2>6 DEF WorkerInv
<1>7. CASE ~(by = Worker /\ task[Worker].at = "certify")
  <2>1. /\ writes' = Tail(writes) /\ UNCHANGED memory
        /\ task' = IF by \in Callers THEN [task EXCEPT ![by] = Idle] ELSE task
    BY <1>0, <1>7 DEF WriteFails
  <2>2. Idle \in Task /\ Idle.at = "idle" /\ Idle.todo = {} /\ Idle.job = Nothing
    BY DEF Idle, Task, Stages
  <2>3. /\ task' \in [Callers -> Task]
        /\ \A d \in Callers : task'[d] = task[d] \/ (d = by /\ task'[d] = Idle)
    BY <1>2, <2>1, <2>2
  <2>4. OneWriteEach'
    <3>1. \A c \in Callers : task'[c].at = task[c].at \/ c = Head(writes).by
      BY <1>0, <2>3
    <3> QED BY <1>1, <1>2, <2>1, <3>1, WriteGone
  <2>5. HandsApart'
    <3>1. \A d \in Callers : /\ task'[d].at \notin {"idle", "begin"} => recovered
                             /\ task'[d].at # "recover" => task'[d].todo = {}
                             /\ task'[d].todo \subseteq task[d].todo
      BY <2>2, <2>3 DEF WorkerInv, HandsApart
    <3>2. \A p \in Pollers : task'[p].at \in {"idle", "recover", "go"}
      BY <2>2, <2>3, CallersAre DEF WorkerInv, HandsApart
    <3>3. task'[Worker] = task[Worker] \/ task'[Worker] = Idle
      BY <2>3, CallersAre
    <3>4. ASSUME NEW d \in Callers, NEW k \in task'[d].todo
          PROVE  /\ memory'[k] = "processing" /\ task'[Worker].job # k
                 /\ \A e \in Callers \ {d} : k \notin task'[e].todo
      <4>1. k \in task[d].todo /\ k \in Uploads
        BY <1>2, <3>1, <3>4 DEF Task
      <4> QED BY <2>1, <2>2, <3>1, <3>3, <4>1, WorkerConstants DEF WorkerInv, HandsApart
    <3> QED BY <1>1, <2>1, <2>2, <2>3, <3>1, <3>2, <3>3, <3>4 DEF WorkerInv, HandsApart
  <2>6. VerifiedCounted'
    <3>1. ASSUME NEW k \in Uploads, Untouched(k)' PROVE Untouched(k)
      BY <1>1, <2>1, <2>2, <2>3, <3>1, CallersAre DEF Untouched
    <3> QED BY <1>1, <3>1 DEF WorkerInv, VerifiedCounted
  <2> QED BY <1>3, <1>4, <2>4, <2>5, <2>6 DEF WorkerInv
<1> QED BY <1>6, <1>7

LEMMA DeathKeeps ==
  ASSUME WorkerInv, ProcessDies
  PROVE  WorkerInv'
<1>1. /\ crashes' = crashes + 1 /\ memory' = disk /\ writes' = << >> /\ recovered' = FALSE
      /\ task' = [c \in Callers |-> Idle] /\ UNCHANGED <<verified, writeErrors>>
  BY DEF ProcessDies
<1>2. Idle \in Task /\ Idle.at = "idle" /\ Idle.todo = {} /\ Idle.job = Nothing
  BY DEF Idle, Task, Stages
<1>3. FilesGrow'
  BY DeathGrows DEF WorkerInv
<1>4. OneWriteEach'
  BY <1>1 DEF OneWriteEach
<1>5. HandsApart'
  BY <1>1, <1>2, CallersAre DEF HandsApart
<1>6. VerifiedCounted'
  BY <1>1 DEF WorkerInv, VerifiedCounted
<1>7. ProcessingIsOwned'
  BY <1>1 DEF ProcessingIsOwned
<1> QED BY <1>3, <1>4, <1>5, <1>6, <1>7 DEF WorkerInv

LEMMA WorkerInvKept == WorkerInv /\ [WorkerNext]_workerVars => WorkerInv'
<1> SUFFICES ASSUME WorkerInv, [WorkerNext]_workerVars PROVE WorkerInv'
  OBVIOUS
<1>1. CASE UNCHANGED workerVars
  <2>1. FilesGrow' /\ OneWriteEach' /\ HandsApart'
    BY <1>1 DEF WorkerInv, FilesGrow, OneWriteEach, HandsApart, workerVars
  <2>2. VerifiedCounted' /\ ProcessingIsOwned'
    BY <1>1 DEF WorkerInv, VerifiedCounted, Untouched, ProcessingIsOwned, JobsIn, workerVars
  <2> QED BY <2>1, <2>2 DEF WorkerInv
<1>2. ASSUME NEW c \in Callers, Recovery(c) PROVE WorkerInv'
  BY <1>2, BeginKeeps, RecoverOneKeeps, RecoveryDoneKeeps DEF Recovery
<1>3. CASE WorkerStep
  BY <1>2, <1>3, TakeNextKeeps, VerifyKeeps, GoOnKeeps, DecideKeeps, CallersAre DEF WorkerStep
<1>4. ASSUME NEW p \in Pollers, PollerStep(p) PROVE WorkerInv'
  BY <1>2, <1>4, LookKeeps, CallersAre DEF PollerStep
<1> QED BY <1>1, <1>3, <1>4, EnqueueKeeps, WriteDoneKeeps, WriteFailsKeeps, DeathKeeps DEF WorkerNext

LEMMA WorkerIsSafe == WorkerInv => JobsAreSafe
<1> SUFFICES ASSUME WorkerInv PROVE JobsAreSafe
  OBVIOUS
<1>1. ASSUME NEW c \in Callers
      PROVE  Cardinality({i \in DOMAIN writes : writes[i].by = c}) <= 1
  <2> DEFINE mine == {i \in DOMAIN writes : writes[i].by = c}
  <2>1. \A i, k \in mine : i = k
    BY DEF WorkerInv, OneWriteEach
  <2> HIDE DEF mine
  <2>2. CASE mine = {}
    BY <2>2, FS_EmptySet DEF mine
  <2>3. ASSUME NEW i \in mine PROVE Cardinality(mine) = 1
    <3>1. mine = {i}
      BY <2>1
    <3> QED BY <3>1, FS_Singleton
  <2> QED BY <2>2, <2>3 DEF mine
<1>2. ASSUME NEW c \in Callers
      PROVE  /\ task[c].todo \subseteq Uploads /\ task[c].job \in Uploads \cup {Nothing}
             /\ task[c].at \in IF c = Worker
                  THEN {"idle", "begin", "recover", "go", "start", "verify", "certify", "fail"}
                  ELSE {"idle", "recover", "go"}
  BY CallersAre DEF WorkerInv, HandsApart, Task, Stages
<1>3. WorkerTypeOK
  <2>1. /\ memory \in [Uploads -> JobStatus] /\ disk \in [Uploads -> JobStatus]
        /\ {j \in Uploads : memory[j] # "none"} \subseteq Range(created)
        /\ acked \subseteq Range(created) /\ IsInjective(created)
    BY DEF WorkerInv, FilesGrow, Content, Known
  <2>2. recovered \in BOOLEAN /\ DOMAIN task = Callers
    BY DEF WorkerInv, HandsApart
  <2> QED BY <1>1, <1>2, <2>1, <2>2 DEF WorkerTypeOK
<1>4. AcknowledgedSurvives
  BY DEF WorkerInv, FilesGrow, AcknowledgedSurvives, Known, Last
<1>5. VerifiedOncePerProcess
  BY DEF WorkerInv, VerifiedCounted, VerifiedOncePerProcess
<1> QED BY <1>3, <1>4, <1>5 DEF JobsAreSafe, WorkerInv

(* A job whose creation was answered is in the file for good, a job in     *)
(* processing is in one pair of hands, and no process verifies a job       *)
(* twice, for any number of jobs and pollers, writes that fail and         *)
(* processes that die at any point.                                        *)
THEOREM JobsStaySafe == WorkerSpec => []JobsAreSafe
<1>1. WorkerInit => WorkerInv
  BY WorkerInvInit
<1>2. WorkerInv /\ [WorkerNext]_workerVars => WorkerInv'
  BY WorkerInvKept
<1>3. WorkerInv => JobsAreSafe
  BY WorkerIsSafe
<1> QED BY <1>1, <1>2, <1>3, PTL DEF WorkerSpec

-----------------------------------------------------------------------------
(* Uploads: the bytes of the chunks received.                              *)

Below(chunks, size, f, i) ==
  IF i = 0 THEN 0 ELSE f[i - 1] + IF i - 1 \in chunks THEN ChunkBytes(i - 1, size) ELSE 0

LEMMA ChunksCoverTheFile ==
  ASSUME NEW size \in Nat \ {0}
  PROVE  TotalChunks(size) \in Nat \ {0} /\ FileSize <= TotalChunks(size) * size
<1> DEFINE a == FileSize + size - 1
           n == a \div size
<1>1. a \in Nat /\ FileSize \in Nat \ {0} /\ size \in Nat /\ size > 0 /\ a >= size
  BY UploadConstants
<1> HIDE DEF a
<1>2. n \in Int /\ a < size * (n + 1)
  BY <1>1, SMTT(30)
<1> HIDE DEF n
<1>3. size * (n + 1) = n * size + size /\ n * size \in Int
  BY <1>1, <1>2
<1>4. n * size >= FileSize
  BY <1>1, <1>2, <1>3 DEF a
<1>5. n > 0
  BY <1>1, <1>2, <1>4
<1> QED BY <1>2, <1>4, <1>5 DEF TotalChunks, n, a

LEMMA BytesAreCounted ==
  ASSUME NEW chunks, NEW size \in Nat \ {0}
  PROVE  \E f : /\ f = [i \in 0..TotalChunks(size) |-> Below(chunks, size, f, i)]
                /\ BytesFor(chunks, size) = f[TotalChunks(size)]
<1> DEFINE Fits(f, n) == f = [i \in 0..n |-> Below(chunks, size, f, i)]
           T == {n \in Nat : \E f : Fits(f, n)}
<1>1. 0 \in T
  <2> DEFINE f == [i \in 0..0 |-> 0]
  <2>1. \A i \in 0..0 : Below(chunks, size, f, i) = 0
    BY DEF Below
  <2>2. Fits(f, 0)
    BY <2>1
  <2> QED BY <2>2
<1>2. ASSUME NEW n \in Nat, n \in T PROVE n + 1 \in T
  <2>1. PICK f : Fits(f, n)
    BY <1>2
  <2> DEFINE last == Below(chunks, size, f, n + 1)
             g == [i \in 0..(n + 1) |-> IF i = n + 1 THEN last ELSE f[i]]
  <2>2. ASSUME NEW i \in 0..(n + 1) PROVE g[i] = Below(chunks, size, g, i)
    <3>1. i # 0 => i - 1 \in 0..n /\ g[i - 1] = f[i - 1]
      OBVIOUS
    <3>2. Below(chunks, size, g, i) = Below(chunks, size, f, i)
      BY <3>1 DEF Below
    <3>3. i # n + 1 => i \in 0..n /\ f[i] = Below(chunks, size, f, i)
      BY <2>1
    <3> QED BY <3>2, <3>3
  <2>3. Fits(g, n + 1)
    BY <2>2
  <2> HIDE DEF Fits, g
  <2> QED BY <2>3
<1>3. TotalChunks(size) \in T
  <2> HIDE DEF T
  <2>1. Nat \subseteq T
    BY <1>1, <1>2, NumberInduction
  <2> QED BY <2>1, ChunksCoverTheFile
<1>4. \E f : f = [i \in 0..TotalChunks(size) |-> Below(chunks, size, f, i)]
  BY <1>3
<1> DEFINE F == CHOOSE f : f = [i \in 0..TotalChunks(size) |-> Below(chunks, size, f, i)]
<1>5. F = [i \in 0..TotalChunks(size) |-> Below(chunks, size, F, i)]
  BY <1>4
<1>6. BytesFor(chunks, size) = F[TotalChunks(size)]
  BY DEF BytesFor, Below
<1> QED BY <1>5, <1>6

LEMMA BytesAreNumbers ==
  ASSUME NEW chunks, NEW size \in Nat \ {0}
  PROVE  /\ BytesFor(chunks, size) \in Nat
         /\ chunks = {} => BytesFor(chunks, size) = 0
<1>1. PICK f : /\ f = [i \in 0..TotalChunks(size) |-> Below(chunks, size, f, i)]
               /\ BytesFor(chunks, size) = f[TotalChunks(size)]
  BY BytesAreCounted
<1> DEFINE T == {n \in Nat : n <= TotalChunks(size) => f[n] \in Nat /\ (chunks = {} => f[n] = 0)}
<1>2. TotalChunks(size) \in Nat
  BY ChunksCoverTheFile
<1>3. 0 \in T
  BY <1>1, <1>2 DEF Below
<1>4. ASSUME NEW n \in Nat, n \in T PROVE n + 1 \in T
  <2>1. n * size \in Nat /\ FileSize \in Nat
    BY UploadConstants
  <2>2. ChunkBytes(n, size) \in Nat
    BY <2>1 DEF ChunkBytes
  <2> SUFFICES ASSUME n + 1 <= TotalChunks(size)
               PROVE  f[n + 1] \in Nat /\ (chunks = {} => f[n + 1] = 0)
    OBVIOUS
  <2>3. f[n + 1] = f[n] + IF n \in chunks THEN ChunkBytes(n, size) ELSE 0
    BY <1>1, <1>2 DEF Below
  <2> QED BY <1>2, <1>4, <2>2, <2>3
<1> HIDE DEF T
<1>5. Nat \subseteq T
  BY <1>3, <1>4, NumberInduction
<1>6. TotalChunks(size) \in T
  BY <1>2, <1>5
<1> QED BY <1>1, <1>2, <1>6 DEF T

(* All the chunks make up the file, the last one at its own length.        *)
LEMMA AllChunksMakeTheFile ==
  ASSUME NEW size \in Nat \ {0}
  PROVE  BytesFor(0..(TotalChunks(size) - 1), size) = FileSize
<1> DEFINE total == TotalChunks(size)
           chunks == 0..(total - 1)
           upTo(n) == IF n * size < FileSize THEN n * size ELSE FileSize
<1>1. PICK f : /\ f = [i \in 0..total |-> Below(chunks, size, f, i)]
               /\ BytesFor(chunks, size) = f[total]
  BY BytesAreCounted
<1> DEFINE T == {n \in Nat : n <= total => f[n] = upTo(n)}
<1>2. total \in Nat \ {0} /\ FileSize <= total * size /\ FileSize \in Nat /\ size \in Nat
  BY ChunksCoverTheFile, UploadConstants
<1>3. 0 \in T
  BY <1>1, <1>2 DEF Below
<1>4. ASSUME NEW n \in Nat, n \in T PROVE n + 1 \in T
  <2> SUFFICES ASSUME n + 1 <= total PROVE f[n + 1] = upTo(n + 1)
    OBVIOUS
  <2>1. n * size \in Nat /\ (n + 1) * size = n * size + size
    BY <1>2
  <2>2. n \in 0..(total - 1) /\ n + 1 \in 0..total /\ n + 1 # 0 /\ (n + 1) - 1 = n
    BY <1>2
  <2> HIDE DEF total
  <2>3. f[n + 1] = f[n] + ChunkBytes(n, size)
    BY <1>1, <2>2 DEF Below
  <2>4. f[n] = upTo(n)
    BY <1>2, <1>4
  <2> QED BY <1>2, <2>1, <2>3, <2>4 DEF ChunkBytes
<1> HIDE DEF T
<1>5. Nat \subseteq T
  BY <1>3, <1>4, NumberInduction
<1>6. f[total] = upTo(total)
  BY <1>2, <1>5 DEF T
<1>7. upTo(total) = FileSize
  BY <1>2
<1> QED BY <1>1, <1>6, <1>7
-----------------------------------------------------------------------------
(* Uploads: the invariant.                                                 *)

UploadStatus == {"in_progress", "completed", "aborted", "expired"}

Session ==
  [chunkSize : ChunkSizes, status : UploadStatus, chunks : SUBSET Nat, bytes : Nat,
   attempt : Nat, restarts : Nat, updated : Nat, expires : Nat]

Request ==
  [at : {"idle", "starting", "candidate", "queued", "holding"},
   kind : {"get", "start", "resume", "restart", "abort", "complete", "progress"},
   now : Nat, session : Nat, tag : Session \cup {NoTag}, arg : {0} \cup ChunkSizes \cup Reports,
   todo : Seq(Nat), saw : Session \cup {NoTag}]

UploadTypes ==
  /\ clock \in Nat /\ requests \in Nat
  /\ sessions \in Seq(Session) /\ received \in Seq(SUBSET Nat)
  /\ holders \in Seq(Seq(Clients)) /\ starts \in Seq(Clients)
  /\ DOMAIN holders = DOMAIN sessions /\ DOMAIN received = DOMAIN sessions
  /\ request \in [Clients -> Request]

(* What a session says of its chunks.                                      *)
Whole(s) ==
  /\ s.chunks \subseteq 0..(TotalChunks(s.chunkSize) - 1)
  /\ s.bytes = BytesFor(s.chunks, s.chunkSize)
  /\ s.status = "completed" => s.chunks = 0..(TotalChunks(s.chunkSize) - 1)

SessionsWhole == \A i \in DOMAIN sessions : Whole(sessions[i]) /\ received[i] \subseteq sessions[i].chunks

InLine(r, i) == r.at \in {"queued", "holding"} /\ r.session = i

(* Who waits for the lock of a session, or has it.                         *)
SessionLines ==
  \A i \in DOMAIN sessions :
    IsInjective(holders[i]) /\ Range(holders[i]) = {c \in Clients : InLine(request[c], i)}

StartLine == IsInjective(starts) /\ Range(starts) = {c \in Clients : request[c].kind = "start"}

PastTheStart(r) == r.kind = "start" /\ r.at \in {"candidate", "queued", "holding"}

FirstInLine ==
  \A c \in Clients :
    /\ request[c].at = "holding" => Head(holders[request[c].session]) = c
    /\ PastTheStart(request[c]) => Head(starts) = c

Formed(r) ==
  /\ r.kind = "start" => r.at # "idle" /\ r.arg \in ChunkSizes
  /\ r.kind = "progress" => r.arg \in Reports
  /\ r.at \in {"starting", "candidate"} => r.kind = "start"
  /\ r.at \in {"queued", "holding"} => r.session \in DOMAIN sessions
  /\ r.at # "idle" \/ r.kind = "get"
  /\ Range(r.todo) \subseteq DOMAIN sessions

RequestsFormed == \A c \in Clients : Formed(request[c])

(* Open since it was opened.                                               *)
Unbroken(s) == s.status = "in_progress" /\ s.restarts = 0

(* A start that found a session unbroken has not yet been to it.           *)
CandidatesLeft ==
  \A c \in Clients : PastTheStart(request[c]) =>
    \A i \in DOMAIN sessions : Unbroken(sessions[i]) /\ sessions[i].chunkSize = request[c].arg =>
      i \in Range(request[c].todo) \/ InLine(request[c], i)

NoneOpenedBeside ==
  \A i, k \in DOMAIN sessions : i < k /\ sessions[i].chunkSize = sessions[k].chunkSize =>
    ~Unbroken(sessions[i])

UploadInv ==
  /\ UploadTypes /\ SessionsWhole /\ RequestsFormed /\ WritesWhatItRead
  /\ SessionLines /\ StartLine /\ FirstInLine
  /\ CandidatesLeft /\ NoneOpenedBeside

LEMMA NoRequestIsOne ==
  /\ NoRequest \in Request
  /\ NoRequest.at = "idle" /\ NoRequest.kind = "get" /\ NoRequest.todo = << >> /\ NoRequest.tag = NoTag
BY DEF NoRequest, Request

LEMMA UploadInvInit == UploadInit => UploadInv
<1> SUFFICES ASSUME UploadInit PROVE UploadInv
  OBVIOUS
<1>1. /\ clock = 0 /\ sessions = << >> /\ starts = << >> /\ holders = << >>
      /\ request = [c \in Clients |-> NoRequest] /\ requests = 0 /\ received = << >>
  BY DEF UploadInit
<1>2. UploadTypes
  BY <1>1, NoRequestIsOne DEF UploadTypes
<1>3. \A c \in Clients : request[c] = NoRequest
  BY <1>1
<1>4. SessionsWhole /\ SessionLines /\ NoneOpenedBeside
  BY <1>1 DEF SessionsWhole, SessionLines, NoneOpenedBeside
<1>5. RequestsFormed
  BY <1>3, NoRequestIsOne DEF RequestsFormed, Formed, Range
<1>6. WritesWhatItRead /\ FirstInLine /\ CandidatesLeft
  BY <1>3, NoRequestIsOne DEF WritesWhatItRead, FirstInLine, CandidatesLeft, PastTheStart
<1>7. StartLine
  <2>1. Range(starts) = {} /\ IsInjective(starts)
    BY <1>1 DEF Range, IsInjective
  <2> QED BY <1>3, <2>1, NoRequestIsOne DEF StartLine
<1> QED BY <1>2, <1>4, <1>5, <1>6, <1>7 DEF UploadInv

LEMMA UploadStutter ==
  ASSUME UploadInv, UNCHANGED <<sessions, starts, holders, request, received>>, clock' \in Nat, requests' \in Nat
  PROVE  UploadInv'
<1>1. UploadTypes' /\ SessionsWhole' /\ RequestsFormed' /\ WritesWhatItRead'
  <2>1. UploadTypes'
    BY DEF UploadInv, UploadTypes
  <2>2. SessionsWhole'
    BY DEF UploadInv, SessionsWhole
  <2>3. RequestsFormed'
    BY DEF UploadInv, RequestsFormed, Formed
  <2>4. WritesWhatItRead'
    BY DEF UploadInv, WritesWhatItRead
  <2> QED BY <2>1, <2>2, <2>3, <2>4
<1>2. SessionLines' /\ StartLine' /\ FirstInLine'
  BY DEF UploadInv, SessionLines, StartLine, FirstInLine, InLine, PastTheStart
<1>3. CandidatesLeft' /\ NoneOpenedBeside'
  BY DEF UploadInv, CandidatesLeft, NoneOpenedBeside, Unbroken, InLine, PastTheStart
<1> QED BY <1>1, <1>2, <1>3 DEF UploadInv

-----------------------------------------------------------------------------
(* Uploads: the lines before the locks.                                    *)

(* What a step of c does to the requests.                                  *)
OneMoves(c) ==
  request' \in [Clients -> Request] /\ \A d \in Clients \ {c} : request'[d] = request[d]

LinesHold ==
  /\ holders' \in Seq(Seq(Clients)) /\ DOMAIN holders' = DOMAIN holders /\ SessionLines'
  /\ \A d \in Clients : request'[d].at = "holding" => Head(holders'[request'[d].session]) = d

StartsHold ==
  /\ starts' \in Seq(Clients) /\ StartLine'
  /\ \A d \in Clients : PastTheStart(request'[d]) => Head(starts') = d

LEMMA JoinLine ==
  ASSUME UploadInv, NEW c \in Clients, NEW s \in DOMAIN sessions, OneMoves(c),
         request[c].at \notin {"queued", "holding"},
         request'[c].at = "queued", request'[c].session = s,
         Join(c, s), DOMAIN sessions' = DOMAIN sessions
  PROVE  LinesHold
<1> DEFINE line == holders[s]
<1>1. /\ holders \in Seq(Seq(Clients)) /\ DOMAIN holders = DOMAIN sessions /\ line \in Seq(Clients)
      /\ holders' = [holders EXCEPT ![s] = Append(line, c)]
  BY DEF UploadInv, UploadTypes, Join
<1>2. Range(line) = {d \in Clients : InLine(request[d], s)} /\ IsInjective(line) /\ c \notin Range(line)
  BY DEF UploadInv, SessionLines, InLine
<1> DEFINE longer == Append(line, c)
<1>3. longer \in Seq(Clients) /\ Range(longer) = Range(line) \cup {c} /\ IsInjective(longer)
  BY <1>1, <1>2, AppendElement
<1>4. line # << >> => Head(longer) = Head(line)
  BY <1>1
<1> HIDE DEF longer, line
<1>5. /\ holders' \in Seq(Seq(Clients)) /\ DOMAIN holders' = DOMAIN holders
      /\ holders'[s] = longer /\ \A i \in DOMAIN holders \ {s} : holders'[i] = holders[i]
  BY <1>1, <1>3, ReplacedElement DEF longer, line
<1>6. SessionLines'
  <2>1. ASSUME NEW i \in DOMAIN sessions
        PROVE  /\ IsInjective(holders'[i])
               /\ Range(holders'[i]) = {d \in Clients : InLine(request'[d], i)}
    <3>1. CASE i = s
      BY <1>2, <1>3, <1>5, <3>1 DEF OneMoves, InLine
    <3>2. CASE i # s
      <4>1. \A d \in Clients : InLine(request'[d], i) <=> InLine(request[d], i)
        BY <3>2 DEF OneMoves, InLine
      <4>2. holders'[i] = holders[i] /\ IsInjective(holders[i])
            /\ Range(holders[i]) = {d \in Clients : InLine(request[d], i)}
        BY <1>1, <1>5, <3>2 DEF UploadInv, SessionLines
      <4> QED BY <4>1, <4>2
    <3> QED BY <3>1, <3>2
  <2> QED BY <2>1 DEF SessionLines
<1>7. ASSUME NEW d \in Clients, request'[d].at = "holding"
      PROVE  Head(holders'[request'[d].session]) = d
  <2>1. d # c /\ request'[d] = request[d]
    BY <1>7 DEF OneMoves
  <2>2. request[d].session \in DOMAIN sessions /\ Head(holders[request[d].session]) = d
    BY <1>7, <2>1 DEF UploadInv, RequestsFormed, Formed, FirstInLine
  <2>3. request[d].session = s => d \in Range(line)
    BY <1>2, <1>7, <2>1 DEF InLine
  <2>4. d \in Range(line) => line # << >>
    BY DEF Range
  <2> QED BY <1>1, <1>4, <1>5, <2>1, <2>2, <2>3, <2>4 DEF line
<1> QED BY <1>5, <1>6, <1>7 DEF LinesHold

LEMMA LeaveLine ==
  ASSUME UploadInv, NEW c \in Clients, NEW s \in DOMAIN sessions, OneMoves(c),
         InLine(request[c], s), Head(holders[s]) = c,
         request'[c].at \notin {"queued", "holding"},
         Unlock(c, s), DOMAIN sessions' = DOMAIN sessions
  PROVE  LinesHold
<1> DEFINE line == holders[s]
           shorter == Without(line, c)
<1>1. /\ holders \in Seq(Seq(Clients)) /\ DOMAIN holders = DOMAIN sessions /\ line \in Seq(Clients)
      /\ holders' = [holders EXCEPT ![s] = shorter]
  BY DEF UploadInv, UploadTypes, Unlock
<1>2. Range(line) = {d \in Clients : InLine(request[d], s)} /\ IsInjective(line)
  BY DEF UploadInv, SessionLines
<1>3. shorter \in Seq(Clients) /\ Range(shorter) = Range(line) \ {c} /\ IsInjective(shorter)
  BY <1>1, <1>2, WithoutElement
<1> HIDE DEF shorter, line
<1>4. /\ holders' \in Seq(Seq(Clients)) /\ DOMAIN holders' = DOMAIN holders
      /\ holders'[s] = shorter /\ \A i \in DOMAIN holders \ {s} : holders'[i] = holders[i]
  BY <1>1, <1>3, ReplacedElement
<1>5. SessionLines'
  <2>1. ASSUME NEW i \in DOMAIN sessions
        PROVE  /\ IsInjective(holders'[i])
               /\ Range(holders'[i]) = {d \in Clients : InLine(request'[d], i)}
    <3>1. CASE i = s
      BY <1>2, <1>3, <1>4, <3>1 DEF OneMoves, InLine
    <3>2. CASE i # s
      <4>1. \A d \in Clients : InLine(request'[d], i) <=> InLine(request[d], i)
        BY <3>2 DEF OneMoves, InLine
      <4>2. holders'[i] = holders[i] /\ IsInjective(holders[i])
            /\ Range(holders[i]) = {d \in Clients : InLine(request[d], i)}
        BY <1>1, <1>4, <3>2 DEF UploadInv, SessionLines
      <4> QED BY <4>1, <4>2
    <3> QED BY <3>1, <3>2
  <2> QED BY <2>1 DEF SessionLines
<1>6. ASSUME NEW d \in Clients, request'[d].at = "holding"
      PROVE  Head(holders'[request'[d].session]) = d
  <2>1. d # c /\ request'[d] = request[d]
    BY <1>6 DEF OneMoves
  <2>2. request[d].session \in DOMAIN sessions /\ Head(holders[request[d].session]) = d
    BY <1>6, <2>1 DEF UploadInv, RequestsFormed, Formed, FirstInLine
  <2>3. request[d].session # s
    BY <2>1, <2>2
  <2> QED BY <1>1, <1>4, <2>1, <2>2, <2>3
<1> QED BY <1>4, <1>5, <1>6 DEF LinesHold

LEMMA SameLines ==
  ASSUME UploadInv, NEW c \in Clients, OneMoves(c), UNCHANGED holders,
         \A i \in DOMAIN sessions : InLine(request'[c], i) <=> InLine(request[c], i),
         request'[c].at = "holding" => Head(holders[request'[c].session]) = c,
         DOMAIN sessions' = DOMAIN sessions
  PROVE  LinesHold
<1>1. holders' \in Seq(Seq(Clients)) /\ DOMAIN holders' = DOMAIN holders
  BY DEF UploadInv, UploadTypes
<1>2. \A d \in Clients : \A i \in DOMAIN sessions : InLine(request'[d], i) <=> InLine(request[d], i)
  BY DEF OneMoves
<1>3. \A i \in DOMAIN sessions' : i \in DOMAIN sessions
  OBVIOUS
<1>4. SessionLines'
  BY <1>2, <1>3 DEF UploadInv, SessionLines
<1>5. \A d \in Clients : request'[d].at = "holding" => Head(holders'[request'[d].session]) = d
  BY DEF UploadInv, FirstInLine, OneMoves
<1> QED BY <1>1, <1>4, <1>5 DEF LinesHold

LEMMA SameStarts ==
  ASSUME UploadInv, NEW c \in Clients, OneMoves(c), UNCHANGED starts,
         request'[c].kind = "start" <=> request[c].kind = "start",
         PastTheStart(request'[c]) => Head(starts) = c
  PROVE  StartsHold
<1>1. starts' \in Seq(Clients)
  BY DEF UploadInv, UploadTypes
<1>2. \A d \in Clients : request'[d].kind = "start" <=> request[d].kind = "start"
  BY DEF OneMoves
<1>3. \A d \in Clients : PastTheStart(request'[d]) => Head(starts') = d
  BY DEF UploadInv, FirstInLine, OneMoves
<1> QED BY <1>1, <1>2, <1>3 DEF StartsHold, StartLine, UploadInv

LEMMA LeaveStarts ==
  ASSUME UploadInv, NEW c \in Clients, OneMoves(c), request'[c] = NoRequest,
         starts' = Without(starts, c), request[c].kind = "start" => Head(starts) = c
  PROVE  StartsHold
<1>1. starts \in Seq(Clients) /\ IsInjective(starts) /\ Range(starts) = {d \in Clients : request[d].kind = "start"}
  BY DEF UploadInv, UploadTypes, StartLine
<1>2. starts' \in Seq(Clients) /\ Range(starts') = Range(starts) \ {c} /\ IsInjective(starts')
  BY <1>1, WithoutElement
<1>3. StartLine'
  <2>1. \A d \in Clients : request'[d].kind = "start" <=> d # c /\ request[d].kind = "start"
    BY NoRequestIsOne DEF OneMoves
  <2> QED BY <1>1, <1>2, <2>1 DEF StartLine
<1>4. ASSUME NEW d \in Clients, PastTheStart(request'[d]) PROVE Head(starts') = d
  <2>1. d # c /\ PastTheStart(request[d]) /\ Head(starts) = d
    BY <1>4, NoRequestIsOne DEF OneMoves, PastTheStart, UploadInv, FirstInLine
  <2>2. c \notin Range(starts)
    BY <1>1, <2>1
  <2>3. Without(starts, c) = starts
    BY <1>1, <2>2, DroppingNothing DEF Without
  <2> QED BY <2>1, <2>3
<1> QED BY <1>2, <1>3, <1>4 DEF StartsHold

-----------------------------------------------------------------------------
(* Uploads: the sessions.                                                  *)

(* What a session may become while its number stays.                       *)
Follows(new, old) == new.chunkSize = old.chunkSize /\ (Unbroken(new) => Unbroken(old))

LEMMA SessionChanges ==
  ASSUME UploadInv, NEW s \in DOMAIN sessions, NEW new \in Session, NEW told \in SUBSET Nat,
         Whole(new), told \subseteq new.chunks, Follows(new, sessions[s]),
         sessions' = [sessions EXCEPT ![s] = new], received' = [received EXCEPT ![s] = told]
  PROVE  /\ sessions' \in Seq(Session) /\ received' \in Seq(SUBSET Nat)
         /\ DOMAIN sessions' = DOMAIN sessions /\ DOMAIN received' = DOMAIN sessions
         /\ sessions'[s] = new /\ \A i \in DOMAIN sessions \ {s} : sessions'[i] = sessions[i]
         /\ \A i \in DOMAIN sessions : Follows(sessions'[i], sessions[i])
         /\ SessionsWhole' /\ NoneOpenedBeside'
<1>1. /\ sessions \in Seq(Session) /\ received \in Seq(SUBSET Nat) /\ DOMAIN received = DOMAIN sessions
  BY DEF UploadInv, UploadTypes
<1>2. /\ sessions' \in Seq(Session) /\ DOMAIN sessions' = DOMAIN sessions
      /\ sessions'[s] = new /\ \A i \in DOMAIN sessions \ {s} : sessions'[i] = sessions[i]
  BY <1>1, ReplacedElement
<1>3. /\ received' \in Seq(SUBSET Nat) /\ DOMAIN received' = DOMAIN received
      /\ received'[s] = told /\ \A i \in DOMAIN received \ {s} : received'[i] = received[i]
  BY <1>1, ReplacedElement
<1>4. ASSUME NEW i \in DOMAIN sessions PROVE Follows(sessions'[i], sessions[i])
  BY <1>2 DEF Follows
<1>5. SessionsWhole'
  <2>1. ASSUME NEW i \in DOMAIN sessions
        PROVE  Whole(sessions'[i]) /\ received'[i] \subseteq sessions'[i].chunks
    <3>1. Whole(sessions[i]) /\ received[i] \subseteq sessions[i].chunks
      BY DEF UploadInv, SessionsWhole
    <3> QED BY <1>1, <1>2, <1>3, <3>1
  <2> QED BY <1>2, <2>1 DEF SessionsWhole
<1>6. NoneOpenedBeside'
  <2>1. ASSUME NEW i \in DOMAIN sessions, NEW k \in DOMAIN sessions, i < k,
               sessions'[i].chunkSize = sessions'[k].chunkSize
        PROVE  ~Unbroken(sessions'[i])
    BY <1>4, <2>1 DEF Follows, UploadInv, NoneOpenedBeside
  <2> QED BY <1>2, <2>1 DEF NoneOpenedBeside
<1> QED BY <1>1, <1>2, <1>3, <1>4, <1>5, <1>6

LEMMA CandidatesStay ==
  ASSUME UploadInv, NEW c \in Clients, OneMoves(c), DOMAIN sessions' = DOMAIN sessions,
         \A i \in DOMAIN sessions : Follows(sessions'[i], sessions[i]),
         PastTheStart(request'[c]) =>
           \A i \in DOMAIN sessions : Unbroken(sessions'[i]) /\ sessions'[i].chunkSize = request'[c].arg =>
             i \in Range(request'[c].todo) \/ InLine(request'[c], i)
  PROVE  CandidatesLeft'
<1>1. ASSUME NEW d \in Clients, PastTheStart(request'[d]), NEW i \in DOMAIN sessions,
             Unbroken(sessions'[i]), sessions'[i].chunkSize = request'[d].arg
      PROVE  i \in Range(request'[d].todo) \/ InLine(request'[d], i)
  <2>1. CASE d = c
    BY <1>1, <2>1
  <2>2. CASE d # c
    BY <1>1, <2>2 DEF OneMoves, Follows, UploadInv, CandidatesLeft
  <2> QED BY <2>1, <2>2
<1> QED BY <1>1 DEF CandidatesLeft

(* Nobody else holds the session.                                          *)
LEMMA OneHolder ==
  ASSUME UploadInv, NEW c \in Clients, request[c].at \in {"queued", "holding"},
         Holds(c, holders[request[c].session]),
         NEW d \in Clients \ {c}, request[d].at = "holding"
  PROVE  request[d].session # request[c].session
BY DEF UploadInv, FirstInLine, Holds

LEMMA HolderHolds ==
  ASSUME UploadInv, NEW c \in Clients, request[c].at = "holding"
  PROVE  /\ request[c].session \in DOMAIN sessions
         /\ request[c].saw = sessions[request[c].session]
         /\ Holds(c, holders[request[c].session])
         /\ Head(holders[request[c].session]) = c
         /\ InLine(request[c], request[c].session)
         /\ request[c].kind = "start" => Head(starts) = c
<1>1. /\ request[c].session \in DOMAIN sessions
      /\ request[c].saw = sessions[request[c].session]
      /\ Head(holders[request[c].session]) = c
      /\ request[c].kind = "start" => Head(starts) = c
  BY DEF UploadInv, RequestsFormed, Formed, WritesWhatItRead, FirstInLine, PastTheStart
<1>2. InLine(request[c], request[c].session)
  BY DEF InLine
<1>3. c \in Range(holders[request[c].session])
  BY <1>1, <1>2 DEF UploadInv, SessionLines
<1>4. holders[request[c].session] # << >>
  BY <1>3 DEF Range
<1> QED BY <1>1, <1>2, <1>4 DEF Holds

(* The requests of a step that changes at most the session c holds.        *)
LEMMA RequestsStay ==
  ASSUME UploadInv, NEW c \in Clients, OneMoves(c), DOMAIN sessions' = DOMAIN sessions,
         \A d \in Clients \ {c} : request[d].at = "holding" =>
           sessions'[request[d].session] = sessions[request[d].session],
         Formed(request'[c]),
         request'[c].at = "holding" =>
           /\ request'[c].saw = sessions'[request'[c].session]
           /\ request'[c].tag # NoTag =>
                request'[c].saw \in {request'[c].tag, Expired(request'[c].tag, request'[c].now)}
  PROVE  RequestsFormed' /\ WritesWhatItRead'
<1>1. ASSUME NEW d \in Clients PROVE Formed(request'[d])
  BY DEF OneMoves, UploadInv, RequestsFormed
<1>2. RequestsFormed'
  BY <1>1 DEF RequestsFormed, Formed
<1>3. ASSUME NEW d \in Clients, request'[d].at = "holding"
      PROVE  /\ request'[d].saw = sessions'[request'[d].session]
             /\ request'[d].tag # NoTag =>
                  request'[d].saw \in {request'[d].tag, Expired(request'[d].tag, request'[d].now)}
  <2>1. CASE d = c
    BY <1>3, <2>1
  <2>2. CASE d # c
    BY <1>3, <2>2 DEF OneMoves, UploadInv, WritesWhatItRead
  <2> QED BY <2>1, <2>2
<1> QED BY <1>2, <1>3 DEF WritesWhatItRead

-----------------------------------------------------------------------------
(* Uploads: what may be stored.                                            *)

LEMMA ChunkSizesAreSizes == \A size \in ChunkSizes : size \in Nat \ {0}
BY UploadConstants

LEMMA ExpiredIsOne ==
  ASSUME NEW s \in Session, NEW time \in Nat, Whole(s)
  PROVE  LET new == Expired(s, time) IN
         new \in Session /\ Whole(new) /\ Follows(new, s) /\ new.chunks = s.chunks /\ new.status = "expired"
<1> DEFINE new == Expired(s, time)
<1>1. /\ new \in Session /\ new.chunkSize = s.chunkSize /\ new.chunks = s.chunks /\ new.bytes = s.bytes
      /\ new.status = "expired"
  BY DEF Expired, Session, UploadStatus
<1> HIDE DEF new
<1>2. Whole(new) /\ Follows(new, s)
  BY <1>1 DEF Whole, Follows, Unbroken
<1> QED BY <1>1, <1>2 DEF new

LEMMA ReachedIsOne ==
  ASSUME NEW s \in Session, NEW time \in Nat
  PROVE  LET new == Reached(s, time) IN
         /\ new \in Session /\ new.chunkSize = s.chunkSize /\ new.chunks = s.chunks /\ new.bytes = s.bytes
         /\ new.status = s.status /\ new.restarts = s.restarts
<1> DEFINE last == time + Ttl
           new == [s EXCEPT !.updated = time, !.expires = last]
<1>1. last \in Nat
  BY UploadConstants
<1> HIDE DEF last
<1>2. /\ new \in Session /\ new.chunkSize = s.chunkSize /\ new.chunks = s.chunks /\ new.bytes = s.bytes
      /\ new.status = s.status /\ new.restarts = s.restarts
  BY <1>1 DEF Session
<1> QED BY <1>2 DEF Reached, last

LEMMA ResumedSession ==
  ASSUME NEW s \in Session, NEW time \in Nat
  PROVE  LET new == Resumed(s, time) IN
         /\ new \in Session /\ new.chunkSize = s.chunkSize /\ new.chunks = s.chunks /\ new.bytes = s.bytes
         /\ new.status = s.status /\ new.restarts = s.restarts
<1> DEFINE old == Reached(s, time)
<1>1. /\ old \in Session /\ old.chunkSize = s.chunkSize /\ old.chunks = s.chunks /\ old.bytes = s.bytes
      /\ old.status = s.status /\ old.restarts = s.restarts
  BY ReachedIsOne
<1>2. Resumed(s, time) = [old EXCEPT !.attempt = @ + 1]
  BY DEF Resumed
<1> HIDE DEF old
<1> QED BY <1>1, <1>2 DEF Session

LEMMA ResumedIsOne ==
  ASSUME NEW s \in Session, NEW time \in Nat, Whole(s)
  PROVE  LET new == Resumed(s, time) IN
         new \in Session /\ Whole(new) /\ Follows(new, s) /\ new.chunks = s.chunks
<1> DEFINE new == Resumed(s, time)
<1>2. /\ new \in Session /\ new.chunkSize = s.chunkSize /\ new.chunks = s.chunks /\ new.bytes = s.bytes
      /\ new.status = s.status /\ new.restarts = s.restarts
  BY ResumedSession
<1> HIDE DEF new
<1>3. Whole(new) /\ Follows(new, s)
  BY <1>2 DEF Whole, Follows, Unbroken
<1> QED BY <1>2, <1>3 DEF new

LEMMA OpenedIsOne ==
  ASSUME NEW size \in ChunkSizes, NEW time \in Nat
  PROVE  LET new == Opened(size, time) IN
         new \in Session /\ Whole(new) /\ new.chunkSize = size /\ new.chunks = {}
<1> DEFINE new == Opened(size, time)
<1>1. Ttl \in Nat
  BY UploadConstants
<1>2. /\ new \in Session /\ new.chunkSize = size /\ new.chunks = {} /\ new.bytes = 0
      /\ new.status = "in_progress"
  BY <1>1 DEF Opened, Session, UploadStatus
<1>3. BytesFor({}, size) = 0
  BY ChunkSizesAreSizes, BytesAreNumbers
<1> HIDE DEF new
<1>4. Whole(new)
  BY <1>2, <1>3 DEF Whole
<1> QED BY <1>2, <1>4 DEF new

LEMMA RestartedIsOne ==
  ASSUME NEW s \in Session, NEW time \in Nat
  PROVE  LET new == Restarted(s, time) IN
         new \in Session /\ Whole(new) /\ Follows(new, s)
<1> DEFINE new == Restarted(s, time)
           old == Resumed(s, time)
<1>1. /\ old \in Session /\ old.chunkSize = s.chunkSize /\ old.restarts = s.restarts
      /\ old.restarts + 1 \in Nat
      /\ new = [old EXCEPT !.status = "in_progress", !.chunks = {}, !.bytes = 0, !.restarts = @ + 1]
  BY ResumedSession DEF Restarted, Session
<1> HIDE DEF old, new
<1>2. /\ s.restarts \in Nat /\ s.chunkSize \in ChunkSizes
  BY DEF Session
<1>3. /\ new \in Session /\ new.chunkSize = s.chunkSize /\ new.chunks = {} /\ new.bytes = 0
      /\ new.status = "in_progress" /\ new.restarts = s.restarts + 1
  BY <1>1 DEF Session, UploadStatus
<1>4. BytesFor({}, s.chunkSize) = 0
  BY <1>2, ChunkSizesAreSizes, BytesAreNumbers
<1>5. Whole(new) /\ Follows(new, s)
  BY <1>2, <1>3, <1>4 DEF Whole, Follows, Unbroken
<1> QED BY <1>3, <1>5 DEF new

LEMMA ProgressedIsOne ==
  ASSUME NEW s \in Session, NEW time \in Nat, Whole(s), s.status = "in_progress",
         NEW chunks \in SUBSET Nat, \A i \in chunks : i < TotalChunks(s.chunkSize)
  PROVE  LET new == Progressed(s, chunks, time) IN
         new \in Session /\ Whole(new) /\ Follows(new, s) /\ new.chunks = s.chunks \cup chunks
<1> DEFINE new == Progressed(s, chunks, time)
           both == s.chunks \cup chunks
           bytes == BytesFor(both, s.chunkSize)
<1>1. Ttl \in Nat /\ s.chunkSize \in ChunkSizes /\ s.chunks \in SUBSET Nat
  BY UploadConstants DEF Session
<1>2. bytes \in Nat /\ TotalChunks(s.chunkSize) \in Nat
  BY <1>1, ChunkSizesAreSizes, BytesAreNumbers, ChunksCoverTheFile
<1>3. both \subseteq 0..(TotalChunks(s.chunkSize) - 1)
  <2> DEFINE total == TotalChunks(s.chunkSize)
  <2>1. total \in Nat /\ s.chunks \subseteq 0..(total - 1) /\ \A i \in chunks : i < total
    BY <1>2 DEF Whole
  <2> HIDE DEF total
  <2>2. chunks \subseteq 0..(total - 1)
    BY <2>1
  <2> QED BY <2>1, <2>2 DEF total
<1> DEFINE old == Reached(s, time)
<1>4. /\ new = [old EXCEPT !.chunks = both, !.bytes = bytes]
      /\ old \in Session /\ old.chunkSize = s.chunkSize /\ old.status = s.status /\ old.restarts = s.restarts
  BY ReachedIsOne DEF Progressed, Recorded
<1> HIDE DEF bytes, new, old
<1>5. /\ new \in Session /\ new.chunkSize = s.chunkSize /\ new.chunks = both /\ new.bytes = bytes
      /\ new.status = s.status /\ new.restarts = s.restarts
  BY <1>1, <1>2, <1>4 DEF Session
<1>6. Whole(new) /\ Follows(new, s)
  BY <1>3, <1>5 DEF Whole, Follows, Unbroken, bytes
<1> QED BY <1>5, <1>6 DEF new

(* All chunks have come if as many have come as there are.                 *)
LEMMA ReceivedAreAll ==
  ASSUME NEW s \in Session, Whole(s), AllReceived(s)
  PROVE  s.chunks = 0..(TotalChunks(s.chunkSize) - 1)
<1> DEFINE total == TotalChunks(s.chunkSize)
<1>1. s.chunkSize \in ChunkSizes
  BY DEF Session
<1>2. total \in Nat \ {0}
  BY <1>1, ChunkSizesAreSizes, ChunksCoverTheFile
<1>3. s.chunks \subseteq 0..(total - 1) /\ Cardinality(s.chunks) >= total
  BY DEF Whole, AllReceived
<1> HIDE DEF total
<1>4. IsFiniteSet(0..(total - 1)) /\ Cardinality(0..(total - 1)) = total
  BY <1>2, FS_Interval
<1>5. Cardinality(s.chunks) \in Nat /\ Cardinality(s.chunks) <= total
  BY <1>3, <1>4, FS_Subset, FS_CardinalityType
<1>6. Cardinality(s.chunks) = Cardinality(0..(total - 1))
  BY <1>2, <1>3, <1>4, <1>5
<1> QED BY <1>3, <1>4, <1>6, FS_Subset DEF total

LEMMA UpdatedIsOne ==
  ASSUME NEW s \in Session, NEW time \in Nat, Whole(s), NEW kind, NEW arg,
         kind = "progress" => arg \in SUBSET Nat,
         NEW new \in Updated(s, kind, arg, time)
  PROVE  /\ new \in Session /\ Whole(new) /\ Follows(new, s)
         /\ kind = "progress" => new.chunks = s.chunks \cup arg
         /\ kind \notin {"progress", "restart"} => new.chunks = s.chunks
<1>1. CASE kind = "restart"
  BY <1>1, RestartedIsOne DEF Updated
<1>2. CASE kind = "resume"
  BY <1>2, ResumedIsOne DEF Updated
<1>3. CASE kind = "progress"
  <2>1. /\ s.status = "in_progress" /\ \A i \in arg : i < TotalChunks(s.chunkSize)
        /\ new = Progressed(s, arg, time)
    BY <1>3 DEF Updated
  <2> QED BY <1>3, <2>1, ProgressedIsOne
<1>4. CASE kind = "abort"
  <2>1. new = [s EXCEPT !.status = "aborted", !.updated = time]
    BY <1>4 DEF Updated
  <2>2. /\ new \in Session /\ new.chunkSize = s.chunkSize /\ new.chunks = s.chunks /\ new.bytes = s.bytes
        /\ new.status = "aborted"
    BY <2>1 DEF Session, UploadStatus
  <2> QED BY <1>4, <2>2 DEF Whole, Follows, Unbroken
<1>5. CASE kind = "complete"
  <2>1. new = [s EXCEPT !.status = "completed", !.updated = time] /\ AllReceived(s)
    BY <1>5 DEF Updated
  <2>2. /\ new \in Session /\ new.chunkSize = s.chunkSize /\ new.chunks = s.chunks /\ new.bytes = s.bytes
        /\ new.status = "completed"
    BY <2>1 DEF Session, UploadStatus
  <2>3. s.chunks = 0..(TotalChunks(s.chunkSize) - 1)
    BY <2>1, ReceivedAreAll
  <2> QED BY <1>5, <2>2, <2>3 DEF Whole, Follows, Unbroken
<1>6. kind \in {"restart", "resume", "progress", "abort", "complete"}
  BY DEF Updated
<1> QED BY <1>1, <1>2, <1>3, <1>4, <1>5, <1>6

-----------------------------------------------------------------------------
(* Uploads: the requests arrive.                                           *)

LEMMA NothingStored ==
  ASSUME UploadInv, UNCHANGED <<sessions, received>>
  PROVE  /\ sessions' \in Seq(Session) /\ received' \in Seq(SUBSET Nat)
         /\ DOMAIN sessions' = DOMAIN sessions /\ DOMAIN received' = DOMAIN sessions
         /\ \A i \in DOMAIN sessions : Follows(sessions'[i], sessions[i])
         /\ SessionsWhole' /\ NoneOpenedBeside'
<1>1. /\ sessions' \in Seq(Session) /\ received' \in Seq(SUBSET Nat)
      /\ DOMAIN sessions' = DOMAIN sessions /\ DOMAIN received' = DOMAIN sessions
  BY DEF UploadInv, UploadTypes
<1>2. \A i \in DOMAIN sessions : Follows(sessions'[i], sessions[i])
  BY DEF Follows
<1>3. SessionsWhole' /\ NoneOpenedBeside'
  BY DEF UploadInv, SessionsWhole, NoneOpenedBeside
<1> QED BY <1>1, <1>2, <1>3

LEMMA Assembled ==
  ASSUME UploadInv, NEW c \in Clients, OneMoves(c), LinesHold, StartsHold,
         clock' = clock, requests' \in Nat,
         sessions' \in Seq(Session), received' \in Seq(SUBSET Nat),
         DOMAIN sessions' = DOMAIN sessions, DOMAIN received' = DOMAIN sessions,
         SessionsWhole', NoneOpenedBeside', RequestsFormed', WritesWhatItRead', CandidatesLeft'
  PROVE  UploadInv'
<1>1. UploadTypes'
  BY DEF UploadInv, UploadTypes, OneMoves, LinesHold, StartsHold
<1>2. FirstInLine'
  BY DEF FirstInLine, LinesHold, StartsHold
<1> QED BY <1>1, <1>2 DEF UploadInv, LinesHold, StartsHold

(* A request that arrives is not past the start.                           *)
LEMMA ArrivedRequest ==
  ASSUME UploadInv, NEW c \in Clients, NEW r \in Request, Arrive(c, r), Formed(r), r.at # "holding",
         ~PastTheStart(r), UNCHANGED <<clock, sessions, received>>, LinesHold, StartsHold
  PROVE  UploadInv'
<1>1. OneMoves(c) /\ request'[c] = r /\ requests' \in Nat
  BY DEF Arrive, OneMoves, UploadInv, UploadTypes
<1>2. /\ sessions' \in Seq(Session) /\ received' \in Seq(SUBSET Nat)
      /\ DOMAIN sessions' = DOMAIN sessions /\ DOMAIN received' = DOMAIN sessions
      /\ \A i \in DOMAIN sessions : Follows(sessions'[i], sessions[i])
      /\ SessionsWhole' /\ NoneOpenedBeside'
  BY NothingStored
<1>3. RequestsFormed' /\ WritesWhatItRead'
  BY <1>1, <1>2, RequestsStay
<1>4. CandidatesLeft'
  BY <1>1, <1>2, CandidatesStay
<1> QED BY <1>1, <1>2, <1>3, <1>4, Assembled

LEMMA StartKeeps ==
  ASSUME UploadInv, NEW c \in Clients, NEW size \in ChunkSizes, StartOrResumeSession(c, size)
  PROVE  UploadInv'
<1> DEFINE r == [NoRequest EXCEPT !.at = "starting", !.kind = "start", !.now = clock, !.arg = size]
<1>1. /\ Arrive(c, r) /\ starts' = Append(starts, c)
      /\ UNCHANGED <<clock, sessions, holders, received>>
  BY DEF StartOrResumeSession
<1>2. clock \in Nat /\ starts \in Seq(Clients) /\ request \in [Clients -> Request]
  BY DEF UploadInv, UploadTypes
<1>3. r \in Request /\ r.at = "starting" /\ r.kind = "start" /\ r.arg = size /\ r.todo = << >>
  BY <1>2, NoRequestIsOne DEF Request
<1> HIDE DEF r
<1>4. OneMoves(c) /\ request'[c] = r /\ request[c].at = "idle"
  BY <1>1, <1>2, <1>3 DEF Arrive, OneMoves
<1>5. Formed(r) /\ ~PastTheStart(r)
  BY <1>3 DEF Formed, PastTheStart, Range
<1>6. LinesHold
  BY <1>1, <1>3, <1>4, SameLines DEF InLine
<1>7. StartsHold
  <2>1. request[c].kind = "get"
    BY <1>4 DEF UploadInv, RequestsFormed, Formed
  <2>2. /\ IsInjective(starts) /\ Range(starts) = {d \in Clients : request[d].kind = "start"}
        /\ c \notin Range(starts)
    BY <2>1 DEF UploadInv, StartLine
  <2>3. starts' \in Seq(Clients) /\ Range(starts') = Range(starts) \cup {c} /\ IsInjective(starts')
    BY <1>1, <1>2, <2>2, AppendElement
  <2>4. StartLine'
    BY <1>3, <1>4, <2>2, <2>3 DEF StartLine, OneMoves
  <2>5. ASSUME NEW d \in Clients, PastTheStart(request'[d]) PROVE Head(starts') = d
    <3>1. d # c /\ PastTheStart(request[d])
      BY <1>4, <1>5, <2>5 DEF OneMoves
    <3>2. Head(starts) = d /\ d \in Range(starts)
      BY <2>2, <3>1 DEF UploadInv, FirstInLine, PastTheStart
    <3>3. starts # << >>
      BY <3>2 DEF Range
    <3> QED BY <1>1, <1>2, <3>2, <3>3
  <2> QED BY <2>3, <2>4, <2>5 DEF StartsHold
<1> QED BY <1>1, <1>3, <1>5, <1>6, <1>7, ArrivedRequest

LEMMA ArrivedInLine ==
  ASSUME UploadInv, NEW c \in Clients, NEW s \in DOMAIN sessions, NEW r \in Request, Arrive(c, r),
         r.at = "queued", r.session = s, r.kind # "start", r.kind = "progress" => r.arg \in Reports,
         r.todo = << >>,
         Join(c, s), UNCHANGED <<clock, sessions, starts, received>>
  PROVE  UploadInv'
<1>1. request \in [Clients -> Request]
  BY DEF UploadInv, UploadTypes
<1>2. OneMoves(c) /\ request'[c] = r /\ request[c].at = "idle"
  BY <1>1 DEF Arrive, OneMoves
<1>3. Formed(r) /\ ~PastTheStart(r)
  BY DEF Formed, PastTheStart, Range
<1>4. LinesHold
  BY <1>2, JoinLine
<1>5. request[c].kind = "get"
  BY <1>2 DEF UploadInv, RequestsFormed, Formed
<1>6. StartsHold
  BY <1>2, <1>3, <1>5, SameStarts
<1> QED BY <1>3, <1>4, <1>6, ArrivedRequest

LEMMA UpdateKeeps ==
  ASSUME UploadInv, NEW c \in Clients, NEW s \in DOMAIN sessions,
         NEW kind \in {"resume", "restart", "abort", "complete", "progress"},
         NEW arg \in {0} \cup Reports, kind = "progress" => arg \in Reports,
         NEW tag \in {NoTag, sessions[s]}, UpdateSession(c, s, kind, arg, tag)
  PROVE  UploadInv'
<1> DEFINE r == [NoRequest EXCEPT !.at = "queued", !.kind = kind, !.now = clock, !.session = s,
                                  !.arg = arg, !.tag = tag]
<1>1. Arrive(c, r) /\ Join(c, s) /\ UNCHANGED <<clock, sessions, starts, received>>
  BY DEF UpdateSession
<1>2. clock \in Nat /\ s \in Nat /\ sessions[s] \in Session
  BY DEF UploadInv, UploadTypes
<1>3. r \in Request /\ r.at = "queued" /\ r.kind = kind /\ r.arg = arg /\ r.session = s /\ r.todo = << >>
  BY <1>2, NoRequestIsOne DEF Request
<1> HIDE DEF r
<1> QED BY <1>1, <1>3, ArrivedInLine

LEMMA GetKeeps ==
  ASSUME UploadInv, NEW c \in Clients, NEW s \in DOMAIN sessions, GetSession(c, s)
  PROVE  UploadInv'
<1> DEFINE r == [NoRequest EXCEPT !.at = "queued", !.now = clock, !.session = s]
<1>1. Arrive(c, r) /\ Join(c, s) /\ UNCHANGED <<clock, sessions, starts, received>>
  BY DEF GetSession
<1>2. clock \in Nat /\ s \in Nat
  BY DEF UploadInv, UploadTypes
<1>3. r \in Request /\ r.at = "queued" /\ r.kind = "get" /\ r.session = s /\ r.todo = << >>
  BY <1>2, NoRequestIsOne DEF Request
<1> HIDE DEF r
<1> QED BY <1>1, <1>3, ArrivedInLine

-----------------------------------------------------------------------------
(* Uploads: the start looks for a session to resume.                       *)

LEMMA FindKeeps ==
  ASSUME UploadInv, NEW c \in Clients, FindCandidates(c)
  PROVE  UploadInv'
<1> DEFINE all == [i \in DOMAIN sessions |-> i]
           closed == {i \in DOMAIN sessions : sessions[i].status # "in_progress"}
           found == Dropping(all, closed)
           r == [request[c] EXCEPT !.at = "candidate", !.todo = found]
<1>1. /\ request[c].at = "starting" /\ Holds(c, starts)
      /\ UNCHANGED <<clock, sessions, starts, holders, requests, received>>
  BY DEF FindCandidates
<1>2. request \in [Clients -> Request] /\ sessions \in Seq(Session) /\ requests \in Nat
  BY DEF UploadInv, UploadTypes
<1>3. request' = [request EXCEPT ![c] = r]
  BY <1>2 DEF FindCandidates
<1>4. all \in Seq(Nat) /\ Range(all) = DOMAIN sessions
  <2>1. DOMAIN sessions = 1..Len(sessions) /\ Len(sessions) \in Nat
    BY <1>2
  <2> QED BY <2>1, CountingList
<1>5. found \in Seq(Nat) /\ Range(found) = DOMAIN sessions \ closed
  <2> HIDE DEF all, closed
  <2> QED BY <1>4, DroppingElements
<1> HIDE DEF found
<1>6. request[c].kind = "start" /\ request[c].arg \in ChunkSizes
  BY <1>1 DEF UploadInv, RequestsFormed, Formed
<1>7. /\ r \in Request /\ r.at = "candidate" /\ r.kind = "start" /\ r.arg = request[c].arg
      /\ r.todo = found
  BY <1>2, <1>5, <1>6 DEF Request
<1> HIDE DEF r
<1>8. OneMoves(c) /\ request'[c] = r
  BY <1>2, <1>3, <1>7 DEF OneMoves
<1>9. LinesHold
  BY <1>1, <1>7, <1>8, SameLines DEF InLine
<1>10. StartsHold
  BY <1>1, <1>6, <1>7, <1>8, SameStarts DEF Holds
<1>11. /\ sessions' \in Seq(Session) /\ received' \in Seq(SUBSET Nat)
       /\ DOMAIN sessions' = DOMAIN sessions /\ DOMAIN received' = DOMAIN sessions
       /\ \A i \in DOMAIN sessions : Follows(sessions'[i], sessions[i])
       /\ SessionsWhole' /\ NoneOpenedBeside'
  BY <1>1, NothingStored
<1>12. RequestsFormed' /\ WritesWhatItRead'
  <2>1. Formed(r)
    BY <1>5, <1>6, <1>7 DEF Formed
  <2> QED BY <1>1, <1>7, <1>8, <1>11, <2>1, RequestsStay
<1>13. CandidatesLeft'
  <2>1. \A i \in DOMAIN sessions : Unbroken(sessions'[i]) => i \in Range(found)
    BY <1>1, <1>5 DEF Unbroken
  <2> QED BY <1>7, <1>8, <1>11, <2>1, CandidatesStay
<1> QED BY <1>1, <1>2, <1>8, <1>9, <1>10, <1>11, <1>12, <1>13, Assembled

LEMMA TryKeeps ==
  ASSUME UploadInv, NEW c \in Clients, TryCandidate(c)
  PROVE  UploadInv'
<1> DEFINE todo == request[c].todo
           r == [request[c] EXCEPT !.at = "queued", !.session = Head(todo), !.todo = Tail(todo)]
<1>1. /\ request[c].at = "candidate" /\ todo # << >> /\ Join(c, Head(todo))
      /\ UNCHANGED <<clock, sessions, starts, requests, received>>
  BY DEF TryCandidate
<1>2. request \in [Clients -> Request] /\ request[c] \in Request /\ requests \in Nat
  BY DEF UploadInv, UploadTypes
<1>3. request' = [request EXCEPT ![c] = r]
  BY <1>2 DEF TryCandidate
<1>4. todo \in Seq(Nat) /\ Range(todo) \subseteq DOMAIN sessions
  BY <1>2 DEF Request, UploadInv, RequestsFormed, Formed
<1> HIDE DEF todo
<1>5. /\ Head(todo) \in Nat /\ Tail(todo) \in Seq(Nat)
      /\ Range(todo) = {Head(todo)} \cup Range(Tail(todo))
  BY <1>1, <1>4, HeadTailElements
<1>6. request[c].kind = "start" /\ request[c].arg \in ChunkSizes /\ Head(starts) = c
  BY <1>1 DEF UploadInv, RequestsFormed, Formed, FirstInLine, PastTheStart
<1>7. /\ r \in Request /\ r.at = "queued" /\ r.kind = "start" /\ r.arg = request[c].arg
      /\ r.session = Head(todo) /\ r.todo = Tail(todo)
  BY <1>2, <1>5, <1>6 DEF Request
<1> HIDE DEF r
<1>8. OneMoves(c) /\ request'[c] = r
  BY <1>2, <1>3, <1>7 DEF OneMoves
<1>9. LinesHold
  <2>1. Head(todo) \in DOMAIN sessions
    BY <1>4, <1>5
  <2> QED BY <1>1, <1>7, <1>8, <2>1, JoinLine
<1>10. StartsHold
  BY <1>1, <1>6, <1>7, <1>8, SameStarts
<1>11. /\ sessions' \in Seq(Session) /\ received' \in Seq(SUBSET Nat)
       /\ DOMAIN sessions' = DOMAIN sessions /\ DOMAIN received' = DOMAIN sessions
       /\ \A i \in DOMAIN sessions : Follows(sessions'[i], sessions[i])
       /\ SessionsWhole' /\ NoneOpenedBeside'
  BY <1>1, NothingStored
<1>12. RequestsFormed' /\ WritesWhatItRead'
  <2>1. Formed(r)
    BY <1>4, <1>5, <1>6, <1>7 DEF Formed
  <2> QED BY <1>1, <1>7, <1>8, <1>11, <2>1, RequestsStay
<1>13. CandidatesLeft'
  <2>1. ASSUME NEW i \in DOMAIN sessions, Unbroken(sessions'[i]), sessions'[i].chunkSize = r.arg
        PROVE  i \in Range(r.todo) \/ InLine(r, i)
    <3>1. i \in Range(todo)
      BY <1>1, <1>6, <1>7, <2>1 DEF UploadInv, CandidatesLeft, PastTheStart, InLine, todo
    <3> QED BY <1>5, <1>7, <3>1 DEF InLine
  <2> QED BY <1>8, <1>11, <2>1, CandidatesStay
<1> QED BY <1>1, <1>2, <1>8, <1>9, <1>10, <1>11, <1>12, <1>13, Assembled

(* No session to resume is left, so none is unbroken when one is opened.   *)
LEMMA OpenKeeps ==
  ASSUME UploadInv, NEW c \in Clients, OpenSession(c)
  PROVE  UploadInv'
<1> DEFINE n == Len(sessions)
           new == Opened(request[c].arg, request[c].now)
<1>1. /\ request[c].at = "candidate" /\ request[c].todo = << >>
      /\ sessions' = Append(sessions, new) /\ holders' = Append(holders, << >>)
      /\ received' = Append(received, {})
      /\ Leave(c) /\ UNCHANGED <<clock, requests>>
  BY DEF OpenSession
<1>2. /\ request \in [Clients -> Request] /\ requests \in Nat /\ request[c] \in Request
      /\ sessions \in Seq(Session) /\ received \in Seq(SUBSET Nat) /\ holders \in Seq(Seq(Clients))
      /\ DOMAIN holders = DOMAIN sessions /\ DOMAIN received = DOMAIN sessions
  BY DEF UploadInv, UploadTypes
<1>3. /\ request[c].kind = "start" /\ request[c].arg \in ChunkSizes /\ Head(starts) = c
      /\ request[c].now \in Nat
  BY <1>1, <1>2 DEF UploadInv, RequestsFormed, Formed, FirstInLine, PastTheStart, Request
<1>4. new \in Session /\ Whole(new) /\ new.chunkSize = request[c].arg /\ new.chunks = {}
  BY <1>3, OpenedIsOne
<1> HIDE DEF new
<1>5. n \in Nat /\ Len(holders) = n /\ Len(received) = n /\ DOMAIN sessions = 1..n
  BY <1>2
<1>6. /\ sessions' \in Seq(Session) /\ DOMAIN sessions' = 1..(n + 1) /\ sessions'[n + 1] = new
      /\ \A i \in 1..n : sessions'[i] = sessions[i]
  BY <1>1, <1>2, <1>4, <1>5
<1>7. /\ received' \in Seq(SUBSET Nat) /\ DOMAIN received' = 1..(n + 1) /\ received'[n + 1] = {}
      /\ \A i \in 1..n : received'[i] = received[i]
  BY <1>1, <1>2, <1>5
<1>8. /\ holders' \in Seq(Seq(Clients)) /\ DOMAIN holders' = 1..(n + 1) /\ holders'[n + 1] = << >>
      /\ \A i \in 1..n : holders'[i] = holders[i]
  BY <1>1, <1>2, <1>5
<1> HIDE DEF n
<1>9. OneMoves(c) /\ request'[c] = NoRequest
  BY <1>1, <1>2, NoRequestIsOne DEF Leave, OneMoves
<1>10. StartsHold
  BY <1>1, <1>3, <1>9, LeaveStarts DEF Leave
<1>11. \A d \in Clients \ {c} : ~PastTheStart(request[d])
  BY <1>3 DEF UploadInv, FirstInLine
<1>12. \A d \in Clients : request[d].at \in {"queued", "holding"} => request[d].session \in 1..n
  BY <1>5 DEF UploadInv, RequestsFormed, Formed
<1>13. \A d \in Clients : request'[d].at \in {"queued", "holding"} =>
         d # c /\ request'[d] = request[d] /\ request[d].session \in 1..n
  BY <1>9, <1>12, NoRequestIsOne DEF OneMoves
<1>14. n + 1 \notin 1..n
  BY <1>5
<1>15. SessionLines'
  <2>1. ASSUME NEW i \in 1..(n + 1)
        PROVE  /\ IsInjective(holders'[i])
               /\ Range(holders'[i]) = {d \in Clients : InLine(request'[d], i)}
    <3>1. CASE i = n + 1
      <4>1. IsInjective(holders'[i]) /\ Range(holders'[i]) = {}
        BY <1>8, <3>1 DEF IsInjective, Range
      <4>2. \A d \in Clients : ~InLine(request'[d], i)
        BY <1>13, <1>14, <3>1 DEF InLine
      <4> QED BY <4>1, <4>2
    <3>2. CASE i # n + 1
      <4>1. i \in 1..n
        BY <1>5, <3>2
      <4>2. \A d \in Clients : InLine(request'[d], i) <=> InLine(request[d], i)
        BY <1>1, <1>9, NoRequestIsOne DEF OneMoves, InLine
      <4>3. /\ holders'[i] = holders[i] /\ IsInjective(holders[i])
            /\ Range(holders[i]) = {d \in Clients : InLine(request[d], i)}
        BY <1>5, <1>8, <4>1 DEF UploadInv, SessionLines
      <4> QED BY <4>2, <4>3
    <3> QED BY <3>1, <3>2
  <2> QED BY <1>6, <2>1 DEF SessionLines
<1>16. FirstInLine'
  <2>1. ASSUME NEW d \in Clients, request'[d].at = "holding" PROVE Head(holders'[request'[d].session]) = d
    <3>1. request'[d] = request[d] /\ request[d].session \in 1..n /\ Head(holders[request[d].session]) = d
      BY <1>13, <2>1 DEF UploadInv, FirstInLine
    <3> QED BY <1>8, <3>1
  <2> QED BY <1>10, <2>1 DEF FirstInLine, StartsHold
<1>17. SessionsWhole'
  <2>1. ASSUME NEW i \in 1..(n + 1) PROVE Whole(sessions'[i]) /\ received'[i] \subseteq sessions'[i].chunks
    <3>1. CASE i = n + 1
      BY <1>4, <1>6, <1>7, <3>1
    <3>2. CASE i # n + 1
      <4>1. i \in 1..n
        BY <1>5, <3>2
      <4> QED BY <1>5, <1>6, <1>7, <4>1 DEF UploadInv, SessionsWhole
    <3> QED BY <3>1, <3>2
  <2> QED BY <1>6, <2>1 DEF SessionsWhole
<1>18. RequestsFormed'
  <2>1. DOMAIN sessions \subseteq DOMAIN sessions'
    BY <1>5, <1>6
  <2>2. Range(NoRequest.todo) = {}
    BY NoRequestIsOne DEF Range
  <2>3. \A d \in Clients : Formed(request[d])
    BY DEF UploadInv, RequestsFormed
  <2> QED BY <1>9, <2>1, <2>2, <2>3, NoRequestIsOne DEF RequestsFormed, Formed, OneMoves
<1>19. WritesWhatItRead'
  BY <1>6, <1>13 DEF UploadInv, WritesWhatItRead
<1>20. CandidatesLeft'
  BY <1>9, <1>11, NoRequestIsOne DEF CandidatesLeft, OneMoves, PastTheStart
<1>21. NoneOpenedBeside'
  <2>1. ASSUME NEW i \in 1..(n + 1), NEW k \in 1..(n + 1), i < k,
               sessions'[i].chunkSize = sessions'[k].chunkSize
        PROVE  ~Unbroken(sessions'[i])
    <3>1. i \in 1..n /\ (k = n + 1 \/ k \in 1..n)
      BY <1>5, <2>1
    <3>2. CASE k \in 1..n
      BY <1>5, <1>6, <2>1, <3>1, <3>2 DEF UploadInv, NoneOpenedBeside
    <3>3. CASE k = n + 1
      <4>1. i \notin Range(request[c].todo) /\ ~InLine(request[c], i)
        BY <1>1 DEF Range, InLine
      <4>2. ~(Unbroken(sessions[i]) /\ sessions[i].chunkSize = request[c].arg)
        BY <1>1, <1>3, <1>5, <3>1, <4>1 DEF UploadInv, CandidatesLeft, PastTheStart
      <4> QED BY <1>4, <1>6, <2>1, <3>1, <3>3, <4>2
    <3> QED BY <3>1, <3>2, <3>3
  <2> QED BY <1>6, <2>1 DEF NoneOpenedBeside
<1>22. UploadTypes'
  BY <1>1, <1>6, <1>7, <1>8, <1>9, <1>10 DEF UploadInv, UploadTypes, StartsHold, OneMoves
<1> QED BY <1>10, <1>15, <1>16, <1>17, <1>18, <1>19, <1>20, <1>21, <1>22 DEF UploadInv, StartsHold

-----------------------------------------------------------------------------
(* Uploads: the steps under the lock of a session.                         *)

LEMMA ReadKeeps ==
  ASSUME UploadInv, NEW c \in Clients, ReadSession(c)
  PROVE  UploadInv'
<1> DEFINE s == request[c].session
<1>1. /\ request[c].at = "queued" /\ Holds(c, holders[s])
      /\ UNCHANGED <<clock, sessions, requests, received>>
  BY DEF ReadSession
<1>2. /\ request \in [Clients -> Request] /\ request[c] \in Request /\ requests \in Nat
      /\ sessions \in Seq(Session) /\ s \in DOMAIN sessions /\ sessions[s] \in Session
  BY <1>1 DEF UploadInv, UploadTypes, RequestsFormed, Formed
<1>3. /\ sessions' \in Seq(Session) /\ received' \in Seq(SUBSET Nat)
      /\ DOMAIN sessions' = DOMAIN sessions /\ DOMAIN received' = DOMAIN sessions
      /\ \A i \in DOMAIN sessions : Follows(sessions'[i], sessions[i])
      /\ SessionsWhole' /\ NoneOpenedBeside'
  BY <1>1, NothingStored
<1>4. Head(holders[s]) = c /\ InLine(request[c], s)
  BY <1>1 DEF Holds, InLine
<1>5. request[c].kind = "start" => Head(starts) = c
  BY <1>1 DEF UploadInv, FirstInLine, PastTheStart
<1>6. CASE request[c].tag \in {NoTag, sessions[s]}
  <2> DEFINE r == [request[c] EXCEPT !.at = "holding", !.saw = sessions[s]]
  <2>1. request' = [request EXCEPT ![c] = r] /\ UNCHANGED <<starts, holders>>
    BY <1>2, <1>6 DEF ReadSession
  <2>2. /\ r \in Request /\ r.at = "holding" /\ r.saw = sessions[s] /\ r.kind = request[c].kind
        /\ r.session = s /\ r.arg = request[c].arg /\ r.todo = request[c].todo /\ r.tag = request[c].tag
    BY <1>2 DEF Request
  <2> HIDE DEF r
  <2>3. OneMoves(c) /\ request'[c] = r
    BY <1>2, <2>1, <2>2 DEF OneMoves
  <2> HIDE DEF s
  <2>4. LinesHold
    BY <1>1, <1>2, <1>3, <1>4, <2>1, <2>2, <2>3, SameLines DEF InLine
  <2>5. StartsHold
    BY <1>5, <2>1, <2>2, <2>3, SameStarts DEF PastTheStart
  <2>6. Formed(r)
    BY <1>1, <1>2, <2>2 DEF UploadInv, RequestsFormed, Formed
  <2>7. RequestsFormed' /\ WritesWhatItRead'
    BY <1>1, <1>3, <1>6, <2>2, <2>3, <2>6, RequestsStay
  <2>8. PastTheStart(r) =>
          \A i \in DOMAIN sessions : Unbroken(sessions'[i]) /\ sessions'[i].chunkSize = r.arg =>
            i \in Range(r.todo) \/ InLine(r, i)
    BY <1>1, <2>2 DEF s, UploadInv, CandidatesLeft, PastTheStart, InLine
  <2>9. CandidatesLeft'
    BY <1>3, <2>3, <2>8, CandidatesStay
  <2> QED BY <1>1, <1>2, <1>3, <2>3, <2>4, <2>5, <2>7, <2>9, Assembled
<1>7. CASE request[c].tag \notin {NoTag, sessions[s]}
  <2>1. Leave(c) /\ Unlock(c, s)
    BY <1>7 DEF ReadSession
  <2>2. OneMoves(c) /\ request'[c] = NoRequest
    BY <1>2, <2>1, NoRequestIsOne DEF Leave, OneMoves
  <2> HIDE DEF s
  <2>3. LinesHold
    BY <1>2, <1>3, <1>4, <2>1, <2>2, NoRequestIsOne, LeaveLine
  <2>4. StartsHold
    BY <1>5, <2>1, <2>2, LeaveStarts DEF Leave
  <2>5. Formed(NoRequest)
    BY NoRequestIsOne DEF Formed, Range
  <2>6. RequestsFormed' /\ WritesWhatItRead'
    BY <1>1, <1>3, <2>2, <2>5, NoRequestIsOne, RequestsStay
  <2>7. CandidatesLeft'
    BY <1>3, <2>2, NoRequestIsOne, CandidatesStay DEF PastTheStart
  <2> QED BY <1>1, <1>2, <1>3, <2>2, <2>3, <2>4, <2>6, <2>7, Assembled
<1> QED BY <1>6, <1>7

LEMMA ExpireKeeps ==
  ASSUME UploadInv, NEW c \in Clients, ExpireSession(c)
  PROVE  UploadInv'
<1> DEFINE s == request[c].session
           old == sessions[s]
           new == Expired(old, request[c].now)
           r == [request[c] EXCEPT !.saw = sessions'[s]]
<1>1. /\ request[c].at = "holding" /\ Lapsed(request[c].saw, request[c].now)
      /\ sessions' = [sessions EXCEPT ![s] = new]
      /\ UNCHANGED <<clock, starts, holders, requests, received>>
  BY DEF ExpireSession, HasLock
<1>2. /\ request \in [Clients -> Request] /\ request[c] \in Request /\ requests \in Nat
      /\ sessions \in Seq(Session) /\ received \in Seq(SUBSET Nat) /\ DOMAIN received = DOMAIN sessions
  BY DEF UploadInv, UploadTypes
<1>3. request' = [request EXCEPT ![c] = r]
  BY <1>2 DEF ExpireSession, HasLock
<1>4. /\ s \in DOMAIN sessions /\ request[c].saw = old /\ Holds(c, holders[s]) /\ InLine(request[c], s)
      /\ Head(holders[s]) = c /\ (request[c].kind = "start" => Head(starts) = c)
  BY <1>1, HolderHolds
<1>5. old \in Session /\ request[c].now \in Nat /\ Whole(old) /\ received[s] \subseteq old.chunks
  BY <1>2, <1>4 DEF Request, UploadInv, SessionsWhole
<1>6. new \in Session /\ Whole(new) /\ Follows(new, old) /\ new.chunks = old.chunks
  BY <1>5, ExpiredIsOne
<1>7. received' = [received EXCEPT ![s] = received[s]] /\ received[s] \in SUBSET Nat
  BY <1>1, <1>2, <1>4
<1>8. PICK told \in SUBSET Nat : told = received[s]
  BY <1>7
<1> HIDE DEF new
<1>9. /\ sessions' \in Seq(Session) /\ received' \in Seq(SUBSET Nat)
      /\ DOMAIN sessions' = DOMAIN sessions /\ DOMAIN received' = DOMAIN sessions
      /\ sessions'[s] = new /\ \A i \in DOMAIN sessions \ {s} : sessions'[i] = sessions[i]
      /\ \A i \in DOMAIN sessions : Follows(sessions'[i], sessions[i])
      /\ SessionsWhole' /\ NoneOpenedBeside'
  BY <1>1, <1>4, <1>5, <1>6, <1>7, <1>8, SessionChanges
<1>10. /\ r \in Request /\ r.at = "holding" /\ r.saw = new /\ r.kind = request[c].kind /\ r.now = request[c].now
       /\ r.session = s /\ r.arg = request[c].arg /\ r.todo = request[c].todo /\ r.tag = request[c].tag
  BY <1>1, <1>2, <1>6, <1>9 DEF Request
<1> HIDE DEF r
<1>11. OneMoves(c) /\ request'[c] = r
  BY <1>2, <1>3, <1>10 DEF OneMoves
<1>12. \A d \in Clients \ {c} : request[d].at = "holding" =>
         sessions'[request[d].session] = sessions[request[d].session]
  <2>1. \A d \in Clients \ {c} : request[d].at = "holding" =>
          request[d].session # s /\ request[d].session \in DOMAIN sessions
    BY <1>1, <1>4, OneHolder DEF UploadInv, RequestsFormed, Formed
  <2> QED BY <1>9, <2>1
<1>13. r.tag # NoTag => r.saw = Expired(r.tag, r.now)
  <2> SUFFICES ASSUME r.tag # NoTag PROVE new = Expired(r.tag, r.now)
    BY <1>10
  <2>1. old \in {r.tag, Expired(r.tag, r.now)} /\ r.tag \in Session
    BY <1>1, <1>2, <1>4, <1>10 DEF UploadInv, WritesWhatItRead, Request
  <2>2. Expired(r.tag, r.now).status = "expired"
    BY <2>1 DEF Expired, Session
  <2>3. old.status = "in_progress"
    BY <1>1, <1>4 DEF Lapsed
  <2>4. old = r.tag
    BY <2>1, <2>2, <2>3
  <2> QED BY <1>10, <2>4 DEF new
<1>14. Formed(r)
  BY <1>1, <1>4, <1>10 DEF UploadInv, RequestsFormed, Formed
<1>15. PastTheStart(r) =>
         \A i \in DOMAIN sessions : Unbroken(sessions'[i]) /\ sessions'[i].chunkSize = r.arg =>
           i \in Range(r.todo) \/ InLine(r, i)
  <2> SUFFICES ASSUME PastTheStart(r), NEW i \in DOMAIN sessions,
                      Unbroken(sessions'[i]), sessions'[i].chunkSize = r.arg
               PROVE  i \in Range(r.todo) \/ InLine(r, i)
    OBVIOUS
  <2>1. Follows(sessions'[i], sessions[i])
    BY <1>9
  <2>2. Unbroken(sessions[i]) /\ sessions[i].chunkSize = request[c].arg /\ PastTheStart(request[c])
    BY <1>1, <1>10, <2>1 DEF Follows, PastTheStart
  <2>3. i \in Range(request[c].todo) \/ InLine(request[c], i)
    BY <2>2 DEF UploadInv, CandidatesLeft
  <2> QED BY <1>1, <1>10, <2>3 DEF InLine
<1> HIDE DEF s, old
<1>16. RequestsFormed' /\ WritesWhatItRead'
  BY <1>9, <1>10, <1>11, <1>12, <1>13, <1>14, RequestsStay
<1>17. LinesHold
  BY <1>1, <1>4, <1>9, <1>10, <1>11, SameLines DEF InLine
<1>18. StartsHold
  BY <1>1, <1>4, <1>10, <1>11, SameStarts DEF PastTheStart
<1>19. CandidatesLeft'
  BY <1>9, <1>11, <1>15, CandidatesStay
<1> QED BY <1>1, <1>2, <1>9, <1>11, <1>16, <1>17, <1>18, <1>19, Assembled

(* A request is answered and its session stored, or not.                   *)
LEMMA AnsweredKeeps ==
  ASSUME UploadInv, NEW c \in Clients, request[c].at = "holding",
         Leave(c), Unlock(c, request[c].session), UNCHANGED <<clock, requests>>,
         \/ UNCHANGED <<sessions, received>>
         \/ \E new \in Session, told \in SUBSET Nat :
              /\ Whole(new) /\ told \subseteq new.chunks /\ Follows(new, sessions[request[c].session])
              /\ sessions' = [sessions EXCEPT ![request[c].session] = new]
              /\ received' = [received EXCEPT ![request[c].session] = told]
  PROVE  UploadInv'
<1> DEFINE s == request[c].session
<1>1. request \in [Clients -> Request] /\ requests' \in Nat
  BY DEF UploadInv, UploadTypes
<1>2. /\ s \in DOMAIN sessions /\ Holds(c, holders[s]) /\ InLine(request[c], s)
      /\ Head(holders[s]) = c /\ (request[c].kind = "start" => Head(starts) = c)
  BY HolderHolds
<1>3. \A d \in Clients \ {c} : request[d].at = "holding" =>
        request[d].session # s /\ request[d].session \in DOMAIN sessions
  BY <1>2, OneHolder DEF UploadInv, RequestsFormed, Formed
<1>4. /\ sessions' \in Seq(Session) /\ received' \in Seq(SUBSET Nat)
      /\ DOMAIN sessions' = DOMAIN sessions /\ DOMAIN received' = DOMAIN sessions
      /\ \A i \in DOMAIN sessions \ {s} : sessions'[i] = sessions[i]
      /\ \A i \in DOMAIN sessions : Follows(sessions'[i], sessions[i])
      /\ SessionsWhole' /\ NoneOpenedBeside'
  <2>1. CASE UNCHANGED <<sessions, received>>
    BY <2>1, NothingStored
  <2>2. ASSUME NEW new \in Session, NEW told \in SUBSET Nat, Whole(new), told \subseteq new.chunks,
               Follows(new, sessions[s]), sessions' = [sessions EXCEPT ![s] = new],
               received' = [received EXCEPT ![s] = told]
        PROVE  /\ sessions' \in Seq(Session) /\ received' \in Seq(SUBSET Nat)
               /\ DOMAIN sessions' = DOMAIN sessions /\ DOMAIN received' = DOMAIN sessions
               /\ \A i \in DOMAIN sessions \ {s} : sessions'[i] = sessions[i]
               /\ \A i \in DOMAIN sessions : Follows(sessions'[i], sessions[i])
               /\ SessionsWhole' /\ NoneOpenedBeside'
    BY <1>2, <2>2, SessionChanges
  <2> QED BY <2>1, <2>2
<1>5. OneMoves(c) /\ request'[c] = NoRequest
  BY <1>1, NoRequestIsOne DEF Leave, OneMoves
<1>6. LinesHold
  <2> HIDE DEF s
  <2> QED BY <1>2, <1>4, <1>5, NoRequestIsOne, LeaveLine DEF s
<1>7. StartsHold
  BY <1>2, <1>5, LeaveStarts DEF Leave
<1>8. Formed(NoRequest)
  BY NoRequestIsOne DEF Formed, Range
<1>9. RequestsFormed' /\ WritesWhatItRead'
  <2>1. \A d \in Clients \ {c} : request[d].at = "holding" =>
          sessions'[request[d].session] = sessions[request[d].session]
    BY <1>3, <1>4
  <2> QED BY <1>4, <1>5, <1>8, <2>1, NoRequestIsOne, RequestsStay
<1>10. CandidatesLeft'
  BY <1>4, <1>5, NoRequestIsOne, CandidatesStay DEF PastTheStart
<1> QED BY <1>1, <1>4, <1>5, <1>6, <1>7, <1>9, <1>10, Assembled

LEMMA AnswerKeeps ==
  ASSUME UploadInv, NEW c \in Clients, Answer(c)
  PROVE  UploadInv'
<1> DEFINE r == request[c]
           s == r.session
           old == sessions[s]
<1>1. /\ r.at = "holding" /\ Leave(c) /\ Unlock(c, s) /\ UNCHANGED <<clock, requests>>
  BY DEF Answer
<1>2. /\ s \in DOMAIN sessions /\ r.saw = old
  BY <1>1, HolderHolds
<1>3. old \in Session /\ Whole(old) /\ received[s] \subseteq old.chunks /\ r.now \in Nat
  BY <1>2 DEF UploadInv, UploadTypes, SessionsWhole, Request
<1>4. r.kind = "progress" => r.arg \in SUBSET Nat
  BY UploadConstants DEF UploadInv, RequestsFormed, Formed
<1>5. CASE UNCHANGED <<sessions, received>>
  BY <1>1, <1>5, AnsweredKeeps
<1>6. ASSUME NEW new \in Updated(old, r.kind, r.arg, r.now), sessions' = [sessions EXCEPT ![s] = new],
             received' = [received EXCEPT ![s] = IF r.kind = "restart" THEN {}
                            ELSE IF r.kind = "progress" THEN @ \cup r.arg ELSE @]
      PROVE  UploadInv'
  <2>1. /\ new \in Session /\ Whole(new) /\ Follows(new, old)
        /\ r.kind = "progress" => new.chunks = old.chunks \cup r.arg
        /\ r.kind \notin {"progress", "restart"} => new.chunks = old.chunks
    BY <1>3, <1>4, <1>6, UpdatedIsOne
  <2> DEFINE told == IF r.kind = "restart" THEN {}
                     ELSE IF r.kind = "progress" THEN received[s] \cup r.arg ELSE received[s]
  <2>2. new.chunks \in SUBSET Nat
    BY <2>1 DEF Session
  <2>3. told \subseteq new.chunks
    BY <1>3, <2>1
  <2>4. told \in SUBSET Nat
    BY <2>2, <2>3
  <2>5. received' = [received EXCEPT ![s] = told]
    BY <1>6
  <2> HIDE DEF told
  <2> QED BY <1>1, <1>6, <2>1, <2>3, <2>4, <2>5, AnsweredKeeps
<1> QED BY <1>2, <1>5, <1>6 DEF Answer

LEMMA ResumeKeeps ==
  ASSUME UploadInv, NEW c \in Clients, ResumeCandidate(c)
  PROVE  UploadInv'
<1> DEFINE s == request[c].session
           old == sessions[s]
           new == Resumed(old, request[c].now)
<1>1. /\ request[c].at = "holding" /\ request[c].kind = "start" /\ Unlock(c, s)
      /\ UNCHANGED <<clock, requests, received>>
  BY DEF ResumeCandidate
<1>2. /\ s \in DOMAIN sessions /\ request[c].saw = old /\ Head(starts) = c
      /\ Holds(c, holders[s]) /\ InLine(request[c], s) /\ Head(holders[s]) = c
  BY <1>1, HolderHolds
<1>3. /\ old \in Session /\ Whole(old) /\ received[s] \subseteq old.chunks /\ request[c].now \in Nat
      /\ received \in Seq(SUBSET Nat) /\ DOMAIN received = DOMAIN sessions /\ received[s] \in SUBSET Nat
      /\ request \in [Clients -> Request] /\ request[c] \in Request /\ requests' \in Nat
  <2>1. /\ sessions \in Seq(Session) /\ received \in Seq(SUBSET Nat) /\ DOMAIN received = DOMAIN sessions
        /\ request \in [Clients -> Request] /\ request[c] \in Request /\ requests' \in Nat
    BY <1>1 DEF UploadInv, UploadTypes
  <2>2. old \in Session /\ received[s] \in SUBSET Nat
    BY <1>2, <2>1
  <2>3. Whole(old) /\ received[s] \subseteq old.chunks
    BY <1>2 DEF UploadInv, SessionsWhole
  <2>4. request[c].now \in Nat
    BY <2>1 DEF Request
  <2> QED BY <2>1, <2>2, <2>3, <2>4
<1>4. CASE CanResume(old, request[c].arg)
  <2>1. new \in Session /\ Whole(new) /\ Follows(new, old) /\ new.chunks = old.chunks
    BY <1>3, ResumedIsOne
  <2>2. sessions' = [sessions EXCEPT ![s] = new] /\ Leave(c)
    BY <1>2, <1>4 DEF ResumeCandidate
  <2>3. received' = [received EXCEPT ![s] = received[s]]
    BY <1>1, <1>2, <1>3
  <2>4. PICK told \in SUBSET Nat : told = received[s]
    BY <1>3
  <2> HIDE DEF new
  <2> QED BY <1>1, <1>3, <2>1, <2>2, <2>3, <2>4, AnsweredKeeps
<1>5. CASE ~CanResume(old, request[c].arg)
  <2> DEFINE r == [request[c] EXCEPT !.at = "candidate"]
  <2>1. request' = [request EXCEPT ![c] = r] /\ UNCHANGED <<sessions, starts>>
    BY <1>2, <1>3, <1>5 DEF ResumeCandidate
  <2>2. /\ r \in Request /\ r.at = "candidate" /\ r.kind = "start" /\ r.arg = request[c].arg
        /\ r.todo = request[c].todo
    BY <1>1, <1>3 DEF Request
  <2> HIDE DEF r
  <2>3. OneMoves(c) /\ request'[c] = r
    BY <1>3, <2>1, <2>2 DEF OneMoves
  <2>4. /\ sessions' \in Seq(Session) /\ received' \in Seq(SUBSET Nat)
        /\ DOMAIN sessions' = DOMAIN sessions /\ DOMAIN received' = DOMAIN sessions
        /\ \A i \in DOMAIN sessions : Follows(sessions'[i], sessions[i])
        /\ SessionsWhole' /\ NoneOpenedBeside'
    BY <1>1, <2>1, NothingStored
  <2>5. Formed(r)
    BY <1>1, <2>2 DEF UploadInv, RequestsFormed, Formed
  <2>6. RequestsFormed' /\ WritesWhatItRead'
    BY <2>1, <2>2, <2>3, <2>4, <2>5, RequestsStay
  <2>7. ASSUME NEW i \in DOMAIN sessions, Unbroken(sessions'[i]), sessions'[i].chunkSize = r.arg
        PROVE  i \in Range(r.todo)
    <3>1. i \in Range(request[c].todo) \/ InLine(request[c], i)
      BY <1>1, <2>1, <2>2, <2>7 DEF UploadInv, CandidatesLeft, PastTheStart
    <3>2. i # s
      BY <1>5, <2>1, <2>2, <2>7 DEF CanResume, Unbroken
    <3> QED BY <2>2, <3>1, <3>2 DEF InLine
  <2>8. CandidatesLeft'
    BY <2>3, <2>4, <2>7, CandidatesStay
  <2>9. StartsHold
    BY <1>1, <1>2, <2>1, <2>2, <2>3, SameStarts
  <2>10. LinesHold
    <3> HIDE DEF s, old
    <3> QED BY <1>1, <1>2, <2>2, <2>3, <2>4, LeaveLine DEF s
  <2> QED BY <1>1, <1>3, <2>3, <2>4, <2>6, <2>8, <2>9, <2>10, Assembled
<1> QED BY <1>4, <1>5

LEMMA UploadInvKept == UploadInv /\ [UploadNext]_uploadVars => UploadInv'
<1> SUFFICES ASSUME UploadInv, [UploadNext]_uploadVars PROVE UploadInv'
  OBVIOUS
<1>0. clock \in Nat /\ requests \in Nat
  BY DEF UploadInv, UploadTypes
<1>1. CASE UNCHANGED uploadVars
  BY <1>0, <1>1, UploadStutter DEF uploadVars
<1>2. CASE UploadTick
  BY <1>0, <1>2, UploadStutter DEF UploadTick
<1>3. ASSUME NEW c \in Clients, NewRequest(c) PROVE UploadInv'
  <2>1. ASSUME NEW size \in ChunkSizes, StartOrResumeSession(c, size) PROVE UploadInv'
    BY <2>1, StartKeeps
  <2>2. ASSUME NEW s \in DOMAIN sessions, GetSession(c, s) PROVE UploadInv'
    BY <2>2, GetKeeps
  <2>3. ASSUME NEW s \in DOMAIN sessions, NEW tag \in {NoTag, sessions[s]},
               NEW kind \in {"resume", "restart", "abort", "complete"}, UpdateSession(c, s, kind, 0, tag)
        PROVE  UploadInv'
    BY <2>3, UpdateKeeps
  <2>4. ASSUME NEW s \in DOMAIN sessions, NEW tag \in {NoTag, sessions[s]},
               NEW chunks \in Reports, UpdateSession(c, s, "progress", chunks, tag)
        PROVE  UploadInv'
    BY <2>4, UpdateKeeps
  <2> QED BY <1>3, <2>1, <2>2, <2>3, <2>4 DEF NewRequest
<1>4. ASSUME NEW c \in Clients, RequestStep(c) PROVE UploadInv'
  BY <1>4, FindKeeps, TryKeeps, OpenKeeps, ReadKeeps, ExpireKeeps, AnswerKeeps, ResumeKeeps DEF RequestStep
<1> QED BY <1>1, <1>2, <1>3, <1>4 DEF UploadNext

LEMMA UploadIsSafe == UploadInv => UploadsAreSafe
<1> SUFFICES ASSUME UploadInv PROVE UploadsAreSafe
  OBVIOUS
<1>1. sessions \in Seq(Session)
  BY DEF UploadInv, UploadTypes
<1>2. \A i \in DOMAIN sessions : sessions[i] \in Session /\ sessions[i].chunkSize \in Nat \ {0}
  <2>1. \A i \in DOMAIN sessions : sessions[i] \in Session
    BY <1>1
  <2>2. \A i \in DOMAIN sessions : sessions[i].chunkSize \in ChunkSizes
    BY <2>1 DEF Session
  <2> QED BY <2>1, <2>2, ChunkSizesAreSizes
<1>3. UploadTypeOK
  <2>1. Len(holders) = Len(sessions) /\ Len(received) = Len(sessions)
    BY DEF UploadInv, UploadTypes
  <2>2. ASSUME NEW i \in DOMAIN sessions
        PROVE  /\ sessions[i].chunkSize \in ChunkSizes
               /\ sessions[i].status \in {"in_progress", "completed", "aborted", "expired"}
               /\ sessions[i].chunks \subseteq 0..(TotalChunks(sessions[i].chunkSize) - 1)
               /\ sessions[i].bytes = BytesFor(sessions[i].chunks, sessions[i].chunkSize)
    <3>1. sessions[i] \in Session /\ Whole(sessions[i])
      BY <1>2 DEF UploadInv, SessionsWhole
    <3> QED BY <3>1 DEF Whole, Session, UploadStatus
  <2>3. ASSUME NEW i \in DOMAIN sessions
        PROVE  /\ IsInjective(holders[i])
               /\ Range(holders[i]) =
                    {c \in Clients : request[c].at \in {"queued", "holding"} /\ request[c].session = i}
    BY DEF UploadInv, SessionLines, InLine
  <2>4. IsInjective(starts)
    BY DEF UploadInv, StartLine
  <2>5. ASSUME NEW c \in Clients
        PROVE  /\ request[c].at \in {"idle", "starting", "candidate", "queued", "holding"}
               /\ request[c].at # "idle" /\ request[c].kind = "start" <=> c \in Range(starts)
    <3>1. request[c].at \in {"idle", "starting", "candidate", "queued", "holding"}
      BY DEF UploadInv, UploadTypes, Request
    <3>2. request[c].kind = "start" <=> c \in Range(starts)
      BY DEF UploadInv, StartLine
    <3>3. request[c].kind = "start" => request[c].at # "idle"
      BY DEF UploadInv, RequestsFormed, Formed
    <3> QED BY <3>1, <3>2, <3>3
  <2> QED BY <2>1, <2>2, <2>3, <2>4, <2>5 DEF UploadTypeOK
<1>4. ProgressIsKept
  BY DEF UploadInv, SessionsWhole, ProgressIsKept
<1>5. CompletedIsWhole
  BY <1>2, AllChunksMakeTheFile DEF UploadInv, SessionsWhole, Whole, CompletedIsWhole
<1>6. OneOpenSession
  <2>1. ASSUME NEW i \in DOMAIN sessions, NEW k \in DOMAIN sessions, i < k,
               sessions[i].status = "in_progress", sessions[i].chunkSize = sessions[k].chunkSize
        PROVE  sessions[i].restarts > 0
    <3>1. sessions[i].restarts \in Nat
      BY <1>2 DEF Session
    <3>2. sessions[i].restarts # 0
      BY <2>1 DEF UploadInv, NoneOpenedBeside, Unbroken
    <3> QED BY <3>1, <3>2
  <2> QED BY <2>1 DEF OneOpenSession
<1> QED BY <1>3, <1>4, <1>5, <1>6 DEF UploadInv, UploadsAreSafe

(* For any clients, file, chunk sizes and reports: what clients were told  *)
(* is recorded stays recorded, a completed session has the whole file,     *)
(* nothing comes between what a request reads of a session and what it     *)
(* stores, and one session is open for a file and a chunk size unless it   *)
(* was restarted.                                                          *)
THEOREM UploadsStaySafe == UploadSpec => []UploadsAreSafe
<1>1. UploadInit => UploadInv
  BY UploadInvInit
<1>2. UploadInv /\ [UploadNext]_uploadVars => UploadInv'
  BY UploadInvKept
<1>3. UploadInv => UploadsAreSafe
  BY UploadIsSafe
<1> QED BY <1>1, <1>2, <1>3, PTL DEF UploadSpec

=============================================================================
