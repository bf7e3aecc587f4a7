----------------------------- MODULE AuthSessions -----------------------------
(***************************************************************************)
(* Sign-in sessions: the server's records and their rules,                 *)
(* frontend/lib/server/auth-sessions.ts, and the tabs of one browser that  *)
(* share the tokens through its storage,                                   *)
(* frontend/context/AuthSessionContext.tsx. Between them requests that are *)
(* answered late, or never.                                                *)
(*                                                                         *)
(* A pair of tokens is told by its session and its generation: tokens are  *)
(* random, so no two pairs are alike. A tab takes the stored pair over     *)
(* after a superseded refresh only: on mount and on a storage event it     *)
(* reads the expiry where the stored value has none, and finds it lapsed.  *)
(***************************************************************************)
EXTENDS Clock, Sequences, FiniteSets

CONSTANTS
  Tabs,
  NoTokens,
  AccessTtl, IdleTtl, MaxLifetime, ReuseGrace, RefreshLead,   (* sessionPolicy *)
  KeepFactor,       (* purgeFinished keeps for KeepFactor * ReuseGrace     *)
  LoginTimes,       (* bound: when somebody signs in, once each            *)
  MaxGeneration,    (* bound: refreshes of a session (near its end it is   *)
                    (* refreshed without a pause)                          *)
  MaxLosses,        (* bound: answers that are lost                        *)
  MaxWaiting,       (* bound: storage events of a tab, requests of nobody  *)
  LastSessionTime   (* bound: the clock, for the sessions                  *)

ASSUME SessionConstants ==
  /\ {AccessTtl, IdleTtl, MaxLifetime, ReuseGrace, RefreshLead} \subseteq Nat \ {0}
  /\ LoginTimes \cup {KeepFactor, MaxGeneration, MaxLosses, MaxWaiting, LastSessionTime} \subseteq Nat
  /\ IsFiniteSet(LoginTimes)

VARIABLES
  records,          (* the sessions in the order of their logins           *)
  tab,              (* [status, tokens]: what each tab shows and holds     *)
  refreshing,       (* inflight, per tab: [at, sent, code, answer]         *)
  stored,           (* the tokens in localStorage                          *)
  notices,          (* storage events not yet delivered, per tab           *)
  unread,           (* requests whose tab went away or gave them up        *)
  losses

sessionVars == <<records, tab, refreshing, stored, notices, unread, losses>>

AtRest == [at |-> "idle", sent |-> NoTokens, code |-> "ok", answer |-> NoTokens]

SessionsInit ==
  /\ records = << >> /\ stored = NoTokens /\ unread = {} /\ losses = 0
  /\ tab = [t \in Tabs |-> [status |-> "signed_out", tokens |-> NoTokens]]
  /\ refreshing = [t \in Tabs |-> AtRest] /\ notices = [t \in Tabs |-> 0]

-----------------------------------------------------------------------------
(* The server.                                                             *)

Least(a, b) == IF a < b THEN a ELSE b

Most(a, b) == IF a > b THEN a ELSE b

Unrevoked == ""

StateOf(r, at) ==
  IF r.reason # Unrevoked THEN "revoked"
  ELSE IF at >= r.refreshExpires \/ at >= r.absolute THEN "expired" ELSE "active"

IdleRestarts(r) ==    (* mutant: the idle window is not capped *)
  [r EXCEPT !.refreshExpires = now + IdleTtl, !.accessExpires = Least(now + AccessTtl, now + IdleTtl)]

Rotate(r) ==
  LET idle == Least(now + IdleTtl, r.absolute) IN
  [r EXCEPT !.refreshExpires = idle, !.accessExpires = Least(now + AccessTtl, idle)]

EndedAt(r) == IF r.reason # Unrevoked THEN r.revokedAt ELSE Least(r.refreshExpires, r.absolute)

AllFinished(r) == StateOf(r, now) # "active"   (* mutant: finished sessions are dropped at once *)

IsStale(r) == StateOf(r, now) # "active" /\ now - EndedAt(r) > KeepFactor * ReuseGrace

PurgeFinished == [i \in DOMAIN records |-> [records[i] EXCEPT !.kept = @ /\ ~IsStale(records[i])]]

Opened ==
  Rotate([kept |-> TRUE, generation |-> 1, accessExpires |-> now, refreshExpires |-> now,
          absolute |-> now + MaxLifetime, created |-> now, rotatedAt |-> now, revokedAt |-> now,
          reason |-> Unrevoked])

(* What is issued: the pair, and when its tab is to refresh it.            *)
Issued(i, r) ==
  [session |-> i, generation |-> r.generation,
   refreshAfter |-> Least(Most(r.accessExpires - RefreshLead, now), r.accessExpires)]

Revoke(r, why) ==
  IF r.reason = Unrevoked THEN [r EXCEPT !.revokedAt = now, !.reason = why] ELSE r

(* refreshSession: how each presented pair is answered, and the record.    *)
Answered(code, r) == [code |-> code, record |-> r]

Renewed(r) == [Rotate(r) EXCEPT !.generation = @ + 1, !.rotatedAt = now]

RefreshLate(r, generation) ==   (* mutant: the state is not looked at *)
  IF ~r.kept \/ generation < r.generation - 1 THEN Answered("SESSION_INVALID", r)
  ELSE IF generation = r.generation THEN Answered("ok", Renewed(r))
  ELSE Answered("SESSION_REFRESH_SUPERSEDED", r)

Refresh(r, generation) ==
  LET state == StateOf(r, now) IN
  IF ~r.kept \/ generation < r.generation - 1 THEN Answered("SESSION_INVALID", r)
  ELSE IF state = "revoked" THEN Answered("SESSION_REVOKED", r)
  ELSE IF state = "expired" THEN Answered("SESSION_EXPIRED", r)
  ELSE IF generation = r.generation THEN Answered("ok", Renewed(r))
  ELSE IF now - r.rotatedAt <= ReuseGrace THEN Answered("SESSION_REFRESH_SUPERSEDED", r)
  ELSE Answered("SESSION_REVOKED", Revoke(r, "refresh_token_reuse"))

(* authenticateAccessToken                                                 *)
Authenticates(pair) ==
  LET r == records[pair.session] IN
  /\ r.kept /\ r.generation = pair.generation
  /\ StateOf(r, now) = "active" /\ now < r.accessExpires

-----------------------------------------------------------------------------
(* The tabs.                                                               *)

(* writeStored: the other tabs are told of a value that changed.           *)
Store(t, pair) ==
  /\ stored' = pair
  /\ notices' = IF pair = stored THEN notices
                ELSE [u \in Tabs |-> IF u = t THEN notices[u] ELSE notices[u] + 1]

Shows(t, status, pair) == tab' = [tab EXCEPT ![t] = [status |-> status, tokens |-> pair]]

AdoptsForOthers(t, pair) ==   (* mutant: a tab keeps the pair it has, and stores the new one *)
  Shows(t, "active", IF tab[t].tokens = NoTokens THEN pair ELSE tab[t].tokens) /\ Store(t, pair)

Adopt(t, pair) == Shows(t, "active", pair) /\ Store(t, pair)

End(t, status) == Shows(t, status, NoTokens) /\ Store(t, NoTokens)

Forgotten(t) ==
  /\ refreshing' = [refreshing EXCEPT ![t] = AtRest]
  /\ unread' = IF refreshing[t].at = "sent"
               THEN unread \cup {[kind |-> "refresh", pair |-> refreshing[t].sent]} ELSE unread

(* The page is loaded anew: the effect that reads the storage ends a       *)
(* session it finds there.                                                 *)
Mount(t) ==
  /\ tab[t].status # "signed_out" \/ stored # NoTokens
  /\ IF stored # NoTokens THEN End(t, "expired")
     ELSE Shows(t, "signed_out", NoTokens) /\ UNCHANGED <<stored, notices>>
  /\ Forgotten(t)
  /\ UNCHANGED <<records, losses>>

(* onStorage, whatever is stored.                                          *)
OnStorage(t) ==
  /\ notices[t] > 0
  /\ notices' = [notices EXCEPT ![t] = @ - 1]
  /\ Shows(t, "signed_out", NoTokens)
  /\ UNCHANGED <<records, refreshing, stored, unread, losses>>

(* login; its answer is not delayed here.                                  *)
Login(t) ==
  /\ now \in LoginTimes /\ (\A i \in DOMAIN records : records[i].created < now)
  /\ tab[t].tokens = NoTokens
  /\ records' = Append(PurgeFinished, Opened)
  /\ Adopt(t, Issued(Len(records'), Opened))
  /\ UNCHANGED <<refreshing, unread, losses>>

(* Somebody signs in elsewhere, which drops sessions that are long over.   *)
LoginElsewhere ==
  /\ records' = PurgeFinished
  /\ UNCHANGED <<tab, refreshing, stored, notices, unread, losses>>

(* logout: the server is told, if the request gets there.                  *)
Logout(t) ==
  /\ End(t, "signed_out")
  /\ unread' = unread \cup {[kind |-> "logout", pair |-> p] : p \in {tab[t].tokens} \ {NoTokens}}
  /\ UNCHANGED <<records, refreshing, losses>>

(* runRefresh: by the timer, or by a caller that needs an access token.    *)
BeginRefresh(t) ==
  /\ tab[t].tokens # NoTokens /\ refreshing[t].at = "idle"
  /\ now >= tab[t].tokens.refreshAfter
  /\ records[tab[t].tokens.session].generation < MaxGeneration
  /\ tab' = [tab EXCEPT ![t].status = "refreshing"]
  /\ refreshing' = [refreshing EXCEPT ![t] = [AtRest EXCEPT !.at = "sent", !.sent = tab[t].tokens]]
  /\ UNCHANGED <<records, stored, notices, unread, losses>>

(* The request reaches the server.                                         *)
ServeRefresh(t) ==
  LET i == refreshing[t].sent.session
      result == Refresh(records[i], refreshing[t].sent.generation)
  IN
  /\ refreshing[t].at = "sent"
  /\ records' = [records EXCEPT ![i] = result.record]
  /\ refreshing' = [refreshing EXCEPT ![t].at = "answered", ![t].code = result.code,
                      ![t].answer = IF result.code = "ok" THEN Issued(i, result.record) ELSE NoTokens]
  /\ UNCHANGED <<tab, stored, notices, unread, losses>>

(* The request or its answer is lost: a network error, which is retryable. *)
LoseRefresh(t) ==
  /\ refreshing[t].at \in {"sent", "answered"} /\ losses < MaxLosses
  /\ losses' = losses + 1
  /\ tab' = [tab EXCEPT ![t].status = "active"]
  /\ Forgotten(t)
  /\ UNCHANGED <<records, stored, notices>>

ReceiveRefresh(t) ==
  LET code == refreshing[t].code IN
  /\ refreshing[t].at = "answered"
  /\ IF code = "SESSION_REFRESH_SUPERSEDED"
     THEN /\ refreshing' = [refreshing EXCEPT ![t].at = "settling"]
          /\ UNCHANGED <<tab, stored, notices>>
     ELSE /\ refreshing' = [refreshing EXCEPT ![t] = AtRest]
          /\ IF code = "ok" THEN Adopt(t, refreshing[t].answer)
             ELSE End(t, IF code = "SESSION_REVOKED" THEN "revoked" ELSE "expired")
  /\ UNCHANGED <<records, unread, losses>>

(* SUPERSEDED_SETTLE_MS later: the pair another tab stored, if it did.     *)
Settle(t) ==
  /\ refreshing[t].at = "settling"
  /\ refreshing' = [refreshing EXCEPT ![t] = AtRest]
  /\ tab' = IF stored \notin {NoTokens, refreshing[t].sent}
            THEN [tab EXCEPT ![t] = [status |-> "active", tokens |-> stored]]
            ELSE [tab EXCEPT ![t].status = "active"]
  /\ UNCHANGED <<records, stored, notices, unread, losses>>

(* A request whose answer nobody waits for is served late (or never).      *)
ServeUnread(q) ==
  /\ unread' = unread \ {q}
  /\ records' = [records EXCEPT ![q.pair.session] =
       IF q.kind = "refresh" THEN Refresh(@, q.pair.generation).record
       ELSE IF Authenticates(q.pair) THEN Revoke(@, "logout") ELSE @]
  /\ UNCHANGED <<tab, refreshing, stored, notices, losses>>

SessionsTick == now < LastSessionTime /\ now' = now + 1 /\ UNCHANGED sessionVars

TabStep(t) ==
  \/ Mount(t) \/ OnStorage(t) \/ Login(t) \/ Logout(t)
  \/ BeginRefresh(t) \/ ServeRefresh(t) \/ LoseRefresh(t) \/ ReceiveRefresh(t) \/ Settle(t)

SessionsNext ==
  \/ /\ UNCHANGED now
     /\ LoginElsewhere \/ (\E t \in Tabs : TabStep(t)) \/ (\E q \in unread : ServeUnread(q))
     /\ Cardinality(unread') <= MaxWaiting /\ \A t \in Tabs : notices'[t] <= MaxWaiting
  \/ SessionsTick

SessionsSpec == SessionsInit /\ now = 0 /\ [][SessionsNext]_<<now, sessionVars>>

-----------------------------------------------------------------------------
(* Properties.                                                             *)

Held == {tab[t].tokens : t \in Tabs} \cup {stored} \cup {refreshing[t].answer : t \in Tabs}

SessionsTypeOK ==
  /\ Len(records) <= Cardinality(LoginTimes) /\ losses <= MaxLosses
  /\ \A i \in DOMAIN records : records[i].generation >= 1 /\ records[i].created <= now
  /\ \A t \in Tabs :
       /\ refreshing[t].at \in {"idle", "sent", "answered", "settling"}
       /\ refreshing[t].sent = NoTokens <=> refreshing[t].at = "idle"
  /\ \A p \in Held \ {NoTokens} :
       p.session \in DOMAIN records /\ p.generation \in 1..records[p.session].generation

(* However often it is refreshed, a session does not outlive what its      *)
(* login fixed, nor its access token the session.                          *)
LivesWithinItsLogin ==
  \A i \in DOMAIN records :
    LET r == records[i] IN
      /\ r.accessExpires <= r.refreshExpires /\ r.refreshExpires <= r.created + MaxLifetime
      /\ r.absolute = r.created + MaxLifetime

(* A session the server has forgotten was over for long enough that a      *)
(* client that comes back just after its end is told the reason.           *)
ForgottenWasOver ==
  \A i \in DOMAIN records : ~records[i].kept =>
    StateOf(records[i], now) # "active" /\ now > EndedAt(records[i]) + KeepFactor * ReuseGrace

(* Nobody who keeps to the rules is taken for a thief, though tabs are     *)
(* closed, signed out and served late: a session is revoked for the reuse  *)
(* of a token only if an answer was lost.                                  *)
TheftNeedsALoss ==
  \A i \in DOMAIN records : records[i].reason = "refresh_token_reuse" => losses > 0

(* A session is bounded, and its end told of, and to the right ones.       *)
SessionsAreSound ==
  SessionsTypeOK /\ LivesWithinItsLogin /\ ForgottenWasOver /\ TheftNeedsALoss

(* A session that is over stays over, and for the reason it ended.         *)
OverStaysOver ==
  \A i \in DOMAIN records : StateOf(records[i], now) # "active" =>
    /\ StateOf(records'[i], now') = StateOf(records[i], now)
    /\ records'[i].reason = records[i].reason

SessionsMoveOn == [][OverStaysOver]_<<now, sessionVars>>

(* Who sees a session as active holds its tokens. The code does not keep   *)
(* this, so no run checks it (see the README).                             *)
ActiveHoldsTokens == \A t \in Tabs : tab[t].status \in {"active", "refreshing"} => tab[t].tokens # NoTokens

=============================================================================
