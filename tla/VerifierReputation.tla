--------------------------- MODULE VerifierReputation ---------------------------
(***************************************************************************)
(* The reputation of a verifier, packages/shared/verifier-reputation: the  *)
(* score over what is known of it, and the window of lower score a fault   *)
(* opens. One verifier: no function relates two of them but the summary.   *)
(*                                                                         *)
(* Scores are exact fractions over Scale, which every denominator divides; *)
(* the explanations and the catalogue of risks are left out.               *)
(***************************************************************************)
EXTENDS Clock, Integers, Sequences

CONSTANTS
  MinHistory,        (* minHistoryForFullWeight                            *)
  RecencyDays,       (* days after which recency counts nothing (90)       *)
  WindowDays,        (* the degradation windows in use                     *)
  MaxVerifications,  (* bound: verifications                               *)
  MaxDisputes,       (* bound: disputes                                    *)
  MaxCrossChecks,    (* bound: cross-checks                                *)
  Scale              (* the common denominator                             *)

NoEnd == -1   (* no degraded window *)

ASSUME ReputationConstants ==
  /\ MinHistory \in Nat \ {0} /\ RecencyDays \in Nat \ {0} /\ Scale \in Nat \ {0}
  /\ WindowDays \subseteq Nat \ {0}
  /\ MaxVerifications \in Nat /\ MaxDisputes \in Nat /\ MaxCrossChecks \in Nat
  /\ \A d \in {100 * MinHistory, 10, RecencyDays} \cup (1..MaxVerifications) \cup (1..MaxDisputes)
                \cup (1..MaxCrossChecks) : Scale % d = 0

VARIABLES
  status, degradedUntil, lastActive,   (* VerifierRecord                   *)
  signals                              (* VerifierQualitySignals           *)

verifierVars == <<status, degradedUntil, lastActive, signals>>

Signals ==
  [total : 0..MaxVerifications, ok : 0..MaxVerifications, fault : 0..MaxDisputes,
   cleared : 0..MaxDisputes, open : 0..MaxDisputes, agreed : 0..MaxCrossChecks,
   checked : 0..MaxCrossChecks]

ReputationTypeOK ==
  /\ status \in {"active", "degraded", "probation", "suspended", "blacklisted"}
  /\ degradedUntil \in Nat \cup {NoEnd} /\ lastActive \in 0..LastTime
  /\ signals \in Signals

ReputationInit ==
  /\ now = 0
  /\ status = "active" /\ degradedUntil = NoEnd /\ lastActive = 0
  /\ signals = [total |-> 0, ok |-> 0, fault |-> 0, cleared |-> 0, open |-> 0, agreed |-> 0,
                checked |-> 0]

-----------------------------------------------------------------------------
(* scoreVerifier                                                           *)

Capped(n, low, high) == IF n < low THEN low ELSE IF n > high THEN high ELSE n

(* weight times num / den, in units of 1 / Scale                           *)
Part(weight, num, den) == weight * num * (Scale \div den)

PriorOnTop(s) ==   (* mutant: what is observed keeps its full weight *)
  Capped((IF s.total < MinHistory THEN Part(30, 75 * (MinHistory - s.total), 100 * MinHistory)
          ELSE 0)
         + (IF s.total = 0 THEN 0 ELSE Part(30, s.ok, s.total)),
         0, 30 * Scale)

(* The prior fills a short history up to MinHistory verifications.         *)
SuccessRate(s) ==
  IF s.total < MinHistory
  THEN Part(30, 75 * (MinHistory - s.total) + 100 * s.ok, 100 * MinHistory)
  ELSE Part(30, s.ok, s.total)

HeavyPrior(s) ==   (* mutant: a prior fault rate of 0.2 instead of 0.02 *)
  Capped(IF s.total < MinHistory
         THEN Part(25, 100 * MinHistory - 200 * (MinHistory - s.total) - 1000 * s.fault,
                   100 * MinHistory)
         ELSE Part(25, s.total - 10 * s.fault, s.total),
         0, 25 * Scale)

FaultRate(s) ==
  Capped(IF s.total < MinHistory
         THEN Part(25, 100 * MinHistory - 20 * (MinHistory - s.total) - 1000 * s.fault,
                   100 * MinHistory)
         ELSE Part(25, s.total - 10 * s.fault, s.total),
         0, 25 * Scale)

FaultsForgotten(s) ==   (* mutant: only cleared and open disputes count *)
  IF s.cleared + s.open = 0 THEN Part(10, 1, 2) ELSE Part(10, s.cleared, s.cleared + s.open)

ExonerationRate(s) ==
  LET disputes == s.fault + s.cleared + s.open IN
  IF disputes = 0 THEN Part(10, 1, 2) ELSE Part(10, s.cleared, disputes)

Consistency(s) ==
  IF s.checked = 0 THEN Part(15, 4, 5) ELSE Part(15, s.agreed, s.checked)

(* Response time on target and the minimum stake, one fifth of its factor. *)
OnTargetAndStaked == Part(5, 1, 1) + Part(10, 1, 5)

Recency(t) == Capped(Part(5, RecencyDays - (t - lastActive), RecencyDays), 0, 5 * Scale)

Rounded(num, den) == (2 * num + den) \div (2 * den)

Penalty(t) == IF degradedUntil # NoEnd /\ t < degradedUntil THEN 65 ELSE 100

Score(s, t) ==
  IF status \in {"suspended", "blacklisted"} THEN 0
  ELSE LET raw == SuccessRate(s) + FaultRate(s) + ExonerationRate(s) + Consistency(s)
                  + OnTargetAndStaked + Recency(t)
       IN Capped(Rounded(raw * Penalty(t), 100 * Scale), 0, 100)

Tier(score) ==
  CASE score >= 85 -> "elite"
    [] score \in 65..84 -> "trusted"
    [] score \in 45..64 -> "neutral"
    [] score \in 25..44 -> "degraded"
    [] OTHER -> "untrusted"

Excluded(s, t) == Tier(Score(s, t)) = "untrusted"

-----------------------------------------------------------------------------
(* What happens to a verifier.                                             *)

Verified(ok) ==
  /\ signals.total < MaxVerifications
  /\ signals' = [signals EXCEPT !.total = @ + 1, !.ok = IF ok THEN @ + 1 ELSE @]
  /\ lastActive' = now
  /\ UNCHANGED <<now, status, degradedUntil>>

DisputeOpened ==
  /\ signals.fault + signals.cleared + signals.open < signals.total
  /\ signals.fault + signals.cleared + signals.open < MaxDisputes
  /\ signals' = [signals EXCEPT !.open = @ + 1]
  /\ UNCHANGED <<now, status, degradedUntil, lastActive>>

CrossChecked(agreed) ==
  /\ signals.checked < MaxCrossChecks
  /\ signals' = [signals EXCEPT !.checked = @ + 1, !.agreed = IF agreed THEN @ + 1 ELSE @]
  /\ UNCHANGED <<now, status, degradedUntil, lastActive>>

FromAnyStatus == TRUE   (* mutant: a suspended verifier is degraded, and recovers *)

Degradable == status \notin {"blacklisted", "suspended"}

(* applyDegradation: a later window replaces an earlier one.               *)
ApplyDegradation(ends) ==
  IF Degradable
  THEN status' = "degraded" /\ degradedUntil' = ends
  ELSE UNCHANGED <<status, degradedUntil>>

(* An event of another reason than a dispute: a breach, a pattern, a hand. *)
Degraded(days) ==
  /\ ApplyDegradation(now + days)
  /\ UNCHANGED <<now, lastActive, signals>>

ResolvedTwice(fault, days) ==   (* mutant: a dispute already closed is closed again *)
  /\ IF fault
     THEN /\ signals' = [signals EXCEPT !.open = @ - 1, !.fault = @ + 1]
          /\ ApplyDegradation(now + days)
     ELSE /\ signals' = [signals EXCEPT !.open = @ - 1, !.cleared = @ + 1]
          /\ UNCHANGED <<status, degradedUntil>>
  /\ UNCHANGED <<now, lastActive>>

(* applyDisputeOutcome                                                     *)
ApplyDisputeOutcome(fault, days) ==
  /\ signals.open > 0
  /\ IF fault
     THEN /\ signals' = [signals EXCEPT !.open = @ - 1, !.fault = @ + 1]
          /\ ApplyDegradation(now + days)
     ELSE /\ signals' = [signals EXCEPT !.open = @ - 1, !.cleared = @ + 1]
          /\ UNCHANGED <<status, degradedUntil>>
  /\ UNCHANGED <<now, lastActive>>

ExpireAny == status = "degraded" /\ degradedUntil # NoEnd   (* mutant: before its end *)

DueWhenPast == degradedUntil # NoEnd /\ now >= degradedUntil   (* mutant: in any status *)

Due == status = "degraded" /\ degradedUntil # NoEnd /\ now >= degradedUntil

ExpireDegradationIfDue ==
  /\ Due
  /\ status' = "active" /\ degradedUntil' = NoEnd
  /\ UNCHANGED <<now, lastActive, signals>>

(* The operator suspends, reinstates, blacklists or puts on probation.     *)
OperatorSets(new) ==
  /\ status # "blacklisted"
  /\ status' = new
  /\ UNCHANGED <<now, degradedUntil, lastActive, signals>>

ReputationNext ==
  \/ Tick /\ UNCHANGED verifierVars
  \/ \E b \in BOOLEAN : Verified(b) \/ CrossChecked(b)
  \/ DisputeOpened
  \/ \E days \in WindowDays : Degraded(days) \/ \E b \in BOOLEAN : ApplyDisputeOutcome(b, days)
  \/ ExpireDegradationIfDue
  \/ \E new \in {"active", "suspended", "blacklisted", "probation"} : OperatorSets(new)

ReputationSpec == ReputationInit /\ [][ReputationNext]_<<now, verifierVars>>

-----------------------------------------------------------------------------
(* Properties.                                                             *)

(* Good news never lowers the score and bad news about a dispute never     *)
(* raises it, through the priors that short histories are mixed with, the  *)
(* inverted and capped fault rate, and the rounding of the penalty.        *)
NewsMovesScoreItsWay ==
  LET before == Score(signals, now)  after == Score(signals, now)' IN
  status' = status /\ degradedUntil' = degradedUntil /\ now' = now =>
    /\ \/ signals'.ok > signals.ok
       \/ signals'.agreed > signals.agreed
       \/ signals'.cleared > signals.cleared
       => after >= before
    /\ signals'.fault > signals.fault \/ signals'.open > signals.open
       => after <= before

(* However many verifications failed, disputes are open and reviews        *)
(* disagree, and however long it was away: outside a degraded window only  *)
(* a fault finding or an operator excludes a verifier, on either side of   *)
(* the history at which the priors stop.                                   *)
ExclusionNeedsFault ==
  /\ signals.fault = 0 /\ Penalty(now) = 100
  /\ status \notin {"suspended", "blacklisted"}
  => ~Excluded(signals, now)

(* No window begins or ends for a suspended or blacklisted verifier: what  *)
(* was open when the operator stepped in neither runs out into "active"    *)
(* nor is replaced, and suspension is lifted by a step that changes        *)
(* nothing but the status, the operator's. A window that is closed         *)
(* belonged to a degraded verifier and had run to its end.                 *)
MistrustPersists ==
  /\ status \in {"suspended", "blacklisted"} =>
       /\ degradedUntil' = degradedUntil
       /\ status' # status => status = "suspended" /\ UNCHANGED <<now, lastActive, signals>>
  /\ degradedUntil # NoEnd /\ degradedUntil' = NoEnd =>
       status = "degraded" /\ now >= degradedUntil

(* A verifier stands as its record says.                                   *)
StandingIsEarned == ReputationTypeOK /\ ExclusionNeedsFault

(* What happens to a verifier changes its standing in the right direction. *)
JudgedFairly == [][NewsMovesScoreItsWay /\ MistrustPersists]_<<now, verifierVars>>

=============================================================================
