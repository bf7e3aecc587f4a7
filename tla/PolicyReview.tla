----------------------------- MODULE PolicyReview -----------------------------
(***************************************************************************)
(* The review of a policy proposal, packages/shared/governance/index.ts    *)
(* with trust-thresholds.ts and impact.ts: the impact of a proposal picks  *)
(* its review path, votes are applied as they arrive, and the proposal is  *)
(* evaluated at any time. The functions touch no other proposal, so one is *)
(* followed. A vote carries the time it was cast at and may arrive later.  *)
(*                                                                         *)
(* What a change comes from is what its proposer says: nothing compares it *)
(* with the threshold in force, so "lowers" below means lowers by its own  *)
(* account.                                                                *)
(*                                                                         *)
(* canPropose, the audit events and the descriptions decide nothing here.  *)
(***************************************************************************)
EXTENDS Clock, FiniteSets, FiniteSetsExt, Functions

CONSTANTS
  Voters, RoleOf,    (* the voters and the role each votes in              *)
  NoReview,          (* no proposal yet                                    *)
  Thresholds,        (* DEFAULT_TRUST_THRESHOLDS: floor, ceiling, impact   *)
  Changes,           (* the threshold changes proposals include            *)
  ReviewWindow,      (* reviewWindowDays of each path                      *)
  Types,             (* bound: the decision types proposed                 *)
  MaxChanges         (* bound: threshold changes of one proposal           *)

Impacts == {"low", "moderate", "high", "critical"}

Rank == [low |-> 0, moderate |-> 1, high |-> 2, critical |-> 3]

MaxImpact(S) == CHOOSE i \in S : \A j \in S : Rank[j] <= Rank[i]

Roles == {"contributor", "verifier", "operator", "maintainer", "security_council",
          "community_council"}

DecisionTypes == {"policy_change", "parameter_change", "platform_upgrade",
                  "trust_threshold_change", "contract_upgrade", "emergency_action"}

ASSUME PolicyConstants ==
  /\ RoleOf \in [Voters -> Roles]
  /\ \A k \in DOMAIN Thresholds :
       Thresholds[k] \in [floor : Nat, ceiling : Nat, impact : Impacts]
  /\ Changes \subseteq [key : DOMAIN Thresholds, from : Nat, to : Nat]
  /\ Types \subseteq DecisionTypes /\ MaxChanges \in Nat
  /\ ReviewWindow \in [{"fast_track", "standard", "extended", "security_council"} -> Nat]

(* STAKEHOLDER_ROLES: the decision types a role reviews.                   *)
CanReview ==
  [contributor |-> {},
   verifier |-> {"trust_threshold_change"},
   operator |-> DecisionTypes \ {"contract_upgrade", "emergency_action"},
   maintainer |-> DecisionTypes,
   security_council |-> DecisionTypes,
   community_council |-> DecisionTypes \ {"contract_upgrade", "emergency_action"}]

DefaultImpact ==
  [policy_change |-> "moderate", parameter_change |-> "moderate", platform_upgrade |-> "high",
   trust_threshold_change |-> "high", contract_upgrade |-> "critical",
   emergency_action |-> "critical"]

ImpactFloor ==
  [policy_change |-> "low", parameter_change |-> "low", platform_upgrade |-> "moderate",
   trust_threshold_change |-> "high", contract_upgrade |-> "critical",
   emergency_action |-> "critical"]

WithVerifiers ==   (* mutant: verifiers stand in for the community *)
  [fast_track |-> [maintainer |-> 1],
   standard |-> [maintainer |-> 2, operator |-> 1],
   extended |-> [maintainer |-> 2, security_council |-> 1, verifier |-> 1],
   security_council |-> [security_council |-> 2, maintainer |-> 1]]

(* REVIEW_PATHS: approvals, and whether the security council has a veto.   *)
RequiredApprovals ==
  [fast_track |-> [maintainer |-> 1],
   standard |-> [maintainer |-> 2, operator |-> 1],
   extended |-> [maintainer |-> 2, security_council |-> 1, community_council |-> 1],
   security_council |-> [security_council |-> 2, maintainer |-> 1]]

VetoPaths == {"security_council"}

ReviewPath(type, impact) ==
  IF type = "emergency_action" THEN "security_council"
  ELSE [low |-> "fast_track", moderate |-> "standard", high |-> "extended",
        critical |-> "security_council"][impact]

VARIABLE review    (* the PolicyReviewProposal, its votes as a function    *)

Review ==
  [type : DecisionTypes, impact : Impacts, changes : SUBSET Changes, ends : Nat,
   status : {"open", "approved", "rejected"},
   votes : [Voters -> {"none", "approve", "reject", "abstain"}]]

ReviewTypeOK == now \in Nat /\ review \in Review \cup {NoReview}

PolicyInit == now = 0 /\ review = NoReview

-----------------------------------------------------------------------------

OutOfBounds(c) ==
  c.to < Thresholds[c.key].floor \/ c.to > Thresholds[c.key].ceiling

LowerAsRaise(c) ==   (* mutant: lowering a threshold is a change like another *)
  IF OutOfBounds(c) THEN "critical" ELSE Thresholds[c.key].impact

(* evaluateThresholdChange: the minimum impact of a change.                *)
MinimumImpact(c) ==
  IF OutOfBounds(c) \/ c.to < c.from THEN "critical" ELSE Thresholds[c.key].impact

Declared(type, declared, changes) ==   (* mutant: the floor of the type is forgotten *)
  MaxImpact({declared} \cup {MinimumImpact(c) : c \in changes})

ImpactOf(type, declared, changes) ==
  MaxImpact({declared, ImpactFloor[type]} \cup {MinimumImpact(c) : c \in changes})

CreatePolicyReviewProposal(type, declared, changes) ==
  LET impact == ImpactOf(type, declared, changes) IN
  /\ review = NoReview
  /\ review' = [type |-> type, impact |-> impact, changes |-> changes,
                ends |-> now + ReviewWindow[ReviewPath(type, impact)],
                status |-> "open", votes |-> [v \in Voters |-> "none"]]
  /\ UNCHANGED now

Path(r) == ReviewPath(r.type, r.impact)

AnyVotes(r, role) ==   (* mutant: abstentions count as well *)
  Cardinality({v \in Voters : RoleOf[v] = role /\ r.votes[v] \in {"approve", "abstain"}})

(* tallyApprovals                                                          *)
Approvals(r, role) ==
  Cardinality({v \in Voters : RoleOf[v] = role /\ r.votes[v] = "approve"})

QuorumMet(r) ==
  LET required == RequiredApprovals[Path(r)] IN
  \A role \in DOMAIN required : Approvals(r, role) >= required[role]

OutcomeWords(r, vetoed) ==   (* mutant: the words of an outcome are stored *)
  IF vetoed THEN "rejected" ELSE IF QuorumMet(r) THEN "approved" ELSE "pending"

StatusAfter(r, vetoed) ==
  IF vetoed THEN "rejected" ELSE IF QuorumMet(r) THEN "approved" ELSE "open"

MayReview(v, r) == TRUE   (* mutant: any role reviews anything *)

Reviews(v, r) == r.type \in CanReview[RoleOf[v]]

(* applyReviewVote. A vote that is ignored leaves everything unchanged.    *)
ApplyReviewVote(v, decision, votedAt) ==
  LET voted == [review EXCEPT !.votes[v] = decision]
      vetoed == /\ decision = "reject" /\ RoleOf[v] = "security_council"
                /\ Path(review) \in VetoPaths
  IN
  /\ review # NoReview
  /\ review.status = "open"
  /\ review.votes[v] = "none"
  /\ Reviews(v, review)
  /\ votedAt <= review.ends
  /\ review' = [voted EXCEPT !.status = StatusAfter(voted, vetoed)]
  /\ UNCHANGED now

QuorumAnew(r, t) ==   (* mutant: time is looked at before the status *)
  CASE t > r.ends -> "expired"
    [] r.status = "rejected" -> "rejected"
    [] QuorumMet(r) -> "approved"
    [] OTHER -> "pending"

(* evaluatePolicyReview, a query: it changes nothing.                      *)
Outcome(r, t) ==
  CASE r.status \in {"approved", "rejected"} -> r.status
    [] r.status = "open" /\ t > r.ends -> "expired"
    [] r.status = "open" /\ t <= r.ends /\ QuorumMet(r) -> "approved"
    [] OTHER -> "pending"

PolicyNext ==
  \/ Tick /\ UNCHANGED review
  \/ \E type \in Types, declared \in Impacts,
        changes \in {C \in SUBSET Changes : Cardinality(C) <= MaxChanges} :
       CreatePolicyReviewProposal(type, declared, changes)
  \/ \E v \in Voters, decision \in {"approve", "reject", "abstain"}, at \in 0..now :
       ApplyReviewVote(v, decision, at)

PolicySpec == PolicyInit /\ [][PolicyNext]_<<now, review>>

-----------------------------------------------------------------------------
(* Properties.                                                             *)

Approving(r, role) == {v \in Voters : RoleOf[v] = role /\ r.votes[v] = "approve"}

(* However votes come in and whatever impact was declared: an approved     *)
(* proposal has the maintainers behind it, so never the council alone; one *)
(* that lowers a threshold (from what it says it is) or leaves its bounds, *)
(* upgrades a contract or is an emergency has two of the council and no    *)
(* rejection of theirs; and everybody counted may review that type of      *)
(* decision.                                                               *)
ApprovalIsProportionate ==
  review # NoReview /\ review.status = "approved" =>
    /\ Approving(review, "maintainer") # {}
    /\ \A v \in Voters : review.votes[v] = "approve" => review.type \in CanReview[RoleOf[v]]
    /\ (\/ review.type \in {"contract_upgrade", "emergency_action"}
        \/ \E c \in review.changes : c.to < c.from \/ OutOfBounds(c)) =>
         /\ Cardinality(Approving(review, "security_council")) >= 2
         /\ \A v \in Voters : RoleOf[v] = "security_council" => review.votes[v] # "reject"

(* "an approved or rejected proposal never changes outcome", whatever time *)
(* passes and whichever votes still arrive.                                *)
OutcomeIsFinal ==
  [][review # NoReview /\ Outcome(review, now) \in {"approved", "rejected"} =>
       Outcome(review', now') = Outcome(review, now)]_<<now, review>>

(* Each proposal can still be approved when it is made: every role its     *)
(* path asks for reviews decisions of its type.                            *)
QuorumIsReachable ==
  review # NoReview =>
    \A role \in DOMAIN RequiredApprovals[Path(review)] : review.type \in CanReview[role]

(* The comment of evaluateThresholdChange: a change beyond the hard bounds *)
(* "is rejected and can never be approved". The code does not keep this,   *)
(* so no run checks it (see the README).                                   *)
HardBoundsHold ==
  review # NoReview /\ Outcome(review, now) = "approved" =>
    \A c \in review.changes : ~OutOfBounds(c)

(* A review asks for who may answer, and approves what had to be approved. *)
ReviewIsSound == ReviewTypeOK /\ ApprovalIsProportionate /\ QuorumIsReachable

=============================================================================
