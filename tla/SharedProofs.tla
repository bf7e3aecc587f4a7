----------------------------- MODULE SharedProofs -----------------------------
(***************************************************************************)
(* Proofs about the rule modules of packages/shared and about sign-in      *)
(* sessions.                                                               *)
(*                                                                         *)
(* Rules: a key rotation leaves no gap and a revocation is gated; a policy *)
(* proposal is approved by those who may, for good; and the score of a     *)
(* verifier moves with the news, down to exclusion only after a fault.     *)
(*                                                                         *)
(* Sessions: a session stays within what its login fixed and is forgotten  *)
(* only when it was long over; once over it stays over; and nobody is      *)
(* taken for a thief unless an answer was lost. The first two are about    *)
(* the server's records alone, the last relates them to every place a pair *)
(* of tokens can be in.                                                    *)
(***************************************************************************)
EXTENDS PolicyReview, VerifierReputation, KeyLifecycle, AuthSessions, FiniteSetTheorems,
        SequenceTheorems, TLAPS

-----------------------------------------------------------------------------
(* Keys.                                                                   *)

Plans ==
  [trigger : Triggers, steps : {StepsFor(c, t) : c \in Categories, t \in Triggers},
   begun : SUBSET Nat, done : SUBSET Nat, twoPersons : BOOLEAN]

(* A plan is the one of the key's category, and a step begins only after   *)
(* all before it did and the blocking ones of them are done.               *)
PlanInOrder ==
  plan # NoPlan =>
    /\ plan \in Plans
    /\ plan.steps = StepsFor(key.category, plan.trigger)
    /\ plan.twoPersons = RequiresTwoPersons(key.category, plan.trigger)
    /\ plan.begun \subseteq DOMAIN plan.steps
    /\ plan.done \subseteq plan.begun
    /\ \A i \in plan.begun : \A j \in 1..(i - 1) :
         j \in plan.begun /\ (plan.steps[j].blocking => j \in plan.done)

KeyTypes ==
  /\ now \in Nat
  /\ key \in Key
  /\ request \in Request

KeyInv == KeyTypes /\ PlanInOrder

LEMMA StepsAreNumbered ==
  ASSUME NEW c \in Categories, NEW t \in Triggers
  PROVE  DOMAIN StepsFor(c, t) \subseteq Nat
BY DEF Categories, StepsFor, Step

(* The sequences of buildStepsForCategory: making and installing the new   *)
(* key block, and come before the old one is retired, but in the plan of a *)
(* compromised deployer key.                                               *)
LEMMA RetiredLast ==
  ASSUME NEW c \in Categories, NEW t \in Triggers,
         ~(c = "stellar_deployer" /\ t \in Compromise),
         NEW i \in DOMAIN StepsFor(c, t), StepsFor(c, t)[i].does = "retire",
         NEW j \in DOMAIN StepsFor(c, t), StepsFor(c, t)[j].does \in {"make", "install"}
  PROVE  j \in 1..(i - 1) /\ StepsFor(c, t)[j].blocking
<1>1. CASE c = "tee_enclave"      BY <1>1 DEF StepsFor, Step
<1>2. CASE c = "stellar_deployer" BY <1>2 DEF StepsFor, Step
<1>3. CASE c = "oracle_provider"  BY <1>3 DEF StepsFor, Step
<1>4. CASE c = "api_key"          BY <1>4 DEF StepsFor, Step
<1>5. CASE c = "ci_cd"            BY <1>5 DEF StepsFor, Step
<1> QED BY <1>1, <1>2, <1>3, <1>4, <1>5 DEF Categories

LEMMA KeyInvStep ==
  ASSUME KeyInv, [KeyNext]_<<now, keyVars>>
  PROVE  KeyInv'
<1> USE DEF KeyInv, KeyTypes, PlanInOrder
<1>0. CASE UNCHANGED <<now, keyVars>>
  BY <1>0 DEF keyVars
<1>1. CASE Tick /\ UNCHANGED keyVars
  BY <1>1, ClockConstants DEF keyVars, Tick
<1>2. ASSUME NEW trigger \in Triggers, BuildRotationPlan(trigger)
      PROVE  KeyInv'
  <2>1. key.category \in Categories
    BY DEF Key
  <2>2. /\ plan'.trigger = trigger /\ plan'.steps = StepsFor(key.category, trigger)
        /\ plan'.begun = {} /\ plan'.done = {}
        /\ plan'.twoPersons = RequiresTwoPersons(key.category, trigger)
    BY <1>2 DEF BuildRotationPlan
  <2>3. plan' \in Plans
    BY <1>2, <2>1 DEF BuildRotationPlan, Plans, RequiresTwoPersons
  <2> QED BY <1>2, <2>2, <2>3 DEF BuildRotationPlan
<1>3. ASSUME plan # NoPlan, NEW i \in DOMAIN plan.steps, BeginStep(i)
      PROVE  KeyInv'
  <2>1. i \in Nat
    BY <1>3, StepsAreNumbered DEF Key, Plans
  <2>2. /\ plan' \in Plans /\ plan'.begun = plan.begun \cup {i}
        /\ plan'.trigger = plan.trigger /\ plan'.steps = plan.steps
        /\ plan'.done = plan.done /\ plan'.twoPersons = plan.twoPersons
    BY <1>3, <2>1 DEF BeginStep, Plans
  <2> QED BY <1>3, <2>2 DEF BeginStep
<1>4. ASSUME plan # NoPlan, NEW i \in DOMAIN plan.steps, FinishStep(i)
      PROVE  KeyInv'
  <2>1. /\ plan' \in Plans /\ plan'.done = plan.done \cup {i}
        /\ plan'.trigger = plan.trigger /\ plan'.steps = plan.steps
        /\ plan'.begun = plan.begun /\ plan'.twoPersons = plan.twoPersons
    BY <1>4 DEF FinishStep, Plans
  <2> QED BY <1>4, <2>1 DEF FinishStep
<1>5. CASE Rotated
  <2>1. PICK l \in Lifetimes :
          key' = [key EXCEPT !.reference = now, !.expires = IF l = 0 THEN 0 ELSE now + l]
    BY <1>5 DEF Rotated
  <2>2. l \in Nat
    BY KeyConstants
  <2>3. \A e \in Nat : [key EXCEPT !.reference = now, !.expires = e] \in Key
    BY DEF Key
  <2>4. (IF l = 0 THEN 0 ELSE now + l) \in Nat
    BY <2>2
  <2>5. key' \in Key /\ key'.category = key.category
    BY <2>1, <2>3, <2>4 DEF Key
  <2> QED BY <1>5, <2>5 DEF Rotated
<1>6. ASSUME NEW requestedBy \in Persons, NEW approvedBy \in Persons \cup {NoOne},
             NEW justified \in BOOLEAN,
             EvaluateEmergencyRevocation(requestedBy, approvedBy, justified)
      PROVE  KeyInv'
  <2>1. key' \in Key /\ key'.category = key.category
    BY <1>6 DEF EvaluateEmergencyRevocation, Key
  <2>2. request' \in Request
    BY <1>6 DEF EvaluateEmergencyRevocation, Gate, Gates, Request
  <2> QED BY <1>6, <2>1, <2>2 DEF EvaluateEmergencyRevocation
<1>7. ASSUME NEW s \in {"superseded", "expired"}, CallerSets(s)
      PROVE  KeyInv'
  <2>1. key' \in Key /\ key'.category = key.category
    BY <1>7 DEF CallerSets, Key
  <2> QED BY <1>7, <2>1 DEF CallerSets
<1> QED BY <1>0, <1>1, <1>2, <1>3, <1>4, <1>5, <1>6, <1>7 DEF KeyNext

LEMMA KeyInvHolds == KeySpec => []KeyInv
<1>1. KeyInit => KeyInv
  BY KeyConstants DEF KeyInit, KeyInv, KeyTypes, PlanInOrder, Key, Gates, Request
<1>2. KeyInv /\ [KeyNext]_<<now, keyVars>> => KeyInv'
  BY KeyInvStep
<1> QED BY <1>1, <1>2, PTL DEF KeySpec

(* buildRotationPlan and the order its blocking steps impose: for every    *)
(* category, interval and lifetime, an old key is retired only when the    *)
(* new one is made and installed, and one person carries a plan only where *)
(* one is enough.                                                          *)
THEOREM RotationLeavesNoGap == KeySpec => []RotationIsSafe
<1>1. KeyInv => RotationIsSafe
  <2> SUFFICES ASSUME KeyInv PROVE KeyTypeOK /\ NeverWithoutKey
    BY DEF RotationIsSafe
  <2>1. KeyTypeOK
    BY DEF KeyInv, KeyTypes, PlanInOrder, KeyTypeOK, Plans
  <2>2. ASSUME plan # NoPlan, NEW i \in StepsThat("retire"), i \in plan.begun,
               ~(key.category = "stellar_deployer" /\ plan.trigger \in Compromise),
               NEW j \in StepsThat("make") \cup StepsThat("install")
        PROVE  j \in plan.done
    <3>1. /\ key.category \in Categories /\ plan.trigger \in Triggers
          /\ plan.steps = StepsFor(key.category, plan.trigger)
      BY <2>2 DEF KeyInv, KeyTypes, PlanInOrder, Plans, Key
    <3>2. /\ i \in DOMAIN plan.steps /\ plan.steps[i].does = "retire"
          /\ j \in DOMAIN plan.steps /\ plan.steps[j].does \in {"make", "install"}
      BY <2>2 DEF StepsThat
    <3>3. j \in 1..(i - 1) /\ plan.steps[j].blocking
      BY <2>2, <3>1, <3>2, RetiredLast
    <3> QED BY <2>2, <3>3 DEF KeyInv, PlanInOrder
  <2>3. plan # NoPlan =>
          plan.twoPersons \/ (key.category = "api_key" /\ plan.trigger = "scheduled")
    BY DEF KeyInv, PlanInOrder, Plans, RequiresTwoPersons, SingleApprover, Triggers
  <2> QED BY <2>1, <2>2, <2>3 DEF NeverWithoutKey
<1> QED BY <1>1, KeyInvHolds, PTL

(* evaluateKeyRotationPolicy never takes a due rotation back by itself,    *)
(* and evaluateEmergencyRevocation revokes what needs an approver only for *)
(* a request that names one; a key that is gone stays gone.                *)
THEOREM GatesHold == KeySpec => KeysAreGuarded
<1>1. ASSUME KeyInv, KeyNext
      PROVE  UrgencyOnlyGrows
  <2> SUFFICES ASSUME key' = key, now' # now
               PROVE  /\ Urgency[RotationPolicy(key, now)] <= Urgency[RotationPolicy(key, now')]
                      /\ 1 \in ImmediateActionKeys(<<key>>, now) =>
                           1 \in ImmediateActionKeys(<<key>>, now')
    BY DEF UrgencyOnlyGrows
  <2>1. now \in Nat /\ now' \in Nat /\ now <= now'
    <3>1. now \in Nat
      BY <1>1 DEF KeyInv, KeyTypes
    <3>2. Tick \/ now' = now
      BY <1>1 DEF KeyNext, BuildRotationPlan, BeginStep, FinishStep, Rotated,
                  EvaluateEmergencyRevocation, CallerSets
    <3> QED BY <3>1, <3>2 DEF Tick
  <2>2. key.reference \in Nat /\ key.interval \in Nat /\ key.expires \in Nat
    BY <1>1 DEF KeyInv, KeyTypes, Key
  <2>3. /\ Urgency[RotationPolicy(key, now)] \in Nat
        /\ Urgency[RotationPolicy(key, now')] \in Nat
        /\ Urgency[RotationPolicy(key, now)] <= Urgency[RotationPolicy(key, now')]
    BY <2>1, <2>2, KeyConstants DEF RotationPolicy, Urgency
  <2>4. \A t : 1 \in ImmediateActionKeys(<<key>>, t) <=> Urgency[RotationPolicy(key, t)] >= 2
    BY DEF ImmediateActionKeys
  <2> QED BY <2>3, <2>4
<1>2. ASSUME KeyInv, KeyNext
      PROVE  RevocationIsGated
  <2>1. ASSUME NEW requestedBy \in Persons, NEW approvedBy \in Persons \cup {NoOne},
               NEW justified \in BOOLEAN,
               EvaluateEmergencyRevocation(requestedBy, approvedBy, justified)
        PROVE  RevocationIsGated
    BY <1>2, <2>1 DEF KeyInv, KeyTypes, Key, EvaluateEmergencyRevocation, RevocationIsGated,
                      Gate, Gone, NeedsSecond, SingleApprover
  <2>2. CASE key'.status = key.status
    BY <2>2 DEF RevocationIsGated
  <2>3. ASSUME NEW s \in {"superseded", "expired"}, CallerSets(s)
        PROVE  RevocationIsGated
    BY <1>2, <2>3 DEF KeyInv, KeyTypes, Key, CallerSets, RevocationIsGated
  <2>4. CASE Rotated
    BY <1>2, <2>2, <2>4 DEF KeyInv, KeyTypes, Key, Rotated
  <2> QED BY <1>2, <2>1, <2>2, <2>3, <2>4 DEF KeyNext, keyVars, BuildRotationPlan, BeginStep,
                                             FinishStep
<1>3. KeyInv /\ [KeyNext]_<<now, keyVars>> =>
        [UrgencyOnlyGrows /\ RevocationIsGated]_<<now, keyVars>>
  BY <1>1, <1>2
<1> QED BY <1>3, KeyInvHolds, PTL DEF KeySpec, KeysAreGuarded

-----------------------------------------------------------------------------
(* Policy review.                                                          *)

(* The impact of a proposal is not below what its type and its changes     *)
(* ask for; only reviewers have voted; the status is the quorum's, unless  *)
(* the council has used its veto.                                          *)
ReviewedByRule(r) ==
  /\ r \in Review
  /\ Rank[ImpactFloor[r.type]] <= Rank[r.impact]
  /\ \A c \in r.changes : Rank[MinimumImpact(c)] <= Rank[r.impact]
  /\ \A v \in Voters : r.votes[v] # "none" => Reviews(v, r)
  /\ r.status = "open" => ~QuorumMet(r)
  /\ r.status = "approved" => QuorumMet(r)
  /\ Path(r) \in VetoPaths /\ r.status # "rejected" =>
       \A v \in Voters : RoleOf[v] = "security_council" => r.votes[v] # "reject"

PolicyInv ==
  /\ now \in Nat
  /\ review # NoReview => ReviewedByRule(review)

(* maxImpact: a member of the impacts given, and none of them is above it. *)
LEMMA MaxImpactIsMax ==
  ASSUME NEW S \in SUBSET Impacts, S # {}
  PROVE  MaxImpact(S) \in S /\ \A j \in S : Rank[j] <= Rank[MaxImpact(S)]
<1>1. /\ Rank["low"] = 0 /\ Rank["moderate"] = 1 /\ Rank["high"] = 2 /\ Rank["critical"] = 3
      /\ \A i \in S : i \in {"low", "moderate", "high", "critical"}
  BY DEF Rank, Impacts
<1>2. CASE "critical" \in S
  BY <1>1, <1>2 DEF MaxImpact
<1>3. CASE "critical" \notin S /\ "high" \in S
  BY <1>1, <1>3 DEF MaxImpact
<1>4. CASE "critical" \notin S /\ "high" \notin S /\ "moderate" \in S
  BY <1>1, <1>4 DEF MaxImpact
<1>5. CASE S = {"low"}
  BY <1>1, <1>5 DEF MaxImpact
<1> QED BY <1>1, <1>2, <1>3, <1>4, <1>5

LEMMA MinimumImpactIsImpact ==
  ASSUME NEW c \in Changes
  PROVE  MinimumImpact(c) \in Impacts
BY PolicyConstants DEF MinimumImpact, Impacts

LEMMA ImpactBoundsHold ==
  ASSUME NEW type \in DecisionTypes, NEW declared \in Impacts, NEW changes \in SUBSET Changes
  PROVE  LET impact == ImpactOf(type, declared, changes) IN
           /\ impact \in Impacts
           /\ Rank[ImpactFloor[type]] <= Rank[impact]
           /\ \A c \in changes : Rank[MinimumImpact(c)] <= Rank[impact]
<1> DEFINE S == {declared, ImpactFloor[type]} \cup {MinimumImpact(c) : c \in changes}
<1>1. S \in SUBSET Impacts /\ S # {}
  BY MinimumImpactIsImpact DEF DecisionTypes, ImpactFloor, Impacts
<1>2. MaxImpact(S) \in S /\ \A j \in S : Rank[j] <= Rank[MaxImpact(S)]
  BY <1>1, MaxImpactIsMax
<1> QED BY <1>1, <1>2 DEF ImpactOf

LEMMA PathsAreKnown ==
  ASSUME NEW type \in DecisionTypes, NEW impact \in Impacts
  PROVE  /\ ReviewPath(type, impact) \in {"fast_track", "standard", "extended", "security_council"}
         /\ RequiredApprovals[ReviewPath(type, impact)]["maintainer"] \in Nat \ {0}
         /\ "maintainer" \in DOMAIN RequiredApprovals[ReviewPath(type, impact)]
BY DEF ReviewPath, Impacts, RequiredApprovals

(* The tally reads the votes and the path, and nothing else.               *)
LEMMA QuorumOfVotes ==
  ASSUME NEW r, NEW s, r.votes = s.votes, Path(r) = Path(s)
  PROVE  QuorumMet(r) = QuorumMet(s)
<1>1. \A role : Approvals(r, role) = Approvals(s, role)
  BY DEF Approvals
<1> QED BY <1>1 DEF QuorumMet

(* With nobody's vote there is no quorum: every path asks for maintainers. *)
LEMMA NoVotesNoQuorum ==
  ASSUME NEW r \in Review, \A v \in Voters : r.votes[v] = "none"
  PROVE  ~QuorumMet(r)
<1>1. {v \in Voters : RoleOf[v] = "maintainer" /\ r.votes[v] = "approve"} = {}
  OBVIOUS
<1>2. Approvals(r, "maintainer") = 0
  BY <1>1, FS_EmptySet DEF Approvals
<1>3. /\ "maintainer" \in DOMAIN RequiredApprovals[Path(r)]
      /\ RequiredApprovals[Path(r)]["maintainer"] \in Nat \ {0}
  BY PathsAreKnown DEF Path, Review
<1> QED BY <1>2, <1>3 DEF QuorumMet

LEMMA ProposalBegins ==
  ASSUME PolicyInv, NEW type \in DecisionTypes, NEW declared \in Impacts,
         NEW changes \in SUBSET Changes,
         CreatePolicyReviewProposal(type, declared, changes)
  PROVE  ReviewedByRule(review')
<1> DEFINE impact == ImpactOf(type, declared, changes)
           ends == now + ReviewWindow[ReviewPath(type, impact)]
<1>1. /\ impact \in Impacts
      /\ Rank[ImpactFloor[type]] <= Rank[impact]
      /\ \A c \in changes : Rank[MinimumImpact(c)] <= Rank[impact]
  BY ImpactBoundsHold
<1>2. ends \in Nat
  BY <1>1, PathsAreKnown, PolicyConstants DEF PolicyInv
<1> HIDE DEF impact, ends
<1>3. review' = [type |-> type, impact |-> impact, changes |-> changes, ends |-> ends,
                 status |-> "open", votes |-> [v \in Voters |-> "none"]]
  BY DEF CreatePolicyReviewProposal, impact, ends
<1>4. review' \in Review
  BY <1>1, <1>2, <1>3 DEF Review
<1>5. \A v \in Voters : review'.votes[v] = "none"
  BY <1>3
<1>6. ~QuorumMet(review')
  BY <1>4, <1>5, NoVotesNoQuorum
<1>7. review'.status = "open" /\ review'.type = type /\ review'.impact = impact
      /\ review'.changes = changes
  BY <1>3
<1> QED BY <1>1, <1>4, <1>5, <1>6, <1>7 DEF ReviewedByRule

LEMMA VoteByRule ==
  ASSUME PolicyInv, NEW v \in Voters, NEW decision \in {"approve", "reject", "abstain"},
         NEW at, ApplyReviewVote(v, decision, at)
  PROVE  ReviewedByRule(review')
<1> DEFINE voted == [review EXCEPT !.votes[v] = decision]
           vetoed == /\ decision = "reject" /\ RoleOf[v] = "security_council"
                     /\ Path(review) \in VetoPaths
<1>1. /\ ReviewedByRule(review) /\ review.status = "open" /\ Reviews(v, review)
      /\ review' = [voted EXCEPT !.status = StatusAfter(voted, vetoed)]
  BY DEF PolicyInv, ApplyReviewVote
<1>2. review \in Review
  BY <1>1 DEF ReviewedByRule
<1>3. voted \in Review /\ voted.votes = [review.votes EXCEPT ![v] = decision]
  BY <1>2 DEF Review
<1>4. StatusAfter(voted, vetoed) \in {"open", "approved", "rejected"}
  BY DEF StatusAfter
<1>5. /\ review' \in Review
      /\ review'.status = StatusAfter(voted, vetoed)
      /\ review'.votes = [review.votes EXCEPT ![v] = decision]
      /\ review'.type = review.type /\ review'.impact = review.impact
      /\ review'.changes = review.changes
  BY <1>1, <1>2, <1>3, <1>4 DEF Review
<1>6. Path(review') = Path(review) /\ Path(voted) = Path(review)
  BY <1>2, <1>5 DEF Path, Review
<1>7. QuorumMet(review') = QuorumMet(voted)
  BY <1>3, <1>5, <1>6, QuorumOfVotes
<1> HIDE DEF voted, vetoed
<1>8. /\ review'.status = "open" => ~QuorumMet(review')
      /\ review'.status = "approved" => QuorumMet(review')
  BY <1>5, <1>7 DEF StatusAfter
<1>9. Path(review') \in VetoPaths /\ review'.status # "rejected" =>
        \A w \in Voters : RoleOf[w] = "security_council" => review'.votes[w] # "reject"
  <2> SUFFICES ASSUME Path(review') \in VetoPaths, review'.status # "rejected",
                      NEW w \in Voters, RoleOf[w] = "security_council"
               PROVE  review'.votes[w] # "reject"
    OBVIOUS
  <2>1. ~vetoed
    BY <1>5 DEF StatusAfter
  <2>2. CASE w = v
    BY <1>2, <1>5, <1>6, <2>1, <2>2 DEF vetoed, Review
  <2>3. CASE w # v
    BY <1>1, <1>5, <1>6, <2>3 DEF ReviewedByRule, Review
  <2> QED BY <2>2, <2>3
<1>10. \A w \in Voters : review'.votes[w] # "none" => Reviews(w, review')
  BY <1>1, <1>5 DEF ReviewedByRule, Reviews, Review
<1>11. /\ Rank[ImpactFloor[review'.type]] <= Rank[review'.impact]
       /\ \A c \in review'.changes : Rank[MinimumImpact(c)] <= Rank[review'.impact]
  BY <1>1, <1>5 DEF ReviewedByRule
<1> QED BY <1>5, <1>8, <1>9, <1>10, <1>11 DEF ReviewedByRule

LEMMA PolicyInvStep ==
  ASSUME PolicyInv, [PolicyNext]_<<now, review>>
  PROVE  PolicyInv'
<1>0. CASE UNCHANGED <<now, review>>
  BY <1>0 DEF PolicyInv, ReviewedByRule, Path, QuorumMet, Approvals, Reviews
<1>1. CASE Tick /\ UNCHANGED review
  <2>1. now' \in Nat
    BY <1>1 DEF PolicyInv, Tick
  <2> QED BY <1>1, <2>1 DEF PolicyInv, ReviewedByRule, Path, QuorumMet, Approvals, Reviews
<1>2. ASSUME NEW type \in Types, NEW declared \in Impacts, NEW changes \in SUBSET Changes,
             CreatePolicyReviewProposal(type, declared, changes)
      PROVE  PolicyInv'
  <2>1. type \in DecisionTypes
    BY PolicyConstants
  <2>2. ReviewedByRule(review')
    BY <1>2, <2>1, ProposalBegins
  <2> QED BY <1>2, <2>2 DEF PolicyInv, CreatePolicyReviewProposal, ReviewedByRule, Path,
                            QuorumMet, Approvals, Reviews
<1>3. ASSUME NEW v \in Voters, NEW decision \in {"approve", "reject", "abstain"}, NEW at,
             ApplyReviewVote(v, decision, at)
      PROVE  PolicyInv'
  <2>1. ReviewedByRule(review')
    BY <1>3, VoteByRule
  <2> QED BY <1>3, <2>1 DEF PolicyInv, ApplyReviewVote, ReviewedByRule, Path, QuorumMet,
                            Approvals, Reviews
<1> QED BY <1>0, <1>1, <1>2, <1>3 DEF PolicyNext

LEMMA PolicyInvHolds == PolicySpec => []PolicyInv
<1>1. PolicyInit => PolicyInv
  BY DEF PolicyInit, PolicyInv
<1>2. PolicyInv /\ [PolicyNext]_<<now, review>> => PolicyInv'
  BY PolicyInvStep
<1> QED BY <1>1, <1>2, PTL DEF PolicySpec

(* What asks for the council's approval takes the council's path.          *)
LEMMA GravestTakeCouncilPath ==
  ASSUME ReviewedByRule(review),
         \/ review.type \in {"contract_upgrade", "emergency_action"}
         \/ \E c \in review.changes : c.to < c.from \/ OutOfBounds(c)
  PROVE  Path(review) = "security_council"
<1>1. review \in Review
  BY DEF ReviewedByRule
<1>2. review.type \in DecisionTypes /\ review.impact \in Impacts
  BY <1>1 DEF Review
<1>3. Rank[review.impact] >= 3 => review.impact = "critical"
  BY <1>2 DEF Impacts, Rank
<1>4. CASE review.type \in {"contract_upgrade", "emergency_action"}
  <2>1. Rank[ImpactFloor[review.type]] = 3
    BY <1>4 DEF ImpactFloor, Rank
  <2>2. Rank[review.impact] >= 3
    BY <1>2, <2>1 DEF ReviewedByRule, Impacts, Rank
  <2> QED BY <1>3, <2>2 DEF Path, ReviewPath
<1>5. ASSUME NEW c \in review.changes, c.to < c.from \/ OutOfBounds(c)
      PROVE  Path(review) = "security_council"
  <2>1. Rank[MinimumImpact(c)] = 3
    BY <1>5 DEF MinimumImpact, Rank
  <2>2. Rank[review.impact] >= 3
    BY <1>2, <2>1 DEF ReviewedByRule, Impacts, Rank
  <2> QED BY <1>3, <2>2 DEF Path, ReviewPath
<1> QED BY <1>4, <1>5

(* createPolicyReviewProposal and applyReviewVote, for any voters, any     *)
(* thresholds and windows: a proposal only asks for reviewers that exist   *)
(* for its type, and is approved by maintainers, by nobody who may not     *)
(* review it, and where it is grave by two of the council against none.    *)
THEOREM ApprovalIsEarned == PolicySpec => []ReviewIsSound
<1>1. PolicyInv => ReviewIsSound
  <2> SUFFICES ASSUME PolicyInv
               PROVE  ReviewTypeOK /\ ApprovalIsProportionate /\ QuorumIsReachable
    BY DEF ReviewIsSound
  <2>1. ReviewTypeOK
    BY DEF PolicyInv, ReviewedByRule, ReviewTypeOK
  <2>2. CASE review = NoReview
    BY <2>1, <2>2 DEF ApprovalIsProportionate, QuorumIsReachable
  <2>3. CASE review # NoReview
    <3>1. /\ ReviewedByRule(review) /\ review \in Review
          /\ review.type \in DecisionTypes /\ review.impact \in Impacts
      BY <2>3 DEF PolicyInv, ReviewedByRule, Review
    <3>2. QuorumIsReachable
      <4>1. Rank[ImpactFloor[review.type]] <= Rank[review.impact]
        BY <3>1 DEF ReviewedByRule
      <4> QED BY <3>1, <4>1 DEF QuorumIsReachable, RequiredApprovals, Path, ReviewPath,
                                CanReview, DecisionTypes, ImpactFloor, Rank, Impacts
    <3>3. ASSUME review.status = "approved"
          PROVE  /\ Approving(review, "maintainer") # {}
                 /\ Path(review) = "security_council" =>
                      Cardinality(Approving(review, "security_council")) >= 2
      <4>1. \A role : Approvals(review, role) = Cardinality(Approving(review, role))
        BY DEF Approvals, Approving
      <4>2. \A role \in DOMAIN RequiredApprovals[Path(review)] :
              Cardinality(Approving(review, role)) >= RequiredApprovals[Path(review)][role]
        BY <3>1, <3>3, <4>1 DEF ReviewedByRule, QuorumMet
      <4>3. /\ "maintainer" \in DOMAIN RequiredApprovals[Path(review)]
            /\ RequiredApprovals[Path(review)]["maintainer"] \in Nat \ {0}
        BY <3>1, PathsAreKnown DEF Path
      <4>4. Approving(review, "maintainer") # {}
        BY <4>2, <4>3, FS_EmptySet
      <4>5. Path(review) = "security_council" =>
              Cardinality(Approving(review, "security_council")) >= 2
        BY <4>2 DEF RequiredApprovals
      <4> QED BY <4>4, <4>5
    <3>4. ASSUME review.status = "approved", NEW v \in Voters, review.votes[v] = "approve"
          PROVE  review.type \in CanReview[RoleOf[v]]
      BY <3>1, <3>4 DEF ReviewedByRule, Reviews
    <3>5. ASSUME review.status = "approved", Path(review) = "security_council",
                 NEW v \in Voters, RoleOf[v] = "security_council"
          PROVE  review.votes[v] # "reject"
      BY <3>1, <3>5 DEF ReviewedByRule, VetoPaths
    <3> QED BY <2>1, <3>1, <3>2, <3>3, <3>4, <3>5, GravestTakeCouncilPath
            DEF ApprovalIsProportionate
  <2> QED BY <2>2, <2>3
<1> QED BY <1>1, PolicyInvHolds, PTL

(* evaluatePolicyReview: once it says approved or rejected it says so for  *)
(* good, though it computes the quorum anew and looks at the time.         *)
THEOREM OutcomeStands == PolicySpec => OutcomeIsFinal
<1>1. ASSUME PolicyInv, PolicyNext, review # NoReview,
             Outcome(review, now) \in {"approved", "rejected"}
      PROVE  Outcome(review', now') = Outcome(review, now)
  <2>1. review.status # "open"
    BY <1>1 DEF PolicyInv, ReviewedByRule, Outcome
  <2>2. review' = review
    BY <1>1, <2>1 DEF PolicyNext, CreatePolicyReviewProposal, ApplyReviewVote
  <2>3. review.status \in {"approved", "rejected"}
    BY <1>1, <2>1 DEF PolicyInv, ReviewedByRule, Review
  <2> QED BY <2>2, <2>3 DEF Outcome
<1>2. PolicyInv /\ [PolicyNext]_<<now, review>> =>
        [review # NoReview /\ Outcome(review, now) \in {"approved", "rejected"} =>
           Outcome(review', now') = Outcome(review, now)]_<<now, review>>
  BY <1>1
<1> QED BY <1>2, PolicyInvHolds, PTL DEF PolicySpec, OutcomeIsFinal

-----------------------------------------------------------------------------
(* Sessions.                                                               *)

Statuses == {"signed_out", "active", "refreshing", "expired", "revoked"}

Codes ==
  {"ok", "SESSION_INVALID", "SESSION_REVOKED", "SESSION_EXPIRED", "SESSION_REFRESH_SUPERSEDED"}

-----------------------------------------------------------------------------
(* The records.                                                            *)

Record ==
  [kept : BOOLEAN, generation : Nat \ {0}, accessExpires : Nat, refreshExpires : Nat,
   absolute : Nat, created : LoginTimes, rotatedAt : Nat, revokedAt : Nat,
   reason : {Unrevoked, "logout", "refresh_token_reuse"}]

(* What the rules of one record amount to at a time.                       *)
RecordSound(r, at) ==
  /\ r.created <= at /\ r.absolute = r.created + MaxLifetime
  /\ r.accessExpires <= r.refreshExpires /\ r.refreshExpires <= r.absolute
  /\ ~r.kept =>
       StateOf(r, at) # "active" /\ at > EndedAt(r) + KeepFactor * ReuseGrace

(* What a step does to a record: it keeps the rules, and brings nothing    *)
(* that is over back.                                                      *)
Moves(r, s, at) ==
  /\ s \in Record /\ RecordSound(s, at)
  /\ s.created = r.created /\ s.generation >= r.generation
  /\ StateOf(r, now) # "active" => s.reason = r.reason /\ StateOf(s, at) = StateOf(r, now)

LEMMA KeepIsNat == KeepFactor * ReuseGrace \in Nat
BY SessionConstants

LEMMA Stays ==
  ASSUME now \in Nat, NEW r \in Record, RecordSound(r, now)
  PROVE  Moves(r, r, now)
BY DEF Moves, Record

(* Time passes: what is expired stays expired.                             *)
LEMMA Ages ==
  ASSUME now \in Nat, NEW r \in Record, RecordSound(r, now)
  PROVE  Moves(r, r, now + 1)
BY KeepIsNat, SessionConstants DEF Moves, Record, RecordSound, StateOf, EndedAt, Least

LEMMA Renews ==
  ASSUME now \in Nat, NEW r \in Record, RecordSound(r, now), r.kept, StateOf(r, now) = "active"
  PROVE  /\ Moves(r, Renewed(r), now)
         /\ Renewed(r).generation = r.generation + 1 /\ Renewed(r).reason = r.reason
<1> DEFINE idle == Least(now + IdleTtl, r.absolute)
           access == Least(now + AccessTtl, idle)
           next == r.generation + 1
<1>1. r.absolute \in Nat /\ r.generation \in Nat \ {0} /\ r.created \in Nat
  BY SessionConstants DEF Record
<1>2. /\ idle \in Nat /\ access \in Nat
      /\ access <= idle /\ idle <= r.absolute
  BY <1>1, SessionConstants DEF Least
<1>7. next \in Nat \ {0} /\ next >= r.generation
  BY <1>1
<1>3. Renewed(r) = [r EXCEPT !.refreshExpires = idle, !.accessExpires = access,
                             !.generation = next, !.rotatedAt = now]
  BY DEF Renewed, Rotate, Record
<1> HIDE DEF idle, access, next
<1>4. /\ Renewed(r) \in Record
      /\ Renewed(r).refreshExpires = idle /\ Renewed(r).accessExpires = access
      /\ Renewed(r).absolute = r.absolute /\ Renewed(r).created = r.created
      /\ Renewed(r).kept = r.kept /\ Renewed(r).reason = r.reason
      /\ Renewed(r).generation = next
  BY <1>1, <1>2, <1>7, <1>3 DEF Record
<1>5. RecordSound(Renewed(r), now)
  <2>1. Renewed(r).created <= now /\ Renewed(r).absolute = Renewed(r).created + MaxLifetime
    BY <1>4 DEF RecordSound
  <2>2. Renewed(r).kept
    BY <1>4
  <2> QED BY <1>2, <1>4, <2>1, <2>2 DEF RecordSound
<1>6. Renewed(r).generation >= r.generation /\ Renewed(r).generation = r.generation + 1
  BY <1>7, <1>4 DEF next
<1> QED BY <1>4, <1>5, <1>6 DEF Moves

LEMMA Revokes ==
  ASSUME now \in Nat, NEW r \in Record, RecordSound(r, now), r.kept, StateOf(r, now) = "active",
         NEW why \in {"logout", "refresh_token_reuse"}
  PROVE  /\ Moves(r, Revoke(r, why), now)
         /\ Revoke(r, why).generation = r.generation /\ Revoke(r, why).reason = why
<1>1. r.reason = Unrevoked
  BY DEF StateOf
<1>2. Revoke(r, why) = [r EXCEPT !.revokedAt = now, !.reason = why]
  BY <1>1 DEF Revoke
<1> DEFINE s == Revoke(r, why)
<1>3. /\ s.refreshExpires = r.refreshExpires /\ s.accessExpires = r.accessExpires
      /\ s.absolute = r.absolute /\ s.created = r.created /\ s.kept = r.kept
      /\ s.reason = why /\ s.generation = r.generation
  BY <1>2 DEF Record
<1>4. s \in Record
  BY <1>2 DEF Record
<1> HIDE DEF s
<1>5. RecordSound(s, now)
  BY <1>3 DEF RecordSound
<1>6. s.generation >= r.generation
  BY <1>3 DEF Record
<1> QED BY <1>3, <1>4, <1>5, <1>6 DEF Moves, s

(* How refreshSession answers about one record: only the used pair is      *)
(* superseded or taken for a theft.                                        *)
FollowsRules(r, g, result) ==
  /\ Moves(r, result.record, now)
  /\ result.code \in Codes
  /\ result.record.generation = IF result.code = "ok" THEN r.generation + 1 ELSE r.generation
  /\ g = r.generation =>
       result.code # "SESSION_REFRESH_SUPERSEDED" /\ result.record.reason = r.reason

LEMMA Refreshes ==
  ASSUME now \in Nat, NEW r \in Record, RecordSound(r, now), NEW g \in 1..r.generation
  PROVE  FollowsRules(r, g, Refresh(r, g))
<1>1. Moves(r, r, now)
  BY Stays
<1>2. r.generation \in Nat \ {0} /\ g \in Nat
  BY DEF Record
<1>3. ASSUME NEW code \in Codes, code # "ok", code # "SESSION_REFRESH_SUPERSEDED"
      PROVE  FollowsRules(r, g, Answered(code, r))
  BY <1>1, <1>3 DEF Answered, FollowsRules
<1>4. CASE ~r.kept \/ g < r.generation - 1
  BY <1>3, <1>4 DEF Refresh, Codes
<1>5. CASE r.kept /\ ~(g < r.generation - 1) /\ StateOf(r, now) # "active"
  BY <1>3, <1>5 DEF Refresh, Codes, StateOf
<1>6. CASE r.kept /\ StateOf(r, now) = "active" /\ g = r.generation
  <2>1. Refresh(r, g) = Answered("ok", Renewed(r))
    BY <1>2, <1>6 DEF Refresh
  <2> QED BY <1>6, <2>1, Renews DEF Answered, FollowsRules, Codes
<1>7. CASE r.kept /\ StateOf(r, now) = "active" /\ g = r.generation - 1
  <2>1. CASE now - r.rotatedAt <= ReuseGrace
    <3>1. Refresh(r, g) = Answered("SESSION_REFRESH_SUPERSEDED", r)
      BY <1>2, <1>7, <2>1 DEF Refresh
    <3> QED BY <1>1, <1>2, <1>7, <3>1 DEF Answered, FollowsRules, Codes
  <2>2. CASE ~(now - r.rotatedAt <= ReuseGrace)
    <3>1. Refresh(r, g) = Answered("SESSION_REVOKED", Revoke(r, "refresh_token_reuse"))
      BY <1>2, <1>7, <2>2 DEF Refresh
    <3>2. /\ Moves(r, Revoke(r, "refresh_token_reuse"), now)
          /\ Revoke(r, "refresh_token_reuse").generation = r.generation
      BY <1>7, Revokes
    <3> QED BY <1>2, <1>7, <3>1, <3>2 DEF Answered, FollowsRules, Codes
  <2> QED BY <2>1, <2>2
<1> QED BY <1>2, <1>4, <1>5, <1>6, <1>7

(* purgeFinished forgets only what was over for long.                      *)
LEMMA Purges ==
  ASSUME now \in Nat, NEW r \in Record, RecordSound(r, now)
  PROVE  /\ Moves(r, [r EXCEPT !.kept = @ /\ ~IsStale(r)], now)
         /\ [r EXCEPT !.kept = @ /\ ~IsStale(r)].generation = r.generation
         /\ [r EXCEPT !.kept = @ /\ ~IsStale(r)].reason = r.reason
<1> DEFINE s == [r EXCEPT !.kept = @ /\ ~IsStale(r)]
<1>1. IsStale(r) \in BOOLEAN
  BY DEF IsStale
<1>2. /\ s \in Record /\ s.kept = (r.kept /\ ~IsStale(r))
      /\ s.refreshExpires = r.refreshExpires /\ s.accessExpires = r.accessExpires
      /\ s.absolute = r.absolute /\ s.created = r.created /\ s.reason = r.reason
      /\ s.revokedAt = r.revokedAt /\ s.generation = r.generation
  BY <1>1 DEF Record
<1>3. /\ StateOf(s, now) = StateOf(r, now) /\ EndedAt(s) = EndedAt(r)
  BY <1>2 DEF StateOf, EndedAt
<1>4. EndedAt(r) \in Nat
  BY SessionConstants DEF EndedAt, Record, Least
<1>5. IsStale(r) => StateOf(r, now) # "active" /\ now > EndedAt(r) + KeepFactor * ReuseGrace
  BY <1>4, KeepIsNat DEF IsStale
<1>6. RecordSound(s, now)
  BY <1>2, <1>3, <1>5 DEF RecordSound
<1> HIDE DEF s
<1>7. Moves(r, s, now)
  BY <1>2, <1>3, <1>6 DEF Moves, Record
<1> QED BY <1>2, <1>7 DEF s

LEMMA Opens ==
  ASSUME now \in LoginTimes
  PROVE  /\ Opened \in Record /\ RecordSound(Opened, now)
         /\ Opened.created = now /\ Opened.generation = 1 /\ Opened.reason = Unrevoked
<1> DEFINE absolute == now + MaxLifetime
           idle == Least(now + IdleTtl, absolute)
           access == Least(now + AccessTtl, idle)
<1>1. /\ now \in Nat /\ absolute \in Nat /\ idle \in Nat /\ access \in Nat
      /\ access <= idle /\ idle <= absolute
  BY SessionConstants DEF Least
<1> DEFINE base == [kept |-> TRUE, generation |-> 1, accessExpires |-> now,
                    refreshExpires |-> now, absolute |-> absolute, created |-> now,
                    rotatedAt |-> now, revokedAt |-> now, reason |-> Unrevoked]
<1>2. base \in Record
  BY <1>1 DEF Record
<1>3. Opened = [base EXCEPT !.refreshExpires = idle, !.accessExpires = access]
  BY DEF Opened, Rotate
<1> HIDE DEF idle, access
<1>4. /\ Opened \in Record
      /\ Opened.refreshExpires = idle /\ Opened.accessExpires = access
      /\ Opened.absolute = absolute /\ Opened.created = now /\ Opened.kept
      /\ Opened.generation = 1 /\ Opened.reason = Unrevoked
  BY <1>1, <1>2, <1>3 DEF Record
<1> QED BY <1>1, <1>4 DEF RecordSound

-----------------------------------------------------------------------------
(* All records.                                                            *)

RecordsInv ==
  /\ now \in Nat
  /\ records \in Seq(Record)
  /\ \A i \in DOMAIN records : RecordSound(records[i], now)
  /\ \A i, j \in DOMAIN records : i < j => records[i].created < records[j].created

RecordsMove ==
  /\ now' \in Nat
  /\ \A i \in DOMAIN records : i \in DOMAIN records' /\ Moves(records[i], records'[i], now')

LEMMA RecordAt ==
  ASSUME RecordsInv, NEW i \in DOMAIN records
  PROVE  records[i] \in Record /\ RecordSound(records[i], now) /\ i \in Nat
BY DEF RecordsInv

(* Steps that keep every record in its place and move it by the rules.     *)
LEMMA InPlace ==
  ASSUME RecordsInv, now' \in Nat, NEW s \in [DOMAIN records -> Record], records' = s,
         \A i \in DOMAIN records : Moves(records[i], s[i], now')
  PROVE  RecordsInv' /\ RecordsMove
<1>1. DOMAIN records = 1..Len(records) /\ Len(records) \in Nat
  BY DEF RecordsInv
<1>2. records' \in Seq(Record) /\ DOMAIN records' = DOMAIN records
  BY <1>1, SeqDef
<1>3. \A i \in DOMAIN records : RecordSound(records'[i], now') /\ records'[i].created = records[i].created
  BY DEF Moves
<1> QED BY <1>2, <1>3 DEF RecordsInv, RecordsMove

LEMMA NoneMoves ==
  ASSUME RecordsInv, UNCHANGED <<now, records>>
  PROVE  RecordsInv' /\ RecordsMove
<1>1. records \in [DOMAIN records -> Record]
  BY DEF RecordsInv
<1>2. now \in Nat /\ \A i \in DOMAIN records : Moves(records[i], records[i], now)
  BY RecordAt, Stays DEF RecordsInv
<1> QED BY <1>1, <1>2, InPlace

LEMMA OneMoves ==
  ASSUME RecordsInv, UNCHANGED now, NEW i \in DOMAIN records, NEW r,
         Moves(records[i], r, now), records' = [records EXCEPT ![i] = r]
  PROVE  RecordsInv' /\ RecordsMove
<1> DEFINE s == [records EXCEPT ![i] = r]
<1>1. s \in [DOMAIN records -> Record]
  BY DEF RecordsInv, Moves
<1>2. \A j \in DOMAIN records : Moves(records[j], s[j], now)
  BY RecordAt, Stays DEF RecordsInv
<1> QED BY <1>1, <1>2, InPlace DEF RecordsInv

LEMMA PurgedFollow ==
  ASSUME RecordsInv
  PROVE  /\ PurgeFinished \in [DOMAIN records -> Record]
         /\ PurgeFinished \in Seq(Record) /\ Len(PurgeFinished) = Len(records)
         /\ \A i \in DOMAIN records :
              /\ Moves(records[i], PurgeFinished[i], now)
              /\ PurgeFinished[i].generation = records[i].generation
              /\ PurgeFinished[i].reason = records[i].reason
<1>1. \A i \in DOMAIN records :
        /\ PurgeFinished[i] = [records[i] EXCEPT !.kept = @ /\ ~IsStale(records[i])]
        /\ Moves(records[i], PurgeFinished[i], now)
        /\ PurgeFinished[i].generation = records[i].generation
        /\ PurgeFinished[i].reason = records[i].reason
  BY RecordAt, Purges DEF RecordsInv, PurgeFinished
<1>2. PurgeFinished \in [DOMAIN records -> Record]
  BY <1>1 DEF PurgeFinished, Moves
<1>3. DOMAIN records = 1..Len(records) /\ Len(records) \in Nat
  BY DEF RecordsInv
<1>4. PurgeFinished \in Seq(Record)
  BY <1>2, <1>3, SeqDef
<1>5. Len(PurgeFinished) = Len(records)
  BY <1>2, <1>3, <1>4, LenProperties
<1> QED BY <1>1, <1>2, <1>4, <1>5

LEMMA LoginAppends ==
  ASSUME RecordsInv, NEW t \in Tabs, Login(t), UNCHANGED now
  PROVE  /\ RecordsInv' /\ RecordsMove
         /\ Len(records') = Len(records) + 1 /\ DOMAIN records' = 1..(Len(records) + 1)
         /\ records'[Len(records) + 1] = Opened
         /\ \A i \in DOMAIN records : records'[i] = PurgeFinished[i]
<1> DEFINE n == Len(records)
<1>1. n \in Nat /\ DOMAIN records = 1..n
  BY DEF RecordsInv
<1>2. /\ now \in LoginTimes /\ \A i \in DOMAIN records : records[i].created < now
      /\ records' = Append(PurgeFinished, Opened)
  BY DEF Login
<1>3. Opened \in Record /\ RecordSound(Opened, now) /\ Opened.created = now
  BY <1>2, Opens
<1>4. /\ records' \in Seq(Record) /\ Len(records') = n + 1
      /\ records'[n + 1] = Opened /\ \A i \in 1..n : records'[i] = PurgeFinished[i]
  BY <1>1, <1>2, <1>3, PurgedFollow, AppendProperties
<1>5. DOMAIN records' = 1..(n + 1)
  BY <1>4, LenProperties
<1>6. \A i \in 1..n : Moves(records[i], records'[i], now)
  BY <1>1, <1>4, PurgedFollow
<1>7. \A i \in 1..(n + 1) : i = n + 1 \/ i \in 1..n
  BY <1>1
<1>8. \A i \in 1..n : records'[i].created = records[i].created /\ RecordSound(records'[i], now)
  BY <1>6 DEF Moves
<1>9. \A i \in DOMAIN records' : RecordSound(records'[i], now')
  BY <1>3, <1>4, <1>5, <1>7, <1>8
<1>10. \A i, j \in DOMAIN records' : i < j => records'[i].created < records'[j].created
  <2> SUFFICES ASSUME NEW i \in 1..(n + 1), NEW j \in 1..(n + 1), i < j
               PROVE  records'[i].created < records'[j].created
    BY <1>5
  <2>1. i \in 1..n
    BY <1>1
  <2>2. CASE j = n + 1
    BY <1>1, <1>2, <1>3, <1>4, <1>8, <2>1, <2>2
  <2>3. CASE j \in 1..n
    BY <1>1, <1>8, <2>1, <2>3 DEF RecordsInv
  <2> QED BY <1>7, <2>2, <2>3
<1>11. RecordsInv'
  BY <1>4, <1>9, <1>10 DEF RecordsInv
<1>12. RecordsMove
  BY <1>1, <1>5, <1>6 DEF RecordsMove, RecordsInv
<1> QED BY <1>1, <1>4, <1>5, <1>11, <1>12

(* At most one session for every time somebody may sign in at.             *)
LEMMA SessionsAreFew ==
  ASSUME RecordsInv
  PROVE  Len(records) <= Cardinality(LoginTimes)
<1> DEFINE n == Len(records)
           f == [i \in 1..n |-> records[i].created]
<1>1. n \in Nat /\ DOMAIN records = 1..n
  BY DEF RecordsInv
<1>2. \A i \in 1..n : records[i].created \in LoginTimes /\ records[i].created \in Nat
  BY <1>1, RecordAt, SessionConstants DEF Record
<1>3. \A i, j \in 1..n : i # j => f[i] # f[j]
  BY <1>1, <1>2 DEF RecordsInv
<1>4. f \in Injection(1..n, LoginTimes)
  <2>1. f \in [1..n -> LoginTimes]
    BY <1>2
  <2>2. \A i, j \in DOMAIN f : f[i] = f[j] => i = j
    BY <1>3
  <2> QED BY <2>1, <2>2 DEF Injection, IsInjective
<1>5. IsFiniteSet(LoginTimes)
  BY SessionConstants
<1>6. Cardinality(1..n) <= Cardinality(LoginTimes)
  BY <1>4, <1>5, FS_Injection
<1>7. Cardinality(1..n) = n
  <2>1. 1 \in Int /\ n \in Int
    BY <1>1
  <2>2. Cardinality(1..n) = IF 1 > n THEN 0 ELSE n - 1 + 1
    BY ONLY <2>1, FS_Interval
  <2> QED BY <1>1, <2>2
<1> QED BY <1>6, <1>7

-----------------------------------------------------------------------------
(* The pairs of tokens, wherever they are.                                 *)

Pairs == [session : Nat, generation : Nat, refreshAfter : Nat]

(* A pair was issued: its session is on record, and its generation has     *)
(* been reached.                                                           *)
IsIssued(p, all) ==
  /\ p \in Pairs
  /\ p.session \in DOMAIN all /\ p.generation \in 1..all[p.session].generation

IsPair(p, all) == p = NoTokens \/ IsIssued(p, all)

Refreshing ==
  [at : {"idle", "sent", "answered", "settling"}, sent : Pairs \cup {NoTokens},
   code : Codes, answer : Pairs \cup {NoTokens}]

PairsInv ==
  /\ losses \in 0..MaxLosses
  /\ tab \in [Tabs -> [status : Statuses, tokens : Pairs \cup {NoTokens}]]
  /\ refreshing \in [Tabs -> Refreshing]
  /\ unread \subseteq [kind : {"refresh", "logout"}, pair : Pairs]
  /\ \A t \in Tabs :
       /\ refreshing[t].sent = NoTokens <=> refreshing[t].at = "idle"
       /\ IsPair(tab[t].tokens, records)
       /\ IsPair(refreshing[t].sent, records) /\ IsPair(refreshing[t].answer, records)
  /\ IsPair(stored, records)
  /\ \A q \in unread : IsIssued(q.pair, records)

(* A pair stays issued while the records move by the rules.                *)
LEMMA StaysIssued ==
  ASSUME RecordsInv, RecordsMove
  PROVE  \A p : /\ IsIssued(p, records) => IsIssued(p, records')
                /\ IsPair(p, records) => IsPair(p, records')
<1>1. ASSUME NEW p, IsIssued(p, records)
      PROVE  IsIssued(p, records')
  <2>1. /\ p \in Pairs /\ p.session \in DOMAIN records
        /\ p.generation \in 1..records[p.session].generation
    BY <1>1 DEF IsIssued
  <2>2. Moves(records[p.session], records'[p.session], now') /\ p.session \in DOMAIN records'
    BY <2>1 DEF RecordsMove
  <2>3. /\ records[p.session].generation \in Nat
        /\ records'[p.session].generation \in Nat
        /\ records'[p.session].generation >= records[p.session].generation
    BY <2>1, <2>2, RecordAt DEF Moves, Record
  <2>4. p.generation \in 1..records'[p.session].generation
    BY <2>1, <2>3
  <2> QED BY <2>1, <2>2, <2>4 DEF IsIssued
<1> QED BY <1>1 DEF IsPair

LEMMA IssuedIsPair ==
  ASSUME now \in Nat, NEW all, NEW i \in DOMAIN all, i \in Nat, all[i] \in Record
  PROVE  /\ IsIssued(Issued(i, all[i]), all)
         /\ Issued(i, all[i]).session = i /\ Issued(i, all[i]).generation = all[i].generation
<1>1. /\ all[i].accessExpires \in Nat /\ all[i].generation \in Nat \ {0}
      /\ RefreshLead \in Nat
  BY SessionConstants DEF Record
<1>2. Least(Most(all[i].accessExpires - RefreshLead, now), all[i].accessExpires) \in Nat
  BY <1>1 DEF Least, Most
<1>3. Issued(i, all[i]) \in Pairs
  BY <1>1, <1>2 DEF Issued, Pairs
<1> QED BY <1>1, <1>3 DEF Issued, IsIssued

(* A step of a tab or the arrival of a late request moves the records by   *)
(* the rules.                                                              *)
LEMMA ServeRefreshMoves ==
  ASSUME RecordsInv, PairsInv, NEW t \in Tabs, ServeRefresh(t), UNCHANGED now
  PROVE  LET i == refreshing[t].sent.session
             result == Refresh(records[i], refreshing[t].sent.generation)
         IN  /\ i \in DOMAIN records /\ i \in Nat
             /\ FollowsRules(records[i], refreshing[t].sent.generation, result)
             /\ RecordsInv' /\ RecordsMove
<1> DEFINE p == refreshing[t].sent
           i == p.session
           result == Refresh(records[i], p.generation)
<1>1. IsIssued(p, records)
  BY DEF PairsInv, ServeRefresh, IsPair
<1>2. i \in DOMAIN records /\ p.generation \in 1..records[i].generation
  BY <1>1 DEF IsIssued
<1>3. FollowsRules(records[i], p.generation, result)
  BY <1>2, RecordAt, Refreshes DEF RecordsInv
<1>4. Moves(records[i], result.record, now)
  BY <1>3 DEF FollowsRules
<1>5. records' = [records EXCEPT ![i] = result.record]
  BY DEF ServeRefresh
<1>6. RecordsInv' /\ RecordsMove
  BY <1>2, <1>4, <1>5, OneMoves
<1> QED BY <1>2, <1>3, <1>6, RecordAt

LEMMA ServeUnreadMoves ==
  ASSUME RecordsInv, PairsInv, NEW q \in unread, ServeUnread(q), UNCHANGED now
  PROVE  /\ q.pair.session \in DOMAIN records
         /\ RecordsInv' /\ RecordsMove
         /\ q.kind = "refresh" =>
              /\ records'[q.pair.session] =
                   Refresh(records[q.pair.session], q.pair.generation).record
              /\ FollowsRules(records[q.pair.session], q.pair.generation,
                              Refresh(records[q.pair.session], q.pair.generation))
         /\ q.kind = "logout" =>
              /\ records'[q.pair.session].generation = records[q.pair.session].generation
              /\ records'[q.pair.session].reason \in {records[q.pair.session].reason, "logout"}
<1> DEFINE p == q.pair
           i == p.session
           r == IF q.kind = "refresh" THEN Refresh(records[i], p.generation).record
                ELSE IF Authenticates(p) THEN Revoke(records[i], "logout") ELSE records[i]
<1>1. IsIssued(p, records) /\ q.kind \in {"refresh", "logout"}
  BY DEF PairsInv
<1>2. /\ i \in DOMAIN records /\ p.generation \in 1..records[i].generation
      /\ records[i] \in Record /\ RecordSound(records[i], now) /\ now \in Nat
  BY <1>1, RecordAt DEF IsIssued, RecordsInv
<1>3. records' = [records EXCEPT ![i] = r]
  BY DEF ServeUnread
<1>4. CASE q.kind = "refresh"
  <2>1. FollowsRules(records[i], p.generation, Refresh(records[i], p.generation))
    BY <1>2, Refreshes
  <2>2. r = Refresh(records[i], p.generation).record /\ records'[i] = r
    BY <1>2, <1>3, <1>4 DEF RecordsInv
  <2>3. Moves(records[i], r, now)
    BY <2>1, <2>2 DEF FollowsRules
  <2> HIDE DEF r
  <2>4. RecordsInv' /\ RecordsMove
    BY <1>2, <1>3, <2>3, OneMoves
  <2> QED BY <1>2, <1>4, <2>1, <2>2, <2>4
<1>5. CASE q.kind = "logout" /\ Authenticates(p)
  <2>1. records[i].kept /\ StateOf(records[i], now) = "active"
    BY <1>5 DEF Authenticates
  <2>2. r = Revoke(records[i], "logout") /\ records'[i] = r
    BY <1>2, <1>3, <1>5 DEF RecordsInv
  <2>3. Moves(records[i], r, now) /\ r.generation = records[i].generation /\ r.reason = "logout"
    BY <1>2, <2>1, <2>2, Revokes
  <2> HIDE DEF r
  <2>4. RecordsInv' /\ RecordsMove
    BY <1>2, <1>3, <2>3, OneMoves
  <2> QED BY <1>2, <1>5, <2>2, <2>3, <2>4
<1>6. CASE q.kind = "logout" /\ ~Authenticates(p)
  <2>1. r = records[i] /\ records'[i] = r
    BY <1>2, <1>3, <1>6 DEF RecordsInv
  <2>2. Moves(records[i], r, now)
    BY <1>2, <2>1, Stays
  <2> HIDE DEF r
  <2>3. RecordsInv' /\ RecordsMove
    BY <1>2, <1>3, <2>2, OneMoves
  <2> QED BY <1>2, <1>6, <2>1, <2>3
<1> QED BY <1>1, <1>4, <1>5, <1>6

LEMMA RecordsStep ==
  ASSUME RecordsInv, PairsInv, [SessionsNext]_<<now, sessionVars>>
  PROVE  RecordsInv' /\ RecordsMove
<1>1. CASE UNCHANGED <<now, records>>
  BY <1>1, NoneMoves
<1>2. CASE LoginElsewhere /\ UNCHANGED now
  BY <1>2, PurgedFollow, InPlace DEF LoginElsewhere, RecordsInv
<1>3. ASSUME NEW t \in Tabs, Login(t), UNCHANGED now
      PROVE  RecordsInv' /\ RecordsMove
  BY <1>3, LoginAppends
<1>4. ASSUME NEW t \in Tabs, ServeRefresh(t), UNCHANGED now
      PROVE  RecordsInv' /\ RecordsMove
  BY <1>4, ServeRefreshMoves
<1>5. ASSUME NEW q \in unread, ServeUnread(q), UNCHANGED now
      PROVE  RecordsInv' /\ RecordsMove
  BY <1>5, ServeUnreadMoves
<1>6. CASE SessionsTick
  <2>1. now' = now + 1 /\ now' \in Nat /\ records' = records
    BY <1>6 DEF SessionsTick, sessionVars, RecordsInv
  <2>2. records \in [DOMAIN records -> Record]
    BY DEF RecordsInv
  <2>3. \A i \in DOMAIN records : Moves(records[i], records[i], now')
    BY <2>1, RecordAt, Ages DEF RecordsInv
  <2> QED BY <2>1, <2>2, <2>3, InPlace
<1>7. ASSUME NEW t \in Tabs, UNCHANGED now,
             Mount(t) \/ OnStorage(t) \/ Logout(t) \/ BeginRefresh(t) \/ LoseRefresh(t)
             \/ ReceiveRefresh(t) \/ Settle(t)
      PROVE  RecordsInv' /\ RecordsMove
  <2>1. UNCHANGED records
    BY <1>7 DEF Mount, OnStorage, Logout, BeginRefresh, LoseRefresh, ReceiveRefresh, Settle
  <2> QED BY <1>1, <1>7, <2>1
<1> QED BY <1>1, <1>2, <1>3, <1>4, <1>5, <1>6, <1>7 DEF SessionsNext, TabStep, sessionVars

(* Every pair a step hands on was issued before, or is the one issued now. *)
LEMMA PairsStep ==
  ASSUME RecordsInv, PairsInv, [SessionsNext]_<<now, sessionVars>>
  PROVE  PairsInv'
<1>0. RecordsInv' /\ RecordsMove
  BY RecordsStep
<1>1. \A p : /\ IsIssued(p, records) => IsIssued(p, records')
             /\ IsPair(p, records) => IsPair(p, records')
  BY <1>0, StaysIssued
<1>2. /\ MaxLosses \in Nat /\ losses \in 0..MaxLosses
      /\ \A p, all : IsPair(p, all) => p \in Pairs \cup {NoTokens}
      /\ \A all : IsPair(NoTokens, all)
  BY SessionConstants DEF PairsInv, IsPair, IsIssued
<1>3. AtRest \in Refreshing /\ AtRest.at = "idle" /\ AtRest.sent = NoTokens /\ AtRest.answer = NoTokens
  BY DEF AtRest, Refreshing, Codes
<1>4. ASSUME NEW t \in Tabs, NEW to \in Statuses, NEW p, Shows(t, to, p),
             IsPair(p, records')
      PROVE  /\ tab' \in [Tabs -> [status : Statuses, tokens : Pairs \cup {NoTokens}]]
             /\ \A u \in Tabs : IsPair(tab'[u].tokens, records')
  <2>1. /\ tab' = [tab EXCEPT ![t] = [status |-> to, tokens |-> p]]
        /\ [status |-> to, tokens |-> p] \in [status : Statuses, tokens : Pairs \cup {NoTokens}]
    BY <1>2, <1>4 DEF Shows
  <2>2. tab' \in [Tabs -> [status : Statuses, tokens : Pairs \cup {NoTokens}]]
    BY <2>1 DEF PairsInv
  <2>3. ASSUME NEW u \in Tabs PROVE IsPair(tab'[u].tokens, records')
    <3>1. CASE u = t
      BY <1>4, <2>1, <3>1 DEF PairsInv
    <3>2. CASE u # t
      BY <1>1, <2>1, <3>2 DEF PairsInv
    <3> QED BY <3>1, <3>2
  <2> QED BY <2>2, <2>3
<1>5. ASSUME NEW t \in Tabs, Forgotten(t)
      PROVE  /\ refreshing' = [refreshing EXCEPT ![t] = AtRest]
             /\ unread' \subseteq [kind : {"refresh", "logout"}, pair : Pairs]
             /\ \A q \in unread' : IsIssued(q.pair, records')
  <2>1. refreshing[t].at = "sent" => IsIssued(refreshing[t].sent, records)
    BY DEF PairsInv, IsPair
  <2>2. refreshing[t].at = "sent" => refreshing[t].sent \in Pairs
    BY <2>1 DEF IsIssued
  <2> QED BY <1>1, <1>5, <2>1, <2>2 DEF Forgotten, PairsInv
<1>6. ASSUME NEW t \in Tabs, NEW r \in Refreshing, refreshing' = [refreshing EXCEPT ![t] = r],
             r.sent = NoTokens <=> r.at = "idle", IsPair(r.sent, records'),
             IsPair(r.answer, records')
      PROVE  /\ refreshing' \in [Tabs -> Refreshing]
             /\ \A u \in Tabs : /\ refreshing'[u].sent = NoTokens <=> refreshing'[u].at = "idle"
                                /\ IsPair(refreshing'[u].sent, records')
                                /\ IsPair(refreshing'[u].answer, records')
  <2>1. refreshing' \in [Tabs -> Refreshing]
    BY <1>6 DEF PairsInv
  <2>2. ASSUME NEW u \in Tabs
        PROVE  /\ refreshing'[u].sent = NoTokens <=> refreshing'[u].at = "idle"
               /\ IsPair(refreshing'[u].sent, records') /\ IsPair(refreshing'[u].answer, records')
    <3>1. CASE u = t
      BY <1>6, <3>1 DEF PairsInv
    <3>2. CASE u # t
      BY <1>1, <1>6, <3>2 DEF PairsInv
    <3> QED BY <3>1, <3>2
  <2> QED BY <2>1, <2>2
<1>7. CASE UNCHANGED sessionVars
  BY <1>7 DEF sessionVars, PairsInv
<1>8. CASE LoginElsewhere
  BY <1>1, <1>8 DEF LoginElsewhere, PairsInv
<1>9. ASSUME NEW t \in Tabs, Mount(t)
      PROVE  PairsInv'
  <2>1. \E to \in Statuses : Shows(t, to, NoTokens)
    BY <1>9 DEF Mount, End, Statuses
  <2>2. stored' = NoTokens
    BY <1>9 DEF Mount, End, Store
  <2>3. Forgotten(t) /\ losses' = losses
    BY <1>9 DEF Mount
  <2> QED BY <1>2, <1>3, <1>4, <1>5, <1>6, <2>1, <2>2, <2>3 DEF PairsInv
<1>10. ASSUME NEW t \in Tabs, OnStorage(t)
       PROVE  PairsInv'
  <2>1. Shows(t, "signed_out", NoTokens) /\ "signed_out" \in Statuses
    BY <1>10 DEF OnStorage, Statuses
  <2> QED BY <1>1, <1>2, <1>4, <1>10, <2>1 DEF OnStorage, PairsInv
<1>11. ASSUME NEW t \in Tabs, Login(t), UNCHANGED now
       PROVE  PairsInv'
  <2> DEFINE i == Len(records')
  <2>1. /\ i \in Nat /\ i \in DOMAIN records' /\ records'[i] = Opened /\ Opened \in Record
    BY <1>11, LoginAppends, Opens DEF Login, RecordsInv
  <2>2. IsIssued(Issued(i, Opened), records')
    BY <2>1, IssuedIsPair DEF RecordsInv
  <2>3. IsPair(Issued(i, Opened), records') /\ "active" \in Statuses
    BY <2>2 DEF IsPair, Statuses
  <2>4. Shows(t, "active", Issued(i, Opened)) /\ stored' = Issued(i, Opened)
    BY <1>11 DEF Login, Adopt, Store
  <2> HIDE DEF i
  <2> QED BY <1>1, <1>4, <1>11, <2>3, <2>4 DEF Login, PairsInv
<1>12. ASSUME NEW t \in Tabs, Logout(t)
       PROVE  PairsInv'
  <2>1. Shows(t, "signed_out", NoTokens) /\ stored' = NoTokens /\ "signed_out" \in Statuses
    BY <1>12 DEF Logout, End, Store, Statuses
  <2>2. \A p \in {tab[t].tokens} \ {NoTokens} : IsIssued(p, records) /\ p \in Pairs
    BY DEF PairsInv, IsPair, IsIssued
  <2>3. /\ unread' \subseteq [kind : {"refresh", "logout"}, pair : Pairs]
        /\ \A q \in unread' : IsIssued(q.pair, records')
    BY <1>1, <1>12, <2>2 DEF Logout, PairsInv
  <2> QED BY <1>1, <1>2, <1>4, <1>12, <2>1, <2>3 DEF Logout, PairsInv
<1>13. ASSUME NEW t \in Tabs, BeginRefresh(t)
       PROVE  PairsInv'
  <2> DEFINE r == [AtRest EXCEPT !.at = "sent", !.sent = tab[t].tokens]
  <2>1. /\ IsPair(tab[t].tokens, records) /\ tab[t].tokens # NoTokens
        /\ tab[t].tokens \in Pairs
    BY <1>13 DEF BeginRefresh, PairsInv, IsPair, IsIssued
  <2>2. /\ r \in Refreshing /\ r.at = "sent" /\ r.sent = tab[t].tokens /\ r.answer = NoTokens
    BY <2>1 DEF AtRest, Refreshing, Codes
  <2>3. refreshing' = [refreshing EXCEPT ![t] = r]
    BY <1>13 DEF BeginRefresh
  <2> HIDE DEF r
  <2>4. tab' = [tab EXCEPT ![t].status = "refreshing"] /\ "refreshing" \in Statuses
    BY <1>13 DEF BeginRefresh, Statuses
  <2>5. /\ tab' \in [Tabs -> [status : Statuses, tokens : Pairs \cup {NoTokens}]]
        /\ \A u \in Tabs : tab'[u].tokens = tab[u].tokens
    BY <2>4 DEF PairsInv
  <2> QED BY <1>1, <1>2, <1>6, <1>13, <2>1, <2>2, <2>3, <2>5 DEF BeginRefresh, PairsInv
<1>14. ASSUME NEW t \in Tabs, ServeRefresh(t), UNCHANGED now
       PROVE  PairsInv'
  <2> DEFINE i == refreshing[t].sent.session
             result == Refresh(records[i], refreshing[t].sent.generation)
             answer == IF result.code = "ok" THEN Issued(i, result.record) ELSE NoTokens
             r == [refreshing[t] EXCEPT !.at = "answered", !.code = result.code, !.answer = answer]
  <2>1. /\ i \in DOMAIN records /\ i \in Nat /\ result.code \in Codes
        /\ result.record \in Record
    BY <1>14, ServeRefreshMoves DEF FollowsRules, Moves
  <2>2. records' = [records EXCEPT ![i] = result.record]
    BY <1>14 DEF ServeRefresh
  <2>3. records'[i] = result.record /\ i \in DOMAIN records'
    BY <2>1, <2>2 DEF RecordsInv
  <2> HIDE DEF result
  <2>4. IsPair(answer, records')
    BY <1>2, <2>1, <2>3, IssuedIsPair DEF RecordsInv, IsPair
  <2>5. answer \in Pairs \cup {NoTokens}
    BY <1>2, <2>4
  <2> HIDE DEF answer
  <2>6. /\ refreshing' = [refreshing EXCEPT ![t] = r]
        /\ refreshing[t] \in Refreshing /\ refreshing[t].sent # NoTokens
        /\ IsPair(refreshing[t].sent, records')
    BY <1>1, <1>14 DEF ServeRefresh, PairsInv, result, answer
  <2>7. r \in Refreshing /\ r.at = "answered" /\ r.sent = refreshing[t].sent /\ r.answer = answer
    BY <2>1, <2>5, <2>6 DEF Refreshing
  <2> HIDE DEF r
  <2> QED BY <1>1, <1>6, <1>14, <2>4, <2>6, <2>7 DEF ServeRefresh, PairsInv
<1>15. ASSUME NEW t \in Tabs, LoseRefresh(t)
       PROVE  PairsInv'
  <2>1. Forgotten(t) /\ losses' \in 0..MaxLosses
    BY <1>2, <1>15 DEF LoseRefresh
  <2>2. tab' = [tab EXCEPT ![t].status = "active"] /\ "active" \in Statuses
    BY <1>15 DEF LoseRefresh, Statuses
  <2>3. /\ tab' \in [Tabs -> [status : Statuses, tokens : Pairs \cup {NoTokens}]]
        /\ \A u \in Tabs : tab'[u].tokens = tab[u].tokens
    BY <2>2 DEF PairsInv
  <2> QED BY <1>1, <1>2, <1>3, <1>5, <1>6, <1>15, <2>1, <2>3 DEF LoseRefresh, PairsInv
<1>16. ASSUME NEW t \in Tabs, ReceiveRefresh(t)
       PROVE  PairsInv'
  <2>1. CASE refreshing[t].code = "SESSION_REFRESH_SUPERSEDED"
    <3> DEFINE r == [refreshing[t] EXCEPT !.at = "settling"]
    <3>1. /\ refreshing[t] \in Refreshing /\ refreshing[t].sent # NoTokens
          /\ IsPair(refreshing[t].sent, records') /\ IsPair(refreshing[t].answer, records')
      BY <1>1, <1>16 DEF ReceiveRefresh, PairsInv
    <3>2. /\ r \in Refreshing /\ r.at = "settling" /\ r.sent = refreshing[t].sent
          /\ r.answer = refreshing[t].answer
      BY <3>1 DEF Refreshing
    <3>3. refreshing' = [refreshing EXCEPT ![t] = r]
      BY <1>16, <2>1 DEF ReceiveRefresh
    <3> HIDE DEF r
    <3> QED BY <1>1, <1>6, <1>16, <2>1, <3>1, <3>2, <3>3 DEF ReceiveRefresh, PairsInv
  <2>2. CASE refreshing[t].code # "SESSION_REFRESH_SUPERSEDED"
    <3>1. /\ refreshing' = [refreshing EXCEPT ![t] = AtRest]
          /\ UNCHANGED <<records, unread, losses>>
      BY <1>16, <2>2 DEF ReceiveRefresh
    <3>2. \E to \in Statuses, p \in {refreshing[t].answer, NoTokens} :
            Shows(t, to, p) /\ stored' = p
      BY <1>16, <2>2 DEF ReceiveRefresh, Adopt, End, Store, Statuses
    <3>3. IsPair(refreshing[t].answer, records')
      BY <1>1 DEF PairsInv
    <3> QED BY <1>1, <1>2, <1>3, <1>4, <1>6, <3>1, <3>2, <3>3 DEF PairsInv
  <2> QED BY <2>1, <2>2
<1>17. ASSUME NEW t \in Tabs, Settle(t)
       PROVE  PairsInv'
  <2>1. /\ refreshing' = [refreshing EXCEPT ![t] = AtRest]
        /\ UNCHANGED <<records, stored, unread, losses>>
    BY <1>17 DEF Settle
  <2>2. "active" \in Statuses /\ IsPair(stored, records')
    BY <1>1 DEF PairsInv, Statuses
  <2>3. /\ tab' \in [Tabs -> [status : Statuses, tokens : Pairs \cup {NoTokens}]]
        /\ \A u \in Tabs : IsPair(tab'[u].tokens, records')
    <3>1. CASE tab' = [tab EXCEPT ![t] = [status |-> "active", tokens |-> stored]]
      BY <1>4, <2>2, <3>1 DEF Shows
    <3>2. CASE tab' = [tab EXCEPT ![t].status = "active"]
      BY <1>1, <2>2, <3>2 DEF PairsInv
    <3> QED BY <1>17, <3>1, <3>2 DEF Settle
  <2> QED BY <1>1, <1>2, <1>3, <1>6, <2>1, <2>3 DEF PairsInv
<1>18. ASSUME NEW q \in unread, ServeUnread(q)
       PROVE  PairsInv'
  BY <1>1, <1>18 DEF ServeUnread, PairsInv
<1> QED BY <1>7, <1>8, <1>9, <1>10, <1>11, <1>12, <1>13, <1>14, <1>15, <1>16, <1>17, <1>18
        DEF SessionsNext, SessionsTick, TabStep, sessionVars

-----------------------------------------------------------------------------
(* Who presents a pair, while no answer was lost.                          *)

LastPair(p) == p.generation = records[p.session].generation

(* A tab has to do with a session: it holds its tokens, or waits for an    *)
(* answer about it.                                                        *)
Follows(t, i) ==
  \/ tab[t].tokens # NoTokens /\ tab[t].tokens.session = i
  \/ refreshing[t].at \in {"sent", "answered"} /\ refreshing[t].sent.session = i

Late == {q \in unread : q.kind = "refresh"}

(* The answer the tab waits for replaces the pair it holds.                *)
AnswerComes(t) ==
  refreshing[t].at = "answered" /\ refreshing[t].sent.session = tab[t].tokens.session

PresentsLast(t) ==
  /\ refreshing[t].at # "settling"
  /\ refreshing[t].at = "sent" => LastPair(refreshing[t].sent)
  /\ refreshing[t].at = "answered" =>
       /\ refreshing[t].code # "SESSION_REFRESH_SUPERSEDED"
       /\ refreshing[t].answer # NoTokens =>
            /\ refreshing[t].answer.session = refreshing[t].sent.session
            /\ LastPair(refreshing[t].answer)
  /\ tab[t].tokens # NoTokens /\ ~AnswerComes(t) => LastPair(tab[t].tokens)

(* Each session is followed by one tab at most, or is up to one request    *)
(* that is served late; and what either presents is the session's last     *)
(* pair.                                                                   *)
OnePresenter ==
  /\ \A t, u \in Tabs : \A i \in DOMAIN records : Follows(t, i) /\ Follows(u, i) => t = u
  /\ \A q \in Late, t \in Tabs : ~Follows(t, q.pair.session)
  /\ \A p, q \in Late : p.pair.session = q.pair.session => p = q
  /\ \A q \in Late : LastPair(q.pair)
  /\ \A t \in Tabs : PresentsLast(t)

NoTheft == \A i \in DOMAIN records : records[i].reason # "refresh_token_reuse"

HonestInv == losses = 0 => OnePresenter /\ NoTheft

LEMMA FollowedIsOnRecord ==
  ASSUME PairsInv, NEW t \in Tabs
  PROVE  \A i : Follows(t, i) => i \in DOMAIN records
BY DEF PairsInv, Follows, IsPair, IsIssued

(* The records may change as long as no session gets a new pair.           *)
LEMMA SamePairs ==
  ASSUME PairsInv, OnePresenter, UNCHANGED <<tab, refreshing>>, Late' = Late,
         DOMAIN records' = DOMAIN records,
         \A i \in DOMAIN records : records'[i].generation = records[i].generation
  PROVE  OnePresenter'
<1>1. \A p : IsIssued(p, records) => (LastPair(p)' <=> LastPair(p))
  BY DEF IsIssued, LastPair
<1>2. \A t \in Tabs, i \in DOMAIN records : Follows(t, i)' <=> Follows(t, i)
  BY DEF Follows
<1>3. ASSUME NEW t \in Tabs PROVE PresentsLast(t)'
  <2>1. /\ refreshing[t].at = "sent" => IsIssued(refreshing[t].sent, records)
        /\ refreshing[t].answer # NoTokens => IsIssued(refreshing[t].answer, records)
        /\ tab[t].tokens # NoTokens => IsIssued(tab[t].tokens, records)
    BY DEF PairsInv, IsPair
  <2>2. PresentsLast(t)
    BY DEF OnePresenter
  <2> QED BY <1>1, <2>1, <2>2 DEF PresentsLast, AnswerComes, LastPair, IsIssued
<1>4. \A q \in Late : IsIssued(q.pair, records)
  BY DEF Late, PairsInv
<1>5. \A q \in Late, t \in Tabs : ~Follows(t, q.pair.session)'
  BY DEF OnePresenter, Follows
<1>6. \A q \in Late : LastPair(q.pair)'
  BY <1>4 DEF OnePresenter, LastPair, IsIssued
<1> QED BY <1>2, <1>3, <1>5, <1>6 DEF OnePresenter

(* A tab acts by itself and takes up no further session.                   *)
LEMMA TabAlone ==
  ASSUME OnePresenter, UNCHANGED records, Late' = Late, NEW t \in Tabs,
         \A u \in Tabs \ {t} : tab'[u] = tab[u] /\ refreshing'[u] = refreshing[u],
         \A i : Follows(t, i)' => Follows(t, i),
         PresentsLast(t)'
  PROVE  OnePresenter'
<1>1. \A u \in Tabs : \A i : Follows(u, i)' => Follows(u, i)
  <2>1. \A u \in Tabs \ {t} : \A i : Follows(u, i)' => Follows(u, i)
    BY DEF Follows
  <2> QED BY <2>1
<1>2. \A u \in Tabs \ {t} : PresentsLast(u)'
  BY DEF OnePresenter, PresentsLast, AnswerComes, LastPair
<1>3. \A q \in Late, u \in Tabs : ~Follows(u, q.pair.session)'
  BY <1>1 DEF OnePresenter
<1>4. \A q \in Late : LastPair(q.pair)'
  BY DEF OnePresenter, LastPair
<1> QED BY <1>1, <1>2, <1>3, <1>4 DEF OnePresenter

(* A tab drops all it follows; what it has sent, if anything, comes late.  *)
LEMMA TabLeaves ==
  ASSUME PairsInv, OnePresenter, UNCHANGED records, NEW t \in Tabs, Forgotten(t),
         \A u \in Tabs \ {t} : tab'[u] = tab[u], tab'[t].tokens = NoTokens
  PROVE  OnePresenter'
<1>1. /\ \A u \in Tabs \ {t} : refreshing'[u] = refreshing[u]
      /\ refreshing'[t] = AtRest
  BY DEF Forgotten, PairsInv
<1>2. \A i : ~Follows(t, i)'
  BY <1>1 DEF Follows, AtRest
<1>3. PresentsLast(t)'
  BY <1>1 DEF PresentsLast, AtRest
<1>4. CASE refreshing[t].at # "sent"
  <2>1. Late' = Late
    BY <1>4 DEF Forgotten, Late
  <2> QED BY <1>1, <1>2, <1>3, <2>1, TabAlone
<1>5. CASE refreshing[t].at = "sent"
  <2> DEFINE q == [kind |-> "refresh", pair |-> refreshing[t].sent]
  <2>1. Late' = Late \cup {q}
    BY <1>5 DEF Forgotten, Late
  <2>2. /\ q.pair = refreshing[t].sent /\ LastPair(q.pair) /\ Follows(t, q.pair.session)
        /\ q.pair.session \in DOMAIN records
    BY <1>5, FollowedIsOnRecord DEF OnePresenter, PresentsLast, Follows
  <2> HIDE DEF q
  <2>3. \A u \in Tabs \ {t} : \A i : Follows(u, i)' <=> Follows(u, i)
    BY <1>1 DEF Follows
  <2>4. \A u \in Tabs \ {t} : PresentsLast(u)'
    BY <1>1 DEF OnePresenter, PresentsLast, AnswerComes, LastPair
  <2>5. \A p \in Late' : LastPair(p.pair)'
    BY <2>1, <2>2 DEF OnePresenter, LastPair
  <2>6. \A p \in Late', u \in Tabs : ~Follows(u, p.pair.session)'
    <3> SUFFICES ASSUME NEW p \in Late', NEW u \in Tabs \ {t}
                 PROVE  ~Follows(u, p.pair.session)
      BY <1>2, <2>3
    <3> QED BY <2>1, <2>2 DEF OnePresenter
  <2>7. \A p1, p2 \in Late' : p1.pair.session = p2.pair.session => p1 = p2
    BY <2>1, <2>2 DEF OnePresenter
  <2> QED BY <1>2, <1>3, <2>3, <2>4, <2>5, <2>6, <2>7 DEF OnePresenter
<1> QED BY <1>4, <1>5

LEMMA LoginPresents ==
  ASSUME RecordsInv, PairsInv, OnePresenter, NoTheft, NEW t \in Tabs, Login(t), UNCHANGED now
  PROVE  OnePresenter' /\ NoTheft'
<1> DEFINE n == Len(records) + 1
<1>1. /\ n \in Nat /\ DOMAIN records = 1..Len(records) /\ DOMAIN records' = 1..n
      /\ Len(records') = n /\ n \notin DOMAIN records
      /\ records'[n] = Opened
      /\ \A i \in DOMAIN records : records'[i] = PurgeFinished[i]
  BY LoginAppends DEF RecordsInv
<1>2. \A i \in DOMAIN records : /\ records'[i].generation = records[i].generation
                                /\ records'[i].reason = records[i].reason
  BY <1>1, PurgedFollow
<1>3. /\ Opened.generation = 1 /\ Opened.reason = Unrevoked /\ Opened \in Record
      /\ now \in LoginTimes
  BY Opens DEF Login
<1>4. /\ Issued(n, Opened).session = n /\ Issued(n, Opened).generation = 1
      /\ tab'[t].tokens = Issued(n, Opened) /\ tab[t].tokens = NoTokens
      /\ \A u \in Tabs \ {t} : tab'[u] = tab[u]
      /\ refreshing' = refreshing /\ Late' = Late
  BY <1>1, <1>3 DEF Issued, Login, Adopt, Shows, PairsInv, Late
<1> HIDE DEF n
<1>5. \A p : IsIssued(p, records) => (LastPair(p)' <=> LastPair(p))
  BY <1>2 DEF IsIssued, LastPair
<1>6. \A u \in Tabs \ {t} : \A i : Follows(u, i)' <=> Follows(u, i)
  BY <1>4 DEF Follows
<1>7. \A i : Follows(t, i)' => Follows(t, i) \/ i = n
  BY <1>4 DEF Follows
<1>8. \A u \in Tabs : ~Follows(u, n)
  BY <1>1, FollowedIsOnRecord
<1>9. ASSUME NEW u \in Tabs PROVE PresentsLast(u)'
  <2>1. /\ refreshing[u].at = "sent" => IsIssued(refreshing[u].sent, records)
        /\ refreshing[u].answer # NoTokens => IsIssued(refreshing[u].answer, records)
        /\ tab[u].tokens # NoTokens => IsIssued(tab[u].tokens, records)
    BY DEF PairsInv, IsPair
  <2>2. PresentsLast(u)
    BY DEF OnePresenter
  <2>3. CASE u # t
    BY <1>2, <1>4, <2>1, <2>2, <2>3 DEF PresentsLast, AnswerComes, LastPair, IsIssued
  <2>4. CASE u = t
    <3>1. LastPair(tab[t].tokens)'
      BY <1>1, <1>3, <1>4 DEF LastPair
    <3> QED BY <1>2, <1>4, <2>1, <2>2, <2>4, <3>1 DEF PresentsLast, LastPair, IsIssued
  <2> QED BY <2>3, <2>4
<1>10. \A q \in Late : IsIssued(q.pair, records) /\ q.pair.session # n
  BY <1>1 DEF Late, PairsInv, IsIssued
<1>11. \A q \in Late : LastPair(q.pair)'
  BY <1>2, <1>10 DEF OnePresenter, LastPair, IsIssued
<1>12. ASSUME NEW u \in Tabs, NEW w \in Tabs, NEW i, Follows(u, i)', Follows(w, i)'
       PROVE  u = w
  <2>1. CASE i = n
    BY <1>6, <1>8, <1>12, <2>1
  <2>2. CASE i # n
    <3>1. Follows(u, i) /\ Follows(w, i)
      BY <1>6, <1>7, <1>12, <2>2
    <3> QED BY <3>1, FollowedIsOnRecord DEF OnePresenter
  <2> QED BY <2>1, <2>2
<1>13. \A q \in Late, u \in Tabs : ~Follows(u, q.pair.session)'
  BY <1>6, <1>7, <1>10 DEF OnePresenter
<1>14. OnePresenter'
  BY <1>4, <1>9, <1>11, <1>12, <1>13 DEF OnePresenter
<1>15. NoTheft'
  <2>1. \A i \in 1..n : i \in DOMAIN records \/ i = n
    BY <1>1 DEF n
  <2> QED BY <1>1, <1>2, <1>3, <2>1 DEF NoTheft, Unrevoked
<1> QED BY <1>14, <1>15

LEMMA ServedPresents ==
  ASSUME RecordsInv, PairsInv, OnePresenter, NoTheft, NEW t \in Tabs, ServeRefresh(t),
         UNCHANGED now
  PROVE  OnePresenter' /\ NoTheft'
<1> DEFINE p == refreshing[t].sent
           i == p.session
           result == Refresh(records[i], p.generation)
<1>1. /\ p # NoTokens /\ LastPair(p) /\ Follows(t, i) /\ refreshing[t].at = "sent"
      /\ i \in DOMAIN records /\ i \in Nat
      /\ FollowsRules(records[i], p.generation, result)
  BY ServeRefreshMoves DEF OnePresenter, PresentsLast, ServeRefresh, PairsInv, Follows
<1>2. p.generation = records[i].generation
  BY <1>1 DEF LastPair
<1>3. /\ result.code # "SESSION_REFRESH_SUPERSEDED" /\ result.record.reason = records[i].reason
      /\ result.record.generation =
           IF result.code = "ok" THEN records[i].generation + 1 ELSE records[i].generation
      /\ result.record \in Record
  BY <1>1, <1>2 DEF FollowsRules, Moves
<1>4. /\ records' = [records EXCEPT ![i] = result.record]
      /\ refreshing' = [refreshing EXCEPT ![t].at = "answered", ![t].code = result.code,
           ![t].answer = IF result.code = "ok" THEN Issued(i, result.record) ELSE NoTokens]
      /\ UNCHANGED <<tab, unread>>
  BY DEF ServeRefresh
<1> HIDE DEF result
<1>5. /\ records'[i] = result.record
      /\ \A j \in DOMAIN records \ {i} : records'[j] = records[j]
      /\ DOMAIN records' = DOMAIN records
      /\ \A u \in Tabs \ {t} : refreshing'[u] = refreshing[u]
      /\ refreshing'[t].at = "answered" /\ refreshing'[t].code = result.code
      /\ refreshing'[t].sent = p
      /\ refreshing'[t].answer = IF result.code = "ok" THEN Issued(i, result.record) ELSE NoTokens
      /\ Late' = Late
  BY <1>1, <1>4 DEF RecordsInv, PairsInv, Refreshing, Late
<1> HIDE DEF i
<1>6. /\ \A u \in Tabs \ {t} : ~Follows(u, i)
      /\ \A q \in Late : q.pair.session # i
  BY <1>1 DEF OnePresenter
<1>7. \A u \in Tabs : \A j : Follows(u, j)' <=> Follows(u, j)
  <2>1. \A u \in Tabs \ {t} : \A j : Follows(u, j)' <=> Follows(u, j)
    BY <1>4, <1>5 DEF Follows
  <2>2. \A j : Follows(t, j)' <=> Follows(t, j)
    BY <1>1, <1>4, <1>5 DEF Follows
  <2> QED BY <2>1, <2>2
<1>8. ASSUME NEW u \in Tabs \ {t} PROVE PresentsLast(u)'
  <2>1. /\ refreshing[u].at = "sent" => IsIssued(refreshing[u].sent, records)
        /\ refreshing[u].answer # NoTokens => IsIssued(refreshing[u].answer, records)
        /\ tab[u].tokens # NoTokens => IsIssued(tab[u].tokens, records)
    BY DEF PairsInv, IsPair
  <2>2. PresentsLast(u) /\ ~Follows(u, i)
    BY <1>6 DEF OnePresenter
  <2>3. \A r : IsIssued(r, records) /\ r.session # i => (LastPair(r)' <=> LastPair(r))
    BY <1>5 DEF IsIssued, LastPair
  <2>4. refreshing'[u] = refreshing[u] /\ tab'[u] = tab[u]
    BY <1>4, <1>5
  <2>5. refreshing[u].at = "sent" => LastPair(refreshing[u].sent)'
    BY <2>1, <2>2, <2>3, <2>4 DEF PresentsLast, Follows, LastPair
  <2>6. refreshing[u].at = "answered" /\ refreshing[u].answer # NoTokens =>
          LastPair(refreshing[u].answer)'
    BY <2>1, <2>2, <2>3, <2>4 DEF PresentsLast, Follows, LastPair
  <2>7. tab[u].tokens # NoTokens /\ ~AnswerComes(u) => LastPair(tab[u].tokens)'
    BY <2>1, <2>2, <2>3, <2>4 DEF PresentsLast, Follows, LastPair
  <2> QED BY <2>2, <2>4, <2>5, <2>6, <2>7 DEF PresentsLast, AnswerComes
<1>9. PresentsLast(t)'
  <2>1. /\ refreshing'[t].answer # NoTokens =>
             /\ refreshing'[t].answer.session = i
             /\ refreshing'[t].answer.generation = result.record.generation
    BY <1>5 DEF Issued
  <2>2. i = p.session
    BY DEF i
  <2>3. tab[t].tokens # NoTokens /\ tab[t].tokens.session # i => LastPair(tab[t].tokens)'
    <3>1. tab[t].tokens # NoTokens => IsIssued(tab[t].tokens, records)
      BY DEF PairsInv, IsPair
    <3> QED BY <1>1, <1>4, <1>5, <3>1 DEF OnePresenter, PresentsLast, AnswerComes, LastPair, IsIssued
  <2> HIDE DEF p
  <2> QED BY <1>3, <1>4, <1>5, <2>1, <2>2, <2>3 DEF PresentsLast, AnswerComes, LastPair
<1>10. \A q \in Late : LastPair(q.pair)'
  <2>1. \A q \in Late : IsIssued(q.pair, records)
    BY DEF Late, PairsInv
  <2> QED BY <1>5, <1>6, <2>1 DEF OnePresenter, LastPair, IsIssued
<1>11. \A q \in Late, u \in Tabs : ~Follows(u, q.pair.session)'
  BY <1>7 DEF OnePresenter
<1>12. OnePresenter'
  BY <1>5, <1>7, <1>8, <1>9, <1>10, <1>11 DEF OnePresenter
<1>13. NoTheft'
  BY <1>1, <1>3, <1>5 DEF NoTheft
<1> QED BY <1>12, <1>13

LEMMA UnreadPresents ==
  ASSUME RecordsInv, PairsInv, OnePresenter, NoTheft, NEW q \in unread, ServeUnread(q),
         UNCHANGED now
  PROVE  OnePresenter' /\ NoTheft'
<1> DEFINE i == q.pair.session
<1>1. /\ i \in DOMAIN records /\ DOMAIN records' = DOMAIN records
      /\ \A j \in DOMAIN records \ {i} : records'[j] = records[j]
      /\ UNCHANGED <<tab, refreshing>> /\ unread' = unread \ {q}
      /\ q.kind \in {"refresh", "logout"}
  BY ServeUnreadMoves DEF ServeUnread, RecordsInv, PairsInv
<1>2. CASE q.kind = "logout"
  <2>1. Late' = Late
    BY <1>1, <1>2 DEF Late
  <2>2. /\ records'[i].generation = records[i].generation
        /\ records'[i].reason \in {records[i].reason, "logout"}
    BY <1>2, ServeUnreadMoves
  <2>3. OnePresenter'
    BY <1>1, <2>1, <2>2, SamePairs
  <2>4. NoTheft'
    BY <1>1, <2>2 DEF NoTheft
  <2> QED BY <2>3, <2>4
<1>3. CASE q.kind = "refresh"
  <2>1. Late' = Late \ {q} /\ q \in Late
    BY <1>1, <1>3 DEF Late
  <2>2. q.pair.generation = records[i].generation
    BY <2>1 DEF OnePresenter, LastPair
  <2>3. records'[i].reason = records[i].reason
    BY <1>3, <2>2, ServeUnreadMoves DEF FollowsRules
  <2>4. \A u \in Tabs : ~Follows(u, i)
    BY <2>1 DEF OnePresenter
  <2>5. \A p \in Late' : p \in Late /\ p.pair.session # i
    BY <2>1 DEF OnePresenter
  <2> HIDE DEF i
  <2>6. \A u \in Tabs : \A j : Follows(u, j)' <=> Follows(u, j)
    BY <1>1 DEF Follows
  <2>7. ASSUME NEW u \in Tabs PROVE PresentsLast(u)'
    <3>1. /\ refreshing[u].at = "sent" => IsIssued(refreshing[u].sent, records)
          /\ refreshing[u].answer # NoTokens => IsIssued(refreshing[u].answer, records)
          /\ tab[u].tokens # NoTokens => IsIssued(tab[u].tokens, records)
      BY DEF PairsInv, IsPair
    <3>2. PresentsLast(u) /\ ~Follows(u, i)
      BY <2>4 DEF OnePresenter
    <3> QED BY <1>1, <3>1, <3>2 DEF PresentsLast, AnswerComes, LastPair, IsIssued, Follows
  <2>8. \A p \in Late' : LastPair(p.pair)'
    <3>1. \A p \in Late : IsIssued(p.pair, records)
      BY DEF Late, PairsInv
    <3> QED BY <1>1, <2>5, <3>1 DEF OnePresenter, LastPair, IsIssued
  <2>9. \A p \in Late', u \in Tabs : ~Follows(u, p.pair.session)'
    BY <2>5, <2>6 DEF OnePresenter
  <2>10. OnePresenter'
    BY <1>1, <2>5, <2>6, <2>7, <2>8, <2>9 DEF OnePresenter
  <2>11. NoTheft'
    BY <1>1, <2>3 DEF NoTheft
  <2> QED BY <2>10, <2>11
<1> QED BY <1>1, <1>2, <1>3

LEMMA HonestStep ==
  ASSUME RecordsInv, PairsInv, HonestInv, [SessionsNext]_<<now, sessionVars>>
  PROVE  HonestInv'
<1> SUFFICES ASSUME losses' = 0 PROVE OnePresenter' /\ NoTheft'
  BY DEF HonestInv
<1>1. losses = 0
  <2>1. losses \in Nat
    BY SessionConstants DEF PairsInv
  <2>2. UNCHANGED losses \/ \E t \in Tabs : LoseRefresh(t)
    BY DEF SessionsNext, SessionsTick, sessionVars, LoginElsewhere, ServeUnread, TabStep, Mount,
           OnStorage, Login, Logout, BeginRefresh, ServeRefresh, ReceiveRefresh, Settle
  <2> QED BY <2>1, <2>2 DEF LoseRefresh
<1>2. OnePresenter /\ NoTheft
  BY <1>1 DEF HonestInv
<1>3. CASE UNCHANGED sessionVars
  <2>1. OnePresenter'
    BY <1>2, <1>3, SamePairs DEF sessionVars, Late
  <2> QED BY <1>2, <1>3, <2>1 DEF sessionVars, NoTheft
<1>4. CASE LoginElsewhere
  <2>1. /\ records' = PurgeFinished /\ UNCHANGED <<tab, refreshing, unread>>
        /\ DOMAIN records' = DOMAIN records
    BY <1>4 DEF LoginElsewhere, PurgeFinished
  <2>2. OnePresenter'
    BY <1>2, <2>1, SamePairs, PurgedFollow DEF Late
  <2> QED BY <1>2, <2>1, <2>2, PurgedFollow DEF NoTheft
(* Steps of one tab that leave the records alone.                          *)
<1>5. ASSUME UNCHANGED records, OnePresenter'
      PROVE  OnePresenter' /\ NoTheft'
  BY <1>2, <1>5 DEF NoTheft
<1>6. ASSUME NEW t \in Tabs, Mount(t)
      PROVE  OnePresenter' /\ NoTheft'
  <2>1. /\ Forgotten(t) /\ UNCHANGED records
        /\ \A u \in Tabs \ {t} : tab'[u] = tab[u] /\ tab'[t].tokens = NoTokens
        /\ tab'[t].tokens = NoTokens
    BY <1>6 DEF Mount, End, Shows, PairsInv
  <2> QED BY <1>2, <1>5, <2>1, TabLeaves
<1>7. ASSUME NEW t \in Tabs, OnStorage(t) \/ Logout(t)
      PROVE  OnePresenter' /\ NoTheft'
  <2>1. /\ UNCHANGED <<records, refreshing>> /\ Late' = Late
        /\ \A u \in Tabs \ {t} : tab'[u] = tab[u]
        /\ tab'[t].tokens = NoTokens
    BY <1>7 DEF OnStorage, Logout, End, Shows, PairsInv, Late
  <2>2. \A i : Follows(t, i)' => Follows(t, i)
    BY <2>1 DEF Follows
  <2>3. PresentsLast(t)'
    BY <1>2, <2>1 DEF OnePresenter, PresentsLast, LastPair
  <2> QED BY <1>2, <1>5, <2>1, <2>2, <2>3, TabAlone
<1>8. ASSUME NEW t \in Tabs, BeginRefresh(t)
      PROVE  OnePresenter' /\ NoTheft'
  <2>1. /\ UNCHANGED records /\ Late' = Late
        /\ \A u \in Tabs \ {t} : tab'[u] = tab[u] /\ refreshing'[u] = refreshing[u]
        /\ tab'[t].tokens = tab[t].tokens /\ tab[t].tokens # NoTokens
        /\ refreshing'[t].at = "sent" /\ refreshing'[t].sent = tab[t].tokens
        /\ refreshing[t].at = "idle"
    BY <1>8 DEF BeginRefresh, PairsInv, Late, AtRest
  <2>2. \A i : Follows(t, i)' => Follows(t, i)
    BY <2>1 DEF Follows
  <2>3. LastPair(tab[t].tokens)
    BY <1>2, <2>1 DEF OnePresenter, PresentsLast, AnswerComes
  <2>4. PresentsLast(t)'
    BY <2>1, <2>3 DEF PresentsLast, LastPair
  <2> QED BY <1>2, <1>5, <2>1, <2>2, <2>4, TabAlone
<1>9. ASSUME NEW t \in Tabs, LoseRefresh(t)
      PROVE  OnePresenter' /\ NoTheft'
  BY <1>1, <1>9 DEF LoseRefresh
<1>10. ASSUME NEW t \in Tabs, ReceiveRefresh(t)
       PROVE  OnePresenter' /\ NoTheft'
  <2>1. /\ refreshing[t].at = "answered" /\ PresentsLast(t)
        /\ refreshing[t].code # "SESSION_REFRESH_SUPERSEDED"
    BY <1>2, <1>10 DEF ReceiveRefresh, OnePresenter, PresentsLast
  <2>2. /\ UNCHANGED records /\ Late' = Late
        /\ \A u \in Tabs \ {t} : tab'[u] = tab[u] /\ refreshing'[u] = refreshing[u]
        /\ refreshing'[t] = AtRest
        /\ tab'[t].tokens \in {refreshing[t].answer, NoTokens}
    BY <1>10, <2>1 DEF ReceiveRefresh, Adopt, End, Shows, PairsInv, Late
  <2>3. \A i : Follows(t, i)' => Follows(t, i)
    BY <2>1, <2>2 DEF Follows, PresentsLast, AtRest
  <2>4. PresentsLast(t)'
    BY <2>1, <2>2 DEF PresentsLast, LastPair, AtRest
  <2> QED BY <1>2, <1>5, <2>2, <2>3, <2>4, TabAlone
<1>11. ASSUME NEW t \in Tabs, Settle(t)
       PROVE  OnePresenter' /\ NoTheft'
  BY <1>2, <1>11 DEF Settle, OnePresenter, PresentsLast
<1> QED BY <1>2, <1>3, <1>4, <1>6, <1>7, <1>8, <1>9, <1>10, <1>11, LoginPresents, ServedPresents,
           UnreadPresents
        DEF SessionsNext, SessionsTick, TabStep, sessionVars

-----------------------------------------------------------------------------
(* The theorems.                                                           *)

SessionsInv == RecordsInv /\ PairsInv /\ HonestInv

LEMMA SessionsInvHolds == SessionsSpec => []SessionsInv
<1>1. SessionsInit /\ now = 0 => SessionsInv
  <2> SUFFICES ASSUME SessionsInit, now = 0 PROVE SessionsInv
    OBVIOUS
  <2>1. RecordsInv
    BY EmptySeq DEF SessionsInit, RecordsInv
  <2>2. PairsInv
    BY SessionConstants DEF SessionsInit, PairsInv, AtRest, Refreshing, Codes, Statuses, IsPair
  <2>3. HonestInv
    BY DEF SessionsInit, HonestInv, OnePresenter, NoTheft, PresentsLast, Follows, Late, AtRest
  <2> QED BY <2>1, <2>2, <2>3 DEF SessionsInv
<1>2. SessionsInv /\ [SessionsNext]_<<now, sessionVars>> => SessionsInv'
  BY RecordsStep, PairsStep, HonestStep DEF SessionsInv
<1> QED BY <1>1, <1>2, PTL DEF SessionsSpec

(* auth-sessions.ts under any number of tabs, sign-ins, lost and late      *)
(* requests: the server knows every pair that is held, a session lives no  *)
(* longer than its login fixed, is forgotten only when it was over for     *)
(* long, and is revoked for reuse only if an answer was lost.              *)
THEOREM SessionsStaySound == SessionsSpec => []SessionsAreSound
<1>1. SessionsInv => SessionsAreSound
  <2> SUFFICES ASSUME SessionsInv PROVE SessionsAreSound
    OBVIOUS
  <2>1. \A i \in DOMAIN records : records[i] \in Record /\ RecordSound(records[i], now)
    BY RecordAt DEF SessionsInv
  <2>2. SessionsTypeOK
    <3>1. Len(records) <= Cardinality(LoginTimes) /\ losses <= MaxLosses
      BY SessionsAreFew, SessionConstants DEF SessionsInv, PairsInv
    <3>2. \A i \in DOMAIN records : records[i].generation >= 1 /\ records[i].created <= now
      BY <2>1 DEF Record, RecordSound
    <3>3. \A t \in Tabs :
            /\ refreshing[t].at \in {"idle", "sent", "answered", "settling"}
            /\ refreshing[t].sent = NoTokens <=> refreshing[t].at = "idle"
      BY DEF SessionsInv, PairsInv, Refreshing
    <3>4. \A p \in Held \ {NoTokens} : IsIssued(p, records)
      BY DEF Held, SessionsInv, PairsInv, IsPair
    <3> QED BY <3>1, <3>2, <3>3, <3>4 DEF SessionsTypeOK, IsIssued
  <2>3. LivesWithinItsLogin
    <3>1. ASSUME NEW i \in DOMAIN records
          PROVE  /\ records[i].accessExpires <= records[i].refreshExpires
                 /\ records[i].refreshExpires <= records[i].created + MaxLifetime
                 /\ records[i].absolute = records[i].created + MaxLifetime
      BY <2>1 DEF RecordSound
    <3> QED BY <3>1 DEF LivesWithinItsLogin
  <2>4. ForgottenWasOver
    BY <2>1 DEF ForgottenWasOver, RecordSound
  <2>5. TheftNeedsALoss
    BY SessionConstants DEF SessionsInv, PairsInv, HonestInv, NoTheft, TheftNeedsALoss
  <2> QED BY <2>2, <2>3, <2>4, <2>5 DEF SessionsAreSound
<1> QED BY <1>1, SessionsInvHolds, PTL

(* refreshSession, authenticateAccessToken and purgeFinished: no request,  *)
(* however late, and no passing of time brings a session back or changes   *)
(* the reason it ended for.                                                *)
THEOREM OverIsOver == SessionsSpec => SessionsMoveOn
<1>1. SessionsInv /\ [SessionsNext]_<<now, sessionVars>> => OverStaysOver
  BY RecordsStep DEF SessionsInv, RecordsMove, Moves, OverStaysOver
<1>2. SessionsInv /\ [SessionsNext]_<<now, sessionVars>> => [OverStaysOver]_<<now, sessionVars>>
  BY <1>1
<1> QED BY <1>2, SessionsInvHolds, PTL DEF SessionsSpec, SessionsMoveOn

-----------------------------------------------------------------------------
(* Reputation: what the arithmetic of scores needs.                        *)

LEMMA TimesGrows ==
  ASSUME NEW a \in Int, NEW b \in Int, NEW k \in Nat, a <= b
  PROVE  a * k <= b * k
<1> PICK c \in Nat : b = a + c
  <2>1. b - a \in Nat /\ b = a + (b - a)
    OBVIOUS
  <2> QED BY <2>1
<1>1. (a + c) * k = a * k + c * k /\ a * k \in Int /\ c * k \in Nat
  OBVIOUS
<1> QED BY <1>1

LEMMA Product3 ==
  ASSUME NEW a \in Nat, NEW b \in Nat, NEW c \in Nat
  PROVE  a * b * c \in Nat
<1>1. a * b \in Nat
  OBVIOUS
<1> QED BY <1>1

LEMMA Division ==
  ASSUME NEW a \in Nat, NEW n \in Nat \ {0}
  PROVE  a \div n \in Nat /\ n * (a \div n) <= a /\ a < n * (a \div n) + n
<1>1. a \div n \in Nat /\ a % n \in 0..(n - 1)
  OBVIOUS
<1>2. a % n = a - n * (a \div n)
  BY SMTT(30)
<1> QED BY <1>1, <1>2

LEMMA DivisionGrows ==
  ASSUME NEW a \in Nat, NEW b \in Nat, NEW n \in Nat \ {0}, a <= b
  PROVE  a \div n <= b \div n
<1> PICK p \in Nat : p = a \div n
  BY Division
<1> PICK q \in Nat : q = b \div n
  BY Division
<1>1. n * p <= a /\ b < n * q + n
  BY Division
<1>2. p <= q
  <2> SUFFICES ASSUME q + 1 <= p PROVE FALSE
    OBVIOUS
  <2>1. (q + 1) * n <= p * n /\ p * n = n * p /\ (q + 1) * n = n * q + n
    <3>1. q + 1 \in Int /\ p \in Int /\ n \in Nat
      OBVIOUS
    <3>2. (q + 1) * n <= p * n
      BY <3>1, TimesGrows
    <3>3. p * n = n * p /\ (q + 1) * n = n * q + n
      OBVIOUS
    <3> QED BY <3>2, <3>3
  <2>2. n * q + n \in Nat /\ n * p \in Nat
    OBVIOUS
  <2> QED BY <1>1, <2>1, <2>2
<1> QED BY <1>2

(* The denominators a score is made of.                                    *)
Divides(d) == d \in Nat \ {0} /\ Scale % d = 0

LEMMA ScaleDivided ==
  ASSUME NEW d, Divides(d)
  PROVE  Scale \div d \in Nat /\ d * (Scale \div d) = Scale
<1>1. Scale \in Nat /\ d \in Nat \ {0}
  BY ReputationConstants DEF ReputationConstants, Divides
<1>2. Scale \div d \in Nat
  BY <1>1, Division
<1>3. Scale % d = Scale - d * (Scale \div d)
  BY <1>1, SMTT(30)
<1>4. d * (Scale \div d) \in Nat
  BY <1>1, <1>2
<1> QED BY <1>1, <1>2, <1>3, <1>4 DEF Divides

LEMMA DenominatorsDivide ==
  /\ Divides(1) /\ Divides(2) /\ Divides(5) /\ Divides(10) /\ Divides(RecencyDays)
  /\ Divides(100 * MinHistory)
  /\ \A d \in 1..MaxVerifications : Divides(d)
  /\ \A d \in 1..MaxDisputes : Divides(d)
  /\ \A d \in 1..MaxCrossChecks : Divides(d)
<1>1. /\ Scale \in Nat /\ MinHistory \in Nat \ {0} /\ RecencyDays \in Nat \ {0}
      /\ MaxVerifications \in Nat /\ MaxDisputes \in Nat /\ MaxCrossChecks \in Nat
      /\ Scale % 10 = 0 /\ Scale % RecencyDays = 0 /\ Scale % (100 * MinHistory) = 0
      /\ \A d \in 1..MaxVerifications : Scale % d = 0
      /\ \A d \in 1..MaxDisputes : Scale % d = 0
      /\ \A d \in 1..MaxCrossChecks : Scale % d = 0
  BY ReputationConstants DEF ReputationConstants
<1>2. Scale % 1 = 0 /\ Scale % 2 = 0 /\ Scale % 5 = 0
  BY <1>1
<1>3. 100 * MinHistory \in Nat \ {0}
  BY <1>1
<1>4. Divides(1) /\ Divides(2) /\ Divides(5) /\ Divides(10) /\ Divides(RecencyDays)
  BY <1>1, <1>2 DEF Divides
<1>5. Divides(100 * MinHistory)
  BY <1>1, <1>3 DEF Divides
<1>6. \A n \in Nat : \A d \in 1..n : d \in Nat \ {0}
  OBVIOUS
<1>7. /\ \A d \in 1..MaxVerifications : Divides(d)
      /\ \A d \in 1..MaxDisputes : Divides(d)
      /\ \A d \in 1..MaxCrossChecks : Divides(d)
  BY <1>1, <1>6 DEF Divides
<1> QED BY <1>4, <1>5, <1>7

(* One more of a kind among one more in all is no smaller a share, and as  *)
(* many among one more in all no larger.                                   *)
LEMMA ShareGrows ==
  ASSUME NEW w \in Nat, NEW t \in Nat \ {0}, NEW a \in Int, a <= t, Divides(t), Divides(t + 1)
  PROVE  Part(w, a, t) <= Part(w, a + 1, t + 1)
<1> PICK k \in Nat : k = Scale \div t
  BY ScaleDivided
<1> PICK l \in Nat : l = Scale \div (t + 1)
  BY ScaleDivided
<1>1. t * k = (t + 1) * l
  <2>1. t * (Scale \div t) = Scale /\ (t + 1) * (Scale \div (t + 1)) = Scale
    BY ScaleDivided
  <2> QED BY <2>1
<1> PICK e \in Int : e = k - l
  OBVIOUS
<1>2. t * e = l
  <2>0. k = l + e
    OBVIOUS
  <2>1. t * (l + e) = t * l + t * e /\ (t + 1) * l = t * l + l
    OBVIOUS
  <2>2. t * l \in Nat /\ t * e \in Int
    OBVIOUS
  <2> QED BY <1>1, <2>0, <2>1, <2>2
<1>3. e \in Nat
  <2> SUFFICES ASSUME e <= -1 PROVE FALSE
    OBVIOUS
  <2>1. e * t <= (-1) * t
    <3>1. e \in Int /\ -1 \in Int /\ t \in Nat
      OBVIOUS
    <3> QED BY <3>1, TimesGrows
  <2>2. e * t = t * e /\ (-1) * t = -t
    OBVIOUS
  <2> QED BY <1>2, <2>1, <2>2
<1>4. a * e <= t * e /\ a * e \in Int
  BY <1>3, TimesGrows
<1>5. a * k = a * l + a * e /\ (a + 1) * l = a * l + l /\ a * l \in Int
  <2>1. k = l + e
    OBVIOUS
  <2>2. a * (l + e) = a * l + a * e /\ (a + 1) * l = a * l + l /\ a * l \in Int
    OBVIOUS
  <2> QED BY <2>1, <2>2
<1>6. a * k <= (a + 1) * l
  BY <1>2, <1>4, <1>5
<1>7. (a * k) * w <= ((a + 1) * l) * w
  <2>1. a * k \in Int /\ (a + 1) * l \in Int
    OBVIOUS
  <2> QED BY <1>6, <2>1, TimesGrows
<1>8. w * a * k = (a * k) * w /\ w * (a + 1) * l = ((a + 1) * l) * w
  <2>1. w * a = a * w /\ w * (a + 1) = (a + 1) * w
    OBVIOUS
  <2>2. (a * w) * k = (a * k) * w /\ ((a + 1) * w) * l = ((a + 1) * l) * w
    OBVIOUS
  <2> QED BY <2>1, <2>2
<1> QED BY <1>7, <1>8 DEF Part

LEMMA ShareFalls ==
  ASSUME NEW w \in Nat, NEW t \in Nat \ {0}, NEW c \in Nat, Divides(t), Divides(t + 1)
  PROVE  Part(w, c, t + 1) <= Part(w, c, t)
<1> PICK k \in Nat : k = Scale \div t
  BY ScaleDivided
<1> PICK l \in Nat : l = Scale \div (t + 1)
  BY ScaleDivided
<1>1. t * k = (t + 1) * l
  <2>1. t * (Scale \div t) = Scale /\ (t + 1) * (Scale \div (t + 1)) = Scale
    BY ScaleDivided
  <2> QED BY <2>1
<1>2. l <= k
  <2> SUFFICES ASSUME k + 1 <= l PROVE FALSE
    OBVIOUS
  <2>1. (k + 1) * t <= l * t
    <3>1. k + 1 \in Int /\ l \in Int /\ t \in Nat
      OBVIOUS
    <3> QED BY <3>1, TimesGrows
  <2>2. (k + 1) * t = t * k + t /\ l * t = t * l /\ (t + 1) * l = t * l + l
    OBVIOUS
  <2>3. t * k \in Nat /\ t * l \in Nat
    OBVIOUS
  <2> QED BY <1>1, <2>1, <2>2, <2>3
<1>3. l * (w * c) <= k * (w * c)
  <2>1. w * c \in Nat /\ l \in Int /\ k \in Int
    OBVIOUS
  <2> QED BY <1>2, <2>1, TimesGrows
<1>4. w * c * l = l * (w * c) /\ w * c * k = k * (w * c)
  <2>1. w * c \in Nat
    OBVIOUS
  <2> QED BY <2>1
<1> QED BY <1>3, <1>4 DEF Part

(* A larger numerator is a larger share.                                   *)
LEMMA PartGrows ==
  ASSUME NEW w \in Nat, NEW a \in Int, NEW b \in Int, a <= b, NEW d, Divides(d)
  PROVE  Part(w, a, d) <= Part(w, b, d)
<1> PICK k \in Nat : k = Scale \div d
  BY ScaleDivided
<1>1. w * k \in Nat
  OBVIOUS
<1>2. a * (w * k) <= b * (w * k)
  BY <1>1, TimesGrows
<1>3. w * a * k = a * (w * k) /\ w * b * k = b * (w * k)
  <2>1. w * a = a * w /\ w * b = b * w
    OBVIOUS
  <2>2. (a * w) * k = a * (w * k) /\ (b * w) * k = b * (w * k)
    OBVIOUS
  <2> QED BY <2>1, <2>2
<1> QED BY <1>2, <1>3 DEF Part

LEMMA PartIs ==
  ASSUME NEW w \in Nat, NEW a \in Int, NEW d, Divides(d)
  PROVE  Part(w, a, d) \in Int /\ (a >= 0 => Part(w, a, d) \in Nat)
<1> PICK k \in Nat : k = Scale \div d
  BY ScaleDivided
<1>1. w * a \in Int /\ (a >= 0 => w * a \in Nat)
  OBVIOUS
<1> PICK x \in Int : x = w * a
  BY <1>1
<1>2. x * k \in Int /\ (x >= 0 => x * k \in Nat)
  OBVIOUS
<1> QED BY <1>1, <1>2 DEF Part

(* A share of n * d out of d is n whole parts.                             *)
LEMMA WholePart ==
  ASSUME NEW w \in Nat, NEW n \in Nat, NEW d, Divides(d)
  PROVE  Part(w, n * d, d) = w * n * Scale
<1> PICK k \in Nat : k = Scale \div d
  BY ScaleDivided
<1>1. d * k = Scale /\ d \in Nat
  BY ScaleDivided DEF Divides
<1>2. w * (n * d) = (w * n) * d
  BY <1>1
<1> PICK m \in Nat : m = w * n
  OBVIOUS
<1>3. (m * d) * k = m * (d * k)
  BY <1>1
<1> QED BY <1>1, <1>2, <1>3 DEF Part

LEMMA HundredfoldPart ==
  ASSUME NEW w \in Nat, NEW a \in Int, NEW d, Divides(d), Divides(100 * d)
  PROVE  Part(w, 100 * a, 100 * d) = Part(w, a, d)
<1> PICK k \in Nat : k = Scale \div d
  BY ScaleDivided
<1> PICK l \in Nat : l = Scale \div (100 * d)
  BY ScaleDivided
<1>1. d \in Nat \ {0} /\ d * k = (100 * d) * l
  <2>1. d * (Scale \div d) = Scale /\ (100 * d) * (Scale \div (100 * d)) = Scale
    BY ScaleDivided
  <2> QED BY <2>1 DEF Divides
<1>2. k = 100 * l
  <2> PICK e \in Int : e = k - 100 * l
    OBVIOUS
  <2>1. e * d = 0
    <3>1. (100 * d) * l = d * (100 * l) /\ d * k = d * (100 * l + e)
      BY <1>1
    <3>2. d * (100 * l + e) = d * (100 * l) + d * e /\ d * e = e * d
      BY <1>1
    <3>3. d * (100 * l) \in Nat /\ e * d \in Int
      BY <1>1
    <3> PICK x \in Nat : x = d * (100 * l)
      BY <3>3
    <3> PICK y \in Int : y = e * d
      BY <3>3
    <3>4. d * k = x + y
      BY <3>1, <3>2
    <3>5. d * k = x
      BY <1>1, <3>1
    <3>6. y = 0
      BY <3>4, <3>5
    <3> QED BY <3>6
  <2>2. d \in Nat /\ 1 \in Int /\ -1 \in Int
    BY <1>1
  <2>3. ~(1 <= e)
    <3> SUFFICES ASSUME 1 <= e PROVE FALSE
      OBVIOUS
    <3>1. 1 * d <= e * d
      BY <2>2, TimesGrows
    <3> QED BY <1>1, <2>1, <3>1
  <2>4. ~(e <= -1)
    <3> SUFFICES ASSUME e <= -1 PROVE FALSE
      OBVIOUS
    <3>1. e * d <= (-1) * d
      BY <2>2, TimesGrows
    <3> QED BY <1>1, <2>1, <3>1
  <2> QED BY <2>3, <2>4
<1>3. w * (100 * a) * l = w * a * (100 * l)
  <2>1. w * (100 * a) = 100 * (w * a)
    OBVIOUS
  <2> PICK x \in Int : x = w * a
    OBVIOUS
  <2>2. (100 * x) * l = x * (100 * l)
    OBVIOUS
  <2> QED BY <2>1, <2>2
<1> QED BY <1>2, <1>3 DEF Part

LEMMA CappedIs ==
  ASSUME NEW n \in Int, NEW high \in Nat
  PROVE  Capped(n, 0, high) \in 0..high
BY DEF Capped

LEMMA CappedGrows ==
  ASSUME NEW n \in Int, NEW m \in Int, NEW high \in Nat, n <= m
  PROVE  Capped(n, 0, high) <= Capped(m, 0, high)
BY DEF Capped

-----------------------------------------------------------------------------
(* Reputation: the parts of a score.                                       *)

Good(s) ==
  /\ s \in Signals /\ s.ok <= s.total /\ s.agreed <= s.checked
  /\ s.fault + s.cleared + s.open <= MaxDisputes

LEMMA GoodIs ==
  ASSUME NEW s, Good(s)
  PROVE  /\ s.total \in 0..MaxVerifications /\ s.ok \in Nat /\ s.ok <= s.total
         /\ s.fault \in Nat /\ s.cleared \in Nat /\ s.open \in Nat
         /\ s.fault + s.cleared + s.open \in 0..MaxDisputes
         /\ s.checked \in 0..MaxCrossChecks /\ s.agreed \in Nat /\ s.agreed <= s.checked
         /\ MinHistory \in Nat \ {0} /\ Scale \in Nat \ {0} /\ MaxVerifications \in Nat
         /\ MaxDisputes \in Nat /\ MaxCrossChecks \in Nat /\ RecencyDays \in Nat \ {0}
<1>1. /\ MinHistory \in Nat \ {0} /\ Scale \in Nat \ {0} /\ MaxVerifications \in Nat
      /\ MaxDisputes \in Nat /\ MaxCrossChecks \in Nat /\ RecencyDays \in Nat \ {0}
  BY ReputationConstants DEF ReputationConstants
<1>2. /\ s.total \in 0..MaxVerifications /\ s.ok \in 0..MaxVerifications
      /\ s.fault \in 0..MaxDisputes /\ s.cleared \in 0..MaxDisputes /\ s.open \in 0..MaxDisputes
      /\ s.agreed \in 0..MaxCrossChecks /\ s.checked \in 0..MaxCrossChecks
  BY DEF Good, Signals
<1> QED BY <1>1, <1>2 DEF Good

(* What the fault rate is before it is capped.                             *)
Faultless(s) ==
  IF s.total < MinHistory
  THEN Part(25, 100 * MinHistory - 20 * (MinHistory - s.total) - 1000 * s.fault, 100 * MinHistory)
  ELSE Part(25, s.total - 10 * s.fault, s.total)

LEMMA FaultRateIs == \A s : FaultRate(s) = Capped(Faultless(s), 0, 25 * Scale)
BY DEF FaultRate, Faultless

LEMMA LongHistory ==
  ASSUME NEW s, Good(s), ~(s.total < MinHistory)
  PROVE  s.total \in 1..MaxVerifications /\ Divides(s.total)
<1>1. s.total \in 1..MaxVerifications
  BY GoodIs
<1> QED BY <1>1, DenominatorsDivide

LEMMA RatesAre ==
  ASSUME NEW s, Good(s)
  PROVE  /\ SuccessRate(s) \in Nat /\ Faultless(s) \in Int /\ FaultRate(s) \in Nat
         /\ ExonerationRate(s) \in Nat /\ Consistency(s) \in Nat
<1>0. /\ 30 \in Nat /\ 25 \in Nat /\ 10 \in Nat /\ 15 \in Nat /\ 1 \in Int /\ 4 \in Int
      /\ 1 >= 0 /\ 4 >= 0
  OBVIOUS
<1>1. SuccessRate(s) \in Nat
  <2>1. CASE s.total < MinHistory
    <3> PICK n : n = 75 * (MinHistory - s.total) + 100 * s.ok
      OBVIOUS
    <3>1. n \in Int /\ n >= 0
      BY <2>1, GoodIs
    <3>2. Part(30, n, 100 * MinHistory) \in Nat
      BY <1>0, <3>1, DenominatorsDivide, PartIs
    <3> QED BY <2>1, <3>2 DEF SuccessRate
  <2>2. CASE ~(s.total < MinHistory)
    <3>1. s.ok \in Int /\ s.ok >= 0
      BY GoodIs
    <3>2. Part(30, s.ok, s.total) \in Nat
      BY <1>0, <2>2, <3>1, LongHistory, PartIs
    <3> QED BY <2>2, <3>2 DEF SuccessRate
  <2> QED BY <2>1, <2>2
<1>2. Faultless(s) \in Int
  <2>1. CASE s.total < MinHistory
    <3> PICK n : n = 100 * MinHistory - 20 * (MinHistory - s.total) - 1000 * s.fault
      OBVIOUS
    <3>1. n \in Int
      BY GoodIs
    <3>2. Part(25, n, 100 * MinHistory) \in Int
      BY <1>0, <3>1, DenominatorsDivide, PartIs
    <3> QED BY <2>1, <3>2 DEF Faultless
  <2>2. CASE ~(s.total < MinHistory)
    <3> PICK n : n = s.total - 10 * s.fault
      OBVIOUS
    <3>1. n \in Int
      BY GoodIs
    <3>2. Part(25, n, s.total) \in Int
      BY <1>0, <2>2, <3>1, LongHistory, PartIs
    <3> QED BY <2>2, <3>2 DEF Faultless
  <2> QED BY <2>1, <2>2
<1>3. FaultRate(s) \in Nat
  <2>1. 25 * Scale \in Nat
    BY GoodIs
  <2>2. Capped(Faultless(s), 0, 25 * Scale) \in 0..(25 * Scale)
    BY <1>2, <2>1, CappedIs
  <2> QED BY <2>1, <2>2, FaultRateIs
<1>4. ExonerationRate(s) \in Nat
  <2> PICK n : n = s.fault + s.cleared + s.open
    OBVIOUS
  <2>1. n \in 0..MaxDisputes /\ s.cleared \in Int /\ s.cleared >= 0
    BY GoodIs
  <2>2. CASE n = 0
    <3>1. Part(10, 1, 2) \in Nat
      BY <1>0, DenominatorsDivide, PartIs
    <3> QED BY <2>2, <3>1 DEF ExonerationRate
  <2>3. CASE n # 0
    <3>1. n \in 1..MaxDisputes
      BY <2>1, <2>3, GoodIs
    <3>2. Part(10, s.cleared, n) \in Nat
      BY <1>0, <2>1, <3>1, DenominatorsDivide, PartIs
    <3> QED BY <2>3, <3>2 DEF ExonerationRate
  <2> QED BY <2>2, <2>3
<1>5. Consistency(s) \in Nat
  <2>1. CASE s.checked = 0
    <3>1. Part(15, 4, 5) \in Nat
      BY <1>0, DenominatorsDivide, PartIs
    <3> QED BY <2>1, <3>1 DEF Consistency
  <2>2. CASE s.checked # 0
    <3>1. s.checked \in 1..MaxCrossChecks /\ s.agreed \in Int /\ s.agreed >= 0
      BY <2>2, GoodIs
    <3>2. Part(15, s.agreed, s.checked) \in Nat
      BY <1>0, <3>1, DenominatorsDivide, PartIs
    <3> QED BY <2>2, <3>2 DEF Consistency
  <2> QED BY <2>1, <2>2
<1> QED BY <1>1, <1>2, <1>3, <1>4, <1>5

LEMMA FaultRateFollows ==
  ASSUME NEW s, NEW r, Good(s), Good(r), Faultless(s) <= Faultless(r)
  PROVE  FaultRate(s) <= FaultRate(r)
<1>1. 25 * Scale \in Nat
  BY GoodIs
<1>2. Capped(Faultless(s), 0, 25 * Scale) <= Capped(Faultless(r), 0, 25 * Scale)
  BY <1>1, RatesAre, CappedGrows
<1> QED BY <1>2, FaultRateIs

(* A verification that succeeded: at the history at which the priors stop, *)
(* and on either side of it.                                               *)
LEMMA SuccessRaises ==
  ASSUME NEW s, NEW r, Good(s), Good(r),
         r.total = s.total + 1, r.ok = s.ok + 1, r.fault = s.fault
  PROVE  SuccessRate(s) <= SuccessRate(r) /\ FaultRate(s) <= FaultRate(r)
<1>0. 30 \in Nat /\ 25 \in Nat
  OBVIOUS
<1> PICK t \in Nat : t = s.total
  BY GoodIs
<1> PICK M \in Nat : M = MinHistory
  BY GoodIs
<1> PICK ok \in Nat : ok = s.ok
  BY GoodIs
<1> PICK f \in Nat : f = s.fault
  BY GoodIs
<1>1. ok <= t /\ ok + 1 \in Int /\ Divides(100 * M)
  BY GoodIs, DenominatorsDivide
<1>2. CASE t + 1 < M
  <2> PICK a \in Int : a = 75 * (M - t) + 100 * ok
    OBVIOUS
  <2> PICK b \in Int : b = 75 * (M - (t + 1)) + 100 * (ok + 1)
    OBVIOUS
  <2>1. Part(30, a, 100 * M) <= Part(30, b, 100 * M)
    <3>1. a <= b
      OBVIOUS
    <3> QED BY <1>0, <1>1, <3>1, PartGrows
  <2> PICK c \in Int : c = 100 * M - 20 * (M - t) - 1000 * f
    OBVIOUS
  <2> PICK d \in Int : d = 100 * M - 20 * (M - (t + 1)) - 1000 * f
    OBVIOUS
  <2>2. Part(25, c, 100 * M) <= Part(25, d, 100 * M)
    <3>1. c <= d
      OBVIOUS
    <3> QED BY <1>0, <1>1, <3>1, PartGrows
  <2>3. t < M
    BY <1>2
  <2>4. SuccessRate(s) = Part(30, a, 100 * M) /\ SuccessRate(r) = Part(30, b, 100 * M)
    BY <1>2, <2>3 DEF SuccessRate
  <2>5. Faultless(s) = Part(25, c, 100 * M) /\ Faultless(r) = Part(25, d, 100 * M)
    BY <1>2, <2>3 DEF Faultless
  <2> QED BY <2>1, <2>2, <2>4, <2>5, FaultRateFollows
<1>3. CASE M = t + 1
  <2>0. Divides(M)
    <3>1. M \in 1..MaxVerifications
      BY <1>3, GoodIs
    <3> QED BY <3>1, DenominatorsDivide
  <2> PICK a \in Int : a = 75 * (M - t) + 100 * ok
    OBVIOUS
  <2>1. Part(30, a, 100 * M) <= Part(30, ok + 1, M)
    <3>0. a = 75 * (M - t) + 100 * ok /\ ok \in Nat /\ t \in Nat /\ M \in Nat
      OBVIOUS
    <3>1. a <= 100 * (ok + 1) /\ 100 * (ok + 1) \in Int
      BY ONLY <1>3, <3>0
    <3>2. Part(30, a, 100 * M) <= Part(30, 100 * (ok + 1), 100 * M)
      BY <1>0, <1>1, <3>1, PartGrows
    <3>3. Part(30, 100 * (ok + 1), 100 * M) = Part(30, ok + 1, M)
      BY <1>0, <1>1, <2>0, HundredfoldPart
    <3> QED BY <3>2, <3>3
  <2> PICK c \in Int : c = 100 * M - 20 * (M - t) - 1000 * f
    OBVIOUS
  <2> PICK d \in Int : d = M - 10 * f
    OBVIOUS
  <2>2. Part(25, c, 100 * M) <= Part(25, d, M)
    <3>0. /\ c = 100 * M - 20 * (M - t) - 1000 * f /\ d = M - 10 * f
          /\ f \in Nat /\ t \in Nat /\ M \in Nat
      OBVIOUS
    <3>1. c <= 100 * d /\ 100 * d \in Int
      BY ONLY <1>3, <3>0
    <3>2. Part(25, c, 100 * M) <= Part(25, 100 * d, 100 * M)
      BY <1>0, <1>1, <3>1, PartGrows
    <3>3. Part(25, 100 * d, 100 * M) = Part(25, d, M)
      BY <1>0, <1>1, <2>0, HundredfoldPart
    <3> QED BY <3>2, <3>3
  <2>3. t < M /\ ~(t + 1 < M)
    <3>1. t \in Nat /\ M \in Nat
      OBVIOUS
    <3> QED BY ONLY <1>3, <3>1
  <2>4. SuccessRate(s) = Part(30, a, 100 * M) /\ SuccessRate(r) = Part(30, ok + 1, M)
    BY <1>3, <2>3 DEF SuccessRate
  <2>5. Faultless(s) = Part(25, c, 100 * M) /\ Faultless(r) = Part(25, d, M)
    BY <1>3, <2>3 DEF Faultless
  <2> QED BY <2>1, <2>2, <2>4, <2>5, FaultRateFollows
<1>4. CASE M <= t
  <2>0. t \in Nat \ {0} /\ Divides(t) /\ Divides(t + 1)
    <3>1. t \in 1..MaxVerifications /\ t + 1 \in 1..MaxVerifications
      BY <1>4, GoodIs
    <3> QED BY <3>1, DenominatorsDivide
  <2>1. Part(30, ok, t) <= Part(30, ok + 1, t + 1)
    BY <1>0, <1>1, <2>0, ShareGrows
  <2> PICK c \in Int : c = t - 10 * f
    OBVIOUS
  <2>2. Part(25, c, t) <= Part(25, c + 1, t + 1)
    <3>1. c <= t
      OBVIOUS
    <3> QED BY <1>0, <2>0, <3>1, ShareGrows
  <2>3. ~(t < M) /\ ~(t + 1 < M) /\ c + 1 = (t + 1) - 10 * f
    BY <1>4
  <2>4. SuccessRate(s) = Part(30, ok, t) /\ SuccessRate(r) = Part(30, ok + 1, t + 1)
    BY <1>4, <2>3 DEF SuccessRate
  <2>5. Faultless(s) = Part(25, c, t) /\ Faultless(r) = Part(25, c + 1, t + 1)
    BY <1>4, <2>3 DEF Faultless
  <2> QED BY <2>1, <2>2, <2>4, <2>5, FaultRateFollows
<1> QED BY <1>2, <1>3, <1>4

LEMMA FaultLowers ==
  ASSUME NEW s, NEW r, Good(s), Good(r), r.total = s.total, r.fault >= s.fault
  PROVE  FaultRate(r) <= FaultRate(s)
<1>0. 25 \in Nat
  OBVIOUS
<1>1. CASE s.total < MinHistory
  <2> PICK a \in Int : a = 100 * MinHistory - 20 * (MinHistory - s.total) - 1000 * r.fault
    BY GoodIs
  <2> PICK b \in Int : b = 100 * MinHistory - 20 * (MinHistory - s.total) - 1000 * s.fault
    BY GoodIs
  <2>1. a <= b
    BY GoodIs
  <2>2. Part(25, a, 100 * MinHistory) <= Part(25, b, 100 * MinHistory)
    BY <1>0, <2>1, DenominatorsDivide, PartGrows
  <2>3. Faultless(r) = Part(25, a, 100 * MinHistory) /\ Faultless(s) = Part(25, b, 100 * MinHistory)
    BY <1>1 DEF Faultless
  <2> QED BY <2>2, <2>3, FaultRateFollows
<1>2. CASE ~(s.total < MinHistory)
  <2> PICK a \in Int : a = s.total - 10 * r.fault
    BY GoodIs
  <2> PICK b \in Int : b = s.total - 10 * s.fault
    BY GoodIs
  <2>1. a <= b
    BY GoodIs
  <2>2. Part(25, a, s.total) <= Part(25, b, s.total)
    BY <1>0, <1>2, <2>1, LongHistory, PartGrows
  <2>3. Faultless(r) = Part(25, a, s.total) /\ Faultless(s) = Part(25, b, s.total)
    BY <1>2 DEF Faultless
  <2> QED BY <2>2, <2>3, FaultRateFollows
<1> QED BY <1>1, <1>2

LEMMA ClearingRaises ==
  ASSUME NEW s, NEW r, Good(s), Good(r), s.cleared <= r.cleared,
         r.fault + r.cleared + r.open = s.fault + s.cleared + s.open
  PROVE  ExonerationRate(s) <= ExonerationRate(r)
<1> PICK n : n = s.fault + s.cleared + s.open
  OBVIOUS
<1>1. n \in 0..MaxDisputes /\ s.cleared \in Int /\ r.cleared \in Int /\ 10 \in Nat
  BY GoodIs
<1>2. CASE n = 0
  <2>1. ExonerationRate(s) = ExonerationRate(r)
    BY <1>2 DEF ExonerationRate
  <2> QED BY <2>1, RatesAre
<1>3. CASE n # 0
  <2>1. Divides(n)
    <3>1. n \in 1..MaxDisputes
      BY <1>1, <1>3, GoodIs
    <3> QED BY <3>1, DenominatorsDivide
  <2>2. Part(10, s.cleared, n) <= Part(10, r.cleared, n)
    BY <1>1, <2>1, PartGrows
  <2> QED BY <1>3, <2>2 DEF ExonerationRate
<1> QED BY <1>2, <1>3

LEMMA OpeningLowers ==
  ASSUME NEW s, NEW r, Good(s), Good(r), r.cleared = s.cleared,
         r.fault + r.cleared + r.open = s.fault + s.cleared + s.open + 1
  PROVE  ExonerationRate(r) <= ExonerationRate(s)
<1> PICK n : n = s.fault + s.cleared + s.open
  OBVIOUS
<1>1. n \in Nat /\ n + 1 \in 1..MaxDisputes /\ s.cleared \in Nat /\ 10 \in Nat /\ 0 \in Int /\ 1 \in Int
  BY GoodIs
<1>2. Divides(n + 1) /\ n + 1 # 0
  BY <1>1, DenominatorsDivide
<1>3. CASE n = 0
  <2>1. s.cleared = 0
    BY <1>3, GoodIs
  <2>2. ExonerationRate(s) = Part(10, 1, 2) /\ ExonerationRate(r) = Part(10, 0, 1)
    BY <1>3, <2>1 DEF ExonerationRate
  <2>3. Part(10, 0, 1) = 0
    <3> PICK k \in Nat : k = Scale \div 1
      BY ScaleDivided, DenominatorsDivide
    <3>1. 10 * 0 * k = 0
      OBVIOUS
    <3> QED BY <3>1 DEF Part
  <2>4. Part(10, 1, 2) \in Nat
    BY <2>2, RatesAre
  <2> QED BY <2>2, <2>3, <2>4
<1>4. CASE n # 0
  <2>1. n \in Nat \ {0} /\ Divides(n)
    <3>1. n \in 1..MaxDisputes
      BY <1>1, <1>4, GoodIs
    <3> QED BY <3>1, DenominatorsDivide
  <2>2. Part(10, s.cleared, n + 1) <= Part(10, s.cleared, n)
    BY <1>1, <1>2, <2>1, ShareFalls
  <2>3. ExonerationRate(s) = Part(10, s.cleared, n)
    BY <1>4 DEF ExonerationRate
  <2>4. ExonerationRate(r) = Part(10, s.cleared, n + 1)
    BY <1>2 DEF ExonerationRate
  <2> QED BY <2>2, <2>3, <2>4
<1> QED BY <1>3, <1>4

LEMMA AgreementRaises ==
  ASSUME NEW s, NEW r, Good(s), Good(r), r.checked = s.checked + 1, r.agreed = s.agreed + 1
  PROVE  Consistency(s) <= Consistency(r)
<1>0. 15 \in Nat /\ 4 \in Int /\ 5 \in Int /\ 4 <= 5 /\ 1 \in Nat
  OBVIOUS
<1>1. CASE s.checked = 0
  <2>1. s.agreed = 0
    BY <1>1, GoodIs
  <2>2. Consistency(s) = Part(15, 4, 5) /\ Consistency(r) = Part(15, 1, 1)
    BY <1>1, <2>1 DEF Consistency
  <2>3. Part(15, 4, 5) <= Part(15, 5, 5)
    BY <1>0, DenominatorsDivide, PartGrows
  <2>4. Part(15, 1 * 5, 5) = 15 * 1 * Scale /\ Part(15, 1 * 1, 1) = 15 * 1 * Scale
    BY <1>0, DenominatorsDivide, WholePart
  <2>5. 1 * 5 = 5 /\ 1 * 1 = 1
    OBVIOUS
  <2> QED BY <2>2, <2>3, <2>4, <2>5
<1>2. CASE s.checked # 0
  <2> PICK n : n = s.checked
    OBVIOUS
  <2>1. n \in Nat \ {0} /\ Divides(n) /\ Divides(n + 1)
    <3>1. n \in 1..MaxCrossChecks /\ n + 1 \in 1..MaxCrossChecks
      BY <1>2, GoodIs
    <3> QED BY <3>1, DenominatorsDivide
  <2>2. Part(15, s.agreed, n) <= Part(15, s.agreed + 1, n + 1)
    BY <1>0, <2>1, GoodIs, ShareGrows
  <2>3. n # 0 /\ n + 1 # 0
    BY <2>1
  <2> QED BY <2>2, <2>3 DEF Consistency
<1> QED BY <1>1, <1>2

-----------------------------------------------------------------------------
(* Reputation: scores.                                                     *)

Raw(s, recency) ==
  SuccessRate(s) + FaultRate(s) + ExonerationRate(s) + Consistency(s) + OnTargetAndStaked + recency

Final(raw, penalty) == Capped(Rounded(raw * penalty, 100 * Scale), 0, 100)

LEMMA ScoreIs ==
  ASSUME NEW t
  PROVE  Score(signals, t) = IF status \in {"suspended", "blacklisted"} THEN 0
                             ELSE Final(Raw(signals, Recency(t)), Penalty(t))
BY DEF Score, Final, Raw

LEMMA OnTargetAndStakedIs == OnTargetAndStaked = 7 * Scale /\ Scale \in Nat \ {0}
<1>0. Scale \in Nat \ {0}
  BY ReputationConstants DEF ReputationConstants
<1>1. Part(5, 1 * 1, 1) = 5 * 1 * Scale
  <2>1. 5 \in Nat /\ 1 \in Nat
    OBVIOUS
  <2> QED BY <2>1, DenominatorsDivide, WholePart
<1>2. Part(10, 1, 5) = 2 * Scale
  <2> PICK k \in Nat : k = Scale \div 5
    BY ScaleDivided, DenominatorsDivide
  <2>1. 5 * k = Scale
    BY ScaleDivided, DenominatorsDivide
  <2>2. 10 * 1 * k = 2 * (5 * k)
    OBVIOUS
  <2> QED BY <2>1, <2>2 DEF Part
<1>3. 1 * 1 = 1 /\ 5 * 1 * Scale = 5 * Scale
  BY <1>0
<1> QED BY <1>0, <1>1, <1>2, <1>3 DEF OnTargetAndStaked

LEMMA RawIs ==
  ASSUME NEW s, Good(s), NEW recency \in Nat
  PROVE  Raw(s, recency) \in Nat
<1>1. OnTargetAndStaked \in Nat
  BY OnTargetAndStakedIs
<1> QED BY <1>1, RatesAre DEF Raw

LEMMA RoundedIs ==
  ASSUME NEW raw \in Nat, NEW penalty \in Nat
  PROVE  /\ 2 * (100 * Scale) \in Nat \ {0}
         /\ 2 * (raw * penalty) + 100 * Scale \in Nat
         /\ Rounded(raw * penalty, 100 * Scale)
              = (2 * (raw * penalty) + 100 * Scale) \div (2 * (100 * Scale))
         /\ Rounded(raw * penalty, 100 * Scale) \in Nat
<1>1. raw * penalty \in Nat /\ Scale \in Nat \ {0}
  BY OnTargetAndStakedIs
<1> PICK x \in Nat : x = raw * penalty
  BY <1>1
<1> PICK n \in Nat \ {0} : n = 2 * (100 * Scale)
  BY <1>1
<1> PICK y \in Nat : y = 2 * x + 100 * Scale
  BY <1>1
<1>2. y \div n \in Nat
  BY Division
<1> QED BY <1>2 DEF Rounded

LEMMA FinalGrows ==
  ASSUME NEW a \in Nat, NEW b \in Nat, NEW penalty \in Nat, a <= b
  PROVE  Final(a, penalty) <= Final(b, penalty)
<1>1. a * penalty <= b * penalty /\ a * penalty \in Nat /\ b * penalty \in Nat
  <2>1. a * penalty <= b * penalty
    BY TimesGrows
  <2> QED BY <2>1
<1> PICK x \in Nat : x = 2 * (a * penalty) + 100 * Scale
  BY RoundedIs
<1> PICK y \in Nat : y = 2 * (b * penalty) + 100 * Scale
  BY RoundedIs
<1> PICK n \in Nat \ {0} : n = 2 * (100 * Scale)
  BY RoundedIs
<1>2. x <= y
  BY <1>1, OnTargetAndStakedIs
<1>3. x \div n <= y \div n
  BY <1>2, DivisionGrows
<1>4. /\ Rounded(a * penalty, 100 * Scale) = x \div n /\ x \div n \in Nat
      /\ Rounded(b * penalty, 100 * Scale) = y \div n /\ y \div n \in Nat
  BY RoundedIs
<1> PICK p \in Nat : p = x \div n
  BY <1>4
<1> PICK q \in Nat : q = y \div n
  BY <1>4
<1>5. Capped(p, 0, 100) <= Capped(q, 0, 100)
  <2>1. p \in Int /\ q \in Int /\ 100 \in Nat /\ p <= q
    BY <1>3
  <2> QED BY <2>1, CappedGrows
<1> QED BY <1>4, <1>5 DEF Final

LEMMA FinalIs ==
  ASSUME NEW raw \in Nat, NEW penalty \in Nat
  PROVE  Final(raw, penalty) \in 0..100
<1>1. Rounded(raw * penalty, 100 * Scale) \in Int /\ 100 \in Nat
  BY RoundedIs
<1> QED BY <1>1, CappedIs DEF Final

(* Each part of a score is no smaller than before.                         *)
Better(s, p, r, q) ==
  /\ SuccessRate(s) <= SuccessRate(r) /\ FaultRate(s) <= FaultRate(r)
  /\ ExonerationRate(s) <= ExonerationRate(r) /\ Consistency(s) <= Consistency(r)
  /\ p <= q

LEMMA BetterScores ==
  ASSUME NEW s, NEW r, NEW p \in Nat, NEW q \in Nat, Good(s), Good(r), Better(s, p, r, q),
         NEW penalty \in Nat
  PROVE  Final(Raw(s, p), penalty) <= Final(Raw(r, q), penalty)
<1>1. Raw(s, p) \in Nat /\ Raw(r, q) \in Nat
  BY RawIs
<1>2. OnTargetAndStaked \in Nat
  BY OnTargetAndStakedIs
<1>3. Raw(s, p) <= Raw(r, q)
  BY <1>2, RatesAre DEF Raw, Better
<1> QED BY <1>1, <1>3, FinalGrows

(* Without a fault finding the inverted fault rate alone, with the parts   *)
(* that do not vary, keeps a verifier above the line.                      *)
LEMMA FaultlessScores ==
  ASSUME NEW s, Good(s), s.fault = 0, NEW recency \in Nat
  PROVE  Final(Raw(s, recency), 100) >= 25
<1>0. Scale \in Nat \ {0} /\ 25 \in Nat /\ 100 \in Nat
  BY OnTargetAndStakedIs
<1>1. Faultless(s) >= 20 * Scale
  <2>1. CASE s.total < MinHistory
    <3> PICK M \in Nat : M = MinHistory
      BY GoodIs
    <3> PICK k \in Nat : k = Scale \div (100 * M)
      BY ScaleDivided, DenominatorsDivide
    <3>1. (100 * M) * k = Scale
      BY ScaleDivided, DenominatorsDivide
    <3> PICK n \in Int : n = 100 * M - 20 * (M - s.total) - 1000 * s.fault
      BY GoodIs
    <3>2. 80 * M <= n /\ 80 * M \in Int
      BY GoodIs
    <3>3. Part(25, 80 * M, 100 * M) <= Part(25, n, 100 * M)
      BY <1>0, <3>2, DenominatorsDivide, PartGrows
    <3>4. 25 * (80 * M) * k = 20 * ((100 * M) * k)
      <4>1. 25 * (80 * M) = 2000 * M
        OBVIOUS
      <4>2. (2000 * M) * k = 2000 * (M * k) /\ (100 * M) * k = 100 * (M * k)
        OBVIOUS
      <4>3. M * k \in Nat
        OBVIOUS
      <4> QED BY <4>1, <4>2, <4>3
    <3>5. Part(25, 80 * M, 100 * M) = 20 * Scale
      BY <3>1, <3>4 DEF Part
    <3>6. Faultless(s) = Part(25, n, 100 * M)
      BY <2>1 DEF Faultless
    <3>7. Faultless(s) \in Int
      BY RatesAre
    <3> QED BY <1>0, <3>3, <3>5, <3>6, <3>7
  <2>2. CASE ~(s.total < MinHistory)
    <3> PICK t \in Nat : t = s.total
      BY GoodIs
    <3>1. Faultless(s) = Part(25, t, t)
      <4>1. s.total - 10 * s.fault = t
        BY GoodIs
      <4> QED BY <2>2, <4>1 DEF Faultless
    <3>2. Part(25, 1 * t, t) = 25 * 1 * Scale
      <4>1. 1 \in Nat
        OBVIOUS
      <4> QED BY <1>0, <2>2, <4>1, LongHistory, WholePart
    <3>3. 1 * t = t /\ 25 * 1 * Scale = 25 * Scale /\ 25 * Scale >= 20 * Scale
      BY <1>0
    <3> QED BY <3>1, <3>2, <3>3
  <2> QED BY <2>1, <2>2
<1>2. FaultRate(s) >= 20 * Scale
  <2>1. Faultless(s) \in Int /\ FaultRate(s) = Capped(Faultless(s), 0, 25 * Scale)
    BY RatesAre, FaultRateIs
  <2> QED BY <1>0, <1>1, <2>1 DEF Capped
<1> PICK raw \in Nat : raw = Raw(s, recency)
  BY RawIs
<1>3. raw >= 27 * Scale
  BY <1>0, <1>2, OnTargetAndStakedIs, RatesAre DEF Raw
<1> PICK y \in Nat : y = 2 * (raw * 100) + 100 * Scale
  BY <1>0, RoundedIs
<1> PICK n \in Nat \ {0} : n = 2 * (100 * Scale)
  BY <1>0, RoundedIs
<1> PICK q \in Nat : q = y \div n
  BY Division
<1>4. y >= 25 * n
  BY <1>0, <1>3
<1>5. q >= 25
  <2> SUFFICES ASSUME q <= 24 PROVE FALSE
    OBVIOUS
  <2>1. q * n <= 24 * n
    <3>1. q \in Int /\ 24 \in Int /\ n \in Nat
      OBVIOUS
    <3> QED BY <3>1, TimesGrows
  <2>2. y < n * q + n /\ n * q = q * n /\ q * n \in Nat
    <3>0. y \in Nat /\ n \in Nat \ {0}
      OBVIOUS
    <3>1. y < n * (y \div n) + n
      BY ONLY <3>0, Division
    <3>2. y < n * q + n
      BY <3>1
    <3>3. n * q = q * n /\ q * n \in Nat
      OBVIOUS
    <3> QED BY <3>2, <3>3
  <2> QED BY <1>4, <2>1, <2>2
<1>6. Rounded(raw * 100, 100 * Scale) = q
  <2> PICK p \in Nat : p = 100
    BY <1>0
  <2>1. Rounded(raw * p, 100 * Scale) = (2 * (raw * p) + 100 * Scale) \div (2 * (100 * Scale))
    BY RoundedIs
  <2> QED BY <2>1
<1> QED BY <1>5, <1>6 DEF Final, Capped

-----------------------------------------------------------------------------
(* Reputation: what may happen to a verifier.                              *)

ReputationInv ==
  /\ now \in 0..LastTime /\ ReputationTypeOK /\ Good(signals) /\ lastActive <= now

LEMMA RecencySince ==
  ASSUME NEW l \in Nat, NEW t \in Nat
  PROVE  /\ Capped(Part(5, RecencyDays - (t - l), RecencyDays), 0, 5 * Scale) \in 0..(5 * Scale)
         /\ t = l
            => Capped(Part(5, RecencyDays - (t - l), RecencyDays), 0, 5 * Scale) = 5 * Scale
<1>0. RecencyDays \in Nat \ {0} /\ Scale \in Nat \ {0} /\ 5 \in Nat /\ 1 \in Nat
  BY ReputationConstants DEF ReputationConstants
<1> PICK n \in Int : n = RecencyDays - (t - l)
  BY <1>0
<1>1. Part(5, n, RecencyDays) \in Int /\ 5 * Scale \in Nat
  BY <1>0, DenominatorsDivide, PartIs
<1>2. Capped(Part(5, n, RecencyDays), 0, 5 * Scale) \in 0..(5 * Scale)
  BY <1>1, CappedIs
<1>3. ASSUME t = l PROVE Capped(Part(5, n, RecencyDays), 0, 5 * Scale) = 5 * Scale
  <2>1. n = 1 * RecencyDays
    BY <1>0, <1>3
  <2>2. Part(5, 1 * RecencyDays, RecencyDays) = 5 * 1 * Scale
    BY <1>0, DenominatorsDivide, WholePart
  <2>3. Capped(5 * Scale, 0, 5 * Scale) = 5 * Scale
    BY <1>0 DEF Capped
  <2>4. 5 * 1 * Scale = 5 * Scale
    BY <1>0
  <2> QED BY <2>1, <2>2, <2>3, <2>4
<1> QED BY <1>2, <1>3

LEMMA RecencyIs ==
  ASSUME ReputationInv
  PROVE  Recency(now) \in 0..(5 * Scale) /\ (lastActive = now => Recency(now) = 5 * Scale)
<1>1. now \in Nat /\ lastActive \in Nat
  BY ClockConstants DEF ClockConstants, ReputationInv, ReputationTypeOK
<1> QED BY <1>1, RecencySince DEF Recency

LEMMA RecencyBecomes ==
  ASSUME ReputationInv'
  PROVE  /\ Recency(now)' \in 0..(5 * Scale) /\ Recency(now)' \in Nat
         /\ lastActive' = now' => Recency(now)' = 5 * Scale
<1>1. now' \in Nat /\ lastActive' \in Nat /\ Scale \in Nat
  BY ClockConstants, ReputationConstants
  DEF ClockConstants, ReputationConstants, ReputationInv, ReputationTypeOK
<1>2. Recency(now)' = Capped(Part(5, RecencyDays - (now' - lastActive'), RecencyDays), 0, 5 * Scale)
  BY DEF Recency
<1> PICK c : c = Capped(Part(5, RecencyDays - (now' - lastActive'), RecencyDays), 0, 5 * Scale)
  OBVIOUS
<1>3. c \in 0..(5 * Scale) /\ (now' = lastActive' => c = 5 * Scale)
  BY <1>1, RecencySince
<1> QED BY <1>1, <1>2, <1>3

LEMMA PenaltyIs == Penalty(now) \in Nat
BY DEF Penalty

(* What becomes of the signals, and of the record.                         *)
LEMMA SignalsMove ==
  ASSUME ReputationInv, [ReputationNext]_<<now, verifierVars>>
  PROVE  ReputationInv'
<1>0. /\ now \in 0..LastTime /\ LastTime \in Nat
      /\ status \in {"active", "degraded", "probation", "suspended", "blacklisted"}
      /\ degradedUntil \in Nat \cup {NoEnd} /\ lastActive \in 0..LastTime
      /\ Good(signals) /\ lastActive <= now /\ now \in Nat
  BY ClockConstants DEF ClockConstants, ReputationInv, ReputationTypeOK
<1>1. /\ signals.total \in 0..MaxVerifications /\ signals.ok \in 0..MaxVerifications
      /\ signals.fault \in 0..MaxDisputes /\ signals.cleared \in 0..MaxDisputes
      /\ signals.open \in 0..MaxDisputes
      /\ signals.agreed \in 0..MaxCrossChecks /\ signals.checked \in 0..MaxCrossChecks
      /\ signals \in Signals
  BY <1>0 DEF Good, Signals
<1>2. CASE UNCHANGED <<now, verifierVars>>
  BY <1>0, <1>2 DEF verifierVars, ReputationInv, ReputationTypeOK, Good
<1>3. CASE Tick /\ UNCHANGED verifierVars
  BY <1>0, <1>3 DEF Tick, verifierVars, ReputationInv, ReputationTypeOK, Good
<1>4. ASSUME NEW r, signals' = r, Good(r), now' = now, lastActive' \in {lastActive, now},
             \/ UNCHANGED <<status, degradedUntil>>
             \/ \E days \in WindowDays : ApplyDegradation(now + days)
      PROVE  ReputationInv'
  <2>1. \A days \in WindowDays : days \in Nat
    BY ReputationConstants DEF ReputationConstants
  <2>2. /\ status' \in {"active", "degraded", "probation", "suspended", "blacklisted"}
        /\ degradedUntil' \in Nat \cup {NoEnd}
    BY <1>0, <1>4, <2>1 DEF ApplyDegradation
  <2> QED BY <1>0, <1>4, <2>2 DEF ReputationInv, ReputationTypeOK, Good
<1>5. ASSUME NEW b \in BOOLEAN, Verified(b) PROVE ReputationInv'
  <2> PICK r : r = [signals EXCEPT !.total = @ + 1, !.ok = IF b THEN @ + 1 ELSE @]
    OBVIOUS
  <2>1. /\ r.total = signals.total + 1 /\ r.ok = IF b THEN signals.ok + 1 ELSE signals.ok
        /\ r.fault = signals.fault /\ r.cleared = signals.cleared /\ r.open = signals.open
        /\ r.agreed = signals.agreed /\ r.checked = signals.checked
        /\ r = [total |-> r.total, ok |-> r.ok, fault |-> r.fault, cleared |-> r.cleared,
                open |-> r.open, agreed |-> r.agreed, checked |-> r.checked]
    BY <1>1 DEF Signals
  <2>2. signals.total < MaxVerifications /\ signals.ok <= signals.total
    BY <1>0, <1>5 DEF Verified, Good
  <2>3. r.total \in 0..MaxVerifications /\ r.ok \in 0..MaxVerifications /\ r.ok <= r.total
    <3>1. /\ signals.total \in Nat /\ signals.ok \in Nat /\ MaxVerifications \in Nat
          /\ signals.total + 1 \in 0..MaxVerifications
      BY <1>0, <2>2, GoodIs
    <3>2. r.ok = signals.ok \/ r.ok = signals.ok + 1
      BY <2>1
    <3> QED BY <2>1, <2>2, <3>1, <3>2
  <2>4. Good(r)
    BY <1>0, <1>1, <2>1, <2>3 DEF Good, Signals
  <2> QED BY <1>4, <1>5, <2>4 DEF Verified
<1>6. ASSUME DisputeOpened PROVE ReputationInv'
  <2> PICK r : r = [signals EXCEPT !.open = @ + 1]
    OBVIOUS
  <2>1. /\ r.total = signals.total /\ r.ok = signals.ok
        /\ r.fault = signals.fault /\ r.cleared = signals.cleared /\ r.open = signals.open + 1
        /\ r.agreed = signals.agreed /\ r.checked = signals.checked
        /\ r = [total |-> r.total, ok |-> r.ok, fault |-> r.fault, cleared |-> r.cleared,
                open |-> r.open, agreed |-> r.agreed, checked |-> r.checked]
    BY <1>1 DEF Signals
  <2>2. signals.fault + signals.cleared + signals.open < MaxDisputes
    BY <1>6 DEF DisputeOpened
  <2>3. r.open \in 0..MaxDisputes /\ r.fault + r.cleared + r.open <= MaxDisputes
    BY <1>0, <1>1, <2>1, <2>2, GoodIs
  <2>4. Good(r)
    BY <1>0, <1>1, <2>1, <2>3 DEF Good, Signals
  <2> QED BY <1>4, <1>6, <2>4 DEF DisputeOpened
<1>7. ASSUME NEW b \in BOOLEAN, CrossChecked(b) PROVE ReputationInv'
  <2> PICK r : r = [signals EXCEPT !.checked = @ + 1, !.agreed = IF b THEN @ + 1 ELSE @]
    OBVIOUS
  <2>1. /\ r.total = signals.total /\ r.ok = signals.ok
        /\ r.fault = signals.fault /\ r.cleared = signals.cleared /\ r.open = signals.open
        /\ r.agreed = (IF b THEN signals.agreed + 1 ELSE signals.agreed)
        /\ r.checked = signals.checked + 1
        /\ r = [total |-> r.total, ok |-> r.ok, fault |-> r.fault, cleared |-> r.cleared,
                open |-> r.open, agreed |-> r.agreed, checked |-> r.checked]
    BY <1>1 DEF Signals
  <2>2. signals.checked < MaxCrossChecks /\ signals.agreed <= signals.checked
    BY <1>0, <1>7 DEF CrossChecked, Good
  <2>3. r.checked \in 0..MaxCrossChecks /\ r.agreed \in 0..MaxCrossChecks /\ r.agreed <= r.checked
    <3>1. /\ signals.checked \in Nat /\ signals.agreed \in Nat /\ MaxCrossChecks \in Nat
          /\ signals.checked + 1 \in 0..MaxCrossChecks
      BY <1>0, <2>2, GoodIs
    <3>2. r.agreed = signals.agreed \/ r.agreed = signals.agreed + 1
      BY <2>1
    <3> QED BY <2>1, <2>2, <3>1, <3>2
  <2>4. Good(r)
    BY <1>0, <1>1, <2>1, <2>3 DEF Good, Signals
  <2> QED BY <1>4, <1>7, <2>4 DEF CrossChecked
<1>8. ASSUME NEW days \in WindowDays, Degraded(days) PROVE ReputationInv'
  BY <1>0, <1>4, <1>8 DEF Degraded
<1>9. ASSUME NEW days \in WindowDays, NEW b \in BOOLEAN, ApplyDisputeOutcome(b, days)
      PROVE  ReputationInv'
  <2> PICK r : r = IF b THEN [signals EXCEPT !.open = @ - 1, !.fault = @ + 1]
                   ELSE [signals EXCEPT !.open = @ - 1, !.cleared = @ + 1]
    OBVIOUS
  <2>1. /\ r.total = signals.total /\ r.ok = signals.ok /\ r.open = signals.open - 1
        /\ r.fault = (IF b THEN signals.fault + 1 ELSE signals.fault)
        /\ r.cleared = (IF b THEN signals.cleared ELSE signals.cleared + 1)
        /\ r.agreed = signals.agreed /\ r.checked = signals.checked
        /\ r = [total |-> r.total, ok |-> r.ok, fault |-> r.fault, cleared |-> r.cleared,
                open |-> r.open, agreed |-> r.agreed, checked |-> r.checked]
    BY <1>1 DEF Signals
  <2>2. signals.open > 0 /\ signals.fault + signals.cleared + signals.open <= MaxDisputes
    BY <1>0, <1>9 DEF ApplyDisputeOutcome, Good
  <2>3. /\ r.open \in 0..MaxDisputes /\ r.fault \in 0..MaxDisputes /\ r.cleared \in 0..MaxDisputes
        /\ r.fault + r.cleared + r.open <= MaxDisputes
    BY <1>0, <1>1, <2>1, <2>2, GoodIs
  <2>4. Good(r)
    BY <1>0, <1>1, <2>1, <2>3 DEF Good, Signals
  <2>5. /\ signals' = r /\ now' = now /\ lastActive' = lastActive
        /\ (UNCHANGED <<status, degradedUntil>> \/ ApplyDegradation(now + days))
    BY <1>9 DEF ApplyDisputeOutcome
  <2> QED BY <1>4, <2>4, <2>5
<1>10. CASE ExpireDegradationIfDue
  BY <1>0, <1>10 DEF ExpireDegradationIfDue, ReputationInv, ReputationTypeOK, Good
<1>11. ASSUME NEW new \in {"active", "suspended", "blacklisted", "probation"}, OperatorSets(new)
       PROVE  ReputationInv'
  BY <1>0, <1>11 DEF OperatorSets, ReputationInv, ReputationTypeOK, Good
<1> QED BY <1>2, <1>3, <1>5, <1>6, <1>7, <1>8, <1>9, <1>10, <1>11 DEF ReputationNext

LEMMA ReputationInvHolds == ReputationSpec => []ReputationInv
<1>1. ReputationInit => ReputationInv
  <2> SUFFICES ASSUME ReputationInit PROVE ReputationInv
    OBVIOUS
  <2> PICK r : r = signals
    OBVIOUS
  <2>1. LastTime \in Nat /\ MaxVerifications \in Nat /\ MaxDisputes \in Nat /\ MaxCrossChecks \in Nat
    BY ClockConstants, ReputationConstants DEF ClockConstants, ReputationConstants
  <2>2. r = [total |-> 0, ok |-> 0, fault |-> 0, cleared |-> 0, open |-> 0, agreed |-> 0,
             checked |-> 0]
    BY DEF ReputationInit
  <2>3. Good(r)
    BY <2>1, <2>2 DEF Good, Signals
  <2> QED BY <2>1, <2>3 DEF ReputationInit, ReputationInv, ReputationTypeOK, Good
<1>2. ReputationInv /\ [ReputationNext]_<<now, verifierVars>> => ReputationInv'
  BY SignalsMove
<1> QED BY <1>1, <1>2, PTL DEF ReputationSpec

(* For any history, disputes, reviews and absence: outside a degraded      *)
(* window only a fault finding or an operator takes a verifier below the   *)
(* line of exclusion.                                                      *)
THEOREM StandingStaysEarned == ReputationSpec => []StandingIsEarned
<1>1. ReputationInv => StandingIsEarned
  <2> SUFFICES ASSUME ReputationInv PROVE StandingIsEarned
    OBVIOUS
  <2>1. ASSUME signals.fault = 0, Penalty(now) = 100, status \notin {"suspended", "blacklisted"}
        PROVE  ~Excluded(signals, now)
    <3>1. Recency(now) \in Nat
      BY RecencyIs, OnTargetAndStakedIs
    <3>2. Score(signals, now) = Final(Raw(signals, Recency(now)), 100)
      BY <2>1, ScoreIs
    <3>3. Final(Raw(signals, Recency(now)), 100) >= 25
      BY <2>1, <3>1, FaultlessScores DEF ReputationInv
    <3>4. Final(Raw(signals, Recency(now)), 100) \in 0..100
      <4>1. Raw(signals, Recency(now)) \in Nat /\ 100 \in Nat
        BY <3>1, RawIs DEF ReputationInv
      <4> QED BY <4>1, FinalIs
    <3>5. \A n \in 25..100 : Tier(n) # "untrusted"
      BY DEF Tier
    <3> QED BY <3>2, <3>3, <3>4, <3>5 DEF Excluded
  <2> QED BY <2>1 DEF StandingIsEarned, ExclusionNeedsFault, ReputationInv
<1> QED BY <1>1, ReputationInvHolds, PTL

(* What each kind of news does to the parts of the score.                  *)
LEMMA NewsIsWeighed ==
  ASSUME ReputationInv, ReputationInv', ReputationNext,
         NEW p \in Nat, p = Recency(now), NEW q \in Nat, q = Recency(now)', now' = now
  PROVE  /\ \/ signals'.ok > signals.ok
            \/ signals'.agreed > signals.agreed
            \/ signals'.cleared > signals.cleared
            => Better(signals, p, signals', q)
         /\ signals'.fault > signals.fault \/ signals'.open > signals.open
            => Better(signals', q, signals, p)
<1> PICK s : s = signals
  OBVIOUS
<1> PICK r : r = signals'
  OBVIOUS
<1>0. /\ Good(s) /\ Good(r) /\ s \in Signals /\ r \in Signals
      /\ s.ok \in Nat /\ s.agreed \in Nat /\ s.cleared \in Nat /\ s.fault \in Nat /\ s.open \in Nat
  BY GoodIs DEF ReputationInv, Good
<1>1. /\ SuccessRate(s) \in Nat /\ FaultRate(s) \in Nat /\ ExonerationRate(s) \in Nat
      /\ Consistency(s) \in Nat /\ SuccessRate(r) \in Nat /\ FaultRate(r) \in Nat
      /\ ExonerationRate(r) \in Nat /\ Consistency(r) \in Nat
  BY <1>0, RatesAre
<1>2. p <= 5 * Scale /\ (lastActive' = now => q = 5 * Scale) /\ (lastActive' = lastActive => q = p)
  <2>1. p <= 5 * Scale
    BY RecencyIs
  <2>2. lastActive' = now' => q = 5 * Scale
    BY RecencyBecomes
  <2>3. lastActive' = lastActive => q = p
    BY DEF Recency
  <2> QED BY <2>1, <2>2, <2>3
<1>3. ASSUME r = s
      PROVE  /\ ~(r.ok > s.ok) /\ ~(r.agreed > s.agreed) /\ ~(r.cleared > s.cleared)
             /\ ~(r.fault > s.fault) /\ ~(r.open > s.open)
  BY <1>0, <1>3
<1>4. ASSUME NEW b \in BOOLEAN, Verified(b)
      PROVE  /\ r.ok > s.ok => Better(s, p, r, q)
             /\ ~(r.agreed > s.agreed) /\ ~(r.cleared > s.cleared)
             /\ ~(r.fault > s.fault) /\ ~(r.open > s.open)
  <2>1. r = [s EXCEPT !.total = @ + 1, !.ok = IF b THEN @ + 1 ELSE @] /\ lastActive' = now
    BY <1>4 DEF Verified
  <2>2. /\ r.total = s.total + 1 /\ r.ok = (IF b THEN s.ok + 1 ELSE s.ok)
        /\ r.fault = s.fault /\ r.cleared = s.cleared /\ r.open = s.open
        /\ r.agreed = s.agreed /\ r.checked = s.checked
    BY <1>0, <2>1 DEF Signals
  <2>3. ASSUME r.ok > s.ok PROVE Better(s, p, r, q)
    <3>1. r.ok = s.ok + 1
      BY <1>0, <2>2, <2>3
    <3>2. SuccessRate(s) <= SuccessRate(r) /\ FaultRate(s) <= FaultRate(r)
      BY <1>0, <2>2, <3>1, SuccessRaises
    <3>3. ExonerationRate(r) = ExonerationRate(s) /\ Consistency(r) = Consistency(s)
      BY <2>2 DEF ExonerationRate, Consistency
    <3> QED BY <1>1, <1>2, <2>1, <3>2, <3>3 DEF Better
  <2> QED BY <1>0, <2>2, <2>3
<1>5. ASSUME NEW b \in BOOLEAN, CrossChecked(b)
      PROVE  /\ r.agreed > s.agreed => Better(s, p, r, q)
             /\ ~(r.ok > s.ok) /\ ~(r.cleared > s.cleared)
             /\ ~(r.fault > s.fault) /\ ~(r.open > s.open)
  <2>1. /\ r = [s EXCEPT !.checked = @ + 1, !.agreed = IF b THEN @ + 1 ELSE @]
        /\ lastActive' = lastActive
    BY <1>5 DEF CrossChecked
  <2>2. /\ r.total = s.total /\ r.ok = s.ok
        /\ r.fault = s.fault /\ r.cleared = s.cleared /\ r.open = s.open
        /\ r.agreed = (IF b THEN s.agreed + 1 ELSE s.agreed) /\ r.checked = s.checked + 1
    BY <1>0, <2>1 DEF Signals
  <2>3. ASSUME r.agreed > s.agreed PROVE Better(s, p, r, q)
    <3>1. r.agreed = s.agreed + 1
      BY <1>0, <2>2, <2>3
    <3>2. Consistency(s) <= Consistency(r)
      BY <1>0, <2>2, <3>1, AgreementRaises
    <3>3. /\ ExonerationRate(r) = ExonerationRate(s) /\ SuccessRate(r) = SuccessRate(s)
          /\ FaultRate(r) = FaultRate(s)
      BY <2>2 DEF ExonerationRate, SuccessRate, FaultRate
    <3> QED BY <1>1, <1>2, <2>1, <3>2, <3>3 DEF Better
  <2> QED BY <1>0, <2>2, <2>3
<1>6. ASSUME DisputeOpened
      PROVE  /\ Better(r, q, s, p)
             /\ ~(r.ok > s.ok) /\ ~(r.agreed > s.agreed) /\ ~(r.cleared > s.cleared)
  <2>1. r = [s EXCEPT !.open = @ + 1] /\ lastActive' = lastActive
    BY <1>6 DEF DisputeOpened
  <2>2. /\ r.total = s.total /\ r.ok = s.ok
        /\ r.fault = s.fault /\ r.cleared = s.cleared /\ r.open = s.open + 1
        /\ r.agreed = s.agreed /\ r.checked = s.checked
    BY <1>0, <2>1 DEF Signals
  <2>3. r.fault + r.cleared + r.open = s.fault + s.cleared + s.open + 1
    BY <1>0, <2>2
  <2>4. ExonerationRate(r) <= ExonerationRate(s)
    BY <1>0, <2>2, <2>3, OpeningLowers
  <2>5. /\ Consistency(r) = Consistency(s) /\ SuccessRate(r) = SuccessRate(s)
        /\ FaultRate(r) = FaultRate(s)
    BY <2>2 DEF Consistency, SuccessRate, FaultRate
  <2>6. Better(r, q, s, p)
    BY <1>1, <1>2, <2>1, <2>4, <2>5 DEF Better
  <2> QED BY <1>0, <2>2, <2>6
<1>7. ASSUME NEW days \in WindowDays, NEW b \in BOOLEAN, ApplyDisputeOutcome(b, days)
      PROVE  /\ r.cleared > s.cleared => Better(s, p, r, q)
             /\ r.fault > s.fault => Better(r, q, s, p)
             /\ ~(r.ok > s.ok) /\ ~(r.agreed > s.agreed) /\ ~(r.open > s.open)
  <2>1. /\ r = IF b THEN [s EXCEPT !.open = @ - 1, !.fault = @ + 1]
               ELSE [s EXCEPT !.open = @ - 1, !.cleared = @ + 1]
        /\ lastActive' = lastActive
    BY <1>7 DEF ApplyDisputeOutcome
  <2>2. /\ r.total = s.total /\ r.ok = s.ok /\ r.open = s.open - 1
        /\ r.fault = (IF b THEN s.fault + 1 ELSE s.fault)
        /\ r.cleared = (IF b THEN s.cleared ELSE s.cleared + 1)
        /\ r.agreed = s.agreed /\ r.checked = s.checked
    BY <1>0, <2>1 DEF Signals
  <2>3. r.fault + r.cleared + r.open = s.fault + s.cleared + s.open
    BY <1>0, <2>2
  <2>4. Consistency(r) = Consistency(s) /\ SuccessRate(r) = SuccessRate(s)
    BY <2>2 DEF Consistency, SuccessRate
  <2>5. ASSUME r.cleared > s.cleared PROVE Better(s, p, r, q)
    <3>1. r.fault = s.fault /\ s.cleared <= r.cleared
      BY <1>0, <2>2, <2>5
    <3>2. ExonerationRate(s) <= ExonerationRate(r)
      BY <1>0, <2>3, <3>1, ClearingRaises
    <3>3. FaultRate(r) = FaultRate(s)
      BY <2>2, <3>1 DEF FaultRate
    <3> QED BY <1>1, <1>2, <2>1, <2>4, <3>2, <3>3 DEF Better
  <2>6. ASSUME r.fault > s.fault PROVE Better(r, q, s, p)
    <3>1. r.fault >= s.fault /\ r.cleared = s.cleared
      BY <1>0, <2>2, <2>6
    <3>2. FaultRate(r) <= FaultRate(s)
      BY <1>0, <2>2, <3>1, FaultLowers
    <3>3. ExonerationRate(r) = ExonerationRate(s)
      BY <2>3, <3>1 DEF ExonerationRate
    <3> QED BY <1>1, <1>2, <2>1, <2>4, <3>2, <3>3 DEF Better
  <2> QED BY <1>0, <2>2, <2>5, <2>6
<1>8. ASSUME \/ Tick /\ UNCHANGED verifierVars
             \/ \E days \in WindowDays : Degraded(days)
             \/ ExpireDegradationIfDue
             \/ \E new \in {"active", "suspended", "blacklisted", "probation"} : OperatorSets(new)
      PROVE  r = s
  BY <1>8 DEF verifierVars, Degraded, ExpireDegradationIfDue, OperatorSets
<1>9. CASE \E b \in BOOLEAN : Verified(b)
  BY <1>4, <1>9
<1>10. CASE \E b \in BOOLEAN : CrossChecked(b)
  BY <1>5, <1>10
<1>11. CASE \E days \in WindowDays, b \in BOOLEAN : ApplyDisputeOutcome(b, days)
  BY <1>7, <1>11
<1>12. CASE DisputeOpened
  BY <1>6, <1>12
<1>13. CASE r = s
  BY <1>3, <1>13
<1> QED BY <1>8, <1>9, <1>10, <1>11, <1>12, <1>13 DEF ReputationNext

LEMMA NewsIsHeard ==
  ASSUME ReputationInv, ReputationInv', ReputationNext
  PROVE  NewsMovesScoreItsWay
<1> SUFFICES ASSUME status' = status, degradedUntil' = degradedUntil, now' = now
             PROVE  /\ \/ signals'.ok > signals.ok
                       \/ signals'.agreed > signals.agreed
                       \/ signals'.cleared > signals.cleared
                       => Score(signals, now)' >= Score(signals, now)
                    /\ signals'.fault > signals.fault \/ signals'.open > signals.open
                       => Score(signals, now)' <= Score(signals, now)
  BY DEF NewsMovesScoreItsWay
<1> PICK s : s = signals
  OBVIOUS
<1> PICK r : r = signals'
  OBVIOUS
<1> PICK p \in Nat : p = Recency(now)
  BY RecencyIs, OnTargetAndStakedIs
<1> PICK q \in Nat : q = Recency(now)'
  BY RecencyBecomes
<1> PICK x \in Nat : x = Penalty(now)
  BY PenaltyIs
<1>1. Penalty(now)' = x /\ Good(s) /\ Good(r)
  BY DEF Penalty, ReputationInv
<1>2. /\ Score(signals, now) = IF status \in {"suspended", "blacklisted"} THEN 0 ELSE Final(Raw(s, p), x)
      /\ Score(signals, now)' = IF status \in {"suspended", "blacklisted"} THEN 0 ELSE Final(Raw(r, q), x)
  <2>1. Score(signals, now) = IF status \in {"suspended", "blacklisted"} THEN 0 ELSE Final(Raw(s, p), x)
    BY ScoreIs
  <2>2. Score(signals, now)' = IF status \in {"suspended", "blacklisted"} THEN 0
                               ELSE Final(Raw(r, q), Penalty(now)')
    BY DEF Score, Final, Raw
  <2> QED BY <1>1, <2>1, <2>2
<1> PICK a : a = Score(signals, now)
  OBVIOUS
<1> PICK b : b = Score(signals, now)'
  OBVIOUS
<1>3. Final(Raw(s, p), x) \in 0..100 /\ Final(Raw(r, q), x) \in 0..100
  BY <1>1, RawIs, FinalIs
<1>4. Better(s, p, r, q) => b >= a
  <2> SUFFICES ASSUME Better(s, p, r, q) PROVE b >= a
    OBVIOUS
  <2>1. Final(Raw(s, p), x) <= Final(Raw(r, q), x)
    BY <1>1, BetterScores
  <2> QED BY <1>2, <1>3, <2>1
<1>5. Better(r, q, s, p) => b <= a
  <2> SUFFICES ASSUME Better(r, q, s, p) PROVE b <= a
    OBVIOUS
  <2>1. Final(Raw(r, q), x) <= Final(Raw(s, p), x)
    BY <1>1, BetterScores
  <2> QED BY <1>2, <1>3, <2>1
<1>6. /\ \/ signals'.ok > signals.ok
         \/ signals'.agreed > signals.agreed
         \/ signals'.cleared > signals.cleared
         => Better(signals, p, signals', q)
      /\ signals'.fault > signals.fault \/ signals'.open > signals.open
         => Better(signals', q, signals, p)
  BY NewsIsWeighed
<1> QED BY <1>4, <1>5, <1>6

LEMMA MistrustStays ==
  ASSUME ReputationInv, ReputationNext
  PROVE  MistrustPersists
<1>1. status \in {"suspended", "blacklisted"} =>
        /\ degradedUntil' = degradedUntil
        /\ status' # status => status = "suspended" /\ UNCHANGED <<now, lastActive, signals>>
  BY DEF ReputationNext, verifierVars, Verified, CrossChecked, DisputeOpened, Degraded,
         ApplyDisputeOutcome, ApplyDegradation, Degradable, ExpireDegradationIfDue, Due,
         OperatorSets
<1>2. degradedUntil # NoEnd /\ degradedUntil' = NoEnd =>
        status = "degraded" /\ now >= degradedUntil
  <2>1. \A days \in WindowDays : now + days # NoEnd
    BY ReputationConstants DEF ReputationInv, NoEnd
  <2>2. ASSUME NEW days \in WindowDays, ApplyDegradation(now + days)
        PROVE  degradedUntil' = degradedUntil \/ degradedUntil' # NoEnd
    BY <2>1, <2>2 DEF ApplyDegradation
  <2>3. \/ degradedUntil' = degradedUntil
        \/ \E days \in WindowDays : ApplyDegradation(now + days)
        \/ ExpireDegradationIfDue
    BY DEF ReputationNext, verifierVars, Verified, CrossChecked, DisputeOpened, Degraded,
           ApplyDisputeOutcome, OperatorSets
  <2> QED BY <2>2, <2>3 DEF ExpireDegradationIfDue, Due
<1> QED BY <1>1, <1>2 DEF MistrustPersists

(* For any history and weights: good news never lowers a score, bad news   *)
(* about a dispute never raises one, across the point where the priors     *)
(* stop and under the penalty of a window; no window begins or ends for a  *)
(* suspended or blacklisted verifier, and only the operator's step lifts a *)
(* suspension.                                                             *)
THEOREM VerifiersAreJudgedFairly == ReputationSpec => JudgedFairly
<1>1. ReputationInv /\ [ReputationNext]_<<now, verifierVars>>
      => [NewsMovesScoreItsWay /\ MistrustPersists]_<<now, verifierVars>>
  <2> SUFFICES ASSUME ReputationInv, ReputationNext
               PROVE  NewsMovesScoreItsWay /\ MistrustPersists
    OBVIOUS
  <2>1. ReputationInv'
    BY SignalsMove
  <2> QED BY <2>1, NewsIsHeard, MistrustStays
<1> QED BY <1>1, ReputationInvHolds, PTL DEF ReputationSpec, JudgedFairly

=============================================================================
