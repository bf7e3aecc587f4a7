----------------------------- MODULE KeyLifecycle -----------------------------
(***************************************************************************)
(* Rotation and revocation of keys, packages/shared/key-lifecycle: when a  *)
(* key is due, the plan for its rotation, and the gate of an emergency     *)
(* revocation. One key and its plan; the summary counts over many.         *)
(*                                                                         *)
(* A plan step is kept as what it does to the keys and whether it blocks;  *)
(* its text, who does it and the checks after it are left out. Time is in  *)
(* days. Callers keep the records: what they do with a decision is theirs. *)
(***************************************************************************)
EXTENDS Clock, Integers, Sequences, FiniteSets

CONSTANTS
  NoPlan,         (* no rotation is under way                              *)
  Intervals,      (* rotationIntervalDays in use, 0 for none               *)
  Lifetimes,      (* the distances of expiresAt in use, 0 for none         *)
  ImminentDays,   (* the days before expiry that require rotation (7)      *)
  Persons,        (* who asks for emergency revocations and approves them  *)
  NoOne           (* no approver is named                                  *)

ASSUME KeyConstants ==
  /\ Intervals \subseteq Nat /\ Lifetimes \subseteq Nat
  /\ ImminentDays \in Nat \ {0}
  /\ NoOne \notin Persons

Categories == {"tee_enclave", "stellar_deployer", "oracle_provider", "api_key", "ci_cd"}

Compromise == {"suspected_compromise", "confirmed_compromise"}

Triggers == Compromise \cup {"scheduled"}   (* the others act like scheduled *)

(* DEFAULT_EMERGENCY_PROCEDURES                                            *)
SingleApprover(category) == category = "api_key"

VARIABLES
  key,      (* KeyRecord                                                   *)
  plan,     (* RotationPlan, and its steps that have begun and are done    *)
  request   (* the last gate decision about the key, and for whom it was   *)

keyVars == <<key, plan, request>>

Key ==
  [category : Categories, status : {"active", "revoked", "expired", "superseded"},
   reference : Nat, interval : Nat, expires : Nat]

Gates == {"none", "approved_single", "requires_second_approver", "already_revoked",
          "missing_justification"}

Request ==
  [gate : Gates, requestedBy : Persons \cup {NoOne}, approvedBy : Persons \cup {NoOne}]

KeyTypeOK ==
  /\ key \in Key
  /\ plan = NoPlan
     \/ /\ plan.twoPersons \in BOOLEAN /\ plan.trigger \in Triggers
        /\ plan.begun \subseteq DOMAIN plan.steps /\ plan.done \subseteq plan.begun
  /\ request \in Request

KeyInit ==
  /\ now = 0
  /\ key \in {[category |-> c, status |-> "active", reference |-> 0, interval |-> i,
               expires |-> l] : c \in Categories, i \in Intervals, l \in Lifetimes}
  /\ plan = NoPlan
  /\ request = [gate |-> "none", requestedBy |-> NoOne, approvedBy |-> NoOne]

-----------------------------------------------------------------------------
(* evaluateKeyRotationPolicy                                               *)

Gone(k) == k.status \in {"revoked", "expired"}

IntervalFirst(k, t) ==   (* mutant: an imminent expiry is looked at last *)
  CASE Gone(k) -> "already_revoked"
    [] ~Gone(k) /\ k.interval # 0 /\ t - k.reference >= k.interval -> "rotation_recommended"
    [] ~Gone(k) /\ k.expires # 0 /\ k.expires - t <= 0 -> "immediate_rotation"
    [] OTHER -> "no_rotation_needed"

RotationPolicy(k, t) ==
  LET left == k.expires - t  since == t - k.reference IN
  IF Gone(k) THEN "already_revoked"
  ELSE IF k.expires # 0 /\ left <= 0 THEN "immediate_rotation"
  ELSE IF k.expires # 0 /\ left <= ImminentDays THEN "rotation_required"
  ELSE IF k.interval # 0 /\ 2 * since >= 3 * k.interval THEN "rotation_required"
  ELSE IF k.interval # 0 /\ since >= k.interval THEN "rotation_recommended"
  ELSE "no_rotation_needed"

Urgency ==
  [already_revoked |-> 0, no_rotation_needed |-> 0, rotation_recommended |-> 1,
   rotation_required |-> 2, immediate_rotation |-> 3]

(* summariseKeyLifecycle: the keys it flags; it counts the four statuses   *)
(* active, rotation_pending, revoked and expired.                          *)
ImmediateActionKeys(keys, t) ==
  {i \in DOMAIN keys : Urgency[RotationPolicy(keys[i], t)] >= 2}

CountOf(keys, status) == Cardinality({i \in DOMAIN keys : keys[i].status = status})

-----------------------------------------------------------------------------
(* buildRotationPlan                                                       *)

Step(does, blocking) == [does |-> does, blocking |-> blocking]

UnblockedInstall(category, trigger) ==   (* mutant: nobody waits for the new key *)
  <<Step("make", TRUE), Step("install", FALSE), Step("retire", TRUE)>>

(* buildStepsForCategory: "make" a new key, "install" it, "drain" what     *)
(* uses the old one, "retire" the old one, "check".                        *)
StepsFor(category, trigger) ==
  CASE category = "tee_enclave" ->
         <<Step("make", TRUE), Step("prepare", TRUE), Step("install", TRUE),
           Step("drain", FALSE), Step("retire", TRUE), Step("check", TRUE)>>
    [] category = "stellar_deployer" ->
         <<Step(IF trigger \in Compromise THEN "retire" ELSE "prepare", TRUE),
           Step("make", TRUE), Step("prepare", TRUE), Step("install", TRUE),
           Step("check", TRUE), Step("retire", FALSE)>>
    [] category = "oracle_provider" ->
         <<Step("make", TRUE), Step("prepare", TRUE), Step("install", TRUE),
           Step("drain", FALSE), Step("retire", TRUE), Step("check", FALSE)>>
    [] category = "api_key" ->
         <<Step("prepare", TRUE), Step("make", TRUE), Step("install", TRUE),
           Step("retire", TRUE)>>
    [] category = "ci_cd" ->
         <<Step("make", TRUE), Step("install", TRUE), Step("check", TRUE),
           Step("retire", FALSE)>>

TriggerOnly(category, trigger) == trigger \in Compromise   (* mutant: the category is forgotten *)

RequiresTwoPersons(category, trigger) == trigger \in Compromise \/ ~SingleApprover(category)

BuildRotationPlan(trigger) ==
  /\ plan = NoPlan
  /\ plan' = [trigger |-> trigger, steps |-> StepsFor(key.category, trigger), begun |-> {},
              done |-> {}, twoPersons |-> RequiresTwoPersons(key.category, trigger)]
  /\ UNCHANGED <<now, key, request>>

(* A step begins once every blocking step before it is done.               *)
BeginStep(i) ==
  /\ plan # NoPlan
  /\ i \in DOMAIN plan.steps \ plan.begun
  /\ \A j \in 1..(i - 1) : j \in plan.begun /\ (plan.steps[j].blocking => j \in plan.done)
  /\ plan' = [plan EXCEPT !.begun = @ \cup {i}]
  /\ UNCHANGED <<now, key, request>>

FinishAny(i) ==   (* mutant: a step is reported done before it begins *)
  /\ plan # NoPlan
  /\ i \in DOMAIN plan.steps \ plan.done
  /\ plan' = [plan EXCEPT !.done = @ \cup {i}]
  /\ UNCHANGED <<now, key, request>>

FinishStep(i) ==
  /\ plan # NoPlan
  /\ i \in plan.begun \ plan.done
  /\ plan' = [plan EXCEPT !.done = @ \cup {i}]
  /\ UNCHANGED <<now, key, request>>

(* The caller, all steps done: the record starts a new rotation window.    *)
Rotated ==
  /\ plan # NoPlan
  /\ plan.done = DOMAIN plan.steps
  /\ \E l \in Lifetimes :
       key' = [key EXCEPT !.reference = now, !.expires = IF l = 0 THEN 0 ELSE now + l]
  /\ plan' = NoPlan
  /\ UNCHANGED <<now, request>>

-----------------------------------------------------------------------------
(* evaluateEmergencyRevocation, and buildRevocationEvent by the caller.    *)

OneIsEnough(k, approvedBy) == FALSE   (* mutant: any requester is enough *)

(* Whether an approver is named: the test does not look at who asked, so   *)
(* that a person who names himself approves what he asked for.             *)
NeedsSecond(k, approvedBy) == ~SingleApprover(k.category) /\ approvedBy = NoOne

Gate(k, approvedBy, justified) ==
  IF ~justified THEN "missing_justification"
  ELSE IF Gone(k) THEN "already_revoked"
  ELSE IF NeedsSecond(k, approvedBy) THEN "requires_second_approver"
  ELSE "approved_single"

EvaluateEmergencyRevocation(requestedBy, approvedBy, justified) ==
  LET gate == Gate(key, approvedBy, justified) IN
  /\ request' = [gate |-> gate, requestedBy |-> requestedBy, approvedBy |-> approvedBy]
  /\ key' = IF gate = "approved_single" THEN [key EXCEPT !.status = "revoked"] ELSE key
  /\ UNCHANGED <<now, plan>>

(* The caller replaces the key, or lets it expire.                         *)
CallerSets(status) ==
  /\ key.status = "active"
  /\ key' = [key EXCEPT !.status = status]
  /\ UNCHANGED <<now, plan, request>>

KeyNext ==
  \/ Tick /\ UNCHANGED keyVars
  \/ \E trigger \in Triggers : BuildRotationPlan(trigger)
  \/ plan # NoPlan /\ \E i \in DOMAIN plan.steps : BeginStep(i) \/ FinishStep(i)
  \/ Rotated
  \/ \E requestedBy \in Persons, approvedBy \in Persons \cup {NoOne}, justified \in BOOLEAN :
       EvaluateEmergencyRevocation(requestedBy, approvedBy, justified)
  \/ \E s \in {"superseded", "expired"} : CallerSets(s)

KeySpec == KeyInit /\ [][KeyNext]_<<now, keyVars>>

-----------------------------------------------------------------------------
(* Properties.                                                             *)

(* Time alone never makes a key less urgent, however its interval and its  *)
(* expiry are placed against each other, and the summary flags it from the *)
(* day it is required on.                                                  *)
UrgencyOnlyGrows ==
  now' # now /\ key' = key =>
    /\ Urgency[RotationPolicy(key, now)] <= Urgency[RotationPolicy(key, now')]
    /\ 1 \in ImmediateActionKeys(<<key>>, now) => 1 \in ImmediateActionKeys(<<key>>, now')

StepsThat(does) == {i \in DOMAIN plan.steps : plan.steps[i].does = does}

(* With steps that need not be waited for: when the old key is retired     *)
(* the new one has been made and installed, but for the deployer key that  *)
(* is taken out at once when it is compromised; and then, or whenever the  *)
(* category asks for it, two persons carry the plan.                       *)
NeverWithoutKey ==
  plan # NoPlan =>
    /\ StepsThat("retire") \cap plan.begun # {} =>
         \/ key.category = "stellar_deployer" /\ plan.trigger \in Compromise
         \/ StepsThat("make") \cup StepsThat("install") \subseteq plan.done
    /\ plan.twoPersons \/ (key.category = "api_key" /\ plan.trigger = "scheduled")

(* A key whose procedure asks for a second approver is revoked in an       *)
(* emergency only by a request that names an approver, however many were   *)
(* turned away before, and a key that is revoked or has expired stays so.  *)
(* That the approver is another person is not promised: see                *)
(* TwoPersonsRevoke.                                                       *)
RevocationIsGated ==
  /\ key.status # "revoked" /\ key'.status = "revoked" =>
       request'.approvedBy # NoOne \/ key.category = "api_key"
  /\ key.status \in {"revoked", "expired"} => key'.status = key.status

(* What ADR-0015 says, "enforces two-person integrity for critical key     *)
(* categories": two persons stand behind such a revocation. It does not    *)
(* hold, and no run checks it: requestedBy is not compared with            *)
(* approvedBy.                                                             *)
TwoPersonsRevoke ==
  [][key.status # "revoked" /\ key'.status = "revoked" =>
       request'.approvedBy \notin {NoOne, request'.requestedBy} \/ key.category = "api_key"
    ]_<<now, keyVars>>

(* A rotation leaves no gap.                                               *)
RotationIsSafe == KeyTypeOK /\ NeverWithoutKey

(* Time takes back nothing that is due, and a revocation that needs an     *)
(* approver waits for one.                                                 *)
KeysAreGuarded == [][UrgencyOnlyGrows /\ RevocationIsGated]_<<now, keyVars>>

=============================================================================
