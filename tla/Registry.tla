------------------------------- MODULE Registry -------------------------------
(***************************************************************************)
(* The registry contract, contracts/registry/src/lib.rs: to the hashes of  *)
(* TeeHashes it adds the providers with their life cycle, applications,    *)
(* reputation, capacity and blacklist, the groups, and the proposals.      *)
(*                                                                         *)
(* Tier, name, website, regions and specializations are what a call sets   *)
(* and a query reads back; of them only remains that a call which writes   *)
(* them makes a ProviderInfo. verify_and_mint changes nothing here.        *)
(***************************************************************************)
EXTENDS TeeHashes

CONSTANTS
  Providers,         (* provider keys                                      *)
  GracePeriod,       (* PROVIDER_GRACE_PERIOD                              *)
  MaxScore,          (* REPUTATION_MAX_SCORE                               *)
  DecayPeriod,       (* REPUTATION_DECAY_PERIOD_SECS                       *)
  DecayAmount,       (* REPUTATION_DECAY_AMOUNT                            *)
  Limits,            (* the values of max_concurrent in use                *)
  Timelocks,         (* the values of timelock_ledgers in use              *)
  Thresholds,        (* the multisig thresholds in use                     *)
  MaxResults,        (* bound: recorded results of a provider              *)
  MaxApplications,   (* bound: applications                                *)
  MaxGroups,         (* bound: groups                                      *)
  MaxProposals       (* bound: proposals                                   *)

ASSUME RegistryConstants ==
  /\ GracePeriod \in Nat
  /\ MaxScore \in Nat /\ DecayAmount \in Nat
  /\ DecayPeriod \in Nat \ {0}
  /\ Limits \subseteq Nat \ {0}
  /\ Timelocks \subseteq Nat
  /\ Thresholds \subseteq Nat \ {0}
  /\ MaxResults \in Nat /\ MaxApplications \in Nat
  /\ MaxGroups \in Nat /\ MaxProposals \in Nat

VARIABLES
  registered,    (* the keys whose Provider entry is true                  *)
  info,          (* ProviderInfo: the status, "none" when it is absent     *)
  graceEnd,      (* the time in the status Deactivating                    *)
  list,          (* ProviderList                                           *)
  reputation,    (* ProviderReputation, known once seeded                  *)
  capacity,      (* ProviderCapacity, max 0 when it is absent              *)
  blacklist,     (* ProviderBlacklist                                      *)
  applications,  (* Application, by id + 1                                 *)
  members,       (* ProviderGroup: the members of the groups               *)
  groupsOf,      (* ProviderGroups                                         *)
  proposals,     (* Proposal and how many have approved it                 *)
  threshold,     (* MultisigThreshold                                      *)
  leaving        (* history: when a provider was last asked to leave       *)

lifeVars == <<registered, info, graceEnd, list, leaving>>
recordsVars == <<reputation, capacity, blacklist>>
groupVars == <<members, groupsOf>>
adminVars == <<applications, proposals, threshold>>
registryVars == <<now, teeVars, lifeVars, recordsVars, groupVars, adminVars>>

Reputation == [known : BOOLEAN, total : Nat, ok : Nat, score : Nat, at : Nat]

RegistryTypeOK ==
  /\ TeeTypeOK
  /\ registered \subseteq Providers
  /\ info \in [Providers -> {"none", "Active", "Deactivating", "Removed"}]
  /\ graceEnd \in [Providers -> Nat] /\ leaving \in [Providers -> Nat]
  /\ list \in Seq(Providers)
  /\ reputation \in [Providers -> Reputation]
  /\ capacity \in [Providers -> [max : Nat, active : Nat]]
  /\ blacklist \subseteq Providers
  /\ applications \in Seq([key : Providers, status : {"Pending", "Approved", "Rejected"}])
  /\ members \in Seq(Seq(Providers)) /\ groupsOf \in [Providers -> Seq(1..MaxGroups)]
  /\ proposals \in Seq([from : Nat, executed : BOOLEAN, approvals : 0..1])
  /\ threshold \in Thresholds \cup {1}

RegistryInit ==
  /\ TeeInit
  /\ registered = {} /\ list = <<>> /\ blacklist = {}
  /\ info = [p \in Providers |-> "none"]
  /\ graceEnd = [p \in Providers |-> 0] /\ leaving = [p \in Providers |-> 0]
  /\ reputation = [p \in Providers |->
       [known |-> FALSE, total |-> 0, ok |-> 0, score |-> 0, at |-> 0]]
  /\ capacity = [p \in Providers |-> [max |-> 0, active |-> 0]]
  /\ applications = <<>>
  /\ members = <<>> /\ groupsOf = [p \in Providers |-> <<>>]
  /\ proposals = <<>> /\ threshold = 1

-----------------------------------------------------------------------------
(* Providers.                                                              *)

Reactivated(p) == [info EXCEPT ![p] = "Active"]   (* mutant: a provider comes back as active *)

(* A ProviderInfo that exists keeps its status.                            *)
Introduced(p) == [info EXCEPT ![p] = IF @ = "none" THEN "Active" ELSE @]

Relisted(p) == Append(list, p)   (* mutant: listed whenever it is added *)

ListedWithInfo(p) == IF info[p] = "none" THEN Append(list, p) ELSE list

Seeded(p) ==
  IF reputation[p].known THEN reputation
  ELSE [reputation EXCEPT ![p] =
         [known |-> TRUE, total |-> 0, ok |-> 0, score |-> MaxScore \div 2, at |-> now]]

(* add_provider_internal, the part add_provider and an approval share.     *)
AddProviderInternal(p) ==
  /\ registered' = registered \cup {p}
  /\ info' = Introduced(p)
  /\ list' = ListedWithInfo(p)
  /\ reputation' = Seeded(p)
  /\ UNCHANGED <<now, teeVars, graceEnd, leaving, capacity, blacklist, groupVars>>

AddProvider(p) == AddProviderInternal(p) /\ UNCHANGED adminVars

(* set_provider_tier does not ask whether the provider is registered;      *)
(* set_provider_metadata writes the same record for registered ones.       *)
SetProviderTier(p) ==
  /\ info' = Introduced(p)
  /\ UNCHANGED <<now, teeVars, registered, graceEnd, leaving, list, recordsVars, groupVars,
                 adminVars>>

DeactivateProvider(p) ==
  /\ info' = [info EXCEPT ![p] = "Deactivating"]
  /\ graceEnd' = [graceEnd EXCEPT ![p] = now + GracePeriod]
  /\ leaving' = [leaving EXCEPT ![p] = now]
  /\ UNCHANGED <<now, teeVars, registered, list, recordsVars, groupVars, adminVars>>

AnyTime(p) == TRUE   (* mutant: the grace period is not waited for *)

GraceOver(p) == now >= graceEnd[p]

FinalizeRemoval(p) ==
  /\ info[p] = "Deactivating"
  /\ GraceOver(p)
  /\ info' = [info EXCEPT ![p] = "Removed"]
  /\ UNCHANGED <<now, teeVars, registered, graceEnd, leaving, list, recordsVars, groupVars,
                 adminVars>>

IsProvider(p) == p \in registered /\ p \notin blacklist /\ info[p] # "Removed"

CanAcceptNewRequests(p) == info[p] = "Active"

LifeCall(p) ==
  AddProvider(p) \/ SetProviderTier(p) \/ DeactivateProvider(p) \/ FinalizeRemoval(p)

-----------------------------------------------------------------------------
(* Reputation, capacity and blacklist.                                     *)

ShareOfAll(r) ==   (* mutant: the share before this result *)
  IF r.total <= 1 THEN MaxScore ELSE (r.ok * MaxScore) \div (r.total - 1)

Share(r) == (r.ok * MaxScore) \div r.total

RecordVerificationResult(p, ok) ==
  LET r == [reputation[p] EXCEPT !.total = @ + 1, !.ok = IF ok THEN @ + 1 ELSE @, !.at = now]
  IN
  /\ reputation[p].known
  /\ reputation[p].total < MaxResults
  /\ reputation' = [reputation EXCEPT ![p] = [r EXCEPT !.score = Share(r)]]
  /\ UNCHANGED <<now, teeVars, lifeVars, capacity, blacklist, groupVars, adminVars>>

Less(score, decay) == IF score > decay THEN score - decay ELSE 0

(* The whole time since the last update is used up, the part of a period   *)
(* left over included.                                                     *)
ApplyReputationDecay(p) ==
  LET periods == (now - reputation[p].at) \div DecayPeriod IN
  /\ reputation[p].known
  /\ periods > 0
  /\ reputation' = [reputation EXCEPT
       ![p].score = Less(@, DecayAmount * periods), ![p].at = now]
  /\ UNCHANGED <<now, teeVars, lifeVars, capacity, blacklist, groupVars, adminVars>>

UnknownCapacity(p) == TRUE   (* mutant: capacity for a key nobody registered *)

KnownProvider(p) == p \in registered

SetProviderCapacity(p, max) ==
  /\ KnownProvider(p)
  /\ capacity' = [capacity EXCEPT ![p].max = max]
  /\ UNCHANGED <<now, teeVars, lifeVars, reputation, blacklist, groupVars, adminVars>>

IncrementActiveRequests(p) ==
  /\ capacity[p].active < capacity[p].max
  /\ capacity' = [capacity EXCEPT ![p].active = @ + 1]
  /\ UNCHANGED <<now, teeVars, lifeVars, reputation, blacklist, groupVars, adminVars>>

(* saturating_sub: releasing more than was reserved is not an error.       *)
DecrementActiveRequests(p) ==
  /\ capacity[p].max # 0
  /\ capacity' = [capacity EXCEPT ![p].active = Less(@, 1)]
  /\ UNCHANGED <<now, teeVars, lifeVars, reputation, blacklist, groupVars, adminVars>>

BlacklistProvider(p) ==
  /\ blacklist' = blacklist \cup {p}
  /\ UNCHANGED <<now, teeVars, lifeVars, reputation, capacity, groupVars, adminVars>>

WhitelistProvider(p) ==
  /\ p \in blacklist
  /\ blacklist' = blacklist \ {p}
  /\ UNCHANGED <<now, teeVars, lifeVars, reputation, capacity, groupVars, adminVars>>

RecordsCall(p) ==
  \/ \E ok \in BOOLEAN : RecordVerificationResult(p, ok)
  \/ ApplyReputationDecay(p)
  \/ \E max \in Limits : SetProviderCapacity(p, max)
  \/ IncrementActiveRequests(p) \/ DecrementActiveRequests(p)
  \/ BlacklistProvider(p) \/ WhitelistProvider(p)

-----------------------------------------------------------------------------
(* Groups.                                                                 *)

CreateProviderGroup ==
  /\ Len(members) < MaxGroups
  /\ members' = Append(members, <<>>)
  /\ UNCHANGED <<now, teeVars, lifeVars, recordsVars, groupsOf, adminVars>>

AddProviderToGroup(g, p) ==
  /\ KnownProvider(p)
  /\ p \notin Range(members[g])
  /\ members' = [members EXCEPT ![g] = Append(@, p)]
  /\ groupsOf' = [groupsOf EXCEPT ![p] = With(@, g)]
  /\ UNCHANGED <<now, teeVars, lifeVars, recordsVars, adminVars>>

StillInGroups(g, p) == groupsOf   (* mutant: the reverse index is forgotten *)

GroupLeft(g, p) == [groupsOf EXCEPT ![p] = Without(@, g)]

RemoveProviderFromGroup(g, p) ==
  /\ members' = [members EXCEPT ![g] = Without(@, p)]
  /\ groupsOf' = GroupLeft(g, p)
  /\ UNCHANGED <<now, teeVars, lifeVars, recordsVars, adminVars>>

-----------------------------------------------------------------------------
(* Applications and proposals.                                             *)

SubmitProviderApplication(p) ==
  /\ Len(applications) < MaxApplications
  /\ applications' = Append(applications, [key |-> p, status |-> "Pending"])
  /\ UNCHANGED <<now, teeVars, lifeVars, recordsVars, groupVars, proposals, threshold>>

(* Nothing asks whether the application is still pending.                  *)
ReviewApplication(a, approve) ==
  /\ applications' = [applications EXCEPT
       ![a].status = IF approve THEN "Approved" ELSE "Rejected"]
  /\ UNCHANGED <<proposals, threshold>>
  /\ IF approve
     THEN AddProviderInternal(applications[a].key)
     ELSE UNCHANGED <<now, teeVars, lifeVars, recordsVars, groupVars>>

UpdateMultisigThreshold(t) ==
  /\ threshold' = t
  /\ UNCHANGED <<now, teeVars, lifeVars, recordsVars, groupVars, applications, proposals>>

ProposeOperation(timelock) ==
  /\ Len(proposals) < MaxProposals
  /\ proposals' = Append(proposals,
       [from |-> now + timelock, executed |-> FALSE, approvals |-> 0])
  /\ UNCHANGED <<now, teeVars, lifeVars, recordsVars, groupVars, applications, threshold>>

EveryApproval(i) == TRUE   (* mutant: an address approves again and again *)

NewApproval(i) == proposals[i].approvals = 0

(* Only the stored admin approves; a second approval of the same address   *)
(* changes nothing.                                                        *)
ApproveProposal(i) ==
  /\ ~proposals[i].executed
  /\ NewApproval(i)
  /\ proposals' = [proposals EXCEPT ![i].approvals = @ + 1]
  /\ UNCHANGED <<now, teeVars, lifeVars, recordsVars, groupVars, applications, threshold>>

TimelockUnwatched(i) == proposals[i].approvals >= threshold   (* mutant: the timelock *)

Executable(i) == now >= proposals[i].from /\ proposals[i].approvals >= threshold

(* The operation itself is not carried out.                                *)
ExecuteProposal(i) ==
  /\ ~proposals[i].executed
  /\ Executable(i)
  /\ proposals' = [proposals EXCEPT ![i].executed = TRUE]
  /\ UNCHANGED <<now, teeVars, lifeVars, recordsVars, groupVars, applications, threshold>>

AdminCall ==
  \/ \E a \in DOMAIN applications, approve \in BOOLEAN : ReviewApplication(a, approve)
  \/ \E t \in Thresholds : UpdateMultisigThreshold(t)
  \/ \E l \in Timelocks : ProposeOperation(l)
  \/ \E i \in DOMAIN proposals : ApproveProposal(i) \/ ExecuteProposal(i)

-----------------------------------------------------------------------------

RegistryCall(p) ==
  \/ LifeCall(p) \/ RecordsCall(p)
  \/ SubmitProviderApplication(p)
  \/ \E g \in DOMAIN members : AddProviderToGroup(g, p) \/ RemoveProviderFromGroup(g, p)

TeeStep ==
  /\ Tick \/ \E h \in Hashes : TeeCall(h)
  /\ UNCHANGED <<lifeVars, recordsVars, groupVars, adminVars>>

RegistryNext ==
  \/ TeeStep
  \/ \E p \in Providers : RegistryCall(p)
  \/ CreateProviderGroup
  \/ AdminCall

RegistrySpec == RegistryInit /\ [][RegistryNext]_registryVars

-----------------------------------------------------------------------------
(* Properties.                                                             *)

(* A provider that has begun to leave never takes new requests again:      *)
(* adding it again, approving another application of it, and changing its  *)
(* tier all keep the status it has.                                        *)
LeavingIsFinal ==
  \A p \in Providers :
    info[p] \in {"Deactivating", "Removed"} => ~CanAcceptNewRequests(p)'

(* Removal completes a grace period counted from the last request to       *)
(* leave, whatever happened to the provider in between.                    *)
GraceIsGranted ==
  \A p \in Providers : info[p] = "Removed" => now >= leaving[p] + GracePeriod

(* What the queries over ProviderList find: each listed provider is        *)
(* registered and listed once, and what is kept per provider (reputation,  *)
(* capacity, groups, an approved application) is kept for registered ones. *)
ListedAreRegistered ==
  /\ Range(list) \subseteq registered /\ IsInjective(list)
  /\ \A p \in Providers \ registered :
       /\ ~reputation[p].known /\ capacity[p].max = 0 /\ groupsOf[p] = <<>>
       /\ \A a \in DOMAIN applications :
            applications[a].key = p => applications[a].status # "Approved"

(* Docs say of get_providers_by_tier that it lists "every registered       *)
(* provider whose tier matches", which needs every one to be listed. The   *)
(* code does not keep this, so no run checks it (see the README).          *)
RegisteredAreListed == registered \subseteq Range(list)

(* The score of a provider is at most its share of successes, however      *)
(* results and decays alternate; without results, at most the seed.        *)
ScoreIsEarned ==
  \A p \in Providers :
    LET r == reputation[p] IN
    r.score <= IF r.total = 0 THEN MaxScore \div 2 ELSE (r.ok * MaxScore) \div r.total

(* Groups and providers agree on who is a member of what, each list        *)
(* without repetition.                                                     *)
GroupsAgree ==
  /\ \A g \in DOMAIN members :
       IsInjective(members[g]) /\ Range(members[g]) = {p \in Providers : g \in Range(groupsOf[p])}
  /\ \A p \in Providers :
       IsInjective(groupsOf[p]) /\ Range(groupsOf[p]) \subseteq DOMAIN members

(* A proposal is executed once, after its timelock and approved by at      *)
(* least one; a threshold of two or more admits none.                      *)
ExecutionIsGated ==
  \A i \in DOMAIN proposals :
    /\ proposals[i].executed => proposals'[i] = proposals[i]
    /\ proposals'[i].executed /\ ~proposals[i].executed =>
         now >= proposals[i].from /\ threshold = 1 /\ proposals[i].approvals = 1

(* The records of providers agree with each other and with what happened.  *)
ProvidersAgree ==
  RegistryTypeOK /\ ListedAreRegistered /\ GroupsAgree /\ GraceIsGranted /\ ScoreIsEarned

(* What was decided stands: who left does not come back, and a proposal is *)
(* executed once, when it may be, and a rotated hash stays rejected.       *)
DecisionsStand == [][RotatedStaysRejected /\ LeavingIsFinal /\ ExecutionIsGated]_registryVars

=============================================================================
