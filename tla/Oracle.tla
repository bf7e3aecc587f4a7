-------------------------------- MODULE Oracle --------------------------------
(***************************************************************************)
(* The oracle contract as a whole, contracts/oracle/src/lib.rs: to the     *)
(* providers of OracleProviders it adds verification requests with their   *)
(* state index, expiry and archive, the stakes of providers with their     *)
(* withdrawals, and the disputes whose verdicts reach into both stakes and *)
(* metrics.                                                                *)
(*                                                                         *)
(* Who may make a call is left out: the caller of an action is whoever the *)
(* contract requires. A temporary entry outlives its time to live by an    *)
(* unknown number of ledgers, as the network's minimum may be longer.      *)
(***************************************************************************)
EXTENDS OracleProviders

CONSTANTS
  Ttls,                (* the TTLs configured for the priorities           *)
  BatchLimit,          (* requests of one submit_batch_request             *)
  ArchivalThreshold,   (* ARCHIVAL_THRESHOLD_LEDGERS                       *)
  WithdrawalCooldown,  (* WITHDRAWAL_COOLDOWN_LEDGERS                      *)
  MinimumStake,        (* MINIMUM_STAKE                                    *)
  Amounts,             (* amounts deposited, withdrawn and slashed         *)
  Penalties,           (* reputation penalties of verdicts                 *)
  Packages,            (* hashes of evidence packages                      *)
  MaxAnchors,          (* MAX_EVIDENCE_ANCHORS                             *)
  MaxRequests,         (* bound: request ids                               *)
  MaxDisputes,         (* bound: dispute ids                               *)
  MaxDeposit           (* bound: the total a provider deposits             *)

ASSUME OracleConstants ==
  /\ Ttls \subseteq Nat \ {0}
  /\ BatchLimit \in Nat
  /\ ArchivalThreshold \in Nat
  /\ WithdrawalCooldown \in Nat
  /\ MinimumStake \in Nat
  /\ Amounts \subseteq Nat
  /\ Penalties \subseteq Nat
  /\ MaxAnchors \in Nat
  /\ MaxRequests \in Nat
  /\ MaxDisputes \in Nat
  /\ MaxDeposit \in Nat

VARIABLES
  paused,        (* the circuit breaker                                    *)
  nextId,        (* NextRequestId, the last id given out                   *)
  live,          (* the state of each live request                         *)
  deadline,      (* RequestExpiresAtLedger                                 *)
  index,         (* RequestsByState                                        *)
  archived,      (* the state of each archived request                     *)
  lastArchival,  (* LastArchivalLedger                                     *)
  stake,         (* ProviderStake: the amount                              *)
  withdrawal,    (* ProviderWithdrawalCooldown                             *)
  disputes,      (* Dispute, by id                                         *)
  evidence,      (* DisputeEvidence, by dispute id                         *)
  deposited,     (* history: paid in by a provider                         *)
  paid,          (* history: paid out to a provider                        *)
  slashed,       (* history: taken from a provider                         *)
  failures       (* history: failures reported of a provider               *)

requestVars == <<paused, nextId, live, deadline, index, archived, lastArchival>>
stakeVars == <<stake, withdrawal, deposited, paid, slashed>>
disputeVars == <<disputes, evidence>>
vars == <<providerVars, requestVars, stakeVars, disputeVars, failures>>

(* No operation of the contract sets Verified or Rejected.                 *)
RequestStates == {"Pending", "Cancelled"}

Ids == 1..MaxRequests

NoStake == [amount |-> 0, held |-> FALSE]   (* no ProviderStake entry      *)

NoWithdrawal == [until |-> 0, amount |-> 0, open |-> FALSE]

Dispute ==
  [request : Ids, provider : Providers, state : {"Open", "Resolved", "Dismissed"},
   fault : BOOLEAN, penalty : Nat]

TypeOK ==
  /\ ProvidersTypeOK
  /\ paused \in BOOLEAN
  /\ nextId \in 0..MaxRequests
  /\ live \in [Ids -> RequestStates \cup {"absent"}]
  /\ deadline \in [Ids -> Nat]
  /\ index \in [RequestStates -> Seq(Ids)]
  /\ archived \in [Ids -> RequestStates \cup {"absent"}]
  /\ lastArchival \in Nat
  /\ stake \in [Providers -> [amount : Nat, held : BOOLEAN]]
  /\ withdrawal \in [Providers -> [until : Nat, amount : Nat, open : BOOLEAN]]
  /\ disputes \in Seq(Dispute)
  /\ evidence \in Seq(Seq(Packages))
  /\ deposited \in [Providers -> Nat]
  /\ paid \in [Providers -> Nat]
  /\ slashed \in [Providers -> Nat]
  /\ failures \in [Providers -> Nat]

Init ==
  /\ ProvidersInit
  /\ paused = FALSE
  /\ nextId = 0
  /\ live = [i \in Ids |-> "absent"]
  /\ deadline = [i \in Ids |-> 0]
  /\ index = [s \in RequestStates |-> <<>>]
  /\ archived = [i \in Ids |-> "absent"]
  /\ lastArchival = 0
  /\ stake = [p \in Providers |-> NoStake]
  /\ withdrawal = [p \in Providers |-> NoWithdrawal]
  /\ disputes = <<>>
  /\ evidence = <<>>
  /\ deposited = [p \in Providers |-> 0]
  /\ paid = [p \in Providers |-> 0]
  /\ slashed = [p \in Providers |-> 0]
  /\ failures = [p \in Providers |-> 0]

-----------------------------------------------------------------------------
(* Requests.                                                               *)

SetPaused(flag) ==
  /\ paused' = flag
  /\ UNCHANGED <<providerVars, nextId, live, deadline, index, archived, lastArchival,
                 stakeVars, disputeVars, failures>>

(* One pending request for each TTL of a batch, under consecutive ids.     *)
SubmitBatch(ttls) ==
  LET new == (nextId + 1)..(nextId + Len(ttls)) IN
  /\ Len(ttls) <= BatchLimit
  /\ ~paused
  /\ nextId + Len(ttls) <= MaxRequests
  /\ nextId' = nextId + Len(ttls)
  /\ live' = [i \in Ids |-> IF i \in new THEN "Pending" ELSE live[i]]
  /\ deadline' = [i \in Ids |-> IF i \in new THEN ledger + ttls[i - nextId] ELSE deadline[i]]
  /\ index' = [index EXCEPT !["Pending"] = @ \o [k \in 1..Len(ttls) |-> nextId + k]]
  /\ UNCHANGED <<providerVars, paused, archived, lastArchival, stakeVars, disputeVars, failures>>

(* submit_request: create_pending_request does the same for one.           *)
SubmitRequest(ttl) == SubmitBatch(<<ttl>>)

AlsoIndexed(from, to, i) ==   (* mutant: the old entry is left behind *)
  [index EXCEPT ![to] = Append(@, i)]

Reindexed(from, to, i) ==
  [index EXCEPT ![from] = Without(@, i), ![to] = Append(@, i)]

CancelRequest(i) ==
  /\ live[i] = "Pending"
  /\ live' = [live EXCEPT ![i] = "Cancelled"]
  /\ index' = Reindexed("Pending", "Cancelled", i)
  /\ UNCHANGED <<providerVars, paused, nextId, deadline, archived, lastArchival,
                 stakeVars, disputeVars, failures>>

(* The network drops the temporary entry; the contract is not told.        *)
RequestExpires(i) ==
  /\ live[i] # "absent"
  /\ ledger > deadline[i]
  /\ live' = [live EXCEPT ![i] = "absent"]
  /\ UNCHANGED <<providerVars, paused, nextId, deadline, index, archived, lastArchival,
                 stakeVars, disputeVars, failures>>

(* Every live request is copied and removed, whatever its state.           *)
ArchivedSkippingLast(i) ==   (* mutant: 1..next_id for 1..=next_id *)
  IF live[i] # "absent" /\ i < nextId THEN live[i] ELSE archived[i]

Archived(i) == IF live[i] # "absent" THEN live[i] ELSE archived[i]

ArchiveOldRequests ==
  /\ ledger >= lastArchival + ArchivalThreshold
  /\ archived' = [i \in Ids |-> Archived(i)]
  /\ live' = [i \in Ids |-> "absent"]
  /\ lastArchival' = ledger
  /\ UNCHANGED <<providerVars, paused, nextId, deadline, index, stakeVars, disputeVars, failures>>

-----------------------------------------------------------------------------
(* Stakes.                                                                 *)

DepositStake(p, amount) ==
  /\ amount >= MinimumStake
  /\ deposited[p] + amount <= MaxDeposit
  /\ stake' = [stake EXCEPT ![p] = [amount |-> @.amount + amount, held |-> TRUE]]
  /\ deposited' = [deposited EXCEPT ![p] = @ + amount]
  /\ UNCHANGED <<providerVars, requestVars, withdrawal, paid, slashed, disputeVars, failures>>

WithdrawableFromAny(p, amount) == stake[p].held   (* mutant: the amount is not checked *)

Withdrawable(p, amount) == stake[p].held /\ amount <= stake[p].amount

StakeKept(p, amount) == stake   (* mutant: the amount stays staked *)

StakeLess(p, amount) == [stake EXCEPT ![p].amount = @ - amount]

(* The amount leaves the stake at once; the entry of an earlier withdrawal *)
(* is overwritten.                                                         *)
InitiateWithdrawal(p, amount) ==
  /\ Withdrawable(p, amount)
  /\ stake' = StakeLess(p, amount)
  /\ withdrawal' = [withdrawal EXCEPT ![p] =
       [until |-> ledger + WithdrawalCooldown, amount |-> amount, open |-> TRUE]]
  /\ UNCHANGED <<providerVars, requestVars, deposited, paid, slashed, disputeVars, failures>>

CompleteWithdrawal(p) ==
  /\ withdrawal[p].open
  /\ ledger >= withdrawal[p].until
  /\ withdrawal' = [withdrawal EXCEPT ![p] = NoWithdrawal]
  /\ paid' = [paid EXCEPT ![p] = @ + withdrawal[p].amount]
  /\ UNCHANGED <<providerVars, requestVars, stake, deposited, slashed, disputeVars, failures>>

(* At most the whole stake is taken, and nothing that is being withdrawn.  *)
Slash(p, amount) ==
  LET taken == IF stake[p].amount >= amount THEN amount ELSE stake[p].amount IN
  /\ stake' = [stake EXCEPT ![p] = [amount |-> @.amount - taken, held |-> TRUE]]
  /\ slashed' = [slashed EXCEPT ![p] = @ + taken]

SlashStake(p, amount) ==
  /\ stake[p].held
  /\ Slash(p, amount)
  /\ UNCHANGED <<providerVars, requestVars, withdrawal, deposited, paid, disputeVars, failures>>

-----------------------------------------------------------------------------
(* Disputes.                                                               *)

FileDispute(i, p) ==
  /\ live[i] # "absent"
  /\ Len(disputes) < MaxDisputes
  /\ disputes' = Append(disputes, [request |-> i, provider |-> p, state |-> "Open",
                                   fault |-> FALSE, penalty |-> 0])
  /\ evidence' = Append(evidence, <<>>)
  /\ UNCHANGED <<providerVars, requestVars, stakeVars, failures>>

(* resolve_dispute: a verdict against the provider adds synthetic failures *)
(* to its metrics and slashes its stake.                                   *)
SyntheticFailures(penalty) == penalty \div 10

OpenOrResolved(d) == disputes[d].state # "Dismissed"   (* mutant: decided once more *)

Undecided(d) == disputes[d].state = "Open"

ResolveDispute(d, fault, penalty, amount) ==
  LET p == disputes[d].provider
      n == IF fault THEN SyntheticFailures(penalty) ELSE 0
  IN
  /\ Undecided(d)
  /\ disputes' = [disputes EXCEPT ![d].state = "Resolved", ![d].fault = fault,
                                  ![d].penalty = penalty]
  /\ metrics' = [metrics EXCEPT ![p].failed = @ + n, ![p].total = @ + n]
  /\ IF fault /\ amount > 0 THEN Slash(p, amount) ELSE UNCHANGED <<stake, slashed>>
  /\ UNCHANGED <<ledger, registryVars, lastFailure, slaVars, requestVars,
                 withdrawal, deposited, paid, evidence, failures>>
  /\ Recount

DismissDispute(d) ==
  /\ Undecided(d)
  /\ disputes' = [disputes EXCEPT ![d].state = "Dismissed"]
  /\ UNCHANGED <<providerVars, requestVars, stakeVars, evidence, failures>>

(* anchor_dispute_evidence: the limit comes before the look for the same   *)
(* package, which is then not anchored again.                              *)
AnchoredAgain(list0, h) == Append(list0, h)   (* mutant: not idempotent *)

Anchored(list0, h) == IF h \in Range(list0) THEN list0 ELSE Append(list0, h)

AnchorDisputeEvidence(d, h) ==
  /\ Len(evidence[d]) < MaxAnchors
  /\ evidence' = [evidence EXCEPT ![d] = Anchored(@, h)]
  /\ UNCHANGED <<providerVars, requestVars, stakeVars, disputes, failures>>

-----------------------------------------------------------------------------

(* A call or a ledger close of OracleProviders, with the history it makes. *)
ProviderStep ==
  /\ ProviderCall \/ LedgerCloses
  /\ failures' = [p \in Providers |-> failures[p] + (metrics'[p].failed - metrics[p].failed)]
  /\ UNCHANGED <<requestVars, stakeVars, disputeVars>>

RequestStep ==
  \/ \E flag \in BOOLEAN : SetPaused(flag)
  \/ \E ttl \in Ttls : SubmitRequest(ttl)
  \/ \E n \in 2..BatchLimit : \E ttls \in [1..n -> Ttls] : SubmitBatch(ttls)
  \/ \E i \in Ids : CancelRequest(i) \/ RequestExpires(i)
  \/ ArchiveOldRequests

StakeStep(p) ==
  \/ \E amount \in Amounts :
       DepositStake(p, amount) \/ InitiateWithdrawal(p, amount) \/ SlashStake(p, amount)
  \/ CompleteWithdrawal(p)

DisputeStep(d) ==
  \/ \E fault \in BOOLEAN, penalty \in Penalties, amount \in Amounts :
       ResolveDispute(d, fault, penalty, amount)
  \/ DismissDispute(d)
  \/ \E h \in Packages : AnchorDisputeEvidence(d, h)

Next ==
  \/ ProviderStep
  \/ RequestStep
  \/ \E p \in Providers : StakeStep(p) \/ \E i \in Ids : FileDispute(i, p)
  \/ \E d \in DOMAIN disputes : DisputeStep(d)

Spec == Init /\ [][Next]_vars

-----------------------------------------------------------------------------
(* Properties.                                                             *)

Occurrences(i, s) == {k \in DOMAIN index[s] : index[s][k] = i}

(* The state index follows the requests: each id ever given out stands in  *)
(* exactly one place of the index, and a live request under its own state, *)
(* through batches, cancellations, expiry and archiving.                   *)
RequestIndexExact ==
  \A i \in 1..nextId :
    /\ \A s \in RequestStates : live[i] = s => Occurrences(i, s) # {}
    /\ Cardinality(UNION {{s} \X Occurrences(i, s) : s \in RequestStates}) = 1

(* No request is lost before its time: each id given out is live, or in    *)
(* the archive, or past the expiry the contract recorded for it, and no    *)
(* request is both live and archived.                                      *)
RequestsAccountedFor ==
  \A i \in 1..nextId :
    /\ live[i] = "absent" \/ archived[i] = "absent"
    /\ live[i] = "absent" /\ archived[i] = "absent" => ledger > deadline[i]

(* What the contract still owes a provider.                                *)
Owed(p) == stake[p].amount + withdrawal[p].amount

(* No stake is paid out or slashed twice: what is staked, being withdrawn, *)
(* paid out and slashed never exceeds what the provider has deposited,     *)
(* with slashing, verdicts and withdrawals in any order.                   *)
PayoutsCovered == \A p \in Providers : Owed(p) + paid[p] + slashed[p] <= deposited[p]

(* glossary.md on withdrawals: the amount "cannot be recovered until       *)
(* complete_withdrawal is called after the cooldown elapses"; it can be    *)
(* recovered then, so no part of a deposit is ever lost.                   *)
StakeConserved == \A p \in Providers : Owed(p) + paid[p] + slashed[p] = deposited[p]

(* The synthetic failures of the verdicts against a provider.              *)
Sentenced(p) ==
  SumOf([d \in DOMAIN disputes |->
           IF disputes[d].provider = p /\ disputes[d].fault
           THEN SyntheticFailures(disputes[d].penalty) ELSE 0],
        Len(disputes))

(* Each verdict counts once: the failures in a provider's metrics are the  *)
(* ones reported and those of the recorded verdicts against it, so no      *)
(* dispute is decided twice.                                               *)
FailuresExplained == \A p \in Providers : metrics[p].failed = failures[p] + Sentenced(p)

(* A package submitted again is not anchored again, and anchors stay below *)
(* their limit.                                                            *)
AnchorsDistinct ==
  \A d \in DOMAIN evidence :
    /\ Len(evidence[d]) <= MaxAnchors
    /\ Len(evidence[d]) = Cardinality(Range(evidence[d]))

(* The records of the contract agree with each other and with what was     *)
(* reported to it.                                                         *)
RecordsAgree == TypeOK /\ RequestIndexExact /\ FailuresExplained /\ AnchorsDistinct

=============================================================================
