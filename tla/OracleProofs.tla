----------------------------- MODULE OracleProofs -----------------------------
(***************************************************************************)
(* Proofs about the oracle contract: no provider is paid or slashed beyond *)
(* its deposits, every request is accounted for, and the uptime figure     *)
(* never flatters. Each rests on the types of the few variables it is      *)
(* about, which are part of the inductive invariant.                       *)
(***************************************************************************)
EXTENDS Oracle, ListProofs

-----------------------------------------------------------------------------
(* Stakes.                                                                 *)

StakeTypes ==
  /\ ledger \in Nat
  /\ stake \in [Providers -> [amount : Nat, held : BOOLEAN]]
  /\ withdrawal \in [Providers -> [until : Nat, amount : Nat, open : BOOLEAN]]
  /\ deposited \in [Providers -> Nat]
  /\ paid \in [Providers -> Nat]
  /\ slashed \in [Providers -> Nat]

StakeInv == StakeTypes /\ PayoutsCovered

(* No call changes the ledger, and ledgers only move on.                   *)
LEMMA LedgerGrows ==
  ASSUME ledger \in Nat, ProviderCall \/ LedgerCloses
  PROVE  ledger' \in Nat /\ ledger' >= ledger
<1>1. CASE ProviderCall
  <2>1. UNCHANGED ledger
    BY <1>1 DEF ProviderCall, GetNextAvailableProvider, AddProvider, RemoveProvider,
                RecordSuccess, RecordFailure, SetProviderSLA, RecordVerification,
                ReinstateProvider
  <2> QED BY <2>1
<1>2. CASE LedgerCloses
  BY <1>2 DEF LedgerCloses
<1> QED BY <1>1, <1>2

(* Nothing about stakes changes.                                           *)
LEMMA StakeUntouched ==
  ASSUME StakeInv, UNCHANGED stakeVars, ledger' \in Nat
  PROVE  StakeInv'
BY DEF StakeInv, StakeTypes, PayoutsCovered, Owed, stakeVars

(* Slashing moves at most the stake from what is owed to what was slashed. *)
LEMMA SlashKeeps ==
  ASSUME StakeInv, NEW p, NEW amount \in Nat, Slash(p, amount),
         UNCHANGED <<ledger, withdrawal, deposited, paid>>
  PROVE  StakeInv'
<1> DEFINE taken == IF stake[p].amount >= amount THEN amount ELSE stake[p].amount
<1>1. ASSUME NEW q \in Providers
      PROVE  /\ stake'[q] \in [amount : Nat, held : BOOLEAN]
             /\ slashed'[q] \in Nat
             /\ stake'[q].amount + slashed'[q] = stake[q].amount + slashed[q]
  <2>1. CASE q = p
    <3>1. /\ stake[q].amount \in Nat /\ slashed[q] \in Nat
          /\ taken \in Nat /\ taken <= stake[q].amount
      BY <2>1 DEF StakeInv, StakeTypes
    <3>2. /\ stake'[q] = [amount |-> stake[q].amount - taken, held |-> TRUE]
          /\ slashed'[q] = slashed[q] + taken
      BY <2>1 DEF Slash, StakeInv, StakeTypes
    <3> QED BY <3>1, <3>2
  <2>2. CASE q # p
    BY <2>2 DEF Slash, StakeInv, StakeTypes
  <2> QED BY <2>1, <2>2
<1>2. /\ stake' = [q \in Providers |-> stake'[q]]
      /\ slashed' = [q \in Providers |-> slashed'[q]]
  BY DEF Slash, StakeInv, StakeTypes
<1>3. StakeTypes'
  BY <1>1, <1>2 DEF StakeInv, StakeTypes
<1>4. ASSUME NEW q \in Providers
      PROVE  (Owed(q) + paid[q] + slashed[q] <= deposited[q])'
  <2>1. /\ stake[q].amount \in Nat /\ slashed[q] \in Nat /\ withdrawal[q].amount \in Nat
        /\ paid[q] \in Nat /\ deposited[q] \in Nat /\ stake'[q].amount \in Nat
        /\ slashed'[q] \in Nat
    BY <1>1 DEF StakeInv, StakeTypes
  <2>2. stake[q].amount + withdrawal[q].amount + paid[q] + slashed[q] <= deposited[q]
    BY DEF StakeInv, PayoutsCovered, Owed
  <2> QED BY <1>1, <2>1, <2>2 DEF Owed
<1> QED BY <1>3, <1>4 DEF StakeInv, PayoutsCovered

LEMMA StakeCallKeeps ==
  ASSUME StakeInv, NEW p \in Providers, StakeStep(p)
  PROVE  StakeInv'
<1> USE OracleConstants
<1>0. /\ ledger \in Nat
      /\ \A q \in Providers :
           /\ stake[q] \in [amount : Nat, held : BOOLEAN]
           /\ withdrawal[q] \in [until : Nat, amount : Nat, open : BOOLEAN]
           /\ deposited[q] \in Nat /\ paid[q] \in Nat /\ slashed[q] \in Nat
           /\ stake[q].amount + withdrawal[q].amount + paid[q] + slashed[q] <= deposited[q]
  BY DEF StakeInv, StakeTypes, PayoutsCovered, Owed
<1>1. ASSUME NEW amount \in Amounts, DepositStake(p, amount)
      PROVE  StakeInv'
  <2>1. /\ stake' = [stake EXCEPT ![p] = [amount |-> @.amount + amount, held |-> TRUE]]
        /\ deposited' = [deposited EXCEPT ![p] = @ + amount]
        /\ UNCHANGED <<ledger, withdrawal, paid, slashed>>
    BY <1>1 DEF DepositStake, providerVars
  <2>2. StakeTypes'
    BY <2>1, <1>0 DEF StakeInv, StakeTypes
  <2>3. PayoutsCovered'
    BY <2>1, <1>0 DEF StakeInv, StakeTypes, PayoutsCovered, Owed
  <2> QED BY <2>2, <2>3 DEF StakeInv
<1>2. ASSUME NEW amount \in Amounts, InitiateWithdrawal(p, amount)
      PROVE  StakeInv'
  <2>1. /\ amount <= stake[p].amount
        /\ stake' = [stake EXCEPT ![p].amount = @ - amount]
        /\ withdrawal' = [withdrawal EXCEPT ![p] =
             [until |-> ledger + WithdrawalCooldown, amount |-> amount, open |-> TRUE]]
        /\ UNCHANGED <<ledger, deposited, paid, slashed>>
    BY <1>2 DEF InitiateWithdrawal, Withdrawable, StakeLess, providerVars
  <2>2. stake[p].amount - amount \in Nat
    BY <2>1, <1>0
  <2>3. StakeTypes'
    <3>1. stake' \in [Providers -> [amount : Nat, held : BOOLEAN]]
      BY <2>1, <2>2, <1>0 DEF StakeInv, StakeTypes
    <3>2. withdrawal' \in [Providers -> [until : Nat, amount : Nat, open : BOOLEAN]]
      <4>1. amount \in Nat /\ ledger + WithdrawalCooldown \in Nat
        BY <1>0
      <4> QED BY <2>1, <4>1 DEF StakeInv, StakeTypes
    <3> QED BY <2>1, <3>1, <3>2 DEF StakeInv, StakeTypes
  <2>4. ASSUME NEW q \in Providers
        PROVE  (Owed(q) + paid[q] + slashed[q] <= deposited[q])'
    <3>1. CASE q = p
      <4>1. stake'[q].amount = stake[q].amount - amount /\ withdrawal'[q].amount = amount
        BY <2>1, <1>0, <3>1 DEF StakeInv, StakeTypes
      <4> QED BY <4>1, <2>1, <1>0 DEF Owed
    <3>2. CASE q # p
      BY <2>1, <1>0, <3>2 DEF StakeInv, StakeTypes, Owed
    <3> QED BY <3>1, <3>2
  <2> QED BY <2>3, <2>4 DEF StakeInv, PayoutsCovered
<1>3. ASSUME NEW amount \in Amounts, SlashStake(p, amount)
      PROVE  StakeInv'
  BY <1>3, SlashKeeps DEF SlashStake, providerVars
<1>4. ASSUME CompleteWithdrawal(p)
      PROVE  StakeInv'
  <2>1. /\ withdrawal' = [withdrawal EXCEPT ![p] = NoWithdrawal]
        /\ paid' = [paid EXCEPT ![p] = @ + withdrawal[p].amount]
        /\ UNCHANGED <<ledger, stake, deposited, slashed>>
    BY <1>4 DEF CompleteWithdrawal, providerVars
  <2>2. StakeTypes'
    BY <2>1, <1>0 DEF StakeInv, StakeTypes, NoWithdrawal
  <2>3. PayoutsCovered'
    BY <2>1, <1>0 DEF StakeInv, StakeTypes, PayoutsCovered, Owed, NoWithdrawal
  <2> QED BY <2>2, <2>3 DEF StakeInv
<1> QED BY <1>1, <1>2, <1>3, <1>4 DEF StakeStep

LEMMA DisputeCallKeepsStake ==
  ASSUME StakeInv, NEW d \in DOMAIN disputes, DisputeStep(d)
  PROVE  StakeInv'
<1> USE OracleConstants
<1>0. ledger \in Nat
  BY DEF StakeInv, StakeTypes
<1>1. ASSUME NEW fault \in BOOLEAN, NEW penalty \in Penalties, NEW amount \in Amounts,
             ResolveDispute(d, fault, penalty, amount)
      PROVE  StakeInv'
  <2>1. UNCHANGED <<ledger, withdrawal, deposited, paid>>
    BY <1>1 DEF ResolveDispute
  <2>2. CASE fault /\ amount > 0
    <3>1. Slash(disputes[d].provider, amount)
      BY <1>1, <2>2 DEF ResolveDispute
    <3> QED BY <2>1, <3>1, SlashKeeps
  <2>3. CASE ~(fault /\ amount > 0)
    <3>1. UNCHANGED stakeVars
      BY <1>1, <2>1, <2>3 DEF ResolveDispute, stakeVars
    <3> QED BY <1>0, <2>1, <3>1, StakeUntouched
  <2> QED BY <2>2, <2>3
<1>2. ASSUME DismissDispute(d) \/ \E h \in Packages : AnchorDisputeEvidence(d, h)
      PROVE  StakeInv'
  <2>1. UNCHANGED <<ledger, stakeVars>>
    BY <1>2 DEF DismissDispute, AnchorDisputeEvidence, providerVars
  <2> QED BY <1>0, <2>1, StakeUntouched
<1> QED BY <1>1, <1>2 DEF DisputeStep

LEMMA StakeInvStep ==
  ASSUME StakeInv, [Next]_vars
  PROVE  StakeInv'
<1>0. ledger \in Nat
  BY DEF StakeInv, StakeTypes
<1>1. CASE ProviderStep
  <2>1. ledger' \in Nat /\ UNCHANGED stakeVars
    BY <1>0, <1>1, LedgerGrows DEF ProviderStep
  <2> QED BY <2>1, StakeUntouched
<1>2. CASE RequestStep
  <2>1. UNCHANGED <<ledger, stakeVars>>
    BY <1>2 DEF RequestStep, SetPaused, SubmitRequest, SubmitBatch, CancelRequest,
                RequestExpires, ArchiveOldRequests, providerVars
  <2> QED BY <1>0, <2>1, StakeUntouched
<1>3. ASSUME NEW p \in Providers, StakeStep(p)
      PROVE  StakeInv'
  BY <1>3, StakeCallKeeps
<1>4. ASSUME NEW p \in Providers, NEW i \in Ids, FileDispute(i, p)
      PROVE  StakeInv'
  <2>1. UNCHANGED <<ledger, stakeVars>>
    BY <1>4 DEF FileDispute, providerVars
  <2> QED BY <1>0, <2>1, StakeUntouched
<1>5. ASSUME NEW d \in DOMAIN disputes, DisputeStep(d)
      PROVE  StakeInv'
  BY <1>5, DisputeCallKeepsStake
<1>6. CASE UNCHANGED vars
  <2>1. UNCHANGED <<ledger, stakeVars>>
    BY <1>6 DEF vars, providerVars
  <2> QED BY <1>0, <2>1, StakeUntouched
<1> QED BY <1>1, <1>2, <1>3, <1>4, <1>5, <1>6 DEF Next

(* No provider gets out more than it put in: with any providers, amounts,  *)
(* penalties and cooldown, in any order of calls, what is staked, being    *)
(* withdrawn, paid out and slashed stays within the deposits.              *)
THEOREM StakesAreCovered == Spec => []PayoutsCovered
<1>1. Init => StakeInv
  BY DEF Init, ProvidersInit, StakeInv, StakeTypes, PayoutsCovered, Owed, NoStake, NoWithdrawal
<1>2. StakeInv /\ [Next]_vars => StakeInv'
  BY StakeInvStep
<1>3. StakeInv => PayoutsCovered
  BY DEF StakeInv
<1> QED BY <1>1, <1>2, <1>3, PTL DEF Spec

-----------------------------------------------------------------------------
(* Requests.                                                               *)

(* An id not given out yet is neither live nor archived.                   *)
RequestInv ==
  /\ ledger \in Nat
  /\ nextId \in Nat
  /\ live \in [Ids -> RequestStates \cup {"absent"}]
  /\ archived \in [Ids -> RequestStates \cup {"absent"}]
  /\ deadline \in [Ids -> Nat]
  /\ nextId <= MaxRequests
  /\ \A i \in Ids : i > nextId => live[i] = "absent" /\ archived[i] = "absent"
  /\ RequestsAccountedFor

LEMMA RequestsUntouched ==
  ASSUME RequestInv, UNCHANGED <<nextId, live, archived, deadline>>,
         ledger' \in Nat, ledger' >= ledger
  PROVE  RequestInv'
BY OracleConstants DEF RequestInv, RequestsAccountedFor, Ids

LEMMA SubmitKeepsRequests ==
  ASSUME RequestInv, NEW ttls \in Seq(Ttls), SubmitBatch(ttls)
  PROVE  RequestInv'
<1> USE OracleConstants DEF OracleConstants
<1> DEFINE new == (nextId + 1)..(nextId + Len(ttls))
<1>1. Len(ttls) \in Nat /\ \A k \in 1..Len(ttls) : ttls[k] \in Nat
  <2>1. Len(ttls) \in Nat /\ \A k \in 1..Len(ttls) : ttls[k] \in Ttls
    OBVIOUS
  <2>2. Ttls \subseteq Nat
    OBVIOUS
  <2> QED BY <2>1, <2>2
<1>2. /\ nextId + Len(ttls) <= MaxRequests
      /\ nextId' = nextId + Len(ttls)
      /\ live' = [i \in Ids |-> IF i \in new THEN "Pending" ELSE live[i]]
      /\ deadline' = [i \in Ids |-> IF i \in new THEN ledger + ttls[i - nextId] ELSE deadline[i]]
      /\ UNCHANGED <<ledger, archived>>
  BY DEF SubmitBatch, providerVars
<1>3. \A i \in new : i - nextId \in 1..Len(ttls)
  BY <1>1 DEF RequestInv
<1>4. deadline' \in [Ids -> Nat]
  BY <1>1, <1>2, <1>3 DEF RequestInv
<1>5. /\ live' \in [Ids -> RequestStates \cup {"absent"}]
      /\ \A i \in Ids : i > nextId' => live'[i] = "absent" /\ archived'[i] = "absent"
      /\ nextId' \in Nat /\ nextId' <= MaxRequests
  BY <1>1, <1>2 DEF RequestInv, RequestStates, Ids
<1>6. RequestsAccountedFor'
  <2>1. ASSUME NEW i \in 1..nextId'
        PROVE  (/\ live[i] = "absent" \/ archived[i] = "absent"
                /\ live[i] = "absent" /\ archived[i] = "absent" => ledger > deadline[i])'
    <3>0. i \in Ids
      BY <1>2, <1>1 DEF RequestInv, Ids
    <3>1. CASE i \in new
      BY <1>1, <1>2, <3>0, <3>1 DEF RequestInv
    <3>2. CASE i \notin new
      <4>1. i \in 1..nextId
        BY <1>1, <1>2, <3>2 DEF RequestInv
      <4> QED BY <1>2, <3>0, <3>2, <4>1 DEF RequestInv, RequestsAccountedFor
    <3> QED BY <3>1, <3>2
  <2> QED BY <2>1 DEF RequestsAccountedFor
<1> QED BY <1>2, <1>4, <1>5, <1>6 DEF RequestInv

LEMMA RequestCallKeeps ==
  ASSUME RequestInv, RequestStep
  PROVE  RequestInv'
<1> USE OracleConstants
<1>0. ledger \in Nat
  BY DEF RequestInv
<1>1. ASSUME NEW flag \in BOOLEAN, SetPaused(flag)
      PROVE  RequestInv'
  <2>1. UNCHANGED <<ledger, nextId, live, archived, deadline>>
    BY <1>1 DEF SetPaused, providerVars
  <2> QED BY <1>0, <2>1, RequestsUntouched
<1>2. ASSUME NEW ttl \in Ttls, SubmitRequest(ttl)
      PROVE  RequestInv'
  <2>1. <<ttl>> \in Seq(Ttls)
    OBVIOUS
  <2> QED BY <1>2, <2>1, SubmitKeepsRequests DEF SubmitRequest
<1>3. ASSUME NEW n \in 2..BatchLimit, NEW ttls \in [1..n -> Ttls], SubmitBatch(ttls)
      PROVE  RequestInv'
  <2>1. ttls \in Seq(Ttls)
    OBVIOUS
  <2> QED BY <1>3, <2>1, SubmitKeepsRequests
<1>4. ASSUME NEW i \in Ids, CancelRequest(i)
      PROVE  RequestInv'
  <2>1. /\ live[i] = "Pending"
        /\ live' = [live EXCEPT ![i] = "Cancelled"]
        /\ UNCHANGED <<ledger, nextId, archived, deadline>>
    BY <1>4 DEF CancelRequest, providerVars
  <2>2. \A k \in Ids : live'[k] = IF k = i THEN "Cancelled" ELSE live[k]
    BY <2>1 DEF RequestInv
  <2>3. \A k \in Ids : live'[k] = "absent" <=> live[k] = "absent"
    BY <2>1, <2>2
  <2>4. RequestsAccountedFor'
    BY <2>1, <2>3 DEF RequestInv, RequestsAccountedFor, Ids
  <2> QED BY <2>1, <2>3, <2>4 DEF RequestInv, RequestStates
<1>5. ASSUME NEW i \in Ids, RequestExpires(i)
      PROVE  RequestInv'
  <2>1. /\ live[i] # "absent" /\ ledger > deadline[i]
        /\ live' = [live EXCEPT ![i] = "absent"]
        /\ UNCHANGED <<ledger, nextId, archived, deadline>>
    BY <1>5 DEF RequestExpires, providerVars
  <2>2. \A k \in Ids : live'[k] = IF k = i THEN "absent" ELSE live[k]
    BY <2>1 DEF RequestInv
  <2>3. RequestsAccountedFor'
    BY <2>1, <2>2 DEF RequestInv, RequestsAccountedFor, Ids
  <2> QED BY <2>1, <2>2, <2>3 DEF RequestInv
<1>6. CASE ArchiveOldRequests
  <2>1. /\ archived' = [i \in Ids |-> IF live[i] # "absent" THEN live[i] ELSE archived[i]]
        /\ live' = [i \in Ids |-> "absent"]
        /\ UNCHANGED <<ledger, nextId, deadline>>
    BY <1>6 DEF ArchiveOldRequests, Archived, providerVars
  <2>2. RequestsAccountedFor'
    BY <2>1 DEF RequestInv, RequestsAccountedFor, Ids
  <2> QED BY <2>1, <2>2 DEF RequestInv
<1> QED BY <1>1, <1>2, <1>3, <1>4, <1>5, <1>6 DEF RequestStep

LEMMA RequestInvStep ==
  ASSUME RequestInv, [Next]_vars
  PROVE  RequestInv'
<1>0. ledger \in Nat
  BY DEF RequestInv
<1>1. CASE ProviderStep
  <2>1. /\ ledger' \in Nat /\ ledger' >= ledger
        /\ UNCHANGED <<nextId, live, archived, deadline>>
    BY <1>0, <1>1, LedgerGrows DEF ProviderStep, requestVars
  <2> QED BY <2>1, RequestsUntouched
<1>2. CASE RequestStep
  BY <1>2, RequestCallKeeps
<1>3. ASSUME \/ UNCHANGED vars
             \/ \E p \in Providers : StakeStep(p) \/ \E i \in Ids : FileDispute(i, p)
             \/ \E d \in DOMAIN disputes : DisputeStep(d)
      PROVE  RequestInv'
  <2>1. UNCHANGED <<ledger, requestVars>>
    <3>1. CASE UNCHANGED vars
      BY <3>1 DEF vars, providerVars
    <3>2. ASSUME NEW p \in Providers, StakeStep(p)
          PROVE  UNCHANGED <<ledger, requestVars>>
      BY <3>2 DEF StakeStep, DepositStake, InitiateWithdrawal, SlashStake, CompleteWithdrawal,
                  providerVars
    <3>3. ASSUME NEW p \in Providers, NEW i \in Ids, FileDispute(i, p)
          PROVE  UNCHANGED <<ledger, requestVars>>
      BY <3>3 DEF FileDispute, providerVars
    <3>4. ASSUME NEW d \in DOMAIN disputes, DisputeStep(d)
          PROVE  UNCHANGED <<ledger, requestVars>>
      BY <3>4 DEF DisputeStep, ResolveDispute, DismissDispute, AnchorDisputeEvidence,
                  providerVars
    <3> QED BY <1>3, <3>1, <3>2, <3>3, <3>4
  <2>2. ledger' >= ledger
    BY <1>0, <2>1
  <2> QED BY <1>0, <2>1, <2>2, RequestsUntouched DEF requestVars
<1> QED BY <1>1, <1>2, <1>3 DEF Next

(* No request disappears before its expiry: for any TTLs, batches and      *)
(* archival threshold, each id given out is live, archived or expired.     *)
THEOREM RequestsAreAccountedFor == Spec => []RequestsAccountedFor
<1>1. Init => RequestInv
  BY OracleConstants
  DEF Init, ProvidersInit, RequestInv, RequestsAccountedFor, RequestStates, Ids
<1>2. RequestInv /\ [Next]_vars => RequestInv'
  BY RequestInvStep
<1>3. RequestInv => RequestsAccountedFor
  BY DEF RequestInv
<1> QED BY <1>1, <1>2, <1>3, PTL DEF Spec

-----------------------------------------------------------------------------
(* Service levels.                                                         *)

UptimeInv ==
  /\ sla \in [Providers -> SLA \cup {NoSLA}]
  /\ uptimeSum \in [Providers -> Nat]
  /\ UptimeNeverFlatters

LEMMA Product ==
  ASSUME NEW a \in Nat, NEW b \in Nat
  PROVE  a * b \in Nat
OBVIOUS

LEMMA Quotient ==
  ASSUME NEW a \in Nat, NEW n \in Nat \ {0}
  PROVE  a \div n \in Nat /\ (a \div n) * n <= a
OBVIOUS

(* The running mean rounds down: times the count it is at most what the    *)
(* mean before it was, times one less, plus the sample.                    *)
LEMMA RunningMeanRoundsDown ==
  ASSUME NEW mean \in Nat, NEW n \in Nat \ {0}, NEW x \in Nat
  PROVE  /\ RunningMean(mean, n, x) \in Nat
         /\ RunningMean(mean, n, x) * n <= mean * (n - 1) + x
<1>1. mean * (n - 1) + x \in Nat
  <2>1. n - 1 \in Nat
    OBVIOUS
  <2> QED BY <2>1
<1> QED BY <1>1, Quotient DEF RunningMean

LEMMA SampledIsSLA ==
  ASSUME NEW s \in SLA, NEW x \in [ok : BOOLEAN, response : Nat, uptime : 0..100]
  PROVE  /\ Sampled(s, x) \in SLA
         /\ Sampled(s, x).total = s.total + 1
         /\ Sampled(s, x).actual["uptime"] = RunningMean(s.actual["uptime"], s.total + 1, x.uptime)
<1> DEFINE n == s.total + 1
           ok == s.ok + IF x.ok THEN 1 ELSE 0
           sum == s.sum + x.response
           actual == [response |-> sum \div n,
                      uptime |-> RunningMean(s.actual["uptime"], n, x.uptime),
                      success |-> (ok * 100) \div n]
<1>1. n \in Nat \ {0} /\ ok \in Nat /\ sum \in Nat /\ ok * 100 \in Nat
  BY DEF SLA
<1>2. s.actual["uptime"] \in Nat /\ x.uptime \in Nat
  BY DEF SLA, Aims
<1>3. /\ sum \div n \in Nat /\ (ok * 100) \div n \in Nat
      /\ RunningMean(s.actual["uptime"], n, x.uptime) \in Nat
  BY <1>1, <1>2, Quotient, RunningMeanRoundsDown
<1>4. actual \in [Aims -> Nat]
  BY <1>3 DEF Aims
<1>5. Sampled(s, x) = [s EXCEPT !.total = n, !.ok = ok, !.sum = sum, !.actual = actual]
  BY DEF Sampled
<1> HIDE DEF n, ok, sum, actual
<1>6. Sampled(s, x) = [target |-> s.target, actual |-> actual, total |-> n, ok |-> ok, sum |-> sum]
  BY <1>5 DEF SLA
<1>7. Sampled(s, x) \in SLA
  BY <1>1, <1>4, <1>6 DEF SLA
<1>8. actual["uptime"] = RunningMean(s.actual["uptime"], n, x.uptime)
  BY DEF actual
<1> QED BY <1>6, <1>7, <1>8 DEF n

LEMMA UptimeUntouched ==
  ASSUME UptimeInv, UNCHANGED <<sla, uptimeSum>>
  PROVE  UptimeInv'
BY DEF UptimeInv, UptimeNeverFlatters

LEMMA SampleKeepsUptime ==
  ASSUME UptimeInv, NEW p \in Providers, NEW x \in Samples, RecordVerification(p, x)
  PROVE  UptimeInv'
<1> DEFINE s == sla[p]
           n == s.total + 1
<1>1. x \in [ok : BOOLEAN, response : Nat, uptime : 0..100]
  BY ProviderConstants DEF ProviderConstants
<1>2. s \in SLA
  BY DEF RecordVerification, UptimeInv
<1>3. /\ sla' = [sla EXCEPT ![p] = Sampled(s, x)]
      /\ uptimeSum' = [uptimeSum EXCEPT ![p] = uptimeSum[p] + x.uptime]
  BY DEF RecordVerification
<1>4. /\ Sampled(s, x) \in SLA
      /\ Sampled(s, x).total = n
      /\ Sampled(s, x).actual["uptime"] = RunningMean(s.actual["uptime"], n, x.uptime)
  BY <1>1, <1>2, SampledIsSLA
<1>5. s.actual["uptime"] \in Nat /\ s.total \in Nat /\ x.uptime \in Nat /\ uptimeSum[p] \in Nat
  BY <1>1, <1>2 DEF SLA, Aims, UptimeInv
<1>6. RunningMean(s.actual["uptime"], n, x.uptime) * n <= s.actual["uptime"] * s.total + x.uptime
  <2>1. n \in Nat \ {0} /\ n - 1 = s.total
    BY <1>5
  <2>2. RunningMean(s.actual["uptime"], n, x.uptime) * n <= s.actual["uptime"] * (n - 1) + x.uptime
    BY <1>5, <2>1, RunningMeanRoundsDown
  <2> QED BY <2>1, <2>2
<1>7. s.actual["uptime"] * s.total <= uptimeSum[p]
  <2>1. CASE s.total = 0
    BY <1>5, <2>1
  <2>2. CASE s.total > 0
    BY <2>2 DEF UptimeInv, UptimeNeverFlatters, RecordVerification
  <2> QED BY <1>5, <2>1, <2>2
<1>8. RunningMean(s.actual["uptime"], n, x.uptime) * n <= uptimeSum[p] + x.uptime
  <2>1. /\ RunningMean(s.actual["uptime"], n, x.uptime) \in Nat
        /\ n \in Nat
        /\ s.actual["uptime"] * s.total \in Nat
    <3>1. n \in Nat \ {0}
      BY <1>5
    <3>2. s.actual["uptime"] * s.total \in Nat
      BY <1>5, Product
    <3> QED BY <1>5, <3>1, <3>2, RunningMeanRoundsDown
  <2>2. RunningMean(s.actual["uptime"], n, x.uptime) * n \in Nat
    BY <2>1
  <2> QED BY <1>5, <1>6, <1>7, <2>1, <2>2
<1> HIDE DEF s, n
<1>9. ASSUME NEW q \in Providers, sla'[q] # NoSLA, sla'[q].total > 0
      PROVE  sla'[q].actual["uptime"] * sla'[q].total <= uptimeSum'[q]
  <2>1. CASE q = p
    <3>1. sla'[q] = Sampled(s, x) /\ uptimeSum'[q] = uptimeSum[p] + x.uptime
      BY <1>3, <2>1 DEF UptimeInv
    <3> QED BY <1>4, <1>8, <3>1
  <2>2. CASE q # p
    <3>1. sla'[q] = sla[q] /\ uptimeSum'[q] = uptimeSum[q]
      BY <1>3, <2>2 DEF UptimeInv
    <3> QED BY <1>9, <3>1 DEF UptimeInv, UptimeNeverFlatters
  <2> QED BY <2>1, <2>2
<1>10. sla' \in [Providers -> SLA \cup {NoSLA}] /\ uptimeSum' \in [Providers -> Nat]
  BY <1>3, <1>4, <1>5 DEF UptimeInv
<1> QED BY <1>9, <1>10 DEF UptimeInv, UptimeNeverFlatters

LEMMA TargetsKeepUptime ==
  ASSUME UptimeInv, NEW p \in Providers, NEW target \in TargetSets, SetProviderSLA(p, target)
  PROVE  UptimeInv'
<1> DEFINE s == IF sla[p] = NoSLA THEN FreshSLA(target) ELSE [sla[p] EXCEPT !.target = target]
<1>1. target \in [Aims -> Nat]
  BY ProviderConstants DEF ProviderConstants
<1>2. sla' = [sla EXCEPT ![p] = s] /\ UNCHANGED uptimeSum
  BY DEF SetProviderSLA
<1>3. CASE sla[p] = NoSLA
  <2>1. s = FreshSLA(target)
    BY <1>3
  <2>2. FreshSLA(target) \in SLA /\ FreshSLA(target).total = 0
    BY <1>1 DEF FreshSLA, SLA
  <2> HIDE DEF s
  <2>3. \A q \in Providers : sla'[q] = IF q = p THEN s ELSE sla[q]
    BY <1>2 DEF UptimeInv
  <2>4. UptimeNeverFlatters'
    BY <1>2, <2>1, <2>2, <2>3 DEF UptimeInv, UptimeNeverFlatters
  <2> QED BY <1>2, <2>1, <2>2, <2>4 DEF UptimeInv
<1>4. CASE sla[p] # NoSLA
  <2>1. s = [sla[p] EXCEPT !.target = target]
    BY <1>4
  <2>2. sla[p] \in SLA
    BY <1>4 DEF UptimeInv
  <2>3. s \in SLA /\ s.total = sla[p].total /\ s.actual = sla[p].actual
    BY <1>1, <2>1, <2>2 DEF SLA
  <2> HIDE DEF s
  <2>4. \A q \in Providers : sla'[q] = IF q = p THEN s ELSE sla[q]
    BY <1>2 DEF UptimeInv
  <2>5. ASSUME NEW q \in Providers, sla'[q] # NoSLA, sla'[q].total > 0
        PROVE  sla'[q].actual["uptime"] * sla'[q].total <= uptimeSum'[q]
    <3>1. sla[q] # NoSLA /\ sla'[q].total = sla[q].total /\ sla'[q].actual = sla[q].actual
      BY <1>4, <2>3, <2>4, <2>5
    <3> QED BY <1>2, <2>5, <3>1 DEF UptimeInv, UptimeNeverFlatters
  <2> QED BY <1>2, <2>3, <2>5 DEF UptimeInv, UptimeNeverFlatters
<1> QED BY <1>3, <1>4

LEMMA ProviderCallKeepsUptime ==
  ASSUME UptimeInv, ProviderCall \/ LedgerCloses
  PROVE  UptimeInv'
<1>1. ASSUME NEW p \in Providers, NEW x \in Samples, RecordVerification(p, x)
      PROVE  UptimeInv'
  BY <1>1, SampleKeepsUptime
<1>2. ASSUME NEW p \in Providers, NEW target \in TargetSets, SetProviderSLA(p, target)
      PROVE  UptimeInv'
  BY <1>2, TargetsKeepUptime
<1>3. ASSUME \/ GetNextAvailableProvider
             \/ LedgerCloses
             \/ \E p \in Providers : \/ AddProvider(p) \/ RemoveProvider(p)
                                    \/ RecordSuccess(p) \/ RecordFailure(p)
                                    \/ ReinstateProvider(p)
      PROVE  UptimeInv'
  <2>1. UNCHANGED <<sla, uptimeSum>>
    BY <1>3 DEF GetNextAvailableProvider, LedgerCloses, AddProvider, RemoveProvider,
                RecordSuccess, RecordFailure, ReinstateProvider, slaVars
  <2> QED BY <2>1, UptimeUntouched
<1> QED BY <1>1, <1>2, <1>3 DEF ProviderCall

LEMMA UptimeInvInit == ProvidersInit => UptimeInv
<1> SUFFICES ASSUME ProvidersInit PROVE UptimeInv
  OBVIOUS
<1>1. \A p \in Providers : sla[p] = NoSLA
  BY DEF ProvidersInit
<1> QED BY <1>1 DEF ProvidersInit, UptimeInv, UptimeNeverFlatters

(* The provider side on its own: whatever samples are reported, in any     *)
(* number, the uptime an SLA is judged by is at most the true mean.        *)
THEOREM UptimeIsConservative == ProvidersSpec => []UptimeNeverFlatters
<1>1. UptimeInv /\ [ProviderCall \/ LedgerCloses]_providerVars => UptimeInv'
  <2> SUFFICES ASSUME UptimeInv, [ProviderCall \/ LedgerCloses]_providerVars
               PROVE  UptimeInv'
    OBVIOUS
  <2>1. CASE UNCHANGED providerVars
    BY <2>1, UptimeUntouched DEF providerVars, slaVars
  <2> QED BY <2>1, ProviderCallKeepsUptime
<1>2. UptimeInv => UptimeNeverFlatters
  BY DEF UptimeInv
<1> QED BY <1>1, <1>2, UptimeInvInit, PTL DEF ProvidersSpec

(* The same within the whole contract.                                     *)
THEOREM UptimeIsConservativeInOracle == Spec => []UptimeNeverFlatters
<1>1. UptimeInv /\ [Next]_vars => UptimeInv'
  <2> SUFFICES ASSUME UptimeInv, [Next]_vars
               PROVE  UptimeInv'
    OBVIOUS
  <2>1. CASE ProviderStep
    BY <2>1, ProviderCallKeepsUptime DEF ProviderStep
  <2>2. ASSUME \/ UNCHANGED vars
               \/ RequestStep
               \/ \E p \in Providers : StakeStep(p) \/ \E i \in Ids : FileDispute(i, p)
               \/ \E d \in DOMAIN disputes : DisputeStep(d)
        PROVE  UptimeInv'
    <3>1. UNCHANGED slaVars
      <4>1. CASE UNCHANGED vars
        BY <4>1 DEF vars, providerVars
      <4>2. CASE RequestStep
        BY <4>2 DEF RequestStep, SetPaused, SubmitRequest, SubmitBatch, CancelRequest,
                    RequestExpires, ArchiveOldRequests, providerVars
      <4>3. ASSUME NEW p \in Providers, StakeStep(p)
            PROVE  UNCHANGED slaVars
        BY <4>3 DEF StakeStep, DepositStake, InitiateWithdrawal, SlashStake,
                    CompleteWithdrawal, providerVars
      <4>4. ASSUME NEW p \in Providers, NEW i \in Ids, FileDispute(i, p)
            PROVE  UNCHANGED slaVars
        BY <4>4 DEF FileDispute, providerVars
      <4>5. ASSUME NEW d \in DOMAIN disputes, DisputeStep(d)
            PROVE  UNCHANGED slaVars
        BY <4>5 DEF DisputeStep, ResolveDispute, DismissDispute, AnchorDisputeEvidence,
                    providerVars
      <4> QED BY <2>2, <4>1, <4>2, <4>3, <4>4, <4>5
    <3> QED BY <3>1, UptimeUntouched DEF slaVars
  <2> QED BY <2>1, <2>2 DEF Next
<1>2. UptimeInv => UptimeNeverFlatters
  BY DEF UptimeInv
<1> QED BY <1>1, <1>2, UptimeInvInit, PTL DEF Spec, Init

-----------------------------------------------------------------------------
(* Turns.                                                                  *)

LEMMA Remainder ==
  ASSUME NEW a \in Nat, NEW n \in Nat, n > 0
  PROVE  a \div n \in Nat /\ a % n \in 0..(n - 1) /\ a % n = a - n * (a \div n)
<1>1. a \div n \in Nat /\ a % n \in 0..(n - 1)
  OBVIOUS
<1>2. a % n = a - n * (a \div n)
  BY SMTT(30)
<1> QED BY <1>1, <1>2

LEMMA RemainderIs ==
  ASSUME NEW n \in Nat, n > 0, NEW q \in Nat, NEW r \in 0..(n - 1)
  PROVE  (n * q + r) % n = r
<1>1. n * q \in Nat /\ n * q = q * n /\ r \in Nat
  OBVIOUS
<1> DEFINE a == n * q + r
<1>2. a \in Nat /\ a = q * n + r
  BY <1>1
<1> HIDE DEF a
<1>3. a % n = r
  BY <1>2, SMTT(30)
<1> QED BY <1>3 DEF a

LEMMA RemainderOfSum ==
  ASSUME NEW a \in Nat, NEW b \in Nat, NEW n \in Nat, n > 0
  PROVE  ((a % n) + b) % n = (a + b) % n
<1> DEFINE q == a \div n
           x == (a % n) + b
           t == x \div n
           r == x % n
<1>1. q \in Nat /\ a % n \in 0..(n - 1) /\ a % n = a - n * q
  BY Remainder
<1>2. x \in Nat /\ n * q \in Nat
  BY <1>1
<1>3. t \in Nat /\ r \in 0..(n - 1) /\ r = x - n * t
  BY <1>2, Remainder
<1>4. a + b = x + n * q
  BY <1>1, <1>2
<1> HIDE DEF q, t, x, r
<1>5. n * (q + t) = n * q + n * t /\ n * t \in Nat /\ q + t \in Nat
  BY <1>1, <1>3
<1>6. a + b = n * (q + t) + r
  BY <1>2, <1>3, <1>4, <1>5
<1>7. (a + b) % n = r
  BY <1>3, <1>5, <1>6, RemainderIs
<1> QED BY <1>7 DEF r, x

(* The place of an offset d from the index of a list.                      *)
Place(s, i, d) == s[((i + d) % Len(s)) + 1]

(* Whoever is listed is at some offset from any index.                     *)
LEMMA EveryoneInReach ==
  ASSUME NEW s \in Seq(Providers), NEW i \in Nat, NEW p \in Range(s)
  PROVE  \E d \in 0..(Len(s) - 1) : Place(s, i, d) = p
<1> DEFINE n == Len(s)
           m == i % n
<1>1. PICK k \in 1..n : s[k] = p
  BY DEF Range
<1>2. n \in Nat /\ n > 0 /\ k - 1 \in 0..(n - 1)
  BY <1>1
<1> HIDE DEF n
<1>3. m \in 0..(n - 1)
  BY <1>2, Remainder
<1> HIDE DEF m
<1> DEFINE d == IF k - 1 >= m THEN (k - 1) - m ELSE ((k - 1) - m) + n
<1>4. d \in 0..(n - 1) /\ (m + d = n * 0 + (k - 1) \/ m + d = n * 1 + (k - 1))
  BY <1>2, <1>3
<1> HIDE DEF d
<1>5. (m + d) % n = k - 1
  BY <1>2, <1>4, RemainderIs
<1>6. (i + d) % n = k - 1
  <2>1. d \in Nat /\ i \in Nat
    BY <1>2, <1>4
  <2>2. ((i % n) + d) % n = (i + d) % n
    BY ONLY <1>2, <2>1, RemainderOfSum
  <2> QED BY <1>5, <2>2, Zenon DEF m
<1>7. Place(s, i, d) = p
  BY <1>1, <1>2, <1>6 DEF Place, n
<1> QED BY <1>4, <1>7 DEF n

(* The index goes on by one: every offset shrinks by one.                  *)
LEMMA OneCloser ==
  ASSUME NEW s \in Seq(Providers), s # << >>, NEW i \in Nat, NEW d \in Nat, d > 0
  PROVE  Place(s, (i + 1) % Len(s), d - 1) = Place(s, i, d)
<1> DEFINE n == Len(s)
<1>1. n \in Nat /\ n > 0
  OBVIOUS
<1> HIDE DEF n
<1> PICK a \in Nat : a = i + 1
  OBVIOUS
<1> PICK b \in Nat : b = d - 1
  OBVIOUS
<1>2. a \in Nat /\ b \in Nat
  OBVIOUS
<1>3. ((a % n) + b) % n = (a + b) % n
  BY ONLY <1>1, <1>2, RemainderOfSum
<1>5. a + b = i + d
  OBVIOUS
<1>4. (((i + 1) % n) + (d - 1)) % n = (i + d) % n
  BY <1>3, <1>5, Zenon
<1> QED BY <1>4 DEF Place, n

(* A preferred provider is so near that it is chosen in time.              *)
TurnsInv ==
  /\ registered \subseteq Providers /\ list \in Seq(Providers) /\ rr \in Nat
  /\ waited \in [Providers -> Nat]
  /\ Range(list) = registered /\ IsInjective(list)
  /\ \A p \in Preferred : \E d \in 0..(Len(list) - 1) : Place(list, rr, d) = p /\ waited[p] + d < Len(list)

LEMMA PreferredAreListed == Preferred \subseteq Range(list)
BY DEF Preferred

(* A new competition begins with everyone in reach.                        *)
LEMMA RecountKeeps ==
  ASSUME TurnsInv, Recount, UNCHANGED rr,
         registered' \subseteq Providers, list' \in Seq(Providers),
         Range(list') = registered', IsInjective(list')
  PROVE  TurnsInv'
<1>1. rr \in Nat /\ waited \in [Providers -> Nat]
  BY DEF TurnsInv
<1>2. CASE list' = list /\ Preferred' = Preferred
  <2>1. waited' = waited
    BY <1>1, <1>2 DEF Recount
  <2> QED BY <1>1, <1>2, <2>1 DEF TurnsInv
<1>3. CASE ~(list' = list /\ Preferred' = Preferred)
  <2>1. waited' = [p \in Providers |-> 0]
    BY <1>3 DEF Recount
  <2>2. Preferred' \subseteq Range(list')
    BY PreferredAreListed DEF Preferred
  <2>3. ASSUME NEW p \in Range(list')
        PROVE  \E d \in 0..(Len(list') - 1) : Place(list', rr, d) = p /\ waited'[p] + d < Len(list')
    <3>1. PICK d \in 0..(Len(list') - 1) : Place(list', rr, d) = p
      BY <1>1, EveryoneInReach
    <3>2. waited'[p] = 0 /\ 0 + d < Len(list')
      BY <2>1
    <3> QED BY <3>1, <3>2
  <2> QED BY <1>1, <2>1, <2>2, <2>3 DEF TurnsInv
<1> QED BY <1>2, <1>3

LEMMA TurnTaken ==
  ASSUME TurnsInv, GetNextAvailableProvider
  PROVE  TurnsInv'
<1> DEFINE n == Len(list)
<1>1. /\ Preferred # {} /\ rr' = (rr + 1) % n
      /\ waited' = [p \in Providers |-> IF p \in Preferred /\ p # Chosen THEN waited[p] + 1 ELSE 0]
      /\ UNCHANGED <<ledger, registered, list, metrics, lastFailure>>
  BY DEF GetNextAvailableProvider, NextIndex, metricVars
<1>2. /\ list \in Seq(Providers) /\ rr \in Nat /\ waited \in [Providers -> Nat]
      /\ Preferred \subseteq Range(list) /\ Range(list) \subseteq Providers
  BY PreferredAreListed DEF TurnsInv
<1>3. list # << >> /\ n \in Nat /\ n > 0
  BY <1>1, <1>2 DEF Range
<1>4. Preferred' = Preferred
  BY <1>1 DEF Preferred, Eligible, CoolingDown, Score
<1>5. rr' \in Nat
  BY <1>1, <1>2, <1>3, Remainder
<1>6. ASSUME NEW p \in Preferred, p = Chosen
      PROVE  \E d \in 0..(n - 1) : Place(list, rr', d) = p /\ waited'[p] + d < n
  <2>1. PICK d \in 0..(n - 1) : Place(list, rr', d) = p
    BY <1>2, <1>5, EveryoneInReach
  <2>2. waited'[p] = 0
    BY <1>1, <1>2, <1>6
  <2> QED BY <1>3, <2>1, <2>2
<1>7. ASSUME NEW p \in Preferred, p # Chosen
      PROVE  \E d \in 0..(n - 1) : Place(list, rr', d) = p /\ waited'[p] + d < n
  <2>1. PICK d \in 0..(n - 1) : Place(list, rr, d) = p /\ waited[p] + d < n
    BY DEF TurnsInv
  <2>2. d # 0
    <3> SUFFICES ASSUME d = 0 PROVE Chosen = p
      BY <1>7
    <3>1. At(0) = p /\ At(0) \in Preferred
      BY <2>1 DEF At, Place
    <3> DEFINE First(k) == At(k) \in Preferred /\ \A m \in 0..(k - 1) : At(m) \notin Preferred
               first == CHOOSE k \in 0..(n - 1) : First(k)
    <3>2. 0 \in 0..(n - 1) /\ First(0)
      BY <1>3, <3>1
    <3>3. first \in 0..(n - 1) /\ First(first)
      BY <3>2
    <3>4. first = 0
      <4> SUFFICES ASSUME first # 0 PROVE FALSE
        OBVIOUS
      <4>1. 0 \in 0..(first - 1)
        BY <1>3, <3>3
      <4> QED BY <3>1, <3>3, <4>1
    <3>5. Chosen = At(first)
      BY DEF Chosen
    <3> QED BY <3>1, <3>4, <3>5
  <2>3. d \in Nat /\ d > 0 /\ d - 1 \in 0..(n - 1)
    BY <1>3, <2>1, <2>2
  <2>4. Place(list, rr', d - 1) = p
    BY <1>1, <1>2, <1>3, <2>1, <2>3, OneCloser
  <2>5. waited'[p] = waited[p] + 1 /\ waited[p] \in Nat
    BY <1>1, <1>2, <1>7
  <2>6. waited'[p] + (d - 1) < n
    BY <1>3, <2>1, <2>3, <2>5
  <2> QED BY <2>3, <2>4, <2>6
<1>8. waited' \in [Providers -> Nat]
  BY <1>1, <1>2
<1>9. \A p \in Preferred : \E d \in 0..(n - 1) : Place(list, rr', d) = p /\ waited'[p] + d < n
  BY <1>6, <1>7
<1> QED BY <1>1, <1>4, <1>5, <1>8, <1>9 DEF TurnsInv

LEMMA TurnsUntouched ==
  ASSUME TurnsInv, UNCHANGED <<ledger, registryVars, metricVars, waited>>
  PROVE  TurnsInv'
<1>1. UNCHANGED <<registered, list, rr, waited>>
  BY DEF registryVars
<1>2. Preferred' = Preferred
  BY DEF Preferred, Eligible, CoolingDown, Score, registryVars, metricVars
<1> QED BY <1>1, <1>2 DEF TurnsInv

LEMMA ProviderCallKeepsTurns ==
  ASSUME TurnsInv, ProviderCall \/ LedgerCloses
  PROVE  TurnsInv'
<1>1. /\ registered \subseteq Providers /\ list \in Seq(Providers)
      /\ Range(list) = registered /\ IsInjective(list)
  BY DEF TurnsInv
<1>2. CASE GetNextAvailableProvider
  BY <1>2, TurnTaken
<1>3. ASSUME NEW p \in Providers, AddProvider(p) PROVE TurnsInv'
  <2>1. list' \in Seq(Providers) /\ Range(list') = Range(list) \cup {p} /\ IsInjective(list')
    BY <1>1, <1>3, WithElement DEF AddProvider, Listed
  <2> QED BY <1>1, <1>3, <2>1, RecountKeeps DEF AddProvider
<1>4. ASSUME NEW p \in Providers, RemoveProvider(p) PROVE TurnsInv'
  <2>1. list' \in Seq(Providers) /\ Range(list') = Range(list) \ {p} /\ IsInjective(list')
    BY <1>1, <1>4, WithoutElement DEF RemoveProvider
  <2> QED BY <1>1, <1>4, <2>1, RecountKeeps DEF RemoveProvider
<1>5. ASSUME NEW p \in Providers, RecordSuccess(p) \/ RecordFailure(p) PROVE TurnsInv'
  BY <1>1, <1>5, RecountKeeps DEF RecordSuccess, RecordFailure, registryVars
<1>6. ASSUME NEW p \in Providers,
             \/ \E target \in TargetSets : SetProviderSLA(p, target)
             \/ \E x \in Samples : RecordVerification(p, x)
             \/ ReinstateProvider(p)
      PROVE  TurnsInv'
  BY <1>6, TurnsUntouched DEF SetProviderSLA, RecordVerification, ReinstateProvider
<1>7. CASE LedgerCloses
  BY <1>1, <1>7, RecountKeeps DEF LedgerCloses, registryVars
<1> QED BY <1>2, <1>3, <1>4, <1>5, <1>6, <1>7 DEF ProviderCall

LEMMA TurnsInvInit == ProvidersInit => TurnsInv
<1> SUFFICES ASSUME ProvidersInit PROVE TurnsInv
  OBVIOUS
<1>1. list = << >> /\ registered = {} /\ rr = 0 /\ waited = [p \in Providers |-> 0]
  BY DEF ProvidersInit
<1>2. Range(list) = {} /\ IsInjective(list)
  BY <1>1 DEF Range, IsInjective
<1>3. Preferred = {}
  BY <1>2, PreferredAreListed
<1> QED BY <1>1, <1>2, <1>3 DEF TurnsInv

LEMMA TurnsAreServed == TurnsInv => ListServesInTurns
<1> SUFFICES ASSUME TurnsInv PROVE ListServesInTurns
  OBVIOUS
<1>1. list \in Seq(Providers) /\ waited \in [Providers -> Nat] /\ Range(list) \subseteq Providers
  BY DEF TurnsInv
<1>2. ListIsRegistry
  BY <1>1, InjectiveLength DEF TurnsInv, ListIsRegistry
<1>3. ASSUME NEW p \in Preferred PROVE waited[p] < Len(list)
  <2>1. PICK d \in 0..(Len(list) - 1) : waited[p] + d < Len(list)
    BY DEF TurnsInv
  <2>2. waited[p] \in Nat /\ Len(list) \in Nat
    BY <1>1, PreferredAreListed
  <2> QED BY <2>1, <2>2
<1> QED BY <1>2, <1>3 DEF ListServesInTurns, PreferredTakeTurns

(* For any number of providers, and whichever of them are added, removed,  *)
(* better or worse: the list names each registered provider once, and      *)
(* while the same ones are preferred, each is chosen before it has waited  *)
(* for as many selections as the list is long.                             *)
THEOREM ProvidersTakeTurns == ProvidersSpec => []ListServesInTurns
<1>1. TurnsInv /\ [ProviderCall \/ LedgerCloses]_providerVars => TurnsInv'
  BY ProviderCallKeepsTurns, TurnsUntouched DEF providerVars
<1>2. TurnsInv => ListServesInTurns
  BY TurnsAreServed
<1> QED BY <1>1, <1>2, TurnsInvInit, PTL DEF ProvidersSpec

-----------------------------------------------------------------------------
(* The index of the requests.                                              *)

LEMMA OracleStepCases ==
  ASSUME [Next]_vars
  PROVE  \/ ProviderStep
         \/ RequestStep /\ UNCHANGED <<providerVars, disputeVars, failures>>
         \/ UNCHANGED <<providerVars, requestVars, disputeVars, failures>>
         \/ \E p \in Providers, i \in Ids : FileDispute(i, p)
         \/ \E d \in DOMAIN disputes : DisputeStep(d)
<1>1. CASE UNCHANGED vars
  BY <1>1 DEF vars
<1>2. CASE RequestStep
  BY <1>2 DEF RequestStep, SetPaused, SubmitRequest, SubmitBatch, CancelRequest, RequestExpires,
              ArchiveOldRequests
<1>3. ASSUME NEW p \in Providers, StakeStep(p)
      PROVE  UNCHANGED <<providerVars, requestVars, disputeVars, failures>>
  BY <1>3 DEF StakeStep, DepositStake, InitiateWithdrawal, SlashStake, CompleteWithdrawal
<1> QED BY <1>1, <1>2, <1>3 DEF Next

(* The two lists of the index name every id given out once between them.   *)
IndexInv ==
  /\ RequestInv
  /\ paused \in BOOLEAN /\ lastArchival \in Nat
  /\ index \in [RequestStates -> Seq(Ids)]
  /\ IsInjective(index["Pending"]) /\ IsInjective(index["Cancelled"])
  /\ Range(index["Pending"]) \cap Range(index["Cancelled"]) = {}
  /\ Range(index["Pending"]) \cup Range(index["Cancelled"]) = 1..nextId
  /\ \A i \in Ids, s \in RequestStates : live[i] = s => i \in Range(index[s])

LEMMA IndexUntouched ==
  ASSUME IndexInv, RequestInv', paused' \in BOOLEAN, lastArchival' \in Nat,
         UNCHANGED <<nextId, index>>,
         \A i \in Ids : live'[i] \in {live[i], "absent"}
  PROVE  IndexInv'
BY DEF IndexInv, RequestStates

LEMMA SubmitKeepsIndex ==
  ASSUME IndexInv, RequestInv', NEW ttls \in Seq(Ttls), SubmitBatch(ttls)
  PROVE  IndexInv'
<1> DEFINE new == [k \in 1..Len(ttls) |-> nextId + k]
           P == index["Pending"]
<1>0. Len(ttls) \in Nat /\ nextId \in Nat /\ MaxRequests \in Nat
  BY OracleConstants DEF OracleConstants, IndexInv, RequestInv
<1>1. /\ nextId + Len(ttls) <= MaxRequests /\ nextId' = nextId + Len(ttls)
      /\ live' = [i \in Ids |-> IF i \in (nextId + 1)..(nextId + Len(ttls))
                                THEN "Pending" ELSE live[i]]
      /\ index' = [index EXCEPT !["Pending"] = P \o new]
      /\ UNCHANGED <<paused, lastArchival>>
  BY DEF SubmitBatch
<1>2. /\ new \in Seq(Ids) /\ IsInjective(new)
      /\ Range(new) = (nextId + 1)..(nextId + Len(ttls))
  <2>1. \A k \in 1..Len(ttls) : nextId + k \in Ids
    BY <1>0, <1>1 DEF Ids
  <2>2. new \in Seq(Ids)
    BY <1>0, <2>1
  <2>3. DOMAIN new = 1..Len(ttls) /\ \A k \in 1..Len(ttls) : new[k] = nextId + k
    OBVIOUS
  <2> HIDE DEF new
  <2>4. IsInjective(new)
    BY <1>0, <2>3 DEF IsInjective
  <2>5. ASSUME NEW i \in (nextId + 1)..(nextId + Len(ttls)) PROVE i \in Range(new)
    <3>1. i - nextId \in 1..Len(ttls) /\ nextId + (i - nextId) = i
      BY <1>0
    <3> QED BY <2>3, <3>1 DEF Range
  <2>6. \A k \in 1..Len(ttls) : nextId + k \in (nextId + 1)..(nextId + Len(ttls))
    BY <1>0
  <2>7. Range(new) \subseteq (nextId + 1)..(nextId + Len(ttls))
    BY <2>3, <2>6 DEF Range
  <2> QED BY <2>2, <2>4, <2>5, <2>7
<1>3. /\ index \in [RequestStates -> Seq(Ids)] /\ P \in Seq(Ids) /\ IsInjective(P)
      /\ Range(P) \cap Range(index["Cancelled"]) = {}
      /\ Range(P) \cup Range(index["Cancelled"]) = 1..nextId
  BY DEF IndexInv, RequestStates
<1> HIDE DEF new, P
<1>4. Range(P) \cap Range(new) = {}
  BY <1>0, <1>2, <1>3
<1>5. P \o new \in Seq(Ids) /\ Range(P \o new) = Range(P) \cup Range(new) /\ IsInjective(P \o new)
  <2>1. P \in Seq(Ids) /\ new \in Seq(Ids)
    BY <1>2, <1>3
  <2>2. /\ P \o new \in Seq(Ids)
        /\ Range(P \o new) = Range(P) \cup Range(new)
        /\ IsInjective(P) /\ IsInjective(new) /\ Range(P) \cap Range(new) = {} => IsInjective(P \o new)
    BY ONLY <2>1, JoinedElements
  <2> QED BY <1>2, <1>3, <1>4, <2>2
<1>6. /\ index' \in [RequestStates -> Seq(Ids)]
      /\ index'["Pending"] = P \o new /\ index'["Cancelled"] = index["Cancelled"]
  BY <1>1, <1>3, <1>5 DEF RequestStates
<1>7. 1..nextId' = 1..nextId \cup Range(new) /\ 1..nextId \cap Range(new) = {}
  BY <1>0, <1>1, <1>2
<1>8. ASSUME NEW i \in Ids, NEW s \in RequestStates, live'[i] = s PROVE i \in Range(index'[s])
  <2>1. CASE i \in Range(new)
    BY <1>1, <1>2, <1>5, <1>6, <1>8, <2>1 DEF RequestStates
  <2>2. CASE i \notin Range(new)
    <3>1. live[i] = s
      BY <1>1, <1>2, <1>8, <2>2
    <3>2. i \in Range(index[s])
      BY <3>1 DEF IndexInv
    <3> QED BY <1>5, <1>6, <3>2 DEF RequestStates, P
  <2> QED BY <2>1, <2>2
<1>9. /\ Range(index'["Pending"]) \cap Range(index'["Cancelled"]) = {}
      /\ Range(index'["Pending"]) \cup Range(index'["Cancelled"]) = 1..nextId'
  BY <1>3, <1>5, <1>6, <1>7
<1> QED BY <1>1, <1>5, <1>6, <1>8, <1>9 DEF IndexInv

LEMMA CancelKeepsIndex ==
  ASSUME IndexInv, RequestInv', NEW i \in Ids, CancelRequest(i)
  PROVE  IndexInv'
<1> DEFINE P == Without(index["Pending"], i)
           C == Append(index["Cancelled"], i)
<1>1. /\ live[i] = "Pending" /\ live' = [live EXCEPT ![i] = "Cancelled"]
      /\ index' = [index EXCEPT !["Pending"] = P, !["Cancelled"] = C]
      /\ UNCHANGED <<nextId, paused, lastArchival>>
  BY DEF CancelRequest, Reindexed
<1>2. /\ index \in [RequestStates -> Seq(Ids)]
      /\ index["Pending"] \in Seq(Ids) /\ index["Cancelled"] \in Seq(Ids)
      /\ IsInjective(index["Pending"]) /\ IsInjective(index["Cancelled"])
      /\ Range(index["Pending"]) \cap Range(index["Cancelled"]) = {}
      /\ Range(index["Pending"]) \cup Range(index["Cancelled"]) = 1..nextId
      /\ i \in Range(index["Pending"])
  BY <1>1 DEF IndexInv, RequestStates
<1>3. /\ P \in Seq(Ids) /\ Range(P) = Range(index["Pending"]) \ {i} /\ IsInjective(P)
  BY <1>2, WithoutElement
<1>4. /\ C \in Seq(Ids) /\ Range(C) = Range(index["Cancelled"]) \cup {i} /\ IsInjective(C)
  BY <1>2, AppendElement
<1> HIDE DEF P, C
<1>5. /\ index' \in [RequestStates -> Seq(Ids)]
      /\ index'["Pending"] = P /\ index'["Cancelled"] = C
  BY <1>1, <1>2, <1>3, <1>4 DEF RequestStates
<1>6. ASSUME NEW j \in Ids, NEW s \in RequestStates, live'[j] = s PROVE j \in Range(index'[s])
  <2>1. live \in [Ids -> RequestStates \cup {"absent"}]
    BY DEF IndexInv, RequestInv
  <2>2. CASE j = i
    BY <1>1, <1>4, <1>5, <1>6, <2>1, <2>2 DEF RequestStates
  <2>3. CASE j # i
    <3>1. live[j] = s
      BY <1>1, <1>6, <2>1, <2>3
    <3>2. j \in Range(index[s])
      BY <3>1 DEF IndexInv
    <3> QED BY <1>3, <1>4, <1>5, <2>3, <3>2 DEF RequestStates
  <2> QED BY <2>2, <2>3
<1>7. /\ Range(index'["Pending"]) \cap Range(index'["Cancelled"]) = {}
      /\ Range(index'["Pending"]) \cup Range(index'["Cancelled"]) = 1..nextId'
  BY <1>1, <1>2, <1>3, <1>4, <1>5
<1> QED BY <1>1, <1>3, <1>4, <1>5, <1>6, <1>7 DEF IndexInv

LEMMA IndexInvStep ==
  ASSUME IndexInv, [Next]_vars
  PROVE  IndexInv'
<1>0. RequestInv' /\ paused \in BOOLEAN /\ lastArchival \in Nat /\ ledger \in Nat
      /\ live \in [Ids -> RequestStates \cup {"absent"}]
  BY RequestInvStep DEF IndexInv, RequestInv
<1>1. CASE UNCHANGED requestVars
  <2>1. UNCHANGED <<nextId, index, live, paused, lastArchival>>
    BY <1>1 DEF requestVars
  <2> QED BY <1>0, <2>1, IndexUntouched
<1>2. CASE RequestStep
  <2>1. ASSUME NEW flag \in BOOLEAN, SetPaused(flag) PROVE IndexInv'
    BY <1>0, <2>1, IndexUntouched DEF SetPaused
  <2>2. ASSUME NEW ttl \in Ttls, SubmitRequest(ttl) PROVE IndexInv'
    <3>1. <<ttl>> \in Seq(Ttls)
      OBVIOUS
    <3> QED BY <1>0, <2>2, <3>1, SubmitKeepsIndex DEF SubmitRequest
  <2>3. ASSUME NEW n \in 2..BatchLimit, NEW ttls \in [1..n -> Ttls], SubmitBatch(ttls) PROVE IndexInv'
    <3>1. ttls \in Seq(Ttls)
      BY OracleConstants
    <3> QED BY <1>0, <2>3, <3>1, SubmitKeepsIndex
  <2>4. ASSUME NEW i \in Ids, CancelRequest(i) PROVE IndexInv'
    BY <1>0, <2>4, CancelKeepsIndex
  <2>5. ASSUME NEW i \in Ids, RequestExpires(i) PROVE IndexInv'
    BY <1>0, <2>5, IndexUntouched DEF RequestExpires
  <2>6. CASE ArchiveOldRequests
    BY <1>0, <2>6, IndexUntouched DEF ArchiveOldRequests
  <2> QED BY <1>2, <2>1, <2>2, <2>3, <2>4, <2>5, <2>6 DEF RequestStep
<1>3. \/ RequestStep
      \/ UNCHANGED requestVars
  BY OracleStepCases DEF ProviderStep, FileDispute, DisputeStep, ResolveDispute, DismissDispute,
                         AnchorDisputeEvidence
<1> QED BY <1>1, <1>2, <1>3

LEMMA IndexInvInit == Init => IndexInv
<1> SUFFICES ASSUME Init PROVE IndexInv
  OBVIOUS
<1>1. /\ nextId = 0 /\ index = [s \in RequestStates |-> << >>]
      /\ live = [i \in Ids |-> "absent"] /\ paused = FALSE /\ lastArchival = 0
  BY DEF Init
<1>2. Range(<< >>) = {} /\ IsInjective(<< >>)
  BY DEF Range, IsInjective
<1>3. RequestInv
  BY OracleConstants
  DEF Init, ProvidersInit, RequestInv, RequestsAccountedFor, RequestStates, Ids
<1>4. 1..nextId = {} /\ << >> \in Seq(Ids)
  BY <1>1
<1>5. index \in [RequestStates -> Seq(Ids)]
  BY <1>1, <1>4
<1>6. index["Pending"] = << >> /\ index["Cancelled"] = << >>
  BY <1>1 DEF RequestStates
<1>7. \A i \in Ids, s \in RequestStates : live[i] # s
  BY <1>1 DEF RequestStates
<1> QED BY <1>1, <1>2, <1>3, <1>4, <1>5, <1>6, <1>7 DEF IndexInv

LEMMA IndexIsExact == IndexInv => RequestIndexExact
<1> SUFFICES ASSUME IndexInv, NEW i \in 1..nextId
             PROVE  /\ \A s \in RequestStates : live[i] = s => Occurrences(i, s) # {}
                    /\ Cardinality(UNION {{s} \X Occurrences(i, s) : s \in RequestStates}) = 1
  BY DEF RequestIndexExact
<1> DEFINE U == UNION {{s} \X Occurrences(i, s) : s \in RequestStates}
<1>1. i \in Ids
  BY OracleConstants DEF IndexInv, RequestInv, Ids
<1>2. ASSUME NEW s \in RequestStates
      PROVE  /\ DOMAIN index[s] = 1..Len(index[s]) /\ IsInjective(index[s])
             /\ Occurrences(i, s) # {} <=> i \in Range(index[s])
  BY DEF IndexInv, RequestStates, Occurrences, Range
<1>3. PICK s \in RequestStates : i \in Range(index[s]) /\ \A r \in RequestStates : r # s => i \notin Range(index[r])
  BY DEF IndexInv, RequestStates
<1>4. PICK k \in DOMAIN index[s] : index[s][k] = i
  BY <1>3 DEF Range
<1>5. Occurrences(i, s) = {k}
  BY <1>2, <1>4 DEF Occurrences, IsInjective
<1>6. \A r \in RequestStates : r # s => Occurrences(i, r) = {}
  BY <1>2, <1>3
<1>7. U = {<<s, k>>}
  <2>1. \A u : u \in U <=> \E r \in RequestStates : u \in {r} \X Occurrences(i, r)
    OBVIOUS
  <2>2. ASSUME NEW u \in U PROVE u = <<s, k>>
    <3>1. PICK r \in RequestStates : u \in {r} \X Occurrences(i, r)
      BY <2>1
    <3>2. r = s
      BY <1>6, <3>1
    <3> QED BY <1>5, <3>1, <3>2
  <2>3. <<s, k>> \in U
    BY <1>5, <2>1
  <2> QED BY <2>2, <2>3
<1>8. Cardinality(U) = 1
  BY <1>7, FS_Singleton
<1>9. \A r \in RequestStates : live[i] = r => Occurrences(i, r) # {}
  BY <1>1, <1>2 DEF IndexInv
<1> QED BY <1>8, <1>9

-----------------------------------------------------------------------------
(* The failures in the metrics, and where they come from.                  *)

(* The failures each dispute adds to a provider's metrics.                 *)
Terms(D, q) ==
  [d \in DOMAIN D |-> IF D[d].provider = q /\ D[d].fault
                      THEN SyntheticFailures(D[d].penalty) ELSE 0]

(* A dispute that is open has no verdict yet.                              *)
FailuresInv ==
  /\ metrics \in [Providers -> Metrics]
  /\ lastFailure \in [Providers -> Nat]
  /\ ledger \in Nat
  /\ failures \in [Providers -> Nat]
  /\ disputes \in Seq(Dispute)
  /\ \A d \in DOMAIN disputes : disputes[d].state = "Open" => ~disputes[d].fault
  /\ FailuresExplained

LEMMA SentencedIs == \A q \in Providers : Sentenced(q) = SumOf(Terms(disputes, q), Len(disputes))
BY DEF Sentenced, Terms

LEMMA SyntheticType ==
  ASSUME NEW n \in Nat PROVE SyntheticFailures(n) \in Nat
<1>1. 10 \in Nat \ {0}
  OBVIOUS
<1> QED BY <1>1, Quotient DEF SyntheticFailures

LEMMA TermsType ==
  ASSUME NEW D \in Seq(Dispute), NEW q, NEW d \in 1..Len(D)
  PROVE  /\ Terms(D, q)[d] \in Nat
         /\ Terms(D, q)[d] = IF D[d].provider = q /\ D[d].fault
                             THEN SyntheticFailures(D[d].penalty) ELSE 0
<1>1. d \in DOMAIN D /\ D[d] \in Dispute
  OBVIOUS
<1>2. D[d].penalty \in Nat
  BY <1>1 DEF Dispute
<1>3. SyntheticFailures(D[d].penalty) \in Nat
  BY <1>2, SyntheticType
<1> QED BY <1>1, <1>3 DEF Terms

LEMMA FailuresUntouched ==
  ASSUME FailuresInv, UNCHANGED <<metrics, lastFailure, ledger, failures, disputes>>
  PROVE  FailuresInv'
<1>1. \A q \in Providers : Sentenced(q)' = Sentenced(q)
  BY DEF Sentenced
<1> QED BY <1>1 DEF FailuresInv, FailuresExplained

LEMMA ProviderCallCounts ==
  ASSUME FailuresInv, ProviderCall \/ LedgerCloses
  PROVE  /\ metrics' \in [Providers -> Metrics] /\ lastFailure' \in [Providers -> Nat]
         /\ \A p \in Providers : metrics'[p].failed >= metrics[p].failed
<1>0. /\ metrics \in [Providers -> Metrics] /\ lastFailure \in [Providers -> Nat] /\ ledger \in Nat
      /\ \A p \in Providers : metrics[p].failed \in Nat
  BY DEF FailuresInv, Metrics
<1>1. CASE UNCHANGED <<metrics, lastFailure>>
  BY <1>0, <1>1
<1>2. ASSUME NEW p \in Providers, RecordSuccess(p) \/ RecordFailure(p)
      PROVE  /\ metrics' \in [Providers -> Metrics] /\ lastFailure' \in [Providers -> Nat]
             /\ \A q \in Providers : metrics'[q].failed >= metrics[q].failed
  <2>0. metrics[p].total \in Nat /\ metrics[p].ok \in Nat /\ metrics[p].failed \in Nat
    BY <1>0 DEF Metrics
  <2>1. PICK r : r = metrics'[p]
    OBVIOUS
  <2>2. r \in Metrics /\ r.failed >= metrics[p].failed /\ metrics' = [metrics EXCEPT ![p] = r]
    <3>1. CASE RecordSuccess(p)
      <4>1. r = [metrics[p] EXCEPT !.total = @ + 1, !.ok = @ + 1]
        BY <1>0, <2>1, <3>1 DEF RecordSuccess
      <4>2. r = [total |-> metrics[p].total + 1, ok |-> metrics[p].ok + 1, failed |-> metrics[p].failed]
        BY <1>0, <4>1 DEF Metrics
      <4>3. r \in Metrics /\ r.failed = metrics[p].failed
        BY <2>0, <4>2 DEF Metrics
      <4>4. metrics' = [metrics EXCEPT ![p] = r]
        BY <1>0, <2>1, <3>1 DEF RecordSuccess
      <4> QED BY <2>0, <4>3, <4>4
    <3>2. CASE RecordFailure(p)
      <4>1. r = [metrics[p] EXCEPT !.total = @ + 1, !.failed = @ + 1]
        BY <1>0, <2>1, <3>2 DEF RecordFailure
      <4>2. r = [total |-> metrics[p].total + 1, ok |-> metrics[p].ok, failed |-> metrics[p].failed + 1]
        BY <1>0, <4>1 DEF Metrics
      <4>3. r \in Metrics /\ r.failed = metrics[p].failed + 1
        BY <2>0, <4>2 DEF Metrics
      <4>4. metrics' = [metrics EXCEPT ![p] = r]
        BY <1>0, <2>1, <3>2 DEF RecordFailure
      <4> QED BY <2>0, <4>3, <4>4
    <3> QED BY <1>2, <3>1, <3>2
  <2>3. lastFailure' \in [Providers -> Nat]
    BY <1>0, <1>2 DEF RecordSuccess, RecordFailure
  <2>4. metrics' \in [Providers -> Metrics]
    BY <1>0, <2>2
  <2>5. ASSUME NEW q \in Providers PROVE metrics'[q].failed >= metrics[q].failed
    <3>1. metrics'[q] = IF q = p THEN r ELSE metrics[q]
      BY <1>0, <2>2
    <3>2. metrics[q].failed \in Nat
      BY <1>0
    <3> QED BY <2>2, <3>1, <3>2
  <2> QED BY <2>3, <2>4, <2>5
<1>3. \/ UNCHANGED <<metrics, lastFailure>>
      \/ \E p \in Providers : RecordSuccess(p) \/ RecordFailure(p)
  BY DEF ProviderCall, GetNextAvailableProvider, AddProvider, RemoveProvider, SetProviderSLA,
         RecordVerification, ReinstateProvider, LedgerCloses, metricVars
<1> QED BY <1>1, <1>2, <1>3

LEMMA ProviderStepKeepsFailures ==
  ASSUME FailuresInv, ProviderStep
  PROVE  FailuresInv'
<1>1. /\ metrics' \in [Providers -> Metrics] /\ lastFailure' \in [Providers -> Nat]
      /\ \A p \in Providers : metrics'[p].failed >= metrics[p].failed
  BY ProviderCallCounts DEF ProviderStep
<1>2. /\ failures' = [p \in Providers |-> failures[p] + (metrics'[p].failed - metrics[p].failed)]
      /\ UNCHANGED disputes
  BY DEF ProviderStep, disputeVars
<1>3. ledger' \in Nat
  BY LedgerGrows DEF ProviderStep, FailuresInv
<1>4. /\ \A p \in Providers : /\ metrics[p].failed \in Nat /\ metrics'[p].failed \in Nat
                              /\ failures[p] \in Nat
      /\ disputes \in Seq(Dispute) /\ Len(disputes) \in Nat
  BY <1>1 DEF FailuresInv, Metrics
<1>5. failures' \in [Providers -> Nat]
  BY <1>1, <1>2, <1>4
<1>6. ASSUME NEW p \in Providers PROVE (metrics[p].failed = failures[p] + Sentenced(p))'
  <2>1. metrics[p].failed = failures[p] + Sentenced(p) /\ Sentenced(p)' = Sentenced(p)
    BY <1>2 DEF FailuresInv, FailuresExplained, Sentenced
  <2>2. Sentenced(p) \in Nat
    <3> PICK f : f = Terms(disputes, p)
      OBVIOUS
    <3> PICK n \in Nat : n = Len(disputes)
      BY <1>4
    <3> PICK k \in Nat : k = 0
      OBVIOUS
    <3>1. Differs(f, f, n, k, k)
      BY <1>4, TermsType DEF Differs
    <3>2. Shifts(f, f, n, k, k)
      BY <3>1, SumChange
    <3>3. SumOf(f, n) \in Nat
      BY <3>2 DEF Shifts
    <3> QED BY <3>3, SentencedIs
  <2>3. failures'[p] = failures[p] + (metrics'[p].failed - metrics[p].failed)
    BY <1>2
  <2> QED BY <1>4, <2>1, <2>2, <2>3
<1> QED BY <1>1, <1>2, <1>3, <1>5, <1>6 DEF FailuresInv, FailuresExplained

LEMMA VerdictCounts ==
  ASSUME FailuresInv, NEW d \in DOMAIN disputes, NEW fault \in BOOLEAN, NEW penalty \in Penalties,
         NEW amount, ResolveDispute(d, fault, penalty, amount)
  PROVE  FailuresInv'
<1> PICK p : p = disputes[d].provider
  OBVIOUS
<1> PICK c : c = IF fault THEN SyntheticFailures(penalty) ELSE 0
  OBVIOUS
<1> PICK e : e = disputes'[d]
  OBVIOUS
<1> PICK r : r = metrics'[p]
  OBVIOUS
<1>0. /\ disputes \in Seq(Dispute) /\ metrics \in [Providers -> Metrics]
      /\ failures \in [Providers -> Nat] /\ Len(disputes) \in Nat /\ d \in 1..Len(disputes)
  BY DEF FailuresInv
<1>1. /\ disputes[d] \in Dispute /\ p \in Providers /\ metrics[p] \in Metrics
      /\ disputes[d].state = "Open" /\ ~disputes[d].fault
  <2>1. disputes[d] \in Dispute
    BY <1>0
  <2>2. p \in Providers
    BY <2>1 DEF Dispute
  <2> QED BY <1>0, <2>1, <2>2 DEF ResolveDispute, Undecided, FailuresInv
<1>2. penalty \in Nat /\ c \in Nat
  <2>1. penalty \in Nat
    BY OracleConstants DEF OracleConstants
  <2> QED BY <2>1, SyntheticType
<1>3. /\ e = [disputes[d] EXCEPT !.state = "Resolved", !.fault = fault, !.penalty = penalty]
      /\ disputes' = [disputes EXCEPT ![d] = e]
  BY <1>0 DEF ResolveDispute
<1>4. /\ e \in Dispute /\ e.provider = p /\ e.fault = fault /\ e.penalty = penalty
      /\ e.state = "Resolved"
  BY <1>1, <1>2, <1>3 DEF Dispute
<1>5. /\ r = [metrics[p] EXCEPT !.failed = @ + c, !.total = @ + c]
      /\ metrics' = [metrics EXCEPT ![p] = r]
  BY <1>0, <1>1 DEF ResolveDispute
<1>6. r \in Metrics /\ r.failed = metrics[p].failed + c
  <2>1. metrics[p].total \in Nat /\ metrics[p].ok \in Nat /\ metrics[p].failed \in Nat
    BY <1>1 DEF Metrics
  <2>2. r = [total |-> metrics[p].total + c, ok |-> metrics[p].ok, failed |-> metrics[p].failed + c]
    BY <1>1, <1>5 DEF Metrics
  <2> QED BY <1>2, <2>1, <2>2 DEF Metrics
<1>7. /\ disputes' \in Seq(Dispute) /\ Len(disputes') = Len(disputes) /\ disputes'[d] = e
      /\ DOMAIN disputes' = DOMAIN disputes
      /\ \A x \in DOMAIN disputes \ {d} : disputes'[x] = disputes[x]
  BY <1>0, <1>3, <1>4
<1>8. UNCHANGED <<ledger, lastFailure, failures>>
  BY DEF ResolveDispute
<1>9. ASSUME NEW q \in Providers PROVE (metrics[q].failed = failures[q] + Sentenced(q))'
  <2> PICK f : f = Terms(disputes, q)
    OBVIOUS
  <2> PICK g : g = Terms(disputes', q)
    OBVIOUS
  <2> PICK n \in Nat : n = Len(disputes)
    BY <1>0
  <2> PICK k \in Nat : k = d
    BY <1>0
  <2> PICK b \in Nat : b = IF q = p THEN c ELSE 0
    BY <1>2
  <2>1. Differs(f, g, n, k, b)
    <3> SUFFICES ASSUME NEW i \in 1..n PROVE f[i] \in Nat /\ g[i] = IF i = k THEN f[i] + b ELSE f[i]
      BY DEF Differs
    <3>1. f[i] \in Nat /\ f[i] = IF disputes[i].provider = q /\ disputes[i].fault
                                 THEN SyntheticFailures(disputes[i].penalty) ELSE 0
      BY <1>0, TermsType
    <3>2. g[i] = IF disputes'[i].provider = q /\ disputes'[i].fault
                 THEN SyntheticFailures(disputes'[i].penalty) ELSE 0
      BY <1>7, TermsType
    <3>3. CASE i = k
      <4>1. f[i] = 0
        BY <1>1, <3>1, <3>3
      <4>2. g[i] = IF p = q /\ fault THEN SyntheticFailures(penalty) ELSE 0
        BY <1>4, <1>7, <3>2, <3>3
      <4>3. g[i] = b
        BY <4>2
      <4> QED BY <3>3, <4>1, <4>3
    <3>4. CASE i # k
      <4>1. disputes'[i] = disputes[i]
        BY <1>0, <1>7, <3>4
      <4> QED BY <3>1, <3>2, <3>4, <4>1
    <3> QED BY <3>3, <3>4
  <2>2. Shifts(f, g, n, k, b)
    <3>1. b \in Int
      OBVIOUS
    <3> QED BY <2>1, <3>1, SumChange
  <2>3. SumOf(f, n) \in Nat /\ SumOf(g, n) = SumOf(f, n) + b
    BY <1>0, <2>2 DEF Shifts
  <2>4. Sentenced(q) = SumOf(f, n) /\ Sentenced(q)' = SumOf(g, n)
    BY <1>7 DEF Sentenced, Terms
  <2>5. metrics[q].failed = failures[q] + Sentenced(q) /\ failures[q] \in Nat
    BY <1>0 DEF FailuresInv, FailuresExplained
  <2>6. metrics'[q].failed = metrics[q].failed + b
    <3>1. metrics[q].failed \in Nat
      BY <1>0 DEF Metrics
    <3> QED BY <1>0, <1>5, <1>6, <3>1
  <2> QED BY <1>8, <2>3, <2>4, <2>5, <2>6
<1>10. \A x \in DOMAIN disputes' : disputes'[x].state = "Open" => ~disputes'[x].fault
  BY <1>4, <1>7 DEF FailuresInv
<1>11. metrics' \in [Providers -> Metrics]
  BY <1>0, <1>5, <1>6
<1> QED BY <1>7, <1>8, <1>9, <1>10, <1>11 DEF FailuresInv, FailuresExplained

LEMMA DismissalCounts ==
  ASSUME FailuresInv, NEW d \in DOMAIN disputes, DismissDispute(d)
  PROVE  FailuresInv'
<1> PICK e : e = disputes'[d]
  OBVIOUS
<1>0. disputes \in Seq(Dispute) /\ Len(disputes) \in Nat /\ disputes[d] \in Dispute
  BY DEF FailuresInv
<1>1. /\ e = [disputes[d] EXCEPT !.state = "Dismissed"] /\ disputes' = [disputes EXCEPT ![d] = e]
      /\ UNCHANGED <<metrics, lastFailure, ledger, failures>>
  BY <1>0 DEF DismissDispute, providerVars, metricVars
<1>2. /\ e \in Dispute /\ e.provider = disputes[d].provider /\ e.fault = disputes[d].fault
      /\ e.penalty = disputes[d].penalty /\ e.state = "Dismissed"
  BY <1>0, <1>1 DEF Dispute
<1>3. /\ disputes' \in Seq(Dispute) /\ Len(disputes') = Len(disputes)
      /\ DOMAIN disputes' = DOMAIN disputes /\ disputes'[d] = e
      /\ \A x \in DOMAIN disputes \ {d} : disputes'[x] = disputes[x]
  BY <1>0, <1>1, <1>2
<1>4. ASSUME NEW q \in Providers PROVE Sentenced(q)' = Sentenced(q)
  <2>1. \A x \in DOMAIN disputes : Terms(disputes, q)[x] = Terms(disputes', q)[x]
    BY <1>2, <1>3 DEF Terms
  <2>2. Terms(disputes', q) = Terms(disputes, q)
    BY <1>3, <2>1 DEF Terms
  <2> QED BY <1>3, <2>2 DEF Sentenced, Terms
<1>5. \A x \in DOMAIN disputes' : disputes'[x].state = "Open" => ~disputes'[x].fault
  BY <1>2, <1>3 DEF FailuresInv
<1> QED BY <1>1, <1>3, <1>4, <1>5 DEF FailuresInv, FailuresExplained

LEMMA FilingCounts ==
  ASSUME FailuresInv, NEW i \in Ids, NEW p \in Providers, FileDispute(i, p)
  PROVE  FailuresInv'
<1> PICK e : e = [request |-> i, provider |-> p, state |-> "Open", fault |-> FALSE, penalty |-> 0]
  OBVIOUS
<1>0. disputes \in Seq(Dispute) /\ Len(disputes) \in Nat
  BY DEF FailuresInv
<1>1. /\ disputes' = Append(disputes, e) /\ UNCHANGED <<metrics, lastFailure, ledger, failures>>
  BY DEF FileDispute, providerVars, metricVars
<1>2. e \in Dispute
  BY DEF Dispute
<1>3. /\ disputes' \in Seq(Dispute) /\ Len(disputes') = Len(disputes) + 1
      /\ disputes'[Len(disputes) + 1] = e
      /\ \A x \in 1..Len(disputes) : disputes'[x] = disputes[x]
  BY <1>0, <1>1, <1>2
<1>4. ASSUME NEW q \in Providers PROVE Sentenced(q)' = Sentenced(q)
  <2> PICK f : f = Terms(disputes, q)
    OBVIOUS
  <2> PICK g : g = Terms(disputes', q)
    OBVIOUS
  <2> PICK n \in Nat : n = Len(disputes)
    BY <1>0
  <2>1. \A x \in 1..n : f[x] \in Nat /\ g[x] = f[x]
    <3> SUFFICES ASSUME NEW x \in 1..n PROVE f[x] \in Nat /\ g[x] = f[x]
      OBVIOUS
    <3>1. f[x] \in Nat
      BY <1>0, TermsType
    <3>2. x \in DOMAIN disputes /\ x \in DOMAIN disputes' /\ disputes'[x] = disputes[x]
      BY <1>0, <1>3
    <3> QED BY <3>1, <3>2 DEF Terms
  <2>2. SumOf(g, n + 1) = SumOf(f, n) + g[n + 1]
    BY <2>1, SumExtend
  <2>3. g[n + 1] = 0
    <3>1. n + 1 \in DOMAIN disputes' /\ ~disputes'[n + 1].fault
      BY <1>0, <1>3
    <3> QED BY <3>1 DEF Terms
  <2>4. SumOf(f, n) \in Nat
    <3> PICK k \in Nat : k = 0
      OBVIOUS
    <3>1. Differs(f, f, n, k, k)
      BY <2>1 DEF Differs
    <3>2. Shifts(f, f, n, k, k)
      BY <3>1, SumChange
    <3> QED BY <3>2 DEF Shifts
  <2>5. Sentenced(q) = SumOf(f, n) /\ Sentenced(q)' = SumOf(g, n + 1)
    BY <1>3 DEF Sentenced, Terms
  <2> QED BY <2>2, <2>3, <2>4, <2>5
<1>5. \A x \in DOMAIN disputes' : disputes'[x].state = "Open" => ~disputes'[x].fault
  <2> SUFFICES ASSUME NEW x \in DOMAIN disputes', disputes'[x].state = "Open" PROVE ~disputes'[x].fault
    OBVIOUS
  <2>1. x \in 1..Len(disputes) \/ x = Len(disputes) + 1
    BY <1>0, <1>3
  <2>2. CASE x \in 1..Len(disputes)
    <3>1. x \in DOMAIN disputes /\ disputes'[x] = disputes[x]
      BY <1>0, <1>3, <2>2
    <3>2. disputes[x].state = "Open" => ~disputes[x].fault
      BY <3>1 DEF FailuresInv
    <3> QED BY <3>1, <3>2
  <2>3. CASE x = Len(disputes) + 1
    BY <1>3, <2>3
  <2> QED BY <2>1, <2>2, <2>3
<1> QED BY <1>1, <1>3, <1>4, <1>5 DEF FailuresInv, FailuresExplained

LEMMA FailuresInvStep ==
  ASSUME FailuresInv, [Next]_vars
  PROVE  FailuresInv'
<1>1. CASE ProviderStep
  BY <1>1, ProviderStepKeepsFailures
<1>2. CASE UNCHANGED <<providerVars, disputeVars, failures>>
  BY <1>2, FailuresUntouched DEF providerVars, metricVars, disputeVars
<1>3. ASSUME NEW p \in Providers, NEW i \in Ids, FileDispute(i, p) PROVE FailuresInv'
  BY <1>3, FilingCounts
<1>4. ASSUME NEW d \in DOMAIN disputes, DisputeStep(d) PROVE FailuresInv'
  <2>1. ASSUME NEW h \in Packages, AnchorDisputeEvidence(d, h) PROVE FailuresInv'
    BY <2>1, FailuresUntouched DEF AnchorDisputeEvidence, providerVars, metricVars
  <2> QED BY <1>4, <2>1, VerdictCounts, DismissalCounts DEF DisputeStep
<1> QED BY <1>1, <1>2, <1>3, <1>4, OracleStepCases

LEMMA FailuresInvInit == Init => FailuresInv
<1> SUFFICES ASSUME Init PROVE FailuresInv
  OBVIOUS
<1>1. /\ metrics = [p \in Providers |-> NoMetrics] /\ lastFailure = [p \in Providers |-> 0]
      /\ ledger = 1 /\ failures = [p \in Providers |-> 0] /\ disputes = << >>
  BY DEF Init, ProvidersInit
<1>2. \A q \in Providers : Sentenced(q) = 0
  BY <1>1, SumOfNothing DEF Sentenced
<1>3. metrics \in [Providers -> Metrics] /\ \A q \in Providers : metrics[q].failed = 0
  BY <1>1 DEF NoMetrics, Metrics
<1> QED BY <1>1, <1>2, <1>3 DEF FailuresInv, FailuresExplained

-----------------------------------------------------------------------------
(* The figures of an SLA are percentages.                                  *)

Fine(s) == s.ok <= s.total /\ s.actual["uptime"] \in 0..100 /\ s.actual["success"] \in 0..100

FiguresInv ==
  /\ UptimeInv
  /\ suspended \subseteq Providers
  /\ \A p \in Providers : sla[p] # NoSLA => Fine(sla[p])

LEMMA ProductGrows ==
  ASSUME NEW a \in Nat, NEW b \in Nat, NEW n \in Nat, a <= b
  PROVE  a * n <= b * n /\ a * n \in Nat /\ b * n \in Nat
<1> PICK k \in Nat : b = a + k
  <2>1. b - a \in Nat /\ b = a + (b - a)
    OBVIOUS
  <2> QED BY <2>1
<1>1. a * n \in Nat /\ k * n \in Nat
  BY Product
<1>2. (a + k) * n = a * n + k * n
  OBVIOUS
<1> QED BY <1>1, <1>2

LEMMA Percentage ==
  ASSUME NEW a \in Nat, NEW n \in Nat \ {0}, a <= 100 * n
  PROVE  a \div n \in 0..100
<1> PICK q : q = a \div n
  OBVIOUS
<1>1. q \in Nat /\ q * n <= a
  BY Quotient
<1>2. q <= 100
  <2> SUFFICES ASSUME 101 <= q PROVE FALSE
    BY <1>1
  <2>1. 101 * n <= q * n /\ 101 * n \in Nat /\ q * n \in Nat
    <3>1. 101 \in Nat /\ n \in Nat
      OBVIOUS
    <3> QED BY <1>1, <3>1, ProductGrows
  <2>2. 101 * n <= 100 * n
    BY <1>1, <2>1
  <2> QED BY <2>2
<1> QED BY <1>1, <1>2

LEMMA SampledIsFine ==
  ASSUME NEW s \in SLA, Fine(s), NEW x \in [ok : BOOLEAN, response : Nat, uptime : 0..100]
  PROVE  Fine(Sampled(s, x))
<1> PICK n : n = s.total + 1
  OBVIOUS
<1> PICK ok : ok = s.ok + IF x.ok THEN 1 ELSE 0
  OBVIOUS
<1> PICK sum : sum = s.sum + x.response
  OBVIOUS
<1> PICK actual : actual = [response |-> sum \div n,
                            uptime |-> RunningMean(s.actual["uptime"], n, x.uptime),
                            success |-> (ok * 100) \div n]
  OBVIOUS
<1>1. s.total \in Nat /\ s.ok \in Nat /\ s.ok <= s.total /\ s.actual["uptime"] \in 0..100
  BY DEF SLA, Fine
<1>2. n \in Nat \ {0} /\ ok \in Nat /\ ok <= n /\ n - 1 = s.total /\ x.uptime \in 0..100
  BY <1>1
<1>3. Sampled(s, x) = [s EXCEPT !.total = n, !.ok = ok, !.sum = sum, !.actual = actual]
  BY DEF Sampled
<1>4. /\ Sampled(s, x).total = n /\ Sampled(s, x).ok = ok /\ Sampled(s, x).actual = actual
  BY <1>3 DEF SLA
<1>5. actual["success"] \in 0..100
  <2>1. ok * 100 \in Nat /\ ok * 100 <= 100 * n
    BY <1>2
  <2>2. (ok * 100) \div n \in 0..100
    BY <1>2, <2>1, Percentage
  <2> QED BY <2>2
<1>6. actual["uptime"] \in 0..100
  <2> PICK m \in Nat : m = s.actual["uptime"]
    BY <1>1
  <2>1. m <= 100 /\ 100 \in Nat /\ s.total \in Nat
    BY <1>1
  <2>2. m * s.total <= 100 * s.total /\ m * s.total \in Nat
    BY <2>1, ProductGrows
  <2> PICK a \in Nat : a = m * s.total + x.uptime
    BY <1>2, <2>2
  <2>3. a <= 100 * n
    BY <1>1, <1>2, <2>2
  <2>4. a \div n \in 0..100
    BY <1>2, <2>3, Percentage
  <2>5. RunningMean(m, n, x.uptime) = a \div n
    BY <1>2 DEF RunningMean
  <2> QED BY <2>4, <2>5
<1> QED BY <1>2, <1>4, <1>5, <1>6 DEF Fine

LEMMA ProviderCallKeepsFigures ==
  ASSUME FiguresInv, ProviderCall \/ LedgerCloses
  PROVE  FiguresInv'
<1>0. UptimeInv' /\ sla \in [Providers -> SLA \cup {NoSLA}]
  BY ProviderCallKeepsUptime DEF FiguresInv, UptimeInv
<1>1. ASSUME NEW p \in Providers, NEW x \in Samples, RecordVerification(p, x)
      PROVE  FiguresInv'
  <2>1. x \in [ok : BOOLEAN, response : Nat, uptime : 0..100]
    BY ProviderConstants DEF ProviderConstants
  <2>2. sla[p] \in SLA /\ Fine(sla[p])
    BY <1>0, <1>1 DEF RecordVerification, FiguresInv
  <2> PICK s : s = Sampled(sla[p], x)
    OBVIOUS
  <2>3. Fine(s)
    BY <2>1, <2>2, SampledIsFine
  <2>4. sla' = [sla EXCEPT ![p] = s] /\ suspended' \subseteq Providers
    BY <1>1 DEF RecordVerification, FiguresInv
  <2>5. \A q \in Providers : sla'[q] # NoSLA => Fine(sla'[q])
    BY <1>0, <2>3, <2>4 DEF FiguresInv
  <2> QED BY <1>0, <2>4, <2>5 DEF FiguresInv, Fine
<1>2. ASSUME NEW p \in Providers, NEW target \in TargetSets, SetProviderSLA(p, target)
      PROVE  FiguresInv'
  <2> PICK s : s = IF sla[p] = NoSLA THEN FreshSLA(target) ELSE [sla[p] EXCEPT !.target = target]
    OBVIOUS
  <2>1. Fine(s)
    <3>1. CASE sla[p] = NoSLA
      <4>1. s = FreshSLA(target)
        BY <3>1
      <4>2. Fine(FreshSLA(target))
        BY DEF Fine, FreshSLA, Aims
      <4> QED BY <4>1, <4>2
    <3>2. CASE sla[p] # NoSLA
      <4>1. sla[p] \in SLA /\ Fine(sla[p]) /\ s = [sla[p] EXCEPT !.target = target]
        BY <1>0, <3>2 DEF FiguresInv
      <4>2. s.ok = sla[p].ok /\ s.total = sla[p].total /\ s.actual = sla[p].actual
        BY <4>1 DEF SLA
      <4> QED BY <4>1, <4>2 DEF Fine
    <3> QED BY <3>1, <3>2
  <2>2. sla' = [sla EXCEPT ![p] = s] /\ suspended' = suspended
    BY <1>2 DEF SetProviderSLA
  <2>3. \A q \in Providers : sla'[q] # NoSLA => Fine(sla'[q])
    BY <1>0, <2>1, <2>2 DEF FiguresInv
  <2> QED BY <1>0, <2>2, <2>3 DEF FiguresInv, Fine
<1>3. ASSUME \/ GetNextAvailableProvider
             \/ LedgerCloses
             \/ \E p \in Providers : \/ AddProvider(p) \/ RemoveProvider(p)
                                    \/ RecordSuccess(p) \/ RecordFailure(p)
                                    \/ ReinstateProvider(p)
      PROVE  FiguresInv'
  <2>1. sla' = sla /\ suspended' \subseteq Providers
    BY <1>3 DEF GetNextAvailableProvider, LedgerCloses, AddProvider, RemoveProvider,
                RecordSuccess, RecordFailure, ReinstateProvider, slaVars, FiguresInv
  <2> QED BY <1>0, <2>1 DEF FiguresInv, Fine
<1> QED BY <1>1, <1>2, <1>3 DEF ProviderCall

LEMMA FiguresInvStep ==
  ASSUME FiguresInv, [Next]_vars
  PROVE  FiguresInv'
<1>1. CASE ProviderStep
  BY <1>1, ProviderCallKeepsFigures DEF ProviderStep
<1>2. CASE UNCHANGED slaVars
  <2>1. UNCHANGED <<sla, suspended, uptimeSum>>
    BY <1>2 DEF slaVars
  <2> QED BY <2>1, UptimeUntouched DEF FiguresInv, Fine
<1>3. \/ ProviderStep
      \/ UNCHANGED slaVars
  BY OracleStepCases DEF providerVars, FileDispute, DisputeStep, ResolveDispute, DismissDispute,
                         AnchorDisputeEvidence
<1> QED BY <1>1, <1>2, <1>3

-----------------------------------------------------------------------------
(* The evidence of the disputes.                                           *)

EvidenceInv ==
  /\ evidence \in Seq(Seq(Packages))
  /\ disputes \in Seq(Dispute)
  /\ Len(evidence) = Len(disputes)
  /\ \A d \in DOMAIN evidence : IsInjective(evidence[d]) /\ Len(evidence[d]) <= MaxAnchors

LEMMA EvidenceInvStep ==
  ASSUME EvidenceInv, disputes' \in Seq(Dispute), [Next]_vars
  PROVE  EvidenceInv'
<1>0. /\ evidence \in Seq(Seq(Packages)) /\ disputes \in Seq(Dispute)
      /\ Len(evidence) \in Nat /\ Len(evidence) = Len(disputes)
      /\ DOMAIN evidence = 1..Len(evidence) /\ DOMAIN disputes = DOMAIN evidence
  BY DEF EvidenceInv
<1>1. CASE UNCHANGED evidence /\ Len(disputes') = Len(disputes)
  BY <1>1 DEF EvidenceInv
<1>2. ASSUME NEW p \in Providers, NEW i \in Ids, FileDispute(i, p) PROVE EvidenceInv'
  <2>1. evidence' = Append(evidence, << >>) /\ Len(disputes') = Len(disputes) + 1
    BY <1>0, <1>2 DEF FileDispute
  <2>2. << >> \in Seq(Packages) /\ IsInjective(<< >>) /\ Len(<< >>) = 0 /\ 0 <= MaxAnchors
    BY OracleConstants DEF OracleConstants, IsInjective
  <2>3. /\ evidence' \in Seq(Seq(Packages)) /\ Len(evidence') = Len(evidence) + 1
        /\ evidence'[Len(evidence) + 1] = << >>
        /\ \A d \in 1..Len(evidence) : evidence'[d] = evidence[d]
    BY <1>0, <2>1, <2>2
  <2>4. ASSUME NEW d \in DOMAIN evidence'
        PROVE  IsInjective(evidence'[d]) /\ Len(evidence'[d]) <= MaxAnchors
    <3>1. d \in 1..Len(evidence) \/ d = Len(evidence) + 1
      BY <1>0, <2>3
    <3>2. CASE d \in 1..Len(evidence)
      <4>1. d \in DOMAIN evidence /\ evidence'[d] = evidence[d]
        BY <1>0, <2>3, <3>2
      <4> QED BY <4>1 DEF EvidenceInv
    <3>3. CASE d = Len(evidence) + 1
      BY <2>2, <2>3, <3>3
    <3> QED BY <3>1, <3>2, <3>3
  <2> QED BY <1>0, <2>1, <2>3, <2>4 DEF EvidenceInv
<1>3. ASSUME NEW d \in DOMAIN disputes, NEW h \in Packages, AnchorDisputeEvidence(d, h)
      PROVE  EvidenceInv'
  <2> PICK s : s = Anchored(evidence[d], h)
    OBVIOUS
  <2>1. /\ evidence[d] \in Seq(Packages) /\ IsInjective(evidence[d])
        /\ Len(evidence[d]) < MaxAnchors /\ MaxAnchors \in Nat
        /\ evidence' = [evidence EXCEPT ![d] = s] /\ disputes' = disputes
    BY <1>0, <1>3, OracleConstants DEF AnchorDisputeEvidence, EvidenceInv, OracleConstants
  <2>2. s \in Seq(Packages) /\ IsInjective(s) /\ Len(s) <= MaxAnchors
    <3>1. CASE h \in Range(evidence[d])
      <4>1. s = evidence[d]
        BY <3>1 DEF Anchored
      <4> QED BY <2>1, <4>1
    <3>2. CASE h \notin Range(evidence[d])
      <4>1. s = Append(evidence[d], h)
        BY <3>2 DEF Anchored
      <4>2. Len(s) = Len(evidence[d]) + 1
        BY <2>1, <4>1, AppendElement
      <4>3. Len(evidence[d]) \in Nat
        BY <2>1
      <4>4. s \in Seq(Packages) /\ IsInjective(s)
        BY <2>1, <3>2, <4>1, AppendElement
      <4> QED BY <2>1, <4>2, <4>3, <4>4
    <3> QED BY <3>1, <3>2
  <2>3. /\ evidence' \in Seq(Seq(Packages)) /\ Len(evidence') = Len(evidence)
        /\ DOMAIN evidence' = DOMAIN evidence /\ evidence'[d] = s
        /\ \A x \in DOMAIN evidence \ {d} : evidence'[x] = evidence[x]
    BY <1>0, <2>1, <2>2
  <2>4. \A x \in DOMAIN evidence' : IsInjective(evidence'[x]) /\ Len(evidence'[x]) <= MaxAnchors
    BY <2>2, <2>3 DEF EvidenceInv
  <2> QED BY <1>0, <2>1, <2>3, <2>4 DEF EvidenceInv
<1>4. ASSUME NEW d \in DOMAIN disputes,
             \/ \E fault \in BOOLEAN, penalty \in Penalties, amount \in Amounts :
                  ResolveDispute(d, fault, penalty, amount)
             \/ DismissDispute(d)
      PROVE  EvidenceInv'
  <2>1. evidence' = evidence /\ \E e : disputes' = [disputes EXCEPT ![d] = e]
    BY <1>4 DEF ResolveDispute, DismissDispute
  <2>2. PICK e : disputes' = [disputes EXCEPT ![d] = e]
    BY <2>1
  <2>3. Len(disputes') = Len(disputes)
    <3>1. DOMAIN disputes' = DOMAIN disputes
      BY <2>2
    <3> QED BY <1>0, <3>1
  <2> QED BY <1>1, <2>1, <2>3
<1>5. UNCHANGED disputeVars => UNCHANGED evidence /\ Len(disputes') = Len(disputes)
  BY DEF disputeVars
<1>6. ProviderStep => UNCHANGED disputeVars
  BY DEF ProviderStep
<1>7. CASE \E d \in DOMAIN disputes : DisputeStep(d)
  BY <1>3, <1>4, <1>7 DEF DisputeStep
<1> QED BY <1>1, <1>2, <1>5, <1>6, <1>7, OracleStepCases

LEMMA EvidenceIsDistinct == EvidenceInv => AnchorsDistinct
<1> SUFFICES ASSUME EvidenceInv, NEW d \in DOMAIN evidence
             PROVE  /\ Len(evidence[d]) <= MaxAnchors
                    /\ Len(evidence[d]) = Cardinality(Range(evidence[d]))
  BY DEF AnchorsDistinct
<1>1. evidence[d] \in Seq(Packages) /\ IsInjective(evidence[d]) /\ Len(evidence[d]) <= MaxAnchors
  BY DEF EvidenceInv
<1> QED BY <1>1, InjectiveLength

-----------------------------------------------------------------------------
(* The records together.                                                   *)

LEMMA TurnsInvStep ==
  ASSUME TurnsInv, [Next]_vars
  PROVE  TurnsInv'
<1>0. /\ registered \subseteq Providers /\ list \in Seq(Providers)
      /\ Range(list) = registered /\ IsInjective(list)
  BY DEF TurnsInv
<1>1. CASE ProviderStep
  BY <1>1, ProviderCallKeepsTurns DEF ProviderStep
<1>2. CASE UNCHANGED providerVars
  BY <1>2, TurnsUntouched DEF providerVars
<1>3. ASSUME NEW d \in DOMAIN disputes, NEW fault, NEW penalty, NEW amount,
             ResolveDispute(d, fault, penalty, amount)
      PROVE  TurnsInv'
  <2>1. Recount /\ UNCHANGED <<registered, list, rr>>
    BY <1>3 DEF ResolveDispute, registryVars
  <2> QED BY <1>0, <2>1, RecountKeeps
<1>4. \/ ProviderStep
      \/ UNCHANGED providerVars
      \/ \E d \in DOMAIN disputes, fault \in BOOLEAN, penalty \in Penalties, amount \in Amounts :
           ResolveDispute(d, fault, penalty, amount)
  BY OracleStepCases DEF FileDispute, DisputeStep, DismissDispute, AnchorDisputeEvidence
<1> QED BY <1>1, <1>2, <1>3, <1>4

RecordsInv ==
  StakeInv /\ IndexInv /\ TurnsInv /\ FiguresInv /\ FailuresInv /\ EvidenceInv

LEMMA RecordsInvInit == Init => RecordsInv
<1> SUFFICES ASSUME Init PROVE RecordsInv
  OBVIOUS
<1>1. StakeInv
  BY DEF Init, ProvidersInit, StakeInv, StakeTypes, PayoutsCovered, Owed, NoStake, NoWithdrawal
<1>2. TurnsInv /\ UptimeInv
  BY TurnsInvInit, UptimeInvInit DEF Init
<1>3. FiguresInv
  <2>1. suspended = {} /\ \A p \in Providers : sla[p] = NoSLA
    BY DEF Init, ProvidersInit
  <2> QED BY <1>2, <2>1 DEF FiguresInv
<1>4. EvidenceInv
  <2>1. evidence = << >> /\ disputes = << >>
    BY DEF Init
  <2> QED BY <2>1 DEF EvidenceInv
<1> QED BY <1>1, <1>2, <1>3, <1>4, IndexInvInit, FailuresInvInit DEF RecordsInv

LEMMA RecordsInvStep ==
  ASSUME RecordsInv, [Next]_vars
  PROVE  RecordsInv'
<1>1. StakeInv' /\ IndexInv' /\ TurnsInv' /\ FiguresInv' /\ FailuresInv'
  BY StakeInvStep, IndexInvStep, TurnsInvStep, FiguresInvStep, FailuresInvStep DEF RecordsInv
<1>2. EvidenceInv'
  BY <1>1, EvidenceInvStep DEF RecordsInv, FailuresInv
<1> QED BY <1>1, <1>2 DEF RecordsInv

LEMMA RecordsAreTyped == RecordsInv => TypeOK
<1> SUFFICES ASSUME RecordsInv PROVE TypeOK
  OBVIOUS
<1>1. ProvidersTypeOK
  BY DEF RecordsInv, TurnsInv, FiguresInv, UptimeInv, FailuresInv, ProvidersTypeOK, Fine
<1>2. nextId \in 0..MaxRequests
  BY OracleConstants DEF RecordsInv, IndexInv, RequestInv, OracleConstants
<1>3. live \in [Ids -> RequestStates \cup {"absent"}] /\ deadline \in [Ids -> Nat]
      /\ archived \in [Ids -> RequestStates \cup {"absent"}]
      /\ index \in [RequestStates -> Seq(Ids)] /\ paused \in BOOLEAN /\ lastArchival \in Nat
  BY DEF RecordsInv, IndexInv, RequestInv
<1>4. /\ stake \in [Providers -> [amount : Nat, held : BOOLEAN]]
      /\ withdrawal \in [Providers -> [until : Nat, amount : Nat, open : BOOLEAN]]
      /\ deposited \in [Providers -> Nat] /\ paid \in [Providers -> Nat]
      /\ slashed \in [Providers -> Nat]
  BY DEF RecordsInv, StakeInv, StakeTypes
<1>5. /\ disputes \in Seq(Dispute) /\ evidence \in Seq(Seq(Packages))
      /\ failures \in [Providers -> Nat]
  BY DEF RecordsInv, FailuresInv, EvidenceInv
<1> QED BY <1>1, <1>2, <1>3, <1>4, <1>5 DEF TypeOK

(* Through any calls, verdicts, withdrawals, expiries and archivings: the  *)
(* variables keep their types, the state index names every id given out    *)
(* once and a live request under its state, the failures in the metrics    *)
(* are those reported and those of the recorded verdicts, and no package   *)
(* is anchored twice.                                                      *)
THEOREM RecordsStayInAgreement == Spec => []RecordsAgree
<1>1. RecordsInv /\ [Next]_vars => RecordsInv'
  BY RecordsInvStep
<1>2. RecordsInv => RecordsAgree
  BY RecordsAreTyped, IndexIsExact, EvidenceIsDistinct DEF RecordsInv, FailuresInv, RecordsAgree
<1> QED BY <1>1, <1>2, RecordsInvInit, PTL DEF Spec

=============================================================================
