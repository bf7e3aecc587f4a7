--------------------------- MODULE OracleProviders ---------------------------
(***************************************************************************)
(* The provider side of the oracle contract, contracts/oracle/src/lib.rs:  *)
(* the provider registry, the verification metrics, the round-robin        *)
(* selection and the SLA figures with the automatic suspension.            *)
(*                                                                         *)
(* A contract call is one atomic step: an error undoes it, so a call that  *)
(* would fail is an action that is not enabled. Calls come in any order,   *)
(* and ledgers close between them.                                         *)
(***************************************************************************)
EXTENDS Naturals, FiniteSets, Sequences, Lists

CONSTANTS
  Providers,         (* provider addresses                                 *)
  MaxFailures,       (* MAX_RECENT_FAILURES                                *)
  FailureCooldown,   (* FAILURE_COOLDOWN_LEDGERS                           *)
  Threshold,         (* SLA_SUSPENSION_THRESHOLD, in percent               *)
  TargetSets,        (* the SLA targets in use                             *)
  Samples,           (* the verification outcomes reported for the SLA     *)
  Measured,          (* bound: providers with an SLA                       *)
  MaxVerifications,  (* bound: verifications in the metrics of a provider  *)
  MaxSamples,        (* bound: samples in the SLA of a provider            *)
  LastLedger         (* bound: the ledger sequence                         *)

Aims == {"response", "uptime", "success"}

ASSUME ProviderConstants ==
  /\ MaxFailures \in Nat
  /\ FailureCooldown \in Nat
  /\ Threshold \in Nat
  /\ TargetSets \subseteq [Aims -> Nat]
  /\ Samples \subseteq [ok : BOOLEAN, response : Nat, uptime : 0..100]
  /\ Measured \subseteq Providers
  /\ MaxVerifications \in Nat
  /\ MaxSamples \in Nat
  /\ LastLedger \in Nat

VARIABLES
  ledger,       (* env.ledger().sequence()                                 *)
  registered,   (* the providers whose Provider entry is true              *)
  list,         (* ProviderList                                            *)
  rr,           (* RoundRobinIndex                                         *)
  metrics,      (* ProviderMetrics                                         *)
  lastFailure,  (* ProviderLastFailureLedger, 0 if never                   *)
  sla,          (* ProviderSLA                                             *)
  suspended,    (* the providers whose ProviderSuspended entry is true     *)
  waited,       (* history: selections since a provider was last chosen or *)
                (* the providers the selection prefers last changed        *)
  uptimeSum     (* history: the sum of a provider's uptime samples         *)

registryVars == <<registered, list, rr>>
metricVars == <<metrics, lastFailure>>
slaVars == <<sla, suspended, uptimeSum>>
providerVars == <<ledger, registryVars, metricVars, slaVars, waited>>

NoMetrics == [total |-> 0, ok |-> 0, failed |-> 0]

Metrics == [total : Nat, ok : Nat, failed : Nat]

(* Targets, rolling figures and the counters they come from.               *)
SLA == [target : [Aims -> Nat], actual : [Aims -> Nat], total : Nat, ok : Nat, sum : Nat]

(* The figures of a provider before its first sample.                      *)
FreshSLA(target) ==
  [target |-> target,
   actual |-> [a \in Aims |-> IF a = "response" THEN 0 ELSE 100],
   total |-> 0, ok |-> 0, sum |-> 0]

NoSLA == [total |-> 0]

ProvidersTypeOK ==
  /\ ledger \in Nat
  /\ registered \subseteq Providers
  /\ list \in Seq(Providers)
  /\ rr \in Nat
  /\ metrics \in [Providers -> Metrics]
  /\ lastFailure \in [Providers -> Nat]
  /\ sla \in [Providers -> SLA \cup {NoSLA}]
  /\ \A p \in Providers :
       sla[p] # NoSLA => sla[p].actual["uptime"] \in 0..100 /\ sla[p].actual["success"] \in 0..100
  /\ suspended \subseteq Providers
  /\ waited \in [Providers -> Nat]
  /\ uptimeSum \in [Providers -> Nat]

ProvidersInit ==
  /\ ledger = 1
  /\ registered = {}
  /\ list = <<>>
  /\ rr = 0
  /\ metrics = [p \in Providers |-> NoMetrics]
  /\ lastFailure = [p \in Providers |-> 0]
  /\ sla = [p \in Providers |-> NoSLA]
  /\ suspended = {}
  /\ waited = [p \in Providers |-> 0]
  /\ uptimeSum = [p \in Providers |-> 0]

-----------------------------------------------------------------------------
(* Selection: which providers get_next_available_provider would choose.    *)

(* get_reputation_score                                                    *)
Score(p) ==
  IF metrics[p].total = 0 THEN 100 ELSE (metrics[p].ok * 100) \div metrics[p].total

CoolingDown(p) ==
  /\ lastFailure[p] > 0
  /\ ledger < lastFailure[p] + FailureCooldown
  /\ metrics[p].failed >= MaxFailures

Eligible(p) == p \in registered /\ ~CoolingDown(p)

(* The listed, eligible providers of the highest score.                    *)
Preferred ==
  {p \in Range(list) : Eligible(p) /\ \A q \in Range(list) : Eligible(q) => Score(q) <= Score(p)}

(* The provider at an offset from the round-robin index.                   *)
At(k) == list[((rr + k) % Len(list)) + 1]

(* Looked at from the index on, only a higher score replaces the best.     *)
Chosen ==
  LET first == CHOOSE k \in 0..(Len(list) - 1) :
                 /\ At(k) \in Preferred
                 /\ \A m \in 0..(k - 1) : At(m) \notin Preferred
  IN At(first)

(* Turns are counted as long as the same providers compete.                *)
Recount == waited' = [p \in Providers |-> IF list' = list /\ Preferred' = Preferred
                                          THEN waited[p] ELSE 0]

NextIndexKept == rr % Len(list)   (* mutant: the index does not advance *)

NextIndex == (rr + 1) % Len(list)

GetNextAvailableProvider ==
  /\ Preferred # {}
  /\ rr' = NextIndex
  /\ waited' = [p \in Providers |->
                  IF p \in Preferred /\ p # Chosen THEN waited[p] + 1 ELSE 0]
  /\ UNCHANGED <<ledger, registered, list, metricVars, slaVars>>

-----------------------------------------------------------------------------
(* The registry, kept by the admin.                                        *)

ListedTwice(p) == Append(list, p)   (* mutant: no look for an earlier entry *)

Listed(p) == With(list, p)

AddProvider(p) ==
  /\ registered' = registered \cup {p}
  /\ list' = Listed(p)
  /\ UNCHANGED <<ledger, rr, metricVars, slaVars>>
  /\ Recount

RemoveProvider(p) ==
  /\ registered' = registered \ {p}
  /\ list' = Without(list, p)
  /\ UNCHANGED <<ledger, rr, metricVars, slaVars>>
  /\ Recount

(* record_verification_success and record_verification_failure: anyone may *)
(* call them, for any address.                                             *)
RecordSuccess(p) ==
  /\ metrics[p].total < MaxVerifications
  /\ metrics' = [metrics EXCEPT ![p].total = @ + 1, ![p].ok = @ + 1]
  /\ UNCHANGED <<ledger, registryVars, lastFailure, slaVars>>
  /\ Recount

RecordFailure(p) ==
  /\ metrics[p].total < MaxVerifications
  /\ metrics' = [metrics EXCEPT ![p].total = @ + 1, ![p].failed = @ + 1]
  /\ lastFailure' = [lastFailure EXCEPT ![p] = ledger]
  /\ UNCHANGED <<ledger, registryVars, slaVars>>
  /\ Recount

-----------------------------------------------------------------------------
(* Service levels.                                                         *)

(* set_provider_sla: new targets, the figures and counters stay.           *)
SetProviderSLA(p, target) ==
  /\ p \in Measured
  /\ sla' = [sla EXCEPT ![p] = IF @ = NoSLA THEN FreshSLA(target) ELSE [@ EXCEPT !.target = target]]
  /\ UNCHANGED <<ledger, registryVars, metricVars, suspended, uptimeSum, waited>>

(* The running mean of n samples from that of the n - 1 before.            *)
MeanByEarlierCount(mean, n, sample) ==   (* mutant: weight n for n - 1 *)
  (mean * n + sample) \div n

RunningMean(mean, n, sample) == (mean * (n - 1) + sample) \div n

Sampled(s, x) ==
  LET n == s.total + 1
      ok == s.ok + IF x.ok THEN 1 ELSE 0
      sum == s.sum + x.response
  IN [s EXCEPT !.total = n, !.ok = ok, !.sum = sum,
               !.actual = [response |-> sum \div n,
                           uptime |-> RunningMean(s.actual["uptime"], n, x.uptime),
                           success |-> (ok * 100) \div n]]

(* _compliance_percent: the share of the targets in use that are met.      *)
Compliance(s) ==
  LET used == {a \in Aims : s.target[a] > 0}
      met == {a \in used : IF a = "response" THEN s.actual[a] <= s.target[a]
                           ELSE s.actual[a] >= s.target[a]}
  IN IF used = {} THEN 100 ELSE (Cardinality(met) * 100) \div Cardinality(used)

RecordVerification(p, x) ==
  /\ sla[p] # NoSLA
  /\ sla[p].total < MaxSamples
  /\ sla' = [sla EXCEPT ![p] = Sampled(@, x)]
  /\ uptimeSum' = [uptimeSum EXCEPT ![p] = @ + x.uptime]
  /\ suspended' = IF Compliance(Sampled(sla[p], x)) < Threshold
                  THEN suspended \cup {p} ELSE suspended
  /\ UNCHANGED <<ledger, registryVars, metricVars, waited>>

ReinstateProvider(p) ==
  /\ suspended' = suspended \ {p}
  /\ UNCHANGED <<ledger, registryVars, metricVars, sla, uptimeSum, waited>>

-----------------------------------------------------------------------------

LedgerCloses ==
  /\ ledger < LastLedger
  /\ ledger' = ledger + 1
  /\ UNCHANGED <<registryVars, metricVars, slaVars>>
  /\ Recount

ProviderCall ==
  \/ GetNextAvailableProvider
  \/ \E p \in Providers :
       \/ AddProvider(p) \/ RemoveProvider(p)
       \/ RecordSuccess(p) \/ RecordFailure(p)
       \/ \E target \in TargetSets : SetProviderSLA(p, target)
       \/ \E x \in Samples : RecordVerification(p, x)
       \/ ReinstateProvider(p)

ProvidersSpec == ProvidersInit /\ [][ProviderCall \/ LedgerCloses]_providerVars

-----------------------------------------------------------------------------
(* Properties.                                                             *)

(* The two records of who is a provider agree: the list the selection goes *)
(* through names every registered provider once, and nobody else, through  *)
(* any sequence of additions, repeated additions and removals.             *)
ListIsRegistry ==
  /\ Range(list) = registered
  /\ Len(list) = Cardinality(registered)

(* "No single provider monopolises requests when scores are equal": while  *)
(* the list and the preferred providers stay the same, each preferred      *)
(* provider is chosen within as many selections as there are providers,    *)
(* although the index may point past a list that has shrunk.               *)
PreferredTakeTurns == \A p \in Preferred : waited[p] < Len(list)

(* The list serves every provider, in turns.                               *)
ListServesInTurns == ListIsRegistry /\ PreferredTakeTurns

(* The uptime an SLA is judged by never flatters: it is at most the mean   *)
(* of the samples reported, for the rounding of each step goes downwards.  *)
UptimeNeverFlatters ==
  \A p \in Providers :
    sla[p] # NoSLA /\ sla[p].total > 0 =>
      sla[p].actual["uptime"] * sla[p].total <= uptimeSum[p]

(* The comment in record_verification: "use a simple running mean", that   *)
(* is, the figure stays within one percent of the mean of the samples. The *)
(* code does not keep this, so no run checks it (see the README).          *)
UptimeIsTheMean ==
  \A p \in Providers :
    sla[p] # NoSLA /\ sla[p].total > 0 =>
      (sla[p].actual["uptime"] + 1) * sla[p].total >= uptimeSum[p]

=============================================================================
