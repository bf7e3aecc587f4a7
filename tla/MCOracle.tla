------------------------------- MODULE MCOracle -------------------------------
(***************************************************************************)
(* Instances of Oracle for TLC. A run follows what subject names: the      *)
(* selection among several providers and their SLAs, by the calls of       *)
(* OracleProviders alone, or the whole contract with the one provider p1.  *)
(* The bounds would each be reached together with all the others: a run    *)
(* keeps to the combinations of a few entries of any kinds.                *)
(***************************************************************************)
EXTENDS Oracle, TLC

CONSTANTS
  p1, p2, p3,
  h1, h2,
  Subjects,
  MaxEntries,  (* bound: requests, deposited units, disputes, anchors and  *)
               (* reported verifications taken together                    *)
  MaxReports   (* bound: reported verifications and SLA samples together,  *)
               (* when only providers are followed                         *)

VARIABLE subject

Targets(response, uptime, success) ==
  [a \in Aims |-> IF a = "response" THEN response ELSE IF a = "uptime" THEN uptime ELSE success]

MCTargets == {Targets(1, 60, 90), Targets(0, 60, 0)}

MCSamples ==
  {[ok |-> TRUE, response |-> 1, uptime |-> 100], [ok |-> FALSE, response |-> 3, uptime |-> 0]}

Symmetry == Permutations(Packages)

(* Nothing is recorded of a provider but p1, and nobody has an SLA.        *)
OnlyFirst ==
  /\ registered \subseteq {p1}
  /\ \A p \in Providers \ {p1} : metrics[p] = NoMetrics /\ deposited[p] = 0
  /\ \A d \in DOMAIN disputes : disputes[d].provider = p1
  /\ \A p \in Providers : sla[p] = NoSLA

Entries ==
  nextId + deposited[p1] + metrics[p1].total + Len(disputes)
  + Cardinality(UNION {{d} \X DOMAIN evidence[d] : d \in DOMAIN evidence})

FocusContract == OnlyFirst /\ Entries <= MaxEntries

Reports == metrics[p1].total + metrics[p2].total + metrics[p3].total + sla[p1].total

FocusProviders == Reports <= MaxReports

MCVars == <<subject, vars>>

MCInit == Init /\ subject \in Subjects

MCNext ==
  /\ UNCHANGED subject
  /\ \/ subject = "providers" /\ ProviderStep /\ FocusProviders'
     \/ subject = "contract" /\ Next /\ FocusContract'

MCSpec == MCInit /\ [][MCNext]_MCVars

=============================================================================
