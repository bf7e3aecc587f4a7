------------------------------ MODULE MCRegistry ------------------------------
(***************************************************************************)
(* An instance of Registry for TLC. Focus keeps the states with up to      *)
(* MaxEntries entries of all kinds, so that each kind meets each other.    *)
(***************************************************************************)
EXTENDS Registry, TLC

CONSTANTS
  h1, h2, h3, p1, p2,
  MaxEntries   (* bound: entries of every kind together                    *)

Symmetry == Permutations(Hashes) \cup Permutations(Providers)

TeeEntries ==
  Cardinality(approved) + Cardinality({h \in Hashes : migration[h] # NoHash}) + Len(versionLog)

ProviderEntries(p) ==
  Cardinality({S \in {registered, blacklist} : p \in S})
  + (IF info[p] \in {"none", "Active"} THEN 0 ELSE 1)
  + reputation[p].total + capacity[p].max + capacity[p].active + Len(groupsOf[p])

Entries ==
  TeeEntries + MapThenSumSet(ProviderEntries, Providers)
  + Len(applications) + Len(members) + Len(proposals)

Focus == Entries <= MaxEntries

=============================================================================
