----------------------------- MODULE MCProvenance -----------------------------
(***************************************************************************)
(* Instances of Provenance for TLC. Focus keeps the states with up to      *)
(* MaxEntries amendments, links and index entries of any kind, so that     *)
(* each kind is met with each other but not all of them at once.           *)
(***************************************************************************)
EXTENDS Provenance, TLC

CONSTANTS
  a1, a2, m1, m2, m3, c1, c2, t1, t2,
  MaxEntries   (* bound: amendments, links and index entries together      *)

Symmetry == Permutations(Addresses) \cup Permutations(Manifests)

Places(f) == UNION {{i} \X DOMAIN f[i] : i \in DOMAIN f}

Lengths(f) == Cardinality(Places(f))

Load ==
  day + Lengths(history) - Len(certs) + Cardinality({i \in Minted : certs[i].locked})
  + Cardinality({i \in Minted : certs[i].revoked})
  + Cardinality({i \in Ids : code[i] # NoCode}) + Cardinality({i \in Ids : media[i] # NoMedia})
  + Lengths(links) \div 4 + Lengths(tags) + collections + Lengths(certColls) + Lengths(endorsers)

Focus == Load <= IF Len(certs) < MaxCerts THEN MaxEntries ELSE 1

=============================================================================
