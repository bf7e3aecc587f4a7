--------------------------- MODULE ProvenanceProofs ---------------------------
(***************************************************************************)
(* Theorems about Provenance: for any number of certificates, manifests,   *)
(* codes and tags, and any order of calls.                                 *)
(***************************************************************************)
EXTENDS Provenance, ListProofs, SequenceTheorems, TLAPS

-----------------------------------------------------------------------------
(* The certificates, which every other part refers to by position.         *)

CertsInv == certs \in Seq(Cert) /\ Len(certs) <= MaxCerts

LEMMA MintedAreIds ==
  ASSUME CertsInv
  PROVE  Minted \subseteq Ids /\ Minted = 1..Len(certs) /\ Len(certs) \in Nat
BY CertificatesConstants DEF CertsInv, Minted, Ids

(* What is minted at once.                                                 *)
LEMMA BatchOf ==
  /\ \A m \in Manifests : <<m>> \in Seq(Manifests)
  /\ \A n \in 2..BatchLimit : [1..n -> Manifests] \subseteq Seq(Manifests)
<1>1. \A m \in Manifests : <<m>> \in Seq(Manifests)
  OBVIOUS
<1>2. ASSUME NEW n \in 2..BatchLimit, NEW ms \in [1..n -> Manifests]
      PROVE  ms \in Seq(Manifests)
  BY n \in Nat
<1> QED BY <1>1, <1>2

LEMMA MintStepIsBatch ==
  ASSUME NEW to \in Addresses, MintStep(to)
  PROVE  \E ms \in Seq(Manifests) : MintBatch(ms, to)
BY BatchOf DEF MintStep, Mint

(* A batch leaves the certificates before it and appends one for each      *)
(* manifest.                                                               *)
LEMMA BatchAppends ==
  ASSUME CertsInv, NEW ms \in Seq(Manifests), NEW to \in Addresses, MintBatch(ms, to)
  PROVE  /\ CertsInv'
         /\ Len(certs') = Len(certs) + Len(ms)
         /\ \A i \in Minted : i \in Minted' /\ certs'[i] = certs[i]
         /\ \A k \in DOMAIN ms :
              certs'[Len(certs) + k] =
                [manifest |-> ms[k], creator |-> to, revoked |-> FALSE, locked |-> FALSE]
<1> DEFINE new == [k \in DOMAIN ms |->
       [manifest |-> ms[k], creator |-> to, revoked |-> FALSE, locked |-> FALSE]]
<1>1. certs' = certs \o new /\ Len(certs) + Len(ms) <= MaxCerts
  BY DEF MintBatch
<1>2. certs \in Seq(Cert)
  BY DEF CertsInv
<1>3. Len(ms) \in Nat /\ DOMAIN ms = 1..Len(ms) /\ \A k \in DOMAIN ms : ms[k] \in Manifests
  OBVIOUS
<1>4. \A k \in 1..Len(ms) : new[k] \in Cert
  BY <1>3 DEF Cert
<1>5. new \in Seq(Cert) /\ Len(new) = Len(ms)
  <2>1. new \in [1..Len(ms) -> Cert]
    BY <1>3, <1>4
  <2> HIDE DEF new
  <2> QED BY <1>3, <2>1
<1> HIDE DEF new
<1>6. certs' \in Seq(Cert) /\ Len(certs') = Len(certs) + Len(new)
  <2>1. certs \o new \in Seq(Cert) /\ Len(certs \o new) = Len(certs) + Len(new)
    BY <1>2, <1>5, ConcatProperties
  <2> QED BY <1>1, <2>1
<1>7. \A i \in 1..Len(certs) + Len(new) :
        certs'[i] = IF i <= Len(certs) THEN certs[i] ELSE new[i - Len(certs)]
  <2>1. \A i \in 1..Len(certs) + Len(new) :
          (certs \o new)[i] = IF i <= Len(certs) THEN certs[i] ELSE new[i - Len(certs)]
    BY <1>2, <1>5, ConcatProperties
  <2> QED BY <1>1, <2>1
<1>8. \A k \in 1..Len(ms) : certs'[Len(certs) + k] = new[k]
  <2>1. Len(certs) \in Nat
    BY <1>2
  <2> QED BY <1>3, <1>5, <1>7, <2>1
<1>9. \A i \in Minted : i \in Minted' /\ certs'[i] = certs[i]
  BY <1>2, <1>3, <1>5, <1>6, <1>7 DEF Minted
<1> QED BY <1>1, <1>3, <1>5, <1>6, <1>8, <1>9 DEF CertsInv, new

(* Revoking and locking change one certificate in place; the other         *)
(* amendments change none.                                                 *)
LEMMA AmendKeeps ==
  ASSUME CertsInv, NEW i \in Minted, AmendStep(i)
  PROVE  /\ CertsInv' /\ Minted' = Minted
         /\ \A j \in Minted \ {i} : certs'[j] = certs[j]
         /\ certs'[i].creator = certs[i].creator /\ certs'[i].manifest = certs[i].manifest
         /\ certs[i].revoked => certs'[i].revoked
         /\ certs[i].locked => certs'[i] = certs[i]
<1>0. certs \in Seq(Cert) /\ certs[i] \in Cert /\ Minted = 1..Len(certs)
  BY DEF CertsInv, Minted
<1>1. CASE UNCHANGED certs
  BY <1>1, <1>0 DEF CertsInv, Minted
<1>2. CASE certs' = [certs EXCEPT ![i].revoked = TRUE] /\ Amendable(i)
  <2>1. [certs[i] EXCEPT !.revoked = TRUE] \in Cert
    BY <1>0 DEF Cert
  <2>2. certs' \in Seq(Cert) /\ Len(certs') = Len(certs)
    BY <1>0, <1>2, <2>1 DEF Minted
  <2> QED BY <1>0, <1>2, <2>2 DEF CertsInv, Minted, Cert, Amendable
<1>3. CASE certs' = [certs EXCEPT ![i].locked = TRUE]
  <2>1. [certs[i] EXCEPT !.locked = TRUE] \in Cert
    BY <1>0 DEF Cert
  <2>2. certs' \in Seq(Cert) /\ Len(certs') = Len(certs)
    BY <1>0, <1>3, <2>1 DEF Minted
  <2> QED BY <1>0, <1>3, <2>2 DEF CertsInv, Minted, Cert
<1>4. \/ UNCHANGED certs
      \/ certs' = [certs EXCEPT ![i].revoked = TRUE] /\ Amendable(i)
      \/ certs' = [certs EXCEPT ![i].locked = TRUE]
  BY DEF AmendStep, TransferCertificate, UpdateMetadata, AddAnchor, RevokeCertificate,
         LockCertificate
<1> QED BY <1>1, <1>2, <1>3, <1>4

(* Every other step leaves the certificates and their records alone.       *)
LEMMA OtherStepsKeepCerts ==
  ASSUME \/ UNCHANGED vars
         \/ DayPasses
         \/ \E i \in Minted : LinkStep(i)
         \/ CreateCollection
         \/ \E i \in Minted : IndexStep(i)
  PROVE  UNCHANGED <<certs, mintVars, amendVars>>
<1>1. CASE UNCHANGED vars \/ DayPasses \/ CreateCollection
  BY <1>1 DEF vars, certificateVars, DayPasses, CreateCollection
<1>2. ASSUME NEW i \in Minted, LinkStep(i)
      PROVE  UNCHANGED <<certs, mintVars, amendVars>>
  BY <1>2 DEF LinkStep, LinkCertificates
<1>3. ASSUME NEW i \in Minted, IndexStep(i)
      PROVE  UNCHANGED <<certs, mintVars, amendVars>>
  BY <1>3 DEF IndexStep, GenerateVerificationCode, SetMediaProperties, TagStep, AddTag,
              RemoveTag, SetTags, AddCertificateToCollection, EndorseCertificate,
              RemoveEndorsement, certificateVars
<1> QED BY <1>1, <1>2, <1>3

LEMMA StepCases ==
  ASSUME [Next]_vars
  PROVE  \/ \E to \in Addresses : MintStep(to) /\ UNCHANGED indexVars
         \/ \E i \in Minted : AmendStep(i) /\ UNCHANGED indexVars
         \/ UNCHANGED vars
         \/ DayPasses /\ UNCHANGED indexVars
         \/ (\E i \in Minted : LinkStep(i)) /\ UNCHANGED indexVars
         \/ CreateCollection
         \/ \E i \in Minted : IndexStep(i)
BY DEF Next, CertificateStep, CertificatesNext

LEMMA CertsStep ==
  ASSUME CertsInv, [Next]_vars
  PROVE  CertsInv'
<1>1. ASSUME NEW to \in Addresses, MintStep(to) PROVE CertsInv'
  BY <1>1, MintStepIsBatch, BatchAppends
<1>2. ASSUME NEW i \in Minted, AmendStep(i) PROVE CertsInv'
  BY <1>2, AmendKeeps
<1>3. CASE UNCHANGED certs
  BY <1>3 DEF CertsInv
<1> QED BY <1>1, <1>2, <1>3, StepCases, OtherStepsKeepCerts

LEMMA CertsInit == Init => CertsInv
<1> SUFFICES ASSUME Init PROVE CertsInv
  OBVIOUS
<1>1. certs = <<>>
  BY DEF Init, CertificatesInit
<1> QED BY <1>1, CertificatesConstants DEF CertsInv

-----------------------------------------------------------------------------
(* Verification codes. Only GenerateVerificationCode writes the two maps.  *)

CodesInv ==
  /\ CertsInv
  /\ code \in [Ids -> Codes \cup {NoCode}]
  /\ coded \in [Codes -> 0..MaxCerts]
  /\ CodesResolve

LEMMA OnlyGenerateChangesCodes ==
  ASSUME [Next]_vars
  PROVE  \/ UNCHANGED codeVars
         \/ \E i \in Minted : GenerateVerificationCode(i)
<1>1. ASSUME NEW i \in Minted, IndexStep(i), ~GenerateVerificationCode(i)
      PROVE  UNCHANGED codeVars
  BY <1>1 DEF IndexStep, SetMediaProperties, TagStep, AddTag, RemoveTag, SetTags,
              AddCertificateToCollection, EndorseCertificate, RemoveEndorsement
<1>2. CASE UNCHANGED vars \/ UNCHANGED indexVars \/ CreateCollection
  BY <1>2 DEF vars, indexVars, CreateCollection
<1> QED BY <1>1, <1>2, StepCases

(* The new code is free once the old one is removed, so it leads nowhere   *)
(* else; and the old one leads nowhere.                                    *)
LEMMA GenerateKeepsCodes ==
  ASSUME CodesInv, NEW i \in Minted, GenerateVerificationCode(i)
  PROVE  /\ code' \in [Ids -> Codes \cup {NoCode}]
         /\ coded' \in [Codes -> 0..MaxCerts]
         /\ CodesResolve'
<1>0. i \in Ids /\ i \in 0..MaxCerts /\ i # 0 /\ 0 \in 0..MaxCerts
  BY MintedAreIds, CertificatesConstants DEF CodesInv, Ids
<1>1. PICK c \in Codes :
        /\ OldCodeRemoved(i)[c] = 0
        /\ coded' = [OldCodeRemoved(i) EXCEPT ![c] = i]
        /\ code' = [code EXCEPT ![i] = c]
  BY DEF GenerateVerificationCode
<1>2. \A d \in Codes : OldCodeRemoved(i)[d] = IF d = code[i] THEN 0 ELSE coded[d]
  BY DEF OldCodeRemoved
<1>3. OldCodeRemoved(i) \in [Codes -> 0..MaxCerts]
  BY <1>0 DEF OldCodeRemoved, CodesInv
<1>4. /\ coded' \in [Codes -> 0..MaxCerts]
      /\ \A d \in Codes : coded'[d] = IF d = c THEN i ELSE OldCodeRemoved(i)[d]
  BY <1>0, <1>1, <1>3
<1>5. /\ code' \in [Ids -> Codes \cup {NoCode}]
      /\ \A k \in Ids : code'[k] = IF k = i THEN c ELSE code[k]
  BY <1>0, <1>1 DEF CodesInv
<1>6. ASSUME NEW k \in Ids, NEW d \in Codes
      PROVE  coded'[d] = k <=> code'[k] = d
  <2>0. k # 0
    BY DEF Ids
  <2>1. /\ coded[d] = k <=> code[k] = d
        /\ coded[d] = i <=> code[i] = d
    BY <1>0 DEF CodesInv, CodesResolve
  <2>2. CASE d = c
    BY <1>0, <1>1, <1>2, <1>4, <1>5, <2>0, <2>1, <2>2
  <2>3. CASE d # c
    BY <1>0, <1>2, <1>4, <1>5, <2>0, <2>1, <2>3
  <2> QED BY <2>2, <2>3
<1> QED BY <1>4, <1>5, <1>6 DEF CodesResolve

LEMMA CodesInvHolds == Spec => []CodesInv
<1>1. Init => CodesInv
  <2> SUFFICES ASSUME Init PROVE CodesInv
    OBVIOUS
  <2>1. /\ code = [i \in Ids |-> NoCode] /\ coded = [c \in Codes |-> 0]
        /\ 0 \in 0..MaxCerts /\ 0 \notin Ids
    BY CertificatesConstants DEF Init, Ids
  <2> QED BY <2>1, CertsInit, ProvenanceConstants DEF CodesInv, CodesResolve
<1>2. CodesInv /\ [Next]_vars => CodesInv'
  <2> SUFFICES ASSUME CodesInv, [Next]_vars PROVE CodesInv'
    OBVIOUS
  <2>1. CertsInv'
    BY CertsStep DEF CodesInv
  <2>2. CASE UNCHANGED codeVars
    BY <2>1, <2>2 DEF CodesInv, CodesResolve, codeVars
  <2>3. CASE \E i \in Minted : GenerateVerificationCode(i)
    BY <2>1, <2>3, GenerateKeepsCodes DEF CodesInv
  <2> QED BY <2>2, <2>3, OnlyGenerateChangesCodes
<1> QED BY <1>1, <1>2, PTL DEF Spec

(* For any set of codes, used up or not, and any number of regenerations,  *)
(* an accepted code is the current code of one certificate.                *)
THEOREM CodesAlwaysResolve == Spec => []CodesResolve
<1>1. CodesInv => CodesResolve
  BY DEF CodesInv
<1> QED BY <1>1, CodesInvHolds, PTL

-----------------------------------------------------------------------------
(* The deduplication index.                                                *)

ManifestInv ==
  /\ CertsInv
  /\ manifestIndex \in [Manifests -> 0..MaxCerts]
  /\ ManifestIndexExact

(* A batch is refused if one of its manifests is known or repeated, so the *)
(* index entries it writes are new and lead to different certificates.     *)
LEMMA BatchKeepsManifestIndex ==
  ASSUME ManifestInv, NEW ms \in Seq(Manifests), NEW to \in Addresses, MintBatch(ms, to)
  PROVE  /\ manifestIndex' \in [Manifests -> 0..MaxCerts]
         /\ ManifestIndexExact'
<1> DEFINE n == Len(certs)
<1>1. /\ n \in Nat /\ Len(ms) \in Nat /\ n + Len(ms) <= MaxCerts
      /\ DOMAIN ms = 1..Len(ms)
      /\ Minted = 1..n /\ Minted' = 1..(n + Len(ms))
      /\ \A i \in 1..n : certs'[i].manifest = certs[i].manifest
      /\ \A k \in 1..Len(ms) : certs'[n + k].manifest = ms[k]
  <2>1. /\ n \in Nat /\ Len(ms) \in Nat /\ DOMAIN ms = 1..Len(ms) /\ Minted = 1..n
    BY MintedAreIds DEF ManifestInv
  <2>2. n + Len(ms) <= MaxCerts
    BY DEF MintBatch
  <2>3. certs' \in Seq(Cert) /\ Len(certs') = n + Len(ms)
    BY BatchAppends DEF ManifestInv, CertsInv
  <2>4. Minted' = 1..(n + Len(ms))
    BY <2>3 DEF Minted
  <2>5. \A i \in 1..n : certs'[i] = certs[i]
    BY <2>1, BatchAppends DEF ManifestInv
  <2>6. ASSUME NEW k \in DOMAIN ms
        PROVE  certs'[n + k].manifest = ms[k]
    <3>1. certs'[n + k] =
            [manifest |-> ms[k], creator |-> to, revoked |-> FALSE, locked |-> FALSE]
      BY BatchAppends DEF ManifestInv
    <3> QED BY <3>1
  <2> QED BY <2>1, <2>2, <2>4, <2>5, <2>6
<1>2. \A m \in Manifests :
        manifestIndex'[m] = IF m \in Range(ms) THEN n + CHOOSE k \in DOMAIN ms : ms[k] = m
                                               ELSE manifestIndex[m]
  BY DEF MintBatch
<1>3. /\ \A k \in DOMAIN ms : manifestIndex[ms[k]] = 0
      /\ \A k, l \in DOMAIN ms : ms[k] = ms[l] => k = l
  BY DEF MintBatch, Unseen, IsInjective
<1>4. ASSUME NEW k \in DOMAIN ms
      PROVE  manifestIndex'[ms[k]] = n + k
  <2>1. (CHOOSE l \in DOMAIN ms : ms[l] = ms[k]) = k
    BY <1>3
  <2>2. ms[k] \in Manifests /\ ms[k] \in Range(ms)
    BY DEF Range
  <2> QED BY <1>2, <2>1, <2>2
<1>5. \A m \in Manifests \ Range(ms) : manifestIndex'[m] = manifestIndex[m]
  BY <1>2
<1>6. \A m \in Range(ms) : \E k \in DOMAIN ms : ms[k] = m
  BY DEF Range
<1>7. ASSUME NEW m \in Manifests, NEW i \in Ids
      PROVE  manifestIndex'[m] = i <=> i \in Minted' /\ certs'[i].manifest = m
  <2>0. manifestIndex[m] = i <=> i \in 1..n /\ certs[i].manifest = m
    BY <1>1 DEF ManifestInv, ManifestIndexExact
  <2>1. i \in Nat /\ i >= 1
    BY CertificatesConstants DEF Ids
  <2>2. i \in 1..(n + Len(ms)) => i \in 1..n \/ \E l \in 1..Len(ms) : i = n + l
    <3> SUFFICES ASSUME i \in 1..(n + Len(ms)), i \notin 1..n
                 PROVE  \E l \in 1..Len(ms) : i = n + l
      OBVIOUS
    <3>1. i - n \in 1..Len(ms) /\ i = n + (i - n)
      BY <1>1, <2>1
    <3> QED BY <3>1
  <2>3. CASE m \in Range(ms)
    <3>1. PICK k \in DOMAIN ms : ms[k] = m
      BY <1>6, <2>3
    <3>2. manifestIndex[m] = 0 /\ manifestIndex'[m] = n + k
      BY <1>3, <1>4, <3>1
    <3>3. CASE i = n + k
      BY <1>1, <3>1, <3>2, <3>3
    <3>4. CASE i # n + k
      <4>1. ASSUME i \in 1..(n + Len(ms)), certs'[i].manifest = m
            PROVE  FALSE
        <5>1. CASE i \in 1..n
          BY <1>1, <2>0, <2>1, <3>2, <4>1, <5>1
        <5>2. ASSUME NEW l \in 1..Len(ms), i = n + l
              PROVE  FALSE
          <6>1. ms[l] = m
            BY <1>1, <4>1, <5>2
          <6>2. l = k
            BY <1>1, <1>3, <3>1, <6>1
          <6> QED BY <3>4, <5>2, <6>2
        <5> QED BY <2>2, <4>1, <5>1, <5>2
      <4> QED BY <1>1, <3>2, <3>4, <4>1
    <3> QED BY <3>3, <3>4
  <2>4. CASE m \notin Range(ms)
    <3>1. manifestIndex'[m] = manifestIndex[m]
      BY <1>5, <2>4
    <3>2. CASE i \in 1..n
      BY <1>1, <2>0, <3>1, <3>2
    <3>3. CASE i \notin 1..n
      <4>1. \A l \in 1..Len(ms) : ms[l] # m
        BY <1>1, <2>4 DEF Range
      <4> QED BY <1>1, <2>0, <2>2, <3>1, <3>3, <4>1
    <3> QED BY <3>2, <3>3
  <2> QED BY <2>3, <2>4
<1>8. manifestIndex' \in [Manifests -> 0..MaxCerts]
  <2>1. ASSUME NEW m \in Manifests PROVE manifestIndex'[m] \in 0..MaxCerts
    <3>1. CASE m \in Range(ms)
      <4>1. PICK k \in 1..Len(ms) : manifestIndex'[m] = n + k
        BY <1>1, <1>4, <1>6, <3>1
      <4> QED BY <1>1, <4>1, CertificatesConstants
    <3>2. CASE m \notin Range(ms)
      BY <1>5, <3>2 DEF ManifestInv
    <3> QED BY <3>1, <3>2
  <2>2. manifestIndex' = [m \in Manifests |-> manifestIndex'[m]]
    BY DEF MintBatch
  <2> QED BY <2>1, <2>2
<1> QED BY <1>7, <1>8 DEF ManifestIndexExact

LEMMA ManifestInvHolds == Spec => []ManifestInv
<1>1. Init => ManifestInv
  <2> SUFFICES ASSUME Init PROVE ManifestInv
    OBVIOUS
  <2>1. /\ certs = <<>> /\ manifestIndex = [m \in Manifests |-> 0]
        /\ 0 \in 0..MaxCerts /\ 0 \notin Ids
    BY CertificatesConstants DEF Init, CertificatesInit, Ids
  <2>2. Minted = {}
    BY <2>1 DEF Minted
  <2> QED BY <2>1, <2>2, CertsInit DEF ManifestInv, ManifestIndexExact
<1>2. ManifestInv /\ [Next]_vars => ManifestInv'
  <2> SUFFICES ASSUME ManifestInv, [Next]_vars PROVE ManifestInv'
    OBVIOUS
  <2>0. CertsInv'
    BY CertsStep DEF ManifestInv
  <2>1. ASSUME NEW to \in Addresses, MintStep(to) PROVE ManifestInv'
    BY <2>0, <2>1, MintStepIsBatch, BatchKeepsManifestIndex DEF ManifestInv
  <2>2. ASSUME NEW i \in Minted, AmendStep(i) PROVE ManifestInv'
    <3>1. UNCHANGED manifestIndex
      BY <2>2 DEF AmendStep, TransferCertificate, UpdateMetadata, AddAnchor,
                  RevokeCertificate, LockCertificate, mintVars
    <3>2. Minted' = Minted /\ \A j \in Minted : certs'[j].manifest = certs[j].manifest
      BY <2>2, AmendKeeps DEF ManifestInv
    <3> QED BY <2>0, <3>1, <3>2 DEF ManifestInv, ManifestIndexExact
  <2>3. CASE UNCHANGED <<certs, mintVars>>
    BY <2>3 DEF ManifestInv, CertsInv, ManifestIndexExact, Minted, mintVars
  <2> QED BY <2>1, <2>2, <2>3, StepCases, OtherStepsKeepCerts
<1> QED BY <1>1, <1>2, PTL DEF Spec

(* For any batch limit and any manifests: one certificate per manifest,    *)
(* and the index leads to it.                                              *)
THEOREM ManifestsAreUnique == Spec => []ManifestIndexExact
<1>1. ManifestInv => ManifestIndexExact
  BY DEF ManifestInv
<1> QED BY <1>1, ManifestInvHolds, PTL

-----------------------------------------------------------------------------
(* The lock.                                                               *)

LockInv ==
  /\ CertsInv
  /\ DOMAIN currentOwner = Ids
  /\ DOMAIN version = Ids
  /\ DOMAIN tags = Ids

LEMMA TagStepOfLocked ==
  ASSUME LockInv, NEW i \in Minted, TagStep(i)
  PROVE  /\ DOMAIN tags' = Ids
         /\ \A j \in Ids : certs[j].locked => tags'[j] = tags[j]
<1>1. PICK new : tags' = [tags EXCEPT ![i] = new] /\ ~certs[i].locked
  <2>1. ASSUME NEW t \in Tags, AddTag(i, t) \/ RemoveTag(i, t)
        PROVE  \E new : tags' = [tags EXCEPT ![i] = new] /\ ~certs[i].locked
    BY <2>1 DEF AddTag, RemoveTag, Amendable
  <2>2. ASSUME NEW new, SetTags(i, new)
        PROVE  tags' = [tags EXCEPT ![i] = new] /\ ~certs[i].locked
    BY <2>2 DEF SetTags, Amendable
  <2> QED BY <2>1, <2>2 DEF TagStep
<1> QED BY <1>1 DEF LockInv

LEMMA StepOfTags ==
  ASSUME LockInv, [Next]_vars
  PROVE  /\ DOMAIN tags' = Ids
         /\ \A j \in Ids : certs[j].locked => tags'[j] = tags[j]
<1>1. CASE UNCHANGED tags
  BY <1>1 DEF LockInv
<1>2. ASSUME NEW i \in Minted, IndexStep(i), ~TagStep(i)
      PROVE  UNCHANGED tags
  BY <1>2 DEF IndexStep, GenerateVerificationCode, SetMediaProperties,
              AddCertificateToCollection, EndorseCertificate, RemoveEndorsement, tagVars
<1>3. CASE UNCHANGED vars \/ UNCHANGED indexVars \/ CreateCollection
  BY <1>1, <1>3 DEF vars, indexVars, tagVars, CreateCollection
<1> QED BY <1>1, <1>2, <1>3, TagStepOfLocked, StepCases

LEMMA AmendOfLocked ==
  ASSUME LockInv, NEW i \in Minted, AmendStep(i)
  PROVE  /\ DOMAIN currentOwner' = Ids /\ DOMAIN version' = Ids
         /\ \A j \in Ids : certs[j].locked =>
              currentOwner'[j] = currentOwner[j] /\ version'[j] = version[j]
<1>1. ASSUME NEW to \in Addresses, TransferCertificate(i, to)
      PROVE  /\ ~certs[i].locked /\ currentOwner' = [currentOwner EXCEPT ![i] = to]
             /\ UNCHANGED version
  BY <1>1 DEF TransferCertificate, Amendable
<1>2. ASSUME UpdateMetadata(i)
      PROVE  /\ ~certs[i].locked /\ version' = [version EXCEPT ![i] = @ + 1]
             /\ UNCHANGED currentOwner
  BY <1>2 DEF UpdateMetadata, Amendable
<1>3. ASSUME AddAnchor(i) \/ RevokeCertificate(i) \/ LockCertificate(i)
      PROVE  UNCHANGED <<currentOwner, version>>
  BY <1>3 DEF AddAnchor, RevokeCertificate, LockCertificate, amendVars
<1> QED BY <1>1, <1>2, <1>3 DEF AmendStep, LockInv

LEMMA LockInvStep ==
  ASSUME LockInv, [Next]_vars
  PROVE  LockInv'
<1>0. CertsInv' /\ DOMAIN tags' = Ids
  BY CertsStep, StepOfTags DEF LockInv
<1>1. ASSUME NEW to \in Addresses, MintStep(to)
      PROVE  UNCHANGED <<currentOwner, version>>
  BY <1>1, MintStepIsBatch DEF MintBatch
<1>2. ASSUME NEW i \in Minted, AmendStep(i)
      PROVE  DOMAIN currentOwner' = Ids /\ DOMAIN version' = Ids
  BY <1>2, AmendOfLocked
<1>3. CASE UNCHANGED amendVars
  BY <1>0, <1>3 DEF LockInv, amendVars
<1> QED BY <1>0, <1>1, <1>2, <1>3, StepCases, OtherStepsKeepCerts DEF LockInv

LEMMA LockedKept ==
  ASSUME LockInv, [Next]_vars, NEW i \in Minted
  PROVE  /\ certs'[i].creator = certs[i].creator /\ certs'[i].manifest = certs[i].manifest
         /\ certs[i].revoked => certs'[i].revoked
         /\ certs[i].locked =>
              /\ certs'[i] = certs[i]
              /\ Owner(i)' = Owner(i)
              /\ version'[i] = version[i]
              /\ tags'[i] = tags[i]
<1>0. i \in Ids /\ (certs[i].locked => tags'[i] = tags[i])
  BY MintedAreIds, StepOfTags DEF LockInv
<1>1. ASSUME NEW to \in Addresses, MintStep(to)
      PROVE  certs'[i] = certs[i] /\ UNCHANGED <<currentOwner, version>>
  <2>1. PICK ms \in Seq(Manifests) : MintBatch(ms, to)
    BY <1>1, MintStepIsBatch
  <2> QED BY <2>1, BatchAppends DEF LockInv, MintBatch
<1>2. ASSUME NEW j \in Minted, AmendStep(j)
      PROVE  /\ certs'[i].creator = certs[i].creator
             /\ certs'[i].manifest = certs[i].manifest
             /\ certs[i].revoked => certs'[i].revoked
             /\ certs[i].locked => /\ certs'[i] = certs[i]
                                  /\ currentOwner'[i] = currentOwner[i]
                                  /\ version'[i] = version[i]
  BY <1>0, <1>2, AmendKeeps, AmendOfLocked DEF LockInv
<1>3. CASE UNCHANGED <<certs, mintVars, amendVars>>
  BY <1>0, <1>3 DEF Owner, amendVars
<1>4. ASSUME NEW to \in Addresses, MintStep(to)
      PROVE  certs'[i] = certs[i] /\ Owner(i)' = Owner(i) /\ version'[i] = version[i]
  BY <1>1, <1>4 DEF Owner
<1>5. ASSUME NEW j \in Minted, AmendStep(j), certs[i].locked
      PROVE  Owner(i)' = Owner(i)
  BY <1>2, <1>5 DEF Owner
<1>6. CASE \E to \in Addresses : MintStep(to)
  BY <1>0, <1>4, <1>6
<1>7. CASE \E j \in Minted : AmendStep(j)
  BY <1>0, <1>2, <1>5, <1>7
<1> QED BY <1>3, <1>6, <1>7, StepCases, OtherStepsKeepCerts

(* No call changes a locked certificate's owner, metadata, tags or         *)
(* revocation, whichever index it goes through.                            *)
THEOREM LockHolds == Spec => LockedStaysPut
<1>1. Init => LockInv
  BY CertsInit DEF Init, CertificatesInit, LockInv
<1>2. LockInv /\ [Next]_vars => LockInv'
  BY LockInvStep
<1>3. LockInv /\ [Next]_vars =>
        [\A i \in Minted :
           /\ certs'[i].creator = certs[i].creator /\ certs'[i].manifest = certs[i].manifest
           /\ certs[i].revoked => certs'[i].revoked
           /\ certs[i].locked =>
                /\ certs'[i] = certs[i]
                /\ Owner(i)' = Owner(i)
                /\ version'[i] = version[i]
                /\ tags'[i] = tags[i]]_vars
  BY LockedKept
<1> QED BY <1>1, <1>2, <1>3, PTL DEF Spec, LockedStaysPut

-----------------------------------------------------------------------------
(* The amendment history, certificate by certificate.                      *)

EntriesOf(h, action) == {k \in DOMAIN h : h[k].action = action}

(* What the history h tells of the creator c, the owner o, the number t of *)
(* transfers and the version v.                                            *)
Tells(h, c, o, t, v) ==
  /\ EntriesOf(h, "minted") = {1}
  /\ h[1].modifier = c
  /\ Cardinality(EntriesOf(h, "transferred")) = t
  /\ Cardinality(EntriesOf(h, "metadata_updated")) = v
  /\ \A k, l \in EntriesOf(h, "transferred") :
       k < l /\ EntriesOf(h, "transferred") \cap (k + 1)..(l - 1) = {}
       => h[k].modifier # h[l].modifier
  /\ \A k \in EntriesOf(h, "transferred") :
       (\A l \in EntriesOf(h, "transferred") : l <= k) => h[k].modifier # o

HistoryInv ==
  /\ CertsInv
  /\ currentOwner \in [Ids -> Addresses \cup {Nobody}]
  /\ history \in [Ids -> Seq(HistoryEntry)]
  /\ transfers \in [Ids -> Nat] /\ version \in [Ids -> Nat]
  /\ \A i \in Ids \ Minted :
       history[i] = << >> /\ currentOwner[i] = Nobody /\ transfers[i] = 0 /\ version[i] = 0
  /\ \A i \in Minted : Tells(history[i], certs[i].creator, Owner(i), transfers[i], version[i])

LEMMA EntriesAppended ==
  ASSUME NEW h \in Seq(HistoryEntry), NEW e \in HistoryEntry, NEW action
  PROVE  LET g == Append(h, e)
             E == EntriesOf(h, action)
             F == EntriesOf(g, action)
         IN
         /\ g \in Seq(HistoryEntry) /\ Len(g) = Len(h) + 1
         /\ g[Len(h) + 1] = e /\ \A k \in 1..Len(h) : g[k] = h[k]
         /\ E \subseteq 1..Len(h) /\ Cardinality(E) \in Nat
         /\ e.action = action => F = E \cup {Len(h) + 1} /\ Cardinality(F) = Cardinality(E) + 1
         /\ e.action # action => F = E
<1> DEFINE n == Len(h)
           g == Append(h, e)
           E == EntriesOf(h, action)
           F == EntriesOf(g, action)
<1>1. /\ g \in Seq(HistoryEntry) /\ Len(g) = n + 1
      /\ g[n + 1] = e /\ \A k \in 1..n : g[k] = h[k]
  OBVIOUS
<1>2. n \in Nat /\ DOMAIN h = 1..n /\ DOMAIN g = 1..(n + 1)
  BY <1>1
<1> HIDE DEF n, g
<1>3. E \subseteq 1..n
  BY <1>2 DEF EntriesOf
<1>4. IsFiniteSet(E) /\ Cardinality(E) \in Nat
  <2>1. 1 \in Int /\ n \in Int
    BY <1>2
  <2>2. IsFiniteSet(1..n)
    BY ONLY <2>1, FS_Interval
  <2> QED BY <1>3, <2>2, FS_Subset, FS_CardinalityType
<1>5. e.action = action => F = E \cup {n + 1}
  BY <1>1, <1>2 DEF EntriesOf
<1>6. e.action # action => F = E
  BY <1>1, <1>2 DEF EntriesOf
<1>7. n + 1 \notin E
  BY <1>2, <1>3
<1> HIDE DEF E, F
<1>8. Cardinality(E \cup {n + 1}) = Cardinality(E) + 1
  BY <1>4, <1>7, FS_AddElement
<1>9. e.action = action => Cardinality(F) = Cardinality(E) + 1
  BY <1>5, <1>8
<1> QED BY <1>1, <1>3, <1>4, <1>5, <1>6, <1>9 DEF n, g, E, F

LEMMA EntryAdded ==
  ASSUME NEW h \in Seq(HistoryEntry), NEW e \in HistoryEntry, NEW action, e.action = action
  PROVE  /\ EntriesOf(Append(h, e), action) = EntriesOf(h, action) \cup {Len(h) + 1}
         /\ Cardinality(EntriesOf(Append(h, e), action)) = Cardinality(EntriesOf(h, action)) + 1
BY EntriesAppended

(* Minting writes the first entry.                                         *)
LEMMA TellsOfMinting ==
  ASSUME NEW c \in Addresses
  PROVE  Tells(Append(<< >>, [action |-> "minted", modifier |-> c]), c, c, 0, 0)
<1> DEFINE e == [action |-> "minted", modifier |-> c]
           g == Append(<< >>, e)
<1>1. g = <<e>> /\ DOMAIN g = {1} /\ g[1] = e
  OBVIOUS
<1> HIDE DEF g
<1>2. EntriesOf(g, "minted") = {1} /\ EntriesOf(g, "transferred") = {} /\ EntriesOf(g, "metadata_updated") = {}
  BY <1>1 DEF EntriesOf
<1>3. Cardinality({}) = 0
  BY FS_EmptySet
<1>4. g[1].modifier = c
  BY <1>1
<1>5. Tells(g, c, c, 0, 0)
  BY <1>2, <1>3, <1>4 DEF Tells
<1> QED BY <1>5 DEF g

(* Whoever transfers is the owner, and the new owner is another one.       *)
LEMMA TellsOfTransfer ==
  ASSUME NEW h \in Seq(HistoryEntry), NEW c, NEW o \in Addresses, NEW t \in Nat, NEW v \in Nat,
         Tells(h, c, o, t, v), NEW to, to # o
  PROVE  Tells(Append(h, [action |-> "transferred", modifier |-> o]), c, to, t + 1, v)
<1> DEFINE e == [action |-> "transferred", modifier |-> o]
           g == Append(h, e)
           n == Len(h)
           E == EntriesOf(h, "transferred")
<1>1. e \in HistoryEntry /\ e.action = "transferred" /\ e.modifier = o
  BY DEF HistoryEntry
<1> HIDE DEF e
<1>2. /\ n \in Nat /\ g[n + 1] = e /\ \A k \in 1..n : g[k] = h[k]
      /\ E \subseteq 1..n
      /\ EntriesOf(g, "transferred") = E \cup {n + 1}
      /\ Cardinality(EntriesOf(g, "transferred")) = Cardinality(E) + 1
  <2>1. n \in Nat
    OBVIOUS
  <2>2. g[n + 1] = e /\ \A k \in 1..n : g[k] = h[k]
    BY <1>1, EntriesAppended
  <2>3. /\ EntriesOf(g, "transferred") = E \cup {n + 1}
        /\ Cardinality(EntriesOf(g, "transferred")) = Cardinality(E) + 1
    BY <1>1, EntryAdded
  <2>4. E \subseteq 1..n
    BY <1>1, EntriesAppended
  <2> QED BY <2>1, <2>2, <2>3, <2>4
<1>3. EntriesOf(g, "minted") = EntriesOf(h, "minted") /\ 1 \in 1..n
  <2>1. EntriesOf(h, "minted") \subseteq 1..n
    BY <1>1, EntriesAppended
  <2> QED BY <1>1, <2>1, EntriesAppended DEF Tells
<1>4. EntriesOf(g, "metadata_updated") = EntriesOf(h, "metadata_updated")
  BY <1>1, EntriesAppended
<1> HIDE DEF g, n, E
<1>5. ASSUME NEW k \in E \cup {n + 1}, NEW l \in E \cup {n + 1},
             k < l, (E \cup {n + 1}) \cap (k + 1)..(l - 1) = {}
      PROVE  g[k].modifier # g[l].modifier
  <2>1. k \in E /\ k \in 1..n
    BY <1>2, <1>5
  <2>2. CASE l \in E
    <3>1. l \in 1..n /\ E \cap (k + 1)..(l - 1) = {}
      BY <1>2, <1>5, <2>2
    <3> QED BY <1>2, <1>5, <2>1, <2>2, <3>1 DEF Tells, E
  <2>3. CASE l = n + 1
    <3>1. \A j \in E : j <= k
      BY <1>2, <1>5, <2>1, <2>3
    <3>2. h[k].modifier # o
      BY <2>1, <3>1 DEF Tells, E
    <3> QED BY <1>1, <1>2, <2>1, <2>3, <3>2
  <2> QED BY <2>2, <2>3
<1>6. ASSUME NEW k \in E \cup {n + 1}, \A l \in E \cup {n + 1} : l <= k
      PROVE  g[k].modifier # to
  <2>1. k = n + 1
    BY <1>2, <1>6
  <2> QED BY <1>1, <1>2, <2>1
<1>7. g[1].modifier = c
  BY <1>2, <1>3 DEF Tells
<1>8. Cardinality(EntriesOf(g, "transferred")) = t + 1
  BY <1>2 DEF Tells, E
<1> QED BY <1>2, <1>3, <1>4, <1>5, <1>6, <1>7, <1>8 DEF Tells, g, e

(* The other entries leave the transfers and their order alone.            *)
LEMMA TellsOfOther ==
  ASSUME NEW h \in Seq(HistoryEntry), NEW c, NEW o, NEW t \in Nat, NEW v \in Nat,
         Tells(h, c, o, t, v),
         NEW e \in HistoryEntry, e.action \in {"metadata_updated", "anchor_added"}
  PROVE  Tells(Append(h, e), c, o, t, IF e.action = "metadata_updated" THEN v + 1 ELSE v)
<1> DEFINE g == Append(h, e)
           n == Len(h)
           E == EntriesOf(h, "transferred")
<1>1. n \in Nat /\ E \subseteq 1..n /\ EntriesOf(h, "minted") \subseteq 1..n
      /\ \A k \in 1..n : g[k] = h[k]
  BY EntriesAppended
<1>2. EntriesOf(g, "transferred") = E /\ EntriesOf(g, "minted") = EntriesOf(h, "minted")
  BY EntriesAppended
<1>3. Cardinality(EntriesOf(g, "metadata_updated")) =
        IF e.action = "metadata_updated" THEN v + 1 ELSE v
  BY EntriesAppended DEF Tells
<1> HIDE DEF g, n
<1>4. 1 \in 1..n /\ g[1] = h[1]
  BY <1>1 DEF Tells
<1>5. \A k \in E : g[k] = h[k]
  BY <1>1
<1>6. /\ EntriesOf(g, "minted") = {1} /\ g[1].modifier = c
      /\ Cardinality(EntriesOf(g, "transferred")) = t
  BY <1>2, <1>4 DEF Tells
<1> QED BY <1>2, <1>3, <1>5, <1>6 DEF Tells, g

LEMMA OwnerIsAddress ==
  ASSUME HistoryInv, NEW i \in Minted
  PROVE  i \in Ids /\ Owner(i) \in Addresses /\ certs[i] \in Cert /\ certs[i].creator \in Addresses
<1>1. i \in Ids /\ certs[i] \in Cert
  BY MintedAreIds DEF HistoryInv, CertsInv, Minted
<1> QED BY <1>1 DEF HistoryInv, Owner, Cert

(* An amendment appends an entry to the history of one certificate.        *)
LEMMA OneAmended ==
  ASSUME HistoryInv, CertsInv', Minted' = Minted, NEW i \in Minted, NEW e \in HistoryEntry,
         \A j \in Minted : certs'[j].creator = certs[j].creator,
         history' = [history EXCEPT ![i] = Append(@, e)],
         NEW o \in Addresses \cup {Nobody}, currentOwner' = [currentOwner EXCEPT ![i] = o],
         NEW t \in Nat, transfers' = [transfers EXCEPT ![i] = t],
         NEW v \in Nat, version' = [version EXCEPT ![i] = v],
         Tells(Append(history[i], e), certs[i].creator,
               IF o = Nobody THEN certs[i].creator ELSE o, t, v)
  PROVE  HistoryInv'
<1>1. i \in Ids /\ history[i] \in Seq(HistoryEntry) /\ Minted \subseteq Ids
  BY MintedAreIds DEF HistoryInv
<1> PICK h : h = Append(history[i], e)
  OBVIOUS
<1>2. h \in Seq(HistoryEntry)
  BY <1>1
<1>3. history' = [history EXCEPT ![i] = h]
  OBVIOUS
<1>4. /\ history' \in [Ids -> Seq(HistoryEntry)]
      /\ currentOwner' \in [Ids -> Addresses \cup {Nobody}]
      /\ transfers' \in [Ids -> Nat] /\ version' \in [Ids -> Nat]
  BY <1>2, <1>3 DEF HistoryInv
<1>5. /\ history'[i] = h /\ currentOwner'[i] = o /\ transfers'[i] = t /\ version'[i] = v
      /\ \A j \in Ids \ {i} : /\ history'[j] = history[j] /\ currentOwner'[j] = currentOwner[j]
                              /\ transfers'[j] = transfers[j] /\ version'[j] = version[j]
  BY <1>1, <1>3 DEF HistoryInv
<1>6. \A j \in Ids \ Minted' :
        history'[j] = << >> /\ currentOwner'[j] = Nobody /\ transfers'[j] = 0 /\ version'[j] = 0
  BY <1>5 DEF HistoryInv
<1>7. ASSUME NEW j \in Minted
      PROVE  Tells(history'[j], certs'[j].creator, Owner(j)', transfers'[j], version'[j])
  <2>1. CASE j = i
    BY <1>5, <2>1 DEF Owner
  <2>2. CASE j # i
    <3>1. Owner(j)' = Owner(j)
      BY <1>1, <1>5, <2>2 DEF Owner
    <3>2. Tells(history[j], certs[j].creator, Owner(j), transfers[j], version[j])
      BY DEF HistoryInv
    <3> QED BY <1>1, <1>5, <2>2, <3>1, <3>2
  <2> QED BY <2>1, <2>2
<1> QED BY <1>4, <1>6, <1>7 DEF HistoryInv

LEMMA AmendKeepsHistory ==
  ASSUME HistoryInv, NEW i \in Minted, AmendStep(i)
  PROVE  HistoryInv'
<1>1. /\ CertsInv' /\ Minted' = Minted
      /\ \A j \in Minted : certs'[j].creator = certs[j].creator
  BY AmendKeeps DEF HistoryInv
<1>2. /\ i \in Ids /\ Owner(i) \in Addresses /\ certs[i].creator \in Addresses
      /\ history[i] \in Seq(HistoryEntry) /\ transfers[i] \in Nat /\ version[i] \in Nat
      /\ currentOwner[i] \in Addresses \cup {Nobody}
  BY OwnerIsAddress DEF HistoryInv
<1>3. Tells(history[i], certs[i].creator, Owner(i), transfers[i], version[i])
  BY DEF HistoryInv
<1>4. /\ currentOwner = [currentOwner EXCEPT ![i] = currentOwner[i]]
      /\ transfers = [transfers EXCEPT ![i] = transfers[i]]
      /\ version = [version EXCEPT ![i] = version[i]]
  BY <1>2 DEF HistoryInv
<1>5. ASSUME NEW to \in Addresses, TransferCertificate(i, to)
      PROVE  HistoryInv'
  <2> DEFINE e == [action |-> "transferred", modifier |-> Owner(i)]
  <2>1. e \in HistoryEntry
    BY <1>2 DEF HistoryEntry
  <2>2. /\ to # Owner(i) /\ to # Nobody
        /\ history' = [history EXCEPT ![i] = Append(@, e)]
        /\ currentOwner' = [currentOwner EXCEPT ![i] = to]
        /\ transfers' = [transfers EXCEPT ![i] = transfers[i] + 1]
        /\ UNCHANGED version
    BY <1>5, CertificatesConstants DEF TransferCertificate, Recorded
  <2>3. Tells(Append(history[i], e), certs[i].creator, to, transfers[i] + 1, version[i])
    BY <1>2, <1>3, <2>2, TellsOfTransfer
  <2> HIDE DEF e
  <2>4. transfers[i] + 1 \in Nat /\ version' = [version EXCEPT ![i] = version[i]]
    BY <1>2, <1>4, <2>2
  <2> QED BY <1>1, <1>2, <2>1, <2>2, <2>3, <2>4, OneAmended
<1>6. ASSUME UpdateMetadata(i)
      PROVE  HistoryInv'
  <2> DEFINE e == [action |-> "metadata_updated", modifier |-> Owner(i)]
  <2>1. e \in HistoryEntry /\ e.action = "metadata_updated"
    BY <1>2 DEF HistoryEntry
  <2>2. /\ history' = [history EXCEPT ![i] = Append(@, e)]
        /\ version' = [version EXCEPT ![i] = version[i] + 1]
        /\ UNCHANGED <<currentOwner, transfers>>
    BY <1>6 DEF UpdateMetadata, Recorded
  <2> HIDE DEF e
  <2>3. Tells(Append(history[i], e), certs[i].creator, Owner(i), transfers[i], version[i] + 1)
    BY <1>2, <1>3, <2>1, TellsOfOther
  <2>4. /\ version[i] + 1 \in Nat
        /\ currentOwner' = [currentOwner EXCEPT ![i] = currentOwner[i]]
        /\ transfers' = [transfers EXCEPT ![i] = transfers[i]]
    BY <1>2, <1>4, <2>2
  <2>5. Tells(Append(history[i], e), certs[i].creator,
              IF currentOwner[i] = Nobody THEN certs[i].creator ELSE currentOwner[i],
              transfers[i], version[i] + 1)
    BY <2>3 DEF Owner
  <2> QED BY <1>1, <1>2, <2>1, <2>2, <2>4, <2>5, OneAmended
<1>7. ASSUME AddAnchor(i)
      PROVE  HistoryInv'
  <2> DEFINE e == [action |-> "anchor_added", modifier |-> Oracle]
  <2>1. e \in HistoryEntry /\ e.action = "anchor_added"
    BY DEF HistoryEntry
  <2>2. /\ history' = [history EXCEPT ![i] = Append(@, e)]
        /\ UNCHANGED <<currentOwner, transfers, version>>
    BY <1>7 DEF AddAnchor, Recorded
  <2> HIDE DEF e
  <2>3. Tells(Append(history[i], e), certs[i].creator, Owner(i), transfers[i], version[i])
    BY <1>2, <1>3, <2>1, TellsOfOther
  <2>4. /\ currentOwner' = [currentOwner EXCEPT ![i] = currentOwner[i]]
        /\ transfers' = [transfers EXCEPT ![i] = transfers[i]]
        /\ version' = [version EXCEPT ![i] = version[i]]
    BY <1>4, <2>2
  <2>5. Tells(Append(history[i], e), certs[i].creator,
              IF currentOwner[i] = Nobody THEN certs[i].creator ELSE currentOwner[i],
              transfers[i], version[i])
    BY <2>3 DEF Owner
  <2> QED BY <1>1, <1>2, <2>1, <2>2, <2>4, <2>5, OneAmended
<1>8. ASSUME RevokeCertificate(i) \/ LockCertificate(i)
      PROVE  HistoryInv'
  <2>1. UNCHANGED <<currentOwner, transfers, version, history>>
    BY <1>8 DEF RevokeCertificate, LockCertificate, amendVars
  <2>2. \A j \in Minted : Owner(j)' = Owner(j)
    BY <1>1, <2>1 DEF Owner
  <2>3. ASSUME NEW j \in Minted
        PROVE  Tells(history'[j], certs'[j].creator, Owner(j)', transfers'[j], version'[j])
    <3>1. Tells(history[j], certs[j].creator, Owner(j), transfers[j], version[j])
      BY DEF HistoryInv
    <3> QED BY <1>1, <2>1, <2>2, <3>1
  <2> QED BY <1>1, <2>1, <2>3 DEF HistoryInv
<1> QED BY <1>5, <1>6, <1>7, <1>8 DEF AmendStep

LEMMA MintKeepsHistory ==
  ASSUME HistoryInv, NEW ms \in Seq(Manifests), NEW to \in Addresses, MintBatch(ms, to)
  PROVE  HistoryInv'
<1> DEFINE n == Len(certs)
           first == [action |-> "minted", modifier |-> to]
<1>1. /\ CertsInv' /\ Len(certs') = n + Len(ms)
      /\ \A i \in Minted : i \in Minted' /\ certs'[i] = certs[i]
      /\ \A k \in DOMAIN ms : certs'[n + k] =
           [manifest |-> ms[k], creator |-> to, revoked |-> FALSE, locked |-> FALSE]
  BY BatchAppends DEF HistoryInv
<1>2. /\ Minted = 1..n /\ Minted' = 1..(n + Len(ms)) /\ n \in Nat /\ Len(ms) \in Nat
      /\ Minted \subseteq Ids /\ Minted' \subseteq Ids /\ DOMAIN ms = 1..Len(ms)
  <2>1. Minted = 1..n /\ Minted \subseteq Ids /\ n \in Nat
    BY MintedAreIds DEF HistoryInv
  <2>2. certs' \in Seq(Cert) /\ Len(certs') <= MaxCerts
    BY <1>1 DEF CertsInv
  <2>3. Minted' = 1..(n + Len(ms))
    BY <1>1, <2>2 DEF Minted
  <2> QED BY <1>1, <2>1, <2>2, <2>3, CertificatesConstants DEF Ids
<1>3. /\ history' = [i \in Ids |-> IF i \in (n + 1)..(n + Len(ms)) THEN Append(history[i], first)
                                                                    ELSE history[i]]
      /\ UNCHANGED <<currentOwner, transfers, version>>
  BY DEF MintBatch
<1>4. first \in HistoryEntry
  BY DEF HistoryEntry
<1> HIDE DEF n, first
<1>5. \A i \in Ids : history[i] \in Seq(HistoryEntry) /\ Append(history[i], first) \in Seq(HistoryEntry)
  BY <1>4 DEF HistoryInv
<1>6. history' \in [Ids -> Seq(HistoryEntry)]
  BY <1>3, <1>5
<1>7. ASSUME NEW i \in Ids \ Minted'
      PROVE  history'[i] = << >> /\ currentOwner'[i] = Nobody /\ transfers'[i] = 0 /\ version'[i] = 0
  <2>1. i \notin Minted /\ i \notin (n + 1)..(n + Len(ms))
    BY <1>2
  <2> QED BY <1>3, <2>1 DEF HistoryInv
<1>8. ASSUME NEW i \in Minted'
      PROVE  Tells(history'[i], certs'[i].creator, Owner(i)', transfers'[i], version'[i])
  <2>1. CASE i \in Minted
    <3>1. i \notin (n + 1)..(n + Len(ms)) /\ i \in Ids
      BY <1>2, <2>1
    <3>2. history'[i] = history[i] /\ certs'[i] = certs[i]
      BY <1>1, <1>3, <2>1, <3>1
    <3>3. Owner(i)' = Owner(i)
      BY <1>3, <3>2 DEF Owner
    <3>4. Tells(history[i], certs[i].creator, Owner(i), transfers[i], version[i])
      BY <2>1 DEF HistoryInv
    <3> QED BY <1>3, <3>2, <3>3, <3>4
  <2>2. CASE i \notin Minted
    <3>1. i \in (n + 1)..(n + Len(ms)) /\ i \in Ids
      BY <1>2, <2>2
    <3>2. PICK k \in DOMAIN ms : i = n + k
      <4>1. i - n \in DOMAIN ms /\ i = n + (i - n)
        BY <1>2, <3>1
      <4> QED BY <4>1
    <3>3. certs'[i].creator = to
      <4>1. certs'[i] = [manifest |-> ms[k], creator |-> to, revoked |-> FALSE, locked |-> FALSE]
        BY <1>1, <3>2
      <4> QED BY <4>1
    <3>4. history[i] = << >> /\ currentOwner[i] = Nobody /\ transfers[i] = 0 /\ version[i] = 0
      BY <2>2, <3>1 DEF HistoryInv
    <3>5. history'[i] = Append(<< >>, first)
      BY <1>3, <3>1, <3>4
    <3>6. Owner(i)' = to
      BY <1>3, <3>3, <3>4 DEF Owner
    <3>7. Tells(Append(<< >>, first), to, to, 0, 0)
      BY TellsOfMinting DEF first
    <3> QED BY <1>3, <3>3, <3>4, <3>5, <3>6, <3>7
  <2> QED BY <2>1, <2>2
<1> QED BY <1>1, <1>3, <1>6, <1>7, <1>8 DEF HistoryInv

LEMMA HistoryInvStep ==
  ASSUME HistoryInv, [Next]_vars
  PROVE  HistoryInv'
<1>1. ASSUME NEW to \in Addresses, MintStep(to) PROVE HistoryInv'
  BY <1>1, MintStepIsBatch, MintKeepsHistory
<1>2. CASE UNCHANGED <<certs, mintVars, amendVars>>
  BY <1>2 DEF HistoryInv, CertsInv, Minted, Owner, amendVars
<1> QED BY <1>1, <1>2, AmendKeepsHistory, StepCases, OtherStepsKeepCerts

LEMMA HistoryInvHolds == Spec => []HistoryInv
<1>1. Init => HistoryInv
  <2> SUFFICES ASSUME Init PROVE HistoryInv
    OBVIOUS
  <2>1. /\ certs = << >> /\ currentOwner = [i \in Ids |-> Nobody] /\ history = [i \in Ids |-> << >>]
        /\ transfers = [i \in Ids |-> 0] /\ version = [i \in Ids |-> 0]
    BY DEF Init, CertificatesInit
  <2>2. Minted = {}
    BY <2>1 DEF Minted
  <2> QED BY <2>1, <2>2, CertsInit DEF HistoryInv
<1>2. HistoryInv /\ [Next]_vars => HistoryInv'
  BY HistoryInvStep
<1> QED BY <1>1, <1>2, PTL DEF Spec

(* For any owners, batches and order of amendments, the history of a       *)
(* certificate starts with its minting, counts its transfers and versions, *)
(* and every transfer was made by the owner of that moment.                *)
THEOREM HistoryTellsTheTruth == Spec => []HistoryTellsOwnership
<1>1. HistoryInv => HistoryTellsOwnership
  BY DEF HistoryInv, HistoryTellsOwnership, Tells, Entries, EntriesOf
<1> QED BY <1>1, HistoryInvHolds, PTL

-----------------------------------------------------------------------------
(* Links.                                                                  *)

LinksInv ==
  /\ CertsInv
  /\ links \in [Ids -> Seq(Relation)]
  /\ \A i \in Ids \ Minted : links[i] = << >>
  /\ LinksReciprocal
  /\ FirstParentsAcyclic

LinkedIn(ls, kind, j) == {k \in DOMAIN ls : ls[k] = [kind |-> kind, to |-> j]}

LEMMA LinkedAppended ==
  ASSUME NEW ls \in Seq(Relation), NEW r \in Relation, NEW kind, NEW j
  PROVE  /\ Cardinality(LinkedIn(ls, kind, j)) \in Nat
         /\ Cardinality(LinkedIn(Append(ls, r), kind, j)) =
              IF r.kind = kind /\ r.to = j THEN Cardinality(LinkedIn(ls, kind, j)) + 1
                                           ELSE Cardinality(LinkedIn(ls, kind, j))
<1> DEFINE n == Len(ls)
           us == Append(ls, r)
           E == LinkedIn(ls, kind, j)
           F == LinkedIn(us, kind, j)
<1>1. /\ n \in Nat /\ DOMAIN ls = 1..n /\ DOMAIN us = 1..(n + 1)
      /\ us[n + 1] = r /\ \A k \in 1..n : us[k] = ls[k]
  OBVIOUS
<1>2. r = [kind |-> kind, to |-> j] <=> r.kind = kind /\ r.to = j
  BY DEF Relation
<1> HIDE DEF n, us
<1>3. E \subseteq 1..n
  BY <1>1 DEF LinkedIn
<1>4. IsFiniteSet(E) /\ Cardinality(E) \in Nat
  <2>1. 1 \in Int /\ n \in Int
    BY <1>1
  <2>2. IsFiniteSet(1..n)
    BY ONLY <2>1, FS_Interval
  <2> QED BY <1>3, <2>2, FS_Subset, FS_CardinalityType
<1>5. CASE r.kind = kind /\ r.to = j
  <2>1. F = E \cup {n + 1} /\ n + 1 \notin E
    BY <1>1, <1>2, <1>3, <1>5 DEF LinkedIn
  <2> HIDE DEF E, F
  <2>2. Cardinality(F) = Cardinality(E) + 1
    BY <1>4, <2>1, FS_AddElement
  <2> QED BY <1>4, <1>5, <2>2 DEF E, F, us
<1>6. CASE ~(r.kind = kind /\ r.to = j)
  <2>1. F = E
    BY <1>1, <1>2, <1>6 DEF LinkedIn
  <2> QED BY <1>4, <1>6, <2>1 DEF us
<1> QED BY <1>5, <1>6

ParentsIn(ls) == {k \in DOMAIN ls : ls[k].kind = "Parent"}

FirstOf(ls) == IF ParentsIn(ls) = {} THEN 0 ELSE ls[Min(ParentsIn(ls))].to

LEMMA FirstParentIsFirst ==
  /\ \A i : FirstParent(i) = FirstOf(links[i])
  /\ \A i : FirstParent(i)' = FirstOf(links'[i])
BY DEF FirstParent, FirstOf, ParentsIn

LEMMA LeastOfSet ==
  ASSUME NEW T \in SUBSET Nat, T # {}
  PROVE  Min(T) \in T /\ \A y \in T : Min(T) <= y
BY LeastNumber DEF Min

(* A link goes behind the ones there are: the first parent stays.          *)
LEMMA FirstAppended ==
  ASSUME NEW ls \in Seq(Relation), NEW r \in Relation
  PROVE  /\ FirstOf(ls) \in Ids \cup {0}
         /\ FirstOf(Append(ls, r)) =
              IF ParentsIn(ls) # {} THEN FirstOf(ls) ELSE IF r.kind = "Parent" THEN r.to ELSE 0
<1> DEFINE n == Len(ls)
           us == Append(ls, r)
           E == ParentsIn(ls)
           F == ParentsIn(us)
<1>1. /\ n \in Nat /\ DOMAIN ls = 1..n /\ DOMAIN us = 1..(n + 1)
      /\ us[n + 1] = r /\ \A k \in 1..n : us[k] = ls[k] /\ ls[k] \in Relation
  OBVIOUS
<1> HIDE DEF n, us
<1>2. E \in SUBSET Nat /\ F \in SUBSET Nat /\ E \subseteq 1..n
  BY <1>1 DEF ParentsIn
<1>3. F = IF r.kind = "Parent" THEN E \cup {n + 1} ELSE E
  BY <1>1 DEF ParentsIn
<1> HIDE DEF E, F
<1>4. CASE E # {}
  <2>1. Min(E) \in E /\ \A y \in E : Min(E) <= y
    BY <1>2, <1>4, LeastOfSet
  <2>2. F # {} /\ Min(F) \in F /\ \A y \in F : Min(F) <= y
    BY <1>2, <1>3, <1>4, LeastOfSet
  <2>3. Min(F) = Min(E)
    <3> PICK a : a = Min(E)
      OBVIOUS
    <3> PICK b : b = Min(F)
      OBVIOUS
    <3>1. a \in E /\ a \in F /\ (\A y \in E : a <= y) /\ b \in F /\ \A y \in F : b <= y
      BY <1>3, <2>1, <2>2
    <3>2. a \in 1..n /\ b \in Nat /\ b <= a /\ (b \in E \/ b = n + 1)
      BY <1>2, <1>3, <3>1
    <3>3. b \in E /\ a <= b
      BY <1>1, <3>1, <3>2
    <3>4. a = b
      BY <1>2, <3>2, <3>3
    <3> QED BY <3>4
  <2>4. us[Min(F)] = ls[Min(E)] /\ ls[Min(E)] \in Relation
    BY <1>1, <1>2, <2>1, <2>3
  <2> QED BY <1>4, <2>2, <2>4 DEF FirstOf, Relation, E, F, us
<1>5. CASE E = {} /\ r.kind = "Parent"
  <2>1. F = {n + 1}
    BY <1>3, <1>5
  <2>2. Min(F) = n + 1
    BY <1>2, <2>1, LeastOfSet
  <2> QED BY <1>1, <1>5, <2>1, <2>2 DEF FirstOf, E, F, us
<1>6. CASE E = {} /\ r.kind # "Parent"
  BY <1>3, <1>6 DEF FirstOf, E, F, us
<1> QED BY <1>4, <1>5, <1>6

LEMMA NoFirstParent ==
  ASSUME NEW ls \in Seq(Relation)
  PROVE  /\ FirstOf(ls) = 0 <=> ParentsIn(ls) = {}
         /\ FirstOf(<< >>) = 0
<1>1. 0 \notin Ids
  BY CertificatesConstants DEF Ids
<1>2. DOMAIN ls \subseteq Nat /\ \A k \in DOMAIN ls : ls[k].to \in Ids
  <2>1. DOMAIN ls \subseteq Nat /\ \A k \in DOMAIN ls : ls[k] \in Relation
    OBVIOUS
  <2> QED BY <2>1 DEF Relation
<1>3. ParentsIn(ls) # {} => Min(ParentsIn(ls)) \in DOMAIN ls
  <2>1. ParentsIn(ls) \in SUBSET Nat /\ ParentsIn(ls) \subseteq DOMAIN ls
    BY <1>2 DEF ParentsIn
  <2> QED BY <2>1, LeastOfSet
<1>4. ParentsIn(<< >>) = {}
  BY DEF ParentsIn
<1> QED BY <1>1, <1>2, <1>3, <1>4 DEF FirstOf

-----------------------------------------------------------------------------
(* The walk of creates_cycle.                                              *)

Steps(target, f, d) ==
  [i \in Ids |-> d > 0 /\ (i = target \/ (FirstParent(i) # 0 /\ f[d - 1][FirstParent(i)]))]

LEMMA WalkSteps ==
  ASSUME NEW target
  PROVE  \E f : f = [d \in 0..MaxDepth |-> Steps(target, f, d)]
<1> DEFINE Fits(f, n) == f = [d \in 0..n |-> Steps(target, f, d)]
           T == {n \in Nat : \E f : Fits(f, n)}
<1>1. 0 \in T
  <2> DEFINE f == [d \in 0..0 |-> [i \in Ids |-> FALSE]]
  <2>1. ASSUME NEW d \in 0..0 PROVE Steps(target, f, d) = [i \in Ids |-> FALSE]
    <3>1. ~(d > 0)
      OBVIOUS
    <3> HIDE DEF f
    <3>2. ASSUME NEW i \in Ids
          PROVE  (d > 0 /\ (i = target \/ (FirstParent(i) # 0 /\ f[d - 1][FirstParent(i)]))) = FALSE
      BY <3>1, Zenon
    <3> QED BY <3>2, Zenon DEF Steps
  <2>2. Fits(f, 0)
    BY <2>1
  <2> QED BY <2>2
<1>2. ASSUME NEW n \in Nat, n \in T PROVE n + 1 \in T
  <2>1. PICK f : Fits(f, n)
    BY <1>2
  <2> DEFINE last == Steps(target, f, n + 1)
             g == [d \in 0..(n + 1) |-> IF d = n + 1 THEN last ELSE f[d]]
  <2>2. ASSUME NEW d \in 0..(n + 1) PROVE g[d] = Steps(target, g, d)
    <3>1. d > 0 => d - 1 \in 0..n /\ g[d - 1] = f[d - 1]
      OBVIOUS
    <3>2. Steps(target, g, d) = Steps(target, f, d)
      BY <3>1 DEF Steps
    <3>3. d # n + 1 => d \in 0..n /\ f[d] = Steps(target, f, d)
      BY <2>1
    <3> QED BY <3>2, <3>3
  <2>3. Fits(g, n + 1)
    BY <2>2
  <2> HIDE DEF Fits, g
  <2> QED BY <2>3
<1>3. MaxDepth \in T
  <2> HIDE DEF T
  <2>1. Nat \subseteq T
    BY <1>1, <1>2, NumberInduction
  <2> QED BY <2>1, CertificatesConstants
<1> QED BY <1>3

(* The walk from start meets the target if f, a truth for each depth and   *)
(* certificate, says so.                                                   *)
LEMMA WalkMeets ==
  ASSUME NEW start \in Ids, NEW target
  PROVE  \E f : /\ \A d \in 0..MaxDepth, i \in Ids :
                     f[d][i] <=> d > 0 /\ (i = target \/ (FirstParent(i) # 0 /\ f[d - 1][FirstParent(i)]))
                /\ CreatesCycle(start, target) <=> f[MaxDepth][start]
<1> DEFINE f == CHOOSE f : f = [d \in 0..MaxDepth |-> Steps(target, f, d)]
<1>1. f = [d \in 0..MaxDepth |-> Steps(target, f, d)]
  BY WalkSteps
<1>2. CreatesCycle(start, target) = f[MaxDepth][start]
  BY DEF CreatesCycle, Steps
<1> HIDE DEF f
<1>3. \A d \in 0..MaxDepth, i \in Ids :
        f[d][i] = (d > 0 /\ (i = target \/ (FirstParent(i) # 0 /\ f[d - 1][FirstParent(i)])))
  <2>1. \A d \in 0..MaxDepth : f[d] = Steps(target, f, d)
    BY <1>1
  <2> QED BY <2>1, Zenon DEF Steps
<1> QED BY <1>2, <1>3

(* A set of at most MAX_DEPTH certificates that the new parent p of c      *)
(* closes: the walk from p has to leave c alone, so it never repeats       *)
(* itself, for a repetition would have been a shorter cycle before; and    *)
(* then it is longer than the set.                                         *)
LEMMA NoCycleClosed ==
  ASSUME FirstParentsAcyclic, Minted \subseteq Ids,
         NEW c \in Minted, NEW p \in Minted, ~CreatesCycle(p, c),
         NEW S \in SUBSET Minted, IsFiniteSet(S), Cardinality(S) <= MaxDepth,
         c \in S, p \in S, \A x \in S \ {c} : FirstParent(x) \in S
  PROVE  FALSE
<1>0. /\ Cardinality(S) \in Nat /\ Cardinality(S) > 0 /\ MaxDepth \in Nat
      /\ \A x \in S : x \in Ids /\ x # 0
  <2>1. Cardinality(S) \in Nat /\ S # {}
    BY FS_CardinalityType
  <2>2. Cardinality(S) # 0
    BY <2>1, FS_EmptySet
  <2> QED BY <2>1, <2>2, CertificatesConstants DEF Ids
<1>1. PICK f : /\ \A d \in 0..MaxDepth, i \in Ids :
                    f[d][i] <=> d > 0 /\ (i = c \/ (FirstParent(i) # 0 /\ f[d - 1][FirstParent(i)]))
               /\ ~f[MaxDepth][p]
  <2>1. p \in Ids
    OBVIOUS
  <2> QED BY <2>1, WalkMeets
<1> DEFINE Path(R, x, k) ==
             /\ x \in R /\ Cardinality(R) = k + 1
             /\ \A y \in R \ {x} : FirstParent(y) \in R
             /\ ~f[MaxDepth - k][x]
           T == {k \in Nat : k < Cardinality(S) => \E R \in SUBSET (S \ {c}) : \E x \in R : Path(R, x, k)}
<1>2. 0 \in T
  <2>1. p # c
    <3>1. MaxDepth \in 0..MaxDepth /\ MaxDepth > 0 /\ p \in Ids
      BY <1>0
    <3> QED BY <1>1, <3>1, Zenon
  <2>2. Cardinality({p}) = 0 + 1 /\ MaxDepth - 0 = MaxDepth
    <3>1. Cardinality({p}) = 1
      BY FS_Singleton
    <3>2. MaxDepth - 0 = MaxDepth
      BY <1>0
    <3> QED BY <3>1, <3>2
  <2>3. Path({p}, p, 0)
    BY <1>1, <2>2
  <2>4. {p} \in SUBSET (S \ {c}) /\ p \in {p}
    BY <2>1
  <2> HIDE DEF Path
  <2> QED BY <2>3, <2>4
<1>3. ASSUME NEW k \in Nat, k \in T PROVE k + 1 \in T
  <2> SUFFICES ASSUME k + 1 < Cardinality(S)
               PROVE  \E R \in SUBSET (S \ {c}) : \E x \in R : Path(R, x, k + 1)
    OBVIOUS
  <2>0. PICK R \in SUBSET (S \ {c}) : \E x \in R : Path(R, x, k)
    <3>1. k < Cardinality(S)
      BY <1>0
    <3> HIDE DEF Path
    <3> QED BY <1>3, <3>1
  <2>1. PICK x \in R : Path(R, x, k)
    BY <2>0
  <2> PICK y : y = FirstParent(x)
    OBVIOUS
  <2>2. y \in S /\ y \in Ids /\ y # 0 /\ x \in Ids
    BY <1>0
  <2>3. /\ MaxDepth - k \in 0..MaxDepth /\ MaxDepth - k > 0
        /\ (MaxDepth - k) - 1 = MaxDepth - (k + 1)
        /\ MaxDepth - (k + 1) \in 0..MaxDepth /\ MaxDepth - (k + 1) > 0
    BY <1>0
  <2>4. ~f[MaxDepth - (k + 1)][y]
    <3>1. ~f[(MaxDepth - k) - 1][y]
      BY <1>1, <2>1, <2>2, <2>3, Zenon
    <3> QED BY <2>3, <3>1, Zenon
  <2>5. y # c
    BY <1>1, <2>2, <2>3, <2>4, Zenon
  <2>6. IsFiniteSet(R) /\ Cardinality(R) = k + 1
    <3>1. IsFiniteSet(R)
      BY FS_Subset
    <3> QED BY <2>1, <3>1
  <2>7. y \notin R
    <3> SUFFICES ASSUME y \in R PROVE FALSE
      OBVIOUS
    <3>1. \A z \in R : FirstParent(z) \in R
      BY <2>1
    <3>2. R \in (SUBSET Minted) \ {{}} /\ Cardinality(R) <= MaxDepth
      BY <1>0, <2>6
    <3> QED BY <3>1, <3>2 DEF FirstParentsAcyclic
  <2>8. Cardinality(R \cup {y}) = (k + 1) + 1
    BY <2>6, <2>7, FS_AddElement
  <2>9. Path(R \cup {y}, y, k + 1)
    BY <2>1, <2>4, <2>8
  <2>10. R \cup {y} \in SUBSET (S \ {c}) /\ y \in R \cup {y}
    BY <2>2, <2>5
  <2> HIDE DEF Path
  <2> QED BY <2>9, <2>10
<1>4. Cardinality(S) - 1 \in T
  <2> HIDE DEF T
  <2>1. Nat \subseteq T
    BY <1>2, <1>3, NumberInduction
  <2> QED BY <1>0, <2>1
<1>5. PICK R \in SUBSET (S \ {c}) : Cardinality(R) = Cardinality(S)
  <2>1. PICK R \in SUBSET (S \ {c}) : \E x \in R : Path(R, x, Cardinality(S) - 1)
    <3> HIDE DEF Path
    <3> QED BY <1>0, <1>4
  <2>2. Cardinality(R) = Cardinality(S)
    BY <1>0, <2>1
  <2> QED BY <2>2
<1>6. IsFiniteSet(S \ {c}) /\ Cardinality(S \ {c}) = Cardinality(S) - 1
  BY FS_RemoveElement
<1>7. Cardinality(R) <= Cardinality(S \ {c})
  BY <1>6, FS_Subset
<1> QED BY <1>0, <1>5, <1>6, <1>7

LEMMA MintedFinite ==
  ASSUME CertsInv, NEW S \in SUBSET Minted
  PROVE  IsFiniteSet(S)
<1>1. 1 \in Int /\ Len(certs) \in Int /\ Minted = 1..Len(certs)
  BY MintedAreIds
<1>2. IsFiniteSet(1..Len(certs))
  BY ONLY <1>1, FS_Interval
<1> QED BY <1>1, <1>2, FS_Subset

(* One certificate may have got a first parent.                            *)
LEMMA OneNewParent ==
  ASSUME LinksInv, Minted' = Minted, NEW c \in Minted, NEW p \in Minted, ~CreatesCycle(p, c),
         \A x \in Minted \ {c} : FirstParent(x)' = FirstParent(x),
         FirstParent(c)' \in {FirstParent(c), p}
  PROVE  FirstParentsAcyclic'
<1>0. Minted \subseteq Ids /\ FirstParentsAcyclic
  BY MintedAreIds DEF LinksInv
<1> SUFFICES ASSUME NEW S \in (SUBSET Minted) \ {{}}, Cardinality(S) <= MaxDepth,
                    \A x \in S : FirstParent(x)' \in S
             PROVE  FALSE
  BY DEF FirstParentsAcyclic
<1>1. IsFiniteSet(S)
  BY MintedFinite DEF LinksInv
<1>2. CASE \A x \in S : FirstParent(x)' = FirstParent(x)
  BY <1>0, <1>2 DEF FirstParentsAcyclic
<1>3. CASE \E x \in S : FirstParent(x)' # FirstParent(x)
  <2>1. c \in S /\ FirstParent(c)' = p
    BY <1>3
  <2>2. p \in S /\ \A x \in S \ {c} : FirstParent(x) \in S
    BY <2>1
  <2> QED BY <1>0, <1>1, <2>1, <2>2, NoCycleClosed
<1> QED BY <1>2, <1>3

LEMMA LinkKeepsLinks ==
  ASSUME LinksInv, NEW i \in Minted, NEW j \in Minted, NEW kind \in {"Parent", "Child", "Sibling"},
         LinkCertificates(i, kind, j)
  PROVE  LinksInv'
<1> DEFINE r == [kind |-> kind, to |-> j]
           q == [kind |-> Reciprocal(kind), to |-> i]
<1>1. /\ i # j /\ UNCHANGED certs
      /\ links' = [links EXCEPT ![i] = Append(@, r), ![j] = Append(@, q)]
      /\ kind = "Parent" => ~CreatesCycle(j, i)
      /\ kind = "Child" => ~CreatesCycle(i, j)
  BY DEF LinkCertificates
<1>2. CertsInv' /\ Minted' = Minted /\ Minted \subseteq Ids
  BY <1>1, MintedAreIds DEF LinksInv, CertsInv, Minted
<1>3. Reciprocal(kind) \in {"Parent", "Child", "Sibling"}
      /\ (Reciprocal(kind) = "Parent" <=> kind = "Child")
      /\ (Reciprocal(kind) = "Child" <=> kind = "Parent")
      /\ (Reciprocal(kind) = "Sibling" <=> kind = "Sibling")
  BY DEF Reciprocal
<1>4. r \in Relation /\ q \in Relation
  BY <1>2, <1>3 DEF Relation
<1>5. r.kind = kind /\ r.to = j /\ q.kind = Reciprocal(kind) /\ q.to = i
  OBVIOUS
<1> HIDE DEF r, q
<1>6. \A x \in Ids : links[x] \in Seq(Relation)
  BY DEF LinksInv
<1>7. /\ links'[i] = Append(links[i], r) /\ links'[j] = Append(links[j], q)
      /\ \A x \in Ids \ {i, j} : links'[x] = links[x]
      /\ links' \in [Ids -> Seq(Relation)]
  <2> PICK a : a = Append(links[i], r)
    OBVIOUS
  <2> PICK b : b = Append(links[j], q)
    OBVIOUS
  <2>1. a \in Seq(Relation) /\ b \in Seq(Relation)
    BY <1>2, <1>4, <1>6
  <2>2. links' = [links EXCEPT ![i] = a, ![j] = b]
    BY <1>1
  <2> QED BY <1>1, <1>2, <2>1, <2>2 DEF LinksInv
<1>8. \A x \in Ids \ Minted' : links'[x] = << >>
  BY <1>2, <1>7 DEF LinksInv
<1>9. LinksReciprocal'
  <2> DEFINE N(x, K, y) == Cardinality(LinkedIn(links[x], K, y))
             M(x, K, y) == Cardinality(LinkedIn(links'[x], K, y))
  <2>1. \A x, y \in Ids : \A K \in {"Parent", "Child", "Sibling"} :
          /\ N(x, K, y) \in Nat
          /\ M(x, K, y) =
               IF (x = i /\ kind = K /\ y = j) \/ (x = j /\ Reciprocal(kind) = K /\ y = i)
               THEN N(x, K, y) + 1 ELSE N(x, K, y)
    <3> SUFFICES ASSUME NEW x \in Ids, NEW y \in Ids, NEW K \in {"Parent", "Child", "Sibling"}
                 PROVE  /\ N(x, K, y) \in Nat
                        /\ M(x, K, y) =
                             IF (x = i /\ kind = K /\ y = j) \/ (x = j /\ Reciprocal(kind) = K /\ y = i)
                             THEN N(x, K, y) + 1 ELSE N(x, K, y)
      OBVIOUS
    <3>1. N(x, K, y) \in Nat
      BY <1>4, <1>6, LinkedAppended
    <3>2. CASE x = i
      <4>1. M(i, K, y) = IF r.kind = K /\ r.to = y THEN N(i, K, y) + 1 ELSE N(i, K, y)
        BY <1>2, <1>4, <1>6, <1>7, LinkedAppended
      <4> HIDE DEF M, N
      <4> QED BY <1>1, <1>5, <3>1, <3>2, <4>1
    <3>3. CASE x = j
      <4>1. M(j, K, y) = IF q.kind = K /\ q.to = y THEN N(j, K, y) + 1 ELSE N(j, K, y)
        BY <1>2, <1>4, <1>6, <1>7, LinkedAppended
      <4> HIDE DEF M, N
      <4> QED BY <1>1, <1>5, <3>1, <3>3, <4>1
    <3>4. CASE x \notin {i, j}
      BY <1>7, <3>1, <3>4
    <3> QED BY <3>2, <3>3, <3>4
  <2>2. ASSUME NEW x \in Ids, NEW y \in Ids
        PROVE  N(x, "Parent", y) = N(y, "Child", x) /\ N(x, "Sibling", y) = N(y, "Sibling", x)
    BY DEF LinksInv, LinksReciprocal, Linked, LinkedIn
  <2>3. ASSUME NEW x \in Ids, NEW y \in Ids
        PROVE  M(x, "Parent", y) = M(y, "Child", x) /\ M(x, "Sibling", y) = M(y, "Sibling", x)
    <3> HIDE DEF M, N
    <3> QED BY <1>1, <1>3, <2>1, <2>2
  <2> QED BY <2>3 DEF LinksReciprocal, Linked, LinkedIn
<1>10. /\ FirstParent(i)' = IF ParentsIn(links[i]) # {} THEN FirstParent(i) ELSE IF kind = "Parent" THEN j ELSE 0
       /\ FirstParent(j)' = IF ParentsIn(links[j]) # {} THEN FirstParent(j) ELSE IF kind = "Child" THEN i ELSE 0
       /\ ParentsIn(links[i]) = {} => FirstParent(i) = 0
       /\ ParentsIn(links[j]) = {} => FirstParent(j) = 0
       /\ \A x \in Minted \ {i, j} : FirstParent(x)' = FirstParent(x)
  <2>1. links[i] \in Seq(Relation) /\ links[j] \in Seq(Relation)
    BY <1>2, <1>6
  <2>2. /\ FirstOf(links'[i]) = IF ParentsIn(links[i]) # {} THEN FirstOf(links[i])
                                ELSE IF r.kind = "Parent" THEN r.to ELSE 0
        /\ FirstOf(links'[j]) = IF ParentsIn(links[j]) # {} THEN FirstOf(links[j])
                                ELSE IF q.kind = "Parent" THEN q.to ELSE 0
    BY <1>4, <1>7, <2>1, FirstAppended
  <2>3. ParentsIn(links[i]) = {} => FirstOf(links[i]) = 0
    BY DEF FirstOf
  <2>4. ParentsIn(links[j]) = {} => FirstOf(links[j]) = 0
    BY DEF FirstOf
  <2>5. \A x \in Minted \ {i, j} : links'[x] = links[x]
    BY <1>2, <1>7
  <2> QED BY <1>3, <1>5, <2>2, <2>3, <2>4, <2>5, FirstParentIsFirst
<1>11. FirstParentsAcyclic'
  <2>1. CASE kind = "Parent"
    <3>1. FirstParent(j)' = FirstParent(j) /\ FirstParent(i)' \in {FirstParent(i), j}
      BY <1>10, <2>1
    <3> QED BY <1>1, <1>2, <1>10, <2>1, <3>1, OneNewParent
  <2>2. CASE kind = "Child"
    <3>1. FirstParent(i)' = FirstParent(i) /\ FirstParent(j)' \in {FirstParent(j), i}
      BY <1>10, <2>2
    <3> QED BY <1>1, <1>2, <1>10, <2>2, <3>1, OneNewParent
  <2>3. CASE kind = "Sibling"
    <3>1. FirstParent(i)' = FirstParent(i) /\ FirstParent(j)' = FirstParent(j)
      BY <1>10, <2>3
    <3>2. \A x \in Minted : FirstParent(x)' = FirstParent(x)
      BY <1>10, <3>1
    <3> QED BY <1>2, <3>2 DEF LinksInv, FirstParentsAcyclic
  <2> QED BY <2>1, <2>2, <2>3
<1> QED BY <1>2, <1>7, <1>8, <1>9, <1>11 DEF LinksInv

(* A certificate that is new has no links.                                 *)
LEMMA MintKeepsLinks ==
  ASSUME LinksInv, CertsInv', Minted \subseteq Minted', UNCHANGED links
  PROVE  LinksInv'
<1>1. /\ links' = links /\ \A x \in Ids \ Minted' : links'[x] = << >>
      /\ links' \in [Ids -> Seq(Relation)]
  BY DEF LinksInv
<1>2. \A x : FirstParent(x)' = FirstParent(x)
  BY <1>1, FirstParentIsFirst
<1>3. \A x \in Ids \ Minted : FirstParent(x) = 0
  BY NoFirstParent, FirstParentIsFirst DEF LinksInv
<1>4. FirstParentsAcyclic'
  <2> SUFFICES ASSUME NEW S \in (SUBSET Minted') \ {{}}, Cardinality(S) <= MaxDepth
               PROVE  \E x \in S : FirstParent(x)' \notin S
    BY DEF FirstParentsAcyclic
  <2>0. Minted' \subseteq Ids /\ 0 \notin Ids
    <3>1. certs' \in Seq(Cert) /\ Len(certs') <= MaxCerts
      BY DEF CertsInv
    <3> QED BY <3>1, CertificatesConstants DEF Minted, Ids
  <2>1. CASE S \subseteq Minted
    BY <1>2, <2>1 DEF LinksInv, FirstParentsAcyclic
  <2>2. CASE ~(S \subseteq Minted)
    <3>1. PICK x \in S : x \notin Minted
      BY <2>2
    <3>2. FirstParent(x)' = 0 /\ 0 \notin S
      BY <1>2, <1>3, <2>0, <3>1
    <3> QED BY <3>2
  <2> QED BY <2>1, <2>2
<1>5. LinksReciprocal'
  <2>1. \A i, K, j : Linked(i, K, j)' = Linked(i, K, j)
    BY <1>1 DEF Linked
  <2> QED BY <2>1 DEF LinksInv, LinksReciprocal
<1> QED BY <1>1, <1>4, <1>5 DEF LinksInv

LEMMA LinksInvStep ==
  ASSUME LinksInv, [Next]_vars
  PROVE  LinksInv'
<1>0. CertsInv'
  BY CertsStep DEF LinksInv
<1>1. ASSUME NEW to \in Addresses, MintStep(to) PROVE LinksInv'
  <2>1. PICK ms \in Seq(Manifests) : MintBatch(ms, to)
    BY <1>1, MintStepIsBatch
  <2>2. Minted \subseteq Minted'
    BY <2>1, BatchAppends DEF LinksInv
  <2>3. UNCHANGED links
    BY <2>1 DEF MintBatch
  <2> QED BY <1>0, <2>2, <2>3, MintKeepsLinks
<1>2. ASSUME NEW i \in Minted, AmendStep(i) PROVE LinksInv'
  <2>1. Minted' = Minted
    BY <1>2, AmendKeeps DEF LinksInv
  <2>2. UNCHANGED links
    BY <1>2 DEF AmendStep, TransferCertificate, UpdateMetadata, AddAnchor, RevokeCertificate,
                LockCertificate
  <2> QED BY <1>0, <2>1, <2>2, MintKeepsLinks
<1>3. CASE UNCHANGED <<certs, links>>
  BY <1>0, <1>3, MintKeepsLinks DEF Minted
<1>4. ASSUME NEW i \in Minted, LinkStep(i) PROVE LinksInv'
  BY <1>4, LinkKeepsLinks DEF LinkStep
<1>5. UNCHANGED vars \/ DayPasses \/ CreateCollection => UNCHANGED <<certs, links>>
  BY DEF vars, certificateVars, DayPasses, CreateCollection
<1>6. ASSUME NEW i \in Minted, IndexStep(i) PROVE UNCHANGED <<certs, links>>
  BY <1>6 DEF IndexStep, GenerateVerificationCode, SetMediaProperties, TagStep, AddTag,
              RemoveTag, SetTags, AddCertificateToCollection, EndorseCertificate,
              RemoveEndorsement, certificateVars
<1> QED BY <1>1, <1>2, <1>3, <1>4, <1>5, <1>6, StepCases

LEMMA LinksInvHolds == Spec => []LinksInv
<1>1. Init => LinksInv
  <2> SUFFICES ASSUME Init PROVE LinksInv
    OBVIOUS
  <2>1. certs = << >> /\ links = [i \in Ids |-> << >>]
    BY DEF Init, CertificatesInit
  <2>2. Minted = {}
    BY <2>1 DEF Minted
  <2>3. LinksReciprocal
    <3>1. \A i, j \in Ids : \A K : Linked(i, K, j) = {}
      BY <2>1 DEF Linked
    <3> QED BY <3>1 DEF LinksReciprocal
  <2>4. FirstParentsAcyclic
    BY <2>2 DEF FirstParentsAcyclic
  <2> QED BY <2>1, <2>3, <2>4, CertsInit DEF LinksInv
<1>2. LinksInv /\ [Next]_vars => LinksInv'
  BY LinksInvStep
<1> QED BY <1>1, <1>2, PTL DEF Spec

(* For any number of certificates and any links in any order, through      *)
(* either end: a link is stored on both ends, and no certificate is its    *)
(* own ancestor along at most MAX_DEPTH first parents.                     *)
THEOREM LinksStaySound == Spec => []LinksAreSound
<1>1. LinksInv => LinksAreSound
  BY DEF LinksInv, LinksAreSound
<1> QED BY <1>1, LinksInvHolds, PTL

-----------------------------------------------------------------------------
(* What a creator has minted, and the totals.                              *)

Increasing(s) == \A k, l \in DOMAIN s : k < l => s[k] < s[l]

TotalsInv ==
  /\ CertsInv
  /\ day \in 0..LastDay
  /\ creatorIndex \in [Addresses -> Seq(Ids)]
  /\ creatorCount \in [Addresses -> Nat]
  /\ daily \in [0..LastDay -> Nat]
  /\ CreatorTotals

LEMMA IncreasingAppended ==
  ASSUME NEW s \in Seq(Ids), NEW t \in Seq(Ids), Increasing(s), Increasing(t),
         \A x \in Range(s), y \in Range(t) : x < y
  PROVE  /\ s \o t \in Seq(Ids) /\ Len(s \o t) = Len(s) + Len(t)
         /\ Range(s \o t) = Range(s) \cup Range(t)
         /\ Increasing(s \o t)
<1> DEFINE n == Len(s)
           u == s \o t
<1>1. /\ u \in Seq(Ids) /\ Len(u) = n + Len(t)
      /\ \A i \in 1..n + Len(t) : u[i] = IF i <= n THEN s[i] ELSE t[i - n]
  BY ConcatProperties
<1>2. /\ n \in Nat /\ Len(t) \in Nat /\ DOMAIN s = 1..n /\ DOMAIN t = 1..Len(t)
      /\ DOMAIN u = 1..(n + Len(t))
  BY <1>1
<1> HIDE DEF u, n
<1>3. \A i \in 1..n : i \in DOMAIN u /\ u[i] = s[i]
  BY <1>1, <1>2
<1>4. \A i \in 1..Len(t) : n + i \in DOMAIN u /\ u[n + i] = t[i]
  BY <1>1, <1>2
<1>5. \A i \in DOMAIN u : i \in 1..n \/ (i - n \in 1..Len(t) /\ n + (i - n) = i)
  BY <1>2
<1>6. Range(u) = Range(s) \cup Range(t)
  <2>1. Range(u) \subseteq Range(s) \cup Range(t)
    BY <1>2, <1>3, <1>4, <1>5 DEF Range
  <2>2. Range(s) \subseteq Range(u)
    BY <1>2, <1>3 DEF Range
  <2>3. Range(t) \subseteq Range(u)
    BY <1>2, <1>4 DEF Range
  <2> QED BY <2>1, <2>2, <2>3
<1>7. ASSUME NEW k \in DOMAIN u, NEW l \in DOMAIN u, k < l
      PROVE  u[k] < u[l]
  <2>1. CASE l \in 1..n
    <3>1. k \in 1..n
      BY <1>2, <1>7, <2>1
    <3> QED BY <1>2, <1>3, <1>7, <2>1, <3>1 DEF Increasing
  <2>2. CASE k \in 1..n /\ l \notin 1..n
    <3>1. l - n \in 1..Len(t) /\ u[l] = t[l - n]
      BY <1>1, <1>2, <2>2
    <3>2. s[k] \in Range(s) /\ t[l - n] \in Range(t)
      BY <1>2, <2>2, <3>1 DEF Range
    <3> QED BY <1>3, <2>2, <3>1, <3>2
  <2>3. CASE k \notin 1..n /\ l \notin 1..n
    <3>1. /\ l - n \in 1..Len(t) /\ u[l] = t[l - n]
          /\ k - n \in 1..Len(t) /\ u[k] = t[k - n]
          /\ k - n < l - n
      BY <1>1, <1>2, <1>7, <2>3
    <3> QED BY <1>2, <3>1 DEF Increasing
  <2> QED BY <2>1, <2>2, <2>3
<1> QED BY <1>1, <1>6, <1>7 DEF u, n, Increasing

LEMMA MintKeepsTotals ==
  ASSUME TotalsInv, NEW ms \in Seq(Manifests), NEW to \in Addresses, MintBatch(ms, to)
  PROVE  TotalsInv'
<1> DEFINE n == Len(certs)
           new == [k \in DOMAIN ms |-> n + k]
<1>1. /\ CertsInv' /\ Len(certs') = n + Len(ms)
      /\ \A i \in Minted : i \in Minted' /\ certs'[i] = certs[i]
      /\ \A k \in DOMAIN ms : certs'[n + k] =
           [manifest |-> ms[k], creator |-> to, revoked |-> FALSE, locked |-> FALSE]
  BY BatchAppends DEF TotalsInv
<1>2. /\ Minted = 1..n /\ Minted' = 1..(n + Len(ms)) /\ n \in Nat /\ Len(ms) \in Nat
      /\ Minted \subseteq Ids /\ Minted' \subseteq Ids /\ DOMAIN ms = 1..Len(ms)
  <2>1. Minted = 1..n /\ Minted \subseteq Ids /\ n \in Nat
    BY MintedAreIds DEF TotalsInv
  <2>2. certs' \in Seq(Cert) /\ Len(certs') <= MaxCerts
    BY <1>1 DEF CertsInv
  <2>3. Minted' = 1..(n + Len(ms))
    BY <1>1, <2>2 DEF Minted
  <2> QED BY <1>1, <2>1, <2>2, <2>3, CertificatesConstants DEF Ids
<1>3. /\ creatorIndex' = [creatorIndex EXCEPT ![to] = @ \o new]
      /\ creatorCount' = [creatorCount EXCEPT ![to] = @ + Len(ms)]
      /\ daily' = [daily EXCEPT ![day] = @ + Len(ms)]
      /\ UNCHANGED day
  BY DEF MintBatch, Counted
<1> HIDE DEF n
<1>4. new \in Seq(Ids) /\ Len(new) = Len(ms) /\ Range(new) = (n + 1)..(n + Len(ms)) /\ Increasing(new)
  <2>1. new \in [1..Len(ms) -> Ids]
    BY <1>2
  <2>2. new \in Seq(Ids) /\ Len(new) = Len(ms)
    <3> HIDE DEF new
    <3> QED BY <1>2, <2>1
  <2>3. Range(new) = (n + 1)..(n + Len(ms))
    <3>1. \A i \in (n + 1)..(n + Len(ms)) : i - n \in DOMAIN ms /\ n + (i - n) = i
      BY <1>2
    <3>2. \A k \in DOMAIN ms : n + k \in (n + 1)..(n + Len(ms))
      BY <1>2
    <3> QED BY <3>1, <3>2 DEF Range
  <2>4. Increasing(new)
    BY <1>2 DEF Increasing
  <2> QED BY <2>2, <2>3, <2>4
<1> HIDE DEF new
<1>5. ASSUME NEW a \in Addresses
      PROVE  /\ creatorIndex[a] \in Seq(Ids) /\ creatorCount[a] \in Nat
             /\ Range(creatorIndex[a]) = {i \in Minted : certs[i].creator = a}
             /\ Increasing(creatorIndex[a]) /\ creatorCount[a] = Len(creatorIndex[a])
  BY DEF TotalsInv, CreatorTotals, Increasing
<1>6. /\ creatorIndex[to] \o new \in Seq(Ids)
      /\ Len(creatorIndex[to] \o new) = Len(creatorIndex[to]) + Len(ms)
      /\ Range(creatorIndex[to] \o new) = Range(creatorIndex[to]) \cup Range(new)
      /\ Increasing(creatorIndex[to] \o new)
  <2>1. \A x \in Range(creatorIndex[to]), y \in Range(new) : x < y
    <3>1. \A x \in Range(creatorIndex[to]) : x \in 1..n
      BY <1>2, <1>5
    <3> QED BY <1>2, <1>4, <3>1
  <2> QED BY <1>4, <1>5, <2>1, IncreasingAppended
<1> PICK s : s = creatorIndex[to] \o new
  OBVIOUS
<1> PICK c : c = creatorCount[to] + Len(ms)
  OBVIOUS
<1>7. /\ s \in Seq(Ids) /\ c \in Nat /\ c = Len(s)
      /\ creatorIndex' = [creatorIndex EXCEPT ![to] = s]
      /\ creatorCount' = [creatorCount EXCEPT ![to] = c]
  BY <1>2, <1>3, <1>5, <1>6
<1>8. /\ creatorIndex' \in [Addresses -> Seq(Ids)] /\ creatorCount' \in [Addresses -> Nat]
      /\ creatorIndex'[to] = s /\ creatorCount'[to] = c
      /\ \A a \in Addresses \ {to} :
           creatorIndex'[a] = creatorIndex[a] /\ creatorCount'[a] = creatorCount[a]
  BY <1>7 DEF TotalsInv
<1>9. ASSUME NEW a \in Addresses, NEW i \in Minted'
      PROVE  certs'[i].creator = a <=> IF i \in Minted THEN certs[i].creator = a ELSE a = to
  <2>1. CASE i \in Minted
    BY <1>1, <2>1
  <2>2. CASE i \notin Minted
    <3>1. i - n \in DOMAIN ms /\ n + (i - n) = i
      BY <1>2, <2>2
    <3>2. PICK k \in DOMAIN ms : i = n + k
      BY <3>1
    <3>3. certs'[i] = [manifest |-> ms[k], creator |-> to, revoked |-> FALSE, locked |-> FALSE]
      BY <1>1, <3>2
    <3>4. certs'[i].creator = to
      BY <3>3
    <3> QED BY <2>2, <3>4
  <2> QED BY <2>1, <2>2
<1>10. ASSUME NEW a \in Addresses
       PROVE  /\ Range(creatorIndex'[a]) = {i \in Minted' : certs'[i].creator = a}
              /\ Increasing(creatorIndex'[a])
              /\ creatorCount'[a] = Len(creatorIndex'[a])
  <2>0. {i \in Minted' : certs'[i].creator = a} =
          {i \in Minted : certs[i].creator = a} \cup {i \in (n + 1)..(n + Len(ms)) : a = to}
    <3>1. \A i : i \in Minted' <=> i \in Minted \/ i \in (n + 1)..(n + Len(ms))
      BY <1>2
    <3>2. \A i \in (n + 1)..(n + Len(ms)) : i \notin Minted
      BY <1>2
    <3> QED BY <1>9, <3>1, <3>2
  <2>1. CASE a = to
    BY <1>4, <1>5, <1>6, <1>7, <1>8, <2>0, <2>1
  <2>2. CASE a # to
    BY <1>5, <1>8, <2>0, <2>2
  <2> QED BY <2>1, <2>2
<1>11. daily' \in [0..LastDay -> Nat] /\ Len(certs') = daily'[0] + SumOf(daily', LastDay)
  <2>1. /\ daily \in [0..LastDay -> Nat] /\ day \in 0..LastDay /\ LastDay \in Nat
        /\ n = daily[0] + SumOf(daily, LastDay)
    BY CertificatesConstants DEF TotalsInv, CreatorTotals, n
  <2> PICK e : e = daily[day] + Len(ms)
    OBVIOUS
  <2>2. e \in Nat /\ daily' = [daily EXCEPT ![day] = e]
    BY <1>2, <1>3, <2>1
  <2>3. daily' \in [0..LastDay -> Nat]
    BY <2>1, <2>2
  <2>4. \A i \in 0..LastDay : daily'[i] = IF i = day THEN daily[i] + Len(ms) ELSE daily[i]
    BY <1>3, <2>1
  <2>5. Differs(daily, daily', LastDay, day, Len(ms)) /\ day \in Nat /\ Len(ms) \in Int
    BY <1>2, <2>1, <2>4 DEF Differs
  <2>6. /\ SumOf(daily, LastDay) \in Nat
        /\ SumOf(daily', LastDay) = IF 1 <= day /\ day <= LastDay THEN SumOf(daily, LastDay) + Len(ms)
                                                                  ELSE SumOf(daily, LastDay)
    <3>1. Shifts(daily, daily', LastDay, day, Len(ms))
      BY <2>1, <2>5, SumChange
    <3> QED BY <3>1 DEF Shifts
  <2>7. daily'[0] = (IF day = 0 THEN daily[0] + Len(ms) ELSE daily[0]) /\ daily[0] \in Nat
    BY <2>1, <2>4
  <2> PICK x : x = SumOf(daily, LastDay)
    OBVIOUS
  <2>8. n + Len(ms) = daily'[0] + SumOf(daily', LastDay)
    <3>1. CASE day = 0
      BY <1>2, <2>1, <2>6, <2>7, <3>1
    <3>2. CASE day # 0
      BY <1>2, <2>1, <2>6, <2>7, <3>2
    <3> QED BY <3>1, <3>2
  <2> QED BY <1>1, <2>3, <2>8
<1> QED BY <1>1, <1>3, <1>8, <1>10, <1>11 DEF TotalsInv, CreatorTotals, Increasing

LEMMA TotalsInvStep ==
  ASSUME TotalsInv, [Next]_vars
  PROVE  TotalsInv'
<1>0. CertsInv'
  BY CertsStep DEF TotalsInv
<1>1. ASSUME NEW to \in Addresses, MintStep(to) PROVE TotalsInv'
  BY <1>1, MintStepIsBatch, MintKeepsTotals
<1>2. ASSUME NEW i \in Minted, AmendStep(i) PROVE TotalsInv'
  <2>1. /\ Minted' = Minted /\ \A j \in Minted : certs'[j].creator = certs[j].creator
        /\ Len(certs') = Len(certs)
    <3>1. Minted' = Minted /\ \A j \in Minted : certs'[j].creator = certs[j].creator
      BY <1>2, AmendKeeps DEF TotalsInv
    <3>2. /\ Minted = 1..Len(certs) /\ Minted' = 1..Len(certs')
          /\ Len(certs) \in Nat /\ Len(certs') \in Nat
      BY <1>0 DEF Minted, CertsInv, TotalsInv
    <3> QED BY <3>1, <3>2
  <2>2. UNCHANGED <<day, mintVars>>
    BY <1>2 DEF AmendStep, TransferCertificate, UpdateMetadata, AddAnchor, RevokeCertificate,
                LockCertificate
  <2> QED BY <1>0, <2>1, <2>2 DEF TotalsInv, CreatorTotals, mintVars
<1>3. CASE UNCHANGED <<certs, mintVars>> /\ day' \in 0..LastDay
  BY <1>0, <1>3 DEF TotalsInv, CreatorTotals, mintVars, Minted
<1>4. day' \in 0..LastDay
  <2>1. day \in 0..LastDay /\ LastDay \in Nat
    BY CertificatesConstants DEF TotalsInv
  <2>2. ASSUME NEW i \in Minted, IndexStep(i) PROVE UNCHANGED day
    BY <2>2 DEF IndexStep, GenerateVerificationCode, SetMediaProperties, TagStep, AddTag,
                RemoveTag, SetTags, AddCertificateToCollection, EndorseCertificate,
                RemoveEndorsement, certificateVars
  <2>3. ASSUME NEW i \in Minted, LinkStep(i) PROVE UNCHANGED day
    BY <2>3 DEF LinkStep, LinkCertificates
  <2>4. ASSUME NEW to \in Addresses, MintStep(to) PROVE UNCHANGED day
    BY <2>4, MintStepIsBatch DEF MintBatch
  <2>5. ASSUME NEW i \in Minted, AmendStep(i) PROVE UNCHANGED day
    BY <2>5 DEF AmendStep, TransferCertificate, UpdateMetadata, AddAnchor, RevokeCertificate,
                LockCertificate
  <2>6. UNCHANGED vars \/ CreateCollection => UNCHANGED day
    BY DEF vars, certificateVars, CreateCollection
  <2>7. DayPasses => day' \in 0..LastDay
    BY <2>1 DEF DayPasses
  <2> QED BY <2>1, <2>2, <2>3, <2>4, <2>5, <2>6, <2>7, StepCases
<1> QED BY <1>1, <1>2, <1>3, <1>4, StepCases, OtherStepsKeepCerts

LEMMA TotalsInvInit == Init => TotalsInv
<1> SUFFICES ASSUME Init PROVE TotalsInv
  OBVIOUS
<1>1. /\ certs = << >> /\ day = 0 /\ creatorIndex = [a \in Addresses |-> << >>]
      /\ creatorCount = [a \in Addresses |-> 0] /\ daily = [d \in 0..LastDay |-> 0]
  BY DEF Init, CertificatesInit
<1>2. Minted = {} /\ 0 \in 0..LastDay /\ LastDay \in Nat
  BY <1>1, CertificatesConstants DEF Minted
<1>3. SumOf(daily, LastDay) = 0
  <2>1. \A i \in 1..LastDay : daily[i] = 0
    BY <1>1, <1>2
  <2> QED BY <1>2, <2>1, SumOfZeros
<1>4. ASSUME NEW a \in Addresses
      PROVE  /\ Range(creatorIndex[a]) = {i \in Minted : certs[i].creator = a}
             /\ \A k, l \in DOMAIN creatorIndex[a] : k < l => creatorIndex[a][k] < creatorIndex[a][l]
             /\ creatorCount[a] = Len(creatorIndex[a])
  <2>1. creatorIndex[a] = << >> /\ creatorCount[a] = 0
    BY <1>1
  <2> QED BY <1>2, <2>1 DEF Range
<1>5. Len(certs) = daily[0] + SumOf(daily, LastDay)
  BY <1>1, <1>2, <1>3
<1> QED BY <1>1, <1>2, <1>4, <1>5, CertsInit DEF TotalsInv, CreatorTotals

-----------------------------------------------------------------------------
(* Searches.                                                               *)

SearchInv ==
  /\ CertsInv
  /\ media \in [Ids -> ContentTypes \cup {NoMedia}]
  /\ typeIndex \in [ContentTypes -> Seq(Ids)]
  /\ tags \in [Ids -> Seq(Tags)] /\ \A i \in Ids : Len(tags[i]) <= MaxTags
  /\ tagIndex \in [Tags -> Seq(Ids)]
  /\ SearchesExact

LEMMA SetMediaKeepsSearches ==
  ASSUME SearchInv, CertsInv', NEW i \in Ids, NEW t \in ContentTypes, SetMediaProperties(i, t)
  PROVE  SearchInv'
<1>1. /\ typeIndex' = [OldTypeRemoved(i) EXCEPT ![t] = Append(@, i)]
      /\ media' = [media EXCEPT ![i] = t] /\ UNCHANGED tagVars
  BY DEF SetMediaProperties
<1> DEFINE old == OldTypeRemoved(i)
<1>2. ASSUME NEW u \in ContentTypes
      PROVE  old[u] \in Seq(Ids) /\ Lists(old[u], {j \in Ids \ {i} : media[j] = u})
  <2>1. typeIndex[u] \in Seq(Ids) /\ Lists(typeIndex[u], {j \in Ids : media[j] = u})
    BY DEF SearchInv, SearchesExact
  <2>2. old[u] = IF u = media[i] THEN Without(typeIndex[u], i) ELSE typeIndex[u]
    BY DEF OldTypeRemoved
  <2> HIDE DEF old
  <2>3. CASE u = media[i]
    <3>1. /\ Without(typeIndex[u], i) \in Seq(Ids)
          /\ Range(Without(typeIndex[u], i)) = Range(typeIndex[u]) \ {i}
          /\ IsInjective(Without(typeIndex[u], i))
      BY <2>1, WithoutElement DEF Lists
    <3> QED BY <2>1, <2>2, <2>3, <3>1 DEF Lists
  <2>4. CASE u # media[i]
    BY <2>1, <2>2, <2>4 DEF Lists
  <2> QED BY <2>3, <2>4
<1>3. DOMAIN old = ContentTypes
  BY DEF OldTypeRemoved
<1> HIDE DEF old
<1>4. old \in [ContentTypes -> Seq(Ids)]
  <2>1. old = [u \in ContentTypes |-> old[u]]
    BY DEF old, OldTypeRemoved
  <2> QED BY <1>2, <2>1
<1> PICK s : s = Append(old[t], i)
  OBVIOUS
<1>5. s \in Seq(Ids) /\ Lists(s, {j \in Ids \ {i} : media[j] = t} \cup {i})
  <2>1. old[t] \in Seq(Ids) /\ i \notin Range(old[t]) /\ IsInjective(old[t])
    BY <1>2 DEF Lists
  <2> QED BY <1>2, <2>1, AppendElement DEF Lists
<1>6. typeIndex' = [old EXCEPT ![t] = s]
  BY <1>1 DEF old
<1>7. /\ typeIndex' \in [ContentTypes -> Seq(Ids)]
      /\ \A u \in ContentTypes : typeIndex'[u] = IF u = t THEN s ELSE old[u]
  BY <1>4, <1>5, <1>6
<1>8. /\ media' \in [Ids -> ContentTypes \cup {NoMedia}]
      /\ \A j \in Ids : media'[j] = IF j = i THEN t ELSE media[j]
  BY <1>1 DEF SearchInv
<1>9. ASSUME NEW u \in ContentTypes
      PROVE  Lists(typeIndex'[u], {j \in Ids : media'[j] = u})
  <2>1. CASE u = t
    <3>1. {j \in Ids : media'[j] = u} = {j \in Ids \ {i} : media[j] = t} \cup {i}
      BY <1>8, <2>1
    <3> QED BY <1>5, <1>7, <2>1, <3>1
  <2>2. CASE u # t
    <3>1. {j \in Ids : media'[j] = u} = {j \in Ids \ {i} : media[j] = u}
      BY <1>8, <2>2
    <3> QED BY <1>2, <1>7, <2>2, <3>1
  <2> QED BY <2>1, <2>2
<1>10. \A u \in Tags : Lists(tagIndex'[u], {j \in Ids : u \in Range(tags'[j])})
  BY <1>1 DEF SearchInv, SearchesExact, tagVars
<1> QED BY <1>1, <1>7, <1>8, <1>9, <1>10 DEF SearchInv, SearchesExact, tagVars

(* The tags of one certificate change, and each tag's list gains or loses  *)
(* that certificate.                                                       *)
LEMMA OneRetagged ==
  ASSUME SearchInv, CertsInv', NEW i \in Ids, NEW new \in Seq(Tags), Len(new) <= MaxTags,
         tags' = [tags EXCEPT ![i] = new], UNCHANGED mediaVars,
         tagIndex' \in [Tags -> Seq(Ids)],
         \A t \in Tags : /\ IsInjective(tagIndex'[t])
                         /\ Range(tagIndex'[t]) = IF t \in Range(new) THEN Range(tagIndex[t]) \cup {i}
                                                                      ELSE Range(tagIndex[t]) \ {i}
  PROVE  SearchInv'
<1>1. /\ tags' \in [Ids -> Seq(Tags)] /\ \A j \in Ids : tags'[j] = IF j = i THEN new ELSE tags[j]
  BY DEF SearchInv
<1>2. \A j \in Ids : Len(tags'[j]) <= MaxTags
  BY <1>1 DEF SearchInv
<1>3. ASSUME NEW t \in Tags
      PROVE  Lists(tagIndex'[t], {j \in Ids : t \in Range(tags'[j])})
  <2>1. Range(tagIndex[t]) = {j \in Ids : t \in Range(tags[j])}
    BY DEF SearchInv, SearchesExact, Lists
  <2>2. \A j \in Ids : t \in Range(tags'[j]) <=> IF j = i THEN t \in Range(new) ELSE t \in Range(tags[j])
    BY <1>1
  <2>3. Range(tagIndex'[t]) = {j \in Ids : t \in Range(tags'[j])}
    BY <2>1, <2>2
  <2> QED BY <2>3 DEF Lists
<1>4. \A u \in ContentTypes : Lists(typeIndex'[u], {j \in Ids : media'[j] = u})
  BY DEF SearchInv, SearchesExact, mediaVars
<1> QED BY <1>1, <1>2, <1>3, <1>4 DEF SearchInv, SearchesExact, mediaVars

LEMMA TagListOf ==
  ASSUME SearchInv, NEW t \in Tags
  PROVE  /\ tagIndex[t] \in Seq(Ids) /\ IsInjective(tagIndex[t])
         /\ Range(tagIndex[t]) = {j \in Ids : t \in Range(tags[j])}
BY DEF SearchInv, SearchesExact, Lists

LEMMA AddTagKeepsSearches ==
  ASSUME SearchInv, CertsInv', NEW i \in Ids, NEW t \in Tags, AddTag(i, t)
  PROVE  SearchInv'
<1>1. /\ Len(tags[i]) < MaxTags
      /\ tags' = [tags EXCEPT ![i] = Append(@, t)]
      /\ tagIndex' = [tagIndex EXCEPT ![t] = With(@, i)]
      /\ UNCHANGED mediaVars
  BY DEF AddTag, TagFits
<1> PICK new : new = Append(tags[i], t)
  OBVIOUS
<1>2. tags[i] \in Seq(Tags)
  BY DEF SearchInv
<1>3. new \in Seq(Tags) /\ Len(new) <= MaxTags /\ Range(new) = Range(tags[i]) \cup {t}
  BY <1>1, <1>2, AppendElement, ProvenanceConstants
<1> PICK s : s = With(tagIndex[t], i)
  OBVIOUS
<1>4. s \in Seq(Ids) /\ IsInjective(s) /\ Range(s) = Range(tagIndex[t]) \cup {i}
  BY TagListOf, WithElement
<1>5. tags' = [tags EXCEPT ![i] = new] /\ tagIndex' = [tagIndex EXCEPT ![t] = s]
  BY <1>1
<1>6. /\ tagIndex' \in [Tags -> Seq(Ids)]
      /\ \A u \in Tags : tagIndex'[u] = IF u = t THEN s ELSE tagIndex[u]
  BY <1>4, <1>5 DEF SearchInv
<1>7. ASSUME NEW u \in Tags
      PROVE  /\ IsInjective(tagIndex'[u])
             /\ Range(tagIndex'[u]) = IF u \in Range(new) THEN Range(tagIndex[u]) \cup {i}
                                                          ELSE Range(tagIndex[u]) \ {i}
  <2>1. CASE u = t
    BY <1>3, <1>4, <1>6, <2>1
  <2>2. CASE u # t
    <3>1. IsInjective(tagIndex[u]) /\ Range(tagIndex[u]) = {j \in Ids : u \in Range(tags[j])}
      BY TagListOf
    <3>2. u \in Range(new) <=> i \in Range(tagIndex[u])
      BY <1>3, <2>2, <3>1
    <3> QED BY <1>6, <2>2, <3>1, <3>2
  <2> QED BY <2>1, <2>2
<1> QED BY <1>1, <1>3, <1>5, <1>6, <1>7, OneRetagged

LEMMA RemoveTagKeepsSearches ==
  ASSUME SearchInv, CertsInv', NEW i \in Ids, NEW t \in Tags, RemoveTag(i, t)
  PROVE  SearchInv'
<1>1. /\ tags' = [tags EXCEPT ![i] = Without(@, t)]
      /\ tagIndex' = [tagIndex EXCEPT ![t] = Without(@, i)]
      /\ UNCHANGED mediaVars
  BY DEF RemoveTag
<1> PICK new : new = Without(tags[i], t)
  OBVIOUS
<1>2. tags[i] \in Seq(Tags) /\ Len(tags[i]) <= MaxTags
  BY DEF SearchInv
<1>3. new \in Seq(Tags) /\ Len(new) <= MaxTags /\ Range(new) = Range(tags[i]) \ {t}
  <2>1. new \in Seq(Tags) /\ Range(new) = Range(tags[i]) \ {t}
    BY <1>2, WithoutElement
  <2>2. Len(new) <= Len(tags[i])
    BY <1>2, DroppingShortens DEF Without
  <2>3. Len(new) \in Nat /\ Len(tags[i]) \in Nat
    BY <1>2, <2>1
  <2> QED BY <1>2, <2>1, <2>2, <2>3, ProvenanceConstants
<1> PICK s : s = Without(tagIndex[t], i)
  OBVIOUS
<1>4. s \in Seq(Ids) /\ IsInjective(s) /\ Range(s) = Range(tagIndex[t]) \ {i}
  BY TagListOf, WithoutElement
<1>5. tags' = [tags EXCEPT ![i] = new] /\ tagIndex' = [tagIndex EXCEPT ![t] = s]
  BY <1>1
<1>6. /\ tagIndex' \in [Tags -> Seq(Ids)]
      /\ \A u \in Tags : tagIndex'[u] = IF u = t THEN s ELSE tagIndex[u]
  BY <1>4, <1>5 DEF SearchInv
<1>7. ASSUME NEW u \in Tags
      PROVE  /\ IsInjective(tagIndex'[u])
             /\ Range(tagIndex'[u]) = IF u \in Range(new) THEN Range(tagIndex[u]) \cup {i}
                                                          ELSE Range(tagIndex[u]) \ {i}
  <2>1. CASE u = t
    BY <1>3, <1>4, <1>6, <2>1
  <2>2. CASE u # t
    <3>1. IsInjective(tagIndex[u]) /\ Range(tagIndex[u]) = {j \in Ids : u \in Range(tags[j])}
      BY TagListOf
    <3>2. u \in Range(new) <=> i \in Range(tagIndex[u])
      BY <1>3, <2>2, <3>1
    <3> QED BY <1>6, <2>2, <3>1, <3>2
  <2> QED BY <2>1, <2>2
<1> QED BY <1>1, <1>3, <1>5, <1>6, <1>7, OneRetagged

LEMMA SetTagsKeepsSearches ==
  ASSUME SearchInv, CertsInv', NEW i \in Ids, NEW new \in Seq(Tags), SetTags(i, new)
  PROVE  SearchInv'
<1>1. /\ Len(new) <= MaxTags /\ tags' = [tags EXCEPT ![i] = new]
      /\ tagIndex' = Retagged(i, new) /\ UNCHANGED mediaVars
  BY DEF SetTags
<1> DEFINE rest(t) == IF t \in Range(tags[i]) THEN Without(tagIndex[t], i) ELSE tagIndex[t]
           now(t) == IF t \in Range(new) THEN With(rest(t), i) ELSE rest(t)
<1>2. ASSUME NEW t \in Tags
      PROVE  /\ rest(t) \in Seq(Ids) /\ IsInjective(rest(t))
             /\ Range(rest(t)) = Range(tagIndex[t]) \ {i}
  <2>1. /\ tagIndex[t] \in Seq(Ids) /\ IsInjective(tagIndex[t])
        /\ t \notin Range(tags[i]) => i \notin Range(tagIndex[t])
    BY TagListOf
  <2>2. /\ Without(tagIndex[t], i) \in Seq(Ids) /\ IsInjective(Without(tagIndex[t], i))
        /\ Range(Without(tagIndex[t], i)) = Range(tagIndex[t]) \ {i}
    BY <2>1, WithoutElement
  <2>3. CASE t \in Range(tags[i])
    BY <2>2, <2>3
  <2>4. CASE t \notin Range(tags[i])
    BY <2>1, <2>4
  <2> QED BY <2>3, <2>4
<1>3. tagIndex' = [t \in Tags |-> now(t)]
  BY <1>1 DEF Retagged
<1> HIDE DEF rest
<1>4. ASSUME NEW t \in Tags
      PROVE  /\ now(t) \in Seq(Ids) /\ IsInjective(now(t))
             /\ Range(now(t)) = IF t \in Range(new) THEN Range(tagIndex[t]) \cup {i}
                                                    ELSE Range(tagIndex[t]) \ {i}
  <2>1. /\ With(rest(t), i) \in Seq(Ids) /\ IsInjective(With(rest(t), i))
        /\ Range(With(rest(t), i)) = Range(rest(t)) \cup {i}
    BY <1>2, WithElement
  <2>2. CASE t \in Range(new)
    BY <1>2, <2>1, <2>2
  <2>3. CASE t \notin Range(new)
    BY <1>2, <2>3
  <2> QED BY <2>2, <2>3
<1> HIDE DEF now
<1>5. tagIndex' \in [Tags -> Seq(Ids)] /\ \A t \in Tags : tagIndex'[t] = now(t)
  BY <1>3, <1>4
<1>6. \A t \in Tags : /\ IsInjective(tagIndex'[t])
                      /\ Range(tagIndex'[t]) = IF t \in Range(new) THEN Range(tagIndex[t]) \cup {i}
                                                                   ELSE Range(tagIndex[t]) \ {i}
  BY <1>4, <1>5
<1> QED BY <1>1, <1>5, <1>6, OneRetagged

LEMMA SearchInvStep ==
  ASSUME SearchInv, [Next]_vars
  PROVE  SearchInv'
<1>0. CertsInv'
  BY CertsStep DEF SearchInv
<1>1. ASSUME NEW i \in Minted, TagStep(i) PROVE SearchInv'
  <2>1. i \in Ids
    BY MintedAreIds DEF SearchInv
  <2>2. ASSUME NEW n \in 0..MaxTags, NEW new \in [1..n -> Tags], SetTags(i, new) PROVE SearchInv'
    <3>1. new \in Seq(Tags)
      OBVIOUS
    <3> QED BY <1>0, <2>1, <2>2, <3>1, SetTagsKeepsSearches
  <2> QED BY <1>0, <1>1, <2>1, <2>2, AddTagKeepsSearches, RemoveTagKeepsSearches DEF TagStep
<1>2. ASSUME NEW i \in Minted, NEW t \in ContentTypes, SetMediaProperties(i, t) PROVE SearchInv'
  BY <1>0, <1>2, MintedAreIds, SetMediaKeepsSearches DEF SearchInv
<1>3. CASE UNCHANGED <<mediaVars, tagVars>>
  BY <1>0, <1>3 DEF SearchInv, SearchesExact, mediaVars, tagVars
<1>4. ASSUME NEW i \in Minted, IndexStep(i), ~TagStep(i),
             ~(\E t \in ContentTypes : SetMediaProperties(i, t))
      PROVE  UNCHANGED <<mediaVars, tagVars>>
  BY <1>4 DEF IndexStep, GenerateVerificationCode, AddCertificateToCollection,
              EndorseCertificate, RemoveEndorsement
<1>5. UNCHANGED vars \/ UNCHANGED indexVars \/ CreateCollection => UNCHANGED <<mediaVars, tagVars>>
  BY DEF vars, indexVars, CreateCollection
<1> QED BY <1>1, <1>2, <1>3, <1>4, <1>5, StepCases

-----------------------------------------------------------------------------
(* Collections.                                                            *)

CollectionsInv ==
  /\ CertsInv
  /\ collections \in 0..MaxCollections
  /\ collCerts \in [Collections -> Seq(Ids)]
  /\ certColls \in [Ids -> Seq(Collections)]
  /\ CollectionsAgree

LEMMA AddKeepsCollections ==
  ASSUME CollectionsInv, CertsInv', NEW i \in Minted, NEW c \in Collections,
         AddCertificateToCollection(c, i)
  PROVE  CollectionsInv'
<1>1. /\ c <= collections
      /\ collCerts' = [collCerts EXCEPT ![c] = With(@, i)]
      /\ certColls' = [certColls EXCEPT ![i] = With(@, c)]
      /\ UNCHANGED <<certs, collections>>
  BY DEF AddCertificateToCollection, ListedOnCertificate, certificateVars
<1>2. /\ i \in Ids /\ Minted' = Minted /\ collections \in Nat /\ Minted \subseteq Ids
      /\ c \in 1..collections
  <2>1. Minted' = Minted /\ collections \in Nat
    BY <1>1, ProvenanceConstants DEF Minted, CollectionsInv
  <2> QED BY <1>1, <2>1, MintedAreIds DEF CollectionsInv, Collections
<1>3. /\ collCerts[c] \in Seq(Ids) /\ IsInjective(collCerts[c])
      /\ certColls[i] \in Seq(Collections) /\ IsInjective(certColls[i])
  BY <1>2 DEF CollectionsInv, CollectionsAgree, Lists
<1> PICK s : s = With(collCerts[c], i)
  OBVIOUS
<1> PICK t : t = With(certColls[i], c)
  OBVIOUS
<1>4. /\ s \in Seq(Ids) /\ IsInjective(s) /\ Range(s) = Range(collCerts[c]) \cup {i}
      /\ t \in Seq(Collections) /\ IsInjective(t) /\ Range(t) = Range(certColls[i]) \cup {c}
  <2>1. s \in Seq(Ids) /\ IsInjective(s) /\ Range(s) = Range(collCerts[c]) \cup {i}
    BY <1>2, <1>3, WithElement
  <2>2. t \in Seq(Collections) /\ IsInjective(t) /\ Range(t) = Range(certColls[i]) \cup {c}
    BY <1>3, WithElement
  <2> QED BY <2>1, <2>2
<1>5. /\ collCerts' \in [Collections -> Seq(Ids)]
      /\ \A d \in Collections : collCerts'[d] = IF d = c THEN s ELSE collCerts[d]
      /\ certColls' \in [Ids -> Seq(Collections)]
      /\ \A j \in Ids : certColls'[j] = IF j = i THEN t ELSE certColls[j]
  BY <1>1, <1>2, <1>4 DEF CollectionsInv
<1>6. ASSUME NEW d \in Collections
      PROVE  Lists(collCerts'[d], {j \in Minted' : d \in Range(certColls'[j])})
  <2>1. Range(collCerts[d]) = {j \in Minted : d \in Range(certColls[j])} /\ IsInjective(collCerts[d])
    BY DEF CollectionsInv, CollectionsAgree, Lists
  <2>2. \A j \in Minted : d \in Range(certColls'[j]) <=>
          d \in Range(certColls[j]) \/ (j = i /\ d = c)
    BY <1>2, <1>4, <1>5
  <2>3. Range(collCerts'[d]) = IF d = c THEN Range(collCerts[d]) \cup {i} ELSE Range(collCerts[d])
    BY <1>4, <1>5
  <2>4. IsInjective(collCerts'[d])
    BY <1>4, <1>5, <2>1
  <2>5. Range(collCerts'[d]) = {j \in Minted : d \in Range(certColls'[j])}
    BY <1>2, <2>1, <2>2, <2>3
  <2> QED BY <1>2, <2>4, <2>5 DEF Lists
<1>7. ASSUME NEW j \in Ids
      PROVE  Lists(certColls'[j], {d \in 1..collections' : j \in Range(collCerts'[d])})
  <2>1. Range(certColls[j]) = {d \in 1..collections : j \in Range(collCerts[d])} /\ IsInjective(certColls[j])
    BY DEF CollectionsInv, CollectionsAgree, Lists
  <2>2. 1..collections \subseteq Collections
    BY ProvenanceConstants DEF CollectionsInv, Collections
  <2>3. \A d \in 1..collections : j \in Range(collCerts'[d]) <=>
          j \in Range(collCerts[d]) \/ (d = c /\ j = i)
    BY <1>4, <1>5, <2>2
  <2>4. Range(certColls'[j]) = IF j = i THEN Range(certColls[j]) \cup {c} ELSE Range(certColls[j])
    BY <1>4, <1>5
  <2>5. IsInjective(certColls'[j])
    BY <1>4, <1>5, <2>1
  <2>6. Range(certColls'[j]) = {d \in 1..collections : j \in Range(collCerts'[d])}
    BY <1>2, <2>1, <2>3, <2>4
  <2> QED BY <1>1, <2>5, <2>6 DEF Lists
<1> QED BY <1>1, <1>5, <1>6, <1>7 DEF CollectionsInv, CollectionsAgree

(* A certificate or a collection that is new is in none and has none.      *)
LEMMA MoreOfBothKeepsCollections ==
  ASSUME CollectionsInv, CertsInv', Minted \subseteq Minted',
         collections' \in 0..MaxCollections, collections <= collections',
         UNCHANGED <<collCerts, certColls>>
  PROVE  CollectionsInv'
<1>0. /\ Minted \subseteq Ids /\ Minted' \subseteq Ids /\ collections \in Nat /\ collections' \in Nat
      /\ 1..collections \subseteq Collections /\ 1..collections' \subseteq Collections
  <2>1. certs' \in Seq(Cert) /\ Len(certs') <= MaxCerts
    BY DEF CertsInv
  <2>2. Minted' \subseteq Ids
    BY <2>1, CertificatesConstants DEF Minted, Ids
  <2> QED BY <2>2, MintedAreIds, ProvenanceConstants DEF CollectionsInv, Collections
<1>1. ASSUME NEW d \in Collections, NEW j \in Ids, d \in Range(certColls[j]) \/ j \in Range(collCerts[d])
      PROVE  d \in 1..collections /\ j \in Minted /\ d \in Range(certColls[j]) /\ j \in Range(collCerts[d])
  BY <1>0, <1>1 DEF CollectionsInv, CollectionsAgree, Lists
<1>2. ASSUME NEW d \in Collections
      PROVE  Lists(collCerts'[d], {j \in Minted' : d \in Range(certColls'[j])})
  <2>1. Lists(collCerts[d], {j \in Minted : d \in Range(certColls[j])})
    BY DEF CollectionsInv, CollectionsAgree
  <2>2. {j \in Minted' : d \in Range(certColls[j])} = {j \in Minted : d \in Range(certColls[j])}
    BY <1>0, <1>1
  <2> QED BY <2>1, <2>2
<1>3. ASSUME NEW j \in Ids
      PROVE  Lists(certColls'[j], {d \in 1..collections' : j \in Range(collCerts'[d])})
  <2>1. Lists(certColls[j], {d \in 1..collections : j \in Range(collCerts[d])})
    BY DEF CollectionsInv, CollectionsAgree
  <2>2. {d \in 1..collections' : j \in Range(collCerts[d])} = {d \in 1..collections : j \in Range(collCerts[d])}
    BY <1>0, <1>1
  <2> QED BY <2>1, <2>2
<1> QED BY <1>2, <1>3 DEF CollectionsInv, CollectionsAgree

LEMMA CollectionsInvStep ==
  ASSUME CollectionsInv, [Next]_vars
  PROVE  CollectionsInv'
<1>0. /\ CertsInv' /\ collections \in 0..MaxCollections /\ collections \in Nat
      /\ collections <= collections
  BY CertsStep, ProvenanceConstants DEF CollectionsInv
<1>1. ASSUME NEW i \in Minted, NEW c \in Collections, AddCertificateToCollection(c, i)
      PROVE  CollectionsInv'
  BY <1>0, <1>1, AddKeepsCollections
<1>2. CASE CreateCollection
  <2>1. collections' = collections + 1 /\ collections < MaxCollections /\ UNCHANGED <<certs, collCerts, certColls>>
    BY <1>2 DEF CreateCollection, certificateVars
  <2>2. collections' \in 0..MaxCollections /\ collections <= collections' /\ Minted' = Minted
    BY <1>0, <2>1, ProvenanceConstants DEF Minted
  <2> QED BY <1>0, <2>1, <2>2, MoreOfBothKeepsCollections
<1>3. CASE UNCHANGED collectionVars /\ Minted \subseteq Minted'
  BY <1>0, <1>3, MoreOfBothKeepsCollections DEF collectionVars
<1>4. Minted \subseteq Minted'
  <2>1. ASSUME NEW to \in Addresses, MintStep(to) PROVE Minted \subseteq Minted'
    BY <2>1, MintStepIsBatch, BatchAppends DEF CollectionsInv
  <2>2. ASSUME NEW i \in Minted, AmendStep(i) PROVE Minted \subseteq Minted'
    BY <2>2, AmendKeeps DEF CollectionsInv
  <2>3. UNCHANGED certs => Minted \subseteq Minted'
    BY DEF Minted
  <2> QED BY <2>1, <2>2, <2>3, StepCases, OtherStepsKeepCerts
<1>5. ASSUME NEW i \in Minted, IndexStep(i), ~(\E c \in Collections : AddCertificateToCollection(c, i))
      PROVE  UNCHANGED collectionVars
  BY <1>5 DEF IndexStep, GenerateVerificationCode, SetMediaProperties, TagStep, AddTag, RemoveTag,
              SetTags, EndorseCertificate, RemoveEndorsement
<1>6. UNCHANGED vars \/ UNCHANGED indexVars => UNCHANGED collectionVars
  BY DEF vars, indexVars
<1> QED BY <1>1, <1>2, <1>3, <1>4, <1>5, <1>6, StepCases

-----------------------------------------------------------------------------
(* Endorsements.                                                           *)

EndorsementsInv ==
  /\ CertsInv
  /\ endorsed \in [Ids -> SUBSET Addresses]
  /\ endorsers \in [Ids -> Seq(Addresses)]
  /\ endorsements \in [Ids -> Nat]
  /\ EndorsementsAgree

LEMMA OneEndorsed ==
  ASSUME EndorsementsInv, CertsInv', NEW i \in Ids,
         NEW E \in SUBSET Addresses, endorsed' = [endorsed EXCEPT ![i] = E],
         NEW s \in Seq(Addresses), endorsers' = [endorsers EXCEPT ![i] = s],
         NEW n \in Nat, endorsements' = [endorsements EXCEPT ![i] = n],
         Lists(s, E), n = Cardinality(E)
  PROVE  EndorsementsInv'
<1>1. /\ endorsed' \in [Ids -> SUBSET Addresses] /\ endorsers' \in [Ids -> Seq(Addresses)]
      /\ endorsements' \in [Ids -> Nat]
      /\ \A j \in Ids : /\ endorsed'[j] = IF j = i THEN E ELSE endorsed[j]
                        /\ endorsers'[j] = IF j = i THEN s ELSE endorsers[j]
                        /\ endorsements'[j] = IF j = i THEN n ELSE endorsements[j]
  BY DEF EndorsementsInv
<1>2. \A j \in Ids : Lists(endorsers'[j], endorsed'[j]) /\ endorsements'[j] = Cardinality(endorsed'[j])
  BY <1>1 DEF EndorsementsInv, EndorsementsAgree
<1> QED BY <1>1, <1>2 DEF EndorsementsInv, EndorsementsAgree

LEMMA EndorsementsInvStep ==
  ASSUME EndorsementsInv, [Next]_vars
  PROVE  EndorsementsInv'
<1>0. CertsInv' /\ Minted \subseteq Ids
  BY CertsStep, MintedAreIds DEF EndorsementsInv
<1>1. ASSUME NEW i \in Ids
      PROVE  /\ endorsed[i] \in SUBSET Addresses /\ endorsers[i] \in Seq(Addresses)
             /\ endorsements[i] \in Nat /\ IsFiniteSet(endorsed[i])
             /\ Range(endorsers[i]) = endorsed[i] /\ IsInjective(endorsers[i])
             /\ endorsements[i] = Cardinality(endorsed[i])
  <2>1. /\ endorsed[i] \in SUBSET Addresses /\ endorsers[i] \in Seq(Addresses) /\ endorsements[i] \in Nat
        /\ Range(endorsers[i]) = endorsed[i] /\ IsInjective(endorsers[i])
        /\ endorsements[i] = Cardinality(endorsed[i])
    BY DEF EndorsementsInv, EndorsementsAgree, Lists
  <2>2. IsFiniteSet(Range(endorsers[i]))
    BY <2>1, InjectiveLength
  <2> QED BY <2>1, <2>2
<1>2. ASSUME NEW i \in Minted, NEW a \in Addresses, EndorseCertificate(i, a)
      PROVE  EndorsementsInv'
  <2>1. /\ a \notin endorsed[i]
        /\ endorsed' = [endorsed EXCEPT ![i] = @ \cup {a}]
        /\ endorsers' = [endorsers EXCEPT ![i] = Append(@, a)]
        /\ endorsements' = [endorsements EXCEPT ![i] = @ + 1]
    BY <1>2 DEF EndorseCertificate
  <2> PICK E : E = endorsed[i] \cup {a}
    OBVIOUS
  <2> PICK s : s = Append(endorsers[i], a)
    OBVIOUS
  <2> PICK n : n = endorsements[i] + 1
    OBVIOUS
  <2>2. i \in Ids
    BY <1>0
  <2>3. Lists(s, E) /\ s \in Seq(Addresses)
    BY <1>1, <2>1, <2>2, AppendElement DEF Lists
  <2>4. n = Cardinality(E) /\ n \in Nat /\ E \in SUBSET Addresses
    <3>1. Cardinality(E) = Cardinality(endorsed[i]) + 1
      BY <1>1, <2>1, <2>2, FS_AddElement
    <3>2. endorsements[i] \in Nat /\ endorsements[i] = Cardinality(endorsed[i])
      BY <1>1, <2>2
    <3>3. E \in SUBSET Addresses
      BY <1>1, <2>2
    <3> QED BY <3>1, <3>2, <3>3
  <2>5. /\ endorsed' = [endorsed EXCEPT ![i] = E] /\ endorsers' = [endorsers EXCEPT ![i] = s]
        /\ endorsements' = [endorsements EXCEPT ![i] = n]
    BY <2>1
  <2> QED BY <1>0, <2>2, <2>3, <2>4, <2>5, OneEndorsed
<1>3. ASSUME NEW i \in Minted, NEW a \in Addresses, RemoveEndorsement(i, a)
      PROVE  EndorsementsInv'
  <2>1. /\ a \in endorsed[i]
        /\ endorsed' = [endorsed EXCEPT ![i] = @ \ {a}]
        /\ endorsers' = [endorsers EXCEPT ![i] = Without(@, a)]
        /\ endorsements' = [endorsements EXCEPT ![i] = IF @ > 0 THEN @ - 1 ELSE 0]
    BY <1>3 DEF RemoveEndorsement, Endorses
  <2> PICK E : E = endorsed[i] \ {a}
    OBVIOUS
  <2> PICK s : s = Without(endorsers[i], a)
    OBVIOUS
  <2> PICK n : n = IF endorsements[i] > 0 THEN endorsements[i] - 1 ELSE 0
    OBVIOUS
  <2>2. i \in Ids
    BY <1>0
  <2>3. Lists(s, E) /\ s \in Seq(Addresses)
    BY <1>1, <2>2, WithoutElement DEF Lists
  <2>4. n = Cardinality(E) /\ n \in Nat /\ E \in SUBSET Addresses
    <3>1. IsFiniteSet(E) /\ Cardinality(E) = endorsements[i] - 1
      BY <1>1, <2>1, <2>2, FS_RemoveElement
    <3>2. Cardinality(E) \in Nat
      BY <3>1, FS_CardinalityType
    <3>3. endorsements[i] \in Nat
      BY <1>1, <2>2
    <3>4. E \in SUBSET Addresses
      BY <1>1, <2>2
    <3> QED BY <3>1, <3>2, <3>3, <3>4
  <2>5. /\ endorsed' = [endorsed EXCEPT ![i] = E] /\ endorsers' = [endorsers EXCEPT ![i] = s]
        /\ endorsements' = [endorsements EXCEPT ![i] = n]
    BY <2>1
  <2> QED BY <1>0, <2>2, <2>3, <2>4, <2>5, OneEndorsed
<1>4. CASE UNCHANGED endorsementVars
  BY <1>0, <1>4 DEF EndorsementsInv, EndorsementsAgree, endorsementVars
<1>5. ASSUME NEW i \in Minted, IndexStep(i),
             ~(\E a \in Addresses : EndorseCertificate(i, a) \/ RemoveEndorsement(i, a))
      PROVE  UNCHANGED endorsementVars
  BY <1>5 DEF IndexStep, GenerateVerificationCode, SetMediaProperties, TagStep, AddTag, RemoveTag,
              SetTags, AddCertificateToCollection
<1>6. UNCHANGED vars \/ UNCHANGED indexVars \/ CreateCollection => UNCHANGED endorsementVars
  BY DEF vars, indexVars, CreateCollection
<1> QED BY <1>2, <1>3, <1>4, <1>5, <1>6, StepCases

-----------------------------------------------------------------------------
(* All indexes. The types are those of the invariants of the parts.        *)

IndexesInv ==
  /\ TotalsInv /\ SearchInv /\ CollectionsInv /\ EndorsementsInv
  /\ CodesInv /\ ManifestInv /\ HistoryInv /\ LinksInv

LEMMA IndexesInvInit == Init => TotalsInv /\ SearchInv /\ CollectionsInv /\ EndorsementsInv
<1> SUFFICES ASSUME Init PROVE TotalsInv /\ SearchInv /\ CollectionsInv /\ EndorsementsInv
  OBVIOUS
<1>0. /\ certs = << >> /\ media = [i \in Ids |-> NoMedia] /\ typeIndex = [t \in ContentTypes |-> << >>]
      /\ tags = [i \in Ids |-> << >>] /\ tagIndex = [t \in Tags |-> << >>]
      /\ collections = 0 /\ collCerts = [c \in Collections |-> << >>]
      /\ certColls = [i \in Ids |-> << >>] /\ endorsed = [i \in Ids |-> {}]
      /\ endorsers = [i \in Ids |-> << >>] /\ endorsements = [i \in Ids |-> 0]
  BY DEF Init, CertificatesInit
<1>1. Lists(<< >>, {}) /\ Range(<< >>) = {}
  BY DEF Lists, Range, IsInjective
<1>2. SearchInv
  <2>1. \A t \in ContentTypes : {i \in Ids : media[i] = t} = {}
    BY <1>0, ProvenanceConstants
  <2>2. \A t \in Tags : {i \in Ids : t \in Range(tags[i])} = {}
    BY <1>0, <1>1
  <2>3. SearchesExact
    BY <1>0, <1>1, <2>1, <2>2 DEF SearchesExact
  <2> QED BY <1>0, <2>3, CertsInit, ProvenanceConstants DEF SearchInv
<1>3. CollectionsInv
  <2>1. Minted = {} /\ 1..collections = {}
    BY <1>0 DEF Minted
  <2>2. CollectionsAgree
    BY <1>0, <1>1, <2>1 DEF CollectionsAgree
  <2> QED BY <1>0, <2>2, CertsInit, ProvenanceConstants DEF CollectionsInv
<1>4. EndorsementsInv
  <2>1. Cardinality({}) = 0
    BY FS_EmptySet
  <2>2. EndorsementsAgree
    BY <1>0, <1>1, <2>1 DEF EndorsementsAgree
  <2> QED BY <1>0, <2>2, CertsInit DEF EndorsementsInv
<1> QED BY <1>2, <1>3, <1>4, TotalsInvInit

LEMMA IndexesInvIsEnough == IndexesInv => IndexesAgree
BY DEF IndexesInv, TotalsInv, SearchInv, CollectionsInv, EndorsementsInv, CodesInv, ManifestInv,
       HistoryInv, LinksInv, CertsInv, IndexesAgree, TypeOK, CertificatesTypeOK

(* For any creators, tags, collections and endorsers, in any order of      *)
(* calls: each list, counter and flag kept beside the certificates tells   *)
(* what they tell.                                                         *)
THEOREM IndexesStayInAgreement == Spec => []IndexesAgree
<1>1. Init => TotalsInv /\ SearchInv /\ CollectionsInv /\ EndorsementsInv
  BY IndexesInvInit
<1>2. TotalsInv /\ [Next]_vars => TotalsInv'
  BY TotalsInvStep
<1>3. SearchInv /\ [Next]_vars => SearchInv'
  BY SearchInvStep
<1>4. CollectionsInv /\ [Next]_vars => CollectionsInv'
  BY CollectionsInvStep
<1>5. EndorsementsInv /\ [Next]_vars => EndorsementsInv'
  BY EndorsementsInvStep
<1>6. TotalsInv /\ SearchInv /\ CollectionsInv /\ EndorsementsInv
      /\ CodesInv /\ ManifestInv /\ HistoryInv /\ LinksInv => IndexesAgree
  BY IndexesInvIsEnough DEF IndexesInv
<1> QED BY <1>1, <1>2, <1>3, <1>4, <1>5, <1>6, CodesInvHolds, ManifestInvHolds,
          HistoryInvHolds, LinksInvHolds, PTL DEF Spec

=============================================================================
