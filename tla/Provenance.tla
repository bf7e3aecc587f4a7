------------------------------ MODULE Provenance ------------------------------
(***************************************************************************)
(* The provenance contract, contracts/provenance/src/lib.rs: to the        *)
(* certificates of Certificates it adds the ways to find them again, each  *)
(* with an index that is kept by hand beside what it indexes: verification *)
(* codes, content types, tags, collections and endorsements.               *)
(***************************************************************************)
EXTENDS Certificates

CONSTANTS
  Codes,            (* verification codes                                  *)
  NoCode,           (* no code                                             *)
  ContentTypes,     (* content types                                       *)
  NoMedia,          (* no media properties                                 *)
  Tags,             (* tags of a length the contract accepts               *)
  MaxTags,          (* MAX_TAGS_PER_CERTIFICATE                            *)
  MaxCollections    (* bound: collection ids                               *)

ASSUME ProvenanceConstants ==
  /\ NoCode \notin Codes
  /\ NoMedia \notin ContentTypes
  /\ MaxTags \in Nat
  /\ MaxCollections \in Nat

VARIABLES
  code,          (* CVCODE                                                 *)
  coded,         (* VCODE: the certificate of a code, 0 for none           *)
  media,         (* MEDIA: the content type                                *)
  typeIndex,     (* CTIDX                                                  *)
  tags,          (* the tags in a certificate                              *)
  tagIndex,      (* TagIndex, empty when it is absent                      *)
  collections,   (* COLL_CNT                                               *)
  collCerts,     (* COLLCERT                                               *)
  certColls,     (* CERTCOLL                                               *)
  endorsed,      (* Endorsement: who has endorsed a certificate            *)
  endorsers,     (* EndorsementIndex                                       *)
  endorsements   (* EndorsementCount                                       *)

codeVars == <<code, coded>>
mediaVars == <<media, typeIndex>>
tagVars == <<tags, tagIndex>>
collectionVars == <<collections, collCerts, certColls>>
endorsementVars == <<endorsed, endorsers, endorsements>>
indexVars == <<codeVars, mediaVars, tagVars, collectionVars, endorsementVars>>
vars == <<certificateVars, indexVars>>

Collections == 1..MaxCollections

TypeOK ==
  /\ CertificatesTypeOK
  /\ code \in [Ids -> Codes \cup {NoCode}]
  /\ coded \in [Codes -> 0..MaxCerts]
  /\ media \in [Ids -> ContentTypes \cup {NoMedia}]
  /\ typeIndex \in [ContentTypes -> Seq(Ids)]
  /\ tags \in [Ids -> Seq(Tags)] /\ \A i \in Ids : Len(tags[i]) <= MaxTags
  /\ tagIndex \in [Tags -> Seq(Ids)]
  /\ collections \in 0..MaxCollections
  /\ collCerts \in [Collections -> Seq(Ids)]
  /\ certColls \in [Ids -> Seq(Collections)]
  /\ endorsed \in [Ids -> SUBSET Addresses]
  /\ endorsers \in [Ids -> Seq(Addresses)]
  /\ endorsements \in [Ids -> Nat]

Init ==
  /\ CertificatesInit
  /\ code = [i \in Ids |-> NoCode]
  /\ coded = [c \in Codes |-> 0]
  /\ media = [i \in Ids |-> NoMedia]
  /\ typeIndex = [t \in ContentTypes |-> <<>>]
  /\ tags = [i \in Ids |-> <<>>]
  /\ tagIndex = [t \in Tags |-> <<>>]
  /\ collections = 0
  /\ collCerts = [c \in Collections |-> <<>>]
  /\ certColls = [i \in Ids |-> <<>>]
  /\ endorsed = [i \in Ids |-> {}]
  /\ endorsers = [i \in Ids |-> <<>>]
  /\ endorsements = [i \in Ids |-> 0]

-----------------------------------------------------------------------------
(* Verification codes.                                                     *)

OldCodeKept(i) == coded   (* mutant: the code generated before stays valid *)

OldCodeRemoved(i) == [c \in Codes |-> IF c = code[i] THEN 0 ELSE coded[c]]

(* Candidates are tried until one is unused; the code just removed is      *)
(* among them.                                                             *)
GenerateVerificationCode(i) ==
  \E c \in Codes :
    /\ OldCodeRemoved(i)[c] = 0
    /\ coded' = [OldCodeRemoved(i) EXCEPT ![c] = i]
    /\ code' = [code EXCEPT ![i] = c]
    /\ UNCHANGED <<certificateVars, mediaVars, tagVars, collectionVars, endorsementVars>>

-----------------------------------------------------------------------------
(* Content types.                                                          *)

OldTypeRemoved(i) ==
  [t \in ContentTypes |-> IF t = media[i] THEN Without(typeIndex[t], i) ELSE typeIndex[t]]

SetMediaProperties(i, t) ==
  /\ typeIndex' = [OldTypeRemoved(i) EXCEPT ![t] = Append(@, i)]
  /\ media' = [media EXCEPT ![i] = t]
  /\ UNCHANGED <<certificateVars, codeVars, tagVars, collectionVars, endorsementVars>>

-----------------------------------------------------------------------------
(* Tags.                                                                   *)

TagFitsAtLimit(i) == Len(tags[i]) <= MaxTags   (* mutant: off by one *)

TagFits(i) == Len(tags[i]) < MaxTags

AddTag(i, t) ==
  /\ Amendable(i)
  /\ TagFits(i)
  /\ t \notin Range(tags[i])
  /\ tags' = [tags EXCEPT ![i] = Append(@, t)]
  /\ tagIndex' = [tagIndex EXCEPT ![t] = With(@, i)]
  /\ UNCHANGED <<certificateVars, codeVars, mediaVars, collectionVars, endorsementVars>>

(* Every occurrence of the tag goes: set_tags lets it be there twice.      *)
RemoveTag(i, t) ==
  /\ Amendable(i)
  /\ t \in Range(tags[i])
  /\ tags' = [tags EXCEPT ![i] = Without(@, t)]
  /\ tagIndex' = [tagIndex EXCEPT ![t] = Without(@, i)]
  /\ UNCHANGED <<certificateVars, codeVars, mediaVars, collectionVars, endorsementVars>>

OnlyAdded(i, new) ==   (* mutant: the old tags are left in the index *)
  [t \in Tags |-> IF t \in Range(new) THEN With(tagIndex[t], i) ELSE tagIndex[t]]

Retagged(i, new) ==
  LET rest == [t \in Tags |->
        IF t \in Range(tags[i]) THEN Without(tagIndex[t], i) ELSE tagIndex[t]]
  IN  [t \in Tags |-> IF t \in Range(new) THEN With(rest[t], i) ELSE rest[t]]

SetTags(i, new) ==
  /\ Amendable(i)
  /\ Len(new) <= MaxTags
  /\ tags' = [tags EXCEPT ![i] = new]
  /\ tagIndex' = Retagged(i, new)
  /\ UNCHANGED <<certificateVars, codeVars, mediaVars, collectionVars, endorsementVars>>

-----------------------------------------------------------------------------
(* Collections.                                                            *)

CreateCollection ==
  /\ collections < MaxCollections
  /\ collections' = collections + 1
  /\ UNCHANGED <<certificateVars, codeVars, mediaVars, tagVars, collCerts, certColls,
                 endorsementVars>>

ListedAgain(i, c) == Append(certColls[i], c)   (* mutant: one list is not looked at first *)

ListedOnCertificate(i, c) == With(certColls[i], c)

AddCertificateToCollection(c, i) ==
  /\ c <= collections
  /\ collCerts' = [collCerts EXCEPT ![c] = With(@, i)]
  /\ certColls' = [certColls EXCEPT ![i] = ListedOnCertificate(i, c)]
  /\ UNCHANGED <<certificateVars, codeVars, mediaVars, tagVars, collections, endorsementVars>>

-----------------------------------------------------------------------------
(* Endorsements.                                                           *)

EndorseCertificate(i, a) ==
  /\ a \notin endorsed[i]
  /\ endorsed' = [endorsed EXCEPT ![i] = @ \cup {a}]
  /\ endorsers' = [endorsers EXCEPT ![i] = Append(@, a)]
  /\ endorsements' = [endorsements EXCEPT ![i] = @ + 1]
  /\ UNCHANGED <<certificateVars, codeVars, mediaVars, tagVars, collectionVars>>

EndorsesOrNot(i, a) == TRUE   (* mutant: removed without having endorsed *)

Endorses(i, a) == a \in endorsed[i]

(* saturating_sub keeps the count from going below zero.                   *)
RemoveEndorsement(i, a) ==
  /\ Endorses(i, a)
  /\ endorsed' = [endorsed EXCEPT ![i] = @ \ {a}]
  /\ endorsers' = [endorsers EXCEPT ![i] = Without(@, a)]
  /\ endorsements' = [endorsements EXCEPT ![i] = IF @ > 0 THEN @ - 1 ELSE 0]
  /\ UNCHANGED <<certificateVars, codeVars, mediaVars, tagVars, collectionVars>>

-----------------------------------------------------------------------------

(* The calls of Certificates.                                              *)
CertificateStep == CertificatesNext /\ UNCHANGED indexVars

TagStep(i) ==
  \/ \E t \in Tags : AddTag(i, t) \/ RemoveTag(i, t)
  \/ \E n \in 0..MaxTags : \E new \in [1..n -> Tags] : SetTags(i, new)

IndexStep(i) ==
  \/ GenerateVerificationCode(i)
  \/ \E t \in ContentTypes : SetMediaProperties(i, t)
  \/ TagStep(i)
  \/ \E c \in Collections : AddCertificateToCollection(c, i)
  \/ \E a \in Addresses : EndorseCertificate(i, a) \/ RemoveEndorsement(i, a)

Next ==
  \/ CertificateStep
  \/ CreateCollection
  \/ \E i \in Minted : IndexStep(i)

Spec == Init /\ [][Next]_vars

-----------------------------------------------------------------------------
(* Properties.                                                             *)

(* A list that names each of its members once.                             *)
Lists(s, S) == Range(s) = S /\ IsInjective(s)

(* A code leads to the certificate whose current code it is, and only that *)
(* one does: a code that was replaced is no longer accepted.               *)
CodesResolve == \A i \in Ids, c \in Codes : coded[c] = i <=> code[i] = c

(* A search by content type or by tag finds every certificate that has it, *)
(* once, and no other, after any sequence of changes.                      *)
SearchesExact ==
  /\ \A t \in ContentTypes : Lists(typeIndex[t], {i \in Ids : media[i] = t})
  /\ \A t \in Tags : Lists(tagIndex[t], {i \in Ids : t \in Range(tags[i])})

(* Collections and certificates agree on which certificate is in which     *)
(* collection, and only existing ones are.                                 *)
CollectionsAgree ==
  /\ \A c \in Collections : Lists(collCerts[c], {i \in Minted : c \in Range(certColls[i])})
  /\ \A i \in Ids : Lists(certColls[i], {c \in 1..collections : i \in Range(collCerts[c])})

(* The count, the list and the flags of a certificate's endorsements tell  *)
(* the same.                                                               *)
EndorsementsAgree ==
  \A i \in Ids :
    /\ Lists(endorsers[i], endorsed[i])
    /\ endorsements[i] = Cardinality(endorsed[i])

(* A locked certificate keeps its owner, its metadata, its tags and its    *)
(* revocation status, and stays locked; a revoked one stays revoked;       *)
(* creator and manifest never change.                                      *)
LockedStaysPut ==
  [][\A i \in Minted :
       /\ certs'[i].creator = certs[i].creator /\ certs'[i].manifest = certs[i].manifest
       /\ certs[i].revoked => certs'[i].revoked
       /\ certs[i].locked =>
            /\ certs'[i] = certs[i]
            /\ Owner(i)' = Owner(i)
            /\ version'[i] = version[i]
            /\ tags'[i] = tags[i]]_vars

(* Each list, counter and flag kept beside the certificates tells what     *)
(* they tell: totals, searches, collections, endorsements.                 *)
IndexesAgree ==
  TypeOK /\ CreatorTotals /\ SearchesExact /\ CollectionsAgree /\ EndorsementsAgree

=============================================================================
