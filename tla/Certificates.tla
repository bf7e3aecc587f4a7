----------------------------- MODULE Certificates -----------------------------
(***************************************************************************)
(* The life of certificates in the provenance contract,                    *)
(* contracts/provenance/src/lib.rs: minting with its deduplication index   *)
(* and counters, ownership, metadata, revocation, the lock, and the links  *)
(* between certificates.                                                   *)
(*                                                                         *)
(* A call is one transaction: one that fails leaves no trace, and the      *)
(* caller of an action is whoever the contract requires. Fields that       *)
(* nothing but their getter reads (storage reference, attestation hash,    *)
(* verification level, expiration) are left out; a ledger timestamp is     *)
(* known by its day.                                                       *)
(***************************************************************************)
EXTENDS Integers, Sequences, FiniteSets, FiniteSetsExt, Lists

CONSTANTS
  Addresses,    (* creators and owners                                     *)
  Nobody,       (* no address                                              *)
  Oracle,       (* the address allowed to mint                             *)
  Manifests,    (* manifest hashes                                         *)
  BatchLimit,   (* max_batch_size                                          *)
  MaxDepth,     (* MAX_DEPTH of creates_cycle                              *)
  LastDay,      (* bound: days                                             *)
  MaxCerts,     (* bound: certificate ids                                  *)
  MaxLinks,     (* bound: links of a certificate                           *)
  MaxHistory    (* bound: entries of a certificate's amendment history     *)

ASSUME CertificatesConstants ==
  /\ Nobody \notin Addresses
  /\ BatchLimit \in Nat
  /\ MaxDepth \in Nat
  /\ LastDay \in Nat
  /\ MaxCerts \in Nat
  /\ MaxLinks \in Nat
  /\ MaxHistory \in Nat

VARIABLES
  day,            (* the day of the ledger's timestamp                     *)
  certs,          (* the certificates by id; CERT_CNT is the last id       *)
  currentOwner,   (* CurrentOwner, set by the first transfer               *)
  manifestIndex,  (* MANI: the certificate of a manifest hash, 0 for none  *)
  creatorIndex,   (* CRIDX                                                 *)
  creatorCount,   (* CCNT                                                  *)
  daily,          (* DAILY                                                 *)
  links,          (* LINKS                                                 *)
  history,        (* CHIST and CHCNT                                       *)
  transfers,      (* TRNF                                                  *)
  version         (* META: the metadata's version, 0 for no metadata       *)

mintVars == <<manifestIndex, creatorIndex, creatorCount, daily>>
amendVars == <<currentOwner, transfers, version, history>>
certificateVars == <<day, certs, mintVars, amendVars, links>>

Ids == 1..MaxCerts

Minted == DOMAIN certs

Cert == [manifest : Manifests, creator : Addresses, revoked : BOOLEAN, locked : BOOLEAN]

Relation == [kind : {"Parent", "Child", "Sibling"}, to : Ids]

HistoryEntry ==
  [action : {"minted", "transferred", "metadata_updated", "anchor_added"},
   modifier : Addresses \cup {Oracle}]

CertificatesTypeOK ==
  /\ day \in 0..LastDay
  /\ certs \in Seq(Cert) /\ Len(certs) <= MaxCerts
  /\ currentOwner \in [Ids -> Addresses \cup {Nobody}]
  /\ manifestIndex \in [Manifests -> 0..MaxCerts]
  /\ creatorIndex \in [Addresses -> Seq(Ids)]
  /\ creatorCount \in [Addresses -> Nat]
  /\ daily \in [0..LastDay -> Nat]
  /\ links \in [Ids -> Seq(Relation)]
  /\ history \in [Ids -> Seq(HistoryEntry)]
  /\ transfers \in [Ids -> Nat]
  /\ version \in [Ids -> Nat]

CertificatesInit ==
  /\ day = 0
  /\ certs = <<>>
  /\ currentOwner = [i \in Ids |-> Nobody]
  /\ manifestIndex = [m \in Manifests |-> 0]
  /\ creatorIndex = [a \in Addresses |-> <<>>]
  /\ creatorCount = [a \in Addresses |-> 0]
  /\ daily = [d \in 0..LastDay |-> 0]
  /\ links = [i \in Ids |-> <<>>]
  /\ history = [i \in Ids |-> <<>>]
  /\ transfers = [i \in Ids |-> 0]
  /\ version = [i \in Ids |-> 0]

CreatorOwns(i) == certs[i].creator   (* mutant: transfers are not looked at *)

(* current_owner: the creator until the first transfer.                    *)
Owner(i) == IF currentOwner[i] = Nobody THEN certs[i].creator ELSE currentOwner[i]

(* record_history.                                                         *)
Recorded(i, action, modifier) ==
  [history EXCEPT ![i] = Append(@, [action |-> action, modifier |-> modifier])]

DayPasses ==
  /\ day < LastDay
  /\ day' = day + 1
  /\ UNCHANGED <<certs, mintVars, amendVars, links>>

-----------------------------------------------------------------------------
(* Minting.                                                                *)

UnseenAtStart(ms) ==   (* mutant: a batch is not checked against itself *)
  \A k \in DOMAIN ms : manifestIndex[ms[k]] = 0

Unseen(ms) ==
  /\ \A k \in DOMAIN ms : manifestIndex[ms[k]] = 0
  /\ IsInjective(ms)

CountedOnce(to, n) == [creatorCount EXCEPT ![to] = @ + 1]   (* mutant: one for the whole batch *)

Counted(to, n) == [creatorCount EXCEPT ![to] = @ + n]

(* mint_batch: one certificate for each manifest, under consecutive ids,   *)
(* or none.                                                                *)
MintBatch(ms, to) ==
  LET n == Len(certs)
      new == (n + 1)..(n + Len(ms))
  IN
  /\ Len(ms) <= BatchLimit
  /\ n + Len(ms) <= MaxCerts
  /\ Unseen(ms)
  /\ certs' = certs \o [k \in DOMAIN ms |->
       [manifest |-> ms[k], creator |-> to, revoked |-> FALSE, locked |-> FALSE]]
  /\ manifestIndex' = [m \in Manifests |->
       IF m \in Range(ms) THEN n + CHOOSE k \in DOMAIN ms : ms[k] = m ELSE manifestIndex[m]]
  /\ creatorIndex' = [creatorIndex EXCEPT ![to] = @ \o [k \in DOMAIN ms |-> n + k]]
  /\ creatorCount' = Counted(to, Len(ms))
  /\ daily' = [daily EXCEPT ![day] = @ + Len(ms)]
  /\ history' = [i \in Ids |->
       IF i \in new THEN Append(history[i], [action |-> "minted", modifier |-> to])
                    ELSE history[i]]
  /\ UNCHANGED <<day, currentOwner, transfers, version, links>>

(* mint does the same for one.                                             *)
Mint(m, to) == MintBatch(<<m>>, to)

-----------------------------------------------------------------------------
(* Amendments.                                                             *)

AmendableWhileLocked(i) == TRUE   (* mutant: the lock is not looked at *)

Amendable(i) == ~certs[i].locked

TransferCertificate(i, to) ==
  /\ Amendable(i)
  /\ to # Owner(i)
  /\ Len(history[i]) < MaxHistory
  /\ currentOwner' = [currentOwner EXCEPT ![i] = to]
  /\ transfers' = [transfers EXCEPT ![i] = @ + 1]
  /\ history' = Recorded(i, "transferred", Owner(i))
  /\ UNCHANGED <<day, certs, mintVars, version, links>>

UpdateMetadata(i) ==
  /\ Amendable(i)
  /\ Len(history[i]) < MaxHistory
  /\ version' = [version EXCEPT ![i] = @ + 1]
  /\ history' = Recorded(i, "metadata_updated", Owner(i))
  /\ UNCHANGED <<day, certs, mintVars, currentOwner, transfers, links>>

(* add_anchor takes no notice of the lock.                                 *)
AddAnchor(i) ==
  /\ Len(history[i]) < MaxHistory
  /\ history' = Recorded(i, "anchor_added", Oracle)
  /\ UNCHANGED <<day, certs, mintVars, currentOwner, transfers, version, links>>

RevokeCertificate(i) ==
  /\ Amendable(i)
  /\ ~certs[i].revoked
  /\ certs' = [certs EXCEPT ![i].revoked = TRUE]
  /\ UNCHANGED <<day, mintVars, amendVars, links>>

LockCertificate(i) ==
  /\ certs' = [certs EXCEPT ![i].locked = TRUE]
  /\ UNCHANGED <<day, mintVars, amendVars, links>>

-----------------------------------------------------------------------------
(* Links.                                                                  *)

Parents(i) == {links[i][k].to : k \in {k \in DOMAIN links[i] : links[i][k].kind = "Parent"}}

(* The first parent of a certificate, the only one that creates_cycle      *)
(* looks at; 0 when there is none.                                         *)
FirstParent(i) ==
  LET ks == {k \in DOMAIN links[i] : links[i][k].kind = "Parent"} IN
  IF ks = {} THEN 0 ELSE links[i][Min(ks)].to

CreatesTightCycle(start, target) == start = target   (* mutant: the walk is one step long *)

CreatesCycle(start, target) ==
  LET meets[depth \in 0..MaxDepth] == [i \in Ids |->
        depth > 0 /\ (i = target \/ (FirstParent(i) # 0 /\ meets[depth - 1][FirstParent(i)]))]
  IN  meets[MaxDepth][start]

SameKind(kind) == kind   (* mutant: the relation itself is stored on the other side *)

Reciprocal(kind) ==
  CASE kind = "Parent"  -> "Child"
    [] kind = "Child"   -> "Parent"
    [] kind = "Sibling" -> "Sibling"

LinkCertificates(i, kind, j) ==
  /\ i # j
  /\ kind = "Parent" => ~CreatesCycle(j, i)
  /\ kind = "Child" => ~CreatesCycle(i, j)
  /\ Len(links[i]) < MaxLinks /\ Len(links[j]) < MaxLinks
  /\ links' = [links EXCEPT ![i] = Append(@, [kind |-> kind, to |-> j]),
                            ![j] = Append(@, [kind |-> Reciprocal(kind), to |-> i])]
  /\ UNCHANGED <<day, certs, mintVars, amendVars>>

-----------------------------------------------------------------------------

MintStep(to) ==
  \/ \E m \in Manifests : Mint(m, to)
  \/ \E n \in 2..BatchLimit : \E ms \in [1..n -> Manifests] : MintBatch(ms, to)

AmendStep(i) ==
  \/ \E to \in Addresses : TransferCertificate(i, to)
  \/ UpdateMetadata(i) \/ AddAnchor(i)
  \/ RevokeCertificate(i) \/ LockCertificate(i)

LinkStep(i) ==
  \E kind \in {"Parent", "Child", "Sibling"}, j \in Minted : LinkCertificates(i, kind, j)

CertificatesNext ==
  \/ DayPasses
  \/ \E to \in Addresses : MintStep(to)
  \/ \E i \in Minted : AmendStep(i) \/ LinkStep(i)

CertificatesSpec == CertificatesInit /\ [][CertificatesNext]_certificateVars

-----------------------------------------------------------------------------
(* Properties.                                                             *)

(* A manifest has at most one certificate, and the deduplication index     *)
(* leads to it: manifests and certificates correspond, through single and  *)
(* batch minting.                                                          *)
ManifestIndexExact ==
  \A m \in Manifests, i \in Ids :
    manifestIndex[m] = i <=> i \in Minted /\ certs[i].manifest = m

(* The four records of who minted what agree: the index and the counter of *)
(* each creator, the certificates, and the daily series.                   *)
CreatorTotals ==
  /\ \A a \in Addresses :
       /\ Range(creatorIndex[a]) = {i \in Minted : certs[i].creator = a}
       /\ \A k, l \in DOMAIN creatorIndex[a] : k < l => creatorIndex[a][k] < creatorIndex[a][l]
       /\ creatorCount[a] = Len(creatorIndex[a])
  /\ Len(certs) = daily[0] + SumOf(daily, LastDay)

Entries(i, action) == {k \in DOMAIN history[i] : history[i][k].action = action}

(* The amendment history of a certificate tells its ownership: it starts   *)
(* with the minting, counts the transfers and metadata versions, and each  *)
(* transfer was made by the owner of that moment.                          *)
HistoryTellsOwnership ==
  \A i \in Minted :
    /\ Entries(i, "minted") = {1}
    /\ history[i][1].modifier = certs[i].creator
    /\ Cardinality(Entries(i, "transferred")) = transfers[i]
    /\ Cardinality(Entries(i, "metadata_updated")) = version[i]
    /\ \A k, l \in Entries(i, "transferred") :
         k < l /\ Entries(i, "transferred") \cap (k + 1)..(l - 1) = {}
         => history[i][k].modifier # history[i][l].modifier
    /\ \A k \in Entries(i, "transferred") :
         (\A l \in Entries(i, "transferred") : l <= k) => history[i][k].modifier # Owner(i)

Linked(i, kind, j) == {k \in DOMAIN links[i] : links[i][k] = [kind |-> kind, to |-> j]}

(* Each link is stored on both certificates, as often on one as on the     *)
(* other.                                                                  *)
LinksReciprocal ==
  \A i, j \in Ids :
    /\ Cardinality(Linked(i, "Parent", j)) = Cardinality(Linked(j, "Child", i))
    /\ Cardinality(Linked(i, "Sibling", j)) = Cardinality(Linked(j, "Sibling", i))

(* No certificate is its own ancestor along at most MAX_DEPTH first        *)
(* parents, those that creates_cycle walks: every set of that many         *)
(* certificates has one whose first parent is outside of it.               *)
FirstParentsAcyclic ==
  \A S \in (SUBSET Minted) \ {{}} :
    Cardinality(S) <= MaxDepth => \E i \in S : FirstParent(i) \notin S

(* Links are on both ends, and along first parents they only go down.      *)
LinksAreSound == LinksReciprocal /\ FirstParentsAcyclic

(* The comments of link_certificates: "reject if parent_id is already a    *)
(* descendant of certificate_id", so no certificate is its own ancestor.   *)
ParentsAcyclic ==
  \A S \in (SUBSET Minted) \ {{}} : \E i \in S : Parents(i) \cap S = {}

=============================================================================
