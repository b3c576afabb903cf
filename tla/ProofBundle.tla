----------------------------- MODULE ProofBundle ----------------------------
(***************************************************************************)
(* TrustGrantProofBundle of trustgrant-verify/src/bundle.rs: four maps     *)
(* that are filled entry by entry before a grant is verified offline, and  *)
(* that answer the three proof sources.  An offer is a document as it was  *)
(* published; it is parsed, then inserted.                                 *)
(***************************************************************************)
EXTENDS Discovery

CONSTANTS
  RawDocuments,    \* raw discovery documents
  RawDelegated,    \* raw documents of delegated principals
  Proofs,          \* bundled revocation proofs, each about one trustgrant_id
  Grants,          \* grants that chains are offered for
  Chains,          \* sequences of ownership transitions
  MaxDocuments,    \* MAX_BUNDLE_DISCOVERY_DOCUMENTS
  MaxDelegated,    \* MAX_BUNDLE_DELEGATED_PRINCIPAL_DOCUMENTS
  MaxProofs,       \* MAX_BUNDLE_REVOCATION_PROOFS
  MaxChains,       \* MAX_BUNDLE_OWNERSHIP_TRANSITION_CHAINS
  MaxChainLength   \* MAX_OWNERSHIP_CHAIN_LENGTH

ASSUME BundleAssumption ==
  {MaxDocuments, MaxDelegated, MaxProofs, MaxChains, MaxChainLength} \subseteq Nat

EmptyMap == [k \in {} |-> None]

With(map, key, value) == [k \in DOMAIN map \cup {key} |-> IF k = key THEN value ELSE map[k]]

EntryOr(map, key, default) == IF key \in DOMAIN map THEN map[key] ELSE default

EmptyBundle ==
  [discovery_documents |-> EmptyMap, delegated_documents |-> EmptyMap,
   revocation_proofs |-> EmptyMap, ownership_transition_chains |-> EmptyMap]

-----------------------------------------------------------------------------
(* An offer: parsed, then inserted into the map of its kind.               *)

Offers ==
  [part : {"discovery"}, raw : RawDocuments] \cup [part : {"delegated"}, raw : RawDelegated]
    \cup [part : {"proof"}, raw : Proofs]
    \cup [part : {"chain"}, raw : [grant : Grants, chain : Chains]]

\* The length of a chain is looked at before anything else.
ParseResult(offer) ==
  CASE offer.part = "discovery" -> AuthorityDocumentResult(offer.raw)
    [] offer.part = "delegated" -> DelegatedDocumentResult(offer.raw)
    [] offer.part = "proof"     -> "Ok"
    [] offer.part = "chain"     -> IF Len(offer.raw.chain) > MaxChainLength
                                   THEN "CollectionLimitExceeded" ELSE "Ok"

Entry(offer) ==
  CASE offer.part = "discovery" -> AuthorityDocument(offer.raw)
    [] offer.part = "delegated" -> DelegatedDocument(offer.raw)
    [] offer.part = "proof"     -> offer.raw
    [] offer.part = "chain"     -> offer.raw.chain

\* What is kept is an entry, never Option::None, nor is a named principal.
ASSUME EntriesAssumption ==
  /\ \A offer \in Offers : ParseResult(offer) = "Ok" => Entry(offer) # None
  /\ \A raw \in RawDelegated : DelegatedDocument(raw).principal # None
  /\ \A raw \in RawDocuments \cup RawDelegated :
       raw.keys \in Seq({raw.keys[i] : i \in DOMAIN raw.keys})
  /\ \A chain \in Chains : Len(chain) \in Nat

\* Three nested maps, by authority, kind and id of the principal.
Delegate(map, authority, principal) ==
  EntryOr(EntryOr(EntryOr(map, authority, EmptyMap), principal.kind, EmptyMap), principal.id, None)

Delegates(map) ==
  UNION {UNION {{<<a, k, i>> : i \in DOMAIN map[a][k]} : k \in DOMAIN map[a]} : a \in DOMAIN map}

\* The entry that is there, or None.
Found(held, offer) ==
  CASE offer.part = "discovery" ->
         EntryOr(held.discovery_documents, Entry(offer).authority_id, None)
    [] offer.part = "delegated" ->
         Delegate(held.delegated_documents, Entry(offer).authority_id, Entry(offer).principal)
    [] offer.part = "proof"     -> EntryOr(held.revocation_proofs, offer.raw.trustgrant_id, None)
    [] offer.part = "chain"     ->
         EntryOr(held.ownership_transition_chains, offer.raw.grant, None)

\* Mutant: of the nested maps the outer one is counted.
FitsByAuthority(held, offer) ==
  CASE offer.part = "discovery" -> Cardinality(DOMAIN held.discovery_documents) < MaxDocuments
    [] offer.part = "delegated" -> Cardinality(DOMAIN held.delegated_documents) < MaxDelegated
    [] offer.part = "proof"     -> Cardinality(DOMAIN held.revocation_proofs) < MaxProofs
    [] offer.part = "chain"     -> Cardinality(DOMAIN held.ownership_transition_chains) < MaxChains

\* delegated_document_count counts over all three levels.
Fits(held, offer) ==
  CASE offer.part = "discovery" -> Cardinality(DOMAIN held.discovery_documents) < MaxDocuments
    [] offer.part = "delegated" -> Cardinality(Delegates(held.delegated_documents)) < MaxDelegated
    [] offer.part = "proof"     -> Cardinality(DOMAIN held.revocation_proofs) < MaxProofs
    [] offer.part = "chain"     -> Cardinality(DOMAIN held.ownership_transition_chains) < MaxChains

\* Mutant: the last entry wins.
LastWins(held, offer) ==
  IF Found(held, offer) = None /\ ~Fits(held, offer) THEN "CollectionLimitExceeded" ELSE "Ok"

\* An entry is there to stay, the same one again is no error, a new one has
\* to fit.
InsertResult(held, offer) ==
  IF Found(held, offer) = Entry(offer) THEN "Ok"
  ELSE IF Found(held, offer) # None THEN "ConflictingProofBundleEntry"
  ELSE IF Fits(held, offer) THEN "Ok" ELSE "CollectionLimitExceeded"

Result(held, offer) ==
  IF ParseResult(offer) = "Ok" THEN InsertResult(held, offer) ELSE ParseResult(offer)

Accepts(held, offer) == Result(held, offer) = "Ok"

WithDelegate(map, document) ==
  LET kinds == EntryOr(map, document.authority_id, EmptyMap)
      ids   == EntryOr(kinds, document.principal.kind, EmptyMap)
  IN  With(map, document.authority_id,
           With(kinds, document.principal.kind, With(ids, document.principal.id, document)))

\* Mutant: the document of an authority makes its delegates void.
PutAfresh(held, offer) ==
  IF offer.part = "discovery"
  THEN [held EXCEPT !.discovery_documents = With(@, Entry(offer).authority_id, Entry(offer)),
                    !.delegated_documents = With(@, Entry(offer).authority_id, EmptyMap)]
  ELSE [held EXCEPT !.delegated_documents =
          IF offer.part = "delegated" THEN WithDelegate(@, Entry(offer)) ELSE @]

Put(held, offer) ==
  CASE offer.part = "discovery" ->
         [held EXCEPT !.discovery_documents = With(@, Entry(offer).authority_id, Entry(offer))]
    [] offer.part = "delegated" ->
         [held EXCEPT !.delegated_documents = WithDelegate(@, Entry(offer))]
    [] offer.part = "proof"     ->
         [held EXCEPT !.revocation_proofs = With(@, offer.raw.trustgrant_id, offer.raw)]
    [] offer.part = "chain"     ->
         [held EXCEPT !.ownership_transition_chains = With(@, offer.raw.grant, offer.raw.chain)]

\* An error leaves the bundle as it was.
After(held, offer) == IF Accepts(held, offer) THEN Put(held, offer) ELSE held

-----------------------------------------------------------------------------
(* The three sources.                                                      *)

\* AuthorityDiscoverySource: a delegate's key is used under the profile of
\* the authority, and only if the authority delegates at all.
ResolveSignerBinding(held, authority, key_id, principal) ==
  LET document == EntryOr(held.discovery_documents, authority, None)
      delegate == Delegate(held.delegated_documents, authority, principal)
  IN  IF document = None THEN Failed("MissingAuthorityDiscoveryDocument")
      ELSE IF principal = None THEN ResolveRootSignerBinding(document, authority, key_id)
      ELSE IF document.delegation = None THEN Failed("DelegationNotSupported")
      ELSE IF delegate = None THEN Failed("MissingDelegatedPrincipalDocument")
      ELSE ResolveDelegatedSignerBinding(delegate, authority, principal, key_id, document.profile)

\* BundleRevocationProof::to_record_for compares the grant once more.
ToRecordFor(proof, grant) ==
  IF proof.trustgrant_id # grant THEN Failed("RevocationProofGrantMismatch") ELSE Answer("Ok", proof)

\* RevocationProofSource.
ResolveRevocationRecord(held, grant) ==
  LET proof == EntryOr(held.revocation_proofs, grant, None)
  IN  IF proof = None THEN Failed("MissingRevocationProof") ELSE ToRecordFor(proof, grant)

\* OwnershipTransitionProofSource: no chain is an empty chain.
ResolveOwnershipTransitionChain(held, grant) ==
  LET chain == EntryOr(held.ownership_transition_chains, grant, <<>>)
  IN  IF Len(chain) > MaxChainLength THEN Failed("CollectionLimitExceeded") ELSE Answer("Ok", chain)

-----------------------------------------------------------------------------
VARIABLE bundle   \* the bundle that is being put together

Init == bundle = EmptyBundle

Offer(offer) == bundle' = After(bundle, offer)

Next == \E offer \in Offers : Offer(offer)

Spec == Init /\ [][Next]_bundle

-----------------------------------------------------------------------------
\* No sequence of offers gets more into a bundle than its limits, and what
\* is refused leaves no empty map behind.
WithinLimits ==
  /\ Cardinality(DOMAIN bundle.discovery_documents) <= MaxDocuments
  /\ Cardinality(Delegates(bundle.delegated_documents)) <= MaxDelegated
  /\ \A a \in DOMAIN bundle.delegated_documents :
       /\ bundle.delegated_documents[a] # EmptyMap
       /\ \A k \in DOMAIN bundle.delegated_documents[a] :
            bundle.delegated_documents[a][k] # EmptyMap
  /\ Cardinality(DOMAIN bundle.revocation_proofs) <= MaxProofs
  /\ Cardinality(DOMAIN bundle.ownership_transition_chains) <= MaxChains
  /\ \A g \in DOMAIN bundle.ownership_transition_chains :
       Len(bundle.ownership_transition_chains[g]) <= MaxChainLength

Authorities == {AuthorityOf(raw.authority_id) : raw \in RawDocuments \cup RawDelegated}
KeyIds      == UNION {{Trim[raw.keys[i].key_id] : i \in DOMAIN raw.keys} :
                        raw \in RawDocuments \cup RawDelegated}
Principals  == {[kind |-> Trim[raw.principal.kind], id |-> Trim[raw.principal.id]] :
                  raw \in RawDelegated} \cup {None}

Missing(answer) == answer.result \in {"MissingAuthorityDiscoveryDocument",
                                      "MissingDelegatedPrincipalDocument", "MissingRevocationProof"}

\* What was answered is answered again.  (A chain that is not there yet
\* reads as an empty one; this is the one answer that may change.)
SameAnswers ==
  /\ \A a \in Authorities, k \in KeyIds, p \in Principals :
       LET answer == ResolveSignerBinding(bundle, a, k, p)
       IN  Missing(answer) \/ ResolveSignerBinding(bundle', a, k, p) = answer
  /\ \A proof \in Proofs :
       LET answer == ResolveRevocationRecord(bundle, proof.trustgrant_id)
       IN  Missing(answer) \/ ResolveRevocationRecord(bundle', proof.trustgrant_id) = answer
  /\ \A g \in DOMAIN bundle.ownership_transition_chains :
       ResolveOwnershipTransitionChain(bundle', g) = ResolveOwnershipTransitionChain(bundle, g)

\* An answer stands: whatever is offered later, a bundle that once answered
\* answers the same, with an error or without.  A grant verified twice from
\* one bundle is verified on the same evidence.
AnswersStand == [][SameAnswers]_bundle

Parsed == {offer \in Offers : ParseResult(offer) = "Ok"}

\* Two offers that are accepted one after the other are accepted the other
\* way round, with the same bundle: only conflicts and limits make order
\* matter.  (An offer is accepted if it parses and can be inserted.)
OrderIsImmaterial ==
  LET fitting == {offer \in Parsed : InsertResult(bundle, offer) = "Ok"}
      after   == [offer \in fitting |-> Put(bundle, offer)]
  IN  \A first \in fitting, second \in Parsed :
        InsertResult(after[first], second) = "Ok"
          => /\ second \in fitting /\ InsertResult(after[second], first) = "Ok"
             /\ Put(after[second], first) = Put(after[first], second)

\* A key that a lookup finds was published, unrevoked, under this id by this
\* authority for this principal.
OnlyLiveKeysAreFound ==
  \A a \in Authorities, k \in KeyIds, p \in Principals :
    LET answer == ResolveSignerBinding(bundle, a, k, p)
    IN  answer.result = "Ok" =>
          /\ answer.binding.issuer_authority = a /\ answer.binding.principal = p
          /\ answer.binding.key_record.key_id = k
          /\ \E raw \in IF p = None THEN RawDocuments ELSE RawDelegated :
               /\ AuthorityOf(raw.authority_id) = a
               /\ p # None => p = [kind |-> Trim[raw.principal.kind], id |-> Trim[raw.principal.id]]
               /\ \E i \in DOMAIN raw.keys :
                    /\ KeyRecord(raw.keys[i]) = answer.binding.key_record
                    /\ p # None => ~raw.keys[i].revoked

\* The keys of one authority as GrantVerification takes them.
PublishedKey(record, holder) ==
  [id |-> record.key_id, holder |-> holder, material |-> record.material,
   not_before |-> record.not_before, not_after |-> record.not_after]

Published(authority) ==
  IF authority \notin DOMAIN bundle.discovery_documents THEN {}
  ELSE LET document == bundle.discovery_documents[authority]
       IN  {PublishedKey(document.keys[i], None) : i \in DOMAIN document.keys}
           \cup IF document.delegation = None THEN {}
                ELSE UNION {LET delegate == bundle.delegated_documents[d[1]][d[2]][d[3]]
                            IN  {PublishedKey(delegate.keys[i], delegate.principal) :
                                   i \in DOMAIN delegate.keys} :
                            d \in {e \in Delegates(bundle.delegated_documents) : e[1] = authority}}

Verification == INSTANCE GrantVerification WITH MaxU64 <- 1, NonRevokedTtl <- 1, MaxStale <- 1

\* A lookup finds the one key that GrantVerification takes a signature to be
\* made with, and fails when there is none: ids are unique in what is kept.
FindsTheSigningKey ==
  \A a \in Authorities, k \in KeyIds, p \in Principals :
    LET answer == ResolveSignerBinding(bundle, a, k, p)
    IN  Verification!SigningKeys([key_id |-> k, principal |-> p], Published(a))
          = IF answer.result = "Ok"
            THEN {PublishedKey(answer.binding.key_record, answer.binding.principal)} ELSE {}
=============================================================================
