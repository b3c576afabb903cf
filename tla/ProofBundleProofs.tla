-------------------------- MODULE ProofBundleProofs -------------------------
(***************************************************************************)
(* No sequence of offers gets more into a proof bundle than its limits or  *)
(* takes back an answer it gave; order is immaterial; and what a lookup    *)
(* finds was published, and is the one key there is: for all limits,       *)
(* documents, proofs and chains.                                           *)
(***************************************************************************)
EXTENDS ProofBundle, FiniteSetTheorems, WellFoundedInduction, TLAPS

-----------------------------------------------------------------------------
(* Maps.                                                                   *)

LEMMA WithDomain ==
  \A map, key, value : DOMAIN With(map, key, value) = DOMAIN map \cup {key}
  BY DEF With

LEMMA WithKey ==
  \A map, key, value : With(map, key, value)[key] = value
  BY DEF With

LEMMA WithOthers ==
  \A map, key, value : \A k \in DOMAIN map : k # key => With(map, key, value)[k] = map[k]
  BY DEF With

LEMMA WithIsNotEmpty ==
  \A map, key, value : With(map, key, value) # EmptyMap
<1>1. \A map, key, value : key \in DOMAIN With(map, key, value)
  BY DEF With
<1>2. \A x : x \notin DOMAIN EmptyMap
  BY DEF EmptyMap
<1> QED BY <1>1, <1>2, Zenon

LEMMA WithLookup ==
  \A map, key, value, k, d :
    EntryOr(With(map, key, value), k, d) = IF k = key THEN value ELSE EntryOr(map, k, d)
  BY DEF With, EntryOr

\* One more entry fits if it is there already or there is room.
LEMMA OneMoreFits ==
  ASSUME NEW S, IsFiniteSet(S), NEW x, NEW limit \in Nat,
         Cardinality(S) <= limit, x \in S \/ Cardinality(S) < limit
  PROVE  IsFiniteSet(S \cup {x}) /\ Cardinality(S \cup {x}) <= limit
<1>1. /\ IsFiniteSet(S \cup {x})
      /\ Cardinality(S \cup {x}) = IF x \in S THEN Cardinality(S) ELSE Cardinality(S) + 1
  BY FS_AddElement
<1>2. Cardinality(S) \in Nat
  BY FS_CardinalityType
<1> QED BY <1>1, <1>2

\* An entry of the nested maps.
InDelegated(map, a, k, i) ==
  a \in DOMAIN map /\ k \in DOMAIN map[a] /\ i \in DOMAIN map[a][k]

LEMMA DelegatesAreEntries ==
  ASSUME NEW map
  PROVE  Delegates(map) = {t \in Delegates(map) : TRUE} /\
         \A t : t \in Delegates(map) <=> \E a, k, i : InDelegated(map, a, k, i) /\ t = <<a, k, i>>
  BY DEF Delegates, InDelegated

LEMMA WithDelegateEntries ==
  ASSUME NEW map, NEW document
  PROVE  LET A   == document.authority_id
             K   == document.principal.kind
             I   == document.principal.id
             new == WithDelegate(map, document)
         IN  /\ Delegates(new) = Delegates(map) \cup {<<A, K, I>>}
             /\ \A a, p : Delegate(new, a, p) =
                  IF a = A /\ p.kind = K /\ p.id = I THEN document ELSE Delegate(map, a, p)
             /\ (\A a \in DOMAIN map : map[a] # EmptyMap
                    /\ \A k \in DOMAIN map[a] : map[a][k] # EmptyMap)
                => \A a \in DOMAIN new : new[a] # EmptyMap
                      /\ \A k \in DOMAIN new[a] : new[a][k] # EmptyMap
<1> DEFINE A     == document.authority_id
           K     == document.principal.kind
           I     == document.principal.id
           kinds == EntryOr(map, A, EmptyMap)
           ids   == EntryOr(kinds, K, EmptyMap)
           ids2  == With(ids, I, document)
           kinds2 == With(kinds, K, ids2)
           new   == With(map, A, kinds2)
<1>1. new = WithDelegate(map, document)
  BY DEF WithDelegate
<1>a. new = With(map, A, kinds2) /\ kinds2 = With(kinds, K, ids2) /\ ids2 = With(ids, I, document)
  OBVIOUS
<1>5. /\ kinds = IF A \in DOMAIN map THEN map[A] ELSE EmptyMap
      /\ ids = IF K \in DOMAIN kinds THEN kinds[K] ELSE EmptyMap
      /\ kinds = EntryOr(map, A, EmptyMap) /\ ids = EntryOr(kinds, K, EmptyMap)
      /\ DOMAIN EmptyMap = {}
  BY DEF EntryOr, EmptyMap
<1> HIDE DEF new, kinds2, ids2, kinds, ids, A, K, I
<1>2. /\ DOMAIN new = DOMAIN map \cup {A} /\ new[A] = kinds2
      /\ \A a \in DOMAIN map : a # A => new[a] = map[a]
      /\ \A a, d : EntryOr(new, a, d) = IF a = A THEN kinds2 ELSE EntryOr(map, a, d)
  <2>1. DOMAIN new = DOMAIN map \cup {A}
    BY <1>a, WithDomain
  <2>2. new[A] = kinds2
    BY <1>a, WithKey
  <2>3. \A a \in DOMAIN map : a # A => new[a] = map[a]
    BY <1>a, WithOthers
  <2>4. \A a, d : EntryOr(new, a, d) = IF a = A THEN kinds2 ELSE EntryOr(map, a, d)
    BY <1>a, WithLookup
  <2> QED BY <2>1, <2>2, <2>3, <2>4
<1>3. /\ DOMAIN kinds2 = DOMAIN kinds \cup {K} /\ kinds2[K] = ids2 /\ kinds2 # EmptyMap
      /\ \A k \in DOMAIN kinds : k # K => kinds2[k] = kinds[k]
      /\ \A k, d : EntryOr(kinds2, k, d) = IF k = K THEN ids2 ELSE EntryOr(kinds, k, d)
  <2>1. DOMAIN kinds2 = DOMAIN kinds \cup {K}
    BY <1>a, WithDomain
  <2>2. kinds2[K] = ids2
    BY <1>a, WithKey
  <2>3. \A k \in DOMAIN kinds : k # K => kinds2[k] = kinds[k]
    BY <1>a, WithOthers
  <2>4. \A k, d : EntryOr(kinds2, k, d) = IF k = K THEN ids2 ELSE EntryOr(kinds, k, d)
    BY <1>a, WithLookup
  <2>5. kinds2 # EmptyMap
    BY <1>a, WithIsNotEmpty
  <2> QED BY <2>1, <2>2, <2>3, <2>4, <2>5
<1>4. /\ DOMAIN ids2 = DOMAIN ids \cup {I} /\ ids2 # EmptyMap
      /\ \A i, d : EntryOr(ids2, i, d) = IF i = I THEN document ELSE EntryOr(ids, i, d)
  <2>1. DOMAIN ids2 = DOMAIN ids \cup {I}
    BY <1>a, WithDomain
  <2>2. \A i, d : EntryOr(ids2, i, d) = IF i = I THEN document ELSE EntryOr(ids, i, d)
    BY <1>a, WithLookup
  <2>3. ids2 # EmptyMap
    BY <1>a, WithIsNotEmpty
  <2> QED BY <2>1, <2>2, <2>3
<1>6. ASSUME NEW a, NEW k, NEW i
      PROVE  InDelegated(new, a, k, i) <=> InDelegated(map, a, k, i) \/ (a = A /\ k = K /\ i = I)
  <2>1. CASE a # A
    BY <1>2, <2>1 DEF InDelegated
  <2>2. CASE a = A /\ k # K
    BY <1>2, <1>3, <1>5, <2>2 DEF InDelegated
  <2>3. CASE a = A /\ k = K
    BY <1>2, <1>3, <1>4, <1>5, <2>3 DEF InDelegated
  <2> QED BY <2>1, <2>2, <2>3
<1>7. Delegates(new) = Delegates(map) \cup {<<A, K, I>>}
  <2>1. \A t : t \in Delegates(new) <=> t \in Delegates(map) \/ t = <<A, K, I>>
    BY <1>6, DelegatesAreEntries
  <2> QED BY <2>1
<1>8. ASSUME NEW a, NEW p
      PROVE  Delegate(new, a, p) = IF a = A /\ p.kind = K /\ p.id = I THEN document
                                   ELSE Delegate(map, a, p)
  <2>1. CASE a # A
    BY <1>2, <2>1 DEF Delegate
  <2>2. CASE a = A /\ p.kind # K
    BY <1>2, <1>3, <1>5, <2>2 DEF Delegate
  <2>3. CASE a = A /\ p.kind = K
    BY <1>2, <1>3, <1>4, <1>5, <2>3 DEF Delegate
  <2> QED BY <2>1, <2>2, <2>3
<1>9. ASSUME \A a \in DOMAIN map : map[a] # EmptyMap
               /\ \A k \in DOMAIN map[a] : map[a][k] # EmptyMap,
             NEW a \in DOMAIN new
      PROVE  new[a] # EmptyMap /\ \A k \in DOMAIN new[a] : new[a][k] # EmptyMap
  <2>1. CASE a # A
    BY <1>2, <1>9, <2>1
  <2>2. CASE a = A
    <3>1. \A k \in DOMAIN kinds : kinds[k] # EmptyMap
      BY <1>5, <1>9
    <3>2. \A k \in DOMAIN kinds2 : kinds2[k] # EmptyMap
      BY <1>3, <1>4, <3>1
    <3> QED BY <1>2, <1>3, <2>2, <3>2
  <2> QED BY <2>1, <2>2
<1> QED BY <1>1, <1>7, <1>8, <1>9 DEF A, K, I

-----------------------------------------------------------------------------
(* One offer.                                                              *)

BundleOK ==
  /\ DOMAIN bundle = {"discovery_documents", "delegated_documents", "revocation_proofs",
                     "ownership_transition_chains"}
  /\ WithinLimits
  /\ IsFiniteSet(DOMAIN bundle.discovery_documents)
  /\ IsFiniteSet(Delegates(bundle.delegated_documents))
  /\ IsFiniteSet(DOMAIN bundle.revocation_proofs)
  /\ IsFiniteSet(DOMAIN bundle.ownership_transition_chains)
  /\ \A g \in DOMAIN bundle.ownership_transition_chains :
       bundle.ownership_transition_chains[g] # None

\* An accepted offer is there already, or nothing is in its place and it fits.
LEMMA AcceptedFacts ==
  ASSUME NEW held, NEW offer \in Offers, Accepts(held, offer)
  PROVE  /\ ParseResult(offer) = "Ok" /\ Entry(offer) # None
         /\ \/ Found(held, offer) = Entry(offer)
            \/ Found(held, offer) = None /\ Fits(held, offer)
  BY EntriesAssumption DEF Accepts, Result, InsertResult

LEMMA InitBundle == Init => BundleOK
<1> SUFFICES ASSUME Init PROVE BundleOK
  OBVIOUS
<1>1. /\ DOMAIN bundle = {"discovery_documents", "delegated_documents", "revocation_proofs",
                         "ownership_transition_chains"}
      /\ bundle.discovery_documents = EmptyMap /\ bundle.delegated_documents = EmptyMap
      /\ bundle.revocation_proofs = EmptyMap /\ bundle.ownership_transition_chains = EmptyMap
  BY DEF Init, EmptyBundle
<1>2. DOMAIN EmptyMap = {}
  BY DEF EmptyMap
<1>3. Delegates(EmptyMap) = {}
  BY <1>2 DEF Delegates
<1>4. IsFiniteSet({}) /\ Cardinality({}) = 0
  BY FS_EmptySet
<1>5. \A limit \in {MaxDocuments, MaxDelegated, MaxProofs, MaxChains} : 0 <= limit
  BY BundleAssumption
<1> QED BY <1>1, <1>2, <1>3, <1>4, <1>5 DEF BundleOK, WithinLimits

\* An accepted offer goes into the map of its kind, and only there.
LEMMA PutFacts ==
  ASSUME NEW held, NEW offer,
         DOMAIN held = {"discovery_documents", "delegated_documents", "revocation_proofs",
                        "ownership_transition_chains"}
  PROVE  LET new == Put(held, offer)
         IN  /\ offer.part = "discovery" =>
                  /\ DOMAIN new = DOMAIN held
                  /\ new.discovery_documents =
                       With(held.discovery_documents, Entry(offer).authority_id, Entry(offer))
                  /\ new.delegated_documents = held.delegated_documents
                  /\ new.revocation_proofs = held.revocation_proofs
                  /\ new.ownership_transition_chains = held.ownership_transition_chains
             /\ offer.part = "delegated" =>
                  /\ DOMAIN new = DOMAIN held
                  /\ new.discovery_documents = held.discovery_documents
                  /\ new.delegated_documents =
                       WithDelegate(held.delegated_documents, Entry(offer))
                  /\ new.revocation_proofs = held.revocation_proofs
                  /\ new.ownership_transition_chains = held.ownership_transition_chains
             /\ offer.part = "proof" =>
                  /\ DOMAIN new = DOMAIN held
                  /\ new.discovery_documents = held.discovery_documents
                  /\ new.delegated_documents = held.delegated_documents
                  /\ new.revocation_proofs =
                       With(held.revocation_proofs, offer.raw.trustgrant_id, offer.raw)
                  /\ new.ownership_transition_chains = held.ownership_transition_chains
             /\ offer.part = "chain" =>
                  /\ DOMAIN new = DOMAIN held
                  /\ new.discovery_documents = held.discovery_documents
                  /\ new.delegated_documents = held.delegated_documents
                  /\ new.revocation_proofs = held.revocation_proofs
                  /\ new.ownership_transition_chains =
                       With(held.ownership_transition_chains, offer.raw.grant, offer.raw.chain)
  BY DEF Put

LEMMA PartOfOffer ==
  ASSUME NEW offer \in Offers
  PROVE  /\ offer.part \in {"discovery", "delegated", "proof", "chain"}
         /\ offer.part = "chain" => offer.raw.chain \in Chains
  BY DEF Offers

\* What is found is in the maps.
LEMMA DelegateIsThere ==
  ASSUME NEW map, NEW a, NEW p, Delegate(map, a, p) # None
  PROVE  <<a, p.kind, p.id>> \in Delegates(map)
<1> DEFINE kinds == EntryOr(map, a, EmptyMap)
           ids   == EntryOr(kinds, p.kind, EmptyMap)
<1>1. p.id \in DOMAIN ids
  BY DEF Delegate, EntryOr
<1>2. DOMAIN EmptyMap = {}
  BY DEF EmptyMap
<1>3. p.kind \in DOMAIN kinds /\ ids = kinds[p.kind]
  BY <1>1, <1>2 DEF EntryOr
<1>4. a \in DOMAIN map /\ kinds = map[a]
  BY <1>2, <1>3 DEF EntryOr
<1>5. InDelegated(map, a, p.kind, p.id)
  BY <1>1, <1>3, <1>4 DEF InDelegated
<1> QED BY <1>5, DelegatesAreEntries

LEMMA Room ==
  ASSUME NEW held, NEW offer \in Offers, Accepts(held, offer)
  PROVE  /\ offer.part = "discovery" =>
              \/ Entry(offer).authority_id \in DOMAIN held.discovery_documents
              \/ Cardinality(DOMAIN held.discovery_documents) < MaxDocuments
         /\ offer.part = "delegated" =>
              \/ <<Entry(offer).authority_id, Entry(offer).principal.kind,
                   Entry(offer).principal.id>> \in Delegates(held.delegated_documents)
              \/ Cardinality(Delegates(held.delegated_documents)) < MaxDelegated
         /\ offer.part = "proof" =>
              \/ offer.raw.trustgrant_id \in DOMAIN held.revocation_proofs
              \/ Cardinality(DOMAIN held.revocation_proofs) < MaxProofs
         /\ offer.part = "chain" =>
              \/ offer.raw.grant \in DOMAIN held.ownership_transition_chains
              \/ Cardinality(DOMAIN held.ownership_transition_chains) < MaxChains
<1>1. Found(held, offer) # None \/ Fits(held, offer)
  BY AcceptedFacts
<1>2. CASE Fits(held, offer)
  BY <1>2 DEF Fits
<1>3. CASE Found(held, offer) # None
  <2>1. ASSUME offer.part = "discovery"
        PROVE  Entry(offer).authority_id \in DOMAIN held.discovery_documents
    BY <1>3, <2>1 DEF Found, EntryOr
  <2>2. ASSUME offer.part = "delegated"
        PROVE  <<Entry(offer).authority_id, Entry(offer).principal.kind,
                 Entry(offer).principal.id>> \in Delegates(held.delegated_documents)
    <3>1. Delegate(held.delegated_documents, Entry(offer).authority_id, Entry(offer).principal) # None
      BY <1>3, <2>2 DEF Found
    <3> QED BY <3>1, DelegateIsThere
  <2>3. ASSUME offer.part = "proof"
        PROVE  offer.raw.trustgrant_id \in DOMAIN held.revocation_proofs
    BY <1>3, <2>3 DEF Found, EntryOr
  <2>4. ASSUME offer.part = "chain"
        PROVE  offer.raw.grant \in DOMAIN held.ownership_transition_chains
    BY <1>3, <2>4 DEF Found, EntryOr
  <2> QED BY <2>1, <2>2, <2>3, <2>4
<1> QED BY <1>1, <1>2, <1>3

\* An accepted offer keeps its part of the bundle within its limit.
LEMMA AcceptedKeepsLimits ==
  ASSUME BundleOK, NEW offer \in Offers, Accepts(bundle, offer), bundle' = Put(bundle, offer)
  PROVE  BundleOK'
<1>0. /\ ParseResult(offer) = "Ok" /\ Entry(offer) # None
      /\ \/ Found(bundle, offer) = Entry(offer)
         \/ Found(bundle, offer) = None /\ Fits(bundle, offer)
  BY AcceptedFacts
<1>1. DOMAIN bundle = {"discovery_documents", "delegated_documents", "revocation_proofs",
                       "ownership_transition_chains"}
  BY DEF BundleOK
<1>2. /\ MaxDocuments \in Nat /\ MaxDelegated \in Nat /\ MaxProofs \in Nat
      /\ MaxChains \in Nat /\ MaxChainLength \in Nat
  BY BundleAssumption
<1>3. CASE offer.part = "discovery"
  <2> DEFINE map == bundle.discovery_documents
             key == Entry(offer).authority_id
  <2>1. /\ DOMAIN bundle' = DOMAIN bundle
        /\ bundle'.discovery_documents = With(map, key, Entry(offer))
        /\ bundle'.delegated_documents = bundle.delegated_documents
        /\ bundle'.revocation_proofs = bundle.revocation_proofs
        /\ bundle'.ownership_transition_chains = bundle.ownership_transition_chains
    BY <1>1, <1>3, PutFacts
  <2>2. DOMAIN bundle'.discovery_documents = DOMAIN map \cup {key}
    <3>1. DOMAIN With(map, key, Entry(offer))
            = DOMAIN map \cup {key}
      BY WithDomain, Zenon
    <3> QED BY <2>1, <3>1
  <2>3. key \in DOMAIN map \/ Cardinality(DOMAIN map) < MaxDocuments
    BY <1>3, Room
  <2>4. /\ IsFiniteSet(DOMAIN bundle'.discovery_documents)
        /\ Cardinality(DOMAIN bundle'.discovery_documents) <= MaxDocuments
    <3>1. IsFiniteSet(DOMAIN map) /\ Cardinality(DOMAIN map) <= MaxDocuments
      BY DEF BundleOK, WithinLimits
    <3>2. IsFiniteSet(DOMAIN map \cup {key}) /\ Cardinality(DOMAIN map \cup {key}) <= MaxDocuments
      <4> HIDE DEF map, key
      <4> QED BY <1>2, <2>3, <3>1, OneMoreFits
    <3> QED BY <2>2, <3>2
  <2> QED BY <2>1, <2>4 DEF BundleOK, WithinLimits
<1>4. CASE offer.part = "delegated"
  <2> DEFINE map == bundle.delegated_documents
             document == Entry(offer)
             place == <<document.authority_id, document.principal.kind, document.principal.id>>
  <2>1. /\ DOMAIN bundle' = DOMAIN bundle
        /\ bundle'.discovery_documents = bundle.discovery_documents
        /\ bundle'.delegated_documents = WithDelegate(map, document)
        /\ bundle'.revocation_proofs = bundle.revocation_proofs
        /\ bundle'.ownership_transition_chains = bundle.ownership_transition_chains
    BY <1>1, <1>4, PutFacts
  <2>2. Delegates(bundle'.delegated_documents) = Delegates(map) \cup {place}
    BY <2>1, WithDelegateEntries
  <2>3. place \in Delegates(map) \/ Cardinality(Delegates(map)) < MaxDelegated
    BY <1>4, Room
  <2>4. /\ IsFiniteSet(Delegates(bundle'.delegated_documents))
        /\ Cardinality(Delegates(bundle'.delegated_documents)) <= MaxDelegated
    <3>1. IsFiniteSet(Delegates(map)) /\ Cardinality(Delegates(map)) <= MaxDelegated
      BY DEF BundleOK, WithinLimits
    <3>2. IsFiniteSet(Delegates(map) \cup {place}) /\ Cardinality(Delegates(map) \cup {place}) <= MaxDelegated
      <4> HIDE DEF map, place
      <4> QED BY <1>2, <2>3, <3>1, OneMoreFits
    <3> QED BY <2>2, <3>2
  <2>5. \A a \in DOMAIN map : map[a] # EmptyMap
          /\ \A k \in DOMAIN map[a] : map[a][k] # EmptyMap
    BY DEF BundleOK, WithinLimits
  <2>6. \A a \in DOMAIN bundle'.delegated_documents :
          /\ bundle'.delegated_documents[a] # EmptyMap
          /\ \A k \in DOMAIN bundle'.delegated_documents[a] :
               bundle'.delegated_documents[a][k] # EmptyMap
    BY <2>1, <2>5, WithDelegateEntries
  <2> QED BY <2>1, <2>4, <2>6 DEF BundleOK, WithinLimits
<1>5. CASE offer.part = "proof"
  <2> DEFINE map == bundle.revocation_proofs
             key == offer.raw.trustgrant_id
  <2>1. /\ DOMAIN bundle' = DOMAIN bundle
        /\ bundle'.discovery_documents = bundle.discovery_documents
        /\ bundle'.delegated_documents = bundle.delegated_documents
        /\ bundle'.revocation_proofs = With(map, key, offer.raw)
        /\ bundle'.ownership_transition_chains = bundle.ownership_transition_chains
    BY <1>1, <1>5, PutFacts
  <2>2. DOMAIN bundle'.revocation_proofs = DOMAIN map \cup {key}
    <3>1. DOMAIN With(map, key, offer.raw)
            = DOMAIN map \cup {key}
      BY WithDomain, Zenon
    <3> QED BY <2>1, <3>1
  <2>3. key \in DOMAIN map \/ Cardinality(DOMAIN map) < MaxProofs
    BY <1>5, Room
  <2>4. /\ IsFiniteSet(DOMAIN bundle'.revocation_proofs)
        /\ Cardinality(DOMAIN bundle'.revocation_proofs) <= MaxProofs
    <3>1. IsFiniteSet(DOMAIN map) /\ Cardinality(DOMAIN map) <= MaxProofs
      BY DEF BundleOK, WithinLimits
    <3>2. IsFiniteSet(DOMAIN map \cup {key}) /\ Cardinality(DOMAIN map \cup {key}) <= MaxProofs
      <4> HIDE DEF map, key
      <4> QED BY <1>2, <2>3, <3>1, OneMoreFits
    <3> QED BY <2>2, <3>2
  <2> QED BY <2>1, <2>4 DEF BundleOK, WithinLimits
<1>6. CASE offer.part = "chain"
  <2> DEFINE map == bundle.ownership_transition_chains
             key == offer.raw.grant
             chain == offer.raw.chain
  <2>1. /\ DOMAIN bundle' = DOMAIN bundle
        /\ bundle'.discovery_documents = bundle.discovery_documents
        /\ bundle'.delegated_documents = bundle.delegated_documents
        /\ bundle'.revocation_proofs = bundle.revocation_proofs
        /\ bundle'.ownership_transition_chains = With(map, key, chain)
    BY <1>1, <1>6, PutFacts
  <2>2. DOMAIN bundle'.ownership_transition_chains = DOMAIN map \cup {key}
    <3>1. DOMAIN With(map, key, chain)
            = DOMAIN map \cup {key}
      BY WithDomain, Zenon
    <3> QED BY <2>1, <3>1
  <2>3. key \in DOMAIN map \/ Cardinality(DOMAIN map) < MaxChains
    BY <1>6, Room
  <2>4. /\ IsFiniteSet(DOMAIN bundle'.ownership_transition_chains)
        /\ Cardinality(DOMAIN bundle'.ownership_transition_chains) <= MaxChains
    <3>1. IsFiniteSet(DOMAIN map) /\ Cardinality(DOMAIN map) <= MaxChains
      BY DEF BundleOK, WithinLimits
    <3>2. IsFiniteSet(DOMAIN map \cup {key}) /\ Cardinality(DOMAIN map \cup {key}) <= MaxChains
      <4> HIDE DEF map, key
      <4> QED BY <1>2, <2>3, <3>1, OneMoreFits
    <3> QED BY <2>2, <3>2
  <2>5. chain # None /\ Len(chain) <= MaxChainLength
    <3>1. Len(chain) \in Nat
      BY <1>6, PartOfOffer, EntriesAssumption
    <3>2. Entry(offer) = chain
      BY <1>6 DEF Entry
    <3>3. ~(Len(chain) > MaxChainLength)
      BY <1>0, <1>6 DEF ParseResult
    <3> QED BY <1>0, <1>2, <3>1, <3>2, <3>3
  <2>6. \A g \in DOMAIN bundle'.ownership_transition_chains :
          bundle'.ownership_transition_chains[g] \in {chain, map[g]}
          /\ (g # key => g \in DOMAIN map /\ bundle'.ownership_transition_chains[g] = map[g])
          /\ (g = key => bundle'.ownership_transition_chains[g] = chain)
    BY <2>1, <2>2, WithKey, WithOthers
  <2>7. \A g \in DOMAIN bundle'.ownership_transition_chains :
          /\ bundle'.ownership_transition_chains[g] # None
          /\ Len(bundle'.ownership_transition_chains[g]) <= MaxChainLength
    BY <2>5, <2>6 DEF BundleOK, WithinLimits
  <2> QED BY <2>1, <2>4, <2>7 DEF BundleOK, WithinLimits
<1> QED BY <1>3, <1>4, <1>5, <1>6, PartOfOffer

-----------------------------------------------------------------------------
(* What was found once is found again.                                     *)

LEMMA EntriesEndure ==
  ASSUME NEW held, NEW offer \in Offers, Accepts(held, offer),
         DOMAIN held = {"discovery_documents", "delegated_documents", "revocation_proofs",
                        "ownership_transition_chains"}
  PROVE  LET new == Put(held, offer)
         IN  /\ \A a : EntryOr(held.discovery_documents, a, None) # None =>
                  EntryOr(new.discovery_documents, a, None)
                    = EntryOr(held.discovery_documents, a, None)
             /\ \A a, p : Delegate(held.delegated_documents, a, p) # None =>
                  Delegate(new.delegated_documents, a, p)
                    = Delegate(held.delegated_documents, a, p)
             /\ \A g : EntryOr(held.revocation_proofs, g, None) # None =>
                  EntryOr(new.revocation_proofs, g, None) = EntryOr(held.revocation_proofs, g, None)
             /\ \A g : EntryOr(held.ownership_transition_chains, g, None) # None =>
                  EntryOr(new.ownership_transition_chains, g, None)
                    = EntryOr(held.ownership_transition_chains, g, None)
<1> DEFINE new == Put(held, offer)
<1>0. Found(held, offer) # None => Found(held, offer) = Entry(offer)
  BY AcceptedFacts
<1> HIDE DEF new
<1>1. CASE offer.part = "discovery"
  <2>1. /\ new.discovery_documents =
             With(held.discovery_documents, Entry(offer).authority_id, Entry(offer))
        /\ new.delegated_documents = held.delegated_documents
        /\ new.revocation_proofs = held.revocation_proofs
        /\ new.ownership_transition_chains = held.ownership_transition_chains
    BY <1>1, PutFacts DEF new
  <2>2. Found(held, offer) = EntryOr(held.discovery_documents, Entry(offer).authority_id, None)
    BY <1>1 DEF Found
  <2>3. \A a : EntryOr(new.discovery_documents, a, None)
                = IF a = Entry(offer).authority_id THEN Entry(offer)
                  ELSE EntryOr(held.discovery_documents, a, None)
    BY <2>1, WithLookup
  <2> QED BY <1>0, <2>1, <2>2, <2>3 DEF new
<1>2. CASE offer.part = "delegated"
  <2> DEFINE document == Entry(offer)
  <2>1. /\ new.discovery_documents = held.discovery_documents
        /\ new.delegated_documents = WithDelegate(held.delegated_documents, document)
        /\ new.revocation_proofs = held.revocation_proofs
        /\ new.ownership_transition_chains = held.ownership_transition_chains
    BY <1>2, PutFacts DEF new
  <2>2. Found(held, offer)
          = Delegate(held.delegated_documents, document.authority_id, document.principal)
    BY <1>2 DEF Found
  <2>3. \A a, p : Delegate(new.delegated_documents, a, p)
                   = IF /\ a = document.authority_id
                        /\ p.kind = document.principal.kind /\ p.id = document.principal.id
                     THEN document ELSE Delegate(held.delegated_documents, a, p)
    BY <2>1, WithDelegateEntries
  <2>4. \A a, p : /\ a = document.authority_id
                  /\ p.kind = document.principal.kind /\ p.id = document.principal.id
                  => Delegate(held.delegated_documents, a, p) = Found(held, offer)
    BY <2>2 DEF Delegate
  <2> QED BY <1>0, <2>1, <2>3, <2>4 DEF new
<1>3. CASE offer.part = "proof"
  <2>1. /\ new.discovery_documents = held.discovery_documents
        /\ new.delegated_documents = held.delegated_documents
        /\ new.revocation_proofs =
             With(held.revocation_proofs, offer.raw.trustgrant_id, offer.raw)
        /\ new.ownership_transition_chains = held.ownership_transition_chains
    BY <1>3, PutFacts DEF new
  <2>2. /\ Found(held, offer) = EntryOr(held.revocation_proofs, offer.raw.trustgrant_id, None)
        /\ Entry(offer) = offer.raw
    BY <1>3 DEF Found, Entry
  <2>3. \A g : EntryOr(new.revocation_proofs, g, None)
                = IF g = offer.raw.trustgrant_id THEN offer.raw
                  ELSE EntryOr(held.revocation_proofs, g, None)
    BY <2>1, WithLookup
  <2> QED BY <1>0, <2>1, <2>2, <2>3 DEF new
<1>4. CASE offer.part = "chain"
  <2>1. /\ new.discovery_documents = held.discovery_documents
        /\ new.delegated_documents = held.delegated_documents
        /\ new.revocation_proofs = held.revocation_proofs
        /\ new.ownership_transition_chains =
             With(held.ownership_transition_chains, offer.raw.grant, offer.raw.chain)
    BY <1>4, PutFacts DEF new
  <2>2. /\ Found(held, offer) = EntryOr(held.ownership_transition_chains, offer.raw.grant, None)
        /\ Entry(offer) = offer.raw.chain
    BY <1>4 DEF Found, Entry
  <2>3. \A g : EntryOr(new.ownership_transition_chains, g, None)
                = IF g = offer.raw.grant THEN offer.raw.chain
                  ELSE EntryOr(held.ownership_transition_chains, g, None)
    BY <2>1, WithLookup
  <2> QED BY <1>0, <2>1, <2>2, <2>3 DEF new
<1> QED BY <1>1, <1>2, <1>3, <1>4, PartOfOffer

LEMMA AcceptedKeepsAnswers ==
  ASSUME BundleOK, NEW offer \in Offers, Accepts(bundle, offer), bundle' = Put(bundle, offer)
  PROVE  SameAnswers
<1>1. /\ \A a : EntryOr(bundle.discovery_documents, a, None) # None =>
           EntryOr(bundle'.discovery_documents, a, None)
             = EntryOr(bundle.discovery_documents, a, None)
      /\ \A a, p : Delegate(bundle.delegated_documents, a, p) # None =>
           Delegate(bundle'.delegated_documents, a, p)
             = Delegate(bundle.delegated_documents, a, p)
      /\ \A g : EntryOr(bundle.revocation_proofs, g, None) # None =>
           EntryOr(bundle'.revocation_proofs, g, None) = EntryOr(bundle.revocation_proofs, g, None)
      /\ \A g : EntryOr(bundle.ownership_transition_chains, g, None) # None =>
           EntryOr(bundle'.ownership_transition_chains, g, None)
             = EntryOr(bundle.ownership_transition_chains, g, None)
  BY EntriesEndure DEF BundleOK
<1>2. ASSUME NEW a, NEW k, NEW p
      PROVE  \/ Missing(ResolveSignerBinding(bundle, a, k, p))
             \/ ResolveSignerBinding(bundle', a, k, p) = ResolveSignerBinding(bundle, a, k, p)
  <2> DEFINE document == EntryOr(bundle.discovery_documents, a, None)
             delegate == Delegate(bundle.delegated_documents, a, p)
  <2>1. CASE document = None
    <3>1. ResolveSignerBinding(bundle, a, k, p).result = "MissingAuthorityDiscoveryDocument"
      BY <2>1 DEF ResolveSignerBinding, Failed, Answer
    <3> QED BY <3>1 DEF Missing
  <2>2. CASE document # None /\ p # None /\ document.delegation # None /\ delegate = None
    <3>1. ResolveSignerBinding(bundle, a, k, p).result = "MissingDelegatedPrincipalDocument"
      BY <2>2 DEF ResolveSignerBinding, Failed, Answer
    <3> QED BY <3>1 DEF Missing
  <2>3. CASE document # None /\ (p = None \/ document.delegation = None)
    <3>1. EntryOr(bundle'.discovery_documents, a, None) = document
      BY <1>1, <2>3
    <3> QED BY <2>3, <3>1 DEF ResolveSignerBinding
  <2>4. CASE document # None /\ delegate # None
    <3>1. /\ EntryOr(bundle'.discovery_documents, a, None) = document
          /\ Delegate(bundle'.delegated_documents, a, p) = delegate
      BY <1>1, <2>4
    <3> QED BY <3>1 DEF ResolveSignerBinding
  <2> QED BY <2>1, <2>2, <2>3, <2>4
<1>3. ASSUME NEW g
      PROVE  \/ Missing(ResolveRevocationRecord(bundle, g))
             \/ ResolveRevocationRecord(bundle', g) = ResolveRevocationRecord(bundle, g)
  <2>1. CASE EntryOr(bundle.revocation_proofs, g, None) = None
    <3>1. ResolveRevocationRecord(bundle, g).result = "MissingRevocationProof"
      BY <2>1 DEF ResolveRevocationRecord, Failed, Answer
    <3> QED BY <3>1 DEF Missing
  <2>2. CASE EntryOr(bundle.revocation_proofs, g, None) # None
    BY <1>1, <2>2 DEF ResolveRevocationRecord
  <2> QED BY <2>1, <2>2
<1>4. ASSUME NEW g \in DOMAIN bundle.ownership_transition_chains
      PROVE  ResolveOwnershipTransitionChain(bundle', g) = ResolveOwnershipTransitionChain(bundle, g)
  <2> DEFINE map == bundle.ownership_transition_chains
             later == bundle'.ownership_transition_chains
  <2>1. map[g] # None
    BY DEF BundleOK
  <2>2. EntryOr(map, g, None) = map[g] /\ EntryOr(map, g, <<>>) = map[g]
    BY DEF EntryOr
  <2>3. EntryOr(later, g, None) = map[g]
    BY <1>1, <2>1, <2>2
  <2>4. EntryOr(later, g, <<>>) = map[g]
    BY <2>1, <2>3 DEF EntryOr
  <2> QED BY <2>2, <2>4 DEF ResolveOwnershipTransitionChain
<1> QED BY <1>2, <1>3, <1>4 DEF SameAnswers

-----------------------------------------------------------------------------
LEMMA NextBundle == BundleOK /\ [Next]_bundle => BundleOK' /\ [SameAnswers]_bundle
<1> SUFFICES ASSUME BundleOK, [Next]_bundle PROVE BundleOK' /\ [SameAnswers]_bundle
  OBVIOUS
<1>1. CASE bundle' = bundle
  BY <1>1 DEF BundleOK, WithinLimits
<1>2. ASSUME NEW offer \in Offers, Offer(offer), bundle' # bundle
      PROVE  BundleOK' /\ SameAnswers
  <2>1. Accepts(bundle, offer) /\ bundle' = Put(bundle, offer)
    BY <1>2 DEF Offer, After
  <2> QED BY <2>1, AcceptedKeepsLimits, AcceptedKeepsAnswers
<1> QED BY <1>1, <1>2 DEF Next

LEMMA BundleAlwaysOK == Spec => []BundleOK
  BY InitBundle, NextBundle, PTL DEF Spec

(***************************************************************************)
(* bundle.rs checks a limit before each insertion, for delegated documents *)
(* over three nested maps: no sequence of offers exceeds any of them, and  *)
(* no refused offer leaves an empty map behind.                            *)
(***************************************************************************)
THEOREM LimitsHold == Spec => []WithinLimits
<1>1. BundleOK => WithinLimits
  BY DEF BundleOK
<1> QED BY <1>1, BundleAlwaysOK, PTL

(***************************************************************************)
(* bundle.rs refuses to replace an entry: what a bundle once answered as a *)
(* discovery, revocation or transition source it answers ever after.       *)
(***************************************************************************)
THEOREM AnswersAlwaysStand == Spec => AnswersStand
  BY NextBundle, BundleAlwaysOK, PTL DEF Spec, AnswersStand

-----------------------------------------------------------------------------
(* Lists of keys, one by one.                                              *)

LEMMA LeastElement ==
  ASSUME NEW S \in SUBSET Nat, S # {}
  PROVE  \E i \in S : \A j \in S : i <= j
<1> DEFINE R == {s \in Nat \X Nat : s[1] < s[2]}
<1>1. IsWellFoundedOn(R, Nat)
  BY NatLessThanWellFounded DEF OpToRel
<1>2. S \subseteq Nat
  OBVIOUS
<1>3. \A x \in S, y \in S : <<y, x>> \notin R => x <= y
  OBVIOUS
<1> HIDE DEF R
<1>4. \E x \in S : \A y \in S : ~ (<<y, x>> \in R)
  BY <1>1, <1>2, WFMin
<1> QED BY <1>3, <1>4

LEMMA Induction ==
  ASSUME NEW b \in Nat, NEW S, 0 \in S, \A i \in 0 .. b : i < b /\ i \in S => i + 1 \in S
  PROVE  0 .. b \subseteq S
<1> DEFINE bad == {i \in 0 .. b : i \notin S}
<1> SUFFICES ASSUME bad # {} PROVE FALSE
  OBVIOUS
<1>1. bad \in SUBSET Nat
  OBVIOUS
<1>2. PICK i \in bad : \A j \in bad : i <= j
  BY <1>1, LeastElement
<1>3. i # 0 /\ i \in 0 .. b
  BY <1>2
<1>4. i - 1 \in 0 .. b /\ i - 1 < b /\ ~(i <= i - 1)
  BY <1>3
<1>5. i - 1 \in S
  BY <1>2, <1>4
<1>6. (i - 1) + 1 \in S
  BY <1>4, <1>5
<1>7. (i - 1) + 1 = i
  BY <1>3
<1> QED BY <1>2, <1>6, <1>7

\* Going through the keys one by one.
Keeps(raws, m, f) ==
  f = [n \in 0 .. m |->
         IF n = 0 THEN <<>>
         ELSE IF raws[n].revoked THEN f[n - 1] ELSE Append(f[n - 1], raws[n])]

LEMMA KeepsValues ==
  ASSUME NEW raws, NEW m \in Nat, NEW f, Keeps(raws, m, f)
  PROVE  /\ f[0] = <<>>
         /\ \A n \in 0 .. m : n < m =>
              f[n + 1] = IF raws[n + 1].revoked THEN f[n] ELSE Append(f[n], raws[n + 1])
<1>1. f = [n \in 0 .. m |->
             IF n = 0 THEN <<>>
             ELSE IF raws[n].revoked THEN f[n - 1] ELSE Append(f[n - 1], raws[n])]
  BY DEF Keeps
<1>2. \A n \in 0 .. m : f[n] = IF n = 0 THEN <<>>
                               ELSE IF raws[n].revoked THEN f[n - 1] ELSE Append(f[n - 1], raws[n])
  BY <1>1
<1>3. ASSUME NEW n \in 0 .. m, n < m PROVE n + 1 \in 0 .. m /\ n + 1 # 0 /\ (n + 1) - 1 = n
  BY <1>3
<1> QED BY <1>2, <1>3

LEMMA KeepsGrows ==
  ASSUME NEW raws, NEW m \in Nat, NEW f, Keeps(raws, m, f)
  PROVE  \E g : Keeps(raws, m + 1, g)
<1> DEFINE last == IF raws[m + 1].revoked THEN f[m] ELSE Append(f[m], raws[m + 1])
           g == [n \in 0 .. m + 1 |-> IF n <= m THEN f[n] ELSE last]
           h == [n \in 0 .. m + 1 |->
                   IF n = 0 THEN <<>>
                   ELSE IF raws[n].revoked THEN g[n - 1] ELSE Append(g[n - 1], raws[n])]
<1>1. /\ f[0] = <<>>
      /\ \A n \in 0 .. m : n < m =>
           f[n + 1] = IF raws[n + 1].revoked THEN f[n] ELSE Append(f[n], raws[n + 1])
  BY KeepsValues
<1>2. \A n \in 0 .. m : g[n] = f[n]
  OBVIOUS
<1>3. ASSUME NEW n \in 0 .. m + 1 PROVE g[n] = h[n]
  <2>1. CASE n = 0
    BY <1>1, <2>1
  <2>2. CASE n \in 1 .. m
    <3>1. n - 1 \in 0 .. m /\ n - 1 < m /\ (n - 1) + 1 = n /\ n <= m /\ n # 0 /\ n \in 0 .. m
      BY <2>2
    <3>2. f[n] = IF raws[n].revoked THEN f[n - 1] ELSE Append(f[n - 1], raws[n])
      BY <1>1, <3>1
    <3>3. g[n] = f[n] /\ g[n - 1] = f[n - 1]
      BY <1>2, <3>1
    <3>4. h[n] = IF raws[n].revoked THEN g[n - 1] ELSE Append(g[n - 1], raws[n])
      BY <3>1
    <3> HIDE DEF g, h
    <3> QED BY <3>2, <3>3, <3>4
  <2>3. CASE n = m + 1
    <3>1. m \in 0 .. m /\ n - 1 = m /\ ~(n <= m) /\ n # 0
      BY <2>3
    <3>2. g[n] = last
      BY <3>1
    <3>3. h[n] = IF raws[n].revoked THEN g[m] ELSE Append(g[m], raws[n])
      BY <3>1
    <3>4. g[m] = f[m]
      BY <1>2, <3>1
    <3> HIDE DEF g, h
    <3> QED BY <2>3, <3>2, <3>3, <3>4
  <2> QED BY <2>1, <2>2, <2>3
<1>4. g = [n \in 0 .. m + 1 |-> g[n]] /\ h = [n \in 0 .. m + 1 |-> h[n]]
  OBVIOUS
<1>5. h = [n \in 0 .. m + 1 |->
             IF n = 0 THEN <<>>
             ELSE IF raws[n].revoked THEN g[n - 1] ELSE Append(g[n - 1], raws[n])]
  OBVIOUS
<1> HIDE DEF g, h
<1>6. g = h
  BY <1>3, <1>4
<1>7. Keeps(raws, m + 1, g)
  BY <1>5, <1>6 DEF Keeps
<1> QED BY <1>7

LEMMA KeepsExists ==
  ASSUME NEW raws, NEW m \in Nat
  PROVE  \E f : Keeps(raws, m, f)
<1> DEFINE S == {i \in 0 .. m : \E f : Keeps(raws, i, f)}
<1>1. 0 \in S
  <2> DEFINE f == [n \in 0 .. 0 |-> <<>>]
  <2>1. f = [n \in 0 .. 0 |->
               IF n = 0 THEN <<>>
               ELSE IF raws[n].revoked THEN f[n - 1] ELSE Append(f[n - 1], raws[n])]
    OBVIOUS
  <2>2. Keeps(raws, 0, f)
    BY <2>1 DEF Keeps
  <2> QED BY <2>2
<1>2. ASSUME NEW i \in 0 .. m, i < m, i \in S PROVE i + 1 \in S
  <2>1. PICK f : Keeps(raws, i, f)
    BY <1>2
  <2>2. \E g : Keeps(raws, i + 1, g)
    BY <2>1, KeepsGrows
  <2> QED BY <1>2, <2>2
<1>3. \A i \in 0 .. m : i < m /\ i \in S => i + 1 \in S
  BY <1>2
<1> HIDE DEF S
<1>4. 0 .. m \subseteq S
  BY <1>1, <1>3, Induction
<1> QED BY <1>4 DEF S

\* What is left of a list of keys are keys of it that are not revoked.
LEMMA LiveKeysAreLeft ==
  ASSUME NEW S, NEW raws \in Seq(S)
  PROVE  WithoutRevoked(raws)
           \in Seq({raw \in S : ~raw.revoked /\ \E i \in DOMAIN raws : raw = raws[i]})
<1> DEFINE kept == CHOOSE f : f = [n \in 0 .. Len(raws) |->
                     IF n = 0 THEN <<>>
                     ELSE IF raws[n].revoked THEN f[n - 1] ELSE Append(f[n - 1], raws[n])]
           Live == {raw \in S : ~raw.revoked /\ \E i \in DOMAIN raws : raw = raws[i]}
           m    == Len(raws)
           Good == {i \in 0 .. m : kept[i] \in Seq(Live)}
<1>1. WithoutRevoked(raws) = kept[m]
  BY DEF WithoutRevoked
<1>2. m \in Nat /\ DOMAIN raws = 1 .. m /\ \A i \in 1 .. m : raws[i] \in S
  OBVIOUS
<1>3. Keeps(raws, m, kept)
  <2>1. \E f : Keeps(raws, m, f)
    BY <1>2, KeepsExists
  <2> QED BY <2>1 DEF Keeps
<1> HIDE DEF kept, m
<1>4. /\ kept[0] = <<>>
      /\ \A n \in 0 .. m : n < m =>
           kept[n + 1] = IF raws[n + 1].revoked THEN kept[n] ELSE Append(kept[n], raws[n + 1])
  BY <1>2, <1>3, KeepsValues
<1>5. 0 \in Good
  <2>1. 0 \in 0 .. m
    BY <1>2
  <2> HIDE DEF Live
  <2>2. <<>> \in Seq(Live)
    OBVIOUS
  <2> QED BY <1>4, <2>1, <2>2
<1>6. ASSUME NEW i \in 0 .. m, i < m, i \in Good PROVE i + 1 \in Good
  <2>1. i + 1 \in 1 .. m /\ i + 1 \in 0 .. m
    BY <1>2, <1>6
  <2>2. CASE raws[i + 1].revoked
    BY <1>4, <1>6, <2>1, <2>2
  <2>3. CASE ~raws[i + 1].revoked
    <3>1. raws[i + 1] \in Live
      BY <1>2, <2>1, <2>3
    <3>2. kept[i] \in Seq(Live)
      BY <1>6
    <3> HIDE DEF Live
    <3>3. Append(kept[i], raws[i + 1]) \in Seq(Live)
      BY <3>1, <3>2
    <3>4. kept[i + 1] = Append(kept[i], raws[i + 1])
      BY <1>4, <1>6, <2>3
    <3> QED BY <2>1, <3>3, <3>4
  <2> QED BY <2>2, <2>3
<1>7. \A i \in 0 .. m : i < m /\ i \in Good => i + 1 \in Good
  BY <1>6
<1>8. 0 .. m \subseteq Good
  <2> HIDE DEF Good
  <2> QED BY <1>2, <1>5, <1>7, Induction
<1>9. m \in 0 .. m
  BY <1>2
<1> QED BY <1>1, <1>8, <1>9
-----------------------------------------------------------------------------
(* Documents that are kept, and what is looked up in them.                 *)

LEMMA FirstErrorOk ==
  ASSUME NEW results, DOMAIN results \in SUBSET Nat, FirstError(results) = "Ok",
         NEW i \in DOMAIN results
  PROVE  results[i] = "Ok"
<1> DEFINE bad == {j \in DOMAIN results : results[j] # "Ok"}
<1> SUFFICES ASSUME bad # {} PROVE FALSE
  OBVIOUS
<1>1. \E n \in bad : \A j \in bad : n <= j
  <2>1. bad \in SUBSET Nat
    OBVIOUS
  <2> HIDE DEF bad
  <2> QED BY <2>1, LeastElement
<1>2. FirstError(results) = results[CHOOSE n \in bad : \A j \in bad : n <= j]
  BY DEF FirstError
<1>3. (CHOOSE n \in bad : \A j \in bad : n <= j) \in bad
  BY <1>1
<1> QED BY <1>2, <1>3

\* No id is published twice.
UniqueIds(keys) ==
  /\ DOMAIN keys \in SUBSET Nat
  /\ \A i, j \in DOMAIN keys : keys[i].key_id = keys[j].key_id => i = j

LEMMA KeysAreUnique ==
  ASSUME NEW S, NEW raws \in Seq(S), KeysResult(raws) = "Ok"
  PROVE  UniqueIds(KeyRecords(raws))
<1> DEFINE keys == KeyRecords(raws)
<1>1. DOMAIN keys = DOMAIN raws /\ \A i \in DOMAIN raws : keys[i].key_id = Trim[raws[i].key_id]
  BY DEF KeyRecords, KeyRecord
<1>2. \A i \in DOMAIN raws : i \in Nat /\ i > 0
  OBVIOUS
<1>3. \A i \in DOMAIN raws : ~RepeatsKeyId(raws, i)
  <2> DEFINE bad == {i \in DOMAIN raws : KeyResult(raws[i]) # "Ok" \/ RepeatsKeyId(raws, i)}
             first == CHOOSE i \in bad : \A j \in bad : i <= j
  <2> SUFFICES ASSUME bad # {} PROVE FALSE
    OBVIOUS
  <2>1. KeysResult(raws) = IF KeyResult(raws[first]) # "Ok" THEN KeyResult(raws[first])
                           ELSE "DuplicateKeyId"
    BY DEF KeysResult
  <2> QED BY <2>1
<1>4. ASSUME NEW i \in DOMAIN raws, NEW j \in DOMAIN raws, i < j
      PROVE  Trim[raws[i].key_id] # Trim[raws[j].key_id]
  <2>1. i \in 1 .. j - 1
    BY <1>2, <1>4
  <2> QED BY <1>3, <2>1 DEF RepeatsKeyId
<1>5. ASSUME NEW i \in DOMAIN raws, NEW j \in DOMAIN raws, i # j
      PROVE  Trim[raws[i].key_id] # Trim[raws[j].key_id]
  <2>1. i < j \/ j < i
    BY <1>2, <1>5
  <2> QED BY <1>4, <2>1
<1>6. \A i, j \in DOMAIN keys : keys[i].key_id = keys[j].key_id => i = j
  <2> HIDE DEF keys
  <2> QED BY <1>1, <1>5
<1> QED BY <1>1, <1>2, <1>6 DEF UniqueIds

\* Where ids are unique, the record that is found is the one there is.
LEMMA LookupFacts ==
  ASSUME NEW document, UniqueIds(document.keys), NEW k, NEW profile, NEW p
  PROVE  LET answer == Binding(document, k, profile, p)
         IN  /\ answer.result # "Ok" => ~\E i \in DOMAIN document.keys : document.keys[i].key_id = k
             /\ answer.result = "Ok" =>
                  /\ answer.binding.issuer_authority = document.authority_id
                  /\ answer.binding.principal = p
                  /\ answer.binding.key_record.key_id = k
                  /\ \E i \in DOMAIN document.keys : document.keys[i] = answer.binding.key_record
                  /\ \A i \in DOMAIN document.keys :
                       document.keys[i].key_id = k => document.keys[i] = answer.binding.key_record
<1> DEFINE found  == {i \in DOMAIN document.keys : document.keys[i].key_id = k}
           first  == CHOOSE i \in found : \A j \in found : i <= j
           answer == Binding(document, k, profile, p)
<1>1. CASE found = {}
  BY <1>1 DEF Binding, Failed, Answer
<1>2. CASE found # {}
  <2>1. PICK i \in found : TRUE
    BY <1>2
  <2>2. \A j \in found : j = i /\ j \in Nat
    BY <2>1 DEF UniqueIds
  <2>3. i <= i
    BY <2>2
  <2>4. first \in found
    BY <2>1, <2>2, <2>3
  <2>5. first = i
    BY <2>2, <2>4
  <2>6. answer = Answer("Ok", [issuer_authority |-> document.authority_id,
                               key_record |-> document.keys[first],
                               profile |-> profile, principal |-> p])
    BY <1>2 DEF Binding
  <2>7. /\ answer.result = "Ok" /\ answer.binding.issuer_authority = document.authority_id
        /\ answer.binding.principal = p /\ answer.binding.key_record = document.keys[i]
    <3> HIDE DEF first
    <3> QED BY <2>5, <2>6 DEF Answer
  <2> HIDE DEF answer
  <2> QED BY <2>1, <2>2, <2>7 DEF answer
<1> QED BY <1>1, <1>2

\* A document that is kept was published, and parsed.
RootSource(document, a) ==
  \E raw \in RawDocuments :
    /\ AuthorityDocumentResult(raw) = "Ok"
    /\ document = AuthorityDocument(raw) /\ a = AuthorityOf(raw.authority_id)

DelegateSource(document, a, k, i) ==
  \E raw \in RawDelegated :
    /\ DelegatedDocumentResult(raw) = "Ok"
    /\ document = DelegatedDocument(raw) /\ a = AuthorityOf(raw.authority_id)
    /\ k = Trim[raw.principal.kind] /\ i = Trim[raw.principal.id]

\* A key record of an authority, of a principal of its.
RootPublished(a, record) ==
  \E raw \in RawDocuments :
    /\ AuthorityOf(raw.authority_id) = a
    /\ \E i \in DOMAIN raw.keys : KeyRecord(raw.keys[i]) = record

LivePublished(a, p, record) ==
  \E raw \in RawDelegated :
    /\ AuthorityOf(raw.authority_id) = a
    /\ p = [kind |-> Trim[raw.principal.kind], id |-> Trim[raw.principal.id]]
    /\ \E i \in DOMAIN raw.keys : KeyRecord(raw.keys[i]) = record /\ ~raw.keys[i].revoked

LEMMA RootFacts ==
  ASSUME NEW document, NEW a, RootSource(document, a)
  PROVE  /\ document # None /\ document.authority_id = a /\ UniqueIds(document.keys)
         /\ \A n \in DOMAIN document.keys : RootPublished(a, document.keys[n])
<1>1. PICK raw \in RawDocuments :
        /\ AuthorityDocumentResult(raw) = "Ok"
        /\ document = AuthorityDocument(raw) /\ a = AuthorityOf(raw.authority_id)
  BY DEF RootSource
<1>2. document # None
  <2> DEFINE offer == [part |-> "discovery", raw |-> raw]
  <2>1. offer \in Offers /\ ParseResult(offer) = "Ok" /\ Entry(offer) = document
    BY <1>1 DEF Offers, ParseResult, Entry
  <2> QED BY <2>1, EntriesAssumption
<1>3. document.authority_id = a /\ document.keys = KeyRecords(raw.keys)
  BY <1>1 DEF AuthorityDocument
<1>4. KeysResult(raw.keys) = "Ok"
  <2> DEFINE results ==
        <<IF Len(raw.keys) > MaxDiscoveryKeys THEN "CollectionLimitExceeded" ELSE "Ok",
          IF raw.keys = <<>> THEN "InvalidDiscoveryDocument" ELSE "Ok",
          AuthorityResult(raw.authority_id),
          KeysResult(raw.keys),
          TokenResult(raw.profile),
          PolicyResult(raw.policy),
          IF raw.endpoints > MaxEndpoints THEN "CollectionLimitExceeded" ELSE "Ok",
          IF raw.delegation = "Unsupported" THEN "InvalidDiscoveryDocument" ELSE "Ok">>
  <2>1. FirstError(results) = "Ok"
    BY <1>1 DEF AuthorityDocumentResult
  <2>2. DOMAIN results \in SUBSET Nat /\ 4 \in DOMAIN results /\ results[4] = KeysResult(raw.keys)
    OBVIOUS
  <2> HIDE DEF results
  <2> QED BY <2>1, <2>2, FirstErrorOk
<1>5. raw.keys \in Seq({raw.keys[i] : i \in DOMAIN raw.keys})
  BY EntriesAssumption
<1>6. UniqueIds(document.keys)
  BY <1>3, <1>4, <1>5, KeysAreUnique
<1>7. ASSUME NEW n \in DOMAIN document.keys
      PROVE  n \in DOMAIN raw.keys /\ KeyRecord(raw.keys[n]) = document.keys[n]
  BY <1>3 DEF KeyRecords
<1> QED BY <1>1, <1>2, <1>3, <1>6, <1>7 DEF RootPublished

LEMMA DelegateFacts ==
  ASSUME NEW document, NEW a, NEW k, NEW i, DelegateSource(document, a, k, i)
  PROVE  /\ document # None /\ document.authority_id = a /\ UniqueIds(document.keys)
         /\ document.principal = [kind |-> k, id |-> i] /\ document.principal # None
         /\ \A n \in DOMAIN document.keys : LivePublished(a, document.principal, document.keys[n])
<1>1. PICK raw \in RawDelegated :
        /\ DelegatedDocumentResult(raw) = "Ok"
        /\ document = DelegatedDocument(raw) /\ a = AuthorityOf(raw.authority_id)
        /\ k = Trim[raw.principal.kind] /\ i = Trim[raw.principal.id]
  BY DEF DelegateSource
<1> DEFINE live == WithoutRevoked(raw.keys)
           Keys == {raw.keys[j] : j \in DOMAIN raw.keys}
           Live == {key \in Keys : ~key.revoked /\ \E j \in DOMAIN raw.keys : key = raw.keys[j]}
<1>2. document # None
  <2> DEFINE offer == [part |-> "delegated", raw |-> raw]
  <2>1. offer \in Offers /\ ParseResult(offer) = "Ok" /\ Entry(offer) = document
    BY <1>1 DEF Offers, ParseResult, Entry
  <2> QED BY <2>1, EntriesAssumption
<1>3. /\ document.authority_id = a /\ document.keys = KeyRecords(live)
      /\ document.principal = [kind |-> k, id |-> i]
  BY <1>1 DEF DelegatedDocument
<1>4. KeysResult(live) = "Ok"
  <2> DEFINE results ==
        <<IF Len(raw.keys) > MaxDiscoveryKeys THEN "CollectionLimitExceeded" ELSE "Ok",
          AuthorityResult(raw.authority_id),
          TokenResult(raw.principal.kind),
          TokenResult(raw.principal.id),
          KeysResult(live)>>
  <2>1. FirstError(results) = "Ok"
    BY <1>1 DEF DelegatedDocumentResult
  <2>2. DOMAIN results \in SUBSET Nat /\ 5 \in DOMAIN results /\ results[5] = KeysResult(live)
    OBVIOUS
  <2> HIDE DEF results
  <2> QED BY <2>1, <2>2, FirstErrorOk
<1>5. raw.keys \in Seq(Keys)
  BY EntriesAssumption
<1>6. live \in Seq(Live)
  <2> HIDE DEF Keys
  <2> QED BY <1>5, LiveKeysAreLeft
<1>7. UniqueIds(document.keys)
  <2> HIDE DEF Live, live
  <2> QED BY <1>3, <1>4, <1>6, KeysAreUnique
<1>8. ASSUME NEW n \in DOMAIN document.keys
      PROVE  \E j \in DOMAIN raw.keys :
               KeyRecord(raw.keys[j]) = document.keys[n] /\ ~raw.keys[j].revoked
  <2>1. n \in DOMAIN live /\ document.keys[n] = KeyRecord(live[n])
    BY <1>3 DEF KeyRecords
  <2>2. live[n] \in Live
    <3> HIDE DEF Live, live
    <3> QED BY <1>6, <2>1
  <2>3. PICK j \in DOMAIN raw.keys : live[n] = raw.keys[j] /\ ~live[n].revoked
    BY <2>2
  <2> QED BY <2>1, <2>3
<1>9. document.principal # None
  BY <1>1, EntriesAssumption
<1>10. \A n \in DOMAIN document.keys : LivePublished(a, document.principal, document.keys[n])
  BY <1>1, <1>3, <1>8 DEF LivePublished
<1> QED BY <1>2, <1>3, <1>7, <1>9, <1>10

Sourced ==
  /\ \A a \in DOMAIN bundle.discovery_documents : RootSource(bundle.discovery_documents[a], a)
  /\ \A a, k, i : InDelegated(bundle.delegated_documents, a, k, i) =>
       DelegateSource(bundle.delegated_documents[a][k][i], a, k, i)


LEMMA DelegateIsEntry ==
  ASSUME NEW map, NEW a, NEW k, NEW i, NEW p, p.kind = k, p.id = i
  PROVE  /\ InDelegated(map, a, k, i) => Delegate(map, a, p) = map[a][k][i]
         /\ ~InDelegated(map, a, k, i) => Delegate(map, a, p) = None
<1> DEFINE kinds == EntryOr(map, a, EmptyMap)
           ids   == EntryOr(kinds, k, EmptyMap)
<1>1. Delegate(map, a, p) = EntryOr(ids, i, None)
  BY DEF Delegate
<1>2. DOMAIN EmptyMap = {}
  BY DEF EmptyMap
<1> HIDE DEF kinds, ids
<1>3. CASE a \in DOMAIN map
  <2>1. kinds = map[a]
    BY <1>3 DEF kinds, EntryOr
  <2>2. CASE k \in DOMAIN kinds
    <3>1. ids = kinds[k]
      BY <2>2 DEF ids, EntryOr
    <3> QED BY <1>1, <1>3, <2>1, <2>2, <3>1 DEF EntryOr, InDelegated
  <2>3. CASE k \notin DOMAIN kinds
    <3>1. ids = EmptyMap
      BY <2>3 DEF ids, EntryOr
    <3> QED BY <1>1, <1>2, <1>3, <2>1, <2>3, <3>1 DEF EntryOr, InDelegated
  <2> QED BY <2>2, <2>3
<1>4. CASE a \notin DOMAIN map
  <2>1. kinds = EmptyMap
    BY <1>4 DEF kinds, EntryOr
  <2>2. ids = EmptyMap
    BY <1>2, <2>1 DEF ids, EntryOr
  <2> QED BY <1>1, <1>2, <1>4, <2>2 DEF EntryOr, InDelegated
<1> QED BY <1>3, <1>4

LEMMA InitSourced == Init => Sourced
  BY DEF Init, Sourced, EmptyBundle, EmptyMap, InDelegated

LEMMA AcceptedIsSourced ==
  ASSUME BundleOK, Sourced, NEW offer \in Offers, Accepts(bundle, offer),
         bundle' = Put(bundle, offer)
  PROVE  Sourced'
<1>0. ParseResult(offer) = "Ok"
  BY AcceptedFacts
<1>1. DOMAIN bundle = {"discovery_documents", "delegated_documents", "revocation_proofs",
                       "ownership_transition_chains"}
  BY DEF BundleOK
<1>2. CASE offer.part = "discovery"
  <2> DEFINE map == bundle.discovery_documents
             key == Entry(offer).authority_id
             new == bundle'.discovery_documents
  <2>1. /\ new = With(map, key, Entry(offer))
        /\ bundle'.delegated_documents = bundle.delegated_documents
    BY <1>1, <1>2, PutFacts
  <2>2. offer.raw \in RawDocuments
    BY <1>2 DEF Offers
  <2>3. RootSource(Entry(offer), key)
    BY <1>0, <1>2, <2>2 DEF RootSource, ParseResult, Entry, AuthorityDocument
  <2>4. /\ DOMAIN new = DOMAIN map \cup {key} /\ new[key] = Entry(offer)
        /\ \A a \in DOMAIN map : a # key => new[a] = map[a]
    <3> HIDE DEF map, key, new
    <3>1. DOMAIN new = DOMAIN map \cup {key}
      BY <2>1, WithDomain
    <3>2. new[key] = Entry(offer)
      BY <2>1, WithKey
    <3>3. \A a \in DOMAIN map : a # key => new[a] = map[a]
      BY <2>1, WithOthers
    <3> QED BY <3>1, <3>2, <3>3
  <2>5. \A a \in DOMAIN new : RootSource(new[a], a)
    <3>1. \A a \in DOMAIN map : RootSource(map[a], a)
      BY DEF Sourced
    <3> HIDE DEF map, key, new
    <3> QED BY <2>3, <2>4, <3>1
  <2> QED BY <2>1, <2>5 DEF Sourced
<1>3. CASE offer.part = "delegated"
  <2> DEFINE map == bundle.delegated_documents
             new == bundle'.delegated_documents
             document == Entry(offer)
             A == document.authority_id
             K == document.principal.kind
             I == document.principal.id
  <2>1. /\ new = WithDelegate(map, document)
        /\ bundle'.discovery_documents = bundle.discovery_documents
    BY <1>1, <1>3, PutFacts
  <2>2. offer.raw \in RawDelegated
    BY <1>3 DEF Offers
  <2>3. DelegateSource(document, A, K, I)
    BY <1>0, <1>3, <2>2 DEF DelegateSource, ParseResult, Entry, DelegatedDocument
  <2>4. ASSUME NEW a, NEW k, NEW i, InDelegated(new, a, k, i)
        PROVE  DelegateSource(new[a][k][i], a, k, i)
    <3> DEFINE p == [kind |-> k, id |-> i]
    <3>1. <<a, k, i>> \in Delegates(new)
      BY <2>4, DelegatesAreEntries
    <3>2. Delegate(new, a, p) = new[a][k][i] /\ p.kind = k /\ p.id = i
      <4>1. p.kind = k /\ p.id = i
        OBVIOUS
      <4> HIDE DEF new, p
      <4> QED BY <2>4, <4>1, DelegateIsEntry
    <3> HIDE DEF new, map, document, A, K, I, p
    <3>3. /\ Delegates(new) = Delegates(map) \cup {<<A, K, I>>}
          /\ Delegate(new, a, p) = IF a = A /\ p.kind = K /\ p.id = I THEN document
                                   ELSE Delegate(map, a, p)
      BY <2>1, WithDelegateEntries DEF A, K, I
    <3>4. CASE a = A /\ k = K /\ i = I
      BY <2>3, <3>2, <3>3, <3>4
    <3>5. CASE ~(a = A /\ k = K /\ i = I)
      <4>1. <<a, k, i>> \in Delegates(map)
        BY <3>1, <3>3, <3>5
      <4>2. InDelegated(map, a, k, i)
        <5>1. \E b, l, j : InDelegated(map, b, l, j) /\ <<a, k, i>> = <<b, l, j>>
          BY <4>1, DelegatesAreEntries
        <5> QED BY <5>1
      <4>3. Delegate(map, a, p) = map[a][k][i]
        BY <3>2, <4>2, DelegateIsEntry
      <4>4. DelegateSource(map[a][k][i], a, k, i)
        BY <4>2 DEF Sourced, map
      <4> QED BY <3>2, <3>3, <3>5, <4>3, <4>4
    <3> QED BY <3>4, <3>5
  <2> QED BY <2>1, <2>4 DEF Sourced
<1>4. CASE offer.part \in {"proof", "chain"}
  <2>1. /\ bundle'.discovery_documents = bundle.discovery_documents
        /\ bundle'.delegated_documents = bundle.delegated_documents
    BY <1>1, <1>4, PutFacts
  <2> QED BY <2>1 DEF Sourced
<1> QED BY <1>2, <1>3, <1>4, PartOfOffer

LEMMA BundleAlwaysSourced == Spec => []Sourced
<1>1. BundleOK /\ Sourced /\ [Next]_bundle => Sourced'
  <2> SUFFICES ASSUME BundleOK, Sourced, [Next]_bundle PROVE Sourced'
    OBVIOUS
  <2>1. CASE bundle' = bundle
    BY <2>1 DEF Sourced
  <2>2. ASSUME NEW offer \in Offers, Offer(offer), bundle' # bundle
        PROVE  Sourced'
    <3>1. Accepts(bundle, offer) /\ bundle' = Put(bundle, offer)
      BY <2>2 DEF Offer, After
    <3> QED BY <3>1, AcceptedIsSourced
  <2> QED BY <2>1, <2>2 DEF Next
<1> QED BY <1>1, InitSourced, BundleAlwaysOK, PTL DEF Spec

\* What a resolution amounts to when what is kept was published.
LEMMA RootAnswers ==
  ASSUME Sourced, NEW a, NEW k
  PROVE  LET answer == ResolveSignerBinding(bundle, a, k, None)
             document == bundle.discovery_documents[a]
         IN  IF a \in DOMAIN bundle.discovery_documents
             THEN RootSource(document, a) /\ answer = Binding(document, k, document.profile, None)
             ELSE answer.result # "Ok"
<1> DEFINE document == bundle.discovery_documents[a]
<1>1. CASE a \in DOMAIN bundle.discovery_documents
  <2>1. RootSource(document, a)
    BY <1>1 DEF Sourced
  <2>2. document # None /\ document.authority_id = a
    BY <2>1, RootFacts
  <2>3. EntryOr(bundle.discovery_documents, a, None) = document
    BY <1>1 DEF EntryOr
  <2> QED BY <1>1, <2>1, <2>2, <2>3 DEF ResolveSignerBinding, ResolveRootSignerBinding
<1>2. CASE a \notin DOMAIN bundle.discovery_documents
  <2>1. EntryOr(bundle.discovery_documents, a, None) = None
    BY <1>2 DEF EntryOr
  <2> QED BY <1>2, <2>1 DEF ResolveSignerBinding, Failed, Answer
<1> QED BY <1>1, <1>2

LEMMA DelegateAnswers ==
  ASSUME Sourced, NEW a, NEW k, NEW p, p # None, p = [kind |-> p.kind, id |-> p.id]
  PROVE  LET answer == ResolveSignerBinding(bundle, a, k, p)
             document == bundle.discovery_documents[a]
             delegate == bundle.delegated_documents[a][p.kind][p.id]
         IN  IF /\ a \in DOMAIN bundle.discovery_documents /\ document.delegation # None
                /\ InDelegated(bundle.delegated_documents, a, p.kind, p.id)
             THEN /\ DelegateSource(delegate, a, p.kind, p.id) /\ delegate.principal = p
                  /\ answer = Binding(delegate, k, document.profile, p)
             ELSE answer.result # "Ok"
<1> DEFINE answer == ResolveSignerBinding(bundle, a, k, p)
           document == bundle.discovery_documents[a]
           delegate == bundle.delegated_documents[a][p.kind][p.id]
<1>1. CASE a \notin DOMAIN bundle.discovery_documents
  <2>1. EntryOr(bundle.discovery_documents, a, None) = None
    BY <1>1 DEF EntryOr
  <2> QED BY <1>1, <2>1 DEF ResolveSignerBinding, Failed, Answer
<1>2. CASE a \in DOMAIN bundle.discovery_documents
  <2>1. RootSource(document, a)
    BY <1>2 DEF Sourced
  <2>2. document # None
    BY <2>1, RootFacts
  <2>3. EntryOr(bundle.discovery_documents, a, None) = document
    BY <1>2 DEF EntryOr
  <2>4. CASE document.delegation = None
    BY <2>2, <2>3, <2>4 DEF ResolveSignerBinding, Failed, Answer
  <2>5. CASE document.delegation # None /\ ~InDelegated(bundle.delegated_documents, a, p.kind, p.id)
    <3>1. Delegate(bundle.delegated_documents, a, p) = None
      BY <2>5, DelegateIsEntry
    <3> QED BY <2>2, <2>3, <2>5, <3>1 DEF ResolveSignerBinding, Failed, Answer
  <2>6. CASE document.delegation # None /\ InDelegated(bundle.delegated_documents, a, p.kind, p.id)
    <3>1. Delegate(bundle.delegated_documents, a, p) = delegate
      BY <2>6, DelegateIsEntry
    <3>2. DelegateSource(delegate, a, p.kind, p.id)
      BY <2>6 DEF Sourced
    <3>3. /\ delegate # None /\ delegate.authority_id = a
          /\ delegate.principal = [kind |-> p.kind, id |-> p.id]
      BY <3>2, DelegateFacts
    <3> HIDE DEF document, delegate
    <3>4. answer = ResolveDelegatedSignerBinding(delegate, a, p, k, document.profile)
      BY <2>2, <2>3, <2>6, <3>1, <3>3 DEF ResolveSignerBinding
    <3>5. answer = Binding(delegate, k, document.profile, p)
      BY <3>3, <3>4 DEF ResolveDelegatedSignerBinding
    <3> QED BY <1>2, <2>6, <3>2, <3>3, <3>5 DEF document, delegate
  <2> QED BY <2>4, <2>5, <2>6
<1> QED BY <1>1, <1>2

LEMMA NamedPrincipals ==
  ASSUME NEW p \in Principals, p # None
  PROVE  p = [kind |-> p.kind, id |-> p.id]
<1>1. PICK raw \in RawDelegated : p = [kind |-> Trim[raw.principal.kind], id |-> Trim[raw.principal.id]]
  BY DEF Principals
<1> QED BY <1>1

(***************************************************************************)
(* A key that resolve_signer_binding of bundle.rs finds was published      *)
(* under this id by this authority, for a delegated principal unrevoked:   *)
(* whatever was offered, and in whatever order.                            *)
(***************************************************************************)
THEOREM FoundKeysAreLive == Spec => []OnlyLiveKeysAreFound
<1>1. Sourced => OnlyLiveKeysAreFound
  <2> SUFFICES ASSUME Sourced, NEW a \in Authorities, NEW k \in KeyIds, NEW p \in Principals,
                      ResolveSignerBinding(bundle, a, k, p).result = "Ok"
               PROVE  LET answer == ResolveSignerBinding(bundle, a, k, p)
                      IN  /\ answer.binding.issuer_authority = a /\ answer.binding.principal = p
                          /\ answer.binding.key_record.key_id = k
                          /\ \E raw \in IF p = None THEN RawDocuments ELSE RawDelegated :
                               /\ AuthorityOf(raw.authority_id) = a
                               /\ p # None => p = [kind |-> Trim[raw.principal.kind],
                                                   id |-> Trim[raw.principal.id]]
                               /\ \E i \in DOMAIN raw.keys :
                                    /\ KeyRecord(raw.keys[i]) = answer.binding.key_record
                                    /\ p # None => ~raw.keys[i].revoked
    BY Zenon DEF OnlyLiveKeysAreFound
  <2> DEFINE answer == ResolveSignerBinding(bundle, a, k, p)
             record == answer.binding.key_record
  <2>1. CASE p = None
    <3> DEFINE document == bundle.discovery_documents[a]
    <3>1. RootSource(document, a) /\ answer = Binding(document, k, document.profile, None)
      BY <2>1, RootAnswers
    <3> HIDE DEF answer, document
    <3>2. /\ document.authority_id = a /\ UniqueIds(document.keys)
          /\ \A n \in DOMAIN document.keys : RootPublished(a, document.keys[n])
      BY <3>1, RootFacts
    <3>3. /\ answer.binding.issuer_authority = a /\ answer.binding.principal = p
          /\ record.key_id = k /\ \E i \in DOMAIN document.keys : document.keys[i] = record
      BY <2>1, <3>1, <3>2, LookupFacts DEF answer
    <3>4. RootPublished(a, record)
      BY <3>2, <3>3
    <3> QED BY <2>1, <3>3, <3>4 DEF answer, RootPublished
  <2>2. CASE p # None
    <3> DEFINE profile == bundle.discovery_documents[a].profile
               delegate == bundle.delegated_documents[a][p.kind][p.id]
    <3>1. /\ DelegateSource(delegate, a, p.kind, p.id) /\ delegate.principal = p
          /\ answer = Binding(delegate, k, profile, p)
      BY <2>2, NamedPrincipals, DelegateAnswers
    <3> HIDE DEF answer, delegate, profile
    <3>2. /\ delegate.authority_id = a /\ UniqueIds(delegate.keys)
          /\ \A n \in DOMAIN delegate.keys : LivePublished(a, delegate.principal, delegate.keys[n])
      BY <3>1, DelegateFacts
    <3>3. /\ answer.binding.issuer_authority = a /\ answer.binding.principal = p
          /\ record.key_id = k /\ \E i \in DOMAIN delegate.keys : delegate.keys[i] = record
      BY <3>1, <3>2, LookupFacts DEF answer
    <3>4. LivePublished(a, p, record)
      BY <3>1, <3>2, <3>3
    <3> QED BY <2>2, <3>3, <3>4 DEF answer, LivePublished
  <2> QED BY <2>1, <2>2
<1> QED BY <1>1, BundleAlwaysSourced, PTL

\* The keys of one authority, in words.
LEMMA PublishedFacts ==
  ASSUME Sourced, NEW a, NEW x
  PROVE  x \in Published(a) <=>
           /\ a \in DOMAIN bundle.discovery_documents
           /\ \/ \E i \in DOMAIN bundle.discovery_documents[a].keys :
                   x = PublishedKey(bundle.discovery_documents[a].keys[i], None)
              \/ /\ bundle.discovery_documents[a].delegation # None
                 /\ \E kind, id : /\ InDelegated(bundle.delegated_documents, a, kind, id)
                                  /\ LET delegate == bundle.delegated_documents[a][kind][id]
                                     IN  \E i \in DOMAIN delegate.keys :
                                           x = PublishedKey(delegate.keys[i], delegate.principal)
<1> DEFINE map == bundle.delegated_documents
           document == bundle.discovery_documents[a]
           mine == {e \in Delegates(map) : e[1] = a}
           KeysAt(d) == LET delegate == map[d[1]][d[2]][d[3]]
                        IN  {PublishedKey(delegate.keys[i], delegate.principal) :
                               i \in DOMAIN delegate.keys}
<1>1. \A d : d \in mine <=> \E kind, id : InDelegated(map, a, kind, id) /\ d = <<a, kind, id>>
  <2> HIDE DEF map
  <2>1. \A d : d \in Delegates(map) <=> \E b, k, i : InDelegated(map, b, k, i) /\ d = <<b, k, i>>
    BY DelegatesAreEntries
  <2> QED BY <2>1
<1>2. Published(a) = IF a \notin DOMAIN bundle.discovery_documents THEN {}
                     ELSE {PublishedKey(document.keys[i], None) : i \in DOMAIN document.keys}
                          \cup IF document.delegation = None THEN {} ELSE UNION {KeysAt(d) : d \in mine}
  BY DEF Published
<1>3. x \in UNION {KeysAt(d) : d \in mine} <=>
        \E kind, id : InDelegated(map, a, kind, id) /\ x \in KeysAt(<<a, kind, id>>)
  <2>1. x \in UNION {KeysAt(d) : d \in mine} <=> \E d \in mine : x \in KeysAt(d)
    <3> HIDE DEF mine
    <3> QED OBVIOUS
  <2> HIDE DEF KeysAt, mine, map
  <2>2. ASSUME NEW kind, NEW id, InDelegated(map, a, kind, id), x \in KeysAt(<<a, kind, id>>)
        PROVE  \E d \in mine : x \in KeysAt(d)
    <3>1. <<a, kind, id>> \in mine
      BY <1>1, <2>2
    <3> QED BY <2>2, <3>1
  <2>3. ASSUME NEW d \in mine, x \in KeysAt(d)
        PROVE  \E kind, id : InDelegated(map, a, kind, id) /\ x \in KeysAt(<<a, kind, id>>)
    <3>1. PICK kind, id : InDelegated(map, a, kind, id) /\ d = <<a, kind, id>>
      BY <1>1
    <3> QED BY <2>3, <3>1
  <2> QED BY <2>1, <2>2, <2>3
<1>4. \A kind, id : x \in KeysAt(<<a, kind, id>>) <=>
        LET delegate == map[a][kind][id]
        IN  \E i \in DOMAIN delegate.keys : x = PublishedKey(delegate.keys[i], delegate.principal)
  OBVIOUS
<1> HIDE DEF KeysAt, mine
<1> QED BY <1>2, <1>3, <1>4

LEMMA SignedWith ==
  ASSUME NEW keys, NEW k, NEW p
  PROVE  Verification!SigningKeys([key_id |-> k, principal |-> p], keys)
           = {key \in keys : key.id = k /\ key.holder = p}
  BY DEF Verification!SigningKeys

LEMMA FoundRootKey ==
  ASSUME Sourced, NEW a, NEW k
  PROVE  LET answer == ResolveSignerBinding(bundle, a, k, None)
         IN  Verification!SigningKeys([key_id |-> k, principal |-> None], Published(a))
               = IF answer.result = "Ok"
                 THEN {PublishedKey(answer.binding.key_record, answer.binding.principal)} ELSE {}
<1> DEFINE answer   == ResolveSignerBinding(bundle, a, k, None)
           document == bundle.discovery_documents[a]
           Signing  == {key \in Published(a) : key.id = k /\ key.holder = None}
<1>1. CASE a \notin DOMAIN bundle.discovery_documents
  <2>1. answer.result # "Ok"
    BY <1>1, RootAnswers
  <2>2. Published(a) = {}
    BY <1>1 DEF Published
  <2> QED BY <2>1, <2>2, SignedWith
<1>2. CASE a \in DOMAIN bundle.discovery_documents
  <2>1. RootSource(document, a) /\ answer = Binding(document, k, document.profile, None)
    BY <1>2, RootAnswers
  <2>2. document.authority_id = a /\ UniqueIds(document.keys)
    <3> HIDE DEF document
    <3> QED BY <2>1, RootFacts
  <2>3. ASSUME NEW kind, NEW id, InDelegated(bundle.delegated_documents, a, kind, id)
        PROVE  bundle.delegated_documents[a][kind][id].principal # None
    <3>1. DelegateSource(bundle.delegated_documents[a][kind][id], a, kind, id)
      BY <2>3 DEF Sourced
    <3> QED BY <3>1, DelegateFacts
  <2>4. ASSUME NEW x
        PROVE  x \in Signing <=>
                 /\ \E i \in DOMAIN document.keys : x = PublishedKey(document.keys[i], None)
                 /\ x.id = k /\ x.holder = None
    <3>1. ASSUME x \in Signing
          PROVE  \E i \in DOMAIN document.keys : x = PublishedKey(document.keys[i], None)
      <4>1. ~\E kind, id : /\ InDelegated(bundle.delegated_documents, a, kind, id)
                           /\ LET delegate == bundle.delegated_documents[a][kind][id]
                              IN  \E i \in DOMAIN delegate.keys :
                                    x = PublishedKey(delegate.keys[i], delegate.principal)
        <5>1. x.holder = None /\ \A record, p : PublishedKey(record, p).holder = p
          BY <3>1 DEF PublishedKey
        <5> HIDE DEF document, Signing
        <5> QED BY <2>3, <5>1
      <4>2. x \in Published(a)
        BY <3>1
      <4>3. \/ \E i \in DOMAIN document.keys : x = PublishedKey(document.keys[i], None)
            \/ \E kind, id : /\ InDelegated(bundle.delegated_documents, a, kind, id)
                             /\ LET delegate == bundle.delegated_documents[a][kind][id]
                                IN  \E i \in DOMAIN delegate.keys :
                                      x = PublishedKey(delegate.keys[i], delegate.principal)
        BY <4>2, PublishedFacts, ZenonT(30)
      <4> QED BY <4>1, <4>3, Zenon
    <3>2. ASSUME NEW i \in DOMAIN document.keys, x = PublishedKey(document.keys[i], None)
          PROVE  x \in Published(a)
      BY <1>2, <3>2, PublishedFacts
    <3> QED BY <3>1, <3>2
  <2>5. \A i : /\ PublishedKey(document.keys[i], None).id = document.keys[i].key_id
               /\ PublishedKey(document.keys[i], None).holder = None
    BY DEF PublishedKey
  <2>6. CASE answer.result = "Ok"
    <3>1. /\ answer.binding.principal = None
          /\ answer.binding.key_record.key_id = k
          /\ \E i \in DOMAIN document.keys : document.keys[i] = answer.binding.key_record
          /\ \A i \in DOMAIN document.keys :
               document.keys[i].key_id = k => document.keys[i] = answer.binding.key_record
      <4> HIDE DEF answer, document
      <4> QED BY <2>1, <2>2, <2>6, LookupFacts
    <3> HIDE DEF answer, document, Signing
    <3>2. Signing = {PublishedKey(answer.binding.key_record, None)}
      BY <2>4, <2>5, <3>1
    <3> QED BY <2>6, <3>1, <3>2, SignedWith DEF answer, Signing
  <2>7. CASE answer.result # "Ok"
    <3>1. ~\E i \in DOMAIN document.keys : document.keys[i].key_id = k
      <4> HIDE DEF answer, document
      <4> QED BY <2>1, <2>2, <2>7, LookupFacts
    <3> HIDE DEF answer, document, Signing
    <3>2. Signing = {}
      BY <2>4, <2>5, <3>1
    <3> QED BY <2>7, <3>2, SignedWith DEF answer, Signing
  <2> QED BY <2>6, <2>7
<1> QED BY <1>1, <1>2

LEMMA FoundDelegateKey ==
  ASSUME Sourced, NEW a, NEW k, NEW p, p # None, p = [kind |-> p.kind, id |-> p.id]
  PROVE  LET answer == ResolveSignerBinding(bundle, a, k, p)
         IN  Verification!SigningKeys([key_id |-> k, principal |-> p], Published(a))
               = IF answer.result = "Ok"
                 THEN {PublishedKey(answer.binding.key_record, answer.binding.principal)} ELSE {}
<1> DEFINE answer   == ResolveSignerBinding(bundle, a, k, p)
           document == bundle.discovery_documents[a]
           map      == bundle.delegated_documents
           delegate == map[a][p.kind][p.id]
           Signing  == {key \in Published(a) : key.id = k /\ key.holder = p}
           there    == /\ a \in DOMAIN bundle.discovery_documents /\ document.delegation # None
                       /\ InDelegated(map, a, p.kind, p.id)
<1>1. ASSUME NEW x \in Signing
      PROVE  /\ there
             /\ \E i \in DOMAIN delegate.keys :
                  x = PublishedKey(delegate.keys[i], delegate.principal)
  <2>1. x.holder = p
    OBVIOUS
  <2>2. ~\E i \in DOMAIN document.keys : x = PublishedKey(document.keys[i], None)
    BY <2>1 DEF PublishedKey
  <2>3. /\ a \in DOMAIN bundle.discovery_documents /\ document.delegation # None
        /\ \E kind, id : /\ InDelegated(map, a, kind, id)
                         /\ \E i \in DOMAIN map[a][kind][id].keys :
                              x = PublishedKey(map[a][kind][id].keys[i], map[a][kind][id].principal)
    BY <2>2, PublishedFacts
  <2>4. PICK kind, id : /\ InDelegated(map, a, kind, id)
                        /\ \E i \in DOMAIN map[a][kind][id].keys :
                             x = PublishedKey(map[a][kind][id].keys[i], map[a][kind][id].principal)
    BY <2>3
  <2>5. DelegateSource(map[a][kind][id], a, kind, id)
    BY <2>4 DEF Sourced
  <2>6. map[a][kind][id].principal = [kind |-> kind, id |-> id]
    BY <2>5, DelegateFacts
  <2>7. p = [kind |-> kind, id |-> id]
    <3>1. PICK i : x = PublishedKey(map[a][kind][id].keys[i], map[a][kind][id].principal)
      BY <2>4
    <3>2. \A record, holder : PublishedKey(record, holder).holder = holder
      BY DEF PublishedKey
    <3>3. x.holder = map[a][kind][id].principal
      BY <3>1, <3>2, Zenon
    <3> QED BY <2>1, <2>6, <3>3, Zenon
  <2>8. p.kind = kind /\ p.id = id
    <3>1. [kind |-> kind, id |-> id].kind = kind /\ [kind |-> kind, id |-> id].id = id
      OBVIOUS
    <3> QED BY <2>7, <3>1, Zenon
  <2>9. a \in DOMAIN bundle.discovery_documents /\ document.delegation # None
    BY <2>3
  <2>10. map[a][kind][id] = delegate
    BY <2>8
  <2> HIDE DEF map, document, delegate
  <2>11. InDelegated(map, a, p.kind, p.id)
    BY <2>4, <2>8
  <2>12. \E i \in DOMAIN delegate.keys : x = PublishedKey(delegate.keys[i], delegate.principal)
    BY <2>4, <2>10
  <2> QED BY <2>9, <2>11, <2>12
<1>2. CASE ~there
  <2>1. answer.result # "Ok"
    BY <1>2, DelegateAnswers
  <2>2. Signing = {}
    BY <1>1, <1>2
  <2> QED BY <2>1, <2>2, SignedWith
<1>3. CASE there
  <2>1. /\ DelegateSource(delegate, a, p.kind, p.id) /\ delegate.principal = p
        /\ answer = Binding(delegate, k, document.profile, p)
    BY <1>3, DelegateAnswers
  <2>2. UniqueIds(delegate.keys)
    <3> HIDE DEF delegate
    <3> QED BY <2>1, DelegateFacts
  <2>3. ASSUME NEW i \in DOMAIN delegate.keys
        PROVE  PublishedKey(delegate.keys[i], p) \in Published(a)
    BY <1>3, <2>1, PublishedFacts
  <2>4. \A i : /\ PublishedKey(delegate.keys[i], p).id = delegate.keys[i].key_id
               /\ PublishedKey(delegate.keys[i], p).holder = p
    BY DEF PublishedKey
  <2>5. \A x : x \in Signing <=>
               /\ \E i \in DOMAIN delegate.keys : x = PublishedKey(delegate.keys[i], p)
               /\ x.id = k
    <3>1. \A x \in Signing : \E i \in DOMAIN delegate.keys : x = PublishedKey(delegate.keys[i], p)
      <4> HIDE DEF Signing
      <4> QED BY <1>1, <2>1
    <3>2. \A x : x \in Signing <=> x \in Published(a) /\ x.id = k /\ x.holder = p
      OBVIOUS
    <3> HIDE DEF Signing, delegate
    <3> QED BY <2>3, <2>4, <3>1, <3>2
  <2>6. CASE answer.result = "Ok"
    <3>1. /\ answer.binding.principal = p
          /\ answer.binding.key_record.key_id = k
          /\ \E i \in DOMAIN delegate.keys : delegate.keys[i] = answer.binding.key_record
          /\ \A i \in DOMAIN delegate.keys :
               delegate.keys[i].key_id = k => delegate.keys[i] = answer.binding.key_record
      <4> HIDE DEF answer, delegate, document
      <4> QED BY <2>1, <2>2, <2>6, LookupFacts
    <3> HIDE DEF answer, delegate, Signing
    <3>2. Signing = {PublishedKey(answer.binding.key_record, p)}
      BY <2>4, <2>5, <3>1
    <3> QED BY <2>6, <3>1, <3>2, SignedWith DEF answer, Signing
  <2>7. CASE answer.result # "Ok"
    <3>1. ~\E i \in DOMAIN delegate.keys : delegate.keys[i].key_id = k
      <4> HIDE DEF answer, delegate, document
      <4> QED BY <2>1, <2>2, <2>7, LookupFacts
    <3> HIDE DEF answer, delegate, Signing
    <3>2. Signing = {}
      BY <2>4, <2>5, <3>1
    <3> QED BY <2>7, <3>2, SignedWith DEF answer, Signing
  <2> QED BY <2>6, <2>7
<1> QED BY <1>2, <1>3

(***************************************************************************)
(* A lookup in a bundle finds the one key that verify_impl takes the       *)
(* signature to be made with, and none where there is none: the ids that   *)
(* collect_unique_key_records lets pass are unique, and a delegate is kept *)
(* under the principal it names.                                           *)
(***************************************************************************)
THEOREM SigningKeyIsFound == Spec => []FindsTheSigningKey
<1>1. Sourced => FindsTheSigningKey
  <2> SUFFICES ASSUME Sourced, NEW a \in Authorities, NEW k \in KeyIds, NEW p \in Principals
               PROVE  LET answer == ResolveSignerBinding(bundle, a, k, p)
                      IN  Verification!SigningKeys([key_id |-> k, principal |-> p], Published(a))
                            = IF answer.result = "Ok"
                              THEN {PublishedKey(answer.binding.key_record, answer.binding.principal)}
                              ELSE {}
    BY Zenon DEF FindsTheSigningKey
  <2>1. CASE p = None
    BY <2>1, FoundRootKey
  <2>2. CASE p # None
    BY <2>2, NamedPrincipals, FoundDelegateKey
  <2> QED BY <2>1, <2>2
<1> QED BY <1>1, BundleAlwaysSourced, PTL

-----------------------------------------------------------------------------
(* Two offers in either order.                                             *)

LEMMA WithCommutes ==
  ASSUME NEW map, NEW k, NEW v, NEW l, NEW w, k # l
  PROVE  With(With(map, k, v), l, w) = With(With(map, l, w), k, v)
<1> DEFINE one == With(map, k, v)  other == With(map, l, w)
           D   == DOMAIN map \cup {k, l}
<1>1. /\ DOMAIN one = DOMAIN map \cup {k} /\ one[k] = v
      /\ \A x \in DOMAIN map : x # k => one[x] = map[x]
  BY DEF With
<1>2. /\ DOMAIN other = DOMAIN map \cup {l} /\ other[l] = w
      /\ \A x \in DOMAIN map : x # l => other[x] = map[x]
  BY DEF With
<1> HIDE DEF one, other
<1>3. With(one, l, w) = [x \in D |-> IF x = l THEN w ELSE IF x = k THEN v ELSE map[x]]
  <2>1. DOMAIN one \cup {l} = D
    BY <1>1
  <2>2. With(one, l, w) = [x \in D |-> IF x = l THEN w ELSE one[x]]
    BY <2>1 DEF With
  <2>3. \A x \in D : x # l => one[x] = IF x = k THEN v ELSE map[x]
    BY <1>1
  <2> HIDE DEF D
  <2> QED BY <2>2, <2>3
<1>4. With(other, k, v) = [x \in D |-> IF x = k THEN v ELSE IF x = l THEN w ELSE map[x]]
  <2>1. DOMAIN other \cup {k} = D
    BY <1>2
  <2>2. With(other, k, v) = [x \in D |-> IF x = k THEN v ELSE other[x]]
    BY <2>1 DEF With
  <2>3. \A x \in D : x # k => other[x] = IF x = l THEN w ELSE map[x]
    BY <1>2
  <2> HIDE DEF D
  <2> QED BY <2>2, <2>3
<1> HIDE DEF D
<1>5. With(one, l, w) = With(other, k, v)
  BY <1>3, <1>4
<1> QED BY <1>5 DEF one, other

LEMMA WithOverwrites ==
  ASSUME NEW map, NEW k, NEW v, NEW w
  PROVE  With(With(map, k, v), k, w) = With(map, k, w)
<1> DEFINE one == With(map, k, v)
           D   == DOMAIN map \cup {k}
<1>1. DOMAIN one = D /\ \A x \in D : x # k => one[x] = map[x]
  BY DEF With
<1>2. D \cup {k} = D
  OBVIOUS
<1>3. With(map, k, w) = [x \in D |-> IF x = k THEN w ELSE map[x]]
  BY DEF With
<1> HIDE DEF one, D
<1>4. With(one, k, w) = [x \in D |-> IF x = k THEN w ELSE one[x]]
  BY <1>1, <1>2 DEF With
<1>5. With(one, k, w) = With(map, k, w)
  BY <1>1, <1>3, <1>4
<1> QED BY <1>5 DEF one

LEMMA WithDelegateCommutes ==
  ASSUME NEW map, NEW d, NEW e,
         <<d.authority_id, d.principal.kind, d.principal.id>>
           # <<e.authority_id, e.principal.kind, e.principal.id>>
  PROVE  WithDelegate(WithDelegate(map, d), e) = WithDelegate(WithDelegate(map, e), d)
<1> DEFINE A == d.authority_id  K == d.principal.kind  I == d.principal.id
           B == e.authority_id  L == e.principal.kind  J == e.principal.id
           KindsD == EntryOr(map, A, EmptyMap)
           KindsE == EntryOr(map, B, EmptyMap)
           IdsD   == EntryOr(KindsD, K, EmptyMap)
           IdsE   == EntryOr(KindsE, L, EmptyMap)
           NewD   == With(KindsD, K, With(IdsD, I, d))
           NewE   == With(KindsE, L, With(IdsE, J, e))
           one    == With(map, A, NewD)
           other  == With(map, B, NewE)
<1>1. one = WithDelegate(map, d) /\ other = WithDelegate(map, e)
  BY DEF WithDelegate
<1>2. /\ WithDelegate(one, e) =
           LET kinds == EntryOr(one, B, EmptyMap)
           IN  With(one, B, With(kinds, L, With(EntryOr(kinds, L, EmptyMap), J, e)))
      /\ WithDelegate(other, d) =
           LET kinds == EntryOr(other, A, EmptyMap)
           IN  With(other, A, With(kinds, K, With(EntryOr(kinds, K, EmptyMap), I, d)))
  BY DEF WithDelegate
<1>3. /\ EntryOr(one, B, EmptyMap) = IF B = A THEN NewD ELSE KindsE
      /\ EntryOr(other, A, EmptyMap) = IF A = B THEN NewE ELSE KindsD
      /\ EntryOr(NewD, L, EmptyMap) = IF L = K THEN With(IdsD, I, d) ELSE EntryOr(KindsD, L, EmptyMap)
      /\ EntryOr(NewE, K, EmptyMap) = IF K = L THEN With(IdsE, J, e) ELSE EntryOr(KindsE, K, EmptyMap)
  <2> HIDE DEF KindsD, KindsE, IdsD, IdsE, A, B, K, L, I, J
  <2>1. EntryOr(one, B, EmptyMap) = IF B = A THEN NewD ELSE EntryOr(map, B, EmptyMap)
    BY WithLookup
  <2>2. EntryOr(other, A, EmptyMap) = IF A = B THEN NewE ELSE EntryOr(map, A, EmptyMap)
    BY WithLookup
  <2>3. EntryOr(NewD, L, EmptyMap) = IF L = K THEN With(IdsD, I, d) ELSE EntryOr(KindsD, L, EmptyMap)
    BY WithLookup
  <2>4. EntryOr(NewE, K, EmptyMap) = IF K = L THEN With(IdsE, J, e) ELSE EntryOr(KindsE, K, EmptyMap)
    BY WithLookup
  <2> QED BY <2>1, <2>2, <2>3, <2>4 DEF KindsD, KindsE
<1>4. /\ KindsD = EntryOr(map, A, EmptyMap) /\ KindsE = EntryOr(map, B, EmptyMap)
      /\ IdsD = EntryOr(KindsD, K, EmptyMap) /\ IdsE = EntryOr(KindsE, L, EmptyMap)
      /\ NewD = With(KindsD, K, With(IdsD, I, d)) /\ NewE = With(KindsE, L, With(IdsE, J, e))
      /\ one = With(map, A, NewD) /\ other = With(map, B, NewE)
      /\ ~(A = B /\ K = L /\ I = J)
  OBVIOUS
<1> HIDE DEF one, other, NewD, NewE, IdsD, IdsE, KindsD, KindsE, A, B, K, L, I, J
<1>5. CASE A # B
  <2>1. WithDelegate(one, e) = With(one, B, NewE) /\ WithDelegate(other, d) = With(other, A, NewD)
    BY <1>2, <1>3, <1>4, <1>5
  <2>2. With(one, B, NewE) = With(other, A, NewD)
    BY <1>4, <1>5, WithCommutes
  <2> QED BY <1>1, <2>1, <2>2
<1>6. CASE A = B /\ K # L
  <2>1. /\ WithDelegate(one, e) = With(one, A, With(NewD, L, With(IdsE, J, e)))
        /\ WithDelegate(other, d) = With(other, A, With(NewE, K, With(IdsD, I, d)))
    BY <1>2, <1>3, <1>4, <1>6
  <2>2. With(NewD, L, With(IdsE, J, e)) = With(NewE, K, With(IdsD, I, d))
    BY <1>4, <1>6, WithCommutes
  <2>3. \A v : With(one, A, v) = With(map, A, v) /\ With(other, A, v) = With(map, A, v)
    BY <1>4, <1>6, WithOverwrites
  <2> QED BY <1>1, <2>1, <2>2, <2>3
<1>7. CASE A = B /\ K = L
  <2>1. I # J /\ KindsD = KindsE /\ IdsD = IdsE
    BY <1>4, <1>7
  <2>2. /\ WithDelegate(one, e) = With(one, A, With(NewD, K, With(With(IdsD, I, d), J, e)))
        /\ WithDelegate(other, d) = With(other, A, With(NewE, K, With(With(IdsD, J, e), I, d)))
    BY <1>2, <1>3, <1>7, <2>1
  <2>3. With(With(IdsD, I, d), J, e) = With(With(IdsD, J, e), I, d)
    BY <2>1, WithCommutes
  <2>4. \A v : With(NewD, K, v) = With(KindsD, K, v) /\ With(NewE, K, v) = With(KindsD, K, v)
    BY <1>4, <1>7, <2>1, WithOverwrites
  <2>5. \A v : With(one, A, v) = With(map, A, v) /\ With(other, A, v) = With(map, A, v)
    BY <1>4, <1>7, WithOverwrites
  <2> QED BY <1>1, <2>2, <2>3, <2>4, <2>5
<1> QED BY <1>5, <1>6, <1>7

\* The four maps alike: where an offer goes, what is taken, what may be.
Slot(offer) ==
  CASE offer.part = "discovery" -> Entry(offer).authority_id
    [] offer.part = "delegated" -> <<Entry(offer).authority_id, Entry(offer).principal.kind,
                                     Entry(offer).principal.id>>
    [] offer.part = "proof"     -> offer.raw.trustgrant_id
    [] offer.part = "chain"     -> offer.raw.grant

Taken(held, part) ==
  CASE part = "discovery" -> DOMAIN held.discovery_documents
    [] part = "delegated" -> Delegates(held.delegated_documents)
    [] part = "proof"     -> DOMAIN held.revocation_proofs
    [] part = "chain"     -> DOMAIN held.ownership_transition_chains

Limit(part) ==
  CASE part = "discovery" -> MaxDocuments
    [] part = "delegated" -> MaxDelegated
    [] part = "proof"     -> MaxProofs
    [] part = "chain"     -> MaxChains

Parts == {"discovery", "delegated", "proof", "chain"}

FourMaps(held) ==
  held = [discovery_documents |-> held.discovery_documents,
          delegated_documents |-> held.delegated_documents,
          revocation_proofs |-> held.revocation_proofs,
          ownership_transition_chains |-> held.ownership_transition_chains]

SameSlot(o, q) == o.part = q.part /\ Slot(o) = Slot(q)

LEMMA FitsMeans ==
  ASSUME NEW held, NEW offer \in Offers
  PROVE  Fits(held, offer) <=> Cardinality(Taken(held, offer.part)) < Limit(offer.part)
  BY PartOfOffer DEF Fits, Taken, Limit

LEMMA FourMapsDomain ==
  ASSUME NEW held, FourMaps(held)
  PROVE  DOMAIN held = {"discovery_documents", "delegated_documents", "revocation_proofs",
                        "ownership_transition_chains"}
  BY DEF FourMaps

LEMMA FourMapsStay ==
  ASSUME NEW held, FourMaps(held), NEW offer \in Offers
  PROVE  FourMaps(Put(held, offer))
<1> DEFINE d == held.discovery_documents  g == held.delegated_documents
           r == held.revocation_proofs  c == held.ownership_transition_chains
<1>1. held = [discovery_documents |-> d, delegated_documents |-> g,
              revocation_proofs |-> r, ownership_transition_chains |-> c]
  BY DEF FourMaps
<1> HIDE DEF d, g, r, c
<1>2. CASE offer.part = "discovery"
  BY <1>1, <1>2 DEF Put, FourMaps
<1>3. CASE offer.part = "delegated"
  BY <1>1, <1>3 DEF Put, FourMaps
<1>4. CASE offer.part = "proof"
  BY <1>1, <1>4 DEF Put, FourMaps
<1>5. CASE offer.part = "chain"
  BY <1>1, <1>5 DEF Put, FourMaps
<1> QED BY <1>2, <1>3, <1>4, <1>5, PartOfOffer

LEMMA TakenIs ==
  ASSUME NEW held
  PROVE  /\ Taken(held, "discovery") = DOMAIN held.discovery_documents
         /\ Taken(held, "delegated") = Delegates(held.delegated_documents)
         /\ Taken(held, "proof") = DOMAIN held.revocation_proofs
         /\ Taken(held, "chain") = DOMAIN held.ownership_transition_chains
  BY DEF Taken

LEMMA TakenAfter ==
  ASSUME NEW held, FourMaps(held), NEW o \in Offers, NEW part \in Parts
  PROVE  Taken(Put(held, o), part) =
           IF part = o.part THEN Taken(held, part) \cup {Slot(o)} ELSE Taken(held, part)
<1>0. DOMAIN held = {"discovery_documents", "delegated_documents", "revocation_proofs",
                     "ownership_transition_chains"}
  BY FourMapsDomain
<1> DEFINE new == Put(held, o)
<1>1. CASE o.part = "discovery"
  <2>1. /\ new.discovery_documents =
             With(held.discovery_documents, Entry(o).authority_id, Entry(o))
        /\ new.delegated_documents = held.delegated_documents
        /\ new.revocation_proofs = held.revocation_proofs
        /\ new.ownership_transition_chains = held.ownership_transition_chains
    BY <1>0, <1>1, PutFacts
  <2> HIDE DEF new
  <2>2. DOMAIN new.discovery_documents = DOMAIN held.discovery_documents \cup {Entry(o).authority_id}
    <3>1. DOMAIN With(held.discovery_documents, Entry(o).authority_id, Entry(o))
            = DOMAIN held.discovery_documents \cup {Entry(o).authority_id}
      BY WithDomain, Zenon
    <3> QED BY <2>1, <3>1
  <2>3. Slot(o) = Entry(o).authority_id
    BY <1>1 DEF Slot
  <2> QED BY <1>1, <2>1, <2>2, <2>3, TakenIs DEF Parts, new
<1>2. CASE o.part = "delegated"
  <2>1. /\ new.discovery_documents = held.discovery_documents
        /\ new.delegated_documents = WithDelegate(held.delegated_documents, Entry(o))
        /\ new.revocation_proofs = held.revocation_proofs
        /\ new.ownership_transition_chains = held.ownership_transition_chains
    BY <1>0, <1>2, PutFacts
  <2> HIDE DEF new
  <2>2. Delegates(new.delegated_documents) = Delegates(held.delegated_documents) \cup
          {<<Entry(o).authority_id, Entry(o).principal.kind, Entry(o).principal.id>>}
    BY <2>1, WithDelegateEntries
  <2>3. Slot(o) = <<Entry(o).authority_id, Entry(o).principal.kind, Entry(o).principal.id>>
    BY <1>2 DEF Slot
  <2> QED BY <1>2, <2>1, <2>2, <2>3, TakenIs DEF Parts, new
<1>3. CASE o.part = "proof"
  <2>1. /\ new.discovery_documents = held.discovery_documents
        /\ new.delegated_documents = held.delegated_documents
        /\ new.revocation_proofs = With(held.revocation_proofs, o.raw.trustgrant_id, o.raw)
        /\ new.ownership_transition_chains = held.ownership_transition_chains
    BY <1>0, <1>3, PutFacts
  <2> HIDE DEF new
  <2>2. DOMAIN new.revocation_proofs = DOMAIN held.revocation_proofs \cup {o.raw.trustgrant_id}
    <3>1. DOMAIN With(held.revocation_proofs, o.raw.trustgrant_id, o.raw)
            = DOMAIN held.revocation_proofs \cup {o.raw.trustgrant_id}
      BY WithDomain, Zenon
    <3> QED BY <2>1, <3>1
  <2>3. Slot(o) = o.raw.trustgrant_id
    BY <1>3 DEF Slot
  <2> QED BY <1>3, <2>1, <2>2, <2>3, TakenIs DEF Parts, new
<1>4. CASE o.part = "chain"
  <2>1. /\ new.discovery_documents = held.discovery_documents
        /\ new.delegated_documents = held.delegated_documents
        /\ new.revocation_proofs = held.revocation_proofs
        /\ new.ownership_transition_chains =
             With(held.ownership_transition_chains, o.raw.grant, o.raw.chain)
    BY <1>0, <1>4, PutFacts
  <2> HIDE DEF new
  <2>2. DOMAIN new.ownership_transition_chains =
          DOMAIN held.ownership_transition_chains \cup {o.raw.grant}
    <3>1. DOMAIN With(held.ownership_transition_chains, o.raw.grant, o.raw.chain)
            = DOMAIN held.ownership_transition_chains \cup {o.raw.grant}
      BY WithDomain, Zenon
    <3> QED BY <2>1, <3>1
  <2>3. Slot(o) = o.raw.grant
    BY <1>4 DEF Slot
  <2> QED BY <1>4, <2>1, <2>2, <2>3, TakenIs DEF Parts, new
<1> QED BY <1>1, <1>2, <1>3, <1>4, PartOfOffer

LEMMA FoundAfter ==
  ASSUME NEW held, FourMaps(held), NEW o \in Offers, NEW q \in Offers
  PROVE  Found(Put(held, o), q) = IF SameSlot(o, q) THEN Entry(o) ELSE Found(held, q)
<1>0. DOMAIN held = {"discovery_documents", "delegated_documents", "revocation_proofs",
                     "ownership_transition_chains"}
  BY FourMapsDomain
<1> DEFINE new == Put(held, o)
<1>1. CASE o.part = "discovery"
  <2>1. /\ new.discovery_documents =
             With(held.discovery_documents, Entry(o).authority_id, Entry(o))
        /\ new.delegated_documents = held.delegated_documents
        /\ new.revocation_proofs = held.revocation_proofs
        /\ new.ownership_transition_chains = held.ownership_transition_chains
    BY <1>0, <1>1, PutFacts
  <2>2. \A a : EntryOr(new.discovery_documents, a, None) =
                 IF a = Entry(o).authority_id THEN Entry(o)
                 ELSE EntryOr(held.discovery_documents, a, None)
    BY <2>1, WithLookup
  <2> HIDE DEF new
  <2> QED BY <1>1, <2>1, <2>2, PartOfOffer DEF Found, Slot, SameSlot, new
<1>2. CASE o.part = "delegated"
  <2>1. /\ new.discovery_documents = held.discovery_documents
        /\ new.delegated_documents = WithDelegate(held.delegated_documents, Entry(o))
        /\ new.revocation_proofs = held.revocation_proofs
        /\ new.ownership_transition_chains = held.ownership_transition_chains
    BY <1>0, <1>2, PutFacts
  <2>2. \A a, p : Delegate(new.delegated_documents, a, p) =
                    IF /\ a = Entry(o).authority_id
                       /\ p.kind = Entry(o).principal.kind /\ p.id = Entry(o).principal.id
                    THEN Entry(o) ELSE Delegate(held.delegated_documents, a, p)
    BY <2>1, WithDelegateEntries
  <2> HIDE DEF new
  <2> QED BY <1>2, <2>1, <2>2, PartOfOffer DEF Found, Slot, SameSlot, new
<1>3. CASE o.part = "proof"
  <2>1. /\ new.discovery_documents = held.discovery_documents
        /\ new.delegated_documents = held.delegated_documents
        /\ new.revocation_proofs = With(held.revocation_proofs, o.raw.trustgrant_id, o.raw)
        /\ new.ownership_transition_chains = held.ownership_transition_chains
    BY <1>0, <1>3, PutFacts
  <2>2. \A g : EntryOr(new.revocation_proofs, g, None) =
                 IF g = o.raw.trustgrant_id THEN o.raw ELSE EntryOr(held.revocation_proofs, g, None)
    BY <2>1, WithLookup
  <2>3. Entry(o) = o.raw
    BY <1>3 DEF Entry
  <2> HIDE DEF new
  <2> QED BY <1>3, <2>1, <2>2, <2>3, PartOfOffer DEF Found, Slot, SameSlot, new
<1>4. CASE o.part = "chain"
  <2>1. /\ new.discovery_documents = held.discovery_documents
        /\ new.delegated_documents = held.delegated_documents
        /\ new.revocation_proofs = held.revocation_proofs
        /\ new.ownership_transition_chains =
             With(held.ownership_transition_chains, o.raw.grant, o.raw.chain)
    BY <1>0, <1>4, PutFacts
  <2>2. \A g : EntryOr(new.ownership_transition_chains, g, None) =
                 IF g = o.raw.grant THEN o.raw.chain
                 ELSE EntryOr(held.ownership_transition_chains, g, None)
    BY <2>1, WithLookup
  <2>3. Entry(o) = o.raw.chain
    BY <1>4 DEF Entry
  <2> HIDE DEF new
  <2> QED BY <1>4, <2>1, <2>2, <2>3, PartOfOffer DEF Found, Slot, SameSlot, new
<1> QED BY <1>1, <1>2, <1>3, <1>4, PartOfOffer

\* What an insertion asks of the place it goes to.
LEMMA InsertsMeans ==
  ASSUME NEW held, NEW o \in Parsed
  PROVE  /\ o \in Offers /\ Entry(o) # None
         /\ InsertResult(held, o) = "Ok" <=>
              \/ Found(held, o) = Entry(o)
              \/ Found(held, o) = None /\ Cardinality(Taken(held, o.part)) < Limit(o.part)
<1>1. o \in Offers /\ Entry(o) # None
  BY EntriesAssumption DEF Parsed
<1> QED BY <1>1, FitsMeans DEF InsertResult

\* Nothing stands in a place that is not taken, and None in no place.
NoneNowhere(held) ==
  \A o \in Parsed : Found(held, o) # None <=> Slot(o) \in Taken(held, o.part)

PartsFinite(held) == \A part \in Parts : IsFiniteSet(Taken(held, part))

LEMMA PutsAlike ==
  ASSUME NEW held, NEW o \in Offers, NEW q \in Offers, SameSlot(o, q), Entry(o) = Entry(q)
  PROVE  Put(held, o) = Put(held, q)
<1>1. o.part = q.part /\ Slot(o) = Slot(q)
  BY DEF SameSlot
<1>2. CASE o.part = "discovery"
  BY <1>1, <1>2 DEF Put
<1>3. CASE o.part = "delegated"
  BY <1>1, <1>3 DEF Put
<1>4. CASE o.part = "proof"
  BY <1>1, <1>4 DEF Put, Slot, Entry
<1>5. CASE o.part = "chain"
  BY <1>1, <1>5 DEF Put, Slot, Entry
<1> QED BY <1>2, <1>3, <1>4, <1>5, PartOfOffer

Four(d, g, r, c) ==
  [discovery_documents |-> d, delegated_documents |-> g, revocation_proofs |-> r,
   ownership_transition_chains |-> c]

LEMMA PutIntoFour ==
  ASSUME NEW d, NEW g, NEW r, NEW c, NEW o
  PROVE  /\ o.part = "discovery" =>
              Put(Four(d, g, r, c), o) = Four(With(d, Entry(o).authority_id, Entry(o)), g, r, c)
         /\ o.part = "delegated" =>
              Put(Four(d, g, r, c), o) = Four(d, WithDelegate(g, Entry(o)), r, c)
         /\ o.part = "proof" =>
              Put(Four(d, g, r, c), o) = Four(d, g, With(r, o.raw.trustgrant_id, o.raw), c)
         /\ o.part = "chain" =>
              Put(Four(d, g, r, c), o) = Four(d, g, r, With(c, o.raw.grant, o.raw.chain))
  BY DEF Put, Four

LEMMA PutsCommute ==
  ASSUME NEW held, FourMaps(held), NEW o \in Offers, NEW q \in Offers, ~SameSlot(o, q)
  PROVE  Put(Put(held, o), q) = Put(Put(held, q), o)
<1> DEFINE d == held.discovery_documents  g == held.delegated_documents
           r == held.revocation_proofs  c == held.ownership_transition_chains
<1>1. held = Four(d, g, r, c)
  BY DEF FourMaps, Four
<1> HIDE DEF d, g, r, c
<1>3. CASE o.part # q.part
  BY <1>1, PutIntoFour, <1>3, PartOfOffer
<1>4. CASE o.part = q.part
  <2>1. Slot(o) # Slot(q)
    BY <1>4 DEF SameSlot
  <2>2. CASE o.part = "discovery"
    <3> DEFINE k == Entry(o).authority_id  l == Entry(q).authority_id
               v == Entry(o)  w == Entry(q)
    <3>1. k # l /\ q.part = "discovery"
      BY <1>4, <2>1, <2>2 DEF Slot
    <3>2. \A x : /\ Put(Four(x, g, r, c), o) = Four(With(x, k, v), g, r, c)
                 /\ Put(Four(x, g, r, c), q) = Four(With(x, l, w), g, r, c)
      BY <2>2, <3>1, PutIntoFour
    <3> HIDE DEF k, l, v, w
    <3>3. With(With(d, k, v), l, w) = With(With(d, l, w), k, v)
      BY <3>1, WithCommutes
    <3> QED BY <1>1, <3>2, <3>3
  <2>3. CASE o.part = "delegated"
    <3> DEFINE v == Entry(o)  w == Entry(q)
    <3>1. /\ q.part = "delegated"
          /\ <<v.authority_id, v.principal.kind, v.principal.id>>
               # <<w.authority_id, w.principal.kind, w.principal.id>>
      BY <1>4, <2>1, <2>3 DEF Slot
    <3>2. \A x : /\ Put(Four(d, x, r, c), o) = Four(d, WithDelegate(x, v), r, c)
                 /\ Put(Four(d, x, r, c), q) = Four(d, WithDelegate(x, w), r, c)
      BY <2>3, <3>1, PutIntoFour
    <3> HIDE DEF v, w
    <3>3. WithDelegate(WithDelegate(g, v), w) = WithDelegate(WithDelegate(g, w), v)
      BY <3>1, WithDelegateCommutes
    <3> QED BY <1>1, <3>2, <3>3
  <2>4. CASE o.part = "proof"
    <3> DEFINE k == o.raw.trustgrant_id  l == q.raw.trustgrant_id
               v == o.raw  w == q.raw
    <3>1. k # l /\ q.part = "proof"
      BY <1>4, <2>1, <2>4 DEF Slot
    <3>2. \A x : /\ Put(Four(d, g, x, c), o) = Four(d, g, With(x, k, v), c)
                 /\ Put(Four(d, g, x, c), q) = Four(d, g, With(x, l, w), c)
      BY <2>4, <3>1, PutIntoFour
    <3> HIDE DEF k, l, v, w
    <3>3. With(With(r, k, v), l, w) = With(With(r, l, w), k, v)
      BY <3>1, WithCommutes
    <3> QED BY <1>1, <3>2, <3>3
  <2>5. CASE o.part = "chain"
    <3> DEFINE k == o.raw.grant  l == q.raw.grant
               v == o.raw.chain  w == q.raw.chain
    <3>1. k # l /\ q.part = "chain"
      BY <1>4, <2>1, <2>5 DEF Slot
    <3>2. \A x : /\ Put(Four(d, g, r, x), o) = Four(d, g, r, With(x, k, v))
                 /\ Put(Four(d, g, r, x), q) = Four(d, g, r, With(x, l, w))
      BY <2>5, <3>1, PutIntoFour
    <3> HIDE DEF k, l, v, w
    <3>3. With(With(c, k, v), l, w) = With(With(c, l, w), k, v)
      BY <3>1, WithCommutes
    <3> QED BY <1>1, <3>2, <3>3
  <2> QED BY <2>2, <2>3, <2>4, <2>5, PartOfOffer
<1> QED BY <1>3, <1>4

\* Adding one element and then another.
LEMMA RoomEitherWay ==
  ASSUME NEW T, IsFiniteSet(T), NEW limit \in Nat, NEW x, NEW y,
         Cardinality(T \cup {x}) < limit
  PROVE  /\ Cardinality(T) < limit
         /\ x \notin T \/ y \in T => Cardinality(T \cup {y}) < limit
<1>1. /\ Cardinality(T) \in Nat
      /\ Cardinality(T \cup {x}) = IF x \in T THEN Cardinality(T) ELSE Cardinality(T) + 1
      /\ Cardinality(T \cup {y}) = IF y \in T THEN Cardinality(T) ELSE Cardinality(T) + 1
  BY FS_AddElement, FS_CardinalityType
<1> QED BY <1>1

LEMMA EitherOrder ==
  ASSUME NEW held, FourMaps(held), NoneNowhere(held), PartsFinite(held),
         NEW first \in Parsed, NEW second \in Parsed,
         InsertResult(held, first) = "Ok", InsertResult(Put(held, first), second) = "Ok"
  PROVE  /\ InsertResult(held, second) = "Ok"
         /\ InsertResult(Put(held, second), first) = "Ok"
         /\ Put(Put(held, second), first) = Put(Put(held, first), second)
<1> DEFINE T(part) == Taken(held, part)
           part == first.part
<1>1. first \in Offers /\ second \in Offers /\ Entry(first) # None /\ Entry(second) # None
  BY InsertsMeans
<1>2. first.part \in Parts /\ second.part \in Parts
  BY <1>1, PartOfOffer DEF Parts
<1>3. \/ Found(held, first) = Entry(first)
      \/ Found(held, first) = None /\ Cardinality(T(first.part)) < Limit(first.part)
  BY InsertsMeans
<1>4. \/ Found(Put(held, first), second) = Entry(second)
      \/ /\ Found(Put(held, first), second) = None
         /\ Cardinality(Taken(Put(held, first), second.part)) < Limit(second.part)
  BY InsertsMeans
<1>5. CASE SameSlot(first, second)
  <2>1. Found(Put(held, first), second) = Entry(first)
    BY <1>1, <1>5, FoundAfter
  <2>2. Entry(second) = Entry(first)
    BY <1>1, <1>4, <2>1
  <2>3. Put(held, second) = Put(held, first) /\ first.part = second.part /\ SameSlot(second, first)
    BY <1>1, <1>5, <2>2, PutsAlike DEF SameSlot
  <2>4. Found(held, second) = Found(held, first)
    BY <1>1, <1>5, PartOfOffer DEF SameSlot, Slot, Found, Delegate
  <2>5. InsertResult(held, second) = "Ok"
    BY <1>3, <2>2, <2>3, <2>4, InsertsMeans
  <2>6. Found(Put(held, second), first) = Entry(second)
    BY <1>1, <2>3, FoundAfter
  <2>7. InsertResult(Put(held, second), first) = "Ok"
    BY <2>2, <2>6, InsertsMeans
  <2>8. Put(Put(held, first), first) = Put(Put(held, first), second)
    BY <1>1, <1>5, <2>2, PutsAlike
  <2> QED BY <2>3, <2>5, <2>7, <2>8
<1>6. CASE ~SameSlot(first, second)
  <2>1. ~SameSlot(second, first)
    BY <1>6 DEF SameSlot
  <2>2. /\ Found(Put(held, first), second) = Found(held, second)
        /\ Found(Put(held, second), first) = Found(held, first)
    BY <1>1, <1>6, <2>1, FoundAfter
  <2>3. Put(Put(held, second), first) = Put(Put(held, first), second)
    BY <1>1, <1>6, PutsCommute
  <2>4. /\ Taken(Put(held, first), second.part) =
             IF second.part = first.part THEN T(second.part) \cup {Slot(first)} ELSE T(second.part)
        /\ Taken(Put(held, second), first.part) =
             IF second.part = first.part THEN T(first.part) \cup {Slot(second)} ELSE T(first.part)
    BY <1>1, <1>2, TakenAfter
  <2>5. /\ Found(held, first) # None <=> Slot(first) \in T(first.part)
        /\ Found(held, second) # None <=> Slot(second) \in T(second.part)
    BY DEF NoneNowhere
  <2>6. /\ Limit(first.part) \in Nat /\ Limit(second.part) \in Nat
        /\ IsFiniteSet(T(first.part)) /\ IsFiniteSet(T(second.part))
    BY <1>2, BundleAssumption DEF Limit, PartsFinite, Parts
  <2> HIDE DEF T
  <2>7. CASE first.part # second.part
    <3>1. InsertResult(held, second) = "Ok"
      BY <1>4, <2>2, <2>4, <2>7, InsertsMeans DEF T
    <3>2. InsertResult(Put(held, second), first) = "Ok"
      BY <1>3, <2>2, <2>4, <2>7, InsertsMeans DEF T
    <3> QED BY <2>3, <3>1, <3>2
  <2>8. CASE first.part = second.part
    <3> DEFINE S == T(first.part)
               limit == Limit(first.part)
               x == Slot(first)
               y == Slot(second)
    <3>1. /\ Taken(Put(held, first), second.part) = S \cup {x}
          /\ Taken(Put(held, second), first.part) = S \cup {y}
          /\ Taken(held, first.part) = S /\ Taken(held, second.part) = S
          /\ Limit(first.part) = limit /\ Limit(second.part) = limit
          /\ limit \in Nat /\ IsFiniteSet(S)
          /\ Found(held, first) # None <=> x \in S
          /\ Found(held, second) # None <=> y \in S
      BY <2>4, <2>5, <2>6, <2>8 DEF T
    <3> HIDE DEF S, limit, x, y
    <3>2. Cardinality(S \cup {x}) < limit =>
            Cardinality(S) < limit /\ (x \notin S \/ y \in S => Cardinality(S \cup {y}) < limit)
      BY <3>1, RoomEitherWay
    <3>3. InsertResult(held, second) = "Ok"
      BY <1>4, <2>2, <3>1, <3>2, InsertsMeans
    <3>4. y \in S => S \cup {y} = S
      OBVIOUS
    <3>5. CASE Found(held, first) = Entry(first)
      BY <2>2, <2>3, <3>3, <3>5, InsertsMeans
    <3>6. CASE Found(held, first) = None /\ Cardinality(S) < limit
      <4>1. x \notin S
        BY <3>1, <3>6
      <4>2. Cardinality(S \cup {y}) < limit
        <5>1. CASE y \in S
          BY <3>4, <3>6, <5>1
        <5>2. CASE y \notin S
          <6>1. Found(held, second) = None
            BY <3>1, <5>2
          <6>2. Cardinality(S \cup {x}) < limit
            BY <1>1, <1>4, <2>2, <3>1, <6>1
          <6> QED BY <3>2, <4>1, <6>2
        <5> QED BY <5>1, <5>2
      <4>3. InsertResult(Put(held, second), first) = "Ok"
        BY <2>2, <3>1, <3>6, <4>2, InsertsMeans
      <4> QED BY <2>3, <3>3, <4>3
    <3> QED BY <1>3, <3>1, <3>5, <3>6 DEF T
  <2> QED BY <2>7, <2>8
<1> QED BY <1>5, <1>6

Kept ==
  /\ FourMaps(bundle)
  /\ \A g \in DOMAIN bundle.revocation_proofs : bundle.revocation_proofs[g] # None

LEMMA InitKept == Init => Kept
  BY DEF Init, Kept, FourMaps, EmptyBundle, EmptyMap

LEMMA AcceptedIsKept ==
  ASSUME Kept, NEW offer \in Offers, Accepts(bundle, offer), bundle' = Put(bundle, offer)
  PROVE  Kept'
<1>1. FourMaps(bundle')
  BY FourMapsStay DEF Kept
<1>2. Entry(offer) # None
  BY AcceptedFacts
<1>3. DOMAIN bundle = {"discovery_documents", "delegated_documents", "revocation_proofs",
                       "ownership_transition_chains"}
  BY FourMapsDomain DEF Kept
<1>4. CASE offer.part = "proof"
  <2> DEFINE map == bundle.revocation_proofs
             new == bundle'.revocation_proofs
             key == offer.raw.trustgrant_id
  <2>1. new = With(map, key, offer.raw)
    BY <1>3, <1>4, PutFacts
  <2>2. offer.raw # None
    BY <1>2, <1>4 DEF Entry
  <2>3. \A g \in DOMAIN map : map[g] # None
    BY DEF Kept
  <2> HIDE DEF map, new, key
  <2>4. \A g \in DOMAIN new : new[g] # None
    BY <2>1, <2>2, <2>3 DEF With
  <2> QED BY <1>1, <2>4 DEF Kept, new
<1>5. CASE offer.part # "proof"
  <2>1. bundle'.revocation_proofs = bundle.revocation_proofs
    BY <1>3, <1>5, PutFacts, PartOfOffer
  <2> QED BY <1>1, <2>1 DEF Kept
<1> QED BY <1>4, <1>5

LEMMA BundleAlwaysKept == Spec => []Kept
<1>1. Kept /\ [Next]_bundle => Kept'
  <2> SUFFICES ASSUME Kept, [Next]_bundle PROVE Kept'
    OBVIOUS
  <2>1. CASE bundle' = bundle
    BY <2>1 DEF Kept
  <2>2. ASSUME NEW offer \in Offers, Offer(offer), bundle' # bundle PROVE Kept'
    <3>1. Accepts(bundle, offer) /\ bundle' = Put(bundle, offer)
      BY <2>2 DEF Offer, After
    <3> QED BY <3>1, AcceptedIsKept
  <2> QED BY <2>1, <2>2 DEF Next
<1> QED BY <1>1, InitKept, PTL DEF Spec

LEMMA FinitelyMuchTaken == BundleOK => PartsFinite(bundle)
<1> SUFFICES ASSUME BundleOK PROVE PartsFinite(bundle)
  OBVIOUS
<1>1. /\ IsFiniteSet(Taken(bundle, "discovery")) /\ IsFiniteSet(Taken(bundle, "delegated"))
      /\ IsFiniteSet(Taken(bundle, "proof")) /\ IsFiniteSet(Taken(bundle, "chain"))
  BY TakenIs DEF BundleOK
<1> QED BY <1>1 DEF PartsFinite, Parts

LEMMA NothingFoundElsewhere == BundleOK /\ Sourced /\ Kept => NoneNowhere(bundle)
<1> SUFFICES ASSUME BundleOK, Sourced, Kept, NEW o \in Parsed
             PROVE  Found(bundle, o) # None <=> Slot(o) \in Taken(bundle, o.part)
  BY DEF NoneNowhere
<1>0. o \in Offers
  BY InsertsMeans
<1>1. CASE o.part = "discovery"
  <2> DEFINE map == bundle.discovery_documents
             key == Entry(o).authority_id
  <2>1. /\ Found(bundle, o) = EntryOr(map, key, None) /\ Slot(o) = key
        /\ Taken(bundle, o.part) = DOMAIN map
    BY <1>1, TakenIs DEF Found, Slot
  <2>2. ASSUME key \in DOMAIN map PROVE map[key] # None
    <3>1. RootSource(map[key], key)
      BY <2>2 DEF Sourced
    <3> QED BY <3>1, RootFacts
  <2> HIDE DEF map, key
  <2> QED BY <2>1, <2>2 DEF EntryOr
<1>2. CASE o.part = "delegated"
  <2> DEFINE map == bundle.delegated_documents
             A == Entry(o).authority_id
             p == Entry(o).principal
  <2>1. /\ Found(bundle, o) = Delegate(map, A, p) /\ Slot(o) = <<A, p.kind, p.id>>
        /\ Taken(bundle, o.part) = Delegates(map)
    BY <1>2, TakenIs DEF Found, Slot
  <2>2. <<A, p.kind, p.id>> \in Delegates(map) <=> InDelegated(map, A, p.kind, p.id)
    <3> HIDE DEF map, A, p
    <3>1. <<A, p.kind, p.id>> \in Delegates(map) <=>
            \E a, k, i : InDelegated(map, a, k, i) /\ <<A, p.kind, p.id>> = <<a, k, i>>
      BY DelegatesAreEntries
    <3> QED BY <3>1
  <2>3. ASSUME InDelegated(map, A, p.kind, p.id) PROVE map[A][p.kind][p.id] # None
    <3>1. DelegateSource(map[A][p.kind][p.id], A, p.kind, p.id)
      BY <2>3 DEF Sourced
    <3> QED BY <3>1, DelegateFacts
  <2>4. /\ InDelegated(map, A, p.kind, p.id) => Delegate(map, A, p) = map[A][p.kind][p.id]
        /\ ~InDelegated(map, A, p.kind, p.id) => Delegate(map, A, p) = None
    <3> HIDE DEF map, A, p
    <3> QED BY DelegateIsEntry
  <2> HIDE DEF map, A, p
  <2> QED BY <2>1, <2>2, <2>3, <2>4
<1>3. CASE o.part = "proof"
  <2>1. /\ Found(bundle, o) = EntryOr(bundle.revocation_proofs, o.raw.trustgrant_id, None)
        /\ Slot(o) = o.raw.trustgrant_id
        /\ Taken(bundle, o.part) = DOMAIN bundle.revocation_proofs
    BY <1>3, TakenIs DEF Found, Slot
  <2> QED BY <2>1 DEF EntryOr, Kept
<1>4. CASE o.part = "chain"
  <2>1. /\ Found(bundle, o) = EntryOr(bundle.ownership_transition_chains, o.raw.grant, None)
        /\ Slot(o) = o.raw.grant
        /\ Taken(bundle, o.part) = DOMAIN bundle.ownership_transition_chains
    BY <1>4, TakenIs DEF Found, Slot
  <2> QED BY <2>1 DEF EntryOr, BundleOK
<1> QED BY <1>0, <1>1, <1>2, <1>3, <1>4, PartOfOffer

(***************************************************************************)
(* The insert_* functions of bundle.rs: two offers that a bundle takes one *)
(* after the other it takes the other way round, to end up the same.  The  *)
(* order of offers matters to nothing but conflicts and limits.            *)
(***************************************************************************)
THEOREM OrderNeverMatters == Spec => []OrderIsImmaterial
<1>1. BundleOK /\ Sourced /\ Kept => OrderIsImmaterial
  <2> SUFFICES ASSUME BundleOK, Sourced, Kept PROVE OrderIsImmaterial
    OBVIOUS
  <2> DEFINE fitting == {offer \in Parsed : InsertResult(bundle, offer) = "Ok"}
             after   == [offer \in fitting |-> Put(bundle, offer)]
  <2>1. FourMaps(bundle) /\ NoneNowhere(bundle) /\ PartsFinite(bundle)
    BY FinitelyMuchTaken, NothingFoundElsewhere DEF Kept
  <2>2. ASSUME NEW first \in fitting, NEW second \in Parsed,
               InsertResult(after[first], second) = "Ok"
        PROVE  /\ second \in fitting /\ InsertResult(after[second], first) = "Ok"
               /\ Put(after[second], first) = Put(after[first], second)
    <3>1. after[first] = Put(bundle, first) /\ first \in Parsed /\ InsertResult(bundle, first) = "Ok"
      OBVIOUS
    <3>2. /\ InsertResult(bundle, second) = "Ok"
          /\ InsertResult(Put(bundle, second), first) = "Ok"
          /\ Put(Put(bundle, second), first) = Put(Put(bundle, first), second)
      <4> HIDE DEF after, fitting
      <4> QED BY <2>1, <2>2, <3>1, EitherOrder
    <3>3. second \in fitting /\ after[second] = Put(bundle, second)
      BY <3>2
    <3> HIDE DEF after, fitting
    <3> QED BY <3>1, <3>2, <3>3
  <2>3. OrderIsImmaterial <=>
          \A first \in fitting, second \in Parsed :
            InsertResult(after[first], second) = "Ok"
              => /\ second \in fitting /\ InsertResult(after[second], first) = "Ok"
                 /\ Put(after[second], first) = Put(after[first], second)
    BY Zenon DEF OrderIsImmaterial
  <2> HIDE DEF after, fitting
  <2> QED BY <2>2, <2>3
<1> QED BY <1>1, BundleAlwaysOK, BundleAlwaysSourced, BundleAlwaysKept, PTL
=============================================================================
