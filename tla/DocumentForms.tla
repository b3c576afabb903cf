---------------------------- MODULE DocumentForms ---------------------------
(***************************************************************************)
(* The other forms of a document (trustgrant-verify): the canonical form   *)
(* that is signed (canonicalize.rs), the record that is stored and what is *)
(* read back from it (record.rs), and the raw form in which a document is  *)
(* checked when it is read back (verified_grant.rs).                       *)
(***************************************************************************)
EXTENDS DocumentRules, SequencesExt

\* The canonical form: the values in the order in which the members of the
\* JSON objects are written, null for an absent one.

WriteSelector(selector) ==
  <<selector.all, selector.expressions, selector.kind, selector.values>>

WriteSelectors(option) == Optional(option, LAMBDA s : Each(s, WriteSelector))

WriteScope(scope) == <<scope.all, WriteSelectors(scope.allow), WriteSelectors(scope.deny)>>

WriteAudienceEntry(entry) ==
  <<entry.authority_id, Optional(entry.principal_scope, WriteScope), WriteScope(entry.scope)>>

WriteAudience(option) == Optional(option, LAMBDA s : Each(s, WriteAudienceEntry))

WriteOperations(option) == Optional(option, LAMBDA scope : <<scope.allow, scope.deny>>)

WriteResourceType(type) ==
  <<type.all, WriteSelectors(type.allow),
    <<type.capabilities.mint, type.capabilities.recognize>>,
    <<WriteAudience(type.audience_scope), <<type.minting.max_per_user, type.minting.max_total>>>>,
    WriteSelectors(type.deny), WriteOperations(type.operations)>>

WriteResourceScope(types) ==
  Each(types, LAMBDA entry : <<entry.name, WriteResourceType(entry.type)>>)

WriteTimeWindow(option) == Optional(option, LAMBDA w : <<w.not_after, w.not_before>>)

WriteConstraints(option) == Optional(option, LAMBDA c : <<WriteTimeWindow(c.time)>>)

\* Mutant: the effect is not signed.
WriteRevocationOnly(option) == Optional(option, LAMBDA r : <<r.revocable, r.endpoint>>)

WriteRevocation(option) == Optional(option, LAMBDA r : <<r.effect, r.revocable, r.endpoint>>)

WritePrincipal(option) == Optional(option, LAMBDA p : <<p.id, p.kind>>)

\* Neither the signature nor the interoperability profile is written.
Canonical(raw) ==
  <<raw.active_owning_authority, <<raw.capabilities.mint, raw.capabilities.recognize>>,
    WriteAudience(raw.default_audience_scope), WriteConstraints(raw.global_constraints),
    raw.grant_series_id, raw.issued_at, raw.issuer_authority, WritePrincipal(raw.issuer_principal),
    raw.key_id, raw.origin_authority, WriteResourceScope(raw.resource_scope), raw.revision,
    WriteRevocation(raw.revocation), raw.supersedes, raw.supersession_policy,
    WriteScope(raw.target_scope), raw.trustgrant_id, raw.version>>

-----------------------------------------------------------------------------
(* The raw form for the consistency check: empty lists are absent, the     *)
(* effect of a revocation is not carried over.                             *)

Some(items) == IF items = <<>> THEN None ELSE items

RawSelector(selector) ==
  [selector EXCEPT !.values = Some(@), !.expressions = Some(@)]

RawSelectors(selectors) == Some(Each(selectors, RawSelector))

RawScope(scope) == [scope EXCEPT !.allow = RawSelectors(@), !.deny = RawSelectors(@)]

RawAudienceEntry(entry) ==
  [entry EXCEPT !.scope = RawScope(@), !.principal_scope = Optional(@, RawScope)]

RawAudience(entries) == Some(Each(entries, RawAudienceEntry))

RawOperations(scope) == [allow |-> Some(scope.allow), deny |-> Some(scope.deny)]

RawResourceType(type) ==
  [type EXCEPT !.allow = RawSelectors(@), !.deny = RawSelectors(@),
               !.audience_scope = RawAudience(@), !.operations = Optional(@, RawOperations)]

\* The text that stands in for the signature, which is not kept.
ASSUME PlaceholderAssumption == "rehydrated-signature" # None

RawForConsistencyCheck(document) ==
  [field \in DOMAIN document \cup {"version", "signature", "global_constraints"} |->
     CASE field = "version"      -> 0
       [] field = "signature"    -> "rehydrated-signature"
       [] field = "target_scope" -> RawScope(document.target_scope)
       [] field = "default_audience_scope" -> RawAudience(document.default_audience_scope)
       [] field = "resource_scope" ->
            Each(SetToSeq(DOMAIN document.resource_scope),
                 LAMBDA n : [name |-> n, type |-> RawResourceType(document.resource_scope[n])])
       [] field = "global_constraints" ->
            Optional(document.global_time_window, LAMBDA w : [time |-> w])
       [] field = "revocation" ->
            Optional(document.revocation, LAMBDA r : [r EXCEPT !.effect = "BlockAll"])
       [] OTHER -> document[field]]

-----------------------------------------------------------------------------
(* Records.  A record spells out a document field by field: in this model  *)
(* the texts of one are the texts of the other.  Reading it trims again,   *)
(* but lists keep what they have.                                          *)

CONSTANT RecordVersion   \* VERIFIED_TRUSTGRANT_RECORD_VERSION

\* What the types of a record leave possible: lists where a document may
\* have null.
KeptSelector == [kind : Texts, all : BOOLEAN, values : Seq(Texts), expressions : Seq(Texts)]

KeptScope == [all : BOOLEAN, allow : Seq(KeptSelector), deny : Seq(KeptSelector)]

KeptAudienceEntry ==
  [authority_id : Texts, scope : KeptScope, principal_scope : Option(KeptScope)]

KeptType ==
  [all : BOOLEAN, allow : Seq(KeptSelector), deny : Seq(KeptSelector),
   capabilities : AnyTypeCapabilities, minting : AnyMinting,
   audience_scope : Seq(KeptAudienceEntry),
   operations : Option([allow : Seq(Texts), deny : Seq(Texts)])]

KeptTypes ==
  [trustgrant_id |-> Texts, grant_series_id |-> Texts, revision |-> Nat,
   supersedes |-> Option(Texts),
   supersession_policy |-> {"Coexist", "SupersedePrevious", "ExplicitRevocationRequired"},
   issuer_authority |-> Texts, origin_authority |-> Texts, active_owning_authority |-> Texts,
   key_id |-> Texts, target_scope |-> KeptScope, capabilities |-> RawTypes.capabilities,
   default_audience_scope |-> Seq(KeptAudienceEntry),
   global_time_window |-> Option(AnyWindow), revocation |-> Option(AnyRevocation),
   issued_at |-> Int, issuer_principal |-> Option(AnyPrincipal),
   interoperability_profile |-> Option(AnyProfile)]

IsKeptScope(scope) ==
  /\ IsFiniteSet(DOMAIN scope) /\ DOMAIN scope \subseteq Texts
  /\ \A name \in DOMAIN scope : scope[name] \in KeptType

IsKept(document) ==
  /\ DOMAIN document = DOMAIN KeptTypes \cup {"resource_scope"}
  /\ \A field \in DOMAIN KeptTypes : document[field] \in KeptTypes[field]
  /\ IsKeptScope(document.resource_scope)

\* What the verification metadata says of the document.
Metadata(document) ==
  [issuer_authority |-> document.issuer_authority, key_id |-> document.key_id,
   principal |-> document.issuer_principal, origin_authority |-> document.origin_authority,
   active_owning_authority |-> document.active_owning_authority,
   checked |-> document.revocation # None /\ document.revocation.revocable]

\* Mutant: the effect of a revocation is forgotten.
RecordWithoutEffect(document) ==
  [record_version |-> RecordVersion, metadata |-> Metadata(document),
   document |-> [document EXCEPT !.revocation =
                   Optional(@, LAMBDA r : [r EXCEPT !.effect = "BlockAll"])]]

RecordOf(document) ==
  [record_version |-> RecordVersion, document |-> document, metadata |-> Metadata(document)]

LoadedSelectorResult(record) ==
  FirstError(<<LimitResult(record.values, MaxSelectorValues),
               LimitResult(record.expressions, MaxExpressions), SelectorResult(record)>>)

LoadedSelector(record) ==
  [Selector(record) EXCEPT !.values = Each(record.values, LAMBDA t : Trim[t])]

LoadedSelectorsResult(records) ==
  UniqueResult(records, LoadedSelectorResult,
               LAMBDA l, r : SameSelector(LoadedSelector(l), LoadedSelector(r)),
               "DuplicateSelector")

LoadedSelectors(records) == Each(records, LoadedSelector)

LoadedListsResult(record) ==
  FirstError(<<LimitResult(record.allow, MaxSelectors), LimitResult(record.deny, MaxSelectors),
               LoadedSelectorsResult(record.allow), LoadedSelectorsResult(record.deny)>>)

LoadedScopeResult(record) ==
  FirstError(<<LoadedListsResult(record), ScopeShapeResult(record.all, record.allow)>>)

LoadedScope(record) ==
  [record EXCEPT !.allow = LoadedSelectors(@), !.deny = LoadedSelectors(@)]

\* Nothing is said here of an authority that is listed twice.
LoadedAudienceEntryResult(record) ==
  FirstError(<<AuthorityResult(record.authority_id), LoadedScopeResult(record.scope),
               IF record.principal_scope = None THEN "Ok"
               ELSE LoadedScopeResult(record.principal_scope)>>)

LoadedAudienceResult(records) == FirstError(Each(records, LoadedAudienceEntryResult))

LoadedAudience(records) ==
  Each(records, LAMBDA r : [authority_id |-> AuthorityOf(r.authority_id),
                            scope |-> LoadedScope(r.scope),
                            principal_scope |-> Optional(r.principal_scope, LoadedScope)])

LoadedTypeResult(record) ==
  FirstError(<<LimitResult(record.audience_scope, MaxAudienceEntries),
               LoadedListsResult(record),
               LoadedAudienceResult(record.audience_scope),
               OperationScopeResult(record.operations),
               ScopeShapeResult(record.all, record.allow)>>)

LoadedType(record) ==
  [record EXCEPT !.allow = LoadedSelectors(@), !.deny = LoadedSelectors(@),
                 !.audience_scope = LoadedAudience(@), !.operations = Optional(@, OperationScope)]

\* try_to_normalized_document.
NormalizedResult(record) ==
  FirstError(<<LimitResult(record.default_audience_scope, MaxAudienceEntries),
               IF Cardinality(DOMAIN record.resource_scope) > MaxResourceTypes
               THEN "CollectionLimitExceeded" ELSE "Ok",
               LineageResult(record),
               IF record.supersession_policy = "ExplicitRevocationRequired"
               THEN "UnsupportedV0WireSupersessionPolicy" ELSE "Ok",
               AuthorityResult(record.issuer_authority), AuthorityResult(record.origin_authority),
               AuthorityResult(record.active_owning_authority), TokenResult(record.key_id),
               LoadedScopeResult(record.target_scope),
               LoadedAudienceResult(record.default_audience_scope),
               IF \E n \in DOMAIN record.resource_scope :
                    TokenResult(n) # "Ok" \/ LoadedTypeResult(record.resource_scope[n]) # "Ok"
               THEN "InvalidResourceType" ELSE "Ok",
               WindowResult(record.global_time_window), PrincipalResult(record.issuer_principal)>>)

\* Names of types that trim to one are left out.
Normalized(record) ==
  [record EXCEPT
     !.trustgrant_id    = TrustGrantIdOf[@], !.grant_series_id = GrantSeriesIdOf[@],
     !.supersedes       = Optional(@, LAMBDA t : TrustGrantIdOf[t]),
     !.issuer_authority = AuthorityOf(@), !.origin_authority = AuthorityOf(@),
     !.active_owning_authority = AuthorityOf(@), !.key_id = Trim[@],
     !.target_scope     = LoadedScope(@), !.default_audience_scope = LoadedAudience(@),
     !.resource_scope   =
       [name \in {Trim[n] : n \in DOMAIN record.resource_scope} |->
          LoadedType(record.resource_scope[CHOOSE n \in DOMAIN record.resource_scope : Trim[n] = name])],
     !.issuer_principal = Optional(@, Principal)]

\* Mutant: the document is not validated again.
MetadataOnly(document, metadata) ==
  IF Metadata(document) = metadata THEN "Ok" ELSE "MetadataMismatch"

\* Mutant: what the metadata says is not compared.
ShapesOnly(document, metadata) == DocumentResult(RawForConsistencyCheck(document))

\* ensure_verified_grant_consistent, but for key windows and freshness
\* (GrantVerification).
ConsistencyResult(document, metadata) ==
  FirstError(<<DocumentResult(RawForConsistencyCheck(document)),
               IF Metadata(Document(RawForConsistencyCheck(document))) = metadata
               THEN "Ok" ELSE "MetadataMismatch">>)

LoadResult(record) ==
  FirstError(<<IF record.record_version = RecordVersion THEN "Ok"
               ELSE "UnsupportedPersistedVerifiedGrantRecordVersion",
               NormalizedResult(record.document),
               IF NormalizedResult(record.document) = "Ok"
               THEN ConsistencyResult(Normalized(record.document), record.metadata) ELSE "Ok">>)
=============================================================================
