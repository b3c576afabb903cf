---------------------------- MODULE DocumentRules ---------------------------
(***************************************************************************)
(* How a raw TrustGrant document becomes a validated one, or an error      *)
(* (trustgrant-document: raw.rs, validated.rs).  For each part there is an *)
(* operator for the result and one for the validated part, which means     *)
(* something when the result is "Ok".  JSON itself is left out, and texts  *)
(* are those of Names.  Resource types are a sequence in the order of the  *)
(* code's map, with names that differ as spelled.                          *)
(***************************************************************************)
EXTENDS Names, Integers, Sequences, FiniteSets

CONSTANTS
  None,                 \* Rust's Option::None
  TrustGrantIdOf,       \* text -> the id in its own spelling, None if it is no id
  GrantSeriesIdOf,
  ExpressionOf,         \* text -> the expression in its own spelling, or None
  MaxResourceTypes,     \* limits.rs, from here on
  MaxAudienceEntries,
  MaxSelectors,
  MaxSelectorValues,
  MaxExpressions,
  MaxOperations

Spellings == [Texts -> Texts \cup {None}]

\* Ids and expressions are printed so that they are read back as they were;
\* SelectorExpressions shows it of expressions.
ASSUME DocumentAssumption ==
  /\ None \notin Texts
  /\ {TrustGrantIdOf, GrantSeriesIdOf, ExpressionOf} \subseteq Spellings
  /\ \A t \in Texts :
       /\ TrustGrantIdOf[t] # None => TrustGrantIdOf[TrustGrantIdOf[t]] = TrustGrantIdOf[t]
       /\ GrantSeriesIdOf[t] # None => GrantSeriesIdOf[GrantSeriesIdOf[t]] = GrantSeriesIdOf[t]
       /\ ExpressionOf[t] # None /\ t \notin Long =>
            LET expression == ExpressionOf[t]
            IN  /\ ExpressionOf[expression] = expression
                /\ Trim[expression] = expression /\ expression \notin Long \cup {Blank}
  /\ {MaxResourceTypes, MaxAudienceEntries, MaxSelectors, MaxSelectorValues,
      MaxExpressions, MaxOperations} \subseteq Nat

Option(S) == {None} \cup S

\* What the types of raw.rs leave possible.
AnySelector ==
  [kind : Texts, all : BOOLEAN, values : Option(Seq(Texts)), expressions : Option(Seq(Texts))]

AnyScope == [all : BOOLEAN, allow : Option(Seq(AnySelector)), deny : Option(Seq(AnySelector))]

AnyAudienceEntry == [authority_id : Texts, scope : AnyScope, principal_scope : Option(AnyScope)]

AnyOperations == [allow : Option(Seq(Texts)), deny : Option(Seq(Texts))]

AnyMinting == [max_total : Option(Nat), max_per_user : Option(Nat)]

AnyTypeCapabilities == [recognize : Option(BOOLEAN), mint : Option(BOOLEAN)]

AnyResourceType ==
  [all : BOOLEAN, allow : Option(Seq(AnySelector)), deny : Option(Seq(AnySelector)),
   capabilities : AnyTypeCapabilities, minting : AnyMinting,
   audience_scope : Option(Seq(AnyAudienceEntry)), operations : Option(AnyOperations)]

AnyWindow == [not_before : Int, not_after : Int]

AnyConstraints == [time : Option(AnyWindow)]

AnyRevocation ==
  [revocable : BOOLEAN, endpoint : STRING, effect : {"BlockAll", "BlockMintingOnly"}]

AnyPrincipal == [kind : Texts, id : Texts]

AnyProfile == [name : STRING, version : Nat]

RawTypes ==
  [trustgrant_id |-> Texts, version |-> Nat, grant_series_id |-> Texts, revision |-> Nat,
   supersedes |-> Option(Texts), supersession_policy |-> {"Coexist", "SupersedePrevious"},
   issuer_authority |-> Texts, origin_authority |-> Texts, active_owning_authority |-> Texts,
   key_id |-> Texts, target_scope |-> AnyScope, capabilities |-> [recognize : BOOLEAN, mint : BOOLEAN],
   default_audience_scope |-> Option(Seq(AnyAudienceEntry)),
   resource_scope |-> Seq([name : Texts, type : AnyResourceType]),
   global_constraints |-> Option(AnyConstraints), revocation |-> Option(AnyRevocation),
   issued_at |-> Int, issuer_principal |-> Option(AnyPrincipal),
   interoperability_profile |-> Option(AnyProfile)]

\* A signature may be anything.
IsRaw(raw) ==
  /\ DOMAIN raw = DOMAIN RawTypes \cup {"signature"}
  /\ \A field \in DOMAIN RawTypes : raw[field] \in RawTypes[field]

\* null is neither an object nor a list: not as it is written, either.
WrittenSelector == BOOLEAN \X Option(Seq(Texts)) \X Texts \X Option(Seq(Texts))

WrittenScope == BOOLEAN \X Option(Seq(WrittenSelector)) \X Option(Seq(WrittenSelector))

ASSUME NullAssumption ==
  /\ None \notin Seq(Texts) /\ None \notin Seq(AnySelector) /\ None \notin Seq(AnyAudienceEntry)
  /\ None \notin AnyScope /\ None \notin AnyOperations
  /\ None \notin AnyConstraints /\ None \notin AnyRevocation
  /\ None \notin Seq(WrittenSelector) /\ None \notin WrittenScope
  /\ None \notin Seq(Texts \X Option(WrittenScope) \X WrittenScope)
  /\ None \notin Option(Seq(Texts)) \X Option(Seq(Texts))
  /\ None \notin Int \X Int /\ None \notin Seq(Option(Int \X Int))
  /\ None \notin {"BlockAll", "BlockMintingOnly"} \X BOOLEAN \X STRING /\ None \notin Texts \X Texts

Items(option) == IF option = None THEN <<>> ELSE option

Each(items, Of(_)) == [i \in DOMAIN items |-> Of(items[i])]

Optional(option, Of(_)) == IF option = None THEN None ELSE Of(option)

LimitResult(items, limit) == IF Len(items) > limit THEN "CollectionLimitExceeded" ELSE "Ok"

\* A loop over items that stops at the first error, or at the first item
\* that was seen before.
UniqueResult(items, Result(_), Alike(_, _), error) ==
  FirstError([i \in DOMAIN items |->
    IF Result(items[i]) # "Ok" THEN Result(items[i])
    ELSE IF \E j \in 1 .. i - 1 : Alike(items[j], items[i]) THEN error ELSE "Ok"])

\* The items in order, each where it comes first.
Deduplicated(items) ==
  LET firsts == {i \in DOMAIN items : \A j \in 1 .. i - 1 : items[j] # items[i]}
      Nth(n) == CHOOSE i \in firsts : Cardinality({j \in firsts : j <= i}) = n
  IN  [n \in 1 .. Cardinality(firsts) |-> items[Nth(n)]]

-----------------------------------------------------------------------------
(* Selectors and scopes.                                                   *)

IdResult(id) == IF id = None THEN "InvalidId" ELSE "Ok"

ExpressionResult(text) ==
  IF TextResult(text) # "Ok" THEN TextResult(text)
  ELSE IF ExpressionOf[Trim[text]] = None THEN "InvalidSelectorExpressionSyntax" ELSE "Ok"

Expression(text) == ExpressionOf[Trim[text]]

\* normalize_non_empty_strings: the limit is on what was given.
SelectorValues(raw) == Deduplicated(Each(Items(raw.values), LAMBDA t : Trim[t]))

ShapeResult(all, empty, error) == IF all = empty THEN "Ok" ELSE error

SelectorResult(raw) ==
  FirstError(
    <<TokenResult(raw.kind),
      LimitResult(Items(raw.values), MaxSelectorValues),
      FirstError(Each(Items(raw.values), TextResult)),
      LimitResult(Items(raw.expressions), MaxExpressions),
      FirstError(Each(Items(raw.expressions), ExpressionResult)),
      ShapeResult(raw.all, Items(raw.values) = <<>> /\ Items(raw.expressions) = <<>>,
                  "InvalidSelectorShape")>>)

Selector(raw) ==
  [kind |-> Trim[raw.kind], all |-> raw.all, values |-> SelectorValues(raw),
   expressions |-> Each(Items(raw.expressions), Expression)]

\* Equality of selectors is that of their fields, kinds compared as kinds.
SameSelector(left, right) ==
  SameKind(left.kind, right.kind) /\ [left EXCEPT !.kind = right.kind] = right

Alike(left, right) == SameSelector(Selector(left), Selector(right))

SelectorsResult(option) ==
  FirstError(<<LimitResult(Items(option), MaxSelectors),
               UniqueResult(Items(option), SelectorResult, Alike, "DuplicateSelector")>>)

Selectors(option) == Each(Items(option), Selector)

ScopeShapeResult(all, allow) == ShapeResult(all, allow = <<>>, "InvalidScopeShape")

ScopeResult(raw) ==
  FirstError(<<SelectorsResult(raw.allow), SelectorsResult(raw.deny),
               ScopeShapeResult(raw.all, Items(raw.allow))>>)

Scope(raw) == [all |-> raw.all, allow |-> Selectors(raw.allow), deny |-> Selectors(raw.deny)]

OptionalScopeResult(option) == IF option = None THEN "Ok" ELSE ScopeResult(option)

-----------------------------------------------------------------------------
(* Operations, audiences, resource types.                                  *)

OperationsResult(option) ==
  FirstError(<<LimitResult(Items(option), MaxOperations),
               FirstError(Each(Items(option), TokenResult))>>)

Operations(option) == Each(Items(option), LAMBDA t : Trim[t])

NoDuplicates(operations) ==
  IF \E i, j \in DOMAIN operations : i # j /\ operations[i] = operations[j]
  THEN "DuplicateOperationName" ELSE "Ok"

OperationScopeResult(raw) ==
  IF raw = None THEN "Ok"
  ELSE FirstError(<<OperationsResult(raw.allow), OperationsResult(raw.deny),
                    IF Items(raw.allow) = <<>> THEN "InvalidScopeShape" ELSE "Ok",
                    NoDuplicates(Operations(raw.allow)), NoDuplicates(Operations(raw.deny))>>)

OperationScope(raw) == [allow |-> Operations(raw.allow), deny |-> Operations(raw.deny)]

\* Mutant: authorities are compared as they are spelled.
SameAudienceSpelled(left, right) == left.authority_id = right.authority_id

SameAudience(left, right) == AuthorityOf(left.authority_id) = AuthorityOf(right.authority_id)

\* The authority of an entry is looked up before its scopes are read.
AudienceResult(option) ==
  LET entries == Items(option)
      Repeats(i) == \E j \in 1 .. i - 1 : SameAudience(entries[j], entries[i])
  IN  FirstError(
        <<LimitResult(entries, MaxAudienceEntries),
          FirstError([i \in DOMAIN entries |->
            FirstError(<<AuthorityResult(entries[i].authority_id),
                         IF Repeats(i) THEN "DuplicateAudienceAuthority" ELSE "Ok",
                         ScopeResult(entries[i].scope),
                         OptionalScopeResult(entries[i].principal_scope)>>)])>>)

AudienceEntry(raw) ==
  [authority_id |-> AuthorityOf(raw.authority_id), scope |-> Scope(raw.scope),
   principal_scope |-> Optional(raw.principal_scope, Scope)]

Audience(option) == Each(Items(option), AudienceEntry)

ResourceTypeResult(raw) ==
  FirstError(<<SelectorsResult(raw.allow), SelectorsResult(raw.deny),
               AudienceResult(raw.audience_scope), OperationScopeResult(raw.operations),
               ScopeShapeResult(raw.all, Items(raw.allow))>>)

ResourceType(raw) ==
  [all |-> raw.all, allow |-> Selectors(raw.allow), deny |-> Selectors(raw.deny),
   capabilities |-> raw.capabilities, minting |-> raw.minting,
   audience_scope |-> Audience(raw.audience_scope),
   operations |-> Optional(raw.operations, OperationScope)]

ResourceScopeResult(types) ==
  FirstError(<<LimitResult(types, MaxResourceTypes),
               FirstError(Each(types, LAMBDA entry :
                 FirstError(<<TokenResult(entry.name), ResourceTypeResult(entry.type)>>)))>>)

\* Collected into a map: of names that trim to one, the last counts.
ResourceScope(types) ==
  [name \in {Trim[types[i].name] : i \in DOMAIN types} |->
     LET named == {i \in DOMAIN types : Trim[types[i].name] = name}
     IN  ResourceType(types[CHOOSE i \in named : \A j \in named : j <= i].type)]

-----------------------------------------------------------------------------
(* Documents.                                                              *)

LineageResult(raw) ==
  LET id         == TrustGrantIdOf[raw.trustgrant_id]
      supersedes == Optional(raw.supersedes, LAMBDA t : TrustGrantIdOf[t])
  IN  FirstError(<<IdResult(id), IdResult(GrantSeriesIdOf[raw.grant_series_id]),
                   IF raw.revision = 0 THEN "ZeroRevision" ELSE "Ok",
                   IF raw.supersedes = None THEN "Ok" ELSE IdResult(supersedes),
                   IF raw.revision = 1 /\ supersedes # None
                   THEN "InvalidSupersedesForFirstRevision" ELSE "Ok",
                   IF supersedes = id THEN "SelfSupersession" ELSE "Ok">>)

WindowResult(window) ==
  IF window # None /\ window.not_before > window.not_after THEN "InvalidTimeWindow" ELSE "Ok"

TimeWindow(constraints) == IF constraints = None THEN None ELSE constraints.time

PrincipalResult(principal) ==
  IF principal = None THEN "Ok"
  ELSE FirstError(<<TokenResult(principal.kind), TokenResult(principal.id)>>)

Principal(raw) == [kind |-> Trim[raw.kind], id |-> Trim[raw.id]]

\* Version, lineage, authorities, key and signature come first.  None is a
\* signature that is blank.
HeadResult(raw) ==
  FirstError(<<IF raw.version = 0 THEN "Ok" ELSE "InvalidProtocolVersion",
               LineageResult(raw),
               AuthorityResult(raw.issuer_authority), AuthorityResult(raw.origin_authority),
               AuthorityResult(raw.active_owning_authority),
               TokenResult(raw.key_id),
               IF raw.signature = None THEN "EmptyStringField" ELSE "Ok">>)

DocumentResult(raw) ==
  FirstError(<<HeadResult(raw),
               ScopeResult(raw.target_scope),
               AudienceResult(raw.default_audience_scope),
               ResourceScopeResult(raw.resource_scope),
               WindowResult(TimeWindow(raw.global_constraints)),
               PrincipalResult(raw.issuer_principal)>>)

\* The validated document, and with it the normalized one that is kept,
\* which differ in the signature alone.
Document(raw) ==
  [trustgrant_id   |-> TrustGrantIdOf[raw.trustgrant_id],
   grant_series_id |-> GrantSeriesIdOf[raw.grant_series_id],
   revision        |-> raw.revision,
   supersedes      |-> Optional(raw.supersedes, LAMBDA t : TrustGrantIdOf[t]),
   supersession_policy     |-> raw.supersession_policy,
   issuer_authority        |-> AuthorityOf(raw.issuer_authority),
   origin_authority        |-> AuthorityOf(raw.origin_authority),
   active_owning_authority |-> AuthorityOf(raw.active_owning_authority),
   key_id          |-> Trim[raw.key_id],
   target_scope    |-> Scope(raw.target_scope),
   capabilities    |-> raw.capabilities,
   default_audience_scope |-> Audience(raw.default_audience_scope),
   resource_scope  |-> ResourceScope(raw.resource_scope),
   global_time_window |-> TimeWindow(raw.global_constraints),
   revocation      |-> raw.revocation,
   issued_at       |-> raw.issued_at,
   issuer_principal        |-> Optional(raw.issuer_principal, Principal),
   interoperability_profile |-> raw.interoperability_profile]
=============================================================================
