--------------------------- MODULE EvaluationRules --------------------------
(***************************************************************************)
(* EvaluationEngine::evaluate as a function of a verified grant and a      *)
(* request.  Each reason for denial is a predicate; the decision is the    *)
(* first reason, in the order in which the engine looks, that applies.     *)
(* Values and expressions are one thing here: an expression is the set of  *)
(* values it matches.                                                      *)
(***************************************************************************)
EXTENDS MintingConstraints, Sequences

\* Mutant: every value of the context has to be listed.
SelectorCoversContext(selector, context) ==
  \/ selector.all
  \/ /\ selector.kind \in DOMAIN context
     /\ context[selector.kind] \subseteq selector.values \cup UNION selector.expressions

\* A selector matches a context that has a value of its kind that it lists
\* or whose expressions match; one that says `all` matches any context.
SelectorMatches(selector, context) ==
  \/ selector.all
  \/ /\ selector.kind \in DOMAIN context
     /\ (selector.values \cup UNION selector.expressions) \cap context[selector.kind] # {}

AnyMatches(selectors, context) == \E s \in selectors : SelectorMatches(s, context)

\* Mutant: a scope that lists denials is read as allowing the rest.
NotAllowedWithoutDeny(scope, context) ==
  ~scope.all /\ scope.deny = {} /\ ~AnyMatches(scope.allow, context)

\* evaluate_scope_with_reasons: allow first, then deny.
NotAllowed(scope, context) == ~scope.all /\ ~AnyMatches(scope.allow, context)

Denied(scope, context) == AnyMatches(scope.deny, context)

IsMintOperation(request) == request.operation = "mint"

ResourceTypeOf(grant, request) == grant.types[request.type]

-----------------------------------------------------------------------------
(* Revocation, time and origin.                                            *)

UnverifiedSelectors(grant, request) == IsMintOperation(request) /\ ~request.selectors_verified

Checked(grant) == grant.revocation # None

\* Mutant: evidence is stale at the last instant of its freshness.
StaleAtEnd(grant, request) ==
  Checked(grant) /\ request.evaluated_at >= grant.revocation.fresh_until

StaleRevocationData(grant, request) ==
  Checked(grant) /\ request.evaluated_at > grant.revocation.fresh_until

Revoked(grant, request) ==
  /\ Checked(grant)
  /\ grant.revocation.status = "Revoked"
  /\ grant.effect = "BlockMintingOnly" => IsMintOperation(request)

NotYetValid(grant, request) ==
  grant.window # None /\ request.evaluated_at < grant.window.not_before

\* Mutant: the end of the window is an instant, not a bound.
ExpiredAtEnd(grant, request) ==
  grant.window # None /\ request.evaluated_at = grant.window.not_after

\* Mutant: what a revocation lets through is not checked any further.
ExpiredUnlessRevoked(grant, request) ==
  /\ grant.window # None
  /\ Checked(grant) => grant.revocation.status = "Active"
  /\ request.evaluated_at > grant.window.not_after

Expired(grant, request) ==
  grant.window # None /\ request.evaluated_at > grant.window.not_after

OriginAuthorityMismatch(grant, request) == request.origin # grant.origin

TargetNotAllowed(grant, request) == NotAllowed(grant.target, request.target)
TargetDenied(grant, request)     == Denied(grant.target, request.target)

ResourceTypeNotGranted(grant, request) == request.type \notin DOMAIN grant.types

-----------------------------------------------------------------------------
(* evaluate_resource_type.                                                 *)

Effective(own, global) == IF own = None THEN global ELSE own

\* is_capability_enabled: custom operations have no capability.
CapabilityDisabled(grant, request) ==
  LET type == ResourceTypeOf(grant, request)
  IN  \/ request.operation = "recognize" /\ ~Effective(type.recognize, grant.recognize)
      \/ request.operation = "mint" /\ ~Effective(type.mint, grant.mint)

ResourceNotAllowed(grant, request) == NotAllowed(ResourceTypeOf(grant, request), request.selectors)
ResourceDenied(grant, request)     == Denied(ResourceTypeOf(grant, request), request.selectors)

\* The name an operations scope has to list; mint is called "create" there.
OperationName(request) == IF IsMintOperation(request) THEN "create" ELSE request.operation

OperationDenied(grant, request) ==
  LET scope == ResourceTypeOf(grant, request).operations
  IN  IF scope = None
      THEN request.operation # "recognize"
      ELSE OperationName(request) \in scope.deny \/ OperationName(request) \notin scope.allow

\* An audience scope maps authorities (unique by validation) to entries.
\* The one of the type, when it has entries, replaces the default.
Audience(grant, request) ==
  LET own == ResourceTypeOf(grant, request).audience
  IN  IF DOMAIN own = {} THEN grant.default_audience ELSE own

AudienceRestricted(grant, request) == DOMAIN Audience(grant, request) # {}

NoAudienceEntry(grant, request) ==
  AudienceRestricted(grant, request) /\ request.audience \notin DOMAIN Audience(grant, request)

HasAudienceEntry(grant, request) == request.audience \in DOMAIN Audience(grant, request)

AudienceEntry(grant, request) == Audience(grant, request)[request.audience]

AudienceNotAllowed(grant, request) ==
  \/ NoAudienceEntry(grant, request)
  \/ /\ HasAudienceEntry(grant, request)
     /\ NotAllowed(AudienceEntry(grant, request).scope, request.audience_context)

AudienceDenied(grant, request) ==
  /\ HasAudienceEntry(grant, request)
  /\ Denied(AudienceEntry(grant, request).scope, request.audience_context)

PrincipalRestricted(grant, request) ==
  HasAudienceEntry(grant, request) /\ AudienceEntry(grant, request).principal_scope # None

AudiencePrincipalNotAllowed(grant, request) ==
  /\ PrincipalRestricted(grant, request)
  /\ NotAllowed(AudienceEntry(grant, request).principal_scope, request.principal)

AudiencePrincipalDenied(grant, request) ==
  /\ PrincipalRestricted(grant, request)
  /\ Denied(AudienceEntry(grant, request).principal_scope, request.principal)

\* "Allowed", or why the quota check denies a mint.
MintingVerdict(grant, request) ==
  IF ~IsMintOperation(request) THEN "Allowed"
  ELSE LET limits == ResourceTypeOf(grant, request).minting
       IN  EvaluateMintingConstraints(limits.max_total, limits.max_per_user,
                                      request.mint_context, DOMAIN request.principal = {})

-----------------------------------------------------------------------------
(* The order of the engine: evaluate_inner, then evaluate_resource_type.   *)

GrantChecks(grant, request) ==
  <<[reason |-> "UnverifiedSelectors",     applies |-> UnverifiedSelectors(grant, request)],
    [reason |-> "StaleRevocationData",     applies |-> StaleRevocationData(grant, request)],
    [reason |-> "Revoked",                 applies |-> Revoked(grant, request)],
    [reason |-> "NotYetValid",             applies |-> NotYetValid(grant, request)],
    [reason |-> "Expired",                 applies |-> Expired(grant, request)],
    [reason |-> "OriginAuthorityMismatch", applies |-> OriginAuthorityMismatch(grant, request)],
    [reason |-> "TargetNotAllowed",        applies |-> TargetNotAllowed(grant, request)],
    [reason |-> "TargetDenied",            applies |-> TargetDenied(grant, request)],
    [reason |-> "ResourceTypeNotGranted",  applies |-> ResourceTypeNotGranted(grant, request)]>>

TypeChecks(grant, request) ==
  <<[reason |-> "CapabilityDisabled", applies |-> CapabilityDisabled(grant, request)],
    [reason |-> "ResourceNotAllowed", applies |-> ResourceNotAllowed(grant, request)],
    [reason |-> "ResourceDenied",     applies |-> ResourceDenied(grant, request)],
    [reason |-> "OperationDenied",    applies |-> OperationDenied(grant, request)],
    [reason |-> "AudienceNotAllowed", applies |-> AudienceNotAllowed(grant, request)],
    [reason |-> "AudienceDenied",     applies |-> AudienceDenied(grant, request)],
    [reason |-> "AudiencePrincipalNotAllowed",
     applies |-> AudiencePrincipalNotAllowed(grant, request)],
    [reason |-> "AudiencePrincipalDenied", applies |-> AudiencePrincipalDenied(grant, request)],
    [reason |-> MintingVerdict(grant, request),
     applies |-> MintingVerdict(grant, request) # "Allowed"]>>

Applying(checks) == {i \in DOMAIN checks : checks[i].applies}

FirstReason(checks) ==
  checks[CHOOSE i \in Applying(checks) : \A j \in Applying(checks) : i <= j].reason

\* Only a granted type has checks of its own.
Evaluate(grant, request) ==
  IF Applying(GrantChecks(grant, request)) # {}
  THEN [allowed |-> FALSE, reason |-> FirstReason(GrantChecks(grant, request))]
  ELSE IF Applying(TypeChecks(grant, request)) # {}
  THEN [allowed |-> FALSE, reason |-> FirstReason(TypeChecks(grant, request))]
  ELSE [allowed |-> TRUE, reason |-> None]

Allows(grant, request) == Evaluate(grant, request).allowed
=============================================================================
