-------------------------- MODULE EvaluationProofs --------------------------
(***************************************************************************)
(* How the decisions about one grant are bound to each other, for all      *)
(* grants, requests and instants.  A grant permits what no reason applies  *)
(* to (AllowsMeans), and each relation follows reason by reason.           *)
(***************************************************************************)
EXTENDS Evaluation, TLAPS

GrantPermits(g, r) ==
  /\ ~UnverifiedSelectors(g, r)
  /\ ~StaleRevocationData(g, r)
  /\ ~Revoked(g, r)
  /\ ~NotYetValid(g, r)
  /\ ~Expired(g, r)
  /\ ~OriginAuthorityMismatch(g, r)
  /\ ~TargetNotAllowed(g, r)
  /\ ~TargetDenied(g, r)
  /\ ~ResourceTypeNotGranted(g, r)

TypePermits(g, r) ==
  /\ ~CapabilityDisabled(g, r)
  /\ ~ResourceNotAllowed(g, r)
  /\ ~ResourceDenied(g, r)
  /\ ~OperationDenied(g, r)
  /\ ~AudienceNotAllowed(g, r)
  /\ ~AudienceDenied(g, r)
  /\ ~AudiencePrincipalNotAllowed(g, r)
  /\ ~AudiencePrincipalDenied(g, r)
  /\ MintingVerdict(g, r) = "Allowed"

LEMMA GrantCheckFacts ==
  ASSUME NEW g, NEW r
  PROVE  LET checks == GrantChecks(g, r)
         IN  /\ DOMAIN checks = 1 .. 9
             /\ checks[1].applies = UnverifiedSelectors(g, r)
             /\ checks[2].applies = StaleRevocationData(g, r)
             /\ checks[3].applies = Revoked(g, r)
             /\ checks[4].applies = NotYetValid(g, r)
             /\ checks[5].applies = Expired(g, r)
             /\ checks[6].applies = OriginAuthorityMismatch(g, r)
             /\ checks[7].applies = TargetNotAllowed(g, r)
             /\ checks[8].applies = TargetDenied(g, r)
             /\ checks[9].applies = ResourceTypeNotGranted(g, r)
  BY DEF GrantChecks

LEMMA NoGrantCheckApplies ==
  ASSUME NEW g, NEW r
  PROVE  Applying(GrantChecks(g, r)) = {} <=> GrantPermits(g, r)
<1> DEFINE checks == GrantChecks(g, r)
<1>1. DOMAIN checks = 1 .. 9
  BY GrantCheckFacts
<1> HIDE DEF checks
<1>2. Applying(checks) = {} <=> \A i \in 1 .. 9 : ~checks[i].applies
  BY <1>1 DEF Applying
<1>3. (\A i \in 1 .. 9 : ~checks[i].applies) <=> GrantPermits(g, r)
  BY GrantCheckFacts DEF checks, GrantPermits
<1> QED BY <1>2, <1>3 DEF checks

LEMMA TypeCheckFacts ==
  ASSUME NEW g, NEW r
  PROVE  LET checks == TypeChecks(g, r)
         IN  /\ DOMAIN checks = 1 .. 9
             /\ checks[1].applies = CapabilityDisabled(g, r)
             /\ checks[2].applies = ResourceNotAllowed(g, r)
             /\ checks[3].applies = ResourceDenied(g, r)
             /\ checks[4].applies = OperationDenied(g, r)
             /\ checks[5].applies = AudienceNotAllowed(g, r)
             /\ checks[6].applies = AudienceDenied(g, r)
             /\ checks[7].applies = AudiencePrincipalNotAllowed(g, r)
             /\ checks[8].applies = AudiencePrincipalDenied(g, r)
             /\ checks[9].applies <=> MintingVerdict(g, r) # "Allowed"
<1> DEFINE checks == TypeChecks(g, r)
<1>1. /\ DOMAIN checks = 1 .. 9
      /\ checks[1].applies = CapabilityDisabled(g, r)
      /\ checks[2].applies = ResourceNotAllowed(g, r)
      /\ checks[3].applies = ResourceDenied(g, r)
      /\ checks[4].applies = OperationDenied(g, r)
      /\ checks[5].applies = AudienceNotAllowed(g, r)
      /\ checks[6].applies = AudienceDenied(g, r)
      /\ checks[7].applies = AudiencePrincipalNotAllowed(g, r)
      /\ checks[8].applies = AudiencePrincipalDenied(g, r)
  BY DEF TypeChecks
<1>2. checks[9].applies <=> MintingVerdict(g, r) # "Allowed"
  BY DEF TypeChecks
<1> HIDE DEF checks
<1> QED BY <1>1, <1>2 DEF checks

LEMMA NoTypeCheckApplies ==
  ASSUME NEW g, NEW r
  PROVE  Applying(TypeChecks(g, r)) = {} <=> TypePermits(g, r)
<1> DEFINE checks == TypeChecks(g, r)
<1>1. DOMAIN checks = 1 .. 9
  BY TypeCheckFacts
<1> HIDE DEF checks
<1>2. Applying(checks) = {} <=> \A i \in 1 .. 9 : ~checks[i].applies
  BY <1>1 DEF Applying
<1>3. (\A i \in 1 .. 9 : ~checks[i].applies) <=> TypePermits(g, r)
  BY TypeCheckFacts DEF checks, TypePermits
<1> QED BY <1>2, <1>3 DEF checks

LEMMA AllowsMeans ==
  ASSUME NEW g, NEW r
  PROVE  Allows(g, r) <=> GrantPermits(g, r) /\ TypePermits(g, r)
<1>1. Evaluate(g, r).allowed <=> Applying(GrantChecks(g, r)) = {} /\ Applying(TypeChecks(g, r)) = {}
  <2>1. CASE Applying(GrantChecks(g, r)) # {}
    BY <2>1 DEF Evaluate
  <2>2. CASE Applying(GrantChecks(g, r)) = {} /\ Applying(TypeChecks(g, r)) # {}
    BY <2>2 DEF Evaluate
  <2>3. CASE Applying(GrantChecks(g, r)) = {} /\ Applying(TypeChecks(g, r)) = {}
    BY <2>3 DEF Evaluate
  <2> QED BY <2>1, <2>2, <2>3
<1> QED BY <1>1, NoGrantCheckApplies, NoTypeCheckApplies DEF Allows

-----------------------------------------------------------------------------
(* The behaviour: one decision, about the grant and the request it began   *)
(* with.                                                                   *)

Decided ==
  /\ grant \in Grants /\ request \in Requests
  /\ decision \in {NoDecision, Evaluate(grant, request)}

LEMMA DecidedHolds == Spec => []Decided
<1>1. Init => Decided
  BY DEF Init, Decided
<1>2. Decided /\ [Next]_vars => Decided'
  BY DEF Decided, Next, EvaluateRequest, vars
<1> QED BY <1>1, <1>2, PTL DEF Spec

\* A decision that allows is the answer to the request.
LEMMA AllowedIsAllows ==
  ASSUME Decided, decision.allowed
  PROVE  Allows(grant, request)
  BY DEF Decided, NoDecision, Allows

LEMMA DeniedIsNotAllows ==
  ASSUME Decided, ~decision.allowed, decision # NoDecision
  PROVE  ~Allows(grant, request)
  BY DEF Decided, Allows

-----------------------------------------------------------------------------
(* What a grant permits beside revocation and time.                        *)

Untimed(g, r) ==
  /\ ~UnverifiedSelectors(g, r)
  /\ ~OriginAuthorityMismatch(g, r)
  /\ ~TargetNotAllowed(g, r)
  /\ ~TargetDenied(g, r)
  /\ ~ResourceTypeNotGranted(g, r)
  /\ TypePermits(g, r)

Timely(g, r) ==
  /\ ~StaleRevocationData(g, r)
  /\ ~Revoked(g, r)
  /\ ~NotYetValid(g, r)
  /\ ~Expired(g, r)

LEMMA AllowsInParts ==
  ASSUME NEW g, NEW r
  PROVE  Allows(g, r) <=> Untimed(g, r) /\ Timely(g, r)
  BY AllowsMeans DEF GrantPermits, Untimed, Timely

\* What each check of evaluate_resource_type looks at in a request.
LEMMA SameRequestOfType ==
  ASSUME NEW g, NEW q, NEW r,
         q.operation = r.operation, q.type = r.type, q.audience = r.audience
  PROVE  /\ IsMintOperation(q) <=> IsMintOperation(r)
         /\ ResourceTypeOf(g, q) = ResourceTypeOf(g, r)
         /\ AudienceEntry(g, q) = AudienceEntry(g, r)
         /\ PrincipalRestricted(g, q) <=> PrincipalRestricted(g, r)
         /\ CapabilityDisabled(g, q) <=> CapabilityDisabled(g, r)
         /\ OperationDenied(g, q) <=> OperationDenied(g, r)
         /\ NoAudienceEntry(g, q) <=> NoAudienceEntry(g, r)
         /\ HasAudienceEntry(g, q) <=> HasAudienceEntry(g, r)
         /\ q.audience_context = r.audience_context =>
              /\ AudienceNotAllowed(g, q) <=> AudienceNotAllowed(g, r)
              /\ AudienceDenied(g, q) <=> AudienceDenied(g, r)
         /\ q.selectors = r.selectors =>
              /\ ResourceNotAllowed(g, q) <=> ResourceNotAllowed(g, r)
              /\ ResourceDenied(g, q) <=> ResourceDenied(g, r)
         /\ q.principal = r.principal =>
              /\ AudiencePrincipalNotAllowed(g, q) <=> AudiencePrincipalNotAllowed(g, r)
              /\ AudiencePrincipalDenied(g, q) <=> AudiencePrincipalDenied(g, r)
         /\ q.principal = r.principal /\ q.mint_context = r.mint_context =>
              MintingVerdict(g, q) = MintingVerdict(g, r)
<1>1. /\ ResourceTypeOf(g, q) = ResourceTypeOf(g, r)
      /\ OperationName(q) = OperationName(r)
      /\ IsMintOperation(q) <=> IsMintOperation(r)
  BY DEF ResourceTypeOf, OperationName, IsMintOperation
<1>2. Audience(g, q) = Audience(g, r)
  BY <1>1 DEF Audience
<1>3. AudienceEntry(g, q) = AudienceEntry(g, r)
  BY <1>2 DEF AudienceEntry
<1>4. HasAudienceEntry(g, q) <=> HasAudienceEntry(g, r)
  BY <1>2 DEF HasAudienceEntry
<1>5. /\ CapabilityDisabled(g, q) <=> CapabilityDisabled(g, r)
      /\ OperationDenied(g, q) <=> OperationDenied(g, r)
  BY <1>1 DEF CapabilityDisabled, OperationDenied
<1>6. q.selectors = r.selectors =>
        /\ ResourceNotAllowed(g, q) <=> ResourceNotAllowed(g, r)
        /\ ResourceDenied(g, q) <=> ResourceDenied(g, r)
  BY <1>1 DEF ResourceNotAllowed, ResourceDenied
<1>7. /\ NoAudienceEntry(g, q) <=> NoAudienceEntry(g, r)
      /\ PrincipalRestricted(g, q) <=> PrincipalRestricted(g, r)
  BY <1>2, <1>3, <1>4 DEF NoAudienceEntry, AudienceRestricted, PrincipalRestricted
<1>8. q.principal = r.principal =>
        /\ AudiencePrincipalNotAllowed(g, q) <=> AudiencePrincipalNotAllowed(g, r)
        /\ AudiencePrincipalDenied(g, q) <=> AudiencePrincipalDenied(g, r)
  BY <1>3, <1>7 DEF AudiencePrincipalNotAllowed, AudiencePrincipalDenied
<1>9. q.principal = r.principal /\ q.mint_context = r.mint_context =>
        MintingVerdict(g, q) = MintingVerdict(g, r)
  BY <1>1 DEF MintingVerdict
<1>10. q.audience_context = r.audience_context =>
         /\ AudienceNotAllowed(g, q) <=> AudienceNotAllowed(g, r)
         /\ AudienceDenied(g, q) <=> AudienceDenied(g, r)
  BY <1>3, <1>4, <1>7 DEF AudienceNotAllowed, AudienceDenied
<1> QED BY <1>1, <1>3, <1>4, <1>5, <1>6, <1>7, <1>8, <1>9, <1>10

\* The members of a request that are not its instant.
LEMMA AnotherInstant ==
  ASSUME NEW r \in Requests, NEW time
  PROVE  LET q == [r EXCEPT !.evaluated_at = time]
         IN  /\ q.evaluated_at = time
             /\ q.operation = r.operation /\ q.selectors_verified = r.selectors_verified
             /\ q.origin = r.origin /\ q.target = r.target /\ q.type = r.type
             /\ q.selectors = r.selectors /\ q.audience = r.audience
             /\ q.audience_context = r.audience_context /\ q.principal = r.principal
             /\ q.mint_context = r.mint_context
  BY RequestsAssumption

LEMMA UntimedIgnoresTheInstant ==
  ASSUME NEW g, NEW r \in Requests, NEW time
  PROVE  Untimed(g, [r EXCEPT !.evaluated_at = time]) <=> Untimed(g, r)
<1> DEFINE q == [r EXCEPT !.evaluated_at = time]
<1>1. /\ q.operation = r.operation /\ q.selectors_verified = r.selectors_verified
      /\ q.origin = r.origin /\ q.target = r.target /\ q.type = r.type
      /\ q.selectors = r.selectors /\ q.audience = r.audience
      /\ q.audience_context = r.audience_context /\ q.principal = r.principal
      /\ q.mint_context = r.mint_context
  BY AnotherInstant
<1> HIDE DEF q
<1>2. /\ UnverifiedSelectors(g, q) <=> UnverifiedSelectors(g, r)
      /\ OriginAuthorityMismatch(g, q) <=> OriginAuthorityMismatch(g, r)
      /\ TargetNotAllowed(g, q) <=> TargetNotAllowed(g, r)
      /\ TargetDenied(g, q) <=> TargetDenied(g, r)
      /\ ResourceTypeNotGranted(g, q) <=> ResourceTypeNotGranted(g, r)
  BY <1>1 DEF UnverifiedSelectors, IsMintOperation, OriginAuthorityMismatch, TargetNotAllowed,
              TargetDenied, ResourceTypeNotGranted
<1>3. TypePermits(g, q) <=> TypePermits(g, r)
  BY <1>1, SameRequestOfType DEF TypePermits
<1>4. Untimed(g, q) <=> Untimed(g, r)
  BY <1>2, <1>3 DEF Untimed
<1> QED BY <1>4 DEF q

(***************************************************************************)
(* Revocation freshness and the window may only cut the ends off: between  *)
(* two instants at which a request is allowed, engine.rs never denies it.  *)
(***************************************************************************)
THEOREM NoGaps == Spec => []PermissionHasNoGaps
<1>1. Decided => PermissionHasNoGaps
  <2> SUFFICES ASSUME grant \in Grants, request \in Requests,
                      NEW t1 \in Times, NEW t2 \in Times, NEW t3 \in Times,
                      t1 < t2, t2 < t3, AllowedAt(t1), AllowedAt(t3)
               PROVE  AllowedAt(t2)
    BY DEF PermissionHasNoGaps, Decided
  <2> DEFINE At(time) == [request EXCEPT !.evaluated_at = time]
  <2>1. \A time : AllowedAt(time) <=> Untimed(grant, request) /\ Timely(grant, At(time))
    BY AllowsInParts, UntimedIgnoresTheInstant DEF AllowedAt
  <2>2. /\ t1 \in Nat /\ t2 \in Nat /\ t3 \in Nat
        /\ grant.revocation # None => grant.revocation.fresh_until \in Nat
        /\ grant.window # None => grant.window.not_before \in Nat /\ grant.window.not_after \in Nat
    BY GrantsAssumption, RequestsAssumption DEF RevocationStates, Windows
  <2>3. \A time : At(time).evaluated_at = time /\ At(time).operation = request.operation
    BY AnotherInstant
  <2> HIDE DEF At
  <2>4. Timely(grant, At(t1)) /\ Timely(grant, At(t3)) => Timely(grant, At(t2))
    BY <2>2, <2>3 DEF Timely, StaleRevocationData, Revoked, NotYetValid, Expired, Checked,
                      IsMintOperation
  <2> QED BY <2>1, <2>4
<1> QED BY <1>1, DecidedHolds, PTL

-----------------------------------------------------------------------------
(* Grants of which one denies more.                                        *)

DeniesMore(strict, scope) ==
  strict.all = scope.all /\ strict.allow = scope.allow /\ scope.deny \subseteq strict.deny

EntryDeniesMore(strict, entry) ==
  /\ DeniesMore(strict.scope, entry.scope)
  /\ strict.principal_scope = None <=> entry.principal_scope = None
  /\ entry.principal_scope # None => DeniesMore(strict.principal_scope, entry.principal_scope)

AudienceDeniesMore(strict, audience) ==
  /\ DOMAIN strict = DOMAIN audience
  /\ \A a \in DOMAIN audience : EntryDeniesMore(strict[a], audience[a])

TypeDeniesMore(strict, type) ==
  /\ DeniesMore(strict, type)
  /\ strict.recognize = type.recognize /\ strict.mint = type.mint
  /\ AudienceDeniesMore(strict.audience, type.audience) /\ strict.minting = type.minting
  /\ strict.operations = None <=> type.operations = None
  /\ type.operations # None =>
       /\ strict.operations.allow = type.operations.allow
       /\ type.operations.deny \subseteq strict.operations.deny

\* Revocation and time may differ.
Stricter(h, g) ==
  /\ h.origin = g.origin /\ h.recognize = g.recognize /\ h.mint = g.mint
  /\ DeniesMore(h.target, g.target)
  /\ DOMAIN h.types = DOMAIN g.types
  /\ \A type \in DOMAIN g.types : TypeDeniesMore(h.types[type], g.types[type])
  /\ AudienceDeniesMore(h.default_audience, g.default_audience)

LEMMA ScopeOfStricter ==
  ASSUME NEW strict, NEW scope, DeniesMore(strict, scope), NEW context
  PROVE  /\ NotAllowed(scope, context) <=> NotAllowed(strict, context)
         /\ Denied(scope, context) => Denied(strict, context)
  BY DEF DeniesMore, NotAllowed, Denied, AnyMatches

\* What the stricter grant permits, the other one permits.
LEMMA StricterPermitsLess ==
  ASSUME NEW g, NEW h, NEW r, Stricter(h, g), Untimed(h, r)
  PROVE  Untimed(g, r)
<1>1. /\ h.origin = g.origin /\ h.recognize = g.recognize /\ h.mint = g.mint
      /\ DeniesMore(h.target, g.target)
      /\ DOMAIN h.types = DOMAIN g.types
      /\ \A type \in DOMAIN g.types : TypeDeniesMore(h.types[type], g.types[type])
      /\ AudienceDeniesMore(h.default_audience, g.default_audience)
  BY DEF Stricter
<1>2. /\ ~UnverifiedSelectors(g, r)
      /\ ~OriginAuthorityMismatch(g, r)
      /\ ~TargetNotAllowed(g, r)
      /\ ~TargetDenied(g, r)
      /\ ~ResourceTypeNotGranted(g, r)
  BY <1>1, ScopeOfStricter
     DEF Untimed, UnverifiedSelectors, OriginAuthorityMismatch, TargetNotAllowed, TargetDenied,
         ResourceTypeNotGranted
<1>3. r.type \in DOMAIN g.types
  BY <1>2 DEF ResourceTypeNotGranted
<1> DEFINE own    == ResourceTypeOf(g, r)
           strict == ResourceTypeOf(h, r)
<1>4. TypeDeniesMore(strict, own)
  BY <1>1, <1>3 DEF ResourceTypeOf
<1>5. /\ ~CapabilityDisabled(h, r) /\ ~ResourceNotAllowed(h, r) /\ ~ResourceDenied(h, r)
      /\ ~OperationDenied(h, r) /\ ~AudienceNotAllowed(h, r) /\ ~AudienceDenied(h, r)
      /\ ~AudiencePrincipalNotAllowed(h, r) /\ ~AudiencePrincipalDenied(h, r)
      /\ MintingVerdict(h, r) = "Allowed"
  BY DEF Untimed, TypePermits
<1>6. ~CapabilityDisabled(g, r)
  BY <1>1, <1>4, <1>5 DEF CapabilityDisabled, TypeDeniesMore
<1>7. ~ResourceNotAllowed(g, r) /\ ~ResourceDenied(g, r)
  BY <1>4, <1>5, ScopeOfStricter DEF ResourceNotAllowed, ResourceDenied, TypeDeniesMore
<1>8. ~OperationDenied(g, r)
  BY <1>4, <1>5 DEF OperationDenied, TypeDeniesMore
<1>9. MintingVerdict(g, r) = "Allowed"
  BY <1>4, <1>5 DEF MintingVerdict, TypeDeniesMore
<1>10. /\ ~AudienceNotAllowed(g, r) /\ ~AudienceDenied(g, r)
       /\ ~AudiencePrincipalNotAllowed(g, r) /\ ~AudiencePrincipalDenied(g, r)
  <2>1. AudienceDeniesMore(strict.audience, own.audience)
    BY <1>4 DEF TypeDeniesMore
  <2>2. AudienceDeniesMore(Audience(h, r), Audience(g, r))
    BY <1>1, <2>1 DEF Audience, AudienceDeniesMore
  <2>3. ASSUME r.audience \in DOMAIN Audience(g, r)
        PROVE  EntryDeniesMore(AudienceEntry(h, r), AudienceEntry(g, r))
    BY <2>2, <2>3 DEF AudienceDeniesMore, AudienceEntry
  <2>4. HasAudienceEntry(h, r) <=> HasAudienceEntry(g, r)
    BY <2>2 DEF HasAudienceEntry, AudienceDeniesMore
  <2>5. ~AudienceNotAllowed(g, r)
    BY <1>5, <2>2, <2>3, <2>4, ScopeOfStricter
       DEF AudienceNotAllowed, NoAudienceEntry, AudienceRestricted, HasAudienceEntry,
           EntryDeniesMore, AudienceDeniesMore
  <2>6. ~AudienceDenied(g, r)
    BY <1>5, <2>3, <2>4, ScopeOfStricter DEF AudienceDenied, HasAudienceEntry, EntryDeniesMore
  <2>7. ~AudiencePrincipalNotAllowed(g, r) /\ ~AudiencePrincipalDenied(g, r)
    BY <1>5, <2>3, <2>4, ScopeOfStricter
       DEF AudiencePrincipalNotAllowed, AudiencePrincipalDenied, PrincipalRestricted,
           HasAudienceEntry, EntryDeniesMore
  <2> QED BY <2>5, <2>6, <2>7
<1>11. TypePermits(g, r)
  BY <1>6, <1>7, <1>8, <1>9, <1>10 DEF TypePermits
<1> QED BY <1>2, <1>11 DEF Untimed

LEMMA WithDenyDeniesMore ==
  ASSUME NEW scope, IsScope(scope), NEW s
  PROVE  DeniesMore(WithDeny(scope, s), scope)
  BY DEF IsScope, WithDeny, DeniesMore

LEMMA DeniesMoreReflexive ==
  /\ \A scope : DeniesMore(scope, scope)
  /\ \A entry : EntryDeniesMore(entry, entry)
  /\ \A audience : AudienceDeniesMore(audience, audience)
  /\ \A type : TypeDeniesMore(type, type)
<1>1. \A scope : DeniesMore(scope, scope)
  BY DEF DeniesMore
<1>2. \A entry : EntryDeniesMore(entry, entry)
  BY <1>1 DEF EntryDeniesMore
<1>3. \A audience : AudienceDeniesMore(audience, audience)
  BY <1>2 DEF AudienceDeniesMore
<1>4. \A type : TypeDeniesMore(type, type)
  BY <1>1, <1>3 DEF TypeDeniesMore
<1> QED BY <1>1, <1>2, <1>3, <1>4

LEMMA EntryDenialsDenyMore ==
  ASSUME NEW entry, IsEntry(entry), NEW strict \in EntryDenials(entry)
  PROVE  EntryDeniesMore(strict, entry)
<1>1. /\ DOMAIN entry = {"scope", "principal_scope"}
      /\ IsScope(entry.scope)
      /\ entry.principal_scope # None =>
           /\ IsScope(entry.principal_scope)
           /\ \A s \in Selectors : WithDeny(entry.principal_scope, s) # None
  BY DEF IsEntry
<1>2. ASSUME NEW s \in Selectors, strict = [entry EXCEPT !.scope = WithDeny(@, s)]
      PROVE  EntryDeniesMore(strict, entry)
  <2>1. /\ strict.scope = WithDeny(entry.scope, s)
        /\ strict.principal_scope = entry.principal_scope
    BY <1>1, <1>2
  <2> QED BY <1>1, <2>1, WithDenyDeniesMore, DeniesMoreReflexive DEF EntryDeniesMore
<1>3. ASSUME NEW s \in Selectors, entry.principal_scope # None,
             strict = [entry EXCEPT !.principal_scope = WithDeny(@, s)]
      PROVE  EntryDeniesMore(strict, entry)
  <2>1. /\ strict.scope = entry.scope
        /\ strict.principal_scope = WithDeny(entry.principal_scope, s)
    BY <1>1, <1>3
  <2>2. DeniesMore(WithDeny(entry.principal_scope, s), entry.principal_scope)
    BY <1>1, <1>3, WithDenyDeniesMore
  <2> QED BY <1>1, <1>3, <2>1, <2>2, DeniesMoreReflexive DEF EntryDeniesMore
<1> QED BY <1>2, <1>3 DEF EntryDenials

LEMMA AudienceDenialsDenyMore ==
  ASSUME NEW audience, IsAudience(audience), NEW strict \in AudienceDenials(audience)
  PROVE  AudienceDeniesMore(strict, audience)
<1>1. PICK a \in DOMAIN audience : \E entry \in EntryDenials(audience[a]) :
                                     strict = [audience EXCEPT ![a] = entry]
  BY DEF AudienceDenials
<1>2. PICK entry \in EntryDenials(audience[a]) : strict = [audience EXCEPT ![a] = entry]
  BY <1>1
<1>3. EntryDeniesMore(entry, audience[a])
  BY EntryDenialsDenyMore DEF IsAudience
<1> QED BY <1>2, <1>3, DeniesMoreReflexive DEF AudienceDeniesMore

LEMMA TypeDenialsDenyMore ==
  ASSUME NEW type,
         DOMAIN type = {"all", "allow", "deny", "recognize", "mint",
                        "operations", "audience", "minting"},
         type.operations \in OperationScopes \cup {None}, IsAudience(type.audience),
         NEW strict \in TypeDenials(type)
  PROVE  TypeDeniesMore(strict, type)
<1>1. ASSUME NEW s \in Selectors, strict = WithDeny(type, s)
      PROVE  TypeDeniesMore(strict, type)
  <2>1. DeniesMore(strict, type)
    BY <1>1, WithDenyDeniesMore DEF IsScope
  <2>2. /\ strict.recognize = type.recognize /\ strict.mint = type.mint
        /\ strict.audience = type.audience /\ strict.minting = type.minting
        /\ strict.operations = type.operations
    BY <1>1 DEF WithDeny
  <2> QED BY <2>1, <2>2, DeniesMoreReflexive DEF TypeDeniesMore
<1>2. ASSUME NEW name \in Operations, type.operations # None,
             strict = [type EXCEPT !.operations.deny = @ \cup {name}]
      PROVE  TypeDeniesMore(strict, type)
  <2> DEFINE denied == [type.operations EXCEPT !.deny = @ \cup {name}]
  <2>1. /\ denied \in OperationScopes /\ denied.allow = type.operations.allow
        /\ type.operations.deny \subseteq denied.deny
    BY <1>2 DEF OperationScopes
  <2>2. denied # None
    BY <2>1, GrantsAssumption
  <2>3. strict = [type EXCEPT !.operations = denied]
    BY <1>2
  <2> HIDE DEF denied
  <2>4. /\ strict.operations = denied /\ strict.all = type.all /\ strict.allow = type.allow
        /\ strict.deny = type.deny /\ strict.recognize = type.recognize
        /\ strict.mint = type.mint /\ strict.audience = type.audience
        /\ strict.minting = type.minting
    BY <2>3
  <2> QED BY <1>2, <2>1, <2>2, <2>4, DeniesMoreReflexive DEF TypeDeniesMore, DeniesMore
<1>3. ASSUME NEW audience \in AudienceDenials(type.audience),
             strict = [type EXCEPT !.audience = audience]
      PROVE  TypeDeniesMore(strict, type)
  <2>1. AudienceDeniesMore(audience, type.audience)
    BY AudienceDenialsDenyMore
  <2>2. /\ strict.operations = type.operations /\ strict.all = type.all
        /\ strict.allow = type.allow /\ strict.deny = type.deny
        /\ strict.recognize = type.recognize /\ strict.mint = type.mint
        /\ strict.audience = audience /\ strict.minting = type.minting
    BY <1>3
  <2> QED BY <2>1, <2>2 DEF TypeDeniesMore, DeniesMore
<1> QED BY <1>1, <1>2, <1>3 DEF TypeDenials

\* Time, window and revocation are as they were.
SameTime(h, g) == h.revocation = g.revocation /\ h.effect = g.effect /\ h.window = g.window

LEMMA MoreDenialsAreStricter ==
  ASSUME grant \in Grants, NEW h \in MoreDenials
  PROVE  Stricter(h, grant) /\ SameTime(h, grant)
<1>1. /\ DOMAIN grant = {"revocation", "effect", "window", "origin", "target", "types",
                    "recognize", "mint", "default_audience"}
      /\ IsScope(grant.target)
      /\ \A type \in DOMAIN grant.types :
           /\ DOMAIN grant.types[type] = {"all", "allow", "deny", "recognize", "mint",
                                     "operations", "audience", "minting"}
           /\ grant.types[type].operations \in OperationScopes \cup {None}
           /\ IsAudience(grant.types[type].audience)
      /\ IsAudience(grant.default_audience)
  BY GrantsAssumption
<1>2. ASSUME NEW s \in Selectors, h = [grant EXCEPT !.target = WithDeny(@, s)]
      PROVE  Stricter(h, grant) /\ SameTime(h, grant)
  <2>1. /\ h.target = WithDeny(grant.target, s) /\ h.origin = grant.origin /\ h.types = grant.types
        /\ h.recognize = grant.recognize /\ h.mint = grant.mint
        /\ h.default_audience = grant.default_audience /\ SameTime(h, grant)
    BY <1>1, <1>2 DEF SameTime
  <2>2. DeniesMore(h.target, grant.target)
    BY <1>1, <2>1, WithDenyDeniesMore
  <2> QED BY <2>1, <2>2, DeniesMoreReflexive DEF Stricter
<1>3. ASSUME NEW type \in DOMAIN grant.types, NEW strict \in TypeDenials(grant.types[type]),
             h = [grant EXCEPT !.types[type] = strict]
      PROVE  Stricter(h, grant) /\ SameTime(h, grant)
  <2>1. TypeDeniesMore(strict, grant.types[type])
    BY <1>1, TypeDenialsDenyMore
  <2>2. /\ h.types = [grant.types EXCEPT ![type] = strict] /\ h.target = grant.target
        /\ h.origin = grant.origin /\ h.recognize = grant.recognize /\ h.mint = grant.mint
        /\ h.default_audience = grant.default_audience /\ SameTime(h, grant)
    BY <1>1, <1>3 DEF SameTime
  <2>3. /\ DOMAIN h.types = DOMAIN grant.types
        /\ \A t \in DOMAIN grant.types : TypeDeniesMore(h.types[t], grant.types[t])
    BY <2>1, <2>2, DeniesMoreReflexive
  <2> QED BY <2>2, <2>3, DeniesMoreReflexive DEF Stricter
<1>4. ASSUME NEW audience \in AudienceDenials(grant.default_audience),
             h = [grant EXCEPT !.default_audience = audience]
      PROVE  Stricter(h, grant) /\ SameTime(h, grant)
  <2>1. AudienceDeniesMore(audience, grant.default_audience)
    BY <1>1, AudienceDenialsDenyMore
  <2>2. /\ h.default_audience = audience /\ h.target = grant.target /\ h.types = grant.types
        /\ h.origin = grant.origin /\ h.recognize = grant.recognize /\ h.mint = grant.mint
        /\ SameTime(h, grant)
    BY <1>1, <1>4 DEF SameTime
  <2> QED BY <2>1, <2>2, DeniesMoreReflexive DEF Stricter
<1> DEFINE ofTarget   == {[grant EXCEPT !.target = WithDeny(@, s)] : s \in Selectors}
           ofType(t)  == {[grant EXCEPT !.types[t] = type] : type \in TypeDenials(grant.types[t])}
           ofAudience == {[grant EXCEPT !.default_audience = audience] :
                             audience \in AudienceDenials(grant.default_audience)}
<1>5. h \in ofTarget => Stricter(h, grant) /\ SameTime(h, grant)
  BY <1>2
<1>6. \A t \in DOMAIN grant.types : h \in ofType(t) => Stricter(h, grant) /\ SameTime(h, grant)
  BY <1>3
<1>7. h \in ofAudience => Stricter(h, grant) /\ SameTime(h, grant)
  BY <1>4
<1>8. MoreDenials = ofTarget \cup (UNION {ofType(t) : t \in DOMAIN grant.types}) \cup ofAudience
  BY DEF MoreDenials
<1> HIDE DEF ofTarget, ofType, ofAudience
<1> QED BY <1>5, <1>6, <1>7, <1>8

(***************************************************************************)
(* engine.rs, "Deny is always subtractive": one more denial, of the        *)
(* target, of a type, of an operation, or of an audience or its principals *)
(* (a type's own or the default ones), never permits what was denied.      *)
(***************************************************************************)
THEOREM DenialsOnlySubtract == Spec => []DenyIsSubtractive
<1>1. Decided => DenyIsSubtractive
  <2> SUFFICES ASSUME Decided, ~decision.allowed, decision # NoDecision,
                      NEW h \in MoreDenials, Allows(h, request)
               PROVE  FALSE
    BY DEF DenyIsSubtractive
  <2>1. ~Allows(grant, request) /\ grant \in Grants
    BY DeniedIsNotAllows DEF Decided
  <2>2. Stricter(h, grant) /\ SameTime(h, grant)
    BY <2>1, MoreDenialsAreStricter
  <2>3. Untimed(grant, request)
    BY <2>2, AllowsInParts, StricterPermitsLess
  <2>4. Timely(grant, request) <=> Timely(h, request)
    BY <2>2 DEF SameTime, Timely, StaleRevocationData, Revoked, NotYetValid, Expired, Checked
  <2> QED BY <2>1, <2>3, <2>4, AllowsInParts
<1> QED BY <1>1, DecidedHolds, PTL

-----------------------------------------------------------------------------
(* Revocation.                                                             *)

\* A grant with other evidence permits the same but for time.
LEMMA OtherEvidence ==
  ASSUME NEW g \in Grants, NEW record
  PROVE  LET h == [g EXCEPT !.revocation = record]
         IN  /\ h.revocation = record /\ h.effect = g.effect /\ h.window = g.window
             /\ Stricter(g, h)
<1> DEFINE h == [g EXCEPT !.revocation = record]
<1>1. /\ h.revocation = record /\ h.effect = g.effect /\ h.window = g.window
      /\ h.origin = g.origin /\ h.target = g.target /\ h.types = g.types
      /\ h.recognize = g.recognize /\ h.mint = g.mint
      /\ h.default_audience = g.default_audience
  BY GrantsAssumption
<1> HIDE DEF h
<1>2. Stricter(g, h)
  BY <1>1, DeniesMoreReflexive DEF Stricter
<1>3. /\ h.revocation = record /\ h.effect = g.effect /\ h.window = g.window
      /\ Stricter(g, h)
  BY <1>1, <1>2
<1> QED BY <1>3 DEF h

(***************************************************************************)
(* engine.rs falls through a block_minting_only revocation to all later    *)
(* checks: what it then allows is no mint and would be allowed unrevoked,  *)
(* and a newer check of the status never denies what an older one allowed. *)
(***************************************************************************)
THEOREM RevocationsOnlyTakeAway == Spec => []RevocationOnlyTakesAway
<1>1. Decided => RevocationOnlyTakesAway
  <2> SUFFICES ASSUME Decided, decision.allowed, grant.revocation # None
               PROVE  /\ Allows([grant EXCEPT !.revocation.status = "Active"], request)
                      /\ \A time \in Times : time > grant.revocation.fresh_until =>
                           Allows([grant EXCEPT !.revocation.fresh_until = time], request)
                      /\ grant.revocation.status = "Revoked" => request.operation # "mint"
    BY DEF RevocationOnlyTakesAway
  <2>1. grant \in Grants /\ request \in Requests
    BY DEF Decided
  <2>2. Untimed(grant, request) /\ Timely(grant, request)
    BY AllowedIsAllows, AllowsInParts
  <2>3. grant.revocation \in RevocationStates /\ request.evaluated_at \in Nat
    BY <2>1, GrantsAssumption, RequestsAssumption
  <2>4. ASSUME NEW record \in RevocationStates,
               request.evaluated_at <= record.fresh_until,
               record.status \in {grant.revocation.status, "Active"}
        PROVE  Allows([grant EXCEPT !.revocation = record], request)
    <3> DEFINE h == [grant EXCEPT !.revocation = record]
    <3>1. /\ h.revocation = record /\ h.effect = grant.effect /\ h.window = grant.window
          /\ Stricter(grant, h)
      BY <2>1, OtherEvidence
    <3> HIDE DEF h
    <3>2. Untimed(h, request)
      BY <2>2, <3>1, StricterPermitsLess
    <3>3. record.fresh_until \in Nat
      BY DEF RevocationStates
    <3>4. Timely(h, request)
      BY <2>2, <2>3, <2>4, <3>1, <3>3
         DEF Timely, StaleRevocationData, Revoked, NotYetValid, Expired, Checked, IsMintOperation
    <3>5. Allows(h, request)
      BY <3>2, <3>4, AllowsInParts
    <3> QED BY <3>5 DEF h
  <2>5. request.evaluated_at <= grant.revocation.fresh_until
    BY <2>2, <2>3 DEF Timely, StaleRevocationData, Checked, RevocationStates
  <2>6. Allows([grant EXCEPT !.revocation.status = "Active"], request)
    <3> DEFINE record == [grant.revocation EXCEPT !.status = "Active"]
    <3>1. /\ record \in RevocationStates /\ record.status = "Active"
          /\ record.fresh_until = grant.revocation.fresh_until
      BY <2>3 DEF RevocationStates
    <3> HIDE DEF record
    <3>2. Allows([grant EXCEPT !.revocation = record], request)
      BY <2>4, <2>5, <3>1
    <3> QED BY <3>2 DEF record
  <2>7. ASSUME NEW time \in Times, time > grant.revocation.fresh_until
        PROVE  Allows([grant EXCEPT !.revocation.fresh_until = time], request)
    <3> DEFINE record == [grant.revocation EXCEPT !.fresh_until = time]
    <3>1. time \in Nat /\ grant.revocation.fresh_until \in Nat
      BY <2>3, RequestsAssumption DEF RevocationStates
    <3>2. /\ record \in RevocationStates /\ record.status = grant.revocation.status
          /\ record.fresh_until = time
      BY <2>3, <3>1 DEF RevocationStates
    <3> HIDE DEF record
    <3>3. request.evaluated_at <= record.fresh_until
      BY <2>3, <2>5, <2>7, <3>1, <3>2
    <3>4. Allows([grant EXCEPT !.revocation = record], request)
      BY <2>4, <3>2, <3>3
    <3> QED BY <3>4 DEF record
  <2>8. grant.revocation.status = "Revoked" => request.operation # "mint"
    BY <2>2 DEF Timely, Revoked, Checked, IsMintOperation
  <2> QED BY <2>6, <2>7, <2>8
<1> QED BY <1>1, DecidedHolds, PTL

-----------------------------------------------------------------------------
(* More context.                                                           *)

LEMMA OnlyOneReason ==
  ASSUME NEW checks, DOMAIN checks = 1 .. 9, NEW n \in 1 .. 9,
         \A i \in 1 .. 9 : i # n => ~checks[i].applies,
         Applying(checks) # {}
  PROVE  FirstReason(checks) = checks[n].reason
<1>1. Applying(checks) = {n}
  BY DEF Applying
<1>2. (CHOOSE i \in {n} : \A j \in {n} : i <= j) = n
  OBVIOUS
<1> QED BY <1>1, <1>2 DEF FirstReason

\* A context with one more value matches all that it matched.
LEMMA WithValueMatchesMore ==
  ASSUME NEW context, NEW kind, NEW value, NEW scope, ~NotAllowed(scope, context)
  PROVE  ~NotAllowed(scope, WithValue(context, kind, value))
<1> DEFINE richer == WithValue(context, kind, value)
<1>1. /\ DOMAIN context \subseteq DOMAIN richer
      /\ \A k \in DOMAIN context : context[k] \subseteq richer[k]
  BY DEF WithValue
<1> HIDE DEF richer
<1>2. ASSUME NEW s, SelectorMatches(s, context) PROVE SelectorMatches(s, richer)
  BY <1>1, <1>2 DEF SelectorMatches
<1>3. ~NotAllowed(scope, richer)
  BY <1>2 DEF NotAllowed, AnyMatches
<1> QED BY <1>3 DEF richer

LEMMA RicherTarget ==
  ASSUME NEW g, NEW r \in Requests, Allows(g, r), NEW kind, NEW value
  PROVE  Evaluate(g, [r EXCEPT !.target = WithValue(@, kind, value)]).reason
           \in {None, "TargetDenied"}
<1> DEFINE q == [r EXCEPT !.target = WithValue(@, kind, value)]
           checks == GrantChecks(g, q)
<1>1. /\ q.evaluated_at = r.evaluated_at
      /\ q.operation = r.operation /\ q.selectors_verified = r.selectors_verified
      /\ q.origin = r.origin /\ q.target = WithValue(r.target, kind, value) /\ q.type = r.type
      /\ q.selectors = r.selectors /\ q.audience = r.audience
      /\ q.audience_context = r.audience_context /\ q.principal = r.principal
      /\ q.mint_context = r.mint_context
  BY RequestsAssumption
<1>2. GrantPermits(g, r) /\ TypePermits(g, r)
  BY AllowsMeans
<1> HIDE DEF q
<1>3. /\ ~UnverifiedSelectors(g, q) /\ ~StaleRevocationData(g, q) /\ ~Revoked(g, q)
      /\ ~NotYetValid(g, q) /\ ~Expired(g, q) /\ ~OriginAuthorityMismatch(g, q)
      /\ ~ResourceTypeNotGranted(g, q)
  BY <1>1, <1>2
     DEF GrantPermits, UnverifiedSelectors, StaleRevocationData, Revoked, NotYetValid, Expired,
         OriginAuthorityMismatch, ResourceTypeNotGranted, IsMintOperation
<1>4. ~TargetNotAllowed(g, q)
  BY <1>1, <1>2, WithValueMatchesMore DEF GrantPermits, TargetNotAllowed
<1>5. TypePermits(g, q)
  BY <1>1, <1>2, SameRequestOfType DEF TypePermits
<1>6. CASE ~TargetDenied(g, q)
  <2>1. GrantPermits(g, q)
    BY <1>3, <1>4, <1>6 DEF GrantPermits
  <2>2. Evaluate(g, q).reason = None
    BY <1>5, <2>1, NoGrantCheckApplies, NoTypeCheckApplies DEF Evaluate
  <2> QED BY <2>2 DEF q
<1>7. CASE TargetDenied(g, q)
  <2>1. \A i \in 1 .. 9 : i # 8 => ~checks[i].applies
    BY <1>3, <1>4, GrantCheckFacts
  <2>2. Applying(checks) # {}
    BY <1>7, NoGrantCheckApplies DEF GrantPermits
  <2>3. FirstReason(checks) = "TargetDenied"
    <3>1. DOMAIN checks = 1 .. 9 /\ checks[8].reason = "TargetDenied"
      BY DEF GrantChecks
    <3> HIDE DEF checks
    <3> QED BY <2>1, <2>2, <3>1, OnlyOneReason
  <2>4. Evaluate(g, q).reason = "TargetDenied"
    BY <2>2, <2>3 DEF Evaluate
  <2> QED BY <2>4 DEF q
<1> QED BY <1>6, <1>7

LEMMA RicherSelectors ==
  ASSUME NEW g, NEW r \in Requests, Allows(g, r), NEW kind, NEW value
  PROVE  Evaluate(g, [r EXCEPT !.selectors = WithValue(@, kind, value)]).reason
           \in {None, "ResourceDenied"}
<1> DEFINE q == [r EXCEPT !.selectors = WithValue(@, kind, value)]
           checks == TypeChecks(g, q)
<1>1. /\ q.evaluated_at = r.evaluated_at
      /\ q.operation = r.operation /\ q.selectors_verified = r.selectors_verified
      /\ q.origin = r.origin /\ q.target = r.target /\ q.type = r.type
      /\ q.audience = r.audience /\ q.audience_context = r.audience_context
      /\ q.mint_context = r.mint_context
      /\ q.selectors = WithValue(r.selectors, kind, value) /\ q.principal = r.principal
  BY RequestsAssumption
<1>2. GrantPermits(g, r) /\ TypePermits(g, r)
  BY AllowsMeans
<1> HIDE DEF q
<1>3. GrantPermits(g, q)
  BY <1>1, <1>2
     DEF GrantPermits, UnverifiedSelectors, StaleRevocationData, Revoked, NotYetValid, Expired,
         OriginAuthorityMismatch, TargetNotAllowed, TargetDenied, ResourceTypeNotGranted,
         IsMintOperation
<1>4. ~ResourceNotAllowed(g, q)
  BY <1>1, <1>2, SameRequestOfType, WithValueMatchesMore DEF TypePermits, ResourceNotAllowed
<1>5. /\ ~CapabilityDisabled(g, q) /\ ~OperationDenied(g, q)
      /\ ~AudienceNotAllowed(g, q) /\ ~AudienceDenied(g, q)
      /\ ~AudiencePrincipalNotAllowed(g, q) /\ ~AudiencePrincipalDenied(g, q)
      /\ MintingVerdict(g, q) = "Allowed"
  BY <1>1, <1>2, SameRequestOfType DEF TypePermits
<1>6. /\ ~CapabilityDisabled(g, q) /\ ~ResourceNotAllowed(g, q) /\ ~OperationDenied(g, q)
      /\ ~AudienceNotAllowed(g, q) /\ ~AudienceDenied(g, q)
      /\ ~AudiencePrincipalNotAllowed(g, q) /\ ~AudiencePrincipalDenied(g, q)
      /\ MintingVerdict(g, q) = "Allowed"
  BY <1>4, <1>5
<1>7. CASE ~ResourceDenied(g, q)
  <2>1. TypePermits(g, q)
    BY <1>6, <1>7 DEF TypePermits
  <2>2. Evaluate(g, q).reason = None
    BY <1>3, <2>1, NoGrantCheckApplies, NoTypeCheckApplies DEF Evaluate
  <2> QED BY <2>2 DEF q
<1>8. CASE ResourceDenied(g, q)
  <2>1. \A i \in 1 .. 9 : i # 3 => ~checks[i].applies
    BY <1>6, TypeCheckFacts
  <2>2. Applying(checks) # {}
    BY <1>8, NoTypeCheckApplies DEF TypePermits
  <2>3. FirstReason(checks) = "ResourceDenied"
    <3>1. DOMAIN checks = 1 .. 9 /\ checks[3].reason = "ResourceDenied"
      BY DEF TypeChecks
    <3> HIDE DEF checks
    <3> QED BY <2>1, <2>2, <3>1, OnlyOneReason
  <2>4. Evaluate(g, q).reason = "ResourceDenied"
    BY <1>3, <2>2, <2>3, NoGrantCheckApplies DEF Evaluate
  <2> QED BY <2>4 DEF q
<1> QED BY <1>7, <1>8

LEMMA RicherAudience ==
  ASSUME NEW g, NEW r \in Requests, Allows(g, r), NEW kind, NEW value
  PROVE  Evaluate(g, [r EXCEPT !.audience_context = WithValue(@, kind, value)]).reason
           \in {None, "AudienceDenied"}
<1> DEFINE q == [r EXCEPT !.audience_context = WithValue(@, kind, value)]
           checks == TypeChecks(g, q)
<1>1. /\ q.evaluated_at = r.evaluated_at
      /\ q.operation = r.operation /\ q.selectors_verified = r.selectors_verified
      /\ q.origin = r.origin /\ q.target = r.target /\ q.type = r.type
      /\ q.audience = r.audience
      /\ q.audience_context = WithValue(r.audience_context, kind, value)
      /\ q.mint_context = r.mint_context
      /\ q.selectors = r.selectors /\ q.principal = r.principal
  BY RequestsAssumption
<1>2. GrantPermits(g, r) /\ TypePermits(g, r)
  BY AllowsMeans
<1> HIDE DEF q
<1>3. GrantPermits(g, q)
  BY <1>1, <1>2
     DEF GrantPermits, UnverifiedSelectors, StaleRevocationData, Revoked, NotYetValid, Expired,
         OriginAuthorityMismatch, TargetNotAllowed, TargetDenied, ResourceTypeNotGranted,
         IsMintOperation
<1>4. ~AudienceNotAllowed(g, q)
  BY <1>1, <1>2, SameRequestOfType, WithValueMatchesMore DEF TypePermits, AudienceNotAllowed
<1>5. /\ ~CapabilityDisabled(g, q) /\ ~ResourceNotAllowed(g, q) /\ ~ResourceDenied(g, q)
      /\ ~OperationDenied(g, q)
      /\ ~AudiencePrincipalNotAllowed(g, q) /\ ~AudiencePrincipalDenied(g, q)
      /\ MintingVerdict(g, q) = "Allowed"
  BY <1>1, <1>2, SameRequestOfType DEF TypePermits
<1>6. CASE ~AudienceDenied(g, q)
  <2>1. TypePermits(g, q)
    BY <1>4, <1>5, <1>6 DEF TypePermits
  <2>2. Evaluate(g, q).reason = None
    BY <1>3, <2>1, NoGrantCheckApplies, NoTypeCheckApplies DEF Evaluate
  <2> QED BY <2>2 DEF q
<1>7. CASE AudienceDenied(g, q)
  <2>1. \A i \in 1 .. 9 : i # 6 => ~checks[i].applies
    BY <1>4, <1>5, TypeCheckFacts
  <2>2. Applying(checks) # {}
    BY <1>7, NoTypeCheckApplies DEF TypePermits
  <2>3. FirstReason(checks) = "AudienceDenied"
    <3>1. DOMAIN checks = 1 .. 9 /\ checks[6].reason = "AudienceDenied"
      BY DEF TypeChecks
    <3> HIDE DEF checks
    <3> QED BY <2>1, <2>2, <3>1, OnlyOneReason
  <2>4. Evaluate(g, q).reason = "AudienceDenied"
    BY <1>3, <2>2, <2>3, NoGrantCheckApplies DEF Evaluate
  <2> QED BY <2>4 DEF q
<1> QED BY <1>6, <1>7

LEMMA RicherPrincipal ==
  ASSUME NEW g, NEW r \in Requests, Allows(g, r), NEW kind, NEW value
  PROVE  Evaluate(g, [r EXCEPT !.principal = WithValue(@, kind, value)]).reason
           \in {None, "AudiencePrincipalDenied"}
<1> DEFINE q == [r EXCEPT !.principal = WithValue(@, kind, value)]
           checks == TypeChecks(g, q)
<1>1. /\ q.evaluated_at = r.evaluated_at
      /\ q.operation = r.operation /\ q.selectors_verified = r.selectors_verified
      /\ q.origin = r.origin /\ q.target = r.target /\ q.type = r.type
      /\ q.audience = r.audience /\ q.audience_context = r.audience_context
      /\ q.mint_context = r.mint_context
      /\ q.selectors = r.selectors /\ q.principal = WithValue(r.principal, kind, value)
  BY RequestsAssumption
<1>2. GrantPermits(g, r) /\ TypePermits(g, r)
  BY AllowsMeans
<1> HIDE DEF q
<1>3. GrantPermits(g, q)
  BY <1>1, <1>2
     DEF GrantPermits, UnverifiedSelectors, StaleRevocationData, Revoked, NotYetValid, Expired,
         OriginAuthorityMismatch, TargetNotAllowed, TargetDenied, ResourceTypeNotGranted,
         IsMintOperation
<1>4. ~AudiencePrincipalNotAllowed(g, q)
  BY <1>1, <1>2, SameRequestOfType, WithValueMatchesMore
     DEF TypePermits, AudiencePrincipalNotAllowed
<1>5. MintingVerdict(g, q) = "Allowed"
  <2>1. DOMAIN q.principal # {}
    BY <1>1 DEF WithValue
  <2>2. MintingVerdict(g, r) = "Allowed"
    BY <1>2 DEF TypePermits
  <2> QED BY <1>1, <2>1, <2>2, SameRequestOfType
      DEF MintingVerdict, EvaluateMintingConstraints
<1>6. /\ ~CapabilityDisabled(g, q) /\ ~ResourceNotAllowed(g, q) /\ ~ResourceDenied(g, q)
      /\ ~OperationDenied(g, q) /\ ~AudienceNotAllowed(g, q) /\ ~AudienceDenied(g, q)
      /\ ~AudiencePrincipalNotAllowed(g, q) /\ MintingVerdict(g, q) = "Allowed"
  BY <1>1, <1>2, <1>4, <1>5, SameRequestOfType DEF TypePermits
<1>7. CASE ~AudiencePrincipalDenied(g, q)
  <2>1. TypePermits(g, q)
    BY <1>6, <1>7 DEF TypePermits
  <2>2. Evaluate(g, q).reason = None
    BY <1>3, <2>1, NoGrantCheckApplies, NoTypeCheckApplies DEF Evaluate
  <2> QED BY <2>2 DEF q
<1>8. CASE AudiencePrincipalDenied(g, q)
  <2>1. \A i \in 1 .. 9 : i # 8 => ~checks[i].applies
    BY <1>6, TypeCheckFacts
  <2>2. Applying(checks) # {}
    BY <1>8, NoTypeCheckApplies DEF TypePermits
  <2>3. FirstReason(checks) = "AudiencePrincipalDenied"
    <3>1. DOMAIN checks = 1 .. 9 /\ checks[8].reason = "AudiencePrincipalDenied"
      BY DEF TypeChecks
    <3> HIDE DEF checks
    <3> QED BY <2>1, <2>2, <3>1, OnlyOneReason
  <2>4. Evaluate(g, q).reason = "AudiencePrincipalDenied"
    BY <1>3, <2>2, <2>3, NoGrantCheckApplies DEF Evaluate
  <2> QED BY <2>4 DEF q
<1> QED BY <1>7, <1>8

(***************************************************************************)
(* engine.rs matches contexts through an index, a scan or a hashed set: an *)
(* allowed request with one more value in any of its four contexts is      *)
(* denied only by a deny of that context, never because an allow fails.    *)
(***************************************************************************)
THEOREM AddedContextIsOnlyEverDenied == Spec => []AddedContextIsOnlyDenied
<1>1. Decided => AddedContextIsOnlyDenied
  <2> SUFFICES ASSUME Decided, decision.allowed
               PROVE  AddedContextIsOnlyDenied
    BY DEF AddedContextIsOnlyDenied
  <2>1. request \in Requests /\ Allows(grant, request)
    BY AllowedIsAllows DEF Decided
  <2> QED BY <2>1, RicherTarget, RicherSelectors, RicherAudience, RicherPrincipal
      DEF AddedContextIsOnlyDenied
<1> QED BY <1>1, DecidedHolds, PTL
=============================================================================
