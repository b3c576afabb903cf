--------------------------- MODULE AtomicExecutor ---------------------------
(***************************************************************************)
(* The atomic execution boundary of a state-changing TrustGrant operation: *)
(* MutationRequest::try_from and the in-memory reference implementation of *)
(* AtomicInventoryExecutor (trustgrant-evaluate/src/execution.rs).         *)
(*                                                                         *)
(* authorize_and_execute takes &mut self, so a call is one atomic step and *)
(* concurrent callers interleave call by call.  Every way a call can end   *)
(* is an action of its own, guarded by the conditions that lead to it in   *)
(* the code.  The caller is arbitrary: a step may present any request of   *)
(* Requests, so retries, replays, reused intents, racing writers with an   *)
(* old version and a callback that fails all happen.                       *)
(***************************************************************************)
EXTENDS MintingConstraints, Sequences

CONSTANTS
  Intents,         \* IntentId values
  Grants,          \* TrustGrantId of the verified grants presented
  ResourceTypes,
  Templates,       \* template identifiers of mint bindings
  Resources,       \* resource keys (origin authority, type, identifier)
  Principals,      \* values of audience_principal_context
  EmptyPrincipal,  \* the context with no entry
  StableKey,       \* SelectorContext::stable_key of each principal context
  Actors,          \* authenticated actors
  Contexts,        \* target, audience and resource selectors, as one value
  MaxTotal,        \* minting.max_total of <<grant, resource type>>
  MaxPerUser,      \* minting.max_per_user of <<grant, resource type>>
  Requests,        \* the evaluation requests callers present
  AuditBound,      \* bound on the length of audit_log
  GenerationBound  \* bound on the registrations of one resource

\* RequestedOperation: one custom operation stands for all of them.
Operations == {"recognize", "create", "mint", "custom"}

\* ResourceBinding: a mint names a template, anything else a resource, its
\* declared type and the version the caller observed.
MintBindings     == [kind: {"mint"}, template: Templates \cup {None}]
ExistingBindings == [kind: {"existing"}, resource: Resources,
                     type: ResourceTypes \cup {None},
                     expected_version: U64 \cup {None}]

(***************************************************************************)
(* EvaluationRequest.  `admissible` is what EvaluationEngine answers about *)
(* everything but the mint counters; it depends on evaluated_at and on     *)
(* selectors_verified, which a retry may change.  `quantity` is the one of *)
(* the caller's MintContext, or 1.                                         *)
(***************************************************************************)
EvaluationRequests ==
  [intent: Intents \cup {None}, grant: Grants, operation: Operations,
   binding: MintBindings \cup ExistingBindings, type: ResourceTypes,
   principal: Principals, context: Contexts, quantity: 1 .. MaxU64,
   actor: Actors \cup {None}, admissible: BOOLEAN]

ASSUME ExecutorAssumption ==
  /\ None \notin Intents \cup Resources \cup ResourceTypes \cup Templates \cup Actors
  /\ EmptyPrincipal \in Principals
  /\ DOMAIN StableKey = Principals
  /\ MaxTotal   \in [Grants \X ResourceTypes -> Limits]
  /\ MaxPerUser \in [Grants \X ResourceTypes -> Limits]
  /\ Requests \subseteq EvaluationRequests
  /\ AuditBound \in Nat
  /\ GenerationBound \in Nat

IsMint(r) == r.operation = "mint"

(***************************************************************************)
(* MutationRequest::try_from: an intent identifier is mandatory, a mint    *)
(* needs a mint binding with a template, and every other operation an      *)
(* existing resource of the requested type with an expected version.       *)
(***************************************************************************)
IsMutationRequest(r) ==
  /\ r.intent # None
  /\ IsMint(r) <=> r.binding.kind = "mint"
  /\ IsMint(r) => r.binding.template # None
  /\ ~IsMint(r) => /\ r.binding.type = r.type
                   /\ r.binding.expected_version # None

MutationRequests == {r \in Requests : IsMutationRequest(r)}

VARIABLES
  resource_versions,    \* resource -> version
  total_mints,          \* <<grant, type>> -> number minted
  mints_for_principal,  \* <<grant, type, stable key>> -> number minted
  processed,            \* intent -> the authorization it committed
  audit_log,            \* authorizations in execution order
  reply,                \* the last call: its request and how it ended
  registered            \* history: resource -> its last registration

state == <<resource_versions, total_mints, mints_for_principal, processed, audit_log>>
vars  == <<state, reply, registered>>

\* HashMap::insert, and HashMap::get(..).copied().unwrap_or(0).
Insert(map, key, value) ==
  [k \in DOMAIN map \cup {key} |-> IF k = key THEN value ELSE map[k]]
Lookup(map, key) == IF key \in DOMAIN map THEN map[key] ELSE 0
IsMap(map, Keys, Values) == DOMAIN map \subseteq Keys /\ map \in [DOMAIN map -> Values]

MintTotalKey(r)     == <<r.grant, r.type>>
MintPrincipalKey(r) == <<r.grant, r.type, StableKey[r.principal]>>

\* The mint context with the executor's own counters in place of the caller's.
RuntimeMintContext(r) ==
  [total         |-> Lookup(total_mints, MintTotalKey(r)),
   per_principal |-> Lookup(mints_for_principal, MintPrincipalKey(r)),
   quantity      |-> r.quantity]

\* Mutant: the mint is evaluated against the caller's counters, say fresh ones.
AllowedByCallerCounters(r) ==
  /\ r.admissible
  /\ IsMint(r) =>
       EvaluateMintingConstraints(MaxTotal[MintTotalKey(r)], MaxPerUser[MintTotalKey(r)],
         [total |-> 0, per_principal |-> 0, quantity |-> r.quantity],
         r.principal = EmptyPrincipal) = "Allowed"

\* EvaluationEngine::evaluate of the request the executor evaluates.
Allowed(r) ==
  /\ r.admissible
  /\ IsMint(r) =>
       EvaluateMintingConstraints(MaxTotal[MintTotalKey(r)], MaxPerUser[MintTotalKey(r)],
         RuntimeMintContext(r), r.principal = EmptyPrincipal) = "Allowed"

(***************************************************************************)
(* MutationAuthorization: the decision and the complete evaluated request, *)
(* for a mint with the counters it was evaluated against.  `generation` is *)
(* history: the registration of the resource the decision refers to.       *)
(***************************************************************************)
Generation(resource) ==
  IF resource \in DOMAIN registered THEN registered[resource].generation ELSE 0

Authorization(r) ==
  [request |-> r, allowed |-> Allowed(r),
   mint_context |-> IF IsMint(r) THEN RuntimeMintContext(r) ELSE None,
   generation   |-> IF IsMint(r) THEN 0 ELSE Generation(r.binding.resource)]

\* EvaluationRequest::same_mutation_intent: the instant of the evaluation and
\* the counters may differ.
SameMutationIntent(previous, r) ==
  /\ previous.operation = r.operation
  /\ previous.binding   = r.binding
  /\ previous.type      = r.type
  /\ previous.context   = r.context
  /\ previous.principal = r.principal

\* Mutant: a replay under another grant counts as the same request.
MatchesAnyGrant(authorization, r) == SameMutationIntent(authorization.request, r)

\* MutationAuthorization::matches.
Matches(authorization, r) ==
  authorization.request.grant = r.grant /\ SameMutationIntent(authorization.request, r)

-----------------------------------------------------------------------------
Init ==
  /\ resource_versions   = [k \in {} |-> 0]
  /\ total_mints         = [k \in {} |-> 0]
  /\ mints_for_principal = [k \in {} |-> 0]
  /\ processed           = [k \in {} |-> 0]
  /\ audit_log           = <<>>
  /\ reply               = [kind |-> "none"]
  /\ registered          = [k \in {} |-> 0]

\* register_resource: sets the version, whatever it was.
RegisterResource(resource, version) ==
  /\ Generation(resource) < GenerationBound
  /\ resource_versions' = Insert(resource_versions, resource, version)
  /\ registered' = Insert(registered, resource,
       [generation |-> Generation(resource) + 1, version |-> version])
  /\ UNCHANGED <<total_mints, mints_for_principal, processed, audit_log, reply>>

Reply(r, kind) == reply' = [kind |-> kind, request |-> r]

\* The request is not a valid mutation: authorize_and_execute is never called.
RejectRequest(r) ==
  /\ ~IsMutationRequest(r)
  /\ reply' = [kind |-> "Rejected"]
  /\ UNCHANGED <<state, registered>>

\* The intent was committed before: the same binding gets the original
\* authorization back, any other is a conflict.  Nothing runs.
ReplayIntent(r) ==
  /\ IsMutationRequest(r)
  /\ r.intent \in DOMAIN processed
  /\ Reply(r, IF Matches(processed[r.intent], r) THEN "Duplicate" ELSE "IntentConflict")
  /\ UNCHANGED <<state, registered>>

\* Mutant: no replay check.
UnprocessedUnchecked(r) == IsMutationRequest(r)

Unprocessed(r) == IsMutationRequest(r) /\ r.intent \notin DOMAIN processed

RecordAudit(r) ==
  /\ Len(audit_log) < AuditBound
  /\ audit_log' = Append(audit_log, Authorization(r))

\* Denied: audited, and the intent stays free.
DenyRequest(r) ==
  /\ Unprocessed(r)
  /\ ~Allowed(r)
  /\ RecordAudit(r)
  /\ Reply(r, "Denied")
  /\ UNCHANGED <<resource_versions, total_mints, mints_for_principal, processed, registered>>

\* Allowed, but the resource was never registered: an error, without audit.
FailUnknownResource(r) ==
  /\ Unprocessed(r)
  /\ Allowed(r)
  /\ ~IsMint(r)
  /\ r.binding.resource \notin DOMAIN resource_versions
  /\ Reply(r, "UnknownResource")
  /\ UNCHANGED <<state, registered>>

\* Allowed, but the resource moved on since the caller read it.
RefuseStaleVersion(r) ==
  /\ Unprocessed(r)
  /\ Allowed(r)
  /\ ~IsMint(r)
  /\ r.binding.resource \in DOMAIN resource_versions
  /\ r.binding.expected_version # resource_versions[r.binding.resource]
  /\ RecordAudit(r)
  /\ Reply(r, "Stale")
  /\ UNCHANGED <<resource_versions, total_mints, mints_for_principal, processed, registered>>

\* Mutant: the expected version is not compared.
ReachesCallbackUnversioned(r) ==
  /\ Unprocessed(r)
  /\ Allowed(r)
  /\ ~IsMint(r) => r.binding.resource \in DOMAIN resource_versions

\* The request passes every check made before the callback runs.
ReachesCallback(r) ==
  /\ Unprocessed(r)
  /\ Allowed(r)
  /\ ~IsMint(r) => /\ r.binding.resource \in DOMAIN resource_versions
                   /\ r.binding.expected_version = resource_versions[r.binding.resource]

\* Mutants: the counters, or the audit record, are written to the executor's
\* own state before the callback, so that an abort does not undo them.
AbortCallbackKeepsCounter(r) ==
  /\ ReachesCallback(r)
  /\ IsMint(r)
  /\ total_mints' = Insert(total_mints, MintTotalKey(r),
       Lookup(total_mints, MintTotalKey(r)) + r.quantity)
  /\ Reply(r, "CallbackError")
  /\ UNCHANGED <<resource_versions, mints_for_principal, processed, audit_log, registered>>
AbortCallbackKeepsAudit(r) ==
  /\ ReachesCallback(r)
  /\ RecordAudit(r)
  /\ Reply(r, "CallbackError")
  /\ UNCHANGED <<resource_versions, total_mints, mints_for_principal, processed, registered>>

\* apply returned an error: the transaction, a clone of the state, is dropped.
AbortCallback(r) ==
  /\ ReachesCallback(r)
  /\ Reply(r, "CallbackError")
  /\ UNCHANGED <<state, registered>>

\* Mutant: the counters are advanced without checking their width.
OverflowsNever(r) == FALSE

Overflows(r) ==
  IF IsMint(r)
    THEN \/ AddOverflows(Lookup(total_mints, MintTotalKey(r)), r.quantity)
         \/ AddOverflows(Lookup(mints_for_principal, MintPrincipalKey(r)), r.quantity)
    ELSE AddOverflows(resource_versions[r.binding.resource], 1)

\* apply succeeded and a counter cannot be advanced: dropped as well.
AbortOverflow(r) ==
  /\ ReachesCallback(r)
  /\ Overflows(r)
  /\ Reply(r, "CounterOverflow")
  /\ UNCHANGED <<state, registered>>

\* apply succeeded for a mint: audit, both counters and the intent commit together.
CommitMint(r) ==
  /\ ReachesCallback(r)
  /\ ~Overflows(r)
  /\ IsMint(r)
  /\ RecordAudit(r)
  /\ total_mints' = Insert(total_mints, MintTotalKey(r),
       Lookup(total_mints, MintTotalKey(r)) + r.quantity)
  /\ mints_for_principal' = Insert(mints_for_principal, MintPrincipalKey(r),
       Lookup(mints_for_principal, MintPrincipalKey(r)) + r.quantity)
  /\ processed' = Insert(processed, r.intent, Authorization(r))
  /\ Reply(r, "Applied")
  /\ UNCHANGED <<resource_versions, registered>>

\* apply succeeded for an existing resource: its version moves by one.
CommitExisting(r) ==
  /\ ReachesCallback(r)
  /\ ~Overflows(r)
  /\ ~IsMint(r)
  /\ RecordAudit(r)
  /\ resource_versions' = Insert(resource_versions, r.binding.resource,
       resource_versions[r.binding.resource] + 1)
  /\ processed' = Insert(processed, r.intent, Authorization(r))
  /\ Reply(r, "Applied")
  /\ UNCHANGED <<total_mints, mints_for_principal, registered>>

AuthorizeAndExecute(r) ==
  \/ ReplayIntent(r)
  \/ DenyRequest(r)
  \/ FailUnknownResource(r)
  \/ RefuseStaleVersion(r)
  \/ AbortCallback(r)
  \/ AbortOverflow(r)
  \/ CommitMint(r)
  \/ CommitExisting(r)

Next ==
  \/ \E resource \in Resources, version \in U64 : RegisterResource(resource, version)
  \/ \E r \in Requests : RejectRequest(r) \/ AuthorizeAndExecute(r)

Spec == Init /\ [][Next]_vars

-----------------------------------------------------------------------------
Authorizations ==
  [request: MutationRequests, allowed: BOOLEAN,
   mint_context: MintContexts \cup {None}, generation: 0 .. GenerationBound]

ReplyKinds == {"Duplicate", "IntentConflict", "Denied", "UnknownResource",
               "Stale", "CallbackError", "CounterOverflow", "Applied"}

PrincipalKeys ==
  {<<g, t, StableKey[p]>> : g \in Grants, t \in ResourceTypes, p \in Principals}
Registrations == [generation: 1 .. GenerationBound, version: U64]
Answers == [kind: {"none", "Rejected"}] \cup [kind: ReplyKinds, request: Requests]

\* The types of the executor's maps, of its audit log and of the history.
TypeOK ==
  /\ IsMap(resource_versions, Resources, U64)
  /\ IsMap(total_mints, Grants \X ResourceTypes, U64)
  /\ IsMap(mints_for_principal, PrincipalKeys, U64)
  /\ IsMap(processed, Intents, Authorizations)
  /\ audit_log \in Seq(Authorizations)
  /\ reply \in Answers
  /\ IsMap(registered, Resources, Registrations)
  /\ DOMAIN registered = DOMAIN resource_versions

CommittedMints    == {i \in DOMAIN processed : IsMint(processed[i].request)}
CommittedExisting == DOMAIN processed \ CommittedMints

\* The serial numbers, counted per grant and type and per principal, of the
\* units that one committed mint created.
Units(i) ==
  processed[i].mint_context.total + 1
    .. processed[i].mint_context.total + processed[i].mint_context.quantity
PrincipalUnits(i) ==
  processed[i].mint_context.per_principal + 1
    .. processed[i].mint_context.per_principal + processed[i].mint_context.quantity

MintsOf(key) == {i \in CommittedMints : MintTotalKey(processed[i].request) = key}
MintsOfPrincipal(key) == {i \in CommittedMints : MintPrincipalKey(processed[i].request) = key}

TotalUnitsAccounted ==
  \A key \in Grants \X ResourceTypes :
    /\ UNION {Units(i) : i \in MintsOf(key)} = 1 .. Lookup(total_mints, key)
    /\ \A i, j \in MintsOf(key) : i # j => Units(i) \cap Units(j) = {}

PrincipalUnitsAccounted ==
  \A key \in PrincipalKeys :
    /\ UNION {PrincipalUnits(i) : i \in MintsOfPrincipal(key)}
         = 1 .. Lookup(mints_for_principal, key)
    /\ \A i, j \in MintsOfPrincipal(key) : i # j => PrincipalUnits(i) \cap PrincipalUnits(j) = {}

(***************************************************************************)
(* Every unit a counter of mints stands for was created by exactly one     *)
(* committed intent: however calls are retried, denied, aborted half-way   *)
(* or raced, no unit is counted twice, lost, or counted without a commit.  *)
(* As it holds of the counter per type and of the one per principal, the   *)
(* two never drift apart, not even when the second one overflows after the *)
(* first was advanced.                                                     *)
(***************************************************************************)
UnitsAccounted == TotalUnitsAccounted /\ PrincipalUnitsAccounted

(***************************************************************************)
(* No committed mint ever created a unit beyond the grant's max_total, or  *)
(* beyond max_per_user for its principal, and max_per_user is never        *)
(* applied to a request that names no principal.                           *)
(***************************************************************************)
QuotaNeverExceeded ==
  \A i \in CommittedMints :
    LET r == processed[i].request
        max_total    == MaxTotal[MintTotalKey(r)]
        max_per_user == MaxPerUser[MintTotalKey(r)]
    IN  /\ max_total # None => Units(i) \subseteq 1 .. max_total
        /\ max_per_user # None => /\ PrincipalUnits(i) \subseteq 1 .. max_per_user
                                  /\ r.principal # EmptyPrincipal

ObservedVersion(i) == processed[i].request.binding.expected_version
WritesOf(resource, generation) ==
  {i \in CommittedExisting : /\ processed[i].request.binding.resource = resource
                             /\ processed[i].generation = generation}

(***************************************************************************)
(* No lost update: between two registrations of a resource, each of its    *)
(* versions was replaced by exactly one committed intent, the one that had *)
(* observed that version; no version is skipped and none is replaced twice.*)
(***************************************************************************)
VersionsAccounted ==
  \A resource \in DOMAIN resource_versions :
    /\ {ObservedVersion(i) : i \in WritesOf(resource, Generation(resource))}
         = registered[resource].version .. resource_versions[resource] - 1
    /\ \A generation \in 1 .. Generation(resource) :
         \A i, j \in WritesOf(resource, generation) :
            i # j => ObservedVersion(i) # ObservedVersion(j)

(***************************************************************************)
(* The audit log holds the authorization of every commit, and each allowed *)
(* mint it holds was committed, once, under that very authorization.       *)
(* (A stale attempt on an existing resource leaves an allowed record too.) *)
(***************************************************************************)
AuditMatchesLedger ==
  LET AllowedMints == {n \in DOMAIN audit_log :
                         audit_log[n].allowed /\ IsMint(audit_log[n].request)}
      IntentAt(n)  == audit_log[n].request.intent
  IN  /\ \A i \in DOMAIN processed : \E n \in DOMAIN audit_log : audit_log[n] = processed[i]
      /\ \A n \in AllowedMints : /\ IntentAt(n) \in DOMAIN processed
                                 /\ processed[IntentAt(n)] = audit_log[n]
      /\ \A m, n \in AllowedMints : m # n => IntentAt(m) # IntentAt(n)

\* A request but for what its intent is not bound to: the quantity it mints,
\* its actor, and the evaluator's answer, which depends on the instant.
BoundTo(r, other) ==
  [r EXCEPT !.quantity = other.quantity, !.actor = other.actor, !.admissible = other.admissible]

(***************************************************************************)
(* What a caller is told is what the ledger holds.  Applied means that     *)
(* this very request is committed under its intent.  Duplicate means that  *)
(* one is which differs from it in nothing but quantity, actor and the     *)
(* evaluator's answer: these three are the exception, and a caller that is *)
(* told Duplicate may have asked for another quantity or be another actor. *)
(* A conflict means that the committed request differs in more than that,  *)
(* any other answer that the intent is free, so the caller may retry it.   *)
(***************************************************************************)
RepliesMatchLedger ==
  reply.kind \in ReplyKinds =>
    LET r == reply.request
        committed == r.intent \in DOMAIN processed
        committed_request == processed[r.intent].request
    IN  /\ reply.kind = "Applied" => committed /\ committed_request = r
        /\ reply.kind = "Duplicate" => committed /\ BoundTo(committed_request, r) = r
        /\ reply.kind = "IntentConflict" => committed /\ BoundTo(committed_request, r) # r
        /\ reply.kind \in {"Denied", "UnknownResource", "Stale", "CallbackError",
                           "CounterOverflow"} => ~committed

(***************************************************************************)
(* The doc comment of IntentId: "Reusing it for a different request is an  *)
(* intent conflict, not a successful retry."  A retry may find another     *)
(* instant, and nothing else may differ; but a mint's quantity may.        *)
(***************************************************************************)
DuplicateIsTheSameRequest ==
  reply.kind = "Duplicate" =>
    LET r == reply.request
    IN  [processed[r.intent].request EXCEPT !.admissible = r.admissible] = r

(***************************************************************************)
(* The doc comment of MutationRequest::actor: "When `None`, the executor   *)
(* should reject the mutation."  Nothing in authorize_and_execute looks.   *)
(***************************************************************************)
CommittedActorIsKnown == \A i \in DOMAIN processed : processed[i].request.actor # None
=============================================================================
