----------------------------- MODULE Evaluation -----------------------------
(***************************************************************************)
(* One grant evaluated again and again: requests come in any order, the    *)
(* clock runs, and nothing is remembered from one decision to the next.    *)
(* What must hold relates decisions to each other: about the same request  *)
(* under an edited grant, about a weaker request, about another instant.   *)
(***************************************************************************)
EXTENDS EvaluationRules

CONSTANTS
  Grants,      \* verified grants
  Requests,    \* evaluation requests
  Times,       \* instants at which a request may be evaluated
  Selectors,   \* selectors an issuer might add to a scope
  Contexts,    \* values a caller might add to a context, by kind
  Operations   \* operation names an issuer might deny

RevocationStates == [status : {"Active", "Revoked"}, fresh_until : Nat]

Windows == [not_before : Nat, not_after : Nat]

OperationScopes == [allow : SUBSET Operations, deny : SUBSET Operations]

\* Allow and deny selectors under the flag that lifts the former.
IsScope(scope) == {"all", "allow", "deny"} \subseteq DOMAIN scope

WithDeny(scope, s) == [scope EXCEPT !.deny = @ \cup {s}]

\* An audience entry; a principal scope, if it has one, is not None, nor is
\* it with one more deny.
IsEntry(entry) ==
  /\ DOMAIN entry = {"scope", "principal_scope"}
  /\ IsScope(entry.scope)
  /\ entry.principal_scope # None =>
       /\ IsScope(entry.principal_scope)
       /\ \A s \in Selectors : WithDeny(entry.principal_scope, s) # None

IsAudience(audience) == \A a \in DOMAIN audience : IsEntry(audience[a])

\* The members a grant and a request have whatever their author states.
ASSUME GrantsAssumption ==
  /\ None \notin RevocationStates /\ None \notin OperationScopes
  /\ \A g \in Grants :
       /\ DOMAIN g = {"revocation", "effect", "window", "origin", "target", "types",
                     "recognize", "mint", "default_audience"}
       /\ g.revocation \in RevocationStates \cup {None}
       /\ g.window \in Windows \cup {None}
       /\ IsScope(g.target)
       /\ \A type \in DOMAIN g.types :
            /\ DOMAIN g.types[type] = {"all", "allow", "deny", "recognize", "mint",
                                      "operations", "audience", "minting"}
            /\ g.types[type].operations \in OperationScopes \cup {None}
            /\ IsAudience(g.types[type].audience)
       /\ IsAudience(g.default_audience)

ASSUME RequestsAssumption ==
  /\ Times \subseteq Nat
  /\ \A r \in Requests :
       /\ DOMAIN r = {"operation", "selectors_verified", "evaluated_at", "origin", "target",
                     "type", "selectors", "audience", "audience_context", "principal",
                     "mint_context"}
       /\ r.evaluated_at \in Nat

VARIABLES grant, request, decision

vars == <<grant, request, decision>>

NoDecision == [allowed |-> FALSE, reason |-> "NotEvaluated"]

Init == grant \in Grants /\ request \in Requests /\ decision = NoDecision

EvaluateRequest ==
  /\ decision = NoDecision
  /\ decision' = Evaluate(grant, request)
  /\ UNCHANGED <<grant, request>>

Next == EvaluateRequest

Spec == Init /\ [][Next]_vars

-----------------------------------------------------------------------------
(* One more deny, at every place where a grant can state one.              *)

EntryDenials(entry) ==
  {[entry EXCEPT !.scope = WithDeny(@, s)] : s \in Selectors}
    \cup {[entry EXCEPT !.principal_scope = WithDeny(@, s)] :
             s \in {t \in Selectors : entry.principal_scope # None}}

AudienceDenials(audience) ==
  UNION {{[audience EXCEPT ![a] = entry] : entry \in EntryDenials(audience[a])}
           : a \in DOMAIN audience}

TypeDenials(type) ==
  {WithDeny(type, s) : s \in Selectors}
    \cup {[type EXCEPT !.operations.deny = @ \cup {name}] :
             name \in {n \in Operations : type.operations # None}}
    \cup {[type EXCEPT !.audience = audience] : audience \in AudienceDenials(type.audience)}

MoreDenials ==
  {[grant EXCEPT !.target = WithDeny(@, s)] : s \in Selectors}
    \cup (UNION {{[grant EXCEPT !.types[t] = type] : type \in TypeDenials(grant.types[t])}
                   : t \in DOMAIN grant.types})
    \cup {[grant EXCEPT !.default_audience = audience] :
             audience \in AudienceDenials(grant.default_audience)}

\* "Deny is always subtractive": no additional deny turns a denial into a
\* permission, whether it is stated of the target, of a type, of operations,
\* or of an audience or its principals, by the type or by default.
DenyIsSubtractive ==
  decision.allowed \/ decision = NoDecision \/ \A g \in MoreDenials : ~Allows(g, request)

\* A permission is never isolated in time: what is allowed at two instants
\* is allowed at every instant between them.  Revocation freshness and the
\* time window may only cut the ends off.
AllowedAt(time) == Allows(grant, [request EXCEPT !.evaluated_at = time])

PermissionHasNoGaps ==
  \A t1, t2, t3 \in Times : t1 < t2 /\ t2 < t3 /\ AllowedAt(t1) /\ AllowedAt(t3) => AllowedAt(t2)

\* A revocation only takes away: what is allowed of a revoked grant is no
\* mint and would be allowed of the same grant unrevoked; and what is
\* allowed on an older check would be allowed on a newer one.
RevocationOnlyTakesAway ==
  decision.allowed /\ grant.revocation # None =>
    /\ Allows([grant EXCEPT !.revocation.status = "Active"], request)
    /\ \A time \in Times : time > grant.revocation.fresh_until =>
         Allows([grant EXCEPT !.revocation.fresh_until = time], request)
    /\ grant.revocation.status = "Revoked" => request.operation # "mint"

\* More about oneself can only be held against one: a value added to any of
\* the four contexts of an allowed request (target, resource, audience and
\* principal) changes the decision only by matching a deny of that context,
\* never by making an allow fail.
WithValue(context, kind, value) ==
  [k \in DOMAIN context \cup {kind} |->
     (IF k \in DOMAIN context THEN context[k] ELSE {}) \cup (IF k = kind THEN {value} ELSE {})]

AddedContextIsOnlyDenied ==
  decision.allowed =>
    \A kind \in DOMAIN Contexts : \A value \in Contexts[kind] :
      /\ Evaluate(grant, [request EXCEPT !.target = WithValue(@, kind, value)]).reason
           \in {None, "TargetDenied"}
      /\ Evaluate(grant, [request EXCEPT !.selectors = WithValue(@, kind, value)]).reason
           \in {None, "ResourceDenied"}
      /\ Evaluate(grant, [request EXCEPT !.audience_context = WithValue(@, kind, value)]).reason
           \in {None, "AudienceDenied"}
      /\ Evaluate(grant, [request EXCEPT !.principal = WithValue(@, kind, value)]).reason
           \in {None, "AudiencePrincipalDenied"}
=============================================================================
