---------------------------- MODULE EvaluationMC ----------------------------
(***************************************************************************)
(* Instances of Evaluation for TLC: a grant that permits everything and,   *)
(* feature by feature, the ways to restrict it; requests that vary in what *)
(* each of those features looks at.                                        *)
(***************************************************************************)
EXTENDS Evaluation, TLC

CONSTANTS O, other, aud1, aud2, ns, actor, x, y, type1, type2, custom

Sel(kind, values) == [all |-> FALSE, kind |-> kind, values |-> values, expressions |-> {}]
Expr(kind, values) == [all |-> FALSE, kind |-> kind, values |-> {}, expressions |-> {values}]
AnyOf(kind) == [all |-> TRUE, kind |-> kind, values |-> {}, expressions |-> {}]

Scope(allow, deny) == [all |-> allow = {}, allow |-> allow, deny |-> deny]
Everything == Scope({}, {})
Empty == [k \in {} |-> {}]

Scopes == {Everything, Scope({Sel(ns, {x})}, {}), Scope({Expr(ns, {x, y})}, {Sel(ns, {y})}),
           Scope({}, {AnyOf(actor)})}

Type == [all |-> TRUE, allow |-> {}, deny |-> {}, recognize |-> None, mint |-> None,
         operations |-> [allow |-> {"recognize", "create", custom}, deny |-> {}],
         audience |-> Empty, minting |-> [max_total |-> None, max_per_user |-> None]]

Scoped(scope) == [Type EXCEPT !.all = scope.all, !.allow = scope.allow, !.deny = scope.deny]

Grant == [revocation |-> None, effect |-> "BlockAll", window |-> None, origin |-> O,
          target |-> Everything, types |-> type1 :> Type, recognize |-> TRUE, mint |-> TRUE,
          default_audience |-> Empty]

WithType(type) == [Grant EXCEPT !.types = type1 :> type]

InTime ==
  {[Grant EXCEPT !.revocation = r, !.effect = e, !.window = w] :
     r \in {None} \cup [status : {"Active", "Revoked"}, fresh_until : {1, 3}],
     e \in {"BlockAll", "BlockMintingOnly"},
     w \in {None, [not_before |-> 1, not_after |-> 2]}}

InScope ==
  {[WithType(Scoped(s)) EXCEPT !.target = t] : s \in Scopes, t \in Scopes}
    \cup {[Grant EXCEPT !.origin = other]}

InCapability ==
  {[WithType([Type EXCEPT !.recognize = own, !.mint = own, !.operations = ops])
      EXCEPT !.recognize = global, !.mint = global] :
     own \in {None, TRUE, FALSE}, global \in BOOLEAN,
     ops \in {None, [allow |-> {"recognize", "create"}, deny |-> {}],
              [allow |-> {"create", custom}, deny |-> {custom}]}}

Entry(scope, principals) == [scope |-> scope, principal_scope |-> principals]
Audiences ==
  {Empty, aud1 :> Entry(Everything, None), aud1 :> Entry(Scope({Sel(ns, {x})}, {}), None),
   aud1 :> Entry(Scope({}, {Sel(ns, {x})}), None),
   aud2 :> Entry(Everything, Scope({Sel(actor, {x})}, {})),
   aud2 :> Entry(Everything, Scope({Sel(actor, {x})}, {Sel(actor, {y})}))}

InAudience ==
  {[WithType([Type EXCEPT !.audience = own]) EXCEPT !.default_audience = default] :
     own \in Audiences, default \in Audiences}

InQuota ==
  {WithType([Type EXCEPT !.minting = [max_total |-> total, max_per_user |-> user]]) :
     total \in {None, 2, 3}, user \in {None, 2}}

-----------------------------------------------------------------------------
Request == [operation |-> "mint", selectors_verified |-> TRUE, evaluated_at |-> 1, origin |-> O,
            target |-> ns :> {x}, type |-> type1, selectors |-> ns :> {x}, audience |-> aud1,
            audience_context |-> ns :> {x}, principal |-> actor :> {x},
            mint_context |-> [total |-> 0, per_principal |-> 0, quantity |-> 1]]

MCOperations == {"recognize", "mint", custom}

AskTime ==
  {[Request EXCEPT !.operation = op, !.selectors_verified = v, !.evaluated_at = t] :
     op \in MCOperations, v \in BOOLEAN, t \in Times}

AskScope ==
  {[Request EXCEPT !.target = t, !.selectors = s, !.operation = op] :
     t \in {Empty, ns :> {x}, ns :> {x, y}, actor :> {x}},
     s \in {Empty, ns :> {x}, ns :> {x, y}, actor :> {x}}, op \in {"recognize", "mint"}}
    \cup {[Request EXCEPT !.type = type2]}

AskAudience ==
  {[Request EXCEPT !.audience = a, !.audience_context = c, !.principal = p, !.operation = op] :
     a \in {aud1, aud2}, c \in {Empty, ns :> {x}, ns :> {y}},
     p \in {Empty, actor :> {x}, actor :> {x, y}}, op \in {"mint", custom}}

AskQuota ==
  {[Request EXCEPT !.mint_context = c, !.principal = p] :
     c \in {None} \cup [total: {0, 1, 3}, per_principal: {0, 1, 3}, quantity: {1, 2}],
     p \in {Empty, actor :> {x}}}

MCGrants == InTime \cup InScope \cup InCapability \cup InAudience \cup InQuota
MCRequests == AskTime \cup AskScope \cup AskAudience \cup AskQuota
MCSelectors == {Sel(ns, {x}), Expr(ns, {y}), AnyOf(actor)}
MCContexts == ns :> {x, y} @@ actor :> {y}
MCNames == {"recognize", "create", custom}
=============================================================================
