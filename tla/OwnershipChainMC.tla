-------------------------- MODULE OwnershipChainMC --------------------------
(***************************************************************************)
(* Instances of OwnershipChain for TLC: a legitimate history of transfers  *)
(* O -> A -> B -> A, and beside each of its members the records that go    *)
(* wrong in one way, offered in every order and with every repetition.     *)
(***************************************************************************)
EXTENDS OwnershipChain, TLC

CONSTANTS O, A, B, id1, id2, id3, id4, s1, s2, type1, ns, actor, x, y

Values(kind, values) == [kind |-> kind, values |-> values]
Explicit(kind, values) == [kind |-> kind, values |-> values, explicit |-> TRUE]
Entry(allow) == type1 :> [all |-> FALSE, deny |-> {}, allow |-> allow]

Both == type1 :> {Values(ns, {x}), Values(ns, {y})}
OnlyX == type1 :> {Values(ns, {x})}
WrongKind == type1 :> {Values(ns, {x}), Values(actor, {y})}

Transfer(id, rev, sup, from, to, at) ==
  [id |-> id, series |-> s1, revision |-> rev, supersedes |-> sup, origin |-> O,
   predecessor |-> from, successor |-> to, effective_at |-> at, window |-> None, scope |-> Both]

First  == Transfer(id1, 1, None, O, A, 1)
Second == Transfer(id2, 2, id1, A, B, 2)
Third  == Transfer(id3, 4, id2, B, A, 2)

MCTransitions ==
  {First, Second, Third,
   [First EXCEPT !.scope = WrongKind],
   [First EXCEPT !.window = [not_before |-> 1, not_after |-> 1]],
   Transfer(id3, 3, id2, A, O, 1),                       \* first of its own branch
   [Second EXCEPT !.id = id4, !.successor = O],          \* a competing transfer
   Transfer(id1, 3, id4, O, A, 2),                       \* an identifier used again
   [Second EXCEPT !.effective_at = 0],                   \* effective before its predecessor
   [Second EXCEPT !.series = s2, !.scope = OnlyX],
   [Third EXCEPT !.revision = 2],                        \* the revision stands still
   [Second EXCEPT !.origin = A]}

Legitimate == {First, Second, Third}

MCChains ==
  UNION {[1 .. n -> MCTransitions] : n \in 0 .. 2}
    \cup [1 .. 3 -> MCTransitions \ {[Second EXCEPT !.origin = A]}]
    \cup {<<First, Second, Third, First>>}

Scopes ==
  {Entry({Explicit(ns, {x, y})}), Entry({Explicit(ns, {x})}),
   type1 :> [all |-> TRUE, deny |-> {}, allow |-> {}],
   type1 :> [all |-> FALSE, deny |-> {Explicit(ns, {y})}, allow |-> {Explicit(ns, {x})}],
   Entry({[kind |-> ns, values |-> {}, explicit |-> FALSE]}),
   Entry({Explicit(ns, {x})}) @@ (x :> [all |-> FALSE, deny |-> {}, allow |-> {Explicit(ns, {x})}])}

MCDocuments ==
  {[origin |-> O, active |-> a, scope |-> Entry({Explicit(ns, {x, y})})] : a \in Authorities}
    \cup {[origin |-> O, active |-> A, scope |-> s] : s \in Scopes}
=============================================================================
