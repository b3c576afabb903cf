------------------------- MODULE OwnershipTransferMC ------------------------
(***************************************************************************)
(* Instances of OwnershipTransfer for TLC: O may hand its lineage to A or  *)
(* B, each of them onward or back, beside competing and narrow transfers.  *)
(* The key of B comes into force late, that of O retires early.            *)
(***************************************************************************)
EXTENDS OwnershipTransfer, TLC

CONSTANTS O, A, B, id1, id2, id3, id4, s1, type1, ns, x, y

Values(values) == [kind |-> ns, values |-> values]
Scope(values) == type1 :> {Values({v}) : v \in values}

Transfer(id, rev, sup, from, to, at) ==
  [id |-> id, series |-> s1, revision |-> rev, supersedes |-> sup, origin |-> O,
   predecessor |-> from, successor |-> to, effective_at |-> at, window |-> None,
   scope |-> Scope({x, y})]

MCTransitions ==
  {Transfer(id1, 1, None, O, A, 0),
   [Transfer(id1, 1, None, O, B, 1) EXCEPT !.window = [not_before |-> 1, not_after |-> 2]],
   Transfer(id2, 2, id1, A, B, 1),
   [Transfer(id3, 2, id1, A, O, 1) EXCEPT !.scope = Scope({x})],
   Transfer(id4, 4, id2, B, A, 2),
   Transfer(id4, 3, id3, O, B, 2)}

MCKeyActive == O :> 0 .. 2 @@ A :> 0 .. 5 @@ B :> 1 .. 5

MCDocuments ==
  {[origin |-> O, active |-> owner, issuer |-> issuer,
    scope |-> type1 :> [all |-> FALSE, deny |-> {},
                        allow |-> {[kind |-> ns, values |-> values, explicit |-> TRUE]}]]
     : owner \in {O, A, B}, issuer \in {A}, values \in {{x}, {x, y}}}
=============================================================================
