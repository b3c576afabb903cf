------------------------- MODULE MintingConstraints -------------------------
(***************************************************************************)
(* Mint quotas: the check of max_total and max_per_user that the evaluator *)
(* runs for a mint (trustgrant-evaluate/src/engine.rs) and the checked     *)
(* addition with which the reference executor advances its counters        *)
(* (trustgrant-evaluate/src/execution.rs).  The two additions differ: the  *)
(* evaluator saturates at the width of u64, the executor fails.            *)
(***************************************************************************)
EXTENDS Integers

CONSTANTS
  MaxU64,   \* the largest u64; a small number in a model
  None      \* Rust's Option::None

U64    == 0 .. MaxU64
Limits == U64 \cup {None}

\* The runtime counters the executor injects, and the quantity requested
\* (MintContext::with_quantity refuses 0).
MintContexts == [total: U64, per_principal: U64, quantity: 1 .. MaxU64]

ASSUME U64Assumption == /\ MaxU64 \in Nat \ {0}
                        /\ None \notin Int
                        /\ None \notin MintContexts

SaturatingAdd(a, b) == IF a + b > MaxU64 THEN MaxU64 ELSE a + b

\* checked_add(..).is_none(): `advance` turns it into CounterOverflow.
AddOverflows(a, b) == a + b > MaxU64

LimitReached(limit, current, quantity) ==
  limit # None /\ SaturatingAdd(current, quantity) > limit

(***************************************************************************)
(* evaluate_minting_constraints for a mint request: the first reason that  *)
(* applies, in the order of the code, or "Allowed".                        *)
(***************************************************************************)
EvaluateMintingConstraints(max_total, max_per_user, context, principal_empty) ==
  CASE context = None /\ (max_total # None \/ max_per_user # None)
         -> "MissingMintContext"
    [] context = None /\ max_total = None /\ max_per_user = None
         -> "Allowed"
    [] context # None
         -> IF LimitReached(max_total, context.total, context.quantity)
              THEN "MintTotalLimitReached"
            ELSE IF max_per_user # None /\ principal_empty
              THEN "MissingAudiencePrincipalContext"
            ELSE IF LimitReached(max_per_user, context.per_principal, context.quantity)
              THEN "MintPerUserLimitReached"
            ELSE "Allowed"
=============================================================================
