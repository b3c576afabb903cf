---------------------- MODULE AtomicExecutorRefinement ----------------------
(***************************************************************************)
(* The reference executor implements ExactlyOnceLedger.  The issue book    *)
(* and the histories are not stored anywhere: they are read off the        *)
(* committed authorizations, each of which carries the counters or the     *)
(* version it was evaluated against.                                       *)
(***************************************************************************)
EXTENDS AtomicExecutor

Keys == Grants \X ResourceTypes

\* A key without max_total is still bounded by the width of its counter.
Quota == [key \in Keys |-> IF MaxTotal[key] = None THEN MaxU64 ELSE MaxTotal[key]]

\* The intent that accounts for a unit or a version; None if nothing does.
Author(intents) == IF intents = {} THEN None ELSE CHOOSE i \in intents : TRUE

Issued ==
  [key \in Keys |->
     [n \in 1 .. Lookup(total_mints, key) |-> Author({i \in MintsOf(key) : n \in Units(i)})]]

Writers ==
  [resource \in Resources |->
     IF resource \notin DOMAIN resource_versions THEN <<>>
     ELSE [n \in 1 .. resource_versions[resource] - registered[resource].version |->
             Author({i \in WritesOf(resource, Generation(resource)) :
                       ObservedVersion(i) = registered[resource].version + n - 1})]]

Ledger == INSTANCE ExactlyOnceLedger
            WITH issued <- Issued, writers <- Writers, done <- DOMAIN processed

\* Every step of the executor is a step of the ledger, or none at all: a
\* denied, stale, aborted or replayed call has no effect, and a commit
\* exactly the effect that was authorized.
LedgerSpec == Ledger!Spec
=============================================================================
