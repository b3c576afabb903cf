-------------------------- MODULE AtomicExecutorMC --------------------------
(***************************************************************************)
(* Instances of AtomicExecutor for TLC.  The requests are chosen by hand:  *)
(* a few bindings that share grants, principals and versions, so that      *)
(* quotas, conflicts, stale versions and overflows are all reached.  They  *)
(* come in workloads, and a behaviour has the requests of one of them.     *)
(***************************************************************************)
EXTENDS AtomicExecutorRefinement, TLC

CONSTANTS i1, i2, i3, g1, g2, t1, tpl, res, p1, p1r, p2, p0, k1, k2, k0, a1, ctx,
          Workloads   \* the workloads of a run

VARIABLE workload   \* what the callers of a behaviour present

MCIntents == Intents
MCGrants == {g1, g2}
MCPrincipals == {p1, p1r, p2, p0}
\* p1r holds the selectors of p1 in another order: another value, same key.
MCStableKey == p1 :> k1 @@ p1r :> k1 @@ p2 :> k2 @@ p0 :> k0
\* g1 has both limits; g2 has max_total at the width of u64, where the
\* evaluator's saturating sum no longer sees what checked_add refuses.
MCMaxTotal   == <<g1, t1>> :> MaxU64 - 1 @@ <<g2, t1>> :> MaxU64
MCMaxPerUser == <<g1, t1>> :> MaxU64 - 2 @@ <<g2, t1>> :> None

Mint(i, g, p, q, ok) ==
  [intent |-> i, grant |-> g, operation |-> "mint",
   binding |-> [kind |-> "mint", template |-> tpl], type |-> t1,
   principal |-> p, context |-> ctx, quantity |-> q, actor |-> a1, admissible |-> ok]

Existing(i, g, v, ok) ==
  [intent |-> i, grant |-> g, operation |-> "custom",
   binding |-> [kind |-> "existing", resource |-> res, type |-> t1, expected_version |-> v],
   type |-> t1, principal |-> p1, context |-> ctx, quantity |-> 1, actor |-> a1,
   admissible |-> ok]

\* Requests that MutationRequest::try_from refuses.
Malformed(i) ==
  {[Mint(i, g1, p1, 1, TRUE) EXCEPT !.intent = None],
   [Mint(i, g1, p1, 1, TRUE) EXCEPT !.binding.template = None],
   [Mint(i, g1, p1, 1, TRUE) EXCEPT !.binding = Existing(i, g1, 0, TRUE).binding],
   [Existing(i, g1, 0, TRUE) EXCEPT !.binding = Mint(i, g1, p1, 1, TRUE).binding],
   [Existing(i, g1, 0, TRUE) EXCEPT !.binding.type = None],
   [Existing(i, g1, 0, TRUE) EXCEPT !.binding.expected_version = None]}

MintRequests ==
  UNION {{Mint(i, g1, p1, 1, TRUE), Mint(i, g1, p1, 2, TRUE), Mint(i, g1, p1r, 1, TRUE),
          Mint(i, g1, p2, 1, TRUE), Mint(i, g1, p0, 1, TRUE), Mint(i, g1, p1, 1, FALSE),
          Mint(i, g2, p1, 3, TRUE), Mint(i, g2, p2, 2, TRUE)}
           \cup Malformed(i) : i \in MCIntents}

\* The last versions of u64, so that one overflows after two writes.
LastVersions == MaxU64 - 2 .. MaxU64

WriteRequests ==
  UNION {{Existing(i, g1, v, TRUE) : v \in LastVersions}
           \cup {Mint(i, g2, p1, 1, TRUE), Mint(i, g2, p1, 2, TRUE)}
           : i \in MCIntents}

ActorRequests ==
  {Mint(i, g1, p1, 1, TRUE) : i \in MCIntents}
    \cup {[Mint(i, g1, p1, 1, TRUE) EXCEPT !.actor = None] : i \in MCIntents}
    \cup {Existing(i, g1, v, TRUE) : i \in MCIntents, v \in LastVersions}

\* One mint in two quantities, allowed or not.
QuantityRequests ==
  {Mint(i, g2, p1, q, ok) : i \in MCIntents, q \in 1 .. 2, ok \in BOOLEAN}

Presented ==
  [mints |-> MintRequests, writes |-> WriteRequests, actors |-> ActorRequests,
   quantities |-> QuantityRequests]

MCRequests == UNION {Presented[w] : w \in Workloads}

\* The versions that resources are registered with: an old one can come back.
Registered == IF workload = "writes" THEN {MaxU64 - 2, MaxU64} ELSE {}

MCInit == Init /\ workload \in Workloads

\* Next, with the requests and registrations of the workload.
MCNext ==
  /\ \/ \E resource \in Resources, version \in Registered : RegisterResource(resource, version)
     \/ \E r \in Presented[workload] : RejectRequest(r) \/ AuthorizeAndExecute(r)
  /\ UNCHANGED workload

MCSpec == MCInit /\ [][MCNext]_<<vars, workload>>

IntentSymmetry == Permutations(MCIntents)
=============================================================================
