------------------------ MODULE AtomicExecutorProofs ------------------------
(***************************************************************************)
(* Proofs about AtomicExecutor, for all sets of intents, grants, resources *)
(* and requests, all quotas and every width of the counters; and that the  *)
(* executor implements ExactlyOnceLedger: each of its steps is a step of   *)
(* the ledger or none.                                                     *)
(***************************************************************************)
EXTENDS AtomicExecutorRefinement, SequenceTheorems, TLAPS

-----------------------------------------------------------------------------
(* Sequences that are given entry by entry.                                *)

LEMMA FunctionIsSequence ==
  ASSUME NEW S, NEW t \in Nat, NEW f \in [1 .. t -> S]
  PROVE  f \in Seq(S) /\ Len(f) = t
  <1>1. f \in Seq(S)
    BY SeqDef
  <1>2. Len(f) \in Nat /\ DOMAIN f = 1 .. Len(f) /\ DOMAIN f = 1 .. t
    BY <1>1, LenProperties
  <1>3. Len(f) = t
    BY <1>2
  <1> QED
    BY <1>1, <1>3

LEMMA EmptySequence ==
  ASSUME NEW S, NEW f \in [1 .. 0 -> S]
  PROVE  f = <<>>
  BY FunctionIsSequence, EmptySeq

\* g has the entries of f, t of them, and x another q times.
Repeats(S, t, q, x, f, g) ==
  /\ t \in Nat /\ q \in Nat /\ x \in S
  /\ f \in [1 .. t -> S] /\ g \in [1 .. t + q -> S]
  /\ \A n \in 1 .. t : g[n] = f[n]
  /\ \A n \in t + 1 .. t + q : g[n] = x

Copies(q, x) == [n \in 1 .. q |-> x]

LEMMA ConcatOfRepeated ==
  ASSUME NEW S, NEW t, NEW q, NEW x, NEW f, NEW g, Repeats(S, t, q, x, f, g)
  PROVE  g = f \o Copies(q, x)
  <1> USE DEF Repeats, Copies
  <1> DEFINE h == [n \in 1 .. q |-> x]
  <1>1. h \in [1 .. q -> S] /\ \A n \in 1 .. q : h[n] = x
    OBVIOUS
  <1> HIDE DEF h
  <1>2. /\ f \in Seq(S) /\ h \in Seq(S) /\ g \in Seq(S)
        /\ Len(f) = t /\ Len(h) = q /\ t + q \in Nat /\ Len(g) = t + q
    <2>1. t + q \in Nat
      OBVIOUS
    <2> QED
      BY <1>1, <2>1, FunctionIsSequence
  <1>3. /\ f \o h \in Seq(S) /\ Len(f \o h) = t + q
        /\ \A n \in 1 .. t + q : (f \o h)[n] = IF n <= t THEN f[n] ELSE h[n - t]
    BY <1>2, ConcatProperties
  <1>4. \A n \in 1 .. t + q : g[n] = (f \o h)[n]
    BY <1>1, <1>3
  <1>5. g = f \o h
    BY <1>2, <1>3, <1>4, SeqEqual
  <1> QED
    BY <1>5 DEF h

LEMMA AppendOfLast ==
  ASSUME NEW S, NEW t \in Nat, NEW x \in S,
         NEW f \in [1 .. t -> S], NEW g \in [1 .. t + 1 -> S],
         \A n \in 1 .. t : g[n] = f[n], g[t + 1] = x
  PROVE  g = Append(f, x)
  <1>1. /\ f \in Seq(S) /\ g \in Seq(S) /\ Len(f) = t /\ t + 1 \in Nat /\ Len(g) = t + 1
    <2>1. t + 1 \in Nat
      OBVIOUS
    <2> QED
      BY <2>1, FunctionIsSequence
  <1>2. /\ Append(f, x) \in Seq(S) /\ Len(Append(f, x)) = t + 1
        /\ \A n \in 1 .. t + 1 : Append(f, x)[n] = IF n <= t THEN f[n] ELSE x
    BY <1>1
  <1>3. \A n \in 1 .. t + 1 : g[n] = Append(f, x)[n]
    BY <1>2
  <1> QED
    BY <1>1, <1>2, <1>3, SeqEqual

\* What one intent accounts for is its own, what none does is no one's.
LEMMA AuthorFacts ==
  /\ \A i : Author({i}) = i
  /\ \A X : X \subseteq Intents => Author(X) \in Intents \cup {None}
  BY DEF Author

USE U64Assumption, ExecutorAssumption

-----------------------------------------------------------------------------
(* The maps.                                                               *)

LEMMA InsertDomain ==
  ASSUME NEW map, NEW key, NEW value
  PROVE  DOMAIN Insert(map, key, value) = DOMAIN map \cup {key}
  BY DEF Insert

LEMMA InsertValue ==
  ASSUME NEW map, NEW key, NEW value
  PROVE  /\ Insert(map, key, value)[key] = value
         /\ \A k \in DOMAIN map : k # key => Insert(map, key, value)[k] = map[k]
  BY DEF Insert

LEMMA InsertLookup ==
  ASSUME NEW map, NEW key, NEW value
  PROVE  /\ Lookup(Insert(map, key, value), key) = value
         /\ \A k : k # key => Lookup(Insert(map, key, value), k) = Lookup(map, k)
  BY DEF Insert, Lookup

LEMMA InsertType ==
  ASSUME NEW map, NEW K, NEW V, NEW key \in K, NEW value \in V, IsMap(map, K, V)
  PROVE  IsMap(Insert(map, key, value), K, V)
  BY DEF Insert, IsMap

LEMMA LookupType ==
  ASSUME NEW map, NEW K, NEW key, IsMap(map, K, U64)
  PROVE  Lookup(map, key) \in U64
  BY DEF Lookup, U64, IsMap

LEMMA MapValue ==
  ASSUME NEW map, NEW K, NEW V, IsMap(map, K, V), NEW key \in DOMAIN map
  PROVE  key \in K /\ map[key] \in V
  BY DEF IsMap

-----------------------------------------------------------------------------
(* Requests and authorizations.                                            *)

LEMMA MutationRequestType ==
  ASSUME NEW r \in Requests, IsMutationRequest(r)
  PROVE  /\ r \in MutationRequests
         /\ r.intent \in Intents
         /\ r.grant \in Grants /\ r.type \in ResourceTypes /\ r.principal \in Principals
         /\ r.quantity \in 1 .. MaxU64
         /\ MintTotalKey(r) \in Grants \X ResourceTypes
         /\ ~IsMint(r) => /\ r.binding.resource \in Resources
                          /\ r.binding.expected_version \in U64
  <1>1. r \in EvaluationRequests
    OBVIOUS
  <1>2. r \in MutationRequests
    BY DEF MutationRequests
  <1>3. /\ r.intent \in Intents
        /\ r.grant \in Grants /\ r.type \in ResourceTypes /\ r.principal \in Principals
        /\ r.quantity \in 1 .. MaxU64
        /\ r.binding \in MintBindings \cup ExistingBindings
    BY <1>1 DEF EvaluationRequests, IsMutationRequest
  <1>4. ASSUME ~IsMint(r)
        PROVE  r.binding.resource \in Resources /\ r.binding.expected_version \in U64
    <2>1. r.binding.kind # "mint" /\ r.binding.expected_version # None
      BY <1>4 DEF IsMutationRequest
    <2>2. r.binding \in ExistingBindings
      BY <1>3, <2>1 DEF MintBindings
    <2>3. QED
      BY <2>1, <2>2 DEF ExistingBindings
  <1>5. QED
    BY <1>2, <1>3, <1>4 DEF MintTotalKey

LEMMA GenerationType ==
  ASSUME TypeOK, NEW resource
  PROVE  /\ Generation(resource) \in 0 .. GenerationBound
         /\ resource \in DOMAIN registered => Generation(resource) \in 1 .. GenerationBound
  <1>1. ASSUME resource \in DOMAIN registered PROVE registered[resource] \in Registrations
    BY <1>1, MapValue DEF TypeOK
  <1>2. QED
    BY <1>1 DEF Generation, Registrations

LEMMA AuthorizationType ==
  ASSUME TypeOK, NEW r \in Requests, IsMutationRequest(r)
  PROVE  /\ Authorization(r) \in Authorizations
         /\ Authorization(r).request = r
         /\ IsMint(r) => Authorization(r).mint_context = RuntimeMintContext(r)
         /\ IsMint(r) => RuntimeMintContext(r) \in MintContexts
  <1>1. ASSUME IsMint(r) PROVE RuntimeMintContext(r) \in MintContexts
    BY LookupType, MutationRequestType DEF TypeOK, RuntimeMintContext, MintContexts
  <1>2. Generation(r.binding.resource) \in 0 .. GenerationBound
    BY GenerationType
  <1>3. QED
    BY <1>1, <1>2, MutationRequestType DEF Authorization, Authorizations, Allowed

LEMMA ReplyType ==
  ASSUME NEW r \in Requests, NEW kind \in ReplyKinds, Reply(r, kind)
  PROVE  reply' \in Answers
  BY DEF Reply, Answers

LEMMA RecordAuditType ==
  ASSUME TypeOK, NEW r \in Requests, IsMutationRequest(r), RecordAudit(r)
  PROVE  audit_log' \in Seq(Authorizations)
  <1>1. Authorization(r) \in Authorizations
    BY AuthorizationType
  <1>2. QED
    BY <1>1 DEF RecordAudit, TypeOK

\* A resource that reaches its callback is registered, and has a version.
LEMMA ReachesCallbackFacts ==
  ASSUME TypeOK, NEW r \in Requests, ReachesCallback(r)
  PROVE  /\ IsMutationRequest(r) /\ r.intent \notin DOMAIN processed /\ Allowed(r)
         /\ ~IsMint(r) => /\ r.binding.resource \in DOMAIN resource_versions
                          /\ r.binding.expected_version = resource_versions[r.binding.resource]
                          /\ resource_versions[r.binding.resource] \in U64
  BY MapValue DEF ReachesCallback, Unprocessed, TypeOK

-----------------------------------------------------------------------------
(* Type correctness.                                                       *)

LEMMA TypeOKInit == Init => TypeOK
  BY DEF Init, TypeOK, IsMap, U64, Answers

\* A registration keeps the types.
LEMMA TypeOKRegister ==
  ASSUME TypeOK, NEW resource \in Resources, NEW version \in U64,
         RegisterResource(resource, version)
  PROVE  TypeOK'
  <1> DEFINE entry == [generation |-> Generation(resource) + 1, version |-> version]
  <1>1. entry \in Registrations
    <2>1. Generation(resource) \in 0 .. GenerationBound
      BY GenerationType
    <2>2. QED
      BY <2>1 DEF RegisterResource, Registrations
  <1>2. /\ resource_versions' = Insert(resource_versions, resource, version)
        /\ registered' = Insert(registered, resource, entry)
    BY DEF RegisterResource
  <1> HIDE DEF entry
  <1>3. DOMAIN registered' = DOMAIN resource_versions'
    BY <1>2 DEF TypeOK, Insert
  <1>4. /\ IsMap(resource_versions', Resources, U64)
        /\ IsMap(registered', Resources, Registrations)
    BY <1>1, <1>2, InsertType DEF TypeOK
  <1>5. QED
    BY <1>3, <1>4 DEF TypeOK, RegisterResource

\* A committed mint keeps the types: neither counter leaves u64.
LEMMA TypeOKCommitMint ==
  ASSUME TypeOK, NEW r \in Requests, CommitMint(r)
  PROVE  TypeOK'
  <1>1. IsMutationRequest(r) /\ IsMint(r)
    BY ReachesCallbackFacts DEF CommitMint
  <1> DEFINE total     == Lookup(total_mints, MintTotalKey(r)) + r.quantity
             principal == Lookup(mints_for_principal, MintPrincipalKey(r)) + r.quantity
  <1>2. total \in U64 /\ principal \in U64
    BY <1>1, LookupType, MutationRequestType
       DEF CommitMint, Overflows, AddOverflows, U64, TypeOK
  <1>3. /\ total_mints' = Insert(total_mints, MintTotalKey(r), total)
        /\ mints_for_principal' = Insert(mints_for_principal, MintPrincipalKey(r), principal)
        /\ processed' = Insert(processed, r.intent, Authorization(r))
    BY DEF CommitMint
  <1> HIDE DEF total, principal
  <1>4. IsMap(total_mints', Grants \X ResourceTypes, U64)
    BY <1>1, <1>2, <1>3, InsertType, MutationRequestType DEF TypeOK
  <1>5. IsMap(mints_for_principal', PrincipalKeys, U64)
    <2>1. MintPrincipalKey(r) \in PrincipalKeys
      BY <1>1, MutationRequestType DEF MintPrincipalKey, PrincipalKeys
    <2>2. QED
      BY <1>2, <1>3, <2>1, InsertType DEF TypeOK
  <1>6. IsMap(processed', Intents, Authorizations)
    BY <1>1, <1>3, InsertType, MutationRequestType, AuthorizationType DEF TypeOK
  <1>7. audit_log' \in Seq(Authorizations)
    BY <1>1, RecordAuditType DEF CommitMint
  <1>8. reply' \in Answers
    BY ReplyType DEF CommitMint, ReplyKinds
  <1>9. QED
    BY <1>4, <1>5, <1>6, <1>7, <1>8 DEF CommitMint, TypeOK

\* A committed write keeps the types: the version does not leave u64.
LEMMA TypeOKCommitExisting ==
  ASSUME TypeOK, NEW r \in Requests, CommitExisting(r)
  PROVE  TypeOK'
  <1>1. /\ IsMutationRequest(r) /\ ~IsMint(r)
        /\ r.binding.resource \in DOMAIN resource_versions
        /\ resource_versions[r.binding.resource] \in U64
    BY ReachesCallbackFacts DEF CommitExisting
  <1> DEFINE version == resource_versions[r.binding.resource] + 1
  <1>2. version \in U64
    BY <1>1 DEF CommitExisting, Overflows, AddOverflows, U64
  <1>3. /\ resource_versions' = Insert(resource_versions, r.binding.resource, version)
        /\ processed' = Insert(processed, r.intent, Authorization(r))
    BY DEF CommitExisting
  <1> HIDE DEF version
  <1>4. IsMap(resource_versions', Resources, U64)
    BY <1>1, <1>2, <1>3, InsertType, MutationRequestType DEF TypeOK
  <1>5. DOMAIN resource_versions' = DOMAIN resource_versions
    BY <1>1, <1>3 DEF Insert
  <1>6. IsMap(processed', Intents, Authorizations)
    BY <1>1, <1>3, InsertType, MutationRequestType, AuthorizationType DEF TypeOK
  <1>7. audit_log' \in Seq(Authorizations)
    BY <1>1, RecordAuditType DEF CommitExisting
  <1>8. reply' \in Answers
    BY ReplyType DEF CommitExisting, ReplyKinds
  <1>9. QED
    BY <1>4, <1>5, <1>6, <1>7, <1>8 DEF CommitExisting, TypeOK

\* The calls that leave the maps alone: they reply, and at most audit.
Replies(r) ==
  \/ RejectRequest(r) \/ ReplayIntent(r) \/ DenyRequest(r) \/ FailUnknownResource(r)
  \/ RefuseStaleVersion(r) \/ AbortCallback(r) \/ AbortOverflow(r)

LEMMA RepliesFacts ==
  ASSUME TypeOK, NEW r \in Requests, Replies(r)
  PROVE  /\ UNCHANGED <<resource_versions, total_mints, mints_for_principal, processed, registered>>
         /\ audit_log' \in Seq(Authorizations)
         /\ reply' \in Answers
  <1>1. CASE DenyRequest(r) \/ RefuseStaleVersion(r)
    <2>1. IsMutationRequest(r) /\ RecordAudit(r)
      BY <1>1 DEF DenyRequest, RefuseStaleVersion, Unprocessed
    <2>2. audit_log' \in Seq(Authorizations)
      BY <2>1, RecordAuditType
    <2>3. reply' \in Answers
      BY <1>1, ReplyType DEF DenyRequest, RefuseStaleVersion, ReplyKinds
    <2>4. QED
      BY <1>1, <2>2, <2>3 DEF DenyRequest, RefuseStaleVersion
  <1>2. CASE ReplayIntent(r) \/ FailUnknownResource(r) \/ AbortCallback(r) \/ AbortOverflow(r)
    <2>1. UNCHANGED <<state, registered>>
      BY <1>2 DEF ReplayIntent, FailUnknownResource, AbortCallback, AbortOverflow
    <2>2. reply' \in Answers
      BY <1>2, ReplyType
         DEF ReplayIntent, FailUnknownResource, AbortCallback, AbortOverflow, ReplyKinds
    <2>3. QED
      BY <2>1, <2>2 DEF state, TypeOK
  <1>3. CASE RejectRequest(r)
    BY <1>3 DEF RejectRequest, Answers, state, TypeOK
  <1>4. QED
    BY <1>1, <1>2, <1>3 DEF Replies

LEMMA TypeOKNext == TypeOK /\ [Next]_vars => TypeOK'
  <1> SUFFICES ASSUME TypeOK, [Next]_vars PROVE TypeOK'
    OBVIOUS
  <1>1. CASE \E resource \in Resources, version \in U64 : RegisterResource(resource, version)
    BY <1>1, TypeOKRegister
  <1>2. ASSUME NEW r \in Requests, Replies(r) PROVE TypeOK'
    BY <1>2, RepliesFacts DEF TypeOK
  <1>3. ASSUME NEW r \in Requests, CommitMint(r) PROVE TypeOK'
    BY <1>3, TypeOKCommitMint
  <1>4. ASSUME NEW r \in Requests, CommitExisting(r) PROVE TypeOK'
    BY <1>4, TypeOKCommitExisting
  <1>5. CASE UNCHANGED vars
    BY <1>5 DEF vars, state, TypeOK
  <1>6. QED
    BY <1>1, <1>2, <1>3, <1>4, <1>5 DEF Next, AuthorizeAndExecute, Replies

\* Type correctness: the maps of the executor only ever hold keys of their
\* kinds, and no counter and no version ever leaves u64.
THEOREM TypeCorrect == Spec => []TypeOK
  BY TypeOKInit, TypeOKNext, PTL DEF Spec

-----------------------------------------------------------------------------
(* The ledger of committed authorizations.                                 *)

\* What is recorded under an intent: an allowed request of that intent, and
\* for a mint the counters it was evaluated against.
RecordsOK ==
  \A i \in DOMAIN processed :
    /\ processed[i].request.intent = i
    /\ processed[i].allowed
    /\ IsMint(processed[i].request) => processed[i].mint_context \in MintContexts

\* A commit adds its own record and keeps all others.
LEMMA CommitFacts ==
  ASSUME TypeOK, NEW r \in Requests, CommitMint(r) \/ CommitExisting(r)
  PROVE  /\ IsMutationRequest(r) /\ Allowed(r)
         /\ r.intent \notin DOMAIN processed
         /\ DOMAIN processed' = DOMAIN processed \cup {r.intent}
         /\ processed'[r.intent] = Authorization(r)
         /\ \A i \in DOMAIN processed : processed'[i] = processed[i]
  <1>1. ReachesCallback(r) /\ processed' = Insert(processed, r.intent, Authorization(r))
    BY DEF CommitMint, CommitExisting
  <1>2. /\ IsMutationRequest(r) /\ Allowed(r)
        /\ r.intent \notin DOMAIN processed
    BY <1>1, ReachesCallbackFacts
  <1>3. QED
    BY <1>1, <1>2 DEF Insert

\* Every step keeps the records there are; it adds at most one.
LEMMA ProcessedStep ==
  ASSUME TypeOK, [Next]_vars
  PROVE  \/ processed' = processed
         \/ \E r \in Requests : CommitMint(r) \/ CommitExisting(r)
  BY RepliesFacts DEF Next, AuthorizeAndExecute, Replies, RegisterResource, vars, state

LEMMA RecordsOKNext == TypeOK /\ RecordsOK /\ [Next]_vars => RecordsOK'
  <1> SUFFICES ASSUME TypeOK, RecordsOK, [Next]_vars PROVE RecordsOK'
    OBVIOUS
  <1>1. CASE processed' = processed
    BY <1>1 DEF RecordsOK
  <1>2. ASSUME NEW r \in Requests, CommitMint(r) \/ CommitExisting(r)
        PROVE  RecordsOK'
    <2>1. /\ Authorization(r).request.intent = r.intent
          /\ Authorization(r).allowed
          /\ IsMint(r) => Authorization(r).mint_context \in MintContexts
      BY <1>2, CommitFacts, AuthorizationType DEF Authorization
    <2>2. Authorization(r).request = r
      BY <1>2, CommitFacts, AuthorizationType
    <2>3. /\ DOMAIN processed' = DOMAIN processed \cup {r.intent}
          /\ processed'[r.intent] = Authorization(r)
          /\ \A i \in DOMAIN processed : processed'[i] = processed[i]
      BY <1>2, CommitFacts
    <2>4. QED
      BY <2>1, <2>2, <2>3 DEF RecordsOK
  <1>3. QED
    BY <1>1, <1>2, ProcessedStep

-----------------------------------------------------------------------------
(* Every unit has exactly one committed intent; first per type.            *)

\* What a mint that commits does to its own key, and to the others.
LEMMA CommitMintFacts ==
  ASSUME TypeOK, NEW r \in Requests, CommitMint(r),
         NEW i0, i0 = r.intent, NEW k0, k0 = MintTotalKey(r), NEW t0, t0 = Lookup(total_mints, k0)
  PROVE  /\ IsMint(r) /\ k0 \in Grants \X ResourceTypes /\ t0 \in Nat /\ r.quantity \in Nat
         /\ Lookup(total_mints, k0)' = t0 + r.quantity
         /\ \A key \in Grants \X ResourceTypes :
              key # k0 => Lookup(total_mints, key)' = Lookup(total_mints, key)
         /\ i0 \notin DOMAIN processed
         /\ \A i \in DOMAIN processed : Units(i)' = Units(i)
         /\ Units(i0)' = t0 + 1 .. t0 + r.quantity
         /\ MintsOf(k0)' = MintsOf(k0) \cup {i0}
         /\ \A key \in Grants \X ResourceTypes : key # k0 => MintsOf(key)' = MintsOf(key)
         /\ \A key \in Grants \X ResourceTypes : MintsOf(key) \subseteq DOMAIN processed
  <1>1. IsMint(r) /\ k0 \in Grants \X ResourceTypes /\ t0 \in Nat /\ r.quantity \in Nat
    <2>1. IsMint(r) /\ IsMutationRequest(r)
      BY CommitFacts DEF CommitMint
    <2>2. k0 \in Grants \X ResourceTypes /\ r.quantity \in Nat
      BY <2>1, MutationRequestType
    <2>3. t0 \in U64
      BY LookupType DEF TypeOK
    <2>4. QED
      BY <2>1, <2>2, <2>3 DEF U64
  <1>2. /\ Lookup(total_mints, k0)' = t0 + r.quantity
        /\ \A key \in Grants \X ResourceTypes :
             key # k0 => Lookup(total_mints, key)' = Lookup(total_mints, key)
    BY InsertLookup DEF CommitMint
  <1>3. /\ i0 \notin DOMAIN processed
        /\ DOMAIN processed' = DOMAIN processed \cup {i0}
        /\ processed'[i0] = Authorization(r)
        /\ \A i \in DOMAIN processed : processed'[i] = processed[i]
    BY CommitFacts
  <1>4. /\ Authorization(r).request = r
        /\ Authorization(r).mint_context = RuntimeMintContext(r)
    BY <1>1, CommitFacts, AuthorizationType
  <1>5. \A i \in DOMAIN processed : Units(i)' = Units(i)
    BY <1>3 DEF Units
  <1>6. Units(i0)' = t0 + 1 .. t0 + r.quantity
    BY <1>3, <1>4 DEF Units, RuntimeMintContext
  <1>7. /\ MintsOf(k0)' = MintsOf(k0) \cup {i0}
        /\ \A key \in Grants \X ResourceTypes : key # k0 => MintsOf(key)' = MintsOf(key)
    BY <1>1, <1>3, <1>4 DEF MintsOf, CommittedMints
  <1>8. \A key \in Grants \X ResourceTypes :
          MintsOf(key) \subseteq DOMAIN processed
    BY DEF MintsOf, CommittedMints
  <1>9. QED
    BY <1>1, <1>2, <1>3, <1>5, <1>6, <1>7, <1>8

LEMMA TotalUnitsAccountedCommitMint ==
  ASSUME TypeOK, RecordsOK, TotalUnitsAccounted, NEW r \in Requests, CommitMint(r)
  PROVE  TotalUnitsAccounted'
  <1> DEFINE i0 == r.intent
             k0 == MintTotalKey(r)
             t0 == Lookup(total_mints, k0)
  <1>1. /\ k0 \in Grants \X ResourceTypes /\ t0 \in Nat /\ r.quantity \in Nat
        /\ \A key \in Grants \X ResourceTypes : MintsOf(key) \subseteq DOMAIN processed
    BY CommitMintFacts
  <1>2. /\ Lookup(total_mints, k0)' = t0 + r.quantity
        /\ \A key \in Grants \X ResourceTypes :
             key # k0 => Lookup(total_mints, key)' = Lookup(total_mints, key)
    BY CommitMintFacts
  <1>3. /\ i0 \notin DOMAIN processed
        /\ \A i \in DOMAIN processed : Units(i)' = Units(i)
        /\ Units(i0)' = t0 + 1 .. t0 + r.quantity
    BY CommitMintFacts
  <1>4. /\ MintsOf(k0)' = MintsOf(k0) \cup {i0}
        /\ \A key \in Grants \X ResourceTypes : key # k0 => MintsOf(key)' = MintsOf(key)
    BY CommitMintFacts
  <1> HIDE DEF i0, k0, t0
  <1>5. ASSUME NEW key \in Grants \X ResourceTypes, key # k0
        PROVE  /\ UNION {Units(i)' : i \in MintsOf(key)'} = 1 .. Lookup(total_mints, key)'
               /\ \A i, j \in MintsOf(key)' : i # j => Units(i)' \cap Units(j)' = {}
    <2>1. \A i \in MintsOf(key) : Units(i)' = Units(i)
      BY <1>3, <1>1
    <2>2. UNION {Units(i)' : i \in MintsOf(key)} = UNION {Units(i) : i \in MintsOf(key)}
      BY <2>1
    <2>3. QED
      BY <1>2, <1>4, <1>5, <2>1, <2>2 DEF TotalUnitsAccounted
  <1>6. /\ UNION {Units(i)' : i \in MintsOf(k0)'} = 1 .. Lookup(total_mints, k0)'
         /\ \A i, j \in MintsOf(k0)' : i # j => Units(i)' \cap Units(j)' = {}
    <2>1. \A i \in MintsOf(k0) : Units(i)' = Units(i) /\ i # i0
      BY <1>1, <1>3
    <2>2. UNION {Units(i)' : i \in MintsOf(k0)} = 1 .. t0
      BY <1>1, <2>1 DEF TotalUnitsAccounted, t0
    <2>3. UNION {Units(i)' : i \in MintsOf(k0)'} = (1 .. t0) \cup (t0 + 1 .. t0 + r.quantity)
      <3>1. UNION {Units(i)' : i \in MintsOf(k0) \cup {i0}}
              = (UNION {Units(i)' : i \in MintsOf(k0)}) \cup Units(i0)'
        OBVIOUS
      <3>2. MintsOf(k0)' = MintsOf(k0) \cup {i0} /\ Units(i0)' = t0 + 1 .. t0 + r.quantity
        BY <1>3, <1>4
      <3> QED
        BY <2>2, <3>1, <3>2, Zenon
    <2>4. (1 .. t0) \cup (t0 + 1 .. t0 + r.quantity) = 1 .. t0 + r.quantity
      BY <1>1
    <2>5. ASSUME NEW i \in MintsOf(k0) PROVE Units(i)' \cap Units(i0)' = {}
      <3>1. Units(i)' \subseteq 1 .. t0
        BY <2>2, <2>5
      <3>2. QED
        BY <1>1, <1>3, <3>1
    <2>6. \A i, j \in MintsOf(k0) : i # j => Units(i)' \cap Units(j)' = {}
      BY <1>1, <2>1 DEF TotalUnitsAccounted
    <2>7. QED
      BY <1>2, <1>4, <2>3, <2>4, <2>5, <2>6
  <1>7. QED
    BY <1>5, <1>6 DEF TotalUnitsAccounted

LEMMA TotalUnitsAccountedOther ==
  ASSUME TypeOK, TotalUnitsAccounted, UNCHANGED total_mints,
         \/ processed' = processed
         \/ \E r \in Requests : CommitExisting(r)
  PROVE  TotalUnitsAccounted'
  <1>1. CASE processed' = processed
    BY <1>1 DEF TotalUnitsAccounted, Units, MintsOf, CommittedMints
  <1>2. ASSUME NEW r \in Requests, CommitExisting(r)
        PROVE  TotalUnitsAccounted'
    <2>1. /\ ~IsMint(r)
          /\ DOMAIN processed' = DOMAIN processed \cup {r.intent}
          /\ processed'[r.intent].request = r
          /\ \A i \in DOMAIN processed : processed'[i] = processed[i]
      BY <1>2, CommitFacts, AuthorizationType DEF CommitExisting
    <2>2. \A key \in Grants \X ResourceTypes : MintsOf(key)' = MintsOf(key)
      BY <2>1 DEF MintsOf, CommittedMints
    <2>3. \A i \in CommittedMints : Units(i)' = Units(i)
      BY <2>1 DEF Units, CommittedMints
    <2>4. ASSUME NEW key \in Grants \X ResourceTypes
          PROVE  /\ UNION {Units(i)' : i \in MintsOf(key)} = 1 .. Lookup(total_mints, key)
                 /\ \A i, j \in MintsOf(key) : i # j => Units(i)' \cap Units(j)' = {}
      <3>1. \A i \in MintsOf(key) : Units(i)' = Units(i)
        BY <2>3 DEF MintsOf
      <3>2. UNION {Units(i)' : i \in MintsOf(key)} = UNION {Units(i) : i \in MintsOf(key)}
        BY <3>1
      <3>3. QED
        BY <3>1, <3>2 DEF TotalUnitsAccounted
    <2>5. QED
      BY <2>2, <2>4 DEF TotalUnitsAccounted
  <1>3. QED
    BY <1>1, <1>2

(* The same of the units counted per principal. *)

LEMMA PrincipalUnitsAccountedCommitMint ==
  ASSUME TypeOK, RecordsOK, PrincipalUnitsAccounted, NEW r \in Requests, CommitMint(r)
  PROVE  PrincipalUnitsAccounted'
  <1> DEFINE i0 == r.intent
             k0 == MintPrincipalKey(r)
             t0 == Lookup(mints_for_principal, k0)
  <1>1. IsMint(r) /\ k0 \in PrincipalKeys /\ t0 \in Nat /\ r.quantity \in Nat
    <2>1. IsMint(r) /\ IsMutationRequest(r)
      BY CommitFacts DEF CommitMint
    <2>2. k0 \in PrincipalKeys /\ r.quantity \in Nat
      BY <2>1, MutationRequestType DEF MintPrincipalKey, PrincipalKeys
    <2>3. t0 \in U64
      BY LookupType DEF TypeOK
    <2>4. QED
      BY <2>1, <2>2, <2>3 DEF U64
  <1>2. /\ Lookup(mints_for_principal, k0)' = t0 + r.quantity
        /\ \A key \in PrincipalKeys :
             key # k0 => Lookup(mints_for_principal, key)' = Lookup(mints_for_principal, key)
    BY InsertLookup DEF CommitMint
  <1>3. /\ i0 \notin DOMAIN processed
        /\ DOMAIN processed' = DOMAIN processed \cup {i0}
        /\ processed'[i0] = Authorization(r)
        /\ \A i \in DOMAIN processed : processed'[i] = processed[i]
    BY CommitFacts
  <1>4. /\ Authorization(r).request = r
        /\ Authorization(r).mint_context = RuntimeMintContext(r)
    BY <1>1, CommitFacts, AuthorizationType
  <1>5. \A i \in DOMAIN processed : PrincipalUnits(i)' = PrincipalUnits(i)
    BY <1>3 DEF PrincipalUnits
  <1>6. PrincipalUnits(i0)' = t0 + 1 .. t0 + r.quantity
    BY <1>3, <1>4 DEF PrincipalUnits, RuntimeMintContext
  <1>7. /\ MintsOfPrincipal(k0)' = MintsOfPrincipal(k0) \cup {i0}
        /\ \A key \in PrincipalKeys : key # k0 => MintsOfPrincipal(key)' = MintsOfPrincipal(key)
    BY <1>1, <1>3, <1>4 DEF MintsOfPrincipal, CommittedMints
  <1>8. \A key \in PrincipalKeys :
          MintsOfPrincipal(key) \subseteq DOMAIN processed
    BY DEF MintsOfPrincipal, CommittedMints
  <1> HIDE DEF i0, k0, t0
  <1>9. ASSUME NEW key \in PrincipalKeys, key # k0
        PROVE  /\ UNION {PrincipalUnits(i)' : i \in MintsOfPrincipal(key)'} = 1 .. Lookup(mints_for_principal, key)'
               /\ \A i, j \in MintsOfPrincipal(key)' : i # j => PrincipalUnits(i)' \cap PrincipalUnits(j)' = {}
    <2>1. \A i \in MintsOfPrincipal(key) : PrincipalUnits(i)' = PrincipalUnits(i)
      BY <1>5, <1>8
    <2>2. UNION {PrincipalUnits(i)' : i \in MintsOfPrincipal(key)} = UNION {PrincipalUnits(i) : i \in MintsOfPrincipal(key)}
      BY <2>1
    <2>3. QED
      BY <1>2, <1>7, <1>9, <2>1, <2>2 DEF PrincipalUnitsAccounted
  <1>10. /\ UNION {PrincipalUnits(i)' : i \in MintsOfPrincipal(k0)'} = 1 .. Lookup(mints_for_principal, k0)'
         /\ \A i, j \in MintsOfPrincipal(k0)' : i # j => PrincipalUnits(i)' \cap PrincipalUnits(j)' = {}
    <2>1. \A i \in MintsOfPrincipal(k0) : PrincipalUnits(i)' = PrincipalUnits(i) /\ i # i0
      BY <1>1, <1>3, <1>5, <1>8
    <2>2. UNION {PrincipalUnits(i)' : i \in MintsOfPrincipal(k0)} = 1 .. t0
      BY <1>1, <2>1 DEF PrincipalUnitsAccounted, t0
    <2>3. UNION {PrincipalUnits(i)' : i \in MintsOfPrincipal(k0)'} = (1 .. t0) \cup (t0 + 1 .. t0 + r.quantity)
      BY <1>6, <1>7, <2>2
    <2>4. (1 .. t0) \cup (t0 + 1 .. t0 + r.quantity) = 1 .. t0 + r.quantity
      BY <1>1
    <2>5. ASSUME NEW i \in MintsOfPrincipal(k0) PROVE PrincipalUnits(i)' \cap PrincipalUnits(i0)' = {}
      <3>1. PrincipalUnits(i)' \subseteq 1 .. t0
        BY <2>2, <2>5
      <3>2. QED
        BY <1>1, <1>6, <3>1
    <2>6. \A i, j \in MintsOfPrincipal(k0) : i # j => PrincipalUnits(i)' \cap PrincipalUnits(j)' = {}
      BY <1>1, <2>1 DEF PrincipalUnitsAccounted
    <2>7. QED
      BY <1>2, <1>7, <2>3, <2>4, <2>5, <2>6
  <1>11. QED
    BY <1>9, <1>10 DEF PrincipalUnitsAccounted

LEMMA PrincipalUnitsAccountedOther ==
  ASSUME TypeOK, PrincipalUnitsAccounted, UNCHANGED mints_for_principal,
         \/ processed' = processed
         \/ \E r \in Requests : CommitExisting(r)
  PROVE  PrincipalUnitsAccounted'
  <1>1. CASE processed' = processed
    BY <1>1 DEF PrincipalUnitsAccounted, PrincipalUnits, MintsOfPrincipal, CommittedMints
  <1>2. ASSUME NEW r \in Requests, CommitExisting(r)
        PROVE  PrincipalUnitsAccounted'
    <2>1. /\ ~IsMint(r)
          /\ DOMAIN processed' = DOMAIN processed \cup {r.intent}
          /\ processed'[r.intent].request = r
          /\ \A i \in DOMAIN processed : processed'[i] = processed[i]
      BY <1>2, CommitFacts, AuthorizationType DEF CommitExisting
    <2>2. \A key \in PrincipalKeys : MintsOfPrincipal(key)' = MintsOfPrincipal(key)
      BY <2>1 DEF MintsOfPrincipal, CommittedMints
    <2>3. \A i \in CommittedMints : PrincipalUnits(i)' = PrincipalUnits(i)
      BY <2>1 DEF PrincipalUnits, CommittedMints
    <2>4. ASSUME NEW key \in PrincipalKeys
          PROVE  /\ UNION {PrincipalUnits(i)' : i \in MintsOfPrincipal(key)} = 1 .. Lookup(mints_for_principal, key)
                 /\ \A i, j \in MintsOfPrincipal(key) : i # j => PrincipalUnits(i)' \cap PrincipalUnits(j)' = {}
      <3>1. \A i \in MintsOfPrincipal(key) : PrincipalUnits(i)' = PrincipalUnits(i)
        BY <2>3 DEF MintsOfPrincipal
      <3>2. UNION {PrincipalUnits(i)' : i \in MintsOfPrincipal(key)} = UNION {PrincipalUnits(i) : i \in MintsOfPrincipal(key)}
        BY <3>1
      <3>3. QED
        BY <3>1, <3>2 DEF PrincipalUnitsAccounted
    <2>5. QED
      BY <2>2, <2>4 DEF PrincipalUnitsAccounted
  <1>3. QED
    BY <1>1, <1>2

LEMMA UnitsAccountedNext ==
  TypeOK /\ RecordsOK /\ UnitsAccounted /\ [Next]_vars => UnitsAccounted'
  <1> SUFFICES ASSUME TypeOK, RecordsOK, UnitsAccounted, [Next]_vars PROVE UnitsAccounted'
    OBVIOUS
  <1> USE DEF UnitsAccounted
  <1>1. ASSUME NEW r \in Requests, CommitMint(r) PROVE UnitsAccounted'
    BY <1>1, TotalUnitsAccountedCommitMint, PrincipalUnitsAccountedCommitMint
  <1>2. ASSUME UNCHANGED <<total_mints, mints_for_principal>>,
               processed' = processed \/ \E r \in Requests : CommitExisting(r)
        PROVE  UnitsAccounted'
    BY <1>2, TotalUnitsAccountedOther, PrincipalUnitsAccountedOther
  <1>3. ASSUME NEW r \in Requests, CommitExisting(r) PROVE UnitsAccounted'
    BY <1>2, <1>3 DEF CommitExisting
  <1>4. ASSUME NEW r \in Requests, Replies(r) PROVE UnitsAccounted'
    BY <1>2, <1>4, RepliesFacts
  <1>5. ASSUME NEW resource \in Resources, NEW version \in U64, RegisterResource(resource, version)
        PROVE  UnitsAccounted'
    BY <1>2, <1>5 DEF RegisterResource
  <1>6. CASE UNCHANGED vars
    BY <1>2, <1>6 DEF vars, state
  <1>7. QED
    BY <1>1, <1>3, <1>4, <1>5, <1>6 DEF Next, AuthorizeAndExecute, Replies

LEMMA LedgerInit == Init => RecordsOK /\ UnitsAccounted
  <1> SUFFICES ASSUME Init PROVE RecordsOK /\ UnitsAccounted
    OBVIOUS
  <1>1. /\ DOMAIN processed = {}
        /\ \A key : Lookup(total_mints, key) = 0 /\ Lookup(mints_for_principal, key) = 0
    BY DEF Init, Lookup
  <1>2. \A key : MintsOf(key) = {} /\ MintsOfPrincipal(key) = {}
    BY <1>1 DEF MintsOf, MintsOfPrincipal, CommittedMints
  <1>3. QED
    BY <1>1, <1>2 DEF RecordsOK, UnitsAccounted, TotalUnitsAccounted, PrincipalUnitsAccounted

\* Each unit a counter of mints stands for, per type or per principal, was
\* created by exactly one committed intent, under any retries, races,
\* denials and aborts.
THEOREM UnitsAreAccounted == Spec => []UnitsAccounted
  <1>1. Init => TypeOK /\ RecordsOK /\ UnitsAccounted
    BY TypeOKInit, LedgerInit
  <1>2. TypeOK /\ RecordsOK /\ UnitsAccounted /\ [Next]_vars
          => (TypeOK /\ RecordsOK /\ UnitsAccounted)'
    BY TypeOKNext, RecordsOKNext, UnitsAccountedNext
  <1>3. QED
    BY <1>1, <1>2, PTL DEF Spec

-----------------------------------------------------------------------------
(* No quota is ever exceeded.                                              *)

LEMMA LimitReachedFacts ==
  ASSUME NEW limit \in Limits, limit # None, NEW current \in U64, NEW quantity \in 1 .. MaxU64,
         ~LimitReached(limit, current, quantity), ~AddOverflows(current, quantity)
  PROVE  current + quantity <= limit
  BY DEF LimitReached, SaturatingAdd, AddOverflows, Limits, U64

LEMMA QuotaNext == TypeOK /\ QuotaNeverExceeded /\ [Next]_vars => QuotaNeverExceeded'
  <1> SUFFICES ASSUME TypeOK, QuotaNeverExceeded, [Next]_vars PROVE QuotaNeverExceeded'
    OBVIOUS
  <1>1. CASE processed' = processed
    BY <1>1 DEF QuotaNeverExceeded, CommittedMints, Units, PrincipalUnits
  <1>2. ASSUME NEW r \in Requests, CommitExisting(r) PROVE QuotaNeverExceeded'
    <2>1. /\ ~IsMint(r)
          /\ DOMAIN processed' = DOMAIN processed \cup {r.intent}
          /\ processed'[r.intent].request = r
          /\ \A i \in DOMAIN processed : processed'[i] = processed[i]
      BY <1>2, CommitFacts, AuthorizationType DEF CommitExisting
    <2>2. QED
      BY <2>1 DEF QuotaNeverExceeded, CommittedMints, Units, PrincipalUnits
  <1>3. ASSUME NEW r \in Requests, CommitMint(r) PROVE QuotaNeverExceeded'
    <2> DEFINE max_total    == MaxTotal[MintTotalKey(r)]
               max_per_user == MaxPerUser[MintTotalKey(r)]
               context      == RuntimeMintContext(r)
    <2>1. /\ IsMint(r)
          /\ IsMutationRequest(r)
          /\ EvaluateMintingConstraints(max_total, max_per_user, context,
                r.principal = EmptyPrincipal) = "Allowed"
      BY <1>3, CommitFacts DEF CommitMint, Allowed
    <2>2. /\ max_total \in Limits /\ max_per_user \in Limits
          /\ context \in MintContexts /\ context.quantity = r.quantity
      BY <2>1, MutationRequestType, AuthorizationType DEF RuntimeMintContext
    <2>3. /\ ~AddOverflows(context.total, context.quantity)
          /\ ~AddOverflows(context.per_principal, context.quantity)
      BY <1>3, <2>1 DEF CommitMint, Overflows, RuntimeMintContext
    <2> HIDE DEF max_total, max_per_user, context
    <2>4. /\ ~LimitReached(max_total, context.total, context.quantity)
          /\ ~LimitReached(max_per_user, context.per_principal, context.quantity)
          /\ max_per_user # None => r.principal # EmptyPrincipal
      <3>1. context # None
        BY <2>2 DEF MintContexts
      <3>2. QED
        BY <2>1, <3>1 DEF EvaluateMintingConstraints
    <2>5. /\ max_total # None => context.total + context.quantity <= max_total
          /\ max_per_user # None => context.per_principal + context.quantity <= max_per_user
      BY <2>2, <2>3, <2>4, LimitReachedFacts DEF MintContexts
    <2>6. /\ DOMAIN processed' = DOMAIN processed \cup {r.intent}
          /\ processed'[r.intent].request = r
          /\ processed'[r.intent].mint_context = context
          /\ \A i \in DOMAIN processed : processed'[i] = processed[i]
      BY <1>3, <2>1, CommitFacts, AuthorizationType DEF context
    <2>7. /\ max_total # None => Units(r.intent)' \subseteq 1 .. max_total
          /\ max_per_user # None => PrincipalUnits(r.intent)' \subseteq 1 .. max_per_user
      BY <2>2, <2>5, <2>6 DEF Units, PrincipalUnits, MintContexts, U64, Limits
    <2>8. \A i \in DOMAIN processed : Units(i)' = Units(i) /\ PrincipalUnits(i)' = PrincipalUnits(i)
      BY <2>6 DEF Units, PrincipalUnits
    <2>9. QED
      BY <2>4, <2>6, <2>7, <2>8 DEF QuotaNeverExceeded, CommittedMints, max_total, max_per_user
  <1>4. QED
    BY <1>1, <1>2, <1>3, ProcessedStep

\* No mint that commits takes a grant beyond max_total, nor a principal
\* beyond max_per_user: the evaluator's saturating check and the executor's
\* checked addition together leave no gap, whatever the width.
THEOREM QuotaIsNeverExceeded == Spec => []QuotaNeverExceeded
  <1>1. Init => QuotaNeverExceeded
    BY DEF Init, QuotaNeverExceeded, CommittedMints
  <1>2. QED
    BY <1>1, TypeCorrect, QuotaNext, PTL DEF Spec

-----------------------------------------------------------------------------
(* The audit log.                                                          *)

AllowedMintAt(n) == audit_log[n].allowed /\ IsMint(audit_log[n].request)

\* A step that appends a record which is no allowed mint, and leaves the
\* ledger alone.
LEMMA AuditMatchesOther ==
  ASSUME TypeOK, AuditMatchesLedger, UNCHANGED processed, NEW r \in Requests,
         \/ UNCHANGED audit_log
         \/ audit_log' = Append(audit_log, Authorization(r)) /\ ~(Allowed(r) /\ IsMint(r))
  PROVE  AuditMatchesLedger'
  <1>1. CASE UNCHANGED audit_log
    BY <1>1 DEF AuditMatchesLedger
  <1>2. CASE audit_log' = Append(audit_log, Authorization(r)) /\ ~(Allowed(r) /\ IsMint(r))
    <2>1. /\ audit_log \in Seq(Authorizations)
          /\ Authorization(r).allowed = Allowed(r) /\ Authorization(r).request = r
      BY DEF TypeOK, Authorization
    <2>2. /\ DOMAIN audit_log' = DOMAIN audit_log \cup {Len(audit_log) + 1}
          /\ \A n \in DOMAIN audit_log : audit_log'[n] = audit_log[n]
          /\ audit_log'[Len(audit_log) + 1] = Authorization(r)
      BY <1>2, <2>1
    <2>3. QED
      BY <1>2, <2>1, <2>2 DEF AuditMatchesLedger
  <1>3. QED
    BY <1>1, <1>2

\* A commit is recorded under an intent that has no record of its own yet.
LEMMA AuditMatchesCommit ==
  ASSUME TypeOK, AuditMatchesLedger, NEW r \in Requests, CommitMint(r) \/ CommitExisting(r)
  PROVE  AuditMatchesLedger'
  <1> DEFINE n0 == Len(audit_log) + 1
  <1>1. /\ r.intent \notin DOMAIN processed
        /\ DOMAIN processed' = DOMAIN processed \cup {r.intent}
        /\ processed'[r.intent] = Authorization(r)
        /\ \A i \in DOMAIN processed : processed'[i] = processed[i]
        /\ Authorization(r).request = r
    BY CommitFacts, AuthorizationType
  <1>2. audit_log \in Seq(Authorizations) /\ audit_log' = Append(audit_log, Authorization(r))
    BY DEF TypeOK, CommitMint, CommitExisting, RecordAudit
  <1>3. /\ DOMAIN audit_log' = DOMAIN audit_log \cup {n0}
        /\ n0 \notin DOMAIN audit_log
        /\ \A n \in DOMAIN audit_log : audit_log'[n] = audit_log[n]
        /\ audit_log'[n0] = Authorization(r)
    BY <1>2
  <1> HIDE DEF n0
  <1>4. \A n \in DOMAIN audit_log :
          AllowedMintAt(n) => /\ audit_log[n].request.intent \in DOMAIN processed
                              /\ processed[audit_log[n].request.intent] = audit_log[n]
    BY DEF AuditMatchesLedger, AllowedMintAt
  <1>5. \A i \in DOMAIN processed' : \E n \in DOMAIN audit_log' : audit_log'[n] = processed'[i]
    BY <1>1, <1>3 DEF AuditMatchesLedger
  <1>6. \A n \in DOMAIN audit_log' :
          AllowedMintAt(n)' => /\ audit_log'[n].request.intent \in DOMAIN processed'
                               /\ processed'[audit_log'[n].request.intent] = audit_log'[n]
    BY <1>1, <1>3, <1>4 DEF AllowedMintAt
  <1>7. \A m, n \in DOMAIN audit_log' :
          AllowedMintAt(m)' /\ AllowedMintAt(n)' /\ m # n
            => audit_log'[m].request.intent # audit_log'[n].request.intent
    BY <1>1, <1>3, <1>4 DEF AuditMatchesLedger, AllowedMintAt
  <1>8. QED
    BY <1>5, <1>6, <1>7 DEF AuditMatchesLedger, AllowedMintAt

LEMMA AuditMatchesNext ==
  TypeOK /\ AuditMatchesLedger /\ [Next]_vars => AuditMatchesLedger'
  <1> SUFFICES ASSUME TypeOK, AuditMatchesLedger, [Next]_vars PROVE AuditMatchesLedger'
    OBVIOUS
  <1>1. ASSUME NEW r \in Requests, CommitMint(r) \/ CommitExisting(r) PROVE AuditMatchesLedger'
    BY <1>1, AuditMatchesCommit
  <1>2. ASSUME NEW r \in Requests, Replies(r) PROVE AuditMatchesLedger'
    <2>1. UNCHANGED processed
      BY <1>2, RepliesFacts
    <2>2. \/ UNCHANGED audit_log
          \/ audit_log' = Append(audit_log, Authorization(r)) /\ ~(Allowed(r) /\ IsMint(r))
      BY <1>2 DEF Replies, RejectRequest, ReplayIntent, DenyRequest, FailUnknownResource,
                  RefuseStaleVersion, AbortCallback, AbortOverflow, RecordAudit, state
    <2>3. QED
      BY <2>1, <2>2, AuditMatchesOther
  <1>3. CASE \E resource \in Resources, version \in U64 : RegisterResource(resource, version)
    BY <1>3 DEF RegisterResource, AuditMatchesLedger
  <1>4. CASE UNCHANGED vars
    BY <1>4 DEF vars, state, AuditMatchesLedger
  <1>5. QED
    BY <1>1, <1>2, <1>3, <1>4 DEF Next, AuthorizeAndExecute, Replies

\* The audit log holds every commit and no allowed mint but the committed
\* ones, each once: an aborted transaction leaves no trace in it.
THEOREM AuditIsTheLedger == Spec => []AuditMatchesLedger
  <1>1. Init => AuditMatchesLedger
    BY DEF Init, AuditMatchesLedger
  <1>2. QED
    BY <1>1, TypeCorrect, AuditMatchesNext, PTL DEF Spec

-----------------------------------------------------------------------------
(* The answers to callers.                                                 *)

\* Two requests under one intent agree, but for quantity, actor and the
\* evaluator's answer, just when the executor takes them for the same.
LEMMA BoundToIsMatching ==
  ASSUME NEW q \in EvaluationRequests, NEW r \in EvaluationRequests, q.intent = r.intent
  PROVE  BoundTo(q, r) = r <=> q.grant = r.grant /\ SameMutationIntent(q, r)
  <1>1. BoundTo(q, r) \in EvaluationRequests
    BY DEF EvaluationRequests, BoundTo
  <1>2. /\ BoundTo(q, r).quantity = r.quantity /\ BoundTo(q, r).actor = r.actor
        /\ BoundTo(q, r).admissible = r.admissible /\ BoundTo(q, r).intent = r.intent
        /\ BoundTo(q, r).grant = q.grant /\ BoundTo(q, r).operation = q.operation
        /\ BoundTo(q, r).binding = q.binding /\ BoundTo(q, r).type = q.type
        /\ BoundTo(q, r).principal = q.principal /\ BoundTo(q, r).context = q.context
    BY DEF EvaluationRequests, BoundTo
  <1>3. QED
    BY <1>1, <1>2 DEF EvaluationRequests, SameMutationIntent

LEMMA RepliesMatchNext ==
  TypeOK /\ RecordsOK /\ RepliesMatchLedger /\ [Next]_vars => RepliesMatchLedger'
  <1> SUFFICES ASSUME TypeOK, RecordsOK, RepliesMatchLedger, [Next]_vars
               PROVE  RepliesMatchLedger'
    OBVIOUS
  <1>1. ASSUME NEW r \in Requests, CommitMint(r) \/ CommitExisting(r) PROVE RepliesMatchLedger'
    <2>1. /\ reply' = [kind |-> "Applied", request |-> r]
          /\ r.intent \in DOMAIN processed' /\ processed'[r.intent].request = r
      BY <1>1, CommitFacts, AuthorizationType DEF CommitMint, CommitExisting, Reply
    <2>2. QED
      BY <2>1 DEF RepliesMatchLedger
  <1>2. ASSUME NEW r \in Requests, ReplayIntent(r) PROVE RepliesMatchLedger'
    <2> DEFINE q == processed[r.intent].request
    <2>1. /\ r.intent \in DOMAIN processed /\ UNCHANGED processed
          /\ reply' = [kind |-> IF Matches(processed[r.intent], r) THEN "Duplicate"
                                ELSE "IntentConflict", request |-> r]
      BY <1>2 DEF ReplayIntent, Reply, state
    <2>2. processed[r.intent] \in Authorizations
      BY <2>1, MapValue DEF TypeOK
    <2>3. q \in EvaluationRequests /\ q.intent = r.intent
      BY <2>1, <2>2, ExecutorAssumption DEF RecordsOK, Authorizations, MutationRequests
    <2>4. Matches(processed[r.intent], r) <=> BoundTo(q, r) = r
      BY <2>3, ExecutorAssumption, BoundToIsMatching DEF Matches
    <2>5. QED
      BY <2>1, <2>4 DEF RepliesMatchLedger
  <1>3. ASSUME NEW r \in Requests,
               \/ DenyRequest(r) \/ FailUnknownResource(r) \/ RefuseStaleVersion(r)
               \/ AbortCallback(r) \/ AbortOverflow(r)
        PROVE  RepliesMatchLedger'
    <2>1. r.intent \notin DOMAIN processed /\ UNCHANGED processed
      BY <1>3 DEF DenyRequest, FailUnknownResource, RefuseStaleVersion, AbortCallback,
                  AbortOverflow, ReachesCallback, Unprocessed, state
    <2>2. \E kind \in {"Denied", "UnknownResource", "Stale", "CallbackError", "CounterOverflow"} :
            reply' = [kind |-> kind, request |-> r]
      BY <1>3 DEF DenyRequest, FailUnknownResource, RefuseStaleVersion, AbortCallback,
                  AbortOverflow, Reply
    <2>3. QED
      BY <2>1, <2>2 DEF RepliesMatchLedger
  <1>4. ASSUME NEW r \in Requests, RejectRequest(r) PROVE RepliesMatchLedger'
    BY <1>4 DEF RejectRequest, RepliesMatchLedger, ReplyKinds
  <1>5. CASE \E resource \in Resources, version \in U64 : RegisterResource(resource, version)
    BY <1>5 DEF RegisterResource, RepliesMatchLedger
  <1>6. CASE UNCHANGED vars
    BY <1>6 DEF vars, state, RepliesMatchLedger
  <1>7. QED
    BY <1>1, <1>2, <1>3, <1>4, <1>5, <1>6 DEF Next, AuthorizeAndExecute

\* What callers are told is what the ledger holds, for every request, retry
\* and reuse of an intent: Applied is about the whole request, Duplicate and
\* conflict about all of it but quantity, actor and the evaluator's answer.
THEOREM RepliesAreTrue == Spec => []RepliesMatchLedger
  <1>1. Init => RecordsOK /\ RepliesMatchLedger
    BY LedgerInit DEF Init, RepliesMatchLedger, ReplyKinds
  <1>2. QED
    BY <1>1, TypeCorrect, RecordsOKNext, RepliesMatchNext, PTL DEF Spec

-----------------------------------------------------------------------------
(* The versions of resources.  Everything the invariant says is a function *)
(* of three maps: the versions, the registrations and the commits.         *)

GenerationIn(regs, resource) ==
  IF resource \in DOMAIN regs THEN regs[resource].generation ELSE 0
ExistingIn(commits) == {i \in DOMAIN commits : ~IsMint(commits[i].request)}
ObservedIn(commits, i) == commits[i].request.binding.expected_version
WritesIn(commits, resource, generation) ==
  {i \in ExistingIn(commits) : /\ commits[i].request.binding.resource = resource
                               /\ commits[i].generation = generation}

\* VersionsAccounted of one resource.
ReplacedOnce(versions, regs, commits, resource) ==
  /\ {ObservedIn(commits, i) : i \in WritesIn(commits, resource, GenerationIn(regs, resource))}
       = regs[resource].version .. versions[resource] - 1
  /\ \A generation \in 1 .. GenerationIn(regs, resource) :
       \A i, j \in WritesIn(commits, resource, generation) :
          i # j => ObservedIn(commits, i) # ObservedIn(commits, j)

\* Versions are accounted for, a resource is never below the version it was
\* registered with, and a committed write belongs to a registration there has been.
VersionsOf(versions, regs, commits) ==
  /\ \A resource \in DOMAIN versions :
       /\ regs[resource].version <= versions[resource]
       /\ ReplacedOnce(versions, regs, commits, resource)
  /\ \A i \in ExistingIn(commits) :
       commits[i].generation <= GenerationIn(regs, commits[i].request.binding.resource)

VersionsOK == VersionsOf(resource_versions, registered, processed)

LEMMA VersionsOKMeaning == VersionsOK => VersionsAccounted
  <1>1. /\ CommittedExisting = ExistingIn(processed)
        /\ \A i : ObservedVersion(i) = ObservedIn(processed, i)
        /\ \A resource : Generation(resource) = GenerationIn(registered, resource)
    BY DEF CommittedExisting, CommittedMints, ExistingIn, ObservedVersion, ObservedIn,
           Generation, GenerationIn
  <1>2. \A resource, generation : WritesOf(resource, generation) = WritesIn(processed, resource, generation)
    BY <1>1 DEF WritesOf, WritesIn
  <1>3. QED
    BY <1>1, <1>2 DEF VersionsOK, VersionsOf, ReplacedOnce, VersionsAccounted

\* A commit of a mint adds no write.
LEMMA VersionsOfMint ==
  ASSUME NEW versions, NEW regs, NEW old, NEW new, NEW intent,
         DOMAIN new = DOMAIN old \cup {intent},
         \A i \in DOMAIN old : new[i] = old[i],
         intent \notin DOMAIN old, IsMint(new[intent].request),
         VersionsOf(versions, regs, old)
  PROVE  VersionsOf(versions, regs, new)
  <1>1. /\ ExistingIn(new) = ExistingIn(old)
        /\ \A i \in ExistingIn(old) : new[i] = old[i]
    BY DEF ExistingIn
  <1>2. \A resource, generation : WritesIn(new, resource, generation) = WritesIn(old, resource, generation)
    BY <1>1 DEF WritesIn
  <1>3. \A resource, generation : \A i \in WritesIn(old, resource, generation) :
          ObservedIn(new, i) = ObservedIn(old, i)
    BY <1>1 DEF WritesIn, ObservedIn
  <1>4. ASSUME NEW resource, ReplacedOnce(versions, regs, old, resource)
        PROVE  ReplacedOnce(versions, regs, new, resource)
    <2>1. {ObservedIn(new, i) : i \in WritesIn(old, resource, GenerationIn(regs, resource))}
            = {ObservedIn(old, i) : i \in WritesIn(old, resource, GenerationIn(regs, resource))}
      BY <1>3
    <2>2. QED
      BY <1>2, <1>3, <1>4, <2>1 DEF ReplacedOnce
  <1>5. QED
    BY <1>1, <1>4 DEF VersionsOf

\* A new registration starts with no writes.
LEMMA VersionsOfRegister ==
  ASSUME NEW old, NEW new, NEW regs, NEW newRegs, NEW commits, NEW resource, NEW version \in Nat,
         DOMAIN new = DOMAIN old \cup {resource},
         DOMAIN newRegs = DOMAIN new, DOMAIN regs = DOMAIN old,
         new[resource] = version,
         newRegs[resource].version = version,
         newRegs[resource].generation = GenerationIn(regs, resource) + 1,
         \A other \in DOMAIN old : other # resource => /\ new[other] = old[other]
                                                       /\ newRegs[other] = regs[other],
         GenerationIn(regs, resource) \in Nat,
         \A i \in ExistingIn(commits) : commits[i].generation \in Nat,
         VersionsOf(old, regs, commits)
  PROVE  VersionsOf(new, newRegs, commits)
  <1> DEFINE g == GenerationIn(regs, resource)
  <1>1. /\ GenerationIn(newRegs, resource) = g + 1
        /\ \A other : other # resource => GenerationIn(newRegs, other) = GenerationIn(regs, other)
    BY DEF GenerationIn
  <1>2. \A i \in ExistingIn(commits) :
          commits[i].generation <= GenerationIn(regs, commits[i].request.binding.resource)
    BY DEF VersionsOf
  <1>3. WritesIn(commits, resource, g + 1) = {}
    BY <1>2 DEF WritesIn
  <1>4. ASSUME NEW i \in ExistingIn(commits)
        PROVE  commits[i].generation <= GenerationIn(newRegs, commits[i].request.binding.resource)
    <2>1. CASE commits[i].request.binding.resource = resource
      BY <1>1, <1>2, <2>1
    <2>2. CASE commits[i].request.binding.resource # resource
      BY <1>1, <1>2, <2>2
    <2>3. QED
      BY <2>1, <2>2
  <1>5. ASSUME NEW other \in DOMAIN old, other # resource
        PROVE  /\ newRegs[other].version <= new[other]
               /\ ReplacedOnce(new, newRegs, commits, other)
    BY <1>1, <1>5 DEF VersionsOf, ReplacedOnce
  <1>6. ReplacedOnce(new, newRegs, commits, resource)
    <2>1. {ObservedIn(commits, i) : i \in WritesIn(commits, resource, g + 1)} = version .. version - 1
      BY <1>3
    <2>2. ASSUME NEW generation \in 1 .. g + 1,
                 NEW i \in WritesIn(commits, resource, generation),
                 NEW j \in WritesIn(commits, resource, generation), i # j
          PROVE  ObservedIn(commits, i) # ObservedIn(commits, j)
      <3>1. generation \in 1 .. g
        BY <1>3, <2>2
      <3>2. resource \in DOMAIN old
        BY <3>1 DEF GenerationIn
      <3>3. QED
        BY <2>2, <3>1, <3>2 DEF VersionsOf, ReplacedOnce
    <2>3. QED
      BY <1>1, <2>1, <2>2 DEF ReplacedOnce
  <1>7. QED
    BY <1>4, <1>5, <1>6 DEF VersionsOf

\* A write replaces the current version, which no other write of this
\* registration had observed.
LEMMA VersionsOfWrite ==
  ASSUME NEW old, NEW new, NEW regs, NEW commits, NEW newCommits, NEW intent, NEW resource,
         resource \in DOMAIN old, old[resource] \in Nat, regs[resource].version \in Nat,
         DOMAIN new = DOMAIN old,
         new[resource] = old[resource] + 1,
         \A other \in DOMAIN old : other # resource => new[other] = old[other],
         intent \notin DOMAIN commits,
         DOMAIN newCommits = DOMAIN commits \cup {intent},
         \A i \in DOMAIN commits : newCommits[i] = commits[i],
         ~IsMint(newCommits[intent].request),
         newCommits[intent].request.binding.resource = resource,
         newCommits[intent].generation = GenerationIn(regs, resource),
         ObservedIn(newCommits, intent) = old[resource],
         GenerationIn(regs, resource) \in Nat \ {0},
         VersionsOf(old, regs, commits)
  PROVE  VersionsOf(new, regs, newCommits)
  <1> DEFINE g == GenerationIn(regs, resource)
             base == regs[resource].version
             version == old[resource]
  <1>1. /\ ExistingIn(newCommits) = ExistingIn(commits) \cup {intent}
        /\ intent \notin ExistingIn(commits)
        /\ \A i \in ExistingIn(commits) : newCommits[i] = commits[i]
    BY DEF ExistingIn
  <1>2. \A other, generation :
          other # resource \/ generation # g =>
            WritesIn(newCommits, other, generation) = WritesIn(commits, other, generation)
    BY <1>1 DEF WritesIn
  <1>3. WritesIn(newCommits, resource, g) = WritesIn(commits, resource, g) \cup {intent}
    BY <1>1 DEF WritesIn
  <1>4. \A other, generation : \A i \in WritesIn(commits, other, generation) :
          ObservedIn(newCommits, i) = ObservedIn(commits, i) /\ i # intent
    BY <1>1 DEF WritesIn, ObservedIn
  <1>5. ASSUME NEW other \in DOMAIN old, other # resource
        PROVE  /\ regs[other].version <= new[other]
               /\ ReplacedOnce(new, regs, newCommits, other)
    <2>1. {ObservedIn(newCommits, i) : i \in WritesIn(commits, other, GenerationIn(regs, other))}
            = {ObservedIn(commits, i) : i \in WritesIn(commits, other, GenerationIn(regs, other))}
      BY <1>4
    <2>2. \A generation : WritesIn(newCommits, other, generation) = WritesIn(commits, other, generation)
      BY <1>2, <1>5
    <2>3. QED
      BY <1>4, <1>5, <2>1, <2>2 DEF VersionsOf, ReplacedOnce
  <1>6. /\ base <= version
        /\ {ObservedIn(commits, i) : i \in WritesIn(commits, resource, g)} = base .. version - 1
        /\ \A generation \in 1 .. g : \A i, j \in WritesIn(commits, resource, generation) :
             i # j => ObservedIn(commits, i) # ObservedIn(commits, j)
    BY DEF VersionsOf, ReplacedOnce
  <1>7. {ObservedIn(newCommits, i) : i \in WritesIn(newCommits, resource, g)} = base .. new[resource] - 1
    <2>1. {ObservedIn(newCommits, i) : i \in WritesIn(commits, resource, g)}
            = {ObservedIn(commits, i) : i \in WritesIn(commits, resource, g)}
      BY <1>4
    <2>2. {ObservedIn(newCommits, i) : i \in WritesIn(newCommits, resource, g)}
            = (base .. version - 1) \cup {version}
      <3> DEFINE writes      == WritesIn(commits, resource, g)
                 Observed(W) == {ObservedIn(newCommits, i) : i \in W}
      <3>1. Observed(writes \cup {intent}) = Observed(writes) \cup {ObservedIn(newCommits, intent)}
        OBVIOUS
      <3>2. Observed(writes) = base .. version - 1
        BY <1>6, <2>1
      <3> HIDE DEF Observed, writes
      <3>3. Observed(writes \cup {intent}) = (base .. version - 1) \cup {version}
        BY <3>1, <3>2
      <3> QED
        BY <1>3, <3>3 DEF Observed, writes
    <2>3. (base .. version - 1) \cup {version} = base .. new[resource] - 1
      BY <1>6
    <2>4. QED
      BY <2>2, <2>3
  <1>8. ASSUME NEW generation \in 1 .. g,
               NEW i \in WritesIn(newCommits, resource, generation),
               NEW j \in WritesIn(newCommits, resource, generation), i # j
        PROVE  ObservedIn(newCommits, i) # ObservedIn(newCommits, j)
    <2>1. \A k \in WritesIn(commits, resource, g) : ObservedIn(commits, k) # version
      <3>1. version \notin base .. version - 1
        OBVIOUS
      <3>2. QED
        BY <1>6, <3>1
    <2>2. CASE generation # g
      BY <1>2, <1>4, <1>6, <1>8, <2>2
    <2>3. CASE generation = g
      BY <1>3, <1>4, <1>6, <1>8, <2>1, <2>3
    <2>4. QED
      BY <2>2, <2>3
  <1>9. ReplacedOnce(new, regs, newCommits, resource)
    BY <1>7, <1>8 DEF ReplacedOnce
  <1>10. base <= new[resource]
    BY <1>6
  <1>11. \A i \in ExistingIn(newCommits) :
           newCommits[i].generation <= GenerationIn(regs, newCommits[i].request.binding.resource)
    BY <1>1 DEF VersionsOf
  <1>12. QED
    BY <1>5, <1>9, <1>10, <1>11 DEF VersionsOf

LEMMA VersionsOKNext == TypeOK /\ VersionsOK /\ [Next]_vars => VersionsOK'
  <1> SUFFICES ASSUME TypeOK, VersionsOK, [Next]_vars PROVE VersionsOK'
    OBVIOUS
  <1>1. ASSUME NEW resource \in Resources, NEW version \in U64, RegisterResource(resource, version)
        PROVE  VersionsOK'
    <2>1. /\ DOMAIN resource_versions' = DOMAIN resource_versions \cup {resource}
          /\ DOMAIN registered' = DOMAIN resource_versions'
          /\ DOMAIN registered = DOMAIN resource_versions
          /\ resource_versions'[resource] = version
          /\ registered'[resource] = [generation |-> Generation(resource) + 1, version |-> version]
          /\ \A other \in DOMAIN resource_versions :
               other # resource => /\ resource_versions'[other] = resource_versions[other]
                                   /\ registered'[other] = registered[other]
      BY <1>1 DEF RegisterResource, Insert, TypeOK
    <2>2. /\ Generation(resource) = GenerationIn(registered, resource)
          /\ GenerationIn(registered, resource) \in Nat
      BY GenerationType DEF Generation, GenerationIn
    <2>3. ASSUME NEW i \in ExistingIn(processed) PROVE processed[i].generation \in Nat
      <3>1. IsMap(processed, Intents, Authorizations) /\ i \in DOMAIN processed
        BY DEF TypeOK, ExistingIn
      <3>2. processed[i] \in Authorizations
        BY <3>1, MapValue
      <3>3. QED
        BY <3>2 DEF Authorizations
    <2>4. processed' = processed /\ version \in Nat
      BY <1>1 DEF RegisterResource, U64
    <2>5. /\ registered'[resource].version = version
          /\ registered'[resource].generation = GenerationIn(registered, resource) + 1
      BY <2>1, <2>2
    <2>6. VersionsOf(resource_versions, registered, processed)
      BY DEF VersionsOK
    <2>7. VersionsOf(resource_versions', registered', processed)
      BY <2>1, <2>2, <2>3, <2>4, <2>5, <2>6, VersionsOfRegister, SMTT(60)
    <2>8. QED
      BY <2>4, <2>7 DEF VersionsOK
  <1>2. ASSUME NEW r \in Requests, CommitExisting(r) PROVE VersionsOK'
    <2>1. /\ IsMutationRequest(r) /\ ~IsMint(r)
          /\ r.binding.resource \in DOMAIN resource_versions
          /\ r.binding.expected_version = resource_versions[r.binding.resource]
          /\ resource_versions[r.binding.resource] \in Nat
      BY <1>2, ReachesCallbackFacts DEF CommitExisting, U64
    <2>2. /\ r.intent \notin DOMAIN processed
          /\ DOMAIN processed' = DOMAIN processed \cup {r.intent}
          /\ \A i \in DOMAIN processed : processed'[i] = processed[i]
          /\ processed'[r.intent] = Authorization(r)
      BY <1>2, CommitFacts
    <2>3. /\ processed'[r.intent].request = r
          /\ processed'[r.intent].generation = GenerationIn(registered, r.binding.resource)
          /\ ObservedIn(processed', r.intent) = resource_versions[r.binding.resource]
      BY <2>1, <2>2 DEF Authorization, Generation, GenerationIn, ObservedIn
    <2>4. /\ registered' = registered
          /\ DOMAIN resource_versions' = DOMAIN resource_versions
          /\ resource_versions'[r.binding.resource] = resource_versions[r.binding.resource] + 1
          /\ \A other \in DOMAIN resource_versions :
               other # r.binding.resource => resource_versions'[other] = resource_versions[other]
      BY <1>2, <2>1 DEF CommitExisting, Insert
    <2>5. /\ GenerationIn(registered, r.binding.resource) \in Nat \ {0}
          /\ registered[r.binding.resource].version \in Nat
      <3>1. IsMap(registered, Resources, Registrations) /\ r.binding.resource \in DOMAIN registered
        BY <2>1 DEF TypeOK
      <3>2. registered[r.binding.resource] \in Registrations
        BY <3>1, MapValue
      <3>3. QED
        BY <3>1, <3>2 DEF GenerationIn, Registrations, U64
    <2>6. QED
      BY <2>1, <2>2, <2>3, <2>4, <2>5, VersionsOfWrite DEF VersionsOK
  <1>3. ASSUME NEW r \in Requests, CommitMint(r) PROVE VersionsOK'
    <2>1. /\ IsMint(r) /\ r.intent \notin DOMAIN processed
          /\ DOMAIN processed' = DOMAIN processed \cup {r.intent}
          /\ processed'[r.intent].request = r
          /\ \A i \in DOMAIN processed : processed'[i] = processed[i]
      BY <1>3, CommitFacts, AuthorizationType DEF CommitMint
    <2>2. UNCHANGED <<resource_versions, registered>>
      BY <1>3 DEF CommitMint
    <2>3. QED
      BY <2>1, <2>2, VersionsOfMint DEF VersionsOK
  <1>4. ASSUME UNCHANGED <<resource_versions, registered, processed>> PROVE VersionsOK'
    BY <1>4 DEF VersionsOK
  <1>5. ASSUME NEW r \in Requests, Replies(r) PROVE VersionsOK'
    BY <1>4, <1>5, RepliesFacts
  <1>6. CASE UNCHANGED vars
    BY <1>4, <1>6 DEF vars, state
  <1>7. QED
    BY <1>1, <1>2, <1>3, <1>5, <1>6 DEF Next, AuthorizeAndExecute, Replies

\* No update is lost: between two registrations each version of a resource
\* was replaced by exactly one committed write, for any number of writers.
THEOREM VersionsAreAccounted == Spec => []VersionsAccounted
  <1>1. Init => VersionsOK
    BY DEF Init, VersionsOK, VersionsOf, ExistingIn
  <1>2. TypeOK /\ VersionsOK /\ [Next]_vars => (TypeOK /\ VersionsOK)'
    BY TypeOKNext, VersionsOKNext
  <1>3. QED
    BY <1>1, <1>2, TypeOKInit, VersionsOKMeaning, PTL DEF Spec

-----------------------------------------------------------------------------
(* The issue book.                                                         *)

\* The intents that account for a unit.
Makers(key, n) == {i \in MintsOf(key) : n \in Units(i)}

LEMMA BookOfKey ==
  ASSUME TypeOK, NEW key \in Keys
  PROVE  /\ Issued[key] \in [1 .. Lookup(total_mints, key) -> Intents \cup {None}]
         /\ Lookup(total_mints, key) \in Nat
         /\ \A n \in 1 .. Lookup(total_mints, key) : Issued[key][n] = Author(Makers(key, n))
  <1>1. Issued[key] = [n \in 1 .. Lookup(total_mints, key) |-> Author(Makers(key, n))]
    BY DEF Issued, Makers
  <1>2. \A n : Makers(key, n) \subseteq Intents
    BY DEF Makers, MintsOf, CommittedMints, TypeOK, IsMap
  <1>3. \A n : Author(Makers(key, n)) \in Intents \cup {None}
    BY <1>2, AuthorFacts
  <1>4. Lookup(total_mints, key) \in Nat
    BY LookupType DEF TypeOK, U64
  <1> QED
    BY <1>1, <1>3, <1>4

\* A step that changes neither the mints of a key nor its counter leaves its
\* book as it is.
LEMMA BookUnchanged ==
  ASSUME NEW key \in Keys, Lookup(total_mints, key)' = Lookup(total_mints, key),
         MintsOf(key)' = MintsOf(key), \A i \in MintsOf(key) : Units(i)' = Units(i)
  PROVE  Issued'[key] = Issued[key]
  <1>1. \A n : Makers(key, n)' = Makers(key, n)
    BY DEF Makers
  <1>2. Issued[key] = [n \in 1 .. Lookup(total_mints, key) |-> Author(Makers(key, n))]
    BY DEF Issued, Makers
  <1>3. Issued'[key] = [n \in 1 .. Lookup(total_mints, key)' |-> Author(Makers(key, n)')]
    BY DEF Issued, Makers
  <1> QED
    BY <1>1, <1>2, <1>3
LEMMA BookAfter ==
  ASSUME TypeOK', NEW key \in Keys
  PROVE  /\ Issued'[key] \in [1 .. Lookup(total_mints, key)' -> Intents \cup {None}]
         /\ \A n \in 1 .. Lookup(total_mints, key)' : Issued'[key][n] = Author(Makers(key, n)')
  <1>1. Issued'[key] = [n \in 1 .. Lookup(total_mints, key)' |-> Author(Makers(key, n)')]
    BY DEF Issued, Makers
  <1>2. \A n : Makers(key, n)' \subseteq Intents
    BY DEF Makers, MintsOf, CommittedMints, TypeOK, IsMap
  <1>3. \A n : Author(Makers(key, n)') \in Intents \cup {None}
    BY <1>2, AuthorFacts
  <1> QED
    BY <1>1, <1>3

\* A commit of a mint writes its intent behind each new unit.
LEMMA BookGrows ==
  ASSUME TypeOK, TypeOK', TotalUnitsAccounted, NEW r \in Requests, CommitMint(r)
  PROVE  /\ Issued' = [Issued EXCEPT ![MintTotalKey(r)] =
                         @ \o [n \in 1 .. r.quantity |-> r.intent]]
         /\ Len(Issued[MintTotalKey(r)]) = Lookup(total_mints, MintTotalKey(r))
  <1> DEFINE i0 == r.intent
             k0 == MintTotalKey(r)
             t0 == Lookup(total_mints, k0)
             q0 == r.quantity
  <1>1. /\ k0 \in Keys /\ t0 \in Nat /\ q0 \in Nat
        /\ \A key \in Keys : MintsOf(key) \subseteq DOMAIN processed
    BY CommitMintFacts DEF Keys
  <1>2. /\ Lookup(total_mints, k0)' = t0 + q0
        /\ \A key \in Keys : key # k0 => Lookup(total_mints, key)' = Lookup(total_mints, key)
    BY CommitMintFacts DEF Keys
  <1>3. /\ i0 \notin DOMAIN processed
        /\ \A i \in DOMAIN processed : Units(i)' = Units(i)
        /\ Units(i0)' = t0 + 1 .. t0 + q0
    BY CommitMintFacts
  <1>4. /\ MintsOf(k0)' = MintsOf(k0) \cup {i0}
        /\ \A key \in Keys : key # k0 => MintsOf(key)' = MintsOf(key)
    BY CommitMintFacts DEF Keys
  <1>5. i0 \in Intents
    BY CommitFacts, MutationRequestType
  <1> HIDE DEF i0, k0, t0, q0
  <1>6. UNION {Units(i) : i \in MintsOf(k0)} = 1 .. t0
    BY <1>1 DEF TotalUnitsAccounted, Keys, t0
  <1>7. \A n \in 1 .. t0 : Makers(k0, n)' = Makers(k0, n)
    <2>1. \A i \in MintsOf(k0) : Units(i)' = Units(i)
      BY <1>1, <1>3
    <2>2. \A n \in 1 .. t0 : n \notin Units(i0)'
      BY <1>1, <1>3
    <2> QED
      BY <1>4, <2>1, <2>2 DEF Makers
  <1>8. \A n \in t0 + 1 .. t0 + q0 : Makers(k0, n)' = {i0}
    <2>1. \A i \in MintsOf(k0) : Units(i)' \subseteq 1 .. t0
      BY <1>1, <1>3, <1>6
    <2>2. \A n \in t0 + 1 .. t0 + q0 : n \notin 1 .. t0 /\ n \in Units(i0)'
      BY <1>1, <1>3
    <2> QED
      BY <1>4, <2>1, <2>2 DEF Makers
  <1> DEFINE S == Intents \cup {None}
  <1>9. /\ Issued[k0] \in [1 .. t0 -> S]
        /\ \A n \in 1 .. t0 : Issued[k0][n] = Author(Makers(k0, n))
    BY <1>1, BookOfKey DEF t0
  <1>10. /\ Issued'[k0] \in [1 .. t0 + q0 -> S]
         /\ \A n \in 1 .. t0 + q0 : Issued'[k0][n] = Author(Makers(k0, n)')
    BY <1>1, <1>2, BookAfter
  <1>11. /\ \A n \in 1 .. t0 : Issued'[k0][n] = Issued[k0][n]
         /\ \A n \in t0 + 1 .. t0 + q0 : Issued'[k0][n] = i0
    <2>1. \A n \in 1 .. t0 : n \in 1 .. t0 + q0
      BY <1>1
    <2>2. \A n \in t0 + 1 .. t0 + q0 : n \in 1 .. t0 + q0
      BY <1>1
    <2> QED
      BY <1>7, <1>8, <1>9, <1>10, <2>1, <2>2, AuthorFacts
  <1>12. Issued'[k0] = Issued[k0] \o [n \in 1 .. q0 |-> i0]
    <2> DEFINE before == Issued[k0]
               after == Issued'[k0]
    <2>1. i0 \in S /\ t0 \in Nat /\ q0 \in Nat
      BY <1>1, <1>5
    <2>2. before \in [1 .. t0 -> S] /\ after \in [1 .. t0 + q0 -> S]
      BY <1>9, <1>10
    <2>3. /\ \A n \in 1 .. t0 : after[n] = before[n]
          /\ \A n \in t0 + 1 .. t0 + q0 : after[n] = i0
      BY <1>11
    <2> HIDE DEF S, before, after
    <2>4. Repeats(S, t0, q0, i0, before, after)
      BY <2>1, <2>2, <2>3 DEF Repeats
    <2>5. after = before \o Copies(q0, i0)
      BY <2>4, ConcatOfRepeated, Zenon
    <2> QED
      BY <2>5 DEF before, after, Copies
  <1>13. ASSUME NEW key \in Keys, key # k0 PROVE Issued'[key] = Issued[key]
    <2>1. \A i \in MintsOf(key) : Units(i)' = Units(i)
      BY <1>1, <1>3
    <2> QED
      BY <1>2, <1>4, <1>13, <2>1, BookUnchanged
  <1>14. Issued' = [Issued EXCEPT ![k0] = Issued[k0] \o [n \in 1 .. q0 |-> i0]]
    <2>1. /\ Issued  = [key \in Keys |-> Issued[key]]
          /\ Issued' = [key \in Keys |-> Issued'[key]]
      BY DEF Issued
    <2> QED
      BY <1>1, <1>12, <1>13, <2>1
  <1>15. Len(Issued[k0]) = t0
    BY <1>1, <1>9, FunctionIsSequence
  <1> QED
    BY <1>14, <1>15 DEF i0, k0, t0, q0
-----------------------------------------------------------------------------
(* The histories of resources.                                             *)

\* The writes since the last registration, and those that replaced a version.
Current(resource) == WritesOf(resource, Generation(resource))
Replacers(resource, version) == {i \in Current(resource) : ObservedVersion(i) = version}

Base(resource) == registered[resource].version
Height(resource) == resource_versions[resource] - Base(resource)

LEMMA BaseAndHeight ==
  ASSUME TypeOK, VersionsOK, NEW resource \in DOMAIN resource_versions
  PROVE  /\ Base(resource) \in Nat /\ Height(resource) \in Nat
         /\ resource_versions[resource] = Base(resource) + Height(resource)
  <1>1. /\ IsMap(registered, Resources, Registrations) /\ resource \in DOMAIN registered
        /\ IsMap(resource_versions, Resources, U64)
    BY DEF TypeOK
  <1>2. registered[resource] \in Registrations /\ resource_versions[resource] \in U64
    BY <1>1, MapValue
  <1>3. Base(resource) \in Nat /\ resource_versions[resource] \in Nat
    BY <1>2 DEF Base, Registrations, U64
  <1>4. Base(resource) <= resource_versions[resource]
    BY DEF VersionsOK, VersionsOf, Base
  <1> QED
    BY <1>3, <1>4 DEF Height

LEMMA HistoryOfResource ==
  ASSUME NEW resource \in Resources
  PROVE  /\ resource \notin DOMAIN resource_versions => Writers[resource] = <<>>
         /\ resource \in DOMAIN resource_versions =>
              Writers[resource] = [n \in 1 .. Height(resource) |->
                                     Author(Replacers(resource, Base(resource) + n - 1))]
  BY DEF Writers, Height, Base, Replacers, Current

LEMMA HistoryAfter ==
  ASSUME NEW resource \in Resources
  PROVE  /\ resource \notin DOMAIN resource_versions' => Writers'[resource] = <<>>
         /\ resource \in DOMAIN resource_versions' =>
              Writers'[resource] = [n \in 1 .. Height(resource)' |->
                                      Author(Replacers(resource, Base(resource) + n - 1)')]
  BY DEF Writers, Height, Base, Replacers, Current

LEMMA ReplacersAreIntents ==
  /\ TypeOK => \A resource, version : Replacers(resource, version) \subseteq Intents
  /\ TypeOK' => \A resource, version : Replacers(resource, version)' \subseteq Intents
  BY DEF Replacers, Current, WritesOf, CommittedExisting, TypeOK, IsMap

\* A step that touches neither a resource nor its writes leaves its history.
LEMMA HistoryUnchanged ==
  ASSUME NEW resource \in Resources,
         resource \in DOMAIN resource_versions' <=> resource \in DOMAIN resource_versions,
         resource \in DOMAIN resource_versions =>
           /\ resource_versions'[resource] = resource_versions[resource]
           /\ registered'[resource] = registered[resource]
           /\ Current(resource)' = Current(resource)
           /\ \A i \in Current(resource) : ObservedVersion(i)' = ObservedVersion(i)
  PROVE  Writers'[resource] = Writers[resource]
  <1>1. CASE resource \notin DOMAIN resource_versions
    BY <1>1, HistoryOfResource, HistoryAfter
  <1>2. CASE resource \in DOMAIN resource_versions
    <2>1. Base(resource)' = Base(resource) /\ Height(resource)' = Height(resource)
      BY <1>2 DEF Base, Height
    <2>2. \A n : Replacers(resource, Base(resource) + n - 1)' = Replacers(resource, Base(resource) + n - 1)
      BY <1>2, <2>1 DEF Replacers
    <2>3. Writers[resource] = [n \in 1 .. Height(resource) |->
                                 Author(Replacers(resource, Base(resource) + n - 1))]
      BY <1>2, HistoryOfResource
    <2>4. Writers'[resource] = [n \in 1 .. Height(resource)' |->
                                  Author(Replacers(resource, Base(resource) + n - 1)')]
      BY <1>2, HistoryAfter
    <2> QED
      BY <2>1, <2>2, <2>3, <2>4
  <1> QED
    BY <1>1, <1>2

\* A registration empties the history of its resource and no other.
LEMMA HistoryRestarts ==
  ASSUME TypeOK, NEW resource \in Resources, NEW version \in U64, RegisterResource(resource, version)
  PROVE  Writers' = [Writers EXCEPT ![resource] = <<>>]
  <1>1. /\ DOMAIN resource_versions' = DOMAIN resource_versions \cup {resource}
        /\ resource_versions'[resource] = version
        /\ registered'[resource].version = version
        /\ \A other \in DOMAIN resource_versions :
             other # resource => /\ resource_versions'[other] = resource_versions[other]
                                 /\ registered'[other] = registered[other]
        /\ \A other : other # resource => (other \in DOMAIN registered' <=> other \in DOMAIN registered)
        /\ DOMAIN registered = DOMAIN resource_versions
        /\ processed' = processed
    BY DEF RegisterResource, Insert, TypeOK
  <1>2. Writers'[resource] = <<>>
    <2>1. Height(resource)' = 0
      BY <1>1 DEF Height, Base, U64
    <2>2. Writers'[resource] \in [1 .. 0 -> {Writers'[resource][n] : n \in 1 .. 0}]
      BY <1>1, <2>1, HistoryAfter
    <2> QED
      BY <2>2, EmptySequence
  <1>3. ASSUME NEW other \in Resources, other # resource
        PROVE  Writers'[other] = Writers[other]
    <2>1. Generation(other)' = Generation(other)
      BY <1>1, <1>3 DEF Generation
    <2>2. Current(other)' = Current(other)
      BY <1>1, <2>1 DEF Current, WritesOf, CommittedExisting, CommittedMints
    <2>3. \A i : ObservedVersion(i)' = ObservedVersion(i)
      BY <1>1 DEF ObservedVersion
    <2> QED
      BY <1>1, <1>3, <2>2, <2>3, HistoryUnchanged
  <1>4. /\ Writers  = [other \in Resources |-> Writers[other]]
        /\ Writers' = [other \in Resources |-> Writers'[other]]
    BY DEF Writers
  <1> QED
    BY <1>2, <1>3, <1>4
\* A write puts its intent at the end of the history of its resource.
LEMMA HistoryGrows ==
  ASSUME TypeOK, TypeOK', VersionsOK, NEW r \in Requests, CommitExisting(r)
  PROVE  Writers' = [Writers EXCEPT ![r.binding.resource] = Append(@, r.intent)]
  <1> DEFINE i0 == r.intent
             r0 == r.binding.resource
  <1>1. /\ ~IsMint(r) /\ r0 \in Resources /\ i0 \in Intents
        /\ r0 \in DOMAIN resource_versions
        /\ r.binding.expected_version = resource_versions[r0]
    BY ReachesCallbackFacts, MutationRequestType DEF CommitExisting
  <1>2. /\ i0 \notin DOMAIN processed
        /\ DOMAIN processed' = DOMAIN processed \cup {i0}
        /\ processed'[i0] = Authorization(r)
        /\ \A i \in DOMAIN processed : processed'[i] = processed[i]
    BY CommitFacts
  <1>3. /\ Authorization(r).request = r
        /\ Authorization(r).generation = Generation(r0)
    BY <1>1 DEF Authorization
  <1>4. /\ registered' = registered
        /\ DOMAIN resource_versions' = DOMAIN resource_versions
        /\ resource_versions'[r0] = resource_versions[r0] + 1
        /\ \A other \in DOMAIN resource_versions :
             other # r0 => resource_versions'[other] = resource_versions[other]
    BY <1>1 DEF CommitExisting, Insert
  <1>5. \A other : Generation(other)' = Generation(other) /\ Base(other)' = Base(other)
    BY <1>4 DEF Generation, Base
  <1>6. /\ CommittedExisting' = CommittedExisting \cup {i0}
        /\ CommittedExisting \subseteq DOMAIN processed
    BY <1>1, <1>2, <1>3 DEF CommittedExisting, CommittedMints
  <1>7. /\ Current(r0)' = Current(r0) \cup {i0}
        /\ \A other : other # r0 => Current(other)' = Current(other)
        /\ \A other : Current(other) \subseteq DOMAIN processed
    BY <1>2, <1>3, <1>5, <1>6 DEF Current, WritesOf
  <1>8. /\ ObservedVersion(i0)' = resource_versions[r0]
        /\ \A i \in DOMAIN processed : ObservedVersion(i)' = ObservedVersion(i)
    BY <1>1, <1>2, <1>3 DEF ObservedVersion
  <1> HIDE DEF i0, r0
  <1> DEFINE S == Intents \cup {None}
  <1>9. PICK b \in Nat, h \in Nat :
          b = Base(r0) /\ h = Height(r0) /\ resource_versions[r0] = b + h
    BY <1>1, BaseAndHeight
  <1>10. Base(r0)' = b /\ Height(r0)' = h + 1
    BY <1>4, <1>5, <1>9 DEF Height
  <1>11. \A i \in Current(r0) : ObservedVersion(i) \in b .. b + h - 1
    <2>1. VersionsAccounted
      BY VersionsOKMeaning
    <2>2. {ObservedVersion(i) : i \in Current(r0)} = b .. resource_versions[r0] - 1
      BY <1>1, <1>9, <2>1 DEF VersionsAccounted, Current, Base
    <2> QED
      BY <1>9, <2>2
  <1>12. \A n \in 1 .. h : Replacers(r0, b + n - 1)' = Replacers(r0, b + n - 1)
    <2>1. \A n \in 1 .. h : ObservedVersion(i0)' # b + n - 1
      BY <1>8, <1>9
    <2> QED
      BY <1>7, <1>8, <1>10, <2>1 DEF Replacers
  <1>13. Replacers(r0, b + h)' = {i0}
    <2>1. \A i \in Current(r0) : ObservedVersion(i)' # b + h
      BY <1>7, <1>8, <1>9, <1>11
    <2>2. ObservedVersion(i0)' = b + h
      BY <1>8, <1>9
    <2> QED
      BY <1>7, <1>10, <2>1, <2>2 DEF Replacers
  <1>14. Writers[r0] = [n \in 1 .. h |-> Author(Replacers(r0, b + n - 1))]
    BY <1>1, <1>9, HistoryOfResource
  <1>15. Writers'[r0] = [n \in 1 .. h + 1 |-> Author(Replacers(r0, b + n - 1)')]
    BY <1>1, <1>4, <1>10, HistoryAfter
  <1>16. Writers[r0] \in [1 .. h -> S] /\ Writers'[r0] \in [1 .. h + 1 -> S] /\ i0 \in S
    BY <1>1, <1>14, <1>15, ReplacersAreIntents, AuthorFacts
  <1>17. /\ \A n \in 1 .. h : Writers'[r0][n] = Writers[r0][n]
         /\ Writers'[r0][h + 1] = i0
    <2>1. \A n \in 1 .. h : n \in 1 .. h + 1
      BY <1>9
    <2>2. h + 1 \in 1 .. h + 1 /\ b + (h + 1) - 1 = b + h
      BY <1>9
    <2>3. \A n \in 1 .. h : Writers'[r0][n] = Writers[r0][n]
      BY <1>12, <1>14, <1>15, <2>1
    <2>4. Writers'[r0][h + 1] = Author({i0})
      BY <1>13, <1>15, <2>2
    <2> QED
      BY <2>3, <2>4, AuthorFacts
  <1>18. Writers'[r0] = Append(Writers[r0], i0)
    <2> HIDE DEF S
    <2> QED
      BY <1>9, <1>16, <1>17, AppendOfLast
  <1>19. ASSUME NEW other \in Resources, other # r0
         PROVE  Writers'[other] = Writers[other]
    BY <1>4, <1>7, <1>8, <1>19, HistoryUnchanged
  <1>20. /\ Writers  = [other \in Resources |-> Writers[other]]
         /\ Writers' = [other \in Resources |-> Writers'[other]]
    BY DEF Writers
  <1>21. Writers' = [Writers EXCEPT ![r0] = Append(Writers[r0], i0)]
    BY <1>1, <1>18, <1>19, <1>20
  <1> QED
    BY <1>21 DEF i0, r0
-----------------------------------------------------------------------------
(* Each step of the executor is one of the ledger, or none.                *)

Inv == TypeOK /\ RecordsOK /\ UnitsAccounted /\ VersionsOK

LEMMA InvHolds == Spec => []Inv
  <1>1. Init => Inv
    <2>1. Init => VersionsOK
      BY DEF Init, VersionsOK, VersionsOf, ExistingIn
    <2> QED
      BY <2>1, TypeOKInit, LedgerInit DEF Inv
  <1>2. Inv /\ [Next]_vars => Inv'
    BY TypeOKNext, RecordsOKNext, UnitsAccountedNext, VersionsOKNext DEF Inv
  <1> QED
    BY <1>1, <1>2, PTL DEF Spec

LEMMA InitMapsToInit == Init => Ledger!Init
  <1> SUFFICES ASSUME Init PROVE Ledger!Init
    OBVIOUS
  <1>1. Issued = [key \in Keys |-> <<>>]
    <2>1. \A key : Lookup(total_mints, key) = 0
      BY DEF Init, Lookup
    <2>2. ASSUME NEW key \in Keys PROVE Issued[key] = <<>>
      <3>1. Issued[key] \in [1 .. 0 -> {Issued[key][n] : n \in 1 .. 0}]
        BY <2>1 DEF Issued
      <3> QED
        BY <3>1, EmptySequence
    <2>3. Issued = [key \in Keys |-> Issued[key]]
      BY DEF Issued
    <2> QED
      BY <2>2, <2>3
  <1>2. Writers = [resource \in Resources |-> <<>>]
    BY DEF Init, Writers
  <1>3. DOMAIN processed = {}
    BY DEF Init
  <1> QED
    BY <1>1, <1>2, <1>3 DEF Ledger!Init

\* The book of a key never outgrows its quota.
LEMMA FitsQuota ==
  ASSUME TypeOK, NEW r \in Requests, CommitMint(r)
  PROVE  /\ MintTotalKey(r) \in Keys /\ r.quantity \in 1 .. Quota[MintTotalKey(r)]
         /\ Lookup(total_mints, MintTotalKey(r)) + r.quantity <= Quota[MintTotalKey(r)]
  <1> USE U64Assumption, ExecutorAssumption
  <1> DEFINE k0 == MintTotalKey(r)
             limit == MaxTotal[k0]
             t0 == Lookup(total_mints, k0)
  <1>1. /\ IsMint(r) /\ IsMutationRequest(r)
        /\ EvaluateMintingConstraints(limit, MaxPerUser[k0], RuntimeMintContext(r),
             r.principal = EmptyPrincipal) = "Allowed"
    BY CommitFacts DEF CommitMint, Allowed
  <1>2. /\ k0 \in Keys /\ limit \in Limits /\ r.quantity \in 1 .. MaxU64
        /\ RuntimeMintContext(r) \in MintContexts /\ t0 \in U64
    BY <1>1, MutationRequestType, AuthorizationType, LookupType DEF Keys, TypeOK
  <1>3. /\ RuntimeMintContext(r).total = t0 /\ RuntimeMintContext(r).quantity = r.quantity
    BY DEF RuntimeMintContext
  <1>4. ~AddOverflows(t0, r.quantity)
    BY <1>1 DEF CommitMint, Overflows
  <1>5. ~LimitReached(limit, t0, r.quantity)
    <2>1. RuntimeMintContext(r) # None
      BY <1>2 DEF MintContexts
    <2> QED
      BY <1>1, <1>3, <2>1 DEF EvaluateMintingConstraints
  <1>6. Quota[k0] = IF limit = None THEN MaxU64 ELSE limit
    BY <1>2 DEF Quota
  <1> HIDE DEF k0, limit, t0
  <1>7. t0 + r.quantity <= Quota[k0]
    <2>1. CASE limit = None
      BY <1>2, <1>4, <1>6, <2>1 DEF AddOverflows, U64
    <2>2. CASE limit # None
      BY <1>2, <1>4, <1>5, <1>6, <2>2, LimitReachedFacts
    <2> QED
      BY <2>1, <2>2
  <1>8. Quota[k0] \in Nat
    BY <1>2, <1>6 DEF Limits, U64
  <1>9. r.quantity \in 1 .. Quota[k0]
    BY <1>2, <1>7, <1>8 DEF U64
  <1> QED
    BY <1>2, <1>7, <1>9 DEF k0, t0

LEMMA CommitMintIsMint ==
  ASSUME Inv, TypeOK', NEW r \in Requests, CommitMint(r)
  PROVE  Ledger!Next
  <1> DEFINE k0 == MintTotalKey(r)
  <1>1. /\ r.intent \in Intents /\ r.intent \notin DOMAIN processed
        /\ DOMAIN processed' = DOMAIN processed \cup {r.intent}
    BY CommitFacts, MutationRequestType DEF Inv
  <1>2. /\ k0 \in Keys /\ r.quantity \in 1 .. Quota[k0]
        /\ Lookup(total_mints, k0) + r.quantity <= Quota[k0]
    BY FitsQuota DEF Inv
  <1>3. /\ Issued' = [Issued EXCEPT ![k0] = @ \o [n \in 1 .. r.quantity |-> r.intent]]
        /\ Len(Issued[k0]) = Lookup(total_mints, k0)
    BY BookGrows DEF Inv, UnitsAccounted
  <1>4. Writers' = Writers
    <2>1. UNCHANGED <<resource_versions, registered>> /\ IsMint(r)
      BY DEF CommitMint
    <2>2. /\ processed'[r.intent].request = r
          /\ \A i \in DOMAIN processed : processed'[i] = processed[i]
      BY <2>1, CommitFacts, AuthorizationType DEF Inv
    <2>3. CommittedExisting' = CommittedExisting /\ CommittedExisting \subseteq DOMAIN processed
      BY <1>1, <2>1, <2>2 DEF CommittedExisting, CommittedMints
    <2>4. \A resource : Current(resource)' = Current(resource)
      BY <2>1, <2>2, <2>3 DEF Current, WritesOf, Generation
    <2>5. \A resource : \A i \in Current(resource) : ObservedVersion(i)' = ObservedVersion(i)
      BY <2>2, <2>3 DEF Current, WritesOf, ObservedVersion
    <2>6. \A resource \in Resources : Writers'[resource] = Writers[resource]
      BY <2>1, <2>4, <2>5, HistoryUnchanged
    <2>7. /\ Writers  = [other \in Resources |-> Writers[other]]
          /\ Writers' = [other \in Resources |-> Writers'[other]]
      BY DEF Writers
    <2> QED
      BY <2>6, <2>7
  <1> HIDE DEF k0
  <1>5. Ledger!Mint(r.intent, k0, r.quantity)
    BY <1>1, <1>2, <1>3, <1>4 DEF Ledger!Mint
  <1> QED
    BY <1>1, <1>2, <1>5 DEF Ledger!Next

LEMMA CommitExistingIsWrite ==
  ASSUME Inv, TypeOK', NEW r \in Requests, CommitExisting(r)
  PROVE  Ledger!Next
  <1>1. /\ r.intent \in Intents /\ r.intent \notin DOMAIN processed
        /\ DOMAIN processed' = DOMAIN processed \cup {r.intent}
        /\ r.binding.resource \in Resources /\ ~IsMint(r)
        /\ processed'[r.intent].request = r
        /\ \A i \in DOMAIN processed : processed'[i] = processed[i]
    BY CommitFacts, MutationRequestType, AuthorizationType DEF Inv, CommitExisting
  <1>2. Writers' = [Writers EXCEPT ![r.binding.resource] = Append(@, r.intent)]
    BY HistoryGrows DEF Inv
  <1>3. Issued' = Issued
    <2>1. UNCHANGED total_mints
      BY DEF CommitExisting
    <2>2. \A key \in Keys : MintsOf(key)' = MintsOf(key) /\ MintsOf(key) \subseteq DOMAIN processed
      BY <1>1 DEF MintsOf, CommittedMints
    <2>3. \A i \in DOMAIN processed : Units(i)' = Units(i)
      BY <1>1 DEF Units
    <2>4. \A key \in Keys : Lookup(total_mints, key)' = Lookup(total_mints, key)
      BY <2>1 DEF Lookup
    <2>5. \A key \in Keys : Issued'[key] = Issued[key]
      BY <2>2, <2>3, <2>4, BookUnchanged
    <2>6. /\ Issued  = [key \in Keys |-> Issued[key]]
          /\ Issued' = [key \in Keys |-> Issued'[key]]
      BY DEF Issued
    <2> QED
      BY <2>5, <2>6
  <1>4. Ledger!Write(r.intent, r.binding.resource)
    BY <1>1, <1>2, <1>3 DEF Ledger!Write
  <1> QED
    BY <1>1, <1>4 DEF Ledger!Next

LEMMA StutterOfLedger ==
  ASSUME UNCHANGED <<total_mints, processed, resource_versions, registered>>
  PROVE  UNCHANGED Ledger!vars
  <1>1. Issued' = Issued
    BY DEF Issued, Author, MintsOf, CommittedMints, Units, Lookup
  <1>2. Writers' = Writers
    BY DEF Writers, Author, WritesOf, CommittedExisting, CommittedMints, ObservedVersion, Generation
  <1> QED
    BY <1>1, <1>2 DEF Ledger!vars

LEMMA StepMapsToStep == Inv /\ Inv' /\ [Next]_vars => [Ledger!Next]_(Ledger!vars)
  <1> SUFFICES ASSUME Inv, Inv', [Next]_vars PROVE [Ledger!Next]_(Ledger!vars)
    OBVIOUS
  <1>1. ASSUME NEW resource \in Resources, NEW version \in U64, RegisterResource(resource, version)
        PROVE  Ledger!Next
    <2>1. Writers' = [Writers EXCEPT ![resource] = <<>>]
      BY <1>1, HistoryRestarts DEF Inv
    <2>2. total_mints' = total_mints /\ processed' = processed
      BY <1>1 DEF RegisterResource
    <2>3. Issued' = Issued
      BY <2>2 DEF Issued, Author, MintsOf, CommittedMints, Units, Lookup
    <2>4. Ledger!Register(resource)
      BY <2>1, <2>2, <2>3 DEF Ledger!Register
    <2> QED
      BY <2>4 DEF Ledger!Next
  <1>2. ASSUME NEW r \in Requests, CommitMint(r) PROVE Ledger!Next
    BY <1>2, CommitMintIsMint DEF Inv
  <1>3. ASSUME NEW r \in Requests, CommitExisting(r) PROVE Ledger!Next
    BY <1>3, CommitExistingIsWrite DEF Inv
  <1>4. ASSUME NEW r \in Requests, Replies(r) PROVE UNCHANGED Ledger!vars
    BY <1>4, RepliesFacts, StutterOfLedger DEF Inv
  <1>5. CASE UNCHANGED vars
    BY <1>5, StutterOfLedger DEF vars, state
  <1> QED
    BY <1>1, <1>2, <1>3, <1>4, <1>5 DEF Next, AuthorizeAndExecute, Replies

(***************************************************************************)
(* The reference executor (execution.rs, InMemoryAtomicExecutor) keeps the *)
(* promise of the atomic boundary: under any requests, retries, replays,   *)
(* aborts and registrations it behaves as a ledger in which each intent    *)
(* takes effect at most once, mints fill a book up to its quota and writes *)
(* queue up in the history of a resource.                                  *)
(***************************************************************************)
THEOREM ImplementsLedger == Spec => LedgerSpec
  BY InvHolds, InitMapsToInit, StepMapsToStep, PTL DEF Spec, LedgerSpec, Ledger!Spec
=============================================================================
