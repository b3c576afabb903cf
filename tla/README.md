# TrustGrant: verification project

TLA+ models of TrustGrant (the Rust workspace under `src/crates/`), TLC
configurations that check them on small instances, and TLAPS proofs of the
results that should hold for every value of the constants.  The code is the
reference; where a document says otherwise, a run shows the difference (see
"Findings").

## 1. Inventory

TrustGrant is a library.  It has no threads and no I/O of its own: an
integrator calls it with documents, proofs and requests, and keeps the results.
The hard behaviour is therefore not inside a call but across calls: what was
verified and stored earlier is used later, sources answer at different times,
callers retry, and several of them share one ledger.

| Component | State it keeps | Operations | What makes it correct |
|---|---|---|---|
| Atomic executor (`trustgrant-evaluate/execution.rs`) | versions, mint counters, committed intents, audit log | `MutationRequest::try_from`, `authorize_and_execute`, `register_resource` | exactly-once effects, quotas, no lost update, atomic abort, truthful answers |
| Evaluation engine (`trustgrant-evaluate/engine.rs`, `decision.rs`) | none (pure) | `evaluate` and its steps | deny is subtractive, an allow satisfies every clause, revocation and time dominate |
| Request contexts (`trustgrant-evaluate/request.rs`) | `SelectorContext`: entries and an index of positions | `insert`, `values_for_kind`, `stable_key`, request builders | the index agrees with the entries, limits, a counter key that identifies a principal |
| Ownership chain (`trustgrant-ownership/chain.rs`) | the position in the loop: owner, tip, revision, time, identifiers seen | `verify_document_ownership` | an accepted chain is a linked, ordered path from origin to active owner |
| Transition verification (`trustgrant-ownership/verify.rs`, `canonicalize.rs`) | none | signer binding, two signatures | both parties signed this very transition |
| Verification pipeline (`trustgrant-verify/pipeline.rs`, `consistency.rs`, `policy.rs`) | what was resolved so far | resolve signer, transitions, revocation; check; verify | every result used belongs to this document and is fresh enough |
| Revocation (`trustgrant-revocation`) | status, `checked_at`, `fresh_until` | `into_record`, `is_fresh_at` | staleness is bounded |
| Verified grant, record (`trustgrant-verify/verified_grant.rs`, `record.rs`) | the stored record | store, load, `try_to_verified_grant` | a reload never makes a grant fresher or different |
| Proof bundle (`trustgrant-verify/bundle.rs`) | maps of discovery documents, delegates, revocation proofs, chains | `insert_*`, `resolve_*` | the first entry wins, order does not matter, limits |
| Discovery documents (`trustgrant-discovery`) | key lists | root and delegated signer resolution | one live key per id and holder, revoked delegate keys are never found |
| Grant and transition documents (`trustgrant-document`) | none | validation | the shapes that evaluator and ownership walk rely on |
| Issuing (`trustgrant-issue/draft.rs`) | the draft | `new`, `with_*`, `canonical_bytes`, `into_signed_document` | what is read is what was signed |
| Identifiers, names, selector expressions (`trustgrant-domain`) | none | parsing, comparison, display | normal forms are stable and read back as they are |
| Canonical JSON (`*/canonicalize.rs`) | none | encoding | every member that matters is written |
| Ports (`trustgrant-ports`) | none (traits) | `DiscoverySource`, `RevocationSource`, `StorageSource`, `SignatureVerifier` | implemented outside the repository, and once by the proof bundle |
| Errors and limits (`trustgrant-error`) | constants | `ensure_*_limit` | bounds used by all the above |

Interaction: an issuer drafts a document, has its canonical bytes signed and
publishes it.  A source (a network client or a `ProofBundle`) answers the
pipeline through the ports; the pipeline validates the document, resolves the
signer, has the ownership transitions and then their chain verified, asks for
revocation, checks that all of it belongs together and that the signature is
good, and returns a `VerifiedTrustGrant`; that is stored as a record and
reloaded; the engine evaluates requests against it; the executor evaluates
inside its transaction and commits.

Not listed above and not modelled: the facade crate (re-exports), the benches,
examples, fuzz targets and Kani proofs under `src/`.

Hard behaviour, by kind (`PROJECT.json`, "hazards", has every item at its line):

* interleaving: two writers hold the same version of a resource; successors
  accept transfers on clocks of their own while verifiers look;
* retries and replays: an intent whose answer was lost is sent again, or its
  identifier is used for something else; a grant is verified again on evidence
  it already has;
* partial failure: the callback of an execution fails, or a counter overflows
  after the callback succeeded; a record is loaded of which one part was altered;
* staleness: revocation evidence outlives the fact it states, in sources that
  lag, in memory, in a stored record; chains of ownership are served as prefixes;
* ordering: transitions arrive in any order, twice, or with one left out; a draft
  is edited after it was signed; entries of a bundle and selectors of a context
  are inserted in any order;
* boundaries: equal instants, the last instant of freshness, quotas at the width
  of `u64`, limits over nested maps, an identical insert at a limit;
* spelling: case and white space decide nothing, in any order of insertions and
  on any way through storage;
* the order of checks: deny at any level must stay subtractive.

## 2. Plan

Order, and what is done:

| Step | Modules | Abstract specification or reference definition | State |
|---|---|---|---|
| 1 Executor | `MintingConstraints`, `AtomicExecutor`, `AtomicExecutorRefinement` (+ MC, Proofs) | `ExactlyOnceLedger` | done; all its invariants and the refinement are proved |
| 2 Ownership | `OwnershipRecords`, `OwnershipChain` (+ MC, Proofs), `OwnershipTransfer` (+ MC, Proofs) | `ProvesOwnership`, the declarative condition on a whole chain | done; the walk and all of the lineage are proved |
| 3 Evaluation | `EvaluationRules`, `Evaluation` (+ MC, Proofs) | relations between decisions | done; all the relations are proved |
| 4 Lifecycle | `GrantVerification`, `GrantLifecycle` (+ MC, Proofs) | bounded revocation lag | done; all its invariants are proved |
| 5 Contexts | `Names`, `SelectorContext`, `SelectorMatching` (+ MC, Proofs) | the insertions themselves, without entries or index; the matching of `EvaluationRules` | done; all its invariants are proved |
| 6 Proof sources | `Discovery`, `ProofBundle` (+ MC, Proofs) | the signing keys of `GrantVerification`; answers that stand | done; all its invariants and the answers are proved |
| 7 Documents | `DocumentRules`, `DocumentForms`, `GrantDocuments` (+ MC, `DocumentsProofs`) | the document the issuer signed; the shapes its users assume | done; all its invariants are proved |
| 8 Transitions | `TransitionDocuments`, `SelectorExpressions`, `DocumentsMC` | the records `OwnershipRecords` assumes; a text and what it means | done; the invariants of transitions and of expressions are proved |

Who uses whom: `AtomicExecutor` and `EvaluationRules` share
`MintingConstraints`, so that the quota check the executor relies on is the one
the evaluator is checked with.  `GrantVerification` extends `EvaluationRules`,
and `GrantLifecycle` asks the evaluator's own time and revocation checks what a
grant is good for.  `OwnershipChain` is one call; `OwnershipTransfer` is the
world around such calls, and uses of `OwnershipRecords` only the declarative
condition, which `OwnershipChain` shows the walk to compute.
`TransitionDocuments` shows that what comes out of validation meets the
conditions of `OwnershipRecords`.  `Names` is under all that reads texts:
`SelectorContext`, `Discovery` and `DocumentRules`.  `SelectorMatching` holds
matching against `EvaluationRules`, and `ProofBundle` its lookups against
`GrantVerification`: what these take as sets is what the detailed structures
answer.  `AtomicExecutorRefinement` composes `AtomicExecutor` with
`ExactlyOnceLedger`.

Not built: clients of the executor that retry until they have an answer.  The
executor's model lets any request be presented at any time, which is all such a
client can do, and the code schedules no retry whose fairness could be assumed.

Everything the passing runs check is proved for all values of the constants
(section 6).

## 3. Modules and the code they model

Definitions keep the names of the source; `PROJECT.json`, "map", gives the lines
of each.  Operators marked "Mutant" are plausible bugs, one for each property;
no specification uses them.  `None` is Rust's `Option::None`.

### Executor

`MintingConstraints` is `evaluate_minting_constraints` of `engine.rs`, with the
evaluator's saturating addition and the executor's checked one at the width
`MaxU64`.

`AtomicExecutor` is `execution.rs`.  `authorize_and_execute` takes `&mut self`,
so that a call is one atomic step and callers interleave call by call.  Each way
a call can end is one action: `ReplayIntent` (duplicate or conflict),
`DenyRequest`, `FailUnknownResource`, `RefuseStaleVersion`, `AbortCallback`
(`apply` failed, the cloned transaction is dropped), `AbortOverflow`,
`CommitMint`, `CommitExisting`; beside them `RejectRequest`
(`MutationRequest::try_from` refuses) and `RegisterResource`.
`resource_versions`, `total_mints`, `mints_for_principal`, `processed` and
`audit_log` are the fields of the executor; `reply` is the last answer;
`registered` is history and guards nothing but its bound.  Callers are
arbitrary: each step may present any request, so every retry, replay, reused
intent and old version occurs.  Whatever the evaluator says of a request beside
its counters is the field `admissible`.  The counters are read inside the call
(`RuntimeMintContext`), as in the code, never taken from the caller.  Order
matters and is kept: an unknown resource is an error without an audit record, a
stale version leaves one that says "allowed".

`ExactlyOnceLedger` is the contract of the trait `AtomicInventoryExecutor`
without counters, versions or audit: an intent takes effect once, mints append
their units to a book that never outgrows its quota, writes append to the
history of a resource.  `AtomicExecutorRefinement` reads the book and the
histories off the committed authorizations; they are stored nowhere.

### Ownership

`OwnershipRecords` states what the constructors of `trustgrant-domain` enforce
of each transition, scope coverage (`ResourceTypeCovered`, `ScopeCovers`), and the reference
`LinkedPrefix` / `ProvesOwnership`: a condition on the whole chain that compares
each transition with all earlier ones.

`OwnershipChain` is `verify_document_ownership` as a walk: the locals of the loop are
`cursor`, each early return is an action, `AcceptTransition` is one turn of the
loop.  A call starts with any document, chain and time; nothing changes them.

`OwnershipTransfer` is the lineage over time: authorities sign (`Propose`),
successors accept on their own clock (`Accept`), the verifiers' clock moves
(`Tick`).  A verification reads fixed inputs in one synchronous call, so its
answer is a state function, `OwnershipVerifies`: per transition
the signer bindings of both parties, the acceptance time and the two signatures
(`TransitionVerifies`, `verify.rs`), then the chain.  `Faithful` is a predicate
of what has been signed so far: authorities may sign what they like, and the
properties that need the rules of the protocol document have it as a premise;
the verifier never relies on it.  A competing transfer or an old prefix served
by an adapter is an input, not a fault of the verifier, which sees one chain at
a time.

`TransitionDocuments` is one transition from hand to hand: it is validated
(`ownership_transition.rs` and the constructors of `trustgrant-domain`), its
predecessor signs the proposal, its successor the acceptance, any member may be
altered on the way, and the verifier checks what it is given.  `Proposal` and
`Acceptance` list the members that `canonicalize.rs` writes; a signature is the
key that made it together with what it was made over.

### Evaluation

`EvaluationRules` is `engine.rs`: each deny reason is an operator of its own
(`StaleRevocationData`, `TargetNotAllowed`, `OperationDenied`, ...), and
`GrantChecks` / `TypeChecks` list them in the order of the early returns.
`Evaluate` answers the first reason that applies.  A selector is the set of
values it matches; an expression as well.  Contexts map kinds to sets of values.
`Evaluation` asks one request of one grant; its properties compare the decision
with those on edited grants, requests and times.

`SelectorContext` is the structure behind such a context: a list of entries, one
for each kind, values in the order they came, and `kind_index` from the three
built-in kinds to positions.  `Inserted` is `insert` with its five outcomes.
`SelectorMatching` is `selector_matches_context` on it, by index or scan, on
short lists and long ones.  `StableKey` is the set of which the code writes a
sorted, length-prefixed text, so that two keys are equal when these sets are.

### Verification and lifecycle

`GrantVerification` is `consistency.rs`, `policy.rs` and the freshness of
`trustgrant-revocation`: `MetadataChecks`, `RevocationChecks`, `Consistent`,
`Verifies`, again one check per error in code order.

`GrantLifecycle` is one grant in one application.  The world moves by `Tick`,
`Revoke`, `Report` (a source gets an answer, on a clock up to `Skew` ahead,
and keeps serving it: a source lags until it reports again), `Withdraw` (a key
leaves the discovery document).  The application moves by `VerifyWithSources`
(`verify_raw_document_with_sources`), `VerifyAgain` (`verify_raw_document` on
the metadata it has), `Store`, `Load` (`try_to_verified_grant`, with the lossy
raw document the record is checked against) and `Crash`.  Sources and storage
are implemented outside the repository and marked external.  `MayUse` is what
the evaluator would answer at this instant, by its own operators.

`Discovery` is the validation of the two kinds of discovery documents, down to
keys whose ids must differ once trimmed, and the lookup of a signer binding.
`ProofBundle` fills the four maps by offers: each is parsed, compared with the
entry that is there, and measured against its limit; `WithDelegate` keeps the
three nested maps of the code.  The three sources answer from the bundle.

### Documents

`Names` is what constructors do with texts: trim, fold case, refuse what is
blank, too long, or has a space.  Texts are values; which are blank or long, and
what they trim to, are constants.

`DocumentRules` has for each part of a raw document an operator for the result
of its validation and one for the validated part.  Results are errors in the
order of the code, so that the first of two faults is the one reported.
`DocumentForms` has the other forms of a document: what is signed
(`Canonical`), the record and what reading it accepts (`LoadResult`), and the
raw form it is checked in.  `AnyScope` and its like are what the types of
`raw.rs` leave possible, `KeptScope` and its like what those of a record do:
inputs, alterations and proofs range over all of it.

`GrantDocuments` is one document from the draft to the storage: `Edit`, `Sign`,
`Publish`, `AlterOnTheWay`, `Verify`, `Store`, `AlterInStorage`, `Load`.

`SelectorExpressions` is the one place where text is modelled character by
character, because what it shows is about text: the parser and the display of
`selector_expression.rs` are inverse to each other.  `DocumentRules` assumes it
of expressions and ids.

## 4. Runs

All passing runs finish with every action fired.  The largest takes less than
three minutes with two workers.

| Run | Question | Bounds, and why they are enough |
|---|---|---|
| `executor` | do counters, quotas, versions, audit and answers agree, however mints and writes are retried, aborted or malformed; is an update ever lost; is every step one of the ledger? | two workloads, one to a behaviour. Both: 3 intents (one more than any pairwise conflict needs), symmetric; 3 audit records; `MaxU64` 4. Mints: two grants, one with both limits below the width of `u64`, one with its limit at the width, which is where saturation and checked addition part; two principal values with one stable key, another, and the empty one. Writes: one resource, registered up to twice, at version 2 or 4 (versions come back, and at 4 the next write overflows), and writes that observed one of its last three versions, beside mints of 1 and 2 units |
| `ownership_chain` | does one pass with a cursor decide the declarative condition, and is a scope refused only for a resource left out? | every sequence of up to three of twelve records: a history O, A, B, A and records that break it in one way each; one chain of four against `MaxChainLength` 3 (32 in the code; nothing depends on its value, see the proofs); three times |
| `transfer` | do verifiers ever see two histories, does a settled transfer always verify, is an owner ever proved that did not accept, is a proof ever lost but to a window or a key? | 3 transitions signed by the rules (transfer, onward, back), 2 of any kind (`MaxUnfaithful`: one rival for one transfer); four instants and a skew of one, a key that starts late and one that retires; every sequence up to that length is offered |
| `evaluation` | are decisions on edited grants, other instants and richer contexts related as they must be? | grants are varied one feature at a time (time, scope, capability, audience, quota) and crossed with all requests; two kinds, two values, two types and two audiences, own and default, with and without a principal scope, separate allow, deny, absent and wrong kind; `MaxU64` 3 lets sums saturate |
| `contexts` | does a context hold and match what was put into it, whatever the order and spelling? | 4 insertions, one more than `MaxKinds` 3, of 6 kinds (two spellings of a built-in one, two of another, one with a space, one blank) and 5 values; `MaxValues` 2; `LinearScan` 1, so that two values take the other path (8 in the code); contexts that start empty or with the two kinds of `EvaluationRequest::new` |
| `proof_bundle` | does a bundle answer once and for all, with the one key that was published? | 16 raw documents, 9 delegates, 3 proofs, chains for 2 grants: conflicts, repetitions in another spelling, one for each error; limits 2, 2, 1, 1, so that each is met; every set of offers in every order |
| `documents` | is what is trusted what was signed, in the shape its users assume, and can it be stored and read back? | documents with one part varied at a time, and two changes (`MaxChanges`: an edit after signing and an alteration, or one on the way and one in storage); one alteration of a transition (`MaxAlterations`); expressions by up to 5 characters (`TypedBound`) typed on three beginnings, enough for each escape, a quote, and white space on both sides; `MaxExpression` 8, which the longer ones reach |
| `lifecycle` | how long does a revoked grant stay usable; do stored records stay readable; do verifier and evaluator agree on freshness? | a live source and a mirror of snapshots, both postures, lifetime 1, stale bound 2, skew 1, horizon 3: longer than lifetime plus skew after a revocation at 0; both effects of a revocation, a key that expires and one that starts late |

In the model a signature is good for exactly the key or party that made it and
what it was made over.  Deadlock is not checked where a behaviour ends: a call
has returned (`ownership_chain`, `evaluation`), a bound on signatures, edits,
insertions or characters has been reached (`transfer`, `documents`, `contexts`),
or a document has passed its last station.

Bounds that guard actions: `AuditBound` (length of `audit_log`),
`GenerationBound` (registrations of one resource), `Horizon` (time), `MaxSkew`,
`MaxSigned`, `MaxUnfaithful`, `InsertBound` (insertions into a context),
`MaxChanges`, `MaxAlterations`, `TypedBound`.  They cut behaviours off and permit
none that the code does not have.

No specification states fairness and no run checks liveness.  The library's
functions are synchronous loops over finite inputs, which return by their shape;
when they are called, and whether a caller retries, is not scheduled by this
code.  What an execution may still depend on, that an intent refused or aborted
stays free for a retry, is safety (`RepliesMatchLedger`).

## 5. Findings

Each is a run that TLC must find violated.

* `executor_actor`: `MutationRequest::actor` "Must be set explicitly ... When
  `None`, the executor should reject the mutation" (`execution.rs`, 102).
  `authorize_and_execute` never reads it, and a mint without an actor commits.
* `executor_reuse`: an intent identifier "must be paired with the full request
  binding.  Reusing it for a different request is an intent conflict, not a
  successful retry" (`request.rs`, 730-732).  `same_mutation_intent` (716-725)
  does not look at the mint context, which carries the quantity: two units asked
  for under the intent of a committed mint of one are answered with `Duplicate`
  and the authorization for one.  `TRUSTGRANT_V0_SPEC.md`, 15.2, lists what an
  intent is bound to, and the quantity is not in the list.  The actor and the
  expiry of the envelope are not compared either.
* `transfer_signer`: after a transfer the "verifier confirms the signer is the
  active owning authority" (`OWNERSHIP_AUTHORITY_TRANSITIONS.md`, 221).
  Verification compares the signer with the issuer and the chain with the active
  owner, but never issuer and owner with each other.
* `lifecycle_stale`: `max_stale_seconds` is the "upper bound for using stale
  cached non-revoked status" (`TRUSTGRANT_AUTHORITY_DISCOVERY.md`, 146).  The
  code applies it to revoked ones only, and nothing relates it to
  `non_revoked_ttl_seconds`.

Observed while modelling, no run claims them:

* Without an operations scope a type that may be minted has "an implicit allow of
  operation `create`" (`TRUSTGRANT_V0_SPEC.md`, 548); the engine denies
  (`engine.rs`, 408-417), and a comment in it and a conformance test agree with it.
* The interoperability profile is not written into the canonical form
  (`verify/canonicalize.rs`, 34-37, as `CANONICALIZATION_SPECIALIZATION.md`, section
  3, says), so that it may change under a valid signature: `SignedIsWhatIsRead`
  excepts it.
* `stable_key` spells kinds as they were first inserted: a principal entered as
  "Actor" and one entered as "actor" are equal for matching and have two counters.
  `KeyIgnoresOrder` has one spelling per kind as its premise.
* `RepliesMatchLedger` makes an exception of what `executor_reuse` shows: a
  duplicate may differ from what was committed in quantity, in actor and in the
  answer of the evaluator (which stands for the instant), and in nothing else.
* Versions of a resource count from what it was registered with.  If it is
  registered again at a version it had before, a write prepared under the first
  registration is accepted under the second: the code has nothing to tell them
  apart by, and `VersionsAccounted` admits it.
* `same_mutation_intent` compares contexts as lists, so that the same request
  built in another order is a conflict and no duplicate.
* Of two resource types whose names trim to one, the last counts, without an error.
* A stored record that is altered in a part its metadata does not repeat, and
  that keeps its shape, loads: storage is trusted for scopes and quotas.
* Quotas are counted by grant identifier, and nothing in the evaluator looks at
  supersession; a stale attempt leaves an audit record that says "allowed";
  `checked_at` may lie in the future, which is why `BoundedRevocationLag` has a
  term for skew; a later verification against a source that lags replaces better
  knowledge of a revocation, within the same bound.

## 6. Proofs

Checked by TLAPS for all values of the constants, from the assumptions the
modules state, each evaluated by TLC in the runs above.  They say what the types
of the code say: the width of a counter, the members of a record, that `None` is
no value (`U64Assumption`, `ExecutorAssumption`, `RecordsAssumption`,
`ChainsAssumption`, `ResultsAssumption`, `TransferAssumption`,
`FreshnessPolicyAssumption`, `LifecycleAssumption`, `DocumentsAssumption`,
`GrantsAssumption`, `RequestsAssumption`, `ContextAssumption`,
`MatchingAssumption`, `ExpressionsAssumption`, `DiscoveryAssumption`,
`BundleAssumption`, `EntriesAssumption`, `NullAssumption`,
`PlaceholderAssumption`, `GrantAssumption`, `TransitionAssumption`).  Four of
them say more.  `NamesAssumption` says what trimming and folding case do: each
does nothing the second time, they commute, and lower case makes no text blank
or spaced that was not.  `DocumentAssumption` says that ids and expressions are
printed so that they are read back as they were; for expressions
`ExpressionsAreReadBack` is that statement, proved of their text.
`GrantAssumption` and `TransitionAssumption` say that alterations forge no
signature: one can be blanked, and what it was made over can be changed under
it.

* `AtomicExecutorProofs`.  `TypeCorrect`: no counter or version leaves `u64`.
  `UnitsAreAccounted`: the units of the committed mints of a key are disjoint and
  fill `1 .. counter`, for the totals and for each principal.  That is inductive
  together with `TypeOK` and `RecordsOK` (what is committed was allowed, under its
  own identifier): a commit adds the interval after the counter and moves the
  counter to its end, everything else leaves both alone.  `QuotaIsNeverExceeded`:
  each committed mint was allowed on the counters its authorization records; as
  the checked addition went through, the saturating sum of the evaluator was
  exact, and the interval lies within the limit.
  `VersionsAreAccounted`: the invariant `VersionsOf` ties every committed write to
  the registration it fell under, as a relation between versions, registrations
  and commits (lemmas for a mint, a registration and a write): a registration
  begins an empty interval and leaves earlier ones as they are, a write replaces
  exactly the version at the end of the current one.
  `AuditIsTheLedger` is inductive with `TypeOK` alone: an audit record and its
  commit are made in one step.  A reply is computed from the ledger that it is
  true of, but `RepliesAreTrue` needs `RecordsOK` for what that computation means:
  that what replay compares is all but quantity, actor and the evaluator's answer
  (`BoundToIsMatching`) holds of requests filed under their own intent.
  `ImplementsLedger`: the executor implements `ExactlyOnceLedger` under the
  mapping of `AtomicExecutorRefinement`.  The invariants above say what the
  mapped book and history are made of; `BookGrows` and `HistoryGrows` that a
  commit appends to them what the ledger appends, `FitsQuota` that the ledger
  permits it, `HistoryRestarts` that a registration empties the history of one
  resource.  `StepMapsToStep` goes through the actions: those that answer without
  committing leave all of it alone.
* `OwnershipChainProofs`.  The invariant `IInv` says that the cursor holds the
  fields of the last transition walked over (`CursorIsLast`), that everything up
  to it is linked, and why the call ended (`Justified`).  `CursorSuffices` is the heart:
  given a linked prefix, what the loop compares with its cursor is what
  the declarative condition compares with all earlier transitions.
  `CursorIsCorrect`, `VerifierIsExact` (both directions: nothing unlinked is
  accepted, nothing linked refused), `ErrorIsTheFirst` and `ScopeIsConveyed`
  follow, for any length limit.  `ScopeRefusalIsJust` is about the other verdict:
  coverage of selectors is more than coverage of resources, but not for a
  document that only lists resources (`ReachCovers`), so that none is refused
  that the transition conveys.  `TypeCorrect` types the cursor and the verdict.
  `CallsRunOut`: every step of a call uses up one of the finitely many it had
  left; by the lemma `SomeCaseApplies`, up to the verdict the code has a case for
  where it is.
* `OwnershipTransferProofs`.  `ChainsAgree` is about every sequence anybody might
  offer; the induction is over the behaviour, not over sequences.  `OneHistory`
  says that a sequence of signed transitions, each superseding the one before,
  is a beginning of what was signed.  One more signature keeps it
  (`AppendingKeepsOneHistory`): nothing signed supersedes the new transition, so
  that it is last in a sequence or not in it.  `Ordered`
  (`AppendingKeepsOrder`) makes of the comparisons with the transition before
  those with all earlier ones, and gives `SettledTransfersVerify`.  Both are
  invariant as long as the rules are kept regardless of acceptance (`RulesKept`):
  `Faithful` alone is not stable, an acceptance that arrives late makes it true.
  `ProofsStand` and `OwnersHaveConsented` need only that signatures and
  acceptances stay.
* `EvaluationProofs`.  The invariant `Decided` is that the decision is that of
  the engine on the grant and request at hand; the rest is about the engine.
  `AllowsMeans` turns its early returns into one conjunction, `AllowsInParts`
  separates what depends on the time (`Timely`, an interval) from what does not
  (`Untimed`): `NoGaps`.  `DenialsOnlySubtract` follows from an order on grants,
  by which the edited grant is stricter (`MoreDenialsAreStricter`, from entries
  and principals over audiences and types to the grant) and a stricter one
  permits less (`StricterPermitsLess`).  `RevocationsOnlyTakeAway` compares
  evidence (`OtherEvidence`), `AddedContextIsOnlyEverDenied` the four contexts (`RicherTarget`,
  `RicherSelectors`, `RicherAudience`, `RicherPrincipal`): more values
  match more selectors (`WithValueMatchesMore`), so that only a deny can turn the
  decision (`OnlyOneReason`).
* `GrantLifecycleProofs`.  `RevocationIsBounded` needs more than the state of
  the grant in memory: evidence may come from a source, from memory or from
  storage.  `AgeInvariant` says of all three that what says "Active" dates from
  before the revocation, or from now if there is none, plus the skew.  Time and
  revocation only move that instant forward, verification and loading copy
  evidence without renewing it, so a revoked grant is usable no later than
  `revoked_at + NonRevokedTtl + Skew`.
  `StoredRecordsAlwaysLoad` and `VerifiedIsUsable` rest on `GrantsConsistent`: what
  is held or stored passed every check at the time it names as its own.
  `RawFormIsAsConsistent` shows that the lossy raw form, which forgets the effect
  of a revocation, passes them as well, since no check reads it.
  `ConsistentIsFresh` picks the one check of freshness out of the list and
  compares it with the evaluator's.
* `SelectorContextProofs`.  `IndexAlwaysExact`: what the shortcut of the index
  and what the scan look at are the same entry, after any insertions, accepted
  or refused, for all limits.  The invariant `ContextOK` is typing, one entry
  for each kind, and the index; `WithValueOK` and `WithKindOK` keep it for the
  two ways in which a context grows.  `ReadingIsFaithful`: a reader gets what was
  inserted under any spelling of the kind and nothing else.  `HeldInserted` says
  what one insertion adds to what is held under a kind, `ReadIsHeld` that a
  reading is what is held; `Faithful` adds up the insertions.
  `MatchingIsByMeaning`: on a list or by a set, with index or without, a selector
  matches a context as it matches the sets of `EvaluationRules`.
  `OrderNeverMattersToKeys` is about calls made over again: two replays of which
  one has two neighbouring calls swapped.  `Traced` says that a context is what
  its accepted calls lead to; `Replays` describes the recursion by its steps, and
  what holds for each step holds for all by the well-foundedness of the natural
  numbers (`Induction`).  A context is seen as its size, its spellings and what it
  holds under each (`Alike`), without positions: `InsertionsCommute` in that view,
  `AlikeStaysAlike` for every later call, and the key is a function of the view
  (`KeysOfAlike`).
* `ProofBundleProofs`.  The invariant `BundleOK` is the limits together with the
  finiteness of what they count.  A refused offer changes nothing; `Room` is what the check of a limit
  leaves, `AcceptedKeepsLimits` what an accepted offer makes of it, with the three
  nested maps taken as the set of paths they hold (`WithDelegateEntries`), which
  grows by the one path of the offer: `LimitsHold`.  `EntriesEndure`: no accepted
  offer changes an entry that was there, and so no answer (`AnswersAlwaysStand`).
  `Sourced` says that what is kept parsed and was offered, under the names it
  says.  What is left of a list of keys once the revoked ones are dropped
  (`LiveKeysAreLeft`, by induction over the list) then gives `FoundKeysAreLive`,
  and with the uniqueness of the ids that are left (`KeysAreUnique`, `LookupFacts`)
  `SigningKeyIsFound`.  `OrderNeverMatters` takes the four maps as one
  kind of thing, with places (`Slot`) and what is taken of them: two accepted
  offers at one place are equal, offers at two places commute, and neither uses
  up the room of the other (`EitherOrder`).
* `DocumentsProofs`, on transitions.  What is written determines what was written,
  nulls and empty lists included (`ProposalDetermined`, `AcceptanceDetermined`).
  `SignaturesAreReal`: whatever is altered, a signature on the way is one that a
  party made over the document it had before it.  Both give `TransfersAreAgreed`.
  `VerifiedRecordsAreWellFormed` goes through the checks of validation: lists
  without repetition have as many elements as entries (`DistinctCount`), types
  are found by their trimmed name (`LastNamed`).
* `DocumentsProofs`, on grants.  The canonical form determines a document but for
  signature and profile (`CanonicalDetermines`), and `SigningInv` says that what
  verifies is under the signature of what was signed, although drafts are edited
  afterwards: `VerifiedIsWhatWasSigned`.  The rest is about normal forms, part by
  part from texts to whole documents: what validation accepts is in normal form
  (`DocumentIsNormal`), and so is what reading a record accepts
  (`NormalizedIsNormal`), although other code does it; a document in normal form
  is read as itself (`NormalDocumentLoads`) and accepted by validation in its raw
  form (`NormalDocumentIsAccepted`), within the same limits.  Removing repetitions
  is the part with an argument of its own: ranks count up to the number of first
  occurrences (`RanksAreTaken`), and a list without repetitions stays as it is
  (`DistinctStays`).  `StorageInv` is that what is in memory has normal form and
  the metadata that was verified, and that a record has those too, while of its
  document nothing is known but the types: storage may have altered it.
  `GrantsAreWellShaped`, `GrantsSurviveStorage` and
  `StorageCannotReplaceTheSigner` follow; `ShapesHold` alone would not be
  inductive, since a well-shaped document need not load.
* `DocumentsProofs`, on expressions, for texts and arguments of any length.  Both
  loops, the one that reads an argument and the one that writes it, are functions
  of the number of characters done (`Iteration` gives their steps from
  well-foundedness).  `TextIsRead`: reading what was written of an argument gives
  the argument, since each character's escape leaves the reader where the
  character is (`UnescapedAppend`).  `ReadIsText` is the converse: a text that was
  read is what would be written of its argument, with a lone backslash after it
  while an escape is open.  The second is why an accepted expression is never
  stored as a longer text than it came from, and has room within the limit
  (`AcceptedHasRoom`); the first, with the fact that a displayed expression has no
  white space at its ends and its first bracket after the predicate
  (`DisplayIsParsed`), why it is accepted again as itself.

Only model-checked: that the findings are violations.  Where a definition recurs over a list and a theorem depends on it, it is
written as a recursive function and unfolded by an induction from
well-foundedness, as above.

## 7. Not modelled

* JSON: its parsing, its escaping and the bytes of the canonical form.  What is
  modelled is which members are written and which texts are refused.
* Which texts are uuids, URIs or reserved names: the tables `TrustGrantIdOf`,
  `Bare` and the like give some of each kind.
* The control characters of expressions one by one: one stands for those that
  have an escape (line feed, carriage return, tab).  In `DocumentRules` a text
  that is no expression has one error, be its syntax or its predicate unknown.
* `SelectorExpression::matches` (string functions), signature profiles and
  algorithms, ranges of dates.
* Altered metadata of a stored record together with its document: whoever can
  write both can write any record.
* Supersession between grants and the choice among competing transitions: the
  code leaves both to the adapters behind its ports.
* The facade, benches, examples, fuzz targets and Kani proofs, and the error type.

The map covers well over half of the lines of code that are not tests: more than
half of most implementation files is their own `mod tests`, and of the rest a
large part is doc comments, accessors and derives, which no definition stands
for.
