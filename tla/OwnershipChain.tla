--------------------------- MODULE OwnershipChain ---------------------------
(***************************************************************************)
(* OwnershipChainVerifier::verify_document_ownership: one call walks the   *)
(* resolved transitions once and decides who owns the document's lineage   *)
(* at checked_at.  The walk keeps a cursor (the local variables of the     *)
(* loop) and stops at the first transition that does not fit it.           *)
(***************************************************************************)
EXTENDS OwnershipRecords

CONSTANT Chains   \* the sequences of transitions a source may deliver

ASSUME ChainsAssumption == Chains \subseteq Seq(Transitions)

-----------------------------------------------------------------------------
VARIABLES
  document, transitions, checked_at,   \* the arguments of the call
  next,      \* the transition the loop looks at
  cursor,    \* current_owner, seen_transition_ids, current_series_id, ...
  result     \* None while the call runs

arguments == <<document, transitions, checked_at>>
vars == <<document, transitions, checked_at, next, cursor, result>>

Errors ==
  {"LimitExceeded", "MissingOwnershipTransitionChain", "OwnershipTransitionOriginMismatch",
   "InvalidOwnershipTransitionChain", "OwnershipTransitionScopeMismatch",
   "OwnershipTransitionActiveOwnerMismatch"}

Records ==
  [origin: Authorities, owner: Authorities, checked_at: Times,
   proof_kind: {"StaticOwner", "TransitionChain"}, tip: TransitionIds \cup {None}]

\* None is no result.
ASSUME ResultsAssumption == None \notin [error: Errors] \cup Records

StartOfScan ==
  [owner |-> document.origin, seen |-> {}, series |-> None, revision |-> None,
   effective_at |-> None, tip |-> None]

Init ==
  /\ document \in Documents
  /\ transitions \in Chains
  /\ checked_at \in Times
  /\ next = 1
  /\ cursor = StartOfScan
  /\ result = None

Return(r) == result' = r /\ UNCHANGED <<arguments, next, cursor>>

Fail(error) == Return([error |-> error])

VerificationRecord(kind) ==
  [origin |-> document.origin, owner |-> cursor.owner, checked_at |-> checked_at,
   proof_kind |-> kind, tip |-> cursor.tip]

TooLong == Len(transitions) > MaxChainLength

RejectLength == TooLong /\ Fail("LimitExceeded")

AcceptStaticOwner ==
  /\ ~TooLong /\ transitions = <<>>
  /\ document.origin = document.active
  /\ Return(VerificationRecord("StaticOwner"))

RejectMissingChain ==
  /\ ~TooLong /\ transitions = <<>>
  /\ document.origin # document.active
  /\ Fail("MissingOwnershipTransitionChain")

Scanning == ~TooLong /\ next \in 1 .. Len(transitions)
Current == transitions[next]

\* Mutant: only the first revision is compared.
ContinuesSeries(t) ==
  /\ t.id \notin cursor.seen
  /\ cursor.series \in {None, t.series}
  /\ cursor.revision = None => t.revision = 1

\* The lineage checks, against what the cursor remembers of the lineage.
ContinuesLineage(t) ==
  /\ t.id \notin cursor.seen
  /\ cursor.series \in {None, t.series}
  /\ IF cursor.revision = None
     THEN t.revision = 1
     ELSE t.revision > cursor.revision /\ t.supersedes = cursor.tip

\* Mutant: a transition is not in force at the instant it takes effect.
ContinuesCustodyLater(t) ==
  /\ t.predecessor = cursor.owner
  /\ t.effective_at < checked_at
  /\ t.window # None => Contains(t.window, checked_at)
  /\ cursor.effective_at # None => cursor.effective_at <= t.effective_at

\* The custody and time checks.
ContinuesCustody(t) ==
  /\ t.predecessor = cursor.owner
  /\ t.effective_at <= checked_at
  /\ t.window # None => Contains(t.window, checked_at)
  /\ cursor.effective_at # None => cursor.effective_at <= t.effective_at

RejectOrigin ==
  /\ Scanning
  /\ Current.origin # document.origin
  /\ Fail("OwnershipTransitionOriginMismatch")

RejectTransition ==
  /\ Scanning
  /\ Current.origin = document.origin
  /\ ~(ContinuesLineage(Current) /\ ContinuesCustody(Current))
  /\ Fail("InvalidOwnershipTransitionChain")

Fits(t) ==
  t.origin = document.origin /\ ContinuesLineage(t) /\ ContinuesCustody(t)

RejectScope ==
  /\ Scanning
  /\ Fits(Current)
  /\ ~ScopeCovers(document.scope, Current.scope)
  /\ Fail("OwnershipTransitionScopeMismatch")

\* Mutant: the tip of the lineage stays at its first transition.
AdvanceKeepsTip(t) ==
  [owner |-> t.successor, seen |-> cursor.seen \cup {t.id},
   series |-> IF cursor.series = None THEN t.series ELSE cursor.series,
   revision |-> t.revision, effective_at |-> t.effective_at,
   tip |-> IF cursor.tip = None THEN t.id ELSE cursor.tip]

\* The cursor after a transition.  series is only set by the first one.
Advance(t) ==
  [owner |-> t.successor, seen |-> cursor.seen \cup {t.id},
   series |-> IF cursor.series = None THEN t.series ELSE cursor.series,
   revision |-> t.revision, effective_at |-> t.effective_at, tip |-> t.id]

AcceptTransition ==
  /\ Scanning
  /\ Fits(Current)
  /\ ScopeCovers(document.scope, Current.scope)
  /\ cursor' = Advance(Current)
  /\ next' = next + 1
  /\ UNCHANGED <<arguments, result>>

Scanned == ~TooLong /\ transitions # <<>> /\ next > Len(transitions)

AcceptChain ==
  /\ Scanned
  /\ cursor.owner = document.active
  /\ Return(VerificationRecord("TransitionChain"))

RejectActiveOwner ==
  /\ Scanned
  /\ cursor.owner # document.active
  /\ Fail("OwnershipTransitionActiveOwnerMismatch")

Next ==
  /\ result = None
  /\ \/ RejectLength \/ AcceptStaticOwner \/ RejectMissingChain
     \/ RejectOrigin \/ RejectTransition \/ RejectScope \/ AcceptTransition
     \/ AcceptChain \/ RejectActiveOwner

Spec == Init /\ [][Next]_vars

-----------------------------------------------------------------------------
Accepted == result # None /\ "error" \notin DOMAIN result
Rejected == result # None /\ "error" \in DOMAIN result

Cursors ==
  [owner: Authorities, seen: SUBSET TransitionIds, series: SeriesIds \cup {None},
   revision: Nat \cup {None}, effective_at: Times \cup {None}, tip: TransitionIds \cup {None}]

TypeOK ==
  /\ document \in Documents /\ transitions \in Chains /\ checked_at \in Times
  /\ next \in 1 .. Len(transitions) + 1
  /\ cursor \in Cursors
  /\ result \in {None} \cup [error: Errors] \cup Records

\* What the loop has passed over is linked, and the cursor is its end
\* (chain.rs 95-147: the locals against the transitions walked so far).
CursorIsEndOfLinkedPrefix ==
  /\ LinkedPrefix(transitions, document, checked_at, next - 1)
  /\ cursor.owner = Before(transitions, document.origin, next)
  /\ cursor.seen = {transitions[i].id : i \in 1 .. next - 1}
  /\ cursor.tip = IF next = 1 THEN None ELSE transitions[next - 1].id

\* One pass with a cursor decides exactly the declarative condition on the
\* whole chain: nothing is accepted that is not linked from the origin to
\* the declared owner, and nothing so linked is refused.
AcceptsExactlyLinkedChains ==
  /\ Accepted => ProvesOwnership(transitions, document, checked_at)
  /\ Rejected => ~ProvesOwnership(transitions, document, checked_at)

\* Every hand-over of an accepted chain conveyed every resource the
\* document reaches: no owner got more from its predecessor than that one
\* gave (ensure_transition_scope_covers_document).
OwnerWasGivenItsScope ==
  Accepted => \A i \in DOMAIN transitions :
                Reach(document.scope) \subseteq Conveyed(transitions[i].scope)

\* The error a caller is told names the first transition that breaks the
\* chain: everything before it was in order, and it was not.
ErrorNamesFirstBreak ==
  (Rejected /\ result.error \in {"OwnershipTransitionOriginMismatch",
                                 "InvalidOwnershipTransitionChain",
                                 "OwnershipTransitionScopeMismatch"}) =>
    /\ LinkedPrefix(transitions, document, checked_at, next - 1)
    /\ ~LinkedPrefix(transitions, document, checked_at, next)
    /\ (result.error = "OwnershipTransitionOriginMismatch")
         <=> (transitions[next].origin # document.origin)

\* A scope that only lists values, which is all a transition can convey.
ListsResources(scope) ==
  \A type \in DOMAIN scope :
    /\ ~scope[type].all /\ scope[type].deny = {} /\ scope[type].allow # {}
    /\ \A selector \in scope[type].allow : selector.explicit /\ selector.values # {}

\* A chain is refused for its scope only where a resource is missing: if the
\* document just lists resources, the transition that was refused leaves one
\* of them out.  A transition that conveys them all is covering, over however
\* many selectors of a kind it spreads them (ensure_selector_covered).
ScopeIsRefusedForAResource ==
  (/\ Rejected /\ result.error = "OwnershipTransitionScopeMismatch"
   /\ ListsResources(document.scope)) =>
    ~(Reach(document.scope) \subseteq Conveyed(Current.scope))
=============================================================================
