------------------------ MODULE OwnershipChainProofs ------------------------
(***************************************************************************)
(* The walk over a chain is correct for every set of transitions, every    *)
(* length limit and every chain.  The invariant says what the cursor       *)
(* knows: everything walked over is linked, and each field of the cursor   *)
(* is that field of the last transition.  One lemma does the work: what    *)
(* the loop compares with the cursor is equivalent to what the declarative *)
(* LinkedPrefix compares with all earlier transitions.                     *)
(***************************************************************************)
EXTENDS OwnershipChain, TLAPS

\* The arguments of a call and the place the walk has come to.
Walk ==
  /\ document \in Documents /\ transitions \in Chains /\ checked_at \in Times
  /\ next \in 1 .. Len(transitions) + 1
  /\ next > 1 => ~TooLong

\* What the cursor remembers is the last transition passed over.
CursorIsLast ==
  /\ cursor.owner = Before(transitions, document.origin, next)
  /\ cursor.seen = {transitions[i].id : i \in 1 .. next - 1}
  /\ cursor.tip = IF next = 1 THEN None ELSE transitions[next - 1].id
  /\ cursor.series = IF next = 1 THEN None ELSE transitions[next - 1].series
  /\ cursor.revision = IF next = 1 THEN None ELSE transitions[next - 1].revision
  /\ cursor.effective_at = IF next = 1 THEN None ELSE transitions[next - 1].effective_at

Linked(n) == LinkedPrefix(transitions, document, checked_at, n)

\* Why a call ended the way it did.
Justified ==
  /\ Accepted => ProvesOwnership(transitions, document, checked_at)
  /\ Rejected =>
       \/ result.error = "LimitExceeded" /\ TooLong
       \/ /\ result.error \in {"MissingOwnershipTransitionChain",
                               "OwnershipTransitionActiveOwnerMismatch"}
          /\ OwnerAfter(transitions, document) # document.active
       \/ /\ result.error \in {"OwnershipTransitionOriginMismatch",
                               "InvalidOwnershipTransitionChain",
                               "OwnershipTransitionScopeMismatch"}
          /\ next \in 1 .. Len(transitions) /\ ~Linked(next)
          /\ (result.error = "OwnershipTransitionOriginMismatch")
               <=> (transitions[next].origin # document.origin)

IInv == Walk /\ CursorIsLast /\ Linked(next - 1) /\ Justified

-----------------------------------------------------------------------------
\* Every element of a chain is a transition the constructors let through.
LEMMA ChainElements ==
  ASSUME Walk, NEW i \in 1 .. Len(transitions)
  PROVE  /\ transitions[i] \in Transitions
         /\ Lineage(transitions[i])
         /\ transitions[i].effective_at \in Int
         /\ transitions[i].revision \in Int
         /\ transitions[i].series # None
  <1>1. transitions \in Seq(Transitions)
    BY RecordsAssumption, ChainsAssumption DEF Walk
  <1>2. transitions[i] \in Transitions
    BY <1>1
  <1>3. Lineage(transitions[i]) /\ transitions[i].effective_at \in Times
    BY <1>2, RecordsAssumption, ChainsAssumption
  <1>4. None \notin SeriesIds /\ Times \subseteq Int
    BY RecordsAssumption, ChainsAssumption
  <1>5. transitions[i].revision \in Int /\ transitions[i].series # None
    BY <1>3, <1>4 DEF Lineage
  <1>6. QED
    BY <1>2, <1>3, <1>4, <1>5

\* A prefix grows by one transition exactly when that one relates to all
\* before it as LinkedPrefix demands.
Joins(i) ==
  /\ transitions[i].origin = document.origin
  /\ transitions[i].predecessor = Before(transitions, document.origin, i)
  /\ transitions[i].supersedes = IF i = 1 THEN None ELSE transitions[i - 1].id
  /\ transitions[i].effective_at <= checked_at
  /\ transitions[i].window # None => Contains(transitions[i].window, checked_at)
  /\ ScopeCovers(document.scope, transitions[i].scope)
  /\ \A j \in 1 .. i - 1 :
       /\ transitions[j].id # transitions[i].id
       /\ transitions[j].series = transitions[i].series
       /\ transitions[j].revision < transitions[i].revision
       /\ transitions[j].effective_at <= transitions[i].effective_at

LEMMA LinkedByElements ==
  \A n \in Int : Linked(n) <=> \A i \in 1 .. n : Joins(i)
  BY DEF Linked, LinkedPrefix, Joins

LEMMA LinkedGrows ==
  ASSUME NEW n \in Nat \ {0}, Linked(n - 1)
  PROVE  Linked(n) <=> Joins(n)
  <1>1. 1 .. n = (1 .. n - 1) \cup {n}
    OBVIOUS
  <1>2. \A i \in 1 .. n - 1 : Joins(i)
    BY LinkedByElements
  <1>3. Linked(n) <=> \A i \in 1 .. n : Joins(i)
    BY LinkedByElements
  <1>4. QED
    BY <1>1, <1>2, <1>3

\* The comparison of the loop body with the cursor is the comparison with
\* the whole prefix: order is transitive along a linked prefix, so that the
\* last transition stands for all of them.
LEMMA CursorSuffices ==
  ASSUME Walk, CursorIsLast, Linked(next - 1), Scanning
  PROVE  (Fits(Current) /\ ScopeCovers(document.scope, Current.scope)) <=> Linked(next)
  <1> DEFINE t == transitions[next]
             p == transitions[next - 1]
  <1>1. next \in 1 .. Len(transitions) /\ Current = t /\ checked_at \in Int
    BY RecordsAssumption, ChainsAssumption DEF Scanning, Current, Walk
  <1>2. /\ Lineage(t) /\ t.effective_at \in Int /\ t.revision \in Int /\ t.series # None
        /\ t.effective_at # None
    BY <1>1, ChainElements, RecordsAssumption, ChainsAssumption
  <1>3. Linked(next) <=> Joins(next)
    BY <1>1, LinkedGrows
  <1>4. CASE next = 1
    <2>1. /\ cursor.owner = Before(transitions, document.origin, 1)
          /\ cursor.seen = {} /\ cursor.series = None /\ cursor.revision = None
          /\ cursor.effective_at = None
      BY <1>4 DEF CursorIsLast
    <2>2. ContinuesLineage(t) <=> t.supersedes = None
      BY <1>2, <2>1 DEF ContinuesLineage, Lineage
    <2>3. QED
      BY <1>1, <1>3, <1>4, <2>1, <2>2 DEF Fits, ContinuesCustody, Joins
  <1>5. CASE next > 1
    <2>1. next - 1 \in 1 .. Len(transitions) /\ next - 1 \in 1 .. next - 1
      BY <1>1, <1>5
    <2>2. /\ p.effective_at \in Int /\ p.revision \in Int /\ p.series # None
          /\ p.effective_at # None /\ p.revision # None
      BY <2>1, ChainElements, RecordsAssumption, ChainsAssumption
    <2>3. /\ cursor.owner = Before(transitions, document.origin, next)
          /\ cursor.seen = {transitions[i].id : i \in 1 .. next - 1}
          /\ cursor.tip = p.id /\ cursor.series = p.series
          /\ cursor.revision = p.revision /\ cursor.effective_at = p.effective_at
      BY <1>5 DEF CursorIsLast
    <2>4. \A j \in 1 .. next - 1 :
            /\ transitions[j].effective_at \in Int /\ transitions[j].revision \in Int
            /\ transitions[j].series = p.series
            /\ transitions[j].revision <= p.revision
            /\ transitions[j].effective_at <= p.effective_at
      <3> TAKE j \in 1 .. next - 1
      <3>1. j \in 1 .. Len(transitions)
        BY <1>1
      <3>2. transitions[j].effective_at \in Int /\ transitions[j].revision \in Int
        BY <3>1, ChainElements
      <3>3. Joins(next - 1)
        BY <2>1, LinkedByElements
      <3>4. CASE j = next - 1
        BY <2>2, <3>4
      <3>5. CASE j \in 1 .. (next - 1) - 1
        BY <3>2, <3>3, <3>5, <2>2 DEF Joins
      <3>6. QED
        BY <1>1, <3>2, <3>4, <3>5
    <2>5. t.id \notin cursor.seen <=> \A j \in 1 .. next - 1 : transitions[j].id # t.id
      BY <2>3
    <2>6. cursor.series \in {None, t.series} <=>
            \A j \in 1 .. next - 1 : transitions[j].series = t.series
      BY <2>1, <2>2, <2>3, <2>4
    <2>7. t.revision > cursor.revision <=>
            \A j \in 1 .. next - 1 : transitions[j].revision < t.revision
      BY <1>2, <2>1, <2>2, <2>3, <2>4
    <2>8. cursor.effective_at <= t.effective_at <=>
            \A j \in 1 .. next - 1 : transitions[j].effective_at <= t.effective_at
      BY <1>2, <2>1, <2>2, <2>3, <2>4
    <2>9. ContinuesLineage(t) <=>
            /\ t.supersedes = p.id
            /\ \A j \in 1 .. next - 1 :
                 /\ transitions[j].id # t.id /\ transitions[j].series = t.series
                 /\ transitions[j].revision < t.revision
      BY <2>2, <2>3, <2>5, <2>6, <2>7 DEF ContinuesLineage
    <2>10. ContinuesCustody(t) <=>
             /\ t.predecessor = Before(transitions, document.origin, next)
             /\ t.effective_at <= checked_at
             /\ t.window # None => Contains(t.window, checked_at)
             /\ \A j \in 1 .. next - 1 : transitions[j].effective_at <= t.effective_at
      BY <2>2, <2>3, <2>8 DEF ContinuesCustody
    <2>11. QED
      BY <1>1, <1>3, <1>5, <2>9, <2>10 DEF Fits, Joins
  <1>6. QED
    BY <1>1, <1>4, <1>5

-----------------------------------------------------------------------------
LEMMA IInvInit == Init => IInv
  <1> SUFFICES ASSUME Init PROVE IInv
    OBVIOUS
  <1>1. transitions \in Seq(Transitions)
    BY RecordsAssumption, ChainsAssumption DEF Init
  <1>2. Walk
    BY <1>1 DEF Init, Walk
  <1>3. CursorIsLast
    BY DEF Init, CursorIsLast, StartOfScan, Before
  <1>4. Linked(next - 1)
    BY DEF Init, Linked, LinkedPrefix
  <1>5. Justified
    BY DEF Init, Justified, Accepted, Rejected
  <1>6. QED
    BY <1>2, <1>3, <1>4, <1>5 DEF IInv

\* A step that returns leaves the walk where it is.
LEMMA ReturnKeepsWalk ==
  ASSUME IInv, NEW r, Return(r), Justified'
  PROVE  IInv'
  BY DEF IInv, Return, arguments, Walk, CursorIsLast, Linked, LinkedPrefix, Before, TooLong

LEMMA AcceptTransitionKeeps ==
  ASSUME IInv, AcceptTransition, result = None
  PROVE  IInv'
  <1> DEFINE t == transitions[next]
  <1>1. /\ Scanning /\ Walk /\ CursorIsLast /\ Linked(next - 1)
        /\ document \in Documents /\ transitions \in Chains /\ checked_at \in Times
        /\ next \in 1 .. Len(transitions) /\ ~TooLong
    BY DEF IInv, Walk, AcceptTransition, Scanning
  <1>2. Linked(next)
    BY <1>1, CursorSuffices DEF AcceptTransition
  <1>3. /\ document' = document /\ transitions' = transitions /\ checked_at' = checked_at
        /\ next' = next + 1 /\ result' = None /\ cursor' = Advance(t)
    BY DEF AcceptTransition, arguments, Current
  <1>4. next' - 1 = next /\ next' # 1 /\ next' \in 1 .. Len(transitions) + 1
    BY <1>1, <1>3
  <1>5. transitions \in Seq(Transitions)
    BY <1>1, RecordsAssumption, ChainsAssumption
  <1>6. Walk'
    BY <1>1, <1>3, <1>4 DEF Walk, TooLong
  <1>7. Linked(next - 1)' 
    BY <1>2, <1>3, <1>4 DEF Linked, LinkedPrefix, Before
  <1>8. CursorIsLast'
    <2>1. cursor.seen \cup {t.id} = {transitions[i].id : i \in 1 .. next}
      <3>1. 1 .. next = (1 .. next - 1) \cup {next}
        BY <1>1
      <3>2. QED
        BY <1>1, <3>1 DEF CursorIsLast
    <2>2. (IF cursor.series = None THEN t.series ELSE cursor.series) = t.series
      BY <1>1 DEF AcceptTransition, Fits, ContinuesLineage, Current
    <2>3. cursor' = [owner |-> t.successor, seen |-> cursor.seen \cup {t.id},
                     series |-> t.series, revision |-> t.revision,
                     effective_at |-> t.effective_at, tip |-> t.id]
      BY <1>3, <2>2 DEF Advance
    <2>4. Before(transitions, document.origin, next + 1) = t.successor
      BY <1>1 DEF Before
    <2>5. QED
      BY <1>1, <1>3, <1>4, <2>1, <2>3, <2>4 DEF CursorIsLast, Before
  <1>9. Justified'
    BY <1>3 DEF Justified, Accepted, Rejected
  <1>10. QED
    BY <1>6, <1>7, <1>8, <1>9 DEF IInv

\* A call that fails at the transition it looks at is right to do so.
LEMMA RejectsUnlinked ==
  ASSUME IInv, RejectOrigin \/ RejectTransition \/ RejectScope
  PROVE  Justified'
  <1> DEFINE t == transitions[next]
  <1>1. /\ Walk /\ CursorIsLast /\ Linked(next - 1) /\ Scanning
        /\ next \in 1 .. Len(transitions) /\ Current = t
    BY DEF IInv, Scanning, RejectOrigin, RejectTransition, RejectScope, Current
  <1>2. UNCHANGED <<document, transitions, checked_at, next, cursor>>
    BY DEF RejectOrigin, RejectTransition, RejectScope, Fail, Return, arguments
  <1>3. ~(Fits(t) /\ ScopeCovers(document.scope, t.scope))
    BY <1>1 DEF RejectOrigin, RejectTransition, RejectScope, Fits
  <1>4. ~Linked(next)
    BY <1>1, <1>3, CursorSuffices
  <1>5. (~Linked(next))' 
    BY <1>2, <1>4 DEF Linked, LinkedPrefix, Before
  <1>6. \/ /\ result' = [error |-> "OwnershipTransitionOriginMismatch"]
           /\ t.origin # document.origin
        \/ /\ result' \in {[error |-> "InvalidOwnershipTransitionChain"],
                           [error |-> "OwnershipTransitionScopeMismatch"]}
           /\ t.origin = document.origin
    BY <1>1 DEF RejectOrigin, RejectTransition, RejectScope, Fits, Fail, Return
  <1>7. /\ "error" \in DOMAIN result'
        /\ result'.error \in {"OwnershipTransitionOriginMismatch",
                              "InvalidOwnershipTransitionChain",
                              "OwnershipTransitionScopeMismatch"}
        /\ (result'.error = "OwnershipTransitionOriginMismatch") <=> (t.origin # document.origin)
    BY <1>6
  <1>8. QED
    BY <1>1, <1>2, <1>5, <1>7 DEF Justified, Accepted, Rejected

\* A call that fails before or after the walk is right to do so.
LEMMA RejectsUnproved ==
  ASSUME IInv, RejectLength \/ RejectMissingChain \/ RejectActiveOwner
  PROVE  Justified'
  <1>1. UNCHANGED <<document, transitions, checked_at, next, cursor>>
    BY DEF RejectLength, RejectMissingChain, RejectActiveOwner, Fail, Return, arguments
  <1>2. transitions \in Seq(Transitions)
    BY RecordsAssumption, ChainsAssumption DEF IInv, Walk
  <1>3. CASE RejectLength
    BY <1>1, <1>3 DEF RejectLength, Fail, Return, Justified, Accepted, Rejected, TooLong
  <1>4. CASE RejectMissingChain
    <2>1. OwnerAfter(transitions, document) # document.active
      BY <1>4 DEF RejectMissingChain, OwnerAfter, Before
    <2>2. QED
      BY <1>1, <1>4, <2>1
         DEF RejectMissingChain, Fail, Return, Justified, Accepted, Rejected, OwnerAfter, Before
  <1>5. CASE RejectActiveOwner
    <2>1. next = Len(transitions) + 1
      BY <1>2, <1>5 DEF RejectActiveOwner, Scanned, IInv, Walk
    <2>2. OwnerAfter(transitions, document) # document.active
      BY <1>5, <2>1 DEF RejectActiveOwner, IInv, CursorIsLast, OwnerAfter
    <2>3. QED
      BY <1>1, <1>5, <2>2
         DEF RejectActiveOwner, Fail, Return, Justified, Accepted, Rejected, OwnerAfter, Before
  <1>6. QED
    BY <1>3, <1>4, <1>5

\* What a call accepts is proved.
LEMMA AcceptsProved ==
  ASSUME IInv, AcceptStaticOwner \/ AcceptChain
  PROVE  Justified'
  <1>1. UNCHANGED <<document, transitions, checked_at, next, cursor>>
    BY DEF AcceptStaticOwner, AcceptChain, Return, arguments
  <1>2. transitions \in Seq(Transitions)
    BY RecordsAssumption, ChainsAssumption DEF IInv, Walk
  <1>3. ~TooLong /\ Linked(Len(transitions)) /\ OwnerAfter(transitions, document) = document.active
    <2>1. CASE AcceptStaticOwner
      BY <2>1 DEF AcceptStaticOwner, Linked, LinkedPrefix, OwnerAfter, Before
    <2>2. CASE AcceptChain
      <3>1. next = Len(transitions) + 1
        BY <1>2, <2>2 DEF AcceptChain, Scanned, IInv, Walk
      <3>2. next - 1 = Len(transitions)
        BY <1>2, <3>1
      <3>3. Linked(next - 1) /\ cursor.owner = Before(transitions, document.origin, next)
        BY DEF IInv, CursorIsLast
      <3>4. ~TooLong /\ cursor.owner = document.active
        BY <2>2 DEF AcceptChain, Scanned
      <3>5. OwnerAfter(transitions, document) = document.active
        BY <3>1, <3>3, <3>4 DEF OwnerAfter
      <3>6. QED
        BY <3>2, <3>3, <3>4, <3>5
    <2>3. QED
      BY <2>1, <2>2
  <1>4. ProvesOwnership(transitions, document, checked_at)
    BY <1>2, <1>3, RecordsAssumption, ChainsAssumption DEF ProvesOwnership, TooLong, Linked
  <1>5. ProvesOwnership(transitions, document, checked_at)'
    BY <1>1, <1>4 DEF ProvesOwnership, LinkedPrefix, OwnerAfter, Before
  <1>6. "error" \notin DOMAIN result'
    BY DEF AcceptStaticOwner, AcceptChain, Return, VerificationRecord
  <1>7. QED
    BY <1>5, <1>6 DEF Justified, Accepted, Rejected

LEMMA IInvNext == IInv /\ [Next]_vars => IInv'
  <1> SUFFICES ASSUME IInv, [Next]_vars PROVE IInv'
    OBVIOUS
  <1>1. CASE AcceptTransition /\ result = None
    BY <1>1, AcceptTransitionKeeps
  <1>2. CASE RejectOrigin \/ RejectTransition \/ RejectScope
    BY <1>2, RejectsUnlinked, ReturnKeepsWalk DEF RejectOrigin, RejectTransition, RejectScope, Fail
  <1>3. CASE RejectLength \/ RejectMissingChain \/ RejectActiveOwner
    BY <1>3, RejectsUnproved, ReturnKeepsWalk DEF RejectLength, RejectMissingChain, RejectActiveOwner, Fail
  <1>4. CASE AcceptStaticOwner \/ AcceptChain
    BY <1>4, AcceptsProved, ReturnKeepsWalk DEF AcceptStaticOwner, AcceptChain
  <1>5. CASE UNCHANGED vars
    <2>1. UNCHANGED <<document, transitions, checked_at, next, cursor, result>>
      BY <1>5 DEF vars
    <2>2. Walk' /\ CursorIsLast' /\ Linked(next - 1)'
      BY <2>1, SMTT(60) DEF IInv, Walk, CursorIsLast, Linked, LinkedPrefix, Before, TooLong
    <2>3. Justified'
      BY <2>1 DEF IInv, Justified, Linked, LinkedPrefix, Before, TooLong,
                  Accepted, Rejected, ProvesOwnership, OwnerAfter
    <2>4. QED
      BY <2>2, <2>3 DEF IInv
  <1>6. QED
    BY <1>1, <1>2, <1>3, <1>4, <1>5 DEF Next

LEMMA IInvAlways == Spec => []IInv
  BY IInvInit, IInvNext, PTL DEF Spec

-----------------------------------------------------------------------------
LEMMA IInvImplies ==
  IInv => /\ CursorIsEndOfLinkedPrefix
          /\ AcceptsExactlyLinkedChains
          /\ ErrorNamesFirstBreak
  <1> SUFFICES ASSUME IInv
               PROVE  CursorIsEndOfLinkedPrefix /\ AcceptsExactlyLinkedChains /\ ErrorNamesFirstBreak
    OBVIOUS
  <1>1. transitions \in Seq(Transitions)
    BY RecordsAssumption, ChainsAssumption DEF IInv, Walk
  <1>2. CursorIsEndOfLinkedPrefix
    BY DEF IInv, CursorIsLast, Linked, CursorIsEndOfLinkedPrefix
  <1>3. ErrorNamesFirstBreak
    BY DEF IInv, Justified, Linked, ErrorNamesFirstBreak
  <1>4. ASSUME next \in 1 .. Len(transitions), ~Linked(next)
        PROVE  ~Linked(Len(transitions))
    <2>1. PICK i \in 1 .. next : ~Joins(i)
      BY <1>4, LinkedByElements
    <2>2. i \in 1 .. Len(transitions)
      BY <1>1, <1>4
    <2>3. Len(transitions) \in Int
      BY <1>1
    <2>4. QED
      BY <2>1, <2>2, <2>3, LinkedByElements
  <1>5. Rejected => ~ProvesOwnership(transitions, document, checked_at)
    BY <1>1, <1>4, RecordsAssumption, ChainsAssumption DEF IInv, Justified, ProvesOwnership, TooLong, Linked
  <1>6. QED
    BY <1>2, <1>3, <1>5 DEF IInv, Justified, AcceptsExactlyLinkedChains

\* At every point of the walk, what it passed over is linked and the cursor
\* is its end.
THEOREM CursorIsCorrect == Spec => []CursorIsEndOfLinkedPrefix
  BY IInvAlways, IInvImplies, PTL

\* The verifier accepts exactly the chains that hand the lineage on from
\* its origin to the declared owner, whatever the source delivers.
THEOREM VerifierIsExact == Spec => []AcceptsExactlyLinkedChains
  BY IInvAlways, IInvImplies, PTL

\* The error returned is that of the first transition that breaks the chain.
THEOREM ErrorIsTheFirst == Spec => []ErrorNamesFirstBreak
  BY IInvAlways, IInvImplies, PTL

\* Coverage of the scope, transition by transition, is coverage of every
\* single resource the document reaches.
LEMMA CoversReach ==
  ASSUME NEW d, NEW s, ScopeCovers(d, s)
  PROVE  Reach(d) \subseteq Conveyed(s)
  <1> SUFFICES ASSUME NEW type \in DOMAIN d, NEW a \in d[type].allow, NEW v \in a.values
               PROVE  <<type, a.kind, v>> \in Conveyed(s)
    BY DEF Reach
  <1>1. type \in DOMAIN s /\ SelectorCovered(a, s[type])
    BY DEF ScopeCovers, ResourceTypeCovered
  <1>2. PICK b \in s[type] : b.kind = a.kind /\ v \in b.values
    BY <1>1 DEF SelectorCovered
  <1>3. QED
    BY <1>1, <1>2 DEF Conveyed

\* No owner in an accepted chain received more than its predecessor gave.
THEOREM ScopeIsConveyed == Spec => []OwnerWasGivenItsScope
  <1>1. IInv => OwnerWasGivenItsScope
    <2> SUFFICES ASSUME IInv, Accepted, NEW i \in DOMAIN transitions
                 PROVE  Reach(document.scope) \subseteq Conveyed(transitions[i].scope)
      BY DEF OwnerWasGivenItsScope
    <2>1. i \in 1 .. Len(transitions)
      BY RecordsAssumption, ChainsAssumption DEF IInv, Walk
    <2>2. ScopeCovers(document.scope, transitions[i].scope)
      BY <2>1 DEF IInv, Justified, ProvesOwnership, LinkedPrefix
    <2>3. QED
      BY <2>2, CoversReach
  <1>2. QED
    BY <1>1, IInvAlways, PTL

\* And conversely: a transition that conveys every resource of a scope that
\* only lists resources covers it.
LEMMA ReachCovers ==
  ASSUME NEW d, NEW s, ListsResources(d), Reach(d) \subseteq Conveyed(s)
  PROVE  ScopeCovers(d, s)
  <1>1. ASSUME NEW type \in DOMAIN d, NEW a \in d[type].allow, NEW v \in a.values
        PROVE  /\ type \in DOMAIN s
               /\ \E b \in s[type] : b.kind = a.kind /\ v \in b.values
    <2>1. <<type, a.kind, v>> \in Conveyed(s)
      BY DEF Reach
    <2>2. QED
      BY <2>1 DEF Conveyed
  <1>2. ASSUME NEW type \in DOMAIN d, NEW a \in d[type].allow
        PROVE  type \in DOMAIN s /\ SelectorCovered(a, s[type])
    BY <1>1 DEF ListsResources, SelectorCovered
  <1>3. ASSUME NEW type \in DOMAIN d
        PROVE  type \in DOMAIN s /\ ResourceTypeCovered(d[type], s[type])
    BY <1>2 DEF ListsResources, ResourceTypeCovered
  <1>4. QED
    BY <1>3 DEF ScopeCovers

\* What a verdict about the scope was made on.
ScopeWasShort ==
  (Rejected /\ result.error = "OwnershipTransitionScopeMismatch") =>
    ~ScopeCovers(document.scope, Current.scope)

LEMMA ScopeWasShortNext == ScopeWasShort /\ [Next]_vars => ScopeWasShort'
  <1> SUFFICES ASSUME ScopeWasShort, [Next]_vars PROVE ScopeWasShort'
    OBVIOUS
  <1>1. CASE UNCHANGED vars
    BY <1>1 DEF vars, arguments, ScopeWasShort, Rejected, Current
  <1>2. CASE AcceptTransition /\ result = None
    BY <1>2 DEF AcceptTransition, ScopeWasShort, Rejected
  <1>3. CASE RejectScope
    BY <1>3 DEF RejectScope, Fail, Return, arguments, ScopeWasShort, Current
  <1>4. CASE \E error \in Errors \ {"OwnershipTransitionScopeMismatch"} : Fail(error)
    BY <1>4 DEF Fail, Return, ScopeWasShort
  <1>5. CASE AcceptStaticOwner \/ AcceptChain
    BY <1>5 DEF AcceptStaticOwner, AcceptChain, Return, VerificationRecord,
                ScopeWasShort, Rejected
  <1>6. QED
    BY <1>1, <1>2, <1>3, <1>4, <1>5 DEF Next, RejectLength, RejectMissingChain,
       RejectOrigin, RejectTransition, RejectActiveOwner, Errors

\* A chain is refused for its scope only where the transition at fault left
\* out a resource that the document lists.
THEOREM ScopeRefusalIsJust == Spec => []ScopeIsRefusedForAResource
  <1>1. Init => ScopeWasShort
    BY DEF Init, ScopeWasShort, Rejected
  <1>2. ScopeWasShort => ScopeIsRefusedForAResource
    BY ReachCovers DEF ScopeWasShort, ScopeIsRefusedForAResource
  <1>3. QED
    BY <1>1, <1>2, ScopeWasShortNext, PTL DEF Spec

-----------------------------------------------------------------------------
(* The types, and the number of steps a call can take.                     *)

\* The verdicts are records of the code's types.
LEMMA VerdictTypes ==
  ASSUME TypeOK, IInv
  PROVE  /\ \A error \in Errors : [error |-> error] \in [error: Errors]
         /\ AcceptStaticOwner => VerificationRecord("StaticOwner") \in Records
         /\ AcceptChain => VerificationRecord("TransitionChain") \in Records
  <1>1. {document.origin, document.active} \subseteq Authorities /\ checked_at \in Times
    BY RecordsAssumption DEF TypeOK
  <1>2. cursor.owner \in Authorities /\ cursor.tip \in TransitionIds \cup {None}
    BY DEF TypeOK, Cursors
  <1>3. QED
    BY <1>1, <1>2 DEF VerificationRecord, Records

LEMMA ReturnTypes ==
  ASSUME TypeOK, NEW r \in [error: Errors] \cup Records, Return(r)
  PROVE  TypeOK'
  <1>1. UNCHANGED <<document, transitions, checked_at, next, cursor>> /\ result' = r
    BY DEF Return, arguments
  <1>2. QED
    BY <1>1 DEF TypeOK, Cursors, Records, Errors

LEMMA TypeOKNext == TypeOK /\ IInv /\ [Next]_vars => TypeOK'
  <1> SUFFICES ASSUME TypeOK, IInv, [Next]_vars PROVE TypeOK'
    OBVIOUS
  <1>1. CASE UNCHANGED vars
    BY <1>1 DEF vars, TypeOK, Cursors, Records, Errors
  <1>2. CASE AcceptTransition
    <2>1. transitions \in Seq(Transitions)
      BY ChainsAssumption DEF TypeOK
    <2>2. next \in 1 .. Len(transitions) /\ Len(transitions) \in Nat
      BY <1>2, <2>1 DEF AcceptTransition, Scanning
    <2>3. /\ Current \in Transitions /\ Lineage(Current) /\ Parties(Current)
          /\ Current.effective_at \in Times
      BY <2>1, <2>2, RecordsAssumption DEF Current
    <2>4. cursor' = Advance(Current) /\ next' = next + 1
          /\ UNCHANGED <<document, transitions, checked_at, result>>
      BY <1>2 DEF AcceptTransition, arguments
    <2>5. Advance(Current) \in Cursors
      BY <2>3 DEF Advance, Cursors, Lineage, Parties, TypeOK
    <2>6. next' \in 1 .. Len(transitions) + 1
      BY <2>2, <2>4
    <2>7. QED
      BY <2>4, <2>5, <2>6 DEF TypeOK, Cursors, Records, Errors
  <1>3. CASE \E error \in Errors : Fail(error)
    BY <1>3, ReturnTypes DEF Fail
  <1>4. CASE AcceptStaticOwner \/ AcceptChain
    BY <1>4, VerdictTypes, ReturnTypes DEF AcceptStaticOwner, AcceptChain
  <1>5. QED
    BY <1>1, <1>2, <1>3, <1>4 DEF Next, RejectLength, RejectMissingChain, RejectOrigin,
       RejectTransition, RejectScope, RejectActiveOwner, Errors

\* The arguments stay as they were passed, and the cursor and the verdict
\* have the types of the local variables and of the result.
THEOREM TypeCorrect == Spec => []TypeOK
  <1>1. Init => TypeOK
    <2> SUFFICES ASSUME Init PROVE TypeOK
      OBVIOUS
    <2>1. transitions \in Seq(Transitions) /\ document.origin \in Authorities
      BY RecordsAssumption, ChainsAssumption DEF Init
    <2>2. next \in 1 .. Len(transitions) + 1
      BY <2>1 DEF Init
    <2>3. cursor \in Cursors
      BY <2>1 DEF Init, StartOfScan, Cursors
    <2>4. QED
      BY <2>2, <2>3 DEF Init, TypeOK
  <1>2. QED
    BY <1>1, TypeOKNext, IInvAlways, PTL DEF Spec

\* The steps a call has left at most: a look at each transition that is left,
\* and the verdict.
Remaining == IF result # None THEN 0 ELSE Len(transitions) + 2 - next

RemainingShrinks == Remaining \in Nat /\ Remaining' \in Nat /\ Remaining' < Remaining

\* Until a call has its result there is a case of the code for where it is:
\* too long a chain, none, a transition to look at, or none left.
LEMMA SomeCaseApplies ==
  ASSUME IInv, result = None
  PROVE  TooLong \/ transitions = <<>> \/ Scanning \/ Scanned
  <1>1. transitions \in Seq(Transitions)
    BY RecordsAssumption, ChainsAssumption DEF IInv, Walk
  <1>2. next \in 1 .. Len(transitions) + 1 /\ Len(transitions) \in Nat
    BY <1>1 DEF IInv, Walk
  <1>3. QED
    BY <1>2 DEF Scanning, Scanned

LEMMA StepsRunOut ==
  ASSUME TypeOK, IInv, Next
  PROVE  RemainingShrinks
  <1>1. transitions \in Seq(Transitions)
    BY ChainsAssumption DEF TypeOK
  <1>2. next \in 1 .. Len(transitions) + 1 /\ Len(transitions) \in Nat /\ result = None
    BY <1>1 DEF TypeOK, Next
  <1>3. Remaining = Len(transitions) + 2 - next
    BY <1>2 DEF Remaining
  <1>4. CASE AcceptTransition
    <2>1. /\ next \in 1 .. Len(transitions)
          /\ next' = next + 1 /\ transitions' = transitions /\ result' = None
      BY <1>2, <1>4 DEF AcceptTransition, Scanning, arguments
    <2>2. Remaining' = Len(transitions) + 2 - (next + 1)
      BY <2>1 DEF Remaining
    <2>3. QED
      BY <1>2, <1>3, <2>1, <2>2 DEF RemainingShrinks
  <1>5. CASE \E r \in [error: Errors] \cup Records : Return(r)
    <2>1. Remaining' = 0
      BY <1>5, ResultsAssumption DEF Return, Remaining
    <2>2. QED
      BY <1>2, <1>3, <2>1 DEF RemainingShrinks
  <1>6. CASE \E error \in Errors : Fail(error)
    BY <1>5, <1>6, VerdictTypes DEF Fail
  <1>7. CASE AcceptStaticOwner \/ AcceptChain
    BY <1>5, <1>7, VerdictTypes DEF AcceptStaticOwner, AcceptChain
  <1>8. QED
    BY <1>4, <1>6, <1>7 DEF Next, RejectLength, RejectMissingChain, RejectOrigin,
       RejectTransition, RejectScope, RejectActiveOwner, Errors

\* Every step of a call uses up one of the steps it had left, so that no call
\* takes more than one step beyond the length of its chain, whatever the
\* source delivered (the loop over the transitions has no way back).
THEOREM CallsRunOut == Spec => [][RemainingShrinks]_vars
  <1>1. TypeOK /\ IInv /\ [Next]_vars => [RemainingShrinks]_vars
    BY StepsRunOut
  <1>2. QED
    BY <1>1, TypeCorrect, IInvAlways, PTL DEF Spec
=============================================================================
