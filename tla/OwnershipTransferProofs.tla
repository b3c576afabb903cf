----------------------- MODULE OwnershipTransferProofs ----------------------
(***************************************************************************)
(* What verifiers conclude from the transitions that circulate is correct  *)
(* for every set of authorities, keys and transitions.  Where the rules    *)
(* were kept, what was signed is one history (Ordered), and no sequence of *)
(* signed transitions that claim to supersede each other is anything but a *)
(* beginning of it (OneHistory).  Both are shown along the behaviour: they *)
(* survive the signing of one more transition, and nothing else can        *)
(* disturb them.                                                           *)
(***************************************************************************)
EXTENDS OwnershipTransfer, SequenceTheorems, TLAPS

\* What has been signed and accepted so far.
Typed ==
  /\ now \in Nat
  /\ proposed \in Seq(Transitions)
  /\ DOMAIN accepted \subseteq Signed
  /\ accepted \in [DOMAIN accepted -> Nat]

\* Place i of a history follows from the place before it, as MayFollow has
\* it, whether or not its acceptance is there already.
Follows(history, i) ==
  /\ history[i].origin = Origin
  /\ i = 1 => history[i].predecessor = Origin /\ history[i].supersedes = None
  /\ i > 1 =>
       /\ history[i].predecessor = history[i - 1].successor
       /\ history[i].supersedes = history[i - 1].id
       /\ history[i].series = history[i - 1].series
       /\ history[i].revision > history[i - 1].revision
       /\ history[i].effective_at >= history[i - 1].effective_at
       /\ \A j \in 1 .. i - 1 : history[j].id # history[i].id

RulesKept(history) == \A i \in 1 .. Len(history) : Follows(history, i)

\* Later places are later in every respect, not only than the one before.
Ordered(history) ==
  \A i \in 1 .. Len(history) : \A j \in 1 .. i - 1 :
    /\ history[j].id # history[i].id
    /\ history[j].series = history[i].series
    /\ history[j].revision < history[i].revision
    /\ history[j].effective_at <= history[i].effective_at

\* A sequence of transitions of a history, each superseding the one before.
Superseding(chain, n, history) ==
  \A i \in 1 .. n :
    /\ \E k \in 1 .. Len(history) : chain[i] = history[k]
    /\ chain[i].supersedes = IF i = 1 THEN None ELSE chain[i - 1].id

BeginningOf(chain, n, history) ==
  n <= Len(history) /\ \A i \in 1 .. n : chain[i] = history[i]

OneHistory(history) ==
  \A n \in Nat : \A chain \in [1 .. n -> Transitions] :
    Superseding(chain, n, history) => BeginningOf(chain, n, history)

HistoryOK == RulesKept(proposed) => Ordered(proposed) /\ OneHistory(proposed)

Inv == Typed /\ HistoryOK

-----------------------------------------------------------------------------
(* The rules, seen from the places of the history.                         *)

LEMMA TransitionFacts ==
  ASSUME NEW t \in Transitions
  PROVE  /\ t.id \in TransitionIds /\ t.id # None
         /\ t.supersedes # t.id
         /\ t.revision = 1 <=> t.supersedes = None
         /\ t.revision \in Nat /\ t.effective_at \in Int
  BY RecordsAssumption DEF RecordsAssumption, Lineage

LEMMA FaithfulKeepsRules ==
  ASSUME Typed, Faithful
  PROVE  RulesKept(proposed)
<1> SUFFICES ASSUME NEW i \in 1 .. Len(proposed) PROVE Follows(proposed, i)
  BY DEF RulesKept
<1> DEFINE earlier == SubSeq(proposed, 1, i - 1)
<1>1. proposed \in Seq(Transitions) /\ Len(proposed) \in Nat
  BY DEF Typed
<1>2. MayFollow(earlier, proposed[i])
  BY <1>1 DEF Faithful
<1>3. \A j \in 1 .. i - 1 : proposed[j] \in Transitions
  BY <1>1
<1>4. /\ earlier \in Seq(Transitions) /\ Len(earlier) = i - 1
      /\ \A j \in 1 .. i - 1 : earlier[j] = proposed[j]
  <2>1. 1 \in Int /\ i - 1 \in Int
    OBVIOUS
  <2>2. /\ SubSeq(proposed, 1, i - 1) \in Seq(Transitions)
        /\ Len(SubSeq(proposed, 1, i - 1)) = IF 1 <= i - 1 THEN (i - 1) - 1 + 1 ELSE 0
        /\ \A j \in 1 .. (i - 1) - 1 + 1 :
             SubSeq(proposed, 1, i - 1)[j] = proposed[1 + j - 1]
    BY <1>3, <2>1, SubSeqProperties
  <2> QED BY <2>2
<1>5. proposed[i] \in Transitions
  BY <1>1
<1>6. CASE i = 1
  <2>1. earlier = <<>>
    BY <1>4, <1>6
  <2> QED BY <1>2, <1>5, <1>6, <2>1, TransitionFacts DEF MayFollow, Follows
<1>7. CASE i > 1
  <2>1. earlier # <<>> /\ earlier[Len(earlier)] = proposed[i - 1]
    BY <1>4, <1>7
  <2>2. DOMAIN earlier = 1 .. i - 1
    BY <1>4
  <2> HIDE DEF earlier
  <2> QED BY <1>2, <1>4, <1>7, <2>1, <2>2 DEF MayFollow, Follows
<1> QED BY <1>6, <1>7

\* A transition appended to an ordered history by the rules keeps it so:
\* it is later than the last one, which is later than all others.
LEMMA AppendingKeepsOrder ==
  ASSUME NEW history \in Seq(Transitions), NEW t \in Transitions,
         RulesKept(Append(history, t)), Ordered(history)
  PROVE  Ordered(Append(history, t))
<1> DEFINE longer == Append(history, t)
           m == Len(history)
<1>1. /\ m \in Nat /\ longer \in Seq(Transitions) /\ Len(longer) = m + 1 /\ longer[m + 1] = t
      /\ \A j \in 1 .. m : longer[j] = history[j]
  OBVIOUS
<1>2. \A j \in 1 .. m + 1 : longer[j].revision \in Nat /\ longer[j].effective_at \in Int
  <2>1. \A j \in 1 .. m + 1 : longer[j] \in Transitions
    BY <1>1
  <2> QED BY <2>1, TransitionFacts
<1>3. Follows(longer, m + 1)
  BY <1>1 DEF RulesKept
<1> SUFFICES ASSUME NEW i \in 1 .. m + 1, NEW j \in 1 .. i - 1
             PROVE  /\ longer[j].id # longer[i].id
                    /\ longer[j].series = longer[i].series
                    /\ longer[j].revision < longer[i].revision
                    /\ longer[j].effective_at <= longer[i].effective_at
  BY <1>1 DEF Ordered
<1> HIDE DEF longer
<1>4. CASE i <= m
  <2>1. i \in 1 .. m /\ j \in 1 .. m
    BY <1>1, <1>4
  <2> QED BY <1>1, <2>1 DEF Ordered
<1>5. CASE i = m + 1 /\ j = m
  BY <1>1, <1>3, <1>5 DEF Follows
<1>6. CASE i = m + 1 /\ j < m
  <2>1. m \in 1 .. m /\ j \in 1 .. m - 1 /\ j \in 1 .. m
    BY <1>1, <1>6
  <2>2. /\ longer[j].series = longer[m].series
        /\ longer[j].revision < longer[m].revision
        /\ longer[j].effective_at <= longer[m].effective_at
    BY <1>1, <2>1 DEF Ordered
  <2>3. /\ longer[m].series = longer[i].series
        /\ longer[m].revision < longer[i].revision
        /\ longer[m].effective_at <= longer[i].effective_at
        /\ longer[j].id # longer[i].id
    BY <1>1, <1>3, <1>6 DEF Follows
  <2> QED BY <1>1, <1>2, <1>6, <2>1, <2>2, <2>3
<1> QED BY <1>1, <1>4, <1>5, <1>6

\* Nothing in an ordered history supersedes its last transition, so that a
\* sequence has it in the last place or not at all.
LEMMA AppendingKeepsOneHistory ==
  ASSUME NEW history \in Seq(Transitions), NEW t \in Transitions,
         RulesKept(Append(history, t)), Ordered(Append(history, t)), OneHistory(history)
  PROVE  OneHistory(Append(history, t))
<1> DEFINE longer == Append(history, t)
           m == Len(history)
<1>1. /\ m \in Nat /\ longer \in Seq(Transitions) /\ Len(longer) = m + 1 /\ longer[m + 1] = t
      /\ \A j \in 1 .. m : longer[j] = history[j]
  OBVIOUS
<1>2. /\ \A j \in 1 .. m + 1 : longer[j] \in Transitions
      /\ \A j \in 1 .. m + 1 : longer[j].id # None
  <2>1. \A j \in 1 .. m + 1 : longer[j] \in Transitions
    BY <1>1
  <2> QED BY <2>1, TransitionFacts
<1>3. \A k \in 1 .. m + 1 : Follows(longer, k)
  BY <1>1 DEF RulesKept
<1>4. \A k \in 1 .. m : longer[k].id # t.id
  BY <1>1 DEF Ordered
<1>5. \A k \in 1 .. m + 1 : longer[k].supersedes # t.id
  <2> SUFFICES ASSUME NEW k \in 1 .. m + 1 PROVE longer[k].supersedes # t.id
    OBVIOUS
  <2>1. CASE k = 1
    BY <1>1, <1>2, <1>3, <2>1 DEF Follows
  <2>2. CASE k > 1
    BY <1>1, <1>3, <1>4, <2>2 DEF Follows
  <2> QED BY <1>1, <2>1, <2>2
<1> SUFFICES ASSUME NEW n \in Nat, NEW chain \in [1 .. n -> Transitions],
                    Superseding(chain, n, longer)
             PROVE  BeginningOf(chain, n, longer)
  BY DEF OneHistory
<1> HIDE DEF longer
<1>6. \A i \in 1 .. n : i < n => chain[i] # t
  <2> SUFFICES ASSUME NEW i \in 1 .. n, i < n, chain[i] = t PROVE FALSE
    OBVIOUS
  <2>1. i + 1 \in 1 .. n /\ i + 1 # 1 /\ (i + 1) - 1 = i
    OBVIOUS
  <2>2. chain[i + 1].supersedes = t.id
    BY <2>1 DEF Superseding
  <2>3. PICK k \in 1 .. m + 1 : chain[i + 1] = longer[k]
    BY <1>1, <2>1 DEF Superseding
  <2> QED BY <1>5, <2>2, <2>3
<1>7. \A i \in 1 .. n : chain[i] # t => \E k \in 1 .. m : chain[i] = history[k]
  <2> SUFFICES ASSUME NEW i \in 1 .. n, chain[i] # t
               PROVE  \E k \in 1 .. m : chain[i] = history[k]
    OBVIOUS
  <2>1. PICK k \in 1 .. m + 1 : chain[i] = longer[k]
    BY <1>1 DEF Superseding
  <2>2. k \in 1 .. m
    BY <1>1, <2>1
  <2> QED BY <1>1, <2>1, <2>2
<1>8. CASE \A i \in 1 .. n : chain[i] # t
  <2>1. Superseding(chain, n, history)
    BY <1>7, <1>8 DEF Superseding
  <2>2. BeginningOf(chain, n, history)
    BY <2>1 DEF OneHistory
  <2> QED BY <1>1, <2>2 DEF BeginningOf
<1>9. CASE n > 0 /\ chain[n] = t
  <2> DEFINE shorter == [i \in 1 .. n - 1 |-> chain[i]]
  <2>1. n - 1 \in Nat /\ shorter \in [1 .. n - 1 -> Transitions]
    BY <1>9
  <2>2. Superseding(shorter, n - 1, history)
    <3> SUFFICES ASSUME NEW i \in 1 .. n - 1
                 PROVE  /\ \E k \in 1 .. Len(history) : shorter[i] = history[k]
                        /\ shorter[i].supersedes = IF i = 1 THEN None ELSE shorter[i - 1].id
      BY DEF Superseding
    <3>1. i \in 1 .. n /\ i < n /\ shorter[i] = chain[i]
      BY <1>9
    <3>2. i # 1 => i - 1 \in 1 .. n - 1 /\ shorter[i - 1] = chain[i - 1]
      BY <1>9
    <3>3. \E k \in 1 .. m : chain[i] = history[k]
      BY <1>6, <1>7, <3>1
    <3>4. chain[i].supersedes = IF i = 1 THEN None ELSE chain[i - 1].id
      BY <3>1 DEF Superseding
    <3> HIDE DEF shorter
    <3> QED BY <3>1, <3>2, <3>3, <3>4
  <2>3. BeginningOf(shorter, n - 1, history)
    BY <2>1, <2>2 DEF OneHistory
  <2>4. n - 1 <= m /\ \A i \in 1 .. n - 1 : chain[i] = longer[i]
    BY <1>1, <1>9, <2>3 DEF BeginningOf
  <2>5. n = m + 1
    <3>1. CASE n = 1
      <4>1. t.supersedes = None
        BY <1>9, <3>1 DEF Superseding
      <4>2. CASE m = 0
        BY <3>1, <4>2
      <4>3. CASE m > 0
        <5>1. t.supersedes = longer[m].id
          BY <1>1, <1>3, <4>3 DEF Follows
        <5>2. m \in 1 .. m + 1
          BY <1>1, <4>3
        <5> QED BY <1>2, <4>1, <5>1, <5>2
      <4> QED BY <1>1, <4>2, <4>3
    <3>2. CASE n > 1
      <4>1. n - 1 \in 1 .. m
        BY <1>1, <2>4, <3>2
      <4>2. t.supersedes = longer[n - 1].id
        BY <1>9, <2>4, <3>2 DEF Superseding
      <4>3. t.supersedes = longer[m].id
        BY <1>1, <1>3, <4>1 DEF Follows
      <4>4. CASE n - 1 < m
        <5>1. m \in 1 .. Len(longer) /\ n - 1 \in 1 .. m - 1
          BY <1>1, <4>1, <4>4
        <5>2. longer[n - 1].id # longer[m].id
          BY <5>1 DEF Ordered, longer
        <5> QED BY <4>2, <4>3, <5>2
      <4> QED BY <1>1, <4>1, <4>4
    <3> QED BY <1>9, <3>1, <3>2
  <2> QED BY <1>1, <1>9, <2>4, <2>5 DEF BeginningOf
<1>10. CASE \E i \in 1 .. n : chain[i] = t
  <2>1. PICK i \in 1 .. n : chain[i] = t
    BY <1>10
  <2>2. i = n /\ n > 0
    BY <1>6, <2>1
  <2> QED BY <1>9, <2>1, <2>2
<1> QED BY <1>8, <1>10

-----------------------------------------------------------------------------
(* The invariant.                                                          *)

LEMMA ProposingKeepsTypes ==
  ASSUME Inv, NEW t \in Transitions, Propose(t)
  PROVE  Typed' /\ Signed' = Signed \cup {t}
<1>1. /\ proposed \in Seq(Transitions) /\ proposed' = Append(proposed, t)
      /\ UNCHANGED <<now, accepted>>
  BY DEF Inv, Typed, Propose
<1>2. /\ proposed' \in Seq(Transitions) /\ Len(proposed) \in Nat
      /\ DOMAIN proposed = 1 .. Len(proposed) /\ DOMAIN proposed' = 1 .. Len(proposed) + 1
      /\ proposed'[Len(proposed) + 1] = t
      /\ \A i \in 1 .. Len(proposed) : proposed'[i] = proposed[i]
  BY <1>1
<1>3. Signed' = Signed \cup {t}
  BY <1>2 DEF Signed
<1> QED BY <1>1, <1>2, <1>3 DEF Inv, Typed

LEMMA ProposingKeepsHistory ==
  ASSUME Inv, NEW t \in Transitions, Propose(t)
  PROVE  HistoryOK'
<1>1. proposed \in Seq(Transitions) /\ proposed' = Append(proposed, t)
  BY DEF Inv, Typed, Propose
<1> SUFFICES ASSUME RulesKept(Append(proposed, t))
             PROVE  Ordered(Append(proposed, t)) /\ OneHistory(Append(proposed, t))
  BY <1>1 DEF HistoryOK
<1>2. RulesKept(proposed)
  <2> SUFFICES ASSUME NEW i \in 1 .. Len(proposed) PROVE Follows(proposed, i)
    BY DEF RulesKept
  <2>1. i \in 1 .. Len(Append(proposed, t))
    BY <1>1
  <2>2. Follows(Append(proposed, t), i)
    BY <2>1 DEF RulesKept
  <2>3. \A j \in 1 .. Len(proposed) : Append(proposed, t)[j] = proposed[j]
    BY <1>1
  <2> QED BY <1>1, <2>2, <2>3 DEF Follows
<1>3. Ordered(proposed) /\ OneHistory(proposed)
  BY <1>2 DEF Inv, HistoryOK
<1>4. Ordered(Append(proposed, t))
  BY <1>1, <1>3, AppendingKeepsOrder
<1> QED BY <1>1, <1>3, <1>4, AppendingKeepsOneHistory

LEMMA InvHolds == Spec => []Inv
<1> USE TransferAssumption DEF TransferAssumption
<1>1. Init => Inv
  <2> SUFFICES ASSUME Init PROVE Inv
    OBVIOUS
  <2>1. Typed
    BY DEF Init, Typed, Signed
  <2>2. Ordered(<<>>) /\ OneHistory(<<>>)
    BY DEF Ordered, OneHistory, Superseding, BeginningOf
  <2> QED BY <2>1, <2>2 DEF Init, Inv, HistoryOK
<1>2. Inv /\ [Next]_vars => Inv'
  <2> SUFFICES ASSUME Inv, [Next]_vars PROVE Inv'
    OBVIOUS
  <2>1. CASE Tick
    BY <2>1 DEF Tick, Inv, Typed, HistoryOK, Signed
  <2>2. ASSUME NEW t \in Transitions, Propose(t) PROVE Inv'
    BY <2>2, ProposingKeepsTypes, ProposingKeepsHistory DEF Inv
  <2>3. ASSUME NEW t \in Signed, NEW at \in now .. now + MaxSkew, Accept(t, at) PROVE Inv'
    <3>1. at \in Nat
      BY DEF Inv, Typed
    <3>2. Typed'
      BY <2>3, <3>1 DEF Accept, Inv, Typed, Signed
    <3> QED BY <2>3, <3>2 DEF Accept, Inv, HistoryOK
  <2>4. CASE UNCHANGED vars
    BY <2>4 DEF vars, Inv, Typed, HistoryOK, Signed
  <2> QED BY <2>1, <2>2, <2>3, <2>4 DEF Next
<1> QED BY <1>1, <1>2, PTL DEF Spec

-----------------------------------------------------------------------------
(* What verifiers see.                                                     *)

LEMMA OfferedChains ==
  ASSUME NEW chain \in Offers
  PROVE  /\ Len(chain) \in Nat /\ chain \in [1 .. Len(chain) -> Transitions]
         /\ DOMAIN chain = 1 .. Len(chain) /\ chain \in Seq(Transitions)
<1>1. PICK n \in 0 .. MaxSigned : chain \in [1 .. n -> Transitions]
  BY DEF Offers
<1>2. n \in Nat
  BY TransferAssumption DEF TransferAssumption
<1>3. chain \in Seq(Transitions)
  BY <1>1, <1>2
<1>4. Len(chain) = n
  BY <1>1, <1>2, <1>3
<1> QED BY <1>1, <1>2, <1>3, <1>4

LEMMA VerifyingIsSuperseding ==
  ASSUME Typed, NEW chain \in Verifying(now)
  PROVE  chain \in Offers /\ Superseding(chain, Len(chain), proposed)
<1>1. PICK doc \in Documents : OwnershipVerifies(chain, doc, now)
  BY DEF Verifying
<1>2. chain \in Offers
  BY DEF Verifying
<1>3. DOMAIN chain = 1 .. Len(chain) /\ DOMAIN proposed = 1 .. Len(proposed)
  BY <1>2, OfferedChains DEF Typed
<1>4. \A i \in 1 .. Len(chain) : chain[i] \in Signed
  BY <1>1, <1>3 DEF OwnershipVerifies, TransitionVerifies
<1>5. \A i \in 1 .. Len(chain) :
        chain[i].supersedes = IF i = 1 THEN None ELSE chain[i - 1].id
  BY <1>1 DEF OwnershipVerifies, ProvesOwnership, LinkedPrefix
<1> QED BY <1>2, <1>3, <1>4, <1>5 DEF Superseding, Signed

\* Whatever is offered to verifiers, of two chains that verify one
\* continues the other, for any number of authorities and transitions.
THEOREM ChainsAgree == Spec => []VerifyingChainsAgree
<1>1. Inv => VerifyingChainsAgree
  <2> SUFFICES ASSUME Inv, Faithful, NEW c \in Verifying(now), NEW d \in Verifying(now)
               PROVE  Seqs!IsPrefix(c, d) \/ Seqs!IsPrefix(d, c)
    BY DEF VerifyingChainsAgree
  <2>1. OneHistory(proposed)
    BY FaithfulKeepsRules DEF Inv, HistoryOK
  <2>2. /\ c \in Seq(Transitions) /\ d \in Seq(Transitions)
        /\ Len(c) \in Nat /\ Len(d) \in Nat
        /\ BeginningOf(c, Len(c), proposed) /\ BeginningOf(d, Len(d), proposed)
    BY <2>1, VerifyingIsSuperseding, OfferedChains DEF Inv, OneHistory
  <2>3. ASSUME NEW a \in Seq(Transitions), NEW b \in Seq(Transitions), Len(a) <= Len(b),
               BeginningOf(a, Len(a), proposed), BeginningOf(b, Len(b), proposed)
        PROVE  Seqs!IsPrefix(a, b)
    <3>1. \A i \in 1 .. Len(a) : a[i] = b[i]
      BY <2>3 DEF BeginningOf
    <3>2. SubSeq(a, 1, Len(a)) = SubSeq(b, 1, Len(a))
      BY <2>3, <3>1
    <3> QED BY <2>3, <3>2 DEF Seqs!IsPrefix
  <2> QED BY <2>2, <2>3
<1> QED BY <1>1, InvHolds, PTL

\* A lineage whose transfers are all accepted and in effect is provable by
\* its new owner: the verifier refuses nothing that the rules permit.
THEOREM SettledTransfersVerify == Spec => []SettledTransferVerifies
<1>1. Inv => SettledTransferVerifies
  <2> SUFFICES
        ASSUME Inv, Faithful, Len(proposed) <= MaxChainLength,
               \A t \in Signed :
                 /\ t \in DOMAIN accepted /\ accepted[t] <= now
                 /\ t.effective_at <= now
                 /\ t.window # None => Contains(t.window, now)
                 /\ now \in KeyActive[t.predecessor] \cap KeyActive[t.successor],
               NEW doc \in Documents,
               doc.origin = Origin,
               doc.active = Before(proposed, Origin, Len(proposed) + 1),
               \A t \in Signed : ScopeCovers(doc.scope, t.scope)
        PROVE  OwnershipVerifies(proposed, doc, now)
    BY DEF SettledTransferVerifies
  <2>1. DOMAIN proposed = 1 .. Len(proposed) /\ Len(proposed) \in Nat
    BY DEF Inv, Typed
  <2>2. \A i \in 1 .. Len(proposed) : proposed[i] \in Signed
    BY <2>1 DEF Signed
  <2>3. RulesKept(proposed) /\ Ordered(proposed)
    BY FaithfulKeepsRules DEF Inv, HistoryOK
  <2>4. \A i \in DOMAIN proposed : TransitionVerifies(proposed[i], now)
    BY <2>1, <2>2 DEF TransitionVerifies, SignerKeyActive, AcceptanceVerifies
  <2>5. LinkedPrefix(proposed, doc, now, Len(proposed))
    <3> SUFFICES
          ASSUME NEW i \in 1 .. Len(proposed)
          PROVE  /\ proposed[i].origin = doc.origin
                 /\ proposed[i].predecessor = Before(proposed, doc.origin, i)
                 /\ proposed[i].supersedes = IF i = 1 THEN None ELSE proposed[i - 1].id
                 /\ proposed[i].effective_at <= now
                 /\ proposed[i].window # None => Contains(proposed[i].window, now)
                 /\ ScopeCovers(doc.scope, proposed[i].scope)
                 /\ \A j \in 1 .. i - 1 :
                      /\ proposed[j].id # proposed[i].id
                      /\ proposed[j].series = proposed[i].series
                      /\ proposed[j].revision < proposed[i].revision
                      /\ proposed[j].effective_at <= proposed[i].effective_at
      BY DEF LinkedPrefix
    <3>1. Follows(proposed, i)
      BY <2>3 DEF RulesKept
    <3>2. /\ proposed[i].predecessor = Before(proposed, doc.origin, i)
          /\ proposed[i].supersedes = IF i = 1 THEN None ELSE proposed[i - 1].id
      BY <2>1, <3>1 DEF Follows, Before
    <3> QED BY <2>2, <2>3, <3>1, <3>2 DEF Follows, Ordered
  <2>6. OwnerAfter(proposed, doc) = doc.active
    BY DEF OwnerAfter
  <2> QED BY <2>4, <2>5, <2>6 DEF OwnershipVerifies, ProvesOwnership
<1> QED BY <1>1, InvHolds, PTL

\* Who is proved to own a lineage consented to it: the last transition of
\* the chain hands it to the owner, who accepted it by now.
THEOREM OwnersHaveConsented == Spec => []OwnersConsented
<1>1. Inv => OwnersConsented
  <2> SUFFICES ASSUME Inv, NEW chain \in Offers \ {<<>>}, NEW doc \in Documents,
                      OwnershipVerifies(chain, doc, now)
               PROVE  \E i \in DOMAIN proposed :
                        /\ proposed[i].successor = doc.active
                        /\ proposed[i] \in DOMAIN accepted /\ accepted[proposed[i]] <= now
    BY DEF OwnersConsented
  <2> DEFINE n == Len(chain)
  <2>1. n \in Nat \ {0} /\ DOMAIN chain = 1 .. n
    BY OfferedChains
  <2>2. TransitionVerifies(chain[n], now)
    BY <2>1 DEF OwnershipVerifies
  <2>3. chain[n].successor = doc.active
    BY <2>1 DEF OwnershipVerifies, ProvesOwnership, OwnerAfter, Before
  <2> QED BY <2>2, <2>3 DEF TransitionVerifies, AcceptanceVerifies, Signed
<1> QED BY <1>1, InvHolds, PTL

\* A proof of ownership, once good, stays good whatever is signed or
\* accepted later and however late it is shown again, as long as the
\* windows are open and the keys in force.
THEOREM ProofsStand == Spec => ProofsEndure
<1>1. Inv /\ [Next]_vars =>
        [\A chain \in Verifying(now) : \A doc \in Documents :
           (/\ OwnershipVerifies(chain, doc, now)
            /\ \A i \in DOMAIN chain :
                 /\ chain[i].window # None => Contains(chain[i].window, now')
                 /\ now' \in KeyActive[chain[i].predecessor] \cap KeyActive[chain[i].successor]) =>
           OwnershipVerifies(chain, doc, now)']_vars
  <2> SUFFICES
        ASSUME Inv, Next, NEW chain \in Verifying(now), NEW doc \in Documents,
               OwnershipVerifies(chain, doc, now),
               \A i \in DOMAIN chain :
                 /\ chain[i].window # None => Contains(chain[i].window, now')
                 /\ now' \in KeyActive[chain[i].predecessor] \cap KeyActive[chain[i].successor]
        PROVE  OwnershipVerifies(chain, doc, now)'
    OBVIOUS
  <2>1. /\ now \in Nat /\ now' \in Nat /\ now <= now'
        /\ Signed \subseteq Signed'
        /\ DOMAIN accepted \subseteq DOMAIN accepted'
        /\ \A t \in DOMAIN accepted : accepted'[t] = accepted[t] /\ accepted[t] \in Nat
    <3>1. CASE Tick
      BY <3>1 DEF Tick, Inv, Typed, Signed
    <3>2. ASSUME NEW t \in Transitions, Propose(t)
          PROVE  UNCHANGED <<now, accepted>> /\ Signed \subseteq Signed'
      BY <3>2, ProposingKeepsTypes DEF Propose
    <3>3. ASSUME NEW t \in Signed, NEW at \in now .. now + MaxSkew, Accept(t, at)
          PROVE  /\ UNCHANGED now /\ Signed \subseteq Signed'
                 /\ DOMAIN accepted \subseteq DOMAIN accepted'
                 /\ \A u \in DOMAIN accepted : accepted'[u] = accepted[u]
      BY <3>3 DEF Accept, Signed
    <3> QED BY <3>1, <3>2, <3>3 DEF Next, Inv, Typed
  <2>2. chain \in Offers /\ DOMAIN chain = 1 .. Len(chain)
    BY OfferedChains DEF Verifying
  <2>3. \A i \in DOMAIN chain : TransitionVerifies(chain[i], now)'
    BY <2>1 DEF OwnershipVerifies, TransitionVerifies, AcceptanceVerifies, SignerKeyActive
  <2>4. \A i \in 1 .. Len(chain) : chain[i].effective_at <= now'
    <3> SUFFICES ASSUME NEW i \in 1 .. Len(chain) PROVE chain[i].effective_at <= now'
      OBVIOUS
    <3>1. chain[i].effective_at <= now
      BY DEF OwnershipVerifies, ProvesOwnership, LinkedPrefix
    <3>2. chain[i].effective_at \in Int
      BY <2>2, OfferedChains, TransitionFacts
    <3> QED BY <2>1, <3>1, <3>2
  <2>5. LinkedPrefix(chain, doc, now', Len(chain))
    BY <2>2, <2>4 DEF OwnershipVerifies, ProvesOwnership, LinkedPrefix
  <2> QED BY <2>3, <2>5 DEF OwnershipVerifies, ProvesOwnership
<1> QED BY <1>1, InvHolds, PTL DEF Spec, ProofsEndure
=============================================================================
