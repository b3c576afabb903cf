--------------------------- MODULE DocumentsProofs --------------------------
(***************************************************************************)
(* What the signatures on a document are worth, and what a document that   *)
(* was accepted can be relied on to look like: for all documents, texts,   *)
(* limits and alterations.                                                 *)
(***************************************************************************)
EXTENDS GrantDocuments, TransitionDocuments, SelectorExpressions, FiniteSetTheorems,
        FunctionTheorems, SequenceTheorems, WellFoundedInduction, TLAPS

HIDE ExpressionsAssumption

-----------------------------------------------------------------------------
(* Numbers.                                                                *)

LEMMA LeastElement ==
  ASSUME NEW S \in SUBSET Nat, S # {}
  PROVE  \E i \in S : \A j \in S : i <= j
<1> DEFINE R == {s \in Nat \X Nat : s[1] < s[2]}
<1>1. IsWellFoundedOn(R, Nat)
  BY NatLessThanWellFounded DEF OpToRel
<1>2. S \subseteq Nat
  OBVIOUS
<1>3. \A x \in S, y \in S : <<y, x>> \notin R => x <= y
  OBVIOUS
<1> HIDE DEF R
<1>4. \E x \in S : \A y \in S : ~ (<<y, x>> \in R)
  BY <1>1, <1>2, WFMin
<1> QED BY <1>3, <1>4

LEMMA GreatestElement ==
  ASSUME NEW S, NEW n \in Nat, S \subseteq 1 .. n, S # {}
  PROVE  \E i \in S : \A j \in S : j <= i
<1> DEFINE T == {k \in Nat : \E i \in S : k = n - i}
<1>1. PICK i \in S : TRUE
  OBVIOUS
<1>2. n - i \in T /\ T \in SUBSET Nat
  BY <1>1
<1> HIDE DEF T
<1>3. PICK k \in T : \A l \in T : k <= l
  BY <1>2, LeastElement
<1>4. PICK m \in S : k = n - m
  BY <1>3 DEF T
<1>5. ASSUME NEW j \in S
      PROVE  j <= m
  <2>1. n - j \in T
    BY DEF T
  <2>2. n - m <= n - j
    BY <1>3, <1>4, <2>1
  <2> QED BY <2>2
<1> QED BY <1>5

-----------------------------------------------------------------------------
(* The first error of several.                                             *)

LEMMA FirstErrorOk ==
  ASSUME NEW results, DOMAIN results \in SUBSET Nat
  PROVE  FirstError(results) = "Ok" <=> \A i \in DOMAIN results : results[i] = "Ok"
<1> DEFINE bad == {j \in DOMAIN results : results[j] # "Ok"}
<1>1. CASE bad = {}
  BY <1>1 DEF FirstError
<1>2. CASE bad # {}
  <2>1. \E n \in bad : \A j \in bad : n <= j
    <3>1. bad \in SUBSET Nat
      OBVIOUS
    <3> HIDE DEF bad
    <3> QED BY <1>2, <3>1, LeastElement
  <2>2. FirstError(results) = results[CHOOSE n \in bad : \A j \in bad : n <= j]
    BY <1>2 DEF FirstError
  <2>3. (CHOOSE n \in bad : \A j \in bad : n <= j) \in bad
    BY <2>1
  <2> QED BY <2>2, <2>3
<1> QED BY <1>1, <1>2

LEMMA FirstOf2 ==
  \A a, b :
    FirstError(<<a, b>>) = "Ok"
      <=> a = "Ok" /\ b = "Ok"
<1> SUFFICES ASSUME NEW a, NEW b
             PROVE  FirstError(<<a, b>>) = "Ok"
                      <=> a = "Ok" /\ b = "Ok"
  OBVIOUS
<1> DEFINE r == <<a, b>>
<1>1. /\ DOMAIN r = 1 .. 2 /\ 1 .. 2 = {1, 2}
      /\ r[1] = a /\ r[2] = b
  OBVIOUS
<1> HIDE DEF r
<1>2. FirstError(r) = "Ok" <=> \A i \in 1 .. 2 : r[i] = "Ok"
  BY <1>1, FirstErrorOk
<1>3. FirstError(r) = "Ok"
        <=> a = "Ok" /\ b = "Ok"
  BY <1>1, <1>2
<1> QED BY <1>3 DEF r

LEMMA FirstOf3 ==
  \A a, b, c :
    FirstError(<<a, b, c>>) = "Ok"
      <=> a = "Ok" /\ b = "Ok" /\ c = "Ok"
<1> SUFFICES ASSUME NEW a, NEW b, NEW c
             PROVE  FirstError(<<a, b, c>>) = "Ok"
                      <=> a = "Ok" /\ b = "Ok" /\ c = "Ok"
  OBVIOUS
<1> DEFINE r == <<a, b, c>>
<1>1. /\ DOMAIN r = 1 .. 3 /\ 1 .. 3 = {1, 2, 3}
      /\ r[1] = a /\ r[2] = b /\ r[3] = c
  OBVIOUS
<1> HIDE DEF r
<1>2. FirstError(r) = "Ok" <=> \A i \in 1 .. 3 : r[i] = "Ok"
  BY <1>1, FirstErrorOk
<1>3. FirstError(r) = "Ok"
        <=> a = "Ok" /\ b = "Ok" /\ c = "Ok"
  BY <1>1, <1>2
<1> QED BY <1>3 DEF r

LEMMA FirstOf4 ==
  \A a, b, c, d :
    FirstError(<<a, b, c, d>>) = "Ok"
      <=> a = "Ok" /\ b = "Ok" /\ c = "Ok" /\ d = "Ok"
<1> SUFFICES ASSUME NEW a, NEW b, NEW c, NEW d
             PROVE  FirstError(<<a, b, c, d>>) = "Ok"
                      <=> a = "Ok" /\ b = "Ok" /\ c = "Ok" /\ d = "Ok"
  OBVIOUS
<1> DEFINE r == <<a, b, c, d>>
<1>1. /\ DOMAIN r = 1 .. 4 /\ 1 .. 4 = {1, 2, 3, 4}
      /\ r[1] = a /\ r[2] = b /\ r[3] = c /\ r[4] = d
  OBVIOUS
<1> HIDE DEF r
<1>2. FirstError(r) = "Ok" <=> \A i \in 1 .. 4 : r[i] = "Ok"
  BY <1>1, FirstErrorOk
<1>3. FirstError(r) = "Ok"
        <=> a = "Ok" /\ b = "Ok" /\ c = "Ok" /\ d = "Ok"
  BY <1>1, <1>2
<1> QED BY <1>3 DEF r

LEMMA FirstOf5 ==
  \A a, b, c, d, e :
    FirstError(<<a, b, c, d, e>>) = "Ok"
      <=> a = "Ok" /\ b = "Ok" /\ c = "Ok" /\ d = "Ok" /\ e = "Ok"
<1> SUFFICES ASSUME NEW a, NEW b, NEW c, NEW d, NEW e
             PROVE  FirstError(<<a, b, c, d, e>>) = "Ok"
                      <=> a = "Ok" /\ b = "Ok" /\ c = "Ok" /\ d = "Ok" /\ e = "Ok"
  OBVIOUS
<1> DEFINE r == <<a, b, c, d, e>>
<1>1. /\ DOMAIN r = 1 .. 5 /\ 1 .. 5 = {1, 2, 3, 4, 5}
      /\ r[1] = a /\ r[2] = b /\ r[3] = c /\ r[4] = d /\ r[5] = e
  OBVIOUS
<1> HIDE DEF r
<1>2. FirstError(r) = "Ok" <=> \A i \in 1 .. 5 : r[i] = "Ok"
  BY <1>1, FirstErrorOk
<1>3. FirstError(r) = "Ok"
        <=> a = "Ok" /\ b = "Ok" /\ c = "Ok" /\ d = "Ok" /\ e = "Ok"
  BY <1>1, <1>2
<1> QED BY <1>3 DEF r

LEMMA FirstOf6 ==
  \A a, b, c, d, e, f :
    FirstError(<<a, b, c, d, e, f>>) = "Ok"
      <=> a = "Ok" /\ b = "Ok" /\ c = "Ok" /\ d = "Ok" /\ e = "Ok" /\ f = "Ok"
<1> SUFFICES ASSUME NEW a, NEW b, NEW c, NEW d, NEW e, NEW f
             PROVE  FirstError(<<a, b, c, d, e, f>>) = "Ok"
                      <=> a = "Ok" /\ b = "Ok" /\ c = "Ok" /\ d = "Ok" /\ e = "Ok"
                          /\ f = "Ok"
  OBVIOUS
<1> DEFINE r == <<a, b, c, d, e, f>>
<1>1. /\ DOMAIN r = 1 .. 6 /\ 1 .. 6 = {1, 2, 3, 4, 5, 6}
      /\ r[1] = a /\ r[2] = b /\ r[3] = c /\ r[4] = d /\ r[5] = e /\ r[6] = f
  OBVIOUS
<1> HIDE DEF r
<1>2. FirstError(r) = "Ok" <=> \A i \in 1 .. 6 : r[i] = "Ok"
  BY <1>1, FirstErrorOk
<1>3. FirstError(r) = "Ok"
        <=> a = "Ok" /\ b = "Ok" /\ c = "Ok" /\ d = "Ok" /\ e = "Ok" /\ f = "Ok"
  BY <1>1, <1>2
<1> QED BY <1>3 DEF r

LEMMA FirstOf7 ==
  \A a, b, c, d, e, f, g :
    FirstError(<<a, b, c, d, e, f, g>>) = "Ok"
      <=> a = "Ok" /\ b = "Ok" /\ c = "Ok" /\ d = "Ok" /\ e = "Ok" /\ f = "Ok" /\ g = "Ok"
<1> SUFFICES ASSUME NEW a, NEW b, NEW c, NEW d, NEW e, NEW f, NEW g
             PROVE  FirstError(<<a, b, c, d, e, f, g>>) = "Ok"
                      <=> a = "Ok" /\ b = "Ok" /\ c = "Ok" /\ d = "Ok" /\ e = "Ok"
                          /\ f = "Ok" /\ g = "Ok"
  OBVIOUS
<1> DEFINE r == <<a, b, c, d, e, f, g>>
<1>1. /\ DOMAIN r = 1 .. 7 /\ 1 .. 7 = {1, 2, 3, 4, 5, 6, 7}
      /\ r[1] = a /\ r[2] = b /\ r[3] = c /\ r[4] = d /\ r[5] = e /\ r[6] = f /\ r[7] = g
  OBVIOUS
<1> HIDE DEF r
<1>2. FirstError(r) = "Ok" <=> \A i \in 1 .. 7 : r[i] = "Ok"
  BY <1>1, FirstErrorOk
<1>3. FirstError(r) = "Ok"
        <=> a = "Ok" /\ b = "Ok" /\ c = "Ok" /\ d = "Ok" /\ e = "Ok" /\ f = "Ok" /\ g = "Ok"
  BY <1>1, <1>2
<1> QED BY <1>3 DEF r

LEMMA FirstOf8 ==
  \A a, b, c, d, e, f, g, h :
    FirstError(<<a, b, c, d, e, f, g, h>>) = "Ok"
      <=> a = "Ok" /\ b = "Ok" /\ c = "Ok" /\ d = "Ok" /\ e = "Ok" /\ f = "Ok" /\ g = "Ok"
          /\ h = "Ok"
<1> SUFFICES ASSUME NEW a, NEW b, NEW c, NEW d, NEW e, NEW f, NEW g, NEW h
             PROVE  FirstError(<<a, b, c, d, e, f, g, h>>) = "Ok"
                      <=> a = "Ok" /\ b = "Ok" /\ c = "Ok" /\ d = "Ok" /\ e = "Ok"
                          /\ f = "Ok" /\ g = "Ok" /\ h = "Ok"
  OBVIOUS
<1> DEFINE r == <<a, b, c, d, e, f, g, h>>
<1>1. /\ DOMAIN r = 1 .. 8 /\ 1 .. 8 = {1, 2, 3, 4, 5, 6, 7, 8}
      /\ r[1] = a /\ r[2] = b /\ r[3] = c /\ r[4] = d /\ r[5] = e /\ r[6] = f /\ r[7] = g
         /\ r[8] = h
  OBVIOUS
<1> HIDE DEF r
<1>2. FirstError(r) = "Ok" <=> \A i \in 1 .. 8 : r[i] = "Ok"
  BY <1>1, FirstErrorOk
<1>3. FirstError(r) = "Ok"
        <=> a = "Ok" /\ b = "Ok" /\ c = "Ok" /\ d = "Ok" /\ e = "Ok" /\ f = "Ok" /\ g = "Ok"
            /\ h = "Ok"
  BY <1>1, <1>2
<1> QED BY <1>3 DEF r

LEMMA FirstOf13 ==
  \A a, b, c, d, e, f, g, h, i, j, k, l, m :
    FirstError(<<a, b, c, d, e, f, g, h, i, j, k, l, m>>) = "Ok"
      <=> a = "Ok" /\ b = "Ok" /\ c = "Ok" /\ d = "Ok" /\ e = "Ok" /\ f = "Ok" /\ g = "Ok"
          /\ h = "Ok" /\ i = "Ok" /\ j = "Ok" /\ k = "Ok" /\ l = "Ok" /\ m = "Ok"
<1> SUFFICES ASSUME NEW a, NEW b, NEW c, NEW d, NEW e, NEW f, NEW g, NEW h, NEW i, NEW j,
                    NEW k, NEW l, NEW m
             PROVE  FirstError(<<a, b, c, d, e, f, g, h, i, j, k, l, m>>) = "Ok"
                      <=> a = "Ok" /\ b = "Ok" /\ c = "Ok" /\ d = "Ok" /\ e = "Ok"
                          /\ f = "Ok" /\ g = "Ok" /\ h = "Ok" /\ i = "Ok" /\ j = "Ok"
                          /\ k = "Ok" /\ l = "Ok" /\ m = "Ok"
  OBVIOUS
<1> DEFINE r == <<a, b, c, d, e, f, g, h, i, j, k, l, m>>
<1>1. /\ DOMAIN r = 1 .. 13 /\ 1 .. 13 = {1, 2, 3, 4, 5, 6, 7, 8, 9, 10, 11, 12, 13}
      /\ r[1] = a /\ r[2] = b /\ r[3] = c /\ r[4] = d /\ r[5] = e /\ r[6] = f /\ r[7] = g
         /\ r[8] = h /\ r[9] = i /\ r[10] = j /\ r[11] = k /\ r[12] = l /\ r[13] = m
  OBVIOUS
<1> HIDE DEF r
<1>2. FirstError(r) = "Ok" <=> \A x \in 1 .. 13 : r[x] = "Ok"
  BY <1>1, FirstErrorOk
<1>3. FirstError(r) = "Ok"
        <=> a = "Ok" /\ b = "Ok" /\ c = "Ok" /\ d = "Ok" /\ e = "Ok" /\ f = "Ok" /\ g = "Ok"
            /\ h = "Ok" /\ i = "Ok" /\ j = "Ok" /\ k = "Ok" /\ l = "Ok" /\ m = "Ok"
  BY <1>1, <1>2
<1> QED BY <1>3 DEF r

-----------------------------------------------------------------------------
(* Lists.                                                                  *)

LEMMA SameBound ==
  ASSUME NEW m \in Nat, NEW n \in Nat, 1 .. m = 1 .. n
  PROVE  m = n
<1>1. CASE m < n
  BY <1>1, n \in 1 .. n, n \notin 1 .. m
<1>2. CASE n < m
  BY <1>2, m \in 1 .. m, m \notin 1 .. n
<1> QED BY <1>1, <1>2

LEMMA SameSeq ==
  ASSUME NEW S, NEW s \in Seq(S), NEW t \in Seq(S), DOMAIN s = DOMAIN t,
         \A i \in DOMAIN s : s[i] = t[i]
  PROVE  s = t
<1>1. /\ Len(s) \in Nat /\ DOMAIN s = 1 .. Len(s)
      /\ Len(t) \in Nat /\ DOMAIN t = 1 .. Len(t)
  BY LenProperties
<1>2. Len(s) = Len(t)
  BY <1>1, SameBound
<1> QED BY <1>1, <1>2, SeqEqual

LEMMA SeqFacts ==
  ASSUME NEW S, NEW s \in Seq(S)
  PROVE  /\ Len(s) \in Nat /\ DOMAIN s = 1 .. Len(s) /\ DOMAIN s \in SUBSET Nat
         /\ \A i \in DOMAIN s : s[i] \in S
         /\ s # <<>> <=> 1 \in DOMAIN s
         /\ s # <<>> <=> Len(s) # 0
<1>1. /\ Len(s) \in Nat /\ DOMAIN s = 1 .. Len(s) /\ \A i \in DOMAIN s : s[i] \in S
  BY LenProperties, ElementOfSeq
<1>2. s = <<>> <=> Len(s) = 0
  BY EmptySeq
<1> QED BY <1>1, <1>2

-----------------------------------------------------------------------------
(* What is written determines what was written, nulls included.            *)

LEMMA OwnedDetermined ==
  ASSUME NEW s \in AnySelector, NEW t \in AnySelector, WriteOwned(s) = WriteOwned(t)
  PROVE  s = t
<1>1. s.all = t.all /\ s.expressions = t.expressions /\ s.kind = t.kind /\ s.values = t.values
  BY DEF WriteOwned
<1> QED BY <1>1 DEF AnySelector

LEMMA WrittenSelectors ==
  ASSUME NEW s \in Seq(AnySelector)
  PROVE  Each(s, WriteOwned) \in Seq(WrittenSelector)
<1>1. Len(s) \in Nat /\ DOMAIN s = 1 .. Len(s) /\ \A i \in 1 .. Len(s) : s[i] \in AnySelector
  BY SeqFacts
<1>2. \A x \in AnySelector : WriteOwned(x) \in WrittenSelector
  BY DEF AnySelector, WriteOwned, WrittenSelector
<1>3. Each(s, WriteOwned) = [i \in 1 .. Len(s) |-> WriteOwned(s[i])]
  BY <1>1 DEF Each
<1>4. Each(s, WriteOwned) \in [1 .. Len(s) -> WrittenSelector]
  BY <1>1, <1>2, <1>3
<1> QED BY <1>1, <1>4, SeqDef

LEMMA OwnedListDetermined ==
  ASSUME NEW s \in Option(Seq(AnySelector)), NEW t \in Option(Seq(AnySelector)),
         WriteAllOwned(s) = WriteAllOwned(t)
  PROVE  s = t
<1>1. ASSUME NEW l \in Seq(AnySelector) PROVE Each(l, WriteOwned) # None
  BY WrittenSelectors, NullAssumption
<1>2. CASE s = None \/ t = None
  BY <1>1, <1>2 DEF WriteAllOwned, Optional, Option
<1>3. CASE s # None /\ t # None
  <2>1. s \in Seq(AnySelector) /\ t \in Seq(AnySelector)
    BY <1>3 DEF Option
  <2>2. Each(s, WriteOwned) = Each(t, WriteOwned)
    BY <1>3 DEF WriteAllOwned, Optional
  <2>3. DOMAIN s = DOMAIN t /\ \A i \in DOMAIN s : WriteOwned(s[i]) = WriteOwned(t[i])
    BY <2>2 DEF Each
  <2>4. \A i \in DOMAIN s : s[i] = t[i]
    BY <2>1, <2>3, SeqFacts, OwnedDetermined
  <2> QED BY <2>1, <2>3, <2>4, SameSeq
<1> QED BY <1>2, <1>3

LEMMA OwnedTypesDetermined ==
  ASSUME NEW s \in Seq([name : Texts, type : AnyScope]),
         NEW t \in Seq([name : Texts, type : AnyScope]),
         WriteOwnedTypes(s) = WriteOwnedTypes(t)
  PROVE  s = t
<1> DEFINE T == [name : Texts, type : AnyScope]
           Written(e) == <<e.name, e.type.all, WriteAllOwned(e.type.allow), WriteAllOwned(e.type.deny)>>
<1>1. DOMAIN s = DOMAIN t /\ \A i \in DOMAIN s : Written(s[i]) = Written(t[i])
  BY DEF WriteOwnedTypes, Each
<1>2. ASSUME NEW e \in T, NEW f \in T, Written(e) = Written(f)
      PROVE  e = f
  <2>1. /\ e.name = f.name /\ e.type.all = f.type.all
        /\ WriteAllOwned(e.type.allow) = WriteAllOwned(f.type.allow)
        /\ WriteAllOwned(e.type.deny) = WriteAllOwned(f.type.deny)
    BY <1>2
  <2>2. e.type \in AnyScope /\ f.type \in AnyScope
    OBVIOUS
  <2>3. e.type.allow = f.type.allow /\ e.type.deny = f.type.deny
    BY <2>1, <2>2, OwnedListDetermined DEF AnyScope
  <2>4. e.type = f.type
    BY <2>1, <2>2, <2>3 DEF AnyScope
  <2> QED BY <2>1, <2>4
<1>3. s \in Seq(T) /\ t \in Seq(T)
  OBVIOUS
<1> HIDE DEF T, Written
<1>4. \A i \in DOMAIN s : s[i] \in T /\ t[i] \in T
  BY <1>1, <1>3, SeqFacts
<1> QED BY <1>1, <1>2, <1>3, <1>4, SameSeq

LEMMA WindowDetermined ==
  ASSUME NEW c \in Option(AnyConstraints), NEW d \in Option(AnyConstraints),
         WriteWindow(c) = WriteWindow(d)
  PROVE  c = d
<1> DEFINE Time(w) == <<w.not_after, w.not_before>>
           Times(x) == <<Optional(x.time, Time)>>
<1>1. ASSUME NEW w \in AnyWindow PROVE Time(w) \in Int \X Int /\ Time(w) # None
  BY NullAssumption DEF AnyWindow
<1>2. ASSUME NEW x \in AnyConstraints
      PROVE  Times(x) # None
  <2>1. Optional(x.time, Time) \in Option(Int \X Int)
    BY <1>1 DEF AnyConstraints, Option, Optional
  <2> HIDE DEF Time
  <2>2. Times(x) \in Seq(Option(Int \X Int))
    BY <2>1
  <2> QED BY <2>2, NullAssumption
<1>3. /\ WriteWindow(c) = IF c = None THEN None ELSE Times(c)
      /\ WriteWindow(d) = IF d = None THEN None ELSE Times(d)
  BY DEF WriteWindow, Optional
<1>4. CASE c = None \/ d = None
  <2> HIDE DEF Times
  <2> QED BY <1>2, <1>3, <1>4 DEF Option
<1>5. CASE c # None /\ d # None
  <2>1. c \in AnyConstraints /\ d \in AnyConstraints
    BY <1>5 DEF Option
  <2>2. Times(c) = Times(d)
    BY <1>3, <1>5
  <2>3. Optional(c.time, Time) = Optional(d.time, Time)
    BY <2>2
  <2>4. c.time \in Option(AnyWindow) /\ d.time \in Option(AnyWindow)
    BY <2>1 DEF AnyConstraints
  <2>5. c.time = d.time
    <3>1. CASE c.time = None \/ d.time = None
      BY <2>3, <2>4, <1>1, <3>1 DEF Option, Optional
    <3>2. CASE c.time # None /\ d.time # None
      BY <2>3, <2>4, <3>2 DEF Option, Optional, AnyWindow
    <3> QED BY <3>1, <3>2
  <2> QED BY <2>1, <2>5 DEF AnyConstraints
<1> QED BY <1>4, <1>5

-----------------------------------------------------------------------------
(* Ownership transitions.                                                  *)

LEMMA TransitionFields ==
  ASSUME NEW raw, IsTransition(raw)
  PROVE  /\ raw.transition_id \in Texts /\ raw.transition_series_id \in Texts
         /\ raw.version \in Nat /\ raw.revision \in Nat /\ raw.supersedes \in Option(Texts)
         /\ raw.origin_authority \in Texts /\ raw.from_authority \in Texts
         /\ raw.to_authority \in Texts /\ raw.scope \in Seq([name : Texts, type : AnyScope])
         /\ raw.global_constraints \in Option(AnyConstraints) /\ raw.effective_at \in Int
         /\ raw.predecessor_signature.key_id \in Texts /\ raw.successor_acceptance.key_id \in Texts
         /\ raw.successor_acceptance.accepted_at \in Int
<1>1. \A field \in DOMAIN TransitionTypes : raw[field] \in TransitionTypes[field]
  BY DEF IsTransition
<1>2. /\ raw["transition_id"] \in Texts /\ raw["transition_series_id"] \in Texts
      /\ raw["version"] \in Nat /\ raw["revision"] \in Nat /\ raw["supersedes"] \in Option(Texts)
  BY <1>1 DEF TransitionTypes
<1>3. /\ raw["origin_authority"] \in Texts /\ raw["from_authority"] \in Texts
      /\ raw["to_authority"] \in Texts /\ raw["scope"] \in Seq([name : Texts, type : AnyScope])
      /\ raw["global_constraints"] \in Option(AnyConstraints) /\ raw["effective_at"] \in Int
  BY <1>1 DEF TransitionTypes
<1> QED BY <1>2, <1>3 DEF IsTransition

\* Two transitions that agree in all but the signatures.
SameProposal(raw, other) ==
  \A field \in DOMAIN TransitionTypes : raw[field] = other[field]

LEMMA ProposalDetermined ==
  ASSUME NEW raw, IsTransition(raw), NEW other, IsTransition(other),
         Proposal(raw) = Proposal(other)
  PROVE  SameProposal(raw, other)
<1>1. /\ WriteOwnedTypes(raw.scope) = WriteOwnedTypes(other.scope)
      /\ raw.effective_at = other.effective_at /\ raw.from_authority = other.from_authority
      /\ WriteWindow(raw.global_constraints) = WriteWindow(other.global_constraints)
      /\ raw.origin_authority = other.origin_authority /\ raw.revision = other.revision
      /\ raw.supersedes = other.supersedes /\ raw.to_authority = other.to_authority
      /\ raw.transition_id = other.transition_id
      /\ raw.transition_series_id = other.transition_series_id /\ raw.version = other.version
  BY DEF Proposal
<1>2. raw.scope = other.scope
  BY <1>1, TransitionFields, OwnedTypesDetermined
<1>3. raw.global_constraints = other.global_constraints
  BY <1>1, TransitionFields, WindowDetermined
<1> QED BY <1>1, <1>2, <1>3 DEF SameProposal, TransitionTypes

LEMMA SameProposalIsSame ==
  ASSUME NEW raw, NEW other, SameProposal(raw, other)
  PROVE  Proposal(raw) = Proposal(other) /\ Record(raw) = Record(other)
<1>1. /\ raw.scope = other.scope /\ raw.effective_at = other.effective_at
      /\ raw.from_authority = other.from_authority
      /\ raw.global_constraints = other.global_constraints
      /\ raw.origin_authority = other.origin_authority /\ raw.revision = other.revision
      /\ raw.supersedes = other.supersedes /\ raw.to_authority = other.to_authority
      /\ raw.transition_id = other.transition_id
      /\ raw.transition_series_id = other.transition_series_id /\ raw.version = other.version
  BY DEF SameProposal, TransitionTypes
<1>2. Proposal(raw) = Proposal(other)
  BY <1>1 DEF Proposal
<1>3. Record(raw) = Record(other)
  BY <1>1 DEF Record
<1> QED BY <1>2, <1>3

\* Tuples that are put together are told apart by their parts.
IsTuple(s, n) == s = [x \in 1 .. n |-> s[x]]

LEMMA TupleIsSeq ==
  ASSUME NEW s, NEW n \in Nat, IsTuple(s, n), NEW S, \A x \in 1 .. n : s[x] \in S
  PROVE  s \in Seq(S) /\ Len(s) = n
<1>1. s \in [1 .. n -> S]
  BY DEF IsTuple
<1>2. s \in Seq(S)
  BY <1>1, SeqDef
<1>3. Len(s) \in Nat /\ 1 .. Len(s) = 1 .. n
  BY <1>1, <1>2, LenProperties
<1> QED BY <1>2, <1>3, SameBound

Joined(s, t, s2, t2, m, n) ==
  /\ m \in Nat /\ n \in Nat
  /\ IsTuple(s, m) /\ IsTuple(s2, m) /\ IsTuple(t, n) /\ IsTuple(t2, n)
  /\ s \o t = s2 \o t2

LEMMA ConcatDetermined ==
  ASSUME NEW m, NEW n, NEW s, NEW s2, NEW t, NEW t2, Joined(s, t, s2, t2, m, n)
  PROVE  s = s2 /\ t = t2
<1> USE DEF Joined
<1> DEFINE S == {s[x] : x \in 1 .. m} \cup {s2[x] : x \in 1 .. m}
                \cup {t[x] : x \in 1 .. n} \cup {t2[x] : x \in 1 .. n}
<1>1. /\ \A x \in 1 .. m : s[x] \in S /\ s2[x] \in S
      /\ \A x \in 1 .. n : t[x] \in S /\ t2[x] \in S
  OBVIOUS
<1> HIDE DEF S
<1>2. /\ s \in Seq(S) /\ s2 \in Seq(S) /\ Len(s) = m /\ Len(s2) = m
      /\ t \in Seq(S) /\ t2 \in Seq(S) /\ Len(t) = n /\ Len(t2) = n
  BY <1>1, TupleIsSeq
<1> DEFINE u  == s \o t
           u2 == s2 \o t2
<1>3. /\ \A x \in 1 .. m + n : u[x] = IF x <= m THEN s[x] ELSE t[x - m]
      /\ \A x \in 1 .. m + n : u2[x] = IF x <= m THEN s2[x] ELSE t2[x - m]
      /\ u = u2
  BY <1>2, ConcatProperties
<1> HIDE DEF u, u2
<1>4. ASSUME NEW x \in 1 .. m PROVE s[x] = s2[x]
  <2>1. x \in 1 .. m + n /\ x <= m
    OBVIOUS
  <2> QED BY <1>3, <2>1
<1>5. ASSUME NEW x \in 1 .. n PROVE t[x] = t2[x]
  <2>1. x + m \in 1 .. m + n /\ ~(x + m <= m) /\ (x + m) - m = x
    OBVIOUS
  <2> QED BY <1>3, <2>1
<1> QED BY <1>2, <1>4, <1>5, SeqEqual

\* An acceptance says what the proposal says, the signature of the
\* predecessor, and when which key accepts.
LEMMA AcceptanceDetermined ==
  ASSUME NEW raw, NEW other, Acceptance(raw) = Acceptance(other)
  PROVE  /\ Proposal(raw) = Proposal(other)
         /\ raw.predecessor_signature = other.predecessor_signature
         /\ raw.successor_acceptance.accepted_at = other.successor_acceptance.accepted_at
         /\ raw.successor_acceptance.key_id = other.successor_acceptance.key_id
<1> DEFINE Rest(r) == <<r.predecessor_signature, r.successor_acceptance.accepted_at,
                        r.successor_acceptance.key_id>>
<1>1. \A r : Acceptance(r) = Proposal(r) \o Rest(r)
  BY DEF Acceptance
<1>2. \A r : IsTuple(Proposal(r), 11)
  BY DEF Proposal, IsTuple
<1>3. \A r : IsTuple(Rest(r), 3)
  BY DEF IsTuple
<1> HIDE DEF Rest
<1>4. Proposal(raw) \o Rest(raw) = Proposal(other) \o Rest(other)
  BY <1>1, Zenon
<1>5. Joined(Proposal(raw), Rest(raw), Proposal(other), Rest(other), 11, 3)
  <2>1. 11 \in Nat /\ 3 \in Nat
    OBVIOUS
  <2>2. /\ IsTuple(Proposal(raw), 11) /\ IsTuple(Proposal(other), 11)
        /\ IsTuple(Rest(raw), 3) /\ IsTuple(Rest(other), 3)
    BY <1>2, <1>3, Zenon
  <2> QED BY <1>4, <2>1, <2>2, Zenon DEF Joined
<1>6. Proposal(raw) = Proposal(other) /\ Rest(raw) = Rest(other)
  BY <1>5, ConcatDetermined
<1> QED BY <1>6 DEF Rest

-----------------------------------------------------------------------------
(* Signing, altering and verifying a transition.                           *)

\* A proposal, and an acceptance, is what its signer signed.
ProposalSigned(p) ==
  /\ IsTransition(p.document)
  /\ \E key \in Keys :
       /\ p.signer = key[1]
       /\ p.document.predecessor_signature.signature = [by |-> key, over |-> Proposal(p.document)]

AcceptanceSigned(a) ==
  /\ IsTransition(a.document)
  /\ \E key \in Keys :
       /\ a.signer = key[1]
       /\ a.document.successor_acceptance.signature = [by |-> key, over |-> Acceptance(a.document)]

\* The signatures on the way are blank or come from who signed.
SignaturesAreReal ==
  /\ IsTransition(transition)
  /\ \A p \in proposals : ProposalSigned(p)
  /\ \A a \in acceptances : AcceptanceSigned(a)
  /\ transition.predecessor_signature.signature # None =>
       \E p \in proposals :
         transition.predecessor_signature.signature = p.document.predecessor_signature.signature
  /\ transition.successor_acceptance.signature # None =>
       \E a \in acceptances :
         transition.successor_acceptance.signature = a.document.successor_acceptance.signature

\* What was verified had passed validation.
VerdictIsValid == verdict # None => IsTransition(verdict) /\ TransitionResult(verdict) = "Ok"

TransitionInv == SignaturesAreReal /\ VerdictIsValid /\ TransferIsAgreed

\* A transition with another signature.
WithPredecessor(raw, key_id, signature) ==
  [raw EXCEPT !.predecessor_signature = [key_id |-> key_id, signature |-> signature]]

WithSuccessor(raw, at, key_id, signature) ==
  [raw EXCEPT !.successor_acceptance =
     [accepted_at |-> at, key_id |-> key_id, signature |-> signature]]

LEMMA PredecessorSigns ==
  ASSUME NEW raw, IsTransition(raw), NEW key_id \in Texts, NEW signature
  PROVE  LET new == WithPredecessor(raw, key_id, signature)
         IN  /\ IsTransition(new) /\ SameProposal(raw, new)
             /\ new.predecessor_signature = [key_id |-> key_id, signature |-> signature]
             /\ new.successor_acceptance = raw.successor_acceptance
  BY DEF IsTransition, SameProposal, TransitionTypes, WithPredecessor

LEMMA SuccessorSigns ==
  ASSUME NEW raw, IsTransition(raw), NEW key_id \in Texts, NEW at \in Int, NEW signature
  PROVE  LET new == WithSuccessor(raw, at, key_id, signature)
         IN  /\ IsTransition(new) /\ SameProposal(raw, new)
             /\ new.predecessor_signature = raw.predecessor_signature
             /\ new.successor_acceptance =
                  [accepted_at |-> at, key_id |-> key_id, signature |-> signature]
  BY DEF IsTransition, SameProposal, TransitionTypes, WithSuccessor

LEMMA AlterationTypes ==
  ASSUME NEW raw, IsTransition(raw), NEW change \in TransitionChanges
  PROVE  LET field == change[1]
             value == change[2]
             new   == [raw EXCEPT ![field] =
                        IF field = "predecessor_signature" THEN [@ EXCEPT !.key_id = value]
                        ELSE IF field = "successor_acceptance" THEN [@ EXCEPT !.accepted_at = value]
                        ELSE value]
         IN  /\ IsTransition(new)
             /\ new.predecessor_signature.signature = raw.predecessor_signature.signature
             /\ new.successor_acceptance.signature = raw.successor_acceptance.signature
<1> DEFINE field == change[1]
           value == change[2]
<1>1. CASE field = "predecessor_signature"
  <2>1. value \in Texts
    BY <1>1, TransitionAssumption
  <2> QED BY <1>1, <2>1 DEF IsTransition, TransitionTypes
<1>2. CASE field = "successor_acceptance"
  <2>1. value \in Int
    BY <1>2, TransitionAssumption
  <2> QED BY <1>2, <2>1 DEF IsTransition, TransitionTypes
<1>3. CASE field \notin {"predecessor_signature", "successor_acceptance"}
  <2>1. field \in DOMAIN TransitionTypes /\ value \in TransitionTypes[field]
    BY <1>3, TransitionAssumption
  <2> HIDE DEF field, value
  <2>2. LET new == [raw EXCEPT ![field] = value]
        IN  /\ IsTransition(new)
            /\ new.predecessor_signature = raw.predecessor_signature
            /\ new.successor_acceptance = raw.successor_acceptance
    BY <1>3, <2>1 DEF IsTransition
  <2> QED BY <1>3, <2>2 DEF field, value
<1> QED BY <1>1, <1>2, <1>3

LEMMA TransitionParts ==
  ASSUME NEW raw, TransitionResult(raw) = "Ok"
  PROVE  /\ TransitionLineageResult(raw) = "Ok" /\ PartiesResult(raw) = "Ok"
         /\ OwnershipScopeResult(raw.scope) = "Ok"
         /\ EffectiveAtResult(TimeWindow(raw.global_constraints), raw.effective_at) = "Ok"
         /\ raw.predecessor_signature.signature # None
         /\ raw.successor_acceptance.signature # None
<1>1. /\ TransitionLineageResult(raw) = "Ok" /\ PartiesResult(raw) = "Ok"
      /\ OwnershipScopeResult(raw.scope) = "Ok"
      /\ EffectiveAtResult(TimeWindow(raw.global_constraints), raw.effective_at) = "Ok"
      /\ SignatureResult(raw.predecessor_signature) = "Ok"
      /\ SignatureResult(raw.successor_acceptance) = "Ok"
  <2> DEFINE window == TimeWindow(raw.global_constraints)
             V == IF raw.version = 0 THEN "Ok" ELSE "InvalidProtocolVersion"
  <2>1. FirstError(<<V, TransitionLineageResult(raw), PartiesResult(raw),
                     OwnershipScopeResult(raw.scope), WindowResult(window),
                     EffectiveAtResult(window, raw.effective_at),
                     SignatureResult(raw.predecessor_signature),
                     SignatureResult(raw.successor_acceptance)>>) = "Ok"
    BY DEF TransitionResult
  <2> HIDE DEF V
  <2> QED BY <2>1, FirstOf8
<1>2. ASSUME NEW signature, SignatureResult(signature) = "Ok"
      PROVE  signature.signature # None
  <2>1. (IF signature.signature = None THEN "EmptyStringField" ELSE "Ok") = "Ok"
    BY <1>2, FirstOf2, Zenon DEF SignatureResult
  <2> QED BY <2>1
<1> QED BY <1>1, <1>2

LEMMA VerificationFacts ==
  ASSUME NEW raw, VerificationResult(raw, VerifiedAt) = "Ok"
  PROVE  /\ TransitionResult(raw) = "Ok"
         /\ raw.successor_acceptance.accepted_at <= VerifiedAt
         /\ raw.predecessor_signature.signature =
              [by |-> SignerKey(raw.from_authority, raw.predecessor_signature.key_id),
               over |-> Proposal(raw)]
         /\ raw.successor_acceptance.signature =
              [by |-> SignerKey(raw.to_authority, raw.successor_acceptance.key_id),
               over |-> Acceptance(raw)]
<1> DEFINE predecessor == SignerKey(raw.from_authority, raw.predecessor_signature.key_id)
           successor == SignerKey(raw.to_authority, raw.successor_acceptance.key_id)
           E1 == IF {predecessor, successor} \subseteq Keys THEN "Ok" ELSE "MissingAuthorityKey"
           E2 == IF raw.successor_acceptance.accepted_at <= VerifiedAt THEN "Ok"
                 ELSE "InvalidOwnershipTransitionAcceptanceTime"
           E3 == IF raw.predecessor_signature.signature = [by |-> predecessor, over |-> Proposal(raw)]
                 THEN "Ok" ELSE "OwnershipTransitionPredecessorSignatureFailed"
           E4 == IF raw.successor_acceptance.signature = [by |-> successor, over |-> Acceptance(raw)]
                 THEN "Ok" ELSE "OwnershipTransitionSuccessorSignatureFailed"
<1>1. TransitionResult(raw) = "Ok"
  BY DEF VerificationResult
<1>2. FirstError(<<E1, E2, E3, E4>>) = "Ok"
  BY <1>1 DEF VerificationResult
<1>3. E2 = "Ok" /\ E3 = "Ok" /\ E4 = "Ok"
  <2> HIDE DEF E1, E2, E3, E4
  <2> QED BY <1>2, FirstOf4
<1> QED BY <1>1, <1>3

\* A signature that is found where the verifier looks was made over the
\* proposal, or the acceptance, that it stands under.
LEMMA SignedProposalIsRead ==
  ASSUME SignaturesAreReal, VerificationResult(transition, VerifiedAt) = "Ok"
  PROVE  LET record == Record(transition)
         IN  \E p \in proposals : p.signer = record.predecessor /\ Record(p.document) = record
<1>1. /\ TransitionResult(transition) = "Ok"
      /\ transition.predecessor_signature.signature =
           [by |-> SignerKey(transition.from_authority, transition.predecessor_signature.key_id),
            over |-> Proposal(transition)]
  BY VerificationFacts
<1>2. transition.predecessor_signature.signature # None
  BY <1>1, TransitionParts
<1>3. PICK p \in proposals :
        transition.predecessor_signature.signature = p.document.predecessor_signature.signature
  BY <1>2 DEF SignaturesAreReal
<1>4. PICK key \in Keys :
        /\ p.signer = key[1]
        /\ p.document.predecessor_signature.signature = [by |-> key, over |-> Proposal(p.document)]
  BY <1>3 DEF SignaturesAreReal, ProposalSigned
<1>5. /\ key = SignerKey(transition.from_authority, transition.predecessor_signature.key_id)
      /\ Proposal(p.document) = Proposal(transition)
  BY <1>1, <1>3, <1>4
<1>6. p.signer = AuthorityOf(transition.from_authority)
  BY <1>4, <1>5 DEF SignerKey
<1>7. Record(p.document) = Record(transition)
  BY <1>3, <1>5, ProposalDetermined, SameProposalIsSame DEF SignaturesAreReal, ProposalSigned
<1> QED BY <1>3, <1>6, <1>7 DEF Record

LEMMA SignedAcceptanceIsRead ==
  ASSUME SignaturesAreReal, VerificationResult(transition, VerifiedAt) = "Ok"
  PROVE  LET record == Record(transition)
         IN  \E a \in acceptances :
               /\ a.signer = record.successor /\ Record(a.document) = record
               /\ a.document.successor_acceptance.accepted_at
                    = transition.successor_acceptance.accepted_at
               /\ a.document.predecessor_signature = transition.predecessor_signature
<1>1. /\ TransitionResult(transition) = "Ok"
      /\ transition.successor_acceptance.signature =
           [by |-> SignerKey(transition.to_authority, transition.successor_acceptance.key_id),
            over |-> Acceptance(transition)]
  BY VerificationFacts
<1>2. transition.successor_acceptance.signature # None
  BY <1>1, TransitionParts
<1>3. PICK a \in acceptances :
        transition.successor_acceptance.signature = a.document.successor_acceptance.signature
  BY <1>2 DEF SignaturesAreReal
<1>4. PICK key \in Keys :
        /\ a.signer = key[1]
        /\ a.document.successor_acceptance.signature = [by |-> key, over |-> Acceptance(a.document)]
  BY <1>3 DEF SignaturesAreReal, AcceptanceSigned
<1>5. /\ key = SignerKey(transition.to_authority, transition.successor_acceptance.key_id)
      /\ Acceptance(a.document) = Acceptance(transition)
  BY <1>1, <1>3, <1>4
<1>6. a.signer = AuthorityOf(transition.to_authority)
  BY <1>4, <1>5 DEF SignerKey
<1>7. /\ Proposal(a.document) = Proposal(transition)
      /\ a.document.predecessor_signature = transition.predecessor_signature
      /\ a.document.successor_acceptance.accepted_at = transition.successor_acceptance.accepted_at
  BY <1>5, AcceptanceDetermined
<1>8. Record(a.document) = Record(transition)
  BY <1>3, <1>7, ProposalDetermined, SameProposalIsSame DEF SignaturesAreReal, AcceptanceSigned
<1> QED BY <1>3, <1>6, <1>7, <1>8 DEF Record

LEMMA TransitionInvInit ==
  ASSUME TransitionInit
  PROVE  TransitionInv
<1>1. SignaturesAreReal
  BY TransitionAssumption DEF TransitionInit, SignaturesAreReal
<1> QED BY <1>1 DEF TransitionInit, TransitionInv, VerdictIsValid, TransferIsAgreed

\* A proposal is only signed before there is one: nothing was verified then.
LEMMA NothingVerifiedYet ==
  ASSUME TransferIsAgreed, proposals = {} \/ acceptances = {}
  PROVE  verdict = None
  BY DEF TransferIsAgreed

LEMMA SignProposalKeepsInv ==
  ASSUME TransitionInv, NEW key \in Keys, SignProposal(key)
  PROVE  TransitionInv'
<1> DEFINE signature == [by |-> key, over |-> Proposal(transition)]
           signed    == [key_id |-> key[2], signature |-> signature]
<1>1. /\ IsTransition(transition') /\ SameProposal(transition, transition')
      /\ transition'.predecessor_signature = signed
      /\ transition'.successor_acceptance = transition.successor_acceptance
  <2>1. key[2] \in Texts /\ IsTransition(transition)
    BY TransitionAssumption DEF TransitionInv, SignaturesAreReal
  <2>2. transition' = WithPredecessor(transition, key[2], signature)
    BY DEF SignProposal, WithPredecessor
  <2> HIDE DEF signature
  <2> QED BY <2>1, <2>2, PredecessorSigns
<1>2. Proposal(transition') = Proposal(transition)
  BY <1>1, SameProposalIsSame
<1>3. verdict = None /\ verdict' = None
  BY NothingVerifiedYet DEF TransitionInv, SignProposal
<1>4. /\ proposals' = {[signer |-> key[1], document |-> transition']}
      /\ acceptances' = acceptances
  BY DEF SignProposal
<1>5. transition'.predecessor_signature.signature = [by |-> key, over |-> Proposal(transition')]
  BY <1>1, <1>2
<1>6. \A p \in proposals' : ProposalSigned(p)
  BY <1>1, <1>4, <1>5 DEF ProposalSigned
<1>7. \E p \in proposals' :
        transition'.predecessor_signature.signature = p.document.predecessor_signature.signature
  BY <1>4
<1>8. SignaturesAreReal'
  BY <1>1, <1>4, <1>6, <1>7 DEF TransitionInv, SignaturesAreReal
<1> QED BY <1>3, <1>8 DEF TransitionInv, VerdictIsValid, TransferIsAgreed

LEMMA SignAcceptanceKeepsInv ==
  ASSUME TransitionInv, NEW key \in Keys, NEW at \in AcceptedAt, SignAcceptance(key, at)
  PROVE  TransitionInv'
<1> DEFINE dated     == WithSuccessor(transition, at, key[2], None)
           signature == [by |-> key, over |-> Acceptance(dated)]
<1>1. /\ key[2] \in Texts /\ at \in Int /\ IsTransition(transition)
      /\ transition' = [dated EXCEPT !.successor_acceptance.signature = signature]
  BY TransitionAssumption DEF TransitionInv, SignaturesAreReal, SignAcceptance, WithSuccessor
<1>2. /\ IsTransition(dated) /\ SameProposal(transition, dated)
      /\ dated.predecessor_signature = transition.predecessor_signature
      /\ dated.successor_acceptance = [accepted_at |-> at, key_id |-> key[2], signature |-> None]
  BY <1>1, SuccessorSigns
<1> HIDE DEF dated, signature
<1>3. transition' = WithSuccessor(dated, at, key[2], signature)
  BY <1>1, <1>2 DEF WithSuccessor, IsTransition
<1>4. /\ IsTransition(transition') /\ SameProposal(dated, transition')
      /\ transition'.predecessor_signature = dated.predecessor_signature
      /\ transition'.successor_acceptance =
           [accepted_at |-> at, key_id |-> key[2], signature |-> signature]
  BY <1>1, <1>2, <1>3, SuccessorSigns
<1>5. Acceptance(transition') = Acceptance(dated)
  BY <1>2, <1>4, SameProposalIsSame DEF Acceptance
<1>6. verdict = None /\ verdict' = None
  BY NothingVerifiedYet DEF TransitionInv, SignAcceptance
<1>7. /\ acceptances' = {[signer |-> key[1], document |-> transition']}
      /\ proposals' = proposals
  BY DEF SignAcceptance
<1>8. transition'.successor_acceptance.signature = [by |-> key, over |-> Acceptance(transition')]
  BY <1>4, <1>5 DEF signature
<1>9. \A a \in acceptances' : AcceptanceSigned(a)
  BY <1>4, <1>7, <1>8 DEF AcceptanceSigned
<1>10. \E a \in acceptances' :
         transition'.successor_acceptance.signature = a.document.successor_acceptance.signature
  BY <1>7
<1>11. SignaturesAreReal'
  BY <1>2, <1>4, <1>7, <1>9, <1>10 DEF TransitionInv, SignaturesAreReal
<1> QED BY <1>6, <1>11 DEF TransitionInv, VerdictIsValid, TransferIsAgreed

LEMMA AlterTransitionKeepsInv ==
  ASSUME TransitionInv, NEW change \in TransitionChanges, AlterTransition(change[1], change[2])
  PROVE  TransitionInv'
<1>1. /\ IsTransition(transition')
      /\ transition'.predecessor_signature.signature = transition.predecessor_signature.signature
      /\ transition'.successor_acceptance.signature = transition.successor_acceptance.signature
  BY AlterationTypes DEF AlterTransition, TransitionInv, SignaturesAreReal
<1>2. verdict' = None /\ UNCHANGED <<proposals, acceptances>>
  BY DEF AlterTransition
<1>3. SignaturesAreReal'
  BY <1>1, <1>2 DEF TransitionInv, SignaturesAreReal
<1> QED BY <1>2, <1>3 DEF TransitionInv, VerdictIsValid, TransferIsAgreed

LEMMA VerifyTransitionKeepsInv ==
  ASSUME TransitionInv, VerifyTransition
  PROVE  TransitionInv'
<1>1. /\ VerificationResult(transition, VerifiedAt) = "Ok" /\ verdict' = transition
      /\ UNCHANGED <<transition, proposals, acceptances>>
  BY DEF VerifyTransition
<1>2. SignaturesAreReal /\ SignaturesAreReal'
  BY <1>1 DEF TransitionInv, SignaturesAreReal
<1>3. VerdictIsValid'
  BY <1>1, <1>2, VerificationFacts DEF VerdictIsValid, SignaturesAreReal
<1>4. TransferIsAgreed'
  <2>1. transition.successor_acceptance.accepted_at <= VerifiedAt
    BY <1>1, VerificationFacts
  <2> QED BY <1>1, <1>2, <2>1, SignedProposalIsRead, SignedAcceptanceIsRead DEF TransferIsAgreed
<1> QED BY <1>2, <1>3, <1>4 DEF TransitionInv

LEMMA TransitionInvHolds == TransitionSpec => []TransitionInv
<1>1. TransitionInv /\ [TransitionNext]_transitionVars => TransitionInv'
  <2> SUFFICES ASSUME TransitionInv, [TransitionNext]_transitionVars
               PROVE  TransitionInv'
    OBVIOUS
  <2>1. CASE TransitionNext
    BY <2>1, SignProposalKeepsInv, SignAcceptanceKeepsInv, AlterTransitionKeepsInv,
       VerifyTransitionKeepsInv DEF TransitionNext
  <2>2. CASE UNCHANGED transitionVars
    BY <2>2 DEF transitionVars, TransitionInv, SignaturesAreReal, VerdictIsValid, TransferIsAgreed
  <2> QED BY <2>1, <2>2
<1> QED BY <1>1, TransitionInvInit, PTL DEF TransitionSpec

\* A verified transition has the consent of both parties to all it says, of
\* the successor at the time it says: whatever was altered on the way, and
\* whoever else signed what (verify.rs: verify_raw_document).
THEOREM TransfersAreAgreed == TransitionSpec => []TransferIsAgreed
  BY TransitionInvHolds, PTL DEF TransitionInv

-----------------------------------------------------------------------------
(* What validation leaves of a transition.                                 *)

ValuesOf(s) == {s[i] : i \in DOMAIN s}

LEMMA DistinctCount ==
  ASSUME NEW s, NEW n \in Nat, DOMAIN s = 1 .. n, \A i, j \in 1 .. n : s[i] = s[j] => i = j
  PROVE  IsFiniteSet(ValuesOf(s)) /\ Cardinality(ValuesOf(s)) = n
<1> DEFINE T == {s[i] : i \in 1 .. n}
           f == [i \in 1 .. n |-> s[i]]
<1>1. f \in [1 .. n -> T] /\ \A i, j \in 1 .. n : f[i] = f[j] => i = j
  OBVIOUS
<1>2. \A t \in T : \E i \in 1 .. n : f[i] = t
  OBVIOUS
<1> HIDE DEF T, f
<1>3. f \in Bijection(1 .. n, T)
  BY <1>1, <1>2, Fun_IsBij
<1>4. IsFiniteSet(1 .. n) /\ Cardinality(1 .. n) = n
  BY FS_Interval
<1>5. IsFiniteSet(T) /\ Cardinality(T) = n
  BY <1>3, <1>4, FS_Bijection DEF ExistsBijection
<1> QED BY <1>5 DEF T, ValuesOf

\* Names of texts are texts.
LEMMA TrimFacts ==
  ASSUME NEW t \in Texts
  PROVE  /\ Trim[t] \in Texts /\ Trim[Trim[t]] = Trim[t]
         /\ AuthorityOf(t) \in Texts /\ AuthorityOf(AuthorityOf(t)) = AuthorityOf(t)
  BY NamesAssumption DEF AuthorityOf

LEMMA OwnedValues ==
  ASSUME NEW raw \in AnySelector, OwnershipSelectorResult(raw) = "Ok"
  PROVE  /\ raw.values \in Seq(Texts) /\ raw.values # <<>>
         /\ \A i, j \in DOMAIN raw.values : Trim[raw.values[i]] = Trim[raw.values[j]] => i = j
<1> DEFINE items == Items(raw.values)
           R == [i \in DOMAIN items |->
                   IF (IF Trim[items[i]] = Blank THEN "EmptyStringField" ELSE "Ok") # "Ok"
                   THEN (IF Trim[items[i]] = Blank THEN "EmptyStringField" ELSE "Ok")
                   ELSE IF \E j \in 1 .. i - 1 : Trim[items[j]] = Trim[items[i]]
                        THEN "DuplicateSelector" ELSE "Ok"]
           E1 == Explicit(~raw.all /\ raw.expressions = None /\ raw.values # None)
           E2 == LimitResult(items, MaxSelectorValues)
           E3 == FirstError(Each(items, LAMBDA t : IF t \in Long THEN "StringLimitExceeded" ELSE "Ok"))
           E4 == Explicit(items # <<>>)
           E5 == UniqueResult(items, LAMBDA t : IF Trim[t] = Blank THEN "EmptyStringField" ELSE "Ok",
                              LAMBDA l, r : Trim[l] = Trim[r], "DuplicateSelector")
           E6 == TokenResult(raw.kind)
<1>1. FirstError(<<E1, E2, E3, E4, E5, E6>>) = "Ok"
  BY DEF OwnershipSelectorResult
<1>2. E1 = "Ok" /\ E4 = "Ok" /\ E5 = "Ok"
  <2> HIDE DEF E1, E2, E3, E4, E5, E6
  <2> QED BY <1>1, FirstOf6
<1>3. raw.values # None /\ items # <<>>
  BY <1>2 DEF Explicit
<1>4. raw.values \in Seq(Texts) /\ items = raw.values
  BY <1>3 DEF AnySelector, Option, Items
<1>5. FirstError(R) = "Ok"
  BY <1>2 DEF UniqueResult
<1>6. DOMAIN items \in SUBSET Nat /\ DOMAIN items = 1 .. Len(items) /\ Len(items) \in Nat
  BY <1>4, SeqFacts
<1>7. \A i \in DOMAIN items : R[i] = "Ok"
  <2>1. DOMAIN R \in SUBSET Nat /\ DOMAIN R = DOMAIN items
    BY <1>6
  <2> HIDE DEF R
  <2> QED BY <1>5, <2>1, FirstErrorOk
<1>8. \A i \in DOMAIN items : \A j \in 1 .. i - 1 : Trim[items[j]] # Trim[items[i]]
  BY <1>7
<1> HIDE DEF items
<1>9. ASSUME NEW i \in DOMAIN items, NEW j \in DOMAIN items, Trim[items[i]] = Trim[items[j]]
      PROVE  i = j
  <2>1. CASE i < j
    BY <1>6, <1>8, <1>9, <2>1, i \in 1 .. j - 1
  <2>2. CASE j < i
    BY <1>6, <1>8, <1>9, <2>2, j \in 1 .. i - 1
  <2> QED BY <1>6, <2>1, <2>2
<1> QED BY <1>3, <1>4, <1>9

LEMMA OwnedSelectors ==
  ASSUME NEW type \in AnyScope, OwnershipTypeResult(type) = "Ok"
  PROVE  /\ type.allow \in Seq(AnySelector) /\ type.allow # <<>>
         /\ \A i \in DOMAIN type.allow : OwnershipSelectorResult(type.allow[i]) = "Ok"
         /\ \A i, j \in DOMAIN type.allow :
              SameOwnershipSelector(OwnershipSelector(type.allow[i]),
                                    OwnershipSelector(type.allow[j])) => i = j
<1> DEFINE items == Items(type.allow)
           Same(l, r) == SameOwnershipSelector(OwnershipSelector(l), OwnershipSelector(r))
           R == [i \in DOMAIN items |->
                   IF OwnershipSelectorResult(items[i]) # "Ok"
                   THEN OwnershipSelectorResult(items[i])
                   ELSE IF \E j \in 1 .. i - 1 : Same(items[j], items[i])
                        THEN "DuplicateSelector" ELSE "Ok"]
           E1 == Explicit(~type.all /\ type.deny = None /\ type.allow # None)
           E2 == LimitResult(items, MaxSelectors)
           E3 == FirstError(Each(items, OwnershipSelectorResult))
           E4 == Explicit(items # <<>>)
           E5 == UniqueResult(items, OwnershipSelectorResult, Same, "DuplicateSelector")
<1>1. FirstError(<<E1, E2, E3, E4, E5>>) = "Ok"
  BY DEF OwnershipTypeResult
<1>2. E1 = "Ok" /\ E4 = "Ok" /\ E5 = "Ok"
  <2> HIDE DEF E1, E2, E3, E4, E5
  <2> QED BY <1>1, FirstOf5
<1>3. type.allow # None /\ items # <<>>
  BY <1>2 DEF Explicit
<1>4. type.allow \in Seq(AnySelector) /\ items = type.allow
  BY <1>3 DEF AnyScope, Option, Items
<1>5. FirstError(R) = "Ok"
  BY <1>2 DEF UniqueResult
<1>6. DOMAIN items \in SUBSET Nat /\ DOMAIN items = 1 .. Len(items) /\ Len(items) \in Nat
  BY <1>4, SeqFacts
<1> HIDE DEF Same
<1>7. \A i \in DOMAIN items : R[i] = "Ok"
  <2>1. DOMAIN R \in SUBSET Nat /\ DOMAIN R = DOMAIN items
    BY <1>6
  <2> HIDE DEF R
  <2> QED BY <1>5, <2>1, FirstErrorOk
<1>8. \A i \in DOMAIN items : /\ OwnershipSelectorResult(items[i]) = "Ok"
                              /\ \A j \in 1 .. i - 1 : ~Same(items[j], items[i])
  BY <1>7
<1> HIDE DEF items
<1>9. \A l, r : Same(l, r) => Same(r, l)
  BY DEF Same, SameOwnershipSelector, SameKind
<1>10. ASSUME NEW i \in DOMAIN items, NEW j \in DOMAIN items, Same(items[i], items[j])
       PROVE  i = j
  <2>1. CASE i < j
    BY <1>6, <1>8, <1>10, <2>1, i \in 1 .. j - 1
  <2>2. CASE j < i
    BY <1>6, <1>8, <1>9, <1>10, <2>2, j \in 1 .. i - 1
  <2> QED BY <1>6, <2>1, <2>2
<1> QED BY <1>3, <1>4, <1>8, <1>10 DEF Same

LEMMA OwnedTypes ==
  ASSUME NEW types \in Seq([name : Texts, type : AnyScope]), OwnershipScopeResult(types) = "Ok"
  PROVE  /\ types # <<>>
         /\ \A i \in DOMAIN types : OwnershipTypeResult(types[i].type) = "Ok"
<1> DEFINE R == [i \in DOMAIN types |->
                   FirstError(<<TokenResult(types[i].name), OwnershipTypeResult(types[i].type)>>)]
           E1 == Explicit(types # <<>>)
           E2 == LimitResult(types, MaxResourceTypes)
           E3 == FirstError(R)
<1>1. FirstError(<<E1, E2, E3>>) = "Ok"
  BY DEF OwnershipScopeResult, Each
<1>2. E1 = "Ok" /\ E3 = "Ok"
  <2> HIDE DEF E1, E2, E3
  <2> QED BY <1>1, FirstOf3
<1>3. types # <<>>
  BY <1>2 DEF Explicit
<1>4. \A i \in DOMAIN types : R[i] = "Ok"
  <2>1. DOMAIN R \in SUBSET Nat /\ DOMAIN R = DOMAIN types
    BY SeqFacts
  <2>2. FirstError(R) = "Ok"
    BY <1>2
  <2> HIDE DEF R
  <2> QED BY <2>1, <2>2, FirstErrorOk
<1>5. ASSUME NEW i \in DOMAIN types
      PROVE  OwnershipTypeResult(types[i].type) = "Ok"
  <2>1. FirstError(<<TokenResult(types[i].name), OwnershipTypeResult(types[i].type)>>) = "Ok"
    BY <1>4
  <2> QED BY <2>1, FirstOf2
<1> QED BY <1>3, <1>5

\* The last of the entries whose name trims to one.
LEMMA LastNamed ==
  ASSUME NEW T, NEW types \in Seq(T), NEW name, NEW i \in DOMAIN types,
         Trim[types[i].name] = name
  PROVE  LET named == {j \in DOMAIN types : Trim[types[j].name] = name}
             last  == CHOOSE k \in named : \A j \in named : j <= k
         IN  last \in DOMAIN types /\ Trim[types[last].name] = name
<1> DEFINE named == {j \in DOMAIN types : Trim[types[j].name] = name}
<1>1. named \subseteq 1 .. Len(types) /\ Len(types) \in Nat /\ named # {}
  BY SeqFacts
<1>2. \E k \in named : \A j \in named : j <= k
  <2> HIDE DEF named
  <2> QED BY <1>1, GreatestElement
<1>3. (CHOOSE k \in named : \A j \in named : j <= k) \in named
  BY <1>2
<1> QED BY <1>3

LEMMA ScopeEntries ==
  ASSUME NEW types \in Seq([name : Texts, type : AnyScope]),
         NEW name \in DOMAIN OwnershipScope(types)
  PROVE  \E i \in DOMAIN types :
           /\ Trim[types[i].name] = name
           /\ OwnershipScope(types)[name] = Each(types[i].type.allow, OwnershipSelector)
<1> DEFINE named == {j \in DOMAIN types : Trim[types[j].name] = name}
           last  == CHOOSE k \in named : \A j \in named : j <= k
<1>1. \E i \in DOMAIN types : Trim[types[i].name] = name
  BY DEF OwnershipScope
<1>2. last \in DOMAIN types /\ Trim[types[last].name] = name
  BY <1>1, LastNamed, SMTT(20)
<1>3. OwnershipScope(types)[name] = Each(types[last].type.allow, OwnershipSelector)
  BY DEF OwnershipScope
<1> QED BY <1>2, <1>3

\* The selectors that a record has for a name.
SelectorsAreWellFormed(name, selectors) ==
  /\ selectors # <<>> /\ Trim[name] = name
  /\ \A i \in DOMAIN selectors :
       /\ selectors[i].values # <<>>
       /\ Cardinality({selectors[i].values[v] : v \in DOMAIN selectors[i].values})
            = Len(selectors[i].values)
       /\ \A j \in DOMAIN selectors : SameOwnershipSelector(selectors[i], selectors[j]) => i = j

ScopeIsWellFormed(scope) ==
  /\ DOMAIN scope # {}
  /\ \A name \in DOMAIN scope : SelectorsAreWellFormed(name, scope[name])

LEMMA OwnershipScopeIsWellFormed ==
  ASSUME NEW types \in Seq([name : Texts, type : AnyScope]), OwnershipScopeResult(types) = "Ok"
  PROVE  ScopeIsWellFormed(OwnershipScope(types))
<1> DEFINE T == [name : Texts, type : AnyScope]
<1>1. /\ types # <<>> /\ \A i \in DOMAIN types : OwnershipTypeResult(types[i].type) = "Ok"
      /\ \A i \in DOMAIN types : types[i].name \in Texts /\ types[i].type \in AnyScope
  <2>1. \A i \in DOMAIN types : types[i] \in T
    BY SeqFacts
  <2> QED BY <2>1, OwnedTypes
<1>2. DOMAIN OwnershipScope(types) # {}
  <2>1. 1 \in DOMAIN types
    BY <1>1, SeqFacts
  <2> QED BY <2>1 DEF OwnershipScope
<1>3. ASSUME NEW name \in DOMAIN OwnershipScope(types)
      PROVE  SelectorsAreWellFormed(name, OwnershipScope(types)[name])
  <2>1. PICK e \in DOMAIN types :
          /\ Trim[types[e].name] = name
          /\ OwnershipScope(types)[name] = Each(types[e].type.allow, OwnershipSelector)
    BY ScopeEntries
  <2> DEFINE allow     == types[e].type.allow
             selectors == OwnershipScope(types)[name]
  <2>2. /\ allow \in Seq(AnySelector) /\ allow # <<>>
        /\ \A i \in DOMAIN allow : OwnershipSelectorResult(allow[i]) = "Ok"
        /\ \A i, j \in DOMAIN allow :
             SameOwnershipSelector(OwnershipSelector(allow[i]), OwnershipSelector(allow[j])) => i = j
    BY <1>1, OwnedSelectors
  <2>3. /\ DOMAIN selectors = DOMAIN allow
        /\ \A i \in DOMAIN allow : selectors[i] = OwnershipSelector(allow[i])
    BY <2>1 DEF Each
  <2>4. Trim[name] = name
    BY <1>1, <2>1, TrimFacts
  <2> HIDE DEF allow, selectors
  <2>5. selectors # <<>>
    <3>1. 1 \in DOMAIN selectors
      BY <2>2, <2>3, SeqFacts
    <3> QED BY <3>1
  <2>6. ASSUME NEW i \in DOMAIN selectors
        PROVE  /\ selectors[i].values # <<>>
               /\ Cardinality({selectors[i].values[v] : v \in DOMAIN selectors[i].values})
                    = Len(selectors[i].values)
    <3> DEFINE raw    == allow[i].values
               values == selectors[i].values
    <3>1. allow[i] \in AnySelector /\ OwnershipSelectorResult(allow[i]) = "Ok"
      BY <2>2, <2>3, SeqFacts
    <3>2. /\ raw \in Seq(Texts) /\ raw # <<>>
          /\ \A v, w \in DOMAIN raw : Trim[raw[v]] = Trim[raw[w]] => v = w
      BY <3>1, OwnedValues
    <3>3. values = [v \in DOMAIN raw |-> Trim[raw[v]]]
      BY <2>3 DEF OwnershipSelector, Each
    <3> HIDE DEF raw, values
    <3>4. /\ Len(raw) \in Nat /\ DOMAIN raw = 1 .. Len(raw) /\ 1 \in DOMAIN raw
          /\ \A v \in DOMAIN raw : raw[v] \in Texts
      BY <3>2, SeqFacts
    <3>5. values \in [1 .. Len(raw) -> Texts]
      BY <3>3, <3>4, TrimFacts
    <3>6. values \in Seq(Texts) /\ Len(values) = Len(raw)
      <4>1. IsTuple(values, Len(raw)) /\ \A v \in 1 .. Len(raw) : values[v] \in Texts
        BY <3>5 DEF IsTuple
      <4> QED BY <3>4, <4>1, TupleIsSeq
    <3>7. values # <<>>
      BY <3>3, <3>4
    <3>8. \A v, w \in 1 .. Len(raw) : values[v] = values[w] => v = w
      BY <3>2, <3>3, <3>4
    <3>9. DOMAIN values = 1 .. Len(raw)
      BY <3>5
    <3>10. Cardinality(ValuesOf(values)) = Len(values)
      BY <3>4, <3>6, <3>8, <3>9, DistinctCount
    <3> QED BY <3>7, <3>10 DEF values, ValuesOf
  <2>7. \A i, j \in DOMAIN selectors : SameOwnershipSelector(selectors[i], selectors[j]) => i = j
    BY <2>2, <2>3
  <2> QED BY <2>4, <2>5, <2>6, <2>7 DEF selectors, SelectorsAreWellFormed
<1> QED BY <1>2, <1>3 DEF ScopeIsWellFormed

LEMMA RecordParts ==
  ASSUME NEW raw, IsTransition(raw), TransitionLineageResult(raw) = "Ok", PartiesResult(raw) = "Ok",
         EffectiveAtResult(TimeWindow(raw.global_constraints), raw.effective_at) = "Ok"
  PROVE  LET record == Record(raw)
         IN  /\ Records!Lineage(record) /\ Records!Parties(record)
             /\ Records!EffectiveInWindow(record)
<1> DEFINE id         == TransitionIdOf[raw.transition_id]
           series     == TransitionSeriesIdOf[raw.transition_series_id]
           supersedes == Optional(raw.supersedes, LAMBDA t : TransitionIdOf[t])
           E1 == IdResult(id)
           E2 == IdResult(series)
           E3 == IF raw.revision = 0 THEN "ZeroRevision" ELSE "Ok"
           E4 == IF raw.supersedes = None THEN "Ok" ELSE IdResult(supersedes)
           E5 == IF raw.revision = 1 /\ supersedes # None
                 THEN "InvalidSupersedesForFirstRevision" ELSE "Ok"
           E6 == IF raw.revision > 1 /\ supersedes = None
                 THEN "MissingSupersedesForNonFirstOwnershipTransitionRevision" ELSE "Ok"
           E7 == IF supersedes = id THEN "SelfSupersession" ELSE "Ok"
<1>1. FirstError(<<E1, E2, E3, E4, E5, E6, E7>>) = "Ok"
  BY DEF TransitionLineageResult
<1>2. E1 = "Ok" /\ E2 = "Ok" /\ E3 = "Ok" /\ E4 = "Ok" /\ E5 = "Ok" /\ E6 = "Ok" /\ E7 = "Ok"
  <2> HIDE DEF E1, E2, E3, E4, E5, E6, E7
  <2> QED BY <1>1, FirstOf7
<1>3. /\ id # None /\ series # None /\ raw.revision # 0 /\ supersedes # id
      /\ raw.supersedes # None => supersedes # None
      /\ raw.revision = 1 => supersedes = None
      /\ raw.revision > 1 => supersedes # None
  BY <1>2 DEF IdResult
<1>4. /\ TransitionIdOf \in [Texts -> Texts \cup {None}]
      /\ TransitionSeriesIdOf \in [Texts -> Texts \cup {None}]
  BY TransitionAssumption DEF Spellings
<1>5. /\ id \in Texts /\ series \in Texts /\ supersedes \in Texts \cup {None}
      /\ raw.revision \in Nat
  BY <1>3, <1>4, TransitionFields DEF Option, Optional
<1>6. Records!Lineage(Record(raw))
  BY <1>3, <1>5 DEF Record, Records!Lineage
<1>7. Records!Parties(Record(raw))
  <2> DEFINE F1 == AuthorityResult(raw.origin_authority)
             F2 == AuthorityResult(raw.from_authority)
             F3 == AuthorityResult(raw.to_authority)
             F4 == IF AuthorityOf(raw.from_authority) = AuthorityOf(raw.to_authority)
                   THEN "InvalidOwnershipTransitionParties" ELSE "Ok"
  <2>1. FirstError(<<F1, F2, F3, F4>>) = "Ok"
    BY DEF PartiesResult
  <2>2. F4 = "Ok"
    <3> HIDE DEF F1, F2, F3, F4
    <3> QED BY <2>1, FirstOf4
  <2> QED BY <2>2, TransitionFields, TrimFacts DEF Record, Records!Parties
<1>8. Records!EffectiveInWindow(Record(raw))
  BY DEF EffectiveAtResult, Record, Records!EffectiveInWindow, Records!Contains
<1> QED BY <1>6, <1>7, <1>8

LEMMA ValidIsWellFormed ==
  ASSUME VerdictIsValid
  PROVE  RecordsAreWellFormed
<1> SUFFICES ASSUME verdict # None PROVE RecordsAreWellFormed
  BY DEF RecordsAreWellFormed
<1>1. IsTransition(verdict) /\ TransitionResult(verdict) = "Ok"
  BY DEF VerdictIsValid
<1>2. /\ Records!Lineage(Record(verdict)) /\ Records!Parties(Record(verdict))
      /\ Records!EffectiveInWindow(Record(verdict))
  BY <1>1, TransitionParts, RecordParts
<1>3. /\ verdict.scope \in Seq([name : Texts, type : AnyScope])
      /\ OwnershipScopeResult(verdict.scope) = "Ok"
  BY <1>1, TransitionFields, TransitionParts
<1>4. Record(verdict).scope = OwnershipScope(verdict.scope)
  BY DEF Record
<1>5. ScopeIsWellFormed(Record(verdict).scope)
  BY <1>3, <1>4, OwnershipScopeIsWellFormed
<1> QED BY <1>2, <1>5, Zenon DEF RecordsAreWellFormed, ScopeIsWellFormed, SelectorsAreWellFormed

\* Whatever record comes out of the verification of a transition has the
\* lineage, the parties, the instant and the scope that the walk along a
\* chain takes for granted (ownership_transition.rs, ownership.rs).
THEOREM VerifiedRecordsAreWellFormed == TransitionSpec => []RecordsAreWellFormed
  BY TransitionInvHolds, ValidIsWellFormed, PTL DEF TransitionInv

-----------------------------------------------------------------------------
(* The canonical form of a grant determines the document, but for the      *)
(* signature and the interoperability profile.                             *)

LEMMA SelectorsDetermined ==
  ASSUME NEW s \in Option(Seq(AnySelector)), NEW t \in Option(Seq(AnySelector)),
         WriteSelectors(s) = WriteSelectors(t)
  PROVE  s = t
<1>1. \A x : WriteSelector(x) = WriteOwned(x)
  BY DEF WriteSelector, WriteOwned
<1>2. \A x : Each(x, WriteSelector) = Each(x, WriteOwned)
  BY <1>1 DEF Each
<1>3. WriteAllOwned(s) = WriteAllOwned(t)
  BY <1>2 DEF WriteSelectors, WriteAllOwned, Optional
<1> QED BY <1>3, OwnedListDetermined

LEMMA SelectorsWritten ==
  ASSUME NEW s \in Option(Seq(AnySelector))
  PROVE  WriteSelectors(s) \in Option(Seq(WrittenSelector))
<1>1. \A x : WriteSelector(x) = WriteOwned(x)
  BY DEF WriteSelector, WriteOwned
<1>2. Each(s, WriteSelector) = Each(s, WriteOwned)
  BY <1>1 DEF Each
<1> QED BY <1>2, WrittenSelectors DEF WriteSelectors, Optional, Option

LEMMA ScopeDetermined ==
  ASSUME NEW s \in AnyScope, NEW t \in AnyScope, WriteScope(s) = WriteScope(t)
  PROVE  s = t
<1>1. /\ s.all = t.all /\ WriteSelectors(s.allow) = WriteSelectors(t.allow)
      /\ WriteSelectors(s.deny) = WriteSelectors(t.deny)
  BY DEF WriteScope
<1>2. s.allow = t.allow /\ s.deny = t.deny
  BY <1>1, SelectorsDetermined DEF AnyScope
<1> QED BY <1>1, <1>2 DEF AnyScope

LEMMA ScopeWritten ==
  ASSUME NEW s \in AnyScope
  PROVE  WriteScope(s) \in WrittenScope
<1>1. /\ s.all \in BOOLEAN /\ WriteSelectors(s.allow) \in Option(Seq(WrittenSelector))
      /\ WriteSelectors(s.deny) \in Option(Seq(WrittenSelector))
  BY SelectorsWritten DEF AnyScope
<1> QED BY <1>1 DEF WriteScope, WrittenScope

LEMMA OptionalScopeDetermined ==
  ASSUME NEW s \in Option(AnyScope), NEW t \in Option(AnyScope),
         Optional(s, WriteScope) = Optional(t, WriteScope)
  PROVE  s = t
<1>1. \A x \in AnyScope : WriteScope(x) # None
  BY ScopeWritten, NullAssumption
<1>2. CASE s = None \/ t = None
  BY <1>1, <1>2 DEF Optional, Option
<1>3. CASE s # None /\ t # None
  BY <1>3, ScopeDetermined DEF Optional, Option
<1> QED BY <1>2, <1>3

LEMMA AudienceEntryDetermined ==
  ASSUME NEW e \in AnyAudienceEntry, NEW f \in AnyAudienceEntry,
         WriteAudienceEntry(e) = WriteAudienceEntry(f)
  PROVE  e = f
<1>1. /\ e.authority_id = f.authority_id /\ WriteScope(e.scope) = WriteScope(f.scope)
      /\ Optional(e.principal_scope, WriteScope) = Optional(f.principal_scope, WriteScope)
  BY DEF WriteAudienceEntry
<1>2. e.scope = f.scope /\ e.principal_scope = f.principal_scope
  BY <1>1, ScopeDetermined, OptionalScopeDetermined DEF AnyAudienceEntry
<1> QED BY <1>1, <1>2 DEF AnyAudienceEntry

LEMMA AudienceWritten ==
  ASSUME NEW s \in Seq(AnyAudienceEntry)
  PROVE  Each(s, WriteAudienceEntry) # None
<1> DEFINE W == Texts \X Option(WrittenScope) \X WrittenScope
<1>1. Len(s) \in Nat /\ DOMAIN s = 1 .. Len(s) /\ \A i \in 1 .. Len(s) : s[i] \in AnyAudienceEntry
  BY SeqFacts
<1>2. ASSUME NEW x \in AnyAudienceEntry PROVE WriteAudienceEntry(x) \in W
  <2>1. /\ x.authority_id \in Texts /\ WriteScope(x.scope) \in WrittenScope
        /\ Optional(x.principal_scope, WriteScope) \in Option(WrittenScope)
    BY ScopeWritten DEF AnyAudienceEntry, Optional, Option
  <2> QED BY <2>1 DEF WriteAudienceEntry
<1>3. Each(s, WriteAudienceEntry) = [i \in 1 .. Len(s) |-> WriteAudienceEntry(s[i])]
  BY <1>1 DEF Each
<1> HIDE DEF W
<1>4. Each(s, WriteAudienceEntry) \in [1 .. Len(s) -> W]
  BY <1>1, <1>2, <1>3
<1>5. Each(s, WriteAudienceEntry) \in Seq(W)
  BY <1>1, <1>4, SeqDef
<1> QED BY <1>5, NullAssumption DEF W

LEMMA AudienceDetermined ==
  ASSUME NEW s \in Option(Seq(AnyAudienceEntry)), NEW t \in Option(Seq(AnyAudienceEntry)),
         WriteAudience(s) = WriteAudience(t)
  PROVE  s = t
<1>1. CASE s = None \/ t = None
  BY <1>1, AudienceWritten DEF WriteAudience, Optional, Option
<1>2. CASE s # None /\ t # None
  <2>1. s \in Seq(AnyAudienceEntry) /\ t \in Seq(AnyAudienceEntry)
    BY <1>2 DEF Option
  <2>2. Each(s, WriteAudienceEntry) = Each(t, WriteAudienceEntry)
    BY <1>2 DEF WriteAudience, Optional
  <2>3. /\ DOMAIN s = DOMAIN t
        /\ \A i \in DOMAIN s : WriteAudienceEntry(s[i]) = WriteAudienceEntry(t[i])
    BY <2>2 DEF Each
  <2>4. \A i \in DOMAIN s : s[i] = t[i]
    BY <2>1, <2>3, SeqFacts, AudienceEntryDetermined
  <2> QED BY <2>1, <2>3, <2>4, SameSeq
<1> QED BY <1>1, <1>2

LEMMA OperationsDetermined ==
  ASSUME NEW o \in Option(AnyOperations), NEW p \in Option(AnyOperations),
         WriteOperations(o) = WriteOperations(p)
  PROVE  o = p
<1> DEFINE Written(x) == <<x.allow, x.deny>>
<1>1. \A x \in AnyOperations : Written(x) \in Option(Seq(Texts)) \X Option(Seq(Texts))
  BY DEF AnyOperations
<1>2. \A x \in AnyOperations : Written(x) # None
  BY <1>1, NullAssumption
<1>3. CASE o = None \/ p = None
  <2> HIDE DEF Written
  <2>1. /\ WriteOperations(o) = IF o = None THEN None ELSE Written(o)
        /\ WriteOperations(p) = IF p = None THEN None ELSE Written(p)
    BY DEF WriteOperations, Optional, Written
  <2> QED BY <1>2, <1>3, <2>1 DEF Option
<1>4. CASE o # None /\ p # None
  BY <1>4 DEF WriteOperations, Optional, Option, AnyOperations
<1> QED BY <1>3, <1>4

LEMMA ResourceTypeDetermined ==
  ASSUME NEW s \in AnyResourceType, NEW t \in AnyResourceType,
         WriteResourceType(s) = WriteResourceType(t)
  PROVE  s = t
<1>1. /\ s.all = t.all /\ WriteSelectors(s.allow) = WriteSelectors(t.allow)
      /\ s.capabilities.mint = t.capabilities.mint
      /\ s.capabilities.recognize = t.capabilities.recognize
      /\ WriteAudience(s.audience_scope) = WriteAudience(t.audience_scope)
      /\ s.minting.max_per_user = t.minting.max_per_user
      /\ s.minting.max_total = t.minting.max_total
      /\ WriteSelectors(s.deny) = WriteSelectors(t.deny)
      /\ WriteOperations(s.operations) = WriteOperations(t.operations)
  BY DEF WriteResourceType
<1>2. /\ s.allow = t.allow /\ s.deny = t.deny /\ s.audience_scope = t.audience_scope
      /\ s.operations = t.operations
  <2>1. /\ s.allow \in Option(Seq(AnySelector)) /\ t.allow \in Option(Seq(AnySelector))
        /\ s.deny \in Option(Seq(AnySelector)) /\ t.deny \in Option(Seq(AnySelector))
        /\ s.audience_scope \in Option(Seq(AnyAudienceEntry))
        /\ t.audience_scope \in Option(Seq(AnyAudienceEntry))
        /\ s.operations \in Option(AnyOperations) /\ t.operations \in Option(AnyOperations)
    BY DEF AnyResourceType
  <2> QED BY <1>1, <2>1, SelectorsDetermined, AudienceDetermined, OperationsDetermined
<1>3. s.capabilities = t.capabilities /\ s.minting = t.minting
  BY <1>1 DEF AnyResourceType, AnyTypeCapabilities, AnyMinting
<1> QED BY <1>1, <1>2, <1>3 DEF AnyResourceType

LEMMA ResourceScopeDetermined ==
  ASSUME NEW s \in Seq([name : Texts, type : AnyResourceType]),
         NEW t \in Seq([name : Texts, type : AnyResourceType]),
         WriteResourceScope(s) = WriteResourceScope(t)
  PROVE  s = t
<1> DEFINE T == [name : Texts, type : AnyResourceType]
           Written(e) == <<e.name, WriteResourceType(e.type)>>
<1>1. DOMAIN s = DOMAIN t /\ \A i \in DOMAIN s : Written(s[i]) = Written(t[i])
  BY DEF WriteResourceScope, Each
<1>2. ASSUME NEW e \in T, NEW f \in T, Written(e) = Written(f)
      PROVE  e = f
  <2>1. e.name = f.name /\ WriteResourceType(e.type) = WriteResourceType(f.type)
    BY <1>2
  <2>2. e.type \in AnyResourceType /\ f.type \in AnyResourceType
    OBVIOUS
  <2>3. e.type = f.type
    BY <2>1, <2>2, ResourceTypeDetermined
  <2> QED BY <2>1, <2>3
<1>3. s \in Seq(T) /\ t \in Seq(T)
  OBVIOUS
<1> HIDE DEF T, Written
<1>4. \A i \in DOMAIN s : s[i] \in T /\ t[i] \in T
  BY <1>1, <1>3, SeqFacts
<1> QED BY <1>1, <1>2, <1>3, <1>4, SameSeq

LEMMA ConstraintsDetermined ==
  ASSUME NEW c \in Option(AnyConstraints), NEW d \in Option(AnyConstraints),
         WriteConstraints(c) = WriteConstraints(d)
  PROVE  c = d
<1>1. \A x : WriteConstraints(x) = WriteWindow(x)
  BY DEF WriteConstraints, WriteTimeWindow, WriteWindow
<1> QED BY <1>1, WindowDetermined

LEMMA RevocationDetermined ==
  ASSUME NEW r \in Option(AnyRevocation), NEW q \in Option(AnyRevocation),
         WriteRevocation(r) = WriteRevocation(q)
  PROVE  r = q
<1> DEFINE Written(x) == <<x.effect, x.revocable, x.endpoint>>
<1>1. \A x \in AnyRevocation : Written(x) \in {"BlockAll", "BlockMintingOnly"} \X BOOLEAN \X STRING
  BY DEF AnyRevocation
<1>2. \A x \in AnyRevocation : Written(x) # None
  BY <1>1, NullAssumption
<1>3. CASE r = None \/ q = None
  <2> HIDE DEF Written
  <2>1. /\ WriteRevocation(r) = IF r = None THEN None ELSE Written(r)
        /\ WriteRevocation(q) = IF q = None THEN None ELSE Written(q)
    BY DEF WriteRevocation, Optional, Written
  <2> QED BY <1>2, <1>3, <2>1 DEF Option
<1>4. CASE r # None /\ q # None
  BY <1>4 DEF WriteRevocation, Optional, Option, AnyRevocation
<1> QED BY <1>3, <1>4

LEMMA PrincipalDetermined ==
  ASSUME NEW p \in Option(AnyPrincipal), NEW q \in Option(AnyPrincipal),
         WritePrincipal(p) = WritePrincipal(q)
  PROVE  p = q
<1> DEFINE Written(x) == <<x.id, x.kind>>
<1>1. \A x \in AnyPrincipal : Written(x) \in Texts \X Texts
  BY DEF AnyPrincipal
<1>2. \A x \in AnyPrincipal : Written(x) # None
  BY <1>1, NullAssumption
<1>3. CASE p = None \/ q = None
  <2> HIDE DEF Written
  <2>1. /\ WritePrincipal(p) = IF p = None THEN None ELSE Written(p)
        /\ WritePrincipal(q) = IF q = None THEN None ELSE Written(q)
    BY DEF WritePrincipal, Optional, Written
  <2> QED BY <1>2, <1>3, <2>1 DEF Option
<1>4. CASE p # None /\ q # None
  BY <1>4 DEF WritePrincipal, Optional, Option, AnyPrincipal
<1> QED BY <1>3, <1>4

LEMMA RawFields ==
  ASSUME NEW raw, IsRaw(raw)
  PROVE  /\ raw.trustgrant_id \in Texts /\ raw.version \in Nat /\ raw.grant_series_id \in Texts
         /\ raw.revision \in Nat /\ raw.supersedes \in Option(Texts)
         /\ raw.supersession_policy \in {"Coexist", "SupersedePrevious"}
         /\ raw.issuer_authority \in Texts /\ raw.origin_authority \in Texts
         /\ raw.active_owning_authority \in Texts /\ raw.key_id \in Texts
         /\ raw.target_scope \in AnyScope
         /\ raw.capabilities \in [recognize : BOOLEAN, mint : BOOLEAN]
         /\ raw.default_audience_scope \in Option(Seq(AnyAudienceEntry))
         /\ raw.resource_scope \in Seq([name : Texts, type : AnyResourceType])
         /\ raw.global_constraints \in Option(AnyConstraints)
         /\ raw.revocation \in Option(AnyRevocation) /\ raw.issued_at \in Int
         /\ raw.issuer_principal \in Option(AnyPrincipal)
         /\ raw.interoperability_profile \in Option(AnyProfile)
<1>1. \A field \in DOMAIN RawTypes : raw[field] \in RawTypes[field]
  BY DEF IsRaw
<1>2. /\ raw["trustgrant_id"] \in Texts /\ raw["version"] \in Nat
      /\ raw["grant_series_id"] \in Texts /\ raw["revision"] \in Nat
      /\ raw["supersedes"] \in Option(Texts)
      /\ raw["supersession_policy"] \in {"Coexist", "SupersedePrevious"}
  BY <1>1 DEF RawTypes
<1>3. /\ raw["issuer_authority"] \in Texts /\ raw["origin_authority"] \in Texts
      /\ raw["active_owning_authority"] \in Texts /\ raw["key_id"] \in Texts
      /\ raw["target_scope"] \in AnyScope
      /\ raw["capabilities"] \in [recognize : BOOLEAN, mint : BOOLEAN]
      /\ raw["default_audience_scope"] \in Option(Seq(AnyAudienceEntry))
  BY <1>1 DEF RawTypes
<1>4. /\ raw["resource_scope"] \in Seq([name : Texts, type : AnyResourceType])
      /\ raw["global_constraints"] \in Option(AnyConstraints)
      /\ raw["revocation"] \in Option(AnyRevocation) /\ raw["issued_at"] \in Int
      /\ raw["issuer_principal"] \in Option(AnyPrincipal)
      /\ raw["interoperability_profile"] \in Option(AnyProfile)
  BY <1>1 DEF RawTypes
<1> QED BY <1>2, <1>3, <1>4

\* Who finds the signature over one document under another reads the other
\* as the first says, profile and signature apart.
LEMMA CanonicalDetermines ==
  ASSUME NEW raw, NEW other, IsRaw(raw), IsRaw(other), Canonical(raw) = Canonical(other)
  PROVE  [Document(raw) EXCEPT !.interoperability_profile = other.interoperability_profile]
           = Document(other)
<1>1. /\ raw.active_owning_authority = other.active_owning_authority
      /\ raw.capabilities.mint = other.capabilities.mint
      /\ raw.capabilities.recognize = other.capabilities.recognize
      /\ WriteAudience(raw.default_audience_scope) = WriteAudience(other.default_audience_scope)
      /\ WriteConstraints(raw.global_constraints) = WriteConstraints(other.global_constraints)
      /\ raw.grant_series_id = other.grant_series_id /\ raw.issued_at = other.issued_at
      /\ raw.issuer_authority = other.issuer_authority
      /\ WritePrincipal(raw.issuer_principal) = WritePrincipal(other.issuer_principal)
  BY DEF Canonical
<1>2. /\ raw.key_id = other.key_id /\ raw.origin_authority = other.origin_authority
      /\ WriteResourceScope(raw.resource_scope) = WriteResourceScope(other.resource_scope)
      /\ raw.revision = other.revision
      /\ WriteRevocation(raw.revocation) = WriteRevocation(other.revocation)
      /\ raw.supersedes = other.supersedes
      /\ raw.supersession_policy = other.supersession_policy
      /\ WriteScope(raw.target_scope) = WriteScope(other.target_scope)
      /\ raw.trustgrant_id = other.trustgrant_id
  BY DEF Canonical
<1>3. /\ raw.default_audience_scope = other.default_audience_scope
      /\ raw.global_constraints = other.global_constraints
      /\ raw.issuer_principal = other.issuer_principal
      /\ raw.resource_scope = other.resource_scope
      /\ raw.revocation = other.revocation
      /\ raw.target_scope = other.target_scope
  <2>1. /\ raw.default_audience_scope = other.default_audience_scope
        /\ raw.global_constraints = other.global_constraints
    BY <1>1, RawFields, AudienceDetermined, ConstraintsDetermined
  <2>2. /\ raw.issuer_principal = other.issuer_principal
        /\ raw.revocation = other.revocation
    BY <1>1, <1>2, RawFields, PrincipalDetermined, RevocationDetermined
  <2>3. /\ raw.resource_scope = other.resource_scope
        /\ raw.target_scope = other.target_scope
    BY <1>2, RawFields, ResourceScopeDetermined, ScopeDetermined
  <2> QED BY <2>1, <2>2, <2>3
<1>4. raw.capabilities = other.capabilities
  <2>1. /\ raw.capabilities \in [recognize : BOOLEAN, mint : BOOLEAN]
        /\ other.capabilities \in [recognize : BOOLEAN, mint : BOOLEAN]
    BY RawFields
  <2> QED BY <1>1, <2>1
<1> DEFINE d == Document(raw)
           e == Document(other)
<1>5. /\ d = [field \in DOMAIN d |-> d[field]] /\ e = [field \in DOMAIN e |-> e[field]]
      /\ DOMAIN d = DOMAIN e
  BY SMTT(20) DEF Document, Optional
<1>6. /\ \A field \in DOMAIN d \ {"interoperability_profile"} : d[field] = e[field]
      /\ e.interoperability_profile = other.interoperability_profile
  BY <1>1, <1>2, <1>3, <1>4 DEF Document, Optional
<1> HIDE DEF d, e
<1>7. [d EXCEPT !.interoperability_profile = other.interoperability_profile] = e
  BY <1>5, <1>6
<1> QED BY <1>7 DEF d, e

-----------------------------------------------------------------------------
(* Drafting, signing, publishing, altering and verifying a grant.          *)

IsDraft(d) ==
  /\ DOMAIN d = (DOMAIN RawTypes \ {"version", "global_constraints"}) \cup {"global_time_window"}
  /\ \A field \in DOMAIN d \ {"default_audience_scope", "global_time_window"} :
       d[field] \in RawTypes[field]
  /\ d.default_audience_scope \in Seq(AnyAudienceEntry)
  /\ d.global_time_window \in Option(AnyWindow)

LEMMA RawTypesFacts ==
  /\ DOMAIN RawTypes =
       {"trustgrant_id", "version", "grant_series_id", "revision", "supersedes",
        "supersession_policy", "issuer_authority", "origin_authority", "active_owning_authority",
        "key_id", "target_scope", "capabilities", "default_audience_scope", "resource_scope",
        "global_constraints", "revocation", "issued_at", "issuer_principal",
        "interoperability_profile"}
  /\ RawTypes.trustgrant_id = Texts /\ RawTypes.grant_series_id = Texts /\ RawTypes.revision = Nat
  /\ RawTypes.version = Nat /\ RawTypes.supersedes = Option(Texts)
  /\ RawTypes.supersession_policy = {"Coexist", "SupersedePrevious"}
  /\ RawTypes.issuer_authority = Texts /\ RawTypes.origin_authority = Texts
  /\ RawTypes.active_owning_authority = Texts /\ RawTypes.key_id = Texts
  /\ RawTypes.target_scope = AnyScope
  /\ RawTypes.capabilities = [recognize : BOOLEAN, mint : BOOLEAN]
  /\ RawTypes.default_audience_scope = Option(Seq(AnyAudienceEntry))
  /\ RawTypes.resource_scope = Seq([name : Texts, type : AnyResourceType])
  /\ RawTypes.global_constraints = Option(AnyConstraints)
  /\ RawTypes.revocation = Option(AnyRevocation) /\ RawTypes.issued_at = Int
  /\ RawTypes.issuer_principal = Option(AnyPrincipal)
  /\ RawTypes.interoperability_profile = Option(AnyProfile)
  BY DEF RawTypes

\* Whoever holds a document under the signature holds what was signed.
SigningInv ==
  /\ IsDraft(draft)
  /\ issued # None => IsRaw(issued)
  /\ wire # None => IsRaw(wire) /\ IsRaw(issued) /\ wire.signature \in {None, Canonical(issued)}
  /\ verified # None =>
       /\ wire # None /\ verified = Document(wire)
       /\ DocumentResult(wire) = "Ok" /\ wire.signature = Canonical(wire)

LEMMA AuthorityIsText ==
  ASSUME NEW t \in Texts
  PROVE  AuthorityOf(t) \in Texts /\ Trim[t] \in Texts
  BY NamesAssumption DEF AuthorityOf

LEMMA NewDraftIsDraft ==
  ASSUME NEW arguments \in NewArguments
  PROVE  IsDraft(NewDraft(arguments, "tg_1", "tgs_1"))
<1> DEFINE d == NewDraft(arguments, "tg_1", "tgs_1")
<1>1. /\ DOMAIN arguments = {"issuer_authority", "origin_authority", "active_owning_authority",
                             "key_id", "target_scope", "capabilities", "resource_scope", "issued_at"}
      /\ \A field \in DOMAIN arguments : arguments[field] \in RawTypes[field]
      /\ "tg_1" \in Texts /\ "tgs_1" \in Texts
  BY GrantAssumption
<1>2. /\ arguments.issuer_authority \in Texts /\ arguments.origin_authority \in Texts
      /\ arguments.active_owning_authority \in Texts /\ arguments.key_id \in Texts
      /\ arguments.target_scope \in AnyScope
      /\ arguments.capabilities \in [recognize : BOOLEAN, mint : BOOLEAN]
      /\ arguments.resource_scope \in Seq([name : Texts, type : AnyResourceType])
      /\ arguments.issued_at \in Int
  BY <1>1 DEF RawTypes
<1>3. /\ AuthorityOf(arguments.issuer_authority) \in Texts
      /\ AuthorityOf(arguments.origin_authority) \in Texts
      /\ AuthorityOf(arguments.active_owning_authority) \in Texts
      /\ Trim[arguments.key_id] \in Texts
  BY <1>2, AuthorityIsText
<1>4. \A field \in DOMAIN d \ {"default_audience_scope", "global_time_window"} :
        d[field] \in RawTypes[field]
  BY <1>2, <1>3, <1>1, RawTypesFacts DEF NewDraft, Option
<1>5. d.default_audience_scope \in Seq(AnyAudienceEntry) /\ d.global_time_window \in Option(AnyWindow)
  BY DEF NewDraft, Option
<1>6. DOMAIN d = (DOMAIN RawTypes \ {"version", "global_constraints"}) \cup {"global_time_window"}
  BY RawTypesFacts DEF NewDraft
<1> QED BY <1>4, <1>5, <1>6 DEF IsDraft

LEMMA SignableIsRaw ==
  ASSUME IsDraft(draft)
  PROVE  IsRaw(SignableDocument) /\ SignableDocument.signature = None
<1> DEFINE doc == SignableDocument
<1>1. /\ DOMAIN draft = (DOMAIN RawTypes \ {"version", "global_constraints"}) \cup {"global_time_window"}
      /\ "version" \in DOMAIN RawTypes /\ "global_constraints" \in DOMAIN RawTypes
      /\ "global_time_window" \notin DOMAIN RawTypes /\ "signature" \notin DOMAIN RawTypes
  BY DEF IsDraft, RawTypes
<1>2. DOMAIN doc = DOMAIN RawTypes \cup {"signature"}
  <2>1. DOMAIN doc = (DOMAIN draft \ {"global_time_window"})
                       \cup {"version", "signature", "global_constraints"}
    BY DEF SignableDocument
  <2> QED BY <1>1, <2>1
<1>3. doc.signature = None /\ doc.version = 0
  BY DEF SignableDocument
<1>4. doc.default_audience_scope \in RawTypes.default_audience_scope
  <2>1. doc.default_audience_scope = Some(draft.default_audience_scope)
    BY <1>1 DEF SignableDocument, RawTypes
  <2>2. Some(draft.default_audience_scope) \in Option(Seq(AnyAudienceEntry))
    BY DEF IsDraft, Some, Option
  <2> QED BY <2>1, <2>2 DEF RawTypes
<1>5. doc.global_constraints \in RawTypes.global_constraints
  <2>1. doc.global_constraints =
          IF draft.global_time_window = None THEN None ELSE [time |-> draft.global_time_window]
    BY DEF SignableDocument, Optional
  <2>2. [time |-> draft.global_time_window] \in AnyConstraints
    BY DEF IsDraft, AnyConstraints
  <2> QED BY <2>1, <2>2 DEF RawTypes, Option
<1>6. ASSUME NEW field \in DOMAIN RawTypes,
             field \notin {"version", "default_audience_scope", "global_constraints"}
      PROVE  doc[field] \in RawTypes[field]
  <2>1. doc[field] = draft[field] /\ field \in DOMAIN draft
    BY <1>1, <1>6 DEF SignableDocument
  <2> QED BY <1>1, <1>6, <2>1 DEF IsDraft
<1> HIDE DEF doc
<1>7. \A field \in DOMAIN RawTypes : doc[field] \in RawTypes[field]
  BY <1>3, <1>4, <1>5, <1>6, RawTypesFacts
<1> QED BY <1>2, <1>3, <1>7 DEF IsRaw, doc

LEMMA EditKeepsDraft ==
  ASSUME IsDraft(draft), Edit
  PROVE  IsDraft(draft')
<1> USE DEF Edited
<1>1. CASE \E lineage \in Lineages : EditLineage(lineage)
  <2>1. PICK lineage \in Lineages : EditLineage(lineage)
    BY <1>1
  <2>2. /\ lineage.grant_series_id \in Texts /\ lineage.revision \in Nat
        /\ lineage.supersedes \in Option(Texts)
        /\ lineage.supersession_policy \in {"Coexist", "SupersedePrevious"}
    BY <2>1, GrantAssumption DEF EditLineage, WithLineageResult, KeptTypes
  <2>3. draft' = WithLineage(lineage)
    BY <2>1 DEF EditLineage
  <2>4. IsDraft(WithLineage(lineage))
    <3> DEFINE d == WithLineage(lineage)
               Edits == {"grant_series_id", "revision", "supersedes", "supersession_policy"}
    <3>1. /\ DOMAIN d = DOMAIN draft
          /\ \A field \in DOMAIN draft \ Edits : d[field] = draft[field]
      BY DEF WithLineage
    <3>2. Edits \subseteq DOMAIN draft
      BY RawTypesFacts DEF IsDraft
    <3>3. /\ d.grant_series_id = lineage.grant_series_id /\ d.revision = lineage.revision
          /\ d.supersedes = lineage.supersedes
          /\ d.supersession_policy = lineage.supersession_policy
      BY <3>2 DEF WithLineage
    <3> HIDE DEF d
    <3>4. \A field \in Edits : d[field] \in RawTypes[field]
      BY <2>2, <3>3, RawTypesFacts
    <3>5. {"default_audience_scope", "global_time_window"} \subseteq DOMAIN draft \ Edits
      BY RawTypesFacts DEF IsDraft
    <3> HIDE DEF Edits
    <3>6. IsDraft(d)
      BY <3>1, <3>2, <3>4, <3>5 DEF IsDraft
    <3> QED BY <3>6 DEF d
  <2> QED BY <2>3, <2>4
<1> DEFINE Change(field, value) == [draft EXCEPT ![field] = value]
<1>7. ASSUME NEW field \in {"revocation", "issuer_principal", "interoperability_profile"},
             NEW value \in RawTypes[field]
      PROVE  IsDraft(Change(field, value))
  BY RawTypesFacts DEF IsDraft
<1>2. CASE \E scope \in AudienceScopes : EditAudience(scope)
  <2>1. PICK scope \in AudienceScopes : draft' = [draft EXCEPT !.default_audience_scope = scope]
    BY <1>2 DEF EditAudience
  <2>2. scope \in Seq(AnyAudienceEntry)
    BY GrantAssumption
  <2> QED BY <2>1, <2>2, RawTypesFacts DEF IsDraft
<1>3. CASE \E window \in TimeWindows : EditTimeWindow(window)
  <2>1. PICK window \in TimeWindows : draft' = [draft EXCEPT !.global_time_window = window]
    BY <1>3 DEF EditTimeWindow
  <2>2. window \in Option(AnyWindow)
    BY GrantAssumption DEF Option
  <2> QED BY <2>1, <2>2, RawTypesFacts DEF IsDraft
<1>4. CASE \E revocation \in Revocations : EditRevocation(revocation)
  <2>1. PICK revocation \in Revocations : draft' = [draft EXCEPT !.revocation = revocation]
    BY <1>4 DEF EditRevocation
  <2>2. revocation \in RawTypes["revocation"]
    BY GrantAssumption, RawTypesFacts DEF Option
  <2> QED BY <1>7, <2>1, <2>2
<1>5. CASE \E principal \in IssuerPrincipals : EditIssuerPrincipal(principal)
  <2>1. PICK principal \in IssuerPrincipals : draft' = [draft EXCEPT !.issuer_principal = principal]
    BY <1>5 DEF EditIssuerPrincipal
  <2>2. principal \in RawTypes["issuer_principal"]
    BY GrantAssumption, RawTypesFacts DEF Option
  <2> QED BY <1>7, <2>1, <2>2
<1>6. CASE \E profile \in Profiles : EditProfile(profile)
  <2>1. PICK profile \in Profiles : draft' = [draft EXCEPT !.interoperability_profile = profile]
    BY <1>6 DEF EditProfile
  <2>2. profile \in RawTypes["interoperability_profile"]
    BY GrantAssumption, RawTypesFacts DEF Option
  <2> QED BY <1>7, <2>1, <2>2
<1> QED BY <1>1, <1>2, <1>3, <1>4, <1>5, <1>6 DEF Edit

LEMMA AlterationIsRaw ==
  ASSUME NEW raw, IsRaw(raw), NEW change \in OnTheWay
  PROVE  LET new == [raw EXCEPT ![change[1]] = change[2]]
         IN  /\ IsRaw(new)
             /\ new.signature \in {None, raw.signature}
<1> DEFINE field == change[1]
           value == change[2]
<1>1. \/ field = "signature" /\ value = None
      \/ field \in DOMAIN RawTypes /\ value \in RawTypes[field]
  BY GrantAssumption
<1>2. "signature" \notin DOMAIN RawTypes
  BY DEF RawTypes
<1> HIDE DEF field, value
<1>3. LET new == [raw EXCEPT ![field] = value]
      IN  IsRaw(new) /\ new.signature \in {None, raw.signature}
  BY <1>1, <1>2 DEF IsRaw
<1> QED BY <1>3 DEF field, value

LEMMA VerifiesFacts ==
  ASSUME NEW raw, Verifies(raw)
  PROVE  /\ DocumentResult(raw) = "Ok" /\ raw.signature = Canonical(raw)
         /\ HeadResult(raw) = "Ok" /\ raw.signature # None
<1>1. DocumentResult(raw) = "Ok" /\ raw.signature = Canonical(raw)
  BY DEF Verifies
<1>2. HeadResult(raw) = "Ok"
  <2> DEFINE E == <<HeadResult(raw), ScopeResult(raw.target_scope),
                    AudienceResult(raw.default_audience_scope),
                    ResourceScopeResult(raw.resource_scope),
                    WindowResult(TimeWindow(raw.global_constraints)),
                    PrincipalResult(raw.issuer_principal)>>
  <2>1. FirstError(E) = "Ok"
    BY <1>1 DEF DocumentResult
  <2> QED BY <2>1, FirstOf6
<1> DEFINE E1 == IF raw.version = 0 THEN "Ok" ELSE "InvalidProtocolVersion"
           E7 == IF raw.signature = None THEN "EmptyStringField" ELSE "Ok"
<1>3. FirstError(<<E1, LineageResult(raw), AuthorityResult(raw.issuer_authority),
                   AuthorityResult(raw.origin_authority),
                   AuthorityResult(raw.active_owning_authority), TokenResult(raw.key_id), E7>>) = "Ok"
  BY <1>2 DEF HeadResult
<1>4. E7 = "Ok"
  <2> HIDE DEF E1, E7
  <2> QED BY <1>3, FirstOf7
<1> QED BY <1>1, <1>2, <1>4

LEMMA SigningInvHolds == GrantSpec => []SigningInv
<1>1. GrantInit => SigningInv
  BY NewDraftIsDraft DEF GrantInit, SigningInv
<1>2. SigningInv /\ [GrantNext]_grantVars => SigningInv'
  <2> SUFFICES ASSUME SigningInv, [GrantNext]_grantVars
               PROVE  SigningInv'
    OBVIOUS
  <2> USE DEF SigningInv
  <2>1. CASE Edit
    <3>1. IsDraft(draft')
      BY <2>1, EditKeepsDraft
    <3>2. UNCHANGED <<issued, wire, verified>>
      BY <2>1 DEF Edit, EditLineage, EditAudience, EditTimeWindow, EditRevocation,
                  EditIssuerPrincipal, EditProfile, Edited
    <3> QED BY <3>1, <3>2
  <2>2. CASE Sign
    BY <2>2, SignableIsRaw DEF Sign
  <2>3. CASE Publish
    <3> DEFINE new == [SignableDocument EXCEPT !.signature = Canonical(issued)]
    <3>1. IsRaw(SignableDocument)
      BY SignableIsRaw
    <3>2. IsRaw(new) /\ new.signature = Canonical(issued)
      <4>1. "signature" \notin DOMAIN RawTypes
        BY DEF RawTypes
      <4> QED BY <3>1, <4>1 DEF IsRaw
    <3>3. /\ wire = None /\ issued # None /\ wire' = new
          /\ UNCHANGED <<draft, issued, verified>>
      BY <2>3 DEF Publish
    <3> HIDE DEF new
    <3>4. IsRaw(wire') /\ wire'.signature = Canonical(issued')
      BY <3>2, <3>3
    <3> QED BY <3>3, <3>4
  <2>4. CASE \E alteration \in OnTheWay : AlterOnTheWay(alteration[1], alteration[2])
    <3>1. PICK alteration \in OnTheWay : AlterOnTheWay(alteration[1], alteration[2])
      BY <2>4
    <3>2. /\ wire # None /\ verified = None
          /\ wire' = [wire EXCEPT ![alteration[1]] = alteration[2]]
          /\ UNCHANGED <<draft, issued, verified>>
      BY <3>1 DEF AlterOnTheWay
    <3>3. IsRaw(wire') /\ wire'.signature \in {None, wire.signature}
      BY <3>2, AlterationIsRaw
    <3> QED BY <3>2, <3>3
  <2>5. CASE Verify
    BY <2>5, VerifiesFacts DEF Verify
  <2>6. CASE Store
    BY <2>6 DEF Store
  <2>7. CASE \E alteration \in InStorage : AlterInStorage(alteration[1], alteration[2])
    BY <2>7 DEF AlterInStorage
  <2>8. CASE Load
    BY <2>8 DEF Load
  <2>9. CASE UNCHANGED grantVars
    BY <2>9 DEF grantVars
  <2> QED BY <2>1, <2>2, <2>3, <2>4, <2>5, <2>6, <2>7, <2>8, <2>9 DEF GrantNext
<1> QED BY <1>1, <1>2, PTL DEF GrantSpec

LEMMA SigningImplies ==
  ASSUME SigningInv
  PROVE  SignedIsWhatIsRead
<1> SUFFICES ASSUME verified # None PROVE SignedIsWhatIsRead
  BY DEF SignedIsWhatIsRead
<1>1. /\ wire # None /\ verified = Document(wire) /\ IsRaw(wire) /\ IsRaw(issued)
      /\ wire.signature = Canonical(wire) /\ wire.signature \in {None, Canonical(issued)}
      /\ DocumentResult(wire) = "Ok"
  BY DEF SigningInv
<1>2. wire.signature # None
  BY <1>1, VerifiesFacts DEF Verifies
<1>3. Canonical(wire) = Canonical(issued)
  BY <1>1, <1>2
<1> QED BY <1>1, <1>3, CanonicalDetermines DEF SignedIsWhatIsRead

\* A grant that was verified says, field by field and after all that may
\* have happened to it on the way, what the issuer signed (canonicalize.rs,
\* pipeline.rs); the profile, which is not signed, is the exception.
THEOREM VerifiedIsWhatWasSigned == GrantSpec => []SignedIsWhatIsRead
  BY SigningInvHolds, SigningImplies, PTL

-----------------------------------------------------------------------------
(* Texts in normal form: they are accepted again, and read as they are.    *)

NormalText(t) == t \in Texts /\ Trim[t] = t /\ TextResult(t) = "Ok"

NormalToken(t) == t \in Texts /\ Trim[t] = t /\ TokenResult(t) = "Ok"

NormalAuthority(t) == t \in Texts /\ AuthorityOf(t) = t /\ AuthorityResult(t) = "Ok"

NormalExpression(t) ==
  t \in Texts /\ Expression(t) = t /\ ExpressionResult(t) = "Ok"

LEMMA TextIsNormal ==
  ASSUME NEW t \in Texts, TextResult(t) = "Ok"
  PROVE  NormalText(Trim[t])
  BY NamesAssumption DEF NormalText, TextResult

LEMMA TokenIsNormal ==
  ASSUME NEW t \in Texts, TokenResult(t) = "Ok"
  PROVE  NormalToken(Trim[t])
<1>1. Trim[t] \in Texts /\ Trim[Trim[t]] = Trim[t]
  BY NamesAssumption
<1> QED BY <1>1 DEF NormalToken, TokenResult, TextResult

LEMMA AuthorityIsNormal ==
  ASSUME NEW t \in Texts, AuthorityResult(t) = "Ok"
  PROVE  NormalAuthority(AuthorityOf(t))
<1> DEFINE u == Trim[t]
           a == Lower[Trim[t]]
<1>1. /\ u \in Texts /\ a \in Texts
      /\ Trim[a] = a /\ Lower[a] = a
  BY NamesAssumption
<1>2. u # Blank /\ u \notin Spaced /\ a \notin Long /\ a \notin Bare
  BY DEF AuthorityResult, TokenResult, TextResult, AuthorityOf
<1>3. a \notin Spaced \cup {Blank}
  BY <1>1, <1>2, NamesAssumption
<1> HIDE DEF u, a
<1>4. AuthorityOf(a) = a
  BY <1>1 DEF AuthorityOf
<1>5. AuthorityResult(a) = "Ok"
  BY <1>1, <1>2, <1>3, <1>4 DEF AuthorityResult, TokenResult, TextResult
<1> QED BY <1>1, <1>4, <1>5 DEF NormalAuthority, AuthorityOf, a

LEMMA ExpressionIsNormal ==
  ASSUME NEW t \in Texts, ExpressionResult(t) = "Ok"
  PROVE  NormalExpression(Expression(t))
<1> DEFINE u == Trim[t]
           e == ExpressionOf[u]
<1>1. u \in Texts /\ u \notin Long /\ e # None
  BY NamesAssumption DEF ExpressionResult, TextResult
<1>2. ExpressionOf \in [Texts -> Texts \cup {None}]
  BY DocumentAssumption DEF Spellings
<1>3. e \in Texts /\ ExpressionOf[e] = e /\ Trim[e] = e /\ e \notin Long \cup {Blank}
  BY <1>1, <1>2, DocumentAssumption
<1> QED BY <1>1, <1>3 DEF NormalExpression, Expression, ExpressionResult, TextResult

-----------------------------------------------------------------------------
(* Lists without repetitions.                                              *)

LEMMA RanksAreTaken ==
  ASSUME NEW m \in Nat, NEW F \in SUBSET (1 .. m), NEW n \in 1 .. Cardinality(F)
  PROVE  \E i \in F : Cardinality({j \in F : j <= i}) = n
<1> DEFINE UpTo(i) == {j \in F : j <= i}
           Rank(i) == Cardinality(UpTo(i))
<1>1. IsFiniteSet(F) /\ Cardinality(F) \in Nat
  BY FS_Interval, FS_Subset, FS_CardinalityType, 1 \in Int, m \in Int
<1>2. \A i \in F : IsFiniteSet(UpTo(i)) /\ Rank(i) \in Nat
  BY <1>1, FS_Subset, FS_CardinalityType
<1>3. F # {}
  BY FS_EmptySet
<1>4. PICK g \in F : \A j \in F : j <= g
  BY <1>3, GreatestElement
<1>5. Rank(g) >= n
  <2>1. UpTo(g) = F
    BY <1>4
  <2> HIDE DEF UpTo
  <2> QED BY <1>1, <2>1
<1> DEFINE U == {i \in F : Rank(i) >= n}
<1>6. PICK i \in U : \A k \in U : i <= k
  <2> HIDE DEF Rank
  <2>1. g \in U
    BY <1>5
  <2>2. \A j \in U : j \in Nat
    OBVIOUS
  <2> HIDE DEF U
  <2> QED BY <2>1, <2>2, LeastElement
<1>7. i \in F /\ i \in Nat /\ Rank(i) >= n /\ i \in UpTo(i)
  BY <1>6
<1>8. SUFFICES ASSUME Rank(i) > n PROVE FALSE
  BY <1>2, <1>7
<1> DEFINE P == UpTo(i) \ {i}
<1>9. Cardinality(P) = Rank(i) - 1 /\ IsFiniteSet(P)
  <2> HIDE DEF UpTo
  <2> QED BY <1>2, <1>7, FS_RemoveElement
<1>10. P # {} /\ P \subseteq 1 .. m
  <2>1. Cardinality(P) >= n
    BY <1>2, <1>7, <1>8, <1>9
  <2>2. P # {}
    <3> HIDE DEF P
    <3> QED BY <2>1, FS_EmptySet
  <2> QED BY <2>2
<1>11. PICK k \in P : \A j \in P : j <= k
  <2> HIDE DEF P
  <2> QED BY <1>10, GreatestElement
<1>12. k \in F /\ k < i
  OBVIOUS
<1>13. UpTo(k) = P
  <2>1. \A j \in F : j \in Nat /\ i \in Nat /\ k \in Nat
    OBVIOUS
  <2>2. \A j \in F : j <= k => j \in P
    BY <1>12, <2>1
  <2>3. \A j \in P : j \in F /\ j <= k
    BY <1>11
  <2> QED BY <2>2, <2>3
<1>14. Rank(k) >= n
  <2> HIDE DEF UpTo, P
  <2>1. Rank(k) = Rank(i) - 1
    BY <1>9, <1>13
  <2> QED BY <1>2, <1>7, <1>8, <2>1
<1>15. k \in U
  BY <1>12, <1>14
<1> HIDE DEF U, P, UpTo
<1>16. i <= k
  BY <1>6, <1>15
<1> QED BY <1>7, <1>12, <1>16

\* Where an item comes first.
Firsts(items) == {i \in DOMAIN items : \A j \in 1 .. i - 1 : items[j] # items[i]}

Nth(items, n) ==
  CHOOSE i \in Firsts(items) : Cardinality({j \in Firsts(items) : j <= i}) = n

LEMMA DeduplicatedIs ==
  ASSUME NEW items
  PROVE  Deduplicated(items) = [n \in 1 .. Cardinality(Firsts(items)) |-> items[Nth(items, n)]]
  BY DEF Deduplicated, Firsts, Nth

LEMMA DeduplicatedFacts ==
  ASSUME NEW S, NEW items \in Seq(S)
  PROVE  LET d == Deduplicated(items)
         IN  /\ d \in Seq(S) /\ Len(d) <= Len(items)
             /\ \A n \in DOMAIN d : \E i \in DOMAIN items : d[n] = items[i]
             /\ \A m, n \in DOMAIN d : d[m] = d[n] => m = n
             /\ d = <<>> <=> items = <<>>
<1> DEFINE F == Firsts(items)
           d == Deduplicated(items)
           c == Cardinality(F)
<1>1. Len(items) \in Nat /\ DOMAIN items = 1 .. Len(items) /\ \A i \in DOMAIN items : items[i] \in S
  BY SeqFacts
<1>2. F \in SUBSET (1 .. Len(items))
  BY <1>1 DEF Firsts
<1>3. c \in Nat /\ c <= Len(items)
  <2>1. /\ IsFiniteSet(1 .. Len(items)) /\ Cardinality(1 .. Len(items)) = Len(items)
    BY <1>1, FS_Interval, 1 \in Int, Len(items) \in Int
  <2> HIDE DEF F
  <2> QED BY <1>2, <2>1, FS_Subset, FS_CardinalityType
<1>4. d = [n \in 1 .. c |-> items[Nth(items, n)]]
  BY DeduplicatedIs
<1>5. ASSUME NEW n \in 1 .. c
      PROVE  Nth(items, n) \in F /\ Cardinality({j \in F : j <= Nth(items, n)}) = n
  <2>1. \E i \in F : Cardinality({j \in F : j <= i}) = n
    <3> HIDE DEF F
    <3> QED BY <1>1, <1>2, RanksAreTaken
  <2> QED BY <2>1 DEF Nth
<1>6. \A n \in 1 .. c : Nth(items, n) \in DOMAIN items /\ d[n] = items[Nth(items, n)]
  BY <1>1, <1>2, <1>4, <1>5
<1>7. d \in Seq(S) /\ Len(d) = c
  <2> HIDE DEF c
  <2>1. d \in [1 .. c -> S]
    BY <1>1, <1>4, <1>6
  <2> HIDE DEF d
  <2>2. IsTuple(d, c) /\ \A x \in 1 .. c : d[x] \in S
    BY <2>1 DEF IsTuple
  <2> QED BY <1>3, <2>2, TupleIsSeq
<1>8. DOMAIN d = 1 .. c
  BY <1>4
<1>9. ASSUME NEW m \in 1 .. c, NEW n \in 1 .. c, d[m] = d[n]
      PROVE  m = n
  <2> DEFINE i == Nth(items, m)
             j == Nth(items, n)
  <2>1. i \in F /\ j \in F /\ items[i] = items[j] /\ i \in Nat /\ j \in Nat
    <3>1. /\ i \in F /\ j \in F
          /\ d[m] = items[i] /\ d[n] = items[j]
      BY <1>5, <1>6
    <3>2. i \in Nat /\ j \in Nat
      BY <1>2, <3>1
    <3> HIDE DEF i, j, d
    <3> QED BY <1>9, <3>1, <3>2
  <2>2. /\ \A k \in 1 .. i - 1 : items[k] # items[i]
        /\ \A k \in 1 .. j - 1 : items[k] # items[j]
        /\ i \in 1 .. Len(items) /\ j \in 1 .. Len(items)
    BY <1>2, <2>1 DEF Firsts
  <2>3. /\ Cardinality({k \in F : k <= i}) = m
        /\ Cardinality({k \in F : k <= j}) = n
    BY <1>5
  <2> HIDE DEF i, j
  <2>4. i = j
    <3>1. CASE i < j
      BY <2>1, <2>2, <3>1, i \in 1 .. j - 1
    <3>2. CASE j < i
      BY <2>1, <2>2, <3>2, j \in 1 .. i - 1
    <3> QED BY <2>1, <3>1, <3>2
  <2> QED BY <2>3, <2>4
<1>10. ASSUME items # <<>> PROVE d # <<>>
  <2>1. 1 \in F
    BY <1>1, <1>10, SeqFacts DEF Firsts
  <2>2. c # 0
    <3> HIDE DEF F
    <3>1. IsFiniteSet(F)
      BY <1>1, <1>2, FS_Interval, FS_Subset, 1 \in Int, Len(items) \in Int
    <3> QED BY <2>1, <3>1, FS_EmptySet
  <2> QED BY <1>3, <1>7, <2>2, SeqFacts
<1>11. ASSUME items = <<>> PROVE d = <<>>
  <2>1. c = 0
    <3>1. Len(items) = 0
      BY <1>11
    <3> QED BY <1>3, <3>1
  <2> QED BY <1>7, <2>1, SeqFacts
<1> QED BY <1>3, <1>6, <1>7, <1>8, <1>9, <1>10, <1>11

LEMMA DistinctStays ==
  ASSUME NEW S, NEW items \in Seq(S), \A i, j \in DOMAIN items : items[i] = items[j] => i = j
  PROVE  Deduplicated(items) = items
<1> DEFINE F == Firsts(items)
           d == Deduplicated(items)
           L == Len(items)
<1>1. L \in Nat /\ DOMAIN items = 1 .. L
  BY SeqFacts
<1>2. F = 1 .. L
  BY <1>1 DEF Firsts
<1>3. \A n \in 1 .. L : Cardinality(1 .. n) = n
  BY <1>1, FS_Interval, 1 \in Int
<1>4. ASSUME NEW n \in 1 .. L
      PROVE  Nth(items, n) = n
  <2>1. \A i \in 1 .. L : {j \in F : j <= i} = 1 .. i
    BY <1>2
  <2>2. \A i \in 1 .. L : Cardinality({j \in F : j <= i}) = i
    BY <1>3, <2>1
  <2> HIDE DEF F
  <2>3. \A i \in F : Cardinality({j \in F : j <= i}) = n <=> i = n
    BY <1>2, <2>2
  <2>4. n \in F
    BY <1>2
  <2> QED BY <2>3, <2>4 DEF Nth, F
<1>5. Cardinality(F) = L
  BY <1>1, <1>2, FS_Interval, 1 \in Int
<1>6. d = [n \in 1 .. L |-> items[Nth(items, n)]]
  BY <1>5, DeduplicatedIs
<1>7. DOMAIN d = DOMAIN items /\ \A n \in DOMAIN d : d[n] = items[n]
  BY <1>1, <1>4, <1>6
<1>8. d \in Seq(S)
  BY DeduplicatedFacts
<1> HIDE DEF d
<1>9. d = items
  BY <1>7, <1>8, SameSeq
<1> QED BY <1>9 DEF d

-----------------------------------------------------------------------------
(* Lists that are read item by item.                                       *)

\* One item for every item.
Mapped(e, s) == e = [i \in DOMAIN s |-> e[i]]

LEMMA MappedSeq ==
  ASSUME NEW S, NEW s \in Seq(S), NEW T, NEW e, Mapped(e, s), \A i \in DOMAIN s : e[i] \in T
  PROVE  /\ e \in Seq(T) /\ Len(e) = Len(s) /\ DOMAIN e = DOMAIN s
         /\ e = <<>> <=> s = <<>>
<1>1. Len(s) \in Nat /\ DOMAIN s = 1 .. Len(s)
  BY SeqFacts
<1>2. IsTuple(e, Len(s)) /\ \A i \in 1 .. Len(s) : e[i] \in T
  BY <1>1 DEF Mapped, IsTuple
<1>3. e \in Seq(T) /\ Len(e) = Len(s)
  BY <1>1, <1>2, TupleIsSeq
<1> QED BY <1>3, SeqFacts

LEMMA TrimmedList ==
  ASSUME NEW s \in Seq(Texts)
  PROVE  LET e == Each(s, LAMBDA t : Trim[t])
         IN  /\ e \in Seq(Texts) /\ Len(e) = Len(s) /\ DOMAIN e = DOMAIN s
             /\ e = <<>> <=> s = <<>>
             /\ \A i \in DOMAIN s : e[i] = Trim[s[i]]
<1> DEFINE e == Each(s, LAMBDA t : Trim[t])
<1>1. e = [i \in DOMAIN s |-> Trim[s[i]]]
  BY DEF Each
<1>2. Mapped(e, s) /\ \A i \in DOMAIN s : e[i] = Trim[s[i]]
  BY <1>1 DEF Mapped
<1> HIDE DEF e
<1>3. \A i \in DOMAIN s : e[i] \in Texts
  BY <1>2, SeqFacts, TrimFacts
<1>4. /\ e \in Seq(Texts) /\ Len(e) = Len(s) /\ DOMAIN e = DOMAIN s
      /\ e = <<>> <=> s = <<>>
  BY <1>2, <1>3, MappedSeq
<1> QED BY <1>2, <1>4 DEF e

LEMMA ExpressionList ==
  ASSUME NEW s \in Seq(Texts), \A i \in DOMAIN s : Expression(s[i]) \in Texts
  PROVE  LET e == Each(s, Expression)
         IN  /\ e \in Seq(Texts) /\ Len(e) = Len(s) /\ DOMAIN e = DOMAIN s
             /\ e = <<>> <=> s = <<>>
             /\ \A i \in DOMAIN s : e[i] = Expression(s[i])
<1> DEFINE e == Each(s, Expression)
<1>1. e = [i \in DOMAIN s |-> Expression(s[i])]
  BY DEF Each
<1>2. Mapped(e, s) /\ \A i \in DOMAIN s : e[i] = Expression(s[i])
  BY <1>1 DEF Mapped
<1> HIDE DEF e
<1>3. /\ e \in Seq(Texts) /\ Len(e) = Len(s) /\ DOMAIN e = DOMAIN s
      /\ e = <<>> <=> s = <<>>
  BY <1>2, MappedSeq
<1> QED BY <1>2, <1>3 DEF e

LEMMA EachText ==
  ASSUME NEW s \in Seq(Texts)
  PROVE  FirstError(Each(s, TextResult)) = "Ok" <=> \A i \in DOMAIN s : TextResult(s[i]) = "Ok"
<1> DEFINE R == [i \in DOMAIN s |-> TextResult(s[i])]
<1>1. Each(s, TextResult) = R /\ DOMAIN R \in SUBSET Nat /\ DOMAIN R = DOMAIN s
  BY SeqFacts DEF Each
<1>2. FirstError(R) = "Ok" <=> \A i \in DOMAIN s : R[i] = "Ok"
  <2> HIDE DEF R
  <2> QED BY <1>1, FirstErrorOk
<1> QED BY <1>1, <1>2

LEMMA EachToken ==
  ASSUME NEW s \in Seq(Texts)
  PROVE  FirstError(Each(s, TokenResult)) = "Ok" <=> \A i \in DOMAIN s : TokenResult(s[i]) = "Ok"
<1> DEFINE R == [i \in DOMAIN s |-> TokenResult(s[i])]
<1>1. Each(s, TokenResult) = R /\ DOMAIN R \in SUBSET Nat /\ DOMAIN R = DOMAIN s
  BY SeqFacts DEF Each
<1>2. FirstError(R) = "Ok" <=> \A i \in DOMAIN s : R[i] = "Ok"
  <2> HIDE DEF R
  <2> QED BY <1>1, FirstErrorOk
<1> QED BY <1>1, <1>2

LEMMA EachExpression ==
  ASSUME NEW s \in Seq(Texts)
  PROVE  FirstError(Each(s, ExpressionResult)) = "Ok"
           <=> \A i \in DOMAIN s : ExpressionResult(s[i]) = "Ok"
<1> DEFINE R == [i \in DOMAIN s |-> ExpressionResult(s[i])]
<1>1. Each(s, ExpressionResult) = R /\ DOMAIN R \in SUBSET Nat /\ DOMAIN R = DOMAIN s
  BY SeqFacts DEF Each
<1>2. FirstError(R) = "Ok" <=> \A i \in DOMAIN s : R[i] = "Ok"
  <2> HIDE DEF R
  <2> QED BY <1>1, FirstErrorOk
<1> QED BY <1>1, <1>2

LEMMA WithinLimit ==
  ASSUME NEW S, NEW s \in Seq(S), NEW n \in Nat
  PROVE  LimitResult(s, n) = "Ok" <=> Len(s) <= n
  BY SeqFacts DEF LimitResult

LEMMA Limits ==
  /\ MaxResourceTypes \in Nat /\ MaxAudienceEntries \in Nat /\ MaxSelectors \in Nat
  /\ MaxSelectorValues \in Nat /\ MaxExpressions \in Nat /\ MaxOperations \in Nat
  BY DocumentAssumption

LEMMA ItemsOfSome ==
  ASSUME NEW s, s # None
  PROVE  Items(Some(s)) = s /\ Items(s) = s
  BY DEF Items, Some

LEMMA ItemsAreList ==
  ASSUME NEW S, NEW option \in Option(Seq(S))
  PROVE  Items(option) \in Seq(S)
  BY DEF Option, Items

-----------------------------------------------------------------------------
(* Selectors.                                                              *)

Fits(selector, values, expressions) ==
  /\ TokenResult(selector.kind) = "Ok"
  /\ Len(values) <= MaxSelectorValues /\ \A i \in DOMAIN values : TextResult(values[i]) = "Ok"
  /\ Len(expressions) <= MaxExpressions
  /\ \A i \in DOMAIN expressions : ExpressionResult(expressions[i]) = "Ok"
  /\ selector.all = (values = <<>> /\ expressions = <<>>)

LEMMA SelectorParts ==
  ASSUME NEW raw, NEW values \in Seq(Texts), NEW expressions \in Seq(Texts),
         values = Items(raw.values), expressions = Items(raw.expressions)
  PROVE  SelectorResult(raw) = "Ok" <=> Fits(raw, values, expressions)
<1> DEFINE E1 == TokenResult(raw.kind)
           E2 == LimitResult(values, MaxSelectorValues)
           E3 == FirstError(Each(values, TextResult))
           E4 == LimitResult(expressions, MaxExpressions)
           E5 == FirstError(Each(expressions, ExpressionResult))
           E6 == ShapeResult(raw.all, values = <<>> /\ expressions = <<>>, "InvalidSelectorShape")
<1>1. SelectorResult(raw) = FirstError(<<E1, E2, E3, E4, E5, E6>>)
  BY DEF SelectorResult
<1>2. SelectorResult(raw) = "Ok" <=> /\ E1 = "Ok" /\ E2 = "Ok" /\ E3 = "Ok"
                                     /\ E4 = "Ok" /\ E5 = "Ok" /\ E6 = "Ok"
  <2> HIDE DEF E1, E2, E3, E4, E5, E6
  <2> QED BY <1>1, FirstOf6
<1>3. E2 = "Ok" <=> Len(values) <= MaxSelectorValues
  BY WithinLimit, Limits
<1>4. E4 = "Ok" <=> Len(expressions) <= MaxExpressions
  BY WithinLimit, Limits
<1>5. E3 = "Ok" <=> \A i \in DOMAIN values : TextResult(values[i]) = "Ok"
  BY EachText
<1>6. E5 = "Ok" <=> \A i \in DOMAIN expressions : ExpressionResult(expressions[i]) = "Ok"
  BY EachExpression
<1>7. E6 = "Ok" <=> raw.all = (values = <<>> /\ expressions = <<>>)
  BY DEF ShapeResult
<1> HIDE DEF E1, E2, E3, E4, E5, E6
<1>8. E1 = TokenResult(raw.kind)
  BY DEF E1
<1> QED BY <1>2, <1>3, <1>4, <1>5, <1>6, <1>7, <1>8, Zenon DEF Fits

NormalSelector(s) ==
  /\ s \in KeptSelector /\ NormalToken(s.kind)
  /\ Len(s.values) <= MaxSelectorValues /\ \A i \in DOMAIN s.values : NormalText(s.values[i])
  /\ Len(s.expressions) <= MaxExpressions
  /\ \A i \in DOMAIN s.expressions : NormalExpression(s.expressions[i])
  /\ s.all = (s.values = <<>> /\ s.expressions = <<>>)

LEMMA SelectorIsNormal ==
  ASSUME NEW raw \in AnySelector, SelectorResult(raw) = "Ok"
  PROVE  LET s == Selector(raw)
         IN  NormalSelector(s) /\ \A i, j \in DOMAIN s.values : s.values[i] = s.values[j] => i = j
<1> DEFINE values      == Items(raw.values)
           expressions == Items(raw.expressions)
           trimmed     == Each(values, LAMBDA t : Trim[t])
           kept        == Deduplicated(trimmed)
           read        == Each(expressions, Expression)
           s           == Selector(raw)
<1>1. values \in Seq(Texts) /\ expressions \in Seq(Texts) /\ raw.kind \in Texts /\ raw.all \in BOOLEAN
  BY ItemsAreList DEF AnySelector
<1>2. Fits(raw, values, expressions)
  <2> HIDE DEF values, expressions
  <2> QED BY <1>1, SelectorParts DEF values, expressions
<1>3. /\ s.kind = Trim[raw.kind] /\ s.all = raw.all /\ s.values = kept /\ s.expressions = read
      /\ DOMAIN s = {"kind", "all", "values", "expressions"} /\ s = [f \in DOMAIN s |-> s[f]]
  BY DEF Selector, SelectorValues
<1> HIDE DEF values, expressions, s
<1>4. /\ trimmed \in Seq(Texts) /\ Len(trimmed) = Len(values) /\ DOMAIN trimmed = DOMAIN values
      /\ trimmed = <<>> <=> values = <<>>
      /\ \A i \in DOMAIN values : trimmed[i] = Trim[values[i]]
  BY <1>1, TrimmedList
<1> HIDE DEF trimmed
<1>5. /\ kept \in Seq(Texts) /\ Len(kept) <= Len(trimmed)
      /\ \A n \in DOMAIN kept : \E i \in DOMAIN trimmed : kept[n] = trimmed[i]
      /\ \A m, n \in DOMAIN kept : kept[m] = kept[n] => m = n
      /\ kept = <<>> <=> trimmed = <<>>
  BY <1>4, DeduplicatedFacts
<1>6. \A i \in DOMAIN values : values[i] \in Texts /\ NormalText(Trim[values[i]])
  BY <1>1, <1>2, SeqFacts, TextIsNormal DEF Fits
<1>7. \A i \in DOMAIN expressions : NormalExpression(Expression(expressions[i]))
  BY <1>1, <1>2, SeqFacts, ExpressionIsNormal DEF Fits
<1>8. /\ read \in Seq(Texts) /\ Len(read) = Len(expressions) /\ DOMAIN read = DOMAIN expressions
      /\ read = <<>> <=> expressions = <<>>
      /\ \A i \in DOMAIN expressions : read[i] = Expression(expressions[i])
  BY <1>1, <1>7, ExpressionList DEF NormalExpression
<1> HIDE DEF kept, read
<1>9. \A i \in DOMAIN kept : NormalText(kept[i])
  BY <1>4, <1>5, <1>6
<1>10. \A i \in DOMAIN read : NormalExpression(read[i])
  BY <1>7, <1>8
<1>11. Len(kept) <= MaxSelectorValues /\ Len(read) <= MaxExpressions
  BY <1>1, <1>2, <1>4, <1>5, <1>8, Limits, SeqFacts DEF Fits
<1>12. NormalToken(s.kind)
  BY <1>1, <1>2, <1>3, TokenIsNormal DEF Fits
<1>13. s.all = (s.values = <<>> /\ s.expressions = <<>>)
  BY <1>2, <1>3, <1>4, <1>5, <1>8 DEF Fits
<1>14. s \in KeptSelector
  BY <1>1, <1>3, <1>5, <1>8, <1>12 DEF KeptSelector, NormalToken
<1>15. NormalSelector(s)
  BY <1>3, <1>9, <1>10, <1>11, <1>12, <1>13, <1>14 DEF NormalSelector
<1>16. \A i, j \in DOMAIN s.values : s.values[i] = s.values[j] => i = j
  BY <1>3, <1>5
<1> QED BY <1>15, <1>16 DEF s

-----------------------------------------------------------------------------
LEMMA KeptFields ==
  ASSUME NEW s \in KeptSelector
  PROVE  /\ s.kind \in Texts /\ s.all \in BOOLEAN
         /\ s.values \in Seq(Texts) /\ s.expressions \in Seq(Texts)
         /\ DOMAIN s = {"kind", "all", "values", "expressions"} /\ s = [f \in DOMAIN s |-> s[f]]
         /\ Items(s.values) = s.values /\ Items(s.expressions) = s.expressions
<1>1. /\ s.kind \in Texts /\ s.all \in BOOLEAN
      /\ s.values \in Seq(Texts) /\ s.expressions \in Seq(Texts)
      /\ DOMAIN s = {"kind", "all", "values", "expressions"} /\ s = [f \in DOMAIN s |-> s[f]]
  BY DEF KeptSelector
<1>2. s.values # None /\ s.expressions # None
  BY <1>1, NullAssumption
<1> QED BY <1>1, <1>2 DEF Items

LEMMA LoadedSelectorIs ==
  ASSUME NEW record \in KeptSelector
  PROVE  LET s == LoadedSelector(record)
         IN  /\ s.kind = Trim[record.kind] /\ s.all = record.all
             /\ s.values = Each(record.values, LAMBDA t : Trim[t])
             /\ s.expressions = Each(record.expressions, Expression)
             /\ DOMAIN s = {"kind", "all", "values", "expressions"} /\ s = [f \in DOMAIN s |-> s[f]]
  BY KeptFields DEF LoadedSelector, Selector

LEMMA LoadedParts ==
  ASSUME NEW record \in KeptSelector
  PROVE  LoadedSelectorResult(record) = "Ok" <=> Fits(record, record.values, record.expressions)
<1>1. SelectorResult(record) = "Ok" <=> Fits(record, record.values, record.expressions)
  BY KeptFields, SelectorParts
<1>2. /\ LimitResult(record.values, MaxSelectorValues) = "Ok" <=> Len(record.values) <= MaxSelectorValues
      /\ LimitResult(record.expressions, MaxExpressions) = "Ok" <=> Len(record.expressions) <= MaxExpressions
  BY KeptFields, WithinLimit, Limits
<1>3. LoadedSelectorResult(record) = "Ok" <=>
        /\ LimitResult(record.values, MaxSelectorValues) = "Ok"
        /\ LimitResult(record.expressions, MaxExpressions) = "Ok"
        /\ SelectorResult(record) = "Ok"
  <2> DEFINE E1 == LimitResult(record.values, MaxSelectorValues)
             E2 == LimitResult(record.expressions, MaxExpressions)
             E3 == SelectorResult(record)
  <2>1. LoadedSelectorResult(record) = FirstError(<<E1, E2, E3>>)
    BY DEF LoadedSelectorResult
  <2> HIDE DEF E1, E2, E3
  <2>2. LoadedSelectorResult(record) = "Ok" <=> E1 = "Ok" /\ E2 = "Ok" /\ E3 = "Ok"
    BY <2>1, FirstOf3
  <2> QED BY <2>2 DEF E1, E2, E3
<1> QED BY <1>1, <1>2, <1>3, Zenon DEF Fits

LEMMA LoadedIsNormal ==
  ASSUME NEW record \in KeptSelector, LoadedSelectorResult(record) = "Ok"
  PROVE  NormalSelector(LoadedSelector(record))
<1> DEFINE values      == record.values
           expressions == record.expressions
           kept        == Each(values, LAMBDA t : Trim[t])
           read        == Each(expressions, Expression)
           s           == LoadedSelector(record)
<1>1. values \in Seq(Texts) /\ expressions \in Seq(Texts) /\ record.kind \in Texts /\ record.all \in BOOLEAN
  BY KeptFields
<1>2. Fits(record, values, expressions)
  BY LoadedParts
<1>3. /\ s.kind = Trim[record.kind] /\ s.all = record.all /\ s.values = kept /\ s.expressions = read
      /\ DOMAIN s = {"kind", "all", "values", "expressions"} /\ s = [f \in DOMAIN s |-> s[f]]
  BY LoadedSelectorIs
<1> HIDE DEF values, expressions, s
<1>4. /\ kept \in Seq(Texts) /\ Len(kept) = Len(values) /\ DOMAIN kept = DOMAIN values
      /\ kept = <<>> <=> values = <<>>
      /\ \A i \in DOMAIN values : kept[i] = Trim[values[i]]
  BY <1>1, TrimmedList
<1>6. \A i \in DOMAIN values : values[i] \in Texts /\ NormalText(Trim[values[i]])
  BY <1>1, <1>2, SeqFacts, TextIsNormal DEF Fits
<1>7. \A i \in DOMAIN expressions : NormalExpression(Expression(expressions[i]))
  BY <1>1, <1>2, SeqFacts, ExpressionIsNormal DEF Fits
<1>8. /\ read \in Seq(Texts) /\ Len(read) = Len(expressions) /\ DOMAIN read = DOMAIN expressions
      /\ read = <<>> <=> expressions = <<>>
      /\ \A i \in DOMAIN expressions : read[i] = Expression(expressions[i])
  BY <1>1, <1>7, ExpressionList DEF NormalExpression
<1> HIDE DEF kept, read
<1>9. \A i \in DOMAIN kept : NormalText(kept[i])
  BY <1>4, <1>6
<1>10. \A i \in DOMAIN read : NormalExpression(read[i])
  BY <1>7, <1>8
<1>11. Len(kept) <= MaxSelectorValues /\ Len(read) <= MaxExpressions
  BY <1>2, <1>4, <1>8 DEF Fits
<1>12. NormalToken(s.kind)
  BY <1>1, <1>2, <1>3, TokenIsNormal DEF Fits
<1>13. s.all = (s.values = <<>> /\ s.expressions = <<>>)
  BY <1>2, <1>3, <1>4, <1>8 DEF Fits
<1>14. s \in KeptSelector
  BY <1>1, <1>3, <1>4, <1>8, <1>12 DEF KeptSelector, NormalToken
<1>15. NormalSelector(s)
  BY <1>3, <1>9, <1>10, <1>11, <1>12, <1>13, <1>14 DEF NormalSelector
<1> QED BY <1>15 DEF s

LEMMA NormalFits ==
  ASSUME NEW s, NormalSelector(s)
  PROVE  Fits(s, s.values, s.expressions)
  BY DEF NormalSelector, Fits, NormalToken, NormalText, NormalExpression

LEMMA SameRecord ==
  ASSUME NEW s, NEW t, DOMAIN s = DOMAIN t, s = [f \in DOMAIN s |-> s[f]],
         t = [f \in DOMAIN t |-> t[f]], \A f \in DOMAIN s : s[f] = t[f]
  PROVE  s = t
  OBVIOUS

\* What is in normal form is trimmed and read as it is.
LEMMA NormalListsStay ==
  ASSUME NEW s, NormalSelector(s)
  PROVE  /\ Trim[s.kind] = s.kind
         /\ Each(s.values, LAMBDA t : Trim[t]) = s.values
         /\ Each(s.expressions, Expression) = s.expressions
<1>1. /\ s \in KeptSelector /\ Trim[s.kind] = s.kind
      /\ \A i \in DOMAIN s.values : Trim[s.values[i]] = s.values[i]
      /\ \A i \in DOMAIN s.expressions : /\ Expression(s.expressions[i]) = s.expressions[i]
                                         /\ s.expressions[i] \in Texts
  BY DEF NormalSelector, NormalToken, NormalText, NormalExpression
<1>2. s.values \in Seq(Texts) /\ s.expressions \in Seq(Texts)
  BY <1>1, KeptFields
<1> DEFINE e == Each(s.values, LAMBDA t : Trim[t])
           x == Each(s.expressions, Expression)
<1>3. e \in Seq(Texts) /\ DOMAIN e = DOMAIN s.values /\ \A i \in DOMAIN s.values : e[i] = Trim[s.values[i]]
  BY <1>2, TrimmedList
<1>4. /\ x \in Seq(Texts) /\ DOMAIN x = DOMAIN s.expressions
      /\ \A i \in DOMAIN s.expressions : x[i] = Expression(s.expressions[i])
  BY <1>1, <1>2, ExpressionList
<1> HIDE DEF e, x
<1>5. e = s.values
  BY <1>1, <1>2, <1>3, SameSeq
<1>6. x = s.expressions
  BY <1>1, <1>2, <1>4, SameSeq
<1> QED BY <1>1, <1>5, <1>6 DEF e, x

LEMMA NormalSelectorLoads ==
  ASSUME NEW s, NormalSelector(s)
  PROVE  LoadedSelectorResult(s) = "Ok" /\ LoadedSelector(s) = s
<1>1. s \in KeptSelector
  BY DEF NormalSelector
<1>2. LoadedSelectorResult(s) = "Ok"
  BY <1>1, LoadedParts, NormalFits
<1>3. LET l == LoadedSelector(s)
      IN  /\ l.kind = s.kind /\ l.all = s.all /\ l.values = s.values
          /\ l.expressions = s.expressions
          /\ DOMAIN l = {"kind", "all", "values", "expressions"} /\ l = [f \in DOMAIN l |-> l[f]]
  BY <1>1, LoadedSelectorIs, NormalListsStay
<1> DEFINE l == LoadedSelector(s)
<1> HIDE DEF l
<1>4. l = s
  BY <1>1, <1>3, KeptFields, SameRecord DEF l
<1> QED BY <1>2, <1>4 DEF l

LEMMA RawSelectorIs ==
  ASSUME NEW s \in KeptSelector
  PROVE  LET r == RawSelector(s)
         IN  /\ r.kind = s.kind /\ r.all = s.all
             /\ Items(r.values) = s.values /\ Items(r.expressions) = s.expressions
             /\ r \in AnySelector
<1> DEFINE r == RawSelector(s)
<1>1. /\ s.kind \in Texts /\ s.all \in BOOLEAN
      /\ s.values \in Seq(Texts) /\ s.expressions \in Seq(Texts)
      /\ DOMAIN s = {"kind", "all", "values", "expressions"} /\ s = [f \in DOMAIN s |-> s[f]]
  BY KeptFields
<1>2. /\ r.kind = s.kind /\ r.all = s.all /\ r.values = Some(s.values)
      /\ r.expressions = Some(s.expressions)
      /\ DOMAIN r = {"kind", "all", "values", "expressions"} /\ r = [f \in DOMAIN r |-> r[f]]
  BY <1>1 DEF RawSelector
<1> HIDE DEF r
<1>3. s.values # None /\ s.expressions # None
  BY <1>1, NullAssumption
<1>4. Items(r.values) = s.values /\ Items(r.expressions) = s.expressions
  BY <1>2, <1>3, ItemsOfSome
<1>5. r.values \in Option(Seq(Texts)) /\ r.expressions \in Option(Seq(Texts))
  BY <1>1, <1>2 DEF Some, Option
<1>6. r \in AnySelector
  BY <1>1, <1>2, <1>5 DEF AnySelector
<1> QED BY <1>2, <1>4, <1>6 DEF r

LEMMA NormalSelectorIsAccepted ==
  ASSUME NEW s, NormalSelector(s)
  PROVE  /\ SelectorResult(RawSelector(s)) = "Ok"
         /\ Selector(RawSelector(s)) = [s EXCEPT !.values = Deduplicated(@)]
<1> DEFINE r == RawSelector(s)
<1>1. /\ s \in KeptSelector /\ s.values \in Seq(Texts) /\ s.expressions \in Seq(Texts)
      /\ DOMAIN s = {"kind", "all", "values", "expressions"} /\ s = [f \in DOMAIN s |-> s[f]]
  BY KeptFields DEF NormalSelector
<1>2. /\ r.kind = s.kind /\ r.all = s.all
      /\ Items(r.values) = s.values /\ Items(r.expressions) = s.expressions
  BY <1>1, RawSelectorIs
<1> HIDE DEF r
<1>3. SelectorResult(r) = "Ok"
  <2>1. Fits(r, s.values, s.expressions)
    BY <1>2, NormalFits DEF Fits
  <2> QED BY <1>1, <1>2, <2>1, SelectorParts
<1>4. Selector(r) = [s EXCEPT !.values = Deduplicated(@)]
  <2> DEFINE d == Deduplicated(s.values)
  <2>1. SelectorValues(r) = d
    BY <1>2, NormalListsStay DEF SelectorValues
  <2>2. Selector(r) = [kind |-> s.kind, all |-> s.all, values |-> d, expressions |-> s.expressions]
    BY <1>2, <2>1, NormalListsStay DEF Selector
  <2> HIDE DEF d
  <2>3. [s EXCEPT !.values = d] = [kind |-> s.kind, all |-> s.all, values |-> d,
                                   expressions |-> s.expressions]
    BY <1>1
  <2> QED BY <2>2, <2>3 DEF d
<1> QED BY <1>3, <1>4 DEF r

LEMMA DistinctSelectorStays ==
  ASSUME NEW s, NormalSelector(s),
         \A i, j \in DOMAIN s.values : s.values[i] = s.values[j] => i = j
  PROVE  Selector(RawSelector(s)) = s
<1>1. s.values \in Seq(Texts) /\ s = [f \in DOMAIN s |-> s[f]]
  BY KeptFields DEF NormalSelector
<1>2. Deduplicated(s.values) = s.values
  BY <1>1, DistinctStays
<1> QED BY <1>1, <1>2, NormalSelectorIsAccepted

-----------------------------------------------------------------------------
(* Lists of selectors, and scopes.                                         *)

LEMMA SameSelectorIsSymmetric ==
  ASSUME NEW s \in KeptSelector, NEW t \in KeptSelector, SameSelector(s, t)
  PROVE  SameSelector(t, s)
<1>1. [s EXCEPT !.kind = t.kind] = t /\ SameKind(s.kind, t.kind)
  BY DEF SameSelector
<1>2. SameKind(t.kind, s.kind)
  BY <1>1 DEF SameKind
<1>3. s.all = t.all /\ s.values = t.values /\ s.expressions = t.expressions
  BY <1>1 DEF KeptSelector
<1>4. [t EXCEPT !.kind = s.kind] = s
  BY <1>3 DEF KeptSelector
<1> QED BY <1>2, <1>4 DEF SameSelector

LEMMA UniqueSelectors ==
  ASSUME NEW S, NEW s \in Seq(S)
  PROVE  UniqueResult(s, SelectorResult, Alike, "DuplicateSelector") = "Ok" <=>
           \A i \in DOMAIN s : SelectorResult(s[i]) = "Ok" /\ \A j \in 1 .. i - 1 : ~Alike(s[j], s[i])
<1> DEFINE R == [i \in DOMAIN s |->
                   IF SelectorResult(s[i]) # "Ok" THEN SelectorResult(s[i])
                   ELSE IF \E j \in 1 .. i - 1 : Alike(s[j], s[i]) THEN "DuplicateSelector" ELSE "Ok"]
<1>1. UniqueResult(s, SelectorResult, Alike, "DuplicateSelector") = FirstError(R)
  BY DEF UniqueResult
<1>2. DOMAIN R \in SUBSET Nat /\ DOMAIN R = DOMAIN s
  BY SeqFacts
<1>3. FirstError(R) = "Ok" <=> \A i \in DOMAIN s : R[i] = "Ok"
  <2> HIDE DEF R
  <2> QED BY <1>2, FirstErrorOk
<1>4. ASSUME NEW i \in DOMAIN s
      PROVE  R[i] = "Ok" <=>
               SelectorResult(s[i]) = "Ok" /\ \A j \in 1 .. i - 1 : ~Alike(s[j], s[i])
  OBVIOUS
<1> HIDE DEF R
<1> QED BY <1>1, <1>3, <1>4

LEMMA UniqueLoaded ==
  ASSUME NEW S, NEW s \in Seq(S)
  PROVE  LoadedSelectorsResult(s) = "Ok" <=>
           \A i \in DOMAIN s :
             /\ LoadedSelectorResult(s[i]) = "Ok"
             /\ \A j \in 1 .. i - 1 : ~SameSelector(LoadedSelector(s[j]), LoadedSelector(s[i]))
<1> DEFINE Same(l, r) == SameSelector(LoadedSelector(l), LoadedSelector(r))
           R == [i \in DOMAIN s |->
                   IF LoadedSelectorResult(s[i]) # "Ok" THEN LoadedSelectorResult(s[i])
                   ELSE IF \E j \in 1 .. i - 1 : Same(s[j], s[i]) THEN "DuplicateSelector" ELSE "Ok"]
<1>1. LoadedSelectorsResult(s) = FirstError(R)
  BY DEF LoadedSelectorsResult, UniqueResult
<1>2. DOMAIN R \in SUBSET Nat /\ DOMAIN R = DOMAIN s
  BY SeqFacts
<1>3. FirstError(R) = "Ok" <=> \A i \in DOMAIN s : R[i] = "Ok"
  <2> HIDE DEF R
  <2> QED BY <1>2, FirstErrorOk
<1> HIDE DEF Same
<1>4. ASSUME NEW i \in DOMAIN s
      PROVE  R[i] = "Ok" <=>
               LoadedSelectorResult(s[i]) = "Ok" /\ \A j \in 1 .. i - 1 : ~Same(s[j], s[i])
  OBVIOUS
<1> HIDE DEF R
<1>5. LoadedSelectorsResult(s) = "Ok" <=>
        \A i \in DOMAIN s :
          LoadedSelectorResult(s[i]) = "Ok" /\ \A j \in 1 .. i - 1 : ~Same(s[j], s[i])
  BY <1>1, <1>3, <1>4
<1> QED BY <1>5 DEF Same

\* Neither as they are nor as they would be accepted are two the same.
DistinctSelectors(l) ==
  \A i, j \in DOMAIN l :
    \/ SameSelector(l[i], l[j])
    \/ SameSelector(Selector(RawSelector(l[i])), Selector(RawSelector(l[j])))
    => i = j

NormalList(l) ==
  /\ l \in Seq(KeptSelector) /\ Len(l) <= MaxSelectors
  /\ \A i \in DOMAIN l : NormalSelector(l[i])
  /\ DistinctSelectors(l)

LEMMA SelectorsParts ==
  ASSUME NEW option \in Option(Seq(AnySelector))
  PROVE  SelectorsResult(option) = "Ok" <=>
           /\ Len(Items(option)) <= MaxSelectors
           /\ \A i \in DOMAIN Items(option) :
                /\ SelectorResult(Items(option)[i]) = "Ok"
                /\ \A j \in 1 .. i - 1 : ~Alike(Items(option)[j], Items(option)[i])
<1> DEFINE s == Items(option)
           E1 == LimitResult(s, MaxSelectors)
           E2 == UniqueResult(s, SelectorResult, Alike, "DuplicateSelector")
<1>1. SelectorsResult(option) = FirstError(<<E1, E2>>)
  BY DEF SelectorsResult
<1>2. s \in Seq(AnySelector)
  BY ItemsAreList
<1> HIDE DEF s
<1>3. E1 = "Ok" <=> Len(s) <= MaxSelectors
  BY <1>2, WithinLimit, Limits
<1>4. E2 = "Ok" <=> \A i \in DOMAIN s : /\ SelectorResult(s[i]) = "Ok"
                                         /\ \A j \in 1 .. i - 1 : ~Alike(s[j], s[i])
  BY <1>2, UniqueSelectors
<1> HIDE DEF E1, E2
<1>5. SelectorsResult(option) = "Ok" <=> E1 = "Ok" /\ E2 = "Ok"
  BY <1>1, FirstOf2
<1> QED BY <1>3, <1>4, <1>5 DEF s

LEMMA SelectorsAreNormal ==
  ASSUME NEW option \in Option(Seq(AnySelector)), SelectorsResult(option) = "Ok"
  PROVE  NormalList(Selectors(option)) /\ (Selectors(option) = <<>> <=> Items(option) = <<>>)
<1> DEFINE s == Items(option)
           l == Selectors(option)
<1>1. s \in Seq(AnySelector) /\ Len(s) <= MaxSelectors
  BY ItemsAreList, SelectorsParts
<1>2. ASSUME NEW i \in DOMAIN s
      PROVE  /\ SelectorResult(s[i]) = "Ok" /\ s[i] \in AnySelector
             /\ \A j \in 1 .. i - 1 : ~Alike(s[j], s[i])
  BY SelectorsParts, <1>1, SeqFacts
<1>3. Mapped(l, s) /\ \A i \in DOMAIN s : l[i] = Selector(s[i])
  <2>1. l = [i \in DOMAIN s |-> Selector(s[i])]
    BY DEF Selectors, Each
  <2> HIDE DEF l, s
  <2> QED BY <2>1 DEF Mapped
<1> HIDE DEF s, l
<1>4. ASSUME NEW i \in DOMAIN s
      PROVE  /\ l[i] \in KeptSelector /\ NormalSelector(l[i])
             /\ Selector(RawSelector(l[i])) = l[i]
  BY <1>2, <1>3, SelectorIsNormal, DistinctSelectorStays DEF NormalSelector
<1>5. /\ l \in Seq(KeptSelector) /\ Len(l) = Len(s) /\ DOMAIN l = DOMAIN s
      /\ l = <<>> <=> s = <<>>
  BY <1>1, <1>3, <1>4, MappedSeq
<1>6. DOMAIN s = 1 .. Len(s) /\ Len(s) \in Nat
  BY <1>1, SeqFacts
<1>7. \A i \in DOMAIN s : \A j \in 1 .. i - 1 : ~SameSelector(l[j], l[i])
  <2> SUFFICES ASSUME NEW i \in DOMAIN s, NEW j \in 1 .. i - 1
               PROVE  ~SameSelector(l[j], l[i])
    OBVIOUS
  <2>1. j \in DOMAIN s
    BY <1>6
  <2> QED BY <1>2, <1>3, <2>1 DEF Alike
<1>8. ASSUME NEW i \in DOMAIN s, NEW j \in DOMAIN s, SameSelector(l[i], l[j])
      PROVE  i = j
  <2>1. SameSelector(l[j], l[i])
    BY <1>4, <1>8, SameSelectorIsSymmetric
  <2>2. CASE i < j
    BY <1>6, <1>7, <1>8, <2>2, i \in 1 .. j - 1
  <2>3. CASE j < i
    BY <1>6, <1>7, <2>1, <2>3, j \in 1 .. i - 1
  <2> QED BY <1>6, <2>2, <2>3
<1>9. DistinctSelectors(l)
  BY <1>4, <1>5, <1>8 DEF DistinctSelectors
<1> QED BY <1>1, <1>4, <1>5, <1>9 DEF NormalList, s, l

LEMMA RawSelectorsAre ==
  ASSUME NEW l \in Seq(KeptSelector)
  PROVE  LET option == RawSelectors(l)
             raws   == Items(option)
         IN  /\ option \in Option(Seq(AnySelector)) /\ raws \in Seq(AnySelector)
             /\ Len(raws) = Len(l) /\ DOMAIN raws = DOMAIN l
             /\ raws = <<>> <=> l = <<>>
             /\ \A i \in DOMAIN l : raws[i] = RawSelector(l[i])
<1> DEFINE e == Each(l, RawSelector)
<1>1. Mapped(e, l) /\ \A i \in DOMAIN l : e[i] = RawSelector(l[i])
  <2>1. e = [i \in DOMAIN l |-> RawSelector(l[i])]
    BY DEF Each
  <2> HIDE DEF e
  <2> QED BY <2>1 DEF Mapped
<1> HIDE DEF e
<1>2. \A i \in DOMAIN l : e[i] \in AnySelector
  BY <1>1, SeqFacts, RawSelectorIs
<1>3. /\ e \in Seq(AnySelector) /\ Len(e) = Len(l) /\ DOMAIN e = DOMAIN l
      /\ e = <<>> <=> l = <<>>
  BY <1>1, <1>2, MappedSeq
<1>4. RawSelectors(l) = Some(e)
  BY DEF RawSelectors, e
<1>5. e # None
  BY <1>3, NullAssumption
<1>6. Items(RawSelectors(l)) = e
  BY <1>4, <1>5, ItemsOfSome
<1>7. Some(e) \in Option(Seq(AnySelector))
  BY <1>3 DEF Some, Option
<1> QED BY <1>1, <1>3, <1>4, <1>6, <1>7

LEMMA LoadedSelectorsAre ==
  ASSUME NEW l \in Seq(KeptSelector), \A i \in DOMAIN l : LoadedSelectorResult(l[i]) = "Ok"
  PROVE  LET n == LoadedSelectors(l)
         IN  /\ n \in Seq(KeptSelector) /\ Len(n) = Len(l) /\ DOMAIN n = DOMAIN l
             /\ n = <<>> <=> l = <<>>
             /\ \A i \in DOMAIN l : n[i] = LoadedSelector(l[i]) /\ NormalSelector(n[i])
<1> DEFINE n == LoadedSelectors(l)
<1>1. Mapped(n, l) /\ \A i \in DOMAIN l : n[i] = LoadedSelector(l[i])
  <2>1. n = [i \in DOMAIN l |-> LoadedSelector(l[i])]
    BY DEF LoadedSelectors, Each
  <2> HIDE DEF n
  <2> QED BY <2>1 DEF Mapped
<1> HIDE DEF n
<1>2. \A i \in DOMAIN l : NormalSelector(n[i]) /\ n[i] \in KeptSelector
  BY <1>1, SeqFacts, LoadedIsNormal DEF NormalSelector
<1>3. /\ n \in Seq(KeptSelector) /\ Len(n) = Len(l) /\ DOMAIN n = DOMAIN l
      /\ n = <<>> <=> l = <<>>
  BY <1>1, <1>2, MappedSeq
<1> QED BY <1>1, <1>2, <1>3 DEF n

LEMMA LoadedSelectorsAreNormal ==
  ASSUME NEW l \in Seq(KeptSelector), Len(l) <= MaxSelectors, LoadedSelectorsResult(l) = "Ok",
         SelectorsResult(RawSelectors(LoadedSelectors(l))) = "Ok"
  PROVE  NormalList(LoadedSelectors(l)) /\ (LoadedSelectors(l) = <<>> <=> l = <<>>)
<1> DEFINE n    == LoadedSelectors(l)
           raws == Items(RawSelectors(n))
<1>1. \A i \in DOMAIN l :
        /\ LoadedSelectorResult(l[i]) = "Ok"
        /\ \A j \in 1 .. i - 1 : ~SameSelector(LoadedSelector(l[j]), LoadedSelector(l[i]))
  BY UniqueLoaded
<1>2. /\ n \in Seq(KeptSelector) /\ Len(n) = Len(l) /\ DOMAIN n = DOMAIN l
      /\ n = <<>> <=> l = <<>>
      /\ \A i \in DOMAIN l : n[i] = LoadedSelector(l[i]) /\ NormalSelector(n[i])
  BY <1>1, LoadedSelectorsAre
<1> HIDE DEF n
<1>3. /\ RawSelectors(n) \in Option(Seq(AnySelector)) /\ DOMAIN raws = DOMAIN n
      /\ \A i \in DOMAIN n : raws[i] = RawSelector(n[i])
  BY <1>2, RawSelectorsAre
<1>4. \A i \in DOMAIN raws : \A j \in 1 .. i - 1 : ~Alike(raws[j], raws[i])
  <2>1. SelectorsResult(RawSelectors(n)) = "Ok"
    BY DEF n
  <2> QED BY <1>3, <2>1, SelectorsParts
<1> HIDE DEF raws
<1>5. DOMAIN n = 1 .. Len(n) /\ Len(n) \in Nat
  BY <1>2, SeqFacts
<1> DEFINE Taken(i) == Selector(RawSelector(n[i]))
<1>6. ASSUME NEW i \in DOMAIN n, NEW j \in 1 .. i - 1
      PROVE  ~SameSelector(n[j], n[i]) /\ ~SameSelector(Taken(j), Taken(i))
  <2>1. j \in DOMAIN n
    BY <1>5
  <2> QED BY <1>1, <1>2, <1>3, <1>4, <2>1 DEF Alike
<1>7. \A i \in DOMAIN n : n[i] \in KeptSelector /\ Taken(i) \in KeptSelector
  <2> SUFFICES ASSUME NEW i \in DOMAIN n
               PROVE  n[i] \in KeptSelector /\ Taken(i) \in KeptSelector
    OBVIOUS
  <2>1. NormalSelector(n[i])
    BY <1>2
  <2>2. NormalSelector(Taken(i))
    BY <2>1, NormalSelectorIsAccepted, RawSelectorIs, SelectorIsNormal DEF NormalSelector
  <2> QED BY <2>1, <2>2 DEF NormalSelector
<1> HIDE DEF Taken
<1>8. ASSUME NEW i \in DOMAIN n, NEW j \in DOMAIN n,
             SameSelector(n[i], n[j]) \/ SameSelector(Taken(i), Taken(j))
      PROVE  i = j
  <2>1. SameSelector(n[j], n[i]) \/ SameSelector(Taken(j), Taken(i))
    BY <1>7, <1>8, SameSelectorIsSymmetric
  <2>2. CASE i < j
    BY <1>5, <1>6, <1>8, <2>2, i \in 1 .. j - 1
  <2>3. CASE j < i
    BY <1>5, <1>6, <2>1, <2>3, j \in 1 .. i - 1
  <2> QED BY <1>5, <2>2, <2>3
<1>9. DistinctSelectors(n)
  BY <1>8 DEF DistinctSelectors, Taken
<1> QED BY <1>2, <1>9 DEF NormalList, n

LEMMA NormalListLoads ==
  ASSUME NEW l, NormalList(l)
  PROVE  /\ LimitResult(l, MaxSelectors) = "Ok" /\ LoadedSelectorsResult(l) = "Ok"
         /\ LoadedSelectors(l) = l
<1>1. l \in Seq(KeptSelector) /\ \A i \in DOMAIN l : NormalSelector(l[i])
  BY DEF NormalList
<1>2. LimitResult(l, MaxSelectors) = "Ok"
  BY <1>1, WithinLimit, Limits DEF NormalList
<1>3. \A i \in DOMAIN l : LoadedSelectorResult(l[i]) = "Ok" /\ LoadedSelector(l[i]) = l[i]
  BY <1>1, NormalSelectorLoads
<1>4. DOMAIN l = 1 .. Len(l) /\ Len(l) \in Nat
  BY <1>1, SeqFacts
<1>5. LoadedSelectorsResult(l) = "Ok"
  <2>1. ASSUME NEW i \in DOMAIN l, NEW j \in 1 .. i - 1
        PROVE  ~SameSelector(LoadedSelector(l[j]), LoadedSelector(l[i]))
    <3>1. j \in DOMAIN l /\ j # i
      BY <1>4
    <3> QED BY <1>3, <3>1 DEF NormalList, DistinctSelectors
  <2> QED BY <1>1, <1>3, <2>1, UniqueLoaded
<1>6. LoadedSelectors(l) = l
  <2> DEFINE n == LoadedSelectors(l)
  <2>1. n \in Seq(KeptSelector) /\ DOMAIN n = DOMAIN l /\ \A i \in DOMAIN l : n[i] = LoadedSelector(l[i])
    BY <1>1, <1>3, LoadedSelectorsAre
  <2> HIDE DEF n
  <2>2. n = l
    BY <1>1, <1>3, <2>1, SameSeq
  <2> QED BY <2>2 DEF n
<1> QED BY <1>2, <1>5, <1>6

LEMMA NormalListIsAccepted ==
  ASSUME NEW l, NormalList(l)
  PROVE  /\ RawSelectors(l) \in Option(Seq(AnySelector))
         /\ SelectorsResult(RawSelectors(l)) = "Ok"
         /\ Items(RawSelectors(l)) = <<>> <=> l = <<>>
<1> DEFINE raws == Items(RawSelectors(l))
<1>1. l \in Seq(KeptSelector) /\ \A i \in DOMAIN l : NormalSelector(l[i])
  BY DEF NormalList
<1>2. /\ RawSelectors(l) \in Option(Seq(AnySelector)) /\ Len(raws) = Len(l)
      /\ DOMAIN raws = DOMAIN l /\ (raws = <<>> <=> l = <<>>)
      /\ \A i \in DOMAIN l : raws[i] = RawSelector(l[i])
  BY <1>1, RawSelectorsAre
<1>3. DOMAIN l = 1 .. Len(l) /\ Len(l) \in Nat
  BY <1>1, SeqFacts
<1> HIDE DEF raws
<1>4. \A i \in DOMAIN raws : SelectorResult(raws[i]) = "Ok"
  BY <1>1, <1>2, NormalSelectorIsAccepted
<1>5. ASSUME NEW i \in DOMAIN raws, NEW j \in 1 .. i - 1
      PROVE  ~Alike(raws[j], raws[i])
  <2>1. j \in DOMAIN l /\ j # i
    BY <1>2, <1>3
  <2> QED BY <1>2, <2>1 DEF NormalList, DistinctSelectors, Alike
<1>6. Len(raws) <= MaxSelectors
  BY <1>2 DEF NormalList
<1>7. SelectorsResult(RawSelectors(l)) = "Ok"
  BY <1>2, <1>4, <1>5, <1>6, SelectorsParts DEF raws
<1> QED BY <1>2, <1>7 DEF raws

-----------------------------------------------------------------------------
\* The three fields that scopes and resource types have in common.
NormalLists(s) ==
  NormalList(s.allow) /\ NormalList(s.deny) /\ s.all = (s.allow = <<>>)

NormalScope(s) == s \in KeptScope /\ NormalLists(s)

LEMMA ShapeParts ==
  ASSUME NEW all, NEW allow
  PROVE  ScopeShapeResult(all, allow) = "Ok" <=> all = (allow = <<>>)
  BY DEF ScopeShapeResult, ShapeResult

LEMMA ScopeParts ==
  ASSUME NEW raw
  PROVE  ScopeResult(raw) = "Ok" <=>
           /\ SelectorsResult(raw.allow) = "Ok" /\ SelectorsResult(raw.deny) = "Ok"
           /\ ScopeShapeResult(raw.all, Items(raw.allow)) = "Ok"
<1> DEFINE E1 == SelectorsResult(raw.allow)
           E2 == SelectorsResult(raw.deny)
           E3 == ScopeShapeResult(raw.all, Items(raw.allow))
<1>1. ScopeResult(raw) = FirstError(<<E1, E2, E3>>)
  BY DEF ScopeResult
<1> HIDE DEF E1, E2, E3
<1>2. ScopeResult(raw) = "Ok" <=> E1 = "Ok" /\ E2 = "Ok" /\ E3 = "Ok"
  BY <1>1, FirstOf3
<1> QED BY <1>2 DEF E1, E2, E3

LEMMA LoadedListsParts ==
  ASSUME NEW record
  PROVE  LoadedListsResult(record) = "Ok" <=>
           /\ LimitResult(record.allow, MaxSelectors) = "Ok"
           /\ LimitResult(record.deny, MaxSelectors) = "Ok"
           /\ LoadedSelectorsResult(record.allow) = "Ok"
           /\ LoadedSelectorsResult(record.deny) = "Ok"
<1> DEFINE E1 == LimitResult(record.allow, MaxSelectors)
           E2 == LimitResult(record.deny, MaxSelectors)
           E3 == LoadedSelectorsResult(record.allow)
           E4 == LoadedSelectorsResult(record.deny)
<1>1. LoadedListsResult(record) = FirstError(<<E1, E2, E3, E4>>)
  BY DEF LoadedListsResult
<1> HIDE DEF E1, E2, E3, E4
<1>2. LoadedListsResult(record) = "Ok" <=> E1 = "Ok" /\ E2 = "Ok" /\ E3 = "Ok" /\ E4 = "Ok"
  BY <1>1, FirstOf4
<1> QED BY <1>2 DEF E1, E2, E3, E4

LEMMA LoadedScopeParts ==
  ASSUME NEW record
  PROVE  LoadedScopeResult(record) = "Ok" <=>
           /\ LoadedListsResult(record) = "Ok"
           /\ ScopeShapeResult(record.all, record.allow) = "Ok"
<1> DEFINE E1 == LoadedListsResult(record)
           E2 == ScopeShapeResult(record.all, record.allow)
<1>1. LoadedScopeResult(record) = FirstError(<<E1, E2>>)
  BY DEF LoadedScopeResult
<1> HIDE DEF E1, E2
<1>2. LoadedScopeResult(record) = "Ok" <=> E1 = "Ok" /\ E2 = "Ok"
  BY <1>1, FirstOf2
<1> QED BY <1>2 DEF E1, E2

\* The lists of what is accepted, of what is loaded and accepted, and of
\* what is in normal form already.
LEMMA AcceptedLists ==
  ASSUME NEW raw, raw.allow \in Option(Seq(AnySelector)), raw.deny \in Option(Seq(AnySelector)),
         SelectorsResult(raw.allow) = "Ok", SelectorsResult(raw.deny) = "Ok",
         ScopeShapeResult(raw.all, Items(raw.allow)) = "Ok"
  PROVE  /\ NormalList(Selectors(raw.allow)) /\ NormalList(Selectors(raw.deny))
         /\ raw.all = (Selectors(raw.allow) = <<>>)
  BY SelectorsAreNormal, ShapeParts

LEMMA LoadedLists ==
  ASSUME NEW record, record.allow \in Seq(KeptSelector), record.deny \in Seq(KeptSelector),
         LoadedListsResult(record) = "Ok", ScopeShapeResult(record.all, record.allow) = "Ok",
         SelectorsResult(RawSelectors(LoadedSelectors(record.allow))) = "Ok",
         SelectorsResult(RawSelectors(LoadedSelectors(record.deny))) = "Ok"
  PROVE  /\ NormalList(LoadedSelectors(record.allow)) /\ NormalList(LoadedSelectors(record.deny))
         /\ record.all = (LoadedSelectors(record.allow) = <<>>)
<1>1. /\ Len(record.allow) <= MaxSelectors /\ Len(record.deny) <= MaxSelectors
      /\ LoadedSelectorsResult(record.allow) = "Ok" /\ LoadedSelectorsResult(record.deny) = "Ok"
  BY LoadedListsParts, WithinLimit, Limits
<1>2. /\ NormalList(LoadedSelectors(record.allow)) /\ NormalList(LoadedSelectors(record.deny))
      /\ LoadedSelectors(record.allow) = <<>> <=> record.allow = <<>>
  BY <1>1, LoadedSelectorsAreNormal
<1> QED BY <1>2, ShapeParts

LEMMA NormalListsLoad ==
  ASSUME NEW s, NormalLists(s)
  PROVE  /\ LoadedListsResult(s) = "Ok" /\ ScopeShapeResult(s.all, s.allow) = "Ok"
         /\ LoadedSelectors(s.allow) = s.allow /\ LoadedSelectors(s.deny) = s.deny
<1>1. NormalList(s.allow) /\ NormalList(s.deny) /\ s.all = (s.allow = <<>>)
  BY DEF NormalLists
<1> QED BY <1>1, NormalListLoads, LoadedListsParts, ShapeParts

LEMMA NormalListsAreAccepted ==
  ASSUME NEW s, NormalLists(s)
  PROVE  /\ SelectorsResult(RawSelectors(s.allow)) = "Ok"
         /\ SelectorsResult(RawSelectors(s.deny)) = "Ok"
         /\ ScopeShapeResult(s.all, Items(RawSelectors(s.allow))) = "Ok"
<1>1. NormalList(s.allow) /\ NormalList(s.deny) /\ s.all = (s.allow = <<>>)
  BY DEF NormalLists
<1> QED BY <1>1, NormalListIsAccepted, ShapeParts

LEMMA ScopeFields ==
  ASSUME NEW s \in KeptScope
  PROVE  /\ s.all \in BOOLEAN /\ s.allow \in Seq(KeptSelector) /\ s.deny \in Seq(KeptSelector)
         /\ DOMAIN s = {"all", "allow", "deny"} /\ s = [f \in DOMAIN s |-> s[f]]
  BY DEF KeptScope

LEMMA ScopeIsNormal ==
  ASSUME NEW raw \in AnyScope, ScopeResult(raw) = "Ok"
  PROVE  NormalScope(Scope(raw))
<1> DEFINE s == Scope(raw)
<1>1. /\ raw.all \in BOOLEAN /\ raw.allow \in Option(Seq(AnySelector))
      /\ raw.deny \in Option(Seq(AnySelector))
  BY DEF AnyScope
<1>2. /\ s.all = raw.all /\ s.allow = Selectors(raw.allow) /\ s.deny = Selectors(raw.deny)
      /\ DOMAIN s = {"all", "allow", "deny"} /\ s = [f \in DOMAIN s |-> s[f]]
  BY DEF Scope
<1> HIDE DEF s
<1>3. /\ NormalList(Selectors(raw.allow)) /\ NormalList(Selectors(raw.deny))
      /\ raw.all = (Selectors(raw.allow) = <<>>)
  BY <1>1, ScopeParts, AcceptedLists
<1>4. NormalLists(s)
  BY <1>2, <1>3 DEF NormalLists
<1>5. s \in KeptScope
  BY <1>1, <1>2, <1>3 DEF NormalList, KeptScope
<1> QED BY <1>4, <1>5 DEF NormalScope, s

LEMMA RawScopeIs ==
  ASSUME NEW s \in KeptScope
  PROVE  LET r == RawScope(s)
         IN  /\ r \in AnyScope /\ r.all = s.all
             /\ r.allow = RawSelectors(s.allow) /\ r.deny = RawSelectors(s.deny)
<1> DEFINE r == RawScope(s)
<1>1. /\ r.all = s.all /\ r.allow = RawSelectors(s.allow) /\ r.deny = RawSelectors(s.deny)
      /\ DOMAIN r = {"all", "allow", "deny"} /\ r = [f \in DOMAIN r |-> r[f]]
  BY ScopeFields DEF RawScope
<1> HIDE DEF r
<1>2. r.allow \in Option(Seq(AnySelector)) /\ r.deny \in Option(Seq(AnySelector))
  BY <1>1, ScopeFields, RawSelectorsAre
<1>3. r \in AnyScope
  BY <1>1, <1>2, ScopeFields DEF AnyScope
<1> QED BY <1>1, <1>3 DEF r

LEMMA LoadedScopeIs ==
  ASSUME NEW record \in KeptScope, LoadedListsResult(record) = "Ok"
  PROVE  LET s == LoadedScope(record)
         IN  /\ s \in KeptScope /\ s.all = record.all
             /\ s.allow = LoadedSelectors(record.allow) /\ s.deny = LoadedSelectors(record.deny)
<1> DEFINE s == LoadedScope(record)
<1>1. /\ s.all = record.all
      /\ s.allow = LoadedSelectors(record.allow) /\ s.deny = LoadedSelectors(record.deny)
      /\ DOMAIN s = {"all", "allow", "deny"} /\ s = [f \in DOMAIN s |-> s[f]]
  BY ScopeFields DEF LoadedScope
<1>2. /\ LoadedSelectorsResult(record.allow) = "Ok" /\ LoadedSelectorsResult(record.deny) = "Ok"
      /\ record.allow \in Seq(KeptSelector) /\ record.deny \in Seq(KeptSelector)
  BY ScopeFields, LoadedListsParts
<1>3. /\ \A i \in DOMAIN record.allow : LoadedSelectorResult(record.allow[i]) = "Ok"
      /\ \A i \in DOMAIN record.deny : LoadedSelectorResult(record.deny[i]) = "Ok"
  BY <1>2, UniqueLoaded
<1> HIDE DEF s
<1>4. s.allow \in Seq(KeptSelector) /\ s.deny \in Seq(KeptSelector)
  BY <1>1, <1>2, <1>3, LoadedSelectorsAre
<1>5. s \in KeptScope
  BY <1>1, <1>4, ScopeFields DEF KeptScope
<1> QED BY <1>1, <1>5 DEF s

LEMMA LoadedScopeIsNormal ==
  ASSUME NEW record \in KeptScope, LoadedScopeResult(record) = "Ok",
         ScopeResult(RawScope(LoadedScope(record))) = "Ok"
  PROVE  NormalScope(LoadedScope(record))
<1> DEFINE s == LoadedScope(record)
<1>1. LoadedListsResult(record) = "Ok" /\ ScopeShapeResult(record.all, record.allow) = "Ok"
  BY LoadedScopeParts
<1>2. /\ s \in KeptScope /\ s.all = record.all
      /\ s.allow = LoadedSelectors(record.allow) /\ s.deny = LoadedSelectors(record.deny)
  BY <1>1, LoadedScopeIs
<1> HIDE DEF s
<1>3. /\ SelectorsResult(RawSelectors(s.allow)) = "Ok" /\ SelectorsResult(RawSelectors(s.deny)) = "Ok"
  BY <1>2, RawScopeIs, ScopeParts DEF s
<1>4. NormalLists(s)
  BY <1>1, <1>2, <1>3, ScopeFields, LoadedLists DEF NormalLists
<1> QED BY <1>2, <1>4 DEF NormalScope, s

LEMMA NormalScopeLoads ==
  ASSUME NEW s, NormalScope(s)
  PROVE  LoadedScopeResult(s) = "Ok" /\ LoadedScope(s) = s
<1>1. s \in KeptScope /\ NormalLists(s)
  BY DEF NormalScope
<1>2. /\ LoadedScopeResult(s) = "Ok" /\ LoadedListsResult(s) = "Ok"
      /\ LoadedSelectors(s.allow) = s.allow /\ LoadedSelectors(s.deny) = s.deny
  BY <1>1, NormalListsLoad, LoadedScopeParts
<1>3. LET l == LoadedScope(s)
      IN  l \in KeptScope /\ l.all = s.all /\ l.allow = s.allow /\ l.deny = s.deny
  BY <1>1, <1>2, LoadedScopeIs
<1> DEFINE l == LoadedScope(s)
<1> HIDE DEF l
<1>4. l = s
  BY <1>1, <1>3, ScopeFields, SameRecord DEF l
<1> QED BY <1>2, <1>4 DEF l

LEMMA NormalScopeIsAccepted ==
  ASSUME NEW s, NormalScope(s)
  PROVE  ScopeResult(RawScope(s)) = "Ok"
<1>1. s \in KeptScope /\ NormalLists(s)
  BY DEF NormalScope
<1>2. /\ RawScope(s).all = s.all /\ RawScope(s).allow = RawSelectors(s.allow)
      /\ RawScope(s).deny = RawSelectors(s.deny)
  BY <1>1, RawScopeIs
<1> QED BY <1>1, <1>2, NormalListsAreAccepted, ScopeParts

-----------------------------------------------------------------------------
(* Audiences.                                                              *)

NormalEntry(e) ==
  /\ e \in KeptAudienceEntry /\ NormalAuthority(e.authority_id) /\ NormalScope(e.scope)
  /\ e.principal_scope # None => NormalScope(e.principal_scope)

NormalAudience(l) ==
  /\ l \in Seq(KeptAudienceEntry) /\ Len(l) <= MaxAudienceEntries
  /\ \A i \in DOMAIN l : NormalEntry(l[i])
  /\ \A i, j \in DOMAIN l : l[i].authority_id = l[j].authority_id => i = j

\* What is asked of one entry.
EntryFits(e) ==
  /\ AuthorityResult(e.authority_id) = "Ok"
  /\ ScopeResult(e.scope) = "Ok" /\ OptionalScopeResult(e.principal_scope) = "Ok"

LEMMA AudienceParts ==
  ASSUME NEW option \in Option(Seq(AnyAudienceEntry)), NEW entries, entries = Items(option)
  PROVE  AudienceResult(option) = "Ok" <=>
           /\ Len(entries) <= MaxAudienceEntries
           /\ \A i \in DOMAIN entries :
                /\ EntryFits(entries[i])
                /\ \A j \in 1 .. i - 1 : ~SameAudience(entries[j], entries[i])
<1> DEFINE Again(i) == \E j \in 1 .. i - 1 : SameAudience(entries[j], entries[i])
           E1 == LimitResult(entries, MaxAudienceEntries)
           R == [i \in DOMAIN entries |->
                   FirstError(<<AuthorityResult(entries[i].authority_id),
                                IF Again(i) THEN "DuplicateAudienceAuthority" ELSE "Ok",
                                ScopeResult(entries[i].scope),
                                OptionalScopeResult(entries[i].principal_scope)>>)]
<1>1. AudienceResult(option) = FirstError(<<E1, FirstError(R)>>)
  BY DEF AudienceResult
<1>2. entries \in Seq(AnyAudienceEntry)
  BY ItemsAreList
<1>3. E1 = "Ok" <=> Len(entries) <= MaxAudienceEntries
  BY <1>2, WithinLimit, Limits
<1>4. DOMAIN R \in SUBSET Nat /\ DOMAIN R = DOMAIN entries
  BY <1>2, SeqFacts
<1> HIDE DEF Again
<1>5. ASSUME NEW i \in DOMAIN entries
      PROVE  R[i] = "Ok" <=> EntryFits(entries[i]) /\ ~Again(i)
  <2> DEFINE F1 == AuthorityResult(entries[i].authority_id)
             F2 == IF Again(i) THEN "DuplicateAudienceAuthority" ELSE "Ok"
             F3 == ScopeResult(entries[i].scope)
             F4 == OptionalScopeResult(entries[i].principal_scope)
  <2>1. R[i] = FirstError(<<F1, F2, F3, F4>>)
    OBVIOUS
  <2>2. F2 = "Ok" <=> ~Again(i)
    OBVIOUS
  <2>3. EntryFits(entries[i]) <=> F1 = "Ok" /\ F3 = "Ok" /\ F4 = "Ok"
    BY DEF EntryFits
  <2> HIDE DEF F1, F2, F3, F4, R
  <2>4. R[i] = "Ok" <=> F1 = "Ok" /\ F2 = "Ok" /\ F3 = "Ok" /\ F4 = "Ok"
    BY <2>1, FirstOf4
  <2> QED BY <2>2, <2>3, <2>4
<1> HIDE DEF R, E1
<1>6. FirstError(R) = "Ok" <=> \A i \in DOMAIN entries : R[i] = "Ok"
  BY <1>4, FirstErrorOk
<1>7. AudienceResult(option) = "Ok" <=> E1 = "Ok" /\ FirstError(R) = "Ok"
  BY <1>1, FirstOf2
<1> QED BY <1>3, <1>5, <1>6, <1>7 DEF Again

LEMMA EachLoadedEntry ==
  ASSUME NEW S, NEW s \in Seq(S)
  PROVE  LoadedAudienceResult(s) = "Ok"
           <=> \A i \in DOMAIN s : LoadedAudienceEntryResult(s[i]) = "Ok"
<1> DEFINE R == [i \in DOMAIN s |-> LoadedAudienceEntryResult(s[i])]
<1>1. LoadedAudienceResult(s) = FirstError(R) /\ DOMAIN R \in SUBSET Nat /\ DOMAIN R = DOMAIN s
  BY SeqFacts DEF LoadedAudienceResult, Each
<1>2. FirstError(R) = "Ok" <=> \A i \in DOMAIN s : R[i] = "Ok"
  <2> HIDE DEF R
  <2> QED BY <1>1, FirstErrorOk
<1> QED BY <1>1, <1>2

LEMMA LoadedEntryParts ==
  ASSUME NEW record
  PROVE  LoadedAudienceEntryResult(record) = "Ok" <=>
           /\ AuthorityResult(record.authority_id) = "Ok" /\ LoadedScopeResult(record.scope) = "Ok"
           /\ record.principal_scope # None => LoadedScopeResult(record.principal_scope) = "Ok"
<1> DEFINE E1 == AuthorityResult(record.authority_id)
           E2 == LoadedScopeResult(record.scope)
           E3 == IF record.principal_scope = None THEN "Ok"
                 ELSE LoadedScopeResult(record.principal_scope)
<1>1. LoadedAudienceEntryResult(record) = FirstError(<<E1, E2, E3>>)
  BY DEF LoadedAudienceEntryResult
<1>2. E3 = "Ok" <=> (record.principal_scope # None => LoadedScopeResult(record.principal_scope) = "Ok")
  OBVIOUS
<1> HIDE DEF E1, E2, E3
<1>3. LoadedAudienceEntryResult(record) = "Ok" <=> E1 = "Ok" /\ E2 = "Ok" /\ E3 = "Ok"
  BY <1>1, FirstOf3
<1> QED BY <1>2, <1>3 DEF E1, E2

LEMMA EntryFields ==
  ASSUME NEW e \in KeptAudienceEntry
  PROVE  /\ e.authority_id \in Texts /\ e.scope \in KeptScope /\ e.principal_scope \in Option(KeptScope)
         /\ DOMAIN e = {"authority_id", "scope", "principal_scope"} /\ e = [f \in DOMAIN e |-> e[f]]
  BY DEF KeptAudienceEntry

LEMMA EntryIsNormal ==
  ASSUME NEW raw \in AnyAudienceEntry, EntryFits(raw)
  PROVE  /\ NormalEntry(AudienceEntry(raw))
         /\ AudienceEntry(raw).authority_id = AuthorityOf(raw.authority_id)
<1> DEFINE e == AudienceEntry(raw)
<1>1. /\ raw.authority_id \in Texts /\ raw.scope \in AnyScope /\ raw.principal_scope \in Option(AnyScope)
  BY DEF AnyAudienceEntry
<1>2. /\ e.authority_id = AuthorityOf(raw.authority_id) /\ e.scope = Scope(raw.scope)
      /\ e.principal_scope = IF raw.principal_scope = None THEN None ELSE Scope(raw.principal_scope)
      /\ DOMAIN e = {"authority_id", "scope", "principal_scope"} /\ e = [f \in DOMAIN e |-> e[f]]
  BY DEF AudienceEntry, Optional
<1> HIDE DEF e
<1>3. NormalAuthority(e.authority_id) /\ NormalScope(e.scope)
  BY <1>1, <1>2, AuthorityIsNormal, ScopeIsNormal DEF EntryFits
<1>4. ASSUME raw.principal_scope # None PROVE NormalScope(e.principal_scope)
  BY <1>1, <1>2, <1>4, ScopeIsNormal DEF EntryFits, OptionalScopeResult, Option
<1>5. e \in KeptAudienceEntry
  BY <1>2, <1>3, <1>4 DEF NormalAuthority, NormalScope, Option, KeptAudienceEntry
<1> QED BY <1>2, <1>3, <1>4, <1>5 DEF NormalEntry, e

LEMMA RawEntryIs ==
  ASSUME NEW e \in KeptAudienceEntry
  PROVE  LET r == RawAudienceEntry(e)
         IN  /\ r \in AnyAudienceEntry /\ r.authority_id = e.authority_id
             /\ r.scope = RawScope(e.scope)
             /\ r.principal_scope =
                  IF e.principal_scope = None THEN None ELSE RawScope(e.principal_scope)
<1> DEFINE r == RawAudienceEntry(e)
<1>1. /\ r.authority_id = e.authority_id /\ r.scope = RawScope(e.scope)
      /\ r.principal_scope = IF e.principal_scope = None THEN None ELSE RawScope(e.principal_scope)
      /\ DOMAIN r = {"authority_id", "scope", "principal_scope"} /\ r = [f \in DOMAIN r |-> r[f]]
  BY EntryFields DEF RawAudienceEntry, Optional
<1> HIDE DEF r
<1>2. r.scope \in AnyScope /\ r.principal_scope \in Option(AnyScope)
  BY <1>1, EntryFields, RawScopeIs DEF Option
<1>3. r \in AnyAudienceEntry
  BY <1>1, <1>2, EntryFields DEF AnyAudienceEntry
<1> QED BY <1>1, <1>3 DEF r

LEMMA RawAudienceIs ==
  ASSUME NEW l \in Seq(KeptAudienceEntry)
  PROVE  LET option == RawAudience(l)
             raws   == Items(option)
         IN  /\ option \in Option(Seq(AnyAudienceEntry)) /\ raws \in Seq(AnyAudienceEntry)
             /\ Len(raws) = Len(l) /\ DOMAIN raws = DOMAIN l
             /\ \A i \in DOMAIN l : raws[i] = RawAudienceEntry(l[i])
<1> DEFINE e == Each(l, RawAudienceEntry)
<1>1. Mapped(e, l) /\ \A i \in DOMAIN l : e[i] = RawAudienceEntry(l[i])
  <2>1. e = [i \in DOMAIN l |-> RawAudienceEntry(l[i])]
    BY DEF Each
  <2> HIDE DEF e
  <2> QED BY <2>1 DEF Mapped
<1> HIDE DEF e
<1>2. \A i \in DOMAIN l : e[i] \in AnyAudienceEntry
  BY <1>1, SeqFacts, RawEntryIs
<1>3. e \in Seq(AnyAudienceEntry) /\ Len(e) = Len(l) /\ DOMAIN e = DOMAIN l
  BY <1>1, <1>2, MappedSeq
<1>4. RawAudience(l) = Some(e)
  BY DEF RawAudience, e
<1>5. Items(RawAudience(l)) = e
  BY <1>3, <1>4, NullAssumption, ItemsOfSome
<1>6. Some(e) \in Option(Seq(AnyAudienceEntry))
  BY <1>3 DEF Some, Option
<1> QED BY <1>1, <1>3, <1>4, <1>5, <1>6

LEMMA LoadedEntryIs ==
  ASSUME NEW record \in KeptAudienceEntry, LoadedAudienceEntryResult(record) = "Ok",
         NEW e, e = [authority_id |-> AuthorityOf(record.authority_id),
                     scope |-> LoadedScope(record.scope),
                     principal_scope |-> Optional(record.principal_scope, LoadedScope)]
  PROVE  /\ e \in KeptAudienceEntry /\ NormalAuthority(e.authority_id)
         /\ EntryFits(RawAudienceEntry(e)) => NormalEntry(e)
         /\ NormalEntry(record) => e = record
<1>1. /\ e.authority_id = AuthorityOf(record.authority_id) /\ e.scope = LoadedScope(record.scope)
      /\ e.principal_scope =
           IF record.principal_scope = None THEN None ELSE LoadedScope(record.principal_scope)
      /\ DOMAIN e = {"authority_id", "scope", "principal_scope"} /\ e = [f \in DOMAIN e |-> e[f]]
  BY DEF Optional
<1>2. /\ record.authority_id \in Texts /\ record.scope \in KeptScope
      /\ record.principal_scope \in Option(KeptScope)
      /\ DOMAIN record = {"authority_id", "scope", "principal_scope"}
      /\ record = [f \in DOMAIN record |-> record[f]]
  BY EntryFields
<1>3. /\ AuthorityResult(record.authority_id) = "Ok" /\ LoadedScopeResult(record.scope) = "Ok"
      /\ record.principal_scope # None => LoadedScopeResult(record.principal_scope) = "Ok"
  BY LoadedEntryParts
<1>4. NormalAuthority(e.authority_id)
  BY <1>1, <1>2, <1>3, AuthorityIsNormal
<1>5. e.scope \in KeptScope
  BY <1>1, <1>2, <1>3, LoadedScopeParts, LoadedScopeIs
<1>6. ASSUME record.principal_scope # None
      PROVE  e.principal_scope = LoadedScope(record.principal_scope) /\ e.principal_scope \in KeptScope
  BY <1>1, <1>2, <1>3, <1>6, LoadedScopeParts, LoadedScopeIs DEF Option
<1>7. e \in KeptAudienceEntry
  <2>1. e.principal_scope \in Option(KeptScope)
    BY <1>1, <1>6 DEF Option
  <2> QED BY <1>1, <1>4, <1>5, <2>1 DEF KeptAudienceEntry, NormalAuthority
<1>8. ASSUME EntryFits(RawAudienceEntry(e)) PROVE NormalEntry(e)
  <2>1. /\ ScopeResult(RawScope(e.scope)) = "Ok"
        /\ OptionalScopeResult(IF e.principal_scope = None THEN None
                               ELSE RawScope(e.principal_scope)) = "Ok"
    BY <1>7, <1>8, RawEntryIs DEF EntryFits
  <2>2. NormalScope(e.scope)
    BY <1>1, <1>2, <1>3, <2>1, LoadedScopeIsNormal
  <2>3. ASSUME e.principal_scope # None PROVE NormalScope(e.principal_scope)
    <3>1. record.principal_scope # None /\ e.principal_scope = LoadedScope(record.principal_scope)
      BY <1>1, <2>3
    <3>2. record.principal_scope \in KeptScope /\ LoadedScopeResult(record.principal_scope) = "Ok"
      BY <1>2, <1>3, <3>1 DEF Option
    <3>3. RawScope(e.principal_scope) # None
      BY <1>6, <3>1, RawScopeIs, NullAssumption
    <3>4. ScopeResult(RawScope(e.principal_scope)) = "Ok"
      BY <2>1, <2>3, <3>3 DEF OptionalScopeResult
    <3> QED BY <3>1, <3>2, <3>4, LoadedScopeIsNormal
  <2> QED BY <1>4, <1>7, <2>2, <2>3 DEF NormalEntry
<1>9. ASSUME NormalEntry(record) PROVE e = record
  <2>1. /\ AuthorityOf(record.authority_id) = record.authority_id
        /\ LoadedScope(record.scope) = record.scope
        /\ record.principal_scope # None => LoadedScope(record.principal_scope) = record.principal_scope
    BY <1>9, NormalScopeLoads DEF NormalEntry, NormalAuthority
  <2>2. /\ e.authority_id = record.authority_id /\ e.scope = record.scope
        /\ e.principal_scope = record.principal_scope
    BY <1>1, <2>1
  <2> QED BY <1>1, <1>2, <2>2, SameRecord
<1> QED BY <1>4, <1>7, <1>8, <1>9

-----------------------------------------------------------------------------
LEMMA DistinctAudience ==
  ASSUME NEW n \in Nat, NEW a, \A i \in 1 .. n : \A j \in 1 .. i - 1 : a[j] # a[i]
  PROVE  \A i, j \in 1 .. n : a[i] = a[j] => i = j
<1> SUFFICES ASSUME NEW i \in 1 .. n, NEW j \in 1 .. n, a[i] = a[j], i # j PROVE FALSE
  OBVIOUS
<1>1. CASE i < j
  BY <1>1, i \in 1 .. j - 1
<1>2. CASE j < i
  BY <1>2, j \in 1 .. i - 1
<1> QED BY <1>1, <1>2

LEMMA AudienceIsNormal ==
  ASSUME NEW option \in Option(Seq(AnyAudienceEntry)), AudienceResult(option) = "Ok"
  PROVE  NormalAudience(Audience(option))
<1> DEFINE entries == Items(option)
           l == Audience(option)
           a == [i \in DOMAIN entries |-> AuthorityOf(entries[i].authority_id)]
<1>1. entries \in Seq(AnyAudienceEntry)
  BY ItemsAreList
<1>2. /\ Len(entries) <= MaxAudienceEntries
      /\ \A i \in DOMAIN entries :
           /\ EntryFits(entries[i])
           /\ \A j \in 1 .. i - 1 : ~SameAudience(entries[j], entries[i])
  BY AudienceParts
<1>3. Mapped(l, entries) /\ \A i \in DOMAIN entries : l[i] = AudienceEntry(entries[i])
  <2>1. l = [i \in DOMAIN entries |-> AudienceEntry(entries[i])]
    BY DEF Audience, Each
  <2> HIDE DEF l, entries
  <2> QED BY <2>1 DEF Mapped
<1> HIDE DEF entries, l
<1>4. DOMAIN entries = 1 .. Len(entries) /\ Len(entries) \in Nat
  BY <1>1, SeqFacts
<1>5. ASSUME NEW i \in DOMAIN entries
      PROVE  NormalEntry(l[i]) /\ l[i] \in KeptAudienceEntry /\ l[i].authority_id = a[i]
  <2>1. entries[i] \in AnyAudienceEntry
    BY <1>1, SeqFacts
  <2> QED BY <1>2, <1>3, <2>1, EntryIsNormal DEF NormalEntry
<1>6. l \in Seq(KeptAudienceEntry) /\ Len(l) = Len(entries) /\ DOMAIN l = DOMAIN entries
  BY <1>1, <1>3, <1>5, MappedSeq
<1>7. \A i \in 1 .. Len(entries) : \A j \in 1 .. i - 1 : a[j] # a[i]
  <2> SUFFICES ASSUME NEW i \in 1 .. Len(entries), NEW j \in 1 .. i - 1 PROVE a[j] # a[i]
    OBVIOUS
  <2>1. j \in DOMAIN entries /\ i \in DOMAIN entries
    BY <1>4
  <2> QED BY <1>2, <2>1 DEF SameAudience
<1> HIDE DEF a
<1>8. \A i, j \in 1 .. Len(entries) : a[i] = a[j] => i = j
  BY <1>4, <1>7, DistinctAudience
<1> QED BY <1>2, <1>4, <1>5, <1>6, <1>8 DEF NormalAudience, l

LEMMA LoadedAudienceIs ==
  ASSUME NEW l \in Seq(KeptAudienceEntry), LoadedAudienceResult(l) = "Ok"
  PROVE  LET n == LoadedAudience(l)
         IN  /\ n \in Seq(KeptAudienceEntry) /\ Len(n) = Len(l) /\ DOMAIN n = DOMAIN l
             /\ \A i \in DOMAIN l :
                  /\ NormalAuthority(n[i].authority_id)
                  /\ EntryFits(RawAudienceEntry(n[i])) => NormalEntry(n[i])
                  /\ NormalEntry(l[i]) => n[i] = l[i]
<1> DEFINE n == LoadedAudience(l)
           Loaded(r) == [authority_id |-> AuthorityOf(r.authority_id),
                         scope |-> LoadedScope(r.scope),
                         principal_scope |-> Optional(r.principal_scope, LoadedScope)]
<1>1. \A i \in DOMAIN l : LoadedAudienceEntryResult(l[i]) = "Ok" /\ l[i] \in KeptAudienceEntry
  BY EachLoadedEntry, SeqFacts
<1>2. n = [i \in DOMAIN l |-> Loaded(l[i])]
  BY DEF LoadedAudience, Each
<1>3. ASSUME NEW i \in DOMAIN l
      PROVE  /\ n[i] \in KeptAudienceEntry /\ NormalAuthority(n[i].authority_id)
             /\ EntryFits(RawAudienceEntry(n[i])) => NormalEntry(n[i])
             /\ NormalEntry(l[i]) => n[i] = l[i]
  <2>1. n[i] = Loaded(l[i])
    BY <1>2
  <2> HIDE DEF n
  <2> QED BY <1>1, <2>1, LoadedEntryIs
<1>4. Mapped(n, l)
  <2> HIDE DEF n, Loaded
  <2> QED BY <1>2 DEF Mapped
<1> HIDE DEF n
<1>5. n \in Seq(KeptAudienceEntry) /\ Len(n) = Len(l) /\ DOMAIN n = DOMAIN l
  BY <1>3, <1>4, MappedSeq
<1> QED BY <1>3, <1>5 DEF n

LEMMA LoadedAudienceIsNormal ==
  ASSUME NEW l \in Seq(KeptAudienceEntry), LoadedAudienceResult(l) = "Ok",
         AudienceResult(RawAudience(LoadedAudience(l))) = "Ok"
  PROVE  NormalAudience(LoadedAudience(l))
<1> DEFINE n    == LoadedAudience(l)
           raws == Items(RawAudience(n))
           a    == [i \in DOMAIN n |-> n[i].authority_id]
<1>1. /\ n \in Seq(KeptAudienceEntry) /\ Len(n) = Len(l) /\ DOMAIN n = DOMAIN l
      /\ \A i \in DOMAIN l :
           /\ NormalAuthority(n[i].authority_id)
           /\ EntryFits(RawAudienceEntry(n[i])) => NormalEntry(n[i])
  BY LoadedAudienceIs
<1>2. AudienceResult(RawAudience(n)) = "Ok"
  OBVIOUS
<1> HIDE DEF n
<1>3. /\ RawAudience(n) \in Option(Seq(AnyAudienceEntry)) /\ raws \in Seq(AnyAudienceEntry)
      /\ Len(raws) = Len(n) /\ DOMAIN raws = DOMAIN n
      /\ \A i \in DOMAIN n : raws[i] = RawAudienceEntry(n[i])
  BY <1>1, RawAudienceIs
<1>4. /\ Len(raws) <= MaxAudienceEntries
      /\ \A i \in DOMAIN raws :
           /\ EntryFits(raws[i]) /\ \A j \in 1 .. i - 1 : ~SameAudience(raws[j], raws[i])
  BY <1>2, <1>3, AudienceParts
<1> HIDE DEF raws
<1>5. DOMAIN n = 1 .. Len(n) /\ Len(n) \in Nat
  BY <1>1, SeqFacts
<1>6. ASSUME NEW i \in DOMAIN n
      PROVE  NormalEntry(n[i]) /\ AuthorityOf(raws[i].authority_id) = a[i]
  <2>1. n[i] \in KeptAudienceEntry
    BY <1>1, SeqFacts
  <2>2. raws[i].authority_id = n[i].authority_id
    BY <1>3, <2>1, RawEntryIs
  <2> QED BY <1>1, <1>3, <1>4, <2>2 DEF NormalAuthority
<1>7. \A i \in 1 .. Len(n) : \A j \in 1 .. i - 1 : a[j] # a[i]
  <2> SUFFICES ASSUME NEW i \in 1 .. Len(n), NEW j \in 1 .. i - 1 PROVE a[j] # a[i]
    OBVIOUS
  <2>1. j \in DOMAIN n /\ i \in DOMAIN n
    BY <1>5
  <2>2. ~SameAudience(raws[j], raws[i])
    BY <1>3, <1>4, <2>1
  <2>3. AuthorityOf(raws[j].authority_id) = a[j] /\ AuthorityOf(raws[i].authority_id) = a[i]
    BY <1>6, <2>1
  <2> HIDE DEF a
  <2> QED BY <2>2, <2>3 DEF SameAudience
<1>8. \A i, j \in 1 .. Len(n) : a[i] = a[j] => i = j
  <2> HIDE DEF a
  <2> QED BY <1>5, <1>7, DistinctAudience
<1> QED BY <1>1, <1>3, <1>4, <1>5, <1>6, <1>8 DEF NormalAudience, n

LEMMA NormalAudienceLoads ==
  ASSUME NEW l, NormalAudience(l)
  PROVE  /\ LimitResult(l, MaxAudienceEntries) = "Ok" /\ LoadedAudienceResult(l) = "Ok"
         /\ LoadedAudience(l) = l
<1>1. /\ l \in Seq(KeptAudienceEntry) /\ Len(l) <= MaxAudienceEntries
      /\ \A i \in DOMAIN l : NormalEntry(l[i])
  BY DEF NormalAudience
<1>2. LimitResult(l, MaxAudienceEntries) = "Ok"
  BY <1>1, WithinLimit, Limits
<1>3. LoadedAudienceResult(l) = "Ok"
  <2>1. \A i \in DOMAIN l : LoadedAudienceEntryResult(l[i]) = "Ok"
    BY <1>1, LoadedEntryParts, NormalScopeLoads DEF NormalEntry, NormalAuthority
  <2> QED BY <1>1, <2>1, EachLoadedEntry
<1> DEFINE n == LoadedAudience(l)
<1>4. n \in Seq(KeptAudienceEntry) /\ DOMAIN n = DOMAIN l /\ \A i \in DOMAIN l : n[i] = l[i]
  BY <1>1, <1>3, LoadedAudienceIs
<1> HIDE DEF n
<1>5. n = l
  BY <1>1, <1>4, SameSeq
<1> QED BY <1>2, <1>3, <1>5 DEF n

LEMMA NormalAudienceIsAccepted ==
  ASSUME NEW l, NormalAudience(l)
  PROVE  AudienceResult(RawAudience(l)) = "Ok"
<1> DEFINE raws == Items(RawAudience(l))
<1>1. /\ l \in Seq(KeptAudienceEntry) /\ Len(l) <= MaxAudienceEntries
      /\ \A i \in DOMAIN l : NormalEntry(l[i])
      /\ \A i, j \in DOMAIN l : l[i].authority_id = l[j].authority_id => i = j
  BY DEF NormalAudience
<1>2. /\ RawAudience(l) \in Option(Seq(AnyAudienceEntry)) /\ Len(raws) = Len(l)
      /\ DOMAIN raws = DOMAIN l /\ \A i \in DOMAIN l : raws[i] = RawAudienceEntry(l[i])
  BY <1>1, RawAudienceIs
<1> HIDE DEF raws
<1>3. DOMAIN l = 1 .. Len(l) /\ Len(l) \in Nat
  BY <1>1, SeqFacts
<1>4. ASSUME NEW i \in DOMAIN l
      PROVE  EntryFits(raws[i]) /\ AuthorityOf(raws[i].authority_id) = l[i].authority_id
  <2> DEFINE e == l[i]
             r == RawAudienceEntry(e)
  <2>1. NormalEntry(e) /\ e \in KeptAudienceEntry /\ raws[i] = r
    BY <1>1, <1>2 DEF NormalEntry
  <2> HIDE DEF e
  <2>2. /\ r.authority_id = e.authority_id /\ r.scope = RawScope(e.scope)
        /\ r.principal_scope =
             IF e.principal_scope = None THEN None ELSE RawScope(e.principal_scope)
    BY <2>1, RawEntryIs
  <2> HIDE DEF r
  <2>3. ScopeResult(r.scope) = "Ok"
    BY <2>1, <2>2, NormalScopeIsAccepted DEF NormalEntry
  <2>4. OptionalScopeResult(r.principal_scope) = "Ok"
    BY <2>1, <2>2, NormalScopeIsAccepted DEF NormalEntry, OptionalScopeResult
  <2>5. EntryFits(r) /\ AuthorityOf(r.authority_id) = e.authority_id
    BY <2>1, <2>2, <2>3, <2>4 DEF EntryFits, NormalEntry, NormalAuthority
  <2> QED BY <2>1, <2>5 DEF e
<1>5. ASSUME NEW i \in DOMAIN raws, NEW j \in 1 .. i - 1
      PROVE  ~SameAudience(raws[j], raws[i])
  <2>1. j \in DOMAIN l /\ i \in DOMAIN l /\ j # i
    BY <1>2, <1>3
  <2> QED BY <1>1, <1>4, <2>1 DEF SameAudience
<1>6. Len(raws) <= MaxAudienceEntries
  BY <1>1, <1>2
<1> QED BY <1>2, <1>4, <1>5, <1>6, AudienceParts DEF raws

-----------------------------------------------------------------------------
(* Operations.                                                             *)

KeptOperations == [allow : Seq(Texts), deny : Seq(Texts)]

NormalNames(l) ==
  /\ l \in Seq(Texts) /\ Len(l) <= MaxOperations
  /\ \A i \in DOMAIN l : NormalToken(l[i])
  /\ \A i, j \in DOMAIN l : l[i] = l[j] => i = j

NormalOperations(o) ==
  o \in KeptOperations /\ NormalNames(o.allow) /\ NormalNames(o.deny) /\ o.allow # <<>>

LEMMA OperationsParts ==
  ASSUME NEW option, Items(option) \in Seq(Texts)
  PROVE  OperationsResult(option) = "Ok" <=>
           /\ Len(Items(option)) <= MaxOperations
           /\ \A i \in DOMAIN Items(option) : TokenResult(Items(option)[i]) = "Ok"
<1> DEFINE s  == Items(option)
           E1 == LimitResult(s, MaxOperations)
           E2 == FirstError(Each(s, TokenResult))
<1>1. OperationsResult(option) = FirstError(<<E1, E2>>)
  BY DEF OperationsResult
<1> HIDE DEF s
<1>2. s \in Seq(Texts)
  BY DEF s
<1>3. E1 = "Ok" <=> Len(s) <= MaxOperations
  BY <1>2, WithinLimit, Limits
<1>4. E2 = "Ok" <=> \A i \in DOMAIN s : TokenResult(s[i]) = "Ok"
  BY <1>2, EachToken
<1> HIDE DEF E1, E2
<1>5. OperationsResult(option) = "Ok" <=> E1 = "Ok" /\ E2 = "Ok"
  BY <1>1, FirstOf2
<1> QED BY <1>3, <1>4, <1>5 DEF s

LEMMA OperationScopeParts ==
  ASSUME NEW raw, raw # None
  PROVE  OperationScopeResult(raw) = "Ok" <=>
           /\ OperationsResult(raw.allow) = "Ok" /\ OperationsResult(raw.deny) = "Ok"
           /\ Items(raw.allow) # <<>>
           /\ NoDuplicates(Operations(raw.allow)) = "Ok"
           /\ NoDuplicates(Operations(raw.deny)) = "Ok"
<1> DEFINE E1 == OperationsResult(raw.allow)
           E2 == OperationsResult(raw.deny)
           E3 == IF Items(raw.allow) = <<>> THEN "InvalidScopeShape" ELSE "Ok"
           E4 == NoDuplicates(Operations(raw.allow))
           E5 == NoDuplicates(Operations(raw.deny))
<1>1. OperationScopeResult(raw) = FirstError(<<E1, E2, E3, E4, E5>>)
  BY DEF OperationScopeResult
<1>2. E3 = "Ok" <=> Items(raw.allow) # <<>>
  OBVIOUS
<1> HIDE DEF E1, E2, E3, E4, E5
<1>3. OperationScopeResult(raw) = "Ok" <=> E1 = "Ok" /\ E2 = "Ok" /\ E3 = "Ok" /\ E4 = "Ok" /\ E5 = "Ok"
  BY <1>1, FirstOf5
<1> QED BY <1>2, <1>3 DEF E1, E2, E4, E5

LEMMA NamesAreNormal ==
  ASSUME NEW option, Items(option) \in Seq(Texts), OperationsResult(option) = "Ok",
         NoDuplicates(Operations(option)) = "Ok"
  PROVE  NormalNames(Operations(option)) /\ (Operations(option) = <<>> <=> Items(option) = <<>>)
<1> DEFINE s == Items(option)
           l == Operations(option)
<1>1. s \in Seq(Texts) /\ Len(s) <= MaxOperations /\ \A i \in DOMAIN s : TokenResult(s[i]) = "Ok"
  BY OperationsParts
<1>2. NoDuplicates(l) = "Ok"
  OBVIOUS
<1>3. l = Each(s, LAMBDA t : Trim[t])
  BY DEF Operations
<1> HIDE DEF s, l
<1>4. /\ l \in Seq(Texts) /\ Len(l) = Len(s) /\ DOMAIN l = DOMAIN s
      /\ l = <<>> <=> s = <<>>
      /\ \A i \in DOMAIN s : l[i] = Trim[s[i]]
  BY <1>1, <1>3, TrimmedList
<1>5. \A i \in DOMAIN l : NormalToken(l[i])
  BY <1>1, <1>4, SeqFacts, TokenIsNormal
<1>6. \A i, j \in DOMAIN l : l[i] = l[j] => i = j
  BY <1>2 DEF NoDuplicates
<1> QED BY <1>1, <1>4, <1>5, <1>6 DEF NormalNames, s, l

LEMMA OperationsAreNormal ==
  ASSUME NEW raw, raw # None, Items(raw.allow) \in Seq(Texts), Items(raw.deny) \in Seq(Texts),
         OperationScopeResult(raw) = "Ok"
  PROVE  NormalOperations(OperationScope(raw))
<1> DEFINE o == OperationScope(raw)
<1>1. /\ o.allow = Operations(raw.allow) /\ o.deny = Operations(raw.deny)
      /\ DOMAIN o = {"allow", "deny"} /\ o = [f \in DOMAIN o |-> o[f]]
  BY DEF OperationScope
<1>2. /\ NormalNames(Operations(raw.allow)) /\ NormalNames(Operations(raw.deny))
      /\ Operations(raw.allow) # <<>>
  BY OperationScopeParts, NamesAreNormal
<1> HIDE DEF o
<1>3. o \in KeptOperations
  BY <1>1, <1>2 DEF NormalNames, KeptOperations
<1> QED BY <1>1, <1>2, <1>3 DEF NormalOperations, o

LEMMA NormalNamesStay ==
  ASSUME NEW l, NormalNames(l), NEW option, Items(option) = l
  PROVE  /\ OperationsResult(option) = "Ok" /\ Operations(option) = l
         /\ NoDuplicates(Operations(option)) = "Ok"
<1>1. /\ l \in Seq(Texts) /\ Len(l) <= MaxOperations
      /\ \A i \in DOMAIN l : TokenResult(l[i]) = "Ok" /\ Trim[l[i]] = l[i]
      /\ \A i, j \in DOMAIN l : l[i] = l[j] => i = j
  BY DEF NormalNames, NormalToken
<1>2. OperationsResult(option) = "Ok"
  BY <1>1, OperationsParts
<1> DEFINE e == Each(l, LAMBDA t : Trim[t])
<1>3. Operations(option) = e
  BY DEF Operations
<1>4. e \in Seq(Texts) /\ DOMAIN e = DOMAIN l /\ \A i \in DOMAIN l : e[i] = Trim[l[i]]
  BY <1>1, TrimmedList
<1> HIDE DEF e
<1>5. e = l
  BY <1>1, <1>4, SameSeq
<1>6. NoDuplicates(l) = "Ok"
  BY <1>1 DEF NoDuplicates
<1> QED BY <1>2, <1>3, <1>5, <1>6

LEMMA NormalOperationsStay ==
  ASSUME NEW o, NormalOperations(o),
         NEW raw, raw # None, Items(raw.allow) = o.allow, Items(raw.deny) = o.deny
  PROVE  OperationScopeResult(raw) = "Ok" /\ OperationScope(raw) = o
<1>1. /\ o \in KeptOperations /\ NormalNames(o.allow) /\ NormalNames(o.deny) /\ o.allow # <<>>
  BY DEF NormalOperations
<1>2. /\ OperationsResult(raw.allow) = "Ok" /\ OperationsResult(raw.deny) = "Ok"
      /\ Operations(raw.allow) = o.allow /\ Operations(raw.deny) = o.deny
      /\ NoDuplicates(Operations(raw.allow)) = "Ok" /\ NoDuplicates(Operations(raw.deny)) = "Ok"
  BY <1>1, NormalNamesStay
<1>3. OperationScopeResult(raw) = "Ok"
  BY <1>1, <1>2, OperationScopeParts
<1>4. o = [allow |-> o.allow, deny |-> o.deny]
  BY <1>1 DEF KeptOperations
<1> QED BY <1>2, <1>3, <1>4 DEF OperationScope

LEMMA RawOperationsAre ==
  ASSUME NEW o \in KeptOperations
  PROVE  LET r == RawOperations(o)
         IN  /\ r # None /\ r \in AnyOperations
             /\ Items(r.allow) = o.allow /\ Items(r.deny) = o.deny
             /\ Items(o.allow) = o.allow /\ Items(o.deny) = o.deny
<1> DEFINE r == RawOperations(o)
<1>1. o.allow \in Seq(Texts) /\ o.deny \in Seq(Texts)
  BY DEF KeptOperations
<1>2. o.allow # None /\ o.deny # None
  BY <1>1, NullAssumption
<1>3. /\ r.allow = Some(o.allow) /\ r.deny = Some(o.deny)
      /\ DOMAIN r = {"allow", "deny"} /\ r = [f \in DOMAIN r |-> r[f]]
  BY DEF RawOperations
<1> HIDE DEF r
<1>4. r.allow \in Option(Seq(Texts)) /\ r.deny \in Option(Seq(Texts))
  BY <1>1, <1>3 DEF Some, Option
<1>5. r \in AnyOperations
  BY <1>3, <1>4 DEF AnyOperations
<1> QED BY <1>2, <1>3, <1>5, ItemsOfSome, NullAssumption DEF r

-----------------------------------------------------------------------------
(* Resource types.                                                         *)

NormalType(t) ==
  /\ t \in KeptType /\ NormalLists(t) /\ NormalAudience(t.audience_scope)
  /\ t.operations # None => NormalOperations(t.operations)

TypeFieldNames ==
  {"all", "allow", "deny", "capabilities", "minting", "audience_scope", "operations"}

LEMMA TypeFields ==
  ASSUME NEW t \in KeptType
  PROVE  /\ t.all \in BOOLEAN /\ t.allow \in Seq(KeptSelector) /\ t.deny \in Seq(KeptSelector)
         /\ t.capabilities \in AnyTypeCapabilities /\ t.minting \in AnyMinting
         /\ t.audience_scope \in Seq(KeptAudienceEntry) /\ t.operations \in Option(KeptOperations)
         /\ DOMAIN t = TypeFieldNames /\ t = [f \in DOMAIN t |-> t[f]]
  BY DEF KeptType, KeptOperations, TypeFieldNames

LEMMA TypeOfFields ==
  ASSUME NEW t, t.all \in BOOLEAN, t.allow \in Seq(KeptSelector), t.deny \in Seq(KeptSelector),
         t.capabilities \in AnyTypeCapabilities, t.minting \in AnyMinting,
         t.audience_scope \in Seq(KeptAudienceEntry), t.operations \in Option(KeptOperations),
         DOMAIN t = TypeFieldNames, t = [f \in DOMAIN t |-> t[f]]
  PROVE  t \in KeptType
  BY DEF KeptType, KeptOperations, TypeFieldNames

LEMMA RawTypeFields ==
  ASSUME NEW t \in AnyResourceType
  PROVE  /\ t.all \in BOOLEAN /\ t.allow \in Option(Seq(AnySelector))
         /\ t.deny \in Option(Seq(AnySelector))
         /\ t.capabilities \in AnyTypeCapabilities /\ t.minting \in AnyMinting
         /\ t.audience_scope \in Option(Seq(AnyAudienceEntry))
         /\ t.operations \in Option(AnyOperations)
  BY DEF AnyResourceType

LEMMA TypeParts ==
  ASSUME NEW raw
  PROVE  ResourceTypeResult(raw) = "Ok" <=>
           /\ SelectorsResult(raw.allow) = "Ok" /\ SelectorsResult(raw.deny) = "Ok"
           /\ AudienceResult(raw.audience_scope) = "Ok"
           /\ OperationScopeResult(raw.operations) = "Ok"
           /\ ScopeShapeResult(raw.all, Items(raw.allow)) = "Ok"
<1> DEFINE E1 == SelectorsResult(raw.allow)
           E2 == SelectorsResult(raw.deny)
           E3 == AudienceResult(raw.audience_scope)
           E4 == OperationScopeResult(raw.operations)
           E5 == ScopeShapeResult(raw.all, Items(raw.allow))
<1>1. ResourceTypeResult(raw) = FirstError(<<E1, E2, E3, E4, E5>>)
  BY DEF ResourceTypeResult
<1> HIDE DEF E1, E2, E3, E4, E5
<1>2. ResourceTypeResult(raw) = "Ok" <=> E1 = "Ok" /\ E2 = "Ok" /\ E3 = "Ok" /\ E4 = "Ok" /\ E5 = "Ok"
  BY <1>1, FirstOf5
<1> QED BY <1>2 DEF E1, E2, E3, E4, E5

LEMMA LoadedTypeParts ==
  ASSUME NEW record
  PROVE  LoadedTypeResult(record) = "Ok" <=>
           /\ LimitResult(record.audience_scope, MaxAudienceEntries) = "Ok"
           /\ LoadedListsResult(record) = "Ok"
           /\ LoadedAudienceResult(record.audience_scope) = "Ok"
           /\ OperationScopeResult(record.operations) = "Ok"
           /\ ScopeShapeResult(record.all, record.allow) = "Ok"
<1> DEFINE E1 == LimitResult(record.audience_scope, MaxAudienceEntries)
           E2 == LoadedListsResult(record)
           E3 == LoadedAudienceResult(record.audience_scope)
           E4 == OperationScopeResult(record.operations)
           E5 == ScopeShapeResult(record.all, record.allow)
<1>1. LoadedTypeResult(record) = FirstError(<<E1, E2, E3, E4, E5>>)
  BY DEF LoadedTypeResult
<1> HIDE DEF E1, E2, E3, E4, E5
<1>2. LoadedTypeResult(record) = "Ok" <=> E1 = "Ok" /\ E2 = "Ok" /\ E3 = "Ok" /\ E4 = "Ok" /\ E5 = "Ok"
  BY <1>1, FirstOf5
<1> QED BY <1>2 DEF E1, E2, E3, E4, E5

LEMMA TypeIsNormal ==
  ASSUME NEW raw \in AnyResourceType, ResourceTypeResult(raw) = "Ok"
  PROVE  NormalType(ResourceType(raw))
<1> DEFINE t == ResourceType(raw)
<1>1. /\ t.all = raw.all /\ t.allow = Selectors(raw.allow) /\ t.deny = Selectors(raw.deny)
      /\ t.capabilities = raw.capabilities /\ t.minting = raw.minting
      /\ t.audience_scope = Audience(raw.audience_scope)
      /\ t.operations = IF raw.operations = None THEN None ELSE OperationScope(raw.operations)
      /\ DOMAIN t = TypeFieldNames /\ t = [f \in DOMAIN t |-> t[f]]
  BY DEF ResourceType, Optional, TypeFieldNames
<1>2. /\ SelectorsResult(raw.allow) = "Ok" /\ SelectorsResult(raw.deny) = "Ok"
      /\ AudienceResult(raw.audience_scope) = "Ok" /\ OperationScopeResult(raw.operations) = "Ok"
      /\ ScopeShapeResult(raw.all, Items(raw.allow)) = "Ok"
  BY TypeParts
<1> HIDE DEF t
<1>3. NormalLists(t)
  BY <1>1, <1>2, RawTypeFields, AcceptedLists DEF NormalLists
<1>4. NormalAudience(t.audience_scope)
  BY <1>1, <1>2, RawTypeFields, AudienceIsNormal
<1>5. ASSUME t.operations # None PROVE NormalOperations(t.operations)
  <2>1. raw.operations # None /\ t.operations = OperationScope(raw.operations)
    BY <1>1, <1>5
  <2>2. raw.operations \in AnyOperations
    BY <2>1, RawTypeFields DEF Option
  <2>3. /\ raw.operations.allow \in Option(Seq(Texts))
        /\ raw.operations.deny \in Option(Seq(Texts))
    BY <2>2 DEF AnyOperations
  <2> QED BY <1>2, <2>1, <2>3, ItemsAreList, OperationsAreNormal
<1>6. t \in KeptType
  <2>1. t.allow \in Seq(KeptSelector) /\ t.deny \in Seq(KeptSelector)
    BY <1>3 DEF NormalLists, NormalList
  <2>2. t.audience_scope \in Seq(KeptAudienceEntry)
    BY <1>4 DEF NormalAudience
  <2>3. t.operations \in Option(KeptOperations)
    BY <1>5 DEF NormalOperations, Option
  <2> QED BY <1>1, <2>1, <2>2, <2>3, RawTypeFields, TypeOfFields
<1> QED BY <1>3, <1>4, <1>5, <1>6 DEF NormalType, t

LEMMA RawTypeIs ==
  ASSUME NEW t \in KeptType
  PROVE  LET r == RawResourceType(t)
         IN  /\ r \in AnyResourceType /\ r.all = t.all
             /\ r.allow = RawSelectors(t.allow) /\ r.deny = RawSelectors(t.deny)
             /\ r.audience_scope = RawAudience(t.audience_scope)
             /\ r.operations = IF t.operations = None THEN None ELSE RawOperations(t.operations)
<1> DEFINE r == RawResourceType(t)
<1>1. DOMAIN t = {"all", "allow", "deny", "capabilities", "minting", "audience_scope", "operations"}
  BY TypeFields DEF TypeFieldNames
<1>2. /\ r.all = t.all /\ r.allow = RawSelectors(t.allow) /\ r.deny = RawSelectors(t.deny)
      /\ r.capabilities = t.capabilities /\ r.minting = t.minting
      /\ r.audience_scope = RawAudience(t.audience_scope)
      /\ r.operations = IF t.operations = None THEN None ELSE RawOperations(t.operations)
      /\ DOMAIN r = DOMAIN t /\ r = [f \in DOMAIN r |-> r[f]]
  BY <1>1 DEF RawResourceType, Optional
<1> HIDE DEF r
<1>3. r.allow \in Option(Seq(AnySelector)) /\ r.deny \in Option(Seq(AnySelector))
  BY <1>2, TypeFields, RawSelectorsAre
<1>4. r.audience_scope \in Option(Seq(AnyAudienceEntry))
  BY <1>2, TypeFields, RawAudienceIs
<1>5. r.operations \in Option(AnyOperations)
  BY <1>2, TypeFields, RawOperationsAre DEF Option
<1>6. r \in AnyResourceType
  BY <1>1, <1>2, <1>3, <1>4, <1>5, TypeFields DEF AnyResourceType
<1> QED BY <1>2, <1>6 DEF r

LEMMA LoadedTypeIs ==
  ASSUME NEW record \in KeptType, LoadedTypeResult(record) = "Ok"
  PROVE  LET t == LoadedType(record)
         IN  /\ t \in KeptType
             /\ t.all = record.all /\ t.capabilities = record.capabilities
             /\ t.minting = record.minting
             /\ t.allow = LoadedSelectors(record.allow) /\ t.deny = LoadedSelectors(record.deny)
             /\ t.audience_scope = LoadedAudience(record.audience_scope)
             /\ t.operations =
                  IF record.operations = None THEN None ELSE OperationScope(record.operations)
             /\ t.operations # None => NormalOperations(t.operations)
<1> DEFINE t == LoadedType(record)
<1>1. DOMAIN record =
        {"all", "allow", "deny", "capabilities", "minting", "audience_scope", "operations"}
  BY TypeFields DEF TypeFieldNames
<1>2. /\ t.all = record.all /\ t.capabilities = record.capabilities /\ t.minting = record.minting
      /\ t.allow = LoadedSelectors(record.allow) /\ t.deny = LoadedSelectors(record.deny)
      /\ t.audience_scope = LoadedAudience(record.audience_scope)
      /\ t.operations =
           IF record.operations = None THEN None ELSE OperationScope(record.operations)
      /\ DOMAIN t = DOMAIN record /\ t = [f \in DOMAIN t |-> t[f]]
  BY <1>1 DEF LoadedType, Optional
<1> HIDE DEF t
<1>3. /\ LoadedListsResult(record) = "Ok" /\ LoadedAudienceResult(record.audience_scope) = "Ok"
      /\ OperationScopeResult(record.operations) = "Ok"
  BY LoadedTypeParts
<1>4. LoadedSelectorsResult(record.allow) = "Ok" /\ LoadedSelectorsResult(record.deny) = "Ok"
  BY <1>3, LoadedListsParts
<1>5. /\ \A i \in DOMAIN record.allow : LoadedSelectorResult(record.allow[i]) = "Ok"
      /\ \A i \in DOMAIN record.deny : LoadedSelectorResult(record.deny[i]) = "Ok"
  BY <1>4, TypeFields, UniqueLoaded
<1>6. t.allow \in Seq(KeptSelector) /\ t.deny \in Seq(KeptSelector)
  BY <1>2, <1>5, TypeFields, LoadedSelectorsAre
<1>7. t.audience_scope \in Seq(KeptAudienceEntry)
  BY <1>2, <1>3, TypeFields, LoadedAudienceIs
<1>8. ASSUME t.operations # None PROVE NormalOperations(t.operations)
  <2>1. record.operations # None /\ t.operations = OperationScope(record.operations)
    BY <1>2, <1>8
  <2>2. record.operations \in KeptOperations
    BY <2>1, TypeFields DEF Option
  <2>3. Items(record.operations.allow) \in Seq(Texts) /\ Items(record.operations.deny) \in Seq(Texts)
    BY <2>2, RawOperationsAre DEF KeptOperations
  <2> QED BY <1>3, <2>1, <2>3, OperationsAreNormal
<1>9. t.operations \in Option(KeptOperations)
  BY <1>8 DEF NormalOperations, Option
<1>10. t \in KeptType
  BY <1>2, <1>6, <1>7, <1>9, TypeFields, TypeOfFields
<1> QED BY <1>2, <1>8, <1>10 DEF t

LEMMA LoadedTypeIsNormal ==
  ASSUME NEW record \in KeptType, LoadedTypeResult(record) = "Ok",
         ResourceTypeResult(RawResourceType(LoadedType(record))) = "Ok"
  PROVE  NormalType(LoadedType(record))
<1> DEFINE t == LoadedType(record)
<1>1. /\ t \in KeptType /\ t.all = record.all
      /\ t.allow = LoadedSelectors(record.allow) /\ t.deny = LoadedSelectors(record.deny)
      /\ t.audience_scope = LoadedAudience(record.audience_scope)
      /\ t.operations # None => NormalOperations(t.operations)
  BY LoadedTypeIs
<1>2. ResourceTypeResult(RawResourceType(t)) = "Ok"
  OBVIOUS
<1> HIDE DEF t
<1>3. /\ SelectorsResult(RawSelectors(t.allow)) = "Ok" /\ SelectorsResult(RawSelectors(t.deny)) = "Ok"
      /\ AudienceResult(RawAudience(t.audience_scope)) = "Ok"
  BY <1>1, <1>2, TypeParts, RawTypeIs
<1>4. /\ LoadedListsResult(record) = "Ok" /\ LoadedAudienceResult(record.audience_scope) = "Ok"
      /\ ScopeShapeResult(record.all, record.allow) = "Ok"
  BY LoadedTypeParts
<1>5. NormalLists(t)
  BY <1>1, <1>3, <1>4, TypeFields, LoadedLists DEF NormalLists
<1>6. NormalAudience(t.audience_scope)
  BY <1>1, <1>3, <1>4, TypeFields, LoadedAudienceIsNormal
<1> QED BY <1>1, <1>5, <1>6 DEF NormalType, t

LEMMA NormalTypeLoads ==
  ASSUME NEW t, NormalType(t)
  PROVE  LoadedTypeResult(t) = "Ok" /\ LoadedType(t) = t
<1>1. /\ t \in KeptType /\ NormalLists(t) /\ NormalAudience(t.audience_scope)
      /\ t.operations # None => NormalOperations(t.operations)
  BY DEF NormalType
<1>2. /\ LoadedListsResult(t) = "Ok" /\ ScopeShapeResult(t.all, t.allow) = "Ok"
      /\ LoadedSelectors(t.allow) = t.allow /\ LoadedSelectors(t.deny) = t.deny
  BY <1>1, NormalListsLoad
<1>3. /\ LimitResult(t.audience_scope, MaxAudienceEntries) = "Ok"
      /\ LoadedAudienceResult(t.audience_scope) = "Ok"
      /\ LoadedAudience(t.audience_scope) = t.audience_scope
  BY <1>1, NormalAudienceLoads
<1>4. /\ OperationScopeResult(t.operations) = "Ok"
      /\ t.operations # None => OperationScope(t.operations) = t.operations
  <2>1. CASE t.operations = None
    BY <2>1 DEF OperationScopeResult
  <2>2. CASE t.operations # None
    <3> DEFINE o == t.operations
    <3>1. NormalOperations(o) /\ o \in KeptOperations
      BY <1>1, <2>2 DEF NormalOperations
    <3> HIDE DEF o
    <3>2. Items(o.allow) = o.allow /\ Items(o.deny) = o.deny
      BY <3>1, RawOperationsAre
    <3>3. o # None
      BY <2>2 DEF o
    <3>4. OperationScopeResult(o) = "Ok" /\ OperationScope(o) = o
      BY <3>1, <3>2, <3>3, NormalOperationsStay
    <3> QED BY <3>4 DEF o
  <2> QED BY <2>1, <2>2
<1>5. LoadedTypeResult(t) = "Ok"
  BY <1>2, <1>3, <1>4, LoadedTypeParts
<1> DEFINE l == LoadedType(t)
<1>6. /\ l \in KeptType /\ l.all = t.all /\ l.capabilities = t.capabilities /\ l.minting = t.minting
      /\ l.allow = t.allow /\ l.deny = t.deny /\ l.audience_scope = t.audience_scope
      /\ l.operations = t.operations
  BY <1>1, <1>2, <1>3, <1>4, <1>5, LoadedTypeIs
<1> HIDE DEF l
<1>7. /\ DOMAIN l = TypeFieldNames /\ l = [f \in DOMAIN l |-> l[f]]
      /\ DOMAIN t = TypeFieldNames /\ t = [f \in DOMAIN t |-> t[f]]
  BY <1>1, <1>6, TypeFields
<1>8. l = t
  BY <1>6, <1>7, SameRecord DEF TypeFieldNames
<1> QED BY <1>5, <1>8 DEF l

LEMMA NormalTypeIsAccepted ==
  ASSUME NEW t, NormalType(t)
  PROVE  ResourceTypeResult(RawResourceType(t)) = "Ok" /\ RawResourceType(t) \in AnyResourceType
<1> DEFINE r == RawResourceType(t)
<1>1. /\ t \in KeptType /\ NormalLists(t) /\ NormalAudience(t.audience_scope)
      /\ t.operations # None => NormalOperations(t.operations)
  BY DEF NormalType
<1>2. /\ r \in AnyResourceType /\ r.all = t.all
      /\ r.allow = RawSelectors(t.allow) /\ r.deny = RawSelectors(t.deny)
      /\ r.audience_scope = RawAudience(t.audience_scope)
      /\ r.operations = IF t.operations = None THEN None ELSE RawOperations(t.operations)
  BY <1>1, RawTypeIs
<1> HIDE DEF r
<1>3. /\ SelectorsResult(r.allow) = "Ok" /\ SelectorsResult(r.deny) = "Ok"
      /\ ScopeShapeResult(r.all, Items(r.allow)) = "Ok"
  BY <1>1, <1>2, NormalListsAreAccepted
<1>4. AudienceResult(r.audience_scope) = "Ok"
  BY <1>1, <1>2, NormalAudienceIsAccepted
<1>5. OperationScopeResult(r.operations) = "Ok"
  <2>1. CASE t.operations = None
    BY <1>2, <2>1 DEF OperationScopeResult
  <2>2. CASE t.operations # None
    <3> DEFINE o == t.operations
               p == RawOperations(o)
    <3>1. NormalOperations(o) /\ o \in KeptOperations
      BY <1>1, <2>2 DEF NormalOperations
    <3>2. r.operations = p
      BY <1>2, <2>2
    <3> HIDE DEF o
    <3>3. p # None /\ Items(p.allow) = o.allow /\ Items(p.deny) = o.deny
      BY <3>1, RawOperationsAre
    <3> HIDE DEF p
    <3> QED BY <3>1, <3>2, <3>3, NormalOperationsStay
  <2> QED BY <2>1, <2>2
<1> QED BY <1>2, <1>3, <1>4, <1>5, TypeParts DEF r

-----------------------------------------------------------------------------
(* The resource types of a document, by name.                              *)

\* No two entries for one name, and one for every name.
LEMMA EveryElementOnce ==
  ASSUME NEW S, IsFiniteSet(S)
  PROVE  LET q == SetToSeq(S)
         IN  /\ q \in Seq(S) /\ Len(q) = Cardinality(S)
             /\ \A x \in S : \E i \in DOMAIN q : q[i] = x
<1> DEFINE n == Cardinality(S)
           q == SetToSeq(S)
           I == 1 .. n
<1>1. n \in Nat /\ ExistsBijection(I, S)
  BY FS_CardinalityType
<1>2. \E f \in [I -> S] : IsInjective(f)
  <2> HIDE DEF I
  <2> QED BY <1>1 DEF ExistsBijection, Bijection, Injection
<1>3. q \in [I -> S] /\ IsInjective(q)
  BY <1>2 DEF SetToSeq
<1>4. IsFiniteSet(I) /\ Cardinality(I) = n
  BY <1>1, FS_Interval, 1 \in Int, n \in Int
<1> HIDE DEF q, n
<1>5. q \in Surjection(I, S)
  <2> HIDE DEF I
  <2>1. q \in Injection(I, S)
    BY <1>3 DEF Injection
  <2> QED BY <1>4, <2>1, FS_Injection DEF n
<1>6. \A x \in S : \E i \in I : q[i] = x
  BY <1>5 DEF Surjection
<1>7. IsTuple(q, n) /\ \A i \in 1 .. n : q[i] \in S
  BY <1>3 DEF IsTuple
<1>8. q \in Seq(S) /\ Len(q) = n
  BY <1>1, <1>7, TupleIsSeq
<1>9. DOMAIN q = I
  BY <1>3
<1> QED BY <1>6, <1>8, <1>9 DEF q, n

NormalTypes(m) ==
  /\ IsKeptScope(m) /\ Cardinality(DOMAIN m) <= MaxResourceTypes
  /\ m = [n \in DOMAIN m |-> m[n]]
  /\ \A n \in DOMAIN m : NormalToken(n) /\ NormalType(m[n])

\* Not more names than entries.
LEMMA NamesAreFinite ==
  ASSUME NEW n \in Nat, NEW f, DOMAIN f = 1 .. n
  PROVE  LET N == {f[i] : i \in DOMAIN f}
         IN  IsFiniteSet(N) /\ Cardinality(N) \in Nat /\ Cardinality(N) <= n
<1> DEFINE N == {f[i] : i \in DOMAIN f}
           g == [i \in 1 .. n |-> f[i]]
<1>1. g \in Surjection(1 .. n, N)
  BY DEF Surjection
<1>2. IsFiniteSet(1 .. n) /\ Cardinality(1 .. n) = n
  BY FS_Interval, 1 \in Int, n \in Int
<1> HIDE DEF N, g
<1>3. IsFiniteSet(N) /\ Cardinality(N) <= n
  BY <1>1, <1>2, FS_Surjection
<1>4. Cardinality(N) \in Nat
  BY <1>3, FS_CardinalityType
<1> QED BY <1>3, <1>4 DEF N

LEMMA TypesParts ==
  ASSUME NEW types \in Seq([name : Texts, type : AnyResourceType])
  PROVE  ResourceScopeResult(types) = "Ok" <=>
           /\ Len(types) <= MaxResourceTypes
           /\ \A i \in DOMAIN types :
                TokenResult(types[i].name) = "Ok" /\ ResourceTypeResult(types[i].type) = "Ok"
<1> DEFINE R == [i \in DOMAIN types |->
                   FirstError(<<TokenResult(types[i].name), ResourceTypeResult(types[i].type)>>)]
           E1 == LimitResult(types, MaxResourceTypes)
<1>1. ResourceScopeResult(types) = FirstError(<<E1, FirstError(R)>>)
  BY DEF ResourceScopeResult, Each
<1>2. E1 = "Ok" <=> Len(types) <= MaxResourceTypes
  BY WithinLimit, Limits
<1>3. DOMAIN R \in SUBSET Nat /\ DOMAIN R = DOMAIN types
  BY SeqFacts
<1>4. ASSUME NEW i \in DOMAIN types
      PROVE  R[i] = "Ok" <=>
               TokenResult(types[i].name) = "Ok" /\ ResourceTypeResult(types[i].type) = "Ok"
  <2> DEFINE F1 == TokenResult(types[i].name)
             F2 == ResourceTypeResult(types[i].type)
  <2>1. R[i] = FirstError(<<F1, F2>>)
    OBVIOUS
  <2> HIDE DEF F1, F2, R
  <2>2. R[i] = "Ok" <=> F1 = "Ok" /\ F2 = "Ok"
    BY <2>1, FirstOf2
  <2> QED BY <2>2 DEF F1, F2
<1> HIDE DEF R, E1
<1>5. FirstError(R) = "Ok" <=> \A i \in DOMAIN types : R[i] = "Ok"
  BY <1>3, FirstErrorOk
<1>6. ResourceScopeResult(types) = "Ok" <=> E1 = "Ok" /\ FirstError(R) = "Ok"
  BY <1>1, FirstOf2
<1> QED BY <1>2, <1>4, <1>5, <1>6

LEMMA TypesAreNormal ==
  ASSUME NEW types \in Seq([name : Texts, type : AnyResourceType]), ResourceScopeResult(types) = "Ok"
  PROVE  NormalTypes(ResourceScope(types))
<1> DEFINE m == ResourceScope(types)
           f == [i \in DOMAIN types |-> Trim[types[i].name]]
           named(n) == {i \in DOMAIN types : Trim[types[i].name] = n}
           last(n)  == CHOOSE i \in named(n) : \A j \in named(n) : j <= i
<1>1. /\ Len(types) \in Nat /\ DOMAIN types = 1 .. Len(types)
      /\ \A i \in DOMAIN types : types[i].name \in Texts /\ types[i].type \in AnyResourceType
  <2> DEFINE T == [name : Texts, type : AnyResourceType]
  <2>1. \A e \in T : e.name \in Texts /\ e.type \in AnyResourceType
    OBVIOUS
  <2>2. types \in Seq(T)
    OBVIOUS
  <2> HIDE DEF T
  <2> QED BY <2>1, <2>2, SeqFacts
<1>2. /\ Len(types) <= MaxResourceTypes
      /\ \A i \in DOMAIN types :
           TokenResult(types[i].name) = "Ok" /\ ResourceTypeResult(types[i].type) = "Ok"
  BY TypesParts
<1>3. /\ DOMAIN m = {f[i] : i \in DOMAIN f} /\ m = [n \in DOMAIN m |-> m[n]]
      /\ \A n \in DOMAIN m : m[n] = ResourceType(types[last(n)].type)
  BY DEF ResourceScope
<1>4. ASSUME NEW n \in DOMAIN m
      PROVE  /\ last(n) \in DOMAIN types /\ Trim[types[last(n)].name] = n
             /\ m[n] = ResourceType(types[last(n)].type)
  <2>1. PICK i \in DOMAIN types : Trim[types[i].name] = n
    BY <1>3
  <2>2. last(n) \in DOMAIN types /\ Trim[types[last(n)].name] = n
    BY <2>1, LastNamed
  <2> QED BY <1>3, <2>2
<1>5. IsFiniteSet(DOMAIN m) /\ Cardinality(DOMAIN m) <= MaxResourceTypes
  <2> DEFINE N == {f[i] : i \in DOMAIN f}
  <2>1. DOMAIN f = 1 .. Len(types)
    BY <1>1
  <2> HIDE DEF m, f
  <2>2. IsFiniteSet(N) /\ Cardinality(N) \in Nat /\ Cardinality(N) <= Len(types)
    BY <1>1, <2>1, NamesAreFinite
  <2>3. DOMAIN m = N
    BY <1>3
  <2> HIDE DEF N
  <2> QED BY <1>1, <1>2, <2>2, <2>3, Limits
<1> HIDE DEF m, last
<1>6. ASSUME NEW n \in DOMAIN m
      PROVE  NormalToken(n) /\ NormalType(m[n])
  <2>1. NormalToken(n)
    BY <1>1, <1>2, <1>4, TokenIsNormal
  <2>2. NormalType(m[n])
    BY <1>1, <1>2, <1>4, TypeIsNormal
  <2> QED BY <2>1, <2>2
<1>7. IsKeptScope(m)
  BY <1>5, <1>6 DEF IsKeptScope, NormalToken, NormalType
<1> QED BY <1>3, <1>5, <1>6, <1>7 DEF NormalTypes, m

\* What a record's types are read as, and the list in which types are
\* checked again.
LoadedTypes(m) ==
  [name \in {Trim[n] : n \in DOMAIN m} |->
     LoadedType(m[CHOOSE n \in DOMAIN m : Trim[n] = name])]

RawTypeList(m) ==
  Each(SetToSeq(DOMAIN m), LAMBDA n : [name |-> n, type |-> RawResourceType(m[n])])

LEMMA RawTypeListIs ==
  ASSUME NEW m, IsKeptScope(m)
  PROVE  LET q == RawTypeList(m)
         IN  /\ q \in Seq([name : Texts, type : AnyResourceType])
             /\ Len(q) = Cardinality(DOMAIN m)
             /\ \A i \in DOMAIN q : q[i].name \in DOMAIN m
                                    /\ q[i].type = RawResourceType(m[q[i].name])
             /\ \A n \in DOMAIN m : \E i \in DOMAIN q : q[i].name = n
<1> DEFINE q == RawTypeList(m)
           s == SetToSeq(DOMAIN m)
           Entry(n) == [name |-> n, type |-> RawResourceType(m[n])]
<1>1. /\ IsFiniteSet(DOMAIN m) /\ DOMAIN m \subseteq Texts
      /\ \A n \in DOMAIN m : m[n] \in KeptType
  BY DEF IsKeptScope
<1>2. /\ s \in Seq(DOMAIN m) /\ Len(s) = Cardinality(DOMAIN m)
      /\ \A x \in DOMAIN m : \E i \in DOMAIN s : s[i] = x
  BY <1>1, EveryElementOnce
<1>3. q = [i \in DOMAIN s |-> Entry(s[i])]
  BY DEF RawTypeList, Each
<1> HIDE DEF s, q
<1>4. ASSUME NEW i \in DOMAIN s
      PROVE  /\ s[i] \in DOMAIN m /\ q[i].name = s[i] /\ q[i].type = RawResourceType(m[s[i]])
             /\ q[i] \in [name : Texts, type : AnyResourceType]
  <2>1. s[i] \in DOMAIN m
    BY <1>2, SeqFacts
  <2>2. q[i] = Entry(s[i])
    BY <1>3
  <2>3. RawResourceType(m[s[i]]) \in AnyResourceType
    BY <1>1, <2>1, RawTypeIs
  <2> QED BY <1>1, <2>1, <2>2, <2>3
<1>5. Mapped(q, s)
  BY <1>3 DEF Mapped
<1>6. /\ q \in Seq([name : Texts, type : AnyResourceType]) /\ Len(q) = Len(s)
      /\ DOMAIN q = DOMAIN s
  <2> DEFINE T == [name : Texts, type : AnyResourceType]
  <2>1. \A i \in DOMAIN s : q[i] \in T
    BY <1>4
  <2> HIDE DEF T
  <2>2. q \in Seq(T) /\ Len(q) = Len(s) /\ DOMAIN q = DOMAIN s
    BY <1>2, <1>5, <2>1, MappedSeq
  <2> QED BY <2>2 DEF T
<1> QED BY <1>2, <1>4, <1>6 DEF q

LEMMA LoadedTypesAreNormal ==
  ASSUME NEW m, IsKeptScope(m), Cardinality(DOMAIN m) <= MaxResourceTypes,
         \A n \in DOMAIN m : TokenResult(n) = "Ok" /\ LoadedTypeResult(m[n]) = "Ok"
  PROVE  /\ IsKeptScope(LoadedTypes(m))
         /\ ResourceScopeResult(RawTypeList(LoadedTypes(m))) = "Ok" => NormalTypes(LoadedTypes(m))
<1> DEFINE k == LoadedTypes(m)
           Of(name) == CHOOSE n \in DOMAIN m : Trim[n] = name
<1>1. /\ IsFiniteSet(DOMAIN m) /\ DOMAIN m \subseteq Texts
      /\ \A n \in DOMAIN m : m[n] \in KeptType
  BY DEF IsKeptScope
<1>2. /\ DOMAIN k = {Trim[n] : n \in DOMAIN m} /\ k = [n \in DOMAIN k |-> k[n]]
      /\ \A n \in DOMAIN k : k[n] = LoadedType(m[Of(n)])
  BY DEF LoadedTypes
<1>3. ASSUME NEW n \in DOMAIN k
      PROVE  /\ Of(n) \in DOMAIN m /\ NormalToken(n)
             /\ k[n] = LoadedType(m[Of(n)]) /\ k[n] \in KeptType
  <2>1. Of(n) \in DOMAIN m /\ Trim[Of(n)] = n
    BY <1>2
  <2> HIDE DEF Of
  <2>2. Of(n) \in Texts /\ TokenResult(Of(n)) = "Ok"
    BY <1>1, <2>1
  <2>3. NormalToken(n)
    BY <2>1, <2>2, TokenIsNormal
  <2>4. k[n] = LoadedType(m[Of(n)])
    BY <1>2
  <2>5. k[n] \in KeptType
    BY <1>1, <2>1, <2>4, LoadedTypeIs
  <2> QED BY <2>1, <2>3, <2>4, <2>5
<1>4. IsFiniteSet(DOMAIN k)
  <2> DEFINE g == [n \in DOMAIN m |-> Trim[n]]
             N == {Trim[n] : n \in DOMAIN m}
  <2>1. g \in Surjection(DOMAIN m, N)
    BY DEF Surjection
  <2>2. DOMAIN k = N
    BY <1>2
  <2> HIDE DEF k, N, g
  <2>3. IsFiniteSet(N)
    BY <1>1, <2>1, FS_Surjection
  <2> QED BY <2>2, <2>3
<1>5. IsKeptScope(k)
  <2> HIDE DEF k
  <2> QED BY <1>3, <1>4 DEF IsKeptScope, NormalToken
<1>6. ASSUME ResourceScopeResult(RawTypeList(k)) = "Ok" PROVE NormalTypes(k)
  <2> DEFINE q == RawTypeList(k)
  <2> HIDE DEF k
  <2>1. /\ q \in Seq([name : Texts, type : AnyResourceType])
        /\ Len(q) = Cardinality(DOMAIN k)
        /\ \A i \in DOMAIN q : q[i].type = RawResourceType(k[q[i].name])
        /\ \A n \in DOMAIN k : \E i \in DOMAIN q : q[i].name = n
    BY <1>5, RawTypeListIs
  <2> HIDE DEF q
  <2>2. /\ Len(q) <= MaxResourceTypes
        /\ \A i \in DOMAIN q : ResourceTypeResult(q[i].type) = "Ok"
    BY <1>6, <2>1, TypesParts DEF q
  <2>3. ASSUME NEW n \in DOMAIN k PROVE NormalType(k[n])
    <3>1. ResourceTypeResult(RawResourceType(k[n])) = "Ok"
      BY <2>1, <2>2
    <3> HIDE DEF Of
    <3>2. m[Of(n)] \in KeptType /\ LoadedTypeResult(m[Of(n)]) = "Ok"
      BY <1>1, <1>3
    <3> QED BY <1>3, <3>1, <3>2, LoadedTypeIsNormal
  <2> QED BY <1>2, <1>3, <1>5, <2>1, <2>2, <2>3 DEF NormalTypes
<1> QED BY <1>5, <1>6 DEF k

LEMMA NormalTypesLoad ==
  ASSUME NEW m, NormalTypes(m)
  PROVE  /\ \A n \in DOMAIN m : TokenResult(n) = "Ok" /\ LoadedTypeResult(m[n]) = "Ok"
         /\ LoadedTypes(m) = m
<1>1. /\ m = [n \in DOMAIN m |-> m[n]]
      /\ \A n \in DOMAIN m : /\ Trim[n] = n /\ TokenResult(n) = "Ok"
                             /\ LoadedTypeResult(m[n]) = "Ok" /\ LoadedType(m[n]) = m[n]
  BY NormalTypeLoads DEF NormalTypes, NormalToken
<1>2. {Trim[n] : n \in DOMAIN m} = DOMAIN m
  BY <1>1
<1>3. \A n \in DOMAIN m : (CHOOSE k \in DOMAIN m : Trim[k] = n) = n
  BY <1>1
<1>4. LoadedTypes(m) = [n \in DOMAIN m |-> m[n]]
  BY <1>1, <1>2, <1>3 DEF LoadedTypes
<1> QED BY <1>1, <1>4

LEMMA NormalTypesAreAccepted ==
  ASSUME NEW m, NormalTypes(m)
  PROVE  ResourceScopeResult(RawTypeList(m)) = "Ok"
<1> DEFINE q == RawTypeList(m)
<1>1. /\ IsKeptScope(m) /\ Cardinality(DOMAIN m) <= MaxResourceTypes
      /\ \A n \in DOMAIN m : TokenResult(n) = "Ok" /\ ResourceTypeResult(RawResourceType(m[n])) = "Ok"
  BY NormalTypeIsAccepted DEF NormalTypes, NormalToken
<1>2. /\ q \in Seq([name : Texts, type : AnyResourceType]) /\ Len(q) = Cardinality(DOMAIN m)
      /\ \A i \in DOMAIN q : q[i].name \in DOMAIN m /\ q[i].type = RawResourceType(m[q[i].name])
  BY <1>1, RawTypeListIs
<1> HIDE DEF q
<1>3. ResourceScopeResult(q) = "Ok"
  BY <1>1, <1>2, TypesParts
<1> QED BY <1>3 DEF q

-----------------------------------------------------------------------------
(* Documents.                                                              *)

LEMMA DocumentParts ==
  ASSUME NEW raw
  PROVE  DocumentResult(raw) = "Ok" <=>
           /\ HeadResult(raw) = "Ok" /\ ScopeResult(raw.target_scope) = "Ok"
           /\ AudienceResult(raw.default_audience_scope) = "Ok"
           /\ ResourceScopeResult(raw.resource_scope) = "Ok"
           /\ WindowResult(TimeWindow(raw.global_constraints)) = "Ok"
           /\ PrincipalResult(raw.issuer_principal) = "Ok"
<1> DEFINE E1 == HeadResult(raw)
           E2 == ScopeResult(raw.target_scope)
           E3 == AudienceResult(raw.default_audience_scope)
           E4 == ResourceScopeResult(raw.resource_scope)
           E5 == WindowResult(TimeWindow(raw.global_constraints))
           E6 == PrincipalResult(raw.issuer_principal)
<1>1. DocumentResult(raw) = FirstError(<<E1, E2, E3, E4, E5, E6>>)
  BY DEF DocumentResult
<1> HIDE DEF E1, E2, E3, E4, E5, E6
<1>2. DocumentResult(raw) = "Ok" <=> /\ E1 = "Ok" /\ E2 = "Ok" /\ E3 = "Ok"
                                     /\ E4 = "Ok" /\ E5 = "Ok" /\ E6 = "Ok"
  BY <1>1, FirstOf6
<1> QED BY <1>2 DEF E1, E2, E3, E4, E5, E6

LEMMA HeadParts ==
  ASSUME NEW raw
  PROVE  HeadResult(raw) = "Ok" <=>
           /\ raw.version = 0 /\ LineageResult(raw) = "Ok"
           /\ AuthorityResult(raw.issuer_authority) = "Ok"
           /\ AuthorityResult(raw.origin_authority) = "Ok"
           /\ AuthorityResult(raw.active_owning_authority) = "Ok"
           /\ TokenResult(raw.key_id) = "Ok" /\ raw.signature # None
<1> DEFINE E1 == IF raw.version = 0 THEN "Ok" ELSE "InvalidProtocolVersion"
           E2 == LineageResult(raw)
           E3 == AuthorityResult(raw.issuer_authority)
           E4 == AuthorityResult(raw.origin_authority)
           E5 == AuthorityResult(raw.active_owning_authority)
           E6 == TokenResult(raw.key_id)
           E7 == IF raw.signature = None THEN "EmptyStringField" ELSE "Ok"
<1>1. HeadResult(raw) = FirstError(<<E1, E2, E3, E4, E5, E6, E7>>)
  BY DEF HeadResult
<1>2. /\ E1 = "Ok" <=> raw.version = 0
      /\ E7 = "Ok" <=> raw.signature # None
  OBVIOUS
<1> HIDE DEF E1, E2, E3, E4, E5, E6, E7
<1>3. HeadResult(raw) = "Ok" <=> /\ E1 = "Ok" /\ E2 = "Ok" /\ E3 = "Ok" /\ E4 = "Ok"
                                 /\ E5 = "Ok" /\ E6 = "Ok" /\ E7 = "Ok"
  BY <1>1, FirstOf7
<1> QED BY <1>2, <1>3 DEF E2, E3, E4, E5, E6

\* The lineage, as it was read.
LEMMA LineageParts ==
  ASSUME NEW raw, NEW id, NEW series, NEW supersedes,
         id = TrustGrantIdOf[raw.trustgrant_id], series = GrantSeriesIdOf[raw.grant_series_id],
         supersedes = IF raw.supersedes = None THEN None ELSE TrustGrantIdOf[raw.supersedes]
  PROVE  LineageResult(raw) = "Ok" <=>
           /\ id # None /\ series # None /\ raw.revision # 0
           /\ raw.supersedes # None => supersedes # None
           /\ raw.revision = 1 => supersedes = None
           /\ supersedes # id
<1> DEFINE E1 == IdResult(id)
           E2 == IdResult(series)
           E3 == IF raw.revision = 0 THEN "ZeroRevision" ELSE "Ok"
           E4 == IF raw.supersedes = None THEN "Ok" ELSE IdResult(supersedes)
           E5 == IF raw.revision = 1 /\ supersedes # None
                 THEN "InvalidSupersedesForFirstRevision" ELSE "Ok"
           E6 == IF supersedes = id THEN "SelfSupersession" ELSE "Ok"
<1>1. LineageResult(raw) = FirstError(<<E1, E2, E3, E4, E5, E6>>)
  BY DEF LineageResult, Optional
<1>2. /\ E1 = "Ok" <=> id # None
      /\ E2 = "Ok" <=> series # None
      /\ E3 = "Ok" <=> raw.revision # 0
      /\ E4 = "Ok" <=> (raw.supersedes # None => supersedes # None)
      /\ E5 = "Ok" <=> (raw.revision = 1 => supersedes = None)
      /\ E6 = "Ok" <=> supersedes # id
  BY DEF IdResult
<1> HIDE DEF E1, E2, E3, E4, E5, E6
<1>3. LineageResult(raw) = "Ok" <=> /\ E1 = "Ok" /\ E2 = "Ok" /\ E3 = "Ok"
                                    /\ E4 = "Ok" /\ E5 = "Ok" /\ E6 = "Ok"
  BY <1>1, FirstOf6
<1> QED BY <1>2, <1>3

LEMMA PrincipalParts ==
  ASSUME NEW p, p # None
  PROVE  PrincipalResult(p) = "Ok" <=> TokenResult(p.kind) = "Ok" /\ TokenResult(p.id) = "Ok"
<1> DEFINE E1 == TokenResult(p.kind)
           E2 == TokenResult(p.id)
<1>1. PrincipalResult(p) = FirstError(<<E1, E2>>)
  BY DEF PrincipalResult
<1> HIDE DEF E1, E2
<1>2. PrincipalResult(p) = "Ok" <=> E1 = "Ok" /\ E2 = "Ok"
  BY <1>1, FirstOf2
<1> QED BY <1>2 DEF E1, E2

NormalPrincipal(p) ==
  p \in Option(AnyPrincipal) /\ PrincipalResult(p) = "Ok" /\ Optional(p, Principal) = p

LEMMA PrincipalIsNormal ==
  ASSUME NEW p \in Option(AnyPrincipal), PrincipalResult(p) = "Ok"
  PROVE  NormalPrincipal(Optional(p, Principal))
<1>1. CASE p = None
  BY <1>1 DEF NormalPrincipal, Optional, PrincipalResult, Option
<1>2. CASE p # None
  <2> DEFINE q == Principal(p)
  <2>1. /\ p.kind \in Texts /\ p.id \in Texts
        /\ q.kind = Trim[p.kind] /\ q.id = Trim[p.id]
        /\ q = [kind |-> q.kind, id |-> q.id]
    BY <1>2 DEF Option, AnyPrincipal, Principal
  <2>2. TokenResult(p.kind) = "Ok" /\ TokenResult(p.id) = "Ok"
    BY <1>2, PrincipalParts
  <2> HIDE DEF q
  <2>3. NormalToken(q.kind) /\ NormalToken(q.id)
    BY <2>1, <2>2, TokenIsNormal
  <2>4. q \in AnyPrincipal
    BY <2>1, <2>3 DEF AnyPrincipal, NormalToken
  <2>5. Principal(q) = q
    BY <2>1, <2>3 DEF Principal, NormalToken
  <2>6. PrincipalResult(q) = "Ok"
    BY <2>3, PrincipalParts DEF NormalToken, PrincipalResult
  <2>7. NormalPrincipal(q)
    BY <2>4, <2>5, <2>6 DEF NormalPrincipal, Optional, Option
  <2> QED BY <1>2, <2>7 DEF Optional, q
<1> QED BY <1>1, <1>2

-----------------------------------------------------------------------------
(* Documents in normal form.                                               *)

KeptFieldNames ==
  {"trustgrant_id", "grant_series_id", "revision", "supersedes", "supersession_policy",
   "issuer_authority", "origin_authority", "active_owning_authority", "key_id", "target_scope",
   "capabilities", "default_audience_scope", "resource_scope", "global_time_window",
   "revocation", "issued_at", "issuer_principal", "interoperability_profile"}

\* IsKept, field by field.
HasTypes(d) ==
  /\ d.trustgrant_id \in Texts /\ d.grant_series_id \in Texts /\ d.revision \in Nat
  /\ d.supersedes \in Option(Texts)
  /\ d.supersession_policy \in {"Coexist", "SupersedePrevious", "ExplicitRevocationRequired"}
  /\ d.issuer_authority \in Texts /\ d.origin_authority \in Texts
  /\ d.active_owning_authority \in Texts /\ d.key_id \in Texts
  /\ d.target_scope \in KeptScope /\ d.capabilities \in [recognize : BOOLEAN, mint : BOOLEAN]
  /\ d.default_audience_scope \in Seq(KeptAudienceEntry)
  /\ IsKeptScope(d.resource_scope)
  /\ d.global_time_window \in Option(AnyWindow) /\ d.revocation \in Option(AnyRevocation)
  /\ d.issued_at \in Int /\ d.issuer_principal \in Option(AnyPrincipal)
  /\ d.interoperability_profile \in Option(AnyProfile)

LEMMA KeptTypesFacts ==
  /\ DOMAIN KeptTypes = KeptFieldNames \ {"resource_scope"}
  /\ KeptTypes.trustgrant_id = Texts /\ KeptTypes.grant_series_id = Texts
  /\ KeptTypes.revision = Nat /\ KeptTypes.supersedes = Option(Texts)
  /\ KeptTypes.supersession_policy =
       {"Coexist", "SupersedePrevious", "ExplicitRevocationRequired"}
  /\ KeptTypes.issuer_authority = Texts /\ KeptTypes.origin_authority = Texts
  /\ KeptTypes.active_owning_authority = Texts /\ KeptTypes.key_id = Texts
  /\ KeptTypes.target_scope = KeptScope
  /\ KeptTypes.capabilities = [recognize : BOOLEAN, mint : BOOLEAN]
  /\ KeptTypes.default_audience_scope = Seq(KeptAudienceEntry)
  /\ KeptTypes.global_time_window = Option(AnyWindow)
  /\ KeptTypes.revocation = Option(AnyRevocation) /\ KeptTypes.issued_at = Int
  /\ KeptTypes.issuer_principal = Option(AnyPrincipal)
  /\ KeptTypes.interoperability_profile = Option(AnyProfile)
<1>1. DOMAIN KeptTypes = KeptFieldNames \ {"resource_scope"}
  BY DEF KeptTypes, KeptFieldNames
<1>2. RawTypes.capabilities = [recognize : BOOLEAN, mint : BOOLEAN]
  BY RawTypesFacts
<1> QED BY <1>1, <1>2 DEF KeptTypes

LEMMA KeptHasTypes ==
  ASSUME NEW d
  PROVE  IsKept(d) <=> DOMAIN d = KeptFieldNames /\ HasTypes(d)
<1>1. ASSUME IsKept(d) PROVE DOMAIN d = KeptFieldNames /\ HasTypes(d)
  <2>1. /\ DOMAIN d = DOMAIN KeptTypes \cup {"resource_scope"} /\ IsKeptScope(d.resource_scope)
        /\ \A field \in DOMAIN KeptTypes : d[field] \in KeptTypes[field]
    BY <1>1 DEF IsKept
  <2>2. DOMAIN d = KeptFieldNames
    BY <2>1, KeptTypesFacts DEF KeptFieldNames
  <2>3. \A field \in KeptFieldNames \ {"resource_scope"} : d[field] \in KeptTypes[field]
    BY <2>1, KeptTypesFacts
  <2>4. /\ d["trustgrant_id"] \in Texts /\ d["grant_series_id"] \in Texts /\ d["revision"] \in Nat
        /\ d["supersedes"] \in Option(Texts)
        /\ d["supersession_policy"]
             \in {"Coexist", "SupersedePrevious", "ExplicitRevocationRequired"}
        /\ d["issuer_authority"] \in Texts /\ d["origin_authority"] \in Texts
    BY <2>3, KeptTypesFacts DEF KeptFieldNames
  <2>5. /\ d["active_owning_authority"] \in Texts /\ d["key_id"] \in Texts
        /\ d["target_scope"] \in KeptScope
        /\ d["capabilities"] \in [recognize : BOOLEAN, mint : BOOLEAN]
        /\ d["default_audience_scope"] \in Seq(KeptAudienceEntry)
    BY <2>3, KeptTypesFacts DEF KeptFieldNames
  <2>6. /\ d["global_time_window"] \in Option(AnyWindow)
        /\ d["revocation"] \in Option(AnyRevocation) /\ d["issued_at"] \in Int
        /\ d["issuer_principal"] \in Option(AnyPrincipal)
        /\ d["interoperability_profile"] \in Option(AnyProfile)
    BY <2>3, KeptTypesFacts DEF KeptFieldNames
  <2>7. HasTypes(d)
    BY <2>1, <2>4, <2>5, <2>6 DEF HasTypes
  <2> QED BY <2>2, <2>7
<1>2. ASSUME DOMAIN d = KeptFieldNames, HasTypes(d) PROVE IsKept(d)
  <2>1. DOMAIN d = DOMAIN KeptTypes \cup {"resource_scope"}
    BY <1>2, KeptTypesFacts DEF KeptFieldNames
  <2>2. \A field \in DOMAIN KeptTypes : d[field] \in KeptTypes[field]
    <3>1. \A field \in {"trustgrant_id", "grant_series_id", "revision", "supersedes",
                        "supersession_policy", "issuer_authority", "origin_authority"} :
            d[field] \in KeptTypes[field]
      BY <1>2, KeptTypesFacts DEF HasTypes
    <3>2. \A field \in {"active_owning_authority", "key_id", "target_scope", "capabilities",
                        "default_audience_scope"} :
            d[field] \in KeptTypes[field]
      BY <1>2, KeptTypesFacts DEF HasTypes
    <3>3. \A field \in {"global_time_window", "revocation", "issued_at", "issuer_principal",
                        "interoperability_profile"} :
            d[field] \in KeptTypes[field]
      BY <1>2, KeptTypesFacts DEF HasTypes
    <3>4. DOMAIN KeptTypes \subseteq
            {"trustgrant_id", "grant_series_id", "revision", "supersedes",
             "supersession_policy", "issuer_authority", "origin_authority"}
              \cup {"active_owning_authority", "key_id", "target_scope", "capabilities",
                    "default_audience_scope"}
              \cup {"global_time_window", "revocation", "issued_at", "issuer_principal",
                    "interoperability_profile"}
      BY KeptTypesFacts DEF KeptFieldNames
    <3> QED BY <3>1, <3>2, <3>3, <3>4
  <2> QED BY <1>2, <2>1, <2>2 DEF IsKept, HasTypes
<1> QED BY <1>1, <1>2

NormalHead(d) ==
  /\ TrustGrantIdOf[d.trustgrant_id] = d.trustgrant_id
  /\ GrantSeriesIdOf[d.grant_series_id] = d.grant_series_id
  /\ d.revision # 0 /\ d.supersession_policy # "ExplicitRevocationRequired"
  /\ d.supersedes # None => TrustGrantIdOf[d.supersedes] = d.supersedes
  /\ d.revision = 1 => d.supersedes = None
  /\ d.supersedes # d.trustgrant_id
  /\ NormalAuthority(d.issuer_authority) /\ NormalAuthority(d.origin_authority)
  /\ NormalAuthority(d.active_owning_authority) /\ NormalToken(d.key_id)

NormalDocument(d) ==
  /\ IsKept(d) /\ d = [f \in DOMAIN d |-> d[f]]
  /\ NormalHead(d) /\ NormalScope(d.target_scope) /\ NormalAudience(d.default_audience_scope)
  /\ NormalTypes(d.resource_scope)
  /\ WindowResult(d.global_time_window) = "Ok" /\ NormalPrincipal(d.issuer_principal)

\* An id that was read is read again as it is.
LEMMA IdsAreNormal ==
  ASSUME NEW t \in Texts
  PROVE  /\ TrustGrantIdOf[t] \in Texts \cup {None} /\ GrantSeriesIdOf[t] \in Texts \cup {None}
         /\ TrustGrantIdOf[t] # None => TrustGrantIdOf[TrustGrantIdOf[t]] = TrustGrantIdOf[t]
         /\ GrantSeriesIdOf[t] # None => GrantSeriesIdOf[GrantSeriesIdOf[t]] = GrantSeriesIdOf[t]
  BY DocumentAssumption DEF Spellings

\* A document, or a record, whose head is in order, and the document that
\* is read from it.
HeadFits(raw) ==
  /\ LineageResult(raw) = "Ok"
  /\ AuthorityResult(raw.issuer_authority) = "Ok" /\ AuthorityResult(raw.origin_authority) = "Ok"
  /\ AuthorityResult(raw.active_owning_authority) = "Ok" /\ TokenResult(raw.key_id) = "Ok"

ReadsHead(d, raw) ==
  /\ d.trustgrant_id = TrustGrantIdOf[raw.trustgrant_id]
  /\ d.grant_series_id = GrantSeriesIdOf[raw.grant_series_id]
  /\ d.revision = raw.revision /\ d.supersession_policy = raw.supersession_policy
  /\ d.supersedes = IF raw.supersedes = None THEN None ELSE TrustGrantIdOf[raw.supersedes]
  /\ d.issuer_authority = AuthorityOf(raw.issuer_authority)
  /\ d.origin_authority = AuthorityOf(raw.origin_authority)
  /\ d.active_owning_authority = AuthorityOf(raw.active_owning_authority)
  /\ d.key_id = Trim[raw.key_id]

LEMMA HeadIsNormal ==
  ASSUME NEW raw, NEW d, HeadFits(raw), ReadsHead(d, raw),
         raw.trustgrant_id \in Texts, raw.grant_series_id \in Texts,
         raw.supersedes \in Option(Texts), raw.issuer_authority \in Texts,
         raw.origin_authority \in Texts, raw.active_owning_authority \in Texts,
         raw.key_id \in Texts, raw.supersession_policy # "ExplicitRevocationRequired"
  PROVE  /\ NormalHead(d) /\ d.trustgrant_id \in Texts /\ d.grant_series_id \in Texts
         /\ d.supersedes \in Option(Texts) /\ d.issuer_authority \in Texts
         /\ d.origin_authority \in Texts /\ d.active_owning_authority \in Texts
         /\ d.key_id \in Texts
<1>1. /\ d.trustgrant_id # None /\ d.grant_series_id # None /\ d.revision # 0
      /\ raw.supersedes # None => d.supersedes # None
      /\ d.revision = 1 => d.supersedes = None
      /\ d.supersedes # d.trustgrant_id
  BY LineageParts DEF HeadFits, ReadsHead
<1>2. /\ d.trustgrant_id \in Texts /\ TrustGrantIdOf[d.trustgrant_id] = d.trustgrant_id
      /\ d.grant_series_id \in Texts /\ GrantSeriesIdOf[d.grant_series_id] = d.grant_series_id
  BY <1>1, IdsAreNormal DEF ReadsHead
<1>3. /\ d.supersedes \in Option(Texts)
      /\ d.supersedes # None => TrustGrantIdOf[d.supersedes] = d.supersedes
  <2>1. CASE raw.supersedes = None
    BY <2>1 DEF ReadsHead, Option
  <2>2. CASE raw.supersedes # None
    <3>1. raw.supersedes \in Texts /\ d.supersedes = TrustGrantIdOf[raw.supersedes]
      BY <2>2 DEF ReadsHead, Option
    <3> QED BY <1>1, <2>2, <3>1, IdsAreNormal DEF Option
  <2> QED BY <2>1, <2>2
<1>4. /\ NormalAuthority(d.issuer_authority) /\ NormalAuthority(d.origin_authority)
      /\ NormalAuthority(d.active_owning_authority)
  BY AuthorityIsNormal DEF HeadFits, ReadsHead
<1>5. NormalToken(d.key_id)
  BY TokenIsNormal DEF HeadFits, ReadsHead
<1>6. d.supersession_policy # "ExplicitRevocationRequired"
  BY DEF ReadsHead
<1> QED BY <1>1, <1>2, <1>3, <1>4, <1>5, <1>6 DEF NormalHead, NormalAuthority, NormalToken

LEMMA NormalHeadStays ==
  ASSUME NEW d, NormalHead(d), d.trustgrant_id \in Texts, d.grant_series_id \in Texts
  PROVE  HeadFits(d) /\ ReadsHead(d, d)
<1>1. ReadsHead(d, d)
  BY DEF NormalHead, ReadsHead, NormalAuthority, NormalToken
<1>2. d.trustgrant_id # None /\ d.grant_series_id # None
  BY DocumentAssumption
<1>3. LineageResult(d) = "Ok"
  BY <1>1, <1>2, LineageParts DEF NormalHead, ReadsHead
<1> QED BY <1>1, <1>3 DEF HeadFits, NormalHead, NormalAuthority, NormalToken

-----------------------------------------------------------------------------
LEMMA DocumentIsNormal ==
  ASSUME NEW raw, IsRaw(raw), DocumentResult(raw) = "Ok"
  PROVE  NormalDocument(Document(raw))
<1> DEFINE d == Document(raw)
<1>1. DOMAIN d = KeptFieldNames /\ d = [f \in DOMAIN d |-> d[f]]
  BY DEF Document, KeptFieldNames
<1>2. /\ ReadsHead(d, raw)
      /\ d.target_scope = Scope(raw.target_scope) /\ d.capabilities = raw.capabilities
      /\ d.default_audience_scope = Audience(raw.default_audience_scope)
      /\ d.resource_scope = ResourceScope(raw.resource_scope)
      /\ d.global_time_window = TimeWindow(raw.global_constraints)
      /\ d.revocation = raw.revocation /\ d.issued_at = raw.issued_at
      /\ d.issuer_principal = Optional(raw.issuer_principal, Principal)
      /\ d.interoperability_profile = raw.interoperability_profile
  BY DEF Document, ReadsHead, Optional
<1> HIDE DEF d
<1>3. /\ HeadFits(raw) /\ ScopeResult(raw.target_scope) = "Ok"
      /\ AudienceResult(raw.default_audience_scope) = "Ok"
      /\ ResourceScopeResult(raw.resource_scope) = "Ok"
      /\ WindowResult(TimeWindow(raw.global_constraints)) = "Ok"
      /\ PrincipalResult(raw.issuer_principal) = "Ok"
  BY DocumentParts, HeadParts DEF HeadFits
<1>4. /\ NormalHead(d) /\ d.trustgrant_id \in Texts /\ d.grant_series_id \in Texts
      /\ d.supersedes \in Option(Texts) /\ d.issuer_authority \in Texts
      /\ d.origin_authority \in Texts /\ d.active_owning_authority \in Texts
      /\ d.key_id \in Texts
  <2>1. raw.supersession_policy # "ExplicitRevocationRequired"
    BY RawFields
  <2> QED BY <1>2, <1>3, <2>1, RawFields, HeadIsNormal
<1>5. NormalScope(d.target_scope)
  BY <1>2, <1>3, RawFields, ScopeIsNormal
<1>6. NormalAudience(d.default_audience_scope)
  BY <1>2, <1>3, RawFields, AudienceIsNormal
<1>7. NormalTypes(d.resource_scope)
  BY <1>2, <1>3, RawFields, TypesAreNormal
<1>8. NormalPrincipal(d.issuer_principal)
  BY <1>2, <1>3, RawFields, PrincipalIsNormal
<1>9. d.global_time_window \in Option(AnyWindow) /\ WindowResult(d.global_time_window) = "Ok"
  BY <1>2, <1>3, RawFields DEF TimeWindow, Option, AnyConstraints
<1>10. HasTypes(d)
  <2>1. d.target_scope \in KeptScope /\ d.default_audience_scope \in Seq(KeptAudienceEntry)
    BY <1>5, <1>6 DEF NormalScope, NormalAudience
  <2>2. IsKeptScope(d.resource_scope) /\ d.issuer_principal \in Option(AnyPrincipal)
    BY <1>7, <1>8 DEF NormalTypes, NormalPrincipal
  <2>3. /\ d.revision \in Nat
        /\ d.supersession_policy \in {"Coexist", "SupersedePrevious", "ExplicitRevocationRequired"}
    BY <1>2, RawFields DEF ReadsHead
  <2>4. /\ d.capabilities \in [recognize : BOOLEAN, mint : BOOLEAN]
        /\ d.revocation \in Option(AnyRevocation) /\ d.issued_at \in Int
        /\ d.interoperability_profile \in Option(AnyProfile)
    BY <1>2, RawFields
  <2> QED BY <1>4, <1>9, <2>1, <2>2, <2>3, <2>4 DEF HasTypes
<1>11. IsKept(d)
  BY <1>1, <1>10, KeptHasTypes
<1> QED BY <1>1, <1>4, <1>5, <1>6, <1>7, <1>8, <1>9, <1>11 DEF NormalDocument, d

-----------------------------------------------------------------------------
(* Records that are read.                                                  *)

LEMMA NormalizedParts ==
  ASSUME NEW record
  PROVE  NormalizedResult(record) = "Ok" <=>
           /\ LimitResult(record.default_audience_scope, MaxAudienceEntries) = "Ok"
           /\ ~(Cardinality(DOMAIN record.resource_scope) > MaxResourceTypes)
           /\ HeadFits(record)
           /\ record.supersession_policy # "ExplicitRevocationRequired"
           /\ LoadedScopeResult(record.target_scope) = "Ok"
           /\ LoadedAudienceResult(record.default_audience_scope) = "Ok"
           /\ \A n \in DOMAIN record.resource_scope :
                TokenResult(n) = "Ok" /\ LoadedTypeResult(record.resource_scope[n]) = "Ok"
           /\ WindowResult(record.global_time_window) = "Ok"
           /\ PrincipalResult(record.issuer_principal) = "Ok"
<1> DEFINE E1 == LimitResult(record.default_audience_scope, MaxAudienceEntries)
           E2 == IF Cardinality(DOMAIN record.resource_scope) > MaxResourceTypes
                 THEN "CollectionLimitExceeded" ELSE "Ok"
           E3 == LineageResult(record)
           E4 == IF record.supersession_policy = "ExplicitRevocationRequired"
                 THEN "UnsupportedV0WireSupersessionPolicy" ELSE "Ok"
           E5 == AuthorityResult(record.issuer_authority)
           E6 == AuthorityResult(record.origin_authority)
           E7 == AuthorityResult(record.active_owning_authority)
           E8 == TokenResult(record.key_id)
           E9 == LoadedScopeResult(record.target_scope)
           E10 == LoadedAudienceResult(record.default_audience_scope)
           E11 == IF \E n \in DOMAIN record.resource_scope :
                       TokenResult(n) # "Ok" \/ LoadedTypeResult(record.resource_scope[n]) # "Ok"
                  THEN "InvalidResourceType" ELSE "Ok"
           E12 == WindowResult(record.global_time_window)
           E13 == PrincipalResult(record.issuer_principal)
<1>1. NormalizedResult(record)
        = FirstError(<<E1, E2, E3, E4, E5, E6, E7, E8, E9, E10, E11, E12, E13>>)
  BY DEF NormalizedResult
<1>2. /\ E2 = "Ok" <=> ~(Cardinality(DOMAIN record.resource_scope) > MaxResourceTypes)
      /\ E4 = "Ok" <=> record.supersession_policy # "ExplicitRevocationRequired"
      /\ E11 = "Ok" <=> \A n \in DOMAIN record.resource_scope :
             TokenResult(n) = "Ok" /\ LoadedTypeResult(record.resource_scope[n]) = "Ok"
  OBVIOUS
<1>3. HeadFits(record) <=> E3 = "Ok" /\ E5 = "Ok" /\ E6 = "Ok" /\ E7 = "Ok" /\ E8 = "Ok"
  BY DEF HeadFits
<1> HIDE DEF E1, E2, E3, E4, E5, E6, E7, E8, E9, E10, E11, E12, E13
<1>4. NormalizedResult(record) = "Ok" <=>
        /\ E1 = "Ok" /\ E2 = "Ok" /\ E3 = "Ok" /\ E4 = "Ok" /\ E5 = "Ok" /\ E6 = "Ok" /\ E7 = "Ok"
        /\ E8 = "Ok" /\ E9 = "Ok" /\ E10 = "Ok" /\ E11 = "Ok" /\ E12 = "Ok" /\ E13 = "Ok"
  BY <1>1, FirstOf13
<1>5. NormalizedResult(record) = "Ok" <=>
        /\ E1 = "Ok" /\ E2 = "Ok" /\ HeadFits(record) /\ E4 = "Ok" /\ E9 = "Ok" /\ E10 = "Ok"
        /\ E11 = "Ok" /\ E12 = "Ok" /\ E13 = "Ok"
  BY <1>3, <1>4
<1>6. /\ E1 = LimitResult(record.default_audience_scope, MaxAudienceEntries)
      /\ E9 = LoadedScopeResult(record.target_scope)
      /\ E10 = LoadedAudienceResult(record.default_audience_scope)
      /\ E12 = WindowResult(record.global_time_window)
      /\ E13 = PrincipalResult(record.issuer_principal)
  BY DEF E1, E9, E10, E12, E13
<1> QED BY <1>2, <1>5, <1>6

LEMMA NormalizedIs ==
  ASSUME NEW record, DOMAIN record = KeptFieldNames
  PROVE  LET d == Normalized(record)
         IN  /\ DOMAIN d = KeptFieldNames /\ d = [f \in DOMAIN d |-> d[f]]
             /\ ReadsHead(d, record)
             /\ d.target_scope = LoadedScope(record.target_scope)
             /\ d.default_audience_scope = LoadedAudience(record.default_audience_scope)
             /\ d.resource_scope = LoadedTypes(record.resource_scope)
             /\ d.issuer_principal = Optional(record.issuer_principal, Principal)
             /\ \A f \in {"capabilities", "global_time_window", "revocation", "issued_at",
                          "interoperability_profile"} : d[f] = record[f]
<1> DEFINE d == Normalized(record)
           types == LoadedTypes(record.resource_scope)
           principal == Optional(record.issuer_principal, Principal)
           supersedes == IF record.supersedes = None THEN None ELSE TrustGrantIdOf[record.supersedes]
<1>1. d = [record EXCEPT
             !.trustgrant_id    = TrustGrantIdOf[@], !.grant_series_id = GrantSeriesIdOf[@],
             !.supersedes       = supersedes,
             !.issuer_authority = AuthorityOf(@), !.origin_authority = AuthorityOf(@),
             !.active_owning_authority = AuthorityOf(@), !.key_id = Trim[@],
             !.target_scope     = LoadedScope(@), !.default_audience_scope = LoadedAudience(@),
             !.resource_scope   = types, !.issuer_principal = principal]
  BY DEF Normalized, LoadedTypes, Optional
<1> HIDE DEF types, principal, supersedes, d
<1>2. DOMAIN d = KeptFieldNames /\ d = [f \in DOMAIN d |-> d[f]]
  BY <1>1
<1>3. /\ d.trustgrant_id = TrustGrantIdOf[record.trustgrant_id]
      /\ d.grant_series_id = GrantSeriesIdOf[record.grant_series_id]
      /\ d.revision = record.revision /\ d.supersession_policy = record.supersession_policy
      /\ d.supersedes = supersedes
      /\ d.issuer_authority = AuthorityOf(record.issuer_authority)
      /\ d.origin_authority = AuthorityOf(record.origin_authority)
      /\ d.active_owning_authority = AuthorityOf(record.active_owning_authority)
      /\ d.key_id = Trim[record.key_id]
  BY <1>1 DEF KeptFieldNames
<1>4. /\ d.target_scope = LoadedScope(record.target_scope)
      /\ d.default_audience_scope = LoadedAudience(record.default_audience_scope)
      /\ d.resource_scope = types /\ d.issuer_principal = principal
  BY <1>1 DEF KeptFieldNames
<1>5. \A f \in {"capabilities", "global_time_window", "revocation", "issued_at",
                "interoperability_profile"} : d[f] = record[f]
  BY <1>1 DEF KeptFieldNames
<1> QED BY <1>2, <1>3, <1>4, <1>5 DEF d, ReadsHead, types, principal, supersedes

LEMMA RawForIs ==
  ASSUME NEW d, DOMAIN d = KeptFieldNames
  PROVE  LET r == RawForConsistencyCheck(d)
         IN  /\ r.version = 0 /\ r.signature = "rehydrated-signature"
             /\ r.target_scope = RawScope(d.target_scope)
             /\ r.default_audience_scope = RawAudience(d.default_audience_scope)
             /\ r.resource_scope = RawTypeList(d.resource_scope)
             /\ r.global_constraints =
                  IF d.global_time_window = None THEN None ELSE [time |-> d.global_time_window]
             /\ r.revocation = IF d.revocation = None THEN None
                               ELSE [d.revocation EXCEPT !.effect = "BlockAll"]
             /\ \A f \in {"trustgrant_id", "grant_series_id", "revision", "supersedes",
                          "supersession_policy", "issuer_authority", "origin_authority",
                          "active_owning_authority", "key_id", "issuer_principal"} : r[f] = d[f]
<1> DEFINE r == RawForConsistencyCheck(d)
           types == RawTypeList(d.resource_scope)
<1>1. r = [field \in DOMAIN d \cup {"version", "signature", "global_constraints"} |->
     CASE field = "version"      -> 0
       [] field = "signature"    -> "rehydrated-signature"
       [] field = "target_scope" -> RawScope(d.target_scope)
       [] field = "default_audience_scope" -> RawAudience(d.default_audience_scope)
       [] field = "resource_scope" -> types
       [] field = "global_constraints" ->
            IF d.global_time_window = None THEN None ELSE [time |-> d.global_time_window]
       [] field = "revocation" ->
            IF d.revocation = None THEN None ELSE [d.revocation EXCEPT !.effect = "BlockAll"]
       [] OTHER -> d[field]]
  BY DEF RawForConsistencyCheck, RawTypeList, Optional
<1> HIDE DEF r, types
<1>2. r.version = 0 /\ r.signature = "rehydrated-signature"
  BY <1>1
<1>3. r.target_scope = RawScope(d.target_scope)
  BY <1>1 DEF KeptFieldNames
<1>4. r.default_audience_scope = RawAudience(d.default_audience_scope)
  BY <1>1 DEF KeptFieldNames
<1>5. r.resource_scope = types
  BY <1>1 DEF KeptFieldNames
<1>6. r.global_constraints =
        IF d.global_time_window = None THEN None ELSE [time |-> d.global_time_window]
  BY <1>1 DEF KeptFieldNames
<1>7. r.revocation = IF d.revocation = None THEN None
                     ELSE [d.revocation EXCEPT !.effect = "BlockAll"]
  BY <1>1 DEF KeptFieldNames
<1>8. \A f \in {"trustgrant_id", "grant_series_id", "revision", "supersedes",
                "supersession_policy", "issuer_authority", "origin_authority",
                "active_owning_authority", "key_id", "issuer_principal"} : r[f] = d[f]
  BY <1>1 DEF KeptFieldNames
<1> QED BY <1>2, <1>3, <1>4, <1>5, <1>6, <1>7, <1>8 DEF r, types

-----------------------------------------------------------------------------
\* What is read from a record and checked again is in normal form.
LEMMA NormalizedIsNormal ==
  ASSUME NEW record, IsKept(record), NormalizedResult(record) = "Ok",
         DocumentResult(RawForConsistencyCheck(Normalized(record))) = "Ok"
  PROVE  NormalDocument(Normalized(record))
<1> DEFINE d == Normalized(record)
           r == RawForConsistencyCheck(d)
<1>1. DOMAIN record = KeptFieldNames /\ HasTypes(record)
  BY KeptHasTypes
<1>2. /\ DOMAIN d = KeptFieldNames /\ d = [f \in DOMAIN d |-> d[f]]
      /\ ReadsHead(d, record)
      /\ d.target_scope = LoadedScope(record.target_scope)
      /\ d.default_audience_scope = LoadedAudience(record.default_audience_scope)
      /\ d.resource_scope = LoadedTypes(record.resource_scope)
      /\ d.issuer_principal = Optional(record.issuer_principal, Principal)
      /\ \A f \in {"capabilities", "global_time_window", "revocation", "issued_at",
                   "interoperability_profile"} : d[f] = record[f]
  BY <1>1, NormalizedIs
<1>3. DocumentResult(r) = "Ok"
  OBVIOUS
<1> HIDE DEF d
<1>4. /\ r.target_scope = RawScope(d.target_scope)
      /\ r.default_audience_scope = RawAudience(d.default_audience_scope)
      /\ r.resource_scope = RawTypeList(d.resource_scope)
  BY <1>2, RawForIs
<1> HIDE DEF r
<1>5. /\ ScopeResult(RawScope(d.target_scope)) = "Ok"
      /\ AudienceResult(RawAudience(d.default_audience_scope)) = "Ok"
      /\ ResourceScopeResult(RawTypeList(d.resource_scope)) = "Ok"
  BY <1>3, <1>4, DocumentParts
<1>6. /\ LimitResult(record.default_audience_scope, MaxAudienceEntries) = "Ok"
      /\ ~(Cardinality(DOMAIN record.resource_scope) > MaxResourceTypes)
      /\ HeadFits(record)
      /\ record.supersession_policy # "ExplicitRevocationRequired"
      /\ LoadedScopeResult(record.target_scope) = "Ok"
      /\ LoadedAudienceResult(record.default_audience_scope) = "Ok"
      /\ \A n \in DOMAIN record.resource_scope :
           TokenResult(n) = "Ok" /\ LoadedTypeResult(record.resource_scope[n]) = "Ok"
      /\ WindowResult(record.global_time_window) = "Ok"
      /\ PrincipalResult(record.issuer_principal) = "Ok"
  BY NormalizedParts
<1>7. /\ NormalHead(d) /\ d.trustgrant_id \in Texts /\ d.grant_series_id \in Texts
      /\ d.supersedes \in Option(Texts) /\ d.issuer_authority \in Texts
      /\ d.origin_authority \in Texts /\ d.active_owning_authority \in Texts
      /\ d.key_id \in Texts
  BY <1>1, <1>2, <1>6, HeadIsNormal DEF HasTypes
<1>8. NormalScope(d.target_scope)
  BY <1>1, <1>2, <1>5, <1>6, LoadedScopeIsNormal DEF HasTypes
<1>9. NormalAudience(d.default_audience_scope)
  BY <1>1, <1>2, <1>5, <1>6, LoadedAudienceIsNormal DEF HasTypes
<1>10. NormalTypes(d.resource_scope)
  <2> DEFINE m == record.resource_scope
  <2>1. IsKeptScope(m)
    BY <1>1 DEF HasTypes
  <2>2. Cardinality(DOMAIN m) <= MaxResourceTypes
    <3>1. Cardinality(DOMAIN m) \in Nat
      BY <2>1, FS_CardinalityType DEF IsKeptScope
    <3> QED BY <1>6, <3>1, Limits
  <2>3. \A n \in DOMAIN m : TokenResult(n) = "Ok" /\ LoadedTypeResult(m[n]) = "Ok"
    BY <1>6
  <2>4. d.resource_scope = LoadedTypes(m)
    BY <1>2
  <2> HIDE DEF m
  <2> QED BY <1>5, <2>1, <2>2, <2>3, <2>4, LoadedTypesAreNormal
<1>11. NormalPrincipal(d.issuer_principal)
  BY <1>1, <1>2, <1>6, PrincipalIsNormal DEF HasTypes
<1>12. /\ d.capabilities = record.capabilities /\ d.global_time_window = record.global_time_window
       /\ d.revocation = record.revocation /\ d.issued_at = record.issued_at
       /\ d.interoperability_profile = record.interoperability_profile
  BY <1>2
<1>13. HasTypes(d)
  <2>1. d.target_scope \in KeptScope /\ d.default_audience_scope \in Seq(KeptAudienceEntry)
    BY <1>8, <1>9 DEF NormalScope, NormalAudience
  <2>2. IsKeptScope(d.resource_scope) /\ d.issuer_principal \in Option(AnyPrincipal)
    BY <1>10, <1>11 DEF NormalTypes, NormalPrincipal
  <2>3. d.revision = record.revision /\ d.supersession_policy = record.supersession_policy
    BY <1>2 DEF ReadsHead
  <2> QED BY <1>1, <1>7, <1>12, <2>1, <2>2, <2>3 DEF HasTypes
<1>14. IsKept(d)
  BY <1>2, <1>13, KeptHasTypes
<1> QED BY <1>2, <1>6, <1>7, <1>8, <1>9, <1>10, <1>11, <1>12, <1>14 DEF NormalDocument, d

\* A document in normal form is read from its record as it is.
LEMMA NormalDocumentLoads ==
  ASSUME NEW d, NormalDocument(d)
  PROVE  NormalizedResult(d) = "Ok" /\ Normalized(d) = d
<1>1. /\ DOMAIN d = KeptFieldNames /\ HasTypes(d) /\ d = [f \in DOMAIN d |-> d[f]]
      /\ NormalHead(d) /\ NormalScope(d.target_scope) /\ NormalAudience(d.default_audience_scope)
      /\ NormalTypes(d.resource_scope) /\ WindowResult(d.global_time_window) = "Ok"
      /\ NormalPrincipal(d.issuer_principal)
  BY KeptHasTypes DEF NormalDocument
<1>2. HeadFits(d) /\ ReadsHead(d, d)
  BY <1>1, NormalHeadStays DEF HasTypes
<1>3. LoadedScopeResult(d.target_scope) = "Ok" /\ LoadedScope(d.target_scope) = d.target_scope
  BY <1>1, NormalScopeLoads
<1>4. /\ LimitResult(d.default_audience_scope, MaxAudienceEntries) = "Ok"
      /\ LoadedAudienceResult(d.default_audience_scope) = "Ok"
      /\ LoadedAudience(d.default_audience_scope) = d.default_audience_scope
  BY <1>1, NormalAudienceLoads
<1>5. /\ \A n \in DOMAIN d.resource_scope :
           TokenResult(n) = "Ok" /\ LoadedTypeResult(d.resource_scope[n]) = "Ok"
      /\ LoadedTypes(d.resource_scope) = d.resource_scope
  BY <1>1, NormalTypesLoad
<1>6. ~(Cardinality(DOMAIN d.resource_scope) > MaxResourceTypes)
  <2>1. Cardinality(DOMAIN d.resource_scope) \in Nat
    BY <1>1, FS_CardinalityType DEF HasTypes, IsKeptScope
  <2> QED BY <1>1, <2>1, Limits DEF NormalTypes
<1>7. /\ PrincipalResult(d.issuer_principal) = "Ok"
      /\ Optional(d.issuer_principal, Principal) = d.issuer_principal
  BY <1>1 DEF NormalPrincipal
<1>8. d.supersession_policy # "ExplicitRevocationRequired"
  BY <1>1 DEF NormalHead
<1>9. NormalizedResult(d) = "Ok"
  BY <1>1, <1>2, <1>3, <1>4, <1>5, <1>6, <1>7, <1>8, NormalizedParts
<1> DEFINE n == Normalized(d)
<1>10. /\ DOMAIN n = KeptFieldNames /\ n = [f \in DOMAIN n |-> n[f]]
       /\ ReadsHead(n, d)
       /\ n.target_scope = d.target_scope
       /\ n.default_audience_scope = d.default_audience_scope
       /\ n.resource_scope = d.resource_scope /\ n.issuer_principal = d.issuer_principal
       /\ \A f \in {"capabilities", "global_time_window", "revocation", "issued_at",
                    "interoperability_profile"} : n[f] = d[f]
  BY <1>1, <1>3, <1>4, <1>5, <1>7, NormalizedIs
<1> HIDE DEF n
<1>11. /\ n.trustgrant_id = d.trustgrant_id /\ n.grant_series_id = d.grant_series_id
       /\ n.revision = d.revision /\ n.supersession_policy = d.supersession_policy
       /\ n.supersedes = d.supersedes /\ n.issuer_authority = d.issuer_authority
       /\ n.origin_authority = d.origin_authority
       /\ n.active_owning_authority = d.active_owning_authority /\ n.key_id = d.key_id
  BY <1>2, <1>10 DEF ReadsHead
<1>12. \A f \in KeptFieldNames : n[f] = d[f]
  BY <1>10, <1>11 DEF KeptFieldNames
<1>13. n = d
  BY <1>1, <1>10, <1>12, SameRecord
<1> QED BY <1>9, <1>13 DEF n

\* It is accepted again, and the metadata is the same.
LEMMA NormalDocumentIsAccepted ==
  ASSUME NEW d, NormalDocument(d)
  PROVE  /\ DocumentResult(RawForConsistencyCheck(d)) = "Ok"
         /\ Metadata(Document(RawForConsistencyCheck(d))) = Metadata(d)
<1> DEFINE r == RawForConsistencyCheck(d)
           e == Document(r)
<1>1. /\ DOMAIN d = KeptFieldNames /\ HasTypes(d)
      /\ NormalHead(d) /\ NormalScope(d.target_scope) /\ NormalAudience(d.default_audience_scope)
      /\ NormalTypes(d.resource_scope) /\ WindowResult(d.global_time_window) = "Ok"
      /\ NormalPrincipal(d.issuer_principal)
  BY KeptHasTypes DEF NormalDocument
<1>2. /\ r.version = 0 /\ r.signature = "rehydrated-signature"
      /\ r.target_scope = RawScope(d.target_scope)
      /\ r.default_audience_scope = RawAudience(d.default_audience_scope)
      /\ r.resource_scope = RawTypeList(d.resource_scope)
      /\ r.global_constraints =
           IF d.global_time_window = None THEN None ELSE [time |-> d.global_time_window]
      /\ r.revocation = IF d.revocation = None THEN None
                        ELSE [d.revocation EXCEPT !.effect = "BlockAll"]
  BY <1>1, RawForIs
<1>3. /\ r.trustgrant_id = d.trustgrant_id /\ r.grant_series_id = d.grant_series_id
      /\ r.revision = d.revision /\ r.supersedes = d.supersedes
      /\ r.issuer_authority = d.issuer_authority /\ r.origin_authority = d.origin_authority
      /\ r.active_owning_authority = d.active_owning_authority /\ r.key_id = d.key_id
      /\ r.issuer_principal = d.issuer_principal
  BY <1>1, RawForIs
<1> HIDE DEF r
<1>4. HeadFits(d) /\ ReadsHead(d, d)
  BY <1>1, NormalHeadStays DEF HasTypes
<1>5. HeadResult(r) = "Ok"
  <2>1. LineageResult(r) = LineageResult(d)
    BY <1>3 DEF LineageResult
  <2>2. r.signature # None
    BY <1>2, PlaceholderAssumption
  <2> QED BY <1>2, <1>3, <1>4, <2>1, <2>2, HeadParts DEF HeadFits
<1>6. ScopeResult(r.target_scope) = "Ok"
  BY <1>1, <1>2, NormalScopeIsAccepted
<1>7. AudienceResult(r.default_audience_scope) = "Ok"
  BY <1>1, <1>2, NormalAudienceIsAccepted
<1>8. ResourceScopeResult(r.resource_scope) = "Ok"
  BY <1>1, <1>2, NormalTypesAreAccepted
<1>9. WindowResult(TimeWindow(r.global_constraints)) = "Ok"
  BY <1>1, <1>2 DEF TimeWindow, WindowResult
<1>10. PrincipalResult(r.issuer_principal) = "Ok"
  BY <1>1, <1>3 DEF NormalPrincipal
<1>11. DocumentResult(r) = "Ok"
  BY <1>5, <1>6, <1>7, <1>8, <1>9, <1>10, DocumentParts
<1>12. /\ e.issuer_authority = AuthorityOf(r.issuer_authority) /\ e.key_id = Trim[r.key_id]
       /\ e.issuer_principal = Optional(r.issuer_principal, Principal)
       /\ e.origin_authority = AuthorityOf(r.origin_authority)
       /\ e.active_owning_authority = AuthorityOf(r.active_owning_authority)
       /\ e.revocation = r.revocation
  BY DEF Document
<1> HIDE DEF e
<1>13. /\ e.issuer_authority = d.issuer_authority /\ e.key_id = d.key_id
       /\ e.issuer_principal = d.issuer_principal /\ e.origin_authority = d.origin_authority
       /\ e.active_owning_authority = d.active_owning_authority
  BY <1>1, <1>3, <1>4, <1>12 DEF ReadsHead, NormalPrincipal
<1>14. (e.revocation # None /\ e.revocation.revocable)
         <=> (d.revocation # None /\ d.revocation.revocable)
  <2>1. CASE d.revocation = None
    BY <1>2, <1>12, <2>1
  <2>2. CASE d.revocation # None
    <3> DEFINE v == d.revocation
               w == [v EXCEPT !.effect = "BlockAll"]
    <3>1. v \in AnyRevocation
      BY <1>1, <2>2 DEF HasTypes, Option
    <3>2. w \in AnyRevocation /\ w.revocable = v.revocable
      BY <3>1 DEF AnyRevocation
    <3>3. e.revocation = w
      BY <1>2, <1>12, <2>2
    <3> HIDE DEF w, v
    <3>4. w # None
      BY <3>2, NullAssumption
    <3> QED BY <2>2, <3>2, <3>3, <3>4 DEF v
  <2> QED BY <2>1, <2>2
<1>15. Metadata(e) = Metadata(d)
  BY <1>13, <1>14 DEF Metadata
<1> QED BY <1>11, <1>15 DEF e, r

-----------------------------------------------------------------------------
LEMMA NormalListIsShaped ==
  ASSUME NEW l, NormalList(l)
  PROVE  WellShapedSelectors(l)
<1>1. \A i \in DOMAIN l : NormalSelector(l[i])
  BY DEF NormalList
<1>2. \A i \in DOMAIN l :
        l[i].all <=> l[i].values = <<>> /\ l[i].expressions = <<>>
  BY <1>1 DEF NormalSelector
<1>3. \A i, j \in DOMAIN l : SameSelector(l[i], l[j]) => i = j
  BY DEF NormalList, DistinctSelectors
<1> QED BY <1>2, <1>3 DEF WellShapedSelectors, Distinct

LEMMA NormalListsAreShaped ==
  ASSUME NEW s, NormalLists(s)
  PROVE  WellShapedScope(s)
  BY NormalListIsShaped DEF NormalLists, WellShapedScope

LEMMA NormalAudienceIsShaped ==
  ASSUME NEW l, NormalAudience(l)
  PROVE  WellShapedAudience(l)
<1>1. \A i, j \in DOMAIN l : l[i].authority_id = l[j].authority_id => i = j
  BY DEF NormalAudience
<1>2. \A i \in DOMAIN l :
        /\ WellShapedScope(l[i].scope)
        /\ l[i].principal_scope # None => WellShapedScope(l[i].principal_scope)
  BY NormalListsAreShaped DEF NormalAudience, NormalEntry, NormalScope
<1> QED BY <1>1, <1>2 DEF WellShapedAudience, Distinct

LEMMA NormalOperationsAreShaped ==
  ASSUME NEW o, NormalOperations(o)
  PROVE  WellShapedOperations(o)
<1>1. o.allow # <<>> /\ NormalNames(o.allow) /\ NormalNames(o.deny)
  BY DEF NormalOperations
<1>2. /\ \A i, j \in DOMAIN o.allow : o.allow[i] = o.allow[j] => i = j
      /\ \A i, j \in DOMAIN o.deny : o.deny[i] = o.deny[j] => i = j
  BY <1>1 DEF NormalNames
<1> QED BY <1>1, <1>2 DEF WellShapedOperations, Distinct

LEMMA NormalDocumentIsShaped ==
  ASSUME NEW d, NormalDocument(d)
  PROVE  WellShaped(d)
<1>1. /\ d.revision = 1 => d.supersedes = None
      /\ d.supersedes # d.trustgrant_id
      /\ WindowResult(d.global_time_window) = "Ok"
  BY DEF NormalDocument, NormalHead
<1>2. WellShapedScope(d.target_scope) /\ WellShapedAudience(d.default_audience_scope)
  BY NormalListsAreShaped, NormalAudienceIsShaped DEF NormalDocument, NormalScope
<1>3. ASSUME NEW n \in DOMAIN d.resource_scope
      PROVE  Trim[n] = n /\ WellShapedType(d.resource_scope[n])
  <2>1. NormalToken(n) /\ NormalType(d.resource_scope[n])
    BY DEF NormalDocument, NormalTypes
  <2> QED BY <2>1, NormalListsAreShaped, NormalAudienceIsShaped, NormalOperationsAreShaped
             DEF NormalToken, NormalType, WellShapedType
<1> QED BY <1>1, <1>2, <1>3 DEF WellShaped

-----------------------------------------------------------------------------
(* Memory and storage.                                                     *)

\* What is in memory has normal form and the metadata of what was verified,
\* and the metadata in storage is that too, whatever the record says.
StorageInv ==
  /\ held # None =>
       verified # None /\ NormalDocument(held) /\ Metadata(held) = Metadata(verified)
  /\ stored # None =>
       /\ verified # None
       /\ DOMAIN stored = {"record_version", "document", "metadata"}
       /\ IsKept(stored.document) /\ stored.metadata = Metadata(verified)

LEMMA LoadParts ==
  ASSUME NEW record
  PROVE  LoadResult(record) = "Ok" <=>
           /\ record.record_version = RecordVersion
           /\ NormalizedResult(record.document) = "Ok"
           /\ ConsistencyResult(Normalized(record.document), record.metadata) = "Ok"
<1> DEFINE E1 == IF record.record_version = RecordVersion THEN "Ok"
                 ELSE "UnsupportedPersistedVerifiedGrantRecordVersion"
           E2 == NormalizedResult(record.document)
           C  == ConsistencyResult(Normalized(record.document), record.metadata)
           E3 == IF NormalizedResult(record.document) = "Ok" THEN C ELSE "Ok"
<1>1. LoadResult(record) = FirstError(<<E1, E2, E3>>)
  BY DEF LoadResult
<1>2. /\ E1 = "Ok" <=> record.record_version = RecordVersion
      /\ E2 = "Ok" => E3 = C
  OBVIOUS
<1> HIDE DEF E1, E2, E3
<1>3. LoadResult(record) = "Ok" <=> E1 = "Ok" /\ E2 = "Ok" /\ E3 = "Ok"
  BY <1>1, FirstOf3
<1>4. E2 = NormalizedResult(record.document)
  BY DEF E2
<1> QED BY <1>2, <1>3, <1>4

LEMMA ConsistencyParts ==
  ASSUME NEW d, NEW metadata
  PROVE  ConsistencyResult(d, metadata) = "Ok" <=>
           /\ DocumentResult(RawForConsistencyCheck(d)) = "Ok"
           /\ Metadata(Document(RawForConsistencyCheck(d))) = metadata
<1> DEFINE E1 == DocumentResult(RawForConsistencyCheck(d))
           m  == Metadata(Document(RawForConsistencyCheck(d)))
           E2 == IF m = metadata THEN "Ok" ELSE "MetadataMismatch"
<1>1. ConsistencyResult(d, metadata) = FirstError(<<E1, E2>>)
  BY DEF ConsistencyResult
<1>2. E2 = "Ok" <=> m = metadata
  OBVIOUS
<1> HIDE DEF E1, E2, m
<1>3. ConsistencyResult(d, metadata) = "Ok" <=> E1 = "Ok" /\ E2 = "Ok"
  BY <1>1, FirstOf2
<1> QED BY <1>2, <1>3 DEF E1, m

\* What is loaded is as good as what was verified.
LEMMA LoadedIsGood ==
  ASSUME NEW record, IsKept(record.document), LoadResult(record) = "Ok"
  PROVE  /\ NormalDocument(Normalized(record.document))
         /\ Metadata(Normalized(record.document)) = record.metadata
<1> DEFINE d == Normalized(record.document)
<1>1. NormalizedResult(record.document) = "Ok" /\ ConsistencyResult(d, record.metadata) = "Ok"
  BY LoadParts
<1>2. /\ DocumentResult(RawForConsistencyCheck(d)) = "Ok"
      /\ Metadata(Document(RawForConsistencyCheck(d))) = record.metadata
  BY <1>1, ConsistencyParts
<1>3. NormalDocument(d)
  BY <1>1, <1>2, NormalizedIsNormal
<1> HIDE DEF d
<1>4. Metadata(d) = record.metadata
  BY <1>2, <1>3, NormalDocumentIsAccepted
<1> QED BY <1>3, <1>4 DEF d

LEMMA NormalDocumentIsStored ==
  ASSUME NEW d, NormalDocument(d)
  PROVE  LoadResult(RecordOf(d)) = "Ok" /\ Normalized(RecordOf(d).document) = d
<1> DEFINE r == RecordOf(d)
<1>1. /\ r.record_version = RecordVersion /\ r.document = d /\ r.metadata = Metadata(d)
  BY DEF RecordOf
<1> HIDE DEF r
<1>2. NormalizedResult(d) = "Ok" /\ Normalized(d) = d
  BY NormalDocumentLoads
<1>3. ConsistencyResult(d, Metadata(d)) = "Ok"
  BY NormalDocumentIsAccepted, ConsistencyParts
<1> QED BY <1>1, <1>2, <1>3, LoadParts DEF r

LEMMA AlterationIsKept ==
  ASSUME NEW document, IsKept(document), NEW change \in InStorage
  PROVE  IsKept([document EXCEPT ![change[1]] = change[2]])
<1> DEFINE field == change[1]
           value == change[2]
           new   == [document EXCEPT ![field] = value]
<1>1. \/ field = "resource_scope" /\ IsKeptScope(value)
      \/ field \in DOMAIN KeptTypes /\ value \in KeptTypes[field]
  BY GrantAssumption
<1>2. /\ DOMAIN document = DOMAIN KeptTypes \cup {"resource_scope"}
      /\ \A f \in DOMAIN KeptTypes : document[f] \in KeptTypes[f]
      /\ IsKeptScope(document.resource_scope)
  BY DEF IsKept
<1>3. "resource_scope" \notin DOMAIN KeptTypes
  BY KeptTypesFacts DEF KeptFieldNames
<1> HIDE DEF field, value
<1>4. DOMAIN new = DOMAIN document
  OBVIOUS
<1>5. \A f \in DOMAIN KeptTypes : new[f] \in KeptTypes[f]
  BY <1>1, <1>2, <1>3
<1>6. IsKeptScope(new.resource_scope)
  BY <1>1, <1>2, <1>3
<1> HIDE DEF new
<1>7. IsKept(new)
  BY <1>2, <1>4, <1>5, <1>6 DEF IsKept
<1> QED BY <1>7 DEF new, field, value

-----------------------------------------------------------------------------
LEMMA StorageInvHolds == GrantSpec => []StorageInv
<1>1. GrantInit => StorageInv
  BY DEF GrantInit, StorageInv
<1>2. SigningInv /\ StorageInv /\ [GrantNext]_grantVars => StorageInv'
  <2> SUFFICES ASSUME SigningInv, StorageInv, [GrantNext]_grantVars
               PROVE  StorageInv'
    OBVIOUS
  <2>1. CASE Edit
    <3>1. UNCHANGED <<verified, held, stored>>
      BY <2>1 DEF Edit, EditLineage, EditAudience, EditTimeWindow, EditRevocation,
                  EditIssuerPrincipal, EditProfile, Edited
    <3> QED BY <3>1 DEF StorageInv
  <2>2. CASE Sign
    BY <2>2 DEF Sign, StorageInv
  <2>3. CASE Publish
    BY <2>3 DEF Publish, StorageInv
  <2>4. CASE \E alteration \in OnTheWay : AlterOnTheWay(alteration[1], alteration[2])
    BY <2>4 DEF AlterOnTheWay, StorageInv
  <2>5. CASE Verify
    <3> DEFINE d == Document(wire)
    <3>1. /\ wire # None /\ DocumentResult(wire) = "Ok"
          /\ verified' = d /\ held' = d /\ UNCHANGED stored
      BY <2>5, VerifiesFacts DEF Verify
    <3>2. NormalDocument(d)
      BY <3>1, DocumentIsNormal DEF SigningInv
    <3>3. verified # None => verified = d
      BY DEF SigningInv
    <3> HIDE DEF d
    <3> QED BY <3>1, <3>2, <3>3 DEF StorageInv
  <2>6. CASE Store
    <3>1. /\ held # None /\ stored' = RecordOf(held) /\ UNCHANGED <<verified, held>>
      BY <2>6 DEF Store
    <3>2. /\ verified # None /\ NormalDocument(held) /\ Metadata(held) = Metadata(verified)
      BY <3>1 DEF StorageInv
    <3>3. /\ DOMAIN stored' = {"record_version", "document", "metadata"}
          /\ stored'.document = held /\ stored'.metadata = Metadata(held)
      BY <3>1 DEF RecordOf
    <3>4. IsKept(stored'.document)
      BY <3>2, <3>3 DEF NormalDocument
    <3> QED BY <3>1, <3>2, <3>3, <3>4 DEF StorageInv
  <2>7. CASE \E alteration \in InStorage : AlterInStorage(alteration[1], alteration[2])
    <3>1. PICK alteration \in InStorage : AlterInStorage(alteration[1], alteration[2])
      BY <2>7
    <3> DEFINE d == [stored.document EXCEPT ![alteration[1]] = alteration[2]]
    <3>2. /\ stored # None /\ stored' = [stored EXCEPT !.document = d]
          /\ UNCHANGED <<verified, held>>
      BY <3>1 DEF AlterInStorage
    <3>3. /\ verified # None /\ DOMAIN stored = {"record_version", "document", "metadata"}
          /\ IsKept(stored.document) /\ stored.metadata = Metadata(verified)
      BY <3>2 DEF StorageInv
    <3>4. IsKept(d)
      BY <3>3, AlterationIsKept
    <3> HIDE DEF d
    <3>5. /\ DOMAIN stored' = {"record_version", "document", "metadata"}
          /\ stored'.document = d /\ stored'.metadata = stored.metadata
      BY <3>2, <3>3
    <3> QED BY <3>2, <3>3, <3>4, <3>5 DEF StorageInv
  <2>8. CASE Load
    <3>1. /\ stored # None /\ LoadResult(stored) = "Ok"
          /\ held' = Normalized(stored.document) /\ UNCHANGED <<verified, stored>>
      BY <2>8 DEF Load
    <3>2. verified # None /\ IsKept(stored.document) /\ stored.metadata = Metadata(verified)
      BY <3>1 DEF StorageInv
    <3>3. NormalDocument(held') /\ Metadata(held') = Metadata(verified)
      BY <3>1, <3>2, LoadedIsGood
    <3> QED BY <3>1, <3>2, <3>3 DEF StorageInv
  <2>9. CASE UNCHANGED grantVars
    BY <2>9 DEF grantVars, StorageInv
  <2> QED BY <2>1, <2>2, <2>3, <2>4, <2>5, <2>6, <2>7, <2>8, <2>9 DEF GrantNext
<1> QED BY <1>1, <1>2, SigningInvHolds, PTL DEF GrantSpec

\* Whatever is published, altered on the way or in storage: a grant in
\* memory has the shapes that evaluator and verifier rely on without
\* looking (validated.rs, record.rs, verified_grant.rs).
THEOREM GrantsAreWellShaped == GrantSpec => []ShapesHold
<1>1. StorageInv => ShapesHold
  BY NormalDocumentIsShaped DEF StorageInv, ShapesHold
<1> QED BY <1>1, StorageInvHolds, PTL

\* What is in memory can be stored, and what is loaded from that record is
\* what was stored: normal forms are accepted again, within the same limits.
THEOREM GrantsSurviveStorage == GrantSpec => []WhatIsHeldLoads
<1>1. StorageInv => WhatIsHeldLoads
  BY NormalDocumentIsStored DEF StorageInv, WhatIsHeldLoads
<1> QED BY <1>1, StorageInvHolds, PTL

\* An altered record is refused or leaves the signer, the owner and the need
\* for revocation evidence as they were when the grant was verified.
THEOREM StorageCannotReplaceTheSigner == GrantSpec => []StorageKeepsTheSigner
<1>1. StorageInv => StorageKeepsTheSigner
  BY DEF StorageInv, StorageKeepsTheSigner
<1> QED BY <1>1, StorageInvHolds, PTL

-----------------------------------------------------------------------------
(* Expressions: recursion over the characters of a text, unfolded.         *)

LEMMA Induction ==
  ASSUME NEW a \in Nat, NEW b \in Nat, NEW S,
         a \in S, \A i \in a .. b : i < b /\ i \in S => i + 1 \in S
  PROVE  a .. b \subseteq S
  <1> DEFINE bad == {i \in a .. b : i \notin S}
  <1> SUFFICES ASSUME bad # {} PROVE FALSE
    OBVIOUS
  <1>1. bad \in SUBSET Nat
    OBVIOUS
  <1>2. PICK i \in bad : \A j \in bad : i <= j
    BY <1>1, LeastElement
  <1>3. i # a /\ i \in a .. b
    BY <1>2
  <1>4. i - 1 \in a .. b /\ i - 1 < b /\ ~(i <= i - 1)
    BY <1>3
  <1>5. i - 1 \in S
    BY <1>2, <1>4
  <1>6. (i - 1) + 1 \in S
    BY <1>4, <1>5
  <1>7. (i - 1) + 1 = i
    BY <1>3
  <1> QED
    BY <1>2, <1>6, <1>7

\* Results of the steps of s, one after the other.
LEMMA Iteration ==
  ASSUME NEW S, NEW b \in S, NEW C, NEW s \in Seq(C),
         NEW step, \A x \in S, c \in C : step[<<x, c>>] \in S
  PROVE  \E f \in [0 .. Len(s) -> S] :
           /\ f[0] = b
           /\ \A i \in 1 .. Len(s) : f[i] = step[<<f[i - 1], s[i]>>]
<1> DEFINE Reaches(f, n) ==
             /\ f \in [0 .. n -> S] /\ f[0] = b
             /\ \A i \in 1 .. n : f[i] = step[<<f[i - 1], s[i]>>]
           T == {n \in 0 .. Len(s) : \E f : Reaches(f, n)}
<1>1. Len(s) \in Nat /\ \A i \in 1 .. Len(s) : s[i] \in C
  BY SeqFacts
<1>2. 0 \in T
  <2>1. Reaches([i \in 0 .. 0 |-> b], 0)
    OBVIOUS
  <2>2. 0 \in 0 .. Len(s)
    BY <1>1
  <2> HIDE DEF Reaches
  <2> QED BY <2>1, <2>2
<1>3. ASSUME NEW n \in 0 .. Len(s), n < Len(s), n \in T
      PROVE  n + 1 \in T
  <2>1. PICK f : Reaches(f, n)
    BY <1>3
  <2> DEFINE last == step[<<f[n], s[n + 1]>>]
             g == [i \in 0 .. n + 1 |-> IF i = n + 1 THEN last ELSE f[i]]
  <2>2. last \in S
    <3>1. f[n] \in S /\ s[n + 1] \in C
      BY <1>1, <1>3, <2>1
    <3> QED BY <3>1
  <2>3. g \in [0 .. n + 1 -> S]
    <3> HIDE DEF last
    <3> QED BY <2>1, <2>2
  <2>4. g[0] = b /\ g[n + 1] = last /\ \A i \in 0 .. n : g[i] = f[i]
    <3> HIDE DEF last
    <3> QED BY <1>3, <2>1
  <2> HIDE DEF g
  <2>5. ASSUME NEW i \in 1 .. n + 1
        PROVE  g[i] = step[<<g[i - 1], s[i]>>]
    <3>1. CASE i = n + 1
      <4>1. i - 1 = n /\ n \in 0 .. n
        BY <1>3, <3>1
      <4> QED BY <2>4, <3>1, <4>1
    <3>2. CASE i # n + 1
      <4>1. i \in 1 .. n /\ i - 1 \in 0 .. n /\ i \in 0 .. n
        BY <1>3, <3>2
      <4> QED BY <2>1, <2>4, <4>1
    <3> QED BY <3>1, <3>2
  <2>6. Reaches(g, n + 1)
    BY <2>3, <2>4, <2>5
  <2>7. n + 1 \in 0 .. Len(s)
    BY <1>1, <1>3
  <2> HIDE DEF Reaches
  <2> QED BY <2>6, <2>7
<1> HIDE DEF T
<1>4. 0 .. Len(s) \subseteq T
  BY <1>1, <1>2, <1>3, Induction
<1>5. Len(s) \in T
  BY <1>1, <1>4
<1> QED BY <1>5 DEF T

-----------------------------------------------------------------------------
(* Reading an argument.                                                    *)

ReadStates ==
  {Invalid} \cup [valid : {TRUE}, argument : Seq(Characters), escaping : BOOLEAN]

LEMMA CharactersAre ==
  /\ {Backslash, Quote, "n", Newline, "(", ")"} \subseteq Characters
  /\ \A p \in Predicates \cup Plain : p \notin {"(", ")", Quote, Backslash, " ", Newline}
  /\ Predicates \subseteq Characters
  /\ Quote # Backslash /\ Quote # Newline /\ Backslash # Newline
  /\ \A c \in {Quote, Backslash, Newline} : c \notin {"(", ")", " ", "n"}
  /\ Whitespace = {" ", Newline} /\ Control = {Newline}
  /\ "(" \notin Whitespace /\ ")" \notin Whitespace /\ Quote \notin Whitespace
<1>1. /\ {Backslash, Quote, "n", Newline, "(", ")"} \subseteq Characters
      /\ \A p \in Predicates \cup Plain : p \notin {"(", ")", Quote, Backslash, " ", Newline}
      /\ Predicates \subseteq Characters
  BY ExpressionsAssumption DEF Characters, Whitespace
<1>2. Quote # Backslash /\ Quote # Newline /\ Backslash # Newline
  BY DEF Quote, Backslash, Newline
<1>3. \A c \in {Quote, Backslash, Newline} : c \notin {"(", ")", " ", "n"}
  BY DEF Quote, Backslash, Newline
<1>4. "(" # " " /\ ")" # " "
  OBVIOUS
<1> QED BY <1>1, <1>2, <1>3, <1>4 DEF Whitespace, Control

LEMMA ReadOnType ==
  ASSUME NEW read \in ReadStates, NEW c \in Characters
  PROVE  ReadOn(read, c) \in ReadStates
<1>1. CASE ReadOn(read, c) = Invalid
  BY <1>1 DEF ReadStates
<1>2. CASE ReadOn(read, c) # Invalid
  <2>1. read.valid
    BY <1>2 DEF ReadOn
  <2>2. read \in [valid : {TRUE}, argument : Seq(Characters), escaping : BOOLEAN]
    <3>1. ~Invalid.valid
      BY DEF Invalid
    <3> QED BY <2>1, <3>1 DEF ReadStates
  <2>3. CASE read.escaping
    <3>1. c \in DOMAIN Escapes /\ Escapes[c] \in Characters
      BY <1>2, <2>1, <2>3, CharactersAre DEF ReadOn, Escapes
    <3>2. ReadOn(read, c) =
            [valid |-> TRUE, argument |-> Append(read.argument, Escapes[c]), escaping |-> FALSE]
      BY <2>1, <2>3, <3>1 DEF ReadOn
    <3> QED BY <2>2, <3>1, <3>2 DEF ReadStates
  <2>4. CASE ~read.escaping /\ c = Backslash
    <3>1. ReadOn(read, c) = [read EXCEPT !.escaping = TRUE]
      BY <2>1, <2>4 DEF ReadOn
    <3>2. [read EXCEPT !.escaping = TRUE]
            \in [valid : {TRUE}, argument : Seq(Characters), escaping : BOOLEAN]
      BY <2>2
    <3> QED BY <3>1, <3>2 DEF ReadStates
  <2>5. CASE ~read.escaping /\ c # Backslash
    <3>1. ReadOn(read, c) = [read EXCEPT !.argument = Append(@, c)]
      BY <1>2, <2>1, <2>5 DEF ReadOn
    <3>2. Append(read.argument, c) \in Seq(Characters)
      BY <2>2
    <3>3. [read EXCEPT !.argument = Append(read.argument, c)]
            \in [valid : {TRUE}, argument : Seq(Characters), escaping : BOOLEAN]
      BY <2>2, <3>2
    <3> QED BY <3>1, <3>3 DEF ReadStates
  <2> QED BY <2>3, <2>4, <2>5
<1> QED BY <1>1, <1>2

LEMMA BegunType == Begun \in ReadStates
<1>1. <<>> \in Seq(Characters)
  OBVIOUS
<1> QED BY <1>1 DEF Begun, ReadStates

\* What Unescaped chooses: the results, character by character.
Reads(s, f) ==
  f = [i \in 0 .. Len(s) |-> IF i = 0 THEN Begun ELSE ReadOn(f[i - 1], s[i])]

LEMMA UnescapedReads ==
  ASSUME NEW s \in Seq(Characters)
  PROVE  \E f : Reads(s, f) /\ Unescaped(s) = f[Len(s)]
<1> DEFINE step == [x \in ReadStates \X Characters |-> ReadOn(x[1], x[2])]
           chosen == CHOOSE f : f = [i \in 0 .. Len(s) |->
                                       IF i = 0 THEN Begun ELSE ReadOn(f[i - 1], s[i])]
<1>1. Len(s) \in Nat /\ \A i \in 1 .. Len(s) : s[i] \in Characters
  BY SeqFacts
<1>2. \A x \in ReadStates, c \in Characters : step[<<x, c>>] \in ReadStates
  BY ReadOnType
<1>3. PICK f \in [0 .. Len(s) -> ReadStates] :
        /\ f[0] = Begun
        /\ \A i \in 1 .. Len(s) : f[i] = step[<<f[i - 1], s[i]>>]
  <2> HIDE DEF step, chosen
  <2> QED BY ONLY s \in Seq(Characters), <1>2, BegunType, Iteration, SMTT(60)
<1>4. ASSUME NEW i \in 0 .. Len(s)
      PROVE  f[i] = IF i = 0 THEN Begun ELSE ReadOn(f[i - 1], s[i])
  <2>1. CASE i = 0
    BY <1>3, <2>1
  <2>2. CASE i # 0
    <3>1. i \in 1 .. Len(s) /\ i - 1 \in 0 .. Len(s)
      BY <1>1, <2>2
    <3>2. <<f[i - 1], s[i]>> \in ReadStates \X Characters
      BY <1>1, <1>3, <3>1
    <3>3. f[i] = step[<<f[i - 1], s[i]>>]
      BY <1>3, <3>1
    <3>4. step[<<f[i - 1], s[i]>>] = ReadOn(f[i - 1], s[i])
      BY <3>2
    <3> QED BY <2>2, <3>3, <3>4
  <2> QED BY <2>1, <2>2
<1>5. Reads(s, f)
  BY <1>3, <1>4 DEF Reads
<1>6. Reads(s, chosen)
  BY <1>5 DEF Reads
<1>7. Unescaped(s) = chosen[Len(s)]
  BY DEF Unescaped
<1> QED BY <1>6, <1>7

LEMMA ReadsStep ==
  ASSUME NEW s \in Seq(Characters), NEW f, Reads(s, f)
  PROVE  /\ f[0] = Begun
         /\ \A i \in 1 .. Len(s) : f[i] = ReadOn(f[i - 1], s[i])
<1>1. Len(s) \in Nat
  OBVIOUS
<1>2. \A i \in 0 .. Len(s) : f[i] = IF i = 0 THEN Begun ELSE ReadOn(f[i - 1], s[i])
  BY DEF Reads
<1>3. 0 \in 0 .. Len(s) /\ \A i \in 1 .. Len(s) : i \in 0 .. Len(s) /\ i # 0
  BY <1>1
<1> QED BY <1>2, <1>3

LEMMA UnescapedNothing == Unescaped(<<>>) = Begun
<1>1. <<>> \in Seq(Characters) /\ Len(<<>>) = 0
  OBVIOUS
<1>2. PICK f : Reads(<<>>, f) /\ Unescaped(<<>>) = f[Len(<<>>)]
  BY <1>1, UnescapedReads
<1> QED BY <1>1, <1>2, ReadsStep

LEMMA AppendFacts ==
  ASSUME NEW S, NEW s \in Seq(S), NEW c \in S
  PROVE  /\ Append(s, c) \in Seq(S) /\ Len(Append(s, c)) = Len(s) + 1 /\ Len(s) \in Nat
         /\ Append(s, c)[Len(s) + 1] = c
         /\ \A i \in 1 .. Len(s) : Append(s, c)[i] = s[i]
  OBVIOUS

LEMMA UnescapedAppend ==
  ASSUME NEW s \in Seq(Characters), NEW c \in Characters
  PROVE  Unescaped(Append(s, c)) = ReadOn(Unescaped(s), c)
<1> DEFINE t == Append(s, c)
<1>1. /\ t \in Seq(Characters) /\ Len(t) = Len(s) + 1 /\ Len(s) \in Nat
      /\ t[Len(s) + 1] = c /\ \A i \in 1 .. Len(s) : t[i] = s[i]
  BY AppendFacts
<1> HIDE DEF t
<1>2. PICK f : Reads(s, f) /\ Unescaped(s) = f[Len(s)]
  BY UnescapedReads
<1>3. PICK g : Reads(t, g) /\ Unescaped(t) = g[Len(t)]
  BY <1>1, UnescapedReads
<1>4. f[0] = Begun /\ \A i \in 1 .. Len(s) : f[i] = ReadOn(f[i - 1], s[i])
  BY <1>2, ReadsStep
<1>5. g[0] = Begun /\ \A i \in 1 .. Len(s) + 1 : g[i] = ReadOn(g[i - 1], t[i])
  BY <1>1, <1>3, ReadsStep
<1> DEFINE T == {i \in 0 .. Len(s) : f[i] = g[i]}
<1>6. 0 \in T
  BY <1>1, <1>4, <1>5
<1>7. ASSUME NEW i \in 0 .. Len(s), i < Len(s), i \in T
      PROVE  i + 1 \in T
  <2>1. i + 1 \in 1 .. Len(s) /\ i + 1 \in 1 .. Len(s) + 1 /\ i + 1 \in 0 .. Len(s) /\ (i + 1) - 1 = i
    BY <1>1, <1>7
  <2>2. f[i + 1] = ReadOn(f[i], s[i + 1]) /\ g[i + 1] = ReadOn(g[i], t[i + 1])
    BY <1>4, <1>5, <2>1
  <2> QED BY <1>1, <1>7, <2>1, <2>2
<1> HIDE DEF T
<1>8. 0 .. Len(s) \subseteq T
  BY <1>1, <1>6, <1>7, Induction
<1>9. f[Len(s)] = g[Len(s)]
  BY <1>1, <1>8 DEF T
<1>10. Len(s) + 1 \in 1 .. Len(s) + 1 /\ (Len(s) + 1) - 1 = Len(s)
  BY <1>1
<1> QED BY <1>1, <1>2, <1>3, <1>5, <1>9, <1>10 DEF t

LEMMA UnescapedType ==
  ASSUME NEW s \in Seq(Characters)
  PROVE  Unescaped(s) \in ReadStates
<1>1. PICK f : Reads(s, f) /\ Unescaped(s) = f[Len(s)]
  BY UnescapedReads
<1>2. f[0] = Begun /\ \A i \in 1 .. Len(s) : f[i] = ReadOn(f[i - 1], s[i])
  BY <1>1, ReadsStep
<1>3. Len(s) \in Nat /\ \A i \in 1 .. Len(s) : s[i] \in Characters
  BY SeqFacts
<1> DEFINE T == {i \in 0 .. Len(s) : f[i] \in ReadStates}
<1>4. 0 \in T
  BY <1>2, <1>3, BegunType
<1>5. ASSUME NEW i \in 0 .. Len(s), i < Len(s), i \in T
      PROVE  i + 1 \in T
  <2>1. i + 1 \in 1 .. Len(s) /\ i + 1 \in 0 .. Len(s) /\ (i + 1) - 1 = i
    BY <1>3, <1>5
  <2>2. f[i + 1] = ReadOn(f[i], s[i + 1])
    BY <1>2, <2>1
  <2>3. ReadOn(f[i], s[i + 1]) \in ReadStates
    BY <1>3, <1>5, <2>1, ReadOnType
  <2> QED BY <2>1, <2>2, <2>3
<1> HIDE DEF T
<1>6. 0 .. Len(s) \subseteq T
  BY <1>3, <1>4, <1>5, Induction
<1>7. f[Len(s)] \in ReadStates
  BY <1>3, <1>6 DEF T
<1> QED BY <1>1, <1>7

-----------------------------------------------------------------------------
(* Writing an argument.                                                    *)

LEMMA ShortSequences ==
  ASSUME NEW S, NEW x \in S, NEW y \in S
  PROVE  <<x>> \in Seq(S) /\ Len(<<x>>) = 1 /\ <<x, y>> \in Seq(S) /\ Len(<<x, y>>) = 2
  OBVIOUS

\* The second character of an escape.
EscapeOf(c) == IF c = Newline THEN "n" ELSE c

LEMMA EscapedIs ==
  ASSUME NEW c
  PROVE  Escaped(c) = IF c \in {Backslash, Quote, Newline} THEN <<Backslash, EscapeOf(c)>> ELSE <<c>>
  BY CharactersAre DEF Escaped, EscapeOf

LEMMA EscapedType ==
  ASSUME NEW c \in Characters
  PROVE  /\ Escaped(c) \in Seq(Characters) /\ Len(Escaped(c)) \in {1, 2}
         /\ EscapeOf(c) \in Characters
<1>1. EscapeOf(c) \in Characters /\ Backslash \in Characters
  BY CharactersAre DEF EscapeOf
<1>2. CASE c \in {Backslash, Quote, Newline}
  <2>1. Escaped(c) = <<Backslash, EscapeOf(c)>>
    BY <1>2, EscapedIs
  <2> QED BY <1>1, <2>1, ShortSequences
<1>3. CASE c \notin {Backslash, Quote, Newline}
  <2>1. Escaped(c) = <<c>>
    BY <1>3, EscapedIs
  <2> QED BY <1>1, <2>1, ShortSequences
<1> QED BY <1>2, <1>3

\* What EscapedText chooses.
Writes(s, f) ==
  f = [i \in 0 .. Len(s) |-> IF i = 0 THEN <<>> ELSE f[i - 1] \o Escaped(s[i])]

LEMMA TextWrites ==
  ASSUME NEW s \in Seq(Characters)
  PROVE  \E f : Writes(s, f) /\ EscapedText(s) = f[Len(s)]
<1> DEFINE step == [x \in Seq(Characters) \X Characters |-> x[1] \o Escaped(x[2])]
           chosen == CHOOSE f : f = [i \in 0 .. Len(s) |->
                                       IF i = 0 THEN <<>> ELSE f[i - 1] \o Escaped(s[i])]
<1>1. Len(s) \in Nat /\ \A i \in 1 .. Len(s) : s[i] \in Characters
  BY SeqFacts
<1>2. \A x \in Seq(Characters), c \in Characters : step[<<x, c>>] \in Seq(Characters)
  <2> SUFFICES ASSUME NEW x \in Seq(Characters), NEW c \in Characters
               PROVE  x \o Escaped(c) \in Seq(Characters)
    OBVIOUS
  <2>1. Escaped(c) \in Seq(Characters)
    BY EscapedType
  <2> QED BY <2>1, ConcatProperties
<1>3. PICK f \in [0 .. Len(s) -> Seq(Characters)] :
        /\ f[0] = <<>>
        /\ \A i \in 1 .. Len(s) : f[i] = step[<<f[i - 1], s[i]>>]
  <2> DEFINE S == Seq(Characters)
             b == <<>>
  <2>1. b \in S
    OBVIOUS
  <2>2. \A x \in S, c \in Characters : step[<<x, c>>] \in S
    BY <1>2
  <2> HIDE DEF step, chosen, S, b
  <2>3. \E f \in [0 .. Len(s) -> S] :
          f[0] = b /\ \A i \in 1 .. Len(s) : f[i] = step[<<f[i - 1], s[i]>>]
    BY ONLY s \in Seq(Characters), <2>1, <2>2, Iteration, SMTT(60)
  <2> QED BY <2>3 DEF S, b
<1>4. ASSUME NEW i \in 0 .. Len(s)
      PROVE  f[i] = IF i = 0 THEN <<>> ELSE f[i - 1] \o Escaped(s[i])
  <2>1. CASE i = 0
    BY <1>3, <2>1
  <2>2. CASE i # 0
    <3>1. i \in 1 .. Len(s) /\ i - 1 \in 0 .. Len(s)
      BY <1>1, <2>2
    <3>2. <<f[i - 1], s[i]>> \in Seq(Characters) \X Characters
      BY <1>1, <1>3, <3>1
    <3>3. f[i] = step[<<f[i - 1], s[i]>>]
      BY <1>3, <3>1
    <3>4. step[<<f[i - 1], s[i]>>] = f[i - 1] \o Escaped(s[i])
      BY <3>2
    <3> QED BY <2>2, <3>3, <3>4
  <2> QED BY <2>1, <2>2
<1>5. Writes(s, f)
  BY <1>3, <1>4 DEF Writes
<1>6. Writes(s, chosen)
  BY <1>5 DEF Writes
<1>7. EscapedText(s) = chosen[Len(s)]
  BY DEF EscapedText
<1> QED BY <1>6, <1>7

LEMMA WritesStep ==
  ASSUME NEW s \in Seq(Characters), NEW f, Writes(s, f)
  PROVE  /\ f[0] = <<>>
         /\ \A i \in 1 .. Len(s) : f[i] = f[i - 1] \o Escaped(s[i])
<1>1. Len(s) \in Nat
  OBVIOUS
<1>2. \A i \in 0 .. Len(s) : f[i] = IF i = 0 THEN <<>> ELSE f[i - 1] \o Escaped(s[i])
  BY DEF Writes
<1>3. 0 \in 0 .. Len(s) /\ \A i \in 1 .. Len(s) : i \in 0 .. Len(s) /\ i # 0
  BY <1>1
<1> QED BY <1>2, <1>3

LEMMA TextOfNothing == EscapedText(<<>>) = <<>>
<1>1. <<>> \in Seq(Characters) /\ Len(<<>>) = 0
  OBVIOUS
<1>2. PICK f : Writes(<<>>, f) /\ EscapedText(<<>>) = f[Len(<<>>)]
  BY <1>1, TextWrites
<1> QED BY <1>1, <1>2, WritesStep

LEMMA TextAppend ==
  ASSUME NEW s \in Seq(Characters), NEW c \in Characters
  PROVE  EscapedText(Append(s, c)) = EscapedText(s) \o Escaped(c)
<1> DEFINE t == Append(s, c)
<1>1. /\ t \in Seq(Characters) /\ Len(t) = Len(s) + 1 /\ Len(s) \in Nat
      /\ t[Len(s) + 1] = c /\ \A i \in 1 .. Len(s) : t[i] = s[i]
  BY AppendFacts
<1> HIDE DEF t
<1>2. PICK f : Writes(s, f) /\ EscapedText(s) = f[Len(s)]
  BY TextWrites
<1>3. PICK g : Writes(t, g) /\ EscapedText(t) = g[Len(t)]
  BY <1>1, TextWrites
<1>4. f[0] = <<>> /\ \A i \in 1 .. Len(s) : f[i] = f[i - 1] \o Escaped(s[i])
  BY <1>2, WritesStep
<1>5. g[0] = <<>> /\ \A i \in 1 .. Len(s) + 1 : g[i] = g[i - 1] \o Escaped(t[i])
  <2>1. /\ g[0] = <<>>
        /\ \A i \in 1 .. Len(t) : g[i] = g[i - 1] \o Escaped(t[i])
    BY ONLY <1>1, <1>3, WritesStep
  <2> QED BY <1>1, <2>1
<1> DEFINE T == {i \in 0 .. Len(s) : f[i] = g[i]}
<1>6. 0 \in T
  BY <1>1, <1>4, <1>5
<1>7. ASSUME NEW i \in 0 .. Len(s), i < Len(s), i \in T
      PROVE  i + 1 \in T
  <2>1. i + 1 \in 1 .. Len(s) /\ i + 1 \in 1 .. Len(s) + 1 /\ i + 1 \in 0 .. Len(s) /\ (i + 1) - 1 = i
    BY <1>1, <1>7
  <2>2. f[i + 1] = f[i] \o Escaped(s[i + 1]) /\ g[i + 1] = g[i] \o Escaped(t[i + 1])
    BY <1>4, <1>5, <2>1
  <2>3. t[i + 1] = s[i + 1] /\ f[i] = g[i]
    BY <1>1, <1>7, <2>1
  <2>4. f[i + 1] = g[i + 1]
    BY <2>2, <2>3
  <2> QED BY <2>1, <2>4
<1> HIDE DEF T
<1>8. 0 .. Len(s) \subseteq T
  BY <1>1, <1>6, <1>7, Induction
<1>9. f[Len(s)] = g[Len(s)]
  BY <1>1, <1>8 DEF T
<1>10. Len(s) + 1 \in 1 .. Len(s) + 1 /\ (Len(s) + 1) - 1 = Len(s)
  BY <1>1
<1>11. g[Len(s) + 1] = g[Len(s)] \o Escaped(c)
  BY <1>1, <1>5, <1>10
<1> QED BY <1>1, <1>2, <1>3, <1>9, <1>11 DEF t

LEMMA LastIsAppended ==
  ASSUME NEW S, NEW s \in Seq(S), Len(s) # 0
  PROVE  \E u \in Seq(S), c \in S : s = Append(u, c) /\ Len(u) = Len(s) - 1
<1> DEFINE u == SubSeq(s, 1, Len(s) - 1)
<1>1. Len(s) \in Nat \ {0} /\ s[Len(s)] \in S
  BY SeqFacts
<1>2. u \in Seq(S) /\ Len(u) = Len(s) - 1 /\ \A i \in 1 .. Len(s) - 1 : u[i] = s[i]
  <2>1. 1 \in Int /\ Len(s) - 1 \in Int /\ \A i \in 1 .. Len(s) - 1 : s[i] \in S
    BY <1>1, SeqFacts
  <2>2. Len(s) - 1 = (IF 1 <= Len(s) - 1 THEN (Len(s) - 1) - 1 + 1 ELSE 0)
    BY <1>1
  <2>3. \A i \in 1 .. (Len(s) - 1) - 1 + 1 : u[i] = s[1 + i - 1]
    BY <2>1, SubSeqProperties
  <2>4. u \in Seq(S) /\ Len(u) = Len(s) - 1
    BY <2>1, <2>2, SubSeqProperties
  <2>5. \A i \in 1 .. Len(s) - 1 : i \in 1 .. (Len(s) - 1) - 1 + 1 /\ 1 + i - 1 = i
    BY <1>1
  <2> HIDE DEF u
  <2> QED BY <2>3, <2>4, <2>5
<1>3. s = Append(u, s[Len(s)])
  <2> DEFINE t == Append(u, s[Len(s)])
  <2> HIDE DEF u
  <2>1. /\ t \in Seq(S) /\ Len(t) = Len(s) /\ t[Len(s)] = s[Len(s)]
        /\ \A i \in 1 .. Len(s) - 1 : t[i] = u[i]
    <3>1. (Len(s) - 1) + 1 = Len(s)
      BY <1>1
    <3> QED BY <1>1, <1>2, <3>1, AppendFacts
  <2>2. \A i \in 1 .. Len(s) : t[i] = s[i]
    BY <1>1, <1>2, <2>1
  <2> HIDE DEF t
  <2>3. t = s
    BY <2>1, <2>2, SeqEqual
  <2> QED BY <2>3 DEF t
<1> QED BY <1>1, <1>2, <1>3

LEMMA ConcatShort ==
  ASSUME NEW S, NEW s \in Seq(S), NEW c \in S, NEW d \in S
  PROVE  s \o <<c>> = Append(s, c) /\ s \o <<c, d>> = Append(Append(s, c), d)
<1>1. s \o <<c>> = Append(s, c)
  OBVIOUS
<1>2. s \o <<c, d>> = Append(Append(s, c), d)
  <2> DEFINE t == s \o <<c, d>>
             u == Append(Append(s, c), d)
  <2>1. /\ t \in Seq(S) /\ Len(t) = Len(s) + 2 /\ Len(s) \in Nat
        /\ \A i \in 1 .. Len(s) : t[i] = s[i]
        /\ t[Len(s) + 1] = c /\ t[Len(s) + 2] = d
    OBVIOUS
  <2>2. /\ u \in Seq(S) /\ Len(u) = Len(s) + 2
        /\ \A i \in 1 .. Len(s) : u[i] = s[i]
        /\ u[Len(s) + 1] = c /\ u[Len(s) + 2] = d
    OBVIOUS
  <2> HIDE DEF t, u
  <2>3. t = u
    BY <2>1, <2>2, SeqEqual
  <2> QED BY <2>3 DEF t, u
<1> QED BY <1>1, <1>2

-----------------------------------------------------------------------------
(* Reading and writing are inverse to each other.                          *)

Means(argument) == [valid |-> TRUE, argument |-> argument, escaping |-> FALSE]

LEMMA EscapedIsRead ==
  ASSUME NEW a \in Seq(Characters), NEW s \in Seq(Characters), NEW c \in Characters,
         Unescaped(s) = Means(a)
  PROVE  Unescaped(s \o Escaped(c)) = Means(Append(a, c))
<1>1. CASE c \in {Backslash, Quote, Newline}
  <2>1. Escaped(c) = <<Backslash, EscapeOf(c)>>
    BY <1>1, EscapedIs
  <2>2. EscapeOf(c) \in Characters /\ Backslash \in Characters
    BY CharactersAre, EscapedType
  <2>3. /\ Append(s, Backslash) \in Seq(Characters)
        /\ Unescaped(s \o Escaped(c)) = ReadOn(ReadOn(Unescaped(s), Backslash), EscapeOf(c))
    <3>1. s \o Escaped(c) = Append(Append(s, Backslash), EscapeOf(c))
      BY <2>1, <2>2, ConcatShort
    <3>2. Append(s, Backslash) \in Seq(Characters)
      BY <2>2
    <3> QED BY <2>2, <3>1, <3>2, UnescapedAppend
  <2>4. ReadOn(Means(a), Backslash) = [valid |-> TRUE, argument |-> a, escaping |-> TRUE]
    BY DEF ReadOn, Means
  <2>5. EscapeOf(c) \in DOMAIN Escapes /\ Escapes[EscapeOf(c)] = c
    BY <1>1, CharactersAre DEF Escapes, EscapeOf
  <2>6. ReadOn([valid |-> TRUE, argument |-> a, escaping |-> TRUE], EscapeOf(c))
          = [valid |-> TRUE, argument |-> Append(a, c), escaping |-> FALSE]
    BY <2>5 DEF ReadOn
  <2> QED BY <2>3, <2>4, <2>6 DEF Means
<1>2. CASE c \notin {Backslash, Quote, Newline}
  <2>1. s \o Escaped(c) = Append(s, c)
    BY <1>2, EscapedIs, ConcatShort
  <2>2. Unescaped(s \o Escaped(c)) = ReadOn(Means(a), c)
    BY <2>1, UnescapedAppend
  <2>3. StandsForItself(c)
    BY <1>2 DEF StandsForItself, Control
  <2>4. ReadOn(Means(a), c) = Means(Append(a, c))
    BY <1>2, <2>3 DEF ReadOn, Means
  <2> QED BY <2>2, <2>4
<1> QED BY <1>1, <1>2

\* Every argument is what its text is read as.
LEMMA TextIsRead ==
  ASSUME NEW argument \in Seq(Characters)
  PROVE  /\ EscapedText(argument) \in Seq(Characters)
         /\ Len(argument) <= Len(EscapedText(argument))
         /\ Unescaped(EscapedText(argument)) = Means(argument)
<1> DEFINE Goal(a) == /\ EscapedText(a) \in Seq(Characters)
                      /\ Len(a) <= Len(EscapedText(a))
                      /\ Unescaped(EscapedText(a)) = Means(a)
           T == {n \in Nat : \A a \in Seq(Characters) : Len(a) = n => Goal(a)}
<1>1. 0 \in T
  <2>1. Goal(<<>>)
    <3>1. <<>> \in Seq(Characters) /\ Len(<<>>) <= Len(<<>>)
      OBVIOUS
    <3> QED BY <3>1, TextOfNothing, UnescapedNothing DEF Begun, Means
  <2>2. \A a \in Seq(Characters) : Len(a) = 0 => a = <<>>
    BY EmptySeq
  <2> HIDE DEF Goal
  <2> QED BY <2>1, <2>2
<1>2. ASSUME NEW n \in Nat, n \in T
      PROVE  n + 1 \in T
  <2> SUFFICES ASSUME NEW a \in Seq(Characters), Len(a) = n + 1
               PROVE  Goal(a)
    BY DEF T
  <2>1. PICK u \in Seq(Characters), c \in Characters : a = Append(u, c) /\ Len(u) = Len(a) - 1
    <3>1. Len(a) # 0
      OBVIOUS
    <3> QED BY ONLY a \in Seq(Characters), <3>1, LastIsAppended
  <2>2. Goal(u)
    <3>1. Len(u) = n
      BY <2>1
    <3> HIDE DEF Goal
    <3> QED BY <1>2, <3>1
  <2>3. EscapedText(a) = EscapedText(u) \o Escaped(c)
    BY <2>1, TextAppend
  <2>4. Unescaped(EscapedText(a)) = Means(a)
    BY <2>1, <2>2, <2>3, EscapedIsRead
  <2>5. /\ EscapedText(a) \in Seq(Characters)
        /\ Len(EscapedText(a)) = Len(EscapedText(u)) + Len(Escaped(c))
    BY <2>2, <2>3, EscapedType, ConcatProperties
  <2>6. Len(a) <= Len(EscapedText(a))
    <3>1. Len(Escaped(c)) \in {1, 2} /\ Len(EscapedText(u)) \in Nat /\ Len(u) = n
      BY <2>1, <2>2, EscapedType
    <3>2. Len(u) <= Len(EscapedText(u))
      BY <2>2
    <3> DEFINE x == Len(EscapedText(u))
               y == Len(Escaped(c))
    <3>3. Len(EscapedText(a)) = x + y /\ Len(a) = n + 1
      BY <2>5
    <3>4. x \in Nat /\ y \in {1, 2} /\ n <= x
      BY <3>1, <3>2
    <3> HIDE DEF x, y, Goal
    <3>5. n + 1 <= x + y
      BY <3>4
    <3> QED BY <3>3, <3>5
  <2> QED BY <2>4, <2>5, <2>6
<1>3. Len(argument) \in Nat
  OBVIOUS
<1> HIDE DEF T
<1>4. 0 .. Len(argument) \subseteq T
  BY <1>1, <1>2, <1>3, Induction
<1>5. Len(argument) \in T
  BY <1>3, <1>4
<1>6. Goal(argument)
  <2> HIDE DEF Goal
  <2> QED BY <1>5 DEF T
<1> QED BY <1>6

\* Every text that is read is the text of what it is read as, up to an
\* escape that is not complete.
TextRead(read) ==
  IF read.escaping THEN Append(EscapedText(read.argument), Backslash) ELSE EscapedText(read.argument)

LEMMA ReadOnIsText ==
  ASSUME NEW read \in ReadStates, NEW c \in Characters, ReadOn(read, c).valid
  PROVE  /\ read.valid /\ read.argument \in Seq(Characters)
         /\ TextRead(ReadOn(read, c)) = Append(TextRead(read), c)
<1>1. ~Invalid.valid
  BY DEF Invalid
<1>2. read.valid
  BY <1>1 DEF ReadOn
<1>3. /\ read \in [valid : {TRUE}, argument : Seq(Characters), escaping : BOOLEAN]
      /\ read.argument \in Seq(Characters)
  BY <1>1, <1>2 DEF ReadStates
<1> DEFINE a == read.argument
<1>4. EscapedText(a) \in Seq(Characters)
  BY <1>3, TextIsRead
<1>5. CASE read.escaping
  <2>1. c \in DOMAIN Escapes
    BY <1>1, <1>2, <1>5 DEF ReadOn
  <2>2. ReadOn(read, c) = [valid |-> TRUE, argument |-> Append(a, Escapes[c]), escaping |-> FALSE]
    BY <1>2, <1>5, <2>1 DEF ReadOn
  <2>3. /\ Escapes[c] \in {Backslash, Quote, Newline} /\ EscapeOf(Escapes[c]) = c
    BY <2>1, CharactersAre DEF Escapes, EscapeOf
  <2>4. Escapes[c] \in Characters /\ Backslash \in Characters
    BY <2>3, CharactersAre
  <2>5. Escaped(Escapes[c]) = <<Backslash, c>>
    BY <2>3, EscapedIs
  <2>6. TextRead(ReadOn(read, c)) = EscapedText(a) \o <<Backslash, c>>
    <3>1. EscapedText(Append(a, Escapes[c])) = EscapedText(a) \o Escaped(Escapes[c])
      BY <1>3, <2>4, TextAppend
    <3>2. ~ReadOn(read, c).escaping /\ ReadOn(read, c).argument = Append(a, Escapes[c])
      BY <2>2
    <3> QED BY <2>5, <3>1, <3>2 DEF TextRead
  <2>7. EscapedText(a) \o <<Backslash, c>> = Append(Append(EscapedText(a), Backslash), c)
    BY <1>4, <2>4, ConcatShort
  <2> QED BY <1>2, <1>3, <1>5, <2>6, <2>7 DEF TextRead
<1>6. CASE ~read.escaping /\ c = Backslash
  <2>1. ReadOn(read, c) = [read EXCEPT !.escaping = TRUE]
    BY <1>2, <1>6 DEF ReadOn
  <2>2. ReadOn(read, c).escaping /\ ReadOn(read, c).argument = a
    BY <1>3, <2>1
  <2> QED BY <1>2, <1>3, <1>6, <2>2 DEF TextRead
<1>7. CASE ~read.escaping /\ c # Backslash
  <2>1. StandsForItself(c) /\ ReadOn(read, c) = [read EXCEPT !.argument = Append(@, c)]
    BY <1>1, <1>2, <1>7 DEF ReadOn
  <2>2. ~ReadOn(read, c).escaping /\ ReadOn(read, c).argument = Append(a, c)
    BY <1>3, <1>7, <2>1
  <2>3. Escaped(c) = <<c>>
    BY <1>7, <2>1, EscapedIs DEF StandsForItself, Control
  <2>4. EscapedText(Append(a, c)) = Append(EscapedText(a), c)
    <3>1. EscapedText(Append(a, c)) = EscapedText(a) \o Escaped(c)
      BY <1>3, TextAppend
    <3>2. EscapedText(a) \o <<c>> = Append(EscapedText(a), c)
      BY <1>4, ConcatShort
    <3> QED BY <2>3, <3>1, <3>2
  <2> QED BY <1>2, <1>3, <1>7, <2>2, <2>4 DEF TextRead
<1> QED BY <1>5, <1>6, <1>7

LEMMA ReadIsText ==
  ASSUME NEW s \in Seq(Characters), Unescaped(s).valid
  PROVE  /\ Unescaped(s).argument \in Seq(Characters)
         /\ TextRead(Unescaped(s)) = s
<1> DEFINE Goal(t) == Unescaped(t).valid => /\ Unescaped(t).argument \in Seq(Characters)
                                            /\ TextRead(Unescaped(t)) = t
           T == {n \in Nat : \A t \in Seq(Characters) : Len(t) = n => Goal(t)}
<1>1. 0 \in T
  <2>1. Goal(<<>>)
    <3>1. <<>> \in Seq(Characters)
      OBVIOUS
    <3>2. ~Begun.escaping /\ Begun.argument = <<>>
      BY DEF Begun
    <3> QED BY <3>1, <3>2, TextOfNothing, UnescapedNothing DEF TextRead
  <2>2. \A t \in Seq(Characters) : Len(t) = 0 => t = <<>>
    BY EmptySeq
  <2> HIDE DEF Goal
  <2> QED BY <2>1, <2>2
<1>2. ASSUME NEW n \in Nat, n \in T
      PROVE  n + 1 \in T
  <2> SUFFICES ASSUME NEW t \in Seq(Characters), Len(t) = n + 1, Unescaped(t).valid
               PROVE  /\ Unescaped(t).argument \in Seq(Characters)
                      /\ TextRead(Unescaped(t)) = t
    BY DEF T
  <2>1. PICK u \in Seq(Characters), c \in Characters : t = Append(u, c) /\ Len(u) = Len(t) - 1
    <3>1. Len(t) # 0
      OBVIOUS
    <3> QED BY ONLY t \in Seq(Characters), <3>1, LastIsAppended
  <2>2. Goal(u)
    <3>1. Len(u) = n
      BY <2>1
    <3> HIDE DEF Goal
    <3> QED BY <1>2, <3>1
  <2>3. Unescaped(t) = ReadOn(Unescaped(u), c) /\ Unescaped(u) \in ReadStates
    BY <2>1, UnescapedAppend, UnescapedType
  <2>4. Unescaped(u).valid /\ TextRead(Unescaped(t)) = Append(TextRead(Unescaped(u)), c)
    BY <2>3, ReadOnIsText
  <2>5. TextRead(Unescaped(t)) = t
    BY <2>1, <2>2, <2>4
  <2>6. Unescaped(t).argument \in Seq(Characters)
    <3>1. Unescaped(t) \in ReadStates /\ ~Invalid.valid
      BY UnescapedType DEF Invalid
    <3> QED BY <3>1 DEF ReadStates
  <2> QED BY <2>5, <2>6
<1>3. Len(s) \in Nat
  OBVIOUS
<1> HIDE DEF T
<1>4. 0 .. Len(s) \subseteq T
  BY <1>1, <1>2, <1>3, Induction
<1>5. Len(s) \in T
  BY <1>3, <1>4
<1>6. Goal(s)
  <2> HIDE DEF Goal
  <2> QED BY <1>5 DEF T
<1> QED BY <1>6

-----------------------------------------------------------------------------
(* Trimming.                                                               *)

LEMMA PartOf ==
  ASSUME NEW S, NEW s \in Seq(S), NEW i \in Int, NEW j \in Int, 1 <= i, j <= Len(s)
  PROVE  /\ SubSeq(s, i, j) \in Seq(S)
         /\ i <= j => Len(SubSeq(s, i, j)) = j - i + 1
         /\ j < i => SubSeq(s, i, j) = <<>>
         /\ \A k \in Nat : 1 <= k /\ k <= j - i + 1 => SubSeq(s, i, j)[k] = s[i + k - 1]
<1>1. Len(s) \in Nat /\ \A k \in 1 .. Len(s) : s[k] \in S
  BY SeqFacts
<1>2. \A k \in i .. j : s[k] \in S
  <2> SUFFICES ASSUME NEW k \in i .. j
               PROVE  k \in 1 .. Len(s)
    BY <1>1
  <2> QED BY <1>1
<1>3. /\ SubSeq(s, i, j) \in Seq(S)
      /\ Len(SubSeq(s, i, j)) = IF i <= j THEN j - i + 1 ELSE 0
      /\ \A k \in 1 .. j - i + 1 : SubSeq(s, i, j)[k] = s[i + k - 1]
  BY <1>2, SubSeqProperties
<1>4. j < i => SubSeq(s, i, j) = <<>>
  BY SubSeqEmpty
<1>5. \A k \in Nat : 1 <= k /\ k <= j - i + 1 => k \in 1 .. j - i + 1
  OBVIOUS
<1>6. i <= j => Len(SubSeq(s, i, j)) = j - i + 1
  BY <1>3
<1> QED BY <1>3, <1>4, <1>5, <1>6

Inside(s) == {i \in DOMAIN s : s[i] \notin Whitespace}

LEMMA TrimmedFacts ==
  ASSUME NEW s \in Seq(Characters)
  PROVE  Trimmed(s) \in Seq(Characters) /\ Len(Trimmed(s)) <= Len(s)
<1> DEFINE inside == Inside(s)
           first == CHOOSE i \in inside : \A j \in inside : i <= j
           last  == CHOOSE i \in inside : \A j \in inside : i >= j
<1>1. Len(s) \in Nat /\ inside \subseteq 1 .. Len(s) /\ inside \in SUBSET Nat
  BY SeqFacts DEF Inside
<1>2. Trimmed(s) = IF inside = {} THEN <<>> ELSE SubSeq(s, first, last)
  BY DEF Trimmed, Inside
<1>3. CASE inside = {}
  <2>1. Trimmed(s) = <<>>
    BY <1>2, <1>3
  <2> QED BY <1>1, <2>1, EmptySeq
<1>4. CASE inside # {}
  <2> HIDE DEF inside
  <2>1. \E i \in inside : \A j \in inside : i <= j
    BY <1>1, <1>4, LeastElement
  <2>2. \E i \in inside : \A j \in inside : i >= j
    <3>1. \E i \in inside : \A j \in inside : j <= i
      BY <1>1, <1>4, GreatestElement
    <3> QED BY <1>1, <3>1
  <2>3. first \in inside /\ last \in inside
    BY <2>1, <2>2
  <2> HIDE DEF first, last
  <2>4. first \in Int /\ last \in Int /\ 1 <= first /\ last <= Len(s) /\ first <= Len(s)
    BY <1>1, <2>3
  <2>5. Trimmed(s) = SubSeq(s, first, last)
    BY <1>2, <1>4
  <2>6. /\ SubSeq(s, first, last) \in Seq(Characters)
        /\ first <= last => Len(SubSeq(s, first, last)) = last - first + 1
        /\ last < first => SubSeq(s, first, last) = <<>>
    BY <2>4, PartOf
  <2>7. CASE first <= last
    BY <1>1, <2>4, <2>5, <2>6, <2>7
  <2>8. CASE last < first
    BY <1>1, <2>5, <2>6, <2>8, EmptySeq
  <2> QED BY <2>4, <2>7, <2>8
<1> QED BY <1>3, <1>4

LEMMA NothingToTrim ==
  ASSUME NEW s \in Seq(Characters), s # <<>>,
         s[1] \notin Whitespace, s[Len(s)] \notin Whitespace
  PROVE  Trimmed(s) = s
<1> DEFINE inside == Inside(s)
           first == CHOOSE i \in inside : \A j \in inside : i <= j
           last  == CHOOSE i \in inside : \A j \in inside : i >= j
<1>1. Len(s) \in Nat /\ 1 <= Len(s) /\ DOMAIN s = 1 .. Len(s)
  BY SeqFacts
<1>2. 1 \in inside /\ Len(s) \in inside /\ inside \subseteq 1 .. Len(s)
  BY <1>1 DEF Inside
<1>3. Trimmed(s) = IF inside = {} THEN <<>> ELSE SubSeq(s, first, last)
  BY DEF Trimmed, Inside
<1> HIDE DEF inside
<1>4. first = 1 /\ last = Len(s)
  <2>1. 1 \in inside /\ \A j \in inside : 1 <= j
    BY <1>1, <1>2
  <2>2. Len(s) \in inside /\ \A j \in inside : Len(s) >= j
    BY <1>1, <1>2
  <2>3. first \in inside /\ \A j \in inside : first <= j
    BY <2>1
  <2>4. last \in inside /\ \A j \in inside : last >= j
    BY <2>2
  <2> HIDE DEF first, last
  <2>5. first <= 1 /\ 1 <= first /\ last >= Len(s) /\ Len(s) >= last
    BY <2>1, <2>2, <2>3, <2>4
  <2>6. first \in Int /\ last \in Int
    BY <1>1, <1>2, <2>3, <2>4
  <2>7. first = 1
    BY <2>5, <2>6
  <2>8. last = Len(s)
    <3> DEFINE n == Len(s)
    <3>1. n \in Int /\ last \in Int /\ last >= n /\ n >= last
      BY <1>1, <2>5, <2>6
    <3> HIDE DEF n
    <3>2. last = n
      BY <3>1
    <3> QED BY <3>2 DEF n
  <2> QED BY <2>7, <2>8
<1> HIDE DEF first, last
<1>5. Trimmed(s) = SubSeq(s, 1, Len(s))
  BY <1>2, <1>3, <1>4
<1>6. /\ SubSeq(s, 1, Len(s)) \in Seq(Characters) /\ Len(SubSeq(s, 1, Len(s))) = Len(s)
      /\ \A k \in 1 .. Len(s) : SubSeq(s, 1, Len(s))[k] = s[k]
  <2>1. /\ SubSeq(s, 1, Len(s)) \in Seq(Characters)
        /\ 1 <= Len(s) => Len(SubSeq(s, 1, Len(s))) = Len(s) - 1 + 1
        /\ \A k \in Nat : 1 <= k /\ k <= Len(s) - 1 + 1 => SubSeq(s, 1, Len(s))[k] = s[1 + k - 1]
    BY <1>1, PartOf
  <2>2. Len(s) - 1 + 1 = Len(s)
    BY <1>1
  <2>3. \A k \in 1 .. Len(s) : k \in Nat /\ 1 <= k /\ k <= Len(s) /\ 1 + k - 1 = k
    BY <1>1
  <2> QED BY <1>1, <2>1, <2>2, <2>3
<1> QED BY <1>5, <1>6, SeqEqual

-----------------------------------------------------------------------------
(* The text of an expression.                                              *)

LEMMA Triple ==
  ASSUME NEW S, NEW x \in S, NEW y \in S, NEW z \in S
  PROVE  <<x, y, z>> \in Seq(S) /\ Len(<<x, y, z>>) = 3
  OBVIOUS

LEMMA ConcatAt ==
  ASSUME NEW S, NEW s \in Seq(S), NEW t \in Seq(S)
  PROVE  /\ s \o t \in Seq(S) /\ Len(s \o t) = Len(s) + Len(t)
         /\ \A i \in 1 .. Len(s) : (s \o t)[i] = s[i]
         /\ \A i \in 1 .. Len(t) : (s \o t)[Len(s) + i] = t[i]
<1> DEFINE m == Len(s)
           n == Len(t)
           u == s \o t
<1>1. /\ u \in Seq(S) /\ Len(u) = m + n
      /\ \A i \in 1 .. m + n : u[i] = IF i <= m THEN s[i] ELSE t[i - m]
  BY ConcatProperties
<1>2. m \in Nat /\ n \in Nat
  OBVIOUS
<1> HIDE DEF m, n, u
<1>3. \A i \in 1 .. m : i \in 1 .. m + n /\ i <= m
  BY <1>2
<1>4. \A i \in 1 .. n : m + i \in 1 .. m + n /\ ~(m + i <= m) /\ (m + i) - m = i
  BY <1>2
<1>5. /\ \A i \in 1 .. m : u[i] = s[i]
      /\ \A i \in 1 .. n : u[m + i] = t[i]
  BY <1>1, <1>3, <1>4
<1> QED BY <1>1, <1>5 DEF m, n, u

LEMMA TextOfExpression ==
  ASSUME NEW p \in Predicates, NEW e \in Seq(Characters)
  PROVE  LET d == <<p, "(", Quote>> \o e \o <<Quote, ")">>
         IN  /\ d \in Seq(Characters) /\ Len(d) = Len(e) + 5 /\ Len(e) \in Nat
             /\ d[1] = p /\ d[2] = "(" /\ d[3] = Quote
             /\ d[Len(e) + 4] = Quote /\ d[Len(e) + 5] = ")"
             /\ \A i \in 1 .. Len(e) : d[i + 3] = e[i]
<1> DEFINE front == <<p, "(", Quote>>
           back  == <<Quote, ")">>
           m == front \o e
           d == m \o back
           n == Len(e)
<1>1. n \in Nat /\ Len(e) = n
  OBVIOUS
<1>2. front \in Seq(Characters) /\ Len(front) = 3 /\ back \in Seq(Characters) /\ Len(back) = 2
  <2>1. p \in Characters /\ "(" \in Characters /\ Quote \in Characters /\ ")" \in Characters
    BY CharactersAre
  <2> QED BY <2>1, Triple, ShortSequences
<1>3. front[1] = p /\ front[2] = "(" /\ front[3] = Quote /\ back[1] = Quote /\ back[2] = ")"
  OBVIOUS
<1> HIDE DEF front, back, n
<1>4. /\ m \in Seq(Characters) /\ Len(m) = 3 + n
      /\ \A i \in 1 .. 3 : m[i] = front[i]
      /\ \A i \in 1 .. n : m[3 + i] = e[i]
  <2>1. /\ front \o e \in Seq(Characters) /\ Len(front \o e) = Len(front) + Len(e)
        /\ \A i \in 1 .. Len(front) : (front \o e)[i] = front[i]
        /\ \A i \in 1 .. Len(e) : (front \o e)[Len(front) + i] = e[i]
    <3>1. front \in Seq(Characters) /\ e \in Seq(Characters)
      BY <1>2
    <3> QED BY ONLY <3>1, ConcatAt
  <2> QED BY <1>1, <1>2, <2>1
<1> HIDE DEF m
<1>5. /\ d \in Seq(Characters) /\ Len(d) = (3 + n) + 2
      /\ \A i \in 1 .. 3 + n : d[i] = m[i]
      /\ \A i \in 1 .. 2 : d[(3 + n) + i] = back[i]
  <2>1. /\ m \o back \in Seq(Characters) /\ Len(m \o back) = Len(m) + Len(back)
        /\ \A i \in 1 .. Len(m) : (m \o back)[i] = m[i]
        /\ \A i \in 1 .. Len(back) : (m \o back)[Len(m) + i] = back[i]
    <3>1. m \in Seq(Characters) /\ back \in Seq(Characters)
      BY <1>2, <1>4
    <3> QED BY ONLY <3>1, ConcatAt
  <2> QED BY <1>1, <1>2, <1>4, <2>1
<1> HIDE DEF d
<1>6. d[1] = p /\ d[2] = "(" /\ d[3] = Quote
  <2>1. 1 \in 1 .. 3 /\ 2 \in 1 .. 3 /\ 3 \in 1 .. 3 /\ \A i \in 1 .. 3 : i \in 1 .. 3 + n
    BY <1>1
  <2> QED BY <1>3, <1>4, <1>5, <2>1
<1>7. d[n + 4] = Quote /\ d[n + 5] = ")"
  <2>1. 1 \in 1 .. 2 /\ 2 \in 1 .. 2 /\ (3 + n) + 1 = n + 4 /\ (3 + n) + 2 = n + 5
    BY <1>1
  <2> QED BY <1>3, <1>5, <2>1
<1>8. ASSUME NEW i \in 1 .. n
      PROVE  d[i + 3] = e[i]
  <2>1. 3 + i \in 1 .. 3 + n /\ 3 + i = i + 3
    BY <1>1
  <2> QED BY <1>4, <1>5, <2>1
<1>9. (3 + n) + 2 = n + 5
  BY <1>1
<1> QED BY <1>1, <1>5, <1>6, <1>7, <1>8, <1>9 DEF d, m, front, back

LEMMA QuotedIsRead ==
  ASSUME NEW q \in Seq(Characters), NEW a \in Seq(Characters),
         Len(q) = Len(EscapedText(a)) + 2, q[1] = Quote, q[Len(q)] = Quote,
         \A i \in 1 .. Len(EscapedText(a)) : q[i + 1] = EscapedText(a)[i],
         Len(a) <= MaxExpression
  PROVE  ParseQuotedArgument(q) = [valid |-> TRUE, argument |-> a]
<1> DEFINE e == EscapedText(a)
           n == Len(e)
           inner == SubSeq(q, 2, Len(q) - 1)
<1>1. e \in Seq(Characters) /\ Unescaped(e) = Means(a)
  BY TextIsRead
<1>2. n \in Nat /\ Len(q) = n + 2 /\ n + 1 = Len(q) - 1 /\ \A i \in 1 .. n : q[i + 1] = e[i]
  BY <1>1
<1> HIDE DEF e
<1>3. inner = e
  <2>1. /\ SubSeq(q, 2, n + 1) \in Seq(Characters)
        /\ 2 <= n + 1 => Len(SubSeq(q, 2, n + 1)) = (n + 1) - 2 + 1
        /\ n + 1 < 2 => SubSeq(q, 2, n + 1) = <<>>
        /\ \A k \in Nat : 1 <= k /\ k <= (n + 1) - 2 + 1 =>
             SubSeq(q, 2, n + 1)[k] = q[2 + k - 1]
    <3>1. 2 \in Int /\ n + 1 \in Int /\ 1 <= 2 /\ n + 1 <= Len(q)
      BY <1>2
    <3> HIDE DEF n
    <3> QED BY ONLY q \in Seq(Characters), <3>1, PartOf
  <2>2. inner = SubSeq(q, 2, n + 1)
    BY <1>2
  <2> HIDE DEF inner
  <2>3. CASE n = 0
    <3>1. inner = <<>>
      BY <2>1, <2>2, <2>3
    <3>2. e = <<>>
      BY <1>1, <2>3, EmptySeq
    <3> QED BY <3>1, <3>2
  <2>4. CASE n # 0
    <3>1. 2 <= n + 1 /\ (n + 1) - 2 + 1 = n
      BY <1>2, <2>4
    <3>2. inner \in Seq(Characters) /\ Len(inner) = n
      BY <2>1, <2>2, <3>1
    <3>3. ASSUME NEW k \in 1 .. n
          PROVE  inner[k] = e[k]
      <4>1. k \in Nat /\ 1 <= k /\ k <= n /\ 2 + k - 1 = k + 1
        BY <1>2
      <4> HIDE DEF n
      <4> QED BY <1>2, <2>1, <2>2, <3>1, <4>1
    <3> QED BY <1>1, <3>2, <3>3, SeqEqual
  <2> QED BY <2>3, <2>4
<1>4. Len(q) >= 2
  BY <1>2
<1>5. Unescaped(SubSeq(q, 2, Len(q) - 1)) = Means(a)
  BY <1>1, <1>3
<1>6. /\ Means(a).valid /\ ~Means(a).escaping /\ Means(a).argument = a
  BY DEF Means
<1> HIDE DEF inner, n
<1> QED BY <1>4, <1>5, <1>6 DEF ParseQuotedArgument

\* Any argument, under any predicate, has a text that means it.
LEMMA DisplayIsParsed ==
  ASSUME NEW p \in Predicates, NEW a \in Seq(Characters), NEW expression,
         expression.predicate = p, expression.argument = a,
         Len(Display(expression)) <= MaxExpression
  PROVE  /\ Parse(Display(expression)) = [valid |-> TRUE, predicate |-> p, argument |-> a]
         /\ Trimmed(Display(expression)) = Display(expression)
<1> DEFINE d == Display(expression)
           e == EscapedText(a)
           n == Len(e)
<1>1. e \in Seq(Characters) /\ Len(a) <= n
  BY TextIsRead
<1>2. d = <<p, "(", Quote>> \o e \o <<Quote, ")">>
  BY DEF Display
<1>3. /\ d \in Seq(Characters) /\ Len(d) = n + 5 /\ n \in Nat
      /\ d[1] = p /\ d[2] = "(" /\ d[3] = Quote /\ d[n + 4] = Quote /\ d[n + 5] = ")"
      /\ \A i \in 1 .. n : d[i + 3] = e[i]
  <2> HIDE DEF e
  <2> QED BY <1>1, <1>2, TextOfExpression
<1>4. Len(d) <= MaxExpression /\ MaxExpression \in Nat
  BY ExpressionsAssumption
<1> HIDE DEF d, n
<1>5. Trimmed(d) = d /\ d # <<>>
  <2>1. d # <<>>
    BY <1>3, EmptySeq
  <2>2. d[1] \notin Whitespace /\ d[Len(d)] \notin Whitespace
    BY <1>3, CharactersAre DEF Whitespace
  <2> QED BY <1>3, <2>1, <2>2, NothingToTrim
<1> DEFINE opening == {i \in DOMAIN d : d[i] = "("}
           open == CHOOSE i \in opening : \A j \in opening : i <= j
<1>6. open = 2 /\ opening # {}
  <2>1. DOMAIN d = 1 .. n + 5
    BY <1>3, SeqFacts
  <2>2. 1 \notin opening
    BY <1>3, CharactersAre
  <2>3. 2 \in opening
    BY <1>3, <2>1
  <2>4. opening \subseteq 1 .. n + 5
    BY <2>1
  <2> HIDE DEF opening
  <2>5. \A j \in opening : 2 <= j
    BY <1>3, <2>2, <2>4
  <2>6. open \in opening /\ \A j \in opening : open <= j
    BY <2>3, <2>5
  <2> HIDE DEF open
  <2>7. open <= 2 /\ 2 <= open /\ open \in Int
    BY <1>3, <2>3, <2>4, <2>5, <2>6
  <2> QED BY <2>3, <2>7
<1>7. Trimmed(SubSeq(d, 1, open - 1)) = <<p>>
  <2>1. open - 1 = 1 /\ 1 <= Len(d) /\ 1 \in Int /\ 1 <= 1
    BY <1>3, <1>6
  <2>2. /\ SubSeq(d, 1, 1) \in Seq(Characters)
        /\ 1 <= 1 => Len(SubSeq(d, 1, 1)) = 1 - 1 + 1
        /\ \A k \in Nat : 1 <= k /\ k <= 1 - 1 + 1 => SubSeq(d, 1, 1)[k] = d[1 + k - 1]
    BY <1>3, <2>1, PartOf
  <2>3. Len(SubSeq(d, 1, 1)) = 1 /\ SubSeq(d, 1, 1)[1] = p
    BY <1>3, <2>2
  <2>4. p \in Characters /\ p \notin Whitespace
    BY CharactersAre DEF Whitespace
  <2>5. SubSeq(d, 1, 1) = <<p>>
    <3>1. <<p>> \in Seq(Characters) /\ Len(<<p>>) = 1
      BY <2>4, ShortSequences
    <3>2. \A k \in 1 .. 1 : SubSeq(d, 1, 1)[k] = <<p>>[k]
      BY <2>3
    <3> QED BY <2>2, <2>3, <3>1, <3>2, SeqEqual
  <2>6. Trimmed(<<p>>) = <<p>>
    <3>1. <<p>> \in Seq(Characters) /\ Len(<<p>>) = 1 /\ <<p>>[1] = p /\ <<p>> # <<>>
      BY <2>4, ShortSequences
    <3> QED BY <2>4, <3>1, NothingToTrim
  <2> QED BY <2>1, <2>5, <2>6
<1> DEFINE q == SubSeq(d, open + 1, Len(d) - 1)
<1>8. Trimmed(q) = q /\ ParseQuotedArgument(q) = [valid |-> TRUE, argument |-> a]
  <2>1. open + 1 = 3 /\ Len(d) - 1 = n + 4
    <3> HIDE DEF open
    <3> QED BY <1>3, <1>6
  <2>2. /\ SubSeq(d, 3, n + 4) \in Seq(Characters)
        /\ 3 <= n + 4 => Len(SubSeq(d, 3, n + 4)) = (n + 4) - 3 + 1
        /\ \A k \in Nat : 1 <= k /\ k <= (n + 4) - 3 + 1 => SubSeq(d, 3, n + 4)[k] = d[3 + k - 1]
    <3>1. d \in Seq(Characters) /\ 3 \in Int /\ n + 4 \in Int /\ 1 <= 3 /\ n + 4 <= Len(d)
      BY <1>3
    <3> QED BY ONLY <3>1, PartOf
  <2>3. q = SubSeq(d, 3, n + 4)
    BY <2>1
  <2> HIDE DEF q, open
  <2>4. 3 <= n + 4 /\ (n + 4) - 3 + 1 = n + 2
    BY <1>3
  <2>5. q \in Seq(Characters) /\ Len(q) = n + 2
    BY <2>2, <2>3, <2>4
  <2>6. \A k \in Nat : 1 <= k /\ k <= n + 2 => q[k] = d[k + 2]
    <3> SUFFICES ASSUME NEW k \in Nat, 1 <= k, k <= n + 2
                 PROVE  q[k] = d[k + 2]
      OBVIOUS
    <3>1. 3 + k - 1 = k + 2
      OBVIOUS
    <3> QED BY <2>2, <2>3, <2>4, <3>1
  <2>7. q[1] = Quote /\ q[n + 2] = Quote
    <3>1. 1 \in Nat /\ 1 <= 1 /\ 1 <= n + 2 /\ n + 2 \in Nat /\ n + 2 <= n + 2
          /\ 1 + 2 = 3 /\ (n + 2) + 2 = n + 4
      BY <1>3
    <3> QED BY <1>3, <2>6, <3>1
  <2>8. \A i \in 1 .. n : q[i + 1] = e[i]
    <3> SUFFICES ASSUME NEW i \in 1 .. n
                 PROVE  q[i + 1] = e[i]
      OBVIOUS
    <3>1. i + 1 \in Nat /\ 1 <= i + 1 /\ i + 1 <= n + 2 /\ (i + 1) + 2 = i + 3
      BY <1>3
    <3> HIDE DEF e
    <3> QED BY <1>3, <2>6, <3>1
  <2>9. Trimmed(q) = q
    <3>1. q # <<>>
      BY <1>3, <2>5, EmptySeq
    <3>2. q[1] \notin Whitespace /\ q[Len(q)] \notin Whitespace
      BY <2>5, <2>7, CharactersAre
    <3> QED BY <2>5, <3>1, <3>2, NothingToTrim
  <2>10. Len(a) <= MaxExpression
    <3>1. Len(a) \in Nat
      OBVIOUS
    <3> QED BY <1>1, <1>3, <1>4, <3>1
  <2>11. ParseQuotedArgument(q) = [valid |-> TRUE, argument |-> a]
    <3>1. Len(q) = Len(EscapedText(a)) + 2 /\ q[Len(q)] = Quote /\ q[1] = Quote
      BY <2>5, <2>7 DEF n
    <3>2. \A i \in 1 .. Len(EscapedText(a)) : q[i + 1] = EscapedText(a)[i]
      BY <2>8 DEF n
    <3> QED BY <2>5, <2>10, <3>1, <3>2, QuotedIsRead
  <2> QED BY <2>9, <2>11
<1> HIDE DEF q, open, opening
<1>9. d[Len(d)] = ")"
  BY <1>3
<1>10. Parse(d) = [valid |-> TRUE, predicate |-> p, argument |-> a]
  <2>1. [valid |-> TRUE, argument |-> a].valid /\ [valid |-> TRUE, argument |-> a].argument = a
    OBVIOUS
  <2>2. <<p>> \in {<<r>> : r \in Predicates} /\ <<p>>[1] = p
    OBVIOUS
  <2> DEFINE name == Trimmed(SubSeq(d, 1, open - 1))
             argument == ParseQuotedArgument(Trimmed(q))
  <2>3. Parse(d) =
          IF /\ d # <<>> /\ Len(d) <= MaxExpression
             /\ opening # {} /\ d[Len(d)] = ")"
             /\ name \in {<<r>> : r \in Predicates}
             /\ argument.valid
          THEN [valid |-> TRUE, predicate |-> name[1], argument |-> argument.argument]
          ELSE Invalid
    BY <1>5 DEF Parse, q, open, opening
  <2>4. name = <<p>> /\ argument = [valid |-> TRUE, argument |-> a]
    BY <1>7, <1>8
  <2> HIDE DEF name, argument
  <2> QED BY <1>4, <1>5, <1>6, <1>9, <2>1, <2>2, <2>3, <2>4
<1> QED BY <1>5, <1>10 DEF d

\* What was accepted had room for the text it is stored as.
LEMMA AcceptedHasRoom ==
  ASSUME NEW t \in Seq(Characters), Parse(t).valid
  PROVE  /\ Parse(t).predicate \in Predicates /\ Parse(t).argument \in Seq(Characters)
         /\ Parse(t) = [valid |-> TRUE, predicate |-> Parse(t).predicate,
                        argument |-> Parse(t).argument]
         /\ Len(Display(Parse(t))) <= Len(Trimmed(t)) /\ Len(Trimmed(t)) <= MaxExpression
<1> DEFINE value    == Trimmed(t)
           opening  == {i \in DOMAIN value : value[i] = "("}
           open     == CHOOSE i \in opening : \A j \in opening : i <= j
           before   == SubSeq(value, 1, open - 1)
           name     == Trimmed(before)
           within   == SubSeq(value, open + 1, Len(value) - 1)
           q        == Trimmed(within)
           argument == ParseQuotedArgument(q)
<1>1. value \in Seq(Characters) /\ Len(value) \in Nat
  BY TrimmedFacts
<1>2. ~Invalid.valid
  BY DEF Invalid
<1>3. Parse(t) =
        IF /\ value # <<>> /\ Len(value) <= MaxExpression
           /\ opening # {} /\ value[Len(value)] = ")"
           /\ name \in {<<r>> : r \in Predicates}
           /\ argument.valid
        THEN [valid |-> TRUE, predicate |-> name[1], argument |-> argument.argument]
        ELSE Invalid
  BY DEF Parse
<1> HIDE DEF value, argument
<1>4. /\ Len(value) <= MaxExpression /\ opening # {}
      /\ name \in {<<r>> : r \in Predicates} /\ argument.valid
      /\ Parse(t) = [valid |-> TRUE, predicate |-> name[1], argument |-> argument.argument]
  <2> HIDE DEF opening, name
  <2> QED BY <1>2, <1>3
<1>5. open \in 1 .. Len(value)
  <2>1. opening \subseteq 1 .. Len(value) /\ opening \in SUBSET Nat
    BY <1>1, SeqFacts
  <2> HIDE DEF opening
  <2>2. \E i \in opening : \A j \in opening : i <= j
    BY <1>4, <2>1, LeastElement
  <2> QED BY <2>1, <2>2
<1> HIDE DEF opening, open
<1>6. PICK p \in Predicates : name = <<p>>
  <2> HIDE DEF name
  <2> QED BY <1>4
<1>7. 2 <= open
  <2>1. open - 1 \in Int /\ open - 1 <= Len(value) /\ 1 \in Int /\ 1 <= 1
    BY <1>1, <1>5
  <2>2. /\ before \in Seq(Characters)
        /\ open - 1 < 1 => before = <<>>
    <3>1. value \in Seq(Characters)
      BY <1>1
    <3> QED BY ONLY <2>1, <3>1, PartOf
  <2>3. CASE before = <<>>
    <3>1. <<>> \in Seq(Characters) /\ Len(<<>>) = 0
      BY EmptySeq
    <3>2. Len(name) <= 0
      BY <2>3, <3>1, TrimmedFacts
    <3> HIDE DEF name
    <3>3. Len(name) = 1
      <4>1. p \in Characters
        BY CharactersAre
      <4> QED BY <1>6, <4>1, ShortSequences
    <3> QED BY <3>2, <3>3
  <2>4. CASE before # <<>>
    BY <1>5, <2>2, <2>4
  <2> QED BY <2>3, <2>4
<1>8. within \in Seq(Characters) /\ (within # <<>> => Len(within) = Len(value) - 1 - open)
  <2>1. open + 1 \in Int /\ Len(value) - 1 \in Int /\ 1 <= open + 1 /\ Len(value) - 1 <= Len(value)
    BY <1>1, <1>5
  <2>2. /\ within \in Seq(Characters)
        /\ open + 1 <= Len(value) - 1 => Len(within) = (Len(value) - 1) - (open + 1) + 1
        /\ Len(value) - 1 < open + 1 => within = <<>>
    <3>1. value \in Seq(Characters)
      BY <1>1
    <3> QED BY ONLY <2>1, <3>1, PartOf
  <2> HIDE DEF within
  <2>3. (Len(value) - 1) - (open + 1) + 1 = Len(value) - 1 - open
    BY <1>1, <1>5
  <2>4. open + 1 <= Len(value) - 1 \/ Len(value) - 1 < open + 1
    BY <2>1
  <2> QED BY <2>2, <2>3, <2>4
<1> HIDE DEF within, name, before
<1>9. q \in Seq(Characters) /\ Len(q) <= Len(within)
  BY <1>8, TrimmedFacts
<1> HIDE DEF q
<1> DEFINE inner == SubSeq(q, 2, Len(q) - 1)
           read  == Unescaped(inner)
<1>10. /\ Len(q) >= 2 /\ read.valid /\ ~read.escaping
       /\ argument.argument = read.argument
  <2>1. argument =
          IF /\ Len(q) >= 2 /\ q[1] = Quote /\ q[Len(q)] = Quote
             /\ read.valid /\ ~read.escaping /\ Len(read.argument) <= MaxExpression
          THEN [valid |-> TRUE, argument |-> read.argument]
          ELSE Invalid
    BY DEF ParseQuotedArgument, argument
  <2> HIDE DEF read
  <2> QED BY <1>2, <1>4, <2>1
<1>11. inner \in Seq(Characters) /\ Len(inner) = Len(q) - 2
  <2>1. Len(q) \in Nat
    BY <1>9
  <2>2. q \in Seq(Characters) /\ 2 \in Int /\ Len(q) - 1 \in Int /\ 1 <= 2 /\ Len(q) - 1 <= Len(q)
    BY <1>9, <2>1
  <2>3. /\ inner \in Seq(Characters)
        /\ 2 <= Len(q) - 1 => Len(inner) = (Len(q) - 1) - 2 + 1
        /\ Len(q) - 1 < 2 => inner = <<>>
    BY ONLY <2>2, PartOf
  <2> HIDE DEF inner
  <2>4. CASE 2 <= Len(q) - 1
    BY <2>1, <2>3, <2>4
  <2>5. CASE ~(2 <= Len(q) - 1)
    <3> HIDE DEF read
    <3>1. Len(q) = 2 /\ Len(q) - 1 < 2
      <4> DEFINE x == Len(q)
      <4>1. x \in Nat /\ x >= 2 /\ ~(2 <= x - 1)
        BY <1>10, <2>1, <2>5
      <4> HIDE DEF x
      <4>2. x = 2 /\ x - 1 < 2
        BY <4>1
      <4> QED BY <4>2 DEF x
    <3> QED BY <2>3, <3>1, EmptySeq
  <2> QED BY <2>4, <2>5
<1> HIDE DEF inner
<1>12. read.argument \in Seq(Characters) /\ EscapedText(read.argument) = inner
  <2>1. read.argument \in Seq(Characters) /\ TextRead(read) = inner
    BY <1>10, <1>11, ReadIsText
  <2> HIDE DEF read
  <2> QED BY <1>10, <2>1 DEF TextRead
<1> HIDE DEF read
<1>13. Parse(t) = [valid |-> TRUE, predicate |-> p, argument |-> read.argument]
  <2>1. name[1] = p
    BY <1>6
  <2> QED BY <1>4, <1>10, <2>1
<1>14. Len(Display(Parse(t))) = Len(inner) + 5
  <2>1. Display(Parse(t)) = <<p, "(", Quote>> \o inner \o <<Quote, ")">>
    BY <1>12, <1>13 DEF Display
  <2> QED BY <1>11, <2>1, TextOfExpression
<1>15. Len(inner) + 5 <= Len(value)
  <2>1. Len(q) \in Nat /\ Len(within) \in Nat
    BY <1>8, <1>9
  <2>2. within # <<>>
    <3>1. Len(within) # 0
      BY <1>9, <1>10, <2>1
    <3> QED BY <3>1, EmptySeq
  <2>3. Len(within) = Len(value) - 1 - open
    BY <1>8, <2>2
  <2> DEFINE v == Len(value)
             x == Len(q)
             y == Len(within)
             z == Len(inner)
  <2>4. v \in Nat /\ x \in Nat /\ y \in Nat /\ open \in Int /\ 2 <= open
        /\ y = v - 1 - open /\ x <= y /\ z = x - 2
    BY <1>1, <1>5, <1>7, <1>9, <1>11, <2>1, <2>3
  <2> HIDE DEF v, x, y, z
  <2>5. z + 5 <= v
    BY <2>4
  <2> QED BY <2>5 DEF v, z
<1>16. Parse(t).predicate = p /\ Parse(t).argument = read.argument
  BY <1>13
<1> QED BY <1>4, <1>12, <1>13, <1>14, <1>15, <1>16 DEF value

-----------------------------------------------------------------------------
\* An expression is stored as a text that is read back as the same expression,
\* and there is such a text for every argument: for all predicates, characters
\* and limits (selector_expression.rs: parse and Display are inverse).
THEOREM ExpressionsAreReadBack == TypingSpec => []ExpressionsReadBack
<1> DEFINE Typed == text \in Seq(Characters)
<1>1. TypingInit => Typed
  BY ExpressionsAssumption DEF TypingInit
<1>2. Typed /\ [TypingNext]_typing => Typed'
  <2> SUFFICES ASSUME Typed, [TypingNext]_typing
               PROVE  Typed'
    OBVIOUS
  <2>1. ASSUME NEW c \in Characters, Type(c)
        PROVE  Typed'
    BY <2>1, AppendFacts DEF Type
  <2>2. CASE UNCHANGED typing
    BY <2>2 DEF typing
  <2> QED BY <2>1, <2>2 DEF TypingNext
<1>3. Typed => ExpressionsReadBack
  <2> SUFFICES ASSUME Typed
               PROVE  ExpressionsReadBack
    OBVIOUS
  <2> DEFINE accepted == Parse(text)
             shown    == Display(accepted)
             meant(p) == [valid |-> TRUE, predicate |-> p, argument |-> text]
  <2>1. ASSUME accepted.valid
        PROVE  /\ Parse(shown) = accepted
               /\ Trimmed(shown) = shown /\ Len(shown) <= Len(Trimmed(text))
    <3>1. /\ accepted.predicate \in Predicates /\ accepted.argument \in Seq(Characters)
          /\ accepted = [valid |-> TRUE, predicate |-> accepted.predicate,
                         argument |-> accepted.argument]
          /\ Len(shown) <= Len(Trimmed(text)) /\ Len(Trimmed(text)) <= MaxExpression
      BY <2>1, AcceptedHasRoom
    <3>2. Len(shown) <= MaxExpression
      <4>1. Len(Trimmed(text)) \in Nat /\ MaxExpression \in Nat
        <5>1. Trimmed(text) \in Seq(Characters)
          BY TrimmedFacts
        <5> QED BY <5>1, SeqFacts, ExpressionsAssumption
      <4>2. Len(shown) \in Nat
        <5>1. EscapedText(accepted.argument) \in Seq(Characters)
          BY <3>1, TextIsRead
        <5>2. shown \in Seq(Characters)
          BY <3>1, <5>1, TextOfExpression DEF Display
        <5> QED BY <5>2
      <4> HIDE DEF shown
      <4> QED BY <3>1, <4>1, <4>2
    <3> HIDE DEF accepted
    <3>3. /\ Parse(shown) = [valid |-> TRUE, predicate |-> accepted.predicate,
                              argument |-> accepted.argument]
          /\ Trimmed(shown) = shown
      BY <3>1, <3>2, DisplayIsParsed
    <3> QED BY <3>1, <3>3
  <2>2. ASSUME NEW p \in Predicates, Len(Display(meant(p))) <= MaxExpression
        PROVE  Parse(Display(meant(p))) = meant(p)
    <3>1. meant(p).predicate = p /\ meant(p).argument = text
      OBVIOUS
    <3> QED BY <2>2, <3>1, DisplayIsParsed
  <2> QED BY <2>1, <2>2 DEF ExpressionsReadBack
<1> QED BY <1>1, <1>2, <1>3, PTL DEF TypingSpec
====
