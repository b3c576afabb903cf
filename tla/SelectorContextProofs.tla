------------------------ MODULE SelectorContextProofs -----------------------
(***************************************************************************)
(* Proofs about SelectorContext, for all texts, kinds, values and limits,  *)
(* and however many insertions.                                            *)
(***************************************************************************)
EXTENDS SelectorMatching, FiniteSetTheorems, WellFoundedInduction, TLAPS

USE NamesAssumption, ContextAssumption

-----------------------------------------------------------------------------
(* What an insertion keeps, whether it is accepted or not.                 *)

Entries == [kind : Texts, values : Seq(Texts)]

WellTyped(c) ==
  c \in [entries : Seq(Entries), kind_index : [BuiltInKinds -> Nat]]

OneEntryPerKind(c) ==
  \A i, j \in DOMAIN c.entries : SameKind(c.entries[i].kind, c.entries[j].kind) => i = j

IndexPoints(c) ==
  \A k \in BuiltInKinds :
    IF \E i \in DOMAIN c.entries : Classification(c.entries[i].kind) = k
    THEN /\ c.kind_index[k] \in DOMAIN c.entries
         /\ Classification(c.entries[c.kind_index[k]].kind) = k
    ELSE c.kind_index[k] = 0

ContextOK(c) == WellTyped(c) /\ OneEntryPerKind(c) /\ IndexPoints(c)

LEMMA SameKindIsEquivalence ==
  /\ \A k : SameKind(k, k)
  /\ \A k, l : SameKind(k, l) => SameKind(l, k)
  /\ \A k, l, m : SameKind(k, l) /\ SameKind(l, m) => SameKind(k, m)
  BY DEF SameKind

LEMMA AppendFacts ==
  ASSUME NEW S, NEW s \in Seq(S), NEW e \in S
  PROVE  /\ Append(s, e) \in Seq(S)
         /\ Len(s) + 1 \in Nat /\ Len(s) + 1 \notin DOMAIN s
         /\ DOMAIN Append(s, e) = DOMAIN s \cup {Len(s) + 1}
         /\ \A j \in DOMAIN s : Append(s, e)[j] = s[j]
         /\ Append(s, e)[Len(s) + 1] = e
  <1>1. /\ Append(s, e) \in Seq(S) /\ Len(Append(s, e)) = Len(s) + 1
        /\ Len(s) \in Nat /\ DOMAIN s = 1 .. Len(s)
    OBVIOUS
  <1>2. DOMAIN Append(s, e) = 1 .. Len(s) + 1
    BY <1>1
  <1>3. 1 .. Len(s) + 1 = 1 .. Len(s) \cup {Len(s) + 1}
    BY <1>1
  <1> QED
    BY <1>1, <1>2, <1>3

LEMMA EmptyContextOK == ContextOK(EmptyContext)
  BY DEF ContextOK, WellTyped, OneEntryPerKind, IndexPoints, EmptyContext, Entries

\* There is one position of a kind, so that `find` cannot but find it.
LEMMA PositionOfKind ==
  ASSUME NEW c, ContextOK(c), NEW kind, HasKind(c, kind)
  PROVE  /\ Position(c, kind) \in DOMAIN c.entries
         /\ Positions(c, kind) = {Position(c, kind)}
         /\ SameKind(c.entries[Position(c, kind)].kind, kind)
  <1> DEFINE P == Positions(c, kind)
  <1>1. P \subseteq DOMAIN c.entries /\ DOMAIN c.entries = 1 .. Len(c.entries)
    BY DEF ContextOK, WellTyped, Positions
  <1>2. PICK i \in P : TRUE
    BY DEF HasKind
  <1>3. \A j \in P : j = i
    BY <1>1, SameKindIsEquivalence DEF Positions, ContextOK, OneEntryPerKind
  <1>4. i <= i
    BY <1>1
  <1>5. \E k \in P : \A j \in P : k <= j
    BY <1>3, <1>4
  <1>6. Position(c, kind) \in P
    BY <1>5 DEF Position
  <1> QED
    BY <1>1, <1>3, <1>6 DEF Positions

-----------------------------------------------------------------------------
(* The two ways in which a context grows.                                  *)

LEMMA WithValueOK ==
  ASSUME NEW c, ContextOK(c), NEW i \in DOMAIN c.entries, NEW value \in Texts
  PROVE  LET d == WithValue(c, i, value)
         IN  /\ ContextOK(d)
             /\ DOMAIN d.entries = DOMAIN c.entries
             /\ \A j \in DOMAIN c.entries :
                  /\ d.entries[j].kind = c.entries[j].kind
                  /\ Listed(d, j) = Listed(c, j) \cup IF j = i THEN {value} ELSE {}
  <1> DEFINE d == WithValue(c, i, value)
  <1>1. CASE value \in Listed(c, i)
    BY <1>1 DEF WithValue
  <1>2. CASE value \notin Listed(c, i)
    <2> DEFINE old == c.entries[i].values
    <2>0. c.entries \in Seq(Entries)
      BY DEF ContextOK, WellTyped
    <2>1. c.entries \in Seq(Entries) /\ c.entries[i] \in Entries /\ old \in Seq(Texts)
      <3>1. c.entries[i] \in Entries
        BY <2>0
      <3>2. c.entries[i].values \in Seq(Texts)
        BY <3>1 DEF Entries
      <3> QED
        BY <2>0, <3>1, <3>2
    <2>2. /\ Append(old, value) \in Seq(Texts)
          /\ DOMAIN Append(old, value) = DOMAIN old \cup {Len(old) + 1}
          /\ \A j \in DOMAIN old : Append(old, value)[j] = old[j]
          /\ Append(old, value)[Len(old) + 1] = value
      BY <2>1, AppendFacts
    <2>3. /\ d = [c EXCEPT !.entries = [c.entries EXCEPT ![i].values = Append(old, value)]]
          /\ d.entries = [c.entries EXCEPT ![i] = [c.entries[i] EXCEPT !.values = Append(old, value)]]
          /\ d.kind_index = c.kind_index
      BY <1>2, <2>1 DEF WithValue, ContextOK, WellTyped
    <2>4. [c.entries[i] EXCEPT !.values = Append(old, value)] \in Entries
      BY <2>1, <2>2 DEF Entries
    <2>5. d.entries \in Seq(Entries) /\ DOMAIN d.entries = DOMAIN c.entries
      BY <2>1, <2>3, <2>4
    <2>6. WellTyped(d)
      BY <2>3, <2>5 DEF WellTyped, ContextOK
    <2>7. \A j \in DOMAIN c.entries : d.entries[j].kind = c.entries[j].kind
      BY <2>1, <2>3 DEF Entries
    <2>8. OneEntryPerKind(d) /\ IndexPoints(d)
      BY <2>3, <2>5, <2>7 DEF OneEntryPerKind, IndexPoints, ContextOK
    <2>9. ASSUME NEW j \in DOMAIN c.entries
          PROVE  Listed(d, j) = Listed(c, j) \cup IF j = i THEN {value} ELSE {}
      <3>1. CASE j # i
        <4>1. d.entries[j] = c.entries[j]
          BY <3>1, <2>1, <2>3
        <4> HIDE DEF d
        <4> QED
          BY <3>1, <4>1 DEF Listed
      <3>2. CASE j = i
        <4>1. d.entries[i].values = Append(old, value)
          BY <2>1, <2>3 DEF Entries
        <4>2. Listed(d, i) = {Append(old, value)[m] : m \in DOMAIN Append(old, value)}
          BY <4>1 DEF Listed
        <4>3. Listed(c, i) = {old[m] : m \in DOMAIN old}
          BY DEF Listed
        <4> QED
          BY <3>2, <4>2, <4>3, <2>2
      <3> QED
        BY <3>1, <3>2
    <2> QED
      BY <2>5, <2>6, <2>7, <2>8, <2>9 DEF ContextOK
  <1> QED
    BY <1>1, <1>2

\* d is c with one more entry, of that kind and with that value.
Grown(c, d, kind, value) ==
  /\ Len(c.entries) + 1 \notin DOMAIN c.entries
  /\ DOMAIN d.entries = DOMAIN c.entries \cup {Len(c.entries) + 1}
  /\ d.entries[Len(c.entries) + 1].kind = kind
  /\ Listed(d, Len(c.entries) + 1) = {value}
  /\ \A j \in DOMAIN c.entries : d.entries[j] = c.entries[j]

LEMMA WithKindOK ==
  ASSUME NEW c, ContextOK(c), NEW kind \in Texts, NEW value \in Texts, ~HasKind(c, kind),
         NEW d, d = WithKind(c, kind, value)
  PROVE  ContextOK(d) /\ Grown(c, d, kind, value)
  <1> DEFINE n == Len(c.entries) + 1
             entry == [kind |-> kind, values |-> <<value>>]
  <1>1. c.entries \in Seq(Entries) /\ entry \in Entries
    BY DEF ContextOK, WellTyped, Entries
  <1>2. /\ d.entries = Append(c.entries, entry)
        /\ \A k \in BuiltInKinds :
             d.kind_index[k] = IF k = Classification(kind) THEN n ELSE c.kind_index[k]
        /\ d = [entries |-> d.entries, kind_index |-> d.kind_index]
        /\ d.kind_index = [k \in BuiltInKinds |-> d.kind_index[k]]
    BY DEF WithKind
  <1>3. /\ d.entries \in Seq(Entries)
        /\ n \in Nat /\ n \notin DOMAIN c.entries
        /\ DOMAIN d.entries = DOMAIN c.entries \cup {n}
        /\ d.entries[n] = entry
        /\ \A j \in DOMAIN c.entries : d.entries[j] = c.entries[j]
    BY <1>1, <1>2, AppendFacts
  <1>4. WellTyped(d)
    <2>1. c.kind_index \in [BuiltInKinds -> Nat]
      BY DEF WellTyped, ContextOK
    <2>2. \A k \in BuiltInKinds : d.kind_index[k] \in Nat
      BY <1>2, <1>3, <2>1
    <2>3. d.kind_index \in [BuiltInKinds -> Nat]
      BY <1>2, <2>2
    <2> QED
      BY <1>2, <1>3, <2>3 DEF WellTyped
  <1>5. \A j \in DOMAIN c.entries : ~SameKind(c.entries[j].kind, kind)
    BY DEF HasKind, Positions
  <1>6. OneEntryPerKind(d)
    BY <1>3, <1>5, SameKindIsEquivalence DEF OneEntryPerKind, ContextOK
  <1>7. ASSUME NEW k \in BuiltInKinds
        PROVE  IF \E i \in DOMAIN d.entries : Classification(d.entries[i].kind) = k
               THEN /\ d.kind_index[k] \in DOMAIN d.entries
                    /\ Classification(d.entries[d.kind_index[k]].kind) = k
               ELSE d.kind_index[k] = 0
    <2>1. CASE k = Classification(kind)
      BY <2>1, <1>2, <1>3
    <2>2. CASE k # Classification(kind)
      <3>1. IF \E i \in DOMAIN c.entries : Classification(c.entries[i].kind) = k
            THEN /\ c.kind_index[k] \in DOMAIN c.entries
                 /\ Classification(c.entries[c.kind_index[k]].kind) = k
            ELSE c.kind_index[k] = 0
        BY DEF ContextOK, IndexPoints
      <3>2. d.kind_index[k] = c.kind_index[k]
        BY <1>2, <2>2
      <3>3. (\E i \in DOMAIN d.entries : Classification(d.entries[i].kind) = k)
            <=> (\E i \in DOMAIN c.entries : Classification(c.entries[i].kind) = k)
        BY <1>3, <2>2
      <3> QED
        BY <1>3, <3>1, <3>2, <3>3
    <2> QED
      BY <2>1, <2>2
  <1>8. Listed(d, n) = {value}
    BY <1>3 DEF Listed
  <1> QED
    BY <1>3, <1>4, <1>6, <1>7, <1>8 DEF ContextOK, IndexPoints, Grown

-----------------------------------------------------------------------------
(* Insertions.                                                             *)

\* What a context holds under a kind, whatever its entries are.
Held(c, kind) == UNION {Listed(c, i) : i \in Positions(c, kind)}

LEMMA InsertedOK ==
  ASSUME NEW c, ContextOK(c), NEW kind \in Texts, NEW value \in Texts
  PROVE  ContextOK(Inserted(c, kind, value))
  <1>1. Trim[kind] \in Texts /\ Trim[value] \in Texts
    OBVIOUS
  <1>2. CASE InsertResult(c, kind, value) # "Ok"
    BY <1>2 DEF Inserted
  <1>3. CASE InsertResult(c, kind, value) = "Ok" /\ HasKind(c, Trim[kind])
    BY <1>1, <1>3, PositionOfKind, WithValueOK DEF Inserted
  <1>4. CASE InsertResult(c, kind, value) = "Ok" /\ ~HasKind(c, Trim[kind])
    BY <1>1, <1>4, WithKindOK DEF Inserted
  <1> QED
    BY <1>2, <1>3, <1>4

LEMMA StartOK == ContextOK(EmptyContext) /\ ContextOK(AuthorityContext)
  BY EmptyContextOK, InsertedOK DEF AuthorityContext

LEMMA ContextOKMeaning == ContextOK(context) => IndexIsExact
  BY DEF ContextOK, OneEntryPerKind, IndexPoints, IndexIsExact

LEMMA KindsAndValuesAreTexts ==
  ASSUME NEW kind \in Kinds, NEW value \in Values
  PROVE  kind \in Texts /\ value \in Texts
  OBVIOUS

(***************************************************************************)
(* The list of entries and the index of SelectorContext (request.rs,       *)
(* insert) agree after any sequence of insertions, for all limits: one     *)
(* entry for each kind, however it is spelled, and every built-in kind     *)
(* that has an entry is found at its place.                                *)
(***************************************************************************)
THEOREM IndexAlwaysExact == Spec => []IndexIsExact
  <1>1. Init => ContextOK(context)
    BY StartOK DEF Init
  <1>2. ContextOK(context) /\ [Next]_vars => ContextOK(context)'
    <2> SUFFICES ASSUME ContextOK(context), [Next]_vars
                 PROVE  ContextOK(context')
      BY DEF ContextOK, WellTyped, OneEntryPerKind, IndexPoints
    <2>1. CASE UNCHANGED vars
      BY <2>1 DEF vars
    <2>2. ASSUME NEW kind \in Kinds, NEW value \in Values, Insert(kind, value)
          PROVE  ContextOK(context')
      BY <2>2, InsertedOK, KindsAndValuesAreTexts DEF Insert
    <2> QED
      BY <2>1, <2>2 DEF Next
  <1> QED
    BY <1>1, <1>2, ContextOKMeaning, PTL DEF Spec

-----------------------------------------------------------------------------
(* Readings.                                                               *)

LEMMA HeldInserted ==
  ASSUME NEW c, ContextOK(c), NEW kind \in Texts, NEW value \in Texts, NEW k
  PROVE  Held(Inserted(c, kind, value), k)
           = Held(c, k) \cup IF InsertResult(c, kind, value) = "Ok" /\ SameKind(Trim[kind], k)
                             THEN {Trim[value]} ELSE {}
  <1> DEFINE d == Inserted(c, kind, value)
  <1>1. Trim[kind] \in Texts /\ Trim[value] \in Texts
    OBVIOUS
  <1>2. CASE InsertResult(c, kind, value) # "Ok"
    BY <1>2 DEF Inserted
  <1>3. CASE InsertResult(c, kind, value) = "Ok" /\ HasKind(c, Trim[kind])
    <2> DEFINE p == Position(c, Trim[kind])
    <2>1. p \in DOMAIN c.entries /\ SameKind(c.entries[p].kind, Trim[kind])
      BY <1>1, <1>3, PositionOfKind
    <2>2. d = WithValue(c, p, Trim[value])
      BY <1>3 DEF Inserted
    <2>3. /\ DOMAIN d.entries = DOMAIN c.entries
          /\ \A j \in DOMAIN c.entries :
               /\ d.entries[j].kind = c.entries[j].kind
               /\ Listed(d, j) = Listed(c, j) \cup IF j = p THEN {Trim[value]} ELSE {}
      BY <1>1, <2>1, <2>2, WithValueOK
    <2> HIDE DEF d, p
    <2>4. Positions(d, k) = Positions(c, k)
      BY <2>3 DEF Positions
    <2>5. p \in Positions(c, k) <=> SameKind(Trim[kind], k)
      BY <2>1, SameKindIsEquivalence DEF Positions
    <2>6. Positions(c, k) \subseteq DOMAIN c.entries
      BY DEF Positions
    <2>7. Held(d, k) = Held(c, k) \cup IF p \in Positions(c, k) THEN {Trim[value]} ELSE {}
      <3>1. CASE p \in Positions(c, k)
        <4>1. \A v : v \in Held(d, k) <=> v \in Held(c, k) \/ v = Trim[value]
          BY <2>3, <2>4, <2>6, <3>1 DEF Held
        <4> QED
          BY <3>1, <4>1
      <3>2. CASE p \notin Positions(c, k)
        <4>1. \A j \in Positions(c, k) : Listed(d, j) = Listed(c, j)
          BY <2>3, <2>6, <3>2
        <4> QED
          BY <2>4, <3>2, <4>1 DEF Held
      <3> QED
        BY <3>1, <3>2
    <2> QED
      BY <1>3, <2>5, <2>7 DEF d
  <1>4. CASE InsertResult(c, kind, value) = "Ok" /\ ~HasKind(c, Trim[kind])
    <2> DEFINE n == Len(c.entries) + 1
    <2>1. d = WithKind(c, Trim[kind], Trim[value])
      BY <1>4 DEF Inserted
    <2>2. /\ n \notin DOMAIN c.entries /\ DOMAIN d.entries = DOMAIN c.entries \cup {n}
          /\ d.entries[n].kind = Trim[kind] /\ Listed(d, n) = {Trim[value]}
          /\ \A j \in DOMAIN c.entries : d.entries[j] = c.entries[j]
      <3>1. ~HasKind(c, Trim[kind])
        BY <1>4
      <3>2. Grown(c, d, Trim[kind], Trim[value])
        BY <1>1, <2>1, <3>1, WithKindOK
      <3> HIDE DEF d
      <3> QED
        BY <3>2 DEF Grown
    <2> HIDE DEF d, n
    <2>3. Positions(d, k) = Positions(c, k) \cup IF SameKind(Trim[kind], k) THEN {n} ELSE {}
      BY <2>2 DEF Positions
    <2>4. \A j \in Positions(c, k) : Listed(d, j) = Listed(c, j)
      BY <2>2 DEF Positions, Listed
    <2>5. CASE SameKind(Trim[kind], k)
      <3>1. Held(d, k) = Held(c, k) \cup Listed(d, n)
        BY <2>3, <2>4, <2>5 DEF Held
      <3> QED
        BY <1>4, <2>2, <2>5, <3>1 DEF d
    <2>6. CASE ~SameKind(Trim[kind], k)
      <3>1. Held(d, k) = Held(c, k)
        BY <2>3, <2>4, <2>6 DEF Held
      <3> QED
        BY <1>4, <2>6, <3>1 DEF d
    <2> QED
      BY <2>5, <2>6
  <1> QED
    BY <1>2, <1>3, <1>4

\* The index is a shortcut: what is read is what is held.
LEMMA ReadIsHeld ==
  ASSUME NEW c, ContextOK(c), NEW kind
  PROVE  ValuesForKind(c, kind) = Held(c, kind)
  <1>1. CASE HasKind(c, kind)
    <2>1. /\ Position(c, kind) \in DOMAIN c.entries
          /\ Positions(c, kind) = {Position(c, kind)}
          /\ SameKind(c.entries[Position(c, kind)].kind, kind)
      BY <1>1, PositionOfKind
    <2>2. Held(c, kind) = Listed(c, Position(c, kind))
      BY <2>1 DEF Held
    <2>3. ASSUME IndexSlot(c, kind) \in DOMAIN c.entries
          PROVE  IndexSlot(c, kind) = Position(c, kind)
      <3>1. IndexSlot(c, kind) \in Positions(c, kind)
        <4>1. Classification(kind) \in BuiltInKinds
          BY <2>3 DEF IndexSlot, ContextOK, WellTyped
        <4>2. Classification(c.entries[Position(c, kind)].kind) = Classification(kind)
          BY <2>1, <4>1 DEF SameKind
        <4>3. Classification(c.entries[IndexSlot(c, kind)].kind) = Classification(kind)
          BY <2>1, <4>1, <4>2 DEF IndexSlot, ContextOK, IndexPoints
        <4>4. SameKind(c.entries[IndexSlot(c, kind)].kind, kind)
          BY <4>1, <4>3 DEF SameKind, BuiltInKinds
        <4> QED
          BY <2>3, <4>4 DEF Positions
      <3> QED
        BY <2>1, <3>1
    <2> QED
      BY <1>1, <2>2, <2>3 DEF ValuesForKind
  <1>2. CASE ~HasKind(c, kind)
    <2>1. Held(c, kind) = {} /\ Positions(c, kind) = {}
      BY <1>2 DEF Held, HasKind
    <2>2. IndexSlot(c, kind) \notin DOMAIN c.entries
      <3>1. CASE Classification(kind) \in BuiltInKinds
        <4>1. ~ \E i \in DOMAIN c.entries : Classification(c.entries[i].kind) = Classification(kind)
          BY <2>1, <3>1 DEF Positions, SameKind, BuiltInKinds
        <4>2. IndexSlot(c, kind) = 0
          BY <3>1, <4>1 DEF IndexSlot, ContextOK, IndexPoints
        <4> QED
          BY <4>2 DEF ContextOK, WellTyped
      <3>2. CASE Classification(kind) \notin BuiltInKinds
        BY <3>2 DEF IndexSlot, ContextOK, WellTyped
      <3> QED
        BY <3>1, <3>2
    <2> QED
      BY <1>2, <2>1, <2>2 DEF ValuesForKind
  <1> QED
    BY <1>1, <1>2

\* The state of a caller whose context holds what was inserted.
Faithful ==
  /\ ContextOK(context)
  /\ calls \in Seq(Kinds \X Values)
  /\ \A k \in Texts : Held(context, k) = InsertedValues(k)

LEMMA FaithfulInit == Init => Faithful
  <1> SUFFICES ASSUME Init PROVE Faithful
    OBVIOUS
  <1>1. ContextOK(context) /\ calls \in Seq(Kinds \X Values)
    BY StartOK DEF Init
  <1>2. context = start /\ DOMAIN calls = {}
    BY DEF Init
  <1> QED
    BY <1>1, <1>2 DEF Faithful, Held, InsertedValues

LEMMA FaithfulStep == Faithful /\ [Next]_vars => Faithful'
  <1> SUFFICES ASSUME Faithful, [Next]_vars PROVE Faithful'
    OBVIOUS
  <1>1. CASE UNCHANGED vars
    <2>1. context' = context /\ start' = start /\ calls' = calls
      BY <1>1 DEF vars
    <2>2. ContextOK(context)' /\ calls' \in Seq(Kinds \X Values)
      BY <2>1 DEF Faithful, ContextOK, WellTyped, OneEntryPerKind, IndexPoints
    <2>3. \A k \in Texts : Held(context, k)' = InsertedValues(k)'
      <3>1. ASSUME NEW k \in Texts PROVE Held(context, k)' = Held(context, k)
        BY <2>1 DEF Held, Positions, Listed
      <3>2. ASSUME NEW k \in Texts PROVE InsertedValues(k)' = InsertedValues(k)
        BY <2>1 DEF InsertedValues, Positions, Listed
      <3> QED
        BY <3>1, <3>2 DEF Faithful
    <2> QED
      BY <2>2, <2>3 DEF Faithful
  <1>2. ASSUME NEW kind \in Kinds, NEW value \in Values, Insert(kind, value)
        PROVE  Faithful'
    <2>1. kind \in Texts /\ value \in Texts
      BY KindsAndValuesAreTexts
    <2>2. ContextOK(context')
      BY <1>2, <2>1, InsertedOK DEF Insert, Faithful
    <2>3. /\ calls' \in Seq(Kinds \X Values)
          /\ start' = start
          /\ \A k \in Texts :
               {Trim[calls'[i][2]] : i \in {j \in DOMAIN calls' : SameKind(Trim[calls'[j][1]], k)}}
               = {Trim[calls[i][2]] : i \in {j \in DOMAIN calls : SameKind(Trim[calls[j][1]], k)}}
                 \cup IF InsertResult(context, kind, value) = "Ok" /\ SameKind(Trim[kind], k)
                      THEN {Trim[value]} ELSE {}
      <3>0. calls \in Seq(Kinds \X Values) /\ <<kind, value>> \in Kinds \X Values
        BY DEF Faithful
      <3>1. CASE InsertResult(context, kind, value) # "Ok"
        BY <1>2, <3>0, <3>1 DEF Insert
      <3>2. CASE InsertResult(context, kind, value) = "Ok"
        <4>1. calls' = Append(calls, <<kind, value>>) /\ start' = start
          BY <1>2, <3>2 DEF Insert
        <4>2. /\ calls' \in Seq(Kinds \X Values)
              /\ DOMAIN calls' = DOMAIN calls \cup {Len(calls) + 1}
              /\ \A j \in DOMAIN calls : calls'[j] = calls[j]
              /\ calls'[Len(calls) + 1] = <<kind, value>>
          BY <3>0, <4>1, AppendFacts
        <4>3. <<kind, value>>[1] = kind /\ <<kind, value>>[2] = value
          OBVIOUS
        <4>4. ASSUME NEW k \in Texts
              PROVE  {j \in DOMAIN calls' : SameKind(Trim[calls'[j][1]], k)}
                     = {j \in DOMAIN calls : SameKind(Trim[calls[j][1]], k)}
                       \cup IF SameKind(Trim[kind], k) THEN {Len(calls) + 1} ELSE {}
          BY <4>2, <4>3
        <4>5. ASSUME NEW k \in Texts
              PROVE  {Trim[calls'[i][2]] : i \in {j \in DOMAIN calls' : SameKind(Trim[calls'[j][1]], k)}}
                     = {Trim[calls[i][2]] : i \in {j \in DOMAIN calls : SameKind(Trim[calls[j][1]], k)}}
                       \cup IF SameKind(Trim[kind], k) THEN {Trim[value]} ELSE {}
          <5> DEFINE J == {j \in DOMAIN calls : SameKind(Trim[calls[j][1]], k)}
                     M == {j \in DOMAIN calls' : SameKind(Trim[calls'[j][1]], k)}
                     n == Len(calls) + 1
          <5>1. /\ \A j \in J : calls'[j] = calls[j]
                /\ calls'[n] = <<kind, value>>
                /\ M = J \cup IF SameKind(Trim[kind], k) THEN {n} ELSE {}
            BY <4>2, <4>4
          <5> HIDE DEF J, M, n
          <5>2. {Trim[calls'[i][2]] : i \in M}
                = {Trim[calls[i][2]] : i \in J}
                  \cup IF SameKind(Trim[kind], k) THEN {Trim[value]} ELSE {}
            BY <4>3, <5>1
          <5> QED
            BY <5>2 DEF J, M
        <4> QED
          BY <3>2, <4>1, <4>2, <4>5
      <3> QED
        BY <3>1, <3>2
    <2>4. \A k \in Texts : Held(context', k) = InsertedValues(k)'
      <3> SUFFICES ASSUME NEW k \in Texts PROVE Held(context', k) = InsertedValues(k)'
        OBVIOUS
      <3>1. Held(context', k)
              = Held(context, k) \cup IF InsertResult(context, kind, value) = "Ok"
                                         /\ SameKind(Trim[kind], k)
                                      THEN {Trim[value]} ELSE {}
        BY <1>2, <2>1, HeldInserted DEF Insert, Faithful
      <3>2. Held(context, k) = InsertedValues(k)
        BY DEF Faithful
      <3> DEFINE Old == UNION {Listed(start, i) : i \in Positions(start, k)}
                 Called == {Trim[calls[i][2]] : i \in {j \in DOMAIN calls : SameKind(Trim[calls[j][1]], k)}}
                 Added == IF InsertResult(context, kind, value) = "Ok" /\ SameKind(Trim[kind], k)
                          THEN {Trim[value]} ELSE {}
      <3>3. InsertedValues(k) = Old \cup Called
        BY DEF InsertedValues
      <3>4. Old' = Old
        BY <2>3 DEF Positions, Listed
      <3>5. Called' = Called \cup Added
        BY <2>3
      <3>6. InsertedValues(k)' = Old' \cup Called'
        BY DEF InsertedValues
      <3>7. Held(context', k) = Held(context, k) \cup Added
        BY <3>1
      <3> HIDE DEF Old, Called, Added
      <3> QED
        BY <3>2, <3>3, <3>4, <3>5, <3>6, <3>7
    <2> QED
      BY <2>2, <2>3, <2>4 DEF Faithful, ContextOK, WellTyped, OneEntryPerKind,
                              IndexPoints, Held, Positions, Listed
  <1> QED
    BY <1>1, <1>2 DEF Next

(***************************************************************************)
(* values_for_kind (request.rs) answers with the values that were inserted *)
(* under any spelling of the kind and with no others, for every sequence   *)
(* of insertions, accepted and refused, and all limits.                    *)
(***************************************************************************)
THEOREM ReadingIsFaithful == Spec => []ReadsWhatWasInserted
  <1>1. Faithful => ReadsWhatWasInserted
    <2>1. \A k \in Kinds : Trim[k] \in Texts
      OBVIOUS
    <2> QED
      BY <2>1, ReadIsHeld DEF Faithful, ReadsWhatWasInserted
  <1> QED
    BY <1>1, FaithfulInit, FaithfulStep, PTL DEF Spec

-----------------------------------------------------------------------------
(* Matching.                                                               *)

LEMMA FaithfulAlways == Spec => []Faithful
  BY FaithfulInit, FaithfulStep, PTL DEF Spec

\* Spellings are of one kind when they have one canonical form.
LEMMA SameCanonical ==
  ASSUME NEW k \in Texts, NEW l \in Texts
  PROVE  SameKind(k, l) <=> Canonical(k) = Canonical(l)
  <1>1. \A t \in Texts : Lower[Lower[t]] = Lower[t] /\ Lower[t] \in Texts
    OBVIOUS
  <1>2. ASSUME NEW x \in Texts, NEW y \in Texts,
               Classification(x) = "Other", Classification(y) # "Other"
        PROVE  x # Classification(y)
    <2>1. Lower[x] \notin BuiltInKinds /\ Lower[y] \in BuiltInKinds /\ Classification(y) = Lower[y]
      BY <1>2 DEF Classification, BuiltInKinds
    <2> QED
      BY <1>1, <2>1
  <1> QED
    BY <1>2 DEF SameKind, Canonical

\* What is read under a kind is finite, so that its length can be compared.
LEMMA ReadingsAreFinite ==
  ASSUME NEW c, ContextOK(c), NEW kind
  PROVE  IsFiniteSet(ValuesForKind(c, kind))
  <1>1. ASSUME NEW i \in DOMAIN c.entries PROVE IsFiniteSet(Listed(c, i))
    <2>1. c.entries[i] \in Entries
      BY DEF ContextOK, WellTyped
    <2>2. c.entries[i].values \in Seq(Texts)
      BY <2>1 DEF Entries
    <2>3. DOMAIN c.entries[i].values = 1 .. Len(c.entries[i].values)
          /\ Len(c.entries[i].values) \in Nat
      BY <2>2
    <2>4. IsFiniteSet(DOMAIN c.entries[i].values)
      BY <2>3, FS_Interval
    <2> DEFINE vs == c.entries[i].values
    <2>5. vs \in [DOMAIN vs -> Texts]
      BY <2>2
    <2>6. {vs[j] : j \in DOMAIN vs} \subseteq Texts
      BY <2>5
    <2>7. IsFiniteSet({vs[j] : j \in DOMAIN vs})
      <3> DEFINE img == {vs[j] : j \in DOMAIN vs}
      <3>1. vs \in Surjection(DOMAIN vs, img)
        BY <2>5 DEF Surjection
      <3> HIDE DEF vs, img
      <3>2. IsFiniteSet(DOMAIN vs)
        BY <2>4 DEF vs
      <3> QED
        BY <3>1, <3>2, FS_Surjection DEF img
    <2> QED
      BY <2>7 DEF Listed
  <1>2. IsFiniteSet({})
    BY FS_EmptySet
  <1>3. CASE HasKind(c, kind)
    BY <1>1, <1>2, <1>3, PositionOfKind DEF ValuesForKind
  <1>4. CASE ~HasKind(c, kind)
    BY <1>1, <1>2, <1>4 DEF ValuesForKind
  <1> QED
    BY <1>3, <1>4

\* EvaluationRules takes of a context what the context holds.
LEMMA AbstractHolds ==
  ASSUME ContextOK(context), NEW kind \in Texts
  PROVE  /\ Canonical(kind) \in DOMAIN Abstract => Abstract[Canonical(kind)] = Held(context, kind)
         /\ Canonical(kind) \notin DOMAIN Abstract => Held(context, kind) = {}
  <1>1. ASSUME NEW i \in DOMAIN context.entries PROVE context.entries[i].kind \in Texts
    <2>1. context.entries[i] \in Entries
      BY DEF ContextOK, WellTyped
    <2> QED
      BY <2>1 DEF Entries
  <1>2. {j \in DOMAIN context.entries : Canonical(context.entries[j].kind) = Canonical(kind)}
          = Positions(context, kind)
    BY <1>1, SameCanonical DEF Positions
  <1>3. DOMAIN Abstract = {Canonical(context.entries[i].kind) : i \in DOMAIN context.entries}
    BY DEF Abstract
  <1>4. ASSUME Canonical(kind) \in DOMAIN Abstract
        PROVE  Abstract[Canonical(kind)] = Held(context, kind)
    BY <1>2, <1>3, <1>4 DEF Abstract, Held
  <1>5. ASSUME Canonical(kind) \notin DOMAIN Abstract
        PROVE  Held(context, kind) = {}
    BY <1>2, <1>3, <1>5 DEF Held
  <1> QED
    BY <1>4, <1>5

(***************************************************************************)
(* selector_matches_context (engine.rs), which finds the values of a kind  *)
(* by index or scan and compares them one by one or by a set, depending on *)
(* their number, decides as EvaluationRules does on a function from        *)
(* canonical kinds to sets: for every context that insertions can make,    *)
(* every spelling of a selector's kind and every length limit.             *)
(***************************************************************************)
THEOREM MatchingIsByMeaning == Spec => []MatchesLikeRules
  <1>1. ContextOK(context) => MatchesLikeRules
    <2> SUFFICES ASSUME ContextOK(context), NEW selector \in Selectors
                 PROVE  SelectorMatchesContext(selector, context)
                          <=> Rules!SelectorMatches([selector EXCEPT !.kind = Canonical(@)], Abstract)
      BY DEF MatchesLikeRules
    <2>1. selector \in [kind : Texts, all : BOOLEAN,
                       values : SUBSET Texts, expressions : SUBSET SUBSET Texts]
      BY MatchingAssumption
    <2> DEFINE values == ValuesForKind(context, selector.kind)
               key    == Canonical(selector.kind)
               listed == selector.values
               exprs  == selector.expressions
    <2>2. LET s == [selector EXCEPT !.kind = Canonical(@)]
          IN  s.kind = key /\ s.all = selector.all /\ s.values = listed /\ s.expressions = exprs
      BY <2>1
    <2>3. Cardinality(values) <= LinearScan \/ Cardinality(values) > LinearScan
      <3>1. Cardinality(values) \in Nat
        BY ReadingsAreFinite, FS_CardinalityType
      <3> QED
        BY <3>1, MatchingAssumption
    <2>4. /\ key \in DOMAIN Abstract => Abstract[key] = values
          /\ key \notin DOMAIN Abstract => values = {}
      BY <2>1, AbstractHolds, ReadIsHeld
    <2>5. SelectorMatchesContext(selector, context)
            <=> selector.all \/ (\E e \in exprs : e \cap values # {}) \/ listed \cap values # {}
      BY <2>3 DEF SelectorMatchesContext
    <2>6. Rules!SelectorMatches([selector EXCEPT !.kind = Canonical(@)], Abstract)
            <=> selector.all \/ (key \in DOMAIN Abstract
                                 /\ (listed \cup UNION exprs) \cap Abstract[key] # {})
      BY <2>2 DEF Rules!SelectorMatches
    <2> HIDE DEF values, key, listed, exprs
    <2>7. (listed \cup UNION exprs) \cap values # {}
            <=> (\E e \in exprs : e \cap values # {}) \/ listed \cap values # {}
      OBVIOUS
    <2> QED
      BY <2>4, <2>5, <2>6, <2>7
  <1> QED
    BY <1>1, FaithfulAlways, PTL DEF Faithful

-----------------------------------------------------------------------------
(* What the counter key depends on: the size of a context, the spellings   *)
(* it has, and under each kind the values and their number.                *)

Spelled(c) == {c.entries[i].kind : i \in DOMAIN c.entries}

Count(c, kind) == IF HasKind(c, kind) THEN Len(c.entries[Position(c, kind)].values) ELSE 0

Alike(c, d) ==
  /\ Len(c.entries) = Len(d.entries)
  /\ Spelled(c) = Spelled(d)
  /\ \A kind \in Texts : Held(c, kind) = Held(d, kind) /\ Count(c, kind) = Count(d, kind)

Fits(c, kind, value) ==
  IF HasKind(c, kind) THEN value \in Held(c, kind) \/ Count(c, kind) < MaxValues
  ELSE Len(c.entries) < MaxKinds

LEMMA ViewTypes ==
  ASSUME NEW c, ContextOK(c)
  PROVE  /\ Len(c.entries) \in Nat
         /\ \A i \in DOMAIN c.entries : c.entries[i].kind \in Texts
         /\ \A i \in DOMAIN c.entries : c.entries[i].values \in Seq(Texts)
         /\ \A kind : Count(c, kind) \in Nat
         /\ \A kind : ~HasKind(c, kind) => Held(c, kind) = {} /\ Count(c, kind) = 0
  <1>1. c.entries \in Seq(Entries)
    BY DEF ContextOK, WellTyped
  <1>2. \A i \in DOMAIN c.entries : c.entries[i].kind \in Texts /\ c.entries[i].values \in Seq(Texts)
    <2> SUFFICES ASSUME NEW i \in DOMAIN c.entries
                 PROVE  c.entries[i].kind \in Texts /\ c.entries[i].values \in Seq(Texts)
      OBVIOUS
    <2>1. c.entries[i] \in Entries
      BY <1>1
    <2> QED
      BY <2>1 DEF Entries
  <1>3. ASSUME NEW kind PROVE Count(c, kind) \in Nat
    <2>1. CASE HasKind(c, kind)
      <3>1. c.entries[Position(c, kind)].values \in Seq(Texts)
        BY <1>2, <2>1, PositionOfKind
      <3> QED
        BY <2>1, <3>1 DEF Count
    <2>2. CASE ~HasKind(c, kind)
      BY <2>2 DEF Count
    <2> QED
      BY <2>1, <2>2
  <1>4. ASSUME NEW kind, ~HasKind(c, kind)
        PROVE  Held(c, kind) = {} /\ Count(c, kind) = 0
    BY <1>4 DEF HasKind, Held, Count
  <1>5. Len(c.entries) \in Nat
    BY <1>1
  <1> QED
    BY <1>2, <1>3, <1>4, <1>5

LEMMA HasKindIsSpelled ==
  ASSUME NEW c, NEW kind
  PROVE  HasKind(c, kind) <=> \E k \in Spelled(c) : SameKind(k, kind)
  BY DEF HasKind, Positions, Spelled

LEMMA HeldAtPosition ==
  ASSUME NEW c, ContextOK(c), NEW kind, HasKind(c, kind)
  PROVE  Held(c, kind) = Listed(c, Position(c, kind))
  BY PositionOfKind DEF Held

LEMMA ResultFromView ==
  ASSUME NEW c, ContextOK(c), NEW kind \in Texts, NEW value \in Texts
  PROVE  InsertResult(c, kind, value)
           = IF TokenResult(kind) # "Ok" THEN TokenResult(kind)
             ELSE IF TextResult(value) # "Ok" THEN TextResult(value)
             ELSE IF Fits(c, Trim[kind], Trim[value]) THEN "Ok" ELSE "CollectionLimitExceeded"
  <1>1. CASE HasKind(c, Trim[kind])
    <2>1. ValueFits(c, Position(c, Trim[kind]), Trim[value])
            <=> Trim[value] \in Held(c, Trim[kind]) \/ Count(c, Trim[kind]) < MaxValues
      BY <1>1, HeldAtPosition DEF ValueFits, Count
    <2> QED
      BY <1>1, <2>1 DEF InsertResult, Fits
  <1>2. CASE ~HasKind(c, Trim[kind])
    BY <1>2 DEF InsertResult, Fits
  <1> QED
    BY <1>1, <1>2

\* A further entry of a kind that the context has is at the same place.
LEMMA SamePosition ==
  ASSUME NEW c, ContextOK(c), NEW d, ContextOK(d), NEW kind, HasKind(c, kind),
         DOMAIN c.entries \subseteq DOMAIN d.entries,
         \A i \in DOMAIN c.entries : d.entries[i].kind = c.entries[i].kind
  PROVE  HasKind(d, kind) /\ Position(d, kind) = Position(c, kind)
  <1>1. Position(c, kind) \in DOMAIN c.entries /\ SameKind(c.entries[Position(c, kind)].kind, kind)
    BY PositionOfKind
  <1>2. Position(c, kind) \in Positions(d, kind)
    BY <1>1 DEF Positions
  <1>3. HasKind(d, kind)
    BY <1>2 DEF HasKind
  <1> QED
    BY <1>2, <1>3, PositionOfKind

\* d is c after an insertion of value under kind was accepted.
InView(c, d, kind, value) ==
  /\ Len(d.entries) = Len(c.entries) + IF HasKind(c, kind) THEN 0 ELSE 1
  /\ Spelled(d) = Spelled(c) \cup IF HasKind(c, kind) THEN {} ELSE {kind}
  /\ \A k \in Texts :
       /\ HasKind(d, k) <=> HasKind(c, k) \/ SameKind(kind, k)
       /\ Held(d, k) = Held(c, k) \cup IF SameKind(kind, k) THEN {value} ELSE {}
       /\ Count(d, k) = Count(c, k) + IF SameKind(kind, k) /\ value \notin Held(c, k) THEN 1 ELSE 0

LEMMA SameKindIsHeldAlike ==
  ASSUME NEW c, NEW k, NEW l, SameKind(k, l)
  PROVE  Positions(c, k) = Positions(c, l)
  <1>1. \A m : SameKind(m, k) <=> SameKind(m, l)
    BY SameKindIsEquivalence
  <1> QED
    BY <1>1 DEF Positions

LEMMA ValueInView ==
  ASSUME NEW c, ContextOK(c), NEW kind \in Texts, NEW value \in Texts, HasKind(c, kind),
         NEW d, d = WithValue(c, Position(c, kind), value), ContextOK(d)
  PROVE  /\ Len(d.entries) = Len(c.entries)
         /\ Spelled(d) = Spelled(c)
         /\ \A k \in Texts :
              /\ HasKind(d, k) <=> HasKind(c, k)
              /\ Count(d, k) = Count(c, k) + IF SameKind(kind, k) /\ value \notin Held(c, k)
                                             THEN 1 ELSE 0
  <1> DEFINE p == Position(c, kind)
  <1>1. p \in DOMAIN c.entries /\ SameKind(c.entries[p].kind, kind) /\ Positions(c, kind) = {p}
    BY PositionOfKind
  <1>2. /\ DOMAIN d.entries = DOMAIN c.entries
        /\ \A j \in DOMAIN c.entries : d.entries[j].kind = c.entries[j].kind
    BY <1>1, WithValueOK
  <1>3. Len(d.entries) = Len(c.entries)
    BY <1>2 DEF ContextOK, WellTyped
  <1>4. \A j \in DOMAIN c.entries :
          Len(d.entries[j].values) = Len(c.entries[j].values)
                                     + IF j = p /\ value \notin Listed(c, p) THEN 1 ELSE 0
    <2>1. ASSUME NEW j \in DOMAIN c.entries
          PROVE  Len(c.entries[j].values) \in Nat /\ c.entries[j].values \in Seq(Texts)
      BY ViewTypes
    <2>2. CASE value \in Listed(c, p)
      <3>1. d = c
        BY <2>2 DEF WithValue
      <3> HIDE DEF p
      <3> QED
        BY <2>1, <2>2, <3>1
    <2>3. CASE value \notin Listed(c, p)
      <3>1. d.entries = [c.entries EXCEPT ![p].values = Append(@, value)]
        BY <2>3 DEF WithValue, ContextOK, WellTyped
      <3>2. c.entries \in Seq(Entries) /\ c.entries[p] \in Entries
        BY <1>1 DEF ContextOK, WellTyped
      <3>3. \A j \in DOMAIN c.entries :
              d.entries[j] = IF j = p THEN [c.entries[p] EXCEPT !.values = Append(@, value)]
                             ELSE c.entries[j]
        BY <1>1, <3>1, <3>2
      <3>4. [c.entries[p] EXCEPT !.values = Append(@, value)].values = Append(c.entries[p].values, value)
        BY <3>2 DEF Entries
      <3>5. Len(Append(c.entries[p].values, value)) = Len(c.entries[p].values) + 1
        BY <1>1, <2>1
      <3>6. Len(d.entries[p].values) = Len(c.entries[p].values) + 1
        BY <1>1, <3>3, <3>4, <3>5
      <3> HIDE DEF p
      <3>7. \A j \in DOMAIN c.entries : j # p => d.entries[j] = c.entries[j]
        BY <3>3
      <3>8. \A j \in DOMAIN c.entries : j # p =>
              Len(d.entries[j].values) = Len(c.entries[j].values) + 0
        BY <2>1, <3>7
      <3> QED
        BY <2>3, <3>6, <3>8
    <2> QED
      BY <2>2, <2>3
  <1>5. Spelled(d) = Spelled(c)
    BY <1>2 DEF Spelled
  <1>6. \A k \in Texts : HasKind(d, k) <=> HasKind(c, k)
    BY <1>5, HasKindIsSpelled
  <1>7. ASSUME NEW k \in Texts
        PROVE  Count(d, k) = Count(c, k) + IF SameKind(kind, k) /\ value \notin Held(c, k)
                                           THEN 1 ELSE 0
    <2>1. CASE ~HasKind(c, k)
      <3>1. ~SameKind(kind, k)
        BY <1>1, <2>1, SameKindIsHeldAlike DEF HasKind
      <3> QED
        BY <1>6, <2>1, <3>1 DEF Count
    <2>2. CASE HasKind(c, k)
      <3>1. Position(d, k) = Position(c, k) /\ Position(c, k) \in DOMAIN c.entries
        BY <1>2, <2>2, SamePosition, PositionOfKind
      <3>2. Position(c, k) = p <=> SameKind(kind, k)
        <4>1. ASSUME SameKind(kind, k) PROVE Position(c, k) = p
          BY <4>1, SameKindIsHeldAlike DEF Position
        <4>2. ASSUME Position(c, k) = p PROVE SameKind(kind, k)
          <5>1. SameKind(c.entries[p].kind, k)
            BY <2>2, <4>2, PositionOfKind
          <5> QED
            BY <1>1, <5>1, SameKindIsEquivalence
        <4> QED
          BY <4>1, <4>2
      <3>3. Held(c, k) = Listed(c, Position(c, k))
        BY <2>2, HeldAtPosition
      <3>4. Count(d, k) = Len(d.entries[Position(c, k)].values)
            /\ Count(c, k) = Len(c.entries[Position(c, k)].values)
        BY <1>6, <2>2, <3>1 DEF Count
      <3>5. Count(c, k) \in Nat
        BY ViewTypes
      <3> HIDE DEF p
      <3>6. CASE SameKind(kind, k)
        <4>1. Len(d.entries[p].values) = Len(c.entries[p].values)
                                         + IF value \notin Listed(c, p) THEN 1 ELSE 0
          BY <1>4, <3>1, <3>2, <3>6
        <4>2. Position(c, k) = p /\ Held(c, k) = Listed(c, p)
          BY <3>2, <3>3, <3>6
        <4>3. (IF SameKind(kind, k) /\ value \notin Held(c, k) THEN 1 ELSE 0)
                = IF value \notin Listed(c, p) THEN 1 ELSE 0
          BY <3>6, <4>2
        <4>4. Count(d, k) = Len(d.entries[p].values) /\ Count(c, k) = Len(c.entries[p].values)
          BY <3>4, <4>2
        <4> QED
          BY <4>1, <4>3, <4>4
      <3>7. CASE ~SameKind(kind, k)
        <4>1. Len(d.entries[Position(c, k)].values) = Count(c, k) + 0
          BY <1>4, <3>1, <3>2, <3>4, <3>7
        <4>2. Count(d, k) = Count(c, k) + 0
          BY <3>4, <4>1
        <4>3. (IF SameKind(kind, k) /\ value \notin Held(c, k) THEN 1 ELSE 0) = 0
          BY <3>7
        <4> QED
          BY <4>2, <4>3
      <3> QED
        BY <3>6, <3>7
    <2> QED
      BY <2>1, <2>2
  <1> QED
    BY <1>3, <1>5, <1>6, <1>7

LEMMA KindInView ==
  ASSUME NEW c, ContextOK(c), NEW kind \in Texts, NEW value \in Texts, ~HasKind(c, kind),
         NEW d, d = WithKind(c, kind, value), ContextOK(d)
  PROVE  /\ Len(d.entries) = Len(c.entries) + 1
         /\ Spelled(d) = Spelled(c) \cup {kind}
         /\ \A k \in Texts :
              /\ HasKind(d, k) <=> HasKind(c, k) \/ SameKind(kind, k)
              /\ Count(d, k) = Count(c, k) + IF SameKind(kind, k) /\ value \notin Held(c, k)
                                             THEN 1 ELSE 0
  <1> DEFINE n == Len(c.entries) + 1
  <1>1. /\ n \notin DOMAIN c.entries /\ DOMAIN d.entries = DOMAIN c.entries \cup {n}
        /\ d.entries[n].kind = kind
        /\ \A j \in DOMAIN c.entries : d.entries[j] = c.entries[j]
    BY WithKindOK DEF Grown
  <1>2. Len(d.entries) = n /\ Len(d.entries[n].values) = 1
    <2>1. d.entries = Append(c.entries, [kind |-> kind, values |-> <<value>>])
      BY DEF WithKind
    <2>2. c.entries \in Seq(Entries) /\ [kind |-> kind, values |-> <<value>>] \in Entries
      BY DEF ContextOK, WellTyped, Entries
    <2> QED
      BY <2>1, <2>2
  <1>3. Spelled(d) = Spelled(c) \cup {kind}
    BY <1>1 DEF Spelled
  <1>4. \A k \in Texts : HasKind(d, k) <=> HasKind(c, k) \/ SameKind(kind, k)
    BY <1>3, HasKindIsSpelled
  <1> HIDE DEF n
  <1>5. ASSUME NEW k \in Texts
        PROVE  Count(d, k) = Count(c, k) + IF SameKind(kind, k) /\ value \notin Held(c, k)
                                           THEN 1 ELSE 0
    <2>0. Count(c, k) \in Nat
      BY ViewTypes
    <2>1. CASE HasKind(c, k)
      <3>1. Position(d, k) = Position(c, k) /\ Position(c, k) \in DOMAIN c.entries
        BY <1>1, <2>1, SamePosition, PositionOfKind
      <3>2. ~SameKind(kind, k)
        BY <2>1, SameKindIsHeldAlike DEF HasKind
      <3>3. Count(d, k) = Count(c, k)
        BY <1>1, <1>4, <2>1, <3>1 DEF Count
      <3> QED
        BY <2>0, <3>2, <3>3
    <2>2. CASE ~HasKind(c, k) /\ SameKind(kind, k)
      <3>1. HasKind(d, k) /\ n \in Positions(d, k)
        BY <1>1, <1>4, <2>2 DEF Positions
      <3>2. Position(d, k) = n
        BY <3>1, PositionOfKind
      <3>3. Count(d, k) = 1
        BY <1>2, <3>1, <3>2 DEF Count
      <3>4. Held(c, k) = {} /\ Count(c, k) = 0
        BY <2>2, ViewTypes
      <3> QED
        BY <2>2, <3>3, <3>4
    <2>3. CASE ~HasKind(c, k) /\ ~SameKind(kind, k)
      BY <1>4, <2>3 DEF Count
    <2> QED
      BY <2>1, <2>2, <2>3
  <1> QED
    BY <1>2, <1>3, <1>4, <1>5 DEF n

LEMMA InsertedInView ==
  ASSUME NEW c, ContextOK(c), NEW kind \in Texts, NEW value \in Texts,
         InsertResult(c, kind, value) = "Ok"
  PROVE  InView(c, Inserted(c, kind, value), Trim[kind], Trim[value])
  <1> DEFINE d == Inserted(c, kind, value)
  <1>1. Trim[kind] \in Texts /\ Trim[value] \in Texts /\ ContextOK(d)
    BY InsertedOK
  <1>2. \A k : Held(d, k) = Held(c, k) \cup IF SameKind(Trim[kind], k) THEN {Trim[value]} ELSE {}
    BY HeldInserted
  <1>3. CASE HasKind(c, Trim[kind])
    <2>1. d = WithValue(c, Position(c, Trim[kind]), Trim[value])
      BY <1>3 DEF Inserted
    <2>2. \A k : SameKind(Trim[kind], k) => HasKind(c, k)
      BY <1>3, SameKindIsHeldAlike DEF HasKind
    <2> HIDE DEF d
    <2>3. /\ Len(d.entries) = Len(c.entries)
          /\ Spelled(d) = Spelled(c)
          /\ \A k \in Texts :
               /\ HasKind(d, k) <=> HasKind(c, k)
               /\ Count(d, k) = Count(c, k) + IF SameKind(Trim[kind], k) /\ Trim[value] \notin Held(c, k)
                                              THEN 1 ELSE 0
      BY <1>1, <1>3, <2>1, ValueInView
    <2>4. Len(c.entries) \in Nat
      BY ViewTypes
    <2>5. InView(c, d, Trim[kind], Trim[value])
      BY <1>2, <1>3, <2>2, <2>3, <2>4 DEF InView
    <2> QED
      BY <2>5 DEF d
  <1>4. CASE ~HasKind(c, Trim[kind])
    <2>1. d = WithKind(c, Trim[kind], Trim[value])
      BY <1>4 DEF Inserted
    <2> HIDE DEF d
    <2>2. /\ Len(d.entries) = Len(c.entries) + 1
          /\ Spelled(d) = Spelled(c) \cup {Trim[kind]}
          /\ \A k \in Texts :
               /\ HasKind(d, k) <=> HasKind(c, k) \/ SameKind(Trim[kind], k)
               /\ Count(d, k) = Count(c, k) + IF SameKind(Trim[kind], k) /\ Trim[value] \notin Held(c, k)
                                              THEN 1 ELSE 0
      BY <1>1, <1>4, <2>1, KindInView
    <2>3. InView(c, d, Trim[kind], Trim[value])
      BY <1>2, <1>4, <2>2 DEF InView
    <2> QED
      BY <2>3 DEF d
  <1> QED
    BY <1>3, <1>4

\* Insertions into contexts that are alike have the same result, and leave
\* them alike.
LEMMA AlikeStaysAlike ==
  ASSUME NEW c, ContextOK(c), NEW d, ContextOK(d), Alike(c, d),
         NEW kind \in Texts, NEW value \in Texts
  PROVE  Alike(Inserted(c, kind, value), Inserted(d, kind, value))
  <1>1. Trim[kind] \in Texts /\ Trim[value] \in Texts
    OBVIOUS
  <1>2. \A k : HasKind(c, k) <=> HasKind(d, k)
    BY HasKindIsSpelled DEF Alike
  <1>3. Fits(c, Trim[kind], Trim[value]) <=> Fits(d, Trim[kind], Trim[value])
    BY <1>1, <1>2 DEF Fits, Alike
  <1>4. InsertResult(c, kind, value) = InsertResult(d, kind, value)
    BY <1>3, ResultFromView
  <1>5. CASE InsertResult(c, kind, value) # "Ok"
    BY <1>4, <1>5 DEF Inserted
  <1>6. CASE InsertResult(c, kind, value) = "Ok"
    <2>1. /\ InView(c, Inserted(c, kind, value), Trim[kind], Trim[value])
          /\ InView(d, Inserted(d, kind, value), Trim[kind], Trim[value])
      BY <1>4, <1>6, InsertedInView
    <2> QED
      BY <1>1, <1>2, <2>1 DEF InView, Alike
  <1> QED
    BY <1>5, <1>6

\* Two insertions that are accepted in one order are accepted in the other.
LEMMA InsertionsCommute ==
  ASSUME NEW c, ContextOK(c),
         NEW k \in Texts, NEW v \in Texts, NEW l \in Texts, NEW w \in Texts,
         SameKind(Trim[k], Trim[l]) => Trim[k] = Trim[l],
         InsertResult(c, k, v) = "Ok",
         InsertResult(Inserted(c, k, v), l, w) = "Ok"
  PROVE  Alike(Inserted(Inserted(c, k, v), l, w), Inserted(Inserted(c, l, w), k, v))
  <1> DEFINE K == Trim[k]
             V == Trim[v]
             L == Trim[l]
             W == Trim[w]
             d == Inserted(c, k, v)
             e == Inserted(c, l, w)
  <1>1. K \in Texts /\ V \in Texts /\ L \in Texts /\ W \in Texts
    OBVIOUS
  <1>2. ContextOK(d) /\ ContextOK(e)
    BY InsertedOK
  <1>3. InView(c, d, K, V)
    BY InsertedInView
  <1>4. InView(d, Inserted(d, l, w), L, W)
    BY <1>2, InsertedInView
  <1>5. Fits(c, K, V) /\ Fits(d, L, W)
    BY <1>2, ResultFromView
  <1>6. /\ SameKind(K, L) <=> SameKind(L, K)
        /\ SameKind(K, K) /\ SameKind(L, L)
        /\ SameKind(K, L) => K = L
    BY SameKindIsEquivalence
  <1>7. /\ Len(c.entries) \in Nat
        /\ \A x : Count(c, x) \in Nat
        /\ \A x : ~HasKind(c, x) => Held(c, x) = {} /\ Count(c, x) = 0
    BY ViewTypes
  <1>8. Fits(c, L, W)
    <2>1. CASE HasKind(c, L)
      <3>1. HasKind(d, L)
        BY <1>1, <1>3, <2>1 DEF InView
      <3>2. W \in Held(d, L) \/ Count(d, L) < MaxValues
        BY <1>5, <3>1 DEF Fits
      <3>3. Count(c, L) <= Count(d, L) /\ Held(d, L) = Held(c, L) \cup IF SameKind(K, L) THEN {V} ELSE {}
        BY <1>1, <1>3, <1>7 DEF InView
      <3>4. CASE W \in Held(c, L)
        BY <2>1, <3>4 DEF Fits
      <3>5. CASE W \notin Held(c, L) /\ Count(d, L) < MaxValues
        <4>1. Count(c, L) \in Nat /\ Count(d, L) \in Nat
          BY <1>2, ViewTypes
        <4> QED
          BY <2>1, <3>3, <3>5, <4>1 DEF Fits
      <3>6. CASE W \notin Held(c, L) /\ W \in Held(d, L)
        <4>1. K = L /\ V = W
          BY <1>6, <3>3, <3>6
        <4> QED
          BY <1>5, <4>1
      <3> QED
        BY <3>2, <3>4, <3>5, <3>6
    <2>2. CASE ~HasKind(c, L)
      <3>1. CASE SameKind(K, L)
        <4>1. K = L
          BY <1>6, <3>1
        <4>2. Len(c.entries) < MaxKinds
          BY <1>5, <2>2, <4>1 DEF Fits
        <4> QED
          BY <2>2, <4>2 DEF Fits
      <3>2. CASE ~SameKind(K, L)
        <4>1. ~HasKind(d, L)
          BY <1>1, <1>3, <2>2, <3>2 DEF InView
        <4>2. Len(d.entries) < MaxKinds /\ Len(c.entries) <= Len(d.entries)
          <5>1. Len(d.entries) < MaxKinds
            BY <1>5, <4>1 DEF Fits
          <5>2. Len(d.entries) = Len(c.entries) + IF HasKind(c, K) THEN 0 ELSE 1
            BY <1>3 DEF InView
          <5>3. Len(d.entries) \in Nat /\ Len(c.entries) \in Nat
            BY <1>2, ViewTypes
          <5> HIDE DEF d, K
          <5>4. CASE HasKind(c, K)
            BY <5>1, <5>2, <5>3, <5>4
          <5>5. CASE ~HasKind(c, K)
            BY <5>1, <5>2, <5>3, <5>5
          <5> QED
            BY <5>4, <5>5
        <4>3. Len(c.entries) < MaxKinds
          <5>1. Len(d.entries) \in Nat
            BY <1>2, ViewTypes
          <5> QED
            BY <1>7, <4>2, <5>1
        <4> QED
          BY <2>2, <4>3 DEF Fits
      <3> QED
        BY <3>1, <3>2
    <2> QED
      BY <2>1, <2>2
  <1>9. TokenResult(k) = "Ok" /\ TextResult(v) = "Ok" /\ TokenResult(l) = "Ok" /\ TextResult(w) = "Ok"
    BY <1>2, ResultFromView
  <1>10. InsertResult(c, l, w) = "Ok"
    BY <1>8, <1>9, ResultFromView
  <1>11. InView(c, e, L, W)
    BY <1>10, InsertedInView
  <1>12. Fits(e, K, V)
    <2>1. CASE SameKind(K, L)
      <3>1. K = L
        BY <1>6, <2>1
      <3>2. HasKind(e, K)
        BY <1>1, <1>6, <1>11, <2>1 DEF InView
      <3>3. HasKind(d, L)
        BY <1>1, <1>3, <2>1 DEF InView
      <3>4. W \in Held(d, L) \/ Count(d, L) < MaxValues
        BY <1>5, <3>3 DEF Fits
      <3>5. /\ Held(d, L) = Held(c, K) \cup {V} /\ Held(e, K) = Held(c, K) \cup {W}
            /\ Count(d, L) = Count(c, K) + IF V \notin Held(c, K) THEN 1 ELSE 0
            /\ Count(e, K) = Count(c, K) + IF W \notin Held(c, K) THEN 1 ELSE 0
        BY <1>1, <1>3, <1>6, <1>11, <2>1, <3>1 DEF InView
      <3>6. Count(c, K) \in Nat
        BY <1>7
      <3> HIDE DEF K, V, L, W, d, e
      <3>7. CASE V \in Held(e, K)
        BY <3>2, <3>7 DEF Fits
      <3>8. CASE V \notin Held(e, K)
        <4>1. V \notin Held(c, K) /\ V # W
          BY <3>5, <3>8
        <4>2. Count(d, L) = Count(c, K) + 1
          BY <3>5, <4>1
        <4>3. CASE W \in Held(c, K)
          <5>1. Count(e, K) = Count(c, K) /\ HasKind(c, K)
            <6>1. (IF W \notin Held(c, K) THEN 1 ELSE 0) = 0
              BY <4>3
            <6> QED
              BY <1>7, <3>5, <3>6, <4>3, <6>1
          <5>2. Count(c, K) < MaxValues
            BY <1>5, <4>1, <5>1 DEF Fits
          <5> QED
            BY <3>2, <5>1, <5>2 DEF Fits
        <4>4. CASE W \notin Held(c, K)
          <5>1. Count(e, K) = Count(c, K) + 1 /\ W \notin Held(d, L)
            BY <3>5, <4>1, <4>4
          <5> QED
            BY <3>2, <3>4, <4>2, <5>1 DEF Fits
        <4> QED
          BY <4>3, <4>4
      <3> QED
        BY <3>7, <3>8
    <2>2. CASE ~SameKind(K, L)
      <3>1. /\ HasKind(e, K) <=> HasKind(c, K)
            /\ HasKind(d, L) <=> HasKind(c, L)
            /\ Held(e, K) = Held(c, K)
            /\ Count(e, K) = Count(c, K) + 0
        <4>1. HasKind(e, K) <=> HasKind(c, K)
          BY <1>1, <1>6, <1>11, <2>2 DEF InView
        <4>2. HasKind(d, L) <=> HasKind(c, L)
          BY <1>1, <1>3, <2>2 DEF InView
        <4>3. Held(e, K) = Held(c, K) /\ Count(e, K) = Count(c, K) + 0
          BY <1>1, <1>6, <1>11, <2>2 DEF InView
        <4> QED
          BY <4>1, <4>2, <4>3
      <3>2. CASE HasKind(c, K)
        <4>1. Count(e, K) = Count(c, K)
          BY <1>7, <3>1
        <4> QED
          BY <1>5, <3>1, <3>2, <4>1 DEF Fits
      <3>3. CASE ~HasKind(c, K)
        <4>1. Len(c.entries) < MaxKinds /\ Len(d.entries) = Len(c.entries) + 1
          BY <1>3, <1>5, <3>3 DEF Fits, InView
        <4>2. CASE HasKind(c, L)
          <5>1. Len(e.entries) = Len(c.entries) + 0
            BY <1>11, <4>2 DEF InView
          <5> QED
            BY <1>7, <3>1, <3>3, <4>1, <5>1 DEF Fits
        <4>3. CASE ~HasKind(c, L)
          <5>1. Len(e.entries) = Len(c.entries) + 1 /\ Len(d.entries) < MaxKinds
            BY <1>5, <1>11, <3>1, <4>3 DEF InView, Fits
          <5> QED
            BY <3>1, <3>3, <4>1, <5>1 DEF Fits
        <4> QED
          BY <4>2, <4>3
      <3> QED
        BY <3>2, <3>3
    <2> QED
      BY <2>1, <2>2
  <1>13. InsertResult(e, k, v) = "Ok"
    BY <1>2, <1>9, <1>12, ResultFromView
  <1>14. InView(e, Inserted(e, k, v), K, V)
    BY <1>2, <1>13, InsertedInView
  <1> DEFINE f == Inserted(d, l, w)
             g == Inserted(e, k, v)
  <1> SUFFICES Alike(f, g)
    OBVIOUS
  <1> HIDE DEF K, V, L, W, d, e, f, g
  <1>15. InView(d, f, L, W) /\ InView(e, g, K, V)
    BY <1>4, <1>14 DEF f, g
  <1>16. ASSUME NEW x \in Texts PROVE Held(f, x) = Held(g, x)
    <2>1. /\ Held(f, x) = Held(d, x) \cup IF SameKind(L, x) THEN {W} ELSE {}
          /\ Held(g, x) = Held(e, x) \cup IF SameKind(K, x) THEN {V} ELSE {}
          /\ Held(d, x) = Held(c, x) \cup IF SameKind(K, x) THEN {V} ELSE {}
          /\ Held(e, x) = Held(c, x) \cup IF SameKind(L, x) THEN {W} ELSE {}
      BY <1>3, <1>11, <1>15 DEF InView
    <2> QED
      BY <2>1
  <1>17. ASSUME NEW x \in Texts PROVE Count(f, x) = Count(g, x)
    <2>1. /\ Count(f, x) = Count(d, x) + IF SameKind(L, x) /\ W \notin Held(d, x) THEN 1 ELSE 0
          /\ Count(g, x) = Count(e, x) + IF SameKind(K, x) /\ V \notin Held(e, x) THEN 1 ELSE 0
          /\ Count(d, x) = Count(c, x) + IF SameKind(K, x) /\ V \notin Held(c, x) THEN 1 ELSE 0
          /\ Count(e, x) = Count(c, x) + IF SameKind(L, x) /\ W \notin Held(c, x) THEN 1 ELSE 0
          /\ Held(d, x) = Held(c, x) \cup IF SameKind(K, x) THEN {V} ELSE {}
          /\ Held(e, x) = Held(c, x) \cup IF SameKind(L, x) THEN {W} ELSE {}
      BY <1>3, <1>11, <1>15 DEF InView
    <2>2. Count(c, x) \in Nat
      BY <1>7
    <2> QED
      BY <2>1, <2>2
  <1>18. Len(f.entries) = Len(g.entries) /\ Spelled(f) = Spelled(g)
    <2>1. /\ Len(f.entries) = Len(d.entries) + IF HasKind(d, L) THEN 0 ELSE 1
          /\ Len(g.entries) = Len(e.entries) + IF HasKind(e, K) THEN 0 ELSE 1
          /\ Len(d.entries) = Len(c.entries) + IF HasKind(c, K) THEN 0 ELSE 1
          /\ Len(e.entries) = Len(c.entries) + IF HasKind(c, L) THEN 0 ELSE 1
          /\ Spelled(f) = Spelled(d) \cup IF HasKind(d, L) THEN {} ELSE {L}
          /\ Spelled(g) = Spelled(e) \cup IF HasKind(e, K) THEN {} ELSE {K}
          /\ Spelled(d) = Spelled(c) \cup IF HasKind(c, K) THEN {} ELSE {K}
          /\ Spelled(e) = Spelled(c) \cup IF HasKind(c, L) THEN {} ELSE {L}
      BY <1>3, <1>11, <1>15 DEF InView
    <2>2. /\ HasKind(d, L) <=> HasKind(c, L) \/ SameKind(K, L)
          /\ HasKind(e, K) <=> HasKind(c, K) \/ SameKind(L, K)
      BY <1>1, <1>3, <1>11 DEF InView
    <2>3. Len(f.entries) = Len(g.entries)
      <3>1. CASE SameKind(K, L)
        <4>1. K = L /\ HasKind(d, L) /\ HasKind(e, K)
          BY <1>6, <2>2, <3>1
        <4> QED
          BY <1>7, <2>1, <4>1
      <3>2. CASE ~SameKind(K, L)
        <4>1. (HasKind(d, L) <=> HasKind(c, L)) /\ (HasKind(e, K) <=> HasKind(c, K))
          BY <1>6, <2>2, <3>2
        <4> DEFINE newK == IF HasKind(c, K) THEN 0 ELSE 1
                   newL == IF HasKind(c, L) THEN 0 ELSE 1
        <4>2. /\ Len(f.entries) = (Len(c.entries) + newK) + newL
              /\ Len(g.entries) = (Len(c.entries) + newL) + newK
          BY <2>1, <4>1
        <4>3. newK \in Nat /\ newL \in Nat /\ Len(c.entries) \in Nat
          BY <1>7
        <4> HIDE DEF newK, newL
        <4> QED
          BY <4>2, <4>3
      <3> QED
        BY <3>1, <3>2
    <2>4. Spelled(f) = Spelled(g)
      <3>1. CASE SameKind(K, L)
        <4>1. K = L /\ HasKind(d, L) /\ HasKind(e, K)
          BY <1>6, <2>2, <3>1
        <4> QED
          BY <2>1, <4>1
      <3>2. CASE ~SameKind(K, L)
        <4>1. (HasKind(d, L) <=> HasKind(c, L)) /\ (HasKind(e, K) <=> HasKind(c, K))
          BY <1>6, <2>2, <3>2
        <4> QED
          BY <2>1, <4>1
      <3> QED
        BY <3>1, <3>2
    <2> QED
      BY <2>3, <2>4
  <1> QED
    BY <1>16, <1>17, <1>18 DEF Alike

-----------------------------------------------------------------------------
(* Induction, from the well-foundedness of the natural numbers.            *)

LEMMA LeastElement ==
  ASSUME NEW S \in SUBSET Nat, S # {}
  PROVE  \E i \in S : \A j \in S : i <= j
  <1> DEFINE R == {s \in Nat \X Nat : s[1] < s[2]}
  <1>1. IsWellFoundedOn(R, Nat)
    BY NatLessThanWellFounded DEF OpToRel
  <1>2. S \subseteq Nat
    OBVIOUS
  <1>3. \A x \in S, y \in S : <<y, x>> \notin R => x <= y
    OBVIOUS
  <1> HIDE DEF R
  <1>4. \E x \in S : \A y \in S : ~ (<<y, x>> \in R)
    BY <1>1, <1>2, WFMin
  <1> QED
    BY <1>3, <1>4

LEMMA Induction ==
  ASSUME NEW a \in Nat, NEW b \in Nat, NEW S,
         a \in S, \A i \in a .. b : i < b /\ i \in S => i + 1 \in S
  PROVE  a .. b \subseteq S
  <1> DEFINE bad == {i \in a .. b : i \notin S}
  <1> SUFFICES ASSUME bad # {} PROVE FALSE
    OBVIOUS
  <1>1. bad \in SUBSET Nat
    OBVIOUS
  <1>2. PICK i \in bad : \A j \in bad : i <= j
    BY <1>1, LeastElement
  <1>3. i # a /\ i \in a .. b
    BY <1>2
  <1>4. i - 1 \in a .. b /\ i - 1 < b /\ ~(i <= i - 1)
    BY <1>3
  <1>5. i - 1 \in S
    BY <1>2, <1>4
  <1>6. (i - 1) + 1 \in S
    BY <1>4, <1>5
  <1>7. (i - 1) + 1 = i
    BY <1>3
  <1> QED
    BY <1>2, <1>6, <1>7

-----------------------------------------------------------------------------
(* Making calls over again.                                                *)

HIDE ContextAssumption
HIDE NamesAssumption

Called == Seq(Kinds \X Values)

\* f is what the first m of the calls s lead to from b, call by call.
Replays(b, s, m, f) ==
  f = [n \in 0 .. m |-> IF n = 0 THEN b ELSE Inserted(f[n - 1], s[n][1], s[n][2])]

LEMMA ReplayBegins ==
  ASSUME NEW b, NEW s, NEW m \in Nat, NEW f, Replays(b, s, m, f)
  PROVE  f[0] = b
  <1>1. f = [n \in 0 .. m |-> IF n = 0 THEN b ELSE Inserted(f[n - 1], s[n][1], s[n][2])]
    BY DEF Replays
  <1>2. \A n \in 0 .. m : f[n] = IF n = 0 THEN b ELSE Inserted(f[n - 1], s[n][1], s[n][2])
    BY <1>1
  <1> QED
    BY <1>2

LEMMA ReplayGoesOn ==
  ASSUME NEW b, NEW s, NEW m \in Nat, NEW f, Replays(b, s, m, f), NEW n \in 0 .. m, n < m
  PROVE  f[n + 1] = Inserted(f[n], s[n + 1][1], s[n + 1][2])
  <1>1. f = [i \in 0 .. m |-> IF i = 0 THEN b ELSE Inserted(f[i - 1], s[i][1], s[i][2])]
    BY DEF Replays
  <1>2. \A i \in 0 .. m : f[i] = IF i = 0 THEN b ELSE Inserted(f[i - 1], s[i][1], s[i][2])
    BY <1>1
  <1>3. n + 1 \in 0 .. m /\ n + 1 # 0 /\ (n + 1) - 1 = n
    OBVIOUS
  <1> QED
    BY <1>2, <1>3

\* One more call makes a replay longer.
LEMMA ReplayGrows ==
  ASSUME NEW b, NEW s, NEW m \in Nat, NEW f, Replays(b, s, m, f),
         NEW t, \A n \in 1 .. m : t[n] = s[n]
  PROVE  LET g == [n \in 0 .. m + 1 |-> IF n <= m THEN f[n]
                                        ELSE Inserted(f[m], t[m + 1][1], t[m + 1][2])]
         IN  Replays(b, t, m + 1, g)
  <1> DEFINE g == [n \in 0 .. m + 1 |-> IF n <= m THEN f[n]
                                        ELSE Inserted(f[m], t[m + 1][1], t[m + 1][2])]
             h == [n \in 0 .. m + 1 |-> IF n = 0 THEN b ELSE Inserted(g[n - 1], t[n][1], t[n][2])]
  <1>1. /\ f[0] = b
        /\ \A n \in 0 .. m : n < m => f[n + 1] = Inserted(f[n], s[n + 1][1], s[n + 1][2])
    BY ReplayBegins, ReplayGoesOn
  <1>2. \A n \in 0 .. m : g[n] = f[n]
    OBVIOUS
  <1>3. ASSUME NEW n \in 0 .. m + 1 PROVE g[n] = h[n]
    <2>1. CASE n = 0
      BY <1>1, <2>1
    <2>2. CASE n \in 1 .. m
      <3>1. n - 1 \in 0 .. m /\ n - 1 < m /\ (n - 1) + 1 = n /\ n <= m /\ n # 0
        BY <2>2
      <3>2. f[n] = Inserted(f[n - 1], s[n][1], s[n][2])
        BY <1>1, <3>1
      <3>3. g[n] = f[n] /\ g[n - 1] = f[n - 1] /\ t[n] = s[n]
        BY <1>2, <2>2, <3>1
      <3>4. h[n] = Inserted(g[n - 1], t[n][1], t[n][2])
        BY <3>1
      <3> HIDE DEF g, h
      <3> QED
        BY <3>2, <3>3, <3>4
    <2>3. CASE n = m + 1
      <3>1. m \in 0 .. m /\ n - 1 = m /\ ~(n <= m) /\ n # 0
        BY <2>3
      <3>2. g[n] = Inserted(f[m], t[m + 1][1], t[m + 1][2])
        BY <3>1
      <3>3. h[n] = Inserted(g[m], t[n][1], t[n][2])
        BY <3>1
      <3>4. g[m] = f[m]
        BY <1>2, <3>1
      <3> HIDE DEF g, h
      <3> QED
        BY <2>3, <3>2, <3>3, <3>4
    <2> QED
      BY <2>1, <2>2, <2>3
  <1>4. g = h
    <2> DEFINE G(n) == IF n <= m THEN f[n] ELSE Inserted(f[m], t[m + 1][1], t[m + 1][2])
    <2>1. g = [n \in 0 .. m + 1 |-> g[n]] /\ h = [n \in 0 .. m + 1 |-> h[n]]
      OBVIOUS
    <2> HIDE DEF g, h
    <2> QED
      BY <1>3, <2>1
  <1> HIDE DEF g
  <1>5. Replays(b, t, m + 1, g)
    BY <1>4 DEF Replays
  <1> QED
    BY <1>5 DEF g

LEMMA ReplayExists ==
  ASSUME NEW b, NEW s, NEW m \in Nat
  PROVE  \E f : Replays(b, s, m, f)
  <1> DEFINE S == {i \in 0 .. m : \E f : Replays(b, s, i, f)}
  <1>1. 0 \in S
    <2> DEFINE f == [n \in 0 .. 0 |-> b]
    <2>1. f = [n \in 0 .. 0 |-> IF n = 0 THEN b ELSE Inserted(f[n - 1], s[n][1], s[n][2])]
      OBVIOUS
    <2>2. Replays(b, s, 0, f)
      BY <2>1 DEF Replays
    <2> QED
      BY <2>2
  <1>2. ASSUME NEW i \in 0 .. m, i < m, i \in S PROVE i + 1 \in S
    <2>1. PICK f : Replays(b, s, i, f)
      BY <1>2
    <2> DEFINE g == [n \in 0 .. i + 1 |-> IF n <= i THEN f[n]
                                          ELSE Inserted(f[i], s[i + 1][1], s[i + 1][2])]
    <2>2. Replays(b, s, i + 1, g)
      <3>1. i \in Nat /\ \A n \in 1 .. i : s[n] = s[n]
        BY <1>2
      <3> QED
        BY <2>1, <3>1, ReplayGrows
    <2> QED
      BY <1>2, <2>2
  <1>3. \A i \in 0 .. m : i < m /\ i \in S => i + 1 \in S
    BY <1>2
  <1> HIDE DEF S
  <1>4. 0 .. m \subseteq S
    BY <1>1, <1>3, Induction
  <1> QED
    BY <1>4 DEF S

LEMMA RebuiltReplays ==
  ASSUME NEW s \in Called
  PROVE  \E f : Replays(start, s, Len(s), f) /\ Rebuilt(s) = f[Len(s)]
  <1> DEFINE after == CHOOSE f : f = [n \in 0 .. Len(s) |->
                                      IF n = 0 THEN start ELSE Inserted(f[n - 1], s[n][1], s[n][2])]
  <1>1. Rebuilt(s) = after[Len(s)]
    BY DEF Rebuilt
  <1>2. Len(s) \in Nat
    BY DEF Called
  <1>3. \E f : Replays(start, s, Len(s), f)
    BY <1>2, ReplayExists
  <1>4. Replays(start, s, Len(s), after)
    BY <1>3 DEF Replays
  <1> QED
    BY <1>1, <1>4

SameCalls(s, t, i) == \A j \in 1 .. i : s[j] = t[j]

\* Two replays agree as long as their calls do.
LEMMA ReplaysAgree ==
  ASSUME NEW b, NEW s, NEW t, NEW m \in Nat, NEW n \in Nat, NEW f, NEW g,
         Replays(b, s, m, f), Replays(b, t, n, g),
         NEW i \in Nat, i <= m, i <= n, SameCalls(s, t, i),
         NEW k \in 0 .. i
  PROVE  f[k] = g[k]
  <1> DEFINE S == {j \in 0 .. i : f[j] = g[j]}
  <1>1. /\ f[0] = b /\ g[0] = b
        /\ \A j \in 0 .. m : j < m => f[j + 1] = Inserted(f[j], s[j + 1][1], s[j + 1][2])
        /\ \A j \in 0 .. n : j < n => g[j + 1] = Inserted(g[j], t[j + 1][1], t[j + 1][2])
    <2>1. f[0] = b
      BY ReplayBegins
    <2>2. g[0] = b
      BY ReplayBegins
    <2>3. ASSUME NEW j \in 0 .. m, j < m PROVE f[j + 1] = Inserted(f[j], s[j + 1][1], s[j + 1][2])
      BY <2>3, ReplayGoesOn
    <2>4. ASSUME NEW j \in 0 .. n, j < n PROVE g[j + 1] = Inserted(g[j], t[j + 1][1], t[j + 1][2])
      BY <2>4, ReplayGoesOn
    <2> QED
      BY <2>1, <2>2, <2>3, <2>4
  <1>2. 0 \in S
    BY <1>1
  <1>3. ASSUME NEW j \in 0 .. i, j < i, j \in S PROVE j + 1 \in S
    <2>1. j \in 0 .. m /\ j < m /\ j \in 0 .. n /\ j < n /\ j + 1 \in 1 .. i /\ j + 1 \in 0 .. i
      BY <1>3
    <2>2. s[j + 1] = t[j + 1]
      BY <2>1 DEF SameCalls
    <2>3. f[j + 1] = g[j + 1]
      BY <1>1, <1>3, <2>1, <2>2
    <2> QED
      BY <2>1, <2>3
  <1>4. \A j \in 0 .. i : j < i /\ j \in S => j + 1 \in S
    BY <1>3
  <1> HIDE DEF S
  <1>5. 0 .. i \subseteq S
    BY <1>2, <1>4, Induction
  <1> QED
    BY <1>5 DEF S

LEMMA ReplaysAreContexts ==
  ASSUME NEW b, ContextOK(b), NEW s \in Called, NEW m \in Nat, m = Len(s), NEW f, Replays(b, s, m, f)
  PROVE  \A j \in 0 .. m : ContextOK(f[j])
  <1> DEFINE S == {j \in 0 .. m : ContextOK(f[j])}
  <1>1. m \in Nat /\ \A j \in 1 .. m : s[j] \in Kinds \X Values
    BY DEF Called
  <1>2. /\ f[0] = b
        /\ \A j \in 0 .. m : j < m => f[j + 1] = Inserted(f[j], s[j + 1][1], s[j + 1][2])
    BY <1>1, ReplayBegins, ReplayGoesOn
  <1>3. 0 \in S
    BY <1>1, <1>2
  <1>4. ASSUME NEW j \in 0 .. m, j < m, j \in S PROVE j + 1 \in S
    <2>1. j + 1 \in 1 .. m /\ j + 1 \in 0 .. m
      BY <1>1, <1>4
    <2>2. s[j + 1][1] \in Texts /\ s[j + 1][2] \in Texts
      BY <1>1, <2>1, KindsAndValuesAreTexts
    <2>3. ContextOK(f[j]) /\ f[j + 1] = Inserted(f[j], s[j + 1][1], s[j + 1][2])
      BY <1>2, <1>4
    <2>4. ContextOK(f[j + 1])
      BY <2>2, <2>3, InsertedOK
    <2> QED
      BY <2>1, <2>4
  <1>5. \A j \in 0 .. m : j < m /\ j \in S => j + 1 \in S
    BY <1>4
  <1> HIDE DEF S
  <1>6. 0 .. m \subseteq S
    BY <1>1, <1>3, <1>5, Induction
  <1> QED
    BY <1>6 DEF S

-----------------------------------------------------------------------------
(* The order of calls.                                                     *)

\* The context is what the calls accepted lead to, each accepted in turn.
Accepted(s, f) ==
  \A j \in 0 .. Len(s) : j < Len(s) => InsertResult(f[j], s[j + 1][1], s[j + 1][2]) = "Ok"

Traced ==
  /\ ContextOK(start) /\ ContextOK(context)
  /\ calls \in Called
  /\ \E f : Replays(start, calls, Len(calls), f) /\ Accepted(calls, f) /\ context = f[Len(calls)]

LEMMA TracedInit == Init => Traced
  <1> SUFFICES ASSUME Init PROVE Traced
    OBVIOUS
  <1>1. ContextOK(start) /\ context = start /\ calls = <<>> /\ Len(calls) = 0
    BY StartOK DEF Init
  <1>2. PICK f : Replays(start, calls, 0, f)
    BY ReplayExists
  <1>3. f[0] = start
    BY <1>2, ReplayBegins, ReplayGoesOn
  <1>4. Accepted(calls, f)
    BY <1>1 DEF Accepted
  <1> QED
    BY <1>1, <1>2, <1>3, <1>4 DEF Traced, Called

LEMMA TracedStep == Traced /\ [Next]_vars => Traced'
  <1> SUFFICES ASSUME Traced, [Next]_vars PROVE Traced'
    OBVIOUS
  <1>1. PICK f : /\ Replays(start, calls, Len(calls), f)
                 /\ Accepted(calls, f) /\ context = f[Len(calls)]
    BY DEF Traced
  <1>2. CASE start' = start /\ context' = context /\ calls' = calls
    <2>1. ContextOK(start') /\ ContextOK(context') /\ calls' \in Called
      BY <1>2 DEF Traced
    <2>2. Replays(start', calls', Len(calls'), f) /\ Accepted(calls', f) /\ context' = f[Len(calls')]
      BY <1>1, <1>2
    <2> QED
      BY <2>1, <2>2 DEF Traced, ContextOK, WellTyped, OneEntryPerKind, IndexPoints, Replays, Accepted
  <1>3. ASSUME NEW kind \in Kinds, NEW value \in Values, Insert(kind, value)
        PROVE  Traced'
    <2>1. start' = start /\ context' = Inserted(context, kind, value)
      BY <1>3 DEF Insert
    <2>2. CASE InsertResult(context, kind, value) # "Ok"
      <3>1. context' = context /\ calls' = calls
        BY <1>3, <2>2 DEF Insert, Inserted
      <3> QED
        BY <1>2, <2>1, <3>1
    <2>3. CASE InsertResult(context, kind, value) = "Ok"
      <3> DEFINE m == Len(calls)
                 t == Append(calls, <<kind, value>>)
      <3>1. calls \in Called /\ m \in Nat /\ t \in Called /\ Len(t) = m + 1
        BY DEF Traced, Called
      <3>2. /\ \A n \in 1 .. m : t[n] = calls[n]
            /\ t[m + 1] = <<kind, value>>
        <4>1. calls \in Seq(Kinds \X Values) /\ <<kind, value>> \in Kinds \X Values
          BY <3>1 DEF Called
        <4>2. DOMAIN calls = 1 .. m
          BY <4>1
        <4> QED
          BY <4>1, <4>2, AppendFacts
      <3>3. calls' = t
        BY <1>3, <2>3 DEF Insert
      <3> HIDE DEF t
      <3> DEFINE g == [n \in 0 .. m + 1 |-> IF n <= m THEN f[n]
                                            ELSE Inserted(f[m], t[m + 1][1], t[m + 1][2])]
      <3>4. Replays(start, t, m + 1, g)
        BY <1>1, <3>1, <3>2, ReplayGrows
      <3>5. g[m + 1] = Inserted(context, kind, value) /\ \A n \in 0 .. m : g[n] = f[n]
        BY <1>1, <3>1, <3>2
      <3> HIDE DEF g
      <3>6. Accepted(t, g)
        <4> SUFFICES ASSUME NEW j \in 0 .. m, j < m + 1
                     PROVE  InsertResult(g[j], t[j + 1][1], t[j + 1][2]) = "Ok"
          BY <3>1 DEF Accepted
        <4>1. CASE j = m
          BY <1>1, <2>3, <3>1, <3>2, <3>5, <4>1
        <4>2. CASE j < m
          <5>1. j + 1 \in 1 .. m
            BY <3>1, <4>2
          <5> QED
            BY <1>1, <3>2, <3>5, <4>2, <5>1 DEF Accepted
        <4> QED
          BY <3>1, <4>1, <4>2
      <3>7. ContextOK(start') /\ ContextOK(context')
        BY <2>1, KindsAndValuesAreTexts, InsertedOK DEF Traced
      <3>8. /\ calls' \in Called
            /\ Replays(start', calls', Len(calls'), g) /\ Accepted(calls', g)
            /\ context' = g[Len(calls')]
        BY <2>1, <3>1, <3>3, <3>4, <3>5, <3>6
      <3> QED
        BY <3>7, <3>8 DEF Traced, ContextOK, WellTyped, OneEntryPerKind, IndexPoints, Replays, Accepted
    <2> QED
      BY <2>2, <2>3
  <1> QED
    BY <1>2, <1>3 DEF Next, vars

LEMMA KeysOfAlike ==
  ASSUME NEW c, ContextOK(c), NEW d, ContextOK(d), Alike(c, d)
  PROVE  StableKey(c) = StableKey(d)
  <1>1. ASSUME NEW x, ContextOK(x)
        PROVE  StableKey(x) = {<<k, Held(x, k)>> : k \in Spelled(x)}
    <2>1. ASSUME NEW i \in DOMAIN x.entries
          PROVE  Listed(x, i) = Held(x, x.entries[i].kind)
      <3>1. i \in Positions(x, x.entries[i].kind)
        BY SameKindIsEquivalence DEF Positions
      <3>2. HasKind(x, x.entries[i].kind)
        BY <3>1 DEF HasKind
      <3> QED
        BY <1>1, <3>1, <3>2, PositionOfKind, HeldAtPosition
    <2> QED
      BY <2>1 DEF StableKey, Spelled
  <1>2. Spelled(c) = Spelled(d) /\ \A k \in Spelled(c) : Held(c, k) = Held(d, k)
    BY ViewTypes DEF Alike, Spelled
  <1> QED
    BY <1>1, <1>2

LEMMA TracedMeaning == Traced => KeyIgnoresOrder
  <1> SUFFICES ASSUME Traced, SpelledAlike, NEW n \in 2 .. Len(calls)
               PROVE  StableKey(Rebuilt(Swapped(n))) = StableKey(context)
    BY DEF KeyIgnoresOrder
  <1> DEFINE m == Len(calls)
             s == calls
             t == Swapped(n)
  <1>1. PICK f : Replays(start, s, m, f) /\ Accepted(s, f) /\ context = f[m]
    BY DEF Traced
  <1>2. s \in Called /\ m \in Nat /\ n \in Nat /\ n - 1 \in 1 .. m /\ n \in 1 .. m /\ n - 2 \in Nat
    BY DEF Traced, Called
  <1>3. /\ t \in Called /\ Len(t) = m
        /\ t[n - 1] = s[n] /\ t[n] = s[n - 1]
        /\ \A j \in 1 .. m : j # n /\ j # n - 1 => t[j] = s[j]
    <2>1. s \in Seq(Kinds \X Values) /\ s[n] \in Kinds \X Values /\ s[n - 1] \in Kinds \X Values
      BY <1>2 DEF Called
    <2>2. t = [calls EXCEPT ![n] = calls[n - 1], ![n - 1] = calls[n]]
      BY DEF Swapped
    <2> QED
      BY <1>2, <2>1, <2>2 DEF Called
  <1>4. PICK g : Replays(start, t, m, g) /\ Rebuilt(t) = g[m]
    BY <1>3, RebuiltReplays
  <1> HIDE DEF t, m
  <1>5. ContextOK(start) /\ \A j \in 0 .. m : ContextOK(f[j]) /\ ContextOK(g[j])
    <2>1. ContextOK(start)
      BY DEF Traced
    <2>2. Replays(start, s, Len(s), f) /\ Replays(start, t, Len(t), g) /\ Len(s) = m
      BY <1>1, <1>3, <1>4 DEF m
    <2> QED
      BY <1>2, <1>3, <2>1, <2>2, ReplaysAreContexts
  <1>6. /\ \A j \in 0 .. m : j < m => f[j + 1] = Inserted(f[j], s[j + 1][1], s[j + 1][2])
        /\ \A j \in 0 .. m : j < m => g[j + 1] = Inserted(g[j], t[j + 1][1], t[j + 1][2])
        /\ \A j \in 0 .. m : j < m => InsertResult(f[j], s[j + 1][1], s[j + 1][2]) = "Ok"
    <2>1. \A j \in 0 .. m : j < m => f[j + 1] = Inserted(f[j], s[j + 1][1], s[j + 1][2])
      <3>1. m \in Nat /\ Replays(start, s, m, f)
        BY <1>1, <1>2
      <3> HIDE DEF s
      <3> QED
        BY <3>1, ReplayGoesOn
    <2>2. \A j \in 0 .. m : j < m => g[j + 1] = Inserted(g[j], t[j + 1][1], t[j + 1][2])
      <3>1. m \in Nat /\ Replays(start, t, m, g)
        BY <1>2, <1>4
      <3> HIDE DEF s
      <3> QED
        BY <3>1, ReplayGoesOn
    <2>3. \A j \in 0 .. m : j < m => InsertResult(f[j], s[j + 1][1], s[j + 1][2]) = "Ok"
      BY <1>1 DEF Accepted, m
    <2> QED
      BY <2>1, <2>2, <2>3
  <1>7. f[n - 2] = g[n - 2]
    <2>1. \A j \in 1 .. n - 2 : s[j] = t[j]
      BY <1>2, <1>3
    <2>2. f[n - 2] = g[n - 2]
      <3>0. PICK i \in Nat, q \in Nat : i = n - 2 /\ q = m
        BY <1>2
      <3>1. i <= q /\ SameCalls(s, t, i)
        BY <1>2, <2>1, <3>0 DEF SameCalls
      <3> HIDE DEF s
      <3>2. i \in 0 .. i
        OBVIOUS
      <3>3. Replays(start, s, q, f) /\ Replays(start, t, q, g)
        BY <1>1, <1>4, <3>0
      <3>4. f[i] = g[i]
        BY <3>1, <3>2, <3>3, ReplaysAgree
      <3> QED
        BY <3>0, <3>4
    <2> QED
      BY <1>2, <2>2
  <1>8. Alike(f[n], g[n])
    <2> DEFINE c == f[n - 2]
               k == s[n - 1][1]
               v == s[n - 1][2]
               l == s[n][1]
               w == s[n][2]
    <2>1. /\ n - 2 \in 0 .. m /\ n - 2 < m /\ (n - 2) + 1 = n - 1
          /\ n - 1 \in 0 .. m /\ n - 1 < m /\ (n - 1) + 1 = n
      BY <1>2
    <2>2. f[n - 1] = Inserted(c, k, v) /\ InsertResult(c, k, v) = "Ok"
      BY <1>6, <2>1
    <2>3. f[n] = Inserted(f[n - 1], l, w) /\ InsertResult(f[n - 1], l, w) = "Ok"
      BY <1>6, <2>1
    <2>4. g[n - 1] = Inserted(c, l, w)
      BY <1>3, <1>6, <1>7, <2>1
    <2>5. g[n] = Inserted(g[n - 1], k, v)
      BY <1>3, <1>6, <2>1
    <2>6. s[n - 1] \in Kinds \X Values /\ s[n] \in Kinds \X Values
      BY <1>2 DEF Called
    <2>7. k \in Texts /\ v \in Texts /\ l \in Texts /\ w \in Texts
      BY <2>6, KindsAndValuesAreTexts
    <2>8. Trim[k] \in SpeltKinds /\ Trim[l] \in SpeltKinds
      <3>1. DOMAIN calls = 1 .. m
        BY <1>2 DEF m, Called
      <3> QED
        BY <1>2, <3>1 DEF SpeltKinds
    <2>9. SameKind(Trim[k], Trim[l]) => Trim[k] = Trim[l]
      BY <2>8 DEF SpelledAlike
    <2>10. ContextOK(c)
      BY <1>5, <2>1
    <2> HIDE DEF c, k, v, l, w
    <2> QED
      BY <2>2, <2>3, <2>4, <2>5, <2>7, <2>9, <2>10, InsertionsCommute
  <1>9. Alike(f[m], g[m])
    <2> DEFINE S == {j \in n .. m : Alike(f[j], g[j])}
    <2>1. n \in S
      BY <1>2, <1>8
    <2>2. ASSUME NEW j \in n .. m, j < m, j \in S PROVE j + 1 \in S
      <3>1. j \in 0 .. m /\ j + 1 \in 1 .. m /\ j + 1 # n /\ j + 1 # n - 1 /\ j + 1 \in n .. m
        BY <1>2, <2>2
      <3>2. t[j + 1] = s[j + 1] /\ s[j + 1] \in Kinds \X Values
        BY <1>2, <1>3, <3>1 DEF Called, m
      <3>3. s[j + 1][1] \in Texts /\ s[j + 1][2] \in Texts
        BY <3>2, KindsAndValuesAreTexts
      <3>4. /\ f[j + 1] = Inserted(f[j], s[j + 1][1], s[j + 1][2])
            /\ g[j + 1] = Inserted(g[j], s[j + 1][1], s[j + 1][2])
        BY <1>6, <2>2, <3>1, <3>2
      <3>5. Alike(f[j + 1], g[j + 1])
        BY <1>5, <2>2, <3>1, <3>3, <3>4, AlikeStaysAlike
      <3> QED
        BY <3>1, <3>5
    <2>3. \A j \in n .. m : j < m /\ j \in S => j + 1 \in S
      BY <2>2
    <2> HIDE DEF S
    <2>4. n .. m \subseteq S
      BY <1>2, <2>1, <2>3, Induction
    <2> QED
      BY <1>2, <2>4 DEF S
  <1> QED
    BY <1>1, <1>2, <1>4, <1>5, <1>9, KeysOfAlike DEF t

(***************************************************************************)
(* stable_key (request.rs), under which the mints of a principal are       *)
(* counted, does not depend on the order in which selectors were inserted, *)
(* if each kind is spelled in one way: whichever two neighbouring calls    *)
(* are swapped, the calls lead to the same key, for any number of calls    *)
(* and all limits, met or not.                                             *)
(***************************************************************************)
THEOREM OrderNeverMattersToKeys == Spec => []KeyIgnoresOrder
  BY TracedInit, TracedStep, TracedMeaning, PTL DEF Spec
=============================================================================
