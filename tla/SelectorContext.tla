--------------------------- MODULE SelectorContext --------------------------
(***************************************************************************)
(* SelectorContext of trustgrant-evaluate/src/request.rs, built by any     *)
(* sequence of insertions: a list of entries, one for each kind, and an    *)
(* index from built-in kinds to positions in the list.  The values a       *)
(* request is evaluated with, and the key under which the mints of a       *)
(* principal are counted, are read from it.                                *)
(***************************************************************************)
EXTENDS Names, Naturals, Sequences, FiniteSets

CONSTANTS
  Kinds,        \* texts offered as kinds
  Values,       \* texts offered as values
  Authority,    \* the text of the authority of a request
  MaxKinds,     \* MAX_REQUEST_SELECTOR_KINDS, 32 in the code
  MaxValues,    \* MAX_REQUEST_VALUES_PER_KIND, 32 in the code
  InsertBound   \* bound: insertions into one context

ASSUME ContextAssumption ==
  /\ Kinds \subseteq Texts /\ Values \subseteq Texts /\ Authority \in Texts
  /\ {"authority", "authority_id"} \subseteq Texts
  /\ MaxKinds \in Nat \ {0} /\ MaxValues \in Nat \ {0}
  /\ InsertBound \in Nat

EmptyContext == [entries |-> <<>>, kind_index |-> [k \in BuiltInKinds |-> 0]]

Positions(context, kind) ==
  {i \in DOMAIN context.entries : SameKind(context.entries[i].kind, kind)}

HasKind(context, kind) == Positions(context, kind) # {}

\* `find` of an iterator: the first entry of the kind.
Position(context, kind) ==
  CHOOSE i \in Positions(context, kind) : \A j \in Positions(context, kind) : i <= j

Listed(context, i) ==
  {context.entries[i].values[j] : j \in DOMAIN context.entries[i].values}

ValueFits(context, i, value) ==
  value \in Listed(context, i) \/ Len(context.entries[i].values) < MaxValues

InsertResult(context, kind, value) ==
  IF TokenResult(kind) # "Ok" THEN TokenResult(kind)
  ELSE IF TextResult(value) # "Ok" THEN TextResult(value)
  ELSE IF IF HasKind(context, Trim[kind])
          THEN ValueFits(context, Position(context, Trim[kind]), Trim[value])
          ELSE Len(context.entries) < MaxKinds
       THEN "Ok" ELSE "CollectionLimitExceeded"

WithValue(context, i, value) ==
  IF value \in Listed(context, i) THEN context
  ELSE [context EXCEPT !.entries[i].values = Append(@, value)]

\* Mutant: the slot gets the position the next entry will have.
WithKindOffByOne(context, kind, value) ==
  [entries    |-> Append(context.entries, [kind |-> kind, values |-> <<value>>]),
   kind_index |-> [k \in BuiltInKinds |-> IF k = Classification(kind)
                                          THEN Len(context.entries) + 2
                                          ELSE context.kind_index[k]]]

WithKind(context, kind, value) ==
  [entries    |-> Append(context.entries, [kind |-> kind, values |-> <<value>>]),
   kind_index |-> [k \in BuiltInKinds |-> IF k = Classification(kind)
                                          THEN Len(context.entries) + 1
                                          ELSE context.kind_index[k]]]

\* SelectorContext::insert: an error leaves the context as it was.
Inserted(context, kind, value) ==
  IF InsertResult(context, kind, value) # "Ok" THEN context
  ELSE IF HasKind(context, Trim[kind])
  THEN WithValue(context, Position(context, Trim[kind]), Trim[value])
  ELSE WithKind(context, Trim[kind], Trim[value])

\* What EvaluationRequest::new puts into the target and audience contexts.
AuthorityContext ==
  Inserted(Inserted(EmptyContext, "authority", Authority), "authority_id", Authority)

-----------------------------------------------------------------------------
(* Reading a context.                                                      *)

IndexSlot(context, kind) ==
  IF Classification(kind) \in BuiltInKinds THEN context.kind_index[Classification(kind)] ELSE 0

\* Mutant: kinds that are not in the index are not looked for.
ValuesByIndexOnly(context, kind) ==
  IF IndexSlot(context, kind) \in DOMAIN context.entries
  THEN Listed(context, IndexSlot(context, kind)) ELSE {}

\* values_for_kind: through the index when it has the kind, else by a scan.
ValuesForKind(context, kind) ==
  IF IndexSlot(context, kind) \in DOMAIN context.entries
  THEN Listed(context, IndexSlot(context, kind))
  ELSE IF HasKind(context, kind) THEN Listed(context, Position(context, kind)) ELSE {}

\* Mutant: the key lists the entries as they came.
KeyInOrder(context) ==
  [i \in DOMAIN context.entries |-> <<context.entries[i].kind, Listed(context, i)>>]

\* stable_key: sorted by spelling and values, every part with its length,
\* so that two keys are equal just when these sets are.
StableKey(context) ==
  {<<context.entries[i].kind, Listed(context, i)>> : i \in DOMAIN context.entries}

-----------------------------------------------------------------------------
(* A caller that fills one context of a request.                           *)

VARIABLES
  start,     \* the context as EvaluationRequest::new left it
  context,   \* the context
  calls      \* the insertions accepted, oldest first

vars == <<start, context, calls>>

Init ==
  /\ start \in {EmptyContext, AuthorityContext}
  /\ context = start
  /\ calls = <<>>

Insert(kind, value) ==
  /\ Len(calls) < InsertBound
  /\ context' = Inserted(context, kind, value)
  /\ calls' = IF InsertResult(context, kind, value) = "Ok"
              THEN Append(calls, <<kind, value>>) ELSE calls
  /\ UNCHANGED start

Next == \E kind \in Kinds, value \in Values : Insert(kind, value)

Spec == Init /\ [][Next]_vars

-----------------------------------------------------------------------------
\* No two entries are of one kind, and the index has the position of every
\* built-in kind that has an entry: whatever is inserted in whatever case,
\* the shortcut of values_for_kind and the scan see the same entry.
IndexIsExact ==
  /\ \A i, j \in DOMAIN context.entries :
       SameKind(context.entries[i].kind, context.entries[j].kind) => i = j
  /\ \A k \in BuiltInKinds :
       IF \E i \in DOMAIN context.entries : Classification(context.entries[i].kind) = k
       THEN /\ context.kind_index[k] \in DOMAIN context.entries
            /\ Classification(context.entries[context.kind_index[k]].kind) = k
       ELSE context.kind_index[k] = 0

\* The values inserted under a kind, by reference: no entries, no index.
InsertedValues(kind) ==
  (UNION {Listed(start, i) : i \in Positions(start, kind)})
  \cup {Trim[calls[i][2]] : i \in {j \in DOMAIN calls : SameKind(Trim[calls[j][1]], kind)}}

\* A reader gets, by any spelling of a kind, all values inserted under any
\* spelling of it and no others, through the index as well as by the scan.
ReadsWhatWasInserted ==
  \A kind \in {Trim[k] : k \in Kinds} : ValuesForKind(context, kind) = InsertedValues(kind)

\* The context that the calls lead to with the n-th one made before the one
\* that came before it.  As every order of calls is a behaviour, swaps of
\* neighbours make up all orders.
Swapped(n) == [calls EXCEPT ![n] = calls[n - 1], ![n - 1] = calls[n]]

Rebuilt(sequence) ==
  LET after[n \in 0 .. Len(sequence)] ==
        IF n = 0 THEN start
        ELSE Inserted(after[n - 1], sequence[n][1], sequence[n][2])
  IN  after[Len(sequence)]

SpeltKinds == {Trim[calls[i][1]] : i \in DOMAIN calls}
              \cup {start.entries[i].kind : i \in DOMAIN start.entries}

SpelledAlike == \A k, l \in SpeltKinds : SameKind(k, l) => k = l

\* The counter of a principal does not depend on the order in which its
\* selectors were added, if each kind is spelled in one way.
KeyIgnoresOrder ==
  SpelledAlike =>
    \A n \in 2 .. Len(calls) : StableKey(Rebuilt(Swapped(n))) = StableKey(context)
=============================================================================
