--------------------------- MODULE SelectorMatching -------------------------
(***************************************************************************)
(* selector_matches_context of engine.rs over a SelectorContext: the index *)
(* or the scan finds the values, a short list is scanned and a long one    *)
(* hashed.  EvaluationRules reads the same answer off sets of values.      *)
(***************************************************************************)
EXTENDS SelectorContext

CONSTANTS
  Selectors,    \* selectors of a grant; an expression is the set of values it matches
  LinearScan    \* values up to which matching scans, 8 in the code

ASSUME MatchingAssumption ==
  /\ Selectors \subseteq [kind : Texts, all : BOOLEAN,
                         values : SUBSET Texts, expressions : SUBSET SUBSET Texts]
  /\ LinearScan \in Nat

Rules == INSTANCE EvaluationRules WITH None <- "None", MaxU64 <- 1

\* Mutant: expressions are tried on short lists only.
MatchesWithoutExpressions(selector, ctx) ==
  LET values == ValuesForKind(ctx, selector.kind)
  IN  \/ selector.all
      \/ selector.values \cap values # {}
      \/ /\ Cardinality(values) <= LinearScan
         /\ \E e \in selector.expressions : e \cap values # {}

\* selector_matches_context, small lists by a scan, longer ones by a set;
\* an expression is the set of values it matches.
SelectorMatchesContext(selector, ctx) ==
  LET values == ValuesForKind(ctx, selector.kind)
  IN  \/ selector.all
      \/ \E e \in selector.expressions : e \cap values # {}
      \/ /\ Cardinality(values) <= LinearScan
         /\ \E v \in selector.values : v \in values
      \/ /\ Cardinality(values) > LinearScan
         /\ selector.values \cap values # {}

-----------------------------------------------------------------------------
\* A context as EvaluationRules has it: a function from kinds to values, in
\* which all spellings of a kind are one.
Canonical(kind) == IF Classification(kind) = "Other" THEN kind ELSE Classification(kind)

Abstract ==
  [kind \in {Canonical(context.entries[i].kind) : i \in DOMAIN context.entries} |->
     UNION {Listed(context, i) :
              i \in {j \in DOMAIN context.entries : Canonical(context.entries[j].kind) = kind}}]

\* The engine matches a selector of any spelling, on short lists and on long
\* ones, exactly when the rules match its canonical form.
MatchesLikeRules ==
  \A selector \in Selectors :
    SelectorMatchesContext(selector, context)
      <=> Rules!SelectorMatches([selector EXCEPT !.kind = Canonical(@)], Abstract)
=============================================================================
