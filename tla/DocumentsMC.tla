----------------------------- MODULE DocumentsMC ----------------------------
(* The three kinds of documents side by side: a behaviour is about one of   *)
(* them, and the other two rest at one initial state.                       *)
EXTENDS GrantDocumentsMC, TransitionDocuments, SelectorExpressions

VARIABLE subject

all == <<subject, grantVars, transitionVars, typing>>

MCStarts ==
  {<<>>, <<"equals", "(", "\"">>, <<" ", "equals", " ", "(", " ", "\"">>}

MCTransitionIdOf ==
  ("tg_1" :> "tg_1" @@ "tg_{1}" :> "tg_1" @@ "tg_2" :> "tg_2") @@ [t \in MCTexts |-> None]

-----------------------------------------------------------------------------
(* Raw transitions: each differs in one part from one that is well formed.  *)

Owned(kind, values) == [kind |-> kind, all |-> FALSE, values |-> values, expressions |-> None]

Owns(selectors) == [all |-> FALSE, allow |-> selectors, deny |-> None]

PlainTransition ==
  [transition_id |-> "tg_1", transition_series_id |-> "tgs_1", version |-> 0, revision |-> 1,
   supersedes |-> None, origin_authority |-> "https://a", from_authority |-> "https://a",
   to_authority |-> "https://b",
   scope |-> <<[name |-> "res", type |-> Owns(<<Owned("actor", <<"x">>)>>)]>>,
   global_constraints |-> None, effective_at |-> 1,
   predecessor_signature |-> [key_id |-> "key", signature |-> None],
   successor_acceptance |-> [accepted_at |-> 0, key_id |-> "key", signature |-> None]]

MCOwned ==
  {<<Owned("actor", <<"x", "y">>)>>, <<Owned("actor", <<"x", " x">>)>>, <<Owned("actor", <<" ">>)>>,
   <<Owned("actor", <<"x", "y", "x", "y">>)>>, <<Owned("actor", <<"long">>)>>,
   <<Owned("actor", <<>>)>>, <<Owned("actor", None)>>, <<Owned("two words", <<"x">>)>>,
   <<[Owned("actor", <<"x">>) EXCEPT !.all = TRUE]>>,
   <<[Owned("actor", <<"x">>) EXCEPT !.expressions = <<"equals(x)">>]>>,
   <<Owned("actor", <<"x">>), Owned("Actor", <<" x">>)>>,
   <<Owned("color", <<"x">>), Owned("Color", <<"x">>)>>,
   <<Owned("color", <<"x">>), Owned("actor", <<"x">>), Owned("actor", <<"y">>)>>, <<>>}

MCOwnedTypes ==
  {Owns(selectors) : selectors \in MCOwned}
  \cup {Owns(None), [Owns(<<Owned("actor", <<"x">>)>>) EXCEPT !.all = TRUE],
        [Owns(<<Owned("actor", <<"x">>)>>) EXCEPT !.deny = <<Owned("actor", <<"y">>)>>]}

MCOwnershipScopes ==
  {<<[name |-> "res", type |-> t]>> : t \in MCOwnedTypes}
  \cup {<<>>, <<[name |-> "two words", type |-> Owns(<<Owned("actor", <<"x">>)>>)]>>,
        <<[name |-> " res", type |-> Owns(<<Owned("actor", <<"x">>)>>)],
          [name |-> "res", type |-> Owns(<<Owned("actor", <<"y">>)>>)]>>,
        <<[name |-> "res", type |-> Owns(<<Owned("actor", <<"x">>)>>)],
          [name |-> "x", type |-> Owns(<<Owned("actor", <<"x">>)>>)],
          [name |-> "y", type |-> Owns(<<Owned("actor", <<"x">>)>>)]>>}

Between(first, last) == [time |-> [not_before |-> first, not_after |-> last]]

MCTransitionChanges ==
  ({"transition_id", "supersedes"} \X {"tg_{1}", "tg_2"})
  \cup {<<"transition_series_id", "tgs_2">>, <<"transition_series_id", "x">>, <<"version", 1>>,
        <<"revision", 0>>, <<"revision", 2>>, <<"effective_at", 0>>,
        <<"origin_authority", "https://b">>, <<"origin_authority", "bare">>,
        <<"predecessor_signature", " key">>, <<"successor_acceptance", 0>>, <<"successor_acceptance", 1>>}
  \cup ({"from_authority", "to_authority"} \X {"HTTPS://A", "https://b", "bare"})
  \cup ({"scope"} \X MCOwnershipScopes)
  \cup ({"global_constraints"} \X {Between(1, 1), Between(1, 0), Between(2, 2), [time |-> None]})

MCRawTransitions ==
  {PlainTransition, [PlainTransition EXCEPT !.revision = 2, !.supersedes = "tg_2"]}
  \cup {[PlainTransition EXCEPT ![change[1]] = change[2]] :
          change \in {c \in MCTransitionChanges :
                        c[1] \notin {"predecessor_signature", "successor_acceptance"}}}

MCKeys == {<<"https://a", "key">>, <<"https://b", "key">>}

-----------------------------------------------------------------------------
Init ==
  /\ subject \in {"grant", "transition", "expression"}
  /\ IF subject = "grant" THEN GrantInit
     ELSE draft = None /\ issued = None /\ wire = None /\ verified = None /\ held = None
          /\ stored = None /\ changes = 0
  /\ IF subject = "transition" THEN TransitionInit
     ELSE transition = None /\ proposals = {} /\ acceptances = {} /\ verdict = None /\ alterations = 0
  /\ IF subject = "expression" THEN TypingInit ELSE text = <<>> /\ typed = 0

Next ==
  \/ subject = "grant" /\ GrantNext /\ UNCHANGED <<subject, transitionVars, typing>>
  \/ subject = "transition" /\ TransitionNext /\ UNCHANGED <<subject, grantVars, typing>>
  \/ subject = "expression" /\ TypingNext /\ UNCHANGED <<subject, grantVars, transitionVars>>

Spec == Init /\ [][Next]_all
=============================================================================
