-------------------------- MODULE SelectorContextMC -------------------------
(* Values for SelectorContext: two spellings of a built-in kind, two of a   *)
(* kind that is not, padded texts, and one text for each refusal.           *)
EXTENDS SelectorMatching, TLC

MCKinds  == {"actor", " Actor", "color", "Color", "two words", " "}
MCValues == {"a", "b", " c", " ", "much too long"}
MCTexts  == MCKinds \cup MCValues \cup {"Actor", "c", "", "authority", "authority_id", "https://x"}

MCTrim ==
  (" Actor" :> "Actor" @@ " c" :> "c" @@ " " :> "") @@ [t \in MCTexts |-> t]

MCLower ==
  ("Actor" :> "actor" @@ " Actor" :> "actor" @@ "Color" :> "color") @@ [t \in MCTexts |-> t]

MCSelectors ==
  [kind : {"actor", "Actor", "color"}, all : BOOLEAN,
   values : {{}, {"a"}, {"b", "https://x"}}, expressions : {{}, {{"c"}}, {{"a", "c"}, {"b"}}}]
=============================================================================
