------------------------- MODULE SelectorExpressions ------------------------
(***************************************************************************)
(* Selector expressions as text (trustgrant-domain: selector_expression.rs):*)
(* equals("..."), with escapes in the argument.  Grants are stored with the *)
(* text an expression displays and read back by parsing it.  A text is a   *)
(* sequence of characters, the name of a predicate being one of them.      *)
(***************************************************************************)
EXTENDS Sequences, Naturals

CONSTANTS
  Predicates,    \* names of predicates
  Plain,         \* characters without a role, of which "n" is one
  MaxExpression, \* MAX_SELECTOR_EXPRESSION_BYTES
  Starts,        \* texts that are typed on
  TypedBound     \* bound: characters typed

Quote     == "\""
Backslash == "\\"
Newline   == "\n"

Whitespace == {" ", Newline}
Control    == {Newline}
Characters == Predicates \cup Plain \cup {"(", ")", Quote, Backslash} \cup Whitespace

ASSUME ExpressionsAssumption ==
  /\ "n" \in Plain
  /\ (Predicates \cup Plain) \cap {"(", ")", Quote, Backslash, " ", Newline} = {}
  /\ MaxExpression \in Nat /\ TypedBound \in Nat
  /\ Starts \subseteq Seq(Characters)

VARIABLES text, typed

typing == <<text, typed>>

Invalid == [valid |-> FALSE]

\* str::trim.
Trimmed(t) ==
  LET inside == {i \in DOMAIN t : t[i] \notin Whitespace}
  IN  IF inside = {} THEN <<>>
      ELSE SubSeq(t, CHOOSE i \in inside : \A j \in inside : i <= j,
                     CHOOSE i \in inside : \A j \in inside : i >= j)

\* What an escape stands for.
Escapes == [c \in {Backslash, Quote, "n"} |-> IF c = "n" THEN Newline ELSE c]

StandsForItself(c) == c # Quote /\ c \notin Control

\* One more character of an argument, read from the left: an escape has to be
\* one that there is, a quote or a control character may not stand alone.
Begun == [valid |-> TRUE, argument |-> <<>>, escaping |-> FALSE]

ReadOn(read, c) ==
  IF ~read.valid THEN Invalid
  ELSE IF read.escaping
  THEN IF c \in DOMAIN Escapes
       THEN [valid |-> TRUE, argument |-> Append(read.argument, Escapes[c]), escaping |-> FALSE]
       ELSE Invalid
  ELSE IF c = Backslash THEN [read EXCEPT !.escaping = TRUE]
  ELSE IF StandsForItself(c) THEN [read EXCEPT !.argument = Append(@, c)]
  ELSE Invalid

Unescaped(inner) ==
  LET read[i \in 0 .. Len(inner)] == IF i = 0 THEN Begun ELSE ReadOn(read[i - 1], inner[i])
  IN  read[Len(inner)]

\* The argument in quotes; an escape at its end lacks its second character.
ParseQuotedArgument(t) ==
  LET read   == Unescaped(SubSeq(t, 2, Len(t) - 1))
      quoted == Len(t) >= 2 /\ t[1] = Quote /\ t[Len(t)] = Quote
  IN  IF quoted /\ read.valid /\ ~read.escaping /\ Len(read.argument) <= MaxExpression
      THEN [valid |-> TRUE, argument |-> read.argument]
      ELSE Invalid

\* SelectorExpression::parse.
Parse(t) ==
  LET value    == Trimmed(t)
      opening  == {i \in DOMAIN value : value[i] = "("}
      open     == CHOOSE i \in opening : \A j \in opening : i <= j
      name     == Trimmed(SubSeq(value, 1, open - 1))
      argument == ParseQuotedArgument(Trimmed(SubSeq(value, open + 1, Len(value) - 1)))
  IN  IF /\ value # <<>> /\ Len(value) <= MaxExpression
         /\ opening # {} /\ value[Len(value)] = ")"
         /\ name \in {<<p>> : p \in Predicates}
         /\ argument.valid
      THEN [valid |-> TRUE, predicate |-> name[1], argument |-> argument.argument]
      ELSE Invalid

\* Mutant: quotes are not escaped.
EscapedBackslash(c) ==
  IF c = Backslash THEN <<Backslash, c>> ELSE IF c = Newline THEN <<Backslash, "n">> ELSE <<c>>

Escaped(c) ==
  IF c \in {Backslash, Quote} THEN <<Backslash, c>> ELSE IF c = Newline THEN <<Backslash, "n">> ELSE <<c>>

\* fmt::Display.
EscapedText(argument) ==
  LET written[i \in 0 .. Len(argument)] ==
        IF i = 0 THEN <<>> ELSE written[i - 1] \o Escaped(argument[i])
  IN  written[Len(argument)]

Display(expression) ==
  <<expression.predicate, "(", Quote>> \o EscapedText(expression.argument) \o <<Quote, ")">>

-----------------------------------------------------------------------------
TypingInit == text \in Starts /\ typed = 0

Type(character) ==
  /\ typed < TypedBound
  /\ text' = Append(text, character)
  /\ typed' = typed + 1

TypingNext == \E character \in Characters : Type(character)

TypingSpec == TypingInit /\ [][TypingNext]_typing

-----------------------------------------------------------------------------
\* An expression is read back as it was: whatever text was accepted, the
\* text it is stored as is accepted again, as the same expression, within
\* the same limit and with nothing left to trim; and every argument there
\* can be has a text that means it.
ExpressionsReadBack ==
  LET accepted == Parse(text)
  IN  /\ accepted.valid =>
           LET stored == Display(accepted)
           IN  /\ Parse(stored) = accepted
               /\ Trimmed(stored) = stored /\ Len(stored) <= Len(Trimmed(text))
      /\ \A p \in Predicates :
           LET meant == [valid |-> TRUE, predicate |-> p, argument |-> text]
           IN  Len(Display(meant)) <= MaxExpression => Parse(Display(meant)) = meant
=============================================================================
