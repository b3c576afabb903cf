-------------------------------- MODULE Names -------------------------------
(***************************************************************************)
(* Texts as trustgrant-domain reads them (names.rs, authority.rs).  A text *)
(* is a value; what the code does with one is trim it, fold its case, and  *)
(* refuse it when it is blank, too long, or has a space in a token.        *)
(***************************************************************************)
EXTENDS Naturals

CONSTANTS
  Texts,   \* texts as callers and documents spell them
  Trim,    \* text -> text without surrounding white space
  Lower,   \* text -> text in lower case
  Blank,   \* the empty text
  Long,    \* texts over the byte limit of their field
  Spaced,  \* texts with white space or control characters inside
  Bare     \* texts without a scheme in front

ASSUME NamesAssumption ==
  /\ Trim \in [Texts -> Texts] /\ Lower \in [Texts -> Texts]
  /\ \A t \in Texts : Trim[Trim[t]] = Trim[t] /\ Lower[Lower[t]] = Lower[t]
  /\ \A t \in Texts : Trim[Lower[t]] = Lower[Trim[t]]
  /\ \A t \in Texts : Lower[t] \in Spaced \cup {Blank} => t \in Spaced \cup {Blank}
  /\ Blank \in Texts /\ Long \subseteq Texts /\ Spaced \subseteq Texts
  /\ Bare \subseteq Texts

\* Results of the constructors: "Ok" or the error, the first of several.
FirstError(results) ==
  LET bad == {i \in DOMAIN results : results[i] # "Ok"}
  IN  IF bad = {} THEN "Ok" ELSE results[CHOOSE i \in bad : \A j \in bad : i <= j]

TextResult(t) ==
  IF Trim[t] = Blank THEN "EmptyStringField"
  ELSE IF Trim[t] \in Long THEN "StringLimitExceeded" ELSE "Ok"

TokenResult(t) ==
  IF TextResult(t) # "Ok" THEN TextResult(t)
  ELSE IF Trim[t] \in Spaced THEN "InvalidStringFieldCharacter" ELSE "Ok"

\* Identifiers of authorities are kept and compared in lower case, which may
\* be longer than what was given.
AuthorityOf(t) == Lower[Trim[t]]

AuthorityResult(t) ==
  IF TokenResult(t) # "Ok" THEN TokenResult(t)
  ELSE IF AuthorityOf(t) \in Long THEN "StringLimitExceeded"
  ELSE IF AuthorityOf(t) \in Bare THEN "InvalidAuthorityIdMissingScheme" ELSE "Ok"

-----------------------------------------------------------------------------
(* Kinds of selectors.  Three built-in kinds are recognized in any case,   *)
(* all others are what they are spelled.                                   *)

BuiltInKinds == {"authority", "namespace", "actor"}

Classification(kind) == IF Lower[kind] \in BuiltInKinds THEN Lower[kind] ELSE "Other"

SameKind(left, right) ==
  IF Classification(left) = "Other" /\ Classification(right) = "Other"
  THEN left = right
  ELSE Classification(left) = Classification(right)
=============================================================================
