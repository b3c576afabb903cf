-------------------------- MODULE OwnershipRecords --------------------------
(***************************************************************************)
(* Ownership transitions as data: what the constructors of trustgrant-     *)
(* domain enforce of every record, when the scope of a transition covers   *)
(* that of a document, and what a chain of transitions has to be to hand   *)
(* a lineage on from its origin to the owner a document declares.          *)
(***************************************************************************)
EXTENDS Integers, Sequences, FiniteSets

CONSTANTS
  None,
  Authorities,
  TransitionIds,
  SeriesIds,
  Times,           \* instants, as integers
  Transitions,     \* OwnershipTransitionRecords a source may deliver
  Documents,       \* validated documents: origin, active and scope
  MaxChainLength   \* MAX_OWNERSHIP_CHAIN_LENGTH, 32 in the code

\* What the constructors of the records enforce before a chain is walked.
Lineage(t) ==
  /\ t.id \in TransitionIds /\ t.series \in SeriesIds /\ t.revision \in Nat \ {0}
  /\ t.supersedes \in TransitionIds \cup {None}
  /\ (t.revision = 1) <=> (t.supersedes = None)
  /\ t.supersedes # t.id

Parties(t) ==
  /\ {t.origin, t.predecessor, t.successor} \subseteq Authorities
  /\ t.predecessor # t.successor

Contains(window, time) == window.not_before <= time /\ time <= window.not_after

EffectiveInWindow(t) == t.window # None => Contains(t.window, t.effective_at)

ASSUME RecordsAssumption ==
  /\ None \notin TransitionIds \cup SeriesIds \cup Authorities \cup Int
  /\ Times \subseteq Int
  /\ MaxChainLength \in Nat
  /\ \A t \in Transitions :
       Lineage(t) /\ Parties(t) /\ EffectiveInWindow(t) /\ t.effective_at \in Times
  /\ \A d \in Documents : {d.origin, d.active} \subseteq Authorities

-----------------------------------------------------------------------------
(* Scope coverage.  A scope maps resource types to selectors; the document *)
(* may also say `all`, deny, or use expressions and `all` in a selector,   *)
(* none of which an explicit transition scope can be shown to cover.       *)

\* Mutant: a value is looked up among the selectors of every kind.
SelectorCoveredByAnyKind(selector, transition_selectors) ==
  /\ selector.explicit
  /\ selector.values \subseteq UNION {s.values : s \in transition_selectors}

\* Mutant: one selector of the transition has to hold all the values.
SelectorCoveredByOne(selector, transition_selectors) ==
  /\ selector.explicit
  /\ selector.values # {}
  /\ \E s \in transition_selectors :
       s.kind = selector.kind /\ selector.values \subseteq s.values

SelectorCovered(selector, transition_selectors) ==
  /\ selector.explicit
  /\ selector.values # {}
  /\ selector.values \subseteq
       UNION {s.values : s \in {x \in transition_selectors : x.kind = selector.kind}}

ResourceTypeCovered(entry, transition_selectors) ==
  /\ ~entry.all
  /\ entry.deny = {}
  /\ \A selector \in entry.allow : SelectorCovered(selector, transition_selectors)

ScopeCovers(document_scope, transition_scope) ==
  \A type \in DOMAIN document_scope :
    /\ type \in DOMAIN transition_scope
    /\ ResourceTypeCovered(document_scope[type], transition_scope[type])

-----------------------------------------------------------------------------
(* What a chain of transitions has to be, said once for all of it.         *)

Before(chain, origin, i) == IF i = 1 THEN origin ELSE chain[i - 1].successor

\* The first n transitions of a chain hand the lineage of a document on.
LinkedPrefix(chain, doc, time, n) ==
  \A i \in 1 .. n :
    /\ chain[i].origin = doc.origin
    /\ chain[i].predecessor = Before(chain, doc.origin, i)
    /\ chain[i].supersedes = IF i = 1 THEN None ELSE chain[i - 1].id
    /\ chain[i].effective_at <= time
    /\ chain[i].window # None => Contains(chain[i].window, time)
    /\ ScopeCovers(doc.scope, chain[i].scope)
    /\ \A j \in 1 .. i - 1 :
         /\ chain[j].id # chain[i].id
         /\ chain[j].series = chain[i].series
         /\ chain[j].revision < chain[i].revision
         /\ chain[j].effective_at <= chain[i].effective_at

OwnerAfter(chain, doc) == Before(chain, doc.origin, Len(chain) + 1)

ProvesOwnership(chain, doc, time) ==
  /\ Len(chain) <= MaxChainLength
  /\ LinkedPrefix(chain, doc, time, Len(chain))
  /\ OwnerAfter(chain, doc) = doc.active

\* The resources a document reaches (explicitly), one by one.
Reach(scope) ==
  UNION {UNION {{<<type, s.kind, v>> : v \in s.values} : s \in scope[type].allow}
           : type \in DOMAIN scope}
Conveyed(scope) ==
  UNION {UNION {{<<type, s.kind, v>> : v \in s.values} : s \in scope[type]}
           : type \in DOMAIN scope}
=============================================================================
