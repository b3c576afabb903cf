-------------------------- MODULE OwnershipTransfer -------------------------
(***************************************************************************)
(* The life of one lineage: authorities sign transfers and acceptances     *)
(* over time, each on its own clock, keys come into force and retire, and  *)
(* at any moment a verifier may be handed any sequence of the transitions  *)
(* that circulate.  A verification is one synchronous call on fixed        *)
(* inputs, so that what it would answer is a state function here           *)
(* (OwnershipChain shows that the walk computes ProvesOwnership).          *)
(***************************************************************************)
EXTENDS OwnershipRecords

Seqs == INSTANCE SequencesExt

CONSTANTS
  Origin,        \* the authority the lineage starts from
  KeyActive,     \* authority -> the instants at which its key is active
  Horizon,       \* bound: the last instant of the model
  MaxSkew,       \* bound: how far the clock of an accepting party runs ahead
  MaxSigned,     \* bound: the number of transitions ever signed
  MaxUnfaithful  \* bound: the same, where authorities sign what they like

ASSUME TransferAssumption ==
  /\ Origin \in Authorities
  /\ KeyActive \in [Authorities -> SUBSET Times]
  /\ Horizon \in Nat /\ MaxSkew \in Nat /\ {MaxSigned, MaxUnfaithful} \subseteq Nat
  /\ 0 .. Horizon + MaxSkew \subseteq Times

VARIABLES
  now,         \* the verifiers' clock
  proposed,    \* the transitions signed by their predecessors, oldest first
  accepted     \* transition -> the accepted_at its successor signed

vars == <<now, proposed, accepted>>

Init == now = 0 /\ proposed = <<>> /\ accepted = <<>>

Signed == {proposed[i] : i \in DOMAIN proposed}

\* An authority that keeps to the rules hands on only what it has been
\* given, once, and not from before it was given.
MayFollow(earlier, t) ==
  /\ t.origin = Origin
  /\ IF earlier = <<>>
     THEN t.predecessor = Origin /\ t.revision = 1
     ELSE LET last == earlier[Len(earlier)]
          IN  /\ last \in DOMAIN accepted
              /\ t.predecessor = last.successor /\ t.supersedes = last.id
              /\ t.series = last.series /\ t.revision > last.revision
              /\ t.effective_at >= last.effective_at
              /\ \A i \in DOMAIN earlier : earlier[i].id # t.id

\* All that was signed so far could have been signed by authorities that
\* keep to the rules.
Faithful ==
  \A i \in DOMAIN proposed : MayFollow(SubSeq(proposed, 1, i - 1), proposed[i])

Propose(t) ==
  /\ \/ Len(proposed) < MaxUnfaithful
     \/ Len(proposed) < MaxSigned /\ Faithful /\ MayFollow(proposed, t)
  /\ t \notin Signed
  /\ proposed' = Append(proposed, t)
  /\ UNCHANGED <<now, accepted>>

\* The successor signs the proposal together with the time on its clock.
Accept(t, at) ==
  /\ t \in Signed \ DOMAIN accepted
  /\ accepted' = [u \in DOMAIN accepted \cup {t} |-> IF u = t THEN at ELSE accepted[u]]
  /\ UNCHANGED <<now, proposed>>

Tick == now < Horizon /\ now' = now + 1 /\ UNCHANGED <<proposed, accepted>>

Next ==
  \/ Tick
  \/ \E t \in Transitions : Propose(t)
  \/ \E t \in Signed : \E at \in now .. now + MaxSkew : Accept(t, at)

Spec == Init /\ [][Next]_vars

-----------------------------------------------------------------------------
(* What a verifier answers at one moment.                                  *)

SignerKeyActive(authority, time) == time \in KeyActive[authority]

\* Mutants: the acceptance may lie in the verifier's future; it does not
\* count at its own instant; it expires.
AcceptanceSigned(t, time) == t \in DOMAIN accepted
AcceptanceEarlier(t, time) == t \in DOMAIN accepted /\ accepted[t] < time
AcceptanceExpires(t, time) == t \in DOMAIN accepted /\ time \in accepted[t] .. accepted[t] + 1

AcceptanceVerifies(t, time) == t \in DOMAIN accepted /\ accepted[t] <= time

\* OwnershipTransitionVerifier::verify_raw_document: both bindings, the
\* acceptance time, then both signatures.
TransitionVerifies(t, time) ==
  /\ SignerKeyActive(t.predecessor, time)
  /\ SignerKeyActive(t.successor, time)
  /\ AcceptanceVerifies(t, time)
  /\ t \in Signed

\* Mutant: the chain is taken without verifying its transitions.
OwnershipByRecords(chain, doc, time) == ProvesOwnership(chain, doc, time)

\* The ownership steps of verify_raw_document_with_sources: every
\* transition is verified before the chain is walked.
OwnershipVerifies(chain, doc, time) ==
  /\ \A i \in DOMAIN chain : TransitionVerifies(chain[i], time)
  /\ ProvesOwnership(chain, doc, time)

\* The document itself: its signer binding is that of its issuer.
GrantVerifies(chain, doc, time) ==
  /\ time \in KeyActive[doc.issuer]
  /\ OwnershipVerifies(chain, doc, time)

Offers == UNION {[1 .. n -> Transitions] : n \in 0 .. MaxSigned}

Verifying(time) == {chain \in Offers : \E doc \in Documents : OwnershipVerifies(chain, doc, time)}

-----------------------------------------------------------------------------
\* Whatever is offered, and however it is ordered, verifiers never see two
\* histories: of any two chains that verify, one continues the other (the
\* lineage checks of chain.rs against reordered and partial deliveries).
VerifyingChainsAgree ==
  Faithful =>
    \A c, d \in Verifying(now) : Seqs!IsPrefix(c, d) \/ Seqs!IsPrefix(d, c)

\* A lineage is never stuck: when every transfer signed so far has been
\* accepted, has taken effect and can be checked, the new owner can prove
\* its ownership, and can for as long as that lasts.
SettledTransferVerifies ==
  (/\ Faithful /\ Len(proposed) <= MaxChainLength
   /\ \A t \in Signed :
        /\ t \in DOMAIN accepted /\ accepted[t] <= now
        /\ t.effective_at <= now
        /\ t.window # None => Contains(t.window, now)
        /\ now \in KeyActive[t.predecessor] \cap KeyActive[t.successor]) =>
    \A doc \in Documents :
      (/\ doc.origin = Origin /\ doc.active = Before(proposed, Origin, Len(proposed) + 1)
       /\ \A t \in Signed : ScopeCovers(doc.scope, t.scope)) =>
         OwnershipVerifies(proposed, doc, now)

\* Nothing signed later, and no passing of time but the end of a window or
\* the retirement of a key, takes a proved ownership back.
ProofsEndure ==
  [][\A chain \in Verifying(now) : \A doc \in Documents :
       (/\ OwnershipVerifies(chain, doc, now)
        /\ \A i \in DOMAIN chain :
             /\ chain[i].window # None => Contains(chain[i].window, now')
             /\ now' \in KeyActive[chain[i].predecessor] \cap KeyActive[chain[i].successor]) =>
       OwnershipVerifies(chain, doc, now)']_vars

\* Nobody holds a lineage without a signed transfer to it that it accepted
\* itself, on whatever clock, by the time the verifier looks.
OwnersConsented ==
  \A chain \in Offers \ {<<>>} : \A doc \in Documents :
    OwnershipVerifies(chain, doc, now) =>
      \E i \in DOMAIN proposed :
        /\ proposed[i].successor = doc.active
        /\ proposed[i] \in DOMAIN accepted /\ accepted[proposed[i]] <= now

\* OWNERSHIP_AUTHORITY_TRANSITIONS.md, section 9: after a transfer, the
\* verifier confirms that the signer is the active owning authority.
SignerIsActiveOwner ==
  \A chain \in Offers \ {<<>>} : \A doc \in Documents :
    GrantVerifies(chain, doc, now) => doc.issuer = doc.active
=============================================================================
