------------------------- MODULE TransitionDocuments ------------------------
(***************************************************************************)
(* One ownership transition document: how a raw one becomes a validated    *)
(* one (trustgrant-document: ownership_transition.rs; trustgrant-domain:   *)
(* ownership.rs), what its two parties sign (trustgrant-ownership:         *)
(* canonicalize.rs), and what the verifier makes of it (verify.rs).  The   *)
(* document passes from hand to hand and may be altered on every way.      *)
(* OwnershipTransfer is about what happens over time, OwnershipChain about *)
(* chains of the records that come out here.                               *)
(***************************************************************************)
EXTENDS DocumentRules

CONSTANTS
  TransitionIdOf,        \* text -> the id in its own spelling, or None
  TransitionSeriesIdOf,
  RawTransitions,        \* documents that are drafted
  Keys,                  \* <<authority, key id>> that discovery answers with
  AcceptedAt,            \* what the clock of an accepting party may show
  VerifiedAt,            \* the clock of the verifier
  TransitionChanges,     \* <<field, value>>: what a document may be altered to
  MaxAlterations         \* bound: alterations, taken together

\* What the types of a raw transition leave possible; a signature may be
\* anything.
TransitionTypes ==
  [transition_id |-> Texts, transition_series_id |-> Texts, version |-> Nat, revision |-> Nat,
   supersedes |-> Option(Texts), origin_authority |-> Texts, from_authority |-> Texts,
   to_authority |-> Texts, scope |-> Seq([name : Texts, type : AnyScope]),
   global_constraints |-> Option(AnyConstraints), effective_at |-> Int]

IsTransition(raw) ==
  /\ DOMAIN raw = DOMAIN TransitionTypes \cup {"predecessor_signature", "successor_acceptance"}
  /\ \A field \in DOMAIN TransitionTypes : raw[field] \in TransitionTypes[field]
  /\ DOMAIN raw.predecessor_signature = {"key_id", "signature"}
  /\ DOMAIN raw.successor_acceptance = {"accepted_at", "key_id", "signature"}
  /\ {raw.predecessor_signature.key_id, raw.successor_acceptance.key_id} \subseteq Texts
  /\ raw.successor_acceptance.accepted_at \in Int

ASSUME TransitionAssumption ==
  /\ {TransitionIdOf, TransitionSeriesIdOf} \subseteq Spellings
  /\ \A t \in Texts :
       /\ TransitionIdOf[t] # None => TransitionIdOf[TransitionIdOf[t]] = TransitionIdOf[t]
       /\ TransitionSeriesIdOf[t] # None =>
            TransitionSeriesIdOf[TransitionSeriesIdOf[t]] = TransitionSeriesIdOf[t]
  /\ \A raw \in RawTransitions :
       /\ IsTransition(raw)
       /\ raw.predecessor_signature.signature = None /\ raw.successor_acceptance.signature = None
  /\ Keys \subseteq Texts \X Texts /\ AcceptedAt \subseteq Int /\ VerifiedAt \in Int
  /\ \A change \in TransitionChanges :
       CASE change[1] = "predecessor_signature" -> change[2] \in Texts
         [] change[1] = "successor_acceptance"  -> change[2] \in Int
         [] OTHER -> /\ change[1] \in DOMAIN TransitionTypes
                     /\ change[2] \in TransitionTypes[change[1]]
  /\ MaxAlterations \in Nat

-----------------------------------------------------------------------------
(* Validation.                                                             *)

TransitionLineageResult(raw) ==
  LET id         == TransitionIdOf[raw.transition_id]
      supersedes == Optional(raw.supersedes, LAMBDA t : TransitionIdOf[t])
  IN  FirstError(<<IdResult(id), IdResult(TransitionSeriesIdOf[raw.transition_series_id]),
                   IF raw.revision = 0 THEN "ZeroRevision" ELSE "Ok",
                   IF raw.supersedes = None THEN "Ok" ELSE IdResult(supersedes),
                   IF raw.revision = 1 /\ supersedes # None
                   THEN "InvalidSupersedesForFirstRevision" ELSE "Ok",
                   IF raw.revision > 1 /\ supersedes = None
                   THEN "MissingSupersedesForNonFirstOwnershipTransitionRevision" ELSE "Ok",
                   IF supersedes = id THEN "SelfSupersession" ELSE "Ok">>)

\* Mutant: the parties are compared as they are spelled.
PartiesSpelledResult(raw) ==
  FirstError(<<AuthorityResult(raw.origin_authority), AuthorityResult(raw.from_authority),
               AuthorityResult(raw.to_authority),
               IF raw.from_authority = raw.to_authority
               THEN "InvalidOwnershipTransitionParties" ELSE "Ok">>)

PartiesResult(raw) ==
  FirstError(<<AuthorityResult(raw.origin_authority), AuthorityResult(raw.from_authority),
               AuthorityResult(raw.to_authority),
               IF AuthorityOf(raw.from_authority) = AuthorityOf(raw.to_authority)
               THEN "InvalidOwnershipTransitionParties" ELSE "Ok">>)

Explicit(holds) == IF holds THEN "Ok" ELSE "InvalidOwnershipTransitionScope"

\* A value that was there before, once trimmed, makes a selector invalid;
\* the limit on bytes is on what was given.
OwnershipSelectorResult(raw) ==
  FirstError(<<Explicit(~raw.all /\ raw.expressions = None /\ raw.values # None),
               LimitResult(Items(raw.values), MaxSelectorValues),
               FirstError(Each(Items(raw.values), LAMBDA t :
                 IF t \in Long THEN "StringLimitExceeded" ELSE "Ok")),
               Explicit(Items(raw.values) # <<>>),
               UniqueResult(Items(raw.values),
                            LAMBDA t : IF Trim[t] = Blank THEN "EmptyStringField" ELSE "Ok",
                            LAMBDA l, r : Trim[l] = Trim[r], "DuplicateSelector"),
               TokenResult(raw.kind)>>)

OwnershipSelector(raw) == [kind |-> Trim[raw.kind], values |-> Each(raw.values, LAMBDA t : Trim[t])]

\* The kinds of equal selectors are equal as kinds.
SameOwnershipSelector(left, right) == SameKind(left.kind, right.kind) /\ left.values = right.values

OwnershipTypeResult(raw) ==
  FirstError(<<Explicit(~raw.all /\ raw.deny = None /\ raw.allow # None),
               LimitResult(Items(raw.allow), MaxSelectors),
               FirstError(Each(Items(raw.allow), OwnershipSelectorResult)),
               Explicit(Items(raw.allow) # <<>>),
               UniqueResult(Items(raw.allow), OwnershipSelectorResult,
                            LAMBDA l, r : SameOwnershipSelector(OwnershipSelector(l), OwnershipSelector(r)),
                            "DuplicateSelector")>>)

OwnershipScopeResult(types) ==
  FirstError(<<Explicit(types # <<>>), LimitResult(types, MaxResourceTypes),
               FirstError(Each(types, LAMBDA entry :
                 FirstError(<<TokenResult(entry.name), OwnershipTypeResult(entry.type)>>)))>>)

\* Names that trim to one are one, the last of them.
OwnershipScope(types) ==
  [name \in {Trim[types[i].name] : i \in DOMAIN types} |->
     LET named == {i \in DOMAIN types : Trim[types[i].name] = name}
     IN  Each(types[CHOOSE i \in named : \A j \in named : j <= i].type.allow, OwnershipSelector)]

EffectiveAtResult(window, effective_at) ==
  IF window # None /\ ~(window.not_before <= effective_at /\ effective_at <= window.not_after)
  THEN "InvalidOwnershipTransitionEffectiveAt" ELSE "Ok"

\* None is a signature that is blank.
SignatureResult(signature) ==
  FirstError(<<TokenResult(signature.key_id),
               IF signature.signature = None THEN "EmptyStringField" ELSE "Ok">>)

TransitionResult(raw) ==
  LET window == TimeWindow(raw.global_constraints)
  IN  FirstError(<<IF raw.version = 0 THEN "Ok" ELSE "InvalidProtocolVersion",
                   TransitionLineageResult(raw), PartiesResult(raw),
                   OwnershipScopeResult(raw.scope), WindowResult(window),
                   EffectiveAtResult(window, raw.effective_at),
                   SignatureResult(raw.predecessor_signature),
                   SignatureResult(raw.successor_acceptance)>>)

\* The record (to_record); its fields are those of OwnershipRecords.
Record(raw) ==
  [id |-> TransitionIdOf[raw.transition_id], series |-> TransitionSeriesIdOf[raw.transition_series_id],
   revision     |-> raw.revision,
   supersedes   |-> Optional(raw.supersedes, LAMBDA t : TransitionIdOf[t]),
   origin       |-> AuthorityOf(raw.origin_authority),
   predecessor  |-> AuthorityOf(raw.from_authority),
   successor    |-> AuthorityOf(raw.to_authority),
   scope        |-> OwnershipScope(raw.scope),
   window       |-> TimeWindow(raw.global_constraints),
   effective_at |-> raw.effective_at]

-----------------------------------------------------------------------------
(* What is signed: the values in the order of the members.                 *)

WriteOwned(s) == <<s.all, s.expressions, s.kind, s.values>>

WriteAllOwned(option) == Optional(option, LAMBDA s : Each(s, WriteOwned))

WriteOwnedTypes(types) ==
  Each(types, LAMBDA e : <<e.name, e.type.all, WriteAllOwned(e.type.allow), WriteAllOwned(e.type.deny)>>)

WriteWindow(option) ==
  Optional(option, LAMBDA c : <<Optional(c.time, LAMBDA w : <<w.not_after, w.not_before>>)>>)

\* The proposal says nothing of the key of its signer.
Proposal(raw) ==
  <<WriteOwnedTypes(raw.scope), raw.effective_at, raw.from_authority,
    WriteWindow(raw.global_constraints), raw.origin_authority, raw.revision, raw.supersedes,
    raw.to_authority, raw.transition_id, raw.transition_series_id, raw.version>>

\* Mutant: the time of the acceptance is not signed.
AcceptanceUndated(raw) ==
  Proposal(raw) \o <<raw.predecessor_signature, raw.successor_acceptance.key_id>>

\* The acceptance adds the signature of the predecessor and all of its own
\* part but the signature.
Acceptance(raw) ==
  Proposal(raw) \o <<raw.predecessor_signature,
                     raw.successor_acceptance.accepted_at, raw.successor_acceptance.key_id>>

-----------------------------------------------------------------------------
VARIABLES
  transition,  \* the document, as the one who has it now sees it
  proposals,   \* [signer, document]: the proposals that were signed
  acceptances, \* [signer, document]: the acceptances that were signed
  verdict,     \* the verified document, or None
  alterations  \* alterations so far

transitionVars == <<transition, proposals, acceptances, verdict, alterations>>

TransitionInit ==
  /\ transition \in RawTransitions
  /\ proposals = {} /\ acceptances = {}
  /\ verdict = None
  /\ alterations = 0

\* Anyone may sign anything with a key of its own.
SignProposal(key) ==
  /\ proposals = {}
  /\ transition' = [transition EXCEPT
                      !.predecessor_signature =
                        [key_id |-> key[2], signature |-> [by |-> key, over |-> Proposal(transition)]]]
  /\ proposals' = {[signer |-> key[1], document |-> transition']}
  /\ UNCHANGED <<acceptances, verdict, alterations>>

SignAcceptance(key, at) ==
  LET dated == [transition EXCEPT !.successor_acceptance =
                  [accepted_at |-> at, key_id |-> key[2], signature |-> None]]
  IN  /\ proposals # {} /\ acceptances = {}
      /\ transition' = [dated EXCEPT !.successor_acceptance.signature =
                          [by |-> key, over |-> Acceptance(dated)]]
      /\ acceptances' = {[signer |-> key[1], document |-> transition']}
      /\ UNCHANGED <<proposals, verdict, alterations>>

AlterTransition(field, value) ==
  /\ proposals # {} /\ verdict = None
  /\ alterations < MaxAlterations
  /\ transition' = [transition EXCEPT ![field] =
                      IF field = "predecessor_signature" THEN [@ EXCEPT !.key_id = value]
                      ELSE IF field = "successor_acceptance" THEN [@ EXCEPT !.accepted_at = value]
                      ELSE value]
  /\ alterations' = alterations + 1
  /\ UNCHANGED <<proposals, acceptances, verdict>>

\* ensure_transition_signer_binding; when keys are active is left to
\* OwnershipTransfer.
SignerKey(authority, key_id) == <<AuthorityOf(authority), Trim[key_id]>>

VerificationResult(raw, verified_at) ==
  LET predecessor == SignerKey(raw.from_authority, raw.predecessor_signature.key_id)
      successor   == SignerKey(raw.to_authority, raw.successor_acceptance.key_id)
  IN  IF TransitionResult(raw) # "Ok" THEN TransitionResult(raw)
      ELSE FirstError(
        <<IF {predecessor, successor} \subseteq Keys THEN "Ok" ELSE "MissingAuthorityKey",
          IF raw.successor_acceptance.accepted_at <= verified_at THEN "Ok"
          ELSE "InvalidOwnershipTransitionAcceptanceTime",
          IF raw.predecessor_signature.signature = [by |-> predecessor, over |-> Proposal(raw)]
          THEN "Ok" ELSE "OwnershipTransitionPredecessorSignatureFailed",
          IF raw.successor_acceptance.signature = [by |-> successor, over |-> Acceptance(raw)]
          THEN "Ok" ELSE "OwnershipTransitionSuccessorSignatureFailed">>)

VerifyTransition ==
  /\ VerificationResult(transition, VerifiedAt) = "Ok"
  /\ verdict' = transition
  /\ UNCHANGED <<transition, proposals, acceptances, alterations>>

TransitionNext ==
  \/ \E key \in Keys : SignProposal(key)
  \/ \E key \in Keys, at \in AcceptedAt : SignAcceptance(key, at)
  \/ \E alteration \in TransitionChanges : AlterTransition(alteration[1], alteration[2])
  \/ VerifyTransition

TransitionSpec == TransitionInit /\ [][TransitionNext]_transitionVars

-----------------------------------------------------------------------------
Records == INSTANCE OwnershipRecords
             WITH Authorities <- Texts, TransitionIds <- Texts, SeriesIds <- Texts, Times <- Nat,
                  Transitions <- {}, Documents <- {}, MaxChainLength <- 0

\* A verified transition has the two parties' consent to all it says: the
\* predecessor signed a proposal with this very record, and the successor,
\* another party, an acceptance of it, at the time it says, no later than
\* the verification.  What was altered on the way does not count.
TransferIsAgreed ==
  verdict # None =>
    LET record == Record(verdict)
    IN  /\ \E p \in proposals : p.signer = record.predecessor /\ Record(p.document) = record
        /\ \E a \in acceptances :
             /\ a.signer = record.successor /\ Record(a.document) = record
             /\ a.document.successor_acceptance.accepted_at = verdict.successor_acceptance.accepted_at
             /\ a.document.predecessor_signature = verdict.predecessor_signature
        /\ verdict.successor_acceptance.accepted_at <= VerifiedAt

\* What the walk along a chain takes for granted of every record: lineage,
\* two parties, an instant within its window, and a scope that conveys
\* something, nothing of it twice.
RecordsAreWellFormed ==
  verdict # None =>
    LET record == Record(verdict)
    IN  /\ Records!Lineage(record) /\ Records!Parties(record) /\ Records!EffectiveInWindow(record)
        /\ DOMAIN record.scope # {}
        /\ \A name \in DOMAIN record.scope :
             LET selectors == record.scope[name]
             IN  /\ selectors # <<>> /\ Trim[name] = name
                 /\ \A i \in DOMAIN selectors :
                      /\ selectors[i].values # <<>>
                      /\ Cardinality({selectors[i].values[v] : v \in DOMAIN selectors[i].values})
                           = Len(selectors[i].values)
                      /\ \A j \in DOMAIN selectors :
                           SameOwnershipSelector(selectors[i], selectors[j]) => i = j
=============================================================================
