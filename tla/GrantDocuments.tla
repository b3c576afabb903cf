---------------------------- MODULE GrantDocuments --------------------------
(***************************************************************************)
(* One grant document from the issuer's draft to an application's storage. *)
(* The issuer builds a draft (trustgrant-issue: draft.rs), has its         *)
(* canonical bytes signed, and publishes it with the signature; on the way *)
(* the document may be altered; a verifier validates it, checks the        *)
(* signature, and stores a record; the storage may alter the record before *)
(* it is loaded.  Keys, times and revocation are the subject of            *)
(* GrantLifecycle.                                                         *)
(***************************************************************************)
EXTENDS DocumentForms

CONSTANTS
  NewArguments,   \* arguments of TrustGrantDraft::new
  Lineages,       \* arguments of with_lineage, and so on
  AudienceScopes,
  TimeWindows,
  Revocations,
  IssuerPrincipals,
  Profiles,
  OnTheWay,       \* <<field, value>>: what a document may be altered to
  InStorage,      \* <<field, value>>: what a record may be altered to
  MaxChanges      \* bound: edits of the draft and alterations, taken together

ASSUME GrantAssumption ==
  /\ {"tg_1", "tgs_1"} \subseteq Texts
  /\ \A arguments \in NewArguments :
       /\ DOMAIN arguments = {"issuer_authority", "origin_authority", "active_owning_authority",
                              "key_id", "target_scope", "capabilities", "resource_scope", "issued_at"}
       /\ \A field \in DOMAIN arguments : arguments[field] \in RawTypes[field]
  /\ \A lineage \in Lineages :
       /\ lineage.grant_series_id \in Texts /\ lineage.revision \in Nat
       /\ lineage.supersedes \in Option(Texts)
       /\ lineage.supersession_policy \in KeptTypes.supersession_policy
  /\ AudienceScopes \subseteq Seq(AnyAudienceEntry) /\ TimeWindows \subseteq AnyWindow
  /\ Revocations \subseteq AnyRevocation /\ IssuerPrincipals \subseteq AnyPrincipal
  /\ Profiles \subseteq AnyProfile
  /\ \A change \in OnTheWay :
       \/ change[1] = "signature" /\ change[2] = None
       \/ change[1] \in DOMAIN RawTypes /\ change[2] \in RawTypes[change[1]]
  /\ \A change \in InStorage :
       \/ change[1] = "resource_scope" /\ IsKeptScope(change[2])
       \/ change[1] \in DOMAIN KeptTypes /\ change[2] \in KeptTypes[change[1]]

VARIABLES
  draft,     \* the draft of the issuer
  issued,    \* the document whose canonical bytes were signed, or None
  wire,      \* the published document, or None
  verified,  \* the document as it was verified, or None
  held,      \* the document of the grant in memory, or None
  stored,    \* the stored record, or None
  changes    \* edits and alterations so far

grantVars == <<draft, issued, wire, verified, held, stored, changes>>

-----------------------------------------------------------------------------
(* Drafts.  What has a type in the draft is in normal form, the scopes are *)
(* as they were given.                                                     *)

NewDraftResult(arguments) ==
  FirstError(<<AuthorityResult(arguments.issuer_authority),
               AuthorityResult(arguments.origin_authority),
               AuthorityResult(arguments.active_owning_authority), TokenResult(arguments.key_id)>>)

\* Id and series are generated.
NewDraft(arguments, id, series) ==
  [trustgrant_id    |-> id, grant_series_id |-> series, revision |-> 1, supersedes |-> None,
   supersession_policy     |-> "Coexist",
   issuer_authority        |-> AuthorityOf(arguments.issuer_authority),
   origin_authority        |-> AuthorityOf(arguments.origin_authority),
   active_owning_authority |-> AuthorityOf(arguments.active_owning_authority),
   key_id           |-> Trim[arguments.key_id],
   target_scope     |-> arguments.target_scope, capabilities |-> arguments.capabilities,
   default_audience_scope |-> <<>>, resource_scope |-> arguments.resource_scope,
   global_time_window |-> None, revocation |-> None, issued_at |-> arguments.issued_at,
   issuer_principal |-> None, interoperability_profile |-> None]

WithLineageResult(lineage) ==
  IF lineage.supersession_policy = "ExplicitRevocationRequired"
  THEN "UnsupportedV0WireSupersessionPolicy"
  ELSE IF lineage.revision = 1 /\ lineage.supersedes # None
  THEN "InvalidSupersedesForFirstRevision"
  ELSE IF lineage.supersedes = draft.trustgrant_id THEN "SelfSupersession" ELSE "Ok"

WithLineage(lineage) ==
  [draft EXCEPT !.grant_series_id = lineage.grant_series_id, !.revision = lineage.revision,
                !.supersedes = lineage.supersedes,
                !.supersession_policy = lineage.supersession_policy]

\* signable_document, and into_signable_document.
SignableDocument ==
  [field \in (DOMAIN draft \ {"global_time_window"})
             \cup {"version", "signature", "global_constraints"} |->
     CASE field = "version"   -> 0
       [] field = "signature" -> None
       [] field = "default_audience_scope" -> Some(draft.default_audience_scope)
       [] field = "global_constraints" ->
            Optional(draft.global_time_window, LAMBDA w : [time |-> w])
       [] OTHER -> draft[field]]

-----------------------------------------------------------------------------
GrantInit ==
  /\ \E arguments \in NewArguments :
       /\ NewDraftResult(arguments) = "Ok"
       /\ draft = NewDraft(arguments, "tg_1", "tgs_1")
  /\ issued = None /\ wire = None
  /\ verified = None /\ held = None /\ stored = None
  /\ changes = 0

\* The builder takes the draft and gives it back; an error takes it for good.
Edited(edited) ==
  /\ wire = None
  /\ changes < MaxChanges
  /\ draft' = edited
  /\ changes' = changes + 1
  /\ UNCHANGED <<issued, wire, verified, held, stored>>

EditLineage(lineage) == WithLineageResult(lineage) = "Ok" /\ Edited(WithLineage(lineage))

EditAudience(scope) == Edited([draft EXCEPT !.default_audience_scope = scope])

EditTimeWindow(window) ==
  WindowResult(window) = "Ok" /\ Edited([draft EXCEPT !.global_time_window = window])

EditRevocation(revocation) == Edited([draft EXCEPT !.revocation = revocation])

EditIssuerPrincipal(principal) == Edited([draft EXCEPT !.issuer_principal = principal])

EditProfile(profile) == Edited([draft EXCEPT !.interoperability_profile = profile])

Edit ==
  \/ \E lineage \in Lineages : EditLineage(lineage)
  \/ \E scope \in AudienceScopes : EditAudience(scope)
  \/ \E window \in TimeWindows : EditTimeWindow(window)
  \/ \E revocation \in Revocations : EditRevocation(revocation)
  \/ \E principal \in IssuerPrincipals : EditIssuerPrincipal(principal)
  \/ \E profile \in Profiles : EditProfile(profile)

\* canonical_bytes borrows the draft: it may be edited afterwards.
Sign ==
  /\ wire = None
  /\ issued' = SignableDocument
  /\ UNCHANGED <<draft, wire, verified, held, stored, changes>>

\* into_signed_document refuses a blank signature.
Publish ==
  /\ wire = None
  /\ issued # None
  /\ wire' = [SignableDocument EXCEPT !.signature = Canonical(issued)]
  /\ UNCHANGED <<draft, issued, verified, held, stored, changes>>

AlterOnTheWay(field, value) ==
  /\ wire # None /\ verified = None
  /\ changes < MaxChanges
  /\ wire' = [wire EXCEPT ![field] = value]
  /\ changes' = changes + 1
  /\ UNCHANGED <<draft, issued, verified, held, stored>>

-----------------------------------------------------------------------------
\* The signature is over the canonical form of the document received.
Verifies(document) ==
  DocumentResult(document) = "Ok" /\ document.signature = Canonical(document)

Verify ==
  /\ wire # None
  /\ Verifies(wire)
  /\ verified' = Document(wire)
  /\ held' = Document(wire)
  /\ UNCHANGED <<draft, issued, wire, stored, changes>>

Store ==
  /\ held # None
  /\ stored' = RecordOf(held)
  /\ UNCHANGED <<draft, issued, wire, verified, held, changes>>

AlterInStorage(field, value) ==
  /\ stored # None
  /\ changes < MaxChanges
  /\ stored' = [stored EXCEPT !.document[field] = value]
  /\ changes' = changes + 1
  /\ UNCHANGED <<draft, issued, wire, verified, held>>

Load ==
  /\ stored # None
  /\ LoadResult(stored) = "Ok"
  /\ held' = Normalized(stored.document)
  /\ UNCHANGED <<draft, issued, wire, verified, stored, changes>>

GrantNext ==
  \/ Edit
  \/ Sign
  \/ Publish
  \/ \E alteration \in OnTheWay : AlterOnTheWay(alteration[1], alteration[2])
  \/ Verify
  \/ Store
  \/ \E alteration \in InStorage : AlterInStorage(alteration[1], alteration[2])
  \/ Load

GrantSpec == GrantInit /\ [][GrantNext]_grantVars

-----------------------------------------------------------------------------
(* The shapes on which evaluator and verifier rely without looking.        *)

Distinct(items, Same(_, _)) ==
  \A i, j \in DOMAIN items : Same(items[i], items[j]) => i = j

WellShapedSelectors(selectors) ==
  /\ Distinct(selectors, SameSelector)
  /\ \A i \in DOMAIN selectors :
       selectors[i].all <=> selectors[i].values = <<>> /\ selectors[i].expressions = <<>>

WellShapedScope(scope) ==
  /\ scope.all <=> scope.allow = <<>>
  /\ WellShapedSelectors(scope.allow) /\ WellShapedSelectors(scope.deny)

WellShapedAudience(entries) ==
  /\ Distinct(entries, LAMBDA l, r : l.authority_id = r.authority_id)
  /\ \A i \in DOMAIN entries :
       /\ WellShapedScope(entries[i].scope)
       /\ entries[i].principal_scope # None => WellShapedScope(entries[i].principal_scope)

WellShapedOperations(scope) ==
  /\ scope.allow # <<>>
  /\ Distinct(scope.allow, LAMBDA l, r : l = r) /\ Distinct(scope.deny, LAMBDA l, r : l = r)

WellShapedType(type) ==
  /\ WellShapedScope(type) /\ WellShapedAudience(type.audience_scope)
  /\ type.operations # None => WellShapedOperations(type.operations)

WellShaped(document) ==
  /\ document.revision = 1 => document.supersedes = None
  /\ document.supersedes # document.trustgrant_id
  /\ WellShapedScope(document.target_scope)
  /\ WellShapedAudience(document.default_audience_scope)
  /\ \A n \in DOMAIN document.resource_scope :
       Trim[n] = n /\ WellShapedType(document.resource_scope[n])
  /\ WindowResult(document.global_time_window) = "Ok"

\* Whatever was published, however it was altered on the way or in storage,
\* a grant in memory has the shapes that evaluator and verifier take for
\* granted: no authority has two audience entries, no list of operations is
\* empty, a scope allows all or lists what it allows.
ShapesHold == held # None => WellShaped(held)

\* A verified document says what the issuer signed, field by field; how it
\* is spelled and which null stands for an empty list cannot matter.  The
\* interoperability profile, which is not signed, is the exception.
SignedIsWhatIsRead ==
  verified # None =>
    [verified EXCEPT !.interoperability_profile = issued.interoperability_profile]
      = Document(issued)

\* What is in memory can be stored and read back as it is, all fields: the
\* normal forms are accepted again, within the same limits.
WhatIsHeldLoads ==
  held # None =>
    /\ LoadResult(RecordOf(held)) = "Ok"
    /\ Normalized(RecordOf(held).document) = held

\* Storage cannot detach a document from its verification: what is loaded
\* has the issuer, key, principal, owner and the need for revocation
\* evidence with which it was verified.
StorageKeepsTheSigner == held # None => Metadata(held) = Metadata(verified)
=============================================================================
