--------------------------- MODULE GrantLifecycle ---------------------------
(***************************************************************************)
(* The life of one grant in one application.  The issuer may revoke it,    *)
(* its status is reported through several sources that lag behind, keys    *)
(* expire and are withdrawn.  The application verifies the grant with      *)
(* whatever source it has selected, keeps the VerifiedTrustGrant, verifies *)
(* it again on the evidence it already has, stores it as a                 *)
(* VerifiedTrustGrantRecord, crashes, and loads it.  Evaluation changes    *)
(* nothing: what it would answer at any moment is MayUse below.            *)
(***************************************************************************)
EXTENDS GrantVerification

CONSTANTS
  Documents,   \* signed grant documents, one of which is used
  Sources,     \* revocation proof sources: [kind, finality]
  Keys,        \* key records: [id, holder, not_before, not_after]
  Postures,    \* verification postures it is verified under
  Operations,  \* operations that may be requested, "mint" among them
  Skew,        \* how far the clock of a status endpoint may be ahead
  Horizon      \* bound: the last instant of the model

ReportSet == [status : {"Active", "Revoked"}, checked_at : Nat]

Records ==
  [status : {"Active", "Revoked"}, source_kind : {s.kind : s \in Sources},
   finality : {s.finality : s \in Sources}, checked_at : Nat, fresh_until : Nat]

ASSUME LifecycleAssumption ==
  /\ Skew \in Nat /\ Horizon \in Nat
  /\ Postures \subseteq {"Online", "Cached", "Offline"}
  /\ None \notin ReportSet /\ None \notin Records

Revocations == [revocable : BOOLEAN, effect : {"BlockAll", "BlockMintingOnly"}]

Windows == [not_before : Nat, not_after : Nat]

ASSUME DocumentsAssumption ==
  /\ None \notin Revocations
  /\ \A doc \in Documents :
       /\ DOMAIN doc = {"issuer", "key_id", "principal", "signed_with",
                       "ownership", "revocation", "window"}
       /\ doc.revocation \in Revocations \cup {None}
       /\ doc.window \in Windows \cup {None}

VARIABLES
  document,    \* the grant document in use
  clock,       \* the time of the application
  revoked_at,  \* when the issuer revoked the grant, or None
  reports,     \* what each source reports, or None
  published,   \* the keys in the discovery documents of the issuer
  held,        \* metadata of the VerifiedTrustGrant in memory, or None
  stored       \* metadata of the stored record, or None

vars == <<document, clock, revoked_at, reports, published, held, stored>>

Init ==
  /\ document \in Documents
  /\ clock = 0
  /\ revoked_at = None
  /\ reports = [s \in Sources |-> None]
  /\ published = Keys
  /\ held = None
  /\ stored = None

-----------------------------------------------------------------------------
(* The world.                                                              *)

Tick ==
  /\ clock < Horizon
  /\ clock' = clock + 1
  /\ UNCHANGED <<document, revoked_at, reports, published, held, stored>>

Revoke ==
  /\ RequiresRevocationCheck(document)
  /\ revoked_at = None
  /\ revoked_at' = clock
  /\ UNCHANGED <<document, clock, reports, published, held, stored>>

\* A source asks the authority and has its answer from now on.
Report(source, ahead) ==
  /\ reports' = [reports EXCEPT ![source] =
                   [status     |-> IF revoked_at = None THEN "Active" ELSE "Revoked",
                    checked_at |-> clock + ahead]]
  /\ UNCHANGED <<document, clock, revoked_at, published, held, stored>>

Withdraw(key) ==
  /\ key \in published
  /\ published' = published \ {key}
  /\ UNCHANGED <<document, clock, revoked_at, reports, held, stored>>

-----------------------------------------------------------------------------
(* The application.                                                        *)

\* verify_raw_document_with_sources; an error leaves what the caller has.
\* The ownership proof of the document is taken as given (OwnershipChain).
VerifyWithSources(source, posture) ==
  \E key \in SigningKeys(document, published) :
    LET metadata == [verified_at |-> clock,
                     posture     |-> posture,
                     issuer      |-> document.issuer,
                     key         |-> key,
                     ownership   |-> document.ownership,
                     revocation  |-> IF RequiresRevocationCheck(document)
                                     THEN IntoRecord(reports[source], source)
                                     ELSE None]
    IN  /\ RequiresRevocationCheck(document) => reports[source] # None
        /\ Verifies(document, metadata)
        /\ held' = metadata
        /\ UNCHANGED <<document, clock, revoked_at, reports, published, stored>>

\* verify_raw_document, on the metadata of the grant in memory.
VerifyAgain(posture) ==
  LET metadata == [held EXCEPT !.verified_at = clock, !.posture = posture]
  IN  /\ held # None
      /\ Verifies(document, metadata)
      /\ held' = metadata
      /\ UNCHANGED <<document, clock, revoked_at, reports, published, stored>>

Store ==
  /\ held # None
  /\ stored' = held
  /\ UNCHANGED <<document, clock, revoked_at, reports, published, held>>

\* The raw form that a record is checked against has no effect of its own.
RawForConsistencyCheck(doc) ==
  [doc EXCEPT !.revocation =
     IF doc.revocation = None THEN None ELSE [doc.revocation EXCEPT !.effect = "BlockAll"]]

\* Mutant: a record is checked as of today.
RehydratesNow(metadata) ==
  Consistent(RawForConsistencyCheck(document), [metadata EXCEPT !.verified_at = clock])

\* try_to_verified_grant: consistent as of its own verification.
Rehydrates(metadata) == Consistent(RawForConsistencyCheck(document), metadata)

Load ==
  /\ stored # None
  /\ Rehydrates(stored)
  /\ held' = stored
  /\ UNCHANGED <<document, clock, revoked_at, reports, published, stored>>

Crash ==
  /\ held # None
  /\ held' = None
  /\ UNCHANGED <<document, clock, revoked_at, reports, published, stored>>

Next ==
  \/ Tick
  \/ Revoke
  \/ \E source \in Sources, ahead \in 0 .. Skew : Report(source, ahead)
  \/ \E key \in Keys : Withdraw(key)
  \/ \E source \in Sources, posture \in Postures : VerifyWithSources(source, posture)
  \/ \E posture \in Postures : VerifyAgain(posture)
  \/ Store
  \/ Load
  \/ Crash

Spec == Init /\ [][Next]_vars

-----------------------------------------------------------------------------
(* What the grant in memory is good for now: the checks of the evaluator   *)
(* that look at revocation and time.                                       *)

MayUse(operation) ==
  LET grant   == [revocation |-> held.revocation,
                  effect     |-> IF document.revocation = None THEN "BlockAll"
                                 ELSE document.revocation.effect,
                  window     |-> document.window]
      request == [operation |-> operation, evaluated_at |-> clock]
  IN  /\ held # None
      /\ ~StaleRevocationData(grant, request)
      /\ ~Revoked(grant, request)
      /\ ~NotYetValid(grant, request)
      /\ ~Expired(grant, request)

\* Operations that the issuer's revocation is meant to end.
Ends(operation) == operation = "mint" \/ document.revocation.effect = "BlockAll"

-----------------------------------------------------------------------------
Metadata ==
  [verified_at : Nat, posture : Postures, issuer : {document.issuer}, key : Keys,
   ownership : {document.ownership}, revocation : Records \cup {None}]

\* Evidence is of the kind the document asks for: a revocable grant is
\* never held or stored without a checked record, no other with one.
TypeOK ==
  /\ document \in Documents
  /\ clock \in 0 .. Horizon
  /\ revoked_at \in (0 .. Horizon) \cup {None}
  /\ reports \in [Sources -> ReportSet \cup {None}]
  /\ published \in SUBSET Keys
  /\ \A metadata \in {held, stored} \ {None} :
       /\ metadata \in Metadata
       /\ metadata.revocation # None <=> document.revocation # None /\ document.revocation.revocable

\* A revocation takes effect in bounded time, whatever source lags and
\* however often the grant is verified again, stored, lost and loaded: what
\* it ends is allowed for no longer than the issuer's own lifetime for an
\* unrevoked status, plus the skew of the status endpoint.
BoundedRevocationLag ==
  \A operation \in Operations :
    MayUse(operation) /\ revoked_at # None /\ Ends(operation)
      => clock <= revoked_at + NonRevokedTtl + Skew

\* What was verified once can be read back at any later time, whatever has
\* expired or been withdrawn since: a stored record is never unreadable.
StoredRecordsLoad == stored # None => Rehydrates(stored)

\* Verifier and evaluator agree on freshness to the instant: a grant that
\* verifies now can be used now, unless its status or window forbids.
VerifiedMeansUsable ==
  held # None /\ held.verified_at = clock =>
    \A operation \in Operations :
      \/ MayUse(operation)
      \/ document.window # None /\ ~(document.window.not_before <= clock /\ clock <= document.window.not_after)
      \/ held.revocation # None /\ held.revocation.status = "Revoked" /\ Ends(operation)

\* TRUSTGRANT_AUTHORITY_DISCOVERY.md, section 4.4: max_stale_seconds is the
\* upper bound for using a cached non-revoked status.
ActiveStatusWithinMaxStale ==
  \A operation \in Operations :
    MayUse(operation) /\ held.revocation # None /\ held.revocation.status = "Active"
      => clock <= held.revocation.checked_at + MaxStale
=============================================================================
