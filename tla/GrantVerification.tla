-------------------------- MODULE GrantVerification -------------------------
(***************************************************************************)
(* What the verification pipeline decides about one document and the       *)
(* evidence resolved for it (trustgrant-verify: pipeline.rs,               *)
(* consistency.rs, policy.rs; trustgrant-revocation: proof.rs, status.rs). *)
(* Each error is a check; a document verifies when none applies.           *)
(* Canonical bytes are left out: a signature is good for exactly the key   *)
(* that made it.                                                           *)
(***************************************************************************)
EXTENDS EvaluationRules

CONSTANTS
  NonRevokedTtl,   \* revocation_policy of the issuer's discovery document
  MaxStale

ASSUME FreshnessPolicyAssumption ==
  /\ NonRevokedTtl \in Nat \ {0}
  /\ MaxStale \in Nat \ {0}

\* ProofFinality, in its derived order.
Unknown         == 0
Observed        == 1
TrustedSnapshot == 2
Finalized       == 3

-----------------------------------------------------------------------------
(* Revocation evidence.  A report is what an authority answers about a     *)
(* grant; a source of some kind and finality passes it on.                 *)

\* Mutant: the two lifetimes are exchanged.
FreshUntilSwapped(report) ==
  report.checked_at + (IF report.status = "Active" THEN MaxStale ELSE NonRevokedTtl)

FreshUntil(report) ==
  report.checked_at + (IF report.status = "Active" THEN NonRevokedTtl ELSE MaxStale)

IntoRecord(report, source) ==
  [status      |-> report.status,
   source_kind |-> source.kind,
   finality    |-> source.finality,
   checked_at  |-> report.checked_at,
   fresh_until |-> FreshUntil(report)]

IsFreshAt(record, time) == time <= record.fresh_until

\* Mutant: whoever states a revocation block is checked.
DeclaresRevocation(document) == document.revocation # None

RequiresRevocationCheck(document) ==
  document.revocation # None /\ document.revocation.revocable

RequiresNonLiveSource(posture) == posture \in {"Cached", "Offline"}

IsNonLive(kind) == kind \in {"Snapshot", "ProofBundle"}

MinimumFinality(posture) ==
  IF RequiresNonLiveSource(posture) THEN TrustedSnapshot ELSE Observed

-----------------------------------------------------------------------------
(* Signing keys.  A key record has an id, a holder (None for the authority *)
(* itself, else a principal it delegates to) and a window of activity.     *)

IsActiveAt(key, time) == key.not_before <= time /\ time <= key.not_after

\* The keys that a lookup by id finds in the root document, or in that of
\* the principal the grant names (ids are unique within either).
SigningKeys(document, published) ==
  {k \in published : k.id = document.key_id /\ k.holder = document.principal}

-----------------------------------------------------------------------------
(* verify_impl: first what relates metadata and document, then whether the *)
(* revocation evidence will do, last the signature.                        *)

Check(reason, applies) == [reason |-> reason, applies |-> applies]

MetadataChecks(document, metadata) ==
  <<Check("SignerAuthorityMismatch", metadata.issuer # document.issuer),
    Check("KeyIdMismatch", metadata.key.id # document.key_id),
    Check("SignerKeyInactive", ~IsActiveAt(metadata.key, metadata.verified_at)),
    Check("IssuerPrincipalMismatch", metadata.key.holder # document.principal),
    Check("OwnershipOriginMismatch", metadata.ownership.origin # document.ownership.origin),
    Check("ActiveOwningAuthorityMismatch", metadata.ownership.owner # document.ownership.owner)>>

RevocationChecks(document, metadata) ==
  LET record == metadata.revocation
  IN  <<Check("MissingRevocationProof", RequiresRevocationCheck(document) /\ record = None),
        Check("UnexpectedRevocationProofForNonRevocableGrant",
              ~RequiresRevocationCheck(document) /\ record # None),
        Check("StaleRevocationRecord",
              record # None /\ ~IsFreshAt(record, metadata.verified_at)),
        Check("VerificationPostureRequiresNonLiveRevocation",
              /\ record # None
              /\ RequiresNonLiveSource(metadata.posture)
              /\ ~IsNonLive(record.source_kind)),
        Check("InsufficientRevocationProofFinality",
              record # None /\ record.finality < MinimumFinality(metadata.posture))>>

\* ensure_verified_grant_consistent runs the same checks but the signature.
Consistent(document, metadata) ==
  Applying(MetadataChecks(document, metadata) \o RevocationChecks(document, metadata)) = {}

SignatureVerifies(document, metadata) == document.signed_with = metadata.key

Verifies(document, metadata) ==
  Consistent(document, metadata) /\ SignatureVerifies(document, metadata)
=============================================================================
