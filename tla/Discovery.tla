------------------------------ MODULE Discovery -----------------------------
(***************************************************************************)
(* The documents in which authorities publish signing keys                 *)
(* (trustgrant-discovery): how a raw document becomes a normalized one or  *)
(* an error, and how a signer is looked up in it.  JSON itself is left     *)
(* out; a key's algorithm and public key are one text, its material.       *)
(***************************************************************************)
EXTENDS Names, Naturals, Sequences, FiniteSets

CONSTANTS
  None,               \* Rust's Option::None
  MaxDiscoveryKeys,   \* MAX_DISCOVERY_KEYS
  MaxEndpoints        \* MAX_REVOCATION_ENDPOINTS

ASSUME DiscoveryAssumption == MaxDiscoveryKeys \in Nat \ {0} /\ MaxEndpoints \in Nat

-----------------------------------------------------------------------------
(* Key records.  A raw one says whether it is revoked; that of an          *)
(* authority never does.                                                   *)

\* AuthorityKeyRecord::new.
KeyResult(raw) ==
  IF raw.not_before > raw.not_after THEN "InvalidKeyValidityWindow"
  ELSE IF TokenResult(raw.key_id) # "Ok" THEN TokenResult(raw.key_id)
  ELSE TextResult(raw.material)

KeyRecord(raw) ==
  [key_id   |-> Trim[raw.key_id], material  |-> Trim[raw.material],
   not_before |-> raw.not_before, not_after |-> raw.not_after]

\* Mutant: ids are compared before they are trimmed.
RepeatsSpelling(raws, i) == \E j \in 1 .. i - 1 : raws[j].key_id = raws[i].key_id

RepeatsKeyId(raws, i) == \E j \in 1 .. i - 1 : Trim[raws[j].key_id] = Trim[raws[i].key_id]

\* collect_unique_key_records stops at the first record that is in error.
KeysResult(raws) ==
  LET bad   == {i \in DOMAIN raws : KeyResult(raws[i]) # "Ok" \/ RepeatsKeyId(raws, i)}
      first == CHOOSE i \in bad : \A j \in bad : i <= j
  IN  IF bad = {} THEN "Ok"
      ELSE IF KeyResult(raws[first]) # "Ok" THEN KeyResult(raws[first]) ELSE "DuplicateKeyId"

KeyRecords(raws) == [i \in DOMAIN raws |-> KeyRecord(raws[i])]

\* Mutant: the flag is read as a remark.
WithRevoked(raws) == raws

\* Revoked keys of a delegate are dropped before ids are compared.
WithoutRevoked(raws) ==
  LET kept[n \in 0 .. Len(raws)] ==
        IF n = 0 THEN <<>>
        ELSE IF raws[n].revoked THEN kept[n - 1] ELSE Append(kept[n - 1], raws[n])
  IN  kept[Len(raws)]

-----------------------------------------------------------------------------
(* Documents.  The first error, in the order of TryFrom.                   *)

PolicyResult(policy) ==
  IF policy # None /\ (policy.non_revoked_ttl = 0 \/ policy.max_stale = 0)
  THEN "InvalidRevocationPolicy" ELSE "Ok"

AuthorityDocumentResult(raw) ==
  FirstError(<<IF Len(raw.keys) > MaxDiscoveryKeys THEN "CollectionLimitExceeded" ELSE "Ok",
               IF raw.keys = <<>> THEN "InvalidDiscoveryDocument" ELSE "Ok",
               AuthorityResult(raw.authority_id),
               KeysResult(raw.keys),
               TokenResult(raw.profile),
               PolicyResult(raw.policy),
               IF raw.endpoints > MaxEndpoints THEN "CollectionLimitExceeded" ELSE "Ok",
               IF raw.delegation = "Unsupported" THEN "InvalidDiscoveryDocument" ELSE "Ok">>)

AuthorityDocument(raw) ==
  [authority_id |-> AuthorityOf(raw.authority_id), keys |-> KeyRecords(raw.keys),
   profile |-> Trim[raw.profile], policy |-> raw.policy, endpoints |-> raw.endpoints,
   delegation |-> raw.delegation]

DelegatedDocumentResult(raw) ==
  FirstError(<<IF Len(raw.keys) > MaxDiscoveryKeys THEN "CollectionLimitExceeded" ELSE "Ok",
               AuthorityResult(raw.authority_id),
               TokenResult(raw.principal.kind),
               TokenResult(raw.principal.id),
               KeysResult(WithoutRevoked(raw.keys))>>)

DelegatedDocument(raw) ==
  [authority_id |-> AuthorityOf(raw.authority_id),
   principal    |-> [kind |-> Trim[raw.principal.kind], id |-> Trim[raw.principal.id]],
   keys         |-> KeyRecords(WithoutRevoked(raw.keys))]

-----------------------------------------------------------------------------
(* Looking up a signer: the first key record with the id.                  *)

Answer(result, binding) == [result |-> result, binding |-> binding]

Failed(error) == Answer(error, None)

Binding(document, key_id, profile, principal) ==
  LET found == {i \in DOMAIN document.keys : document.keys[i].key_id = key_id}
  IN  IF found = {} THEN Failed("MissingSigningKey")
      ELSE Answer("Ok",
             [issuer_authority |-> document.authority_id,
              key_record       |-> document.keys[CHOOSE i \in found : \A j \in found : i <= j],
              profile          |-> profile,
              principal        |-> principal])

ResolveRootSignerBinding(document, authority, key_id) ==
  IF document.authority_id # authority THEN Failed("DiscoveryAuthorityMismatch")
  ELSE Binding(document, key_id, document.profile, None)

ResolveDelegatedSignerBinding(document, authority, principal, key_id, profile) ==
  IF document.authority_id # authority THEN Failed("DelegatedDiscoveryAuthorityMismatch")
  ELSE IF document.principal # principal THEN Failed("DelegatedPrincipalMismatch")
  ELSE Binding(document, key_id, profile, document.principal)
=============================================================================
