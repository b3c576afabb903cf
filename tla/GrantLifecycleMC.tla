-------------------------- MODULE GrantLifecycleMC --------------------------
(***************************************************************************)
(* Instances of GrantLifecycle: a live source and a mirror of snapshots;   *)
(* documents of the authority itself and of a principal it delegates to,   *)
(* whose keys have the same id.                                            *)
(***************************************************************************)
EXTENDS GrantLifecycle

CONSTANTS A, B, principal, k1

Root     == [id |-> k1, holder |-> None, not_before |-> 0, not_after |-> 3]
Delegate == [id |-> k1, holder |-> principal, not_before |-> 1, not_after |-> Horizon]

Api    == [kind |-> "Api", finality |-> Observed]
Mirror == [kind |-> "Snapshot", finality |-> TrustedSnapshot]

Document(holder, signed_with, revocation, window) ==
  [issuer |-> A, key_id |-> k1, principal |-> holder, signed_with |-> signed_with,
   ownership |-> [origin |-> A, owner |-> B], revocation |-> revocation, window |-> window]

Revocable(effect) == [revocable |-> TRUE, effect |-> effect]

MCKeys    == {Root, Delegate}
MirrorOnly == {Mirror}
BothSources == {Api, Mirror}
MCOperations == {"mint", "recognize"}

RevocableDocuments ==
  {Document(None, Root, Revocable("BlockAll"), None),
   Document(principal, Delegate, Revocable("BlockMintingOnly"), [not_before |-> 1, not_after |-> 4])}

OtherDocuments ==
  {Document(None, Root, None, None),
   Document(principal, Delegate, [revocable |-> FALSE, effect |-> "BlockAll"], [not_before |-> 2, not_after |-> 3]),
   Document(None, Delegate, Revocable("BlockAll"), None)}

AllDocuments == RevocableDocuments \cup OtherDocuments
=============================================================================
