------------------------- MODULE ExactlyOnceLedger --------------------------
(***************************************************************************)
(* What the atomic execution boundary promises (the trait contract of      *)
(* AtomicInventoryExecutor), without its maps, its counters or its audit:  *)
(* an intent takes effect at most once; a mint appends its units to the    *)
(* issue book of its grant and type, which never outgrows the quota; a     *)
(* write appends one entry to the history of its resource.                 *)
(***************************************************************************)
EXTENDS Naturals, Sequences

CONSTANTS
  Intents,    \* whatever identifies one intended effect
  Keys,       \* what a quota is counted by
  Resources,
  Quota       \* the most units a key may have, [Keys -> Nat]

VARIABLES
  issued,     \* key -> the intent that created each unit, in serial order
  writers,    \* resource -> the intents that wrote it since it was registered
  done        \* the intents that took effect

vars == <<issued, writers, done>>

Init ==
  /\ issued  = [k \in Keys |-> <<>>]
  /\ writers = [r \in Resources |-> <<>>]
  /\ done    = {}

\* One intent creates `quantity` units of a key.
Mint(intent, key, quantity) ==
  /\ intent \notin done
  /\ done' = done \cup {intent}
  /\ Len(issued[key]) + quantity <= Quota[key]
  /\ issued' = [issued EXCEPT ![key] = @ \o [n \in 1 .. quantity |-> intent]]
  /\ UNCHANGED writers

\* One intent writes a resource.
Write(intent, resource) ==
  /\ intent \notin done
  /\ done' = done \cup {intent}
  /\ writers' = [writers EXCEPT ![resource] = Append(@, intent)]
  /\ UNCHANGED issued

\* A resource is registered anew: its history starts over.
Register(resource) ==
  /\ writers' = [writers EXCEPT ![resource] = <<>>]
  /\ UNCHANGED <<issued, done>>

Next ==
  \/ \E intent \in Intents :
       \/ \E key \in Keys : \E quantity \in 1 .. Quota[key] : Mint(intent, key, quantity)
       \/ \E resource \in Resources : Write(intent, resource)
  \/ \E resource \in Resources : Register(resource)

Spec == Init /\ [][Next]_vars
=============================================================================
