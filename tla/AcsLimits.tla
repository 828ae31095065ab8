----------------------------- MODULE AcsLimits -----------------------------
(***************************************************************************)
(* What services/genieacs/concurrency.js promises: a set of requests in    *)
(* flight to the ACS, never more than one ceiling for the process and one  *)
(* for each provider. AcsSlots is the code that keeps the promise.         *)
(***************************************************************************)
EXTENDS Naturals, FiniteSets

CONSTANTS
  Calls,         \* calls of withAcsSlot
  Provider,      \* the provider in whose scope each call runs
  TenantLimit, GlobalLimit

VARIABLE inside  \* the calls whose request is in flight

Of(t) == {c \in inside : Provider[c] = t}

Init == inside = {}

Enter(c) ==
  /\ c \notin inside
  /\ Cardinality(inside) < GlobalLimit
  /\ Cardinality(Of(Provider[c])) < TenantLimit
  /\ inside' = inside \cup {c}

Leave(c) ==
  /\ c \in inside
  /\ inside' = inside \ {c}

Next == \E c \in Calls : Enter(c) \/ Leave(c)

Spec == Init /\ [][Next]_inside
=============================================================================
