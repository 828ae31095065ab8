----------------------------- MODULE AcsSlots ------------------------------
(***************************************************************************)
(* The two semaphores every request to an ACS goes through                 *)
(* (services/genieacs/concurrency.js): one for the provider, created on    *)
(* demand and dropped from the map when it is idle, and one for the whole  *)
(* process. Node runs one callback at a time, so what withAcsSlot does     *)
(* between two awaits is one action; a slot given to a waiter is his at    *)
(* once, though he runs only when his promise is resumed.                  *)
(***************************************************************************)
EXTENDS Naturals, Sequences, FiniteSets

CONSTANTS
  Calls,         \* calls of withAcsSlot; one that ended may be made again
  Tenants,
  Provider,      \* the provider in whose scope each call runs
  Gates,         \* identities of the Semaphore objects of providers
  NoGate,        \* no entry in the map
  TenantLimit, GlobalLimit

ASSUME SlotsAssumption ==
  /\ Provider \in [Calls -> Tenants]
  /\ NoGate \notin Gates
  /\ TenantLimit \in Nat \ {0} /\ GlobalLimit \in Nat \ {0}
  /\ IsFiniteSet(Calls)

VARIABLES
  gates,         \* the semaphores of providers
  global,        \* globalGate
  tenantGates,   \* the map from a provider to its semaphore
  pc,            \* where each call is
  gate           \* the semaphore the call took from the map

vars == <<gates, global, tenantGates, pc, gate>>

Semaphore == [inFlight : Nat, waiting : Seq(Calls)]

\* A semaphore counts slots and lines up calls, and its count never goes below
\* zero: release is called once for every slot taken.
TypeOK ==
  /\ gates \in [Gates -> Semaphore]
  /\ global \in Semaphore
  /\ tenantGates \in [Tenants -> Gates \cup {NoGate}]
  /\ pc \in [Calls -> {"idle", "queued", "holds", "waiting", "granted", "running"}]
  /\ gate \in [Calls -> Gates \cup {NoGate}]

-----------------------------------------------------------------------------
(* The semaphore.                                                          *)

Fresh == [inFlight |-> 0, waiting |-> <<>>]

HasRoom(s, limit) == s.inFlight < limit

LastFirst(s, limit, c) ==                             \* mutant: the newest waiter goes first
  IF HasRoom(s, limit) THEN [s EXCEPT !.inFlight = @ + 1]
                       ELSE [s EXCEPT !.waiting = <<c>> \o @]

Acquired(s, limit, c) ==
  IF HasRoom(s, limit) THEN [s EXCEPT !.inFlight = @ + 1]
                       ELSE [s EXCEPT !.waiting = Append(@, c)]

\* The slot of who leaves goes straight to the first waiter.
Unheard(s) == {}                                      \* mutant: next() is never called
Woken(s) == IF s.waiting = <<>> THEN {} ELSE {Head(s.waiting)}

FreedAndGiven(s) ==                                   \* mutant: the else is missing
  [inFlight |-> s.inFlight - 1, waiting |-> IF s.waiting = <<>> THEN <<>> ELSE Tail(s.waiting)]

Released(s) ==
  IF s.waiting = <<>> THEN [s EXCEPT !.inFlight = @ - 1]
                      ELSE [s EXCEPT !.waiting = Tail(@)]

Uncrowded(s) == s.waiting = <<>>                      \* mutant: nobody waits, some still run
Idle(s) == s.inFlight = 0 /\ s.waiting = <<>>

-----------------------------------------------------------------------------
(* withAcsSlot.                                                            *)

Init ==
  /\ gates = [g \in Gates |-> Fresh]
  /\ global = Fresh
  /\ tenantGates = [t \in Tenants |-> NoGate]
  /\ pc = [c \in Calls |-> "idle"]
  /\ gate = [c \in Calls |-> NoGate]

InUse(g) == (\E t \in Tenants : tenantGates[t] = g) \/ (\E c \in Calls : gate[c] = g)

\* gateFor: the provider's semaphore, or a new one, which the map then holds.
GateFor(t, g, s) ==
  \/ tenantGates[t] = g /\ s = gates[g]
  \/ tenantGates[t] = NoGate /\ ~InUse(g) /\ s = Fresh

\* The call finds its semaphore and asks it for a slot.
Start(c) ==
  /\ pc[c] = "idle"
  /\ \E g \in Gates, s \in {gates[x] : x \in Gates} \cup {Fresh} :
       /\ GateFor(Provider[c], g, s)
       /\ gates' = [gates EXCEPT ![g] = Acquired(s, TenantLimit, c)]
       /\ tenantGates' = [tenantGates EXCEPT ![Provider[c]] = g]
       /\ gate' = [gate EXCEPT ![c] = g]
       /\ pc' = [pc EXCEPT ![c] = IF HasRoom(s, TenantLimit) THEN "holds" ELSE "queued"]
  /\ UNCHANGED global

\* With the provider's slot, the call asks for one of the process.
AskGlobal(c) ==
  /\ pc[c] = "holds"
  /\ global' = Acquired(global, GlobalLimit, c)
  /\ pc' = [pc EXCEPT ![c] = IF HasRoom(global, GlobalLimit) THEN "granted" ELSE "waiting"]
  /\ UNCHANGED <<gates, tenantGates, gate>>

\* With both, the request goes out.
Run(c) ==
  /\ pc[c] = "granted"
  /\ pc' = [pc EXCEPT ![c] = "running"]
  /\ UNCHANGED <<gates, global, tenantGates, gate>>

\* The request ends, well or badly. The two finally blocks run without an await
\* between them: both slots go on, and an idle semaphore leaves the map.
Finish(c) ==
  /\ pc[c] = "running"
  /\ LET t == Provider[c]
         g == gate[c]
         s == Released(gates[g])
     IN /\ global' = Released(global)
        /\ gates' = [gates EXCEPT ![g] = s]
        /\ pc' = [d \in Calls |-> IF d = c THEN "idle"
                                  ELSE IF d \in Woken(global) THEN "granted"
                                  ELSE IF d \in Woken(gates[g]) THEN "holds"
                                  ELSE pc[d]]
        /\ tenantGates' = IF Idle(s) /\ tenantGates[t] = g
                            THEN [tenantGates EXCEPT ![t] = NoGate] ELSE tenantGates
        /\ gate' = [gate EXCEPT ![c] = NoGate]

Next == \E c \in Calls : Start(c) \/ AskGlobal(c) \/ Run(c) \/ Finish(c)

Spec == Init /\ [][Next]_vars

\* A resumed promise runs, and a request ends: its deadline aborts it, and is
\* armed only once it has its slots (services/genieacs/direct.js:236).
Fairness == \A c \in Calls : WF_vars(AskGlobal(c)) /\ WF_vars(Run(c)) /\ WF_vars(Finish(c))

FairSpec == Spec /\ Fairness

-----------------------------------------------------------------------------
(* Properties.                                                             *)

Having(t) == {c \in Calls : Provider[c] = t /\ pc[c] \in {"holds", "waiting", "granted", "running"}}
InFlight == {c \in Calls : pc[c] \in {"granted", "running"}}

\* A provider never has more slots than its cap, though its semaphore is dropped
\* and created anew while its calls come and go.
TenantBound == \A t \in Tenants : Cardinality(Having(t)) <= TenantLimit

\* Nobody waits for a slot that is free: no slot is lost, whoever ends first.
NoSlotIdle ==
  \A c \in Calls :
    /\ pc[c] = "queued" => Cardinality(Having(Provider[c])) = TenantLimit
    /\ pc[c] = "waiting" => Cardinality(InFlight) = GlobalLimit

\* c stands before d in the same line.
Ahead(c, d) ==
  /\ pc[c] = pc[d] /\ pc[c] \in {"queued", "waiting"}
  /\ LET line == IF pc[d] = "waiting" THEN global.waiting ELSE gates[gate[d]].waiting IN
     \E i, j \in DOMAIN line : i < j /\ line[i] = c /\ line[j] = d

\* c passes d in the line for a slot that d waits for, or takes the slot before d.
Overtakes(c, d) ==
  LET slot == IF pc[d] = "queued" THEN "holds" ELSE "granted" IN
  /\ c # d /\ pc[d] \in {"queued", "waiting"} /\ pc'[d] = pc[d]
  /\ pc[d] = "queued" => Provider[c] = Provider[d]
  /\ ~Ahead(c, d)
  /\ Ahead(c, d)' \/ (pc[c] # slot /\ pc'[c] = slot)

\* Who waits is not overtaken, neither by who comes later nor by who stands behind:
\* "releasing first would let a caller arriving in between jump the queue".
FirstComeFirstServed == [][\A c, d \in Calls : ~Overtakes(c, d)]_vars

\* Every call gets its turn, whatever the other providers do.
Served == \A c \in Calls : pc[c] # "idle" ~> pc[c] = "running"

\* The code keeps what AcsLimits promises.
Limits == INSTANCE AcsLimits WITH inside <- {c \in Calls : pc[c] = "running"}
Implements == Limits!Spec
=============================================================================
