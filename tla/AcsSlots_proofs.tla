-------------------------- MODULE AcsSlots_proofs --------------------------
(***************************************************************************)
(* The slots of the ACS, for any calls, providers and caps: the count of a *)
(* semaphore is the number of calls that own its slots, and its line is    *)
(* who waits. So the caps hold (TenantBound, Implements), no slot is idle  *)
(* while somebody waits for it (NoSlotIdle), and nobody is overtaken.      *)
(***************************************************************************)
EXTENDS AcsSlots, Integers, FiniteSetTheorems, SequenceTheorems, TLAPS

Holding == {"holds", "waiting", "granted", "running"}
Owners(g) == {c \in Calls : gate[c] = g /\ pc[c] \in Holding}
Line(g) == {c \in Calls : gate[c] = g /\ pc[c] = "queued"}
Waiting == {c \in Calls : pc[c] = "waiting"}

\* A semaphore whose slots belong to H and whose line is W.
Stands(line, W) ==
  /\ \A c \in Calls : c \in W <=> \E i \in 1..Len(line) : line[i] = c
  /\ \A i, j \in 1..Len(line) : line[i] = line[j] => i = j
Sound(s, limit, H, W) ==
  /\ s.inFlight = Cardinality(H)
  /\ s.inFlight <= limit
  /\ s.waiting # <<>> => s.inFlight = limit
  /\ Stands(s.waiting, W)

\* A call that is in has the semaphore its provider has in the map.
Placed ==
  \A c \in Calls :
    /\ gate[c] = NoGate <=> pc[c] = "idle"
    /\ pc[c] # "idle" => tenantGates[Provider[c]] = gate[c]
\* Two providers share no semaphore.
Apart == \A t, u \in Tenants : tenantGates[t] = tenantGates[u] /\ tenantGates[t] # NoGate => t = u

SlotInv ==
  /\ TypeOK
  /\ Placed
  /\ Apart
  /\ \A g \in Gates : Sound(gates[g], TenantLimit, Owners(g), Line(g))
  /\ Sound(global, GlobalLimit, InFlight, Waiting)

-----------------------------------------------------------------------------
(* The semaphore.                                                          *)

\* A set of calls is finite, and its size is what one call more or less makes of it.
LEMMA Sizes ==
  ASSUME NEW H \in SUBSET Calls
  PROVE  /\ IsFiniteSet(H) /\ Cardinality(H) \in Nat
         /\ \A c \in H : Cardinality(H) >= 1 /\ Cardinality(H \ {c}) = Cardinality(H) - 1
         /\ \A c \in Calls \ H : Cardinality(H \cup {c}) = Cardinality(H) + 1
<1>1. IsFiniteSet(H)
  BY FS_Subset, SlotsAssumption DEF SlotsAssumption
<1>2. Cardinality(H) \in Nat
  BY <1>1, FS_CardinalityType
<1>3. \A c \in H : Cardinality(H) >= 1 /\ Cardinality(H \ {c}) = Cardinality(H) - 1
  <2> SUFFICES ASSUME NEW c \in H PROVE Cardinality(H) >= 1 /\ Cardinality(H \ {c}) = Cardinality(H) - 1
    OBVIOUS
  <2>1. Cardinality(H \ {c}) = Cardinality(H) - 1
    BY <1>1, FS_RemoveElement
  <2>2. Cardinality(H) # 0
    BY <1>1, FS_EmptySet
  <2> QED BY <2>1, <2>2, <1>2
<1>4. \A c \in Calls \ H : Cardinality(H \cup {c}) = Cardinality(H) + 1
  BY <1>1, FS_AddElement
<1> QED BY <1>1, <1>2, <1>3, <1>4

\* acquire gives a slot when there is one, and a place at the end of the line when not.
LEMMA AcquireIsSound ==
  ASSUME NEW s \in Semaphore, NEW limit \in Nat, NEW c \in Calls,
         NEW H \in SUBSET Calls, NEW W \in SUBSET Calls,
         c \notin H, c \notin W, Sound(s, limit, H, W)
  PROVE  /\ Acquired(s, limit, c) \in Semaphore
         /\ HasRoom(s, limit) => Sound(Acquired(s, limit, c), limit, H \cup {c}, W)
         /\ ~HasRoom(s, limit) => Sound(Acquired(s, limit, c), limit, H, W \cup {c})
<1> DEFINE a == Acquired(s, limit, c)
<1>1. s.inFlight \in Nat /\ s.waiting \in Seq(Calls)
  BY DEF Semaphore
<1>2. CASE HasRoom(s, limit)
  <2>1. a = [inFlight |-> s.inFlight + 1, waiting |-> s.waiting]
    BY <1>2 DEF Acquired, Semaphore
  <2>2. s.waiting = <<>>
    BY <1>1, <1>2 DEF HasRoom, Sound
  <2>3. a \in Semaphore
    BY <2>1, <1>1 DEF Semaphore
  <2>4. Cardinality(H \cup {c}) = Cardinality(H) + 1
    BY Sizes
  <2>5. Sound(a, limit, H \cup {c}, W)
    BY <2>1, <2>2, <2>4, <1>1, <1>2 DEF Sound, HasRoom
  <2> QED BY <2>3, <2>5, <1>2
<1>3. CASE ~HasRoom(s, limit)
  <2> DEFINE line == Append(s.waiting, c)
  <2>1. a = [inFlight |-> s.inFlight, waiting |-> line]
    BY <1>3 DEF Acquired, Semaphore
  <2>2. line \in Seq(Calls) /\ Len(line) = Len(s.waiting) + 1
        /\ (\A i \in 1..Len(s.waiting) : line[i] = s.waiting[i]) /\ line[Len(s.waiting) + 1] = c
    BY <1>1
  <2>3. Len(s.waiting) \in Nat
    BY <1>1
  <2>4. \A i \in 1..Len(s.waiting) : s.waiting[i] # c
    BY DEF Sound, Stands
  <2>5. Stands(line, W \cup {c})
    <3>1. \A d \in Calls : d \in W \cup {c} <=> \E i \in 1..Len(line) : line[i] = d
      <4> TAKE d \in Calls
      <4>1. d \in W => \E i \in 1..Len(line) : line[i] = d
        BY <2>2, <2>3 DEF Sound, Stands
      <4>2. \E i \in 1..Len(line) : line[i] = c
        BY <2>2, <2>3
      <4>3. ASSUME NEW i \in 1..Len(line), line[i] = d PROVE d \in W \cup {c}
        <5>1. CASE i = Len(s.waiting) + 1
          BY <5>1, <2>2, <4>3
        <5>2. CASE i # Len(s.waiting) + 1
          <6>1. i \in 1..Len(s.waiting) /\ s.waiting[i] = d
            BY <5>2, <2>2, <2>3, <4>3
          <6> QED BY <6>1 DEF Sound, Stands
        <5> QED BY <5>1, <5>2
      <4> QED BY <4>1, <4>2, <4>3
    <3>2. \A i, j \in 1..Len(line) : line[i] = line[j] => i = j
      <4> SUFFICES ASSUME NEW i \in 1..Len(line), NEW j \in 1..Len(line), line[i] = line[j], i # j
                   PROVE FALSE
        OBVIOUS
      <4>1. i = Len(s.waiting) + 1 \/ i \in 1..Len(s.waiting)
        BY <2>2, <2>3
      <4>2. j = Len(s.waiting) + 1 \/ j \in 1..Len(s.waiting)
        BY <2>2, <2>3
      <4> QED BY <4>1, <4>2, <2>2, <2>4 DEF Sound, Stands
    <3> QED BY <3>1, <3>2 DEF Stands
  <2>6. a \in Semaphore
    BY <2>1, <2>2, <1>1 DEF Semaphore
  <2>7. Sound(a, limit, H, W \cup {c})
    <3>1. s.inFlight = limit
      BY <1>1, <1>3 DEF HasRoom, Sound
    <3> QED BY <2>1, <2>5, <3>1 DEF Sound
  <2> QED BY <2>6, <2>7, <1>3
<1> QED BY <1>2, <1>3

\* release gives the slot of c to who is first in line, or takes it from the count.
LEMMA ReleaseIsSound ==
  ASSUME NEW s \in Semaphore, NEW limit \in Nat, NEW c \in Calls,
         NEW H \in SUBSET Calls, NEW W \in SUBSET Calls,
         c \in H, H \cap W = {}, Sound(s, limit, H, W)
  PROVE  /\ Released(s) \in Semaphore
         /\ Woken(s) \subseteq W
         /\ Sound(Released(s), limit, (H \ {c}) \cup Woken(s), W \ Woken(s))
<1>1. s.inFlight \in Nat /\ s.waiting \in Seq(Calls)
  BY DEF Semaphore
<1>2. Cardinality(H) >= 1 /\ Cardinality(H \ {c}) = Cardinality(H) - 1 /\ Cardinality(H) \in Nat
  BY Sizes
<1>3. CASE s.waiting = <<>>
  <2>1. Released(s) = [inFlight |-> s.inFlight - 1, waiting |-> s.waiting] /\ Woken(s) = {}
    BY <1>3 DEF Released, Woken, Semaphore
  <2>2. s.inFlight >= 1
    BY <1>2 DEF Sound
  <2>3. Released(s) \in Semaphore
    BY <2>1, <2>2, <1>1 DEF Semaphore
  <2>4. Sound(Released(s), limit, H \ {c}, W)
    BY <2>1, <2>2, <1>1, <1>2, <1>3 DEF Sound
  <2> QED BY <2>1, <2>3, <2>4
<1>4. CASE s.waiting # <<>>
  <2> DEFINE first == Head(s.waiting)
             line == Tail(s.waiting)
  <2>1. Released(s) = [inFlight |-> s.inFlight, waiting |-> line] /\ Woken(s) = {first}
    BY <1>4 DEF Released, Woken, Semaphore
  <2>2. line \in Seq(Calls) /\ Len(line) = Len(s.waiting) - 1 /\ Len(s.waiting) \in Nat \ {0}
        /\ (\A i \in 1..Len(line) : line[i] = s.waiting[i + 1]) /\ first = s.waiting[1] /\ first \in Calls
    BY <1>1, <1>4, HeadTailProperties, EmptySeq
  <2>3. first \in W
    BY <2>2 DEF Sound, Stands
  <2>4. first \notin H
    BY <2>3
  <2>5. Cardinality((H \ {c}) \cup {first}) = Cardinality(H)
    <3>1. Cardinality((H \ {c}) \cup {first}) = Cardinality(H \ {c}) + 1
      BY Sizes, <2>2, <2>4
    <3> QED BY <3>1, <1>2
  <2>6. Stands(line, W \ {first})
    <3>1. \A d \in Calls : d \in W \ {first} <=> \E i \in 1..Len(line) : line[i] = d
      <4> TAKE d \in Calls
      <4>1. ASSUME d \in W, d # first PROVE \E i \in 1..Len(line) : line[i] = d
        <5>1. PICK i \in 1..Len(s.waiting) : s.waiting[i] = d
          BY <4>1 DEF Sound, Stands
        <5>2. i # 1
          BY <5>1, <4>1, <2>2
        <5>3. i - 1 \in 1..Len(line) /\ line[i - 1] = s.waiting[i]
          BY <5>2, <2>2
        <5> QED BY <5>1, <5>3
      <4>2. ASSUME NEW i \in 1..Len(line), line[i] = d PROVE d \in W /\ d # first
        <5>1. i + 1 \in 1..Len(s.waiting) /\ s.waiting[i + 1] = d /\ i + 1 # 1 /\ 1 \in 1..Len(s.waiting)
          BY <4>2, <2>2
        <5>2. d \in W
          BY <5>1 DEF Sound, Stands
        <5>3. d # first
          BY <5>1, <2>2 DEF Sound, Stands
        <5> QED BY <5>2, <5>3
      <4> QED BY <4>1, <4>2
    <3>2. \A i, j \in 1..Len(line) : line[i] = line[j] => i = j
      <4> SUFFICES ASSUME NEW i \in 1..Len(line), NEW j \in 1..Len(line), line[i] = line[j]
                   PROVE i = j
        OBVIOUS
      <4>1. i + 1 \in 1..Len(s.waiting) /\ j + 1 \in 1..Len(s.waiting)
            /\ s.waiting[i + 1] = s.waiting[j + 1]
        BY <2>2
      <4>2. i + 1 = j + 1
        BY <4>1 DEF Sound, Stands
      <4> QED BY <4>2, <2>2
    <3> QED BY <3>1, <3>2 DEF Stands
  <2>7. Released(s) \in Semaphore
    BY <2>1, <2>2, <1>1 DEF Semaphore
  <2>8. s.inFlight = limit /\ s.inFlight = Cardinality(H)
    BY <1>4 DEF Sound
  <2>9. Sound(Released(s), limit, (H \ {c}) \cup {first}, W \ {first})
    BY <2>1, <2>5, <2>6, <2>8, <1>1 DEF Sound
  <2> QED BY <2>1, <2>3, <2>7, <2>9
<1> QED BY <1>3, <1>4

-----------------------------------------------------------------------------
(* The invariant.                                                          *)

\* A new semaphore is nobody's.
LEMMA FreshIsSound ==
  ASSUME NEW limit \in Nat
  PROVE  Fresh \in Semaphore /\ Sound(Fresh, limit, {}, {})
<1>1. Fresh.inFlight = 0 /\ Fresh.waiting = <<>> /\ Fresh \in Semaphore
  BY DEF Fresh, Semaphore
<1>2. Cardinality({}) = 0
  BY FS_EmptySet
<1>3. Stands(<<>>, {})
  BY DEF Stands
<1> QED BY <1>1, <1>2, <1>3 DEF Sound

LEMMA SlotInvInit == Init => SlotInv
<1> SUFFICES ASSUME Init PROVE SlotInv
  OBVIOUS
<1> USE SlotsAssumption DEF SlotsAssumption
<1>1. Fresh \in Semaphore /\ Sound(Fresh, TenantLimit, {}, {}) /\ Sound(Fresh, GlobalLimit, {}, {})
  BY FreshIsSound
<1>2. TypeOK
  BY <1>1 DEF Init, TypeOK
<1>3. Placed /\ Apart
  BY DEF Init, Placed, Apart
<1>4. \A g \in Gates : Owners(g) = {} /\ Line(g) = {}
  BY DEF Init, Owners, Line, Holding
<1>5. InFlight = {} /\ Waiting = {}
  BY DEF Init, InFlight, Waiting
<1>6. \A g \in Gates : gates[g] = Fresh
  BY DEF Init
<1>7. global = Fresh
  BY DEF Init
<1>8. \A g \in Gates : Sound(gates[g], TenantLimit, Owners(g), Line(g))
  BY <1>1, <1>4, <1>6
<1>9. Sound(global, GlobalLimit, InFlight, Waiting)
  BY <1>1, <1>5, <1>7
<1> QED BY <1>2, <1>3, <1>8, <1>9 DEF SlotInv

\* What a call finds in the map is its provider's alone, and sound for who is in it.
LEMMA GateIsSound ==
  ASSUME SlotInv, NEW t \in Tenants, NEW g \in Gates,
         NEW s \in {gates[x] : x \in Gates} \cup {Fresh}, GateFor(t, g, s)
  PROVE  /\ s \in Semaphore
         /\ Sound(s, TenantLimit, Owners(g), Line(g))
         /\ \A u \in Tenants \ {t} : tenantGates[u] # g
         /\ \A d \in Calls : gate[d] = g => Provider[d] = t
         /\ \A d \in Calls : Provider[d] = t /\ pc[d] # "idle" => gate[d] = g
<1> USE SlotsAssumption DEF SlotsAssumption
<1>1. CASE tenantGates[t] = g /\ s = gates[g]
  <2>1. \A u \in Tenants \ {t} : tenantGates[u] # g
    BY <1>1 DEF SlotInv, Apart
  <2>2. \A d \in Calls : gate[d] = g => Provider[d] = t
    BY <2>1 DEF SlotInv, Placed, TypeOK
  <2>3. \A d \in Calls : Provider[d] = t /\ pc[d] # "idle" => gate[d] = g
    BY <1>1 DEF SlotInv, Placed
  <2>4. s \in Semaphore /\ Sound(s, TenantLimit, Owners(g), Line(g))
    BY <1>1 DEF SlotInv, TypeOK
  <2> QED BY <2>1, <2>2, <2>3, <2>4
<1>2. CASE tenantGates[t] = NoGate /\ ~InUse(g) /\ s = Fresh
  <2>1. (\A u \in Tenants : tenantGates[u] # g) /\ (\A d \in Calls : gate[d] # g)
    BY <1>2 DEF InUse
  <2>2. Owners(g) = {} /\ Line(g) = {}
    BY <2>1 DEF Owners, Line
  <2>3. \A d \in Calls : Provider[d] = t => pc[d] = "idle"
    BY <1>2 DEF SlotInv, Placed, TypeOK
  <2>4. s \in Semaphore /\ Sound(s, TenantLimit, {}, {})
    BY <1>2, FreshIsSound
  <2> QED BY <2>1, <2>2, <2>3, <2>4
<1> QED BY <1>1, <1>2 DEF GateFor

LEMMA StartKeeps ==
  ASSUME SlotInv, NEW c \in Calls, Start(c)
  PROVE  SlotInv'
<1> USE SlotsAssumption DEF SlotsAssumption
<1> DEFINE t == Provider[c]
<1>1. PICK g \in Gates, s \in {gates[x] : x \in Gates} \cup {Fresh} :
        /\ GateFor(t, g, s)
        /\ gates' = [gates EXCEPT ![g] = Acquired(s, TenantLimit, c)]
        /\ tenantGates' = [tenantGates EXCEPT ![t] = g]
        /\ gate' = [gate EXCEPT ![c] = g]
        /\ pc' = [pc EXCEPT ![c] = IF HasRoom(s, TenantLimit) THEN "holds" ELSE "queued"]
  BY DEF Start
<1>2. global' = global /\ pc[c] = "idle"
  BY DEF Start
<1>3. TypeOK /\ Placed /\ Apart /\ t \in Tenants
  BY DEF SlotInv
<1>4. gate[c] = NoGate
  BY <1>2, <1>3 DEF Placed
<1>5. /\ s \in Semaphore
      /\ Sound(s, TenantLimit, Owners(g), Line(g))
      /\ \A u \in Tenants \ {t} : tenantGates[u] # g
      /\ \A d \in Calls : gate[d] = g => Provider[d] = t
      /\ \A d \in Calls : Provider[d] = t /\ pc[d] # "idle" => gate[d] = g
  BY <1>1, <1>3, GateIsSound
<1> DEFINE a == Acquired(s, TenantLimit, c)
<1>6. Owners(g) \in SUBSET Calls /\ Line(g) \in SUBSET Calls /\ c \notin Owners(g) /\ c \notin Line(g)
  BY <1>4 DEF Owners, Line
<1>7. /\ a \in Semaphore
      /\ HasRoom(s, TenantLimit) => Sound(a, TenantLimit, Owners(g) \cup {c}, Line(g))
      /\ ~HasRoom(s, TenantLimit) => Sound(a, TenantLimit, Owners(g), Line(g) \cup {c})
  BY <1>5, <1>6, AcquireIsSound
<1> HIDE DEF a
<1>8. /\ gate'[c] = g /\ \A d \in Calls \ {c} : gate'[d] = gate[d] /\ pc'[d] = pc[d]
      /\ pc'[c] = IF HasRoom(s, TenantLimit) THEN "holds" ELSE "queued"
  BY <1>1, <1>3 DEF TypeOK
<1>9. TypeOK'
  <2>1. gates' \in [Gates -> Semaphore]
    BY <1>1, <1>3, <1>7 DEF TypeOK, a
  <2>2. tenantGates' \in [Tenants -> Gates \cup {NoGate}] /\ gate' \in [Calls -> Gates \cup {NoGate}]
    BY <1>1, <1>3 DEF TypeOK
  <2>3. pc' \in [Calls -> {"idle", "queued", "holds", "waiting", "granted", "running"}]
    BY <1>1, <1>3 DEF TypeOK
  <2>4. global' \in Semaphore
    BY <1>2, <1>3 DEF TypeOK
  <2> QED BY <2>1, <2>2, <2>3, <2>4 DEF TypeOK
<1>10. tenantGates'[t] = g /\ \A u \in Tenants \ {t} : tenantGates'[u] = tenantGates[u]
  BY <1>1, <1>3 DEF TypeOK
<1>11. Placed'
  <2> SUFFICES ASSUME NEW d \in Calls
               PROVE  /\ gate'[d] = NoGate <=> pc'[d] = "idle"
                      /\ pc'[d] # "idle" => tenantGates'[Provider[d]] = gate'[d]
    BY DEF Placed
  <2>1. CASE d = c
    BY <2>1, <1>8, <1>10
  <2>2. CASE d # c /\ Provider[d] = t
    BY <2>2, <1>3, <1>5, <1>8, <1>10 DEF Placed
  <2>3. CASE d # c /\ Provider[d] # t
    BY <2>3, <1>3, <1>8, <1>10 DEF Placed
  <2> QED BY <2>1, <2>2, <2>3
<1>12. Apart'
  <2> SUFFICES ASSUME NEW u \in Tenants, NEW v \in Tenants,
                      tenantGates'[u] = tenantGates'[v], tenantGates'[u] # NoGate
               PROVE  u = v
    BY DEF Apart
  <2> QED BY <1>3, <1>5, <1>10 DEF Apart
<1>13. \A x \in Gates : Sound(gates[x], TenantLimit, Owners(x), Line(x))'
  <2> TAKE x \in Gates
  <2>1. CASE x # g
    <3>1. Owners(x)' = Owners(x) /\ Line(x)' = Line(x)
      BY <2>1, <1>4, <1>8 DEF Owners, Line
    <3>2. gates'[x] = gates[x]
      BY <2>1, <1>1, <1>3 DEF TypeOK
    <3> QED BY <3>1, <3>2 DEF SlotInv, Sound, Stands
  <2>2. CASE x = g /\ HasRoom(s, TenantLimit)
    <3>1. Owners(g)' = Owners(g) \cup {c} /\ Line(g)' = Line(g)
      BY <2>2, <1>4, <1>8 DEF Owners, Line, Holding
    <3>2. gates'[g] = a
      BY <1>1, <1>3 DEF TypeOK, a
    <3>3. Sound(a, TenantLimit, Owners(g) \cup {c}, Line(g))
      BY <2>2, <1>7
    <3>4. Sound(gates'[g], TenantLimit, Owners(g)', Line(g)')
      BY <3>1, <3>2, <3>3
    <3> QED BY <3>4, <2>2 DEF Sound, Stands
  <2>3. CASE x = g /\ ~HasRoom(s, TenantLimit)
    <3>1. Owners(g)' = Owners(g) /\ Line(g)' = Line(g) \cup {c}
      BY <2>3, <1>4, <1>8 DEF Owners, Line, Holding
    <3>2. gates'[g] = a
      BY <1>1, <1>3 DEF TypeOK, a
    <3>3. Sound(a, TenantLimit, Owners(g), Line(g) \cup {c})
      BY <2>3, <1>7
    <3> QED BY <3>1, <3>2, <3>3, <2>3 DEF Sound, Stands
  <2> QED BY <2>1, <2>2, <2>3
<1>14. Sound(global, GlobalLimit, InFlight, Waiting)'
  <2>1. InFlight' = InFlight /\ Waiting' = Waiting
    BY <1>2, <1>8 DEF InFlight, Waiting
  <2> QED BY <2>1, <1>2 DEF SlotInv, Sound, Stands
<1> QED BY <1>9, <1>11, <1>12, <1>13, <1>14 DEF SlotInv

LEMMA AskGlobalKeeps ==
  ASSUME SlotInv, NEW c \in Calls, AskGlobal(c)
  PROVE  SlotInv'
<1> USE SlotsAssumption DEF SlotsAssumption
<1> DEFINE a == Acquired(global, GlobalLimit, c)
<1>1. /\ pc[c] = "holds" /\ global' = a
      /\ pc' = [pc EXCEPT ![c] = IF HasRoom(global, GlobalLimit) THEN "granted" ELSE "waiting"]
      /\ gates' = gates /\ tenantGates' = tenantGates /\ gate' = gate
  BY DEF AskGlobal
<1>2. TypeOK /\ Placed /\ Apart
  BY DEF SlotInv
<1>3. InFlight \in SUBSET Calls /\ Waiting \in SUBSET Calls /\ c \notin InFlight /\ c \notin Waiting
  BY <1>1 DEF InFlight, Waiting
<1>4. global \in Semaphore /\ Sound(global, GlobalLimit, InFlight, Waiting)
  BY DEF SlotInv, TypeOK
<1>5. /\ a \in Semaphore
      /\ HasRoom(global, GlobalLimit) => Sound(a, GlobalLimit, InFlight \cup {c}, Waiting)
      /\ ~HasRoom(global, GlobalLimit) => Sound(a, GlobalLimit, InFlight, Waiting \cup {c})
  BY <1>3, <1>4, AcquireIsSound
<1> HIDE DEF a
<1>6. /\ \A d \in Calls \ {c} : pc'[d] = pc[d]
      /\ pc'[c] = IF HasRoom(global, GlobalLimit) THEN "granted" ELSE "waiting"
  BY <1>1, <1>2 DEF TypeOK
<1>7. TypeOK'
  <2>1. pc' \in [Calls -> {"idle", "queued", "holds", "waiting", "granted", "running"}]
    BY <1>1, <1>2 DEF TypeOK
  <2> QED BY <2>1, <1>1, <1>2, <1>5 DEF TypeOK
<1>8. Placed' /\ Apart'
  BY <1>1, <1>2, <1>6 DEF Placed, Apart
<1>9. \A x \in Gates : Sound(gates[x], TenantLimit, Owners(x), Line(x))'
  <2> TAKE x \in Gates
  <2>1. Owners(x)' = Owners(x) /\ Line(x)' = Line(x)
    BY <1>1, <1>6 DEF Owners, Line, Holding
  <2> QED BY <2>1, <1>1 DEF SlotInv, Sound, Stands
<1>10. Sound(global, GlobalLimit, InFlight, Waiting)'
  <2>1. CASE HasRoom(global, GlobalLimit)
    <3>1. InFlight' = InFlight \cup {c} /\ Waiting' = Waiting
      BY <2>1, <1>1, <1>6 DEF InFlight, Waiting
    <3> QED BY <3>1, <2>1, <1>1, <1>5 DEF Sound, Stands
  <2>2. CASE ~HasRoom(global, GlobalLimit)
    <3>1. InFlight' = InFlight /\ Waiting' = Waiting \cup {c}
      BY <2>2, <1>1, <1>6 DEF InFlight, Waiting
    <3> QED BY <3>1, <2>2, <1>1, <1>5 DEF Sound, Stands
  <2> QED BY <2>1, <2>2
<1> QED BY <1>7, <1>8, <1>9, <1>10 DEF SlotInv

LEMMA RunKeeps ==
  ASSUME SlotInv, NEW c \in Calls, Run(c)
  PROVE  SlotInv'
<1>1. /\ pc[c] = "granted" /\ pc' = [pc EXCEPT ![c] = "running"]
      /\ gates' = gates /\ global' = global /\ tenantGates' = tenantGates /\ gate' = gate
  BY DEF Run
<1>2. TypeOK /\ Placed /\ Apart
  BY DEF SlotInv
<1>3. pc'[c] = "running" /\ \A d \in Calls \ {c} : pc'[d] = pc[d]
  BY <1>1, <1>2 DEF TypeOK
<1>4. TypeOK' /\ Placed' /\ Apart'
  BY <1>1, <1>2, <1>3 DEF TypeOK, Placed, Apart
<1>5. \A x \in Gates : Sound(gates[x], TenantLimit, Owners(x), Line(x))'
  <2> TAKE x \in Gates
  <2>1. Owners(x)' = Owners(x) /\ Line(x)' = Line(x)
    BY <1>1, <1>3 DEF Owners, Line, Holding
  <2> QED BY <2>1, <1>1 DEF SlotInv, Sound, Stands
<1>6. Sound(global, GlobalLimit, InFlight, Waiting)'
  <2>1. InFlight' = InFlight /\ Waiting' = Waiting
    BY <1>1, <1>3 DEF InFlight, Waiting
  <2> QED BY <2>1, <1>1 DEF SlotInv, Sound, Stands
<1> QED BY <1>4, <1>5, <1>6 DEF SlotInv

\* What a call that ends gives back.
LEMMA GateGivenBack ==
  ASSUME SlotInv, NEW c \in Calls, pc[c] = "running", NEW g \in Gates, g = gate[c]
  PROVE  /\ Released(gates[g]) \in Semaphore
         /\ Woken(gates[g]) \subseteq Line(g)
         /\ Sound(Released(gates[g]), TenantLimit,
                  (Owners(g) \ {c}) \cup Woken(gates[g]), Line(g) \ Woken(gates[g]))
<1> DEFINE s == gates[g]
           H == Owners(g)
           W == Line(g)
<1>1. s \in Semaphore /\ Sound(s, TenantLimit, H, W) /\ TenantLimit \in Nat
  BY SlotsAssumption DEF SlotInv, TypeOK, SlotsAssumption
<1>2. H \in SUBSET Calls /\ W \in SUBSET Calls /\ c \in H /\ H \cap W = {}
  BY DEF Owners, Line, Holding
<1> HIDE DEF s, H, W
<1>3. /\ Released(s) \in Semaphore /\ Woken(s) \subseteq W
      /\ Sound(Released(s), TenantLimit, (H \ {c}) \cup Woken(s), W \ Woken(s))
  BY <1>1, <1>2, ReleaseIsSound
<1> QED BY <1>3 DEF s, H, W

LEMMA GlobalGivenBack ==
  ASSUME SlotInv, NEW c \in Calls, pc[c] = "running"
  PROVE  /\ Released(global) \in Semaphore
         /\ Woken(global) \subseteq Waiting
         /\ Sound(Released(global), GlobalLimit,
                  (InFlight \ {c}) \cup Woken(global), Waiting \ Woken(global))
<1>1. global \in Semaphore /\ Sound(global, GlobalLimit, InFlight, Waiting) /\ GlobalLimit \in Nat
  BY SlotsAssumption DEF SlotInv, TypeOK, SlotsAssumption
<1>2. InFlight \in SUBSET Calls /\ Waiting \in SUBSET Calls /\ c \in InFlight
      /\ InFlight \cap Waiting = {}
  BY DEF InFlight, Waiting
<1> QED BY <1>1, <1>2, ReleaseIsSound

LEMMA FinishKeeps ==
  ASSUME SlotInv, NEW c \in Calls, Finish(c)
  PROVE  SlotInv'
<1> USE SlotsAssumption DEF SlotsAssumption
<1>0. PICK g \in Gates : g = gate[c]
  <2>1. pc[c] = "running"
    BY DEF Finish
  <2> QED BY <2>1 DEF SlotInv, Placed, TypeOK
<1> DEFINE t == Provider[c]
           s == Released(gates[g])
           G == Woken(global)
           W == Woken(gates[g])
<1>1. /\ pc[c] = "running" /\ global' = Released(global)
      /\ gates' = [gates EXCEPT ![g] = s]
      /\ pc' = [d \in Calls |-> IF d = c THEN "idle" ELSE IF d \in G THEN "granted"
                                ELSE IF d \in W THEN "holds" ELSE pc[d]]
      /\ tenantGates' = IF Idle(s) /\ tenantGates[t] = g
                          THEN [tenantGates EXCEPT ![t] = NoGate] ELSE tenantGates
      /\ gate' = [gate EXCEPT ![c] = NoGate]
  BY <1>0 DEF Finish
<1>2. TypeOK /\ Placed /\ Apart /\ t \in Tenants
  BY DEF SlotInv
<1>3. gate[c] = g /\ tenantGates[t] = g
  BY <1>0, <1>1, <1>2 DEF Placed, TypeOK
<1>4. /\ s \in Semaphore /\ W \subseteq Line(g)
      /\ Sound(s, TenantLimit, (Owners(g) \ {c}) \cup W, Line(g) \ W)
  BY <1>0, <1>1, GateGivenBack
<1>5. /\ Released(global) \in Semaphore /\ G \subseteq Waiting
      /\ Sound(Released(global), GlobalLimit, (InFlight \ {c}) \cup G, Waiting \ G)
  BY <1>1, GlobalGivenBack
<1> HIDE DEF s, G, W
<1>6. /\ pc[c] = "running" /\ pc'[c] = "idle" /\ gate'[c] = NoGate
      /\ \A d \in Calls \ {c} : gate'[d] = gate[d]
      /\ \A d \in G : d # c /\ pc[d] = "waiting" /\ pc'[d] = "granted"
      /\ \A d \in W : d # c /\ pc[d] = "queued" /\ pc'[d] = "holds" /\ gate[d] = g
      /\ \A d \in Calls \ {c} : d \notin G /\ d \notin W => pc'[d] = pc[d]
  BY <1>1, <1>2, <1>4, <1>5 DEF TypeOK, Line, Waiting
<1>7. Owners(g)' = (Owners(g) \ {c}) \cup W /\ Line(g)' = Line(g) \ W
  <2>1. \A d \in Calls : d \in Owners(g)' <=> d \in (Owners(g) \ {c}) \cup W
    BY <1>3, <1>6 DEF Owners, Holding
  <2>2. \A d \in Calls : d \in Line(g)' <=> d \in Line(g) \ W
    BY <1>3, <1>6 DEF Line
  <2>3. W \subseteq Calls
    BY <1>4 DEF Line
  <2> QED BY <2>1, <2>2, <2>3 DEF Owners, Line
<1>8. TypeOK'
  <2>1. gates' \in [Gates -> Semaphore] /\ global' \in Semaphore
    BY <1>1, <1>2, <1>4, <1>5 DEF TypeOK
  <2>2. tenantGates' \in [Tenants -> Gates \cup {NoGate}] /\ gate' \in [Calls -> Gates \cup {NoGate}]
    BY <1>1, <1>2 DEF TypeOK
  <2>3. pc' \in [Calls -> {"idle", "queued", "holds", "waiting", "granted", "running"}]
    BY <1>1, <1>2 DEF TypeOK
  <2> QED BY <2>1, <2>2, <2>3 DEF TypeOK
<1>9. \A u \in Tenants \ {t} : tenantGates'[u] = tenantGates[u]
  BY <1>1, <1>2 DEF TypeOK
<1>10. tenantGates'[t] = g \/ (Idle(s) /\ tenantGates'[t] = NoGate)
  BY <1>1, <1>2, <1>3 DEF TypeOK
\* An idle semaphore has no owner and no line, so nobody who is in loses it.
<1>11. \A d \in Calls : Provider[d] = t /\ pc'[d] # "idle" => tenantGates'[t] = gate'[d]
  <2> SUFFICES ASSUME NEW d \in Calls, Provider[d] = t, pc'[d] # "idle"
               PROVE  tenantGates'[t] = gate'[d]
    OBVIOUS
  <2>1. d # c /\ pc[d] # "idle" /\ gate'[d] = gate[d]
    BY <1>6
  <2>2. gate[d] = g
    BY <2>1, <1>2, <1>3 DEF Placed
  <2>3. d \in Owners(g)' \/ d \in Line(g)'
    <3>1. pc'[d] \in {"queued", "holds", "waiting", "granted", "running"}
      BY <1>8 DEF TypeOK
    <3> QED BY <3>1, <2>1, <2>2 DEF Owners, Line, Holding
  <2>4. ~Idle(s)
    <3>1. CASE d \in (Owners(g) \ {c}) \cup W
      <4> DEFINE H == (Owners(g) \ {c}) \cup W
      <4>1. H \in SUBSET Calls
        BY <1>4 DEF Owners, Line
      <4>2. Cardinality(H) >= 1
        BY <3>1, <4>1, Sizes
      <4> QED BY <4>2, <1>4 DEF Sound, Idle
    <3>2. CASE d \in Line(g) \ W
      <4>1. \E i \in 1..Len(s.waiting) : s.waiting[i] = d
        BY <3>2, <1>4 DEF Sound, Stands
      <4>2. s.waiting # <<>>
        BY <4>1
      <4> QED BY <4>2 DEF Idle
    <3> QED BY <3>1, <3>2, <2>3, <1>7
  <2> QED BY <2>1, <2>2, <2>4, <1>10
<1>12. Placed'
  <2> SUFFICES ASSUME NEW d \in Calls
               PROVE  /\ gate'[d] = NoGate <=> pc'[d] = "idle"
                      /\ pc'[d] # "idle" => tenantGates'[Provider[d]] = gate'[d]
    BY DEF Placed
  <2>1. gate'[d] = NoGate <=> pc'[d] = "idle"
    BY <1>2, <1>6 DEF Placed
  <2>2. CASE Provider[d] = t
    BY <2>1, <2>2, <1>11
  <2>3. CASE Provider[d] # t
    <3>1. d # c /\ (pc'[d] # "idle" => pc[d] # "idle") /\ gate'[d] = gate[d]
      BY <2>3, <1>6
    <3>2. tenantGates'[Provider[d]] = tenantGates[Provider[d]]
      BY <2>3, <1>9
    <3> QED BY <2>1, <3>1, <3>2, <1>2 DEF Placed
  <2> QED BY <2>2, <2>3
<1>13. Apart'
  <2> SUFFICES ASSUME NEW u \in Tenants, NEW v \in Tenants,
                      tenantGates'[u] = tenantGates'[v], tenantGates'[u] # NoGate
               PROVE  u = v
    BY DEF Apart
  <2>1. tenantGates'[u] = tenantGates[u] /\ tenantGates'[v] = tenantGates[v]
    BY <1>3, <1>9, <1>10
  <2> QED BY <2>1, <1>2 DEF Apart
<1>14. \A x \in Gates : Sound(gates[x], TenantLimit, Owners(x), Line(x))'
  <2> TAKE x \in Gates
  <2>1. CASE x # g
    <3>1. Owners(x)' = Owners(x) /\ Line(x)' = Line(x)
      BY <2>1, <1>3, <1>6 DEF Owners, Line, Holding
    <3>2. gates'[x] = gates[x]
      BY <2>1, <1>1, <1>2 DEF TypeOK
    <3> QED BY <3>1, <3>2 DEF SlotInv, Sound, Stands
  <2>2. CASE x = g
    <3>1. gates'[g] = s
      BY <1>1, <1>2, <1>3 DEF TypeOK
    <3> QED BY <3>1, <2>2, <1>4, <1>7 DEF Sound, Stands
  <2> QED BY <2>1, <2>2
<1>15. Sound(global, GlobalLimit, InFlight, Waiting)'
  <2>1. InFlight' = (InFlight \ {c}) \cup G /\ Waiting' = Waiting \ G
    <3>1. \A d \in Calls : d \in InFlight' <=> d \in (InFlight \ {c}) \cup G
      BY <1>6 DEF InFlight
    <3>2. \A d \in Calls : d \in Waiting' <=> d \in Waiting \ G
      BY <1>6 DEF Waiting
    <3>3. G \subseteq Calls
      BY <1>5 DEF Waiting
    <3> QED BY <3>1, <3>2, <3>3 DEF InFlight, Waiting
  <2> QED BY <2>1, <1>1, <1>5 DEF Sound, Stands
<1> QED BY <1>8, <1>12, <1>13, <1>14, <1>15 DEF SlotInv

LEMMA SlotInvStep == SlotInv /\ [Next]_vars => SlotInv'
<1> SUFFICES ASSUME SlotInv, [Next]_vars PROVE SlotInv'
  OBVIOUS
<1>1. ASSUME NEW c \in Calls, Start(c) PROVE SlotInv'
  BY <1>1, StartKeeps
<1>2. ASSUME NEW c \in Calls, AskGlobal(c) PROVE SlotInv'
  BY <1>2, AskGlobalKeeps
<1>3. ASSUME NEW c \in Calls, Run(c) PROVE SlotInv'
  BY <1>3, RunKeeps
<1>4. ASSUME NEW c \in Calls, Finish(c) PROVE SlotInv'
  BY <1>4, FinishKeeps
<1>5. CASE UNCHANGED vars
  BY <1>5 DEF vars, SlotInv, TypeOK, Placed, Apart, Sound, Stands, Owners, Line, InFlight, Waiting
<1> QED BY <1>1, <1>2, <1>3, <1>4, <1>5 DEF Next

LEMMA SlotInvAlways == Spec => []SlotInv
<1> QED BY SlotInvInit, SlotInvStep, PTL DEF Spec

-----------------------------------------------------------------------------
(* What follows from it.                                                   *)

\* A provider's slots are those of the one semaphore its calls share.
LEMMA HavingIsOwning ==
  ASSUME SlotInv, NEW c \in Calls, pc[c] # "idle"
  PROVE  gate[c] \in Gates /\ Having(Provider[c]) = Owners(gate[c])
<1> USE SlotsAssumption DEF SlotsAssumption
<1>1. gate[c] \in Gates /\ tenantGates[Provider[c]] = gate[c] /\ Provider[c] \in Tenants
  BY DEF SlotInv, Placed, TypeOK
<1>2. ASSUME NEW d \in Calls, pc[d] # "idle" PROVE Provider[d] = Provider[c] <=> gate[d] = gate[c]
  <2>1. tenantGates[Provider[d]] = gate[d] /\ Provider[d] \in Tenants
    BY <1>2 DEF SlotInv, Placed
  <2> QED BY <1>1, <2>1 DEF SlotInv, Apart
<1>3. \A d \in Calls : d \in Having(Provider[c]) <=> d \in Owners(gate[c])
  BY <1>2 DEF Having, Owners, Holding
<1> QED BY <1>1, <1>3 DEF Having, Owners

LEMMA BoundFollows == SlotInv => TenantBound
<1> SUFFICES ASSUME SlotInv, NEW t \in Tenants PROVE Cardinality(Having(t)) <= TenantLimit
  BY DEF TenantBound
<1>1. CASE Having(t) = {}
  BY <1>1, FS_EmptySet, SlotsAssumption DEF SlotsAssumption
<1>2. CASE Having(t) # {}
  <2>1. PICK c \in Calls : Provider[c] = t /\ pc[c] \in {"holds", "waiting", "granted", "running"}
    BY <1>2 DEF Having
  <2>2. gate[c] \in Gates /\ Having(t) = Owners(gate[c])
    BY <2>1, HavingIsOwning
  <2> QED BY <2>2 DEF SlotInv, Sound
<1> QED BY <1>1, <1>2

LEMMA NoSlotIdleFollows == SlotInv => NoSlotIdle
<1> SUFFICES ASSUME SlotInv, NEW c \in Calls
             PROVE  /\ pc[c] = "queued" => Cardinality(Having(Provider[c])) = TenantLimit
                    /\ pc[c] = "waiting" => Cardinality(InFlight) = GlobalLimit
  BY DEF NoSlotIdle
<1>1. ASSUME pc[c] = "queued" PROVE Cardinality(Having(Provider[c])) = TenantLimit
  <2>1. gate[c] \in Gates /\ Having(Provider[c]) = Owners(gate[c])
    BY <1>1, HavingIsOwning
  <2>2. Sound(gates[gate[c]], TenantLimit, Owners(gate[c]), Line(gate[c])) /\ c \in Line(gate[c])
    BY <1>1, <2>1 DEF SlotInv, Line
  <2>3. gates[gate[c]].waiting # <<>>
    <3>1. \E i \in 1..Len(gates[gate[c]].waiting) : gates[gate[c]].waiting[i] = c
      BY <2>2 DEF Sound, Stands
    <3> QED BY <3>1
  <2> QED BY <2>1, <2>2, <2>3 DEF Sound
<1>2. ASSUME pc[c] = "waiting" PROVE Cardinality(InFlight) = GlobalLimit
  <2>1. Sound(global, GlobalLimit, InFlight, Waiting) /\ c \in Waiting
    BY <1>2 DEF SlotInv, Waiting
  <2>2. global.waiting # <<>>
    <3>1. \E i \in 1..Len(global.waiting) : global.waiting[i] = c
      BY <2>1 DEF Sound, Stands
    <3> QED BY <3>1
  <2> QED BY <2>1, <2>2 DEF Sound
<1> QED BY <1>1, <1>2

\* The semaphores and what the calls hold keep their types: no count ever goes below
\* zero, because release is called once for each slot taken.
THEOREM SlotTypes == Spec => []TypeOK
<1>1. SlotInv => TypeOK
  BY DEF SlotInv
<1> QED BY <1>1, SlotInvAlways, PTL

\* A provider never has more slots than its cap, however often its semaphore is dropped
\* from the map and created anew.
THEOREM TenantBoundAlways == Spec => []TenantBound
<1> QED BY BoundFollows, SlotInvAlways, PTL

\* Nobody waits for a slot that is free.
THEOREM NoSlotIdleAlways == Spec => []NoSlotIdle
<1> QED BY NoSlotIdleFollows, SlotInvAlways, PTL

-----------------------------------------------------------------------------
(* The code keeps what AcsLimits promises: a request that goes out enters, *)
(* one that ends leaves, and the rest is not seen from there.              *)

Inside == {c \in Calls : pc[c] = "running"}

\* Who runs has slots of both semaphores, and so does who is about to.
LEMMA RunEnters ==
  ASSUME SlotInv, NEW c \in Calls, Run(c)
  PROVE  Limits!Enter(c)
<1> USE SlotsAssumption DEF SlotsAssumption
<1>1. pc[c] = "granted" /\ pc' = [pc EXCEPT ![c] = "running"]
  BY DEF Run
<1>2. c \notin Inside /\ Inside' = Inside \cup {c}
  BY <1>1 DEF Inside, SlotInv, TypeOK
<1>3. Cardinality(Inside) < GlobalLimit
  <2>1. InFlight \in SUBSET Calls /\ c \in InFlight /\ Inside \subseteq InFlight \ {c}
    BY <1>1 DEF InFlight, Inside
  <2>2. IsFiniteSet(InFlight \ {c}) /\ Cardinality(InFlight \ {c}) = Cardinality(InFlight) - 1
        /\ Cardinality(InFlight) \in Nat /\ Cardinality(InFlight \ {c}) \in Nat
    <3>1. InFlight \ {c} \in SUBSET Calls
      BY <2>1
    <3> QED BY <2>1, <3>1, Sizes
  <2>3. Cardinality(Inside) <= Cardinality(InFlight \ {c}) /\ Cardinality(Inside) \in Nat
    <3>1. Inside \in SUBSET Calls
      BY DEF Inside
    <3> QED BY <2>1, <2>2, <3>1, Sizes, FS_Subset
  <2>4. Cardinality(InFlight) <= GlobalLimit
    BY DEF SlotInv, Sound
  <2> QED BY <2>2, <2>3, <2>4
<1> DEFINE Of == {d \in Inside : Provider[d] = Provider[c]}
<1>4. Cardinality(Of) < TenantLimit
  <2>1. Having(Provider[c]) \in SUBSET Calls /\ c \in Having(Provider[c])
        /\ Of \subseteq Having(Provider[c]) \ {c} /\ Of \in SUBSET Calls
    BY <1>1 DEF Having, Inside
  <2>2. IsFiniteSet(Having(Provider[c]) \ {c})
        /\ Cardinality(Having(Provider[c]) \ {c}) = Cardinality(Having(Provider[c])) - 1
        /\ Cardinality(Having(Provider[c])) \in Nat /\ Cardinality(Having(Provider[c]) \ {c}) \in Nat
    <3>1. Having(Provider[c]) \ {c} \in SUBSET Calls
      BY <2>1
    <3> QED BY <2>1, <3>1, Sizes
  <2>3. Cardinality(Of) <= Cardinality(Having(Provider[c]) \ {c}) /\ Cardinality(Of) \in Nat
    BY <2>1, <2>2, Sizes, FS_Subset
  <2>4. Cardinality(Having(Provider[c])) <= TenantLimit
    BY BoundFollows DEF TenantBound
  <2> QED BY <2>2, <2>3, <2>4
<1>5. Limits!Of(Provider[c]) = Of
  BY DEF Inside, Limits!Of
<1>6. ASSUME NEW S PROVE Limits!Cardinality(S) = Cardinality(S)
  BY DEF Cardinality, Limits!Cardinality
<1> HIDE DEF Of
<1> QED BY <1>2, <1>3, <1>4, <1>5, <1>6 DEF Inside, Limits!Enter

LEMMA StepRefines == SlotInv /\ SlotInv' /\ [Next]_vars => [Limits!Next]_Inside
<1> SUFFICES ASSUME SlotInv, SlotInv', [Next]_vars PROVE [Limits!Next]_Inside
  OBVIOUS
<1>1. ASSUME NEW c \in Calls, Start(c) PROVE Inside' = Inside
  BY <1>1 DEF Start, Inside, SlotInv, TypeOK
<1>2. ASSUME NEW c \in Calls, AskGlobal(c) PROVE Inside' = Inside
  BY <1>2 DEF AskGlobal, Inside, SlotInv, TypeOK
<1>3. ASSUME NEW c \in Calls, Run(c) PROVE Limits!Next
  BY <1>3, RunEnters DEF Limits!Next
<1>4. ASSUME NEW c \in Calls, Finish(c) PROVE Limits!Next
  <2> USE SlotsAssumption DEF SlotsAssumption
  <2>1. /\ pc[c] = "running"
        /\ pc' = [d \in Calls |-> IF d = c THEN "idle" ELSE IF d \in Woken(global) THEN "granted"
                                  ELSE IF d \in Woken(gates[gate[c]]) THEN "holds" ELSE pc[d]]
    BY <1>4 DEF Finish
  <2>2. gate[c] \in Gates
    BY <2>1, HavingIsOwning
  <2>3. Woken(global) \subseteq Waiting
    BY <2>1, GlobalGivenBack
  <2>4. Woken(gates[gate[c]]) \subseteq Line(gate[c])
    BY <2>1, <2>2, GateGivenBack
  <2>5. c \in Inside /\ Inside' = Inside \ {c}
    <3>1. \A d \in Calls : d \in Inside' <=> d \in Inside \ {c}
      BY <2>1, <2>3, <2>4 DEF Inside, Waiting, Line
    <3> QED BY <3>1, <2>1 DEF Inside
  <2> QED BY <2>5 DEF Inside, Limits!Next, Limits!Leave
<1>5. CASE UNCHANGED vars
  BY <1>5 DEF vars, Inside
<1> QED BY <1>1, <1>2, <1>3, <1>4, <1>5 DEF Next

\* The two semaphores implement two ceilings: a request goes out only when it leaves
\* the process and its provider within theirs.
THEOREM SlotsImplement == Spec => Implements
<1>1. Init => Limits!Init
  BY DEF Init, Limits!Init
<1>2. SlotInv /\ SlotInv' /\ [Next]_vars => [Limits!Next]_{c \in Calls : pc[c] = "running"}
  BY StepRefines DEF Inside
<1> QED BY <1>1, <1>2, SlotInvAlways, PTL DEF Spec, Implements, Limits!Spec

-----------------------------------------------------------------------------
(* The order of arrival.                                                   *)

Before(line, c, d) == \E i, j \in DOMAIN line : i < j /\ line[i] = c /\ line[j] = d

\* Neither who joins a line at its end nor the departure of its first puts one before
\* another, and its first is before all others.
LEMMA LineMoves ==
  ASSUME NEW line \in Seq(Calls), NEW c \in Calls, NEW d \in Calls, NEW e \in Calls
  PROVE  /\ d # e /\ Before(Append(line, e), c, d) => Before(line, c, d)
         /\ line # <<>> /\ Before(Tail(line), c, d) => Before(line, c, d)
         /\ line # <<>> /\ c = Head(line) /\ d # c /\ (\E j \in 1..Len(line) : line[j] = d)
              => Before(line, c, d)
<1>1. Len(line) \in Nat /\ DOMAIN line = 1..Len(line)
  OBVIOUS
<1>2. ASSUME d # e, Before(Append(line, e), c, d) PROVE Before(line, c, d)
  <2> DEFINE more == Append(line, e)
  <2>1. DOMAIN more = 1..Len(line) + 1 /\ (\A i \in 1..Len(line) : more[i] = line[i])
        /\ more[Len(line) + 1] = e
    OBVIOUS
  <2> HIDE DEF more
  <2>2. PICK i \in DOMAIN more, j \in DOMAIN more : i < j /\ more[i] = c /\ more[j] = d
    BY <1>2 DEF Before, more
  <2>3. j # Len(line) + 1
    BY <2>1, <2>2, <1>2
  <2>4. i \in 1..Len(line) /\ j \in 1..Len(line)
    BY <1>1, <2>1, <2>2, <2>3
  <2> QED BY <1>1, <2>1, <2>2, <2>4 DEF Before
<1>3. ASSUME line # <<>>, Before(Tail(line), c, d) PROVE Before(line, c, d)
  <2> DEFINE less == Tail(line)
  <2>1. DOMAIN less = 1..Len(line) - 1 /\ (\A i \in 1..Len(line) - 1 : less[i] = line[i + 1])
    BY <1>3, HeadTailProperties
  <2> HIDE DEF less
  <2>2. PICK i \in DOMAIN less, j \in DOMAIN less : i < j /\ less[i] = c /\ less[j] = d
    BY <1>3 DEF Before, less
  <2>3. i + 1 \in 1..Len(line) /\ j + 1 \in 1..Len(line) /\ i + 1 < j + 1
    BY <1>1, <2>1, <2>2
  <2> QED BY <1>1, <2>1, <2>2, <2>3 DEF Before
<1>4. ASSUME line # <<>>, c = Head(line), d # c, NEW j \in 1..Len(line), line[j] = d
      PROVE  Before(line, c, d)
  <2>1. line[1] = c /\ 1 \in 1..Len(line)
    BY <1>1, <1>4, EmptySeq
  <2>2. 1 < j
    BY <1>1, <1>4, <2>1
  <2> QED BY <1>1, <1>4, <2>1, <2>2 DEF Before
<1> QED BY <1>2, <1>3, <1>4

\* A call of the provider of d that gets the slot of the provider, or passes d in its
\* line, was before d.
LEMMA QueueInOrder ==
  ASSUME SlotInv, Next, NEW c \in Calls, NEW d \in Calls, c # d, pc[d] = "queued",
         pc'[d] = "queued", Provider[c] = Provider[d], ~Ahead(c, d)
  PROVE  ~Ahead(c, d)' /\ (pc'[c] = "holds" => pc[c] = "holds")
<1> DEFINE h == gate[d]
           line == gates[h].waiting
<1>1. TypeOK /\ Placed /\ Apart
  BY DEF SlotInv
<1>2. h \in Gates /\ tenantGates[Provider[d]] = h /\ h # NoGate
  BY <1>1, SlotsAssumption DEF Placed, TypeOK, SlotsAssumption
<1>3. gates[h] \in Semaphore /\ line \in Seq(Calls)
  BY <1>1, <1>2 DEF TypeOK, Semaphore
<1>4. Sound(gates[h], TenantLimit, Owners(h), Line(h)) /\ d \in Line(h)
  BY <1>2 DEF SlotInv, Line
<1>5. (\E j \in 1..Len(line) : line[j] = d) /\ line # <<>>
  <2>1. \E j \in 1..Len(line) : line[j] = d
    BY <1>4 DEF Sound, Stands
  <2> QED BY <2>1
<1>6. ~HasRoom(gates[h], TenantLimit)
  <2>1. gates[h].inFlight = TenantLimit
    BY <1>4, <1>5 DEF Sound
  <2> QED BY <2>1, SlotsAssumption DEF HasRoom, SlotsAssumption
<1>7. ~Before(line, c, d)
  <2> SUFFICES ASSUME Before(line, c, d) PROVE FALSE
    OBVIOUS
  <2>1. \E i \in 1..Len(line) : line[i] = c
    BY <1>3 DEF Before
  <2>2. pc[c] = "queued"
    BY <2>1, <1>4 DEF Sound, Stands, Line
  <2> QED BY <2>2 DEF Ahead, Before
<1> HIDE DEF h, line
<1>8. SUFFICES gate'[d] = h /\ ~Before(gates'[h].waiting, c, d)
               /\ (pc'[c] = "holds" => pc[c] = "holds")
  BY DEF Ahead, Before
<1>9. ASSUME NEW e \in Calls, Start(e)
      PROVE  gate'[d] = h /\ ~Before(gates'[h].waiting, c, d)
             /\ (pc'[c] = "holds" => pc[c] = "holds")
  <2>1. PICK g \in Gates, s \in {gates[x] : x \in Gates} \cup {Fresh} :
          /\ GateFor(Provider[e], g, s)
          /\ gates' = [gates EXCEPT ![g] = Acquired(s, TenantLimit, e)]
          /\ gate' = [gate EXCEPT ![e] = g]
          /\ pc' = [pc EXCEPT ![e] = IF HasRoom(s, TenantLimit) THEN "holds" ELSE "queued"]
    BY <1>9 DEF Start
  <2>2. e # d /\ gate'[d] = h
    BY <1>1, <1>9, <2>1 DEF Start, TypeOK, h
  <2>3. CASE g = h
    <3>1. s = gates[h]
      BY <2>1, <2>3 DEF GateFor, InUse, h
    <3>2. gates'[h] = Acquired(gates[h], TenantLimit, e)
      BY <1>1, <1>2, <2>1, <2>3, <3>1 DEF TypeOK
    <3>3. gates'[h].waiting = Append(line, e)
      BY <1>3, <1>6, <3>2 DEF Acquired, Semaphore, line
    <3>4. ~Before(Append(line, e), c, d)
      BY <1>3, <1>7, <2>2, LineMoves
    <3>5. pc'[e] = "queued" /\ \A x \in Calls \ {e} : pc'[x] = pc[x]
      BY <1>1, <1>6, <2>1, <3>1 DEF TypeOK
    <3> QED BY <2>2, <3>3, <3>4, <3>5
  <2>4. CASE g # h
    <3>1. c # e
      BY <1>2, <2>1, <2>4 DEF GateFor
    <3>2. gates'[h] = gates[h] /\ pc'[c] = pc[c]
      BY <1>1, <1>2, <2>1, <2>4, <3>1 DEF TypeOK
    <3> QED BY <1>7, <2>2, <3>2 DEF line
  <2> QED BY <2>3, <2>4
<1>10. ASSUME NEW e \in Calls, AskGlobal(e) \/ Run(e)
       PROVE  gate'[d] = h /\ ~Before(gates'[h].waiting, c, d)
              /\ (pc'[c] = "holds" => pc[c] = "holds")
  <2>1. gate' = gate /\ gates' = gates
    BY <1>10 DEF AskGlobal, Run
  <2>2. pc'[c] = "holds" => pc[c] = "holds"
    BY <1>1, <1>10 DEF AskGlobal, Run, TypeOK
  <2> QED BY <1>7, <2>1, <2>2 DEF h, line
<1>11. ASSUME NEW e \in Calls, Finish(e)
       PROVE  gate'[d] = h /\ ~Before(gates'[h].waiting, c, d)
              /\ (pc'[c] = "holds" => pc[c] = "holds")
  <2>1. PICK g \in Gates : g = gate[e]
    <3>1. pc[e] = "running"
      BY <1>11 DEF Finish
    <3> QED BY <3>1, <1>1 DEF Placed, TypeOK
  <2>2. /\ pc[e] = "running"
        /\ gates' = [gates EXCEPT ![g] = Released(gates[g])]
        /\ pc' = [x \in Calls |-> IF x = e THEN "idle" ELSE IF x \in Woken(global) THEN "granted"
                                  ELSE IF x \in Woken(gates[g]) THEN "holds" ELSE pc[x]]
        /\ gate' = [gate EXCEPT ![e] = NoGate]
    BY <1>11, <2>1 DEF Finish
  <2>3. gate'[d] = h
    BY <1>1, <2>2 DEF TypeOK, h
  <2>4. ~Before(gates'[h].waiting, c, d)
    <3>1. CASE g = h
      <4>1. gates'[h].waiting = Tail(line)
        BY <1>1, <1>2, <1>3, <1>5, <2>2, <3>1 DEF TypeOK, Released, Semaphore, line
      <4> QED BY <1>3, <1>5, <1>7, <4>1, LineMoves
    <3>2. CASE g # h
      BY <1>1, <1>2, <1>7, <2>2, <3>2 DEF TypeOK, line
    <3> QED BY <3>1, <3>2
  <2>5. ASSUME pc'[c] = "holds", pc[c] # "holds" PROVE FALSE
    <3>1. c \in Woken(gates[g])
      BY <2>2, <2>5
    <3>2. gate[c] = g /\ pc[c] = "queued"
      BY <2>1, <2>2, <3>1, GateGivenBack DEF Line
    <3>3. g = h
      BY <1>1, <1>2, <3>2 DEF Placed
    <3>4. c = Head(line)
      BY <1>5, <3>1, <3>3 DEF Woken, line
    <3> QED BY <1>3, <1>5, <1>7, <3>4, LineMoves
  <2> QED BY <2>3, <2>4, <2>5
<1> QED BY <1>9, <1>10, <1>11 DEF Next

\* The same of the slots of the process.
LEMMA WaitInOrder ==
  ASSUME SlotInv, Next, NEW c \in Calls, NEW d \in Calls, c # d, pc[d] = "waiting",
         pc'[d] = "waiting", ~Ahead(c, d)
  PROVE  ~Ahead(c, d)' /\ (pc'[c] = "granted" => pc[c] = "granted")
<1> DEFINE line == global.waiting
<1>1. TypeOK /\ global \in Semaphore /\ line \in Seq(Calls)
  BY DEF SlotInv, TypeOK, Semaphore
<1>2. Sound(global, GlobalLimit, InFlight, Waiting) /\ d \in Waiting
  BY DEF SlotInv, Waiting
<1>3. (\E j \in 1..Len(line) : line[j] = d) /\ line # <<>>
  <2>1. \E j \in 1..Len(line) : line[j] = d
    BY <1>2 DEF Sound, Stands
  <2> QED BY <2>1
<1>4. ~HasRoom(global, GlobalLimit)
  <2>1. global.inFlight = GlobalLimit
    BY <1>2, <1>3 DEF Sound
  <2> QED BY <2>1, SlotsAssumption DEF HasRoom, SlotsAssumption
<1>5. ~Before(line, c, d)
  <2> SUFFICES ASSUME Before(line, c, d) PROVE FALSE
    OBVIOUS
  <2>1. \E i \in 1..Len(line) : line[i] = c
    BY <1>1 DEF Before
  <2>2. pc[c] = "waiting"
    BY <2>1, <1>2 DEF Sound, Stands, Waiting
  <2> QED BY <2>2 DEF Ahead, Before
<1> HIDE DEF line
<1>6. SUFFICES ~Before(global'.waiting, c, d) /\ (pc'[c] = "granted" => pc[c] = "granted")
  BY DEF Ahead, Before
<1>7. ASSUME NEW e \in Calls, Start(e) \/ Run(e)
      PROVE  ~Before(global'.waiting, c, d) /\ (pc'[c] = "granted" => pc[c] = "granted")
  <2>1. global' = global
    BY <1>7 DEF Start, Run
  <2>2. pc'[c] = "granted" => pc[c] = "granted"
    BY <1>1, <1>7 DEF Start, Run, TypeOK
  <2> QED BY <1>5, <2>1, <2>2 DEF line
<1>8. ASSUME NEW e \in Calls, AskGlobal(e)
      PROVE  ~Before(global'.waiting, c, d) /\ (pc'[c] = "granted" => pc[c] = "granted")
  <2>1. e # d /\ global'.waiting = Append(line, e)
    BY <1>1, <1>4, <1>8 DEF AskGlobal, Acquired, Semaphore, line
  <2>2. pc'[c] = "granted" => pc[c] = "granted"
    BY <1>1, <1>4, <1>8 DEF AskGlobal, TypeOK
  <2> QED BY <1>1, <1>5, <2>1, <2>2, LineMoves
<1>9. ASSUME NEW e \in Calls, Finish(e)
      PROVE  ~Before(global'.waiting, c, d) /\ (pc'[c] = "granted" => pc[c] = "granted")
  <2>1. /\ global' = Released(global)
        /\ pc' = [x \in Calls |-> IF x = e THEN "idle" ELSE IF x \in Woken(global) THEN "granted"
                                  ELSE IF x \in Woken(gates[gate[e]]) THEN "holds" ELSE pc[x]]
    BY <1>9 DEF Finish
  <2>2. global'.waiting = Tail(line)
    BY <1>1, <1>3, <2>1 DEF Released, Semaphore, line
  <2>3. ASSUME pc'[c] = "granted", pc[c] # "granted" PROVE FALSE
    <3>1. c \in Woken(global)
      BY <2>1, <2>3
    <3>2. c = Head(line)
      BY <1>3, <3>1 DEF Woken, line
    <3> QED BY <1>1, <1>3, <1>5, <3>2, LineMoves
  <2> QED BY <1>1, <1>3, <1>5, <2>2, <2>3, LineMoves
<1> QED BY <1>7, <1>8, <1>9 DEF Next

\* Slots are given in the order of arrival: no call passes one that waits, in either line.
THEOREM InOrder == Spec => FirstComeFirstServed
<1>1. SlotInv /\ [Next]_vars => [\A c, d \in Calls : ~Overtakes(c, d)]_vars
  <2> SUFFICES ASSUME SlotInv, Next, NEW c \in Calls, NEW d \in Calls PROVE ~Overtakes(c, d)
    OBVIOUS
  <2>1. CASE pc[d] = "queued"
    BY <2>1, QueueInOrder DEF Overtakes
  <2>2. CASE pc[d] = "waiting"
    BY <2>2, WaitInOrder DEF Overtakes
  <2> QED BY <2>1, <2>2 DEF Overtakes
<1> QED BY <1>1, SlotInvAlways, PTL DEF Spec, FirstComeFirstServed
=============================================================================
