--------------------------- MODULE WaOutbox_proofs ---------------------------
(***************************************************************************)
(* A customer gets a message once (SentOnce), for every set of messages,   *)
(* passes and webhook deliveries, every cap of attempts and every number   *)
(* of crashes and of writes that fail, unless the outcome of the first     *)
(* copy could not be written. SentOnce alone is not inductive: who may     *)
(* still send a message, and what its row then says, is the rest of IInv.  *)
(* The cap of attempts (AttemptsCapped) has an argument of its own: a row  *)
(* nobody holds has an attempt left (Counted). On IInv rests               *)
(* what the screen shows of a message (OneBubble, ShownIsSent,             *)
(* WithdrawnStays): that a copy whose answer is not lost is the only one   *)
(* makes the id an echo brings that of the row.                            *)
(***************************************************************************)
EXTENDS WaOutbox, WellFoundedInduction, TLAPS

\* The copies of m the server took, whose outcome may still be written.
Live(m) == {x \in Accepted \ lost : x[1] = m}

\* A message is in the hands of one pass.
OneHolder ==
  \A p, q \in Passes : pass[p].m = pass[q].m /\ pass[p].m # NoMessage => p = q

\* While a pass holds a message, its row does not wait, and says it is on its way or went
\* out until an id comes.
HolderRow ==
  \A p \in Passes, m \in Messages : pass[p].m = m =>
    /\ ~row[m].waits
    /\ row[m].ext = NoId => row[m].st \in {"sending", "sent", "gone"}

\* A pass that has not sent, or whose send failed, holds a message no live copy exists of.
NotSentYet ==
  \A p \in Passes, m \in Messages :
    pass[p].m = m /\ pass[p].pc \in {"claimed", "failed"} => Live(m) = {}

\* A pass with an answer holds the only live copy.
OnlyThis ==
  \A p \in Passes, m \in Messages :
    pass[p].m = m /\ pass[p].pc \in {"answered", "clash"} => Live(m) \subseteq {pass[p].ext}

\* What a row says once its message went out: no pass will claim it again.
Settled(m) == row[m].ext # NoId \/ row[m].st \in {"sent", "delivered", "gone"}

\* A live copy is in the hands of the pass that sent it, or its row is settled.
Accounted ==
  \A m \in Messages : Live(m) # {} =>
    \/ Settled(m)
    \/ \E p \in Passes : pass[p].m = m /\ pass[p].pc \in {"answered", "clash"}

IInv ==
  /\ TypeOK /\ OneHolder /\ HolderRow /\ NotSentYet /\ OnlyThis /\ Accounted
  /\ SentOnce

-----------------------------------------------------------------------------
(* Constants.                                                              *)

\* The ids that stand for nothing are no id and no message.
LEMMA Nothing ==
  ASSUME OutboxAssumption
  PROVE NoId \notin Ids /\ NoMessage \notin Messages
  BY DEF OutboxAssumption, NoId, Ids, NoMessage

\* Copies of two messages are two, and NextId is an id while there is room.
LEMMA NextIdType ==
  ASSUME OutboxAssumption, TypeOK, NEW m \in Messages, sends[m] < MaxSends
  PROVE /\ NextId(m) \in Ids /\ NextId(m) # NoId /\ NextId(m)[1] = m
        /\ sends[m] + 1 \in 0..MaxSends
<1>1. sends[m] \in 0..MaxSends /\ MaxSends \in Nat
  BY DEF TypeOK, OutboxAssumption
<1>2. sends[m] + 1 \in 1..MaxSends
  BY <1>1
<1>3. NextId(m) \in Ids /\ NextId(m)[1] = m
  BY <1>2 DEF NextId, Ids
<1> QED
  BY <1>1, <1>2, <1>3, Nothing

\* Nothing more is accepted, and nothing more is lost: the live copies are the same.
LEMMA SameLive ==
  ASSUME UNCHANGED <<sends, lost>>
  PROVE Accepted' = Accepted /\ \A m \in Messages : Live(m)' = Live(m)
  BY DEF Accepted, Live

-----------------------------------------------------------------------------
(* The type invariant, by variable.                                        *)

RowOK ==
  /\ row \in [Messages -> Row]
  /\ \A m \in Messages : row[m].waits => row[m].st = "queued"

\* What one pass may hold.
PassFits(r) ==
  /\ r \in Pass
  /\ r.m = NoMessage <=> r.pc \in {"idle", "next"}
  /\ r.ext = NoId <=> r.pc \notin {"answered", "clash"}

PassOK == pass \in [Passes -> Pass] /\ \A p \in Passes : PassFits(pass[p])

HookFits(r) ==
  /\ r \in Hook
  /\ r.x = NoId <=> r.pc = "idle"
  /\ r.cand = NoMessage <=> r.pc # "adopt"

HookOK == hook \in [Hooks -> Hook] /\ \A h \in Hooks : HookFits(hook[h])

RestOK ==
  /\ body \in [Messages -> Texts] /\ sends \in [Messages -> 0..MaxSends]
  /\ twins \subseteq Ids /\ lost \subseteq Ids /\ unwritten \subseteq lost
  /\ died \in [Messages -> Nat]
  /\ rare \in 0..MaxRare

LEMMA TypeParts == TypeOK <=> RowOK /\ PassOK /\ HookOK /\ RestOK
<1>1. TypeOK => RowOK /\ RestOK
  BY DEF TypeOK, RowOK, RestOK
<1>2. TypeOK => PassOK
  BY DEF TypeOK, PassOK, PassFits
<1>3. TypeOK => HookOK
  BY DEF TypeOK, HookOK, HookFits
<1>4. RowOK /\ PassOK /\ HookOK /\ RestOK => TypeOK
  BY DEF TypeOK, RowOK, PassOK, PassFits, HookOK, HookFits, RestOK
<1> QED
  BY <1>1, <1>2, <1>3, <1>4

\* The same, of the next state.
LEMMA TypePrime ==
  ASSUME RowOK', PassOK', HookOK', RestOK'
  PROVE TypeOK'
  BY DEF TypeOK, RowOK, PassOK, PassFits, HookOK, HookFits, RestOK

LEMMA PassMoves ==
  ASSUME PassOK, NEW p \in Passes, NEW r, PassFits(r), pass' = [pass EXCEPT ![p] = r]
  PROVE PassOK'
  BY DEF PassOK, PassFits

LEMMA RowMoves ==
  ASSUME RowOK, NEW m \in Messages, NEW r \in Row, r.waits => r.st = "queued",
         row' = [row EXCEPT ![m] = r]
  PROVE RowOK'
  BY DEF RowOK

LEMMA HookMoves ==
  ASSUME HookOK, NEW h \in Hooks, NEW r, HookFits(r), hook' = [hook EXCEPT ![h] = r]
  PROVE HookOK'
  BY DEF HookOK, HookFits

\* A pass at rest, and one that is done with its message.
LEMMA RestingFits ==
  ASSUME OutboxAssumption
  PROVE PassFits(Resting) /\ HookFits(Listening)
  BY Nothing DEF PassFits, HookFits, Resting, Listening, Pass, Hook

LEMMA DoneFits ==
  ASSUME OutboxAssumption, PassOK, NEW p \in Passes
  PROVE PassFits(Done(p)) /\ Done(p).m = NoMessage /\ Done(p).pc \in {"idle", "next"}
<1>1. pass[p] \in Pass
  BY DEF PassOK
<1>2. CASE pass[p].half = "bulk"
  BY <1>2, RestingFits DEF Done, Resting
<1>3. CASE pass[p].half # "bulk"
  BY <1>1, <1>3, Nothing DEF Done, PassFits, Resting, Pass
<1> QED
  BY <1>2, <1>3

-----------------------------------------------------------------------------
(* Steps that only change what a pass intends to do.                       *)

\* Nothing but the passes changes, and each still holds what it held.
LEMMA Intends ==
  ASSUME OutboxAssumption, IInv, NEW p \in Passes, NEW r, PassFits(r),
         pass' = [pass EXCEPT ![p] = r],
         r.m = pass[p].m, r.pc \in {"idle", "next"}, pass[p].pc \in {"idle", "next"},
         UNCHANGED <<row, body, hook, sends, twins, lost, unwritten, died, rare>>
  PROVE IInv'
<1>1. TypeOK'
  <2>1. PassOK'
    BY PassMoves, TypeParts DEF IInv
  <2>2. RowOK' /\ HookOK' /\ RestOK'
    BY TypeParts DEF IInv, RowOK, HookOK, RestOK
  <2> QED
    BY <2>1, <2>2, TypePrime
<1>2. OneHolder' /\ HolderRow'
  BY DEF IInv, TypeOK, OneHolder, HolderRow
<1>3. NotSentYet' /\ OnlyThis' /\ Accounted' /\ SentOnce'
  BY SameLive DEF IInv, TypeOK, NotSentYet, OnlyThis, Accounted, SentOnce, Settled
<1> QED
  BY <1>1, <1>2, <1>3 DEF IInv

LEMMA TickStep ==
  ASSUME OutboxAssumption, IInv, NEW p \in Passes, Tick(p)
  PROVE IInv'
<1> DEFINE r == [pass[p] EXCEPT !.pc = "next", !.todo = Listed(Messages \ Bulk)]
<1>1. pass[p] \in Pass /\ PassFits(pass[p])
  BY TypeParts DEF IInv, PassOK
<1>2. PassFits(r) /\ r.m = pass[p].m /\ r.pc = "next"
  BY <1>1 DEF Tick, PassFits, Pass, Listed
<1>3. pass' = [pass EXCEPT ![p] = r]
  BY DEF Tick
<1> QED
  BY <1>2, <1>3, Intends DEF Tick

LEMMA ListBulkStep ==
  ASSUME OutboxAssumption, IInv, NEW p \in Passes, ListBulk(p)
  PROVE IInv'
<1> DEFINE one == Oldest({m \in Bulk : Sendable(m)}) \cap Listed(Bulk)
           r == IF one = {} THEN Resting ELSE [pass[p] EXCEPT !.half = "bulk", !.todo = one]
<1>1. pass[p] \in Pass /\ PassFits(pass[p])
  BY TypeParts DEF IInv, PassOK
<1>2. one \subseteq Messages
  BY DEF OutboxAssumption, Listed
<1>3. PassFits(r) /\ r.m = pass[p].m /\ r.pc \in {"idle", "next"}
  <2>1. CASE one = {}
    BY <1>1, <2>1, RestingFits DEF ListBulk, PassFits, Resting
  <2>2. CASE one # {}
    <3> HIDE DEF one
    <3>1. r = [pass[p] EXCEPT !.half = "bulk", !.todo = one]
      BY <2>2
    <3> QED
      BY <1>1, <1>2, <3>1 DEF ListBulk, PassFits, Pass
  <2> QED
    BY <2>1, <2>2
<1>4. pass' = [pass EXCEPT ![p] = r]
  BY DEF ListBulk
<1> QED
  BY <1>3, <1>4, Intends DEF ListBulk

LEMMA EndPassStep ==
  ASSUME OutboxAssumption, IInv, NEW p \in Passes, EndPass(p)
  PROVE IInv'
<1>1. PassFits(pass[p])
  BY TypeParts DEF IInv, PassOK
<1>2. Resting.m = pass[p].m /\ Resting.pc = "idle"
  BY <1>1 DEF EndPass, PassFits, Resting
<1> QED
  BY <1>2, RestingFits, Intends DEF EndPass

LEMMA ClaimedElsewhereStep ==
  ASSUME OutboxAssumption, IInv, NEW p \in Passes, NEW m \in Messages, ClaimedElsewhere(p, m)
  PROVE IInv'
<1> DEFINE r == [pass[p] EXCEPT !.todo = @ \ {m}]
<1>1. pass[p] \in Pass /\ PassFits(pass[p])
  BY TypeParts DEF IInv, PassOK
<1>2. PassFits(r) /\ r.m = pass[p].m /\ r.pc = "next"
  BY <1>1 DEF ClaimedElsewhere, PassFits, Pass
<1>3. pass' = [pass EXCEPT ![p] = r]
  BY DEF ClaimedElsewhere
<1> QED
  BY <1>2, <1>3, Intends DEF ClaimedElsewhere

-----------------------------------------------------------------------------
(* The claim.                                                              *)

\* What can be claimed is in nobody's hands, and no live copy of it exists.
LEMMA Claimable ==
  ASSUME OutboxAssumption, IInv, NEW m \in Messages, Sendable(m)
  PROVE Live(m) = {} /\ \A p \in Passes : pass[p].m # m
<1>1. ~Settled(m)
  BY DEF Sendable, Stale, Settled
<1>2. \A p \in Passes : pass[p].m # m
  BY DEF IInv, HolderRow, Sendable, Stale
<1> QED
  BY <1>1, <1>2 DEF IInv, Accounted

\* The row a claim leaves.
LEMMA TakenRow ==
  ASSUME OutboxAssumption, IInv, NEW m \in Messages, Sendable(m),
         row' = [row EXCEPT ![m].st = "sending", ![m].attempts = @ + 1]
  PROVE \E w \in Row : ~w.waits /\ w.st = "sending" /\ row' = [row EXCEPT ![m] = w]
<1> DEFINE w == [row[m] EXCEPT !.st = "sending", !.attempts = @ + 1]
<1>1. row[m] \in Row /\ (row[m].waits => row[m].st = "queued")
  BY DEF IInv, TypeOK
<1>2. ~row[m].waits
  BY <1>1 DEF Sendable, Stale
<1>3. row[m].attempts + 1 \in Nat
  BY <1>1 DEF Row
<1>4. w \in Row /\ w.waits = row[m].waits /\ w.st = "sending"
  BY <1>1, <1>3 DEF Row
<1>5. row' = [row EXCEPT ![m] = w]
  OBVIOUS
<1> HIDE DEF w
<1> QED
  BY <1>2, <1>4, <1>5

\* The row is taken: by a pass that goes on with it, or by one that ends there.
LEMMA TakenStep ==
  ASSUME OutboxAssumption, IInv, NEW p \in Passes, NEW m \in Messages, Sendable(m),
         pass[p].pc = "next", NEW r, PassFits(r),
         (r.m = m /\ r.pc = "claimed") \/ (r.m = NoMessage /\ r.pc = "idle"),
         pass' = [pass EXCEPT ![p] = r],
         NEW w \in Row, ~w.waits, w.st = "sending", row' = [row EXCEPT ![m] = w],
         rare' \in 0..MaxRare, died' \in [Messages -> Nat],
         UNCHANGED <<body, hook, sends, twins, lost, unwritten>>
  PROVE IInv'
<1>5. /\ Live(m) = {} /\ \A q \in Passes : pass[q].m # m
      /\ m # NoMessage
  BY Claimable, Nothing
<1>6. TypeOK'
  <2>1. PassOK' /\ RowOK'
    BY PassMoves, RowMoves, TypeParts DEF IInv
  <2>2. HookOK' /\ RestOK'
    BY TypeParts DEF IInv, HookOK, RestOK
  <2> QED
    BY <2>1, <2>2, TypePrime
<1>7. OneHolder' /\ HolderRow'
  <2>1. PassOK' /\ pass'[p] = r /\ \A q \in Passes \ {p} : pass'[q] = pass[q]
    BY <1>6, TypeParts DEF TypeOK, IInv, PassOK
  <2>2. row'[m] = w /\ \A n \in Messages \ {m} : row'[n] = row[n]
    BY DEF TypeOK, IInv
  <2>3. OneHolder'
    BY <1>5, <2>1 DEF IInv, OneHolder
  <2>4. HolderRow'
    BY <1>5, <2>1, <2>2, Nothing DEF IInv, HolderRow
  <2> QED
    BY <2>3, <2>4
<1>8. \A n \in Messages : Live(n)' = Live(n)
  BY SameLive
<1>9. pass' \in [Passes -> Pass] /\ pass'[p] = r /\ \A q \in Passes \ {p} : pass'[q] = pass[q]
  BY <1>6 DEF TypeOK, IInv
<1>10. row'[m] = w /\ \A n \in Messages \ {m} : row'[n] = row[n]
  BY DEF TypeOK, IInv
<1>11. NotSentYet' /\ OnlyThis'
  <2> SUFFICES ASSUME NEW q \in Passes, NEW n \in Messages, pass'[q].m = n
               PROVE /\ pass'[q].pc \in {"claimed", "failed"} => Live(n)' = {}
                     /\ pass'[q].pc \in {"answered", "clash"} => Live(n)' \subseteq {pass'[q].ext}
    BY DEF NotSentYet, OnlyThis
  <2>1. CASE q = p
    BY <2>1, <1>5, <1>8, <1>9, Nothing
  <2>2. CASE q # p
    BY <2>2, <1>8, <1>9 DEF IInv, NotSentYet, OnlyThis
  <2> QED
    BY <2>1, <2>2
<1>12. Accounted'
  <2> SUFFICES ASSUME NEW n \in Messages, Live(n) # {}
               PROVE Settled(n)' \/ \E q \in Passes : pass'[q].m = n /\ pass'[q].pc \in {"answered", "clash"}
    BY <1>8 DEF Accounted
  <2>1. n # m
    BY <1>5
  <2>2. Settled(n)' <=> Settled(n)
    BY <1>10, <2>1 DEF Settled
  <2> QED
    BY <1>9, <2>2 DEF IInv, Accounted
<1>13. SentOnce'
  BY SameLive DEF IInv, SentOnce
<1> QED
  BY <1>6, <1>7, <1>11, <1>12, <1>13 DEF IInv

LEMMA ClaimStep ==
  ASSUME OutboxAssumption, IInv, NEW p \in Passes, NEW m \in Messages, Claim(p, m)
  PROVE IInv'
<1> DEFINE r == [pass[p] EXCEPT !.pc = "claimed", !.m = m, !.todo = @ \ {m},
                                !.attempts = row[m].attempts + 1]
<1>1. pass[p] \in Pass /\ PassFits(pass[p]) /\ row[m] \in Row
  BY TypeParts DEF IInv, PassOK, RowOK
<1>2. PassFits(r) /\ r.m = m /\ r.pc = "claimed"
  <2>1. pass[p].ext = NoId /\ m # NoMessage
    BY <1>1, Nothing DEF Claim, PassFits
  <2>2. row[m].attempts + 1 \in Nat
    BY <1>1 DEF Row
  <2>3. r \in Pass
    BY <1>1, <2>2 DEF Pass
  <2>4. r.m = m /\ r.pc = "claimed" /\ r.ext = NoId
    BY <1>1, <2>1 DEF Pass
  <2> QED
    BY <2>1, <2>3, <2>4 DEF PassFits
<1>3. pass' = [pass EXCEPT ![p] = r]
  BY DEF Claim
<1>4. rare' \in 0..MaxRare /\ died' \in [Messages -> Nat]
  BY DEF Claim, IInv, TypeOK
<1> HIDE DEF r
<1>5. PICK w \in Row : ~w.waits /\ w.st = "sending" /\ row' = [row EXCEPT ![m] = w]
  BY TakenRow DEF Claim
<1>6. /\ Sendable(m) /\ pass[p].pc = "next"
      /\ UNCHANGED <<body, hook, sends, twins, lost, unwritten>>
  BY DEF Claim
<1> QED
  BY ONLY OutboxAssumption, IInv, <1>2, <1>3, <1>4, <1>5, <1>6, TakenStep

\* What a rare event leaves of the ghosts that count.
LEMMA RareCounts ==
  ASSUME OutboxAssumption, IInv, Rarely
  PROVE  rare' \in 0..MaxRare
<1>1. rare \in 0..MaxRare /\ MaxRare \in Nat
  BY DEF IInv, TypeOK, OutboxAssumption
<1> QED
  BY <1>1 DEF Rarely

LEMMA DiesCounts ==
  ASSUME IInv, NEW m \in Messages, Dies(m)
  PROVE  /\ died' \in [Messages -> Nat]
         /\ died'[m] = died[m] + 1 /\ \A n \in Messages \ {m} : died'[n] = died[n]
<1>1. died \in [Messages -> Nat] /\ died[m] + 1 \in Nat
  BY DEF IInv, TypeOK
<1> QED
  BY <1>1 DEF Dies

LEMMA ClaimBreaksStep ==
  ASSUME OutboxAssumption, IInv, NEW p \in Passes, NEW m \in Messages, ClaimBreaks(p, m)
  PROVE IInv'
<1>1. rare' \in 0..MaxRare /\ died' \in [Messages -> Nat]
  BY RareCounts, DiesCounts DEF ClaimBreaks
<1>2. Resting.m = NoMessage /\ Resting.pc = "idle"
  BY DEF Resting
<1>3. PICK w \in Row : ~w.waits /\ w.st = "sending" /\ row' = [row EXCEPT ![m] = w]
  BY TakenRow DEF ClaimBreaks
<1>4. /\ Sendable(m) /\ pass[p].pc = "next" /\ pass' = [pass EXCEPT ![p] = Resting]
      /\ UNCHANGED <<body, hook, sends, twins, lost, unwritten>>
  BY DEF ClaimBreaks
<1> QED
  BY <1>1, <1>2, <1>3, <1>4, RestingFits, TakenStep

-----------------------------------------------------------------------------
(* Steps of webhook deliveries, receipts, the operator, a payment and time. *)

\* Of SentOnce, by message: fewer live copies keep it.
LEMMA FewerLive ==
  ASSUME SentOnce, \A m \in Messages : Live(m)' \subseteq Live(m), Accepted' \subseteq Ids
  PROVE SentOnce'
<1> SUFFICES ASSUME NEW x \in (Accepted \ lost)', NEW y \in (Accepted \ lost)', x[1] = y[1]
             PROVE x = y
  BY DEF SentOnce
<1>1. x[1] \in Messages
  BY DEF Ids
<1>2. x \in Live(x[1])' /\ y \in Live(x[1])'
  BY DEF Live
<1> QED
  BY <1>1, <1>2 DEF SentOnce, Live

\* Passes and rows do not change: webhook deliveries and the rows they insert do.
LEMMA HookStep ==
  ASSUME IInv, HookOK', twins' \subseteq Ids, UNCHANGED <<row, body, pass, sends, lost, unwritten, died, rare>>
  PROVE IInv'
<1>1. TypeOK'
  <2>1. RowOK' /\ PassOK' /\ RestOK'
    BY TypeParts DEF IInv, RowOK, PassOK, RestOK
  <2> QED
    BY <2>1, TypePrime
<1>2. Accepted' = Accepted /\ \A m \in Messages : Live(m)' = Live(m)
  BY SameLive
<1>3. OneHolder' /\ HolderRow' /\ NotSentYet' /\ OnlyThis' /\ Accounted' /\ SentOnce'
  BY <1>2 DEF IInv, OneHolder, HolderRow, NotSentYet, OnlyThis, Accounted, SentOnce, Settled
<1> QED
  BY <1>1, <1>3 DEF IInv

\* One row changes: to one that fits the pass that holds it, and stays settled if it was.
LEMMA RowStep ==
  ASSUME IInv, NEW m \in Messages, NEW w \in Row, w.waits => w.st = "queued",
         row' = [row EXCEPT ![m] = w],
         \A p \in Passes : pass[p].m = m =>
           ~w.waits /\ (w.ext = NoId => w.st \in {"sending", "sent", "gone"}),
         Settled(m) => w.ext # NoId \/ w.st \in {"sent", "delivered", "gone"},
         HookOK', rare' \in 0..MaxRare, died' \in [Messages -> Nat],
         UNCHANGED <<body, pass, sends, twins, lost, unwritten>>
  PROVE IInv'
<1>1. RowOK'
  BY RowMoves, TypeParts DEF IInv
<1>2. TypeOK'
  <2>1. PassOK' /\ RestOK'
    BY TypeParts DEF IInv, PassOK, RestOK
  <2> QED
    BY <1>1, <2>1, TypePrime
<1>3. row'[m] = w /\ \A n \in Messages \ {m} : row'[n] = row[n]
  BY TypeParts DEF IInv, RowOK
<1>4. Accepted' = Accepted /\ \A n \in Messages : Live(n)' = Live(n)
  BY SameLive
<1>5. OneHolder' /\ HolderRow'
  BY <1>3 DEF IInv, OneHolder, HolderRow
<1>6. NotSentYet' /\ OnlyThis' /\ SentOnce'
  BY <1>4 DEF IInv, NotSentYet, OnlyThis, SentOnce
<1>7. Accounted'
  BY <1>3, <1>4 DEF IInv, Accounted, Settled
<1> QED
  BY <1>2, <1>5, <1>6, <1>7 DEF IInv

LEMMA EchoStep ==
  ASSUME OutboxAssumption, IInv, NEW h \in Hooks, Echo(h)
  PROVE IInv'
<1>1. hook[h] \in Hook /\ HookFits(hook[h])
  BY TypeParts DEF IInv, HookOK
<1>2. PICK m \in Messages :
        \E k \in 1..sends[m] : hook' = [hook EXCEPT ![h].pc = "pick", ![h].x = <<m, k>>]
  BY DEF Echo
<1>2a. PICK k \in 1..sends[m] : hook' = [hook EXCEPT ![h].pc = "pick", ![h].x = <<m, k>>]
  BY <1>2
<1> DEFINE r == [hook[h] EXCEPT !.pc = "pick", !.x = <<m, k>>]
<1>3. <<m, k>> \in Ids
  <2>1. sends[m] \in 0..MaxSends /\ MaxSends \in Nat
    BY DEF IInv, TypeOK, OutboxAssumption
  <2>2. k \in 1..MaxSends
    BY <2>1
  <2> QED
    BY <2>2 DEF Ids
<1>4. <<m, k>> # NoId /\ hook[h].cand = NoMessage
  BY <1>1, <1>3, Nothing DEF HookFits, Echo
<1>5. r.pc = "pick" /\ r.x = <<m, k>> /\ r.cand = NoMessage
  BY <1>1, <1>4 DEF Hook
<1>6. HookFits(r)
  <2>1. r \in Hook
    BY <1>1, <1>3 DEF Hook
  <2> QED
    BY <1>4, <1>5, <2>1 DEF HookFits
<1>7. hook' = [hook EXCEPT ![h] = r]
  BY <1>2a
<1>8. HookOK'
  BY <1>6, <1>7, HookMoves, TypeParts DEF IInv
<1> QED
  BY <1>8, HookStep DEF Echo, IInv, TypeOK

LEMMA PickStep ==
  ASSUME OutboxAssumption, IInv, NEW h \in Hooks, Pick(h)
  PROVE IInv'
<1> DEFINE found == Oldest({m \in Messages : Echoable(m, hook[h].x)})
           none == [hook[h] EXCEPT !.pc = "insert"]
           some(m) == [hook[h] EXCEPT !.pc = "adopt", !.cand = m]
<1>1. hook[h] \in Hook /\ HookFits(hook[h])
  BY TypeParts DEF IInv, HookOK
<1>2. HookFits(none)
  BY <1>1 DEF Pick, HookFits, Hook
<1>3. \A m \in Messages : HookFits(some(m))
  <2> TAKE m \in Messages
  <2>1. some(m) \in Hook /\ some(m).pc = "adopt" /\ some(m).x = hook[h].x /\ some(m).cand = m
    BY <1>1 DEF Hook
  <2>2. hook[h].x \in Ids \cup {NoId} /\ hook[h].x # NoId
    BY <1>1 DEF Hook, HookFits, Pick
  <2> QED
    BY <2>1, <2>2, Nothing DEF HookFits
<1>4. hook' = [hook EXCEPT ![h] = none] \/ \E m \in found : hook' = [hook EXCEPT ![h] = some(m)]
  BY DEF Pick
<1>5. found \subseteq Messages
  BY DEF Oldest
<1> HIDE DEF none, some, found
<1>6. HookOK'
  BY <1>2, <1>3, <1>4, <1>5, HookMoves, TypeParts DEF IInv
<1> QED
  BY <1>6, HookStep DEF Pick, IInv, TypeOK

LEMMA InsertStep ==
  ASSUME OutboxAssumption, IInv, NEW h \in Hooks, Insert(h)
  PROVE IInv'
<1>1. HookOK'
  BY RestingFits, HookMoves, TypeParts DEF IInv, Insert
<1>2. hook[h].x \in Ids
  BY TypeParts DEF IInv, HookOK, HookFits, Hook, Insert
<1>3. twins' \subseteq Ids
  BY <1>2 DEF IInv, TypeOK, Insert, Inserted
<1> QED
  BY <1>1, <1>3, HookStep DEF Insert

\* The echo gives a row its id, or finds it has one.
LEMMA AdoptStep ==
  ASSUME OutboxAssumption, IInv, NEW h \in Hooks, Adopt(h)
  PROVE IInv'
<1> DEFINE m == hook[h].cand
           x == hook[h].x
           w == [row[m] EXCEPT !.ext = x]
           r == [hook[h] EXCEPT !.pc = "insert", !.cand = NoMessage]
<1>1. hook[h] \in Hook /\ HookFits(hook[h])
  BY TypeParts DEF IInv, HookOK
<1>2. m \in Messages /\ x \in Ids /\ x # NoId
  BY <1>1, Nothing DEF Adopt, HookFits, Hook
<1>3. HookFits(r)
  BY <1>1 DEF Adopt, HookFits, Hook
<1>4. HookOK'
  <2>1. hook' = [hook EXCEPT ![h] = r] \/ hook' = [hook EXCEPT ![h] = Listening]
    BY DEF Adopt
  <2> HIDE DEF r
  <2> QED
    BY <1>3, <2>1, RestingFits, HookMoves, TypeParts DEF IInv
<1>5. CASE row' = row
  BY <1>4, <1>5, HookStep DEF Adopt, IInv, TypeOK
<1>6. CASE row' = [row EXCEPT ![m].ext = x]
  <2>1. row[m] \in Row /\ (row[m].waits => row[m].st = "queued")
    BY <1>2 DEF IInv, TypeOK
  <2>2. w \in Row
    BY <1>2, <2>1 DEF Row
  <2>3. (w.waits => w.st = "queued") /\ w.ext # NoId /\ w.waits = row[m].waits
    BY <1>2, <2>1 DEF Row
  <2>4. row' = [row EXCEPT ![m] = w]
    BY <1>6
  <2>5. \A p \in Passes : pass[p].m = m => ~w.waits
    BY <1>2, <2>3 DEF IInv, HolderRow
  <2>6. UNCHANGED <<body, pass, sends, twins, lost, unwritten>> /\ rare' \in 0..MaxRare
        /\ died' \in [Messages -> Nat]
    BY DEF Adopt, IInv, TypeOK
  <2> HIDE DEF w, m, x
  <2> QED
    BY <1>2, <1>4, <2>2, <2>3, <2>4, <2>5, <2>6, RowStep
<1> QED
  BY <1>5, <1>6 DEF Adopt

\* A row whose id or text the other side knows: receipts, and what the panel does to it.
LEMMA ReceiptStep ==
  ASSUME IInv, NEW m \in Messages, Receipt(m) \/ RefusedLater(m)
  PROVE IInv'
<1>1. PICK s \in {"delivered", "failed"} : row' = [row EXCEPT ![m].st = s]
  BY DEF Receipt, RefusedLater
<1> DEFINE w == [row[m] EXCEPT !.st = s]
<1>2. row[m] \in Row /\ (row[m].waits => row[m].st = "queued")
  BY DEF IInv, TypeOK
<1>3. row[m].ext # NoId /\ ~row[m].waits
  BY <1>2 DEF Receipt, RefusedLater
<1>4. w \in Row
  BY <1>2 DEF Row
<1>5. w.ext # NoId /\ ~w.waits
  BY <1>2, <1>3 DEF Row
<1>6. row' = [row EXCEPT ![m] = w]
  BY <1>1
<1>7. /\ HookOK' /\ rare' \in 0..MaxRare /\ died' \in [Messages -> Nat]
      /\ UNCHANGED <<body, pass, sends, twins, lost, unwritten>>
  BY TypeParts DEF Receipt, RefusedLater, IInv, TypeOK, HookOK
<1> HIDE DEF w
<1> QED
  BY <1>4, <1>5, <1>6, <1>7, RowStep

LEMMA RequeueStep ==
  ASSUME OutboxAssumption, IInv, NEW m \in Messages, Requeue(m)
  PROVE IInv'
<1> DEFINE w == [row[m] EXCEPT !.st = "queued", !.attempts = 0, !.waits = FALSE]
<1>1. row[m] \in Row
  BY DEF IInv, TypeOK
<1>2. w \in Row
  BY <1>1 DEF Row
<1>3. ~w.waits /\ w.st = "queued" /\ w.ext = row[m].ext
  BY <1>1 DEF Row
<1>4. row' = [row EXCEPT ![m] = w]
  BY DEF Requeue
<1>5. \A p \in Passes : pass[p].m = m => row[m].ext # NoId
  BY DEF IInv, HolderRow, Requeue, Requeueable
<1>6. Settled(m) => row[m].ext # NoId
  BY DEF Settled, Requeue, Requeueable
<1>7. rare' \in 0..MaxRare
  <2>1. rare \in 0..MaxRare /\ MaxRare \in Nat
    BY DEF IInv, TypeOK, OutboxAssumption
  <2> QED
    BY <2>1 DEF Requeue, Rarely
<1>8. /\ HookOK' /\ died' \in [Messages -> Nat]
      /\ UNCHANGED <<body, pass, sends, twins, lost, unwritten>>
  BY TypeParts DEF Requeue, IInv, TypeOK, HookOK
<1> HIDE DEF w
<1> QED
  BY <1>2, <1>3, <1>4, <1>5, <1>6, <1>7, <1>8, RowStep

LEMMA WithdrawStep ==
  ASSUME IInv, NEW m \in Messages, Withdraw(m)
  PROVE IInv'
<1> DEFINE w == [row[m] EXCEPT !.st = "gone", !.ext = NoId, !.waits = FALSE]
<1>1. row[m] \in Row
  BY DEF IInv, TypeOK
<1>2. w \in Row
  BY <1>1 DEF Row
<1>3. ~w.waits /\ w.st = "gone"
  BY <1>1 DEF Row
<1>4. row' = [row EXCEPT ![m] = w]
  BY DEF Withdraw
<1>5. /\ HookOK' /\ rare' \in 0..MaxRare /\ died' \in [Messages -> Nat]
      /\ UNCHANGED <<body, pass, sends, twins, lost, unwritten>>
  BY TypeParts DEF Withdraw, IInv, TypeOK, HookOK
<1> HIDE DEF w
<1> QED
  BY <1>2, <1>3, <1>4, <1>5, RowStep

LEMMA BackoffEndsStep ==
  ASSUME IInv, NEW m \in Messages, BackoffEnds(m)
  PROVE IInv'
<1> DEFINE w == [row[m] EXCEPT !.waits = FALSE]
<1>1. row[m] \in Row /\ row[m].waits /\ row[m].st = "queued"
  BY DEF IInv, TypeOK, BackoffEnds
<1>2. w \in Row
  BY <1>1 DEF Row
<1>3. ~w.waits /\ w.st = "queued" /\ w.ext = row[m].ext
  BY <1>1 DEF Row
<1>4. row' = [row EXCEPT ![m] = w]
  BY DEF BackoffEnds
<1>5. \A p \in Passes : pass[p].m # m
  BY <1>1 DEF IInv, HolderRow
<1>6. Settled(m) => row[m].ext # NoId
  BY <1>1 DEF Settled
<1>7. /\ HookOK' /\ rare' \in 0..MaxRare /\ died' \in [Messages -> Nat]
      /\ UNCHANGED <<body, pass, sends, twins, lost, unwritten>>
  BY TypeParts DEF BackoffEnds, IInv, TypeOK, HookOK
<1> HIDE DEF w
<1> QED
  BY <1>2, <1>3, <1>4, <1>5, <1>6, <1>7, RowStep

-----------------------------------------------------------------------------
(* The dispatch.                                                           *)

\* One more copy is accepted: it is the only one that may be new among the live.
LEMMA OneMore ==
  ASSUME OutboxAssumption, IInv, NEW m \in Messages, Accepts(m)
  PROVE /\ Accepted' \subseteq Accepted \cup {NextId(m)}
        /\ sends' \in [Messages -> 0..MaxSends]
        /\ NextId(m) \in Ids /\ NextId(m) # NoId /\ NextId(m)[1] = m
<1>1. sends \in [Messages -> 0..MaxSends] /\ MaxSends \in Nat /\ sends[m] \in 0..MaxSends
  BY DEF IInv, TypeOK, OutboxAssumption
<1>2. sends[m] < MaxSends /\ sends' = [sends EXCEPT ![m] = @ + 1]
  BY DEF Accepts
<1>3. NextId(m) \in Ids /\ NextId(m) # NoId /\ NextId(m)[1] = m /\ sends[m] + 1 \in 0..MaxSends
  BY <1>2, NextIdType DEF IInv
<1>4. sends' \in [Messages -> 0..MaxSends]
  BY <1>1, <1>2, <1>3
<1>5. ASSUME NEW x \in Accepted', x \notin Accepted PROVE x = NextId(m)
  <2>1. x \in Ids /\ x[2] <= sends'[x[1]] /\ ~(x[2] <= sends[x[1]])
    BY <1>5 DEF Accepted
  <2>2. x = <<x[1], x[2]>> /\ x[1] \in Messages /\ x[2] \in 1..MaxSends
    BY <2>1 DEF Ids
  <2>3. x[1] = m
    BY <1>1, <1>2, <2>1, <2>2
  <2>4. x[2] = sends[m] + 1
    BY <1>1, <1>2, <2>1, <2>2, <2>3
  <2> QED
    BY <2>2, <2>3, <2>4 DEF NextId
<1> QED
  BY <1>3, <1>4, <1>5

\* A pass that keeps its message: what it holds becomes r, rows and deliveries stay.
LEMMA Keeps ==
  ASSUME IInv, NEW p \in Passes, NEW r, PassFits(r), r.m = pass[p].m,
         pass' = [pass EXCEPT ![p] = r], UNCHANGED <<row, hook>>
  PROVE /\ RowOK' /\ PassOK' /\ HookOK' /\ OneHolder' /\ HolderRow'
        /\ pass'[p] = r /\ \A q \in Passes \ {p} : pass'[q] = pass[q]
<1>1. pass'[p] = r /\ \A q \in Passes \ {p} : pass'[q] = pass[q]
  BY DEF IInv, TypeOK
<1>2. RowOK' /\ PassOK' /\ HookOK'
  BY PassMoves, TypeParts DEF IInv, RowOK, HookOK
<1>3. \A q \in Passes : pass'[q].m = pass[q].m
  BY <1>1
<1>4. OneHolder' /\ HolderRow'
  BY <1>3 DEF IInv, OneHolder, HolderRow
<1> QED
  BY <1>1, <1>2, <1>4

LEMMA AnsweredStep ==
  ASSUME OutboxAssumption, IInv, NEW p \in Passes, NEW m \in Messages, pass[p].m = m,
         Answered(p)
  PROVE IInv'
<1> DEFINE r == [pass[p] EXCEPT !.pc = "answered", !.ext = NextId(m)]
<1>1. pass[p] \in Pass /\ PassFits(pass[p]) /\ pass[p].pc = "claimed"
  BY TypeParts DEF IInv, PassOK, Answered
<1>3. /\ Accepted' \subseteq Accepted \cup {NextId(m)}
      /\ sends' \in [Messages -> 0..MaxSends]
      /\ NextId(m) \in Ids /\ NextId(m) # NoId /\ NextId(m)[1] = m
  BY OneMore DEF Answered
<1>4. r \in Pass /\ r.m = m /\ r.pc = "answered" /\ r.ext = NextId(m)
  BY <1>1, <1>3 DEF Pass
<1>5. PassFits(r)
  BY <1>1, <1>3, <1>4 DEF PassFits
<1>6. pass' = [pass EXCEPT ![p] = r]
  BY DEF Answered
<1>7. Live(m) = {} /\ lost' = lost
  BY <1>1 DEF IInv, NotSentYet, Answered
<1>8. Live(m)' \subseteq {NextId(m)} /\ \A n \in Messages \ {m} : Live(n)' \subseteq Live(n)
  <2>1. (Accepted \ lost)' \subseteq (Accepted \ lost) \cup {NextId(m)}
    BY <1>3, <1>7
  <2> QED
    BY <1>3, <1>7, <2>1 DEF Live
<1>9. UNCHANGED <<row, hook, body, twins, lost, unwritten, died, rare>>
  BY DEF Answered
<1> HIDE DEF r
<1>10. /\ RowOK' /\ PassOK' /\ HookOK' /\ OneHolder' /\ HolderRow'
       /\ pass'[p] = r /\ \A q \in Passes \ {p} : pass'[q] = pass[q]
  BY <1>4, <1>5, <1>6, <1>9, Keeps
<1>11. TypeOK'
  BY <1>3, <1>9, <1>10, TypePrime DEF IInv, TypeOK, RestOK
<1>12. \A q \in Passes \ {p} : pass[q].m # m
  BY Nothing DEF IInv, OneHolder
<1>13. NotSentYet' /\ OnlyThis'
  <2> SUFFICES ASSUME NEW q \in Passes, NEW n \in Messages, pass'[q].m = n
               PROVE /\ pass'[q].pc \in {"claimed", "failed"} => Live(n)' = {}
                     /\ pass'[q].pc \in {"answered", "clash"} => Live(n)' \subseteq {pass'[q].ext}
    BY DEF NotSentYet, OnlyThis
  <2>1. CASE q = p
    BY <1>4, <1>8, <1>10, <2>1
  <2>2. CASE q # p
    BY <1>8, <1>10, <1>12, <2>2 DEF IInv, NotSentYet, OnlyThis
  <2> QED
    BY <2>1, <2>2
<1>14. Accounted'
  <2> SUFFICES ASSUME NEW n \in Messages, Live(n)' # {}
               PROVE \/ Settled(n)'
                     \/ \E q \in Passes : pass'[q].m = n /\ pass'[q].pc \in {"answered", "clash"}
    BY DEF Accounted
  <2>1. CASE n = m
    BY <1>4, <1>10, <2>1
  <2>2. CASE n # m
    BY <1>1, <1>8, <1>9, <1>10, <2>2 DEF IInv, Accounted, Settled
  <2> QED
    BY <2>1, <2>2
<1>15. SentOnce'
  <2> SUFFICES ASSUME NEW x \in (Accepted \ lost)', NEW y \in (Accepted \ lost)', x[1] = y[1]
               PROVE x = y
    BY DEF SentOnce
  <2>1. x[1] \in Messages /\ x \in Live(x[1])' /\ y \in Live(x[1])'
    BY DEF Live, Accepted, Ids
  <2>2. CASE x[1] = m
    BY <1>8, <2>1, <2>2
  <2>3. CASE x[1] # m
    <3>1. x \in Live(x[1]) /\ y \in Live(x[1])
      BY <1>8, <2>1, <2>3
    <3> QED
      BY <3>1 DEF IInv, SentOnce, Live
  <2> QED
    BY <2>2, <2>3
<1> QED
  BY <1>10, <1>11, <1>13, <1>14, <1>15 DEF IInv

\* An attempt that failed for the pass: no copy is left whose outcome may be written.
LEMMA FailedStep ==
  ASSUME OutboxAssumption, IInv, NEW p \in Passes, NEW m \in Messages, pass[p].m = m,
         NEW permanent \in BOOLEAN, pass' = Failed(p, permanent),
         NEW w \in Row, ~w.waits, w.ext = NoId => w.st \in {"sending", "sent", "gone"},
         row' = [row EXCEPT ![m] = w],
         Live(m)' = {}, \A n \in Messages : Live(n)' \subseteq Live(n), Accepted' \subseteq Ids,
         sends' \in [Messages -> 0..MaxSends], lost' \subseteq Ids, unwritten' \subseteq lost',
         rare' \in 0..MaxRare, UNCHANGED <<body, hook, twins, died>>
  PROVE IInv'
<1> DEFINE b == permanent \/ pass[p].attempts >= MaxAttempts
           r == [pass[p] EXCEPT !.pc = "failed", !.ext = NoId, !.terminal = b]
<1>1. pass[p] \in Pass /\ m # NoMessage
  BY TypeParts, Nothing DEF IInv, PassOK
<1>2. b \in BOOLEAN
  OBVIOUS
<1>3. pass' = [pass EXCEPT ![p] = r]
  BY DEF Failed
<1> HIDE DEF b
<1>4. r \in Pass /\ r.m = m /\ r.pc = "failed" /\ r.ext = NoId
  BY <1>1, <1>2 DEF Pass
<1>5. PassFits(r)
  BY <1>1, <1>4 DEF PassFits
<1> HIDE DEF r
<1>6. /\ RowOK' /\ PassOK' /\ HookOK'
      /\ pass'[p] = r /\ \A q \in Passes \ {p} : pass'[q] = pass[q]
      /\ row'[m] = w /\ \A n \in Messages \ {m} : row'[n] = row[n]
  <2>1. RowOK' /\ PassOK'
    BY <1>3, <1>5, RowMoves, PassMoves, TypeParts DEF IInv
  <2>2. HookOK'
    BY TypeParts DEF IInv, HookOK
  <2> QED
    BY <1>3, <2>1, <2>2 DEF IInv, TypeOK
<1>7. TypeOK'
  BY <1>6, TypePrime DEF IInv, TypeOK, RestOK
<1>8. \A q \in Passes \ {p} : pass[q].m # m
  BY <1>1 DEF IInv, OneHolder
<1>9. \A q \in Passes : pass'[q].m = pass[q].m
  BY <1>4, <1>6
<1>10. OneHolder' /\ HolderRow'
  <2>1. OneHolder'
    BY <1>9 DEF IInv, OneHolder
  <2>2. HolderRow'
    BY <1>6, <1>9 DEF IInv, HolderRow
  <2> QED
    BY <2>1, <2>2
<1>11. NotSentYet' /\ OnlyThis'
  <2> SUFFICES ASSUME NEW q \in Passes, NEW n \in Messages, pass'[q].m = n
               PROVE /\ pass'[q].pc \in {"claimed", "failed"} => Live(n)' = {}
                     /\ pass'[q].pc \in {"answered", "clash"} => Live(n)' \subseteq {pass'[q].ext}
    BY DEF NotSentYet, OnlyThis
  <2>1. CASE q = p
    BY <1>4, <1>6, <2>1
  <2>2. CASE q # p
    BY <1>6, <2>2 DEF IInv, NotSentYet, OnlyThis
  <2> QED
    BY <2>1, <2>2
<1>12. Accounted'
  <2> SUFFICES ASSUME NEW n \in Messages, Live(n)' # {}
               PROVE \/ Settled(n)'
                     \/ \E q \in Passes : pass'[q].m = n /\ pass'[q].pc \in {"answered", "clash"}
    BY DEF Accounted
  <2>1. n # m
    OBVIOUS
  <2>2. Settled(n) \/ \E q \in Passes : pass[q].m = n /\ pass[q].pc \in {"answered", "clash"}
    BY DEF IInv, Accounted
  <2>3. CASE Settled(n)
    BY <1>6, <2>1, <2>3 DEF Settled
  <2>4. CASE \E q \in Passes : pass[q].m = n /\ pass[q].pc \in {"answered", "clash"}
    BY <1>6, <2>1, <2>4
  <2> QED
    BY <2>2, <2>3, <2>4
<1>13. SentOnce'
  BY FewerLive DEF IInv
<1> QED
  BY <1>7, <1>10, <1>11, <1>12, <1>13 DEF IInv

\* The row of a message a pass holds, as FailedStep asks for it.
LEMMA HeldRow ==
  ASSUME IInv, NEW p \in Passes, NEW m \in Messages, pass[p].m = m
  PROVE  /\ row[m] \in Row /\ ~row[m].waits
         /\ row[m].ext = NoId => row[m].st \in {"sending", "sent", "gone"}
         /\ row = [row EXCEPT ![m] = row[m]]
  BY DEF IInv, TypeOK, HolderRow

LEMMA AnswerLostStep ==
  ASSUME OutboxAssumption, IInv, NEW p \in Passes, NEW m \in Messages, pass[p].m = m,
         AnswerLost(p)
  PROVE IInv'
<1>1. Accepts(m) /\ lost' = lost \cup {NextId(m)}
  BY DEF AnswerLost
<1>2. /\ Accepted' \subseteq Accepted \cup {NextId(m)}
      /\ sends' \in [Messages -> 0..MaxSends] /\ NextId(m) \in Ids
  BY <1>1, OneMore
<1>3. \A n \in Messages : Live(n)' \subseteq Live(n)
  <2>1. (Accepted \ lost)' \subseteq Accepted \ lost
    BY <1>1, <1>2
  <2> QED
    BY <2>1 DEF Live
<1>4. Accepted' \subseteq Ids /\ lost' \subseteq Ids /\ unwritten' \subseteq lost'
  BY <1>1, <1>2 DEF Accepted, IInv, TypeOK, AnswerLost
<1>5. Live(m)' = {}
  BY <1>3 DEF IInv, NotSentYet, AnswerLost
<1>6. row' = [row EXCEPT ![m] = row[m]] /\ rare' \in 0..MaxRare
  BY HeldRow DEF AnswerLost, IInv, TypeOK
<1> QED
  BY <1>2, <1>3, <1>4, <1>5, <1>6, HeldRow, FailedStep DEF AnswerLost

LEMMA RefusedStep ==
  ASSUME OutboxAssumption, IInv, NEW p \in Passes, NEW m \in Messages, pass[p].m = m,
         Refused(p)
  PROVE IInv'
<1>1. PICK permanent \in BOOLEAN : pass' = Failed(p, permanent)
  BY DEF Refused
<1>2. Accepted' = Accepted /\ \A n \in Messages : Live(n)' = Live(n)
  BY SameLive DEF Refused
<1>3. /\ Accepted' \subseteq Ids /\ sends' \in [Messages -> 0..MaxSends]
      /\ lost' \subseteq Ids /\ unwritten' \subseteq lost'
  BY <1>2 DEF Refused, Accepted, IInv, TypeOK
<1>4. Live(m)' = {}
  BY <1>2 DEF IInv, NotSentYet, Refused
<1>5. row' = [row EXCEPT ![m] = row[m]] /\ rare' \in 0..MaxRare
  BY HeldRow DEF Refused, IInv, TypeOK
<1> QED
  BY <1>1, <1>2, <1>3, <1>4, <1>5, HeldRow, FailedStep DEF Refused

\* The write of the outcome fails, before or after it was made: the copy is lost with it.
LEMMA MarkBreaksStep ==
  ASSUME OutboxAssumption, IInv, NEW p \in Passes, NEW m \in Messages, pass[p].m = m,
         MarkBreaks(p)
  PROVE IInv'
<1>1. pass[p] \in Pass /\ PassFits(pass[p]) /\ pass[p].pc \in {"answered", "clash"}
  BY TypeParts DEF IInv, PassOK, MarkBreaks
<1>2. pass[p].ext \in Ids /\ pass[p].ext # NoId
  BY <1>1 DEF PassFits, Pass
<1>3. lost' = lost \cup {pass[p].ext} /\ unwritten' = unwritten \cup {pass[p].ext} /\ sends' = sends
  BY DEF MarkBreaks
<1>4. Accepted' = Accepted /\ Accepted' \subseteq Ids
  BY <1>3 DEF Accepted
<1>5. \A n \in Messages : Live(n)' \subseteq Live(n)
  BY <1>3, <1>4 DEF Live
<1>6. Live(m)' = {}
  <2>1. Live(m) \subseteq {pass[p].ext}
    BY <1>1 DEF IInv, OnlyThis
  <2> QED
    BY <1>3, <1>4, <2>1 DEF Live
<1>7. /\ sends' \in [Messages -> 0..MaxSends] /\ lost' \subseteq Ids /\ unwritten' \subseteq lost'
      /\ rare' \in 0..MaxRare /\ pass' = Failed(p, FALSE) /\ UNCHANGED <<body, hook, twins, died>>
  BY <1>2, <1>3, RareCounts DEF IInv, TypeOK, MarkBreaks
<1>8. PICK w \in Row : /\ row' = [row EXCEPT ![m] = w] /\ ~w.waits
                       /\ w.ext = NoId => w.st \in {"sending", "sent", "gone"}
  <2>1. CASE row' = row
    BY <2>1, HeldRow
  <2>2. CASE row' # row
    <3> DEFINE v == [row[m] EXCEPT !.st = "sent"]
               u == [row[m] EXCEPT !.st = "sent", !.ext = pass[p].ext]
    <3>1. row' = Written(m, u) \/ row' = Written(m, v)
      BY <2>2 DEF MarkBreaks, SentRow, SentWithoutId
    <3>2. row' = [row EXCEPT ![m] = u] \/ row' = [row EXCEPT ![m] = v]
      BY <2>2, <3>1 DEF Written
    <3>3. u \in Row /\ v \in Row /\ ~u.waits /\ ~v.waits /\ u.st = "sent" /\ v.st = "sent"
      BY <1>2, HeldRow DEF Row
    <3> QED
      BY <3>2, <3>3
  <2> QED
    BY <2>1, <2>2
<1> QED
  BY <1>4, <1>5, <1>6, <1>7, <1>8, FailedStep

-----------------------------------------------------------------------------
(* The outcome.                                                            *)

\* A pass lets its message go: the row waits for a retry only if no live copy exists.
LEMMA OutcomeStep ==
  ASSUME OutboxAssumption, IInv, NEW p \in Passes, NEW m \in Messages, pass[p].m = m,
         NEW w \in Row, w.waits => w.st = "queued",
         row' = [row EXCEPT ![m] = w],
         NEW r, r \in {Done(p), Resting}, pass' = [pass EXCEPT ![p] = r],
         Live(m) = {} \/ w.ext # NoId \/ w.st \in {"sent", "delivered", "gone"},
         rare' \in 0..MaxRare, died' \in [Messages -> Nat],
         UNCHANGED <<body, hook, sends, twins, lost, unwritten>>
  PROVE IInv'
<1>1. PassFits(r) /\ r.m = NoMessage /\ r.pc \in {"idle", "next"}
  <2>1. CASE r = Done(p)
    BY <2>1, DoneFits, TypeParts DEF IInv
  <2>2. CASE r = Resting
    BY <2>2, RestingFits DEF Resting
  <2> QED
    BY <2>1, <2>2
<1>2. RowOK' /\ PassOK'
  BY <1>1, RowMoves, PassMoves, TypeParts DEF IInv
<1>3. TypeOK'
  <2>1. HookOK' /\ RestOK'
    BY TypeParts DEF IInv, HookOK, RestOK
  <2> QED
    BY <1>2, <2>1, TypePrime
<1>4. row'[m] = w /\ \A n \in Messages \ {m} : row'[n] = row[n]
  BY TypeParts DEF IInv, RowOK
<1>5. pass'[p] = r /\ \A q \in Passes \ {p} : pass'[q] = pass[q]
  BY TypeParts DEF IInv, PassOK
<1>6. m # NoMessage /\ \A q \in Passes \ {p} : pass[q].m # m
  BY Nothing DEF IInv, OneHolder
<1>7. Accepted' = Accepted /\ \A n \in Messages : Live(n)' = Live(n)
  BY SameLive
<1>8. \A q \in Passes, n \in Messages : pass'[q].m = n => q # p /\ n # m /\ pass[q].m = n
  BY <1>1, <1>5, <1>6, Nothing
<1>9. OneHolder'
  BY <1>1, <1>5 DEF IInv, OneHolder
<1>10. HolderRow'
  BY <1>4, <1>8 DEF IInv, HolderRow
<1>11. NotSentYet' /\ OnlyThis'
  BY <1>5, <1>7, <1>8 DEF IInv, NotSentYet, OnlyThis
<1>12. Accounted'
  <2> SUFFICES ASSUME NEW n \in Messages, Live(n) # {}
               PROVE \/ Settled(n)'
                     \/ \E q \in Passes : pass'[q].m = n /\ pass'[q].pc \in {"answered", "clash"}
    BY <1>7 DEF Accounted
  <2>1. CASE n = m
    BY <1>4, <2>1 DEF Settled
  <2>2. CASE n # m
    <3>1. CASE Settled(n)
      BY <1>4, <2>2, <3>1 DEF Settled
    <3>2. CASE \E q \in Passes : pass[q].m = n /\ pass[q].pc \in {"answered", "clash"}
      BY <1>5, <2>2, <3>2
    <3> QED
      BY <3>1, <3>2 DEF IInv, Accounted
  <2> QED
    BY <2>1, <2>2
<1>13. SentOnce'
  BY <1>7 DEF IInv, SentOnce
<1> QED
  BY <1>3, <1>9, <1>10, <1>11, <1>12, <1>13 DEF IInv

\* The row a write by id leaves: a deleted one stays as it was.
LEMMA WrittenIs ==
  ASSUME IInv, NEW m \in Messages, NEW w \in Row
  PROVE /\ row[m].st = "gone" => Written(m, w) = [row EXCEPT ![m] = row[m]]
        /\ row[m].st # "gone" => Written(m, w) = [row EXCEPT ![m] = w]
        /\ row[m] \in Row /\ (row[m].waits => row[m].st = "queued")
  BY DEF Written, IInv, TypeOK

LEMMA MarkWithoutIdStep ==
  ASSUME OutboxAssumption, IInv, NEW p \in Passes, NEW m \in Messages, pass[p].m = m,
         MarkWithoutId(p)
  PROVE IInv'
<1> DEFINE w == [row[m] EXCEPT !.st = "sent"]
<1>1. row[m] \in Row /\ ~row[m].waits
  BY DEF IInv, TypeOK, HolderRow
<1>2. w \in Row /\ ~w.waits /\ w.st = "sent"
  BY <1>1 DEF Row
<1>3. row' = Written(m, w) /\ pass' = [pass EXCEPT ![p] = Done(p)]
  BY DEF MarkWithoutId, SentWithoutId
<1>4. /\ UNCHANGED <<body, hook, sends, twins, lost, unwritten>>
      /\ rare' \in 0..MaxRare /\ died' \in [Messages -> Nat]
  BY DEF MarkWithoutId, IInv, TypeOK
<1> HIDE DEF w
<1>5. CASE row[m].st = "gone"
  <2>1. row' = [row EXCEPT ![m] = row[m]]
    BY <1>2, <1>3, <1>5, WrittenIs
  <2> QED
    BY <1>1, <1>3, <1>4, <1>5, <2>1, OutcomeStep
<1>6. CASE row[m].st # "gone"
  <2>1. row' = [row EXCEPT ![m] = w]
    BY <1>2, <1>3, <1>6, WrittenIs
  <2> QED
    BY <1>2, <1>3, <1>4, <2>1, OutcomeStep
<1> QED
  BY <1>5, <1>6

LEMMA RecordFailureStep ==
  ASSUME OutboxAssumption, IInv, NEW p \in Passes, NEW m \in Messages, pass[p].m = m,
         RecordFailure(p)
  PROVE IInv'
<1> DEFINE w == [row[m] EXCEPT !.st = IF pass[p].terminal THEN "failed" ELSE "queued",
                               !.waits = ~pass[p].terminal]
<1>1. row[m] \in Row /\ ~row[m].waits /\ pass[p].terminal \in BOOLEAN
  BY DEF IInv, TypeOK, HolderRow, Pass
<1>2. w \in Row
  BY <1>1 DEF Row
<1>3. w.waits => w.st = "queued"
  BY <1>1 DEF Row
<1>4. row' = Written(m, w) /\ pass' = [pass EXCEPT ![p] = Done(p)]
  BY DEF RecordFailure
<1>5. /\ UNCHANGED <<body, hook, sends, twins, lost, unwritten>>
      /\ rare' \in 0..MaxRare /\ died' \in [Messages -> Nat]
  BY DEF RecordFailure, IInv, TypeOK
<1>6. Live(m) = {}
  BY DEF IInv, NotSentYet, RecordFailure
<1> HIDE DEF w
<1>7. CASE row[m].st = "gone"
  <2>1. row' = [row EXCEPT ![m] = row[m]]
    BY <1>2, <1>4, <1>7, WrittenIs
  <2> QED
    BY <1>1, <1>4, <1>5, <1>6, <2>1, OutcomeStep
<1>8. CASE row[m].st # "gone"
  <2>1. row' = [row EXCEPT ![m] = w]
    BY <1>2, <1>4, <1>8, WrittenIs
  <2> QED
    BY <1>2, <1>3, <1>4, <1>5, <1>6, <2>1, OutcomeStep
<1> QED
  BY <1>7, <1>8

LEMMA RecordBreaksStep ==
  ASSUME OutboxAssumption, IInv, NEW p \in Passes, NEW m \in Messages, pass[p].m = m,
         RecordBreaks(p)
  PROVE IInv'
<1>1. rare' \in 0..MaxRare /\ died' \in [Messages -> Nat]
  BY RareCounts, DiesCounts DEF RecordBreaks
<1>2. Live(m) = {}
  BY DEF IInv, NotSentYet, RecordBreaks
<1>3. row' = [row EXCEPT ![m] = row[m]] /\ row[m] \in Row /\ ~row[m].waits
  BY HeldRow DEF RecordBreaks
<1> QED
  BY <1>1, <1>2, <1>3, OutcomeStep DEF RecordBreaks

LEMMA MarkSentStep ==
  ASSUME OutboxAssumption, IInv, NEW p \in Passes, NEW m \in Messages, pass[p].m = m,
         MarkSent(p)
  PROVE IInv'
<1>1. pass[p] \in Pass /\ PassFits(pass[p]) /\ pass[p].pc = "answered"
  BY TypeParts DEF IInv, PassOK, MarkSent
<1>2. /\ UNCHANGED <<body, hook, sends, twins, lost, unwritten, died, rare>>
      /\ rare' \in 0..MaxRare /\ died' \in [Messages -> Nat]
  BY DEF MarkSent, IInv, TypeOK
<1>3. CASE row' = Written(m, [row[m] EXCEPT !.st = "sent", !.ext = pass[p].ext])
           /\ pass' = [pass EXCEPT ![p] = Done(p)]
  <2> DEFINE w == [row[m] EXCEPT !.st = "sent", !.ext = pass[p].ext]
  <2>1. row[m] \in Row /\ ~row[m].waits /\ pass[p].ext \in Ids \cup {NoId}
    BY <1>1 DEF IInv, TypeOK, HolderRow, Pass
  <2>2. w \in Row
    BY <2>1 DEF Row
  <2>3. ~w.waits /\ w.st = "sent"
    BY <2>1 DEF Row
  <2>4. row' = Written(m, w) /\ pass' = [pass EXCEPT ![p] = Done(p)]
    BY <1>3
  <2> HIDE DEF w
  <2>5. CASE row[m].st = "gone"
    <3>1. row' = [row EXCEPT ![m] = row[m]]
      BY <2>2, <2>4, <2>5, WrittenIs
    <3> QED
      BY <1>2, <2>1, <2>4, <2>5, <3>1, OutcomeStep
  <2>6. CASE row[m].st # "gone"
    <3>1. row' = [row EXCEPT ![m] = w]
      BY <2>2, <2>4, <2>6, WrittenIs
    <3> QED
      BY <1>2, <2>2, <2>3, <2>4, <3>1, OutcomeStep
  <2> QED
    BY <2>5, <2>6
<1>4. CASE pass' = OnClash(p) /\ UNCHANGED row
  <2> DEFINE r == [pass[p] EXCEPT !.pc = "clash"]
  <2>1. r \in Pass /\ r.m = m /\ r.pc = "clash" /\ r.ext = pass[p].ext
    BY <1>1 DEF Pass
  <2>2. PassFits(r)
    BY <1>1, <2>1 DEF PassFits
  <2>3. pass' = [pass EXCEPT ![p] = r]
    BY <1>4 DEF OnClash
  <2> HIDE DEF r
  <2>4. /\ RowOK' /\ PassOK' /\ HookOK' /\ OneHolder' /\ HolderRow'
        /\ pass'[p] = r /\ \A q \in Passes \ {p} : pass'[q] = pass[q]
    BY <1>2, <1>4, <2>1, <2>2, <2>3, Keeps
  <2>5. TypeOK'
    BY <1>2, <2>4, TypePrime DEF IInv, TypeOK, RestOK
  <2>6. Accepted' = Accepted /\ \A n \in Messages : Live(n)' = Live(n)
    BY <1>2, SameLive
  <2>7. NotSentYet' /\ OnlyThis'
    <3> SUFFICES ASSUME NEW q \in Passes, NEW n \in Messages, pass'[q].m = n
                 PROVE /\ pass'[q].pc \in {"claimed", "failed"} => Live(n)' = {}
                       /\ pass'[q].pc \in {"answered", "clash"} => Live(n)' \subseteq {pass'[q].ext}
      BY DEF NotSentYet, OnlyThis
    <3>1. CASE q = p
      <4>1. n = m /\ Live(m) \subseteq {pass[p].ext}
        BY <1>1, <2>1, <2>4, <3>1 DEF IInv, OnlyThis
      <4> QED
        BY <2>1, <2>4, <2>6, <3>1, <4>1
    <3>2. CASE q # p
      BY <2>4, <2>6, <3>2 DEF IInv, NotSentYet, OnlyThis
    <3> QED
      BY <3>1, <3>2
  <2>8. Accounted'
    <3> SUFFICES ASSUME NEW n \in Messages, Live(n) # {}
                 PROVE Settled(n)' \/ \E q \in Passes : pass'[q].m = n /\ pass'[q].pc \in {"answered", "clash"}
      BY <2>6 DEF Accounted
    <3>1. CASE Settled(n)
      BY <3>1, <1>4 DEF Settled
    <3>2. CASE ~Settled(n)
      <4>1. PICK q \in Passes : pass[q].m = n /\ pass[q].pc \in {"answered", "clash"}
        BY <3>2 DEF IInv, Accounted
      <4>2. CASE q = p
        BY <4>1, <4>2, <2>1, <2>4
      <4>3. CASE q # p
        BY <4>1, <4>3, <2>4
      <4> QED
        BY <4>2, <4>3
    <3> QED
      BY <3>1, <3>2
  <2>9. SentOnce'
    BY <1>2, <2>6 DEF IInv, SentOnce
  <2> QED
    BY <2>4, <2>5, <2>7, <2>8, <2>9 DEF IInv
<1> QED
  BY <1>3, <1>4 DEF MarkSent, SentRow

\* The copies whose answer dies with the process are lost: none of them is live.
LEMMA CrashStep ==
  ASSUME OutboxAssumption, IInv, Crash
  PROVE IInv'
<1> DEFINE dead == {q \in Passes : pass[q].pc \in {"answered", "clash"}}
<1>1. \A q \in dead : pass[q].ext \in Ids /\ pass[q].ext \in lost'
  <2> TAKE q \in dead
  <2>1. PassFits(pass[q])
    BY TypeParts DEF IInv, PassOK
  <2> QED
    BY <2>1 DEF PassFits, Pass, Crash
<1>2. lost' \subseteq Ids /\ lost \subseteq lost' /\ sends' = sends /\ unwritten' \subseteq lost'
  BY <1>1 DEF Crash, IInv, TypeOK
<1>3. Accepted' = Accepted /\ Accepted' \subseteq Ids
  BY <1>2 DEF Accepted
<1>4. \A n \in Messages : Live(n)' \subseteq Live(n) /\ Live(n)' \cap lost' = {}
  BY <1>2, <1>3 DEF Live
<1>5. \A q \in Passes : pass'[q] = Resting
  BY DEF Crash
<1>6. TypeOK'
  <2>1. PassOK'
    BY RestingFits DEF PassOK, PassFits, Crash
  <2>2. HookOK'
    BY RestingFits DEF HookOK, HookFits, Crash
  <2>3. RowOK'
    BY TypeParts DEF IInv, RowOK, Crash
  <2>4. rare' \in 0..MaxRare /\ died' \in [Messages -> Nat]
    <3>1. \A n \in Messages : died[n] \in Nat /\ died[n] + 1 \in Nat
      BY DEF IInv, TypeOK
    <3> QED
      BY <3>1, RareCounts DEF Crash
  <2>5. RestOK'
    BY <1>2, <2>4 DEF IInv, TypeOK, RestOK, Crash
  <2> QED
    BY <2>1, <2>2, <2>3, <2>5, TypePrime
<1>7. \A q \in Passes : pass'[q].m = NoMessage /\ pass'[q].pc = "idle"
  BY <1>5 DEF Resting
<1>8. OneHolder' /\ HolderRow' /\ NotSentYet' /\ OnlyThis'
  BY <1>7, Nothing DEF OneHolder, HolderRow, NotSentYet, OnlyThis
<1>9. Accounted'
  <2> SUFFICES ASSUME NEW n \in Messages, Live(n)' # {} PROVE Settled(n)'
    BY DEF Accounted
  <2>1. ASSUME NEW q \in dead, pass[q].m = n PROVE FALSE
    <3>1. Live(n) \subseteq {pass[q].ext}
      BY <2>1 DEF IInv, OnlyThis
    <3>2. pass[q].ext \in lost'
      BY <1>1
    <3> QED
      BY <1>4, <3>1, <3>2
  <2>2. Settled(n)
    BY <1>4, <2>1 DEF IInv, Accounted
  <2> QED
    BY <2>2 DEF Settled, Crash
<1>10. SentOnce'
  BY <1>3, <1>4, FewerLive DEF IInv
<1> QED
  BY <1>6, <1>8, <1>9, <1>10 DEF IInv

-----------------------------------------------------------------------------
(* The theorems.                                                           *)

LEMMA InitIInv ==
  ASSUME OutboxAssumption, Init
  PROVE IInv
<1>1. RowOK
  BY Nothing DEF RowOK, Row, Init
<1>2. PassOK /\ HookOK
  BY RestingFits DEF PassOK, PassFits, HookOK, HookFits, Init
<1>3. RestOK
  BY DEF RestOK, Init, OutboxAssumption
<1>4. TypeOK
  BY <1>1, <1>2, <1>3, TypeParts
<1>5. \A p \in Passes : pass[p].m = NoMessage
  BY DEF Init, Resting
<1>6. Accepted = {}
  BY DEF Accepted, Ids, Init, OutboxAssumption
<1>7. OneHolder /\ HolderRow /\ NotSentYet /\ OnlyThis
  BY <1>5, Nothing DEF OneHolder, HolderRow, NotSentYet, OnlyThis
<1>8. Accounted /\ SentOnce
  BY <1>6 DEF Accounted, SentOnce, Live
<1> QED
  BY <1>4, <1>7, <1>8 DEF IInv

\* A pass that delivers holds a message.
LEMMA Holds ==
  ASSUME IInv, NEW p \in Passes, pass[p].pc \notin {"idle", "next"}
  PROVE pass[p].m \in Messages
<1>1. PassFits(pass[p])
  BY TypeParts DEF IInv, PassOK
<1> QED
  BY <1>1 DEF PassFits, Pass

LEMMA DeliverStep ==
  ASSUME OutboxAssumption, IInv, NEW p \in Passes, Deliver(p)
  PROVE IInv'
<1>1. CASE \E m \in Messages : Claim(p, m) \/ ClaimBreaks(p, m) \/ ClaimedElsewhere(p, m)
  BY <1>1, ClaimStep, ClaimBreaksStep, ClaimedElsewhereStep
<1>2. CASE Answered(p) \/ AnswerLost(p) \/ Refused(p)
  <2>1. pass[p].m \in Messages
    BY <1>2, Holds DEF Answered, AnswerLost, Refused
  <2> QED
    BY <1>2, <2>1, AnsweredStep, AnswerLostStep, RefusedStep
<1>3. CASE MarkSent(p) \/ MarkWithoutId(p) \/ MarkBreaks(p) \/ RecordFailure(p) \/ RecordBreaks(p)
  <2>1. pass[p].m \in Messages
    BY <1>3, Holds DEF MarkSent, MarkWithoutId, MarkBreaks, RecordFailure, RecordBreaks
  <2> QED
    BY <1>3, <2>1, MarkSentStep, MarkWithoutIdStep, MarkBreaksStep, RecordFailureStep,
       RecordBreaksStep
<1> QED
  BY <1>1, <1>2, <1>3 DEF Deliver

LEMMA StutterStep ==
  ASSUME IInv, UNCHANGED vars
  PROVE IInv'
<1>1. HookOK' /\ twins' \subseteq Ids
  BY TypeParts DEF IInv, TypeOK, HookOK, vars
<1> QED
  BY <1>1, HookStep DEF vars

LEMMA NextStep ==
  ASSUME OutboxAssumption, IInv, [Next]_vars
  PROVE IInv'
<1>1. CASE \E p \in Passes : Tick(p) \/ ListBulk(p) \/ EndPass(p) \/ Deliver(p)
  BY <1>1, TickStep, ListBulkStep, EndPassStep, DeliverStep
<1>2. CASE \E h \in Hooks : Inbound(h)
  BY <1>2, EchoStep, PickStep, AdoptStep, InsertStep DEF Inbound
<1>3. CASE \E m \in Messages : Around(m)
  BY <1>3, ReceiptStep, RequeueStep, WithdrawStep, BackoffEndsStep DEF Around
<1>4. CASE Crash
  BY <1>4, CrashStep
<1>5. CASE UNCHANGED vars
  BY <1>5, StutterStep
<1> QED
  BY <1>1, <1>2, <1>3, <1>4, <1>5 DEF Next

\* Whatever interleaving of passes, webhook deliveries, retries and crashes: what rows,
\* passes and deliveries hold is of its kind, and a pass knows of a message just while
\* it delivers it.
THEOREM TypeCorrect == Spec => []TypeOK
<1>1. Init => IInv
  BY InitIInv, OutboxAssumption
<1>2. IInv /\ [Next]_vars => IInv'
  BY NextStep, OutboxAssumption
<1>3. IInv => TypeOK
  BY DEF IInv
<1> QED
  BY <1>1, <1>2, <1>3, PTL DEF Spec

\* A customer gets a message twice only when the outcome of the first copy could not be
\* written down: for any number of messages, passes, webhook deliveries, crashes and writes
\* that fail.
THEOREM SentOnceAlways == Spec => []SentOnce
<1>1. Init => IInv
  BY InitIInv, OutboxAssumption
<1>2. IInv /\ [Next]_vars => IInv'
  BY NextStep, OutboxAssumption
<1>3. IInv => SentOnce
  BY DEF IInv
<1> QED
  BY <1>1, <1>2, <1>3, PTL DEF Spec

-----------------------------------------------------------------------------
(* The cap of attempts.                                                    *)

\* Nobody has the row, or it is back in the queue: it may be claimed.
Loose(m) ==
  \/ row[m].st = "queued"
  \/ row[m].st = "sending" /\ row[m].ext = NoId /\ \A p \in Passes : pass[p].m # m

\* A loose row has an attempt left, a pass remembers no fewer than its row counts, and one
\* that is to be tried again is below the cap.
Counted ==
  /\ \A m \in Messages : row[m].attempts <= MaxAttempts + died[m]
  /\ \A m \in Messages : Loose(m) => row[m].attempts < MaxAttempts + died[m]
  /\ \A p \in Passes, m \in Messages : pass[p].m = m => row[m].attempts <= pass[p].attempts
  /\ \A p \in Passes : pass[p].pc = "failed" /\ ~pass[p].terminal => pass[p].attempts < MaxAttempts

LEMMA Numbers ==
  ASSUME IInv
  PROVE  /\ \A m \in Messages : row[m] \in Row /\ row[m].attempts \in Nat
         /\ \A p \in Passes : pass[p] \in Pass /\ pass[p].attempts \in Nat
                              /\ (pass[p].m = NoMessage <=> pass[p].pc \in {"idle", "next"})
         /\ MaxAttempts \in Nat \ {0} /\ \A m \in Messages : died[m] \in Nat
  BY OutboxAssumption DEF OutboxAssumption, IInv, TypeOK, Row, Pass

\* What a pass does to its own record, when the rows stay as they are.
LEMMA PassCounts ==
  ASSUME IInv, Counted, NEW p \in Passes, NEW r, pass' = [pass EXCEPT ![p] = r],
         \A n \in Messages : /\ row'[n].attempts = row[n].attempts
                             /\ row'[n] = row[n] \/ row'[n].st = "sent",
         UNCHANGED died,
         r.m = pass[p].m, r.m = NoMessage \/ r.attempts = pass[p].attempts,
         r.pc = "failed" /\ ~r.terminal => r.attempts < MaxAttempts
  PROVE  Counted'
<1>1. pass'[p] = r /\ \A q \in Passes \ {p} : pass'[q] = pass[q]
  BY DEF IInv, TypeOK
<1>2. \A m \in Messages : Loose(m)' => Loose(m)
  BY <1>1 DEF Loose
<1>3. \A q \in Passes, n \in Messages : pass'[q].m = n => row'[n].attempts <= pass'[q].attempts
  <2> TAKE q \in Passes, n \in Messages
  <2>1. CASE q = p
    BY <2>1, <1>1, Nothing, OutboxAssumption DEF Counted
  <2>2. CASE q # p
    BY <2>2, <1>1 DEF Counted
  <2> QED BY <2>1, <2>2
<1>4. \A q \in Passes : pass'[q].pc = "failed" /\ ~pass'[q].terminal => pass'[q].attempts < MaxAttempts
  <2> TAKE q \in Passes
  <2>1. CASE q = p
    BY <2>1, <1>1
  <2>2. CASE q # p
    BY <2>2, <1>1 DEF Counted
  <2> QED BY <2>1, <2>2
<1> QED BY <1>2, <1>3, <1>4 DEF Counted

\* The same, of a pass that changes no row.
LEMMA PassAlone ==
  ASSUME IInv, Counted, NEW p \in Passes, NEW r, pass' = [pass EXCEPT ![p] = r],
         UNCHANGED <<row, died>>,
         r.m = pass[p].m, r.m = NoMessage \/ r.attempts = pass[p].attempts,
         r.pc = "failed" /\ ~r.terminal => r.attempts < MaxAttempts
  PROVE  Counted'
BY PassCounts

\* A row that changes while the passes stay as they are: it is loose afterwards only with
\* an attempt to spare, and counts no more than before.
LEMMA RowCounts ==
  ASSUME IInv, Counted, NEW m \in Messages, NEW w, row' = [row EXCEPT ![m] = w],
         pass' = pass, \A n \in Messages \ {m} : died'[n] = died[n],
         w.attempts \in Nat, w.attempts <= row[m].attempts,
         w.attempts <= MaxAttempts + died'[m],
         w.st = "queued" \/ (w.st = "sending" /\ w.ext = NoId)
           => w.attempts < MaxAttempts + died'[m]
  PROVE  Counted'
<1>1. row'[m] = w /\ \A n \in Messages \ {m} : row'[n] = row[n]
  BY DEF IInv, TypeOK
<1>2. \A n \in Messages \ {m} : Loose(n)' => Loose(n)
  BY <1>1 DEF Loose
<1>3. \A n \in Messages : row'[n].attempts <= row[n].attempts /\ row'[n].attempts \in Nat
  BY <1>1, Numbers
<1>4. \A n \in Messages : row'[n].attempts <= MaxAttempts + died'[n]
  <2> TAKE n \in Messages
  <2>1. CASE n = m
    BY <2>1, <1>1
  <2>2. CASE n # m
    BY <2>2, <1>1 DEF Counted
  <2> QED BY <2>1, <2>2
<1>5. \A n \in Messages : Loose(n)' => row'[n].attempts < MaxAttempts + died'[n]
  <2> TAKE n \in Messages
  <2>1. CASE n = m
    BY <2>1, <1>1 DEF Loose
  <2>2. CASE n # m
    BY <2>2, <1>1, <1>2 DEF Counted
  <2> QED BY <2>1, <2>2
<1>6. \A q \in Passes, n \in Messages : pass'[q].m = n => row'[n].attempts <= pass'[q].attempts
  <2> TAKE q \in Passes, n \in Messages
  <2>1. HAVE pass'[q].m = n
  <2>2. row[n].attempts <= pass[q].attempts
    BY <2>1 DEF Counted
  <2>3. row'[n].attempts \in Nat /\ row[n].attempts \in Nat /\ pass[q].attempts \in Nat
    BY <1>3, Numbers
  <2> QED BY <1>3, <2>2, <2>3
<1> QED BY <1>4, <1>5, <1>6 DEF Counted

\* A pass lets its message go, and the row says so or counts the claim among the dead.
LEMMA LetGoCounts ==
  ASSUME IInv, Counted, NEW p \in Passes, NEW m \in Messages, pass[p].m = m,
         NEW w, row' = [row EXCEPT ![m] = w],
         \A n \in Messages \ {m} : died'[n] = died[n], died'[m] \in Nat, died'[m] >= died[m],
         NEW r, r \in {Done(p), Resting}, pass' = [pass EXCEPT ![p] = r],
         w.attempts = row[m].attempts,
         w.st \in {"queued", "sending"} => w.attempts < MaxAttempts + died'[m]
  PROVE  Counted'
<1>1. row'[m] = w /\ \A n \in Messages \ {m} : row'[n] = row[n]
  BY DEF IInv, TypeOK
<1>2. pass'[p] = r /\ \A q \in Passes \ {p} : pass'[q] = pass[q]
  BY DEF IInv, TypeOK
<1>3. r.m = NoMessage /\ r.pc \in {"idle", "next"}
  BY DoneFits, OutboxAssumption, TypeParts DEF IInv, Resting
<1>4. \A n \in Messages \ {m} : Loose(n)' => Loose(n)
  BY <1>1, <1>2 DEF Loose
<1>5. \A n \in Messages : row'[n].attempts = row[n].attempts
  BY <1>1
<1>6. \A n \in Messages : Loose(n)' => row'[n].attempts < MaxAttempts + died'[n]
  <2> TAKE n \in Messages
  <2>1. CASE n = m
    BY <2>1, <1>1 DEF Loose
  <2>2. CASE n # m
    BY <2>2, <1>1, <1>4 DEF Counted
  <2> QED BY <2>1, <2>2
<1>7. \A q \in Passes, n \in Messages : pass'[q].m = n => row'[n].attempts <= pass'[q].attempts
  <2> TAKE q \in Passes, n \in Messages
  <2>1. CASE q = p
    BY <2>1, <1>2, <1>3, Nothing, OutboxAssumption
  <2>2. CASE q # p
    BY <2>2, <1>2, <1>5 DEF Counted
  <2> QED BY <2>1, <2>2
<1>8. \A n \in Messages : row'[n].attempts <= MaxAttempts + died'[n]
  <2> TAKE n \in Messages
  <2>1. row[n].attempts <= MaxAttempts + died[n] /\ row'[n].attempts = row[n].attempts
    BY <1>5 DEF Counted
  <2>2. CASE n = m
    BY <2>1, <2>2, Numbers
  <2>3. CASE n # m
    BY <2>1, <2>3
  <2> QED BY <2>2, <2>3
<1>9. \A q \in Passes : pass'[q].pc = "failed" /\ ~pass'[q].terminal => pass'[q].attempts < MaxAttempts
  BY <1>2, <1>3 DEF Counted
<1> QED BY <1>6, <1>7, <1>8, <1>9 DEF Counted

\* A loose row is taken: its attempts grow by the one it had to spare. It is in the hands
\* of the pass, or its claim counts among the dead.
LEMMA TakenCounts ==
  ASSUME IInv, Counted, NEW p \in Passes, NEW m \in Messages, Sendable(m),
         pass[p].m = NoMessage, NEW r, pass' = [pass EXCEPT ![p] = r], r.pc # "failed",
         row' = [row EXCEPT ![m].st = "sending", ![m].attempts = @ + 1],
         \A n \in Messages \ {m} : died'[n] = died[n], died'[m] \in Nat,
         \/ r.m = m /\ r.attempts = row[m].attempts + 1 /\ died'[m] = died[m]
         \/ r.m = NoMessage /\ died'[m] = died[m] + 1
  PROVE  Counted'
<1> USE OutboxAssumption
<1> DEFINE w == [row[m] EXCEPT !.st = "sending", !.attempts = @ + 1]
<1>1. row' = [row EXCEPT ![m] = w] /\ w.attempts = row[m].attempts + 1 /\ row[m].attempts \in Nat
      /\ died[m] \in Nat /\ MaxAttempts \in Nat
  BY Numbers DEF Row
<1> HIDE DEF w
<1>2. pass'[p] = r /\ (\A q \in Passes \ {p} : pass'[q] = pass[q])
      /\ row'[m] = w /\ (\A n \in Messages \ {m} : row'[n] = row[n])
  BY <1>1 DEF IInv, TypeOK
<1>3. \A q \in Passes : pass[q].m # m
  BY Claimable
<1>4. row[m].attempts < MaxAttempts + died[m]
  BY <1>3 DEF Sendable, Stale, Counted, Loose
<1>5. \A n \in Messages \ {m} : Loose(n)' => Loose(n)
  <2> SUFFICES ASSUME NEW n \in Messages \ {m}, Loose(n)' PROVE Loose(n)
    OBVIOUS
  <2>1. row'[n] = row[n]
    BY <1>2
  <2>2. n # NoMessage /\ pass[p].m # n
    BY Nothing
  <2>3. ASSUME \A q \in Passes : pass'[q].m # n PROVE \A q \in Passes : pass[q].m # n
    BY <1>2, <2>2, <2>3
  <2> QED BY <2>1, <2>3 DEF Loose
<1>6. \A n \in Messages : row'[n].attempts <= MaxAttempts + died'[n]
  <2> TAKE n \in Messages
  <2>1. CASE n = m
    BY <2>1, <1>1, <1>2, <1>4
  <2>2. CASE n # m
    BY <2>2, <1>2 DEF Counted
  <2> QED BY <2>1, <2>2
<1>7. \A n \in Messages : Loose(n)' => row'[n].attempts < MaxAttempts + died'[n]
  <2> TAKE n \in Messages
  <2>1. CASE n = m
    <3>1. CASE r.m = m
      <4>1. row'[m].st = "sending"
        BY DEF IInv, TypeOK, Row
      <4> QED BY <2>1, <3>1, <4>1, <1>2 DEF Loose
    <3>2. CASE r.m = NoMessage
      BY <2>1, <3>2, <1>1, <1>2, <1>4, Nothing
    <3> QED BY <3>1, <3>2
  <2>2. CASE n # m
    BY <2>2, <1>2, <1>5 DEF Counted
  <2> QED BY <2>1, <2>2
<1>8. \A q \in Passes, n \in Messages : pass'[q].m = n => row'[n].attempts <= pass'[q].attempts
  <2> TAKE q \in Passes, n \in Messages
  <2>1. CASE q = p
    <3>1. CASE r.m = m
      <4>1. row'[m].attempts = pass'[p].attempts /\ row'[m].attempts \in Nat
        BY <1>1, <1>2, <3>1, Nothing
      <4>2. row'[m].attempts <= pass'[p].attempts
        BY <4>1
      <4>3. pass'[p].m = m
        BY <1>2, <3>1
      <4> QED BY <2>1, <4>2, <4>3
    <3>2. CASE r.m = NoMessage
      BY <2>1, <3>2, <1>2, Nothing
    <3> QED BY <3>1, <3>2
  <2>2. CASE q # p
    BY <2>2, <1>2, <1>3 DEF Counted
  <2> QED BY <2>1, <2>2
<1>9. \A q \in Passes : pass'[q].pc = "failed" /\ ~pass'[q].terminal => pass'[q].attempts < MaxAttempts
  BY <1>2 DEF Counted
<1> QED BY <1>6, <1>7, <1>8, <1>9 DEF Counted

LEMMA DeliverCounts ==
  ASSUME IInv, Counted, NEW p \in Passes, Deliver(p)
  PROVE  Counted'
<1> USE OutboxAssumption
<1>1. ASSUME NEW m \in Messages, Claim(p, m) PROVE Counted'
  <2> DEFINE r == [pass[p] EXCEPT !.pc = "claimed", !.m = m, !.todo = @ \ {m},
                                  !.attempts = row[m].attempts + 1]
  <2>1. pass' = [pass EXCEPT ![p] = r] /\ died' = died /\ Sendable(m)
        /\ row' = [row EXCEPT ![m].st = "sending", ![m].attempts = @ + 1]
    BY <1>1 DEF Claim
  <2>2. r.m = m /\ r.pc = "claimed" /\ r.attempts = row[m].attempts + 1
    BY Numbers DEF Pass
  <2>3. pass[p].m = NoMessage /\ died[m] \in Nat
    BY <1>1, Numbers DEF Claim
  <2> HIDE DEF r
  <2> QED BY <2>1, <2>2, <2>3, TakenCounts
<1>1a. ASSUME NEW m \in Messages, ClaimBreaks(p, m) PROVE Counted'
  <2>1. pass[p].m = NoMessage /\ died'[m] = died[m] + 1 /\ died'[m] \in Nat
        /\ \A n \in Messages \ {m} : died'[n] = died[n]
    BY <1>1a, Numbers, DiesCounts DEF ClaimBreaks
  <2>2. Resting.m = NoMessage /\ Resting.pc = "idle"
    BY DEF Resting
  <2> QED BY <1>1a, <2>1, <2>2, TakenCounts DEF ClaimBreaks
<1>2. ASSUME NEW m \in Messages, ClaimedElsewhere(p, m) PROVE Counted'
  <2> DEFINE r == [pass[p] EXCEPT !.todo = @ \ {m}]
  <2>1. pass' = [pass EXCEPT ![p] = r] /\ UNCHANGED <<row, died>>
    BY <1>2 DEF ClaimedElsewhere
  <2>2. r.m = pass[p].m /\ r.pc = pass[p].pc /\ r.attempts = pass[p].attempts
        /\ r.terminal = pass[p].terminal
    BY Numbers DEF Pass
  <2>3. r.pc = "next"
    BY <1>2, <2>2 DEF ClaimedElsewhere
  <2> HIDE DEF r
  <2> QED BY <2>1, <2>2, <2>3, PassAlone
<1>3. ASSUME Answered(p) PROVE Counted'
  <2> DEFINE r == [pass[p] EXCEPT !.pc = "answered", !.ext = NextId(pass[p].m)]
  <2>1. pass' = [pass EXCEPT ![p] = r] /\ UNCHANGED <<row, died>>
    BY <1>3 DEF Answered
  <2>2. r.m = pass[p].m /\ r.pc = "answered" /\ r.attempts = pass[p].attempts
    BY Numbers DEF Pass
  <2> HIDE DEF r
  <2> QED BY <2>1, <2>2, PassAlone
<1>4. ASSUME NEW permanent \in BOOLEAN, pass' = Failed(p, permanent), UNCHANGED <<row, died>>
      PROVE  Counted'
  <2> DEFINE last == permanent \/ pass[p].attempts >= MaxAttempts
             r == [pass[p] EXCEPT !.pc = "failed", !.ext = NoId, !.terminal = last]
  <2>1. pass' = [pass EXCEPT ![p] = r]
    BY <1>4 DEF Failed
  <2>2. r.m = pass[p].m /\ r.attempts = pass[p].attempts /\ r.terminal = last
    BY Numbers DEF Pass
  <2>3. ~r.terminal => r.attempts < MaxAttempts
    <3>1. ~last => ~(pass[p].attempts >= MaxAttempts)
      OBVIOUS
    <3>2. ~(pass[p].attempts >= MaxAttempts) => pass[p].attempts < MaxAttempts
      BY Numbers
    <3> HIDE DEF last
    <3> QED BY <2>2, <3>1, <3>2
  <2> HIDE DEF r, last
  <2> QED BY <1>4, <2>1, <2>2, <2>3, PassAlone
<1>5. ASSUME AnswerLost(p) \/ Refused(p) PROVE Counted'
  BY <1>4, <1>5 DEF AnswerLost, Refused
<1>5a. ASSUME MarkBreaks(p) PROVE Counted'
  <2> DEFINE m == pass[p].m
             last == FALSE \/ pass[p].attempts >= MaxAttempts
             r == [pass[p] EXCEPT !.pc = "failed", !.ext = NoId, !.terminal = last]
             v == [row[m] EXCEPT !.st = "sent"]
             u == [row[m] EXCEPT !.st = "sent", !.ext = pass[p].ext]
  <2>1. m \in Messages /\ row[m] \in Row
    BY <1>5a, Holds, Numbers DEF MarkBreaks
  <2>2. pass' = [pass EXCEPT ![p] = r] /\ died' = died
    BY <1>5a DEF MarkBreaks, Failed
  <2>3. r.m = pass[p].m /\ r.attempts = pass[p].attempts /\ r.terminal = last
    BY Numbers DEF Pass
  <2>4. ~r.terminal => r.attempts < MaxAttempts
    <3>1. ~last => ~(pass[p].attempts >= MaxAttempts)
      OBVIOUS
    <3>2. ~(pass[p].attempts >= MaxAttempts) => pass[p].attempts < MaxAttempts
      BY Numbers
    <3> HIDE DEF last
    <3> QED BY <2>1, <2>3, <3>1, <3>2
  <2>5. u.attempts = row[m].attempts /\ u.st = "sent" /\ v.attempts = row[m].attempts /\ v.st = "sent"
    BY <2>1 DEF Row
  <2>6. row' = row \/ row' = [row EXCEPT ![m] = u] \/ row' = [row EXCEPT ![m] = v]
    BY <1>5a DEF MarkBreaks, SentRow, SentWithoutId, Written
  <2> HIDE DEF r, last, u, v, m
  <2>7. \A n \in Messages : /\ row'[n].attempts = row[n].attempts
                            /\ row'[n] = row[n] \/ row'[n].st = "sent"
    BY <2>1, <2>5, <2>6 DEF IInv, TypeOK
  <2> QED BY <2>2, <2>3, <2>4, <2>7, PassCounts
<1>5b. ASSUME RecordBreaks(p) PROVE Counted'
  <2> DEFINE m == pass[p].m
  <2>1. m \in Messages
    BY <1>5b, Holds DEF RecordBreaks
  <2>2. died'[m] = died[m] + 1 /\ \A n \in Messages \ {m} : died'[n] = died[n]
    BY <1>5b, <2>1, DiesCounts DEF RecordBreaks
  <2>3. row' = [row EXCEPT ![m] = row[m]] /\ pass' = [pass EXCEPT ![p] = Resting]
    BY <1>5b, <2>1 DEF RecordBreaks, IInv, TypeOK
  <2>4. died[m] \in Nat /\ row[m].attempts \in Nat /\ MaxAttempts \in Nat
        /\ row[m].attempts <= MaxAttempts + died[m]
    BY <2>1, Numbers DEF Counted
  <2> HIDE DEF m
  <2>5. died'[m] \in Nat /\ died'[m] >= died[m] /\ row[m].attempts < MaxAttempts + died'[m]
    BY <2>2, <2>4
  <2>6. pass[p].m = m
    BY DEF m
  <2> QED BY <2>1, <2>2, <2>3, <2>5, <2>6, LetGoCounts
<1>6. ASSUME MarkSent(p) \/ MarkWithoutId(p) \/ RecordFailure(p) PROVE Counted'
  <2> DEFINE m == pass[p].m
  <2>1. m \in Messages /\ died[m] \in Nat
    BY <1>6, Numbers, Holds DEF MarkSent, MarkWithoutId, RecordFailure
  <2>2. CASE pass' = OnClash(p) /\ UNCHANGED <<row, died>>
    <3> DEFINE r == [pass[p] EXCEPT !.pc = "clash"]
    <3>1. pass' = [pass EXCEPT ![p] = r]
      BY <2>2 DEF OnClash
    <3>2. r.m = pass[p].m /\ r.pc = "clash" /\ r.attempts = pass[p].attempts
      BY Numbers DEF Pass
    <3> HIDE DEF r
    <3> QED BY <2>2, <3>1, <3>2, PassAlone
  <2>3. ASSUME NEW w, pass' = [pass EXCEPT ![p] = Done(p)], row' = Written(m, w), UNCHANGED died,
               w.attempts = row[m].attempts, w.st # "sending", died[m] \in Nat,
               w.st = "queued" => w.attempts < MaxAttempts + died[m]
        PROVE  Counted'
    <3>0. m = pass[p].m
      OBVIOUS
    <3> HIDE DEF m
    <3>5. died[m] >= died[m]
      BY <2>3
    <3>6. /\ \A n \in Messages \ {m} : died'[n] = died[n]
          /\ died'[m] \in Nat /\ died'[m] >= died[m]
      BY <2>3, <3>5
    <3>7. w.st \in {"queued", "sending"} => w.attempts < MaxAttempts + died'[m]
      BY <2>3
    <3>8. pass' = [pass EXCEPT ![p] = Done(p)] /\ Done(p) \in {Done(p), Resting}
      BY <2>3
    <3>1. CASE row[m].st = "gone"
      <4>1. row' = [row EXCEPT ![m] = row[m]]
        BY <2>3, <3>1 DEF Written, IInv, TypeOK
      <4>2. row[m].st \notin {"queued", "sending"}
        BY <3>1
      <4> QED BY <2>1, <3>0, <3>6, <3>8, <4>1, <4>2, LetGoCounts
    <3>2. CASE row[m].st # "gone"
      <4>1. row' = [row EXCEPT ![m] = w]
        BY <2>3, <3>2 DEF Written
      <4>2. w.attempts = row[m].attempts
        BY <2>3
      <4> QED BY <2>1, <3>0, <3>6, <3>7, <3>8, <4>1, <4>2, LetGoCounts
    <3> QED BY <3>1, <3>2
  <2>4. CASE MarkSent(p)
    <3> DEFINE w == [row[m] EXCEPT !.st = "sent", !.ext = pass[p].ext]
    <3>1. w.attempts = row[m].attempts /\ w.st = "sent"
      BY <2>1, Numbers DEF Row
    <3>2. \/ pass' = OnClash(p) /\ UNCHANGED <<row, died>>
          \/ pass' = [pass EXCEPT ![p] = Done(p)] /\ row' = Written(m, w) /\ UNCHANGED died
      BY <2>4 DEF MarkSent, SentRow
    <3> HIDE DEF w
    <3> QED BY <2>1, <2>2, <2>3, <3>1, <3>2
  <2>5. CASE MarkWithoutId(p)
    <3> DEFINE w == [row[m] EXCEPT !.st = "sent"]
    <3>1. w.attempts = row[m].attempts /\ w.st = "sent"
      BY <2>1, Numbers DEF Row
    <3>2. pass' = [pass EXCEPT ![p] = Done(p)] /\ row' = Written(m, w) /\ UNCHANGED died
      BY <2>5 DEF MarkWithoutId, SentWithoutId
    <3> HIDE DEF w
    <3> QED BY <2>1, <2>3, <3>1, <3>2
  <2>6. CASE RecordFailure(p)
    <3> DEFINE w == [row[m] EXCEPT !.st = IF pass[p].terminal THEN "failed" ELSE "queued",
                                   !.waits = ~pass[p].terminal]
    <3>1. w.attempts = row[m].attempts /\ w.st = IF pass[p].terminal THEN "failed" ELSE "queued"
      BY <2>1, Numbers DEF Row
    <3>2. pass' = [pass EXCEPT ![p] = Done(p)] /\ row' = Written(m, w) /\ UNCHANGED died
          /\ pass[p].pc = "failed"
      BY <2>6 DEF RecordFailure
    <3> HIDE DEF w
    <3>3. ~pass[p].terminal => row[m].attempts < MaxAttempts + died[m]
      <4>1. row[m].attempts <= pass[p].attempts
        BY <2>1 DEF Counted
      <4>2. ~pass[p].terminal => pass[p].attempts < MaxAttempts
        BY <3>2 DEF Counted
      <4> HIDE DEF m
      <4> QED BY <2>1, <4>1, <4>2, Numbers
    <3> QED BY <2>1, <2>3, <3>1, <3>2, <3>3
  <2> QED BY <1>6, <2>4, <2>5, <2>6
<1> QED BY <1>1, <1>1a, <1>2, <1>3, <1>5, <1>5a, <1>5b, <1>6 DEF Deliver

LEMMA IntendsCounts ==
  ASSUME IInv, Counted, NEW p \in Passes, Tick(p) \/ ListBulk(p) \/ EndPass(p)
  PROVE  Counted'
<1>1. PICK r : pass' = [pass EXCEPT ![p] = r] /\ r.pc \in {"idle", "next"} /\ r.m = NoMessage
  <2>1. CASE Tick(p)
    <3> DEFINE r == [pass[p] EXCEPT !.pc = "next", !.todo = Listed(Messages \ Bulk)]
    <3>1. pass' = [pass EXCEPT ![p] = r] /\ r.pc = "next" /\ r.m = pass[p].m /\ pass[p].pc = "idle"
      BY <2>1, Numbers DEF Tick, Pass
    <3> QED BY <3>1, Numbers
  <2>2. CASE ListBulk(p)
    <3> DEFINE one == Oldest({m \in Bulk : Sendable(m)}) \cap Listed(Bulk)
               r == IF one = {} THEN Resting ELSE [pass[p] EXCEPT !.half = "bulk", !.todo = one]
    <3>1. pass' = [pass EXCEPT ![p] = r] /\ pass[p].pc = "next"
      BY <2>2 DEF ListBulk
    <3>2. r.pc \in {"idle", "next"} /\ r.m \in {NoMessage, pass[p].m}
      <4> HIDE DEF one
      <4> QED BY <3>1, Numbers DEF Resting, Pass
    <3> QED BY <3>1, <3>2, Numbers
  <2>3. CASE EndPass(p)
    <3>1. pass' = [pass EXCEPT ![p] = Resting]
      BY <2>3 DEF EndPass
    <3>2. Resting.pc = "idle" /\ Resting.m = NoMessage
      BY DEF Resting
    <3> QED BY <3>1, <3>2
  <2> QED BY <2>1, <2>2, <2>3
<1>2. UNCHANGED <<row, died>> /\ pass[p].m = NoMessage
  BY Numbers DEF Tick, ListBulk, EndPass
<1> QED BY <1>1, <1>2, PassAlone, Nothing, OutboxAssumption

LEMMA AroundCounts ==
  ASSUME IInv, Counted, NEW m \in Messages, Around(m)
  PROVE  Counted'
<1>0. row[m] \in Row /\ died[m] \in Nat /\ MaxAttempts \in Nat \ {0} /\ row[m].attempts \in Nat
  BY Numbers
<1>1. ASSUME NEW w, row' = [row EXCEPT ![m] = w], pass' = pass, died' = died,
             w.attempts = row[m].attempts, w.st \in {"delivered", "failed", "gone"}
      PROVE  Counted'
  <2>1. w.attempts \in Nat /\ w.attempts <= row[m].attempts /\ w.attempts <= MaxAttempts + died'[m]
    BY <1>0, <1>1 DEF Counted
  <2>2. w.st # "queued" /\ w.st # "sending"
    BY <1>1
  <2> QED BY <1>1, <2>1, <2>2, RowCounts
<1>4. CASE Receipt(m)
  <2> DEFINE w == [row[m] EXCEPT !.st = "delivered"]
  <2>1. row' = [row EXCEPT ![m] = w] /\ pass' = pass /\ died' = died
    BY <1>4 DEF Receipt
  <2>2. w.attempts = row[m].attempts /\ w.st = "delivered"
    BY <1>0 DEF Row
  <2> HIDE DEF w
  <2> QED BY <1>1, <2>1, <2>2
<1>5. CASE RefusedLater(m)
  <2> DEFINE w == [row[m] EXCEPT !.st = "failed"]
  <2>1. row' = [row EXCEPT ![m] = w] /\ pass' = pass /\ died' = died
    BY <1>5 DEF RefusedLater
  <2>2. w.attempts = row[m].attempts /\ w.st = "failed"
    BY <1>0 DEF Row
  <2> HIDE DEF w
  <2> QED BY <1>1, <2>1, <2>2
<1>6. CASE Withdraw(m)
  <2> DEFINE w == [row[m] EXCEPT !.st = "gone", !.ext = NoId, !.waits = FALSE]
  <2>1. row' = [row EXCEPT ![m] = w] /\ pass' = pass /\ died' = died
    BY <1>6 DEF Withdraw
  <2>2. w.attempts = row[m].attempts /\ w.st = "gone"
    BY <1>0 DEF Row
  <2> HIDE DEF w
  <2> QED BY <1>1, <2>1, <2>2
<1>2. CASE Requeue(m)
  <2> DEFINE w == [row[m] EXCEPT !.st = "queued", !.attempts = 0, !.waits = FALSE]
  <2>1. row' = [row EXCEPT ![m] = w] /\ pass' = pass /\ w.attempts = 0 /\ died'[m] = 0
        /\ \A n \in Messages \ {m} : died'[n] = died[n]
    BY <1>0, <1>2 DEF Requeue, Row, IInv, TypeOK
  <2> HIDE DEF w
  <2>2. w.attempts \in Nat /\ w.attempts <= row[m].attempts
        /\ w.attempts <= MaxAttempts + died'[m] /\ w.attempts < MaxAttempts + died'[m]
    BY <1>0, <2>1
  <2> QED BY <2>1, <2>2, RowCounts
<1>3. CASE BackoffEnds(m)
  <2> DEFINE w == [row[m] EXCEPT !.waits = FALSE]
  <2>1. row' = [row EXCEPT ![m] = w] /\ pass' = pass /\ died' = died /\ w.attempts = row[m].attempts
        /\ row[m].st = "queued"
    BY <1>0, <1>3 DEF BackoffEnds, Row, IInv, TypeOK
  <2>2. row[m].attempts < MaxAttempts + died[m]
    BY <2>1 DEF Counted, Loose
  <2> HIDE DEF w
  <2>3. w.attempts \in Nat /\ w.attempts <= row[m].attempts
        /\ w.attempts <= MaxAttempts + died'[m] /\ w.attempts < MaxAttempts + died'[m]
    BY <1>0, <2>1, <2>2
  <2> QED BY <2>1, <2>3, RowCounts
<1> QED BY <1>2, <1>3, <1>4, <1>5, <1>6 DEF Around

LEMMA InboundCounts ==
  ASSUME IInv, Counted, NEW h \in Hooks, Inbound(h)
  PROVE  Counted'
<1>1. CASE Echo(h) \/ Pick(h) \/ Insert(h)
  <2>1. UNCHANGED <<row, pass, died>>
    BY <1>1 DEF Echo, Pick, Insert
  <2> QED BY <2>1 DEF Counted, Loose
<1>2. CASE Adopt(h)
  <2> DEFINE m == hook[h].cand
             w == [row[m] EXCEPT !.ext = hook[h].x]
  <2>1. pass' = pass /\ died' = died /\ (row' = row \/ row' = [row EXCEPT ![m].ext = hook[h].x])
    BY <1>2 DEF Adopt
  <2>2. CASE row' = row
    BY <2>1, <2>2 DEF Counted, Loose
  <2>3. CASE row' = [row EXCEPT ![m].ext = hook[h].x]
    <3>1. m \in Messages /\ hook[h].x # NoId
      BY <1>2 DEF Adopt, IInv, TypeOK, Hook
    <3>2. row' = [row EXCEPT ![m] = w] /\ w.attempts = row[m].attempts /\ w.st = row[m].st
          /\ w.ext = hook[h].x /\ row[m].attempts \in Nat /\ died[m] \in Nat
      BY <2>3, <3>1, Numbers DEF Row
    <3> HIDE DEF w
    <3>3. row[m].st = "queued" => row[m].attempts < MaxAttempts + died[m]
      BY <3>1 DEF Counted, Loose
    <3>4. w.attempts \in Nat /\ w.attempts <= row[m].attempts /\ w.attempts <= MaxAttempts + died'[m]
      BY <2>1, <3>1, <3>2 DEF Counted
    <3>5. w.st = "queued" \/ (w.st = "sending" /\ w.ext = NoId)
            => w.attempts < MaxAttempts + died'[m]
      BY <2>1, <3>1, <3>2, <3>3
    <3> QED BY <2>1, <3>1, <3>2, <3>4, <3>5, RowCounts
  <2> QED BY <2>1, <2>2, <2>3
<1> QED BY <1>1, <1>2 DEF Inbound

LEMMA CrashCounts ==
  ASSUME IInv, Counted, Crash
  PROVE  Counted'
<1>1. row' = row /\ \A p \in Passes : pass'[p] = Resting
  BY DEF Crash
<1>2. \A p \in Passes : pass'[p].m = NoMessage /\ pass'[p].pc = "idle"
  BY <1>1 DEF Resting
<1>3. \A m \in Messages : /\ row'[m].attempts <= MaxAttempts + died'[m]
                          /\ Loose(m)' => row'[m].attempts < MaxAttempts + died'[m]
  <2> TAKE m \in Messages
  <2>1. row[m].attempts \in Nat /\ died[m] \in Nat /\ MaxAttempts \in Nat
        /\ row[m].attempts <= MaxAttempts + died[m]
    BY Numbers DEF Counted
  <2>2. CASE \E p \in Passes : pass[p].m = m
    <3>1. died'[m] = died[m] + 1
      BY <2>2 DEF Crash
    <3> QED BY <1>1, <2>1, <3>1
  <2>3. CASE \A p \in Passes : pass[p].m # m
    <3>1. died'[m] = died[m]
      BY <2>3 DEF Crash
    <3>2. Loose(m)' => Loose(m)
      BY <1>1, <2>3 DEF Loose
    <3> QED BY <1>1, <2>1, <3>1, <3>2 DEF Counted
  <2> QED BY <2>2, <2>3
<1> QED BY <1>2, <1>3, Nothing, OutboxAssumption DEF Counted

LEMMA CountedNext ==
  ASSUME IInv, Counted, [Next]_vars
  PROVE  Counted'
<1>1. CASE UNCHANGED vars
  BY <1>1 DEF vars, Counted, Loose
<1> QED
  BY <1>1, IntendsCounts, DeliverCounts, InboundCounts, AroundCounts, CrashCounts DEF Next

\* However passes, crashes, failing writes and operators interleave, a message is tried
\* MAX_ATTEMPTS times from when it was written or put back, and once more for each claim of
\* it that died since.
THEOREM AttemptsCappedAlways == Spec => []AttemptsCapped
<1>1. Init => IInv /\ Counted
  <2> SUFFICES ASSUME Init PROVE IInv /\ Counted
    OBVIOUS
  <2>1. IInv
    BY InitIInv, OutboxAssumption
  <2>2. \A m \in Messages : row[m].attempts = 0
    BY DEF Init
  <2>3. \A p \in Passes : pass[p].m = NoMessage /\ pass[p].pc = "idle"
    BY DEF Init, Resting
  <2> QED BY <2>1, <2>2, <2>3, Numbers, Nothing, OutboxAssumption DEF Counted
<1>2. IInv /\ Counted /\ [Next]_vars => (IInv /\ Counted)'
  BY NextStep, CountedNext, OutboxAssumption
<1>3. Counted => AttemptsCapped
  BY DEF Counted, AttemptsCapped
<1> QED
  BY <1>1, <1>2, <1>3, PTL DEF Spec

-----------------------------------------------------------------------------
(* What the screen shows.                                                  *)

\* The outcome of every copy of m could be written.
Unlost(m) == \A y \in lost : y[1] # m

\* The answer a pass has is about its own message, and true.
OwnAnswer ==
  \A p \in Passes : pass[p].ext # NoId => pass[p].ext \in Accepted /\ pass[p].ext[1] = pass[p].m

\* Rows and webhook deliveries know ids of copies the server took.
RowIds == \A m \in Messages : row[m].ext # NoId => row[m].ext \in Accepted
HookIds == \A h \in Hooks : hook[h].x # NoId => hook[h].x \in Accepted

\* The row an echo chose says what the echo says.
SameText == \A h \in Hooks : hook[h].pc = "adopt" => body[hook[h].cand] = body[hook[h].x[1]]

\* A receipt finds its row by the id, which stays.
DeliveredHasId == \A m \in Messages : row[m].st = "delivered" => row[m].ext # NoId

\* An echo that is to get a bubble of its own, whose outcome could be written, is known already.
InsertKnows ==
  \A h \in Hooks, m \in Messages :
    hook[h].pc = "insert" /\ hook[h].x[1] = m /\ OwnText(m) /\ row[m].st # "gone" /\ Unlost(m)
      => row[m].ext = hook[h].x

EInv ==
  /\ OwnAnswer /\ RowIds /\ HookIds /\ SameText /\ DeliveredHasId /\ InsertKnows
  /\ ShownIsSent /\ WithdrawnStays /\ OneBubble

\* Of a set of messages there is an oldest.
LEMMA HasOldest ==
  ASSUME NEW S \in SUBSET Nat, S # {}
  PROVE  Oldest(S) # {}
<1>1. IsWellFoundedOn(OpToRel(<,Nat), Nat)
  BY NatLessThanWellFounded
<1>2. PICK m \in S : \A n \in S : ~(<<n, m>> \in OpToRel(<,Nat))
  BY <1>1, WFMin
<1>3. \A n \in S : ~(n < m)
  BY <1>2 DEF OpToRel
<1>4. \A n \in S : m <= n
  BY <1>3
<1> QED BY <1>4 DEF Oldest

\* While the outcome of m could be written, copies of m are one.
LEMMA OneCopy ==
  ASSUME IInv, NEW m \in Messages, Unlost(m), NEW x \in Accepted, NEW y \in Accepted,
         x[1] = m, y[1] = m
  PROVE  x = y
  BY DEF IInv, SentOnce, Unlost

-----------------------------------------------------------------------------
(* What a step may do, to what never goes back, to a row, to a pass and to *)
(* a webhook delivery.                                                     *)

Grows ==
  /\ body' = body /\ lost \subseteq lost'
  /\ \A m \in Messages : sends[m] <= sends'[m]

RowMay(m) ==
  /\ \/ row'[m].ext = row[m].ext
     \/ row'[m].ext = NoId /\ row'[m].st = "gone"
     \/ \E p \in Passes : pass[p].m = m /\ pass[p].ext # NoId /\ row'[m].ext = pass[p].ext
     \/ \E h \in Hooks : /\ hook[h].pc = "adopt" /\ hook[h].cand = m
                         /\ row[m].ext = NoId /\ row'[m].ext = hook[h].x
  /\ row'[m].st = "sent" =>
       row[m].st = "sent" \/ \E p \in Passes : pass[p].m = m /\ pass[p].ext # NoId
  /\ row'[m].st = "delivered" => row[m].st = "delivered" \/ row[m].ext # NoId
  /\ row'[m].st = "gone" => row[m].st \in {"gone", "queued"}
  /\ row[m].st = "gone" => row'[m].st = "gone"

PassMay(p) ==
  /\ pass'[p].ext # NoId =>
       \/ pass'[p].ext = pass[p].ext /\ pass'[p].m = pass[p].m
       \/ pass'[p].ext \in Accepted' /\ pass'[p].ext[1] = pass'[p].m
  /\ pass'[p].pc = "claimed" =>
       \/ pass[p].pc = "claimed" /\ pass'[p].m = pass[p].m
       \/ row'[pass'[p].m].st = "sending"

\* The echo finds no row, or the row it chose has an id or is gone.
NoRow(h) ==
  \/ \A m \in Messages : ~Echoable(m, hook[h].x)
  \/ hook[h].pc = "adopt" /\ (row[hook[h].cand].ext # NoId \/ row[hook[h].cand].st = "gone")

HookMay(h) ==
  /\ hook'[h].x # NoId => hook'[h].x = hook[h].x \/ hook'[h].x \in Accepted
  /\ hook'[h].pc = "adopt" =>
       /\ hook'[h].x = hook[h].x
       /\ \/ hook[h].pc = "adopt" /\ hook'[h].cand = hook[h].cand
          \/ body[hook'[h].cand] = body[hook[h].x[1]]
  /\ hook'[h].pc = "insert" =>
       /\ hook'[h].x = hook[h].x
       /\ hook[h].pc = "insert" \/ (NoRow(h) /\ row' = row)

TwinsMay ==
  \A x \in twins' : x \in twins \/ \E h \in Hooks : /\ hook[h].pc = "insert" /\ hook[h].x = x
                                                    /\ ~Known(x) /\ row' = row

-----------------------------------------------------------------------------
LEMMA GrowsNext ==
  ASSUME IInv, [Next]_vars
  PROVE  Grows
<1> USE OutboxAssumption
<1>1. \A m \in Messages : sends[m] \in Nat
  BY DEF IInv, TypeOK
<1>2. ASSUME UNCHANGED <<body, sends, lost>> PROVE Grows
  BY <1>1, <1>2 DEF Grows
<1>3. ASSUME NEW p \in Passes, Deliver(p) PROVE Grows
  <2>1. CASE \E m \in Messages : Claim(p, m) \/ ClaimBreaks(p, m) \/ ClaimedElsewhere(p, m)
    BY <1>2, <2>1 DEF Claim, ClaimBreaks, ClaimedElsewhere
  <2>2. CASE Answered(p) \/ AnswerLost(p)
    <3>1. pass[p].m \in Messages /\ sends' = [sends EXCEPT ![pass[p].m] = @ + 1]
          /\ body' = body /\ lost \subseteq lost'
      BY <2>2, Holds DEF Answered, AnswerLost, Accepts
    <3> QED BY <1>1, <3>1 DEF Grows, IInv, TypeOK
  <2>3. CASE Refused(p)
    BY <1>2, <2>3 DEF Refused
  <2>4. CASE MarkSent(p) \/ MarkWithoutId(p) \/ RecordFailure(p) \/ RecordBreaks(p)
    BY <1>2, <2>4 DEF MarkSent, MarkWithoutId, RecordFailure, RecordBreaks
  <2>5. CASE MarkBreaks(p)
    BY <1>1, <2>5 DEF MarkBreaks, Grows
  <2> QED BY <1>3, <2>1, <2>2, <2>3, <2>4, <2>5 DEF Deliver
<1>4. ASSUME NEW p \in Passes, Tick(p) \/ ListBulk(p) \/ EndPass(p) PROVE Grows
  BY <1>2, <1>4 DEF Tick, ListBulk, EndPass
<1>5. ASSUME NEW h \in Hooks, Inbound(h) PROVE Grows
  BY <1>2, <1>5 DEF Inbound, Echo, Pick, Adopt, Insert
<1>6. ASSUME NEW m \in Messages, Around(m) PROVE Grows
  BY <1>2, <1>6 DEF Around, Receipt, RefusedLater, Requeue, Withdraw, BackoffEnds
<1>7. CASE Crash
  <2>1. sends' = sends /\ body' = body /\ lost \subseteq lost'
    BY <1>7 DEF Crash
  <2> QED BY <1>1, <2>1 DEF Grows
<1>8. CASE UNCHANGED vars
  BY <1>2, <1>8 DEF vars
<1> QED BY <1>3, <1>4, <1>5, <1>6, <1>7, <1>8 DEF Next

\* What the server took stays taken.
LEMMA AcceptedGrows ==
  ASSUME IInv, IInv', Grows
  PROVE  Accepted \subseteq Accepted'
<1> SUFFICES ASSUME NEW x \in Accepted PROVE x \in Accepted'
  OBVIOUS
<1>1. x \in Ids /\ x[1] \in Messages /\ x[2] \in Int /\ x[2] <= sends[x[1]]
  BY OutboxAssumption DEF Accepted, Ids, OutboxAssumption
<1>2. sends \in [Messages -> 0..MaxSends] /\ sends' \in [Messages -> 0..MaxSends]
      /\ sends[x[1]] <= sends'[x[1]]
  BY <1>1 DEF Grows, IInv, TypeOK
<1>3. x[2] <= sends'[x[1]]
  BY <1>1, <1>2
<1> QED BY <1>1, <1>3 DEF Accepted

LEMMA RowStays ==
  ASSUME row' = row, NEW m \in Messages
  PROVE  RowMay(m)
  BY DEF RowMay

\* One row changes, in a way it may.
LEMMA RowTurns ==
  ASSUME IInv, NEW n \in Messages, NEW w, row' = [row EXCEPT ![n] = w], NEW m \in Messages,
         row'[n] = w => RowMay(n)
  PROVE  RowMay(m)
<1>1. row'[n] = w /\ \A k \in Messages \ {n} : row'[k] = row[k]
  BY DEF IInv, TypeOK
<1>2. CASE m = n
  BY <1>1, <1>2
<1>3. CASE m # n
  BY <1>1, <1>3 DEF RowMay
<1> QED BY <1>2, <1>3

LEMMA OutcomeMays ==
  ASSUME IInv, NEW p \in Passes, NEW m \in Messages,
         MarkSent(p) \/ MarkWithoutId(p) \/ MarkBreaks(p) \/ RecordFailure(p)
  PROVE  RowMay(m)
<1> USE OutboxAssumption
<1> DEFINE n == pass[p].m
<1>1. n \in Messages /\ row[n] \in Row
  BY Holds DEF MarkSent, MarkWithoutId, MarkBreaks, RecordFailure, IInv, TypeOK
<1>2. CASE row[n].st = "gone"
  <2>1. row' = row
    BY <1>2 DEF MarkSent, MarkWithoutId, MarkBreaks, RecordFailure, Written
  <2> QED BY <2>1, RowStays
<1>3. CASE row[n].st # "gone" /\ (MarkSent(p) \/ (MarkBreaks(p) /\ pass[p].pc = "answered"))
  <2> DEFINE w == [row[n] EXCEPT !.st = "sent", !.ext = pass[p].ext]
  <2>1. row' = row \/ row' = [row EXCEPT ![n] = w]
    BY <1>3 DEF MarkSent, MarkBreaks, SentRow, Written
  <2>2. w.st = "sent" /\ w.ext = pass[p].ext /\ pass[p].ext # NoId
    BY <1>1, <1>3 DEF Row, MarkSent, MarkBreaks, IInv, TypeOK
  <2> HIDE DEF w
  <2>3. row'[n] = w => RowMay(n)
    BY <1>3, <2>2 DEF RowMay
  <2> HIDE DEF n
  <2> QED BY <1>1, <2>1, <2>3, RowStays, RowTurns
<1>4. CASE row[n].st # "gone" /\ (MarkWithoutId(p) \/ (MarkBreaks(p) /\ pass[p].pc = "clash"))
  <2> DEFINE w == [row[n] EXCEPT !.st = "sent"]
  <2>1. row' = row \/ row' = [row EXCEPT ![n] = w]
    BY <1>4 DEF MarkWithoutId, MarkBreaks, SentWithoutId, Written
  <2>2. w.st = "sent" /\ w.ext = row[n].ext /\ pass[p].ext # NoId
    BY <1>1, <1>4 DEF Row, MarkWithoutId, MarkBreaks, IInv, TypeOK
  <2> HIDE DEF w
  <2>3. row'[n] = w => RowMay(n)
    BY <1>4, <2>2 DEF RowMay
  <2> HIDE DEF n
  <2> QED BY <1>1, <2>1, <2>3, RowStays, RowTurns
<1>5. CASE row[n].st # "gone" /\ RecordFailure(p)
  <2> DEFINE s == IF pass[p].terminal THEN "failed" ELSE "queued"
             w == [row[n] EXCEPT !.st = s, !.waits = ~pass[p].terminal]
  <2>1. row' = [row EXCEPT ![n] = w]
    BY <1>5 DEF RecordFailure, Written
  <2>2. w.st \in {"failed", "queued"} /\ w.ext = row[n].ext
    BY <1>1 DEF Row
  <2> HIDE DEF w
  <2>3. row'[n] = w => RowMay(n)
    BY <1>5, <2>2 DEF RowMay
  <2> HIDE DEF n
  <2> QED BY <1>1, <2>1, <2>3, RowTurns
<1> QED BY <1>2, <1>3, <1>4, <1>5 DEF MarkBreaks

LEMMA AroundMays ==
  ASSUME IInv, NEW n \in Messages, Around(n), NEW m \in Messages
  PROVE  RowMay(m)
<1>1. row[n] \in Row
  BY DEF IInv, TypeOK
<1>2. ASSUME NEW w, row' = [row EXCEPT ![n] = w],
             \/ /\ w.ext = row[n].ext /\ w.st \notin {"sent", "gone"} /\ row[n].st # "gone"
                /\ w.st = "delivered" => row[n].ext # NoId
             \/ w.ext = NoId /\ w.st = "gone" /\ row[n].st = "queued"
      PROVE  RowMay(m)
  <2>1. row'[n] = w => RowMay(n)
    BY <1>2 DEF RowMay
  <2> QED BY <1>2, <2>1, RowTurns
<1>3. CASE Receipt(n)
  <2> DEFINE w == [row[n] EXCEPT !.st = "delivered"]
  <2>1. row' = [row EXCEPT ![n] = w] /\ row[n].ext # NoId /\ row[n].st # "gone"
    BY <1>3 DEF Receipt
  <2>2. w.ext = row[n].ext /\ w.st = "delivered"
    BY <1>1 DEF Row
  <2> HIDE DEF w
  <2> QED BY <1>2, <2>1, <2>2
<1>4. CASE RefusedLater(n)
  <2> DEFINE w == [row[n] EXCEPT !.st = "failed"]
  <2>1. row' = [row EXCEPT ![n] = w] /\ row[n].st # "gone"
    BY <1>4 DEF RefusedLater
  <2>2. w.ext = row[n].ext /\ w.st = "failed"
    BY <1>1 DEF Row
  <2> HIDE DEF w
  <2> QED BY <1>2, <2>1, <2>2
<1>5. CASE Requeue(n)
  <2> DEFINE w == [row[n] EXCEPT !.st = "queued", !.attempts = 0, !.waits = FALSE]
  <2>1. row' = [row EXCEPT ![n] = w] /\ row[n].st # "gone"
    BY <1>5 DEF Requeue, Requeueable
  <2>2. w.ext = row[n].ext /\ w.st = "queued"
    BY <1>1 DEF Row
  <2> HIDE DEF w
  <2> QED BY <1>2, <2>1, <2>2
<1>6. CASE Withdraw(n)
  <2> DEFINE w == [row[n] EXCEPT !.st = "gone", !.ext = NoId, !.waits = FALSE]
  <2>1. row' = [row EXCEPT ![n] = w] /\ row[n].st = "queued"
    BY <1>6 DEF Withdraw, Withdrawable
  <2>2. w.ext = NoId /\ w.st = "gone"
    BY <1>1 DEF Row
  <2> HIDE DEF w
  <2> QED BY <1>2, <2>1, <2>2
<1>7. CASE BackoffEnds(n)
  <2> DEFINE w == [row[n] EXCEPT !.waits = FALSE]
  <2>1. row' = [row EXCEPT ![n] = w] /\ row[n].st = "queued"
    BY <1>7 DEF BackoffEnds, IInv, TypeOK
  <2>2. w.ext = row[n].ext /\ w.st = row[n].st
    BY <1>1 DEF Row
  <2> HIDE DEF w
  <2> QED BY <1>2, <2>1, <2>2
<1> QED BY <1>3, <1>4, <1>5, <1>6, <1>7 DEF Around

LEMMA RowMays ==
  ASSUME IInv, [Next]_vars, NEW m \in Messages
  PROVE  RowMay(m)
<1> USE OutboxAssumption
<1>1. ASSUME NEW p \in Passes, NEW n \in Messages, Claim(p, n) \/ ClaimBreaks(p, n)
      PROVE  RowMay(m)
  <2> DEFINE w == [row[n] EXCEPT !.st = "sending", !.attempts = @ + 1]
  <2>1. row' = [row EXCEPT ![n] = w] /\ row[n].st \in {"queued", "sending"}
    BY <1>1 DEF Claim, ClaimBreaks, Sendable, Stale
  <2>2. w.st = "sending" /\ w.ext = row[n].ext
    BY DEF Row, IInv, TypeOK
  <2> HIDE DEF w
  <2>3. row'[n] = w => RowMay(n)
    BY <2>1, <2>2 DEF RowMay
  <2> QED BY <2>1, <2>3, RowTurns
<1>2. ASSUME NEW h \in Hooks, Adopt(h) PROVE RowMay(m)
  <2> DEFINE n == hook[h].cand
             w == [row[n] EXCEPT !.ext = hook[h].x]
  <2>1. hook[h].pc = "adopt" /\ n \in Messages /\ row[n] \in Row
    BY <1>2 DEF Adopt, IInv, TypeOK, Hook
  <2>2. row' = row \/ (row' = [row EXCEPT ![n] = w] /\ row[n].ext = NoId /\ row[n].st # "gone")
    BY <1>2 DEF Adopt
  <2>3. w.st = row[n].st /\ w.ext = hook[h].x
    BY <2>1 DEF Row
  <2> HIDE DEF w
  <2>4. row'[n] = w /\ row[n].ext = NoId /\ row[n].st # "gone" => RowMay(n)
    BY <2>1, <2>3 DEF RowMay
  <2> HIDE DEF n
  <2> QED BY <2>1, <2>2, <2>4, RowStays, RowTurns
<1>3. ASSUME NEW p \in Passes, Tick(p) \/ ListBulk(p) \/ EndPass(p) PROVE RowMay(m)
  BY <1>3, RowStays DEF Tick, ListBulk, EndPass
<1>4. ASSUME NEW p \in Passes, Deliver(p) PROVE RowMay(m)
  <2>1. CASE \E n \in Messages : ClaimedElsewhere(p, n)
    BY <2>1, RowStays DEF ClaimedElsewhere
  <2>2. CASE Answered(p) \/ AnswerLost(p) \/ Refused(p) \/ RecordBreaks(p)
    BY <2>2, RowStays DEF Answered, AnswerLost, Refused, RecordBreaks
  <2> QED BY <1>1, <1>4, <2>1, <2>2, OutcomeMays DEF Deliver
<1>5. ASSUME NEW h \in Hooks, Inbound(h) PROVE RowMay(m)
  <2>1. CASE Echo(h) \/ Pick(h) \/ Insert(h)
    BY <2>1, RowStays DEF Echo, Pick, Insert
  <2> QED BY <1>2, <1>5, <2>1 DEF Inbound
<1>6. CASE Crash \/ UNCHANGED vars
  BY <1>6, RowStays DEF Crash, vars
<1> QED BY <1>3, <1>4, <1>5, <1>6, AroundMays DEF Next

LEMMA PassMays ==
  ASSUME IInv, [Next]_vars, IInv', NEW p \in Passes
  PROVE  PassMay(p)
<1> USE OutboxAssumption
<1>1. ASSUME pass'[p] = pass[p] PROVE PassMay(p)
  BY <1>1 DEF PassMay
<1>2. ASSUME pass'[p].ext = NoId, pass'[p].pc # "claimed" PROVE PassMay(p)
  BY <1>2 DEF PassMay
<1>3. ASSUME NEW q \in Passes, NEW r, pass' = [pass EXCEPT ![q] = r], q # p PROVE PassMay(p)
  <2>1. pass'[p] = pass[p]
    BY <1>3 DEF IInv, TypeOK
  <2> QED BY <1>1, <2>1
<1>4. ASSUME NEW r, pass' = [pass EXCEPT ![p] = r], r.ext = NoId, r.pc # "claimed"
      PROVE  PassMay(p)
  <2>1. pass'[p] = r
    BY <1>4 DEF IInv, TypeOK
  <2> QED BY <1>2, <1>4, <2>1
<1>5. pass[p] \in Pass
  BY DEF IInv, TypeOK
<1>6. Resting.ext = NoId /\ Resting.pc = "idle"
  BY DEF Resting
<1>7. CASE \E q \in Passes : Tick(q) \/ ListBulk(q) \/ EndPass(q) \/ Deliver(q)
  <2>1. PICK q \in Passes : Tick(q) \/ ListBulk(q) \/ EndPass(q) \/ Deliver(q)
    BY <1>7
  <2>2. \E r : pass' = [pass EXCEPT ![q] = r]
    BY <2>1 DEF Tick, ListBulk, EndPass, Deliver, Claim, ClaimBreaks, ClaimedElsewhere, Answered,
                AnswerLost, Refused, MarkSent, MarkWithoutId, MarkBreaks, RecordFailure,
                RecordBreaks, Failed, OnClash
  <2>3. CASE q # p
    BY <1>3, <2>2, <2>3
  <2>4. CASE q = p
    <3>1. CASE pass'[p].pc \in {"idle", "next", "failed"}
      BY <1>2, <3>1 DEF IInv, TypeOK
    <3>2. CASE \E m \in Messages : Claim(p, m)
      BY <3>2 DEF PassMay, Claim, IInv, TypeOK
    <3>3. CASE Answered(p)
      <4> DEFINE m == pass[p].m
      <4>1. m \in Messages /\ sends[m] < MaxSends /\ sends' = [sends EXCEPT ![m] = @ + 1]
        BY <3>3, Holds DEF Answered, Accepts
      <4>2. NextId(m) \in Accepted' /\ NextId(m)[1] = m
        <5>1. NextId(m) \in Ids /\ NextId(m)[1] = m
          BY <4>1, NextIdType DEF IInv
        <5>2. sends'[m] = sends[m] + 1 /\ sends[m] \in Nat
          <6>1. sends \in [Messages -> 0..MaxSends]
            BY DEF IInv, TypeOK
          <6> HIDE DEF m
          <6> QED BY <4>1, <6>1
        <5>3. NextId(m)[2] = sends[m] + 1
          BY DEF NextId
        <5>4. NextId(m)[2] <= sends'[NextId(m)[1]]
          BY <5>1, <5>2, <5>3
        <5> QED BY <5>1, <5>4 DEF Accepted
      <4>3. pass'[p].ext = NextId(m) /\ pass'[p].pc = "answered" /\ pass'[p].m = m
        BY <3>3, <1>5 DEF Answered, Pass, IInv, TypeOK
      <4> QED BY <4>2, <4>3 DEF PassMay
    <3>4. CASE pass' = OnClash(p)
      <4>1. pass'[p].ext = pass[p].ext /\ pass'[p].m = pass[p].m /\ pass'[p].pc = "clash"
        BY <3>4, <1>5 DEF OnClash, Pass, IInv, TypeOK
      <4> QED BY <4>1 DEF PassMay
    <3>5. CASE \E m \in Messages : ClaimedElsewhere(p, m)
      <4>1. pass'[p].pc = "next"
        BY <3>5 DEF ClaimedElsewhere, IInv, TypeOK, Pass
      <4> QED BY <3>1, <4>1
    <3>6. CASE Tick(p) \/ ListBulk(p) \/ EndPass(p)
      <4>1. pass'[p].pc \in {"idle", "next"}
        <5>1. CASE Tick(p)
          BY <5>1, <1>5 DEF Tick, IInv, TypeOK, Pass
        <5>2. CASE ListBulk(p)
          <6> DEFINE one == Oldest({m \in Bulk : Sendable(m)}) \cap Listed(Bulk)
          <6>1. pass'[p] = IF one = {} THEN Resting
                           ELSE [pass[p] EXCEPT !.half = "bulk", !.todo = one]
            BY <5>2 DEF ListBulk, IInv, TypeOK
          <6> HIDE DEF one
          <6>2. pass[p].pc = "next"
            BY <5>2 DEF ListBulk
          <6> QED BY <1>5, <1>6, <6>1, <6>2 DEF Pass
        <5>3. CASE EndPass(p)
          BY <5>3, <1>6 DEF EndPass, IInv, TypeOK
        <5> QED BY <3>6, <5>1, <5>2, <5>3
      <4> QED BY <3>1, <4>1
    <3>7. CASE AnswerLost(p) \/ Refused(p) \/ MarkBreaks(p)
      <4>1. pass'[p].pc = "failed"
        BY <3>7 DEF AnswerLost, Refused, MarkBreaks, Failed, IInv, TypeOK, Pass
      <4> QED BY <3>1, <4>1
    <3>9. CASE RecordBreaks(p) \/ \E m \in Messages : ClaimBreaks(p, m)
      <4>1. pass'[p].pc = "idle"
        BY <3>9, <1>6 DEF RecordBreaks, ClaimBreaks, IInv, TypeOK
      <4> QED BY <3>1, <4>1
    <3>8. CASE pass' = [pass EXCEPT ![p] = Done(p)]
      <4>1. Done(p).pc \in {"idle", "next"}
        BY DoneFits, TypeParts DEF IInv
      <4>2. pass'[p].pc \in {"idle", "next"}
        BY <3>8, <4>1 DEF IInv, TypeOK
      <4> QED BY <3>1, <4>2
    <3> QED BY <2>1, <2>4, <3>2, <3>3, <3>4, <3>5, <3>6, <3>7, <3>8, <3>9
            DEF Deliver, MarkSent, MarkWithoutId, RecordFailure
  <2> QED BY <2>3, <2>4
<1>8. CASE \E h \in Hooks : Inbound(h)
  BY <1>1, <1>8 DEF Inbound, Echo, Pick, Adopt, Insert
<1>9. CASE \E m \in Messages : Around(m)
  BY <1>1, <1>9 DEF Around, Receipt, RefusedLater, Requeue, Withdraw, BackoffEnds
<1>10. CASE Crash
  BY <1>2, <1>6, <1>10 DEF Crash
<1>11. CASE UNCHANGED vars
  BY <1>1, <1>11 DEF vars
<1> QED BY <1>7, <1>8, <1>9, <1>10, <1>11 DEF Next
\* A pass leaves the webhook's deliveries alone, and the rows they inserted.
LEMMA PassesLeave ==
  ASSUME NEW p \in Passes, Tick(p) \/ ListBulk(p) \/ EndPass(p) \/ Deliver(p)
  PROVE  hook' = hook /\ twins' = twins
<1>1. CASE Tick(p) \/ ListBulk(p) \/ EndPass(p)
  BY <1>1 DEF Tick, ListBulk, EndPass
<1>2. CASE \E m \in Messages : Claim(p, m) \/ ClaimBreaks(p, m) \/ ClaimedElsewhere(p, m)
  BY <1>2 DEF Claim, ClaimBreaks, ClaimedElsewhere
<1>3. CASE Answered(p) \/ AnswerLost(p) \/ Refused(p)
  BY <1>3 DEF Answered, AnswerLost, Refused
<1>4. CASE MarkSent(p) \/ MarkWithoutId(p)
  BY <1>4 DEF MarkSent, MarkWithoutId
<1>5. CASE MarkBreaks(p)
  BY <1>5 DEF MarkBreaks
<1>6. CASE RecordFailure(p) \/ RecordBreaks(p)
  BY <1>6 DEF RecordFailure, RecordBreaks
<1> QED BY <1>1, <1>2, <1>3, <1>4, <1>5, <1>6 DEF Deliver

LEMMA HookMays ==
  ASSUME IInv, [Next]_vars, IInv', NEW h \in Hooks
  PROVE  HookMay(h)
<1> USE OutboxAssumption
<1>1. ASSUME hook'[h] = hook[h] PROVE HookMay(h)
  BY <1>1 DEF HookMay
<1>2. ASSUME hook'[h].x = NoId PROVE HookMay(h)
  BY <1>2 DEF HookMay, IInv, TypeOK
<1>3. hook[h] \in Hook
  BY DEF IInv, TypeOK
<1>4. CASE \E g \in Hooks : Inbound(g)
  <2>1. PICK g \in Hooks : Inbound(g)
    BY <1>4
  <2>2. CASE g # h
    <3>1. hook'[h] = hook[h]
      BY <2>1, <2>2 DEF Inbound, Echo, Pick, Adopt, Insert, IInv, TypeOK
    <3> QED BY <1>1, <3>1
  <2>3. CASE Echo(h)
    <3>1. PICK m \in Messages :
            \E k \in 1..sends[m] : hook' = [hook EXCEPT ![h].pc = "pick", ![h].x = <<m, k>>]
      BY <2>3 DEF Echo
    <3>2. PICK k \in 1..sends[m] : hook' = [hook EXCEPT ![h].pc = "pick", ![h].x = <<m, k>>]
      BY <3>1
    <3>3. sends[m] \in 0..MaxSends /\ k \in 1..MaxSends /\ k <= sends[m]
      BY <3>2 DEF IInv, TypeOK, OutboxAssumption
    <3>4. <<m, k>> \in Accepted
      BY <3>3 DEF Accepted, Ids
    <3>5. hook'[h].x = <<m, k>> /\ hook'[h].pc = "pick"
      BY <1>3, <3>2 DEF Hook, IInv, TypeOK
    <3> QED BY <3>4, <3>5 DEF HookMay
  <2>4. CASE Pick(h)
    <3> DEFINE found == {m \in Messages : Echoable(m, hook[h].x)}
    <3>1. row' = row /\ hook[h].pc = "pick"
      BY <2>4 DEF Pick
    <3>2. CASE Oldest(found) = {} /\ hook' = [hook EXCEPT ![h].pc = "insert"]
      <4>1. hook'[h].x = hook[h].x /\ hook'[h].pc = "insert"
        BY <1>3, <3>2 DEF Hook, IInv, TypeOK
      <4>2. found \in SUBSET Nat
        BY DEF OutboxAssumption
      <4>3. found = {}
        BY <3>2, <4>2, HasOldest
      <4>4. NoRow(h)
        BY <4>3 DEF NoRow
      <4> QED BY <3>1, <4>1, <4>4 DEF HookMay
    <3>3. CASE \E m \in Oldest(found) : hook' = [hook EXCEPT ![h].pc = "adopt", ![h].cand = m]
      <4>1. PICK m \in Oldest(found) : hook' = [hook EXCEPT ![h].pc = "adopt", ![h].cand = m]
        BY <3>3
      <4>2. body[m] = body[hook[h].x[1]]
        BY <4>1 DEF Oldest, Echoable
      <4>3. hook'[h].x = hook[h].x /\ hook'[h].pc = "adopt" /\ hook'[h].cand = m
        BY <1>3, <4>1 DEF Hook, IInv, TypeOK
      <4> QED BY <4>2, <4>3 DEF HookMay
    <3> QED BY <2>4, <3>2, <3>3 DEF Pick
  <2>5. CASE Adopt(h)
    <3>1. CASE hook' = [hook EXCEPT ![h].pc = "insert", ![h].cand = NoMessage]
      <4>1. hook'[h].x = hook[h].x /\ hook'[h].pc = "insert"
        BY <1>3, <3>1 DEF Hook, IInv, TypeOK
      <4>2. CASE row[hook[h].cand].ext # NoId \/ row[hook[h].cand].st = "gone"
        BY <2>5, <4>1, <4>2 DEF HookMay, NoRow, Adopt
      <4>3. CASE ~(row[hook[h].cand].ext # NoId \/ row[hook[h].cand].st = "gone")
        <5>1. hook' = [hook EXCEPT ![h] = Listening]
          BY <2>5, <4>3 DEF Adopt
        <5> QED BY <4>1, <5>1 DEF Listening, IInv, TypeOK
      <4> QED BY <4>2, <4>3
    <3>2. CASE hook' = [hook EXCEPT ![h] = Listening]
      BY <1>2, <3>2 DEF Listening, IInv, TypeOK
    <3> QED BY <2>5, <3>1, <3>2 DEF Adopt
  <2>6. CASE Insert(h)
    BY <1>2, <2>6 DEF Insert, Listening, IInv, TypeOK
  <2> QED BY <2>1, <2>2, <2>3, <2>4, <2>5, <2>6 DEF Inbound
<1>5. CASE \E p \in Passes : Tick(p) \/ ListBulk(p) \/ EndPass(p) \/ Deliver(p)
  <2>1. hook' = hook
    BY <1>5, PassesLeave
  <2> QED BY <1>1, <2>1
<1>6. CASE \E m \in Messages : Around(m)
  BY <1>1, <1>6 DEF Around, Receipt, RefusedLater, Requeue, Withdraw, BackoffEnds
<1>7. CASE Crash
  BY <1>2, <1>7 DEF Crash, Listening
<1>8. CASE UNCHANGED vars
  BY <1>1, <1>8 DEF vars
<1> QED BY <1>4, <1>5, <1>6, <1>7, <1>8 DEF Next

LEMMA TwinsMays ==
  ASSUME IInv, [Next]_vars
  PROVE  TwinsMay
<1>1. CASE \E h \in Hooks : Insert(h)
  BY <1>1 DEF Insert, Inserted, TwinsMay
<1>2. CASE twins' = twins
  BY <1>2 DEF TwinsMay
<1>3. CASE \E h \in Hooks : Echo(h) \/ Pick(h) \/ Adopt(h)
  BY <1>2, <1>3 DEF Echo, Pick, Adopt
<1>4. CASE \E p \in Passes : Tick(p) \/ ListBulk(p) \/ EndPass(p) \/ Deliver(p)
  BY <1>2, <1>4, PassesLeave
<1>5. CASE \E m \in Messages : Around(m)
  BY <1>2, <1>5 DEF Around, Receipt, RefusedLater, Requeue, Withdraw, BackoffEnds
<1>6. CASE Crash \/ UNCHANGED vars
  BY <1>2, <1>6 DEF Crash, vars
<1> QED BY <1>1, <1>3, <1>4, <1>5, <1>6 DEF Next, Inbound

-----------------------------------------------------------------------------
(* The invariant, conjunct by conjunct.                                    *)

LEMMA InitEInv ==
  ASSUME Init
  PROVE  EInv
<1>1. \A p \in Passes : pass[p].ext = NoId /\ pass[p].pc = "idle"
  BY DEF Init, Resting
<1>2. \A m \in Messages : row[m].ext = NoId /\ row[m].st = "queued"
  BY DEF Init
<1>3. \A h \in Hooks : hook[h].x = NoId /\ hook[h].pc = "idle"
  BY DEF Init, Listening
<1>4. twins = {}
  BY DEF Init
<1> QED BY <1>1, <1>2, <1>3, <1>4 DEF EInv, OwnAnswer, RowIds, HookIds, SameText, DeliveredHasId,
           InsertKnows, ShownIsSent, WithdrawnStays, OneBubble

\* A copy the server took is of a message, sent at least once.
LEMMA AcceptedIs ==
  ASSUME IInv, NEW x \in Accepted
  PROVE  x \in Ids /\ x[1] \in Messages /\ sends[x[1]] > 0 /\ x # NoId
<1>1. x \in Ids /\ x[1] \in Messages /\ x[2] \in 1..MaxSends /\ x[2] <= sends[x[1]]
  BY DEF Accepted, Ids
<1>2. sends[x[1]] \in 0..MaxSends
  BY <1>1 DEF IInv, TypeOK
<1> QED BY <1>1, <1>2, Nothing, OutboxAssumption DEF OutboxAssumption

\* An answer, and an echo that chose its row, are of the row they are about.
LEMMA OfTheRow ==
  ASSUME IInv, EInv, NEW m \in Messages, OwnText(m)
  PROVE  /\ \A p \in Passes : pass[p].m = m /\ pass[p].ext # NoId =>
              pass[p].ext \in Accepted /\ pass[p].ext[1] = m
         /\ \A h \in Hooks : hook[h].pc = "adopt" /\ hook[h].cand = m =>
              hook[h].x \in Accepted /\ hook[h].x[1] = m
         /\ row[m].ext # NoId => row[m].ext \in Accepted /\ row[m].ext[1] = m
<1>1. \A p \in Passes : pass[p].m = m /\ pass[p].ext # NoId =>
              pass[p].ext \in Accepted /\ pass[p].ext[1] = m
  BY DEF EInv, OwnAnswer
<1>2. ASSUME NEW h \in Hooks, hook[h].pc = "adopt", hook[h].cand = m
      PROVE  hook[h].x \in Accepted /\ hook[h].x[1] = m
  <2>1. hook[h].x \in Accepted
    BY <1>2 DEF EInv, HookIds, IInv, TypeOK
  <2>2. hook[h].x[1] \in Messages
    BY <2>1, AcceptedIs
  <2>3. body[hook[h].x[1]] = body[m]
    BY <1>2 DEF EInv, SameText
  <2> QED BY <2>1, <2>2, <2>3 DEF OwnText
<1>3. row[m].ext # NoId => row[m].ext \in Accepted /\ row[m].ext[1] = m
  BY DEF EInv, RowIds, ShownIsSent
<1> QED BY <1>1, <1>2, <1>3

\* An echo that finds no row, when the outcome could be written: the row has the id.
LEMMA NoRowKnows ==
  ASSUME IInv, EInv, NEW h \in Hooks, NoRow(h), NEW m \in Messages, hook[h].x \in Accepted,
         hook[h].x[1] = m, OwnText(m), row[m].st # "gone", Unlost(m)
  PROVE  row[m].ext = hook[h].x
<1>1. row[m].ext # NoId
  <2>1. CASE hook[h].pc = "adopt" /\ (row[hook[h].cand].ext # NoId \/ row[hook[h].cand].st = "gone")
    <3>1. hook[h].cand \in Messages
      BY <2>1 DEF IInv, TypeOK, Hook
    <3>2. body[hook[h].cand] = body[m]
      BY <2>1 DEF EInv, SameText
    <3>3. hook[h].cand = m
      BY <3>1, <3>2 DEF OwnText
    <3> QED BY <2>1, <3>3
  <2>2. CASE ~Echoable(m, hook[h].x)
    <3> SUFFICES ASSUME row[m].ext = NoId PROVE FALSE
      OBVIOUS
    <3>1. row[m].st \notin {"sending", "sent"}
      BY <2>2 DEF Echoable
    <3>2. row[m].st # "delivered"
      BY DEF EInv, DeliveredHasId
    <3>3. ~Settled(m)
      BY <3>1, <3>2 DEF Settled
    <3>4. hook[h].x \in Live(m)
      BY DEF Live, Unlost
    <3>5. PICK p \in Passes : pass[p].m = m
      BY <3>3, <3>4 DEF IInv, Accounted
    <3> QED BY <3>1, <3>5 DEF IInv, HolderRow
  <2> QED BY <2>1, <2>2 DEF NoRow
<1> QED BY <1>1, OfTheRow, OneCopy

LEMMA NextEInv ==
  ASSUME IInv, EInv, [Next]_vars, IInv'
  PROVE  EInv'
<1> USE OutboxAssumption
<1>1. Grows /\ Accepted \subseteq Accepted' /\ TwinsMay
  BY GrowsNext, AcceptedGrows, TwinsMays
<1>2. /\ \A m \in Messages : RowMay(m)
      /\ \A p \in Passes : PassMay(p)
      /\ \A h \in Hooks : HookMay(h)
  BY RowMays, PassMays, HookMays
<1>3. \A m \in Messages : OwnText(m)' <=> OwnText(m)
  BY <1>1 DEF OwnText, Grows
<1>4. \A m \in Messages : Unlost(m)' => Unlost(m)
  BY <1>1 DEF Unlost, Grows
<1>5. \A m \in Messages : row'[m].st # "gone" => row[m].st # "gone"
  BY <1>2 DEF RowMay
<1>6. OwnAnswer'
  <2> SUFFICES ASSUME NEW p \in Passes, pass'[p].ext # NoId
               PROVE  pass'[p].ext \in Accepted' /\ pass'[p].ext[1] = pass'[p].m
    BY DEF OwnAnswer
  <2>1. CASE pass'[p].ext = pass[p].ext /\ pass'[p].m = pass[p].m
    BY <1>1, <2>1 DEF EInv, OwnAnswer
  <2> QED BY <1>2, <2>1 DEF PassMay
<1>7. HookIds'
  BY <1>1, <1>2 DEF HookIds, HookMay, EInv
<1>8. SameText'
  <2> SUFFICES ASSUME NEW h \in Hooks, hook'[h].pc = "adopt"
               PROVE  body[hook'[h].cand] = body[hook'[h].x[1]]
    BY <1>1 DEF SameText, Grows
  <2> QED BY <1>2 DEF HookMay, EInv, SameText
<1>9. \A p \in Passes : pass[p].ext # NoId => pass[p].ext \in Accepted
  BY DEF EInv, OwnAnswer
<1>10. \A h \in Hooks : hook[h].pc = "adopt" => hook[h].x \in Accepted /\ hook[h].x # NoId
  BY DEF EInv, HookIds, IInv, TypeOK
<1>11. RowIds'
  <2> SUFFICES ASSUME NEW m \in Messages, row'[m].ext # NoId PROVE row'[m].ext \in Accepted
    BY <1>1 DEF RowIds
  <2>1. RowMay(m)
    BY <1>2
  <2>2. CASE row'[m].ext = row[m].ext
    BY <2>2 DEF EInv, RowIds
  <2> QED BY <1>9, <1>10, <2>1, <2>2 DEF RowMay
<1>12. DeliveredHasId'
  <2> SUFFICES ASSUME NEW m \in Messages, row'[m].st = "delivered" PROVE row'[m].ext # NoId
    BY DEF DeliveredHasId
  <2>1. RowMay(m)
    BY <1>2
  <2>2. row[m].ext # NoId
    BY <2>1 DEF RowMay, EInv, DeliveredHasId
  <2> QED BY <1>10, <2>1, <2>2 DEF RowMay
<1>13. ShownIsSent'
  <2> SUFFICES ASSUME NEW m \in Messages, OwnText(m)
               PROVE  /\ row'[m].st \in {"sent", "delivered"} => sends'[m] > 0
                      /\ row'[m].ext # NoId => row'[m].ext[1] = m
    BY <1>3 DEF ShownIsSent
  <2>1. RowMay(m)
    BY <1>2
  <2>2. /\ \A p \in Passes : pass[p].m = m /\ pass[p].ext # NoId =>
              pass[p].ext \in Accepted /\ pass[p].ext[1] = m
        /\ \A h \in Hooks : hook[h].pc = "adopt" /\ hook[h].cand = m => hook[h].x[1] = m
        /\ row[m].ext # NoId => row[m].ext \in Accepted /\ row[m].ext[1] = m
    BY OfTheRow
  <2>3. row'[m].ext # NoId => row'[m].ext[1] = m
    BY <2>1, <2>2 DEF RowMay
  <2>4. row'[m].st \in {"sent", "delivered"} => sends[m] > 0
    <3>1. \A x \in Accepted : x[1] = m => sends[m] > 0
      BY AcceptedIs
    <3>2. row[m].st \in {"sent", "delivered"} => sends[m] > 0
      BY DEF EInv, ShownIsSent
    <3>3. CASE row'[m].st = "sent"
      BY <2>1, <2>2, <3>1, <3>2, <3>3 DEF RowMay
    <3>4. CASE row'[m].st = "delivered"
      BY <2>1, <2>2, <3>1, <3>2, <3>4 DEF RowMay
    <3> QED BY <3>3, <3>4
  <2>5. sends[m] \in Int /\ sends'[m] \in Int /\ sends[m] <= sends'[m]
    <3>1. sends \in [Messages -> 0..MaxSends] /\ sends' \in [Messages -> 0..MaxSends]
      BY DEF IInv, TypeOK
    <3> QED BY <1>1, <3>1 DEF Grows
  <2> QED BY <2>3, <2>4, <2>5
<1>14. WithdrawnStays'
  <2> SUFFICES ASSUME NEW m \in Messages, NEW p \in Passes, OwnText(m), row'[m].st = "gone",
                      pass'[p].m = m, pass'[p].pc = "claimed"
               PROVE  \E y \in lost : y[1] = m
    BY <1>1, <1>3 DEF WithdrawnStays, Grows
  <2>1. pass[p].pc = "claimed" /\ pass[p].m = m
    BY <1>2 DEF PassMay
  <2>2. CASE row[m].st = "gone"
    BY <2>1, <2>2 DEF EInv, WithdrawnStays
  <2>3. CASE row[m].st = "queued"
    <3>1. row[m].ext # NoId
      BY <2>1, <2>3 DEF IInv, HolderRow
    <3>2. row[m].ext \in Accepted /\ row[m].ext[1] = m
      BY <3>1, OfTheRow
    <3>3. Live(m) = {}
      BY <2>1 DEF IInv, NotSentYet
    <3> QED BY <3>2, <3>3 DEF Live
  <2> QED BY <1>2, <2>2, <2>3 DEF RowMay
<1>15. InsertKnows'
  <2> SUFFICES ASSUME NEW h \in Hooks, NEW m \in Messages, hook'[h].pc = "insert",
                      hook'[h].x[1] = m, OwnText(m), row'[m].st # "gone", Unlost(m)
               PROVE  row'[m].ext = hook'[h].x
    BY <1>3, <1>4 DEF InsertKnows
  <2>1. hook'[h].x = hook[h].x /\ (hook[h].pc = "insert" \/ (NoRow(h) /\ row' = row))
    BY <1>2 DEF HookMay
  <2>2. hook[h].x # NoId /\ hook[h].x \in Accepted /\ row[m].st # "gone"
    <3>1. hook'[h].x # NoId
      BY DEF IInv, TypeOK
    <3> QED BY <1>5, <2>1, <3>1 DEF EInv, HookIds
  <2>3. CASE NoRow(h) /\ row' = row
    BY <2>1, <2>2, <2>3, NoRowKnows
  <2>4. CASE hook[h].pc = "insert"
    <3>1. row[m].ext = hook[h].x
      BY <2>1, <2>2, <2>4 DEF EInv, InsertKnows
    <3>2. \A p \in Passes : pass[p].m = m /\ pass[p].ext # NoId => pass[p].ext = hook[h].x
      <4> SUFFICES ASSUME NEW p \in Passes, pass[p].m = m, pass[p].ext # NoId
                   PROVE  pass[p].ext = hook[h].x
        OBVIOUS
      <4>1. pass[p].ext \in Accepted /\ pass[p].ext[1] = m
        BY DEF EInv, OwnAnswer
      <4>2. hook[h].x \in Accepted /\ hook[h].x[1] = m /\ Unlost(m)
        BY <1>4, <2>1, <2>2
      <4> QED BY <4>1, <4>2, OneCopy
    <3>3. RowMay(m)
      BY <1>2
    <3> QED BY <2>1, <2>2, <3>1, <3>2, <3>3 DEF RowMay
  <2> QED BY <2>1, <2>3, <2>4
<1>16. OneBubble'
  <2> SUFFICES ASSUME NEW x \in twins', OwnText(x[1]), row'[x[1]].st # "gone"
               PROVE  \E y \in lost : y[1] = x[1]
    <3>1. \A x \in twins' : x[1] \in Messages
      BY DEF IInv, TypeOK, Ids
    <3> QED BY <1>1, <1>3, <3>1 DEF OneBubble, Grows
  <2>1. x[1] \in Messages
    BY DEF IInv, TypeOK, Ids
  <2>2. CASE x \in twins
    BY <1>5, <2>1, <2>2 DEF EInv, OneBubble
  <2>3. CASE \E h \in Hooks : hook[h].pc = "insert" /\ hook[h].x = x /\ ~Known(x) /\ row' = row
    <3> SUFFICES ASSUME Unlost(x[1]) PROVE FALSE
      BY DEF Unlost
    <3>1. row[x[1]].ext = x
      BY <1>5, <2>1, <2>3 DEF EInv, InsertKnows
    <3> QED BY <2>1, <2>3, <3>1 DEF Known
  <2> QED BY <1>1, <2>2, <2>3 DEF TwinsMay
<1> QED BY <1>6, <1>7, <1>8, <1>11, <1>12, <1>13, <1>14, <1>15, <1>16 DEF EInv

-----------------------------------------------------------------------------
LEMMA EchoInvariant == Spec => [](IInv /\ EInv)
<1>1. Init => IInv /\ EInv
  BY InitIInv, InitEInv, OutboxAssumption
<1>2. IInv /\ EInv /\ [Next]_vars => (IInv /\ EInv)'
  BY NextStep, NextEInv, OutboxAssumption
<1> QED BY <1>1, <1>2, PTL DEF Spec

\* A row the panel shows as sent was sent, and its id is of its own copy, in whatever order
\* the answer, the echo and the receipt came, for any number of each.
THEOREM ShownIsSentAlways == Spec => []ShownIsSent
<1>1. IInv /\ EInv => ShownIsSent
  BY DEF EInv
<1> QED BY <1>1, EchoInvariant, PTL

\* The echo of a message finds its row and gets no bubble of its own, unless the outcome
\* of a copy could not be written: for any number of overlapping deliveries of echoes.
THEOREM OneBubbleAlways == Spec => []OneBubble
<1>1. IInv /\ EInv => OneBubble
  BY DEF EInv
<1> QED BY <1>1, EchoInvariant, PTL

\* A notice that was withdrawn goes to the customer only as a second copy of one whose
\* outcome could not be written, whatever passes had listed it.
THEOREM WithdrawnStaysAlways == Spec => []WithdrawnStays
<1>1. IInv /\ EInv => WithdrawnStays
  BY DEF EInv
<1> QED BY <1>1, EchoInvariant, PTL
=============================================================================
