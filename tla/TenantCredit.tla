---------------------------- MODULE TenantCredit ----------------------------
(***************************************************************************)
(* The credit of one provider: tenant_credits and credit_allocations       *)
(* (models/TenantCredit.js), and everything that reserves it on a charge,  *)
(* spends it, gives it back or takes it away: the issuing pass, the        *)
(* console, the webhook, a refund, the end of a referral. A transaction    *)
(* reads and then writes; its writes are conditional, hold what they       *)
(* touched until the commit, and so are one action.                        *)
(***************************************************************************)
EXTENDS Integers, FiniteSets, Sequences, FiniteSetsExt, Functions

CONSTANTS
  Last,          \* credits are 1..Last, oldest first
  Amount,        \* what each credit was worth when it was given
  Charges,       \* rows of billing_charges
  NoCharge,      \* no charge: the process is free
  Procs,         \* requests, webhook deliveries and passes at work
  Price, Floor,  \* price of a period, and CREDIT_FLOOR_CENTS
  MaxStarts      \* bound of the model: requests, deliveries and passes, in all

Credits == 1..Last

ASSUME CreditAssumption ==
  /\ Last \in Nat /\ IsFiniteSet(Charges) /\ NoCharge \notin Charges
  /\ Amount \in [Credits -> Nat \ {0}]
  /\ Price \in Nat /\ Floor \in Nat /\ Floor <= Price
  /\ MaxStarts \in Nat

VARIABLES
  left,          \* remaining_cents of each credit
  canceled,      \* credits with canceled_at
  debited,       \* ghost: what the console took from each
  allocs,        \* credit_allocations, less the released ones
  row,           \* the charges
  recorded,      \* payments in the ledger, by charge and gateway id
  refunded,      \* those with their refund in the ledger
  proc,          \* what each process still has to do
  made,          \* how many started so far
  late,          \* ghost: charges whose credit was let go or spent by who came too late
  unguarded      \* ghost: charges whose claim was freed by who no longer had it

vars == <<left, canceled, debited, allocs, row, recorded, refunded, proc, made, late, unguarded>>

\* n: the pass that reserved it; the gateway id of the charge that pass issues is n too.
Alloc == [ch : Charges, cr : Credits, n : 1..MaxStarts, cents : Nat \ {0},
          st : {"reserved", "consumed"}]
\* cents: amount_cents; noted: credit_reserved_cents; busy: issuing_until;
\* asked: what the gateway asks of the customer.
Row == [st : {"pending", "canceled", "paid", "refunded"}, gw : 0..MaxStarts, busy : BOOLEAN,
        cents : Nat, noted : Nat, asked : Nat]
Transactions == {"reserve", "release", "consume", "restore", "record", "reverse", "debit"}
Steps == Transactions \cup {"reread", "cancel", "dropped", "reset", "hold", "override", "paid",
                            "settled", "refunded", "returned", "price", "unclaim", "finally"}
Proc == [todo : Seq(Steps), ch : Charges \cup {NoCharge}, open : BOOLEAN, seen : SUBSET Alloc,
         snap : [Credits -> Nat], gw : 0..MaxStarts, price : Nat]

\* What rows and processes may hold; an allocation is of one reservation.
TypeOK ==
  /\ left \in [Credits -> Nat] /\ debited \in [Credits -> Nat]
  /\ canceled \subseteq Credits
  /\ allocs \subseteq Alloc
  /\ row \in [Charges -> Row]
  /\ recorded \subseteq Charges \X (1..MaxStarts) /\ refunded \subseteq recorded
  /\ proc \in [Procs -> Proc]
  /\ made \in 0..MaxStarts
  /\ late \subseteq Charges /\ unguarded \subseteq Charges
  /\ \A p \in Procs : proc[p].open => proc[p].todo # <<>> /\ Head(proc[p].todo) \in Transactions
  /\ \A a, b \in allocs : a.n = b.n /\ a.cr = b.cr => a = b

\* (Most of these sets are empty: TLC is spared the fold.)
Cents(A) == IF A = {} THEN 0 ELSE MapThenSumSet(LAMBDA a : a.cents, A)
Of(A, c) == {a \in A : a.cr = c}
On(ch, st) == {a \in allocs : a.ch = ch /\ a.st = st}

Free == [todo |-> <<>>, ch |-> NoCharge, open |-> FALSE, seen |-> {},
         snap |-> [c \in Credits |-> 0], gw |-> 0, price |-> 0]

Init ==
  /\ left = Amount /\ debited = [c \in Credits |-> 0]
  /\ canceled = {} /\ allocs = {}
  /\ row = [ch \in Charges |-> [st |-> "pending", gw |-> 0, busy |-> FALSE, cents |-> Price,
                                noted |-> 0, asked |-> 0]]
  /\ recorded = {} /\ refunded = {}
  /\ proc = [p \in Procs |-> Free]
  /\ made = 0
  /\ late = {} /\ unguarded = {}

-----------------------------------------------------------------------------
(* What starts: a process with the steps it will take on one charge.       *)

Starts(p, ch, gw, steps) ==
  /\ proc[p].todo = <<>> /\ made < MaxStarts
  /\ made' = made + 1
  /\ proc' = [proc EXCEPT ![p] = [Free EXCEPT !.todo = steps, !.ch = ch, !.gw = gw,
                   !.price = IF "price" \in Range(steps) THEN row[ch].cents + row[ch].noted ELSE 0]]
  /\ UNCHANGED <<left, canceled, debited, allocs, recorded, refunded, late, unguarded>>

Begin(p, ch, steps) == Starts(p, ch, row[ch].gw, steps)

Grab(ch) == ~row[ch].busy /\ row' = [row EXCEPT ![ch].busy = TRUE]

\* An issuing pass that got the claim of a charge not issued yet.
StartIssue(p, ch) ==
  /\ row[ch].st = "pending" /\ row[ch].gw = 0
  /\ Grab(ch)
  /\ Starts(p, ch, made + 1, <<"reserve", "reread">>)

\* The retention flow, or the console, withdraws an open charge. What the console writes
\* lets the claim go, and so does its `finally`, whoever has it by then.
StartCancel(p, ch) ==
  /\ row[ch].st = "pending"
  /\ Grab(ch)
  /\ \E steps \in {<<"cancel", "release">>, <<"cancel", "release", "finally">>} : Begin(p, ch, steps)

\* The webhook says it was deleted at the gateway. It takes no claim.
StartDropped(p, ch) ==
  /\ row[ch].st = "pending" /\ row[ch].gw # 0
  /\ UNCHANGED row
  /\ Begin(p, ch, <<"dropped", "release">>)

\* The console types a price of its own, which no credit lowers.
StartOverride(p, ch) ==
  /\ row[ch].st = "pending" /\ row[ch].gw # 0
  /\ Grab(ch)
  /\ Begin(p, ch, <<"override", "release", "finally">>)

\* A reprice (an open charge) or a reopening (a canceled one). Who still has to write
\* the plan keeps the claim until the end; the others let it go in the same write.
StartReset(p, ch) ==
  /\ row[ch].st = "canceled" \/ (row[ch].st = "pending" /\ row[ch].gw # 0)
  /\ Grab(ch)
  /\ \E steps \in {<<"reset", "release">>, <<"hold", "release", "unclaim">>} : Begin(p, ch, steps)

\* The webhook of a payment, paid in full.
StartPayment(p, ch) ==
  /\ row[ch].st = "pending" /\ row[ch].gw # 0 /\ <<ch, row[ch].gw>> \notin recorded
  /\ UNCHANGED row
  /\ Begin(p, ch, <<"record", "paid", "consume">>)

\* The console settles it by hand.
StartSettle(p, ch) ==
  /\ row[ch].st = "pending" /\ row[ch].gw # 0
  /\ Grab(ch)
  /\ Begin(p, ch, <<"record", "settled", "consume", "finally">>)

\* A refund, by the console (with the claim, the ledger first) or told by the webhook
\* (the row first), or by both at once.
StartRefund(p, ch) ==
  \/ /\ row[ch].st = "paid" /\ Grab(ch)
     /\ Begin(p, ch, <<"reverse", "refunded", "restore", "finally">>)
  \/ /\ row[ch].st # "refunded" /\ <<ch, row[ch].gw>> \in recorded
     /\ UNCHANGED row
     /\ Begin(p, ch, <<"returned", "restore", "reverse">>)

\* After a credit was canceled: its reservation on a charge that is not issued is
\* released, without the claim (one on an issued charge is a reset, with it).
StartSweep(p, ch) ==
  /\ \E a \in On(ch, "reserved") : a.cr \in canceled
  /\ row[ch].st = "pending" /\ row[ch].gw = 0
  /\ UNCHANGED row
  /\ Begin(p, ch, <<"release", "price">>)

\* The console takes credit back by hand.
StartDebit(p, ch) ==
  /\ UNCHANGED row
  /\ Begin(p, ch, <<"debit">>)

\* The payment that earned a referral credit is refunded.
CancelCredit(c) ==
  /\ c \notin canceled
  /\ canceled' = canceled \cup {c}
  /\ left' = [left EXCEPT ![c] = 0]
  /\ UNCHANGED <<debited, allocs, row, recorded, refunded, proc, made, late, unguarded>>

-----------------------------------------------------------------------------
(* The transactions.                                                       *)

At(p, step) == proc[p].todo # <<>> /\ Head(proc[p].todo) = step
With(p, steps) == IF steps = <<>> THEN Free
                  ELSE [proc[p] EXCEPT !.todo = steps, !.open = FALSE, !.seen = {}, !.snap = Free.snap]
Then(p, steps) == proc' = [proc EXCEPT ![p] = With(p, steps)]
Advance(p) == Then(p, Tail(proc[p].todo))

\* The first read of a transaction.
Open(p) ==
  /\ \E step \in Transactions : At(p, step)
  /\ ~proc[p].open
  /\ proc' = [proc EXCEPT ![p].open = TRUE,
                          ![p].snap = IF At(p, "reserve") \/ At(p, "debit") THEN left ELSE @,
                          ![p].seen = {a \in allocs : a.ch = proc[p].ch}]
  /\ UNCHANGED <<left, canceled, debited, allocs, row, recorded, refunded, made, late, unguarded>>

Writes(p, step) == At(p, step) /\ proc[p].open

AllSeen(p, st) == {a \in proc[p].seen : a.st = st}      \* mutant: the write does not ask the status
OnAnyCharge(p, st) == {a \in allocs : a.st = st}        \* mutant: the reading does not ask the charge
\* Seen with that status, and having it still when the write comes.
Hit(p, st) == {a \in proc[p].seen \cap allocs : a.st = st}

\* What a later read of the same transaction finds: the snapshot of the first (MySQL), or
\* what others committed since (PostgreSQL, which reads each statement afresh).
Again(p) == {proc[p].seen, {a \in allocs : a.ch = proc[p].ch}}
StockAgain(p) == {proc[p].snap, left}

ToAnyone(A) == [c \in Credits |-> left[c] + Cents(Of(A, c))]   \* mutant: a canceled credit too
\* #devolver: what each credit has once A is released.
Back(A) == [c \in Credits |-> IF c \in canceled THEN left[c] ELSE left[c] + Cents(Of(A, c))]

Spent(A) == (allocs \ A) \cup {[a EXCEPT !.st = "consumed"] : a \in A}

\* The charge, if it moved on since p read it: another pass priced it, or issued it.
TooLate(p, ch) ==
  IF \/ row[ch].gw \notin {0, proc[p].gw}
     \/ \E q \in Procs \ {p} : At(q, "reread") /\ proc[q].ch = ch
  THEN {ch} ELSE {}

\* A payment, besides, of what the charge no longer is: it was reset since.
SpentTooLate(p, ch) == IF row[ch].gw # proc[p].gw THEN {ch} ELSE TooLate(p, ch)

Unasked(c, part, has) == part                           \* mutant: the write does not ask what is left
\* The conditional decrement: all of the part, or nothing.
Gives(c, part, has) == IF c \notin canceled /\ has >= part THEN part ELSE 0

KeepingTheOld(p) == {}                                  \* mutant: the last attempt's stays
Earlier(p) == Hit(p, "reserved")

\* What credit c, found at stock[c], gives towards f. What this transaction gave back to
\* it, it always finds.
Takes(old, stock, c, f) ==
  LET read == IF Of(old, c) # {} THEN Back(old)[c] ELSE stock[c]
  IN Gives(c, IF f < read THEN f ELSE read, Back(old)[c])

\* What is still to be found after each credit, oldest first: the price less the floor
\* at the beginning.
Lacks(old, stock) ==
  LET falta[c \in 0..Last] == IF c = 0 THEN Price - Floor
                              ELSE falta[c - 1] - Takes(old, stock, c, falta[c - 1])
  IN falta

\* reserveForCharge: the reservation of an earlier attempt goes back, then the credits
\* give. One that no longer has what was read of it is passed over.
Reserve(p) == \E stock \in StockAgain(p) :
  LET ch == proc[p].ch
      old == Earlier(p)
      falta == Lacks(old, stock)
      part == [c \in Credits |-> falta[c - 1] - falta[c]]
      sum == Price - Floor - falta[Last]
  IN /\ Writes(p, "reserve")
     /\ left' = [c \in Credits |-> Back(old)[c] - part[c]]
     /\ allocs' = (allocs \ old) \cup
          {[ch |-> ch, cr |-> c, n |-> proc[p].gw, cents |-> part[c], st |-> "reserved"] :
             c \in {d \in Credits : part[d] > 0}}
     /\ row' = [row EXCEPT ![ch].cents = Price - sum, ![ch].noted = sum]
     /\ proc' = [proc EXCEPT ![p] = [With(p, Tail(@.todo)) EXCEPT !.price = Price - sum]]
     /\ UNCHANGED <<canceled, debited, recorded, refunded, made, late, unguarded>>

\* releaseForCharge. Then what is left on the charge is read.
Release(p) ==
  LET ch == proc[p].ch  gone == Hit(p, "reserved") IN
  /\ Writes(p, "release")
  /\ left' = Back(gone) /\ allocs' = allocs \ gone
  /\ \E rest \in Again(p) :
       row' = [row EXCEPT ![ch].noted = IF rest \subseteq gone THEN 0 ELSE @]
  /\ late' = late \cup TooLate(p, ch)
  /\ Advance(p)
  /\ UNCHANGED <<canceled, debited, recorded, refunded, made, unguarded>>

\* consumeForCharge, once the row says it was paid.
Consume(p) ==
  /\ Writes(p, "consume")
  /\ allocs' = Spent(Hit(p, "reserved"))
  /\ late' = late \cup SpentTooLate(p, proc[p].ch)
  /\ Advance(p)
  /\ UNCHANGED <<left, canceled, debited, row, recorded, refunded, made, unguarded>>

\* mutant: what was spent stays spent
OnlySetAside(p, rest) == {a \in rest \cap allocs : a.st = "reserved"}
\* What was spent, then what was set aside, is read and given back.
Restored(p, rest) == Hit(p, "consumed") \cup {a \in rest \cap allocs : a.st = "reserved"}
\* restoreForCharge, once the row says it was refunded.
Restore(p) ==
  /\ Writes(p, "restore")
  /\ \E rest \in Again(p) :
       left' = Back(Restored(p, rest)) /\ allocs' = allocs \ Restored(p, rest)
  /\ late' = late \cup TooLate(p, proc[p].ch)
  /\ Advance(p)
  /\ UNCHANGED <<canceled, debited, row, recorded, refunded, made, unguarded>>

\* recordPayment: the event and the credit it spends, or neither. The webhook leaves a
\* redelivery at that; the console closes the row by what the ledger has.
Record(p) ==
  LET payment == <<proc[p].ch, proc[p].gw>> IN
  /\ Writes(p, "record")
  /\ IF payment \in recorded
       THEN /\ Then(p, IF "paid" \in Range(proc[p].todo) THEN <<>> ELSE Tail(proc[p].todo))
            /\ UNCHANGED <<allocs, recorded, late>>
       ELSE /\ Advance(p)
            /\ recorded' = recorded \cup {payment}
            /\ allocs' = Spent(Hit(p, "reserved"))
            /\ late' = late \cup SpentTooLate(p, proc[p].ch)
  /\ UNCHANGED <<left, canceled, debited, row, refunded, made, unguarded>>

\* reversePayment: the refund's event and the credit it gives back, once. A payment the
\* ledger does not know leaves it as it is.
Reverse(p) ==
  LET payment == <<proc[p].ch, proc[p].gw>> IN
  /\ Writes(p, "reverse")
  /\ IF payment \in refunded \/ payment \notin recorded
       THEN UNCHANGED <<left, allocs, refunded, late>>
       ELSE /\ refunded' = refunded \cup {payment}
            /\ \E rest \in Again(p) :
                 left' = Back(Restored(p, rest)) /\ allocs' = allocs \ Restored(p, rest)
            /\ late' = late \cup TooLate(p, proc[p].ch)
  /\ Advance(p)
  /\ UNCHANGED <<canceled, debited, row, recorded, made, unguarded>>

\* adjust: the oldest credit gives one unit, or the whole adjustment is undone.
Debit(p) ==
  LET had == {c \in Credits : proc[p].snap[c] > 0}
      c == Min(had)
  IN /\ Writes(p, "debit")
     /\ IF had # {} /\ c \notin canceled /\ left[c] > 0
          THEN /\ left' = [left EXCEPT ![c] = @ - 1]
               /\ debited' = [debited EXCEPT ![c] = @ + 1]
          ELSE UNCHANGED <<left, debited>>
     /\ Advance(p)
     /\ UNCHANGED <<canceled, allocs, row, recorded, refunded, made, late, unguarded>>

-----------------------------------------------------------------------------
(* The writes of one row.                                                  *)

\* The subscription is read once more, then the gateway is called. The id is written on
\* a row that has none; who finds another pass's there withdraws its own charge.
Reread(p) ==
  LET ch == proc[p].ch IN
  /\ At(p, "reread")
  /\ \/ /\ row[ch].gw = 0 /\ Then(p, <<>>)                       \* issued
        /\ row' = [row EXCEPT ![ch].st = "pending", ![ch].gw = proc[p].gw,
                              ![ch].asked = proc[p].price, ![ch].busy = FALSE]
     \/ /\ row[ch].gw # 0 /\ Then(p, <<>>)                       \* issued by another
        /\ UNCHANGED row
     \/ /\ Then(p, <<>>)                                        \* the gateway failed: to be
        /\ row' = [row EXCEPT ![ch].st = "pending", ![ch].busy = FALSE]   \* tried again
     \/ /\ Then(p, <<"release">>)                               \* exempt meanwhile
        /\ row' = [row EXCEPT ![ch].st = "canceled", ![ch].busy = FALSE]
     \/ /\ proc[p].price = Price /\ Then(p, <<"unclaim">>)         \* not billable
        /\ UNCHANGED row
     \/ /\ proc[p].price # Price                                  \* the same, with credit
        /\ proc' = [proc EXCEPT ![p] = [With(p, <<"release", "price", "unclaim">>)
                                          EXCEPT !.price = Price]]
        /\ UNCHANGED row
  /\ UNCHANGED <<left, canceled, debited, allocs, recorded, refunded, made, late, unguarded>>

\* A write by id, whatever the row has become since it was claimed or read.
Write(p, step, new) ==
  /\ At(p, step)
  /\ row' = [row EXCEPT ![proc[p].ch] = new]
  /\ Advance(p)
  /\ late' = IF step = "price" THEN late \cup TooLate(p, proc[p].ch) ELSE late
  /\ UNCHANGED <<left, canceled, debited, allocs, recorded, refunded, made, unguarded>>

\* What the console writes lets the claim go; what the webhook writes does not.
Label(p) ==
  \E step \in {"cancel", "dropped", "settled", "refunded", "returned"} :
    Write(p, step, [row[proc[p].ch] EXCEPT
      !.st = IF step \in {"cancel", "dropped"} THEN "canceled"
             ELSE IF step = "settled" THEN "paid" ELSE "refunded",
      !.busy = step \in {"dropped", "returned"} /\ @])

Override(p) ==
  Write(p, "override", [row[proc[p].ch] EXCEPT !.cents = Price, !.asked = Price, !.busy = FALSE])
FullPrice(p) == Write(p, "price", [row[proc[p].ch] EXCEPT !.cents = proc[p].price])
LetGo(p) == Write(p, "unclaim", [row[proc[p].ch] EXCEPT !.busy = FALSE])

\* marcarCobrancaPaga: the row that still has the id that was paid.
Paid(p) ==
  LET r == row[proc[p].ch]  open == r.gw = proc[p].gw /\ r.st # "paid" IN
  /\ At(p, "paid")
  /\ \/ open /\ Write(p, "paid", [r EXCEPT !.st = "paid"])
     \/ /\ ~open /\ Then(p, <<>>)
        /\ UNCHANGED <<left, canceled, debited, allocs, row, recorded, refunded, made, late, unguarded>>

\* resetForReissue: pending again and not issued, at the price without credit. The id in
\* the condition is the one it reads, the new one of another pass when it reads late enough.
Reset(p) ==
  \/ \E step \in {"reset", "hold"} :
       Write(p, step, [row[proc[p].ch] EXCEPT !.st = "pending", !.gw = 0, !.cents = Price,
                                              !.asked = 0, !.busy = step = "hold"])
  \/ /\ At(p, "reset") \/ At(p, "hold")
     /\ row[proc[p].ch].gw # proc[p].gw
     /\ Then(p, <<"unclaim">>)
     /\ UNCHANGED <<left, canceled, debited, allocs, row, recorded, refunded, made, late, unguarded>>

\* The last write of the console, by id: its own claim went with the write before, so any
\* it frees is another's.
Finally(p) ==
  LET ch == proc[p].ch IN
  /\ At(p, "finally")
  /\ row' = [row EXCEPT ![ch].busy = FALSE]
  /\ unguarded' = IF row[ch].busy THEN unguarded \cup {ch} ELSE unguarded
  /\ Then(p, <<>>)
  /\ UNCHANGED <<left, canceled, debited, allocs, recorded, refunded, made, late>>

-----------------------------------------------------------------------------
Start(p, ch) ==
  \/ StartIssue(p, ch) \/ StartCancel(p, ch) \/ StartDropped(p, ch) \/ StartOverride(p, ch)
  \/ StartReset(p, ch) \/ StartPayment(p, ch) \/ StartSettle(p, ch) \/ StartRefund(p, ch)
  \/ StartSweep(p, ch) \/ StartDebit(p, ch)

Work(p) ==
  \/ Open(p)
  \/ Reserve(p) \/ Release(p) \/ Consume(p) \/ Restore(p) \/ Record(p) \/ Reverse(p) \/ Debit(p)
  \/ Reread(p) \/ Label(p) \/ Reset(p) \/ Override(p) \/ Paid(p) \/ FullPrice(p) \/ LetGo(p)
  \/ Finally(p)

Next ==
  \/ \E p \in Procs : Work(p) \/ \E ch \in Charges : Start(p, ch)
  \/ \E c \in Credits : CancelCredit(c)

Spec == Init /\ [][Next]_vars

-----------------------------------------------------------------------------
(* Properties.                                                             *)

\* Every cent of a credit is free, on one charge, or taken back by the console: no
\* interleaving of reservations, releases, payments and refunds makes or loses one.
Conserved ==
  \A c \in Credits \ canceled : left[c] + Cents(Of(allocs, c)) + debited[c] = Amount[c]

\* What a canceled credit had on a charge is not given back to it when the charge lets
\* it go, and nothing reserves from it again.
CanceledStaysEmpty == \A c \in canceled : left[c] = 0

Quiet(ch) == \A p \in Procs : proc[p].ch = ch => proc[p].todo = <<>>

\* Once nobody works on a charge, its credit says what its row says: nothing is set aside
\* on a charge that is not open, and a refunded one keeps nothing, unless the payment of an
\* earlier emission spent what a later one had set aside. It takes the claim to have had one
\* owner: of a charge whose claim the console's `finally` took from another it says nothing.
CreditFollows ==
  \A ch \in Charges : Quiet(ch) /\ ch \notin unguarded =>
    /\ row[ch].st # "pending" => On(ch, "reserved") = {}
    /\ row[ch].st = "refunded" /\ ch \notin late => On(ch, "consumed") = {}

\* What is on the charge for the price it has now.
SetAside(ch) == {a \in allocs : a.ch = ch /\ (a.st = "reserved" \/ a.n = row[ch].gw)}

\* An issued charge on which nobody works: its discount is credit that is set aside for it,
\* and the row says the price that was asked.
Backs(ch) ==
  Quiet(ch) /\ row[ch].st = "pending" /\ row[ch].gw # 0 =>
    /\ row[ch].asked + Cents(SetAside(ch)) = Price
    /\ row[ch].cents = row[ch].asked

\* The discount a customer is given is credit that is set aside for it, and the row says
\* the price that was asked, unless who held no claim came late (the end of a cancellation
\* or of a reset, or the sweep of a canceled credit), or the console's `finally` took the
\* claim from who had it.
DiscountBacked == \A ch \in Charges : ch \notin late \cup unguarded => Backs(ch)

\* The allocations of one credit on one charge with that status, and the cents of them all.
PartOf(ch, c, st) == {a \in allocs : a.cr = c /\ a.ch = ch /\ a.st = st}
OnCharges(st) == [ch \in Charges |-> [c \in Credits |-> Cents(PartOf(ch, c, st))]]

\* Whatever meets, the transactions keep the promise of CreditCycle: each moves the cents of
\* its own charge, forwards or back to free, and a cent spent is never set aside again.
Cycle == INSTANCE CreditCycle WITH free <- left, held <- OnCharges("reserved"),
           spent <- OnCharges("consumed"), taken <- debited, gone <- canceled
Implements == Cycle!Spec
=============================================================================
