--------------------------- MODULE ChargeIssuing ---------------------------
(***************************************************************************)
(* The renewal charge of ONE provider for ONE period: its row in           *)
(* billing_charges, the charges it leaves at the payment gateway, and      *)
(* every process that issues, cancels, reissues or settles it:             *)
(*                                                                         *)
(*   auto, click   ChargeIssuingService.issueCurrent, by the scheduler or  *)
(*                 by a person (manual)                                    *)
(*   reprice       SelfBillingService.repriceOpenCharge, then the write of *)
(*                 the new plan, then issueCurrent                         *)
(*   sweep         ChargeIssuingService.cancelOpenCharges (exemption)      *)
(*   retain,       CancellationService.confirm and its second sweep        *)
(*   resweep       (ChargeIssuingService.cancelRenewalCharges)             *)
(*   unexempt,     turning the exemption off, reverting a scheduled        *)
(*   unhold        cancellation: ChargeIssuingService.reopenExemptCanceled *)
(*   cancel,       the two gestures of the console on an open charge       *)
(*   settle        (platformSubscriptionsController)                       *)
(*                                                                         *)
(* Each step between two awaits is one action. A row is claimed by writing *)
(* issuing_until in a conditional UPDATE; row.claim says who wrote it,     *)
(* which the database does not know: no guard compares it, but for the     *)
(* expiry of a claim, which is free only when its taker is dead.           *)
(***************************************************************************)
EXTENDS Naturals, FiniteSets

CONSTANTS
  Procs,        \* requests and scheduler passes that may run at once
  Charges,      \* identities the gateway can give to a charge (bound)
  NoCharge,     \* gateway_charge_id NULL
  Free,         \* issuing_until NULL or past
  Dead,         \* issuing_until in the future, written by a process that died
  Cash,         \* the payment reference charge:<id> of a row never issued
  MaxTries,     \* MAX_ATTEMPTS
  MaxStalls,    \* claims that may expire while their taker still runs (bound)
  MaxCrashes,   \* processes that may die (bound)
  Gestures,     \* what happens besides the passes of the scheduler
  Answers       \* how createCharge may end: subset of AllAnswers

AllGestures == {"click", "lifecycle", "reprice", "exempt", "retain", "cancel", "settle"}

\* "lost": the gateway created it and the answer never came; "refused": the
\* card was refused; "rejected": another 4xx of a card request; "safe": the
\* request was never processed; "error": a failure that created nothing.
AllAnswers == {"ok", "lost", "refused", "rejected", "safe", "error"}

ASSUME ConstantsAssumption ==
  /\ NoCharge \notin Charges /\ Cash \notin Charges
  /\ Free \notin Procs /\ Dead \notin Procs /\ Free # Dead
  /\ MaxTries \in Nat \ {0}
  /\ MaxStalls \in Nat /\ MaxCrashes \in Nat
  /\ Gestures \subseteq AllGestures
  /\ Answers \subseteq AllAnswers

VARIABLES
  row,      \* the row of the period in billing_charges
  gw,       \* the gateway's view of each charge
  gcard,    \* the charges created on the saved card
  sub,      \* the subscription: exempt, hold (cancel_at set), card usable
  ledger,   \* external ids with a payment_recorded event
  job,      \* what each process is doing
  notes,    \* webhook deliveries between their read and their write
  stalls, crashes

vars == <<row, gw, gcard, sub, ledger, job, notes, stalls, crashes>>

Open == {"pending", "failed", "overdue"}                \* OPEN_CHARGE_STATUSES
Closed == {"paid", "canceled"}
Statuses == {"none"} \cup Open \cup Closed

Row == [st : Statuses, gid : Charges \cup {NoCharge}, card : BOOLEAN,
        claim : Procs \cup {Free, Dead}, tries : 0..MaxTries,
        mark : {"none", "exempt", "retention"}]
Ops == {"none", "auto", "click", "reprice", "sweep", "retain", "resweep",
        "unexempt", "unhold", "cancel", "settle"}
Steps == {"idle", "begin", "read", "again", "reopen", "claim", "lookup", "adoptlive",
          "adoptpaid", "adoptsettle", "adoptclose", "open", "prepare", "recheck",
          "stop", "drop", "call", "fail", "mark", "undo", "after", "pull", "pulled",
          "list", "take", "reread", "wipe", "close", "sethold",
          "remark", "reset", "resetw", "plan", "release",
          "cash", "record", "settled"}
Job == [op : Ops, pc : Steps, gid : Charges \cup {NoCharge}, asked : BOOLEAN,
        made : Charges \cup {NoCharge}, card : BOOLEAN]

IdleJob == [op |-> "none", pc |-> "idle", gid |-> NoCharge, asked |-> FALSE,
            made |-> NoCharge, card |-> FALSE]

\* The shape of the row, of the gateway's charges, of the subscription and of the
\* jobs; a failed attempt never counts past MaxTries, where the scheduler gives up.
TypeOK ==
  /\ row \in Row
  /\ gw \in [Charges -> {"unused", "live", "paid", "gone"}]
  /\ gcard \subseteq Charges
  /\ sub \in [exempt : BOOLEAN, hold : BOOLEAN, card : BOOLEAN]
  /\ ledger \subseteq Charges \cup {Cash}
  /\ job \in [Procs -> Job]
  /\ notes \subseteq Charges \X {"overdue", "canceled", "settle"}
  /\ stalls \in 0..MaxStalls
  /\ crashes \in 0..MaxCrashes

Init ==
  /\ row = [st |-> "none", gid |-> NoCharge, card |-> FALSE, claim |-> Free, tries |-> 0,
            mark |-> "none"]
  /\ gw = [g \in Charges |-> "unused"]
  /\ gcard = {}
  /\ sub \in [exempt : {FALSE}, hold : {FALSE}, card : BOOLEAN]
  /\ ledger = {}
  /\ job = [p \in Procs |-> IdleJob]
  /\ notes = {}
  /\ stalls = 0 /\ crashes = 0

-----------------------------------------------------------------------------
(* The statements on the row.                                              *)

ClaimBlindly(unissued, openOnly) ==                      \* mutant: no condition on the claim
  (unissued => row.gid = NoCharge) /\ (openOnly => row.st \in Open)
ClaimPending(unissued, openOnly) ==                      \* mutant: failed rows are left out
  row.claim = Free /\ (unissued => row.gid = NoCharge) /\ row.st = "pending"

\* BillingCharge.claim: the conditional UPDATE that takes the row for p.
CanClaim(unissued, openOnly) ==
  /\ row.claim = Free
  /\ unissued => row.gid = NoCharge
  /\ openOnly => row.st \in Open

Held(c) == [row EXCEPT !.claim = c]                      \* taken by c, or given back
LeftOpen(op) ==                                          \* the gateway refused: last_error says why
  [row EXCEPT !.claim = Free, !.mark = IF op = "sweep" THEN "none" ELSE @]
OnCard(b) == [row EXCEPT !.card = b]                     \* billing_type
Opened(p, b) == [row EXCEPT !.st = "pending", !.claim = p, !.card = b]
Issued(g) == [row EXCEPT !.gid = g, !.st = "pending", !.claim = Free, !.mark = "none"]
Failed == [row EXCEPT !.st = "failed", !.claim = Free, !.mark = "none",
                      !.tries = IF @ < MaxTries THEN @ + 1 ELSE @]
Reissuable(c) == [row EXCEPT !.st = "pending", !.gid = NoCharge, !.card = FALSE, !.tries = 0,
                             !.mark = "none", !.claim = c]

\* The closing writes, which also clear issuing_until.
CancelledHeld(mark) == [row EXCEPT !.st = "canceled", !.mark = mark]   \* mutant: claim kept
Cancelled(mark) ==
  [row EXCEPT !.st = "canceled", !.claim = Free, !.mark = mark]
SettledRow == [row EXCEPT !.st = "settled", !.claim = Free]   \* mutant: unknown status
PaidRow == [row EXCEPT !.st = "paid", !.claim = Free, !.mark = "none"]

Now(p, j) == job' = [job EXCEPT ![p] = j]
New(op, pc) == [IdleJob EXCEPT !.op = op, !.pc = pc]
Finish(p) == Now(p, IdleJob)
Goto(p, pc) == IF pc = "idle" THEN Finish(p) ELSE Now(p, [job[p] EXCEPT !.pc = pc])
At(p, pc) == job[p].pc = pc

OnlyRow == UNCHANGED <<gw, gcard, sub, ledger, notes, stalls, crashes>>
OnlyJob == UNCHANGED row /\ OnlyRow

-----------------------------------------------------------------------------
(* issueCurrent.                                                           *)

\* A scheduler pass or a click begins; a process can begin again when idle.
StartPass(p, how) ==
  /\ At(p, "idle")
  /\ Now(p, New(how, "begin"))
  /\ OnlyJob

\* The first reading of the subscription: an exempt provider is swept by the
\* scheduler, one that will not renew is left alone, the usable card is noted.
Begin(p) ==
  /\ At(p, "begin")
  /\ IF sub.exempt
       THEN IF job[p].op = "auto" THEN Now(p, New("sweep", "list")) ELSE Finish(p)
     ELSE IF sub.hold THEN Finish(p)
     ELSE Now(p, [job[p] EXCEPT !.pc = "read", !.card = sub.card])
  /\ OnlyJob

\* Where the row just read sends the pass; only a click reopens a canceled one,
\* and only once.
Verdict(p) ==
  IF row.st = "none" THEN "open"
  ELSE IF row.st = "canceled" /\ job[p].op = "click" /\ At(p, "read") THEN "reopen"
  ELSE IF row.st \in Closed \/ row.gid # NoCharge THEN "idle"
  ELSE IF job[p].op = "auto" /\ row.tries >= MaxTries THEN "idle"
  ELSE "claim"

ReadRow(p) ==
  /\ At(p, "read") \/ At(p, "again")
  /\ IF Verdict(p) = "idle" THEN Finish(p)
     ELSE Now(p, [job[p] EXCEPT !.asked = row.card, !.pc = Verdict(p)])
  /\ OnlyJob

\* A click that is not "pay now" leaves the saved card to the scheduler's pass
\* of the due date (deferCardCharge), and forgets the failed attempts.
Defer(p) ==
  /\ At(p, "read") \/ At(p, "again")
  /\ job[p].op = "click" /\ job[p].card /\ Verdict(p) \in {"open", "claim"}
  /\ row' = [row EXCEPT !.tries = 0]
  /\ Finish(p)
  /\ OnlyRow

\* The claim of a click that reopens a canceled row: whatever its state is now.
Reopen(p) ==
  /\ At(p, "reopen")
  /\ IF CanClaim(FALSE, FALSE)
       THEN row' = Held(p) /\ Goto(p, "reset")
       ELSE UNCHANGED row /\ Finish(p)
  /\ OnlyRow

\* resetForReissue reads the row, then rewrites it on condition that the
\* gateway id is still the one it read; a reprice keeps the claim (holdUntil).
ResetRead(p) ==
  /\ At(p, "reset")
  /\ Now(p, [job[p] EXCEPT !.gid = row.gid, !.pc = "resetw"])
  /\ OnlyJob

ResetWrite(p) ==
  /\ At(p, "resetw")
  /\ LET op == job[p].op
         forget(pc) == [job[p] EXCEPT !.gid = NoCharge, !.pc = pc]
     IN IF row.gid = job[p].gid
          THEN /\ row' = Reissuable(IF op = "reprice" THEN p ELSE Free)
               /\ Now(p, CASE op = "click" -> forget("again")
                           [] op = "reprice" -> forget("plan")
                           [] OTHER -> IdleJob)
          ELSE /\ row' = Held(Free)
               /\ Now(p, IF op = "click" THEN forget("again") ELSE IdleJob)
  /\ OnlyRow

\* The claim of the emission: the row must be free and unissued, and a row
\* that has been an attempt on the card is looked up at the gateway first.
Claim(p) ==
  /\ At(p, "claim")
  /\ IF CanClaim(TRUE, FALSE)
       THEN /\ row' = Held(p)
            /\ Now(p, [job[p] EXCEPT !.pc = IF job[p].asked THEN "lookup" ELSE "prepare",
                                     !.asked = FALSE])
       ELSE UNCHANGED row /\ Finish(p)
  /\ OnlyRow

\* findChargesByReference: the charges of this period that are not deleted,
\* one on the card before any other.
FoundPaid == {g \in Charges : gw[g] = "paid"}             \* mutant: forgets unpaid ones
Found == {g \in Charges : gw[g] \in {"live", "paid"}}
Preferred == IF Found \cap gcard # {} THEN Found \cap gcard ELSE Found

Lookup(p) ==
  /\ At(p, "lookup")
  /\ \/ Found = {} /\ Goto(p, "prepare")
     \/ "error" \in Answers /\ Goto(p, "fail")
     \/ \E g \in Preferred :
          Now(p, [job[p] EXCEPT !.made = g,
                                !.pc = IF gw[g] = "paid" THEN "adoptpaid" ELSE "adoptlive"])
  /\ OnlyJob

\* adoptFound: markIssued, whose answer it ignores, then the means of payment.
Adopt(p) ==
  /\ At(p, "adoptpaid") \/ At(p, "adoptlive")
  /\ LET g == job[p].made
         marked == IF row.gid = NoCharge THEN Issued(g) ELSE row
     IN row' = [marked EXCEPT !.card = g \in gcard]
  /\ IF At(p, "adoptpaid") THEN Goto(p, "adoptsettle") ELSE Finish(p)
  /\ OnlyRow

\* settleAdopted: the payment the gateway already has is recorded here, unless
\* the webhook did it, and the row is closed.
AdoptSettle(p) ==
  /\ At(p, "adoptsettle")
  /\ IF row.st = "paid"
       THEN Finish(p) /\ UNCHANGED ledger
       ELSE Goto(p, "adoptclose") /\ ledger' = ledger \cup {job[p].made}
  /\ UNCHANGED <<row, gw, gcard, sub, notes, stalls, crashes>>

AdoptClose(p) ==
  /\ At(p, "adoptclose")
  /\ row' = PaidRow
  /\ Finish(p)
  /\ OnlyRow

\* BillingCharge.open: the row is born claimed, and the unique key of the
\* period lets one insertion in.
OpenRow(p) ==
  /\ At(p, "open")
  /\ IF row.st = "none"
       THEN /\ row' = Opened(p, job[p].card)
            /\ Goto(p, "prepare")
       ELSE UNCHANGED row /\ Finish(p)
  /\ OnlyRow

\* The patch of the claimed row; a click also forgets the failed attempts.
Prepare(p) ==
  /\ At(p, "prepare")
  /\ row' = [row EXCEPT !.card = job[p].card,
                        !.tries = IF job[p].op = "click" THEN 0 ELSE @]
  /\ Goto(p, "recheck")
  /\ OnlyRow

\* The subscription is read again before the gateway is called.
Recheck(p) ==
  /\ At(p, "recheck")
  /\ IF sub.exempt THEN Goto(p, "stop") /\ UNCHANGED row
     ELSE IF sub.hold THEN Goto(p, "drop") /\ UNCHANGED row
     ELSE LET card == job[p].card /\ sub.card IN
          /\ Now(p, [job[p] EXCEPT !.pc = "call", !.card = card])
          /\ row' = IF job[p].card /\ ~card THEN OnCard(FALSE) ELSE row
  /\ OnlyRow

\* Exempted meanwhile: the row is canceled under the exemption's mark.
Stop(p) ==
  /\ At(p, "stop")
  /\ row' = Cancelled("exempt")
  /\ Finish(p)
  /\ OnlyRow

DropHeld(p) == At(p, "drop") /\ Finish(p) /\ OnlyJob             \* mutant: claim kept

\* A cancellation scheduled meanwhile: the claim is given back.
Drop(p) ==
  /\ At(p, "drop")
  /\ row' = Held(Free)
  /\ Finish(p)
  /\ OnlyRow

\* createCharge. The gateway creates the charge and the answer comes, or does
\* not; or it creates nothing, for one of the reasons classifyError tells apart.
Created(p, g) ==
  /\ gw[g] = "unused"
  /\ gw' = [gw EXCEPT ![g] = "live"]
  /\ gcard' = IF job[p].card THEN gcard \cup {g} ELSE gcard

CreateOk(p) ==
  /\ At(p, "call") /\ "ok" \in Answers
  /\ \E g \in Charges :
       /\ Created(p, g)
       /\ Now(p, [job[p] EXCEPT !.made = g, !.pc = "mark"])
  /\ UNCHANGED <<row, sub, ledger, notes, stalls, crashes>>

CreateLost(p) ==
  /\ At(p, "call") /\ "lost" \in Answers
  /\ \E g \in Charges : Created(p, g)
  /\ Goto(p, "fail")
  /\ UNCHANGED <<row, sub, ledger, notes, stalls, crashes>>

\* The card is refused (and remembered as such), or the request is: the charge
\* goes out at once without the card, on the same row.
CreateRefused(p) ==
  /\ At(p, "call") /\ job[p].card
  /\ \/ "refused" \in Answers /\ sub' = [sub EXCEPT !.card = FALSE]
     \/ "rejected" \in Answers /\ UNCHANGED sub
  /\ row' = OnCard(FALSE)
  /\ Now(p, [job[p] EXCEPT !.card = FALSE])
  /\ UNCHANGED <<gw, gcard, ledger, notes, stalls, crashes>>

\* Nothing was created; only "safe" says so of a card charge, and lets the
\* next attempt use the card without asking.
CreateFailed(p) ==
  /\ At(p, "call")
  /\ \/ "error" \in Answers /\ UNCHANGED row
     \/ "safe" \in Answers /\ job[p].card /\ row' = OnCard(FALSE)
  /\ Goto(p, "fail")
  /\ OnlyRow

\* markFailed: no condition on what the row is by now.
MarkFailed(p) ==
  /\ At(p, "fail")
  /\ row' = Failed
  /\ Finish(p)
  /\ OnlyRow

\* markIssued: only a row that still has no gateway id takes this one.
MarkOver(p) ==                                           \* mutant: overwrites another id
  /\ At(p, "mark")
  /\ row' = Issued(job[p].made)
  /\ Goto(p, "after")
  /\ OnlyRow

MarkIssued(p) ==
  /\ At(p, "mark")
  /\ IF row.gid = NoCharge
       THEN /\ row' = Issued(job[p].made)
            /\ Goto(p, "after")
       ELSE UNCHANGED row /\ Goto(p, "undo")
  /\ OnlyRow

\* cancelCharge at the gateway: a charge that is gone is a success (404), a
\* paid one is refused, and any call may fail, before or after taking effect.
CancelIgnored(g, ok) == ok \in BOOLEAN /\ gw' = gw         \* mutant: a refusal passes for a success
GatewayCancel(g, ok) ==
  /\ ok => gw[g] \in {"live", "gone"}
  /\ \/ ok /\ gw' = [gw EXCEPT ![g] = "gone"]
     \/ ~ok /\ gw' = gw
     \/ ~ok /\ "lost" \in Answers /\ gw[g] = "live" /\ gw' = [gw EXCEPT ![g] = "gone"]

\* The second of two emissions cancels its own charge, or says to do it by hand.
UndoDuplicate(p) ==
  /\ At(p, "undo")
  /\ \E ok \in BOOLEAN : GatewayCancel(job[p].made, ok)
  /\ Finish(p)
  /\ UNCHANGED <<row, gcard, sub, ledger, notes, stalls, crashes>>

\* A cancellation scheduled during createCharge: the new charge is withdrawn.
AfterIssue(p) ==
  /\ At(p, "after")
  /\ IF sub.hold THEN Goto(p, "pull") ELSE Finish(p)
  /\ OnlyJob

Pull(p) ==
  /\ At(p, "pull")
  /\ \E ok \in BOOLEAN :
       /\ GatewayCancel(job[p].made, ok)
       /\ IF ok THEN Goto(p, "pulled") ELSE Finish(p)
  /\ UNCHANGED <<row, gcard, sub, ledger, notes, stalls, crashes>>

PullClose(p) ==
  /\ At(p, "pulled")
  /\ row' = Cancelled("retention")
  /\ Finish(p)
  /\ OnlyRow

-----------------------------------------------------------------------------
(* The gestures that cancel, reprice, reopen or settle the row.            *)

StartJob(p, op, pc) ==
  /\ At(p, "idle")
  /\ Now(p, New(op, pc))

\* The console exempts the provider (the flag first, then the sweep), or ends
\* the exemption (the flag first, then the reopening of the swept charge).
Exempt(p) ==
  /\ "exempt" \in Gestures
  /\ IF sub.exempt THEN StartJob(p, "unexempt", "remark") ELSE StartJob(p, "sweep", "list")
  /\ sub' = [sub EXCEPT !.exempt = ~@]
  /\ UNCHANGED <<row, gw, gcard, ledger, notes, stalls, crashes>>

\* The provider schedules its cancellation: the charges first, then the
\* decision; and reverts it: the decision first, then the charge.
Retain(p) ==
  /\ "retain" \in Gestures
  /\ IF sub.hold
       THEN StartJob(p, "unhold", "remark") /\ sub' = [sub EXCEPT !.hold = FALSE]
       ELSE StartJob(p, "retain", "list") /\ UNCHANGED sub
  /\ UNCHANGED <<row, gw, gcard, ledger, notes, stalls, crashes>>

Gesture(p, op) == op \in Gestures /\ StartJob(p, op, "list") /\ OnlyJob

AfterList(op) == IF op = "retain" THEN "sethold" ELSE "idle"

\* The reading that finds the row open. What it read is what the gesture later
\* cancels at the gateway, except for a reprice, which reads again.
List(p) ==
  /\ At(p, "list")
  /\ IF row.st \in Open
       THEN Now(p, [job[p] EXCEPT !.gid = row.gid, !.pc = "take"])
       ELSE Goto(p, AfterList(job[p].op))
  /\ OnlyJob

Take(p) ==
  /\ At(p, "take")
  /\ LET op == job[p].op IN
     IF CanClaim(FALSE, op # "reprice")
       THEN /\ row' = Held(p)
            /\ Goto(p, IF op = "reprice" THEN "reread" ELSE IF op = "settle" THEN "cash" ELSE "wipe")
       ELSE UNCHANGED row /\ Finish(p)
  /\ OnlyRow

\* A reprice reads the row again under the claim: it may be closed by now, or
\* already at the new price, and then only the claim is given back.
Reread(p) ==
  /\ At(p, "reread")
  /\ \/ /\ row.st \in Open
        /\ Now(p, [job[p] EXCEPT !.gid = row.gid, !.pc = "wipe"])
        /\ UNCHANGED row
     \/ row' = Held(Free) /\ Finish(p)
  /\ OnlyRow

\* The charge is canceled at the gateway before the row is touched; a refusal
\* gives the claim back and leaves the row open.
Wipe(p) ==
  /\ At(p, "wipe")
  /\ LET g == job[p].gid
         next == IF job[p].op = "reprice" THEN "reset" ELSE "close"
     IN \/ g = NoCharge /\ Goto(p, next) /\ UNCHANGED <<row, gw>>
        \/ /\ g # NoCharge
           /\ \E ok \in BOOLEAN :
                /\ GatewayCancel(g, ok)
                /\ IF ok THEN Goto(p, next) /\ UNCHANGED row
                         ELSE Finish(p) /\ row' = LeftOpen(job[p].op)
  /\ UNCHANGED <<gcard, sub, ledger, notes, stalls, crashes>>

Close(p) ==
  /\ At(p, "close")
  /\ LET op == job[p].op IN
     /\ row' = Cancelled(CASE op = "sweep" -> "exempt"
                           [] op \in {"retain", "resweep"} -> "retention"
                           [] OTHER -> row.mark)
     /\ Goto(p, IF op = "cancel" THEN "release" ELSE AfterList(op))
  /\ OnlyRow

\* The cancellation is written, and the renewal charges are swept once more.
SetHold(p) ==
  /\ At(p, "sethold")
  /\ sub' = [sub EXCEPT !.hold = TRUE]
  /\ IF sub.hold THEN Finish(p) ELSE Now(p, New("resweep", "list"))
  /\ UNCHANGED <<row, gw, gcard, ledger, notes, stalls, crashes>>

\* reopenExemptCanceled: only the row canceled under the mark is reopened.
Remark(p) ==
  /\ At(p, "remark")
  /\ LET mark == IF job[p].op = "unexempt" THEN "exempt" ELSE "retention" IN
     IF row.st = "canceled" /\ row.mark = mark /\ CanClaim(FALSE, FALSE)
       THEN row' = Held(p) /\ Goto(p, "reset")
       ELSE UNCHANGED row /\ Finish(p)
  /\ OnlyRow

\* The new plan is written while the claim is held; then the claim is given
\* back and, unless that write failed, the row goes out again by a click.
Plan(p) ==
  /\ At(p, "plan")
  /\ row' = Held(Free)
  /\ Finish(p) \/ Now(p, New("click", "begin"))
  /\ OnlyRow

\* The console settles an open charge: known to the ledger already, paid at the
\* gateway already, received in cash there now, or refused.
Reference(p) == IF job[p].gid = NoCharge THEN Cash ELSE job[p].gid

SettleUnrecorded(p) ==                                   \* mutant: paid there is paid here
  /\ At(p, "cash")
  /\ Goto(p, IF job[p].gid # NoCharge /\ gw[job[p].gid] = "paid" THEN "settled" ELSE "release")
  /\ OnlyJob

SettleAtGateway(p) ==
  /\ At(p, "cash")
  /\ LET g == job[p].gid IN
     \/ Reference(p) \in ledger /\ Goto(p, "settled") /\ UNCHANGED gw
     \/ /\ Reference(p) \notin ledger
        /\ \/ g = NoCharge /\ UNCHANGED gw
           \/ g # NoCharge /\ gw[g] \in {"live", "paid"} /\ gw' = [gw EXCEPT ![g] = "paid"]
        /\ Goto(p, "record")
     \/ g # NoCharge /\ Reference(p) \notin ledger /\ Goto(p, "release") /\ UNCHANGED gw
  /\ UNCHANGED <<row, gcard, sub, ledger, notes, stalls, crashes>>

SettleRecord(p) ==
  /\ At(p, "record")
  /\ ledger' = ledger \cup {Reference(p)}
  /\ Goto(p, "settled")
  /\ UNCHANGED <<row, gw, gcard, sub, notes, stalls, crashes>>

SettleClose(p) ==
  /\ At(p, "settled")
  /\ row' = PaidRow
  /\ Goto(p, "release")
  /\ OnlyRow

\* The unconditional release in the finally of both console gestures.
Release(p) ==
  /\ At(p, "release")
  /\ row' = Held(Free)
  /\ Finish(p)
  /\ OnlyRow

-----------------------------------------------------------------------------
(* The gateway, its webhook, and the passing of time.                      *)

\* The customer pays (a boleto already printed too, after its cancellation), or
\* the saved card is captured.
Pay(g) ==
  /\ gw[g] = "live" \/ (gw[g] = "gone" /\ g \notin gcard)
  /\ gw' = [gw EXCEPT ![g] = "paid"]
  /\ UNCHANGED <<row, gcard, sub, ledger, job, notes, stalls, crashes>>

\* A payment event is delivered, and again: only the first one is recorded, and
\* only the first one goes on to close the row.
WebhookRecord(g) ==
  /\ gw[g] = "paid" /\ g \notin ledger
  /\ ledger' = ledger \cup {g}
  /\ notes' = notes \cup {<<g, "settle">>}
  /\ UNCHANGED <<row, gw, gcard, sub, job, stalls, crashes>>

\* marcarCobrancaPaga: the row that holds this gateway id now.
WebhookSettle(g) ==
  /\ <<g, "settle">> \in notes
  /\ notes' = notes \ {<<g, "settle">>}
  /\ row' = IF row.gid = g /\ row.st # "paid" THEN [row EXCEPT !.st = "paid"] ELSE row
  /\ UNCHANGED <<gw, gcard, sub, ledger, job, stalls, crashes>>

\* TRANSICOES_DO_CICLO, and the two statements it guards: a reading of the row
\* and then a write on the row with that id.
MayBecome(to) == IF to = "overdue" THEN {"pending", "failed"} ELSE Open

LifecycleRead(g, to) ==
  /\ "lifecycle" \in Gestures
  /\ IF to = "overdue" THEN gw[g] \in {"live", "paid"} ELSE gw[g] = "gone"
  /\ row.gid = g /\ row.st \in MayBecome(to)
  /\ notes' = notes \cup {<<g, to>>}
  /\ UNCHANGED <<row, gw, gcard, sub, ledger, job, stalls, crashes>>

LifecycleWrite(g, to) ==
  /\ <<g, to>> \in notes
  /\ notes' = notes \ {<<g, to>>}
  /\ row' = [row EXCEPT !.st = to]
  /\ UNCHANGED <<gw, gcard, sub, ledger, job, stalls, crashes>>

\* The claim of a dead process runs out; the claim of a living one only when it
\* stalls for longer than CLAIM_MS.
Expire ==
  /\ row.claim = Dead
  /\ row' = Held(Free)
  /\ UNCHANGED job /\ OnlyRow

Stall ==
  /\ row.claim \in Procs /\ stalls < MaxStalls
  /\ row' = Held(Free)
  /\ stalls' = stalls + 1
  /\ UNCHANGED <<gw, gcard, sub, ledger, job, notes, crashes>>

\* A process dies between two steps. What it created and had not written down
\* is known to nobody.
Crash(p) ==
  /\ ~At(p, "idle") /\ crashes < MaxCrashes
  /\ crashes' = crashes + 1
  /\ row' = IF row.claim = p THEN Held(Dead) ELSE row
  /\ Finish(p)
  /\ UNCHANGED <<gw, gcard, sub, ledger, notes, stalls>>

\* A delivery dies between the ledger and the row.
DropNote(g) ==
  /\ <<g, "settle">> \in notes /\ crashes < MaxCrashes
  /\ crashes' = crashes + 1
  /\ notes' = notes \ {<<g, "settle">>}
  /\ UNCHANGED <<row, gw, gcard, sub, ledger, job, stalls>>

Step(p) ==
  \/ Begin(p) \/ ReadRow(p) \/ Defer(p) \/ Reopen(p) \/ ResetRead(p) \/ ResetWrite(p) \/ Claim(p)
  \/ Lookup(p) \/ Adopt(p) \/ AdoptSettle(p) \/ AdoptClose(p) \/ OpenRow(p)
  \/ Prepare(p) \/ Recheck(p) \/ Stop(p) \/ Drop(p)
  \/ CreateOk(p) \/ CreateLost(p) \/ CreateRefused(p) \/ CreateFailed(p)
  \/ MarkFailed(p) \/ MarkIssued(p) \/ UndoDuplicate(p) \/ AfterIssue(p)
  \/ Pull(p) \/ PullClose(p)
  \/ List(p) \/ Take(p) \/ Reread(p) \/ Wipe(p) \/ Close(p) \/ SetHold(p)
  \/ Remark(p) \/ Plan(p)
  \/ SettleAtGateway(p) \/ SettleRecord(p) \/ SettleClose(p) \/ Release(p)

Start(p) ==
  \/ StartPass(p, "auto") \/ ("click" \in Gestures /\ StartPass(p, "click"))
  \/ (~sub.exempt /\ Gesture(p, "reprice")) \/ Gesture(p, "cancel") \/ Gesture(p, "settle")
  \/ Exempt(p) \/ Retain(p)

World ==
  \/ \E g \in Charges :
       \/ Pay(g) \/ WebhookRecord(g) \/ WebhookSettle(g) \/ DropNote(g)
       \/ \E to \in {"overdue", "canceled"} : LifecycleRead(g, to) \/ LifecycleWrite(g, to)
  \/ Expire \/ Stall

Next == (\E p \in Procs : Start(p) \/ Step(p) \/ Crash(p)) \/ World

Spec == Init /\ [][Next]_vars

\* What runs on by itself: a process that is alive, the scheduler, the clock,
\* the gateway's redeliveries. Nobody has to click, pay or answer in time.
Fairness ==
  /\ \A p \in Procs : WF_vars(Step(p)) /\ WF_vars(StartPass(p, "auto"))
  /\ \A g \in Charges : WF_vars(WebhookRecord(g)) /\ WF_vars(WebhookSettle(g))
  /\ WF_vars(Expire)

FairSpec == Spec /\ Fairness

-----------------------------------------------------------------------------
(* What the proofs need besides the types.                                 *)

\* The steps that act on the charge the process has made or found.
Carrying == {"adoptlive", "adoptpaid", "adoptsettle", "adoptclose", "mark", "undo", "after",
             "pull", "pulled"}
HandsFull == \A p \in Procs : job[p].pc \in Carrying => job[p].made \in Charges

\* With clicks and reprices only, nothing but these steps is ever reached ...
Repricing == {"list", "take", "reread", "wipe", "reset", "resetw", "plan"}
Emitting == {"idle", "begin", "read", "claim", "lookup", "adoptlive", "adoptpaid", "adoptsettle",
             "adoptclose", "open", "prepare", "recheck", "call", "fail", "mark", "undo", "after"}
Quiet ==
  /\ ~sub.exempt /\ ~sub.hold
  /\ row.st \in {"none", "pending", "failed", "paid"}
  /\ notes \subseteq Charges \X {"settle"}
  /\ \A p \in Procs : /\ job[p].op \in {"none", "auto", "click", "reprice"}
                      /\ job[p].pc \in Emitting \cup Repricing
                      /\ job[p].pc \in Repricing => job[p].op = "reprice"

\* ... a row that is not there yet is nobody's ...
Seen ==
  row.st = "none" =>
    /\ row.claim = Free /\ row.gid = NoCharge
    /\ \A p \in Procs : job[p].pc \in {"idle", "begin", "read", "list", "open"}

\* ... and the claim says who works on it. Only the closing of an adopted payment
\* takes the claim from a reprice, and then the gateway refuses the withdrawal.
Firm == {"lookup", "adoptlive", "adoptpaid", "prepare", "recheck", "call", "fail", "mark",
         "reset", "resetw", "plan"}
Renewing == {"reset", "resetw", "plan"}
Settled == row.gid # NoCharge /\ gw[row.gid] = "paid"
Fits(p) ==
  /\ job[p].pc \in Firm => row.claim = p
  /\ job[p].pc \in Firm \ {"reset", "resetw"} => row.gid = NoCharge
  /\ job[p].pc \in {"reread", "wipe"} => row.claim = p \/ Settled
  /\ job[p].pc = "wipe" => job[p].gid = row.gid
  /\ job[p].pc = "adoptpaid" => gw[job[p].made] = "paid"
  /\ job[p].pc \in {"adoptsettle", "adoptclose"} => row.gid = job[p].made /\ Settled
Apart ==
  \A p, q \in Procs : job[p].pc \in Renewing =>
                      job[q].pc \notin {"adoptsettle", "adoptclose", "reread", "wipe"}
Owner == Apart /\ \A p \in Procs : Fits(p)

ExclusionInv ==
  TypeOK /\ HandsFull /\ Quiet /\ Seen /\ (stalls = 0 => Owner)

-----------------------------------------------------------------------------
(* Properties.                                                             *)

\* Between the claim and what gives it back: the steps of a pass that emits, and
\* of a reprice from the reset, once the old charge is withdrawn, to the new plan.
Holding(p) ==
  job[p].pc \in {"lookup", "prepare", "recheck", "stop", "drop", "call", "fail", "mark",
                 "reset", "resetw", "plan"}

\* While no claim expires under a living process, the claim keeps two processes
\* from emitting, or reissuing, the same row at once. The withdrawal itself (wipe) is not
\* among the steps: what it may do to a charge that can be paid is NeverForgets.
ClaimExclusive ==
  stalls = 0 => \A p, q \in Procs : p # q => ~(Holding(p) /\ Holding(q))

\* Every path through the code gives its claim back: a claimed row is claimed
\* by a process that still has something to do with it.
ClaimHasOwner == \A p \in Procs : row.claim = p => job[p].pc \notin {"idle", "begin", "after"}

\* A charge somebody can still find from here: the row's, or one in the hands
\* of the process that has just created it.
Known(g) ==
  row.gid = g \/ \E p \in Procs : job[p].made = g /\ job[p].pc \in {"mark", "undo"}

\* A charge the provider can still pay is never forgotten: only a crash, or a
\* duplicate the log asks to cancel by hand, leaves one behind. It is about charges
\* somebody knew: a boleto whose creation lost its answer nobody ever did.
NeverForgets ==
  [][\A g \in Charges :
       Known(g) /\ gw[g] = "live" /\ gw'[g] = "live" =>
         \/ Known(g)'
         \/ crashes' # crashes
         \/ \E p \in Procs : At(p, "undo") /\ job[p].made = g]_vars

\* The saved card is charged once for the period, whatever answers are lost: a
\* card attempt without an answer is looked up before another one.
OneCardCharge ==
  stalls = 0 => Cardinality({g \in gcard : gw[g] \in {"live", "paid"}}) <= 1

\* A row is paid only after a payment of its period went into the ledger; the
\* charge it was paid through need not be the row's any more.
PaidMeansRecorded == row.st = "paid" => ledger # {}

\* "Closing here a charge that is live at the gateway would be hiding a payment
\* link that still works" (chargeIssuingService.js:336).
CanceledIsWithdrawn == row.st = "canceled" /\ row.gid # NoCharge => gw[row.gid] # "live"

\* "Paid and refunded stay closed for everybody" (chargeIssuingService.js:1146):
\* no pass puts a charge on a row that is already paid.
PaidKeepsItsCharge == [][row.st = "paid" => row'.gid = row.gid]_vars

\* The scheduler alone brings an unissued row out of that state, through crashes
\* and lost answers: it goes out, is closed, or is given up after MaxTries.
Recovers ==
  (row.st \in Open /\ row.gid = NoCharge)
    ~> (row.gid # NoCharge \/ row.st \in Closed \/ row.tries = MaxTries)

\* No claim is for ever, not even that of a process that died with it.
ClaimReleased == (row.claim # Free) ~> (row.claim = Free)
=============================================================================
