--------------------- MODULE ChargeIssuing_claim_proofs ----------------------
(***************************************************************************)
(* Of every gesture, every answer of the gateway, every stall and crash:   *)
(* a claimed row is claimed by a process that still works on it            *)
(* (ClaimHasOwner), and a paid row has its payment in the ledger           *)
(* (PaidMeansRecorded). ClaimExcludes concerns clicks and reprices only;   *)
(* these two have no such premise.                                         *)
(***************************************************************************)
EXTENDS ChargeIssuing_proofs

\* The steps of a pass that was given a row without a charge ...
Unissued == {"lookup", "adoptlive", "adoptpaid", "prepare", "recheck", "stop", "drop", "call",
             "fail", "mark"}
\* ... and all those at which a process may have the claim.
Holds == Unissued \cup {"reset", "resetw", "plan", "reread", "wipe", "close", "cash", "record",
                        "settled", "release"}

\* Who has the claim is at such a step, and nobody has given the row a charge meanwhile:
\* every statement that writes a gateway id clears the claim, whoever had it.
HeldInv ==
  /\ row.st = "none" => row.gid = NoCharge
  /\ \A p \in Procs : row.claim = p => job[p].pc \in Holds
  /\ \A p \in Procs : row.claim = p /\ job[p].pc \in Unissued => row.gid = NoCharge

\* A payment is in the ledger before anybody goes on to close the row.
RecordedInv ==
  /\ row.st = "paid" => ledger # {}
  /\ \A p \in Procs : job[p].pc \in {"adoptclose", "settled"} => ledger # {}
  /\ \A g \in Charges : <<g, "settle">> \in notes => ledger # {}

\* Process p comes to step s; the others stay where they are.
To(p, s) == job'[p].pc = s /\ \A q \in Procs \ {p} : job'[q] = job[q]

\* What a step of p may do to the claim, to the row's charge and to the ledger.
ActMay(p) ==
  /\ \A q \in Procs \ {p} : job'[q] = job[q]
  /\ row'.claim \in {Free, Dead, p} \/ (row'.claim = row.claim /\ row'.gid = row.gid)
  /\ row'.st = "none" => row.st = "none" /\ row'.gid = row.gid
  /\ row'.st = "paid" => row.st = "paid" \/ job[p].pc \in {"adoptclose", "settled"}
  /\ job'[p].pc \in {"adoptclose", "settled"} => ledger' # {}
  /\ row'.claim = p => /\ job'[p].pc \in Holds
                       /\ job'[p].pc \in Unissued => row'.gid = NoCharge
  /\ ledger \subseteq ledger' /\ notes' = notes

\* Each form of a job's update, by the step it leads to.
LEMMA Tos ==
  ASSUME TypeOK, NEW p \in Procs
  PROVE /\ Finish(p) => To(p, "idle")
        /\ \A s : Goto(p, s) => To(p, s)
        /\ \A op, s : Now(p, New(op, s)) => To(p, s)
        /\ \A s, g :
             /\ Now(p, [job[p] EXCEPT !.gid = g, !.pc = s]) => To(p, s)
             /\ Now(p, [job[p] EXCEPT !.made = g, !.pc = s]) => To(p, s)
        /\ \A s, b :
             /\ Now(p, [job[p] EXCEPT !.asked = b, !.pc = s]) => To(p, s)
             /\ Now(p, [job[p] EXCEPT !.pc = s, !.card = b]) => To(p, s)
             /\ Now(p, [job[p] EXCEPT !.pc = s, !.asked = b]) => To(p, s)
        /\ \A b : Now(p, [job[p] EXCEPT !.card = b]) => To(p, job[p].pc)
<1>1. Finish(p) => To(p, "idle")
  BY Moves DEF Idles, Moved, To
<1>2. \A s : Goto(p, s) => To(p, s)
  <2> TAKE s
  <2>1. CASE s = "idle"
    BY <2>1, <1>1 DEF Goto
  <2>2. CASE s # "idle"
    BY <2>2, Moves DEF Advances, Moved, To
  <2> QED BY <2>1, <2>2
<1>3. \A op, s, g, m : Moved(p, op, s, g, m) => To(p, s)
  BY DEF Moved, To
<1>4. \A s : Advances(p, s) => To(p, s)
  BY DEF Advances, Moved, To
<1>5. \A op, s : Now(p, New(op, s)) => To(p, s)
  BY <1>3, Moves
<1>6. \A s, g :
        /\ Now(p, [job[p] EXCEPT !.gid = g, !.pc = s]) => To(p, s)
        /\ Now(p, [job[p] EXCEPT !.made = g, !.pc = s]) => To(p, s)
  <2> TAKE s, g
  <2>1. /\ Now(p, [job[p] EXCEPT !.gid = g, !.pc = s]) => Moved(p, job[p].op, s, g, job[p].made)
        /\ Now(p, [job[p] EXCEPT !.made = g, !.pc = s]) => Moved(p, job[p].op, s, job[p].gid, g)
    BY Moves
  <2> QED BY <2>1, <1>3
<1>7. \A s, b :
        /\ Now(p, [job[p] EXCEPT !.asked = b, !.pc = s]) => To(p, s)
        /\ Now(p, [job[p] EXCEPT !.pc = s, !.card = b]) => To(p, s)
        /\ Now(p, [job[p] EXCEPT !.pc = s, !.asked = b]) => To(p, s)
  BY <1>4, Moves
<1>8. \A b : Now(p, [job[p] EXCEPT !.card = b]) => To(p, job[p].pc)
  <2> TAKE b
  <2>1. Now(p, [job[p] EXCEPT !.card = b]) => Advances(p, job[p].pc)
    BY Moves
  <2> QED BY <2>1, <1>4
<1> QED BY <1>1, <1>2, <1>5, <1>6, <1>7, <1>8

\* A cancellation keeps the gateway id and clears the claim.
LEMMA CancelledRow ==
  ASSUME TypeOK
  PROVE  \A m : row' = Cancelled(m) => RowIs("canceled", row.gid, Free)
  BY DEF TypeOK, Row, Cancelled, RowIs

-----------------------------------------------------------------------------
\* One case per action.
LEMMA StepMay ==
  ASSUME ConstantsAssumption, TypeOK, HeldInv, RecordedInv, NEW p \in Procs, Step(p)
  PROVE  ActMay(p)
<1> Free # p /\ Dead # p
  BY DEF ConstantsAssumption
<1> row.claim = p => job[p].pc \in Holds
  BY DEF HeldInv
<1> row.claim = p /\ job[p].pc \in Unissued => row.gid = NoCharge
  BY DEF HeldInv
<1> row.st = "none" => row.gid = NoCharge
  BY DEF HeldInv
<1> USE DEF Holds, Unissued
<1>1. CASE Begin(p)
  <2>1. job[p].pc = "begin" /\ ledger \subseteq ledger' /\ notes' = notes
    BY <1>1 DEF Begin, At, OnlyJob, OnlyRow
  <2>2. RowKept /\ (\E s \in {"idle", "list", "read"} : To(p, s))
    BY <1>1, Tos, Rows, CancelledRow DEF Begin, OnlyJob
  <2> QED BY <2>1, <2>2 DEF ActMay, To, RowIs, RowKept
<1>2. CASE ReadRow(p)
  <2>1. job[p].pc \in {"read", "again"} /\ ledger \subseteq ledger' /\ notes' = notes
    BY <1>2 DEF ReadRow, At, OnlyJob, Verdict, OnlyRow
  <2>2. RowKept /\ (\E s \in {"idle", "open", "reopen", "claim"} : To(p, s))
    BY <1>2, Tos, Rows, CancelledRow DEF ReadRow, OnlyJob, Verdict
  <2> QED BY <2>1, <2>2 DEF ActMay, To, RowIs, RowKept
<1>3. CASE Defer(p)
  <2>1. job[p].pc \in {"read", "again"} /\ ledger \subseteq ledger' /\ notes' = notes
    BY <1>3 DEF Defer, At, OnlyRow
  <2>2. RowKept /\ To(p, "idle")
    BY <1>3, Tos, Rows, CancelledRow DEF Defer
  <2> QED BY <2>1, <2>2 DEF ActMay, To, RowIs, RowKept
<1>4. CASE Reopen(p)
  <2>1. job[p].pc = "reopen" /\ ledger \subseteq ledger' /\ notes' = notes
    BY <1>4 DEF Reopen, At, OnlyRow
  <2>2. \/ RowIs(row.st, row.gid, p) /\ To(p, "reset")
        \/ RowKept /\ To(p, "idle")
    BY <1>4, Tos, Rows, CancelledRow DEF Reopen
  <2> QED BY <2>1, <2>2 DEF ActMay, To, RowIs, RowKept
<1>5. CASE ResetRead(p)
  <2>1. job[p].pc = "reset" /\ ledger \subseteq ledger' /\ notes' = notes
    BY <1>5 DEF ResetRead, At, OnlyJob, OnlyRow
  <2>2. RowKept /\ To(p, "resetw")
    BY <1>5, Tos, Rows, CancelledRow DEF ResetRead, OnlyJob
  <2> QED BY <2>1, <2>2 DEF ActMay, To, RowIs, RowKept
<1>6. CASE ResetWrite(p)
  <2>1. job[p].pc = "resetw" /\ ledger \subseteq ledger' /\ notes' = notes
    BY <1>6 DEF ResetWrite, At, OnlyRow
  <2>2. \/ RowIs("pending", NoCharge, p) /\ To(p, "plan")
        \/ RowIs("pending", NoCharge, Free) /\ (\E s \in {"again", "idle"} : To(p, s))
        \/ RowIs(row.st, row.gid, Free) /\ (\E s \in {"again", "idle"} : To(p, s))
    <3>1. CASE row.gid = job[p].gid
      <4>1. CASE job[p].op = "reprice"
        <5>1. row' = Reissuable(p) /\ Now(p, [job[p] EXCEPT !.gid = NoCharge, !.pc = "plan"])
          BY <1>6, <3>1, <4>1 DEF ResetWrite
        <5> QED BY <5>1, Tos, Rows
      <4>2. CASE job[p].op = "click"
        <5>1. row' = Reissuable(Free) /\ Now(p, [job[p] EXCEPT !.gid = NoCharge, !.pc = "again"])
          BY <1>6, <3>1, <4>2 DEF ResetWrite
        <5> QED BY <5>1, Tos, Rows
      <4>3. CASE job[p].op \notin {"reprice", "click"}
        <5>1. row' = Reissuable(Free) /\ Finish(p)
          BY <1>6, <3>1, <4>3 DEF ResetWrite, Finish
        <5> QED BY <5>1, Tos, Rows
      <4> QED BY <4>1, <4>2, <4>3
    <3>2. CASE row.gid # job[p].gid
      <4>1. /\ row' = Held(Free)
            /\ \/ Now(p, [job[p] EXCEPT !.gid = NoCharge, !.pc = "again"])
               \/ Finish(p)
        BY <1>6, <3>2 DEF ResetWrite, Finish
      <4> QED BY <4>1, Tos, Rows
    <3> QED BY <3>1, <3>2
  <2> QED BY <2>1, <2>2 DEF ActMay, To, RowIs, RowKept
<1>7. CASE Claim(p)
  <2>1. job[p].pc = "claim" /\ ledger \subseteq ledger' /\ notes' = notes
    BY <1>7 DEF Claim, At, CanClaim, OnlyRow
  <2>2. \/ row.gid = NoCharge /\ RowIs(row.st, row.gid, p) /\ (\E s \in {"lookup", "prepare"} : To(p, s))
        \/ RowKept /\ To(p, "idle")
    BY <1>7, Tos, Rows, CancelledRow DEF Claim, CanClaim
  <2> QED BY <2>1, <2>2 DEF ActMay, To, RowIs, RowKept
<1>8. CASE Lookup(p)
  <2>1. job[p].pc = "lookup" /\ ledger \subseteq ledger' /\ notes' = notes
    BY <1>8 DEF Lookup, At, OnlyJob, OnlyRow
  <2>2. RowKept /\ (\E s \in {"prepare", "fail", "adoptpaid", "adoptlive"} : To(p, s))
    BY <1>8, Tos, Rows, CancelledRow DEF Lookup, OnlyJob
  <2> QED BY <2>1, <2>2 DEF ActMay, To, RowIs, RowKept
<1>9. CASE Adopt(p)
  <2>1. job[p].pc \in {"adoptpaid", "adoptlive"} /\ ledger \subseteq ledger' /\ notes' = notes
    BY <1>9 DEF Adopt, At, OnlyRow
  <2>2. \/ row.gid = NoCharge /\ RowIs("pending", job[p].made, Free) /\ (\E s \in {"idle", "adoptsettle"} : To(p, s))
        \/ row.gid # NoCharge /\ RowKept /\ (\E s \in {"idle", "adoptsettle"} : To(p, s))
    BY <1>9, Tos, Rows, CancelledRow DEF Adopt
  <2> QED BY <2>1, <2>2 DEF ActMay, To, RowIs, RowKept
<1>10. CASE AdoptSettle(p)
  <2>1. job[p].pc = "adoptsettle" /\ ledger \subseteq ledger' /\ notes' = notes
    BY <1>10 DEF AdoptSettle, At, OnlyRow
  <2>2. \/ RowKept /\ To(p, "idle")
        \/ RowKept /\ To(p, "adoptclose") /\ ledger' # {}
    BY <1>10, Tos, Rows, CancelledRow DEF AdoptSettle
  <2> QED BY <2>1, <2>2 DEF ActMay, To, RowIs, RowKept
<1>11. CASE AdoptClose(p)
  <2>1. job[p].pc = "adoptclose" /\ ledger \subseteq ledger' /\ notes' = notes
    BY <1>11 DEF AdoptClose, At, OnlyRow
  <2>2. RowIs("paid", row.gid, Free) /\ To(p, "idle")
    BY <1>11, Tos, Rows, CancelledRow DEF AdoptClose
  <2> QED BY <2>1, <2>2 DEF ActMay, To, RowIs, RowKept
<1>12. CASE OpenRow(p)
  <2>1. job[p].pc = "open" /\ ledger \subseteq ledger' /\ notes' = notes
    BY <1>12 DEF OpenRow, At, OnlyRow
  <2>2. \/ row.st = "none" /\ RowIs("pending", row.gid, p) /\ To(p, "prepare")
        \/ RowKept /\ To(p, "idle")
    BY <1>12, Tos, Rows, CancelledRow DEF OpenRow
  <2> QED BY <2>1, <2>2 DEF ActMay, To, RowIs, RowKept
<1>13. CASE Prepare(p)
  <2>1. job[p].pc = "prepare" /\ ledger \subseteq ledger' /\ notes' = notes
    BY <1>13 DEF Prepare, At, OnlyRow
  <2>2. RowKept /\ To(p, "recheck")
    BY <1>13, Tos, Rows, CancelledRow DEF Prepare
  <2> QED BY <2>1, <2>2 DEF ActMay, To, RowIs, RowKept
<1>14. CASE Recheck(p)
  <2>1. job[p].pc = "recheck" /\ ledger \subseteq ledger' /\ notes' = notes
    BY <1>14 DEF Recheck, At, OnlyRow
  <2>2. RowKept /\ (\E s \in {"stop", "drop", "call"} : To(p, s))
    BY <1>14, Tos, Rows, CancelledRow DEF Recheck
  <2> QED BY <2>1, <2>2 DEF ActMay, To, RowIs, RowKept
<1>15. CASE Stop(p)
  <2>1. job[p].pc = "stop" /\ ledger \subseteq ledger' /\ notes' = notes
    BY <1>15 DEF Stop, At, OnlyRow
  <2>2. RowIs("canceled", row.gid, Free) /\ To(p, "idle")
    BY <1>15, Tos, Rows, CancelledRow DEF Stop
  <2> QED BY <2>1, <2>2 DEF ActMay, To, RowIs, RowKept
<1>16. CASE Drop(p)
  <2>1. job[p].pc = "drop" /\ ledger \subseteq ledger' /\ notes' = notes
    BY <1>16 DEF Drop, At, OnlyRow
  <2>2. RowIs(row.st, row.gid, Free) /\ To(p, "idle")
    BY <1>16, Tos, Rows, CancelledRow DEF Drop
  <2> QED BY <2>1, <2>2 DEF ActMay, To, RowIs, RowKept
<1>17. CASE CreateOk(p)
  <2>1. job[p].pc = "call" /\ ledger \subseteq ledger' /\ notes' = notes
    BY <1>17 DEF CreateOk, At, OnlyRow
  <2>2. RowKept /\ To(p, "mark")
    BY <1>17, Tos, Rows, CancelledRow DEF CreateOk
  <2> QED BY <2>1, <2>2 DEF ActMay, To, RowIs, RowKept
<1>18. CASE CreateLost(p)
  <2>1. job[p].pc = "call" /\ ledger \subseteq ledger' /\ notes' = notes
    BY <1>18 DEF CreateLost, At, OnlyRow
  <2>2. RowKept /\ To(p, "fail")
    BY <1>18, Tos, Rows, CancelledRow DEF CreateLost
  <2> QED BY <2>1, <2>2 DEF ActMay, To, RowIs, RowKept
<1>19. CASE CreateRefused(p)
  <2>1. job[p].pc = "call" /\ ledger \subseteq ledger' /\ notes' = notes
    BY <1>19 DEF CreateRefused, At, OnlyRow
  <2>2. RowKept /\ To(p, "call")
    <3>1. row' = OnCard(FALSE) /\ Now(p, [job[p] EXCEPT !.card = FALSE])
      BY <1>19 DEF CreateRefused
    <3>2. To(p, job[p].pc)
      BY <3>1, Tos
    <3> QED BY <2>1, <3>1, <3>2, Rows
  <2> QED BY <2>1, <2>2 DEF ActMay, To, RowIs, RowKept
<1>20. CASE CreateFailed(p)
  <2>1. job[p].pc = "call" /\ ledger \subseteq ledger' /\ notes' = notes
    BY <1>20 DEF CreateFailed, At, OnlyRow
  <2>2. RowKept /\ To(p, "fail")
    BY <1>20, Tos, Rows, CancelledRow DEF CreateFailed
  <2> QED BY <2>1, <2>2 DEF ActMay, To, RowIs, RowKept
<1>21. CASE MarkFailed(p)
  <2>1. job[p].pc = "fail" /\ ledger \subseteq ledger' /\ notes' = notes
    BY <1>21 DEF MarkFailed, At, OnlyRow
  <2>2. RowIs("failed", row.gid, Free) /\ To(p, "idle")
    BY <1>21, Tos, Rows, CancelledRow DEF MarkFailed
  <2> QED BY <2>1, <2>2 DEF ActMay, To, RowIs, RowKept
<1>22. CASE MarkIssued(p)
  <2>1. job[p].pc = "mark" /\ ledger \subseteq ledger' /\ notes' = notes
    BY <1>22 DEF MarkIssued, At, OnlyRow
  <2>2. \/ RowIs("pending", job[p].made, Free) /\ To(p, "after")
        \/ row.gid # NoCharge /\ RowKept /\ To(p, "undo")
    BY <1>22, Tos, Rows, CancelledRow DEF MarkIssued
  <2> QED BY <2>1, <2>2 DEF ActMay, To, RowIs, RowKept
<1>23. CASE UndoDuplicate(p)
  <2>1. job[p].pc = "undo" /\ ledger \subseteq ledger' /\ notes' = notes
    BY <1>23 DEF UndoDuplicate, At, OnlyRow
  <2>2. RowKept /\ To(p, "idle")
    BY <1>23, Tos, Rows, CancelledRow DEF UndoDuplicate
  <2> QED BY <2>1, <2>2 DEF ActMay, To, RowIs, RowKept
<1>24. CASE AfterIssue(p)
  <2>1. job[p].pc = "after" /\ ledger \subseteq ledger' /\ notes' = notes
    BY <1>24 DEF AfterIssue, At, OnlyJob, OnlyRow
  <2>2. RowKept /\ (\E s \in {"idle", "pull"} : To(p, s))
    BY <1>24, Tos, Rows, CancelledRow DEF AfterIssue, OnlyJob
  <2> QED BY <2>1, <2>2 DEF ActMay, To, RowIs, RowKept
<1>25. CASE Pull(p)
  <2>1. job[p].pc = "pull" /\ ledger \subseteq ledger' /\ notes' = notes
    BY <1>25 DEF Pull, At, OnlyRow
  <2>2. RowKept /\ (\E s \in {"idle", "pulled"} : To(p, s))
    BY <1>25, Tos, Rows, CancelledRow DEF Pull
  <2> QED BY <2>1, <2>2 DEF ActMay, To, RowIs, RowKept
<1>26. CASE PullClose(p)
  <2>1. job[p].pc = "pulled" /\ ledger \subseteq ledger' /\ notes' = notes
    BY <1>26 DEF PullClose, At, OnlyRow
  <2>2. RowIs("canceled", row.gid, Free) /\ To(p, "idle")
    BY <1>26, Tos, Rows, CancelledRow DEF PullClose
  <2> QED BY <2>1, <2>2 DEF ActMay, To, RowIs, RowKept
<1>27. CASE List(p)
  <2>1. job[p].pc = "list" /\ ledger \subseteq ledger' /\ notes' = notes
    BY <1>27 DEF List, At, OnlyJob, AfterList, OnlyRow
  <2>2. RowKept /\ (\E s \in {"take", "sethold", "idle"} : To(p, s))
    BY <1>27, Tos, Rows, CancelledRow DEF List, OnlyJob, AfterList
  <2> QED BY <2>1, <2>2 DEF ActMay, To, RowIs, RowKept
<1>28. CASE Take(p)
  <2>1. job[p].pc = "take" /\ ledger \subseteq ledger' /\ notes' = notes
    BY <1>28 DEF Take, At, OnlyRow
  <2>2. \/ RowIs(row.st, row.gid, p) /\ (\E s \in {"reread", "cash", "wipe"} : To(p, s))
        \/ RowKept /\ To(p, "idle")
    BY <1>28, Tos, Rows, CancelledRow DEF Take
  <2> QED BY <2>1, <2>2 DEF ActMay, To, RowIs, RowKept
<1>29. CASE Reread(p)
  <2>1. job[p].pc = "reread" /\ ledger \subseteq ledger' /\ notes' = notes
    BY <1>29 DEF Reread, At, OnlyRow
  <2>2. \/ RowKept /\ To(p, "wipe")
        \/ RowIs(row.st, row.gid, Free) /\ To(p, "idle")
    BY <1>29, Tos, Rows, CancelledRow DEF Reread
  <2> QED BY <2>1, <2>2 DEF ActMay, To, RowIs, RowKept
<1>30. CASE Wipe(p)
  <2>1. job[p].pc = "wipe" /\ ledger \subseteq ledger' /\ notes' = notes
    BY <1>30 DEF Wipe, At, OnlyRow
  <2>2. \/ RowKept /\ (\E s \in {"reset", "close"} : To(p, s))
        \/ RowIs(row.st, row.gid, Free) /\ To(p, "idle")
    BY <1>30, Tos, Rows, CancelledRow DEF Wipe
  <2> QED BY <2>1, <2>2 DEF ActMay, To, RowIs, RowKept
<1>31. CASE Close(p)
  <2>1. job[p].pc = "close" /\ ledger \subseteq ledger' /\ notes' = notes
    BY <1>31 DEF Close, At, AfterList, OnlyRow
  <2>2. RowIs("canceled", row.gid, Free) /\ (\E s \in {"release", "sethold", "idle"} : To(p, s))
    BY <1>31, Tos, Rows, CancelledRow DEF Close, AfterList
  <2> QED BY <2>1, <2>2 DEF ActMay, To, RowIs, RowKept
<1>32. CASE SetHold(p)
  <2>1. job[p].pc = "sethold" /\ ledger \subseteq ledger' /\ notes' = notes
    BY <1>32 DEF SetHold, At, OnlyRow
  <2>2. RowKept /\ (\E s \in {"idle", "list"} : To(p, s))
    BY <1>32, Tos, Rows, CancelledRow DEF SetHold
  <2> QED BY <2>1, <2>2 DEF ActMay, To, RowIs, RowKept
<1>33. CASE Remark(p)
  <2>1. job[p].pc = "remark" /\ ledger \subseteq ledger' /\ notes' = notes
    BY <1>33 DEF Remark, At, OnlyRow
  <2>2. \/ RowIs(row.st, row.gid, p) /\ To(p, "reset")
        \/ RowKept /\ To(p, "idle")
    BY <1>33, Tos, Rows, CancelledRow DEF Remark
  <2> QED BY <2>1, <2>2 DEF ActMay, To, RowIs, RowKept
<1>34. CASE Plan(p)
  <2>1. job[p].pc = "plan" /\ ledger \subseteq ledger' /\ notes' = notes
    BY <1>34 DEF Plan, At, OnlyRow
  <2>2. RowIs(row.st, row.gid, Free) /\ (\E s \in {"idle", "begin"} : To(p, s))
    BY <1>34, Tos, Rows, CancelledRow DEF Plan
  <2> QED BY <2>1, <2>2 DEF ActMay, To, RowIs, RowKept
<1>35. CASE SettleAtGateway(p)
  <2>1. job[p].pc = "cash" /\ ledger \subseteq ledger' /\ notes' = notes
    BY <1>35 DEF SettleAtGateway, At, OnlyRow
  <2>2. \/ RowKept /\ (\E s \in {"record", "release"} : To(p, s))
        \/ RowKept /\ To(p, "settled") /\ ledger # {}
    BY <1>35, Tos, Rows, CancelledRow DEF SettleAtGateway
  <2> QED BY <2>1, <2>2 DEF ActMay, To, RowIs, RowKept
<1>36. CASE SettleRecord(p)
  <2>1. job[p].pc = "record" /\ ledger \subseteq ledger' /\ notes' = notes
    BY <1>36 DEF SettleRecord, At, OnlyRow
  <2>2. RowKept /\ To(p, "settled") /\ ledger' # {}
    BY <1>36, Tos, Rows, CancelledRow DEF SettleRecord
  <2> QED BY <2>1, <2>2 DEF ActMay, To, RowIs, RowKept
<1>37. CASE SettleClose(p)
  <2>1. job[p].pc = "settled" /\ ledger \subseteq ledger' /\ notes' = notes
    BY <1>37 DEF SettleClose, At, OnlyRow
  <2>2. RowIs("paid", row.gid, Free) /\ To(p, "release")
    BY <1>37, Tos, Rows, CancelledRow DEF SettleClose
  <2> QED BY <2>1, <2>2 DEF ActMay, To, RowIs, RowKept
<1>38. CASE Release(p)
  <2>1. job[p].pc = "release" /\ ledger \subseteq ledger' /\ notes' = notes
    BY <1>38 DEF Release, At, OnlyRow
  <2>2. RowIs(row.st, row.gid, Free) /\ To(p, "idle")
    BY <1>38, Tos, Rows, CancelledRow DEF Release
  <2> QED BY <2>1, <2>2 DEF ActMay, To, RowIs, RowKept
<1> QED BY <1>1, <1>2, <1>3, <1>4, <1>5, <1>6, <1>7, <1>8, <1>9, <1>10, <1>11, <1>12, <1>13, <1>14, <1>15, <1>16, <1>17, <1>18, <1>19, <1>20, <1>21, <1>22, <1>23, <1>24, <1>25, <1>26, <1>27, <1>28, <1>29, <1>30, <1>31, <1>32, <1>33, <1>34, <1>35, <1>36, <1>37, <1>38 DEF Step

\* A job begins without the claim.
LEMMA StartMay ==
  ASSUME ConstantsAssumption, TypeOK, HeldInv, NEW p \in Procs, Start(p)
  PROVE  ActMay(p)
<1>1. job[p].pc = "idle" /\ ledger' = ledger /\ notes' = notes
  BY DEF Start, StartPass, Gesture, Exempt, Retain, StartJob, At, OnlyJob, OnlyRow
<1>2. RowKept
  BY Rows DEF Start, StartPass, Gesture, Exempt, Retain, OnlyJob
<1>3. \E s \in {"begin", "list", "remark"} : To(p, s)
  BY Tos DEF Start, StartPass, Gesture, Exempt, Retain, StartJob
<1>4. row.claim # p
  BY <1>1 DEF HeldInv, Holds, Unissued
<1> QED BY <1>1, <1>2, <1>3, <1>4 DEF ActMay, To, RowIs, RowKept

\* The claim of who dies is nobody's.
LEMMA CrashMay ==
  ASSUME ConstantsAssumption, TypeOK, NEW p \in Procs, Crash(p)
  PROVE  ActMay(p)
<1>1. ledger' = ledger /\ notes' = notes
  BY DEF Crash
<1>2. To(p, "idle")
  BY Tos DEF Crash
<1>3. \/ RowIs(row.st, row.gid, Dead)
      \/ row.claim # p /\ RowKept
  BY Rows DEF Crash
<1>4. Dead # p
  BY DEF ConstantsAssumption
<1> QED BY <1>1, <1>2, <1>3, <1>4 DEF ActMay, To, RowIs, RowKept

-----------------------------------------------------------------------------
\* ActMay keeps both invariants.
LEMMA ActKeeps ==
  ASSUME ConstantsAssumption, TypeOK, HeldInv, RecordedInv, NEW p \in Procs, ActMay(p)
  PROVE  HeldInv' /\ RecordedInv'
<1> Free \notin Procs /\ Dead \notin Procs
  BY DEF ConstantsAssumption
<1>1. (row.st = "none" => row.gid = NoCharge)'
  BY DEF HeldInv, ActMay
<1>2. ASSUME NEW q \in Procs, row'.claim = q
      PROVE  /\ job'[q].pc \in Holds
             /\ job'[q].pc \in Unissued => row'.gid = NoCharge
  <2>1. CASE q = p
    BY <1>2, <2>1 DEF ActMay
  <2>2. CASE q # p
    BY <1>2, <2>2 DEF ActMay, HeldInv
  <2> QED BY <2>1, <2>2
<1>3. HeldInv'
  BY <1>1, <1>2 DEF HeldInv
<1>4. CASE ledger # {}
  <2>1. ledger' # {}
    BY <1>4 DEF ActMay
  <2> QED BY <1>3, <2>1 DEF RecordedInv
<1>5. CASE ledger = {}
  <2>1. row'.st # "paid"
    BY <1>5 DEF ActMay, RecordedInv
  <2>2. \A q \in Procs : job'[q].pc \in {"adoptclose", "settled"} => ledger' # {}
    BY <1>5 DEF ActMay, RecordedInv
  <2>3. \A g \in Charges : <<g, "settle">> \notin notes'
    BY <1>5 DEF ActMay, RecordedInv
  <2> QED BY <1>3, <2>1, <2>2, <2>3 DEF RecordedInv
<1> QED BY <1>3, <1>4, <1>5

\* The gateway, its webhook and the clock write no gateway id.
LEMMA WorldKeeps ==
  ASSUME ConstantsAssumption, TypeOK, HeldInv, RecordedInv, World
  PROVE  HeldInv' /\ RecordedInv'
<1> Free \notin Procs /\ Dead \notin Procs
  BY DEF ConstantsAssumption
<1>1. job' = job
  BY DEF World, Pay, WebhookRecord, WebhookSettle, DropNote, LifecycleRead, LifecycleWrite,
         Expire, Stall
<1>2. /\ ledger \subseteq ledger'
      /\ notes' \subseteq notes \/ ledger' # {} \/ \E g \in Charges, to \in {"overdue", "canceled"} :
                                                     notes' = notes \cup {<<g, to>>}
  BY DEF World, Pay, WebhookRecord, WebhookSettle, DropNote, LifecycleRead, LifecycleWrite,
         Expire, Stall, OnlyRow
<1>3. \/ RowKept
      \/ RowIs(row.st, row.gid, Free)
      \/ \E st \in {"overdue", "canceled"} : RowIs(st, row.gid, row.claim)
      \/ RowIs("paid", row.gid, row.claim) /\ \E g \in Charges : <<g, "settle">> \in notes
  <2>1. CASE \E g \in Charges : Pay(g) \/ WebhookRecord(g) \/ DropNote(g)
    BY <2>1, Rows DEF Pay, WebhookRecord, DropNote
  <2>2. CASE \E g \in Charges : WebhookSettle(g)
    BY <2>2, Rows DEF WebhookSettle
  <2>3. CASE \E g \in Charges, to \in {"overdue", "canceled"} : LifecycleRead(g, to) \/ LifecycleWrite(g, to)
    BY <2>3, Rows DEF LifecycleRead, LifecycleWrite
  <2>4. CASE Expire \/ Stall
    BY <2>4, Rows DEF Expire, Stall
  <2> QED BY <2>1, <2>2, <2>3, <2>4 DEF World
<1>4. HeldInv'
  BY <1>1, <1>3 DEF HeldInv, RowIs, RowKept
<1>5. CASE ledger' # {}
  BY <1>4, <1>5 DEF RecordedInv
<1>6. CASE ledger' = {}
  <2>1. ledger = {}
    BY <1>2, <1>6
  <2>2. \A g \in Charges : <<g, "settle">> \notin notes
    BY <2>1 DEF RecordedInv
  <2>3. row'.st # "paid"
    BY <1>3, <2>1, <2>2 DEF RowIs, RowKept, RecordedInv
  <2>4. \A g \in Charges : <<g, "settle">> \notin notes'
    <3>1. CASE notes' \subseteq notes
      BY <3>1, <2>2
    <3>2. CASE \E h \in Charges, to \in {"overdue", "canceled"} : notes' = notes \cup {<<h, to>>}
      <4>1. PICK h \in Charges, to \in {"overdue", "canceled"} : notes' = notes \cup {<<h, to>>}
        BY <3>2
      <4>2. \A g : <<g, "settle">> # <<h, to>>
        OBVIOUS
      <4> QED BY <4>1, <4>2, <2>2
    <3> QED BY <1>2, <1>6, <3>1, <3>2
  <2>5. \A q \in Procs : job'[q].pc \notin {"adoptclose", "settled"}
    BY <1>1, <2>1 DEF RecordedInv
  <2> QED BY <1>4, <2>3, <2>4, <2>5 DEF RecordedInv
<1> QED BY <1>4, <1>5, <1>6

LEMMA KeepsAll ==
  ASSUME ConstantsAssumption, TypeOK, HeldInv, RecordedInv, [Next]_vars
  PROVE  HeldInv' /\ RecordedInv'
<1>1. CASE \E p \in Procs : Start(p) \/ Step(p) \/ Crash(p)
  BY <1>1, StartMay, StepMay, CrashMay, ActKeeps
<1>2. CASE World
  BY <1>2, WorldKeeps
<1>3. CASE UNCHANGED vars
  BY <1>3 DEF vars, HeldInv, RecordedInv
<1> QED BY <1>1, <1>2, <1>3 DEF Next

LEMMA HeldAndRecorded == Spec => [](TypeInv /\ HeldInv /\ RecordedInv)
<1>1. Init => TypeInv /\ HeldInv /\ RecordedInv
  <2> SUFFICES ASSUME Init PROVE HeldInv /\ RecordedInv
    BY TypeInit, ConstantsAssumption
  <2>1. row.claim = Free /\ row.gid = NoCharge /\ row.st = "none" /\ notes = {}
        /\ \A p \in Procs : job[p].pc = "idle"
    BY DEF Init, IdleJob
  <2> QED BY <2>1, ConstantsAssumption DEF ConstantsAssumption, HeldInv, RecordedInv
<1>2. TypeInv /\ HeldInv /\ RecordedInv /\ [Next]_vars => (TypeInv /\ HeldInv /\ RecordedInv)'
  BY TypeStep, KeepsAll, ConstantsAssumption DEF TypeInv
<1> QED BY <1>1, <1>2, PTL DEF Spec

\* No path gives up with the claim: whatever process, gesture, stall or crash, a claimed row
\* is claimed by somebody who is at a step that will give it back.
THEOREM ClaimHasOwnerAlways == Spec => []ClaimHasOwner
<1>1. TypeInv /\ HeldInv /\ RecordedInv => ClaimHasOwner
  BY DEF HeldInv, Holds, Unissued, ClaimHasOwner
<1> QED BY <1>1, HeldAndRecorded, PTL

\* The panel says "paid" only of a period some payment of which is in the ledger, whoever
\* closes the row and whichever charge was paid.
THEOREM PaidMeansRecordedAlways == Spec => []PaidMeansRecorded
<1>1. TypeInv /\ HeldInv /\ RecordedInv => PaidMeansRecorded
  BY DEF RecordedInv, PaidMeansRecorded
<1> QED BY <1>1, HeldAndRecorded, PTL
=============================================================================
