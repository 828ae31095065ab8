------------------------ MODULE ChargeIssuing_proofs ------------------------
(***************************************************************************)
(* The types of ChargeIssuing for every value of its constants; and        *)
(* ClaimExclusive for every number of processes and charges, every answer  *)
(* of the gateway and every crash, when the row is issued, clicked and     *)
(* repriced.                                                               *)
(***************************************************************************)
EXTENDS ChargeIssuing, TLAPS

-----------------------------------------------------------------------------
(* The rows and the jobs the actions write.                                *)

\* The rows the statements of the model write are rows.
LEMMA RowTypes ==
  ASSUME ConstantsAssumption, TypeOK
  PROVE /\ \A c \in Procs \cup {Free, Dead} : Held(c) \in Row /\ Reissuable(c) \in Row
        /\ \A b \in BOOLEAN : OnCard(b) \in Row /\ \A p \in Procs : Opened(p, b) \in Row
        /\ \A g \in Charges \cup {NoCharge} : Issued(g) \in Row
        /\ \A b \in BOOLEAN, g \in Charges \cup {NoCharge} : [Issued(g) EXCEPT !.card = b] \in Row
        /\ \A m \in {"none", "exempt", "retention"} : Cancelled(m) \in Row
        /\ \A st \in Statuses : [row EXCEPT !.st = st] \in Row
        /\ PaidRow \in Row /\ Failed \in Row /\ row \in Row /\ [row EXCEPT !.tries = 0] \in Row
        /\ \A b \in BOOLEAN : [row EXCEPT !.card = b, !.tries = 0] \in Row
        /\ \A op \in Ops : LeftOpen(op) \in Row
<1> row \in Row
  BY DEF TypeOK
<1> 0 \in 0..MaxTries
  BY DEF ConstantsAssumption
<1>1. ASSUME NEW c \in Procs \cup {Free, Dead} PROVE Held(c) \in Row /\ Reissuable(c) \in Row
  <2>1. Held(c) \in Row
    BY DEF Held, Row
  <2>2. Reissuable(c) \in Row
    BY DEF Reissuable, Row, Statuses, Open
  <2> QED
    BY <2>1, <2>2
<1>2. ASSUME NEW b \in BOOLEAN PROVE OnCard(b) \in Row /\ \A p \in Procs : Opened(p, b) \in Row
  BY DEF OnCard, Opened, Row, Statuses, Open
<1>3. ASSUME NEW g \in Charges \cup {NoCharge}
      PROVE Issued(g) \in Row /\ \A b \in BOOLEAN : [Issued(g) EXCEPT !.card = b] \in Row
  <2>1. Issued(g) \in Row
    BY DEF Issued, Row, Statuses, Open
  <2> QED
    BY <2>1 DEF Row
<1>4. ASSUME NEW m \in {"none", "exempt", "retention"} PROVE Cancelled(m) \in Row
  BY DEF Cancelled, Row, Statuses, Closed
<1>5. PaidRow \in Row
  BY DEF PaidRow, Row, Statuses, Closed
<1>6. Failed \in Row
  <2>1. (IF row.tries < MaxTries THEN row.tries + 1 ELSE row.tries) \in 0..MaxTries
    BY DEF Row, ConstantsAssumption
  <2> QED
    BY <2>1 DEF Failed, Row, Statuses, Open
<1>7. [row EXCEPT !.tries = 0] \in Row
  BY DEF Row
<1>8. \A b \in BOOLEAN : [row EXCEPT !.card = b, !.tries = 0] \in Row
  BY DEF Row
<1>9. \A st \in Statuses : [row EXCEPT !.st = st] \in Row
  BY DEF Row
<1>10. \A op \in Ops : LeftOpen(op) \in Row
  BY DEF LeftOpen, Row
<1> QED
  BY <1>1, <1>2, <1>3, <1>4, <1>5, <1>6, <1>7, <1>8, <1>9, <1>10

\* The types of the jobs, and the charge that goes with some of their steps.
JobOK == job \in [Procs -> Job] /\ HandsFull

\* What it takes for each form of a job's update to keep JobOK.
LEMMA JobTypes ==
  ASSUME TypeOK, HandsFull, NEW p \in Procs
  PROVE /\ Finish(p) => JobOK'
        /\ \A s \in Steps :
             Goto(p, s) /\ (s \in Carrying => job[p].made \in Charges) => JobOK'
        /\ \A op \in Ops, s \in Steps \ Carrying : Now(p, New(op, s)) => JobOK'
        /\ \A s \in Steps \ Carrying, g \in Charges \cup {NoCharge} :
             Now(p, [job[p] EXCEPT !.gid = g, !.pc = s]) => JobOK'
        /\ \A s \in Steps, g \in Charges : Now(p, [job[p] EXCEPT !.made = g, !.pc = s]) => JobOK'
        /\ \A s \in Steps \ Carrying, b \in BOOLEAN :
              /\ Now(p, [job[p] EXCEPT !.card = b]) => JobOK'
              /\ Now(p, [job[p] EXCEPT !.asked = b, !.pc = s]) => JobOK'
              /\ Now(p, [job[p] EXCEPT !.pc = s, !.card = b]) => JobOK'
              /\ Now(p, [job[p] EXCEPT !.pc = s, !.asked = b]) => JobOK'
<1> job[p] \in Job
  BY DEF TypeOK
<1>1. ASSUME NEW j \in Job, Now(p, j), j.pc \in Carrying => j.made \in Charges PROVE JobOK'
  <2>1. job' \in [Procs -> Job]
    BY <1>1 DEF TypeOK, Now
  <2>2. HandsFull'
    BY <1>1 DEF TypeOK, Now, HandsFull
  <2> QED
    BY <2>1, <2>2 DEF JobOK
<1>2. IdleJob \in Job /\ IdleJob.pc \notin Carrying
  BY DEF IdleJob, Job, Ops, Steps, Carrying
<1>3. Finish(p) => JobOK'
  BY <1>1, <1>2 DEF Finish
<1>4. ASSUME NEW s \in Steps, Goto(p, s), s \in Carrying => job[p].made \in Charges PROVE JobOK'
  <2>1. /\ [job[p] EXCEPT !.pc = s] \in Job
        /\ [job[p] EXCEPT !.pc = s].pc = s /\ [job[p] EXCEPT !.pc = s].made = job[p].made
    BY DEF Job
  <2> QED
    BY <2>1, <1>1, <1>3, <1>4 DEF Goto
<1>5. ASSUME NEW s \in Steps \ Carrying, NEW op \in Ops, Now(p, New(op, s)) PROVE JobOK'
  <2>1. New(op, s) \in Job /\ New(op, s).pc = s
    BY <1>2 DEF New, Job
  <2> QED
    BY <2>1, <1>1, <1>5
<1>6. ASSUME NEW s \in Steps \ Carrying, NEW g \in Charges \cup {NoCharge},
             Now(p, [job[p] EXCEPT !.gid = g, !.pc = s])
      PROVE JobOK'
  <2>1. [job[p] EXCEPT !.gid = g, !.pc = s] \in Job /\ [job[p] EXCEPT !.gid = g, !.pc = s].pc = s
    BY DEF Job
  <2> QED
    BY <2>1, <1>1, <1>6
<1>7. ASSUME NEW s \in Steps, NEW g \in Charges, Now(p, [job[p] EXCEPT !.made = g, !.pc = s])
      PROVE JobOK'
  <2>1. /\ [job[p] EXCEPT !.made = g, !.pc = s] \in Job
        /\ [job[p] EXCEPT !.made = g, !.pc = s].made = g
    BY DEF Job
  <2> QED
    BY <2>1, <1>1, <1>7
<1>8. ASSUME NEW b \in BOOLEAN, Now(p, [job[p] EXCEPT !.card = b]) PROVE JobOK'
  <2>1. /\ [job[p] EXCEPT !.card = b] \in Job
        /\ [job[p] EXCEPT !.card = b].made = job[p].made /\ [job[p] EXCEPT !.card = b].pc = job[p].pc
    BY DEF Job
  <2> QED
    BY <2>1, <1>1, <1>8 DEF HandsFull
<1>9. ASSUME NEW s \in Steps \ Carrying, NEW b \in BOOLEAN
      PROVE   /\ Now(p, [job[p] EXCEPT !.asked = b, !.pc = s]) => JobOK'
              /\ Now(p, [job[p] EXCEPT !.pc = s, !.card = b]) => JobOK'
              /\ Now(p, [job[p] EXCEPT !.pc = s, !.asked = b]) => JobOK'
  <2>1. /\ [job[p] EXCEPT !.asked = b, !.pc = s] \in Job
        /\ [job[p] EXCEPT !.pc = s, !.card = b] \in Job
        /\ [job[p] EXCEPT !.pc = s, !.asked = b] \in Job
    BY DEF Job
  <2>2. /\ [job[p] EXCEPT !.asked = b, !.pc = s].pc = s
        /\ [job[p] EXCEPT !.pc = s, !.card = b].pc = s
        /\ [job[p] EXCEPT !.pc = s, !.asked = b].pc = s
    BY DEF Job
  <2> QED
    BY <2>1, <2>2, <1>1
<1> QED
  BY <1>3, <1>4, <1>5, <1>6, <1>7, <1>8, <1>9

\* The types of the fields.
LEMMA Fields ==
  ASSUME TypeOK, NEW p \in Procs
  PROVE /\ row.gid \in Charges \cup {NoCharge} /\ row.card \in BOOLEAN
        /\ row.mark \in {"none", "exempt", "retention"}
        /\ job[p].card \in BOOLEAN /\ job[p].asked \in BOOLEAN
        /\ job[p].gid \in Charges \cup {NoCharge} /\ job[p].made \in Charges \cup {NoCharge}
        /\ sub.card \in BOOLEAN /\ job[p].pc \in Steps /\ job[p].op \in Ops
  BY DEF TypeOK, Row, Job

-----------------------------------------------------------------------------
(* Types: one step per action, one leaf for the row, one for the jobs.      *)

\* What has to be carried with the types: the charge in a process's hands.
TypeInv == TypeOK /\ HandsFull

\* Every action keeps the types.
LEMMA TypeStep == ConstantsAssumption /\ TypeInv /\ [Next]_vars => TypeInv'
<1> SUFFICES ASSUME ConstantsAssumption, TypeInv, [Next]_vars PROVE TypeInv'
  OBVIOUS
<1> USE DEF TypeInv, JobOK
<1>1. ASSUME NEW p \in Procs, Begin(p) PROVE TypeInv'
  <2>2. row' \in Row
    BY <1>1, RowTypes DEF Begin, OnlyJob
  <2>3. JobOK'
    BY <1>1, JobTypes, Fields DEF Begin, Ops, Steps, Carrying
  <2> QED
    BY <1>1, <2>2, <2>3, Fields DEF TypeOK, Begin, OnlyJob, OnlyRow
<1>2. ASSUME NEW p \in Procs, ReadRow(p) PROVE TypeInv'
  <2>2. row' \in Row
    BY <1>2, RowTypes DEF ReadRow, OnlyJob
  <2>1. Verdict(p) \in {"open", "reopen", "idle", "claim"}
    BY DEF Verdict
  <2>3. JobOK'
    <3>1. Verdict(p) \in Steps \ Carrying
      BY <2>1 DEF Steps, Carrying
    <3> QED
      BY <1>2, <3>1, JobTypes, Fields DEF ReadRow
  <2> QED
    BY <1>2, <2>2, <2>3, Fields DEF TypeOK, ReadRow, OnlyJob, OnlyRow
<1>3. ASSUME NEW p \in Procs, Defer(p) PROVE TypeInv'
  <2>2. row' \in Row
    BY <1>3, RowTypes, Fields DEF Defer
  <2>3. JobOK'
    BY <1>3, JobTypes, Fields DEF Defer, Ops, Steps, Carrying, Verdict
  <2> QED
    BY <1>3, <2>2, <2>3, Fields DEF TypeOK, Defer, OnlyJob, OnlyRow
<1>4. ASSUME NEW p \in Procs, Reopen(p) PROVE TypeInv'
  <2>2. row' \in Row
    BY <1>4, RowTypes, Fields DEF Reopen
  <2>3. JobOK'
    BY <1>4, JobTypes, Fields DEF Reopen, Ops, Steps, Carrying
  <2> QED
    BY <1>4, <2>2, <2>3, Fields DEF TypeOK, Reopen, OnlyJob, OnlyRow
<1>5. ASSUME NEW p \in Procs, ResetRead(p) PROVE TypeInv'
  <2>2. row' \in Row
    BY <1>5, RowTypes DEF ResetRead, OnlyJob
  <2>3. JobOK'
    <3>1. "resetw" \in Steps \ Carrying
      BY DEF Steps, Carrying
    <3> QED
      BY <1>5, <3>1, JobTypes, Fields DEF ResetRead
  <2> QED
    BY <1>5, <2>2, <2>3, Fields DEF TypeOK, ResetRead, OnlyJob, OnlyRow
<1>6. ASSUME NEW p \in Procs, ResetWrite(p) PROVE TypeInv'
  <2>2. row' \in Row
    <3>1. \E c \in {p, Free} : row' = Reissuable(c) \/ row' = Held(c)
      BY <1>6 DEF ResetWrite
    <3> QED
      BY <3>1, RowTypes
  <2>3. JobOK'
    <3>1. {"again", "plan"} \subseteq Steps \ Carrying
      BY DEF Steps, Carrying
    <3>2. \/ Finish(p)
          \/ \E s \in {"again", "plan"} : Now(p, [job[p] EXCEPT !.gid = NoCharge, !.pc = s])
      BY <1>6 DEF ResetWrite, Finish
    <3> QED
      BY <3>1, <3>2, JobTypes
  <2> QED
    BY <1>6, <2>2, <2>3, Fields DEF TypeOK, ResetWrite, OnlyJob, OnlyRow
<1>7. ASSUME NEW p \in Procs, Claim(p) PROVE TypeInv'
  <2>2. row' \in Row
    BY <1>7, RowTypes, Fields DEF Claim
  <2>3. JobOK'
    BY <1>7, JobTypes, Fields DEF Claim, Ops, Steps, Carrying
  <2> QED
    BY <1>7, <2>2, <2>3, Fields DEF TypeOK, Claim, OnlyJob, OnlyRow
<1>8. ASSUME NEW p \in Procs, Lookup(p) PROVE TypeInv'
  <2>2. row' \in Row
    BY <1>8, RowTypes DEF Lookup, OnlyJob
  <2>3. JobOK'
    <3>1. \/ \E s \in {"prepare", "fail"} : Goto(p, s)
          \/ \E g \in Charges, s \in {"adoptpaid", "adoptlive"} :
               Now(p, [job[p] EXCEPT !.made = g, !.pc = s])
      BY <1>8 DEF Lookup, Found, Preferred
    <3> QED
      BY <3>1, JobTypes DEF Steps, Carrying
  <2> QED
    BY <1>8, <2>2, <2>3, Fields DEF TypeOK, Lookup, OnlyJob, OnlyRow
<1>9. ASSUME NEW p \in Procs, Adopt(p) PROVE TypeInv'
  <2> DEFINE r == IF row.gid = NoCharge THEN Issued(job[p].made) ELSE row
  <2>1. r \in Row
    BY RowTypes, Fields
  <2>2. row' \in Row
    <3>1. row' = [r EXCEPT !.card = job[p].made \in gcard]
      BY <1>9 DEF Adopt
    <3> HIDE DEF r
    <3>2. [r EXCEPT !.card = TRUE] \in Row /\ [r EXCEPT !.card = FALSE] \in Row
      BY <2>1 DEF Row
    <3>3. CASE job[p].made \in gcard
      BY <3>1, <3>2, <3>3
    <3>4. CASE job[p].made \notin gcard
      <4>1. (job[p].made \in gcard) = FALSE
        BY <3>4
      <4>2. row' = [r EXCEPT !.card = FALSE]
        BY <3>1, <4>1, Zenon
      <4> QED
        BY <3>2, <4>2
    <3> QED
      BY <3>3, <3>4
  <2>3. JobOK'
    BY <1>9, JobTypes, Fields DEF Adopt, Ops, Steps, Carrying, HandsFull, At
  <2> QED
    BY <1>9, <2>2, <2>3, Fields DEF TypeOK, Adopt, OnlyJob, OnlyRow
<1>10. ASSUME NEW p \in Procs, AdoptSettle(p) PROVE TypeInv'
  <2>2. row' \in Row
    BY <1>10, RowTypes DEF AdoptSettle, OnlyJob
  <2>3. JobOK'
    BY <1>10, JobTypes, Fields DEF AdoptSettle, Ops, Steps, Carrying, HandsFull, At
  <2> QED
    BY <1>10, <2>2, <2>3, Fields DEF TypeOK, AdoptSettle, OnlyJob, OnlyRow, HandsFull, Carrying, At
<1>11. ASSUME NEW p \in Procs, AdoptClose(p) PROVE TypeInv'
  <2>2. row' \in Row
    BY <1>11, RowTypes, Fields DEF AdoptClose
  <2>3. JobOK'
    BY <1>11, JobTypes, Fields DEF AdoptClose, Ops, Steps, Carrying
  <2> QED
    BY <1>11, <2>2, <2>3, Fields DEF TypeOK, AdoptClose, OnlyJob, OnlyRow
<1>12. ASSUME NEW p \in Procs, OpenRow(p) PROVE TypeInv'
  <2>2. row' \in Row
    BY <1>12, RowTypes, Fields DEF OpenRow
  <2>3. JobOK'
    <3>1. Finish(p) \/ Goto(p, "prepare")
      BY <1>12 DEF OpenRow
    <3> QED
      BY <3>1, JobTypes DEF Steps, Carrying
  <2> QED
    BY <1>12, <2>2, <2>3, Fields DEF TypeOK, OpenRow, OnlyJob, OnlyRow
<1>13. ASSUME NEW p \in Procs, Prepare(p) PROVE TypeInv'
  <2>1. \E b \in BOOLEAN : row' = [row EXCEPT !.card = b, !.tries = 0] \/ row' = OnCard(b)
    <3>1. CASE job[p].op = "click"
      BY <1>13, <3>1, Fields DEF Prepare
    <3>2. CASE job[p].op # "click"
      BY <1>13, <3>2, Fields DEF Prepare, OnCard, TypeOK, Row
    <3> QED
      BY <3>1, <3>2
  <2>2. row' \in Row
    BY <2>1, RowTypes
  <2>3. JobOK'
    BY <1>13, JobTypes, Fields DEF Prepare, Ops, Steps, Carrying
  <2> QED
    BY <1>13, <2>2, <2>3, Fields DEF TypeOK, Prepare, OnlyJob, OnlyRow
<1>14. ASSUME NEW p \in Procs, Recheck(p) PROVE TypeInv'
  <2>2. row' \in Row
    BY <1>14, RowTypes, Fields DEF Recheck
  <2>3. JobOK'
    <3>1. {"stop", "drop", "call"} \subseteq Steps \ Carrying
      BY DEF Steps, Carrying
    <3>2. (job[p].card /\ sub.card) \in BOOLEAN
      OBVIOUS
    <3> QED
      BY <1>14, <3>1, <3>2, JobTypes DEF Recheck
  <2> QED
    BY <1>14, <2>2, <2>3, Fields DEF TypeOK, Recheck, OnlyJob, OnlyRow
<1>15. ASSUME NEW p \in Procs, Stop(p) PROVE TypeInv'
  <2>2. row' \in Row
    BY <1>15, RowTypes, Fields DEF Stop
  <2>3. JobOK'
    BY <1>15, JobTypes, Fields DEF Stop, Ops, Steps, Carrying
  <2> QED
    BY <1>15, <2>2, <2>3, Fields DEF TypeOK, Stop, OnlyJob, OnlyRow
<1>16. ASSUME NEW p \in Procs, Drop(p) PROVE TypeInv'
  <2>2. row' \in Row
    BY <1>16, RowTypes, Fields DEF Drop
  <2>3. JobOK'
    BY <1>16, JobTypes, Fields DEF Drop, Ops, Steps, Carrying
  <2> QED
    BY <1>16, <2>2, <2>3, Fields DEF TypeOK, Drop, OnlyJob, OnlyRow
<1>17. ASSUME NEW p \in Procs, CreateOk(p) PROVE TypeInv'
  <2>2. row' \in Row
    BY <1>17, RowTypes DEF CreateOk, OnlyJob
  <2>3. JobOK'
    BY <1>17, JobTypes, Fields DEF CreateOk, Ops, Steps, Carrying, Created
  <2> QED
    BY <1>17, <2>2, <2>3, Fields DEF TypeOK, CreateOk, OnlyJob, OnlyRow, Created
<1>18. ASSUME NEW p \in Procs, CreateLost(p) PROVE TypeInv'
  <2>2. row' \in Row
    BY <1>18, RowTypes DEF CreateLost, OnlyJob
  <2>3. JobOK'
    BY <1>18, JobTypes, Fields DEF CreateLost, Ops, Steps, Carrying
  <2> QED
    BY <1>18, <2>2, <2>3, Fields DEF TypeOK, CreateLost, OnlyJob, OnlyRow, Created
<1>19. ASSUME NEW p \in Procs, CreateRefused(p) PROVE TypeInv'
  <2>2. row' \in Row
    BY <1>19, RowTypes, Fields DEF CreateRefused
  <2>3. JobOK'
    <3>1. "idle" \in Steps \ Carrying
      BY DEF Steps, Carrying
    <3> QED
      BY <1>19, <3>1, JobTypes DEF CreateRefused
  <2> QED
    BY <1>19, <2>2, <2>3, Fields DEF TypeOK, CreateRefused, OnlyJob, OnlyRow
<1>20. ASSUME NEW p \in Procs, CreateFailed(p) PROVE TypeInv'
  <2>2. row' \in Row
    BY <1>20, RowTypes, Fields DEF CreateFailed
  <2>3. JobOK'
    BY <1>20, JobTypes, Fields DEF CreateFailed, Ops, Steps, Carrying
  <2> QED
    BY <1>20, <2>2, <2>3, Fields DEF TypeOK, CreateFailed, OnlyJob, OnlyRow
<1>21. ASSUME NEW p \in Procs, MarkFailed(p) PROVE TypeInv'
  <2>2. row' \in Row
    BY <1>21, RowTypes, Fields DEF MarkFailed
  <2>3. JobOK'
    BY <1>21, JobTypes, Fields DEF MarkFailed, Ops, Steps, Carrying
  <2> QED
    BY <1>21, <2>2, <2>3, Fields DEF TypeOK, MarkFailed, OnlyJob, OnlyRow
<1>22. ASSUME NEW p \in Procs, MarkIssued(p) PROVE TypeInv'
  <2>2. row' \in Row
    BY <1>22, RowTypes, Fields DEF MarkIssued
  <2>3. JobOK'
    BY <1>22, JobTypes, Fields DEF MarkIssued, Ops, Steps, Carrying, HandsFull, At
  <2> QED
    BY <1>22, <2>2, <2>3, Fields DEF TypeOK, MarkIssued, OnlyJob, OnlyRow
<1>23. ASSUME NEW p \in Procs, UndoDuplicate(p) PROVE TypeInv'
  <2>2. row' \in Row
    BY <1>23, RowTypes DEF UndoDuplicate, OnlyJob
  <2>3. JobOK'
    BY <1>23, JobTypes, Fields DEF UndoDuplicate, Ops, Steps, Carrying
  <2> QED
    BY <1>23, <2>2, <2>3, Fields DEF TypeOK, UndoDuplicate, OnlyJob, OnlyRow, GatewayCancel
<1>24. ASSUME NEW p \in Procs, AfterIssue(p) PROVE TypeInv'
  <2>2. row' \in Row
    BY <1>24, RowTypes DEF AfterIssue, OnlyJob
  <2>3. JobOK'
    BY <1>24, JobTypes, Fields DEF AfterIssue, Ops, Steps, Carrying, HandsFull, At
  <2> QED
    BY <1>24, <2>2, <2>3, Fields DEF TypeOK, AfterIssue, OnlyJob, OnlyRow
<1>25. ASSUME NEW p \in Procs, Pull(p) PROVE TypeInv'
  <2>2. row' \in Row
    BY <1>25, RowTypes DEF Pull, OnlyJob
  <2>3. JobOK'
    BY <1>25, JobTypes, Fields DEF Pull, Ops, Steps, Carrying, HandsFull, At
  <2> QED
    BY <1>25, <2>2, <2>3, Fields DEF TypeOK, Pull, OnlyJob, OnlyRow, GatewayCancel
<1>26. ASSUME NEW p \in Procs, PullClose(p) PROVE TypeInv'
  <2>2. row' \in Row
    BY <1>26, RowTypes, Fields DEF PullClose
  <2>3. JobOK'
    BY <1>26, JobTypes, Fields DEF PullClose, Ops, Steps, Carrying
  <2> QED
    BY <1>26, <2>2, <2>3, Fields DEF TypeOK, PullClose, OnlyJob, OnlyRow
<1>27. ASSUME NEW p \in Procs, List(p) PROVE TypeInv'
  <2>2. row' \in Row
    BY <1>27, RowTypes DEF List, OnlyJob
  <2>3. JobOK'
    <3>1. {"take", "sethold", "idle"} \subseteq Steps \ Carrying
      BY DEF Steps, Carrying
    <3>2. AfterList(job[p].op) \in {"sethold", "idle"}
      BY DEF AfterList
    <3> QED
      BY <1>27, <3>1, <3>2, JobTypes, Fields DEF List
  <2> QED
    BY <1>27, <2>2, <2>3, Fields DEF TypeOK, List, OnlyJob, OnlyRow
<1>28. ASSUME NEW p \in Procs, Take(p) PROVE TypeInv'
  <2>2. row' \in Row
    BY <1>28, RowTypes, Fields DEF Take
  <2>3. JobOK'
    BY <1>28, JobTypes, Fields DEF Take, Ops, Steps, Carrying
  <2> QED
    BY <1>28, <2>2, <2>3, Fields DEF TypeOK, Take, OnlyJob, OnlyRow
<1>29. ASSUME NEW p \in Procs, Reread(p) PROVE TypeInv'
  <2>2. row' \in Row
    BY <1>29, RowTypes, Fields DEF Reread
  <2>3. JobOK'
    <3>1. "wipe" \in Steps \ Carrying
      BY DEF Steps, Carrying
    <3> QED
      BY <1>29, <3>1, JobTypes, Fields DEF Reread
  <2> QED
    BY <1>29, <2>2, <2>3, Fields DEF TypeOK, Reread, OnlyJob, OnlyRow
<1>30. ASSUME NEW p \in Procs, Wipe(p) PROVE TypeInv'
  <2>1. row' = row \/ row' = LeftOpen(job[p].op)
    BY <1>30 DEF Wipe
  <2>2. row' \in Row
    BY <2>1, RowTypes, Fields
  <2>3. JobOK'
    BY <1>30, JobTypes, Fields DEF Wipe, Ops, Steps, Carrying
  <2> QED
    BY <1>30, <2>2, <2>3, Fields DEF TypeOK, Wipe, OnlyJob, OnlyRow, GatewayCancel
<1>31. ASSUME NEW p \in Procs, Close(p) PROVE TypeInv'
  <2>2. row' \in Row
    BY <1>31, RowTypes, Fields DEF Close
  <2>3. JobOK'
    <3>1. \E s \in {"release", "sethold", "idle"} : Goto(p, s)
      BY <1>31 DEF Close, AfterList
    <3> QED
      BY <3>1, JobTypes DEF Steps, Carrying
  <2> QED
    BY <1>31, <2>2, <2>3, Fields DEF TypeOK, Close, OnlyJob, OnlyRow
<1>32. ASSUME NEW p \in Procs, SetHold(p) PROVE TypeInv'
  <2>2. row' \in Row
    BY <1>32, RowTypes DEF SetHold, OnlyJob
  <2>3. JobOK'
    BY <1>32, JobTypes, Fields DEF SetHold, Ops, Steps, Carrying
  <2> QED
    BY <1>32, <2>2, <2>3, Fields DEF TypeOK, SetHold, OnlyJob, OnlyRow
<1>33. ASSUME NEW p \in Procs, Remark(p) PROVE TypeInv'
  <2>2. row' \in Row
    BY <1>33, RowTypes, Fields DEF Remark
  <2>3. JobOK'
    BY <1>33, JobTypes, Fields DEF Remark, Ops, Steps, Carrying
  <2> QED
    BY <1>33, <2>2, <2>3, Fields DEF TypeOK, Remark, OnlyJob, OnlyRow
<1>34. ASSUME NEW p \in Procs, Plan(p) PROVE TypeInv'
  <2>2. row' \in Row
    BY <1>34, RowTypes, Fields DEF Plan
  <2>3. JobOK'
    BY <1>34, JobTypes, Fields DEF Plan, Ops, Steps, Carrying
  <2> QED
    BY <1>34, <2>2, <2>3, Fields DEF TypeOK, Plan, OnlyJob, OnlyRow
<1>35. ASSUME NEW p \in Procs, SettleAtGateway(p) PROVE TypeInv'
  <2>2. row' \in Row
    BY <1>35, RowTypes DEF SettleAtGateway, OnlyJob
  <2>3. JobOK'
    <3>1. \E s \in {"settled", "record", "release"} : Goto(p, s)
      BY <1>35 DEF SettleAtGateway
    <3> QED
      BY <3>1, JobTypes DEF Steps, Carrying
  <2> QED
    BY <1>35, <2>2, <2>3, Fields DEF TypeOK, SettleAtGateway, OnlyJob, OnlyRow, Reference
<1>36. ASSUME NEW p \in Procs, SettleRecord(p) PROVE TypeInv'
  <2>2. row' \in Row
    BY <1>36, RowTypes DEF SettleRecord, OnlyJob
  <2>3. JobOK'
    <3>1. Goto(p, "settled")
      BY <1>36 DEF SettleRecord
    <3> QED
      BY <3>1, JobTypes DEF Steps, Carrying
  <2> QED
    BY <1>36, <2>2, <2>3, Fields DEF TypeOK, SettleRecord, OnlyJob, OnlyRow, Reference
<1>37. ASSUME NEW p \in Procs, SettleClose(p) PROVE TypeInv'
  <2>2. row' \in Row
    BY <1>37, RowTypes, Fields DEF SettleClose
  <2>3. JobOK'
    <3>1. Goto(p, "release")
      BY <1>37 DEF SettleClose
    <3> QED
      BY <3>1, JobTypes DEF Steps, Carrying
  <2> QED
    BY <1>37, <2>2, <2>3, Fields DEF TypeOK, SettleClose, OnlyJob, OnlyRow
<1>38. ASSUME NEW p \in Procs, Release(p) PROVE TypeInv'
  <2>2. row' \in Row
    BY <1>38, RowTypes, Fields DEF Release
  <2>3. JobOK'
    BY <1>38, JobTypes, Fields DEF Release, Ops, Steps, Carrying
  <2> QED
    BY <1>38, <2>2, <2>3, Fields DEF TypeOK, Release, OnlyJob, OnlyRow
<1>39. ASSUME NEW p \in Procs, Crash(p) PROVE TypeInv'
  <2>2. row' \in Row
    BY <1>39, RowTypes, Fields DEF Crash
  <2>3. JobOK'
    BY <1>39, JobTypes, Fields DEF Crash, Ops, Steps, Carrying
  <2> QED
    BY <1>39, <2>2, <2>3, Fields DEF TypeOK, Crash, OnlyJob, OnlyRow
<1>40. ASSUME NEW p \in Procs, Start(p) PROVE TypeInv'
  <2>2. row' \in Row
    BY <1>40, RowTypes DEF Start, OnlyJob, StartPass, Gesture, Exempt, Retain
  <2>3. JobOK'
    <3>1. \E op \in Ops, s \in {"begin", "list", "remark"} : Now(p, New(op, s))
      BY <1>40 DEF Start, StartPass, StartJob, Gesture, Exempt, Retain, Ops
    <3> QED
      BY <3>1, JobTypes DEF Steps, Carrying
  <2> QED
    BY <1>40, <2>2, <2>3, Fields DEF TypeOK, Start, OnlyJob, OnlyRow, StartPass, Gesture, Exempt, Retain
<1>41. ASSUME NEW g \in Charges, Pay(g) PROVE TypeInv'
  BY <1>41 DEF Pay, TypeOK, HandsFull
<1>42. ASSUME NEW g \in Charges, WebhookRecord(g) PROVE TypeInv'
  BY <1>42 DEF WebhookRecord, TypeOK, HandsFull
<1>43. ASSUME NEW g \in Charges, WebhookSettle(g) PROVE TypeInv'
  BY <1>43, RowTypes DEF WebhookSettle, TypeOK, HandsFull, Statuses, Closed
<1>44. ASSUME NEW g \in Charges, DropNote(g) PROVE TypeInv'
  BY <1>44 DEF DropNote, TypeOK, HandsFull
<1>45. ASSUME NEW g \in Charges, NEW to \in {"overdue", "canceled"}, LifecycleRead(g, to) PROVE TypeInv'
  BY <1>45 DEF LifecycleRead, TypeOK, HandsFull
<1>46. ASSUME NEW g \in Charges, NEW to \in {"overdue", "canceled"}, LifecycleWrite(g, to) PROVE TypeInv'
  BY <1>46, RowTypes DEF LifecycleWrite, TypeOK, HandsFull, Statuses, Open, Closed
<1>47. ASSUME Expire PROVE TypeInv'
  BY <1>47, RowTypes DEF Expire, TypeOK, HandsFull, OnlyRow
<1>48. ASSUME Stall PROVE TypeInv'
  <2>1. stalls' \in 0..MaxStalls
    BY <1>48 DEF Stall, TypeOK, ConstantsAssumption
  <2> QED
    BY <1>48, <2>1, RowTypes DEF Stall, TypeOK, HandsFull
<1>49. ASSUME UNCHANGED vars PROVE TypeInv'
  BY <1>49 DEF vars, TypeOK, HandsFull
<1> QED
  BY <1>1, <1>2, <1>3, <1>4, <1>5, <1>6, <1>7, <1>8, <1>9, <1>10, <1>11, <1>12, <1>13,
     <1>14, <1>15, <1>16, <1>17, <1>18, <1>19, <1>20, <1>21, <1>22, <1>23, <1>24,
     <1>25, <1>26, <1>27, <1>28, <1>29, <1>30, <1>31, <1>32, <1>33, <1>34, <1>35,
     <1>36, <1>37, <1>38, <1>39, <1>40, <1>41, <1>42, <1>43, <1>44, <1>45, <1>46,
     <1>47, <1>48, <1>49 DEF Next, World, Step

\* The initial state is typed.
LEMMA TypeInit == ConstantsAssumption /\ Init => TypeInv
<1> SUFFICES ASSUME ConstantsAssumption, Init PROVE TypeInv
  OBVIOUS
<1>1. row \in Row
  BY DEF Init, Row, Statuses, ConstantsAssumption
<1>2. job \in [Procs -> Job] /\ HandsFull
  BY DEF Init, Job, IdleJob, Ops, Steps, HandsFull, Carrying
<1>3. sub \in [exempt : BOOLEAN, hold : BOOLEAN, card : BOOLEAN]
  BY DEF Init
<1>4. stalls \in 0..MaxStalls /\ crashes \in 0..MaxCrashes
  BY DEF Init, ConstantsAssumption
<1> QED
  BY <1>1, <1>2, <1>3, <1>4 DEF Init, TypeInv, TypeOK

\* The values of every variable stay in their types, whatever the constants; the
\* part that is not evident is the ledger, where an adopted charge is written.
THEOREM TypeCorrect == Spec => []TypeOK
<1>1. Init => TypeInv
  BY TypeInit, ConstantsAssumption
<1>2. TypeInv /\ [Next]_vars => TypeInv'
  BY TypeStep, ConstantsAssumption
<1>3. TypeInv => TypeOK
  BY DEF TypeInv
<1> QED
  BY <1>1, <1>2, <1>3, PTL DEF Spec

-----------------------------------------------------------------------------
(* Exclusion: what a step does to the jobs and to the row, field by field.  *)

\* Process p comes to pc, on gid and made; the others stay where they are.
Moved(p, op, pc, gid, made) ==
  /\ job'[p].op = op /\ job'[p].pc = pc /\ job'[p].gid = gid /\ job'[p].made = made
  /\ \A q \in Procs \ {p} : job'[q] = job[q]

Idles(p) == Moved(p, "none", "idle", NoCharge, NoCharge)
Advances(p, pc) == Moved(p, job[p].op, pc, job[p].gid, job[p].made)

RowIs(st, gid, claim) == row'.st = st /\ row'.gid = gid /\ row'.claim = claim
RowKept == RowIs(row.st, row.gid, row.claim)

\* Each form of a job's update, as a move.
LEMMA Moves ==
  ASSUME TypeOK, NEW p \in Procs
  PROVE /\ Finish(p) => Idles(p)
        /\ \A s : s # "idle" /\ Goto(p, s) => Advances(p, s)
        /\ \A op, s : Now(p, New(op, s)) => Moved(p, op, s, NoCharge, NoCharge)
        /\ \A s, g :
             /\ Now(p, [job[p] EXCEPT !.gid = g, !.pc = s]) => Moved(p, job[p].op, s, g, job[p].made)
             /\ Now(p, [job[p] EXCEPT !.made = g, !.pc = s]) => Moved(p, job[p].op, s, job[p].gid, g)
        /\ \A s, b :
             /\ Now(p, [job[p] EXCEPT !.asked = b, !.pc = s]) => Advances(p, s)
             /\ Now(p, [job[p] EXCEPT !.pc = s, !.card = b]) => Advances(p, s)
             /\ Now(p, [job[p] EXCEPT !.pc = s, !.asked = b]) => Advances(p, s)
        /\ \A b : Now(p, [job[p] EXCEPT !.card = b]) => Advances(p, job[p].pc)
<1> job[p] \in Job
  BY DEF TypeOK
<1>1. ASSUME NEW j, Now(p, j) PROVE Moved(p, j.op, j.pc, j.gid, j.made)
  BY <1>1 DEF Now, Moved, TypeOK
<1>2. Finish(p) => Idles(p)
  <2>1. /\ IdleJob.op = "none" /\ IdleJob.pc = "idle"
        /\ IdleJob.gid = NoCharge /\ IdleJob.made = NoCharge
    BY DEF IdleJob
  <2> QED
    BY <2>1, <1>1 DEF Finish, Idles
<1>3. ASSUME NEW s, NEW op, Now(p, New(op, s))
      PROVE Moved(p, op, s, NoCharge, NoCharge)
  <2>1. /\ New(op, s).op = op /\ New(op, s).pc = s
        /\ New(op, s).gid = NoCharge /\ New(op, s).made = NoCharge
    BY DEF New, IdleJob
  <2> QED
    BY <2>1, <1>1, <1>3
<1>4. ASSUME NEW s, Now(p, [job[p] EXCEPT !.pc = s])
      PROVE Moved(p, job[p].op, s, job[p].gid, job[p].made)
  <2> DEFINE j == [job[p] EXCEPT !.pc = s]
  <2>1. j.op = job[p].op /\ j.pc = s /\ j.gid = job[p].gid /\ j.made = job[p].made
    BY DEF Job
  <2>2. Moved(p, j.op, j.pc, j.gid, j.made)
    BY <1>1, <1>4
  <2> QED
    BY <2>1, <2>2
<1>5. ASSUME NEW s, NEW g, Now(p, [job[p] EXCEPT !.gid = g, !.pc = s])
      PROVE Moved(p, job[p].op, s, g, job[p].made)
  <2> DEFINE j == [job[p] EXCEPT !.gid = g, !.pc = s]
  <2>1. j.op = job[p].op /\ j.pc = s /\ j.gid = g /\ j.made = job[p].made
    BY DEF Job
  <2>2. Moved(p, j.op, j.pc, j.gid, j.made)
    BY <1>1, <1>5
  <2> QED
    BY <2>1, <2>2
<1>6. ASSUME NEW s, NEW g, Now(p, [job[p] EXCEPT !.made = g, !.pc = s])
      PROVE Moved(p, job[p].op, s, job[p].gid, g)
  <2> DEFINE j == [job[p] EXCEPT !.made = g, !.pc = s]
  <2>1. j.op = job[p].op /\ j.pc = s /\ j.gid = job[p].gid /\ j.made = g
    BY DEF Job
  <2>2. Moved(p, j.op, j.pc, j.gid, j.made)
    BY <1>1, <1>6
  <2> QED
    BY <2>1, <2>2
<1>7. ASSUME NEW s, NEW b, Now(p, [job[p] EXCEPT !.asked = b, !.pc = s])
      PROVE Moved(p, job[p].op, s, job[p].gid, job[p].made)
  <2> DEFINE j == [job[p] EXCEPT !.asked = b, !.pc = s]
  <2>1. j.op = job[p].op /\ j.pc = s /\ j.gid = job[p].gid /\ j.made = job[p].made
    BY DEF Job
  <2>2. Moved(p, j.op, j.pc, j.gid, j.made)
    BY <1>1, <1>7
  <2> QED
    BY <2>1, <2>2
<1>8. ASSUME NEW s, NEW b, Now(p, [job[p] EXCEPT !.pc = s, !.card = b])
      PROVE Moved(p, job[p].op, s, job[p].gid, job[p].made)
  <2> DEFINE j == [job[p] EXCEPT !.pc = s, !.card = b]
  <2>1. j.op = job[p].op /\ j.pc = s /\ j.gid = job[p].gid /\ j.made = job[p].made
    BY DEF Job
  <2>2. Moved(p, j.op, j.pc, j.gid, j.made)
    BY <1>1, <1>8
  <2> QED
    BY <2>1, <2>2
<1>9. ASSUME NEW s, NEW b, Now(p, [job[p] EXCEPT !.pc = s, !.asked = b])
      PROVE Moved(p, job[p].op, s, job[p].gid, job[p].made)
  <2> DEFINE j == [job[p] EXCEPT !.pc = s, !.asked = b]
  <2>1. j.op = job[p].op /\ j.pc = s /\ j.gid = job[p].gid /\ j.made = job[p].made
    BY DEF Job
  <2>2. Moved(p, j.op, j.pc, j.gid, j.made)
    BY <1>1, <1>9
  <2> QED
    BY <2>1, <2>2
<1>10. ASSUME NEW b, Now(p, [job[p] EXCEPT !.card = b])
      PROVE Moved(p, job[p].op, job[p].pc, job[p].gid, job[p].made)
  <2> DEFINE j == [job[p] EXCEPT !.card = b]
  <2>1. j.op = job[p].op /\ j.pc = job[p].pc /\ j.gid = job[p].gid /\ j.made = job[p].made
    BY DEF Job
  <2>2. Moved(p, j.op, j.pc, j.gid, j.made)
    BY <1>1, <1>10
  <2> QED
    BY <2>1, <2>2
<1> QED
  BY <1>2, <1>3, <1>4, <1>5, <1>6, <1>7, <1>8, <1>9, <1>10 DEF Goto, Advances

\* Each row the statements write, by the fields that matter here.
LEMMA Rows ==
  ASSUME TypeOK
  PROVE /\ \A c : row' = Held(c) => RowIs(row.st, row.gid, c)
        /\ \A c : row' = Reissuable(c) => RowIs("pending", NoCharge, c)
        /\ \A b : row' = OnCard(b) => RowKept
        /\ \A p, b : row' = Opened(p, b) => RowIs("pending", row.gid, p)
        /\ \A g : row' = Issued(g) => RowIs("pending", g, Free)
        /\ \A g, b : row' = [Issued(g) EXCEPT !.card = b] => RowIs("pending", g, Free)
        /\ \A b : row' = [row EXCEPT !.card = b] => RowKept
        /\ \A b, n : row' = [row EXCEPT !.card = b, !.tries = n] => RowKept
        /\ \A n : row' = [row EXCEPT !.tries = n] => RowKept
        /\ row' = PaidRow => RowIs("paid", row.gid, Free)
        /\ row' = Failed => RowIs("failed", row.gid, Free)
        /\ \A st : row' = [row EXCEPT !.st = st] => RowIs(st, row.gid, row.claim)
        /\ UNCHANGED row => RowKept
        /\ \A op : row' = LeftOpen(op) => RowIs(row.st, row.gid, Free)
<1> row \in Row
  BY DEF TypeOK
<1>1. /\ \A c : row' = Held(c) => RowIs(row.st, row.gid, c)
      /\ \A c : row' = Reissuable(c) => RowIs("pending", NoCharge, c)
      /\ \A p, b : row' = Opened(p, b) => RowIs("pending", row.gid, p)
      /\ \A g : row' = Issued(g) => RowIs("pending", g, Free)
  BY DEF Row, Held, Reissuable, Opened, Issued, RowIs
<1>2. /\ \A g, b : row' = [Issued(g) EXCEPT !.card = b] => RowIs("pending", g, Free)
      /\ row' = PaidRow => RowIs("paid", row.gid, Free)
      /\ row' = Failed => RowIs("failed", row.gid, Free)
      /\ \A st : row' = [row EXCEPT !.st = st] => RowIs(st, row.gid, row.claim)
      /\ \A op : row' = LeftOpen(op) => RowIs(row.st, row.gid, Free)
  BY DEF Row, Issued, PaidRow, Failed, LeftOpen, RowIs
<1>3. /\ \A b : row' = OnCard(b) => RowKept
      /\ \A b : row' = [row EXCEPT !.card = b] => RowKept
      /\ \A b, n : row' = [row EXCEPT !.card = b, !.tries = n] => RowKept
      /\ \A n : row' = [row EXCEPT !.tries = n] => RowKept
      /\ UNCHANGED row => RowKept
  BY DEF Row, OnCard, RowIs, RowKept
<1> QED
  BY <1>1, <1>2, <1>3

-----------------------------------------------------------------------------
(* What each action does, when there are only clicks and reprices.          *)

\* The gestures the exclusion is proved for.
Only == Gestures \subseteq {"click", "reprice"}

\* A pass of a provider that is neither exempt nor leaving goes on to read the row.
LEMMA BeginEffect ==
  ASSUME TypeOK, Quiet, Only, NEW p \in Procs, Begin(p)
  PROVE /\ job[p].pc = "begin"
        /\ RowKept /\ Advances(p, "read")
<1>1. job[p].pc = "begin"
  BY DEF Begin, At
<1> QED
  BY <1>1, Moves, Rows, Fields DEF Begin, OnlyJob, Only, Quiet

\* The reading ends the pass, or leads to the insertion or to the claim of a row seen.
LEMMA ReadRowEffect ==
  ASSUME TypeOK, Quiet, Only, NEW p \in Procs, ReadRow(p)
  PROVE /\ job[p].pc = "read"
        /\ \/ RowKept /\ Idles(p)
           \/ RowKept /\ row.st = "none" /\ Advances(p, "open")
           \/ RowKept /\ row.st # "none" /\ Advances(p, "claim")
<1>1. job[p].pc = "read"
  BY DEF ReadRow, At, Quiet, Emitting, Repricing
<1> QED
  BY <1>1, Moves, Rows, Fields DEF ReadRow, OnlyJob, Only, Quiet, At, Verdict, Open, Closed, Emitting, Repricing

\* A deferred card charge ends the click and leaves the row's holder alone.
LEMMA DeferEffect ==
  ASSUME TypeOK, Quiet, Only, NEW p \in Procs, Defer(p)
  PROVE /\ job[p].pc = "read"
        /\ RowKept /\ Idles(p)
<1>1. job[p].pc = "read"
  BY DEF Defer, At, Quiet, Emitting, Repricing
<1> QED
  BY <1>1, Moves, Rows, Fields DEF Defer, OnlyJob, Only

\* The reissue reads the gateway id.
LEMMA ResetReadEffect ==
  ASSUME TypeOK, Quiet, Only, NEW p \in Procs, ResetRead(p)
  PROVE /\ job[p].pc = "reset"
        /\ RowKept /\ Moved(p, job[p].op, "resetw", row.gid, job[p].made)
<1>1. job[p].pc = "reset"
  BY DEF ResetRead, At
<1> QED
  BY <1>1, Moves, Rows, Fields DEF ResetRead, OnlyJob, Only

\* A reissued row keeps its taker; a refused reissue gives the claim back.
LEMMA ResetWriteEffect ==
  ASSUME TypeOK, Quiet, Only, NEW p \in Procs, ResetWrite(p)
  PROVE /\ job[p].pc = "resetw"
        /\ \/ RowIs("pending", NoCharge, p) /\ Moved(p, job[p].op, "plan", NoCharge, job[p].made)
           \/ RowIs(row.st, row.gid, Free) /\ Idles(p)
<1>1. job[p].pc = "resetw"
  BY DEF ResetWrite, At
<1>2. \/ RowIs("pending", NoCharge, p) /\ Moved(p, job[p].op, "plan", NoCharge, job[p].made)
      \/ RowIs(row.st, row.gid, Free) /\ Idles(p)
  <2>1. job[p].op = "reprice"
    BY DEF ResetWrite, Quiet, At, Repricing
  <2>2. \/ row' = Reissuable(p) /\ Now(p, [job[p] EXCEPT !.gid = NoCharge, !.pc = "plan"])
        \/ row' = Held(Free) /\ Finish(p)
    BY <2>1 DEF ResetWrite, Finish
  <2> QED
    BY <2>2, Moves, Rows
<1> QED
  BY <1>1, <1>2

\* Only a free, unissued row is taken.
LEMMA ClaimEffect ==
  ASSUME TypeOK, Quiet, Only, NEW p \in Procs, Claim(p)
  PROVE /\ job[p].pc = "claim"
        /\ \/ /\ row.claim = Free /\ row.gid = NoCharge /\ RowIs(row.st, row.gid, p)
              /\ \E s \in {"lookup", "prepare"} : Advances(p, s)
           \/ RowKept /\ Idles(p)
<1>1. job[p].pc = "claim"
  BY DEF Claim, At
<1> QED
  BY <1>1, Moves, Rows, Fields DEF Claim, OnlyJob, Only, CanClaim

\* What the lookup adopts as paid is paid.
LEMMA LookupEffect ==
  ASSUME TypeOK, Quiet, Only, NEW p \in Procs, Lookup(p)
  PROVE /\ job[p].pc = "lookup"
        /\ RowKept
        /\ \/ \E s \in {"prepare", "fail"} : Advances(p, s)
           \/ \E g \in Charges : Moved(p, job[p].op, "adoptlive", job[p].gid, g)
           \/ \E g \in Charges : gw[g] = "paid" /\ Moved(p, job[p].op, "adoptpaid", job[p].gid, g)
<1>1. job[p].pc = "lookup"
  BY DEF Lookup, At
<1>2. /\ RowKept
      /\ \/ \E s \in {"prepare", "fail"} : Advances(p, s)
         \/ \E g \in Charges : Moved(p, job[p].op, "adoptlive", job[p].gid, g)
         \/ \E g \in Charges : gw[g] = "paid" /\ Moved(p, job[p].op, "adoptpaid", job[p].gid, g)
  <2>1. RowKept
    BY Rows DEF Lookup, OnlyJob
  <2>2. \/ \E s \in {"prepare", "fail"} : Goto(p, s)
        \/ \E g \in Charges, s \in {"adoptpaid", "adoptlive"} :
             /\ Now(p, [job[p] EXCEPT !.made = g, !.pc = s])
             /\ s = "adoptpaid" => gw[g] = "paid"
    BY DEF Lookup, Found, Preferred
  <2> QED
    BY <2>1, <2>2, Moves
<1> QED
  BY <1>1, <1>2

\* An adopted charge lands on a row that has none.
LEMMA AdoptEffect ==
  ASSUME TypeOK, Quiet, Only, NEW p \in Procs, Adopt(p)
  PROVE /\ job[p].pc \in {"adoptpaid", "adoptlive"}
        /\ \/ row.gid = NoCharge /\ RowIs("pending", job[p].made, Free)
           \/ row.gid # NoCharge /\ RowKept
        /\ Idles(p) \/ (job[p].pc = "adoptpaid" /\ Advances(p, "adoptsettle"))
<1>1. job[p].pc \in {"adoptpaid", "adoptlive"}
  BY DEF Adopt, At
<1> QED
  BY <1>1, Moves, Rows, Fields DEF Adopt, OnlyJob, Only, At

\* Recording an adopted payment leaves the row alone.
LEMMA AdoptSettleEffect ==
  ASSUME TypeOK, Quiet, Only, NEW p \in Procs, AdoptSettle(p)
  PROVE /\ job[p].pc = "adoptsettle"
        /\ RowKept /\ (Idles(p) \/ Advances(p, "adoptclose"))
<1>1. job[p].pc = "adoptsettle"
  BY DEF AdoptSettle, At
<1> QED
  BY <1>1, Moves, Rows, Fields DEF AdoptSettle, OnlyJob, Only

\* Closing an adopted payment clears the claim, whoever holds it.
LEMMA AdoptCloseEffect ==
  ASSUME TypeOK, Quiet, Only, NEW p \in Procs, AdoptClose(p)
  PROVE /\ job[p].pc = "adoptclose"
        /\ RowIs("paid", row.gid, Free) /\ Idles(p)
<1>1. job[p].pc = "adoptclose"
  BY DEF AdoptClose, At
<1> QED
  BY <1>1, Moves, Rows, Fields DEF AdoptClose, OnlyJob, Only

\* A row is inserted already claimed.
LEMMA OpenRowEffect ==
  ASSUME TypeOK, Quiet, Only, NEW p \in Procs, OpenRow(p)
  PROVE /\ job[p].pc = "open"
        /\ \/ row.st = "none" /\ RowIs("pending", row.gid, p) /\ Advances(p, "prepare")
           \/ RowKept /\ Idles(p)
<1>1. job[p].pc = "open"
  BY DEF OpenRow, At
<1> QED
  BY <1>1, Moves, Rows, Fields DEF OpenRow, OnlyJob, Only

\* The patch leaves the claim and the gateway id.
LEMMA PrepareEffect ==
  ASSUME TypeOK, Quiet, Only, NEW p \in Procs, Prepare(p)
  PROVE /\ job[p].pc = "prepare"
        /\ RowKept /\ Advances(p, "recheck")
<1>1. job[p].pc = "prepare"
  BY DEF Prepare, At
<1> QED
  BY <1>1, Moves, Rows, Fields DEF Prepare, OnlyJob, Only

\* Nobody is exempted or leaves here, so the second reading goes on to the gateway.
LEMMA RecheckEffect ==
  ASSUME TypeOK, Quiet, Only, NEW p \in Procs, Recheck(p)
  PROVE /\ job[p].pc = "recheck"
        /\ RowKept /\ Advances(p, "call")
<1>1. job[p].pc = "recheck"
  BY DEF Recheck, At
<1> QED
  BY <1>1, Moves, Rows, Fields DEF Recheck, OnlyJob, Only, Quiet

\* A created charge is carried to markIssued.
LEMMA CreateOkEffect ==
  ASSUME TypeOK, Quiet, Only, NEW p \in Procs, CreateOk(p)
  PROVE /\ job[p].pc = "call"
        /\ RowKept /\ \E g \in Charges : Moved(p, job[p].op, "mark", job[p].gid, g)
<1>1. job[p].pc = "call"
  BY DEF CreateOk, At
<1> QED
  BY <1>1, Moves, Rows, Fields DEF CreateOk, OnlyJob, Only

\* A lost answer leads to markFailed.
LEMMA CreateLostEffect ==
  ASSUME TypeOK, Quiet, Only, NEW p \in Procs, CreateLost(p)
  PROVE /\ job[p].pc = "call"
        /\ RowKept /\ Advances(p, "fail")
<1>1. job[p].pc = "call"
  BY DEF CreateLost, At
<1> QED
  BY <1>1, Moves, Rows, Fields DEF CreateLost, OnlyJob, Only

\* A refused card is tried again at the same step.
LEMMA CreateRefusedEffect ==
  ASSUME TypeOK, Quiet, Only, NEW p \in Procs, CreateRefused(p)
  PROVE /\ job[p].pc = "call"
        /\ RowKept /\ Advances(p, job[p].pc)
<1>1. job[p].pc = "call"
  BY DEF CreateRefused, At
<1> QED
  BY <1>1, Moves, Rows, Fields DEF CreateRefused, OnlyJob, Only

\* A failure leads to markFailed.
LEMMA CreateFailedEffect ==
  ASSUME TypeOK, Quiet, Only, NEW p \in Procs, CreateFailed(p)
  PROVE /\ job[p].pc = "call"
        /\ RowKept /\ Advances(p, "fail")
<1>1. job[p].pc = "call"
  BY DEF CreateFailed, At
<1> QED
  BY <1>1, Moves, Rows, Fields DEF CreateFailed, OnlyJob, Only

\* A failure gives the claim back.
LEMMA MarkFailedEffect ==
  ASSUME TypeOK, Quiet, Only, NEW p \in Procs, MarkFailed(p)
  PROVE /\ job[p].pc = "fail"
        /\ RowIs("failed", row.gid, Free) /\ Idles(p)
<1>1. job[p].pc = "fail"
  BY DEF MarkFailed, At
<1> QED
  BY <1>1, Moves, Rows, Fields DEF MarkFailed, OnlyJob, Only

\* The charge goes on a row that has none; otherwise it is undone.
LEMMA MarkIssuedEffect ==
  ASSUME TypeOK, Quiet, Only, NEW p \in Procs, MarkIssued(p)
  PROVE /\ job[p].pc = "mark"
        /\ \/ row.gid = NoCharge /\ RowIs("pending", job[p].made, Free) /\ Advances(p, "after")
           \/ RowKept /\ Advances(p, "undo")
<1>1. job[p].pc = "mark"
  BY DEF MarkIssued, At
<1> QED
  BY <1>1, Moves, Rows, Fields DEF MarkIssued, OnlyJob, Only

\* Undoing a duplicate leaves the row alone.
LEMMA UndoDuplicateEffect ==
  ASSUME TypeOK, Quiet, Only, NEW p \in Procs, UndoDuplicate(p)
  PROVE /\ job[p].pc = "undo"
        /\ RowKept /\ Idles(p)
<1>1. job[p].pc = "undo"
  BY DEF UndoDuplicate, At
<1> QED
  BY <1>1, Moves, Rows, Fields DEF UndoDuplicate, OnlyJob, Only

\* Nobody leaves here, so an issued charge stays.
LEMMA AfterIssueEffect ==
  ASSUME TypeOK, Quiet, Only, NEW p \in Procs, AfterIssue(p)
  PROVE /\ job[p].pc = "after"
        /\ RowKept /\ Idles(p)
<1>1. job[p].pc = "after"
  BY DEF AfterIssue, At
<1> QED
  BY <1>1, Moves, Rows, Fields DEF AfterIssue, OnlyJob, Only, Quiet

\* A reprice notes the gateway id of an open row.
LEMMA ListEffect ==
  ASSUME TypeOK, Quiet, Only, NEW p \in Procs, List(p)
  PROVE /\ job[p].pc = "list"
        /\ RowKept /\ (Idles(p) \/ (row.st \in Open /\ Moved(p, job[p].op, "take", row.gid, job[p].made)))
<1>1. job[p].pc = "list"
  BY DEF List, At
<1>2. RowKept /\ (Idles(p) \/ (row.st \in Open /\ Moved(p, job[p].op, "take", row.gid, job[p].made)))
  <2>1. job[p].op = "reprice"
    BY DEF List, Quiet, At, Repricing
  <2>2. RowKept
    BY Rows DEF List, OnlyJob
  <2>3. CASE row.st \in Open
    <3>1. Now(p, [job[p] EXCEPT !.gid = row.gid, !.pc = "take"])
      BY <2>3 DEF List
    <3> QED
      BY <3>1, <2>2, <2>3, Moves
  <2>4. CASE row.st \notin Open
    <3>1. Finish(p)
      BY <2>1, <2>4 DEF List, AfterList, Goto
    <3> QED
      BY <3>1, <2>2, Moves
  <2> QED
    BY <2>3, <2>4
<1> QED
  BY <1>1, <1>2

\* Only a free row is taken.
LEMMA TakeEffect ==
  ASSUME TypeOK, Quiet, Only, NEW p \in Procs, Take(p)
  PROVE /\ job[p].pc = "take"
        /\ \/ row.claim = Free /\ RowIs(row.st, row.gid, p) /\ Advances(p, "reread")
           \/ RowKept /\ Idles(p)
<1>1. job[p].pc = "take"
  BY DEF Take, At
<1> QED
  BY <1>1, Moves, Rows, Fields DEF Take, OnlyJob, Only, Quiet, CanClaim, At, Repricing

\* A reprice notes the gateway id again, or gives the claim back.
LEMMA RereadEffect ==
  ASSUME TypeOK, Quiet, Only, NEW p \in Procs, Reread(p)
  PROVE /\ job[p].pc = "reread"
        /\ \/ RowKept /\ Moved(p, job[p].op, "wipe", row.gid, job[p].made)
           \/ RowIs(row.st, row.gid, Free) /\ Idles(p)
<1>1. job[p].pc = "reread"
  BY DEF Reread, At
<1> QED
  BY <1>1, Moves, Rows, Fields DEF Reread, OnlyJob, Only

\* Only a charge that is not paid is withdrawn; a refusal gives the claim back.
LEMMA WipeEffect ==
  ASSUME TypeOK, Quiet, Only, NEW p \in Procs, Wipe(p)
  PROVE /\ job[p].pc = "wipe"
        /\ \/ /\ RowKept /\ Advances(p, "reset")
              /\ job[p].gid = NoCharge \/ gw[job[p].gid] # "paid"
           \/ RowIs(row.st, row.gid, Free) /\ Idles(p)
<1>1. job[p].pc = "wipe"
  BY DEF Wipe, At
<1> QED
  BY <1>1, Moves, Rows, Fields DEF Wipe, OnlyJob, Only, Quiet, At, Repricing, GatewayCancel

\* The claim is given back after the new plan.
LEMMA PlanEffect ==
  ASSUME TypeOK, Quiet, Only, NEW p \in Procs, Plan(p)
  PROVE /\ job[p].pc = "plan"
        /\ RowIs(row.st, row.gid, Free)
        /\ Idles(p) \/ Moved(p, "click", "begin", NoCharge, NoCharge)
<1>1. job[p].pc = "plan"
  BY DEF Plan, At
<1> QED
  BY <1>1, Moves, Rows, Fields DEF Plan, OnlyJob, Only

\* A pass, a click or a reprice begins.
LEMMA StartEffect ==
  ASSUME TypeOK, Quiet, Only, NEW p \in Procs, Start(p)
  PROVE /\ job[p].pc = "idle"
        /\ RowKept
        /\ \/ \E op \in {"auto", "click"} : Moved(p, op, "begin", NoCharge, NoCharge)
           \/ Moved(p, "reprice", "list", NoCharge, NoCharge)
<1>1. job[p].pc = "idle"
  BY DEF Start, At, StartPass, StartJob, Gesture, Exempt, Retain
<1> QED
  BY <1>1, Moves, Rows, Fields DEF Start, OnlyJob, Only, StartPass, StartJob, Gesture, Exempt, Retain, At

\* The claim of a process that dies is nobody's.
LEMMA CrashEffect ==
  ASSUME TypeOK, Quiet, Only, NEW p \in Procs, Crash(p)
  PROVE /\ Idles(p)
           /\ \/ row.claim = p /\ RowIs(row.st, row.gid, Dead)
              \/ row.claim # p /\ RowKept
  BY Moves, Rows, Fields DEF Crash, OnlyJob, Only

-----------------------------------------------------------------------------
(* The inductive step: the part of ExclusionInv that is not a type.         *)

\* A step that leaves alone what only the other gestures change, and unpays nothing.
Calm ==
  /\ stalls' = stalls /\ sub'.exempt = sub.exempt /\ sub'.hold = sub.hold
  /\ notes' \subseteq Charges \X {"settle"}
  /\ \A g \in Charges : gw[g] = "paid" => gw'[g] = "paid"

Kept == Quiet' /\ Seen' /\ (stalls' = 0 => Owner')

\* Under Owner only the taker of the claim is at a firm step, and only a settled
\* row leaves a reprice without the claim.
LEMMA Claimed ==
  ASSUME Owner, NEW q \in Procs, row.claim # q
  PROVE job[q].pc \notin Firm /\ (job[q].pc \in {"reread", "wipe"} => Settled)
  BY DEF Owner, Fits

\* What keeps the others in order when the gateway id of the row stays.
LEMMA OthersFit ==
  ASSUME TypeInv, Owner, Calm, NEW q \in Procs, job'[q] = job[q], row'.gid = row.gid,
         job[q].pc \in Firm => row'.claim = row.claim,
         job[q].pc \in {"reread", "wipe"} => row'.claim = row.claim \/ Settled
  PROVE Fits(q)'
<1>1. Settled => Settled'
  BY Fields DEF Settled, Calm, TypeInv
<1>2. job[q].pc = "adoptpaid" /\ gw[job[q].made] = "paid" => gw'[job[q].made] = "paid"
  BY DEF Calm, TypeInv, HandsFull, Carrying
<1> QED
  BY <1>1, <1>2 DEF Owner, Fits

\* The steps that need nothing of the row, and those that keep the claim.
Unburdened == {"idle", "begin", "read", "list", "open", "claim", "undo", "after", "take"}
Issuing == {"lookup", "prepare", "recheck", "call", "fail", "adoptlive", "adoptpaid", "mark"}

\* A process that leaves the row alone and goes where nothing is asked of it.
LEMMA PlainMove ==
  ASSUME TypeInv, Quiet, Seen, stalls = 0 => Owner, Calm, RowKept, NEW p \in Procs,
         NEW op \in {"none", "auto", "click", "reprice"}, NEW pc \in Unburdened, NEW gid, NEW made,
         Moved(p, op, pc, gid, made), pc \in Repricing => op = "reprice",
         row.st = "none" => pc \in {"idle", "begin", "read", "list", "open"}
  PROVE Kept
<1>1. Quiet'
  BY DEF Calm, Moved, RowIs, RowKept, Quiet, Emitting, Repricing, Unburdened
<1>2. Seen'
  BY DEF Moved, RowIs, RowKept, Seen
<1>3. ASSUME stalls = 0, NEW q \in Procs PROVE Fits(q)'
  <2>1. CASE q = p
    BY <2>1 DEF Moved, Fits, Firm, Unburdened
  <2>2. CASE q # p
    BY <1>3, <2>2, OthersFit DEF Moved, RowIs, RowKept
  <2> QED
    BY <2>1, <2>2
<1>4. ASSUME stalls = 0 PROVE Apart'
  BY <1>4 DEF Moved, Owner, Apart, Renewing, Unburdened
<1> QED
  BY <1>1, <1>2, <1>3, <1>4 DEF Kept, Owner, Calm

\* A process that goes on issuing under its claim, or found a paid charge.
LEMMA IssuingMove ==
  ASSUME TypeInv, Quiet, Seen, stalls = 0 => Owner, Calm, RowKept, NEW p \in Procs,
         job[p].pc \in Issuing, NEW pc \in Issuing, NEW made,
         Moved(p, job[p].op, pc, job[p].gid, made), pc = "adoptpaid" => gw'[made] = "paid"
  PROVE Kept
<1>1. Quiet'
  BY DEF Calm, Moved, RowIs, RowKept, Quiet, Emitting, Repricing, Issuing
<1>2. Seen'
  BY DEF Moved, RowIs, RowKept, Seen, Issuing
<1>3. ASSUME stalls = 0, NEW q \in Procs PROVE Fits(q)'
  <2>1. CASE q = p
    BY <1>3, <2>1 DEF Moved, RowIs, RowKept, Owner, Fits, Firm, Issuing
  <2>2. CASE q # p
    BY <1>3, <2>2, OthersFit DEF Moved, RowIs, RowKept
  <2> QED
    BY <2>1, <2>2
<1>4. ASSUME stalls = 0 PROVE Apart'
  BY <1>4 DEF Moved, Owner, Apart, Renewing, Issuing
<1> QED
  BY <1>1, <1>2, <1>3, <1>4 DEF Kept, Owner, Calm

\* One step per action; the two lemmas above dispose of those that change little.
LEMMA ExclusionStep ==
  ASSUME ConstantsAssumption, Only, TypeInv, Quiet, Seen, stalls = 0 => Owner, [Next]_vars
  PROVE Kept
<1> TypeOK /\ Free \notin Procs /\ Dead \notin Procs /\ NoCharge \notin Charges
  BY DEF TypeInv, ConstantsAssumption
<1>1. ASSUME NEW p \in Procs, Begin(p) PROVE Kept
  <2>1. Calm
    BY <1>1 DEF Begin, OnlyJob, OnlyRow, Calm, Quiet, TypeOK, Only
  <2> QED
    BY <1>1, <2>1, BeginEffect, PlainMove DEF Idles, Advances, Unburdened, Repricing, Seen, Quiet
<1>2. ASSUME NEW p \in Procs, ReadRow(p) PROVE Kept
  <2>1. Calm
    BY <1>2 DEF ReadRow, OnlyJob, OnlyRow, Calm, Quiet, TypeOK, Only
  <2> QED
    BY <1>2, <2>1, ReadRowEffect, PlainMove DEF Idles, Advances, Unburdened, Repricing, Seen, Quiet
<1>3. ASSUME NEW p \in Procs, Defer(p) PROVE Kept
  <2>1. Calm
    BY <1>3 DEF Defer, OnlyJob, OnlyRow, Calm, Quiet, TypeOK, Only
  <2> QED
    BY <1>3, <2>1, DeferEffect, PlainMove DEF Idles, Advances, Unburdened, Repricing, Seen, Quiet
<1>4. ASSUME NEW p \in Procs, ResetRead(p) PROVE Kept
  <2>1. job[p].pc = "reset"
    BY <1>4, ResetReadEffect
  <2>2. RowKept /\ Moved(p, job[p].op, "resetw", row.gid, job[p].made)
    BY <1>4, ResetReadEffect
  <2>3. Calm
    BY <1>4 DEF ResetRead, OnlyJob, OnlyRow, Calm, Quiet, TypeOK, Only
  <2>4. Quiet'
    BY <2>1, <2>2, <2>3 DEF Calm, Moved, Idles, Advances, RowIs, RowKept, Quiet, Emitting, Repricing, Open
  <2>5. Seen'
    BY <2>1, <2>2, <2>3 DEF Calm, Moved, Idles, Advances, RowIs, RowKept, Seen, Open
  <2>6. ASSUME stalls = 0, NEW q \in Procs PROVE Fits(q)'
    <3>1. CASE q = p
      BY <2>1, <2>2, <2>3, <2>6, <3>1, Fields DEF Calm, Moved, Idles, Advances, RowIs, RowKept, Owner, Fits, Settled, Firm, Apart, Renewing
    <3>2. CASE q # p
      BY <2>1, <2>2, <2>3, <2>6, <3>2, Fields, Claimed DEF Calm, Moved, Idles, Advances, RowIs, RowKept, Owner, Fits, Settled, Firm, Apart, Renewing
    <3> QED
      BY <3>1, <3>2
  <2>7. ASSUME stalls = 0 PROVE Apart'
    BY <2>1, <2>2, <2>3, <2>7, Fields DEF Calm, Moved, Idles, Advances, RowIs, RowKept, Owner, Fits, Settled, Firm, Apart, Renewing
  <2> QED
    BY <2>3, <2>4, <2>5, <2>6, <2>7 DEF Kept, Owner, Calm
<1>5. ASSUME NEW p \in Procs, ResetWrite(p) PROVE Kept
  <2>1. job[p].pc = "resetw"
    BY <1>5, ResetWriteEffect
  <2>2. \/ RowIs("pending", NoCharge, p) /\ Moved(p, job[p].op, "plan", NoCharge, job[p].made)
        \/ RowIs(row.st, row.gid, Free) /\ Idles(p)
    BY <1>5, ResetWriteEffect
  <2>3. Calm
    BY <1>5 DEF ResetWrite, OnlyJob, OnlyRow, Calm, Quiet, TypeOK, Only
  <2>4. Quiet'
    BY <2>1, <2>2, <2>3 DEF Calm, Moved, Idles, Advances, RowIs, RowKept, Quiet, Emitting, Repricing, Open
  <2>5. Seen'
    BY <2>1, <2>2, <2>3 DEF Calm, Moved, Idles, Advances, RowIs, RowKept, Seen, Open
  <2>6. ASSUME stalls = 0, NEW q \in Procs PROVE Fits(q)'
    <3>1. CASE q = p
      BY <2>1, <2>2, <2>3, <2>6, <3>1, Fields DEF Calm, Moved, Idles, Advances, RowIs, RowKept, Owner, Fits, Settled, Firm, Apart, Renewing
    <3>2. CASE q # p
      BY <2>1, <2>2, <2>3, <2>6, <3>2, Fields, Claimed DEF Calm, Moved, Idles, Advances, RowIs, RowKept, Owner, Fits, Settled, Firm, Apart, Renewing
    <3> QED
      BY <3>1, <3>2
  <2>7. ASSUME stalls = 0 PROVE Apart'
    BY <2>1, <2>2, <2>3, <2>7, Fields DEF Calm, Moved, Idles, Advances, RowIs, RowKept, Owner, Fits, Settled, Firm, Apart, Renewing
  <2> QED
    BY <2>3, <2>4, <2>5, <2>6, <2>7 DEF Kept, Owner, Calm
<1>6. ASSUME NEW p \in Procs, Claim(p) PROVE Kept
  <2>1. job[p].pc = "claim"
    BY <1>6, ClaimEffect
  <2>2. \/ /\ row.claim = Free /\ row.gid = NoCharge /\ RowIs(row.st, row.gid, p)
           /\ \E s \in {"lookup", "prepare"} : Advances(p, s)
        \/ RowKept /\ Idles(p)
    BY <1>6, ClaimEffect
  <2>3. Calm
    BY <1>6 DEF Claim, OnlyJob, OnlyRow, Calm, Quiet, TypeOK, Only
  <2>4. Quiet'
    BY <2>1, <2>2, <2>3 DEF Calm, Moved, Idles, Advances, RowIs, RowKept, Quiet, Emitting, Repricing, Open
  <2>5. Seen'
    BY <2>1, <2>2, <2>3 DEF Calm, Moved, Idles, Advances, RowIs, RowKept, Seen, Open
  <2>6. ASSUME stalls = 0, NEW q \in Procs PROVE Fits(q)'
    <3>1. CASE q = p
      BY <2>1, <2>2, <2>3, <2>6, <3>1, Fields DEF Calm, Moved, Idles, Advances, RowIs, RowKept, Owner, Fits, Settled, Firm, Apart, Renewing
    <3>2. CASE q # p
      <4>1. job'[q] = job[q] /\ row'.gid = row.gid
        BY <2>2, <3>2 DEF Moved, Idles, Advances, RowIs, RowKept
      <4>2. job[q].pc \in Firm \cup {"reread", "wipe"} => row'.claim = row.claim \/ Settled
        BY <2>2, <2>6, <3>2, Claimed DEF RowIs, RowKept, Settled
      <4>3. job[q].pc \in Firm => row'.claim = row.claim
        BY <2>2, <2>6, <3>2, Claimed DEF RowIs, RowKept
      <4> QED
        BY <2>3, <2>6, <4>1, <4>2, <4>3, OthersFit
    <3> QED
      BY <3>1, <3>2
  <2>7. ASSUME stalls = 0 PROVE Apart'
    BY <2>1, <2>2, <2>3, <2>7, Fields DEF Calm, Moved, Idles, Advances, RowIs, RowKept, Owner, Fits, Settled, Firm, Apart, Renewing
  <2> QED
    BY <2>3, <2>4, <2>5, <2>6, <2>7 DEF Kept, Owner, Calm
<1>7. ASSUME NEW p \in Procs, Lookup(p) PROVE Kept
  <2>1. Calm
    BY <1>7 DEF Lookup, OnlyJob, OnlyRow, Calm, Quiet, TypeOK, Only
  <2>2. CASE \E s \in {"prepare", "fail"} : Advances(p, s)
    BY <1>7, <2>1, <2>2, LookupEffect, IssuingMove DEF Advances, Issuing
  <2>3. CASE \E g \in Charges : Moved(p, job[p].op, "adoptlive", job[p].gid, g)
    BY <1>7, <2>1, <2>3, LookupEffect, IssuingMove DEF Issuing
  <2>4. CASE \E g \in Charges : gw[g] = "paid" /\ Moved(p, job[p].op, "adoptpaid", job[p].gid, g)
    BY <1>7, <2>1, <2>4, LookupEffect, IssuingMove DEF Issuing, Calm
  <2> QED
    BY <1>7, <2>2, <2>3, <2>4, LookupEffect
<1>8. ASSUME NEW p \in Procs, Adopt(p) PROVE Kept
  <2>1. job[p].pc \in {"adoptpaid", "adoptlive"}
    BY <1>8, AdoptEffect
  <2>2. /\ \/ row.gid = NoCharge /\ RowIs("pending", job[p].made, Free)
           \/ row.gid # NoCharge /\ RowKept
        /\ Idles(p) \/ (job[p].pc = "adoptpaid" /\ Advances(p, "adoptsettle"))
    BY <1>8, AdoptEffect
  <2>3. Calm
    BY <1>8 DEF Adopt, OnlyJob, OnlyRow, Calm, Quiet, TypeOK, Only
  <2>4. Quiet'
    BY <2>1, <2>2, <2>3 DEF Calm, Moved, Idles, Advances, RowIs, RowKept, Quiet, Emitting, Repricing, Open
  <2>5. Seen'
    BY <2>1, <2>2, <2>3 DEF Calm, Moved, Idles, Advances, RowIs, RowKept, Seen, Open
  <2>6. ASSUME stalls = 0, NEW q \in Procs PROVE Fits(q)'
    <3>1. CASE q = p
      BY <2>1, <2>2, <2>3, <2>6, <3>1, Fields DEF Calm, Moved, Idles, Advances, RowIs, RowKept, Owner, Fits, Settled, Firm, Apart, Renewing, TypeInv, HandsFull, Carrying
    <3>2. CASE q # p
      BY <2>1, <2>2, <2>3, <2>6, <3>2, Fields, Claimed DEF Calm, Moved, Idles, Advances, RowIs, RowKept, Owner, Fits, Settled, Firm, Apart, Renewing
    <3> QED
      BY <3>1, <3>2
  <2>7. ASSUME stalls = 0 PROVE Apart'
    BY <2>1, <2>2, <2>3, <2>7, Fields DEF Calm, Moved, Idles, Advances, RowIs, RowKept, Owner, Fits, Settled, Firm, Apart, Renewing
  <2> QED
    BY <2>3, <2>4, <2>5, <2>6, <2>7 DEF Kept, Owner, Calm
<1>9. ASSUME NEW p \in Procs, AdoptSettle(p) PROVE Kept
  <2>1. job[p].pc = "adoptsettle"
    BY <1>9, AdoptSettleEffect
  <2>2. RowKept /\ (Idles(p) \/ Advances(p, "adoptclose"))
    BY <1>9, AdoptSettleEffect
  <2>3. Calm
    BY <1>9 DEF AdoptSettle, OnlyJob, OnlyRow, Calm, Quiet, TypeOK, Only
  <2>4. Quiet'
    BY <2>1, <2>2, <2>3 DEF Calm, Moved, Idles, Advances, RowIs, RowKept, Quiet, Emitting, Repricing, Open
  <2>5. Seen'
    BY <2>1, <2>2, <2>3 DEF Calm, Moved, Idles, Advances, RowIs, RowKept, Seen, Open
  <2>6. ASSUME stalls = 0, NEW q \in Procs PROVE Fits(q)'
    <3>1. CASE q = p
      BY <2>1, <2>2, <2>3, <2>6, <3>1, Fields DEF Calm, Moved, Idles, Advances, RowIs, RowKept, Owner, Fits, Settled, Firm, Apart, Renewing
    <3>2. CASE q # p
      BY <2>1, <2>2, <2>3, <2>6, <3>2, Fields, Claimed DEF Calm, Moved, Idles, Advances, RowIs, RowKept, Owner, Fits, Settled, Firm, Apart, Renewing
    <3> QED
      BY <3>1, <3>2
  <2>7. ASSUME stalls = 0 PROVE Apart'
    BY <2>1, <2>2, <2>3, <2>7, Fields DEF Calm, Moved, Idles, Advances, RowIs, RowKept, Owner, Fits, Settled, Firm, Apart, Renewing
  <2> QED
    BY <2>3, <2>4, <2>5, <2>6, <2>7 DEF Kept, Owner, Calm
<1>10. ASSUME NEW p \in Procs, AdoptClose(p) PROVE Kept
  <2>1. job[p].pc = "adoptclose"
    BY <1>10, AdoptCloseEffect
  <2>2. RowIs("paid", row.gid, Free) /\ Idles(p)
    BY <1>10, AdoptCloseEffect
  <2>3. Calm
    BY <1>10 DEF AdoptClose, OnlyJob, OnlyRow, Calm, Quiet, TypeOK, Only
  <2>4. Quiet'
    BY <2>1, <2>2, <2>3 DEF Calm, Moved, Idles, Advances, RowIs, RowKept, Quiet, Emitting, Repricing, Open
  <2>5. Seen'
    BY <2>1, <2>2, <2>3 DEF Calm, Moved, Idles, Advances, RowIs, RowKept, Seen, Open
  <2>6. ASSUME stalls = 0, NEW q \in Procs PROVE Fits(q)'
    <3>1. CASE q = p
      BY <2>1, <2>2, <2>3, <2>6, <3>1, Fields DEF Calm, Moved, Idles, Advances, RowIs, RowKept, Owner, Fits, Settled, Firm, Apart, Renewing
    <3>2. CASE q # p
      BY <2>1, <2>2, <2>3, <2>6, <3>2, Fields, Claimed DEF Calm, Moved, Idles, Advances, RowIs, RowKept, Owner, Fits, Settled, Firm, Apart, Renewing
    <3> QED
      BY <3>1, <3>2
  <2>7. ASSUME stalls = 0 PROVE Apart'
    BY <2>1, <2>2, <2>3, <2>7, Fields DEF Calm, Moved, Idles, Advances, RowIs, RowKept, Owner, Fits, Settled, Firm, Apart, Renewing
  <2> QED
    BY <2>3, <2>4, <2>5, <2>6, <2>7 DEF Kept, Owner, Calm
<1>11. ASSUME NEW p \in Procs, OpenRow(p) PROVE Kept
  <2>1. job[p].pc = "open"
    BY <1>11, OpenRowEffect
  <2>2. \/ row.st = "none" /\ RowIs("pending", row.gid, p) /\ Advances(p, "prepare")
        \/ RowKept /\ Idles(p)
    BY <1>11, OpenRowEffect
  <2>3. Calm
    BY <1>11 DEF OpenRow, OnlyJob, OnlyRow, Calm, Quiet, TypeOK, Only
  <2>4. Quiet'
    BY <2>1, <2>2, <2>3 DEF Calm, Moved, Idles, Advances, RowIs, RowKept, Quiet, Emitting, Repricing, Open
  <2>5. Seen'
    BY <2>1, <2>2, <2>3 DEF Calm, Moved, Idles, Advances, RowIs, RowKept, Seen, Open
  <2>6. ASSUME stalls = 0, NEW q \in Procs PROVE Fits(q)'
    <3>1. CASE q = p
      BY <2>1, <2>2, <2>3, <2>6, <3>1, Fields DEF Calm, Moved, Idles, Advances, RowIs, RowKept, Owner, Fits, Settled, Firm, Apart, Renewing, Seen
    <3>2. CASE q # p
      <4>1. job'[q] = job[q]
        BY <2>2, <3>2 DEF Moved, Idles, Advances
      <4>2. job[q].pc \in Firm \cup {"reread", "wipe"} => row.st # "none"
        BY DEF Seen, Firm
      <4>3. row'.gid = row.gid /\ (row.st # "none" => row'.claim = row.claim)
        BY <2>2 DEF RowIs, RowKept
      <4> QED
        BY <2>3, <2>6, <4>1, <4>2, <4>3, OthersFit
    <3> QED
      BY <3>1, <3>2
  <2>7. ASSUME stalls = 0 PROVE Apart'
    BY <2>1, <2>2, <2>3, <2>7, Fields DEF Calm, Moved, Idles, Advances, RowIs, RowKept, Owner, Fits, Settled, Firm, Apart, Renewing
  <2> QED
    BY <2>3, <2>4, <2>5, <2>6, <2>7 DEF Kept, Owner, Calm
<1>12. ASSUME NEW p \in Procs, Prepare(p) PROVE Kept
  <2>1. Calm
    BY <1>12 DEF Prepare, OnlyJob, OnlyRow, Calm, Quiet, TypeOK, Only
  <2> QED
    BY <1>12, <2>1, PrepareEffect, IssuingMove DEF Advances, Issuing
<1>13. ASSUME NEW p \in Procs, Recheck(p) PROVE Kept
  <2>1. Calm
    BY <1>13 DEF Recheck, OnlyJob, OnlyRow, Calm, Quiet, TypeOK, Only
  <2> QED
    BY <1>13, <2>1, RecheckEffect, IssuingMove DEF Advances, Issuing
<1>14. ASSUME NEW p \in Procs, CreateOk(p) PROVE Kept
  <2>1. Calm
    BY <1>14 DEF CreateOk, OnlyJob, OnlyRow, Calm, Quiet, TypeOK, Only, Created
  <2> QED
    BY <1>14, <2>1, CreateOkEffect, IssuingMove DEF Advances, Issuing
<1>15. ASSUME NEW p \in Procs, CreateLost(p) PROVE Kept
  <2>1. Calm
    BY <1>15 DEF CreateLost, OnlyJob, OnlyRow, Calm, Quiet, TypeOK, Only, Created
  <2> QED
    BY <1>15, <2>1, CreateLostEffect, IssuingMove DEF Advances, Issuing
<1>16. ASSUME NEW p \in Procs, CreateRefused(p) PROVE Kept
  <2>1. Calm
    BY <1>16 DEF CreateRefused, OnlyJob, OnlyRow, Calm, Quiet, TypeOK, Only
  <2> QED
    BY <1>16, <2>1, CreateRefusedEffect, IssuingMove DEF Advances, Issuing
<1>17. ASSUME NEW p \in Procs, CreateFailed(p) PROVE Kept
  <2>1. Calm
    BY <1>17 DEF CreateFailed, OnlyJob, OnlyRow, Calm, Quiet, TypeOK, Only
  <2> QED
    BY <1>17, <2>1, CreateFailedEffect, IssuingMove DEF Advances, Issuing
<1>18. ASSUME NEW p \in Procs, MarkFailed(p) PROVE Kept
  <2>1. job[p].pc = "fail"
    BY <1>18, MarkFailedEffect
  <2>2. RowIs("failed", row.gid, Free) /\ Idles(p)
    BY <1>18, MarkFailedEffect
  <2>3. Calm
    BY <1>18 DEF MarkFailed, OnlyJob, OnlyRow, Calm, Quiet, TypeOK, Only
  <2>4. Quiet'
    BY <2>1, <2>2, <2>3 DEF Calm, Moved, Idles, Advances, RowIs, RowKept, Quiet, Emitting, Repricing, Open
  <2>5. Seen'
    BY <2>1, <2>2, <2>3 DEF Calm, Moved, Idles, Advances, RowIs, RowKept, Seen, Open
  <2>6. ASSUME stalls = 0, NEW q \in Procs PROVE Fits(q)'
    <3>1. CASE q = p
      BY <2>1, <2>2, <2>3, <2>6, <3>1, Fields DEF Calm, Moved, Idles, Advances, RowIs, RowKept, Owner, Fits, Settled, Firm, Apart, Renewing
    <3>2. CASE q # p
      BY <2>1, <2>2, <2>3, <2>6, <3>2, Fields, Claimed DEF Calm, Moved, Idles, Advances, RowIs, RowKept, Owner, Fits, Settled, Firm, Apart, Renewing
    <3> QED
      BY <3>1, <3>2
  <2>7. ASSUME stalls = 0 PROVE Apart'
    BY <2>1, <2>2, <2>3, <2>7, Fields DEF Calm, Moved, Idles, Advances, RowIs, RowKept, Owner, Fits, Settled, Firm, Apart, Renewing
  <2> QED
    BY <2>3, <2>4, <2>5, <2>6, <2>7 DEF Kept, Owner, Calm
<1>19. ASSUME NEW p \in Procs, MarkIssued(p) PROVE Kept
  <2>1. job[p].pc = "mark"
    BY <1>19, MarkIssuedEffect
  <2>2. \/ row.gid = NoCharge /\ RowIs("pending", job[p].made, Free) /\ Advances(p, "after")
        \/ RowKept /\ Advances(p, "undo")
    BY <1>19, MarkIssuedEffect
  <2>3. Calm
    BY <1>19 DEF MarkIssued, OnlyJob, OnlyRow, Calm, Quiet, TypeOK, Only
  <2>4. Quiet'
    BY <2>1, <2>2, <2>3 DEF Calm, Moved, Idles, Advances, RowIs, RowKept, Quiet, Emitting, Repricing, Open
  <2>5. Seen'
    BY <2>1, <2>2, <2>3 DEF Calm, Moved, Idles, Advances, RowIs, RowKept, Seen, Open
  <2>6. ASSUME stalls = 0, NEW q \in Procs PROVE Fits(q)'
    <3>1. CASE q = p
      BY <2>1, <2>2, <2>3, <2>6, <3>1, Fields DEF Calm, Moved, Idles, Advances, RowIs, RowKept, Owner, Fits, Settled, Firm, Apart, Renewing
    <3>2. CASE q # p
      BY <2>1, <2>2, <2>3, <2>6, <3>2, Fields, Claimed DEF Calm, Moved, Idles, Advances, RowIs, RowKept, Owner, Fits, Settled, Firm, Apart, Renewing
    <3> QED
      BY <3>1, <3>2
  <2>7. ASSUME stalls = 0 PROVE Apart'
    BY <2>1, <2>2, <2>3, <2>7, Fields DEF Calm, Moved, Idles, Advances, RowIs, RowKept, Owner, Fits, Settled, Firm, Apart, Renewing
  <2> QED
    BY <2>3, <2>4, <2>5, <2>6, <2>7 DEF Kept, Owner, Calm
<1>20. ASSUME NEW p \in Procs, UndoDuplicate(p) PROVE Kept
  <2>1. Calm
    BY <1>20 DEF UndoDuplicate, OnlyJob, OnlyRow, Calm, Quiet, TypeOK, Only, GatewayCancel
  <2> QED
    BY <1>20, <2>1, UndoDuplicateEffect, PlainMove DEF Idles, Advances, Unburdened, Repricing, Seen, Quiet
<1>21. ASSUME NEW p \in Procs, AfterIssue(p) PROVE Kept
  <2>1. Calm
    BY <1>21 DEF AfterIssue, OnlyJob, OnlyRow, Calm, Quiet, TypeOK, Only
  <2> QED
    BY <1>21, <2>1, AfterIssueEffect, PlainMove DEF Idles, Advances, Unburdened, Repricing, Seen, Quiet
<1>22. ASSUME NEW p \in Procs, List(p) PROVE Kept
  <2>1. Calm
    BY <1>22 DEF List, OnlyJob, OnlyRow, Calm, Quiet, TypeOK, Only
  <2> QED
    BY <1>22, <2>1, ListEffect, PlainMove DEF Idles, Advances, Unburdened, Repricing, Seen, Quiet, Open
<1>23. ASSUME NEW p \in Procs, Take(p) PROVE Kept
  <2>1. job[p].pc = "take"
    BY <1>23, TakeEffect
  <2>2. \/ row.claim = Free /\ RowIs(row.st, row.gid, p) /\ Advances(p, "reread")
        \/ RowKept /\ Idles(p)
    BY <1>23, TakeEffect
  <2>3. Calm
    BY <1>23 DEF Take, OnlyJob, OnlyRow, Calm, Quiet, TypeOK, Only
  <2>4. Quiet'
    BY <2>1, <2>2, <2>3 DEF Calm, Moved, Idles, Advances, RowIs, RowKept, Quiet, Emitting, Repricing, Open
  <2>5. Seen'
    BY <2>1, <2>2, <2>3 DEF Calm, Moved, Idles, Advances, RowIs, RowKept, Seen, Open
  <2>6. ASSUME stalls = 0, NEW q \in Procs PROVE Fits(q)'
    <3>1. CASE q = p
      BY <2>1, <2>2, <2>3, <2>6, <3>1, Fields DEF Calm, Moved, Idles, Advances, RowIs, RowKept, Owner, Fits, Settled, Firm, Apart, Renewing
    <3>2. CASE q # p
      <4>1. job'[q] = job[q] /\ row'.gid = row.gid
        BY <2>2, <3>2 DEF Moved, Idles, Advances, RowIs, RowKept
      <4>2. job[q].pc \in Firm \cup {"reread", "wipe"} => row'.claim = row.claim \/ Settled
        BY <2>2, <2>6, <3>2, Claimed DEF RowIs, RowKept, Settled
      <4>3. job[q].pc \in Firm => row'.claim = row.claim
        BY <2>2, <2>6, <3>2, Claimed DEF RowIs, RowKept
      <4> QED
        BY <2>3, <2>6, <4>1, <4>2, <4>3, OthersFit
    <3> QED
      BY <3>1, <3>2
  <2>7. ASSUME stalls = 0 PROVE Apart'
    BY <2>1, <2>2, <2>3, <2>7, Fields DEF Calm, Moved, Idles, Advances, RowIs, RowKept, Owner, Fits, Settled, Firm, Apart, Renewing
  <2> QED
    BY <2>3, <2>4, <2>5, <2>6, <2>7 DEF Kept, Owner, Calm
<1>24. ASSUME NEW p \in Procs, Reread(p) PROVE Kept
  <2>1. job[p].pc = "reread"
    BY <1>24, RereadEffect
  <2>2. \/ RowKept /\ Moved(p, job[p].op, "wipe", row.gid, job[p].made)
        \/ RowIs(row.st, row.gid, Free) /\ Idles(p)
    BY <1>24, RereadEffect
  <2>3. Calm
    BY <1>24 DEF Reread, OnlyJob, OnlyRow, Calm, Quiet, TypeOK, Only
  <2>4. Quiet'
    BY <2>1, <2>2, <2>3 DEF Calm, Moved, Idles, Advances, RowIs, RowKept, Quiet, Emitting, Repricing, Open
  <2>5. Seen'
    BY <2>1, <2>2, <2>3 DEF Calm, Moved, Idles, Advances, RowIs, RowKept, Seen, Open
  <2>6. ASSUME stalls = 0, NEW q \in Procs PROVE Fits(q)'
    <3>1. CASE q = p
      BY <2>1, <2>2, <2>3, <2>6, <3>1, Fields DEF Calm, Moved, Idles, Advances, RowIs, RowKept, Owner, Fits, Settled, Firm, Apart, Renewing
    <3>2. CASE q # p
      BY <2>1, <2>2, <2>3, <2>6, <3>2, Fields, Claimed DEF Calm, Moved, Idles, Advances, RowIs, RowKept, Owner, Fits, Settled, Firm, Apart, Renewing
    <3> QED
      BY <3>1, <3>2
  <2>7. ASSUME stalls = 0 PROVE Apart'
    BY <2>1, <2>2, <2>3, <2>7, Fields DEF Calm, Moved, Idles, Advances, RowIs, RowKept, Owner, Fits, Settled, Firm, Apart, Renewing
  <2> QED
    BY <2>3, <2>4, <2>5, <2>6, <2>7 DEF Kept, Owner, Calm
<1>25. ASSUME NEW p \in Procs, Wipe(p) PROVE Kept
  <2>1. job[p].pc = "wipe"
    BY <1>25, WipeEffect
  <2>2. \/ /\ RowKept /\ Advances(p, "reset")
           /\ job[p].gid = NoCharge \/ gw[job[p].gid] # "paid"
        \/ RowIs(row.st, row.gid, Free) /\ Idles(p)
    BY <1>25, WipeEffect
  <2>3. Calm
    BY <1>25 DEF Wipe, OnlyJob, OnlyRow, Calm, Quiet, TypeOK, Only, GatewayCancel
  <2>4. Quiet'
    BY <2>1, <2>2, <2>3 DEF Calm, Moved, Idles, Advances, RowIs, RowKept, Quiet, Emitting, Repricing, Open
  <2>5. Seen'
    BY <2>1, <2>2, <2>3 DEF Calm, Moved, Idles, Advances, RowIs, RowKept, Seen, Open
  <2>6. ASSUME stalls = 0, NEW q \in Procs PROVE Fits(q)'
    <3>1. CASE q = p
      BY <2>1, <2>2, <2>3, <2>6, <3>1, Fields DEF Calm, Moved, Idles, Advances, RowIs, RowKept, Owner, Fits, Settled, Firm, Apart, Renewing
    <3>2. CASE q # p
      BY <2>1, <2>2, <2>3, <2>6, <3>2, Fields, Claimed DEF Calm, Moved, Idles, Advances, RowIs, RowKept, Owner, Fits, Settled, Firm, Apart, Renewing
    <3> QED
      BY <3>1, <3>2
  <2>7. ASSUME stalls = 0 PROVE Apart'
    BY <2>1, <2>2, <2>3, <2>7, Fields DEF Calm, Moved, Idles, Advances, RowIs, RowKept, Owner, Fits, Settled, Firm, Apart, Renewing
  <2> QED
    BY <2>3, <2>4, <2>5, <2>6, <2>7 DEF Kept, Owner, Calm
<1>26. ASSUME NEW p \in Procs, Plan(p) PROVE Kept
  <2>1. job[p].pc = "plan"
    BY <1>26, PlanEffect
  <2>2. /\ RowIs(row.st, row.gid, Free)
        /\ Idles(p) \/ Moved(p, "click", "begin", NoCharge, NoCharge)
    BY <1>26, PlanEffect
  <2>3. Calm
    BY <1>26 DEF Plan, OnlyJob, OnlyRow, Calm, Quiet, TypeOK, Only
  <2>4. Quiet'
    BY <2>1, <2>2, <2>3 DEF Calm, Moved, Idles, Advances, RowIs, RowKept, Quiet, Emitting, Repricing, Open
  <2>5. Seen'
    BY <2>1, <2>2, <2>3 DEF Calm, Moved, Idles, Advances, RowIs, RowKept, Seen, Open
  <2>6. ASSUME stalls = 0, NEW q \in Procs PROVE Fits(q)'
    <3>1. CASE q = p
      BY <2>1, <2>2, <2>3, <2>6, <3>1, Fields DEF Calm, Moved, Idles, Advances, RowIs, RowKept, Owner, Fits, Settled, Firm, Apart, Renewing
    <3>2. CASE q # p
      BY <2>1, <2>2, <2>3, <2>6, <3>2, Fields, Claimed DEF Calm, Moved, Idles, Advances, RowIs, RowKept, Owner, Fits, Settled, Firm, Apart, Renewing
    <3> QED
      BY <3>1, <3>2
  <2>7. ASSUME stalls = 0 PROVE Apart'
    BY <2>1, <2>2, <2>3, <2>7, Fields DEF Calm, Moved, Idles, Advances, RowIs, RowKept, Owner, Fits, Settled, Firm, Apart, Renewing
  <2> QED
    BY <2>3, <2>4, <2>5, <2>6, <2>7 DEF Kept, Owner, Calm
<1>27. ASSUME NEW p \in Procs, Start(p) PROVE Kept
  <2>1. Calm
    BY <1>27 DEF Start, OnlyJob, OnlyRow, Calm, Quiet, TypeOK, Only, Gesture, Exempt, Retain, StartPass
  <2> QED
    BY <1>27, <2>1, StartEffect, PlainMove DEF Idles, Advances, Unburdened, Repricing, Seen, Quiet
<1>28. ASSUME NEW p \in Procs, Crash(p) PROVE Kept
  <2>2. /\ Idles(p)
        /\ \/ row.claim = p /\ RowIs(row.st, row.gid, Dead)
           \/ row.claim # p /\ RowKept
    BY <1>28, CrashEffect
  <2>3. Calm
    BY <1>28 DEF Crash, OnlyJob, OnlyRow, Calm, Quiet, TypeOK, Only
  <2>4. Quiet'
    BY <2>2, <2>3 DEF Calm, Moved, Idles, Advances, RowIs, RowKept, Quiet, Emitting, Repricing, Open
  <2>5. Seen'
    BY <2>2, <2>3 DEF Calm, Moved, Idles, Advances, RowIs, RowKept, Seen, Open
  <2>6. ASSUME stalls = 0, NEW q \in Procs PROVE Fits(q)'
    <3>1. CASE q = p
      BY <2>2, <2>3, <2>6, <3>1, Fields DEF Calm, Moved, Idles, Advances, RowIs, RowKept, Owner, Fits, Settled, Firm, Apart, Renewing
    <3>2. CASE q # p
      <4>1. job'[q] = job[q] /\ row'.gid = row.gid
        BY <2>2, <3>2 DEF Moved, Idles, Advances, RowIs, RowKept
      <4>2. job[q].pc \in Firm \cup {"reread", "wipe"} => row'.claim = row.claim \/ Settled
        BY <2>2, <2>6, <3>2, Claimed DEF RowIs, RowKept, Settled
      <4>3. job[q].pc \in Firm => row'.claim = row.claim
        BY <2>2, <2>6, <3>2, Claimed DEF RowIs, RowKept
      <4> QED
        BY <2>3, <2>6, <4>1, <4>2, <4>3, OthersFit
    <3> QED
      BY <3>1, <3>2
  <2>7. ASSUME stalls = 0 PROVE Apart'
    BY <2>2, <2>3, <2>7, Fields DEF Calm, Moved, Idles, Advances, RowIs, RowKept, Owner, Fits, Settled, Firm, Apart, Renewing
  <2> QED
    BY <2>3, <2>4, <2>5, <2>6, <2>7 DEF Kept, Owner, Calm
<1>29. ASSUME NEW p \in Procs,
             \/ Reopen(p) \/ Stop(p) \/ Drop(p) \/ Pull(p) \/ PullClose(p) \/ Close(p)
             \/ SetHold(p) \/ Remark(p) \/ SettleAtGateway(p) \/ SettleRecord(p)
             \/ SettleClose(p) \/ Release(p)
      PROVE Kept
  <2>1. job[p].pc \in {"reopen", "stop", "drop", "pull", "pulled", "close", "sethold", "remark",
                       "cash", "record", "settled", "release"}
    BY <1>29 DEF Reopen, Stop, Drop, Pull, PullClose, Close, SetHold, Remark, SettleAtGateway,
         SettleRecord, SettleClose, Release, At
  <2> QED
    BY <2>1 DEF Quiet, Emitting, Repricing
<1>30. ASSUME NEW g \in Charges, Pay(g) \/ WebhookRecord(g) \/ DropNote(g) PROVE Kept
  <2>1. UNCHANGED <<row, job>> /\ Calm
    BY <1>30 DEF Pay, WebhookRecord, DropNote, Calm, TypeInv, TypeOK, Quiet
  <2>2. ASSUME stalls = 0, NEW q \in Procs PROVE Fits(q)'
    BY <2>1, <2>2, OthersFit DEF Owner
  <2>3. ASSUME stalls = 0 PROVE Apart'
    BY <2>1, <2>3 DEF Owner, Apart
  <2>4. Quiet' /\ Seen'
    BY <2>1 DEF Quiet, Seen, Calm
  <2> QED
    BY <2>1, <2>2, <2>3, <2>4 DEF Kept, Owner, Calm
<1>31. ASSUME NEW g \in Charges, WebhookSettle(g) PROVE Kept
  <2>1. \/ RowKept
        \/ row.gid \in Charges /\ RowIs("paid", row.gid, row.claim)
    BY <1>31, Rows DEF WebhookSettle
  <2>2. UNCHANGED job /\ Calm
    BY <1>31 DEF WebhookSettle, Calm, TypeInv, TypeOK, Quiet
  <2>3. ASSUME stalls = 0, NEW q \in Procs PROVE Fits(q)'
    BY <2>1, <2>2, <2>3, OthersFit DEF Owner, RowKept, RowIs
  <2>4. ASSUME stalls = 0 PROVE Apart'
    BY <2>2, <2>4 DEF Owner, Apart
  <2>5. Quiet' /\ Seen'
    BY <2>1, <2>2 DEF Quiet, Seen, Calm, RowKept, RowIs
  <2> QED
    BY <2>2, <2>3, <2>4, <2>5 DEF Kept, Owner, Calm
<1>32. ASSUME NEW g \in Charges, NEW to \in {"overdue", "canceled"},
             LifecycleRead(g, to) \/ LifecycleWrite(g, to)
      PROVE Kept
  BY <1>32 DEF LifecycleRead, LifecycleWrite, Only, Quiet
<1>33. ASSUME Expire PROVE Kept
  <2>1. row.claim = Dead /\ RowIs(row.st, row.gid, Free) /\ UNCHANGED job /\ Calm
    BY <1>33, Rows DEF Expire, OnlyRow, Calm, TypeInv, TypeOK, Quiet
  <2>2. ASSUME stalls = 0, NEW q \in Procs PROVE Fits(q)'
    BY <2>1, <2>2, Claimed, OthersFit DEF RowIs
  <2>3. ASSUME stalls = 0 PROVE Apart'
    BY <2>1, <2>3 DEF Owner, Apart
  <2>4. Quiet' /\ Seen'
    BY <2>1 DEF Quiet, Seen, Calm, RowIs
  <2> QED
    BY <2>1, <2>2, <2>3, <2>4 DEF Kept, Owner, Calm
<1>34. ASSUME Stall PROVE Kept
  <2>1. RowIs(row.st, row.gid, Free) /\ UNCHANGED <<job, sub, notes>>
    BY <1>34, Rows DEF Stall
  <2>2. stalls' # 0
    BY <1>34 DEF Stall, TypeOK, ConstantsAssumption
  <2>3. Quiet' /\ Seen'
    BY <2>1 DEF Quiet, Seen, RowIs
  <2> QED
    BY <2>2, <2>3 DEF Kept
<1>35. ASSUME UNCHANGED vars PROVE Kept
  BY <1>35 DEF vars, Kept, Quiet, Seen, Owner, Apart, Fits, Settled
<1> QED
  BY <1>1, <1>2, <1>3, <1>4, <1>5, <1>6, <1>7, <1>8, <1>9, <1>10, <1>11, <1>12, <1>13,
     <1>14, <1>15, <1>16, <1>17, <1>18, <1>19, <1>20, <1>21, <1>22, <1>23, <1>24,
     <1>25, <1>26, <1>27, <1>28, <1>29, <1>30, <1>31, <1>32, <1>33, <1>34, <1>35 DEF
     Next, World, Step

\* The claim says who works on the row, with clicks and reprices: ExclusionInv holds of
\* every number of processes and charges, every answer of the gateway, stall and crash.
THEOREM ExclusionAlways ==
  ASSUME Gestures \subseteq {"click", "reprice"}
  PROVE Spec => []ExclusionInv
<1>1. Init => ExclusionInv
  <2> SUFFICES ASSUME Init PROVE ExclusionInv
    OBVIOUS
  <2>1. TypeInv
    BY TypeInit, ConstantsAssumption
  <2>2. \A p \in Procs : job[p].op = "none" /\ job[p].pc = "idle"
    BY DEF Init, IdleJob
  <2>3. Quiet /\ Seen
    BY <2>2 DEF Init, Quiet, Seen, Emitting, Repricing
  <2>4. Owner
    BY <2>2 DEF Owner, Apart, Fits, Firm, Renewing
  <2> QED
    BY <2>1, <2>3, <2>4 DEF ExclusionInv, TypeInv
<1>2. ExclusionInv /\ [Next]_vars => ExclusionInv'
  <2> SUFFICES ASSUME ExclusionInv, [Next]_vars PROVE ExclusionInv'
    OBVIOUS
  <2>1. TypeInv /\ TypeInv'
    BY TypeStep, ConstantsAssumption DEF ExclusionInv, TypeInv
  <2>2. Kept
    BY <2>1, ExclusionStep, ConstantsAssumption DEF ExclusionInv, Only
  <2> QED
    BY <2>1, <2>2 DEF ExclusionInv, TypeInv, Kept
<1> QED
  BY <1>1, <1>2, PTL DEF Spec

\* While no claim expires under a living process, no two processes emit, or withdraw
\* and reissue, the row at once: for every number of processes and charges, every
\* answer of the gateway and every crash, when there are only passes of the
\* scheduler, clicks and reprices.
THEOREM ClaimExcludes ==
  ASSUME Gestures \subseteq {"click", "reprice"}
  PROVE Spec => []ClaimExclusive
<1>1. ExclusionInv => ClaimExclusive
  <2> SUFFICES ASSUME ExclusionInv, stalls = 0, NEW p \in Procs, NEW q \in Procs,
                      Holding(p), Holding(q)
               PROVE p = q
    BY DEF ClaimExclusive
  <2>1. job[p].pc \in Firm /\ job[q].pc \in Firm
    BY DEF ExclusionInv, Holding, Firm, Quiet, Emitting, Repricing
  <2> QED
    BY <2>1 DEF ExclusionInv, Owner, Fits
<1> QED
  BY <1>1, ExclusionAlways, PTL
=============================================================================
