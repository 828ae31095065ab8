--------------------- MODULE ChargeIssuing_gateway_proofs --------------------
(***************************************************************************)
(* What the gateway has, against what the panel knows, for every number of *)
(* processes and charges. NeverForgets: a charge that can still be paid is *)
(* never forgotten, with clicks and reprices; where there are reprices, no *)
(* claim may run out under a living process, for then a reprice may        *)
(* rewrite a row that was issued meanwhile. OneCardCharge: the saved card  *)
(* is charged once, with clicks only and answers that do not change the    *)
(* row's means of payment.                                                 *)
(***************************************************************************)
EXTENDS ChargeIssuing_proofs, FiniteSetTheorems

\* What NeverForgets is proved for.
Sure == "reprice" \in Gestures => MaxStalls = 0

\* The steps that come before the row gets a charge, and before it loses one.
Placing == {"adoptlive", "adoptpaid", "mark"}
Rewriting == {"reset", "resetw"}

\* A charge that is placed exists; a row that is rewritten has none that can be paid.
ForgetInv ==
  /\ row.gid # NoCharge => gw[row.gid] # "unused"
  /\ \A p \in Procs : job[p].pc \in Placing => gw[job[p].made] # "unused"
  /\ \A p \in Procs : job[p].pc \in Rewriting =>
                       row.gid = NoCharge \/ gw[row.gid] \in {"gone", "paid"}
  /\ "reprice" \notin Gestures => \A p \in Procs : job[p].op # "reprice"

\* What a step of p may do to the row's charge and to the one in its hands.
ForgetMay(p) ==
  /\ \A q \in Procs \ {p} : job'[q] = job[q]
  /\ \/ row'.gid = row.gid
     \/ row.gid = NoCharge /\ job[p].pc \in Placing /\ row'.gid = job[p].made
     \/ job[p].pc = "resetw" /\ row'.gid = NoCharge
  /\ job'[p].pc \in Placing => gw'[job'[p].made] # "unused"
  /\ job'[p].pc \in Rewriting =>
       /\ row'.gid = row.gid
       /\ \/ job[p].pc = "reset"
          \/ job[p].pc = "wipe" /\ (job[p].gid = NoCharge \/ gw'[job[p].gid] = "gone")
  /\ job'[p].op = "reprice" => job[p].op = "reprice" \/ "reprice" \in Gestures
  /\ job[p].pc = "mark" => \/ row'.gid = job[p].made
                           \/ job'[p].pc = "undo" /\ job'[p].made = job[p].made
                           \/ crashes' # crashes

\* At the gateway no charge is uncreated, and none that is gone or paid comes back.
GatewayMay ==
  \A g \in Charges : /\ gw[g] # "unused" => gw'[g] # "unused"
                     /\ gw[g] \in {"gone", "paid"} => gw'[g] \in {"gone", "paid"}

-----------------------------------------------------------------------------
\* Every step at the gateway goes that way.
LEMMA GatewayGoesOn ==
  ASSUME TypeInv, [Next]_vars
  PROVE  GatewayMay
<1> gw \in [Charges -> {"unused", "live", "paid", "gone"}]
  BY DEF TypeInv, TypeOK
<1>1. ASSUME gw' = gw PROVE GatewayMay
  BY <1>1 DEF GatewayMay
<1>2. ASSUME NEW g \in Charges, NEW s \in {"gone", "paid"}, gw[g] \in {"live", "gone"} \/ s = "paid",
             gw' = [gw EXCEPT ![g] = s]
      PROVE  GatewayMay
  BY <1>2 DEF GatewayMay
<1>3. ASSUME NEW p \in Procs, NEW g \in Charges, Created(p, g) PROVE GatewayMay
  BY <1>3 DEF GatewayMay, Created
<1>4. ASSUME NEW g \in Charges, NEW ok \in BOOLEAN, GatewayCancel(g, ok) PROVE GatewayMay
  BY <1>1, <1>2, <1>4 DEF GatewayCancel
<1>5. CASE \E p \in Procs : Start(p) \/ Crash(p)
  BY <1>1, <1>5 DEF Start, StartPass, Gesture, Exempt, Retain, OnlyJob, OnlyRow, Crash
<1>6. CASE World
  BY <1>1, <1>2, <1>6 DEF World, Pay, WebhookRecord, WebhookSettle, DropNote, LifecycleRead,
     LifecycleWrite, Expire, Stall, OnlyRow
<1>7. ASSUME NEW p \in Procs, CreateOk(p) \/ CreateLost(p) PROVE GatewayMay
  BY <1>3, <1>7 DEF CreateOk, CreateLost
<1>8. ASSUME NEW p \in Procs, UndoDuplicate(p) \/ Pull(p) PROVE GatewayMay
  <2>1. job[p].made \in Charges
    BY <1>8 DEF UndoDuplicate, Pull, At, TypeInv, HandsFull, Carrying
  <2> QED BY <1>4, <1>8, <2>1 DEF UndoDuplicate, Pull
<1>9. ASSUME NEW p \in Procs, Wipe(p) \/ SettleAtGateway(p) PROVE GatewayMay
  <2>1. job[p].gid \in Charges \cup {NoCharge}
    BY Fields DEF TypeInv
  <2>2. CASE Wipe(p)
    BY <1>1, <1>4, <2>1, <2>2 DEF Wipe
  <2>3. CASE SettleAtGateway(p)
    BY <1>1, <1>2, <2>1, <2>3 DEF SettleAtGateway
  <2> QED BY <1>9, <2>2, <2>3
<1>10. ASSUME NEW p \in Procs, Step(p) PROVE GatewayMay
  BY <1>1, <1>7, <1>8, <1>9, <1>10 DEF Step, Begin, ReadRow, Defer, Reopen, ResetRead, ResetWrite,
     Claim, Lookup, Adopt, AdoptSettle, AdoptClose, OpenRow, Prepare, Recheck, Stop, Drop,
     CreateRefused, CreateFailed, MarkFailed, MarkIssued, AfterIssue, PullClose, List, Take,
     Reread, Close, SetHold, Remark, Plan, SettleRecord, SettleClose, Release, OnlyJob, OnlyRow
<1>11. CASE UNCHANGED vars
  BY <1>1, <1>11 DEF vars
<1> QED BY <1>5, <1>6, <1>10, <1>11 DEF Next

-----------------------------------------------------------------------------
\* One case per action: each does only what ForgetMay allows.
LEMMA StepForgets ==
  ASSUME TypeOK, Quiet, Only, NEW p \in Procs, Step(p)
  PROVE  ForgetMay(p)
<1> USE DEF ForgetMay, Moved, Idles, Advances, RowIs, RowKept, Placing, Rewriting
<1>1. CASE Begin(p)
  BY <1>1, BeginEffect
<1>2. CASE ReadRow(p)
  BY <1>2, ReadRowEffect
<1>3. CASE Defer(p)
  BY <1>3, DeferEffect
<1>4. CASE ResetRead(p)
  BY <1>4, ResetReadEffect
<1>5. CASE ResetWrite(p)
  BY <1>5, ResetWriteEffect
<1>6. CASE Claim(p)
  BY <1>6, ClaimEffect
<1>7. CASE Adopt(p)
  BY <1>7, AdoptEffect
<1>8. CASE AdoptSettle(p)
  BY <1>8, AdoptSettleEffect
<1>9. CASE AdoptClose(p)
  BY <1>9, AdoptCloseEffect
<1>10. CASE OpenRow(p)
  BY <1>10, OpenRowEffect
<1>11. CASE Prepare(p)
  BY <1>11, PrepareEffect
<1>12. CASE Recheck(p)
  BY <1>12, RecheckEffect
<1>13. CASE CreateLost(p)
  BY <1>13, CreateLostEffect
<1>14. CASE CreateRefused(p)
  BY <1>14, CreateRefusedEffect
<1>15. CASE CreateFailed(p)
  BY <1>15, CreateFailedEffect
<1>16. CASE MarkFailed(p)
  BY <1>16, MarkFailedEffect
<1>17. CASE MarkIssued(p)
  BY <1>17, MarkIssuedEffect
<1>18. CASE UndoDuplicate(p)
  BY <1>18, UndoDuplicateEffect
<1>19. CASE AfterIssue(p)
  BY <1>19, AfterIssueEffect
<1>20. CASE List(p)
  BY <1>20, ListEffect
<1>21. CASE Take(p)
  BY <1>21, TakeEffect
<1>22. CASE Reread(p)
  BY <1>22, RereadEffect
<1>23. CASE Plan(p)
  BY <1>23, PlanEffect
<1>24. CASE Lookup(p)
  <2>1. job[p].pc = "lookup" /\ RowKept
    BY <1>24, LookupEffect
  <2>2. \/ \E s \in {"prepare", "fail"} : Goto(p, s)
        \/ \E g \in Charges, s \in {"adoptpaid", "adoptlive"} :
             gw[g] # "unused" /\ Now(p, [job[p] EXCEPT !.made = g, !.pc = s])
    BY <1>24 DEF Lookup, Found, Preferred
  <2>3. gw' = gw
    BY <1>24 DEF Lookup, OnlyJob, OnlyRow
  <2>4. CASE \E s \in {"prepare", "fail"} : Goto(p, s)
    <3>1. \E s \in {"prepare", "fail"} : Advances(p, s)
      BY <2>4, Moves
    <3> QED BY <2>1, <3>1
  <2>5. CASE \E g \in Charges, s \in {"adoptpaid", "adoptlive"} :
               gw[g] # "unused" /\ Now(p, [job[p] EXCEPT !.made = g, !.pc = s])
    <3>1. PICK g \in Charges, s \in {"adoptpaid", "adoptlive"} :
            gw[g] # "unused" /\ Now(p, [job[p] EXCEPT !.made = g, !.pc = s])
      BY <2>5
    <3>2. Moved(p, job[p].op, s, job[p].gid, g)
      BY <3>1, Moves
    <3> QED BY <2>1, <2>3, <3>1, <3>2
  <2> QED BY <2>2, <2>4, <2>5
<1>25. CASE CreateOk(p)
  <2>1. job[p].pc = "call" /\ RowKept
    BY <1>25, CreateOkEffect
  <2>2. PICK g \in Charges : Created(p, g) /\ Now(p, [job[p] EXCEPT !.made = g, !.pc = "mark"])
    BY <1>25 DEF CreateOk
  <2>3. gw'[g] = "live"
    BY <2>2 DEF Created, TypeOK
  <2>4. Moved(p, job[p].op, "mark", job[p].gid, g)
    BY <2>2, Moves
  <2> QED BY <2>1, <2>3, <2>4
<1>26. CASE Wipe(p)
  <2>1. job[p].pc = "wipe" /\ job[p].op = "reprice" /\ job[p].gid \in Charges \cup {NoCharge}
    BY <1>26, Fields DEF Wipe, At, Quiet, Repricing
  <2>2. \/ RowIs(row.st, row.gid, Free) /\ Idles(p)
        \/ RowKept /\ Advances(p, "reset") /\ (job[p].gid = NoCharge \/ gw'[job[p].gid] = "gone")
    <3>1. CASE job[p].gid = NoCharge
      <4>1. Goto(p, "reset") /\ UNCHANGED row
        BY <1>26, <2>1, <3>1 DEF Wipe
      <4>2. Advances(p, "reset")
        BY <4>1, Moves
      <4>3. RowKept
        BY <4>1, Rows
      <4> QED BY <3>1, <4>2, <4>3
    <3>2. CASE job[p].gid # NoCharge
      <4>1. PICK ok \in BOOLEAN :
              /\ GatewayCancel(job[p].gid, ok)
              /\ IF ok THEN Goto(p, "reset") /\ UNCHANGED row
                       ELSE Finish(p) /\ row' = LeftOpen(job[p].op)
        BY <1>26, <2>1, <3>2 DEF Wipe
      <4>2. CASE ok
        <5>1. gw'[job[p].gid] = "gone"
          BY <2>1, <3>2, <4>1, <4>2 DEF GatewayCancel, TypeOK
        <5>2. Goto(p, "reset") /\ UNCHANGED row
          BY <4>1, <4>2
        <5>3. Advances(p, "reset")
          BY <5>2, Moves
        <5>4. RowKept
          BY <5>2, Rows
        <5> QED BY <5>1, <5>3, <5>4
      <4>3. CASE ~ok
        <5>1. Finish(p) /\ row' = LeftOpen(job[p].op)
          BY <4>1, <4>3
        <5>2. Idles(p)
          BY <5>1, Moves
        <5>3. RowIs(row.st, row.gid, Free)
          BY <5>1, Rows
        <5> QED BY <5>2, <5>3
      <4> QED BY <4>2, <4>3
    <3> QED BY <3>1, <3>2
  <2> QED BY <2>1, <2>2
<1>27. CASE \/ Reopen(p) \/ Stop(p) \/ Drop(p) \/ Pull(p) \/ PullClose(p) \/ Close(p)
           \/ SetHold(p) \/ Remark(p) \/ SettleAtGateway(p) \/ SettleRecord(p)
           \/ SettleClose(p) \/ Release(p)
  <2>1. job[p].pc \in {"reopen", "stop", "drop", "pull", "pulled", "close", "sethold", "remark",
                       "cash", "record", "settled", "release"}
    BY <1>27 DEF Reopen, Stop, Drop, Pull, PullClose, Close, SetHold, Remark, SettleAtGateway,
         SettleRecord, SettleClose, Release, At
  <2> QED BY <2>1 DEF Quiet, Emitting, Repricing
<1> QED
  BY <1>1, <1>2, <1>3, <1>4, <1>5, <1>6, <1>7, <1>8, <1>9, <1>10, <1>11, <1>12,
     <1>13, <1>14, <1>15, <1>16, <1>17, <1>18, <1>19, <1>20, <1>21, <1>22, <1>23, <1>24, <1>25, <1>26, <1>27 DEF Step

LEMMA StartForgets ==
  ASSUME TypeOK, Quiet, Only, NEW p \in Procs, Start(p)
  PROVE  ForgetMay(p)
<1>1. job[p].pc = "idle" /\ RowKept
  BY StartEffect
<1>2. \/ \E op \in {"auto", "click"} : Moved(p, op, "begin", NoCharge, NoCharge)
      \/ Moved(p, "reprice", "list", NoCharge, NoCharge) /\ "reprice" \in Gestures
  <2>1. CASE Gesture(p, "reprice")
    BY <2>1, Moves DEF Gesture, StartJob
  <2>2. CASE StartPass(p, "auto") \/ StartPass(p, "click")
    BY <2>2, Moves DEF StartPass
  <2> QED BY <2>1, <2>2 DEF Start, Gesture, Exempt, Retain, Only
<1> QED BY <1>1, <1>2 DEF ForgetMay, Moved, RowIs, RowKept, Placing, Rewriting

LEMMA CrashForgets ==
  ASSUME TypeOK, Quiet, Only, ConstantsAssumption, NEW p \in Procs, Crash(p)
  PROVE  ForgetMay(p)
<1>1. Idles(p) /\ row'.gid = row.gid
  BY CrashEffect DEF RowIs, RowKept
<1>2. crashes' # crashes
  BY DEF Crash, TypeOK, ConstantsAssumption
<1> QED BY <1>1, <1>2 DEF ForgetMay, Idles, Moved, Placing, Rewriting

LEMMA WorldForgets ==
  ASSUME TypeOK, World
  PROVE  row'.gid = row.gid /\ job' = job
<1>1. job' = job
  BY DEF World, Pay, WebhookRecord, WebhookSettle, DropNote, LifecycleRead, LifecycleWrite,
         Expire, Stall
<1>2. CASE \E g \in Charges : Pay(g) \/ WebhookRecord(g) \/ DropNote(g)
  BY <1>1, <1>2 DEF Pay, WebhookRecord, DropNote
<1>3. CASE \E g \in Charges : WebhookSettle(g)
  BY <1>1, <1>3, Rows DEF WebhookSettle, RowIs
<1>4. CASE \E g \in Charges, to \in {"overdue", "canceled"} : LifecycleRead(g, to) \/ LifecycleWrite(g, to)
  BY <1>1, <1>4, Rows DEF LifecycleRead, LifecycleWrite, RowIs
<1>5. CASE Expire \/ Stall
  BY <1>1, <1>5, Rows DEF Expire, Stall, RowIs
<1> QED BY <1>2, <1>3, <1>4, <1>5 DEF World

-----------------------------------------------------------------------------
\* At a rewriting step the claim is the process's own, and nobody else places a charge.
LEMMA RewritesAlone ==
  ASSUME ExclusionInv, ForgetInv, Sure, NEW p \in Procs, NEW q \in Procs,
         job[p].pc \in Rewriting, job[q].pc \in Placing
  PROVE  FALSE
<1>1. job[p].op = "reprice"
  BY DEF ExclusionInv, Quiet, Rewriting, Repricing
<1>2. stalls = 0
  BY <1>1 DEF ForgetInv, Sure, ExclusionInv, TypeOK
<1> QED BY <1>2, ConstantsAssumption DEF ExclusionInv, Owner, Fits, Firm, Rewriting, Placing

\* ForgetMay keeps the invariant, part by part.
LEMMA ForgetActs ==
  ASSUME ExclusionInv, ForgetInv, Sure, GatewayMay, NEW p \in Procs, ForgetMay(p)
  PROVE  ForgetInv'
<1> TypeOK /\ HandsFull
  BY DEF ExclusionInv
<1> row.gid \in Charges \cup {NoCharge}
  BY DEF TypeOK, Row
<1>1. \A q \in Procs : job[q].pc \in Placing => job[q].made \in Charges
  BY DEF HandsFull, Carrying, Placing
<1>2. (row.gid # NoCharge => gw[row.gid] # "unused")'
  BY <1>1 DEF ForgetMay, ForgetInv, GatewayMay
<1>3. ASSUME NEW q \in Procs, job'[q].pc \in Placing PROVE gw'[job'[q].made] # "unused"
  <2>1. CASE q = p
    BY <1>3, <2>1 DEF ForgetMay
  <2>2. CASE q # p
    BY <1>1, <1>3, <2>2 DEF ForgetMay, ForgetInv, GatewayMay
  <2> QED BY <2>1, <2>2
<1>4. ASSUME NEW q \in Procs, job'[q].pc \in Rewriting
      PROVE  row'.gid = NoCharge \/ gw'[row'.gid] \in {"gone", "paid"}
  <2>1. CASE job[q].pc \in Rewriting
    BY <2>1, <1>1, RewritesAlone DEF ForgetMay, ForgetInv, GatewayMay
  <2>2. CASE job[q].pc \notin Rewriting
    <3>1. q = p
      BY <1>4, <2>2 DEF ForgetMay
    <3>2. row'.gid = row.gid /\ job[p].pc = "wipe"
          /\ (job[p].gid = NoCharge \/ gw'[job[p].gid] = "gone")
      BY <1>4, <2>2, <3>1 DEF ForgetMay, Rewriting
    <3>3. stalls = 0
      BY <3>2 DEF ForgetInv, Sure, ExclusionInv, Quiet, Repricing, TypeOK
    <3>4. job[p].gid = row.gid
      BY <3>2, <3>3 DEF ExclusionInv, Owner, Fits
    <3> QED BY <3>2, <3>4
  <2> QED BY <2>1, <2>2
<1>5. "reprice" \notin Gestures => \A q \in Procs : job'[q].op # "reprice"
  BY DEF ForgetMay, ForgetInv
<1> QED BY <1>2, <1>3, <1>4, <1>5 DEF ForgetInv

LEMMA ForgetStep ==
  ASSUME ExclusionInv, ForgetInv, Sure, Only, [Next]_vars
  PROVE  ForgetInv'
<1>1. GatewayMay
  BY GatewayGoesOn DEF ExclusionInv, TypeInv
<1>2. CASE \E p \in Procs : Start(p) \/ Step(p) \/ Crash(p)
  BY <1>1, <1>2, StartForgets, StepForgets, CrashForgets, ForgetActs, ConstantsAssumption
     DEF ExclusionInv
<1>3. CASE World \/ UNCHANGED vars
  <2>1. row'.gid = row.gid /\ job' = job
    BY <1>3, WorldForgets DEF ExclusionInv, vars
  <2>2. row.gid \in Charges \cup {NoCharge}
    BY DEF ExclusionInv, TypeOK, Row
  <2>3. \A q \in Procs : job[q].pc \in Placing => job[q].made \in Charges
    BY DEF ExclusionInv, HandsFull, Carrying, Placing
  <2> QED BY <1>1, <2>1, <2>2, <2>3 DEF ForgetInv, GatewayMay
<1> QED BY <1>2, <1>3 DEF Next

\* Of a step: what was known and can still be paid is known, but for the two exceptions.
Remembers ==
  \A g \in Charges :
    Known(g) /\ gw[g] = "live" /\ gw'[g] = "live" =>
      \/ Known(g)'
      \/ crashes' # crashes
      \/ \E p \in Procs : At(p, "undo") /\ job[p].made = g

\* Only a rewriting drops the row's charge, and there it cannot be paid any more.
LEMMA StepRemembers ==
  ASSUME ExclusionInv, ForgetInv, Only, [Next]_vars
  PROVE  Remembers
<1> SUFFICES ASSUME NEW g \in Charges, Known(g), gw[g] = "live",
                    ~\E p \in Procs : At(p, "undo") /\ job[p].made = g,
                    crashes' = crashes
             PROVE  Known(g)'
  BY DEF Remembers
<1> NoCharge # g
  BY ConstantsAssumption DEF ConstantsAssumption
<1>1. CASE \E p \in Procs : Start(p) \/ Step(p) \/ Crash(p)
  <2>1. PICK p \in Procs : ForgetMay(p)
    BY <1>1, StartForgets, StepForgets, CrashForgets, ConstantsAssumption DEF ExclusionInv
  <2>2. CASE row.gid = g
    <3>1. row'.gid = g
      BY <2>1, <2>2 DEF ForgetMay, ForgetInv, Rewriting
    <3> QED BY <3>1 DEF Known
  <2>3. CASE row.gid # g
    <3>1. PICK q \in Procs : job[q].made = g /\ job[q].pc = "mark"
      BY <2>3 DEF Known, At
    <3>2. CASE q = p
      BY <2>1, <3>1, <3>2 DEF ForgetMay, Known
    <3>3. CASE q # p
      BY <2>1, <3>1, <3>3 DEF ForgetMay, Known
    <3> QED BY <3>2, <3>3
  <2> QED BY <2>2, <2>3
<1>2. CASE World \/ UNCHANGED vars
  <2>1. row'.gid = row.gid /\ job' = job
    BY <1>2, WorldForgets DEF ExclusionInv, vars
  <2> QED BY <2>1 DEF Known
<1> QED BY <1>1, <1>2 DEF Next

LEMMA ForgetAlways ==
  ASSUME Gestures \subseteq {"click", "reprice"}, Sure
  PROVE  Spec => [](ExclusionInv /\ ForgetInv)
<1>1. Init => ForgetInv
  <2> SUFFICES ASSUME Init PROVE ForgetInv
    OBVIOUS
  <2>1. row.gid = NoCharge /\ \A p \in Procs : job[p].pc = "idle" /\ job[p].op = "none"
    BY DEF Init, IdleJob
  <2> QED BY <2>1 DEF ForgetInv, Placing, Rewriting
<1>2. ExclusionInv /\ ForgetInv /\ [Next]_vars => ForgetInv'
  BY ForgetStep DEF Only
<1>3. Spec => []ExclusionInv
  BY ExclusionAlways
<1> QED BY <1>1, <1>2, <1>3, PTL DEF Spec

\* A charge the provider can still pay stays known, with passes, clicks and reprices, whatever
\* answers are lost: only a crash or a duplicate that is being undone leaves one behind.
THEOREM NeverForgetsAlways ==
  ASSUME Gestures \subseteq {"click", "reprice"}, Sure
  PROVE  Spec => NeverForgets
<1>1. ExclusionInv /\ ForgetInv /\ [Next]_vars => Remembers
  BY StepRemembers DEF Only
<1>2. Remembers => [Remembers]_vars
  OBVIOUS
<1>3. NeverForgets <=> [][Remembers]_vars
  BY DEF NeverForgets, Remembers
<1> QED BY <1>1, <1>3, ForgetAlways, PTL DEF Spec
-----------------------------------------------------------------------------
\* The saved card. With passes and clicks only, and answers that leave the
\* means of payment of the row alone, no reading of billing_type is ever stale.
Cautious == Gestures \subseteq {"click"} /\ Answers \subseteq {"ok", "lost", "refused", "error"}

\* The steps at which a pass has decided on the card, and those after the lookup.
Carded == {"read", "claim", "open", "lookup", "prepare", "recheck", "call"}
Creating == {"prepare", "recheck", "call"}

\* While the card is usable whatever was created is on it, the row says so and every pass uses
\* it; so who comes to create without having inserted the row has looked and found nothing.
CardInv ==
  /\ sub.card =>
       /\ row.st = "none" \/ row.card
       /\ \A g \in Charges : gw[g] # "unused" => g \in gcard
       /\ \A p \in Procs : /\ job[p].pc \in Carded => job[p].card
                           /\ job[p].pc = "claim" => job[p].asked
                           /\ job[p].pc \in Creating => Found = {}
  /\ \A p \in Procs : job[p].pc = "call" /\ job[p].card => sub.card
  /\ row.st = "none" => \A g \in Charges : gw[g] = "unused"
  /\ \A g \in gcard : gw[g] # "unused"
  /\ \A g, h \in gcard : gw[g] \in {"live", "paid"} /\ gw[h] \in {"live", "paid"} => g = h

\* What a step of p may do to the card in its hands, on the row and on the subscription.
JobCard(p) ==
  /\ job'[p].pc \in Carded => \/ ~sub'.card
                              \/ job[p].pc = "begin" /\ job'[p].card = sub.card
                              \/ job[p].pc \in Carded /\ job'[p].card = job[p].card
  /\ job'[p].pc = "call" /\ job'[p].card => sub'.card
  /\ job'[p].pc = "claim" => row.st # "none" /\ job'[p].asked = row.card
  /\ job'[p].pc \in Creating =>
       /\ gw' = gw
       /\ \/ job[p].pc = "open" /\ row.st = "none"
          \/ job[p].pc = "lookup" /\ Found = {}
          \/ job[p].pc = "claim" /\ ~job[p].asked
          \/ job[p].pc \in Creating
RowCard(p) ==
  /\ row'.st = "none" => row.st = "none"
  /\ row.st # "none" \/ row'.st = "none" \/ (job[p].pc = "open" /\ row'.card = job[p].card)
  /\ \/ row'.card = row.card \/ ~sub'.card
     \/ job[p].pc \in {"open", "prepare"} /\ row'.card = job[p].card
     \/ job[p].pc \in Placing /\ row'.card = (job[p].made \in gcard)
SubCard(p) == sub'.card = sub.card \/ (~sub'.card /\ job[p].pc = "call")
Gateway(p) ==
  \/ gw' = gw /\ gcard' = gcard
  \/ job[p].pc = "call" /\ job'[p].pc \in {"mark", "fail"} /\ \E g \in Charges : Created(p, g)
  \/ gcard' = gcard /\ \E g \in Charges : gw[g] \in {"live", "gone"} /\ gw' = [gw EXCEPT ![g] = "gone"]

CardMay(p) ==
  /\ \A q \in Procs \ {p} : job'[q] = job[q]
  /\ stalls' = stalls
  /\ JobCard(p) /\ RowCard(p) /\ SubCard(p) /\ Gateway(p)

-----------------------------------------------------------------------------
\* What each form of a job's update does to the card and to what was read of the row's.
HandIs(p, card, asked) == job'[p].card = card /\ job'[p].asked = asked

LEMMA Hands ==
  ASSUME TypeOK, NEW p \in Procs
  PROVE /\ Finish(p) => HandIs(p, FALSE, FALSE)
        /\ \A s : s # "idle" /\ Goto(p, s) => HandIs(p, job[p].card, job[p].asked)
        /\ \A s, g : Now(p, [job[p] EXCEPT !.made = g, !.pc = s]) => HandIs(p, job[p].card, job[p].asked)
        /\ \A s, b : /\ Now(p, [job[p] EXCEPT !.asked = b, !.pc = s]) => HandIs(p, job[p].card, b)
                     /\ Now(p, [job[p] EXCEPT !.pc = s, !.asked = b]) => HandIs(p, job[p].card, b)
                     /\ Now(p, [job[p] EXCEPT !.pc = s, !.card = b]) => HandIs(p, b, job[p].asked)
        /\ \A b : Now(p, [job[p] EXCEPT !.card = b]) => HandIs(p, b, job[p].asked)
<1> job[p] \in Job
  BY DEF TypeOK
<1>1. ASSUME NEW j, Now(p, j) PROVE HandIs(p, j.card, j.asked)
  BY <1>1 DEF Now, HandIs, TypeOK
<1>2. Finish(p) => HandIs(p, FALSE, FALSE)
  <2>1. IdleJob.card = FALSE /\ IdleJob.asked = FALSE
    BY DEF IdleJob
  <2> QED BY <2>1, <1>1 DEF Finish
<1>3. ASSUME NEW s, s # "idle", Goto(p, s) PROVE HandIs(p, job[p].card, job[p].asked)
  <2> DEFINE j == [job[p] EXCEPT !.pc = s]
  <2>1. j.card = job[p].card /\ j.asked = job[p].asked
    BY DEF Job
  <2>2. HandIs(p, j.card, j.asked)
    BY <1>1, <1>3 DEF Goto
  <2> QED BY <2>1, <2>2
<1>4. ASSUME NEW s, NEW g, Now(p, [job[p] EXCEPT !.made = g, !.pc = s])
      PROVE  HandIs(p, job[p].card, job[p].asked)
  <2> DEFINE j == [job[p] EXCEPT !.made = g, !.pc = s]
  <2>1. j.card = job[p].card /\ j.asked = job[p].asked
    BY DEF Job
  <2>2. HandIs(p, j.card, j.asked)
    BY <1>1, <1>4
  <2> QED BY <2>1, <2>2
<1>5. ASSUME NEW s, NEW b, Now(p, [job[p] EXCEPT !.asked = b, !.pc = s])
      PROVE  HandIs(p, job[p].card, b)
  <2> DEFINE j == [job[p] EXCEPT !.asked = b, !.pc = s]
  <2>1. j.card = job[p].card /\ j.asked = b
    BY DEF Job
  <2>2. HandIs(p, j.card, j.asked)
    BY <1>1, <1>5
  <2> QED BY <2>1, <2>2
<1>6. ASSUME NEW s, NEW b, Now(p, [job[p] EXCEPT !.pc = s, !.asked = b])
      PROVE  HandIs(p, job[p].card, b)
  <2> DEFINE j == [job[p] EXCEPT !.pc = s, !.asked = b]
  <2>1. j.card = job[p].card /\ j.asked = b
    BY DEF Job
  <2>2. HandIs(p, j.card, j.asked)
    BY <1>1, <1>6
  <2> QED BY <2>1, <2>2
<1>7. ASSUME NEW s, NEW b, Now(p, [job[p] EXCEPT !.pc = s, !.card = b])
      PROVE  HandIs(p, b, job[p].asked)
  <2> DEFINE j == [job[p] EXCEPT !.pc = s, !.card = b]
  <2>1. j.card = b /\ j.asked = job[p].asked
    BY DEF Job
  <2>2. HandIs(p, j.card, j.asked)
    BY <1>1, <1>7
  <2> QED BY <2>1, <2>2
<1>8. ASSUME NEW b, Now(p, [job[p] EXCEPT !.card = b]) PROVE HandIs(p, b, job[p].asked)
  <2> DEFINE j == [job[p] EXCEPT !.card = b]
  <2>1. j.card = b /\ j.asked = job[p].asked
    BY DEF Job
  <2>2. HandIs(p, j.card, j.asked)
    BY <1>1, <1>8
  <2> QED BY <2>1, <2>2
<1> QED BY <1>2, <1>3, <1>4, <1>5, <1>6, <1>7, <1>8

\* What each row the statements write says of the means of payment.
LEMMA RowCards ==
  ASSUME TypeOK
  PROVE /\ \A c : row' = Held(c) => row'.card = row.card
        /\ \A b : row' = OnCard(b) => row'.card = b
        /\ \A p, b : row' = Opened(p, b) => row'.card = b
        /\ \A g : row' = Issued(g) => row'.card = row.card
        /\ \A g, b : row' = [Issued(g) EXCEPT !.card = b] => row'.card = b
        /\ \A b : row' = [row EXCEPT !.card = b] => row'.card = b
        /\ \A b, n : row' = [row EXCEPT !.card = b, !.tries = n] => row'.card = b
        /\ \A n : row' = [row EXCEPT !.tries = n] => row'.card = row.card
        /\ row' = PaidRow => row'.card = row.card
        /\ row' = Failed => row'.card = row.card
        /\ \A st : row' = [row EXCEPT !.st = st] => row'.card = row.card
<1> row \in Row
  BY DEF TypeOK
<1>1. /\ \A c : row' = Held(c) => row'.card = row.card
      /\ \A b : row' = OnCard(b) => row'.card = b
      /\ \A p, b : row' = Opened(p, b) => row'.card = b
      /\ \A g : row' = Issued(g) => row'.card = row.card
  BY DEF Row, Held, OnCard, Opened, Issued
<1>2. /\ \A g, b : row' = [Issued(g) EXCEPT !.card = b] => row'.card = b
      /\ row' = PaidRow => row'.card = row.card
      /\ row' = Failed => row'.card = row.card
  BY DEF Row, Issued, PaidRow, Failed
<1>3. /\ \A b : row' = [row EXCEPT !.card = b] => row'.card = b
      /\ \A b, n : row' = [row EXCEPT !.card = b, !.tries = n] => row'.card = b
      /\ \A n : row' = [row EXCEPT !.tries = n] => row'.card = row.card
      /\ \A st : row' = [row EXCEPT !.st = st] => row'.card = row.card
  BY DEF Row
<1> QED BY <1>1, <1>2, <1>3

-----------------------------------------------------------------------------
\* One case per action: each does only what CardMay allows.
LEMMA StepCards ==
  ASSUME TypeOK, Quiet, Seen, Only, Cautious, NEW p \in Procs, Step(p),
         job[p].op # "reprice"
  PROVE  CardMay(p)
<1> USE DEF CardMay, JobCard, RowCard, SubCard, Gateway, HandIs, Carded, Creating, Placing,
            Moved, Idles, Advances, RowIs, RowKept
<1> job[p].pc \notin Repricing
  BY DEF Quiet
<1> row.st = "none" => job[p].pc \in {"idle", "begin", "read", "list", "open"}
  BY DEF Seen
<1>1. CASE Begin(p)
  <2>1. UNCHANGED <<gw, gcard, sub, stalls>>
    BY <1>1 DEF Begin, OnlyJob, OnlyRow
  <2>2. row' = row /\ Now(p, [job[p] EXCEPT !.pc = "read", !.card = sub.card])
    BY <1>1 DEF Begin, OnlyJob, Quiet
  <2>3. HandIs(p, sub.card, job[p].asked)
    BY <2>2, Hands
  <2> QED BY <1>1, <2>1, <2>2, <2>3, BeginEffect
<1>2. CASE ReadRow(p)
  <2>1. UNCHANGED <<row, gw, gcard, sub, stalls>>
    BY <1>2 DEF ReadRow, OnlyJob, OnlyRow
  <2>2. CASE Verdict(p) = "idle"
    <3>1. Idles(p)
      BY <1>2, <2>2, Moves DEF ReadRow
    <3> QED BY <2>1, <3>1
  <2>3. CASE Verdict(p) # "idle"
    <3>1. Now(p, [job[p] EXCEPT !.asked = row.card, !.pc = Verdict(p)])
      BY <1>2, <2>3 DEF ReadRow
    <3>2. HandIs(p, job[p].card, row.card)
      BY <3>1, Hands
    <3> QED BY <1>2, <2>1, <3>2, ReadRowEffect
  <2> QED BY <2>2, <2>3
<1>3. CASE Defer(p)
  <2>1. UNCHANGED <<gw, gcard, sub, stalls>>
    BY <1>3 DEF Defer, OnlyJob, OnlyRow
  <2>2. row'.card = row.card
    BY <1>3, Hands, RowCards, Rows DEF Defer
  <2> QED BY <1>3, <2>1, <2>2, DeferEffect
<1>4. CASE Claim(p)
  <2>1. UNCHANGED <<gw, gcard, sub, stalls>>
    BY <1>4 DEF Claim, OnlyJob, OnlyRow
  <2>2. CASE CanClaim(TRUE, FALSE)
    <3>1. row' = Held(p)
      BY <1>4, <2>2 DEF Claim
    <3>2. \E s \in {"lookup", "prepare"} :
            /\ s = "prepare" => ~job[p].asked
            /\ Now(p, [job[p] EXCEPT !.pc = s, !.asked = FALSE])
      BY <1>4, <2>2, Fields DEF Claim
    <3>3. \E s \in {"lookup", "prepare"} :
            /\ s = "prepare" => ~job[p].asked
            /\ Advances(p, s) /\ HandIs(p, job[p].card, FALSE)
      <4>1. PICK s \in {"lookup", "prepare"} :
              /\ s = "prepare" => ~job[p].asked
              /\ Now(p, [job[p] EXCEPT !.pc = s, !.asked = FALSE])
        BY <3>2
      <4>2. Advances(p, s)
        BY <4>1, Moves
      <4>3. HandIs(p, job[p].card, FALSE)
        <5> DEFINE j == [job[p] EXCEPT !.pc = s, !.asked = FALSE]
        <5>1. job'[p] = j
          BY <4>1 DEF Now, TypeOK
        <5>2. job[p] \in Job
          BY DEF TypeOK
        <5>3. j.card = job[p].card /\ j.asked = FALSE
          BY <5>2 DEF Job
        <5> QED BY <5>1, <5>3
      <4> QED BY <4>1, <4>2, <4>3
    <3> QED BY <1>4, <2>1, <3>1, <3>3, RowCards, Rows DEF Claim, At
  <2>3. CASE ~CanClaim(TRUE, FALSE)
    <3>1. row' = row /\ Idles(p)
      BY <1>4, <2>3, Moves DEF Claim
    <3> QED BY <2>1, <3>1
  <2> QED BY <2>2, <2>3
<1>5. CASE Adopt(p)
  <2>1. UNCHANGED <<gw, gcard, sub, stalls>>
    BY <1>5 DEF Adopt, OnlyJob, OnlyRow
  <2>2. row'.card = (job[p].made \in gcard)
    BY <1>5, Hands, RowCards, Rows DEF Adopt
  <2> QED BY <1>5, <2>1, <2>2, AdoptEffect
<1>6. CASE AdoptSettle(p)
  <2>1. UNCHANGED <<gw, gcard, sub, stalls>>
    BY <1>6 DEF AdoptSettle
  <2>2. row' = row
    BY <1>6, Hands, RowCards, Rows DEF AdoptSettle
  <2> QED BY <1>6, <2>1, <2>2, AdoptSettleEffect
<1>7. CASE AdoptClose(p)
  <2>1. UNCHANGED <<gw, gcard, sub, stalls>>
    BY <1>7 DEF AdoptClose, OnlyJob, OnlyRow
  <2>2. row'.card = row.card
    BY <1>7, Hands, RowCards, Rows DEF AdoptClose
  <2> QED BY <1>7, <2>1, <2>2, AdoptCloseEffect
<1>8. CASE OpenRow(p)
  <2>1. UNCHANGED <<gw, gcard, sub, stalls>> /\ job[p].pc = "open"
    BY <1>8 DEF OpenRow, OnlyRow, At
  <2>2. CASE row.st = "none"
    <3>1. /\ RowIs("pending", row.gid, p) /\ row'.card = job[p].card
          /\ Advances(p, "prepare") /\ HandIs(p, job[p].card, job[p].asked)
      <4>1. row' = Opened(p, job[p].card) /\ Goto(p, "prepare")
        BY <1>8, <2>2 DEF OpenRow
      <4>2. RowIs("pending", row.gid, p) /\ row'.card = job[p].card
        BY <4>1, Rows, RowCards
      <4>3. Advances(p, "prepare") /\ HandIs(p, job[p].card, job[p].asked)
        BY <4>1, Moves, Hands
      <4> QED BY <4>2, <4>3
    <3> QED BY <2>1, <2>2, <3>1
  <2>3. CASE row.st # "none"
    <3>1. row' = row /\ Idles(p)
      BY <1>8, <2>3, Moves DEF OpenRow
    <3> QED BY <2>1, <2>3, <3>1
  <2> QED BY <2>2, <2>3
<1>9. CASE Prepare(p)
  <2>1. UNCHANGED <<gw, gcard, sub, stalls>>
    BY <1>9 DEF Prepare, OnlyJob, OnlyRow
  <2>2. row'.card = job[p].card /\ HandIs(p, job[p].card, job[p].asked)
    BY <1>9, Hands, RowCards, Rows DEF Prepare
  <2> QED BY <1>9, <2>1, <2>2, PrepareEffect
<1>10. CASE Recheck(p)
  <2>1. UNCHANGED <<gw, gcard, sub, stalls>> /\ job[p].pc = "recheck"
    BY <1>10 DEF Recheck, OnlyRow, At
  <2>2. /\ Now(p, [job[p] EXCEPT !.pc = "call", !.card = job[p].card /\ sub.card])
        /\ row' = IF job[p].card /\ ~(job[p].card /\ sub.card) THEN OnCard(FALSE) ELSE row
    BY <1>10 DEF Recheck, Quiet
  <2>3. HandIs(p, job[p].card /\ sub.card, job[p].asked) /\ Advances(p, "call")
    <3> DEFINE b == job[p].card /\ sub.card
    <3>1. Now(p, [job[p] EXCEPT !.pc = "call", !.card = b])
      BY <2>2
    <3> HIDE DEF b
    <3>2. HandIs(p, b, job[p].asked)
      BY <3>1, Hands
    <3>3. Advances(p, "call")
      BY <3>1, Moves
    <3> QED BY <3>2, <3>3 DEF b
  <2>4. RowKept
    BY <2>2, Rows
  <2>5. CASE sub.card
    <3>1. row' = row
      BY <2>2, <2>5
    <3>2. job'[p].card <=> job[p].card
      BY <2>3, <2>5
    <3>3. job'[p].card = job[p].card
      BY <2>3, <2>5, <3>2, Fields
    <3> QED BY <2>1, <2>3, <2>4, <2>5, <3>1, <3>3
  <2>6. CASE ~sub.card
    <3>1. ~job'[p].card
      BY <2>3, <2>6
    <3> QED BY <2>1, <2>3, <2>4, <2>6, <3>1
  <2> QED BY <2>5, <2>6
<1>11. CASE CreateOk(p) \/ CreateLost(p)
  <2>1. row' = row /\ UNCHANGED <<sub, stalls>> /\ \E g \in Charges : Created(p, g)
    BY <1>11 DEF CreateOk, CreateLost
  <2>2. job[p].pc = "call" /\ \E s \in {"mark", "fail"} : \E g : Moved(p, job[p].op, s, job[p].gid, g)
    BY <1>11, CreateOkEffect, CreateLostEffect
  <2> QED BY <2>1, <2>2
<1>12. CASE CreateRefused(p)
  <2>1. UNCHANGED <<gw, gcard, stalls>> /\ ~sub'.card
    BY <1>12 DEF CreateRefused, Cautious, TypeOK
  <2>2. ~job'[p].card
    BY <1>12, Hands DEF CreateRefused
  <2> QED BY <1>12, <2>1, <2>2, CreateRefusedEffect
<1>13. CASE CreateFailed(p)
  <2>1. UNCHANGED <<gw, gcard, sub, stalls, row>>
    BY <1>13 DEF CreateFailed, OnlyRow, Cautious
  <2> QED BY <1>13, <2>1, CreateFailedEffect
<1>14. CASE MarkFailed(p)
  <2>1. UNCHANGED <<gw, gcard, sub, stalls>>
    BY <1>14 DEF MarkFailed, OnlyJob, OnlyRow
  <2>2. row'.card = row.card
    BY <1>14, Hands, RowCards, Rows DEF MarkFailed
  <2> QED BY <1>14, <2>1, <2>2, MarkFailedEffect
<1>15. CASE MarkIssued(p)
  <2>1. UNCHANGED <<gw, gcard, sub, stalls>>
    BY <1>15 DEF MarkIssued, OnlyJob, OnlyRow
  <2>2. row'.card = row.card
    BY <1>15, Hands, RowCards, Rows DEF MarkIssued
  <2> QED BY <1>15, <2>1, <2>2, MarkIssuedEffect
<1>16. CASE UndoDuplicate(p)
  <2>1. row' = row /\ UNCHANGED <<gcard, sub, stalls>>
    BY <1>16 DEF UndoDuplicate
  <2>2. Gateway(p)
    <3>1. job[p].pc = "undo" /\ job[p].made \in Charges \cup {NoCharge}
      BY <1>16, Fields DEF UndoDuplicate, At
    <3>2. gw' = gw \/ (gw[job[p].made] \in {"live", "gone"} /\ gw' = [gw EXCEPT ![job[p].made] = "gone"])
      BY <1>16 DEF UndoDuplicate, GatewayCancel
    <3>3. NoCharge \notin Charges
      BY ConstantsAssumption DEF ConstantsAssumption
    <3>4. CASE job[p].made = NoCharge
      BY <2>1, <3>2, <3>3, <3>4 DEF TypeOK
    <3> QED BY <2>1, <3>1, <3>2, <3>4
  <2> QED BY <1>16, <2>1, <2>2, UndoDuplicateEffect
<1>17. CASE AfterIssue(p)
  <2>1. UNCHANGED <<gw, gcard, sub, stalls>>
    BY <1>17 DEF AfterIssue, OnlyJob, OnlyRow
  <2>2. row' = row
    BY <1>17, Hands, RowCards, Rows DEF AfterIssue, OnlyJob
  <2> QED BY <1>17, <2>1, <2>2, AfterIssueEffect
<1>18. CASE Lookup(p)
  <2>1. UNCHANGED <<row, gw, gcard, sub, stalls>> /\ job[p].pc = "lookup"
    BY <1>18 DEF Lookup, OnlyJob, OnlyRow, At
  <2>2. CASE Found = {} /\ Goto(p, "prepare")
    <3>1. Advances(p, "prepare") /\ HandIs(p, job[p].card, job[p].asked)
      BY <2>2, Moves, Hands
    <3> QED BY <2>1, <2>2, <3>1
  <2>3. CASE Goto(p, "fail")
    <3>1. Advances(p, "fail")
      BY <2>3, Moves
    <3> QED BY <2>1, <3>1
  <2>4. CASE \E g \in Preferred, s \in {"adoptpaid", "adoptlive"} :
               Now(p, [job[p] EXCEPT !.made = g, !.pc = s])
    <3>1. PICK g \in Preferred, s \in {"adoptpaid", "adoptlive"} :
            Now(p, [job[p] EXCEPT !.made = g, !.pc = s])
      BY <2>4
    <3>2. Moved(p, job[p].op, s, job[p].gid, g)
      BY <3>1, Moves
    <3> QED BY <2>1, <3>2
  <2> QED BY <1>18, <2>2, <2>3, <2>4 DEF Lookup
<1>19. CASE \/ Reopen(p) \/ Stop(p) \/ Drop(p) \/ Pull(p) \/ PullClose(p) \/ Close(p)
           \/ SetHold(p) \/ Remark(p) \/ SettleAtGateway(p) \/ SettleRecord(p)
           \/ SettleClose(p) \/ Release(p) \/ List(p) \/ Take(p) \/ Reread(p) \/ Wipe(p)
           \/ ResetRead(p) \/ ResetWrite(p) \/ Plan(p)
  <2>1. job[p].pc \in {"reopen", "stop", "drop", "pull", "pulled", "close", "sethold", "remark",
                       "cash", "record", "settled", "release"} \cup Repricing
    BY <1>19 DEF Reopen, Stop, Drop, Pull, PullClose, Close, SetHold, Remark, SettleAtGateway,
         SettleRecord, SettleClose, Release, List, Take, Reread, Wipe, ResetRead, ResetWrite,
         Plan, At, Repricing
  <2> QED BY <2>1 DEF Quiet, Emitting, Repricing
<1> QED
  BY <1>1, <1>2, <1>3, <1>4, <1>5, <1>6, <1>7, <1>8, <1>9, <1>10,
     <1>11, <1>12, <1>13, <1>14, <1>15, <1>16, <1>17, <1>18, <1>19 DEF Step

LEMMA StartCards ==
  ASSUME TypeOK, Quiet, Only, Cautious, NEW p \in Procs, Start(p) \/ Crash(p)
  PROVE  CardMay(p)
<1>1. UNCHANGED <<gw, gcard, sub, stalls>> /\ (row' = row \/ row' = Held(Dead))
  BY DEF Start, StartPass, Gesture, Exempt, Retain, Crash, OnlyJob, OnlyRow, Cautious
<1>2. row'.card = row.card /\ row'.st = row.st
  BY <1>1, RowCards, Rows DEF RowIs
<1>3. \E op, s : s \in {"idle", "begin", "list"} /\ Moved(p, op, s, NoCharge, NoCharge)
  BY StartEffect, CrashEffect DEF Idles
<1> QED BY <1>1, <1>2, <1>3 DEF CardMay, JobCard, RowCard, SubCard, Gateway, Carded, Creating, Moved

-----------------------------------------------------------------------------
\* CardMay keeps the invariant: only one process at a time is on its way to a creation.
LEMMA CardActs ==
  ASSUME ExclusionInv, ForgetInv, CardInv, stalls = 0, NEW p \in Procs, CardMay(p)
  PROVE  CardInv'
<1> TypeOK /\ HandsFull /\ Seen /\ Owner
  BY DEF ExclusionInv
<1> /\ gw \in [Charges -> {"unused", "live", "paid", "gone"}] /\ gcard \subseteq Charges
    /\ row.card \in BOOLEAN /\ sub.card \in BOOLEAN
  BY DEF TypeOK, Row
<1> \A q \in Procs : job[q].pc \in Placing => job[q].made \in Charges /\ gw[job[q].made] # "unused"
  BY DEF HandsFull, Carrying, Placing, ForgetInv
<1> USE DEF CardMay
<1>1. ASSUME NEW q \in Procs, job[q].pc \in Creating, job[p].pc = "call" PROVE q = p
  BY <1>1 DEF Owner, Fits, Firm, Creating
<1>2. sub'.card => sub.card
  BY DEF SubCard
<1>3. sub'.card => row'.st = "none" \/ row'.card
  <2> SUFFICES ASSUME sub'.card, row'.st # "none" PROVE row'.card
    OBVIOUS
  <2>1. job[p].pc \in {"open", "prepare"} => job[p].card
    BY <1>2 DEF CardInv, Carded
  <2>2. job[p].pc \in Placing => job[p].made \in gcard
    BY <1>2 DEF CardInv
  <2> QED BY <1>2, <2>1, <2>2 DEF RowCard, CardInv
<1>4. sub'.card => \A g \in Charges : gw'[g] # "unused" => g \in gcard'
  <2> SUFFICES ASSUME sub'.card, NEW g \in Charges, gw'[g] # "unused" PROVE g \in gcard'
    OBVIOUS
  <2>1. CASE gw' = gw /\ gcard' = gcard
    BY <1>2, <2>1 DEF CardInv
  <2>2. CASE job[p].pc = "call" /\ \E h \in Charges : Created(p, h)
    BY <1>2, <2>2 DEF CardInv, Created, Carded
  <2>3. CASE gcard' = gcard /\ \E h \in Charges : gw[h] \in {"live", "gone"} /\ gw' = [gw EXCEPT ![h] = "gone"]
    BY <1>2, <2>3 DEF CardInv
  <2> QED BY <2>1, <2>2, <2>3 DEF Gateway
<1>5. ASSUME sub'.card, NEW q \in Procs
      PROVE  /\ job'[q].pc \in Carded => job'[q].card
             /\ job'[q].pc = "claim" => job'[q].asked
             /\ job'[q].pc \in Creating => Found' = {}
  <2>1. CASE q = p
    <3>1. job'[p].pc \in Carded => job'[p].card
      BY <1>2, <1>5 DEF JobCard, CardInv
    <3>2. job'[p].pc = "claim" => job'[p].asked
      BY <1>2, <1>5 DEF JobCard, CardInv
    <3>3. ASSUME job'[p].pc \in Creating PROVE Found' = {}
      <4>1. Found = {}
        BY <1>2, <1>5, <3>3 DEF JobCard, CardInv, Found
      <4>2. gw' = gw
        BY <3>3 DEF JobCard
      <4> QED BY <4>1, <4>2 DEF Found
    <3> QED BY <2>1, <3>1, <3>2, <3>3
  <2>2. CASE q # p
    <3>1. job'[q] = job[q]
      BY <2>2
    <3>2. ASSUME job[q].pc \in Creating PROVE Found' = {}
      <4>1. Found = {}
        BY <1>2, <1>5, <3>2 DEF CardInv
      <4>2. job[p].pc # "call"
        BY <1>1, <2>2, <3>2
      <4> QED BY <4>1, <4>2 DEF Gateway, Found
    <3> QED BY <1>2, <1>5, <3>1, <3>2 DEF CardInv
  <2> QED BY <2>1, <2>2
<1>6. ASSUME NEW q \in Procs, job'[q].pc = "call", job'[q].card PROVE sub'.card
  <2>1. CASE q = p
    BY <1>6, <2>1 DEF JobCard
  <2>2. CASE q # p
    <3>1. job[q].pc = "call" /\ job[q].card
      BY <1>6, <2>2
    <3>2. job[p].pc # "call"
      BY <1>1, <2>2, <3>1 DEF Creating
    <3> QED BY <3>1, <3>2 DEF CardInv, SubCard
  <2> QED BY <2>1, <2>2
<1>7. row'.st = "none" => \A g \in Charges : gw'[g] = "unused"
  <2> SUFFICES ASSUME row'.st = "none" PROVE \A g \in Charges : gw'[g] = "unused"
    OBVIOUS
  <2>1. row.st = "none" /\ \A g \in Charges : gw[g] = "unused"
    BY DEF RowCard, CardInv
  <2>2. job[p].pc # "call"
    BY <2>1 DEF Seen
  <2> QED BY <2>1, <2>2 DEF Gateway
<1>8. /\ \A g \in gcard' : gw'[g] # "unused"
      /\ \A g, h \in gcard' : gw'[g] \in {"live", "paid"} /\ gw'[h] \in {"live", "paid"} => g = h
  <2>1. CASE gw' = gw /\ gcard' = gcard
    BY <2>1 DEF CardInv
  <2>2. CASE job[p].pc = "call" /\ \E g \in Charges : Created(p, g)
    <3>1. PICK g \in Charges : gw[g] = "unused" /\ gw' = [gw EXCEPT ![g] = "live"]
                               /\ gcard' = IF job[p].card THEN gcard \cup {g} ELSE gcard
      BY <2>2 DEF Created
    <3>2. g \notin gcard
      BY <3>1 DEF CardInv
    <3>3. CASE ~job[p].card
      BY <3>1, <3>2, <3>3 DEF CardInv
    <3>4. CASE job[p].card
      <4>1. Found = {}
        BY <2>2, <3>4 DEF CardInv, Creating
      <4>2. \A h \in gcard : gw[h] \notin {"live", "paid"}
        BY <4>1 DEF Found
      <4> QED BY <3>1, <3>2, <3>4, <4>2 DEF CardInv
    <3> QED BY <3>3, <3>4
  <2>3. CASE gcard' = gcard /\ \E h \in Charges : gw[h] \in {"live", "gone"} /\ gw' = [gw EXCEPT ![h] = "gone"]
    BY <2>3 DEF CardInv
  <2> QED BY <2>1, <2>2, <2>3 DEF Gateway
<1> QED BY <1>2, <1>3, <1>4, <1>5, <1>6, <1>7, <1>8 DEF CardInv

\* A payment revives no card charge that is gone, and no event touches the card.
LEMMA CardWorld ==
  ASSUME ExclusionInv, CardInv, Cautious, World
  PROVE  CardInv'
<1> TypeOK /\ Seen /\ Quiet
  BY DEF ExclusionInv
<1> /\ gw \in [Charges -> {"unused", "live", "paid", "gone"}] /\ gcard \subseteq Charges
    /\ row.card \in BOOLEAN /\ sub.card \in BOOLEAN
  BY DEF TypeOK, Row
<1>1. UNCHANGED <<job, sub, gcard>>
  BY DEF World, Pay, WebhookRecord, WebhookSettle, DropNote, LifecycleRead, LifecycleWrite,
         Expire, Stall, OnlyRow
<1>2. row'.card = row.card /\ (row'.st = "none" <=> row.st = "none")
  <2>1. CASE \E g \in Charges : Pay(g) \/ WebhookRecord(g) \/ DropNote(g)
    BY <2>1 DEF Pay, WebhookRecord, DropNote
  <2>2. CASE \E g \in Charges : WebhookSettle(g)
    <3>1. row' = row \/ (row.gid \in Charges /\ row' = [row EXCEPT !.st = "paid"])
      BY <2>2 DEF WebhookSettle
    <3>2. row.gid \in Charges => row.st # "none"
      BY ConstantsAssumption DEF Seen, ConstantsAssumption
    <3> QED BY <3>1, <3>2, RowCards, Rows DEF RowIs
  <2>3. CASE \E g \in Charges, to \in {"overdue", "canceled"} : LifecycleRead(g, to) \/ LifecycleWrite(g, to)
    BY <2>3 DEF LifecycleRead, LifecycleWrite, Cautious, Quiet
  <2>4. CASE Expire \/ Stall
    BY <2>4, RowCards, Rows DEF Expire, Stall, RowIs
  <2> QED BY <2>1, <2>2, <2>3, <2>4 DEF World
<1>3. CASE gw' = gw
  BY <1>1, <1>2, <1>3 DEF CardInv, Found
<1>4. CASE \E g \in Charges : Pay(g)
  <2>1. PICK g \in Charges : /\ gw[g] = "live" \/ (gw[g] = "gone" /\ g \notin gcard)
                             /\ gw' = [gw EXCEPT ![g] = "paid"]
    BY <1>4 DEF Pay
  <2>2. ASSUME sub.card, Found = {} PROVE Found' = {}
    <3>1. gw[g] # "live" /\ gw[g] # "gone"
      BY <2>1, <2>2 DEF CardInv, Found
    <3> QED BY <2>1, <3>1
  <2>3. \A h \in gcard : /\ gw'[h] # "unused"
                         /\ gw'[h] \in {"live", "paid"} => gw[h] \in {"live", "paid"}
    BY <2>1 DEF CardInv
  <2>4. \A h \in Charges : gw'[h] = "unused" <=> gw[h] = "unused"
    BY <2>1
  <2> QED BY <1>1, <1>2, <2>2, <2>3, <2>4 DEF CardInv
<1> QED
  BY <1>3, <1>4 DEF World, WebhookRecord, WebhookSettle, DropNote, LifecycleRead, LifecycleWrite,
     Expire, Stall, OnlyRow

LEMMA CardStep ==
  ASSUME ExclusionInv, ForgetInv, stalls = 0 => CardInv, Only, Cautious, [Next]_vars
  PROVE  (stalls = 0 => CardInv)'
<1> TypeOK /\ Quiet /\ Seen /\ \A p \in Procs : job[p].op # "reprice"
  BY DEF ExclusionInv, ForgetInv, Cautious
<1>1. CASE \E p \in Procs : Start(p) \/ Step(p) \/ Crash(p)
  <2>1. PICK p \in Procs : CardMay(p)
    BY <1>1, StartCards, StepCards
  <2> QED BY <2>1, CardActs DEF CardMay
<1>2. CASE World
  <2>1. stalls' = stalls \/ stalls' = stalls + 1
    BY <1>2 DEF World, Pay, WebhookRecord, WebhookSettle, DropNote, LifecycleRead, LifecycleWrite,
       Expire, Stall, OnlyRow
  <2>2. stalls' = 0 => stalls = 0
    BY <2>1, ConstantsAssumption DEF TypeOK, ConstantsAssumption
  <2> QED BY <1>2, <2>2, CardWorld
<1>3. CASE UNCHANGED vars
  BY <1>3 DEF vars, CardInv, Found
<1> QED BY <1>1, <1>2, <1>3 DEF Next

\* The saved card is charged at most once for the period while no claim runs out, for every
\* number of processes and charges: every answer that is lost is looked up before another try.
THEOREM OneCardChargeAlways ==
  ASSUME Cautious
  PROVE  Spec => []OneCardCharge
<1>1. Gestures \subseteq {"click", "reprice"} /\ Sure
  BY DEF Cautious, Sure
<1>2. Init => (stalls = 0 => CardInv)
  <2> SUFFICES ASSUME Init PROVE CardInv
    OBVIOUS
  <2>1. /\ row.st = "none" /\ gcard = {} /\ \A g \in Charges : gw[g] = "unused"
        /\ \A p \in Procs : job[p].pc = "idle"
    BY DEF Init, IdleJob
  <2> QED BY <2>1 DEF CardInv, Carded, Creating
<1>3. ExclusionInv /\ ForgetInv /\ (stalls = 0 => CardInv) /\ [Next]_vars => (stalls = 0 => CardInv)'
  BY <1>1, CardStep DEF Only
<1>4. ExclusionInv /\ (stalls = 0 => CardInv) => OneCardCharge
  <2> SUFFICES ASSUME CardInv PROVE Cardinality({g \in gcard : gw[g] \in {"live", "paid"}}) <= 1
    BY DEF OneCardCharge
  <2> DEFINE S == {g \in gcard : gw[g] \in {"live", "paid"}}
  <2>1. CASE S = {}
    BY <2>1, FS_EmptySet
  <2>2. CASE S # {}
    <3>1. PICK g : g \in S
      BY <2>2
    <3>2. S = {g}
      BY <3>1 DEF CardInv
    <3>3. Cardinality(S) = 1
      BY <3>2, FS_Singleton
    <3> QED BY <3>3
  <2> QED BY <2>1, <2>2
<1>5. Spec => [](ExclusionInv /\ ForgetInv)
  BY <1>1, ForgetAlways
<1> QED BY <1>2, <1>3, <1>4, <1>5, PTL DEF Spec
=============================================================================
