------------------------ MODULE TenantCredit_proofs ------------------------
(***************************************************************************)
(* For any credits, charges and processes, and any price: no cent is made  *)
(* or lost (ConservedAlways), a canceled credit stays empty, the credit    *)
(* follows its charge (CreditFollowsAlways), and what a customer is not    *)
(* asked is set aside (DiscountBackedAlways), the last two of the charges  *)
(* whose claim nobody freed but its owner. IInv says in which plan a       *)
(* process may be while the claim, the lots and the ledger of its charge   *)
(* are as they are; each step moves one process one step along its plan.   *)
(* What it says of a charge ends where `unguarded` begins (Local).         *)
(***************************************************************************)
EXTENDS TenantCredit_sums

\* The plans: what a process may still have to do.
ToReserve == <<"reserve", "reread">>
ToReread == <<"reread">>
ToCancel == <<"cancel", "release">>
ToCancelAndFree == <<"cancel", "release", "finally">>
ToOverride == <<"override", "release", "finally">>
ToReset == <<"reset", "release">>
ToHold == <<"hold", "release", "unclaim">>
ToSettle == <<"record", "settled", "consume", "finally">>
ToSettled == <<"settled", "consume", "finally">>
ToReverse == <<"reverse", "refunded", "restore", "finally">>
ToRefund == <<"refunded", "restore", "finally">>
ToUnprice == <<"release", "price", "unclaim">>
ToReprice == <<"price", "unclaim">>
ToUnhold == <<"release", "unclaim">>
ToLetGo == <<"unclaim">>
ToSweep == <<"release", "price">>
ToPrice == <<"price">>
ToRelease == <<"release">>
ToDrop == <<"dropped", "release">>
ToRecord == <<"record", "paid", "consume">>
ToPay == <<"paid", "consume">>
ToConsume == <<"consume">>
ToReturn == <<"returned", "restore", "reverse">>
ToRestoreFirst == <<"restore", "reverse">>
ToRestore == <<"restore">>
ToReverseLast == <<"reverse">>
ToDebit == <<"debit">>
ToReleaseAndFree == <<"release", "finally">>
ToConsumeAndFree == <<"consume", "finally">>
ToRestoreAndFree == <<"restore", "finally">>
ToFree == <<"finally">>
Done == <<>>

\* Those of a process that holds the claim: to issue the charge, to close it or open it again,
\* and to end without having done so.
Issuing == {ToReserve, ToReread}
Closing == {ToCancel, ToCancelAndFree, ToOverride, ToReset, ToHold, ToSettle, ToSettled,
            ToReverse, ToRefund}
LettingGo == {ToUnprice, ToReprice, ToUnhold, ToLetGo}
Owned == Issuing \cup Closing \cup LettingGo
\* Those of one that does not.
Sweeping == {ToSweep, ToPrice}
Loose == Sweeping \cup {ToRelease, ToDrop, ToRecord, ToPay, ToConsume, ToReturn,
                        ToRestoreFirst, ToRestore, ToReverseLast, ToDebit, ToReleaseAndFree,
                        ToConsumeAndFree, ToRestoreAndFree, ToFree, Done}
Plans == Owned \cup Loose

\* Those that come after the payment is in the ledger.
Labelling == {ToPay, ToSettled}
Undoing == {ToReverse, ToRefund, ToReturn}
Recorded == Labelling \cup Undoing \cup {ToConsume, ToConsumeAndFree, ToRestoreFirst, ToRestore,
                                         ToRestoreAndFree, ToReverseLast}

\* Each plan's first step, and what remains after it.
Begins(t, s, rest) == t # Done /\ Head(t) = s /\ Tail(t) = rest

\* What each plan begins with, and which plan it leaves.
LEMMA EachPlan ==
  /\ Begins(ToReserve, "reserve", ToReread)
  /\ Begins(ToReread, "reread", Done)
  /\ Begins(ToCancel, "cancel", ToRelease)
  /\ Begins(ToOverride, "override", ToReleaseAndFree)
  /\ Begins(ToReset, "reset", ToRelease)
  /\ Begins(ToHold, "hold", ToUnhold)
  /\ Begins(ToSettle, "record", ToSettled)
  /\ Begins(ToSettled, "settled", ToConsumeAndFree)
  /\ Begins(ToReverse, "reverse", ToRefund)
  /\ Begins(ToRefund, "refunded", ToRestoreAndFree)
  /\ Begins(ToUnprice, "release", ToReprice)
  /\ Begins(ToReprice, "price", ToLetGo)
  /\ Begins(ToUnhold, "release", ToLetGo)
  /\ Begins(ToLetGo, "unclaim", Done)
  /\ Begins(ToSweep, "release", ToPrice)
  /\ Begins(ToPrice, "price", Done)
  /\ Begins(ToRelease, "release", Done)
  /\ Begins(ToDrop, "dropped", ToRelease)
  /\ Begins(ToRecord, "record", ToPay)
  /\ Begins(ToPay, "paid", ToConsume)
  /\ Begins(ToConsume, "consume", Done)
  /\ Begins(ToReturn, "returned", ToRestoreFirst)
  /\ Begins(ToRestoreFirst, "restore", ToReverseLast)
  /\ Begins(ToRestore, "restore", Done)
  /\ Begins(ToReverseLast, "reverse", Done)
  /\ Begins(ToDebit, "debit", Done)
  /\ Begins(ToCancelAndFree, "cancel", ToReleaseAndFree)
  /\ Begins(ToReleaseAndFree, "release", ToFree)
  /\ Begins(ToConsumeAndFree, "consume", ToFree)
  /\ Begins(ToRestoreAndFree, "restore", ToFree)
  /\ Begins(ToFree, "finally", Done)
<1>1. Begins(ToReserve, "reserve", ToReread)
  BY DEF Begins, ToReserve, ToReread, Done
<1>2. Begins(ToReread, "reread", Done)
  BY DEF Begins, ToReread, Done
<1>3. Begins(ToCancel, "cancel", ToRelease)
  BY DEF Begins, ToCancel, ToRelease, Done
<1>4. Begins(ToOverride, "override", ToReleaseAndFree)
  BY DEF Begins, ToOverride, ToReleaseAndFree, Done
<1>5. Begins(ToReset, "reset", ToRelease)
  BY DEF Begins, ToReset, ToRelease, Done
<1>6. Begins(ToHold, "hold", ToUnhold)
  BY DEF Begins, ToHold, ToUnhold, Done
<1>7. Begins(ToSettle, "record", ToSettled)
  BY DEF Begins, ToSettle, ToSettled, Done
<1>8. Begins(ToSettled, "settled", ToConsumeAndFree)
  BY DEF Begins, ToSettled, ToConsumeAndFree, Done
<1>9. Begins(ToReverse, "reverse", ToRefund)
  BY DEF Begins, ToReverse, ToRefund, Done
<1>10. Begins(ToRefund, "refunded", ToRestoreAndFree)
  BY DEF Begins, ToRefund, ToRestoreAndFree, Done
<1>11. Begins(ToUnprice, "release", ToReprice)
  BY DEF Begins, ToUnprice, ToReprice, Done
<1>12. Begins(ToReprice, "price", ToLetGo)
  BY DEF Begins, ToReprice, ToLetGo, Done
<1>13. Begins(ToUnhold, "release", ToLetGo)
  BY DEF Begins, ToUnhold, ToLetGo, Done
<1>14. Begins(ToLetGo, "unclaim", Done)
  BY DEF Begins, ToLetGo, Done
<1>15. Begins(ToSweep, "release", ToPrice)
  BY DEF Begins, ToSweep, ToPrice, Done
<1>16. Begins(ToPrice, "price", Done)
  BY DEF Begins, ToPrice, Done
<1>17. Begins(ToRelease, "release", Done)
  BY DEF Begins, ToRelease, Done
<1>18. Begins(ToDrop, "dropped", ToRelease)
  BY DEF Begins, ToDrop, ToRelease, Done
<1>19. Begins(ToRecord, "record", ToPay)
  BY DEF Begins, ToRecord, ToPay, Done
<1>20. Begins(ToPay, "paid", ToConsume)
  BY DEF Begins, ToPay, ToConsume, Done
<1>21. Begins(ToConsume, "consume", Done)
  BY DEF Begins, ToConsume, Done
<1>22. Begins(ToReturn, "returned", ToRestoreFirst)
  BY DEF Begins, ToReturn, ToRestoreFirst, Done
<1>23. Begins(ToRestoreFirst, "restore", ToReverseLast)
  BY DEF Begins, ToRestoreFirst, ToReverseLast, Done
<1>24. Begins(ToRestore, "restore", Done)
  BY DEF Begins, ToRestore, Done
<1>25. Begins(ToReverseLast, "reverse", Done)
  BY DEF Begins, ToReverseLast, Done
<1>26. Begins(ToDebit, "debit", Done)
  BY DEF Begins, ToDebit, Done
<1>27. Begins(ToCancelAndFree, "cancel", ToReleaseAndFree)
  BY DEF Begins, ToCancelAndFree, ToReleaseAndFree, Done
<1>28. Begins(ToReleaseAndFree, "release", ToFree)
  BY DEF Begins, ToReleaseAndFree, ToFree, Done
<1>29. Begins(ToConsumeAndFree, "consume", ToFree)
  BY DEF Begins, ToConsumeAndFree, ToFree, Done
<1>30. Begins(ToRestoreAndFree, "restore", ToFree)
  BY DEF Begins, ToRestoreAndFree, ToFree, Done
<1>31. Begins(ToFree, "finally", Done)
  BY DEF Begins, ToFree, Done
<1> QED BY <1>1, <1>2, <1>3, <1>4, <1>5, <1>6, <1>7, <1>8, <1>9, <1>10, <1>11, <1>12, <1>13, <1>14, <1>15, <1>16, <1>17, <1>18, <1>19, <1>20, <1>21, <1>22, <1>23, <1>24, <1>25, <1>26, <1>27, <1>28, <1>29, <1>30, <1>31

\* Which plans begin with a step.
LEMMA PlansBy ==
  ASSUME NEW t \in Plans, t # Done
  PROVE  /\ Head(t) = "reserve" => t = ToReserve
         /\ Head(t) = "reread" => t = ToReread
         /\ Head(t) = "cancel" => t \in {ToCancel, ToCancelAndFree}
         /\ Head(t) = "override" => t = ToOverride
         /\ Head(t) = "reset" => t = ToReset
         /\ Head(t) = "hold" => t = ToHold
         /\ Head(t) = "record" => t \in {ToSettle, ToRecord}
         /\ Head(t) = "settled" => t = ToSettled
         /\ Head(t) = "reverse" => t \in {ToReverse, ToReverseLast}
         /\ Head(t) = "refunded" => t = ToRefund
         /\ Head(t) = "release" => t \in {ToUnprice, ToUnhold, ToSweep, ToRelease, ToReleaseAndFree}
         /\ Head(t) = "price" => t \in {ToReprice, ToPrice}
         /\ Head(t) = "unclaim" => t = ToLetGo
         /\ Head(t) = "dropped" => t = ToDrop
         /\ Head(t) = "paid" => t = ToPay
         /\ Head(t) = "consume" => t \in {ToConsume, ToConsumeAndFree}
         /\ Head(t) = "returned" => t = ToReturn
         /\ Head(t) = "restore" => t \in {ToRestoreFirst, ToRestore, ToRestoreAndFree}
         /\ Head(t) = "debit" => t = ToDebit
         /\ Head(t) = "finally" => t = ToFree
  BY EachPlan, ZenonT(60) DEF Begins, Plans, Owned, Loose, Issuing, Closing, LettingGo, Sweeping

\* Of what kind each plan is.
LEMMA Kinds ==
  /\ \A t \in {ToReserve, ToReread} :
       t \in Issuing /\ t \notin Closing \cup LettingGo \cup Sweeping \cup Recorded
  /\ \A t \in {ToCancel, ToCancelAndFree, ToOverride, ToReset, ToHold, ToSettle} :
       t \in Closing /\ t \notin Issuing \cup LettingGo \cup Sweeping \cup Recorded
  /\ ToSettled \in Closing \cap Labelling
  /\ ToSettled \notin Issuing \cup LettingGo \cup Sweeping \cup Undoing
  /\ \A t \in {ToReverse, ToRefund} :
       t \in Closing \cap Undoing /\ t \notin Issuing \cup LettingGo \cup Sweeping \cup Labelling
  /\ \A t \in {ToUnprice, ToReprice, ToUnhold, ToLetGo} :
       t \in LettingGo /\ t \notin Issuing \cup Closing \cup Sweeping \cup Recorded
  /\ \A t \in {ToSweep, ToPrice} : t \in Sweeping /\ t \notin Owned \cup Recorded
  /\ \A t \in {ToRelease, ToReleaseAndFree, ToFree, ToDrop, ToRecord, ToDebit, Done} :
       t \notin Owned \cup Sweeping \cup Recorded
  /\ ToPay \in Labelling /\ ToPay \notin Owned \cup Sweeping \cup Undoing
  /\ ToReturn \in Undoing /\ ToReturn \notin Owned \cup Sweeping \cup Labelling
  /\ \A t \in {ToConsume, ToConsumeAndFree, ToRestoreFirst, ToRestore, ToRestoreAndFree,
              ToReverseLast} : t \in Recorded /\ t \notin Owned \cup Sweeping \cup Labelling \cup Undoing
<1>a. /\ Head(ToReserve) = "reserve" /\ Head(ToReread) = "reread"
      /\ Head(ToCancel) = "cancel" /\ Head(ToOverride) = "override"
      /\ Head(ToReset) = "reset" /\ Head(ToHold) = "hold" /\ Head(ToSettle) = "record"
      /\ Head(ToSettled) = "settled" /\ Head(ToReverse) = "reverse"
      /\ Head(ToRefund) = "refunded" /\ Head(ToUnprice) = "release"
      /\ Head(ToReprice) = "price" /\ Head(ToUnhold) = "release" /\ Head(ToLetGo) = "unclaim"
      /\ Head(ToSweep) = "release" /\ Head(ToPrice) = "price" /\ Head(ToRelease) = "release"
      /\ Head(ToDrop) = "dropped" /\ Head(ToRecord) = "record" /\ Head(ToPay) = "paid"
      /\ Head(ToConsume) = "consume" /\ Head(ToReturn) = "returned"
      /\ Head(ToRestoreFirst) = "restore" /\ Head(ToRestore) = "restore"
      /\ Head(ToReverseLast) = "reverse" /\ Head(ToDebit) = "debit"
      /\ Head(ToCancelAndFree) = "cancel" /\ Head(ToReleaseAndFree) = "release"
      /\ Head(ToConsumeAndFree) = "consume" /\ Head(ToRestoreAndFree) = "restore"
      /\ Head(ToFree) = "finally"
  BY EachPlan DEF Begins
<1>b. /\ Tail(ToRecord) = ToPay /\ Tail(ToReverseLast) = Done /\ Tail(ToSettle) = ToSettled
      /\ Tail(ToReverse) = ToRefund /\ Tail(ToUnprice) = ToReprice /\ Tail(ToUnhold) = ToLetGo
      /\ Tail(ToReprice) = ToLetGo /\ Tail(ToSweep) = ToPrice /\ Tail(ToPrice) = Done
      /\ Tail(ToRelease) = Done /\ Tail(ToReleaseAndFree) = ToFree
  BY EachPlan DEF Begins
<1>1. \A t \in Issuing : Head(t) \in {"reserve", "reread"}
  BY EachPlan DEF Begins, Issuing
<1>2. \A t \in Closing : /\ Head(t) \in {"cancel", "override", "reset", "hold", "record", "settled",
                                         "reverse", "refunded"}
                         /\ Head(t) = "record" => Tail(t) = ToSettled
                         /\ Head(t) = "reverse" => Tail(t) = ToRefund
  BY EachPlan, ZenonT(60) DEF Begins, Closing
<1>3. \A t \in LettingGo : /\ Head(t) \in {"release", "price", "unclaim"}
                           /\ Head(t) = "release" => Tail(t) \in {ToReprice, ToLetGo}
                           /\ Head(t) = "price" => Tail(t) = ToLetGo
  BY EachPlan, ZenonT(60) DEF Begins, LettingGo
<1>4. \A t \in Sweeping : /\ Head(t) \in {"release", "price"}
                          /\ Head(t) = "release" => Tail(t) = ToPrice
                          /\ Head(t) = "price" => Tail(t) = Done
  BY EachPlan, ZenonT(60) DEF Begins, Sweeping
<1>5. \A t \in Labelling : Head(t) \in {"paid", "settled"}
  BY EachPlan DEF Begins, Labelling
<1>6. \A t \in Undoing : /\ Head(t) \in {"reverse", "refunded", "returned"}
                         /\ Head(t) = "reverse" => Tail(t) = ToRefund
  BY EachPlan DEF Begins, Undoing
<1>7. \A t \in Recorded : Head(t) \in {"paid", "settled", "reverse", "refunded", "consume", "returned",
                                       "restore"}
  <2>1. \A t \in {ToConsume, ToConsumeAndFree, ToRestoreFirst, ToRestore, ToRestoreAndFree,
                 ToReverseLast} : Head(t) \in {"consume", "restore", "reverse"}
    BY <1>a
  <2> QED BY <2>1, <1>5, <1>6 DEF Recorded
<1>8. /\ ToReprice # ToPrice /\ ToLetGo # ToPrice /\ ToPay # ToSettled
      /\ ToFree \notin {ToReprice, ToLetGo, ToPrice}
      /\ ToLetGo # Done /\ ToReprice # Done /\ ToPrice # Done /\ ToRefund # Done
  BY EachPlan DEF Begins
<1>9. Done \notin Owned \cup Sweeping \cup Recorded
  BY EachPlan DEF Begins, Owned, Issuing, Closing, LettingGo, Sweeping, Recorded, Labelling, Undoing
<1>10. \A t \in {ToReserve, ToReread} :
       t \in Issuing /\ t \notin Closing \cup LettingGo \cup Sweeping \cup Recorded
  <2>1. ToReserve \in Issuing /\ ToReread \in Issuing
    BY DEF Issuing
  <2> QED BY <2>1, <1>a, <1>b, <1>2, <1>3, <1>4, <1>7, ZenonT(60)
<1>11. \A t \in {ToCancel, ToCancelAndFree, ToOverride, ToReset, ToHold, ToSettle} :
       t \in Closing /\ t \notin Issuing \cup LettingGo \cup Sweeping \cup Recorded
  <2>1. \A t \in {ToCancel, ToCancelAndFree, ToOverride, ToReset, ToHold, ToSettle} : t \in Closing
    BY DEF Closing
  <2> QED BY <2>1, <1>a, <1>b, <1>1, <1>3, <1>4, <1>7, ZenonT(60)
<1>12. ToSettled \in Closing \cap Labelling
  BY DEF Closing, Labelling
<1>13. ToSettled \notin Issuing \cup LettingGo \cup Sweeping \cup Undoing
  BY <1>a, <1>1, <1>3, <1>4, <1>6
<1>14. \A t \in {ToReverse, ToRefund} :
       t \in Closing \cap Undoing /\ t \notin Issuing \cup LettingGo \cup Sweeping \cup Labelling
  <2>1. \A t \in {ToReverse, ToRefund} : t \in Closing \cap Undoing
    BY DEF Closing, Undoing
  <2> QED BY <2>1, <1>a, <1>1, <1>3, <1>4, <1>5
<1>15. \A t \in {ToUnprice, ToReprice, ToUnhold, ToLetGo} :
       t \in LettingGo /\ t \notin Issuing \cup Closing \cup Sweeping \cup Recorded
  <2>1. \A t \in {ToUnprice, ToReprice, ToUnhold, ToLetGo} : t \in LettingGo
    BY DEF LettingGo
  <2>2. \A t \in {ToUnprice, ToReprice, ToUnhold, ToLetGo} : t \notin Issuing \cup Closing \cup Recorded
    BY <1>a, <1>1, <1>2, <1>7
  <2>3. \A t \in {ToUnprice, ToReprice, ToUnhold, ToLetGo} : t \notin Sweeping
    <3>1. ToUnprice \notin Sweeping /\ ToUnhold \notin Sweeping
      BY <1>a, <1>b, <1>4, <1>8
    <3>2. ToReprice \notin Sweeping /\ ToLetGo \notin Sweeping
      BY <1>a, <1>b, <1>4, <1>8
    <3> QED BY <3>1, <3>2
  <2> QED BY <2>1, <2>2, <2>3
<1>16. \A t \in {ToSweep, ToPrice} : t \in Sweeping /\ t \notin Owned \cup Recorded
  <2>1. ToSweep \in Sweeping /\ ToPrice \in Sweeping
    BY DEF Sweeping
  <2>2. \A t \in {ToSweep, ToPrice} : t \notin Issuing \cup Closing \cup Recorded
    BY <1>a, <1>1, <1>2, <1>7
  <2>3. \A t \in {ToSweep, ToPrice} : t \notin LettingGo
    BY <1>a, <1>b, <1>3, <1>8
  <2> QED BY <2>1, <2>2, <2>3 DEF Owned
<1>17. \A t \in {ToRelease, ToReleaseAndFree, ToFree, ToDrop, ToRecord, ToDebit, Done} :
       t \notin Owned \cup Sweeping \cup Recorded
  <2>1. ToRelease \notin Owned \cup Sweeping \cup Recorded
    BY <1>a, <1>b, <1>1, <1>2, <1>3, <1>4, <1>7, <1>8, ZenonT(60) DEF Owned
  <2>2. ToDrop \notin Owned \cup Sweeping \cup Recorded
    BY <1>a, <1>1, <1>2, <1>3, <1>4, <1>7 DEF Owned
  <2>3. ToRecord \notin Owned \cup Sweeping \cup Recorded
    BY <1>a, <1>b, <1>1, <1>2, <1>3, <1>4, <1>7, <1>8 DEF Owned
  <2>4. ToDebit \notin Owned \cup Sweeping \cup Recorded
    BY <1>a, <1>1, <1>2, <1>3, <1>4, <1>7 DEF Owned
  <2>5. ToReleaseAndFree \notin Owned \cup Sweeping \cup Recorded
    BY <1>a, <1>b, <1>1, <1>2, <1>3, <1>4, <1>7, <1>8, ZenonT(60) DEF Owned
  <2>6. ToFree \notin Owned \cup Sweeping \cup Recorded
    BY <1>a, <1>1, <1>2, <1>3, <1>4, <1>7 DEF Owned
  <2> QED BY <2>1, <2>2, <2>3, <2>4, <2>5, <2>6, <1>9
<1>18. ToPay \in Labelling /\ ToPay \notin Owned \cup Sweeping \cup Undoing
  <2>1. ToPay \in Labelling
    BY DEF Labelling
  <2>2. ToPay \notin Issuing \cup LettingGo \cup Sweeping \cup Undoing
    BY <1>a, <1>1, <1>3, <1>4, <1>6
  <2>3. ToPay \notin Closing
    BY <1>a, <1>2
  <2> QED BY <2>1, <2>2, <2>3 DEF Owned
<1>19. ToReturn \in Undoing /\ ToReturn \notin Owned \cup Sweeping \cup Labelling
  <2>1. ToReturn \in Undoing
    BY DEF Undoing
  <2> QED BY <2>1, <1>a, <1>1, <1>2, <1>3, <1>4, <1>5 DEF Owned
<1>20. \A t \in {ToConsume, ToConsumeAndFree, ToRestoreFirst, ToRestore, ToRestoreAndFree,
                ToReverseLast} : t \in Recorded /\ t \notin Owned \cup Sweeping \cup Labelling \cup Undoing
  <2>1. \A t \in {ToConsume, ToConsumeAndFree, ToRestoreFirst, ToRestore, ToRestoreAndFree,
                 ToReverseLast} : t \in Recorded
    BY DEF Recorded
  <2>2. ToConsume \notin Owned \cup Sweeping \cup Labelling \cup Undoing
    BY <1>a, <1>1, <1>2, <1>3, <1>4, <1>5, <1>6 DEF Owned
  <2>3. ToRestoreFirst \notin Owned \cup Sweeping \cup Labelling \cup Undoing
    BY <1>a, <1>1, <1>2, <1>3, <1>4, <1>5, <1>6 DEF Owned
  <2>4. ToRestore \notin Owned \cup Sweeping \cup Labelling \cup Undoing
    BY <1>a, <1>1, <1>2, <1>3, <1>4, <1>5, <1>6 DEF Owned
  <2>5. ToReverseLast \notin Owned \cup Sweeping \cup Labelling \cup Undoing
    BY <1>a, <1>b, <1>1, <1>2, <1>3, <1>4, <1>5, <1>6, <1>8, ZenonT(60) DEF Owned
  <2>6. ToConsumeAndFree \notin Owned \cup Sweeping \cup Labelling \cup Undoing
    BY <1>a, <1>1, <1>2, <1>3, <1>4, <1>5, <1>6 DEF Owned
  <2>7. ToRestoreAndFree \notin Owned \cup Sweeping \cup Labelling \cup Undoing
    BY <1>a, <1>1, <1>2, <1>3, <1>4, <1>5, <1>6 DEF Owned
  <2> QED BY <2>1, <2>2, <2>3, <2>4, <2>5, <2>6, <2>7
<1> QED BY <1>10, <1>11, <1>12, <1>13, <1>14, <1>15, <1>16, <1>17, <1>18, <1>19, <1>20

\* Where they are met.
LEMMA Kept ==
  /\ Labelling \subseteq Recorded /\ Undoing \subseteq Recorded
  /\ Recorded \subseteq Plans /\ Owned \subseteq Plans /\ Sweeping \subseteq Plans
  /\ Plans \subseteq Seq(Steps)
<1>1. /\ Labelling \subseteq Recorded /\ Undoing \subseteq Recorded
      /\ Recorded \subseteq Plans /\ Owned \subseteq Plans /\ Sweeping \subseteq Plans
  BY DEF Plans, Owned, Loose, Closing, Recorded, Labelling, Undoing
<1>2. Issuing \subseteq Seq(Steps) /\ LettingGo \subseteq Seq(Steps)
  BY DEF Issuing, LettingGo, Steps, Transactions, ToReserve, ToReread, ToUnprice, ToReprice, ToUnhold,
         ToLetGo
<1>3. Closing \subseteq Seq(Steps)
  BY DEF Closing, Steps, Transactions, ToCancel, ToCancelAndFree, ToOverride, ToReset, ToHold,
         ToSettle, ToSettled, ToReverse, ToRefund
<1>4. Loose \subseteq Seq(Steps)
  BY DEF Loose, Sweeping, Steps, Transactions, ToSweep, ToPrice, ToRelease, ToDrop, ToRecord, ToPay,
         ToConsume, ToReturn, ToRestoreFirst, ToRestore, ToReverseLast, ToDebit, ToReleaseAndFree,
         ToConsumeAndFree, ToRestoreAndFree, ToFree, Done
<1> QED BY <1>1, <1>2, <1>3, <1>4 DEF Plans, Owned

-----------------------------------------------------------------------------
(* The invariant.                                                          *)

Todo(p) == proc[p].todo
Owner(p) == Todo(p) \in Owned
Held(ch) == On(ch, "reserved")
Used(ch) == On(ch, "consumed")
Entered(ch, n) == <<ch, n>> \in recorded

\* The number of a reservation is that of a pass that started.
Numbered ==
  /\ \A a \in allocs : a.n <= made
  /\ \A ch \in Charges, n \in 1..MaxStarts : Entered(ch, n) => n <= made
  /\ \A ch \in Charges : row[ch].gw <= made
  /\ \A p \in Procs : proc[p].gw <= made

\* What a process does it does to one charge, with what it read of it; unless the claim of
\* the charge was taken from its owner, it undoes only payments that are in the ledger.
Planned(p) ==
  /\ Todo(p) \in Plans
  /\ Todo(p) = Done => proc[p] = Free
  /\ Todo(p) # Done => proc[p].ch \in Charges
  /\ \A a \in proc[p].seen : a.ch = proc[p].ch
  /\ Todo(p) \in Sweeping => proc[p].gw = 0
  /\ At(p, "record") => proc[p].gw # 0
  /\ Todo(p) \in Recorded =>
       proc[p].ch \in unguarded \/ Entered(proc[p].ch, proc[p].gw)

\* The number of a pass at work is its own, and nothing bears it before the pass reserves.
Fresh(p) ==
  Todo(p) \in Issuing =>
    /\ proc[p].gw # 0
    /\ \A ch \in Charges : row[ch].gw # proc[p].gw /\ ~Entered(ch, proc[p].gw)
    /\ \A q \in Procs \ {p} : proc[q].gw # proc[p].gw
    /\ At(p, "reserve") => \A a \in allocs : a.n # proc[p].gw

\* A row that says it was paid has its payment in the ledger.
Ledger(ch) == row[ch].st = "paid" => Entered(ch, row[ch].gw)

\* The claim has one owner, who finds the charge's id as it read it, or none yet.
Claimed(ch) ==
  \A p \in Procs : proc[p].ch = ch /\ Owner(p) =>
    /\ row[ch].busy
    /\ \A q \in Procs \ {p} : proc[q].ch = ch => ~Owner(q)
    /\ Todo(p) \in Issuing \cup LettingGo => row[ch].gw = 0
    /\ Todo(p) \in Closing => row[ch].gw = proc[p].gw

\* Nothing is set aside once the payment is in the ledger; who is about to write about the
\* charge as it is saw all that is set aside; and who is about to issue it has on it the
\* discount of the price it will ask.
Watched(ch) ==
  /\ row[ch].gw # 0 /\ Entered(ch, row[ch].gw) => Held(ch) = {}
  /\ \A p \in Procs : proc[p].ch = ch =>
       /\ proc[p].open /\ (At(p, "reserve") \/ (row[ch].gw # 0 /\ row[ch].gw = proc[p].gw))
            => Held(ch) \subseteq proc[p].seen
       /\ At(p, "reread") =>
            /\ proc[p].price = Price => Held(ch) = {}
            /\ ch \notin late => /\ proc[p].price + Cents(Held(ch)) = Price
                                 /\ row[ch].cents = proc[p].price
                                 /\ \A a \in Used(ch) : a.n # proc[p].gw

\* Who comes to clear what is set aside on a charge.
Clears(p, ch) ==
  /\ proc[p].ch = ch
  /\ \/ /\ \E s \in {"reserve", "release", "consume", "restore"} : At(p, s)
        /\ proc[p].open => Held(ch) \subseteq proc[p].seen
     \/ Todo(p) \in Closing \cup Undoing \/ At(p, "reread") \/ At(p, "dropped")
\* On a charge that is not open nothing stays set aside.
Cleared(ch) ==
  row[ch].st # "pending" /\ Held(ch) # {} => \E p \in Procs : Clears(p, ch)

Outdated(p) == row[proc[p].ch].gw \notin {0, proc[p].gw}
\* Who comes to give back what was spent on a charge.
GivesBack(p, ch) ==
  /\ proc[p].ch = ch
  /\ \/ Todo(p) \in Undoing
     \/ At(p, "restore") /\ (proc[p].open => Used(ch) \subseteq proc[p].seen \/ Outdated(p))
\* On a refunded charge nothing stays spent; and if what was refunded is an earlier
\* emission, who gives its credit back has yet to find that the charge moved on.
GivenBack(ch) ==
  row[ch].st = "refunded" /\ ch \notin late =>
    /\ Used(ch) # {} => \E p \in Procs : GivesBack(p, ch)
    /\ row[ch].gw # 0 /\ ~Entered(ch, row[ch].gw) =>
         \E p \in Procs : proc[p].ch = ch /\ At(p, "restore") /\ Outdated(p)

Announced(ch) == \E p \in Procs : proc[p].ch = ch /\ Todo(p) \in Labelling /\ proc[p].gw = row[ch].gw
Overridden(ch) == \E p \in Procs : proc[p].ch = ch /\ At(p, "release") /\ proc[p].gw = row[ch].gw
\* What was asked and what is set aside make the price, until the payment is in the ledger
\* or while a price typed by hand still has its discount to release.
Backed(ch) ==
  row[ch].st = "pending" /\ row[ch].gw # 0 =>
    /\ Overridden(ch) => row[ch].asked = Price
    /\ ch \notin late =>
         /\ row[ch].cents = row[ch].asked
         /\ \/ Entered(ch, row[ch].gw) /\ Announced(ch)
            \/ /\ ~Entered(ch, row[ch].gw)
               /\ \A a \in Used(ch) : a.n # row[ch].gw
               /\ \/ row[ch].asked + Cents(Held(ch)) = Price
                  \/ row[ch].asked = Price /\ Overridden(ch)

\* All of it takes the claim to have one owner: once `finally` freed another's, nothing of it
\* is left to say of that charge.
Guarded(ch) == Ledger(ch) /\ Claimed(ch) /\ Watched(ch) /\ Cleared(ch) /\ GivenBack(ch) /\ Backed(ch)
Local(ch) == ch \in unguarded \/ Guarded(ch)

IInv ==
  /\ TypeOK /\ IsFiniteSet(allocs) /\ Conserved /\ CanceledStaysEmpty
  /\ Numbered /\ (\A p \in Procs : Planned(p) /\ Fresh(p))
  /\ \A ch \in Charges : Local(ch)

-----------------------------------------------------------------------------
(* What the steps of a process do to it.                                   *)

ProcsOK ==
  /\ proc \in [Procs -> Proc]
  /\ \A p \in Procs : proc[p].open => proc[p].todo # <<>> /\ Head(proc[p].todo) \in Transactions

\* p goes on to the plan u.
Turn(p, u) ==
  /\ \A q \in Procs \ {p} : proc'[q] = proc[q]
  /\ proc'[p].todo = u /\ proc'[p].open = FALSE /\ proc'[p].seen = {}
  /\ u = Done => proc'[p] = Free
  /\ u # Done => proc'[p].ch = proc[p].ch /\ proc'[p].gw = proc[p].gw

\* A free process is a process, and on no charge.
LEMMA Frees ==
  /\ Free \in Proc
  /\ Free.todo = Done /\ Free.ch = NoCharge /\ Free.open = FALSE /\ Free.seen = {} /\ Free.gw = 0
  /\ Free.snap \in [Credits -> Nat]
<1>1. MaxStarts \in Nat
  BY CreditAssumption DEF CreditAssumption
<1> QED BY <1>1 DEF Free, Proc, Done

\* A process that takes the plan u, at any price.
LEMMA Turns ==
  ASSUME ProcsOK, NEW p \in Procs, NEW u \in Seq(Steps), NEW pr \in Nat,
         \/ proc' = [proc EXCEPT ![p] = With(p, u)]
         \/ proc' = [proc EXCEPT ![p] = [With(p, u) EXCEPT !.price = pr]] /\ u # Done
  PROVE  Turn(p, u) /\ ProcsOK'
<1>1. proc \in [Procs -> Proc] /\ proc[p] \in Proc
  BY DEF ProcsOK
<1>2. CASE u = Done
  <2>1. proc' = [proc EXCEPT ![p] = Free]
    BY <1>2 DEF With, Done
  <2>2. Turn(p, u)
    BY <2>1, <1>1, <1>2, Frees DEF Turn
  <2>3. ProcsOK'
    BY <2>1, <1>1, Frees DEF ProcsOK
  <2> QED BY <2>2, <2>3
<1>3. CASE u # Done
  <2> DEFINE n == [proc[p] EXCEPT !.todo = u, !.open = FALSE, !.seen = {}, !.snap = Free.snap]
  <2>1. With(p, u) = n
    BY <1>3 DEF With, Done
  <2>2. /\ n \in Proc /\ n.todo = u /\ n.open = FALSE /\ n.seen = {}
        /\ n.ch = proc[p].ch /\ n.gw = proc[p].gw
    BY <1>1, Frees DEF Proc
  <2>3. /\ [n EXCEPT !.price = pr] \in Proc /\ [n EXCEPT !.price = pr].todo = u
        /\ [n EXCEPT !.price = pr].open = FALSE /\ [n EXCEPT !.price = pr].seen = {}
        /\ [n EXCEPT !.price = pr].ch = proc[p].ch /\ [n EXCEPT !.price = pr].gw = proc[p].gw
    BY <1>1, Frees DEF Proc
  <2> HIDE DEF n
  <2>4. PICK m \in Proc : /\ proc' = [proc EXCEPT ![p] = m]
                          /\ m.todo = u /\ m.open = FALSE /\ m.seen = {}
                          /\ m.ch = proc[p].ch /\ m.gw = proc[p].gw
    BY <2>1, <2>2, <2>3
  <2>5. Turn(p, u)
    BY <2>4, <1>1, <1>3 DEF Turn
  <2>6. ProcsOK'
    BY <2>4, <1>1 DEF ProcsOK
  <2> QED BY <2>5, <2>6
<1> QED BY <1>2, <1>3

\* What p does, it does to ch.
Elsewhere(p, ch) ==
  /\ proc[p].ch \in {ch, NoCharge} /\ proc'[p].ch \in {ch, NoCharge}
  /\ \A q \in Procs \ {p} : proc'[q] = proc[q]
  /\ \A d \in Charges \ {ch} :
       /\ row'[d] = row[d] /\ (d \in late' <=> d \in late)
       /\ (d \in unguarded' <=> d \in unguarded)
       /\ Held(d)' = Held(d) /\ Used(d)' = Used(d)
       /\ \A n \in 0..MaxStarts : Entered(d, n)' <=> Entered(d, n)

\* The other charges stay as they were.
LEMMA ElsewhereKept ==
  ASSUME row \in [Charges -> Row], NoCharge \notin Charges,
         NEW p \in Procs, NEW ch, Elsewhere(p, ch), NEW d \in Charges \ {ch}, Local(d)
  PROVE  Local(d)'
<1> SUFFICES ASSUME d \notin unguarded PROVE Guarded(d)'
  BY DEF Local, Elsewhere
<1>g. Guarded(d)
  BY DEF Local
<1>1. /\ row'[d] = row[d] /\ (d \in late' <=> d \in late)
      /\ Held(d)' = Held(d) /\ Used(d)' = Used(d)
      /\ \A n \in 0..MaxStarts : Entered(d, n)' <=> Entered(d, n)
      /\ row[d].gw \in 0..MaxStarts
  BY DEF Elsewhere, Row
<1>2. \A q \in Procs : /\ proc'[q].ch = d <=> proc[q].ch = d
                       /\ proc[q].ch = d => proc'[q] = proc[q] /\ q # p
  BY DEF Elsewhere
<1>3. Ledger(d)'
  BY <1>g, <1>1 DEF Ledger, Guarded
<1>4. Claimed(d)'
  BY <1>g, <1>1, <1>2 DEF Claimed, Guarded, Owner, Todo
<1>5. Watched(d)'
  BY <1>g, <1>1, <1>2 DEF Watched, Guarded, At
<1>6. Cleared(d)'
  <2>1. ASSUME NEW q \in Procs, Clears(q, d) PROVE Clears(q, d)'
    BY <2>1, <1>1, <1>2 DEF Clears, At, Todo
  <2> QED BY <1>g, <2>1, <1>1 DEF Cleared, Guarded
<1>7. GivenBack(d)'
  <2>1. ASSUME NEW q \in Procs, proc[q].ch = d PROVE Outdated(q)' <=> Outdated(q)
    BY <2>1, <1>1, <1>2 DEF Outdated
  <2>2. ASSUME NEW q \in Procs, GivesBack(q, d) PROVE GivesBack(q, d)'
    BY <2>1, <2>2, <1>1, <1>2 DEF GivesBack, At, Todo
  <2>3. ASSUME NEW q \in Procs, proc[q].ch = d, At(q, "restore") PROVE proc'[q].ch = d /\ At(q, "restore")'
    BY <2>3, <1>2 DEF At
  <2> QED BY <2>1, <2>2, <2>3, <1>g, <1>1 DEF GivenBack, Guarded
<1>8. Backed(d)'
  <2>1. Announced(d)' <=> Announced(d)
    BY <1>1, <1>2 DEF Announced, Todo
  <2>2. Overridden(d)' <=> Overridden(d)
    BY <1>1, <1>2 DEF Overridden, At
  <2> QED BY <2>1, <2>2, <1>g, <1>1 DEF Backed, Guarded
<1> QED BY <1>3, <1>4, <1>5, <1>6, <1>7, <1>8 DEF Guarded

-----------------------------------------------------------------------------
(* What it takes of a step of p for the charge it works on to stay as the   *)
(* invariant says.                                                         *)

Mine(p, ch) == proc[p].ch = ch

\* The claim keeps its owner: p writes about the charge as its owner, or leaves the claim alone.
LEMMA ClaimedKept ==
  ASSUME NEW p \in Procs, NEW ch, Claimed(ch),
         \A q \in Procs \ {p} : proc'[q] = proc[q],
         \/ Mine(p, ch) /\ Owner(p)
         \/ row'[ch].gw = row[ch].gw /\ (row'[ch].busy = row[ch].busy \/ ~row[ch].busy),
         Mine(p, ch)' /\ Owner(p)' =>
           /\ row'[ch].busy
           /\ ~row[ch].busy \/ (Mine(p, ch) /\ Owner(p))
           /\ Todo(p)' \in Issuing \cup LettingGo => row'[ch].gw = 0
           /\ Todo(p)' \in Closing => row'[ch].gw = proc'[p].gw
  PROVE  Claimed(ch)'
  BY DEF Claimed, Owner, Todo, Mine

\* What the others saw is still all that is set aside, or the charge is in late.
LEMMA WatchedKept ==
  ASSUME NEW p \in Procs, NEW ch, Watched(ch),
         \A q \in Procs \ {p} : proc'[q] = proc[q],
         Held(ch)' \subseteq Held(ch), ch \in late => ch \in late',
         row'[ch].gw # 0 /\ Entered(ch, row[ch].gw)' => Held(ch)' = {},
         \/ row'[ch].gw \in {0, row[ch].gw}
         \/ \A q \in Procs \ {p} : proc[q].gw # row'[ch].gw,
         Mine(p, ch)' /\ proc'[p].open => Held(ch)' \subseteq proc'[p].seen,
         ~At(p, "reread")',
         \/ Held(ch)' = Held(ch) /\ row'[ch].cents = row[ch].cents /\ Used(ch)' \subseteq Used(ch)
         \/ (\E q \in Procs \ {p} : Mine(q, ch) /\ At(q, "reread")) => ch \in late'
  PROVE  Watched(ch)'
<1>1. ASSUME NEW q \in Procs, proc'[q].ch = ch, proc'[q].open,
             At(q, "reserve")' \/ (row'[ch].gw # 0 /\ row'[ch].gw = proc'[q].gw)
      PROVE Held(ch)' \subseteq proc'[q].seen
  <2>1. CASE q = p
    BY <2>1, <1>1 DEF Mine
  <2>2. CASE q # p
    <3>1. proc'[q] = proc[q]
      BY <2>2
    <3>2. Held(ch) \subseteq proc[q].seen
      BY <3>1, <2>2, <1>1 DEF Watched, At
    <3> QED BY <3>1, <3>2
  <2> QED BY <2>1, <2>2
<1>2. ASSUME NEW q \in Procs, proc'[q].ch = ch, At(q, "reread")'
      PROVE  /\ proc'[q].price = Price => Held(ch)' = {}
             /\ ch \notin late' => /\ proc'[q].price + Cents(Held(ch))' = Price
                                   /\ row'[ch].cents = proc'[q].price
                                   /\ \A a \in Used(ch)' : a.n # proc'[q].gw
  <2>1. q # p /\ proc'[q] = proc[q] /\ At(q, "reread") /\ Mine(q, ch)
    BY <1>2 DEF At, Mine
  <2>2. /\ proc[q].price = Price => Held(ch) = {}
        /\ ch \notin late => /\ proc[q].price + Cents(Held(ch)) = Price
                             /\ row[ch].cents = proc[q].price
                             /\ \A a \in Used(ch) : a.n # proc[q].gw
    BY <2>1 DEF Watched, Mine
  <2>3. ch \notin late' => Held(ch)' = Held(ch) /\ row'[ch].cents = row[ch].cents /\ Used(ch)' \subseteq Used(ch)
    BY <2>1
  <2>4. Held(ch)' = Held(ch) => Cents(Held(ch))' = Cents(Held(ch))
    OBVIOUS
  <2> QED BY <2>1, <2>2, <2>3, <2>4
<1> QED BY <1>1, <1>2 DEF Watched

\* Who clears the charge is still there, unless it was p and nothing is left to clear.
LEMMA ClearedKept ==
  ASSUME NEW p \in Procs, NEW ch, Cleared(ch),
         \A q \in Procs \ {p} : proc'[q] = proc[q],
         Held(ch)' \subseteq Held(ch),
         \/ row'[ch].st = "pending"
         \/ Held(ch)' = {}
         \/ Clears(p, ch)'
         \/ row'[ch].st = row[ch].st /\ ~Clears(p, ch)
  PROVE  Cleared(ch)'
<1>1. ASSUME NEW q \in Procs \ {p}, Clears(q, ch) PROVE Clears(q, ch)'
  BY <1>1 DEF Clears, At, Todo
<1> QED BY <1>1 DEF Cleared

\* Who gives back what was spent is still there, unless it was p and nothing is left to give.
LEMMA GivenBackKept ==
  ASSUME NEW p \in Procs, NEW ch, GivenBack(ch),
         \A q \in Procs \ {p} : proc'[q] = proc[q],
         \/ row'[ch].st # "refunded" \/ ch \in late'
         \/ /\ Used(ch)' = {} \/ GivesBack(p, ch)'
            /\ \/ row'[ch].gw = 0 \/ Entered(ch, row[ch].gw)'
               \/ Mine(p, ch)' /\ At(p, "restore")' /\ Outdated(p)'
         \/ /\ row'[ch].st = row[ch].st /\ row'[ch].gw = row[ch].gw
            /\ ch \in late => ch \in late'
            /\ Entered(ch, row[ch].gw) => Entered(ch, row[ch].gw)'
            /\ Used(ch)' \subseteq Used(ch) /\ ~GivesBack(p, ch)
  PROVE  GivenBack(ch)'
<1>1. ASSUME NEW q \in Procs \ {p}, row'[ch].gw = row[ch].gw, Mine(q, ch)
      PROVE Outdated(q)' <=> Outdated(q)
  BY <1>1 DEF Outdated, Mine
<1>2. ASSUME NEW q \in Procs \ {p}, row'[ch].gw = row[ch].gw, Used(ch)' \subseteq Used(ch),
             GivesBack(q, ch)
      PROVE GivesBack(q, ch)'
  BY <1>1, <1>2 DEF GivesBack, At, Todo, Mine
<1>3. ~GivesBack(p, ch) => ~(Mine(p, ch) /\ At(p, "restore") /\ Outdated(p))
  BY DEF GivesBack, Mine
<1>4. ASSUME NEW q \in Procs \ {p}, At(q, "restore") PROVE At(q, "restore")'
  BY <1>4 DEF At
<1> QED BY <1>1, <1>2, <1>3, <1>4 DEF GivenBack, Mine

\* The step of one that has no part in the discount of the charge.
LEMMA BackedKept ==
  ASSUME NEW p \in Procs, NEW ch, Backed(ch),
         \A q \in Procs \ {p} : proc'[q] = proc[q],
         \/ row'[ch].st # "pending" \/ row'[ch].gw = 0
         \/ /\ row'[ch].st = row[ch].st /\ row'[ch].gw = row[ch].gw /\ row'[ch].asked = row[ch].asked
            /\ ~(Mine(p, ch)' /\ At(p, "release")' /\ proc'[p].gw = row[ch].gw)
            /\ \/ ch \in late'
               \/ /\ ch \in late => ch \in late'
                  /\ row'[ch].cents = row[ch].cents
                  /\ ~(Mine(p, ch) /\ Todo(p) \in Labelling /\ proc[p].gw = row[ch].gw)
                  /\ Entered(ch, row[ch].gw)' <=> Entered(ch, row[ch].gw)
                  /\ \/ Entered(ch, row[ch].gw)
                     \/ /\ Held(ch)' = Held(ch) /\ Used(ch)' \subseteq Used(ch)
                        /\ ~(Mine(p, ch) /\ At(p, "release") /\ proc[p].gw = row[ch].gw)
  PROVE  Backed(ch)'
<1> SUFFICES ASSUME row'[ch].st = "pending", row'[ch].gw # 0 PROVE Backed(ch)'
  BY DEF Backed
<1>1. row'[ch].gw = row[ch].gw /\ row[ch].st = "pending" /\ row'[ch].asked = row[ch].asked
  OBVIOUS
<1>2. Overridden(ch)' => Overridden(ch)
  BY <1>1 DEF Overridden, Mine, At
<1>3. Announced(ch) => Announced(ch)' \/ (Mine(p, ch) /\ Todo(p) \in Labelling /\ proc[p].gw = row[ch].gw)
  BY <1>1 DEF Announced, Mine, Todo
<1>4. Overridden(ch) => Overridden(ch)' \/ (Mine(p, ch) /\ At(p, "release") /\ proc[p].gw = row[ch].gw)
  BY <1>1 DEF Overridden, Mine, At
<1> QED BY <1>1, <1>2, <1>3, <1>4 DEF Backed

\* What the plan u asks of the step that leaves it.
Follows(p, u) ==
  /\ u \in Plans
  /\ u \in Issuing => /\ u = ToReread /\ Todo(p) \in Issuing
                       /\ recorded' = recorded /\ \A d \in Charges : row'[d].gw = row[d].gw
  /\ u \in Sweeping => Todo(p) \in Sweeping
  /\ u = Done \/ Head(u) # "record"
  /\ u \in Recorded =>
       proc[p].ch \in unguarded \/ <<proc[p].ch, proc[p].gw>> \in recorded'

\* What the step leaves of the numbers of passes.
SameNumbers(p) ==
  /\ made' = made
  /\ \A d \in Charges : row'[d].gw \in {row[d].gw, 0, proc[p].gw}
  /\ \A d \in Charges, n \in 1..MaxStarts :
       /\ Entered(d, n) => Entered(d, n)'
       /\ Entered(d, n)' => Entered(d, n) \/ n = proc[p].gw
  /\ \A a \in allocs' : a.n = proc[p].gw \/ \E b \in allocs : a.n = b.n

\* A step of p keeps the invariant when it keeps what is said of its own charge, touches no
\* other, and goes from one plan to the next.
LEMMA StepKept ==
  ASSUME CreditAssumption, IInv, NEW p \in Procs, Todo(p) # Done, NEW ch, ch = proc[p].ch,
         NEW u, Follows(p, u), Turn(p, u), SameNumbers(p), Elsewhere(p, ch), unguarded \subseteq unguarded',
         TypeOK', IsFiniteSet(allocs'), Conserved', CanceledStaysEmpty',
         Local(ch)'
  PROVE  IInv'
<1> USE DEF SameNumbers
<1>1. /\ TypeOK /\ Numbered /\ \A q \in Procs : Planned(q) /\ Fresh(q)
      /\ \A d \in Charges : Local(d)
  BY DEF IInv
<1>2. /\ proc \in [Procs -> Proc] /\ row \in [Charges -> Row] /\ MaxStarts \in Nat /\ made \in Nat
      /\ recorded \subseteq Charges \X (1..MaxStarts)
      /\ NoCharge \notin Charges /\ proc[p].gw \in 0..MaxStarts /\ \A d \in Charges : row[d].gw \in 0..MaxStarts
  BY <1>1, CreditAssumption DEF TypeOK, CreditAssumption, Proc, Row
<1>3. /\ proc[p].ch \in Charges
      /\ \A q \in Procs \ {p} : proc'[q] = proc[q]
      /\ proc'[p].todo = u /\ proc'[p].seen = {}
      /\ proc'[p].gw \in {0, proc[p].gw} /\ (u # Done => proc'[p].ch = proc[p].ch /\ proc'[p].gw = proc[p].gw)
      /\ u = Done => proc'[p] = Free
  BY <1>1, Frees DEF Turn, Planned, Todo
<1>4. Numbered'
  <2>1. \A a \in allocs' : a.n <= made'
    BY <1>1 DEF Numbered
  <2>2. \A d \in Charges, n \in 1..MaxStarts : Entered(d, n)' => n <= made'
    BY <1>1 DEF Numbered
  <2>3. \A d \in Charges : row'[d].gw <= made'
    BY <1>1, <1>2 DEF Numbered
  <2>4. \A q \in Procs : proc'[q].gw <= made'
    BY <1>1, <1>2, <1>3 DEF Numbered
  <2> QED BY <2>1, <2>2, <2>3, <2>4 DEF Numbered
<1>5. ASSUME NEW q \in Procs \ {p} PROVE Planned(q)' /\ Fresh(q)'
  <2>1. proc'[q] = proc[q] /\ proc[q].gw \in 0..MaxStarts
    BY <1>2, <1>3 DEF Proc
  <2>2. Entered(proc[q].ch, proc[q].gw) => proc[q].ch \in Charges /\ proc[q].gw \in 1..MaxStarts
    BY <1>2 DEF Entered
  <2>3. Entered(proc[q].ch, proc[q].gw) => Entered(proc[q].ch, proc[q].gw)'
    BY <2>1, <2>2
  <2>4. Planned(q)'
    BY <2>1, <2>3, <1>1 DEF Planned, Todo, At
  <2>5. ASSUME Todo(q) \in Issuing
        PROVE  /\ proc[q].gw # 0
               /\ \A d \in Charges : row'[d].gw # proc[q].gw /\ ~Entered(d, proc[q].gw)'
               /\ \A r \in Procs \ {q} : proc'[r].gw # proc[q].gw
               /\ At(q, "reserve") => \A a \in allocs' : a.n # proc[q].gw
    <3>1. /\ proc[q].gw # 0
          /\ \A d \in Charges : row[d].gw # proc[q].gw /\ ~Entered(d, proc[q].gw)
          /\ \A r \in Procs \ {q} : proc[r].gw # proc[q].gw
          /\ At(q, "reserve") => \A a \in allocs : a.n # proc[q].gw
      BY <2>5, <1>1 DEF Fresh
    <3>2. proc[q].gw \in 1..MaxStarts /\ proc[p].gw # proc[q].gw
      BY <3>1, <2>1
    <3>3. \A d \in Charges : row'[d].gw # proc[q].gw /\ ~Entered(d, proc[q].gw)'
      <4>1. \A d \in Charges : row'[d].gw # proc[q].gw
        BY <3>1, <3>2
      <4>2. \A d \in Charges : ~Entered(d, proc[q].gw)'
        BY <3>1, <3>2, <2>1
      <4> QED BY <4>1, <4>2
    <3>4. \A r \in Procs \ {q} : proc'[r].gw # proc[q].gw
      BY <3>1, <1>3
    <3>5. At(q, "reserve") => \A a \in allocs' : a.n # proc[q].gw
      BY <3>1, <3>2
    <3> QED BY <3>1, <3>3, <3>4, <3>5
  <2>6. Fresh(q)'
    BY <2>1, <2>5 DEF Fresh, Todo, At
  <2> QED BY <2>4, <2>6
<1>6. Planned(p)' /\ Fresh(p)'
  <2>1. Todo(p)' = u /\ u \in Plans
    BY <1>3 DEF Todo, Follows
  <2>2. Fresh(p)'
    <3> SUFFICES ASSUME u \in Issuing PROVE Fresh(p)'
      BY <2>1 DEF Fresh
    <3>1. /\ u = ToReread /\ Todo(p) \in Issuing
          /\ recorded' = recorded /\ \A d \in Charges : row'[d].gw = row[d].gw
      BY DEF Follows
    <3>2. u # Done /\ Head(u) # "reserve"
      BY <3>1, EachPlan DEF Begins
    <3>3. proc'[p].gw = proc[p].gw /\ ~At(p, "reserve")'
      BY <3>2, <1>3 DEF At
    <3> QED BY <3>1, <3>3, <1>1, <1>3 DEF Fresh, Entered
  <2>3. CASE u = Done
    <3>1. Done \notin Sweeping \cup Recorded
      BY Kinds
    <3>2. ~At(p, "record")'
      BY <1>3, <2>3 DEF At, Done
    <3> QED BY <2>1, <2>2, <2>3, <1>3, <3>1, <3>2 DEF Planned
  <2>4. CASE u # Done
    <3>1. u \in Sweeping => proc'[p].gw = 0
      BY <2>4, <1>1, <1>3 DEF Planned, Follows
    <3>2. ~At(p, "record")'
      BY <2>4, <1>3 DEF At, Follows
    <3>3. u \in Recorded => proc[p].ch \in unguarded' \/ Entered(proc[p].ch, proc[p].gw)'
      BY <2>4, <1>3 DEF Follows, Entered
    <3> QED BY <2>1, <2>2, <2>4, <1>3, <3>1, <3>2, <3>3 DEF Planned
  <2> QED BY <2>3, <2>4
<1>7. \A d \in Charges : Local(d)'
  <2>1. ASSUME NEW d \in Charges, d # ch PROVE Local(d)'
    <3>1. d \in Charges \ {ch} /\ Local(d)
      BY <2>1, <1>1
    <3> QED BY <3>1, <1>2, ElsewhereKept
  <2> QED BY <2>1
<1> QED BY <1>4, <1>5, <1>6, <1>7 DEF IInv

-----------------------------------------------------------------------------
(* The writes of one row.                                                  *)

\* Without a new allocation or payment, those of each charge stay.
LEMMA SameAllocs ==
  ASSUME allocs' = allocs, recorded' = recorded
  PROVE  \A d : /\ Held(d)' = Held(d) /\ Used(d)' = Used(d)
                /\ \A n : Entered(d, n)' <=> Entered(d, n)
  BY DEF Held, Used, On, Entered

\* Who comes too late, comes too late for its own charge.
LEMMA LateOnly ==
  ASSUME NEW p, NEW ch
  PROVE  TooLate(p, ch) \subseteq {ch} /\ SpentTooLate(p, ch) \subseteq {ch}
  BY DEF TooLate, SpentTooLate

\* What a process has to do, and its first step, after a step that writes it.
LEMMA Firsts ==
  ASSUME NEW p, NEW u, proc'[p].todo = u
  PROVE  /\ Todo(p)' = u
         /\ \A s : At(p, s)' <=> (u # Done /\ Head(u) = s)
  BY DEF Todo, At, Done

\* A step that writes only the row of the charge.
LEMMA RowKept ==
  ASSUME CreditAssumption, IInv, NEW p \in Procs, Todo(p) # Done, NEW ch, ch = proc[p].ch,
         NEW u, Follows(p, u), Turn(p, u), ProcsOK',
         NEW new \in Row, row' = [row EXCEPT ![ch] = new], new.gw \in {row[ch].gw, 0, proc[p].gw},
         late' = late \/ (\E A \in SUBSET {ch} : late' = late \cup A),
         UNCHANGED <<left, canceled, debited, allocs, recorded, refunded, made>>,
         unguarded' \in {unguarded, unguarded \cup {ch}},
         Local(ch)'
  PROVE  IInv'
<1>1. /\ TypeOK /\ ch \in Charges /\ MaxStarts \in Nat /\ NoCharge \notin Charges
  BY CreditAssumption DEF IInv, Planned, Todo, CreditAssumption
<1>2. TypeOK'
  BY <1>1 DEF TypeOK, ProcsOK
<1>3. IsFiniteSet(allocs') /\ Conserved' /\ CanceledStaysEmpty'
  BY DEF IInv, Conserved, CanceledStaysEmpty
<1>4. SameNumbers(p)
  BY <1>1, SameAllocs DEF SameNumbers, TypeOK
<1>5. Elsewhere(p, ch)
  <2>1. proc'[p].ch \in {ch, NoCharge}
    BY Frees DEF Turn
  <2> QED BY <2>1, <1>1, SameAllocs DEF Elsewhere, Turn, TypeOK
<1> QED BY <1>2, <1>3, <1>4, <1>5, StepKept

\* The label of a charge that is closed.
LEMMA LabelKept ==
  ASSUME CreditAssumption, IInv, NEW p \in Procs, Label(p)
  PROVE  IInv'
<1>0. PICK ch, u : ch = proc[p].ch /\ u = Tail(Todo(p))
  OBVIOUS
<1>1. PICK step \in {"cancel", "dropped", "settled", "refunded", "returned"} :
        Write(p, step, [row[ch] EXCEPT
          !.st = IF step \in {"cancel", "dropped"} THEN "canceled"
                 ELSE IF step = "settled" THEN "paid" ELSE "refunded",
          !.busy = step \in {"dropped", "returned"} /\ @])
  BY <1>0 DEF Label
<1> DEFINE new == [row[ch] EXCEPT
             !.st = IF step \in {"cancel", "dropped"} THEN "canceled"
                    ELSE IF step = "settled" THEN "paid" ELSE "refunded",
             !.busy = step \in {"dropped", "returned"} /\ @]
<1>2. /\ TypeOK /\ Planned(p) /\ ProcsOK /\ CreditAssumption
  BY DEF IInv, TypeOK, ProcsOK
<1>3. /\ Todo(p) \in Plans /\ Todo(p) # Done /\ Head(Todo(p)) = step /\ ch \in Charges
      /\ row[ch] \in Row
  BY <1>0, <1>1, <1>2 DEF Write, At, Planned, Todo, Done, TypeOK
<1>4. /\ step = "cancel" => Todo(p) \in {ToCancel, ToCancelAndFree} /\ u \in {ToRelease, ToReleaseAndFree}
      /\ step = "dropped" => Todo(p) = ToDrop /\ u = ToRelease
      /\ step = "settled" => Todo(p) = ToSettled /\ u = ToConsumeAndFree
      /\ step = "refunded" => Todo(p) = ToRefund /\ u = ToRestoreAndFree
      /\ step = "returned" => Todo(p) = ToReturn /\ u = ToRestoreFirst
  <2>1. /\ step = "cancel" => Todo(p) \in {ToCancel, ToCancelAndFree}
        /\ step = "dropped" => Todo(p) = ToDrop
        /\ step = "settled" => Todo(p) = ToSettled
        /\ step = "refunded" => Todo(p) = ToRefund
        /\ step = "returned" => Todo(p) = ToReturn
    BY <1>3, PlansBy
  <2>2. /\ Tail(ToCancel) = ToRelease /\ Tail(ToCancelAndFree) = ToReleaseAndFree
        /\ Tail(ToDrop) = ToRelease /\ Tail(ToSettled) = ToConsumeAndFree
        /\ Tail(ToRefund) = ToRestoreAndFree /\ Tail(ToReturn) = ToRestoreFirst
    BY EachPlan DEF Begins
  <2> QED BY <2>1, <2>2, <1>0
<1>5. /\ u \in {ToRelease, ToReleaseAndFree, ToConsumeAndFree, ToRestoreAndFree, ToRestoreFirst}
      /\ u \in Plans \ (Owned \cup Sweeping \cup Labelling) /\ u # Done
      /\ Head(u) \in {"release", "consume", "restore"}
      /\ u \in Recorded => Todo(p) \in Recorded
  <2>1. u \in {ToRelease, ToReleaseAndFree, ToConsumeAndFree, ToRestoreAndFree, ToRestoreFirst}
    BY <1>4
  <2>2. Head(u) \in {"release", "consume", "restore"} /\ u # Done
    <3>1. /\ Head(ToRelease) = "release" /\ Head(ToReleaseAndFree) = "release"
          /\ Head(ToConsumeAndFree) = "consume" /\ Head(ToRestoreAndFree) = "restore"
          /\ Head(ToRestoreFirst) = "restore"
          /\ ToRelease # Done /\ ToReleaseAndFree # Done /\ ToConsumeAndFree # Done
          /\ ToRestoreAndFree # Done /\ ToRestoreFirst # Done
      BY EachPlan DEF Begins
    <3> QED BY <2>1, <3>1
  <2>3. u \in Plans \ (Owned \cup Sweeping \cup Labelling)
    BY <2>1, Kinds, Kept DEF Plans, Loose
  <2>4. u \in Recorded => Todo(p) \in Recorded
    BY <1>4, Kinds, Kept
  <2> QED BY <2>1, <2>2, <2>3, <2>4
<1>6. /\ new \in Row /\ new.gw = row[ch].gw /\ new.cents = row[ch].cents /\ new.asked = row[ch].asked
      /\ new.st = IF step \in {"cancel", "dropped"} THEN "canceled"
                  ELSE IF step = "settled" THEN "paid" ELSE "refunded"
      /\ step \in {"dropped", "returned"} => new.busy = row[ch].busy
  BY <1>3 DEF Row
<1> HIDE DEF new
<1>7. /\ row' = [row EXCEPT ![ch] = new] /\ Turn(p, u) /\ ProcsOK' /\ late' = late
      /\ UNCHANGED <<left, canceled, debited, allocs, recorded, refunded, made, unguarded>>
  <2>1. Then(p, u) /\ row' = [row EXCEPT ![ch] = new] /\ late' = late
        /\ UNCHANGED <<left, canceled, debited, allocs, recorded, refunded, made, unguarded>>
    BY <1>0, <1>1 DEF Write, Advance, Todo, new
  <2>2. u \in Seq(Steps)
    BY <1>5, Kept
  <2> QED BY <2>1, <2>2, <1>2, Turns DEF Then
<1>8. /\ row'[ch] = new /\ proc'[p].ch = ch /\ proc'[p].gw = proc[p].gw /\ proc'[p].open = FALSE
      /\ Todo(p)' = u /\ (\A s : At(p, s)' <=> Head(u) = s)
      /\ \A q \in Procs \ {p} : proc'[q] = proc[q]
  BY Firsts, <1>0, <1>7, <1>5, <1>3, <1>2, ZenonT(60) DEF Turn, Todo, TypeOK
<1>9. Held(ch)' = Held(ch) /\ Used(ch)' = Used(ch) /\ \A n : Entered(ch, n)' <=> Entered(ch, n)
  BY <1>7, SameAllocs
<1>20. Follows(p, u)
  <2>1. u \in Plans \ Issuing /\ u \notin Sweeping
    BY <1>5 DEF Owned
  <2>2. Head(u) # "record"
    BY <1>5
  <2>3. u \in Recorded => ch \in unguarded \/ <<ch, proc[p].gw>> \in recorded'
    BY <1>0, <1>2, <1>5, <1>7 DEF Planned, Entered
  <2> QED BY <2>1, <2>2, <2>3, <1>0 DEF Follows
<1> SUFFICES ASSUME ch \notin unguarded PROVE Guarded(ch)'
  BY <1>0, <1>3, <1>6, <1>7, <1>20, RowKept DEF Local
<1>10. /\ Ledger(ch) /\ Claimed(ch) /\ Watched(ch) /\ Cleared(ch) /\ GivenBack(ch) /\ Backed(ch)
  BY <1>3 DEF IInv, Local, Guarded
<1>11. Todo(p) \in Recorded => Entered(ch, proc[p].gw)
  BY <1>0, <1>2 DEF Planned
<1>12. step \in {"cancel", "settled", "refunded"} => Todo(p) \in Closing /\ Owner(p) /\ row[ch].gw = proc[p].gw
  BY <1>0, <1>4, <1>10, Kinds DEF Claimed, Owner, Owned
<1>13. Todo(p) \in {ToSettled, ToRefund, ToReturn} => Entered(ch, proc[p].gw)
  BY <1>11, Kinds, Kept
<1>14. Ledger(ch)'
  <2>1. step = "settled" => Entered(ch, row[ch].gw)
    BY <1>4, <1>12, <1>13
  <2> QED BY <2>1, <1>6, <1>8, <1>9 DEF Ledger
<1>15. Claimed(ch)'
  <2>1. ~Owner(p)'
    BY <1>5, <1>8 DEF Owner
  <2>2. step \in {"dropped", "returned"} \/ (Mine(p, ch) /\ Owner(p))
    BY <1>0, <1>12 DEF Mine
  <2> QED BY <2>1, <2>2, <1>6, <1>8, <1>10, ClaimedKept
<1>16. Watched(ch)'
  <2>1. ~At(p, "reread")'
    BY <1>5, <1>8
  <2>2. row'[ch].gw # 0 /\ Entered(ch, row[ch].gw)' => Held(ch)' = {}
    BY <1>6, <1>8, <1>9, <1>10 DEF Watched
  <2> QED BY <2>1, <2>2, <1>6, <1>7, <1>8, <1>9, <1>10, WatchedKept
<1>17. Cleared(ch)'
  <2>1. Clears(p, ch)'
    BY <1>5, <1>8 DEF Clears
  <2> QED BY <2>1, <1>8, <1>9, <1>10, ClearedKept
<1>18. GivenBack(ch)'
  <2>1. CASE step \in {"cancel", "dropped", "settled"}
    BY <2>1, <1>6, <1>8, <1>10, GivenBackKept
  <2>2. CASE step \in {"refunded", "returned"}
    <3>1. At(p, "restore")'
      BY <2>2, <1>4, <1>8, EachPlan DEF Begins
    <3>2. GivesBack(p, ch)'
      BY <3>1, <1>8 DEF GivesBack
    <3>3. Entered(ch, proc[p].gw)
      BY <2>2, <1>4, <1>13
    <3>4. row'[ch].gw = 0 \/ Entered(ch, row[ch].gw)' \/ Outdated(p)'
      BY <3>3, <1>6, <1>8, <1>9 DEF Outdated
    <3> QED BY <3>1, <3>2, <3>4, <1>8, <1>10, GivenBackKept DEF Mine
  <2> QED BY <2>1, <2>2
<1>19. Backed(ch)'
  BY <1>6, <1>8 DEF Backed
<1> QED BY <1>14, <1>15, <1>16, <1>17, <1>18, <1>19 DEF Guarded

\* What the invariant says of a process at work and of its charge.
LEMMA Worker ==
  ASSUME CreditAssumption, IInv, NEW p \in Procs, Todo(p) # Done, NEW ch, ch = proc[p].ch
  PROVE  /\ TypeOK /\ ProcsOK /\ Planned(p) /\ Fresh(p)
         /\ Todo(p) \in Plans /\ proc[p] \in Proc /\ ch \in Charges /\ row[ch] \in Row
         /\ Mine(p, ch)
         /\ Todo(p) \in Recorded => ch \in unguarded \/ Entered(ch, proc[p].gw)
<1>1. /\ TypeOK /\ Todo(p) \in Plans /\ Planned(p) /\ Fresh(p) /\ ch \in Charges
  BY DEF IInv, Planned
<1>2. ProcsOK /\ proc[p] \in Proc /\ row[ch] \in Row
  BY <1>1 DEF TypeOK, ProcsOK
<1> QED BY <1>1, <1>2 DEF Planned, Mine

\* And, unless the claim of that charge was taken from its owner, what is said of the charge.
LEMMA Guarding ==
  ASSUME CreditAssumption, IInv, NEW p \in Procs, Todo(p) # Done, NEW ch, ch = proc[p].ch,
         ch \notin unguarded
  PROVE  /\ Ledger(ch) /\ Claimed(ch) /\ Watched(ch) /\ Cleared(ch) /\ GivenBack(ch) /\ Backed(ch)
         /\ Todo(p) \in Recorded => Entered(ch, proc[p].gw)
         /\ Todo(p) \in Closing => row[ch].gw = proc[p].gw
         /\ Todo(p) \in Issuing \cup LettingGo => row[ch].gw = 0
         /\ Owner(p) => \A q \in Procs \ {p} : Mine(q, ch) => ~Owner(q) /\ ~At(q, "reread")
<1>1. /\ TypeOK /\ Todo(p) \in Plans /\ Planned(p) /\ Fresh(p) /\ ch \in Charges
      /\ \A q \in Procs : Planned(q)
  BY DEF IInv, Planned
<1>2. Guarded(ch)
  BY <1>1 DEF IInv, Local
<1>3. ASSUME NEW q \in Procs, At(q, "reread") PROVE Owner(q)
  <2>1. Todo(q) \in Plans /\ Todo(q) # Done /\ Head(Todo(q)) = "reread"
    BY <1>1, <1>3 DEF Planned, At, Todo, Done
  <2> QED BY <2>1, PlansBy, Kinds DEF Owner, Owned
<1>4. Owner(p) => /\ Todo(p) \in Closing => row[ch].gw = proc[p].gw
                  /\ Todo(p) \in Issuing \cup LettingGo => row[ch].gw = 0
                  /\ \A q \in Procs \ {p} : Mine(q, ch) => ~Owner(q)
  BY <1>2 DEF Guarded, Claimed, Mine
<1>5. Todo(p) \in Recorded => Entered(ch, proc[p].gw)
  BY <1>1 DEF Planned
<1> QED BY <1>1, <1>2, <1>3, <1>4, <1>5 DEF Guarded, Mine, Owner, Owned

\* p went on to the plan u.
Went(p, ch, u) ==
  /\ Turn(p, u) /\ ProcsOK' /\ Todo(p)' = u /\ proc'[p].open = FALSE
  /\ \A s : At(p, s)' <=> (u # Done /\ Head(u) = s)
  /\ u # Done => Mine(p, ch)' /\ proc'[p].ch = ch /\ proc'[p].gw = proc[p].gw
  /\ \A q \in Procs \ {p} : proc'[q] = proc[q]

\* A process that goes on to the plan u.
LEMMA Turned ==
  ASSUME TypeOK, NEW p \in Procs, NEW ch, ch = proc[p].ch, NEW u \in Plans, NEW pr \in Nat,
         \/ proc' = [proc EXCEPT ![p] = With(p, u)]
         \/ proc' = [proc EXCEPT ![p] = [With(p, u) EXCEPT !.price = pr]] /\ u # Done
  PROVE  Went(p, ch, u)
<1>1. ProcsOK /\ u \in Seq(Steps)
  BY Kept DEF TypeOK, ProcsOK
<1>2. Turn(p, u) /\ ProcsOK'
  BY <1>1, Turns
<1> QED BY <1>2, Firsts DEF Turn, Mine, Went

\* p wrote new on the row of ch and went on to the plan u.
Wrote(p, ch, u, new) ==
  /\ Went(p, ch, u)
  /\ row' = [row EXCEPT ![ch] = new] /\ row'[ch] = new
  /\ UNCHANGED <<left, canceled, debited, allocs, recorded, refunded, made, unguarded>>
  /\ Held(ch)' = Held(ch) /\ Used(ch)' = Used(ch)
  /\ \A n : Entered(ch, n)' <=> Entered(ch, n)

\* A write by id: the row, the next plan, and nothing else.
LEMMA Written ==
  ASSUME TypeOK, NEW p \in Procs, NEW ch \in Charges, ch = proc[p].ch,
         NEW u \in Plans, u = Tail(Todo(p)), NEW step, NEW new \in Row, Write(p, step, new)
  PROVE  /\ Wrote(p, ch, u, new)
         /\ late' = IF step = "price" THEN late \cup TooLate(p, ch) ELSE late
<1>1. /\ row' = [row EXCEPT ![ch] = new]
      /\ late' = IF step = "price" THEN late \cup TooLate(p, ch) ELSE late
      /\ UNCHANGED <<left, canceled, debited, allocs, recorded, refunded, made, unguarded>>
      /\ proc' = [proc EXCEPT ![p] = With(p, u)]
  BY DEF Write, Advance, Then, Todo
<1>2. row'[ch] = new
  BY <1>1 DEF TypeOK
<1> QED BY <1>1, <1>2, Turned, SameAllocs DEF Wrote

\* The price typed by hand: from then on the release finds who asked the full price.
LEMMA OverrideKept ==
  ASSUME CreditAssumption, IInv, NEW p \in Procs, Override(p)
  PROVE  IInv'
<1>0. PICK ch, u, new : /\ ch = proc[p].ch /\ u = Tail(Todo(p))
                        /\ new = [row[ch] EXCEPT !.cents = Price, !.asked = Price, !.busy = FALSE]
  OBVIOUS
<1>1. Write(p, "override", new) /\ Todo(p) # Done /\ Head(Todo(p)) = "override"
  BY <1>0 DEF Override, Write, At, Todo, Done
<1>2. /\ TypeOK /\ ch \in Charges /\ row[ch] \in Row /\ Todo(p) \in Plans /\ Mine(p, ch)
  BY <1>0, <1>1, Worker
<1>3. Todo(p) = ToOverride /\ u = ToReleaseAndFree
  BY <1>0, <1>1, <1>2, PlansBy, EachPlan DEF Begins
<1>4. Owner(p) /\ Todo(p) \in Closing /\ Todo(p) \notin Undoing \cup Labelling
  BY <1>3, Kinds, Kept DEF Owner, Owned
<1>5. /\ u \in Plans \ (Owned \cup Sweeping \cup Recorded) /\ u # Done /\ Head(u) = "release"
  BY <1>3, Kinds, EachPlan DEF Begins, Plans, Loose
<1>6. /\ new \in Row /\ new.st = row[ch].st /\ new.gw = row[ch].gw
      /\ new.cents = Price /\ new.asked = Price
  BY <1>0, <1>2, CreditAssumption DEF Row, CreditAssumption
<1>7. /\ Turn(p, u) /\ ProcsOK' /\ Todo(p)' = u /\ proc'[p].open = FALSE
      /\ \A s : At(p, s)' <=> Head(u) = s
      /\ Mine(p, ch)' /\ proc'[p].ch = ch /\ proc'[p].gw = proc[p].gw
      /\ \A q \in Procs \ {p} : proc'[q] = proc[q]
      /\ row' = [row EXCEPT ![ch] = new] /\ row'[ch] = new /\ late' = late
      /\ UNCHANGED <<left, canceled, debited, allocs, recorded, refunded, made, unguarded>>
      /\ Held(ch)' = Held(ch) /\ Used(ch)' = Used(ch)
      /\ \A n : Entered(ch, n)' <=> Entered(ch, n)
  <2>1. u \in Plans
    BY <1>5
  <2>2. Wrote(p, ch, u, new)
    BY <2>1, <1>0, <1>1, <1>2, <1>6, Written
  <2>3. late' = late
    BY <2>1, <2>2, <1>0, <1>1, <1>2, <1>6, Written, ZenonT(60)
  <2> QED BY <2>2, <2>3, <1>5 DEF Wrote, Went
<1>a. Follows(p, u)
  BY <1>5 DEF Follows, Owned
<1> SUFFICES ASSUME ch \notin unguarded PROVE Guarded(ch)'
  BY <1>0, <1>1, <1>2, <1>6, <1>7, <1>a, RowKept DEF Local
<1>g. /\ Ledger(ch) /\ Claimed(ch) /\ Watched(ch) /\ Cleared(ch) /\ GivenBack(ch) /\ Backed(ch)
      /\ row[ch].gw = proc[p].gw
      /\ \A q \in Procs \ {p} : Mine(q, ch) => ~Owner(q) /\ ~At(q, "reread")
  BY <1>0, <1>1, <1>4, Guarding
<1>8. Ledger(ch)'
  BY <1>2, <1>g, <1>6, <1>7 DEF Ledger
<1>9. Claimed(ch)'
  <2>1. ~Owner(p)'
    BY <1>5, <1>7 DEF Owner
  <2> QED BY <2>1, <1>2, <1>g, <1>4, <1>7, ClaimedKept
<1>10. Watched(ch)'
  <2>1. row'[ch].gw # 0 /\ Entered(ch, row[ch].gw)' => Held(ch)' = {}
    BY <1>2, <1>g, <1>6, <1>7 DEF Watched
  <2> QED BY <2>1, <1>2, <1>g, <1>4, <1>5, <1>6, <1>7, WatchedKept
<1>11. Cleared(ch)'
  <2>1. Clears(p, ch)'
    BY <1>5, <1>7 DEF Clears
  <2> QED BY <2>1, <1>2, <1>g, <1>7, ClearedKept
<1>12. GivenBack(ch)'
  <2>1. ~GivesBack(p, ch)
    BY <1>1, <1>4 DEF GivesBack, At, Todo
  <2> QED BY <2>1, <1>2, <1>g, <1>6, <1>7, GivenBackKept
<1>13. Backed(ch)'
  <2> SUFFICES ASSUME row[ch].st = "pending", row[ch].gw # 0, ch \notin late
               PROVE  \/ Entered(ch, row[ch].gw) /\ Announced(ch)'
                      \/ /\ ~Entered(ch, row[ch].gw)
                         /\ \A a \in Used(ch) : a.n # row[ch].gw
                         /\ Overridden(ch)'
    BY <1>6, <1>7 DEF Backed
  <2>1. Overridden(ch)'
    BY <1>g, <1>5, <1>6, <1>7 DEF Overridden
  <2>2. Announced(ch) => Announced(ch)'
    BY <1>4, <1>6, <1>7 DEF Announced, Todo
  <2> QED BY <2>1, <2>2, <1>2, <1>g DEF Backed
<1> QED BY <1>8, <1>9, <1>10, <1>11, <1>12, <1>13 DEF Guarded

\* The price without credit, written by who holds the claim, or by the sweep, which may be late.
LEMMA FullPriceKept ==
  ASSUME CreditAssumption, IInv, NEW p \in Procs, FullPrice(p)
  PROVE  IInv'
<1>0. PICK ch, u, new : /\ ch = proc[p].ch /\ u = Tail(Todo(p))
                        /\ new = [row[ch] EXCEPT !.cents = proc[p].price]
  OBVIOUS
<1>1. Write(p, "price", new) /\ Todo(p) # Done /\ Head(Todo(p)) = "price"
  BY <1>0 DEF FullPrice, Write, At, Todo, Done
<1>2. /\ TypeOK /\ ch \in Charges /\ row[ch] \in Row /\ proc[p] \in Proc /\ Todo(p) \in Plans /\ Mine(p, ch)
      /\ Planned(p)
  BY <1>0, <1>1, Worker
<1>3. \/ Todo(p) = ToReprice /\ u = ToLetGo
      \/ Todo(p) = ToPrice /\ u = Done
  BY <1>0, <1>1, <1>2, PlansBy, EachPlan DEF Begins
<1>4. /\ Todo(p) \notin Closing \cup Undoing \cup Labelling
      /\ \/ Owner(p) /\ Todo(p) \in LettingGo
         \/ u = Done /\ proc[p].gw = 0
  <2>1. CASE Todo(p) = ToReprice
    BY <2>1, <1>2, Kinds, Kept DEF Owner, Owned
  <2>2. CASE Todo(p) = ToPrice
    BY <2>2, <1>2, <1>3, Kinds, Kept, EachPlan DEF Owned, Planned, Begins
  <2> QED BY <2>1, <2>2, <1>3
<1>5. /\ u \in Plans \ (Issuing \cup Closing \cup Sweeping \cup Recorded)
      /\ u # Done => Head(u) = "unclaim" /\ Todo(p) = ToReprice
  BY <1>3, Kinds, EachPlan, ZenonT(60) DEF Begins, Plans, Owned, LettingGo, Loose
<1>6. /\ new \in Row /\ new.st = row[ch].st /\ new.gw = row[ch].gw /\ new.asked = row[ch].asked
      /\ new.busy = row[ch].busy
  BY <1>0, <1>2 DEF Row, Proc
<1>7. /\ Turn(p, u) /\ ProcsOK' /\ Todo(p)' = u /\ proc'[p].open = FALSE
      /\ \A s : At(p, s)' <=> (u # Done /\ Head(u) = s)
      /\ \A q \in Procs \ {p} : proc'[q] = proc[q]
      /\ row' = [row EXCEPT ![ch] = new] /\ row'[ch] = new /\ late' = late \cup TooLate(p, ch)
      /\ UNCHANGED <<left, canceled, debited, allocs, recorded, refunded, made, unguarded>>
      /\ Held(ch)' = Held(ch) /\ Used(ch)' = Used(ch)
      /\ \A n : Entered(ch, n)' <=> Entered(ch, n)
  <2>1. u \in Plans
    BY <1>5
  <2>2. Wrote(p, ch, u, new)
    BY <2>1, <1>0, <1>1, <1>2, <1>6, Written
  <2>3. late' = late \cup TooLate(p, ch)
    BY <2>1, <2>2, <1>0, <1>1, <1>2, <1>6, Written
  <2> QED BY <2>2, <2>3 DEF Wrote, Went
<1>a. Follows(p, u) /\ \E A \in SUBSET {ch} : late' = late \cup A
  BY <1>5, <1>7, LateOnly DEF Follows
<1> SUFFICES ASSUME ch \notin unguarded PROVE Guarded(ch)'
  BY <1>0, <1>1, <1>2, <1>6, <1>7, <1>a, RowKept, ZenonT(60) DEF Local
<1>g. /\ Ledger(ch) /\ Claimed(ch) /\ Watched(ch) /\ Cleared(ch) /\ GivenBack(ch) /\ Backed(ch)
      /\ Owner(p) => row[ch].gw = 0
      /\ Owner(p) => \A q \in Procs \ {p} : Mine(q, ch) => ~Owner(q) /\ ~At(q, "reread")
  <2>1. /\ Ledger(ch) /\ Claimed(ch) /\ Watched(ch) /\ Cleared(ch) /\ GivenBack(ch) /\ Backed(ch)
        /\ Todo(p) \in Issuing \cup LettingGo => row[ch].gw = 0
        /\ Owner(p) => \A q \in Procs \ {p} : Mine(q, ch) => ~Owner(q) /\ ~At(q, "reread")
    BY <1>0, <1>1, Guarding
  <2>2. Owner(p) => Todo(p) \in Issuing \cup LettingGo
    BY <1>4 DEF Owner, Owned
  <2> QED BY <2>1, <2>2
<1>8. Ledger(ch)'
  BY <1>2, <1>g, <1>6, <1>7 DEF Ledger
<1>9. Claimed(ch)'
  <2>1. Owner(p)' => Owner(p) /\ row[ch].gw = 0
    BY <1>g, <1>3, <1>4, <1>7, Kinds DEF Owner, Owned
  <2>2. Owner(p) => row[ch].busy
    BY <1>2, <1>g DEF Claimed, Mine
  <2> QED BY <2>1, <2>2, <1>2, <1>g, <1>4, <1>5, <1>6, <1>7, ClaimedKept DEF Owner, Todo
<1>10. Watched(ch)'
  <2>1. row'[ch].gw # 0 /\ Entered(ch, row[ch].gw)' => Held(ch)' = {}
    BY <1>2, <1>g, <1>6, <1>7 DEF Watched
  <2>2. ~At(p, "reread")'
    BY <1>5, <1>7
  <2>3. (\E q \in Procs \ {p} : Mine(q, ch) /\ At(q, "reread")) => ch \in late'
    <3>1. CASE Owner(p)
      BY <3>1, <1>2, <1>g
    <3>2. ASSUME NEW q \in Procs \ {p}, Mine(q, ch), At(q, "reread") PROVE ch \in late'
      BY <3>2, <1>7 DEF TooLate, Mine
    <3> QED BY <3>1, <3>2
  <2> QED BY <2>1, <2>2, <2>3, <1>2, <1>g, <1>6, <1>7, WatchedKept
<1>11. ~Clears(p, ch) /\ ~GivesBack(p, ch) /\ ~At(p, "release")
  BY <1>1, <1>4 DEF Clears, GivesBack, At, Todo
<1>12. Cleared(ch)' /\ GivenBack(ch)'
  BY <1>2, <1>g, <1>6, <1>7, <1>11, ClearedKept, GivenBackKept
<1>13. Backed(ch)'
  <2>1. row[ch].gw = 0 \/ ch \in late'
    BY <1>g, <1>0, <1>4, <1>7 DEF TooLate
  <2>2. ~At(p, "release")'
    BY <1>5, <1>7
  <2> QED BY <2>1, <2>2, <1>2, <1>g, <1>6, <1>7, BackedKept
<1> QED BY <1>8, <1>9, <1>10, <1>12, <1>13 DEF Guarded

\* The end of a pass that issued nothing.
LEMMA LetGoKept ==
  ASSUME CreditAssumption, IInv, NEW p \in Procs, LetGo(p)
  PROVE  IInv'
<1>0. PICK ch, u, new : /\ ch = proc[p].ch /\ u = Tail(Todo(p))
                        /\ new = [row[ch] EXCEPT !.busy = FALSE]
  OBVIOUS
<1>1. Write(p, "unclaim", new) /\ Todo(p) # Done /\ Head(Todo(p)) = "unclaim"
  BY <1>0 DEF LetGo, Write, At, Todo, Done
<1>2. /\ TypeOK /\ ch \in Charges /\ row[ch] \in Row /\ Todo(p) \in Plans /\ Mine(p, ch)
  BY <1>0, <1>1, Worker
<1>3. Todo(p) = ToLetGo /\ u = Done
  BY <1>0, <1>1, <1>2, PlansBy, EachPlan DEF Begins
<1>4. Owner(p) /\ Todo(p) \in LettingGo /\ Todo(p) \notin Closing \cup Undoing
  BY <1>2, <1>3, Kinds, Kept DEF Owner, Owned
<1>5. u \in Plans \ (Owned \cup Sweeping \cup Recorded)
  BY <1>3, Kinds DEF Plans, Loose
<1>6. /\ new \in Row /\ new.st = row[ch].st /\ new.gw = row[ch].gw /\ new.cents = row[ch].cents
  BY <1>0, <1>2 DEF Row
<1>7. /\ Turn(p, u) /\ ProcsOK' /\ Todo(p)' = u /\ proc'[p].open = FALSE
      /\ \A s : ~At(p, s)'
      /\ \A q \in Procs \ {p} : proc'[q] = proc[q]
      /\ row' = [row EXCEPT ![ch] = new] /\ row'[ch] = new /\ late' = late
      /\ UNCHANGED <<left, canceled, debited, allocs, recorded, refunded, made, unguarded>>
      /\ Held(ch)' = Held(ch) /\ Used(ch)' = Used(ch)
      /\ \A n : Entered(ch, n)' <=> Entered(ch, n)
  <2>1. u \in Plans
    BY <1>5
  <2>2. Wrote(p, ch, u, new)
    BY <2>1, <1>0, <1>1, <1>2, <1>6, Written
  <2>3. late' = late
    BY <2>1, <2>2, <1>0, <1>1, <1>2, <1>6, Written
  <2> QED BY <2>2, <2>3, <1>3 DEF Wrote, Went
<1>a. Follows(p, u)
  BY <1>3, <1>5 DEF Follows, Owned
<1> SUFFICES ASSUME ch \notin unguarded PROVE Guarded(ch)'
  BY <1>0, <1>1, <1>2, <1>6, <1>7, <1>a, RowKept DEF Local
<1>g. /\ Ledger(ch) /\ Claimed(ch) /\ Watched(ch) /\ Cleared(ch) /\ GivenBack(ch) /\ Backed(ch)
      /\ row[ch].gw = 0
  BY <1>0, <1>1, <1>4, Guarding
<1>8. Ledger(ch)'
  BY <1>2, <1>g, <1>6, <1>7 DEF Ledger
<1>9. Claimed(ch)'
  <2>1. ~Owner(p)'
    BY <1>5, <1>7 DEF Owner
  <2> QED BY <2>1, <1>2, <1>g, <1>4, <1>7, ClaimedKept
<1>10. Watched(ch)'
  BY <1>2, <1>g, <1>4, <1>6, <1>7, WatchedKept
<1>11. ~Clears(p, ch) /\ ~GivesBack(p, ch)
  BY <1>1, <1>4 DEF Clears, GivesBack, At, Todo
<1>12. Cleared(ch)' /\ GivenBack(ch)'
  BY <1>2, <1>g, <1>6, <1>7, <1>11, ClearedKept, GivenBackKept
<1>13. Backed(ch)'
  BY <1>g, <1>6, <1>7 DEF Backed
<1> QED BY <1>8, <1>9, <1>10, <1>12, <1>13 DEF Guarded

\* Who finds another pass's id in place of the one it read lets the row be: that takes the
\* claim to have been taken from it.
LEMMA NotResetKept ==
  ASSUME CreditAssumption, IInv, NEW p \in Procs, At(p, "reset") \/ At(p, "hold"),
         row[proc[p].ch].gw # proc[p].gw, Then(p, <<"unclaim">>),
         UNCHANGED <<left, canceled, debited, allocs, row, recorded, refunded, made, late, unguarded>>
  PROVE  IInv'
<1>0. PICK ch, new : ch = proc[p].ch /\ new = row[ch]
  OBVIOUS
<1>1. Todo(p) # Done /\ Head(Todo(p)) \in {"reset", "hold"}
  BY DEF At, Todo, Done
<1>2. /\ TypeOK /\ ch \in Charges /\ row[ch] \in Row /\ Todo(p) \in Plans
  BY <1>0, <1>1, Worker
<1>3. Todo(p) \in Closing
  BY <1>1, <1>2, PlansBy, Kinds, SMTT(30)
<1>4. ch \in unguarded
  <2> SUFFICES ASSUME ch \notin unguarded PROVE FALSE
    OBVIOUS
  <2> QED BY <1>0, <1>1, <1>3, Guarding
<1>5. /\ ToLetGo \in Plans \ (Issuing \cup Sweeping \cup Recorded) /\ Head(ToLetGo) = "unclaim"
  BY Kinds, Kept, EachPlan DEF Begins, Owned, Plans
<1>6. Follows(p, ToLetGo)
  BY <1>5 DEF Follows
<1>7. Turn(p, ToLetGo) /\ ProcsOK'
  <2>1. 0 \in Nat /\ ToLetGo \in Plans /\ proc' = [proc EXCEPT ![p] = With(p, ToLetGo)]
    BY <1>5 DEF Then, ToLetGo
  <2>2. Went(p, ch, ToLetGo)
    BY <2>1, <1>0, <1>2, Turned
  <2> QED BY <2>2 DEF Went
<1>8. row' = [row EXCEPT ![ch] = new] /\ Local(ch)'
  BY <1>0, <1>2, <1>4 DEF TypeOK, Local
<1> QED BY <1>0, <1>1, <1>2, <1>6, <1>7, <1>8, RowKept

\* The reset of a charge: it is not issued, so its discount backs nothing.
LEMMA ResetKept ==
  ASSUME CreditAssumption, IInv, NEW p \in Procs, Reset(p)
  PROVE  IInv'
<1>0. PICK ch, u : ch = proc[p].ch /\ u = Tail(Todo(p))
  OBVIOUS
<1> SUFFICES ASSUME \E step \in {"reset", "hold"} :
                      Write(p, step, [row[ch] EXCEPT !.st = "pending", !.gw = 0, !.cents = Price,
                                                     !.asked = 0, !.busy = step = "hold"])
             PROVE  IInv'
  BY <1>0, NotResetKept DEF Reset
<1>1. PICK step \in {"reset", "hold"} :
        \E new : /\ new = [row[ch] EXCEPT !.st = "pending", !.gw = 0, !.cents = Price, !.asked = 0,
                                          !.busy = step = "hold"]
                 /\ Write(p, step, new) /\ Todo(p) # Done /\ Head(Todo(p)) = step
  BY <1>0 DEF Write, At, Todo, Done
<1>a. PICK new : /\ new = [row[ch] EXCEPT !.st = "pending", !.gw = 0, !.cents = Price, !.asked = 0,
                                          !.busy = step = "hold"]
                 /\ Write(p, step, new) /\ Todo(p) # Done /\ Head(Todo(p)) = step
  BY <1>1
<1>2. /\ TypeOK /\ ch \in Charges /\ row[ch] \in Row /\ Todo(p) \in Plans /\ Mine(p, ch)
  BY <1>0, <1>a, Worker
<1>3. \/ step = "reset" /\ Todo(p) = ToReset /\ u = ToRelease
      \/ step = "hold" /\ Todo(p) = ToHold /\ u = ToUnhold
  BY <1>0, <1>a, <1>2, PlansBy, EachPlan DEF Begins
<1>4. Owner(p)
  <2>1. Todo(p) \in Closing
    BY <1>3, Kinds
  <2> QED BY <2>1 DEF Owner, Owned
<1>5. /\ u \in Plans \ (Issuing \cup Closing \cup Sweeping \cup Recorded)
      /\ step = "reset" => u \notin Owned
      /\ u # Done /\ Head(u) = "release"
  <2>1. CASE step = "reset" /\ u = ToRelease
    <3>1. u \notin Owned \cup Sweeping \cup Recorded
      BY <2>1, Kinds
    <3>2. u \in Plans /\ u # Done /\ Head(u) = "release"
      BY <2>1, EachPlan DEF Begins, Plans, Loose
    <3> QED BY <3>1, <3>2 DEF Owned
  <2>2. CASE step = "hold" /\ u = ToUnhold
    <3>1. u \in LettingGo /\ u \notin Issuing \cup Closing \cup Sweeping \cup Recorded
      BY <2>2, Kinds
    <3>2. u # Done /\ Head(u) = "release"
      BY <2>2, EachPlan DEF Begins
    <3> QED BY <2>2, <3>1, <3>2 DEF Plans, Owned
  <2> QED BY <1>3, <2>1, <2>2
<1>6. /\ new \in Row /\ new.st = "pending" /\ new.gw = 0
      /\ step = "hold" => new.busy
  <2>0. Price \in Nat /\ 0 \in 0..MaxStarts
    BY CreditAssumption DEF CreditAssumption
  <2>1. CASE step = "hold"
    <3>1. new = [row[ch] EXCEPT !.st = "pending", !.gw = 0, !.cents = Price, !.asked = 0, !.busy = TRUE]
      BY <2>1, <1>a
    <3>2. new.busy = TRUE /\ new.st = "pending" /\ new.gw = 0
      BY <3>1, <1>2 DEF Row
    <3>3. new \in Row
      BY <3>1, <2>0, <1>2 DEF Row
    <3> QED BY <3>2, <3>3
  <2>2. CASE step = "reset"
    <3>1. new = [row[ch] EXCEPT !.st = "pending", !.gw = 0, !.cents = Price, !.asked = 0, !.busy = FALSE]
      BY <2>2, <1>a
    <3>2. new.st = "pending" /\ new.gw = 0
      BY <3>1, <1>2 DEF Row
    <3>3. new \in Row
      BY <3>1, <2>0, <1>2 DEF Row
    <3> QED BY <2>2, <3>2, <3>3
  <2> QED BY <2>1, <2>2
<1>7. /\ Turn(p, u) /\ ProcsOK' /\ Todo(p)' = u /\ proc'[p].open = FALSE
      /\ \A s : At(p, s)' <=> Head(u) = s
      /\ \A q \in Procs \ {p} : proc'[q] = proc[q]
      /\ row' = [row EXCEPT ![ch] = new] /\ row'[ch] = new /\ late' = late
      /\ UNCHANGED <<left, canceled, debited, allocs, recorded, refunded, made, unguarded>>
      /\ Held(ch)' = Held(ch) /\ Used(ch)' = Used(ch)
      /\ \A n : Entered(ch, n)' <=> Entered(ch, n)
  <2>1. u \in Plans
    BY <1>5
  <2>2. Wrote(p, ch, u, new)
    BY <2>1, <1>0, <1>a, <1>2, <1>6, Written
  <2>3. late' = late
    BY <2>1, <2>2, <1>0, <1>a, <1>2, <1>6, Written
  <2> QED BY <2>2, <2>3, <1>5 DEF Wrote, Went
<1>b. Follows(p, u)
  BY <1>5 DEF Follows
<1> SUFFICES ASSUME ch \notin unguarded PROVE Guarded(ch)'
  BY <1>0, <1>a, <1>2, <1>6, <1>7, <1>b, RowKept DEF Local
<1>g. /\ Ledger(ch) /\ Claimed(ch) /\ Watched(ch) /\ Cleared(ch) /\ GivenBack(ch) /\ Backed(ch)
      /\ \A q \in Procs \ {p} : Mine(q, ch) => ~Owner(q) /\ ~At(q, "reread")
  BY <1>0, <1>a, <1>4, Guarding
<1>8. Ledger(ch)' /\ Cleared(ch)' /\ GivenBack(ch)' /\ Backed(ch)'
  BY <1>6, <1>7 DEF Ledger, Cleared, GivenBack, Backed
<1>9. Claimed(ch)'
  <2>1. Owner(p)' => step = "hold"
    BY <1>5, <1>7 DEF Owner
  <2> QED BY <2>1, <1>2, <1>g, <1>4, <1>5, <1>6, <1>7, ClaimedKept
<1>10. Watched(ch)'
  BY <1>2, <1>g, <1>4, <1>5, <1>6, <1>7, WatchedKept
<1> QED BY <1>8, <1>9, <1>10 DEF Guarded

\* The webhook closes the row: the payment is in the ledger, so nothing is set aside.
LEMMA PaidKept ==
  ASSUME CreditAssumption, IInv, NEW p \in Procs, Paid(p)
  PROVE  IInv'
<1>0. PICK ch : ch = proc[p].ch
  OBVIOUS
<1>1. Todo(p) # Done /\ Head(Todo(p)) = "paid"
  BY DEF Paid, At, Todo, Done
<1>2. /\ TypeOK /\ ch \in Charges /\ row[ch] \in Row /\ Todo(p) \in Plans /\ Mine(p, ch)
      /\ Todo(p) \in Recorded => ch \in unguarded \/ Entered(ch, proc[p].gw)
  BY <1>0, <1>1, Worker
<1>3. Todo(p) = ToPay /\ Tail(Todo(p)) = ToConsume
  BY <1>1, <1>2, PlansBy, EachPlan DEF Begins
<1>4. /\ ch \in unguarded \/ Entered(ch, proc[p].gw)
      /\ ~Clears(p, ch) /\ ~GivesBack(p, ch) /\ ~At(p, "release")
  <2>1. Todo(p) \in Recorded /\ Todo(p) \notin Closing \cup Undoing
    BY <1>3, Kinds, Kept DEF Owned
  <2> QED BY <2>1, <1>1, <1>2 DEF Clears, GivesBack, At, Todo
<1>5. PICK u, new :
        /\ \/ u = ToConsume /\ new = [row[ch] EXCEPT !.st = "paid"] /\ row[ch].gw = proc[p].gw
           \/ u = Done /\ new = row[ch] /\ (row[ch].gw # proc[p].gw \/ row[ch].st = "paid")
        /\ proc' = [proc EXCEPT ![p] = With(p, u)] /\ row' = [row EXCEPT ![ch] = new] /\ late' = late
        /\ UNCHANGED <<left, canceled, debited, allocs, recorded, refunded, made, unguarded>>
  <2>1. CASE Write(p, "paid", [row[ch] EXCEPT !.st = "paid"]) /\ row[ch].gw = proc[p].gw
    BY <2>1, <1>0, <1>3 DEF Write, Advance, Then, Todo
  <2>2. CASE ~(row[ch].gw = proc[p].gw /\ row[ch].st # "paid") /\ Then(p, <<>>)
             /\ UNCHANGED <<left, canceled, debited, allocs, row, recorded, refunded, made, late, unguarded>>
    <3>1. row' = [row EXCEPT ![ch] = row[ch]]
      BY <2>2, <1>2 DEF TypeOK
    <3> QED BY <2>2, <3>1 DEF Then, Done
  <2> QED BY <2>1, <2>2, <1>0 DEF Paid
<1>6. /\ new \in Row /\ new.gw = row[ch].gw /\ new.asked = row[ch].asked /\ new.cents = row[ch].cents
      /\ new.busy = row[ch].busy
      /\ u = ToConsume => new.st = "paid"
  <2>1. ToConsume # Done
    BY EachPlan DEF Begins
  <2>2. CASE new = [row[ch] EXCEPT !.st = "paid"]
    BY <2>2, <1>2 DEF Row
  <2>3. CASE u = Done /\ new = row[ch]
    BY <2>1, <2>3, <1>2 DEF Row
  <2> QED BY <2>2, <2>3, <1>5
<1>7. u \in Plans \ (Owned \cup Sweeping \cup Labelling) /\ (u = ToConsume => u # Done /\ Head(u) = "consume")
  <2>1. ToConsume # Done /\ Head(ToConsume) = "consume"
    BY EachPlan DEF Begins
  <2>2. ToConsume \in Plans \ (Owned \cup Sweeping \cup Labelling)
    BY Kinds, Kept DEF Plans, Loose
  <2>3. Done \in Plans \ (Owned \cup Sweeping \cup Labelling)
    BY Kinds, Kept DEF Plans, Loose
  <2> QED BY <2>1, <2>2, <2>3, <1>5
<1>8. /\ Turn(p, u) /\ ProcsOK' /\ Todo(p)' = u /\ proc'[p].open = FALSE
      /\ \A s : At(p, s)' <=> (u # Done /\ Head(u) = s)
      /\ u # Done => Mine(p, ch)' /\ proc'[p].ch = ch
      /\ \A q \in Procs \ {p} : proc'[q] = proc[q]
      /\ row'[ch] = new
      /\ Held(ch)' = Held(ch) /\ Used(ch)' = Used(ch)
      /\ \A n : Entered(ch, n)' <=> Entered(ch, n)
  <2>1. row'[ch] = new
    BY <1>2, <1>5 DEF TypeOK
  <2>2. 0 \in Nat /\ u \in Plans
    BY <1>7
  <2>3. Went(p, ch, u)
    BY <2>2, <1>0, <1>2, <1>5, Turned
  <2> QED BY <2>1, <2>3, <1>5, SameAllocs DEF Went
<1>a. Follows(p, u)
  <2>1. u \in Recorded => ch \in unguarded \/ <<ch, proc[p].gw>> \in recorded'
    BY <1>4, <1>5 DEF Entered
  <2> QED BY <2>1, <1>0, <1>5, <1>7 DEF Follows, Owned
<1> SUFFICES ASSUME ch \notin unguarded PROVE Guarded(ch)'
  BY <1>0, <1>1, <1>2, <1>5, <1>6, <1>8, <1>a, RowKept DEF Local
<1>g. /\ Ledger(ch) /\ Claimed(ch) /\ Watched(ch) /\ Cleared(ch) /\ GivenBack(ch) /\ Backed(ch)
  BY <1>0, <1>1, Guarding
<1>9. Ledger(ch)'
  BY <1>2, <1>g, <1>4, <1>5, <1>6, <1>8 DEF Ledger
<1>10. Claimed(ch)'
  <2>1. ~Owner(p)'
    BY <1>7, <1>8 DEF Owner
  <2> QED BY <2>1, <1>2, <1>g, <1>6, <1>8, ClaimedKept
<1>11. Watched(ch)'
  <2>1. row'[ch].gw # 0 /\ Entered(ch, row[ch].gw)' => Held(ch)' = {}
    BY <1>2, <1>g, <1>6, <1>8 DEF Watched
  <2>2. ~At(p, "reread")'
    BY <1>5, <1>7, <1>8
  <2> QED BY <2>1, <2>2, <1>2, <1>g, <1>5, <1>6, <1>8, WatchedKept
<1>12. Cleared(ch)' /\ GivenBack(ch)' /\ Backed(ch)'
  <2>1. CASE u = ToConsume
    <3>1. Clears(p, ch)'
      BY <2>1, <1>7, <1>8 DEF Clears
    <3>2. new.st = "paid"
      BY <2>1, <1>6
    <3> QED BY <3>1, <3>2, <1>2, <1>g, <1>8, ClearedKept, GivenBackKept DEF Backed
  <2>2. CASE u = Done
    <3>1. new = row[ch] /\ (row[ch].gw # proc[p].gw \/ row[ch].st = "paid")
      BY <2>2, <1>5, EachPlan DEF Begins
    <3>2. Cleared(ch)' /\ GivenBack(ch)'
      BY <3>1, <1>2, <1>g, <1>4, <1>5, <1>8, ClearedKept, GivenBackKept
    <3>3. Backed(ch)'
      <4>1. ~At(p, "release")'
        BY <2>2, <1>8
      <4>2. row[ch].st # "pending" \/ row[ch].gw # proc[p].gw
        BY <3>1
      <4> QED BY <4>1, <4>2, <3>1, <1>2, <1>g, <1>4, <1>5, <1>8, BackedKept
    <3> QED BY <3>2, <3>3
  <2> QED BY <2>1, <2>2, <1>5
<1> QED BY <1>9, <1>10, <1>11, <1>12 DEF Guarded

\* How a pass ends: it issued the charge, or another did; the gateway failed; exempt meanwhile;
\* not billable, without credit and with it.
Ends(p, ch, u, new, pr) ==
  /\ pr \in Nat
  /\ \/ /\ u = Done
        /\ new = [row[ch] EXCEPT !.st = "pending", !.gw = proc[p].gw, !.asked = proc[p].price,
                                 !.busy = FALSE]
     \/ u = Done /\ new = row[ch] /\ row[ch].gw # 0
     \/ u = Done /\ new = [row[ch] EXCEPT !.st = "pending", !.busy = FALSE]
     \/ u = ToRelease /\ new = [row[ch] EXCEPT !.st = "canceled", !.busy = FALSE]
     \/ u = ToLetGo /\ new = row[ch] /\ proc[p].price = Price
     \/ u = ToUnprice /\ new = row[ch]
  /\ \/ proc' = [proc EXCEPT ![p] = With(p, u)]
     \/ proc' = [proc EXCEPT ![p] = [With(p, u) EXCEPT !.price = pr]] /\ u # Done
  /\ row' = [row EXCEPT ![ch] = new]
  /\ UNCHANGED <<left, canceled, debited, allocs, recorded, refunded, made, late, unguarded>>

\* The end of a pass: what it asks and what it reserved make the price.
LEMMA RereadKept ==
  ASSUME CreditAssumption, IInv, NEW p \in Procs, Reread(p)
  PROVE  IInv'
<1>0. PICK ch : ch = proc[p].ch
  OBVIOUS
<1>1. Todo(p) # Done /\ Head(Todo(p)) = "reread"
  BY DEF Reread, At, Todo, Done
<1>2. /\ TypeOK /\ ch \in Charges /\ row[ch] \in Row /\ proc[p] \in Proc /\ Todo(p) \in Plans /\ Mine(p, ch)
      /\ Fresh(p)
  BY <1>0, <1>1, Worker
<1>3. Todo(p) = ToReread /\ At(p, "reread")
  BY <1>1, <1>2, PlansBy DEF At, Todo, Done
<1>4. /\ Todo(p) \in Issuing /\ Owner(p)
      /\ Todo(p) \notin Closing \cup Undoing \cup Labelling
      /\ proc[p].gw # 0 /\ ~Entered(ch, proc[p].gw)
      /\ \A q \in Procs \ {p} : proc[q].gw # proc[p].gw
  <2>1. Todo(p) \in Issuing /\ Owner(p) /\ Todo(p) \notin Closing \cup Undoing \cup Labelling
    BY <1>3, Kinds, Kept DEF Owner, Owned
  <2> QED BY <2>1, <1>2 DEF Fresh
<1>6. PICK u, new, pr : Ends(p, ch, u, new, pr)
  <2>1. Price \in Nat /\ ToUnprice # Done /\ [row EXCEPT ![ch] = row[ch]] = row
    BY <1>2, CreditAssumption, EachPlan DEF CreditAssumption, Begins, TypeOK
  <2>2. UNCHANGED <<left, canceled, debited, allocs, recorded, refunded, made, late, unguarded>>
    BY DEF Reread
  <2>3. \/ /\ Then(p, Done)
           /\ row' = [row EXCEPT ![ch].st = "pending", ![ch].gw = proc[p].gw,
                                 ![ch].asked = proc[p].price, ![ch].busy = FALSE]
        \/ row[ch].gw # 0 /\ Then(p, Done) /\ row' = row
        \/ Then(p, Done) /\ row' = [row EXCEPT ![ch].st = "pending", ![ch].busy = FALSE]
        \/ Then(p, ToRelease) /\ row' = [row EXCEPT ![ch].st = "canceled", ![ch].busy = FALSE]
        \/ proc[p].price = Price /\ Then(p, ToLetGo) /\ row' = row
        \/ /\ proc' = [proc EXCEPT ![p] = [With(p, ToUnprice) EXCEPT !.price = Price]]
           /\ row' = row
    BY <1>0 DEF Reread, Done, ToRelease, ToLetGo, ToUnprice
  <2>4. CASE /\ Then(p, Done)
             /\ row' = [row EXCEPT ![ch].st = "pending", ![ch].gw = proc[p].gw,
                                   ![ch].asked = proc[p].price, ![ch].busy = FALSE]
    <3>1. PICK e : e = [row[ch] EXCEPT !.st = "pending", !.gw = proc[p].gw,
                          !.asked = proc[p].price, !.busy = FALSE]
      OBVIOUS
    <3>2. row' = [row EXCEPT ![ch] = e]
      BY <2>4, <3>1, <1>2 DEF TypeOK, Row
    <3>3. Ends(p, ch, Done, e, Price)
      BY <2>1, <2>2, <2>4, <3>1, <3>2 DEF Then, Ends
    <3> QED BY <3>3, <2>1
  <2>5. CASE Then(p, Done) /\ row' = [row EXCEPT ![ch].st = "pending", ![ch].busy = FALSE]
    <3>1. PICK e : e = [row[ch] EXCEPT !.st = "pending", !.busy = FALSE]
      OBVIOUS
    <3>2. row' = [row EXCEPT ![ch] = e]
      BY <2>5, <3>1, <1>2 DEF TypeOK, Row
    <3>3. Ends(p, ch, Done, e, Price)
      BY <2>1, <2>2, <2>5, <3>1, <3>2 DEF Then, Ends
    <3> QED BY <3>3, <2>1
  <2>6. CASE Then(p, ToRelease) /\ row' = [row EXCEPT ![ch].st = "canceled", ![ch].busy = FALSE]
    <3>1. PICK e : e = [row[ch] EXCEPT !.st = "canceled", !.busy = FALSE]
      OBVIOUS
    <3>2. row' = [row EXCEPT ![ch] = e]
      BY <2>6, <3>1, <1>2 DEF TypeOK, Row
    <3>3. Ends(p, ch, ToRelease, e, Price)
      BY <2>1, <2>2, <2>6, <3>1, <3>2 DEF Then, Ends
    <3> QED BY <3>3, <2>1
  <2>7. CASE proc[p].price = Price /\ Then(p, ToLetGo) /\ row' = row
    <3>1. PICK e : e = row[ch]
      OBVIOUS
    <3>2. Ends(p, ch, ToLetGo, e, Price)
      BY <3>1, <2>1, <2>2, <2>7 DEF Then, Ends
    <3> QED BY <3>2, <2>1
  <2>8. CASE /\ proc' = [proc EXCEPT ![p] = [With(p, ToUnprice) EXCEPT !.price = Price]]
             /\ row' = row
    <3>1. PICK e : e = row[ch]
      OBVIOUS
    <3>2. Ends(p, ch, ToUnprice, e, Price)
      BY <3>1, <2>1, <2>2, <2>8 DEF Ends
    <3> QED BY <3>2, <2>1
  <2>9. CASE row[ch].gw # 0 /\ Then(p, Done) /\ row' = row
    <3>1. PICK e : e = row[ch]
      OBVIOUS
    <3>2. Ends(p, ch, Done, e, Price)
      BY <3>1, <2>1, <2>2, <2>9 DEF Then, Ends
    <3> QED BY <3>2, <2>1
  <2> QED BY <2>3, <2>4, <2>5, <2>6, <2>7, <2>8, <2>9
<1> USE DEF Ends
<1>7. new \in Row /\ new.cents = row[ch].cents /\ new.gw \in {row[ch].gw, 0, proc[p].gw}
  <2>1. CASE new = [row[ch] EXCEPT !.st = "pending", !.gw = proc[p].gw, !.asked = proc[p].price,
                                   !.busy = FALSE]
    BY <2>1, <1>2 DEF Row, Proc
  <2>2. CASE new = [row[ch] EXCEPT !.st = "pending", !.busy = FALSE]
    BY <2>2, <1>2 DEF Row
  <2>3. CASE new = [row[ch] EXCEPT !.st = "canceled", !.busy = FALSE]
    BY <2>3, <1>2 DEF Row
  <2>4. CASE new = row[ch]
    BY <2>4, <1>2
  <2> QED BY <2>1, <2>2, <2>3, <2>4, <1>6
<1>8. /\ u \in Plans \ (Issuing \cup Closing \cup Sweeping \cup Recorded)
      /\ u = ToRelease => u \notin Owned /\ u # Done /\ Head(u) = "release"
      /\ u = ToUnprice => u # Done /\ Head(u) = "release"
      /\ u = ToLetGo => u # Done /\ Head(u) = "unclaim"
      /\ u = Done => u \notin Owned
  <2>1. u \in {Done, ToRelease, ToUnprice, ToLetGo}
    BY <1>6
  <2>2. /\ ToRelease # Done /\ Head(ToRelease) = "release"
        /\ ToUnprice # Done /\ Head(ToUnprice) = "release"
        /\ ToLetGo # Done /\ Head(ToLetGo) = "unclaim"
    BY EachPlan DEF Begins
  <2>3. /\ ToRelease \notin Owned /\ Done \notin Owned
        /\ \A t \in {Done, ToRelease, ToUnprice, ToLetGo} :
             t \notin Issuing \cup Closing \cup Sweeping \cup Recorded
    BY Kinds DEF Owned
  <2>4. {Done, ToRelease, ToUnprice, ToLetGo} \subseteq Plans
    BY DEF Plans, Owned, LettingGo, Loose
  <2> QED BY <2>1, <2>2, <2>3, <2>4
<1>9. /\ Turn(p, u) /\ ProcsOK' /\ Todo(p)' = u /\ proc'[p].open = FALSE
      /\ \A s : At(p, s)' <=> (u # Done /\ Head(u) = s)
      /\ u # Done => Mine(p, ch)' /\ proc'[p].ch = ch
      /\ \A q \in Procs \ {p} : proc'[q] = proc[q]
      /\ row'[ch] = new
      /\ Held(ch)' = Held(ch) /\ Used(ch)' = Used(ch)
      /\ \A n : Entered(ch, n)' <=> Entered(ch, n)
  <2>1. row'[ch] = new
    BY <1>2, <1>6 DEF TypeOK
  <2>2. u \in Plans
    BY <1>8
  <2>3. Went(p, ch, u)
    BY <2>2, <1>0, <1>2, <1>6, Turned
  <2> QED BY <2>1, <2>3, <1>6, SameAllocs DEF Went
<1>a. Follows(p, u)
  <2>1. u = Done \/ Head(u) # "record"
    BY <1>6, <1>8
  <2> QED BY <2>1, <1>8 DEF Follows
<1> SUFFICES ASSUME ch \notin unguarded PROVE Guarded(ch)'
  BY <1>0, <1>1, <1>2, <1>6, <1>7, <1>8, <1>9, <1>a, RowKept DEF Local
<1>g. /\ Ledger(ch) /\ Claimed(ch) /\ Watched(ch) /\ Cleared(ch) /\ GivenBack(ch) /\ Backed(ch)
      /\ row[ch].gw = 0 /\ row[ch].busy
      /\ \A q \in Procs \ {p} : Mine(q, ch) => ~Owner(q) /\ ~At(q, "reread")
  BY <1>0, <1>1, <1>4, Guarding DEF Claimed, Mine
<1>5. /\ proc[p].price = Price => Held(ch) = {}
      /\ ch \notin late => /\ proc[p].price + Cents(Held(ch)) = Price
                           /\ row[ch].cents = proc[p].price
                           /\ \A a \in Used(ch) : a.n # proc[p].gw
  BY <1>g, <1>2, <1>3 DEF Watched, Mine
<1>h. \/ /\ u = Done /\ new.st = "pending" /\ new.gw = proc[p].gw
         /\ new.asked = proc[p].price
      \/ u = Done /\ new.st = "pending" /\ new.gw = 0
      \/ u = ToRelease /\ new.st = "canceled" /\ new.gw = 0
      \/ /\ \/ u = ToLetGo /\ Held(ch) = {}
            \/ u = ToUnprice
         /\ new = row[ch] /\ new.gw = 0 /\ new.busy
  <2>1. CASE new = [row[ch] EXCEPT !.st = "pending", !.gw = proc[p].gw, !.asked = proc[p].price,
                                   !.busy = FALSE] /\ u = Done
    BY <2>1, <1>2 DEF Row, Proc
  <2>2. CASE u = Done /\ new = [row[ch] EXCEPT !.st = "pending", !.busy = FALSE]
    BY <2>2, <1>2, <1>g DEF Row
  <2>3. CASE u = ToRelease /\ new = [row[ch] EXCEPT !.st = "canceled", !.busy = FALSE]
    BY <2>3, <1>2, <1>g DEF Row
  <2>4. CASE ((u = ToLetGo /\ Held(ch) = {}) \/ u = ToUnprice) /\ new = row[ch]
    BY <2>4, <1>g
  <2> QED BY <2>1, <2>2, <2>3, <2>4, <1>5, <1>6, <1>g
<1>10. Ledger(ch)'
  BY <1>2, <1>g, <1>7, <1>h, <1>9 DEF Ledger
<1>11. Claimed(ch)'
  <2>1. Owner(p)' => u \in LettingGo /\ new.gw = 0 /\ new.busy
    BY <1>7, <1>h, <1>8, <1>9, Kinds DEF Owner
  <2>2. u \notin Issuing \cup Closing
    BY <1>8
  <2> QED BY <2>1, <2>2, <1>2, <1>g, <1>4, <1>9, ClaimedKept
<1>12. Watched(ch)'
  <2>1. row'[ch].gw # 0 /\ Entered(ch, row[ch].gw)' => Held(ch)' = {}
    BY <1>g, <1>4, <1>7, <1>h, <1>9
  <2>2. ~At(p, "reread")'
    BY <1>6, <1>8, <1>9
  <2>3. \/ row'[ch].gw \in {0, row[ch].gw}
        \/ \A q \in Procs \ {p} : proc[q].gw # row'[ch].gw
    BY <1>g, <1>4, <1>7, <1>h, <1>9
  <2> QED BY <2>1, <2>2, <2>3, <1>2, <1>g, <1>6, <1>7, <1>h, <1>9, WatchedKept
<1>13. Cleared(ch)'
  <2>1. CASE new.st = "pending"
    BY <2>1, <1>2, <1>g, <1>9, ClearedKept
  <2>2. CASE u = ToRelease \/ u = ToUnprice
    <3>1. Clears(p, ch)'
      BY <2>2, <1>8, <1>9 DEF Clears
    <3> QED BY <3>1, <1>2, <1>g, <1>9, ClearedKept
  <2>3. CASE Held(ch) = {}
    BY <2>3, <1>9 DEF Cleared
  <2> QED BY <2>1, <2>2, <2>3, <1>7, <1>h
<1>14. GivenBack(ch)'
  <2>1. ~GivesBack(p, ch)
    BY <1>1, <1>4 DEF GivesBack, At, Todo
  <2>2. new.st # "refunded" \/ (new.st = row[ch].st /\ new.gw = row[ch].gw)
    BY <1>7, <1>h
  <2> QED BY <2>1, <2>2, <1>2, <1>g, <1>6, <1>9, GivenBackKept
<1>15. Backed(ch)'
  <2>1. CASE new.gw = 0
    BY <2>1, <1>9 DEF Backed
  <2>2. CASE u = Done /\ new.st = "pending" /\ new.gw = proc[p].gw /\ new.asked = proc[p].price
    <3>1. ~Overridden(ch)'
      <4>1. ASSUME NEW q \in Procs, proc'[q].gw = row'[ch].gw, At(q, "release")' PROVE FALSE
        <5>1. q # p
          BY <4>1, <2>2, <1>9
        <5> QED BY <4>1, <5>1, <2>2, <1>4, <1>9
      <4> QED BY <4>1 DEF Overridden
    <3>2. ~Entered(ch, row[ch].gw)'
      BY <2>2, <1>4, <1>9
    <3>3. ch \notin late' =>
            /\ row'[ch].cents = row'[ch].asked
            /\ row'[ch].asked + Cents(Held(ch)') = Price
            /\ \A a \in Used(ch)' : a.n # row'[ch].gw
      BY <2>2, <1>5, <1>6, <1>7, <1>h, <1>9
    <3> QED BY <3>1, <3>2, <3>3 DEF Backed
  <2> QED BY <2>1, <2>2, <1>7, <1>h
<1> QED BY <1>10, <1>11, <1>12, <1>13, <1>14, <1>15 DEF Guarded

\* The `finally` of the console: the claim it frees is another's, or there was none to free.
LEMMA FinallyKept ==
  ASSUME CreditAssumption, IInv, NEW p \in Procs, Finally(p)
  PROVE  IInv'
<1>0. PICK ch, u, new : /\ ch = proc[p].ch /\ u = Done
                        /\ new = [row[ch] EXCEPT !.busy = FALSE]
  OBVIOUS
<1>1. /\ Todo(p) # Done /\ Head(Todo(p)) = "finally"
      /\ row' = [row EXCEPT ![ch].busy = FALSE]
      /\ unguarded' = IF row[ch].busy THEN unguarded \cup {ch} ELSE unguarded
      /\ proc' = [proc EXCEPT ![p] = With(p, u)]
      /\ UNCHANGED <<left, canceled, debited, allocs, recorded, refunded, made, late>>
  BY <1>0 DEF Finally, Then, At, Todo, Done
<1>2. /\ TypeOK /\ ProcsOK /\ ch \in Charges /\ row[ch] \in Row /\ Todo(p) \in Plans /\ Mine(p, ch)
  BY <1>0, <1>1, Worker
<1>3. Todo(p) = ToFree
  BY <1>1, <1>2, PlansBy
<1>4. /\ Todo(p) \notin Owned \cup Sweeping \cup Recorded \cup Undoing \cup Closing
      /\ u \in Plans \ (Owned \cup Sweeping \cup Recorded)
  BY <1>0, <1>3, Kinds, Kept DEF Plans, Loose, Owned
<1>5. /\ new \in Row /\ new.st = row[ch].st /\ new.gw = row[ch].gw /\ new.cents = row[ch].cents
      /\ new.asked = row[ch].asked /\ (~row[ch].busy => new.busy = row[ch].busy)
  BY <1>0, <1>2 DEF Row
<1>6. row' = [row EXCEPT ![ch] = new] /\ row'[ch] = new
  BY <1>0, <1>1, <1>2 DEF TypeOK
<1>7. /\ Went(p, ch, u) /\ Turn(p, u) /\ ProcsOK' /\ Todo(p)' = u /\ proc'[p].open = FALSE
      /\ \A s : ~At(p, s)'
      /\ \A q \in Procs \ {p} : proc'[q] = proc[q]
  <2>1. 0 \in Nat /\ u \in Plans
    BY <1>4
  <2>2. Went(p, ch, u)
    BY <2>1, <1>0, <1>1, <1>2, Turned
  <2> QED BY <2>2, <1>0 DEF Went
<1>8. /\ Held(ch)' = Held(ch) /\ Used(ch)' = Used(ch)
      /\ \A n : Entered(ch, n)' <=> Entered(ch, n)
  BY <1>1, SameAllocs
<1>9. Follows(p, u)
  BY <1>0, <1>4 DEF Follows, Owned
<1>10. unguarded' \in {unguarded, unguarded \cup {ch}} /\ late' = late
  BY <1>1
<1>w. /\ Todo(p) # Done /\ ch = proc[p].ch /\ Follows(p, u) /\ Turn(p, u) /\ ProcsOK'
      /\ new \in Row /\ row' = [row EXCEPT ![ch] = new] /\ new.gw \in {row[ch].gw, 0, proc[p].gw}
      /\ late' = late
      /\ UNCHANGED <<left, canceled, debited, allocs, recorded, refunded, made>>
      /\ unguarded' \in {unguarded, unguarded \cup {ch}}
  <2>1. new.gw \in {row[ch].gw, 0, proc[p].gw}
    BY <1>5
  <2> QED BY <2>1, <1>0, <1>1, <1>5, <1>6, <1>7, <1>9, <1>10
<1>k. Local(ch)' => IInv'
  BY <1>w, RowKept
<1> SUFFICES ASSUME ch \notin unguarded' PROVE Guarded(ch)'
  BY <1>k DEF Local
<1>g. /\ Ledger(ch) /\ Claimed(ch) /\ Watched(ch) /\ Cleared(ch) /\ GivenBack(ch) /\ Backed(ch)
      /\ ~row[ch].busy /\ row'[ch].busy = row[ch].busy
  <2>1. ch \notin unguarded /\ ~row[ch].busy
    BY <1>1
  <2> QED BY <2>1, <1>0, <1>1, <1>5, <1>6, Guarding
<1>11. Ledger(ch)'
  BY <1>g, <1>5, <1>6, <1>8 DEF Ledger
<1>12. Claimed(ch)'
  <2>1. ~Owner(p)'
    BY <1>4, <1>7 DEF Owner
  <2> QED BY <2>1, <1>g, <1>5, <1>6, <1>7, ClaimedKept
<1>13. Watched(ch)'
  <2>1. row'[ch].gw # 0 /\ Entered(ch, row[ch].gw)' => Held(ch)' = {}
    BY <1>g, <1>5, <1>6, <1>8 DEF Watched
  <2> QED BY <2>1, <1>g, <1>5, <1>6, <1>7, <1>8, <1>10, WatchedKept
<1>14. ~Clears(p, ch) /\ ~GivesBack(p, ch)
  BY <1>1, <1>4 DEF Clears, GivesBack, At, Todo
<1>15. Cleared(ch)' /\ GivenBack(ch)'
  BY <1>g, <1>5, <1>6, <1>7, <1>8, <1>10, <1>14, ClearedKept, GivenBackKept
<1>16. Backed(ch)'
  <2>1. ~(Mine(p, ch) /\ Todo(p) \in Labelling /\ proc[p].gw = row[ch].gw)
    BY <1>3, <1>4 DEF Recorded
  <2>2. ~(Mine(p, ch) /\ At(p, "release") /\ proc[p].gw = row[ch].gw)
    BY <1>1 DEF At, Todo
  <2> QED BY <2>1, <2>2, <1>g, <1>5, <1>6, <1>7, <1>8, <1>10, BackedKept
<1> QED BY <1>11, <1>12, <1>13, <1>15, <1>16 DEF Guarded

-----------------------------------------------------------------------------
(* What starts, and what is read.                                          *)

\* What a start asks of the plan u and of the id g it works with.
Startable(ch, g, u) ==
  /\ u \in Plans /\ u # Done
  /\ \/ u \in Issuing /\ Head(u) = "reserve" /\ g = made + 1 /\ row[ch].gw = 0
     \/ u \notin Issuing \cup LettingGo /\ g = row[ch].gw
  /\ \/ u \notin Owned /\ row' = row
     \/ ~row[ch].busy /\ row' = [row EXCEPT ![ch].busy = TRUE]
  /\ Head(u) # "reread"
  /\ u \in Sweeping \/ Head(u) = "release" => row[ch].gw = 0
  /\ Head(u) = "record" => g # 0
  /\ u \in Recorded => ch \in unguarded \/ Entered(ch, g)

\* A process that begins a plan, whatever the gesture.
LEMMA StartedKept ==
  ASSUME CreditAssumption, IInv, NEW p \in Procs, NEW ch \in Charges, NEW g, NEW u,
         Startable(ch, g, u), Starts(p, ch, g, u)
  PROVE  IInv'
<1>1. /\ TypeOK /\ Numbered /\ Planned(p) /\ Local(ch)
      /\ \A q \in Procs : Planned(q) /\ Fresh(q)
      /\ proc \in [Procs -> Proc] /\ row \in [Charges -> Row] /\ row[ch] \in Row
      /\ MaxStarts \in Nat /\ NoCharge \notin Charges /\ made \in Nat /\ made < MaxStarts
  BY CreditAssumption DEF IInv, TypeOK, CreditAssumption, Starts
<1>2. proc[p] = Free /\ ~Mine(p, ch)
  BY <1>1, Frees DEF Starts, Planned, Todo, Done, Mine
<1>3. /\ made' = made + 1
      /\ UNCHANGED <<left, canceled, debited, allocs, recorded, refunded, late, unguarded>>
  BY DEF Starts
<1>4. PICK pr \in Nat : proc' = [proc EXCEPT ![p] = [Free EXCEPT !.todo = u, !.ch = ch, !.gw = g, !.price = pr]]
  <2>1. row[ch].cents + row[ch].noted \in Nat /\ 0 \in Nat
    BY <1>1 DEF Row
  <2> DEFINE x == IF "price" \in Range(u) THEN row[ch].cents + row[ch].noted ELSE 0
  <2>2. x \in Nat
    BY <2>1
  <2>3. proc' = [proc EXCEPT ![p] = [Free EXCEPT !.todo = u, !.ch = ch, !.gw = g, !.price = x]]
    BY DEF Starts
  <2> HIDE DEF x
  <2> QED BY <2>2, <2>3
<1>5. g \in 0..MaxStarts /\ u \in Seq(Steps)
  BY <1>1, Kept DEF Startable, Row
<1> DEFINE n == [Free EXCEPT !.todo = u, !.ch = ch, !.gw = g, !.price = pr]
<1>6. /\ n \in Proc /\ n.todo = u /\ n.ch = ch /\ n.gw = g /\ n.open = FALSE /\ n.seen = {}
  BY <1>4, <1>5, Frees DEF Proc
<1> HIDE DEF n
<1>7. /\ proc'[p].todo = u /\ proc'[p].ch = ch /\ proc'[p].gw = g
      /\ proc'[p].open = FALSE /\ proc'[p].seen = {} /\ Mine(p, ch)'
      /\ \A q \in Procs \ {p} : proc'[q] = proc[q]
      /\ ProcsOK'
  <2>1. proc' = [proc EXCEPT ![p] = n]
    BY <1>4 DEF n
  <2> QED BY <2>1, <1>1, <1>6 DEF ProcsOK, TypeOK, Mine
<1>8. Todo(p)' = u /\ (\A s : At(p, s)' <=> Head(u) = s) /\ u # Done
  BY <1>7, Firsts DEF Startable
<1>9. /\ row' \in [Charges -> Row]
      /\ \A d \in Charges \ {ch} : row'[d] = row[d]
      /\ row'[ch].st = row[ch].st /\ row'[ch].gw = row[ch].gw /\ row'[ch].cents = row[ch].cents
      /\ row'[ch].asked = row[ch].asked
      /\ \/ row'[ch].busy = row[ch].busy /\ u \notin Owned
         \/ ~row[ch].busy /\ row'[ch].busy
  <2>1. CASE u \notin Owned /\ row' = row
    BY <2>1, <1>1
  <2>2. CASE ~row[ch].busy /\ row' = [row EXCEPT ![ch].busy = TRUE]
    BY <2>2, <1>1 DEF Row
  <2> QED BY <2>1, <2>2 DEF Startable
<1>10. TypeOK'
  BY <1>1, <1>3, <1>7, <1>9 DEF TypeOK, ProcsOK
<1>11. \A d : /\ Held(d)' = Held(d) /\ Used(d)' = Used(d)
              /\ \A m : Entered(d, m)' <=> Entered(d, m)
  BY <1>3, SameAllocs
<1>12. Numbered'
  <2>1. \A q \in Procs : proc'[q].gw <= made'
    <3>1. \A q \in Procs : proc[q].gw <= made /\ proc[q].gw \in 0..MaxStarts
      BY <1>1 DEF Numbered, Proc
    <3>2. g <= made + 1 /\ g \in Nat
      BY <1>1, <1>5 DEF Startable, Numbered, Row
    <3> QED BY <3>1, <3>2, <1>1, <1>3, <1>7
  <2>2. \A d \in Charges : row'[d].gw <= made'
    <3>1. \A d \in Charges : row'[d].gw = row[d].gw /\ row[d].gw \in 0..MaxStarts
      BY <1>1, <1>9 DEF Row
    <3> QED BY <3>1, <1>1, <1>3 DEF Numbered
  <2>3. \A d \in Charges, m \in 1..MaxStarts : Entered(d, m)' => m <= made'
    BY <1>1, <1>3, <1>11 DEF Numbered
  <2>4. \A a \in allocs' : a.n <= made'
    BY <1>1, <1>3 DEF Numbered, TypeOK, Alloc
  <2> QED BY <2>1, <2>2, <2>3, <2>4 DEF Numbered
<1>13. ASSUME NEW q \in Procs \ {p} PROVE Planned(q)' /\ Fresh(q)'
  <2>1. proc'[q] = proc[q] /\ Todo(q)' = Todo(q) /\ \A s : At(q, s)' <=> At(q, s)
    BY <1>7 DEF Todo, At
  <2>2. Planned(q)'
    <3>1. Planned(q) /\ unguarded' = unguarded
      BY <1>1, <1>3
    <3>2. Todo(q) \in Recorded => proc[q].ch \in unguarded' \/ Entered(proc[q].ch, proc[q].gw)'
      BY <2>1, <3>1, <1>11 DEF Planned
    <3> QED BY <2>1, <3>1, <3>2 DEF Planned
  <2>3. ASSUME Todo(q) \in Issuing
        PROVE  /\ proc[q].gw # 0 /\ proc[q].gw # g
               /\ \A d \in Charges : row'[d].gw # proc[q].gw /\ ~Entered(d, proc[q].gw)'
               /\ \A r \in Procs \ {q} : proc'[r].gw # proc[q].gw
               /\ At(q, "reserve") => \A a \in allocs' : a.n # proc[q].gw
    <3>1. /\ proc[q].gw # 0
          /\ \A d \in Charges : row[d].gw # proc[q].gw /\ ~Entered(d, proc[q].gw)
          /\ \A r \in Procs \ {q} : proc[r].gw # proc[q].gw
          /\ At(q, "reserve") => \A a \in allocs : a.n # proc[q].gw
          /\ proc[q].gw <= made /\ proc[q].gw \in 0..MaxStarts
      BY <2>3, <1>1 DEF Fresh, Numbered, Proc
    <3>2. proc[q].gw # g
      BY <3>1, <1>1 DEF Startable
    <3> QED BY <3>1, <3>2, <1>3, <1>7, <1>9, <1>11
  <2>4. Fresh(q)'
    BY <2>1, <2>3 DEF Fresh
  <2> QED BY <2>2, <2>4
<1>14. Planned(p)'
  <2>1. u \in Sweeping => g = 0
    BY Kinds DEF Startable, Sweeping, Owned
  <2>2. u \in Recorded => ch \in unguarded' \/ Entered(ch, g)'
    BY <1>3, <1>11 DEF Startable
  <2>3. u \in Plans /\ u # Done /\ At(p, "record")' => g # 0
    BY <1>8 DEF Startable
  <2>4. u \in Plans /\ u # Done
    BY DEF Startable
  <2> QED BY <2>1, <2>2, <2>3, <2>4, <1>7, <1>8 DEF Planned
<1>15. Fresh(p)'
  <2> SUFFICES ASSUME u \in Issuing PROVE Fresh(p)'
    BY <1>8 DEF Fresh
  <2>1. g = made + 1
    BY DEF Startable
  <2>2. \A d \in Charges : row'[d].gw # g /\ ~Entered(d, g)'
    <3>1. ASSUME NEW d \in Charges PROVE row'[d].gw # g /\ ~Entered(d, g)'
      <4>1. row'[d].gw = row[d].gw /\ row[d].gw \in 0..MaxStarts /\ row[d].gw <= made
        BY <1>1, <1>9 DEF Numbered, Row
      <4>2. g \in 1..MaxStarts /\ ~Entered(d, g)
        BY <2>1, <1>1 DEF Numbered
      <4> QED BY <4>1, <4>2, <2>1, <1>1, <1>11
    <3> QED BY <3>1
  <2>3. \A q \in Procs \ {p} : proc'[q].gw # g
    BY <2>1, <1>1, <1>7 DEF Numbered, Proc
  <2>4. \A a \in allocs' : a.n # g
    BY <2>1, <1>1, <1>3 DEF Numbered, TypeOK, Alloc
  <2>5. g # 0
    BY <2>1, <1>1
  <2> QED BY <2>2, <2>3, <2>4, <2>5, <1>7 DEF Fresh
<1>16. Elsewhere(p, ch)
  BY <1>2, <1>3, <1>7, <1>9, <1>11, Frees DEF Elsewhere
<1>17. \A d \in Charges : Local(d)'
  <2>1. Local(ch)'
    <3> SUFFICES ASSUME ch \notin unguarded PROVE Guarded(ch)'
      BY <1>3 DEF Local
    <3>1. Ledger(ch) /\ Claimed(ch) /\ Watched(ch) /\ Cleared(ch) /\ GivenBack(ch) /\ Backed(ch)
      BY <1>1 DEF Local, Guarded
    <3>2. Ledger(ch)'
      BY <1>9, <1>11, <3>1 DEF Ledger
    <3>3. Claimed(ch)'
      <4>1. Owner(p)' => /\ row'[ch].busy /\ ~row[ch].busy
                         /\ u \in Issuing \cup LettingGo => row'[ch].gw = 0
                         /\ u \in Closing => row'[ch].gw = g
        <5>1. \A t \in Issuing : t \notin Closing
          BY Kinds DEF Issuing
        <5> QED BY <5>1, <1>8, <1>9 DEF Startable, Owner, Owned
      <4> QED BY <4>1, <1>7, <1>8, <1>9, <3>1, ClaimedKept
    <3>4. Watched(ch)'
      <4>1. row'[ch].gw # 0 /\ Entered(ch, row[ch].gw)' => Held(ch)' = {}
        BY <1>9, <1>11, <3>1 DEF Watched
      <4>2. ~At(p, "reread")'
        BY <1>8 DEF Startable
      <4> QED BY <4>1, <4>2, <1>3, <1>7, <1>9, <1>11, <3>1, WatchedKept
    <3>5. Cleared(ch)' /\ GivenBack(ch)'
      <4>1. ~Clears(p, ch) /\ ~GivesBack(p, ch)
        BY <1>2 DEF Clears, GivesBack, Mine
      <4> QED BY <4>1, <1>3, <1>7, <1>9, <1>11, <3>1, ClearedKept, GivenBackKept
    <3>6. Backed(ch)'
      <4>1. row'[ch].gw = 0 \/ ~At(p, "release")'
        BY <1>8, <1>9 DEF Startable
      <4> QED BY <4>1, <1>2, <1>3, <1>7, <1>9, <1>11, <3>1, BackedKept
    <3> QED BY <3>2, <3>3, <3>4, <3>5, <3>6 DEF Guarded
  <2>2. ASSUME NEW d \in Charges, d # ch PROVE Local(d)'
    <3>1. d \in Charges \ {ch} /\ Local(d)
      BY <2>2 DEF IInv
    <3> QED BY <3>1, <1>1, <1>16, ElsewhereKept
  <2> QED BY <2>1, <2>2
<1>18. IsFiniteSet(allocs') /\ Conserved' /\ CanceledStaysEmpty'
  BY <1>3 DEF IInv, Conserved, CanceledStaysEmpty
<1> QED BY <1>10, <1>12, <1>13, <1>14, <1>15, <1>17, <1>18 DEF IInv

\* Each gesture begins a plan the invariant allows.
LEMMA StartKept ==
  ASSUME CreditAssumption, IInv, NEW p \in Procs, NEW ch \in Charges, Start(p, ch)
  PROVE  IInv'
<1>1. /\ Head(ToReserve) = "reserve" /\ Head(ToCancel) = "cancel" /\ Head(ToDrop) = "dropped"
      /\ Head(ToOverride) = "override" /\ Head(ToReset) = "reset" /\ Head(ToHold) = "hold"
      /\ Head(ToRecord) = "record" /\ Head(ToSettle) = "record" /\ Head(ToReverse) = "reverse"
      /\ Head(ToReturn) = "returned" /\ Head(ToSweep) = "release" /\ Head(ToDebit) = "debit"
      /\ Head(ToCancelAndFree) = "cancel"
      /\ \A t \in {ToReserve, ToCancel, ToCancelAndFree, ToDrop, ToOverride, ToReset, ToHold, ToRecord, ToSettle,
                   ToReverse, ToReturn, ToSweep, ToDebit} : t # Done
  BY EachPlan DEF Begins
<1>2. ch \in unguarded \/ Ledger(ch)
  BY DEF IInv, Local, Guarded
<1>3. CASE StartIssue(p, ch)
  <2>1. ToReserve \in Plans \cap Issuing /\ ToReserve \notin Recorded \cup Sweeping
    BY Kinds, Kept DEF Plans, Owned
  <2>2. /\ Startable(ch, made + 1, ToReserve) /\ Starts(p, ch, made + 1, ToReserve)
    BY <1>1, <1>3, <2>1 DEF StartIssue, Startable, Grab, ToReserve
  <2> QED BY <2>2, StartedKept
<1>4. CASE StartCancel(p, ch)
  <2>1. \A t \in {ToCancel, ToCancelAndFree} :
          t \in Plans /\ t \notin Issuing \cup LettingGo \cup Recorded \cup Sweeping
    <3>1. \A t \in {ToCancel, ToCancelAndFree} :
            t \in Closing /\ t \notin Issuing \cup LettingGo \cup Sweeping \cup Recorded
      BY Kinds
    <3>2. Closing \subseteq Plans
      BY DEF Plans, Owned
    <3> QED BY <3>1, <3>2
  <2>2. PICK t \in {ToCancel, ToCancelAndFree} : Grab(ch) /\ Begin(p, ch, t)
    BY <1>4 DEF StartCancel, ToCancel, ToCancelAndFree
  <2>3. Head(t) = "cancel" /\ t # Done /\ t \in Plans
        /\ t \notin Issuing \cup LettingGo \cup Recorded \cup Sweeping
    BY <1>1, <2>1
  <2>4. Startable(ch, row[ch].gw, t) /\ Starts(p, ch, row[ch].gw, t)
    BY <2>2, <2>3 DEF Startable, Grab, Begin
  <2> QED BY <2>3, <2>4, StartedKept
<1>5. CASE StartDropped(p, ch)
  <2>1. ToDrop \in Plans /\ ToDrop \notin Issuing \cup LettingGo \cup Owned \cup Recorded \cup Sweeping
    BY Kinds, Kept DEF Plans, Owned, Loose
  <2>2. Startable(ch, row[ch].gw, ToDrop) /\ Starts(p, ch, row[ch].gw, ToDrop)
    BY <1>1, <1>5, <2>1 DEF StartDropped, Startable, Begin, ToDrop
  <2> QED BY <2>2, StartedKept
<1>6. CASE StartOverride(p, ch)
  <2>1. ToOverride \in Plans /\ ToOverride \notin Issuing \cup LettingGo \cup Recorded \cup Sweeping
    BY Kinds, Kept DEF Plans, Owned, Loose
  <2>2. Startable(ch, row[ch].gw, ToOverride) /\ Starts(p, ch, row[ch].gw, ToOverride)
    BY <1>1, <1>6, <2>1 DEF StartOverride, Startable, Grab, Begin, ToOverride
  <2> QED BY <2>2, StartedKept
<1>7. CASE StartPayment(p, ch)
  <2>1. ToRecord \in Plans /\ ToRecord \notin Issuing \cup LettingGo \cup Owned \cup Recorded \cup Sweeping
    BY Kinds, Kept DEF Plans, Owned, Loose
  <2>2. Startable(ch, row[ch].gw, ToRecord) /\ Starts(p, ch, row[ch].gw, ToRecord)
    BY <1>1, <1>7, <2>1 DEF StartPayment, Startable, Begin, ToRecord
  <2> QED BY <2>2, StartedKept
<1>8. CASE StartSettle(p, ch)
  <2>1. ToSettle \in Plans /\ ToSettle \notin Issuing \cup LettingGo \cup Recorded \cup Sweeping
    BY Kinds, Kept DEF Plans, Owned, Loose
  <2>2. Startable(ch, row[ch].gw, ToSettle) /\ Starts(p, ch, row[ch].gw, ToSettle)
    BY <1>1, <1>8, <2>1 DEF StartSettle, Startable, Grab, Begin, ToSettle
  <2> QED BY <2>2, StartedKept
<1>9. CASE StartSweep(p, ch)
  <2>1. ToSweep \in Plans /\ ToSweep \notin Issuing \cup LettingGo \cup Owned \cup Recorded
    BY Kinds, Kept DEF Plans, Owned, Loose
  <2>2. Startable(ch, row[ch].gw, ToSweep) /\ Starts(p, ch, row[ch].gw, ToSweep)
    BY <1>1, <1>9, <2>1 DEF StartSweep, Startable, Begin, ToSweep
  <2> QED BY <2>2, StartedKept
<1>10. CASE StartDebit(p, ch)
  <2>1. ToDebit \in Plans /\ ToDebit \notin Issuing \cup LettingGo \cup Owned \cup Recorded \cup Sweeping
    BY Kinds, Kept DEF Plans, Owned, Loose
  <2>2. Startable(ch, row[ch].gw, ToDebit) /\ Starts(p, ch, row[ch].gw, ToDebit)
    BY <1>1, <1>10, <2>1 DEF StartDebit, Startable, Begin, ToDebit
  <2> QED BY <2>2, StartedKept
<1>11. CASE StartReset(p, ch)
  <2>1. CASE Grab(ch) /\ Begin(p, ch, ToReset)
    <3>1. ToReset \in Plans /\ ToReset \notin Issuing \cup LettingGo \cup Recorded \cup Sweeping
      BY Kinds, Kept DEF Plans, Owned, Loose
    <3>2. Startable(ch, row[ch].gw, ToReset) /\ Starts(p, ch, row[ch].gw, ToReset)
      BY <1>1, <2>1, <3>1 DEF Grab, Startable, Begin, ToReset
    <3> QED BY <3>2, StartedKept
  <2>2. CASE Grab(ch) /\ Begin(p, ch, ToHold)
    <3>1. ToHold \in Plans /\ ToHold \notin Issuing \cup LettingGo \cup Recorded \cup Sweeping
      BY Kinds, Kept DEF Plans, Owned, Loose
    <3>2. Startable(ch, row[ch].gw, ToHold) /\ Starts(p, ch, row[ch].gw, ToHold)
      BY <1>1, <2>2, <3>1 DEF Grab, Startable, Begin, ToHold
    <3> QED BY <3>2, StartedKept
  <2> QED BY <1>11, <2>1, <2>2 DEF StartReset, ToReset, ToHold
<1>12. CASE StartRefund(p, ch)
  <2>1. CASE row[ch].st = "paid" /\ Grab(ch) /\ Begin(p, ch, ToReverse)
    <3>1. ToReverse \in Plans /\ ToReverse \notin Issuing \cup LettingGo \cup Sweeping
      BY Kinds, Kept DEF Plans, Owned, Loose
    <3>2. Startable(ch, row[ch].gw, ToReverse) /\ Starts(p, ch, row[ch].gw, ToReverse)
      BY <1>1, <1>2, <2>1, <3>1 DEF Grab, Startable, Ledger, Begin, ToReverse
    <3> QED BY <3>2, StartedKept
  <2>2. CASE <<ch, row[ch].gw>> \in recorded /\ row' = row /\ Begin(p, ch, ToReturn)
    <3>1. ToReturn \in Plans /\ ToReturn \notin Issuing \cup LettingGo \cup Owned \cup Sweeping
      BY Kinds, Kept DEF Plans, Owned, Loose
    <3>2. Startable(ch, row[ch].gw, ToReturn) /\ Starts(p, ch, row[ch].gw, ToReturn)
      BY <1>1, <2>2, <3>1 DEF Entered, Startable, Begin, ToReturn
    <3> QED BY <3>2, StartedKept
  <2> QED BY <1>12, <2>1, <2>2 DEF StartRefund, ToReverse, ToReturn
<1> QED BY <1>3, <1>4, <1>5, <1>6, <1>7, <1>8, <1>9, <1>10, <1>11, <1>12 DEF Start

\* The first read of a transaction: it sees all that is on the charge.
LEMMA OpenKept ==
  ASSUME CreditAssumption, IInv, NEW p \in Procs, Open(p)
  PROVE  IInv'
<1>0. PICK ch : ch = proc[p].ch
  OBVIOUS
<1>1. /\ Todo(p) # Done /\ Head(Todo(p)) \in Transactions /\ At(p, Head(Todo(p))) /\ ~proc[p].open
      /\ UNCHANGED <<left, canceled, debited, allocs, row, recorded, refunded, made, late, unguarded>>
  BY DEF Open, At, Todo, Done
<1>2. /\ TypeOK /\ ch \in Charges /\ proc[p] \in Proc /\ Todo(p) \in Plans /\ Mine(p, ch)
  BY <1>0, <1>1, Worker
<1>3. PICK sn \in [Credits -> Nat], se \in SUBSET Alloc :
        /\ se = {a \in allocs : a.ch = ch}
        /\ proc' = [proc EXCEPT ![p] = [proc[p] EXCEPT !.open = TRUE, !.snap = sn, !.seen = se]]
  <2> DEFINE x == IF At(p, "reserve") \/ At(p, "debit") THEN left ELSE proc[p].snap
             y == {a \in allocs : a.ch = ch}
  <2>1. x \in [Credits -> Nat] /\ y \in SUBSET Alloc
    BY <1>2 DEF TypeOK, Proc
  <2>2. proc' = [proc EXCEPT ![p] = [proc[p] EXCEPT !.open = TRUE, !.snap = x, !.seen = y]]
    BY <1>0, <1>2 DEF Open, TypeOK, Proc
  <2>3. PICK sn, se : sn = x /\ se = y
    OBVIOUS
  <2> QED BY <2>1, <2>2, <2>3
<1>4. /\ proc'[p].todo = proc[p].todo /\ proc'[p].ch = proc[p].ch /\ proc'[p].gw = proc[p].gw
      /\ proc'[p].price = proc[p].price /\ proc'[p].open = TRUE /\ proc'[p].seen = se
      /\ proc'[p] \in Proc
  BY <1>2, <1>3 DEF TypeOK, Proc
<1>5. /\ \A q \in Procs \ {p} : proc'[q] = proc[q]
      /\ \A q \in Procs : /\ Todo(q)' = Todo(q) /\ proc'[q].ch = proc[q].ch /\ proc'[q].gw = proc[q].gw
                          /\ proc'[q].price = proc[q].price /\ (Owner(q)' <=> Owner(q))
                          /\ \A s : At(q, s)' <=> At(q, s)
  BY <1>2, <1>3, <1>4 DEF TypeOK, Todo, At, Owner
<1>6. \A d : /\ Held(d)' = Held(d) /\ Used(d)' = Used(d)
             /\ \A n : Entered(d, n)' <=> Entered(d, n)
  BY <1>1, SameAllocs
<1>7. Held(ch) \subseteq se /\ Used(ch) \subseteq se
  BY <1>3 DEF Held, Used, On
<1>8. TypeOK'
  <2>1. proc' \in [Procs -> Proc]
    BY <1>2, <1>3, <1>4 DEF TypeOK
  <2>2. \A q \in Procs : proc'[q].open => proc'[q].todo # <<>> /\ Head(proc'[q].todo) \in Transactions
    BY <1>1, <1>2, <1>4, <1>5 DEF TypeOK, Todo, Done
  <2> QED BY <2>1, <2>2, <1>1, <1>2 DEF TypeOK
<1>9. IsFiniteSet(allocs') /\ Conserved' /\ CanceledStaysEmpty'
  BY <1>1 DEF IInv, Conserved, CanceledStaysEmpty
<1>10. Numbered'
  BY <1>1, <1>5, <1>6 DEF IInv, Numbered
<1>11. ASSUME NEW q \in Procs PROVE Planned(q)' /\ Fresh(q)'
  <2>1. Planned(q) /\ Fresh(q)
    BY DEF IInv
  <2>2. \A a \in proc'[q].seen : a.ch = proc'[q].ch
    BY <1>0, <1>3, <1>4, <1>5, <2>1 DEF Planned
  <2>3. Todo(q)' = Done => proc'[q] = Free
    BY <1>1, <1>5, <2>1 DEF Planned
  <2>4. Planned(q)'
    <3>1. Todo(q) \in Recorded => proc[q].ch \in unguarded' \/ Entered(proc[q].ch, proc[q].gw)'
      BY <2>1, <1>1, <1>5, <1>6 DEF Planned
    <3> QED BY <2>1, <2>2, <2>3, <3>1, <1>5 DEF Planned
  <2>5. Fresh(q)'
    BY <2>1, <1>1, <1>5, <1>6 DEF Fresh
  <2> QED BY <2>4, <2>5
<1>12. Elsewhere(p, ch)
  BY <1>0, <1>1, <1>4, <1>5, <1>6 DEF Elsewhere
<1>13. \A d \in Charges : Local(d)'
  <2>1. Local(ch)'
    <3> SUFFICES ASSUME ch \notin unguarded PROVE Guarded(ch)'
      BY <1>1 DEF Local
    <3>g. Ledger(ch) /\ Claimed(ch) /\ Watched(ch) /\ Cleared(ch) /\ GivenBack(ch) /\ Backed(ch)
      BY <1>0, <1>1, Guarding
    <3>1. Ledger(ch)' /\ Claimed(ch)'
      BY <1>1, <3>g, <1>2, <1>5, <1>6 DEF Ledger, Claimed
    <3>2. Watched(ch)'
      <4>1. ASSUME NEW q \in Procs, proc'[q].ch = ch, proc'[q].open,
                   At(q, "reserve")' \/ (row[ch].gw # 0 /\ row[ch].gw = proc'[q].gw)
            PROVE Held(ch) \subseteq proc'[q].seen
        BY <4>1, <3>g, <1>2, <1>4, <1>5, <1>7 DEF Watched
      <4> QED BY <4>1, <1>1, <3>g, <1>2, <1>5, <1>6 DEF Watched
    <3>3. Cleared(ch)'
      <4>1. ASSUME NEW q \in Procs, Clears(q, ch) PROVE Clears(q, ch)'
        BY <4>1, <1>4, <1>5, <1>6, <1>7 DEF Clears
      <4> QED BY <4>1, <1>1, <3>g, <1>2, <1>6 DEF Cleared
    <3>4. GivenBack(ch)'
      <4>1. \A q \in Procs : Outdated(q)' <=> Outdated(q)
        BY <1>1, <1>5 DEF Outdated
      <4>2. ASSUME NEW q \in Procs, GivesBack(q, ch) PROVE GivesBack(q, ch)'
        BY <4>1, <4>2, <1>4, <1>5, <1>6, <1>7 DEF GivesBack
      <4> QED BY <4>1, <4>2, <1>1, <3>g, <1>2, <1>5, <1>6 DEF GivenBack
    <3>5. Backed(ch)'
      <4>1. (Announced(ch)' <=> Announced(ch)) /\ (Overridden(ch)' <=> Overridden(ch))
        BY <1>1, <1>5 DEF Announced, Overridden
      <4> QED BY <4>1, <1>1, <3>g, <1>2, <1>6 DEF Backed
    <3> QED BY <3>1, <3>2, <3>3, <3>4, <3>5 DEF Guarded
  <2>2. ASSUME NEW d \in Charges, d # ch PROVE Local(d)'
    <3>1. d \in Charges \ {ch} /\ Local(d) /\ row \in [Charges -> Row] /\ NoCharge \notin Charges
      BY <2>2, CreditAssumption DEF IInv, TypeOK, CreditAssumption
    <3> QED BY <3>1, <1>12, ElsewhereKept
  <2> QED BY <2>1, <2>2
<1> QED BY <1>8, <1>9, <1>10, <1>11, <1>13 DEF IInv

\* The end of a credit touches only what is left of it.
LEMMA CancelCreditKept ==
  ASSUME CreditAssumption, IInv, NEW c \in Credits, CancelCredit(c)
  PROVE  IInv'
<1>1. /\ canceled' = canceled \cup {c} /\ left' = [left EXCEPT ![c] = 0]
      /\ UNCHANGED <<debited, allocs, row, recorded, refunded, proc, made, late, unguarded>>
  BY DEF CancelCredit
<1>2. TypeOK'
  BY <1>1 DEF IInv, TypeOK
<1>3. Conserved' /\ CanceledStaysEmpty'
  <2>1. left \in [Credits -> Nat]
    BY DEF IInv, TypeOK
  <2>2. \A b \in Credits \ canceled' : left'[b] = left[b] /\ b \in Credits \ canceled
    BY <2>1, <1>1
  <2>3. Conserved'
    BY <2>2, <1>1 DEF IInv, Conserved
  <2>4. CanceledStaysEmpty'
    BY <2>1, <1>1 DEF IInv, CanceledStaysEmpty
  <2> QED BY <2>3, <2>4
<1>4. IsFiniteSet(allocs') /\ Numbered' /\ \A q \in Procs : Planned(q)' /\ Fresh(q)'
  BY <1>1 DEF IInv, Numbered, Planned, Fresh, Entered, Todo, At
<1>5. ASSUME NEW d \in Charges PROVE Local(d)'
  <2> SUFFICES ASSUME d \notin unguarded PROVE Guarded(d)'
    BY <1>1 DEF Local
  <2>1. Guarded(d)
    BY DEF IInv, Local
  <2>2. Held(d)' = Held(d) /\ Used(d)' = Used(d)
    BY <1>1, SameAllocs
  <2>3. Ledger(d)' /\ Claimed(d)' /\ Watched(d)'
    BY <2>1, <2>2, <1>1 DEF Guarded, Ledger, Claimed, Watched, Entered, Owner, Todo, At
  <2>4. Cleared(d)' /\ GivenBack(d)'
    BY <2>1, <2>2, <1>1 DEF Guarded, Cleared, GivenBack, Entered, Clears, GivesBack, Outdated, Todo, At
  <2>5. Backed(d)'
    BY <2>1, <2>2, <1>1 DEF Guarded, Backed, Announced, Overridden, Entered, Todo, At
  <2> QED BY <2>3, <2>4, <2>5 DEF Guarded
<1> QED BY <1>2, <1>3, <1>4, <1>5 DEF IInv

-----------------------------------------------------------------------------
(* What is spent, and what is given back.                                  *)

Unique(A) == \A a, b \in A : a.n = b.n /\ a.cr = b.cr => a = b

\* The allocations are still those of the type, and no cent was made or lost.
Sound ==
  /\ left \in [Credits -> Nat] /\ canceled \subseteq Credits
  /\ allocs \subseteq Alloc /\ IsFiniteSet(allocs) /\ Unique(allocs)
  /\ Conserved /\ CanceledStaysEmpty

\* Any lots of a sound state are finitely many, and their cents add up to a number.
LEMMA Prices ==
  ASSUME Sound
  PROVE  \A A \in SUBSET allocs : /\ IsFiniteSet(A) /\ Priced(A) /\ Cents(A) \in Nat
                                  /\ \A a \in A : a.cents \in Nat \ {0}
                                  /\ \A c : Of(A, c) \in SUBSET allocs /\ Priced(Of(A, c))
                                            /\ Cents(Of(A, c)) \in Nat
<1> SUFFICES ASSUME NEW A \in SUBSET allocs
             PROVE  /\ IsFiniteSet(A) /\ Priced(A) /\ Cents(A) \in Nat
                    /\ \A a \in A : a.cents \in Nat \ {0}
                    /\ \A c : Of(A, c) \in SUBSET allocs /\ Priced(Of(A, c))
                              /\ Cents(Of(A, c)) \in Nat
  OBVIOUS
<1>1. \A B \in SUBSET allocs : IsFiniteSet(B) /\ Priced(B) /\ Cents(B) \in Nat
  <2> SUFFICES ASSUME NEW B \in SUBSET allocs PROVE IsFiniteSet(B) /\ Priced(B) /\ Cents(B) \in Nat
    OBVIOUS
  <2>1. IsFiniteSet(B)
    BY FS_Subset DEF Sound
  <2>2. \A a \in B : a.cents \in Nat
    BY DEF Sound, Alloc
  <2> QED BY <2>1, <2>2, CentsNat DEF Priced
<1>2. \A a \in A : a.cents \in Nat \ {0}
  BY DEF Sound, Alloc
<1>3. \A c : Of(A, c) \in SUBSET allocs
  BY DEF Of
<1> QED BY <1>1, <1>2, <1>3

\* Those of A go on as spent: the same cents, of the same credits.
LEMMA Spending ==
  ASSUME Sound, NEW A, A \subseteq {a \in allocs : a.st = "reserved"}, allocs' = Spent(A),
         UNCHANGED <<left, canceled, debited>>
  PROVE  /\ Sound'
         /\ A = {} => allocs' = allocs
         /\ \A a \in allocs' : \E b \in allocs : a.n = b.n
         /\ \A d : /\ Held(d)' = Held(d) \ A /\ Used(d) \subseteq Used(d)'
                   /\ (\A a \in A : a.ch # d) => Held(d)' = Held(d) /\ Used(d)' = Used(d)
<1> DEFINE spent(a) == [a EXCEPT !.st = "consumed"]
<1>1. \A a \in Alloc : /\ spent(a) \in Alloc /\ spent(a).ch = a.ch /\ spent(a).cr = a.cr
                       /\ spent(a).n = a.n /\ spent(a).cents = a.cents /\ spent(a).st = "consumed"
  BY DEF Alloc
<1>2. A \subseteq Alloc /\ allocs' = (allocs \ A) \cup {spent(a) : a \in A} /\ A \subseteq allocs
  BY DEF Sound, Spent
<1> HIDE DEF spent
<1>3. \A a, b \in A : spent(a) = spent(b) => a = b
  BY <1>1, <1>2 DEF Sound, Unique
<1>4. \A a \in A : spent(a) \notin allocs
  <2> SUFFICES ASSUME NEW a \in A, spent(a) \in allocs PROVE FALSE
    OBVIOUS
  <2>1. spent(a).st = "consumed" /\ spent(a).n = a.n /\ spent(a).cr = a.cr /\ a.st = "reserved"
    BY <1>1, <1>2
  <2> QED BY <2>1, <1>2 DEF Sound, Unique
<1>5. allocs' \subseteq Alloc /\ Unique(allocs')
  <2>1. allocs' \subseteq Alloc
    BY <1>1, <1>2 DEF Sound
  <2>2. \A a \in allocs' : \E b \in allocs : a.n = b.n /\ a.cr = b.cr /\ (a = b \/ (b \in A /\ a = spent(b)))
    <3> SUFFICES ASSUME NEW a \in allocs'
                 PROVE  \E b \in allocs : a.n = b.n /\ a.cr = b.cr /\ (a = b \/ (b \in A /\ a = spent(b)))
      OBVIOUS
    <3>1. CASE a \in allocs \ A
      <4>1. a \in allocs /\ a.n = a.n /\ a.cr = a.cr /\ (a = a \/ (a \in A /\ a = spent(a)))
        BY <3>1
      <4> QED BY <4>1
    <3>2. CASE a \in {spent(b) : b \in A}
      <4>1. PICK b \in A : a = spent(b)
        BY <3>2
      <4>2. b \in allocs /\ a.n = b.n /\ a.cr = b.cr
        BY <4>1, <1>1, <1>2
      <4> QED BY <4>1, <4>2
    <3> QED BY <3>1, <3>2, <1>2
  <2>3. Unique(allocs')
    <3> SUFFICES ASSUME NEW a \in allocs', NEW b \in allocs', a.n = b.n, a.cr = b.cr PROVE a = b
      BY DEF Unique
    <3>1. PICK x \in allocs : a.n = x.n /\ a.cr = x.cr /\ (a = x \/ (x \in A /\ a = spent(x)))
      BY <2>2
    <3>2. PICK y \in allocs : b.n = y.n /\ b.cr = y.cr /\ (b = y \/ (y \in A /\ b = spent(y)))
      BY <2>2
    <3>3. x = y
      BY <3>1, <3>2 DEF Sound, Unique
    <3>4. x \in A => a = spent(x) /\ b = spent(x)
      BY <3>1, <3>2, <3>3, <1>2, <1>4
    <3> QED BY <3>1, <3>2, <3>3, <3>4
  <2> QED BY <2>1, <2>3
<1>6. \A B \in SUBSET A : Priced({spent(a) : a \in B}) /\ Cents({spent(a) : a \in B}) = Cents(B)
  <2> SUFFICES ASSUME NEW B \in SUBSET A
               PROVE  Priced({spent(a) : a \in B}) /\ Cents({spent(a) : a \in B}) = Cents(B)
    OBVIOUS
  <2>1. PICK f : f = [a \in B |-> spent(a)]
    OBVIOUS
  <2>2. DOMAIN f = B /\ \A a \in B : f[a] = spent(a)
    BY <2>1
  <2>3. /\ \A a \in B : f[a].cents = a.cents
        /\ \A a, b \in B : f[a] = f[b] => a = b
    BY <2>2, <1>1, <1>2, <1>3
  <2>4. Priced(B)
    BY <1>2, Prices
  <2>5. {f[a] : a \in B} = {spent(a) : a \in B}
    BY <2>2
  <2> QED BY <2>2, <2>3, <2>4, <2>5, CentsMapped
<1>7. IsFiniteSet(allocs')
  <2>1. IsFiniteSet({spent(a) : a \in A})
    BY <1>6 DEF Priced
  <2>2. IsFiniteSet(allocs \ A)
    BY FS_Subset DEF Sound
  <2> QED BY <2>1, <2>2, <1>2, FS_Union
<1>8. \A c : Cents(Of(allocs', c)) = Cents(Of(allocs, c))
  <2> SUFFICES ASSUME NEW c PROVE Cents(Of(allocs', c)) = Cents(Of(allocs, c))
    OBVIOUS
  <2> DEFINE rest == Of(allocs \ A, c)
             B == Of(A, c)
             new == {spent(a) : a \in B}
  <2>1. Of(allocs', c) = rest \cup new /\ Of(allocs, c) = rest \cup B
    BY <1>1, <1>2 DEF Of
  <2>2. rest \cap new = {} /\ rest \cap B = {}
    BY <1>4 DEF Of
  <2>3. B \in SUBSET A
    BY DEF Of
  <2>4. Priced(rest) /\ Priced(B)
    BY <1>2, Prices
  <2>5. Priced(new) /\ Cents(new) = Cents(B)
    BY <2>3, <1>6
  <2> HIDE DEF rest, B, new
  <2> QED BY <2>1, <2>2, <2>4, <2>5, CentsBoth
<1>9. Conserved' /\ CanceledStaysEmpty' /\ left' \in [Credits -> Nat]
  BY <1>8 DEF Sound, Conserved, CanceledStaysEmpty
<1>10. \A a \in allocs' : \E b \in allocs : a.n = b.n
  BY <1>1, <1>2
<1>11. ASSUME NEW d
       PROVE  /\ Held(d)' = Held(d) \ A /\ Used(d) \subseteq Used(d)'
              /\ (\A a \in A : a.ch # d) => Held(d)' = Held(d) /\ Used(d)' = Used(d)
  <2>1. Held(d)' = Held(d) \ A
    BY <1>1, <1>2 DEF Held, On
  <2>2. Used(d) \subseteq Used(d)'
    BY <1>2 DEF Used, On
  <2>3. (\A a \in A : a.ch # d) => Held(d) \cap A = {}
    BY DEF Held, On
  <2>4. (\A a \in A : a.ch # d) => Used(d)' \subseteq Used(d)
    BY <1>1, <1>2 DEF Used, On
  <2> QED BY <2>1, <2>2, <2>3, <2>4
<1>12. A = {} => allocs' = allocs
  BY <1>2
<1> QED BY <1>5, <1>7, <1>9, <1>10, <1>11, <1>12 DEF Sound

\* The cents of a credit are in some of its allocations and in the others.
LEMMA CentsSplit ==
  ASSUME Sound, NEW A \in SUBSET allocs, NEW c
  PROVE  /\ Cents(Of(A, c)) \in Nat /\ Cents(Of(allocs \ A, c)) \in Nat
         /\ Priced(Of(allocs \ A, c))
         /\ Cents(Of(allocs, c)) = Cents(Of(allocs \ A, c)) + Cents(Of(A, c))
<1>1. allocs \ A \in SUBSET allocs
  OBVIOUS
<1>2. /\ Priced(Of(A, c)) /\ Priced(Of(allocs \ A, c))
      /\ Cents(Of(A, c)) \in Nat /\ Cents(Of(allocs \ A, c)) \in Nat
  BY <1>1, Prices
<1>3. /\ Of(allocs, c) = Of(allocs \ A, c) \cup Of(A, c)
      /\ Of(allocs \ A, c) \cap Of(A, c) = {}
  BY DEF Of
<1> QED BY <1>2, <1>3, CentsBoth

\* Those of A are given back: what each credit has left is more by as much, unless canceled.
LEMMA GivingBack ==
  ASSUME Sound, NEW A \in SUBSET allocs, left' = Back(A), allocs' = allocs \ A,
         UNCHANGED <<canceled, debited>>
  PROVE  /\ Sound'
         /\ A = {} => allocs' = allocs
         /\ \A a \in allocs' : \E b \in allocs : a.n = b.n
         /\ \A d : /\ Held(d)' = Held(d) \ A /\ Used(d)' = Used(d) \ A
                   /\ (\A a \in A : a.ch # d) => Held(d)' = Held(d) /\ Used(d)' = Used(d)
<1>1. \A c \in Credits : /\ Cents(Of(A, c)) \in Nat /\ Cents(Of(allocs \ A, c)) \in Nat
                         /\ Cents(Of(allocs, c)) = Cents(Of(allocs \ A, c)) + Cents(Of(A, c))
  BY CentsSplit
<1>2. left \in [Credits -> Nat]
  BY DEF Sound
<1>3. \A c \in Credits : left'[c] = IF c \in canceled THEN left[c] ELSE left[c] + Cents(Of(A, c))
  BY DEF Back
<1>4. left' \in [Credits -> Nat]
  BY <1>1, <1>2 DEF Back
<1>5. Conserved'
  <2> SUFFICES ASSUME NEW c \in Credits \ canceled
               PROVE  left'[c] + Cents(Of(allocs', c)) + debited[c] = Amount[c]
    BY DEF Conserved
  <2>1. left[c] + Cents(Of(allocs, c)) + debited[c] = Amount[c] /\ left[c] \in Nat
    BY <1>2 DEF Sound, Conserved
  <2>2. left'[c] = left[c] + Cents(Of(A, c))
    BY <1>3
  <2>3. Cents(Of(allocs', c)) = Cents(Of(allocs \ A, c))
    OBVIOUS
  <2>4. left'[c] + Cents(Of(allocs', c)) = left[c] + Cents(Of(allocs, c))
    <3>1. /\ Cents(Of(A, c)) \in Nat /\ Cents(Of(allocs \ A, c)) \in Nat
          /\ Cents(Of(allocs, c)) = Cents(Of(allocs \ A, c)) + Cents(Of(A, c))
      BY <1>1
    <3> DEFINE x == Cents(Of(A, c))
               y == Cents(Of(allocs \ A, c))
               z == Cents(Of(allocs, c))
               w == Cents(Of(allocs', c))
    <3>2. x \in Nat /\ y \in Nat /\ z = y + x /\ w = y /\ left'[c] = left[c] + x /\ left[c] \in Nat
      BY <3>1, <2>1, <2>2, <2>3
    <3> HIDE DEF x, y, z, w
    <3>3. left'[c] + w = left[c] + z
      BY <3>2
    <3> QED BY <3>3 DEF w, z
  <2> QED BY <2>1, <2>4
<1>6. CanceledStaysEmpty'
  <2> SUFFICES ASSUME NEW c \in canceled PROVE left'[c] = 0
    BY DEF CanceledStaysEmpty
  <2> QED BY <1>3 DEF Sound, CanceledStaysEmpty, Back
<1>7. allocs' \subseteq Alloc /\ IsFiniteSet(allocs') /\ Unique(allocs')
  BY FS_Subset DEF Sound, Unique
<1>8. ASSUME NEW d
      PROVE  /\ Held(d)' = Held(d) \ A /\ Used(d)' = Used(d) \ A
             /\ (\A a \in A : a.ch # d) => Held(d)' = Held(d) /\ Used(d)' = Used(d)
  BY DEF Held, Used, On
<1> QED BY <1>4, <1>5, <1>6, <1>7, <1>8 DEF Sound

\* The invariant says that the lots are sound.
LEMMA SoundNow ==
  ASSUME IInv
  PROVE  Sound
  BY DEF IInv, TypeOK, Sound, Unique

\* A transaction that leaves the credits sound, and touches only what is on the charge.
LEMMA LotsKept ==
  ASSUME CreditAssumption, IInv, NEW p \in Procs, Todo(p) # Done, NEW ch, ch = proc[p].ch,
         NEW u, Follows(p, u), Went(p, ch, u),
         NEW new \in Row, row' = [row EXCEPT ![ch] = new], new.gw = row[ch].gw,
         NEW more \in SUBSET {ch}, late' = late \cup more,
         made' = made, unguarded' = unguarded, debited' \in [Credits -> Nat], refunded' \subseteq recorded',
         \/ recorded' = recorded
         \/ recorded' = recorded \cup {<<ch, proc[p].gw>>} /\ proc[p].gw # 0,
         Sound',
         \A a \in allocs' : a.n = proc[p].gw \/ \E b \in allocs : a.n = b.n,
         \A d \in Charges \ {ch} : Held(d)' = Held(d) /\ Used(d)' = Used(d),
         Local(ch)'
  PROVE  IInv'
<1>1. /\ TypeOK /\ ch \in Charges /\ proc[p] \in Proc /\ MaxStarts \in Nat /\ NoCharge \notin Charges
  BY CreditAssumption, Worker DEF CreditAssumption
<1>2. proc[p].gw \in 0..MaxStarts /\ recorded \subseteq Charges \X (1..MaxStarts)
  BY <1>1 DEF TypeOK, Proc
<1>3. recorded' \subseteq Charges \X (1..MaxStarts)
  <2>1. proc[p].gw # 0 => <<ch, proc[p].gw>> \in Charges \X (1..MaxStarts)
    BY <1>1, <1>2
  <2> QED BY <2>1, <1>2
<1>4. TypeOK'
  <2>1. row' \in [Charges -> Row] /\ made' \in 0..MaxStarts /\ late' \subseteq Charges
        /\ unguarded' \subseteq Charges
    BY <1>1 DEF TypeOK
  <2>2. /\ proc' \in [Procs -> Proc]
        /\ \A q \in Procs : proc'[q].open => proc'[q].todo # <<>> /\ Head(proc'[q].todo) \in Transactions
    BY DEF Went, ProcsOK
  <2> QED BY <2>1, <2>2, <1>3 DEF TypeOK, Sound, Unique
<1>5. SameNumbers(p)
  <2>1. \A d \in Charges : row'[d].gw \in {row[d].gw, 0, proc[p].gw}
    BY <1>1 DEF TypeOK
  <2>2. \A d \in Charges, n \in 1..MaxStarts :
          /\ Entered(d, n) => Entered(d, n)'
          /\ Entered(d, n)' => Entered(d, n) \/ n = proc[p].gw
    BY DEF Entered
  <2> QED BY <2>1, <2>2 DEF SameNumbers
<1>6. Elsewhere(p, ch)
  <2>1. proc'[p].ch \in {ch, NoCharge}
    BY Frees DEF Turn, Went
  <2>2. \A d \in Charges \ {ch}, n \in 0..MaxStarts : Entered(d, n)' <=> Entered(d, n)
    BY DEF Entered
  <2>3. \A d \in Charges \ {ch} : row'[d] = row[d] /\ (d \in late' <=> d \in late)
                                 /\ (d \in unguarded' <=> d \in unguarded)
    BY <1>1 DEF TypeOK
  <2> QED BY <2>1, <2>2, <2>3 DEF Elsewhere, Went
<1>7. Turn(p, u) /\ IsFiniteSet(allocs') /\ Conserved' /\ CanceledStaysEmpty'
  BY DEF Went, Sound
<1> QED BY <1>4, <1>5, <1>6, <1>7, StepKept

\* What p read and is as it was is on its charge.
LEMMA Hits ==
  ASSUME NEW p \in Procs, Planned(p), NEW ch, ch = proc[p].ch
  PROVE  /\ Hit(p, "reserved") = Held(ch) \cap proc[p].seen
         /\ Hit(p, "consumed") = Used(ch) \cap proc[p].seen
         /\ \A rest \in Again(p) :
              /\ Restored(p, rest) \subseteq Held(ch) \cup Used(ch)
              /\ Held(ch) \ Restored(p, rest) \subseteq Held(ch) \ proc[p].seen
              /\ Used(ch) \ Restored(p, rest) = Used(ch) \ proc[p].seen
  BY DEF Planned, Hit, Held, Used, On, Again, Restored

\* What is set aside or spent on a charge are allocations of that charge.
LEMMA OnCharge ==
  /\ \A d : /\ Held(d) \subseteq allocs /\ Used(d) \subseteq allocs /\ Held(d) \cap Used(d) = {}
            /\ Held(d) \subseteq {a \in allocs : a.st = "reserved"}
            /\ \A a \in Held(d) \cup Used(d) : a.ch = d
  BY DEF Held, Used, On

\* Who comes too late says so.
LEMMA Late ==
  ASSUME NEW p \in Procs, NEW ch, ch = proc[p].ch
  PROVE  /\ TooLate(p, ch) \in SUBSET {ch} /\ SpentTooLate(p, ch) \in SUBSET {ch}
         /\ row[ch].gw # 0 /\ row[ch].gw # proc[p].gw =>
              ch \in TooLate(p, ch) /\ ch \in SpentTooLate(p, ch) /\ Outdated(p)
         /\ Outdated(p) => ch \in TooLate(p, ch)
         /\ row[ch].gw # proc[p].gw => ch \in SpentTooLate(p, ch)
         /\ (\E q \in Procs \ {p} : Mine(q, ch) /\ At(q, "reread")) =>
              ch \in TooLate(p, ch) /\ ch \in SpentTooLate(p, ch)
  BY DEF TooLate, SpentTooLate, Outdated, Mine

\* The release: what was set aside goes back, and nothing is left of it on the charge.
LEMMA ReleaseKept ==
  ASSUME CreditAssumption, IInv, NEW p \in Procs, Release(p)
  PROVE  IInv'
<1>0. PICK ch, u, seen : ch = proc[p].ch /\ u = Tail(Todo(p)) /\ seen = proc[p].seen
  OBVIOUS
<1>1. Todo(p) # Done /\ Head(Todo(p)) = "release" /\ proc[p].open
  BY DEF Release, Writes, At, Todo, Done
<1>2. /\ TypeOK /\ ch \in Charges /\ row[ch] \in Row /\ Todo(p) \in Plans /\ Planned(p) /\ Mine(p, ch)
  BY <1>0, <1>1, Worker
<1>3. \/ Todo(p) \in {ToUnprice, ToUnhold} /\ u \in {ToReprice, ToLetGo}
      \/ Todo(p) = ToSweep /\ u = ToPrice
      \/ Todo(p) = ToRelease /\ u = Done
      \/ Todo(p) = ToReleaseAndFree /\ u = ToFree
  <2>1. Todo(p) \in {ToUnprice, ToUnhold, ToSweep, ToRelease, ToReleaseAndFree}
    BY <1>1, <1>2, PlansBy
  <2>2. /\ Tail(ToUnprice) = ToReprice /\ Tail(ToUnhold) = ToLetGo /\ Tail(ToSweep) = ToPrice
        /\ Tail(ToRelease) = Done /\ Tail(ToReleaseAndFree) = ToFree
    BY EachPlan DEF Begins
  <2> QED BY <2>1, <2>2, <1>0
<1>4. /\ Todo(p) \notin Issuing \cup Closing \cup Undoing \cup Labelling
      /\ u \in Plans \ (Issuing \cup Closing \cup Recorded)
      /\ u \in Owned => Owner(p) /\ Todo(p) \in LettingGo
      /\ u \in Sweeping => Todo(p) \in Sweeping
      /\ u # Done => Head(u) \in {"price", "unclaim", "finally"}
  <2>1. CASE Todo(p) \in {ToUnprice, ToUnhold} /\ u \in {ToReprice, ToLetGo}
    <3>1. /\ Todo(p) \in LettingGo /\ Todo(p) \notin Issuing \cup Closing \cup Recorded
          /\ u \in LettingGo /\ u \notin Issuing \cup Closing \cup Sweeping \cup Recorded
      BY <2>1, Kinds
    <3>2. Head(u) \in {"price", "unclaim"}
      BY <2>1, EachPlan DEF Begins
    <3> QED BY <3>1, <3>2, Kept DEF Owner, Owned
  <2>2. CASE Todo(p) = ToSweep /\ u = ToPrice
    <3>1. /\ Todo(p) \in Sweeping /\ Todo(p) \notin Owned \cup Recorded
          /\ u \in Sweeping /\ u \notin Owned \cup Recorded
      BY <2>2, Kinds
    <3>2. Head(u) = "price"
      BY <2>2, EachPlan DEF Begins
    <3> QED BY <3>1, <3>2, Kept DEF Owned
  <2>3. CASE Todo(p) = ToRelease /\ u = Done
    <3>1. Todo(p) \notin Owned \cup Recorded /\ u \notin Owned \cup Sweeping \cup Recorded
      BY <2>3, Kinds
    <3>2. u \in Plans
      BY <2>3 DEF Plans, Loose
    <3> QED BY <3>1, <3>2, <2>3, Kept DEF Owned
  <2>4. CASE Todo(p) = ToReleaseAndFree /\ u = ToFree
    <3>1. Todo(p) \notin Owned \cup Recorded /\ u \notin Owned \cup Sweeping \cup Recorded
      BY <2>4, Kinds
    <3>2. u \in Plans /\ Head(u) = "finally"
      BY <2>4, EachPlan DEF Plans, Loose, Begins
    <3> QED BY <3>1, <3>2, <2>4, Kept DEF Owned
  <2> QED BY <2>1, <2>2, <2>3, <2>4, <1>3
<1>5. PICK A, more : A = Hit(p, "reserved") /\ more = TooLate(p, ch)
  OBVIOUS
<1>6. PICK new : new \in {[row[ch] EXCEPT !.noted = 0], row[ch]} /\ row' = [row EXCEPT ![ch] = new]
  <2>1. PICK rest : row' = [row EXCEPT ![ch].noted = IF rest \subseteq A THEN 0 ELSE @]
    BY <1>0, <1>5 DEF Release
  <2>2. CASE rest \subseteq A
    <3>1. row' = [row EXCEPT ![ch] = [row[ch] EXCEPT !.noted = 0]]
      BY <2>1, <2>2, <1>2 DEF TypeOK
    <3> QED BY <3>1
  <2>3. CASE ~(rest \subseteq A)
    <3>1. row' = [row EXCEPT ![ch] = row[ch]]
      BY <2>1, <2>3, <1>2 DEF TypeOK, Row
    <3> QED BY <3>1
  <2> QED BY <2>2, <2>3
<1>7. /\ new \in Row /\ new.st = row[ch].st /\ new.gw = row[ch].gw /\ new.busy = row[ch].busy
      /\ new.cents = row[ch].cents /\ new.asked = row[ch].asked
  <2>1. CASE new = [row[ch] EXCEPT !.noted = 0]
    <3>1. 0 \in Nat
      OBVIOUS
    <3> QED BY <3>1, <2>1, <1>2 DEF Row
  <2> QED BY <2>1, <1>2, <1>6
<1>8. /\ left' = Back(A) /\ allocs' = allocs \ A /\ late' = late \cup more
      /\ UNCHANGED <<canceled, debited, recorded, refunded, made, unguarded>>
      /\ proc' = [proc EXCEPT ![p] = With(p, u)]
  BY <1>0, <1>5 DEF Release, Advance, Then, Todo
<1>9. A = Held(ch) \cap seen /\ A \subseteq allocs
  BY <1>0, <1>2, <1>5, Hits, OnCharge
<1>10. /\ Sound'
       /\ \A a \in allocs' : \E b \in allocs : a.n = b.n
       /\ \A d \in Charges \ {ch} : Held(d)' = Held(d) /\ Used(d)' = Used(d)
       /\ Held(ch)' = Held(ch) \ seen /\ Used(ch)' = Used(ch)
  <2>1. A \in SUBSET allocs /\ UNCHANGED <<canceled, debited>> /\ Sound
    BY <1>8, <1>9, SoundNow
  <2>2. /\ Sound'
        /\ \A a \in allocs' : \E b \in allocs : a.n = b.n
        /\ \A d : /\ Held(d)' = Held(d) \ A /\ Used(d)' = Used(d) \ A
                  /\ (\A a \in A : a.ch # d) => Held(d)' = Held(d) /\ Used(d)' = Used(d)
    BY <2>1, <1>8, GivingBack
  <2>3. \A a \in A : a.ch = ch /\ a \notin Used(ch)
    BY <1>9, OnCharge
  <2> QED BY <2>2, <2>3, <1>9
<1>11. /\ Went(p, ch, u) /\ Todo(p)' = u /\ proc'[p].open = FALSE
       /\ \A s : At(p, s)' <=> (u # Done /\ Head(u) = s)
       /\ u # Done => Mine(p, ch)' /\ proc'[p].ch = ch /\ proc'[p].gw = proc[p].gw
       /\ \A q \in Procs \ {p} : proc'[q] = proc[q]
       /\ row'[ch] = new
       /\ \A n : Entered(ch, n)' <=> Entered(ch, n)
  <2>1. row'[ch] = new
    BY <1>2, <1>6 DEF TypeOK
  <2>2. 0 \in Nat /\ u \in Plans
    BY <1>4
  <2>3. Went(p, ch, u)
    BY <2>2, <1>0, <1>2, <1>8, Turned
  <2> QED BY <2>1, <2>3, <1>8 DEF Went, Entered
<1>12. /\ more \in SUBSET {ch}
       /\ row[ch].gw # 0 /\ row[ch].gw # proc[p].gw => ch \in late'
       /\ (\E q \in Procs \ {p} : Mine(q, ch) /\ At(q, "reread")) => ch \in late'
  BY <1>0, <1>5, <1>8, Late
<1>a. Follows(p, u)
  <2>1. u = Done \/ Head(u) # "record"
    BY <1>4
  <2> QED BY <2>1, <1>4 DEF Follows
<1>b. debited' \in [Credits -> Nat] /\ refunded' \subseteq recorded'
  BY <1>2, <1>8 DEF TypeOK
<1>c. /\ made' = made /\ recorded' = recorded
      /\ \A a \in allocs' : a.n = proc[p].gw \/ \E b \in allocs : a.n = b.n
  BY <1>8, <1>10
<1>d. /\ Todo(p) # Done /\ row' = [row EXCEPT ![ch] = new] /\ new \in Row /\ new.gw = row[ch].gw
      /\ more \in SUBSET {ch} /\ late' = late \cup more /\ unguarded' = unguarded
      /\ Follows(p, u) /\ Went(p, ch, u) /\ Sound' /\ ch = proc[p].ch
      /\ \A d \in Charges \ {ch} : Held(d)' = Held(d) /\ Used(d)' = Used(d)
  BY <1>0, <1>1, <1>6, <1>7, <1>8, <1>10, <1>11, <1>12, <1>a
<1> SUFFICES ASSUME ch \notin unguarded PROVE Guarded(ch)'
  BY <1>b, <1>c, <1>d, LotsKept DEF Local
<1>g. /\ Ledger(ch) /\ Claimed(ch) /\ Watched(ch) /\ Cleared(ch) /\ GivenBack(ch) /\ Backed(ch)
      /\ u \in Owned => row[ch].gw = 0
  BY <1>0, <1>1, <1>4, Guarding
<1>13. Ledger(ch)'
  BY <1>2, <1>g, <1>7, <1>11 DEF Ledger
<1>14. Claimed(ch)'
  <2>1. Owner(p)' => Owner(p) /\ row[ch].gw = 0 /\ row[ch].busy
    BY <1>2, <1>g, <1>4, <1>11 DEF Owner, Claimed, Mine
  <2>2. Todo(p)' \notin Closing
    BY <1>4, <1>11
  <2> QED BY <2>1, <2>2, <1>2, <1>g, <1>7, <1>11, ClaimedKept
<1>15. Watched(ch)'
  <2>1. row'[ch].gw # 0 /\ Entered(ch, row[ch].gw)' => Held(ch)' = {}
    BY <1>2, <1>g, <1>7, <1>10, <1>11 DEF Watched
  <2>2. ~At(p, "reread")'
    BY <1>4, <1>11
  <2> QED BY <2>1, <2>2, <1>2, <1>g, <1>7, <1>8, <1>10, <1>11, <1>12, WatchedKept
<1>16. Cleared(ch)'
  <2>1. Clears(p, ch) => Held(ch)' = {}
    BY <1>0, <1>1, <1>4, <1>10 DEF Clears, At, Todo
  <2> QED BY <2>1, <1>2, <1>g, <1>7, <1>10, <1>11, ClearedKept
<1>17. GivenBack(ch)'
  <2>1. ~GivesBack(p, ch)
    BY <1>1, <1>4 DEF GivesBack, At, Todo
  <2> QED BY <2>1, <1>2, <1>g, <1>7, <1>8, <1>10, <1>11, GivenBackKept
<1>18. Backed(ch)'
  <2>1. ~At(p, "release")'
    BY <1>4, <1>11
  <2>2. CASE row[ch].gw # proc[p].gw \/ row[ch].gw = 0
    BY <2>1, <2>2, <1>2, <1>g, <1>7, <1>8, <1>11, <1>12, BackedKept
  <2>3. CASE row[ch].gw = proc[p].gw /\ row[ch].gw # 0 /\ row[ch].st = "pending"
    <3>1. At(p, "release") /\ Overridden(ch)
      BY <2>3, <1>0, <1>1 DEF Overridden, At, Todo, Done
    <3>2. row[ch].asked = Price
      BY <2>3, <3>1, <1>2, <1>g DEF Backed
    <3>3. Held(ch)' = {} /\ Cents(Held(ch)') = 0
      <4>1. Held(ch)' = {}
        BY <2>3, <1>0, <1>1, <1>2, <1>g, <1>10 DEF Watched, Mine
      <4> QED BY <4>1, CentsOne, FS_EmptySet
    <3>4. Price + 0 = Price
      BY CreditAssumption DEF CreditAssumption
    <3>5. Announced(ch) => Announced(ch)'
      BY <1>0, <1>4, <1>7, <1>11 DEF Announced, Todo
    <3>6. ch \notin late' => ch \notin late
      BY <1>8
    <3> QED BY <2>3, <3>2, <3>3, <3>4, <3>5, <3>6, <1>2, <1>g, <1>7, <1>10, <1>11 DEF Backed
  <2> QED BY <2>2, <2>3, <1>7, <1>11 DEF Backed
<1> QED BY <1>13, <1>14, <1>15, <1>16, <1>17, <1>18 DEF Guarded

\* The spending at the end of a payment or a settlement.
LEMMA ConsumeKept ==
  ASSUME CreditAssumption, IInv, NEW p \in Procs, Consume(p)
  PROVE  IInv'
<1>0. PICK ch, u, seen : ch = proc[p].ch /\ u = Tail(Todo(p)) /\ seen = proc[p].seen
  OBVIOUS
<1>1. Todo(p) # Done /\ Head(Todo(p)) = "consume" /\ proc[p].open
  BY DEF Consume, Writes, At, Todo, Done
<1>2. /\ TypeOK /\ ch \in Charges /\ row[ch] \in Row /\ Todo(p) \in Plans /\ Planned(p) /\ Mine(p, ch)
  BY <1>0, <1>1, Worker
<1>3. \/ Todo(p) = ToConsume /\ u = Done
      \/ Todo(p) = ToConsumeAndFree /\ u = ToFree
  <2>1. Todo(p) \in {ToConsume, ToConsumeAndFree}
    BY <1>1, <1>2, PlansBy
  <2>2. Tail(ToConsume) = Done /\ Tail(ToConsumeAndFree) = ToFree
    BY EachPlan DEF Begins
  <2> QED BY <2>1, <2>2, <1>0
<1>4. /\ Todo(p) \notin Closing \cup Undoing \cup Labelling
      /\ Todo(p) \in Recorded
      /\ u = Done \/ Head(u) = "finally"
      /\ u \in Plans \ (Owned \cup Sweeping \cup Recorded)
  <2>1. Todo(p) \in Recorded /\ Todo(p) \notin Closing \cup Undoing \cup Labelling
    BY <1>3, Kinds DEF Owned
  <2>2. u \in Plans \ (Owned \cup Sweeping \cup Recorded)
    BY <1>3, Kinds DEF Plans, Loose
  <2>3. u = Done \/ Head(u) = "finally"
    BY <1>3, EachPlan DEF Begins
  <2> QED BY <2>1, <2>2, <2>3
<1>5. PICK A, more : A = Hit(p, "reserved") /\ more = SpentTooLate(p, ch)
  OBVIOUS
<1>6. /\ allocs' = Spent(A) /\ late' = late \cup more
      /\ UNCHANGED <<left, canceled, debited, row, recorded, refunded, made, unguarded>>
      /\ proc' = [proc EXCEPT ![p] = With(p, u)]
  BY <1>0, <1>5 DEF Consume, Advance, Then, Todo
<1>7. A = Held(ch) \cap seen /\ A \subseteq {a \in allocs : a.st = "reserved"}
  BY <1>0, <1>2, <1>5, Hits, OnCharge
<1>8. /\ Sound'
      /\ \A a \in allocs' : \E b \in allocs : a.n = b.n
      /\ \A d \in Charges \ {ch} : Held(d)' = Held(d) /\ Used(d)' = Used(d)
      /\ Held(ch)' = Held(ch) \ seen
      /\ A = {} => Held(ch)' = Held(ch) /\ Used(ch)' = Used(ch)
  <2>1. Sound /\ UNCHANGED <<left, canceled, debited>>
    BY <1>6, SoundNow
  <2>2. /\ Sound'
        /\ \A a \in allocs' : \E b \in allocs : a.n = b.n
        /\ \A d : /\ Held(d)' = Held(d) \ A
                  /\ (\A a \in A : a.ch # d) => Held(d)' = Held(d) /\ Used(d)' = Used(d)
    BY <2>1, <1>6, <1>7, Spending
  <2>3. \A a \in A : a.ch = ch
    BY <1>7, OnCharge
  <2> QED BY <2>2, <2>3, <1>7
<1>9. /\ Went(p, ch, u) /\ Todo(p)' = u /\ proc'[p].open = FALSE
      /\ ~At(p, "reread")' /\ ~At(p, "release")'
      /\ \A q \in Procs \ {p} : proc'[q] = proc[q]
      /\ row' = [row EXCEPT ![ch] = row[ch]] /\ row'[ch] = row[ch]
      /\ \A n : Entered(ch, n)' <=> Entered(ch, n)
  <2>1. row' = [row EXCEPT ![ch] = row[ch]] /\ row'[ch] = row[ch]
    BY <1>2, <1>6 DEF TypeOK
  <2>2. 0 \in Nat /\ u \in Plans
    BY <1>4
  <2>3. Went(p, ch, u)
    BY <2>2, <1>0, <1>2, <1>6, Turned
  <2> QED BY <2>1, <2>3, <1>4, <1>6 DEF Went, Entered
<1>10. /\ more \in SUBSET {ch}
       /\ row[ch].gw # proc[p].gw => ch \in late'
       /\ (\E q \in Procs \ {p} : Mine(q, ch) /\ At(q, "reread")) => ch \in late'
  BY <1>0, <1>5, <1>6, Late
<1>a. Follows(p, u) /\ debited' \in [Credits -> Nat] /\ refunded' \subseteq recorded'
  BY <1>2, <1>4, <1>6 DEF Follows, Owned, TypeOK
<1> SUFFICES ASSUME ch \notin unguarded PROVE Guarded(ch)'
  BY <1>0, <1>1, <1>2, <1>6, <1>8, <1>9, <1>10, <1>a, LotsKept, ZenonT(60) DEF Local
<1>g. /\ Ledger(ch) /\ Claimed(ch) /\ Watched(ch) /\ Cleared(ch) /\ GivenBack(ch) /\ Backed(ch)
      /\ Entered(ch, proc[p].gw) /\ proc[p].gw # 0
  BY <1>0, <1>1, <1>2, <1>4, Guarding DEF Entered, TypeOK
<1>11. row[ch].gw = proc[p].gw => A = {}
  BY <1>g, <1>7 DEF Watched
<1>12. Ledger(ch)'
  BY <1>2, <1>g, <1>9 DEF Ledger
<1>13. Claimed(ch)'
  <2>1. ~Owner(p)'
    BY <1>4, <1>9 DEF Owner
  <2> QED BY <2>1, <1>2, <1>g, <1>9, ClaimedKept
<1>14. Watched(ch)'
  <2>1. row'[ch].gw # 0 /\ Entered(ch, row[ch].gw)' => Held(ch)' = {}
    BY <1>2, <1>g, <1>8, <1>9 DEF Watched
  <2> QED BY <2>1, <1>2, <1>g, <1>6, <1>8, <1>9, <1>10, <1>11, WatchedKept
<1>15. Cleared(ch)'
  <2>1. Clears(p, ch) => Held(ch)' = {}
    BY <1>0, <1>1, <1>4, <1>8 DEF Clears, At, Todo
  <2> QED BY <2>1, <1>2, <1>g, <1>8, <1>9, ClearedKept
<1>16. GivenBack(ch)'
  <2>1. ~GivesBack(p, ch)
    BY <1>1, <1>4 DEF GivesBack, At, Todo
  <2>2. CASE row[ch].gw # proc[p].gw
    BY <2>2, <1>2, <1>g, <1>9, <1>10, GivenBackKept
  <2>3. CASE row[ch].gw = proc[p].gw
    BY <2>1, <2>3, <1>2, <1>g, <1>6, <1>8, <1>9, <1>11, GivenBackKept
  <2> QED BY <2>2, <2>3
<1>17. Backed(ch)'
  <2>1. CASE row[ch].gw # proc[p].gw
    BY <2>1, <1>2, <1>g, <1>9, <1>10, BackedKept
  <2>2. CASE row[ch].gw = proc[p].gw
    BY <2>2, <1>2, <1>g, <1>4, <1>6, <1>9, BackedKept
  <2> QED BY <2>1, <2>2
<1> QED BY <1>12, <1>13, <1>14, <1>15, <1>16, <1>17 DEF Guarded

\* Who undoes a payment gives back what is on the charge.
LEMMA GaveBack ==
  ASSUME CreditAssumption, IInv, NEW p \in Procs, proc[p].open, NEW ch, ch = proc[p].ch, NEW u,
         \/ Todo(p) = ToRestoreFirst /\ u = ToReverseLast
         \/ Todo(p) = ToRestore /\ u = Done
         \/ Todo(p) = ToRestoreAndFree /\ u = ToFree
         \/ Todo(p) = ToReverse /\ u = ToRefund
         \/ Todo(p) = ToReverseLast /\ u = Done,
         proc' = [proc EXCEPT ![p] = With(p, u)],
         NEW rest \in Again(p), NEW A, A = Restored(p, rest), left' = Back(A), allocs' = allocs \ A,
         late' = late \cup TooLate(p, ch),
         UNCHANGED <<canceled, debited, row, recorded, made, unguarded>>, refunded' \subseteq recorded
  PROVE  IInv'
<1>1. /\ Todo(p) # Done /\ Todo(p) \in Recorded /\ Todo(p) \notin Labelling /\ ~At(p, "release")
      /\ u \in Plans \ (Issuing \cup LettingGo \cup Sweeping \cup Labelling)
      /\ \/ /\ Todo(p) \in Closing \cap Undoing /\ u \in Closing \cap Undoing /\ u \in Recorded
            /\ Head(u) = "refunded"
         \/ /\ At(p, "restore") /\ Todo(p) \notin Closing \cup Undoing /\ u \notin Closing \cup Undoing
            /\ u = Done \/ Head(u) \in {"reverse", "finally"}
         \/ At(p, "reverse") /\ Todo(p) \notin Closing \cup Undoing /\ u = Done /\ u \notin Closing \cup Undoing
  <2>1. CASE Todo(p) = ToRestoreFirst /\ u = ToReverseLast
    <3>1. /\ Todo(p) # Done /\ Head(Todo(p)) = "restore" /\ u # Done /\ Head(u) = "reverse"
      BY <2>1, EachPlan DEF Begins
    <3>2. /\ Todo(p) \in Recorded /\ Todo(p) \notin Owned \cup Undoing \cup Labelling
          /\ u \in Recorded /\ u \notin Owned \cup Sweeping \cup Labelling \cup Undoing
      BY <2>1, Kinds
    <3> QED BY <3>1, <3>2, Kept DEF Owned, At, Todo, Done
  <2>2. CASE Todo(p) = ToRestore /\ u = Done
    <3>1. /\ Todo(p) # Done /\ Head(Todo(p)) = "restore"
      BY <2>2, EachPlan DEF Begins
    <3>2. /\ Todo(p) \in Recorded /\ Todo(p) \notin Owned \cup Undoing \cup Labelling
          /\ u \notin Owned \cup Sweeping \cup Recorded
      BY <2>2, Kinds
    <3>3. u \in Plans
      BY <2>2 DEF Plans, Loose
    <3> QED BY <2>2, <3>1, <3>2, <3>3, Kept DEF Owned, At, Todo, Done
  <2>3. CASE Todo(p) = ToReverse /\ u = ToRefund
    <3>1. /\ Todo(p) # Done /\ Head(Todo(p)) = "reverse" /\ u # Done /\ Head(u) = "refunded"
      BY <2>3, EachPlan DEF Begins
    <3>2. /\ Todo(p) \in Closing \cap Undoing /\ Todo(p) \notin Labelling
          /\ u \in Closing \cap Undoing /\ u \notin Issuing \cup LettingGo \cup Sweeping \cup Labelling
      BY <2>3, Kinds
    <3> QED BY <3>1, <3>2, Kept DEF At, Todo, Done
  <2>4. CASE Todo(p) = ToReverseLast /\ u = Done
    <3>1. /\ Todo(p) # Done /\ Head(Todo(p)) = "reverse"
      BY <2>4, EachPlan DEF Begins
    <3>2. /\ Todo(p) \in Recorded /\ Todo(p) \notin Owned \cup Undoing \cup Labelling
          /\ u \notin Owned \cup Sweeping \cup Recorded
      BY <2>4, Kinds
    <3>3. u \in Plans
      BY <2>4 DEF Plans, Loose
    <3> QED BY <2>4, <3>1, <3>2, <3>3, Kept DEF Owned, At, Todo, Done
  <2>5. CASE Todo(p) = ToRestoreAndFree /\ u = ToFree
    <3>1. /\ Todo(p) # Done /\ Head(Todo(p)) = "restore" /\ u # Done /\ Head(u) = "finally"
      BY <2>5, EachPlan DEF Begins
    <3>2. /\ Todo(p) \in Recorded /\ Todo(p) \notin Owned \cup Undoing \cup Labelling
          /\ u \notin Owned \cup Sweeping \cup Recorded
      BY <2>5, Kinds
    <3>3. u \in Plans
      BY <2>5 DEF Plans, Loose
    <3> QED BY <3>1, <3>2, <3>3, Kept DEF Owned, At, Todo, Done
  <2> QED BY <2>1, <2>2, <2>3, <2>4, <2>5
<1>2. /\ TypeOK /\ ch \in Charges /\ row[ch] \in Row /\ Todo(p) \in Plans /\ Planned(p) /\ Mine(p, ch)
      /\ ch \in unguarded \/ Entered(ch, proc[p].gw)
  BY <1>1, Worker
<1>3. PICK seen, more : seen = proc[p].seen /\ more = TooLate(p, ch)
  OBVIOUS
<1>4. /\ A \subseteq Held(ch) \cup Used(ch) /\ A \in SUBSET allocs
      /\ Held(ch) \ A \subseteq Held(ch) \ seen /\ Used(ch) \ A = Used(ch) \ seen
      /\ \A a \in A : a.ch = ch
  <2>1. /\ A \subseteq Held(ch) \cup Used(ch)
        /\ Held(ch) \ A \subseteq Held(ch) \ seen /\ Used(ch) \ A = Used(ch) \ seen
    BY <1>2, <1>3, Hits
  <2> QED BY <2>1, OnCharge
<1>5. /\ Sound'
      /\ \A a \in allocs' : \E b \in allocs : a.n = b.n
      /\ \A d \in Charges \ {ch} : Held(d)' = Held(d) /\ Used(d)' = Used(d)
      /\ Held(ch)' \subseteq Held(ch) \ seen /\ Used(ch)' = Used(ch) \ seen
  <2>1. Sound /\ UNCHANGED <<canceled, debited>>
    BY SoundNow
  <2>2. /\ Sound'
        /\ \A a \in allocs' : \E b \in allocs : a.n = b.n
        /\ \A d : /\ Held(d)' = Held(d) \ A /\ Used(d)' = Used(d) \ A
                  /\ (\A a \in A : a.ch # d) => Held(d)' = Held(d) /\ Used(d)' = Used(d)
    BY <2>1, <1>4, GivingBack
  <2> QED BY <2>2, <1>4
<1>6. /\ Went(p, ch, u) /\ Todo(p)' = u /\ proc'[p].open = FALSE
      /\ \A s : At(p, s)' <=> (u # Done /\ Head(u) = s)
      /\ u # Done => Mine(p, ch)' /\ proc'[p].ch = ch /\ proc'[p].gw = proc[p].gw
      /\ \A q \in Procs \ {p} : proc'[q] = proc[q]
      /\ row' = [row EXCEPT ![ch] = row[ch]] /\ row'[ch] = row[ch]
      /\ \A n : Entered(ch, n)' <=> Entered(ch, n)
  <2>1. row' = [row EXCEPT ![ch] = row[ch]] /\ row'[ch] = row[ch]
    BY <1>2 DEF TypeOK
  <2>2. 0 \in Nat /\ u \in Plans
    BY <1>1
  <2>3. Went(p, ch, u)
    BY <2>2, <1>2, Turned
  <2> QED BY <2>1, <2>3 DEF Went, Entered
<1>7. /\ more \in SUBSET {ch} /\ late' = late \cup more
      /\ Outdated(p) => ch \in late'
      /\ row[ch].gw # 0 /\ row[ch].gw # proc[p].gw => ch \in late'
      /\ (\E q \in Procs \ {p} : Mine(q, ch) /\ At(q, "reread")) => ch \in late'
  BY <1>3, Late
<1>a. Follows(p, u)
  <2>1. ch \in unguarded \/ <<ch, proc[p].gw>> \in recorded'
    BY <1>2 DEF Entered
  <2>2. u = Done \/ Head(u) # "record"
    BY <1>1
  <2> QED BY <2>1, <2>2, <1>1 DEF Follows
<1>b. debited' \in [Credits -> Nat] /\ refunded' \subseteq recorded'
  BY <1>2 DEF TypeOK
<1>c. made' = made /\ recorded' = recorded /\ \A a \in allocs' : a.n = proc[p].gw \/ \E b \in allocs : a.n = b.n
  BY <1>5
<1>d. /\ Todo(p) # Done /\ row' = [row EXCEPT ![ch] = row[ch]] /\ row[ch] \in Row
      /\ more \in SUBSET {ch} /\ late' = late \cup more
      /\ Follows(p, u) /\ Went(p, ch, u) /\ Sound'
      /\ \A d \in Charges \ {ch} : Held(d)' = Held(d) /\ Used(d)' = Used(d)
  BY <1>1, <1>2, <1>5, <1>6, <1>7, <1>a
<1> SUFFICES ASSUME ch \notin unguarded PROVE Guarded(ch)'
  BY <1>b, <1>c, <1>d, LotsKept DEF Local
<1>g. /\ Ledger(ch) /\ Claimed(ch) /\ Watched(ch) /\ Cleared(ch) /\ GivenBack(ch) /\ Backed(ch)
      /\ Entered(ch, proc[p].gw)
      /\ Todo(p) \in Closing => row[ch].gw = proc[p].gw
  BY <1>1, Guarding
<1>8. Ledger(ch)'
  BY <1>2, <1>g, <1>6 DEF Ledger
<1>9. u \in Closing => Todo(p) \in Closing /\ u # Done
  <2>1. Done \notin Closing
    BY Kinds DEF Owned
  <2> QED BY <2>1, <1>1
<1>10. Claimed(ch)'
  <2>1. Owner(p)' => u \in Closing /\ Owner(p) /\ row[ch].busy
    BY <1>1, <1>2, <1>g, <1>6, <1>9 DEF Owner, Owned, Claimed, Mine
  <2>2. Todo(p)' \notin Issuing \cup LettingGo
    BY <1>1, <1>6
  <2> QED BY <2>1, <2>2, <1>2, <1>g, <1>6, <1>9, ClaimedKept
<1>11. Watched(ch)'
  <2>1. row'[ch].gw # 0 /\ Entered(ch, row[ch].gw)' => Held(ch)' = {}
    BY <1>2, <1>g, <1>5, <1>6 DEF Watched
  <2>2. ~At(p, "reread")'
    BY <1>1, <1>6
  <2> QED BY <2>1, <2>2, <1>2, <1>g, <1>5, <1>6, <1>7, WatchedKept
<1>12. At(p, "restore") => ~At(p, "reverse") /\ ~At(p, "reread") /\ ~At(p, "dropped")
  BY DEF At
<1>13. At(p, "reverse") => ~At(p, "restore") /\ ~At(p, "reread") /\ ~At(p, "dropped")
                           /\ ~At(p, "reserve") /\ ~At(p, "consume")
  BY DEF At
<1>14. Cleared(ch)'
  <2>1. CASE u \in Closing
    <3>1. Clears(p, ch)'
      BY <2>1, <1>6, <1>9 DEF Clears
    <3> QED BY <3>1, <1>2, <1>g, <1>5, <1>6, ClearedKept
  <2>2. CASE u \notin Closing
    <3>1. Clears(p, ch) => Held(ch)' = {}
      BY <2>2, <1>1, <1>3, <1>5, <1>12, <1>13 DEF Clears
    <3> QED BY <3>1, <1>2, <1>g, <1>5, <1>6, ClearedKept
  <2> QED BY <2>1, <2>2
<1>15. GivenBack(ch)'
  <2>1. CASE u \in Closing
    <3>1. GivesBack(p, ch)'
      BY <2>1, <1>1, <1>6, <1>9 DEF GivesBack
    <3>2. Entered(ch, row[ch].gw)'
      BY <2>1, <1>2, <1>g, <1>6, <1>9
    <3> QED BY <3>1, <3>2, <1>2, <1>g, <1>6, GivenBackKept
  <2>2. CASE Outdated(p)
    BY <2>2, <1>2, <1>g, <1>6, <1>7, GivenBackKept
  <2>3. CASE u \notin Closing /\ ~Outdated(p)
    <3>1. row[ch].gw = 0 \/ Entered(ch, row[ch].gw)'
      BY <2>3, <1>2, <1>g, <1>6 DEF Outdated
    <3>2. GivesBack(p, ch) => Used(ch)' = {}
      BY <2>3, <1>1, <1>3, <1>5 DEF GivesBack
    <3>3. CASE GivesBack(p, ch)
      BY <3>1, <3>2, <3>3, <1>2, <1>g, <1>6, GivenBackKept
    <3>4. CASE ~GivesBack(p, ch)
      BY <3>4, <1>2, <1>g, <1>5, <1>6, <1>7, GivenBackKept
    <3> QED BY <3>3, <3>4
  <2> QED BY <2>1, <2>2, <2>3
<1>16. Backed(ch)'
  <2>1. ~At(p, "release")'
    BY <1>1, <1>6
  <2>2. CASE row[ch].gw = 0
    BY <2>2, <1>6 DEF Backed
  <2>3. CASE row[ch].gw # 0 /\ row[ch].gw # proc[p].gw
    BY <2>1, <2>3, <1>2, <1>g, <1>6, <1>7, BackedKept
  <2>4. CASE row[ch].gw = proc[p].gw
    BY <2>1, <2>4, <1>1, <1>2, <1>g, <1>6, <1>7, BackedKept
  <2> QED BY <2>2, <2>3, <2>4
<1> QED BY <1>8, <1>10, <1>11, <1>14, <1>15, <1>16 DEF Guarded

\* The restoration, in either order with the ledger.
LEMMA RestoreKept ==
  ASSUME CreditAssumption, IInv, NEW p \in Procs, Restore(p)
  PROVE  IInv'
<1>0. PICK ch, u : ch = proc[p].ch /\ u = Tail(Todo(p))
  OBVIOUS
<1>1. Todo(p) # Done /\ Head(Todo(p)) = "restore" /\ proc[p].open
  BY DEF Restore, Writes, At, Todo, Done
<1>2. TypeOK /\ Todo(p) \in Plans
  BY <1>0, <1>1, Worker
<1>3. \/ Todo(p) = ToRestoreFirst /\ u = ToReverseLast
      \/ Todo(p) = ToRestore /\ u = Done
      \/ Todo(p) = ToRestoreAndFree /\ u = ToFree
  BY <1>0, <1>1, <1>2, PlansBy, EachPlan DEF Begins
<1>4. PICK rest \in Again(p) : /\ left' = Back(Restored(p, rest))
                              /\ allocs' = allocs \ Restored(p, rest)
  BY DEF Restore
<1>5. /\ late' = late \cup TooLate(p, ch)
      /\ UNCHANGED <<canceled, debited, row, recorded, made, unguarded>> /\ refunded' \subseteq recorded
      /\ proc' = [proc EXCEPT ![p] = With(p, u)]
  BY <1>0, <1>2 DEF Restore, Advance, Then, Todo, TypeOK
<1> QED BY <1>0, <1>1, <1>3, <1>4, <1>5, GaveBack

\* A step that leaves the charge alone: p goes on, or is done.
LEMMA GoesOn ==
  ASSUME CreditAssumption, IInv, NEW p \in Procs, Todo(p) # Done, NEW ch, ch = proc[p].ch,
         NEW u, u \in Plans \ (Issuing \cup LettingGo \cup Sweeping),
         proc' = [proc EXCEPT ![p] = With(p, u)], Sound', debited' \in [Credits -> Nat],
         UNCHANGED <<canceled, allocs, row, recorded, refunded, made, late, unguarded>>,
         Todo(p) \notin Labelling,
         ~\E s \in {"reserve", "release", "consume", "restore", "reread", "dropped"} : At(p, s),
         \/ /\ u \in Closing /\ u # Done /\ Head(u) \notin {"record", "reread", "release"}
            /\ Todo(p) \in Closing /\ (Todo(p) \in Undoing => u \in Undoing)
            /\ ch \in unguarded \/ Entered(ch, proc[p].gw)
         \/ u = Done /\ Todo(p) \notin Closing \cup Undoing
  PROVE  IInv'
<1>1. /\ TypeOK /\ ch \in Charges /\ row[ch] \in Row /\ Planned(p) /\ Mine(p, ch)
  BY Worker
<1>2. /\ Went(p, ch, u) /\ Todo(p)' = u /\ proc'[p].open = FALSE
      /\ \A s : At(p, s)' <=> (u # Done /\ Head(u) = s)
      /\ u # Done => Mine(p, ch)' /\ proc'[p].ch = ch /\ proc'[p].gw = proc[p].gw
      /\ \A q \in Procs \ {p} : proc'[q] = proc[q]
      /\ row' = [row EXCEPT ![ch] = row[ch]] /\ row'[ch] = row[ch]
      /\ Held(ch)' = Held(ch) /\ Used(ch)' = Used(ch)
      /\ \A n : Entered(ch, n)' <=> Entered(ch, n)
  <2>1. row' = [row EXCEPT ![ch] = row[ch]] /\ row'[ch] = row[ch]
    BY <1>1 DEF TypeOK
  <2>2. 0 \in Nat /\ u \in Plans
    OBVIOUS
  <2>3. Went(p, ch, u)
    BY <2>2, <1>1, Turned
  <2> QED BY <2>1, <2>3, SameAllocs DEF Went
<1>3. ~At(p, "reread")' /\ ~At(p, "release")'
  BY <1>2
<1>a. Follows(p, u)
  <2>1. u \in Recorded => ch \in unguarded \/ <<ch, proc[p].gw>> \in recorded'
    <3>1. Done \notin Recorded
      BY Kinds
    <3> QED BY <3>1 DEF Entered
  <2> QED BY <2>1 DEF Follows
<1>b. /\ row[ch].gw = row[ch].gw /\ {} \in SUBSET {ch} /\ late' = late \cup {}
      /\ made' = made /\ recorded' = recorded /\ refunded' \subseteq recorded'
      /\ \A a \in allocs' : a.n = proc[p].gw \/ \E b \in allocs : a.n = b.n
  BY <1>1 DEF TypeOK
<1>c. \A d \in Charges \ {ch} : Held(d)' = Held(d) /\ Used(d)' = Used(d)
  BY SameAllocs
<1> SUFFICES ASSUME ch \notin unguarded PROVE Guarded(ch)'
  BY <1>1, <1>2, <1>a, <1>b, <1>c, LotsKept DEF Local
<1>g. /\ Ledger(ch) /\ Claimed(ch) /\ Watched(ch) /\ Cleared(ch) /\ GivenBack(ch) /\ Backed(ch)
      /\ Todo(p) \in Closing => row[ch].gw = proc[p].gw
  BY Guarding
<1>4. Ledger(ch)'
  BY <1>1, <1>g, <1>2 DEF Ledger
<1>5. Claimed(ch)'
  <2>1. Done \notin Owned
    BY Kinds
  <2>2. Owner(p)' => u \in Closing /\ Owner(p) /\ row[ch].busy
    BY <1>1, <1>g, <1>2, <2>1 DEF Owner, Owned, Claimed, Mine
  <2>3. Todo(p)' \notin Issuing \cup LettingGo
    BY <1>2
  <2>4. u \in Closing => Todo(p) \in Closing /\ u # Done
    BY <2>1 DEF Owned
  <2> QED BY <2>2, <2>3, <2>4, <1>1, <1>g, <1>2, ClaimedKept
<1>6. Watched(ch)'
  <2>1. row'[ch].gw # 0 /\ Entered(ch, row[ch].gw)' => Held(ch)' = {}
    BY <1>1, <1>g, <1>2 DEF Watched
  <2> QED BY <2>1, <1>1, <1>g, <1>2, <1>3, WatchedKept
<1>7. Cleared(ch)' /\ GivenBack(ch)'
  <2>1. CASE u \in Closing /\ u # Done /\ Todo(p) \in Closing /\ (Todo(p) \in Undoing => u \in Undoing)
             /\ Entered(ch, proc[p].gw)
    <3>1. Clears(p, ch)'
      BY <2>1, <1>2 DEF Clears
    <3>2. GivesBack(p, ch) => GivesBack(p, ch)'
      BY <2>1, <1>2 DEF GivesBack
    <3>3. Entered(ch, row[ch].gw)'
      BY <2>1, <1>1, <1>g, <1>2
    <3>4. Cleared(ch)'
      BY <3>1, <1>1, <1>g, <1>2, ClearedKept
    <3>5. CASE GivesBack(p, ch)
      <4>1. GivesBack(p, ch)' /\ GivenBack(ch) /\ \A q \in Procs \ {p} : proc'[q] = proc[q]
        BY <3>2, <3>5, <1>1, <1>g, <1>2
      <4> QED BY <4>1, <3>3, <3>4, GivenBackKept
    <3>6. CASE ~GivesBack(p, ch)
      <4>1. /\ GivenBack(ch) /\ \A q \in Procs \ {p} : proc'[q] = proc[q]
            /\ row'[ch].st = row[ch].st /\ row'[ch].gw = row[ch].gw /\ (ch \in late => ch \in late')
            /\ Entered(ch, row[ch].gw) => Entered(ch, row[ch].gw)'
            /\ Used(ch)' \subseteq Used(ch)
        BY <1>1, <1>g, <1>2
      <4> QED BY <4>1, <3>4, <3>6, GivenBackKept
    <3> QED BY <3>4, <3>5, <3>6
  <2>2. CASE u = Done /\ Todo(p) \notin Closing \cup Undoing
    <3>1. ~Clears(p, ch) /\ ~GivesBack(p, ch)
      BY <2>2 DEF Clears, GivesBack
    <3> QED BY <3>1, <1>1, <1>g, <1>2, ClearedKept, GivenBackKept
  <2> QED BY <2>1, <2>2
<1>8. Backed(ch)'
  <2>1. ~At(p, "release")
    OBVIOUS
  <2> QED BY <2>1, <1>1, <1>g, <1>2, <1>3, BackedKept
<1> QED BY <1>4, <1>5, <1>6, <1>7, <1>8 DEF Guarded

\* The ledger's side of a refund.
LEMMA ReverseKept ==
  ASSUME CreditAssumption, IInv, NEW p \in Procs, Reverse(p)
  PROVE  IInv'
<1>0. PICK ch, u : ch = proc[p].ch /\ u = Tail(Todo(p))
  OBVIOUS
<1>1. Todo(p) # Done /\ Head(Todo(p)) = "reverse" /\ proc[p].open
  BY DEF Reverse, Writes, At, Todo, Done
<1>2. /\ TypeOK /\ ch \in Charges /\ row[ch] \in Row /\ Todo(p) \in Plans /\ Planned(p) /\ Mine(p, ch)
      /\ Todo(p) \in Recorded => ch \in unguarded \/ Entered(ch, proc[p].gw)
  BY <1>0, <1>1, Worker
<1>3. \/ Todo(p) = ToReverse /\ u = ToRefund
      \/ Todo(p) = ToReverseLast /\ u = Done
  BY <1>0, <1>1, <1>2, PlansBy, EachPlan DEF Begins
<1>4. /\ UNCHANGED <<canceled, debited, row, recorded, made, unguarded>>
      /\ proc' = [proc EXCEPT ![p] = With(p, u)]
  BY <1>0 DEF Reverse, Advance, Then, Todo
<1>5. /\ \/ Todo(p) \in Closing \cap Undoing /\ u \in Closing \cap Undoing /\ u # Done /\ Head(u) = "refunded"
         \/ Todo(p) \notin Closing \cup Undoing /\ u = Done /\ u \notin Closing \cup Undoing
      /\ Todo(p) \in Recorded /\ Todo(p) \notin Labelling
      /\ u \in Plans \ (Issuing \cup LettingGo \cup Sweeping \cup Labelling)
  <2>1. CASE Todo(p) = ToReverse /\ u = ToRefund
    <3>1. u # Done /\ Head(u) = "refunded"
      BY <2>1, EachPlan DEF Begins
    <3>2. /\ Todo(p) \in Closing \cap Undoing /\ Todo(p) \notin Labelling
          /\ u \in Closing \cap Undoing /\ u \notin Issuing \cup LettingGo \cup Sweeping \cup Labelling
      BY <2>1, Kinds
    <3> QED BY <3>1, <3>2, Kept
  <2>2. CASE Todo(p) = ToReverseLast /\ u = Done
    <3>1. /\ Todo(p) \in Recorded /\ Todo(p) \notin Owned \cup Undoing \cup Labelling
          /\ u \notin Owned \cup Sweeping \cup Recorded
      BY <2>2, Kinds
    <3>2. u \in Plans
      BY <2>2 DEF Plans, Loose
    <3> QED BY <2>2, <3>1, <3>2, Kept DEF Owned
  <2> QED BY <2>1, <2>2, <1>3
<1>6. CASE <<ch, proc[p].gw>> \notin refunded /\ <<ch, proc[p].gw>> \in recorded
  <2>1. PICK rest \in Again(p) : /\ left' = Back(Restored(p, rest))
                                /\ allocs' = allocs \ Restored(p, rest)
    BY <1>0, <1>6 DEF Reverse
  <2>2. /\ late' = late \cup TooLate(p, ch)
        /\ refunded' = refunded \cup {<<ch, proc[p].gw>>}
    BY <1>0, <1>6 DEF Reverse
  <2>3. refunded' \subseteq recorded
    BY <2>2, <1>2, <1>6 DEF TypeOK
  <2> QED BY <1>0, <1>1, <1>3, <1>4, <2>1, <2>2, <2>3, GaveBack
<1>7. CASE <<ch, proc[p].gw>> \in refunded \/ <<ch, proc[p].gw>> \notin recorded
  <2>1. UNCHANGED <<left, allocs, refunded, late>>
    BY <1>0, <1>7 DEF Reverse
  <2>2. Sound' /\ debited' \in [Credits -> Nat]
    BY <1>2, <1>4, <2>1, SoundNow DEF Sound, Conserved, CanceledStaysEmpty, TypeOK
  <2>3. ~\E s \in {"reserve", "release", "consume", "restore", "reread", "dropped"} : At(p, s)
    BY <1>1 DEF At, Todo
  <2>4. \/ /\ u \in Closing /\ u # Done /\ Head(u) \notin {"record", "reread", "release"}
           /\ Todo(p) \in Closing /\ (Todo(p) \in Undoing => u \in Undoing)
           /\ ch \in unguarded \/ Entered(ch, proc[p].gw)
        \/ u = Done /\ Todo(p) \notin Closing \cup Undoing
    BY <1>2, <1>5
  <2> QED BY <1>0, <1>1, <1>4, <1>5, <2>1, <2>2, <2>3, <2>4, GoesOn
<1> QED BY <1>6, <1>7

\* A debit by hand takes from what is free.
LEMMA DebitKept ==
  ASSUME CreditAssumption, IInv, NEW p \in Procs, Debit(p)
  PROVE  IInv'
<1>0. PICK ch, u, had, c : /\ ch = proc[p].ch /\ u = Tail(Todo(p))
                           /\ had = {d \in Credits : proc[p].snap[d] > 0} /\ c = Min(had)
  OBVIOUS
<1>1. Todo(p) # Done /\ Head(Todo(p)) = "debit"
  BY DEF Debit, Writes, At, Todo, Done
<1>2. TypeOK /\ Todo(p) \in Plans
  BY <1>0, <1>1, Worker
<1>3. Todo(p) = ToDebit /\ u = Done
  BY <1>0, <1>1, <1>2, PlansBy, EachPlan DEF Begins
<1>4. /\ \/ had # {} /\ c \notin canceled /\ left[c] > 0
            /\ left' = [left EXCEPT ![c] = @ - 1] /\ debited' = [debited EXCEPT ![c] = @ + 1]
         \/ UNCHANGED <<left, debited>>
      /\ UNCHANGED <<canceled, allocs, row, recorded, refunded, made, late, unguarded>>
      /\ proc' = [proc EXCEPT ![p] = With(p, u)]
  BY <1>0 DEF Debit, Advance, Then, Todo
<1>5. had # {} => c \in Credits
  <2>1. had \subseteq Credits /\ Credits \subseteq Nat
    BY <1>0 DEF Credits
  <2>2. had # {} => \E n \in had : \A m \in had : n <= m
    BY <2>1, LeastNumber
  <2> QED BY <2>1, <2>2, <1>0 DEF Min
<1>6. Sound' /\ debited' \in [Credits -> Nat]
  <2>1. Sound
    BY SoundNow
  <2>2. CASE UNCHANGED <<left, debited>>
    BY <2>1, <2>2, <1>2, <1>4 DEF Sound, Conserved, CanceledStaysEmpty, TypeOK
  <2>3. CASE had # {} /\ c \notin canceled /\ left[c] > 0
             /\ left' = [left EXCEPT ![c] = @ - 1] /\ debited' = [debited EXCEPT ![c] = @ + 1]
    <3>1. /\ c \in Credits /\ left \in [Credits -> Nat] /\ debited \in [Credits -> Nat]
          /\ canceled \subseteq Credits
      BY <2>3, <1>2, <1>5 DEF TypeOK
    <3>2. /\ left' \in [Credits -> Nat] /\ debited' \in [Credits -> Nat]
          /\ left'[c] = left[c] - 1 /\ debited'[c] = debited[c] + 1
          /\ \A d \in Credits \ {c} : left'[d] = left[d] /\ debited'[d] = debited[d]
      <4>1. left[c] - 1 \in Nat /\ debited[c] + 1 \in Nat
        BY <2>3, <3>1
      <4> QED BY <4>1, <2>3, <3>1
    <3>3. Conserved'
      <4> SUFFICES ASSUME NEW d \in Credits \ canceled
                   PROVE  left'[d] + Cents(Of(allocs, d)) + debited'[d] = Amount[d]
        BY <1>4 DEF Conserved
      <4>1. left[d] + Cents(Of(allocs, d)) + debited[d] = Amount[d]
        BY <2>1 DEF Sound, Conserved
      <4>2. Cents(Of(allocs, d)) \in Nat /\ left[d] \in Nat /\ debited[d] \in Nat
        BY <2>1, <3>1, Prices
      <4>3. CASE d = c
        BY <4>1, <4>2, <4>3, <3>2
      <4>4. CASE d # c
        BY <4>1, <4>4, <3>2
      <4> QED BY <4>3, <4>4
    <3>4. CanceledStaysEmpty'
      BY <2>1, <2>3, <3>1, <3>2, <1>4 DEF Sound, CanceledStaysEmpty
    <3> QED BY <2>1, <3>2, <3>3, <3>4, <1>4 DEF Sound
  <2> QED BY <2>2, <2>3, <1>4
<1>7. /\ Todo(p) \notin Owned \cup Recorded /\ u \in Plans \ (Owned \cup Sweeping \cup Recorded)
  <2>1. u \in Plans
    BY <1>3 DEF Plans, Loose
  <2> QED BY <2>1, <1>3, Kinds
<1>8. ~\E s \in {"reserve", "release", "consume", "restore", "reread", "dropped"} : At(p, s)
  BY <1>1 DEF At, Todo
<1> QED BY <1>0, <1>1, <1>3, <1>4, <1>6, <1>7, <1>8, Kept, GoesOn DEF Owned

\* The payment enters the ledger and spends the credit, or was there already.
LEMMA RecordKept ==
  ASSUME CreditAssumption, IInv, NEW p \in Procs, Record(p)
  PROVE  IInv'
<1>0. PICK ch, t, seen : ch = proc[p].ch /\ t = Todo(p) /\ seen = proc[p].seen
  OBVIOUS
<1>1. t # Done /\ Todo(p) # Done /\ Head(t) = "record" /\ At(p, "record") /\ proc[p].open
  BY <1>0 DEF Record, Writes, At, Todo, Done
<1>2. /\ TypeOK /\ ch \in Charges /\ row[ch] \in Row /\ t \in Plans /\ Planned(p) /\ Mine(p, ch)
  BY <1>0, <1>1, Worker
<1>3. \/ t = ToSettle /\ Tail(t) = ToSettled
      \/ t = ToRecord /\ Tail(t) = ToPay
  BY <1>0, <1>1, <1>2, PlansBy, EachPlan DEF Begins
<1>4. proc[p].gw # 0
  BY <1>1, <1>2 DEF Planned
<1>5. /\ t = ToSettle => t \in Closing /\ t \notin Recorded
      /\ t = ToRecord => t \notin Owned \cup Sweeping \cup Recorded
      /\ ToSettled \in Closing \cap Labelling
      /\ ToSettled \notin Issuing \cup LettingGo \cup Sweeping \cup Undoing
      /\ ToPay \in Labelling /\ ToPay \notin Owned \cup Sweeping \cup Undoing
      /\ ToSettled # Done /\ Head(ToSettled) = "settled" /\ ToPay # Done /\ Head(ToPay) = "paid"
  <2>1. ToSettled # Done /\ Head(ToSettled) = "settled" /\ ToPay # Done /\ Head(ToPay) = "paid"
    BY EachPlan DEF Begins
  <2>2. /\ ToSettled \in Closing \cap Labelling
        /\ ToSettled \notin Issuing \cup LettingGo \cup Sweeping \cup Undoing
        /\ ToPay \in Labelling /\ ToPay \notin Owned \cup Sweeping \cup Undoing
    BY Kinds
  <2>3. /\ t = ToSettle => t \in Closing /\ t \notin Recorded
        /\ t = ToRecord => t \notin Owned \cup Sweeping \cup Recorded
    BY Kinds
  <2> QED BY <2>1, <2>2, <2>3
<1>6. t \notin Labelling \cup Undoing
  BY <1>3, <1>5, Kept
<1>7. CASE <<ch, proc[p].gw>> \in recorded
  <2>1. /\ UNCHANGED <<left, canceled, debited, allocs, row, recorded, refunded, made, late, unguarded>>
        /\ proc' = [proc EXCEPT ![p] = With(p, IF "paid" \in Range(t) THEN Done ELSE Tail(t))]
    BY <1>0, <1>7 DEF Record, Then, Todo, Done
  <2>2. t = ToRecord => "paid" \in Range(t)
    BY DEF ToRecord, Range
  <2>3. t = ToSettle => "paid" \notin Range(t)
    BY DEF ToSettle, Range
  <2>4. PICK u : /\ \/ t = ToRecord /\ u = Done
                    \/ t = ToSettle /\ u = ToSettled
                 /\ proc' = [proc EXCEPT ![p] = With(p, u)]
    BY <2>1, <2>2, <2>3, <1>3
  <2>5. ~\E s \in {"reserve", "release", "consume", "restore", "reread", "dropped"} : At(p, s)
    BY <1>0, <1>1 DEF At, Todo
  <2>6. u \in Plans \ (Issuing \cup LettingGo \cup Sweeping)
    <3>1. CASE u = Done
      <4>1. Done \notin Owned \cup Sweeping /\ Done \in Plans
        BY Kinds DEF Plans, Loose
      <4> QED BY <4>1, <3>1 DEF Owned
    <3>2. CASE u = ToSettled
      <4>1. ToSettled \in Plans
        BY <1>5 DEF Plans, Owned
      <4> QED BY <4>1, <3>2, <1>5
    <3> QED BY <3>1, <3>2, <2>4
  <2>7. \/ /\ u \in Closing /\ u # Done /\ Head(u) \notin {"record", "reread", "release"}
           /\ Todo(p) \in Closing /\ (Todo(p) \in Undoing => u \in Undoing)
           /\ Entered(ch, proc[p].gw)
        \/ u = Done /\ Todo(p) \notin Closing \cup Undoing
    BY <2>4, <1>0, <1>5, <1>6, <1>7 DEF Entered, Owned
  <2>8. Sound' /\ debited' \in [Credits -> Nat]
    BY <1>2, <2>1, SoundNow DEF Sound, Conserved, CanceledStaysEmpty, TypeOK
  <2>9. Todo(p) \notin Labelling
    BY <1>0, <1>6
  <2> QED BY <1>0, <1>1, <2>1, <2>4, <2>5, <2>6, <2>7, <2>8, <2>9, GoesOn
<1>8. CASE <<ch, proc[p].gw>> \notin recorded
  <2>1. PICK u, A, more : u = Tail(t) /\ A = Hit(p, "reserved") /\ more = SpentTooLate(p, ch)
    OBVIOUS
  <2>2. /\ allocs' = Spent(A) /\ late' = late \cup more
        /\ recorded' = recorded \cup {<<ch, proc[p].gw>>}
        /\ UNCHANGED <<left, canceled, debited, row, refunded, made, unguarded>>
        /\ proc' = [proc EXCEPT ![p] = With(p, u)]
    BY <2>1, <1>0, <1>8 DEF Record, Advance, Then, Todo
  <2>3. A = Held(ch) \cap seen /\ A \subseteq {a \in allocs : a.st = "reserved"}
    BY <2>1, <1>0, <1>2, Hits, OnCharge
  <2>4. /\ Sound'
        /\ \A a \in allocs' : \E b \in allocs : a.n = b.n
        /\ \A d \in Charges \ {ch} : Held(d)' = Held(d) /\ Used(d)' = Used(d)
        /\ Held(ch)' = Held(ch) \ seen
    <3>1. Sound /\ UNCHANGED <<left, canceled, debited>>
      BY <2>2, SoundNow
    <3>2. /\ Sound'
          /\ \A a \in allocs' : \E b \in allocs : a.n = b.n
          /\ \A d : /\ Held(d)' = Held(d) \ A
                    /\ (\A a \in A : a.ch # d) => Held(d)' = Held(d) /\ Used(d)' = Used(d)
      BY <3>1, <2>2, <2>3, Spending
    <3>3. \A a \in A : a.ch = ch
      BY <2>3, OnCharge
    <3> QED BY <3>2, <3>3, <2>3
  <2>5. /\ u \in Labelling /\ u \notin Issuing \cup LettingGo \cup Sweeping \cup Undoing
        /\ u # Done /\ Head(u) \in {"settled", "paid"} /\ u \in Plans
        /\ u \in Owned => u \in Closing /\ t \in Closing
        /\ t \in Closing => u \in Closing
        /\ t \notin Owned \/ t \in Closing
    <3>1. CASE t = ToSettle /\ u = ToSettled
      BY <3>1, <1>5, Kept DEF Owned
    <3>2. CASE t = ToRecord /\ u = ToPay
      BY <3>2, <1>5, Kept DEF Owned
    <3> QED BY <3>1, <3>2, <2>1, <1>3
  <2>6. /\ Went(p, ch, u) /\ Todo(p)' = u /\ proc'[p].open = FALSE
        /\ \A s : At(p, s)' <=> Head(u) = s
        /\ Mine(p, ch)' /\ proc'[p].ch = ch /\ proc'[p].gw = proc[p].gw
        /\ \A q \in Procs \ {p} : proc'[q] = proc[q]
        /\ row' = [row EXCEPT ![ch] = row[ch]] /\ row'[ch] = row[ch]
        /\ Entered(ch, proc[p].gw)' /\ ~Entered(ch, proc[p].gw)
        /\ \A n : Entered(ch, n) => Entered(ch, n)'
        /\ \A n : n # proc[p].gw => (Entered(ch, n)' <=> Entered(ch, n))
    <3>1. row' = [row EXCEPT ![ch] = row[ch]] /\ row'[ch] = row[ch]
      BY <1>2, <2>2 DEF TypeOK
    <3>2. 0 \in Nat /\ u \in Plans
      BY <2>5
    <3>3. Went(p, ch, u)
      BY <3>2, <1>0, <1>2, <2>2, Turned
    <3>4. /\ Entered(ch, proc[p].gw)' /\ ~Entered(ch, proc[p].gw)
          /\ \A n : Entered(ch, n) => Entered(ch, n)'
          /\ \A n : n # proc[p].gw => (Entered(ch, n)' <=> Entered(ch, n))
      <4>1. <<ch, proc'[p].gw>> \in recorded'
        BY <3>3, <2>2, <2>5 DEF Went
      <4>2. \A n : <<ch, n>> \in recorded' <=> (<<ch, n>> \in recorded \/ n = proc[p].gw)
        BY <2>2
      <4> QED BY <4>1, <4>2, <1>8 DEF Entered
    <3> QED BY <3>1, <3>3, <3>4, <2>5 DEF Went
  <2>7. /\ more \in SUBSET {ch}
        /\ row[ch].gw # proc[p].gw => ch \in late'
        /\ (\E q \in Procs \ {p} : Mine(q, ch) /\ At(q, "reread")) => ch \in late'
    BY <2>1, <2>2, <1>0, Late
  <2>8. ~At(p, "reread")' /\ ~At(p, "release")' /\ ~At(p, "release")
    BY <2>5, <2>6, <1>1 DEF At
  <2>a. Follows(p, u)
    <3>1. u \in Recorded => <<ch, proc[p].gw>> \in recorded'
      BY <2>2
    <3>2. Head(u) # "record"
      BY <2>5
    <3> QED BY <3>1, <3>2, <2>5, <1>0 DEF Follows
  <2>b. /\ debited' \in [Credits -> Nat] /\ refunded' \subseteq recorded' /\ made' = made
        /\ recorded' = recorded \cup {<<ch, proc[p].gw>>} /\ proc[p].gw # 0
        /\ unguarded' = unguarded
        /\ \A a \in allocs' : a.n = proc[p].gw \/ \E b \in allocs : a.n = b.n
    BY <1>2, <1>4, <2>2, <2>4 DEF TypeOK
  <2>c. Todo(p) # Done /\ late' = late \cup more /\ row[ch].gw = row[ch].gw
    BY <1>1, <2>2
  <2> SUFFICES ASSUME ch \notin unguarded PROVE Guarded(ch)'
    BY <1>0, <1>2, <2>4, <2>6, <2>7, <2>a, <2>b, <2>c, LotsKept DEF Local
  <2>g. /\ Ledger(ch) /\ Claimed(ch) /\ Watched(ch) /\ Cleared(ch) /\ GivenBack(ch) /\ Backed(ch)
        /\ Todo(p) \in Closing => row[ch].gw = proc[p].gw
    BY <1>0, <1>1, Guarding
  <2>9. row[ch].gw = proc[p].gw => Held(ch)' = {}
    BY <2>4, <1>0, <1>1, <1>2, <2>g, <1>4 DEF Watched
  <2>10. Ledger(ch)'
    BY <2>6, <1>2, <2>g DEF Ledger
  <2>11. Claimed(ch)'
    <3>1. Owner(p)' => u \in Closing /\ Owner(p) /\ row[ch].busy /\ row[ch].gw = proc[p].gw
      BY <2>5, <2>6, <1>0, <1>2, <2>g DEF Owner, Owned, Claimed, Mine
    <3>2. Todo(p)' \notin Issuing \cup LettingGo
      BY <2>5, <2>6
    <3>3. Todo(p)' \in Closing => Owner(p)'
      BY DEF Owner, Owned
    <3> QED BY <3>1, <3>2, <3>3, <2>6, <1>2, <2>g, ClaimedKept
  <2>12. Watched(ch)'
    <3>1. row'[ch].gw # 0 /\ Entered(ch, row[ch].gw)' => Held(ch)' = {}
      <4>1. CASE row[ch].gw = proc[p].gw
        BY <4>1, <2>9
      <4>2. CASE row[ch].gw # proc[p].gw
        BY <4>2, <2>4, <2>6, <1>2, <2>g DEF Watched
      <4> QED BY <4>1, <4>2
    <3>2. Held(ch)' \subseteq Held(ch) /\ (ch \in late => ch \in late')
      BY <2>2, <2>4
    <3> QED BY <3>1, <3>2, <2>6, <2>7, <2>8, <1>2, <2>g, WatchedKept
  <2>13. Cleared(ch)'
    <3>1. CASE t \in Closing
      <4>1. Clears(p, ch)'
        BY <3>1, <2>5, <2>6 DEF Clears
      <4> QED BY <4>1, <2>4, <2>6, <1>2, <2>g, ClearedKept
    <3>2. CASE t \notin Closing
      <4>1. ~Clears(p, ch)
        BY <3>2, <1>0, <1>1, <1>6 DEF Clears, At, Todo
      <4> QED BY <4>1, <2>4, <2>6, <1>2, <2>g, ClearedKept
    <3> QED BY <3>1, <3>2
  <2>14. GivenBack(ch)'
    <3>1. CASE row[ch].gw # proc[p].gw \/ row[ch].st # "refunded" \/ ch \in late'
      BY <3>1, <2>6, <2>7, <1>2, <2>g, GivenBackKept
    <3>2. CASE row[ch].gw = proc[p].gw /\ row[ch].st = "refunded" /\ ch \notin late'
      <4>1. ch \notin late
        BY <3>2, <2>2
      <4>2. PICK q \in Procs : proc[q].ch = ch /\ At(q, "restore") /\ Outdated(q)
        BY <3>2, <4>1, <2>6, <1>2, <2>g, <1>4 DEF GivenBack
      <4>3. q # p
        BY <4>2, <1>1 DEF At
      <4>4. proc'[q] = proc[q]
        BY <4>3, <2>6
      <4>5. proc'[q].ch = ch /\ At(q, "restore")' /\ Outdated(q)'
        BY <4>2, <4>4, <2>6 DEF At, Outdated
      <4>6. GivesBack(q, ch)'
        BY <4>5 DEF GivesBack
      <4>7. Entered(ch, row[ch].gw)'
        BY <3>2, <2>6
      <4> QED BY <4>6, <4>7 DEF GivenBack
    <3> QED BY <3>1, <3>2
  <2>15. Backed(ch)'
    <3>1. CASE row[ch].gw # proc[p].gw
      BY <3>1, <2>6, <2>7, <2>8, <1>2, <2>g, BackedKept
    <3>2. CASE row[ch].gw = proc[p].gw
      <4>1. Announced(ch)'
        BY <3>2, <2>5, <2>6 DEF Announced
      <4>2. Entered(ch, row[ch].gw)'
        BY <3>2, <2>6
      <4>3. Overridden(ch)' => Overridden(ch)
        BY <2>6, <2>8 DEF Overridden, At
      <4>4. ch \notin late' => ch \notin late
        BY <2>2
      <4> QED BY <4>1, <4>2, <4>3, <4>4, <2>6, <1>2, <2>g DEF Backed
    <3> QED BY <3>1, <3>2
  <2> QED BY <2>10, <2>11, <2>12, <2>13, <2>14, <2>15 DEF Guarded
<1> QED BY <1>7, <1>8

-----------------------------------------------------------------------------
(* The reservation of a price.                                             *)

\* Lacks is the function that its recursive definition describes.
LEMMA LacksFolds ==
  ASSUME CreditAssumption, NEW old, NEW stock
  PROVE  /\ Lacks(old, stock)[0] = Price - Floor
         /\ \A c \in Credits : Lacks(old, stock)[c] =
              Lacks(old, stock)[c - 1] - Takes(old, stock, c, Lacks(old, stock)[c - 1])
<1> DEFINE F(n) == CHOOSE f : f = [c \in 0..n |-> IF c = 0 THEN Price - Floor
                                                  ELSE f[c - 1] - Takes(old, stock, c, f[c - 1])]
           Good(n) == \E f : f = [c \in 0..n |-> IF c = 0 THEN Price - Floor
                                                 ELSE f[c - 1] - Takes(old, stock, c, f[c - 1])]
<1>1. Lacks(old, stock) = F(Last)
  BY DEF Lacks
<1>2. Good(0)
  <2>1. [c \in 0..0 |-> Price - Floor] = [c \in 0..0 |-> IF c = 0 THEN Price - Floor
          ELSE [d \in 0..0 |-> Price - Floor][c - 1]
               - Takes(old, stock, c, [d \in 0..0 |-> Price - Floor][c - 1])]
    OBVIOUS
  <2> QED BY <2>1
<1>3. ASSUME NEW n \in Nat, Good(n) PROVE Good(n + 1)
  <2>1. PICK f : f = [c \in 0..n |-> IF c = 0 THEN Price - Floor
                                     ELSE f[c - 1] - Takes(old, stock, c, f[c - 1])]
    BY <1>3
  <2> DEFINE g == [c \in 0..(n + 1) |-> IF c = 0 THEN Price - Floor
                                        ELSE f[c - 1] - Takes(old, stock, c, f[c - 1])]
  <2> HIDE DEF Good
  <2>2. \A c \in 0..n : g[c] = f[c]
    BY <2>1
  <2>3. \A c \in 0..(n + 1) : c # 0 => c - 1 \in 0..n
    OBVIOUS
  <2>4. g = [c \in 0..(n + 1) |-> IF c = 0 THEN Price - Floor
                                  ELSE g[c - 1] - Takes(old, stock, c, g[c - 1])]
    BY <2>2, <2>3
  <2> QED BY <2>4 DEF Good
<1> HIDE DEF Good
<1>4. \A n \in Nat : Good(n)
  <2> SUFFICES ASSUME {n \in Nat : ~Good(n)} # {} PROVE FALSE
    OBVIOUS
  <2>1. PICK n \in {m \in Nat : ~Good(m)} : \A m \in {k \in Nat : ~Good(k)} : n <= m
    BY LeastNumber
  <2>2. n # 0 /\ n - 1 \in Nat
    BY <1>2, <2>1
  <2>3. Good(n - 1)
    BY <2>1, <2>2
  <2> QED BY <1>3, <2>1, <2>2, <2>3
<1>5. Last \in Nat /\ Good(Last)
  BY <1>4, CreditAssumption DEF CreditAssumption
<1> DEFINE f == Lacks(old, stock)
<1>6. f = [c \in 0..Last |-> IF c = 0 THEN Price - Floor
                             ELSE f[c - 1] - Takes(old, stock, c, f[c - 1])]
  BY <1>1, <1>5 DEF Good
<1> HIDE DEF f
<1>7. /\ f[0] = Price - Floor
      /\ \A c \in Credits : f[c] = f[c - 1] - Takes(old, stock, c, f[c - 1])
  BY <1>5, <1>6 DEF Credits
<1> QED BY <1>7 DEF f

Part(old, stock, c) == Lacks(old, stock)[c - 1] - Lacks(old, stock)[c]

\* It falls by what each credit gives, which it has: one canceled gives nothing.
LEMMA LacksFall ==
  ASSUME CreditAssumption, NEW old, NEW stock, stock \in [Credits -> Nat],
         Back(old) \in [Credits -> Nat]
  PROVE  /\ \A c \in 0..Last : Lacks(old, stock)[c] \in 0..(Price - Floor)
         /\ \A c \in Credits : /\ Part(old, stock, c) \in 0..Back(old)[c]
                               /\ c \in canceled => Part(old, stock, c) = 0
                               /\ Lacks(old, stock)[c - 1] = Lacks(old, stock)[c] + Part(old, stock, c)
<1> DEFINE f == Lacks(old, stock)
           T == {c \in 0..Last : f[c] \notin 0..(Price - Floor)}
<1>1. /\ f[0] = Price - Floor /\ Price - Floor \in Nat /\ Last \in Nat /\ Credits = 1..Last
      /\ \A c \in Credits : f[c] = f[c - 1] - Takes(old, stock, c, f[c - 1])
  BY LacksFolds, CreditAssumption DEF CreditAssumption, Credits
<1>2. \A c \in Credits, n \in Nat : /\ Takes(old, stock, c, n) \in 0..n
                                    /\ Takes(old, stock, c, n) \in 0..Back(old)[c]
                                    /\ c \in canceled => Takes(old, stock, c, n) = 0
  <2> SUFFICES ASSUME NEW c \in Credits, NEW n \in Nat
               PROVE  /\ Takes(old, stock, c, n) \in 0..n
                      /\ Takes(old, stock, c, n) \in 0..Back(old)[c]
                      /\ c \in canceled => Takes(old, stock, c, n) = 0
    OBVIOUS
  <2>1. PICK read \in Nat, now \in Nat :
          /\ Takes(old, stock, c, n) = Gives(c, IF n < read THEN n ELSE read, now)
          /\ now = Back(old)[c]
    BY DEF Takes
  <2> QED BY <2>1 DEF Gives
<1> HIDE DEF f
<1>3. T = {}
  <2> SUFFICES ASSUME T # {} PROVE FALSE
    OBVIOUS
  <2>1. PICK c \in T : \A d \in T : c <= d
    <3>1. T \subseteq Nat
      OBVIOUS
    <3> HIDE DEF T
    <3> QED BY <3>1, LeastNumber
  <2>2. c # 0 /\ c \in 0..Last /\ f[c] \notin 0..(Price - Floor)
    BY <1>1, <2>1
  <2>3. c - 1 \in 0..Last /\ c \in Credits
    BY <1>1, <2>2
  <2>4. f[c - 1] \in 0..(Price - Floor)
    BY <2>1, <2>2, <2>3
  <2>5. Takes(old, stock, c, f[c - 1]) \in 0..f[c - 1] /\ f[c] = f[c - 1] - Takes(old, stock, c, f[c - 1])
    <3>1. f[c - 1] \in Nat
      BY <1>1, <2>4
    <3>2. Takes(old, stock, c, f[c - 1]) \in 0..f[c - 1]
      BY <1>2, <2>3, <3>1
    <3> QED BY <1>1, <2>3, <3>2
  <2>6. f[c] \in 0..(Price - Floor)
    BY <1>1, <2>4, <2>5
  <2> QED BY <2>2, <2>6
<1>4. ASSUME NEW c \in Credits
      PROVE  /\ f[c - 1] - f[c] \in 0..Back(old)[c]
             /\ c \in canceled => f[c - 1] - f[c] = 0
             /\ f[c - 1] = f[c] + (f[c - 1] - f[c])
  <2>1. c \in 0..Last /\ c - 1 \in 0..Last
    BY <1>1
  <2>2. f[c] \in 0..(Price - Floor) /\ f[c - 1] \in 0..(Price - Floor)
    BY <2>1, <1>3
  <2>3. /\ f[c] = f[c - 1] - Takes(old, stock, c, f[c - 1])
        /\ Takes(old, stock, c, f[c - 1]) \in 0..Back(old)[c] /\ Back(old)[c] \in Nat
        /\ c \in canceled => Takes(old, stock, c, f[c - 1]) = 0
    <3>1. f[c - 1] \in Nat
      BY <1>1, <2>2
    <3>2. /\ Takes(old, stock, c, f[c - 1]) \in 0..Back(old)[c]
          /\ c \in canceled => Takes(old, stock, c, f[c - 1]) = 0
      BY <1>2, <3>1
    <3> QED BY <1>1, <3>2
  <2>4. f[c - 1] - f[c] = Takes(old, stock, c, f[c - 1])
    BY <2>2, <2>3
  <2> QED BY <2>2, <2>3, <2>4
<1>5. \A c \in 0..Last : f[c] \in 0..(Price - Floor)
  BY <1>3
<1> QED BY <1>4, <1>5 DEF f, Part

\* The lots of one reservation, and what is to be found before and after each credit.
LotsOf(ch, n, part) ==
  {[ch |-> ch, cr |-> c, n |-> n, cents |-> part[c], st |-> "reserved"] :
     c \in {d \in Credits : part[d] > 0}}
FallBy(lacks, part) ==
  /\ part \in [Credits -> Nat] /\ \A c \in 0..Last : lacks[c] \in Nat
  /\ \A c \in Credits : lacks[c - 1] = lacks[c] + part[c]

\* What is reserved of each credit sums to what was to be found and no longer is.
LEMMA NewLots ==
  ASSUME CreditAssumption, NEW part, NEW lacks, FallBy(lacks, part), NEW ch, NEW n, NEW new,
         new = LotsOf(ch, n, part)
  PROVE  /\ Priced(new) /\ Cents(new) = lacks[0] - lacks[Last]
         /\ \A c \in Credits : Priced(Of(new, c)) /\ Cents(Of(new, c)) = part[c]
         /\ \A a \in new : /\ a.ch = ch /\ a.n = n /\ a.st = "reserved"
                           /\ a.cr \in Credits /\ a.cents \in Nat \ {0}
                           /\ a = [ch |-> ch, cr |-> a.cr, n |-> n, cents |-> a.cents, st |-> "reserved"]
         /\ \A a, b \in new : a.cr = b.cr => a = b
<1> DEFINE one(c) == [ch |-> ch, cr |-> c, n |-> n, cents |-> part[c], st |-> "reserved"]
           some(k) == {one(c) : c \in {d \in 1..k : part[d] > 0}}
           T == {k \in 0..Last : Cents(some(k)) # lacks[0] - lacks[k]}
<1>0. /\ part \in [Credits -> Nat] /\ \A c \in 0..Last : lacks[c] \in Nat
      /\ \A c \in Credits : lacks[c - 1] = lacks[c] + part[c]
      /\ new = {one(c) : c \in {d \in Credits : part[d] > 0}}
  BY DEF FallBy, LotsOf
<1>1. Last \in Nat /\ Credits = 1..Last /\ new = some(Last)
  BY <1>0, CreditAssumption DEF CreditAssumption, Credits
<1>2. \A c : /\ one(c).ch = ch /\ one(c).cr = c /\ one(c).n = n /\ one(c).cents = part[c]
             /\ one(c).st = "reserved"
  OBVIOUS
<1>3. \A a \in new : /\ a.ch = ch /\ a.n = n /\ a.st = "reserved"
                     /\ a.cr \in Credits /\ a.cents \in Nat \ {0}
                     /\ a = [ch |-> ch, cr |-> a.cr, n |-> n, cents |-> a.cents, st |-> "reserved"]
                     /\ a = one(a.cr)
  BY <1>0
<1>4. \A a, b \in new : a.cr = b.cr => a = b
  <2> HIDE DEF one
  <2> QED BY <1>3
<1>5. \A k \in 0..Last : Priced(some(k)) /\ some(k) \subseteq new
  <2> SUFFICES ASSUME NEW k \in 0..Last PROVE Priced(some(k)) /\ some(k) \subseteq new
    OBVIOUS
  <2> DEFINE D == {d \in 1..k : part[d] > 0}
  <2>1. IsFiniteSet(1..k)
    BY <1>1, FS_Interval
  <2>2. IsFiniteSet(D) /\ D \subseteq Credits
    BY <1>1, <2>1, FS_Subset
  <2>3. [c \in D |-> one(c)] \in Surjection(D, some(k))
    <3> HIDE DEF one
    <3> QED BY DEF Surjection
  <2>4. IsFiniteSet(some(k))
    BY <2>2, <2>3, FS_Surjection
  <2>5. some(k) \subseteq new
    BY <1>1
  <2> QED BY <2>4, <2>5, <1>3 DEF Priced
<1>6. T = {}
  <2> SUFFICES ASSUME T # {} PROVE FALSE
    OBVIOUS
  <2>1. PICK k \in T : \A j \in T : k <= j
    <3>1. T \subseteq Nat
      OBVIOUS
    <3> HIDE DEF T
    <3> QED BY <3>1, LeastNumber
  <2>2. k \in 0..Last /\ Cents(some(k)) # lacks[0] - lacks[k]
    BY <2>1
  <2>3. k # 0
    <3>1. some(0) = {}
      OBVIOUS
    <3>2. Cents(some(0)) = 0
      BY <3>1, CentsOne, FS_EmptySet
    <3>3. lacks[0] \in Nat
      BY <1>0, <1>1
    <3> QED BY <2>2, <3>2, <3>3
  <2>4. k - 1 \in 0..Last /\ k \in Credits /\ k - 1 \notin T
    <3>1. k - 1 \in 0..Last /\ k \in Credits /\ ~(k <= k - 1)
      BY <1>1, <2>2, <2>3
    <3> HIDE DEF T
    <3> QED BY <2>1, <3>1
  <2>5. Cents(some(k - 1)) = lacks[0] - lacks[k - 1]
    BY <2>4
  <2>6. Cents(some(k)) = Cents(some(k - 1)) + part[k]
    <3>1. CASE part[k] = 0
      <4>1. {d \in 1..k : part[d] > 0} = {d \in 1..(k - 1) : part[d] > 0}
        BY <2>4, <3>1, <1>1
      <4>2. some(k) = some(k - 1)
        BY <4>1
      <4>3. Cents(some(k - 1)) \in Nat
        BY <1>5, <2>4, CentsNat
      <4> HIDE DEF some
      <4> QED BY <3>1, <4>2, <4>3
    <3>2. CASE part[k] # 0
      <4>1. part[k] \in Nat /\ part[k] > 0
        BY <1>0, <2>4, <3>2
      <4>2. {d \in 1..k : part[d] > 0} = {d \in 1..(k - 1) : part[d] > 0} \cup {k}
        BY <2>4, <4>1, <1>1
      <4>3. some(k) = some(k - 1) \cup {one(k)}
        <5> HIDE DEF one
        <5> QED BY <4>2
      <4>4. one(k) \notin some(k - 1)
        <5>1. \A a \in some(k - 1) : a.cr # k
          BY <2>4, <1>1
        <5> QED BY <5>1, <1>2
      <4>5. Priced({one(k)}) /\ Cents({one(k)}) = part[k]
        BY <4>1, <1>2, CentsSingle
      <4>6. Priced(some(k - 1))
        BY <1>5, <2>4
      <4> HIDE DEF some, one
      <4> QED BY <4>3, <4>4, <4>5, <4>6, CentsBoth
    <3> QED BY <3>1, <3>2
  <2>7. /\ lacks[k - 1] = lacks[k] + part[k] /\ lacks[k] \in Nat /\ part[k] \in Nat /\ lacks[0] \in Nat
    BY <2>2, <2>4, <1>0, <1>1
  <2>8. Cents(some(k)) = lacks[0] - lacks[k]
    <3> HIDE DEF some
    <3> QED BY <2>5, <2>6, <2>7
  <2> QED BY <2>2, <2>8
<1>7. Cents(new) = lacks[0] - lacks[Last] /\ Priced(new)
  <2>1. Last \in 0..Last
    BY <1>1
  <2>2. Last \notin T
    <3> HIDE DEF T
    <3> QED BY <1>6
  <2>3. Cents(some(Last)) = lacks[0] - lacks[Last]
    BY <2>1, <2>2
  <2> QED BY <2>1, <2>3, <1>1, <1>5
<1>8. ASSUME NEW c \in Credits PROVE Priced(Of(new, c)) /\ Cents(Of(new, c)) = part[c]
  <2>1. CASE part[c] = 0
    <3>1. Of(new, c) = {}
      BY <2>1, <1>0 DEF Of
    <3> QED BY <2>1, <3>1, CentsOne, FS_EmptySet DEF Priced
  <2>2. CASE part[c] # 0
    <3>1. Of(new, c) = {one(c)}
      BY <2>2, <1>0 DEF Of
    <3>2. part[c] \in Nat
      BY <1>0
    <3> QED BY <3>1, <3>2, <1>2, CentsSingle
  <2> QED BY <2>1, <2>2
<1> QED BY <1>3, <1>4, <1>7, <1>8

\* The old reservation goes back, the new one is made of what each credit gave.
Renewed(old, new, part, gw) ==
  /\ allocs' = (allocs \ old) \cup new
  /\ left' = [c \in Credits |-> Back(old)[c] - part[c]]
  /\ \A a \in new : /\ a \in Alloc /\ a.n = gw /\ a.st = "reserved"
  /\ \A a, b \in new : a.cr = b.cr => a = b
  /\ Priced(new)
  /\ \A c \in Credits : /\ Priced(Of(new, c)) /\ Cents(Of(new, c)) = part[c]
                        /\ part[c] \in 0..Back(old)[c]
                        /\ c \in canceled => part[c] = 0

\* Lots stay sound when some go back and the new ones take no more than there is.
LEMMA Renewing ==
  ASSUME Sound, NEW old, old \in SUBSET allocs, NEW new, NEW part, NEW gw,
         Renewed(old, new, part, gw), \A a \in allocs : a.n # gw,
         UNCHANGED <<canceled, debited>>
  PROVE  Sound'
<1>0. /\ allocs' = (allocs \ old) \cup new
      /\ left' = [c \in Credits |-> Back(old)[c] - part[c]]
      /\ \A a \in new : a \in Alloc /\ a.n = gw /\ a.st = "reserved"
      /\ \A a, b \in new : a.cr = b.cr => a = b
      /\ Priced(new)
      /\ \A c \in Credits : /\ Priced(Of(new, c)) /\ Cents(Of(new, c)) = part[c]
                            /\ part[c] \in 0..Back(old)[c]
                            /\ c \in canceled => part[c] = 0
  BY DEF Renewed
<1>1. \A c \in Credits : /\ Cents(Of(old, c)) \in Nat /\ Cents(Of(allocs \ old, c)) \in Nat
                         /\ Priced(Of(allocs \ old, c))
                         /\ Cents(Of(allocs, c)) = Cents(Of(allocs \ old, c)) + Cents(Of(old, c))
  BY CentsSplit
<1>2. new \cap allocs = {} /\ canceled \subseteq Credits /\ left \in [Credits -> Nat]
  BY <1>0 DEF Sound
<1>3. \A c \in Credits : Back(old)[c] = IF c \in canceled THEN left[c] ELSE left[c] + Cents(Of(old, c))
  BY DEF Back
<1>4. left' \in [Credits -> Nat] /\ \A c \in Credits : left'[c] = Back(old)[c] - part[c]
  <2>1. \A c \in Credits : Back(old)[c] \in Nat
    BY <1>1, <1>2, <1>3
  <2>2. \A c \in Credits : Back(old)[c] - part[c] \in Nat
    BY <2>1, <1>0
  <2> QED BY <2>2, <1>0
<1>5. Conserved'
  <2> SUFFICES ASSUME NEW c \in Credits \ canceled
               PROVE  left'[c] + Cents(Of(allocs', c)) + debited[c] = Amount[c]
    BY DEF Conserved
  <2>1. left[c] + Cents(Of(allocs, c)) + debited[c] = Amount[c] /\ left[c] \in Nat
    BY <1>2 DEF Sound, Conserved
  <2>2. left'[c] = (left[c] + Cents(Of(old, c))) - part[c] /\ part[c] \in Nat
    <3>1. Back(old)[c] = left[c] + Cents(Of(old, c)) /\ Back(old)[c] \in Nat
      BY <1>1, <1>2, <1>3
    <3> QED BY <3>1, <1>0, <1>4
  <2>3. Cents(Of(allocs', c)) = Cents(Of(allocs \ old, c)) + part[c]
    <3>1. Of(allocs', c) = Of(allocs \ old, c) \cup Of(new, c)
      BY <1>0 DEF Of
    <3>2. Of(allocs \ old, c) \cap Of(new, c) = {}
      BY <1>2 DEF Of
    <3>3. /\ Priced(Of(allocs \ old, c)) /\ Priced(Of(new, c)) /\ Cents(Of(new, c)) = part[c]
      BY <1>0, <1>1
    <3> QED BY <3>1, <3>2, <3>3, CentsBoth
  <2> DEFINE x == Cents(Of(old, c))
             y == Cents(Of(allocs \ old, c))
             z == Cents(Of(allocs, c))
             w == Cents(Of(allocs', c))
  <2>4. x \in Nat /\ y \in Nat /\ z = y + x /\ w = y + part[c] /\ left'[c] = (left[c] + x) - part[c]
    BY <1>1, <2>2, <2>3
  <2> HIDE DEF x, y, z, w
  <2>5. left'[c] + w = left[c] + z
    BY <2>1, <2>2, <2>4
  <2>6. left'[c] + w + debited[c] = Amount[c]
    BY <2>1, <2>5 DEF z
  <2> QED BY <2>6 DEF w
<1>6. CanceledStaysEmpty'
  <2> SUFFICES ASSUME NEW c \in canceled PROVE left'[c] = 0
    BY DEF CanceledStaysEmpty
  <2>1. c \in Credits /\ left[c] = 0 /\ part[c] = 0
    BY <1>0, <1>2 DEF Sound, CanceledStaysEmpty
  <2> QED BY <2>1, <1>3, <1>4
<1>7. allocs' \subseteq Alloc /\ IsFiniteSet(allocs')
  BY <1>0, FS_Subset, FS_Union DEF Sound, Priced
<1>8. Unique(allocs')
  BY <1>0 DEF Sound, Unique
<1> QED BY <1>2, <1>4, <1>5, <1>6, <1>7, <1>8 DEF Sound

\* Where a process is that reserves, and what it finds.
Reserving(p, ch, u, gw) ==
  /\ Todo(p) # Done /\ Head(Todo(p)) = "reserve" /\ At(p, "reserve") /\ proc[p].open
  /\ TypeOK /\ ch \in Charges /\ row[ch] \in Row /\ proc[p] \in Proc /\ Todo(p) \in Plans
  /\ Planned(p) /\ Mine(p, ch)
  /\ Todo(p) = ToReserve /\ u = ToReread
  /\ Todo(p) \in Issuing /\ Owner(p)
  /\ Todo(p) \notin Closing \cup Undoing
  /\ u \in Issuing /\ u \in Plans /\ u \notin Closing \cup Sweeping \cup Recorded
  /\ u # Done /\ Head(u) = "reread"
  /\ gw \in 1..MaxStarts /\ \A a \in allocs : a.n # gw

LEMMA ReserveStarts ==
  ASSUME CreditAssumption, IInv, NEW p \in Procs, Reserve(p),
         NEW ch, ch = proc[p].ch, NEW u, u = Tail(Todo(p)), NEW gw, gw = proc[p].gw
  PROVE  Reserving(p, ch, u, gw)
<1>0. ch = proc[p].ch /\ u = Tail(Todo(p)) /\ gw = proc[p].gw
  OBVIOUS
<1>1. Todo(p) # Done /\ Head(Todo(p)) = "reserve" /\ At(p, "reserve") /\ proc[p].open
  BY DEF Reserve, Writes, At, Todo, Done
<1>2. /\ TypeOK /\ ch \in Charges /\ row[ch] \in Row /\ proc[p] \in Proc /\ Todo(p) \in Plans /\ Planned(p)
      /\ Mine(p, ch) /\ Fresh(p)
  BY <1>0, <1>1, Worker
<1>3. Todo(p) = ToReserve /\ u = ToReread
  BY <1>0, <1>1, <1>2, PlansBy, EachPlan DEF Begins
<1>4. /\ Todo(p) \in Issuing /\ Owner(p)
      /\ Todo(p) \notin Closing \cup Undoing
      /\ u \in Issuing /\ u \in Plans /\ u \notin Closing \cup Sweeping \cup Recorded
      /\ u # Done /\ Head(u) = "reread"
  <2>1. /\ Todo(p) \in Issuing /\ Todo(p) \notin Closing \cup Recorded
        /\ u \in Issuing /\ u \notin Closing \cup LettingGo \cup Sweeping \cup Recorded
    BY <1>3, Kinds
  <2>2. u # Done /\ Head(u) = "reread"
    BY <1>3, EachPlan DEF Begins
  <2>3. Owner(p) /\ u \in Plans
    BY <2>1 DEF Owner, Owned, Plans
  <2> QED BY <2>1, <2>2, <2>3, Kept
<1>5. gw \in 1..MaxStarts /\ \A a \in allocs : a.n # gw
  <2>1. gw # 0 /\ gw \in 0..MaxStarts /\ MaxStarts \in Nat /\ \A a \in allocs : a.n # gw
    BY <1>0, <1>1, <1>2, <1>4, CreditAssumption DEF Fresh, Proc, CreditAssumption
  <2> QED BY <2>1
<1> QED BY <1>1, <1>2, <1>3, <1>4, <1>5 DEF Reserving

\* What the reservation makes of the lots of its charge.
Reserved(p, ch, u, gw, old, new, part, sum) ==
  /\ old = Held(ch) \cap proc[p].seen /\ \A a \in allocs : a.n # gw
  /\ Renewed(old, new, part, gw) /\ Cents(new) = sum /\ sum \in Nat /\ Price - sum \in Nat
  /\ row' = [row EXCEPT ![ch].cents = Price - sum, ![ch].noted = sum]
  /\ proc' = [proc EXCEPT ![p] = [With(p, u) EXCEPT !.price = Price - sum]]
  /\ Sound' /\ Held(ch)' = (Held(ch) \ old) \cup new /\ Used(ch)' = Used(ch)
  /\ \A d \in Charges \ {ch} : Held(d)' = Held(d) /\ Used(d)' = Used(d)
  /\ \A a \in allocs' : a.n = gw \/ \E b \in allocs : a.n = b.n
  /\ UNCHANGED <<canceled, debited, recorded, refunded, made, late, unguarded>>

LEMMA ReserveDoes ==
  ASSUME CreditAssumption, IInv, NEW p \in Procs, Reserve(p),
         NEW ch, ch = proc[p].ch, NEW u, u = Tail(Todo(p)), NEW gw, gw = proc[p].gw,
         Reserving(p, ch, u, gw)
  PROVE  \E old, new, part, sum : Reserved(p, ch, u, gw, old, new, part, sum)
<1>0. PICK seen : ch = proc[p].ch /\ u = Tail(Todo(p)) /\ gw = proc[p].gw /\ seen = proc[p].seen
  OBVIOUS
<1>1. /\ TypeOK /\ ch \in Charges /\ row[ch] \in Row /\ proc[p] \in Proc /\ Planned(p)
  BY <1>0 DEF Reserving
<1>2. gw \in 1..MaxStarts /\ \A a \in allocs : a.n # gw
  BY DEF Reserving
<1>3. PICK stock \in StockAgain(p) :
        LET ch1 == proc[p].ch
            old1 == Earlier(p)
            falta1 == Lacks(old1, stock)
            part1 == [c \in Credits |-> falta1[c - 1] - falta1[c]]
            sum1 == Price - Floor - falta1[Last]
        IN /\ left' = [c \in Credits |-> Back(old1)[c] - part1[c]]
           /\ allocs' = (allocs \ old1) \cup
                {[ch |-> ch1, cr |-> c, n |-> proc[p].gw, cents |-> part1[c], st |-> "reserved"] :
                   c \in {d \in Credits : part1[d] > 0}}
           /\ row' = [row EXCEPT ![ch1].cents = Price - sum1, ![ch1].noted = sum1]
           /\ proc' = [proc EXCEPT ![p] = [With(p, Tail(@.todo)) EXCEPT !.price = Price - sum1]]
  BY DEF Reserve
<1>4. PICK old, falta, part, sum, new :
        /\ old = Earlier(p) /\ falta = Lacks(old, stock)
        /\ part = [c \in Credits |-> falta[c - 1] - falta[c]]
        /\ sum = Price - Floor - falta[Last]
        /\ new = {[ch |-> ch, cr |-> c, n |-> gw, cents |-> part[c], st |-> "reserved"] :
                    c \in {d \in Credits : part[d] > 0}}
  OBVIOUS
<1>5. /\ left' = [c \in Credits |-> Back(old)[c] - part[c]]
      /\ allocs' = (allocs \ old) \cup new
      /\ row' = [row EXCEPT ![ch].cents = Price - sum, ![ch].noted = sum]
      /\ proc' = [proc EXCEPT ![p] = [With(p, u) EXCEPT !.price = Price - sum]]
  <2>1. left' = [c \in Credits |-> Back(old)[c] - part[c]]
    BY <1>3, <1>4
  <2>2. allocs' = (allocs \ old) \cup new
    BY <1>0, <1>3, <1>4
  <2>3. row' = [row EXCEPT ![ch].cents = Price - sum, ![ch].noted = sum]
    BY <1>0, <1>3, <1>4
  <2>4. proc' = [proc EXCEPT ![p] = [With(p, u) EXCEPT !.price = Price - sum]]
    BY <1>0, <1>3, <1>4 DEF Todo
  <2> QED BY <2>1, <2>2, <2>3, <2>4
<1>6. UNCHANGED <<canceled, debited, recorded, refunded, made, late, unguarded>>
  BY DEF Reserve
<1>7. old = Held(ch) \cap seen /\ old \in SUBSET allocs
  <2>1. old = Held(ch) \cap seen
    BY <1>0, <1>1, <1>4, Hits DEF Earlier
  <2> QED BY <2>1, <1>1, OnCharge
<1>8. Sound /\ Back(old) \in [Credits -> Nat] /\ stock \in [Credits -> Nat]
  <2>1. Sound
    BY SoundNow
  <2>2. \A c \in Credits : Cents(Of(old, c)) \in Nat /\ left[c] \in Nat
    BY <2>1, <1>1, <1>7, CentsSplit DEF TypeOK
  <2>3. Back(old) \in [Credits -> Nat]
    BY <2>2 DEF Back
  <2> QED BY <2>1, <2>3, <1>1 DEF StockAgain, Proc, TypeOK
<1>9. /\ \A c \in 0..Last : falta[c] \in 0..(Price - Floor)
      /\ \A c \in Credits : /\ part[c] \in 0..Back(old)[c]
                            /\ c \in canceled => part[c] = 0
                            /\ falta[c - 1] = falta[c] + part[c]
      /\ falta[0] = Price - Floor
  <2>1. \A c \in Credits : part[c] = Part(old, stock, c)
    BY <1>4 DEF Part
  <2>2. /\ \A c \in 0..Last : Lacks(old, stock)[c] \in 0..(Price - Floor)
        /\ \A c \in Credits : /\ Part(old, stock, c) \in 0..Back(old)[c]
                              /\ c \in canceled => Part(old, stock, c) = 0
                              /\ Lacks(old, stock)[c - 1] = Lacks(old, stock)[c] + Part(old, stock, c)
    BY <1>8, LacksFall
  <2>3. Lacks(old, stock)[0] = Price - Floor
    BY LacksFolds
  <2> QED BY <2>1, <2>2, <2>3, <1>4
<1>10. /\ Price \in Nat /\ Floor \in Nat /\ Price - Floor \in Nat /\ Last \in 0..Last
       /\ sum \in Nat /\ Price - sum \in Nat /\ sum = falta[0] - falta[Last]
  <2>1. Price \in Nat /\ Floor \in Nat /\ Floor <= Price /\ Last \in Nat
    BY CreditAssumption DEF CreditAssumption
  <2>2. Last \in 0..Last /\ falta[Last] \in 0..(Price - Floor)
    BY <2>1, <1>9
  <2> QED BY <2>1, <2>2, <1>4, <1>9
<1>11. /\ part \in [Credits -> Nat]
       /\ \A c \in 0..Last : falta[c] \in Nat
  <2>1. \A c \in Credits : part[c] \in Nat
    BY <1>8, <1>9
  <2> QED BY <2>1, <1>4, <1>9, <1>10
<1>12. /\ Priced(new) /\ Cents(new) = sum
       /\ \A c \in Credits : Priced(Of(new, c)) /\ Cents(Of(new, c)) = part[c]
       /\ \A a \in new : /\ a.ch = ch /\ a.n = gw /\ a.st = "reserved"
                         /\ a.cr \in Credits /\ a.cents \in Nat \ {0}
                         /\ a = [ch |-> ch, cr |-> a.cr, n |-> gw, cents |-> a.cents, st |-> "reserved"]
       /\ \A a, b \in new : a.cr = b.cr => a = b
  <2>1. FallBy(falta, part)
    BY <1>9, <1>11 DEF FallBy
  <2>2. new = LotsOf(ch, gw, part)
    BY <1>4 DEF LotsOf
  <2>3. Cents(new) = falta[0] - falta[Last]
    BY ONLY CreditAssumption, <2>1, <2>2, NewLots
  <2>4. Cents(new) = sum
    BY <2>3, <1>10
  <2>5. Priced(new) /\ \A c \in Credits : Priced(Of(new, c)) /\ Cents(Of(new, c)) = part[c]
    BY ONLY CreditAssumption, <2>1, <2>2, NewLots
  <2>6. /\ \A a \in new : /\ a.ch = ch /\ a.n = gw /\ a.st = "reserved"
                          /\ a.cr \in Credits /\ a.cents \in Nat \ {0}
                          /\ a = [ch |-> ch, cr |-> a.cr, n |-> gw, cents |-> a.cents, st |-> "reserved"]
        /\ \A a, b \in new : a.cr = b.cr => a = b
    BY ONLY CreditAssumption, <2>1, <2>2, NewLots
  <2> QED BY <2>4, <2>5, <2>6
<1>13. \A a \in new : a \in Alloc
  BY <1>1, <1>2, <1>12 DEF Alloc
<1>14. Renewed(old, new, part, gw) /\ Sound'
  <2>1. Renewed(old, new, part, gw)
    BY <1>5, <1>9, <1>12, <1>13 DEF Renewed
  <2>2. UNCHANGED <<canceled, debited>>
    BY <1>6
  <2> QED BY <2>1, <2>2, <1>2, <1>7, <1>8, Renewing
<1>15. /\ Held(ch)' = (Held(ch) \ old) \cup new /\ Used(ch)' = Used(ch)
       /\ \A d \in Charges \ {ch} : Held(d)' = Held(d) /\ Used(d)' = Used(d)
       /\ \A a \in allocs' : a.n = gw \/ \E b \in allocs : a.n = b.n
  BY <1>5, <1>7, <1>12 DEF Held, Used, On
<1>16. Reserved(p, ch, u, gw, old, new, part, sum)
  BY <1>0, <1>2, <1>5, <1>6, <1>7, <1>10, <1>12, <1>14, <1>15 DEF Reserved
<1> QED BY <1>16

\* The reservation: the price less what the credits gave is what will be asked.
LEMMA ReserveKept ==
  ASSUME CreditAssumption, IInv, NEW p \in Procs, Reserve(p)
  PROVE  IInv'
<1>0. PICK ch, u, gw : ch = proc[p].ch /\ u = Tail(Todo(p)) /\ gw = proc[p].gw
  OBVIOUS
<1>1. Reserving(p, ch, u, gw)
  BY <1>0, ReserveStarts
<1>2. PICK old, new, part, sum : Reserved(p, ch, u, gw, old, new, part, sum)
  BY <1>0, <1>1, ReserveDoes
<1>3. Todo(p) # Done /\ Head(Todo(p)) = "reserve" /\ At(p, "reserve") /\ proc[p].open
  BY <1>1 DEF Reserving
<1>4. /\ TypeOK /\ ch \in Charges /\ row[ch] \in Row /\ proc[p] \in Proc /\ Todo(p) \in Plans /\ Planned(p)
      /\ Mine(p, ch)
  BY <1>1 DEF Reserving
<1>5. Todo(p) = ToReserve /\ u = ToReread
  BY <1>1 DEF Reserving
<1>6. /\ Todo(p) \in Issuing /\ Owner(p)
      /\ Todo(p) \notin Closing \cup Undoing
      /\ u \in Issuing /\ u \in Plans /\ u \notin Closing \cup Sweeping \cup Recorded
      /\ u # Done /\ Head(u) = "reread"
  BY <1>1 DEF Reserving
<1>7. gw \in 1..MaxStarts /\ \A a \in allocs : a.n # gw
  BY <1>1 DEF Reserving
<1>8. /\ row' = [row EXCEPT ![ch].cents = Price - sum, ![ch].noted = sum]
      /\ proc' = [proc EXCEPT ![p] = [With(p, u) EXCEPT !.price = Price - sum]]
  BY <1>2 DEF Reserved
<1>9. UNCHANGED <<canceled, debited, recorded, refunded, made, late, unguarded>>
  BY <1>2 DEF Reserved
<1>10. Price \in Nat /\ sum \in Nat /\ Price - sum \in Nat
  BY <1>2, CreditAssumption DEF Reserved, CreditAssumption
<1>11. Cents(new) = sum /\ Priced(new) /\ \A a \in new : a.cents \in Nat \ {0}
  BY <1>2 DEF Reserved, Renewed, Alloc
<1>12. Sound'
  BY <1>2 DEF Reserved
<1>13. /\ Held(ch)' = (Held(ch) \ old) \cup new /\ Used(ch)' = Used(ch)
       /\ \A d \in Charges \ {ch} : Held(d)' = Held(d) /\ Used(d)' = Used(d)
       /\ \A a \in allocs' : a.n = gw \/ \E b \in allocs : a.n = b.n
  BY <1>2 DEF Reserved
<1>14. PICK now : /\ now = [row[ch] EXCEPT !.cents = Price - sum, !.noted = sum]
                  /\ row' = [row EXCEPT ![ch] = now]
  BY <1>4, <1>8 DEF TypeOK, Row
<1>15. /\ now \in Row /\ now.st = row[ch].st /\ now.gw = row[ch].gw /\ now.busy = row[ch].busy
       /\ now.cents = Price - sum
  BY <1>4, <1>10, <1>14 DEF Row
<1>16. /\ Went(p, ch, u) /\ Todo(p)' = u /\ proc'[p].open = FALSE
       /\ \A s : At(p, s)' <=> Head(u) = s
       /\ Mine(p, ch)' /\ proc'[p].ch = ch /\ proc'[p].gw = gw
       /\ \A q \in Procs \ {p} : proc'[q] = proc[q]
       /\ row'[ch] = now
       /\ \A n : Entered(ch, n)' <=> Entered(ch, n)
  <2>1. row'[ch] = now
    BY <1>4, <1>14 DEF TypeOK
  <2>2. Went(p, ch, u)
    BY <1>0, <1>4, <1>6, <1>8, <1>10, Turned
  <2> QED BY <2>1, <2>2, <1>0, <1>6, <1>9 DEF Went, Entered
<1>17. proc'[p].price = Price - sum
  <2>1. With(p, u) = [proc[p] EXCEPT !.todo = u, !.open = FALSE, !.seen = {}, !.snap = Free.snap]
    BY <1>6 DEF With, Done
  <2>2. [With(p, u) EXCEPT !.price = Price - sum].price = Price - sum
    BY <2>1, <1>4, Frees DEF Proc
  <2> QED BY <2>2, <1>4, <1>8 DEF TypeOK
<1>23. Follows(p, u)
  <2>1. \A d \in Charges : row'[d].gw = row[d].gw
    BY <1>4, <1>14, <1>15, <1>16 DEF TypeOK
  <2> QED BY <2>1, <1>0, <1>5, <1>6, <1>9 DEF Follows
<1>24. /\ {} \in SUBSET {ch} /\ late' = late \cup {} /\ made' = made /\ recorded' = recorded /\ unguarded' = unguarded
       /\ debited' \in [Credits -> Nat] /\ refunded' \subseteq recorded'
       /\ now.gw = row[ch].gw
  BY <1>4, <1>9, <1>15 DEF TypeOK
<1>25. /\ Todo(p) # Done /\ row' = [row EXCEPT ![ch] = now] /\ now \in Row /\ ch = proc[p].ch
       /\ Follows(p, u) /\ Went(p, ch, u) /\ Sound'
       /\ \A a \in allocs' : a.n = proc[p].gw \/ \E b \in allocs : a.n = b.n
       /\ \A d \in Charges \ {ch} : Held(d)' = Held(d) /\ Used(d)' = Used(d)
  BY <1>0, <1>3, <1>12, <1>13, <1>14, <1>15, <1>16, <1>23
<1> SUFFICES ASSUME ch \notin unguarded PROVE Guarded(ch)'
  BY <1>24, <1>25, LotsKept DEF Local
<1>g. /\ Ledger(ch) /\ Claimed(ch) /\ Watched(ch) /\ Cleared(ch) /\ GivenBack(ch) /\ Backed(ch)
      /\ row[ch].gw = 0 /\ row[ch].busy /\ Held(ch)' = new
      /\ \A q \in Procs \ {p} : Mine(q, ch) => ~At(q, "reserve") /\ ~At(q, "reread")
  <2>1. /\ Ledger(ch) /\ Claimed(ch) /\ Watched(ch) /\ Cleared(ch) /\ GivenBack(ch) /\ Backed(ch)
        /\ row[ch].gw = 0
        /\ \A q \in Procs \ {p} : Mine(q, ch) => ~Owner(q) /\ ~At(q, "reread")
    BY <1>0, <1>3, <1>6, Guarding
  <2>2. row[ch].busy
    BY <2>1, <1>4, <1>6 DEF Claimed, Mine
  <2>3. Held(ch)' = new
    <3>1. Held(ch) \subseteq proc[p].seen
      BY <2>1, <1>3, <1>4 DEF Watched, Mine
    <3>2. old = Held(ch) \cap proc[p].seen
      BY <1>2 DEF Reserved
    <3> QED BY <3>1, <3>2, <1>13
  <2>4. ASSUME NEW q \in Procs, At(q, "reserve") PROVE Owner(q)
    <3>1. Todo(q) \in Plans /\ Todo(q) # Done /\ Head(Todo(q)) = "reserve"
      BY <2>4 DEF IInv, Planned, At, Todo, Done
    <3> QED BY <3>1, PlansBy, Kinds DEF Owner, Owned
  <2> QED BY <2>1, <2>2, <2>3, <2>4
<1>18. Ledger(ch)' /\ Backed(ch)'
  BY <1>4, <1>g, <1>6, <1>15, <1>16 DEF Ledger, Backed
<1>19. Claimed(ch)'
  BY <1>4, <1>g, <1>6, <1>15, <1>16, ClaimedKept
<1>20. Watched(ch)'
  <2>1. row'[ch].gw = 0
    BY <1>6, <1>g, <1>15, <1>16
  <2>2. ASSUME NEW q \in Procs, proc'[q].ch = ch
        PROVE  ~(proc'[q].open /\ At(q, "reserve")')
    <3>1. CASE q = p
      BY <3>1, <1>16
    <3>2. CASE q # p
      BY <2>2, <3>2, <1>g, <1>16 DEF At, Mine
    <3> QED BY <3>1, <3>2
  <2>3. ASSUME NEW q \in Procs, proc'[q].ch = ch, At(q, "reread")' PROVE q = p
    BY <2>3, <1>g, <1>16 DEF At, Mine
  <2>4. /\ proc'[p].price = Price => Held(ch)' = {}
        /\ proc'[p].price + Cents(Held(ch))' = Price /\ row'[ch].cents = proc'[p].price
    <3>1. Cents(new) = 0 => new = {}
      BY <1>11, CentsZero DEF Priced
    <3> QED BY <3>1, <1>g, <1>10, <1>11, <1>15, <1>16, <1>17
  <2>5. \A a \in Used(ch)' : a.n # proc'[p].gw
    BY <1>7, <1>13, <1>g, <1>16, OnCharge
  <2> QED BY <2>1, <2>2, <2>3, <2>4, <2>5 DEF Watched
<1>21. Cleared(ch)'
  <2>1. Clears(p, ch)'
    BY <1>6, <1>16 DEF Clears
  <2> QED BY <2>1 DEF Cleared
<1>22. GivenBack(ch)'
  <2>1. ~GivesBack(p, ch)
    BY <1>3, <1>6 DEF GivesBack, At, Todo
  <2>2. ch \in late => ch \in late'
    BY <1>9
  <2> QED BY <2>1, <2>2, <1>4, <1>g, <1>13, <1>15, <1>16, GivenBackKept
<1> QED BY <1>18, <1>19, <1>20, <1>21, <1>22 DEF Guarded

-----------------------------------------------------------------------------
(* The theorems.                                                           *)

\* What the invariant says of the beginning.
LEMMA InitKept ==
  ASSUME CreditAssumption, Init
  PROVE  IInv
<1>1. /\ left = Amount /\ debited = [c \in Credits |-> 0] /\ canceled = {} /\ allocs = {}
      /\ row = [ch \in Charges |-> [st |-> "pending", gw |-> 0, busy |-> FALSE, cents |-> Price,
                                    noted |-> 0, asked |-> 0]]
      /\ recorded = {} /\ refunded = {} /\ proc = [p \in Procs |-> Free] /\ made = 0 /\ late = {} /\ unguarded = {}
  BY DEF Init
<1>2. /\ Price \in Nat /\ MaxStarts \in Nat /\ 0 \in 0..MaxStarts /\ NoCharge \notin Charges
      /\ Amount \in [Credits -> Nat]
  BY CreditAssumption DEF CreditAssumption
<1>3. \A p \in Procs : /\ proc[p] = Free /\ Todo(p) = Done /\ ~proc[p].open /\ proc[p].gw = 0
                       /\ proc[p].ch = NoCharge /\ proc[p].seen = {}
  BY <1>1 DEF Todo, Done, Free
<1>4. \A ch \in Charges : /\ row[ch] \in Row /\ row[ch].st = "pending" /\ row[ch].gw = 0
  BY <1>1, <1>2 DEF Row
<1>5. TypeOK
  <2>1. Free \in Proc
    BY Frees
  <2>2. row \in [Charges -> Row]
    BY <1>1, <1>4
  <2>3. \A a, b \in allocs : a.n = b.n /\ a.cr = b.cr => a = b
    BY <1>1
  <2>4. left \in [Credits -> Nat] /\ debited \in [Credits -> Nat] /\ proc \in [Procs -> Proc]
    BY <2>1, <1>1, <1>2
  <2> QED BY <2>2, <2>3, <2>4, <1>1, <1>2, <1>3 DEF TypeOK
<1>6. IsFiniteSet(allocs)
  BY <1>1, FS_EmptySet
<1>7. Conserved /\ CanceledStaysEmpty
  <2>1. \A c \in Credits : Of(allocs, c) = {}
    BY <1>1 DEF Of
  <2>2. Cents({}) = 0
    BY CentsOne, FS_EmptySet
  <2>3. \A c \in Credits : left[c] + Cents(Of(allocs, c)) + debited[c] = Amount[c]
    <3> SUFFICES ASSUME NEW c \in Credits
                 PROVE  left[c] + Cents(Of(allocs, c)) + debited[c] = Amount[c]
      OBVIOUS
    <3>1. left[c] = Amount[c] /\ debited[c] = 0 /\ Amount[c] \in Int
      BY <1>1, <1>2
    <3> QED BY <2>1, <2>2, <3>1
  <2> QED BY <2>3, <1>1 DEF Conserved, CanceledStaysEmpty
<1>8. Numbered
  BY <1>1, <1>3, <1>4 DEF Numbered, Entered
<1>9. ASSUME NEW p \in Procs PROVE Planned(p) /\ Fresh(p)
  <2>1. Todo(p) = Done /\ proc[p] = Free /\ proc[p].seen = {}
    BY <1>3
  <2>2. Done \in Plans /\ Done \notin Sweeping \cup Recorded \cup Issuing
    BY Kinds DEF Plans, Owned, Loose
  <2>3. ~At(p, "record")
    BY <2>1 DEF At, Todo, Done
  <2> QED BY <2>1, <2>2, <2>3 DEF Planned, Fresh
<1>10. ASSUME NEW ch \in Charges PROVE Local(ch)
  <2>1. \A p \in Procs : proc[p].ch # ch
    BY <1>2, <1>3
  <2>2. row[ch].st = "pending" /\ row[ch].gw = 0
    BY <1>4
  <2> QED BY <2>1, <2>2 DEF Local, Guarded, Ledger, Claimed, Watched, Cleared, GivenBack, Backed
<1> QED BY <1>5, <1>6, <1>7, <1>8, <1>9, <1>10 DEF IInv

\* A step that changes nothing keeps it.
LEMMA StutterKept ==
  ASSUME IInv, UNCHANGED vars
  PROVE  IInv'
<1>1. UNCHANGED <<left, canceled, debited, allocs, row, recorded, refunded, proc, made, late, unguarded>>
  BY DEF vars
<1>2. (TypeOK /\ IsFiniteSet(allocs) /\ Conserved /\ CanceledStaysEmpty)'
  BY <1>1 DEF IInv, TypeOK, Conserved, CanceledStaysEmpty
<1>3. /\ \A p \in Procs : Todo(p)' = Todo(p) /\ (Owner(p)' <=> Owner(p))
                          /\ (Outdated(p)' <=> Outdated(p))
      /\ \A p \in Procs : \A s : At(p, s)' <=> At(p, s)
      /\ \A ch : Held(ch)' = Held(ch) /\ Used(ch)' = Used(ch)
      /\ \A ch, n : Entered(ch, n)' <=> Entered(ch, n)
  BY <1>1 DEF Todo, Owner, Outdated, At, Held, Used, On, Entered
<1>4. Numbered' /\ \A p \in Procs : Planned(p)' /\ Fresh(p)'
  BY <1>1, <1>3 DEF IInv, Numbered, Planned, Fresh
<1>5. ASSUME NEW ch \in Charges PROVE Local(ch)'
  <2> SUFFICES ASSUME ch \notin unguarded PROVE Guarded(ch)'
    BY <1>1 DEF Local
  <2>1. Ledger(ch) /\ Claimed(ch) /\ Watched(ch) /\ Cleared(ch) /\ GivenBack(ch) /\ Backed(ch)
    BY DEF IInv, Local, Guarded
  <2>2. Ledger(ch)' /\ Claimed(ch)'
    BY <2>1, <1>1, <1>3 DEF Ledger, Claimed
  <2>3. Watched(ch)'
    BY <2>1, <1>1, <1>3 DEF Watched
  <2>4. Cleared(ch)'
    BY <2>1, <1>1, <1>3 DEF Cleared, Clears
  <2>5. GivenBack(ch)'
    BY <2>1, <1>1, <1>3 DEF GivenBack, GivesBack
  <2>6. Backed(ch)'
    BY <2>1, <1>1, <1>3 DEF Backed, Announced, Overridden
  <2> QED BY <2>2, <2>3, <2>4, <2>5, <2>6 DEF Guarded
<1> QED BY <1>2, <1>4, <1>5 DEF IInv

\* Every step of the next-state relation keeps it.
LEMMA NextKept ==
  ASSUME CreditAssumption, IInv, [Next]_vars
  PROVE  IInv'
<1>1. CASE UNCHANGED vars
  BY <1>1, StutterKept
<1>2. ASSUME NEW p \in Procs, NEW ch \in Charges, Start(p, ch) PROVE IInv'
  BY <1>2, StartKept
<1>3. ASSUME NEW c \in Credits, CancelCredit(c) PROVE IInv'
  BY <1>3, CancelCreditKept
<1>4. ASSUME NEW p \in Procs, Work(p) PROVE IInv'
  <2>1. CASE Open(p)
    BY <2>1, OpenKept
  <2>2. CASE Reserve(p)
    BY <2>2, ReserveKept
  <2>3. CASE Release(p)
    BY <2>3, ReleaseKept
  <2>4. CASE Consume(p)
    BY <2>4, ConsumeKept
  <2>5. CASE Restore(p)
    BY <2>5, RestoreKept
  <2>6. CASE Record(p)
    BY <2>6, RecordKept
  <2>7. CASE Reverse(p)
    BY <2>7, ReverseKept
  <2>8. CASE Debit(p)
    BY <2>8, DebitKept
  <2>9. CASE Reread(p)
    BY <2>9, RereadKept
  <2>10. CASE Label(p)
    BY <2>10, LabelKept
  <2>11. CASE Reset(p)
    BY <2>11, ResetKept
  <2>12. CASE Override(p)
    BY <2>12, OverrideKept
  <2>13. CASE Paid(p)
    BY <2>13, PaidKept
  <2>14. CASE FullPrice(p)
    BY <2>14, FullPriceKept
  <2>15. CASE LetGo(p)
    BY <2>15, LetGoKept
  <2>16. CASE Finally(p)
    BY <2>16, FinallyKept
  <2> QED BY <1>4, <2>1, <2>2, <2>3, <2>4, <2>5, <2>6, <2>7, <2>8, <2>9, <2>10, <2>11, <2>12,
             <2>13, <2>14, <2>15, <2>16 DEF Work
<1> QED BY <1>1, <1>2, <1>3, <1>4 DEF Next

\* The inductive invariant holds in every state.
THEOREM Invariance == Spec => []IInv
<1>1. Init => IInv
  BY InitKept, CreditAssumption
<1>2. IInv /\ [Next]_vars => IInv'
  BY NextKept, CreditAssumption
<1> QED BY <1>1, <1>2, PTL DEF Spec

\* Nobody is on a charge on which nobody works: who has nothing left to do is free.
LEMMA QuietIsFree ==
  ASSUME CreditAssumption, IInv, NEW ch \in Charges, Quiet(ch)
  PROVE  \A p \in Procs : proc[p].ch # ch
<1>1. SUFFICES ASSUME NEW p \in Procs, proc[p].ch = ch PROVE FALSE
  OBVIOUS
<1>2. Todo(p) = Done
  BY <1>1 DEF Quiet, Todo, Done
<1>3. proc[p] = Free
  BY <1>2 DEF IInv, Planned
<1> QED BY <1>1, <1>3, CreditAssumption DEF CreditAssumption, Free

\* Rows, credits, allocations and processes hold what they may hold, and one reservation
\* takes of one credit once.
THEOREM TypeCorrect == Spec => []TypeOK
<1>1. IInv => TypeOK
  BY DEF IInv
<1> QED BY <1>1, Invariance, PTL

\* No interleaving of reservations, releases, payments, refunds and debits makes or loses a
\* cent of a credit.
THEOREM ConservedAlways == Spec => []Conserved
<1>1. IInv => Conserved
  BY DEF IInv
<1> QED BY <1>1, Invariance, PTL

\* A canceled credit gets nothing back and gives nothing.
THEOREM CanceledStaysEmptyAlways == Spec => []CanceledStaysEmpty
<1>1. IInv => CanceledStaysEmpty
  BY DEF IInv
<1> QED BY <1>1, Invariance, PTL

\* Once nobody works on a charge whose claim was not taken from its owner, nothing is set
\* aside on it unless it is open, and nothing spent on it once it is refunded.
THEOREM CreditFollowsAlways == Spec => []CreditFollows
<1>1. ASSUME IInv PROVE CreditFollows
  <2>1. SUFFICES ASSUME NEW ch \in Charges, Quiet(ch), ch \notin unguarded
                 PROVE  /\ row[ch].st # "pending" => Held(ch) = {}
                        /\ row[ch].st = "refunded" /\ ch \notin late => Used(ch) = {}
    BY DEF CreditFollows, Held, Used
  <2>2. \A p \in Procs : proc[p].ch # ch
    BY <1>1, <2>1, QuietIsFree, CreditAssumption
  <2>3. Cleared(ch) /\ GivenBack(ch)
    BY <1>1, <2>1 DEF IInv, Local, Guarded
  <2> QED BY <2>2, <2>3 DEF Cleared, Clears, GivenBack, GivesBack
<1> QED BY <1>1, Invariance, PTL

\* The discount of an issued charge is set aside for it, and its row says what was asked,
\* unless someone without the claim came late, or its claim was taken from its owner.
THEOREM DiscountBackedAlways == Spec => []DiscountBacked
<1>1. ASSUME IInv PROVE DiscountBacked
  <2>1. SUFFICES ASSUME NEW ch \in Charges, Quiet(ch), row[ch].st = "pending", row[ch].gw # 0,
                        ch \notin late \cup unguarded
                 PROVE  /\ row[ch].asked + Cents(SetAside(ch)) = Price
                        /\ row[ch].cents = row[ch].asked
    BY DEF DiscountBacked, Backs
  <2>2. \A p \in Procs : proc[p].ch # ch
    BY <1>1, <2>1, QuietIsFree, CreditAssumption
  <2>3. Backed(ch) /\ allocs \subseteq Alloc
    BY <1>1, <2>1 DEF IInv, Local, Guarded, TypeOK
  <2>4. /\ row[ch].cents = row[ch].asked /\ row[ch].asked + Cents(Held(ch)) = Price
        /\ \A a \in Used(ch) : a.n # row[ch].gw
    BY <2>1, <2>2, <2>3 DEF Backed, Announced, Overridden
  <2>5. SetAside(ch) = Held(ch)
    BY <2>3, <2>4 DEF SetAside, Held, Used, On, Alloc
  <2> QED BY <2>4, <2>5
<1> QED BY <1>1, Invariance, PTL

-----------------------------------------------------------------------------
(* The promise of CreditCycle.                                             *)

HeldOf(ch, c) == Cents(Of(Held(ch), c))
UsedOf(ch, c) == Cents(Of(Used(ch), c))

\* What the abstract specification sees of the allocations.
LEMMA Seen ==
  /\ \A ch \in Charges : \A c \in Credits :
       /\ OnCharges("reserved")[ch][c] = HeldOf(ch, c)
       /\ OnCharges("consumed")[ch][c] = UsedOf(ch, c)
       /\ OnCharges("reserved")'[ch][c] = HeldOf(ch, c)'
       /\ OnCharges("consumed")'[ch][c] = UsedOf(ch, c)'
  /\ \A ch \in Charges : /\ Held(ch)' = Held(ch) => OnCharges("reserved")'[ch] = OnCharges("reserved")[ch]
                         /\ Used(ch)' = Used(ch) => OnCharges("consumed")'[ch] = OnCharges("consumed")[ch]
  /\ allocs' = allocs => UNCHANGED <<OnCharges("reserved"), OnCharges("consumed")>>
<1>0. \A ch, c, st : PartOf(ch, c, st) = Of(On(ch, st), c)
  BY DEF PartOf, Of, On
<1>p. (\A ch, c, st : PartOf(ch, c, st) = Of(On(ch, st), c))'
  BY <1>0, PTL
<1>1. ASSUME NEW ch \in Charges, NEW c \in Credits
      PROVE  /\ OnCharges("reserved")[ch][c] = HeldOf(ch, c)
             /\ OnCharges("consumed")[ch][c] = UsedOf(ch, c)
             /\ OnCharges("reserved")'[ch][c] = HeldOf(ch, c)'
             /\ OnCharges("consumed")'[ch][c] = UsedOf(ch, c)'
  BY <1>0, <1>p DEF OnCharges, HeldOf, UsedOf, Held, Used
<1>2. ASSUME NEW ch \in Charges
      PROVE  /\ Held(ch)' = Held(ch) => OnCharges("reserved")'[ch] = OnCharges("reserved")[ch]
             /\ Used(ch)' = Used(ch) => OnCharges("consumed")'[ch] = OnCharges("consumed")[ch]
  BY <1>0, <1>p DEF OnCharges, Held, Used
<1>3. allocs' = allocs => UNCHANGED <<OnCharges("reserved"), OnCharges("consumed")>>
  BY DEF OnCharges, PartOf
<1> QED BY <1>1, <1>2, <1>3

\* What one transaction does to the credits, in the words of the lots.
Shifts(ch) ==
  /\ left' \in [Credits -> Nat]
  /\ \A c \in Credits :
       IF c \in canceled
         THEN left'[c] = 0 /\ HeldOf(ch, c)' + UsedOf(ch, c)' <= HeldOf(ch, c) + UsedOf(ch, c)
         ELSE left'[c] + HeldOf(ch, c)' + UsedOf(ch, c)' = left[c] + HeldOf(ch, c) + UsedOf(ch, c)
  /\ \A d \in Charges \ {ch} : Held(d)' = Held(d) /\ Used(d)' = Used(d)
  /\ UNCHANGED <<canceled, debited>>

LEMMA ShiftsMove ==
  ASSUME NEW ch \in Charges, Shifts(ch)
  PROVE  Cycle!Moves(ch)
<1>1. \A c \in Credits :
        IF c \in canceled
          THEN left'[c] = 0 /\ OnCharges("reserved")'[ch][c] + OnCharges("consumed")'[ch][c]
                                 <= OnCharges("reserved")[ch][c] + OnCharges("consumed")[ch][c]
          ELSE left'[c] + OnCharges("reserved")'[ch][c] + OnCharges("consumed")'[ch][c]
                 = left[c] + OnCharges("reserved")[ch][c] + OnCharges("consumed")[ch][c]
  BY Seen DEF Shifts
<1>2. \A d \in Charges \ {ch} : /\ OnCharges("reserved")'[d] = OnCharges("reserved")[d]
                                /\ OnCharges("consumed")'[d] = OnCharges("consumed")[d]
  BY Seen DEF Shifts
<1>3. left' \in [Credits -> Nat] /\ UNCHANGED <<canceled, debited>>
  BY DEF Shifts
<1> QED BY <1>1, <1>2, <1>3 DEF Cycle!Moves

Makes(x, y, z) == x \in Nat /\ y \in Nat /\ z = x + y

\* The cents of a credit among some lots are those in A and the others.
LEMMA CentsPart ==
  ASSUME Sound, NEW X \in SUBSET allocs, NEW A, NEW in, in = X \cap A, NEW out, out = X \ A, NEW c
  PROVE  Makes(Cents(Of(out, c)), Cents(Of(in, c)), Cents(Of(X, c)))
<1>1. out \in SUBSET allocs /\ in \in SUBSET allocs
  OBVIOUS
<1>2. /\ Priced(Of(out, c)) /\ Priced(Of(in, c))
      /\ Cents(Of(out, c)) \in Nat /\ Cents(Of(in, c)) \in Nat /\ Cents(Of(X, c)) \in Nat
  BY <1>1, Prices
<1>3. Of(X, c) = Of(out, c) \cup Of(in, c) /\ Of(out, c) \cap Of(in, c) = {}
  BY DEF Of
<1>4. Cents(Of(X, c)) = Cents(Of(out, c)) + Cents(Of(in, c))
  BY <1>2, <1>3, CentsBoth
<1> QED BY <1>2, <1>4 DEF Makes

\* What goes back of one charge is a release.
LEMMA ReleaseImplements ==
  ASSUME Sound, NEW ch \in Charges, NEW A, A \subseteq Held(ch) \cup Used(ch), left' = Back(A),
         allocs' = allocs \ A, UNCHANGED <<canceled, debited>>
  PROVE  Cycle!Release(ch)
<1>1. /\ A \in SUBSET allocs /\ Held(ch) \in SUBSET allocs /\ Used(ch) \in SUBSET allocs
      /\ Held(ch) \cap Used(ch) = {} /\ \A a \in A : a.ch = ch
  BY OnCharge
<1>2. /\ Sound' /\ Held(ch)' = Held(ch) \ A /\ Used(ch)' = Used(ch) \ A
      /\ \A d \in Charges \ {ch} : Held(d)' = Held(d) /\ Used(d)' = Used(d)
  <2>1. /\ Sound'
        /\ \A d : /\ Held(d)' = Held(d) \ A /\ Used(d)' = Used(d) \ A
                  /\ (\A a \in A : a.ch # d) => Held(d)' = Held(d) /\ Used(d)' = Used(d)
    BY <1>1, GivingBack
  <2> QED BY <2>1, <1>1
<1>3. ASSUME NEW c \in Credits
      PROVE  /\ HeldOf(ch, c)' <= HeldOf(ch, c) /\ UsedOf(ch, c)' <= UsedOf(ch, c)
             /\ HeldOf(ch, c)' + UsedOf(ch, c)' <= HeldOf(ch, c) + UsedOf(ch, c)
             /\ c \notin canceled => left'[c] + HeldOf(ch, c)' + UsedOf(ch, c)'
                                       = left[c] + HeldOf(ch, c) + UsedOf(ch, c)
  <2> DEFINE h == HeldOf(ch, c)
             hNow == HeldOf(ch, c)'
             u == UsedOf(ch, c)
             uNow == UsedOf(ch, c)'
             x == Cents(Of(Held(ch) \cap A, c))
             y == Cents(Of(Used(ch) \cap A, c))
             z == Cents(Of(A, c))
  <2>1. hNow \in Nat /\ x \in Nat /\ h = hNow + x
    <3>1. PICK in, out : in = Held(ch) \cap A /\ out = Held(ch) \ A
      OBVIOUS
    <3>2. Makes(Cents(Of(out, c)), Cents(Of(in, c)), Cents(Of(Held(ch), c)))
      BY <1>1, <3>1, CentsPart
    <3> QED BY <3>1, <3>2, <1>2 DEF HeldOf, Makes
  <2>2. uNow \in Nat /\ y \in Nat /\ u = uNow + y
    <3>1. PICK in, out : in = Used(ch) \cap A /\ out = Used(ch) \ A
      OBVIOUS
    <3>2. Makes(Cents(Of(out, c)), Cents(Of(in, c)), Cents(Of(Used(ch), c)))
      BY <1>1, <3>1, CentsPart
    <3> QED BY <3>1, <3>2, <1>2 DEF UsedOf, Makes
  <2>3. z = x + y
    <3>1. PICK in, out : /\ in = Held(ch) \cap A /\ out = Used(ch) \cap A
                         /\ in = A \cap Held(ch) /\ out = A \ Held(ch)
      <4>1. Held(ch) \cap A = A \cap Held(ch) /\ Used(ch) \cap A = A \ Held(ch)
        BY <1>1
      <4> QED BY <4>1
    <3>2. Makes(Cents(Of(out, c)), Cents(Of(in, c)), Cents(Of(A, c)))
      BY <1>1, <3>1, CentsPart
    <3> QED BY <3>1, <3>2 DEF Makes
  <2>4. c \notin canceled => left'[c] = left[c] + z
    BY DEF Back
  <2>5. left[c] \in Nat
    BY DEF Sound
  <2> HIDE DEF h, hNow, u, uNow, x, y, z
  <2>6. /\ hNow <= h /\ uNow <= u /\ hNow + uNow <= h + u
        /\ c \notin canceled => left'[c] + hNow + uNow = left[c] + h + u
    BY <2>1, <2>2, <2>3, <2>4, <2>5
  <2> QED BY <2>6 DEF h, hNow, u, uNow
<1>4. Shifts(ch)
  <2>1. left' \in [Credits -> Nat] /\ \A c \in canceled : left'[c] = 0
    BY <1>2 DEF Sound, CanceledStaysEmpty
  <2> QED BY <2>1, <1>2, <1>3 DEF Shifts
<1>5. \A c \in Credits : /\ OnCharges("reserved")'[ch][c] <= OnCharges("reserved")[ch][c]
                         /\ OnCharges("consumed")'[ch][c] <= OnCharges("consumed")[ch][c]
  BY <1>3, Seen
<1> QED BY <1>4, <1>5, ShiftsMove DEF Cycle!Release

\* What is spent of what was set aside on one charge is a payment.
LEMMA ConsumeImplements ==
  ASSUME Sound, NEW ch \in Charges, NEW A, A \subseteq Held(ch), allocs' = Spent(A),
         UNCHANGED <<left, canceled, debited>>
  PROVE  Cycle!Consume(ch)
<1> DEFINE spent(a) == [a EXCEPT !.st = "consumed"]
           new == {spent(a) : a \in A}
<1>1. /\ A \in SUBSET allocs /\ Held(ch) \in SUBSET allocs /\ Used(ch) \in SUBSET allocs
      /\ A \subseteq {a \in allocs : a.st = "reserved"} /\ \A a \in A : a.ch = ch
  BY OnCharge
<1>2. /\ Sound' /\ Held(ch)' = Held(ch) \ A
      /\ \A d \in Charges \ {ch} : Held(d)' = Held(d) /\ Used(d)' = Used(d)
  <2>1. /\ Sound'
        /\ \A d : /\ Held(d)' = Held(d) \ A
                  /\ (\A a \in A : a.ch # d) => Held(d)' = Held(d) /\ Used(d)' = Used(d)
    BY <1>1, Spending
  <2> QED BY <2>1, <1>1
<1>3. \A a \in A : /\ a \in Alloc /\ spent(a) \in Alloc /\ spent(a).ch = ch /\ spent(a).cr = a.cr
                   /\ spent(a).n = a.n /\ spent(a).cents = a.cents /\ spent(a).st = "consumed"
  BY <1>1 DEF Alloc, Sound
<1>4. Used(ch)' = Used(ch) \cup new
  <2>1. allocs' = (allocs \ A) \cup new
    BY DEF Spent
  <2>2. \A a \in A : a.st = "reserved"
    BY <1>1
  <2> HIDE DEF spent
  <2> QED BY <2>1, <2>2, <1>3 DEF Used, On
<1> HIDE DEF spent
<1>5. \A a \in A : spent(a) \notin allocs
  <2> SUFFICES ASSUME NEW a \in A, spent(a) \in allocs PROVE FALSE
    OBVIOUS
  <2>1. spent(a).st # a.st /\ spent(a).n = a.n /\ spent(a).cr = a.cr /\ a \in allocs
    BY <1>1, <1>3
  <2> QED BY <2>1 DEF Sound, Unique
<1>6. ASSUME NEW c \in Credits
      PROVE  /\ HeldOf(ch, c)' <= HeldOf(ch, c)
             /\ HeldOf(ch, c)' + UsedOf(ch, c)' = HeldOf(ch, c) + UsedOf(ch, c)
             /\ HeldOf(ch, c)' \in Nat /\ UsedOf(ch, c)' \in Nat
  <2> DEFINE B == Of(A, c)
             image == {spent(a) : a \in B}
             h == HeldOf(ch, c)
             hNow == HeldOf(ch, c)'
             u == UsedOf(ch, c)
             uNow == UsedOf(ch, c)'
             x == Cents(B)
  <2>1. hNow \in Nat /\ x \in Nat /\ h = hNow + x
    <3>1. PICK out : out = Held(ch) \ A /\ A = Held(ch) \cap A
      OBVIOUS
    <3>2. Makes(Cents(Of(out, c)), Cents(Of(A, c)), Cents(Of(Held(ch), c)))
      BY <1>1, <3>1, CentsPart
    <3> QED BY <3>1, <3>2, <1>2 DEF HeldOf, Makes
  <2>2. Priced(image) /\ Cents(image) = x
    <3>1. PICK f : f = [a \in B |-> spent(a)]
      OBVIOUS
    <3>2. DOMAIN f = B /\ \A a \in B : f[a] = spent(a)
      BY <3>1
    <3>3. B \subseteq A /\ Priced(B)
      BY <1>1, Prices DEF Of
    <3>4. /\ \A a \in B : f[a].cents = a.cents
          /\ \A a, b \in B : f[a] = f[b] => a = b
      BY <3>2, <3>3, <1>1, <1>3 DEF Sound, Unique
    <3>5. {f[a] : a \in B} = image
      BY <3>2
    <3> HIDE DEF B, image
    <3> QED BY <3>2, <3>3, <3>4, <3>5, CentsMapped DEF x
  <2>3. uNow = Cents(Of(Used(ch), c) \cup image)
    <3>1. Of(new, c) = image
      BY <1>3 DEF Of
    <3>2. Of(Used(ch)', c) = Of(Used(ch), c) \cup Of(new, c)
      BY <1>4 DEF Of
    <3> QED BY <3>1, <3>2 DEF UsedOf
  <2>4. Of(Used(ch), c) \cap image = {} /\ Priced(Of(Used(ch), c)) /\ u \in Nat
    <3>1. \A a \in image : a \notin allocs
      BY <1>5 DEF Of
    <3>2. Of(Used(ch), c) \subseteq allocs
      BY <1>1 DEF Of
    <3>3. Priced(Of(Used(ch), c)) /\ Cents(Of(Used(ch), c)) \in Nat
      BY <1>1, Prices
    <3> QED BY <3>1, <3>2, <3>3 DEF UsedOf
  <2>5. uNow = u + x
    <3> HIDE DEF image
    <3> QED BY <2>2, <2>3, <2>4, CentsBoth DEF UsedOf
  <2> HIDE DEF h, hNow, u, uNow, x
  <2>6. hNow <= h /\ hNow + uNow = h + u /\ hNow \in Nat /\ uNow \in Nat
    BY <2>1, <2>4, <2>5
  <2> QED BY <2>6 DEF h, hNow, u, uNow
<1>7. Shifts(ch)
  <2> SUFFICES ASSUME NEW c \in Credits
               PROVE  IF c \in canceled
                        THEN /\ left'[c] = 0
                             /\ HeldOf(ch, c)' + UsedOf(ch, c)' <= HeldOf(ch, c) + UsedOf(ch, c)
                        ELSE left'[c] + HeldOf(ch, c)' + UsedOf(ch, c)'
                               = left[c] + HeldOf(ch, c) + UsedOf(ch, c)
    BY <1>2 DEF Shifts, Sound
  <2>1. left'[c] = left[c] /\ left[c] \in Nat /\ (c \in canceled => left[c] = 0)
    BY DEF Sound, CanceledStaysEmpty
  <2>2. HeldOf(ch, c) + UsedOf(ch, c) = HeldOf(ch, c)' + UsedOf(ch, c)'
    BY <1>6
  <2>3. HeldOf(ch, c) \in Nat /\ UsedOf(ch, c) \in Nat
    BY <1>1, Prices DEF HeldOf, UsedOf
  <2> DEFINE h == HeldOf(ch, c)
             hNow == HeldOf(ch, c)'
             u == UsedOf(ch, c)
             uNow == UsedOf(ch, c)'
  <2>4. h \in Nat /\ u \in Nat /\ hNow \in Nat /\ uNow \in Nat /\ h + u = hNow + uNow
    BY <2>2, <2>3, <1>6
  <2> HIDE DEF h, hNow, u, uNow
  <2>5. hNow + uNow <= h + u /\ left[c] + hNow + uNow = left[c] + h + u
    BY <2>1, <2>4
  <2> QED BY <2>1, <2>5 DEF h, hNow, u, uNow
<1>8. \A c \in Credits : /\ OnCharges("reserved")'[ch][c] <= OnCharges("reserved")[ch][c]
                         /\ OnCharges("reserved")'[ch][c] + OnCharges("consumed")'[ch][c]
                              = OnCharges("reserved")[ch][c] + OnCharges("consumed")[ch][c]
  BY <1>6, Seen
<1> QED BY <1>7, <1>8, ShiftsMove DEF Cycle!Consume

\* What goes back and is set aside anew on one charge is an emission.
LEMMA ReserveImplements ==
  ASSUME Sound, NEW ch \in Charges, NEW p, NEW u, NEW gw, NEW old, NEW new, NEW part, NEW sum,
         Reserved(p, ch, u, gw, old, new, part, sum)
  PROVE  Cycle!Reserve(ch)
<1>1. /\ Sound' /\ Held(ch)' = (Held(ch) \ old) \cup new /\ Used(ch)' = Used(ch)
      /\ UNCHANGED <<canceled, debited>>
      /\ \A d \in Charges \ {ch} : Held(d)' = Held(d) /\ Used(d)' = Used(d)
      /\ Renewed(old, new, part, gw) /\ old \subseteq Held(ch) /\ \A a \in allocs : a.n # gw
  BY DEF Reserved
<1>2. Held(ch) \in SUBSET allocs /\ Used(ch) \in SUBSET allocs
  BY OnCharge
<1>3. \A c \in Credits : UsedOf(ch, c) \in Nat /\ UsedOf(ch, c)' = UsedOf(ch, c)
  BY <1>1, <1>2, Prices DEF UsedOf
<1>4. ASSUME NEW c \in Credits
      PROVE  \E kept \in Nat, back \in Nat :
               /\ HeldOf(ch, c) = kept + back /\ Cents(Of(old, c)) = back
               /\ HeldOf(ch, c)' = kept + part[c]
  <2>1. PICK in, out : in = Held(ch) \cap old /\ out = Held(ch) \ old /\ in = old
    BY <1>1
  <2>2. Makes(Cents(Of(out, c)), Cents(Of(in, c)), Cents(Of(Held(ch), c)))
    BY <1>2, <2>1, CentsPart
  <2>3. Of(Held(ch)', c) = Of(out, c) \cup Of(new, c) /\ Of(out, c) \cap Of(new, c) = {}
    BY <1>1, <1>2, <2>1 DEF Of, Renewed
  <2>4. Priced(Of(out, c)) /\ Priced(Of(new, c)) /\ Cents(Of(new, c)) = part[c]
    BY <1>1, <1>2, <2>1, Prices DEF Renewed
  <2>5. Cents(Of(Held(ch)', c)) = Cents(Of(out, c)) + part[c]
    BY <2>3, <2>4, CentsBoth
  <2> QED BY <2>1, <2>2, <2>5 DEF HeldOf, Makes
<1>5. ASSUME NEW c \in Credits
      PROVE  IF c \in canceled
               THEN left'[c] = 0 /\ HeldOf(ch, c)' + UsedOf(ch, c)' <= HeldOf(ch, c) + UsedOf(ch, c)
               ELSE left'[c] + HeldOf(ch, c)' + UsedOf(ch, c)' = left[c] + HeldOf(ch, c) + UsedOf(ch, c)
  <2>1. PICK kept \in Nat, back \in Nat :
          /\ HeldOf(ch, c) = kept + back /\ Cents(Of(old, c)) = back
          /\ HeldOf(ch, c)' = kept + part[c]
    BY <1>4
  <2> DEFINE u1 == UsedOf(ch, c)
             has == Back(old)[c]
  <2>2. has = IF c \in canceled THEN left[c] ELSE left[c] + back
    BY <2>1 DEF Back
  <2>3. left'[c] = has - part[c] /\ part[c] \in 0..has /\ (c \in canceled => part[c] = 0)
    BY <1>1 DEF Renewed
  <2>4. left[c] \in Nat /\ (c \in canceled => left'[c] = 0) /\ canceled' = canceled
    BY <1>1 DEF Sound, CanceledStaysEmpty
  <2>5. UsedOf(ch, c)' = u1 /\ u1 \in Nat
    BY <1>3
  <2> HIDE DEF u1, has
  <2>6. IF c \in canceled
          THEN left'[c] = 0 /\ (kept + part[c]) + u1 <= (kept + back) + u1
          ELSE left'[c] + (kept + part[c]) + u1 = left[c] + (kept + back) + u1
    BY <2>2, <2>3, <2>4, <2>5
  <2> QED BY <2>1, <2>5, <2>6 DEF u1
<1>6. Shifts(ch)
  BY <1>1, <1>5 DEF Shifts, Sound
<1>7. OnCharges("consumed")'[ch] = OnCharges("consumed")[ch]
  BY <1>1, Seen
<1> QED BY <1>6, <1>7, ShiftsMove DEF Cycle!Reserve

\* One step of the transactions is one of the cycle, or none.
LEMMA StepImplements ==
  ASSUME CreditAssumption, IInv, [Next]_vars
  PROVE  [Cycle!Next]_(Cycle!vars)
<1>1. ASSUME UNCHANGED <<left, canceled, debited, allocs>> PROVE UNCHANGED Cycle!vars
  BY <1>1, Seen DEF Cycle!vars
<1>2. CASE UNCHANGED vars
  BY <1>1, <1>2 DEF vars
<1>3. ASSUME NEW p \in Procs, NEW ch \in Charges, Start(p, ch) PROVE UNCHANGED Cycle!vars
  BY <1>1, <1>3 DEF Start, StartIssue, StartCancel, StartDropped, StartOverride, StartReset,
       StartPayment, StartSettle, StartRefund, StartSweep, StartDebit, Begin, Starts
<1>4. ASSUME NEW c \in Credits, CancelCredit(c) PROVE Cycle!Next
  <2>1. UNCHANGED <<OnCharges("reserved"), OnCharges("consumed")>>
    BY <1>4, Seen DEF CancelCredit
  <2> QED BY <2>1, <1>4 DEF CancelCredit, Cycle!Next, Cycle!Cancel
<1>5. Sound
  BY SoundNow
<1>6. ASSUME NEW p \in Procs, NEW s, At(p, s)
      PROVE  Todo(p) # Done /\ proc[p].ch \in Charges /\ Planned(p)
  BY <1>6 DEF IInv, Planned, At, Todo, Done
<1>7. ASSUME NEW p \in Procs, Work(p) PROVE [Cycle!Next]_(Cycle!vars)
  <2>1. CASE Open(p) \/ Reread(p) \/ Label(p) \/ Reset(p) \/ Override(p) \/ Paid(p)
            \/ FullPrice(p) \/ LetGo(p) \/ Finally(p)
    BY <1>1, <2>1 DEF Open, Reread, Label, Reset, Override, Paid, FullPrice, LetGo, Finally, Write
  <2>2. CASE Reserve(p)
    <3>1. PICK ch, u, gw : ch = proc[p].ch /\ u = Tail(Todo(p)) /\ gw = proc[p].gw
      OBVIOUS
    <3>2. Reserving(p, ch, u, gw)
      BY <2>2, <3>1, ReserveStarts
    <3>3. PICK old, new, part, sum : Reserved(p, ch, u, gw, old, new, part, sum)
      BY <2>2, <3>1, <3>2, ReserveDoes
    <3>4. ch \in Charges
      BY <3>2 DEF Reserving
    <3> QED BY <1>5, <3>3, <3>4, ReserveImplements DEF Cycle!Next
  <2>3. CASE Release(p)
    <3>1. PICK ch, A : ch = proc[p].ch /\ A = Hit(p, "reserved")
      OBVIOUS
    <3>2. /\ At(p, "release") /\ left' = Back(A) /\ allocs' = allocs \ A
          /\ UNCHANGED <<canceled, debited>>
      BY <2>3, <3>1 DEF Release, Writes
    <3>3. ch \in Charges /\ A \subseteq Held(ch) \cup Used(ch)
      BY <3>1, <3>2, <1>6, Hits
    <3> QED BY <1>5, <3>2, <3>3, ReleaseImplements DEF Cycle!Next
  <2>4. CASE Consume(p)
    <3>1. PICK ch, A : ch = proc[p].ch /\ A = Hit(p, "reserved")
      OBVIOUS
    <3>2. At(p, "consume") /\ allocs' = Spent(A) /\ UNCHANGED <<left, canceled, debited>>
      BY <2>4, <3>1 DEF Consume, Writes
    <3>3. ch \in Charges /\ A \subseteq Held(ch)
      BY <3>1, <3>2, <1>6, Hits
    <3> QED BY <1>5, <3>2, <3>3, ConsumeImplements DEF Cycle!Next
  <2>5. CASE Restore(p)
    <3>1. PICK ch, rest, A : /\ ch = proc[p].ch /\ rest \in Again(p) /\ A = Restored(p, rest)
                             /\ left' = Back(A) /\ allocs' = allocs \ A
      BY <2>5 DEF Restore
    <3>2. At(p, "restore") /\ UNCHANGED <<canceled, debited>>
      BY <2>5 DEF Restore, Writes
    <3>3. ch \in Charges /\ A \subseteq Held(ch) \cup Used(ch)
      BY <3>1, <3>2, <1>6, Hits
    <3> QED BY <1>5, <3>1, <3>2, <3>3, ReleaseImplements DEF Cycle!Next
  <2>6. CASE Record(p)
    <3>1. PICK ch, A : ch = proc[p].ch /\ A = Hit(p, "reserved")
      OBVIOUS
    <3>2. At(p, "record") /\ UNCHANGED <<left, canceled, debited>>
      BY <2>6 DEF Record, Writes
    <3>3. allocs' = allocs \/ allocs' = Spent(A)
      BY <2>6, <3>1 DEF Record
    <3>4. ch \in Charges /\ A \subseteq Held(ch)
      BY <3>1, <3>2, <1>6, Hits
    <3>5. CASE allocs' = allocs
      BY <1>1, <3>2, <3>5
    <3>6. CASE allocs' = Spent(A)
      BY <1>5, <3>2, <3>4, <3>6, ConsumeImplements DEF Cycle!Next
    <3> QED BY <3>3, <3>5, <3>6
  <2>7. CASE Reverse(p)
    <3>1. At(p, "reverse") /\ UNCHANGED <<canceled, debited>>
      BY <2>7 DEF Reverse, Writes
    <3>2. CASE UNCHANGED <<left, allocs>>
      BY <1>1, <3>1, <3>2
    <3>3. CASE ~UNCHANGED <<left, allocs>>
      <4>1. PICK ch, rest, A : /\ ch = proc[p].ch /\ rest \in Again(p) /\ A = Restored(p, rest)
                               /\ left' = Back(A) /\ allocs' = allocs \ A
        BY <2>7, <3>3 DEF Reverse
      <4>2. ch \in Charges /\ A \subseteq Held(ch) \cup Used(ch)
        BY <3>1, <4>1, <1>6, Hits
      <4> QED BY <1>5, <3>1, <4>1, <4>2, ReleaseImplements DEF Cycle!Next
    <3> QED BY <3>2, <3>3
  <2>8. CASE Debit(p)
    <3>1. PICK had, c : had = {d \in Credits : proc[p].snap[d] > 0} /\ c = Min(had)
      OBVIOUS
    <3>2. /\ \/ had # {} /\ c \notin canceled /\ left[c] > 0
                /\ left' = [left EXCEPT ![c] = @ - 1] /\ debited' = [debited EXCEPT ![c] = @ + 1]
             \/ UNCHANGED <<left, debited>>
          /\ UNCHANGED <<canceled, allocs>>
      BY <2>8, <3>1 DEF Debit
    <3>3. CASE UNCHANGED <<left, debited>>
      BY <1>1, <3>2, <3>3
    <3>4. CASE had # {} /\ left[c] > 0 /\ left' = [left EXCEPT ![c] = @ - 1]
                 /\ debited' = [debited EXCEPT ![c] = @ + 1]
      <4>1. c \in Credits
        <5>1. had \subseteq Credits /\ Credits \subseteq Nat
          BY <3>1 DEF Credits
        <5>2. \E n \in had : \A m \in had : n <= m
          BY <3>4, <5>1, LeastNumber
        <5> QED BY <5>1, <5>2, <3>1 DEF Min
      <4>2. UNCHANGED <<OnCharges("reserved"), OnCharges("consumed")>>
        BY <3>2, Seen
      <4> QED BY <3>2, <3>4, <4>1, <4>2 DEF Cycle!Next, Cycle!Debit
    <3> QED BY <3>2, <3>3, <3>4
  <2> QED BY <1>7, <2>1, <2>2, <2>3, <2>4, <2>5, <2>6, <2>7, <2>8 DEF Work
<1> QED BY <1>2, <1>3, <1>4, <1>7 DEF Next

\* The transactions keep the promise of the credit's cycle: each moves cents of one charge
\* only, from free to set aside, from there to spent, or back to free, and what a payment
\* spends had been set aside on that charge.
THEOREM CreditImplements == Spec => Implements
<1>1. Init => Cycle!Init
  <2> SUFFICES ASSUME Init PROVE Cycle!Init
    OBVIOUS
  <2>1. left = Amount /\ debited = [c \in Credits |-> 0] /\ canceled = {} /\ allocs = {}
    BY DEF Init
  <2>2. \A ch, c, st : Cents(PartOf(ch, c, st)) = 0
    <3>1. \A ch, c, st : PartOf(ch, c, st) = {}
      BY <2>1 DEF PartOf
    <3> QED BY <3>1, CentsOne, FS_EmptySet
  <2>3. \A st : OnCharges(st) = [ch \in Charges |-> [c \in Credits |-> 0]]
    BY <2>2 DEF OnCharges
  <2> QED BY <2>1, <2>3 DEF Cycle!Init, Cycle!Nothing
<1>2. IInv /\ [Next]_vars => [Cycle!Next]_(Cycle!vars)
  BY StepImplements, CreditAssumption
<1>3. Cycle!Init /\ [][Cycle!Next]_(Cycle!vars) => Implements
  BY DEF Implements, Cycle!Spec
<1> QED BY <1>1, <1>2, <1>3, Invariance, PTL DEF Spec
=============================================================================
