---------------------------- MODULE CreditCycle ----------------------------
(***************************************************************************)
(* The life of a cent of credit, as models/TenantCredit.js promises it:    *)
(* free, then set aside on a charge, then spent there; and from a charge   *)
(* only back to free. A step moves cents of one charge; what comes back to *)
(* a credit that was canceled is lost. TenantCredit has the transactions   *)
(* that keep the promise. Steps say what may move, not how much.           *)
(***************************************************************************)
EXTENDS Naturals

CONSTANTS Credits, Amount, Charges

VARIABLES
  free,          \* cents of each credit that are on no charge
  held, spent,   \* those set aside and those spent, of each charge and credit
  taken,         \* those the console took back
  gone           \* the credits that were canceled

vars == <<free, held, spent, taken, gone>>

Nothing == [c \in Credits |-> 0]

Init ==
  /\ free = Amount /\ taken = Nothing /\ gone = {}
  /\ held = [ch \in Charges |-> Nothing] /\ spent = [ch \in Charges |-> Nothing]

\* Cents move on ch alone: between it and what is free of a credit, or away if the credit
\* was canceled.
Moves(ch) ==
  /\ UNCHANGED <<taken, gone>> /\ free' \in [Credits -> Nat]
  /\ \A c \in Credits :
       IF c \in gone
         THEN free'[c] = 0 /\ held'[ch][c] + spent'[ch][c] <= held[ch][c] + spent[ch][c]
         ELSE free'[c] + held'[ch][c] + spent'[ch][c] = free[c] + held[ch][c] + spent[ch][c]
  /\ \A d \in Charges \ {ch} : held'[d] = held[d] /\ spent'[d] = spent[d]

\* An emission sets aside anew: what is spent stays.
Reserve(ch) == Moves(ch) /\ spent'[ch] = spent[ch]

\* A payment spends what was set aside, and nothing that was free.
Consume(ch) ==
  /\ Moves(ch) /\ free' = free
  /\ \A c \in Credits : /\ held'[ch][c] <= held[ch][c]
                        /\ held'[ch][c] + spent'[ch][c] = held[ch][c] + spent[ch][c]

\* A cancellation, a reset or a refund gives back, and sets nothing aside.
Release(ch) ==
  /\ Moves(ch)
  /\ \A c \in Credits : held'[ch][c] <= held[ch][c] /\ spent'[ch][c] <= spent[ch][c]

\* The console takes back what is free.
Debit(c) ==
  /\ free[c] > 0
  /\ free' = [free EXCEPT ![c] = @ - 1] /\ taken' = [taken EXCEPT ![c] = @ + 1]
  /\ UNCHANGED <<held, spent, gone>>

\* The credit is canceled: what was free of it is lost, and what is on a charge stays.
Cancel(c) ==
  /\ c \notin gone
  /\ gone' = gone \cup {c} /\ free' = [free EXCEPT ![c] = 0]
  /\ UNCHANGED <<held, spent, taken>>

Next ==
  \/ \E ch \in Charges : Reserve(ch) \/ Consume(ch) \/ Release(ch)
  \/ \E c \in Credits : Debit(c) \/ Cancel(c)

Spec == Init /\ [][Next]_vars
=============================================================================
