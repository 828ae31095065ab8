---------------------------- MODULE MC_AcsSlots ----------------------------
EXTENDS AcsSlots

CONSTANTS a1, a2, a3, a4, b1, b2, ta, tb

\* One provider with more calls than its cap, and another with as many as its cap.
MCProvider == [c \in Calls |-> IF c \in {a1, a2, a3, a4} THEN ta ELSE tb]
=============================================================================
