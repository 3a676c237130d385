----------------------------- MODULE MCSlotPool -----------------------------
(* TLC instance of SlotPool: three text calls and one image call contend for two slots. *)
EXTENDS SlotPool

CONSTANTS t1, t2, t3, i1, k1, s1, s2

MCSlots    == {s1, s2}
MCRequests == {t1, t2, t3, i1}
MCKeys     == {k1}
MCKeyOf    == [r \in MCRequests |-> IF r = i1 THEN k1 ELSE NoKey]
=============================================================================
