--------------------------- MODULE MCParallelSeam ---------------------------
(* TLC instances of ParallelSeam: text calls t*, a constrained call c1, an image call i1. *)
EXTENDS ParallelSeam, TLC

CONSTANTS t1, t2, t3, c1, i1, k1, s1, s2, s3

MCKeys  == {k1}
MCKeyOf == [r \in Requests |-> IF r = i1 THEN k1 ELSE NoKey]

\* Slots and text calls are interchangeable (the image call keeps its key).
MCSymmetry == Permutations(Slots) \cup Permutations({r \in Requests : KeyOf[r] = NoKey})

\* The engine without a session cache.
ResidentInit     == Init /\ ~HasCache
ResidentLiveSpec == ResidentInit /\ [][Next]_vars /\ Fairness
=============================================================================
