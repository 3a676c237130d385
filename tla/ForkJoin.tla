------------------------------ MODULE ForkJoin ------------------------------
(***************************************************************************)
(* What a fork-join pool promises a caller of run(n, f): the indices       *)
(* 0 .. n-1 are handed out once each, and run returns only when every one  *)
(* of them has finished.  Nothing is said of who executes an index, of     *)
(* cursors, of generations or of sleeping threads.                         *)
(***************************************************************************)
EXTENDS Naturals

CONSTANT Width     \* the most tasks of one run

VARIABLES running, \* a run is in progress
          todo,    \* its indices not yet handed out
          busy     \* its indices being executed

Begin ==
    /\ ~running /\ running' = TRUE
    /\ \E n \in 1..Width : todo' = 0..(n - 1)
    /\ busy = {} /\ busy' = {}

Take ==
    /\ running
    /\ \E t \in todo : todo' = todo \ {t} /\ busy' = busy \cup {t}
    /\ UNCHANGED running

Finish ==
    /\ running
    /\ \E t \in busy : busy' = busy \ {t}
    /\ UNCHANGED <<running, todo>>

Return ==
    /\ running /\ todo = {} /\ busy = {}
    /\ running' = FALSE
    /\ UNCHANGED <<todo, busy>>

JoinInit == running = FALSE /\ todo = {} /\ busy = {}
JoinNext == Begin \/ Take \/ Finish \/ Return
JoinSpec == JoinInit /\ [][JoinNext]_<<running, todo, busy>>

=============================================================================
