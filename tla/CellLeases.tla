------------------------------ MODULE CellLeases ------------------------------
(***************************************************************************)
(* What the elastic VRAM arena promises its clients.  Cells are handed out *)
(* in batches; a batch belongs to one lease, no cell belongs to two, and   *)
(* no cell of a batch comes back before the whole lease has been closed.   *)
(* Nothing is said of ranges, classes, corridors or of who may ask.        *)
(***************************************************************************)
EXTENDS Naturals

CONSTANT Cells

VARIABLE leases    \* the leases: the cells of the batch, those of them not
                   \* yet returned, and whether somebody still uses the batch

Taken == UNION {l.left : l \in leases}

\* The lease that is new.
Grant ==
    \E l \in leases' \ leases :
        /\ l.open /\ l.left = l.batch
        /\ l.batch \in SUBSET (Cells \ Taken) /\ l.batch # {}
        /\ leases' = leases \cup {l}

\* The lease that is no longer as it was.
Close ==
    \E l \in leases \ leases' :
        /\ l.open
        /\ leases' = (leases \ {l}) \cup {[l EXCEPT !.open = FALSE]}

GiveBack ==
    \E l \in leases \ leases' :
        /\ ~l.open
        /\ \E C \in SUBSET l.left :
              /\ C # {}
              /\ leases' = (leases \ {l}) \cup
                             (IF C = l.left THEN {} ELSE {[l EXCEPT !.left = @ \ C]})

\* Some batches may be out from the start.
LeaseInit ==
    /\ \A l \in leases : l.open /\ l.left = l.batch /\ l.batch \in (SUBSET Cells) \ {{}}
    /\ \A l, m \in leases : l # m => l.left \cap m.left = {}
LeaseNext == Grant \/ Close \/ GiveBack
LeaseSpec == LeaseInit /\ [][LeaseNext]_leases

=============================================================================
