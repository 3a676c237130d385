------------------------------ MODULE FifoLock ------------------------------
(***************************************************************************)
(* What the GPU step gate promises: threads line up, and the one at the    *)
(* head of the line, and no other, has the baton until it leaves.          *)
(***************************************************************************)
EXTENDS Naturals, Sequences

CONSTANTS Threads   \* the threads that submit GPU work

VARIABLE line       \* the threads in arrival order

InLine(t)   == \E i \in 1..Len(line) : line[i] = t
HasBaton(t) == line # <<>> /\ line[1] = t

FifoInit == line = <<>>

Join(t) == ~InLine(t) /\ line' = Append(line, t)

Depart(t) == HasBaton(t) /\ line' = Tail(line)

FifoNext == \E t \in Threads : Join(t) \/ Depart(t)

FifoSpec == FifoInit /\ [][FifoNext]_line
=============================================================================
