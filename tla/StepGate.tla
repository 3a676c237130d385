------------------------------ MODULE StepGate ------------------------------
(***************************************************************************)
(* The GPU baton of a `-np N` server: a ticket lock over a Mutex<GateInner>*)
(* and one condition variable.  Each critical section of the mutex is one  *)
(* step; Condvar::wait releases it atomically.  GatePass::drop advances    *)
(* `serving` in one critical section and notifies after leaving it.        *)
(*                                                                         *)
(* Tickets are u64 in the code and grow by one per GPU step; at a million  *)
(* a second they last half a million years, so they do not wrap here.      *)
(***************************************************************************)
EXTENDS Naturals, Sequences

CONSTANTS Threads,     \* the threads that submit GPU work
          MaxTickets   \* bound: calls of enter

VARIABLES
  next,      \* GateInner.next
  serving,   \* GateInner.serving
  ticket,    \* the local `ticket` of each call of enter
  at         \* where each thread is

gateVars == <<next, serving, ticket, at>>

Where == {"out", "parked", "awake", "holding", "leaving"}

GateInit ==
  /\ next = 0 /\ serving = 0
  /\ ticket = [t \in Threads |-> 0]
  /\ at = [t \in Threads |-> "out"]

\* Mutant: a woken waiter takes a free gate, whosever turn it is.
RecheckUnfair(t) ==
  /\ at[t] = "awake"
  /\ at' = [at EXCEPT ![t] = IF \A u \in Threads : at[u] # "holding" THEN "holding" ELSE "parked"]
  /\ UNCHANGED <<next, serving, ticket>>

\* Mutant: the condition is not evaluated again after a wakeup.
RecheckNever(t) ==
  /\ at[t] = "awake"
  /\ at' = [at EXCEPT ![t] = "holding"]
  /\ UNCHANGED <<next, serving, ticket>>

\* StepGate::enter: take a ticket; wait unless it is being served.
Enter(t) ==
  /\ at[t] = "out" /\ next < MaxTickets
  /\ ticket' = [ticket EXCEPT ![t] = next]
  /\ next' = next + 1
  /\ at' = [at EXCEPT ![t] = IF serving = next THEN "holding" ELSE "parked"]
  /\ UNCHANGED serving

\* A woken waiter evaluates its condition again.
Recheck(t) ==
  /\ at[t] = "awake"
  /\ at' = [at EXCEPT ![t] = IF serving = ticket[t] THEN "holding" ELSE "parked"]
  /\ UNCHANGED <<next, serving, ticket>>

\* Mutant: a pass is dropped twice.
LeaveTwice(t) ==
  /\ at[t] = "holding"
  /\ serving' = serving + 2
  /\ at' = [at EXCEPT ![t] = "leaving"]
  /\ UNCHANGED <<next, ticket>>

\* GatePass::drop, first half: serve the next ticket.
Leave(t) ==
  /\ at[t] = "holding"
  /\ serving' = serving + 1
  /\ at' = [at EXCEPT ![t] = "leaving"]
  /\ UNCHANGED <<next, ticket>>

\* Mutant: notify_one.
NotifyOne(t) ==
  /\ at[t] = "leaving"
  /\ \E u \in Threads :
       /\ at[u] = "parked" \/ \A v \in Threads : at[v] # "parked"
       /\ at' = [at EXCEPT ![t] = "out", ![u] = IF at[u] = "parked" THEN "awake" ELSE @]
  /\ UNCHANGED <<next, serving, ticket>>

\* GatePass::drop, second half: notify_all.
Notify(t) ==
  /\ at[t] = "leaving"
  /\ at' = [u \in Threads |-> IF u = t THEN "out"
                              ELSE IF at[u] = "parked" THEN "awake" ELSE at[u]]
  /\ UNCHANGED <<next, serving, ticket>>

\* A thread inside the gate; the pass is dropped when its step ends, also by an error or a panic.
Proceed(t) == Recheck(t) \/ Leave(t) \/ Notify(t)

GateNext == \E t \in Threads : Enter(t) \/ Proceed(t)

\* The operating system runs every thread and GPU steps end; nobody has to come back.
GateSpec == GateInit /\ [][GateNext]_gateVars /\ \A t \in Threads : WF_gateVars(Proceed(t))

-----------------------------------------------------------------------------
(* Properties. *)

Queued(t) == at[t] \in {"parked", "awake", "holding"}

\* Counters, tickets and the position of each thread have their types; `serving` never overtakes
\* `next`.
GateTypeOK ==
  /\ next \in Nat /\ serving \in 0..next
  /\ ticket \in [Threads -> Nat]
  /\ at \in [Threads -> Where]

\* The baton is the external synchronisation of the Vulkan command pool: no two threads ever
\* record or allocate at the same time, however enters, wakeups and drops interleave.
OneHolder == \A t, u \in Threads : at[t] = "holding" /\ at[u] = "holding" => t = u

\* The threads in ticket order, starting with the one whose turn it is.
With(n) == {t \in Threads : Queued(t) /\ ticket[t] = n}
Owner(n) == IF With(n) = {} THEN {} ELSE CHOOSE t \in With(n) : TRUE
Line == [i \in 1..(next - serving) |-> Owner(serving + i - 1)]

Fifo == INSTANCE FifoLock WITH line <- Line

\* The gate is a FIFO lock: a step is made, and the baton handed on, only by the sequence that has
\* waited longest.
GateIsFifo == Fifo!FifoSpec

\* Every ticket is served: no wakeup is lost between `serving += 1` and notify_all.
EveryTicketServed == \A t \in Threads : Queued(t) ~> at[t] = "holding"
=============================================================================
