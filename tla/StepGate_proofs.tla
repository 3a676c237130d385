-------------------------- MODULE StepGate_proofs --------------------------
(***************************************************************************)
(* Proofs about StepGate, for every set of threads and number of tickets:  *)
(* the baton has one holder, and the gate implements FifoLock.             *)
(*                                                                         *)
(* The inductive invariant says that the tickets in serving..next-1 and    *)
(* the threads inside the gate correspond one to one (InWindow, Unique,    *)
(* Owned), and that a holder's ticket is the one being served (Served).    *)
(***************************************************************************)
EXTENDS StepGate, SequenceTheorems, TLAPS

\* A thread inside the gate has a ticket that was handed out and not served yet.
InWindow == \A t \in Threads : Queued(t) => ticket[t] >= serving /\ ticket[t] < next
\* No ticket is held twice.
Unique == \A t, u \in Threads : Queued(t) /\ Queued(u) /\ ticket[t] = ticket[u] => t = u
\* No ticket between serving and next is lost.
Owned == \A n \in Nat : n >= serving /\ n < next => \E t \in Threads : Queued(t) /\ ticket[t] = n
\* The holder's turn has come.
Served == \A t \in Threads : at[t] = "holding" => ticket[t] = serving

GateInv == GateTypeOK /\ InWindow /\ Unique /\ Owned /\ Served

\* Nobody is inside the gate at first, and no ticket is out.
LEMMA GateInitInv == GateInit => GateInv
BY SMT DEF GateInit, GateInv, GateTypeOK, InWindow, Unique, Owned, Served, Queued, Where

\* Every step of a thread preserves the correspondence.
LEMMA GateStepInv == GateInv /\ [GateNext]_gateVars => GateInv'
<1> SUFFICES ASSUME GateInv, [GateNext]_gateVars PROVE GateInv'
  OBVIOUS
<1> USE DEF GateInv, GateTypeOK, InWindow, Unique, Owned, Served, Queued, Where
<1>1. ASSUME NEW t \in Threads, Enter(t) PROVE GateInv'
  <2>1. /\ at[t] = "out" /\ ticket' = [ticket EXCEPT ![t] = next] /\ next' = next + 1
        /\ at' = [at EXCEPT ![t] = IF serving = next THEN "holding" ELSE "parked"]
        /\ serving' = serving
    BY <1>1 DEF Enter
  <2>2. GateTypeOK' /\ InWindow' /\ Served'
    BY <2>1, SMT
  <2>3. Unique'
    BY <2>1, SMT
  <2>4. Owned'
    <3> SUFFICES ASSUME NEW n \in Nat, n >= serving', n < next'
                 PROVE \E u \in Threads : Queued(u)' /\ ticket'[u] = n
      BY SMT
    <3>1. CASE n = next
      BY <2>1, <3>1, SMT
    <3>2. CASE n # next
      <4>1. PICK u \in Threads : Queued(u) /\ ticket[u] = n
        BY <2>1, <3>2, SMT
      <4>2. u # t
        BY <4>1, <2>1
      <4> QED BY <4>1, <4>2, <2>1, SMT
    <3> QED BY <3>1, <3>2
  <2> QED BY <2>2, <2>3, <2>4
<1>2. ASSUME NEW t \in Threads, Recheck(t) PROVE GateInv'
  BY <1>2, SMT DEF Recheck
<1>3. ASSUME NEW t \in Threads, Leave(t) PROVE GateInv'
  <2>1. /\ at[t] = "holding" /\ serving' = serving + 1 /\ next' = next /\ ticket' = ticket
        /\ at' = [at EXCEPT ![t] = "leaving"] /\ ticket[t] = serving
    BY <1>3 DEF Leave
  <2>2. GateTypeOK' /\ InWindow' /\ Unique' /\ Served'
    BY <2>1, SMT
  <2>3. Owned'
    <3> SUFFICES ASSUME NEW n \in Nat, n >= serving', n < next'
                 PROVE \E u \in Threads : Queued(u)' /\ ticket'[u] = n
      BY SMT
    <3>1. PICK u \in Threads : Queued(u) /\ ticket[u] = n
      BY <2>1, SMT
    <3>2. u # t
      BY <3>1, <2>1, SMT
    <3> QED BY <3>1, <3>2, <2>1, SMT
  <2> QED BY <2>2, <2>3
<1>4. ASSUME NEW t \in Threads, Notify(t) PROVE GateInv'
  BY <1>4, SMT DEF Notify
<1>5. CASE UNCHANGED gateVars
  BY <1>5, SMT DEF gateVars
<1> QED BY <1>1, <1>2, <1>3, <1>4, <1>5 DEF GateNext, Proceed

\* One sequence at a time submits to the GPU.
THEOREM GateExcludes == GateSpec => []OneHolder
<1>1. GateInv => OneHolder
  BY DEF GateInv, Served, Unique, OneHolder, Queued
<1> QED BY GateInitInv, GateStepInv, <1>1, PTL DEF GateSpec

\* The types of the gate's state, with serving <= next.
THEOREM GateTypeCorrect == GateSpec => []GateTypeOK
<1>1. GateInv => GateTypeOK
  BY DEF GateInv
<1> QED BY GateInitInv, GateStepInv, <1>1, PTL DEF GateSpec

-----------------------------------------------------------------------------
(* The refinement. *)

\* Line is a sequence of threads, and a thread inside the gate stands where its ticket says.
Inside == {t \in Threads : Queued(t)}
LineIsTickets ==
  /\ Line \in Seq(Threads)
  /\ Len(Line) = next - serving
  /\ \A i \in 1..Len(Line) : Line[i] \in Inside /\ ticket[Line[i]] = serving + i - 1

LEMMA LineFacts == GateInv => LineIsTickets
<1> SUFFICES ASSUME GateInv PROVE LineIsTickets
  OBVIOUS
<1>1. next \in Nat /\ serving \in Nat /\ next - serving \in Nat
  BY SMT DEF GateInv, GateTypeOK
<1>2. ASSUME NEW i \in 1..(next - serving)
      PROVE  Line[i] \in With(serving + i - 1)
  <2>1. serving + i - 1 \in Nat /\ serving + i - 1 >= serving /\ serving + i - 1 < next
    BY <1>1, SMT
  <2>2. With(serving + i - 1) # {}
    BY <2>1 DEF GateInv, Owned, With
  <2>3. Line[i] = CHOOSE t \in With(serving + i - 1) : TRUE
    BY <2>2 DEF Line, Owner
  <2> QED BY <2>2, <2>3
<1>3. ASSUME NEW i \in 1..(next - serving)
      PROVE  Line[i] \in Threads /\ Queued(Line[i]) /\ ticket[Line[i]] = serving + i - 1
  BY <1>2 DEF With
<1>4. Line \in [1..(next - serving) -> Threads]
  BY <1>3 DEF Line
<1> QED BY <1>1, <1>3, <1>4, SMT DEF LineIsTickets, Inside

\* What holds before a step holds after it.
LEMMA LineFactsNext == GateInv /\ [GateNext]_gateVars => LineIsTickets /\ LineIsTickets' /\ GateInv'
<1>1. GateInv' => LineIsTickets'
  BY LineFacts, PTL
<1> QED BY <1>1, LineFacts, GateStepInv

\* Two threads inside the gate with the same ticket are one.
LEMMA OneTicket ==
  ASSUME GateInv, NEW t \in Inside, NEW u \in Inside, ticket[t] = ticket[u]
  PROVE  t = u
BY DEF GateInv, Unique, Inside

\* A step that moves no thread in or out leaves the line alone.
LEMMA SameLine ==
  ASSUME GateInv, [GateNext]_gateVars, next' = next, serving' = serving, ticket' = ticket,
         Inside' = Inside
  PROVE  Line' = Line
<1>1. LineIsTickets /\ LineIsTickets'
  BY LineFactsNext
<1>2. Line \in Seq(Threads) /\ Line' \in Seq(Threads) /\ Len(Line') = Len(Line)
  BY <1>1 DEF LineIsTickets
<1>3. ASSUME NEW i \in 1..Len(Line) PROVE Line'[i] = Line[i]
  <2>1. Line[i] \in Inside /\ ticket[Line[i]] = serving + i - 1
    BY <1>1 DEF LineIsTickets
  <2>2. Line'[i] \in Inside' /\ ticket'[Line'[i]] = serving' + i - 1
    BY <1>1, <1>2 DEF LineIsTickets
  <2> QED BY <2>1, <2>2, OneTicket
<1> QED BY <1>2, <1>3, SeqEqual

\* Entering the gate joins the line at its end.
LEMMA EnterJoins ==
  ASSUME GateInv, NEW t \in Threads, Enter(t)
  PROVE  Fifo!Join(t)
<1>1. /\ at[t] = "out" /\ ticket' = [ticket EXCEPT ![t] = next] /\ next' = next + 1
      /\ at' = [at EXCEPT ![t] = IF serving = next THEN "holding" ELSE "parked"]
      /\ serving' = serving
  BY DEF Enter
<1>2. next \in Nat /\ serving \in 0..next /\ ticket \in [Threads -> Nat] /\ at \in [Threads -> Where]
  BY DEF GateInv, GateTypeOK
<1>3. GateInv' /\ LineIsTickets /\ LineIsTickets'
  BY LineFactsNext DEF GateNext
<1>4. /\ Line \in Seq(Threads) /\ Len(Line) = next - serving
      /\ \A i \in 1..Len(Line) : Line[i] \in Inside /\ ticket[Line[i]] = serving + i - 1
  BY <1>3 DEF LineIsTickets
<1>5. /\ Line' \in Seq(Threads) /\ Len(Line') = next' - serving'
      /\ \A i \in 1..Len(Line') : Line'[i] \in Inside' /\ ticket'[Line'[i]] = serving' + i - 1
  BY <1>3 DEF LineIsTickets
<1>6. Inside' = Inside \cup {t} /\ t \notin Inside /\ Inside \subseteq Threads
  BY <1>1, <1>2 DEF Inside, Queued, Where
<1>7. ~Fifo!InLine(t)
  BY <1>4, <1>6 DEF Fifo!InLine
<1>8. Len(Line') = Len(Line) + 1 /\ Len(Line) \in Nat
  BY <1>1, <1>2, <1>4, <1>5, SMT
<1>9. ASSUME NEW i \in 1..Len(Line') PROVE Line'[i] = Append(Line, t)[i]
  <2>1. Line'[i] \in Inside' /\ ticket'[Line'[i]] = serving' + i - 1
    BY <1>5
  <2>2. CASE i = Len(Line) + 1
    <3>1. ticket'[Line'[i]] = next
      BY <2>1, <2>2, <1>1, <1>2, <1>4, SMT
    <3>2. Line'[i] = t
      <4>1. \A u \in Inside : ticket[u] # next /\ ticket'[u] = ticket[u]
        BY <1>1, <1>2, <1>6, SMT DEF GateInv, InWindow, Inside
      <4> QED BY <3>1, <4>1, <2>1, <1>6
    <3> QED BY <3>2, <2>2, <1>4, AppendProperties
  <2>3. CASE i # Len(Line) + 1
    <3>1. i \in 1..Len(Line)
      BY <2>3, <1>8
    <3>2. Line[i] \in Inside /\ ticket[Line[i]] = serving + i - 1
      BY <3>1, <1>4
    <3>3. Line'[i] # t
      BY <2>1, <3>1, <1>1, <1>2, <1>4, SMT
    <3>4. Line'[i] \in Inside /\ ticket[Line'[i]] = serving + i - 1
      BY <2>1, <3>3, <1>1, <1>2, <1>6
    <3>5. Line'[i] = Line[i]
      BY <3>2, <3>4, OneTicket
    <3> QED BY <3>1, <3>5, <1>4, AppendProperties
  <2> QED BY <2>2, <2>3
<1>10. Append(Line, t) \in Seq(Threads) /\ Len(Append(Line, t)) = Len(Line')
  BY <1>4, <1>8, AppendProperties
<1>11. Line' = Append(Line, t)
  BY <1>5, <1>9, <1>10, SeqEqual
<1> QED BY <1>7, <1>11 DEF Fifo!Join

\* Dropping the pass leaves from the head of the line.
LEMMA LeaveDeparts ==
  ASSUME GateInv, NEW t \in Threads, Leave(t)
  PROVE  Fifo!Depart(t)
<1>1. /\ at[t] = "holding" /\ serving' = serving + 1 /\ next' = next /\ ticket' = ticket
      /\ at' = [at EXCEPT ![t] = "leaving"] /\ ticket[t] = serving
  BY DEF Leave, GateInv, Served
<1>2. next \in Nat /\ serving \in 0..next /\ ticket \in [Threads -> Nat] /\ at \in [Threads -> Where]
  BY DEF GateInv, GateTypeOK
<1>3. GateInv' /\ LineIsTickets /\ LineIsTickets'
  BY LineFactsNext DEF GateNext, Proceed
<1>4. /\ Line \in Seq(Threads) /\ Len(Line) = next - serving
      /\ \A i \in 1..Len(Line) : Line[i] \in Inside /\ ticket[Line[i]] = serving + i - 1
  BY <1>3 DEF LineIsTickets
<1>5. /\ Line' \in Seq(Threads) /\ Len(Line') = next' - serving'
      /\ \A i \in 1..Len(Line') : Line'[i] \in Inside' /\ ticket'[Line'[i]] = serving' + i - 1
  BY <1>3 DEF LineIsTickets
<1>6. t \in Inside /\ Inside' \subseteq Inside
  BY <1>1, <1>2 DEF Inside, Queued, Where
<1>7. serving < next
  BY <1>1, <1>2, <1>6, SMT DEF GateInv, InWindow, Inside
<1>8. Len(Line) \in Nat /\ Len(Line) >= 1 /\ Len(Line') = Len(Line) - 1
  BY <1>1, <1>2, <1>4, <1>5, <1>7, SMT
<1>9. Line[1] = t
  <2>1. Line[1] \in Inside /\ ticket[Line[1]] = serving
    BY <1>4, <1>8, <1>2, SMT
  <2> QED BY <2>1, <1>1, <1>6, OneTicket
<1>10. Line # <<>>
  BY <1>8
<1>11. /\ Tail(Line) \in Seq(Threads) /\ Len(Tail(Line)) = Len(Line')
       /\ \A i \in 1..Len(Tail(Line)) : Tail(Line)[i] = Line[i + 1]
  BY <1>4, <1>8, <1>10, SMT
<1>12. ASSUME NEW i \in 1..Len(Line') PROVE Line'[i] = Tail(Line)[i]
  <2>1. Line'[i] \in Inside /\ ticket[Line'[i]] = serving + i
    BY <1>1, <1>2, <1>5, <1>6, SMT
  <2>2. i + 1 \in 1..Len(Line)
    BY <1>8
  <2>3. Line[i + 1] \in Inside /\ ticket[Line[i + 1]] = serving + i
    BY <2>2, <1>2, <1>4, SMT
  <2>4. Line'[i] = Line[i + 1]
    BY <2>1, <2>3, OneTicket
  <2> QED BY <2>4, <1>11
<1>13. Line' = Tail(Line)
  BY <1>5, <1>11, <1>12, SeqEqual
<1> QED BY <1>9, <1>10, <1>13 DEF Fifo!Depart, Fifo!HasBaton

\* The ticket gate implements the FIFO lock: every step is a step of FifoLock or leaves the line
\* alone.
THEOREM GateImplementsFifo == GateSpec => GateIsFifo
<1>1. GateInit => Fifo!FifoInit
  <2> SUFFICES ASSUME GateInit PROVE Line = <<>>
    BY DEF Fifo!FifoInit
  <2>1. LineIsTickets
    BY GateInitInv, LineFacts
  <2>2. Line \in Seq(Threads) /\ Len(Line) = 0
    BY <2>1 DEF LineIsTickets, GateInit
  <2> QED BY <2>2, EmptySeq
<1>2. GateInv /\ [GateNext]_gateVars => [Fifo!FifoNext]_Line
  <2> SUFFICES ASSUME GateInv, [GateNext]_gateVars PROVE [Fifo!FifoNext]_Line
    OBVIOUS
  <2>1. ASSUME NEW t \in Threads, Enter(t) PROVE Fifo!FifoNext
    BY <2>1, EnterJoins DEF Fifo!FifoNext
  <2>2. ASSUME NEW t \in Threads, Leave(t) PROVE Fifo!FifoNext
    BY <2>2, LeaveDeparts DEF Fifo!FifoNext
  <2>3. ASSUME NEW t \in Threads, Recheck(t) \/ Notify(t) PROVE Line' = Line
    <3>1. Inside' = Inside /\ next' = next /\ serving' = serving /\ ticket' = ticket
      BY <2>3 DEF Recheck, Notify, Inside, Queued, GateInv, GateTypeOK
    <3> QED BY <3>1, SameLine
  <2>4. CASE UNCHANGED gateVars
    <3>1. Inside' = Inside /\ next' = next /\ serving' = serving /\ ticket' = ticket
      BY <2>4 DEF gateVars, Inside, Queued
    <3> QED BY <3>1, SameLine
  <2> QED BY <2>1, <2>2, <2>3, <2>4 DEF GateNext, Proceed
<1> QED BY GateInitInv, GateStepInv, <1>1, <1>2, PTL DEF GateSpec, GateIsFifo, Fifo!FifoSpec
=============================================================================
