----------------------- MODULE EngineShutdown_proofs -----------------------
(***************************************************************************)
(* Proofs about EngineShutdown, for every set of slots.                    *)
(*                                                                         *)
(* Both properties are statements about a thread that has ended, so they   *)
(* need what was true on the way: the dropping thread passes a join only   *)
(* behind the worker's exit (JoinOrder), and a conversation not yet        *)
(* spilled is always visible to the cold worker's next scan, as an idle    *)
(* slot or as the slot the worker itself holds (SessionVisible).           *)
(***************************************************************************)
EXTENDS EngineShutdown, TLAPS

\* A join returns only after its worker has ended, and a worker ends only on its own stop flag.
JoinOrder ==
  /\ drop \in {"stopCold", "notifyCold", "joinCold", "dropped"} => sched = "exited"
  /\ drop = "dropped" => cold.pc = "exited"
  /\ sched = "exited" => "sched" \in stop
  /\ cold.pc = "exited" => "cold" \in stop

\* A conversation is idle, and so a candidate, or in the hands of the cold worker.
SessionVisible ==
  /\ \A s \in Slots : state[s] = "session" => s \in idle \/ cold.slot = s
  /\ cold.pc = "exited" => \A s \in Slots : state[s] # "session"

IInv == TypeOK /\ JoinOrder /\ SessionVisible

\* The initial states satisfy the inductive invariant.
LEMMA ShutdownInit == Init => IInv
BY ShutdownAssumption DEF Init, IInv, TypeOK, JoinOrder, SessionVisible

\* Every step of the dropping thread and of the workers preserves it.
LEMMA ShutdownStep == IInv /\ [Next]_vars => IInv'
<1> SUFFICES ASSUME IInv, [Next]_vars PROVE IInv'
  OBVIOUS
<1> USE ShutdownAssumption DEF IInv, TypeOK, JoinOrder, SessionVisible
<1>1. CASE Dropper
  <2>1. CASE Stop("sched", "live", "notifySched")
    BY <2>1 DEF Stop
  <2>2. CASE NotifySched
    BY <2>2 DEF NotifySched
  <2>3. CASE JoinSched
    BY <2>3 DEF JoinSched
  <2>4. CASE Stop("cold", "stopCold", "notifyCold")
    BY <2>4 DEF Stop
  <2>5. CASE NotifyCold
    BY <2>5 DEF NotifyCold
  <2>6. CASE JoinCold
    BY <2>6 DEF JoinCold
  <2> QED
    BY <1>1, <2>1, <2>2, <2>3, <2>4, <2>5, <2>6 DEF Dropper
<1>2. CASE SchedWorker
  BY <1>2 DEF SchedWorker, SchedDone, SchedCheck, SchedWait
<1>3. CASE ColdCheck
  <2>1. ASSUME NEW s \in Candidates,
               cold' = [pc |-> "spill", slot |-> s, final |-> "cold" \in stop],
               idle' = idle \ {s}, UNCHANGED <<drop, stop, sched, state>>
        PROVE IInv'
    BY <1>3, <2>1 DEF ColdCheck, Candidates
  <2>2. CASE /\ "cold" \in stop => Candidates = {}
             /\ cold' = [cold EXCEPT !.pc = IF "cold" \in stop THEN "exited"
                                  ELSE IF Candidates = {} THEN "commit" ELSE "timed"]
             /\ UNCHANGED <<idle, drop, stop, sched, state>>
    <3>1. "cold" \in stop => \A s \in Slots : state[s] # "session"
      BY <1>3, <2>2 DEF ColdCheck, Candidates
    <3> QED
      BY <1>3, <2>2, <3>1 DEF ColdCheck
  <2> QED
    BY <1>3, <2>1, <2>2 DEF ColdCheck
<1>4. CASE ColdWait
  BY <1>4 DEF ColdWait
<1>5. CASE ColdTimeout
  BY <1>5 DEF ColdTimeout
<1>6. CASE ColdSpill
  BY <1>6 DEF ColdSpill
<1>7. CASE UNCHANGED vars
  BY <1>7 DEF vars
<1> QED
  BY <1>1, <1>2, <1>3, <1>4, <1>5, <1>6, <1>7 DEF Next, ColdWorker

\* The inductive invariant holds in every reachable state.
LEMMA ShutdownInductive == Spec => []IInv
<1>1. Init => IInv
  BY ShutdownInit
<1>2. IInv /\ [Next]_vars => IInv'
  BY ShutdownStep
<1> QED
  BY <1>1, <1>2, PTL DEF Spec

\* The types hold, the reserved slot is held exactly while it spills, and it is not idle.
THEOREM ShutdownTypeCorrect == Spec => []TypeOK
<1>1. IInv => TypeOK
  BY DEF IInv
<1> QED
  BY <1>1, ShutdownInductive, PTL

\* The model and the backend are dropped only after both workers ended, each on its own stop:
\* the field order of ParallelSeam and the two Drop impls, for any number of slots.
THEOREM WorkersEndBeforeFieldsDrop == Spec => []FieldsOutliveWorkers
<1>1. IInv => FieldsOutliveWorkers
  BY DEF IInv, JoinOrder, FieldsOutliveWorkers
<1> QED
  BY <1>1, ShutdownInductive, PTL

\* A cold worker that ended has tried to spill every conversation.
THEOREM ColdWorkerFlushes == Spec => []FlushedOrTried
<1>1. IInv => FlushedOrTried
  BY DEF IInv, SessionVisible, FlushedOrTried
<1> QED
  BY <1>1, ShutdownInductive, PTL
=============================================================================
