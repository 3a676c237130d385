--------------------------- MODULE EngineShutdown ---------------------------
(***************************************************************************)
(* Dropping a ParallelSeam once every call has returned: SchedulerWorker   *)
(* and ColdWorker each store `stop`, notify their condition variable and   *)
(* join their thread, in field order, before the model and the backend are *)
(* dropped.  The cold worker flushes every resident conversation first.    *)
(*                                                                         *)
(* A worker evaluates its wait condition under a mutex and then calls      *)
(* wait, which releases the mutex; the drops store and notify WITHOUT that *)
(* mutex, so both may happen between the two.  Evaluating ("check") and    *)
(* waiting ("commit", then "wait") are therefore two steps here.  Spurious *)
(* wakeups are allowed by the platform but promised by nobody: none.       *)
(***************************************************************************)
CONSTANTS Slots, None

ASSUME ShutdownAssumption == None \notin Slots

VARIABLES
  drop,    \* the dropping thread's program counter
  stop,    \* the workers whose stop flag is set
  sched,   \* the scheduler worker's program counter
  cold,    \* the cold worker: program counter, reserved slot, its `shutting_down`
  state,   \* what each slot's KV holds: nothing, a conversation, one whose spill has failed
  idle     \* the slots with idle_since set

vars == <<drop, stop, sched, cold, state, idle>>

Init ==
  /\ drop = "live" /\ stop = {}
  /\ sched \in {"run", "check"}
  /\ cold = [pc |-> "check", slot |-> None, final |-> FALSE]
  /\ state \in [Slots -> {"empty", "session"}]
  /\ idle = {s \in Slots : state[s] = "session"}

-----------------------------------------------------------------------------
(* wait_for_scheduler_work and scheduler_loop; the queue stays empty. *)

\* The last cohort (a call whose thread unwound) is done.
SchedDone == sched = "run" /\ sched' = "check" /\ UNCHANGED <<drop, stop, cold, state, idle>>

SchedCheck ==
  /\ sched = "check"
  /\ sched' = IF "sched" \in stop THEN "exited" ELSE "commit"
  /\ UNCHANGED <<drop, stop, cold, state, idle>>

SchedWait == sched = "commit" /\ sched' = "wait" /\ UNCHANGED <<drop, stop, cold, state, idle>>

-----------------------------------------------------------------------------
(* cold_session_worker. *)

Candidates == {s \in idle : state[s] # "empty"}

\* Mutant: the stop flag ends the worker at once.
ColdCheckNoFlush ==
  LET final == "cold" \in stop
  IN /\ cold.pc = "check"
     /\ \/ \E s \in Candidates :
             /\ cold' = [pc |-> "spill", slot |-> s, final |-> final]
             /\ idle' = idle \ {s}
        \/ /\ cold' = [cold EXCEPT !.pc = IF final THEN "exited"
                                          ELSE IF Candidates = {} THEN "commit" ELSE "timed"]
           /\ UNCHANGED idle
     /\ UNCHANGED <<drop, stop, sched, state>>

\* One scan of the slots under the pool lock, with `stop` read at its start: reserve an aged
\* slot (any at shutdown), leave, or decide to wait, untimed if nothing can age.
ColdCheck ==
  LET final == "cold" \in stop
  IN /\ cold.pc = "check"
     /\ \/ \E s \in Candidates :
             /\ cold' = [pc |-> "spill", slot |-> s, final |-> final]
             /\ idle' = idle \ {s}
        \/ /\ final => Candidates = {}
           /\ cold' = [cold EXCEPT !.pc = IF final THEN "exited"
                                          ELSE IF Candidates = {} THEN "commit" ELSE "timed"]
           /\ UNCHANGED idle
     /\ UNCHANGED <<drop, stop, sched, state>>

ColdWait == /\ cold.pc = "commit" /\ cold' = [cold EXCEPT !.pc = "wait"]
            /\ UNCHANGED <<drop, stop, sched, state, idle>>

ColdTimeout == /\ cold.pc = "timed" /\ cold' = [cold EXCEPT !.pc = "check"]
               /\ UNCHANGED <<drop, stop, sched, state, idle>>

\* Mutant: a slot whose spill failed ages again, also at shutdown.
ColdSpillRetry ==
  LET s == cold.slot
  IN /\ cold.pc = "spill"
     /\ \E failed \in BOOLEAN :
          state' = [state EXCEPT ![s] = IF failed THEN "failed" ELSE "empty"]
     /\ idle' = idle \cup {s}
     /\ cold' = [pc |-> "check", slot |-> None, final |-> FALSE]
     /\ UNCHANGED <<drop, stop, sched>>

\* Mutant: the worker leaves the spilled slot reserved.
ColdSpillKeep ==
  LET s == cold.slot
  IN /\ cold.pc = "spill"
     /\ \E failed \in BOOLEAN :
          state' = [state EXCEPT ![s] = IF failed THEN "failed" ELSE "empty"]
     /\ cold' = [cold EXCEPT !.pc = "check"]
     /\ UNCHANGED <<drop, stop, sched, idle>>

\* spill_with_gate, then the slot's return: a failed spill is not offered again at shutdown.
ColdSpill ==
  LET s == cold.slot
      final == cold.final \/ "cold" \in stop
  IN /\ cold.pc = "spill"
     /\ \E failed \in BOOLEAN :
          /\ state' = [state EXCEPT ![s] = IF failed THEN "failed" ELSE "empty"]
          /\ idle' = IF ~final \/ ~failed THEN idle \cup {s} ELSE idle
     /\ cold' = [pc |-> "check", slot |-> None, final |-> FALSE]
     /\ UNCHANGED <<drop, stop, sched>>

-----------------------------------------------------------------------------
(* The dropping thread. *)

Stop(w, from, to) ==
  /\ drop = from /\ drop' = to
  /\ stop' = stop \cup {w}
  /\ UNCHANGED <<sched, cold, state, idle>>

NotifySched ==
  /\ drop = "notifySched" /\ drop' = "joinSched"
  /\ sched' = IF sched = "wait" THEN "check" ELSE sched
  /\ UNCHANGED <<stop, cold, state, idle>>

JoinSched == /\ drop = "joinSched" /\ sched = "exited" /\ drop' = "stopCold"
             /\ UNCHANGED <<stop, sched, cold, state, idle>>

NotifyCold ==
  /\ drop = "notifyCold" /\ drop' = "joinCold"
  /\ cold' = IF cold.pc \in {"wait", "timed"} THEN [cold EXCEPT !.pc = "check"] ELSE cold
  /\ UNCHANGED <<stop, sched, state, idle>>

\* Mutant: the cold worker is detached instead of joined.
DetachCold == /\ drop = "joinCold" /\ drop' = "dropped"
              /\ UNCHANGED <<stop, sched, cold, state, idle>>

JoinCold == /\ drop = "joinCold" /\ cold.pc = "exited" /\ drop' = "dropped"
            /\ UNCHANGED <<stop, sched, cold, state, idle>>

Dropper == \/ Stop("sched", "live", "notifySched") \/ NotifySched \/ JoinSched
           \/ Stop("cold", "stopCold", "notifyCold") \/ NotifyCold \/ JoinCold

SchedWorker == SchedDone \/ SchedCheck \/ SchedWait
ColdWorker  == ColdCheck \/ ColdWait \/ ColdTimeout \/ ColdSpill

Next == Dropper \/ SchedWorker \/ ColdWorker

\* Every thread is scheduled.
Spec == Init /\ [][Next]_vars /\ WF_vars(Dropper) /\ WF_vars(SchedWorker) /\ WF_vars(ColdWorker)

-----------------------------------------------------------------------------
\* Every variable has its declared type; the cold worker holds a slot exactly while it spills,
\* and a slot it holds is not also counted as idle.
TypeOK ==
  /\ drop \in {"live", "notifySched", "joinSched", "stopCold", "notifyCold", "joinCold", "dropped"}
  /\ stop \subseteq {"sched", "cold"}
  /\ sched \in {"run", "check", "commit", "wait", "exited"}
  /\ cold \in [pc : {"check", "commit", "timed", "wait", "spill", "exited"},
               slot : Slots \cup {None}, final : BOOLEAN]
  /\ state \in [Slots -> {"empty", "session", "failed"}]
  /\ idle \subseteq Slots
  /\ cold.slot # None <=> cold.pc = "spill"
  /\ cold.slot \notin idle

\* The model and the backend are dropped only after both workers have ended, and a worker ends
\* only when its own drop told it to.
FieldsOutliveWorkers ==
  /\ drop = "dropped" => sched = "exited" /\ cold.pc = "exited"
  /\ sched = "exited" => "sched" \in stop
  /\ cold.pc = "exited" => "cold" \in stop

\* When the cold worker ends, every conversation was spilled, or its spill was tried and failed.
FlushedOrTried == cold.pc = "exited" => \A s \in Slots : state[s] # "session"

\* A cold worker that is awake after its stop flag is set ends, however many spills fail.
FlushEnds == ("cold" \in stop /\ cold.pc \notin {"commit", "wait"}) ~> cold.pc = "exited"

\* Dropping the engine ends: both joins return.
DropEnds == <>(drop = "dropped")
=============================================================================
