---------------------------- MODULE ParallelSeam ----------------------------
(***************************************************************************)
(* The concurrent generation engine: request threads that lease a KV slot  *)
(* (SlotPool) and hand it, inside a BatchWork, to one persistent scheduler *)
(* worker which owns all batched compute.  A work travels waiting ->       *)
(* active -> Complete/Failed event; tokens and their acknowledgements are  *)
(* exchanged over rendezvous channels, so a send and its receive are one   *)
(* step, and a send to a thread that has unwound fails.  `batch_interrupt` *)
(* is the flag that asks a running token group to yield to new work.       *)
(*                                                                         *)
(* A prompt is abstracted to the number of rows still to be prefilled:     *)
(* 0 is the Decode phase, up to ShortRows the ShortPrefill phase, more the *)
(* LongPrefill phase; PromptRows is a whole prompt.  Token values, QSA     *)
(* boundaries, Lookup and MTP cycles are left out: a token group may end   *)
(* after any step.                                                         *)
(***************************************************************************)
EXTENDS SlotPool, Sequences

CONSTANTS MaxBatch,    \* MAX_DECODE_BATCH
          LongLimit,   \* long_prefill_cohort_limit
          ShortRows,   \* SHORT_PREFILL_TOKENS
          PromptRows,  \* rows of a prompt with nothing cached
          MaxNew,      \* output budget of a request
          Constrained, \* text requests the scheduler does not serve (grammar constraint)
          Panicky      \* requests whose stream callback may panic

ASSUME SeamAssumption ==
  /\ MaxBatch \in Nat \ {0} /\ LongLimit \in Nat \ {0}
  /\ ShortRows \in Nat \ {0} /\ PromptRows \in Nat /\ ShortRows < PromptRows
  /\ MaxNew \in Nat \ {0}
  /\ Constrained \subseteq {r \in Requests : ~IsImage(r)}
  /\ Panicky \subseteq Requests

VARIABLES
  reg,        \* requests whose BatchRegistration is active
  arriving,   \* DecodeBatchQueue.arriving
  waiting,    \* DecodeBatchQueue.waiting
  interrupt,  \* batch_interrupt
  active,     \* the cohort the scheduler owns (`active` in run_unified_batch)
  work,       \* the BatchWork of each request in waiting or active
  sched       \* the scheduler worker: program counter and locals of run_token_group

schedVars == <<active, sched>>
queueVars == <<reg, arriving, waiting, interrupt>>
vars == <<poolVars, queueVars, schedVars, work>>

NoWork == [kv |-> None, slot |-> None, prepared |-> FALSE, rest |-> 0, gen |-> 0,
           eos |-> FALSE, accepted |-> TRUE, finished |-> FALSE]

NoGroup == [lanes |-> {}, batch |-> FALSE, fed |-> FALSE, todo |-> {}, pend |-> {}]

Init ==
  /\ PoolInit
  /\ reg = {} /\ arriving = 0 /\ waiting = <<>> /\ interrupt = FALSE
  /\ active = {}
  /\ work = [r \in Requests |-> NoWork]
  /\ sched = [pc |-> "idle", coalesced |-> FALSE, group |-> NoGroup]

-----------------------------------------------------------------------------
(* Helpers. *)

\* The thread is in wait_for_decode_batch: its receiver and its ack sender exist, and its
\* guard is detached.
Listening == {"wait", "token", "keep", "stop"}
Alive(r) == req[r].pc \in Listening

At(pc) == sched.pc = pc
Goto(pc) == sched' = [sched EXCEPT !.pc = pc]
\* Mutant: the queue changes without a notification.
NoWake == UNCHANGED sched
\* `decode_ready.notify_all`; timed waits end at any time anyway.
WakeScheduler == sched' = IF At("asleep") THEN [sched EXCEPT !.pc = "idle"] ELSE sched

Queued == {waiting[i] : i \in 1..Len(waiting)}
Smaller(m, n) == IF m < n THEN m ELSE n
\* Mutant: the capacity ignores the cohort.
FullCapacity == MaxBatch
Capacity == MaxBatch - Cardinality(active)

\* Move the first n waiting works into the cohort, as every drain(..take) does.
Admit(n) ==
  LET take == Smaller(n, Len(waiting))
  IN /\ active' = active \cup {waiting[i] : i \in 1..take}
     /\ waiting' = SubSeq(waiting, take + 1, Len(waiting))

Long(r)   == work[r].rest > ShortRows
Decode(r) == work[r].rest = 0

-----------------------------------------------------------------------------
(* Request threads. *)

\* BatchRegistration::new, before tokenization.
Register(r) ==
  /\ req[r].pc = "idle" /\ ~IsImage(r) /\ r \notin Constrained
  /\ req' = [req EXCEPT ![r].pc = "encode"]
  /\ reg' = reg \cup {r} /\ arriving' = arriving + 1
  /\ UNCHANGED <<slots, content, cold, waiting, interrupt, schedVars, work>>

\* encode / turn_checkpoints succeeded, failed (return), or left no output budget (the request
\* goes on without the scheduler).  The latter two drop the registration.
Encoded(r) ==
  /\ req[r].pc = "encode"
  /\ \/ /\ req' = [req EXCEPT ![r].pc = "checkout"]
        /\ UNCHANGED <<reg, arriving, sched>>
     \/ /\ \E pc \in {"done", "checkout"} : req' = [req EXCEPT ![r].pc = pc]
        /\ reg' = reg \ {r} /\ arriving' = arriving - 1
        /\ WakeScheduler
  /\ UNCHANGED <<slots, content, cold, waiting, interrupt, active, work>>

\* Legacy entry: constrained text and image requests never register.
Enter(r) ==
  /\ IsImage(r) \/ r \in Constrained
  /\ GoCheckout(r, "idle")
  /\ UNCHANGED <<queueVars, schedVars, work>>

\* Checkout, the generation outside the scheduler, and the guard's drop.  An image request
\* prefills on its own and hands over unless it is aborted or must decode alone.
Lease(r) ==
  /\ \/ CheckoutSleep(r) \/ CheckoutText(r) \/ CheckoutImage(r) \/ Seeded(r) \/ Release(r)
     \/ /\ r \notin reg
        /\ RunLegacy(r, IF IsImage(r) THEN {"handoff", "release"} ELSE {"release"})
  /\ UNCHANGED <<queueVars, schedVars, work>>

\* guard.detach(), queue.waiting.push_back, batch_interrupt and notify, under the queue lock.
Enqueue(r) ==
  /\ \/ req[r].pc = "held" /\ r \in reg
     \/ req[r].pc = "handoff"
  /\ work' = [work EXCEPT ![r] = [NoWork EXCEPT !.kv = req[r].kv, !.slot = req[r].slot,
                                               !.prepared = IsImage(r)]]
  /\ req' = [req EXCEPT ![r].pc = "wait", ![r].kv = None]
  /\ waiting' = Append(waiting, r)
  /\ interrupt' = TRUE
  /\ reg' = reg \ {r} /\ arriving' = IF r \in reg THEN arriving - 1 ELSE arriving
  /\ WakeScheduler
  /\ UNCHANGED <<slots, content, cold, active>>

\* wait_for_decode_batch: the stream callback returns, keeping the stream or asking to stop
\* (abort_requested), or it panics and the thread unwinds with its guard detached.
Streamed(r) ==
  /\ req[r].pc = "token"
  /\ \E pc \in {"keep", "stop"} \cup (IF r \in Panicky THEN {"done"} ELSE {}) :
       req' = [req EXCEPT ![r] = IF pc = "done" THEN [NoGuard EXCEPT !.pc = "done"]
                                                ELSE [req[r] EXCEPT !.pc = pc]]
  /\ UNCHANGED <<slots, content, cold, queueVars, schedVars, work>>

-----------------------------------------------------------------------------
(* Scheduler: admission. *)

\* wait_for_scheduler_work.
SchedWait ==
  /\ At("idle")
  /\ Goto(IF waiting = <<>> THEN "asleep" ELSE "gather")
  /\ UNCHANGED <<poolVars, queueVars, active, work>>

\* ... after the bounded wait for registered requests.
SchedGathered ==
  /\ At("gather")
  /\ Admit(MaxBatch)
  /\ interrupt' = (waiting' # <<>>)
  /\ Goto("admit")
  /\ UNCHANGED <<poolVars, reg, arriving, work>>

\* take_pending_batch_work, before its lock: the flag is consumed only with spare capacity.
SchedPoll ==
  /\ At("admit")
  /\ IF Capacity = 0 \/ ~interrupt
     THEN /\ Goto(IF active = {} THEN "refill" ELSE "prepare")
          /\ UNCHANGED interrupt
     ELSE interrupt' = FALSE /\ Goto("drain")
  /\ UNCHANGED <<poolVars, reg, arriving, waiting, active, work>>

\* Mutant: the flag stays consumed although the queue did not fit.
SchedDrainOnce ==
  /\ At("drain")
  /\ Admit(Capacity)
  /\ UNCHANGED interrupt
  /\ Goto(IF active' = {} THEN "refill" ELSE "prepare")
  /\ UNCHANGED <<poolVars, reg, arriving, work>>

\* ... and under its lock: raise the flag again for what did not fit.
SchedDrain ==
  /\ At("drain")
  /\ Admit(Capacity)
  /\ interrupt' = (interrupt \/ waiting' # <<>>)
  /\ Goto(IF active' = {} THEN "refill" ELSE "prepare")
  /\ UNCHANGED <<poolVars, reg, arriving, work>>

\* refill_batch, its bounded wait over.
SchedRefill ==
  /\ At("refill")
  /\ Admit(MaxBatch)
  /\ interrupt' = (waiting' # <<>>)
  /\ sched' = [sched EXCEPT !.pc = IF waiting = <<>> THEN "idle" ELSE "prepare",
                            !.coalesced = sched.coalesced /\ waiting # <<>>]
  /\ UNCHANGED <<poolVars, reg, arriving, work>>

\* Mutant: the phase is exclusive only when the whole cohort is in it.
AllLongMode(w) == \A r \in active : w[r].rest > ShortRows
\* scheduler_mode: one long prompt makes the phase exclusive.
LongMode(w) == \E r \in active : w[r].rest > ShortRows

\* prepare_unified_work for every new work (how much of its prompt is cached is data), then
\* the choice of the mode.
SchedPrepare ==
  /\ At("prepare")
  /\ LET fresh == {r \in active : ~work[r].prepared}
     IN \E rows \in [fresh -> 0..PromptRows] :
          /\ work' = [r \in Requests |-> IF r \in fresh
                        THEN [work[r] EXCEPT !.prepared = TRUE, !.rest = rows[r]] ELSE work[r]]
          /\ content' = [s \in Slots |->
                 IF \E r \in fresh : work[r].kv = s
                 THEN IF \E r \in fresh : work[r].kv = s /\ rows[r] = PromptRows
                      THEN "empty" ELSE "text"
                 ELSE content[s]]
  /\ LET long == LongMode(work')
     IN sched' = [sched EXCEPT !.pc = IF ~long THEN "group"
                                      ELSE IF sched.coalesced THEN "long" ELSE "coalesce",
                               !.coalesced = sched.coalesced /\ long]
  /\ UNCHANGED <<slots, req, cold, queueVars, active>>

\* take_prefill_cohort_peers, its bounded wait over; with no capacity it touches nothing.
SchedCoalesce ==
  /\ At("coalesce")
  /\ IF Capacity = 0 THEN UNCHANGED <<active, waiting, interrupt>>
                     ELSE Admit(Capacity) /\ interrupt' = (waiting' # <<>>)
  /\ sched' = [sched EXCEPT !.pc = IF active' = active THEN "long" ELSE "admit",
                            !.coalesced = TRUE]
  /\ UNCHANGED <<poolVars, reg, arriving, work>>

-----------------------------------------------------------------------------
(* Scheduler: compute. *)

\* run_long_prefill_phase: up to LongLimit long prompts run to their decode frontier, or to a
\* checkpoint at most ShortRows before it; nobody else computes.  A lane whose thread is gone
\* learns it from the failed progress send.
SchedLong ==
  /\ At("long")
  /\ \E lanes \in SUBSET {r \in active : Long(r)} :
       /\ Cardinality(lanes) = Smaller(LongLimit, Cardinality({r \in active : Long(r)}))
       /\ \E rows \in [lanes -> 0..ShortRows] :
            work' = [r \in Requests |-> IF r \in lanes
                       THEN [work[r] EXCEPT !.rest = rows[r],
                                            !.finished = work[r].finished \/ ~Alive(r)]
                       ELSE work[r]]
       /\ content' = [s \in Slots |-> IF \E r \in lanes : work[r].kv = s
                        THEN ContentOf(CHOOSE r \in lanes : work[r].kv = s) ELSE content[s]]
  /\ Goto("retire")
  /\ UNCHANGED <<slots, req, cold, queueVars, active>>

\* run_token_group: an image lane must be primary but prefill rows must precede sampling rows.
\* When the two orders conflict, the longest text suffix runs alone.
Behind(r) == /\ ~IsImage(r) /\ \E i \in active : IsImage(i) /\ work[i].rest < work[r].rest
Longest == {r \in active : Behind(r) /\ \A q \in active : ~IsImage(q) => work[q].rest <= work[r].rest}

SchedGroup ==
  /\ At("group")
  /\ \E lanes \in IF Longest = {} THEN {active} ELSE {{r} : r \in Longest} :
       /\ sched' = [sched EXCEPT !.pc = "step",
                      !.group = [NoGroup EXCEPT !.lanes = lanes,
                                                !.batch = \A r \in lanes : Decode(r)]]
       /\ work' = [r \in Requests |-> [work[r] EXCEPT !.accepted = TRUE, !.eos = FALSE]]
  /\ UNCHANGED <<poolVars, queueVars, active>>

\* The runner polls the interrupt before a step and yields without feeding anything.
SchedYield ==
  /\ At("step") /\ interrupt
  /\ Goto("account")
  /\ UNCHANGED <<poolVars, queueVars, active, work>>

\* One forward step: prefill lanes advance a row, the others sample a token, of which the
\* end-of-stream ones are not delivered.
SchedStep ==
  /\ At("step") /\ ~interrupt
  /\ LET sampling == {r \in sched.group.lanes : Decode(r)}
     IN \E eos \in SUBSET sampling :
          /\ work' = [r \in Requests |->
                        IF r \in sampling
                        THEN [work[r] EXCEPT !.gen = work[r].gen + 1, !.eos = r \in eos]
                        ELSE IF r \in sched.group.lanes
                        THEN [work[r] EXCEPT !.rest = work[r].rest - 1]
                        ELSE work[r]]
          /\ sched' = [sched EXCEPT !.pc = "deliver", !.group.fed = TRUE,
                                    !.group.todo = sampling \ eos]
  /\ content' = [s \in Slots |-> IF \E r \in sched.group.lanes : work[r].kv = s
                   THEN ContentOf(CHOOSE r \in sched.group.lanes : work[r].kv = s)
                   ELSE content[s]]
  /\ UNCHANGED <<slots, req, cold, queueVars, active>>

\* Deliver a token.  A batch of Decode rows is sent before any acknowledgement is awaited;
\* otherwise every token is acknowledged before the next one is sent.
SendToken(r) ==
  /\ At("deliver") /\ r \in sched.group.todo
  /\ sched.group.batch \/ sched.group.pend = {}
  /\ \/ /\ req[r].pc = "wait"
        /\ req' = [req EXCEPT ![r].pc = "token"]
        /\ sched' = [sched EXCEPT !.group.todo = @ \ {r}, !.group.pend = @ \cup {r}]
        /\ UNCHANGED work
     \/ /\ ~Alive(r)
        /\ sched' = [sched EXCEPT !.group.todo = @ \ {r}]
        /\ work' = [work EXCEPT ![r].accepted = FALSE]
        /\ UNCHANGED req
  /\ UNCHANGED <<slots, content, cold, queueVars, active>>

\* Mutant: a refused token ends the collection of the acknowledgements.
ReceiveAckEarlyReturn(r) ==
  /\ At("deliver") /\ r \in sched.group.pend
  /\ sched.group.batch => sched.group.todo = {}
  /\ \/ /\ req[r].pc \in {"keep", "stop"}
        /\ work' = [work EXCEPT ![r].accepted = (req[r].pc = "keep")]
        /\ req' = [req EXCEPT ![r].pc = "wait"]
     \/ /\ ~Alive(r)
        /\ work' = [work EXCEPT ![r].accepted = FALSE]
        /\ UNCHANGED req
  /\ sched' = [sched EXCEPT !.group.pend = IF work'[r].accepted THEN @ \ {r} ELSE {}]
  /\ UNCHANGED <<slots, content, cold, queueVars, active>>

\* Take its acknowledgement; a thread that unwound disconnects the channel.
ReceiveAck(r) ==
  /\ At("deliver") /\ r \in sched.group.pend
  /\ sched.group.batch => sched.group.todo = {}
  /\ \/ /\ req[r].pc \in {"keep", "stop"}
        /\ work' = [work EXCEPT ![r].accepted = (req[r].pc = "keep")]
        /\ req' = [req EXCEPT ![r].pc = "wait"]
     \/ /\ ~Alive(r)
        /\ work' = [work EXCEPT ![r].accepted = FALSE]
        /\ UNCHANGED req
  /\ sched' = [sched EXCEPT !.group.pend = @ \ {r}]
  /\ UNCHANGED <<slots, content, cold, queueVars, active>>

\* The frontier is resolved: stop on an end of stream, a refused token, the interrupt or an
\* exhausted budget, and possibly at any quantum; otherwise the next step.
SchedDelivered ==
  /\ At("deliver") /\ sched.group.todo = {} /\ sched.group.pend = {}
  /\ LET lanes == sched.group.lanes
         stop == \/ interrupt
                 \/ \E r \in lanes : \/ work[r].eos \/ ~work[r].accepted
                                     \/ work[r].rest = 0 /\ work[r].gen >= MaxNew
                 \/ lanes # active /\ \A r \in lanes : Decode(r)
     IN \E pc \in IF stop THEN {"account"} ELSE {"account", "step"} : Goto(pc)
  /\ UNCHANGED <<poolVars, queueVars, active, work>>

\* Mutant: a request is finished only past its budget.
AccountLate(r) ==
  LET rest == IF sched.group.fed THEN work[r].rest ELSE PromptRows
  IN [work[r] EXCEPT !.rest = rest,
        !.finished = \/ work[r].eos \/ ~work[r].accepted \/ work[r].gen > MaxNew
                     \/ rest \in 1..ShortRows /\ ~Alive(r)]

\* The tail of run_token_group.  The runner reports as resident the rows written up to the last
\* position this call FED: a call that fed nothing reports none (resident_after_gen, None).
Account(r) ==
  LET rest == IF sched.group.fed THEN work[r].rest ELSE PromptRows
  IN [work[r] EXCEPT !.rest = rest,
        !.finished = \/ work[r].eos \/ ~work[r].accepted \/ work[r].gen >= MaxNew
                     \/ rest \in 1..ShortRows /\ ~Alive(r)]

SchedAccount ==
  /\ At("account")
  /\ work' = [r \in Requests |-> IF r \in sched.group.lanes THEN Account(r) ELSE work[r]]
  /\ content' = [s \in Slots |->
                   IF ~sched.group.fed /\ \E r \in sched.group.lanes : work[r].kv = s
                   THEN "empty" ELSE content[s]]
  /\ sched' = [sched EXCEPT !.pc = "retire", !.group = NoGroup]
  /\ UNCHANGED <<slots, req, cold, queueVars, active>>

-----------------------------------------------------------------------------
(* Scheduler: giving a KV back. *)

\* Mutant: a state nobody receives is dropped.
GiveBackOrDrop(r) ==
  LET w == work[r]
  IN /\ \/ /\ req[r].pc = "wait"
           /\ req' = [req EXCEPT ![r].pc = "release", ![r].kv = w.kv]
        \/ ~Alive(r) /\ UNCHANGED req
     /\ work' = [work EXCEPT ![r] = NoWork]
     /\ active' = active \ {r}
     /\ UNCHANGED <<slots, cold>>

\* deliver_batch_state: the Complete or Failed event carries the KV to the thread's guard, or,
\* when the thread is gone, return_detached_slot puts it straight into the pool.
GiveBack(r) ==
  LET w == work[r]
  IN /\ \/ /\ req[r].pc = "wait"
           /\ req' = [req EXCEPT ![r].pc = "release", ![r].kv = w.kv]
           /\ UNCHANGED <<slots, cold>>
        \/ /\ ~Alive(r)
           /\ IF slots[w.slot].busy /\ slots[w.slot].kv = None
              THEN /\ slots' = [slots EXCEPT ![w.slot] = Returned(w.kv, NoKey)]
                   /\ NotifyFreed(req)
              ELSE UNCHANGED <<slots, req, cold>>
     /\ work' = [work EXCEPT ![r] = NoWork]
     /\ active' = active \ {r}

\* retire_finished_work, one Complete event at a time.
Retire(r) ==
  /\ At("retire") /\ r \in active /\ work[r].finished
  /\ GiveBack(r)
  /\ UNCHANGED <<content, queueVars, sched>>

Retired ==
  /\ At("retire") /\ \A r \in active : ~work[r].finished
  /\ sched' = [sched EXCEPT !.pc = "admit", !.coalesced = FALSE]
  /\ UNCHANGED <<poolVars, queueVars, active, work>>

\* An error of a preparation, a prefill phase or a token step, after the KVs were restored to
\* their works: fail_unified_scheduler, which resets them all on numerical corruption.
ComputeError ==
  /\ sched.pc \in {"prepare", "long", "step"}
  /\ content' \in {content, [s \in Slots |-> IF \E r \in active : work[r].kv = s
                                             THEN "empty" ELSE content[s]]}
  /\ sched' = [sched EXCEPT !.pc = "fail", !.group = NoGroup, !.coalesced = FALSE]
  /\ UNCHANGED <<slots, req, cold, queueVars, active, work>>

\* fail_batch_work for the cohort, then for the queue closed behind it.
Fail(r) ==
  /\ sched.pc \in {"fail", "closed"} /\ r \in active
  /\ GiveBack(r)
  /\ UNCHANGED <<content, queueVars, sched>>

\* Mutant: the queue is cleared without failing its works.
CloseQueueSilently ==
  /\ At("fail") /\ active = {}
  /\ waiting' = <<>> /\ interrupt' = FALSE
  /\ Goto("closed")
  /\ UNCHANGED <<poolVars, reg, arriving, active, work>>

\* close_decode_batch: drain the queue and clear the flag in one critical section.
CloseQueue ==
  /\ At("fail") /\ active = {}
  /\ Admit(Len(waiting))
  /\ interrupt' = FALSE
  /\ Goto("closed")
  /\ UNCHANGED <<poolVars, reg, arriving, work>>

Closed ==
  /\ At("closed") /\ active = {}
  /\ Goto("idle")
  /\ UNCHANGED <<poolVars, queueVars, active, work>>

-----------------------------------------------------------------------------
Thread(r) == Register(r) \/ Encoded(r) \/ Enter(r) \/ Lease(r) \/ Enqueue(r) \/ Streamed(r)

SchedNext ==
  \/ SchedWait \/ SchedGathered \/ SchedPoll \/ SchedDrain \/ SchedRefill
  \/ SchedPrepare \/ SchedCoalesce \/ SchedLong \/ SchedGroup \/ SchedYield \/ SchedStep
  \/ \E r \in Requests : SendToken(r) \/ ReceiveAck(r)
  \/ SchedDelivered \/ SchedAccount
  \/ \E r \in Requests : Retire(r) \/ Fail(r)
  \/ Retired \/ ComputeError \/ CloseQueue \/ Closed

Cold == ColdNext /\ UNCHANGED <<queueVars, schedVars, work>>

\* Every call has returned and the engine rests.
Quiet == /\ \A r \in Requests : req[r].pc = "done"
         /\ At("asleep") /\ UNCHANGED vars

Next == (\E r \in Requests : Thread(r)) \/ SchedNext \/ Cold \/ Quiet

Spec == Init /\ [][Next]_vars

\* Every thread is scheduled, and a stream callback returns.  Nothing is assumed of the clients:
\* Register and Enter may never happen, and a callback may always ask to stop or never.  A
\* checkout is not overtaken for ever (see PoolFairness).
Fairness ==
  /\ \A r \in Requests :
       /\ WF_vars(Encoded(r) \/ Enqueue(r) \/ Streamed(r))
       /\ WF_vars(Lease(r))
       /\ SF_vars((CheckoutText(r) \/ CheckoutImage(r)) /\ Lease(r))
  /\ WF_vars(SchedNext)
  /\ WF_vars(ColdReturn /\ Cold)

LiveSpec == Spec /\ Fairness

-----------------------------------------------------------------------------
(* Properties. *)

Pcs == PoolPcs \cup Listening \cup {"encode", "handoff"}
SchedPcs == {"idle", "asleep", "gather", "admit", "drain", "refill", "prepare", "coalesce",
             "long", "group", "step", "deliver", "account", "retire", "fail", "closed"}

WorkType == [kv : OptKv, slot : OptKv, prepared : BOOLEAN, rest : 0..PromptRows,
             gen : 0..MaxNew, eos : BOOLEAN, accepted : BOOLEAN, finished : BOOLEAN]
GroupType == [lanes : SUBSET Requests, batch : BOOLEAN, fed : BOOLEAN,
              todo : SUBSET Requests, pend : SUBSET Requests]

\* Every variable has its declared type.
TypeOK ==
  /\ slots \in [Slots -> SlotType]
  /\ content \in [Slots -> Contents]
  /\ req \in [Requests -> GuardType(Pcs)]
  /\ cold \in ColdType
  /\ reg \in SUBSET Requests
  /\ arriving \in Nat
  /\ waiting \in Seq(Requests)
  /\ interrupt \in BOOLEAN
  /\ active \in SUBSET Requests
  /\ work \in [Requests -> WorkType]
  /\ sched \in [pc : SchedPcs, coalesced : BOOLEAN, group : GroupType]

\* The holders of the KV of slot s outside the pool, the scheduler's works among them.
AllHoldersOf(s) ==
  HoldersOf(s) \cup {<<"work", r>> : r \in {q \in Requests : work[q].kv = s}}

\* SoleOwner across the hand-over to the scheduler and back: a KV is in its slot, which is then
\* free, or with exactly one of guard, copy reservation, cold worker, queued or active work.
\* Neither a cancelled, failed or panicked call nor a failed batch doubles, loses or burns one.
SeamSoleOwner ==
  \A s \in Slots :
    \/ ~slots[s].busy /\ slots[s].kv = s /\ AllHoldersOf(s) = {}
    \/ slots[s].busy /\ slots[s].kv = None /\ (\E h \in AllHoldersOf(s) : AllHoldersOf(s) = {h})

\* A thread that waits for events has exactly one work in the queue or the cohort, which owns
\* the KV of its slot: nobody waits for an event that can no longer come.
WaiterHasWork ==
  /\ \A r \in Requests : Alive(r) => r \in Queued \cup active
  /\ \A r \in Queued \cup active : work[r].kv # None
  /\ Queued \cap active = {}
  /\ Len(waiting) = Cardinality(Queued)

\* Queued work is never forgotten: the scheduler is about to look at the queue, or the flag that
\* makes it look is up.
NoStrandedWork ==
  waiting # <<>> => \/ interrupt
                    \/ sched.pc \in {"idle", "gather", "drain", "refill", "fail"}

\* The cohort never exceeds the lanes of the token buffers (deliver_token_batch asserts it).
CohortBounded == sched.pc # "closed" => Cardinality(active) <= MaxBatch

\* Every token a callback is working on is one whose acknowledgement the scheduler still takes:
\* no refused or early acknowledgement leaves a thread blocked in its rendezvous send.
AckExpected ==
  \A r \in Requests : req[r].pc \in {"token", "keep", "stop"} =>
                        At("deliver") /\ r \in sched.group.pend

\* Long prefill is exclusive: no token is sampled while a member of the cohort is in the
\* LongPrefill phase.
LongPrefillExclusive ==
  [][\A r \in Requests : work'[r].gen > work[r].gen => \A q \in active : ~Long(q)]_vars
=============================================================================
