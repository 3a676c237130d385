------------------------------ MODULE SpinPool ------------------------------
(***************************************************************************)
(* The persistent spin pool of the CPU interpreter                         *)
(* (infr-cpu/src/pool.rs): a generation counter that workers spin on, a    *)
(* task cursor every thread draws from, a check-in count the caller waits  *)
(* for, and the park handshake of a worker that spun long enough.          *)
(*                                                                         *)
(* The adaptive spin budget is kept only as "zero or not": with a zero     *)
(* budget a worker parks at once, with any other it may park whenever it   *)
(* has spun enough, so at any time.                                        *)
(***************************************************************************)
EXTENDS Naturals, FiniteSets

CONSTANTS Workers,    \* the number of worker threads
          Callers,    \* threads that call run; each also takes part in its job
          Bursters,   \* those of them that also call park_workers
          MaxTasks,   \* bound: the most tasks of one run (of a burst: Workers + 1)
          Risky,      \* bound: the task indices that may panic
          MaxRuns,    \* bound: the most generations
          None

Crew == 1..Workers
Threads == Crew \cup Callers
Width == IF MaxTasks > Workers THEN MaxTasks ELSE Workers + 1

ASSUME PoolAssumption ==
    /\ Workers \in Nat \ {0}
    /\ MaxTasks \in Nat /\ MaxTasks >= 2
    /\ MaxRuns \in Nat
    /\ Bursters \subseteq Callers
    /\ Callers \cap Nat = {} /\ None \notin Callers \cup Nat

VARIABLES at,         \* what each thread is doing
          hold,       \* the task index a thread is executing
          seen,       \* worker: the last generation it joined
          parked,     \* worker: it parked since it joined that generation
          budget,     \* worker: its spin budget is not zero
          sleeping,   \* Shared::sleeping
          token,      \* the thread's park token (set by unpark)
          job,        \* Shared::job: the caller whose closure it is, or None
          nTasks, cursor, done, seq, panicked,     \* Shared
          inRun,      \* SpinPool::in_run
          forcePark, shutdown,           \* Shared
          wake,       \* the next worker the dispatcher looks at
          burst,      \* callers inside park_workers
          hurt,       \* callers with a task that panicked in their present job
          verdict,    \* callers whose run panics on return
          dropping    \* how far Drop for SpinPool is

crewVars == <<seen, parked, budget>>
gate     == <<sleeping, token>>
jobVars  == <<job, nTasks, cursor, done, seq, panicked, hurt>>
flags    == <<inRun, forcePark, shutdown>>
callVars == <<wake, burst, verdict, dropping>>
vars     == <<at, hold, crewVars, gate, jobVars, flags, callVars>>

Goto(p, place) == at' = [at EXCEPT ![p] = place]

\* The stages of run during which the caller owns the pool's one job slot.
Owning == {"setup", "bump", "wake", "drain", "task", "wait", "swap", "release"}

Init ==
    /\ at = [p \in Threads |-> IF p \in Crew THEN "new" ELSE "idle"]
    /\ hold = [p \in Threads |-> None]
    /\ seen = [w \in Crew |-> 0]
    /\ parked = [w \in Crew |-> FALSE]
    /\ budget = [w \in Crew |-> TRUE]
    /\ sleeping = [w \in Crew |-> FALSE]
    /\ token = [w \in Crew |-> FALSE]
    /\ job = None /\ nTasks = 0 /\ cursor = 0 /\ done = 0 /\ seq = 0
    /\ panicked = FALSE /\ hurt = {}
    /\ inRun = FALSE /\ forcePark = FALSE /\ shutdown = FALSE
    /\ wake = 1 /\ burst = {} /\ verdict = {} /\ dropping = "no"

-----------------------------------------------------------------------------
(* The caller: run, park_workers.                                          *)

\* park_workers raises force_park and then calls run like anybody else.
StartBurst(c) ==
    /\ at[c] = "idle" /\ c \in Bursters \ burst /\ seq < MaxRuns /\ dropping = "no"
    /\ burst' = burst \cup {c}
    /\ forcePark' = TRUE
    /\ UNCHANGED <<at, hold, crewVars, gate, jobVars, inRun, shutdown,
                   wake, verdict, dropping>>

\* The compare_exchange on in_run wins the pool's one job slot.
StartRun(c) ==
    /\ at[c] = "idle" /\ seq < MaxRuns /\ dropping = "no"
    /\ ~inRun
    /\ inRun' = TRUE
    /\ Goto(c, "setup")
    /\ UNCHANGED <<hold, crewVars, gate, jobVars, forcePark, shutdown, callVars>>

\* A caller that finds the slot taken runs its tasks through rayon, which
\* leaves the pool as it is; a burst then ends without the workers.
Fallback(c) ==
    /\ at[c] = "idle" /\ c \in burst
    /\ inRun
    /\ Goto(c, "unforce")
    /\ UNCHANGED <<hold, crewVars, gate, jobVars, flags, callVars>>

\* Mutant: the check-in count of the last run is not cleared.
SetupKeepsDone(c) ==
    /\ at[c] = "setup"
    /\ nTasks' \in IF c \in burst THEN {Workers + 1} ELSE 2..MaxTasks
    /\ job' = c /\ cursor' = 0
    /\ Goto(c, "bump")
    /\ UNCHANGED <<hold, crewVars, gate, done, seq, panicked, hurt, inRun, forcePark, shutdown, callVars>>

\* The job, its size and the counters are written; no worker may be looking.
Setup(c) ==
    /\ at[c] = "setup"
    /\ nTasks' \in IF c \in burst THEN {Workers + 1} ELSE 2..MaxTasks
    /\ job' = c /\ cursor' = 0 /\ done' = 0
    /\ Goto(c, "bump")
    /\ UNCHANGED <<hold, crewVars, gate, seq, panicked, hurt, inRun, forcePark, shutdown, callVars>>

\* The generation is published.
Bump(c) ==
    /\ at[c] = "bump"
    /\ seq' = seq + 1
    /\ Goto(c, "wake")
    /\ UNCHANGED <<hold, crewVars, gate, job, nTasks, cursor, done, panicked, hurt, flags, callVars>>

\* Each flag is read in turn; a worker that raised it is unparked.
Unpark(c) ==
    /\ at[c] = "wake"
    /\ token' = [token EXCEPT ![wake] = @ \/ sleeping[wake]]
    /\ wake' = IF wake = Workers THEN 1 ELSE wake + 1
    /\ Goto(c, IF wake = Workers THEN "drain" ELSE "wake")
    /\ UNCHANGED <<hold, crewVars, sleeping, jobVars, flags, burst, verdict, dropping>>

\* Mutant: one worker too few is waited for.
AllInEarly(c) ==
    /\ at[c] = "wait" /\ done + 1 >= Workers
    /\ job' = None
    /\ Goto(c, "swap")
    /\ UNCHANGED <<hold, crewVars, gate, nTasks, cursor, done, seq, panicked, hurt, flags, callVars>>

\* Mutant: the slot is released before the panic flag is consumed.
AllInReleases(c) ==
    /\ at[c] = "wait" /\ done >= Workers
    /\ job' = None /\ inRun' = FALSE
    /\ Goto(c, "swap")
    /\ UNCHANGED <<hold, crewVars, gate, nTasks, cursor, done, seq, panicked, hurt, forcePark, shutdown, callVars>>

\* The check-in of every worker is what lets the closure die.
AllIn(c) ==
    /\ at[c] = "wait" /\ done >= Workers
    /\ job' = None
    /\ Goto(c, "swap")
    /\ UNCHANGED <<hold, crewVars, gate, nTasks, cursor, done, seq, panicked, hurt, flags, callVars>>

\* The panic flag is consumed before the slot is released.
Swap(c) ==
    /\ at[c] = "swap"
    /\ verdict' = IF panicked THEN verdict \cup {c} ELSE verdict
    /\ panicked' = FALSE
    /\ Goto(c, "release")
    /\ UNCHANGED <<hold, crewVars, gate, job, nTasks, cursor, done, seq, hurt, flags, wake, burst,
                   dropping>>

\* Mutant: a run that panics leaves in_run latched.
ReleaseUnlessPanic(c) ==
    /\ at[c] = "release"
    /\ inRun' = (c \in verdict)
    /\ Goto(c, IF c \in burst \ verdict THEN "unforce" ELSE "idle")
    /\ burst' = burst \ verdict
    /\ hurt' = hurt \ {c} /\ verdict' = verdict \ {c}
    /\ UNCHANGED <<hold, crewVars, gate, job, nTasks, cursor, done, seq, panicked, forcePark,
                   shutdown, wake, dropping>>

\* A panic propagates after the release (hurt and verdict are about the run
\* that ends here); an unwinding burst never gets to lower force_park.
Release(c) ==
    /\ at[c] = "release"
    /\ inRun' = FALSE
    /\ Goto(c, IF c \in burst \ verdict THEN "unforce" ELSE "idle")
    /\ burst' = burst \ verdict
    /\ hurt' = hurt \ {c} /\ verdict' = verdict \ {c}
    /\ UNCHANGED <<hold, crewVars, gate, job, nTasks, cursor, done, seq, panicked, forcePark,
                   shutdown, wake, dropping>>

\* The end of park_workers.
EndBurst(c) ==
    /\ at[c] = "unforce"
    /\ forcePark' = FALSE
    /\ burst' = burst \ {c}
    /\ Goto(c, "idle")
    /\ UNCHANGED <<hold, crewVars, gate, jobVars, inRun, shutdown, wake, verdict, dropping>>

-----------------------------------------------------------------------------
(* The task loop, the same for the caller and the workers.                 *)

Draw(p) ==
    /\ at[p] = "drain"
    /\ cursor' = cursor + 1
    /\ IF cursor < nTasks
         THEN /\ hold' = [hold EXCEPT ![p] = cursor]
              /\ Goto(p, "task")
         ELSE /\ Goto(p, IF p \in Crew THEN "checkin" ELSE "wait")
              /\ UNCHANGED hold
    /\ UNCHANGED <<crewVars, gate, job, nTasks, done, seq, panicked, hurt, flags, callVars>>

\* The no-op tasks of park_workers never panic.
Execute(p) ==
    /\ at[p] = "task"
    /\ \E bad \in IF job \in burst \/ hold[p] \notin Risky THEN {FALSE} ELSE BOOLEAN :
          /\ panicked' = (panicked \/ bad)
          /\ hurt' = IF bad THEN hurt \cup {job} ELSE hurt
    /\ hold' = [hold EXCEPT ![p] = None]
    /\ Goto(p, "drain")
    /\ UNCHANGED <<crewVars, gate, job, nTasks, cursor, done, seq, flags, callVars>>

-----------------------------------------------------------------------------
(* The worker.                                                             *)

\* A thread that starts late joins the generation in flight: its baseline
\* is the construction-time value, not the present one.
Start(w) ==
    /\ at[w] = "new"
    /\ seen' = [seen EXCEPT ![w] = 0]
    /\ Goto(w, "spin")
    /\ UNCHANGED <<hold, parked, budget, gate, jobVars, flags, callVars>>

\* Mutant: the parking request is not read.
JoinInUnforced(w) ==
    /\ at[w] = "spin" /\ seq # seen[w]
    /\ seen' = [seen EXCEPT ![w] = seq]
    /\ budget' = [budget EXCEPT ![w] = parked[w] \/ @]
    /\ parked' = [parked EXCEPT ![w] = FALSE]
    /\ Goto(w, IF shutdown THEN "gone" ELSE "drain")
    /\ UNCHANGED <<hold, gate, jobVars, flags, callVars>>

JoinIn(w) ==
    /\ at[w] = "spin" /\ seq # seen[w]
    /\ seen' = [seen EXCEPT ![w] = seq]
    /\ budget' = [budget EXCEPT ![w] = ~forcePark /\ (parked[w] \/ @)]
    /\ parked' = [parked EXCEPT ![w] = FALSE]
    /\ Goto(w, IF shutdown THEN "gone" ELSE "drain")
    /\ UNCHANGED <<hold, gate, jobVars, flags, callVars>>

Quit(w) ==
    /\ at[w] = "spin" /\ seq = seen[w] /\ shutdown
    /\ Goto(w, "gone")
    /\ UNCHANGED <<hold, crewVars, gate, jobVars, flags, callVars>>

\* Out of budget, or told to park: nothing new has been seen so far.
GiveUp(w) ==
    /\ at[w] = "spin" /\ seq = seen[w] /\ ~shutdown
    /\ Goto(w, "flag")
    /\ UNCHANGED <<hold, crewVars, gate, jobVars, flags, callVars>>

\* The handshake: the flag goes up before the generation is read again.
RaiseFlag(w) ==
    /\ at[w] = "flag"
    /\ sleeping' = [sleeping EXCEPT ![w] = TRUE]
    /\ Goto(w, "recheck")
    /\ UNCHANGED <<hold, crewVars, token, jobVars, flags, callVars>>

\* Mutant: the generation is not read again once the flag is up.
RecheckNever(w) ==
    /\ at[w] = "recheck"
    /\ IF shutdown
         THEN /\ sleeping' = [sleeping EXCEPT ![w] = FALSE]
              /\ Goto(w, "spin")
         ELSE /\ Goto(w, "park")
              /\ UNCHANGED sleeping
    /\ UNCHANGED <<hold, crewVars, token, jobVars, flags, callVars>>

Recheck(w) ==
    /\ at[w] = "recheck"
    /\ IF seq # seen[w] \/ shutdown
         THEN /\ sleeping' = [sleeping EXCEPT ![w] = FALSE]
              /\ Goto(w, "spin")
         ELSE /\ Goto(w, "park")
              /\ UNCHANGED sleeping
    /\ UNCHANGED <<hold, crewVars, token, jobVars, flags, callVars>>

\* park() returns when the token is there, which it consumes.
Wake(w) ==
    /\ at[w] = "park" /\ token[w]
    /\ token' = [token EXCEPT ![w] = FALSE]
    /\ Goto(w, "woken")
    /\ UNCHANGED <<hold, crewVars, sleeping, jobVars, flags, callVars>>

\* std permits park() to return with no token at all.
SpuriousWake(w) ==
    /\ at[w] = "park"
    /\ Goto(w, "woken")
    /\ UNCHANGED <<hold, crewVars, gate, jobVars, flags, callVars>>

LowerFlag(w) ==
    /\ at[w] = "woken"
    /\ sleeping' = [sleeping EXCEPT ![w] = FALSE]
    /\ parked' = [parked EXCEPT ![w] = TRUE]
    /\ Goto(w, "spin")
    /\ UNCHANGED <<hold, seen, budget, token, jobVars, flags, callVars>>

CheckIn(w) ==
    /\ at[w] = "checkin"
    /\ done' = done + 1
    /\ Goto(w, "spin")
    /\ UNCHANGED <<hold, crewVars, gate, job, nTasks, cursor, seq, panicked, hurt, flags, callVars>>

-----------------------------------------------------------------------------
(* Drop for SpinPool: the owner is the only one left, so nothing is running. *)

Drop ==
    /\ dropping = "no"
    /\ \A c \in Callers : at[c] = "idle" /\ c \notin burst
    /\ shutdown' = TRUE
    /\ dropping' = "bump"
    /\ UNCHANGED <<at, hold, crewVars, gate, jobVars, inRun, forcePark, wake, burst, verdict>>

DropBump ==
    /\ dropping = "bump"
    /\ seq' = seq + 1
    /\ dropping' = "unpark"
    /\ UNCHANGED <<at, hold, crewVars, gate, job, nTasks, cursor, done, panicked, hurt, flags, wake, burst, verdict>>

DropUnpark ==
    /\ dropping = "unpark"
    /\ token' = [token EXCEPT ![wake] = TRUE]
    /\ wake' = IF wake = Workers THEN 1 ELSE wake + 1
    /\ dropping' = IF wake = Workers THEN "join" ELSE "unpark"
    /\ UNCHANGED <<at, hold, crewVars, sleeping, jobVars, flags, burst, verdict>>

Joined ==
    /\ dropping = "join"
    /\ \A w \in Crew : at[w] = "gone"
    /\ dropping' = "done"
    /\ UNCHANGED <<at, hold, crewVars, gate, jobVars, flags, wake, burst, verdict>>

-----------------------------------------------------------------------------

CallerStep(c) ==
    \/ Setup(c) \/ Bump(c) \/ Unpark(c)
    \/ AllIn(c) \/ Swap(c) \/ Release(c) \/ EndBurst(c)

CrewStep(w) ==
    \/ Start(w) \/ JoinIn(w) \/ Quit(w) \/ RaiseFlag(w) \/ Recheck(w)
    \/ Wake(w) \/ LowerFlag(w) \/ CheckIn(w)

DropStep == DropBump \/ DropUnpark \/ Joined

Next ==
    \/ \E c \in Callers : StartBurst(c) \/ StartRun(c) \/ Fallback(c) \/ CallerStep(c)
    \/ \E w \in Crew : CrewStep(w) \/ GiveUp(w) \/ SpuriousWake(w)
    \/ \E p \in Threads : Draw(p) \/ Execute(p)
    \/ Drop \/ DropStep

\* The operating system keeps scheduling every thread and every task ends.
\* Nobody has to call run, to go to sleep or to drop the pool.
Fairness ==
    /\ \A c \in Callers : WF_vars(CallerStep(c) \/ Draw(c) \/ Execute(c))
    /\ \A w \in Crew : WF_vars(CrewStep(w) \/ Draw(w) \/ Execute(w))
    /\ WF_vars(DropStep)

Spec == Init /\ [][Next]_vars /\ Fairness

-----------------------------------------------------------------------------
(* Properties.                                                             *)

Places == Owning \cup {"idle", "unforce", "new", "spin", "checkin", "flag",
                       "recheck", "park", "woken", "gone"}

\* Type invariant; the counters stay within their bounds and in_run is TRUE
\* exactly while one caller is between its compare_exchange and its release
\* (in_run, pool.rs:81): a run that unwinds may not leave it latched.
TypeOK ==
    /\ at \in [Threads -> Places]
    /\ hold \in [Threads -> 0..(Width - 1) \cup {None}]
    /\ seen \in [Crew -> 0..(MaxRuns + 1)]
    /\ parked \in [Crew -> BOOLEAN] /\ budget \in [Crew -> BOOLEAN]
    /\ sleeping \in [Crew -> BOOLEAN] /\ token \in [Crew -> BOOLEAN]
    /\ job \in Callers \cup {None} /\ nTasks \in 0..Width
    /\ cursor \in Nat /\ done \in 0..Workers /\ seq \in 0..(MaxRuns + 1)
    /\ panicked \in BOOLEAN /\ hurt \subseteq Callers
    /\ inRun \in BOOLEAN /\ forcePark \in BOOLEAN /\ shutdown \in BOOLEAN
    /\ wake \in Crew /\ burst \subseteq Callers /\ verdict \subseteq Callers
    /\ dropping \in {"no", "bump", "unpark", "join", "done"}
    /\ Cardinality({c \in Callers : at[c] \in Owning}) = (IF inRun THEN 1 ELSE 0)

\* A worker touches the borrowed closure only while the run it was borrowed
\* from has published it and not returned (Shared::job's field comment): a
\* worker that checked in late, or joined a generation twice, would call a
\* closure that is gone or read the slot while the next run writes it.
NoStaleJob ==
    \A w \in Crew : at[w] \in {"drain", "task"} =>
        /\ seen[w] = seq
        /\ job # None /\ at[job] \in {"wake", "drain", "task", "wait"}

\* The panic flag is global to the pool, but a run panics exactly when one
\* of its own tasks did: no caller is blamed for, or deprived of, another
\* caller's panic (backlog B25, pool.rs:357).
VerdictIsOwn ==
    \A c \in Callers : at[c] = "release" => (c \in verdict <=> c \in hurt)

\* When park_workers got the pool for itself, every worker has read the
\* parking request by the time it returns: all of them go to sleep without
\* spinning again (park_workers, pool.rs:230).  A caller that lowered
\* force_park meanwhile is the one exception.
BurstParks ==
    [][\A c \in Callers : AllIn(c) /\ c \in burst /\ forcePark /\ Cardinality(burst) = 1
          => \A w \in Crew : ~budget[w]]_vars

Join == INSTANCE ForkJoin WITH
    Width <- Width,
    running <- job # None,
    todo <- cursor..(nTasks - 1),
    busy <- {hold[p] : p \in Threads} \ {None}

\* Every index of a run is handed to one thread once, and the run returns
\* only when all of them have finished, whatever the workers were doing when
\* the generation was bumped.
RunsOnce == Join!JoinSpec

Pending == inRun \/ dropping \in {"bump", "unpark", "join"}

\* No wake-up is lost between a worker's last look at the generation and its
\* park: every run comes back and releases the pool, and dropping the pool
\* joins every worker (the park handshake, pool.rs:113).
EveryoneReturns == Pending ~> ~Pending

=============================================================================
