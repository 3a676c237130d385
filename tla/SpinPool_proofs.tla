-------------------------- MODULE SpinPool_proofs --------------------------
(***************************************************************************)
(* Proofs about SpinPool, for every number of workers, callers and tasks:  *)
(* no worker is left inside a job whose run returned, a run panics exactly *)
(* for its own tasks, a burst parks every worker, and the pool implements  *)
(* ForkJoin.                                                               *)
(*                                                                         *)
(* The inductive invariant relates the check-in count to the workers it    *)
(* counts (Count): a worker counts once it has joined the present          *)
(* generation and left the task loop again.  The caller therefore waits    *)
(* for every worker, and between two runs everybody has seen the present   *)
(* generation (Met), so nobody can join the old one late.                  *)
(***************************************************************************)
EXTENDS SpinPool, FiniteSetTheorems, TLAPS

CallerPlaces == Owning \cup {"idle", "unforce"}
CrewPlaces == {"new", "spin", "drain", "task", "checkin", "flag", "recheck", "park",
               "woken", "gone"}

\* The stages of a run between its generation bump and its last check-in,
\* and the places of a worker that has joined and not checked in.
Live == {"wake", "drain", "task", "wait"}
Busy == {"drain", "task", "checkin"}
Published == job # None /\ at[job] \in Live

\* The workers that checked in.
In == {w \in Crew : seen[w] = seq /\ at[w] \notin Busy}

Typed ==
    /\ at \in [Threads -> CallerPlaces \cup CrewPlaces]
    /\ \A c \in Callers : at[c] \in CallerPlaces
    /\ \A w \in Crew : at[w] \in CrewPlaces
    /\ hold \in [Threads -> Nat \cup {None}]
    /\ seen \in [Crew -> Nat]
    /\ job \in Callers \cup {None}
    /\ nTasks \in Nat /\ cursor \in Nat /\ done \in Nat /\ seq \in Nat
    /\ panicked \in BOOLEAN /\ hurt \subseteq Callers /\ verdict \subseteq Callers
    /\ dropping \in {"no", "bump", "unpark", "join", "done"}

\* One caller at a time owns the slot, and only while the pool lives.
Turn ==
    /\ \A c \in Callers : at[c] \in Owning => inRun /\ dropping = "no"
    /\ \A c, d \in Callers : at[c] \in Owning /\ at[d] \in Owning => c = d
    /\ shutdown => dropping # "no"
    /\ dropping # "no" => shutdown

\* The slot holds the closure of the caller that is past its setup.
Slot == \A c \in Callers : at[c] \in {"bump"} \cup Live <=> job = c

\* A worker in the task loop joined the generation in flight.
Crewed == \A w \in Crew : at[w] \in Busy => seen[w] = seq /\ Published

\* Outside a published run every worker has seen the present generation.
Met ==
    /\ \A w \in Crew : seen[w] # seq => Published \/ shutdown
    /\ \A w \in Crew : seen[w] <= seq
    /\ \A w \in Crew : at[w] = "new" => seen[w] = 0

\* done counts the workers that checked in.
Count ==
    /\ \A c \in Callers : at[c] = "bump" => done = 0
    /\ Published => done = Cardinality(In)

\* Every drawn index is held by one thread until it is executed, and a
\* caller stops drawing when the cursor has passed the last index.
Held ==
    /\ \A p \in Threads : at[p] = "task" <=> hold[p] # None
    /\ \A p \in Threads : hold[p] # None => hold[p] < cursor /\ hold[p] < nTasks
    /\ \A p, q \in Threads : hold[p] # None /\ hold[p] = hold[q] => p = q
    /\ \A c \in Callers : at[c] = "wait" => cursor >= nTasks

\* The panic flag is up exactly when a task of the present owner panicked.
Blame ==
    /\ \A c \in hurt : at[c] \in Live \cup {"swap", "release"}
    /\ \A c \in verdict : at[c] = "release"
    /\ \A c \in Callers : at[c] \in Live \cup {"swap"} => (panicked <=> c \in hurt)
    /\ panicked => \E c \in Callers : at[c] \in Live \cup {"swap"}
    /\ VerdictIsOwn

PoolInv == Typed /\ Turn /\ Slot /\ Crewed /\ Met /\ Count /\ Held /\ Blame

-----------------------------------------------------------------------------

\* Before the first run.
LEMMA PoolInitInv == Init => PoolInv
<1> SUFFICES ASSUME Init PROVE PoolInv
  OBVIOUS
<1> USE PoolAssumption DEF Init, Owning, Live, Busy, Threads, Crew, CallerPlaces, CrewPlaces
<1>1. Typed
  <2>1. at \in [Threads -> CallerPlaces \cup CrewPlaces]
    BY Zenon
  <2>4. hold \in [Threads -> Nat \cup {None}]
    BY Zenon
  <2>0. Crew \cap Callers = {}
    OBVIOUS
  <2>2. \A c \in Callers : at[c] \in CallerPlaces
    <3> HIDE DEF Crew
    <3> QED BY <2>0
  <2>3. \A w \in Crew : at[w] \in CrewPlaces
    OBVIOUS
  <2> QED BY <2>1, <2>2, <2>3, <2>4 DEF Typed
<1>2. Turn /\ Slot /\ Crewed /\ Count
  BY DEF Turn, Slot, Crewed, Count, Published
<1>3. Met /\ Held
  BY DEF Met, Held
<1>4. Blame
  BY DEF Blame, VerdictIsOwn
<1> QED BY <1>1, <1>2, <1>3, <1>4 DEF PoolInv

\* When the count is complete, every worker joined this generation and left
\* its task loop.
LEMMA AllChecked ==
    PoolInv /\ Published /\ done >= Workers => In = Crew /\ done = Workers
<1> SUFFICES ASSUME PoolInv, Published, done >= Workers
             PROVE  In = Crew /\ done = Workers
  OBVIOUS
<1>1. IsFiniteSet(Crew) /\ Cardinality(Crew) = Workers
  BY FS_Interval, PoolAssumption DEF Crew
<1>2. In \subseteq Crew /\ done = Cardinality(In)
  BY DEF In, PoolInv, Count
<1>3. Cardinality(In) <= Workers /\ Cardinality(In) \in Nat
  BY <1>1, <1>2, FS_Subset, FS_CardinalityType
<1>4. Cardinality(In) = Workers
  BY <1>2, <1>3, PoolAssumption
<1> QED BY <1>1, <1>2, <1>4, FS_Subset

\* Everything but the count.
RestInv == Typed /\ Turn /\ Slot /\ Crewed /\ Met /\ Held /\ Blame

\* It is preserved by every step (from an invariant state, count included:
\* only AllIn needs the count).
LEMMA PoolStepRest == PoolInv /\ [Next]_vars => RestInv'
<1> SUFFICES ASSUME PoolInv, [Next]_vars PROVE RestInv'
  OBVIOUS
<1> USE PoolAssumption DEF Goto, crewVars, gate, jobVars, flags, callVars, PoolInv, RestInv,
        Published, Live, Busy, Owning, Threads
<1>0. Crew \cap Callers = {}
  BY DEF Crew
<1>1. ASSUME NEW c \in Callers, StartBurst(c) PROVE RestInv'
  BY <1>1, SMTT(30) DEF StartBurst, Typed, Turn, Slot, Crewed, Met, Held, Blame, VerdictIsOwn, CallerPlaces, CrewPlaces
<1>2. ASSUME NEW c \in Callers, StartRun(c) PROVE RestInv'
  BY <1>2, SMTT(30) DEF StartRun, Typed, Turn, Slot, Crewed, Met, Held, Blame, VerdictIsOwn, CallerPlaces, CrewPlaces
<1>3. ASSUME NEW c \in Callers, Fallback(c) PROVE RestInv'
  BY <1>3, SMTT(30) DEF Fallback, Typed, Turn, Slot, Crewed, Met, Held, Blame, VerdictIsOwn, CallerPlaces, CrewPlaces
<1>4. ASSUME NEW c \in Callers, Setup(c) PROVE RestInv'
  <2>1. /\ at' = [at EXCEPT ![c] = "bump"] /\ at[c] = "setup"
        /\ job' = c /\ cursor' = 0 /\ done' = 0 /\ nTasks' \in Nat
        /\ UNCHANGED <<hold, seen, seq, panicked, hurt, inRun, shutdown, verdict, dropping>>
    BY <1>4, SMTT(30) DEF Setup, callVars
  <2>2. Typed'
    BY <2>1, SMTT(30) DEF Typed, CallerPlaces, CrewPlaces
  <2>3. Turn'
    BY <2>1, SMTT(30) DEF Typed, Turn, CallerPlaces, CrewPlaces
  <2>4. Slot'
    BY <2>1, SMTT(30) DEF Typed, Turn, Slot, CallerPlaces, CrewPlaces
  <2>5. Crewed'
    BY <2>1, SMTT(30) DEF Typed, Turn, Slot, Crewed, Met, CallerPlaces, CrewPlaces
  <2>6. Met'
    BY <2>1, SMTT(30) DEF Typed, Turn, Slot, Crewed, Met, CallerPlaces, CrewPlaces
  <2>7. Held'
    BY <2>1, SMTT(30) DEF Typed, Turn, Slot, Crewed, Held, CallerPlaces, CrewPlaces
  <2>8. Blame'
    BY <2>1, SMTT(30) DEF Typed, Turn, Slot, Crewed, Blame, VerdictIsOwn, CallerPlaces, CrewPlaces
  <2> QED BY <2>2, <2>3, <2>4, <2>5, <2>6, <2>7, <2>8
<1>5. ASSUME NEW c \in Callers, Bump(c) PROVE RestInv'
  BY <1>5, SMTT(30) DEF Bump, Typed, Turn, Slot, Crewed, Met, Held, Blame, VerdictIsOwn, CallerPlaces, CrewPlaces
<1>6. ASSUME NEW c \in Callers, Unpark(c) PROVE RestInv'
  BY <1>6, SMTT(30) DEF Unpark, Typed, Turn, Slot, Crewed, Met, Held, Blame, VerdictIsOwn, CallerPlaces, CrewPlaces
<1>7. ASSUME NEW c \in Callers, AllIn(c) PROVE RestInv'
  <2>0. In = Crew
    BY <1>7, AllChecked DEF AllIn, Slot, Typed
  <2>1. \A w \in Crew : seen[w] = seq /\ at[w] \notin Busy
    BY <2>0 DEF In
  <2>2. Typed'
    BY <1>7, <2>1, SMTT(30) DEF AllIn, Typed, CallerPlaces, CrewPlaces
  <2>3. Turn'
    BY <1>7, <2>1, SMTT(30) DEF AllIn, Typed, Turn, CallerPlaces, CrewPlaces
  <2>4. Slot'
    BY <1>7, <2>1, SMTT(30) DEF AllIn, Typed, Turn, Slot, CallerPlaces, CrewPlaces
  <2>5. Crewed'
    BY <1>7, <2>1, SMTT(30) DEF AllIn, Typed, Turn, Slot, Crewed, Met, CallerPlaces, CrewPlaces
  <2>6. Met'
    BY <1>7, <2>1, SMTT(30) DEF AllIn, Typed, Turn, Slot, Crewed, Met, CallerPlaces, CrewPlaces
  <2>7. Held'
    BY <1>7, <2>1, SMTT(30) DEF AllIn, Typed, Turn, Slot, Crewed, Held, CallerPlaces, CrewPlaces
  <2>8. Blame'
    BY <1>7, <2>1, SMTT(30) DEF AllIn, Typed, Turn, Slot, Crewed, Blame, VerdictIsOwn, CallerPlaces, CrewPlaces
  <2> QED BY <2>2, <2>3, <2>4, <2>5, <2>6, <2>7, <2>8
<1>8. ASSUME NEW c \in Callers, Swap(c) PROVE RestInv'
  <2>1. /\ at' = [at EXCEPT ![c] = "release"] /\ at[c] = "swap" /\ panicked' = FALSE
        /\ verdict' = IF panicked THEN verdict \cup {c} ELSE verdict
        /\ UNCHANGED <<hold, seen, job, nTasks, cursor, done, seq, hurt, inRun, shutdown, dropping>>
    BY <1>8 DEF Swap
  <2>8. verdict' \subseteq Callers /\ panicked' \in BOOLEAN /\ hurt' \subseteq Callers
    BY <2>1 DEF Typed
  <2>9. /\ at' = [at EXCEPT ![c] = "release"]
        /\ UNCHANGED <<hold, seen, job, nTasks, cursor, done, seq, dropping>>
    BY <2>1
  <2>12. Typed'
    BY <1>0, <2>1, <2>8, <2>9, SMTT(30) DEF Typed, CallerPlaces, CrewPlaces
  <2>13. Turn'
    BY <2>1, SMTT(30) DEF Typed, Turn, CallerPlaces, CrewPlaces
  <2>14. Slot'
    BY <2>1, SMTT(30) DEF Typed, Turn, Slot, CallerPlaces, CrewPlaces
  <2>15. Crewed'
    BY <2>1, SMTT(30) DEF Typed, Turn, Slot, Crewed, Met, CallerPlaces, CrewPlaces
  <2>16. Met'
    BY <2>1, SMTT(30) DEF Typed, Turn, Slot, Crewed, Met, CallerPlaces, CrewPlaces
  <2>17. Held'
    BY <2>1, SMTT(30) DEF Typed, Turn, Slot, Crewed, Held, CallerPlaces, CrewPlaces
  <2>18. Blame'
    BY <2>1, SMTT(30) DEF Typed, Turn, Slot, Crewed, Blame, VerdictIsOwn, CallerPlaces, CrewPlaces
  <2> QED BY <2>12, <2>13, <2>14, <2>15, <2>16, <2>17, <2>18
<1>9. ASSUME NEW c \in Callers, Release(c) PROVE RestInv'
  BY <1>9, SMTT(30) DEF Release, Typed, Turn, Slot, Crewed, Met, Held, Blame, VerdictIsOwn, CallerPlaces, CrewPlaces
<1>10. ASSUME NEW c \in Callers, EndBurst(c) PROVE RestInv'
  BY <1>10, SMTT(30) DEF EndBurst, Typed, Turn, Slot, Crewed, Met, Held, Blame, VerdictIsOwn, CallerPlaces, CrewPlaces
<1>11. ASSUME NEW w \in Crew, Start(w) PROVE RestInv'
  BY <1>11, SMTT(30) DEF Start, Typed, Turn, Slot, Crewed, Met, Held, Blame, VerdictIsOwn, CallerPlaces, CrewPlaces
<1>12. ASSUME NEW w \in Crew, JoinIn(w) PROVE RestInv'
  BY <1>12, SMTT(30) DEF JoinIn, Typed, Turn, Slot, Crewed, Met, Held, Blame, VerdictIsOwn, CallerPlaces, CrewPlaces
<1>13. ASSUME NEW w \in Crew, Quit(w) PROVE RestInv'
  BY <1>13, SMTT(30) DEF Quit, Typed, Turn, Slot, Crewed, Met, Held, Blame, VerdictIsOwn, CallerPlaces, CrewPlaces
<1>14. ASSUME NEW w \in Crew, GiveUp(w) PROVE RestInv'
  BY <1>14, SMTT(30) DEF GiveUp, Typed, Turn, Slot, Crewed, Met, Held, Blame, VerdictIsOwn, CallerPlaces, CrewPlaces
<1>15. ASSUME NEW w \in Crew, RaiseFlag(w) PROVE RestInv'
  BY <1>15, SMTT(30) DEF RaiseFlag, Typed, Turn, Slot, Crewed, Met, Held, Blame, VerdictIsOwn, CallerPlaces, CrewPlaces
<1>16. ASSUME NEW w \in Crew, Recheck(w) PROVE RestInv'
  BY <1>16, SMTT(30) DEF Recheck, Typed, Turn, Slot, Crewed, Met, Held, Blame, VerdictIsOwn, CallerPlaces, CrewPlaces
<1>17. ASSUME NEW w \in Crew, Wake(w) PROVE RestInv'
  BY <1>17, SMTT(30) DEF Wake, Typed, Turn, Slot, Crewed, Met, Held, Blame, VerdictIsOwn, CallerPlaces, CrewPlaces
<1>18. ASSUME NEW w \in Crew, SpuriousWake(w) PROVE RestInv'
  BY <1>18, SMTT(30) DEF SpuriousWake, Typed, Turn, Slot, Crewed, Met, Held, Blame, VerdictIsOwn, CallerPlaces, CrewPlaces
<1>19. ASSUME NEW w \in Crew, LowerFlag(w) PROVE RestInv'
  BY <1>19, SMTT(30) DEF LowerFlag, Typed, Turn, Slot, Crewed, Met, Held, Blame, VerdictIsOwn, CallerPlaces, CrewPlaces
<1>20. ASSUME NEW w \in Crew, CheckIn(w) PROVE RestInv'
  BY <1>20, SMTT(30) DEF CheckIn, Typed, Turn, Slot, Crewed, Met, Held, Blame, VerdictIsOwn, CallerPlaces, CrewPlaces
<1>21. ASSUME NEW p \in Threads, Draw(p) PROVE RestInv'
  <2>0. /\ at[p] = "drain" /\ cursor' = cursor + 1
        /\ UNCHANGED <<seen, job, nTasks, done, seq, panicked, hurt, inRun, shutdown, verdict, dropping>>
    BY <1>21 DEF Draw
  <2>1. CASE cursor < nTasks
    <3>1. hold' = [hold EXCEPT ![p] = cursor] /\ at' = [at EXCEPT ![p] = "task"]
      BY <1>21, <2>1 DEF Draw
    <3>2. Typed'
      BY <1>0, <2>0, <2>1, <3>1, SMTT(30) DEF Typed, CallerPlaces, CrewPlaces
    <3>3. Turn'
      BY <1>0, <2>0, <2>1, <3>1, SMTT(30) DEF Typed, Turn, CallerPlaces, CrewPlaces
    <3>4. Slot'
      BY <1>0, <2>0, <2>1, <3>1, SMTT(30) DEF Typed, Turn, Slot, CallerPlaces, CrewPlaces
    <3>5. Crewed'
      BY <1>0, <2>0, <2>1, <3>1, SMTT(30) DEF Typed, Turn, Slot, Crewed, Met, CallerPlaces, CrewPlaces
    <3>6. Met'
      BY <1>0, <2>0, <2>1, <3>1, SMTT(30) DEF Typed, Turn, Slot, Crewed, Met, CallerPlaces, CrewPlaces
    <3>7. Held'
      BY <1>0, <2>0, <2>1, <3>1, SMTT(30) DEF Typed, Turn, Slot, Crewed, Held, CallerPlaces, CrewPlaces
    <3>8. Blame'
      BY <1>0, <2>0, <2>1, <3>1, SMTT(30) DEF Typed, Turn, Slot, Crewed, Blame, VerdictIsOwn, CallerPlaces, CrewPlaces
    <3> QED BY <3>2, <3>3, <3>4, <3>5, <3>6, <3>7, <3>8
  <2>2. CASE ~(cursor < nTasks) /\ p \in Crew
    <3>1. hold' = hold /\ at' = [at EXCEPT ![p] = "checkin"]
      BY <1>21, <2>2 DEF Draw
    <3>2. Typed'
      BY <1>0, <2>0, <2>2, <3>1, SMTT(30) DEF Typed, CallerPlaces, CrewPlaces
    <3>3. Turn'
      BY <1>0, <2>0, <2>2, <3>1, SMTT(30) DEF Typed, Turn, CallerPlaces, CrewPlaces
    <3>4. Slot'
      BY <1>0, <2>0, <2>2, <3>1, SMTT(30) DEF Typed, Turn, Slot, CallerPlaces, CrewPlaces
    <3>5. Crewed'
      BY <1>0, <2>0, <2>2, <3>1, SMTT(30) DEF Typed, Turn, Slot, Crewed, Met, CallerPlaces, CrewPlaces
    <3>6. Met'
      BY <1>0, <2>0, <2>2, <3>1, SMTT(30) DEF Typed, Turn, Slot, Crewed, Met, CallerPlaces, CrewPlaces
    <3>7. Held'
      BY <1>0, <2>0, <2>2, <3>1, SMTT(30) DEF Typed, Turn, Slot, Crewed, Held, CallerPlaces, CrewPlaces
    <3>8. Blame'
      BY <1>0, <2>0, <2>2, <3>1, SMTT(30) DEF Typed, Turn, Slot, Crewed, Blame, VerdictIsOwn, CallerPlaces, CrewPlaces
    <3> QED BY <3>2, <3>3, <3>4, <3>5, <3>6, <3>7, <3>8
  <2>3. CASE ~(cursor < nTasks) /\ p \notin Crew
    <3>1. hold' = hold /\ at' = [at EXCEPT ![p] = "wait"]
      BY <1>21, <2>3 DEF Draw
    <3>2. Typed'
      BY <1>0, <2>0, <2>3, <3>1, SMTT(30) DEF Typed, CallerPlaces, CrewPlaces
    <3>3. Turn'
      BY <1>0, <2>0, <2>3, <3>1, SMTT(30) DEF Typed, Turn, CallerPlaces, CrewPlaces
    <3>4. Slot'
      BY <1>0, <2>0, <2>3, <3>1, SMTT(30) DEF Typed, Turn, Slot, CallerPlaces, CrewPlaces
    <3>5. Crewed'
      BY <1>0, <2>0, <2>3, <3>1, SMTT(30) DEF Typed, Turn, Slot, Crewed, Met, CallerPlaces, CrewPlaces
    <3>6. Met'
      BY <1>0, <2>0, <2>3, <3>1, SMTT(30) DEF Typed, Turn, Slot, Crewed, Met, CallerPlaces, CrewPlaces
    <3>7. Held'
      BY <1>0, <2>0, <2>3, <3>1, SMTT(30) DEF Typed, Turn, Slot, Crewed, Held, CallerPlaces, CrewPlaces
    <3>8. Blame'
      BY <1>0, <2>0, <2>3, <3>1, SMTT(30) DEF Typed, Turn, Slot, Crewed, Blame, VerdictIsOwn, CallerPlaces, CrewPlaces
    <3> QED BY <3>2, <3>3, <3>4, <3>5, <3>6, <3>7, <3>8
  <2> QED BY <2>1, <2>2, <2>3
<1>22. ASSUME NEW p \in Threads, Execute(p) PROVE RestInv'
  <2>0. /\ at[p] = "task" /\ hold' = [hold EXCEPT ![p] = None] /\ at' = [at EXCEPT ![p] = "drain"]
        /\ UNCHANGED <<seen, job, nTasks, cursor, done, seq, inRun, shutdown, verdict, dropping>>
    BY <1>22 DEF Execute
  <2>4. job \in Callers
    BY <1>0, <2>0 DEF Typed, Slot, Crewed
  <2>1. CASE panicked' = panicked /\ hurt' = hurt
    <3>2. Typed'
      BY <1>0, <2>0, <2>1, SMTT(30) DEF Typed, CallerPlaces, CrewPlaces
    <3>3. Turn'
      BY <1>0, <2>0, <2>1, SMTT(30) DEF Typed, Turn, CallerPlaces, CrewPlaces
    <3>4. Slot'
      BY <1>0, <2>0, <2>1, SMTT(30) DEF Typed, Turn, Slot, CallerPlaces, CrewPlaces
    <3>5. Crewed'
      BY <1>0, <2>0, <2>1, SMTT(30) DEF Typed, Turn, Slot, Crewed, Met, CallerPlaces, CrewPlaces
    <3>6. Met'
      BY <1>0, <2>0, <2>1, SMTT(30) DEF Typed, Turn, Slot, Crewed, Met, CallerPlaces, CrewPlaces
    <3>7. Held'
      BY <1>0, <2>0, <2>1, SMTT(30) DEF Typed, Turn, Slot, Crewed, Held, CallerPlaces, CrewPlaces
    <3>8. Blame'
      BY <1>0, <2>0, <2>1, SMTT(30) DEF Typed, Turn, Slot, Crewed, Blame, VerdictIsOwn, CallerPlaces, CrewPlaces
    <3> QED BY <3>2, <3>3, <3>4, <3>5, <3>6, <3>7, <3>8
  <2>2. CASE panicked' = TRUE /\ hurt' = hurt \cup {job}
    <3>2. Typed'
      BY <1>0, <2>0, <2>2, <2>4, SMTT(30) DEF Typed, CallerPlaces, CrewPlaces
    <3>3. Turn'
      BY <1>0, <2>0, <2>2, <2>4, SMTT(30) DEF Typed, Turn, CallerPlaces, CrewPlaces
    <3>4. Slot'
      BY <1>0, <2>0, <2>2, <2>4, SMTT(30) DEF Typed, Turn, Slot, CallerPlaces, CrewPlaces
    <3>5. Crewed'
      BY <1>0, <2>0, <2>2, <2>4, SMTT(30) DEF Typed, Turn, Slot, Crewed, Met, CallerPlaces, CrewPlaces
    <3>6. Met'
      BY <1>0, <2>0, <2>2, <2>4, SMTT(30) DEF Typed, Turn, Slot, Crewed, Met, CallerPlaces, CrewPlaces
    <3>7. Held'
      BY <1>0, <2>0, <2>2, <2>4, SMTT(30) DEF Typed, Turn, Slot, Crewed, Held, CallerPlaces, CrewPlaces
    <3>8. Blame'
      BY <1>0, <2>0, <2>2, <2>4, SMTT(30) DEF Typed, Turn, Slot, Crewed, Blame, VerdictIsOwn, CallerPlaces, CrewPlaces
    <3> QED BY <3>2, <3>3, <3>4, <3>5, <3>6, <3>7, <3>8
  <2> QED BY <1>22, <2>1, <2>2 DEF Execute, Typed
<1>23. ASSUME Drop PROVE RestInv'
  BY <1>23, SMTT(30) DEF Drop, Typed, Turn, Slot, Crewed, Met, Held, Blame, VerdictIsOwn, CallerPlaces, CrewPlaces
<1>24. ASSUME DropBump PROVE RestInv'
  BY <1>24, SMTT(30) DEF DropBump, Typed, Turn, Slot, Crewed, Met, Held, Blame, VerdictIsOwn, CallerPlaces, CrewPlaces
<1>25. ASSUME DropUnpark PROVE RestInv'
  BY <1>25, SMTT(30) DEF DropUnpark, Typed, Turn, Slot, Crewed, Met, Held, Blame, VerdictIsOwn, CallerPlaces, CrewPlaces
<1>26. ASSUME Joined PROVE RestInv'
  BY <1>26, SMTT(30) DEF Joined, Typed, Turn, Slot, Crewed, Met, Held, Blame, VerdictIsOwn, CallerPlaces, CrewPlaces
<1>27. CASE UNCHANGED vars
  BY <1>27 DEF vars, Typed, Turn, Slot, Crewed, Met, Held, Blame, VerdictIsOwn
<1> QED BY <1>1, <1>2, <1>3, <1>4, <1>5, <1>6, <1>7, <1>8, <1>9, <1>10, <1>11, <1>12, <1>13, <1>14, <1>15, <1>16, <1>17, <1>18, <1>19, <1>20, <1>21, <1>22, <1>23, <1>24, <1>25, <1>26, <1>27 DEF Next, CallerStep, CrewStep, DropStep

\* The count moves with the workers it counts.
LEMMA PoolStepCount == PoolInv /\ [Next]_vars => Count'
<1> SUFFICES ASSUME PoolInv, [Next]_vars PROVE Count'
  OBVIOUS
<1> USE PoolAssumption DEF Goto, crewVars, gate, jobVars, flags, callVars, PoolInv,
        Published, Live, Busy, Owning, Threads
<1>0. IsFiniteSet(Crew)
  BY FS_Interval DEF Crew
<1>d. Crew \cap Callers = {}
  BY DEF Crew
<1>1. ASSUME NEW c \in Callers, StartBurst(c) PROVE Count'
  <2>1. In' = In
    BY <1>1, SMTT(30) DEF StartBurst, In, Typed, CallerPlaces
  <2> QED BY <1>1, <2>1, SMTT(30) DEF StartBurst, Count, Typed, Turn, Slot, Crewed, Met, Crew, CallerPlaces, CrewPlaces
<1>2. ASSUME NEW c \in Callers, StartRun(c) PROVE Count'
  <2>1. In' = In
    BY <1>2, SMTT(30) DEF StartRun, In, Typed, CallerPlaces
  <2> QED BY <1>2, <2>1, SMTT(30) DEF StartRun, Count, Typed, Turn, Slot, Crewed, Met, Crew, CallerPlaces, CrewPlaces
<1>3. ASSUME NEW c \in Callers, Fallback(c) PROVE Count'
  <2>1. In' = In
    BY <1>3, SMTT(30) DEF Fallback, In, Typed, CallerPlaces
  <2> QED BY <1>3, <2>1, SMTT(30) DEF Fallback, Count, Typed, Turn, Slot, Crewed, Met, Crew, CallerPlaces, CrewPlaces
<1>4. ASSUME NEW c \in Callers, Setup(c) PROVE Count'
  BY <1>4, SMTT(30) DEF Setup, Count, Typed, Turn, Slot, Crewed, Met, Crew, CallerPlaces, CrewPlaces
<1>5. ASSUME NEW c \in Callers, Bump(c) PROVE Count'
  <2>1. In' = {}
    BY <1>5, SMTT(30) DEF Bump, In, Typed, Turn, Slot, Met, CallerPlaces, CrewPlaces
  <2>2. Cardinality(In') = 0
    BY <2>1, FS_EmptySet
  <2> QED BY <1>5, <2>2 DEF Bump, Count, Typed, Turn, Slot, CallerPlaces, CrewPlaces
<1>6. ASSUME NEW c \in Callers, Unpark(c) PROVE Count'
  <2>1. In' = In
    BY <1>6, SMTT(30) DEF Unpark, In, Typed, Crewed, CallerPlaces, CrewPlaces
  <2> QED BY <1>6, <2>1, SMTT(30) DEF Unpark, Count, Typed, Turn, Slot, Crewed, Met, Crew, CallerPlaces, CrewPlaces
<1>7. ASSUME NEW c \in Callers, AllIn(c) PROVE Count'
  BY <1>7, SMTT(30) DEF AllIn, Count, Typed, Turn, Slot, Crewed, Met, Crew, CallerPlaces, CrewPlaces
<1>8. ASSUME NEW c \in Callers, Swap(c) PROVE Count'
  <2>1. In' = In
    BY <1>8, SMTT(30) DEF Swap, In, Typed, CallerPlaces
  <2> QED BY <1>8, <2>1, SMTT(30) DEF Swap, Count, Typed, Turn, Slot, Crewed, Met, Crew, CallerPlaces, CrewPlaces
<1>9. ASSUME NEW c \in Callers, Release(c) PROVE Count'
  <2>1. In' = In
    BY <1>9, SMTT(30) DEF Release, In, Typed, CallerPlaces
  <2> QED BY <1>9, <2>1, SMTT(30) DEF Release, Count, Typed, Turn, Slot, Crewed, Met, Crew, CallerPlaces, CrewPlaces
<1>10. ASSUME NEW c \in Callers, EndBurst(c) PROVE Count'
  <2>1. In' = In
    BY <1>10, SMTT(30) DEF EndBurst, In, Typed, CallerPlaces
  <2> QED BY <1>10, <2>1, SMTT(30) DEF EndBurst, Count, Typed, Turn, Slot, Crewed, Met, Crew, CallerPlaces, CrewPlaces
<1>11. ASSUME NEW w \in Crew, Start(w) PROVE Count'
  <2>1. In' = In
    BY <1>11, SMTT(30) DEF Start, In, Typed, Crewed, Met, CallerPlaces, CrewPlaces
  <2> QED BY <1>11, <2>1, SMTT(30) DEF Start, Count, Typed, Turn, Slot, Crewed, Met, Crew, CallerPlaces, CrewPlaces
<1>12. ASSUME NEW w \in Crew, JoinIn(w) PROVE Count'
  <2>1. CASE shutdown
    BY <1>12, <2>1, SMTT(30) DEF JoinIn, Count, Typed, Turn, Slot, Crew, CallerPlaces, CrewPlaces
  <2>2. CASE ~shutdown
    <3>1. at' = [at EXCEPT ![w] = "drain"] /\ seen' = [seen EXCEPT ![w] = seq] /\ seq # seen[w]
          /\ UNCHANGED <<job, done, seq>>
      BY <1>12, <2>2 DEF JoinIn
    <3>2. In' = In
      BY <3>1, SMTT(30) DEF In, Typed, CrewPlaces
    <3> QED BY <1>0, <3>1, <3>2, SMTT(30) DEF Count, Typed, Turn, Slot, Crew, CallerPlaces, CrewPlaces
  <2> QED BY <2>1, <2>2
<1>13. ASSUME NEW w \in Crew, Quit(w) PROVE Count'
  <2>1. In' = In
    BY <1>13, SMTT(30) DEF Quit, In, Typed, Crewed, CallerPlaces, CrewPlaces
  <2> QED BY <1>13, <2>1, SMTT(30) DEF Quit, Count, Typed, Turn, Slot, Crewed, Met, Crew, CallerPlaces, CrewPlaces
<1>14. ASSUME NEW w \in Crew, GiveUp(w) PROVE Count'
  <2>1. In' = In
    BY <1>14, SMTT(30) DEF GiveUp, In, Typed, Crewed, CallerPlaces, CrewPlaces
  <2> QED BY <1>14, <2>1, SMTT(30) DEF GiveUp, Count, Typed, Turn, Slot, Crewed, Met, Crew, CallerPlaces, CrewPlaces
<1>15. ASSUME NEW w \in Crew, RaiseFlag(w) PROVE Count'
  <2>1. In' = In
    BY <1>15, SMTT(30) DEF RaiseFlag, In, Typed, Crewed, CallerPlaces, CrewPlaces
  <2> QED BY <1>15, <2>1, SMTT(30) DEF RaiseFlag, Count, Typed, Turn, Slot, Crewed, Met, Crew, CallerPlaces, CrewPlaces
<1>16. ASSUME NEW w \in Crew, Recheck(w) PROVE Count'
  <2>1. In' = In
    BY <1>16, SMTT(30) DEF Recheck, In, Typed, Crewed, CallerPlaces, CrewPlaces
  <2>2. \A c \in Callers : at'[c] = at[c]
    <3>1. at' = [at EXCEPT ![w] = "spin"] \/ at' = [at EXCEPT ![w] = "park"]
      BY <1>16 DEF Recheck
    <3> QED BY <1>d, <3>1, SMTT(30) DEF Typed
  <2>3. job' = job /\ done' = done
    BY <1>16 DEF Recheck
  <2> QED BY <2>1, <2>2, <2>3, SMTT(30) DEF Count, Typed
<1>17. ASSUME NEW w \in Crew, Wake(w) PROVE Count'
  <2>1. In' = In
    BY <1>17, SMTT(30) DEF Wake, In, Typed, Crewed, CallerPlaces, CrewPlaces
  <2> QED BY <1>17, <2>1, SMTT(30) DEF Wake, Count, Typed, Turn, Slot, Crewed, Met, Crew, CallerPlaces, CrewPlaces
<1>18. ASSUME NEW w \in Crew, SpuriousWake(w) PROVE Count'
  <2>1. In' = In
    BY <1>18, SMTT(30) DEF SpuriousWake, In, Typed, Crewed, CallerPlaces, CrewPlaces
  <2> QED BY <1>18, <2>1, SMTT(30) DEF SpuriousWake, Count, Typed, Turn, Slot, Crewed, Met, Crew, CallerPlaces, CrewPlaces
<1>19. ASSUME NEW w \in Crew, LowerFlag(w) PROVE Count'
  <2>1. In' = In
    BY <1>19, SMTT(30) DEF LowerFlag, In, Typed, Crewed, CallerPlaces, CrewPlaces
  <2> QED BY <1>19, <2>1, SMTT(30) DEF LowerFlag, Count, Typed, Turn, Slot, Crewed, Met, Crew, CallerPlaces, CrewPlaces
<1>20. ASSUME NEW w \in Crew, CheckIn(w) PROVE Count'
  <2>1. w \notin In /\ In' = In \cup {w}
    BY <1>20, SMTT(30) DEF CheckIn, In, Typed, Crewed, CrewPlaces
  <2>2. IsFiniteSet(In)
    BY <1>0, FS_Subset DEF In
  <2>3. Cardinality(In') = Cardinality(In) + 1
    BY <2>1, <2>2, FS_AddElement
  <2> QED BY <1>20, <2>3, SMTT(30) DEF CheckIn, Count, Typed, Turn, Slot, Crewed, Met, Crew, CallerPlaces, CrewPlaces
<1>21. ASSUME NEW p \in Threads, Draw(p) PROVE Count'
  <2>1. In' = In
    BY <1>21, SMTT(30) DEF Draw, In, Typed, Crewed, CallerPlaces, CrewPlaces
  <2>2. \A c \in Callers : at'[c] = at[c] \/ (at[c] = "drain" /\ at'[c] \in Live)
    <3>1. /\ at[p] = "drain"
          /\ \/ at' = [at EXCEPT ![p] = "task"] \/ at' = [at EXCEPT ![p] = "wait"]
             \/ p \in Crew /\ at' = [at EXCEPT ![p] = "checkin"]
      BY <1>21 DEF Draw
    <3>2. \A c \in Callers : c # p => at'[c] = at[c]
      BY <3>1 DEF Typed
    <3>3. p \in Callers => at'[p] \in Live
      BY <1>d, <3>1 DEF Typed
    <3>4. at[p] = "drain"
      BY <3>1
    <3> QED BY <3>2, <3>3, <3>4
  <2>3. job' = job /\ done' = done
    BY <1>21 DEF Draw
  <2> QED BY <2>1, <2>2, <2>3, SMTT(30) DEF Count, Typed
<1>22. ASSUME NEW p \in Threads, Execute(p) PROVE Count'
  <2>1. In' = In
    BY <1>22, SMTT(30) DEF Execute, In, Typed, Crewed, CallerPlaces, CrewPlaces
  <2> QED BY <1>22, <2>1, SMTT(30) DEF Execute, Count, Typed, Turn, Slot, Crewed, Met, Crew, CallerPlaces, CrewPlaces
<1>23. ASSUME Drop PROVE Count'
  <2>1. In' = In
    BY <1>23, SMTT(30) DEF Drop, In, Typed, CallerPlaces
  <2> QED BY <1>23, <2>1, SMTT(30) DEF Drop, Count, Typed, Turn, Slot, Crewed, Met, Crew, CallerPlaces, CrewPlaces
<1>24. ASSUME DropBump PROVE Count'
  BY <1>24, SMTT(30) DEF DropBump, Count, Typed, Turn, Slot, Crewed, Met, Crew, CallerPlaces, CrewPlaces
<1>25. ASSUME DropUnpark PROVE Count'
  <2>1. In' = In
    BY <1>25, SMTT(30) DEF DropUnpark, In, Typed, Crewed, CallerPlaces, CrewPlaces
  <2> QED BY <1>25, <2>1, SMTT(30) DEF DropUnpark, Count, Typed, Turn, Slot, Crewed, Met, Crew, CallerPlaces, CrewPlaces
<1>26. ASSUME Joined PROVE Count'
  <2>1. In' = In
    BY <1>26, SMTT(30) DEF Joined, In, Typed, Crewed, CallerPlaces, CrewPlaces
  <2> QED BY <1>26, <2>1, SMTT(30) DEF Joined, Count, Typed, Turn, Slot, Crewed, Met, Crew, CallerPlaces, CrewPlaces
<1>27. CASE UNCHANGED vars
  BY <1>27 DEF vars, Count, In
<1> QED BY <1>1, <1>2, <1>3, <1>4, <1>5, <1>6, <1>7, <1>8, <1>9, <1>10, <1>11, <1>12, <1>13, <1>14, <1>15, <1>16, <1>17, <1>18, <1>19, <1>20, <1>21, <1>22, <1>23, <1>24, <1>25, <1>26, <1>27 DEF Next, CallerStep, CrewStep, DropStep

LEMMA PoolInvariant == Spec => []PoolInv
<1>1. PoolInv /\ [Next]_vars => PoolInv'
  BY PoolStepRest, PoolStepCount DEF PoolInv, RestInv
<1> QED BY PoolInitInv, <1>1, PTL DEF Spec

-----------------------------------------------------------------------------

\* For every pool: a worker in the task loop holds the closure of a run that
\* has been published and cannot return (Shared::job, pool.rs).
THEOREM NoStaleJobEver == Spec => []NoStaleJob
<1>1. PoolInv => NoStaleJob
  BY DEF PoolInv, Crewed, NoStaleJob, Published, Live, Busy
<1> QED BY <1>1, PoolInvariant, PTL

\* For every pool: a run panics exactly when one of its own tasks did
\* (backlog B25, pool.rs).
THEOREM EveryVerdictIsOwn == Spec => []VerdictIsOwn
<1>1. PoolInv => VerdictIsOwn
  BY DEF PoolInv, Blame
<1> QED BY <1>1, PoolInvariant, PTL

-----------------------------------------------------------------------------
(* The pool implements ForkJoin.                                           *)

Todo == cursor..(nTasks - 1)
InHand == {hold[p] : p \in Threads} \ {None}
JoinVars == <<job # None, Todo, InHand>>

LEMMA TodoFacts ==
    ASSUME NEW i \in Nat, NEW n \in Nat
    PROVE  /\ i < n => i \in i..(n - 1) /\ (i + 1)..(n - 1) = (i..(n - 1)) \ {i}
           /\ i >= n => i..(n - 1) = {} /\ (i + 1)..(n - 1) = {}
BY SMT

\* Only Setup, Draw, Execute and AllIn show.
LEMMA JoinStutter ==
    UNCHANGED <<job, cursor, nTasks, hold>> => UNCHANGED JoinVars
BY DEF JoinVars, Todo, InHand

LEMMA JoinStep == PoolInv /\ PoolInv' /\ [Next]_vars => [Join!JoinNext]_JoinVars
<1> SUFFICES ASSUME PoolInv, PoolInv', [Next]_vars PROVE [Join!JoinNext]_JoinVars
  OBVIOUS
<1> USE PoolAssumption
<1>0. Crew \cap Callers = {}
  BY DEF Crew
<1>1. ASSUME NEW c \in Callers, Setup(c) PROVE Join!Begin
  <2>1. job = None /\ job' # None
    BY <1>1 DEF Setup, PoolInv, Typed, Turn, Slot, Owning, Live
  <2>2. PICK n \in 1..Width : nTasks' = n /\ cursor' = 0
    BY <1>1 DEF Setup, Width
  <2>3. Todo' = 0..(n - 1)
    BY <2>2 DEF Todo
  <2>4. \A p \in Threads : hold[p] = None
    BY <1>1, <2>1, <1>0 DEF Setup, PoolInv, Held, Crewed, Typed, Turn, Slot, Owning, Live, Busy,
       Published, Threads
  <2>5. InHand = {} /\ InHand' = {}
    BY <1>1, <2>4 DEF Setup, InHand
  <2> QED BY <2>1, <2>3, <2>5 DEF Join!Begin, Todo, InHand
<1>2. ASSUME NEW p \in Threads, Draw(p) PROVE Join!Take \/ UNCHANGED JoinVars
  <2>1. job # None /\ job' = job
    BY <1>2, <1>0 DEF Draw, PoolInv, Typed, Slot, Crewed, Published, Busy, Live, Threads
  <2>2. cursor \in Nat /\ nTasks \in Nat /\ cursor' = cursor + 1 /\ nTasks' = nTasks
    BY <1>2 DEF Draw, PoolInv, Typed
  <2>3. CASE cursor < nTasks
    <3>1. cursor \in Todo /\ Todo' = Todo \ {cursor}
      BY <2>2, <2>3, TodoFacts DEF Todo
    <3>2. hold' = [hold EXCEPT ![p] = cursor] /\ hold[p] = None /\ hold \in [Threads -> Nat \cup {None}]
      BY <1>2, <2>3 DEF Draw, PoolInv, Held, Typed
    <3>3. InHand' = InHand \cup {cursor}
      BY <2>2, <3>2 DEF InHand
    <3> QED BY <2>1, <3>1, <3>3 DEF Join!Take, Todo, InHand
  <2>4. CASE ~(cursor < nTasks)
    <3>1. Todo' = Todo
      BY <2>2, <2>4, TodoFacts DEF Todo
    <3>2. InHand' = InHand
      BY <1>2, <2>4 DEF Draw, InHand
    <3> QED BY <2>1, <3>1, <3>2 DEF JoinVars
  <2> QED BY <2>3, <2>4
<1>3. ASSUME NEW p \in Threads, Execute(p) PROVE Join!Finish
  <2>1. job # None /\ job' = job /\ Todo' = Todo
    BY <1>3, <1>0 DEF Execute, PoolInv, Typed, Slot, Crewed, Published, Busy, Live, Threads, Todo
  <2>2. /\ hold' = [hold EXCEPT ![p] = None] /\ hold[p] # None /\ hold[p] \in Nat
        /\ hold \in [Threads -> Nat \cup {None}]
        /\ \A q \in Threads : hold[q] = hold[p] => q = p
    BY <1>3 DEF Execute, PoolInv, Held, Typed
  <2>3. hold[p] \in InHand /\ InHand' = InHand \ {hold[p]}
    BY <2>2 DEF InHand
  <2> QED BY <2>1, <2>3 DEF Join!Finish, Todo, InHand
<1>4. ASSUME NEW c \in Callers, AllIn(c) PROVE Join!Return
  <2>1. job = c /\ job' = None /\ UNCHANGED <<cursor, nTasks, hold>>
    BY <1>4 DEF AllIn, PoolInv, Slot, Live
  <2>2. Published /\ done >= Workers
    BY <1>4, <2>1 DEF AllIn, Published, Live
  <2>3. \A w \in Crew : at[w] \notin Busy
    BY <2>2, AllChecked DEF In
  <2>4. \A p \in Threads : at[p] # "task"
    BY <1>4, <2>3 DEF AllIn, Threads, Busy, PoolInv, Turn, Owning
  <2>5. InHand = {}
    BY <2>4 DEF PoolInv, Held, InHand
  <2>6. Todo = {}
    BY <1>4, TodoFacts DEF AllIn, PoolInv, Held, Typed, Todo
  <2> QED BY <2>1, <2>5, <2>6 DEF Join!Return, Todo, InHand
<1>5. ASSUME NEW c \in Callers, StartBurst(c) \/ StartRun(c) \/ Fallback(c) PROVE UNCHANGED JoinVars
  BY <1>5, JoinStutter DEF StartBurst, StartRun, Fallback, jobVars
<1>6. ASSUME NEW c \in Callers, Bump(c) \/ Unpark(c) \/ Swap(c) \/ Release(c) \/ EndBurst(c) PROVE UNCHANGED JoinVars
  BY <1>6, JoinStutter DEF Bump, Unpark, Swap, Release, EndBurst, jobVars
<1>7. ASSUME NEW w \in Crew, CrewStep(w) \/ GiveUp(w) \/ SpuriousWake(w) PROVE UNCHANGED JoinVars
  BY <1>7, JoinStutter DEF CrewStep, GiveUp, SpuriousWake, Start, JoinIn, Quit, RaiseFlag, Recheck,
     Wake, LowerFlag, CheckIn, jobVars
<1>8. ASSUME Drop \/ DropStep PROVE UNCHANGED JoinVars
  BY <1>8, JoinStutter DEF Drop, DropStep, DropBump, DropUnpark, Joined, jobVars
<1>9. CASE UNCHANGED vars
  BY <1>9, JoinStutter DEF vars, jobVars
<1> QED BY <1>1, <1>2, <1>3, <1>4, <1>5, <1>6, <1>7, <1>8, <1>9
     DEF Next, CallerStep, Join!JoinNext

\* For every pool: each index of a run is handed out once, and run returns
\* only when all of them have finished.
THEOREM PoolRunsOnce == Spec => RunsOnce
<1>1. Init => Join!JoinInit
  BY PoolAssumption DEF Init, Join!JoinInit
<1>2. PoolInv /\ PoolInv' /\ [Next]_vars =>
        [Join!JoinNext]_<<job # None, cursor..(nTasks - 1), {hold[p] : p \in Threads} \ {None}>>
  BY JoinStep DEF JoinVars, Todo, InHand
<1> QED BY PoolInvariant, <1>1, <1>2, PTL DEF Spec, RunsOnce, Join!JoinSpec

-----------------------------------------------------------------------------
(* Type correctness, and the parking of a burst.                           *)

\* The flags, the counters and who may be in a burst.
Flags ==
    /\ parked \in [Crew -> BOOLEAN] /\ budget \in [Crew -> BOOLEAN]
    /\ sleeping \in [Crew -> BOOLEAN] /\ token \in [Crew -> BOOLEAN]
    /\ inRun \in BOOLEAN /\ forcePark \in BOOLEAN /\ shutdown \in BOOLEAN
    /\ wake \in Crew /\ burst \subseteq Callers /\ IsFiniteSet(burst)

\* A run is begun, and the pool dropped, only below the bound on generations.
Bounds ==
    /\ nTasks <= Width /\ done <= Workers
    /\ \A c \in Callers : at[c] \in {"setup", "bump"} => seq < MaxRuns
    /\ seq <= MaxRuns + 1
    /\ dropping \in {"no", "bump"} => seq <= MaxRuns

\* in_run is not left latched.
Latched == inRun => \E c \in Callers : at[c] \in Owning

\* While a burst is the only one and its request stands, every worker that
\* joined its generation has read the request.
Forced ==
    Published /\ burst = {job} /\ forcePark => \A w \in Crew : seen[w] = seq => ~budget[w]

MoreInv == Flags /\ Bounds /\ Latched /\ Forced

\* Before the first run.
LEMMA MoreInit == Init => MoreInv
<1> SUFFICES ASSUME Init PROVE MoreInv
  OBVIOUS
<1>0. IsFiniteSet({})
  BY FS_EmptySet
<1>1. Flags
  <2>1. 1 \in Crew
    BY PoolAssumption DEF Crew
  <2>2. /\ parked \in [Crew -> BOOLEAN] /\ budget \in [Crew -> BOOLEAN]
        /\ sleeping \in [Crew -> BOOLEAN] /\ token \in [Crew -> BOOLEAN]
    BY DEF Init
  <2> QED
    BY <1>0, <2>1, <2>2 DEF Init, Flags
<1>2. Bounds
  <2>1. \A c \in Callers : at[c] = "idle"
    <3>1. \A c \in Callers : c \in Threads /\ c \notin Crew
      BY PoolAssumption DEF Threads, Crew
    <3> QED
      BY <3>1 DEF Init
  <2> QED
    BY <2>1, PoolAssumption DEF Init, Bounds, Width
<1>3. Latched /\ Forced
  BY DEF Init, Latched, Forced, Published
<1> QED BY <1>1, <1>2, <1>3 DEF MoreInv

\* A single caller in a burst is the whole set.
LEMMA AloneInBurst ==
  ASSUME Flags, NEW c \in burst, Cardinality(burst) = 1
  PROVE  burst = {c}
BY FS_Singleton DEF Flags

\* The flags keep their types.
LEMMA FlagsStep == PoolInv /\ Flags /\ [Next]_vars => Flags'
<1> SUFFICES ASSUME PoolInv, Flags, [Next]_vars PROVE Flags'
  OBVIOUS
<1> USE DEF crewVars, gate, jobVars, flags, callVars
<1>0. Workers \in Nat \ {0} /\ Bursters \subseteq Callers
  BY PoolAssumption
<1>1. IsFiniteSet(burst) /\ \A S : S \subseteq burst => IsFiniteSet(S)
  BY FS_Subset DEF Flags
<1>2. \A c : IsFiniteSet(burst \cup {c})
  BY <1>1, FS_AddElement
<1>3. \A w \in Crew : w # Workers => w + 1 \in Crew
  BY <1>0 DEF Crew
<1>4. 1 \in Crew
  BY <1>0 DEF Crew
<1>5. ASSUME NEW c \in Callers, StartBurst(c) PROVE Flags'
  BY <1>0, <1>2, <1>5 DEF StartBurst, Flags
<1>6. ASSUME NEW c \in Callers, StartRun(c) \/ Fallback(c) \/ Setup(c) \/ Bump(c) \/ AllIn(c) \/ Swap(c)
      PROVE  Flags'
  BY <1>6 DEF StartRun, Fallback, Setup, Bump, AllIn, Swap, Flags
<1>7. ASSUME NEW c \in Callers, Unpark(c) PROVE Flags'
  BY <1>3, <1>4, <1>7 DEF Unpark, Flags
<1>8. ASSUME NEW c \in Callers, Release(c) \/ EndBurst(c) PROVE Flags'
  BY <1>1, <1>8 DEF Release, EndBurst, Flags
<1>9. ASSUME NEW w \in Crew, CrewStep(w) \/ GiveUp(w) \/ SpuriousWake(w) PROVE Flags'
  BY <1>9 DEF CrewStep, GiveUp, SpuriousWake, Start, JoinIn, Quit, RaiseFlag, Recheck,
     Wake, LowerFlag, CheckIn, Flags
<1>10. ASSUME NEW p \in Threads, Draw(p) \/ Execute(p) PROVE Flags'
  BY <1>10 DEF Draw, Execute, Flags
<1>11. ASSUME Drop \/ DropStep PROVE Flags'
  BY <1>3, <1>4, <1>11 DEF Drop, DropStep, DropBump, DropUnpark, Joined, Flags
<1>12. CASE UNCHANGED vars
  BY <1>12 DEF vars, Flags
<1> QED BY <1>5, <1>6, <1>7, <1>8, <1>9, <1>10, <1>11, <1>12 DEF Next, CallerStep

\* The counters stay within their bounds.
LEMMA BoundsStep == PoolInv /\ PoolInv' /\ Bounds /\ [Next]_vars => Bounds'
<1> SUFFICES ASSUME PoolInv, PoolInv', Bounds, [Next]_vars PROVE Bounds'
  OBVIOUS
<1> USE DEF Goto, crewVars, gate, jobVars, flags, callVars
<1>0. /\ Workers \in Nat \ {0} /\ MaxTasks \in Nat /\ MaxRuns \in Nat
      /\ Crew \cap Callers = {} /\ Threads = Crew \cup Callers
  BY PoolAssumption DEF Crew, Threads
<1>1. /\ at \in [Threads -> CallerPlaces \cup CrewPlaces] /\ nTasks \in Nat /\ done \in Nat
      /\ seq \in Nat /\ at' \in [Threads -> CallerPlaces \cup CrewPlaces]
  BY DEF PoolInv, Typed
\* A step of a worker or of the task loop moves nobody to "setup" or "bump".
<1>2. ASSUME seq' = seq, dropping' = dropping, nTasks' = nTasks, done' <= Workers,
             \A c \in Callers : at'[c] \in {"setup", "bump"} => at[c] \in {"setup", "bump"}
      PROVE  Bounds'
  BY <1>2 DEF Bounds
<1>3. ASSUME done' = done PROVE done' <= Workers
  BY <1>3 DEF Bounds
<1>4. ASSUME NEW p \in Threads, NEW place, at' = [at EXCEPT ![p] = place], place \notin {"setup", "bump"}
      PROVE  \A c \in Callers : at'[c] \in {"setup", "bump"} => at[c] \in {"setup", "bump"}
  BY <1>0, <1>1, <1>4
<1>5. ASSUME NEW c \in Callers, StartBurst(c) PROVE Bounds'
  BY <1>2, <1>3, <1>5 DEF StartBurst
<1>6. ASSUME NEW c \in Callers, StartRun(c) PROVE Bounds'
  BY <1>0, <1>1, <1>6 DEF StartRun, Bounds
<1>7. ASSUME NEW c \in Callers, Fallback(c) \/ EndBurst(c) \/ AllIn(c) \/ Swap(c) PROVE Bounds'
  <2>1. \E place : at' = [at EXCEPT ![c] = place] /\ place \notin {"setup", "bump"}
    BY <1>7 DEF Fallback, EndBurst, AllIn, Swap
  <2>2. /\ seq' = seq /\ dropping' = dropping /\ nTasks' = nTasks /\ done' = done
    BY <1>7 DEF Fallback, EndBurst, AllIn, Swap
  <2> QED
    BY <1>0, <1>2, <1>3, <1>4, <2>1, <2>2
<1>8. ASSUME NEW c \in Callers, Setup(c) PROVE Bounds'
  <2>1. at' = [at EXCEPT ![c] = "bump"] /\ at[c] = "setup" /\ seq' = seq /\ dropping' = dropping /\ done' = 0
    BY <1>8 DEF Setup
  <2>2. nTasks' <= Width
    BY <1>0, <1>8 DEF Setup, Width
  <2> QED
    BY <1>0, <1>1, <2>1, <2>2 DEF Bounds
<1>9. ASSUME NEW c \in Callers, Bump(c) PROVE Bounds'
  <2>1. /\ at' = [at EXCEPT ![c] = "wake"] /\ at[c] = "bump" /\ seq' = seq + 1
        /\ UNCHANGED <<dropping, done, nTasks>>
    BY <1>9 DEF Bump
  <2>2. \A d \in Callers : d # c => at'[d] \notin {"setup", "bump"}
    BY <1>0, <1>1, <2>1 DEF PoolInv, Turn, Owning
  <2>3. at'[c] = "wake"
    BY <1>0, <1>1, <2>1
  <2>4. \A d \in Callers : at'[d] \notin {"setup", "bump"}
    BY <2>2, <2>3
  <2>5. seq < MaxRuns
    BY <2>1 DEF Bounds
  <2> QED
    BY <1>0, <1>1, <2>1, <2>4, <2>5 DEF Bounds
<1>10. ASSUME NEW c \in Callers, Unpark(c) \/ Release(c) PROVE Bounds'
  <2>1. \E place : at' = [at EXCEPT ![c] = place] /\ place \notin {"setup", "bump"}
    BY <1>10 DEF Unpark, Release
  <2>2. /\ seq' = seq /\ dropping' = dropping /\ nTasks' = nTasks /\ done' = done
    BY <1>10 DEF Unpark, Release
  <2> QED
    BY <1>0, <1>2, <1>3, <1>4, <2>1, <2>2
<1>11. ASSUME NEW w \in Crew, CrewStep(w) \/ GiveUp(w) \/ SpuriousWake(w) PROVE Bounds'
  <2>1. \E place : at' = [at EXCEPT ![w] = place] /\ place \notin {"setup", "bump"}
    BY <1>11 DEF CrewStep, GiveUp, SpuriousWake, Start, JoinIn, Quit, RaiseFlag, Recheck,
       Wake, LowerFlag, CheckIn
  <2>2. seq' = seq /\ dropping' = dropping /\ nTasks' = nTasks /\ job' = job /\ (done' = done \/ CheckIn(w))
    BY <1>11 DEF CrewStep, GiveUp, SpuriousWake, Start, JoinIn, Quit, RaiseFlag, Recheck,
       Wake, LowerFlag, CheckIn
  <2>3. ASSUME CheckIn(w) PROVE done' <= Workers
    <3>1. Published'
      <4>1. at[w] = "checkin" /\ at' = [at EXCEPT ![w] = "spin"] /\ job' = job
        BY <2>3 DEF CheckIn
      <4>2. Published
        BY <4>1 DEF PoolInv, Crewed, Busy
      <4>3. job \in Callers
        BY <4>2 DEF PoolInv, Typed, Published
      <4> QED
        BY <1>0, <1>1, <4>1, <4>2, <4>3 DEF Published
    <3>2. done' = Cardinality(In)'
      BY <3>1 DEF PoolInv, Count
    <3>3. IsFiniteSet(Crew) /\ Cardinality(Crew) = Workers
      BY <1>0, FS_Interval DEF Crew
    <3>4. In' \subseteq Crew
      BY DEF In
    <3> QED
      BY <3>2, <3>3, <3>4, FS_Subset
  <2>4. done' <= Workers
    BY <1>3, <2>2, <2>3
  <2>5. \A c \in Callers : at'[c] \in {"setup", "bump"} => at[c] \in {"setup", "bump"}
    BY <1>0, <1>4, <2>1
  <2> QED
    BY <1>2, <2>2, <2>4, <2>5
<1>12. ASSUME NEW p \in Threads, Draw(p) \/ Execute(p) PROVE Bounds'
  <2>1. \E place : at' = [at EXCEPT ![p] = place] /\ place \notin {"setup", "bump"}
    BY <1>12 DEF Draw, Execute
  <2>2. /\ seq' = seq /\ dropping' = dropping /\ nTasks' = nTasks /\ done' = done
    BY <1>12 DEF Draw, Execute
  <2> QED
    BY <1>2, <1>3, <1>4, <2>1, <2>2
<1>13. ASSUME Drop \/ DropUnpark \/ Joined PROVE Bounds'
  <2>1. at' = at /\ seq' = seq /\ nTasks' = nTasks /\ done' = done
        /\ (dropping' \in {"no", "bump"} => dropping \in {"no", "bump"})
    BY <1>13 DEF Drop, DropUnpark, Joined
  <2> QED
    BY <2>1 DEF Bounds
<1>14. ASSUME DropBump PROVE Bounds'
  <2>1. /\ at' = at /\ seq' = seq + 1 /\ nTasks' = nTasks /\ done' = done
        /\ dropping = "bump" /\ dropping' = "unpark"
    BY <1>14 DEF DropBump
  <2>2. \A c \in Callers : at[c] \notin Owning
    BY <2>1 DEF PoolInv, Turn
  <2> QED
    BY <1>0, <1>1, <2>1, <2>2 DEF Bounds, Owning
<1>15. CASE UNCHANGED vars
  BY <1>15 DEF vars, Bounds
<1> QED BY <1>5, <1>6, <1>7, <1>8, <1>9, <1>10, <1>11, <1>12, <1>13, <1>14, <1>15
     DEF Next, CallerStep, DropStep

\* in_run goes up and down with the ownership of the slot.
LEMMA LatchedStep == PoolInv /\ Latched /\ [Next]_vars => Latched'
<1> SUFFICES ASSUME PoolInv, Latched, [Next]_vars PROVE Latched'
  OBVIOUS
<1> USE DEF Goto, crewVars, gate, jobVars, flags, callVars
<1>0. Crew \cap Callers = {} /\ Threads = Crew \cup Callers
  BY PoolAssumption DEF Crew, Threads
<1>1. at \in [Threads -> CallerPlaces \cup CrewPlaces]
  BY DEF PoolInv, Typed
<1>2. ASSUME inRun' = inRun, \A c \in Callers : at[c] \in Owning => at'[c] \in Owning
      PROVE  Latched'
  BY <1>2 DEF Latched
<1>3. ASSUME NEW p \in Threads, NEW place, at' = [at EXCEPT ![p] = place], inRun' = inRun,
             p \in Crew \/ at[p] \notin Owning \/ place \in Owning
      PROVE  Latched'
  <2>1. \A c \in Callers : at[c] \in Owning => at'[c] \in Owning
    BY <1>0, <1>1, <1>3
  <2> QED
    BY <1>2, <1>3, <2>1
<1>4. ASSUME NEW c \in Callers, StartRun(c) PROVE Latched'
  BY <1>0, <1>1, <1>4 DEF StartRun, Latched, Owning
<1>5. ASSUME NEW c \in Callers, Release(c) PROVE Latched'
  BY <1>5 DEF Release, Latched
<1>6. ASSUME NEW c \in Callers, StartBurst(c) PROVE Latched'
  BY <1>2, <1>6 DEF StartBurst
<1>7. ASSUME NEW c \in Callers, Fallback(c) \/ EndBurst(c) PROVE Latched'
  <2>1. \E place : at' = [at EXCEPT ![c] = place]
    BY <1>7 DEF Fallback, EndBurst
  <2>2. inRun' = inRun /\ at[c] \notin Owning
    BY <1>7 DEF Fallback, EndBurst, Owning
  <2> QED
    BY <1>0, <1>3, <2>1, <2>2
<1>8. ASSUME NEW c \in Callers, Setup(c) \/ Bump(c) \/ Unpark(c) \/ AllIn(c) \/ Swap(c) PROVE Latched'
  <2>1. \E place \in Owning : at' = [at EXCEPT ![c] = place]
    BY <1>8 DEF Setup, Bump, Unpark, AllIn, Swap, Owning
  <2>2. inRun' = inRun
    BY <1>8 DEF Setup, Bump, Unpark, AllIn, Swap
  <2> QED
    BY <1>0, <1>3, <2>1, <2>2
<1>9. ASSUME NEW w \in Crew, CrewStep(w) \/ GiveUp(w) \/ SpuriousWake(w) PROVE Latched'
  <2>1. \E place : at' = [at EXCEPT ![w] = place]
    BY <1>9 DEF CrewStep, GiveUp, SpuriousWake, Start, JoinIn, Quit, RaiseFlag, Recheck,
       Wake, LowerFlag, CheckIn
  <2>2. inRun' = inRun
    BY <1>9 DEF CrewStep, GiveUp, SpuriousWake, Start, JoinIn, Quit, RaiseFlag, Recheck,
       Wake, LowerFlag, CheckIn
  <2> QED
    BY <1>0, <1>3, <2>1, <2>2
<1>10. ASSUME NEW p \in Threads, Draw(p) \/ Execute(p) PROVE Latched'
  <2>1. \E place : /\ at' = [at EXCEPT ![p] = place]
                   /\ p \in Crew \/ place \in Owning
    BY <1>10 DEF Draw, Execute, Owning
  <2>2. inRun' = inRun
    BY <1>10 DEF Draw, Execute
  <2> QED
    BY <1>3, <2>1, <2>2
<1>11. ASSUME Drop \/ DropStep PROVE Latched'
  BY <1>2, <1>11 DEF Drop, DropStep, DropBump, DropUnpark, Joined
<1>12. CASE UNCHANGED vars
  BY <1>12 DEF vars, Latched
<1> QED BY <1>4, <1>5, <1>6, <1>7, <1>8, <1>9, <1>10, <1>11, <1>12 DEF Next, CallerStep

\* A worker that joins while the request stands has no budget left; whoever
\* ends another burst takes the request back.
LEMMA ForcedStep == PoolInv /\ Flags /\ Forced /\ [Next]_vars => Forced'
<1> SUFFICES ASSUME PoolInv, Flags, Forced, [Next]_vars PROVE Forced'
  OBVIOUS
<1> USE DEF Goto, crewVars, gate, jobVars, flags, callVars
<1>0. Crew \cap Callers = {} /\ Threads = Crew \cup Callers
  BY PoolAssumption DEF Crew, Threads
<1>1. /\ at \in [Threads -> CallerPlaces \cup CrewPlaces] /\ seen \in [Crew -> Nat] /\ seq \in Nat
      /\ budget \in [Crew -> BOOLEAN] /\ forcePark \in BOOLEAN /\ job \in Callers \cup {None}
      /\ None \notin Callers /\ burst \subseteq Callers
  BY PoolAssumption DEF PoolInv, Typed, Flags
\* Nothing that Forced looks at moves, except that a run may stop being published.
<1>2. ASSUME UNCHANGED <<seen, seq, budget, forcePark, burst>>, Published' => Published /\ job' = job
      PROVE  Forced'
  BY <1>2 DEF Forced
\* Callers and workers move inside the published stages, or out of them.
<1>3. ASSUME NEW p \in Threads, NEW place, at' = [at EXCEPT ![p] = place], job' = job,
             p \in Crew \/ at[p] \in Live \/ place \notin Live
      PROVE  Published' => Published /\ job' = job
  <2>1. \A c \in Callers : at'[c] \in Live => at[c] \in Live
    BY <1>0, <1>1, <1>3
  <2> QED
    BY <1>1, <1>3, <2>1 DEF Published
<1>4. ASSUME NEW c \in Callers, StartBurst(c) PROVE Forced'
  <2>1. /\ c \in burst' /\ c \notin burst /\ burst \subseteq burst' /\ at[c] = "idle"
        /\ UNCHANGED <<at, job, seen, seq, budget>>
    BY <1>4 DEF StartBurst
  <2>2. Published' => job # c
    BY <2>1 DEF Published, Live
  <2>3. Published' => burst' # {job'}
    BY <2>1, <2>2
  <2> QED
    BY <2>3 DEF Forced
<1>5. ASSUME NEW c \in Callers, StartRun(c) \/ Fallback(c) PROVE Forced'
  <2>0. "setup" \notin Live /\ "unforce" \notin Live /\ "idle" \notin Live
    BY DEF Live
  <2>1. UNCHANGED <<seen, seq, budget, forcePark, burst, job>>
    BY <1>5 DEF StartRun, Fallback
  <2>2. ASSUME NEW place, at' = [at EXCEPT ![c] = place], place \notin Live PROVE Forced'
    BY <1>0, <1>2, <1>3, <2>1, <2>2
  <2>3. CASE StartRun(c)
    <3>1. at' = [at EXCEPT ![c] = "setup"]
      BY <2>3 DEF StartRun
    <3> QED
      BY <2>0, <2>2, <3>1
  <2>4. CASE Fallback(c)
    <3>1. at' = [at EXCEPT ![c] = "unforce"] \/ at' = [at EXCEPT ![c] = "idle"]
      BY <2>4 DEF Fallback
    <3> QED
      BY <2>0, <2>2, <3>1
  <2> QED
    BY <1>5, <2>3, <2>4
<1>6. ASSUME NEW c \in Callers, Setup(c) PROVE Forced'
  <2>1. ~Published'
    BY <1>0, <1>1, <1>6 DEF Setup, Published, Live
  <2> QED
    BY <2>1 DEF Forced
<1>7. ASSUME NEW c \in Callers, Bump(c) PROVE Forced'
  <2>1. seq' = seq + 1 /\ seen' = seen
    BY <1>7 DEF Bump
  <2>2. \A w \in Crew : seen[w] <= seq
    BY DEF PoolInv, Met
  <2>3. \A w \in Crew : seen'[w] # seq'
    BY <1>1, <2>1, <2>2
  <2> QED
    BY <2>3 DEF Forced
<1>8. ASSUME NEW c \in Callers, Unpark(c) PROVE Forced'
  <2>1. at[c] \in Live /\ \E place : at' = [at EXCEPT ![c] = place]
    BY <1>8 DEF Unpark, Live
  <2>2. UNCHANGED <<seen, seq, budget, forcePark, burst, job>>
    BY <1>8 DEF Unpark
  <2> QED
    BY <1>0, <1>2, <1>3, <2>1, <2>2
<1>9. ASSUME NEW c \in Callers, AllIn(c) PROVE Forced'
  BY <1>9 DEF AllIn, Forced, Published
<1>10. ASSUME NEW c \in Callers, Swap(c) PROVE Forced'
  <2>1. at' = [at EXCEPT ![c] = "release"] /\ "release" \notin Live
    BY <1>10 DEF Swap, Live
  <2>2. UNCHANGED <<seen, seq, budget, forcePark, burst, job>>
    BY <1>10 DEF Swap
  <2> QED
    BY <1>0, <1>2, <1>3, <2>1, <2>2
<1>11. ASSUME NEW c \in Callers, Release(c) PROVE Forced'
  <2>1. at[c] = "release" /\ job' = job /\ \E place \in {"unforce", "idle"} : at' = [at EXCEPT ![c] = place]
    BY <1>11 DEF Release
  <2>2. ~Published
    BY <2>1 DEF PoolInv, Turn, Typed, Published, Live, Owning
  <2>3. ~Published'
    BY <1>0, <1>1, <1>3, <2>1, <2>2 DEF Live
  <2> QED
    BY <2>3 DEF Forced
<1>12. ASSUME NEW c \in Callers, EndBurst(c) PROVE Forced'
  BY <1>12 DEF EndBurst, Forced
<1>13. ASSUME NEW w \in Crew, JoinIn(w) PROVE Forced'
  <2>1. /\ seen' = [seen EXCEPT ![w] = seq] /\ UNCHANGED <<seq, forcePark, burst, job>>
        /\ budget' = [budget EXCEPT ![w] = ~forcePark /\ (parked[w] \/ @)]
        /\ \E place : at' = [at EXCEPT ![w] = place]
    BY <1>13 DEF JoinIn
  <2>2. Published' => Published
    BY <1>0, <1>3, <2>1
  <2>3. \A v \in Crew : v # w => seen'[v] = seen[v] /\ budget'[v] = budget[v]
    BY <1>1, <2>1
  <2>4. forcePark => ~budget'[w]
    BY <1>1, <2>1
  <2> QED
    BY <2>1, <2>2, <2>3, <2>4 DEF Forced
<1>14. ASSUME NEW w \in Crew, CrewStep(w) \/ GiveUp(w) \/ SpuriousWake(w), ~JoinIn(w) PROVE Forced'
  <2>1. \E place : at' = [at EXCEPT ![w] = place]
    BY <1>14 DEF CrewStep, GiveUp, SpuriousWake, Start, Quit, RaiseFlag, Recheck,
       Wake, LowerFlag, CheckIn
  <2>2. UNCHANGED <<seq, budget, forcePark, burst, job>> /\ (seen' = seen \/ Start(w))
    BY <1>14 DEF CrewStep, GiveUp, SpuriousWake, Start, Quit, RaiseFlag, Recheck,
       Wake, LowerFlag, CheckIn
  <2>3. ASSUME Start(w) PROVE seen' = seen
    <3>1. seen[w] = 0 /\ seen' = [seen EXCEPT ![w] = 0]
      BY <2>3 DEF Start, PoolInv, Met
    <3> QED
      BY <1>1, <3>1
  <2> QED
    BY <1>0, <1>2, <1>3, <2>1, <2>2, <2>3
<1>15. ASSUME NEW p \in Threads, Draw(p) \/ Execute(p) PROVE Forced'
  <2>1. at[p] \in Live /\ \E place : at' = [at EXCEPT ![p] = place]
    BY <1>15 DEF Draw, Execute, Live
  <2>2. UNCHANGED <<seen, seq, budget, forcePark, burst, job>>
    BY <1>15 DEF Draw, Execute
  <2> QED
    BY <1>0, <1>2, <1>3, <2>1, <2>2
<1>16. ASSUME Drop \/ DropUnpark \/ Joined PROVE Forced'
  BY <1>16 DEF Drop, DropUnpark, Joined, Forced, Published
<1>17. ASSUME DropBump PROVE Forced'
  <2>1. seq' = seq + 1 /\ seen' = seen
    BY <1>17 DEF DropBump
  <2>2. \A w \in Crew : seen[w] <= seq
    BY DEF PoolInv, Met
  <2>3. \A w \in Crew : seen'[w] # seq'
    BY <1>1, <2>1, <2>2
  <2> QED
    BY <2>3 DEF Forced
<1>18. CASE UNCHANGED vars
  BY <1>18 DEF vars, Forced, Published
<1> QED BY <1>4, <1>5, <1>6, <1>7, <1>8, <1>9, <1>10, <1>11, <1>12, <1>13, <1>14, <1>15, <1>16,
     <1>17, <1>18 DEF Next, CallerStep, CrewStep, DropStep

\* Both invariants together.
LEMMA PoolAndMore == Spec => [](PoolInv /\ MoreInv)
<1>1. PoolInv /\ PoolInv' /\ MoreInv /\ [Next]_vars => MoreInv'
  BY FlagsStep, BoundsStep, LatchedStep, ForcedStep DEF MoreInv
<1> QED BY <1>1, MoreInit, PoolInvariant, PTL DEF Spec

\* The invariants imply the type invariant.
LEMMA PoolTyped ==
  ASSUME PoolInv, MoreInv
  PROVE  TypeOK
<1> USE DEF PoolInv, MoreInv
<1>0. /\ Workers \in Nat \ {0} /\ MaxTasks \in Nat /\ MaxRuns \in Nat
      /\ Crew \cap Callers = {} /\ Threads = Crew \cup Callers /\ Width \in Nat
  BY PoolAssumption DEF Crew, Threads, Width
<1>1. at \in [Threads -> Places]
  <2>1. CallerPlaces \cup CrewPlaces \subseteq Places
    BY DEF CallerPlaces, CrewPlaces, Places, Owning
  <2> QED
    BY <2>1 DEF Typed
<1>2. hold \in [Threads -> 0..(Width - 1) \cup {None}]
  <2>1. ASSUME NEW p \in Threads PROVE hold[p] \in 0..(Width - 1) \cup {None}
    BY <1>0 DEF Typed, Held, Bounds
  <2> QED
    BY <2>1 DEF Typed
<1>3. seen \in [Crew -> 0..(MaxRuns + 1)]
  <2>1. ASSUME NEW w \in Crew PROVE seen[w] \in 0..(MaxRuns + 1)
    BY <1>0 DEF Typed, Met, Bounds
  <2> QED
    BY <2>1 DEF Typed
<1>4. nTasks \in 0..Width /\ done \in 0..Workers /\ seq \in 0..(MaxRuns + 1)
  BY <1>0 DEF Typed, Bounds
<1>5. Cardinality({c \in Callers : at[c] \in Owning}) = (IF inRun THEN 1 ELSE 0)
  <2> DEFINE O == {c \in Callers : at[c] \in Owning}
  <2>1. CASE inRun
    <3>1. PICK c \in O : \A d \in O : d = c
      BY <2>1 DEF Latched, Turn
    <3> HIDE DEF O
    <3>2. O = {c}
      BY <3>1
    <3> QED
      BY <2>1, <3>2, FS_Singleton DEF O
  <2>2. CASE ~inRun
    <3>1. O = {}
      BY <2>2 DEF Turn
    <3> QED
      BY <2>2, <3>1, FS_EmptySet
  <2> QED
    BY <2>1, <2>2
<1> QED
  BY <1>1, <1>2, <1>3, <1>4, <1>5 DEF TypeOK, Typed, Flags

\* For every pool: the counters stay within their bounds, and in_run is TRUE
\* exactly while one caller owns the slot, whatever panicked (pool.rs:81).
THEOREM PoolIsTyped == Spec => []TypeOK
<1>1. PoolInv /\ MoreInv => TypeOK
  BY PoolTyped
<1> QED BY <1>1, PoolAndMore, PTL

\* For every pool: a burst that had the request to itself leaves no worker
\* with a spin budget (park_workers, pool.rs:230).
THEOREM BurstsParkEverybody == Spec => BurstParks
<1>1. ASSUME PoolInv, MoreInv, NEW c \in Callers, AllIn(c), c \in burst, forcePark,
             Cardinality(burst) = 1
      PROVE  \A w \in Crew : ~budget[w]
  <2>1. job = c /\ Published /\ done >= Workers
    BY <1>1, PoolAssumption DEF AllIn, PoolInv, Slot, Live, Published
  <2>2. burst = {job}
    BY <1>1, <2>1, AloneInBurst DEF MoreInv
  <2>3. In = Crew
    BY <1>1, <2>1, AllChecked
  <2>4. \A w \in Crew : seen[w] = seq
    BY <2>3 DEF In
  <2> QED
    BY <1>1, <2>1, <2>2, <2>4 DEF MoreInv, Forced
<1>2. PoolInv /\ MoreInv =>
        [\A c \in Callers : AllIn(c) /\ c \in burst /\ forcePark /\ Cardinality(burst) = 1
          => \A w \in Crew : ~budget[w]]_vars
  BY <1>1
<1> QED BY <1>2, PoolAndMore, PTL DEF BurstParks

=============================================================================
