------------------------- MODULE SessionCache_proofs -------------------------
(***************************************************************************)
(* Proofs about SessionCache, for any threads, slots, conversations, cap   *)
(* and numbers of spills and kills: the catalogue names only files that    *)
(* exist, nothing litters the directory, a sidecar describes the tokens of *)
(* its main file, a collection never tears a pair apart, and conversations *)
(* are lost only by the named policies.                                    *)
(*                                                                         *)
(* None of these is inductive.  CacheInv adds who may work on a snapshot:  *)
(* a checkout in the cache has the baton (Stage), the snapshots threads    *)
(* write or restore are different from one another and absent from the     *)
(* catalogue (Apart), and how far each file has come (Stage).              *)
(* KvInv, in the second part, adds what is in the slot a thread works on;  *)
(* TypeInv, in the third, the bounds of turns, orphans and file times.     *)
(***************************************************************************)
EXTENDS SessionCache, SequenceTheorems, TLAPS

Jobs == [pc : Pcs, slot : Slots \cup {None}, conv : Convs \cup {None},
         stem : Nat, entry : Nat, orphans : SUBSET Nat]

\* The stages of a thread that has a snapshot of its own, or one taken from the catalogue.
Writing == {"renameMtp", "renameMain", "release", "drop", "publish"}
Taking  == {"spill", "renameMtp", "renameMain", "release", "free", "restore"}

Typed ==
  /\ line \in Seq(Threads)
  /\ spilled \in Nat
  /\ image = [s \in Stems |-> image[s]]
  /\ job \in [Threads -> Jobs]
  /\ crashes \in Nat

\* Only snapshots that were begun have files.
Begun ==
  /\ main \subseteq 1..spilled /\ mtp \subseteq 1..spilled
  /\ tmp \subseteq 1..spilled /\ catalog \subseteq 1..spilled
  /\ \A t \in Threads : job[t].stem <= spilled /\ job[t].entry <= spilled

\* How far the files of a thread's own snapshot have come.
StageOf(t) ==
  /\ job[t].stem # 0 => job[t].pc \in Writing
  /\ job[t].pc \in {"renameMtp", "renameMain", "release"} => job[t].stem # 0
  /\ job[t].pc \in {"renameMtp", "renameMain"} => job[t].stem \notin main
  /\ job[t].pc = "renameMtp" => image[job[t].stem].lane = image[job[t].stem].kv
  /\ job[t].pc \in {"release", "drop", "publish"} => job[t].stem \notin tmp
  /\ t # Worker /\ job[t].pc = "release" => job[t].stem \in main
Stage == \A t \in Threads : StageOf(t)

\* Where the worker and the checkouts can be, and what a checkout holds while it is in the cache.
Place(t) ==
  /\ t = Worker => job[t].pc \in {"idle", "spill"} \cup Writing
  /\ t # Worker => job[t].pc \notin {"drop", "publish"}
  /\ job[t].entry # 0 => t # Worker /\ job[t].pc \in Taking
Checks == \A t \in Threads : Place(t) /\ (InCache(t) => HasBaton(t))

\* Nobody touches the snapshot of another thread, and none of them is in the catalogue.
Apart ==
  /\ \A t, u \in Threads : t # u /\ job[t].stem = job[u].stem => job[t].stem = 0
  /\ \A t, u \in Threads : job[t].entry = job[u].stem => job[t].entry = 0
  /\ \A t \in Threads : job[t].stem \notin catalog /\ job[t].entry \notin catalog

\* What was listed as an orphan and has found its main file is still being published.
Listed == \A t \in Threads : InCache(t) /\ job[t].pc = "sweep" => job[t].orphans \cap main \subseteq InFlight

CacheInv ==
  /\ Typed /\ Begun /\ Stage /\ Checks /\ Apart /\ Listed
  /\ CatalogOnDisk /\ NoLitter /\ SidecarFits

-----------------------------------------------------------------------------

\* What a collection leaves of the files.
LEMMA Swept ==
  ASSUME NEW o, NEW f, Sweep(o, f)
  PROVE  \E gone : main' = main \ gone /\ mtp' = mtp \ (gone \cup o) /\ tmp' \subseteq tmp
BY DEF Sweep

\* Nothing has been begun at the start.
LEMMA CacheInitInv == Init => CacheInv
BY CacheAssumption, SMTT(30) DEF Init, FifoInit, Idle, CacheInv, Typed, Jobs, Pcs, Begun, Stage,
   StageOf, Checks, Place, Apart, Listed, InCache, Writing, Taking, CatalogOnDisk, NoLitter,
   SidecarFits, HasBaton, InFlight

\* Every thread but t keeps its place.
Alone(t) == \A u \in Threads \ {t} : job'[u] = job[u]

\* Where t is now: its stage, its own snapshot and the one taken from the catalogue.
Now(t, pc, stem, entry) ==
  /\ job' \in [Threads -> Jobs] /\ Alone(t)
  /\ job'[t].pc = pc /\ job'[t].stem = stem /\ job'[t].entry = entry

\* The gate's line stays a sequence of threads.
LEMMA LineTyped ==
  ASSUME Typed, NEW t \in Threads, Depart(t) \/ Join(t) \/ UNCHANGED line
  PROVE  line' \in Seq(Threads)
<1>1. CASE Depart(t)
  BY <1>1, HeadTailProperties DEF Depart, HasBaton, Typed
<1>2. CASE Join(t)
  BY <1>2, AppendProperties DEF Join, Typed
<1> QED BY <1>1, <1>2 DEF Typed

\* The snapshots threads write, before and after.
LEMMA FlightMoves ==
  ASSUME NEW t \in Threads, NEW x
  PROVE  /\ x \in InFlight <=> \E u \in Threads : job[u].stem = x
         /\ x \in InFlight' <=> \E u \in Threads : job'[u].stem = x
BY DEF InFlight

\* The numbers a job carries.
LEMMA JobNumbers ==
  ASSUME job \in [Threads -> Jobs]
  PROVE  \A t \in Threads : job[t].stem \in Nat /\ job[t].entry \in Nat
BY DEF Jobs

\* A checkout in the cache keeps its baton, whoever else enters or leaves the gate.
LEMMA BatonKept ==
  ASSUME CacheInv, NEW t \in Threads, Depart(t) \/ Join(t) \/ UNCHANGED line,
         NEW u \in Threads \ {t}, InCache(u)
  PROVE  HasBaton(u)'
<1>1. HasBaton(u) /\ line \in Seq(Threads) BY DEF CacheInv, Checks, Typed
<1>2. CASE Depart(t)
  BY <1>1, <1>2 DEF Depart, HasBaton
<1>3. CASE Join(t)
  <2>1. line' = Append(line, t) /\ Len(line) > 0
    BY <1>1, <1>3 DEF Join, HasBaton
  <2> QED BY <1>1, <2>1, AppendProperties DEF HasBaton
<1>4. CASE UNCHANGED line
  BY <1>1, <1>4 DEF HasBaton
<1> QED BY <1>2, <1>3, <1>4

\* Numbers are small, 0 names no file, and whoever has the baton is alone in the cache: nobody
\* else has taken a snapshot from it.
Facts(t) ==
  /\ \A u \in Threads : job[u].stem \in 0..spilled /\ job[u].entry \in 0..spilled
  /\ 0 \notin main /\ 0 \notin mtp /\ 0 \notin tmp /\ 0 \notin catalog
  /\ HasBaton(t) => \A u \in Threads \ {t} : ~InCache(u) /\ job[u].entry = 0

LEMMA Before ==
  ASSUME CacheInv, NEW t \in Threads
  PROVE  Facts(t)
<1>1. \A u \in Threads : job[u].stem \in 0..spilled /\ job[u].entry \in 0..spilled
  BY JobNumbers DEF CacheInv, Typed, Begun
<1>2. 0 \notin main /\ 0 \notin mtp /\ 0 \notin tmp /\ 0 \notin catalog
  BY DEF CacheInv, Begun
<1>3. HasBaton(t) => \A u \in Threads \ {t} : ~InCache(u) /\ job[u].entry = 0
  BY DEF CacheInv, Checks, Place, HasBaton, InCache, Taking
<1> QED BY <1>1, <1>2, <1>3 DEF Facts

\* A new snapshot has a number nobody has used.
LEMMA SpillWriteInv ==
  ASSUME CacheInv, NEW t \in Threads, SpillWrite(t)
  PROVE  CacheInv'
<1> DEFINE s == spilled + 1
           pc == IF LaneState(job[t].slot) = NoKv THEN "renameMain" ELSE "renameMtp"
<1> USE CacheAssumption DEF CacheInv
<1>1. /\ s \in Nat /\ s \in Stems
      /\ s \notin main \cup mtp \cup tmp \cup catalog
      /\ job[t].pc = "spill" /\ job[t].stem = 0 /\ s # 0
  <2>1. s \in Nat /\ s \in Stems /\ s # 0 BY DEF SpillWrite, Typed, Stems
  <2>2. s \notin main \cup mtp \cup tmp \cup catalog BY <2>1 DEF Begun, Typed
  <2>3. job[t].pc = "spill" /\ job[t].stem = 0 BY DEF SpillWrite, Stage, StageOf, Pass, Writing
  <2> QED BY <2>1, <2>2, <2>3
<1>2. Now(t, pc, s, job[t].entry)
  <2>1. job' = [job EXCEPT ![t].stem = s, ![t].pc = pc] BY DEF SpillWrite
  <2>2. job[t] \in Jobs /\ pc \in Pcs BY DEF Typed, Pcs
  <2>3. [job[t] EXCEPT !.stem = s, !.pc = pc] \in Jobs BY <1>1, <2>2 DEF Jobs
  <2> QED BY <2>1, <2>2, <2>3 DEF Now, Alone, Typed, Jobs
<1>3. Typed'
  <2>1. line' \in Seq(Threads) BY LineTyped DEF SpillWrite
  <2>2. image' = [x \in Stems |-> image'[x]] BY DEF SpillWrite, Typed
  <2> QED BY <1>1, <1>2, <2>1, <2>2 DEF SpillWrite, Typed, Now
<1>4. /\ image'[s].lane = LaneState(job[t].slot) /\ image'[s].kv = Kv(t)
      /\ \A x \in Stems \ {s} : image'[x] = image[x]
  BY <1>1 DEF SpillWrite, Typed
<1>5. /\ tmp' = tmp \cup {s} /\ spilled' = s
      /\ UNCHANGED <<main, mtp, catalog, crashes>>
  BY DEF SpillWrite
<1>6. \A u \in Threads : /\ job[u].stem \in Nat /\ job[u].stem # s
                         /\ job[u].entry \in Nat /\ job[u].entry # s
  BY <1>1, JobNumbers DEF Typed, Begun
<1>7. Begun'
  BY <1>1, <1>2, <1>5, <1>6 DEF Begun, Now, Alone, Typed
<1>8. Stage'
  <2>1. pc = "renameMtp" => image'[s].lane = image'[s].kv
    BY <1>4 DEF LaneState, Kv
  <2> HIDE DEF pc, s
  <2>2. ASSUME NEW u \in Threads \ {t}
        PROVE  job[u].pc = "renameMtp" => image'[job[u].stem] = image[job[u].stem]
    BY <1>1, <1>4, <1>6, <2>2 DEF Stage, StageOf, Begun, Stems, Typed, s
  <2>3. \A u \in Threads \ {t} : StageOf(u)'
    BY <1>2, <1>5, <1>6, <2>2 DEF Stage, StageOf, Now, Alone
  <2>4. StageOf(t)'
    <3>1. pc \in {"renameMtp", "renameMain"} /\ s # 0 BY <1>1 DEF pc
    <3> QED BY <1>1, <1>2, <1>5, <2>1, <3>1 DEF StageOf, Now, Writing
  <2> QED BY <2>3, <2>4 DEF Stage
<1>9. Checks'
  <2>1. \A u \in Threads \ {t} : InCache(u) => HasBaton(u)'
    BY BatonKept DEF SpillWrite
  <2>2. InCache(t)' => HasBaton(t)'
    BY <1>1, <1>2 DEF SpillWrite, Now, InCache, Pass, HasBaton
  <2>3. \A u \in Threads \ {t} : Place(u)' /\ (InCache(u)' <=> InCache(u))
    BY <1>2 DEF Checks, Place, Now, Alone, InCache
  <2>4. Place(t)'
    BY <1>1, <1>2 DEF Checks, Place, Now, Taking, Writing
  <2> QED BY <2>1, <2>2, <2>3, <2>4 DEF Checks
<1>10. Apart'
  BY <1>1, <1>2, <1>5, <1>6 DEF Apart, Now, Alone
<1>11. Listed'
  BY <1>1, <1>2, <1>5, FlightMoves DEF Listed, Begun, Now, Alone, InCache
<1>12. CatalogOnDisk'
  BY <1>5 DEF CatalogOnDisk
<1>13. NoLitter'
  <2>1. \A x \in InFlight : x # 0 => x \in InFlight'
    BY <1>1, <1>2, FlightMoves DEF Now, Alone
  <2>2. s \in InFlight' BY <1>2, FlightMoves DEF Now
  <2>3. 0 \notin mtp /\ 0 \notin tmp BY DEF Begun
  <2> QED BY <2>1, <2>2, <2>3, <1>5 DEF NoLitter
<1>14. SidecarFits'
  <2>1. \A x \in mtp : x \in Stems \ {s} BY <1>1 DEF Begun, Stems, Typed
  <2> QED BY <2>1, <1>4, <1>5 DEF SidecarFits
<1> QED BY <1>3, <1>7, <1>8, <1>9, <1>10, <1>11, <1>12, <1>13, <1>14

\* A spill that fails at its first writes has left no file.
LEMMA SpillWriteFailsInv ==
  ASSUME CacheInv, NEW t \in Threads, SpillWriteFails(t)
  PROVE  CacheInv'
<1> USE CacheAssumption DEF CacheInv
<1>1. job[t].pc = "spill" /\ job[t].stem = 0
  BY DEF SpillWriteFails, Pass, Here, At, Stage, StageOf, Checks, Place, Writing, Taking
<1>2. PICK p \in {"publish", "gc", "free"} :
             /\ Now(t, p, 0, job[t].entry)
             /\ p = "publish" <=> t = Worker
             /\ job[t].entry # 0 => p = "free"
  <2>1. job[t] \in Jobs BY DEF Typed
  <2>2. SpillFails(t) /\ (job[t].entry # 0 => t # Worker) BY DEF SpillWriteFails, Checks, Place
  <2>3. CASE t = Worker
    <3>1. job' = [job EXCEPT ![t].pc = "publish", ![t].stem = 0] BY <2>2, <2>3 DEF SpillFails
    <3>2. [job[t] EXCEPT !.pc = "publish", !.stem = 0] \in Jobs BY <2>1 DEF Jobs, Pcs
    <3>3. Now(t, "publish", 0, job[t].entry) BY <2>1, <3>1, <3>2 DEF Now, Alone, Typed, Jobs
    <3> QED BY <2>2, <2>3, <3>3
  <2>4. CASE t # Worker
    <3> DEFINE p == IF job[t].entry = 0 THEN "gc" ELSE "free"
    <3>1. job' = [job EXCEPT ![t].pc = p, ![t].stem = 0] BY <2>2, <2>4 DEF SpillFails
    <3>2. [job[t] EXCEPT !.pc = p, !.stem = 0] \in Jobs BY <2>1 DEF Jobs, Pcs
    <3>3. Now(t, p, 0, job[t].entry) BY <2>1, <3>1, <3>2 DEF Now, Alone, Typed, Jobs
    <3> QED BY <2>4, <3>3
  <2> QED BY <2>3, <2>4
<1>3. /\ spilled' \in {spilled, spilled + 1}
      /\ UNCHANGED <<image, tmp, main, mtp, catalog, crashes>>
  BY <1>1 DEF SpillWriteFails, diskVars
<1>4. Typed'
  BY <1>2, <1>3, LineTyped DEF SpillWriteFails, Now, Typed
<1>5. Facts(t)
  BY Before
<1>6. Begun'
  <2>1. \A u \in Threads : job'[u].stem <= spilled' /\ job'[u].entry <= spilled'
    BY <1>1, <1>2, <1>3, <1>5 DEF Facts, Now, Alone, Typed
  <2> QED BY <1>1, <1>2, <1>3, <1>5, <2>1 DEF Facts, Begun, Typed
<1>7. Stage'
  <2>1. \A u \in Threads \ {t} : StageOf(u)'
    BY <1>1, <1>2, <1>3, <1>5 DEF Facts, Stage, StageOf, Apart, Now, Alone, InCache
  <2>2. StageOf(t)'
    BY <1>1, <1>2, <1>3, <1>5 DEF Facts, Stage, StageOf, Now, Writing
  <2> QED BY <2>1, <2>2 DEF Stage
<1>8. Checks'
  <2>1. \A u \in Threads \ {t} : InCache(u) => HasBaton(u)'
    BY BatonKept DEF SpillWriteFails
  <2>2. InCache(t)' => HasBaton(t)'
    BY <1>1, <1>2 DEF SpillWriteFails, Now, InCache, Pass, Here, HasBaton
  <2>3. \A u \in Threads \ {t} : Place(u)' /\ (InCache(u)' <=> InCache(u))
    BY <1>2 DEF Checks, Place, Now, Alone, InCache
  <2>4. Place(t)'
    BY <1>1, <1>2 DEF Checks, Place, Now, Taking, Writing
  <2> QED BY <2>1, <2>2, <2>3, <2>4 DEF Checks
<1>9. Apart'
  BY <1>1, <1>2, <1>3, <1>5 DEF Facts, Apart, Now, Alone
<1>10. Listed'
  BY <1>1, <1>2, <1>3, FlightMoves, <1>5 DEF Facts, Listed, Stage, StageOf, Now, Alone, InCache
<1>11. CatalogOnDisk'
  BY <1>1, <1>2, <1>3 DEF CatalogOnDisk, Stage, StageOf, Apart
<1>12. NoLitter'
  <2>1. \A x \in InFlight : x # 0 /\ x # job[t].stem => x \in InFlight'
    BY <1>1, <1>2, FlightMoves DEF Now, Alone
  <2>2. job'[t].stem \in InFlight'
    BY FlightMoves
  <2> QED BY <1>1, <1>2, <1>3, <1>5, <2>1, <2>2 DEF Facts, NoLitter, Stage, StageOf, Now
<1>13. SidecarFits'
  BY <1>1, <1>3 DEF SidecarFits, Stage, StageOf
<1> QED BY <1>4, <1>6, <1>7, <1>8, <1>9, <1>10, <1>11, <1>12, <1>13

\* The sidecar comes first: until its main file is there, its spill is under way.
LEMMA RenameMtpInv ==
  ASSUME CacheInv, NEW t \in Threads, RenameMtp(t)
  PROVE  CacheInv'
<1> USE CacheAssumption DEF CacheInv
<1>1. job[t].pc = "renameMtp" /\ job[t].stem # 0
  BY DEF RenameMtp, Pass, Here, At, Stage, StageOf, Checks, Place, Writing, Taking
<1>2. Now(t, "renameMain", job[t].stem, job[t].entry)
  <2>1. job[t] \in Jobs BY DEF Typed
  <2> QED BY <1>1, <2>1 DEF RenameMtp, Goto, Now, Alone, Typed, Jobs, Pcs, Idle, Checks, Place, Writing
<1>3. /\ mtp' = mtp \cup {job[t].stem}
      /\ UNCHANGED <<line, spilled, image, tmp, main, catalog, crashes>>
  BY <1>1 DEF RenameMtp, diskVars
<1>4. Typed'
  BY <1>2, <1>3, LineTyped DEF RenameMtp, Now, Typed
<1>5. Facts(t)
  BY Before
<1>6. Begun'
  <2>1. \A u \in Threads : job'[u].stem <= spilled' /\ job'[u].entry <= spilled'
    BY <1>1, <1>2, <1>3, <1>5 DEF Facts, Now, Alone, Typed
  <2> QED BY <1>1, <1>2, <1>3, <1>5, <2>1 DEF Facts, Begun, Typed
<1>7. Stage'
  <2>1. \A u \in Threads \ {t} : StageOf(u)'
    BY <1>1, <1>2, <1>3, <1>5 DEF Facts, Stage, StageOf, Apart, Now, Alone, InCache
  <2>2. StageOf(t)'
    BY <1>1, <1>2, <1>3, <1>5 DEF Facts, Stage, StageOf, Now, Writing
  <2> QED BY <2>1, <2>2 DEF Stage
<1>8. Checks'
  <2>1. \A u \in Threads \ {t} : InCache(u) => HasBaton(u)'
    BY BatonKept DEF RenameMtp
  <2>2. InCache(t)' => HasBaton(t)'
    BY <1>1, <1>2 DEF RenameMtp, Now, InCache, Pass, Here, HasBaton
  <2>3. \A u \in Threads \ {t} : Place(u)' /\ (InCache(u)' <=> InCache(u))
    BY <1>2 DEF Checks, Place, Now, Alone, InCache
  <2>4. Place(t)'
    BY <1>1, <1>2 DEF Checks, Place, Now, Taking, Writing
  <2> QED BY <2>1, <2>2, <2>3, <2>4 DEF Checks
<1>9. Apart'
  BY <1>1, <1>2, <1>3, <1>5 DEF Facts, Apart, Now, Alone
<1>10. Listed'
  BY <1>1, <1>2, <1>3, FlightMoves, <1>5 DEF Facts, Listed, Stage, StageOf, Now, Alone, InCache
<1>11. CatalogOnDisk'
  BY <1>1, <1>2, <1>3 DEF CatalogOnDisk, Stage, StageOf, Apart
<1>12. NoLitter'
  <2>1. \A x \in InFlight : x # 0 => x \in InFlight'
    BY <1>1, <1>2, FlightMoves DEF Now, Alone
  <2>2. job'[t].stem \in InFlight'
    BY FlightMoves
  <2> QED BY <1>1, <1>2, <1>3, <1>5, <2>1, <2>2 DEF Facts, NoLitter, Stage, StageOf, Now
<1>13. SidecarFits'
  BY <1>1, <1>3 DEF SidecarFits, Stage, StageOf
<1> QED BY <1>4, <1>6, <1>7, <1>8, <1>9, <1>10, <1>11, <1>12, <1>13

\* A failed rename takes both files of the snapshot with it.
LEMMA RenameFailsInv ==
  ASSUME CacheInv, NEW t \in Threads, RenameFails(t)
  PROVE  CacheInv'
<1> USE CacheAssumption DEF CacheInv
<1>1. job[t].pc \in {"renameMtp", "renameMain"} /\ job[t].stem # 0
  BY DEF RenameFails, Pass, Here, At, Stage, StageOf, Checks, Place, Writing, Taking
<1>2. PICK p \in {"publish", "gc", "free"} :
             /\ Now(t, p, 0, job[t].entry)
             /\ p = "publish" <=> t = Worker
             /\ job[t].entry # 0 => p = "free"
  <2>1. job[t] \in Jobs BY DEF Typed
  <2>2. SpillFails(t) /\ (job[t].entry # 0 => t # Worker) BY DEF RenameFails, Checks, Place
  <2>3. CASE t = Worker
    <3>1. job' = [job EXCEPT ![t].pc = "publish", ![t].stem = 0] BY <2>2, <2>3 DEF SpillFails
    <3>2. [job[t] EXCEPT !.pc = "publish", !.stem = 0] \in Jobs BY <2>1 DEF Jobs, Pcs
    <3>3. Now(t, "publish", 0, job[t].entry) BY <2>1, <3>1, <3>2 DEF Now, Alone, Typed, Jobs
    <3> QED BY <2>2, <2>3, <3>3
  <2>4. CASE t # Worker
    <3> DEFINE p == IF job[t].entry = 0 THEN "gc" ELSE "free"
    <3>1. job' = [job EXCEPT ![t].pc = p, ![t].stem = 0] BY <2>2, <2>4 DEF SpillFails
    <3>2. [job[t] EXCEPT !.pc = p, !.stem = 0] \in Jobs BY <2>1 DEF Jobs, Pcs
    <3>3. Now(t, p, 0, job[t].entry) BY <2>1, <3>1, <3>2 DEF Now, Alone, Typed, Jobs
    <3> QED BY <2>4, <3>3
  <2> QED BY <2>3, <2>4
<1>3. /\ tmp' = tmp \ {job[t].stem} /\ mtp' = mtp \ {job[t].stem}
      /\ UNCHANGED <<line, spilled, image, main, catalog, crashes>>
  BY <1>1 DEF RenameFails, diskVars
<1>4. Typed'
  BY <1>2, <1>3, LineTyped DEF RenameFails, Now, Typed
<1>5. Facts(t)
  BY Before
<1>6. Begun'
  <2>1. \A u \in Threads : job'[u].stem <= spilled' /\ job'[u].entry <= spilled'
    BY <1>1, <1>2, <1>3, <1>5 DEF Facts, Now, Alone, Typed
  <2> QED BY <1>1, <1>2, <1>3, <1>5, <2>1 DEF Facts, Begun, Typed
<1>7. Stage'
  <2>1. \A u \in Threads \ {t} : StageOf(u)'
    BY <1>1, <1>2, <1>3, <1>5 DEF Facts, Stage, StageOf, Apart, Now, Alone, InCache
  <2>2. StageOf(t)'
    BY <1>1, <1>2, <1>3, <1>5 DEF Facts, Stage, StageOf, Now, Writing
  <2> QED BY <2>1, <2>2 DEF Stage
<1>8. Checks'
  <2>1. \A u \in Threads \ {t} : InCache(u) => HasBaton(u)'
    BY BatonKept DEF RenameFails
  <2>2. InCache(t)' => HasBaton(t)'
    BY <1>1, <1>2 DEF RenameFails, Now, InCache, Pass, Here, HasBaton
  <2>3. \A u \in Threads \ {t} : Place(u)' /\ (InCache(u)' <=> InCache(u))
    BY <1>2 DEF Checks, Place, Now, Alone, InCache
  <2>4. Place(t)'
    BY <1>1, <1>2 DEF Checks, Place, Now, Taking, Writing
  <2> QED BY <2>1, <2>2, <2>3, <2>4 DEF Checks
<1>9. Apart'
  BY <1>1, <1>2, <1>3, <1>5 DEF Facts, Apart, Now, Alone
<1>10. Listed'
  BY <1>1, <1>2, <1>3, FlightMoves, <1>5 DEF Facts, Listed, Stage, StageOf, Now, Alone, InCache
<1>11. CatalogOnDisk'
  BY <1>1, <1>2, <1>3 DEF CatalogOnDisk, Stage, StageOf, Apart
<1>12. NoLitter'
  <2>1. \A x \in InFlight : x # 0 /\ x # job[t].stem => x \in InFlight'
    BY <1>1, <1>2, FlightMoves DEF Now, Alone
  <2>2. job'[t].stem \in InFlight'
    BY FlightMoves
  <2> QED BY <1>1, <1>2, <1>3, <1>5, <2>1, <2>2 DEF Facts, NoLitter, Stage, StageOf, Now
<1>13. SidecarFits'
  BY <1>1, <1>3 DEF SidecarFits, Stage, StageOf
<1> QED BY <1>4, <1>6, <1>7, <1>8, <1>9, <1>10, <1>11, <1>12, <1>13

\* The main file of a snapshot was absent until it is renamed into place.
LEMMA RenameMainInv ==
  ASSUME CacheInv, NEW t \in Threads, RenameMain(t)
  PROVE  CacheInv'
<1> USE CacheAssumption DEF CacheInv
<1>1. job[t].pc = "renameMain" /\ job[t].stem # 0
  BY DEF RenameMain, Pass, Here, At, Stage, StageOf, Checks, Place, Writing, Taking
<1>2. Now(t, "release", job[t].stem, job[t].entry)
  <2>1. job[t] \in Jobs BY DEF Typed
  <2> QED BY <1>1, <2>1 DEF RenameMain, Goto, Now, Alone, Typed, Jobs, Pcs, Idle, Checks, Place, Writing
<1>3. /\ main' = main \cup {job[t].stem} /\ tmp' = tmp \ {job[t].stem}
      /\ UNCHANGED <<line, spilled, image, mtp, catalog, crashes>>
  BY <1>1 DEF RenameMain, diskVars
<1>4. Typed'
  BY <1>2, <1>3, LineTyped DEF RenameMain, Now, Typed
<1>5. Facts(t)
  BY Before
<1>6. Begun'
  <2>1. \A u \in Threads : job'[u].stem <= spilled' /\ job'[u].entry <= spilled'
    BY <1>1, <1>2, <1>3, <1>5 DEF Facts, Now, Alone, Typed
  <2> QED BY <1>1, <1>2, <1>3, <1>5, <2>1 DEF Facts, Begun, Typed
<1>7. Stage'
  <2>1. \A u \in Threads \ {t} : StageOf(u)'
    BY <1>1, <1>2, <1>3, <1>5 DEF Facts, Stage, StageOf, Apart, Now, Alone, InCache
  <2>2. StageOf(t)'
    BY <1>1, <1>2, <1>3, <1>5 DEF Facts, Stage, StageOf, Now, Writing
  <2> QED BY <2>1, <2>2 DEF Stage
<1>8. Checks'
  <2>1. \A u \in Threads \ {t} : InCache(u) => HasBaton(u)'
    BY BatonKept DEF RenameMain
  <2>2. InCache(t)' => HasBaton(t)'
    BY <1>1, <1>2 DEF RenameMain, Now, InCache, Pass, Here, HasBaton
  <2>3. \A u \in Threads \ {t} : Place(u)' /\ (InCache(u)' <=> InCache(u))
    BY <1>2 DEF Checks, Place, Now, Alone, InCache
  <2>4. Place(t)'
    BY <1>1, <1>2 DEF Checks, Place, Now, Taking, Writing
  <2> QED BY <2>1, <2>2, <2>3, <2>4 DEF Checks
<1>9. Apart'
  BY <1>1, <1>2, <1>3, <1>5 DEF Facts, Apart, Now, Alone
<1>10. Listed'
  BY <1>1, <1>2, <1>3, FlightMoves, <1>5 DEF Facts, Listed, Stage, StageOf, Now, Alone, InCache
<1>11. CatalogOnDisk'
  BY <1>1, <1>2, <1>3 DEF CatalogOnDisk, Stage, StageOf, Apart
<1>12. NoLitter'
  <2>1. \A x \in InFlight : x # 0 => x \in InFlight'
    BY <1>1, <1>2, FlightMoves DEF Now, Alone
  <2>2. job'[t].stem \in InFlight'
    BY FlightMoves
  <2> QED BY <1>1, <1>2, <1>3, <1>5, <2>1, <2>2 DEF Facts, NoLitter, Stage, StageOf, Now
<1>13. SidecarFits'
  BY <1>1, <1>3 DEF SidecarFits, Stage, StageOf
<1> QED BY <1>4, <1>6, <1>7, <1>8, <1>9, <1>10, <1>11, <1>12, <1>13

\* A checkout holds the cache, so the main file it renamed is still there when it is catalogued.
LEMMA ReleaseInv ==
  ASSUME CacheInv, NEW t \in Threads, Release(t)
  PROVE  CacheInv'
<1> USE CacheAssumption DEF CacheInv
<1>1. job[t].pc = "release" /\ job[t].stem # 0 /\ HasBaton(t)
  BY DEF Release, Pass, Here, At, Stage, StageOf, Checks, Place, Writing, Taking
<1>2. PICK p \in {"drop", "gc", "restore"}, n \in {0, job[t].stem} :
             /\ Now(t, p, n, job[t].entry)
             /\ p = "drop" <=> t = Worker
             /\ n = IF t = Worker THEN job[t].stem ELSE 0
             /\ job[t].entry # 0 => p = "restore"
  <2>1. job[t] \in Jobs /\ (job[t].entry # 0 => t # Worker) BY DEF Typed, Checks, Place
  <2>2. CASE t = Worker
    <3>1. job' = [job EXCEPT ![t].pc = "drop"] BY <2>2 DEF Release, Goto
    <3>2. [job[t] EXCEPT !.pc = "drop"] \in Jobs BY <2>1 DEF Jobs, Pcs
    <3>3. Now(t, "drop", job[t].stem, job[t].entry) BY <2>1, <3>1, <3>2 DEF Now, Alone, Typed, Jobs
    <3> QED BY <2>1, <2>2, <3>3
  <2>3. CASE t # Worker
    <3> DEFINE p == IF job[t].entry = 0 THEN "gc" ELSE "restore"
    <3>1. job' = [job EXCEPT ![t].pc = p, ![t].stem = 0] BY <2>3 DEF Release
    <3>2. [job[t] EXCEPT !.pc = p, !.stem = 0] \in Jobs BY <2>1 DEF Jobs, Pcs
    <3>3. Now(t, p, 0, job[t].entry) BY <2>1, <3>1, <3>2 DEF Now, Alone, Typed, Jobs
    <3> QED BY <2>3, <3>3
  <2> QED BY <2>2, <2>3
<1>3. /\ catalog' = IF t = Worker THEN catalog ELSE catalog \cup {job[t].stem}
      /\ UNCHANGED <<spilled, image, tmp, main, mtp, crashes>>
  BY <1>1 DEF Release, diskVars
<1>4. Typed'
  BY <1>2, <1>3, LineTyped DEF Release, Now, Typed
<1>5. Facts(t)
  BY Before
<1>6. Begun'
  <2>1. \A u \in Threads : job'[u].stem <= spilled' /\ job'[u].entry <= spilled'
    BY <1>1, <1>2, <1>3, <1>5 DEF Facts, Now, Alone, Typed
  <2> QED BY <1>1, <1>2, <1>3, <1>5, <2>1 DEF Facts, Begun, Typed
<1>7. Stage'
  <2>1. \A u \in Threads \ {t} : StageOf(u)'
    BY <1>1, <1>2, <1>3, <1>5 DEF Facts, Stage, StageOf, Apart, Now, Alone, InCache
  <2>2. StageOf(t)'
    BY <1>1, <1>2, <1>3, <1>5 DEF Facts, Stage, StageOf, Now, Writing
  <2> QED BY <2>1, <2>2 DEF Stage
<1>8. Checks'
  <2>1. \A u \in Threads \ {t} : InCache(u) => HasBaton(u)'
    BY BatonKept DEF Release
  <2>2. InCache(t)' => HasBaton(t)'
    BY <1>1, <1>2 DEF Release, Now, InCache, Pass, Here, HasBaton
  <2>3. \A u \in Threads \ {t} : Place(u)' /\ (InCache(u)' <=> InCache(u))
    BY <1>2 DEF Checks, Place, Now, Alone, InCache
  <2>4. Place(t)'
    BY <1>1, <1>2 DEF Checks, Place, Now, Taking, Writing
  <2> QED BY <2>1, <2>2, <2>3, <2>4 DEF Checks
<1>9. Apart'
  BY <1>1, <1>2, <1>3, <1>5 DEF Facts, Apart, Now, Alone
<1>10. Listed'
  BY <1>1, <1>2, <1>3, FlightMoves, <1>5 DEF Facts, Listed, Stage, StageOf, Now, Alone, InCache
<1>11. CatalogOnDisk'
  BY <1>1, <1>2, <1>3 DEF CatalogOnDisk, Stage, StageOf, Apart
<1>12. NoLitter'
  <2>1. \A x \in InFlight : x # 0 /\ (t = Worker \/ x # job[t].stem) => x \in InFlight'
    BY <1>1, <1>2, FlightMoves DEF Now, Alone
  <2>2. job'[t].stem \in InFlight'
    BY FlightMoves
  <2> QED BY <1>1, <1>2, <1>3, <1>5, <2>1, <2>2 DEF Facts, NoLitter, Stage, StageOf, Now
<1>13. SidecarFits'
  BY <1>1, <1>3 DEF SidecarFits, Stage, StageOf
<1> QED BY <1>4, <1>6, <1>7, <1>8, <1>9, <1>10, <1>11, <1>12, <1>13

\* The snapshot a failed release deletes is in nobody's catalogue.
LEMMA ReleaseFailsInv ==
  ASSUME CacheInv, NEW t \in Threads, ReleaseFails(t)
  PROVE  CacheInv'
<1> USE CacheAssumption DEF CacheInv
<1>1. job[t].pc = "release" /\ job[t].stem # 0 /\ HasBaton(t)
  BY DEF ReleaseFails, Pass, Here, At, Stage, StageOf, Checks, Place, Writing, Taking
<1>2. PICK p \in {"publish", "gc", "free"} :
             /\ Now(t, p, 0, job[t].entry)
             /\ p = "publish" <=> t = Worker
             /\ job[t].entry # 0 => p = "free"
  <2>1. job[t] \in Jobs BY DEF Typed
  <2>2. SpillFails(t) /\ (job[t].entry # 0 => t # Worker) BY DEF ReleaseFails, Checks, Place
  <2>3. CASE t = Worker
    <3>1. job' = [job EXCEPT ![t].pc = "publish", ![t].stem = 0] BY <2>2, <2>3 DEF SpillFails
    <3>2. [job[t] EXCEPT !.pc = "publish", !.stem = 0] \in Jobs BY <2>1 DEF Jobs, Pcs
    <3>3. Now(t, "publish", 0, job[t].entry) BY <2>1, <3>1, <3>2 DEF Now, Alone, Typed, Jobs
    <3> QED BY <2>2, <2>3, <3>3
  <2>4. CASE t # Worker
    <3> DEFINE p == IF job[t].entry = 0 THEN "gc" ELSE "free"
    <3>1. job' = [job EXCEPT ![t].pc = p, ![t].stem = 0] BY <2>2, <2>4 DEF SpillFails
    <3>2. [job[t] EXCEPT !.pc = p, !.stem = 0] \in Jobs BY <2>1 DEF Jobs, Pcs
    <3>3. Now(t, p, 0, job[t].entry) BY <2>1, <3>1, <3>2 DEF Now, Alone, Typed, Jobs
    <3> QED BY <2>4, <3>3
  <2> QED BY <2>3, <2>4
<1>3. /\ main' = main \ {job[t].stem} /\ mtp' = mtp \ {job[t].stem}
      /\ UNCHANGED <<spilled, image, tmp, catalog, crashes>>
  BY <1>1 DEF ReleaseFails, diskVars
<1>4. Typed'
  BY <1>2, <1>3, LineTyped DEF ReleaseFails, Now, Typed
<1>5. Facts(t)
  BY Before
<1>6. Begun'
  <2>1. \A u \in Threads : job'[u].stem <= spilled' /\ job'[u].entry <= spilled'
    BY <1>1, <1>2, <1>3, <1>5 DEF Facts, Now, Alone, Typed
  <2> QED BY <1>1, <1>2, <1>3, <1>5, <2>1 DEF Facts, Begun, Typed
<1>7. Stage'
  <2>1. \A u \in Threads \ {t} : StageOf(u)'
    BY <1>1, <1>2, <1>3, <1>5 DEF Facts, Stage, StageOf, Apart, Now, Alone, InCache
  <2>2. StageOf(t)'
    BY <1>1, <1>2, <1>3, <1>5 DEF Facts, Stage, StageOf, Now, Writing
  <2> QED BY <2>1, <2>2 DEF Stage
<1>8. Checks'
  <2>1. \A u \in Threads \ {t} : InCache(u) => HasBaton(u)'
    BY BatonKept DEF ReleaseFails
  <2>2. InCache(t)' => HasBaton(t)'
    BY <1>1, <1>2 DEF ReleaseFails, Now, InCache, Pass, Here, HasBaton
  <2>3. \A u \in Threads \ {t} : Place(u)' /\ (InCache(u)' <=> InCache(u))
    BY <1>2 DEF Checks, Place, Now, Alone, InCache
  <2>4. Place(t)'
    BY <1>1, <1>2 DEF Checks, Place, Now, Taking, Writing
  <2> QED BY <2>1, <2>2, <2>3, <2>4 DEF Checks
<1>9. Apart'
  BY <1>1, <1>2, <1>3, <1>5 DEF Facts, Apart, Now, Alone
<1>10. Listed'
  BY <1>1, <1>2, <1>3, FlightMoves, <1>5 DEF Facts, Listed, Stage, StageOf, Now, Alone, InCache
<1>11. CatalogOnDisk'
  BY <1>1, <1>2, <1>3 DEF CatalogOnDisk, Stage, StageOf, Apart
<1>12. NoLitter'
  <2>1. \A x \in InFlight : x # 0 /\ x # job[t].stem => x \in InFlight'
    BY <1>1, <1>2, FlightMoves DEF Now, Alone
  <2>2. job'[t].stem \in InFlight'
    BY FlightMoves
  <2> QED BY <1>1, <1>2, <1>3, <1>5, <2>1, <2>2 DEF Facts, NoLitter, Stage, StageOf, Now
<1>13. SidecarFits'
  BY <1>1, <1>3 DEF SidecarFits, Stage, StageOf
<1> QED BY <1>4, <1>6, <1>7, <1>8, <1>9, <1>10, <1>11, <1>12, <1>13

\* The entry a checkout gives back is catalogued only if its main file is still there.
LEMMA FreeInv ==
  ASSUME CacheInv, NEW t \in Threads, Free(t)
  PROVE  CacheInv'
<1> USE CacheAssumption DEF CacheInv
<1>1. job[t].pc = "free" /\ job[t].stem = 0 /\ t # Worker /\ HasBaton(t)
  BY DEF Free, Pass, Here, At, Stage, StageOf, Checks, Place, Writing, Taking
<1>2. \/ Now(t, "restore", 0, job[t].entry) /\ UNCHANGED catalog
      \/ Now(t, "gc", 0, 0) /\ catalog' = catalog \cup ({job[t].entry} \cap main)
  <2>1. job[t] \in Jobs BY DEF Typed
  <2>2. CASE Goto(t, "restore") /\ UNCHANGED catalog
    BY <1>1, <2>1, <2>2 DEF Goto, Now, Alone, Typed, Jobs, Pcs
  <2>3. CASE /\ job' = [job EXCEPT ![t].pc = "gc", ![t].entry = 0]
             /\ catalog' = catalog \cup ({job[t].entry} \cap main)
    BY <1>1, <2>1, <2>3 DEF Now, Alone, Typed, Jobs, Pcs
  <2> QED BY <2>2, <2>3 DEF Free
<1>3. UNCHANGED <<line, spilled, image, tmp, main, mtp, crashes>>
  BY <1>1 DEF Free, diskVars
<1>4. Typed'
  BY <1>2, <1>3, LineTyped DEF Free, Now, Typed
<1>5. Facts(t)
  BY Before
<1>6. Begun'
  <2>1. \A u \in Threads : job'[u].stem <= spilled' /\ job'[u].entry <= spilled'
    BY <1>1, <1>2, <1>3, <1>5 DEF Facts, Now, Alone, Typed
  <2> QED BY <1>1, <1>2, <1>3, <1>5, <2>1 DEF Facts, Begun, Typed
<1>7. Stage'
  <2>1. \A u \in Threads \ {t} : StageOf(u)'
    BY <1>1, <1>2, <1>3, <1>5 DEF Facts, Stage, StageOf, Apart, Now, Alone, InCache
  <2>2. StageOf(t)'
    BY <1>1, <1>2, <1>3, <1>5 DEF Facts, Stage, StageOf, Now, Writing
  <2> QED BY <2>1, <2>2 DEF Stage
<1>8. Checks'
  <2>1. \A u \in Threads \ {t} : InCache(u) => HasBaton(u)'
    BY BatonKept DEF Free
  <2>2. InCache(t)' => HasBaton(t)'
    BY <1>1, <1>2 DEF Free, Now, InCache, Pass, Here, HasBaton
  <2>3. \A u \in Threads \ {t} : Place(u)' /\ (InCache(u)' <=> InCache(u))
    BY <1>2 DEF Checks, Place, Now, Alone, InCache
  <2>4. Place(t)'
    BY <1>1, <1>2 DEF Checks, Place, Now, Taking, Writing
  <2> QED BY <2>1, <2>2, <2>3, <2>4 DEF Checks
<1>9. Apart'
  BY <1>1, <1>2, <1>3, <1>5 DEF Facts, Apart, Now, Alone
<1>10. Listed'
  BY <1>1, <1>2, <1>3, FlightMoves, <1>5 DEF Facts, Listed, Stage, StageOf, Now, Alone, InCache
<1>11. CatalogOnDisk'
  BY <1>1, <1>2, <1>3 DEF CatalogOnDisk, Stage, StageOf, Apart
<1>12. NoLitter'
  <2>1. \A x \in InFlight : x # 0 => x \in InFlight'
    BY <1>1, <1>2, FlightMoves DEF Now, Alone
  <2>2. job'[t].stem \in InFlight'
    BY FlightMoves
  <2> QED BY <1>1, <1>2, <1>3, <1>5, <2>1, <2>2 DEF Facts, NoLitter, Stage, StageOf, Now
<1>13. SidecarFits'
  BY <1>1, <1>3 DEF SidecarFits, Stage, StageOf
<1> QED BY <1>4, <1>6, <1>7, <1>8, <1>9, <1>10, <1>11, <1>12, <1>13

\* A restored snapshot goes back to the catalogue, with or without its sidecar.
LEMMA RestoreInv ==
  ASSUME CacheInv, NEW t \in Threads, Restore(t)
  PROVE  CacheInv'
<1> USE CacheAssumption DEF CacheInv
<1>1. job[t].pc = "restore" /\ job[t].stem = 0 /\ t # Worker /\ HasBaton(t) /\ job[t].entry \in main
  BY DEF Restore, Pass, Here, At, Stage, StageOf, Checks, Place, Writing, Taking
<1>2. Now(t, "gc", 0, 0)
  <2>1. job[t] \in Jobs BY DEF Typed
  <2> QED BY <1>1, <2>1 DEF Restore, Goto, Now, Alone, Typed, Jobs, Pcs, Idle, Checks, Place, Writing
<1>3. /\ mtp' \in {mtp, mtp \ {job[t].entry}}
      /\ catalog' = catalog \cup {job[t].entry}
      /\ UNCHANGED <<line, spilled, image, tmp, main, crashes>>
  BY <1>1 DEF Restore, diskVars
<1>4. Typed'
  BY <1>2, <1>3, LineTyped DEF Restore, Now, Typed
<1>5. Facts(t)
  BY Before
<1>6. Begun'
  <2>1. \A u \in Threads : job'[u].stem <= spilled' /\ job'[u].entry <= spilled'
    BY <1>1, <1>2, <1>3, <1>5 DEF Facts, Now, Alone, Typed
  <2> QED BY <1>1, <1>2, <1>3, <1>5, <2>1 DEF Facts, Begun, Typed
<1>7. Stage'
  <2>1. \A u \in Threads \ {t} : StageOf(u)'
    BY <1>1, <1>2, <1>3, <1>5 DEF Facts, Stage, StageOf, Apart, Now, Alone, InCache
  <2>2. StageOf(t)'
    BY <1>1, <1>2, <1>3, <1>5 DEF Facts, Stage, StageOf, Now, Writing
  <2> QED BY <2>1, <2>2 DEF Stage
<1>8. Checks'
  <2>1. \A u \in Threads \ {t} : InCache(u) => HasBaton(u)'
    BY BatonKept DEF Restore
  <2>2. InCache(t)' => HasBaton(t)'
    BY <1>1, <1>2 DEF Restore, Now, InCache, Pass, Here, HasBaton
  <2>3. \A u \in Threads \ {t} : Place(u)' /\ (InCache(u)' <=> InCache(u))
    BY <1>2 DEF Checks, Place, Now, Alone, InCache
  <2>4. Place(t)'
    BY <1>1, <1>2 DEF Checks, Place, Now, Taking, Writing
  <2> QED BY <2>1, <2>2, <2>3, <2>4 DEF Checks
<1>9. Apart'
  BY <1>1, <1>2, <1>3, <1>5 DEF Facts, Apart, Now, Alone
<1>10. Listed'
  BY <1>1, <1>2, <1>3, FlightMoves, <1>5 DEF Facts, Listed, Stage, StageOf, Now, Alone, InCache
<1>11. CatalogOnDisk'
  BY <1>1, <1>2, <1>3 DEF CatalogOnDisk, Stage, StageOf, Apart
<1>12. NoLitter'
  <2>1. \A x \in InFlight : x # 0 => x \in InFlight'
    BY <1>1, <1>2, FlightMoves DEF Now, Alone
  <2>2. job'[t].stem \in InFlight'
    BY FlightMoves
  <2> QED BY <1>1, <1>2, <1>3, <1>5, <2>1, <2>2 DEF Facts, NoLitter, Stage, StageOf, Now
<1>13. SidecarFits'
  BY <1>1, <1>3 DEF SidecarFits, Stage, StageOf
<1> QED BY <1>4, <1>6, <1>7, <1>8, <1>9, <1>10, <1>11, <1>12, <1>13

\* The files of an unreadable snapshot are deleted while it is out of the catalogue.
LEMMA RestoreFailsInv ==
  ASSUME CacheInv, NEW t \in Threads, RestoreFails(t)
  PROVE  CacheInv'
<1> USE CacheAssumption DEF CacheInv
<1>1. job[t].pc = "restore" /\ job[t].stem = 0 /\ t # Worker /\ HasBaton(t)
  BY DEF RestoreFails, Pass, Here, At, Stage, StageOf, Checks, Place, Writing, Taking
<1>2. Now(t, "gc", 0, 0)
  <2>1. job[t] \in Jobs BY DEF Typed
  <2> QED BY <1>1, <2>1 DEF RestoreFails, Goto, Now, Alone, Typed, Jobs, Pcs, Idle, Checks, Place, Writing
<1>3. /\ main' = main \ {job[t].entry} /\ mtp' = mtp \ {job[t].entry}
      /\ UNCHANGED <<line, spilled, image, tmp, catalog, crashes>>
  BY <1>1 DEF RestoreFails, diskVars
<1>4. Typed'
  BY <1>2, <1>3, LineTyped DEF RestoreFails, Now, Typed
<1>5. Facts(t)
  BY Before
<1>6. Begun'
  <2>1. \A u \in Threads : job'[u].stem <= spilled' /\ job'[u].entry <= spilled'
    BY <1>1, <1>2, <1>3, <1>5 DEF Facts, Now, Alone, Typed
  <2> QED BY <1>1, <1>2, <1>3, <1>5, <2>1 DEF Facts, Begun, Typed
<1>7. Stage'
  <2>1. \A u \in Threads \ {t} : StageOf(u)'
    BY <1>1, <1>2, <1>3, <1>5 DEF Facts, Stage, StageOf, Apart, Now, Alone, InCache
  <2>2. StageOf(t)'
    BY <1>1, <1>2, <1>3, <1>5 DEF Facts, Stage, StageOf, Now, Writing
  <2> QED BY <2>1, <2>2 DEF Stage
<1>8. Checks'
  <2>1. \A u \in Threads \ {t} : InCache(u) => HasBaton(u)'
    BY BatonKept DEF RestoreFails
  <2>2. InCache(t)' => HasBaton(t)'
    BY <1>1, <1>2 DEF RestoreFails, Now, InCache, Pass, Here, HasBaton
  <2>3. \A u \in Threads \ {t} : Place(u)' /\ (InCache(u)' <=> InCache(u))
    BY <1>2 DEF Checks, Place, Now, Alone, InCache
  <2>4. Place(t)'
    BY <1>1, <1>2 DEF Checks, Place, Now, Taking, Writing
  <2> QED BY <2>1, <2>2, <2>3, <2>4 DEF Checks
<1>9. Apart'
  BY <1>1, <1>2, <1>3, <1>5 DEF Facts, Apart, Now, Alone
<1>10. Listed'
  BY <1>1, <1>2, <1>3, FlightMoves, <1>5 DEF Facts, Listed, Stage, StageOf, Now, Alone, InCache
<1>11. CatalogOnDisk'
  BY <1>1, <1>2, <1>3 DEF CatalogOnDisk, Stage, StageOf, Apart
<1>12. NoLitter'
  <2>1. \A x \in InFlight : x # 0 => x \in InFlight'
    BY <1>1, <1>2, FlightMoves DEF Now, Alone
  <2>2. job'[t].stem \in InFlight'
    BY FlightMoves
  <2> QED BY <1>1, <1>2, <1>3, <1>5, <2>1, <2>2 DEF Facts, NoLitter, Stage, StageOf, Now
<1>13. SidecarFits'
  BY <1>1, <1>3 DEF SidecarFits, Stage, StageOf
<1> QED BY <1>4, <1>6, <1>7, <1>8, <1>9, <1>10, <1>11, <1>12, <1>13

\* The orphans found have no main file.
LEMMA GcListInv ==
  ASSUME CacheInv, NEW t \in Threads, GcList(t)
  PROVE  CacheInv'
<1> USE CacheAssumption DEF CacheInv
<1>1. job[t].pc = "gc" /\ job[t].stem = 0 /\ job[t].entry = 0 /\ t # Worker /\ HasBaton(t)
  BY DEF GcList, Pass, Here, At, Stage, StageOf, Checks, Place, Writing, Taking
<1>2. Now(t, "sweep", 0, 0) /\ job'[t].orphans = mtp \ main
  <2>1. job[t] \in Jobs /\ mtp \ main \in SUBSET Nat BY DEF Typed, Begun
  <2> QED BY <1>1, <2>1 DEF GcList, Orphans, Now, Alone, Typed, Jobs, Pcs
<1>3. UNCHANGED <<line, spilled, image, tmp, main, mtp, catalog, crashes>>
  BY <1>1 DEF GcList, diskVars
<1>4. Typed'
  BY <1>2, <1>3, LineTyped DEF GcList, Now, Typed
<1>5. Facts(t)
  BY Before
<1>6. Begun'
  <2>1. \A u \in Threads : job'[u].stem <= spilled' /\ job'[u].entry <= spilled'
    BY <1>1, <1>2, <1>3, <1>5 DEF Facts, Now, Alone, Typed
  <2> QED BY <1>1, <1>2, <1>3, <1>5, <2>1 DEF Facts, Begun, Typed
<1>7. Stage'
  <2>1. \A u \in Threads \ {t} : StageOf(u)'
    BY <1>1, <1>2, <1>3, <1>5 DEF Facts, Stage, StageOf, Apart, Now, Alone, InCache
  <2>2. StageOf(t)'
    BY <1>1, <1>2, <1>3, <1>5 DEF Facts, Stage, StageOf, Now, Writing
  <2> QED BY <2>1, <2>2 DEF Stage
<1>8. Checks'
  <2>1. \A u \in Threads \ {t} : InCache(u) => HasBaton(u)'
    BY BatonKept DEF GcList
  <2>2. InCache(t)' => HasBaton(t)'
    BY <1>1, <1>2 DEF GcList, Now, InCache, Pass, Here, HasBaton
  <2>3. \A u \in Threads \ {t} : Place(u)' /\ (InCache(u)' <=> InCache(u))
    BY <1>2 DEF Checks, Place, Now, Alone, InCache
  <2>4. Place(t)'
    BY <1>1, <1>2 DEF Checks, Place, Now, Taking, Writing
  <2> QED BY <2>1, <2>2, <2>3, <2>4 DEF Checks
<1>9. Apart'
  BY <1>1, <1>2, <1>3, <1>5 DEF Facts, Apart, Now, Alone
<1>10. Listed'
  BY <1>1, <1>2, <1>3, FlightMoves, <1>5 DEF Facts, Listed, Stage, StageOf, Now, Alone, InCache
<1>11. CatalogOnDisk'
  BY <1>1, <1>2, <1>3 DEF CatalogOnDisk, Stage, StageOf, Apart
<1>12. NoLitter'
  <2>1. \A x \in InFlight : x # 0 => x \in InFlight'
    BY <1>1, <1>2, FlightMoves DEF Now, Alone
  <2>2. job'[t].stem \in InFlight'
    BY FlightMoves
  <2> QED BY <1>1, <1>2, <1>3, <1>5, <2>1, <2>2 DEF Facts, NoLitter, Stage, StageOf, Now
<1>13. SidecarFits'
  BY <1>1, <1>3 DEF SidecarFits, Stage, StageOf
<1> QED BY <1>4, <1>6, <1>7, <1>8, <1>9, <1>10, <1>11, <1>12, <1>13

\* What a collection removes leaves the catalogue with it.
LEMMA GcSweepInv ==
  ASSUME CacheInv, NEW t \in Threads, GcSweep(t)
  PROVE  CacheInv'
<1> USE CacheAssumption DEF CacheInv
<1>1. job[t].pc = "sweep" /\ job[t].stem = 0 /\ job[t].entry = 0 /\ t # Worker /\ HasBaton(t)
  BY DEF GcSweep, Pass, Here, At, Stage, StageOf, Checks, Place, Writing, Taking
<1>2. Now(t, "generate", 0, 0)
  <2>1. job[t] \in Jobs BY DEF Typed
  <2> QED BY <1>1, <2>1 DEF GcSweep, Goto, Now, Alone, Typed, Jobs, Pcs, Idle, Checks, Place, Writing
<1>3. /\ main' \subseteq main /\ mtp' \subseteq mtp /\ tmp' \subseteq tmp
      /\ mtp' \cap (main \ main') = {} /\ catalog' = catalog \cap main'
      /\ UNCHANGED <<spilled, image, crashes>>
  BY <1>1, Swept DEF GcSweep, diskVars
<1>4. Typed'
  BY <1>2, <1>3, LineTyped DEF GcSweep, Now, Typed
<1>5. Facts(t)
  BY Before
<1>6. Begun'
  <2>1. \A u \in Threads : job'[u].stem <= spilled' /\ job'[u].entry <= spilled'
    BY <1>1, <1>2, <1>3, <1>5 DEF Facts, Now, Alone, Typed
  <2> QED BY <1>1, <1>2, <1>3, <1>5, <2>1 DEF Facts, Begun, Typed
<1>7. Stage'
  <2>1. \A u \in Threads \ {t} : StageOf(u)'
    BY <1>1, <1>2, <1>3, <1>5 DEF Facts, Stage, StageOf, Apart, Now, Alone, InCache
  <2>2. StageOf(t)'
    BY <1>1, <1>2, <1>3, <1>5 DEF Facts, Stage, StageOf, Now, Writing
  <2> QED BY <2>1, <2>2 DEF Stage
<1>8. Checks'
  <2>1. \A u \in Threads \ {t} : InCache(u) => HasBaton(u)'
    BY BatonKept DEF GcSweep
  <2>2. InCache(t)' => HasBaton(t)'
    BY <1>1, <1>2 DEF GcSweep, Now, InCache, Pass, Here, HasBaton
  <2>3. \A u \in Threads \ {t} : Place(u)' /\ (InCache(u)' <=> InCache(u))
    BY <1>2 DEF Checks, Place, Now, Alone, InCache
  <2>4. Place(t)'
    BY <1>1, <1>2 DEF Checks, Place, Now, Taking, Writing
  <2> QED BY <2>1, <2>2, <2>3, <2>4 DEF Checks
<1>9. Apart'
  BY <1>1, <1>2, <1>3, <1>5 DEF Facts, Apart, Now, Alone
<1>10. Listed'
  BY <1>1, <1>2, <1>3, FlightMoves, <1>5 DEF Facts, Listed, Stage, StageOf, Now, Alone, InCache
<1>11. CatalogOnDisk'
  BY <1>1, <1>2, <1>3 DEF CatalogOnDisk, Stage, StageOf, Apart
<1>12. NoLitter'
  <2>1. \A x \in InFlight : x # 0 => x \in InFlight'
    BY <1>1, <1>2, FlightMoves DEF Now, Alone
  <2>2. job'[t].stem \in InFlight'
    BY FlightMoves
  <2> QED BY <1>1, <1>2, <1>3, <1>5, <2>1, <2>2 DEF Facts, NoLitter, Stage, StageOf, Now
<1>13. SidecarFits'
  BY <1>1, <1>3 DEF SidecarFits, Stage, StageOf
<1> QED BY <1>4, <1>6, <1>7, <1>8, <1>9, <1>10, <1>11, <1>12, <1>13

\* A finished turn leaves the gate and holds no snapshot.
LEMMA GenerateInv ==
  ASSUME CacheInv, NEW t \in Threads, Generate(t)
  PROVE  CacheInv'
<1> USE CacheAssumption DEF CacheInv
<1>1. job[t].pc = "generate" /\ job[t].stem = 0 /\ job[t].entry = 0
  BY DEF Generate, Pass, Here, At, Stage, StageOf, Checks, Place, Writing, Taking
<1>2. Now(t, "idle", 0, 0)
  <2>1. job[t] \in Jobs BY DEF Typed
  <2> QED BY <1>1, <2>1 DEF Generate, Goto, Now, Alone, Typed, Jobs, Pcs, Idle, Checks, Place, Writing
<1>3. UNCHANGED <<spilled, image, tmp, main, mtp, catalog, crashes>>
  BY <1>1 DEF Generate, diskVars
<1>4. Typed'
  BY <1>2, <1>3, LineTyped DEF Generate, Now, Typed
<1>5. Facts(t)
  BY Before
<1>6. Begun'
  <2>1. \A u \in Threads : job'[u].stem <= spilled' /\ job'[u].entry <= spilled'
    BY <1>1, <1>2, <1>3, <1>5 DEF Facts, Now, Alone, Typed
  <2> QED BY <1>1, <1>2, <1>3, <1>5, <2>1 DEF Facts, Begun, Typed
<1>7. Stage'
  <2>1. \A u \in Threads \ {t} : StageOf(u)'
    BY <1>1, <1>2, <1>3, <1>5 DEF Facts, Stage, StageOf, Apart, Now, Alone, InCache
  <2>2. StageOf(t)'
    BY <1>1, <1>2, <1>3, <1>5 DEF Facts, Stage, StageOf, Now, Writing
  <2> QED BY <2>1, <2>2 DEF Stage
<1>8. Checks'
  <2>1. \A u \in Threads \ {t} : InCache(u) => HasBaton(u)'
    BY BatonKept DEF Generate
  <2>2. InCache(t)' => HasBaton(t)'
    BY <1>1, <1>2 DEF Generate, Now, InCache, Pass, Here, HasBaton
  <2>3. \A u \in Threads \ {t} : Place(u)' /\ (InCache(u)' <=> InCache(u))
    BY <1>2 DEF Checks, Place, Now, Alone, InCache
  <2>4. Place(t)'
    BY <1>1, <1>2 DEF Checks, Place, Now, Taking, Writing
  <2> QED BY <2>1, <2>2, <2>3, <2>4 DEF Checks
<1>9. Apart'
  BY <1>1, <1>2, <1>3, <1>5 DEF Facts, Apart, Now, Alone
<1>10. Listed'
  BY <1>1, <1>2, <1>3, FlightMoves, <1>5 DEF Facts, Listed, Stage, StageOf, Now, Alone, InCache
<1>11. CatalogOnDisk'
  BY <1>1, <1>2, <1>3 DEF CatalogOnDisk, Stage, StageOf, Apart
<1>12. NoLitter'
  <2>1. \A x \in InFlight : x # 0 => x \in InFlight'
    BY <1>1, <1>2, FlightMoves DEF Now, Alone
  <2>2. job'[t].stem \in InFlight'
    BY FlightMoves
  <2> QED BY <1>1, <1>2, <1>3, <1>5, <2>1, <2>2 DEF Facts, NoLitter, Stage, StageOf, Now
<1>13. SidecarFits'
  BY <1>1, <1>3 DEF SidecarFits, Stage, StageOf
<1> QED BY <1>4, <1>6, <1>7, <1>8, <1>9, <1>10, <1>11, <1>12, <1>13

\* The entry a checkout takes leaves the catalogue.
LEMMA LookupInv ==
  ASSUME CacheInv, NEW t \in Threads, Lookup(t)
  PROVE  CacheInv'
<1> USE CacheAssumption DEF CacheInv
<1>1. job[t].pc = "lookup" /\ job[t].stem = 0 /\ job[t].entry = 0 /\ t # Worker /\ HasBaton(t)
  BY DEF Lookup, Pass, Here, At, Stage, StageOf, Checks, Place, Writing, Taking
<1>2. PICK p \in {"free", "spill", "gc"}, e \in catalog \cup {0} :
             Now(t, p, 0, e) /\ (e # 0 => p # "gc") /\ catalog' = catalog \ {e}
  <2>1. job[t] \in Jobs /\ catalog \subseteq Nat /\ 0 \notin catalog BY DEF Typed, Begun
  <2>2. ASSUME NEW e \in catalog, NEW p \in {"free", "spill"}, catalog' = catalog \ {e},
               job' = [job EXCEPT ![t].entry = e, ![t].pc = p]
        PROVE  Now(t, p, 0, e)
    <3>1. [job[t] EXCEPT !.entry = e, !.pc = p] \in Jobs BY <2>1, <2>2 DEF Jobs, Pcs
    <3> QED BY <1>1, <2>1, <2>2, <3>1 DEF Now, Alone, Typed, Jobs
  <2>3. ASSUME NEW p \in {"spill", "gc"}, Goto(t, p)
        PROVE  Now(t, p, 0, 0)
    <3>1. [job[t] EXCEPT !.pc = p] \in Jobs BY <2>1, <2>3 DEF Jobs, Pcs
    <3> QED BY <1>1, <2>1, <2>3, <3>1 DEF Goto, Now, Alone, Typed, Jobs
  <2> QED BY <2>1, <2>2, <2>3 DEF Lookup
<1>3. /\ catalog' = catalog \ {job'[t].entry} /\ job'[t].entry \in catalog \cup {0}
      /\ UNCHANGED <<line, spilled, image, tmp, main, mtp, crashes>>
  BY <1>1, <1>2 DEF Lookup, diskVars, Now
<1>4. Typed'
  BY <1>2, <1>3, LineTyped DEF Lookup, Now, Typed
<1>5. Facts(t)
  BY Before
<1>6. Begun'
  <2>1. \A u \in Threads : job'[u].stem <= spilled' /\ job'[u].entry <= spilled'
    BY <1>1, <1>2, <1>3, <1>5 DEF Facts, Now, Alone, Typed, Begun
  <2> QED BY <1>1, <1>2, <1>3, <1>5, <2>1 DEF Facts, Begun, Typed
<1>7. Stage'
  <2>1. \A u \in Threads \ {t} : StageOf(u)'
    BY <1>1, <1>2, <1>3, <1>5 DEF Facts, Stage, StageOf, Apart, Now, Alone, InCache
  <2>2. StageOf(t)'
    BY <1>1, <1>2, <1>3, <1>5 DEF Facts, Stage, StageOf, Now, Writing
  <2> QED BY <2>1, <2>2 DEF Stage
<1>8. Checks'
  <2>1. \A u \in Threads \ {t} : InCache(u) => HasBaton(u)'
    BY BatonKept DEF Lookup
  <2>2. InCache(t)' => HasBaton(t)'
    BY <1>1, <1>2 DEF Lookup, Now, InCache, Pass, Here, HasBaton
  <2>3. \A u \in Threads \ {t} : Place(u)' /\ (InCache(u)' <=> InCache(u))
    BY <1>2 DEF Checks, Place, Now, Alone, InCache
  <2>4. Place(t)'
    BY <1>1, <1>2 DEF Checks, Place, Now, Taking, Writing
  <2> QED BY <2>1, <2>2, <2>3, <2>4 DEF Checks
<1>9. Apart'
  BY <1>1, <1>2, <1>3, <1>5 DEF Facts, Apart, Now, Alone
<1>10. Listed'
  BY <1>1, <1>2, <1>3, FlightMoves, <1>5 DEF Facts, Listed, Stage, StageOf, Now, Alone, InCache
<1>11. CatalogOnDisk'
  BY <1>1, <1>2, <1>3 DEF CatalogOnDisk, Stage, StageOf, Apart
<1>12. NoLitter'
  <2>1. \A x \in InFlight : x # 0 => x \in InFlight'
    BY <1>1, <1>2, FlightMoves DEF Now, Alone
  <2>2. job'[t].stem \in InFlight'
    BY FlightMoves
  <2> QED BY <1>1, <1>2, <1>3, <1>5, <2>1, <2>2 DEF Facts, NoLitter, Stage, StageOf, Now
<1>13. SidecarFits'
  BY <1>1, <1>3 DEF SidecarFits, Stage, StageOf
<1> QED BY <1>4, <1>6, <1>7, <1>8, <1>9, <1>10, <1>11, <1>12, <1>13

\* The worker keeps its snapshot while it invalidates the head lanes.
LEMMA WorkerDropInv ==
  ASSUME CacheInv, NEW t \in {Worker}, WorkerDrop
  PROVE  CacheInv'
<1> USE CacheAssumption DEF CacheInv
<1>1. job[t].pc = "drop" /\ t = Worker
  BY DEF WorkerDrop, Pass, Here, At, Stage, StageOf, Checks, Place, Writing, Taking
<1>2. Now(t, "publish", job[t].stem, job[t].entry)
  <2>1. job[t] \in Jobs BY DEF Typed
  <2> QED BY <1>1, <2>1 DEF WorkerDrop, Goto, Now, Alone, Typed, Jobs, Pcs, Idle, Checks, Place, Writing
<1>3. UNCHANGED <<spilled, image, tmp, main, mtp, catalog, crashes>>
  BY <1>1 DEF WorkerDrop, diskVars
<1>4. Typed'
  BY <1>2, <1>3, LineTyped DEF WorkerDrop, Now, Typed
<1>5. Facts(t)
  BY Before
<1>6. Begun'
  <2>1. \A u \in Threads : job'[u].stem <= spilled' /\ job'[u].entry <= spilled'
    BY <1>1, <1>2, <1>3, <1>5 DEF Facts, Now, Alone, Typed
  <2> QED BY <1>1, <1>2, <1>3, <1>5, <2>1 DEF Facts, Begun, Typed
<1>7. Stage'
  <2>1. \A u \in Threads \ {t} : StageOf(u)'
    BY <1>1, <1>2, <1>3, <1>5 DEF Facts, Stage, StageOf, Apart, Now, Alone, InCache
  <2>2. StageOf(t)'
    BY <1>1, <1>2, <1>3, <1>5 DEF Facts, Stage, StageOf, Now, Writing
  <2> QED BY <2>1, <2>2 DEF Stage
<1>8. Checks'
  <2>1. \A u \in Threads \ {t} : InCache(u) => HasBaton(u)'
    BY BatonKept DEF WorkerDrop
  <2>2. InCache(t)' => HasBaton(t)'
    BY <1>1, <1>2 DEF WorkerDrop, Now, InCache, Pass, Here, HasBaton
  <2>3. \A u \in Threads \ {t} : Place(u)' /\ (InCache(u)' <=> InCache(u))
    BY <1>2 DEF Checks, Place, Now, Alone, InCache
  <2>4. Place(t)'
    BY <1>1, <1>2 DEF Checks, Place, Now, Taking, Writing
  <2> QED BY <2>1, <2>2, <2>3, <2>4 DEF Checks
<1>9. Apart'
  BY <1>1, <1>2, <1>3, <1>5 DEF Facts, Apart, Now, Alone
<1>10. Listed'
  BY <1>1, <1>2, <1>3, FlightMoves, <1>5 DEF Facts, Listed, Stage, StageOf, Now, Alone, InCache
<1>11. CatalogOnDisk'
  BY <1>1, <1>2, <1>3 DEF CatalogOnDisk, Stage, StageOf, Apart
<1>12. NoLitter'
  <2>1. \A x \in InFlight : x # 0 => x \in InFlight'
    BY <1>1, <1>2, FlightMoves DEF Now, Alone
  <2>2. job'[t].stem \in InFlight'
    BY FlightMoves
  <2> QED BY <1>1, <1>2, <1>3, <1>5, <2>1, <2>2 DEF Facts, NoLitter, Stage, StageOf, Now
<1>13. SidecarFits'
  BY <1>1, <1>3 DEF SidecarFits, Stage, StageOf
<1> QED BY <1>4, <1>6, <1>7, <1>8, <1>9, <1>10, <1>11, <1>12, <1>13

\* The worker starts a spill without a snapshot.
LEMMA WorkerReserveInv ==
  ASSUME CacheInv, NEW t \in {Worker}, NEW k \in Slots, WorkerReserve(k)
  PROVE  CacheInv'
<1> USE CacheAssumption DEF CacheInv
<1>1. job[t].pc = "idle" /\ t = Worker /\ job[t].stem = 0
  BY DEF WorkerReserve, Pass, Here, At, Stage, StageOf, Checks, Place, Writing, Taking
<1>2. Now(t, "spill", 0, 0)
  <2>1. [Idle EXCEPT !.pc = "spill", !.slot = k] \in Jobs BY DEF Idle, Jobs, Pcs
  <2> QED BY <1>1, <2>1 DEF WorkerReserve, Idle, Now, Alone, Typed
<1>3. UNCHANGED <<spilled, image, tmp, main, mtp, catalog, crashes>>
  BY <1>1 DEF WorkerReserve, diskVars
<1>4. Typed'
  BY <1>2, <1>3, LineTyped DEF WorkerReserve, Now, Typed
<1>5. Facts(t)
  BY Before
<1>6. Begun'
  <2>1. \A u \in Threads : job'[u].stem <= spilled' /\ job'[u].entry <= spilled'
    BY <1>1, <1>2, <1>3, <1>5 DEF Facts, Now, Alone, Typed
  <2> QED BY <1>1, <1>2, <1>3, <1>5, <2>1 DEF Facts, Begun, Typed
<1>7. Stage'
  <2>1. \A u \in Threads \ {t} : StageOf(u)'
    BY <1>1, <1>2, <1>3, <1>5 DEF Facts, Stage, StageOf, Apart, Now, Alone, InCache
  <2>2. StageOf(t)'
    BY <1>1, <1>2, <1>3, <1>5 DEF Facts, Stage, StageOf, Now, Writing
  <2> QED BY <2>1, <2>2 DEF Stage
<1>8. Checks'
  <2>1. \A u \in Threads \ {t} : InCache(u) => HasBaton(u)'
    BY BatonKept DEF WorkerReserve
  <2>2. InCache(t)' => HasBaton(t)'
    BY <1>1, <1>2 DEF WorkerReserve, Now, InCache, Pass, Here, HasBaton
  <2>3. \A u \in Threads \ {t} : Place(u)' /\ (InCache(u)' <=> InCache(u))
    BY <1>2 DEF Checks, Place, Now, Alone, InCache
  <2>4. Place(t)'
    BY <1>1, <1>2 DEF Checks, Place, Now, Taking, Writing
  <2> QED BY <2>1, <2>2, <2>3, <2>4 DEF Checks
<1>9. Apart'
  BY <1>1, <1>2, <1>3, <1>5 DEF Facts, Apart, Now, Alone
<1>10. Listed'
  BY <1>1, <1>2, <1>3, FlightMoves, <1>5 DEF Facts, Listed, Stage, StageOf, Now, Alone, InCache
<1>11. CatalogOnDisk'
  BY <1>1, <1>2, <1>3 DEF CatalogOnDisk, Stage, StageOf, Apart
<1>12. NoLitter'
  <2>1. \A x \in InFlight : x # 0 => x \in InFlight'
    BY <1>1, <1>2, FlightMoves DEF Now, Alone
  <2>2. job'[t].stem \in InFlight'
    BY FlightMoves
  <2> QED BY <1>1, <1>2, <1>3, <1>5, <2>1, <2>2 DEF Facts, NoLitter, Stage, StageOf, Now
<1>13. SidecarFits'
  BY <1>1, <1>3 DEF SidecarFits, Stage, StageOf
<1> QED BY <1>4, <1>6, <1>7, <1>8, <1>9, <1>10, <1>11, <1>12, <1>13

\* A checkout starts without a snapshot and without an entry.
LEMMA BeginInv ==
  ASSUME CacheInv, NEW t \in Threads, NEW k \in Slots, NEW c \in Convs, Begin(t, k, c)
  PROVE  CacheInv'
<1> USE CacheAssumption DEF CacheInv
<1>1. job[t].pc = "idle" /\ t # Worker /\ job[t].stem = 0
  BY DEF Begin, Pass, Here, At, Stage, StageOf, Checks, Place, Writing, Taking
<1>2. Now(t, "lookup", 0, 0)
  <2>1. [Idle EXCEPT !.pc = "lookup", !.slot = k, !.conv = c] \in Jobs BY DEF Idle, Jobs, Pcs
  <2> QED BY <1>1, <2>1 DEF Begin, Idle, Now, Alone, Typed
<1>3. UNCHANGED <<spilled, image, tmp, main, mtp, catalog, crashes>>
  BY <1>1 DEF Begin, diskVars
<1>4. Typed'
  BY <1>2, <1>3, LineTyped DEF Begin, Now, Typed
<1>5. Facts(t)
  BY Before
<1>6. Begun'
  <2>1. \A u \in Threads : job'[u].stem <= spilled' /\ job'[u].entry <= spilled'
    BY <1>1, <1>2, <1>3, <1>5 DEF Facts, Now, Alone, Typed
  <2> QED BY <1>1, <1>2, <1>3, <1>5, <2>1 DEF Facts, Begun, Typed
<1>7. Stage'
  <2>1. \A u \in Threads \ {t} : StageOf(u)'
    BY <1>1, <1>2, <1>3, <1>5 DEF Facts, Stage, StageOf, Apart, Now, Alone, InCache
  <2>2. StageOf(t)'
    BY <1>1, <1>2, <1>3, <1>5 DEF Facts, Stage, StageOf, Now, Writing
  <2> QED BY <2>1, <2>2 DEF Stage
<1>8. Checks'
  <2>1. \A u \in Threads \ {t} : InCache(u) => HasBaton(u)'
    BY BatonKept DEF Begin
  <2>2. InCache(t)' => HasBaton(t)'
    BY <1>1, <1>2 DEF Begin, Now, InCache, Pass, Here, HasBaton
  <2>3. \A u \in Threads \ {t} : Place(u)' /\ (InCache(u)' <=> InCache(u))
    BY <1>2 DEF Checks, Place, Now, Alone, InCache
  <2>4. Place(t)'
    BY <1>1, <1>2 DEF Checks, Place, Now, Taking, Writing
  <2> QED BY <2>1, <2>2, <2>3, <2>4 DEF Checks
<1>9. Apart'
  BY <1>1, <1>2, <1>3, <1>5 DEF Facts, Apart, Now, Alone
<1>10. Listed'
  BY <1>1, <1>2, <1>3, FlightMoves, <1>5 DEF Facts, Listed, Stage, StageOf, Now, Alone, InCache
<1>11. CatalogOnDisk'
  BY <1>1, <1>2, <1>3 DEF CatalogOnDisk, Stage, StageOf, Apart
<1>12. NoLitter'
  <2>1. \A x \in InFlight : x # 0 => x \in InFlight'
    BY <1>1, <1>2, FlightMoves DEF Now, Alone
  <2>2. job'[t].stem \in InFlight'
    BY FlightMoves
  <2> QED BY <1>1, <1>2, <1>3, <1>5, <2>1, <2>2 DEF Facts, NoLitter, Stage, StageOf, Now
<1>13. SidecarFits'
  BY <1>1, <1>3 DEF SidecarFits, Stage, StageOf
<1> QED BY <1>4, <1>6, <1>7, <1>8, <1>9, <1>10, <1>11, <1>12, <1>13

\* The worker publishes only what the collection of the same step leaves on disk.
LEMMA PublishInv ==
  ASSUME CacheInv, NEW t \in {Worker}, Publish
  PROVE  CacheInv'
<1> USE CacheAssumption DEF CacheInv
<1>1. job[t].pc = "publish" /\ t = Worker /\ \A u \in Threads : ~InCache(u)
  BY DEF Publish, Pass, Here, At, CatalogFree, Stage, StageOf, Checks, Place, Writing, Taking
<1>2. Now(t, "idle", 0, 0)
  <2>1. job[t] \in Jobs BY DEF Typed
  <2> QED BY <1>1, <2>1 DEF Publish, Goto, Now, Alone, Typed, Jobs, Pcs, Idle, Checks, Place, Writing
<1>3. /\ main' \subseteq main /\ mtp' \subseteq mtp /\ tmp' \subseteq tmp
      /\ mtp' \cap (main \ main') = {} /\ mtp' \cap (mtp \ main) = {}
      /\ catalog' = (catalog \cup {job[t].stem}) \cap main'
      /\ UNCHANGED <<line, spilled, image, crashes>>
  BY <1>1, Swept DEF Publish, diskVars, Orphans
<1>4. Typed'
  BY <1>2, <1>3, LineTyped DEF Publish, Now, Typed
<1>5. Facts(t)
  BY Before
<1>6. Begun'
  <2>1. \A u \in Threads : job'[u].stem <= spilled' /\ job'[u].entry <= spilled'
    BY <1>1, <1>2, <1>3, <1>5 DEF Facts, Now, Alone, Typed
  <2> QED BY <1>1, <1>2, <1>3, <1>5, <2>1 DEF Facts, Begun, Typed
<1>7. Stage'
  <2>1. \A u \in Threads \ {t} : StageOf(u)'
    BY <1>1, <1>2, <1>3, <1>5 DEF Facts, Stage, StageOf, Apart, Now, Alone, InCache
  <2>2. StageOf(t)'
    BY <1>1, <1>2, <1>3, <1>5 DEF Facts, Stage, StageOf, Now, Writing
  <2> QED BY <2>1, <2>2 DEF Stage
<1>8. Checks'
  <2>1. \A u \in Threads \ {t} : InCache(u) => HasBaton(u)'
    BY BatonKept DEF Publish
  <2>2. InCache(t)' => HasBaton(t)'
    BY <1>1, <1>2 DEF Publish, Now, InCache, Pass, Here, HasBaton
  <2>3. \A u \in Threads \ {t} : Place(u)' /\ (InCache(u)' <=> InCache(u))
    BY <1>2 DEF Checks, Place, Now, Alone, InCache
  <2>4. Place(t)'
    BY <1>1, <1>2 DEF Checks, Place, Now, Taking, Writing
  <2> QED BY <2>1, <2>2, <2>3, <2>4 DEF Checks
<1>9. Apart'
  BY <1>1, <1>2, <1>3, <1>5 DEF Facts, Apart, Now, Alone
<1>10. Listed'
  BY <1>1, <1>2, <1>3, FlightMoves, <1>5 DEF Facts, Listed, Stage, StageOf, Now, Alone, InCache
<1>11. CatalogOnDisk'
  BY <1>1, <1>2, <1>3 DEF CatalogOnDisk, Stage, StageOf, Apart
<1>12. NoLitter'
  <2>1. \A x \in InFlight : x # 0 /\ x # job[t].stem => x \in InFlight'
    BY <1>1, <1>2, FlightMoves DEF Now, Alone
  <2>2. job'[t].stem \in InFlight'
    BY FlightMoves
  <2> QED BY <1>1, <1>2, <1>3, <1>5, <2>1, <2>2 DEF Facts, NoLitter, Stage, StageOf, Now
<1>13. SidecarFits'
  BY <1>1, <1>3 DEF SidecarFits, Stage, StageOf
<1> QED BY <1>4, <1>6, <1>7, <1>8, <1>9, <1>10, <1>11, <1>12, <1>13

\* A thread that queues for the gate, a bystander, and a step that changes nothing.
LEMMA QueueInv ==
  ASSUME CacheInv, UNCHANGED cacheVars, UNCHANGED line \/ \E t \in Threads : Enter(t)
  PROVE  CacheInv'
<1>1. PICK t \in Threads : UNCHANGED line \/ Join(t)
  BY CacheAssumption DEF Enter
<1>2. line' \in Seq(Threads)
  BY <1>1, LineTyped DEF CacheInv
<1>3. Typed' /\ Begun'
  BY <1>2 DEF CacheInv, cacheVars, Typed, Begun
<1>4. Stage' /\ Apart'
  BY DEF CacheInv, cacheVars, Stage, StageOf, Apart
<1>5. Listed'
  BY DEF CacheInv, cacheVars, Listed, InFlight, InCache
<1>6. CatalogOnDisk' /\ NoLitter' /\ SidecarFits'
  BY DEF CacheInv, cacheVars, CatalogOnDisk, NoLitter, SidecarFits, InFlight
<1>7. \A u \in Threads : Place(u)' /\ (InCache(u)' <=> InCache(u))
  BY DEF CacheInv, Checks, cacheVars, Place, InCache
<1>8. ASSUME NEW u \in Threads, InCache(u)
      PROVE  HasBaton(u)'
  <2>1. HasBaton(u) BY <1>8 DEF CacheInv, Checks
  <2>2. CASE u = t
    BY <1>1, <2>1, <2>2 DEF Join, InLine, HasBaton
  <2>3. CASE u # t
    BY <1>1, <1>8, <2>3, BatonKept
  <2> QED BY <2>2, <2>3
<1> QED BY <1>3, <1>4, <1>5, <1>6, <1>7, <1>8 DEF CacheInv, Checks

\* A killed process leaves files only, and the next one collects what has lost its main file.
LEMMA CrashInv ==
  ASSUME CacheInv, Crash
  PROVE  CacheInv'
<1> USE CacheAssumption DEF CacheInv
<1>1. job' = [t \in Threads |-> Idle] /\ Idle \in Jobs /\ \A t \in Threads : job'[t] = Idle
  BY DEF Crash, Idle, Jobs, Pcs
<1>2. /\ main' \subseteq main /\ mtp' \subseteq mtp /\ tmp' \subseteq tmp
      /\ mtp' \subseteq main' /\ catalog' = main'
      /\ line' = <<>> /\ crashes' = crashes + 1
      /\ UNCHANGED <<spilled, image>>
  BY Swept DEF Crash, Orphans
<1>3. Typed' BY <1>1, <1>2 DEF Typed
<1>4. Begun'
  BY <1>1, <1>2 DEF Begun, Idle, Typed
<1>5. Stage' /\ Checks' /\ Listed'
  BY <1>1 DEF Stage, StageOf, Checks, Place, Listed, InCache, Idle, Writing, Taking
<1>6. Apart'
  BY <1>1, <1>4 DEF Apart, Idle, Begun
<1>7. CatalogOnDisk' BY <1>2 DEF CatalogOnDisk
<1>8. NoLitter' BY <1>2 DEF NoLitter, Typed
<1>9. SidecarFits' BY <1>2 DEF SidecarFits
<1> QED BY <1>3, <1>4, <1>5, <1>6, <1>7, <1>8, <1>9

\* Every step preserves the invariant.
LEMMA CacheStep ==
  ASSUME CacheInv, [Next]_vars
  PROVE  CacheInv'
<1> USE CacheAssumption
<1>1. CASE UNCHANGED vars
  BY <1>1, QueueInv DEF vars
<1>2. ASSUME NEW t \in Threads, Thread(t)
      PROVE  CacheInv'
  <2>1. CASE Enter(t)
    BY <2>1, QueueInv DEF Enter
  <2>2. CASE Spilling(t)
    BY <2>2, SpillWriteInv, SpillWriteFailsInv, RenameMtpInv, RenameFailsInv, RenameMainInv,
       ReleaseInv, ReleaseFailsInv DEF Spilling
  <2>3. CASE Checkout(t)
    BY <2>3, LookupInv, FreeInv, RestoreInv, RestoreFailsInv, GcListInv, GcSweepInv, GenerateInv
       DEF Checkout
  <2> QED BY <1>2, <2>1, <2>2, <2>3 DEF Thread
<1>3. ASSUME NEW k \in Slots, WorkerReserve(k)
      PROVE  CacheInv'
  BY <1>3, WorkerReserveInv
<1>4. CASE WorkerDrop
  BY <1>4, WorkerDropInv
<1>5. CASE Publish
  BY <1>5, PublishInv
<1>6. ASSUME NEW t \in Callers, NEW k \in Slots, NEW c \in Convs, Begin(t, k, c)
      PROVE  CacheInv'
  BY <1>6, BeginInv DEF Callers
<1>7. CASE Crash
  BY <1>7, CrashInv
<1> QED BY <1>1, <1>2, <1>3, <1>4, <1>5, <1>6, <1>7 DEF Next

\* The strengthened invariant holds in every reachable state.
THEOREM CacheInvariant == Spec => []CacheInv
<1>1. Init => CacheInv BY CacheInitInv
<1>2. CacheInv /\ [Next]_vars => CacheInv' BY CacheStep
<1> QED BY <1>1, <1>2, PTL DEF Spec

\* Whatever is evicted, deleted or lost between a rename, its publication and the next collection,
\* an entry of the catalogue has its main file.
THEOREM CatalogAlwaysOnDisk == Spec => []CatalogOnDisk
<1>1. CacheInv => CatalogOnDisk BY DEF CacheInv
<1> QED BY <1>1, CacheInvariant, PTL

\* Failed spills and kills leave no sidecar without its main file, and no temporary file before the
\* first kill.
THEOREM NothingLitters == Spec => []NoLitter
<1>1. CacheInv => NoLitter BY DEF CacheInv
<1> QED BY <1>1, CacheInvariant, PTL

\* A sidecar on disk describes the tokens of its main file.
THEOREM SidecarsFit == Spec => []SidecarFits
<1>1. CacheInv => SidecarFits BY DEF CacheInv
<1> QED BY <1>1, CacheInvariant, PTL

\* What one step may take from a pair whose main file stays: only the sidecar of a snapshot that is
\* being published, or of one a checkout is restoring.
LEMMA PairStep ==
  ASSUME CacheInv, [Next]_vars, NEW s \in main \cap main', s \in mtp \ mtp'
  PROVE  s \in InFlight \/ \E t \in Callers : Restore(t) /\ job[t].entry = s
<1> USE CacheAssumption DEF diskVars
<1>1. CASE UNCHANGED vars BY <1>1 DEF vars, cacheVars
<1>2. ASSUME NEW t \in Threads, Thread(t)
      PROVE  s \in InFlight \/ \E u \in Callers : Restore(u) /\ job[u].entry = s
  <2>1. ~Enter(t) BY DEF Enter, cacheVars
  <2>2. CASE Spilling(t)
    <3>1. RenameFails(t) \/ ReleaseFails(t)
      BY <2>2 DEF Spilling, SpillWrite, SpillWriteFails, RenameMtp, RenameMain, Release
    <3>2. s = job[t].stem BY <3>1 DEF RenameFails, ReleaseFails
    <3> QED BY <3>2 DEF InFlight
  <2>3. CASE Checkout(t)
    <3>1. Restore(t) \/ GcSweep(t)
      BY <2>3 DEF Checkout, Lookup, Free, RestoreFails, GcList, Generate
    <3>2. CASE Restore(t)
      <4>1. job[t].entry = s BY <3>2 DEF Restore
      <4>2. t # Worker BY <3>2 DEF Restore, Pass, CacheInv, Checks, Place, Writing
      <4> QED BY <3>2, <4>1, <4>2 DEF Callers
    <3>3. CASE GcSweep(t)
      <4>1. s \in job[t].orphans BY <3>3, Swept DEF GcSweep
      <4>2. InCache(t) /\ job[t].pc = "sweep"
        BY <3>3 DEF GcSweep, Pass, InCache, CacheInv, Checks, Place, Writing
      <4> QED BY <4>1, <4>2 DEF CacheInv, Listed
    <3> QED BY <3>1, <3>2, <3>3
  <2> QED BY <1>2, <2>1, <2>2, <2>3 DEF Thread
<1>3. ~(\E k \in Slots : WorkerReserve(k)) /\ ~WorkerDrop
  BY DEF WorkerReserve, WorkerDrop
<1>4. ~Publish /\ ~Crash
  BY Swept DEF Publish, Crash, Orphans
<1>5. ~\E t \in Callers, k \in Slots, c \in Convs : Begin(t, k, c)
  BY DEF Begin
<1> QED BY <1>1, <1>2, <1>3, <1>4, <1>5 DEF Next

\* No collection tears a pair apart.
THEOREM PairsAlwaysStayWhole == Spec => PairsStayWhole
<1>1. CacheInv /\ [Next]_vars =>
        [\A s \in main \cap main' : s \in mtp \ mtp' =>
           s \in InFlight \/ \E t \in Callers : Restore(t) /\ job[t].entry = s]_vars
  BY PairStep
<1> QED BY <1>1, CacheInvariant, PTL DEF Spec, PairsStayWhole

-----------------------------------------------------------------------------
(* What becomes of a conversation.  KvInv adds to CacheInv whose KV is in  *)
(* the slot a thread works on, and in the snapshot it writes or restores.  *)

Kvs == (Convs \cup {None}) \X Nat
SlotStates == [Slots -> [kv : Kvs, lane : Kvs, busy : BOOLEAN]]
Images == [Stems -> [kv : Kvs, lane : Kvs]]

Shapes ==
  /\ turn \in [Convs -> Nat] /\ slot \in SlotStates
  /\ image \in Images /\ spilled \in 0..MaxStems

\* A snapshot being written holds the KV of the slot, which is empty once it was released; a checkout
\* restores and continues its own conversation only.
Saving  == {"renameMtp", "renameMain", "release"}
Cleared == {"drop", "free", "restore"}
Ready   == {"gc", "sweep", "generate"}
HoldsOf(t) ==
  /\ job[t].pc # "idle" =>
       job[t].slot \in Slots /\ slot[job[t].slot].busy /\ (t # Worker => job[t].conv \in Convs)
  /\ job[t].pc \in Saving => image[job[t].stem].kv = Kv(t)
  /\ job[t].pc \in Cleared => Kv(t) = NoKv
  /\ t # Worker /\ job[t].pc \in Ready => Kv(t)[1] \in {None, job[t].conv}
  /\ job[t].entry # 0 => image[job[t].entry].kv[1] = job[t].conv
Holds == \A t \in Threads : HoldsOf(t)

\* A slot is worked on by one thread at a time.
OneOwner ==
  \A t, u \in Threads : t # u /\ job[t].pc # "idle" /\ job[u].pc # "idle" => job[t].slot # job[u].slot

KvInv == Shapes /\ Holds /\ OneOwner

\* Thread t moves to pc and works on slot k, which is its own or was free, and leaves kv there.
Moved(t, k, pc, stem, entry, kv) ==
  /\ Now(t, pc, stem, entry) /\ k \in Slots
  /\ IF job[t].pc = "idle" THEN ~slot[k].busy ELSE job[t].slot = k
  /\ pc # "idle" => job'[t].slot = k /\ slot'[k].busy /\ (t # Worker => job'[t].conv \in Convs)
  /\ slot' \in SlotStates /\ slot'[k].kv = kv /\ \A j \in Slots \ {k} : slot'[j] = slot[j]
  /\ spilled' \in 0..MaxStems
  /\ image' \in Images /\ \A x \in Stems : x <= spilled => image'[x] = image[x]

\* What the new place asks of the thread's snapshots and slot.
Fits(t, pc, stem, entry, kv) ==
  /\ pc \in Saving => image'[stem].kv = kv
  /\ pc \in Cleared => kv = NoKv
  /\ t # Worker /\ pc \in Ready => kv[1] \in {None, job'[t].conv}
  /\ entry # 0 => image'[entry].kv[1] = job'[t].conv

\* A snapshot that was begun has a record.
LEMMA HasRecord ==
  ASSUME KvInv, NEW x \in Nat, x # 0, x <= spilled
  PROVE  x \in Stems
BY CacheAssumption DEF KvInv, Shapes, Stems

\* One thread moves, the others hold what they held.
LEMMA HoldsMove ==
  ASSUME CacheInv, KvInv, NEW t \in Threads, NEW k, NEW pc, NEW stem, NEW entry, NEW kv,
         Moved(t, k, pc, stem, entry, kv), Fits(t, pc, stem, entry, kv), turn' \in [Convs -> Nat]
  PROVE  KvInv'
<1> USE DEF KvInv
<1>1. Shapes'
  BY DEF Shapes, Moved
<1>2. ASSUME NEW u \in Threads \ {t} PROVE HoldsOf(u)'
  <2>1. job'[u] = job[u] /\ HoldsOf(u)
    BY DEF Moved, Now, Alone, Holds
  <2>2. job[u].pc # "idle" => job[u].slot \in Slots \ {k}
    BY <2>1 DEF Moved, HoldsOf, OneOwner
  <2>3. job[u].pc # "idle" => slot'[job[u].slot] = slot[job[u].slot]
    BY <2>2 DEF Moved
  <2>4. job[u].pc \in Saving => image'[job[u].stem] = image[job[u].stem]
    <3>1. job[u].pc \in Saving => job[u].stem # 0
      BY DEF CacheInv, Stage, StageOf, Saving
    <3> QED
      BY <3>1, HasRecord, JobNumbers DEF CacheInv, Typed, Begun, Moved
  <2>5. job[u].entry # 0 => image'[job[u].entry] = image[job[u].entry]
    BY HasRecord, JobNumbers DEF CacheInv, Typed, Begun, Moved
  <2>6. Kv(u)' = slot'[job'[u].slot].kv /\ Kv(u) = slot[job[u].slot].kv
    BY DEF Kv
  <2> QED
    BY <2>1, <2>3, <2>4, <2>5, <2>6 DEF HoldsOf, Saving, Cleared, Ready
<1>3. HoldsOf(t)'
  <2>1. pc # "idle" => Kv(t)' = kv
    BY DEF Kv, Moved
  <2>2. job'[t].pc = pc /\ job'[t].stem = stem /\ job'[t].entry = entry
    BY DEF Moved, Now
  <2> QED
    BY <2>1, <2>2 DEF HoldsOf, Moved, Fits, Saving, Cleared, Ready
<1>4. OneOwner'
  <2>1. ASSUME NEW u \in Threads \ {t}, job[u].pc # "idle" PROVE job[u].slot # k
    BY <2>1 DEF Moved, Holds, HoldsOf, OneOwner
  <2> QED
    BY <2>1 DEF OneOwner, Moved, Now, Alone
<1> QED
  BY <1>1, <1>2, <1>3, <1>4 DEF Holds

\* A conversation is resident, or in a file that somebody knows.
Stored(last) == \E s \in main \cap Known : image[s].kv = last

\* Who knows a snapshot.
LEMMA WhoKnows ==
  ASSUME NEW x
  PROVE  /\ x \in Known <=> x \in catalog \/ \E u \in Threads : job[u].stem = x \/ job[u].entry = x
         /\ x \in Known' <=> x \in catalog' \/ \E u \in Threads : job'[u].stem = x \/ job'[u].entry = x
BY DEF Known

\* One thread moves: a conversation that had its last turn resident or stored keeps one of the two,
\* unless a file with it goes.
LEMMA KeptMove ==
  ASSUME CacheInv, KvInv, NEW t \in Threads, NEW k, NEW pc, NEW stem, NEW entry, NEW kv,
         Moved(t, k, pc, stem, entry, kv),
         NEW c \in Convs, Continues(c), turn'[c] = turn[c],
         slot[k].kv = <<c, turn[c]>> => kv = <<c, turn[c]>> \/ Stored(<<c, turn[c]>>),
         \A x \in main \cap main' : x \in catalog \cup {job[t].stem, job[t].entry}
            => x \in catalog' \cup {stem, entry}
  PROVE  Continues(c)' \/ \E s \in main \ main' : image[s].kv = <<c, turn[c]>>
<1> DEFINE last == <<c, turn[c]>>
<1>1. SUFFICES ASSUME turn[c] # 0, \A s \in main \ main' : image[s].kv # last
               PROVE  Continues(c)'
  BY DEF Continues
<1>2. ASSUME NEW x \in main \cap Known, image[x].kv = last
      PROVE  x \in main' \cap Known' /\ image'[x].kv = last
  <2>1. x \in main'
    BY <1>1, <1>2
  <2>2. x \in Known'
    <3>1. CASE x \in catalog \cup {job[t].stem, job[t].entry}
      <4>1. x \in catalog' \cup {stem, entry}
        BY <1>2, <2>1, <3>1
      <4> QED
        BY <4>1, WhoKnows DEF Moved, Now
    <3>2. ASSUME NEW u \in Threads \ {t}, job[u].stem = x \/ job[u].entry = x
          PROVE  x \in Known'
      <4>1. job'[u] = job[u]
        BY DEF Moved, Now, Alone
      <4> QED
        BY <3>2, <4>1, WhoKnows
    <3> QED
      BY <1>2, <3>1, <3>2, WhoKnows
  <2>3. x \in Nat /\ x # 0 /\ x <= spilled
    BY <1>2 DEF CacheInv, Begun, Typed
  <2>4. image'[x] = image[x]
    BY <2>3, HasRecord DEF Moved
  <2> QED
    BY <1>2, <2>1, <2>2, <2>4
<1>3. Stored(last) => \E s \in (main \cap Known)' : image'[s].kv = last
  BY <1>2 DEF Stored
<1>4. ASSUME NEW j \in Slots, slot[j].kv = last
      PROVE  (\E i \in Slots : slot'[i].kv = last) \/ Stored(last)
  <2>1. CASE j = k
    BY <1>4, <2>1 DEF Moved
  <2>2. CASE j # k
    BY <1>4, <2>2 DEF Moved
  <2> QED
    BY <2>1, <2>2
<1>5. (\E i \in Slots : slot'[i].kv = last) \/ \E s \in (main \cap Known)' : image'[s].kv = last
  BY <1>1, <1>3, <1>4 DEF Continues, Stored
<1> QED
  BY <1>5 DEF Continues

\* What an action may do to conversations.
NoneLost == \A c \in Convs : Continues(c) /\ ~Continues(c)' => LostByPolicy(c)

\* The same for every conversation, of an action that serves no turn.
LEMMA NoneLostMove ==
  ASSUME CacheInv, KvInv, NEW t \in Threads, NEW k, NEW pc, NEW stem, NEW entry, NEW kv,
         Moved(t, k, pc, stem, entry, kv), turn' = turn,
         kv = slot[k].kv \/ slot[k].kv = NoKv
           \/ \E s \in main \cap Known : image[s].kv = slot[k].kv,
         \A x \in main \cap main' : x \in catalog \cup {job[t].stem, job[t].entry}
            => x \in catalog' \cup {stem, entry}
  PROVE  NoneLost
<1> SUFFICES ASSUME NEW c \in Convs, Continues(c), ~Continues(c)' PROVE LostByPolicy(c)
  BY DEF NoneLost
<1>1. NoKv # <<c, turn[c]>>
  BY CacheAssumption DEF NoKv
<1>2. slot[k].kv = <<c, turn[c]>> => kv = <<c, turn[c]>> \/ Stored(<<c, turn[c]>>)
  BY <1>1 DEF Stored
<1>3. \E s \in main \ main' : image[s].kv = <<c, turn[c]>>
  BY <1>2, KeptMove
<1> QED
  BY <1>3 DEF LostByPolicy

\* Both conclusions of an action that serves no turn.
LEMMA MoveKeeps ==
  ASSUME CacheInv, KvInv, NEW t \in Threads, NEW k, NEW pc, NEW stem, NEW entry, NEW kv,
         Moved(t, k, pc, stem, entry, kv), Fits(t, pc, stem, entry, kv), turn' = turn,
         kv = slot[k].kv \/ slot[k].kv = NoKv
           \/ \E s \in main \cap Known : image[s].kv = slot[k].kv,
         \A x \in main \cap main' : x \in catalog \cup {job[t].stem, job[t].entry}
            => x \in catalog' \cup {stem, entry}
  PROVE  KvInv' /\ NoneLost
<1>1. KvInv'
  BY HoldsMove DEF KvInv, Shapes
<1>2. NoneLost
  BY NoneLostMove
<1> QED
  BY <1>1, <1>2

\* A thread at work goes on with the same slot and conversation.
GoesOn(t, pc, stem, entry) ==
  /\ job[t].pc # "idle" /\ Now(t, pc, stem, entry)
  /\ job'[t].slot = job[t].slot /\ job'[t].conv = job[t].conv

\* The records of snapshots that were begun stay.
RecordsKept ==
  /\ spilled' \in 0..MaxStems /\ image' \in Images
  /\ \A x \in Stems : x <= spilled => image'[x] = image[x]

LEMMA SameRecords ==
  ASSUME KvInv, UNCHANGED image, UNCHANGED spilled
  PROVE  RecordsKept
BY DEF KvInv, Shapes, RecordsKept

\* What a thread at work has.
LEMMA AtWork ==
  ASSUME KvInv, NEW t \in Threads, job[t].pc # "idle"
  PROVE  /\ job[t].slot \in Slots /\ slot[job[t].slot] \in [kv : Kvs, lane : Kvs, busy : BOOLEAN]
         /\ slot[job[t].slot].busy /\ Kv(t) = slot[job[t].slot].kv /\ Kv(t) \in Kvs
         /\ t # Worker => job[t].conv \in Convs
<1>1. HoldsOf(t)
  BY DEF KvInv, Holds
<1>2. job[t].slot \in Slots /\ slot[job[t].slot].busy /\ (t # Worker => job[t].conv \in Convs)
  BY <1>1 DEF HoldsOf
<1>3. slot[job[t].slot] \in [kv : Kvs, lane : Kvs, busy : BOOLEAN]
  BY <1>2 DEF KvInv, Shapes, SlotStates
<1> QED
  BY <1>2, <1>3 DEF Kv

\* It leaves the slot as it is, or writes it.
LEMMA MovesStill ==
  ASSUME KvInv, NEW t \in Threads, NEW pc, NEW stem, NEW entry,
         GoesOn(t, pc, stem, entry), RecordsKept, UNCHANGED slot
  PROVE  Moved(t, job[t].slot, pc, stem, entry, Kv(t))
<1>1. slot' = slot /\ slot \in SlotStates
  BY DEF KvInv, Shapes
<1>2. job[t].pc # "idle"
  BY DEF GoesOn
<1> QED
  BY <1>1, <1>2, AtWork DEF GoesOn, RecordsKept, Moved

LEMMA MovesWriting ==
  ASSUME KvInv, NEW t \in Threads, NEW pc, NEW stem, NEW entry, NEW kv \in Kvs, NEW lane \in Kvs,
         GoesOn(t, pc, stem, entry), RecordsKept, SetSlot(t, kv, lane)
  PROVE  Moved(t, job[t].slot, pc, stem, entry, kv)
<1> DEFINE k == job[t].slot
<1>1. job[t].pc # "idle"
  BY DEF GoesOn
<1>2. k \in Slots /\ slot[k] \in [kv : Kvs, lane : Kvs, busy : BOOLEAN] /\ slot[k].busy
      /\ (t # Worker => job[t].conv \in Convs)
  BY <1>1, AtWork
<1>3. slot' = [slot EXCEPT ![k] = [slot[k] EXCEPT !.kv = kv, !.lane = lane]]
  BY <1>2 DEF SetSlot, KvInv, Shapes, SlotStates
<1>4. [slot[k] EXCEPT !.kv = kv, !.lane = lane] \in [kv : Kvs, lane : Kvs, busy : BOOLEAN]
  BY <1>2
<1>5. /\ slot' \in SlotStates /\ slot'[k].kv = kv /\ slot'[k].busy
      /\ \A j \in Slots \ {k} : slot'[j] = slot[j]
  BY <1>2, <1>3, <1>4 DEF KvInv, Shapes, SlotStates
<1> HIDE DEF k
<1> QED
  BY <1>1, <1>2, <1>5 DEF GoesOn, RecordsKept, Moved, k

\* What HoldsOf and the stages say of the snapshots of a thread.
LEMMA Snapshots ==
  ASSUME CacheInv, KvInv, NEW t \in Threads
  PROVE  /\ job[t] \in Jobs /\ job[t].stem \in Nat /\ job[t].entry \in Nat
         /\ 0 \notin main /\ job[t].stem <= spilled /\ job[t].entry <= spilled
         /\ job[t].stem # 0 => job[t].stem \in Stems
         /\ job[t].entry # 0 => job[t].entry \in Stems /\ t # Worker
              /\ image[job[t].entry].kv[1] = job[t].conv
         /\ job[t].stem \notin catalog /\ job[t].entry \notin catalog
         /\ job[t].stem \in Known /\ job[t].entry \in Known
         /\ NoKv \in Kvs /\ NoKv[1] = None
<1>1. job[t] \in Jobs /\ job[t].stem \in Nat /\ job[t].entry \in Nat
  BY JobNumbers DEF CacheInv, Typed
<1>2. 0 \notin main /\ job[t].stem <= spilled /\ job[t].entry <= spilled
  BY DEF CacheInv, Begun
<1>3. job[t].entry # 0 => t # Worker
  BY DEF CacheInv, Checks, Place
<1>4. job[t].entry # 0 => image[job[t].entry].kv[1] = job[t].conv
  BY DEF KvInv, Holds, HoldsOf
<1>5. job[t].stem \notin catalog /\ job[t].entry \notin catalog
  BY DEF CacheInv, Apart
<1>6. NoKv \in Kvs /\ NoKv[1] = None
  BY DEF NoKv, Kvs
<1> QED
  BY <1>1, <1>2, <1>3, <1>4, <1>5, <1>6, HasRecord, WhoKnows

\* A new snapshot records what the slot holds.
LEMMA SpillWriteKeeps ==
  ASSUME CacheInv, KvInv, NEW t \in Threads, SpillWrite(t)
  PROVE  KvInv' /\ NoneLost
<1> DEFINE s == spilled + 1
           pc == IF LaneState(job[t].slot) = NoKv THEN "renameMain" ELSE "renameMtp"
<1>1. /\ job[t].pc = "spill" /\ job[t].stem = 0 /\ pc \in {"renameMain", "renameMtp"}
      /\ s \in Nat /\ s \in Stems /\ s <= MaxStems /\ spilled \in Nat
  BY CacheAssumption DEF SpillWrite, Pass, Stage, StageOf, Writing, CacheInv, KvInv, Shapes, Stems
<1>2. GoesOn(t, pc, s, job[t].entry)
  <2>1. job' = [job EXCEPT ![t].stem = s, ![t].pc = pc]
    BY DEF SpillWrite
  <2>2. pc \in Pcs
    BY <1>1 DEF Pcs
  <2>3. job[t] \in Jobs /\ job \in [Threads -> Jobs]
    BY DEF CacheInv, Typed
  <2>4. [job[t] EXCEPT !.stem = s, !.pc = pc] \in Jobs
    BY <1>1, <2>2, <2>3 DEF Jobs
  <2> HIDE DEF s, pc
  <2> QED
    BY <1>1, <2>1, <2>3, <2>4 DEF GoesOn, Now, Alone, Jobs
<1>3. /\ Kv(t) \in Kvs /\ LaneState(job[t].slot) \in Kvs
      /\ [kv |-> Kv(t), lane |-> LaneState(job[t].slot)] \in [kv : Kvs, lane : Kvs]
  BY <1>1, AtWork, Snapshots DEF LaneState
<1>4. /\ RecordsKept /\ image'[s].kv = Kv(t) /\ \A x \in Stems \ {s} : image'[x] = image[x]
  BY <1>1, <1>3 DEF SpillWrite, RecordsKept, KvInv, Shapes, Images
<1>5. Moved(t, job[t].slot, pc, s, job[t].entry, Kv(t))
  BY <1>2, <1>4, MovesStill DEF SpillWrite
<1>6. Fits(t, pc, s, job[t].entry, Kv(t))
  <2>1. job[t].entry # 0 => job[t].entry \in Stems \ {s} /\ job'[t].conv = job[t].conv
    BY <1>1, <1>2, Snapshots DEF GoesOn
  <2> HIDE DEF s
  <2> QED
    BY <1>1, <1>4, <2>1, Snapshots DEF Fits, Saving, Cleared, Ready
<1>7. \A x \in main \cap main' : x \in catalog \cup {job[t].stem, job[t].entry}
        => x \in catalog' \cup {s, job[t].entry}
  BY <1>1, Snapshots DEF SpillWrite
<1>8. Kv(t) = slot[job[t].slot].kv /\ turn' = turn
  BY DEF Kv, SpillWrite
<1> HIDE DEF s, pc
<1> QED
  BY <1>5, <1>6, <1>7, <1>8, MoveKeeps

\* Where a failed spill leaves its thread.
LEMMA FailGoesOn ==
  ASSUME CacheInv, KvInv, NEW t \in Threads, SpillFails(t), job[t].pc # "idle"
  PROVE  IF t = Worker
         THEN GoesOn(t, "publish", 0, job[t].entry) /\ slot' = slot
         ELSE /\ \E pc \in {"gc", "free"} : GoesOn(t, pc, 0, job[t].entry)
              /\ SetSlot(t, NoKv, NoKv)
<1>1. job[t] \in Jobs /\ job \in [Threads -> Jobs]
  BY DEF CacheInv, Typed
<1>2. ASSUME NEW pc \in Pcs, job' = [job EXCEPT ![t].pc = pc, ![t].stem = 0]
      PROVE  GoesOn(t, pc, 0, job[t].entry)
  <2>1. [job[t] EXCEPT !.pc = pc, !.stem = 0] \in Jobs
    BY <1>1 DEF Jobs
  <2> QED
    BY <1>1, <1>2, <2>1 DEF GoesOn, Now, Alone, Jobs
<1>3. CASE t = Worker
  <2>1. job' = [job EXCEPT ![t].pc = "publish", ![t].stem = 0] /\ slot' = slot
    BY <1>3 DEF SpillFails
  <2> QED
    BY <1>2, <1>3, <2>1 DEF Pcs
<1>4. CASE t # Worker
  <2> DEFINE pc == IF job[t].entry = 0 THEN "gc" ELSE "free"
  <2>1. job' = [job EXCEPT ![t].pc = pc, ![t].stem = 0] /\ SetSlot(t, NoKv, NoKv)
    BY <1>4 DEF SpillFails
  <2>2. pc \in {"gc", "free"} /\ pc \in Pcs
    BY DEF Pcs
  <2> HIDE DEF pc
  <2>3. GoesOn(t, pc, 0, job[t].entry)
    BY <1>2, <2>1, <2>2
  <2> QED
    BY <1>4, <2>1, <2>2, <2>3
<1> QED
  BY <1>3, <1>4

\* A spill fails: the worker leaves the KV where it is, and no file with it was in place.
LEMMA FailKeeps ==
  ASSUME CacheInv, KvInv, NEW t \in Threads, SpillFails(t), job[t].pc \in {"spill"} \cup Saving,
         RecordsKept, UNCHANGED <<turn, catalog>>, job[t].stem \notin main',
         t # Worker => (job[t].pc = "release" \/ SpillWriteFails(t) \/ RenameFails(t))
  PROVE  KvInv' /\ NoneLost
<1>1. job[t].pc # "idle"
  BY DEF Saving
<1>2. \A x \in main \cap main' : x \in catalog \cup {job[t].stem, job[t].entry}
        => x \in catalog' \cup {0, job[t].entry}
  OBVIOUS
<1>3. job[t].entry # 0 => image'[job[t].entry] = image[job[t].entry]
  BY Snapshots DEF RecordsKept
<1>4. CASE t = Worker
  <2>1. GoesOn(t, "publish", 0, job[t].entry) /\ slot' = slot
    BY <1>1, <1>4, FailGoesOn
  <2>2. Moved(t, job[t].slot, "publish", 0, job[t].entry, Kv(t))
    BY <2>1, MovesStill
  <2>3. Fits(t, "publish", 0, job[t].entry, Kv(t))
    BY <1>4, Snapshots DEF Fits, Saving, Cleared, Ready
  <2>4. Kv(t) = slot[job[t].slot].kv
    BY DEF Kv
  <2> QED
    BY <1>2, <2>2, <2>3, <2>4, MoveKeeps
<1>5. CASE t # Worker
  <2>1. PICK pc \in {"gc", "free"} : GoesOn(t, pc, 0, job[t].entry)
    BY <1>1, <1>5, FailGoesOn
  <2>2. SetSlot(t, NoKv, NoKv) /\ NoKv \in Kvs
    BY <1>1, <1>5, FailGoesOn, Snapshots
  <2>3. Moved(t, job[t].slot, pc, 0, job[t].entry, NoKv)
    BY <2>1, <2>2, MovesWriting
  <2>4. Fits(t, pc, 0, job[t].entry, NoKv)
    BY <1>3, <1>5, <2>1, Snapshots DEF Fits, Saving, Cleared, Ready, GoesOn
  <2>5. KvInv'
    BY <2>3, <2>4, HoldsMove DEF KvInv, Shapes
  <2>6. CASE SpillWriteFails(t) \/ RenameFails(t)
    BY <1>5, <2>5, <2>6 DEF NoneLost, LostByPolicy, Callers
  <2>7. CASE job[t].pc = "release"
    <3>1. job[t].stem \in main \cap Known
      BY <1>5, <2>7, Snapshots DEF CacheInv, Stage, StageOf
    <3>2. image[job[t].stem].kv = slot[job[t].slot].kv
      BY <2>7 DEF KvInv, Holds, HoldsOf, Saving, Kv
    <3> QED
      BY <1>2, <2>3, <2>4, <3>1, <3>2, MoveKeeps
  <2> QED
    BY <1>5, <2>6, <2>7
<1> QED
  BY <1>4, <1>5

LEMMA SpillWriteFailsKeeps ==
  ASSUME CacheInv, KvInv, NEW t \in Threads, SpillWriteFails(t)
  PROVE  KvInv' /\ NoneLost
<1>1. job[t].pc = "spill" /\ job[t].stem = 0
  BY DEF SpillWriteFails, Pass, CacheInv, Stage, StageOf, Writing
<1>2. main' = main /\ 0 \notin main /\ UNCHANGED <<turn, catalog>>
  BY Snapshots DEF SpillWriteFails, diskVars
<1>3. RecordsKept
  BY CacheAssumption DEF SpillWriteFails, diskVars, KvInv, Shapes, RecordsKept
<1> QED
  BY <1>1, <1>2, <1>3, FailKeeps DEF SpillWriteFails

LEMMA RenameFailsKeeps ==
  ASSUME CacheInv, KvInv, NEW t \in Threads, RenameFails(t)
  PROVE  KvInv' /\ NoneLost
<1>1. job[t].pc \in {"renameMtp", "renameMain"}
  BY DEF RenameFails, Here, At, Pass
<1>2. main' = main /\ job[t].stem \notin main /\ UNCHANGED <<turn, catalog>>
  BY <1>1 DEF RenameFails, CacheInv, Stage, StageOf
<1>3. RecordsKept
  BY SameRecords DEF RenameFails
<1> QED
  BY <1>1, <1>2, <1>3, FailKeeps DEF RenameFails, Saving

LEMMA ReleaseFailsKeeps ==
  ASSUME CacheInv, KvInv, NEW t \in Threads, ReleaseFails(t)
  PROVE  KvInv' /\ NoneLost
<1>1. job[t].pc = "release"
  BY DEF ReleaseFails, Pass
<1>2. job[t].stem \notin main' /\ UNCHANGED <<turn, catalog>>
  BY DEF ReleaseFails
<1>3. RecordsKept
  BY SameRecords DEF ReleaseFails
<1> QED
  BY <1>1, <1>2, <1>3, FailKeeps DEF ReleaseFails, Saving

\* A thread at a place that only the right kind of thread reaches.
LEMMA Places ==
  ASSUME CacheInv, KvInv, NEW t \in Threads
  PROVE  /\ job[t].pc \notin Writing => job[t].stem = 0
         /\ job[t].pc \notin Taking => job[t].entry = 0
         /\ job[t].pc \in {"drop", "publish"} => t = Worker
         /\ job[t].pc \in {"lookup", "free", "restore", "gc", "sweep", "generate"} => t # Worker
         /\ job[t].pc \in Saving => image[job[t].stem].kv = Kv(t)
         /\ job[t].pc \in Cleared => Kv(t) = NoKv
         /\ t # Worker /\ job[t].pc \in Ready => Kv(t)[1] \in {None, job[t].conv}
<1>1. StageOf(t) /\ Place(t) /\ HoldsOf(t)
  BY DEF CacheInv, KvInv, Stage, Checks, Holds
<1> QED
  BY <1>1 DEF StageOf, Place, HoldsOf, Writing

\* The files change, the slot does not.
LEMMA StillKeeps ==
  ASSUME CacheInv, KvInv, NEW t \in Threads, NEW pc, NEW stem, NEW entry,
         GoesOn(t, pc, stem, entry), UNCHANGED <<turn, slot, spilled, image>>,
         Fits(t, pc, stem, entry, Kv(t)),
         \A x \in main \cap main' : x \in catalog \cup {job[t].stem, job[t].entry}
            => x \in catalog' \cup {stem, entry}
  PROVE  KvInv' /\ NoneLost
<1>1. Moved(t, job[t].slot, pc, stem, entry, Kv(t))
  BY MovesStill, SameRecords
<1>2. Kv(t) = slot[job[t].slot].kv
  BY DEF Kv
<1> QED
  BY <1>1, <1>2, MoveKeeps

LEMMA RenameMtpKeeps ==
  ASSUME CacheInv, KvInv, NEW t \in Threads, RenameMtp(t)
  PROVE  KvInv' /\ NoneLost
<1>1. job[t].pc = "renameMtp"
  BY DEF RenameMtp, Here, At, Pass
<1>2. GoesOn(t, "renameMain", job[t].stem, job[t].entry)
  BY <1>1, Snapshots DEF RenameMtp, Goto, GoesOn, Now, Alone, CacheInv, Typed, Jobs, Pcs
<1>3. Fits(t, "renameMain", job[t].stem, job[t].entry, Kv(t))
  BY <1>1, <1>2, Places, Snapshots DEF RenameMtp, Fits, GoesOn, Saving, Cleared, Ready
<1> QED
  BY <1>2, <1>3, StillKeeps DEF RenameMtp

LEMMA RenameMainKeeps ==
  ASSUME CacheInv, KvInv, NEW t \in Threads, RenameMain(t)
  PROVE  KvInv' /\ NoneLost
<1>1. job[t].pc = "renameMain"
  BY DEF RenameMain, Here, At, Pass
<1>2. GoesOn(t, "release", job[t].stem, job[t].entry)
  BY <1>1, Snapshots DEF RenameMain, Goto, GoesOn, Now, Alone, CacheInv, Typed, Jobs, Pcs
<1>3. Fits(t, "release", job[t].stem, job[t].entry, Kv(t))
  BY <1>1, <1>2, Places, Snapshots DEF RenameMain, Fits, GoesOn, Saving, Cleared, Ready
<1> QED
  BY <1>2, <1>3, StillKeeps DEF RenameMain

\* The KV leaves the slot for the file that records it, or that was evicted meanwhile.
LEMMA ReleaseKeeps ==
  ASSUME CacheInv, KvInv, NEW t \in Threads, Release(t)
  PROVE  KvInv' /\ NoneLost
<1> DEFINE k == job[t].slot
           pc == IF t = Worker THEN "drop" ELSE IF job[t].entry = 0 THEN "gc" ELSE "restore"
           stem == IF t = Worker THEN job[t].stem ELSE 0
<1>1. job[t].pc = "release" /\ UNCHANGED <<turn, spilled, image, main>>
  BY DEF Release, Pass, diskVars
<1>2. job[t] \in Jobs /\ job \in [Threads -> Jobs]
  BY DEF CacheInv, Typed
<1>3. GoesOn(t, pc, stem, job[t].entry)
  <2>1. CASE t = Worker
    BY <1>1, <1>2, <2>1 DEF Release, Goto, GoesOn, Now, Alone, Jobs, Pcs
  <2>2. CASE t # Worker
    BY <1>1, <1>2, <2>2 DEF Release, GoesOn, Now, Alone, Jobs, Pcs
  <2> QED
    BY <2>1, <2>2
<1>4. PICK lane \in Kvs : SetSlot(t, NoKv, lane)
  <2>1. slot[k].lane \in Kvs /\ NoKv \in Kvs
    BY <1>1, AtWork, Snapshots
  <2> QED
    BY <2>1 DEF Release
<1>5. Moved(t, k, pc, stem, job[t].entry, NoKv)
  BY <1>1, <1>3, <1>4, MovesWriting, SameRecords, Snapshots
<1>6. Fits(t, pc, stem, job[t].entry, NoKv)
  BY <1>1, <1>3, Snapshots DEF Fits, Saving, Cleared, Ready, GoesOn
<1>7. \A x \in main \cap main' : x \in catalog \cup {job[t].stem, job[t].entry}
        => x \in catalog' \cup {stem, job[t].entry}
  BY DEF Release
<1>8. image[job[t].stem].kv = slot[k].kv /\ job[t].stem \in Known
  BY <1>1, Places, Snapshots DEF Saving, Kv
<1> HIDE DEF k, pc, stem
<1>9. CASE job[t].stem \in main
  BY <1>1, <1>5, <1>6, <1>7, <1>8, <1>9, MoveKeeps
<1>10. CASE job[t].stem \notin main
  <2>1. KvInv'
    BY <1>1, <1>5, <1>6, HoldsMove DEF KvInv, Shapes
  <2> QED
    BY <1>10, <2>1 DEF NoneLost, LostByPolicy
<1> QED
  BY <1>9, <1>10

\* A checkout takes a snapshot of its own conversation from the catalogue, or none.
LEMMA LookupKeeps ==
  ASSUME CacheInv, KvInv, NEW t \in Threads, Lookup(t)
  PROVE  KvInv' /\ NoneLost
<1>1. /\ job[t].pc = "lookup" /\ t # Worker /\ job[t].stem = 0 /\ job[t].entry = 0
      /\ UNCHANGED <<turn, slot, spilled, image, main>>
  BY Places DEF Lookup, Pass, diskVars, Writing, Taking
<1>2. job[t] \in Jobs /\ job \in [Threads -> Jobs] /\ 0 \notin main
  BY Snapshots DEF CacheInv, Typed
<1>3. Kv(t) = slot[job[t].slot].kv
  BY DEF Kv
<1>4. ASSUME NEW s \in catalog, image[s].kv[1] = job[t].conv, catalog' = catalog \ {s},
             job' = [job EXCEPT ![t].entry = s, ![t].pc = IF Kv(t) = NoKv THEN "free" ELSE "spill"]
      PROVE  KvInv' /\ NoneLost
  <2> DEFINE pc == IF Kv(t) = NoKv THEN "free" ELSE "spill"
  <2>1. s \in Nat /\ s # 0
    BY DEF CacheInv, Begun, Typed
  <2>2. GoesOn(t, pc, 0, s)
    BY <1>1, <1>2, <1>4, <2>1 DEF GoesOn, Now, Alone, Jobs, Pcs
  <2>3. Fits(t, pc, 0, s, Kv(t))
    BY <1>1, <1>4, <2>2 DEF Fits, GoesOn, Saving, Cleared, Ready
  <2>4. \A x \in main \cap main' : x \in catalog \cup {job[t].stem, job[t].entry}
          => x \in catalog' \cup {0, s}
    BY <1>1, <1>2, <1>4
  <2> QED
    BY <1>1, <2>2, <2>3, <2>4, StillKeeps
<1>5. ASSUME NEW pc \in {"spill", "gc"}, job' = [job EXCEPT ![t].pc = pc], catalog' = catalog,
             pc = "gc" => Kv(t) = NoKv \/ Resident(job[t].slot, job[t].conv) # 0
      PROVE  KvInv' /\ NoneLost
  <2>1. GoesOn(t, pc, 0, 0)
    BY <1>1, <1>2, <1>5 DEF GoesOn, Now, Alone, Jobs, Pcs
  <2>2. Fits(t, pc, 0, 0, Kv(t))
    BY <1>1, <1>3, <1>5, <2>1, Snapshots DEF Fits, GoesOn, Saving, Cleared, Ready, Resident
  <2>3. \A x \in main \cap main' : x \in catalog \cup {job[t].stem, job[t].entry}
          => x \in catalog' \cup {0, 0}
    BY <1>1, <1>5
  <2> QED
    BY <1>1, <2>1, <2>2, <2>3, StillKeeps
<1>6. \/ \E s \in catalog :
           /\ image[s].kv[1] = job[t].conv /\ catalog' = catalog \ {s}
           /\ job' = [job EXCEPT ![t].entry = s, ![t].pc = IF Kv(t) = NoKv THEN "free" ELSE "spill"]
      \/ /\ catalog' = catalog
         /\ job' = [job EXCEPT ![t].pc =
              IF Kv(t) # NoKv /\ Resident(job[t].slot, job[t].conv) = 0 THEN "spill" ELSE "gc"]
  BY DEF Lookup, Goto
<1>7. CASE catalog' = catalog /\ job' = [job EXCEPT ![t].pc =
              IF Kv(t) # NoKv /\ Resident(job[t].slot, job[t].conv) = 0 THEN "spill" ELSE "gc"]
  <2>1. CASE Kv(t) # NoKv /\ Resident(job[t].slot, job[t].conv) = 0
    <3>1. job' = [job EXCEPT ![t].pc = "spill"]
      BY <1>7, <2>1
    <3> QED
      BY <1>5, <1>7, <3>1
  <2>2. CASE ~(Kv(t) # NoKv /\ Resident(job[t].slot, job[t].conv) = 0)
    <3>1. job' = [job EXCEPT ![t].pc = "gc"]
      BY <1>7, <2>2
    <3> QED
      BY <1>5, <1>7, <2>2, <3>1
  <2> QED
    BY <2>1, <2>2
<1> QED
  BY <1>4, <1>6, <1>7

\* A slot that was cleared is written.
LEMMA ClearKeeps ==
  ASSUME CacheInv, KvInv, NEW t \in Threads, NEW pc, NEW stem, NEW entry, NEW kv \in Kvs, NEW lane \in Kvs,
         job[t].pc \in Cleared, GoesOn(t, pc, stem, entry), SetSlot(t, kv, lane),
         UNCHANGED <<turn, spilled, image>>, Fits(t, pc, stem, entry, kv),
         \A x \in main \cap main' : x \in catalog \cup {job[t].stem, job[t].entry}
            => x \in catalog' \cup {stem, entry}
  PROVE  KvInv' /\ NoneLost
<1>1. Moved(t, job[t].slot, pc, stem, entry, kv)
  BY MovesWriting, SameRecords
<1>2. slot[job[t].slot].kv = NoKv
  BY Places DEF Kv
<1> QED
  BY <1>1, <1>2, MoveKeeps

LEMMA FreeKeeps ==
  ASSUME CacheInv, KvInv, NEW t \in Threads, Free(t)
  PROVE  KvInv' /\ NoneLost
<1>1. /\ job[t].pc = "free" /\ t # Worker /\ job[t].stem = 0
      /\ UNCHANGED <<turn, spilled, image, main>> /\ SetSlot(t, NoKv, NoKv)
  BY Places DEF Free, Pass, diskVars, Writing
<1>2. job[t] \in Jobs /\ job \in [Threads -> Jobs] /\ 0 \notin main
  BY Snapshots DEF CacheInv, Typed
<1>3. CASE Goto(t, "restore") /\ UNCHANGED catalog
  <2>1. GoesOn(t, "restore", 0, job[t].entry)
    BY <1>1, <1>2, <1>3 DEF Goto, GoesOn, Now, Alone, Jobs, Pcs
  <2>2. Fits(t, "restore", 0, job[t].entry, NoKv)
    BY <1>1, <2>1, Snapshots DEF Fits, GoesOn, Saving, Cleared, Ready
  <2>3. \A x \in main \cap main' : x \in catalog \cup {job[t].stem, job[t].entry}
          => x \in catalog' \cup {0, job[t].entry}
    BY <1>1, <1>3
  <2> QED
    BY <1>1, <2>1, <2>2, <2>3, ClearKeeps, Snapshots DEF Cleared
<1>4. CASE /\ job' = [job EXCEPT ![t].pc = "gc", ![t].entry = 0]
           /\ catalog' = catalog \cup ({job[t].entry} \cap main)
  <2>1. GoesOn(t, "gc", 0, 0)
    BY <1>1, <1>2, <1>4 DEF GoesOn, Now, Alone, Jobs, Pcs
  <2>2. Fits(t, "gc", 0, 0, NoKv)
    BY <1>1, <2>1, Snapshots DEF Fits, GoesOn, Saving, Cleared, Ready
  <2>3. \A x \in main \cap main' : x \in catalog \cup {job[t].stem, job[t].entry}
          => x \in catalog' \cup {0, 0}
    BY <1>1, <1>4
  <2> QED
    BY <1>1, <2>1, <2>2, <2>3, ClearKeeps, Snapshots DEF Cleared
<1> QED
  BY <1>3, <1>4 DEF Free

\* The restored KV is of the conversation that is served.
LEMMA RestoreKeeps ==
  ASSUME CacheInv, KvInv, NEW t \in Threads, Restore(t)
  PROVE  KvInv' /\ NoneLost
<1> DEFINE e == job[t].entry
<1>1. /\ job[t].pc = "restore" /\ t # Worker /\ job[t].stem = 0
      /\ UNCHANGED <<turn, spilled, image, main>>
  BY Places DEF Restore, Pass, Writing
<1>2. job[t] \in Jobs /\ job \in [Threads -> Jobs] /\ 0 \notin main
  BY Snapshots DEF CacheInv, Typed
<1>3. e \in Stems /\ image[e].kv[1] = job[t].conv
  BY <1>2, Snapshots DEF Restore
<1>4. image[e].kv \in Kvs /\ image[e].lane \in Kvs /\ NoKv \in Kvs
  BY <1>3, Snapshots DEF KvInv, Shapes, Images
<1>5. PICK lane \in Kvs : SetSlot(t, image[e].kv, lane)
  BY <1>4 DEF Restore
<1>6. GoesOn(t, "gc", 0, 0)
  BY <1>1, <1>2 DEF Restore, GoesOn, Now, Alone, Jobs, Pcs
<1>7. Fits(t, "gc", 0, 0, image[e].kv)
  BY <1>1, <1>3, <1>6 DEF Fits, GoesOn, Saving, Cleared, Ready
<1>8. \A x \in main \cap main' : x \in catalog \cup {job[t].stem, job[t].entry}
        => x \in catalog' \cup {0, 0}
  BY <1>1 DEF Restore
<1> HIDE DEF e
<1> QED
  BY <1>1, <1>4, <1>5, <1>6, <1>7, <1>8, ClearKeeps DEF Cleared

LEMMA RestoreFailsKeeps ==
  ASSUME CacheInv, KvInv, NEW t \in Threads, RestoreFails(t)
  PROVE  KvInv' /\ NoneLost
<1>1. /\ job[t].pc = "restore" /\ t # Worker /\ job[t].stem = 0
      /\ UNCHANGED <<turn, spilled, image, catalog>> /\ SetSlot(t, NoKv, NoKv)
  BY Places DEF RestoreFails, Pass, Writing
<1>2. job[t] \in Jobs /\ job \in [Threads -> Jobs] /\ 0 \notin main
  BY Snapshots DEF CacheInv, Typed
<1>3. GoesOn(t, "gc", 0, 0)
  BY <1>1, <1>2 DEF RestoreFails, GoesOn, Now, Alone, Jobs, Pcs
<1>4. Fits(t, "gc", 0, 0, NoKv)
  BY <1>1, <1>3, Snapshots DEF Fits, GoesOn, Saving, Cleared, Ready
<1>5. \A x \in main \cap main' : x \in catalog \cup {job[t].stem, job[t].entry}
        => x \in catalog' \cup {0, 0}
  BY <1>1, <1>2 DEF RestoreFails
<1> QED
  BY <1>1, <1>3, <1>4, <1>5, ClearKeeps, Snapshots DEF Cleared

LEMMA GcListKeeps ==
  ASSUME CacheInv, KvInv, NEW t \in Threads, GcList(t)
  PROVE  KvInv' /\ NoneLost
<1>1. /\ job[t].pc = "gc" /\ t # Worker /\ job[t].stem = 0 /\ job[t].entry = 0
      /\ UNCHANGED <<turn, slot, spilled, image, main, catalog>>
  BY Places DEF GcList, Pass, diskVars, Writing, Taking
<1>2. job[t] \in Jobs /\ job \in [Threads -> Jobs] /\ 0 \notin main /\ Orphans \in SUBSET Nat
  BY Snapshots DEF CacheInv, Typed, Begun, Orphans
<1>3. GoesOn(t, "sweep", 0, 0)
  BY <1>1, <1>2 DEF GcList, GoesOn, Now, Alone, Jobs, Pcs
<1>4. Fits(t, "sweep", 0, 0, Kv(t))
  BY <1>1, <1>3, Places DEF Fits, GoesOn, Saving, Cleared, Ready
<1> QED
  BY <1>1, <1>2, <1>3, <1>4, StillKeeps

\* What a collection leaves of the catalogue is what it leaves of the files.
LEMMA GcSweepKeeps ==
  ASSUME CacheInv, KvInv, NEW t \in Threads, GcSweep(t)
  PROVE  KvInv' /\ NoneLost
<1>1. /\ job[t].pc = "sweep" /\ t # Worker /\ job[t].stem = 0 /\ job[t].entry = 0
      /\ UNCHANGED <<turn, slot, spilled, image>> /\ catalog' = catalog \cap main'
  BY Places DEF GcSweep, Pass, Writing, Taking
<1>2. job[t] \in Jobs /\ job \in [Threads -> Jobs] /\ 0 \notin main
  BY Snapshots DEF CacheInv, Typed
<1>3. GoesOn(t, "generate", 0, 0)
  BY <1>1, <1>2 DEF GcSweep, GoesOn, Now, Alone, Jobs, Pcs
<1>4. Fits(t, "generate", 0, 0, Kv(t))
  BY <1>1, <1>3, Places DEF Fits, GoesOn, Saving, Cleared, Ready
<1>5. \A x \in main \cap main' : x \in catalog \cup {job[t].stem, job[t].entry}
        => x \in catalog' \cup {0, 0}
  BY <1>1, <1>2
<1> QED
  BY <1>1, <1>3, <1>4, <1>5, StillKeeps

LEMMA WorkerDropKeeps ==
  ASSUME CacheInv, KvInv, Worker \in Threads, WorkerDrop
  PROVE  KvInv' /\ NoneLost
<1>1. /\ job[Worker].pc = "drop" /\ job[Worker].entry = 0
      /\ UNCHANGED <<turn, spilled, image, main, catalog>> /\ SetSlot(Worker, NoKv, NoKv)
  BY Places DEF WorkerDrop, Pass, diskVars, Taking
<1>2. job[Worker] \in Jobs /\ job \in [Threads -> Jobs]
  BY DEF CacheInv, Typed
<1>3. GoesOn(Worker, "publish", job[Worker].stem, 0)
  BY <1>1, <1>2 DEF WorkerDrop, Goto, GoesOn, Now, Alone, Jobs, Pcs
<1>4. Fits(Worker, "publish", job[Worker].stem, 0, NoKv)
  BY DEF Fits, Saving, Cleared, Ready
<1> QED
  BY <1>1, <1>3, <1>4, ClearKeeps, Snapshots DEF Cleared

\* An idle thread takes a free slot.
LEMMA TakeKeeps ==
  ASSUME CacheInv, KvInv, NEW t \in Threads, NEW k \in Slots, NEW pc \in {"spill", "lookup"},
         NEW next \in Jobs, next.pc = pc, next.slot = k, next.stem = 0, next.entry = 0,
         t # Worker => next.conv \in Convs, job[t].pc = "idle", ~slot[k].busy,
         job' = [job EXCEPT ![t] = next], slot' = [slot EXCEPT ![k].busy = TRUE],
         UNCHANGED <<turn, spilled, image, main, catalog>>
  PROVE  KvInv' /\ NoneLost
<1>1. job[t].stem = 0 /\ job[t].entry = 0 /\ 0 \notin main
  BY Places, Snapshots DEF Writing, Taking
<1>2. Now(t, pc, 0, 0) /\ job'[t].slot = k /\ job'[t].conv = next.conv
  BY DEF CacheInv, Typed, Now, Alone
<1>3. /\ slot' \in SlotStates /\ slot'[k].kv = slot[k].kv /\ slot'[k].busy
      /\ \A j \in Slots \ {k} : slot'[j] = slot[j]
  <2>1. slot[k] \in [kv : Kvs, lane : Kvs, busy : BOOLEAN]
    BY DEF KvInv, Shapes, SlotStates
  <2>2. [slot[k] EXCEPT !.busy = TRUE] \in [kv : Kvs, lane : Kvs, busy : BOOLEAN]
    BY <2>1
  <2> QED
    BY <2>1, <2>2 DEF KvInv, Shapes, SlotStates
<1>4. Moved(t, k, pc, 0, 0, slot[k].kv)
  BY <1>2, <1>3, SameRecords DEF Moved, RecordsKept
<1>5. Fits(t, pc, 0, 0, slot[k].kv)
  BY DEF Fits, Saving, Cleared, Ready
<1> QED
  BY <1>1, <1>4, <1>5, MoveKeeps

LEMMA WorkerReserveKeeps ==
  ASSUME CacheInv, KvInv, Worker \in Threads, NEW k \in Slots, WorkerReserve(k)
  PROVE  KvInv' /\ NoneLost
<1> DEFINE next == [Idle EXCEPT !.pc = "spill", !.slot = k]
<1>1. /\ next \in Jobs /\ next.pc = "spill" /\ next.slot = k
      /\ next.stem = 0 /\ next.entry = 0
  BY DEF Idle, Jobs, Pcs
<1>2. job' = [job EXCEPT ![Worker] = next]
  BY DEF WorkerReserve
<1> HIDE DEF next
<1> QED
  BY <1>1, <1>2, TakeKeeps DEF WorkerReserve, At, diskVars

LEMMA BeginKeeps ==
  ASSUME CacheInv, KvInv, NEW t \in Callers, NEW k \in Slots, NEW c \in Convs, Begin(t, k, c)
  PROVE  KvInv' /\ NoneLost
<1> DEFINE next == [Idle EXCEPT !.pc = "lookup", !.slot = k, !.conv = c]
<1>1. /\ next \in Jobs /\ next.pc = "lookup" /\ next.slot = k /\ next.conv = c
      /\ next.stem = 0 /\ next.entry = 0
  BY DEF Idle, Jobs, Pcs
<1>2. job' = [job EXCEPT ![t] = next]
  BY DEF Begin
<1> HIDE DEF next
<1> QED
  BY <1>1, <1>2, TakeKeeps DEF Begin, At, diskVars, Callers

\* The worker gives its slot back; a file it publishes stays known unless the collection takes it.
LEMMA PublishKeeps ==
  ASSUME CacheInv, KvInv, Worker \in Threads, Publish
  PROVE  KvInv' /\ NoneLost
<1> DEFINE k == job[Worker].slot
<1>1. /\ job[Worker].pc = "publish" /\ job[Worker].entry = 0 /\ 0 \notin main
      /\ UNCHANGED <<turn, spilled, image>>
      /\ catalog' = (catalog \cup {job[Worker].stem}) \cap main'
      /\ slot' = [slot EXCEPT ![k].busy = FALSE] /\ job' = [job EXCEPT ![Worker] = Idle]
  BY Places, Snapshots DEF Publish, At, Taking
<1>2. Now(Worker, "idle", 0, 0)
  BY <1>1 DEF CacheInv, Typed, Idle, Now, Alone, Jobs, Pcs
<1>3. k \in Slots /\ slot[k] \in [kv : Kvs, lane : Kvs, busy : BOOLEAN]
  BY <1>1, AtWork
<1>4. /\ slot' \in SlotStates /\ slot'[k].kv = slot[k].kv
      /\ \A j \in Slots \ {k} : slot'[j] = slot[j]
  <2>1. [slot[k] EXCEPT !.busy = FALSE] \in [kv : Kvs, lane : Kvs, busy : BOOLEAN]
    BY <1>3
  <2> HIDE DEF k
  <2> QED
    BY <1>1, <1>3, <2>1 DEF KvInv, Shapes, SlotStates
<1>5. Moved(Worker, k, "idle", 0, 0, slot[k].kv)
  BY <1>1, <1>2, <1>3, <1>4, SameRecords DEF Moved, RecordsKept
<1>6. Fits(Worker, "idle", 0, 0, slot[k].kv)
  BY DEF Fits, Saving, Cleared, Ready
<1>7. \A x \in main \cap main' : x \in catalog \cup {job[Worker].stem, job[Worker].entry}
        => x \in catalog' \cup {0, 0}
  BY <1>1
<1> HIDE DEF k
<1> QED
  BY <1>1, <1>5, <1>6, <1>7, MoveKeeps

\* The new turn is resident; the slot held no other conversation.
LEMMA GenerateKeeps ==
  ASSUME CacheInv, KvInv, NEW t \in Threads, Generate(t)
  PROVE  KvInv' /\ NoneLost
<1> DEFINE k == job[t].slot
           d == job[t].conv
           kv == <<d, turn[d] + 1>>
<1>1. /\ job[t].pc = "generate" /\ t # Worker /\ job[t].stem = 0 /\ job[t].entry = 0
      /\ UNCHANGED <<spilled, image, main, catalog>> /\ 0 \notin main
      /\ job' = [job EXCEPT ![t] = Idle]
  BY Places, Snapshots DEF Generate, Pass, diskVars, Writing, Taking
<1>2. Now(t, "idle", 0, 0)
  BY <1>1 DEF CacheInv, Typed, Idle, Now, Alone, Jobs, Pcs
<1>3. k \in Slots /\ slot[k] \in [kv : Kvs, lane : Kvs, busy : BOOLEAN] /\ d \in Convs
  BY <1>1, AtWork
<1>4. turn' \in [Convs -> Nat] /\ turn'[d] = turn[d] + 1 /\ kv \in Kvs
      /\ \A c \in Convs \ {d} : turn'[c] = turn[c]
  BY <1>3 DEF Generate, KvInv, Shapes, Kvs
<1>5. /\ slot' \in SlotStates /\ slot'[k].kv = kv
      /\ \A j \in Slots \ {k} : slot'[j] = slot[j]
  <2>1. PICK lane \in {kv, NoKv, slot[k].lane} :
          slot' = [slot EXCEPT ![k] = [kv |-> kv, lane |-> lane, busy |-> FALSE]]
    BY DEF Generate
  <2>2. [kv |-> kv, lane |-> lane, busy |-> FALSE] \in [kv : Kvs, lane : Kvs, busy : BOOLEAN]
    BY <1>3, <1>4, Snapshots
  <2> HIDE DEF k, kv
  <2> QED
    BY <1>3, <2>1, <2>2 DEF KvInv, Shapes, SlotStates
<1>6. Moved(t, k, "idle", 0, 0, kv)
  BY <1>1, <1>2, <1>3, <1>5, SameRecords DEF Moved, RecordsKept
<1>7. Fits(t, "idle", 0, 0, kv)
  BY DEF Fits, Saving, Cleared, Ready
<1>8. KvInv'
  BY <1>4, <1>6, <1>7, HoldsMove
<1>9. slot[k].kv[1] \in {None, d}
  BY <1>1, Places DEF Ready, Kv
<1>10. ASSUME NEW c \in Convs, Continues(c), ~Continues(c)' PROVE LostByPolicy(c)
  <2>1. CASE c = d
    <3>1. slot'[k].kv = <<c, turn'[c]>>
      BY <1>4, <1>5, <2>1
    <3> QED
      BY <1>3, <1>10, <3>1 DEF Continues
  <2>2. CASE c # d
    <3>1. slot[k].kv = <<c, turn[c]>> => kv = <<c, turn[c]>> \/ Stored(<<c, turn[c]>>)
      BY <1>9, <1>10, <2>2, CacheAssumption
    <3>2. turn'[c] = turn[c]
      BY <1>4, <2>2
    <3>3. \A x \in main \cap main' : x \in catalog \cup {job[t].stem, job[t].entry}
            => x \in catalog' \cup {0, 0}
      BY <1>1
    <3> HIDE DEF k, kv, d
    <3>4. Continues(c)' \/ \E s \in main \ main' : image[s].kv = <<c, turn[c]>>
      BY <1>6, <1>10, <3>1, <3>2, <3>3, KeptMove
    <3> QED
      BY <1>10, <3>4 DEF LostByPolicy
  <2> QED
    BY <2>1, <2>2
<1> QED
  BY <1>8, <1>10 DEF NoneLost

\* A killed process loses what is resident; what is on disk is catalogued again.
LEMMA CrashKeeps ==
  ASSUME CacheInv, KvInv, Crash
  PROVE  KvInv' /\ NoneLost
<1>1. /\ UNCHANGED <<turn, spilled, image>> /\ catalog' = main'
      /\ job' = [t \in Threads |-> Idle] /\ slot' = [k \in Slots |-> Empty]
  BY DEF Crash
<1>2. KvInv'
  <2>1. Empty \in [kv : Kvs, lane : Kvs, busy : BOOLEAN]
    BY DEF Empty, NoKv, Kvs
  <2>2. Shapes'
    BY <1>1, <2>1 DEF KvInv, Shapes, SlotStates
  <2>3. Holds' /\ OneOwner'
    BY <1>1 DEF Holds, HoldsOf, OneOwner, Idle, Saving, Cleared, Ready
  <2> QED
    BY <2>2, <2>3 DEF KvInv
<1>3. ASSUME NEW c \in Convs, Continues(c), ~Continues(c)', NEW s \in main, image[s].kv = <<c, turn[c]>>
      PROVE  LostByPolicy(c)
  <2>1. CASE s \in main'
    BY <1>1, <1>3, <2>1 DEF Continues, Known
  <2>2. CASE s \notin main'
    BY <1>3, <2>2 DEF LostByPolicy
  <2> QED
    BY <2>1, <2>2
<1>4. NoneLost
  BY <1>3 DEF NoneLost, LostByPolicy
<1> QED
  BY <1>2, <1>4

\* Waiting for the gate changes nothing here.
LEMMA WaitKeeps ==
  ASSUME KvInv, UNCHANGED cacheVars
  PROVE  KvInv' /\ NoneLost
<1>1. UNCHANGED <<turn, slot, spilled, image, main, catalog, job>>
  BY DEF cacheVars
<1>2. KvInv'
  BY <1>1 DEF KvInv, Shapes, Holds, HoldsOf, OneOwner, Kv
<1>3. \A c \in Convs : Continues(c)' = Continues(c)
  BY <1>1 DEF Continues, Known
<1> QED
  BY <1>2, <1>3 DEF NoneLost

LEMMA KvInit == Init => KvInv
<1> SUFFICES ASSUME Init PROVE KvInv
  OBVIOUS
<1>1. NoKv \in Kvs
  BY DEF NoKv, Kvs
<1>2. Shapes
  BY <1>1, CacheAssumption DEF Init, Shapes, SlotStates, Images, Empty
<1>3. Holds /\ OneOwner
  BY DEF Init, Holds, HoldsOf, OneOwner, Idle, Saving, Cleared, Ready
<1> QED
  BY <1>2, <1>3 DEF KvInv

\* Every step keeps KvInv and loses a conversation only by policy.
LEMMA KvStep == CacheInv /\ KvInv /\ [Next]_vars => KvInv' /\ NoneLost
<1> SUFFICES ASSUME CacheInv, KvInv, [Next]_vars PROVE KvInv' /\ NoneLost
  OBVIOUS
<1>0. Worker \in Threads
  BY CacheAssumption
<1>1. ASSUME NEW t \in Threads, Enter(t) PROVE KvInv' /\ NoneLost
  BY <1>1, WaitKeeps DEF Enter
<1>2. ASSUME NEW t \in Threads, Spilling(t) PROVE KvInv' /\ NoneLost
  BY <1>2, SpillWriteKeeps, SpillWriteFailsKeeps, RenameMtpKeeps, RenameFailsKeeps, RenameMainKeeps,
     ReleaseKeeps, ReleaseFailsKeeps DEF Spilling
<1>3. ASSUME NEW t \in Threads, Checkout(t) PROVE KvInv' /\ NoneLost
  BY <1>3, LookupKeeps, FreeKeeps, RestoreKeeps, RestoreFailsKeeps, GcListKeeps, GcSweepKeeps,
     GenerateKeeps DEF Checkout
<1>4. ASSUME NEW k \in Slots, WorkerReserve(k) PROVE KvInv' /\ NoneLost
  BY <1>0, <1>4, WorkerReserveKeeps
<1>5. ASSUME WorkerDrop \/ Publish PROVE KvInv' /\ NoneLost
  BY <1>0, <1>5, WorkerDropKeeps, PublishKeeps
<1>6. ASSUME NEW t \in Callers, NEW k \in Slots, NEW c \in Convs, Begin(t, k, c) PROVE KvInv' /\ NoneLost
  BY <1>6, BeginKeeps
<1>7. ASSUME Crash PROVE KvInv' /\ NoneLost
  BY <1>7, CrashKeeps
<1>8. CASE UNCHANGED vars
  BY <1>8, WaitKeeps DEF vars
<1> QED
  BY <1>1, <1>2, <1>3, <1>4, <1>5, <1>6, <1>7, <1>8 DEF Next, Thread

\* For any threads, slots, conversations and kills: a slot is worked on by one thread at a time, and a
\* snapshot holds the KV that is released for it.
LEMMA KvInvariant == Spec => [](CacheInv /\ KvInv)
<1>1. CacheInv /\ KvInv /\ [Next]_vars => KvInv'
  BY KvStep
<1> QED
  BY <1>1, KvInit, CacheInvariant, PTL DEF Spec

\* For any threads, slots, conversations and kills: a conversation that can be continued stays so,
\* unless one of the named policies or failures takes its last KV (cold_cache.rs, parallel.rs).
THEOREM ConversationsLostOnlyByPolicy == Spec => LostOnlyByPolicy
<1>1. CacheInv /\ KvInv /\ [Next]_vars
        => [\A c \in Convs : Continues(c) /\ ~Continues(c)' => LostByPolicy(c)]_vars
  BY KvStep DEF NoneLost
<1> QED
  BY <1>1, KvInvariant, PTL DEF Spec, LostOnlyByPolicy

-----------------------------------------------------------------------------
(* Type correctness.                                                       *)

Cells == [Slots -> [kv : Content, lane : Content, busy : BOOLEAN]]
Records == [Stems -> [kv : Content, lane : Content]]

Bounded ==
  /\ turn \in [Convs -> 0..MaxTurns] /\ slot \in Cells /\ image \in Records
  /\ recency \in Seq(Stems) /\ crashes \in 0..MaxCrashes

\* A conversation is served by one checkout at a time, and only while it has turns left.
Served ==
  /\ \A t \in Callers : job[t].pc # "idle" => turn[job[t].conv] < MaxTurns
  /\ \A t, u \in Callers : t # u /\ job[t].conv = job[u].conv => job[t].conv = None

Listings == \A t \in Threads : job[t].orphans \subseteq Stems

TypeInv == Bounded /\ Served /\ Listings

\* Threads keep their conversation, and start nothing.
Steady ==
  \A u \in Threads :
    /\ job'[u].conv = job[u].conv /\ (job[u].pc = "idle" => job'[u].pc = "idle")
    /\ job'[u].orphans \in {job[u].orphans, {}, Orphans}

\* Only what was begun is on the disk.
LEMMA OnDisk ==
  ASSUME CacheInv, KvInv
  PROVE  main \subseteq Stems /\ mtp \subseteq Stems /\ tmp \subseteq Stems /\ catalog \subseteq Stems
BY CacheAssumption DEF CacheInv, KvInv, Shapes, Typed, Begun, Stems

LEMMA SteadyKeeps ==
  ASSUME CacheInv, KvInv, TypeInv, Steady, UNCHANGED turn
  PROVE  Served' /\ Listings'
<1>1. Orphans \subseteq Stems
  BY OnDisk DEF Orphans
<1>2. Listings'
  BY <1>1 DEF TypeInv, Listings, Steady
<1>3. Served'
  BY DEF TypeInv, Served, Steady, Callers
<1> QED
  BY <1>2, <1>3

\* A spill keeps to its conversation,
LEMMA SpillingSteady ==
  ASSUME CacheInv, NEW t \in Threads, Spilling(t)
  PROVE  Steady
<1>1. job \in [Threads -> Jobs]
  BY DEF CacheInv, Typed
<1>2. ASSUME NEW pc, NEW stem, job[t].pc # "idle", job' = [job EXCEPT ![t].pc = pc, ![t].stem = stem]
      PROVE  Steady
  BY <1>1, <1>2 DEF Steady, Jobs
<1>3. ASSUME NEW pc, job[t].pc # "idle", job' = [job EXCEPT ![t].pc = pc] PROVE Steady
  BY <1>1, <1>3 DEF Steady, Jobs
<1>4. ASSUME SpillFails(t), job[t].pc # "idle" PROVE Steady
  BY <1>2, <1>4 DEF SpillFails
<1>5. job[t].pc # "idle"
  BY DEF Spilling, SpillWrite, SpillWriteFails, RenameMtp, RenameFails, RenameMain, Release,
     ReleaseFails, Here, At, Pass
<1>6. CASE SpillWrite(t)
  <2>1. \E pc, stem : job' = [job EXCEPT ![t].stem = stem, ![t].pc = pc]
    BY <1>6 DEF SpillWrite
  <2> QED
    BY <1>1, <1>5, <2>1 DEF Steady, Jobs
<1>7. CASE SpillWriteFails(t) \/ RenameFails(t) \/ ReleaseFails(t)
  BY <1>4, <1>5, <1>7 DEF SpillWriteFails, RenameFails, ReleaseFails
<1>8. CASE RenameMtp(t) \/ RenameMain(t)
  BY <1>3, <1>5, <1>8 DEF RenameMtp, RenameMain, Goto
<1>9. CASE Release(t)
  BY <1>2, <1>3, <1>5, <1>9 DEF Release, Goto
<1> QED
  BY <1>6, <1>7, <1>8, <1>9 DEF Spilling

\* and so does a checkout until it has served its turn, and the worker.
LEMMA CheckoutSteady ==
  ASSUME CacheInv, NEW t \in Threads,
         Lookup(t) \/ Free(t) \/ Restore(t) \/ RestoreFails(t) \/ GcList(t) \/ GcSweep(t)
           \/ (t = Worker /\ WorkerDrop)
  PROVE  Steady
<1>1. job \in [Threads -> Jobs] /\ Orphans = Orphans
  BY DEF CacheInv, Typed
<1>2. ASSUME NEW pc, NEW entry, job[t].pc # "idle", job' = [job EXCEPT ![t].pc = pc, ![t].entry = entry]
      PROVE  Steady
  BY <1>1, <1>2 DEF Steady, Jobs
<1>3. ASSUME NEW pc, job[t].pc # "idle", job' = [job EXCEPT ![t].pc = pc] PROVE Steady
  BY <1>1, <1>3 DEF Steady, Jobs
<1>4. ASSUME NEW pc, NEW o \in {{}, Orphans}, job[t].pc # "idle",
             job' = [job EXCEPT ![t].pc = pc, ![t].orphans = o]
      PROVE  Steady
  BY <1>1, <1>4 DEF Steady, Jobs
<1>5. job[t].pc # "idle"
  BY DEF Lookup, Free, Restore, RestoreFails, GcList, GcSweep, WorkerDrop, Pass
<1>6. CASE Lookup(t)
  <2>1. \/ \E s, pc : job' = [job EXCEPT ![t].entry = s, ![t].pc = pc]
        \/ \E pc : job' = [job EXCEPT ![t].pc = pc]
    BY <1>6 DEF Lookup, Goto
  <2>2. ASSUME NEW s, NEW pc, job' = [job EXCEPT ![t].entry = s, ![t].pc = pc] PROVE Steady
    BY <1>1, <1>5, <2>2 DEF Steady, Jobs
  <2> QED
    BY <1>3, <1>5, <2>1, <2>2
<1>7. CASE Free(t) \/ Restore(t) \/ RestoreFails(t)
  BY <1>2, <1>3, <1>5, <1>7 DEF Free, Restore, RestoreFails, Goto
<1>8. CASE GcList(t) \/ GcSweep(t)
  BY <1>4, <1>5, <1>8 DEF GcList, GcSweep
<1>9. CASE t = Worker /\ WorkerDrop
  BY <1>3, <1>5, <1>9 DEF WorkerDrop, Goto
<1> QED
  BY <1>6, <1>7, <1>8, <1>9

\* A slot is written.
LEMMA SlotBounded ==
  ASSUME KvInv, Bounded, NEW t \in Threads, job[t].pc # "idle",
         NEW kv \in Content, NEW lane \in Content, SetSlot(t, kv, lane)
  PROVE  slot' \in Cells
<1> DEFINE k == job[t].slot
<1>1. k \in Slots
  BY AtWork
<1>2. slot[k] \in [kv : Content, lane : Content, busy : BOOLEAN]
  BY <1>1 DEF Bounded, Cells
<1>3. slot' = [slot EXCEPT ![k] = [slot[k] EXCEPT !.kv = kv, !.lane = lane]]
  BY <1>1 DEF SetSlot, Bounded, Cells
<1>4. [slot[k] EXCEPT !.kv = kv, !.lane = lane] \in [kv : Content, lane : Content, busy : BOOLEAN]
  BY <1>2
<1> HIDE DEF k
<1> QED
  BY <1>1, <1>3, <1>4 DEF Bounded, Cells

\* What is in the slot of a thread at work.
LEMMA SlotContent ==
  ASSUME KvInv, Bounded, NEW t \in Threads, job[t].pc # "idle"
  PROVE  /\ Kv(t) \in Content /\ slot[job[t].slot].lane \in Content
         /\ LaneState(job[t].slot) \in Content /\ NoKv \in Content
<1>1. slot[job[t].slot] \in [kv : Content, lane : Content, busy : BOOLEAN]
  BY AtWork DEF Bounded, Cells
<1> QED
  BY <1>1 DEF Kv, LaneState, Content

\* Spilling fills snapshots from slots and empties slots.
LEMMA SpillingBounded ==
  ASSUME CacheInv, KvInv, Bounded, NEW t \in Threads, Spilling(t)
  PROVE  Bounded' /\ turn' = turn
<1> USE DEF Bounded, diskVars
<1>1. job[t].pc # "idle"
  BY DEF Spilling, SpillWrite, SpillWriteFails, RenameMtp, RenameFails, RenameMain, Release,
     ReleaseFails, Here, At, Pass
<1>2. /\ Kv(t) \in Content /\ slot[job[t].slot].lane \in Content
      /\ LaneState(job[t].slot) \in Content /\ NoKv \in Content
  BY <1>1, SlotContent
<1>3. CASE SpillWrite(t)
  <2> DEFINE s == spilled + 1
             r == [kv |-> Kv(t), lane |-> LaneState(job[t].slot)]
  <2>1. s \in Stems /\ r \in [kv : Content, lane : Content]
    BY <1>2, <1>3, CacheAssumption DEF SpillWrite, KvInv, Shapes, Stems
  <2>2. image' = [image EXCEPT ![s] = r] /\ recency' = Append(recency, s)
        /\ UNCHANGED <<turn, slot, crashes>>
    BY <1>3 DEF SpillWrite
  <2> HIDE DEF s, r
  <2>3. image' \in Records
    BY <2>1, <2>2 DEF Records
  <2>4. recency' \in Seq(Stems)
    BY <2>1, <2>2, AppendProperties
  <2> QED
    BY <2>2, <2>3, <2>4
<1>4. CASE SpillWriteFails(t) \/ RenameFails(t) \/ ReleaseFails(t)
  <2>1. UNCHANGED <<turn, image, recency, crashes>> /\ SpillFails(t)
    BY <1>4 DEF SpillWriteFails, RenameFails, ReleaseFails
  <2>2. slot' = slot \/ SetSlot(t, NoKv, NoKv)
    BY <2>1 DEF SpillFails
  <2>3. slot' \in Cells
    BY <1>1, <1>2, <2>2, SlotBounded
  <2> QED
    BY <2>1, <2>3
<1>5. CASE RenameMtp(t) \/ RenameMain(t)
  BY <1>5 DEF RenameMtp, RenameMain
<1>6. CASE Release(t)
  <2>1. UNCHANGED <<turn, image, recency, crashes>>
    BY <1>6 DEF Release
  <2>2. SetSlot(t, NoKv, slot[job[t].slot].lane) \/ SetSlot(t, NoKv, NoKv)
    BY <1>6 DEF Release
  <2>3. slot' \in Cells
    BY <1>1, <1>2, <2>2, SlotBounded
  <2> QED
    BY <2>1, <2>3
<1> QED
  BY <1>3, <1>4, <1>5, <1>6 DEF Spilling

\* A checkout fills its slot from a snapshot; the order of the files stays one of snapshots.
LEMMA CheckoutBounded ==
  ASSUME CacheInv, KvInv, Bounded, NEW t \in Threads,
         Lookup(t) \/ Free(t) \/ Restore(t) \/ RestoreFails(t) \/ GcList(t) \/ GcSweep(t)
           \/ (t = Worker /\ WorkerDrop)
  PROVE  Bounded' /\ turn' = turn
<1> USE DEF Bounded, diskVars
<1>1. job[t].pc # "idle"
  BY DEF Lookup, Free, Restore, RestoreFails, GcList, GcSweep, WorkerDrop, Pass
<1>2. NoKv \in Content
  BY DEF Content
<1>3. CASE Lookup(t) \/ GcList(t) \/ GcSweep(t)
  BY <1>3 DEF Lookup, GcList, GcSweep
<1>4. CASE Free(t) \/ RestoreFails(t) \/ (t = Worker /\ WorkerDrop)
  <2>1. UNCHANGED <<turn, image, recency, crashes>> /\ SetSlot(t, NoKv, NoKv)
    BY <1>4 DEF Free, RestoreFails, WorkerDrop
  <2> QED
    BY <1>1, <1>2, <2>1, SlotBounded
<1>5. CASE Restore(t)
  <2> DEFINE e == job[t].entry
  <2>1. e \in Stems /\ UNCHANGED <<turn, image, crashes>>
    BY <1>5, OnDisk DEF Restore
  <2>2. image[e] \in [kv : Content, lane : Content]
    BY <2>1 DEF Records
  <2>3. SetSlot(t, image[e].kv, image[e].lane) \/ SetSlot(t, image[e].kv, NoKv)
    BY <1>5 DEF Restore
  <2>4. slot' \in Cells
    BY <1>1, <1>2, <2>2, <2>3, SlotBounded
  <2>5. PICK i \in 1..Len(recency) : recency' = Append(RemoveAt(recency, i), e)
    BY <1>5 DEF Restore
  <2> HIDE DEF e
  <2>6. recency' \in Seq(Stems)
    <3> DEFINE n == Len(recency)
    <3>1. n \in Nat /\ i \in 1..n /\ \A j \in 1..n : recency[j] \in Stems
      BY <2>5, ElementOfSeq, LenProperties
    <3> HIDE DEF n
    <3>2. SubSeq(recency, 1, i - 1) \in Seq(Stems)
      BY <3>1, SubSeqProperties
    <3>3. SubSeq(recency, i + 1, n) \in Seq(Stems)
      BY <3>1, SubSeqProperties
    <3>4. RemoveAt(recency, i) \in Seq(Stems)
      BY <3>2, <3>3, ConcatProperties DEF RemoveAt, n
    <3> QED
      BY <2>1, <2>5, <3>4, AppendProperties
  <2> QED
    BY <2>1, <2>4, <2>6
<1> QED
  BY <1>3, <1>4, <1>5

\* A turn is served within the bound, and the conversation leaves its thread.
LEMMA GenerateTyped ==
  ASSUME CacheInv, KvInv, TypeInv, NEW t \in Threads, Generate(t)
  PROVE  TypeInv'
<1> DEFINE k == job[t].slot
           d == job[t].conv
           kv == <<d, turn[d] + 1>>
<1>1. /\ job[t].pc = "generate" /\ t \in Callers /\ job' = [job EXCEPT ![t] = Idle]
      /\ UNCHANGED <<image, recency, crashes>> /\ job \in [Threads -> Jobs]
  BY Places DEF Generate, Pass, diskVars, Callers, CacheInv, Typed
<1>2. k \in Slots /\ d \in Convs /\ turn[d] < MaxTurns /\ turn[d] \in 0..MaxTurns
  BY <1>1, AtWork DEF TypeInv, Bounded, Served, Callers
<1>3. kv \in Content /\ NoKv \in Content /\ slot[k].lane \in Content
  BY <1>1, <1>2, CacheAssumption, SlotContent DEF Content, TypeInv
<1>4. turn' = [turn EXCEPT ![d] = turn[d] + 1] /\ turn' \in [Convs -> 0..MaxTurns]
  BY <1>2, CacheAssumption DEF Generate, TypeInv, Bounded
<1>5. slot' \in Cells
  <2>1. PICK lane \in {kv, NoKv, slot[k].lane} :
          slot' = [slot EXCEPT ![k] = [kv |-> kv, lane |-> lane, busy |-> FALSE]]
    BY DEF Generate
  <2>2. [kv |-> kv, lane |-> lane, busy |-> FALSE] \in [kv : Content, lane : Content, busy : BOOLEAN]
    BY <1>3
  <2> HIDE DEF k, kv
  <2> QED
    BY <2>1, <2>2 DEF TypeInv, Bounded, Cells
<1>6. Bounded'
  BY <1>1, <1>4, <1>5 DEF TypeInv, Bounded
<1>7. \A u \in Threads \ {t} : job'[u] = job[u]
  BY <1>1
<1>8. job'[t].pc = "idle" /\ job'[t].conv = None /\ job'[t].orphans = {}
  BY <1>1 DEF Idle
<1>9. Served'
  <2>1. ASSUME NEW u \in Callers, job'[u].pc # "idle" PROVE turn'[job'[u].conv] < MaxTurns
    <3>1. u # t /\ job'[u] = job[u] /\ u \in Threads
      BY <1>7, <1>8, <2>1 DEF Callers
    <3>2. job[u].conv \in Convs
      BY <2>1, <3>1, AtWork DEF Callers
    <3>3. job[u].conv # d
      BY <1>1, <1>2, <3>1, CacheAssumption DEF TypeInv, Served
    <3> QED
      BY <1>4, <2>1, <3>1, <3>2, <3>3 DEF TypeInv, Bounded, Served
  <2>2. \A u, v \in Callers : u # v /\ job'[u].conv = job'[v].conv => job'[u].conv = None
    BY <1>7, <1>8 DEF TypeInv, Served, Callers
  <2> QED
    BY <2>1, <2>2 DEF Served
<1>10. Listings'
  BY <1>7, <1>8 DEF TypeInv, Listings
<1> QED
  BY <1>6, <1>9, <1>10 DEF TypeInv

\* A slot is taken or given back, nothing else of it changes.
LEMMA BusyBounded ==
  ASSUME Bounded, NEW k \in Slots, NEW b \in BOOLEAN, slot' = [slot EXCEPT ![k].busy = b],
         UNCHANGED <<turn, image, recency, crashes>>
  PROVE  Bounded'
<1>1. slot[k] \in [kv : Content, lane : Content, busy : BOOLEAN]
  BY DEF Bounded, Cells
<1>2. [slot[k] EXCEPT !.busy = b] \in [kv : Content, lane : Content, busy : BOOLEAN]
  BY <1>1
<1>3. slot' = [slot EXCEPT ![k] = [slot[k] EXCEPT !.busy = b]]
  BY DEF Bounded, Cells
<1>4. slot' \in Cells
  BY <1>2, <1>3 DEF Bounded, Cells
<1> QED
  BY <1>4 DEF Bounded

\* The worker takes a slot for no conversation and gives it back.
LEMMA WorkerTyped ==
  ASSUME CacheInv, KvInv, TypeInv, Worker \in Threads, Publish \/ \E k \in Slots : WorkerReserve(k)
  PROVE  TypeInv'
<1>1. PICK next \in {Idle} \cup {[Idle EXCEPT !.pc = "spill", !.slot = k] : k \in Slots} :
        job' = [job EXCEPT ![Worker] = next]
  BY DEF Publish, WorkerReserve
<1>2. next.orphans = {}
  <2>1. CASE next = Idle
    BY <2>1 DEF Idle
  <2>2. ASSUME NEW k \in Slots, next = [Idle EXCEPT !.pc = "spill", !.slot = k] PROVE next.orphans = {}
    BY <2>2 DEF Idle
  <2> QED
    BY <2>1, <2>2
<1>3. Bounded'
  <2>1. CASE Publish
    <3>1. job[Worker].slot \in Slots
      BY <2>1, AtWork DEF Publish, At
    <3> QED
      BY <2>1, <3>1, BusyBounded DEF Publish, TypeInv
  <2>2. ASSUME NEW k \in Slots, WorkerReserve(k) PROVE Bounded'
    BY <2>2, BusyBounded DEF WorkerReserve, diskVars, TypeInv
  <2> QED
    BY <2>1, <2>2
<1>4. turn' = turn
  BY DEF Publish, WorkerReserve
<1>5. \A u \in Callers : job'[u] = job[u]
  BY <1>1 DEF Callers, CacheInv, Typed
<1>6. Served'
  BY <1>4, <1>5 DEF TypeInv, Served
<1>7. Listings'
  BY <1>1, <1>2 DEF TypeInv, Listings, CacheInv, Typed
<1> QED
  BY <1>3, <1>6, <1>7 DEF TypeInv

\* A conversation is begun that no other checkout serves.
LEMMA BeginTyped ==
  ASSUME CacheInv, KvInv, TypeInv, NEW t \in Callers, NEW k \in Slots, NEW c \in Convs, Begin(t, k, c)
  PROVE  TypeInv'
<1> DEFINE next == [Idle EXCEPT !.pc = "lookup", !.slot = k, !.conv = c]
<1>1. next.conv = c /\ next.orphans = {}
  BY DEF Idle
<1>2. job' = [job EXCEPT ![t] = next] /\ turn' = turn /\ turn[c] < MaxTurns
      /\ (\A u \in Callers : job[u].conv # c) /\ slot' = [slot EXCEPT ![k].busy = TRUE]
      /\ UNCHANGED <<image, recency, crashes>>
  BY DEF Begin, diskVars
<1> HIDE DEF next
<1>3. Bounded'
  BY <1>2, BusyBounded DEF TypeInv
<1>4. job'[t] = next /\ \A u \in Threads \ {t} : job'[u] = job[u]
  BY <1>2 DEF CacheInv, Typed, Callers
<1>5. Served'
  BY <1>1, <1>2, <1>4 DEF TypeInv, Served, Callers
<1>6. Listings'
  BY <1>1, <1>4 DEF TypeInv, Listings
<1> QED
  BY <1>3, <1>5, <1>6 DEF TypeInv

LEMMA CrashTyped ==
  ASSUME TypeInv, Crash
  PROVE  TypeInv'
<1>1. Empty \in [kv : Content, lane : Content, busy : BOOLEAN]
  BY DEF Empty, Content
<1>2. /\ UNCHANGED <<turn, image, recency>> /\ crashes' \in 0..MaxCrashes
      /\ job' = [t \in Threads |-> Idle] /\ slot' = [k \in Slots |-> Empty]
  BY CacheAssumption DEF Crash, TypeInv, Bounded
<1>3. Bounded'
  BY <1>1, <1>2 DEF TypeInv, Bounded, Cells
<1>4. Served' /\ Listings'
  BY <1>2 DEF Served, Listings, Idle, Callers
<1> QED
  BY <1>3, <1>4 DEF TypeInv

LEMMA TypeStart == Init => TypeInv
<1> SUFFICES ASSUME Init PROVE TypeInv
  OBVIOUS
<1>1. NoKv \in Content /\ <<>> \in Seq(Stems)
  BY EmptySeq DEF Content
<1>2. Bounded
  BY <1>1, CacheAssumption DEF Init, Bounded, Cells, Records, Empty
<1>3. Served /\ Listings
  BY DEF Init, Served, Listings, Idle, Callers
<1> QED
  BY <1>2, <1>3 DEF TypeInv

\* Every step keeps the types.
LEMMA TypeStep == CacheInv /\ KvInv /\ TypeInv /\ [Next]_vars => TypeInv'
<1> SUFFICES ASSUME CacheInv, KvInv, TypeInv, [Next]_vars PROVE TypeInv'
  OBVIOUS
<1>0. Worker \in Threads
  BY CacheAssumption
<1>1. ASSUME UNCHANGED cacheVars PROVE TypeInv'
  BY <1>1 DEF cacheVars, TypeInv, Bounded, Served, Listings
<1>2. ASSUME NEW t \in Threads, Spilling(t) PROVE TypeInv'
  BY <1>2, SpillingSteady, SpillingBounded, SteadyKeeps DEF TypeInv
<1>3. ASSUME NEW t \in Threads,
             Lookup(t) \/ Free(t) \/ Restore(t) \/ RestoreFails(t) \/ GcList(t) \/ GcSweep(t)
               \/ (t = Worker /\ WorkerDrop)
      PROVE  TypeInv'
  <2>1. Steady
    BY <1>3, CheckoutSteady
  <2>2. Bounded' /\ turn' = turn
    BY <1>3, CheckoutBounded DEF TypeInv
  <2> QED
    BY <2>1, <2>2, SteadyKeeps DEF TypeInv
<1>4. ASSUME NEW t \in Threads, Thread(t) PROVE TypeInv'
  BY <1>1, <1>2, <1>3, <1>4, GenerateTyped DEF Thread, Enter, Checkout
<1>5. ASSUME WorkerDrop PROVE TypeInv'
  BY <1>0, <1>3, <1>5
<1>6. ASSUME Publish \/ \E k \in Slots : WorkerReserve(k) PROVE TypeInv'
  BY <1>0, <1>6, WorkerTyped
<1>7. ASSUME NEW t \in Callers, NEW k \in Slots, NEW c \in Convs, Begin(t, k, c) PROVE TypeInv'
  BY <1>7, BeginTyped
<1>8. ASSUME Crash PROVE TypeInv'
  BY <1>8, CrashTyped
<1>9. CASE UNCHANGED vars
  BY <1>1, <1>9 DEF vars
<1> QED
  BY <1>4, <1>5, <1>6, <1>7, <1>8, <1>9 DEF Next

\* The three invariants imply the types.
LEMMA CacheTyped ==
  ASSUME CacheInv, KvInv, TypeInv
  PROVE  TypeOK
<1>1. \A i \in 1..Len(line) : line[i] \in Threads
  BY ElementOfSeq DEF CacheInv, Typed
<1>2. ASSUME NEW t \in Threads
      PROVE  job[t] \in [pc : Pcs, slot : Slots \cup {None}, conv : Convs \cup {None},
                         stem : Stems \cup {0}, entry : Stems \cup {0}, orphans : SUBSET Stems]
  <2>1. job[t] \in Jobs /\ job[t].orphans \subseteq Stems
    BY DEF CacheInv, Typed, TypeInv, Listings
  <2>2. job[t].stem \in Stems \cup {0} /\ job[t].entry \in Stems \cup {0}
    BY Snapshots
  <2> QED
    BY <2>1, <2>2 DEF Jobs
<1>3. job \in [Threads -> [pc : Pcs, slot : Slots \cup {None}, conv : Convs \cup {None},
                           stem : Stems \cup {0}, entry : Stems \cup {0}, orphans : SUBSET Stems]]
  BY <1>2 DEF CacheInv, Typed
<1>4. \A t \in Threads : job[t].pc # "idle" => slot[job[t].slot].busy
  BY AtWork
<1>5. /\ turn \in [Convs -> 0..MaxTurns] /\ crashes \in 0..MaxCrashes /\ spilled \in 0..MaxStems
      /\ slot \in [Slots -> [kv : Content, lane : Content, busy : BOOLEAN]]
      /\ image \in [Stems -> [kv : Content, lane : Content]]
  BY DEF TypeInv, Bounded, Cells, Records, KvInv, Shapes
<1>6. \A i \in 1..Len(recency) : recency[i] \in Stems
  BY ElementOfSeq DEF TypeInv, Bounded
<1> QED
  BY <1>1, <1>3, <1>4, <1>5, <1>6, OnDisk DEF TypeOK

\* For any threads, slots, conversations and kills: every variable has its type, and the slot a thread
\* works on is marked busy (SlotPool::reserve, the cold worker's reservation).
THEOREM CacheIsTyped == Spec => []TypeOK
<1>1. CacheInv /\ KvInv /\ TypeInv => TypeOK
  BY CacheTyped
<1>2. CacheInv /\ KvInv /\ TypeInv /\ [Next]_vars => TypeInv'
  BY TypeStep
<1> QED
  BY <1>1, <1>2, TypeStart, KvInvariant, PTL DEF Spec

=============================================================================
