---------------------------- MODULE SessionCache ----------------------------
(***************************************************************************)
(* The cold KV session cache: conversations of idle slots written to disk  *)
(* by the cold worker, or by a checkout that needs their slot, and brought *)
(* back by a later checkout, with the GPU baton both must hold and a       *)
(* process that may be killed between any two steps.                       *)
(*                                                                         *)
(* A snapshot ("stem") is a main file and, when the MTP lane of the slot   *)
(* describes the same tokens, a sidecar.  A checkout holds the baton, the  *)
(* head lanes and the catalogue from lookup to garbage collection, so its  *)
(* locks are its program counter (InCache).  The worker writes WITHOUT the *)
(* catalogue, takes the baton only for transfers and the release, and the  *)
(* catalogue only to publish and collect.                                  *)
(*                                                                         *)
(* The KV of turn n of conversation c is <<c, n>>; every <<c, m>>, m <= n, *)
(* is a prefix of it.  Files are whole once renamed; a killed process does *)
(* not take the operating system's pages with it.                          *)
(***************************************************************************)
EXTENDS FifoLock, FiniteSets, SequencesExt

CONSTANTS Worker,      \* the cold-cache worker; every other thread is a caller
          Slots, Convs, None,
          Cap,         \* max_bytes; a main file and a sidecar weigh one each
          MaxTurns,    \* bound: turns of a conversation, and of all together
          MaxStems,    \* bound: spills ever started
          MaxCrashes   \* bound: times the process is killed

ASSUME CacheAssumption ==
  /\ Worker \in Threads /\ None \notin Convs \cup Slots
  /\ Cap \in Nat \ {0, 1}
  /\ MaxTurns \in Nat /\ MaxStems \in Nat /\ MaxCrashes \in Nat

Callers == Threads \ {Worker}
Stems   == 1..MaxStems
NoKv    == <<None, 0>>

VARIABLES
  turn,      \* the turns each conversation has been served
  slot,      \* resident KV, MTP lane (MtpSlotState.cached while live) and busy flag of each slot
  spilled,   \* how many spills were started: FILE_COUNTER, whose names also carry the process id
  image,     \* what each snapshot records: the tokens of its main file and of its sidecar
  tmp, main, mtp,  \* stems with temporary files, with a main file, with a sidecar
  recency,   \* stems from the oldest modification time to the newest
  catalog,   \* SessionCache.entries
  job,       \* per thread: what it does, its slot, conversation, snapshot, cold entry, orphans found
  crashes    \* times the process has been killed

cacheVars == <<turn, slot, spilled, image, tmp, main, mtp, recency, catalog, job, crashes>>
vars == <<line, cacheVars>>
diskVars == <<image, tmp, main, mtp, recency>>

Idle == [pc |-> "idle", slot |-> None, conv |-> None, stem |-> 0, entry |-> 0, orphans |-> {}]
Empty == [kv |-> NoKv, lane |-> NoKv, busy |-> FALSE]

Init ==
  /\ FifoInit
  /\ turn = [c \in Convs |-> 0]
  /\ slot = [k \in Slots |-> Empty]
  /\ spilled = 0
  /\ image = [s \in Stems |-> [kv |-> NoKv, lane |-> NoKv]]
  /\ tmp = {} /\ main = {} /\ mtp = {}
  /\ recency = <<>>
  /\ catalog = {}
  /\ job = [t \in Threads |-> Idle]
  /\ crashes = 0

-----------------------------------------------------------------------------
(* Snapshots, locks and program counters. *)

At(t, pc)   == job[t].pc = pc /\ ~InLine(t)
Pass(t, pc) == job[t].pc = pc /\ HasBaton(t)
Goto(t, pc) == job' = [job EXCEPT ![t].pc = pc]
Kv(t)       == slot[job[t].slot].kv
SetSlot(t, kv, lane) == slot' = [slot EXCEPT ![job[t].slot].kv = kv, ![job[t].slot].lane = lane]

\* A checkout in this part holds the catalogue and the head lanes; the worker never does when
\* another thread can see it.
InCache(t) == t # Worker /\ job[t].pc \in
  {"spill", "renameMtp", "renameMain", "release", "free", "restore", "gc", "sweep"}
CatalogFree == \A t \in Threads : ~InCache(t)

InFlight == {job[t].stem : t \in Threads}   \* seconds old
Turns(c) == {image[s].kv[2] : s \in {e \in catalog : image[e].kv[1] = c}}
Resident(k, c) == IF slot[k].kv[1] = c THEN slot[k].kv[2] ELSE 0

\* StepGate::enter by a thread that wants the baton.
Enter(t) ==
  /\ job[t].pc \in IF t = Worker THEN {"spill", "release", "drop"} ELSE {"lookup", "generate"}
  /\ Join(t)
  /\ UNCHANGED cacheVars

-----------------------------------------------------------------------------
(* Garbage collection: gc_root, then entries.retain. *)

Bytes(stems) == Cardinality(stems) + Cardinality(stems \cap mtp)
Aged == SelectSeq(recency, LAMBDA s : s \in main)
First(n) == {Aged[i] : i \in 1..n}

\* What an expiry of the oldest, then the byte cap, may remove; a fresh snapshot is never past the
\* TTL.
Evictions(fresh) ==
  {First(n) : n \in {n \in 0..Len(Aged) :
     /\ Bytes(main \ First(n)) <= Cap
     /\ First(n) \cap fresh = {} \/ Bytes(main \ First(n - 1)) > Cap}}

\* Mutant: a sidecar is an orphan when its snapshot is not in the catalogue.
OrphansUncatalogued == mtp \ catalog

\* remove_orphan_mtp_files lists sidecars whose main file is missing.
Orphans == mtp \ main

\* remove_stale_temporary_files takes those of a dead process, once they are old.
Sweep(orphans, fresh) ==
  /\ \E gone \in Evictions(fresh) :
       /\ main' = main \ gone
       /\ mtp' = mtp \ (gone \cup orphans)
  /\ tmp' \in {tmp, tmp \cap fresh}

-----------------------------------------------------------------------------
(* spill_with_gate, by the worker or by a checkout. *)

\* Mutant: the lane is saved whatever tokens it describes.
LaneStateUnchecked(k) == slot[k].lane

\* MtpSlotState::cache_state_for: only a lane that describes exactly these tokens.
LaneState(k) == IF slot[k].lane = slot[k].kv THEN slot[k].lane ELSE NoKv

\* Where a spill that failed leaves its thread: the worker keeps the resident state, a checkout
\* forgets it.
SpillFails(t) ==
  IF t = Worker
  THEN job' = [job EXCEPT ![t].pc = "publish", ![t].stem = 0] /\ UNCHANGED slot
  ELSE /\ job' = [job EXCEPT ![t].pc = IF job[t].entry = 0 THEN "gc" ELSE "free", ![t].stem = 0]
       /\ SetSlot(t, NoKv, NoKv)

\* The temporary files, written and synced under bounded passes of the gate.
SpillWrite(t) ==
  /\ Pass(t, "spill") /\ spilled < MaxStems
  /\ IF t = Worker THEN Depart(t) ELSE UNCHANGED line
  /\ LET s == spilled + 1 IN
       /\ spilled' = s
       /\ image' = [image EXCEPT ![s] = [kv |-> Kv(t), lane |-> LaneState(job[t].slot)]]
       /\ tmp' = tmp \cup {s}
       /\ recency' = Append(recency, s)
       /\ job' = [job EXCEPT ![t].stem = s,
                             ![t].pc = IF LaneState(job[t].slot) = NoKv THEN "renameMain" ELSE "renameMtp"]
  /\ UNCHANGED <<turn, slot, main, mtp, catalog, crashes>>

\* The sync, a transfer or a write failed: no file is left.  (Past the bound every spill fails.)
SpillWriteFails(t) ==
  /\ Pass(t, "spill")
  /\ IF t = Worker THEN Depart(t) ELSE UNCHANGED line
  /\ SpillFails(t)
  /\ spilled' = IF spilled < MaxStems THEN spilled + 1 ELSE spilled
  /\ UNCHANGED <<turn, diskVars, catalog, crashes>>

\* Mutant: a checkout asks for the gate it already holds.
HereReentering(t, pc) == At(t, pc)

\* The worker writes outside the gate, a checkout inside its own pass (gate: None).
Here(t, pc) == IF t = Worker THEN At(t, pc) ELSE Pass(t, pc)

RenameMtp(t) ==
  /\ Here(t, "renameMtp")
  /\ mtp' = mtp \cup {job[t].stem}
  /\ Goto(t, "renameMain")
  /\ UNCHANGED <<line, turn, slot, spilled, image, tmp, main, recency, catalog, crashes>>

\* Mutant: a failed rename leaves the sidecar that was renamed before it.
RenameFailsKeepsMtp(t) ==
  /\ Here(t, "renameMtp") \/ Here(t, "renameMain")
  /\ tmp' = tmp \ {job[t].stem}
  /\ SpillFails(t)
  /\ UNCHANGED <<line, turn, spilled, image, main, mtp, recency, catalog, crashes>>

\* Either rename fails: the temporary files and a sidecar already renamed are removed.
RenameFails(t) ==
  /\ Here(t, "renameMtp") \/ Here(t, "renameMain")
  /\ tmp' = tmp \ {job[t].stem}
  /\ mtp' = mtp \ {job[t].stem}
  /\ SpillFails(t)
  /\ UNCHANGED <<line, turn, spilled, image, main, recency, catalog, crashes>>

RenameMain(t) ==
  /\ Here(t, "renameMain")
  /\ main' = main \cup {job[t].stem}
  /\ tmp' = tmp \ {job[t].stem}
  /\ Goto(t, "release")
  /\ UNCHANGED <<line, turn, slot, spilled, image, mtp, recency, catalog, crashes>>

\* release_session_state: the KV leaves the slot.  The entry goes to the worker's private catalogue
\* (job.stem) or, in a checkout, to the shared one.
Release(t) ==
  /\ Pass(t, "release")
  /\ IF t = Worker
     THEN /\ Depart(t) /\ Goto(t, "drop")
          /\ SetSlot(t, NoKv, slot[job[t].slot].lane)
          /\ UNCHANGED catalog
     ELSE /\ UNCHANGED line
          /\ job' = [job EXCEPT ![t].pc = IF job[t].entry = 0 THEN "gc" ELSE "restore", ![t].stem = 0]
          /\ SetSlot(t, NoKv, NoKv)
          /\ catalog' = catalog \cup {job[t].stem}
  /\ UNCHANGED <<turn, spilled, diskVars, crashes>>

\* The release failed: the snapshot would compete with a KV that stays resident.
ReleaseFails(t) ==
  /\ Pass(t, "release")
  /\ IF t = Worker THEN Depart(t) ELSE UNCHANGED line
  /\ main' = main \ {job[t].stem}
  /\ mtp' = mtp \ {job[t].stem}
  /\ SpillFails(t)
  /\ UNCHANGED <<turn, spilled, image, tmp, recency, catalog, crashes>>

-----------------------------------------------------------------------------
(* cold_session_worker, one round. *)

\* Mutant: the slot is not marked busy.
WorkerReserveShared(k) ==
  /\ At(Worker, "idle") /\ spilled < MaxStems
  /\ ~slot[k].busy /\ slot[k].kv # NoKv
  /\ job' = [job EXCEPT ![Worker] = [Idle EXCEPT !.pc = "spill", !.slot = k]]
  /\ UNCHANGED <<line, turn, slot, spilled, diskVars, catalog, crashes>>

WorkerReserve(k) ==
  /\ At(Worker, "idle") /\ spilled < MaxStems
  /\ ~slot[k].busy /\ slot[k].kv # NoKv
  /\ slot' = [slot EXCEPT ![k].busy = TRUE]
  /\ job' = [job EXCEPT ![Worker] = [Idle EXCEPT !.pc = "spill", !.slot = k]]
  /\ UNCHANGED <<line, turn, spilled, diskVars, catalog, crashes>>

\* After the release: heads[index].invalidate_all() under a pass of its own.
WorkerDrop ==
  /\ Pass(Worker, "drop") /\ Depart(Worker)
  /\ SetSlot(Worker, NoKv, NoKv)
  /\ Goto(Worker, "publish")
  /\ UNCHANGED <<turn, spilled, diskVars, catalog, crashes>>

\* Mutant: the private catalogue of the worker is dropped.
PublishNothing ==
  /\ At(Worker, "publish") /\ CatalogFree
  /\ Sweep(Orphans, InFlight)
  /\ catalog' = catalog \cap main'
  /\ slot' = [slot EXCEPT ![job[Worker].slot].busy = FALSE]
  /\ job' = [job EXCEPT ![Worker] = Idle]
  /\ UNCHANGED <<line, turn, spilled, image, recency, crashes>>

\* publish_spills and gc under the catalogue lock, then the slot goes back to the pool.
Publish ==
  /\ At(Worker, "publish") /\ CatalogFree
  /\ Sweep(Orphans, InFlight)
  /\ catalog' = (catalog \cup {job[Worker].stem}) \cap main'
  /\ slot' = [slot EXCEPT ![job[Worker].slot].busy = FALSE]
  /\ job' = [job EXCEPT ![Worker] = Idle]
  /\ UNCHANGED <<line, turn, spilled, image, recency, crashes>>

-----------------------------------------------------------------------------
(* checkout_with_cold_cache and the generation behind it. *)

\* A client sends the next turn of a conversation when the last one is answered.  A free slot that
\* can continue it is preferred, the deepest first; otherwise any free slot is taken.
Begin(t, k, c) ==
  /\ t # Worker /\ At(t, "idle")
  /\ turn[c] < MaxTurns
  /\ FoldFunction(+, 0, turn) + Cardinality({u \in Callers : job[u].pc # "idle"}) < MaxTurns
  /\ \A u \in Callers : job[u].conv # c
  /\ ~slot[k].busy
  /\ \A j \in Slots : ~slot[j].busy => Resident(j, c) <= Resident(k, c)
  /\ slot' = [slot EXCEPT ![k].busy = TRUE]
  /\ job' = [job EXCEPT ![t] = [Idle EXCEPT !.pc = "lookup", !.slot = k, !.conv = c]]
  /\ UNCHANGED <<line, turn, spilled, diskVars, catalog, crashes>>

\* take_best_continuation when it beats the resident prefix; a slot taken over is spilled first.
Lookup(t) ==
  /\ Pass(t, "lookup")
  /\ LET c == job[t].conv
         depth == Resident(job[t].slot, c)
         better == {s \in catalog : image[s].kv[1] = c /\ image[s].kv[2] > depth
                                    /\ \A n \in Turns(c) : n <= image[s].kv[2]}
     IN \/ \E s \in better :
             /\ catalog' = catalog \ {s}
             /\ job' = [job EXCEPT ![t].entry = s, ![t].pc = IF Kv(t) = NoKv THEN "free" ELSE "spill"]
        \/ /\ better = {} /\ UNCHANGED catalog
           /\ Goto(t, IF Kv(t) # NoKv /\ depth = 0 THEN "spill" ELSE "gc")
  /\ UNCHANGED <<line, turn, slot, spilled, diskVars, crashes>>

\* The target is released without a spill (it is empty, or its spill failed); the second attempt
\* failed too: the entry goes back and the prompt is prefilled.
Free(t) ==
  /\ Pass(t, "free")
  /\ SetSlot(t, NoKv, NoKv)
  /\ \/ Goto(t, "restore") /\ UNCHANGED catalog
     \/ /\ job' = [job EXCEPT ![t].pc = "gc", ![t].entry = 0]
        /\ catalog' = catalog \cup ({job[t].entry} \cap main)
  /\ UNCHANGED <<line, turn, spilled, diskVars, crashes>>

\* restore: the snapshot stays in the catalogue and becomes the newest.  A sidecar that cannot be
\* restored is deleted and the conversation goes on without it.
Restore(t) ==
  /\ Pass(t, "restore") /\ job[t].entry \in main
  /\ LET e == job[t].entry IN
       /\ \/ e \in mtp /\ image[e].lane = image[e].kv
             /\ SetSlot(t, image[e].kv, image[e].lane) /\ UNCHANGED mtp
          \/ SetSlot(t, image[e].kv, NoKv) /\ mtp' = mtp \ {e}
       /\ catalog' = catalog \cup {e}
       /\ \E i \in 1..Len(recency) : recency[i] = e /\ recency' = Append(RemoveAt(recency, i), e)
       /\ job' = [job EXCEPT ![t].pc = "gc", ![t].entry = 0]
  /\ UNCHANGED <<line, turn, spilled, image, tmp, main, crashes>>

\* The main file is unreadable, corrupt or of another geometry: both files go.
RestoreFails(t) ==
  /\ Pass(t, "restore")
  /\ main' = main \ {job[t].entry} /\ mtp' = mtp \ {job[t].entry}
  /\ SetSlot(t, NoKv, NoKv)
  /\ job' = [job EXCEPT ![t].pc = "gc", ![t].entry = 0]
  /\ UNCHANGED <<line, turn, spilled, image, tmp, recency, catalog, crashes>>

\* gc_root looks for orphans ...
GcList(t) ==
  /\ Pass(t, "gc")
  /\ job' = [job EXCEPT ![t].pc = "sweep", ![t].orphans = Orphans]
  /\ UNCHANGED <<line, turn, slot, spilled, diskVars, catalog, crashes>>

\* Mutant: the entries of removed files stay.
GcSweepNoRetain(t) ==
  /\ Pass(t, "sweep") /\ Depart(t)
  /\ Sweep(job[t].orphans, InFlight)
  /\ job' = [job EXCEPT ![t].pc = "generate", ![t].orphans = {}]
  /\ UNCHANGED <<turn, slot, spilled, image, recency, catalog, crashes>>

\* ... and removes them and what is old or over the cap; then the checkout drops its locks.
GcSweep(t) ==
  /\ Pass(t, "sweep") /\ Depart(t)
  /\ Sweep(job[t].orphans, InFlight)
  /\ catalog' = catalog \cap main'
  /\ job' = [job EXCEPT ![t].pc = "generate", ![t].orphans = {}]
  /\ UNCHANGED <<turn, slot, spilled, image, recency, crashes>>

\* The turn is prefilled and decoded; the MTP lane follows it, is invalidated, or is left behind.
Generate(t) ==
  /\ Pass(t, "generate") /\ Depart(t)
  /\ LET k == job[t].slot
         kv == <<job[t].conv, turn[job[t].conv] + 1>>
     IN /\ turn' = [turn EXCEPT ![job[t].conv] = @ + 1]
        /\ \E lane \in {kv, NoKv, slot[k].lane} :
             slot' = [slot EXCEPT ![k] = [kv |-> kv, lane |-> lane, busy |-> FALSE]]
  /\ job' = [job EXCEPT ![t] = Idle]
  /\ UNCHANGED <<spilled, diskVars, catalog, crashes>>

-----------------------------------------------------------------------------
(* The process. *)

\* The process is killed and started again; SessionCache::open collects garbage and catalogues
\* every main file.
Crash ==
  /\ crashes < MaxCrashes
  /\ crashes' = crashes + 1
  /\ line' = <<>>
  /\ job' = [t \in Threads |-> Idle]
  /\ slot' = [k \in Slots |-> Empty]
  /\ Sweep(Orphans, {})
  /\ catalog' = main'
  /\ UNCHANGED <<turn, spilled, image, recency>>

Spilling(t) == \/ SpillWrite(t) \/ SpillWriteFails(t) \/ RenameMtp(t) \/ RenameFails(t)
               \/ RenameMain(t) \/ Release(t) \/ ReleaseFails(t)

Checkout(t) == \/ Lookup(t) \/ Free(t) \/ Restore(t) \/ RestoreFails(t)
               \/ GcList(t) \/ GcSweep(t) \/ Generate(t)

Thread(t) == Enter(t) \/ Spilling(t) \/ Checkout(t)

Next ==
  \/ \E t \in Threads : Thread(t)
  \/ \E k \in Slots : WorkerReserve(k)
  \/ WorkerDrop
  \/ Publish
  \/ \E t \in Callers, k \in Slots, c \in Convs : Begin(t, k, c)
  \/ Crash

\* The operating system runs every thread; nothing is assumed of clients, of the idle deadline that
\* starts a spill, or of who wins the catalogue's mutex.
Fairness == (\A t \in Threads : WF_vars(Thread(t))) /\ WF_vars(WorkerDrop)

Spec == Init /\ [][Next]_vars /\ Fairness

-----------------------------------------------------------------------------
(* Properties. *)

Content == (Convs \X (1..MaxTurns)) \cup {NoKv}

Pcs == {"idle", "lookup", "spill", "renameMtp", "renameMain", "release", "drop", "publish", "free",
        "restore", "gc", "sweep", "generate"}

\* Every variable has its type, and the slot a thread works on is marked busy.
TypeOK ==
  /\ \A i \in 1..Len(line) : line[i] \in Threads
  /\ job \in [Threads -> [pc : Pcs, slot : Slots \cup {None}, conv : Convs \cup {None},
                        stem : Stems \cup {0}, entry : Stems \cup {0}, orphans : SUBSET Stems]]
  /\ \A t \in Threads : job[t].pc # "idle" => slot[job[t].slot].busy
  /\ turn \in [Convs -> 0..MaxTurns]
  /\ slot \in [Slots -> [kv : Content, lane : Content, busy : BOOLEAN]]
  /\ spilled \in 0..MaxStems
  /\ image \in [Stems -> [kv : Content, lane : Content]]
  /\ tmp \subseteq Stems /\ main \subseteq Stems /\ mtp \subseteq Stems /\ catalog \subseteq Stems
  /\ \A i \in 1..Len(recency) : recency[i] \in Stems
  /\ crashes \in 0..MaxCrashes

\* An entry of the catalogue has its main file, though files are evicted between the worker's rename
\* and its publication, and by checkouts that do not know of it.
CatalogOnDisk == catalog \subseteq main

\* Partial failures and crashes leave no litter that nobody collects: a sidecar has its main file or
\* its spill is under way, and only a killed process leaves temporary files.
NoLitter ==
  /\ mtp \subseteq main \cup InFlight
  /\ crashes = 0 => tmp \subseteq InFlight

\* A sidecar describes exactly the tokens of the main file it stands beside, although lanes are left
\* behind, invalidated and restored separately from the KV.
SidecarFits == \A s \in mtp : image[s].lane = image[s].kv

\* Main file and sidecar stay together: a collection takes the sidecar of a snapshot it leaves in
\* place only if that snapshot is just being published (the sweep for orphans does not know of spills
\* outside its lock), never from a snapshot of the catalogue or one being restored.
PairsStayWhole ==
  [][\A s \in main \cap main' : s \in mtp \ mtp' =>
       s \in InFlight \/ \E t \in Callers : Restore(t) /\ job[t].entry = s]_vars

\* The last turn of a conversation can be continued: it is resident, or in a file that the catalogue
\* or the thread working on it still knows.
Known == catalog \cup {job[t].stem : t \in Threads} \cup {job[t].entry : t \in Threads}
Continues(c) ==
  LET last == <<c, turn[c]>>
  IN \/ turn[c] = 0
     \/ \E k \in Slots : slot[k].kv = last
     \/ \E s \in main \cap Known : image[s].kv = last

\* A conversation stops being continuable only if its file is deleted (evicted, unreadable), a
\* checkout fails to spill it and gives its slot away, the process is killed while it is not on disk,
\* or its file was evicted before the worker's turn of the gate came to release the KV.
LostByPolicy(c) ==
  LET last == <<c, turn[c]>>
  IN \/ \E s \in main \ main' : image[s].kv = last
     \/ \E t \in Callers : SpillWriteFails(t) \/ RenameFails(t)
     \/ Crash /\ \A s \in main : image[s].kv # last
     \/ \E t \in Threads : Release(t) /\ job[t].stem \notin main
LostOnlyByPolicy == [][\A c \in Convs : Continues(c) /\ ~Continues(c)' => LostByPolicy(c)]_vars

\* No checkout waits for ever: the gate and the catalogue are never waited for in a cycle, and the
\* worker cannot starve a request of the gate.
CheckoutsEnd == \A t \in Callers : job[t].pc # "idle" ~> job[t].pc = "idle"
=============================================================================
