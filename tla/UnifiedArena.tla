---------------------------- MODULE UnifiedArena ----------------------------
(***************************************************************************)
(* The elastic VRAM arena (infr-vulkan/src/unified.rs) and the part of the *)
(* expert pager that lends it expert slots (infr-vulkan/src/pager.rs).     *)
(*                                                                         *)
(* Addresses are logical: shards follow one another, a cell is one         *)
(* UNIFIED_ALIGN.  Expert slots tile the arena and fill whatever nobody    *)
(* else has claimed; KV segments grow below the floor, runtime buffers     *)
(* above it, and Prefill's ring borrows anything but the end.              *)
(* A claim is planned, its victims retired and then committed, all under   *)
(* the execution gate; ranges come back when the last handle of a lease is *)
(* dropped, at any time and without the gate.                              *)
(***************************************************************************)
EXTENDS Naturals, Sequences, FiniteSets, FiniteSetsExt

CONSTANTS Shards,        \* the shards, as ranges of cells
          Slots,         \* slot -> [pool, r]: the frozen expert directory
          FloorFrom, FloorTo,    \* the floor corridor; KV lives below it
          Reserve,       \* cells at the end that Prefill leaves to runtime buffers
          MinEnabled,    \* pool -> its dispatch floor
          Sessions,      \* KV sessions, each one segmented buffer
          SegLen, MaxSegs,
          RingSizes,     \* bound: cells of a Prefill ring, per number of lanes
          RingReserves,  \* bound: the part of them a planned Prefill really leaves
          WorkSizes,     \* bound: cells of a runtime buffer
          Pins,          \* bound: sets of slots that may be protected at once
          Nobody

Total == Max({s.to : s \in Shards})
Cut(a, b) == [from |-> a, to |-> b]
Cuts == {c \in [from : 0..Total, to : 0..Total] : c.from < c.to}
Directory == DOMAIN Slots      \* the slots, numbered pool by pool
Within(r, w) == w.from <= r.from /\ r.to <= w.to
Overlap(r, q) == r.from < q.to /\ q.from < r.to
Size(r) == r.to - r.from
CellsOf(r) == r.from..(r.to - 1)
CellsIn(R) == UNION {CellsOf(r) : r \in R}

\* What ExpertArenaLayout::build returns.
ASSUME ArenaAssumption ==
    /\ Shards \subseteq Cuts /\ Total \in Nat
    /\ \A s, q \in Shards : s # q => ~Overlap(s, q)
    /\ CellsIn(Shards) = 0..(Total - 1)
    /\ IsFiniteSet(Directory) /\ Directory = 1..Cardinality(Directory)
    /\ \A i \in Directory : \E s \in Shards : Slots[i].r \in Cuts /\ Within(Slots[i].r, s)
    /\ \A i, j \in Directory : i # j => ~Overlap(Slots[i].r, Slots[j].r)
    /\ CellsIn({Slots[i].r : i \in Directory}) = 0..(Total - 1)
    /\ FloorFrom \in Nat /\ FloorTo \in Nat /\ Reserve \in Nat
    /\ FloorFrom <= FloorTo /\ FloorTo + Reserve <= Total
    /\ \A i \in Directory : \/ Slots[i].r.to <= FloorFrom
                            \/ FloorTo <= Slots[i].r.from
                            \/ Within(Slots[i].r, Cut(FloorFrom, FloorTo))
    /\ \A p \in DOMAIN MinEnabled :
          /\ MinEnabled[p] \in Nat
          /\ Cardinality({i \in Directory : /\ Slots[i].pool = p
                                            /\ Within(Slots[i].r, Cut(FloorFrom, FloorTo))})
               >= MinEnabled[p]
    /\ SegLen \in Nat \ {0} /\ MaxSegs \in Nat \ {0}
    /\ RingSizes \subseteq Nat \ {0} /\ WorkSizes \subseteq Nat \ {0}
    /\ RingReserves \subseteq 0..Reserve
    /\ \A P \in Pins : P \subseteq Directory
    /\ Nobody \notin Sessions \cup Directory /\ Sessions \cap Directory = {}

VARIABLES free,     \* the free lists of all shards, as a set of ranges
          live,     \* the allocations: [r, class, owner, lease, held]
          changed,  \* generation # unified_generation
          mode,     \* MoeArenaMode
          kv,       \* session -> its frozen coordinates and committed segments
          gate,     \* what the holder of the execution gate is doing
          cursor,   \* the next slot a restore looks at
          goal,     \* what it holds the gate for
          plan      \* UnifiedClaimPlan: the ranges, and the victims to retire

vars == <<free, live, changed, mode, kv, gate, cursor, goal, plan>>

NoGoal == [class |-> "none", owner |-> Nobody, size |-> 0]
NoPlan == [ranges |-> {}, victims |-> {}]
NoKv == [at |-> <<>>, depth |-> 0, closing |-> FALSE]

-----------------------------------------------------------------------------
(* The allocator.                                                          *)

\* The maximal ranges inside one of the windows that no blocker touches:
\* what take_range leaves of a free list, and the gaps a planner looks at.
Gaps(windows, blockers) ==
    {g \in Cuts : \E w \in windows :
        /\ Within(g, w)
        /\ \A b \in blockers : ~Overlap(g, b)
        /\ g.from = w.from \/ \E b \in blockers : b.to = g.from
        /\ g.to = w.to \/ \E b \in blockers : b.from = g.to}

\* Mutant: the neighbour above is not merged.
InsertNoNext(F, r) ==
    LET Joins == {f \in F : \E s \in Shards : Within(f, s) /\ Within(r, s) /\ f.to = r.from}
        All == Joins \cup {r}
    IN (F \ Joins) \cup {Cut(Min({f.from : f \in All}), Max({f.to : f \in All}))}

\* insert_free: a returned range is merged with its neighbours of its shard.
Insert(F, r) ==
    LET Joins == {f \in F : /\ \E s \in Shards : Within(f, s) /\ Within(r, s)
                            /\ f.to = r.from \/ r.to = f.from}
        All == Joins \cup {r}
    IN (F \ Joins) \cup {Cut(Min({f.from : f \in All}), Max({f.to : f \in All}))}

\* A batch is claimed whole or not at all.
Claimable(R) ==
    /\ \A r \in R : \E f \in free : Within(r, f)
    /\ \A r, q \in R : r # q => ~Overlap(r, q)

\* The records of one committed batch: they share one owner lease.
Batch(R, class, owner) ==
    {[r |-> r, class |-> class, owner |-> owner, lease |-> R, held |-> TRUE] : r \in R}

\* The handles of some allocations are dropped.
Released(A) == {IF a \in A THEN [a EXCEPT !.held = FALSE] ELSE a : a \in live}

Experts == {a \in live : a.class = "Expert"}
Others == {a.r : a \in live \ Experts}
Enabled(pool) == {a \in Experts : a.held /\ Slots[a.owner].pool = pool}

\* A drop runs to its end before its thread goes on; the gate's holder only
\* drops expert slots and the Prefill ring.
Drained == \A a \in live : ~a.held => a.class \notin {"Expert", "Prefill"}

Init ==
    /\ free = {}
    /\ live = UNION {Batch({Slots[i].r}, "Expert", i) : i \in Directory}
    /\ changed = FALSE /\ mode = "decode"
    /\ kv = [k \in Sessions |-> NoKv]
    /\ gate = "open" /\ cursor = 1 /\ goal = NoGoal /\ plan = NoPlan

\* Mutant: each range comes back with its own handle.
GiveBackAlone(a) ==
    /\ a \in live /\ ~a.held
    /\ live' = live \ {a}
    /\ free' = Insert(free, a.r)
    /\ changed' = TRUE
    /\ UNCHANGED <<mode, kv, gate, cursor, goal, plan>>

\* Drop for UnifiedAllocation, run once the last handle of the lease is
\* gone: the ranges return one by one, each under the allocator's lock.
GiveBack(a) ==
    /\ a \in live /\ \A b \in live : b.lease = a.lease => ~b.held
    /\ live' = live \ {a}
    /\ free' = Insert(free, a.r)
    /\ changed' = TRUE
    /\ UNCHANGED <<mode, kv, gate, cursor, goal, plan>>

-----------------------------------------------------------------------------
(* Clients dropping what they hold; none of them takes the gate for it.    *)

CloseWork(a) ==
    /\ a \in live /\ a.class = "LlmRuntime" /\ a.held
    /\ live' = Released({a})
    /\ UNCHANGED <<free, changed, mode, kv, gate, cursor, goal, plan>>

\* A dropped segment came back unless a sibling of its batch is still there.
Returned(k) ==
    \A a \in live : a.owner = k /\ ~a.held => \E b \in live : b.lease = a.lease /\ b.held

\* Dropping the segments behind the first n, in order.
DropSegment(k, n) ==
    /\ Returned(k)
    /\ \E i \in (n + 1)..Len(kv[k].at) : \E a \in live :
          /\ a.owner = k /\ a.held /\ a.r = kv[k].at[i]
          /\ \A b \in live : b.owner = k /\ b.held =>
                b.r \notin {kv[k].at[j] : j \in (n + 1)..(i - 1)}
          /\ live' = Released({a})

\* A segmented buffer drops its segments, then its reservation; not while
\* somebody grows or trims it, who holds a reference.
CloseSegment(k) ==
    /\ goal.owner # k /\ DropSegment(k, 0)
    /\ kv' = [kv EXCEPT ![k].closing = TRUE]
    /\ UNCHANGED <<free, changed, mode, gate, cursor, goal, plan>>

\* Mutant: the reservation goes before the segments.
DropReservationFirst(k) ==
    /\ goal.owner # k /\ kv[k].at # <<>>
    /\ kv' = [kv EXCEPT ![k] = NoKv]
    /\ UNCHANGED <<free, live, changed, mode, gate, cursor, goal, plan>>

DropReservation(k) ==
    /\ goal.owner # k
    /\ kv[k].at # <<>> /\ \A a \in live : a.owner # k
    /\ kv' = [kv EXCEPT ![k] = NoKv]
    /\ UNCHANGED <<free, live, changed, mode, gate, cursor, goal, plan>>

-----------------------------------------------------------------------------
(* Taking the gate.                                                        *)

\* alloc_unified_buffer: a runtime buffer.
StartWork(n) ==
    /\ gate = "open"
    /\ gate' = "plan" /\ goal' = [class |-> "LlmRuntime", owner |-> Nobody, size |-> n]
    /\ UNCHANGED <<free, live, changed, mode, kv, cursor, plan>>

\* Mutant: whether to restore is decided before the ring is dropped.
EnterDecodeStale ==
    /\ mode' = "decode"
    /\ live' = Released({a \in live : a.class = "Prefill"})
    /\ gate' = IF changed THEN "restore"
               ELSE IF goal' = NoGoal THEN "open" ELSE "plan"

\* The Prefill ring is dropped and what the ring and others gave back is
\* restored before the caller goes on.
EnterDecode ==
    /\ mode' = "decode"
    /\ live' = Released({a \in live : a.class = "Prefill"})
    /\ gate' = IF mode = "prefill" \/ changed THEN "restore"
               ELSE IF goal' = NoGoal THEN "open" ELSE "plan"

StartDecode ==
    /\ gate = "open" /\ mode = "prefill"
    /\ goal' = NoGoal
    /\ EnterDecode
    /\ UNCHANGED <<free, changed, kv, cursor, plan>>

\* ensure_segmented_kv: growing to a number of committed segments ends a
\* Prefill phase first.
StartGrow(k, want) ==
    /\ gate = "open" /\ ~kv[k].closing /\ want > kv[k].depth
    /\ goal' = [class |-> "KvCache", owner |-> k, size |-> want]
    /\ EnterDecode
    /\ UNCHANGED <<free, changed, kv, cursor, plan>>

StartRing ==
    /\ gate = "open" /\ mode = "decode"
    /\ goal' = [class |-> "Prefill", owner |-> Nobody, size |-> 0]
    /\ gate' = IF changed THEN "restore" ELSE "plan"
    /\ UNCHANGED <<free, live, changed, mode, kv, cursor, plan>>

\* Another client becomes active, or a decode cohort shrank.
StartRestore ==
    /\ gate = "open" /\ changed
    /\ gate' = "restore"
    /\ UNCHANGED <<free, live, changed, mode, kv, cursor, goal, plan>>

-----------------------------------------------------------------------------
(* Trimming a session between two benchmark cases, under the gate.         *)

\* reset_benchmark_session_state: a session of more than one segment keeps
\* the first, and all its coordinates.
StartTrim(k) ==
    /\ gate = "open" /\ ~kv[k].closing /\ kv[k].depth > 1
    /\ gate' = "trim" /\ goal' = [class |-> "Trim", owner |-> k, size |-> 1]
    /\ kv' = [kv EXCEPT ![k].depth = 1]
    /\ UNCHANGED <<free, live, changed, mode, cursor, plan>>

\* trim_segmented_kv: segments.truncate(keep).
TrimSegment(k) ==
    /\ gate = "trim" /\ goal.owner = k /\ DropSegment(k, goal.size)
    /\ UNCHANGED <<free, changed, mode, kv, gate, cursor, goal, plan>>

EndTrim(k) ==
    /\ gate = "trim" /\ goal.owner = k /\ Returned(k)
    /\ \A a \in live : a.owner = k /\ a.held => a.r \in {kv[k].at[i] : i \in 1..goal.size}
    /\ gate' = "open" /\ goal' = NoGoal
    /\ UNCHANGED <<free, live, changed, mode, kv, cursor, plan>>

-----------------------------------------------------------------------------
(* Restoring the Expert filler, pool by pool and slot by slot.             *)

RestoreSlot ==
    /\ gate = "restore" /\ Drained /\ cursor \in Directory
    /\ LET r == Slots[cursor].r IN
       IF (\A a \in Experts : a.owner # cursor) /\ Claimable({r})
         THEN /\ live' = live \cup Batch({r}, "Expert", cursor)
              /\ free' = Gaps(free, {r})
         ELSE UNCHANGED <<live, free>>
    /\ cursor' = cursor + 1
    /\ UNCHANGED <<changed, mode, kv, gate, goal, plan>>

\* The generation is read again at the end, whatever it is by then.
EndRestore ==
    /\ gate = "restore" /\ cursor \notin Directory
    /\ changed' = FALSE /\ cursor' = 1
    /\ gate' = IF goal = NoGoal THEN "open" ELSE "plan"
    /\ UNCHANGED <<free, live, mode, kv, goal, plan>>

-----------------------------------------------------------------------------
(* Planning.                                                               *)

Corridor(from, to) ==
    {Cut(Max({s.from, from}), Min({s.to, to})) :
        s \in {q \in Shards : Overlap(q, Cut(from, to))}}

\* Protected slots block a claim while they hold an expert.
Pinned(P) == {a.r : a \in {e \in Experts : e.owner \in P}}

Fitting(G, n) == {g \in G : Size(g) >= n}
LowFit(G, n) == LET a == Min({g.from : g \in Fitting(G, n)}) IN Cut(a, a + n)
HighFit(G, n) == LET b == Max({g.to : g \in Fitting(G, n)}) IN Cut(b - n, b)

\* plan_unit_claim, when no gap takes the whole payload: the largest gaps
\* are used up one after the other until a gap takes the rest; of those the
\* smallest is chosen and filled from its lower end.
Larger(f, g) == Size(f) > Size(g) \/ (Size(f) = Size(g) /\ f.from < g.from)
Splits(G, n) ==
    LET Rest(F) == n - Cardinality(CellsIn(F))
        Full == {F \in SUBSET G : /\ Cardinality(CellsIn(F)) < n
                                  /\ \A f \in F, g \in G \ F : Larger(f, g)}
        Last(F) == {l \in Fitting(G \ F, Rest(F)) :
                      \A g \in Fitting(G \ F, Rest(F)) :
                          Size(l) < Size(g) \/ (Size(l) = Size(g) /\ l.from <= g.from)}
    IN UNION {{F \cup {Cut(l.from, l.from + Rest(F))} : l \in Last(F)} : F \in Full}

\* Mutant: a slot that sticks out of the claimed ranges is no victim.
SettleInside(R) ==
    LET victims == {a.owner : a \in {e \in Experts : \E r \in R : Within(e.r, r)}}
        Lent(pool) == {i \in victims : Slots[i].pool = pool}
    IN IF \/ goal.class = "Prefill" \/ mode = "prefill"
          \/ \A p \in DOMAIN MinEnabled :
                Lent(p) # {} => Cardinality(Enabled(p)) >= Cardinality(Lent(p)) + MinEnabled[p]
         THEN /\ plan' = [ranges |-> R, victims |-> victims]
              /\ gate' = "retire" /\ UNCHANGED goal
         ELSE gate' = "open" /\ goal' = NoGoal /\ UNCHANGED plan

\* commit_unified_claim's first half: a claim may not take a pool below its
\* floor, except for Prefill or during it.
Settle(R) ==
    LET victims == {a.owner : a \in {e \in Experts : \E r \in R : Overlap(e.r, r)}}
        Lent(pool) == {i \in victims : Slots[i].pool = pool}
    IN IF \/ goal.class = "Prefill" \/ mode = "prefill"
          \/ \A p \in DOMAIN MinEnabled :
                Lent(p) # {} => Cardinality(Enabled(p)) >= Cardinality(Lent(p)) + MinEnabled[p]
         THEN /\ plan' = [ranges |-> R, victims |-> victims]
              /\ gate' = "retire" /\ UNCHANGED goal
         ELSE gate' = "open" /\ goal' = NoGoal /\ UNCHANGED plan

GiveUp == gate' = "open" /\ goal' = NoGoal /\ UNCHANGED plan

PlanWork ==
    /\ gate = "plan" /\ goal.class = "LlmRuntime"
    /\ \E P \in Pins :
          LET G == Gaps(Corridor(FloorTo, Total), Others \cup Pinned(P))
          IN IF Fitting(G, goal.size) # {} THEN Settle({HighFit(G, goal.size)}) ELSE GiveUp
    /\ UNCHANGED <<free, live, changed, mode, kv, cursor>>

\* The widest ring that fits the live arena; nothing is protected from it.
PlanRing ==
    /\ gate = "plan" /\ goal.class = "Prefill"
    /\ \E reserve \in RingReserves :
          LET G == Gaps(Corridor(0, Total - reserve), Others)
              room == Cardinality(CellsIn(G))
              n == Max({0} \cup {m \in RingSizes : m <= room})
          IN \/ n = 0 /\ GiveUp
             \/ n > 0 /\ Fitting(G, n) # {} /\ Settle({LowFit(G, n)})
             \/ n > 0 /\ Fitting(G, n) = {} /\ \E R \in Splits(G, n) : Settle(R)
    /\ UNCHANGED <<free, live, changed, mode, kv, cursor>>

Reserved == UNION {{kv[k].at[i] : i \in DOMAIN kv[k].at} : k \in Sessions}

\* Mutant: other sessions' reservations are not in the way.
ReserveKvOverReserved(k) ==
    /\ gate = "plan" /\ goal.class = "KvCache" /\ goal.owner = k /\ kv[k].at = <<>>
    /\ \E P \in Pins :
          LET Room(at, i) == Gaps(Corridor(0, FloorFrom),
                                  Others \cup Pinned(P) \cup {at[j] : j \in 1..(i - 1)})
              Laid == {at \in [1..MaxSegs -> {c \in Cuts : Size(c) = SegLen /\ c.to <= FloorFrom}] :
                         \A i \in 1..MaxSegs : /\ Fitting(Room(at, i), SegLen) # {}
                                               /\ at[i] = LowFit(Room(at, i), SegLen)}
          IN \/ \E at \in Laid : kv' = [kv EXCEPT ![k].at = at] /\ UNCHANGED <<gate, goal, plan>>
             \/ Laid = {} /\ GiveUp /\ UNCHANGED kv
    /\ UNCHANGED <<free, live, changed, mode, cursor>>

\* reserve_kv_layout: the coordinates of every segment a session may ever
\* have, each in the lowest gap that takes it, clear of the earlier
\* ones, of every live owner and of the coordinates of the other sessions.
\* Nothing is allocated.
ReserveKv(k) ==
    /\ gate = "plan" /\ goal.class = "KvCache" /\ goal.owner = k /\ kv[k].at = <<>>
    /\ \E P \in Pins :
          LET Room(at, i) == Gaps(Corridor(0, FloorFrom), Others \cup Pinned(P) \cup Reserved
                                                             \cup {at[j] : j \in 1..(i - 1)})
              Laid == {at \in [1..MaxSegs -> {c \in Cuts : Size(c) = SegLen /\ c.to <= FloorFrom}] :
                         \A i \in 1..MaxSegs : /\ Fitting(Room(at, i), SegLen) # {}
                                               /\ at[i] = LowFit(Room(at, i), SegLen)}
          IN \/ \E at \in Laid : kv' = [kv EXCEPT ![k].at = at] /\ UNCHANGED <<gate, goal, plan>>
             \/ Laid = {} /\ GiveUp /\ UNCHANGED kv
    /\ UNCHANGED <<free, live, changed, mode, cursor>>

\* plan_exact_claim of the next segments at their frozen coordinates.
PlanGrow(k) ==
    /\ gate = "plan" /\ goal.class = "KvCache" /\ goal.owner = k /\ kv[k].at # <<>>
    /\ LET R == {kv[k].at[i] : i \in (kv[k].depth + 1)..goal.size}
       IN \E P \in Pins :
             IF \A r \in R, b \in Others \cup Pinned(P) : ~Overlap(r, b)
               THEN Settle(R) ELSE GiveUp
    /\ UNCHANGED <<free, live, changed, mode, kv, cursor>>

-----------------------------------------------------------------------------
(* commit_unified_claim: retire the victims, then take the ranges.         *)

Retire ==
    /\ gate = "retire" /\ Drained /\ plan.victims # {}
    /\ LET i == Min(plan.victims) IN
          /\ live' = Released({a \in Experts : a.owner = i})
          /\ plan' = [plan EXCEPT !.victims = @ \ {i}]
    /\ UNCHANGED <<free, changed, mode, kv, gate, cursor, goal>>

\* A stale plan would be refused and the filler restored.
Commit ==
    /\ gate = "retire" /\ Drained /\ plan.victims = {}
    /\ IF Claimable(plan.ranges)
         THEN /\ live' = live \cup Batch(plan.ranges, goal.class, goal.owner)
              /\ free' = Gaps(free, plan.ranges)
              /\ mode' = IF goal.class = "Prefill" THEN "prefill" ELSE mode
              /\ kv' = IF goal.class = "KvCache"
                         THEN [kv EXCEPT ![goal.owner].depth = goal.size] ELSE kv
              /\ gate' = "open"
         ELSE gate' = "restore" /\ UNCHANGED <<live, free, mode, kv>>
    /\ changed' = FALSE /\ plan' = NoPlan /\ goal' = NoGoal
    /\ UNCHANGED cursor

-----------------------------------------------------------------------------

Next ==
    \/ \E a \in live : GiveBack(a) \/ CloseWork(a)
    \/ \E k \in Sessions : CloseSegment(k) \/ DropReservation(k) \/ ReserveKv(k) \/ PlanGrow(k)
    \/ \E n \in WorkSizes : StartWork(n)
    \/ \E k \in Sessions, n \in 1..MaxSegs : StartGrow(k, n)
    \/ \E k \in Sessions : StartTrim(k) \/ TrimSegment(k) \/ EndTrim(k)
    \/ StartDecode \/ StartRing \/ StartRestore
    \/ RestoreSlot \/ EndRestore
    \/ PlanWork \/ PlanRing \/ Retire \/ Commit

Spec == Init /\ [][Next]_vars

-----------------------------------------------------------------------------
(* Properties.                                                             *)

Trimming(k) == gate = "trim" /\ goal.owner = k
Growing(k) == gate = "plan" /\ goal.owner = k
Uncommitted(k) == {kv[k].at[i] : i \in (kv[k].depth + 1)..Len(kv[k].at)}

\* Type invariant; the segments a session holds are the first of its
\* coordinates, unless it is being closed or trimmed.
TypeOK ==
    /\ free \subseteq Cuts
    /\ \A a \in live :
          /\ a.r \in a.lease /\ a.lease \subseteq Cuts /\ a.held \in BOOLEAN
          /\ \/ a.class = "Expert" /\ a.owner \in Directory
             \/ a.class = "KvCache" /\ a.owner \in Sessions
             \/ a.class \in {"LlmRuntime", "Prefill"} /\ a.owner = Nobody
    /\ changed \in BOOLEAN /\ mode \in {"decode", "prefill"}
    /\ \A k \in Sessions : /\ Len(kv[k].at) \in {0, MaxSegs} /\ kv[k].depth \in 0..Len(kv[k].at)
                           /\ \A i \in DOMAIN kv[k].at : kv[k].at[i] \in Cuts
                           /\ kv[k].closing \in BOOLEAN
    /\ gate \in {"open", "restore", "plan", "retire", "trim"}
    /\ cursor \in 1..(Cardinality(Directory) + 1)
    /\ goal.class \in {"none", "KvCache", "Trim", "LlmRuntime", "Prefill"}
    /\ goal.owner \in Sessions \cup {Nobody}
    /\ plan.ranges \subseteq Cuts /\ plan.victims \subseteq Directory
    /\ \A k \in Sessions : ~kv[k].closing /\ ~Trimming(k) =>
          {a.r : a \in {b \in live : b.owner = k /\ b.held}}
            = {kv[k].at[i] : i \in 1..kv[k].depth}

\* The free lists and the allocations tile every shard, however claims,
\* restores and drops interleave, and the free lists stay "sorted, disjoint
\* and maximally coalesced" (ShardState::free): no gap is ever split in two
\* that a claim would then not fit.
Tiled ==
    LET Pieces == free \cup {a.r : a \in live} IN
    /\ \A p, q \in Pieces : p # q => ~Overlap(p, q)
    /\ \A a \in live : a.r \notin free /\ \A b \in live : a.r = b.r => a = b
    /\ CellsIn(Pieces) = 0..(Total - 1)
    /\ \A p \in Pieces : \E s \in Shards : Within(p, s)
    /\ \A f, g \in free : f.to = g.from => \E s \in Shards : s.to = f.to

\* Nobody can invalidate a plan between its planning and its commit (comment
\* on UnifiedClaimPlan): once the victims are retired the ranges are free,
\* although clients drop leases all the time without the gate.
NeverStale == gate = "retire" /\ Drained /\ plan.victims = {} => Claimable(plan.ranges)

\* What a session has not committed of its frozen coordinates nobody else
\* is ever given, neither another session nor a runtime buffer; a Prefill
\* ring that borrowed it is gone before a growth is planned, and so is a
\* trimmed segment of the session itself, unless the segments it keeps hold
\* the lease of the batch.
FrozenCoordinates ==
    \A k \in Sessions : \A r \in Uncommitted(k) : \A a \in live : Overlap(a.r, r) =>
        \/ a.class = "Expert"
        \/ a.class = "Prefill" /\ ~Growing(k)
        \/ a.owner = k /\ ~a.held /\ (Growing(k) => \E b \in live : b.lease = a.lease /\ b.held)
        \/ a.owner = k /\ Trimming(k)

\* After a trim the session can grow again at the same coordinates: its own
\* ranges are not in the way ("segmented physical ranges support recommit",
\* clear_benchmark_slots, parallel.rs:2005).  The code breaks this when one
\* batch had committed the segment that is kept and one that is trimmed.
Recommits ==
    \A k \in Sessions : Growing(k) =>
        \A r \in Uncommitted(k) : \A a \in live : a.owner = k => ~Overlap(a.r, r)

\* Decode never runs with fewer experts of a pool enabled than one dispatch
\* needs: what Prefill took of the floor is back before Decode goes on.
FloorKept ==
    mode = "decode" /\ gate \in {"open", "plan"} =>
        \A p \in DOMAIN MinEnabled : Cardinality(Enabled(p)) >= MinEnabled[p]

Leases == INSTANCE CellLeases WITH
    Cells <- 0..(Total - 1),
    leases <- {[batch |-> CellsIn(L),
                left |-> CellsIn({a.r : a \in {b \in live : b.lease = L}}),
                open |-> \E a \in live : a.lease = L /\ a.held] : L \in {a.lease : a \in live}}

\* No cell is leased twice, and "no subset can return to Expert filler while
\* sibling buffers from the same batch are still live" (comment on
\* UnifiedAllocationHandle::_owner).
LeasesHold == Leases!LeaseSpec

=============================================================================
