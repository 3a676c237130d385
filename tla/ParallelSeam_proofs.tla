------------------------ MODULE ParallelSeam_proofs ------------------------
(***************************************************************************)
(* Proofs about ParallelSeam, for any slots, calls, images, batch sizes    *)
(* and budgets.                                                            *)
(*                                                                         *)
(* SeamInv is about the hand-over: which threads have a work in the queue  *)
(* or the cohort, what the token group holds, how far a budget is spent.   *)
(* OwnInv adds the KVs: what a guard, a work and a slot look like at each  *)
(* program point, and that no KV has two holders.                          *)
(***************************************************************************)
EXTENDS ParallelSeam, SlotPool_proofs, SequenceTheorems, FiniteSetTheorems

\* The scheduler has, or will find, the work of r.
Scheduled == Queued \cup active

\* A call that registered counts as arriving until it is queued or gives up.
Registered ==
  /\ IsFiniteSet(reg) /\ arriving = Cardinality(reg)
  /\ \A r \in Requests : req[r].pc = "encode" => r \in reg
  /\ \A r \in reg : req[r].pc \in {"encode", "checkout", "asleep", "seed", "held"}

\* A call is queued once, in the queue or in the cohort, and the cohort is within its bounds.
QueueShape ==
  /\ \A i, j \in 1..Len(waiting) : waiting[i] = waiting[j] => i = j
  /\ Queued \cap active = {}
  /\ IsFiniteSet(active)
  /\ sched.pc \in {"idle", "asleep", "gather", "refill"} => active = {}

\* The token group is part of the cohort, and tokens are out only while they are delivered.
GroupShape ==
  /\ sched.pc \notin {"step", "deliver", "account"} => sched.group = NoGroup
  /\ sched.pc # "deliver" => sched.group.todo = {} /\ sched.group.pend = {}
  /\ sched.group.lanes \subseteq active
  /\ sched.group.todo \subseteq sched.group.lanes
  /\ sched.group.pend \subseteq sched.group.lanes

\* A thread listens as long as its work is scheduled, or it has unwound.
Listeners ==
  /\ \A r \in Requests : Alive(r) => r \in Scheduled
  /\ \A r \in Scheduled : Alive(r) \/ req[r].pc = "done"

\* A call that is not scheduled has no work, and a queued work is unspent.
WorkShape ==
  /\ \A r \in Requests : r \notin Scheduled => work[r] = NoWork
  /\ \A r \in Queued : work[r].gen = 0

\* Where the budget of a member of the cohort may be used up.
Budget ==
  \A r \in active : work[r].gen >= MaxNew =>
    \/ sched.pc \in {"fail", "closed"}
    \/ sched.pc = "deliver" /\ r \in sched.group.lanes /\ Decode(r)
    \/ sched.pc = "account" /\ r \in sched.group.lanes
    \/ sched.pc = "retire" /\ work[r].finished

\* A token group runs only without long prompts in the cohort.
NoLong == sched.pc \in {"group", "step", "deliver"} => \A r \in active : ~Long(r)

SeamInv ==
  /\ TypeOK /\ Registered /\ QueueShape /\ GroupShape /\ Listeners /\ WorkShape
  /\ Budget /\ NoLong /\ CohortBounded /\ AckExpected /\ NoStrandedWork

\* What the guard of r holds at each program point.
SeamGuard(r) ==
  /\ req[r].pc \notin {"seed", "held", "release", "handoff"} => req[r].kv = None
  /\ req[r].pc \notin {"seed", "held", "release", "handoff"} \cup Listening => req[r].slot = None
  /\ req[r].pc \in {"seed", "held", "release", "handoff"} =>
       req[r].slot \in Slots /\ req[r].kv = req[r].slot
  /\ Alive(r) => req[r].slot = work[r].slot
  /\ req[r].pc # "seed" => req[r].src = None
  /\ req[r].srcKv = req[r].src
  /\ req[r].src # None => req[r].src # req[r].slot

SeamGuards == \A r \in Requests : SeamGuard(r)

\* A work carries the KV of its slot.
WorkKv == \A r \in Scheduled : work[r].kv \in Slots /\ work[r].slot = work[r].kv

\* Call r has the KV of s: in its guard, as a copy source, or in its work.
Has(r, s) == req[r].kv = s \/ req[r].srcKv = s \/ work[r].kv = s

\* A busy slot's KV has a holder, a free slot's none, and no KV has two.
SeamExclusive ==
  \A s \in Slots :
    /\ slots[s].busy <=> cold.kv = s \/ \E r \in Requests : Has(r, s)
    /\ \A r \in Requests : Has(r, s) => cold.kv # s /\ \A q \in Requests : Has(q, s) => q = r

OwnInv == SeamInv /\ SeamGuards /\ WorkKv /\ ColdShape /\ SlotShape /\ SeamExclusive

-----------------------------------------------------------------------------
(* Queue and cohort. *)

\* A work that is appended to the queue is the last of it.
LEMMA Appended ==
  ASSUME waiting \in Seq(Requests), NEW r \in Requests, waiting' = Append(waiting, r)
  PROVE  /\ waiting' \in Seq(Requests) /\ waiting' # <<>>
         /\ Queued' = Queued \cup {r}
         /\ /\ \A i, j \in 1..Len(waiting) : waiting[i] = waiting[j] => i = j
            /\ r \notin Queued
            => \A i, j \in 1..Len(waiting') : waiting'[i] = waiting'[j] => i = j
<1>1. /\ waiting' \in Seq(Requests) /\ Len(waiting') = Len(waiting) + 1 /\ Len(waiting) \in Nat
      /\ waiting'[Len(waiting) + 1] = r
      /\ \A i \in 1..Len(waiting) : waiting'[i] = waiting[i]
  BY AppendProperties, LenProperties
<1>2. waiting' # <<>>
  BY <1>1, EmptySeq
<1>3. Queued' = Queued \cup {r}
  BY <1>1 DEF Queued
<1>4. ASSUME \A i, j \in 1..Len(waiting) : waiting[i] = waiting[j] => i = j, r \notin Queued,
             NEW i \in 1..Len(waiting'), NEW j \in 1..Len(waiting'), waiting'[i] = waiting'[j]
      PROVE  i = j
  BY <1>1, <1>4 DEF Queued
<1> QED
  BY <1>1, <1>2, <1>3, <1>4

\* Admission moves a prefix of the queue into the cohort.
LEMMA Admitted ==
  ASSUME waiting \in Seq(Requests), active \in SUBSET Requests, IsFiniteSet(active),
         NEW n \in Nat, Admit(n)
  PROVE  /\ waiting' \in Seq(Requests) /\ active' \in SUBSET Requests
         /\ active \subseteq active' /\ IsFiniteSet(active')
         /\ Queued' \cup active' = Queued \cup active /\ Queued' \subseteq Queued
         /\ Cardinality(active') <= Cardinality(active) + n
         /\ Len(waiting) <= n => waiting' = <<>>
         /\ waiting = <<>> => active' = active
         /\ /\ \A i, j \in 1..Len(waiting) : waiting[i] = waiting[j] => i = j
            /\ Queued \cap active = {}
            => /\ \A i, j \in 1..Len(waiting') : waiting'[i] = waiting'[j] => i = j
               /\ Queued' \cap active' = {}
<1> DEFINE take == Smaller(n, Len(waiting))
           taken == {waiting[i] : i \in 1..take}
<1>1. /\ Len(waiting) \in Nat /\ take \in 0..Len(waiting) /\ take <= n
      /\ Len(waiting) <= n => take = Len(waiting)
      /\ \A i \in 1..Len(waiting) : waiting[i] \in Requests
  BY LenProperties, ElementOfSeq DEF Smaller
<1>2. active' = active \cup taken /\ waiting' = SubSeq(waiting, take + 1, Len(waiting))
  BY DEF Admit
<1> HIDE DEF take
<1>3. /\ waiting' \in Seq(Requests) /\ Len(waiting') = Len(waiting) - take
      /\ \A i \in 1..Len(waiting') : waiting'[i] = waiting[take + i]
  BY <1>1, <1>2, SubSeqProperties
<1>4. IsFiniteSet(taken) /\ Cardinality(taken) <= n
  <2> DEFINE f == [i \in 1..take |-> waiting[i]]
  <2>1. f \in Surjection(1..take, taken)
    BY DEF Surjection
  <2>2. IsFiniteSet(1..take) /\ Cardinality(1..take) = take
    BY <1>1, FS_Interval
  <2>3. IsFiniteSet(taken) /\ Cardinality(taken) <= take
    <3> HIDE DEF f, taken
    <3> QED BY <2>1, <2>2, FS_Surjection
  <2> QED
    BY <1>1, <2>3, FS_CardinalityType
<1>5. IsFiniteSet(active') /\ Cardinality(active') <= Cardinality(active) + n
  <2> HIDE DEF taken
  <2>1. /\ IsFiniteSet(active') /\ IsFiniteSet(active \cap taken)
        /\ Cardinality(active') = Cardinality(active) + Cardinality(taken) - Cardinality(active \cap taken)
    BY <1>2, <1>4, FS_Union, FS_Intersection
  <2>2. Cardinality(active) \in Nat /\ Cardinality(taken) \in Nat /\ Cardinality(active \cap taken) \in Nat
    BY <1>4, <2>1, FS_CardinalityType
  <2> QED
    BY <1>4, <2>1, <2>2
<1>6. active \subseteq active' /\ active' \in SUBSET Requests
  BY <1>1, <1>2
<1>7. Queued' = {waiting[i] : i \in take + 1..Len(waiting)}
  <2>1. \A i \in take + 1..Len(waiting) : i - take \in 1..Len(waiting') /\ take + (i - take) = i
    BY <1>1, <1>3
  <2>2. \A i \in 1..Len(waiting') : take + i \in take + 1..Len(waiting)
    BY <1>1, <1>3
  <2> QED
    BY <1>3, <2>1, <2>2 DEF Queued
<1>8. Queued = taken \cup Queued'
  <2>1. 1..Len(waiting) = 1..take \cup (take + 1..Len(waiting))
    BY <1>1
  <2> QED
    BY <1>7, <2>1 DEF Queued
<1>9. Len(waiting) <= n => waiting' = <<>>
  BY <1>1, <1>2, SubSeqEmpty
<1>10. waiting = <<>> => active' = active
  <2>1. waiting = <<>> => take = 0
    BY <1>1, EmptySeq
  <2> QED
    BY <1>2, <2>1
<1>11. ASSUME \A i, j \in 1..Len(waiting) : waiting[i] = waiting[j] => i = j, Queued \cap active = {}
       PROVE  /\ \A i, j \in 1..Len(waiting') : waiting'[i] = waiting'[j] => i = j
              /\ Queued' \cap active' = {}
  <2>1. ASSUME NEW i \in 1..Len(waiting'), NEW j \in 1..Len(waiting'), waiting'[i] = waiting'[j]
        PROVE  i = j
    <3>1. take + i \in 1..Len(waiting) /\ take + j \in 1..Len(waiting)
      BY <1>1, <1>3
    <3>2. take + i = take + j
      BY <1>3, <1>11, <2>1, <3>1
    <3> QED
      BY <1>1, <3>2
  <2>2. taken \cap Queued' = {}
    BY <1>1, <1>7, <1>11
  <2> QED
    BY <1>2, <1>8, <1>11, <2>1, <2>2
<1> QED
  BY <1>2, <1>3, <1>5, <1>6, <1>8, <1>9, <1>10, <1>11

-----------------------------------------------------------------------------
(* Threads that are not listening, and the cold worker. *)

\* The scheduler is woken or left alone.
LEMMA Woken ==
  ASSUME TypeOK, UNCHANGED sched \/ WakeScheduler
  PROVE  /\ sched' \in [pc : SchedPcs, coalesced : BOOLEAN, group : GroupType]
         /\ sched'.group = sched.group /\ sched'.coalesced = sched.coalesced
         /\ sched'.pc = sched.pc \/ (sched.pc = "asleep" /\ sched'.pc = "idle")
         /\ WakeScheduler => sched'.pc # "asleep"
<1>1. sched \in [pc : SchedPcs, coalesced : BOOLEAN, group : GroupType]
  BY DEF TypeOK
<1>2. CASE sched' = sched /\ ~WakeScheduler
  BY <1>1, <1>2
<1>3. CASE WakeScheduler
  BY <1>1, <1>3 DEF WakeScheduler, At, SchedPcs
<1> QED
  BY <1>2, <1>3

\* Only calls are scheduled.
LEMMA ScheduledCalls == TypeOK => Scheduled \subseteq Requests
BY LenProperties, ElementOfSeq DEF TypeOK, Scheduled, Queued

\* Steps of threads that are neither listening nor unwound leave the hand-over alone.
LEMMA AsideInv ==
  ASSUME SeamInv, Registered',
         slots' \in [Slots -> SlotType], content' \in [Slots -> Contents],
         req' \in [Requests -> GuardType(Pcs)], cold' \in ColdType,
         reg' \in SUBSET Requests, arriving' \in Nat,
         \A r \in Requests : \/ req'[r].pc = req[r].pc
                             \/ req[r].pc \notin Listening \cup {"done"} /\ req'[r].pc \notin Listening,
         UNCHANGED <<waiting, interrupt, active, work>>, UNCHANGED sched \/ WakeScheduler
  PROVE  SeamInv'
<1> USE DEF SeamInv
<1>1. /\ sched' \in [pc : SchedPcs, coalesced : BOOLEAN, group : GroupType]
      /\ sched'.group = sched.group
      /\ sched'.pc = sched.pc \/ (sched.pc = "asleep" /\ sched'.pc = "idle")
  BY Woken
<1>2. TypeOK'
  BY <1>1 DEF TypeOK
<1>3. Queued' = Queued /\ Scheduled' = Scheduled
  BY DEF Queued, Scheduled
<1>4. QueueShape' /\ GroupShape' /\ CohortBounded'
  BY <1>1, <1>3 DEF QueueShape, GroupShape, CohortBounded
<1>5. Listeners' /\ WorkShape'
  <2>1. WorkShape'
    BY <1>3 DEF WorkShape
  <2>2. Scheduled \subseteq Requests
    BY ScheduledCalls
  <2> QED
    BY <1>3, <2>1, <2>2 DEF Listeners, Alive, Listening
<1>6. Budget' /\ NoLong'
  BY <1>1 DEF Budget, NoLong, Decode, Long
<1>7. AckExpected'
  BY <1>1 DEF AckExpected, At, Listening
<1>8. NoStrandedWork'
  BY <1>1 DEF NoStrandedWork
<1> QED
  BY <1>2, <1>4, <1>5, <1>6, <1>7, <1>8

\* A registered call counts as one arrival.
LEMMA RegisterInv ==
  ASSUME SeamInv, NEW r \in Requests, Register(r)
  PROVE  SeamInv'
<1> USE DEF SeamInv
<1>1. /\ req[r].pc = "idle" /\ req' = [req EXCEPT ![r].pc = "encode"]
      /\ reg' = reg \cup {r} /\ arriving' = arriving + 1
      /\ UNCHANGED <<slots, content, cold, waiting, interrupt, active, sched, work>>
  BY DEF Register, schedVars
<1>2. r \notin reg
  BY <1>1 DEF Registered
<1>3. IsFiniteSet(reg') /\ arriving' = Cardinality(reg')
  BY <1>1, <1>2, FS_AddElement DEF Registered
<1>4. req' \in [Requests -> GuardType(Pcs)] /\ arriving' \in Nat /\ reg' \in SUBSET Requests
  BY <1>1 DEF TypeOK, GuardType, Pcs
<1>5. \A q \in Requests : req'[q].pc = IF q = r THEN "encode" ELSE req[q].pc
  BY <1>1 DEF TypeOK, GuardType
<1>6. Registered'
  BY <1>1, <1>3, <1>5 DEF Registered, TypeOK
<1> HIDE DEF SeamInv
<1> QED
  BY <1>1, <1>4, <1>5, <1>6, AsideInv DEF SeamInv, TypeOK, Listening

\* ... until its encoding fails or leaves it to itself.
LEMMA EncodedInv ==
  ASSUME SeamInv, NEW r \in Requests, Encoded(r)
  PROVE  SeamInv'
<1> USE DEF SeamInv
<1>1. PICK pc \in {"checkout", "done"} :
        /\ req[r].pc = "encode" /\ req' = [req EXCEPT ![r].pc = pc]
        /\ \/ pc = "checkout" /\ UNCHANGED <<reg, arriving, sched>>
           \/ reg' = reg \ {r} /\ arriving' = arriving - 1 /\ WakeScheduler
        /\ UNCHANGED <<slots, content, cold, waiting, interrupt, active, work>>
  BY DEF Encoded
<1>2. r \in reg
  BY <1>1 DEF Registered
<1>3. IsFiniteSet(reg') /\ arriving' = Cardinality(reg') /\ arriving' \in Nat
  <2>1. IsFiniteSet(reg \ {r}) /\ Cardinality(reg \ {r}) = Cardinality(reg) - 1
    BY <1>2, FS_RemoveElement DEF Registered
  <2>2. Cardinality(reg \ {r}) \in Nat
    BY <2>1, FS_CardinalityType
  <2> QED
    BY <1>1, <2>1, <2>2 DEF Registered, TypeOK
<1>4. req' \in [Requests -> GuardType(Pcs)] /\ reg' \in SUBSET Requests
  BY <1>1 DEF TypeOK, GuardType, Pcs, PoolPcs
<1>5. \A q \in Requests : req'[q].pc = IF q = r THEN pc ELSE req[q].pc
  BY <1>1 DEF TypeOK, GuardType
<1>6. Registered'
  BY <1>1, <1>3, <1>5 DEF Registered, TypeOK
<1> HIDE DEF SeamInv
<1> QED
  BY <1>1, <1>3, <1>4, <1>5, <1>6, AsideInv DEF SeamInv, TypeOK, Listening

\* Calls that nobody registers or forgets keep the count of arrivals.
LEMMA StillRegistered ==
  ASSUME SeamInv, UNCHANGED <<reg, arriving>>,
         \A q \in Requests :
           \/ req'[q].pc = req[q].pc
           \/ req'[q].pc # "encode"
              /\ (q \in reg => req'[q].pc \in {"checkout", "asleep", "seed", "held"})
  PROVE  Registered'
BY DEF SeamInv, Registered, TypeOK

\* A thread that enters past the scheduler, or sleeps, only changes its program counter.
LEMMA StepsAsideInv ==
  ASSUME SeamInv, NEW r \in Requests, NEW pc \in {"checkout", "asleep", "release", "handoff"},
         req[r].pc \in {"idle", "checkout", "held"},
         r \in reg => pc = "asleep" \/ pc = "checkout",
         req' = [req EXCEPT ![r].pc = pc], content' \in [Slots -> Contents],
         UNCHANGED <<slots, cold, queueVars, schedVars, work>>
  PROVE  SeamInv'
<1>1. req' \in [Requests -> GuardType(Pcs)]
  BY DEF SeamInv, TypeOK, GuardType, Pcs, PoolPcs
<1>2. \A q \in Requests : req'[q].pc = IF q = r THEN pc ELSE req[q].pc
  BY DEF SeamInv, TypeOK, GuardType
<1>3. Registered'
  BY <1>2, StillRegistered DEF queueVars
<1> QED
  BY <1>1, <1>2, <1>3, AsideInv DEF SeamInv, TypeOK, Listening, queueVars, schedVars

\* A checkout takes free slots.
LEMMA ChecksOutInv ==
  ASSUME SeamInv, NEW r \in Requests, CheckoutText(r) \/ CheckoutImage(r),
         UNCHANGED <<queueVars, schedVars, work>>
  PROVE  SeamInv'
<1> USE DEF SeamInv, TypeOK
<1>1. PICK g \in GuardType({"seed", "held"}) :
        /\ req[r].pc = "checkout" /\ req' = [req EXCEPT ![r] = g]
        /\ slots' \in [Slots -> SlotType] /\ content' \in [Slots -> Contents] /\ UNCHANGED cold
  <2>1. CASE CheckoutText(r)
    <3>0. PICK t \in Free : \E src \in (Free \ {t}) \cup {None} :
            /\ slots' = [s \in Slots |-> IF s = t \/ s = src THEN Reserved(s) ELSE slots[s]]
            /\ content' = IF slots[t].key = NoKey THEN content
                          ELSE [content EXCEPT ![slots[t].kv] = "empty"]
            /\ req' = [req EXCEPT ![r] =
                         [pc    |-> IF HasCache \/ src # None THEN "seed" ELSE "held",
                          slot  |-> t, kv |-> slots[t].kv,
                          src   |-> src, srcKv |-> IF src = None THEN None ELSE slots[src].kv]]
            /\ UNCHANGED cold
      BY <2>1 DEF CheckoutText
    <3>1. PICK src \in (Free \ {t}) \cup {None} :
            /\ slots' = [s \in Slots |-> IF s = t \/ s = src THEN Reserved(s) ELSE slots[s]]
            /\ content' = IF slots[t].key = NoKey THEN content
                          ELSE [content EXCEPT ![slots[t].kv] = "empty"]
            /\ req' = [req EXCEPT ![r] =
                         [pc    |-> IF HasCache \/ src # None THEN "seed" ELSE "held",
                          slot  |-> t, kv |-> slots[t].kv,
                          src   |-> src, srcKv |-> IF src = None THEN None ELSE slots[src].kv]]
            /\ UNCHANGED cold
      BY <3>0
    <3>2. \A s \in Slots : slots[s].kv \in OptKv /\ Reserved(s) \in SlotType
      BY DEF SlotType, Reserved, OptKv
    <3>3. slots' \in [Slots -> SlotType] /\ content' \in [Slots -> Contents]
      BY <3>1, <3>2 DEF Contents
    <3>4. [pc    |-> IF HasCache \/ src # None THEN "seed" ELSE "held",
           slot  |-> t, kv |-> slots[t].kv,
           src   |-> src, srcKv |-> IF src = None THEN None ELSE slots[src].kv]
             \in GuardType({"seed", "held"})
      BY <3>1, <3>2 DEF GuardType, OptKv, Free
    <3> QED
      BY <2>1, <3>1, <3>3, <3>4 DEF CheckoutText
  <2>2. CASE CheckoutImage(r)
    <3>1. PICK t \in Free :
            /\ slots' = [slots EXCEPT ![t] = Reserved(t)]
            /\ content' \in {[content EXCEPT ![slots[t].kv] = "empty"]} \cup
                            (IF slots[t].key = KeyOf[r] THEN {content} ELSE {})
            /\ req' = [req EXCEPT ![r] =
                         [pc |-> "held", slot |-> t, kv |-> slots[t].kv, src |-> None, srcKv |-> None]]
            /\ UNCHANGED cold
      BY <2>2 DEF CheckoutImage
    <3>2. t \in Slots /\ slots[t].kv \in OptKv /\ Reserved(t) \in SlotType
      BY DEF SlotType, Reserved, OptKv, Free
    <3>3. slots' \in [Slots -> SlotType] /\ content' \in [Slots -> Contents]
      BY <3>1, <3>2 DEF Contents
    <3> QED
      BY <2>2, <3>1, <3>2, <3>3 DEF CheckoutImage, GuardType, OptKv
  <2> QED
    BY <2>1, <2>2
<1>2. req' \in [Requests -> GuardType(Pcs)]
  BY <1>1 DEF GuardType, Pcs, PoolPcs
<1>3. \A q \in Requests : req'[q].pc = IF q = r THEN g.pc ELSE req[q].pc
  BY <1>1
<1>4. Registered'
  BY <1>1, <1>3, StillRegistered DEF queueVars, GuardType
<1> HIDE DEF SeamInv
<1> QED
  BY <1>1, <1>2, <1>3, <1>4, AsideInv DEF Listening, queueVars, schedVars, SeamInv, GuardType

\* A KV that goes back to the pool wakes threads that sleep for it.
LEMMA WakesInv ==
  ASSUME SeamInv, NEW r \in Requests, NEW g \in GuardType({"held", "done"}),
         req[r].pc \in {"seed", "release"}, r \in reg => g.pc = "held",
         NotifyFreed([req EXCEPT ![r] = g]),
         slots' \in [Slots -> SlotType], content' \in [Slots -> Contents],
         UNCHANGED <<queueVars, schedVars, work>>
  PROVE  SeamInv'
<1> DEFINE rq == [req EXCEPT ![r] = g]
<1>1. /\ rq \in [Requests -> GuardType(Pcs)]
      /\ rq[r] = g /\ \A q \in Requests \ {r} : rq[q] = req[q]
  BY DEF SeamInv, TypeOK, GuardType, Pcs, PoolPcs
<1> HIDE DEF rq
<1>2. /\ req' \in [Requests -> GuardType(Pcs)] /\ cold' \in ColdType
      /\ \A q \in Requests : \/ req'[q].pc = rq[q].pc
                             \/ rq[q].pc = "asleep" /\ req'[q].pc = "checkout"
  <2>1. "checkout" \in Pcs /\ cold \in ColdType /\ NotifyFreed(rq)
    BY DEF Pcs, PoolPcs, SeamInv, TypeOK, rq
  <2> QED
    BY <1>1, <2>1, NotifyMovesNothing
<1>3. \A q \in Requests :
        \/ req'[q].pc = req[q].pc
        \/ q = r /\ req'[q].pc = g.pc
        \/ req[q].pc = "asleep" /\ req'[q].pc = "checkout"
  BY <1>1, <1>2 DEF GuardType
<1>4. Registered'
  BY <1>3, StillRegistered DEF queueVars, GuardType
<1> QED
  BY <1>2, <1>3, <1>4, AsideInv DEF SeamInv, TypeOK, Listening, queueVars, schedVars, GuardType

\* The calls in the pool, up to the hand-over and after it.
LEMMA LeaseInv ==
  ASSUME SeamInv, NEW r \in Requests, Lease(r)
  PROVE  SeamInv'
<1>1. UNCHANGED <<queueVars, schedVars, work>>
  BY DEF Lease
<1>2. CASE CheckoutSleep(r)
  BY <1>1, <1>2, StepsAsideInv DEF CheckoutSleep, SeamInv, TypeOK
<1>3. CASE CheckoutText(r) \/ CheckoutImage(r)
  BY <1>1, <1>3, ChecksOutInv
<1>4. CASE Seeded(r)
  <2> DEFINE g == [req[r] EXCEPT !.pc = "held", !.src = None, !.srcKv = None]
  <2>1. /\ req[r].pc = "seed" /\ content' \in [Slots -> Contents] /\ req[r] \in GuardType(Pcs)
        /\ g \in GuardType({"held", "done"}) /\ g.pc = "held"
    <3>1. req[r].pc = "seed" /\ req[r] \in GuardType(Pcs) /\ content \in [Slots -> Contents]
      BY <1>4 DEF Seeded, SeamInv, TypeOK
    <3>2. PICK c \in {"text", "empty"} : content' = [content EXCEPT ![req[r].kv] = c]
      BY <1>4 DEF Seeded
    <3>3. content' \in [Slots -> Contents]
      BY <3>1, <3>2 DEF Contents
    <3> QED
      BY <3>1, <3>3 DEF GuardType, OptKv
  <2>2. [req EXCEPT ![r].pc = "held", ![r].src = None, ![r].srcKv = None] = [req EXCEPT ![r] = g]
    BY DEF SeamInv, TypeOK, GuardType
  <2> HIDE DEF g
  <2>3. CASE req[r].src = None
    <3>1. req' = [req EXCEPT ![r] = g] /\ UNCHANGED <<slots, cold>>
      BY <1>4, <2>2, <2>3 DEF Seeded
    <3>2. req' \in [Requests -> GuardType(Pcs)]
      BY <2>1, <3>1 DEF SeamInv, TypeOK, GuardType, Pcs, PoolPcs
    <3>3. \A q \in Requests : req'[q].pc = IF q = r THEN "held" ELSE req[q].pc
      BY <2>1, <3>1 DEF SeamInv, TypeOK
    <3>4. Registered'
      BY <1>1, <3>3, StillRegistered DEF queueVars
    <3> QED
      BY <1>1, <2>1, <3>1, <3>2, <3>3, <3>4, AsideInv
         DEF SeamInv, TypeOK, Listening, queueVars, schedVars
  <2>4. CASE req[r].src # None
    <3>1. /\ slots' = [slots EXCEPT ![req[r].src] = Returned(req[r].srcKv, slots[req[r].src].key)]
          /\ NotifyFreed([req EXCEPT ![r] = g])
      BY <1>4, <2>2, <2>4 DEF Seeded
    <3>2. slots' \in [Slots -> SlotType]
      BY <2>1, <2>4, <3>1 DEF SeamInv, TypeOK, SlotType, Returned, HasCache, GuardType, OptKv
    <3> QED
      BY <1>1, <2>1, <3>1, <3>2, WakesInv
  <2> QED
    BY <2>3, <2>4
<1>5. CASE Release(r)
  <2> DEFINE g == [NoGuard EXCEPT !.pc = "done"]
  <2>1. g \in GuardType({"held", "done"})
    BY DEF GuardType, NoGuard, OptKv
  <2>2. /\ req[r].pc = "release" /\ r \notin reg
        /\ slots' = [slots EXCEPT ![req[r].slot] = Returned(req[r].kv, KeyOf[r])]
        /\ NotifyFreed([req EXCEPT ![r] = g]) /\ content' = content
    BY <1>5 DEF Release, SeamInv, Registered
  <2>3. slots' \in [Slots -> SlotType]
    BY <2>2, PoolAssumption DEF SeamInv, TypeOK, SlotType, Returned, HasCache, GuardType
  <2> HIDE DEF g
  <2> QED
    BY <1>1, <2>1, <2>2, <2>3, WakesInv DEF SeamInv, TypeOK
<1>6. ASSUME r \notin reg, RunLegacy(r, IF IsImage(r) THEN {"handoff", "release"} ELSE {"release"})
      PROVE  SeamInv'
  <2>1. PICK pc \in {"handoff", "release"} : req' = [req EXCEPT ![r].pc = pc]
    BY <1>6 DEF RunLegacy
  <2>2. content' \in [Slots -> Contents]
    BY <1>6, PoolAssumption DEF RunLegacy, SeamInv, TypeOK, ContentOf, Contents, IsImage
  <2> QED
    BY <1>1, <1>6, <2>1, <2>2, StepsAsideInv DEF RunLegacy
<1> QED
  BY <1>2, <1>3, <1>4, <1>5, <1>6 DEF Lease

\* The cold worker wakes whoever sleeps for a slot.
LEMMA ColdInv ==
  ASSUME SeamInv, Cold
  PROVE  SeamInv'
<1>1. UNCHANGED <<queueVars, schedVars, work>>
  BY DEF Cold
<1>2. CASE ColdReserve \/ ColdSleep
  <2>1. req' = req /\ content' = content /\ cold' \in ColdType /\ slots' \in [Slots -> SlotType]
    <3>1. CASE ColdReserve
      <4>1. PICK s \in Slots :
              /\ cold' = [pc |-> "spill", slot |-> s, kv |-> slots[s].kv]
              /\ slots' = [slots EXCEPT ![s].busy = TRUE, ![s].idle = FALSE, ![s].kv = None]
        BY <3>1 DEF ColdReserve
      <4>2. slots[s] \in SlotType /\ \A x \in Slots : slots[x] \in SlotType
        BY DEF SeamInv, TypeOK
      <4>3. cold' \in ColdType
        BY <4>1, <4>2 DEF ColdType, SlotType, OptKv
      <4>4. [slots[s] EXCEPT !.busy = TRUE, !.idle = FALSE, !.kv = None] \in SlotType
        BY <4>2 DEF SlotType, OptKv
      <4>5. slots' = [slots EXCEPT ![s] = [slots[s] EXCEPT !.busy = TRUE, !.idle = FALSE, !.kv = None]]
        BY <4>1, <4>2 DEF SeamInv, TypeOK
      <4> QED
        BY <3>1, <4>2, <4>3, <4>4, <4>5 DEF ColdReserve, SeamInv, TypeOK
    <3>2. CASE ColdSleep
      BY <3>2 DEF ColdSleep, SeamInv, TypeOK, ColdType
    <3> QED
      BY <1>2, <3>1, <3>2
  <2>2. Registered'
    BY <1>1, <2>1, StillRegistered DEF queueVars
  <2> QED
    BY <1>1, <2>1, <2>2, AsideInv DEF SeamInv, TypeOK, queueVars, schedVars
<1>3. CASE ColdReturn
  <2>1. content' \in [Slots -> Contents] /\ cold' \in ColdType /\ slots' \in [Slots -> SlotType]
    <3>1. content' \in [Slots -> Contents]
      BY <1>3 DEF ColdReturn, SeamInv, TypeOK, Contents
    <3>2. cold' \in ColdType
      BY <1>3 DEF ColdReturn, ColdType, OptKv
    <3>3. slots' = [x \in Slots |-> IF x = cold.slot
            THEN [slots[x] EXCEPT !.kv = cold.kv, !.busy = FALSE, !.idle = TRUE] ELSE slots[x]]
      <4>1. slots' = [slots EXCEPT ![cold.slot].kv = cold.kv, ![cold.slot].busy = FALSE,
                                   ![cold.slot].idle = TRUE]
        BY <1>3 DEF ColdReturn
      <4>2. slots = [x \in Slots |-> slots[x]]
        BY DEF SeamInv, TypeOK
      <4> QED
        BY <4>1, <4>2
    <3>4. slots' \in [Slots -> SlotType]
      <4>1. cold.kv \in OptKv /\ \A x \in Slots : slots[x] \in SlotType
        BY DEF SeamInv, TypeOK, ColdType
      <4> QED
        BY <3>3, <4>1 DEF SlotType
    <3> QED
      BY <3>1, <3>2, <3>4
  <2>2. req' = [q \in Requests |-> IF q \in Sleepers THEN [req[q] EXCEPT !.pc = "checkout"]
                                                     ELSE req[q]]
    BY <1>3 DEF ColdReturn
  <2>3. /\ req' \in [Requests -> GuardType(Pcs)]
        /\ \A q \in Requests : \/ req'[q].pc = req[q].pc
                               \/ req[q].pc = "asleep" /\ req'[q].pc = "checkout"
    BY <2>2 DEF SeamInv, TypeOK, GuardType, Pcs, PoolPcs, Sleepers
  <2>4. Registered'
    BY <1>1, <2>3, StillRegistered DEF queueVars
  <2> QED
    BY <1>1, <2>1, <2>3, <2>4, AsideInv DEF SeamInv, TypeOK, Listening, queueVars, schedVars
<1> QED
  BY <1>2, <1>3 DEF Cold, ColdNext

-----------------------------------------------------------------------------
(* The hand-over. *)

\* A work is queued by a thread that is not scheduled; from then on the thread listens.
LEMMA EnqueueInv ==
  ASSUME SeamInv, NEW r \in Requests, Enqueue(r)
  PROVE  SeamInv'
<1> USE DEF SeamInv
<1> DEFINE w == [NoWork EXCEPT !.kv = req[r].kv, !.slot = req[r].slot, !.prepared = IsImage(r)]
<1>1. /\ (req[r].pc = "held" /\ r \in reg) \/ req[r].pc = "handoff"
      /\ work' = [work EXCEPT ![r] = w]
      /\ req' = [req EXCEPT ![r].pc = "wait", ![r].kv = None]
      /\ waiting' = Append(waiting, r) /\ interrupt' = TRUE
      /\ reg' = reg \ {r} /\ arriving' = IF r \in reg THEN arriving - 1 ELSE arriving
      /\ WakeScheduler
      /\ UNCHANGED <<slots, content, cold, active>>
  BY DEF Enqueue
<1>2. w \in WorkType /\ w.gen = 0
  <2>1. req[r].kv \in OptKv /\ req[r].slot \in OptKv /\ IsImage(r) \in BOOLEAN
    BY DEF TypeOK, GuardType, IsImage
  <2>2. 0 \in 0..PromptRows /\ 0 \in 0..MaxNew
    BY SeamAssumption
  <2>3. NoWork \in WorkType /\ NoWork.gen = 0
    BY <2>2 DEF NoWork, WorkType, OptKv
  <2> QED
    BY <2>1, <2>3 DEF WorkType
<1> HIDE DEF w
<1>3. /\ sched' \in [pc : SchedPcs, coalesced : BOOLEAN, group : GroupType]
      /\ sched'.group = sched.group
      /\ sched'.pc = sched.pc \/ (sched.pc = "asleep" /\ sched'.pc = "idle")
  BY <1>1, Woken
<1>4. r \notin Scheduled /\ r \notin Queued /\ r \notin active
  BY <1>1 DEF Listeners, Alive, Listening, Scheduled
<1>5. /\ waiting' \in Seq(Requests) /\ Queued' = Queued \cup {r}
      /\ \A i, j \in 1..Len(waiting') : waiting'[i] = waiting'[j] => i = j
  <2>1. waiting \in Seq(Requests) /\ \A i, j \in 1..Len(waiting) : waiting[i] = waiting[j] => i = j
    BY DEF TypeOK, QueueShape
  <2> QED
    BY <1>1, <1>4, <2>1, Appended
<1>6. IsFiniteSet(reg') /\ arriving' = Cardinality(reg') /\ arriving' \in Nat /\ reg' \in SUBSET Requests
  <2>1. CASE r \in reg
    <3>1. IsFiniteSet(reg \ {r}) /\ Cardinality(reg \ {r}) = Cardinality(reg) - 1
      BY <2>1, FS_RemoveElement DEF Registered
    <3>2. Cardinality(reg \ {r}) \in Nat
      BY <3>1, FS_CardinalityType
    <3> QED
      BY <1>1, <2>1, <3>1, <3>2 DEF Registered, TypeOK
  <2>2. CASE r \notin reg
    <3>1. reg' = reg /\ arriving' = arriving
      BY <1>1, <2>2
    <3> QED
      BY <3>1 DEF Registered, TypeOK
  <2> QED
    BY <2>1, <2>2
<1>7. /\ req' \in [Requests -> GuardType(Pcs)] /\ req'[r].pc = "wait"
      /\ \A q \in Requests \ {r} : req'[q] = req[q]
  <2> DEFINE g == [req[r] EXCEPT !.pc = "wait", !.kv = None]
  <2>1. g \in GuardType(Pcs) /\ g.pc = "wait"
    BY DEF TypeOK, GuardType, Pcs, Listening, OptKv
  <2>2. req' = [req EXCEPT ![r] = g]
    BY <1>1 DEF TypeOK, GuardType
  <2> HIDE DEF g
  <2> QED
    BY <2>1, <2>2 DEF TypeOK
<1>8. work' \in [Requests -> WorkType] /\ work'[r].gen = 0 /\ \A q \in Requests \ {r} : work'[q] = work[q]
  BY <1>1, <1>2 DEF TypeOK
<1>9. TypeOK'
  BY <1>1, <1>3, <1>5, <1>6, <1>7, <1>8 DEF TypeOK
<1>10. Registered'
  BY <1>1, <1>6, <1>7 DEF Registered, TypeOK
<1>11. active' \subseteq Requests /\ Scheduled' = Scheduled \cup {r}
  BY <1>1, <1>5 DEF TypeOK, Scheduled
<1>12. QueueShape' /\ GroupShape' /\ CohortBounded'
  BY <1>1, <1>3, <1>4, <1>5 DEF QueueShape, GroupShape, CohortBounded
<1>13. Listeners' /\ WorkShape'
  BY <1>5, <1>7, <1>8, <1>11, ScheduledCalls DEF Listeners, WorkShape, Alive, Listening, Scheduled
<1>14. Budget' /\ NoLong'
  <2>1. active' = active /\ \A q \in active : work'[q] = work[q]
    BY <1>1, <1>4, <1>8, <1>11
  <2> QED
    BY <1>3, <2>1 DEF Budget, NoLong, Decode, Long
<1>15. AckExpected' /\ NoStrandedWork'
  BY <1>1, <1>3, <1>7 DEF AckExpected, At, NoStrandedWork
<1> QED
  BY <1>9, <1>10, <1>12, <1>13, <1>14, <1>15

\* A thread that listens moves between its token and its answer, or unwinds.
LEMMA StreamedInv ==
  ASSUME SeamInv, NEW r \in Requests, Streamed(r)
  PROVE  SeamInv'
<1> USE DEF SeamInv
<1>1. PICK pc \in {"keep", "stop", "done"} :
        /\ req[r].pc = "token"
        /\ req' = [req EXCEPT ![r] = IF pc = "done" THEN [NoGuard EXCEPT !.pc = "done"]
                                                    ELSE [req[r] EXCEPT !.pc = pc]]
        /\ UNCHANGED <<slots, content, cold, queueVars, schedVars, work>>
  BY DEF Streamed
<1>2. /\ req' \in [Requests -> GuardType(Pcs)] /\ req'[r].pc = pc
      /\ \A q \in Requests \ {r} : req'[q] = req[q]
  BY <1>1 DEF TypeOK, GuardType, NoGuard, Pcs, PoolPcs, Listening, OptKv
<1>3. TypeOK'
  BY <1>1, <1>2 DEF TypeOK, queueVars, schedVars
<1>4. Registered'
  BY <1>1, <1>2 DEF Registered, TypeOK, queueVars
<1>5. Scheduled' = Scheduled /\ Queued' = Queued
  BY <1>1 DEF Scheduled, Queued, queueVars, schedVars
<1>6. QueueShape' /\ GroupShape' /\ CohortBounded' /\ NoStrandedWork'
  BY <1>1, <1>5 DEF QueueShape, GroupShape, CohortBounded, NoStrandedWork, queueVars, schedVars
<1>7. Listeners'
  BY <1>1, <1>2, <1>5, ScheduledCalls DEF Listeners, Alive, Listening
<1>8. WorkShape' /\ Budget' /\ NoLong'
  BY <1>1, <1>5 DEF WorkShape, Budget, NoLong, Decode, Long, schedVars
<1>9. AckExpected'
  BY <1>1, <1>2 DEF AckExpected, At, schedVars
<1> QED
  BY <1>3, <1>4, <1>6, <1>7, <1>8, <1>9


-----------------------------------------------------------------------------
(* The scheduler. *)

\* Steps that move no call between the queue, the cohort and its thread.
LEMMA ComputesInv ==
  ASSUME SeamInv, UNCHANGED <<slots, req, cold, reg, arriving, waiting, active>>,
         content' \in [Slots -> Contents], interrupt' \in BOOLEAN,
         work' \in [Requests -> WorkType],
         sched' \in [pc : SchedPcs, coalesced : BOOLEAN, group : GroupType],
         \A r \in Requests : r \notin active => work'[r].gen = work[r].gen,
         \A r \in Requests : r \notin Scheduled => work'[r] = work[r],
         sched'.pc \in {"idle", "asleep", "gather", "refill"} => active = {},
         sched.pc = "closed" => active = {},
         \A r \in Requests : req[r].pc \notin {"token", "keep", "stop"},
         GroupShape', Budget', NoLong', NoStrandedWork'
  PROVE  SeamInv'
<1> USE DEF SeamInv
<1>1. TypeOK'
  BY DEF TypeOK
<1>2. Registered'
  BY DEF Registered
<1>3. Queued' = Queued /\ Scheduled' = Scheduled /\ Queued \subseteq Requests
  BY ScheduledCalls DEF Queued, Scheduled
<1>4. QueueShape' /\ Listeners'
  BY <1>3 DEF QueueShape, Listeners, Alive
<1>5. WorkShape'
  BY <1>3 DEF WorkShape, QueueShape, Scheduled
<1>6. CohortBounded'
  <2>1. active = {} => Cardinality(active) = 0
    BY FS_EmptySet
  <2> QED
    BY <2>1, SeamAssumption DEF CohortBounded
<1>7. AckExpected'
  BY DEF AckExpected
<1> QED
  BY <1>1, <1>2, <1>4, <1>5, <1>6, <1>7

\* No callback is at work while no token is out.
LEMMA NoTokenOut ==
  ASSUME SeamInv, sched.pc # "deliver" \/ sched.group.pend = {}
  PROVE  \A r \in Requests : req[r].pc \notin {"token", "keep", "stop"}
BY DEF SeamInv, AckExpected, At

\* Steps that only move the scheduler.
LEMMA MovesInv ==
  ASSUME SeamInv, UNCHANGED <<poolVars, reg, arriving, waiting, active, work>>,
         interrupt' \in BOOLEAN,
         NEW pc \in SchedPcs, NEW coalesced \in BOOLEAN,
         NEW group, group = IF pc \in {"step", "account"} THEN sched.group ELSE NoGroup,
         sched' = [pc |-> pc, coalesced |-> coalesced, group |-> group],
         pc \in {"idle", "asleep", "gather", "refill", "step", "account", "admit", "drain",
                 "prepare", "fail"},
         pc \in {"idle", "asleep", "gather", "refill"} => active = {},
         sched.pc = "closed" => active = {},
         sched.group.todo = {} /\ sched.group.pend = {},
         pc = "step" => sched.pc = "deliver",
         pc # "fail" => \A r \in active : work[r].gen >= MaxNew =>
                                            pc = "account" /\ r \in sched.group.lanes,
         waiting # <<>> => interrupt' \/ pc \in {"idle", "gather", "drain", "refill", "fail"}
  PROVE  SeamInv'
<1>1. \A r \in Requests : req[r].pc \notin {"token", "keep", "stop"}
  BY NoTokenOut
<1>2. NoGroup \in GroupType /\ sched.group \in GroupType
  BY DEF SeamInv, TypeOK, GroupType, NoGroup
<1>3. sched' \in [pc : SchedPcs, coalesced : BOOLEAN, group : GroupType]
  BY <1>2
<1>4. GroupShape'
  BY DEF SeamInv, GroupShape, NoGroup
<1>5. Budget' /\ NoLong' /\ NoStrandedWork'
  <2>1. Budget'
    BY DEF Budget
  <2>2. NoLong'
    BY DEF SeamInv, NoLong, Long
  <2>3. NoStrandedWork'
    BY DEF NoStrandedWork
  <2> QED
    BY <2>1, <2>2, <2>3
<1> QED
  BY <1>1, <1>3, <1>4, <1>5, ComputesInv DEF SeamInv, TypeOK, poolVars

\* The waits, the poll of the flag, the yield, the end of a quantum and the error path.
LEMMA SchedMovesInv ==
  ASSUME SeamInv,
         SchedWait \/ SchedPoll \/ SchedYield \/ SchedDelivered \/ Retired \/ Closed
  PROVE  SeamInv'
<1> DEFINE Moved(pc, coalesced) ==
      sched' = [pc |-> pc, coalesced |-> coalesced,
                group |-> IF pc \in {"step", "account"} THEN sched.group ELSE NoGroup]
<1>1. /\ sched \in [pc : SchedPcs, coalesced : BOOLEAN, group : GroupType]
      /\ interrupt \in BOOLEAN
      /\ sched.pc \notin {"step", "deliver", "account"} => sched.group = NoGroup
      /\ sched.pc # "deliver" => sched.group.todo = {} /\ sched.group.pend = {}
  BY DEF SeamInv, TypeOK, GroupShape
<1>2. ASSUME NEW pc, Goto(pc), sched.group = NoGroup \/ pc \in {"step", "account"}
      PROVE  Moved(pc, sched.coalesced)
  BY <1>1, <1>2 DEF Goto
<1>3. \A r \in active : work[r].gen >= MaxNew =>
        \/ sched.pc \in {"fail", "closed"}
        \/ sched.pc = "deliver" /\ r \in sched.group.lanes /\ Decode(r)
        \/ sched.pc = "account" /\ r \in sched.group.lanes
        \/ sched.pc = "retire" /\ work[r].finished
  BY DEF SeamInv, Budget
<1>4. NoStrandedWork
  BY DEF SeamInv
<1>5. CASE SchedWait
  <2>1. PICK pc \in {"asleep", "gather"} : Goto(pc) /\ (pc = "asleep" => waiting = <<>>)
    BY <1>5 DEF SchedWait
  <2>2. /\ At("idle") /\ UNCHANGED <<poolVars, queueVars, active, work>> /\ active = {}
        /\ pc \in SchedPcs
    BY <1>5 DEF SchedWait, SeamInv, QueueShape, At, SchedPcs
  <2>3. Moved(pc, sched.coalesced)
    BY <1>1, <1>2, <2>1, <2>2 DEF At
  <2> QED
    BY <1>1, <2>1, <2>2, <2>3, MovesInv DEF At, queueVars
<1>6. CASE SchedPoll
  <2>1. PICK pc \in {"refill", "prepare", "drain"} :
          /\ Goto(pc) /\ (pc = "refill" => active = {}) /\ interrupt' \in BOOLEAN
          /\ pc = "prepare" => UNCHANGED interrupt
    BY <1>1, <1>6 DEF SchedPoll
  <2>2. /\ At("admit") /\ UNCHANGED <<poolVars, reg, arriving, waiting, active, work>>
        /\ pc \in SchedPcs
    BY <1>6 DEF SchedPoll, SchedPcs
  <2>3. Moved(pc, sched.coalesced)
    BY <1>1, <1>2, <2>1, <2>2 DEF At
  <2>4. waiting # <<>> => interrupt
    BY <1>4, <2>2 DEF NoStrandedWork, At
  <2> QED
    BY <1>1, <1>3, <2>1, <2>2, <2>3, <2>4, MovesInv DEF At
<1>7. CASE SchedYield
  <2>1. /\ At("step") /\ interrupt /\ Goto("account")
        /\ UNCHANGED <<poolVars, queueVars, active, work>>
    BY <1>7 DEF SchedYield
  <2>2. Moved("account", sched.coalesced) /\ "account" \in SchedPcs
    BY <1>2, <2>1 DEF SchedPcs
  <2> QED
    BY <1>1, <1>3, <2>1, <2>2, MovesInv DEF At, queueVars
<1>8. CASE SchedDelivered
  <2> DEFINE lanes == sched.group.lanes
  <2>1. PICK pc \in {"account", "step"} :
          /\ Goto(pc)
          /\ pc = "step" => \A r \in lanes : ~(work[r].rest = 0 /\ work[r].gen >= MaxNew)
    BY <1>8 DEF SchedDelivered
  <2>2. /\ At("deliver") /\ UNCHANGED <<poolVars, queueVars, active, work>>
        /\ sched.group.todo = {} /\ sched.group.pend = {} /\ pc \in SchedPcs
    BY <1>8 DEF SchedDelivered, SchedPcs
  <2>3. Moved(pc, sched.coalesced)
    BY <1>2, <2>1
  <2>4. waiting # <<>> => interrupt
    BY <1>4, <2>2 DEF NoStrandedWork, At
  <2>5. \A r \in active : work[r].gen >= MaxNew => pc = "account" /\ r \in lanes
    BY <1>3, <2>1, <2>2 DEF At, Decode
  <2> QED
    BY <1>1, <2>1, <2>2, <2>3, <2>4, <2>5, MovesInv DEF At, queueVars
<1>9. CASE Retired
  <2>1. /\ At("retire") /\ UNCHANGED <<poolVars, queueVars, active, work>>
        /\ sched' = [sched EXCEPT !.pc = "admit", !.coalesced = FALSE]
        /\ \A r \in active : ~work[r].finished
    BY <1>9 DEF Retired
  <2>2. Moved("admit", FALSE) /\ "admit" \in SchedPcs
    BY <1>1, <2>1 DEF At, SchedPcs
  <2>3. waiting # <<>> => interrupt
    BY <1>4, <2>1 DEF NoStrandedWork, At
  <2> QED
    BY <1>1, <1>3, <2>1, <2>2, <2>3, MovesInv DEF At, queueVars
<1>10. CASE Closed
  <2>1. /\ At("closed") /\ active = {} /\ Goto("idle")
        /\ UNCHANGED <<poolVars, queueVars, active, work>>
    BY <1>10 DEF Closed
  <2>2. Moved("idle", sched.coalesced) /\ "idle" \in SchedPcs
    BY <1>1, <1>2, <2>1 DEF At, SchedPcs
  <2> QED
    BY <1>1, <2>1, <2>2, MovesInv DEF At, queueVars
<1> QED
  BY <1>5, <1>6, <1>7, <1>8, <1>9, <1>10

\* Admission: calls move from the queue to the cohort.
LEMMA AdmitsInv ==
  ASSUME SeamInv, NEW n \in Nat, Admit(n), UNCHANGED <<poolVars, reg, arriving, work>>,
         sched.pc \in {"gather", "drain", "refill", "coalesce", "fail"},
         NEW pc \in {"admit", "prepare", "refill", "idle", "long", "closed"},
         NEW coalesced \in BOOLEAN,
         sched' = [pc |-> pc, coalesced |-> coalesced, group |-> NoGroup],
         sched.pc = "fail" => pc = "closed",
         pc = "closed" \/ Cardinality(active) + n <= MaxBatch,
         pc \in {"refill", "idle"} => active' = {},
         interrupt' \in BOOLEAN, waiting' # <<>> => interrupt' \/ pc = "refill"
  PROVE  SeamInv'
<1> USE DEF SeamInv
<1>1. /\ waiting' \in Seq(Requests) /\ active' \in SUBSET Requests
      /\ active \subseteq active' /\ IsFiniteSet(active')
      /\ Scheduled' = Scheduled /\ Queued' \subseteq Queued
      /\ Cardinality(active') <= Cardinality(active) + n
      /\ \A i, j \in 1..Len(waiting') : waiting'[i] = waiting'[j] => i = j
      /\ Queued' \cap active' = {}
  <2>1. /\ waiting \in Seq(Requests) /\ active \in SUBSET Requests /\ IsFiniteSet(active)
        /\ \A i, j \in 1..Len(waiting) : waiting[i] = waiting[j] => i = j
        /\ Queued \cap active = {}
    BY DEF TypeOK, QueueShape
  <2> QED
    BY <2>1, Admitted DEF Scheduled
<1>2. NoGroup \in GroupType /\ pc \in SchedPcs
  BY DEF GroupType, NoGroup, SchedPcs
<1>3. TypeOK'
  BY <1>1, <1>2 DEF TypeOK, poolVars
<1>4. Registered'
  BY DEF Registered, poolVars
<1>5. QueueShape' /\ GroupShape'
  BY <1>1 DEF QueueShape, GroupShape, NoGroup
<1>6. Listeners' /\ WorkShape'
  BY <1>1 DEF Listeners, WorkShape, Alive, poolVars
<1>7. ASSUME pc # "closed", NEW r \in active' PROVE ~(work[r].gen >= MaxNew)
  <2>1. CASE r \in active
    BY <1>7, <2>1 DEF Budget
  <2>2. CASE r \in Queued
    BY <2>2, SeamAssumption DEF WorkShape
  <2> QED
    BY <1>1, <2>1, <2>2 DEF Scheduled
<1>8. Budget' /\ NoLong'
  BY <1>7 DEF Budget, NoLong
<1>9. CohortBounded'
  <2>1. Cardinality(active) \in Nat /\ Cardinality(active') \in Nat
    BY <1>1, FS_CardinalityType DEF QueueShape
  <2> QED
    BY <1>1, <2>1, SeamAssumption DEF CohortBounded
<1>10. AckExpected' /\ NoStrandedWork'
  BY DEF AckExpected, NoStrandedWork, At, poolVars
<1> QED
  BY <1>3, <1>4, <1>5, <1>6, <1>8, <1>9, <1>10

\* Gathering, draining, refilling, coalescing and closing the queue.
LEMMA SchedAdmitsInv ==
  ASSUME SeamInv, SchedGathered \/ SchedDrain \/ SchedRefill \/ SchedCoalesce \/ CloseQueue
  PROVE  SeamInv'
<1>1. /\ sched \in [pc : SchedPcs, coalesced : BOOLEAN, group : GroupType]
      /\ interrupt \in BOOLEAN /\ MaxBatch \in Nat
      /\ sched.pc \notin {"step", "deliver", "account"} => sched.group = NoGroup
      /\ sched.pc \in {"gather", "refill"} => active = {}
  BY SeamAssumption DEF SeamInv, TypeOK, GroupShape, QueueShape
<1>2. ASSUME NEW pc, Goto(pc), sched.group = NoGroup
      PROVE  sched' = [pc |-> pc, coalesced |-> sched.coalesced, group |-> NoGroup]
  BY <1>1, <1>2 DEF Goto
<1>3. /\ active = {} => Cardinality(active) = 0
      /\ Cardinality(active) \in Nat
      /\ sched.pc # "closed" => Capacity \in Nat /\ Cardinality(active) + Capacity <= MaxBatch
  <2>1. Cardinality(active) \in Nat
    BY FS_CardinalityType DEF SeamInv, QueueShape
  <2>2. active = {} => Cardinality(active) = 0
    BY FS_EmptySet
  <2>3. sched.pc # "closed" => Cardinality(active) <= MaxBatch
    BY DEF SeamInv, CohortBounded
  <2> QED
    BY <1>1, <2>1, <2>2, <2>3 DEF Capacity
<1>4. CASE SchedGathered
  <2>1. /\ At("gather") /\ Admit(MaxBatch) /\ interrupt' = (waiting' # <<>>) /\ Goto("admit")
        /\ UNCHANGED <<poolVars, reg, arriving, work>>
    BY <1>4 DEF SchedGathered
  <2>2. sched' = [pc |-> "admit", coalesced |-> sched.coalesced, group |-> NoGroup]
    BY <1>1, <1>2, <2>1 DEF At
  <2>3. Cardinality(active) + MaxBatch <= MaxBatch
    BY <1>1, <1>3, <2>1 DEF At
  <2> QED
    BY <1>1, <2>1, <2>2, <2>3, AdmitsInv DEF At
<1>5. CASE SchedDrain
  <2>1. PICK pc \in {"refill", "prepare"} : Goto(pc) /\ (pc = "refill" => active' = {})
    BY <1>5 DEF SchedDrain
  <2>2. /\ At("drain") /\ Admit(Capacity) /\ interrupt' = (interrupt \/ waiting' # <<>>)
        /\ UNCHANGED <<poolVars, reg, arriving, work>>
    BY <1>5 DEF SchedDrain
  <2>3. sched' = [pc |-> pc, coalesced |-> sched.coalesced, group |-> NoGroup]
    BY <1>1, <1>2, <2>1, <2>2 DEF At
  <2> QED
    BY <1>1, <1>3, <2>1, <2>2, <2>3, AdmitsInv DEF At
<1>6. CASE SchedRefill
  <2>1. /\ At("refill") /\ Admit(MaxBatch) /\ interrupt' = (waiting' # <<>>)
        /\ sched' = [sched EXCEPT !.pc = IF waiting = <<>> THEN "idle" ELSE "prepare",
                                  !.coalesced = sched.coalesced /\ waiting # <<>>]
        /\ UNCHANGED <<poolVars, reg, arriving, work>> /\ active = {}
    BY <1>1, <1>6 DEF SchedRefill, At
  <2> DEFINE pc == IF waiting = <<>> THEN "idle" ELSE "prepare"
             co == sched.coalesced /\ waiting # <<>>
  <2>2. /\ pc \in {"idle", "prepare"} /\ co \in BOOLEAN
        /\ sched' = [pc |-> pc, coalesced |-> co, group |-> NoGroup]
    BY <1>1, <2>1 DEF At
  <2>3. waiting = <<>> => active' = {}
    BY <1>1, <2>1, Admitted DEF SeamInv, TypeOK, QueueShape
  <2>4. pc = "idle" => active' = {}
    BY <2>3
  <2>5. Cardinality(active) + MaxBatch <= MaxBatch
    BY <1>1, <1>3, <2>1
  <2> HIDE DEF pc, co
  <2> QED
    BY <1>1, <2>1, <2>2, <2>4, <2>5, AdmitsInv DEF At
<1>7. CASE SchedCoalesce
  <2>1. PICK pc \in {"long", "admit"} : sched' = [sched EXCEPT !.pc = pc, !.coalesced = TRUE]
    BY <1>7 DEF SchedCoalesce
  <2>2. At("coalesce") /\ UNCHANGED <<poolVars, reg, arriving, work>>
    BY <1>7 DEF SchedCoalesce
  <2>3. sched' = [pc |-> pc, coalesced |-> TRUE, group |-> NoGroup]
    BY <1>1, <2>1, <2>2 DEF At
  <2>4. CASE Capacity # 0
    <3>1. Admit(Capacity) /\ interrupt' = (waiting' # <<>>)
      BY <1>7, <2>4 DEF SchedCoalesce
    <3> QED
      BY <1>1, <1>3, <2>2, <2>3, <3>1, AdmitsInv DEF At
  <2>5. CASE Capacity = 0
    <3>1. UNCHANGED <<active, waiting, interrupt>>
      BY <1>7, <2>5 DEF SchedCoalesce
    <3>2. pc = "long"
      BY <1>7, <2>1, <3>1, <1>1 DEF SchedCoalesce
    <3>3. NoGroup \in GroupType /\ "long" \in SchedPcs
      BY DEF GroupType, NoGroup, SchedPcs
    <3>4. GroupShape' /\ Budget' /\ NoLong' /\ NoStrandedWork'
      BY <2>2, <2>3, <3>1, <3>2
         DEF SeamInv, GroupShape, Budget, NoLong, NoStrandedWork, NoGroup, At
    <3>5. \A r \in Requests : req[r].pc \notin {"token", "keep", "stop"}
      BY <2>2, NoTokenOut DEF At
    <3> QED
      BY <1>1, <2>2, <2>3, <3>1, <3>2, <3>3, <3>4, <3>5, ComputesInv DEF SeamInv, TypeOK, poolVars, At
  <2> QED
    BY <2>4, <2>5
<1>8. CASE CloseQueue
  <2>1. /\ At("fail") /\ active = {} /\ Admit(Len(waiting)) /\ interrupt' = FALSE /\ Goto("closed")
        /\ UNCHANGED <<poolVars, reg, arriving, work>>
    BY <1>8 DEF CloseQueue
  <2>2. sched' = [pc |-> "closed", coalesced |-> sched.coalesced, group |-> NoGroup]
    BY <1>1, <1>2, <2>1 DEF At
  <2>3. Len(waiting) \in Nat /\ waiting' = <<>>
    <3>1. Len(waiting) \in Nat /\ Len(waiting) <= Len(waiting)
      BY LenProperties DEF SeamInv, TypeOK
    <3> QED
      BY <2>1, <3>1, Admitted DEF SeamInv, TypeOK, QueueShape
  <2> QED
    BY <1>1, <2>1, <2>2, <2>3, AdmitsInv DEF At
<1> QED
  BY <1>4, <1>5, <1>6, <1>7, <1>8

\* Preparing prompts decides the mode: no token group starts next to a long prompt.
LEMMA SchedPrepareInv ==
  ASSUME SeamInv, SchedPrepare
  PROVE  SeamInv'
<1> DEFINE fresh == {r \in active : ~work[r].prepared}
<1>1. PICK rows \in [fresh -> 0..PromptRows] :
        /\ work' = [r \in Requests |-> IF r \in fresh
                      THEN [work[r] EXCEPT !.prepared = TRUE, !.rest = rows[r]] ELSE work[r]]
        /\ content' = [s \in Slots |->
               IF \E r \in fresh : work[r].kv = s
               THEN IF \E r \in fresh : work[r].kv = s /\ rows[r] = PromptRows
                    THEN "empty" ELSE "text"
               ELSE content[s]]
  BY DEF SchedPrepare
<1>2. PICK pc \in {"group", "long", "coalesce"}, coalesced \in BOOLEAN :
        /\ sched' = [sched EXCEPT !.pc = pc, !.coalesced = coalesced]
        /\ pc = "group" => ~LongMode(work')
  BY DEF SchedPrepare, SeamInv, TypeOK
<1>3. At("prepare") /\ UNCHANGED <<slots, req, cold, queueVars, active>>
  BY DEF SchedPrepare
<1>4. /\ work \in [Requests -> WorkType] /\ content \in [Slots -> Contents]
      /\ sched \in [pc : SchedPcs, coalesced : BOOLEAN, group : GroupType]
      /\ interrupt \in BOOLEAN /\ active \subseteq Requests
      /\ sched.group = NoGroup
      /\ \A r \in active : ~(work[r].gen >= MaxNew)
  BY <1>3 DEF SeamInv, TypeOK, At, GroupShape, Budget
<1>5. /\ work' \in [Requests -> WorkType]
      /\ \A r \in Requests : work'[r].gen = work[r].gen
      /\ \A r \in Requests : r \notin Scheduled => work'[r] = work[r]
  <2> HIDE DEF fresh
  <2>1. ASSUME NEW r \in fresh
        PROVE  /\ [work[r] EXCEPT !.prepared = TRUE, !.rest = rows[r]] \in WorkType
               /\ [work[r] EXCEPT !.prepared = TRUE, !.rest = rows[r]].gen = work[r].gen
    BY <1>4 DEF WorkType, fresh
  <2> QED
    BY <1>1, <1>4, <2>1 DEF fresh, Scheduled
<1>6. content' \in [Slots -> Contents]
  BY <1>1, <1>4 DEF Contents
<1>7. /\ sched' \in [pc : SchedPcs, coalesced : BOOLEAN, group : GroupType]
      /\ sched'.pc = pc /\ sched'.group = NoGroup
  BY <1>2, <1>4 DEF SchedPcs
<1>8. GroupShape' /\ NoStrandedWork'
  BY <1>3, <1>7 DEF SeamInv, GroupShape, NoGroup, NoStrandedWork, At, queueVars
<1>9. Budget'
  BY <1>3, <1>4, <1>5 DEF Budget
<1>10. NoLong'
  BY <1>2, <1>3, <1>7 DEF NoLong, LongMode, Long
<1>11. \A r \in Requests : req[r].pc \notin {"token", "keep", "stop"}
  BY <1>3, NoTokenOut DEF At
<1> QED
  BY <1>3, <1>4, <1>5, <1>6, <1>7, <1>8, <1>9, <1>10, <1>11, ComputesInv DEF At, queueVars

\* A long-prefill phase.
LEMMA SchedLongInv ==
  ASSUME SeamInv, SchedLong
  PROVE  SeamInv'
<1>1. PICK lanes \in SUBSET {r \in active : Long(r)} :
       /\ \E rows \in [lanes -> 0..ShortRows] :
            work' = [r \in Requests |-> IF r \in lanes
                       THEN [work[r] EXCEPT !.rest = rows[r],
                                            !.finished = work[r].finished \/ ~Alive(r)]
                       ELSE work[r]]
       /\ content' = [s \in Slots |-> IF \E r \in lanes : work[r].kv = s
                        THEN ContentOf(CHOOSE r \in lanes : work[r].kv = s) ELSE content[s]]
  BY DEF SchedLong
<1>2. PICK rows \in [lanes -> 0..ShortRows] :
        work' = [r \in Requests |-> IF r \in lanes
                   THEN [work[r] EXCEPT !.rest = rows[r],
                                        !.finished = work[r].finished \/ ~Alive(r)]
                   ELSE work[r]]
  BY <1>1
<1>3. At("long") /\ Goto("retire") /\ UNCHANGED <<slots, req, cold, queueVars, active>>
  BY DEF SchedLong
<1>4. /\ work \in [Requests -> WorkType] /\ content \in [Slots -> Contents]
      /\ sched \in [pc : SchedPcs, coalesced : BOOLEAN, group : GroupType]
      /\ interrupt \in BOOLEAN /\ active \subseteq Requests /\ lanes \subseteq active
      /\ sched.group = NoGroup
      /\ \A r \in active : ~(work[r].gen >= MaxNew)
  BY <1>3 DEF SeamInv, TypeOK, At, GroupShape, Budget
<1>5. /\ work' \in [Requests -> WorkType]
      /\ \A r \in Requests : work'[r].gen = work[r].gen
      /\ \A r \in Requests : r \notin Scheduled => work'[r] = work[r]
  <2>1. ASSUME NEW r \in lanes
        PROVE  /\ [work[r] EXCEPT !.rest = rows[r],
                     !.finished = work[r].finished \/ ~Alive(r)] \in WorkType
               /\ [work[r] EXCEPT !.rest = rows[r],
                     !.finished = work[r].finished \/ ~Alive(r)].gen = work[r].gen
    <3>1. rows[r] \in 0..PromptRows
      <4>1. rows[r] \in 0..ShortRows
        BY <1>2
      <4> QED
        BY <4>1, SeamAssumption
    <3>2. work[r] \in WorkType /\ Alive(r) \in BOOLEAN
      BY <1>4 DEF Alive
    <3> HIDE DEF Alive
    <3> QED
      BY <3>1, <3>2 DEF WorkType
  <2> QED
    BY <1>2, <1>4, <2>1 DEF Scheduled
<1>6. content' \in [Slots -> Contents]
  <2>1. ASSUME NEW s \in Slots, \E r \in lanes : work[r].kv = s
        PROVE  ContentOf(CHOOSE r \in lanes : work[r].kv = s) \in Contents
    <3>1. (CHOOSE r \in lanes : work[r].kv = s) \in Requests
      BY <1>4, <2>1
    <3> QED
      BY <3>1, PoolAssumption DEF ContentOf, Contents, IsImage
  <2> QED
    BY <1>1, <1>4, <2>1
<1>7. /\ sched' \in [pc : SchedPcs, coalesced : BOOLEAN, group : GroupType]
      /\ sched'.pc = "retire" /\ sched'.group = NoGroup
  BY <1>3, <1>4 DEF Goto, SchedPcs
<1>8. GroupShape' /\ NoStrandedWork' /\ NoLong'
  BY <1>3, <1>7 DEF SeamInv, GroupShape, NoGroup, NoStrandedWork, NoLong, At, queueVars
<1>9. Budget'
  BY <1>3, <1>4, <1>5 DEF Budget
<1>10. \A r \in Requests : req[r].pc \notin {"token", "keep", "stop"}
  BY <1>3, NoTokenOut DEF At
<1> QED
  BY <1>3, <1>4, <1>5, <1>6, <1>7, <1>8, <1>9, <1>10, ComputesInv DEF At, queueVars

\* A token group starts with lanes of the cohort and a clean frontier.
LEMMA SchedGroupInv ==
  ASSUME SeamInv, SchedGroup
  PROVE  SeamInv'
<1>1. PICK lanes \in SUBSET active :
        /\ sched' = [sched EXCEPT !.pc = "step",
                       !.group = [NoGroup EXCEPT !.lanes = lanes,
                                                 !.batch = \A r \in lanes : Decode(r)]]
        /\ work' = [r \in Requests |-> [work[r] EXCEPT !.accepted = TRUE, !.eos = FALSE]]
  <2>1. CASE Longest = {}
    BY <2>1 DEF SchedGroup
  <2>2. CASE Longest # {}
    <3>1. \A lanes \in {{r} : r \in Longest} : lanes \in SUBSET active
      BY DEF Longest
    <3> HIDE DEF Longest
    <3>2. \E lanes \in {{r} : r \in Longest} :
            /\ sched' = [sched EXCEPT !.pc = "step",
                           !.group = [NoGroup EXCEPT !.lanes = lanes,
                                                     !.batch = \A r \in lanes : Decode(r)]]
            /\ work' = [r \in Requests |-> [work[r] EXCEPT !.accepted = TRUE, !.eos = FALSE]]
      BY <2>2 DEF SchedGroup
    <3> QED
      BY <3>1, <3>2
  <2> QED
    BY <2>1, <2>2
<1>2. At("group") /\ UNCHANGED <<slots, content, req, cold, queueVars, active>>
  BY DEF SchedGroup, poolVars
<1>3. /\ work \in [Requests -> WorkType] /\ content \in [Slots -> Contents]
      /\ sched \in [pc : SchedPcs, coalesced : BOOLEAN, group : GroupType]
      /\ interrupt \in BOOLEAN /\ active \in SUBSET Requests
      /\ \A r \in active : ~(work[r].gen >= MaxNew) /\ ~Long(r)
  BY <1>2 DEF SeamInv, TypeOK, At, Budget, NoLong
<1>4. /\ work' \in [Requests -> WorkType]
      /\ \A r \in Requests : work'[r].gen = work[r].gen /\ work'[r].rest = work[r].rest
  BY <1>1, <1>3 DEF WorkType
<1>5. ASSUME NEW r \in Requests, r \notin Scheduled PROVE work'[r] = work[r]
  <2>1. work[r] \in WorkType /\ work[r].accepted = TRUE /\ work[r].eos = FALSE
    BY <1>3, <1>5 DEF SeamInv, WorkShape, NoWork
  <2>2. [work[r] EXCEPT !.accepted = TRUE, !.eos = FALSE] = work[r]
    BY <2>1 DEF WorkType
  <2> QED
    BY <1>1, <2>2
<1>6. /\ sched' \in [pc : SchedPcs, coalesced : BOOLEAN, group : GroupType]
      /\ sched'.pc = "step"
      /\ sched'.group.lanes = lanes /\ sched'.group.todo = {} /\ sched'.group.pend = {}
  <2> DEFINE g == [NoGroup EXCEPT !.lanes = lanes, !.batch = \A r \in lanes : Decode(r)]
  <2>1. NoGroup \in GroupType /\ NoGroup.todo = {} /\ NoGroup.pend = {}
    BY DEF NoGroup, GroupType
  <2>0. sched' = [sched EXCEPT !.pc = "step", !.group = g]
    BY <1>1
  <2>2. (\A r \in lanes : Decode(r)) \in BOOLEAN /\ lanes \in SUBSET Requests
    BY <1>3
  <2>3. g \in GroupType /\ g.lanes = lanes /\ g.todo = {} /\ g.pend = {}
    BY <2>1, <2>2 DEF GroupType
  <2> HIDE DEF g
  <2> QED
    BY <2>0, <1>3, <2>3 DEF SchedPcs
<1>7. GroupShape' /\ NoStrandedWork'
  BY <1>2, <1>6 DEF SeamInv, GroupShape, NoStrandedWork, At, queueVars
<1>8. Budget' /\ NoLong'
  BY <1>2, <1>3, <1>4 DEF Budget, NoLong, Long
<1>9. \A r \in Requests : req[r].pc \notin {"token", "keep", "stop"}
  BY <1>2, NoTokenOut DEF At
<1> QED
  BY <1>2, <1>3, <1>4, <1>5, <1>6, <1>7, <1>8, <1>9, ComputesInv DEF At, queueVars

\* One forward step: whoever samples was inside the budget, as the cohort is while it computes.
LEMMA SchedStepInv ==
  ASSUME SeamInv, SchedStep
  PROVE  SeamInv'
<1> DEFINE lanes == sched.group.lanes
           sampling == {r \in lanes : Decode(r)}
<1>1. PICK eos \in SUBSET sampling :
        /\ work' = [r \in Requests |->
                      IF r \in sampling
                      THEN [work[r] EXCEPT !.gen = work[r].gen + 1, !.eos = r \in eos]
                      ELSE IF r \in lanes
                      THEN [work[r] EXCEPT !.rest = work[r].rest - 1]
                      ELSE work[r]]
        /\ sched' = [sched EXCEPT !.pc = "deliver", !.group.fed = TRUE,
                                  !.group.todo = sampling \ eos]
  BY DEF SchedStep
<1>2. /\ At("step") /\ UNCHANGED <<slots, req, cold, queueVars, active>>
      /\ content' = [s \in Slots |-> IF \E r \in lanes : work[r].kv = s
                       THEN ContentOf(CHOOSE r \in lanes : work[r].kv = s) ELSE content[s]]
  BY DEF SchedStep
<1>3. /\ work \in [Requests -> WorkType] /\ content \in [Slots -> Contents]
      /\ sched \in [pc : SchedPcs, coalesced : BOOLEAN, group : GroupType]
      /\ interrupt \in BOOLEAN /\ active \in SUBSET Requests /\ lanes \subseteq active
      /\ sched.group.pend = {}
      /\ \A r \in active : ~(work[r].gen >= MaxNew) /\ ~Long(r)
  BY <1>2 DEF SeamInv, TypeOK, At, Budget, NoLong, GroupShape
<1>4. /\ sched' \in [pc : SchedPcs, coalesced : BOOLEAN, group : GroupType]
      /\ sched'.pc = "deliver"
      /\ sched'.group.lanes = lanes /\ sched'.group.todo \subseteq lanes /\ sched'.group.pend = {}
  <2> DEFINE g == [sched.group EXCEPT !.fed = TRUE, !.todo = sampling \ eos]
  <2>1. sched.group \in GroupType
    BY <1>3
  <2>2. g \in GroupType /\ g.lanes = lanes /\ g.todo \subseteq lanes /\ g.pend = {}
    BY <1>3, <2>1 DEF GroupType
  <2>3. sched' = [sched EXCEPT !.pc = "deliver", !.group = g]
    BY <1>1, <1>3
  <2> HIDE DEF g
  <2>4. sched'.pc = "deliver" /\ sched'.group = g
    BY <1>3, <2>3
  <2>5. sched \in [pc : SchedPcs, coalesced : BOOLEAN, group : GroupType]
    BY <1>3
  <2>6. sched' \in [pc : SchedPcs, coalesced : BOOLEAN, group : GroupType]
    BY <2>2, <2>3, <2>5 DEF SchedPcs
  <2> QED
    BY <2>2, <2>4, <2>6
<1>5. ASSUME NEW r \in sampling
      PROVE  /\ work'[r] \in WorkType /\ work'[r].rest = work[r].rest
             /\ work'[r].gen >= MaxNew => r \in lanes /\ work'[r].rest = 0
  <2>1. PICK e \in BOOLEAN : work'[r] = [work[r] EXCEPT !.gen = work[r].gen + 1, !.eos = e]
    <3>1. work'[r] = [work[r] EXCEPT !.gen = work[r].gen + 1, !.eos = r \in eos]
      BY <1>1, <1>3
    <3>2. (r \in eos) \in BOOLEAN
      OBVIOUS
    <3> QED
      BY <3>1, <3>2
  <2>2. work[r] \in WorkType /\ ~(work[r].gen >= MaxNew) /\ work[r].rest = 0
    BY <1>3 DEF Decode
  <2>3. work[r].gen + 1 \in 0..MaxNew
    BY <2>2, SeamAssumption DEF WorkType
  <2>4. work'[r] \in WorkType /\ work'[r].rest = work[r].rest
    BY <2>1, <2>2, <2>3 DEF WorkType
  <2> QED
    BY <2>2, <2>4
<1>6. ASSUME NEW r \in lanes \ sampling
      PROVE  /\ work'[r] \in WorkType /\ work'[r].gen = work[r].gen
             /\ work'[r].rest = work[r].rest - 1
  <2>1. work'[r] = [work[r] EXCEPT !.rest = work[r].rest - 1] /\ work[r].rest # 0
    BY <1>1, <1>3 DEF Decode
  <2>2. work[r] \in WorkType
    BY <1>3
  <2>3. work[r].rest - 1 \in 0..PromptRows
    BY <2>1, <2>2, SeamAssumption DEF WorkType
  <2> QED
    BY <2>1, <2>2, <2>3 DEF WorkType
<1>7. \A r \in Requests \ lanes : work'[r] = work[r]
  BY <1>1
<1>8. work' \in [Requests -> WorkType]
  <2>1. work' = [r \in Requests |-> work'[r]]
    BY <1>1
  <2>2. \A r \in Requests : work'[r] \in WorkType
    BY <1>3, <1>5, <1>6, <1>7
  <2> QED
    BY <2>1, <2>2
<1>9. content' \in [Slots -> Contents]
  <2>1. ASSUME NEW s \in Slots, \E r \in lanes : work[r].kv = s
        PROVE  ContentOf(CHOOSE r \in lanes : work[r].kv = s) \in Contents
    <3>1. (CHOOSE r \in lanes : work[r].kv = s) \in Requests
      BY <1>3, <2>1
    <3> QED
      BY <3>1, PoolAssumption DEF ContentOf, Contents, IsImage
  <2> QED
    BY <1>2, <1>3, <2>1
<1>10. GroupShape' /\ NoStrandedWork'
  BY <1>2, <1>3, <1>4 DEF SeamInv, GroupShape, NoStrandedWork, At, queueVars
<1>11. Budget'
  <2> SUFFICES ASSUME NEW r \in active, work'[r].gen >= MaxNew
               PROVE  r \in lanes /\ work'[r].rest = 0
    BY <1>2, <1>4 DEF Budget, Decode
  <2> QED
    BY <1>3, <1>5, <1>6, <1>7
<1>12. NoLong'
  <2>1. ASSUME NEW r \in active PROVE ~(work'[r].rest > ShortRows)
    <3>1. work[r].rest \in 0..PromptRows /\ ~(work[r].rest > ShortRows)
      BY <1>3 DEF WorkType, Long
    <3>2. work'[r].rest = work[r].rest \/ work'[r].rest = work[r].rest - 1
      BY <1>3, <1>5, <1>6, <1>7
    <3> QED
      BY <3>1, <3>2, SeamAssumption
  <2> QED
    BY <1>2, <2>1 DEF NoLong, Long
<1>13. \A r \in Requests : req[r].pc \notin {"token", "keep", "stop"}
  BY <1>2, NoTokenOut DEF At
<1>14. \A r \in Requests : r \notin active => work'[r] = work[r]
  BY <1>3, <1>7
<1> QED
  BY <1>2, <1>3, <1>4, <1>8, <1>9, <1>10, <1>11, <1>12, <1>13, <1>14, ComputesInv
     DEF At, queueVars, Scheduled

\* The end of a token group: whoever used up its budget is finished.
LEMMA SchedAccountInv ==
  ASSUME SeamInv, SchedAccount
  PROVE  SeamInv'
<1> DEFINE lanes == sched.group.lanes
<1>1. /\ At("account") /\ UNCHANGED <<slots, req, cold, queueVars, active>>
      /\ work' = [r \in Requests |-> IF r \in lanes THEN Account(r) ELSE work[r]]
      /\ content' = [s \in Slots |-> IF ~sched.group.fed /\ \E r \in lanes : work[r].kv = s
                                     THEN "empty" ELSE content[s]]
      /\ sched' = [sched EXCEPT !.pc = "retire", !.group = NoGroup]
  BY DEF SchedAccount
<1>2. /\ work \in [Requests -> WorkType] /\ content \in [Slots -> Contents]
      /\ sched \in [pc : SchedPcs, coalesced : BOOLEAN, group : GroupType]
      /\ interrupt \in BOOLEAN /\ active \in SUBSET Requests /\ lanes \subseteq active
      /\ \A r \in active : work[r].gen >= MaxNew => r \in lanes
  BY <1>1 DEF SeamInv, TypeOK, At, Budget, GroupShape
<1>3. ASSUME NEW r \in lanes
      PROVE  /\ Account(r) \in WorkType /\ Account(r).gen = work[r].gen
             /\ work[r].gen >= MaxNew => Account(r).finished
  <2> DEFINE rest == IF sched.group.fed THEN work[r].rest ELSE PromptRows
             over == \/ work[r].eos \/ ~work[r].accepted \/ work[r].gen >= MaxNew
                     \/ rest \in 1..ShortRows /\ ~Alive(r)
  <2>1. work[r] \in WorkType
    BY <1>2
  <2>2. rest \in 0..PromptRows
    BY <2>1, SeamAssumption DEF WorkType
  <2>3. over \in BOOLEAN /\ (work[r].gen >= MaxNew => over)
    BY <2>1 DEF WorkType
  <2>4. Account(r) = [work[r] EXCEPT !.rest = rest, !.finished = over]
    BY DEF Account
  <2> HIDE DEF rest, over
  <2> QED
    BY <2>1, <2>2, <2>3, <2>4 DEF WorkType
<1>4. /\ work' \in [Requests -> WorkType]
      /\ \A r \in Requests : work'[r].gen = work[r].gen
      /\ \A r \in Requests : r \notin active => work'[r] = work[r]
  BY <1>1, <1>2, <1>3
<1>5. content' \in [Slots -> Contents]
  BY <1>1, <1>2 DEF Contents
<1>6. NoGroup \in GroupType
  BY DEF NoGroup, GroupType
<1>7. /\ sched' \in [pc : SchedPcs, coalesced : BOOLEAN, group : GroupType]
      /\ sched'.pc = "retire" /\ sched'.group = NoGroup
  BY <1>1, <1>2, <1>6 DEF SchedPcs
<1>8. GroupShape' /\ NoStrandedWork' /\ NoLong'
  BY <1>1, <1>7 DEF SeamInv, GroupShape, NoGroup, NoStrandedWork, NoLong, At, queueVars
<1>9. Budget'
  BY <1>1, <1>2, <1>3, <1>4, <1>7 DEF Budget
<1>10. \A r \in Requests : req[r].pc \notin {"token", "keep", "stop"}
  BY <1>1, NoTokenOut DEF At
<1> QED
  BY <1>1, <1>2, <1>4, <1>5, <1>7, <1>8, <1>9, <1>10, ComputesInv DEF At, queueVars, Scheduled

\* An error leaves the works to be failed.
LEMMA ComputeErrorInv ==
  ASSUME SeamInv, ComputeError
  PROVE  SeamInv'
<1>1. /\ sched.pc \in {"prepare", "long", "step"}
      /\ content' \in {content, [s \in Slots |-> IF \E r \in active : work[r].kv = s
                                                 THEN "empty" ELSE content[s]]}
      /\ sched' = [sched EXCEPT !.pc = "fail", !.group = NoGroup, !.coalesced = FALSE]
      /\ UNCHANGED <<slots, req, cold, queueVars, active, work>>
  BY DEF ComputeError
<1>2. /\ content \in [Slots -> Contents] /\ work \in [Requests -> WorkType] /\ interrupt \in BOOLEAN
      /\ sched \in [pc : SchedPcs, coalesced : BOOLEAN, group : GroupType]
  BY DEF SeamInv, TypeOK
<1>3. content' \in [Slots -> Contents]
  BY <1>1, <1>2 DEF Contents
<1>4. NoGroup \in GroupType
  BY DEF NoGroup, GroupType
<1>5. /\ sched' \in [pc : SchedPcs, coalesced : BOOLEAN, group : GroupType]
      /\ sched'.pc = "fail" /\ sched'.group = NoGroup
  BY <1>1, <1>2, <1>4 DEF SchedPcs
<1>6. GroupShape' /\ Budget' /\ NoLong' /\ NoStrandedWork'
  BY <1>5 DEF GroupShape, NoGroup, Budget, NoLong, NoStrandedWork
<1>7. \A r \in Requests : req[r].pc \notin {"token", "keep", "stop"}
  BY <1>1, NoTokenOut
<1> QED
  BY <1>1, <1>2, <1>3, <1>5, <1>6, <1>7, ComputesInv DEF queueVars

\* Exchanging a token and its acknowledgement with a call of the token group.
LEMMA ExchangeInv ==
  ASSUME SeamInv, At("deliver"), NEW r \in sched.group.lanes,
         UNCHANGED <<slots, content, cold, queueVars, active>>,
         NEW todo, todo \subseteq sched.group.lanes,
         NEW pend, pend \subseteq sched.group.lanes,
         sched' = [sched EXCEPT !.group = [sched.group EXCEPT !.todo = todo, !.pend = pend]],
         NEW accepted \in BOOLEAN,
         work' = [work EXCEPT ![r] = [work[r] EXCEPT !.accepted = accepted]],
         \/ req' = req
         \/ Alive(r) /\ \E pc \in Listening : req' = [req EXCEPT ![r].pc = pc],
         AckExpected'
  PROVE  SeamInv'
<1> USE DEF SeamInv
<1>1. /\ work \in [Requests -> WorkType] /\ req \in [Requests -> GuardType(Pcs)]
      /\ sched \in [pc : SchedPcs, coalesced : BOOLEAN, group : GroupType]
      /\ active \subseteq Requests /\ sched.group.lanes \subseteq active
  BY DEF TypeOK, GroupShape
<1>2. r \in active /\ r \in Requests
  BY <1>1
<1>3. /\ work' \in [Requests -> WorkType] /\ \A q \in Requests \ {r} : work'[q] = work[q]
      /\ \A q \in Requests : /\ work'[q].gen = work[q].gen /\ work'[q].rest = work[q].rest
                             /\ work'[q].finished = work[q].finished
  <2>1. LET w == [work[r] EXCEPT !.accepted = accepted]
        IN /\ w \in WorkType /\ w.gen = work[r].gen /\ w.rest = work[r].rest
           /\ w.finished = work[r].finished
    BY <1>1, <1>2 DEF WorkType
  <2> QED
    BY <1>1, <1>2, <2>1
<1>4. /\ req' \in [Requests -> GuardType(Pcs)] /\ \A q \in Requests : Alive(q)' <=> Alive(q)
      /\ \A q \in Requests : req'[q].pc = req[q].pc \/ (q = r /\ Alive(r) /\ req'[q].pc \in Listening)
  <2>1. CASE req' = req
    BY <1>1, <2>1 DEF Alive
  <2>2. CASE Alive(r) /\ \E pc \in Listening : req' = [req EXCEPT ![r].pc = pc]
    <3>1. PICK pc \in Listening : req' = [req EXCEPT ![r].pc = pc]
      BY <2>2
    <3>2. pc \in Pcs
      BY DEF Pcs
    <3>3. req' \in [Requests -> GuardType(Pcs)] /\ \A q \in Requests : req'[q].pc = IF q = r THEN pc ELSE req[q].pc
      BY <1>1, <3>1, <3>2 DEF GuardType
    <3> QED
      BY <1>2, <2>2, <3>3 DEF Alive
  <2> QED
    BY <2>1, <2>2
<1>5. /\ sched' \in [pc : SchedPcs, coalesced : BOOLEAN, group : GroupType]
      /\ sched'.pc = "deliver" /\ sched'.group.lanes = sched.group.lanes
      /\ sched'.group.todo = todo /\ sched'.group.pend = pend
  <2> DEFINE g == [sched.group EXCEPT !.todo = todo, !.pend = pend]
  <2>1. g \in GroupType /\ g.lanes = sched.group.lanes /\ g.todo = todo /\ g.pend = pend
    BY <1>1 DEF GroupType
  <2>2. sched' = [sched EXCEPT !.group = g]
    OBVIOUS
  <2> HIDE DEF g
  <2> QED
    BY <1>1, <2>1, <2>2 DEF At
<1>6. TypeOK'
  BY <1>3, <1>4, <1>5 DEF TypeOK, queueVars
<1>7. Registered'
  BY <1>1, <1>4 DEF Registered, TypeOK, queueVars, Listening, Alive
<1>8. Queued' = Queued /\ Scheduled' = Scheduled /\ Scheduled \subseteq Requests
  BY ScheduledCalls DEF Queued, Scheduled, queueVars
<1>9. QueueShape' /\ GroupShape'
  BY <1>5, <1>8 DEF QueueShape, GroupShape, queueVars
<1>10. Listeners'
  <2>1. \A q \in Requests : req[q].pc = "done" => req'[q].pc = "done"
    BY <1>4 DEF Alive, Listening
  <2> QED
    BY <1>4, <1>8, <2>1 DEF Listeners
<1>11. WorkShape'
  BY <1>2, <1>3, <1>8 DEF WorkShape, Scheduled
<1>12. Budget' /\ NoLong'
  <2>1. Budget'
    BY <1>1, <1>3, <1>5 DEF Budget, Decode, At
  <2>2. NoLong'
    BY <1>1, <1>3, <1>5 DEF NoLong, Long, At
  <2> QED
    BY <2>1, <2>2
<1>13. CohortBounded' /\ NoStrandedWork'
  BY <1>5 DEF CohortBounded, NoStrandedWork, At, queueVars
<1> QED
  BY <1>6, <1>7, <1>9, <1>10, <1>11, <1>12, <1>13

\* A token goes to the thread that waits for it, or to nobody.
LEMMA SendTokenInv ==
  ASSUME SeamInv, NEW r \in Requests, SendToken(r)
  PROVE  SeamInv'
<1>1. /\ At("deliver") /\ r \in sched.group.todo
      /\ UNCHANGED <<slots, content, cold, queueVars, active>>
      /\ work \in [Requests -> WorkType] /\ req \in [Requests -> GuardType(Pcs)]
      /\ sched \in [pc : SchedPcs, coalesced : BOOLEAN, group : GroupType]
      /\ sched.group.todo \subseteq sched.group.lanes /\ sched.group.pend \subseteq sched.group.lanes
      /\ AckExpected
  BY DEF SendToken, SeamInv, TypeOK, GroupShape
<1>2. CASE /\ req[r].pc = "wait"
           /\ req' = [req EXCEPT ![r].pc = "token"]
           /\ sched' = [sched EXCEPT !.group.todo = @ \ {r}, !.group.pend = @ \cup {r}]
           /\ UNCHANGED work
  <2>1. sched' = [sched EXCEPT !.group =
                    [sched.group EXCEPT !.todo = sched.group.todo \ {r},
                                        !.pend = sched.group.pend \cup {r}]]
    BY <1>1, <1>2 DEF GroupType
  <2>2. work' = [work EXCEPT ![r] = [work[r] EXCEPT !.accepted = work[r].accepted]]
    BY <1>1, <1>2 DEF WorkType
  <2>3. work[r].accepted \in BOOLEAN
    BY <1>1 DEF WorkType
  <2>4. Alive(r) /\ \E pc \in Listening : req' = [req EXCEPT ![r].pc = pc]
    BY <1>2 DEF Alive, Listening
  <2>5. sched'.pc = "deliver" /\ sched'.group.pend = sched.group.pend \cup {r}
    BY <1>1, <2>1 DEF GroupType, At
  <2>6. \A q \in Requests : req'[q].pc = IF q = r THEN "token" ELSE req[q].pc
    BY <1>1, <1>2 DEF GuardType
  <2>7. AckExpected'
    BY <1>1, <2>5, <2>6 DEF AckExpected, At
  <2>8. /\ r \in sched.group.lanes /\ sched.group.todo \ {r} \subseteq sched.group.lanes
        /\ sched.group.pend \cup {r} \subseteq sched.group.lanes
    BY <1>1
  <2> QED
    BY <1>1, <2>1, <2>2, <2>3, <2>4, <2>7, <2>8, ExchangeInv
<1>3. CASE /\ ~Alive(r)
           /\ sched' = [sched EXCEPT !.group.todo = @ \ {r}]
           /\ work' = [work EXCEPT ![r].accepted = FALSE]
           /\ UNCHANGED req
  <2>1. sched' = [sched EXCEPT !.group =
                    [sched.group EXCEPT !.todo = sched.group.todo \ {r}, !.pend = sched.group.pend]]
    BY <1>1, <1>3 DEF GroupType
  <2>2. work' = [work EXCEPT ![r] = [work[r] EXCEPT !.accepted = FALSE]]
    BY <1>1, <1>3
  <2>3. sched'.pc = "deliver" /\ sched'.group.pend = sched.group.pend
    BY <1>1, <2>1 DEF GroupType, At
  <2>4. AckExpected'
    BY <1>1, <1>3, <2>3 DEF AckExpected, At
  <2>5. r \in sched.group.lanes /\ sched.group.todo \ {r} \subseteq sched.group.lanes
    BY <1>1
  <2> QED
    BY <1>1, <1>3, <2>1, <2>2, <2>4, <2>5, ExchangeInv
<1> QED
  BY <1>2, <1>3 DEF SendToken

\* Its acknowledgement, or the disconnection that stands for a refusal.
LEMMA ReceiveAckInv ==
  ASSUME SeamInv, NEW r \in Requests, ReceiveAck(r)
  PROVE  SeamInv'
<1>1. /\ At("deliver") /\ r \in sched.group.pend
      /\ UNCHANGED <<slots, content, cold, queueVars, active>>
      /\ sched' = [sched EXCEPT !.group.pend = @ \ {r}]
      /\ work \in [Requests -> WorkType] /\ req \in [Requests -> GuardType(Pcs)]
      /\ sched \in [pc : SchedPcs, coalesced : BOOLEAN, group : GroupType]
      /\ sched.group.todo \subseteq sched.group.lanes /\ sched.group.pend \subseteq sched.group.lanes
      /\ AckExpected
  BY DEF ReceiveAck, SeamInv, TypeOK, GroupShape
<1>2. sched' = [sched EXCEPT !.group =
                  [sched.group EXCEPT !.todo = sched.group.todo, !.pend = sched.group.pend \ {r}]]
  BY <1>1 DEF GroupType
<1>3. sched'.pc = "deliver" /\ sched'.group.pend = sched.group.pend \ {r}
  BY <1>1, <1>2 DEF GroupType, At
<1>4. r \in sched.group.lanes /\ sched.group.pend \ {r} \subseteq sched.group.lanes
  BY <1>1
<1>5. CASE /\ req[r].pc \in {"keep", "stop"}
           /\ work' = [work EXCEPT ![r].accepted = (req[r].pc = "keep")]
           /\ req' = [req EXCEPT ![r].pc = "wait"]
  <2>1. PICK accepted \in BOOLEAN : work' = [work EXCEPT ![r] = [work[r] EXCEPT !.accepted = accepted]]
    BY <1>1, <1>5
  <2>2. Alive(r) /\ \E pc \in Listening : req' = [req EXCEPT ![r].pc = pc]
    BY <1>5 DEF Alive, Listening
  <2>3. \A q \in Requests : req'[q].pc = IF q = r THEN "wait" ELSE req[q].pc
    BY <1>1, <1>5 DEF GuardType
  <2>4. AckExpected'
    BY <1>1, <1>3, <2>3 DEF AckExpected, At
  <2> QED
    BY <1>1, <1>2, <1>4, <2>1, <2>2, <2>4, ExchangeInv
<1>6. CASE /\ ~Alive(r)
           /\ work' = [work EXCEPT ![r].accepted = FALSE]
           /\ UNCHANGED req
  <2>1. work' = [work EXCEPT ![r] = [work[r] EXCEPT !.accepted = FALSE]]
    BY <1>1, <1>6
  <2>2. AckExpected'
    BY <1>1, <1>3, <1>6 DEF AckExpected, At, Alive, Listening
  <2> QED
    BY <1>1, <1>2, <1>4, <1>6, <2>1, <2>2, ExchangeInv
<1> QED
  BY <1>5, <1>6 DEF ReceiveAck

\* A work leaves the cohort: its call goes on with the KV, or had unwound before.
LEMMA GiveBackInv ==
  ASSUME SeamInv, NEW r \in active, sched.pc \in {"retire", "fail", "closed"}, GiveBack(r),
         UNCHANGED <<content, queueVars, sched>>
  PROVE  SeamInv'
<1> USE DEF SeamInv
<1>1. /\ work \in [Requests -> WorkType] /\ req \in [Requests -> GuardType(Pcs)]
      /\ slots \in [Slots -> SlotType] /\ cold \in ColdType
      /\ active \subseteq Requests /\ r \in Requests /\ r \notin Queued /\ r \in Scheduled
  BY DEF TypeOK, QueueShape, Scheduled
<1>2. work' = [work EXCEPT ![r] = NoWork] /\ active' = active \ {r}
  BY DEF GiveBack
<1>3. NoWork \in WorkType
  BY SeamAssumption DEF NoWork, WorkType, OptKv
<1>4. /\ req' \in [Requests -> GuardType(Pcs)] /\ slots' \in [Slots -> SlotType] /\ cold' \in ColdType
      /\ \A q \in Requests : \/ req'[q].pc = req[q].pc /\ (q = r => ~Alive(r))
                             \/ req[q].pc = "asleep" /\ req'[q].pc = "checkout"
                             \/ q = r /\ req[q].pc = "wait" /\ req'[q].pc = "release"
  <2>1. CASE /\ req[r].pc = "wait"
             /\ req' = [req EXCEPT ![r].pc = "release", ![r].kv = work[r].kv]
             /\ UNCHANGED <<slots, cold>>
    <3> DEFINE g == [req[r] EXCEPT !.pc = "release", !.kv = work[r].kv]
    <3>1. g \in GuardType(Pcs) /\ g.pc = "release"
      <4>1. work[r].kv \in OptKv /\ req[r] \in GuardType(Pcs) /\ "release" \in Pcs
        BY <1>1 DEF WorkType, Pcs, PoolPcs
      <4> QED
        BY <4>1 DEF GuardType
    <3>2. req' = [req EXCEPT ![r] = g]
      BY <1>1, <2>1 DEF GuardType
    <3> HIDE DEF g
    <3> QED
      BY <1>1, <2>1, <3>1, <3>2
  <2>2. CASE /\ ~Alive(r) /\ UNCHANGED <<slots, req, cold>>
    BY <1>1, <2>2
  <2>3. CASE /\ ~Alive(r)
             /\ slots' = [slots EXCEPT ![work[r].slot] = Returned(work[r].kv, NoKey)]
             /\ NotifyFreed(req)
    <3>1. Returned(work[r].kv, NoKey) \in SlotType
      <4>1. work[r].kv \in OptKv
        BY <1>1 DEF WorkType
      <4> QED
        BY <4>1 DEF Returned, SlotType, HasCache
    <3>2. slots' \in [Slots -> SlotType]
      BY <1>1, <2>3, <3>1
    <3>3. /\ req' \in [Requests -> GuardType(Pcs)] /\ cold' \in ColdType
          /\ \A q \in Requests : \/ req'[q].pc = req[q].pc
                                 \/ req[q].pc = "asleep" /\ req'[q].pc = "checkout"
      <4>1. "checkout" \in Pcs
        BY DEF Pcs, PoolPcs
      <4> QED
        BY <1>1, <2>3, <4>1, NotifyMovesNothing
    <3> QED
      BY <2>3, <3>2, <3>3
  <2> QED
    BY <2>1, <2>2, <2>3 DEF GiveBack
<1>5. TypeOK'
  BY <1>1, <1>2, <1>3, <1>4 DEF TypeOK, queueVars
<1>6. Registered'
  BY <1>1, <1>4 DEF Registered, TypeOK, queueVars
<1>7. Queued' = Queued /\ Scheduled' = Scheduled \ {r} /\ Scheduled \subseteq Requests
  BY <1>1, <1>2, ScheduledCalls DEF Queued, Scheduled, queueVars
<1>8. QueueShape' /\ GroupShape'
  <2>1. IsFiniteSet(active')
    BY <1>2, FS_Subset DEF QueueShape
  <2>2. QueueShape'
    BY <1>2, <1>7, <2>1 DEF QueueShape, queueVars
  <2>3. sched.group = NoGroup
    BY DEF GroupShape
  <2>4. GroupShape'
    BY <2>3 DEF GroupShape, NoGroup
  <2> QED
    BY <2>2, <2>4
<1>9. Listeners'
  <2>1. \A q \in Requests \ {r} : (Alive(q)' <=> Alive(q)) /\ (req[q].pc = "done" => req'[q].pc = "done")
    BY <1>4 DEF Alive, Listening
  <2>2. ~Alive(r)'
    BY <1>1, <1>4 DEF Alive, Listening
  <2> QED
    BY <1>7, <2>1, <2>2 DEF Listeners
<1>10. WorkShape'
  BY <1>1, <1>2, <1>7 DEF WorkShape
<1>11. Budget' /\ NoLong'
  BY <1>1, <1>2 DEF Budget, NoLong
<1>12. CohortBounded'
  <2>1. Cardinality(active') <= Cardinality(active)
    BY <1>2, FS_Subset DEF QueueShape
  <2>2. Cardinality(active') \in Nat /\ Cardinality(active) \in Nat
    BY <1>8, FS_CardinalityType DEF QueueShape
  <2> QED
    BY <2>1, <2>2, SeamAssumption DEF CohortBounded
<1>13. AckExpected' /\ NoStrandedWork'
  BY <1>4 DEF AckExpected, NoStrandedWork, At, queueVars
<1> QED
  BY <1>5, <1>6, <1>8, <1>9, <1>10, <1>11, <1>12, <1>13

-----------------------------------------------------------------------------
(* The hand-over as a whole. *)

\* The engine starts with nothing registered, queued or owned.
LEMMA SeamInit == Init => SeamInv
<1> SUFFICES ASSUME Init PROVE SeamInv
  OBVIOUS
<1> USE SeamAssumption, PoolAssumption DEF Init, PoolInit, NoGuard
<1>1. /\ IsFiniteSet(reg) /\ arriving = Cardinality(reg) /\ Queued = {} /\ Scheduled = {}
      /\ Cardinality(active) = 0 /\ IsFiniteSet(active)
  BY FS_EmptySet DEF Queued, Scheduled
<1>2. TypeOK
  <2>1. slots \in [Slots -> SlotType] /\ content \in [Slots -> Contents] /\ cold \in ColdType
    BY DEF SlotType, Contents, ColdType, OptKv
  <2>2. req \in [Requests -> GuardType(Pcs)]
    BY DEF GuardType, Pcs, PoolPcs, OptKv
  <2>3. work \in [Requests -> WorkType]
    BY DEF NoWork, WorkType, OptKv
  <2>4. sched \in [pc : SchedPcs, coalesced : BOOLEAN, group : GroupType]
    BY DEF SchedPcs, GroupType, NoGroup
  <2>5. /\ reg \in SUBSET Requests /\ arriving \in Nat /\ waiting \in Seq(Requests)
        /\ interrupt \in BOOLEAN /\ active \in SUBSET Requests
    BY EmptySeq
  <2> QED
    BY <2>1, <2>2, <2>3, <2>4, <2>5 DEF TypeOK
<1>3. Registered /\ QueueShape /\ GroupShape
  BY <1>1 DEF Registered, QueueShape, GroupShape, NoGroup
<1>4. Listeners /\ WorkShape /\ Budget /\ NoLong
  BY <1>1 DEF Listeners, WorkShape, Budget, NoLong, Alive, Listening
<1>5. CohortBounded /\ AckExpected /\ NoStrandedWork
  BY <1>1 DEF CohortBounded, AckExpected, NoStrandedWork
<1> QED
  BY <1>2, <1>3, <1>4, <1>5 DEF SeamInv

\* A thread enters past the scheduler.
LEMMA EnterInv ==
  ASSUME SeamInv, NEW r \in Requests, Enter(r)
  PROVE  SeamInv'
<1>1. /\ req[r].pc = "idle" /\ req' = [req EXCEPT ![r].pc = "checkout"]
      /\ UNCHANGED <<slots, content, cold, queueVars, schedVars, work>>
  BY DEF Enter, GoCheckout
<1>2. content' \in [Slots -> Contents]
  BY <1>1 DEF SeamInv, TypeOK
<1> QED
  BY <1>1, <1>2, StepsAsideInv

\* Every step keeps the hand-over in shape.
LEMMA SeamStep == SeamInv /\ [Next]_vars => SeamInv'
<1> SUFFICES ASSUME SeamInv, [Next]_vars PROVE SeamInv'
  OBVIOUS
<1>1. ASSUME NEW r \in Requests, Thread(r) PROVE SeamInv'
  BY <1>1, RegisterInv, EncodedInv, EnterInv, LeaseInv, EnqueueInv, StreamedInv DEF Thread
<1>2. CASE SchedNext
  <2>1. ASSUME NEW r \in Requests, SendToken(r) \/ ReceiveAck(r) PROVE SeamInv'
    BY <2>1, SendTokenInv, ReceiveAckInv
  <2>2. ASSUME NEW r \in Requests, Retire(r) \/ Fail(r) PROVE SeamInv'
    <3>1. /\ r \in active /\ sched.pc \in {"retire", "fail", "closed"} /\ GiveBack(r)
          /\ UNCHANGED <<content, queueVars, sched>>
      BY <2>2 DEF Retire, Fail, At
    <3> QED
      BY <3>1, GiveBackInv
  <2> QED
    BY <1>2, <2>1, <2>2, SchedMovesInv, SchedAdmitsInv, SchedPrepareInv, SchedLongInv, SchedGroupInv,
       SchedStepInv, SchedAccountInv, ComputeErrorInv DEF SchedNext
<1>3. CASE UNCHANGED vars
  <2>1. /\ UNCHANGED <<slots, req, cold, reg, arriving, content, active, work, sched>>
        /\ UNCHANGED <<waiting, interrupt, queueVars>>
    BY <1>3 DEF vars, poolVars, queueVars, schedVars
  <2>2. Registered'
    BY <2>1 DEF SeamInv, Registered
  <2> QED
    BY <2>1, <2>2, AsideInv DEF SeamInv, TypeOK
<1> QED
  BY <1>1, <1>2, <1>3, ColdInv DEF Next, Quiet

\* Every variable of the engine keeps its type: no counter runs below zero, no budget over MaxNew.
THEOREM SeamIsTyped == Spec => []TypeOK
<1>1. SeamInv => TypeOK
  BY DEF SeamInv
<1> QED
  BY <1>1, SeamInit, SeamStep, PTL DEF Spec

-----------------------------------------------------------------------------
(* The KVs. *)

\* Calls whose guard and work keep their KVs, and whose program counter stays in its class, keep
\* their guards in shape.
LEMMA GuardsKept ==
  ASSUME OwnInv, NEW R,
         \A q \in Requests \ R :
           /\ req'[q].slot = req[q].slot /\ req'[q].kv = req[q].kv
           /\ req'[q].src = req[q].src /\ req'[q].srcKv = req[q].srcKv
           /\ work'[q].slot = work[q].slot
           /\ \/ req'[q].pc = req[q].pc
              \/ req[q].pc \in Listening /\ req'[q].pc \in Listening
              \/ /\ req[q].pc \in {"idle", "encode", "checkout", "asleep", "done"}
                 /\ req'[q].pc \in {"idle", "encode", "checkout", "asleep", "done"}
              \/ req[q].pc = "held" /\ req'[q].pc \in {"release", "handoff"}
  PROVE  \A q \in Requests \ R : SeamGuard(q)'
<1> SUFFICES ASSUME NEW q \in Requests \ R PROVE SeamGuard(q)'
  OBVIOUS
<1>1. SeamGuard(q)
  BY DEF OwnInv, SeamGuards
<1> QED
  BY <1>1 DEF SeamGuard, Alive, Listening

\* When the holders stay, so do the slots' claims.
LEMMA HoldersKept ==
  ASSUME OwnInv, UNCHANGED slots, cold'.kv = cold.kv,
         \A q \in Requests, s \in Slots : Has(q, s)' <=> Has(q, s)
  PROVE  SlotShape' /\ SeamExclusive'
BY DEF OwnInv, SlotShape, SeamExclusive

\* A step that moves no KV.
LEMMA NothingMoves ==
  ASSUME OwnInv, SeamInv', UNCHANGED slots, cold'.kv = cold.kv, ColdShape', Scheduled' = Scheduled,
         \A q \in Requests :
           /\ req'[q].slot = req[q].slot /\ req'[q].kv = req[q].kv
           /\ req'[q].src = req[q].src /\ req'[q].srcKv = req[q].srcKv
           /\ work'[q].slot = work[q].slot /\ work'[q].kv = work[q].kv
           /\ \/ req'[q].pc = req[q].pc
              \/ req[q].pc \in Listening /\ req'[q].pc \in Listening
              \/ /\ req[q].pc \in {"idle", "encode", "checkout", "asleep", "done"}
                 /\ req'[q].pc \in {"idle", "encode", "checkout", "asleep", "done"}
              \/ req[q].pc = "held" /\ req'[q].pc \in {"release", "handoff"}
  PROVE  OwnInv'
<1>1. SeamGuards'
  <2>1. \A q \in Requests \ {} : SeamGuard(q)'
    BY GuardsKept
  <2> QED
    BY <2>1 DEF SeamGuards
<1>2. WorkKv'
  BY ScheduledCalls DEF OwnInv, SeamInv, WorkKv
<1>3. \A q \in Requests, s \in Slots : Has(q, s)' <=> Has(q, s)
  BY DEF Has
<1>4. SlotShape' /\ SeamExclusive'
  BY <1>3, HoldersKept
<1> QED
  BY <1>1, <1>2, <1>4 DEF OwnInv

\* A call that held nothing takes free KVs.
LEMMA Acquired ==
  ASSUME OwnInv, NEW r \in Requests, NEW X \in SUBSET Free, cold'.kv = cold.kv,
         \A s \in Slots : ~Has(r, s),
         \A s \in Slots : Has(r, s)' <=> s \in X,
         \A q \in Requests \ {r}, s \in Slots : Has(q, s)' <=> Has(q, s),
         \A s \in Slots : IF s \in X THEN slots'[s].busy /\ slots'[s].kv = None
                                     ELSE slots'[s] = slots[s]
  PROVE  SlotShape' /\ SeamExclusive'
<1>1. SlotShape'
  BY DEF OwnInv, SlotShape
<1>2. ASSUME NEW s \in Slots
      PROVE  /\ slots'[s].busy <=> cold'.kv = s \/ \E p \in Requests : Has(p, s)'
             /\ \A p \in Requests : Has(p, s)' => cold'.kv # s /\ \A q \in Requests : Has(q, s)' => q = p
  <2>1. CASE s \in X
    <3>1. ~slots[s].busy
      BY <2>1 DEF Free
    <3>2. cold.kv # s /\ \A q \in Requests : ~Has(q, s)
      BY <3>1 DEF OwnInv, SeamExclusive
    <3> QED
      BY <2>1, <3>2
  <2>2. CASE s \notin X
    <3>1. \A q \in Requests : Has(q, s)' <=> Has(q, s)
      BY <2>2
    <3>2. slots'[s] = slots[s]
      BY <2>2
    <3>3. /\ slots[s].busy <=> cold.kv = s \/ \E p \in Requests : Has(p, s)
          /\ \A p \in Requests : Has(p, s) => cold.kv # s /\ \A q \in Requests : Has(q, s) => q = p
      BY DEF OwnInv, SeamExclusive
    <3> QED
      BY <3>1, <3>2, <3>3
  <2> QED
    BY <2>1, <2>2
<1> QED
  BY <1>1, <1>2 DEF SeamExclusive

\* A call lets go of the KV of slot x, which gets it back.
LEMMA LetGo ==
  ASSUME OwnInv, NEW r \in Requests, NEW x \in Slots, Has(r, x), cold'.kv = cold.kv,
         \A s \in Slots : Has(r, s)' <=> Has(r, s) /\ s # x,
         \A q \in Requests \ {r}, s \in Slots : Has(q, s)' <=> Has(q, s),
         ~slots'[x].busy, slots'[x].kv = x, \A s \in Slots \ {x} : slots'[s] = slots[s]
  PROVE  SlotShape' /\ SeamExclusive'
<1>1. SlotShape'
  BY DEF OwnInv, SlotShape
<1>2. ASSUME NEW s \in Slots
      PROVE  /\ slots'[s].busy <=> cold'.kv = s \/ \E p \in Requests : Has(p, s)'
             /\ \A p \in Requests : Has(p, s)' => cold'.kv # s /\ \A q \in Requests : Has(q, s)' => q = p
  <2>0. /\ slots[s].busy <=> cold.kv = s \/ \E p \in Requests : Has(p, s)
        /\ \A p \in Requests : Has(p, s) => cold.kv # s /\ \A q \in Requests : Has(q, s) => q = p
    BY DEF OwnInv, SeamExclusive
  <2>1. CASE s = x
    BY <2>0, <2>1
  <2>2. CASE s # x
    <3>1. \A q \in Requests : Has(q, s)' <=> Has(q, s)
      BY <2>2
    <3> QED
      BY <2>0, <2>2, <3>1
  <2> QED
    BY <2>1, <2>2
<1> QED
  BY <1>1, <1>2 DEF SeamExclusive

\* A call in the pool has no work.
LEMMA NoWorkYet ==
  ASSUME OwnInv, NEW r \in Requests, req[r].pc \notin Listening \cup {"done"}
  PROVE  work[r].kv = None /\ work[r].slot = None
BY DEF OwnInv, SeamInv, Listeners, Alive, WorkShape, NoWork

\* Threads that move between the program points at which they hold nothing, and the end of a
\* generation on a guard's own KV.
LEMMA AsideKv ==
  ASSUME OwnInv, SeamInv', NEW r \in Requests,
         Register(r) \/ Encoded(r) \/ Enter(r) \/ CheckoutSleep(r)
           \/ (\E next \in SUBSET {"handoff", "release"} : RunLegacy(r, next)),
         UNCHANGED <<waiting, active, work>>
  PROVE  OwnInv'
<1>1. req \in [Requests -> GuardType(Pcs)] /\ UNCHANGED <<slots, cold>>
  BY DEF OwnInv, SeamInv, TypeOK, Register, Encoded, Enter, GoCheckout, CheckoutSleep, RunLegacy
<1>2. PICK pc : /\ req' = [req EXCEPT ![r].pc = pc]
                /\ \/ req[r].pc \in {"idle", "encode", "checkout"} /\ pc \in {"encode", "checkout", "asleep", "done"}
                   \/ req[r].pc = "held" /\ pc \in {"release", "handoff"}
  <2>1. CASE Register(r)
    BY <2>1 DEF Register
  <2>2. CASE Encoded(r)
    BY <2>2 DEF Encoded
  <2>3. CASE Enter(r)
    BY <2>3 DEF Enter, GoCheckout
  <2>4. CASE CheckoutSleep(r)
    BY <2>4 DEF CheckoutSleep
  <2>5. ASSUME NEW next \in SUBSET {"handoff", "release"}, RunLegacy(r, next)
        PROVE  \E pc : /\ req' = [req EXCEPT ![r].pc = pc]
                       /\ req[r].pc = "held" /\ pc \in {"release", "handoff"}
    BY <2>5 DEF RunLegacy
  <2> QED
    BY <2>1, <2>2, <2>3, <2>4, <2>5
<1>3. \A q \in Requests :
        /\ req'[q].slot = req[q].slot /\ req'[q].kv = req[q].kv
        /\ req'[q].src = req[q].src /\ req'[q].srcKv = req[q].srcKv
        /\ req'[q].pc = IF q = r THEN pc ELSE req[q].pc
  BY <1>1, <1>2 DEF GuardType
<1>4. ColdShape' /\ Scheduled' = Scheduled
  BY <1>1 DEF OwnInv, ColdShape, Scheduled, Queued
<1> QED
  BY <1>1, <1>2, <1>3, <1>4, NothingMoves

\* A checkout moves the KV of a free slot, and that of its source, into the guard.
LEMMA TakesKv ==
  ASSUME OwnInv, SeamInv', NEW r \in Requests, req[r].pc = "checkout",
         NEW t \in Free, NEW src \in (Free \ {t}) \cup {None},
         NEW pc \in {"seed", "held"}, src # None => pc = "seed",
         slots' = [s \in Slots |-> IF s = t \/ s = src THEN Reserved(s) ELSE slots[s]],
         req' = [req EXCEPT ![r] =
                   [pc |-> pc, slot |-> t, kv |-> slots[t].kv, src |-> src,
                    srcKv |-> IF src = None THEN None ELSE slots[src].kv]],
         UNCHANGED <<cold, waiting, active, work>>
  PROVE  OwnInv'
<1> USE PoolAssumption
<1>1. t \in Slots /\ slots[t].kv = t
  BY DEF Free, OwnInv, SlotShape
<1>2. src # None => src \in Slots /\ slots[src].kv = src /\ src # t
  BY DEF Free, OwnInv, SlotShape
<1>3. req \in [Requests -> GuardType(Pcs)] /\ slots \in [Slots -> SlotType]
  BY DEF OwnInv, SeamInv, TypeOK
<1>4. /\ req'[r] = [pc |-> pc, slot |-> t, kv |-> t, src |-> src, srcKv |-> src]
      /\ \A q \in Requests \ {r} : req'[q] = req[q]
  BY <1>1, <1>2, <1>3
<1>5. work[r].kv = None
  BY NoWorkYet DEF Listening
<1>6. \A s \in Slots : ~Has(r, s)
  BY <1>5 DEF Has, OwnInv, SeamGuards, SeamGuard
<1> DEFINE X == {t, src} \ {None}
<1>7. /\ X \in SUBSET Free /\ \A s \in Slots : s \in X <=> s = t \/ s = src
      /\ \A s \in Slots : Has(r, s)' <=> s \in X
      /\ \A q \in Requests \ {r}, s \in Slots : Has(q, s)' <=> Has(q, s)
  <2>1. X \in SUBSET Free /\ \A s \in Slots : s \in X <=> s = t \/ s = src
    BY <1>1
  <2>2. \A s \in Slots : Has(r, s)' <=> s \in X
    BY <1>4, <1>5, <2>1 DEF Has
  <2>3. \A q \in Requests \ {r}, s \in Slots : Has(q, s)' <=> Has(q, s)
    BY <1>4 DEF Has
  <2> QED
    BY <2>1, <2>2, <2>3
<1>8. \A s \in Slots : IF s \in X THEN slots'[s].busy /\ slots'[s].kv = None
                                  ELSE slots'[s] = slots[s]
  <2>1. \A s \in Slots : Reserved(s).busy /\ Reserved(s).kv = None
    BY <1>3 DEF Reserved, SlotType
  <2> QED
    BY <1>7, <2>1
<1> HIDE DEF X
<1>9. SlotShape' /\ SeamExclusive'
  BY <1>6, <1>7, <1>8, Acquired
<1>10. SeamGuards'
  <2>1. \A q \in Requests \ {r} : SeamGuard(q)'
    BY <1>4, GuardsKept
  <2>2. SeamGuard(r)'
    BY <1>1, <1>2, <1>4 DEF SeamGuard, Alive, Listening
  <2> QED
    BY <2>1, <2>2 DEF SeamGuards
<1>11. WorkKv' /\ ColdShape'
  BY DEF OwnInv, WorkKv, ColdShape, Scheduled, Queued
<1> QED
  BY <1>9, <1>10, <1>11 DEF OwnInv

\* The two checkouts.
LEMMA CheckoutKv ==
  ASSUME OwnInv, SeamInv', NEW r \in Requests, CheckoutText(r) \/ CheckoutImage(r),
         UNCHANGED <<waiting, active, work>>
  PROVE  OwnInv'
<1>1. CASE CheckoutText(r)
  <2>1. PICK t \in Free : \E src \in (Free \ {t}) \cup {None} :
          /\ slots' = [s \in Slots |-> IF s = t \/ s = src THEN Reserved(s) ELSE slots[s]]
          /\ req' = [req EXCEPT ![r] =
                       [pc    |-> IF HasCache \/ src # None THEN "seed" ELSE "held",
                        slot  |-> t, kv |-> slots[t].kv,
                        src   |-> src, srcKv |-> IF src = None THEN None ELSE slots[src].kv]]
          /\ UNCHANGED cold
    BY <1>1 DEF CheckoutText
  <2>2. PICK src \in (Free \ {t}) \cup {None} :
          /\ slots' = [s \in Slots |-> IF s = t \/ s = src THEN Reserved(s) ELSE slots[s]]
          /\ req' = [req EXCEPT ![r] =
                       [pc    |-> IF HasCache \/ src # None THEN "seed" ELSE "held",
                        slot  |-> t, kv |-> slots[t].kv,
                        src   |-> src, srcKv |-> IF src = None THEN None ELSE slots[src].kv]]
          /\ UNCHANGED cold
    BY <2>1
  <2> DEFINE pc == IF HasCache \/ src # None THEN "seed" ELSE "held"
  <2>3. /\ pc \in {"seed", "held"} /\ (src # None => pc = "seed") /\ req[r].pc = "checkout"
        /\ req' = [req EXCEPT ![r] = [pc |-> pc, slot |-> t, kv |-> slots[t].kv, src |-> src,
                                      srcKv |-> IF src = None THEN None ELSE slots[src].kv]]
    BY <1>1, <2>2 DEF CheckoutText
  <2>4. /\ UNCHANGED <<cold, waiting, active, work>>
        /\ slots' = [s \in Slots |-> IF s = t \/ s = src THEN Reserved(s) ELSE slots[s]]
    BY <2>2
  <2> HIDE DEF pc
  <2> QED
    BY <2>3, <2>4, TakesKv
<1>2. CASE CheckoutImage(r)
  <2>1. PICK t \in Free :
          /\ slots' = [slots EXCEPT ![t] = Reserved(t)]
          /\ req' = [req EXCEPT ![r] =
                       [pc |-> "held", slot |-> t, kv |-> slots[t].kv, src |-> None, srcKv |-> None]]
          /\ UNCHANGED cold
    BY <1>2 DEF CheckoutImage
  <2>2. req[r].pc = "checkout" /\ t \in Slots /\ slots \in [Slots -> SlotType]
    BY <1>2 DEF CheckoutImage, Free, OwnInv, SeamInv, TypeOK
  <2>3. slots' = [s \in Slots |-> IF s = t \/ s = None THEN Reserved(s) ELSE slots[s]]
    BY <2>1, <2>2, PoolAssumption
  <2>4. req' = [req EXCEPT ![r] = [pc |-> "held", slot |-> t, kv |-> slots[t].kv, src |-> None,
                                   srcKv |-> IF None = None THEN None ELSE slots[None].kv]]
    BY <2>1
  <2>5. None \in (Free \ {t}) \cup {None} /\ "held" \in {"seed", "held"} /\ (None # None => "held" = "seed")
    OBVIOUS
  <2>6. UNCHANGED <<cold, waiting, active, work>>
    BY <2>1
  <2> QED
    BY <2>2, <2>3, <2>4, <2>5, <2>6, TakesKv
<1> QED
  BY <1>1, <1>2

\* A KV that goes back to its slot, with the notification that it is free.
LEMMA GoesBackKv ==
  ASSUME OwnInv, SeamInv', NEW r \in Requests, NEW x \in Slots, Has(r, x),
         NEW g \in GuardType(Pcs),
         NEW key, slots' = [slots EXCEPT ![x] = Returned(x, key)],
         NotifyFreed([req EXCEPT ![r] = g]),
         \A s \in Slots : (g.kv = s \/ g.srcKv = s \/ work'[r].kv = s) <=> Has(r, s) /\ s # x,
         \A q \in Requests \ {r} : work'[q] = work[q],
         Scheduled' \subseteq Scheduled, r \notin Scheduled',
         \/ g = [NoGuard EXCEPT !.pc = "done"]
         \/ g.pc = "held" /\ g.slot \in Slots /\ g.kv = g.slot /\ g.src = None /\ g.srcKv = None
  PROVE  OwnInv'
<1> DEFINE rq == [req EXCEPT ![r] = g]
<1>1. /\ req \in [Requests -> GuardType(Pcs)] /\ slots \in [Slots -> SlotType] /\ cold \in ColdType
      /\ "checkout" \in Pcs
  BY DEF OwnInv, SeamInv, TypeOK, Pcs, PoolPcs
<1>2. /\ rq \in [Requests -> GuardType(Pcs)] /\ rq[r] = g
      /\ \A q \in Requests \ {r} : rq[q] = req[q]
  BY <1>1
<1>3. NotifyFreed(rq)
  OBVIOUS
<1> HIDE DEF rq
<1>4. /\ \A q \in Requests :
           /\ req'[q].slot = rq[q].slot /\ req'[q].kv = rq[q].kv
           /\ req'[q].src = rq[q].src /\ req'[q].srcKv = rq[q].srcKv
           /\ \/ req'[q].pc = rq[q].pc
              \/ rq[q].pc = "asleep" /\ req'[q].pc = "checkout"
      /\ cold'.slot = cold.slot /\ cold'.kv = cold.kv
      /\ cold'.pc = "spill" <=> cold.pc = "spill"
  BY <1>1, <1>2, <1>3, NotifyMovesNothing
<1>5. /\ slots'[x].kv = x /\ ~slots'[x].busy
      /\ \A s \in Slots \ {x} : slots'[s] = slots[s]
  BY <1>1 DEF Returned
<1>6. /\ \A s \in Slots : Has(r, s)' <=> Has(r, s) /\ s # x
      /\ \A q \in Requests \ {r}, s \in Slots : Has(q, s)' <=> Has(q, s)
  <2>1. \A s \in Slots : Has(r, s)' <=> Has(r, s) /\ s # x
    BY <1>2, <1>4 DEF Has
  <2>2. \A q \in Requests \ {r}, s \in Slots : Has(q, s)' <=> Has(q, s)
    BY <1>2, <1>4 DEF Has
  <2> QED
    BY <2>1, <2>2
<1>7. SlotShape' /\ SeamExclusive'
  BY <1>4, <1>5, <1>6, LetGo
<1>8. SeamGuards'
  <2>1. \A q \in Requests \ {r} :
          /\ req'[q].slot = req[q].slot /\ req'[q].kv = req[q].kv
          /\ req'[q].src = req[q].src /\ req'[q].srcKv = req[q].srcKv
          /\ work'[q].slot = work[q].slot
          /\ req'[q].pc = req[q].pc \/ (req[q].pc = "asleep" /\ req'[q].pc = "checkout")
    BY <1>2, <1>4
  <2>2. \A q \in Requests \ {r} : SeamGuard(q)'
    BY <2>1, GuardsKept
  <2>3. SeamGuard(r)'
    BY <1>2, <1>4 DEF SeamGuard, Alive, Listening, NoGuard
  <2> QED
    BY <2>2, <2>3 DEF SeamGuards
<1>9. WorkKv'
  <2>1. \A q \in Scheduled' : q \in Requests \ {r} /\ q \in Scheduled
    BY ScheduledCalls DEF OwnInv, SeamInv
  <2> QED
    BY <2>1 DEF OwnInv, WorkKv
<1>10. ColdShape'
  BY <1>4 DEF OwnInv, ColdShape
<1> QED
  BY <1>7, <1>8, <1>9, <1>10 DEF OwnInv

\* The source of a copy goes back when the copy is done.
LEMMA SeededKv ==
  ASSUME OwnInv, SeamInv', NEW r \in Requests, Seeded(r), UNCHANGED <<waiting, active, work>>
  PROVE  OwnInv'
<1> DEFINE g == [req[r] EXCEPT !.pc = "held", !.src = None, !.srcKv = None]
<1>1. /\ req \in [Requests -> GuardType(Pcs)] /\ req[r].pc = "seed" /\ SeamGuard(r)
      /\ req[r].kv = req[r].slot /\ req[r].slot \in Slots /\ req[r].srcKv = req[r].src
  BY DEF OwnInv, SeamInv, TypeOK, Seeded, SeamGuards, SeamGuard
<1>2. [req EXCEPT ![r].pc = "held", ![r].src = None, ![r].srcKv = None] = [req EXCEPT ![r] = g]
  BY <1>1 DEF GuardType
<1>3. /\ g \in GuardType(Pcs) /\ g.pc = "held" /\ g.slot = req[r].slot /\ g.kv = req[r].kv
      /\ g.src = None /\ g.srcKv = None
  BY <1>1 DEF GuardType, OptKv, Pcs, PoolPcs
<1> HIDE DEF g
<1>4. work[r].kv = None /\ r \notin Scheduled /\ Scheduled' = Scheduled
  <2>1. work[r].kv = None
    BY <1>1, NoWorkYet DEF Listening
  <2> QED
    BY <1>1, <2>1 DEF OwnInv, SeamInv, Listeners, Alive, Listening, Scheduled, Queued
<1>5. CASE req[r].src = None
  <2>1. req' = [req EXCEPT ![r] = g] /\ UNCHANGED <<slots, cold>>
    BY <1>2, <1>5 DEF Seeded
  <2>2. req'[r] = g /\ \A q \in Requests \ {r} : req'[q] = req[q]
    BY <1>1, <2>1
  <2>3. \A q \in Requests, s \in Slots : Has(q, s)' <=> Has(q, s)
    BY <1>1, <1>3, <1>5, <2>2 DEF Has
  <2>4. SlotShape' /\ SeamExclusive'
    BY <2>1, <2>3, HoldersKept
  <2>5. SeamGuards'
    <3>1. \A q \in Requests \ {r} : SeamGuard(q)'
      BY <2>2, GuardsKept
    <3>2. SeamGuard(r)'
      BY <1>1, <1>3, <2>2 DEF SeamGuard, Alive, Listening
    <3> QED
      BY <3>1, <3>2 DEF SeamGuards
  <2>6. WorkKv' /\ ColdShape'
    BY <1>4, <2>1 DEF OwnInv, WorkKv, ColdShape
  <2> QED
    BY <2>4, <2>5, <2>6 DEF OwnInv
<1>6. CASE req[r].src # None
  <2> DEFINE x == req[r].src
  <2>1. x \in Slots /\ x # req[r].kv /\ Has(r, x)
    BY <1>1, <1>6 DEF GuardType, OptKv, SeamGuard, Has
  <2>2. /\ slots' = [slots EXCEPT ![x] = Returned(x, slots[x].key)]
        /\ NotifyFreed([req EXCEPT ![r] = g])
    BY <1>1, <1>2, <1>6 DEF Seeded
  <2>3. \A s \in Slots : (g.kv = s \/ g.srcKv = s \/ work'[r].kv = s) <=> Has(r, s) /\ s # x
    BY <1>1, <1>3, <1>4, <2>1, PoolAssumption DEF Has
  <2> HIDE DEF x
  <2> QED
    BY <1>1, <1>3, <1>4, <2>1, <2>2, <2>3, GoesBackKv
<1> QED
  BY <1>5, <1>6

\* A guard's drop puts its KV back.
LEMMA ReleaseKv ==
  ASSUME OwnInv, SeamInv', NEW r \in Requests, Release(r), UNCHANGED <<waiting, active, work>>
  PROVE  OwnInv'
<1> DEFINE g == [NoGuard EXCEPT !.pc = "done"]
           x == req[r].slot
<1>1. /\ req[r].pc = "release" /\ req[r].kv = x /\ x \in Slots
      /\ req[r].srcKv = None
  BY DEF OwnInv, Release, SeamGuards, SeamGuard
<1>2. /\ slots' = [slots EXCEPT ![x] = Returned(x, KeyOf[r])]
      /\ NotifyFreed([req EXCEPT ![r] = g])
  BY <1>1 DEF Release
<1>3. g \in GuardType(Pcs) /\ g.kv = None /\ g.srcKv = None
  BY DEF GuardType, OptKv, Pcs, PoolPcs, NoGuard
<1>4. work[r].kv = None /\ r \notin Scheduled /\ Scheduled' = Scheduled
  <2>1. work[r].kv = None
    BY <1>1, NoWorkYet DEF Listening
  <2> QED
    BY <1>1, <2>1 DEF OwnInv, SeamInv, Listeners, Alive, Listening, Scheduled, Queued
<1>5. Has(r, x) /\ \A s \in Slots : (g.kv = s \/ g.srcKv = s \/ work'[r].kv = s) <=> Has(r, s) /\ s # x
  BY <1>1, <1>3, <1>4, PoolAssumption DEF Has
<1> HIDE DEF x
<1> QED
  BY <1>1, <1>2, <1>3, <1>4, <1>5, GoesBackKv

\* Enqueueing moves the KV from the guard to the work; the guard keeps the slot.
LEMMA EnqueueKv ==
  ASSUME OwnInv, SeamInv', NEW r \in Requests, Enqueue(r)
  PROVE  OwnInv'
<1>1. /\ req[r].pc \in {"held", "handoff"}
      /\ req' = [req EXCEPT ![r].pc = "wait", ![r].kv = None]
      /\ work' = [work EXCEPT ![r] = [NoWork EXCEPT !.kv = req[r].kv, !.slot = req[r].slot,
                                                    !.prepared = IsImage(r)]]
      /\ waiting' = Append(waiting, r) /\ UNCHANGED <<slots, cold, active>>
  BY DEF Enqueue
<1>2. /\ req \in [Requests -> GuardType(Pcs)] /\ work \in [Requests -> WorkType]
      /\ waiting \in Seq(Requests)
  BY DEF OwnInv, SeamInv, TypeOK
<1>3. SeamGuard(r) /\ req[r].slot \in Slots /\ req[r].kv = req[r].slot /\ req[r].src = None /\ req[r].srcKv = None
  BY <1>1 DEF OwnInv, SeamGuards, SeamGuard
<1>4. /\ req'[r].pc = "wait" /\ req'[r].kv = None /\ req'[r].slot = req[r].slot
      /\ req'[r].src = None /\ req'[r].srcKv = None
      /\ \A q \in Requests \ {r} : req'[q] = req[q]
  BY <1>1, <1>2, <1>3 DEF GuardType
<1>5. /\ work'[r].kv = req[r].kv /\ work'[r].slot = req[r].slot
      /\ \A q \in Requests \ {r} : work'[q] = work[q]
  BY <1>1, <1>2 DEF NoWork
<1>6. work[r].kv = None
  BY <1>1, NoWorkYet DEF Listening
<1>7. Scheduled' = Scheduled \cup {r}
  <2>1. Queued' = Queued \cup {r}
    BY <1>1, <1>2, Appended
  <2> QED
    BY <1>1, <2>1 DEF Scheduled
<1>8. \A q \in Requests, s \in Slots : Has(q, s)' <=> Has(q, s)
  BY <1>3, <1>4, <1>5, <1>6, PoolAssumption DEF Has
<1>9. SlotShape' /\ SeamExclusive'
  BY <1>1, <1>8, HoldersKept
<1>10. SeamGuards'
  <2>1. \A q \in Requests \ {r} : SeamGuard(q)'
    BY <1>4, <1>5, GuardsKept
  <2>2. SeamGuard(r)'
    BY <1>3, <1>4, <1>5 DEF SeamGuard, Alive, Listening
  <2> QED
    BY <2>1, <2>2 DEF SeamGuards
<1>11. WorkKv' /\ ColdShape'
  <2>1. \A q \in Scheduled' : q = r \/ (q \in Scheduled /\ q \in Requests \ {r})
    BY <1>7, ScheduledCalls DEF OwnInv, SeamInv
  <2> QED
    BY <1>1, <1>3, <1>5, <2>1 DEF OwnInv, WorkKv, ColdShape
<1> QED
  BY <1>9, <1>10, <1>11 DEF OwnInv

\* A callback that panics leaves its KV with the work.
LEMMA StreamedKv ==
  ASSUME OwnInv, SeamInv', NEW r \in Requests, Streamed(r)
  PROVE  OwnInv'
<1>1. PICK pc \in {"keep", "stop", "done"} :
        /\ req[r].pc = "token"
        /\ req' = [req EXCEPT ![r] = IF pc = "done" THEN [NoGuard EXCEPT !.pc = "done"]
                                                    ELSE [req[r] EXCEPT !.pc = pc]]
        /\ UNCHANGED <<slots, content, cold, queueVars, schedVars, work>>
  BY DEF Streamed
<1>2. req \in [Requests -> GuardType(Pcs)] /\ SeamGuard(r)
  BY DEF OwnInv, SeamInv, TypeOK, SeamGuards
<1>3. Scheduled' = Scheduled /\ ColdShape' /\ UNCHANGED <<slots, cold, work>>
  BY <1>1 DEF Scheduled, Queued, queueVars, schedVars, OwnInv, ColdShape
<1>4. CASE pc \in {"keep", "stop"}
  <2>1. \A q \in Requests :
          /\ req'[q].slot = req[q].slot /\ req'[q].kv = req[q].kv
          /\ req'[q].src = req[q].src /\ req'[q].srcKv = req[q].srcKv
          /\ req'[q].pc = IF q = r THEN pc ELSE req[q].pc
    BY <1>1, <1>2, <1>4 DEF GuardType
  <2> QED
    BY <1>1, <1>3, <1>4, <2>1, NothingMoves DEF Listening
<1>5. CASE pc = "done"
  <2>1. /\ req'[r] = [NoGuard EXCEPT !.pc = "done"]
        /\ \A q \in Requests \ {r} : req'[q] = req[q]
    BY <1>1, <1>2, <1>5
  <2>2. \A q \in Requests, s \in Slots : Has(q, s)' <=> Has(q, s)
    BY <1>1, <1>2, <1>3, <2>1, PoolAssumption DEF Has, NoGuard, SeamGuard
  <2>3. SlotShape' /\ SeamExclusive'
    BY <1>3, <2>2, HoldersKept
  <2>4. SeamGuards'
    <3>1. \A q \in Requests \ {r} : SeamGuard(q)'
      BY <1>3, <2>1, GuardsKept
    <3>2. SeamGuard(r)'
      BY <2>1 DEF SeamGuard, NoGuard, Alive, Listening
    <3> QED
      BY <3>1, <3>2 DEF SeamGuards
  <2>5. WorkKv'
    BY <1>3 DEF OwnInv, WorkKv
  <2> QED
    BY <1>3, <2>3, <2>4, <2>5 DEF OwnInv
<1> QED
  BY <1>1, <1>4, <1>5

\* A work that leaves the cohort gives its KV to the guard of its call, or, when the call has
\* unwound, to its slot: it is never dropped.
LEMMA GiveBackKv ==
  ASSUME OwnInv, SeamInv', NEW r \in active, GiveBack(r), UNCHANGED waiting
  PROVE  OwnInv'
<1> DEFINE x == work[r].kv
<1>1. /\ req \in [Requests -> GuardType(Pcs)] /\ work \in [Requests -> WorkType]
      /\ slots \in [Slots -> SlotType] /\ r \in Requests /\ r \in Scheduled /\ r \notin Queued
  BY DEF OwnInv, SeamInv, TypeOK, QueueShape, Scheduled
<1>2. x \in Slots /\ work[r].slot = x /\ SeamGuard(r)
  BY <1>1 DEF OwnInv, WorkKv, SeamGuards
<1>3. slots[x].busy /\ slots[x].kv = None
  <2>1. slots[x].busy
    BY <1>1, <1>2 DEF OwnInv, SeamExclusive, Has
  <2> QED
    BY <1>2, <2>1 DEF OwnInv, SlotShape
<1>4. work' = [work EXCEPT ![r] = NoWork] /\ active' = active \ {r}
  BY DEF GiveBack
<1>5. work'[r].kv = None /\ \A q \in Requests \ {r} : work'[q] = work[q]
  BY <1>1, <1>4 DEF NoWork
<1>6. Scheduled' = Scheduled \ {r}
  BY <1>1, <1>4 DEF Scheduled, Queued
<1>7. CASE /\ req[r].pc = "wait"
           /\ req' = [req EXCEPT ![r].pc = "release", ![r].kv = work[r].kv]
           /\ UNCHANGED <<slots, cold>>
  <2>1. /\ req'[r].pc = "release" /\ req'[r].kv = x /\ req'[r].slot = req[r].slot
        /\ req'[r].src = req[r].src /\ req'[r].srcKv = req[r].srcKv
        /\ \A q \in Requests \ {r} : req'[q] = req[q]
    BY <1>1, <1>7 DEF GuardType
  <2>2. req[r].kv = None /\ req[r].slot = x /\ req[r].src = None /\ req[r].srcKv = None
    BY <1>2, <1>7 DEF SeamGuard, Alive, Listening
  <2>3. \A q \in Requests, s \in Slots : Has(q, s)' <=> Has(q, s)
    BY <1>5, <2>1, <2>2, PoolAssumption DEF Has
  <2>4. SlotShape' /\ SeamExclusive'
    BY <1>7, <2>3, HoldersKept
  <2>5. SeamGuards'
    <3>1. \A q \in Requests \ {r} : SeamGuard(q)'
      BY <1>5, <2>1, GuardsKept
    <3>2. SeamGuard(r)'
      BY <1>2, <2>1, <2>2 DEF SeamGuard, Alive, Listening
    <3> QED
      BY <3>1, <3>2 DEF SeamGuards
  <2>6. WorkKv' /\ ColdShape'
    <3>1. \A q \in Scheduled' : q \in Scheduled /\ q \in Requests \ {r}
      BY <1>6, ScheduledCalls DEF OwnInv, SeamInv
    <3> QED
      BY <1>5, <1>7, <3>1 DEF OwnInv, WorkKv, ColdShape
  <2> QED
    BY <2>4, <2>5, <2>6 DEF OwnInv
<1>8. CASE /\ ~Alive(r)
           /\ slots' = [slots EXCEPT ![work[r].slot] = Returned(work[r].kv, NoKey)]
           /\ NotifyFreed(req)
  <2> DEFINE g == [NoGuard EXCEPT !.pc = "done"]
  <2>1. req[r].pc = "done"
    BY <1>1, <1>8 DEF OwnInv, SeamInv, Listeners
  <2>2. req[r].slot = None /\ req[r].kv = None /\ req[r].src = None /\ req[r].srcKv = None
    BY <1>2, <2>1 DEF SeamGuard, Listening
  <2>3. g \in GuardType(Pcs) /\ g.kv = None /\ g.srcKv = None
    BY DEF GuardType, OptKv, Pcs, PoolPcs, NoGuard
  <2>4. req[r] = g
    <3>1. req[r] \in GuardType(Pcs)
      BY <1>1
    <3>2. /\ g.pc = "done" /\ g.slot = None /\ g.src = None
      BY DEF NoGuard
    <3> HIDE DEF g
    <3> QED
      BY <2>1, <2>2, <2>3, <3>1, <3>2 DEF GuardType
  <2>5. NotifyFreed([req EXCEPT ![r] = g])
    <3>1. [req EXCEPT ![r] = g] = req
      BY <1>1, <2>4
    <3> QED
      BY <1>8, <3>1
  <2>6. Has(r, x)
    BY DEF Has
  <2>7. slots' = [slots EXCEPT ![x] = Returned(x, NoKey)]
    BY <1>2, <1>8
  <2>8. \A s \in Slots : (g.kv = s \/ g.srcKv = s \/ work'[r].kv = s) <=> Has(r, s) /\ s # x
    BY <1>5, <2>2, <2>3, PoolAssumption DEF Has
  <2> HIDE DEF x
  <2> QED
    BY <1>1, <1>2, <1>5, <1>6, <2>3, <2>5, <2>6, <2>7, <2>8, GoesBackKv
<1> QED
  BY <1>2, <1>3, <1>7, <1>8 DEF GiveBack

\* The cold worker takes an idle slot's KV and puts it back.
LEMMA ColdKv ==
  ASSUME OwnInv, SeamInv', Cold
  PROVE  OwnInv'
<1>1. /\ UNCHANGED <<waiting, active, work>> /\ Scheduled' = Scheduled
      /\ req \in [Requests -> GuardType(Pcs)] /\ slots \in [Slots -> SlotType] /\ cold \in ColdType
  BY DEF Cold, queueVars, schedVars, Scheduled, Queued, OwnInv, SeamInv, TypeOK
<1>2. CASE ColdReserve
  <2>1. PICK x \in Slots :
          /\ Spillable(x)
          /\ cold' = [pc |-> "spill", slot |-> x, kv |-> slots[x].kv]
          /\ slots' = [slots EXCEPT ![x].busy = TRUE, ![x].idle = FALSE, ![x].kv = None]
    BY <1>2 DEF ColdReserve
  <2>2. cold.pc = "scan" /\ req' = req /\ cold.kv = None /\ ~slots[x].busy /\ slots[x].kv = x
    <3>1. cold.pc = "scan" /\ req' = req /\ ~slots[x].busy
      BY <1>2, <2>1 DEF ColdReserve, Spillable
    <3> QED
      BY <3>1 DEF OwnInv, ColdShape, SlotShape
  <2>3. slots'[x].busy /\ slots'[x].kv = None /\ \A s \in Slots \ {x} : slots'[s] = slots[s]
    BY <1>1, <2>1 DEF SlotType
  <2>4. cold'.kv = x /\ ColdShape'
    BY <2>1, <2>2, PoolAssumption DEF ColdShape
  <2>5. \A q \in Requests, s \in Slots : Has(q, s)' <=> Has(q, s)
    BY <1>1, <2>2 DEF Has
  <2>6. SlotShape'
    BY <2>3 DEF OwnInv, SlotShape
  <2>7. SeamExclusive'
    <3> SUFFICES ASSUME NEW s \in Slots
                 PROVE  /\ slots'[s].busy <=> cold'.kv = s \/ \E p \in Requests : Has(p, s)'
                        /\ \A p \in Requests : Has(p, s)' =>
                             cold'.kv # s /\ \A q \in Requests : Has(q, s)' => q = p
      BY DEF SeamExclusive
    <3>1. /\ slots[s].busy <=> cold.kv = s \/ \E p \in Requests : Has(p, s)
          /\ \A p \in Requests : Has(p, s) => cold.kv # s /\ \A q \in Requests : Has(q, s) => q = p
      BY DEF OwnInv, SeamExclusive
    <3>2. CASE s = x
      BY <2>2, <2>3, <2>4, <2>5, <3>1, <3>2
    <3>3. CASE s # x
      BY <2>2, <2>3, <2>4, <2>5, <3>1, <3>3, PoolAssumption
    <3> QED
      BY <3>2, <3>3
  <2>8. SeamGuards'
    <3>1. \A q \in Requests \ {} : SeamGuard(q)'
      BY <1>1, <2>2, GuardsKept
    <3> QED
      BY <3>1 DEF SeamGuards
  <2>9. WorkKv'
    BY <1>1 DEF OwnInv, WorkKv
  <2> QED
    BY <2>4, <2>6, <2>7, <2>8, <2>9 DEF OwnInv
<1>3. CASE ColdSleep
  <2>1. UNCHANGED <<slots, req>> /\ cold'.kv = cold.kv /\ ColdShape'
    <3>1. /\ cold.pc = "scan" /\ cold' = [cold EXCEPT !.pc = "asleep"] /\ UNCHANGED <<slots, req>>
      BY <1>3 DEF ColdSleep
    <3>2. cold'.pc = "asleep" /\ cold'.kv = cold.kv /\ cold'.slot = cold.slot
      BY <1>1, <3>1 DEF ColdType
    <3> QED
      BY <3>1, <3>2 DEF OwnInv, ColdShape
  <2> QED
    BY <1>1, <2>1, NothingMoves
<1>4. CASE ColdReturn
  <2> DEFINE x == cold.slot
  <2>1. cold.pc = "spill" /\ x \in Slots /\ cold.kv = x
    BY <1>1, <1>4 DEF ColdReturn, OwnInv, ColdShape, ColdType, OptKv
  <2>2. /\ slots'[x].kv = x /\ ~slots'[x].busy
        /\ \A s \in Slots \ {x} : slots'[s] = slots[s]
    <3>1. slots' = [slots EXCEPT ![x].kv = cold.kv, ![x].busy = FALSE, ![x].idle = TRUE]
      BY <1>4 DEF ColdReturn
    <3> HIDE DEF x
    <3> QED
      BY <1>1, <2>1, <3>1 DEF SlotType
  <2>3. cold'.kv = None /\ ColdShape'
    BY <1>4 DEF ColdReturn, ColdShape
  <2>4. \A q \in Requests :
          /\ req'[q].slot = req[q].slot /\ req'[q].kv = req[q].kv
          /\ req'[q].src = req[q].src /\ req'[q].srcKv = req[q].srcKv
          /\ req'[q].pc = req[q].pc \/ (req[q].pc = "asleep" /\ req'[q].pc = "checkout")
    <3>1. req' = [q \in Requests |-> IF q \in Sleepers THEN [req[q] EXCEPT !.pc = "checkout"]
                                                      ELSE req[q]]
      BY <1>4 DEF ColdReturn
    <3> QED
      BY <1>1, <3>1 DEF GuardType, Sleepers
  <2>5. \A q \in Requests, s \in Slots : Has(q, s)' <=> Has(q, s)
    BY <1>1, <2>4 DEF Has
  <2> HIDE DEF x
  <2>6. SlotShape'
    BY <2>2 DEF OwnInv, SlotShape
  <2>7. SeamExclusive'
    <3> SUFFICES ASSUME NEW s \in Slots
                 PROVE  /\ slots'[s].busy <=> cold'.kv = s \/ \E p \in Requests : Has(p, s)'
                        /\ \A p \in Requests : Has(p, s)' =>
                             cold'.kv # s /\ \A q \in Requests : Has(q, s)' => q = p
      BY DEF SeamExclusive
    <3>1. /\ slots[s].busy <=> cold.kv = s \/ \E p \in Requests : Has(p, s)
          /\ \A p \in Requests : Has(p, s) => cold.kv # s /\ \A q \in Requests : Has(q, s) => q = p
      BY DEF OwnInv, SeamExclusive
    <3>2. CASE s = x
      BY <2>1, <2>2, <2>3, <2>5, <3>1, <3>2, PoolAssumption
    <3>3. CASE s # x
      BY <2>1, <2>2, <2>3, <2>5, <3>1, <3>3, PoolAssumption
    <3> QED
      BY <3>2, <3>3
  <2>8. SeamGuards'
    <3>1. \A q \in Requests \ {} : SeamGuard(q)'
      BY <1>1, <2>4, GuardsKept
    <3> QED
      BY <3>1 DEF SeamGuards
  <2>9. WorkKv'
    BY <1>1 DEF OwnInv, WorkKv
  <2> QED
    BY <2>3, <2>6, <2>7, <2>8, <2>9 DEF OwnInv
<1> QED
  BY <1>2, <1>3, <1>4 DEF Cold, ColdNext

\* Admission schedules the calls it finds scheduled.
LEMMA AdmitsScheduled ==
  ASSUME SeamInv, SchedGathered \/ SchedDrain \/ SchedRefill \/ SchedCoalesce \/ CloseQueue
  PROVE  Scheduled' = Scheduled /\ UNCHANGED <<poolVars, work>>
<1>1. waiting \in Seq(Requests) /\ active \in SUBSET Requests /\ IsFiniteSet(active)
  BY DEF SeamInv, TypeOK, QueueShape
<1>2. Len(waiting) \in Nat /\ MaxBatch \in Nat
  BY <1>1, LenProperties, SeamAssumption
<1>3. sched.pc # "closed" => Capacity \in Nat
  <2>1. Cardinality(active) \in Nat
    BY <1>1, FS_CardinalityType
  <2>2. sched.pc # "closed" => Cardinality(active) <= MaxBatch
    BY DEF SeamInv, CohortBounded
  <2> QED
    BY <1>2, <2>1, <2>2 DEF Capacity
<1>4. \A n \in Nat : Admit(n) => Scheduled' = Scheduled
  BY <1>1, Admitted DEF Scheduled
<1>5. CASE SchedGathered \/ SchedRefill
  BY <1>2, <1>4, <1>5 DEF SchedGathered, SchedRefill
<1>6. CASE SchedDrain
  BY <1>3, <1>4, <1>6 DEF SchedDrain, At
<1>7. CASE SchedCoalesce
  <2>1. CASE Capacity = 0
    <3>1. UNCHANGED <<active, waiting, poolVars, work>>
      BY <1>7, <2>1 DEF SchedCoalesce
    <3> QED
      BY <3>1 DEF Scheduled, Queued
  <2>2. CASE Capacity # 0
    BY <1>3, <1>4, <1>7, <2>2 DEF SchedCoalesce, At
  <2> QED
    BY <2>1, <2>2
<1>8. CASE CloseQueue
  BY <1>2, <1>4, <1>8 DEF CloseQueue
<1> QED
  BY <1>5, <1>6, <1>7, <1>8

\* Compute leaves every work its KV, and only a forward step spends a budget.
LEMMA ComputesKv ==
  ASSUME SeamInv, SchedPrepare \/ SchedLong \/ SchedGroup \/ SchedStep \/ SchedAccount
  PROVE  /\ UNCHANGED <<slots, req, cold, waiting, active>>
         /\ \A q \in Requests : /\ work'[q].kv = work[q].kv /\ work'[q].slot = work[q].slot
                                /\ SchedStep \/ work'[q].gen = work[q].gen
<1>1. work \in [Requests -> WorkType]
  BY DEF SeamInv, TypeOK
<1>2. UNCHANGED <<slots, req, cold, waiting, active>>
  BY DEF SchedPrepare, SchedLong, SchedGroup, SchedStep, SchedAccount, queueVars, poolVars
<1>3. ASSUME NEW q \in Requests
      PROVE  /\ work'[q].kv = work[q].kv /\ work'[q].slot = work[q].slot
             /\ SchedStep \/ work'[q].gen = work[q].gen
  <2>0. work[q] \in WorkType
    BY <1>1
  <2>1. CASE SchedPrepare
    <3>1. \E rest : work'[q] \in {work[q], [work[q] EXCEPT !.prepared = TRUE, !.rest = rest]}
      BY <2>1 DEF SchedPrepare
    <3> QED
      BY <2>0, <3>1 DEF WorkType
  <2>2. CASE SchedLong
    <3>1. PICK lanes \in SUBSET {r \in active : Long(r)} : \E rows \in [lanes -> 0..ShortRows] :
            work' = [r \in Requests |-> IF r \in lanes
                       THEN [work[r] EXCEPT !.rest = rows[r],
                                            !.finished = work[r].finished \/ ~Alive(r)]
                       ELSE work[r]]
      BY <2>2 DEF SchedLong
    <3>2. PICK rows \in [lanes -> 0..ShortRows] :
            work' = [r \in Requests |-> IF r \in lanes
                       THEN [work[r] EXCEPT !.rest = rows[r],
                                            !.finished = work[r].finished \/ ~Alive(r)]
                       ELSE work[r]]
      BY <3>1
    <3>3. CASE q \in lanes
      <4>1. work'[q] = [work[q] EXCEPT !.rest = rows[q], !.finished = work[q].finished \/ ~Alive(q)]
        BY <3>2, <3>3
      <4> QED
        BY <2>0, <4>1 DEF WorkType
    <3>4. CASE q \notin lanes
      BY <3>2, <3>4
    <3> QED
      BY <3>3, <3>4
  <2>3. CASE SchedGroup
    <3>1. work'[q] = [work[q] EXCEPT !.accepted = TRUE, !.eos = FALSE]
      BY <2>3 DEF SchedGroup
    <3> QED
      BY <2>0, <3>1 DEF WorkType
  <2>4. CASE SchedStep
    <3> DEFINE sampling == {r \in sched.group.lanes : Decode(r)}
    <3>1. PICK eos \in SUBSET sampling :
            work' = [r \in Requests |->
                       IF r \in sampling
                       THEN [work[r] EXCEPT !.gen = work[r].gen + 1, !.eos = r \in eos]
                       ELSE IF r \in sched.group.lanes
                       THEN [work[r] EXCEPT !.rest = work[r].rest - 1]
                       ELSE work[r]]
      BY <2>4 DEF SchedStep
    <3> HIDE DEF sampling
    <3>2. \/ work'[q] = [work[q] EXCEPT !.gen = work[q].gen + 1, !.eos = q \in eos]
          \/ work'[q] = [work[q] EXCEPT !.rest = work[q].rest - 1]
          \/ work'[q] = work[q]
      BY <3>1
    <3> QED
      BY <2>0, <2>4, <3>2 DEF WorkType
  <2>5. CASE SchedAccount
    <3>1. \E rest, finished :
            work'[q] \in {work[q], [work[q] EXCEPT !.rest = rest, !.finished = finished]}
      BY <2>5 DEF SchedAccount, Account
    <3> QED
      BY <2>0, <3>1 DEF WorkType
  <2> QED
    BY <2>1, <2>2, <2>3, <2>4, <2>5
<1> QED
  BY <1>2, <1>3

\* The exchange of tokens leaves both alone.
LEMMA ExchangesKv ==
  ASSUME SeamInv, NEW r \in Requests, SendToken(r) \/ ReceiveAck(r)
  PROVE  /\ UNCHANGED <<slots, cold, waiting, active>>
         /\ \A q \in Requests :
              /\ work'[q].kv = work[q].kv /\ work'[q].slot = work[q].slot
              /\ work'[q].gen = work[q].gen
              /\ req'[q].slot = req[q].slot /\ req'[q].kv = req[q].kv
              /\ req'[q].src = req[q].src /\ req'[q].srcKv = req[q].srcKv
              /\ \/ req'[q].pc = req[q].pc
                 \/ req[q].pc \in Listening /\ req'[q].pc \in Listening
<1>1. work \in [Requests -> WorkType] /\ req \in [Requests -> GuardType(Pcs)]
  BY DEF SeamInv, TypeOK
<1>2. UNCHANGED <<slots, cold, waiting, active>>
  BY DEF SendToken, ReceiveAck, queueVars
<1>3. work' = work \/ \E accepted : work' = [work EXCEPT ![r].accepted = accepted]
  BY DEF SendToken, ReceiveAck
<1>4. \A q \in Requests : /\ work'[q].kv = work[q].kv /\ work'[q].slot = work[q].slot
                          /\ work'[q].gen = work[q].gen
  BY <1>1, <1>3 DEF WorkType
<1>5. \/ req' = req
      \/ req[r].pc \in Listening /\ \E pc \in Listening : req' = [req EXCEPT ![r].pc = pc]
  BY DEF SendToken, ReceiveAck, Listening
<1>6. \A q \in Requests :
        /\ req'[q].slot = req[q].slot /\ req'[q].kv = req[q].kv
        /\ req'[q].src = req[q].src /\ req'[q].srcKv = req[q].srcKv
        /\ \/ req'[q].pc = req[q].pc
           \/ req[q].pc \in Listening /\ req'[q].pc \in Listening
  BY <1>1, <1>5 DEF GuardType
<1> QED
  BY <1>2, <1>4, <1>6

\* The scheduler moves a KV only by giving it back.
LEMMA SchedKv ==
  ASSUME OwnInv, SeamInv', SchedNext
  PROVE  OwnInv'
<1>1. SeamInv /\ ColdShape
  BY DEF OwnInv
<1>2. ASSUME UNCHANGED <<slots, cold>>, Scheduled' = Scheduled,
             \A q \in Requests :
               /\ work'[q].kv = work[q].kv /\ work'[q].slot = work[q].slot
               /\ req'[q].slot = req[q].slot /\ req'[q].kv = req[q].kv
               /\ req'[q].src = req[q].src /\ req'[q].srcKv = req[q].srcKv
               /\ \/ req'[q].pc = req[q].pc
                  \/ req[q].pc \in Listening /\ req'[q].pc \in Listening
      PROVE  OwnInv'
  <2>1. ColdShape'
    BY <1>1, <1>2 DEF ColdShape
  <2> QED
    BY <1>2, <2>1, NothingMoves
<1>3. CASE SchedWait \/ SchedPoll \/ SchedYield \/ SchedDelivered \/ Retired \/ ComputeError \/ Closed
  <2>1. UNCHANGED <<slots, req, cold, waiting, active, work>>
    BY <1>3 DEF SchedWait, SchedPoll, SchedYield, SchedDelivered, Retired, ComputeError, Closed,
                poolVars, queueVars
  <2>2. Scheduled' = Scheduled
    BY <2>1 DEF Scheduled, Queued
  <2> QED
    BY <1>2, <2>1, <2>2
<1>4. CASE SchedGathered \/ SchedDrain \/ SchedRefill \/ SchedCoalesce \/ CloseQueue
  <2>1. Scheduled' = Scheduled /\ UNCHANGED <<slots, req, cold, work>>
    BY <1>1, <1>4, AdmitsScheduled DEF poolVars
  <2> QED
    BY <1>2, <2>1
<1>5. CASE SchedPrepare \/ SchedLong \/ SchedGroup \/ SchedStep \/ SchedAccount
  <2>1. /\ UNCHANGED <<slots, req, cold, waiting, active>>
        /\ \A q \in Requests : work'[q].kv = work[q].kv /\ work'[q].slot = work[q].slot
    BY <1>1, <1>5, ComputesKv
  <2>2. Scheduled' = Scheduled
    BY <2>1 DEF Scheduled, Queued
  <2> QED
    BY <1>2, <2>1, <2>2
<1>6. ASSUME NEW r \in Requests, SendToken(r) \/ ReceiveAck(r) PROVE OwnInv'
  <2>1. /\ UNCHANGED <<slots, cold, waiting, active>>
        /\ \A q \in Requests :
             /\ work'[q].kv = work[q].kv /\ work'[q].slot = work[q].slot
             /\ req'[q].slot = req[q].slot /\ req'[q].kv = req[q].kv
             /\ req'[q].src = req[q].src /\ req'[q].srcKv = req[q].srcKv
             /\ \/ req'[q].pc = req[q].pc
                \/ req[q].pc \in Listening /\ req'[q].pc \in Listening
    BY <1>1, <1>6, ExchangesKv
  <2>2. Scheduled' = Scheduled
    BY <2>1 DEF Scheduled, Queued
  <2> QED
    BY <1>2, <2>1, <2>2
<1>7. ASSUME NEW r \in Requests, Retire(r) \/ Fail(r) PROVE OwnInv'
  <2>1. r \in active /\ GiveBack(r) /\ UNCHANGED waiting
    BY <1>7 DEF Retire, Fail, queueVars
  <2> QED
    BY <2>1, GiveBackKv
<1> QED
  BY <1>3, <1>4, <1>5, <1>6, <1>7 DEF SchedNext

\* The engine starts with every KV in its slot.
LEMMA OwnInit == Init => OwnInv
<1> SUFFICES ASSUME Init PROVE OwnInv
  OBVIOUS
<1> USE PoolAssumption DEF Init, PoolInit, NoGuard
<1>1. SeamInv
  BY SeamInit
<1>2. Scheduled = {} /\ \A r \in Requests : work[r].kv = None
  BY DEF Scheduled, Queued, NoWork
<1>3. SeamGuards /\ WorkKv /\ ColdShape /\ SlotShape
  BY <1>2 DEF SeamGuards, SeamGuard, WorkKv, ColdShape, SlotShape, Alive, Listening
<1>4. SeamExclusive
  BY <1>2 DEF SeamExclusive, Has
<1> QED
  BY <1>1, <1>3, <1>4 DEF OwnInv

\* Every step keeps the holders of the KVs apart.
LEMMA OwnStep == OwnInv /\ [Next]_vars => OwnInv'
<1> SUFFICES ASSUME OwnInv, [Next]_vars PROVE OwnInv'
  OBVIOUS
<1>1. SeamInv'
  BY SeamStep DEF OwnInv
<1>2. ASSUME NEW r \in Requests, Thread(r) PROVE OwnInv'
  <2>1. CASE Register(r) \/ Encoded(r) \/ Enter(r)
    <3>1. UNCHANGED <<waiting, active, work>>
      BY <2>1 DEF Register, Encoded, Enter, queueVars, schedVars
    <3> QED
      BY <1>1, <2>1, <3>1, AsideKv
  <2>2. CASE Lease(r)
    <3>1. UNCHANGED <<waiting, active, work>>
      BY <2>2 DEF Lease, queueVars, schedVars
    <3>2. ASSUME RunLegacy(r, IF IsImage(r) THEN {"handoff", "release"} ELSE {"release"})
          PROVE  \E next \in SUBSET {"handoff", "release"} : RunLegacy(r, next)
      <4>1. (IF IsImage(r) THEN {"handoff", "release"} ELSE {"release"}) \in SUBSET {"handoff", "release"}
        OBVIOUS
      <4> QED
        BY <3>2, <4>1
    <3> QED
      BY <1>1, <2>2, <3>1, <3>2, AsideKv, CheckoutKv, SeededKv, ReleaseKv DEF Lease
  <2> QED
    BY <1>1, <1>2, <2>1, <2>2, EnqueueKv, StreamedKv DEF Thread
<1>3. CASE UNCHANGED vars
  <2>1. UNCHANGED <<slots, req, cold, waiting, active, work>>
    BY <1>3 DEF vars, poolVars, queueVars, schedVars
  <2>2. Scheduled' = Scheduled /\ ColdShape'
    BY <2>1 DEF Scheduled, Queued, OwnInv, ColdShape
  <2> QED
    BY <1>1, <2>1, <2>2, NothingMoves
<1> QED
  BY <1>1, <1>2, <1>3, SchedKv, ColdKv DEF Next, Quiet

\* The holders of a KV, as SeamSoleOwner lists them, are at most one when no two calls have it.
LEMMA OneSeamHolder ==
  ASSUME OwnInv, NEW s \in Slots
  PROVE  IF slots[s].busy THEN \E h \in AllHoldersOf(s) : AllHoldersOf(s) = {h}
                          ELSE AllHoldersOf(s) = {}
<1>1. /\ slots[s].busy <=> cold.kv = s \/ \E r \in Requests : Has(r, s)
      /\ \A r \in Requests : Has(r, s) => cold.kv # s /\ \A q \in Requests : Has(q, s) => q = r
  BY DEF OwnInv, SeamExclusive
<1>2. /\ \A r \in Requests : /\ <<"guard", r>> \in AllHoldersOf(s) <=> req[r].kv = s
                             /\ <<"source", r>> \in AllHoldersOf(s) <=> req[r].srcKv = s
                             /\ <<"work", r>> \in AllHoldersOf(s) <=> work[r].kv = s
      /\ <<"cold", None>> \in AllHoldersOf(s) <=> cold.kv = s
      /\ \A h \in AllHoldersOf(s) :
           \/ cold.kv = s /\ h = <<"cold", None>>
           \/ \E r \in Requests : \/ req[r].kv = s /\ h = <<"guard", r>>
                                  \/ req[r].srcKv = s /\ h = <<"source", r>>
                                  \/ work[r].kv = s /\ h = <<"work", r>>
  BY DEF AllHoldersOf, HoldersOf
<1>3. ASSUME NEW r \in Requests, Has(r, s)
      PROVE  \/ req[r].kv = s /\ req[r].srcKv # s /\ work[r].kv # s
             \/ req[r].kv # s /\ req[r].srcKv = s /\ work[r].kv # s
             \/ req[r].kv # s /\ req[r].srcKv # s /\ work[r].kv = s
  <2>1. SeamGuard(r)
    BY DEF OwnInv, SeamGuards
  <2>2. req[r].kv = s \/ req[r].srcKv = s => work[r].kv = None
    <3>1. req[r].kv = s \/ req[r].srcKv = s => req[r].pc \in {"seed", "held", "release", "handoff"}
      BY <2>1, PoolAssumption DEF SeamGuard
    <3> QED
      BY <3>1, NoWorkYet DEF Listening
  <2>3. ~(req[r].kv = s /\ req[r].srcKv = s)
    BY <2>1, PoolAssumption DEF SeamGuard
  <2> QED
    BY <1>3, <2>2, <2>3, PoolAssumption DEF Has
<1>4. CASE ~slots[s].busy
  BY <1>1, <1>2, <1>4 DEF Has
<1>5. CASE slots[s].busy /\ cold.kv = s
  <2>1. \A r \in Requests : ~Has(r, s)
    BY <1>1, <1>5
  <2> QED
    BY <1>2, <1>5, <2>1 DEF Has
<1>6. CASE slots[s].busy /\ cold.kv # s
  <2>1. PICK r \in Requests : Has(r, s)
    BY <1>1, <1>6
  <2>2. \A q \in Requests : Has(q, s) => q = r
    BY <1>1, <2>1
  <2>3. CASE req[r].kv = s
    <3>1. <<"guard", r>> \in AllHoldersOf(s)
      BY <1>2, <2>3
    <3>2. \A h \in AllHoldersOf(s) : h = <<"guard", r>>
      BY <1>2, <1>3, <1>6, <2>1, <2>2, <2>3 DEF Has
    <3>3. AllHoldersOf(s) = {<<"guard", r>>}
      BY <3>1, <3>2
    <3> QED
      BY <1>6, <3>1, <3>3
  <2>4. CASE req[r].srcKv = s
    <3>1. <<"source", r>> \in AllHoldersOf(s)
      BY <1>2, <2>4
    <3>2. \A h \in AllHoldersOf(s) : h = <<"source", r>>
      BY <1>2, <1>3, <1>6, <2>1, <2>2, <2>4 DEF Has
    <3>3. AllHoldersOf(s) = {<<"source", r>>}
      BY <3>1, <3>2
    <3> QED
      BY <1>6, <3>1, <3>3
  <2>5. CASE work[r].kv = s
    <3>1. <<"work", r>> \in AllHoldersOf(s)
      BY <1>2, <2>5
    <3>2. \A h \in AllHoldersOf(s) : h = <<"work", r>>
      BY <1>2, <1>3, <1>6, <2>1, <2>2, <2>5 DEF Has
    <3>3. AllHoldersOf(s) = {<<"work", r>>}
      BY <3>1, <3>2
    <3> QED
      BY <1>6, <3>1, <3>3
  <2> QED
    BY <2>1, <2>3, <2>4, <2>5 DEF Has
<1> QED
  BY <1>4, <1>5, <1>6

-----------------------------------------------------------------------------
(* The theorems. *)

\* The cohort never outgrows the lanes of the token buffers.
THEOREM CohortFits == Spec => []CohortBounded
<1>1. SeamInv => CohortBounded
  BY DEF SeamInv
<1> QED
  BY <1>1, SeamInit, SeamStep, PTL DEF Spec

\* No call is left in the rendezvous send of an acknowledgement nobody takes.
THEOREM AcksAreExpected == Spec => []AckExpected
<1>1. SeamInv => AckExpected
  BY DEF SeamInv
<1> QED
  BY <1>1, SeamInit, SeamStep, PTL DEF Spec

\* Queued work is not forgotten: the scheduler is about to look, or the interrupt is up.
THEOREM WorkIsNotStranded == Spec => []NoStrandedWork
<1>1. SeamInv => NoStrandedWork
  BY DEF SeamInv
<1> QED
  BY <1>1, SeamInit, SeamStep, PTL DEF Spec

\* A KV is in its free slot or with one holder, through guard, queue, cohort and cold worker.
THEOREM SeamHasSoleOwner == Spec => []SeamSoleOwner
<1>1. OwnInv => SeamSoleOwner
  BY OneSeamHolder DEF OwnInv, SlotShape, SeamSoleOwner
<1> QED
  BY <1>1, OwnInit, OwnStep, PTL DEF Spec

\* A listening call has one work, queued once or in the cohort, with the KV of its slot.
THEOREM WaitersHaveWork == Spec => []WaiterHasWork
<1>1. ASSUME OwnInv PROVE WaiterHasWork
  <2>1. /\ waiting \in Seq(Requests)
        /\ \A i, j \in 1..Len(waiting) : waiting[i] = waiting[j] => i = j
        /\ Queued \cap active = {}
    BY <1>1 DEF OwnInv, SeamInv, TypeOK, QueueShape
  <2>2. Len(waiting) = Cardinality(Queued)
    <3>1. Len(waiting) \in Nat /\ waiting \in [1..Len(waiting) -> Queued]
      BY <2>1, LenProperties DEF Queued
    <3>2. waiting \in Injection(1..Len(waiting), Queued)
      BY <2>1, <3>1 DEF Injection, IsInjective
    <3>3. waiting \in Surjection(1..Len(waiting), Queued)
      BY <3>1 DEF Surjection, Queued
    <3>4. IsFiniteSet(1..Len(waiting)) /\ Cardinality(1..Len(waiting)) = Len(waiting)
      BY <3>1, FS_Interval
    <3> QED
      BY <3>2, <3>3, <3>4, FS_Surjection
  <2>3. \A r \in Requests : Alive(r) => r \in Queued \cup active
    BY <1>1 DEF OwnInv, SeamInv, Listeners, Scheduled
  <2>4. \A r \in Queued \cup active : work[r].kv # None
    BY <1>1, PoolAssumption DEF OwnInv, WorkKv, Scheduled
  <2> QED
    BY <2>1, <2>2, <2>3, <2>4 DEF WaiterHasWork
<1> QED
  BY <1>1, OwnInit, OwnStep, PTL DEF Spec

\* Only a forward step spends a budget.
LEMMA OnlyStepsSpend ==
  ASSUME SeamInv, [Next]_vars, NEW r \in Requests, work'[r].gen > work[r].gen
  PROVE  SchedStep
<1>0. work \in [Requests -> WorkType] /\ work[r].gen \in 0..MaxNew /\ MaxNew \in Nat
  BY SeamAssumption DEF SeamInv, TypeOK, WorkType
<1>1. work'[r].gen # work[r].gen /\ work' # work
  BY <1>0
<1>2. ~(\E q \in Requests : Thread(q))
  <2> SUFFICES ASSUME NEW q \in Requests, Thread(q) PROVE FALSE
    OBVIOUS
  <2>1. Enqueue(q)
    BY <1>1 DEF Thread, Register, Encoded, Enter, Lease, Streamed, schedVars
  <2>2. work' = [work EXCEPT ![q] = [NoWork EXCEPT !.kv = req[q].kv, !.slot = req[q].slot,
                                                   !.prepared = IsImage(q)]]
    BY <2>1 DEF Enqueue
  <2>3. work'[r].gen = 0 \/ work'[r] = work[r]
    BY <1>0, <2>2 DEF NoWork
  <2> QED
    BY <1>0, <2>3
<1>3. ~(\E q \in Requests : Retire(q) \/ Fail(q))
  <2> SUFFICES ASSUME NEW q \in Requests, Retire(q) \/ Fail(q) PROVE FALSE
    OBVIOUS
  <2>1. work' = [work EXCEPT ![q] = NoWork]
    BY DEF Retire, Fail, GiveBack
  <2>2. work'[r].gen = 0 \/ work'[r] = work[r]
    BY <1>0, <2>1 DEF NoWork
  <2> QED
    BY <1>0, <2>2
<1>4. ~(\E q \in Requests : SendToken(q) \/ ReceiveAck(q))
  BY <1>1, ExchangesKv
<1>5. ~(SchedPrepare \/ SchedLong \/ SchedGroup \/ SchedAccount) \/ SchedStep
  BY <1>1, ComputesKv
<1>6. ~(SchedGathered \/ SchedDrain \/ SchedRefill \/ SchedCoalesce \/ CloseQueue)
  BY <1>1, AdmitsScheduled
<1>7. ~(SchedWait \/ SchedPoll \/ SchedYield \/ SchedDelivered \/ Retired \/ ComputeError \/ Closed)
  BY <1>1 DEF SchedWait, SchedPoll, SchedYield, SchedDelivered, Retired, ComputeError, Closed
<1>8. ~Cold /\ ~Quiet /\ ~UNCHANGED vars
  BY <1>1 DEF Cold, Quiet, vars
<1> QED
  BY <1>2, <1>3, <1>4, <1>5, <1>6, <1>7, <1>8 DEF Next, SchedNext

\* No token is sampled while a member of the cohort is in its long prefill.
THEOREM LongPrefillIsExclusive == Spec => LongPrefillExclusive
<1>1. ASSUME SeamInv, [Next]_vars
      PROVE  [\A r \in Requests : work'[r].gen > work[r].gen => \A q \in active : ~Long(q)]_vars
  <2> SUFFICES ASSUME NEW r \in Requests, work'[r].gen > work[r].gen
               PROVE  \A q \in active : ~Long(q)
    OBVIOUS
  <2>1. SchedStep
    BY <1>1, OnlyStepsSpend
  <2> QED
    BY <1>1, <2>1 DEF SchedStep, At, SeamInv, NoLong
<1> QED
  BY <1>1, SeamInit, SeamStep, PTL DEF Spec, LongPrefillExclusive

\* No step of the engine strands a sleeper next to a free slot.
LEMMA StrandStep == TypeOK /\ StrandInv /\ [Next]_vars => StrandInv'
<1> SUFFICES ASSUME TypeOK, StrandInv, [Next]_vars PROVE StrandInv'
  OBVIOUS
<1>1. slots \in [Slots -> SlotType] /\ req \in [Requests -> GuardType(Pcs)]
  BY DEF TypeOK
<1>2. ASSUME NEW r \in Requests, UNCHANGED slots, NEW g, req' = [req EXCEPT ![r] = g],
             g.pc = req[r].pc \/ (req[r].pc # "checkout" /\ g.pc # "asleep")
      PROVE  StrandInv'
  <2>1. /\ req'[r].pc = req[r].pc \/ (req[r].pc # "checkout" /\ req'[r].pc # "asleep")
        /\ \A q \in Requests \ {r} : req'[q].pc = req[q].pc
    BY <1>1, <1>2
  <2> QED
    BY <1>2, <2>1, StrandAside
<1>3. ASSUME NEW r \in Requests, UNCHANGED slots, req[r].pc # "checkout",
             NEW pc, pc # "asleep", req' = [req EXCEPT ![r].pc = pc]
      PROVE  StrandInv'
  BY <1>1, <1>2, <1>3 DEF GuardType
<1>4. ASSUME UNCHANGED <<slots, req>> PROVE StrandInv'
  BY <1>4, StrandReserve
<1>5. ASSUME NEW r \in Requests, Thread(r) PROVE StrandInv'
  <2>1. CASE Register(r)
    BY <1>3, <2>1 DEF Register
  <2>2. CASE Encoded(r)
    <3>1. /\ UNCHANGED slots /\ req[r].pc = "encode"
          /\ \E pc : pc # "asleep" /\ req' = [req EXCEPT ![r].pc = pc]
      BY <2>2 DEF Encoded
    <3> QED
      BY <1>3, <3>1
  <2>3. CASE Enter(r)
    BY <1>3, <2>3 DEF Enter, GoCheckout
  <2>4. CASE Lease(r)
    <3>1. {"held", "done"} \subseteq Pcs
      BY DEF Pcs, PoolPcs
    <3>2. "asleep" \notin (IF IsImage(r) THEN {"handoff", "release"} ELSE {"release"})
      OBVIOUS
    <3> QED
      BY <1>1, <2>4, <3>1, <3>2, StrandThread DEF Lease
  <2>5. CASE Enqueue(r)
    <3>1. /\ UNCHANGED slots /\ req[r].pc \in {"held", "handoff"}
          /\ req' = [req EXCEPT ![r].pc = "wait", ![r].kv = None]
      BY <2>5 DEF Enqueue
    <3>2. [req EXCEPT ![r].pc = "wait", ![r].kv = None]
            = [req EXCEPT ![r] = [req[r] EXCEPT !.pc = "wait", !.kv = None]]
      BY <1>1 DEF GuardType
    <3>3. [req[r] EXCEPT !.pc = "wait", !.kv = None].pc = "wait"
      BY <1>1 DEF GuardType
    <3> QED
      BY <1>2, <3>1, <3>2, <3>3
  <2>6. CASE Streamed(r)
    <3>1. UNCHANGED slots /\ req[r].pc = "token"
      BY <2>6 DEF Streamed
    <3>2. PICK pc \in {"keep", "stop", "done"} :
            req' = [req EXCEPT ![r] = IF pc = "done" THEN [NoGuard EXCEPT !.pc = "done"]
                                                     ELSE [req[r] EXCEPT !.pc = pc]]
      BY <2>6 DEF Streamed
    <3>3. (IF pc = "done" THEN [NoGuard EXCEPT !.pc = "done"]
                          ELSE [req[r] EXCEPT !.pc = pc]).pc = pc
      BY <1>1 DEF NoGuard, GuardType
    <3> QED
      BY <1>2, <3>1, <3>2, <3>3
  <2> QED
    BY <1>5, <2>1, <2>2, <2>3, <2>4, <2>5, <2>6 DEF Thread
<1>6. ASSUME NEW r \in Requests, SendToken(r) \/ ReceiveAck(r) PROVE StrandInv'
  <2>1. UNCHANGED slots
    BY <1>6 DEF SendToken, ReceiveAck
  <2>2. \/ UNCHANGED req
        \/ req[r].pc # "checkout" /\ \E pc : pc # "asleep" /\ req' = [req EXCEPT ![r].pc = pc]
    BY <1>6 DEF SendToken, ReceiveAck
  <2> QED
    BY <1>3, <1>4, <2>1, <2>2
<1>7. ASSUME NEW r \in Requests, Retire(r) \/ Fail(r) PROVE StrandInv'
  <2>1. GiveBack(r)
    BY <1>7 DEF Retire, Fail
  <2>2. CASE req[r].pc = "wait" /\ UNCHANGED slots
             /\ req' = [req EXCEPT ![r].pc = "release", ![r].kv = work[r].kv]
    <3>1. [req EXCEPT ![r].pc = "release", ![r].kv = work[r].kv]
            = [req EXCEPT ![r] = [req[r] EXCEPT !.pc = "release", !.kv = work[r].kv]]
      BY <1>1 DEF GuardType
    <3>2. [req[r] EXCEPT !.pc = "release", !.kv = work[r].kv].pc = "release"
      BY <1>1 DEF GuardType
    <3> QED
      BY <1>2, <2>2, <3>1, <3>2
  <2>3. CASE NotifyFreed(req) /\ \E x, y : slots' = [slots EXCEPT ![x] = y]
    <3>1. req = [req EXCEPT ![r] = req[r]] /\ req[r] \in GuardType(Pcs)
      BY <1>1
    <3>2. NotifyFreed([req EXCEPT ![r] = req[r]])
      BY <2>3, <3>1
    <3> QED
      BY <1>1, <2>3, <3>1, <3>2, StrandReturn
  <2> QED
    BY <1>4, <2>1, <2>2, <2>3 DEF GiveBack
<1>8. CASE SchedPrepare \/ SchedLong \/ SchedGroup \/ SchedStep \/ SchedAccount
  BY <1>4, <1>8 DEF SchedPrepare, SchedLong, SchedGroup, SchedStep, SchedAccount, poolVars
<1>9. CASE SchedGathered \/ SchedDrain \/ SchedRefill \/ SchedCoalesce \/ CloseQueue
  BY <1>4, <1>9 DEF SchedGathered, SchedDrain, SchedRefill, SchedCoalesce, CloseQueue, poolVars
<1>10. CASE SchedWait \/ SchedPoll \/ SchedYield \/ SchedDelivered \/ Retired \/ ComputeError \/ Closed
  BY <1>4, <1>10
  DEF SchedWait, SchedPoll, SchedYield, SchedDelivered, Retired, ComputeError, Closed, poolVars
<1>11. CASE UNCHANGED vars
  BY <1>4, <1>11 DEF vars, poolVars
<1> QED
  BY <1>1, <1>5, <1>6, <1>7, <1>8, <1>9, <1>10, <1>11, StrandCold DEF Next, SchedNext, Cold, Quiet

\* While calls sleep for a slot, every free slot has a call on its way: whoever gives a slot back
\* (guard, copy source, cold worker, or the scheduler for a call that is gone) wakes enough.
THEOREM NobodyStrandedNextToASlot == Spec => []NoStrandedWaiter
<1>1. StrandInv => NoStrandedWaiter
  BY DEF StrandInv
<1>2. Init => StrandInv
  BY StrandInit DEF Init
<1> QED
  BY <1>1, <1>2, SeamIsTyped, StrandStep, PTL DEF Spec
=============================================================================
